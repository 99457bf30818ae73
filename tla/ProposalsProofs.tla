--------------------------- MODULE ProposalsProofs ---------------------------
(***************************************************************************)
(* Proofs about Proposals, for any users, jobs, calls and crashes: every   *)
(* hire was agreed to by both sides, and no decision is ever undone by     *)
(* starting over.                                                          *)
(***************************************************************************)
EXTENDS Proposals, FiniteSetTheorems, TLAPS

Both == {"client", "freelancer"}
Decided == {"shortlisted", "awaiting_acceptance", "hired", "rejected"}

(* The types; and whatever is being handled is about some proposal and     *)
(* asks for something its handler knows.                                   *)
Shape ==
  /\ row \in [Proposals -> Row]
  /\ call \in [Calls -> Call]
  /\ hired \in [Proposals -> Nat]
  /\ agreed \in [Proposals -> SUBSET Both]

Asks(k) ==
  k.pc \notin {"idle", "ended"} =>
    /\ k.p \in Proposals
    /\ \/ k.op = "create" /\ k.pc \in {"apply", "count", "insert", "notify"}
       \/ k.op = "accept" /\ k.pc \in {"load", "reload", "write", "publish"}
       \/ k.op = "update" /\ k.pc \in {"load", "reload", "write"}
            /\ k.to \in {"shortlisted", "hired", "rejected"}

(* A status stands on the signatures accepted so far.  This holds of the   *)
(* rows and, since a handler may write its object much later, of every     *)
(* object on its way to one.                                               *)
Backed(status, signed) ==
  /\ status = "awaiting_acceptance" => "client" \in signed
  /\ status = "hired" => signed = Both

InHand(k, signed) ==
  /\ k.pc \in {"reload", "write"} =>
       /\ k.entity.status \in Decided
       /\ Backed(k.entity.status, signed)
       /\ k.op = "accept" => k.entity.status = "hired"
  /\ k.pc = "publish" => signed = Both

Agreement ==
  /\ \A p \in Proposals : Backed(row[p].status, agreed[p])
  /\ \A p \in Proposals : hired[p] > 0 => agreed[p] = Both
  /\ \A c \in Calls : Asks(call[c]) /\ InHand(call[c], agreed[call[c].p])

IInv == Shape /\ Agreement

-----------------------------------------------------------------------------

(* More signatures back whatever fewer did. *)
LEMMA BackedByMore ==
  ASSUME NEW status, NEW S \in SUBSET Both, NEW T \in SUBSET Both, S \subseteq T
  PROVE  /\ Backed(status, S) => Backed(status, T)
         /\ S = Both => T = Both
BY DEF Backed, Both

(* A step of one handler, on one proposal, keeps the invariant if what the *)
(* call and the row become is in order and no signature is forgotten.      *)
LEMMA HandlerStep ==
  ASSUME IInv, NEW c \in Calls, NEW p \in Proposals,
         NEW k \in Call, NEW r \in Row, NEW signed \in SUBSET Both, NEW h \in Nat,
         call' = [call EXCEPT ![c] = k],
         row' = [row EXCEPT ![p] = r],
         agreed' = [agreed EXCEPT ![p] = signed],
         hired' = [hired EXCEPT ![p] = h],
         Backed(r.status, signed), agreed[p] \subseteq signed,
         h > 0 => signed = Both,
         Asks(k), k.p = p, InHand(k, signed)
  PROVE  IInv'
<1>1. Shape'
  <2>1. row' \in [Proposals -> Row] /\ call' \in [Calls -> Call]
    BY DEF IInv, Shape
  <2>2. hired' \in [Proposals -> Nat] /\ agreed' \in [Proposals -> SUBSET Both]
    BY DEF IInv, Shape
  <2>3. QED BY <2>1, <2>2 DEF Shape
<1>2. ASSUME NEW q \in Proposals
      PROVE  /\ agreed[q] \subseteq agreed'[q] /\ agreed'[q] \in SUBSET Both
             /\ Backed(row'[q].status, agreed'[q])
             /\ hired'[q] > 0 => agreed'[q] = Both
  <2>1. CASE q = p
    <3>1. row'[q] = r /\ agreed'[q] = signed /\ hired'[q] = h
      BY <2>1 DEF IInv, Shape
    <3>2. QED BY <2>1, <3>1
  <2>2. CASE q # p
    <3>1. row'[q] = row[q] /\ agreed'[q] = agreed[q] /\ hired'[q] = hired[q]
      BY <2>2 DEF IInv, Shape
    <3>2. QED BY <3>1 DEF IInv, Shape, Agreement
  <2>3. QED BY <2>1, <2>2
<1>3. ASSUME NEW d \in Calls
      PROVE  Asks(call'[d]) /\ InHand(call'[d], agreed'[call'[d].p])
  <2>1. CASE d = c
    <3>1. call'[d] = k /\ agreed'[p] = signed
      BY <2>1 DEF IInv, Shape
    <3>2. QED BY <3>1
  <2>2. CASE d # c
    <3>1. call'[d] = call[d] /\ Asks(call[d]) /\ InHand(call[d], agreed[call[d].p])
      BY <2>2 DEF IInv, Shape, Agreement
    <3>2. CASE call[d].pc \in {"idle", "ended"}
      BY <3>1, <3>2 DEF InHand
    <3>3. CASE call[d].pc \notin {"idle", "ended"}
      <4>1. call[d].p \in Proposals BY <3>1, <3>3 DEF Asks
      <4>2. /\ agreed[call[d].p] \in SUBSET Both /\ agreed'[call[d].p] \in SUBSET Both
            /\ agreed[call[d].p] \subseteq agreed'[call[d].p]
        BY <4>1, <1>2 DEF IInv, Shape
      <4>3. InHand(call[d], agreed'[call[d].p])
        BY <3>1, <4>2, BackedByMore DEF InHand
      <4>4. QED BY <3>1, <4>3
    <3>4. QED BY <3>2, <3>3
  <2>3. QED BY <2>1, <2>2
<1>4. Agreement' BY <1>2, <1>3 DEF Agreement
<1>5. QED BY <1>1, <1>4 DEF IInv

(* In particular a step that changes its call and nothing else. *)
LEMMA OneCallStep ==
  ASSUME IInv, NEW c \in Calls, NEW k \in Call,
         call' = [call EXCEPT ![c] = k],
         Asks(k), InHand(k, agreed[k.p]),
         UNCHANGED <<row, hired, agreed>>
  PROVE  IInv'
<1>1. Shape' BY DEF IInv, Shape
<1>2. Agreement'
  <2>1. ASSUME NEW d \in Calls PROVE Asks(call'[d]) /\ InHand(call'[d], agreed[call'[d].p])
    <3>1. CASE d = c
      <4>1. call'[d] = k BY <3>1 DEF IInv, Shape
      <4>2. QED BY <4>1
    <3>2. CASE d # c
      <4>1. call'[d] = call[d] BY <3>2 DEF IInv, Shape
      <4>2. QED BY <4>1 DEF IInv, Agreement
    <3>3. QED BY <3>1, <3>2
  <2>2. QED BY <2>1 DEF IInv, Agreement
<1>3. QED BY <1>1, <1>2 DEF IInv

(* What a handler in progress knows of its own call. *)
LEMMA OwnCall ==
  ASSUME IInv, NEW c \in Calls, call[c].pc \notin {"idle", "ended"}
  PROVE  /\ call[c] \in Call /\ Asks(call[c]) /\ InHand(call[c], agreed[call[c].p])
         /\ call[c].p \in Proposals
         /\ agreed[call[c].p] \in SUBSET Both
         /\ Backed(row[call[c].p].status, agreed[call[c].p])
         /\ row[call[c].p] \in Row
         /\ hired[call[c].p] \in Nat
         /\ hired[call[c].p] > 0 => agreed[call[c].p] = Both
<1>1. call[c] \in Call /\ Asks(call[c]) /\ InHand(call[c], agreed[call[c].p])
  BY DEF IInv, Shape, Agreement
<1>2. call[c].p \in Proposals BY <1>1 DEF Asks
<1>3. QED BY <1>1, <1>2 DEF IInv, Shape, Agreement

(* A handler that returns. *)
LEMMA EndStep ==
  ASSUME IInv, NEW c \in Calls, End(c), UNCHANGED <<row, hired, agreed>>
  PROVE  IInv'
<1> DEFINE k == [NoCall EXCEPT !.pc = "ended", !.op = call[c].op, !.p = call[c].p]
<1>1. k \in Call /\ k.pc = "ended"
  <2>1. call[c].p \in Proposals \cup {<<NoUser, "none">>} /\ call[c].op \in {"none", "create", "update", "accept"}
    BY DEF IInv, Shape, Call
  <2>2. QED BY <2>1 DEF NoCall, NoRow, Call, Row
<1>2. call' = [call EXCEPT ![c] = k] BY DEF End
<1> HIDE DEF k
<1>3. k \in Call /\ Asks(k) /\ InHand(k, agreed[k.p]) BY <1>1 DEF Asks, InHand
<1>4. QED BY <1>2, <1>3, OneCallStep

-----------------------------------------------------------------------------

(* A request asks for nothing the handlers do not know. *)
LEMMA RequestStep ==
  ASSUME IInv, NEW c \in Calls, NEW op \in {"create", "update", "accept"}, NEW p \in Proposals,
         NEW by \in Users, NEW to \in {"none", "shortlisted", "hired", "rejected"},
         Request(c, op, p, by, to)
  PROVE  IInv'
<1> DEFINE k == [NoCall EXCEPT !.pc = Start(op), !.op = op, !.p = p, !.by = by, !.to = to]
<1>1. k \in Call /\ k.pc = Start(op) /\ k.op = op /\ k.p = p /\ k.to = to
  BY DEF NoCall, NoRow, Call, Row, Start
<1>2. call' = [call EXCEPT ![c] = k] BY DEF Request
<1> HIDE DEF k
<1>3. Asks(k) /\ InHand(k, agreed[k.p])
  BY <1>1 DEF Asks, InHand, Request, Start
<1>4. QED BY <1>1, <1>2, <1>3, OneCallStep DEF Request

(* The steps of an application, up to the insert, change a pc. *)
LEMMA ApplyStep ==
  ASSUME IInv, NEW c \in Calls, Apply(c) \/ Count(c) \/ Notify(c)
  PROVE  IInv'
<1>1. CASE End(c)
  BY <1>1, EndStep DEF Apply, Count, Notify
<1>2. ASSUME NEW pc \in {"count", "insert"}, Goto(c, pc), call[c].pc \in {"apply", "count"}
      PROVE  IInv'
  <2> DEFINE k == [call[c] EXCEPT !.pc = pc]
  <2>1. call' = [call EXCEPT ![c] = k] BY <1>2 DEF Goto
  <2>2. k \in Call /\ Asks(k) /\ InHand(k, agreed[k.p])
    BY <1>2, OwnCall DEF Asks, InHand, Call
  <2> HIDE DEF k
  <2>3. UNCHANGED <<row, hired, agreed>>
    BY DEF Apply, Count, Notify
  <2>4. QED BY <2>1, <2>2, <2>3, OneCallStep
<1>3. QED BY <1>1, <1>2 DEF Apply, Count, Notify

(* The insert makes a pending row where the index has none. *)
LEMMA InsertStep ==
  ASSUME IInv, NEW c \in Calls, Insert(c)
  PROVE  IInv'
<1> DEFINE p == call[c].p
           k == [call[c] EXCEPT !.pc = "notify"]
<1>1. /\ call[c] \in Call /\ Asks(call[c]) /\ call[c].pc = "insert" /\ p \in Proposals
      /\ agreed[p] \in SUBSET Both /\ hired[p] \in Nat /\ (hired[p] > 0 => agreed[p] = Both)
  BY OwnCall DEF Insert
<1>2. CASE End(c) /\ UNCHANGED row
  BY <1>2, EndStep DEF Insert
<1>3. CASE row' = [row EXCEPT ![p] = Pending] /\ Goto(c, "notify")
  <2>1. call' = [call EXCEPT ![c] = k] BY <1>3 DEF Goto
  <2>2. k \in Call /\ k.p = p /\ Asks(k) /\ InHand(k, agreed[p])
    BY <1>1 DEF Asks, InHand, Call
  <2>3. Pending \in Row /\ Backed(Pending.status, agreed[p])
    BY DEF Pending, NoRow, Row, Backed
  <2>4. /\ agreed' = [agreed EXCEPT ![p] = agreed[p]]
        /\ hired' = [hired EXCEPT ![p] = hired[p]]
    BY DEF Insert, IInv, Shape
  <2> HIDE DEF k, p
  <2>5. QED BY <1>1, <1>3, <2>1, <2>2, <2>3, <2>4, HandlerStep
<1>4. QED BY <1>2, <1>3 DEF Insert

(* A handler's decision is backed by the signatures it has just verified.  *)
LEMMA EditedIsBacked ==
  ASSUME NEW k \in Call, NEW r \in Row, NEW S \in SUBSET Both,
         Allowed(k, r), Backed(r.status, S), Asks(k), k.pc = "load"
  PROVE  /\ Edited(k, r) \in Row
         /\ Edited(k, r).status \in Decided
         /\ Backed(Edited(k, r).status, S \cup Signatures(k))
         /\ k.op = "accept" => Edited(k, r).status = "hired"
         /\ Backed(r.status, S \cup Signatures(k))
         /\ S \cup Signatures(k) \in SUBSET Both
<1>1. CASE k.op = "accept"
  <2>1. r.status = "awaiting_acceptance" BY <1>1 DEF Allowed, MayAccept
  <2>2. "client" \in S BY <2>1 DEF Backed
  <2>3. /\ Edited(k, r) \in Row /\ Edited(k, r).status = "hired"
        /\ Signatures(k) = {"freelancer"}
    BY <1>1 DEF Edited, Signatures, Row
  <2>4. S \cup {"freelancer"} = Both BY <2>2 DEF Both
  <2>5. QED BY <2>1, <2>2, <2>3, <2>4 DEF Backed, Decided
<1>2. CASE k.op = "update" /\ k.to = "hired"
  <2>1. /\ Edited(k, r) \in Row /\ Edited(k, r).status = "awaiting_acceptance"
        /\ Signatures(k) = {"client"}
    BY <1>2 DEF Edited, Signatures, Row
  <2>2. QED BY <1>2, <2>1 DEF Backed, Decided, Both
<1>3. CASE k.op = "update" /\ k.to \in {"shortlisted", "rejected"}
  <2>1. /\ Edited(k, r) \in Row /\ Edited(k, r).status = k.to
        /\ Signatures(k) = {}
    BY <1>3 DEF Edited, Signatures, Row
  <2>2. QED BY <1>3, <2>1 DEF Backed, Decided
<1>4. QED BY <1>1, <1>2, <1>3 DEF Asks

(* A handler that loads a row holds an object the row backs.               *)
LEMMA LoadStep ==
  ASSUME IInv, NEW c \in Calls, Load(c)
  PROVE  IInv'
<1> DEFINE kc == call[c]
           p == kc.p
           r == row[p]
           signed == agreed[p] \cup Signatures(kc)
           e == Edited(kc, r)
           k == [kc EXCEPT !.pc = "reload", !.entity = e]
<1>1. /\ kc \in Call /\ Asks(kc) /\ kc.pc = "load" /\ p \in Proposals
      /\ agreed[p] \in SUBSET Both /\ Backed(r.status, agreed[p]) /\ r \in Row
      /\ hired[p] \in Nat /\ (hired[p] > 0 => agreed[p] = Both)
  BY OwnCall DEF Load
<1>2. CASE End(c) /\ UNCHANGED agreed
  BY <1>2, EndStep DEF Load
<1>3. CASE /\ Allowed(kc, r)
           /\ call' = [call EXCEPT ![c] = k]
           /\ agreed' = [agreed EXCEPT ![p] = signed]
  <2>1. /\ e \in Row /\ e.status \in Decided /\ Backed(e.status, signed)
        /\ (kc.op = "accept" => e.status = "hired")
        /\ Backed(r.status, signed) /\ signed \in SUBSET Both
    <3>1. Allowed(kc, r) BY <1>3
    <3> DEFINE S == agreed[p]
    <3>2. S \in SUBSET Both /\ Backed(r.status, S) BY <1>1
    <3> HIDE DEF kc, r, k, S
    <3>3. /\ Edited(kc, r) \in Row /\ Edited(kc, r).status \in Decided
          /\ Backed(Edited(kc, r).status, S \cup Signatures(kc))
          /\ (kc.op = "accept" => Edited(kc, r).status = "hired")
          /\ Backed(r.status, S \cup Signatures(kc))
          /\ S \cup Signatures(kc) \in SUBSET Both
      BY <1>1, <3>1, <3>2, EditedIsBacked
    <3>4. QED BY <3>3 DEF S
  <2>2. row' = [row EXCEPT ![p] = r] /\ hired' = [hired EXCEPT ![p] = hired[p]]
    BY DEF Load, IInv, Shape
  <2>3. agreed[p] \subseteq signed /\ (hired[p] > 0 => signed = Both)
    BY <1>1, <2>1
  <2> HIDE DEF e, signed, r
  <2>4. k \in Call /\ k.p = p /\ Asks(k) /\ InHand(k, signed)
    BY <1>1, <2>1 DEF Asks, InHand, Call
  <2> HIDE DEF k, p
  <2>5. QED BY <1>1, <1>3, <2>1, <2>2, <2>3, <2>4, HandlerStep
<1>4. QED BY <1>2, <1>3 DEF Load

(* The reload compares; nothing that it finds changes what the call holds. *)
LEMMA ReloadStep ==
  ASSUME IInv, NEW c \in Calls, Reload(c)
  PROVE  IInv'
<1> DEFINE differs == {f \in Columns : call[c].entity[f] # row[call[c].p][f]}
           k == [call[c] EXCEPT !.pc = "write", !.changed = differs]
<1>1. call[c] \in Call /\ Asks(call[c]) /\ call[c].pc = "reload" /\ InHand(call[c], agreed[call[c].p])
  BY OwnCall DEF Reload
<1>2. call' = [call EXCEPT ![c] = k] /\ UNCHANGED <<row, hired, agreed>>
  BY DEF Reload
<1>3. differs \in SUBSET Columns OBVIOUS
<1> HIDE DEF differs
<1>4. k \in Call /\ Asks(k) /\ InHand(k, agreed[k.p])
  BY <1>1, <1>3 DEF Asks, InHand, Call
<1> HIDE DEF k
<1>5. QED BY <1>2, <1>4, OneCallStep

(* A stale object may win a column and lose another; either way the status *)
(* that is saved is the object's or the row's, and both are backed.        *)
LEMMA WriteStep ==
  ASSUME IInv, NEW c \in Calls, Write(c)
  PROVE  IInv'
<1> DEFINE kc == call[c]
           p == kc.p
           r == [f \in Columns |-> IF f \in kc.changed THEN kc.entity[f] ELSE row[p][f]]
<1>1. /\ kc \in Call /\ Asks(kc) /\ kc.pc = "write" /\ p \in Proposals /\ InHand(kc, agreed[p])
      /\ agreed[p] \in SUBSET Both /\ Backed(row[p].status, agreed[p]) /\ row[p] \in Row
      /\ hired[p] \in Nat /\ (hired[p] > 0 => agreed[p] = Both)
  BY OwnCall DEF Write
<1>2. kc.entity \in Row /\ Backed(kc.entity.status, agreed[p])
  BY <1>1 DEF Call, InHand
<1>3. r \in Row /\ r.status \in {kc.entity.status, row[p].status}
  BY <1>1, <1>2 DEF Row, Columns
<1>4. Backed(r.status, agreed[p]) BY <1>1, <1>2, <1>3
<1>5. /\ row' = [row EXCEPT ![p] = r]
      /\ agreed' = [agreed EXCEPT ![p] = agreed[p]]
      /\ hired' = [hired EXCEPT ![p] = hired[p]]
  BY DEF Write, IInv, Shape
<1> HIDE DEF r
<1>6. ASSUME NEW k \in Call, call' = [call EXCEPT ![c] = k], k.p = p, Asks(k), InHand(k, agreed[p])
      PROVE  IInv'
  <2> HIDE DEF p, kc
  <2>1. QED BY <1>1, <1>3, <1>4, <1>5, <1>6, HandlerStep
<1>7. CASE kc.op = "accept" /\ Goto(c, "publish")
  <2> DEFINE k == [kc EXCEPT !.pc = "publish"]
  <2>1. call' = [call EXCEPT ![c] = k] BY <1>7 DEF Goto
  <2>2. agreed[p] = Both BY <1>1, <1>7 DEF InHand, Backed
  <2>3. k \in Call /\ k.p = p /\ Asks(k) /\ InHand(k, agreed[p])
    BY <1>1, <1>7, <2>2 DEF Asks, InHand, Call
  <2> HIDE DEF k
  <2>4. QED BY <1>6, <2>1, <2>3
<1>8. CASE End(c)
  <2> DEFINE k == [NoCall EXCEPT !.pc = "ended", !.op = kc.op, !.p = p]
  <2>1. call' = [call EXCEPT ![c] = k] BY <1>8 DEF End
  <2>2. k \in Call /\ k.p = p /\ k.pc = "ended"
    <3>1. p \in Proposals /\ kc.op \in {"none", "create", "update", "accept"}
      BY <1>1 DEF Call
    <3>2. QED BY <3>1 DEF NoCall, NoRow, Call, Row
  <2> HIDE DEF k
  <2>3. Asks(k) /\ InHand(k, agreed[p]) BY <2>2 DEF Asks, InHand
  <2>4. QED BY <1>6, <2>1, <2>2, <2>3
<1>9. QED BY <1>7, <1>8 DEF Write

(* An announcement is of a hire both sides signed.                         *)
LEMMA PublishStep ==
  ASSUME IInv, NEW c \in Calls, Publish(c)
  PROVE  IInv'
<1> DEFINE p == call[c].p
           r == row[p]
           k == [NoCall EXCEPT !.pc = "ended", !.op = call[c].op, !.p = p]
<1>1. /\ call[c] \in Call /\ call[c].pc = "publish" /\ p \in Proposals
      /\ InHand(call[c], agreed[p]) /\ agreed[p] \in SUBSET Both
      /\ Backed(r.status, agreed[p]) /\ r \in Row /\ hired[p] \in Nat
  BY OwnCall DEF Publish
<1>2. agreed[p] = Both BY <1>1 DEF InHand
<1>3. /\ call' = [call EXCEPT ![c] = k]
      /\ hired' = [hired EXCEPT ![p] = hired[p] + 1]
      /\ row' = [row EXCEPT ![p] = r]
      /\ agreed' = [agreed EXCEPT ![p] = agreed[p]]
  BY DEF Publish, End, IInv, Shape
<1>4. k \in Call /\ k.p = p /\ k.pc = "ended"
  <2>1. call[c].op \in {"none", "create", "update", "accept"} BY <1>1 DEF Call
  <2>2. QED BY <1>1, <2>1 DEF NoCall, NoRow, Call, Row
<1>5. hired[p] + 1 \in Nat BY <1>1
<1> HIDE DEF k, p, r
<1>6. Asks(k) /\ InHand(k, agreed[p]) BY <1>4 DEF Asks, InHand
<1>7. QED BY <1>1, <1>2, <1>3, <1>4, <1>5, <1>6, HandlerStep

(* A redelivered call starts with nothing in hand. *)
LEMMA CrashStep ==
  ASSUME IInv, Crash
  PROVE  IInv'
<1> DEFINE Restarted(k) == [k EXCEPT !.pc = Start(k.op), !.entity = NoRow, !.changed = {}]
<1>1. UNCHANGED <<row, hired, agreed>> BY DEF Crash
<1>2. ASSUME NEW c \in Calls
      PROVE  /\ call'[c] \in Call /\ Asks(call'[c])
             /\ InHand(call'[c], agreed[call'[c].p])
  <2>1. call[c] \in Call /\ Asks(call[c]) /\ InHand(call[c], agreed[call[c].p])
    BY DEF IInv, Shape, Agreement
  <2>2. CASE c \in Handled
    <3>1. call'[c] = Restarted(call[c]) /\ call[c].pc \notin {"idle", "ended"}
      BY <2>2 DEF Crash, Handled
    <3>2. call[c].op \in {"create", "accept", "update"} BY <2>1, <3>1 DEF Asks
    <3>3. /\ Restarted(call[c]) \in Call /\ Restarted(call[c]).pc = Start(call[c].op)
          /\ Restarted(call[c]).p = call[c].p /\ Restarted(call[c]).op = call[c].op
          /\ Restarted(call[c]).to = call[c].to
      BY <2>1, <3>2 DEF Start, NoRow, Call, Row
    <3> HIDE DEF Restarted
    <3>4. QED BY <2>1, <3>1, <3>2, <3>3 DEF Asks, InHand, Start
  <2>3. CASE c \notin Handled
    <3>1. call'[c] = call[c] BY <2>3 DEF Crash
    <3>2. QED BY <2>1, <3>1
  <2>4. QED BY <2>2, <2>3
<1>3. call' \in [Calls -> Call]
  <2>1. call' = [c \in Calls |-> call'[c]] BY DEF Crash
  <2>2. QED BY <1>2, <2>1
<1>4. QED BY <1>1, <1>2, <1>3 DEF IInv, Shape, Agreement

-----------------------------------------------------------------------------

(* At the start nothing is decided and no handler holds an object.         *)
LEMMA InitAgreement ==
  ASSUME Init PROVE IInv
<1>1. NoRow \in Row /\ Pending \in Row /\ NoCall \in Call
  BY DEF NoRow, Pending, NoCall, Row, Call
<1>2. Shape BY <1>1 DEF Init, Shape
<1>3. \A c \in Calls : Asks(call[c]) /\ InHand(call[c], agreed[call[c].p])
  BY DEF Init, NoCall, Asks, InHand
<1>4. \A p \in Proposals : Backed(row[p].status, agreed[p]) /\ ~ (hired[p] > 0)
  BY DEF Init, NoRow, Pending, Backed
<1>5. QED BY <1>2, <1>3, <1>4 DEF IInv, Agreement

(* Every step keeps rows, objects in hand and announcements backed.        *)
LEMMA NextAgreement ==
  ASSUME IInv, [Next]_vars PROVE IInv'
<1>1. CASE UNCHANGED vars
  BY <1>1 DEF vars, IInv, Shape, Agreement
<1>2. CASE \E c \in Calls, op \in {"create", "update", "accept"}, p \in Proposals, by \in Users,
         to \in {"none", "shortlisted", "hired", "rejected"} : Request(c, op, p, by, to)
  BY <1>2, RequestStep
<1>3. ASSUME NEW c \in Calls, Handle(c) PROVE IInv'
  BY <1>3, ApplyStep, InsertStep, LoadStep, ReloadStep, WriteStep, PublishStep DEF Handle
<1>4. CASE Crash BY <1>4, CrashStep
<1>5. QED BY <1>1, <1>2, <1>3, <1>4 DEF Next

(* The invariant behind the theorems below, which says of every handler in *)
(* progress that what it is about to save is still backed by signatures.   *)
THEOREM AgreementKept == Spec => []IInv
<1>1. QED BY InitAgreement, NextAgreement, PTL DEF Spec

(* Whatever overlaps, is saved late or is redelivered, nobody is hired and *)
(* no hire announced unless the client signed the offer and the applicant  *)
(* its acceptance (updateStatus and acceptOffer verify before they save).  *)
THEOREM HiredByBoth == Spec => []AgreedByBoth
<1>1. IInv => AgreedByBoth
  BY DEF IInv, Agreement, Backed, AgreedByBoth, Both
<1>2. QED BY <1>1, AgreementKept, PTL

(* Nothing turns a decided proposal back into a pending one: the index     *)
(* stops a second insert, and a stale object that is saved is never        *)
(* pending itself.                                                         *)
THEOREM DecisionsStand == Spec => NeverStartsOver
<1>1. IInv /\ [Next]_vars =>
        [\A p \in Proposals : row[p].status # "None" /\ row'[p].status = "pending"
           => row[p].status = "pending"]_vars
  <2> SUFFICES ASSUME IInv, Next, NEW p \in Proposals,
                      row[p].status # "None", row'[p].status = "pending"
               PROVE  row[p].status = "pending"
    BY DEF vars
  <2>1. CASE row' = row BY <2>1
  <2>2. ASSUME NEW c \in Calls, Insert(c), row' # row PROVE row[p].status = "pending"
    <3>1. row[call[c].p] = NoRow /\ row' = [row EXCEPT ![call[c].p] = Pending]
      BY <2>2 DEF Insert, Free
    <3>2. p # call[c].p BY <3>1 DEF NoRow
    <3>3. QED BY <3>1, <3>2 DEF IInv, Shape
  <2>3. ASSUME NEW c \in Calls, Write(c) PROVE row[p].status = "pending"
    <3>1. call[c] \in Call /\ InHand(call[c], agreed[call[c].p]) /\ call[c].pc = "write"
      BY <2>3 DEF Write, IInv, Shape, Agreement
    <3>2. call[c].entity.status # "pending" BY <3>1 DEF InHand, Decided
    <3>3. row'[p].status \in {row[p].status, call[c].entity.status}
      BY <2>3 DEF Write, IInv, Shape, Row, Columns
    <3>4. QED BY <3>2, <3>3
  <2>4. QED
    BY <2>1, <2>2, <2>3 DEF Next, Handle, Request, Apply, Count, Notify, Load, Reload, Publish, Crash
<1>2. QED BY <1>1, AgreementKept, PTL DEF Spec, NeverStartsOver

-----------------------------------------------------------------------------
(* The daily limit.                                                        *)
(*                                                                         *)
(* An application that has passed the count but has not been inserted yet  *)
(* is one that AppliedToday does not show.  There are never more of these  *)
(* than calls being handled, so the two together stay within the limit and *)
(* the calls that were handled along with the last one that passed.        *)

Inserting(u) == {c \in Calls : call[c].pc = "insert" /\ call[c].by = u}

Within(u) ==
  /\ IsFiniteSet(AppliedToday(u))
  /\ Cardinality(AppliedToday(u)) + Cardinality(Inserting(u)) <= DailyLimit + MaxHandled - 1

Limited ==
  /\ Cardinality(Handled) <= MaxHandled
  /\ \A p \in Proposals : row[p].status = "None" => row[p] = NoRow
  /\ \A c \in Calls :
       /\ c \in Handled /\ call[c].op = "create" => call[c].by = call[c].p[1]
       /\ call[c].pc \in {"reload", "write"} => row[call[c].p].status # "None"
  /\ \A u \in Users : Within(u)

(* The calls are finitely many, whatever is done with them.                *)
LEMMA CallsFinite ==
  ASSUME NEW S, S \subseteq Calls
  PROVE  IsFiniteSet(S) /\ Cardinality(S) \in Nat
<1>1. IsFiniteSet(Calls)
  BY FS_Interval, ProposalsAssumption DEF Calls
<1>2. IsFiniteSet(S)
  BY <1>1, FS_Subset
<1>3. QED BY <1>2, FS_CardinalityType

(* Cardinalities of finite sets that grow by one element at most.          *)
LEMMA Smaller ==
  ASSUME NEW S, NEW T, IsFiniteSet(T), S \subseteq T
  PROVE  IsFiniteSet(S) /\ Cardinality(S) \in Nat /\ Cardinality(T) \in Nat
         /\ Cardinality(S) <= Cardinality(T)
<1>1. IsFiniteSet(S) /\ Cardinality(S) <= Cardinality(T)
  BY FS_Subset
<1>2. QED BY <1>1, FS_CardinalityType

LEMMA OneMore ==
  ASSUME NEW S, NEW T, NEW x, IsFiniteSet(S), T \subseteq S \cup {x}
  PROVE  IsFiniteSet(T) /\ Cardinality(T) \in Nat /\ Cardinality(T) <= Cardinality(S) + 1
<1>1. Cardinality(S) \in Nat
  BY FS_CardinalityType
<1>2. /\ IsFiniteSet(S \cup {x})
      /\ Cardinality(S \cup {x}) = IF x \in S THEN Cardinality(S) ELSE Cardinality(S) + 1
  BY FS_AddElement
<1>3. IsFiniteSet(T) /\ Cardinality(T) \in Nat /\ Cardinality(T) <= Cardinality(S \cup {x})
  BY <1>2, Smaller
<1>4. QED BY <1>1, <1>2, <1>3

(* A step of one call that adds no application: it is handled already or   *)
(* there was room for it, and it passes the count only under the limit.    *)
LEMMA WithinKept ==
  ASSUME IInv, Limited, NEW c \in Calls, NEW k \in Call,
         call' = [call EXCEPT ![c] = k],
         \A p \in Proposals : row'[p] = NoRow <=> row[p] = NoRow,
         \A p \in Proposals : row'[p].status = "None" => row'[p] = NoRow,
         k.pc = "ended" \/ c \in Handled \/ Cardinality(Handled) < MaxHandled,
         k.op = "create" => k.by = k.p[1] \/ k.pc = "ended",
         k.pc = "insert" => UnderLimit(k.by),
         k.pc \in {"reload", "write"} => k.p \in Proposals /\ row[k.p].status # "None"
  PROVE  Limited'
<1>1. /\ DailyLimit \in Nat /\ MaxHandled \in Nat \ {0}
      /\ \A d \in Calls : call'[d] = IF d = c THEN k ELSE call[d]
  BY ProposalsAssumption DEF IInv, Shape
<1>2. \A p \in Proposals : row'[p].status = "None" <=> row[p].status = "None"
  BY DEF Limited, NoRow
<1>3. Cardinality(Handled') <= MaxHandled
  <2>1. CASE k.pc = "ended" \/ c \in Handled
    <3>1. Handled' \subseteq Handled /\ Handled \subseteq Calls
      BY <1>1, <2>1 DEF Handled
    <3>2. QED BY <1>1, <3>1, CallsFinite, Smaller DEF Limited
  <2>2. CASE Cardinality(Handled) < MaxHandled
    <3>1. Handled' \subseteq Handled \cup {c} /\ Handled \subseteq Calls
      BY <1>1 DEF Handled
    <3>2. /\ Cardinality(Handled') <= Cardinality(Handled) + 1
          /\ Cardinality(Handled') \in Nat /\ Cardinality(Handled) \in Nat
      BY <3>1, CallsFinite, OneMore
    <3>3. QED BY <1>1, <2>2, <3>2
  <2>3. QED BY <2>1, <2>2
<1>4. ASSUME NEW u \in Users PROVE Within(u)'
  <2>1. AppliedToday(u)' = AppliedToday(u)
    BY DEF AppliedToday
  <2>2. /\ IsFiniteSet(AppliedToday(u)) /\ Cardinality(AppliedToday(u)) \in Nat
        /\ Cardinality(AppliedToday(u)) + Cardinality(Inserting(u)) <= DailyLimit + MaxHandled - 1
    BY FS_CardinalityType DEF Limited, Within
  <2>3. /\ IsFiniteSet(Inserting(u)) /\ Cardinality(Inserting(u)) \in Nat
        /\ IsFiniteSet(Inserting(u)') /\ Cardinality(Inserting(u)') \in Nat
    BY CallsFinite DEF Inserting
  <2>4. CASE k.pc = "insert" /\ k.by = u
    <3>1. Inserting(u)' \subseteq Handled' /\ Handled' \subseteq Calls
      BY DEF Inserting, Handled
    <3>2. Cardinality(Inserting(u)') <= Cardinality(Handled') /\ Cardinality(Handled') \in Nat
      BY <3>1, CallsFinite, Smaller
    <3>3. Cardinality(AppliedToday(u)) < DailyLimit
      BY <2>4 DEF UnderLimit
    <3>4. QED BY <1>1, <1>3, <2>1, <2>2, <2>3, <3>2, <3>3 DEF Within
  <2>5. CASE ~ (k.pc = "insert" /\ k.by = u)
    <3>1. Inserting(u)' \subseteq Inserting(u)
      BY <1>1, <2>5 DEF Inserting
    <3>2. Cardinality(Inserting(u)') <= Cardinality(Inserting(u))
      BY <2>3, <3>1, Smaller
    <3>3. QED BY <1>1, <2>1, <2>2, <2>3, <3>2 DEF Within
  <2>6. QED BY <2>4, <2>5
<1>5. ASSUME NEW d \in Calls
      PROVE  /\ d \in Handled' /\ call'[d].op = "create" => call'[d].by = call'[d].p[1]
             /\ call'[d].pc \in {"reload", "write"} => row'[call'[d].p].status # "None"
  <2>1. CASE d = c
    BY <1>1, <1>2, <2>1 DEF Handled
  <2>2. CASE d # c
    <3>1. call'[d] = call[d] /\ Asks(call[d])
      BY <1>1, <2>2 DEF IInv, Agreement
    <3>2. call[d].pc \in {"reload", "write"} => call[d].p \in Proposals
      BY <3>1 DEF Asks
    <3>3. QED BY <1>2, <3>1, <3>2 DEF Limited, Handled
  <2>3. QED BY <2>1, <2>2
<1>6. QED BY <1>3, <1>4, <1>5 DEF Limited

(* The insert turns an application that has passed the count into a row.   *)
LEMMA WithinInsert ==
  ASSUME IInv, Limited, NEW c \in Calls, NEW k \in Call,
         call[c].pc = "insert", row[call[c].p] = NoRow,
         call' = [call EXCEPT ![c] = k], row' = [row EXCEPT ![call[c].p] = Pending],
         k.pc = "notify", k.op = "create", k.by = call[c].by, k.p = call[c].p
  PROVE  Limited'
<1> DEFINE p == call[c].p
           u == call[c].by
<1>1. /\ p \in Proposals /\ call[c].op = "create" /\ u = p[1]
  BY OwnCall DEF Asks, Limited, Handled
<1>2. /\ DailyLimit \in Nat /\ MaxHandled \in Nat \ {0}
      /\ \A d \in Calls : call'[d] = IF d = c THEN k ELSE call[d]
      /\ \A q \in Proposals : row'[q] = IF q = p THEN Pending ELSE row[q]
  BY ProposalsAssumption DEF IInv, Shape
<1>3. Handled' \subseteq Handled /\ Handled \subseteq Calls
  BY <1>2 DEF Handled
<1>4. Cardinality(Handled') <= MaxHandled
  BY <1>2, <1>3, CallsFinite, Smaller DEF Limited
<1>5. Pending # NoRow /\ Pending.status = "pending" /\ NoRow.status = "None"
  BY DEF Pending, NoRow
<1> HIDE DEF p, u
<1>6. ASSUME NEW v \in Users PROVE Within(v)'
  <2>1. /\ IsFiniteSet(AppliedToday(v)) /\ Cardinality(AppliedToday(v)) \in Nat
        /\ Cardinality(AppliedToday(v)) + Cardinality(Inserting(v)) <= DailyLimit + MaxHandled - 1
    BY FS_CardinalityType DEF Limited, Within
  <2>2. /\ IsFiniteSet(Inserting(v)) /\ Cardinality(Inserting(v)) \in Nat
    BY CallsFinite DEF Inserting
  <2>3. CASE v = u
    <3>1. Inserting(v)' \subseteq Inserting(v) \ {c} /\ c \in Inserting(v)
      BY <1>2, <2>3 DEF Inserting, u
    <3>2. IsFiniteSet(Inserting(v) \ {c}) /\ Cardinality(Inserting(v) \ {c}) = Cardinality(Inserting(v)) - 1
      BY <2>2, <3>1, FS_RemoveElement
    <3>3. /\ Cardinality(Inserting(v)') <= Cardinality(Inserting(v)) - 1
          /\ Cardinality(Inserting(v)') \in Nat
      BY <3>1, <3>2, Smaller
    <3>4. AppliedToday(v)' \subseteq AppliedToday(v) \cup {p}
      BY <1>2 DEF AppliedToday
    <3>5. /\ IsFiniteSet(AppliedToday(v)') /\ Cardinality(AppliedToday(v)') \in Nat
          /\ Cardinality(AppliedToday(v)') <= Cardinality(AppliedToday(v)) + 1
      BY <2>1, <3>4, OneMore
    <3>6. QED BY <1>2, <2>1, <2>2, <3>3, <3>5 DEF Within
  <2>4. CASE v # u
    <3>1. Inserting(v)' \subseteq Inserting(v)
      BY <1>2, <2>4 DEF Inserting
    <3>2. Cardinality(Inserting(v)') <= Cardinality(Inserting(v)) /\ Cardinality(Inserting(v)') \in Nat
      BY <2>2, <3>1, Smaller
    <3>3. AppliedToday(v)' = AppliedToday(v)
      BY <1>1, <1>2, <2>4 DEF AppliedToday
    <3>4. QED BY <1>2, <2>1, <2>2, <3>2, <3>3 DEF Within
  <2>5. QED BY <2>3, <2>4
<1>7. ASSUME NEW d \in Calls
      PROVE  /\ d \in Handled' /\ call'[d].op = "create" => call'[d].by = call'[d].p[1]
             /\ call'[d].pc \in {"reload", "write"} => row'[call'[d].p].status # "None"
  <2>1. CASE d = c
    BY <1>1, <1>2, <2>1 DEF p, u
  <2>2. CASE d # c
    <3>1. call'[d] = call[d] /\ Asks(call[d])
      BY <1>2, <2>2 DEF IInv, Agreement
    <3>2. call[d].pc \in {"reload", "write"} => call[d].p \in Proposals
      BY <3>1 DEF Asks
    <3>3. QED BY <1>2, <1>5, <3>1, <3>2 DEF Limited, Handled
  <2>3. QED BY <2>1, <2>2
<1>8. \A q \in Proposals : row'[q].status = "None" => row'[q] = NoRow
  BY <1>2, <1>5 DEF Limited
<1>9. QED BY <1>4, <1>6, <1>7, <1>8 DEF Limited

(* A handler that returns stays within the limit. *)
LEMMA WithinEnd ==
  ASSUME IInv, Limited, NEW c \in Calls, End(c), row' = row,
         call[c].pc \notin {"idle", "ended"}
  PROVE  Limited'
<1> DEFINE k == [NoCall EXCEPT !.pc = "ended", !.op = call[c].op, !.p = call[c].p]
<1>1. call[c] \in Call /\ call[c].p \in Proposals
  BY OwnCall
<1>2. call' = [call EXCEPT ![c] = k] BY DEF End
<1>3. k \in Call /\ k.pc = "ended"
  <2>1. call[c].op \in {"none", "create", "update", "accept"} BY <1>1 DEF Call
  <2>2. QED BY <1>1, <2>1 DEF NoCall, NoRow, Call, Row
<1> HIDE DEF k
<1>4. \A p \in Proposals : row'[p].status = "None" => row'[p] = NoRow
  BY DEF Limited
<1>5. QED BY <1>2, <1>3, <1>4, WithinKept

(* A handler that goes on, and writes no row. *)
LEMMA WithinMove ==
  ASSUME IInv, Limited, NEW c \in Calls, NEW k \in Call, c \in Handled,
         call' = [call EXCEPT ![c] = k], row' = row,
         k.op = call[c].op, k.by = call[c].by, k.p = call[c].p,
         k.pc = "insert" => UnderLimit(k.by),
         k.pc \in {"reload", "write"} => row[k.p].status # "None"
  PROVE  Limited'
<1>1. call[c].p \in Proposals /\ (call[c].op = "create" => call[c].by = call[c].p[1])
  BY OwnCall DEF Handled, Limited
<1>2. \A p \in Proposals : row'[p].status = "None" => row'[p] = NoRow
  BY DEF Limited
<1>3. QED BY <1>1, <1>2, WithinKept

LEMMA WithinHandle ==
  ASSUME IInv, Limited, NEW c \in Calls, Handle(c)
  PROVE  Limited'
<1>1. c \in Handled /\ call[c].pc \notin {"idle", "ended"}
  BY DEF Handle, Apply, Count, Insert, Notify, Load, Reload, Write, Publish, Handled
<1>2. call[c] \in Call /\ Asks(call[c]) /\ call[c].p \in Proposals /\ row[call[c].p] \in Row
  BY <1>1, OwnCall
<1>3. ASSUME NEW pc \in {"count", "insert", "notify", "publish"}, Goto(c, pc), row' = row,
             pc = "insert" => UnderLimit(call[c].by)
      PROVE  Limited'
  <2> DEFINE k == [call[c] EXCEPT !.pc = pc]
  <2>1. call' = [call EXCEPT ![c] = k] BY <1>3 DEF Goto
  <2>2. /\ k \in Call /\ k.pc = pc /\ k.op = call[c].op /\ k.by = call[c].by /\ k.p = call[c].p
    BY <1>2 DEF Call
  <2> HIDE DEF k
  <2>3. QED BY <1>1, <1>3, <2>1, <2>2, WithinMove
<1>4. CASE Apply(c)
  BY <1>1, <1>3, <1>4, WithinEnd DEF Apply
<1>5. CASE Count(c)
  BY <1>1, <1>3, <1>5, WithinEnd DEF Count
<1>6. CASE Insert(c)
  <2>1. CASE UNCHANGED row /\ End(c)
    BY <1>1, <2>1, WithinEnd
  <2>2. CASE row[call[c].p] = NoRow /\ row' = [row EXCEPT ![call[c].p] = Pending] /\ Goto(c, "notify")
    <3> DEFINE k == [call[c] EXCEPT !.pc = "notify"]
    <3>1. call' = [call EXCEPT ![c] = k] BY <2>2 DEF Goto
    <3>2. k \in Call /\ k.pc = "notify" /\ k.op = call[c].op /\ k.by = call[c].by /\ k.p = call[c].p
      BY <1>2 DEF Call
    <3>3. call[c].pc = "insert" /\ call[c].op = "create"
      BY <1>2, <1>6 DEF Insert, Asks
    <3> HIDE DEF k
    <3>4. QED BY <2>2, <3>1, <3>2, <3>3, WithinInsert
  <2>3. QED BY <1>6, <2>1, <2>2 DEF Insert, Free
<1>7. CASE Notify(c)
  BY <1>1, <1>7, WithinEnd DEF Notify
<1>8. CASE Load(c)
  <2>1. CASE End(c)
    BY <1>1, <1>8, <2>1, WithinEnd DEF Load
  <2>2. CASE Allowed(call[c], row[call[c].p])
             /\ call' = [call EXCEPT ![c].pc = "reload", ![c].entity = Edited(call[c], row[call[c].p])]
    <3>0. PICK e : e = Edited(call[c], row[call[c].p])
      OBVIOUS
    <3> DEFINE k == [call[c] EXCEPT !.pc = "reload", !.entity = e]
    <3>1. call' = [call EXCEPT ![c] = k] BY <2>2, <3>0
    <3>2. e \in Row
      BY <1>2, <1>8, <3>0 DEF Asks, Load, Edited, Row
    <3>3. k \in Call /\ k.pc = "reload" /\ k.op = call[c].op /\ k.by = call[c].by /\ k.p = call[c].p
      BY <1>2, <3>2 DEF Call
    <3>4. row[call[c].p].status # "None"
      BY <2>2 DEF Allowed, MayAccept, MayUpdate
    <3>5. row' = row BY <1>8 DEF Load
    <3> HIDE DEF k
    <3>6. QED BY <1>1, <3>1, <3>3, <3>4, <3>5, WithinMove
  <2>3. QED BY <1>8, <2>1, <2>2 DEF Load
<1>9. CASE Reload(c)
  <2> DEFINE differs == {f \in Columns : call[c].entity[f] # row[call[c].p][f]}
             k == [call[c] EXCEPT !.pc = "write", !.changed = differs]
  <2>1. call' = [call EXCEPT ![c] = k] /\ row' = row BY <1>9 DEF Reload
  <2>2. differs \in SUBSET Columns OBVIOUS
  <2> HIDE DEF differs
  <2>3. k \in Call /\ k.pc = "write" /\ k.op = call[c].op /\ k.by = call[c].by /\ k.p = call[c].p
    BY <1>2, <2>2 DEF Call
  <2>4. row[call[c].p].status # "None"
    BY <1>9 DEF Reload, Limited
  <2> HIDE DEF k
  <2>5. QED BY <1>1, <2>1, <2>3, <2>4, WithinMove
<1>10. CASE Write(c)
  <2> DEFINE p == call[c].p
             r == [f \in Columns |-> IF f \in call[c].changed THEN call[c].entity[f] ELSE row[p][f]]
  <2>1. row' = [row EXCEPT ![p] = r] BY <1>10 DEF Write
  <2>2. /\ call[c].entity.status \in Decided /\ row[p].status # "None" /\ p \in Proposals
        /\ (call[c].op = "create" => call[c].by = p[1])
    BY <1>1, <1>2, <1>10, OwnCall DEF Write, InHand, Limited
  <2>3. r.status \in {call[c].entity.status, row[p].status}
    BY DEF Columns
  <2>4. r.status # "None" BY <2>2, <2>3 DEF Decided
  <2>5. r # NoRow /\ row[p] # NoRow BY <2>2, <2>4 DEF NoRow
  <2> HIDE DEF r
  <2>6. \A q \in Proposals :
          (row'[q] = NoRow <=> row[q] = NoRow) /\ (row'[q].status = "None" => row'[q] = NoRow)
    BY <2>1, <2>2, <2>4, <2>5 DEF IInv, Shape, Limited
  <2>7. ASSUME NEW k \in Call, call' = [call EXCEPT ![c] = k], k.pc \in {"ended", "publish"},
               k.pc = "publish" => k.op = call[c].op
        PROVE  Limited'
    <3>1. k.op = "create" => k.pc = "ended"
      BY <1>2, <1>10, <2>7 DEF Write, Asks
    <3>2. QED BY <1>1, <2>6, <2>7, <3>1, WithinKept
  <2>8. CASE Goto(c, "publish")
    <3> DEFINE k == [call[c] EXCEPT !.pc = "publish"]
    <3>1. call' = [call EXCEPT ![c] = k] BY <2>8 DEF Goto
    <3>2. k \in Call /\ k.pc = "publish" /\ k.op = call[c].op
      BY <1>2 DEF Call
    <3> HIDE DEF k
    <3>3. QED BY <2>7, <3>1, <3>2
  <2>9. CASE End(c)
    <3> DEFINE k == [NoCall EXCEPT !.pc = "ended", !.op = call[c].op, !.p = p]
    <3>1. call' = [call EXCEPT ![c] = k] BY <2>9 DEF End
    <3>2. k \in Call /\ k.pc = "ended"
      <4>1. call[c].op \in {"none", "create", "update", "accept"} BY <1>2 DEF Call
      <4>2. QED BY <1>2, <4>1 DEF NoCall, NoRow, Call, Row
    <3> HIDE DEF k
    <3>3. QED BY <2>7, <3>1, <3>2
  <2>10. QED BY <1>10, <2>8, <2>9 DEF Write
<1>11. CASE Publish(c)
  BY <1>1, <1>11, WithinEnd DEF Publish
<1>12. QED
  BY <1>4, <1>5, <1>6, <1>7, <1>8, <1>9, <1>10, <1>11 DEF Handle

LEMMA WithinRequest ==
  ASSUME IInv, Limited, NEW c \in Calls, NEW op \in {"create", "update", "accept"}, NEW p \in Proposals,
         NEW by \in Users, NEW to \in {"none", "shortlisted", "hired", "rejected"},
         Request(c, op, p, by, to)
  PROVE  Limited'
<1> DEFINE k == [NoCall EXCEPT !.pc = Start(op), !.op = op, !.p = p, !.by = by, !.to = to]
<1>1. /\ k \in Call /\ k.pc = Start(op) /\ k.op = op /\ k.p = p /\ k.by = by
      /\ Start(op) \in {"apply", "load"}
  BY DEF NoCall, NoRow, Call, Row, Start
<1>2. /\ call' = [call EXCEPT ![c] = k] /\ row' = row /\ Cardinality(Handled) < MaxHandled
      /\ (op = "create" => by = p[1])
  BY DEF Request
<1> HIDE DEF k
<1>3. \A q \in Proposals : row'[q].status = "None" => row'[q] = NoRow
  BY <1>2 DEF Limited
<1>4. QED BY <1>1, <1>2, <1>3, WithinKept

(* After a crash every call is to start again: none is past its count.     *)
LEMMA WithinCrash ==
  ASSUME IInv, Limited, Crash
  PROVE  Limited'
<1>1. ASSUME NEW d \in Calls
      PROVE  /\ call'[d].op = call[d].op /\ call'[d].by = call[d].by /\ call'[d].p = call[d].p
             /\ d \in Handled' <=> d \in Handled
             /\ call'[d].pc \notin {"insert", "reload", "write"}
  <2>1. call[d] \in Call /\ Asks(call[d])
    BY DEF IInv, Shape, Agreement
  <2>2. CASE d \in Handled
    <3>1. call'[d] = [call[d] EXCEPT !.pc = Start(call[d].op), !.entity = NoRow, !.changed = {}]
      BY <2>2 DEF Crash
    <3>2. QED BY <2>1, <2>2, <3>1 DEF Handled, Start, Call
  <2>3. CASE d \notin Handled
    BY <2>1, <2>3 DEF Crash, Handled
  <2>4. QED BY <2>2, <2>3
<1>2. Handled' = Handled
  BY <1>1 DEF Handled
<1>3. \A u \in Users : Inserting(u)' = {} /\ AppliedToday(u)' = AppliedToday(u)
  BY <1>1 DEF Inserting, AppliedToday, Crash
<1>4. ASSUME NEW u \in Users PROVE Within(u)'
  <2>1. /\ IsFiniteSet(AppliedToday(u)) /\ Cardinality(AppliedToday(u)) \in Nat
        /\ Cardinality(Inserting(u)) \in Nat
        /\ Cardinality(AppliedToday(u)) + Cardinality(Inserting(u)) <= DailyLimit + MaxHandled - 1
    BY FS_CardinalityType, CallsFinite DEF Limited, Within, Inserting
  <2>2. Cardinality({}) = 0 BY FS_EmptySet
  <2>3. QED BY <1>3, <2>1, <2>2, ProposalsAssumption DEF Within
<1>5. QED BY <1>1, <1>2, <1>4 DEF Limited, Crash

LEMMA LimitedInit ==
  ASSUME Init PROVE Limited
<1>1. Handled = {} /\ \A c \in Calls : call[c].pc = "idle" /\ call[c].op = "none"
  BY DEF Init, Handled, NoCall
<1>2. \A u \in Users : AppliedToday(u) = {} /\ Inserting(u) = {}
  BY <1>1 DEF Init, AppliedToday, Inserting
<1>3. IsFiniteSet({}) /\ Cardinality({}) = 0 BY FS_EmptySet
<1>4. \A p \in Proposals : row[p].status = "None" => row[p] = NoRow
  BY DEF Init, Pending, NoRow
<1>5. DailyLimit \in Nat /\ MaxHandled \in Nat \ {0}
  BY ProposalsAssumption
<1>6. \A u \in Users : Within(u)
  BY <1>2, <1>3, <1>5 DEF Within
<1>7. Cardinality(Handled) <= MaxHandled
  BY <1>1, <1>3, <1>5
<1>8. QED BY <1>1, <1>4, <1>6, <1>7 DEF Limited

(* However many applications are handled at once, and however often the    *)
(* service is restarted between a count and its insert, a user exceeds the *)
(* daily limit by less than the number of calls handled at a time.         *)
THEOREM OvershootBounded == Spec => []LimitOvershoot
<1>1. Init => Limited
  BY LimitedInit
<1>2. IInv /\ Limited /\ [Next]_vars => Limited'
  <2> SUFFICES ASSUME IInv, Limited, [Next]_vars PROVE Limited'
    OBVIOUS
  <2>1. CASE UNCHANGED vars
    BY <2>1 DEF vars, Limited, Within, Handled, AppliedToday, Inserting
  <2>2. QED BY <2>1, WithinRequest, WithinHandle, WithinCrash DEF Next
<1>3. Limited => LimitOvershoot
  <2> SUFFICES ASSUME Limited, NEW u \in Users
               PROVE  Cardinality(AppliedToday(u)) <= DailyLimit + MaxHandled - 1
    BY DEF LimitOvershoot
  <2>1. /\ Cardinality(AppliedToday(u)) \in Nat /\ Cardinality(Inserting(u)) \in Nat
        /\ Cardinality(AppliedToday(u)) + Cardinality(Inserting(u)) <= DailyLimit + MaxHandled - 1
    BY FS_CardinalityType, CallsFinite DEF Limited, Within, Inserting
  <2>2. QED BY <2>1, ProposalsAssumption
<1>4. QED BY <1>1, <1>2, <1>3, AgreementKept, PTL DEF Spec

-----------------------------------------------------------------------------
(* A proposal whose calls do not overlap.                                  *)
(*                                                                         *)
(* One call at a time works on it (Alone), so that the object it is about  *)
(* to save was made of the row as it is now (Current), the signatures of   *)
(* the row fit its status (Fits), and each acceptance saved is announced   *)
(* or about to be (Announced).                                             *)

Busy(c, p) == call[c].pc \notin {"idle", "ended"} /\ call[c].p = p

Current(k, r) ==
  k.pc \in {"reload", "write"} =>
    /\ Allowed(k, r) /\ k.entity = Edited(k, r)
    /\ k.pc = "write" => k.changed = {f \in Columns : k.entity[f] # r[f]}

Fits(r) ==
  /\ r.status = "awaiting_acceptance" => r.clientSigned = TRUE
  /\ r.status = "hired" => r.clientSigned = TRUE /\ r.freelancerSigned = TRUE
  /\ r.freelancerSigned = TRUE => r.status \in {"hired", "rejected"}

Announced(k, r, n) ==
  IF k.pc = "publish" THEN n = 0 /\ r.freelancerSigned = TRUE
  ELSE n = IF r.freelancerSigned THEN 1 ELSE 0

Alone(p) == \A c, d \in Calls : Busy(c, p) /\ Busy(d, p) => c = d

Orderly(p) ==
  /\ Alone(p)
  /\ Fits(row[p])
  /\ \A c \in Calls : Busy(c, p) => Current(call[c], row[p])
  /\ crashes = 0 =>
       /\ \A c \in Calls : Busy(c, p) => Announced(call[c], row[p], hired[p])
       /\ (\A c \in Calls : ~ Busy(c, p)) => hired[p] = IF row[p].freelancerSigned THEN 1 ELSE 0

Undisturbed == \A p \in Proposals \ overlapped : Orderly(p)

(* A step of a call on another proposal. *)
LEMMA OrderlyElsewhere ==
  ASSUME IInv, NEW p \in Proposals, Orderly(p), NEW c \in Calls, NEW k \in Call,
         call' = [call EXCEPT ![c] = k], k.p # p, ~ Busy(c, p),
         row'[p] = row[p], hired'[p] = hired[p], crashes' = crashes
  PROVE  Orderly(p)'
<1>1. \A d \in Calls : call'[d] = IF d = c THEN k ELSE call[d]
  BY DEF IInv, Shape
<1>2. \A d \in Calls : Busy(d, p)' <=> Busy(d, p)
  BY <1>1 DEF Busy
<1>3. \A d \in Calls : Busy(d, p) => call'[d] = call[d]
  BY <1>1
<1>4. QED BY <1>2, <1>3 DEF Orderly, Alone

(* A step of the call that works on the proposal. *)
LEMMA OrderlyHere ==
  ASSUME IInv, NEW p \in Proposals, Orderly(p), NEW c \in Calls, NEW k \in Call,
         call' = [call EXCEPT ![c] = k], k.p = p, Busy(c, p),
         NEW r \in Row, row'[p] = r, NEW n \in Nat, hired'[p] = n, crashes' = crashes,
         Fits(r), Current(k, r), crashes = 0 => Announced(k, r, n)
  PROVE  Orderly(p)'
<1>1. \A d \in Calls : call'[d] = IF d = c THEN k ELSE call[d]
  BY DEF IInv, Shape
<1>2. \A d \in Calls : Busy(d, p)' => d = c
  BY <1>1 DEF Busy, Orderly, Alone
<1>3. ASSUME \A d \in Calls : ~ Busy(d, p)', crashes = 0
      PROVE  n = IF r.freelancerSigned THEN 1 ELSE 0
  <2>1. k.pc \in {"idle", "ended"}
    BY <1>1, <1>3 DEF Busy
  <2>2. QED BY <1>3, <2>1 DEF Announced
<1>4. QED BY <1>1, <1>2, <1>3 DEF Orderly, Alone

(* What a call was allowed and makes of a row depends on what it asks for. *)
LEMMA SameRequest ==
  ASSUME NEW k, NEW l, k.op = l.op, k.p = l.p, k.by = l.by, k.to = l.to, NEW r
  PROVE  (Allowed(k, r) <=> Allowed(l, r)) /\ Edited(k, r) = Edited(l, r)
BY DEF Allowed, MayAccept, MayUpdate, Edited

(* An allowed edit of a row that fits makes one that fits, and counts as a *)
(* hire exactly when it is an acceptance.                                  *)
LEMMA EditFits ==
  ASSUME NEW k \in Call, NEW r \in Row, Allowed(k, r), Fits(r), Asks(k), k.pc \in {"reload", "write"}
  PROVE  /\ Edited(k, r) \in Row /\ Fits(Edited(k, r))
         /\ k.op = "accept" => r.freelancerSigned = FALSE /\ Edited(k, r).freelancerSigned = TRUE
         /\ k.op # "accept" => Edited(k, r).freelancerSigned = r.freelancerSigned
         /\ r.status # "rejected"
<1>1. CASE k.op = "accept"
  <2>1. r.status = "awaiting_acceptance"
    BY <1>1 DEF Allowed, MayAccept
  <2>2. Edited(k, r) = [r EXCEPT !.status = "hired", !.freelancerSigned = TRUE]
    BY <1>1 DEF Edited
  <2>3. QED BY <1>1, <2>1, <2>2 DEF Fits, Row
<1>2. CASE k.op = "update" /\ k.to = "hired"
  <2>1. r.status \notin {"None", "rejected", "hired", "awaiting_acceptance"}
    BY <1>2 DEF Allowed, MayUpdate
  <2>2. Edited(k, r) = [r EXCEPT !.status = "awaiting_acceptance", !.clientSigned = TRUE]
    BY <1>2 DEF Edited
  <2>3. QED BY <1>2, <2>1, <2>2 DEF Fits, Row
<1>3. CASE k.op = "update" /\ k.to \in {"shortlisted", "rejected"}
  <2>1. /\ r.status \notin {"None", "rejected"}
        /\ r.status \in {"hired", "awaiting_acceptance"} => k.to = "rejected"
    BY <1>3 DEF Allowed, MayUpdate
  <2>2. Edited(k, r) = [r EXCEPT !.status = k.to]
    BY <1>3 DEF Edited
  <2>3. QED BY <1>3, <2>1, <2>2 DEF Fits, Row
<1>4. QED BY <1>1, <1>2, <1>3 DEF Asks

(* A handler that returns leaves nothing unannounced behind. *)
LEMMA OrderlyEnd ==
  ASSUME IInv, NEW p \in Proposals, Orderly(p), NEW c \in Calls, End(c),
         call[c].pc \notin {"idle", "ended", "publish"},
         row' = row, hired' = hired, crashes' = crashes
  PROVE  Orderly(p)'
<1> DEFINE k == [NoCall EXCEPT !.pc = "ended", !.op = call[c].op, !.p = call[c].p]
<1>1. call[c] \in Call /\ call[c].p \in Proposals
  BY OwnCall
<1>2. call' = [call EXCEPT ![c] = k] BY DEF End
<1>3. k \in Call /\ k.pc = "ended" /\ k.p = call[c].p
  <2>1. call[c].op \in {"none", "create", "update", "accept"} BY <1>1 DEF Call
  <2>2. QED BY <1>1, <2>1 DEF NoCall, NoRow, Call, Row
<1> HIDE DEF k
<1>4. CASE call[c].p # p
  BY <1>2, <1>3, <1>4, OrderlyElsewhere DEF Busy
<1>5. CASE call[c].p = p
  <2>1. Busy(c, p) BY <1>5 DEF Busy
  <2>2. Current(k, row[p]) BY <1>3 DEF Current
  <2>3. Fits(row[p]) /\ (crashes = 0 => Announced(call[c], row[p], hired[p]))
    BY <2>1 DEF Orderly
  <2>4. crashes = 0 => Announced(k, row[p], hired[p])
    BY <1>3, <2>3 DEF Announced
  <2>5. row[p] \in Row /\ hired[p] \in Nat BY DEF IInv, Shape
  <2>6. QED BY <1>2, <1>3, <1>5, <2>1, <2>2, <2>3, <2>4, <2>5, OrderlyHere
<1>6. QED BY <1>4, <1>5

(* A handler that goes on without writing the row. *)
LEMMA OrderlyMove ==
  ASSUME IInv, NEW p \in Proposals, Orderly(p), NEW c \in Calls, NEW k \in Call,
         call[c].pc \notin {"idle", "ended", "publish"}, call' = [call EXCEPT ![c] = k],
         k.p = call[c].p, k.pc # "publish", k.p = p => Current(k, row[p]),
         row' = row, hired' = hired, crashes' = crashes
  PROVE  Orderly(p)'
<1>1. CASE call[c].p # p
  BY <1>1, OrderlyElsewhere DEF Busy
<1>2. CASE call[c].p = p
  <2>1. Busy(c, p) BY <1>2 DEF Busy
  <2>2. Fits(row[p]) /\ (crashes = 0 => Announced(call[c], row[p], hired[p]))
    BY <2>1 DEF Orderly
  <2>3. crashes = 0 => Announced(k, row[p], hired[p])
    BY <2>2 DEF Announced
  <2>4. row[p] \in Row /\ hired[p] \in Nat BY DEF IInv, Shape
  <2>5. QED BY <1>2, <2>1, <2>2, <2>3, <2>4, OrderlyHere
<1>3. QED BY <1>1, <1>2

LEMMA OrderlyHandle ==
  ASSUME IInv, NEW p \in Proposals, Orderly(p), NEW c \in Calls, Handle(c)
  PROVE  Orderly(p)'
<1>1. call[c].pc \notin {"idle", "ended"} /\ crashes' = crashes
  BY DEF Handle, Apply, Count, Insert, Notify, Load, Reload, Write, Publish
<1>2. call[c] \in Call /\ Asks(call[c]) /\ call[c].p \in Proposals /\ row[call[c].p] \in Row
  BY <1>1, OwnCall
<1>3. row[p] \in Row /\ hired[p] \in Nat BY DEF IInv, Shape
<1>4. ASSUME NEW pc \in {"count", "insert"}, Goto(c, pc), UNCHANGED <<row, hired>>,
             call[c].pc # "publish"
      PROVE  Orderly(p)'
  <2> DEFINE k == [call[c] EXCEPT !.pc = pc]
  <2>1. call' = [call EXCEPT ![c] = k] BY <1>4 DEF Goto
  <2>2. k \in Call /\ k.pc = pc /\ k.p = call[c].p BY <1>2 DEF Call
  <2> HIDE DEF k
  <2>3. Current(k, row[p]) BY <2>2 DEF Current
  <2>4. QED BY <1>1, <1>4, <2>1, <2>2, <2>3, OrderlyMove
<1>5. CASE Apply(c) \/ Count(c)
  BY <1>1, <1>4, <1>5, OrderlyEnd DEF Apply, Count
<1>6. CASE Notify(c)
  BY <1>1, <1>6, OrderlyEnd DEF Notify
<1>7. CASE Insert(c)
  <2>1. CASE UNCHANGED row /\ End(c)
    BY <1>1, <1>7, <2>1, OrderlyEnd DEF Insert
  <2>2. CASE row[call[c].p] = NoRow /\ row' = [row EXCEPT ![call[c].p] = Pending] /\ Goto(c, "notify")
    <3> DEFINE k == [call[c] EXCEPT !.pc = "notify"]
    <3>1. call' = [call EXCEPT ![c] = k] BY <2>2 DEF Goto
    <3>2. k \in Call /\ k.pc = "notify" /\ k.p = call[c].p BY <1>2 DEF Call
    <3> HIDE DEF k
    <3>3. hired' = hired /\ call[c].pc = "insert" BY <1>7 DEF Insert
    <3>4. CASE call[c].p # p
      <4>1. row'[p] = row[p] BY <2>2, <3>4
      <4>2. QED BY <1>1, <3>1, <3>2, <3>3, <3>4, <4>1, OrderlyElsewhere DEF Busy
    <3>5. CASE call[c].p = p
      <4>1. Busy(c, p) BY <1>1, <3>5 DEF Busy
      <4>2. row'[p] = Pending BY <2>2, <3>5 DEF IInv, Shape
      <4>3. Pending \in Row /\ Fits(Pending) /\ Pending.freelancerSigned = FALSE
        BY DEF Pending, NoRow, Row, Fits
      <4>4. Current(k, Pending) BY <3>2 DEF Current
      <4>5. crashes = 0 => hired[p] = 0
        BY <2>2, <3>3, <3>5, <4>1 DEF Orderly, Announced, NoRow
      <4>6. crashes = 0 => Announced(k, Pending, hired[p])
        BY <3>2, <4>3, <4>5 DEF Announced
      <4>7. QED BY <1>1, <1>3, <3>1, <3>2, <3>3, <3>5, <4>1, <4>2, <4>3, <4>4, <4>6, OrderlyHere
    <3>6. QED BY <3>4, <3>5
  <2>3. QED BY <1>7, <2>1, <2>2 DEF Insert, Free
<1>8. CASE Load(c)
  <2>1. CASE End(c)
    BY <1>1, <1>8, <2>1, OrderlyEnd DEF Load
  <2>2. CASE Allowed(call[c], row[call[c].p])
             /\ call' = [call EXCEPT ![c].pc = "reload", ![c].entity = Edited(call[c], row[call[c].p])]
    <3>0. PICK e : e = Edited(call[c], row[call[c].p])
      OBVIOUS
    <3> DEFINE k == [call[c] EXCEPT !.pc = "reload", !.entity = e]
    <3>1. call' = [call EXCEPT ![c] = k] BY <2>2, <3>0
    <3>2. e \in Row
      BY <1>2, <1>8, <3>0 DEF Asks, Load, Edited, Row
    <3>3. /\ k \in Call /\ k.pc = "reload" /\ k.op = call[c].op /\ k.by = call[c].by /\ k.p = call[c].p
          /\ k.to = call[c].to /\ k.entity = e
      BY <1>2, <3>2 DEF Call
    <3>4. UNCHANGED <<row, hired>> /\ call[c].pc = "load" BY <1>8 DEF Load
    <3> HIDE DEF k
    <3>5. k.p = p => Current(k, row[p])
      <4>1. Allowed(k, row[k.p]) <=> Allowed(call[c], row[k.p])
        BY <3>3, SameRequest
      <4>2. Edited(k, row[k.p]) = Edited(call[c], row[k.p])
        BY <3>3, SameRequest
      <4>3. QED BY <2>2, <3>0, <3>3, <4>1, <4>2 DEF Current
    <3>6. QED BY <1>1, <3>1, <3>3, <3>4, <3>5, OrderlyMove
  <2>3. QED BY <1>8, <2>1, <2>2 DEF Load
<1>9. CASE Reload(c)
  <2>0. PICK differs : differs = {f \in Columns : call[c].entity[f] # row[call[c].p][f]}
    OBVIOUS
  <2> DEFINE k == [call[c] EXCEPT !.pc = "write", !.changed = differs]
  <2>1. call' = [call EXCEPT ![c] = k] /\ UNCHANGED <<row, hired>> /\ call[c].pc = "reload"
    BY <1>9, <2>0 DEF Reload
  <2>2. /\ k \in Call /\ k.pc = "write" /\ k.op = call[c].op /\ k.by = call[c].by /\ k.p = call[c].p
        /\ k.to = call[c].to /\ k.entity = call[c].entity /\ k.changed = differs
    BY <1>2, <2>0 DEF Call
  <2> HIDE DEF k
  <2>3. k.p = p => Current(k, row[p])
    <3>1. CASE k.p = p
      <4>1. Allowed(call[c], row[p]) /\ call[c].entity = Edited(call[c], row[p])
        BY <1>1, <2>1, <2>2, <3>1 DEF Orderly, Busy, Current
      <4>2. (Allowed(k, row[p]) <=> Allowed(call[c], row[p])) /\ Edited(k, row[p]) = Edited(call[c], row[p])
        BY <2>2, SameRequest
      <4>3. k.changed = {f \in Columns : k.entity[f] # row[p][f]}
        BY <2>0, <2>2, <3>1
      <4>4. QED BY <2>2, <4>1, <4>2, <4>3 DEF Current
    <3>2. QED BY <3>1
  <2>4. QED BY <1>1, <2>1, <2>2, <2>3, OrderlyMove
<1>10. CASE Write(c)
  <2> DEFINE q == call[c].p
             r == [f \in Columns |-> IF f \in call[c].changed THEN call[c].entity[f] ELSE row[q][f]]
  <2>1. row' = [row EXCEPT ![q] = r] /\ hired' = hired /\ call[c].pc = "write"
    BY <1>10 DEF Write
  <2>2. PICK k : k \in Call /\ call' = [call EXCEPT ![c] = k] /\ k.p = q
                   /\ k.pc = (IF call[c].op = "accept" THEN "publish" ELSE "ended")
    <3>1. CASE call[c].op = "accept"
      <4> DEFINE l == [call[c] EXCEPT !.pc = "publish"]
      <4>1. call' = [call EXCEPT ![c] = l] BY <1>10, <3>1 DEF Write, Goto
      <4>2. l \in Call /\ l.pc = "publish" /\ l.p = q BY <1>2 DEF Call
      <4> HIDE DEF l, q
      <4>3. QED BY <3>1, <4>1, <4>2
    <3>2. CASE call[c].op # "accept"
      <4> DEFINE l == [NoCall EXCEPT !.pc = "ended", !.op = call[c].op, !.p = q]
      <4>1. call' = [call EXCEPT ![c] = l] BY <1>10, <3>2 DEF Write, End
      <4>2. l \in Call /\ l.pc = "ended" /\ l.p = q
        <5>1. call[c].op \in {"none", "create", "update", "accept"} BY <1>2 DEF Call
        <5>2. QED BY <1>2, <5>1 DEF NoCall, NoRow, Call, Row
      <4> HIDE DEF l, q
      <4>3. QED BY <3>2, <4>1, <4>2
    <3>3. QED BY <3>1, <3>2
  <2>3. CASE q # p
    <3>1. row'[p] = row[p] BY <2>1, <2>3
    <3>2. QED BY <1>1, <2>1, <2>2, <2>3, <3>1, OrderlyElsewhere DEF Busy
  <2>4. CASE q = p
    <3>1. Busy(c, p) BY <1>1, <2>4 DEF Busy
    <3>2. /\ Current(call[c], row[p]) /\ Fits(row[p])
          /\ crashes = 0 => Announced(call[c], row[p], hired[p])
      BY <3>1 DEF Orderly
    <3>3. PICK e : e = call[c].entity OBVIOUS
    <3>4. /\ Allowed(call[c], row[p]) /\ e = Edited(call[c], row[p])
          /\ call[c].changed = {f \in Columns : e[f] # row[p][f]}
      BY <2>1, <3>2, <3>3 DEF Current
    <3>5. /\ e \in Row /\ Fits(e)
          /\ call[c].op = "accept" => row[p].freelancerSigned = FALSE /\ e.freelancerSigned = TRUE
          /\ call[c].op # "accept" => e.freelancerSigned = row[p].freelancerSigned
      BY <1>2, <1>3, <2>1, <3>2, <3>4, EditFits
    <3>6. \A f \in Columns : r[f] = e[f]
      BY <2>4, <3>3, <3>4
    <3>7. r \in Row BY <1>2, <1>3, <2>4, <3>3, <3>5 DEF Row, Columns
    <3> HIDE DEF r
    <3>8. /\ r.status = e.status /\ r.clientSigned = e.clientSigned
          /\ r.freelancerSigned = e.freelancerSigned
      BY <3>6 DEF Columns
    <3>9. row'[p] = r BY <2>1, <2>4 DEF IInv, Shape
    <3>10. Fits(r) BY <3>5, <3>8 DEF Fits
    <3>11. Current(k, r) BY <2>2 DEF Current
    <3>12. crashes = 0 => Announced(k, r, hired[p])
      BY <2>1, <2>2, <3>2, <3>5, <3>8 DEF Announced
    <3>13. hired'[p] = hired[p] /\ k.p = p BY <2>1, <2>2, <2>4
    <3>14. QED BY <1>1, <1>3, <2>2, <3>1, <3>7, <3>9, <3>10, <3>11, <3>12, <3>13, OrderlyHere
  <2>5. QED BY <2>3, <2>4
<1>11. CASE Publish(c)
  <2> DEFINE k == [NoCall EXCEPT !.pc = "ended", !.op = call[c].op, !.p = call[c].p]
  <2>1. call' = [call EXCEPT ![c] = k] BY <1>11 DEF Publish, End
  <2>2. k \in Call /\ k.pc = "ended" /\ k.p = call[c].p
    <3>1. call[c].op \in {"none", "create", "update", "accept"} BY <1>2 DEF Call
    <3>2. QED BY <1>2, <3>1 DEF NoCall, NoRow, Call, Row
  <2> HIDE DEF k
  <2>3. /\ row' = row /\ hired' = [hired EXCEPT ![call[c].p] = hired[call[c].p] + 1]
        /\ call[c].pc = "publish"
    BY <1>11 DEF Publish
  <2>4. CASE call[c].p # p
    <3>1. hired'[p] = hired[p] BY <2>3, <2>4
    <3>2. QED BY <1>1, <2>1, <2>2, <2>3, <2>4, <3>1, OrderlyElsewhere DEF Busy
  <2>5. CASE call[c].p = p
    <3>1. Busy(c, p) BY <1>1, <2>5 DEF Busy
    <3>2. Fits(row[p]) /\ (crashes = 0 => Announced(call[c], row[p], hired[p]))
      BY <3>1 DEF Orderly
    <3>3. hired'[p] = hired[p] + 1 BY <2>3, <2>5 DEF IInv, Shape
    <3>4. crashes = 0 => Announced(k, row[p], hired[p] + 1)
      BY <2>2, <2>3, <3>2 DEF Announced
    <3>5. Current(k, row[p]) BY <2>2 DEF Current
    <3>6. hired[p] + 1 \in Nat BY <1>3
    <3>7. QED BY <1>1, <1>3, <2>1, <2>2, <2>3, <2>5, <3>1, <3>2, <3>3, <3>4, <3>5, <3>6, OrderlyHere
  <2>6. QED BY <2>4, <2>5
<1>12. QED
  BY <1>5, <1>6, <1>7, <1>8, <1>9, <1>10, <1>11 DEF Handle

(* A request that finds another call at work on the proposal disturbs it.  *)
LEMMA OrderlyRequest ==
  ASSUME IInv, NEW q \in Proposals, Orderly(q), NEW c \in Calls,
         NEW op \in {"create", "update", "accept"}, NEW p \in Proposals,
         NEW by \in Users, NEW to \in {"none", "shortlisted", "hired", "rejected"},
         Request(c, op, p, by, to), q \notin overlapped'
  PROVE  Orderly(q)'
<1> DEFINE k == [NoCall EXCEPT !.pc = Start(op), !.op = op, !.p = p, !.by = by, !.to = to]
<1>1. k \in Call /\ k.pc \in {"apply", "load"} /\ k.p = p
  BY DEF NoCall, NoRow, Call, Row, Start
<1>2. /\ call' = [call EXCEPT ![c] = k] /\ call[c].pc = "idle"
      /\ UNCHANGED <<row, hired, crashes>>
      /\ overlapped' = IF \E d \in Handled : call[d].p = p THEN overlapped \cup {p} ELSE overlapped
  BY DEF Request
<1> HIDE DEF k
<1>3. CASE p # q
  BY <1>1, <1>2, <1>3, OrderlyElsewhere DEF Busy
<1>4. CASE p = q
  <2>1. \A d \in Calls : ~ Busy(d, q)
    BY <1>2, <1>4 DEF Busy, Handled
  <2>2. \A d \in Calls : call'[d] = IF d = c THEN k ELSE call[d]
    BY <1>2 DEF IInv, Shape
  <2>3. \A d \in Calls : Busy(d, q)' <=> d = c
    BY <1>1, <1>4, <2>1, <2>2 DEF Busy
  <2>4. Fits(row[q]) /\ (crashes = 0 => hired[q] = IF row[q].freelancerSigned THEN 1 ELSE 0)
    BY <2>1 DEF Orderly
  <2>5. Current(k, row[q]) /\ (crashes = 0 => Announced(k, row[q], hired[q]))
    BY <1>1, <2>4 DEF Current, Announced
  <2>6. QED BY <1>2, <2>2, <2>3, <2>4, <2>5 DEF Orderly, Alone
<1>5. QED BY <1>3, <1>4

LEMMA OrderlyCrash ==
  ASSUME IInv, NEW p \in Proposals, Orderly(p), crashes \in Nat, Crash
  PROVE  Orderly(p)'
<1>1. ASSUME NEW d \in Calls
      PROVE  /\ Busy(d, p)' <=> Busy(d, p)
             /\ Busy(d, p) => call'[d].pc \in {"apply", "load"}
  <2>1. call[d] \in Call /\ Asks(call[d])
    BY DEF IInv, Shape, Agreement
  <2>2. CASE d \in Handled
    <3>1. call'[d] = [call[d] EXCEPT !.pc = Start(call[d].op), !.entity = NoRow, !.changed = {}]
      BY <2>2 DEF Crash
    <3>2. QED BY <2>1, <2>2, <3>1 DEF Handled, Busy, Start, Call
  <2>3. CASE d \notin Handled
    BY <2>1, <2>3 DEF Crash, Handled, Busy
  <2>4. QED BY <2>2, <2>3
<1>2. row' = row /\ crashes' = crashes + 1
  BY DEF Crash
<1>3. crashes' # 0
  BY <1>2
<1>4. QED BY <1>1, <1>2, <1>3 DEF Orderly, Alone, Current

LEMMA UndisturbedInit ==
  ASSUME Init PROVE Undisturbed /\ crashes \in Nat
<1>1. \A c \in Calls, p \in Proposals : ~ Busy(c, p)
  BY DEF Init, NoCall, Busy
<1>2. \A p \in Proposals : Fits(row[p]) /\ row[p].freelancerSigned = FALSE /\ hired[p] = 0
  BY DEF Init, Pending, NoRow, Fits
<1>3. QED BY <1>1, <1>2 DEF Init, Undisturbed, Orderly, Alone

LEMMA UndisturbedStep ==
  ASSUME IInv, Undisturbed, crashes \in Nat, [Next]_vars
  PROVE  Undisturbed' /\ crashes' \in Nat
<1>1. CASE UNCHANGED vars
  BY <1>1 DEF vars, Undisturbed, Orderly, Alone, Busy
<1>2. ASSUME NEW c \in Calls, NEW op \in {"create", "update", "accept"}, NEW p \in Proposals,
             NEW by \in Users, NEW to \in {"none", "shortlisted", "hired", "rejected"},
             Request(c, op, p, by, to)
      PROVE  Undisturbed' /\ crashes' \in Nat
  <2>1. overlapped \subseteq overlapped' /\ crashes' = crashes
    BY <1>2 DEF Request
  <2>2. QED BY <1>2, <2>1, OrderlyRequest DEF Undisturbed
<1>3. ASSUME NEW c \in Calls, Handle(c) PROVE Undisturbed' /\ crashes' \in Nat
  <2>1. overlapped' = overlapped /\ crashes' = crashes
    BY <1>3 DEF Handle, Apply, Count, Insert, Notify, Load, Reload, Write, Publish
  <2>2. QED BY <1>3, <2>1, OrderlyHandle DEF Undisturbed
<1>4. CASE Crash
  <2>1. overlapped' = overlapped /\ crashes' = crashes + 1
    BY <1>4 DEF Crash
  <2>2. crashes' \in Nat
    BY <2>1
  <2>3. QED BY <1>4, <2>1, <2>2, OrderlyCrash DEF Undisturbed
<1>5. QED BY <1>1, <1>2, <1>3, <1>4 DEF Next

LEMMA UndisturbedKept == Spec => [](IInv /\ Undisturbed)
<1> DEFINE Counted == crashes \in Nat
<1>1. Init => Undisturbed /\ Counted
  BY UndisturbedInit
<1>2. IInv /\ Undisturbed /\ Counted /\ [Next]_vars => Undisturbed' /\ Counted'
  BY UndisturbedStep
<1> HIDE DEF Counted
<1>3. QED BY <1>1, <1>2, AgreementKept, PTL DEF Spec

(* Without overlap, the signatures in a row are those its status stands    *)
(* for, and every acceptance is announced once, or more precisely as long  *)
(* as no crash came between the save and the publish.                      *)
THEOREM SignaturesAgree == Spec => []SignaturesFitStatus
<1>1. Undisturbed => SignaturesFitStatus
  <2> SUFFICES ASSUME NEW p \in Proposals, Orderly(p)
               PROVE  /\ row[p].status = "awaiting_acceptance" =>
                           row[p].clientSigned /\ ~row[p].freelancerSigned
                      /\ row[p].status = "hired" => row[p].clientSigned /\ row[p].freelancerSigned
                      /\ crashes = 0 /\ (\A c \in Handled : call[c].p # p)
                           => hired[p] = IF row[p].freelancerSigned THEN 1 ELSE 0
    BY DEF Undisturbed, SignaturesFitStatus
  <2>1. (\A c \in Handled : call[c].p # p) => \A c \in Calls : ~ Busy(c, p)
    BY DEF Busy, Handled
  <2>2. QED BY <2>1 DEF Orderly, Fits
<1>2. QED BY <1>1, UndisturbedKept, PTL

(* "already been rejected and cannot be updated": without overlap no save  *)
(* was prepared on a row that has been rejected since, crashes included.   *)
THEOREM RejectionStands == Spec => RejectedIsFinal
<1>1. IInv /\ Undisturbed /\ [Next]_vars =>
        [\A p \in Proposals \ overlapped :
           row[p].status = "rejected" => row'[p].status = "rejected"]_vars
  <2> SUFFICES ASSUME IInv, Next, NEW p \in Proposals, Orderly(p), row[p].status = "rejected"
               PROVE  row'[p].status = "rejected"
    BY DEF Undisturbed, vars
  <2>1. CASE row' = row BY <2>1
  <2>2. ASSUME NEW c \in Calls, Insert(c), row' # row PROVE row'[p].status = "rejected"
    <3>1. row[call[c].p] = NoRow /\ row' = [row EXCEPT ![call[c].p] = Pending]
      BY <2>2 DEF Insert, Free
    <3>2. p # call[c].p BY <3>1 DEF NoRow
    <3>3. QED BY <3>1, <3>2 DEF IInv, Shape
  <2>3. ASSUME NEW c \in Calls, Write(c) PROVE row'[p].status = "rejected"
    <3>1. call[c].pc = "write" /\ (call[c].p # p => row'[p] = row[p])
      BY <2>3 DEF Write, IInv, Shape
    <3>2. CASE call[c].p = p
      <4>1. Current(call[c], row[p]) /\ Fits(row[p])
        BY <3>1, <3>2 DEF Orderly, Busy
      <4>2. Allowed(call[c], row[p]) BY <3>1, <4>1 DEF Current
      <4>3. QED BY <4>2 DEF Allowed, MayAccept, MayUpdate
    <3>3. QED BY <3>1, <3>2
  <2>4. QED
    BY <2>1, <2>2, <2>3 DEF Next, Handle, Request, Apply, Count, Notify, Load, Reload, Publish, Crash
<1>2. QED BY <1>1, UndisturbedKept, PTL DEF Spec, RejectedIsFinal
=============================================================================
