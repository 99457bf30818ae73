--------------------------- MODULE RegistryProofs ---------------------------
(***************************************************************************)
(* The messaging library keeps the promise of Rpc; the handlers of         *)
(* Registry are handlers of Messaging, so that their callers have its      *)
(* promise; and what is created is created once: for any number of         *)
(* requests, gateway instances, handlers run again and faults.             *)
(***************************************************************************)
EXTENDS Registry, TLAPS

-----------------------------------------------------------------------------
(* The messaging library *)

Told == Answer \cup {"none", "timeout", "gone", "failed"}
Mail == [request : Requests, answer : Answer]
RunState == [pc : {"none", "body", "respond", "ack", "end"}, live : BOOLEAN,
             answer : Answer \cup {"none"}]

TypeOK ==
  /\ sub \in [Gateways -> {"no", "trying", "bound", "failed"}]
  /\ up \in [Gateways -> BOOLEAN]
  /\ call \in [Requests -> [at : Gateways, pc : {"new", "waiting", "pending", "settled"}, told : Told]]
  /\ outbox \in [Gateways -> SUBSET Requests]
  /\ mail \in [Gateways -> SUBSET Mail]
  /\ ready \subseteq Requests
  /\ held \subseteq Requests
  /\ run \in [Requests -> [Runs -> RunState]]
  /\ answers \in [Requests -> SUBSET Answer]

(* Only a settled request has been told something. *)
Untold == \A r \in Requests : call[r].pc # "settled" => call[r].told = "none"

(* Whatever is on its way back was come to by a handler of that request. *)
Backed ==
  /\ \A g \in Gateways : \A m \in mail[g] : m.answer \in answers[m.request]
  /\ \A r \in Requests, n \in Runs : run[r][n].pc = "respond" => run[r][n].answer \in answers[r]

(* A request that was not published, or was refused, is nowhere. *)
Unpublished(r) == call[r].pc \in {"new", "waiting"} \/ call[r].told = "failed"

Nowhere ==
  \A r \in Requests : Unpublished(r) =>
    /\ answers[r] = {}
    /\ r \notin ready /\ r \notin held
    /\ \A g \in Gateways : r \notin outbox[g]
    /\ \A n \in Runs : run[r][n].pc = "none"

Inv == TypeOK /\ Untold /\ Backed /\ Nowhere

Kept == Promise!Next \/ UNCHANGED <<outcome, answers>>

-----------------------------------------------------------------------------

(* At the start nothing was published and nobody was told anything.        *)
LEMMA Initially == Init => Inv /\ Promise!Init
<1> SUFFICES ASSUME Init PROVE Inv /\ Promise!Init
  OBVIOUS
<1>1. TypeOK
  BY DEF Init, TypeOK, Told, Mail, RunState, NoRun, Answer
<1>2. Untold /\ Backed /\ Nowhere
  BY DEF Init, Untold, Backed, Nowhere, Unpublished, NoRun
<1>3. Promise!Init
  BY DEF Init, Promise!Init, outcome
<1> QED
  BY <1>1, <1>2, <1>3 DEF Inv

(* A step that tells requests that were told nothing what Rpc allows is a  *)
(* step of Rpc.                                                            *)
LEMMA Telling ==
  ASSUME TypeOK', UNCHANGED answers,
         \A r \in Requests : call'[r].told # call[r].told =>
           /\ call[r].told = "none"
           /\ \/ call'[r].told \in answers[r]
              \/ call'[r].told \in {"timeout", "gone"}
              \/ call'[r].told = "failed" /\ answers[r] = {}
  PROVE Kept
<1> DEFINE told == outcome'
<1>1. told \in [Requests -> Promise!Outcome]
  BY DEF TypeOK, Told, Promise!Outcome, Promise!Answer, Answer, outcome
<1>2. Promise!Settle(told)
  BY DEF Promise!Settle, Promise!MaySay, outcome
<1> QED
  BY <1>1, <1>2 DEF Kept, Promise!Next

(* A step that neither tells anybody anything nor runs a handler stutters. *)
LEMMA Stutter == ASSUME UNCHANGED <<call, answers>> PROVE Kept
  BY DEF Kept, outcome

-----------------------------------------------------------------------------
(* The gateway's steps *)

CallState == [at : Gateways, pc : {"new", "waiting", "pending", "settled"}, told : Told]

(* What becomes of a request's entry when it is settled or only moves on.  *)
LEMMA Settling ==
  ASSUME NEW c \in CallState, NEW o \in Told
  PROVE /\ [c EXCEPT !.pc = "settled", !.told = o] \in CallState
        /\ [c EXCEPT !.pc = "settled", !.told = o].pc = "settled"
        /\ [c EXCEPT !.pc = "settled", !.told = o].told = o
  BY DEF CallState

(* A request that moves on keeps what it was told, and its type.           *)
LEMMA Moving ==
  ASSUME NEW c \in CallState, NEW p \in {"new", "waiting", "pending", "settled"}
  PROVE /\ [c EXCEPT !.pc = p] \in CallState
        /\ [c EXCEPT !.pc = p].pc = p
        /\ [c EXCEPT !.pc = p].told = c.told
  BY DEF CallState

(* The types of one request and of one handler, as the steps use them.     *)
LEMMA Typed ==
  ASSUME TypeOK
  PROVE /\ call \in [Requests -> CallState]
        /\ \A r \in Requests : call[r] \in CallState
        /\ \A r \in Requests, n \in Runs : run[r][n] \in RunState
  BY DEF TypeOK, CallState

(* A step that settles requests leaves them where they are, and the others *)
(* as they are.                                                            *)
LEMMA Settles ==
  ASSUME Inv, NEW S \in SUBSET Requests, NEW o, call' = Settled(S, o)
  PROVE /\ \A r \in Requests :
             /\ call'[r].at = call[r].at
             /\ r \in S => call'[r].told = o /\ call'[r].pc = "settled"
             /\ r \notin S => call'[r] = call[r]
        /\ o \in Told => call' \in [Requests -> CallState]
<1>1. \A r \in Requests : call[r] \in CallState
  BY Typed DEF Inv
<1>2. \A r \in Requests :
        call'[r] = IF r \in S THEN [call[r] EXCEPT !.pc = "settled", !.told = o] ELSE call[r]
  BY DEF Settled
<1>3. ASSUME NEW r \in Requests
      PROVE /\ call'[r].at = call[r].at
            /\ r \in S => call'[r].told = o /\ call'[r].pc = "settled"
            /\ r \notin S => call'[r] = call[r]
            /\ o \in Told => call'[r] \in CallState
  BY <1>1, <1>2 DEF CallState
<1>4. call' = [r \in Requests |-> call'[r]]
  BY DEF Settled
<1> QED
  BY <1>3, <1>4

(* A request waits for the subscription, is published, or fails with it.   *)
LEMMA AskStep == ASSUME Inv, NEW r \in Requests, Ask(r) PROVE Inv' /\ Kept
<1> DEFINE g == call[r].at
<1> USE DEF Inv
<1>0. g \in Gateways /\ call[r].told = "none" /\ answers[r] = {}
  BY DEF TypeOK, Ask, Untold, Nowhere, Unpublished
<1> DEFINE put(p) == [call[r] EXCEPT !.pc = p]
<1>p. call[r] \in CallState
  BY Typed
<1>1. CASE sub[g] \in {"no", "trying"}
  <2>1. /\ sub' = [sub EXCEPT ![g] = "trying"]
        /\ call' = [call EXCEPT ![r] = put("waiting")]
        /\ UNCHANGED <<up, outbox, mail, ready, held, run, answers>>
    BY <1>1 DEF Ask
  <2>p. /\ put("waiting") \in CallState
        /\ put("waiting").pc = "waiting" /\ put("waiting").told = "none"
    BY <1>p, <1>0, Moving
  <2> HIDE DEF put, g
  <2>0. /\ call' \in [Requests -> CallState]
        /\ call'[r] = put("waiting")
        /\ \A s \in Requests \ {r} : call'[s] = call[s]
    BY <2>1, <2>p, Typed
  <2>2. TypeOK'
    BY <1>0, <2>0, <2>1 DEF TypeOK, CallState
  <2>3. Untold' /\ Backed'
    BY <2>0, <2>p, <2>1 DEF Untold, Backed
  <2>4. Nowhere'
    <3>1. Unpublished(r)
      BY DEF Ask, Unpublished
    <3> QED
      BY <3>1, <2>0, <2>1 DEF Nowhere, Unpublished
  <2>5. \A s \in Requests : call'[s].told = call[s].told
    BY <1>0, <2>0, <2>p
  <2> QED
    BY <2>1, <2>2, <2>3, <2>4, <2>5, Telling
<1>2. CASE sub[g] = "bound"
  <2>1. /\ call' = [call EXCEPT ![r] = put("pending")]
        /\ UNCHANGED <<sub, up, mail, held, run, answers>>
        /\ \/ ready' = ready \cup {r} /\ UNCHANGED outbox
           \/ outbox' = [outbox EXCEPT ![g] = @ \cup {r}] /\ UNCHANGED ready
    BY <1>2 DEF Ask, Publish
  <2>p. /\ put("pending") \in CallState
        /\ put("pending").pc = "pending" /\ put("pending").told = "none"
    BY <1>p, <1>0, Moving
  <2> HIDE DEF put, g
  <2>0. /\ call' \in [Requests -> CallState]
        /\ call'[r] = put("pending")
        /\ \A s \in Requests \ {r} : call'[s] = call[s]
    BY <2>1, <2>p, Typed
  <2>2. TypeOK'
    BY <1>0, <2>0, <2>1 DEF TypeOK, CallState
  <2>3. Untold' /\ Backed'
    BY <2>0, <2>p, <2>1 DEF Untold, Backed
  <2>4. Nowhere'
    <3>1. ~Unpublished(r)'
      BY <2>0, <2>p DEF Unpublished
    <3>2. ASSUME NEW s \in Requests, s # r
          PROVE /\ call'[s] = call[s] /\ (s \in ready' <=> s \in ready)
                /\ \A h \in Gateways : s \in outbox'[h] <=> s \in outbox[h]
      BY <3>2, <2>0, <2>1 DEF TypeOK
    <3> QED
      BY <2>1, <3>1, <3>2 DEF Nowhere, Unpublished
  <2>5. \A s \in Requests : call'[s].told = call[s].told
    BY <1>0, <2>0, <2>p
  <2> QED
    BY <2>1, <2>2, <2>3, <2>4, <2>5, Telling
<1>3. CASE sub[g] = "failed"
  <2> DEFINE c == [call[r] EXCEPT !.pc = "settled", !.told = "failed"]
  <2>1. /\ call' = Settled({r}, "failed")
        /\ UNCHANGED <<sub, up, outbox, mail, ready, held, run, answers>>
    BY <1>3 DEF Ask
  <2>p. c \in CallState /\ c.pc = "settled" /\ c.told = "failed"
    <3>1. "failed" \in Told
      BY DEF Told
    <3> QED
      BY <1>p, <3>1, Settling
  <2>0. call'[r] = c /\ \A s \in Requests \ {r} : call'[s] = call[s]
    BY <2>1 DEF Settled
  <2>q. call' = [s \in Requests |-> call'[s]]
    BY <2>1 DEF Settled
  <2> HIDE DEF c
  <2>2. TypeOK'
    <3>1. call' \in [Requests -> CallState]
      BY <2>0, <2>p, <2>q, Typed
    <3> QED
      BY <2>1, <3>1 DEF TypeOK, CallState
  <2>3. Untold' /\ Backed'
    BY <2>0, <2>p, <2>1 DEF Untold, Backed
  <2>4. Nowhere'
    <3>1. Unpublished(r)
      BY DEF Ask, Unpublished
    <3> QED
      BY <3>1, <2>0, <2>1 DEF Nowhere, Unpublished
  <2>5. \A s \in Requests : call'[s].told # call[s].told => s = r /\ call'[s].told = "failed"
    BY <2>0, <2>p
  <2> QED
    BY <1>0, <2>1, <2>2, <2>3, <2>4, <2>5, Telling
<1> QED
  BY <1>1, <1>2, <1>3 DEF Ask

(* The subscription succeeds: all that waited for it are published.        *)
LEMMA SubscribeStep == ASSUME Inv, NEW g \in Gateways, Subscribe(g) PROVE Inv' /\ Kept
<1> DEFINE S == At(g, {"waiting"})
<1> USE DEF Inv
<1>0. /\ S \subseteq Requests
      /\ \A s \in S : call'[s] = [call[s] EXCEPT !.pc = "pending"]
      /\ \A s \in Requests \ S : call'[s] = call[s]
      /\ \A s \in S : call[s].pc = "waiting" /\ call[s].told = "none"
  BY DEF Subscribe, At, Untold
<1>a. /\ UNCHANGED <<up, mail, held, run, answers>>
      /\ \/ ready' = ready \cup S /\ UNCHANGED outbox
         \/ outbox' = [outbox EXCEPT ![g] = @ \cup S] /\ UNCHANGED ready
  BY DEF Subscribe, Publish
<1>b. /\ sub' = [sub EXCEPT ![g] = "bound"]
      /\ call' = [r \in Requests |-> IF r \in S THEN [call[r] EXCEPT !.pc = "pending"] ELSE call[r]]
  BY DEF Subscribe
<1> HIDE DEF S
<1>c. \A s \in S : call'[s] \in CallState /\ call'[s].pc = "pending" /\ call'[s].told = "none"
  <2> SUFFICES ASSUME NEW s \in S
               PROVE call'[s] \in CallState /\ call'[s].pc = "pending" /\ call'[s].told = "none"
    OBVIOUS
  <2>1. call[s] \in CallState /\ call[s].told = "none" /\ call'[s] = [call[s] EXCEPT !.pc = "pending"]
    BY <1>0, Typed
  <2>2. /\ [call[s] EXCEPT !.pc = "pending"] \in CallState
        /\ [call[s] EXCEPT !.pc = "pending"].pc = "pending"
        /\ [call[s] EXCEPT !.pc = "pending"].told = call[s].told
    BY <2>1, Moving
  <2> QED
    BY <2>1, <2>2
<1>1. TypeOK'
  <2>1. call' \in [Requests -> CallState]
    <3>1. call' = [r \in Requests |-> call'[r]]
      BY <1>b
    <3> QED
      BY <3>1, <1>0, <1>c, Typed
  <2>2. sub' \in [Gateways -> {"no", "trying", "bound", "failed"}]
    BY <1>b DEF TypeOK
  <2>3. ready' \subseteq Requests /\ outbox' \in [Gateways -> SUBSET Requests]
    BY <1>0, <1>a DEF TypeOK
  <2> QED
    BY <1>a, <2>1, <2>2, <2>3 DEF TypeOK, CallState
<1>2. Untold' /\ Backed'
  BY <1>0, <1>a, <1>c DEF Untold, Backed
<1>4. Nowhere'
  <2>1. \A s \in S : ~Unpublished(s)'
    BY <1>c DEF Unpublished
  <2>2. ASSUME NEW s \in Requests \ S
        PROVE /\ call'[s] = call[s] /\ (s \in ready' <=> s \in ready)
              /\ \A h \in Gateways : s \in outbox'[h] <=> s \in outbox[h]
    BY <2>2, <1>0, <1>a DEF TypeOK
  <2> QED
    BY <1>a, <2>1, <2>2 DEF Nowhere, Unpublished
<1>5. \A s \in Requests : call'[s].told = call[s].told
  BY <1>0, <1>c
<1> QED
  BY <1>1, <1>2, <1>4, <1>5, <1>a, Telling

(* The subscription fails: all that waited fail, unpublished as yet.       *)
LEMMA SubscribeFailsStep ==
  ASSUME Inv, NEW g \in Gateways, SubscribeFails(g) PROVE Inv' /\ Kept
<1> DEFINE S == At(g, {"waiting"})
<1> USE DEF Inv
<1>0. /\ call' = Settled(S, "failed")
      /\ sub' = [sub EXCEPT ![g] = "failed"]
      /\ UNCHANGED <<up, outbox, mail, ready, held, run, answers>>
  BY DEF SubscribeFails, serviceVars
<1>1. S \subseteq Requests /\ \A s \in S : call[s].pc = "waiting" /\ call[s].told = "none"
  BY DEF At, Untold
<1> HIDE DEF S
<1>2. /\ call' \in [Requests -> CallState]
      /\ \A s \in S : call'[s].told = "failed" /\ call'[s].pc = "settled"
      /\ \A s \in Requests \ S : call'[s] = call[s]
  BY <1>0, <1>1, Settles DEF Told
<1>3. TypeOK'
  BY <1>0, <1>2 DEF TypeOK, CallState
<1>4. Untold' /\ Backed'
  BY <1>0, <1>2 DEF Untold, Backed
<1>5. Nowhere'
  BY <1>0, <1>1, <1>2 DEF Nowhere, Unpublished
<1>6. \A s \in Requests : call'[s].told # call[s].told =>
        call[s].told = "none" /\ call'[s].told = "failed" /\ answers[s] = {}
  BY <1>1, <1>2 DEF Nowhere, Unpublished
<1>7. Kept
  BY <1>0, <1>3, <1>6, Telling
<1> QED
  BY <1>3, <1>4, <1>5, <1>7

(* A response settles a pending request with what a handler came to.       *)
LEMMA ReceiveStep ==
  ASSUME Inv, NEW g \in Gateways, NEW m \in mail[g], Receive(g, m) PROVE Inv' /\ Kept
<1> USE DEF Inv, serviceVars
<1>0. m.request \in Requests /\ m.answer \in Answer /\ m.answer \in answers[m.request]
  BY DEF TypeOK, Mail, Backed
<1>a. /\ mail' = [mail EXCEPT ![g] = @ \ {m}]
      /\ UNCHANGED <<sub, up, outbox, ready, held, run, answers>>
  BY DEF Receive
<1>b. Backed' /\ mail' \in [Gateways -> SUBSET Mail]
  BY <1>a DEF TypeOK, Backed
<1>1. CASE ~Pending(m.request)
  <2>1. UNCHANGED call
    BY <1>1 DEF Receive
  <2> QED
    BY <1>a, <1>b, <2>1, Stutter DEF TypeOK, Untold, Nowhere, Unpublished
<1>2. CASE Pending(m.request)
  <2> DEFINE c == [call[m.request] EXCEPT !.pc = "settled", !.told = m.answer]
  <2>1. call' = Settled({m.request}, m.answer)
    BY <1>2 DEF Receive
  <2>p. c \in CallState /\ c.pc = "settled" /\ c.told = m.answer
    <3>1. call[m.request] \in CallState /\ m.answer \in Told
      BY <1>0, Typed DEF Told
    <3> QED
      BY <3>1, Settling
  <2>2. call'[m.request] = c /\ \A s \in Requests \ {m.request} : call'[s] = call[s]
    BY <1>0, <2>1 DEF Settled
  <2>q. call' = [s \in Requests |-> call'[s]]
    BY <2>1 DEF Settled
  <2> HIDE DEF c
  <2>3. call[m.request].told = "none"
    BY <1>0, <1>2 DEF Pending, Untold
  <2>4. TypeOK'
    <3>1. call' \in [Requests -> CallState]
      BY <2>2, <2>p, <2>q, Typed
    <3> QED
      BY <1>a, <1>b, <3>1 DEF TypeOK, CallState
  <2>5. Untold'
    BY <2>2, <2>p DEF Untold
  <2>6. Nowhere'
    <3>1. ~Unpublished(m.request)'
      BY <1>0, <2>2, <2>p DEF Unpublished, Answer
    <3> QED
      BY <1>a, <2>2, <3>1 DEF Nowhere, Unpublished
  <2>7. \A s \in Requests : call'[s].told # call[s].told =>
          s = m.request /\ call'[s].told = m.answer
    BY <2>2, <2>p
  <2> QED
    BY <1>0, <1>a, <1>b, <2>3, <2>4, <2>5, <2>6, <2>7, Telling
<1> QED
  BY <1>1, <1>2

(* A time limit settles a pending request and promises nothing.            *)
LEMMA TimeoutStep == ASSUME Inv, NEW r \in Requests, Timeout(r) PROVE Inv' /\ Kept
<1> DEFINE S == {r}
<1> USE DEF Inv
<1>0. /\ call' = Settled(S, "timeout")
      /\ UNCHANGED <<sub, up, outbox, mail, ready, held, run, answers>>
  BY DEF Timeout, serviceVars
<1>1. S \subseteq Requests /\ \A s \in S : call[s].told = "none"
  BY DEF Untold, Timeout, Pending
<1> HIDE DEF S
<1>2. /\ call' \in [Requests -> CallState]
      /\ \A s \in S : call'[s].told = "timeout" /\ call'[s].pc = "settled"
      /\ \A s \in Requests \ S : call'[s] = call[s]
  BY <1>0, <1>1, Settles DEF Told
<1>3. TypeOK'
  BY <1>0, <1>2 DEF TypeOK, CallState
<1>4. Untold' /\ Backed'
  BY <1>0, <1>2 DEF Untold, Backed
<1>5. Nowhere'
  BY <1>0, <1>2 DEF Nowhere, Unpublished
<1>6. \A s \in Requests : call'[s].told # call[s].told =>
        call[s].told = "none" /\ call'[s].told = "timeout"
  BY <1>1, <1>2
<1>7. Kept
  BY <1>0, <1>3, <1>6, Telling
<1> QED
  BY <1>3, <1>4, <1>5, <1>7

(* A crashed instance settles its own requests as gone, at one go.         *)
LEMMA CrashGatewayStep ==
  ASSUME Inv, NEW g \in Gateways, CrashGateway(g) PROVE Inv' /\ Kept
<1> DEFINE S == At(g, {"waiting", "pending"})
<1> USE DEF Inv
<1>0. /\ call' = Settled(S, "gone")
      /\ sub' = [sub EXCEPT ![g] = "no"] /\ up' = [up EXCEPT ![g] = TRUE]
      /\ mail' = [mail EXCEPT ![g] = {}] /\ outbox' = [outbox EXCEPT ![g] = {}]
      /\ UNCHANGED <<ready, held, run, answers>>
  BY DEF CrashGateway, serviceVars
<1>1. S \subseteq Requests /\ \A s \in S : call[s].told = "none"
  BY DEF At, Untold
<1> HIDE DEF S
<1>2. /\ call' \in [Requests -> CallState]
      /\ \A s \in S : call'[s].told = "gone" /\ call'[s].pc = "settled"
      /\ \A s \in Requests \ S : call'[s] = call[s]
  BY <1>0, <1>1, Settles DEF Told
<1>3. TypeOK'
  BY <1>0, <1>2 DEF TypeOK, CallState
<1>4. Untold' /\ Backed'
  BY <1>0, <1>2 DEF Untold, Backed, TypeOK
<1>5. Nowhere'
  BY <1>0, <1>2 DEF Nowhere, Unpublished, TypeOK
<1>6. \A s \in Requests : call'[s].told # call[s].told =>
        call[s].told = "none" /\ call'[s].told = "gone"
  BY <1>1, <1>2
<1>7. Kept
  BY <1>0, <1>3, <1>6, Telling
<1> QED
  BY <1>3, <1>4, <1>5, <1>7

(* A connection that goes or returns moves published requests only.        *)
LEMMA ConnectionStep ==
  ASSUME Inv, NEW g \in Gateways, Disconnect(g) \/ Reconnect(g) PROVE Inv' /\ Kept
<1> USE DEF Inv, serviceVars, Disconnect, Reconnect
<1>0. /\ up' \in [Gateways -> BOOLEAN]
      /\ mail' \in [Gateways -> SUBSET Mail] /\ \A h \in Gateways : mail'[h] \subseteq mail[h]
  BY DEF TypeOK
<1>a. /\ UNCHANGED <<sub, call, held, run, answers>>
      /\ \/ UNCHANGED <<outbox, ready>>
         \/ ready' = ready \cup outbox[g] /\ outbox' = [outbox EXCEPT ![g] = {}]
  OBVIOUS
<1> USE DEF TypeOK
<1>1. TypeOK'
  BY <1>0, <1>a
<1>2. Untold' /\ Backed'
  BY <1>0, <1>a DEF Untold, Backed
<1>3. Nowhere'
  BY <1>a DEF Nowhere, Unpublished
<1>4. Kept
  BY <1>a, Stutter
<1> QED
  BY <1>1, <1>2, <1>3, <1>4

-----------------------------------------------------------------------------
(* The service's steps *)

(* Starting, registering and swallowing tell no caller anything.           *)
LEMMA QueueStep ==
  ASSUME Inv, Start \/ Register \/ \E r \in Requests : Swallow(r) PROVE Inv' /\ Kept
<1> USE DEF Inv, gatewayVars, Start, Register, Swallow
<1>1. TypeOK'
  BY DEF TypeOK
<1>2. Untold' /\ Backed'
  BY DEF TypeOK, Untold, Backed
<1>3. Nowhere'
  BY DEF TypeOK, Nowhere, Unpublished
<1>4. Kept
  BY Stutter
<1> QED
  BY <1>1, <1>2, <1>3, <1>4

(* A step that changes one handler of one request. *)
OneRun(r, n, new) ==
  /\ run' \in [Requests -> [Runs -> RunState]]
  /\ run'[r][n] = new
  /\ \A s \in Requests, m \in Runs : s # r \/ m # n => run'[s][m] = run[s][m]

(* A function of two arguments changed at one place is typed, and the same elsewhere. *)
LEMMA Changing ==
  ASSUME TypeOK, NEW r \in Requests, NEW n \in Runs, NEW new \in RunState,
         run' = [run EXCEPT ![r][n] = new]
  PROVE OneRun(r, n, new)
<1>1. run \in [Requests -> [Runs -> RunState]]
  BY DEF TypeOK
<1>2. run' \in [Requests -> [Runs -> RunState]]
  <2> DEFINE row == [run[r] EXCEPT ![n] = new]
  <2>1. row \in [Runs -> RunState]
    BY <1>1
  <2>2. run' = [run EXCEPT ![r] = row]
    OBVIOUS
  <2> HIDE DEF row
  <2> QED
    BY <1>1, <2>1, <2>2
<1>3. run'[r][n] = new /\ \A s \in Requests, m \in Runs : s # r \/ m # n => run'[s][m] = run[s][m]
  BY <1>1
<1> QED
  BY <1>2, <1>3 DEF OneRun

(* A handler starts only for a request that was published.                 *)
LEMMA DeliverStep ==
  ASSUME Inv, NEW r \in Requests, NEW n \in Runs, Deliver(r, n) PROVE Inv' /\ Kept
<1> DEFINE new == [pc |-> "body", live |-> TRUE, answer |-> "none"]
<1> USE DEF Inv, gatewayVars
<1>a. /\ r \in ready /\ ready' = ready \ {r} /\ held' = held \cup {r}
      /\ run' = [run EXCEPT ![r][n] = new]
      /\ UNCHANGED <<sub, up, call, outbox, mail, answers>>
  BY DEF Deliver, HeldAfterDelivery
<1>b. new \in RunState
  BY DEF RunState
<1>c. new.pc = "body"
  OBVIOUS
<1> HIDE DEF new
<1>0. OneRun(r, n, new)
  BY <1>a, <1>b, Changing
<1>1. TypeOK'
  BY <1>0, <1>a DEF TypeOK, OneRun
<1>2. Untold' /\ Backed'
  BY <1>0, <1>a, <1>c DEF TypeOK, Untold, Backed, OneRun
<1>4. Nowhere'
  <2>1. ~Unpublished(r)
    BY <1>a DEF Nowhere
  <2> QED
    BY <1>0, <1>a, <2>1 DEF Nowhere, Unpublished, OneRun
<1> QED
  BY <1>1, <1>2, <1>4, <1>a, Stutter

(* A handler that came to an answer carries that answer.                   *)
LEMMA RunTo ==
  ASSUME NEW x \in RunState, NEW a \in Answer
  PROVE /\ [x EXCEPT !.pc = "respond", !.answer = a] \in RunState
        /\ [x EXCEPT !.pc = "respond", !.answer = a].pc = "respond"
        /\ [x EXCEPT !.pc = "respond", !.answer = a].answer = a
  BY DEF RunState

(* A handler that responds, or loses its channel, keeps the rest of its state. *)
LEMMA RunOn ==
  ASSUME NEW x \in RunState
  PROVE /\ [x EXCEPT !.pc = "ack"] \in RunState
        /\ [x EXCEPT !.pc = "ack"].pc = "ack"
        /\ [x EXCEPT !.live = FALSE] \in RunState
        /\ [x EXCEPT !.live = FALSE].pc = x.pc
        /\ [x EXCEPT !.live = FALSE].answer = x.answer
  BY DEF RunState

(* A handler comes to an answer: Execute of the promise.                   *)
LEMMA ExecuteStep ==
  ASSUME Inv, NEW r \in Requests, NEW n \in Runs, NEW a \in Answer, Execute(r, n, a)
  PROVE Inv' /\ Kept
<1> DEFINE new == [run[r][n] EXCEPT !.pc = "respond", !.answer = a]
<1> USE DEF Inv, gatewayVars
<1>a. /\ run' = [run EXCEPT ![r][n] = new] /\ answers' = [answers EXCEPT ![r] = @ \cup {a}]
      /\ UNCHANGED <<sub, up, call, outbox, mail, ready, held>>
  BY DEF Execute
<1>b. new \in RunState /\ new.pc = "respond" /\ new.answer = a
  <2>1. run[r][n] \in RunState
    BY Typed
  <2> QED
    BY <2>1, RunTo
<1>c. run[r][n].pc # "none"
  BY DEF Execute
<1> HIDE DEF new
<1>0. OneRun(r, n, new)
  BY <1>a, <1>b, Changing
<1>1. TypeOK'
  BY <1>0, <1>a DEF TypeOK, OneRun
<1>d. a \in answers'[r] /\ \A s \in Requests : answers[s] \subseteq answers'[s]
  BY <1>a DEF TypeOK
<1>2. Untold' /\ Backed'
  <2>1. \A h \in Gateways : \A m \in mail[h] : m.request \in Requests
    BY DEF TypeOK, Mail
  <2> QED
    BY <1>0, <1>a, <1>b, <1>d, <2>1 DEF Untold, Backed, OneRun
<1>3. ~Unpublished(r)
  BY <1>c DEF Nowhere
<1>4. Nowhere'
  <2>1. \A s \in Requests \ {r} : answers'[s] = answers[s]
    BY <1>a DEF TypeOK
  <2> QED
    BY <1>0, <1>a, <1>3, <2>1 DEF Nowhere, Unpublished, OneRun
<1>5. Kept
  <2>1. Promise!Execute(r, a)
    BY <1>3, <1>a DEF Promise!Execute, outcome, Unpublished
  <2> QED
    BY <2>1 DEF Kept, Promise!Next, Promise!Answer, Answer
<1> QED
  BY <1>1, <1>2, <1>4, <1>5

(* A response carries the answer its handler came to.                      *)
LEMMA RespondStep ==
  ASSUME Inv, NEW r \in Requests, NEW n \in Runs, Respond(r, n) PROVE Inv' /\ Kept
<1> DEFINE new == [run[r][n] EXCEPT !.pc = "ack"]
           g == call[r].at
           m == [request |-> r, answer |-> run[r][n].answer]
<1> USE DEF Inv
<1>a. /\ run' = [run EXCEPT ![r][n] = new]
      /\ mail' = mail \/ mail' = [mail EXCEPT ![g] = @ \cup {m}]
      /\ UNCHANGED <<sub, up, call, outbox, ready, held, answers>>
  BY DEF Respond
<1>b. new \in RunState /\ new.pc = "ack"
  BY Typed, RunOn
<1>c. run[r][n].pc = "respond" /\ run[r][n].answer \in answers[r] /\ g \in Gateways
  BY DEF TypeOK, Backed, Respond
<1>d. m \in Mail /\ m.answer \in answers[m.request]
  BY <1>c DEF TypeOK, Mail
<1> HIDE DEF new, g, m
<1>0. OneRun(r, n, new)
  BY <1>a, <1>b, Changing
<1>1. TypeOK'
  BY <1>0, <1>a, <1>c, <1>d DEF TypeOK, OneRun
<1>2. Untold' /\ Backed'
  <2>1. \A h \in Gateways : \A x \in mail'[h] : x.answer \in answers[x.request]
    <3>1. ASSUME NEW h \in Gateways PROVE mail'[h] \subseteq mail[h] \cup {m}
      <4>1. mail \in [Gateways -> SUBSET Mail]
        BY DEF TypeOK
      <4> QED
        BY <1>a, <4>1
    <3> QED
      BY <1>a, <1>d, <3>1 DEF Backed
  <2> QED
    BY <1>0, <1>a, <1>b, <2>1 DEF Untold, Backed, OneRun
<1>4. Nowhere'
  <2>1. ~Unpublished(r)
    BY <1>c DEF Nowhere
  <2> QED
    BY <1>0, <1>a, <2>1 DEF Nowhere, Unpublished, OneRun
<1> QED
  BY <1>1, <1>2, <1>4, <1>a, Stutter

(* The end of the process ends its handlers and puts back what they held.  *)
LEMMA StopStep == ASSUME Inv, Stop PROVE Inv' /\ Kept
<1> USE DEF Inv, gatewayVars
<1>a. ready' = ready \cup held /\ held' = {} /\ UNCHANGED <<sub, up, call, outbox, mail, answers>>
  BY DEF Stop
<1>b. run' \in [Requests -> [Runs -> RunState]]
  BY DEF Stop, Ended, NoRun, RunState
<1>c. \A r \in Requests, n \in Runs :
        /\ run'[r][n].pc \in {"none", "end"}
        /\ run[r][n].pc = "none" => run'[r][n].pc = "none"
  BY DEF Stop, Ended, NoRun
<1>1. TypeOK'
  BY <1>a, <1>b DEF TypeOK
<1>2. Untold' /\ Backed'
  BY <1>a, <1>c DEF Untold, Backed
<1>4. Nowhere'
  BY <1>a, <1>c DEF Nowhere, Unpublished
<1> QED
  BY <1>1, <1>2, <1>4, <1>a, Stutter

(* An acknowledgement ends its handler, or the process.                    *)
LEMMA AcknowledgeStep ==
  ASSUME Inv, NEW r \in Requests, NEW n \in Runs, Acknowledge(r, n) PROVE Inv' /\ Kept
<1>1. CASE Stop
  BY <1>1, StopStep
<1>2. CASE ~Stop
  <2> DEFINE new == [pc |-> "end", live |-> FALSE, answer |-> "none"]
  <2> USE DEF Inv, gatewayVars
  <2>a. /\ run' = [run EXCEPT ![r][n] = new] /\ held' = held \ {r}
        /\ UNCHANGED <<sub, up, call, outbox, mail, ready, answers>>
    BY <1>2 DEF Acknowledge
  <2>b. new \in RunState /\ new.pc = "end" /\ run[r][n].pc = "ack"
    BY DEF RunState, Acknowledge
  <2> HIDE DEF new
  <2>0. OneRun(r, n, new)
    BY <2>a, <2>b, Changing
  <2>1. TypeOK'
    BY <2>0, <2>a DEF TypeOK, OneRun
  <2>2. Untold' /\ Backed'
    BY <2>0, <2>a, <2>b DEF Untold, Backed, OneRun
  <2>4. Nowhere'
    <3>1. ~Unpublished(r)
      BY <2>b DEF Nowhere
    <3> QED
      BY <2>0, <2>a, <3>1 DEF Nowhere, Unpublished, OneRun
  <2> QED
    BY <2>1, <2>2, <2>4, <2>a, Stutter
<1> QED
  BY <1>1, <1>2

(* A new channel leaves the handlers at work and delivers again.           *)
LEMMA NewChannelStep == ASSUME Inv, NewChannel PROVE Inv' /\ Kept
<1> USE DEF Inv, gatewayVars
<1>a. ready' = ready \cup held /\ held' = {} /\ UNCHANGED <<sub, up, call, outbox, mail, answers>>
  BY DEF NewChannel
<1>b. \A r \in Requests, n \in Runs : run'[r][n] = [run[r][n] EXCEPT !.live = FALSE]
  BY DEF NewChannel
<1>c. \A r \in Requests, n \in Runs :
        run'[r][n] \in RunState /\ run'[r][n].pc = run[r][n].pc /\ run'[r][n].answer = run[r][n].answer
  <2> SUFFICES ASSUME NEW r \in Requests, NEW n \in Runs
               PROVE /\ run'[r][n] \in RunState
                     /\ run'[r][n].pc = run[r][n].pc /\ run'[r][n].answer = run[r][n].answer
    OBVIOUS
  <2>1. run[r][n] \in RunState /\ run'[r][n] = [run[r][n] EXCEPT !.live = FALSE]
    BY <1>b, Typed
  <2> QED
    BY <2>1, RunOn
<1>1. TypeOK'
  <2>1. run' = [r \in Requests |-> [n \in Runs |-> [run[r][n] EXCEPT !.live = FALSE]]]
    BY DEF NewChannel
  <2>2. run' = [r \in Requests |-> run'[r]] /\ \A r \in Requests : run'[r] = [n \in Runs |-> run'[r][n]]
    BY <2>1
  <2>3. \A r \in Requests : run'[r] \in [Runs -> RunState]
    BY <1>c, <2>2
  <2>4. run' \in [Requests -> [Runs -> RunState]]
    BY <2>2, <2>3
  <2> QED
    BY <1>a, <2>4 DEF TypeOK
<1>2. Untold' /\ Backed'
  BY <1>a, <1>c DEF Untold, Backed
<1>4. Nowhere'
  BY <1>a, <1>c DEF Nowhere, Unpublished
<1> QED
  BY <1>1, <1>2, <1>4, <1>a, Stutter

-----------------------------------------------------------------------------

(* Every step of the library keeps the invariant and is a step of Rpc.     *)
LEMMA Stepwise == ASSUME Inv, [Next]_vars PROVE Inv' /\ Kept
<1>1. CASE GatewayStep
  BY <1>1, AskStep, TimeoutStep, SubscribeStep, SubscribeFailsStep, ReceiveStep,
     CrashGatewayStep, ConnectionStep DEF GatewayStep
<1>2. CASE ServiceStep
  BY <1>2, QueueStep, DeliverStep, RespondStep, AcknowledgeStep, StopStep, NewChannelStep
     DEF ServiceStep, Crash
<1>3. CASE \E r \in Requests, n \in Runs, a \in Answer : Execute(r, n, a)
  BY <1>3, ExecuteStep
<1>4. CASE UNCHANGED vars
  <2>1. Inv'
    BY <1>4 DEF vars, gatewayVars, serviceVars, Inv, TypeOK, Untold, Backed, Nowhere, Unpublished
  <2>2. Kept
    BY <1>4, Stutter DEF vars, gatewayVars, serviceVars
  <2> QED
    BY <2>1, <2>2
<1> QED
  BY <1>1, <1>2, <1>3, <1>4 DEF Next, Transport

(* In every reachable state a caller was told something only when settled, *)
(* every answer under way is backed by a handler, and what was not         *)
(* published is nowhere.                                                   *)
THEOREM AnswersBacked == Spec => []Inv
<1>1. Init => Inv
  BY Initially
<1>2. Inv /\ [Next]_vars => Inv'
  BY Stepwise
<1> QED
  BY <1>1, <1>2, PTL DEF Spec

(* The library implements Rpc: whatever is lost, late or delivered twice,  *)
(* a caller is told at most one thing, no answer that no handler of the    *)
(* request came to, and a failure only of what is never executed.          *)
THEOREM PromiseKept == Spec => KeepsPromise
<1>1. Init => Promise!Init
  BY Initially
<1>2. Inv /\ [Next]_vars => [Promise!Next]_<<outcome, answers>>
  BY Stepwise DEF Kept
<1> QED
  BY <1>1, <1>2, AnswersBacked, PTL DEF Spec, KeepsPromise, Promise!Spec

-----------------------------------------------------------------------------
(* No published request is lost *)

(* A handler that goes on to respond has come to an answer.                *)
Handled == \A r \in Requests, n \in Runs : run[r][n].pc \in {"respond", "ack"} => answers[r] # {}

(* Where a request is, and what came of it.                                *)
Somewhere(r) == r \in outbox[call[r].at] \cup ready \cup held \cup lost \/ answers[r] # {}

Followed == NothingIsLost /\ Handled

(* At the start nothing was published that could be lost.                  *)
LEMMA KeptInitially == Init => Followed
  BY DEF Init, Followed, NothingIsLost, Issued, Handled, NoRun

(* No step of a gateway loses a published request, but with its instance.  *)
LEMMA GatewayLosesNothing == ASSUME Inv, Followed, GatewayStep PROVE Followed'
<1> USE DEF Inv
<1>h. UNCHANGED <<held, run, answers>>
  BY DEF GatewayStep, Ask, Timeout, Subscribe, SubscribeFails, Receive, Disconnect, Reconnect,
     CrashGateway, serviceVars
<1>a. Handled'
  BY <1>h DEF Followed, Handled
<1>b. \A r \in Requests : Issued(r) /\ call[r].told # "gone" => Somewhere(r)
  BY DEF Followed, NothingIsLost, Somewhere
<1>c. SUFFICES ASSUME NEW r \in Requests, Issued(r)', call'[r].told # "gone" PROVE Somewhere(r)'
  BY <1>a DEF Followed, NothingIsLost, Somewhere
<1>d. call[r] \in CallState
  BY Typed
<1>1. ASSUME NEW s \in Requests, Ask(s) PROVE Somewhere(r)'
  <2>1. CASE r = s
    <3>1. call' = [call EXCEPT ![s].pc = "pending"] /\ Publish(call[s].at, {s})
      <4>1. ~(call' = [call EXCEPT ![s].pc = "waiting"])
        BY <1>c, <1>d, <2>1 DEF Issued, TypeOK
      <4>2. ~(call' = Settled({s}, "failed"))
        BY <1>c, <2>1, Settles DEF Issued
      <4> QED
        BY <1>1, <4>1, <4>2 DEF Ask
    <3>2. call'[r].at = call[r].at /\ call[r].at \in Gateways
      BY <2>1, <3>1 DEF TypeOK
    <3> QED
      BY <2>1, <3>1, <3>2 DEF Publish, Somewhere, TypeOK
  <2>2. CASE r # s
    <3>1. call'[r] = call[r]
      BY <1>1, <2>2 DEF Ask, Settled, TypeOK
    <3>2. ready \subseteq ready' /\ outbox[call[r].at] \subseteq outbox'[call[r].at] /\ UNCHANGED lost
      BY <1>1, <1>d DEF Ask, Publish, TypeOK, CallState
    <3> QED
      BY <1>b, <1>c, <1>h, <3>1, <3>2 DEF Issued, Somewhere
  <2> QED
    BY <2>1, <2>2
<1>2. ASSUME NEW g \in Gateways, Subscribe(g) PROVE Somewhere(r)'
  <2>1. call'[r].at = call[r].at /\ call'[r].told = call[r].told
    BY <1>2 DEF Subscribe, TypeOK
  <2>2. ready \subseteq ready' /\ outbox[call[r].at] \subseteq outbox'[call[r].at] /\ UNCHANGED lost
    BY <1>2, <1>d DEF Subscribe, Publish, TypeOK, CallState
  <2>3. CASE r \in At(g, {"waiting"})
    <3>1. call[r].at = g
      BY <2>3 DEF At
    <3> QED
      BY <1>2, <2>1, <2>3, <3>1 DEF Subscribe, Publish, Somewhere, TypeOK
  <2>4. CASE r \notin At(g, {"waiting"})
    <3>1. call'[r] = call[r]
      BY <1>2, <2>4 DEF Subscribe
    <3> QED
      BY <1>b, <1>c, <1>h, <2>2, <3>1 DEF Issued, Somewhere
  <2> QED
    BY <2>3, <2>4
<1>3. ASSUME UNCHANGED <<outbox, ready, lost>>, call' = call \/ \E S \in SUBSET Requests, o \in Told :
               call' = Settled(S, o) /\ (o = "failed" \/ \A s \in S : call[s].pc = "pending")
      PROVE Somewhere(r)'
  <2>1. CASE call' = call
    BY <1>3, <1>b, <1>c, <1>h, <2>1 DEF Issued, Somewhere
  <2>2. CASE call' # call
    <3>1. PICK S \in SUBSET Requests, o \in Told :
            call' = Settled(S, o) /\ (o = "failed" \/ \A s \in S : call[s].pc = "pending")
      BY <1>3, <2>2
    <3>2. call'[r].at = call[r].at /\ (r \in S => call'[r].told = o) /\ (r \notin S => call'[r] = call[r])
      BY <3>1, Settles
    <3>3. Issued(r) /\ call[r].told # "gone"
      <4>1. CASE r \in S
        BY <1>c, <3>1, <3>2, <4>1 DEF Issued, Untold
      <4>2. CASE r \notin S
        BY <1>c, <3>2, <4>2 DEF Issued
      <4> QED
        BY <4>1, <4>2
    <3> QED
      BY <1>3, <1>b, <1>h, <3>2, <3>3 DEF Somewhere
  <2> QED
    BY <2>1, <2>2
<1>4. ASSUME NEW g \in Gateways, SubscribeFails(g) PROVE Somewhere(r)'
  BY <1>3, <1>4 DEF SubscribeFails, serviceVars, At, Told
<1>5. ASSUME NEW g \in Gateways, NEW m \in mail[g], Receive(g, m) PROVE Somewhere(r)'
  <2>1. m.request \in Requests /\ m.answer \in Told
    BY DEF TypeOK, Mail, Told
  <2> QED
    BY <1>3, <1>5, <2>1 DEF Receive, serviceVars, Pending
<1>6. ASSUME NEW s \in Requests, Timeout(s) PROVE Somewhere(r)'
  BY <1>3, <1>6 DEF Timeout, serviceVars, Pending, Told
<1>7. ASSUME NEW g \in Gateways, Disconnect(g) PROVE Somewhere(r)'
  BY <1>3, <1>7 DEF Disconnect, serviceVars
<1>8. ASSUME NEW g \in Gateways, Reconnect(g) PROVE Somewhere(r)'
  <2>1. /\ UNCHANGED <<call, lost>> /\ ready' = ready \cup outbox[g]
        /\ outbox' = [outbox EXCEPT ![g] = {}]
    BY <1>8 DEF Reconnect
  <2>2. Somewhere(r)
    BY <1>b, <1>c, <2>1 DEF Issued
  <2> QED
    BY <1>d, <1>h, <2>1, <2>2 DEF Somewhere, TypeOK, CallState
<1>9. ASSUME NEW g \in Gateways, CrashGateway(g) PROVE Somewhere(r)'
  <2>1. /\ call' = Settled(At(g, {"waiting", "pending"}), "gone")
        /\ lost' = lost \cup outbox[g] /\ outbox' = [outbox EXCEPT ![g] = {}] /\ UNCHANGED ready
    BY <1>9 DEF CrashGateway
  <2>s. At(g, {"waiting", "pending"}) \in SUBSET Requests
    BY DEF At
  <2>2. r \notin At(g, {"waiting", "pending"}) /\ call'[r] = call[r]
    BY <1>c, <2>1, <2>s, Settles
  <2>3. Somewhere(r)
    BY <1>b, <1>c, <2>2 DEF Issued
  <2> QED
    BY <1>d, <1>h, <2>1, <2>2, <2>3 DEF Somewhere, TypeOK, CallState
<1> QED
  BY <1>1, <1>2, <1>4, <1>5, <1>6, <1>7, <1>8, <1>9 DEF GatewayStep

(* No step of the service loses a published request, but while it starts.  *)
LEMMA ServiceLosesNothing ==
  ASSUME Inv, Followed,
         ServiceStep \/ \E r \in Requests, n \in Runs, a \in Answer : Execute(r, n, a)
  PROVE Followed'
<1> USE DEF Inv
<1>x. \/ UNCHANGED answers
      \/ \E r \in Requests, a \in Answer : answers' = [answers EXCEPT ![r] = @ \cup {a}]
  BY DEF ServiceStep, Start, Register, Swallow, Deliver, Respond, Acknowledge, Stop, Crash,
     NewChannel, Execute
<1>y. UNCHANGED <<call, outbox>> /\ lost \subseteq lost'
  BY DEF ServiceStep, Start, Register, Swallow, Deliver, Respond, Acknowledge, Stop, Crash,
     NewChannel, Execute, gatewayVars
<1>0. /\ UNCHANGED <<call, outbox>>
      /\ \A r \in Requests : answers[r] \subseteq answers'[r]
      /\ lost \subseteq lost'
  BY <1>x, <1>y DEF TypeOK
<1>1. CASE \E r \in Requests, n \in Runs, a \in Answer : Execute(r, n, a)
  <2>1. PICK r \in Requests, n \in Runs, a \in Answer : Execute(r, n, a)
    BY <1>1
  <2>2. UNCHANGED <<ready, held, lost>> /\ a \in answers'[r]
    BY <1>0, <2>1 DEF Execute, TypeOK
  <2>3. \A s \in Requests, m \in Runs : s # r => run'[s][m] = run[s][m]
    BY <2>1 DEF Execute, TypeOK
  <2> QED
    BY <1>0, <2>2, <2>3 DEF Followed, NothingIsLost, Issued, Handled
<1>2. CASE ServiceStep
  <2>1. ready \cup held \subseteq ready' \cup held' \cup lost' \cup {r \in Requests : answers[r] # {}}
    <3>1. ASSUME NEW r \in Requests, NEW n \in Runs, Acknowledge(r, n), ~Stop
          PROVE answers[r] # {} /\ held' = held \ {r} /\ UNCHANGED ready
      BY <3>1 DEF Acknowledge, Followed, Handled
    <3> QED
      BY <1>2, <3>1 DEF ServiceStep, Start, Register, Swallow, Deliver, HeldAfterDelivery, Respond,
         Stop, Crash, NewChannel
  <2>2. NothingIsLost'
    BY <1>0, <2>1 DEF Followed, NothingIsLost, Issued
  <2>3. UNCHANGED answers
    BY <1>2 DEF ServiceStep, Start, Register, Swallow, Deliver, Respond, Acknowledge, Stop, Crash,
       NewChannel
  <2>4. ASSUME NEW r \in Requests, NEW n \in Runs, run'[r][n].pc \in {"respond", "ack"}
        PROVE run[r][n].pc \in {"respond", "ack"}
    <3> USE DEF TypeOK
    <3>1. CASE UNCHANGED run
      BY <2>4, <3>1
    <3>2. CASE Stop
      BY <2>4, <3>2 DEF Stop, Ended, NoRun
    <3>3. CASE NewChannel
      BY <2>4, <3>3, RunOn, Typed DEF NewChannel
    <3>4. ASSUME NEW s \in Requests, NEW m \in Runs, Deliver(s, m)
          PROVE run[r][n].pc \in {"respond", "ack"}
      BY <2>4, <3>4 DEF Deliver
    <3>5. ASSUME NEW s \in Requests, NEW m \in Runs, Respond(s, m)
          PROVE run[r][n].pc \in {"respond", "ack"}
      BY <2>4, <3>5 DEF Respond
    <3>6. ASSUME NEW s \in Requests, NEW m \in Runs, Acknowledge(s, m), ~Stop
          PROVE run[r][n].pc \in {"respond", "ack"}
      BY <2>4, <3>6 DEF Acknowledge
    <3> QED
      BY <1>2, <3>1, <3>2, <3>3, <3>4, <3>5, <3>6 DEF ServiceStep, Start, Register, Swallow, Crash
  <2> QED
    BY <2>2, <2>3, <2>4 DEF Followed, Handled
<1> QED
  BY <1>1, <1>2

(* A published request is in an outbox, in the queue or with the service   *)
(* until a handler has come to an answer, whatever connection or process   *)
(* goes down; it is lost only with the instance that asked, or while the   *)
(* service is starting.                                                    *)
THEOREM NothingIsLostAlways == Spec => []NothingIsLost
<1>1. Init => Followed
  BY KeptInitially
<1>2. Inv /\ Followed /\ [Next]_vars => Followed'
  <2>1. CASE UNCHANGED vars
    BY <2>1 DEF vars, gatewayVars, serviceVars, Followed, NothingIsLost, Issued, Handled
  <2> QED
    BY <2>1, GatewayLosesNothing, ServiceLosesNothing DEF Next, Transport
<1>3. Followed => NothingIsLost
  BY DEF Followed
<1> QED
  BY <1>1, <1>2, <1>3, AnswersBacked, PTL DEF Spec

-----------------------------------------------------------------------------
(* The handlers *)

(* A step of a handler is one of Messaging: it comes to an answer, or it   *)
(* is none of Messaging's business.                                        *)
LEMMA BodyExecutes ==
  ASSUME NEW r \in Requests, NEW n \in Runs, Body(r, n)
  PROVE (\E a \in Answer : Execute(r, n, a)) \/ UNCHANGED vars
<1> USE DEF Answers, GoTo, Answer
<1>1. CASE Follow(r, n) \/ Unfollow(r, n) \/ Upsert(r, n) \/ Save(r, n)
  BY <1>1 DEF Follow, Unfollow, Upsert, Save, InsertOr
<1>2. CASE Find(r, n) \/ Compare(r, n) \/ Overwrite(r, n)
  BY <1>2 DEF Find, Compare, Overwrite
<1>3. CASE FindUser(r, n) \/ FindAgain(r, n) \/ Fetch(r, n)
  BY <1>3 DEF FindUser, FindAgain, Fetch
<1>4. CASE Select(r, n) \/ InsertUser(r, n) \/ Privy(r, n)
  BY <1>4 DEF Select, InsertUser, Privy
<1> QED
  BY <1>1, <1>2, <1>3, <1>4 DEF Body

(* A step of the registry is a step of the messaging beneath it, or none.  *)
LEMMA StepOfMessaging == [RNext]_rvars => [Next]_vars
<1>1. CASE UNCHANGED rvars
  BY <1>1 DEF rvars
<1>2. CASE RNext
  <2>1. CASE \E r \in Requests, n \in Runs : Body(r, n)
    BY <2>1, BodyExecutes DEF Next
  <2>2. CASE Transport
    BY <2>2 DEF Next
  <2> QED
    BY <1>2, <2>1, <2>2 DEF RNext
<1> QED
  BY <1>1, <1>2

(* The services of Registry implement Messaging.                           *)
THEOREM RunsOnMessaging == RSpec => Spec
<1>1. RInit => Init
  BY DEF RInit
<1> QED
  BY <1>1, StepOfMessaging, PTL DEF RSpec, Spec

(* Their callers are told at most one thing, no answer that no handler of  *)
(* the request came to, and a failure only of what is never executed.      *)
THEOREM RegistryKeepsPromise == RSpec => KeepsPromise
  BY RunsOnMessaging, PromiseKept, PTL

(* And no request of theirs that was published is lost, except with the    *)
(* instance that asked or while the service is starting.                   *)
THEOREM RegistryLosesNothing == RSpec => []NothingIsLost
  BY RunsOnMessaging, NothingIsLostAlways, PTL

-----------------------------------------------------------------------------
(* What is created is created once *)

Queries == {"start", "insert", "compare", "update", "create", "fetch", "select", "insert user", "privy"}

Fits(o, at) ==
  /\ at \in {"compare", "update"} => o \in {"edit", "me"}
  /\ at = "insert" => o = "create"
  /\ at \in {"create", "fetch", "select", "insert user", "privy"} => o = "me"

(* The handler of one operation does not run into another's queries.       *)
OwnQueries ==
  /\ work \in [Requests -> [Runs -> Queries]]
  /\ \A r \in Requests, n \in Runs : Fits(op[r].op, work[r][n])

(* Requests that create are about a table nothing is deleted from.         *)
OneTable ==
  \A r, s \in Requests : op[r].op = "create" => op[s].op \in {"create", "edit"}

Creates(r) == op[r].op = "create" /\ "ok" \in answers[r]

(* A request told that it created the row finds it there, and is the only  *)
(* one.                                                                    *)
Granted ==
  /\ rows \in {0, 1}
  /\ \A r \in Requests : Creates(r) => rows = 1
  /\ \A r, s \in Requests : Creates(r) /\ Creates(s) => r = s

Once == OwnQueries /\ OneTable /\ Granted

(* At the start no request was granted.                                    *)
LEMMA OnceInitially == RInit => Once
<1> SUFFICES ASSUME RInit PROVE Once
  OBVIOUS
<1>1. OwnQueries
  BY DEF RInit, Idle, OwnQueries, Queries, Fits
<1>2. OneTable
  <2>1. table \in DOMAIN Operations /\ \A r \in Requests : op[r].op \in Operations[table]
    BY TablesAssumption DEF RInit
  <2> QED
    BY <2>1 DEF OneTable, Operations
<1>3. Granted
  BY DEF RInit, Init, Granted, Creates
<1> QED
  BY <1>1, <1>2, <1>3 DEF Once

Turns(r, n, at) == work' = [work EXCEPT ![r][n] = at]

(* A handler goes on to a query of its own operation.                      *)
LEMMA QueriesKept ==
  ASSUME Once, NEW r \in Requests, NEW n \in Runs, Body(r, n), UNCHANGED op
  PROVE OwnQueries'
<1> DEFINE o == op[r].op
<1>a. \A a : Answers(r, n, a) => Turns(r, n, "start")
  BY DEF Answers, Turns
<1>b. \A at : GoTo(r, n, at) => Turns(r, n, at)
  BY DEF GoTo, Turns
<1>c. Fits(o, "start")
  BY DEF Fits
<1>d. Fits(o, work[r][n])
  BY DEF Once, OwnQueries
<1>1. \E at \in Queries : Turns(r, n, at) /\ Fits(o, at)
  <2>1. CASE Follow(r, n) \/ Unfollow(r, n) \/ Upsert(r, n) \/ Save(r, n)
    BY <1>a, <1>c, <2>1 DEF Follow, Unfollow, Upsert, Save, InsertOr, Queries
  <2>2. CASE Find(r, n)
    <3>1. \/ Turns(r, n, "start")
          \/ o = "create" /\ Turns(r, n, "insert")
          \/ o = "edit" /\ Turns(r, n, "compare")
      BY <1>a, <1>b, <2>2 DEF Find, Starts
    <3> QED
      BY <1>c, <3>1 DEF Fits, Queries
  <2>3. CASE Compare(r, n) \/ Overwrite(r, n)
    <3>1. o \in {"edit", "me"}
      BY <1>d, <2>3 DEF Compare, Overwrite, Is, Fits
    <3>2. \/ Turns(r, n, "start")
          \/ Turns(r, n, "update")
          \/ o = "me" /\ Turns(r, n, "privy")
      BY <1>a, <1>b, <2>3 DEF Compare, Overwrite
    <3> QED
      BY <1>c, <3>1, <3>2 DEF Fits, Queries
  <2>4. CASE FindUser(r, n) \/ FindAgain(r, n) \/ Fetch(r, n) \/ Select(r, n) \/ InsertUser(r, n) \/ Privy(r, n)
    <3>1. o = "me"
      BY <1>d, <2>4
         DEF FindUser, FindAgain, Fetch, Select, InsertUser, Privy, Is, Starts, Fits
    <3>2. \/ Turns(r, n, "start")
          \/ \E at \in {"create", "privy", "compare", "fetch", "select", "insert user"} : Turns(r, n, at)
      <4>1. CASE FindUser(r, n) \/ FindAgain(r, n)
        BY <1>b, <4>1 DEF FindUser, FindAgain
      <4>2. CASE Fetch(r, n) \/ Select(r, n)
        BY <1>a, <1>b, <4>2 DEF Fetch, Select
      <4>3. CASE InsertUser(r, n) \/ Privy(r, n)
        BY <1>a, <1>b, <4>3 DEF InsertUser, Privy
      <4> QED
        BY <2>4, <4>1, <4>2, <4>3
    <3> QED
      BY <1>c, <3>1, <3>2 DEF Fits, Queries
  <2> QED
    BY <2>1, <2>2, <2>3, <2>4 DEF Body
<1>2. PICK at \in Queries : Turns(r, n, at) /\ Fits(o, at)
  BY <1>1
<1>3. work' \in [Requests -> [Runs -> Queries]]
  <2> DEFINE row == [work[r] EXCEPT ![n] = at]
  <2>1. row \in [Runs -> Queries]
    BY DEF Once, OwnQueries
  <2>2. work' = [work EXCEPT ![r] = row]
    BY <1>2 DEF Turns
  <2> HIDE DEF row
  <2> QED
    BY <2>1, <2>2 DEF Once, OwnQueries
<1>4. \A s \in Requests, m \in Runs : Fits(op[s].op, work'[s][m])
  <2>1. \A s \in Requests, m \in Runs : work'[s][m] = IF s = r /\ m = n THEN at ELSE work[s][m]
    BY <1>2 DEF Turns, Once, OwnQueries
  <2> QED
    BY <1>2, <2>1 DEF Once, OwnQueries
<1> QED
  BY <1>3, <1>4 DEF OwnQueries

(* Which rows and which answer a handler's step comes to.                  *)
LEMMA Effects ==
  ASSUME Once, NEW r \in Requests, NEW n \in Runs, Body(r, n)
  PROVE \/ UNCHANGED rows /\ UNCHANGED vars
        \/ UNCHANGED rows /\ Answers(r, n, "refused")
        \/ UNCHANGED rows /\ op[r].op # "create" /\ \E a \in Answer : Answers(r, n, a)
        \/ rows = 0 /\ rows' = 1 /\ (UNCHANGED vars \/ \E a \in Answer : Answers(r, n, a))
        \/ rows' = 0 /\ op[r].op = "unfollow" /\ \E a \in Answer : Answers(r, n, a)
<1> DEFINE o == op[r].op
<1>a. "ok" \in Answer /\ "refused" \in Answer
  BY DEF Answer
<1>b. \A at : GoTo(r, n, at) => UNCHANGED vars
  BY DEF GoTo
<1>c. Fits(o, work[r][n]) /\ rows \in {0, 1}
  BY DEF Once, OwnQueries, Granted
<1>d. UNCHANGED data => UNCHANGED rows
  BY DEF data
<1>e. \A v : Insert(v) => rows' = rows + 1
  BY DEF Insert
<1>f. \A v : Update(v) => UNCHANGED rows
  BY DEF Update
<1>1. CASE Follow(r, n) \/ Save(r, n)
  BY <1>1, <1>a, <1>c, <1>d, <1>e DEF Follow, Save, InsertOr, Refused, Starts
<1>2. CASE Unfollow(r, n)
  BY <1>2, <1>a DEF Unfollow, Starts
<1>3. CASE Upsert(r, n)
  BY <1>3, <1>a, <1>c, <1>e, <1>f DEF Upsert, Refused, OnConflict, Starts
<1>4. CASE Find(r, n)
  BY <1>4, <1>a, <1>b, <1>d DEF Find, Starts
<1>5. CASE Compare(r, n) \/ Overwrite(r, n)
  <2>1. o # "create"
    BY <1>5, <1>c DEF Compare, Overwrite, Is, Fits
  <2> QED
    BY <1>5, <2>1, <1>a, <1>b, <1>d, <1>f DEF Compare, Overwrite
<1>6. CASE FindUser(r, n) \/ FindAgain(r, n) \/ Fetch(r, n) \/ Select(r, n)
  BY <1>6, <1>b, <1>d DEF FindUser, FindAgain, Fetch, Select
<1>7. CASE InsertUser(r, n)
  <2>1. CASE Refused
    BY <1>7, <2>1, <1>d DEF InsertUser
  <2>2. CASE ~Refused
    <3>1. rows = 0
      BY <2>2, <1>c DEF Refused
    <3>2. rows' = rows + 1 /\ UNCHANGED vars
      BY <1>7, <2>2, <1>b, <1>e DEF InsertUser
    <3> QED
      BY <3>1, <3>2
  <2> QED
    BY <2>1, <2>2
<1>8. CASE Privy(r, n)
  <2>1. o # "create"
    BY <1>8, <1>c DEF Privy, Is, Fits
  <2> QED
    BY <1>8, <2>1, <1>d DEF Privy
<1> QED
  BY <1>1, <1>2, <1>3, <1>4, <1>5, <1>6, <1>7, <1>8 DEF Body

(* Only an insert that is not refused grants a request to create, and it   *)
(* finds no row.                                                           *)
LEMMA GrantedKept ==
  ASSUME Inv, Once, NEW r \in Requests, NEW n \in Runs, Body(r, n), UNCHANGED op
  PROVE Granted'
<1>0. answers \in [Requests -> SUBSET Answer]
  BY DEF Inv, TypeOK
<1>a. \A a : Answers(r, n, a) => answers' = [answers EXCEPT ![r] = @ \cup {a}]
  BY DEF Answers, Execute
<1>b. UNCHANGED vars => UNCHANGED answers
  BY DEF vars, serviceVars
<1>c. \A s \in Requests \ {r} : Creates(s)' <=> Creates(s)
  BY <1>0, <1>a, <1>b, Effects DEF Creates
<1>1. CASE UNCHANGED rows /\ (UNCHANGED vars \/ Answers(r, n, "refused") \/ op[r].op # "create")
  <2>1. Creates(r)' <=> Creates(r)
    BY <1>0, <1>1, <1>a, <1>b DEF Creates
  <2> QED
    BY <1>1, <1>c, <2>1 DEF Once, Granted
<1>2. CASE rows = 0 /\ rows' = 1
  <2>1. \A s \in Requests : ~Creates(s)
    BY <1>2 DEF Once, Granted
  <2> QED
    BY <1>2, <1>c, <2>1 DEF Granted
<1>3. CASE rows' = 0 /\ op[r].op = "unfollow"
  <2>1. \A s \in Requests : op[s].op # "create"
    BY <1>3 DEF Once, OneTable
  <2> QED
    BY <1>3, <2>1 DEF Granted, Creates
<1> QED
  BY <1>1, <1>2, <1>3, Effects

(* The transport leaves what handlers came to alone.                       *)
LEMMA TransportAnswersNothing ==
  ASSUME Inv, Transport PROVE UNCHANGED answers
  BY DEF Transport, GatewayStep, ServiceStep, Ask, Subscribe, SubscribeFails, Receive, Timeout,
     Disconnect, Reconnect, CrashGateway, Start, Register, Swallow, Deliver, Respond, Acknowledge,
     Stop, Crash, NewChannel, serviceVars

(* No step makes a second row, or grants a second creation.                *)
LEMMA OnceStep == ASSUME Inv, Once, [RNext]_rvars PROVE Once'
<1>1. CASE UNCHANGED rvars
  BY <1>1 DEF rvars, vars, serviceVars, data, Once, OwnQueries, OneTable, Granted, Creates
<1>2. CASE UNCHANGED <<table, op>> /\ \E r \in Requests, n \in Runs : Body(r, n)
  <2>1. OneTable'
    BY <1>2 DEF Once, OneTable
  <2> QED
    BY <1>2, <2>1, QueriesKept, GrantedKept DEF Once
<1>3. CASE UNCHANGED <<table, op>> /\ Transport /\ UNCHANGED data
           /\ work' = IF service' = "down" THEN Idle ELSE work
  <2>1. UNCHANGED answers
    BY <1>3, TransportAnswersNothing
  <2>2. OwnQueries'
    BY <1>3 DEF Idle, Once, OwnQueries, Queries, Fits
  <2> QED
    BY <1>3, <2>1, <2>2 DEF data, Once, OneTable, Granted, Creates
<1> QED
  BY <1>1, <1>2, <1>3 DEF RNext

(* However requests overlap and handlers are run again, a key has one row  *)
(* and at most one request to create it is granted.                        *)
THEOREM CreatedOnceAlways == RSpec => []CreatedOnce
<1>1. Once => CreatedOnce
  BY DEF Once, Granted, CreatedOnce, Creates
<1>2. RSpec => []Inv
  BY RunsOnMessaging, AnswersBacked, PTL
<1>3. RInit => Once
  BY OnceInitially
<1>4. Inv /\ Once /\ [RNext]_rvars => Once'
  BY OnceStep
<1> QED
  BY <1>1, <1>2, <1>3, <1>4, PTL DEF RSpec

-----------------------------------------------------------------------------
(* Asking again is safe *)

(* What a caller was told for an answer, a handler of its request came to. *)
Heard == \A r \in Requests : call[r].told \in Answer => call[r].told \in answers[r]

(* Nobody has asked for anything but o.                                    *)
Agreed(o) == \A s \in Requests : call[s].pc # "new" => op[s] = o

(* The handlers of s that looked for a row and found none.                 *)
Creating == {"create", "fetch", "select", "insert user"}

(* Somebody relies on what s asked for: it was granted or is about to be,  *)
(* or one of its handlers has found no row where there is one by now.      *)
Relied(s) ==
  \/ "ok" \in answers[s]
  \/ \E n \in Runs : work[s][n] = "privy" \/ (work[s][n] \in Creating /\ rows # 0)

(* As long as all ask for o, what they rely on is there.                   *)
Served(o) == Agreed(o) => \A s \in Requests : Relied(s) => value \in Effect(o)

Proper ==
  /\ \A r \in Requests : op[r].value \in Values
  /\ rows # 0 => value \in Values

Lasting == Once /\ Proper /\ Heard /\ \A r \in Requests : Served(op[r])

(* At the start nobody relies on anything.                                 *)
LEMMA LastingInitially == RInit => Lasting
<1> SUFFICES ASSUME RInit PROVE Lasting
  OBVIOUS
<1>1. Once /\ Proper
  BY OnceInitially DEF RInit, Proper
<1>2. \A s \in Requests : answers[s] = {} /\ \A n \in Runs : work[s][n] = "start"
  BY DEF RInit, Init, Idle
<1>3. \A s \in Requests : ~ Relied(s)
  BY <1>2 DEF Relied, Creating
<1>4. Heard
  BY DEF RInit, Init, Heard, Answer
<1> QED
  BY <1>1, <1>3, <1>4 DEF Lasting, Served

(* A step of a handler whose request nobody contradicts makes what it asks *)
(* for so, or changes nothing and makes nobody rely on it.                 *)
Harmless(r, n) ==
  /\ UNCHANGED data
  /\ \/ Answers(r, n, "refused")
     \/ \E at \in Queries \ {"privy"} :
          /\ GoTo(r, n, at)
          /\ at \in Creating => rows = 0 \/ work[r][n] \in Creating

LEMMA AsAsked ==
  ASSUME Once, Proper, NEW r \in Requests, NEW n \in Runs, Body(r, n),
         Relied(r) => value \in Effect(op[r])
  PROVE  value' \in Effect(op[r]) \/ Harmless(r, n)
<1> DEFINE o == op[r]
<1>a. Fits(o.op, work[r][n]) /\ o.value \in Values /\ rows \in {0, 1}
  BY DEF Once, OwnQueries, Granted, Proper
<1>b. \A v : Insert(v) \/ Update(v) => value' = v
  BY DEF Insert, Update
<1>c. UNCHANGED data => value' = value /\ rows' = rows
  BY DEF data
<1>d. o.op # "unfollow" => o.value \in Effect(o)
  BY <1>a DEF Effect
<1>e. o.op = "follow" => Effect(o) = Values
  BY DEF Effect, Bare
<1>f. ~ (o.op \in Bare) /\ o.op # "unfollow" => Effect(o) = {o.value}
  BY DEF Effect
<1>1. CASE Follow(r, n)
  <2>1. o.op = "follow" BY <1>1 DEF Follow, Starts
  <2>2. CASE Refused
    BY <1>1, <1>c, <1>e, <2>1, <2>2 DEF Follow, InsertOr, Refused, Proper
  <2>3. CASE ~ Refused
    BY <1>1, <1>b, <1>d, <2>1, <2>3 DEF Follow, InsertOr
  <2> QED BY <2>2, <2>3
<1>2. CASE Unfollow(r, n)
  BY <1>2 DEF Unfollow, Starts, Effect
<1>3. CASE Upsert(r, n)
  BY <1>3, <1>b, <1>d DEF Upsert, OnConflict, Starts
<1>4. CASE Save(r, n)
  <2>1. o.op # "unfollow" BY <1>4, <1>a DEF Save, Is, Fits
  <2> QED BY <1>4, <1>b, <1>d, <2>1 DEF Save, InsertOr, Harmless
<1>5. CASE Find(r, n)
  <2>1. /\ UNCHANGED data
        /\ \/ Answers(r, n, "refused")
           \/ \E at \in {"insert", "compare"} : GoTo(r, n, at)
    BY <1>5 DEF Find, Starts
  <2> QED BY <2>1 DEF Harmless, Queries, Creating
<1>6. CASE Compare(r, n)
  <2>1. o.op \in {"edit", "me"} BY <1>6, <1>a DEF Compare, Is, Fits
  <2>2. CASE value # o.value
    <3>1. UNCHANGED data /\ GoTo(r, n, "update")
      BY <1>6, <2>2 DEF Compare
    <3>2. "update" \in Queries \ {"privy"} /\ "update" \notin Creating
      BY DEF Queries, Creating
    <3> QED BY <3>1, <3>2 DEF Harmless
  <2>3. CASE value = o.value
    BY <1>6, <1>c, <1>d, <2>1, <2>3 DEF Compare
  <2> QED BY <2>2, <2>3
<1>7. CASE Overwrite(r, n)
  <2>1. o.op \in {"edit", "me"} BY <1>7, <1>a DEF Overwrite, Is, Fits
  <2> QED BY <1>7, <1>b, <1>d, <2>1 DEF Overwrite
<1>8. CASE FindUser(r, n)
  <2>1. o.op = "me" /\ UNCHANGED data
    BY <1>8 DEF FindUser, Starts
  <2>2. CASE rows # 0 /\ value = o.value
    BY <1>c, <1>d, <2>1, <2>2
  <2>3. CASE ~ (rows # 0 /\ value = o.value)
    <3>1. \/ rows = 0 /\ GoTo(r, n, "create")
          \/ GoTo(r, n, "compare")
      BY <1>8, <2>3 DEF FindUser
    <3>2. {"create", "compare"} \subseteq Queries \ {"privy"} /\ "compare" \notin Creating
      BY DEF Queries, Creating
    <3> QED BY <2>1, <3>1, <3>2 DEF Harmless
  <2> QED BY <2>2, <2>3
<1>9. CASE FindAgain(r, n) \/ Fetch(r, n) \/ Select(r, n)
  <2>1. work[r][n] \in Creating /\ UNCHANGED data
    BY <1>9 DEF FindAgain, Fetch, Select, Is, Creating
  <2>2. CASE rows # 0
    BY <1>c, <2>1, <2>2 DEF Relied
  <2>3. CASE rows = 0
    BY <1>9, <2>1, <2>3 DEF FindAgain, Fetch, Select, Harmless, Queries, Creating
  <2> QED BY <2>2, <2>3
<1>10. CASE InsertUser(r, n)
  <2>1. o.op = "me" BY <1>10, <1>a DEF InsertUser, Is, Fits
  <2> QED BY <1>10, <1>b, <1>d, <2>1 DEF InsertUser, Harmless
<1>11. CASE Privy(r, n)
  BY <1>11, <1>c DEF Privy, Is, Relied
<1> QED
  BY <1>1, <1>2, <1>3, <1>4, <1>5, <1>6, <1>7, <1>8, <1>9, <1>10, <1>11 DEF Body

(* A request that was asked stays asked.                                   *)
LEMMA StaysAsked ==
  ASSUME Inv, Transport, NEW s \in Requests, call'[s].pc = "new"
  PROVE  call[s].pc = "new"
<1>a. /\ call[s] \in CallState /\ call \in [Requests -> CallState]
      /\ \A r \in Requests : call[r] \in CallState
  BY Typed DEF Inv
<1>b. ASSUME NEW S, NEW t, call' = Settled(S, t) PROVE call[s].pc = "new"
  BY <1>a, <1>b DEF Settled, CallState
<1>c. CASE UNCHANGED call
  BY <1>c
<1>1. ASSUME NEW r \in Requests, Ask(r) PROVE call[s].pc = "new"
  <2>1. ASSUME NEW p \in {"waiting", "pending"}, call' = [call EXCEPT ![r].pc = p]
        PROVE call[s].pc = "new"
    BY <1>a, <2>1 DEF CallState
  <2> QED BY <1>1, <1>b, <2>1 DEF Ask
<1>2. ASSUME NEW g \in Gateways, Subscribe(g) PROVE call[s].pc = "new"
  BY <1>2, <1>a DEF Subscribe, CallState
<1>3. ASSUME NEW g \in Gateways, SubscribeFails(g) \/ CrashGateway(g) PROVE call[s].pc = "new"
  BY <1>3, <1>b DEF SubscribeFails, CrashGateway
<1>4. ASSUME NEW g \in Gateways, NEW m \in mail[g], Receive(g, m) PROVE call[s].pc = "new"
  BY <1>4, <1>b, <1>c DEF Receive
<1>5. ASSUME NEW r \in Requests, Timeout(r) PROVE call[s].pc = "new"
  BY <1>5, <1>b DEF Timeout
<1>6. ASSUME NEW g \in Gateways, Disconnect(g) \/ Reconnect(g) PROVE call[s].pc = "new"
  BY <1>6, <1>c DEF Disconnect, Reconnect
<1>7. CASE ServiceStep
  BY <1>7, <1>c DEF ServiceStep, Start, Register, Swallow, Deliver, Respond, Acknowledge, Crash,
     Stop, NewChannel, gatewayVars
<1> QED
  BY <1>1, <1>2, <1>3, <1>4, <1>5, <1>6, <1>7 DEF Transport, GatewayStep

(* No caller is told what no handler came to, and answers are not undone.  *)
LEMMA HeardStep == ASSUME Inv, Heard, [Next]_vars PROVE Heard'
<1>1. Kept
  BY Stepwise
<1>2. CASE UNCHANGED <<outcome, answers>>
  BY <1>2 DEF outcome, Heard
<1>3. ASSUME NEW r \in Requests, NEW a \in Promise!Answer, Promise!Execute(r, a) PROVE Heard'
  <2>1. \A s \in Requests : answers[s] \subseteq answers'[s]
    BY <1>3 DEF Promise!Execute, Inv, TypeOK
  <2> QED BY <1>3, <2>1 DEF Promise!Execute, outcome, Heard
<1>4. ASSUME NEW told, Promise!Settle(told) PROVE Heard'
  <2>1. \A s \in Requests : told[s] # call[s].told => told[s] \notin Answer \/ told[s] \in answers[s]
    BY <1>4 DEF Promise!Settle, Promise!MaySay, outcome, Answer
  <2>2. \A s \in Requests : told[s] = call'[s].told
    BY <1>4 DEF Promise!Settle, outcome
  <2> QED BY <1>4, <2>1, <2>2 DEF Promise!Settle, Heard
<1> QED
  BY <1>1, <1>2, <1>3, <1>4 DEF Kept, Promise!Next

(* The row holds what some request asked for, or it is gone.               *)
LEMMA ProperStep ==
  ASSUME Once, Proper, NEW r \in Requests, NEW n \in Runs, Body(r, n), UNCHANGED op
  PROVE  Proper'
<1>1. op[r].value \in Values
  BY DEF Proper
<1>2. \/ UNCHANGED data
      \/ value' = op[r].value
      \/ rows' = 0
  BY DEF Body, Follow, Unfollow, Upsert, Find, Save, Compare, Overwrite, FindUser, FindAgain,
     Fetch, Select, InsertUser, Privy, InsertOr, OnConflict, Insert, Update
<1> QED
  BY <1>1, <1>2 DEF Proper, data

(* A handler's step serves whoever asks for the same as it does.           *)
LEMMA ServedByBody ==
  ASSUME Inv, Lasting, NEW r \in Requests, NEW n \in Runs, Body(r, n), UNCHANGED op,
         NEW o, o = op[r], Served(o)
  PROVE  Served(o)'
<1> SUFFICES ASSUME Agreed(o)', NEW s \in Requests, Relied(s)'
             PROVE  value' \in Effect(o)
  BY DEF Served, Effect
<1>1. UNCHANGED call
  BY BodyExecutes DEF vars, gatewayVars, Execute
<1>2. Agreed(o)
  BY <1>1 DEF Agreed
<1>3. \A q \in Requests : Relied(q) => value \in Effect(o)
  BY <1>2 DEF Served
<1>4. value' \in Effect(o) \/ Harmless(r, n)
  BY <1>3, AsAsked DEF Lasting
<1>5. CASE Harmless(r, n)
  <2>1. value' = value /\ rows' = rows
    BY <1>5 DEF Harmless, data
  <2>2. \E q \in Requests : Relied(q)
    <3>a. answers \in [Requests -> SUBSET Answer]
      BY DEF Inv, TypeOK
    <3>b. work \in [Requests -> [Runs -> Queries]]
      BY DEF Lasting, Once, OwnQueries
    <3>c. PICK at \in Queries \ {"privy"} :
            /\ Turns(r, n, at)
            /\ at \in Creating => rows = 0 \/ work[r][n] \in Creating
      <4>1. CASE Answers(r, n, "refused")
        <5>1. Turns(r, n, "start")
          BY <4>1 DEF Answers, Turns
        <5>2. "start" \in Queries \ {"privy"} /\ "start" \notin Creating
          BY DEF Queries, Creating
        <5> QED BY <5>1, <5>2
      <4>2. CASE ~ Answers(r, n, "refused")
        BY <1>5, <4>2 DEF Harmless, GoTo, Turns
      <4> QED BY <4>1, <4>2
    <3>1. CASE "ok" \in answers'[s]
      <4>1. UNCHANGED answers \/ answers' = [answers EXCEPT ![r] = @ \cup {"refused"}]
        BY <1>5 DEF Harmless, Answers, Execute, GoTo, vars, serviceVars
      <4>2. "ok" \in answers[s]
        BY <3>a, <3>1, <4>1
      <4> QED BY <4>2 DEF Relied
    <3>2. ASSUME NEW m \in Runs, work'[s][m] = "privy" \/ (work'[s][m] \in Creating /\ rows # 0)
          PROVE \E q \in Requests : Relied(q)
      <4>1. work'[s][m] = IF s = r /\ m = n THEN at ELSE work[s][m]
        BY <3>b, <3>c DEF Turns
      <4>2. CASE s = r /\ m = n
        BY <3>c, <3>2, <4>1, <4>2 DEF Relied
      <4>3. CASE ~ (s = r /\ m = n)
        BY <3>2, <4>1, <4>3 DEF Relied
      <4> QED BY <4>2, <4>3
    <3> QED BY <3>1, <3>2, <2>1 DEF Relied
  <2> QED BY <2>1, <2>2, <1>3
<1> QED
  BY <1>4, <1>5

(* No step breaks what those who ask for one and the same thing rely on.   *)
LEMMA LastingStep == ASSUME Inv, Lasting, [RNext]_rvars PROVE Lasting'
<1>a. Once' /\ Heard'
  BY OnceStep, StepOfMessaging, HeardStep DEF Lasting
<1>1. CASE UNCHANGED rvars
  <2>1. UNCHANGED <<op, rows, value, work, call, answers>>
    BY <1>1 DEF rvars, vars, gatewayVars, serviceVars, data
  <2>2. Proper'
    BY <2>1 DEF Lasting, Proper
  <2>3. \A r \in Requests : Served(op[r])'
    BY <2>1 DEF Lasting, Served, Agreed, Relied, Effect
  <2> QED BY <1>a, <2>2, <2>3 DEF Lasting
<1>2. ASSUME UNCHANGED <<table, op>>, NEW r \in Requests, NEW n \in Runs, Body(r, n) PROVE Lasting'
  <2>1. Proper'
    BY <1>2, ProperStep DEF Lasting
  <2>2. ASSUME NEW q \in Requests PROVE Served(op[q])'
    <3> PICK o : o = op[q]
      OBVIOUS
    <3>0. Served(o) /\ op'[q] = o
      BY <1>2 DEF Lasting
    <3>1. CASE o = op[r]
      BY <1>2, <3>0, <3>1, ServedByBody DEF Served
    <3>2. CASE o # op[r]
      <4>1. call[r].pc # "new" /\ UNCHANGED call
        <5>1. run[r][n].pc = "body"
          BY <1>2 DEF Body, Follow, Unfollow, Upsert, Find, Save, Compare, Overwrite, FindUser,
             FindAgain, Fetch, Select, InsertUser, Privy, Starts, Is
        <5>2. ~ Unpublished(r)
          BY <5>1 DEF Inv, Nowhere
        <5> QED BY <1>2, <5>2, BodyExecutes DEF Unpublished, vars, gatewayVars, Execute
      <4>2. ~ Agreed(o)'
        BY <1>2, <3>2, <4>1 DEF Agreed
      <4> QED BY <3>0, <4>2 DEF Served
    <3> QED BY <3>1, <3>2
  <2> QED BY <1>a, <2>1, <2>2 DEF Lasting
<1>3. CASE UNCHANGED <<table, op>> /\ Transport /\ UNCHANGED data
           /\ work' = IF service' = "down" THEN Idle ELSE work
  <2>1. Proper'
    BY <1>3 DEF Lasting, Proper, data
  <2>2. UNCHANGED <<answers, rows, value>>
    BY <1>3, TransportAnswersNothing DEF data
  <2>3. \A s \in Requests : Relied(s)' => Relied(s)
    BY <1>3, <2>2 DEF Relied, Idle, Creating
  <2>4. ASSUME NEW q \in Requests PROVE Served(op[q])'
    <3> PICK o : o = op[q]
      OBVIOUS
    <3>0. Served(o) /\ op'[q] = o
      BY <1>3 DEF Lasting
    <3>1. Agreed(o)' => Agreed(o)
      BY <1>3, StaysAsked DEF Agreed
    <3> QED BY <2>2, <2>3, <3>0, <3>1 DEF Served
  <2> QED BY <1>a, <2>1, <2>4 DEF Lasting
<1> QED
  BY <1>1, <1>2, <1>3 DEF RNext

(* Asking for the same thing again is safe, after a time limit too: if all *)
(* who asked at all ask for one thing, and one was told it is done, it is, *)
(* whatever repeated, late and redelivered requests still do.              *)
THEOREM RetryIsSafeAlways == RSpec => []RetryIsSafe
<1>1. Lasting => RetryIsSafe
  <2> SUFFICES ASSUME Lasting, NEW r \in Requests, call[r].told = "ok", Agreed(op[r])
               PROVE  value \in Effect(op[r])
    BY DEF RetryIsSafe, Agreed
  <2>1. "ok" \in answers[r]
    BY DEF Lasting, Heard, Answer
  <2> QED BY <2>1 DEF Lasting, Served, Relied
<1>2. RSpec => []Inv
  BY RunsOnMessaging, AnswersBacked, PTL
<1>3. RInit => Lasting
  BY LastingInitially
<1>4. Inv /\ Lasting /\ [RNext]_rvars => Lasting'
  BY LastingStep
<1> QED
  BY <1>1, <1>2, <1>3, <1>4, PTL DEF RSpec
=============================================================================
