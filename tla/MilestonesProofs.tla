-------------------------- MODULE MilestonesProofs --------------------------
(***************************************************************************)
(* Proofs about Milestones, for any number of milestones, calls and        *)
(* crashes, and whether or not the node answers.                           *)
(***************************************************************************)
EXTENDS Milestones, TLAPS

-----------------------------------------------------------------------------
(* The accounts of the program *)

(* What an account says of its past: nobody is hired before it is locked,  *)
(* and somebody is once it is.                                             *)
AccountFields == {"status", "client", "authority", "freelancer", "amount", "platform_fee"}

InShape(e) ==
  /\ DOMAIN e = AccountFields
  /\ e.status \in {"None", "Funded", "Locked", "Released", "Refunded"}
  /\ e.status = "None" => e = Chain!NoEscrow
  /\ e.status \in {"None", "Funded"} => e.freelancer = NoKey
  /\ e.status \in {"Locked", "Released"} => e.freelancer # NoKey

AccountsInOrder == DOMAIN escrow = Milestones /\ \A j \in Milestones : InShape(escrow[j])

(* f is what e may have become: an account stays, a hire stands and a      *)
(* settlement is final.                                                    *)
Follows(e, f) ==
  /\ e.status # "None" => f.status # "None"
  /\ e.freelancer # NoKey => f.freelancer = e.freelancer
  /\ e.status \in {"Released", "Refunded"} => f.status = e.status

(* What an operation has achieved, once its transaction is in a block, and *)
(* nothing can undo.                                                       *)
Accomplished(op, hire, e) ==
  /\ op \in {"Fund", "Withdraw", "Release", "Lock", "Refund"} /\ e.status # "None"
  /\ op = "Lock" => e.freelancer = hire
  /\ op \in {"Withdraw", "Refund"} => e.status = "Refunded"
  /\ op = "Release" => e.status = "Released"

LEMMA StaysAccomplished ==
  ASSUME NEW op, NEW hire, NEW e, NEW f, Follows(e, f), Accomplished(op, hire, e),
         op = "Lock" => hire # NoKey
  PROVE  Accomplished(op, hire, f)
BY DEF Follows, Accomplished

LEMMA FollowsOn ==
  ASSUME NEW e, NEW f, NEW g, Follows(e, f), Follows(f, g)
  PROVE  Follows(e, g)
BY DEF Follows

(* An instruction that changes one account for one that follows it.        *)
LEMMA OneAccount ==
  ASSUME AccountsInOrder, NEW j \in Milestones, NEW e, InShape(e), Follows(escrow[j], e),
         escrow' = [escrow EXCEPT ![j] = e]
  PROVE  /\ AccountsInOrder' /\ escrow'[j] = e
         /\ \A k \in Milestones : Follows(escrow[k], escrow'[k])
BY DEF AccountsInOrder, Follows

(* What becomes of the accounts when a transaction is carried out.         *)
LEMMA Submitted ==
  ASSUME AccountsInOrder, NEW t, t.ms \in Milestones, t.op = "Lock" => t.payee # NoKey, Submit(t)
  PROVE  /\ AccountsInOrder'
         /\ \A j \in Milestones : Follows(escrow[j], escrow'[j])
         /\ Accomplished(t.op, t.payee, escrow'[t.ms])
<1> DEFINE j == t.ms
           old == escrow[j]
<1>1. InShape(old) /\ j \in Milestones
  BY DEF AccountsInOrder
<1>2. ASSUME NEW e, escrow' = [escrow EXCEPT ![j] = e], InShape(e), Follows(old, e),
             Accomplished(t.op, t.payee, e)
      PROVE  /\ AccountsInOrder'
             /\ \A k \in Milestones : Follows(escrow[k], escrow'[k])
             /\ Accomplished(t.op, t.payee, escrow'[j])
  BY <1>2, OneAccount
<1> HIDE DEF j, old
<1>3. CASE t.op = "Fund" /\ Chain!Initialize(t.signer, Authority, j, Deposit)
  <2> DEFINE e == Chain!Opened(t.signer, Authority, Deposit)
  <2>1. old = Chain!NoEscrow /\ escrow' = [escrow EXCEPT ![j] = e]
    BY <1>3 DEF Chain!Initialize, Chain!CanInitialize, old
  <2>2. InShape(e) /\ Follows(old, e) /\ Accomplished(t.op, t.payee, e)
    BY <1>3, <2>1
       DEF Chain!Opened, Chain!NoEscrow, InShape, AccountFields, Follows, Accomplished
  <2> HIDE DEF e
  <2> QED BY <1>2, <2>1, <2>2 DEF j
<1>4. ASSUME t.op \in {"Withdraw", "Refund"}, old.status \in {"Funded", "Locked"},
             escrow' = [escrow EXCEPT ![j] = Chain!Refunded(old)]
      PROVE  /\ AccountsInOrder'
             /\ \A k \in Milestones : Follows(escrow[k], escrow'[k])
             /\ Accomplished(t.op, t.payee, escrow'[j])
  <2> DEFINE e == Chain!Refunded(old)
  <2>1. InShape(e) /\ Follows(old, e) /\ Accomplished(t.op, t.payee, e)
    BY <1>1, <1>4 DEF Chain!Refunded, InShape, AccountFields, Follows, Accomplished
  <2> HIDE DEF e
  <2>2. escrow' = [escrow EXCEPT ![j] = e]
    BY <1>4 DEF e
  <2> QED BY <1>2, <2>1, <2>2
<1>5. CASE t.op = "Withdraw" /\ Chain!Withdraw(t.signer, j)
  <2>1. old.status = "Funded" /\ escrow' = [escrow EXCEPT ![j] = Chain!Refunded(old)]
    BY <1>5 DEF Chain!Withdraw, Chain!CanWithdraw, Chain!PayBack, Chain!CanPayBack, old
  <2> QED BY <1>4, <1>5, <2>1 DEF j
<1>6. CASE t.op = "Refund" /\ Chain!Refund(Authority, j)
  <2>1. /\ old.status \in {"Funded", "Locked"}
        /\ escrow' = [escrow EXCEPT ![j] = Chain!Refunded(old)]
    BY <1>6 DEF Chain!Refund, Chain!CanRefund, Chain!PayBack, Chain!CanPayBack, old
  <2> QED BY <1>4, <1>6, <2>1 DEF j
<1>7. CASE t.op = "Release" /\ Chain!Release(t.signer, j, t.payee)
  <2> DEFINE e == Chain!Released(old)
  <2>1. old.status = "Locked" /\ escrow' = [escrow EXCEPT ![j] = e]
    BY <1>7 DEF Chain!Release, Chain!CanRelease, Chain!MayRelease, old
  <2>2. InShape(e) /\ Follows(old, e) /\ Accomplished(t.op, t.payee, e)
    BY <1>1, <1>7, <2>1
       DEF Chain!Released, InShape, AccountFields, Follows, Accomplished
  <2> HIDE DEF e
  <2> QED BY <1>2, <2>1, <2>2 DEF j
<1>8. CASE t.op = "Lock" /\ Chain!Lock(Authority, j, t.payee)
  <2> DEFINE e == Chain!LockedFor(old, t.payee)
  <2>1. old.status = "Funded" /\ escrow' = [escrow EXCEPT ![j] = e]
    BY <1>8 DEF Chain!Lock, Chain!CanLock, old
  <2>2. InShape(e) /\ Follows(old, e) /\ Accomplished(t.op, t.payee, e)
    BY <1>1, <1>8, <2>1
       DEF Chain!LockedFor, InShape, AccountFields, Follows, Accomplished
  <2> HIDE DEF e
  <2> QED BY <1>2, <2>1, <2>2 DEF j
<1> QED
  BY <1>3, <1>5, <1>6, <1>7, <1>8 DEF Submit, j

-----------------------------------------------------------------------------
(* The calls, their transactions and the rows *)

CallFields == {"pc", "op", "ms", "mode", "wallet", "hire", "list", "todo", "seen", "outcome",
               "tries"}
RowFields == {"status", "amount", "wallet", "freelancer"}
Through == {"confirm", "record", "announce", "count", "publish"}
Busy == Through \cup {"check", "send", "wait"}
Lasting == {"Funded", "Locked", "Released", "Refunded"}
Requests == {"Fund", "TopUp", "Withdraw", "Release", "Refund", "Confirm"}

(* A status that e, or what it was before, may have been read to have, or  *)
(* that stands for an account which could not be read.                     *)
Claims(status, e) ==
  /\ status \in Lasting
  /\ status = "Locked" => e.freelancer # NoKey
  /\ status \in {"Released", "Refunded"} => e.status = status

(* A call k whose handler is past its transaction has its result, be the   *)
(* account e of its milestone what it is by now, unless a transaction of   *)
(* that milestone failed after preflight (bad) or it had none of its own.  *)
Backed(k, e, bad) ==
  /\ DOMAIN k = CallFields /\ k.todo \subseteq Milestones
  /\ k.pc \in Busy \/ (k.pc \notin {"idle", "ended"} /\ k.op # "Lock") => k.ms \in Milestones
  /\ k.pc \notin {"idle", "ended"} /\ k.op = "Lock" => k.hire # NoKey
  /\ k.pc \in {"list", "turn", "check", "send"} => k.outcome = "none"
  /\ k.pc = "wait" /\ k.outcome = "failed" => bad
  /\ k.pc \in Through \/ (k.pc = "wait" /\ k.outcome = "ok") =>
       k.op = "Confirm" \/ bad \/ Accomplished(k.op, k.hire, e)
  /\ k.pc \notin {"idle", "ended"} /\ k.op = "Confirm" => k.mode # "server"
  /\ k.pc \in {"send", "wait"} => k.op # "Confirm"
  /\ k.pc = "record" /\ k.mode # "server" => bad \/ Claims(k.seen.status, e)

CallsBacked ==
  /\ DOMAIN call = Calls
  /\ \A c \in Calls : Backed(call[c], escrow[call[c].ms], call[c].ms \in flops)

(* A transaction does what its call asked for, though a hire may be at     *)
(* another of its milestones by now.                                       *)
Sent(t, k) ==
  /\ k.pc # "idle" /\ t.ms \in Milestones /\ t.op = k.op
  /\ t.op = "Lock" => t.payee # NoKey /\ (k.pc # "ended" => t.payee = k.hire)

NetKnown == \A t \in net : t.call \in Calls /\ Sent(t, call[t.call])

Trails(r, e) ==
  /\ r.status = "Locked" => e.freelancer # NoKey
  /\ r.status \in {"Released", "Refunded"} => e.status = r.status
  /\ r.status \notin Lasting => r.freelancer = NoKey
  /\ r.freelancer # NoKey => r.freelancer = e.freelancer

RowsTrail ==
  /\ DOMAIN row = Milestones
  /\ \A m \in Milestones \ flops : DOMAIN row[m] = RowFields /\ Trails(row[m], escrow[m])

Inv == AccountsInOrder /\ CallsBacked /\ NetKnown /\ RowsTrail

(* What holds of an account holds of what it becomes.                      *)
LEMMA StaysBacked ==
  ASSUME NEW k, NEW e, NEW f, NEW bad \in BOOLEAN, NEW worse \in BOOLEAN,
         Backed(k, e, bad), k.pc \in Busy => Follows(e, f) /\ (bad => worse)
  PROVE  Backed(k, f, worse)
<1>1. CASE k.pc \notin Busy
  BY <1>1 DEF Backed, Busy, Through
<1>2. CASE k.pc \in Busy
  <2>1. Claims(k.seen.status, e) => Claims(k.seen.status, f)
    BY <1>2 DEF Claims, Follows
  <2>2. Accomplished(k.op, k.hire, e) => Accomplished(k.op, k.hire, f)
    BY <1>2, StaysAccomplished DEF Backed, Busy, Through
  <2> QED
    BY <1>2, <2>1, <2>2 DEF Backed
<1> QED
  BY <1>1, <1>2

LEMMA StillTrails ==
  ASSUME NEW r, NEW e, NEW f, Trails(r, e), Follows(e, f)
  PROVE  Trails(r, f)
BY DEF Trails, Follows

(* The rows and accounts that a step of a handler leaves alone.            *)
LEMMA RowsStay ==
  ASSUME AccountsInOrder, RowsTrail, UNCHANGED <<escrow, row, flops>>
  PROVE  AccountsInOrder' /\ RowsTrail'
BY DEF AccountsInOrder, RowsTrail

(* A call moves, and sends a transaction or not.                           *)
LEMMA CallMoves ==
  ASSUME CallsBacked, NetKnown, NEW c \in Calls, NEW k,
         call' = [call EXCEPT ![c] = k], UNCHANGED <<escrow, flops>>,
         Backed(k, escrow[k.ms], k.ms \in flops),
         \A t \in net' : t.call = c \/ t \in net,
         \A t \in net' : t.call = c => Sent(t, k)
  PROVE  CallsBacked' /\ NetKnown'
<1>1. call'[c] = k /\ DOMAIN call' = Calls
  BY DEF CallsBacked
<1>2. \A d \in Calls \ {c} : call'[d] = call[d]
  BY DEF CallsBacked
<1>3. \A d \in Calls : Backed(call'[d], escrow[call'[d].ms], call'[d].ms \in flops)
  BY <1>1, <1>2 DEF CallsBacked
<1>4. CallsBacked'
  BY <1>1, <1>3 DEF CallsBacked
<1>5. ASSUME NEW t \in net' PROVE t.call \in Calls /\ Sent(t, call'[t.call])
  BY <1>1, <1>2 DEF NetKnown
<1> QED
  BY <1>4, <1>5 DEF NetKnown

(* A call goes from one point of its handler to another, or to its end.    *)
Going(old, k) ==
  /\ old.pc \notin {"idle", "ended"} /\ k.pc # "idle" /\ k.op = old.op
  /\ k.pc # "ended" => k.hire = old.hire

LEMMA CallGoes ==
  ASSUME Inv, NEW c \in Calls, NEW k,
         call' = [call EXCEPT ![c] = k], UNCHANGED <<escrow, row, flops, net>>,
         Backed(k, escrow[k.ms], k.ms \in flops), Going(call[c], k)
  PROVE  Inv'
<1>1. \A t \in net' : t.call = c => Sent(t, k)
  BY DEF Inv, NetKnown, Sent, Going
<1>2. \A t \in net' : t \in net
  OBVIOUS
<1>3. CallsBacked' /\ NetKnown'
  BY <1>1, <1>2, CallMoves DEF Inv
<1> QED
  BY <1>3, RowsStay DEF Inv

(* Where a handler that is through with its milestone goes: to the next    *)
(* one of a hire, or to its end.                                           *)
LEMMA EndedBacked ==
  ASSUME NEW old, old.pc \notin {"idle", "ended"}, NEW e, NEW bad
  PROVE  Backed(Ended(old), e, bad) /\ Going(old, Ended(old))
<1> DEFINE k == Ended(old)
<1>1. DOMAIN k = CallFields /\ k.pc = "ended" /\ k.op = old.op /\ k.todo = {}
  BY DEF Ended, NoCall, CallFields
<1> HIDE DEF k
<1>2. Backed(k, e, bad) /\ Going(old, k)
  BY <1>1 DEF Backed, Going, Busy, Through
<1> QED
  BY <1>2 DEF k

LEMMA FinishedBacked ==
  ASSUME NEW old, old.pc \notin {"idle", "ended"}, NEW f, NEW worse, Backed(old, f, worse),
         NEW ok, NEW e, NEW bad
  PROVE  Backed(Finished(old, ok), e, bad) /\ Going(old, Finished(old, ok))
<1>1. CASE old.op = "Lock"
  <2> DEFINE k == [old EXCEPT !.pc = "turn", !.outcome = "none"]
  <2>1. Finished(old, ok) = k
    BY <1>1 DEF Finished
  <2>2. /\ DOMAIN k = CallFields /\ k.pc = "turn" /\ k.outcome = "none"
        /\ k.op = old.op /\ k.hire = old.hire /\ k.todo = old.todo
    BY DEF Backed, CallFields
  <2> HIDE DEF k
  <2>3. Backed(k, e, bad) /\ Going(old, k)
    BY <1>1, <2>2 DEF Backed, Going, Busy, Through
  <2> QED
    BY <2>1, <2>3
<1>2. CASE old.op # "Lock"
  BY <1>2, EndedBacked DEF Finished
<1> QED
  BY <1>1, <1>2

LEMMA Finishing ==
  ASSUME Inv, NEW c \in Calls, call[c].pc \notin {"idle", "ended"}, NEW ok, Finish(c, ok),
         UNCHANGED <<escrow, row, flops, net>>
  PROVE  Inv'
<1> DEFINE k == Finished(call[c], ok)
<1>1. call' = [call EXCEPT ![c] = k]
  BY DEF Finish
<1>2. Backed(call[c], escrow[call[c].ms], call[c].ms \in flops)
  BY DEF Inv, CallsBacked
<1>3. Backed(k, escrow[k.ms], k.ms \in flops) /\ Going(call[c], k)
  BY <1>2, FinishedBacked
<1> HIDE DEF k
<1> QED
  BY <1>1, <1>3, CallGoes

LEMMA Ending ==
  ASSUME Inv, NEW c \in Calls, call[c].pc \notin {"idle", "ended"},
         call' = [call EXCEPT ![c] = Ended(@)], UNCHANGED <<escrow, row, flops, net>>
  PROVE  Inv'
<1> DEFINE k == Ended(call[c])
<1>1. call' = [call EXCEPT ![c] = k]
  OBVIOUS
<1>2. Backed(k, escrow[k.ms], k.ms \in flops) /\ Going(call[c], k)
  BY EndedBacked
<1> HIDE DEF k
<1> QED
  BY <1>1, <1>2, CallGoes

-----------------------------------------------------------------------------
(* The steps of a handler *)

LEMMA ReceiveStep ==
  ASSUME Inv, NEW c \in Calls, NEW k, Receive(c, k),
         Backed(k, escrow[k.ms], k.ms \in flops)
  PROVE  Inv'
<1>1. /\ call[c].pc = "idle" /\ call' = [call EXCEPT ![c] = k]
      /\ UNCHANGED <<escrow, row, flops, net>>
  BY DEF Receive, chain
<1>2. \A t \in net' : t \in net /\ t.call # c
  BY <1>1 DEF Inv, NetKnown, Sent
<1>3. CallsBacked' /\ NetKnown'
  BY <1>1, <1>2, CallMoves DEF Inv
<1> QED
  BY <1>1, <1>3, RowsStay DEF Inv

LEMMA RequestStep ==
  ASSUME Inv, NEW c \in Calls, NEW op, op # "Lock", NEW m \in Milestones, NEW w, NEW mode,
         Request(c, op, m, w, mode)
  PROVE  Inv'
<1> DEFINE k == [NoCall EXCEPT !.pc = "check", !.op = op, !.ms = m, !.mode = mode, !.wallet = w]
<1>1. Receive(c, k)
  BY DEF Request
<1>2. /\ DOMAIN k = CallFields /\ k.pc = "check" /\ k.outcome = "none"
      /\ k.op = op /\ k.ms = m /\ k.todo = {} /\ (op = "Confirm" => k.mode # "server")
  BY DEF NoCall, CallFields, Request
<1> HIDE DEF k
<1>3. Backed(k, escrow[k.ms], k.ms \in flops)
  BY <1>2 DEF Backed, Busy, Through
<1> QED
  BY <1>1, <1>3, ReceiveStep

LEMMA HiredStep ==
  ASSUME Inv, NEW c \in Calls, NEW f \in Freelancers, ProposalHired(c, f)
  PROVE  Inv'
<1> DEFINE k == [NoCall EXCEPT !.pc = "list", !.op = "Lock", !.hire = f]
<1>1. Receive(c, k)
  BY DEF ProposalHired
<1>2. /\ DOMAIN k = CallFields /\ k.pc = "list" /\ k.op = "Lock" /\ k.hire = f
      /\ k.outcome = "none" /\ k.todo = {}
  BY DEF NoCall, CallFields
<1>3. f # NoKey
  BY ProgramAssumption DEF Chain!Wallets
<1> HIDE DEF k
<1>4. Backed(k, escrow[k.ms], k.ms \in flops)
  BY <1>2, <1>3 DEF Backed, Busy, Through
<1> QED
  BY <1>1, <1>4, ReceiveStep

LEMMA ListStep == ASSUME Inv, NEW c \in Calls, ListFunded(c) PROVE Inv'
<1> DEFINE funded == {m \in Milestones : row[m].status = "Funded"}
           k == [call[c] EXCEPT !.pc = "turn", !.list = funded, !.todo = funded]
<1>1. call[c].pc = "list" /\ UNCHANGED <<escrow, row, flops, net>>
  BY DEF ListFunded, chain, history
<1>2. CASE call' = [call EXCEPT ![c] = Ended(@)]
  BY <1>1, <1>2, Ending
<1>3. CASE call' = [call EXCEPT ![c] = k]
  <2>1. Backed(call[c], escrow[call[c].ms], call[c].ms \in flops)
    BY DEF Inv, CallsBacked
  <2>2. /\ DOMAIN k = CallFields /\ k.pc = "turn" /\ k.op = call[c].op /\ k.hire = call[c].hire
        /\ k.ms = call[c].ms /\ k.outcome = call[c].outcome /\ k.todo \subseteq Milestones
        /\ k.mode = call[c].mode
    BY <2>1 DEF Backed, CallFields
  <2> HIDE DEF k
  <2>3. Backed(k, escrow[k.ms], k.ms \in flops) /\ Going(call[c], k)
    BY <1>1, <2>1, <2>2 DEF Backed, Going, Busy, Through
  <2> QED BY <1>1, <1>3, <2>3, CallGoes
<1>4. \/ call' = [call EXCEPT ![c] = k]
      \/ call' = [call EXCEPT ![c] = Ended(@)]
  BY DEF ListFunded
<1> QED
  BY <1>2, <1>3, <1>4

LEMMA TurnStep == ASSUME Inv, NEW c \in Calls, Turn(c) PROVE Inv'
<1>1. call[c].pc = "turn" /\ UNCHANGED <<escrow, row, flops, net>>
  BY DEF Turn, chain, history
<1>2. CASE call' = [call EXCEPT ![c] = Ended(@)]
  BY <1>1, <1>2, Ending
<1>3. ASSUME NEW m \in call[c].todo,
             call' = [call EXCEPT ![c].pc = "check", ![c].ms = m, ![c].todo = @ \ {m}]
      PROVE  Inv'
  <2> DEFINE k == [call[c] EXCEPT !.pc = "check", !.ms = m, !.todo = @ \ {m}]
  <2>1. Backed(call[c], escrow[call[c].ms], call[c].ms \in flops)
    BY DEF Inv, CallsBacked
  <2>2. call' = [call EXCEPT ![c] = k]
    BY <1>3
  <2>3. m \in Milestones
    BY <2>1 DEF Backed
  <2>4. /\ DOMAIN k = CallFields /\ k.pc = "check" /\ k.op = call[c].op /\ k.hire = call[c].hire
        /\ k.outcome = call[c].outcome /\ k.ms = m /\ k.todo \subseteq Milestones
        /\ k.mode = call[c].mode
    BY <2>1 DEF Backed, CallFields
  <2> HIDE DEF k
  <2>5. Backed(k, escrow[k.ms], k.ms \in flops) /\ Going(call[c], k)
    BY <1>1, <2>1, <2>3, <2>4 DEF Backed, Going, Busy, Through
  <2> QED BY <1>1, <2>2, <2>5, CallGoes
<1>4. \/ call' = [call EXCEPT ![c] = Ended(@)]
      \/ \E m \in call[c].todo :
           call' = [call EXCEPT ![c].pc = "check", ![c].ms = m, ![c].todo = @ \ {m}]
  BY DEF Turn
<1> QED
  BY <1>2, <1>3, <1>4

(* A call moves to a point before it has written its row, with the reading *)
(* it took.                                                                *)
LEMMA CheckStep == ASSUME Inv, NEW c \in Calls, Check(c) PROVE Inv'
<1> DEFINE r == row[call[c].ms]
           k == [call[c] EXCEPT !.pc = "send", !.seen = r]
<1>1. call[c].pc = "check" /\ call[c].op # "Confirm" /\ UNCHANGED <<escrow, row, flops, net>>
  BY DEF Check, chain, history
<1>2. CASE Finish(c, TRUE)
  BY <1>1, <1>2, Finishing
<1>3. CASE call' = [call EXCEPT ![c].pc = "send", ![c].seen = r]
  <2>1. Backed(call[c], escrow[call[c].ms], call[c].ms \in flops)
    BY DEF Inv, CallsBacked
  <2>2. call' = [call EXCEPT ![c] = k]
    BY <1>3
  <2> HIDE DEF r
  <2>3. /\ DOMAIN k = CallFields /\ k.pc = "send" /\ k.op = call[c].op /\ k.hire = call[c].hire
        /\ k.outcome = call[c].outcome /\ k.ms = call[c].ms /\ k.todo = call[c].todo
        /\ k.mode = call[c].mode
    BY <2>1 DEF Backed, CallFields
  <2> HIDE DEF k
  <2>4. Backed(k, escrow[k.ms], k.ms \in flops) /\ Going(call[c], k)
    BY <1>1, <2>1, <2>3 DEF Backed, Going, Busy, Through
  <2> QED BY <1>1, <2>2, <2>4, CallGoes
<1>4. \/ Finish(c, TRUE)
      \/ call' = [call EXCEPT ![c].pc = "send", ![c].seen = r]
  BY DEF Check
<1> QED
  BY <1>2, <1>3, <1>4

(* A call whose program counter moves keeps the rest of its record.        *)
LEMMA Turning ==
  ASSUME Inv, NEW c \in Calls, NEW pc, call[c].pc \notin {"idle", "ended"},
         pc \notin {"idle", "ended"},
         Goto(c, pc), UNCHANGED <<escrow, row, flops, net>>,
         \A k : /\ DOMAIN k = CallFields /\ k.pc = pc /\ k.op = call[c].op
                /\ k.hire = call[c].hire /\ k.ms = call[c].ms /\ k.todo = call[c].todo
                /\ k.outcome = call[c].outcome /\ k.mode = call[c].mode
                /\ k.seen = call[c].seen
                => Backed(k, escrow[k.ms], k.ms \in flops)
  PROVE  Inv'
<1> DEFINE k == [call[c] EXCEPT !.pc = pc]
<1>1. call' = [call EXCEPT ![c] = k]
  BY DEF Goto
<1>2. DOMAIN call[c] = CallFields
  BY DEF Inv, CallsBacked, Backed
<1>3. /\ DOMAIN k = CallFields /\ k.pc = pc /\ k.op = call[c].op
      /\ k.hire = call[c].hire /\ k.ms = call[c].ms /\ k.todo = call[c].todo
      /\ k.outcome = call[c].outcome /\ k.mode = call[c].mode /\ k.seen = call[c].seen
  BY <1>2 DEF CallFields
<1> HIDE DEF k
<1>4. Backed(k, escrow[k.ms], k.ms \in flops)
  BY <1>3
<1>5. Going(call[c], k)
  BY <1>3 DEF Going
<1> QED
  BY <1>1, <1>4, <1>5, CallGoes

LEMMA VerifyStep == ASSUME Inv, NEW c \in Calls, Verify(c) PROVE Inv'
<1>1. /\ call[c].pc = "check" /\ call[c].op = "Confirm"
      /\ UNCHANGED <<escrow, row, flops, net>>
  BY DEF Verify, chain, history
<1>2. CASE Finish(c, FALSE)
  BY <1>1, <1>2, Finishing
<1>3. CASE Goto(c, "confirm")
  <2>1. Backed(call[c], escrow[call[c].ms], call[c].ms \in flops)
    BY DEF Inv, CallsBacked
  <2>2. ASSUME NEW k, DOMAIN k = CallFields, k.pc = "confirm", k.op = call[c].op,
               k.hire = call[c].hire, k.ms = call[c].ms, k.todo = call[c].todo,
               k.mode = call[c].mode
        PROVE  Backed(k, escrow[k.ms], k.ms \in flops)
    BY <1>1, <2>1, <2>2 DEF Backed, Busy, Through
  <2> QED BY <1>1, <1>3, <2>2, Turning
<1> QED
  BY <1>2, <1>3 DEF Verify

LEMMA SendStep == ASSUME Inv, NEW c \in Calls, Send(c) PROVE Inv'
<1>1. call[c].pc = "send" /\ UNCHANGED <<escrow, row, flops>>
  BY DEF Send, chain, history
<1>2. CASE net' = net /\ Finish(c, FALSE)
  BY <1>1, <1>2, Finishing
<1>3. CASE net' = net \cup {Tx(c)} /\ Goto(c, "wait")
  <2> DEFINE k == [call[c] EXCEPT !.pc = "wait"]
  <2>1. Backed(call[c], escrow[call[c].ms], call[c].ms \in flops)
    BY DEF Inv, CallsBacked
  <2>2. /\ DOMAIN k = CallFields /\ k.pc = "wait" /\ k.op = call[c].op /\ k.ms = call[c].ms
        /\ k.hire = call[c].hire /\ k.outcome = call[c].outcome /\ k.todo = call[c].todo
        /\ k.mode = call[c].mode
    BY <2>1 DEF Backed, CallFields
  <2>3. call' = [call EXCEPT ![c] = k]
    BY <1>3 DEF Goto
  <2> HIDE DEF k
  <2>4. call[c].outcome = "none" /\ call[c].ms \in Milestones
    BY <1>1, <2>1 DEF Backed, Busy
  <2>5. Backed(k, escrow[k.ms], k.ms \in flops)
    BY <1>1, <2>1, <2>2, <2>4 DEF Backed, Busy, Through
  <2>6. Tx(c).call = c /\ Sent(Tx(c), k)
    BY <1>1, <2>1, <2>2, <2>4 DEF Tx, Sent, Backed
  <2>7. \A t \in net' : t.call = c => Sent(t, k)
    BY <1>1, <1>3, <2>2, <2>6 DEF Inv, NetKnown, Sent
  <2>8. \A t \in net' : t.call = c \/ t \in net
    BY <1>3, <2>6
  <2>9. CallsBacked' /\ NetKnown'
    BY <1>1, <2>3, <2>5, <2>7, <2>8, CallMoves DEF Inv
  <2> QED BY <1>1, <2>9, RowsStay DEF Inv
<1> QED
  BY <1>2, <1>3 DEF Send

LEMMA SettledStep == ASSUME Inv, NEW c \in Calls, Settled(c) PROVE Inv'
<1>1. call[c].pc = "wait" /\ UNCHANGED <<escrow, row, flops, net>>
  BY DEF Settled, chain, history
<1>2. Backed(call[c], escrow[call[c].ms], call[c].ms \in flops)
  BY DEF Inv, CallsBacked
<1>3. CASE Finish(c, FALSE)
  BY <1>1, <1>3, Finishing
<1>4. ASSUME GoesOn(call[c].mode, call[c].outcome), NEW pc, Goto(c, pc),
             \/ pc = "record" /\ call[c].mode = "server"
             \/ pc = "confirm" /\ call[c].mode # "server"
      PROVE  Inv'
  <2>1. call[c].outcome = "ok" \/ call[c].outcome = "failed"
    BY <1>4 DEF GoesOn
  <2>2. pc \notin {"idle", "ended"} /\ call[c].pc \notin {"idle", "ended"}
    BY <1>1, <1>4
  <2>3. ASSUME NEW k, DOMAIN k = CallFields, k.pc = pc, k.op = call[c].op,
               k.hire = call[c].hire, k.ms = call[c].ms, k.todo = call[c].todo,
               k.mode = call[c].mode
        PROVE  Backed(k, escrow[k.ms], k.ms \in flops)
    BY <1>1, <1>2, <1>4, <2>1, <2>3 DEF Backed, Busy, Through
  <2> QED BY <1>1, <1>4, <2>2, <2>3, Turning
<1>5. \/ Finish(c, FALSE)
      \/ /\ GoesOn(call[c].mode, call[c].outcome)
         /\ \/ call[c].mode = "server" /\ Goto(c, "record")
            \/ call[c].mode # "server" /\ Goto(c, "confirm")
  BY DEF Settled
<1> QED
  BY <1>3, <1>4, <1>5

LEMMA LoseTouchStep == ASSUME Inv, NEW c \in Calls, LoseTouch(c) PROVE Inv'
<1>1. call[c].pc = "wait" /\ Finish(c, FALSE) /\ UNCHANGED <<escrow, row, flops, net>>
  BY DEF LoseTouch, chain
<1> QED
  BY <1>1, Finishing

LEMMA RereadStep == ASSUME Inv, NEW c \in Calls, Reread(c) PROVE Inv'
<1> DEFINE e == escrow[call[c].ms]
<1>1. call[c].pc = "confirm" /\ UNCHANGED <<escrow, row, flops, net>>
  BY DEF Reread, chain
<1>2. Backed(call[c], e, call[c].ms \in flops)
  BY DEF Inv, CallsBacked
<1>3. InShape(e)
  BY <1>1, <1>2 DEF Backed, Busy, Through, Inv, AccountsInOrder
<1>4. ASSUME NEW seen, (seen.status = e.status /\ e # NoEscrow) \/ seen.status = "Funded",
             call' = [call EXCEPT ![c].pc = "record", ![c].seen = seen]
      PROVE  Inv'
  <2> DEFINE k == [call[c] EXCEPT !.pc = "record", !.seen = seen]
  <2>1. call' = [call EXCEPT ![c] = k]
    BY <1>4
  <2>2. /\ DOMAIN k = CallFields /\ k.pc = "record" /\ k.op = call[c].op /\ k.hire = call[c].hire
        /\ k.ms = call[c].ms /\ k.todo = call[c].todo /\ k.seen = seen
        /\ k.mode = call[c].mode
    BY <1>2 DEF Backed, CallFields
  <2> HIDE DEF k
  <2>3. Claims(seen.status, e)
    BY <1>3, <1>4 DEF Claims, InShape, Lasting, NoEscrow
  <2>4. Backed(k, escrow[k.ms], k.ms \in flops) /\ Going(call[c], k)
    BY <1>1, <1>2, <2>2, <2>3 DEF Backed, Going, Busy, Through
  <2> QED BY <1>1, <2>1, <2>4, CallGoes
<1>5. \/ Finish(c, FALSE)
      \/ /\ e # NoEscrow
         /\ call' = [call EXCEPT ![c].pc = "record", ![c].seen = Account(e)]
      \/ call' = [call EXCEPT ![c].pc = "record", ![c].seen = Fallback(row[call[c].ms])]
  BY DEF Reread
<1>6. Account(e).status = e.status /\ Fallback(row[call[c].ms]).status = "Funded"
  BY DEF Account, Fallback, NoRow
<1>7. CASE Finish(c, FALSE)
  BY <1>1, <1>7, Finishing
<1> QED
  BY <1>4, <1>5, <1>6, <1>7

LEMMA CountStep == ASSUME Inv, NEW c \in Calls, Count(c) PROVE Inv'
<1>1. call[c].pc = "count" /\ UNCHANGED <<escrow, row, flops, net>>
  BY DEF Count, chain, history
<1>2. Backed(call[c], escrow[call[c].ms], call[c].ms \in flops)
  BY DEF Inv, CallsBacked
<1>3. PICK left : call' = [call EXCEPT ![c].pc = "publish", ![c].outcome = left]
  BY DEF Count
<1> DEFINE k == [call[c] EXCEPT !.pc = "publish", !.outcome = left]
<1>4. call' = [call EXCEPT ![c] = k]
  BY <1>3
<1>5. /\ DOMAIN k = CallFields /\ k.pc = "publish" /\ k.op = call[c].op /\ k.hire = call[c].hire
      /\ k.ms = call[c].ms /\ k.todo = call[c].todo /\ k.mode = call[c].mode
  BY <1>2 DEF Backed, CallFields
<1> HIDE DEF k
<1>6. Backed(k, escrow[k.ms], k.ms \in flops) /\ Going(call[c], k)
  BY <1>1, <1>2, <1>5 DEF Backed, Going, Busy, Through
<1> QED
  BY <1>1, <1>4, <1>6, CallGoes

LEMMA AnnounceStep == ASSUME Inv, NEW c \in Calls, Announce(c) \/ Publish(c) PROVE Inv'
<1>1. /\ call[c].pc \in {"announce", "publish"} /\ Finish(c, TRUE)
      /\ UNCHANGED <<escrow, row, flops, net>>
  BY DEF Announce, Publish, chain, history
<1> QED
  BY <1>1, Finishing

LEMMA CrashStep == ASSUME Inv, NEW c \in Calls, Crash(c) PROVE Inv'
<1>1. call[c].pc \notin {"idle", "ended"} /\ UNCHANGED <<escrow, row, flops, net>>
  BY DEF Crash, Handled, chain, history
<1>2. Backed(call[c], escrow[call[c].ms], call[c].ms \in flops)
  BY DEF Inv, CallsBacked
<1>3. CASE call' = [call EXCEPT ![c] = [call[c] EXCEPT
               !.pc = IF call[c].op = "Lock" THEN "list" ELSE "check",
               !.list = {}, !.todo = {}, !.seen = NoRow, !.outcome = "none", !.tries = @ + 1]]
  <2> DEFINE k == [call[c] EXCEPT
               !.pc = IF call[c].op = "Lock" THEN "list" ELSE "check",
               !.list = {}, !.todo = {}, !.seen = NoRow, !.outcome = "none", !.tries = @ + 1]
  <2>1. call' = [call EXCEPT ![c] = k]
    BY <1>3
  <2>2. /\ DOMAIN k = CallFields /\ k.op = call[c].op /\ k.hire = call[c].hire
        /\ k.ms = call[c].ms /\ k.outcome = "none" /\ k.todo = {} /\ k.mode = call[c].mode
        /\ k.pc = IF call[c].op = "Lock" THEN "list" ELSE "check"
    BY <1>2 DEF Backed, CallFields
  <2> HIDE DEF k
  <2>3. Backed(k, escrow[k.ms], k.ms \in flops) /\ Going(call[c], k)
    BY <1>1, <1>2, <2>2 DEF Backed, Going, Busy, Through
  <2> QED BY <1>1, <2>1, <2>3, CallGoes
<1>4. CASE call[c].pc \in Through /\ Goto(c, "confirm")
  <2>1. ASSUME NEW k, DOMAIN k = CallFields, k.pc = "confirm", k.op = call[c].op,
               k.hire = call[c].hire, k.ms = call[c].ms, k.todo = call[c].todo,
               k.mode = call[c].mode
        PROVE  Backed(k, escrow[k.ms], k.ms \in flops)
    BY <1>2, <1>4, <2>1 DEF Backed, Busy, Through
  <2> QED BY <1>1, <1>4, <2>1, Turning
<1>5. CASE call' = [call EXCEPT ![c] = Ended(@)]
  BY <1>1, <1>5, Ending
<1> QED
  BY <1>3, <1>4, <1>5 DEF Crash, Through

(* The row a handler writes claims no more than what its transaction and   *)
(* the reading after it have shown.                                        *)
LEMMA RowWritten ==
  ASSUME NEW k, NEW e, Backed(k, e, FALSE), k.pc = "record",
         NEW r, DOMAIN r = RowFields, Trails(r, e), NEW new, new = Recorded(k, r)
  PROVE  DOMAIN new = RowFields /\ Trails(new, e)
<1>1. k.mode = "server" => Accomplished(k.op, k.hire, e)
  BY DEF Backed, Through
<1>2. CASE k.mode # "server"
  <2>1. new = ConfirmedRow(k, r) /\ Claims(k.seen.status, e)
    BY <1>2 DEF Backed, Recorded
  <2>2. /\ DOMAIN new = RowFields /\ new.status = k.seen.status /\ new.freelancer = r.freelancer
    BY <2>1 DEF ConfirmedRow, RowFields
  <2> QED BY <2>1, <2>2 DEF Claims, Trails
<1>3. CASE k.mode = "server" /\ k.op = "Lock"
  <2>1. new = [r EXCEPT !.status = "Locked", !.freelancer = k.hire] /\ k.hire # NoKey
    BY <1>3 DEF SignedRow, Recorded, Backed
  <2>2. /\ DOMAIN new = RowFields /\ new.status = "Locked" /\ new.freelancer = k.hire
    BY <2>1 DEF RowFields
  <2> QED BY <1>1, <1>3, <2>1, <2>2 DEF Trails, Accomplished, Lasting
<1>4. CASE k.mode = "server" /\ k.op # "Lock"
  <2>1. \/ k.op = "Fund" /\ new = [r EXCEPT !.status = "Funded", !.wallet = k.wallet]
        \/ k.op \in {"Withdraw", "Refund"} /\ new = [r EXCEPT !.status = "Refunded"]
        \/ k.op = "Release" /\ new = [r EXCEPT !.status = "Released"]
    BY <1>1, <1>4 DEF SignedRow, Recorded, Accomplished
  <2>2. /\ DOMAIN new = RowFields /\ new.freelancer = r.freelancer
        /\ \/ k.op = "Fund" /\ new.status = "Funded"
           \/ k.op \in {"Withdraw", "Refund"} /\ new.status = "Refunded"
           \/ k.op = "Release" /\ new.status = "Released"
    BY <2>1 DEF RowFields
  <2> QED BY <1>1, <1>4, <2>2 DEF Trails, Accomplished, Lasting
<1> QED
  BY <1>2, <1>3, <1>4

LEMMA RecordStep == ASSUME Inv, NEW c \in Calls, Record(c) PROVE Inv'
<1> DEFINE m == call[c].ms
           new == Recorded(call[c], row[m])
<1>1. /\ call[c].pc = "record" /\ row' = [row EXCEPT ![m] = new]
      /\ UNCHANGED <<escrow, flops, net>>
  BY DEF Record, chain, history
<1>2. Backed(call[c], escrow[m], m \in flops) /\ m \in Milestones
  BY <1>1 DEF Inv, CallsBacked, Backed, Busy, Through
<1>3. m \notin flops => DOMAIN new = RowFields /\ Trails(new, escrow[m])
  <2> SUFFICES ASSUME m \notin flops PROVE DOMAIN new = RowFields /\ Trails(new, escrow[m])
    OBVIOUS
  <2>1. Backed(call[c], escrow[m], FALSE)
    BY <1>2 DEF Backed
  <2>2. DOMAIN row[m] = RowFields /\ Trails(row[m], escrow[m])
    BY <1>2 DEF Inv, RowsTrail
  <2> QED BY <1>1, <2>1, <2>2, RowWritten
<1> DEFINE next == AfterRecord(new.status)
           k == IF next = "done" THEN Finished(call[c], TRUE) ELSE [call[c] EXCEPT !.pc = next]
<1>4. call' = [call EXCEPT ![c] = k]
  BY DEF Record, Finish, Goto
<1>5. next \in {"done", "announce", "count"}
  BY DEF AfterRecord
<1>6. Backed(k, escrow[k.ms], k.ms \in flops) /\ Going(call[c], k)
  <2>1. CASE next = "done"
    BY <1>1, <1>2, <2>1, FinishedBacked
  <2>2. CASE next # "done"
    <3> HIDE DEF next
    <3>1. k = [call[c] EXCEPT !.pc = next]
      BY <2>2
    <3> HIDE DEF k
    <3>2. /\ DOMAIN k = CallFields /\ k.pc = next /\ k.op = call[c].op /\ k.ms = m
          /\ k.hire = call[c].hire /\ k.todo = call[c].todo /\ k.mode = call[c].mode
      BY <1>2, <3>1 DEF Backed, CallFields
    <3> HIDE DEF m
    <3> QED BY <1>1, <1>2, <1>5, <2>2, <3>2 DEF Backed, Going, Busy, Through, m
  <2> QED BY <2>1, <2>2
<1> HIDE DEF k, next, new, m
<1>7. RowsTrail'
  BY <1>1, <1>2, <1>3 DEF Inv, RowsTrail
<1>8. \A t \in net' : t.call = c => Sent(t, k)
  BY <1>1, <1>6 DEF Inv, NetKnown, Sent, Going
<1>9. CallsBacked' /\ NetKnown'
  BY <1>1, <1>4, <1>6, <1>8, CallMoves DEF Inv
<1> QED
  BY <1>1, <1>7, <1>9 DEF Inv, AccountsInOrder

LEMMA CreateStep == ASSUME Inv, NEW ms \in SUBSET Milestones, CreateMilestones(ms) PROVE Inv'
<1>1. /\ row' = [m \in Milestones |-> IF m \in ms THEN Pending ELSE row[m]]
      /\ UNCHANGED <<escrow, call, net, flops>>
  BY DEF CreateMilestones, chain, history
<1>2. \A e : DOMAIN Pending = RowFields /\ Trails(Pending, e)
  BY DEF Pending, NoRow, RowFields, Trails
<1>3. RowsTrail'
  BY <1>1, <1>2 DEF Inv, RowsTrail
<1> QED
  BY <1>1, <1>3 DEF Inv, AccountsInOrder, CallsBacked, NetKnown

-----------------------------------------------------------------------------
(* The network's steps *)

(* Whatever the node reports of a transaction is so.                       *)
LEMMA ConfirmStep ==
  ASSUME Inv, NEW t \in net, NEW outcome \in {"ok", "failed", "expired"},
         AccountsInOrder', \A m \in Milestones : Follows(escrow[m], escrow'[m]),
         flops \subseteq flops', row' = row, net' \subseteq net, Report(t, outcome),
         outcome = "ok" => Accomplished(t.op, t.payee, escrow'[t.ms]),
         outcome = "failed" => t.ms \in flops'
  PROVE  Inv'
<1> DEFINE c == t.call
           k == [call[c] EXCEPT !.outcome = outcome]
<1>1. c \in Calls /\ Sent(t, call[c])
  BY DEF Inv, NetKnown
<1>2. ASSUME NEW d \in Calls, call'[d] = call[d]
      PROVE  Backed(call'[d], escrow'[call'[d].ms], call'[d].ms \in flops')
  <2>1. PICK r : r = call[d]
    OBVIOUS
  <2>2. Backed(r, escrow[r.ms], r.ms \in flops)
    BY <2>1 DEF Inv, CallsBacked
  <2>3. PICK bad \in BOOLEAN : bad <=> r.ms \in flops
    OBVIOUS
  <2>4. PICK worse \in BOOLEAN : worse <=> r.ms \in flops'
    OBVIOUS
  <2>5. /\ r.pc \in Busy => Follows(escrow[r.ms], escrow'[r.ms]) /\ (bad => worse)
        /\ Backed(r, escrow[r.ms], bad)
    BY <2>2, <2>3, <2>4 DEF Backed
  <2>6. Backed(r, escrow'[r.ms], worse)
    BY <2>5, StaysBacked
  <2> QED BY <1>2, <2>1, <2>4, <2>6 DEF Backed
<1>3. CASE call' = call
  <2>1. CallsBacked'
    BY <1>2, <1>3 DEF Inv, CallsBacked
  <2>2. NetKnown'
    BY <1>3 DEF Inv, NetKnown
  <2>3. RowsTrail'
    BY StillTrails DEF Inv, RowsTrail
  <2> QED BY <2>1, <2>2, <2>3 DEF Inv
<1>4. CASE call[c].pc = "wait" /\ call[c].ms = t.ms /\ call' = [call EXCEPT ![c] = k]
  <2>1. Backed(call[c], escrow[call[c].ms], call[c].ms \in flops) /\ DOMAIN call = Calls
    BY <1>1 DEF Inv, CallsBacked
  <2>2. /\ DOMAIN k = CallFields /\ k.pc = "wait" /\ k.outcome = outcome
        /\ k.op = call[c].op /\ k.ms = call[c].ms /\ k.hire = call[c].hire
        /\ k.todo = call[c].todo
    BY <1>4, <2>1 DEF Backed, CallFields
  <2>3. /\ t.ms = k.ms /\ t.op = k.op
        /\ (t.op = "Lock" => t.payee = k.hire)
    BY <1>1, <1>4, <2>2 DEF Sent
  <2>4. call'[c] = k /\ DOMAIN call' = Calls /\ \A d \in Calls \ {c} : call'[d] = call[d]
    BY <1>1, <1>4, <2>1
  <2> HIDE DEF k
  <2>5. outcome = "ok" => Accomplished(k.op, k.hire, escrow'[k.ms])
    BY <2>3 DEF Accomplished
  <2>6. Backed(k, escrow'[k.ms], k.ms \in flops')
    BY <1>4, <2>1, <2>2, <2>3, <2>5 DEF Backed, Busy, Through
  <2>7. CallsBacked'
    BY <1>2, <2>4, <2>6 DEF CallsBacked
  <2>8. \A s \in net : Sent(s, call[s.call]) => Sent(s, call'[s.call])
    <3> TAKE s \in net
    <3>1. CASE s.call = c
      BY <1>4, <2>2, <2>4, <3>1 DEF Sent
    <3>2. CASE s.call # c
      BY <2>4, <3>2 DEF Inv, NetKnown
    <3> QED BY <3>1, <3>2
  <2>9. NetKnown'
    BY <2>8 DEF Inv, NetKnown
  <2>10. RowsTrail'
    BY StillTrails DEF Inv, RowsTrail
  <2> QED BY <2>7, <2>9, <2>10 DEF Inv
<1> QED
  BY <1>3, <1>4 DEF Report

LEMMA LandStep == ASSUME Inv, NEW t \in net, Land(t) PROVE Inv'
<1>1. /\ Submit(t) /\ net' \subseteq net /\ Report(t, "ok") /\ row' = row /\ flops' = flops
  BY DEF Land, history
<1>2. Sent(t, call[t.call]) /\ t.call \in Calls /\ AccountsInOrder
  BY DEF Inv, NetKnown
<1>3. t.ms \in Milestones /\ (t.op = "Lock" => t.payee # NoKey)
  BY <1>2 DEF Inv, CallsBacked, Backed, Sent
<1>4. /\ AccountsInOrder'
      /\ \A m \in Milestones : Follows(escrow[m], escrow'[m])
      /\ Accomplished(t.op, t.payee, escrow'[t.ms])
  BY <1>1, <1>2, <1>3, Submitted
<1> QED
  BY <1>1, <1>4, ConfirmStep

LEMMA FailedStep == ASSUME Inv, NEW t \in net, Flop(t) \/ Expire(t) PROVE Inv'
<1>1. escrow' = escrow /\ row' = row /\ net' \subseteq net /\ flops \subseteq flops'
  BY DEF Flop, Expire, chain
<1>2. AccountsInOrder' /\ \A m \in Milestones : Follows(escrow[m], escrow'[m])
  BY <1>1 DEF Inv, AccountsInOrder, Follows
<1>3. CASE Flop(t)
  <2>1. Report(t, "failed") /\ t.ms \in flops'
    BY <1>3 DEF Flop
  <2> QED BY <1>1, <1>2, <2>1, ConfirmStep
<1>4. CASE Expire(t)
  <2>1. Report(t, "expired")
    BY <1>4 DEF Expire
  <2> QED BY <1>1, <1>2, <2>1, ConfirmStep
<1> QED
  BY <1>3, <1>4

-----------------------------------------------------------------------------

LEMMA Initially == Init => Inv
<1> SUFFICES ASSUME Init PROVE Inv
  OBVIOUS
<1>1. /\ escrow = [m \in Milestones |-> Chain!NoEscrow] /\ row = [m \in Milestones |-> NoRow]
      /\ call = [c \in Calls |-> NoCall] /\ net = {}
  BY DEF Init, Chain!Init
<1>2. InShape(Chain!NoEscrow)
  BY DEF Chain!NoEscrow, InShape, AccountFields
<1>3. Backed(NoCall, escrow[NoCall.ms], NoCall.ms \in flops)
  BY DEF NoCall, Backed, CallFields, Busy, Through
<1>4. \A e : DOMAIN NoRow = RowFields /\ Trails(NoRow, e)
  BY DEF NoRow, RowFields, Trails
<1>5. AccountsInOrder /\ NetKnown /\ RowsTrail
  BY <1>1, <1>2, <1>4 DEF AccountsInOrder, NetKnown, RowsTrail
<1>6. CallsBacked
  BY <1>1, <1>3 DEF CallsBacked
<1> QED
  BY <1>5, <1>6 DEF Inv

LEMMA FeesStep == ASSUME Inv, NEW w, NEW n, WithdrawFees(w, n) PROVE Inv'
<1>1. escrow' = escrow /\ row' = row /\ call' = call /\ net' = net /\ flops' = flops
  BY DEF WithdrawFees, Chain!WithdrawFees
<1> QED
  BY <1>1 DEF Inv, AccountsInOrder, CallsBacked, NetKnown, RowsTrail

LEMMA Stepwise == Inv /\ [Next]_vars => Inv'
<1> SUFFICES ASSUME Inv, [Next]_vars PROVE Inv'
  OBVIOUS
<1>1. ASSUME NEW c \in Calls, Handle(c) PROVE Inv'
  BY <1>1, ListStep, TurnStep, CheckStep, VerifyStep, SendStep, SettledStep, RereadStep, RecordStep,
     AnnounceStep, CountStep DEF Handle
<1>2. ASSUME NEW c \in Calls, NEW op \in Requests,
             NEW m \in Milestones, NEW w \in Clients, NEW mode \in Modes,
             Request(c, op, m, w, mode)
      PROVE  Inv'
  BY <1>2, RequestStep DEF Requests
<1>3. ASSUME NEW t \in net, Confirm(t) PROVE Inv'
  BY <1>3, LandStep, FailedStep DEF Confirm
<1>4. ASSUME NEW c \in Calls, LoseTouch(c) PROVE Inv'
  BY <1>4, LoseTouchStep
<1>5. ASSUME NEW c \in Calls, Crash(c) PROVE Inv'
  BY <1>5, CrashStep
<1>6. CASE UNCHANGED vars
  <2>1. escrow' = escrow /\ row' = row /\ call' = call /\ net' = net /\ flops' = flops
    BY <1>6 DEF vars, chain, history
  <2> QED BY <2>1 DEF Inv, AccountsInOrder, CallsBacked, NetKnown, RowsTrail
<1> QED
  BY <1>1, <1>2, <1>3, <1>4, <1>5, <1>6, CreateStep, HiredStep, FeesStep DEF Next, Requests

(* Every call that is past its transaction has its result, every           *)
(* transaction is what its call asked for and no row runs ahead: the       *)
(* inductive invariant behind the next theorem.                            *)
THEOREM MilestonesInOrder == Spec => []Inv
<1> QED
  BY Initially, Stepwise, PTL DEF Spec

(* Money was put in escrow for the milestone, or a confirmation that stood *)
(* alone made as if it were.                                               *)
PaidFor(m) == escrow[m].status # "None" \/ m \in strays

Paid ==
  /\ \A c \in Calls : call[c].op = "Confirm" /\ call[c].pc = "record" => PaidFor(call[c].ms)
  /\ \A m \in Milestones \ flops : row[m].status = "Funded" => PaidFor(m)

(* What was paid for stays paid for, when no call takes a reading and no   *)
(* row becomes funded.                                                     *)
LEMMA PaidStays ==
  ASSUME Inv, Paid, strays \subseteq strays', flops \subseteq flops',
         \A m \in Milestones : row'[m].status = "Funded" => row[m].status = "Funded",
         \A m \in Milestones : escrow[m].status # "None" => escrow'[m].status # "None",
         \A c \in Calls : call'[c].op = "Confirm" /\ call'[c].pc = "record" => call'[c] = call[c]
  PROVE  Paid'
<1>1. \A c \in Calls : call[c].pc = "record" => call[c].ms \in Milestones
  BY DEF Inv, CallsBacked, Backed, Busy, Through
<1> QED
  BY <1>1 DEF Paid, PaidFor

(* One call goes on, and not to a reading.                                 *)
LEMMA PaidMoves ==
  ASSUME Inv, Paid, NEW c, NEW k, call' = [call EXCEPT ![c] = k],
         k.pc # "record" \/ k.op # "Confirm",
         UNCHANGED <<escrow, row, flops>>, strays' = strays
  PROVE  Paid'
<1>1. \A d \in Calls : call'[d].op = "Confirm" /\ call'[d].pc = "record" => call'[d] = call[d]
  BY DEF Inv, CallsBacked
<1> QED
  BY <1>1, PaidStays

LEMMA PaidReread ==
  ASSUME Inv, Paid, NEW c \in Calls, Reread(c)
  PROVE  Paid'
<1> DEFINE m == call[c].ms
<1>1. UNCHANGED <<escrow, row, flops>> /\ call[c].pc = "confirm"
  BY DEF Reread, chain
<1>2. DOMAIN call = Calls /\ DOMAIN call[c] = CallFields
  BY DEF Inv, CallsBacked, Backed
<1>3. CASE Finish(c, FALSE) /\ strays' = strays
  <2> DEFINE k == Finished(call[c], FALSE)
  <2>1. call' = [call EXCEPT ![c] = k]
    BY <1>3 DEF Finish
  <2>2. k.pc # "record"
    BY <1>2 DEF Finished, Ended, NoCall, CallFields
  <2> HIDE DEF k
  <2> QED BY <1>1, <1>3, <2>1, <2>2, PaidMoves
<1>4. ASSUME NEW seen, call' = [call EXCEPT ![c].pc = "record", ![c].seen = seen],
             strays' = IF Owns(call[c].wallet, m) THEN strays ELSE strays \cup {m}
      PROVE  Paid'
  <2>1. strays \subseteq strays' /\ (escrow[m].status # "None" \/ m \in strays')
    BY <1>4 DEF Owns
  <2>2. call'[c].ms = m /\ \A d \in Calls \ {c} : call'[d] = call[d]
    BY <1>2, <1>4 DEF CallFields
  <2> HIDE DEF m
  <2>3. \A i : PaidFor(i) => escrow[i].status # "None" \/ i \in strays'
    BY <2>1 DEF PaidFor
  <2>4. \A d \in Calls : call'[d].op = "Confirm" /\ call'[d].pc = "record" =>
          escrow[call'[d].ms].status # "None" \/ call'[d].ms \in strays'
    <3> TAKE d \in Calls
    <3>1. CASE d = c
      BY <2>1, <2>2, <3>1
    <3>2. CASE d # c
      BY <2>2, <2>3, <3>2 DEF Paid
    <3> QED BY <3>1, <3>2
  <2> QED BY <1>1, <2>3, <2>4 DEF Paid, PaidFor
<1> QED
  BY <1>3, <1>4 DEF Reread

LEMMA PaidRecord ==
  ASSUME Inv, Paid, NEW c \in Calls, Record(c)
  PROVE  Paid'
<1> DEFINE m == call[c].ms
           new == Recorded(call[c], row[m])
           next == AfterRecord(new.status)
           k == IF next = "done" THEN Finished(call[c], TRUE) ELSE [call[c] EXCEPT !.pc = next]
<1>1. /\ call[c].pc = "record" /\ row' = [row EXCEPT ![m] = new]
      /\ call' = [call EXCEPT ![c] = k]
      /\ UNCHANGED <<escrow, flops>> /\ strays' = strays
  BY DEF Record, Finish, Goto, chain, history
<1>2. /\ DOMAIN call = Calls /\ DOMAIN call[c] = CallFields /\ m \in Milestones
      /\ call[c].op = "Confirm" \/ m \in flops \/ Accomplished(call[c].op, call[c].hire, escrow[m])
  BY <1>1 DEF Inv, CallsBacked, Backed, Busy, Through
<1>3. m \in flops \/ PaidFor(m)
  BY <1>1, <1>2 DEF Paid, PaidFor, Accomplished
<1>4. DOMAIN row = Milestones
  BY DEF Inv, RowsTrail
<1>5. k.pc # "record"
  <2>1. Finished(call[c], TRUE).pc # "record"
    BY <1>2 DEF Finished, Ended, NoCall, CallFields
  <2>2. next \in {"announce", "count", "done"}
    BY DEF AfterRecord
  <2> HIDE DEF next
  <2>3. next # "done" => k.pc = next
    BY <1>2 DEF CallFields
  <2> QED BY <2>1, <2>2, <2>3
<1> HIDE DEF m, new, k
<1>6. \A d \in Calls : call'[d].pc = "record" => call'[d] = call[d]
  BY <1>1, <1>2, <1>5
<1>7. \A i \in Milestones \ flops : row'[i].status = "Funded" => PaidFor(i)
  BY <1>1, <1>2, <1>3, <1>4 DEF Paid
<1> QED
  BY <1>1, <1>6, <1>7 DEF Paid, PaidFor

LEMMA PaidConfirm ==
  ASSUME Inv, Paid, NEW t \in net, Confirm(t)
  PROVE  Paid'
<1>1. /\ row' = row /\ strays' = strays /\ flops \subseteq flops'
      /\ \E outcome : Report(t, outcome)
  BY DEF Confirm, Land, Flop, Expire, history
<1>2. DOMAIN call = Calls /\ \A c \in Calls : DOMAIN call[c] = CallFields
  BY DEF Inv, CallsBacked, Backed
<1>3. \A c \in Calls : call'[c].op = "Confirm" /\ call'[c].pc = "record" => call'[c] = call[c]
  BY <1>1, <1>2 DEF Report, CallFields
<1>4. \A m \in Milestones : escrow[m].status # "None" => escrow'[m].status # "None"
  <2>1. CASE Land(t)
    <3>1. /\ t.ms \in Milestones /\ AccountsInOrder /\ Submit(t)
          /\ t.op = "Lock" => t.payee # NoKey
      BY <2>1 DEF Inv, NetKnown, Sent, Land
    <3> QED BY <3>1, Submitted DEF Follows
  <2>2. CASE Flop(t) \/ Expire(t)
    BY <2>2 DEF Flop, Expire, chain
  <2> QED BY <2>1, <2>2 DEF Confirm
<1> QED
  BY <1>1, <1>3, <1>4, PaidStays

LEMMA PaidHandle ==
  ASSUME Inv, Paid, NEW c \in Calls, Handle(c) \/ LoseTouch(c) \/ Crash(c)
  PROVE  Paid'
<1>1. DOMAIN call[c] = CallFields
  BY DEF Inv, CallsBacked, Backed
<1> DEFINE Stays == UNCHANGED <<escrow, row, flops>> /\ strays' = strays
<1>2. ASSUME NEW k, Stays, call' = [call EXCEPT ![c] = k], k.pc # "record" \/ k.op # "Confirm"
      PROVE  Paid'
  BY <1>2, PaidMoves
<1>3. ASSUME Stays, call' = [call EXCEPT ![c] = Ended(@)] PROVE Paid'
  BY <1>2, <1>3 DEF Ended, NoCall
<1>4. ASSUME Stays, NEW ok, Finish(c, ok) PROVE Paid'
  <2> DEFINE k == Finished(call[c], ok)
  <2>1. k.pc # "record" /\ call' = [call EXCEPT ![c] = k]
    BY <1>1, <1>4 DEF Finish, Finished, Ended, NoCall, CallFields
  <2> HIDE DEF k
  <2> QED BY <1>2, <1>4, <2>1
<1>5. ASSUME Stays, NEW pc, Goto(c, pc), pc # "record" \/ call[c].op # "Confirm" PROVE Paid'
  <2> DEFINE k == [call[c] EXCEPT !.pc = pc]
  <2>1. k.pc = pc /\ k.op = call[c].op /\ call' = [call EXCEPT ![c] = k]
    BY <1>1, <1>5 DEF Goto, CallFields
  <2> HIDE DEF k
  <2> QED BY <1>2, <1>5, <2>1
<1>6. CASE ListFunded(c)
  <2> DEFINE funded == {m \in Milestones : row[m].status = "Funded"}
             k == [call[c] EXCEPT !.pc = "turn", !.list = funded, !.todo = funded]
  <2>1. Stays /\ (call' = [call EXCEPT ![c] = k] \/ call' = [call EXCEPT ![c] = Ended(@)])
    BY <1>6 DEF ListFunded, chain, history
  <2>2. k.pc = "turn"
    BY <1>1 DEF CallFields
  <2> HIDE DEF k
  <2> QED BY <1>2, <1>3, <2>1, <2>2
<1>7. CASE Turn(c)
  <2>1. Stays
    BY <1>7 DEF Turn, chain, history
  <2>2. ASSUME NEW m, call' = [call EXCEPT ![c].pc = "check", ![c].ms = m, ![c].todo = @ \ {m}]
        PROVE  Paid'
    <3> DEFINE k == [call[c] EXCEPT !.pc = "check", !.ms = m, !.todo = @ \ {m}]
    <3>1. k.pc = "check" /\ call' = [call EXCEPT ![c] = k]
      BY <1>1, <2>2 DEF CallFields
    <3> HIDE DEF k
    <3> QED BY <1>2, <2>1, <3>1
  <2> QED BY <1>3, <1>7, <2>1, <2>2 DEF Turn
<1>8. CASE Check(c)
  <2> DEFINE r == row[call[c].ms]
             k == [call[c] EXCEPT !.pc = "send", !.seen = r]
  <2>1. Stays /\ (call' = [call EXCEPT ![c] = k] \/ Finish(c, TRUE))
    BY <1>8 DEF Check, chain, history
  <2>2. k.pc = "send"
    BY <1>1 DEF CallFields
  <2> HIDE DEF k
  <2> QED BY <1>2, <1>4, <2>1, <2>2
<1>9. CASE Verify(c) \/ Send(c) \/ LoseTouch(c)
  <2>1. /\ Stays
        /\ \/ Goto(c, "confirm") \/ Goto(c, "wait")
           \/ Finish(c, FALSE)
    BY <1>9 DEF Verify, Send, LoseTouch, chain, history
  <2> QED BY <1>4, <1>5, <2>1
<1>10. CASE Settled(c)
  <2>1. Stays /\ call[c].op # "Confirm"
    BY <1>10 DEF Settled, chain, history, Inv, CallsBacked, Backed
  <2> QED BY <1>4, <1>5, <1>10, <2>1 DEF Settled
<1>11. CASE Announce(c) \/ Publish(c)
  <2>1. Stays /\ Finish(c, TRUE)
    BY <1>11 DEF Announce, Publish, chain, history
  <2> QED BY <1>4, <2>1
<1>12. CASE Count(c)
  <2>1. Stays
    BY <1>12 DEF Count, chain, history
  <2>2. PICK said : call' = [call EXCEPT ![c].pc = "publish", ![c].outcome = said]
    BY <1>12 DEF Count
  <2> DEFINE k == [call[c] EXCEPT !.pc = "publish", !.outcome = said]
  <2>3. k.pc = "publish" /\ call' = [call EXCEPT ![c] = k]
    BY <1>1, <2>2 DEF CallFields
  <2> HIDE DEF k
  <2> QED BY <1>2, <2>1, <2>3
<1>13. CASE Crash(c)
  <2> DEFINE k == [call[c] EXCEPT
               !.pc = IF call[c].op = "Lock" THEN "list" ELSE "check",
               !.list = {}, !.todo = {}, !.seen = NoRow, !.outcome = "none", !.tries = @ + 1]
  <2>1. /\ Stays
        /\ \/ call' = [call EXCEPT ![c] = k] \/ Goto(c, "confirm")
           \/ call' = [call EXCEPT ![c] = Ended(@)]
    BY <1>13 DEF Crash, chain, history
  <2>2. k.pc # "record"
    BY <1>1 DEF CallFields
  <2> HIDE DEF k
  <2> QED BY <1>2, <1>3, <1>5, <2>1, <2>2
<1> QED
  BY <1>6, <1>7, <1>8, <1>9, <1>10, <1>11, <1>12, <1>13, PaidReread, PaidRecord DEF Handle

LEMMA PaidNext == Inv /\ Paid /\ [Next]_vars => Paid'
<1> SUFFICES ASSUME Inv, Paid, [Next]_vars PROVE Paid'
  OBVIOUS
<1>1. ASSUME NEW c \in Calls, NEW k, Receive(c, k), k.pc # "record" PROVE Paid'
  <2>1. UNCHANGED <<escrow, row, flops>> /\ strays' = strays /\ call' = [call EXCEPT ![c] = k]
    BY <1>1 DEF Receive, chain
  <2> QED BY <1>1, <2>1, PaidMoves
<1>2. ASSUME NEW c \in Calls, NEW op, NEW m, NEW w, NEW mode, Request(c, op, m, w, mode)
      PROVE  Paid'
  BY <1>1, <1>2 DEF Request, NoCall
<1>3. ASSUME NEW c \in Calls, NEW f, ProposalHired(c, f) PROVE Paid'
  BY <1>1, <1>3 DEF ProposalHired, NoCall
<1>4. ASSUME UNCHANGED <<escrow, row, call, flops>>, strays' = strays PROVE Paid'
  BY <1>4, PaidStays
<1>5. ASSUME NEW ms \in SUBSET Milestones, CreateMilestones(ms) PROVE Paid'
  <2>1. /\ row' = [m \in Milestones |-> IF m \in ms THEN Pending ELSE row[m]]
        /\ UNCHANGED <<escrow, call, flops>> /\ strays' = strays
    BY <1>5 DEF CreateMilestones, chain, history
  <2>2. Pending.status # "Funded"
    BY DEF Pending, NoRow
  <2> QED BY <2>1, <2>2, PaidStays
<1>6. ASSUME NEW w, NEW n, WithdrawFees(w, n) PROVE Paid'
  BY <1>4, <1>6 DEF WithdrawFees, Chain!WithdrawFees
<1>7. CASE UNCHANGED vars
  BY <1>4, <1>7 DEF vars, chain, history
<1> QED
  BY <1>2, <1>3, <1>5, <1>6, <1>7, PaidHandle, PaidConfirm DEF Next

LEMMA PaidInitially == Init => Paid
<1> SUFFICES ASSUME Init PROVE Paid
  OBVIOUS
<1>1. row = [m \in Milestones |-> NoRow] /\ call = [c \in Calls |-> NoCall]
  BY DEF Init
<1> QED
  BY <1>1 DEF Paid, NoRow, NoCall

(* RowTrailsChain: a row never claims more than the program did, whatever  *)
(* is interleaved, lost, repeated or crashes; a confirmation by someone    *)
(* with no escrow there can make up a funding, and nothing else.           *)
THEOREM RowNeverRunsAhead == Spec => []RowTrailsChain
<1>1. ASSUME Inv, Paid, NEW m \in Milestones \ flops
      PROVE  /\ CASE row[m].status = "Funded" -> escrow[m].status # "None" \/ m \in strays
                  [] row[m].status = "Locked" -> escrow[m].freelancer # NoKey
                  [] row[m].status \in {"Released", "Refunded"} ->
                       escrow[m].status = row[m].status
                  [] OTHER -> row[m].freelancer = NoKey
             /\ row[m].freelancer # NoKey => row[m].freelancer = escrow[m].freelancer
  <2>1. Trails(row[m], escrow[m])
    BY <1>1 DEF Inv, RowsTrail
  <2>2. row[m].status = "Funded" => escrow[m].status # "None" \/ m \in strays
    BY <1>1 DEF Paid, PaidFor
  <2> QED BY <2>1, <2>2 DEF Trails, Lasting
<1>2. Inv /\ Paid => RowTrailsChain
  BY <1>1 DEF RowTrailsChain
<1>3. Spec => []Paid
  BY PaidInitially, PaidNext, MilestonesInOrder, PTL DEF Spec
<1> QED
  BY <1>2, <1>3, MilestonesInOrder, PTL

-----------------------------------------------------------------------------
(* Calls that come one after another *)

(* The status of the account once an operation's transaction is in.        *)
Outcome(op) ==
  CASE op = "Fund" -> "Funded" [] op = "Lock" -> "Locked" [] op = "Release" -> "Released"
    [] OTHER -> "Refunded"

(* The status is that of the account, or of a funding made up by a         *)
(* confirmation that stood alone (stray).                                  *)
Tells(status, e, stray) ==
  status = e.status \/ (stray /\ status = "Funded" /\ e = NoEscrow)

Agree(r, e, stray) ==
  /\ r.status \notin {"None", "Pending"} => Tells(r.status, e, stray)
  /\ r.status \in {"None", "Pending"} => e = NoEscrow
  /\ r.freelancer = e.freelancer

(* A call whose transaction is in and whose row is still to be written.    *)
Landed(k) ==
  k.op # "Confirm" /\ (k.pc \in {"confirm", "record"} \/ (k.pc = "wait" /\ k.outcome = "ok"))

(* What the only call handled knows of the row r and the account e of its  *)
(* milestone.                                                              *)
InTurn(k, r, e, stray) ==
  /\ k.op \in Requests \cup {"Lock"}
  /\ k.op = "Lock" => k.mode = "server"
  /\ k.op = "Confirm" => k.mode # "server"
  /\ k.pc = "wait" => k.outcome \in {"none", "ok"}
  /\ k.pc = "record" \/ Landed(k) \/ k.pc \in {"send", "wait"} =>
       /\ r # NoRow
       /\ k.op \in {"Lock", "Release"} => r.status \in {"Funded", "Locked"}
  /\ Landed(k) =>
       /\ e.status = Outcome(k.op)
       /\ e.freelancer = IF k.op = "Lock" THEN k.hire ELSE r.freelancer
  /\ k.pc = "record" /\ k.mode # "server" => Tells(k.seen.status, e, stray)
  /\ k.pc = "announce" => r.status = "Funded"

Live == \E m \in Milestones : row[m].status \in {"Funded", "Locked"}
Gone == \A m \in Milestones : row[m].status \in {"None", "Pending", "Refunded"}
Shown == (Live => active = "yes") /\ (Gone => active # "yes")
Telling == {"announce", "count", "publish"}

Alone == \A c, d \in Handled : c = d

NetInTurn ==
  /\ \A t \in net : /\ t.call \in Handled
                    /\ call[t.call].pc = "wait" /\ call[t.call].outcome = "none"
                    /\ call[t.call].ms = t.ms /\ call[t.call].tries = t.try
  /\ \A s, t \in net : s = t

CallsInTurn ==
  \A c \in Handled : /\ InTurn(call[c], row[call[c].ms], escrow[call[c].ms], call[c].ms \in strays)
                     /\ call[c].pc = "publish" => call[c].outcome = IF Live THEN "yes" ELSE "no"

RowsAgree ==
  \A m \in Milestones :
    (\A c \in Handled : ~(Landed(call[c]) /\ call[c].ms = m)) => Agree(row[m], escrow[m], m \in strays)

ActiveRight == (\A c \in Handled : call[c].pc \notin Telling) => Shown

InOrder == Alone /\ NetInTurn /\ CallsInTurn /\ RowsAgree /\ ActiveRight

Tidy ==
  /\ crashes \in Nat /\ flops \subseteq trouble
  /\ Orderly => InOrder

(* What a step does to the history: it forgets nothing.                    *)
Remembers ==
  /\ overlap => overlap'
  /\ strays \subseteq strays'
  /\ crashes' = crashes \/ crashes' = crashes + 1
  /\ \/ flops' = flops /\ trouble \subseteq trouble'
     \/ \E m \in Milestones : flops' = flops \cup {m} /\ trouble' = trouble \cup {m}

LEMMA History == ASSUME Inv, [Next]_vars PROVE Remembers
<1>1. UNCHANGED <<crashes, history>> => Remembers
  BY DEF Remembers, history
<1>2. ASSUME NEW c \in Calls, NEW k, Receive(c, k) PROVE Remembers
  BY <1>2 DEF Receive, Remembers
<1>3. ASSUME NEW c \in Calls, Handle(c) PROVE Remembers
  <2>1. CASE Reread(c)
    BY <2>1 DEF Reread, Remembers
  <2>2. CASE ListFunded(c) \/ Turn(c) \/ Check(c) \/ Verify(c) \/ Send(c) \/ Settled(c)
    BY <1>1, <2>2 DEF ListFunded, Turn, Check, Verify, Send, Settled
  <2>3. CASE Record(c) \/ Announce(c) \/ Count(c) \/ Publish(c)
    BY <1>1, <2>3 DEF Record, Announce, Count, Publish
  <2> QED BY <1>3, <2>1, <2>2, <2>3 DEF Handle
<1>4. ASSUME NEW t \in net, Confirm(t) PROVE Remembers
  <2>1. t.ms \in Milestones
    BY DEF Inv, NetKnown, Sent
  <2>2. CASE Land(t)
    BY <1>1, <2>2 DEF Land
  <2>3. CASE Flop(t)
    BY <2>1, <2>3 DEF Flop, Remembers
  <2>4. CASE Expire(t)
    BY <2>4 DEF Expire, Remembers
  <2> QED BY <1>4, <2>2, <2>3, <2>4 DEF Confirm
<1>5. ASSUME NEW c \in Calls, LoseTouch(c) PROVE Remembers
  BY <1>5 DEF LoseTouch, Remembers
<1>6. ASSUME NEW c \in Calls, Crash(c) PROVE Remembers
  <2>1. crashes' = crashes + 1 /\ UNCHANGED history
    BY <1>6 DEF Crash
  <2> QED BY <2>1 DEF Remembers, history
<1>7. ASSUME NEW ms, CreateMilestones(ms) PROVE Remembers
  BY <1>1, <1>7 DEF CreateMilestones
<1>8. CASE UNCHANGED vars
  BY <1>1, <1>8 DEF vars
<1>9. ASSUME NEW c \in Calls, NEW op, NEW m, NEW w, NEW mode, Request(c, op, m, w, mode)
      PROVE  Remembers
  BY <1>2, <1>9 DEF Request
<1>10. ASSUME NEW c \in Calls, NEW f, ProposalHired(c, f) PROVE Remembers
  BY <1>2, <1>10 DEF ProposalHired
<1>11. ASSUME NEW w, NEW n, WithdrawFees(w, n) PROVE Remembers
  BY <1>11 DEF WithdrawFees, Remembers
<1> QED
  BY <1>3, <1>4, <1>5, <1>6, <1>7, <1>8, <1>9, <1>10, <1>11 DEF Next

LEMMA OrderlyBefore ==
  ASSUME Inv, Tidy, [Next]_vars, Orderly'
  PROVE  Orderly
<1>1. Remembers /\ crashes \in Nat
  BY History DEF Tidy
<1>2. crashes' = 0 => crashes = 0
  <2>1. crashes' = crashes \/ crashes' = crashes + 1
    BY <1>1 DEF Remembers
  <2> QED BY <1>1, <2>1
<1>3. trouble \subseteq trouble' /\ (overlap => overlap')
  BY <1>1 DEF Remembers
<1> QED
  BY <1>2, <1>3 DEF Orderly

(* The only call handled moves to k.                                       *)
LEMMA LoneCall ==
  ASSUME DOMAIN call = Calls, NEW c \in Calls, Handled \subseteq {c}, NEW k,
         call' = [call EXCEPT ![c] = k],
         \A t \in net' : /\ t.call = c /\ k.pc = "wait" /\ k.outcome = "none"
                         /\ k.ms = t.ms /\ k.tries = t.try,
         \A s, t \in net' : s = t,
         k.pc \notin {"idle", "ended"} => InTurn(k, row'[k.ms], escrow'[k.ms], k.ms \in strays'),
         k.pc = "publish" => k.outcome = IF Live' THEN "yes" ELSE "no",
         \A m \in Milestones : ~(Landed(k) /\ k.ms = m) => Agree(row'[m], escrow'[m], m \in strays'),
         k.pc \notin Telling => Shown'
  PROVE  InOrder'
<1>1. call'[c] = k /\ \A d \in Calls \ {c} : call'[d] = call[d]
  OBVIOUS
<1>2. \A d \in Calls : d \in Handled' <=> d = c /\ k.pc \notin {"idle", "ended"}
  BY <1>1 DEF Handled
<1>3. Alone'
  BY <1>2 DEF Alone, Handled
<1>4. NetInTurn'
  BY <1>1, <1>2 DEF NetInTurn
<1>5. CallsInTurn'
  BY <1>1, <1>2 DEF CallsInTurn, Handled
<1>6. RowsAgree'
  <2> SUFFICES ASSUME NEW m \in Milestones,
                      \A d \in Handled' : ~(Landed(call'[d]) /\ call'[d].ms = m)
               PROVE  Agree(row'[m], escrow'[m], m \in strays')
    BY DEF RowsAgree
  <2>1. Landed(k) => c \in Handled'
    BY <1>2 DEF Landed
  <2> QED BY <1>1, <2>1
<1>7. ActiveRight'
  <2>1. k.pc \in Telling => c \in Handled'
    BY <1>2 DEF Telling
  <2> QED BY <1>1, <2>1 DEF ActiveRight
<1> QED
  BY <1>3, <1>4, <1>5, <1>6, <1>7 DEF InOrder

(* What is known when a call is handled in turn.                           *)
LEMMA Turns ==
  ASSUME Inv, InOrder, NEW c \in Handled
  PROVE  /\ c \in Calls /\ DOMAIN call = Calls /\ Handled \subseteq {c}
         /\ InTurn(call[c], row[call[c].ms], escrow[call[c].ms], call[c].ms \in strays)
         /\ call[c].pc # "wait" \/ call[c].outcome # "none" => net = {}
         /\ \A m \in Milestones :
              ~(Landed(call[c]) /\ call[c].ms = m) => Agree(row[m], escrow[m], m \in strays)
         /\ call[c].pc \notin Telling => Shown
<1>1. c \in Calls /\ DOMAIN call = Calls
  BY DEF Handled, Inv, CallsBacked
<1>2. \A d \in Handled : d = c
  BY DEF InOrder, Alone
<1>3. InTurn(call[c], row[call[c].ms], escrow[call[c].ms], call[c].ms \in strays)
  BY DEF InOrder, CallsInTurn
<1>4. \A t \in net : call[c].pc = "wait" /\ call[c].outcome = "none"
  BY <1>2 DEF InOrder, NetInTurn
<1>5. \A m \in Milestones :
        ~(Landed(call[c]) /\ call[c].ms = m) => Agree(row[m], escrow[m], m \in strays)
  BY <1>2 DEF InOrder, RowsAgree
<1>6. call[c].pc \notin Telling => Shown
  BY <1>2 DEF InOrder, ActiveRight
<1> QED
  BY <1>1, <1>2, <1>3, <1>4, <1>5, <1>6

(* A step of the only call that leaves the row, the account and the job's  *)
(* state as they are, and after which nothing is on its way.               *)
LEMMA LoneStep ==
  ASSUME Inv, InOrder, NEW c \in Handled, NEW k,
         call' = [call EXCEPT ![c] = k], UNCHANGED <<row, escrow, active, net>>,
         strays \subseteq strays', call[c].pc # "wait" \/ call[c].outcome # "none",
         k.pc \notin {"idle", "ended"} => InTurn(k, row[k.ms], escrow[k.ms], k.ms \in strays'),
         k.pc # "publish", k.pc \notin Telling, call[c].pc \notin Telling,
         Landed(k) <=> Landed(call[c]), Landed(k) => k.ms = call[c].ms
  PROVE  InOrder'
<1>1. Shown' <=> Shown
  BY DEF Shown, Live, Gone
<1>2. net' = {} /\ Shown
  BY Turns
<1>3. \A m \in Milestones : ~(Landed(k) /\ k.ms = m) => Agree(row[m], escrow[m], m \in strays)
  BY Turns
<1>4. \A m \in Milestones : ~(Landed(k) /\ k.ms = m) => Agree(row[m], escrow[m], m \in strays')
  BY <1>3 DEF Agree, Tells
<1> QED
  BY <1>1, <1>2, <1>4, Turns, LoneCall

(* A handler that is through with its milestone has nothing more to say of *)
(* it.                                                                     *)
LEMMA FinishedInTurn ==
  ASSUME NEW old, DOMAIN old = CallFields, NEW r, NEW e, NEW stray, InTurn(old, r, e, stray), NEW ok
  PROVE  /\ Finished(old, ok).pc \in {"turn", "ended"} /\ ~Landed(Finished(old, ok))
         /\ \A s, f, g : Finished(old, ok).pc # "ended" => InTurn(Finished(old, ok), s, f, g)
<1>1. CASE old.op = "Lock"
  <2> DEFINE k == [old EXCEPT !.pc = "turn", !.outcome = "none"]
  <2>1. Finished(old, ok) = k
    BY <1>1 DEF Finished
  <2>2. k.pc = "turn" /\ k.op = old.op /\ k.mode = old.mode
    BY DEF CallFields
  <2> HIDE DEF k
  <2> QED BY <2>1, <2>2 DEF InTurn, Landed
<1>2. CASE old.op # "Lock"
  <2>1. Finished(old, ok).pc = "ended"
    BY <1>2 DEF Finished, Ended, NoCall
  <2> QED BY <2>1 DEF Landed
<1> QED
  BY <1>1, <1>2

LEMMA FinishInOrder ==
  ASSUME Inv, InOrder, NEW c \in Handled, NEW ok, Finish(c, ok),
         UNCHANGED <<row, escrow, active, net>>, strays \subseteq strays',
         ~Landed(call[c]), call[c].pc # "wait", call[c].pc \notin Telling
  PROVE  InOrder'
<1> DEFINE k == Finished(call[c], ok)
<1>1. call' = [call EXCEPT ![c] = k]
  BY DEF Finish
<1>2. DOMAIN call[c] = CallFields
  BY DEF Inv, CallsBacked, Backed, Handled
<1>3. /\ k.pc \in {"turn", "ended"} /\ ~Landed(k)
      /\ \A s, f, g : k.pc # "ended" => InTurn(k, s, f, g)
  BY <1>2, Turns, FinishedInTurn
<1> HIDE DEF k
<1> QED
  BY <1>1, <1>3, LoneStep DEF Telling

LEMMA EndInOrder ==
  ASSUME Inv, InOrder, NEW c \in Handled, call' = [call EXCEPT ![c] = Ended(@)],
         UNCHANGED <<row, escrow, active, net, strays>>,
         ~Landed(call[c]), call[c].pc # "wait", call[c].pc \notin Telling
  PROVE  InOrder'
<1> DEFINE k == Ended(call[c])
<1>1. call' = [call EXCEPT ![c] = k] /\ k.pc = "ended"
  BY DEF Ended, NoCall
<1> HIDE DEF k
<1> QED
  BY <1>1, LoneStep DEF Telling, Landed

LEMMA ReceiveInOrder ==
  ASSUME Inv, InOrder, ~overlap', NEW c \in Calls, NEW k, Receive(c, k),
         k.pc \in {"check", "list"}, InTurn(k, row[k.ms], escrow[k.ms], k.ms \in strays)
  PROVE  InOrder'
<1>1. /\ Handled = {} /\ call' = [call EXCEPT ![c] = k]
      /\ UNCHANGED <<row, escrow, active, net, strays>>
  BY DEF Receive, chain
<1>2. net = {} /\ Shown /\ \A m \in Milestones : Agree(row[m], escrow[m], m \in strays)
  BY <1>1 DEF InOrder, NetInTurn, ActiveRight, RowsAgree
<1>3. Shown'
  BY <1>1, <1>2 DEF Shown, Live, Gone
<1>4. DOMAIN call = Calls
  BY DEF Inv, CallsBacked
<1> QED
  BY <1>1, <1>2, <1>3, <1>4, LoneCall DEF Telling

LEMMA RequestInOrder ==
  ASSUME Inv, InOrder, ~overlap', NEW c \in Calls,
         NEW op \in Requests, NEW m, NEW w, NEW mode,
         Request(c, op, m, w, mode)
  PROVE  InOrder'
<1> DEFINE k == [NoCall EXCEPT !.pc = "check", !.op = op, !.ms = m, !.mode = mode, !.wallet = w]
<1>1. Receive(c, k)
  BY DEF Request
<1>2. k.pc = "check" /\ k.op = op /\ (op = "Confirm" => k.mode # "server")
  BY DEF NoCall, Request
<1> HIDE DEF k
<1>3. InTurn(k, row[k.ms], escrow[k.ms], k.ms \in strays)
  BY <1>2 DEF InTurn, Landed, Requests
<1> QED
  BY <1>1, <1>2, <1>3, ReceiveInOrder

LEMMA HiredInOrder ==
  ASSUME Inv, InOrder, ~overlap', NEW c \in Calls, NEW f, ProposalHired(c, f)
  PROVE  InOrder'
<1> DEFINE k == [NoCall EXCEPT !.pc = "list", !.op = "Lock", !.hire = f]
<1>1. Receive(c, k)
  BY DEF ProposalHired
<1>2. k.pc = "list" /\ k.op = "Lock" /\ k.mode = "server"
  BY DEF NoCall
<1> HIDE DEF k
<1>3. InTurn(k, row[k.ms], escrow[k.ms], k.ms \in strays)
  BY <1>2 DEF InTurn, Landed
<1> QED
  BY <1>1, <1>2, <1>3, ReceiveInOrder

LEMMA ListInOrder == ASSUME Inv, InOrder, NEW c \in Handled, ListFunded(c) PROVE InOrder'
<1> DEFINE funded == {m \in Milestones : row[m].status = "Funded"}
           k == [call[c] EXCEPT !.pc = "turn", !.list = funded, !.todo = funded]
<1>1. call[c].pc = "list" /\ UNCHANGED <<row, escrow, active, net, strays>>
  BY DEF ListFunded, chain, history
<1>2. CASE call' = [call EXCEPT ![c] = Ended(@)]
  BY <1>1, <1>2, EndInOrder DEF Landed, Telling
<1>3. CASE call' = [call EXCEPT ![c] = k]
  <2>1. DOMAIN call[c] = CallFields
    BY DEF Inv, CallsBacked, Backed, Handled
  <2>2. k.pc = "turn" /\ k.op = call[c].op /\ k.mode = call[c].mode
    BY <2>1 DEF CallFields
  <2> HIDE DEF k
  <2>3. InTurn(k, row[k.ms], escrow[k.ms], k.ms \in strays)
    BY <2>2, Turns DEF InTurn, Landed
  <2> QED BY <1>1, <1>3, <2>2, <2>3, LoneStep DEF Landed, Telling
<1> QED
  BY <1>2, <1>3 DEF ListFunded

LEMMA TurnInOrder == ASSUME Inv, InOrder, NEW c \in Handled, Turn(c) PROVE InOrder'
<1>1. call[c].pc = "turn" /\ UNCHANGED <<row, escrow, active, net, strays>>
  BY DEF Turn, chain, history
<1>2. CASE call' = [call EXCEPT ![c] = Ended(@)]
  BY <1>1, <1>2, EndInOrder DEF Landed, Telling
<1>3. ASSUME NEW m \in call[c].todo,
             call' = [call EXCEPT ![c].pc = "check", ![c].ms = m, ![c].todo = @ \ {m}]
      PROVE  InOrder'
  <2> DEFINE k == [call[c] EXCEPT !.pc = "check", !.ms = m, !.todo = @ \ {m}]
  <2>1. DOMAIN call[c] = CallFields
    BY DEF Inv, CallsBacked, Backed, Handled
  <2>2. k.pc = "check" /\ k.op = call[c].op /\ k.mode = call[c].mode
    BY <2>1 DEF CallFields
  <2>3. call' = [call EXCEPT ![c] = k]
    BY <1>3
  <2> HIDE DEF k
  <2>4. InTurn(k, row[k.ms], escrow[k.ms], k.ms \in strays)
    BY <2>2, Turns DEF InTurn, Landed
  <2> QED BY <1>1, <2>2, <2>3, <2>4, LoneStep DEF Landed, Telling
<1> QED
  BY <1>2, <1>3 DEF Turn

LEMMA CheckInOrder == ASSUME Inv, InOrder, NEW c \in Handled, Check(c) PROVE InOrder'
<1> DEFINE r == row[call[c].ms]
           k == [call[c] EXCEPT !.pc = "send", !.seen = r]
<1>1. /\ call[c].pc = "check" /\ call[c].op # "Confirm"
      /\ UNCHANGED <<row, escrow, active, net, strays>>
  BY DEF Check, chain, history
<1>2. CASE Finish(c, TRUE)
  BY <1>1, <1>2, FinishInOrder DEF Landed, Telling
<1>3. CASE Allowed(call[c].op, r)
           /\ call' = [call EXCEPT ![c].pc = "send", ![c].seen = r]
  <2>1. DOMAIN call[c] = CallFields /\ InTurn(call[c], r, escrow[call[c].ms], call[c].ms \in strays)
    BY Turns DEF Inv, CallsBacked, Backed, Handled
  <2>2. r # NoRow /\ (call[c].op \in {"Lock", "Release"} => r.status \in {"Funded", "Locked"})
    <3>1. call[c].op \in {"Fund", "TopUp", "Withdraw", "Release", "Refund", "Lock"}
      BY <1>1, <2>1 DEF InTurn, Requests
    <3>2. NoRow.status = "None"
      BY DEF NoRow
    <3> QED BY <1>3, <3>1, <3>2 DEF Allowed
  <2>3. call' = [call EXCEPT ![c] = k]
    BY <1>3
  <2>4. k.pc = "send" /\ k.op = call[c].op /\ k.mode = call[c].mode /\ k.ms = call[c].ms
    BY <2>1 DEF CallFields
  <2> HIDE DEF k
  <2>5. InTurn(k, row[k.ms], escrow[k.ms], k.ms \in strays)
    BY <2>1, <2>2, <2>4 DEF InTurn, Landed
  <2> QED BY <1>1, <2>3, <2>4, <2>5, LoneStep DEF Landed, Telling
<1>4. \/ Finish(c, TRUE)
      \/ Allowed(call[c].op, r) /\ call' = [call EXCEPT ![c].pc = "send", ![c].seen = r]
  BY DEF Check
<1> QED
  BY <1>2, <1>3, <1>4

LEMMA VerifyInOrder == ASSUME Inv, InOrder, NEW c \in Handled, Verify(c) PROVE InOrder'
<1>1. /\ call[c].pc = "check" /\ call[c].op = "Confirm"
      /\ UNCHANGED <<row, escrow, active, net, strays>>
  BY DEF Verify, chain, history
<1>2. CASE Finish(c, FALSE)
  BY <1>1, <1>2, FinishInOrder DEF Landed, Telling
<1>3. CASE Goto(c, "confirm")
  <2> DEFINE k == [call[c] EXCEPT !.pc = "confirm"]
  <2>1. DOMAIN call[c] = CallFields
    BY DEF Inv, CallsBacked, Backed, Handled
  <2>2. k.pc = "confirm" /\ k.op = call[c].op /\ k.mode = call[c].mode
    BY <2>1 DEF CallFields
  <2>3. call' = [call EXCEPT ![c] = k]
    BY <1>3 DEF Goto
  <2> HIDE DEF k
  <2>4. InTurn(k, row[k.ms], escrow[k.ms], k.ms \in strays)
    BY <1>1, <2>2, Turns DEF InTurn, Landed
  <2> QED BY <1>1, <2>2, <2>3, <2>4, LoneStep DEF Landed, Telling
<1> QED
  BY <1>2, <1>3 DEF Verify

LEMMA SendInOrder == ASSUME Inv, InOrder, NEW c \in Handled, Send(c) PROVE InOrder'
<1>1. call[c].pc = "send" /\ UNCHANGED <<row, escrow, active, strays>>
  BY DEF Send, chain, history
<1>2. CASE net' = net /\ Finish(c, FALSE)
  BY <1>1, <1>2, FinishInOrder DEF Landed, Telling
<1>3. CASE net' = net \cup {Tx(c)} /\ Goto(c, "wait")
  <2> DEFINE k == [call[c] EXCEPT !.pc = "wait"]
  <2>1. Backed(call[c], escrow[call[c].ms], call[c].ms \in flops)
    BY DEF Inv, CallsBacked, Handled
  <2>2. /\ k.pc = "wait" /\ k.op = call[c].op /\ k.ms = call[c].ms /\ k.mode = call[c].mode
        /\ k.outcome = call[c].outcome /\ k.tries = call[c].tries
    BY <2>1 DEF Backed, CallFields
  <2>3. call' = [call EXCEPT ![c] = k] /\ call[c].outcome = "none"
    BY <1>1, <1>3, <2>1 DEF Goto, Backed
  <2> HIDE DEF k
  <2>4. net' = {Tx(c)}
    BY <1>1, <1>3, Turns
  <2>5. Tx(c).call = c /\ Tx(c).ms = k.ms /\ Tx(c).try = k.tries
    BY <2>2 DEF Tx
  <2>6. InTurn(call[c], row[call[c].ms], escrow[call[c].ms], call[c].ms \in strays)
    BY Turns
  <2>7. InTurn(k, row'[k.ms], escrow'[k.ms], k.ms \in strays')
    <3>1. InTurn(k, row[k.ms], escrow[k.ms], k.ms \in strays)
      BY <1>1, <2>2, <2>3, <2>6 DEF InTurn, Landed
    <3> QED BY <1>1, <3>1
  <2>8. ~Landed(k) /\ ~Landed(call[c]) /\ call[c].pc \notin Telling
    BY <1>1, <2>2, <2>3 DEF Landed, Telling
  <2>9. Shown' /\ \A m \in Milestones : Agree(row'[m], escrow'[m], m \in strays')
    <3>1. Shown /\ \A m \in Milestones : Agree(row[m], escrow[m], m \in strays)
      BY <2>8, Turns
    <3> QED BY <1>1, <3>1 DEF Shown, Live, Gone
  <2>10. \A s, t \in net' : s = t
    BY <2>4
  <2>11. \A t \in net' : /\ t.call = c /\ k.pc = "wait" /\ k.outcome = "none"
                         /\ k.ms = t.ms /\ k.tries = t.try
    BY <2>2, <2>3, <2>4, <2>5
  <2>12. c \in Calls /\ DOMAIN call = Calls /\ Handled \subseteq {c}
    BY Turns
  <2>13. k.pc = "wait"
    BY <2>2
  <2> QED BY <2>3, <2>7, <2>9, <2>10, <2>11, <2>12, <2>13, LoneCall
<1> QED
  BY <1>2, <1>3 DEF Send

LEMMA SettledInOrder == ASSUME Inv, InOrder, NEW c \in Handled, Settled(c) PROVE InOrder'
<1>1. /\ call[c].pc = "wait" /\ call[c].outcome # "none"
      /\ UNCHANGED <<row, escrow, active, net, strays>>
  BY DEF Settled, chain, history
<1>2. DOMAIN call[c] = CallFields /\ InTurn(call[c], row[call[c].ms], escrow[call[c].ms], call[c].ms \in strays)
  BY Turns DEF Inv, CallsBacked, Backed, Handled
<1>3. call[c].outcome = "ok"
  BY <1>1, <1>2 DEF InTurn
<1>4. PICK pc : pc \in {"record", "confirm"} /\ (pc = "record" <=> call[c].mode = "server")
                /\ Goto(c, pc)
  BY <1>3 DEF Settled, GoesOn
<1> DEFINE k == [call[c] EXCEPT !.pc = pc]
<1>5. /\ k.pc = pc /\ k.op = call[c].op /\ k.ms = call[c].ms /\ k.mode = call[c].mode
      /\ k.hire = call[c].hire
  BY <1>2 DEF CallFields
<1>6. call' = [call EXCEPT ![c] = k]
  BY <1>4 DEF Goto
<1> HIDE DEF k
<1>7. InTurn(k, row[k.ms], escrow[k.ms], k.ms \in strays)
  BY <1>1, <1>2, <1>3, <1>4, <1>5 DEF InTurn, Landed
<1> QED
  BY <1>1, <1>3, <1>4, <1>5, <1>6, <1>7, LoneStep DEF Landed, Telling

LEMMA RereadInOrder ==
  ASSUME Inv, InOrder, NEW c \in Handled, Reread(c), UNCHANGED trouble, call[c].ms \notin trouble
  PROVE  InOrder'
<1> DEFINE m == call[c].ms
           account == IF escrow[m] = NoEscrow THEN Fallback(row[m]) ELSE Account(escrow[m])
           k == [call[c] EXCEPT !.pc = "record", !.seen = account]
<1>1. call[c].pc = "confirm" /\ UNCHANGED <<row, escrow, active, net>> /\ strays \subseteq strays'
  BY DEF Reread, chain
<1>2. DOMAIN call[c] = CallFields /\ InTurn(call[c], row[m], escrow[m], m \in strays)
  BY Turns DEF Inv, CallsBacked, Backed, Handled
<1>3. CASE row[m] = NoRow /\ Finish(c, FALSE)
  <2>1. ~Landed(call[c])
    BY <1>2, <1>3 DEF InTurn
  <2> QED BY <1>1, <1>3, <2>1, FinishInOrder DEF Telling
<1>4. CASE /\ row[m] # NoRow /\ call' = [call EXCEPT ![c].pc = "record", ![c].seen = account]
           /\ strays' = IF Owns(call[c].wallet, m) THEN strays ELSE strays \cup {m}
  <2>1. Tells(account.status, escrow[m], m \in strays')
    <3>1. CASE escrow[m] = NoEscrow
      <4>1. m \in strays'
        BY <1>4, <3>1 DEF Owns, NoEscrow, Chain!NoEscrow
      <4>2. account.status = "Funded"
        BY <3>1 DEF Fallback, NoRow
      <4> QED BY <3>1, <4>1, <4>2 DEF Tells
    <3>2. CASE escrow[m] # NoEscrow
      BY <3>2 DEF Account, NoRow, Tells
    <3> QED BY <3>1, <3>2
  <2>2. call' = [call EXCEPT ![c] = k]
    BY <1>4
  <2> HIDE DEF account
  <2>3. /\ k.pc = "record" /\ k.op = call[c].op /\ k.ms = m /\ k.mode = call[c].mode
        /\ k.hire = call[c].hire /\ k.seen = account
    BY <1>2 DEF CallFields
  <2> HIDE DEF k, m
  <2>4. InTurn(k, row[m], escrow[m], m \in strays')
    BY <1>1, <1>2, <1>4, <2>1, <2>3 DEF InTurn, Landed
  <2> QED BY <1>1, <2>2, <2>3, <2>4, LoneStep DEF Landed, Telling, m
<1>5. \/ row[m] = NoRow /\ Finish(c, FALSE)
      \/ /\ row[m] # NoRow /\ call' = [call EXCEPT ![c].pc = "record", ![c].seen = account]
         /\ strays' = IF Owns(call[c].wallet, m) THEN strays ELSE strays \cup {m}
  BY DEF Reread
<1> QED
  BY <1>3, <1>4, <1>5

LEMMA CountInOrder == ASSUME Inv, InOrder, NEW c \in Handled, Count(c) PROVE InOrder'
<1>1. call[c].pc = "count" /\ UNCHANGED <<row, escrow, active, net, strays>>
  BY DEF Count, chain, history
<1>2. PICK left : left = IF Live THEN "yes" ELSE "no"
  OBVIOUS
<1>3. call' = [call EXCEPT ![c].pc = "publish", ![c].outcome = left]
  BY <1>2 DEF Count, Live
<1> DEFINE k == [call[c] EXCEPT !.pc = "publish", !.outcome = left]
<1>4. DOMAIN call[c] = CallFields /\ InTurn(call[c], row[call[c].ms], escrow[call[c].ms], call[c].ms \in strays)
  BY Turns DEF Inv, CallsBacked, Backed, Handled
<1>5. /\ k.pc = "publish" /\ k.op = call[c].op /\ k.ms = call[c].ms /\ k.mode = call[c].mode
      /\ k.outcome = left
  BY <1>4 DEF CallFields
<1>6. call' = [call EXCEPT ![c] = k]
  BY <1>3
<1> HIDE DEF k
<1>7. InTurn(k, row[k.ms], escrow[k.ms], k.ms \in strays)
  BY <1>4, <1>5 DEF InTurn, Landed
<1>8. k.outcome = IF Live' THEN "yes" ELSE "no"
  BY <1>1, <1>2, <1>5 DEF Live
<1>9. net' = {} /\ c \in Calls /\ DOMAIN call = Calls /\ Handled \subseteq {c}
  BY <1>1, Turns
<1>10. \A m \in Milestones : Agree(row[m], escrow[m], m \in strays)
  BY <1>1, Turns DEF Landed
<1> QED
  BY <1>1, <1>5, <1>6, <1>7, <1>8, <1>9, <1>10, LoneCall DEF Telling

LEMMA TellInOrder ==
  ASSUME Inv, InOrder, NEW c \in Handled, Announce(c) \/ Publish(c)
  PROVE  InOrder'
<1>1. call[c].pc \in {"announce", "publish"} /\ UNCHANGED <<row, escrow, net, strays>> /\ Finish(c, TRUE)
  BY DEF Announce, Publish, chain, history
<1> DEFINE k == Finished(call[c], TRUE)
<1>2. call' = [call EXCEPT ![c] = k]
  BY <1>1 DEF Finish
<1>3. DOMAIN call[c] = CallFields /\ InTurn(call[c], row[call[c].ms], escrow[call[c].ms], call[c].ms \in strays)
      /\ (call[c].pc = "publish" => call[c].outcome = IF Live THEN "yes" ELSE "no")
  BY Turns DEF Inv, CallsBacked, Backed, Handled, InOrder, CallsInTurn
<1>4. /\ k.pc \in {"turn", "ended"} /\ ~Landed(k)
      /\ \A s, f, g : k.pc # "ended" => InTurn(k, s, f, g)
  BY <1>3, FinishedInTurn
<1> HIDE DEF k
<1>5. net' = {} /\ c \in Calls /\ DOMAIN call = Calls /\ Handled \subseteq {c}
  BY <1>1, Turns
<1>6. \A m \in Milestones : Agree(row[m], escrow[m], m \in strays)
  BY <1>1, Turns DEF Landed
<1>7. call[c].ms \in Milestones
  BY <1>1 DEF Inv, CallsBacked, Backed, Busy, Through, Handled
<1>8. Live' <=> Live
  BY <1>1 DEF Live
<1>9. Gone' <=> Gone
  BY <1>1 DEF Gone
<1>10. CASE Announce(c)
  <2>1. active' = "yes" /\ row[call[c].ms].status = "Funded"
    BY <1>3, <1>10 DEF Announce, InTurn
  <2>2. Shown'
    BY <1>7, <1>9, <2>1 DEF Shown, Gone
  <2> QED BY <1>1, <1>2, <1>4, <1>5, <1>6, <2>2, LoneCall
<1>11. CASE Publish(c)
  <2>1. active' = IF Live THEN "yes" ELSE "no"
    BY <1>3, <1>11 DEF Publish
  <2>2. Gone /\ Live => Milestones = {}
    BY DEF Gone, Live
  <2>3. Live => Milestones # {}
    BY DEF Live
  <2>4. Shown'
    BY <1>8, <1>9, <2>1, <2>2, <2>3 DEF Shown
  <2> QED BY <1>1, <1>2, <1>4, <1>5, <1>6, <2>4, LoneCall
<1> QED
  BY <1>10, <1>11

(* What a call in turn records is what the program did.                    *)
LEMMA RecordAgrees ==
  ASSUME NEW k, NEW r, NEW e, NEW stray, InTurn(k, r, e, stray), k.op # "Confirm",
         Accomplished(k.op, k.hire, e), k.pc = "record", DOMAIN r = RowFields
  PROVE  /\ Recorded(k, r).status = Outcome(k.op) /\ Agree(Recorded(k, r), e, stray)
<1> DEFINE new == Recorded(k, r)
<1>1. /\ e.status = Outcome(k.op)
      /\ e.freelancer = IF k.op = "Lock" THEN k.hire ELSE r.freelancer
  BY DEF InTurn, Landed
<1>2. CASE k.mode # "server"
  <2>1. k.op # "Lock" /\ k.seen.status = e.status
    <3>1. e # NoEscrow
      BY DEF Accomplished, NoEscrow, Chain!NoEscrow
    <3> QED BY <1>2, <3>1 DEF InTurn, Tells
  <2>2. new.status = k.seen.status /\ new.freelancer = r.freelancer
    BY <1>2 DEF Recorded, ConfirmedRow, RowFields
  <2> HIDE DEF new
  <2>3. new.status = Outcome(k.op) /\ Agree(new, e, stray)
    BY <1>1, <2>1, <2>2 DEF Agree, Tells, Outcome
  <2> QED BY <2>3 DEF new
<1>3. CASE k.mode = "server"
  <2>1. \/ k.op = "Fund" /\ new = [r EXCEPT !.status = "Funded", !.wallet = k.wallet]
        \/ k.op \in {"Withdraw", "Refund"} /\ new = [r EXCEPT !.status = "Refunded"]
        \/ k.op = "Release" /\ new = [r EXCEPT !.status = "Released"]
        \/ k.op = "Lock" /\ new = [r EXCEPT !.status = "Locked", !.freelancer = k.hire]
    BY <1>3 DEF SignedRow, Recorded, Accomplished
  <2>2. new.status = Outcome(k.op)
    BY <2>1 DEF RowFields, Outcome
  <2>3. new.freelancer = IF k.op = "Lock" THEN k.hire ELSE r.freelancer
    BY <2>1 DEF RowFields
  <2> HIDE DEF new
  <2>4. Agree(new, e, stray)
    BY <1>1, <2>2, <2>3 DEF Agree, Tells, Outcome
  <2> QED BY <2>2, <2>4 DEF new
<1> QED
  BY <1>2, <1>3

(* A confirmation that stands alone leaves the row as the account has it,  *)
(* or makes up a funding.                                                  *)
LEMMA ConfirmAgrees ==
  ASSUME NEW k, NEW r, NEW e, NEW stray, InTurn(k, r, e, stray), k.op = "Confirm",
         Agree(r, e, stray), k.pc = "record", k.seen.status \in Lasting, DOMAIN r = RowFields
  PROVE  /\ Recorded(k, r).status = k.seen.status /\ Agree(Recorded(k, r), e, stray)
         /\ k.seen.status \in {"Locked", "Released"} => r.status = k.seen.status
<1> DEFINE new == Recorded(k, r)
<1>1. k.mode # "server" /\ Tells(k.seen.status, e, stray)
  BY DEF InTurn
<1>2. new.status = k.seen.status /\ new.freelancer = r.freelancer
  BY <1>1 DEF Recorded, ConfirmedRow, RowFields
<1> HIDE DEF new
<1>3. Agree(new, e, stray)
  BY <1>1, <1>2 DEF Agree, Lasting
<1>4. ASSUME k.seen.status \in {"Locked", "Released"} PROVE r.status = k.seen.status
  <2>1. e.status = k.seen.status /\ e # NoEscrow
    BY <1>1, <1>4 DEF Tells, NoEscrow, Chain!NoEscrow
  <2> QED BY <2>1 DEF Agree, Tells
<1> QED
  BY <1>2, <1>3, <1>4 DEF new

LEMMA RecordInOrder ==
  ASSUME Inv, InOrder, NEW c \in Handled, Record(c), flops = {}
  PROVE  InOrder'
<1> DEFINE m == call[c].ms
           new == Recorded(call[c], row[m])
           next == AfterRecord(new.status)
           k == IF next = "done" THEN Finished(call[c], TRUE) ELSE [call[c] EXCEPT !.pc = next]
<1>1. /\ call[c].pc = "record" /\ row' = [row EXCEPT ![m] = new]
      /\ call' = [call EXCEPT ![c] = k]
      /\ UNCHANGED <<escrow, active, net, strays>>
  BY DEF Record, Finish, Goto, chain, history
<1>2. /\ c \in Calls /\ DOMAIN call = Calls /\ Handled \subseteq {c}
      /\ InTurn(call[c], row[m], escrow[m], m \in strays) /\ net' = {} /\ Shown
  BY <1>1, Turns DEF Telling
<1>3. Backed(call[c], escrow[m], m \in flops)
  BY <1>2 DEF Inv, CallsBacked
<1>4. /\ m \in Milestones /\ DOMAIN call[c] = CallFields
      /\ call[c].op # "Confirm" => Accomplished(call[c].op, call[c].hire, escrow[m])
      /\ call[c].op = "Confirm" => call[c].seen.status \in Lasting
  BY <1>1, <1>2, <1>3 DEF Backed, Busy, Through, Claims, InTurn
<1>5. DOMAIN row[m] = RowFields /\ DOMAIN row = Milestones
  BY <1>4 DEF Inv, RowsTrail
<1>6. /\ Agree(new, escrow[m], m \in strays)
      /\ call[c].op # "Confirm" => new.status = Outcome(call[c].op)
      /\ call[c].op = "Confirm" =>
           /\ new.status \in Lasting
           /\ new.status \in {"Locked", "Released"} => row[m].status = new.status
  <2>1. CASE call[c].op # "Confirm"
    BY <1>1, <1>2, <1>4, <1>5, <2>1, RecordAgrees
  <2>2. CASE call[c].op = "Confirm"
    <3>1. Agree(row[m], escrow[m], m \in strays)
      BY <1>4, <2>2, Turns DEF Landed
    <3> QED BY <1>1, <1>2, <1>4, <1>5, <2>2, <3>1, ConfirmAgrees
  <2> QED BY <2>1, <2>2
<1>7. call[c].op \in {"Lock", "Release"} => row[m].status \in {"Funded", "Locked"}
  BY <1>1, <1>2 DEF InTurn
<1>8. /\ next = "announce" => new.status = "Funded"
      /\ next = "done" => /\ call[c].op \in {"Lock", "Release", "Confirm"}
                          /\ new.status \in {"Locked", "Released"}
      /\ next \in {"done", "announce", "count"}
  BY <1>2, <1>4, <1>6 DEF AfterRecord, Outcome, Accomplished, Lasting
<1>9. /\ k.pc \in {"turn", "ended", "announce", "count"} /\ ~Landed(k)
      /\ next = "done" <=> k.pc \in {"turn", "ended"}
      /\ k.pc # "ended" => InTurn(k, new, escrow[m], m \in strays) /\ (next # "done" => k.ms = m)
      /\ \A s, f, g : k.pc = "turn" => InTurn(k, s, f, g)
  <2>1. CASE next = "done"
    <3>1. k = Finished(call[c], TRUE)
      BY <2>1
    <3> HIDE DEF k, next
    <3> QED BY <1>2, <1>4, <2>1, <3>1, FinishedInTurn
  <2>2. CASE next # "done"
    <3> HIDE DEF next
    <3>1. k = [call[c] EXCEPT !.pc = next]
      BY <2>2
    <3> HIDE DEF k
    <3>2. k.pc = next /\ k.op = call[c].op /\ k.mode = call[c].mode /\ k.ms = m
      BY <1>4, <3>1 DEF CallFields
    <3> HIDE DEF new, m
    <3>3. InTurn(k, new, escrow[m], m \in strays)
      BY <1>2, <1>8, <2>2, <3>2 DEF InTurn, Landed
    <3> QED BY <1>8, <2>2, <3>2, <3>3 DEF Landed
  <2> QED BY <2>1, <2>2
<1>10. \A n \in Milestones : Agree(row'[n], escrow'[n], n \in strays')
  <2> TAKE n \in Milestones
  <2>1. CASE n = m
    BY <1>1, <1>5, <1>6, <2>1
  <2>2. CASE n # m
    <3>1. Agree(row[n], escrow[n], n \in strays)
      BY <2>2, Turns
    <3>2. row'[n] = row[n]
      BY <1>1, <1>5, <2>2
    <3> QED BY <1>1, <3>1, <3>2
  <2> QED BY <2>1, <2>2
<1> HIDE DEF k, next
<1>11. row'[m] = new /\ \A n \in Milestones \ {m} : row'[n] = row[n]
  BY <1>1, <1>4, <1>5
<1> HIDE DEF new
<1>12. k.pc \notin Telling => Shown'
  <2> SUFFICES ASSUME k.pc \notin Telling PROVE Shown'
    OBVIOUS
  <2>1. call[c].op \in {"Lock", "Release", "Confirm"} /\ new.status \in {"Locked", "Released"}
    BY <1>8, <1>9 DEF Telling
  <2>2. CASE call[c].op # "Confirm"
    <3>1. Live
      BY <1>4, <1>7, <2>1, <2>2 DEF Live
    <3>2. active' = "yes"
      BY <1>1, <1>2, <3>1 DEF Shown
    <3>3. row'[m].status \in {"Locked", "Released"}
      BY <1>11, <2>1
    <3> HIDE DEF m
    <3> QED BY <1>4, <3>2, <3>3 DEF Shown, Gone
  <2>3. CASE call[c].op = "Confirm"
    <3>1. \A n \in Milestones : row'[n].status = row[n].status
      BY <1>6, <1>11, <2>1, <2>3
    <3>2. (Live' <=> Live) /\ (Gone' <=> Gone)
      BY <3>1 DEF Live, Gone
    <3> QED BY <1>1, <1>2, <3>2 DEF Shown
  <2> QED BY <2>2, <2>3
<1>13. k.pc \notin {"idle", "ended"} => InTurn(k, row'[k.ms], escrow'[k.ms], k.ms \in strays')
  <2>1. k.pc \in {"announce", "count"} => k.ms = m /\ InTurn(k, new, escrow[m], m \in strays)
    BY <1>8, <1>9
  <2> QED BY <1>1, <1>9, <1>11, <2>1
<1>14. k.pc # "publish"
  BY <1>9
<1> QED
  BY <1>1, <1>2, <1>9, <1>10, <1>12, <1>13, <1>14, LoneCall

(* What a transaction does to the account of its milestone, and that it    *)
(* touches no other.                                                       *)
LEMMA SubmittedExactly ==
  ASSUME AccountsInOrder, NEW t, t.ms \in Milestones, Submit(t)
  PROVE  /\ \A m \in Milestones \ {t.ms} : escrow'[m] = escrow[m]
         /\ escrow'[t.ms].status = Outcome(t.op)
         /\ escrow'[t.ms].freelancer =
              IF t.op = "Lock" THEN t.payee ELSE escrow[t.ms].freelancer
<1> DEFINE j == t.ms
           old == escrow[j]
<1>1. DOMAIN escrow = Milestones /\ DOMAIN old = AccountFields /\ j \in Milestones
  BY DEF AccountsInOrder, InShape
<1>2. ASSUME NEW e, escrow' = [escrow EXCEPT ![j] = e], e.status = Outcome(t.op),
             e.freelancer = IF t.op = "Lock" THEN t.payee ELSE old.freelancer
      PROVE  /\ \A m \in Milestones \ {j} : escrow'[m] = escrow[m]
             /\ escrow'[j].status = Outcome(t.op)
             /\ escrow'[j].freelancer = IF t.op = "Lock" THEN t.payee ELSE old.freelancer
  BY <1>1, <1>2
<1> HIDE DEF j, old
<1>3. CASE t.op = "Fund" /\ Chain!Initialize(t.signer, Authority, j, Deposit)
  <2> DEFINE e == Chain!Opened(t.signer, Authority, Deposit)
  <2>1. old = Chain!NoEscrow /\ escrow' = [escrow EXCEPT ![j] = e]
    BY <1>3 DEF Chain!Initialize, Chain!CanInitialize, old
  <2>2. e.status = "Funded" /\ e.freelancer = old.freelancer
    BY <2>1 DEF Chain!Opened, Chain!NoEscrow
  <2> HIDE DEF e
  <2> QED BY <1>2, <1>3, <2>1, <2>2 DEF j, old, Outcome
<1>4. ASSUME t.op \in {"Withdraw", "Refund"}, escrow' = [escrow EXCEPT ![j] = Chain!Refunded(old)]
      PROVE  /\ \A m \in Milestones \ {j} : escrow'[m] = escrow[m]
             /\ escrow'[j].status = Outcome(t.op)
             /\ escrow'[j].freelancer = IF t.op = "Lock" THEN t.payee ELSE old.freelancer
  <2> DEFINE e == Chain!Refunded(old)
  <2>1. e.status = "Refunded" /\ e.freelancer = old.freelancer
    BY <1>1 DEF Chain!Refunded, AccountFields
  <2>2. escrow' = [escrow EXCEPT ![j] = e]
    BY <1>4
  <2> HIDE DEF e
  <2> QED BY <1>2, <1>4, <2>1, <2>2 DEF Outcome
<1>5. CASE t.op = "Withdraw" /\ Chain!Withdraw(t.signer, j)
  <2>1. escrow' = [escrow EXCEPT ![j] = Chain!Refunded(old)]
    BY <1>5 DEF Chain!Withdraw, Chain!CanWithdraw, Chain!PayBack, Chain!CanPayBack, old
  <2> QED BY <1>4, <1>5, <2>1 DEF j, old
<1>6. CASE t.op = "Refund" /\ Chain!Refund(Authority, j)
  <2>1. escrow' = [escrow EXCEPT ![j] = Chain!Refunded(old)]
    BY <1>6 DEF Chain!Refund, Chain!CanRefund, Chain!PayBack, Chain!CanPayBack, old
  <2> QED BY <1>4, <1>6, <2>1 DEF j, old
<1>7. CASE t.op = "Release" /\ Chain!Release(t.signer, j, t.payee)
  <2> DEFINE e == Chain!Released(old)
  <2>1. escrow' = [escrow EXCEPT ![j] = e]
    BY <1>7 DEF Chain!Release, Chain!CanRelease, old
  <2>2. e.status = "Released" /\ e.freelancer = old.freelancer
    BY <1>1 DEF Chain!Released, AccountFields
  <2> HIDE DEF e
  <2> QED BY <1>2, <1>7, <2>1, <2>2 DEF j, old, Outcome
<1>8. CASE t.op = "Lock" /\ Chain!Lock(Authority, j, t.payee)
  <2> DEFINE e == Chain!LockedFor(old, t.payee)
  <2>1. escrow' = [escrow EXCEPT ![j] = e]
    BY <1>8 DEF Chain!Lock, Chain!CanLock, old
  <2>2. e.status = "Locked" /\ e.freelancer = t.payee
    BY <1>1 DEF Chain!LockedFor, AccountFields
  <2> HIDE DEF e
  <2> QED BY <1>2, <1>8, <2>1, <2>2 DEF j, old, Outcome
<1> QED
  BY <1>3, <1>5, <1>6, <1>7, <1>8 DEF Submit, j, old

LEMMA LandInOrder == ASSUME Inv, InOrder, NEW t \in net, Land(t) PROVE InOrder'
<1> DEFINE c == t.call
           k == [call[c] EXCEPT !.outcome = "ok"]
           m == t.ms
<1>1. /\ c \in Handled /\ call[c].pc = "wait" /\ call[c].outcome = "none" /\ call[c].ms = m
      /\ call[c].tries = t.try /\ net = {t}
  BY DEF InOrder, NetInTurn
<1>2. /\ Submit(t) /\ net' = {} /\ UNCHANGED <<row, active, strays>>
      /\ call' = [call EXCEPT ![c] = k]
  BY <1>1 DEF Land, Report, history
<1>3. /\ c \in Calls /\ DOMAIN call = Calls /\ Handled \subseteq {c}
      /\ InTurn(call[c], row[m], escrow[m], m \in strays) /\ Shown
      /\ \A n \in Milestones : Agree(row[n], escrow[n], n \in strays)
  BY <1>1, Turns DEF Telling, Landed
<1>4. m \in Milestones /\ DOMAIN call[c] = CallFields /\ AccountsInOrder
      /\ t.op = call[c].op /\ (t.op = "Lock" => t.payee = call[c].hire)
      /\ call[c].op # "Confirm"
  BY <1>1, <1>3 DEF Inv, CallsBacked, Backed, NetKnown, Sent
<1>5. /\ \A n \in Milestones \ {m} : escrow'[n] = escrow[n]
      /\ escrow'[m].status = Outcome(t.op)
      /\ escrow'[m].freelancer = IF t.op = "Lock" THEN t.payee ELSE escrow[m].freelancer
  BY <1>2, <1>4, SubmittedExactly
<1>6. /\ k.pc = "wait" /\ k.outcome = "ok" /\ k.op = call[c].op /\ k.ms = m
      /\ k.mode = call[c].mode /\ k.hire = call[c].hire
  BY <1>1, <1>4 DEF CallFields
<1> HIDE DEF k
<1>7. row[m].freelancer = escrow[m].freelancer
  BY <1>3, <1>4 DEF Agree
<1>8. InTurn(k, row'[m], escrow'[m], m \in strays')
  BY <1>1, <1>2, <1>3, <1>4, <1>5, <1>6, <1>7 DEF InTurn, Landed
<1>9. Shown'
  BY <1>2, <1>3 DEF Shown, Live, Gone
<1>10. \A n \in Milestones : ~(Landed(k) /\ k.ms = n) => Agree(row'[n], escrow'[n], n \in strays')
  BY <1>2, <1>3, <1>4, <1>5, <1>6 DEF Landed
<1>11. k.pc # "publish" /\ \A s, u \in net' : s = u
  BY <1>2, <1>6
<1>12. \A u \in net' : /\ u.call = c /\ k.pc = "wait" /\ k.outcome = "none"
                       /\ k.ms = u.ms /\ k.tries = u.try
  BY <1>2
<1> HIDE DEF c, m
<1> QED
  BY <1>2, <1>3, <1>6, <1>8, <1>9, <1>10, <1>11, <1>12, LoneCall

LEMMA CreateInOrder ==
  ASSUME Inv, InOrder, NEW ms \in SUBSET Milestones, CreateMilestones(ms)
  PROVE  InOrder'
<1>1. /\ \A m \in ms : row[m] = NoRow
      /\ row' = [m \in Milestones |-> IF m \in ms THEN Pending ELSE row[m]]
      /\ UNCHANGED <<escrow, call, net, active, strays>>
  BY DEF CreateMilestones, chain, history
<1>2. /\ NoRow.status = "None" /\ NoRow.freelancer = NoKey
      /\ Pending.status = "Pending" /\ Pending.freelancer = NoKey
  BY DEF NoRow, Pending
<1>3. DOMAIN row = Milestones
  BY DEF Inv, RowsTrail
<1>4. \A m \in Milestones : \/ row'[m] = row[m]
                            \/ row[m] = NoRow /\ row'[m] = Pending
  BY <1>1
<1>5. \A m \in Milestones : row'[m].status \in {"Funded", "Locked"} <=>
                              row[m].status \in {"Funded", "Locked"}
  BY <1>2, <1>4
<1>6. \A m \in Milestones : row'[m].status \in {"None", "Pending", "Refunded"} <=>
                              row[m].status \in {"None", "Pending", "Refunded"}
  BY <1>2, <1>4
<1>7. (Live' <=> Live) /\ (Gone' <=> Gone)
  BY <1>5, <1>6 DEF Live, Gone
<1>8. Handled' = Handled
  BY <1>1 DEF Handled
<1>9. Alone' /\ NetInTurn' /\ ActiveRight'
  BY <1>1, <1>7, <1>8 DEF InOrder, Alone, NetInTurn, ActiveRight, Shown
<1>10. RowsAgree'
  <2>1. \A m \in Milestones : Agree(row[m], escrow[m], m \in strays) => Agree(row'[m], escrow[m], m \in strays)
    BY <1>2, <1>4 DEF Agree
  <2> QED BY <1>1, <1>8, <2>1 DEF InOrder, RowsAgree
<1>11. CallsInTurn'
  <2> SUFFICES ASSUME NEW c \in Handled
               PROVE  /\ InTurn(call[c], row'[call[c].ms], escrow[call[c].ms], call[c].ms \in strays)
                      /\ call[c].pc = "publish" =>
                           call[c].outcome = IF Live' THEN "yes" ELSE "no"
    BY <1>1, <1>8 DEF CallsInTurn
  <2> DEFINE k == call[c]
  <2>1. InTurn(k, row[k.ms], escrow[k.ms], k.ms \in strays)
        /\ (k.pc = "publish" => k.outcome = IF Live THEN "yes" ELSE "no")
    BY DEF InOrder, CallsInTurn
  <2>2. c \in Calls
    BY DEF Handled
  <2>3. k.pc \in Busy => k.ms \in Milestones
    BY <2>2 DEF Inv, CallsBacked, Backed
  <2> HIDE DEF k
  <2>4. k.pc \notin Busy => InTurn(k, row'[k.ms], escrow[k.ms], k.ms \in strays)
    BY <2>1 DEF InTurn, Landed, Busy, Through
  <2>5. k.pc \in Busy => InTurn(k, row'[k.ms], escrow[k.ms], k.ms \in strays)
    <3> SUFFICES ASSUME k.pc \in Busy PROVE InTurn(k, row'[k.ms], escrow[k.ms], k.ms \in strays)
      OBVIOUS
    <3>1. row'[k.ms] = row[k.ms] \/ (row[k.ms] = NoRow /\ row'[k.ms] = Pending)
      BY <1>4, <2>3
    <3>2. CASE row'[k.ms] = row[k.ms]
      BY <2>1, <3>2
    <3>3. CASE row[k.ms] = NoRow
      BY <1>2, <2>1, <3>3 DEF InTurn, Landed
    <3> QED BY <3>1, <3>2, <3>3
  <2> QED BY <1>7, <2>1, <2>4, <2>5 DEF k
<1> QED
  BY <1>9, <1>10, <1>11 DEF InOrder

(* A step that keeps the order of things.                                  *)
LEMMA OrderKept ==
  ASSUME Inv, Tidy, [Next]_vars, Orderly', Orderly
  PROVE  InOrder'
<1>1. InOrder /\ flops = {} /\ trouble = {} /\ trouble' = {} /\ ~overlap'
      /\ crashes = 0 /\ crashes' = 0
  BY DEF Tidy, Orderly
<1>2. ASSUME NEW c \in Calls, Handle(c) PROVE InOrder'
  <2>1. c \in Handled
    BY <1>2 DEF Handle, Handled, ListFunded, Turn, Check, Verify, Send, Settled, Reread, Record,
                Announce, Count, Publish
  <2>2. CASE Reread(c)
    BY <1>1, <2>1, <2>2, RereadInOrder
  <2> QED
    BY <1>1, <1>2, <2>1, <2>2, ListInOrder, TurnInOrder, CheckInOrder, VerifyInOrder, SendInOrder,
       SettledInOrder, RecordInOrder, TellInOrder, CountInOrder DEF Handle
<1>3. ASSUME NEW t \in net, Confirm(t) PROVE InOrder'
  <2>1. ~Flop(t) /\ ~Expire(t)
    BY <1>1 DEF Flop, Expire
  <2> QED BY <1>1, <1>3, <2>1, LandInOrder DEF Confirm
<1>4. ASSUME NEW c \in Calls, LoseTouch(c) PROVE FALSE
  BY <1>1, <1>4 DEF LoseTouch
<1>5. ASSUME NEW c \in Calls, Crash(c) PROVE FALSE
  <2>1. crashes' = crashes + 1
    BY <1>5 DEF Crash
  <2> QED BY <1>1, <2>1
<1>6. ASSUME UNCHANGED <<escrow, row, call, net, active, strays>> PROVE InOrder'
  <2>1. UNCHANGED <<escrow, row, call, net, active, strays>>
    BY <1>6
  <2>2. Handled' = Handled /\ (Shown' <=> Shown) /\ (Live' <=> Live)
    BY <2>1 DEF Handled, Shown, Live, Gone
  <2> QED
    BY <1>1, <2>1, <2>2
       DEF InOrder, Alone, NetInTurn, CallsInTurn, RowsAgree, ActiveRight
<1>7. CASE UNCHANGED vars
  BY <1>6, <1>7 DEF vars, chain, history
<1>8. ASSUME NEW w, NEW n, WithdrawFees(w, n) PROVE InOrder'
  BY <1>6, <1>8 DEF WithdrawFees, Chain!WithdrawFees
<1> QED
  BY <1>1, <1>2, <1>3, <1>4, <1>5, <1>7, <1>8, RequestInOrder, HiredInOrder, CreateInOrder DEF Next, Requests

LEMMA TidyInitially == Init => Tidy
<1> SUFFICES ASSUME Init PROVE Tidy
  OBVIOUS
<1>1. /\ escrow = [m \in Milestones |-> NoEscrow] /\ row = [m \in Milestones |-> NoRow]
      /\ call = [c \in Calls |-> NoCall] /\ net = {} /\ active = "unset"
      /\ crashes = 0 /\ trouble = {} /\ flops = {}
  BY DEF Init, Chain!Init, NoEscrow
<1>2. Handled = {}
  BY <1>1 DEF Handled, NoCall
<1>3. NoEscrow.freelancer = NoKey
  BY DEF NoEscrow, Chain!NoEscrow
<1>4. (\A stray : Agree(NoRow, NoEscrow, stray)) /\ NoRow.status = "None"
  BY <1>3 DEF NoRow, Agree, Tells
<1>5. Shown /\ RowsAgree
  BY <1>1, <1>4 DEF Shown, Live, RowsAgree
<1> QED
  BY <1>1, <1>2, <1>5 DEF Tidy, InOrder, Alone, NetInTurn, CallsInTurn, ActiveRight

LEMMA TidyNext == Inv /\ Tidy /\ [Next]_vars => Tidy'
<1> SUFFICES ASSUME Inv, Tidy, [Next]_vars PROVE Tidy'
  OBVIOUS
<1>1. Remembers /\ crashes \in Nat /\ flops \subseteq trouble
  BY History DEF Tidy
<1>2. crashes' \in Nat
  <2>1. crashes' = crashes \/ crashes' = crashes + 1
    BY <1>1 DEF Remembers
  <2> QED BY <1>1, <2>1
<1>3. flops' \subseteq trouble'
  BY <1>1 DEF Remembers
<1>4. Orderly' => InOrder'
  BY OrderlyBefore, OrderKept
<1> QED
  BY <1>2, <1>3, <1>4 DEF Tidy

(* AgreesWhenOrderly: when calls come one after another and nothing goes   *)
(* wrong, rows and accounts agree, but for a funding that was made up, and *)
(* the job is shown as the rows say.                                       *)
THEOREM OrderlyAgrees == Spec => []AgreesWhenOrderly
<1>1. Tidy => AgreesWhenOrderly
  <2> SUFFICES ASSUME Tidy, Quiet, Orderly PROVE AgreesWhenOrderly
    BY DEF AgreesWhenOrderly
  <2>1. Shown /\ \A m \in Milestones : Agree(row[m], escrow[m], m \in strays)
    BY DEF Tidy, InOrder, ActiveRight, RowsAgree, Quiet
  <2> QED BY <2>1 DEF AgreesWhenOrderly, Shown, Live, Gone, Agree, Tells, MadeUp
<1>2. Inv /\ Tidy /\ [Next]_vars => Tidy'
  BY TidyNext
<1>3. Init => Tidy
  BY TidyInitially
<1> QED
  BY <1>1, <1>2, <1>3, MilestonesInOrder, PTL DEF Spec

-----------------------------------------------------------------------------
(* The program under the milestones *)

(* The service only ever acts for wallets there are.                       *)
WalletsKnown ==
  /\ \A c \in Handled : IF call[c].op = "Lock" THEN call[c].hire \in Freelancers
                                               ELSE call[c].wallet \in Clients
  /\ \A t \in net : IF t.op = "Lock" THEN t.payee \in Freelancers ELSE t.signer \in Clients
  /\ \A m \in Milestones : escrow[m].freelancer \in Freelancers \cup {NoKey}

(* A call whose transaction has landed, for all it knows.                  *)
Past(k) == k.pc \in Through \/ (k.pc = "wait" /\ k.outcome = "ok")

(* A handler's step changes no more than its own call, whose request stays,*)
(* and gets past its transaction, if it has one, only by its outcome; a    *)
(* confirmation that stands alone records only what it has read.           *)
Kept(k, n) ==
  /\ n.op = k.op /\ n.mode \in {k.mode, "server"}
  /\ n.pc # "ended" => n.hire = k.hire /\ n.wallet = k.wallet
  /\ Past(n) => /\ n.ms = k.ms
                /\ Past(k) \/ k.op = "Confirm" \/ (k.pc = "wait" /\ k.outcome = "failed")

Moves(c, k) ==
  /\ c \in Handled /\ call' = [call EXCEPT ![c] = k] /\ Kept(call[c], k)
  /\ k.op = "Confirm" /\ k.pc = "record" => Reread(c)

LEMMA HandlerMoves ==
  ASSUME Inv, NEW c \in Calls, Handle(c) \/ LoseTouch(c) \/ Crash(c)
  PROVE  \E k : Moves(c, k)
<1>1. c \in Handled /\ DOMAIN call[c] = CallFields
  BY DEF Inv, CallsBacked, Backed, Handled, Handle, ListFunded, Turn, Check, Verify, Send, Settled,
         Reread, Record, Announce, Count, Publish, LoseTouch, Crash
<1>2. ASSUME NEW k, call' = [call EXCEPT ![c] = k], Kept(call[c], k),
             k.op = "Confirm" /\ k.pc = "record" => Reread(c)
      PROVE  \E r : Moves(c, r)
  BY <1>1, <1>2 DEF Moves
<1>3. Kept(call[c], Ended(call[c])) /\ Ended(call[c]).pc # "record"
  <2> DEFINE k == Ended(call[c])
  <2>1. k.op = call[c].op /\ k.pc = "ended" /\ k.mode = "server"
    BY DEF Ended, NoCall
  <2> HIDE DEF k
  <2>2. Kept(call[c], k)
    BY <2>1 DEF Kept, Past, Through
  <2> QED BY <2>1, <2>2 DEF k
<1>4. ASSUME call' = [call EXCEPT ![c] = Ended(@)] PROVE \E k : Moves(c, k)
  BY <1>2, <1>3, <1>4
<1>5. ASSUME NEW ok, Finish(c, ok) PROVE \E k : Moves(c, k)
  <2> DEFINE k == [call[c] EXCEPT !.pc = "turn", !.outcome = "none"]
  <2>1. /\ k.op = call[c].op /\ k.hire = call[c].hire /\ k.wallet = call[c].wallet
        /\ k.mode = call[c].mode /\ k.pc = "turn"
    BY <1>1 DEF CallFields
  <2>2. Finished(call[c], ok) = IF call[c].op = "Lock" THEN k ELSE Ended(call[c])
    BY DEF Finished
  <2>3. call' = [call EXCEPT ![c] = Finished(call[c], ok)]
    BY <1>5 DEF Finish
  <2> HIDE DEF k
  <2>4. Kept(call[c], k)
    BY <2>1 DEF Kept, Past, Through
  <2> QED BY <1>2, <1>3, <2>1, <2>2, <2>3, <2>4
<1>6. ASSUME NEW pc, Goto(c, pc), pc = "wait" => call[c].outcome # "ok",
             pc = "record" => call[c].op # "Confirm",
             pc \in Through =>
               Past(call[c]) \/ call[c].op = "Confirm"
               \/ (call[c].pc = "wait" /\ call[c].outcome = "failed")
      PROVE  \E k : Moves(c, k)
  <2> DEFINE k == [call[c] EXCEPT !.pc = pc]
  <2>1. /\ k.op = call[c].op /\ k.hire = call[c].hire /\ k.wallet = call[c].wallet
        /\ k.mode = call[c].mode /\ k.pc = pc /\ k.ms = call[c].ms /\ k.outcome = call[c].outcome
    BY <1>1 DEF CallFields
  <2>2. call' = [call EXCEPT ![c] = k]
    BY <1>6 DEF Goto
  <2> HIDE DEF k
  <2>3. Kept(call[c], k)
    BY <1>6, <2>1 DEF Kept, Past
  <2> QED BY <1>2, <1>6, <2>1, <2>2, <2>3
<1>7. CASE ListFunded(c)
  <2> DEFINE funded == {m \in Milestones : row[m].status = "Funded"}
             k == [call[c] EXCEPT !.pc = "turn", !.list = funded, !.todo = funded]
  <2>1. /\ k.op = call[c].op /\ k.hire = call[c].hire /\ k.wallet = call[c].wallet
        /\ k.mode = call[c].mode /\ k.pc = "turn"
    BY <1>1 DEF CallFields
  <2>2. call' = [call EXCEPT ![c] = k] \/ call' = [call EXCEPT ![c] = Ended(@)]
    BY <1>7 DEF ListFunded
  <2> HIDE DEF k
  <2>3. Kept(call[c], k)
    BY <2>1 DEF Kept, Past, Through
  <2> QED BY <1>2, <1>4, <2>1, <2>2, <2>3
<1>8. CASE Turn(c)
  <2>1. ASSUME NEW m, call' = [call EXCEPT ![c].pc = "check", ![c].ms = m, ![c].todo = @ \ {m}]
        PROVE  \E k : Moves(c, k)
    <3> DEFINE k == [call[c] EXCEPT !.pc = "check", !.ms = m, !.todo = @ \ {m}]
    <3>1. /\ k.op = call[c].op /\ k.hire = call[c].hire /\ k.wallet = call[c].wallet
          /\ k.mode = call[c].mode /\ k.pc = "check"
      BY <1>1 DEF CallFields
    <3>2. call' = [call EXCEPT ![c] = k]
      BY <2>1
    <3> HIDE DEF k
    <3>3. Kept(call[c], k)
      BY <3>1 DEF Kept, Past, Through
    <3> QED BY <1>2, <3>1, <3>2, <3>3
  <2> QED BY <1>4, <1>8, <2>1 DEF Turn
<1>9. ASSUME NEW pc, NEW seen, call' = [call EXCEPT ![c].pc = pc, ![c].seen = seen],
             pc = "send" \/ (pc = "record" /\ Past(call[c]) /\ Reread(c))
      PROVE  \E k : Moves(c, k)
  <2> DEFINE k == [call[c] EXCEPT !.pc = pc, !.seen = seen]
  <2>1. /\ k.op = call[c].op /\ k.hire = call[c].hire /\ k.wallet = call[c].wallet
        /\ k.mode = call[c].mode /\ k.pc = pc /\ k.ms = call[c].ms
    BY <1>1 DEF CallFields
  <2>2. call' = [call EXCEPT ![c] = k]
    BY <1>9
  <2> HIDE DEF k
  <2>3. Kept(call[c], k)
    BY <1>9, <2>1 DEF Kept, Past, Through
  <2> QED BY <1>2, <1>9, <2>1, <2>2, <2>3
<1>10. CASE Check(c)
  BY <1>5, <1>9, <1>10 DEF Check
<1>11. CASE Reread(c)
  <2>1. Past(call[c])
    BY <1>11 DEF Reread, Past, Through
  <2>2. \/ Finish(c, FALSE)
        \/ \E seen : call' = [call EXCEPT ![c].pc = "record", ![c].seen = seen]
    BY <1>11 DEF Reread
  <2> QED BY <1>5, <1>9, <1>11, <2>1, <2>2
<1>12. CASE Send(c)
  <2>1. call[c].outcome = "none"
    BY <1>12 DEF Send, Inv, CallsBacked, Backed
  <2> QED BY <1>5, <1>6, <1>12, <2>1 DEF Send, Through
<1>13. CASE Settled(c)
  <2>1. GoesOn(call[c].mode, call[c].outcome) =>
          Past(call[c]) \/ (call[c].pc = "wait" /\ call[c].outcome = "failed")
    BY <1>13 DEF Settled, GoesOn, Past
  <2>2. call[c].op # "Confirm"
    BY <1>13 DEF Settled, Inv, CallsBacked, Backed
  <2> QED BY <1>5, <1>6, <1>13, <2>1, <2>2 DEF Settled
<1>14. CASE Record(c) \/ Announce(c) \/ Publish(c) \/ LoseTouch(c)
  <2>1. Record(c) => Past(call[c])
    BY DEF Record, Past, Through
  <2>2. (\E ok \in BOOLEAN : Finish(c, ok))
        \/ (Record(c) /\ \E pc \in {"announce", "count"} : Goto(c, pc))
    BY <1>14 DEF Record, Announce, Publish, LoseTouch, AfterRecord
  <2> QED BY <1>5, <1>6, <2>1, <2>2
<1>15. CASE Count(c)
  <2> DEFINE result == IF \E m \in Milestones : row[m].status \in {"Funded", "Locked"}
                       THEN "yes" ELSE "no"
             k == [call[c] EXCEPT !.pc = "publish", !.outcome = result]
  <2>1. /\ k.op = call[c].op /\ k.hire = call[c].hire /\ k.wallet = call[c].wallet
        /\ k.mode = call[c].mode /\ k.pc = "publish" /\ k.ms = call[c].ms
    BY <1>1 DEF CallFields
  <2>2. call' = [call EXCEPT ![c] = k] /\ call[c].pc = "count"
    BY <1>15 DEF Count
  <2> HIDE DEF k
  <2>3. Kept(call[c], k)
    BY <2>1, <2>2 DEF Kept, Past, Through
  <2> QED BY <1>2, <2>1, <2>2, <2>3
<1>16. CASE Crash(c)
  <2> DEFINE k == [call[c] EXCEPT
               !.pc = IF call[c].op = "Lock" THEN "list" ELSE "check",
               !.list = {}, !.todo = {}, !.seen = NoRow, !.outcome = "none", !.tries = @ + 1]
  <2>1. /\ k.op = call[c].op /\ k.hire = call[c].hire /\ k.wallet = call[c].wallet
        /\ k.mode = call[c].mode /\ k.pc \in {"list", "check"}
    BY <1>1 DEF CallFields
  <2>2. \/ call' = [call EXCEPT ![c] = k]
        \/ Goto(c, "confirm") /\ call[c].pc \in Through
        \/ call' = [call EXCEPT ![c] = Ended(@)]
    BY <1>16 DEF Crash, Through
  <2> HIDE DEF k
  <2>3. Kept(call[c], k)
    BY <2>1 DEF Kept, Past, Through
  <2>4. call[c].pc \in Through => Past(call[c])
    BY DEF Past
  <2> QED BY <1>2, <1>4, <1>6, <2>1, <2>2, <2>3, <2>4
<1>17. CASE Verify(c)
  BY <1>5, <1>6, <1>17 DEF Verify
<1> QED
  BY <1>7, <1>8, <1>10, <1>11, <1>12, <1>13, <1>14, <1>15, <1>16, <1>17 DEF Handle

LEMMA WalletsMove ==
  ASSUME Inv, WalletsKnown, NEW c \in Calls, NEW k, Moves(c, k), escrow' = escrow,
         \A t \in net' : t \in net \/ t = Tx(c)
  PROVE  WalletsKnown'
<1>1. /\ DOMAIN call = Calls /\ call' = [call EXCEPT ![c] = k] /\ c \in Handled
      /\ k.op = call[c].op
      /\ k.pc # "ended" => k.hire = call[c].hire /\ k.wallet = call[c].wallet
  BY DEF Inv, CallsBacked, Moves, Kept
<1>2. ASSUME NEW d \in Handled'
      PROVE  IF call'[d].op = "Lock" THEN call'[d].hire \in Freelancers
                                     ELSE call'[d].wallet \in Clients
  <2>1. d \in Calls /\ call'[d].pc \notin {"idle", "ended"}
    BY DEF Handled
  <2>2. CASE d = c
    BY <1>1, <2>1, <2>2 DEF WalletsKnown
  <2>3. CASE d # c
    <3>1. call'[d] = call[d] /\ d \in Handled
      BY <1>1, <2>1, <2>3 DEF Handled
    <3> QED BY <3>1 DEF WalletsKnown
  <2> QED BY <2>2, <2>3
<1>3. Tx(c).op = call[c].op /\ Tx(c).signer = call[c].wallet
      /\ (Tx(c).op = "Lock" => Tx(c).payee = call[c].hire)
  BY DEF Tx
<1>4. IF Tx(c).op = "Lock" THEN Tx(c).payee \in Freelancers ELSE Tx(c).signer \in Clients
  BY <1>1, <1>3 DEF WalletsKnown
<1> QED
  BY <1>2, <1>4 DEF WalletsKnown

LEMMA WalletsReceive ==
  ASSUME Inv, WalletsKnown, NEW c \in Calls, NEW k, Receive(c, k),
         IF k.op = "Lock" THEN k.hire \in Freelancers ELSE k.wallet \in Clients
  PROVE  WalletsKnown' /\ UNCHANGED chain
<1>1. /\ DOMAIN call = Calls /\ call' = [call EXCEPT ![c] = k] /\ UNCHANGED <<escrow, net, chain>>
  BY DEF Inv, CallsBacked, Receive, chain
<1>2. ASSUME NEW d \in Handled'
      PROVE  IF call'[d].op = "Lock" THEN call'[d].hire \in Freelancers
                                     ELSE call'[d].wallet \in Clients
  <2>1. CASE d = c
    BY <1>1, <2>1
  <2>2. CASE d # c
    <3>1. call'[d] = call[d] /\ d \in Handled
      BY <1>1, <2>2 DEF Handled
    <3> QED BY <3>1 DEF WalletsKnown
  <2> QED BY <2>1, <2>2
<1> QED
  BY <1>1, <1>2 DEF WalletsKnown

(* A transaction the service sent is an instruction of the program.        *)
LEMMA Instruction ==
  ASSUME Inv, WalletsKnown, NEW t \in net, Submit(t)
  PROVE  /\ Chain!Next
         /\ \A m \in Milestones : escrow'[m].freelancer \in Freelancers \cup {NoKey}
<1>1. /\ t.ms \in Milestones /\ AccountsInOrder
      /\ IF t.op = "Lock" THEN t.payee \in Freelancers ELSE t.signer \in Clients
      /\ \A m \in Milestones : escrow[m].freelancer \in Freelancers \cup {NoKey}
  BY DEF WalletsKnown, Inv, NetKnown, Sent
<1>2. \A m \in Milestones : escrow'[m].freelancer \in Freelancers \cup {NoKey}
  <2>1. /\ \A m \in Milestones \ {t.ms} : escrow'[m] = escrow[m]
        /\ escrow'[t.ms].freelancer = IF t.op = "Lock" THEN t.payee ELSE escrow[t.ms].freelancer
    BY <1>1, SubmittedExactly
  <2> QED BY <1>1, <2>1
<1>3. Authority \in Chain!Wallets /\ (t.op # "Lock" => t.signer \in Chain!Wallets)
  BY <1>1 DEF Chain!Wallets
<1>4. CASE t.op = "Fund" /\ Chain!Initialize(t.signer, Authority, t.ms, Deposit)
  BY <1>1, <1>2, <1>4 DEF Chain!Next
<1>5. CASE t.op = "Withdraw" /\ Chain!Withdraw(t.signer, t.ms)
  BY <1>1, <1>2, <1>3, <1>5 DEF Chain!Next
<1>6. CASE t.op = "Release" /\ Chain!Release(t.signer, t.ms, t.payee)
  <2>1. t.payee = escrow[t.ms].freelancer /\ escrow[t.ms].status = "Locked"
    BY <1>6 DEF Chain!Release, Chain!CanRelease, Chain!MayRelease
  <2>2. t.payee \in Freelancers
    BY <1>1, <2>1 DEF AccountsInOrder, InShape
  <2> QED BY <1>1, <1>2, <1>3, <1>6, <2>2 DEF Chain!Next
<1>7. CASE t.op = "Lock" /\ Chain!Lock(Authority, t.ms, t.payee)
  BY <1>1, <1>2, <1>3, <1>7 DEF Chain!Next
<1>8. CASE t.op = "Refund" /\ Chain!Refund(Authority, t.ms)
  BY <1>1, <1>2, <1>3, <1>8 DEF Chain!Next
<1> QED
  BY <1>2, <1>4, <1>5, <1>6, <1>7, <1>8 DEF Submit

LEMMA WalletsConfirm ==
  ASSUME Inv, WalletsKnown, NEW t \in net, NEW outcome, Report(t, outcome), net' \subseteq net,
         \A m \in Milestones : escrow'[m].freelancer \in Freelancers \cup {NoKey}
  PROVE  WalletsKnown'
<1>1. ASSUME NEW d \in Handled'
      PROVE  /\ d \in Handled /\ call'[d].op = call[d].op
             /\ call'[d].wallet = call[d].wallet /\ call'[d].hire = call[d].hire
  <2>1. CASE call' = call
    BY <1>1, <2>1 DEF Handled
  <2>2. CASE call' # call
    <3> DEFINE c == t.call
               k == [call[c] EXCEPT !.outcome = outcome]
    <3>1. call' = [call EXCEPT ![c] = k] /\ call[c].pc = "wait"
      BY <2>2 DEF Report
    <3>2. c \in Calls /\ DOMAIN call = Calls /\ DOMAIN call[c] = CallFields
      BY DEF Inv, NetKnown, CallsBacked, Backed
    <3>3. k.wallet = call[c].wallet /\ k.hire = call[c].hire /\ k.op = call[c].op
      BY <3>2 DEF CallFields
    <3> HIDE DEF k
    <3> QED BY <1>1, <3>1, <3>2, <3>3 DEF Handled
  <2> QED BY <2>1, <2>2
<1> QED
  BY <1>1 DEF WalletsKnown

LEMMA WalletsInitially == Init => WalletsKnown
<1> SUFFICES ASSUME Init PROVE WalletsKnown
  OBVIOUS
<1>1. /\ escrow = [m \in Milestones |-> Chain!NoEscrow] /\ net = {}
      /\ call = [c \in Calls |-> NoCall]
  BY DEF Init, Chain!Init
<1>2. Handled = {} /\ Chain!NoEscrow.freelancer = NoKey
  BY <1>1 DEF Handled, NoCall, Chain!NoEscrow
<1> QED
  BY <1>1, <1>2 DEF WalletsKnown

(* Only a transaction that lands moves the accounts.                       *)
LEMMA ChainStep ==
  ASSUME Inv, WalletsKnown, [Next]_vars
  PROVE  WalletsKnown' /\ [Chain!Next]_(Chain!vars)
<1>1. ASSUME UNCHANGED chain PROVE [Chain!Next]_(Chain!vars)
  BY <1>1 DEF chain, Chain!vars
<1>2. ASSUME NEW ms, CreateMilestones(ms) PROVE WalletsKnown' /\ UNCHANGED chain
  <2>1. UNCHANGED <<chain, escrow, call, net>>
    BY <1>2 DEF CreateMilestones, chain
  <2> QED BY <2>1 DEF WalletsKnown, Handled
<1>3. ASSUME NEW c \in Calls, NEW op \in Requests,
             NEW m, NEW w \in Clients, NEW mode, Request(c, op, m, w, mode)
      PROVE  WalletsKnown' /\ UNCHANGED chain
  <2> DEFINE k == [NoCall EXCEPT !.pc = "check", !.op = op, !.ms = m, !.mode = mode, !.wallet = w]
  <2>1. Receive(c, k) /\ k.op = op /\ k.wallet = w
    BY <1>3 DEF Request, NoCall
  <2> HIDE DEF k
  <2> QED BY <1>3, <2>1, WalletsReceive DEF Requests
<1>4. ASSUME NEW c \in Calls, NEW f \in Freelancers, ProposalHired(c, f)
      PROVE  WalletsKnown' /\ UNCHANGED chain
  <2> DEFINE k == [NoCall EXCEPT !.pc = "list", !.op = "Lock", !.hire = f]
  <2>1. Receive(c, k) /\ k.op = "Lock" /\ k.hire = f
    BY <1>4 DEF ProposalHired, NoCall
  <2> HIDE DEF k
  <2> QED BY <2>1, WalletsReceive
<1>5. ASSUME NEW c \in Calls, Handle(c) \/ LoseTouch(c) \/ Crash(c)
      PROVE  WalletsKnown' /\ UNCHANGED chain
  <2>1. UNCHANGED chain /\ \A t \in net' : t \in net \/ t = Tx(c)
    BY <1>5 DEF Handle, ListFunded, Turn, Check, Verify, Send, Settled, Reread, Record, Announce,
                Count, Publish, LoseTouch, Crash
  <2>2. escrow' = escrow
    BY <2>1 DEF chain
  <2> QED BY <1>5, <2>1, <2>2, HandlerMoves, WalletsMove
<1>6. ASSUME NEW t \in net, Land(t) PROVE WalletsKnown' /\ [Chain!Next]_(Chain!vars)
  <2>1. Submit(t) /\ Report(t, "ok") /\ net' \subseteq net
    BY <1>6 DEF Land
  <2>2. Chain!Next /\ \A m \in Milestones : escrow'[m].freelancer \in Freelancers \cup {NoKey}
    BY <2>1, Instruction
  <2> QED BY <2>1, <2>2, WalletsConfirm
<1>7. ASSUME NEW t \in net, Flop(t) \/ Expire(t) PROVE WalletsKnown' /\ UNCHANGED chain
  <2>1. UNCHANGED chain /\ net' \subseteq net /\ (Report(t, "failed") \/ Report(t, "expired"))
    BY <1>7 DEF Flop, Expire
  <2>2. \A m \in Milestones : escrow'[m].freelancer \in Freelancers \cup {NoKey}
    BY <2>1 DEF WalletsKnown, chain
  <2> QED BY <2>1, <2>2, WalletsConfirm
<1>8. CASE UNCHANGED vars
  <2>1. UNCHANGED chain /\ escrow' = escrow /\ call' = call /\ net' = net
    BY <1>8 DEF vars, chain
  <2> QED BY <1>1, <2>1 DEF WalletsKnown, Handled
<1>9. ASSUME NEW w \in Chain!Wallets, NEW n \in Withdrawals, WithdrawFees(w, n)
      PROVE  WalletsKnown' /\ [Chain!Next]_(Chain!vars)
  <2>1. Chain!WithdrawFees(w, n) /\ escrow' = escrow /\ call' = call /\ net' = net
    BY <1>9 DEF WithdrawFees, Chain!WithdrawFees
  <2> QED BY <2>1 DEF WalletsKnown, Handled, Chain!Next
<1> QED
  BY <1>1, <1>2, <1>3, <1>4, <1>5, <1>6, <1>7, <1>8, <1>9 DEF Next, Confirm, Requests

(* The milestones' handlers change the accounts only as the program lets   *)
(* them, crashes, repeats and lost answers included.                       *)
THEOREM MilestonesRunTheProgram == Spec => Chain!Spec
<1>1. Init => Chain!Init
  BY DEF Init
<1>2. Inv /\ WalletsKnown /\ [Next]_vars => WalletsKnown' /\ [Chain!Next]_(Chain!vars)
  BY ChainStep
<1> QED
  BY <1>1, <1>2, WalletsInitially, MilestonesInOrder, PTL DEF Spec, Chain!Spec

(* The program proved about in EscrowProgramProofs and the milestones' are *)
(* the same, so that its guarantees hold here too.                         *)
Prog == INSTANCE EscrowProgramProofs WITH
  Jobs <- Milestones, Authorities <- {Authority}, Amounts <- {Deposit}

LEMMA SameInit == Prog!Init <=> Chain!Init
BY DEF Prog!Init, Chain!Init, Prog!Wallets, Chain!Wallets, Prog!NoEscrow, Chain!NoEscrow,
       Prog!NoLedger, Chain!NoLedger

LEMMA SameNext == [Prog!Next]_(Prog!vars) <=> [Chain!Next]_(Chain!vars)
<1>1. \A c, a, j, n : Prog!Initialize(c, a, j, n) <=> Chain!Initialize(c, a, j, n)
  BY DEF Prog!Initialize, Chain!Initialize, Prog!CanInitialize, Chain!CanInitialize,
         Prog!Opened, Chain!Opened, Prog!NoEscrow, Chain!NoEscrow, Prog!PaidIn, Chain!PaidIn,
         Prog!CanCharge, Chain!CanCharge, Prog!Charge, Chain!Charge, Prog!Affords,
         Chain!Affords, Prog!FeeFits, Chain!FeeFits, Prog!FitsU64, Chain!FitsU64, Prog!RentOK,
         Chain!RentOK, Prog!Fee, Chain!Fee, Prog!FEE_BPS, Chain!FEE_BPS, Prog!BPS_DENOMINATOR,
         Chain!BPS_DENOMINATOR
<1>2. \A s, j, f : Prog!Lock(s, j, f) <=> Chain!Lock(s, j, f)
  BY DEF Prog!Lock, Chain!Lock, Prog!CanLock, Chain!CanLock, Prog!LockedFor, Chain!LockedFor,
         Prog!PaidOut, Chain!PaidOut, Prog!RentOK, Chain!RentOK
<1>3. \A s, j, f : Prog!Release(s, j, f) <=> Chain!Release(s, j, f)
  BY DEF Prog!Release, Chain!Release, Prog!CanRelease, Chain!CanRelease, Prog!MayRelease,
         Chain!MayRelease, Prog!ReleaseFee, Chain!ReleaseFee, Prog!Released, Chain!Released,
         Prog!PaidOut, Chain!PaidOut, Prog!FeeFits, Chain!FeeFits, Prog!FitsU64, Chain!FitsU64,
         Prog!RentOK, Chain!RentOK, Prog!Fee, Chain!Fee, Prog!FEE_BPS, Chain!FEE_BPS,
         Prog!BPS_DENOMINATOR, Chain!BPS_DENOMINATOR
<1>4. \A s, j : Prog!Refund(s, j) <=> Chain!Refund(s, j)
  BY DEF Prog!Refund, Chain!Refund, Prog!CanRefund, Chain!CanRefund, Prog!RefundSum,
         Chain!RefundSum, Prog!CanPayBack, Chain!CanPayBack, Prog!PayBack, Chain!PayBack,
         Prog!Refunded, Chain!Refunded, Prog!PaidOut, Chain!PaidOut, Prog!FitsU64,
         Chain!FitsU64, Prog!RentOK, Chain!RentOK
<1>5. \A s, j : Prog!Withdraw(s, j) <=> Chain!Withdraw(s, j)
  BY DEF Prog!Withdraw, Chain!Withdraw, Prog!CanWithdraw, Chain!CanWithdraw, Prog!WithdrawSum,
         Chain!WithdrawSum, Prog!CanPayBack, Chain!CanPayBack, Prog!PayBack, Chain!PayBack,
         Prog!Refunded, Chain!Refunded, Prog!PaidOut, Chain!PaidOut, Prog!FitsU64,
         Chain!FitsU64, Prog!RentOK, Chain!RentOK
<1>6. \A s, j, n : Prog!TopUpFunded(s, j, n) <=> Chain!TopUpFunded(s, j, n)
  BY DEF Prog!TopUpFunded, Chain!TopUpFunded, Prog!CanTopUpFunded, Chain!CanTopUpFunded,
         Prog!ToppedUp, Chain!ToppedUp, Prog!PaidIn, Chain!PaidIn, Prog!CanCharge,
         Chain!CanCharge, Prog!Charge, Chain!Charge, Prog!Affords, Chain!Affords, Prog!FeeFits,
         Chain!FeeFits, Prog!FitsU64, Chain!FitsU64, Prog!RentOK, Chain!RentOK, Prog!Fee,
         Chain!Fee, Prog!FEE_BPS, Chain!FEE_BPS, Prog!BPS_DENOMINATOR, Chain!BPS_DENOMINATOR
<1>7. \A s, j, n : Prog!TopUpLocked(s, j, n) <=> Chain!TopUpLocked(s, j, n)
  BY DEF Prog!TopUpLocked, Chain!TopUpLocked, Prog!CanTopUpLocked, Chain!CanTopUpLocked,
         Prog!ToppedUp, Chain!ToppedUp, Prog!PaidIn, Chain!PaidIn, Prog!CanCharge,
         Chain!CanCharge, Prog!Charge, Chain!Charge, Prog!Affords, Chain!Affords, Prog!FeeFits,
         Chain!FeeFits, Prog!FitsU64, Chain!FitsU64, Prog!RentOK, Chain!RentOK, Prog!Fee,
         Chain!Fee, Prog!FEE_BPS, Chain!FEE_BPS, Prog!BPS_DENOMINATOR, Chain!BPS_DENOMINATOR
<1>8. \A s, n : Prog!WithdrawFees(s, n) <=> Chain!WithdrawFees(s, n)
  BY DEF Prog!WithdrawFees, Chain!WithdrawFees, Prog!RentOK, Chain!RentOK
<1>9. Prog!Next <=> Chain!Next
  BY <1>1, <1>2, <1>3, <1>4, <1>5, <1>6, <1>7, <1>8
     DEF Prog!Next, Chain!Next, Prog!Wallets, Chain!Wallets
<1> QED
  BY <1>9 DEF Prog!vars, Chain!vars

LEMMA SameAssumptions == Prog!ConstantsAssumption /\ Prog!RuntimeAssumption
<1>1. Prog!IsFiniteSet(Clients) <=> Chain!IsFiniteSet(Clients)
  BY DEF Prog!IsFiniteSet, Chain!IsFiniteSet
<1>2. Prog!Cardinality(Clients) = Chain!Cardinality(Clients)
  BY DEF Prog!Cardinality, Chain!Cardinality, Prog!IsFiniteSet, Chain!IsFiniteSet
<1> QED
  BY <1>1, <1>2, ProgramAssumption DEF Prog!Wallets, Chain!Wallets

LEMMA RunsTheSameProgram == Spec => Prog!Spec
<1>1. Prog!Spec <=> Chain!Spec
  BY SameInit, SameNext, PTL DEF Prog!Spec, Chain!Spec
<1> QED
  BY <1>1, MilestonesRunTheProgram, PTL

(* The money of a milestone is as safe as that of a job: its vault holds   *)
(* what its account records and is shared out as the program promises.     *)
THEOREM MilestoneMoneyInOrder ==
  Spec => [](/\ Chain!Solvency
             /\ Chain!FreeExitBeforeHire /\ Chain!DisputeReturnsPrincipal
             /\ Chain!ReleasePaysPrincipalLessFee /\ Chain!FivePercentCap)
<1>1. Prog!Solvency <=> Chain!Solvency
  BY DEF Prog!Solvency, Chain!Solvency, Prog!Solvent, Chain!Solvent
<1>2. Prog!FreeExitBeforeHire <=> Chain!FreeExitBeforeHire
  BY DEF Prog!FreeExitBeforeHire, Chain!FreeExitBeforeHire, Prog!Hired, Chain!Hired
<1>3. Prog!DisputeReturnsPrincipal <=> Chain!DisputeReturnsPrincipal
  BY DEF Prog!DisputeReturnsPrincipal, Chain!DisputeReturnsPrincipal, Prog!Hired, Chain!Hired
<1>4. Prog!ReleasePaysPrincipalLessFee <=> Chain!ReleasePaysPrincipalLessFee
  BY DEF Prog!ReleasePaysPrincipalLessFee, Chain!ReleasePaysPrincipalLessFee, Prog!Hired,
         Chain!Hired, Prog!Fee, Chain!Fee, Prog!FEE_BPS, Chain!FEE_BPS,
         Prog!BPS_DENOMINATOR, Chain!BPS_DENOMINATOR
<1>5. Prog!FivePercentCap <=> Chain!FivePercentCap
  BY DEF Prog!FivePercentCap, Chain!FivePercentCap, Prog!FEE_BPS, Chain!FEE_BPS,
         Prog!BPS_DENOMINATOR, Chain!BPS_DENOMINATOR
<1>6. /\ Prog!Spec => []Prog!Solvency
      /\ Prog!Spec => []Prog!FreeExitBeforeHire
      /\ Prog!Spec => []Prog!DisputeReturnsPrincipal
      /\ Prog!Spec => []Prog!ReleasePaysPrincipalLessFee
      /\ Prog!Spec => []Prog!FivePercentCap
  BY SameAssumptions, Prog!SolvencyHolds, Prog!FreeExit, Prog!DisputeRefund, Prog!ReleasePays,
     Prog!AtMostFivePercent
<1> QED
  BY <1>1, <1>2, <1>3, <1>4, <1>5, <1>6, RunsTheSameProgram, PTL

(* RefundNeverBlocked, and more: the authority can always refund an open   *)
(* milestone, whatever its row says.                                       *)
THEOREM MilestoneRefundPasses ==
  Spec => [](\A j \in Milestones : Chain!Open(j) => Chain!CanRefund(Authority, j))
<1>1. Prog!RefundNeverBlocked <=> Chain!RefundNeverBlocked
  BY DEF Prog!RefundNeverBlocked, Chain!RefundNeverBlocked, Prog!Open, Chain!Open,
         Prog!FitsU64, Chain!FitsU64, Prog!RefundSum, Chain!RefundSum, Prog!RentOK, Chain!RentOK
<1>2. /\ Prog!Spec => []Prog!RefundNeverBlocked
      /\ Prog!Spec => []Prog!TypeOK
  BY SameAssumptions, Prog!RefundAlwaysPossible, Prog!TypeCorrect
<1>3. Chain!RefundNeverBlocked /\ Prog!TypeOK =>
        \A j \in Milestones : Chain!Open(j) => Chain!CanRefund(Authority, j)
  <2> SUFFICES ASSUME Chain!RefundNeverBlocked, Prog!TypeOK, NEW j \in Milestones, Chain!Open(j)
               PROVE  Chain!CanRefund(Authority, j)
    OBVIOUS
  <2> DEFINE e == escrow[j]
             sum == Chain!RefundSum(e)
  <2>1. e.status \in {"Funded", "Locked"}
    BY DEF Chain!Open
  <2>2. e.authority = Authority /\ vault[j] \in Nat
    BY <2>1 DEF Prog!TypeOK, Prog!JobEscrow, Prog!NoEscrow
  <2>3. /\ Chain!FitsU64(sum) /\ vault[j] = sum /\ Chain!RentOK(wallet[e.client] + sum)
    BY DEF Chain!RefundNeverBlocked
  <2>4. vault[j] >= sum /\ vault[j] - sum = 0
    BY <2>2, <2>3
  <2>5. Chain!RentOK(vault[j] - sum)
    BY <2>4 DEF Chain!RentOK
  <2> QED
    BY <2>1, <2>2, <2>3, <2>4, <2>5 DEF Chain!CanRefund, Chain!CanPayBack
<1> QED
  BY <1>1, <1>2, <1>3, RunsTheSameProgram, PTL

(* And the custody of every milestone is the one that was promised to its  *)
(* client and freelancer.                                                  *)
THEOREM MilestonesKeepCustody == Spec => Chain!KeepsJobMoney
<1>1. Prog!Custody!Init <=> Chain!Custody!Init
  BY DEF Prog!Custody!Init, Chain!Custody!Init, Prog!Wallets, Chain!Wallets
<1>2. Prog!Custody!JobStep <=> Chain!Custody!JobStep
  BY DEF Prog!Custody!JobStep, Chain!Custody!JobStep, Prog!Wallets, Chain!Wallets,
         Prog!Custody!Open, Chain!Custody!Open, Prog!Custody!Add, Chain!Custody!Add,
         Prog!Custody!Hire, Chain!Custody!Hire, Prog!Custody!Pay, Chain!Custody!Pay,
         Prog!Custody!Return, Chain!Custody!Return, Prog!Custody!Cut, Chain!Custody!Cut
<1>3. Prog!Custody!Aside <=> Chain!Custody!Aside
  BY DEF Prog!Custody!Aside, Chain!Custody!Aside, Prog!Wallets, Chain!Wallets
<1>4. [Prog!Custody!JobStep \/ Prog!Custody!Aside]_(Prog!Custody!vars)
        <=> [Chain!Custody!JobStep \/ Chain!Custody!Aside]_(Chain!Custody!vars)
  BY <1>2, <1>3 DEF Prog!Custody!vars, Chain!Custody!vars
<1>5. Prog!KeepsJobMoney <=> Chain!KeepsJobMoney
  BY <1>1, <1>4, PTL
     DEF Prog!KeepsJobMoney, Chain!KeepsJobMoney, Prog!Custody!JobsSpec, Chain!Custody!JobsSpec
<1>6. Prog!Spec => Prog!KeepsJobMoney
  BY SameAssumptions, Prog!ImplementsJobCustody
<1> QED
  BY <1>5, <1>6, RunsTheSameProgram, PTL

-----------------------------------------------------------------------------
(* A hire and the milestones it set out to lock *)

(* While a milestone is funded its account holds its deposit and the fee   *)
(* on it, and the fee vault takes that fee unless it was emptied too far.  *)
Deposits ==
  /\ \A m \in Milestones : escrow[m].status = "Funded" =>
       /\ escrow[m].amount = Deposit /\ escrow[m].platform_fee = Chain!Fee(Deposit)
       /\ escrow[m].authority = Authority
  /\ drained \/ ~Low

LEMMA DepositsSubmitted ==
  ASSUME Inv, Prog!TypeOK, Deposits, NEW t \in net, Submit(t), drained' = drained
  PROVE  Deposits'
<1> DEFINE j == t.ms
           old == escrow[j]
           Deposited == \A m \in Milestones : escrow'[m].status = "Funded" =>
                     /\ escrow'[m].amount = Deposit /\ escrow'[m].platform_fee = Chain!Fee(Deposit)
                     /\ escrow'[m].authority = Authority
<1>1. /\ j \in Milestones /\ DOMAIN escrow = Milestones /\ DOMAIN old = AccountFields
      /\ feeVault \in Nat /\ RentMin \in Nat /\ Chain!Fee(Deposit) \in Nat
  BY ProgramAssumption DEF Chain!ConstantsAssumption, Chain!Fee, Chain!FEE_BPS, Chain!BPS_DENOMINATOR, Inv, NetKnown, Sent, AccountsInOrder, InShape, Prog!TypeOK
<1>2. ASSUME NEW e, escrow' = [escrow EXCEPT ![j] = e],
             e.status = "Funded" => /\ e.amount = Deposit /\ e.platform_fee = Chain!Fee(Deposit)
                                    /\ e.authority = Authority
      PROVE  Deposited
  BY <1>1, <1>2 DEF Deposits
<1>3. ASSUME NEW fee \in Nat, feeVault' = feeVault + fee PROVE (drained \/ ~Low)'
  <2>1. drained \/ ~(feeVault + Chain!Fee(Deposit) < RentMin)
    BY DEF Deposits, Low
  <2>2. Low' <=> feeVault + fee + Chain!Fee(Deposit) < RentMin
    BY <1>3 DEF Low, Chain!Fee, Chain!FEE_BPS, Chain!BPS_DENOMINATOR
  <2> QED BY <1>1, <2>1, <2>2
<1>4. ASSUME feeVault' = feeVault PROVE (drained \/ ~Low)'
  BY <1>4 DEF Deposits, Low, Chain!Fee, Chain!FEE_BPS, Chain!BPS_DENOMINATOR
<1>5. \A e : (e.status \in {"Funded", "Locked"} /\ e \in Prog!JobEscrow \cup {Prog!NoEscrow}) =>
               /\ e.platform_fee \in Nat /\ e.amount \in Nat
  BY DEF Prog!JobEscrow, Prog!NoEscrow
<1>6. old \in Prog!JobEscrow \cup {Prog!NoEscrow}
  BY <1>1 DEF Prog!TypeOK
<1> HIDE DEF j, old, Deposited
<1>7. CASE t.op = "Fund" /\ Chain!Initialize(t.signer, Authority, j, Deposit)
  <2> DEFINE e == Chain!Opened(t.signer, Authority, Deposit)
  <2>1. escrow' = [escrow EXCEPT ![j] = e] /\ feeVault' = feeVault
    BY <1>7 DEF Chain!Initialize
  <2>2. e.amount = Deposit /\ e.platform_fee = Chain!Fee(Deposit) /\ e.authority = Authority
    BY DEF Chain!Opened
  <2> HIDE DEF e
  <2> QED BY <1>2, <1>4, <2>1, <2>2 DEF Deposits, Deposited
<1>8. ASSUME escrow' = [escrow EXCEPT ![j] = Chain!Refunded(old)], feeVault' = feeVault
      PROVE  Deposits'
  <2>1. Chain!Refunded(old).status # "Funded"
    BY <1>1 DEF Chain!Refunded, AccountFields
  <2> QED BY <1>2, <1>4, <1>8, <2>1 DEF Deposits, Deposited
<1>9. CASE t.op = "Withdraw" /\ Chain!Withdraw(t.signer, j)
  BY <1>8, <1>9 DEF Chain!Withdraw, Chain!PayBack, old
<1>10. CASE t.op = "Refund" /\ Chain!Refund(Authority, j)
  BY <1>8, <1>10 DEF Chain!Refund, Chain!PayBack, old
<1>11. CASE t.op = "Release" /\ Chain!Release(t.signer, j, t.payee)
  <2>1. /\ escrow' = [escrow EXCEPT ![j] = Chain!Released(old)] /\ old.status = "Locked"
        /\ feeVault' = feeVault + Chain!ReleaseFee(old)
    BY <1>11 DEF Chain!Release, Chain!CanRelease, Chain!MayRelease, old
  <2>2. Chain!Released(old).status # "Funded"
    BY <1>1 DEF Chain!Released, AccountFields
  <2>3. old.amount \in Nat
    BY <1>5, <1>6, <2>1
  <2>4. Chain!ReleaseFee(old) \in Nat
    BY <2>3 DEF Chain!ReleaseFee, Chain!Fee, Chain!FEE_BPS, Chain!BPS_DENOMINATOR
  <2> QED BY <1>2, <1>3, <2>1, <2>2, <2>4 DEF Deposits, Deposited
<1>12. CASE t.op = "Lock" /\ Chain!Lock(Authority, j, t.payee)
  <2>1. /\ escrow' = [escrow EXCEPT ![j] = Chain!LockedFor(old, t.payee)]
        /\ old.status = "Funded" /\ feeVault' = feeVault + old.platform_fee
    BY <1>12 DEF Chain!Lock, Chain!CanLock, old
  <2>2. Chain!LockedFor(old, t.payee).status # "Funded"
    BY <1>1 DEF Chain!LockedFor, AccountFields
  <2>3. old.platform_fee \in Nat
    BY <1>5, <1>6, <2>1
  <2> QED BY <1>2, <1>3, <2>1, <2>2, <2>3 DEF Deposits, Deposited
<1> QED
  BY <1>7, <1>9, <1>10, <1>11, <1>12 DEF Submit, j

LEMMA DepositsInitially == Init => Deposits
<1> SUFFICES ASSUME Init PROVE Deposits
  OBVIOUS
<1>1. escrow = [m \in Milestones |-> Chain!NoEscrow] /\ drained = Low
  BY DEF Init, Chain!Init
<1>2. Chain!NoEscrow.status = "None"
  BY DEF Chain!NoEscrow
<1> QED
  BY <1>1, <1>2 DEF Deposits

(* Only a transaction of the service that lands moves the accounts, and    *)
(* whoever takes the fees moves the fee vault.                             *)
LEMMA ChainStays ==
  ASSUME [Next]_vars
  PROVE  \/ UNCHANGED <<escrow, feeVault, drained>> \/ \E t \in net : Land(t)
         \/ \E w \in Chain!Wallets, n \in Withdrawals : WithdrawFees(w, n)
<1>1. ASSUME NEW c, Handle(c) PROVE UNCHANGED <<chain, drained>>
  BY <1>1 DEF Handle, ListFunded, Turn, Check, Verify, Send, Settled, Reread, Record, Announce,
              Count, Publish, history
<1>2. ASSUME NEW t \in net, Confirm(t) PROVE UNCHANGED <<chain, drained>> \/ Land(t)
  BY <1>2 DEF Confirm, Flop, Expire
<1> QED
  BY <1>1, <1>2 DEF Next, CreateMilestones, Request, ProposalHired, Receive, LoseTouch, Crash, vars,
                    chain, history

LEMMA DepositsStep ==
  ASSUME Inv, Prog!TypeOK, Deposits, [Next]_vars
  PROVE  Deposits'
<1>1. CASE UNCHANGED <<escrow, feeVault, drained>>
  BY <1>1 DEF Deposits, Low, Chain!Fee, Chain!FEE_BPS, Chain!BPS_DENOMINATOR
<1>2. ASSUME NEW t \in net, Land(t) PROVE Deposits'
  BY <1>2, DepositsSubmitted DEF Land, history
<1>3. ASSUME NEW w, NEW n, WithdrawFees(w, n) PROVE Deposits'
  <2>1. escrow' = escrow /\ drained' = (drained \/ Low')
    BY <1>3 DEF WithdrawFees, Chain!WithdrawFees
  <2>2. (drained \/ ~Low)'
    BY <2>1
  <2> QED BY <2>1, <2>2 DEF Deposits, Chain!Fee, Chain!FEE_BPS, Chain!BPS_DENOMINATOR
<1> QED
  BY <1>1, <1>2, <1>3, ChainStays

(* The program locks any funded milestone, if its deposit is worth keeping *)
(* an account for, and the fee vault was never emptied too far.            *)
LEMMA LockPasses ==
  ASSUME Deposit >= RentMin, ~drained, Prog!TypeOK, Prog!Solvency, Deposits, NEW m \in Milestones, escrow[m].status = "Funded"
  PROVE  Chain!CanLock(Authority, m)
<1> DEFINE fee == Chain!Fee(Deposit)
<1>1. /\ escrow[m].amount = Deposit /\ escrow[m].platform_fee = fee
      /\ escrow[m].authority = Authority /\ escrow[m] \in Prog!JobEscrow \cup {Prog!NoEscrow}
      /\ feeVault \in Nat
  BY DEF Deposits, Prog!TypeOK
<1>2. escrow[m].platform_fee \in Nat
  BY <1>1 DEF Prog!JobEscrow, Prog!NoEscrow
<1>3. fee \in Nat /\ Deposit \in Nat /\ RentMin \in Nat
  BY <1>1, <1>2, ProgramAssumption
<1>4. vault[m] = Deposit + fee
  BY <1>1 DEF Prog!Solvency, Prog!Solvent
<1>5. ~(feeVault + fee < RentMin)
  BY DEF Deposits, Low
<1> HIDE DEF fee
<1>7. vault[m] >= fee /\ vault[m] - fee >= RentMin
  BY <1>3, <1>4
<1>8. feeVault + fee >= RentMin
  BY <1>1, <1>3, <1>5
<1> QED
  BY <1>1, <1>7, <1>8 DEF Chain!CanLock, Chain!RentOK

(* What the call k of a hire knows of the milestones it listed: those it   *)
(* has not lost to a failure are still to come, are being locked, or have  *)
(* an account that is not open to withdrawal any more.                     *)
Hunted(k, m, r, e) ==
  /\ r.status \notin {"None", "Pending"} /\ e.status # "None"
  /\ e.status = "Funded" => m \in k.todo \/ (k.pc \in {"check", "send", "wait"} /\ k.ms = m)

Hunting(k, rows, accounts, lost) ==
  /\ k.op = "Lock" => k.mode = "server"
  /\ k.op # "Lock" => k.list = {} /\ k.todo = {} /\ k.pc \notin {"list", "turn"}
  /\ k.list \subseteq Milestones
  /\ k.pc = "list" => k.list = {}
  /\ k.pc \in {"list", "ended"} => k.todo = {}
  /\ k.pc = "wait" /\ k.outcome \notin {"none", "ok"} => k.ms \in lost
  /\ \A m \in k.list \ lost : Hunted(k, m, rows[m], accounts[m])

(* Milestones with a failure, or confirmed by someone with no escrow there.*)
Lost == trouble \cup strays

HiresHunt == \A c \in Calls : Hunting(call[c], row, escrow, Lost)

RowsKnown == \A m \in Milestones \ flops : row[m].status \in {"None", "Pending"} \cup Lasting

HireInv == flops \subseteq Lost /\ RowsKnown /\ HiresHunt

(* A row that was written is not taken back, and an account, once it is    *)
(* there, never becomes funded again.                                      *)
Further(r, s, e, f) ==
  /\ r.status \notin {"None", "Pending"} => s.status \notin {"None", "Pending"}
  /\ e.status # "None" => f.status # "None" /\ (f.status = "Funded" => e.status = "Funded")

LEMMA HuntsOn ==
  ASSUME NEW k, NEW rows, NEW accounts, NEW lost, Hunting(k, rows, accounts, lost),
         NEW rows2, NEW accounts2, NEW lost2, lost \subseteq lost2,
         \A m \in Milestones \ lost2 : Further(rows[m], rows2[m], accounts[m], accounts2[m])
  PROVE  Hunting(k, rows2, accounts2, lost2)
BY DEF Hunting, Hunted, Further

LEMMA FundedOnce ==
  ASSUME NEW e, NEW f, InShape(e), InShape(f), Follows(e, f), e.status # "None"
  PROVE  f.status # "None" /\ (f.status = "Funded" => e.status = "Funded")
BY DEF InShape, Follows

(* How a row that a handler writes reads.                                  *)
LEMMA WrittenRow ==
  ASSUME NEW k, NEW e, Backed(k, e, FALSE), k.pc = "record", NEW r, DOMAIN r = RowFields
  PROVE  Recorded(k, r).status \in Lasting
<1>1. /\ k.op = "Confirm" \/ Accomplished(k.op, k.hire, e)
      /\ k.op = "Confirm" => k.mode # "server"
  BY DEF Backed, Through
<1>2. CASE k.mode # "server"
  <2>1. Recorded(k, r) = ConfirmedRow(k, r) /\ k.seen.status \in Lasting
    BY <1>2 DEF Recorded, Backed, Claims
  <2>2. ConfirmedRow(k, r).status = k.seen.status
    BY DEF ConfirmedRow, RowFields
  <2> QED BY <2>1, <2>2
<1>3. CASE k.mode = "server"
  <2>1. \/ Recorded(k, r) = [r EXCEPT !.status = "Funded", !.wallet = k.wallet]
        \/ Recorded(k, r) = [r EXCEPT !.status = "Refunded"]
        \/ Recorded(k, r) = [r EXCEPT !.status = "Released"]
        \/ Recorded(k, r) = [r EXCEPT !.status = "Locked", !.freelancer = k.hire]
    BY <1>1, <1>3 DEF Recorded, SignedRow, Accomplished
  <2>2. /\ [r EXCEPT !.status = "Funded", !.wallet = k.wallet].status = "Funded"
        /\ [r EXCEPT !.status = "Refunded"].status = "Refunded"
        /\ [r EXCEPT !.status = "Released"].status = "Released"
        /\ [r EXCEPT !.status = "Locked", !.freelancer = k.hire].status = "Locked"
    BY DEF RowFields
  <2> QED BY <2>1, <2>2 DEF Lasting
<1> QED
  BY <1>2, <1>3

(* Only Record and the creation of milestones write rows.                  *)
LEMMA RowsChange ==
  ASSUME Inv, flops \subseteq flops', [Next]_vars
  PROVE  \A m \in Milestones \ flops' : \/ row'[m] = row[m]
                                        \/ row[m] = NoRow /\ row'[m] = Pending
                                        \/ row'[m].status \in Lasting
<1> DEFINE Changed(m) == \/ row'[m] = row[m]
                         \/ row[m] = NoRow /\ row'[m] = Pending
                         \/ row'[m].status \in Lasting
<1>1. row' = row => \A m : Changed(m)
  OBVIOUS
<1>2. ASSUME NEW ms, CreateMilestones(ms), NEW m \in Milestones PROVE Changed(m)
  BY <1>2 DEF CreateMilestones
<1>3. ASSUME NEW c \in Calls, Record(c), NEW m \in Milestones \ flops' PROVE Changed(m)
  <2> DEFINE n == call[c].ms
  <2>1. call[c].pc = "record" /\ row' = [row EXCEPT ![n] = Recorded(call[c], row[n])]
    BY <1>3 DEF Record
  <2>2. CASE m = n
    <3>1. Backed(call[c], escrow[m], FALSE) /\ DOMAIN row[m] = RowFields /\ DOMAIN row = Milestones
      BY <2>2 DEF Inv, CallsBacked, Backed, RowsTrail
    <3>2. Recorded(call[c], row[m]).status \in Lasting
      BY <2>1, <3>1, WrittenRow
    <3> QED BY <2>1, <2>2, <3>1, <3>2
  <2>3. CASE m # n
    BY <2>1, <2>3 DEF Inv, RowsTrail
  <2> QED BY <2>2, <2>3
<1>4. ASSUME NEW c \in Calls, Handle(c), ~Record(c) PROVE row' = row
  BY <1>4 DEF Handle, ListFunded, Turn, Check, Verify, Send, Settled, Reread, Announce, Count,
              Publish
<1>5. ASSUME NEW t \in net, Confirm(t) PROVE row' = row
  BY <1>5 DEF Confirm, Land, Flop, Expire
<1>6. ASSUME NEW c, LoseTouch(c) \/ Crash(c) \/ (\E k : Receive(c, k)) PROVE row' = row
  BY <1>6 DEF LoseTouch, Crash, Receive
<1>7. (UNCHANGED vars \/ \E w, n : WithdrawFees(w, n)) => row' = row
  BY DEF vars, WithdrawFees
<1> HIDE DEF Changed
<1>8. \A m \in Milestones \ flops' : Changed(m)
  BY <1>1, <1>2, <1>3, <1>4, <1>5, <1>6, <1>7 DEF Next, Request, ProposalHired
<1> QED
  BY <1>8 DEF Changed

LEMMA AccountsFollow ==
  ASSUME Inv, [Next]_vars
  PROVE  \A m \in Milestones : Follows(escrow[m], escrow'[m])
<1>1. CASE escrow' = escrow
  BY <1>1 DEF Follows
<1>2. ASSUME NEW t \in net, Land(t) PROVE \A m \in Milestones : Follows(escrow[m], escrow'[m])
  <2>1. /\ t.ms \in Milestones /\ AccountsInOrder /\ Submit(t)
        /\ t.op = "Lock" => t.payee # NoKey
    BY <1>2 DEF Inv, NetKnown, Sent, Land
  <2> QED BY <2>1, Submitted
<1> QED
  BY <1>1, <1>2, ChainStays DEF WithdrawFees, Chain!WithdrawFees

LEMMA AllFurther ==
  ASSUME Inv, HireInv, [Next]_vars
  PROVE  /\ flops' \subseteq Lost' /\ Lost \subseteq Lost' /\ RowsKnown'
         /\ \A m \in Milestones \ Lost' : Further(row[m], row'[m], escrow[m], escrow'[m])
<1>1. Remembers
  BY History
<1>2. flops \subseteq flops' /\ flops' \subseteq Lost' /\ Lost \subseteq Lost'
  BY <1>1 DEF Remembers, HireInv, Lost
<1>3. \A m \in Milestones \ flops' : \/ row'[m] = row[m]
                                     \/ row[m] = NoRow /\ row'[m] = Pending
                                     \/ row'[m].status \in Lasting
  BY <1>2, RowsChange
<1>4. NoRow.status = "None" /\ Pending.status = "Pending"
  BY DEF NoRow, Pending
<1>5. RowsKnown'
  BY <1>2, <1>3, <1>4 DEF HireInv, RowsKnown
<1>6. ASSUME NEW m \in Milestones \ Lost' PROVE Further(row[m], row'[m], escrow[m], escrow'[m])
  <2>1. row[m].status \notin {"None", "Pending"} => row'[m].status \notin {"None", "Pending"}
    BY <1>2, <1>3, <1>4 DEF Lasting
  <2>2. InShape(escrow[m]) /\ InShape(escrow'[m]) /\ Follows(escrow[m], escrow'[m])
    BY AccountsFollow, Stepwise DEF Inv, AccountsInOrder
  <2> QED BY <2>1, <2>2, FundedOnce DEF Further
<1> QED
  BY <1>2, <1>5, <1>6

-----------------------------------------------------------------------------
(* How a hire's handler goes on, and what is left of its list *)

(* The milestone in hand is lost, or not open to withdrawal any more.      *)
Done(k, accounts, lost) == k.ms \in k.list \ lost => accounts[k.ms].status # "Funded"

Trying == {"check", "send", "wait"}

(* It moves without touching the list or what is still to come of it.  If  *)
(* it gives the milestone in hand up, that one is done.                    *)
LEMMA HuntGoes ==
  ASSUME NEW k, NEW n, NEW rows, NEW accounts, NEW lost, NEW lost2,
         Hunting(k, rows, accounts, lost), lost \subseteq lost2,
         n.op = k.op, n.list = k.list, n.todo = k.todo, n.mode = k.mode, n.ms = k.ms,
         n.pc \notin {"list", "ended"}, n.pc = "turn" => k.op = "Lock",
         n.pc = "wait" /\ n.outcome \notin {"none", "ok"} => k.ms \in lost2,
         k.pc \in Trying /\ n.pc \notin Trying => Done(k, accounts, lost2)
  PROVE  Hunting(n, rows, accounts, lost2)
<1>1. ASSUME NEW m \in n.list \ lost2 PROVE Hunted(n, m, rows[m], accounts[m])
  <2>1. Hunted(k, m, rows[m], accounts[m]) /\ k.op = "Lock"
    BY <1>1 DEF Hunting
  <2> QED BY <1>1, <2>1 DEF Hunted, Done, Trying
<1> QED
  BY <1>1 DEF Hunting, Trying

(* It is through with its list.                                            *)
LEMMA HuntEnds ==
  ASSUME NEW k, NEW rows, NEW accounts, NEW lost, NEW lost2,
         Hunting(k, rows, accounts, lost), lost \subseteq lost2,
         k.todo = {}, k.pc \in Trying => k.op # "Lock"
  PROVE  Hunting(Ended(k), rows, accounts, lost2)
<1> DEFINE n == Ended(k)
<1>1. /\ n.pc = "ended" /\ n.op = k.op /\ n.list = k.list /\ n.todo = {} /\ n.mode = "server"
      /\ n.outcome = "none"
  BY DEF Ended, NoCall
<1> HIDE DEF n
<1>2. ASSUME NEW m \in n.list \ lost2 PROVE Hunted(n, m, rows[m], accounts[m])
  <2>1. Hunted(k, m, rows[m], accounts[m]) /\ k.op = "Lock"
    BY <1>1, <1>2 DEF Hunting
  <2> QED BY <2>1 DEF Hunted, Trying
<1>3. Hunting(n, rows, accounts, lost2)
  BY <1>1, <1>2 DEF Hunting
<1> QED
  BY <1>3 DEF n

(* It is through with the milestone in hand.                               *)
LEMMA HuntFinished ==
  ASSUME NEW k, DOMAIN k = CallFields, NEW ok, NEW rows, NEW accounts, NEW lost, NEW lost2,
         Hunting(k, rows, accounts, lost), lost \subseteq lost2,
         k.pc \in Trying => Done(k, accounts, lost2)
  PROVE  Hunting(Finished(k, ok), rows, accounts, lost2)
<1>1. CASE k.op = "Lock"
  <2> DEFINE n == [k EXCEPT !.pc = "turn", !.outcome = "none"]
  <2>1. /\ n.pc = "turn" /\ n.op = k.op /\ n.list = k.list /\ n.todo = k.todo /\ n.mode = k.mode
        /\ n.ms = k.ms
    BY DEF CallFields
  <2> HIDE DEF n
  <2>2. Hunting(n, rows, accounts, lost2)
    BY <1>1, <2>1, HuntGoes
  <2>3. Finished(k, ok) = n
    BY <1>1 DEF Finished, n
  <2> QED BY <2>2, <2>3
<1>2. CASE k.op # "Lock"
  <2>1. k.todo = {}
    BY <1>2 DEF Hunting
  <2> QED BY <1>2, <2>1, HuntEnds DEF Finished
<1> QED
  BY <1>1, <1>2

(* The handler of c goes on, and the others stay where they are.           *)
OneGoesOn(c) ==
  /\ DOMAIN call' = Calls
  /\ \A d \in Calls : \/ call'[d] = call[d]
                      \/ d = c /\ Hunting(call'[d], row, escrow, Lost')

LEMMA OneGoes ==
  ASSUME Inv, NEW c \in Calls, NEW n, call' = [call EXCEPT ![c] = n],
         Hunting(n, row, escrow, Lost')
  PROVE  OneGoesOn(c)
BY DEF Inv, CallsBacked, OneGoesOn

LEMMA HuntFinishes ==
  ASSUME Inv, HireInv, NEW c \in Calls, NEW ok, Finish(c, ok), Lost \subseteq Lost',
         call[c].pc \in Trying => Done(call[c], escrow, Lost')
  PROVE  OneGoesOn(c)
<1> DEFINE n == Finished(call[c], ok)
<1>1. Hunting(call[c], row, escrow, Lost) /\ DOMAIN call[c] = CallFields
  BY DEF HireInv, HiresHunt, Inv, CallsBacked, Backed
<1>2. Hunting(n, row, escrow, Lost')
  BY <1>1, HuntFinished
<1>3. call' = [call EXCEPT ![c] = n]
  BY DEF Finish
<1> HIDE DEF n
<1> QED
  BY <1>2, <1>3, OneGoes

LEMMA HuntMoves ==
  ASSUME Inv, HireInv, NEW c \in Calls, NEW pc, Goto(c, pc), Lost \subseteq Lost',
         pc \notin {"list", "turn", "ended"},
         pc = "wait" => call[c].outcome = "none",
         call[c].pc \in Trying /\ pc \notin Trying => Done(call[c], escrow, Lost')
  PROVE  OneGoesOn(c)
<1> DEFINE n == [call[c] EXCEPT !.pc = pc]
<1>1. Hunting(call[c], row, escrow, Lost) /\ DOMAIN call[c] = CallFields
  BY DEF HireInv, HiresHunt, Inv, CallsBacked, Backed
<1>2. /\ n.pc = pc /\ n.op = call[c].op /\ n.list = call[c].list /\ n.todo = call[c].todo
      /\ n.mode = call[c].mode /\ n.ms = call[c].ms /\ n.outcome = call[c].outcome
  BY <1>1 DEF CallFields
<1>3. call' = [call EXCEPT ![c] = n]
  BY DEF Goto
<1> HIDE DEF n
<1>4. Hunting(n, row, escrow, Lost')
  BY <1>1, <1>2, HuntGoes
<1> QED
  BY <1>3, <1>4, OneGoes

LEMMA ListHunts == ASSUME Inv, HireInv, Paid, NEW c \in Calls, ListFunded(c) PROVE OneGoesOn(c)
<1> DEFINE k == call[c]
           funded == {m \in Milestones : row[m].status = "Funded"}
           n == [k EXCEPT !.pc = "turn", !.list = funded, !.todo = funded]
<1>1. Hunting(k, row, escrow, Lost) /\ DOMAIN k = CallFields
  BY DEF HireInv, HiresHunt, Inv, CallsBacked, Backed
<1>2. k.pc = "list" /\ k.op = "Lock" /\ k.mode = "server" /\ Lost' = Lost
  BY <1>1 DEF ListFunded, Hunting, history, Lost
<1>3. CASE call' = [call EXCEPT ![c] = Ended(@)]
  <2>1. k.todo = {} /\ k.pc \notin Trying /\ Lost \subseteq Lost'
    BY <1>1, <1>2 DEF Hunting, Trying
  <2>2. Hunting(Ended(k), row, escrow, Lost')
    BY <1>1, <2>1, HuntEnds
  <2> QED BY <1>3, <2>2, OneGoes
<1>4. CASE call' = [call EXCEPT ![c] = n]
  <2>1. /\ n.pc = "turn" /\ n.op = "Lock" /\ n.mode = "server" /\ n.list = funded
        /\ n.todo = funded
    BY <1>1, <1>2 DEF CallFields
  <2>2. ASSUME NEW m \in funded \ Lost PROVE Hunted(n, m, row[m], escrow[m])
    <3>1. row[m].status = "Funded" /\ escrow[m].status # "None"
      BY <2>2 DEF Paid, PaidFor, HireInv, Lost
    <3>2. m \in n.todo
      BY <2>1, <2>2
    <3> QED BY <3>1, <3>2 DEF Hunted
  <2>3. funded \subseteq Milestones
    OBVIOUS
  <2> HIDE DEF n, funded
  <2>4. Hunting(n, row, escrow, Lost')
    BY <1>2, <2>1, <2>2, <2>3 DEF Hunting
  <2> QED BY <1>4, <2>4, OneGoes
<1> QED
  BY <1>3, <1>4 DEF ListFunded

LEMMA TurnHunts == ASSUME Inv, HireInv, NEW c \in Calls, Turn(c) PROVE OneGoesOn(c)
<1> DEFINE k == call[c]
<1>1. Hunting(k, row, escrow, Lost) /\ DOMAIN k = CallFields
  BY DEF HireInv, HiresHunt, Inv, CallsBacked, Backed
<1>2. k.pc = "turn" /\ k.op = "Lock" /\ k.mode = "server" /\ Lost' = Lost
  BY <1>1 DEF Turn, Hunting, history, Lost
<1>3. CASE k.todo = {} /\ call' = [call EXCEPT ![c] = Ended(@)]
  <2>1. k.pc \notin Trying /\ Lost \subseteq Lost'
    BY <1>2 DEF Trying
  <2>2. Hunting(Ended(k), row, escrow, Lost')
    BY <1>1, <1>3, <2>1, HuntEnds
  <2> QED BY <1>3, <2>2, OneGoes
<1>4. ASSUME NEW m \in k.todo,
             call' = [call EXCEPT ![c].pc = "check", ![c].ms = m, ![c].todo = @ \ {m}]
      PROVE  OneGoesOn(c)
  <2> DEFINE n == [k EXCEPT !.pc = "check", !.ms = m, !.todo = @ \ {m}]
  <2>1. call' = [call EXCEPT ![c] = n]
    BY <1>4
  <2>2. /\ n.pc = "check" /\ n.op = "Lock" /\ n.mode = "server" /\ n.list = k.list
        /\ n.todo = k.todo \ {m} /\ n.ms = m
    BY <1>1, <1>2 DEF CallFields
  <2> HIDE DEF n
  <2>3. ASSUME NEW i \in n.list \ Lost PROVE Hunted(n, i, row[i], escrow[i])
    <3>1. Hunted(k, i, row[i], escrow[i])
      BY <1>1, <2>2, <2>3 DEF Hunting
    <3> QED BY <1>2, <2>2, <3>1 DEF Hunted
  <2>4. Hunting(n, row, escrow, Lost')
    BY <1>1, <1>2, <2>2, <2>3 DEF Hunting
  <2> QED BY <2>1, <2>4, OneGoes
<1> QED
  BY <1>3, <1>4 DEF Turn

(* A row that is not open to a hire any more stands for an account that is *)
(* not, either.                                                            *)
LEMMA CheckHunts == ASSUME Inv, HireInv, NEW c \in Calls, Check(c) PROVE OneGoesOn(c)
<1> DEFINE k == call[c]
           r == row[k.ms]
           n == [k EXCEPT !.pc = "send", !.seen = r]
<1>1. Hunting(k, row, escrow, Lost) /\ Backed(k, escrow[k.ms], k.ms \in flops)
  BY DEF HireInv, HiresHunt, Inv, CallsBacked
<1>2. /\ k.pc = "check" /\ Lost' = Lost /\ DOMAIN k = CallFields /\ k.ms \in Milestones
  BY <1>1 DEF Check, history, Lost, Backed, Busy
<1>3. CASE ~Allowed(k.op, r) /\ Finish(c, TRUE)
  <2>1. ASSUME k.ms \in k.list \ Lost PROVE escrow[k.ms].status # "Funded"
    <3>1. k.op = "Lock" /\ Hunted(k, k.ms, r, escrow[k.ms])
      BY <1>1, <2>1 DEF Hunting
    <3>2. r.status \in {"Locked", "Released", "Refunded"} /\ Trails(r, escrow[k.ms])
      BY <1>2, <1>3, <2>1, <3>1
         DEF Allowed, Hunted, HireInv, RowsKnown, Lasting, Inv, RowsTrail
    <3>3. InShape(escrow[k.ms])
      BY <1>2 DEF Inv, AccountsInOrder
    <3> QED BY <3>2, <3>3 DEF Trails, InShape
  <2>2. Done(k, escrow, Lost')
    BY <1>2, <2>1 DEF Done
  <2> QED BY <1>2, <1>3, <2>2, HuntFinishes
<1>4. CASE call' = [call EXCEPT ![c] = n]
  <2>1. /\ n.pc = "send" /\ n.op = k.op /\ n.list = k.list /\ n.todo = k.todo /\ n.mode = k.mode
        /\ n.ms = k.ms
    BY <1>2 DEF CallFields
  <2> HIDE DEF n
  <2>2. n.pc \in Trying \ {"wait"} /\ n.pc \notin {"list", "ended", "turn"}
        /\ Lost \subseteq Lost'
    BY <1>2, <2>1 DEF Trying
  <2>3. Hunting(n, row, escrow, Lost')
    BY <1>1, <2>1, <2>2, HuntGoes
  <2> QED BY <1>4, <2>3, OneGoes
<1> QED
  BY <1>3, <1>4 DEF Check

(* A confirmation that stands alone is no hire.                            *)
LEMMA VerifyHunts == ASSUME Inv, HireInv, NEW c \in Calls, Verify(c) PROVE OneGoesOn(c)
<1>1. /\ call[c].op = "Confirm" /\ Lost \subseteq Lost'
      /\ Goto(c, "confirm") \/ Finish(c, FALSE)
  BY DEF Verify, history, Lost
<1>2. Done(call[c], escrow, Lost')
  BY <1>1 DEF HireInv, HiresHunt, Hunting, Done
<1> QED
  BY <1>1, <1>2, HuntFinishes, HuntMoves

(* What the handler of a hire sends is a lock, and the preflight refuses   *)
(* it only if the milestone is not open to withdrawal any more.            *)
LEMMA SendHunts ==
  ASSUME Inv, HireInv, Prog!TypeOK, Prog!Solvency, Deposits,
         Deposit >= RentMin, ~drained, NEW c \in Calls, Send(c)
  PROVE  OneGoesOn(c)
<1> DEFINE k == call[c]
<1>1. Hunting(k, row, escrow, Lost) /\ Backed(k, escrow[k.ms], k.ms \in flops)
  BY DEF HireInv, HiresHunt, Inv, CallsBacked
<1>2. /\ k.pc = "send" /\ Lost' = Lost /\ k.ms \in Milestones /\ k.outcome = "none"
  BY <1>1 DEF Send, history, Lost, Backed, Busy
<1>3. CASE Goto(c, "wait")
  BY <1>2, <1>3, HuntMoves DEF Trying
<1>4. CASE ~Passes(Tx(c)) /\ Finish(c, FALSE)
  <2>1. ASSUME k.op = "Lock" PROVE escrow[k.ms].status # "Funded"
    <3>1. Tx(c).op = "Lock" /\ Tx(c).ms = k.ms
      BY <2>1 DEF Tx
    <3>2. ~Chain!CanLock(Authority, k.ms)
      BY <1>4, <3>1 DEF Passes
    <3> QED BY <1>2, <3>2, LockPasses
  <2>2. Done(k, escrow, Lost')
    BY <1>1, <2>1 DEF Done, Hunting
  <2> QED BY <1>2, <1>4, <2>2, HuntFinishes
<1> QED
  BY <1>3, <1>4 DEF Send

(* A call that has its result has it still: the account shows the hire.    *)
LEMMA SettledHunts == ASSUME Inv, HireInv, NEW c \in Calls, Settled(c) PROVE OneGoesOn(c)
<1> DEFINE k == call[c]
<1>1. Hunting(k, row, escrow, Lost) /\ Backed(k, escrow[k.ms], k.ms \in flops)
  BY DEF HireInv, HiresHunt, Inv, CallsBacked
<1>2. /\ k.pc = "wait" /\ k.outcome # "none" /\ Lost' = Lost /\ k.ms \in Milestones
  BY <1>1 DEF Settled, history, Lost, Backed, Busy
<1>3. ASSUME k.ms \in k.list \ Lost PROVE escrow[k.ms].status # "Funded"
  <2>1. k.op = "Lock" /\ k.outcome = "ok" /\ k.ms \notin flops
    BY <1>1, <1>2, <1>3 DEF Hunting, HireInv
  <2>2. Accomplished("Lock", k.hire, escrow[k.ms]) /\ k.hire # NoKey
    BY <1>1, <1>2, <2>1 DEF Backed
  <2>3. InShape(escrow[k.ms])
    BY <1>2 DEF Inv, AccountsInOrder
  <2> QED BY <2>2, <2>3 DEF Accomplished, InShape
<1>4. Done(k, escrow, Lost')
  BY <1>2, <1>3 DEF Done
<1>5. CASE Finish(c, FALSE)
  BY <1>2, <1>4, <1>5, HuntFinishes
<1>6. ASSUME NEW pc \in {"record", "confirm"}, Goto(c, pc) PROVE OneGoesOn(c)
  BY <1>2, <1>4, <1>6, HuntMoves
<1> QED
  BY <1>5, <1>6 DEF Settled

LEMMA LoseTouchHunts == ASSUME Inv, HireInv, NEW c \in Calls, LoseTouch(c) PROVE OneGoesOn(c)
<1>1. Finish(c, FALSE) /\ call[c].ms \in Lost' /\ Lost \subseteq Lost'
  BY DEF LoseTouch, Lost
<1>2. Done(call[c], escrow, Lost')
  BY <1>1 DEF Done
<1> QED
  BY <1>1, <1>2, HuntFinishes

(* Past its transaction, a hire has nothing open in hand.                  *)
LEMMA RereadHunts == ASSUME Inv, HireInv, NEW c \in Calls, Reread(c) PROVE OneGoesOn(c)
<1> DEFINE k == call[c]
<1>1. Hunting(k, row, escrow, Lost) /\ DOMAIN k = CallFields
  BY DEF HireInv, HiresHunt, Inv, CallsBacked, Backed
<1>2. k.pc = "confirm" /\ Lost \subseteq Lost'
  BY DEF Reread, Lost
<1>3. ASSUME NEW r, call' = [call EXCEPT ![c].pc = "record", ![c].seen = r] PROVE OneGoesOn(c)
  <2> DEFINE n == [k EXCEPT !.pc = "record", !.seen = r]
  <2>1. call' = [call EXCEPT ![c] = n]
    BY <1>3
  <2>2. /\ n.pc = "record" /\ n.op = k.op /\ n.list = k.list /\ n.todo = k.todo
        /\ n.mode = k.mode /\ n.ms = k.ms
    BY <1>1 DEF CallFields
  <2>3. k.pc \notin Trying
    BY <1>2 DEF Trying
  <2> HIDE DEF n
  <2>4. Hunting(n, row, escrow, Lost')
    BY <1>1, <1>2, <2>2, <2>3, HuntGoes
  <2> QED BY <2>1, <2>4, OneGoes
<1>4. ASSUME NEW ok, Finish(c, ok) PROVE OneGoesOn(c)
  BY <1>2, <1>4, HuntFinishes DEF Trying
<1> QED
  BY <1>3, <1>4 DEF Reread

LEMMA CountHunts == ASSUME Inv, HireInv, NEW c \in Calls, Count(c) PROVE OneGoesOn(c)
<1> DEFINE k == call[c]
<1>1. Hunting(k, row, escrow, Lost) /\ DOMAIN k = CallFields
  BY DEF HireInv, HiresHunt, Inv, CallsBacked, Backed
<1>2. k.pc = "count" /\ Lost \subseteq Lost'
  BY DEF Count, history, Lost
<1>3. PICK said : call' = [call EXCEPT ![c].pc = "publish", ![c].outcome = said]
  BY DEF Count
<1> DEFINE n == [k EXCEPT !.pc = "publish", !.outcome = said]
<1>4. call' = [call EXCEPT ![c] = n]
  BY <1>3
<1>5. /\ n.pc = "publish" /\ n.op = k.op /\ n.list = k.list /\ n.todo = k.todo
      /\ n.mode = k.mode /\ n.ms = k.ms
  BY <1>1 DEF CallFields
<1>6. k.pc \notin Trying
  BY <1>2 DEF Trying
<1> HIDE DEF n
<1>7. Hunting(n, row, escrow, Lost')
  BY <1>1, <1>2, <1>5, <1>6, HuntGoes
<1> QED
  BY <1>4, <1>7, OneGoes

LEMMA WriteHunts ==
  ASSUME Inv, HireInv, NEW c \in Calls, Record(c) \/ Announce(c) \/ Publish(c)
  PROVE  OneGoesOn(c)
<1>1. call[c].pc \notin Trying /\ Lost \subseteq Lost'
  BY DEF Record, Announce, Publish, Trying, history, Lost
<1>2. (\E ok \in BOOLEAN : Finish(c, ok)) \/ \E pc \in {"announce", "count"} : Goto(c, pc)
  BY DEF Record, Announce, Publish, AfterRecord
<1> QED
  BY <1>1, <1>2, HuntFinishes, HuntMoves

(* A hire that is handled anew lists its milestones anew.                  *)
LEMMA CrashHunts == ASSUME Inv, HireInv, NEW c \in Calls, Crash(c) PROVE OneGoesOn(c)
<1> DEFINE k == call[c]
<1>1. Hunting(k, row, escrow, Lost) /\ DOMAIN k = CallFields
  BY DEF HireInv, HiresHunt, Inv, CallsBacked, Backed
<1>2. Lost \subseteq Lost'
  BY DEF Crash, history, Lost
<1>3. CASE /\ k.mode = "server"
           /\ call' = [call EXCEPT ![c] = [call[c] EXCEPT
                !.pc = IF call[c].op = "Lock" THEN "list" ELSE "check",
                !.list = {}, !.todo = {}, !.seen = NoRow, !.outcome = "none", !.tries = @ + 1]]
  <2> DEFINE n == [k EXCEPT !.pc = IF k.op = "Lock" THEN "list" ELSE "check",
                            !.list = {}, !.todo = {}, !.seen = NoRow, !.outcome = "none",
                            !.tries = @ + 1]
  <2>1. /\ n.pc = (IF k.op = "Lock" THEN "list" ELSE "check") /\ n.op = k.op
        /\ n.list = {} /\ n.todo = {} /\ n.mode = k.mode
    BY <1>1 DEF CallFields
  <2>2. call' = [call EXCEPT ![c] = n]
    BY <1>3
  <2> HIDE DEF n
  <2>3. Hunting(n, row, escrow, Lost')
    BY <1>1, <2>1 DEF Hunting
  <2> QED BY <2>2, <2>3, OneGoes
<1>4. CASE /\ k.mode = "client" /\ k.pc \in {"confirm", "record", "announce", "count", "publish"}
           /\ Goto(c, "confirm") \/ call' = [call EXCEPT ![c] = Ended(@)]
  <2>1. k.op # "Lock" /\ k.pc \notin Trying /\ k.todo = {}
    BY <1>1, <1>4 DEF Hunting, Trying
  <2>2. Hunting(Ended(k), row, escrow, Lost')
    BY <1>1, <1>2, <2>1, HuntEnds
  <2> QED BY <1>2, <1>4, <2>1, <2>2, HuntMoves, OneGoes
<1> QED
  BY <1>3, <1>4 DEF Crash

(* The calls that just came have listed nothing yet.                       *)
LEMMA ReceiveHunts ==
  ASSUME Inv, HireInv, NEW c \in Calls, NEW k, Receive(c, k), k.list = {}, k.todo = {},
         \/ k.op = "Lock" /\ k.mode = "server" /\ k.pc = "list"
         \/ k.op # "Lock" /\ k.pc = "check"
  PROVE  OneGoesOn(c)
<1>1. Hunting(k, row, escrow, Lost') /\ call' = [call EXCEPT ![c] = k]
  BY DEF Hunting, Receive, Lost
<1> QED
  BY <1>1, OneGoes

LEMMA RequestHunts ==
  ASSUME Inv, HireInv, NEW c \in Calls, NEW op, op # "Lock", NEW m, NEW w, NEW mode,
         Request(c, op, m, w, mode)
  PROVE  OneGoesOn(c)
<1> DEFINE k == [NoCall EXCEPT !.pc = "check", !.op = op, !.ms = m, !.mode = mode, !.wallet = w]
<1>1. Receive(c, k)
  BY DEF Request
<1>2. k.list = {} /\ k.todo = {} /\ k.op = op /\ k.pc = "check"
  BY DEF NoCall
<1> HIDE DEF k
<1> QED
  BY <1>1, <1>2, ReceiveHunts

LEMMA HiredHunts ==
  ASSUME Inv, HireInv, NEW c \in Calls, NEW f, ProposalHired(c, f)
  PROVE  OneGoesOn(c)
<1> DEFINE k == [NoCall EXCEPT !.pc = "list", !.op = "Lock", !.hire = f]
<1>1. Receive(c, k)
  BY DEF ProposalHired
<1>2. k.list = {} /\ k.todo = {} /\ k.op = "Lock" /\ k.mode = "server" /\ k.pc = "list"
  BY DEF NoCall
<1> HIDE DEF k
<1> QED
  BY <1>1, <1>2, ReceiveHunts

(* What a call is told of its transaction: no bad news without trouble.    *)
LEMMA ToldHunts ==
  ASSUME Inv, HireInv, NEW t \in net, NEW outcome, Report(t, outcome),
         Lost \subseteq Lost', outcome # "ok" => t.ms \in Lost'
  PROVE  OneGoesOn(t.call)
<1> DEFINE c == t.call
           k == call[c]
           n == [k EXCEPT !.outcome = outcome]
<1>1. c \in Calls
  BY DEF Inv, NetKnown
<1>2. Hunting(k, row, escrow, Lost) /\ DOMAIN k = CallFields
  BY <1>1 DEF HireInv, HiresHunt, Inv, CallsBacked, Backed
<1>3. CASE call' = call
  BY <1>3 DEF OneGoesOn, Inv, CallsBacked
<1>4. CASE k.pc = "wait" /\ k.ms = t.ms /\ call' = [call EXCEPT ![c] = n]
  <2>1. /\ n.pc = "wait" /\ n.op = k.op /\ n.list = k.list /\ n.todo = k.todo
        /\ n.mode = k.mode /\ n.ms = k.ms /\ n.outcome = outcome
    BY <1>2, <1>4 DEF CallFields
  <2>2. n.pc \in Trying
    BY <2>1 DEF Trying
  <2> HIDE DEF n
  <2>3. Hunting(n, row, escrow, Lost')
    BY <1>2, <1>4, <2>1, <2>2, HuntGoes
  <2> QED BY <1>1, <1>4, <2>3, OneGoes
<1> QED
  BY <1>3, <1>4 DEF Report

LEMMA ConfirmHunts ==
  ASSUME Inv, HireInv, NEW t \in net, Confirm(t)
  PROVE  OneGoesOn(t.call)
<1>1. CASE Land(t)
  BY <1>1, ToldHunts DEF Land, history, Lost
<1>2. CASE Flop(t)
  BY <1>2, ToldHunts DEF Flop, Lost
<1>3. CASE Expire(t)
  BY <1>3, ToldHunts DEF Expire, Lost
<1> QED
  BY <1>1, <1>2, <1>3 DEF Confirm

(* The rows and accounts change under the calls, whoever moves.            *)
LEMMA AllHunt ==
  ASSUME Inv, HireInv, [Next]_vars, NEW c, OneGoesOn(c)
  PROVE  HireInv'
<1>1. /\ flops' \subseteq Lost' /\ Lost \subseteq Lost' /\ RowsKnown'
      /\ \A m \in Milestones \ Lost' : Further(row[m], row'[m], escrow[m], escrow'[m])
  BY AllFurther
<1>2. \A r, e : Further(r, r, e, e)
  BY DEF Further
<1>3. ASSUME NEW d \in Calls PROVE Hunting(call'[d], row, escrow, Lost')
  <2>1. CASE call'[d] = call[d]
    <3>1. Hunting(call[d], row, escrow, Lost)
      BY DEF HireInv, HiresHunt
    <3>2. Hunting(call[d], row, escrow, Lost')
      BY <1>1, <1>2, <3>1, HuntsOn
    <3> QED BY <2>1, <3>2
  <2> QED BY <2>1 DEF OneGoesOn
<1>4. ASSUME NEW d \in Calls PROVE Hunting(call'[d], row', escrow', Lost')
  <2>1. Hunting(call'[d], row, escrow, Lost')
    BY <1>3
  <2> QED BY <1>1, <2>1, HuntsOn
<1> QED
  BY <1>1, <1>4 DEF HireInv, HiresHunt

LEMMA HireStep ==
  ASSUME Inv, HireInv, Paid, Prog!TypeOK, Prog!Solvency, Deposits,
         Deposit >= RentMin, ~drained, [Next]_vars
  PROVE  HireInv'
<1>1. ASSUME NEW c \in Calls, Handle(c) PROVE OneGoesOn(c)
  BY <1>1, ListHunts, TurnHunts, CheckHunts, VerifyHunts, SendHunts, SettledHunts, RereadHunts, CountHunts,
     WriteHunts DEF Handle
<1>2. ASSUME NEW c \in Calls, LoseTouch(c) \/ Crash(c) PROVE OneGoesOn(c)
  BY <1>2, LoseTouchHunts, CrashHunts
<1>3. ASSUME NEW c \in Calls, NEW op \in Requests,
             NEW m, NEW w, NEW mode, Request(c, op, m, w, mode)
      PROVE  OneGoesOn(c)
  BY <1>3, RequestHunts DEF Requests
<1>4. ASSUME NEW c \in Calls, NEW f, ProposalHired(c, f) PROVE OneGoesOn(c)
  BY <1>4, HiredHunts
<1>5. ASSUME NEW t \in net, Confirm(t) PROVE OneGoesOn(t.call)
  BY <1>5, ConfirmHunts
<1>6. (UNCHANGED vars \/ (\E ms : CreateMilestones(ms)) \/ (\E w, n : WithdrawFees(w, n)))
        => UNCHANGED call
  BY DEF vars, CreateMilestones, WithdrawFees
<1>7. \E c : OneGoesOn(c)
  <2>1. UNCHANGED call => \A c : OneGoesOn(c)
    BY DEF OneGoesOn, Inv, CallsBacked
  <2> QED BY <1>1, <1>2, <1>3, <1>4, <1>5, <1>6, <2>1 DEF Next, Requests
<1> QED
  BY <1>7, AllHunt

LEMMA HireInitially == Init => HireInv
<1> SUFFICES ASSUME Init PROVE HireInv
  OBVIOUS
<1>1. /\ NoCall.list = {} /\ NoCall.todo = {} /\ NoCall.op = "none" /\ NoCall.pc = "idle"
  BY DEF NoCall
<1>2. Hunting(NoCall, row, escrow, Lost)
  BY <1>1 DEF Hunting
<1>3. NoRow.status = "None"
  BY DEF NoRow
<1> QED
  BY <1>2, <1>3 DEF Init, HireInv, HiresHunt, RowsKnown, Lost

(* HireLocksListed: when the handler of a hire is through, no milestone it *)
(* set out to lock is still open to withdrawal, but for those with a       *)
(* transaction, or a reading of their account, that came to grief, and     *)
(* those confirmed by someone without an escrow there: however the calls   *)
(* are interleaved, repeated or crashed, as long as the deposit pays for   *)
(* an account of its own and nobody emptied the fee vault too far.         *)
THEOREM HireLocksAll ==
  ASSUME Deposit >= RentMin
  PROVE  Spec => []HireLocksListed
<1>1. Inv /\ (drained \/ HireInv) => HireLocksListed
  <2> SUFFICES ASSUME Inv, HireInv, NEW c \in Calls, call[c].pc = "ended",
                      NEW m \in call[c].list \ Lost
               PROVE  escrow[m].status # "Funded"
    BY DEF HireLocksListed, Lost
  <2>1. Hunting(call[c], row, escrow, Lost)
    BY DEF HireInv, HiresHunt
  <2>2. Hunted(call[c], m, row[m], escrow[m]) /\ call[c].todo = {}
    BY <2>1 DEF Hunting
  <2> QED BY <2>2 DEF Hunted
<1>2. Init => Deposits /\ HireInv
  BY DepositsInitially, HireInitially
<1>3. Inv /\ Paid /\ Prog!TypeOK /\ Prog!Solvency /\ Deposits /\ (drained \/ HireInv) /\ [Next]_vars
        => Deposits' /\ (drained \/ HireInv)'
  <2>1. [Next]_vars /\ drained => drained'
    BY ChainStays DEF Land, history, WithdrawFees
  <2> QED BY <2>1, DepositsStep, HireStep
<1>4. Prog!Spec => []Prog!TypeOK /\ []Prog!Solvency
  BY SameAssumptions, Prog!TypeCorrect, Prog!SolvencyHolds, PTL
<1>5. Inv /\ Paid /\ [Next]_vars => Paid'
  BY PaidNext
<1> QED
  BY <1>1, <1>2, <1>3, <1>4, <1>5, PaidInitially, MilestonesInOrder, RunsTheSameProgram, PTL
     DEF Spec

-----------------------------------------------------------------------------
(* The client a row names *)

(* Milestones with a transaction that failed after preflight, or confirmed *)
(* by someone with no escrow there.                                        *)
Spoilt == flops \cup strays

(* A call past its transaction was made by the client of its account, or   *)
(* is one that never writes who the client is; a confirmation that stands  *)
(* alone comes from that client; a transaction is signed by the wallet its *)
(* call was made for; and a row names the client.                          *)
Signed(k, e, bad) ==
  /\ k.op \in {"Lock", "Refund"} => k.mode = "server"
  /\ Past(k) => bad \/ k.op \in {"Lock", "Refund", "Confirm"} \/ e.client = k.wallet
  /\ k.op = "Confirm" /\ k.pc = "record" => bad \/ (e.status # "None" /\ e.client = k.wallet)

CallsSigned == \A c \in Calls : Signed(call[c], escrow[call[c].ms], call[c].ms \in Spoilt)

NetSigned == \A t \in net : call[t.call].pc # "ended" => t.signer = call[t.call].wallet

Named(r, e) == r.wallet # NoKey => e.status # "None" /\ r.wallet = e.client

RowsName == \A m \in Milestones \ Spoilt : Named(row[m], escrow[m])

NamesInv == CallsSigned /\ NetSigned /\ RowsName

(* The accounts are the clients' for good, and it is the client who signs. *)
LEMMA ClientsStay ==
  ASSUME Inv, WalletsKnown, Prog!TypeOK, Authority \notin Clients, NEW t \in net, Submit(t)
  PROVE  /\ \A m \in Milestones : escrow[m].status # "None" => escrow'[m].client = escrow[m].client
         /\ t.op \notin {"Lock", "Refund"} => escrow'[t.ms].client = t.signer
<1> DEFINE j == t.ms
           old == escrow[j]
           Goal == /\ \A m \in Milestones :
                        escrow[m].status # "None" => escrow'[m].client = escrow[m].client
                   /\ t.op \notin {"Lock", "Refund"} => escrow'[j].client = t.signer
<1>1. /\ j \in Milestones /\ DOMAIN escrow = Milestones /\ DOMAIN old = AccountFields
      /\ t.op # "Lock" => t.signer \in Clients
      /\ old \in Prog!JobEscrow \cup {Prog!NoEscrow}
  BY DEF Inv, NetKnown, Sent, AccountsInOrder, InShape, WalletsKnown, Prog!TypeOK
<1>2. ASSUME NEW e, escrow' = [escrow EXCEPT ![j] = e],
             old.status # "None" => e.client = old.client,
             t.op \notin {"Lock", "Refund"} => e.client = t.signer
      PROVE  Goal
  BY <1>1, <1>2
<1>3. old.status \notin {"None"} => old.authority = Authority
  BY <1>1 DEF Prog!JobEscrow, Prog!NoEscrow
<1> HIDE DEF j, old
<1>4. CASE t.op = "Fund" /\ Chain!Initialize(t.signer, Authority, j, Deposit)
  <2> DEFINE e == Chain!Opened(t.signer, Authority, Deposit)
  <2>1. escrow' = [escrow EXCEPT ![j] = e] /\ old.status = "None"
    BY <1>4 DEF Chain!Initialize, Chain!CanInitialize, Chain!NoEscrow, old
  <2>2. e.client = t.signer
    BY DEF Chain!Opened
  <2> HIDE DEF e
  <2> QED BY <1>2, <2>1, <2>2 DEF j
<1>5. Chain!Refunded(old).client = old.client
  BY <1>1 DEF Chain!Refunded, AccountFields
<1>6. CASE t.op = "Withdraw" /\ Chain!Withdraw(t.signer, j)
  <2>1. escrow' = [escrow EXCEPT ![j] = Chain!Refunded(old)] /\ t.signer = old.client
    BY <1>6 DEF Chain!Withdraw, Chain!CanWithdraw, Chain!PayBack, old
  <2> QED BY <1>2, <1>5, <2>1 DEF j
<1>7. CASE t.op = "Refund" /\ Chain!Refund(Authority, j)
  <2>1. escrow' = [escrow EXCEPT ![j] = Chain!Refunded(old)]
    BY <1>7 DEF Chain!Refund, Chain!PayBack, old
  <2> QED BY <1>2, <1>5, <1>7, <2>1 DEF j
<1>8. CASE t.op = "Release" /\ Chain!Release(t.signer, j, t.payee)
  <2> DEFINE e == Chain!Released(old)
  <2>1. /\ escrow' = [escrow EXCEPT ![j] = e] /\ old.status = "Locked"
        /\ t.signer \in {old.client, old.authority}
    BY <1>8 DEF Chain!Release, Chain!CanRelease, Chain!MayRelease, old
  <2>2. e.client = old.client
    BY <1>1 DEF Chain!Released, AccountFields
  <2>3. t.signer = old.client
    BY <1>1, <1>3, <1>8, <2>1
  <2> HIDE DEF e
  <2> QED BY <1>2, <2>1, <2>2, <2>3 DEF j
<1>9. CASE t.op = "Lock" /\ Chain!Lock(Authority, j, t.payee)
  <2> DEFINE e == Chain!LockedFor(old, t.payee)
  <2>1. escrow' = [escrow EXCEPT ![j] = e]
    BY <1>9 DEF Chain!Lock, old
  <2>2. e.client = old.client
    BY <1>1 DEF Chain!LockedFor, AccountFields
  <2> HIDE DEF e
  <2> QED BY <1>2, <1>9, <2>1, <2>2 DEF j
<1> QED
  BY <1>4, <1>6, <1>7, <1>8, <1>9 DEF Submit, j

(* One call moves on; if it records what stands alone, it owns the escrow, *)
(* or the milestone counts as spoilt.                                      *)
LEMMA MovesSigned ==
  ASSUME Inv, NamesInv, NEW c \in Calls, NEW k, Moves(c, k), escrow' = escrow, Spoilt \subseteq Spoilt',
         k.op = "Confirm" /\ k.pc = "record" => k.ms \in Spoilt' \/ Owns(k.wallet, k.ms),
         \A t \in net' : t \in net \/ (t = Tx(c) /\ k.pc # "ended")
  PROVE  CallsSigned' /\ NetSigned'
<1>1. /\ DOMAIN call = Calls /\ call' = [call EXCEPT ![c] = k] /\ c \in Handled /\ Kept(call[c], k)
  BY DEF Inv, CallsBacked, Moves
<1>2. call'[c] = k /\ \A d \in Calls \ {c} : call'[d] = call[d]
  BY <1>1
<1>3. Signed(k, escrow[k.ms], k.ms \in Spoilt')
  <2> DEFINE m == call[c].ms
  <2>1. Signed(call[c], escrow[m], m \in Spoilt) /\ Backed(call[c], escrow[m], m \in flops)
    BY DEF NamesInv, CallsSigned, Inv, CallsBacked
  <2>2. /\ k.op = call[c].op /\ k.mode \in {call[c].mode, "server"}
        /\ k.pc # "ended" => k.wallet = call[c].wallet
        /\ Past(k) => /\ k.ms = m /\ k.pc # "ended"
                      /\ Past(call[c]) \/ m \in Spoilt \/ k.op = "Confirm"
    BY <1>1, <2>1 DEF Kept, Backed, Past, Through, Spoilt
  <2> QED BY <2>1, <2>2 DEF Signed, Owns
<1>4. CallsSigned'
  <2>1. \A d \in Calls \ {c} : Signed(call[d], escrow[call[d].ms], call[d].ms \in Spoilt')
    BY DEF NamesInv, CallsSigned, Signed
  <2> QED BY <1>2, <1>3, <2>1 DEF CallsSigned
<1>5. ASSUME NEW t \in net', call'[t.call].pc # "ended" PROVE t.signer = call'[t.call].wallet
  <2>1. Tx(c).call = c /\ Tx(c).signer = call[c].wallet
    BY DEF Tx
  <2>2. call[c].pc # "ended" /\ (k.pc # "ended" => k.wallet = call[c].wallet)
    BY <1>1 DEF Handled, Kept
  <2>3. t \in net => t.call \in Calls
    BY DEF Inv, NetKnown
  <2> QED BY <1>2, <1>5, <2>1, <2>2, <2>3 DEF NamesInv, NetSigned
<1> QED
  BY <1>4, <1>5 DEF NetSigned

LEMMA HandlerSigned ==
  ASSUME Inv, NamesInv, NEW c \in Calls, Handle(c) \/ LoseTouch(c) \/ Crash(c)
  PROVE  CallsSigned' /\ NetSigned'
<1>1. /\ escrow' = escrow /\ Spoilt \subseteq Spoilt'
      /\ net' = net \/ (net' = net \cup {Tx(c)} /\ Goto(c, "wait"))
  BY DEF Handle, ListFunded, Turn, Check, Verify, Send, Settled, Reread, Record, Announce, Count,
         Publish, LoseTouch, Crash, chain, history, Spoilt
<1>2. PICK k : Moves(c, k)
  BY HandlerMoves
<1>3. call'[c] = k /\ (Goto(c, "wait") => call'[c].pc = "wait")
  BY <1>2 DEF Moves, Goto, Inv, CallsBacked, Backed, CallFields
<1>4. \A t \in net' : t \in net \/ (t = Tx(c) /\ k.pc # "ended")
  BY <1>1, <1>3
<1>5. ASSUME k.op = "Confirm", k.pc = "record" PROVE k.ms \in Spoilt' \/ Owns(k.wallet, k.ms)
  <2>1. Reread(c) /\ Kept(call[c], k) /\ DOMAIN call[c] = CallFields
    BY <1>2, <1>5 DEF Moves, Inv, CallsBacked, Backed
  <2>2. k.wallet = call[c].wallet /\ k.ms = call[c].ms
    BY <1>5, <2>1 DEF Kept, Past, Through
  <2>3. ~Finish(c, FALSE)
    <3>1. Finished(call[c], FALSE).pc # "record"
      BY <2>1 DEF Finished, Ended, NoCall, CallFields
    <3> QED BY <1>3, <1>5, <3>1 DEF Finish, Inv, CallsBacked
  <2> QED BY <2>1, <2>2, <2>3 DEF Reread, Spoilt
<1> QED
  BY <1>1, <1>2, <1>4, <1>5, MovesSigned

LEMMA ReceiveSigned ==
  ASSUME Inv, NamesInv, NEW c \in Calls, NEW k, Receive(c, k), k.pc \in {"check", "list"},
         k.op \in {"Lock", "Refund"} => k.mode = "server"
  PROVE  CallsSigned' /\ NetSigned'
<1>1. /\ DOMAIN call = Calls /\ call' = [call EXCEPT ![c] = k] /\ call[c].pc = "idle"
      /\ UNCHANGED <<escrow, Spoilt, net>>
  BY DEF Inv, CallsBacked, Receive, chain, Spoilt
<1>2. Signed(k, escrow[k.ms], k.ms \in Spoilt)
  BY DEF Signed, Past, Through
<1>3. CallsSigned'
  BY <1>1, <1>2 DEF NamesInv, CallsSigned
<1>4. \A t \in net : t.call \in Calls /\ t.call # c
  BY <1>1 DEF Inv, NetKnown, Sent
<1>5. NetSigned'
  BY <1>1, <1>4 DEF NamesInv, NetSigned
<1> QED
  BY <1>3, <1>5

(* What the network does to the accounts leaves the calls signed by their  *)
(* clients; and the call that is told of its transaction signed it.        *)
LEMMA ConfirmSigned ==
  ASSUME Inv, NamesInv, NEW t \in net, NEW outcome, Report(t, outcome), net' \subseteq net,
         Spoilt \subseteq Spoilt',
         \A m \in Milestones : escrow[m].status # "None" =>
           escrow'[m].status # "None" /\ escrow'[m].client = escrow[m].client,
         outcome = "ok" /\ t.op \notin {"Lock", "Refund"} => escrow'[t.ms].client = t.signer
  PROVE  CallsSigned' /\ NetSigned'
<1> DEFINE c == t.call
           k == [call[c] EXCEPT !.outcome = outcome]
<1>1. /\ c \in Calls /\ Sent(t, call[c]) /\ DOMAIN call = Calls
  BY DEF Inv, NetKnown, CallsBacked
<1>2. ASSUME NEW d \in Calls PROVE Signed(call[d], escrow'[call[d].ms], call[d].ms \in Spoilt')
  <2> DEFINE r == call[d]
             m == r.ms
  <2>1. Signed(r, escrow[m], m \in Spoilt) /\ Backed(r, escrow[m], m \in flops)
    BY DEF NamesInv, CallsSigned, Inv, CallsBacked
  <2>2. ASSUME Past(r), r.op # "Confirm"
        PROVE  m \in Spoilt' \/ r.op \in {"Lock", "Refund"} \/ escrow'[m].client = r.wallet
    <3>1. m \in Milestones
      BY <2>1, <2>2 DEF Backed, Past, Busy, Through
    <3>2. m \in flops \/ escrow[m].status # "None"
      BY <2>1, <2>2 DEF Backed, Past, Accomplished
    <3> QED BY <2>1, <2>2, <3>1, <3>2 DEF Signed, Spoilt
  <2>3. ASSUME r.op = "Confirm", r.pc = "record"
        PROVE  m \in Spoilt' \/ (escrow'[m].status # "None" /\ escrow'[m].client = r.wallet)
    <3>1. m \in Milestones
      BY <2>1, <2>3 DEF Backed, Busy, Through
    <3> QED BY <2>1, <2>3, <3>1 DEF Signed
  <2> QED BY <2>1, <2>2, <2>3 DEF Signed
<1>3. CASE call' = call
  BY <1>2, <1>3 DEF CallsSigned, NamesInv, NetSigned
<1>4. CASE call[c].pc = "wait" /\ call[c].ms = t.ms /\ call' = [call EXCEPT ![c] = k]
  <2>1. Backed(call[c], escrow[call[c].ms], call[c].ms \in flops)
    BY <1>1 DEF Inv, CallsBacked
  <2>2. /\ k.pc = "wait" /\ k.outcome = outcome /\ k.op = call[c].op /\ k.ms = call[c].ms
        /\ k.wallet = call[c].wallet /\ k.mode = call[c].mode
    BY <1>4, <2>1 DEF Backed, CallFields
  <2>3. call'[c] = k /\ \A d \in Calls \ {c} : call'[d] = call[d]
    BY <1>1, <1>4
  <2> HIDE DEF k
  <2>4. t.op = k.op /\ t.ms = k.ms /\ t.signer = k.wallet
    BY <1>1, <1>4, <2>2 DEF Sent, NamesInv, NetSigned
  <2>5. Signed(k, escrow'[k.ms], k.ms \in Spoilt')
    BY <1>1, <1>2, <2>2, <2>4 DEF Signed, Past, Through
  <2>6. CallsSigned'
    BY <1>2, <2>3, <2>5 DEF CallsSigned
  <2>7. \A s \in net : s.call \in Calls /\ (call'[s.call].pc # "ended" => s.signer = call'[s.call].wallet)
    BY <1>4, <2>2, <2>3 DEF Inv, NetKnown, NamesInv, NetSigned
  <2> QED BY <2>6, <2>7 DEF NetSigned
<1> QED
  BY <1>3, <1>4 DEF Report

(* The row that a handler writes names the client.                         *)
LEMMA WrittenName ==
  ASSUME NEW k, NEW e, Backed(k, e, FALSE), Signed(k, e, FALSE), k.pc = "record",
         NEW r, DOMAIN r = RowFields, Named(r, e)
  PROVE  Named(Recorded(k, r), e)
<1>1. /\ k.op = "Confirm" \/ Accomplished(k.op, k.hire, e)
      /\ e.status # "None"
      /\ k.op \in {"Lock", "Refund"} \/ e.client = k.wallet
      /\ k.op \in {"Lock", "Refund"} => k.mode = "server"
      /\ k.op = "Confirm" => k.mode # "server"
  BY DEF Backed, Signed, Past, Through, Accomplished
<1> DEFINE new == Recorded(k, r)
<1>2. new.wallet = r.wallet \/ (new.wallet = k.wallet /\ k.op \notin {"Lock", "Refund"})
  <2>1. CASE k.mode # "server"
    <3>1. new = [r EXCEPT !.status = k.seen.status, !.amount = k.seen.amount, !.wallet = k.wallet]
      BY <2>1 DEF Recorded, ConfirmedRow
    <3> QED BY <1>1, <2>1, <3>1 DEF RowFields
  <2>2. CASE k.mode = "server" /\ k.op = "Fund"
    <3>1. new = [r EXCEPT !.status = "Funded", !.wallet = k.wallet]
      BY <2>2 DEF Recorded, SignedRow
    <3> QED BY <2>2, <3>1 DEF RowFields
  <2>3. CASE k.mode = "server" /\ k.op # "Fund"
    <3>1. \/ new = [r EXCEPT !.status = "Refunded"]
          \/ new = [r EXCEPT !.status = "Released"]
          \/ new = [r EXCEPT !.status = "Locked", !.freelancer = k.hire]
      BY <1>1, <2>3 DEF Recorded, SignedRow, Accomplished
    <3> QED BY <3>1 DEF RowFields
  <2> QED BY <2>1, <2>2, <2>3
<1> HIDE DEF new
<1>3. Named(new, e)
  BY <1>1, <1>2 DEF Named
<1> QED
  BY <1>3 DEF new

LEMMA RowsNamed ==
  ASSUME Inv, NamesInv, Spoilt \subseteq Spoilt', [Next]_vars,
         \A m \in Milestones : escrow[m].status # "None" => escrow'[m].client = escrow[m].client
  PROVE  RowsName'
<1>1. ASSUME NEW m \in Milestones \ Spoilt' PROVE Named(row'[m], escrow[m])
  <2>1. Named(row[m], escrow[m]) /\ DOMAIN row[m] = RowFields /\ DOMAIN row = Milestones
    BY <1>1 DEF NamesInv, RowsName, Inv, RowsTrail, Spoilt
  <2>2. ASSUME NEW ms, CreateMilestones(ms) PROVE Named(row'[m], escrow[m])
    <3>1. row'[m] = row[m] \/ row'[m] = Pending
      BY <1>1, <2>2 DEF CreateMilestones
    <3>2. Pending.wallet = NoKey
      BY DEF Pending, NoRow
    <3> QED BY <2>1, <3>1, <3>2 DEF Named
  <2>3. ASSUME NEW c \in Calls, Record(c) PROVE Named(row'[m], escrow[m])
    <3> DEFINE k == call[c]
    <3>1. k.pc = "record" /\ row' = [row EXCEPT ![k.ms] = Recorded(k, row[k.ms])]
      BY <2>3 DEF Record
    <3>2. CASE k.ms = m
      <4>1. Backed(k, escrow[m], FALSE) /\ Signed(k, escrow[m], FALSE)
        BY <1>1, <3>2 DEF Inv, CallsBacked, NamesInv, CallsSigned, Backed, Signed, Spoilt
      <4>2. Named(Recorded(k, row[m]), escrow[m])
        BY <2>1, <3>1, <4>1, WrittenName
      <4> QED BY <2>1, <3>1, <3>2, <4>2
    <3>3. CASE k.ms # m
      BY <2>1, <3>1, <3>3
    <3> QED BY <3>2, <3>3
  <2>4. ASSUME NEW c \in Calls, Handle(c), ~Record(c) PROVE row' = row
    BY <2>4 DEF Handle, ListFunded, Turn, Check, Verify, Send, Settled, Reread, Announce,
                Count, Publish
  <2>5. ASSUME NEW t \in net, Confirm(t) PROVE row' = row
    BY <2>5 DEF Confirm, Land, Flop, Expire
  <2>6. ASSUME NEW c, LoseTouch(c) \/ Crash(c) \/ (\E k : Receive(c, k)) PROVE row' = row
    BY <2>6 DEF LoseTouch, Crash, Receive
  <2>7. (UNCHANGED vars \/ \E w, n : WithdrawFees(w, n)) => row' = row
    BY DEF vars, WithdrawFees
  <2> QED BY <2>1, <2>2, <2>3, <2>4, <2>5, <2>6, <2>7 DEF Next, Request, ProposalHired
<1>2. ASSUME NEW m \in Milestones \ Spoilt' PROVE Named(row'[m], escrow'[m])
  <2>1. Named(row'[m], escrow[m]) /\ Follows(escrow[m], escrow'[m])
    BY <1>1, <1>2, AccountsFollow
  <2> QED BY <1>2, <2>1 DEF Named, Follows
<1> QED
  BY <1>2 DEF RowsName

LEMMA NamesStep ==
  ASSUME Inv, WalletsKnown, Prog!TypeOK, Authority \notin Clients, NamesInv, [Next]_vars
  PROVE  NamesInv'
<1>1. Spoilt \subseteq Spoilt'
  BY History DEF Remembers, Spoilt
<1>2. \A m \in Milestones : escrow[m].status # "None" =>
        escrow'[m].status # "None" /\ escrow'[m].client = escrow[m].client
  <2>1. escrow' = escrow \/ \E t \in net : Submit(t)
    BY ChainStays DEF Land, WithdrawFees, Chain!WithdrawFees
  <2>2. \A m \in Milestones : escrow[m].status # "None" => escrow'[m].client = escrow[m].client
    BY <2>1, ClientsStay
  <2> QED BY <2>2, AccountsFollow DEF Follows
<1>3. RowsName'
  BY <1>1, <1>2, RowsNamed
<1>4. ASSUME NEW c \in Calls, NEW op \in Requests,
             NEW m, NEW w, NEW mode, Request(c, op, m, w, mode)
      PROVE  CallsSigned' /\ NetSigned'
  <2> DEFINE k == [NoCall EXCEPT !.pc = "check", !.op = op, !.ms = m, !.mode = mode, !.wallet = w]
  <2>1. Receive(c, k) /\ k.op = op /\ k.mode = mode /\ k.pc = "check"
    BY <1>4 DEF Request, NoCall
  <2>2. op = "Refund" => mode = "server"
    BY <1>4 DEF Request
  <2> HIDE DEF k
  <2> QED BY <2>1, <2>2, ReceiveSigned DEF Requests
<1>5. ASSUME NEW c \in Calls, NEW f, ProposalHired(c, f) PROVE CallsSigned' /\ NetSigned'
  <2> DEFINE k == [NoCall EXCEPT !.pc = "list", !.op = "Lock", !.hire = f]
  <2>1. Receive(c, k) /\ k.mode = "server" /\ k.pc = "list"
    BY <1>5 DEF ProposalHired, NoCall
  <2> HIDE DEF k
  <2> QED BY <2>1, ReceiveSigned
<1>6. ASSUME NEW t \in net, Confirm(t) PROVE CallsSigned' /\ NetSigned'
  <2>1. CASE Land(t)
    <3>1. Submit(t) /\ Report(t, "ok") /\ net' \subseteq net
      BY <2>1 DEF Land
    <3> QED BY <1>1, <1>2, <3>1, ClientsStay, ConfirmSigned
  <2>2. CASE Flop(t) \/ Expire(t)
    <3>1. (Report(t, "failed") \/ Report(t, "expired")) /\ net' \subseteq net
      BY <2>2 DEF Flop, Expire
    <3> QED BY <1>1, <1>2, <3>1, ConfirmSigned
  <2> QED BY <1>6, <2>1, <2>2 DEF Confirm
<1>7. ASSUME UNCHANGED vars \/ (\E ms : CreateMilestones(ms)) \/ (\E w, n : WithdrawFees(w, n))
      PROVE  CallsSigned' /\ NetSigned'
  <2>1. UNCHANGED <<escrow, call, net, Spoilt>>
    BY <1>7 DEF vars, CreateMilestones, chain, history, WithdrawFees, Chain!WithdrawFees, Spoilt
  <2> QED BY <2>1 DEF NamesInv, CallsSigned, NetSigned
<1>8. CallsSigned' /\ NetSigned'
  BY <1>4, <1>5, <1>6, <1>7, HandlerSigned DEF Next, Requests
<1> QED
  BY <1>3, <1>8 DEF NamesInv

LEMMA NamesInitially == Init => NamesInv
<1> SUFFICES ASSUME Init PROVE NamesInv
  OBVIOUS
<1>1. call = [c \in Calls |-> NoCall] /\ net = {} /\ row = [m \in Milestones |-> NoRow]
  BY DEF Init
<1>2. NoCall.pc = "idle" /\ NoCall.op = "none" /\ NoRow.wallet = NoKey
  BY DEF NoCall, NoRow
<1>3. \A e, bad : Signed(NoCall, e, bad) /\ Named(NoRow, e)
  BY <1>2 DEF Signed, Named, Past, Through
<1> QED
  BY <1>1, <1>3 DEF NamesInv, CallsSigned, NetSigned, RowsName

(* A refund that the platform makes from the row alone goes through: while *)
(* the account of a milestone is open, the client its row names is the one *)
(* the program pays, and the program lets the platform refund it, unless a *)
(* transaction of that milestone failed after its preflight or somebody    *)
(* without an escrow there confirmed it.                                   *)
RefundAsRecorded ==
  \A m \in Milestones \ Spoilt : row[m].wallet # NoKey /\ Chain!Open(m) =>
    row[m].wallet = escrow[m].client /\ Chain!CanRefund(Authority, m)

(* No row names another client than its account, but for these two, so     *)
(* that a dispute is paid out from the row: the row's wallet is written by *)
(* a call its own client made (the platform's key is nobody's wallet).     *)
THEOREM RowNamesTheClient ==
  ASSUME Authority \notin Clients
  PROVE  Spec => []RefundAsRecorded
<1>1. Inv /\ WalletsKnown /\ [Next]_vars => WalletsKnown'
  BY ChainStep
<1>2. Inv /\ WalletsKnown /\ Prog!TypeOK /\ NamesInv /\ [Next]_vars => NamesInv'
  BY NamesStep
<1>3. NamesInv /\ (\A j \in Milestones : Chain!Open(j) => Chain!CanRefund(Authority, j))
        => RefundAsRecorded
  BY DEF NamesInv, RowsName, Named, RefundAsRecorded
<1>4. Prog!Spec => []Prog!TypeOK
  BY SameAssumptions, Prog!TypeCorrect
<1> QED
  BY <1>1, <1>2, <1>3, <1>4, WalletsInitially, NamesInitially, MilestonesInOrder,
     MilestoneRefundPasses, RunsTheSameProgram, PTL DEF Spec
=============================================================================
