------------------------ MODULE EscrowServiceProofs ------------------------
(***************************************************************************)
(* Proofs about EscrowService, for any number of jobs, calls and crashes,  *)
(* and whether or not the node answers.                                    *)
(***************************************************************************)
EXTENDS EscrowService, FiniteSetTheorems, TLAPS

-----------------------------------------------------------------------------
(* The accounts of the program *)

(* What an account says of its past: nobody is hired before it is locked,  *)
(* and somebody is once it is.                                             *)
AccountFields == {"status", "client", "authority", "freelancer", "amount", "platform_fee"}

Account(e) ==
  /\ DOMAIN e = AccountFields
  /\ e.status \in {"None", "Funded", "Locked", "Released", "Refunded"}
  /\ e.status \in {"None", "Funded"} => e.freelancer = NoKey
  /\ e.status \in {"Locked", "Released"} => e.freelancer # NoKey

AccountsInOrder == DOMAIN escrow = Jobs /\ \A j \in Jobs : Account(escrow[j])

(* f is what e may have become: an account stays, a hire stands and a      *)
(* settlement is final.                                                    *)
Follows(e, f) ==
  /\ e.status # "None" => f.status # "None"
  /\ e.freelancer # NoKey => f.freelancer = e.freelancer
  /\ e.status \in {"Released", "Refunded"} => f.status = e.status

(* What an operation has achieved, once its transaction is in a block, and *)
(* nothing can undo.                                                       *)
Accomplished(op, hire, e) ==
  /\ e.status # "None"
  /\ op = "Lock" => e.freelancer = hire
  /\ op \in {"Withdraw", "Refund"} => e.status = "Refunded"
  /\ op = "Release" => e.status = "Released"

LEMMA StaysAccomplished ==
  ASSUME NEW op, NEW hire, NEW e, NEW f, Follows(e, f), Accomplished(op, hire, e),
         op = "Lock" => hire # NoKey
  PROVE  Accomplished(op, hire, f)
BY DEF Follows, Accomplished

LEMMA FollowsOn ==
  ASSUME NEW e, NEW f, NEW g, Follows(e, f), Follows(f, g)
  PROVE  Follows(e, g)
BY DEF Follows

(* An instruction that changes one account for one that follows it.        *)
LEMMA OneAccount ==
  ASSUME AccountsInOrder, NEW j \in Jobs, NEW e, Account(e), Follows(escrow[j], e),
         escrow' = [escrow EXCEPT ![j] = e]
  PROVE  /\ AccountsInOrder' /\ escrow'[j] = e
         /\ \A k \in Jobs : Follows(escrow[k], escrow'[k])
BY DEF AccountsInOrder, Follows

(* What becomes of the accounts when a transaction is carried out.         *)
LEMMA Submitted ==
  ASSUME AccountsInOrder, NEW t, t.job \in Jobs, t.op = "Lock" => t.payee # NoKey, Submit(t)
  PROVE  /\ AccountsInOrder'
         /\ \A j \in Jobs : Follows(escrow[j], escrow'[j])
         /\ Accomplished(t.op, t.payee, escrow'[t.job])
<1> DEFINE j == t.job
           old == escrow[j]
<1>1. Account(old) /\ j \in Jobs
  BY DEF AccountsInOrder
<1>2. ASSUME NEW e, escrow' = [escrow EXCEPT ![j] = e], Account(e), Follows(old, e),
             Accomplished(t.op, t.payee, e)
      PROVE  /\ AccountsInOrder'
             /\ \A k \in Jobs : Follows(escrow[k], escrow'[k])
             /\ Accomplished(t.op, t.payee, escrow'[j])
  BY <1>2, OneAccount
<1> HIDE DEF j, old
<1>3. CASE t.op = "Fund" /\ Chain!Initialize(t.signer, Authority, j, Deposit)
  <2> DEFINE e == Chain!Opened(t.signer, Authority, Deposit)
  <2>1. old = Chain!NoEscrow /\ escrow' = [escrow EXCEPT ![j] = e]
    BY <1>3 DEF Chain!Initialize, Chain!CanInitialize, old
  <2>2. Account(e) /\ Follows(old, e) /\ Accomplished(t.op, t.payee, e)
    BY <1>3, <2>1
       DEF Chain!Opened, Chain!NoEscrow, Account, AccountFields, Follows, Accomplished
  <2> HIDE DEF e
  <2> QED BY <1>2, <2>1, <2>2 DEF j
<1>4. ASSUME NEW fee, t.op = "TopUp", old.status \in {"Funded", "Locked"},
             escrow' = [escrow EXCEPT ![j] = Chain!ToppedUp(old, Deposit, fee)]
      PROVE  /\ AccountsInOrder'
             /\ \A k \in Jobs : Follows(escrow[k], escrow'[k])
             /\ Accomplished(t.op, t.payee, escrow'[j])
  <2> DEFINE e == Chain!ToppedUp(old, Deposit, fee)
  <2>1. Account(e) /\ Follows(old, e) /\ Accomplished(t.op, t.payee, e)
    BY <1>1, <1>4 DEF Chain!ToppedUp, Account, AccountFields, Follows, Accomplished
  <2> HIDE DEF e
  <2>2. escrow' = [escrow EXCEPT ![j] = e]
    BY <1>4 DEF e
  <2> QED BY <1>2, <2>1, <2>2
<1>5. CASE t.op = "TopUp" /\ Chain!TopUpFunded(t.signer, j, Deposit)
  <2>1. /\ old.status = "Funded"
        /\ escrow' = [escrow EXCEPT ![j] = Chain!ToppedUp(old, Deposit, Chain!Fee(Deposit))]
    BY <1>5 DEF Chain!TopUpFunded, Chain!CanTopUpFunded, old
  <2> QED BY <1>4, <1>5, <2>1 DEF j
<1>6. CASE t.op = "TopUp" /\ Chain!TopUpLocked(t.signer, j, Deposit)
  <2>1. /\ old.status = "Locked"
        /\ escrow' = [escrow EXCEPT ![j] = Chain!ToppedUp(old, Deposit, 0)]
    BY <1>6 DEF Chain!TopUpLocked, Chain!CanTopUpLocked, old
  <2> QED BY <1>4, <1>6, <2>1 DEF j
<1>7. ASSUME t.op \in {"Withdraw", "Refund"}, old.status \in {"Funded", "Locked"},
             escrow' = [escrow EXCEPT ![j] = Chain!Refunded(old)]
      PROVE  /\ AccountsInOrder'
             /\ \A k \in Jobs : Follows(escrow[k], escrow'[k])
             /\ Accomplished(t.op, t.payee, escrow'[j])
  <2> DEFINE e == Chain!Refunded(old)
  <2>1. Account(e) /\ Follows(old, e) /\ Accomplished(t.op, t.payee, e)
    BY <1>1, <1>7 DEF Chain!Refunded, Account, AccountFields, Follows, Accomplished
  <2> HIDE DEF e
  <2>2. escrow' = [escrow EXCEPT ![j] = e]
    BY <1>7 DEF e
  <2> QED BY <1>2, <2>1, <2>2
<1>8. CASE t.op = "Withdraw" /\ Chain!Withdraw(t.signer, j)
  <2>1. old.status = "Funded" /\ escrow' = [escrow EXCEPT ![j] = Chain!Refunded(old)]
    BY <1>8 DEF Chain!Withdraw, Chain!CanWithdraw, Chain!PayBack, Chain!CanPayBack, old
  <2> QED BY <1>7, <1>8, <2>1 DEF j
<1>9. CASE t.op = "Refund" /\ Chain!Refund(Authority, j)
  <2>1. /\ old.status \in {"Funded", "Locked"}
        /\ escrow' = [escrow EXCEPT ![j] = Chain!Refunded(old)]
    BY <1>9 DEF Chain!Refund, Chain!CanRefund, Chain!PayBack, Chain!CanPayBack, old
  <2> QED BY <1>7, <1>9, <2>1 DEF j
<1>10. CASE t.op = "Release" /\ Chain!Release(t.signer, j, t.payee)
  <2> DEFINE e == Chain!Released(old)
  <2>1. old.status = "Locked" /\ escrow' = [escrow EXCEPT ![j] = e]
    BY <1>10 DEF Chain!Release, Chain!CanRelease, Chain!MayRelease, old
  <2>2. Account(e) /\ Follows(old, e) /\ Accomplished(t.op, t.payee, e)
    BY <1>1, <1>10, <2>1
       DEF Chain!Released, Account, AccountFields, Follows, Accomplished
  <2> HIDE DEF e
  <2> QED BY <1>2, <2>1, <2>2 DEF j
<1>11. CASE t.op = "Lock" /\ Chain!Lock(Authority, j, t.payee)
  <2> DEFINE e == Chain!LockedFor(old, t.payee)
  <2>1. old.status = "Funded" /\ escrow' = [escrow EXCEPT ![j] = e]
    BY <1>11 DEF Chain!Lock, Chain!CanLock, old
  <2>2. Account(e) /\ Follows(old, e) /\ Accomplished(t.op, t.payee, e)
    BY <1>1, <1>11, <2>1
       DEF Chain!LockedFor, Account, AccountFields, Follows, Accomplished
  <2> HIDE DEF e
  <2> QED BY <1>2, <2>1, <2>2 DEF j
<1> QED
  BY <1>3, <1>5, <1>6, <1>8, <1>9, <1>10, <1>11 DEF Submit, j

-----------------------------------------------------------------------------
(* The calls, their transactions and the rows *)

CallFields == {"pc", "op", "job", "mode", "wallet", "hire", "seen", "outcome", "tries"}
RowFields == {"status", "amount", "wallet", "freelancer"}
Six == {"Fund", "TopUp", "Withdraw", "Release", "Lock", "Refund"}
Seven == Six \cup {"Confirm"}
Through == {"confirm", "record", "save", "tell"}

(* What was read of an account that has become e since.                    *)
Reported(seen, e) ==
  seen = NoEscrow \/ (Account(seen) /\ Follows(seen, e))

(* A call k whose handler is past its transaction has its result, be the   *)
(* account e of its job what it is by now, unless a transaction of that    *)
(* job failed after preflight (bad) or the call had none of its own.       *)
Backed(k, e, bad) ==
  /\ DOMAIN k = CallFields
  /\ k.pc # "idle" => k.job \in Jobs
  /\ k.pc \notin {"idle", "ended"} /\ k.op = "Lock" => k.hire # NoKey
  /\ k.pc \in {"send", "wait", "save"} => k.op \in Six
  /\ k.pc \in Through => k.op \in Seven
  /\ k.pc \notin {"idle", "ended"} /\ k.op = "Confirm" => k.mode # "server"
  /\ k.pc \in {"check", "send"} => k.outcome = "none"
  /\ k.pc = "wait" /\ k.outcome = "failed" => bad
  /\ k.pc \in Through \/ (k.pc = "wait" /\ k.outcome = "ok") =>
       k.op = "Confirm" \/ bad \/ Accomplished(k.op, k.hire, e)
  /\ k.pc = "record" /\ k.mode # "server" => bad \/ Reported(k.seen, e)
  /\ k.pc = "save" => k.mode = "server" /\ k.op = "TopUp"

CallsBacked ==
  /\ DOMAIN call = Calls
  /\ \A c \in Calls : Backed(call[c], escrow[call[c].job], call[c].job \in flops)

(* A transaction does what its call asked for, however often that was      *)
(* started over.                                                           *)
Sent(t, k) ==
  /\ k.pc # "idle" /\ t.job = k.job /\ t.op = k.op
  /\ t.op = "Lock" => t.payee # NoKey /\ (k.pc # "ended" => t.payee = k.hire)

NetKnown == \A t \in net : t.call \in Calls /\ Sent(t, call[t.call])

Trails(row, e) ==
  /\ row.status = "Locked" => e.freelancer # NoKey
  /\ row.status \in {"Released", "Refunded"} => e.status = row.status
  /\ row.freelancer # NoKey => row.freelancer = e.freelancer

RowsTrail ==
  /\ DOMAIN db = Jobs
  /\ \A j \in Jobs : DOMAIN db[j] = RowFields /\ (j \notin flops => Trails(db[j], escrow[j]))

Inv == AccountsInOrder /\ CallsBacked /\ NetKnown /\ RowsTrail

(* What holds of an account holds of what it becomes.                      *)
LEMMA StaysBacked ==
  ASSUME NEW k, NEW e, NEW f, NEW bad \in BOOLEAN, NEW worse \in BOOLEAN,
         Backed(k, e, bad), Follows(e, f), bad => worse
  PROVE  Backed(k, f, worse)
<1>1. Reported(k.seen, e) => Reported(k.seen, f)
  BY FollowsOn DEF Reported
<1>2. k.pc \in Through \/ k.pc = "wait" =>
        (Accomplished(k.op, k.hire, e) => Accomplished(k.op, k.hire, f))
  BY StaysAccomplished DEF Backed, Through
<1> QED
  BY <1>1, <1>2 DEF Backed

LEMMA StillTrails ==
  ASSUME NEW row, NEW e, NEW f, Trails(row, e), Follows(e, f)
  PROVE  Trails(row, f)
BY DEF Trails, Follows

(* The rows and accounts that a step of a handler leaves alone.            *)
LEMMA RowsStay ==
  ASSUME AccountsInOrder, RowsTrail, UNCHANGED <<escrow, db, flops>>
  PROVE  AccountsInOrder' /\ RowsTrail'
BY DEF AccountsInOrder, RowsTrail

(* A call moves, and sends a transaction or not.                           *)
LEMMA CallMoves ==
  ASSUME CallsBacked, NetKnown, NEW c \in Calls, NEW k,
         call' = [call EXCEPT ![c] = k], UNCHANGED <<escrow, flops>>,
         Backed(k, escrow[k.job], k.job \in flops),
         \A t \in net' : t.call = c \/ t \in net,
         \A t \in net' : t.call = c => Sent(t, k)
  PROVE  CallsBacked' /\ NetKnown'
<1>1. call'[c] = k /\ DOMAIN call' = Calls
  BY DEF CallsBacked
<1>2. \A d \in Calls \ {c} : call'[d] = call[d]
  BY DEF CallsBacked
<1>3. \A d \in Calls : Backed(call'[d], escrow[call'[d].job], call'[d].job \in flops)
  BY <1>1, <1>2 DEF CallsBacked
<1>4. CallsBacked'
  BY <1>1, <1>3 DEF CallsBacked
<1>5. ASSUME NEW t \in net' PROVE t.call \in Calls /\ Sent(t, call'[t.call])
  BY <1>1, <1>2 DEF NetKnown
<1> QED
  BY <1>4, <1>5 DEF NetKnown

(* A call goes from one point of its handler to another, or to its end.    *)
Going(old, k) ==
  /\ old.pc \notin {"idle", "ended"} /\ k.pc # "idle"
  /\ k.job = old.job /\ k.op = old.op
  /\ k.pc # "ended" => k.hire = old.hire /\ k.wallet = old.wallet

LEMMA CallGoes ==
  ASSUME Inv, NEW c \in Calls, NEW k,
         call' = [call EXCEPT ![c] = k], UNCHANGED <<escrow, db, flops, net>>,
         Backed(k, escrow[k.job], k.job \in flops), Going(call[c], k)
  PROVE  Inv'
<1>1. \A t \in net' : t.call = c => Sent(t, k)
  BY DEF Inv, NetKnown, Sent, Going
<1>2. \A t \in net' : t \in net
  OBVIOUS
<1>3. CallsBacked' /\ NetKnown'
  BY <1>1, <1>2, CallMoves DEF Inv
<1> QED
  BY <1>3, RowsStay DEF Inv

(* The record a handler leaves when it is through.                         *)
EndedCall(k) == [NoCall EXCEPT !.pc = "ended", !.op = k.op, !.job = k.job]

LEMMA Ending ==
  ASSUME Inv, NEW c \in Calls, call[c].pc \notin {"idle", "ended"}, End(c),
         UNCHANGED <<escrow, db, flops, net>>
  PROVE  Inv'
<1> DEFINE k == EndedCall(call[c])
<1>1. call' = [call EXCEPT ![c] = k]
  BY DEF End, EndedCall
<1>2. /\ DOMAIN k = CallFields /\ k.pc = "ended"
      /\ k.op = call[c].op /\ k.job = call[c].job
  BY DEF EndedCall, NoCall, CallFields
<1>3. call[c].job \in Jobs
  BY DEF Inv, CallsBacked, Backed
<1> HIDE DEF k
<1>4. Backed(k, escrow[k.job], k.job \in flops) /\ Going(call[c], k)
  BY <1>2, <1>3 DEF Backed, Going, Through
<1> QED
  BY <1>1, <1>4, CallGoes

-----------------------------------------------------------------------------
(* The steps of a handler *)

LEMMA RequestStep ==
  ASSUME Inv, NEW c \in Calls, NEW op, NEW j \in Jobs, NEW w, NEW m, NEW f,
         Request(c, op, j, w, m, f)
  PROVE  Inv'
<1> DEFINE k == [NoCall EXCEPT !.pc = "check", !.op = op, !.job = j, !.mode = m,
                               !.wallet = w, !.hire = f]
<1>1. /\ call[c].pc = "idle" /\ (op = "Lock" => f # NoKey)
      /\ (op = "Confirm" => m = "client")
      /\ call' = [call EXCEPT ![c] = k]
      /\ UNCHANGED <<escrow, db, flops, net>>
  BY DEF Request, chain
<1>2. /\ DOMAIN k = CallFields /\ k.pc = "check" /\ k.outcome = "none"
      /\ k.op = op /\ k.job = j /\ k.hire = f /\ k.mode = m
  BY DEF NoCall, CallFields
<1> HIDE DEF k
<1>3. Backed(k, escrow[k.job], k.job \in flops)
  BY <1>1, <1>2 DEF Backed, Through
<1>4. \A t \in net' : t \in net /\ t.call # c
  BY <1>1 DEF Inv, NetKnown, Sent
<1>5. CallsBacked' /\ NetKnown'
  BY <1>1, <1>3, <1>4, CallMoves DEF Inv
<1> QED
  BY <1>1, <1>5, RowsStay DEF Inv

LEMMA CheckStep == ASSUME Inv, NEW c \in Calls, Check(c) PROVE Inv'
<1>1. call[c].pc = "check" /\ UNCHANGED <<escrow, db, flops, net>>
  BY DEF Check, chain
<1>2. CASE End(c)
  BY <1>1, <1>2, Ending
<1>3. ASSUME NEW seen, Allowed(call[c].op, call[c].job, seen), NEW read,
             call' = [call EXCEPT ![c].pc = "send", ![c].seen = read]
      PROVE  Inv'
  <2> DEFINE k == [call[c] EXCEPT !.pc = "send", !.seen = read]
  <2>1. Backed(call[c], escrow[call[c].job], call[c].job \in flops)
    BY DEF Inv, CallsBacked
  <2>2. call[c].op \in Six
    BY <1>3 DEF Allowed, Six
  <2>3. /\ DOMAIN k = CallFields /\ k.pc = "send" /\ k.op = call[c].op /\ k.job = call[c].job
        /\ k.hire = call[c].hire /\ k.wallet = call[c].wallet /\ k.outcome = call[c].outcome
        /\ k.mode = call[c].mode
    BY <2>1 DEF Backed, CallFields
  <2>4. call' = [call EXCEPT ![c] = k]
    BY <1>3
  <2> HIDE DEF k
  <2>5. Backed(k, escrow[k.job], k.job \in flops) /\ Going(call[c], k)
    BY <1>1, <2>1, <2>2, <2>3 DEF Backed, Going, Through
  <2> QED BY <1>1, <2>4, <2>5, CallGoes
<1>4. PICK seen \in Readings(call[c].job) :
        IF Allowed(call[c].op, call[c].job, seen)
        THEN call' = [call EXCEPT ![c].pc = "send", ![c].seen =
               IF call[c].op \in {"Lock", "Refund"} THEN seen ELSE Known(call[c].job, seen)]
        ELSE End(c)
  BY DEF Check
<1> QED
  BY <1>2, <1>3, <1>4

(* A call whose program counter moves keeps the rest of its record.        *)
LEMMA Turning ==
  ASSUME Inv, NEW c \in Calls, NEW pc, call[c].pc \notin {"idle", "ended"}, pc # "idle",
         pc # "ended",
         Goto(c, pc), UNCHANGED <<escrow, db, flops, net>>,
         Backed([call[c] EXCEPT !.pc = pc], escrow[call[c].job], call[c].job \in flops)
  PROVE  Inv'
<1> DEFINE k == [call[c] EXCEPT !.pc = pc]
<1>1. call' = [call EXCEPT ![c] = k]
  BY DEF Goto
<1>2. DOMAIN call[c] = CallFields
  BY DEF Inv, CallsBacked, Backed
<1>3. /\ k.pc = pc
      /\ k.job = call[c].job /\ k.op = call[c].op /\ k.hire = call[c].hire /\ k.wallet = call[c].wallet
  BY <1>2 DEF CallFields
<1>4. Backed(k, escrow[k.job], k.job \in flops)
  BY <1>3
<1> HIDE DEF k
<1>5. Going(call[c], k)
  BY <1>3 DEF Going
<1> QED
  BY <1>1, <1>4, <1>5, CallGoes

LEMMA VerifyStep == ASSUME Inv, NEW c \in Calls, Verify(c) PROVE Inv'
<1> DEFINE k == [call[c] EXCEPT !.pc = "confirm"]
<1>1. /\ call[c].pc = "check" /\ call[c].op = "Confirm"
      /\ UNCHANGED <<escrow, db, flops, net>>
  BY DEF Verify, chain
<1>2. CASE End(c)
  BY <1>1, <1>2, Ending
<1>3. CASE Goto(c, "confirm")
  <2>1. Backed(call[c], escrow[call[c].job], call[c].job \in flops)
    BY DEF Inv, CallsBacked
  <2>2. /\ DOMAIN k = CallFields /\ k.pc = "confirm" /\ k.op = "Confirm"
        /\ k.job = call[c].job /\ k.mode = call[c].mode
    BY <1>1, <2>1 DEF Backed, CallFields
  <2> HIDE DEF k
  <2>3. Backed(k, escrow[k.job], k.job \in flops)
    BY <1>1, <2>1, <2>2 DEF Backed, Through, Seven
  <2>4. Backed(k, escrow[call[c].job], call[c].job \in flops)
    BY <2>2, <2>3
  <2> QED BY <1>1, <1>3, <2>4, Turning DEF k
<1> QED
  BY <1>2, <1>3 DEF Verify

LEMMA SendStep == ASSUME Inv, NEW c \in Calls, Send(c) PROVE Inv'
<1>1. call[c].pc = "send" /\ UNCHANGED <<escrow, db, flops>>
  BY DEF Send, chain
<1>2. CASE net' = net /\ End(c)
  BY <1>1, <1>2, Ending
<1>3. CASE net' = net \cup {Tx(c)} /\ Goto(c, "wait")
  <2> DEFINE k == [call[c] EXCEPT !.pc = "wait"]
  <2>1. Backed(call[c], escrow[call[c].job], call[c].job \in flops)
    BY DEF Inv, CallsBacked
  <2>2. /\ DOMAIN k = CallFields /\ k.pc = "wait" /\ k.op = call[c].op /\ k.job = call[c].job
        /\ k.hire = call[c].hire /\ k.wallet = call[c].wallet /\ k.outcome = call[c].outcome
        /\ k.mode = call[c].mode
    BY <2>1 DEF Backed, CallFields
  <2>3. call' = [call EXCEPT ![c] = k]
    BY <1>3 DEF Goto
  <2> HIDE DEF k
  <2>4. call[c].outcome = "none"
    BY <1>1, <2>1 DEF Backed
  <2>5. Backed(k, escrow[k.job], k.job \in flops)
    BY <1>1, <2>1, <2>2, <2>4 DEF Backed, Through
  <2>6. Tx(c).call = c /\ Sent(Tx(c), k)
    BY <1>1, <2>1, <2>2 DEF Tx, Sent, Backed
  <2>7. \A t \in net' : t.call = c => Sent(t, k)
    BY <1>1, <1>3, <2>2, <2>6 DEF Inv, NetKnown, Sent
  <2>8. \A t \in net' : t.call = c \/ t \in net
    BY <1>3, <2>6
  <2>9. CallsBacked' /\ NetKnown'
    BY <1>1, <2>3, <2>5, <2>7, <2>8, CallMoves DEF Inv
  <2> QED BY <1>1, <2>9, RowsStay DEF Inv
<1> QED
  BY <1>2, <1>3 DEF Send

LEMMA SettledStep == ASSUME Inv, NEW c \in Calls, Settled(c) PROVE Inv'
<1> DEFINE mode == call[c].mode
           k == [call[c] EXCEPT !.pc = IF mode = "server" THEN "record" ELSE "confirm"]
<1>1. call[c].pc = "wait" /\ UNCHANGED <<escrow, db, flops, net>>
  BY DEF Settled, chain
<1>2. CASE End(c)
  BY <1>1, <1>2, Ending
<1>3. CASE GoesOn(mode, call[c].outcome)
           /\ Goto(c, IF mode = "server" THEN "record" ELSE "confirm")
  <2>1. Backed(call[c], escrow[call[c].job], call[c].job \in flops)
    BY DEF Inv, CallsBacked
  <2>2. /\ DOMAIN k = CallFields /\ k.pc = (IF mode = "server" THEN "record" ELSE "confirm")
        /\ k.op = call[c].op /\ k.job = call[c].job
        /\ k.hire = call[c].hire /\ k.wallet = call[c].wallet /\ k.mode = mode
    BY <2>1 DEF Backed, CallFields
  <2>3. call' = [call EXCEPT ![c] = k]
    BY <1>3 DEF Goto
  <2>4. call[c].outcome = "ok" \/ call[c].outcome = "failed"
    BY <1>3 DEF GoesOn
  <2>5. call[c].op \in Seven /\ call[c].op # "Confirm" /\ k.mode = call[c].mode
    BY <1>1, <2>1, <2>2 DEF Backed, Six, Seven
  <2> HIDE DEF k, mode
  <2>6. Backed(k, escrow[k.job], k.job \in flops) /\ Going(call[c], k)
    BY <1>1, <2>1, <2>2, <2>4, <2>5 DEF Backed, Going, Through
  <2> QED BY <1>1, <2>3, <2>6, CallGoes
<1> QED
  BY <1>2, <1>3 DEF Settled

LEMMA LoseTouchStep == ASSUME Inv, NEW c \in Calls, LoseTouch(c) PROVE Inv'
<1> DEFINE k == [NoCall EXCEPT !.pc = "ended", !.op = call[c].op, !.job = call[c].job,
                               !.outcome = "lost"]
<1>1. /\ call[c].pc = "wait" /\ UNCHANGED <<escrow, db, flops, net>>
      /\ call' = [call EXCEPT ![c] = k]
  BY DEF LoseTouch, chain
<1>2. /\ DOMAIN k = CallFields /\ k.pc = "ended"
      /\ k.op = call[c].op /\ k.job = call[c].job
  BY DEF NoCall, CallFields
<1>3. call[c].job \in Jobs
  BY <1>1 DEF Inv, CallsBacked, Backed
<1> HIDE DEF k
<1>4. Backed(k, escrow[k.job], k.job \in flops) /\ Going(call[c], k)
  BY <1>1, <1>2, <1>3 DEF Backed, Going, Through
<1> QED
  BY <1>1, <1>4, CallGoes

LEMMA RereadStep == ASSUME Inv, NEW c \in Calls, Reread(c) PROVE Inv'
<1>1. call[c].pc = "confirm" /\ UNCHANGED <<escrow, db, flops, net>>
  BY DEF Reread, chain
<1>2. PICK seen \in Readings(call[c].job) :
        call' = [call EXCEPT ![c].pc = "record", ![c].seen = seen]
  BY DEF Reread
<1> DEFINE k == [call[c] EXCEPT !.pc = "record", !.seen = seen]
<1>3. Backed(call[c], escrow[call[c].job], call[c].job \in flops)
  BY DEF Inv, CallsBacked
<1>4. /\ DOMAIN k = CallFields /\ k.pc = "record" /\ k.op = call[c].op /\ k.job = call[c].job
      /\ k.hire = call[c].hire /\ k.wallet = call[c].wallet /\ k.seen = seen
      /\ k.mode = call[c].mode
  BY <1>3 DEF Backed, CallFields
<1>5. call' = [call EXCEPT ![c] = k]
  BY <1>2
<1>6. k.job \in Jobs /\ Account(escrow[k.job])
  BY <1>1, <1>3, <1>4 DEF Backed, Inv, AccountsInOrder
<1> HIDE DEF k
<1>7. seen = NoEscrow \/ seen = escrow[k.job]
  BY <1>2, <1>4 DEF Readings
<1>8. Reported(seen, escrow[k.job])
  BY <1>6, <1>7 DEF Reported, Follows
<1>9. Backed(k, escrow[k.job], k.job \in flops) /\ Going(call[c], k)
  BY <1>1, <1>3, <1>4, <1>8 DEF Backed, Going, Through
<1> QED
  BY <1>1, <1>5, <1>9, CallGoes

LEMMA ReadRowStep == ASSUME Inv, NEW c \in Calls, ReadRow(c) PROVE Inv'
<1>1. /\ call[c].pc = "record" /\ call[c].op = "TopUp" /\ call[c].mode = "server"
      /\ UNCHANGED <<escrow, db, flops, net>>
  BY DEF ReadRow, chain
<1>2. CASE End(c)
  BY <1>1, <1>2, Ending
<1>3. CASE call' = [call EXCEPT ![c].pc = "save", ![c].seen.amount = db[call[c].job].amount]
  <2> DEFINE read == [call[c].seen EXCEPT !.amount = db[call[c].job].amount]
             k == [call[c] EXCEPT !.pc = "save", !.seen = read]
  <2>1. Backed(call[c], escrow[call[c].job], call[c].job \in flops)
    BY DEF Inv, CallsBacked
  <2>2. call' = [call EXCEPT ![c] = k]
    BY <1>3
  <2> HIDE DEF read
  <2>3. /\ DOMAIN k = CallFields /\ k.pc = "save" /\ k.op = call[c].op /\ k.job = call[c].job
        /\ k.hire = call[c].hire /\ k.wallet = call[c].wallet /\ k.mode = call[c].mode
    BY <2>1 DEF Backed, CallFields
  <2> HIDE DEF k
  <2>4. Backed(k, escrow[k.job], k.job \in flops) /\ Going(call[c], k)
    BY <1>1, <2>1, <2>3 DEF Backed, Going, Through, Six, Seven
  <2> QED BY <1>1, <2>2, <2>4, CallGoes
<1> QED
  BY <1>2, <1>3 DEF ReadRow

LEMMA TellStep == ASSUME Inv, NEW c \in Calls, Tell(c) PROVE Inv'
<1>1. call[c].pc = "tell" /\ End(c) /\ UNCHANGED <<escrow, db, flops, net>>
  BY DEF Tell, chain
<1> QED
  BY <1>1, Ending

LEMMA CrashStep == ASSUME Inv, NEW c \in Calls, Crash(c) PROVE Inv'
<1>1. call[c].pc \notin {"idle", "ended"} /\ UNCHANGED <<escrow, db, flops, net>>
  BY DEF Crash, Handled, chain
<1>2. Backed(call[c], escrow[call[c].job], call[c].job \in flops)
  BY DEF Inv, CallsBacked
<1>3. CASE call' = [call EXCEPT ![c].pc = "check", ![c].seen = NoEscrow,
                                ![c].outcome = "none", ![c].tries = @ + 1]
  <2> DEFINE k == [call[c] EXCEPT !.pc = "check", !.seen = NoEscrow, !.outcome = "none",
                                  !.tries = @ + 1]
  <2>1. call' = [call EXCEPT ![c] = k]
    BY <1>3
  <2>2. /\ DOMAIN k = CallFields /\ k.pc = "check" /\ k.op = call[c].op /\ k.job = call[c].job
        /\ k.hire = call[c].hire /\ k.wallet = call[c].wallet /\ k.outcome = "none"
        /\ k.mode = call[c].mode
    BY <1>2 DEF Backed, CallFields
  <2> HIDE DEF k
  <2>3. Backed(k, escrow[k.job], k.job \in flops) /\ Going(call[c], k)
    BY <1>1, <1>2, <2>2 DEF Backed, Going, Through
  <2> QED BY <1>1, <2>1, <2>3, CallGoes
<1>4. CASE call[c].pc \in {"confirm", "record", "tell"} /\ Goto(c, "confirm")
  <2> DEFINE k == [call[c] EXCEPT !.pc = "confirm"]
  <2>1. call' = [call EXCEPT ![c] = k]
    BY <1>4 DEF Goto
  <2>2. /\ DOMAIN k = CallFields /\ k.pc = "confirm" /\ k.op = call[c].op /\ k.job = call[c].job
        /\ k.hire = call[c].hire /\ k.wallet = call[c].wallet /\ k.mode = call[c].mode
    BY <1>2 DEF Backed, CallFields
  <2> HIDE DEF k
  <2>3. Backed(k, escrow[k.job], k.job \in flops) /\ Going(call[c], k)
    BY <1>1, <1>2, <1>4, <2>2 DEF Backed, Going, Through
  <2> QED BY <1>1, <2>1, <2>3, CallGoes
<1>5. CASE End(c)
  BY <1>1, <1>5, Ending
<1> QED
  BY <1>3, <1>4, <1>5 DEF Crash

(* The row a handler writes claims no more than what its transaction and   *)
(* the reading after it have shown.                                        *)
LEMMA RowWritten ==
  ASSUME NEW k, NEW e, NEW row, NEW bad \in BOOLEAN, Backed(k, e, bad), Account(e),
         \/ k.pc = "record" /\ ~(k.op = "TopUp" /\ k.mode = "server")
         \/ k.pc = "save",
         DOMAIN row = RowFields, ~bad => Trails(row, e),
         NEW new, new = (IF k.mode = "server" THEN SignedRow(k, row) ELSE ConfirmedRow(k, row))
  PROVE  DOMAIN new = RowFields /\ (~bad => Trails(new, e))
<1>1. /\ k.mode = "server" => k.op \in Six
      /\ k.op = "Confirm" \/ bad \/ Accomplished(k.op, k.hire, e)
  BY DEF Backed, Through, Seven
<1>2. CASE k.mode # "server"
  <2>1. new = ConfirmedRow(k, row) /\ (bad \/ Reported(k.seen, e))
    BY <1>2 DEF Backed
  <2>2. /\ DOMAIN new = RowFields /\ new.status = ConfirmedStatus(k.seen)
        /\ new.freelancer = NoKey
    BY <2>1 DEF ConfirmedRow, RowFields
  <2>3. ~bad => Trails(new, e)
    BY <1>1, <2>1, <2>2
       DEF ConfirmedStatus, Reported, Account, Follows, Trails, Accomplished
  <2> QED BY <2>2, <2>3
<1>3. CASE k.mode = "server" /\ k.op = "Fund"
  <2>1. new = FundedRow(k.wallet)
    BY <1>3 DEF SignedRow
  <2> QED BY <1>1, <2>1 DEF FundedRow, RowFields, Trails, Accomplished
<1>4. CASE k.mode = "server" /\ k.op \in {"TopUp", "Withdraw", "Release"}
  <2>1. \/ new = row
        \/ new = [row EXCEPT !.amount = k.seen.amount + Deposit]
        \/ k.op = "Withdraw" /\ new = [row EXCEPT !.status = "Refunded"]
        \/ k.op = "Release" /\ new = [row EXCEPT !.status = "Released"]
    BY <1>4 DEF SignedRow, ToppedUpRow, WithdrawnRow, ReleasedRow, Updated
  <2> QED BY <1>1, <2>1 DEF RowFields, Trails, Accomplished
<1>5. CASE k.mode = "server" /\ k.op = "Lock"
  <2>1. new = LockedRow(k.seen, k.hire) /\ k.hire # NoKey
    BY <1>5 DEF SignedRow, Backed
  <2> QED BY <1>1, <1>5, <2>1 DEF LockedRow, RowFields, Trails, Accomplished
<1>6. CASE k.mode = "server" /\ k.op = "Refund"
  <2>1. new = RefundedRow(row, k.seen)
    BY <1>6 DEF SignedRow
  <2> QED BY <1>1, <1>6, <2>1 DEF RefundedRow, RowFields, Trails, Accomplished
<1> QED
  BY <1>1, <1>2, <1>3, <1>4, <1>5, <1>6 DEF Six

LEMMA RecordStep == ASSUME Inv, NEW c \in Calls, Record(c) PROVE Inv'
<1> DEFINE j == call[c].job
           new == IF call[c].mode = "server" THEN SignedRow(call[c], db[j])
                  ELSE ConfirmedRow(call[c], db[j])
           k == [call[c] EXCEPT !.pc = "tell"]
<1>1. /\ \/ call[c].pc = "record" /\ ~(call[c].op = "TopUp" /\ call[c].mode = "server")
         \/ call[c].pc = "save"
      /\ db' = [db EXCEPT ![j] = new]
      /\ call' = [call EXCEPT ![c] = k]
      /\ UNCHANGED <<escrow, flops, net>>
  BY DEF Record, Goto, chain
<1>2. Backed(call[c], escrow[j], j \in flops) /\ j \in Jobs
  BY <1>1 DEF Inv, CallsBacked, Backed
<1>3. /\ DOMAIN k = CallFields /\ k.pc = "tell" /\ k.op = call[c].op /\ k.job = j
      /\ k.hire = call[c].hire /\ k.wallet = call[c].wallet /\ k.mode = call[c].mode
  BY <1>2 DEF Backed, CallFields
<1>4. PICK bad \in BOOLEAN : bad <=> j \in flops
  OBVIOUS
<1>5. DOMAIN db[j] = RowFields /\ (~bad => Trails(db[j], escrow[j])) /\ Account(escrow[j])
  BY <1>2, <1>4 DEF Inv, RowsTrail, AccountsInOrder
<1>6. Backed(call[c], escrow[j], bad)
  BY <1>2, <1>4 DEF Backed
<1>7. DOMAIN new = RowFields /\ (~bad => Trails(new, escrow[j]))
  BY <1>1, <1>5, <1>6, RowWritten
<1> HIDE DEF k, new, j
<1>8. RowsTrail'
  BY <1>1, <1>2, <1>4, <1>7 DEF Inv, RowsTrail
<1>9. Backed(k, escrow[k.job], k.job \in flops) /\ Going(call[c], k)
  BY <1>1, <1>2, <1>3 DEF Backed, Going, Through, j
<1>10. \A t \in net' : t.call = c => Sent(t, k)
  BY <1>1, <1>9 DEF Inv, NetKnown, Sent, Going
<1>11. CallsBacked' /\ NetKnown'
  BY <1>1, <1>9, <1>10, CallMoves DEF Inv
<1> QED
  BY <1>1, <1>8, <1>11 DEF Inv, AccountsInOrder

-----------------------------------------------------------------------------
(* The network's steps *)

(* Whatever the node reports of a transaction is so.                       *)
LEMMA ConfirmStep ==
  ASSUME Inv, NEW t \in net, NEW outcome \in {"ok", "failed", "expired"},
         AccountsInOrder', \A j \in Jobs : Follows(escrow[j], escrow'[j]),
         flops \subseteq flops', db' = db, net' \subseteq net, Report(t, outcome),
         outcome = "ok" => Accomplished(t.op, t.payee, escrow'[t.job]),
         outcome = "failed" => t.job \in flops'
  PROVE  Inv'
<1> DEFINE c == t.call
           k == [call[c] EXCEPT !.outcome = outcome]
<1>1. c \in Calls /\ Sent(t, call[c])
  BY DEF Inv, NetKnown
<1>2. ASSUME NEW d \in Calls, call'[d] = call[d]
      PROVE  Backed(call'[d], escrow'[call'[d].job], call'[d].job \in flops')
  <2>1. PICK r : r = call[d]
    OBVIOUS
  <2>2. Backed(r, escrow[r.job], r.job \in flops)
    BY <2>1 DEF Inv, CallsBacked
  <2>3. CASE r.pc = "idle"
    BY <1>2, <2>1, <2>2, <2>3 DEF Backed, Through
  <2>4. CASE r.pc # "idle"
    <3>1. r.job \in Jobs
      BY <2>2, <2>4 DEF Backed
    <3>2. PICK bad \in BOOLEAN : bad <=> r.job \in flops
      OBVIOUS
    <3>3. PICK worse \in BOOLEAN : worse <=> r.job \in flops'
      OBVIOUS
    <3>4. Follows(escrow[r.job], escrow'[r.job]) /\ (bad => worse)
          /\ Backed(r, escrow[r.job], bad)
      BY <2>2, <3>1, <3>2, <3>3 DEF Backed
    <3>5. Backed(r, escrow'[r.job], worse)
      BY <3>4, StaysBacked
    <3> QED BY <1>2, <2>1, <3>3, <3>5 DEF Backed
  <2> QED BY <2>3, <2>4
<1>3. CASE call' = call
  <2>1. CallsBacked'
    BY <1>2, <1>3 DEF Inv, CallsBacked
  <2>2. NetKnown'
    BY <1>3 DEF Inv, NetKnown
  <2>3. RowsTrail'
    BY StillTrails DEF Inv, RowsTrail
  <2> QED BY <2>1, <2>2, <2>3 DEF Inv
<1>4. CASE call[c].pc = "wait" /\ call' = [call EXCEPT ![c] = k]
  <2>1. Backed(call[c], escrow[call[c].job], call[c].job \in flops) /\ DOMAIN call = Calls
    BY <1>1 DEF Inv, CallsBacked
  <2>2. /\ DOMAIN k = CallFields /\ k.pc = "wait" /\ k.outcome = outcome
        /\ k.op = call[c].op /\ k.job = call[c].job /\ k.hire = call[c].hire
        /\ k.mode = call[c].mode
    BY <1>4, <2>1 DEF Backed, CallFields
  <2>3. /\ t.job = k.job /\ t.op = k.op
        /\ (t.op = "Lock" => t.payee = k.hire)
    BY <1>1, <1>4, <2>2 DEF Sent
  <2>4. call'[c] = k /\ DOMAIN call' = Calls /\ \A d \in Calls \ {c} : call'[d] = call[d]
    BY <1>1, <1>4, <2>1
  <2> HIDE DEF k
  <2>5. outcome = "ok" => Accomplished(k.op, k.hire, escrow'[k.job])
    BY <2>3 DEF Accomplished
  <2>6. Backed(k, escrow'[k.job], k.job \in flops')
    BY <1>4, <2>1, <2>2, <2>3, <2>5 DEF Backed, Through
  <2>7. CallsBacked'
    BY <1>2, <2>4, <2>6 DEF CallsBacked
  <2>8. \A s \in net : Sent(s, call[s.call]) => Sent(s, call'[s.call])
    <3> TAKE s \in net
    <3>1. CASE s.call = c
      BY <1>4, <2>2, <2>4, <3>1 DEF Sent
    <3>2. CASE s.call # c
      BY <2>4, <3>2 DEF Inv, NetKnown
    <3> QED BY <3>1, <3>2
  <2>9. NetKnown'
    BY <2>8 DEF Inv, NetKnown
  <2>10. RowsTrail'
    BY StillTrails DEF Inv, RowsTrail
  <2> QED BY <2>7, <2>9, <2>10 DEF Inv
<1> QED
  BY <1>3, <1>4 DEF Report

LEMMA LandStep == ASSUME Inv, NEW t \in net, Land(t) PROVE Inv'
<1>1. /\ Submit(t) /\ net' \subseteq net /\ Report(t, "ok") /\ db' = db /\ flops' = flops
  BY DEF Land
<1>2. Sent(t, call[t.call]) /\ t.call \in Calls /\ AccountsInOrder
  BY DEF Inv, NetKnown
<1>3. t.job \in Jobs /\ (t.op = "Lock" => t.payee # NoKey)
  BY <1>2 DEF Inv, CallsBacked, Backed, Sent
<1>4. /\ AccountsInOrder'
      /\ \A j \in Jobs : Follows(escrow[j], escrow'[j])
      /\ Accomplished(t.op, t.payee, escrow'[t.job])
  BY <1>1, <1>2, <1>3, Submitted
<1> QED
  BY <1>1, <1>4, ConfirmStep

LEMMA FailedStep == ASSUME Inv, NEW t \in net, Flop(t) \/ Expire(t) PROVE Inv'
<1>1. escrow' = escrow /\ db' = db /\ net' \subseteq net /\ flops \subseteq flops'
  BY DEF Flop, Expire, chain
<1>2. AccountsInOrder' /\ \A j \in Jobs : Follows(escrow[j], escrow'[j])
  BY <1>1 DEF Inv, AccountsInOrder, Follows
<1>3. CASE Flop(t)
  <2>1. Report(t, "failed") /\ t.job \in flops'
    BY <1>3 DEF Flop
  <2> QED BY <1>1, <1>2, <2>1, ConfirmStep
<1>4. CASE Expire(t)
  <2>1. Report(t, "expired")
    BY <1>4 DEF Expire
  <2> QED BY <1>1, <1>2, <2>1, ConfirmStep
<1> QED
  BY <1>3, <1>4

-----------------------------------------------------------------------------

LEMMA Initially == Init => Inv
<1> SUFFICES ASSUME Init PROVE Inv
  OBVIOUS
<1>1. /\ escrow = [j \in Jobs |-> Chain!NoEscrow] /\ db = [j \in Jobs |-> NoRow]
      /\ call = [c \in Calls |-> NoCall] /\ net = {}
  BY DEF Init, Chain!Init
<1>2. Account(Chain!NoEscrow)
  BY DEF Chain!NoEscrow, Account, AccountFields
<1>3. Backed(NoCall, escrow[NoCall.job], NoCall.job \in flops)
  BY DEF NoCall, Backed, CallFields, Through
<1>4. \A e : DOMAIN NoRow = RowFields /\ Trails(NoRow, e)
  BY DEF NoRow, RowFields, Trails
<1>5. AccountsInOrder /\ NetKnown /\ RowsTrail
  BY <1>1, <1>2, <1>4 DEF AccountsInOrder, NetKnown, RowsTrail
<1>6. CallsBacked
  BY <1>1, <1>3 DEF CallsBacked
<1> QED
  BY <1>5, <1>6 DEF Inv

LEMMA Stepwise == Inv /\ [Next]_vars => Inv'
<1> SUFFICES ASSUME Inv, [Next]_vars PROVE Inv'
  OBVIOUS
<1>1. ASSUME NEW c \in Calls, NEW op \in Ops, NEW j \in Jobs, NEW w \in Clients, NEW m \in Modes,
             NEW f \in Freelancers \cup {NoKey}, Request(c, op, j, w, m, f)
      PROVE  Inv'
  BY <1>1, RequestStep
<1>2. ASSUME NEW c \in Calls, Handle(c) PROVE Inv'
  BY <1>2, CheckStep, VerifyStep, SendStep, SettledStep, RereadStep, ReadRowStep, RecordStep,
     TellStep
     DEF Handle
<1>3. ASSUME NEW t \in net, Confirm(t) PROVE Inv'
  BY <1>3, LandStep, FailedStep DEF Confirm
<1>4. ASSUME NEW c \in Calls, LoseTouch(c) PROVE Inv'
  BY <1>4, LoseTouchStep
<1>5. ASSUME NEW c \in Calls, Crash(c) PROVE Inv'
  BY <1>5, CrashStep
<1>6. ASSUME UNCHANGED <<escrow, db, call, net, flops>> PROVE Inv'
  BY <1>6 DEF Inv, AccountsInOrder, CallsBacked, NetKnown, RowsTrail
<1>7. ASSUME NEW w, NEW n, WithdrawFees(w, n) PROVE Inv'
  BY <1>6, <1>7 DEF WithdrawFees, Chain!WithdrawFees
<1>8. CASE UNCHANGED vars
  BY <1>6, <1>8 DEF vars, chain
<1> QED
  BY <1>1, <1>2, <1>3, <1>4, <1>5, <1>7, <1>8 DEF Next

(* Every call that is past its transaction has its result, every           *)
(* transaction is what its call asked for and no row runs ahead: the       *)
(* inductive invariant behind the next theorems.                           *)
THEOREM CallsBackedAlways == Spec => []Inv
<1> QED
  BY Initially, Stepwise, PTL DEF Spec

(* Money was put in escrow for the job, or a confirmation that stood alone *)
(* made as if it were.                                                     *)
PaidFor(j) == escrow[j].status # "None" \/ j \in strays

Paid ==
  /\ \A c \in Calls : call[c].op = "Confirm" /\ call[c].pc = "record" => PaidFor(call[c].job)
  /\ \A j \in Jobs \ flops : db[j].status = "Funded" => PaidFor(j)

(* What was paid for stays paid for.                                       *)
LEMMA PaidStays ==
  ASSUME Inv, Paid, strays \subseteq strays', flops \subseteq flops', db' = db,
         \A j \in Jobs : escrow[j].status # "None" => escrow'[j].status # "None",
         \A c \in Calls : call'[c].op = "Confirm" /\ call'[c].pc = "record" =>
           \/ call'[c].job \in Jobs /\ PaidFor(call'[c].job)
           \/ call'[c].job \in strays'
  PROVE  Paid'
BY DEF Paid, PaidFor

LEMMA PaidSame ==
  ASSUME Inv, Paid, UNCHANGED <<escrow, db>>, strays' = strays, flops \subseteq flops',
         \A c \in Calls : call'[c].op = "Confirm" /\ call'[c].pc = "record" => call'[c] = call[c]
  PROVE  Paid'
BY DEF Paid, PaidFor

LEMMA PaidReread ==
  ASSUME Inv, Paid, NEW c \in Calls, Reread(c)
  PROVE  Paid'
<1> DEFINE j == call[c].job
<1>1. /\ UNCHANGED <<escrow, db, flops>> /\ strays \subseteq strays'
      /\ escrow[j].status # "None" \/ j \in strays'
  BY DEF Reread, Owns, chain
<1>2. PICK seen : call' = [call EXCEPT ![c].pc = "record", ![c].seen = seen]
  BY DEF Reread
<1>3. DOMAIN call = Calls /\ DOMAIN call[c] = CallFields
  BY DEF Inv, CallsBacked, Backed
<1>4. call'[c].job = j /\ \A d \in Calls \ {c} : call'[d] = call[d]
  BY <1>2, <1>3 DEF CallFields
<1> HIDE DEF j
<1>5. \A i : PaidFor(i) => escrow[i].status # "None" \/ i \in strays'
  BY <1>1 DEF PaidFor
<1>6. \A d \in Calls : call'[d].op = "Confirm" /\ call'[d].pc = "record" =>
        escrow[call'[d].job].status # "None" \/ call'[d].job \in strays'
  <2> TAKE d \in Calls
  <2>1. CASE d = c
    BY <1>1, <1>4, <2>1
  <2>2. CASE d # c
    BY <1>4, <1>5, <2>2 DEF Paid
  <2> QED BY <2>1, <2>2
<1> QED
  BY <1>1, <1>5, <1>6 DEF Paid, PaidFor

LEMMA PaidRecord ==
  ASSUME Inv, Paid, NEW c \in Calls, Record(c)
  PROVE  Paid'
<1> DEFINE j == call[c].job
           new == IF call[c].mode = "server" THEN SignedRow(call[c], db[j])
                  ELSE ConfirmedRow(call[c], db[j])
<1>1. /\ call[c].pc \in {"record", "save"} /\ db' = [db EXCEPT ![j] = new] /\ Goto(c, "tell")
      /\ UNCHANGED <<escrow, flops>> /\ strays' = strays
  BY DEF Record, chain
<1>2. /\ DOMAIN call = Calls /\ DOMAIN call[c] = CallFields /\ j \in Jobs
      /\ call[c].op \in Seven /\ (call[c].pc = "save" => call[c].op = "TopUp")
      /\ call[c].op = "Confirm" \/ j \in flops \/ Accomplished(call[c].op, call[c].hire, escrow[j])
  BY <1>1 DEF Inv, CallsBacked, Backed, Through
<1>3. j \in flops \/ PaidFor(j)
  BY <1>1, <1>2 DEF Paid, PaidFor, Accomplished
<1>4. DOMAIN db = Jobs
  BY DEF Inv, RowsTrail
<1>5. \A d \in Calls : call'[d].pc = "record" => call'[d] = call[d]
  BY <1>1, <1>2 DEF Goto, CallFields
<1> HIDE DEF j, new
<1>6. \A i \in Jobs \ flops : db'[i].status = "Funded" => PaidFor(i)
  BY <1>1, <1>2, <1>3, <1>4 DEF Paid
<1> QED
  BY <1>1, <1>5, <1>6 DEF Paid, PaidFor

LEMMA PaidConfirm ==
  ASSUME Inv, Paid, NEW t \in net, Confirm(t)
  PROVE  Paid'
<1>1. /\ db' = db /\ strays' = strays /\ flops \subseteq flops'
      /\ \E outcome : Report(t, outcome)
  BY DEF Confirm, Land, Flop, Expire
<1>2. DOMAIN call = Calls /\ \A c \in Calls : call[c].pc = "wait" => DOMAIN call[c] = CallFields
  BY DEF Inv, CallsBacked, Backed
<1>3. \A c \in Calls : call'[c].op = "Confirm" /\ call'[c].pc = "record" => call'[c] = call[c]
  BY <1>1, <1>2 DEF Report, CallFields
<1>4. CASE Land(t)
  <2>1. Sent(t, call[t.call]) /\ t.call \in Calls /\ AccountsInOrder /\ Submit(t)
    BY <1>4 DEF Inv, NetKnown, Land
  <2>2. t.job \in Jobs /\ (t.op = "Lock" => t.payee # NoKey)
    BY <2>1 DEF Inv, CallsBacked, Backed, Sent
  <2>3. \A j \in Jobs : escrow[j].status # "None" => escrow'[j].status # "None"
    BY <2>1, <2>2, Submitted DEF Follows
  <2>4. \A c \in Calls : call'[c].op = "Confirm" /\ call'[c].pc = "record" =>
          call'[c].job \in Jobs /\ PaidFor(call'[c].job)
    BY <1>3 DEF Inv, CallsBacked, Backed, Paid
  <2> QED BY <1>1, <2>3, <2>4, PaidStays
<1>5. CASE Flop(t) \/ Expire(t)
  BY <1>1, <1>3, <1>5, PaidSame DEF Flop, Expire, chain
<1> QED
  BY <1>4, <1>5 DEF Confirm

LEMMA PaidNext == Inv /\ Paid /\ [Next]_vars => Paid'
<1> SUFFICES ASSUME Inv, Paid, [Next]_vars PROVE Paid'
  OBVIOUS
<1>1. DOMAIN call = Calls /\ \A c \in Calls : DOMAIN call[c] = CallFields
  BY DEF Inv, CallsBacked, Backed
<1>2. ASSUME NEW c \in Calls, UNCHANGED <<escrow, db, flops>>, strays' = strays,
             NEW k, call' = [call EXCEPT ![c] = k], k.pc # "record" \/ k.op # "Confirm"
      PROVE  Paid'
  BY <1>1, <1>2, PaidSame
<1>3. ASSUME NEW c \in Calls, UNCHANGED <<escrow, db, flops>>, strays' = strays, End(c)
      PROVE  Paid'
  BY <1>2, <1>3 DEF End, NoCall
<1>4. ASSUME NEW c \in Calls, NEW pc, UNCHANGED <<escrow, db, flops>>, strays' = strays,
             pc # "record" \/ call[c].op # "Confirm", Goto(c, pc)
      PROVE  Paid'
  <2> DEFINE k == [call[c] EXCEPT !.pc = pc]
  <2>1. call' = [call EXCEPT ![c] = k]
    BY <1>4 DEF Goto
  <2>2. k.pc = pc /\ k.op = call[c].op
    BY <1>1 DEF CallFields
  <2> QED BY <1>2, <1>4, <2>1, <2>2
<1>5. ASSUME NEW c \in Calls, NEW op \in Ops, NEW j \in Jobs, NEW w \in Clients, NEW m \in Modes,
             NEW f \in Freelancers \cup {NoKey}, Request(c, op, j, w, m, f)
      PROVE  Paid'
  <2> DEFINE k == [NoCall EXCEPT !.pc = "check", !.op = op, !.job = j, !.mode = m,
                                 !.wallet = w, !.hire = f]
  <2>1. /\ call' = [call EXCEPT ![c] = k] /\ k.pc = "check"
        /\ UNCHANGED <<escrow, db, flops>> /\ strays' = strays
    BY <1>5 DEF Request, NoCall, chain
  <2> QED BY <1>2, <2>1
<1>6. ASSUME NEW c \in Calls, Check(c) PROVE Paid'
  <2>1. UNCHANGED <<escrow, db, flops>> /\ strays' = strays
    BY <1>6 DEF Check, chain
  <2>2. CASE End(c)
    BY <1>3, <2>1, <2>2
  <2>3. ASSUME NEW read, call' = [call EXCEPT ![c].pc = "send", ![c].seen = read]
        PROVE  Paid'
    <3> DEFINE k == [call[c] EXCEPT !.pc = "send", !.seen = read]
    <3>1. k.pc = "send"
      BY <1>1 DEF CallFields
    <3>2. call' = [call EXCEPT ![c] = k]
      BY <2>3
    <3> QED BY <1>2, <2>1, <3>1, <3>2
  <2> QED BY <1>6, <2>2, <2>3 DEF Check
<1>7. ASSUME NEW c \in Calls, Verify(c) PROVE Paid'
  BY <1>3, <1>4, <1>7 DEF Verify, chain
<1>8. ASSUME NEW c \in Calls, Send(c) PROVE Paid'
  BY <1>3, <1>4, <1>8 DEF Send, chain
<1>9. ASSUME NEW c \in Calls, Settled(c) PROVE Paid'
  <2>1. UNCHANGED <<escrow, db, flops>> /\ strays' = strays /\ call[c].op # "Confirm"
    BY <1>9 DEF Settled, chain, Inv, CallsBacked, Backed, Six
  <2> QED BY <1>3, <1>4, <1>9, <2>1 DEF Settled
<1>10. ASSUME NEW c \in Calls, ReadRow(c) PROVE Paid'
  <2>1. UNCHANGED <<escrow, db, flops>> /\ strays' = strays
    BY <1>10 DEF ReadRow, chain
  <2>2. CASE call' = [call EXCEPT ![c].pc = "save", ![c].seen.amount = db[call[c].job].amount]
    <3> DEFINE read == [call[c].seen EXCEPT !.amount = db[call[c].job].amount]
               k == [call[c] EXCEPT !.pc = "save", !.seen = read]
    <3>1. call' = [call EXCEPT ![c] = k]
      BY <2>2
    <3> HIDE DEF read
    <3>2. k.pc = "save"
      BY <1>1 DEF CallFields
    <3> QED BY <1>2, <2>1, <3>1, <3>2
  <2> QED BY <1>3, <1>10, <2>1, <2>2 DEF ReadRow
<1>11. ASSUME NEW c \in Calls, Tell(c) PROVE Paid'
  BY <1>3, <1>11 DEF Tell, chain
<1>12. ASSUME NEW c \in Calls, LoseTouch(c) PROVE Paid'
  <2> DEFINE k == [NoCall EXCEPT !.pc = "ended", !.op = call[c].op, !.job = call[c].job,
                                 !.outcome = "lost"]
  <2>1. /\ call' = [call EXCEPT ![c] = k] /\ k.pc = "ended"
        /\ UNCHANGED <<escrow, db, flops>> /\ strays' = strays
    BY <1>12 DEF LoseTouch, NoCall, chain
  <2> QED BY <1>2, <2>1
<1>13. ASSUME NEW c \in Calls, Crash(c) PROVE Paid'
  <2>1. UNCHANGED <<escrow, db, flops>> /\ strays' = strays
    BY <1>13 DEF Crash, chain
  <2>2. CASE call' = [call EXCEPT ![c].pc = "check", ![c].seen = NoEscrow,
                                  ![c].outcome = "none", ![c].tries = @ + 1]
    <3> DEFINE k == [call[c] EXCEPT !.pc = "check", !.seen = NoEscrow, !.outcome = "none",
                                    !.tries = @ + 1]
    <3>1. call' = [call EXCEPT ![c] = k]
      BY <2>2
    <3>2. k.pc = "check"
      BY <1>1 DEF CallFields
    <3> QED BY <1>2, <2>1, <3>1, <3>2
  <2> QED BY <1>3, <1>4, <1>13, <2>1, <2>2 DEF Crash
<1>14. ASSUME UNCHANGED <<escrow, db, call, flops>>, strays' = strays PROVE Paid'
  BY <1>14, PaidSame
<1>15. ASSUME NEW w, NEW n, WithdrawFees(w, n) PROVE Paid'
  BY <1>14, <1>15 DEF WithdrawFees, Chain!WithdrawFees
<1>16. CASE UNCHANGED vars
  BY <1>14, <1>16 DEF vars, chain
<1> QED
  BY <1>5, <1>6, <1>7, <1>8, <1>9, <1>10, <1>11, <1>12, <1>13, <1>15, <1>16,
     PaidReread, PaidRecord, PaidConfirm DEF Next, Handle

LEMMA PaidInitially == Init => Paid
<1> SUFFICES ASSUME Init PROVE Paid
  OBVIOUS
<1>1. db = [j \in Jobs |-> NoRow] /\ call = [c \in Calls |-> NoCall]
  BY DEF Init
<1> QED
  BY <1>1 DEF Paid, NoRow, NoCall

(* RecordTrailsChain: a row never claims more than the program did, but    *)
(* for a job confirmed by someone with no escrow there, which may be shown *)
(* as funded and as nothing else.                                          *)
THEOREM RecordTrails == Spec => []RecordTrailsChain
<1>1. ASSUME Inv, Paid, NEW j \in Jobs \ flops
      PROVE  CASE db[j].status = "Funded" -> escrow[j].status # "None" \/ j \in strays
               [] db[j].status = "Locked" -> escrow[j].freelancer # NoKey
               [] db[j].status \in {"Released", "Refunded"} -> escrow[j].status = db[j].status
               [] OTHER -> TRUE
  <2>1. Trails(db[j], escrow[j])
    BY <1>1 DEF Inv, RowsTrail
  <2>2. db[j].status = "Funded" => escrow[j].status # "None" \/ j \in strays
    BY <1>1 DEF Paid, PaidFor
  <2> QED BY <2>1, <2>2 DEF Trails
<1>2. Inv /\ Paid => RecordTrailsChain
  BY <1>1 DEF RecordTrailsChain
<1>3. Spec => []Paid
  BY PaidInitially, PaidNext, CallsBackedAlways, PTL DEF Spec
<1> QED
  BY <1>2, <1>3, CallsBackedAlways, PTL

(* RecordNamesPayee: the freelancer a row names is the one the program     *)
(* would pay.                                                              *)
THEOREM RecordNames == Spec => []RecordNamesPayee
<1>1. Inv => RecordNamesPayee
  BY DEF Inv, RowsTrail, Trails, RecordNamesPayee
<1> QED
  BY <1>1, CallsBackedAlways, PTL

-----------------------------------------------------------------------------
(* What the clients are charged *)

Paying == {"Fund", "TopUp"}

(* The fund and top-up calls received for a job, those of them about to    *)
(* send a transaction, and the transactions on their way.                  *)
Asked(j) == {c \in Charging : call[c].job = j}
Due(j) == {c \in Asked(j) : call[c].pc \in {"check", "send"}}
Pending(j) == {t \in net : t.job = j /\ t.op \in Paying}

(* Each crash lets at most one call send once more.                        *)
Tally(j) ==
  /\ IsFiniteSet(Asked(j)) /\ IsFiniteSet(Pending(j))
  /\ \E n \in Nat :
       /\ ledger[j].principal = Deposit * n
       /\ n + Cardinality(Pending(j)) + Cardinality(Due(j)) <= Cardinality(Asked(j)) + crashes

(* And the program opens an account only once.                             *)
Single(j) ==
  (\A c \in Asked(j) : call[c].op = "Fund") =>
    ledger[j].principal <= IF escrow[j].status = "None" THEN 0 ELSE Deposit

Counted ==
  /\ DOMAIN ledger = Jobs /\ crashes \in Nat
  /\ \A c \in Calls : call[c].pc = "idle" => call[c].op = "none"
  /\ \A j \in Jobs : Tally(j) /\ Single(j)

LEMMA OneMore ==
  ASSUME NEW S, IsFiniteSet(S), NEW x, NEW T, T \subseteq S \cup {x}
  PROVE  IsFiniteSet(T) /\ Cardinality(T) <= Cardinality(S) + 1
<1>1. Cardinality(S) \in Nat
  BY FS_CardinalityType
<1>2. /\ IsFiniteSet(S \cup {x})
      /\ \/ Cardinality(S \cup {x}) = Cardinality(S)
         \/ Cardinality(S \cup {x}) = Cardinality(S) + 1
  BY FS_AddElement
<1>3. IsFiniteSet(T) /\ Cardinality(T) <= Cardinality(S \cup {x})
  BY <1>2, FS_Subset
<1>4. Cardinality(T) \in Nat
  BY <1>3, FS_CardinalityType
<1> QED
  BY <1>1, <1>2, <1>3, <1>4

LEMMA OneLess ==
  ASSUME NEW S, IsFiniteSet(S), NEW x \in S, NEW T, T \subseteq S \ {x}
  PROVE  IsFiniteSet(T) /\ Cardinality(T) <= Cardinality(S) - 1
<1>1. Cardinality(S) \in Nat
  BY FS_CardinalityType
<1>2. IsFiniteSet(S \ {x}) /\ Cardinality(S \ {x}) = Cardinality(S) - 1
  BY FS_RemoveElement
<1>3. IsFiniteSet(T) /\ Cardinality(T) <= Cardinality(S \ {x})
  BY <1>2, FS_Subset
<1> QED
  BY <1>2, <1>3

(* A step that only takes away: calls and transactions come to an end.     *)
LEMMA Fewer ==
  ASSUME NEW j \in Jobs, Tally(j), crashes \in Nat,
         Asked(j)' = Asked(j), Due(j)' \subseteq Due(j), Pending(j)' \subseteq Pending(j),
         ledger'[j].principal = ledger[j].principal,
         NEW x \in Nat, crashes' = crashes + x
  PROVE  Tally(j)'
<1>1. IsFiniteSet(Asked(j)) /\ IsFiniteSet(Pending(j)) /\ IsFiniteSet(Due(j))
  BY FS_Subset DEF Tally, Due
<1>2. IsFiniteSet(Pending(j)') /\ Cardinality(Pending(j)') <= Cardinality(Pending(j))
  BY <1>1, FS_Subset
<1>3. Cardinality(Due(j)') <= Cardinality(Due(j))
  BY <1>1, FS_Subset
<1>4. /\ Cardinality(Pending(j)) \in Nat /\ Cardinality(Due(j)) \in Nat
      /\ Cardinality(Asked(j)) \in Nat
  BY <1>1, FS_CardinalityType
<1>5. Cardinality(Pending(j)') \in Nat /\ Cardinality(Due(j)') \in Nat
  BY <1>1, <1>2, FS_CardinalityType, FS_Subset
<1>6. PICK n \in Nat :
        /\ ledger[j].principal = Deposit * n
        /\ n + Cardinality(Pending(j)) + Cardinality(Due(j)) <= Cardinality(Asked(j)) + crashes
  BY DEF Tally
<1>7. n + Cardinality(Pending(j)') + Cardinality(Due(j)') <= Cardinality(Asked(j)') + crashes'
  BY <1>2, <1>3, <1>4, <1>5, <1>6
<1> QED
  BY <1>1, <1>2, <1>6, <1>7 DEF Tally

(* A call that goes on remains one that was asked, of the same kind.       *)
LEMMA AskedStays ==
  ASSUME DOMAIN call = Calls, NEW c \in Calls, NEW k, call' = [call EXCEPT ![c] = k],
         k.op = call[c].op, k.job = call[c].job
  PROVE  /\ \A d \in Calls : call'[d].op = call[d].op /\ call'[d].job = call[d].job
         /\ \A j : Asked(j)' = Asked(j)
<1>1. \A d \in Calls : call'[d].op = call[d].op /\ call'[d].job = call[d].job
  OBVIOUS
<1> QED
  BY <1>1 DEF Asked, Charging

(* What a transaction books: a deposit if it is a payment, and an account  *)
(* is funded only if it is new.                                            *)
LEMMA Booked ==
  ASSUME DOMAIN ledger = Jobs, NEW t, t.job \in Jobs, Submit(t)
  PROVE  /\ DOMAIN ledger' = Jobs
         /\ \A k \in Jobs \ {t.job} : ledger'[k] = ledger[k]
         /\ t.op \in Paying => ledger'[t.job].principal = ledger[t.job].principal + Deposit
         /\ t.op \notin Paying => ledger'[t.job].principal = ledger[t.job].principal
         /\ t.op = "Fund" => escrow[t.job].status = "None"
<1> DEFINE j == t.job
           old == ledger[j]
<1>1. \A n, fee, taken : Chain!PaidIn(old, n, fee, taken).principal = old.principal + n
  BY DEF Chain!PaidIn
<1>2. \A taken, earned, returned :
        Chain!PaidOut(old, taken, earned, returned).principal = old.principal
  BY DEF Chain!PaidOut
<1>3. CASE t.op = "Fund" /\ Chain!Initialize(t.signer, Authority, j, Deposit)
  BY <1>1, <1>3 DEF Chain!Initialize, Chain!CanInitialize, Chain!NoEscrow, Paying
<1>4. CASE t.op = "TopUp" /\ Chain!TopUpFunded(t.signer, j, Deposit)
  BY <1>1, <1>4 DEF Chain!TopUpFunded, Chain!CanTopUpFunded, Paying
<1>5. CASE t.op = "TopUp" /\ Chain!TopUpLocked(t.signer, j, Deposit)
  BY <1>1, <1>5 DEF Chain!TopUpLocked, Chain!CanTopUpLocked, Paying
<1>6. CASE t.op = "Withdraw" /\ Chain!Withdraw(t.signer, j)
  BY <1>2, <1>6 DEF Chain!Withdraw, Chain!CanWithdraw, Chain!PayBack, Chain!CanPayBack, Paying
<1>7. CASE t.op = "Refund" /\ Chain!Refund(Authority, j)
  BY <1>2, <1>7 DEF Chain!Refund, Chain!CanRefund, Chain!PayBack, Chain!CanPayBack, Paying
<1>8. CASE t.op = "Release" /\ Chain!Release(t.signer, j, t.payee)
  BY <1>2, <1>8 DEF Chain!Release, Chain!CanRelease, Paying
<1>9. CASE t.op = "Lock" /\ Chain!Lock(Authority, j, t.payee)
  BY <1>2, <1>9 DEF Chain!Lock, Chain!CanLock, Paying
<1> QED
  BY <1>3, <1>4, <1>5, <1>6, <1>7, <1>8, <1>9 DEF Submit

(* How a handler goes on, when it sends nothing.                           *)
Onward(c, k) ==
  /\ call' = [call EXCEPT ![c] = k] /\ Going(call[c], k)
  /\ k.pc = "check" => crashes' = crashes + 1
  /\ k.pc = "send" => call[c].pc = "check"

LEMMA OnwardToEnd ==
  ASSUME Inv, NEW c \in Calls, call[c].pc \notin {"idle", "ended"}, End(c)
  PROVE  \E k : Onward(c, k)
<1> DEFINE k == EndedCall(call[c])
<1>1. call' = [call EXCEPT ![c] = k]
  BY DEF End, EndedCall
<1>2. k.pc = "ended" /\ k.op = call[c].op /\ k.job = call[c].job
  BY DEF EndedCall, NoCall
<1> HIDE DEF k
<1> QED
  BY <1>1, <1>2 DEF Onward, Going

LEMMA OnwardAt ==
  ASSUME Inv, NEW c \in Calls, call[c].pc \notin {"idle", "ended"},
         NEW pc, pc \notin {"idle", "ended"}, Goto(c, pc),
         pc = "check" => crashes' = crashes + 1,
         pc = "send" => call[c].pc = "check"
  PROVE  \E k : Onward(c, k)
<1> DEFINE k == [call[c] EXCEPT !.pc = pc]
<1>1. DOMAIN call[c] = CallFields
  BY DEF Inv, CallsBacked, Backed
<1>2. /\ k.pc = pc /\ k.op = call[c].op
      /\ k.job = call[c].job /\ k.hire = call[c].hire /\ k.wallet = call[c].wallet
  BY <1>1 DEF CallFields
<1>3. call' = [call EXCEPT ![c] = k]
  BY DEF Goto
<1> HIDE DEF k
<1> QED
  BY <1>2, <1>3 DEF Onward, Going

LEMMA HandlerOnward ==
  ASSUME Inv, NEW c \in Calls,
         \/ Check(c) \/ Verify(c) \/ Settled(c) \/ Reread(c) \/ ReadRow(c) \/ Record(c)
         \/ Tell(c) \/ LoseTouch(c) \/ Crash(c) \/ (Send(c) /\ net' = net /\ End(c))
  PROVE  /\ UNCHANGED <<escrow, ledger, net>> /\ crashes' \in {crashes, crashes + 1}
         /\ \E k : Onward(c, k)
<1>1. DOMAIN call[c] = CallFields
  BY DEF Inv, CallsBacked, Backed
<1>2. ASSUME NEW k, call[c].pc \notin {"idle", "ended"}, k.pc \notin {"idle", "check", "send"},
             k.op = call[c].op, k.job = call[c].job, k.hire = call[c].hire, k.wallet = call[c].wallet,
             call' = [call EXCEPT ![c] = k]
      PROVE  \E r : Onward(c, r)
  BY <1>2 DEF Onward, Going
<1>3. CASE Check(c)
  <2>1. call[c].pc = "check" /\ UNCHANGED <<escrow, ledger, net, crashes>>
    BY <1>3 DEF Check, chain
  <2>2. ASSUME NEW read, call' = [call EXCEPT ![c].pc = "send", ![c].seen = read]
        PROVE  \E k : Onward(c, k)
    <3> DEFINE k == [call[c] EXCEPT !.pc = "send", !.seen = read]
    <3>1. call' = [call EXCEPT ![c] = k]
      BY <2>2
    <3>2. /\ k.pc = "send" /\ k.op = call[c].op
          /\ k.job = call[c].job /\ k.hire = call[c].hire /\ k.wallet = call[c].wallet
      BY <1>1 DEF CallFields
    <3> HIDE DEF k
    <3> QED BY <2>1, <3>1, <3>2 DEF Onward, Going
  <2>3. \/ End(c)
        \/ \E read : call' = [call EXCEPT ![c].pc = "send", ![c].seen = read]
    BY <1>3 DEF Check
  <2> QED BY <2>1, <2>2, <2>3, OnwardToEnd
<1>4. CASE Settled(c)
  <2>1. call[c].pc = "wait" /\ UNCHANGED <<escrow, ledger, net, crashes>>
    BY <1>4 DEF Settled, chain
  <2>2. End(c) \/ Goto(c, "record") \/ Goto(c, "confirm")
    BY <1>4 DEF Settled
  <2> QED BY <2>1, <2>2, OnwardToEnd, OnwardAt
<1>5. CASE Reread(c)
  <2>1. call[c].pc = "confirm" /\ UNCHANGED <<escrow, ledger, net, crashes>>
    BY <1>5 DEF Reread, chain
  <2>2. PICK seen : call' = [call EXCEPT ![c].pc = "record", ![c].seen = seen]
    BY <1>5 DEF Reread
  <2> DEFINE k == [call[c] EXCEPT !.pc = "record", !.seen = seen]
  <2>3. call' = [call EXCEPT ![c] = k]
    BY <2>2
  <2>4. /\ k.pc = "record" /\ k.op = call[c].op
        /\ k.job = call[c].job /\ k.hire = call[c].hire /\ k.wallet = call[c].wallet
    BY <1>1 DEF CallFields
  <2> HIDE DEF k
  <2> QED BY <1>2, <2>1, <2>3, <2>4
<1>6. CASE ReadRow(c)
  <2>1. call[c].pc = "record" /\ UNCHANGED <<escrow, ledger, net, crashes>>
    BY <1>6 DEF ReadRow, chain
  <2>2. CASE call' = [call EXCEPT ![c].pc = "save", ![c].seen.amount = db[call[c].job].amount]
    <3> DEFINE read == [call[c].seen EXCEPT !.amount = db[call[c].job].amount]
               k == [call[c] EXCEPT !.pc = "save", !.seen = read]
    <3>1. call' = [call EXCEPT ![c] = k]
      BY <2>2
    <3> HIDE DEF read
    <3>2. /\ k.pc = "save" /\ k.op = call[c].op
          /\ k.job = call[c].job /\ k.hire = call[c].hire /\ k.wallet = call[c].wallet
      BY <1>1 DEF CallFields
    <3> HIDE DEF k
    <3> QED BY <1>2, <2>1, <3>1, <3>2
  <2>3. CASE End(c)
    BY <2>1, <2>3, OnwardToEnd
  <2> QED BY <1>6, <2>1, <2>2, <2>3 DEF ReadRow
<1>7. CASE Record(c)
  <2>1. /\ call[c].pc \in {"record", "save"} /\ Goto(c, "tell")
        /\ UNCHANGED <<escrow, ledger, net, crashes>>
    BY <1>7 DEF Record, chain
  <2> QED BY <2>1, OnwardAt
<1>8. CASE Tell(c)
  <2>1. call[c].pc = "tell" /\ End(c) /\ UNCHANGED <<escrow, ledger, net, crashes>>
    BY <1>8 DEF Tell, chain
  <2> QED BY <2>1, OnwardToEnd
<1>9. CASE LoseTouch(c)
  <2> DEFINE k == [NoCall EXCEPT !.pc = "ended", !.op = call[c].op, !.job = call[c].job,
                                 !.outcome = "lost"]
  <2>1. /\ call[c].pc = "wait" /\ UNCHANGED <<escrow, ledger, net, crashes>>
        /\ call' = [call EXCEPT ![c] = k]
    BY <1>9 DEF LoseTouch, chain
  <2>2. k.pc = "ended" /\ k.op = call[c].op /\ k.job = call[c].job
    BY DEF NoCall
  <2> HIDE DEF k
  <2> QED BY <2>1, <2>2 DEF Onward, Going
<1>10. CASE Crash(c)
  <2>1. /\ call[c].pc \notin {"idle", "ended"} /\ UNCHANGED <<escrow, ledger, net>>
        /\ crashes' = crashes + 1
    BY <1>10 DEF Crash, Handled, chain
  <2>2. CASE call' = [call EXCEPT ![c].pc = "check", ![c].seen = NoEscrow,
                                  ![c].outcome = "none", ![c].tries = @ + 1]
    <3> DEFINE k == [call[c] EXCEPT !.pc = "check", !.seen = NoEscrow, !.outcome = "none",
                                    !.tries = @ + 1]
    <3>1. call' = [call EXCEPT ![c] = k]
      BY <2>2
    <3>2. /\ k.pc = "check" /\ k.op = call[c].op
          /\ k.job = call[c].job /\ k.hire = call[c].hire /\ k.wallet = call[c].wallet
      BY <1>1 DEF CallFields
    <3> HIDE DEF k
    <3> QED BY <2>1, <3>1, <3>2 DEF Onward, Going
  <2>3. CASE Goto(c, "confirm")
    BY <2>1, <2>3, OnwardAt
  <2>4. CASE End(c)
    BY <2>1, <2>4, OnwardToEnd
  <2> QED BY <1>10, <2>1, <2>2, <2>3, <2>4 DEF Crash
<1>11. CASE Send(c) /\ net' = net /\ End(c)
  <2>1. call[c].pc = "send" /\ UNCHANGED <<escrow, ledger, net, crashes>>
    BY <1>11 DEF Send, chain
  <2> QED BY <1>11, <2>1, OnwardToEnd
<1>12. CASE Verify(c)
  <2>1. /\ call[c].pc = "check" /\ UNCHANGED <<escrow, ledger, net, crashes>>
        /\ Goto(c, "confirm") \/ End(c)
    BY <1>12 DEF Verify, chain
  <2> QED BY <2>1, OnwardToEnd, OnwardAt
<1> QED
  BY <1>3, <1>4, <1>5, <1>6, <1>7, <1>8, <1>9, <1>10, <1>11, <1>12

(* What holds of a job's deposits holds while its account and books are    *)
(* left alone and its calls keep their kind.                               *)
LEMMA SingleStays ==
  ASSUME NEW j \in Jobs, Single(j), Asked(j)' = Asked(j),
         \A d \in Calls : call'[d].op = call[d].op,
         escrow'[j] = escrow[j], ledger'[j] = ledger[j]
  PROVE  Single(j)'
<1>1. \A c \in Asked(j) : c \in Calls
  BY DEF Asked, Charging
<1> QED
  BY <1>1 DEF Single

LEMMA CountedOnward ==
  ASSUME Inv, Counted, NEW c \in Calls, NEW k, Onward(c, k),
         UNCHANGED <<escrow, ledger, net>>, crashes' \in {crashes, crashes + 1}
  PROVE  Counted'
<1>1. /\ DOMAIN call = Calls /\ call' = [call EXCEPT ![c] = k] /\ call'[c] = k
      /\ k.op = call[c].op /\ k.job = call[c].job /\ k.pc # "idle"
      /\ k.pc = "check" => crashes' = crashes + 1
      /\ k.pc = "send" => call[c].pc = "check"
  BY DEF Inv, CallsBacked, Onward, Going
<1>2. /\ \A d \in Calls : call'[d].op = call[d].op /\ call'[d].job = call[d].job
      /\ \A j : Asked(j)' = Asked(j)
  BY <1>1, AskedStays
<1>3. DOMAIN ledger' = Jobs /\ crashes \in Nat /\ crashes' \in Nat
  BY DEF Counted
<1>4. \A d \in Calls : call'[d].pc = "idle" => call'[d].op = "none"
  BY <1>1 DEF Counted
<1>5. ASSUME NEW j \in Jobs PROVE Tally(j)' /\ Single(j)'
  <2>1. Tally(j) /\ Single(j) /\ Asked(j)' = Asked(j) /\ Pending(j)' = Pending(j)
    BY <1>2 DEF Counted, Pending
  <2>2. Single(j)'
    BY <1>2, <2>1, SingleStays
  <2>3. CASE k.pc # "check"
    <3>1. Due(j)' \subseteq Due(j)
      BY <1>1, <1>2, <2>1, <2>3 DEF Due, Asked, Charging
    <3>2. PICK x \in Nat : crashes' = crashes + x
      BY <1>3
    <3> QED BY <1>3, <2>1, <2>2, <3>1, <3>2, Fewer
  <2>4. CASE k.pc = "check"
    <3>1. Due(j)' \subseteq Due(j) \cup {c}
      BY <1>1, <1>2, <2>1, <2>4 DEF Due, Asked, Charging
    <3>2. IsFiniteSet(Due(j))
      BY <2>1, FS_Subset DEF Tally, Due
    <3>3. IsFiniteSet(Due(j)') /\ Cardinality(Due(j)') <= Cardinality(Due(j)) + 1
      BY <3>1, <3>2, OneMore
    <3>5. Cardinality(Due(j)) \in Nat /\ Cardinality(Due(j)') \in Nat
      BY <3>2, <3>3, FS_CardinalityType
    <3>6. IsFiniteSet(Asked(j)) /\ IsFiniteSet(Pending(j))
      BY <2>1 DEF Tally
    <3>7. Cardinality(Asked(j)) \in Nat /\ Cardinality(Pending(j)) \in Nat
      BY <3>6, FS_CardinalityType
    <3>8. PICK n \in Nat :
            /\ ledger[j].principal = Deposit * n
            /\ n + Cardinality(Pending(j)) + Cardinality(Due(j)) <= Cardinality(Asked(j)) + crashes
      BY <2>1 DEF Tally
    <3>9. n + Cardinality(Pending(j)') + Cardinality(Due(j)') <= Cardinality(Asked(j)') + crashes'
      BY <1>1, <1>3, <2>1, <2>4, <3>3, <3>5, <3>7, <3>8
    <3>10. Tally(j)'
      BY <2>1, <3>6, <3>8, <3>9 DEF Tally
    <3> QED BY <2>2, <3>10
  <2> QED BY <2>3, <2>4
<1> QED
  BY <1>3, <1>4, <1>5 DEF Counted

(* A call that is received may send once.                                  *)
LEMMA CountedRequest ==
  ASSUME Inv, Counted, NEW c \in Calls, NEW op, NEW i \in Jobs, NEW w, NEW m, NEW f,
         Request(c, op, i, w, m, f)
  PROVE  Counted'
<1> DEFINE k == [NoCall EXCEPT !.pc = "check", !.op = op, !.job = i, !.mode = m,
                               !.wallet = w, !.hire = f]
<1>1. /\ call[c].pc = "idle" /\ call' = [call EXCEPT ![c] = k]
      /\ UNCHANGED <<escrow, ledger, net, crashes>>
  BY DEF Request, chain
<1>2. k.pc = "check" /\ k.op = op /\ k.job = i
  BY DEF NoCall
<1> HIDE DEF k
<1>3. call'[c] = k /\ \A d \in Calls \ {c} : call'[d] = call[d]
  BY <1>1 DEF Inv, CallsBacked
<1>4. call[c].op = "none"
  BY <1>1 DEF Counted
<1>5. \A d \in Calls : call'[d].pc = "idle" => call'[d].op = "none"
  BY <1>2, <1>3 DEF Counted
<1>6. DOMAIN ledger' = Jobs /\ crashes \in Nat /\ crashes' = crashes
  BY <1>1 DEF Counted
<1>7. ASSUME NEW j \in Jobs PROVE Tally(j)' /\ Single(j)'
  <2>1. Tally(j) /\ Single(j) /\ Pending(j)' = Pending(j)
    BY <1>1 DEF Counted, Pending
  <2>2. \A d \in Asked(j) : d # c
    BY <1>4 DEF Asked, Charging
  <2>3. CASE ~(op \in Paying /\ i = j)
    <3>1. Asked(j)' = Asked(j) /\ Due(j)' = Due(j)
      BY <1>2, <1>3, <2>2, <2>3 DEF Asked, Due, Charging, Paying
    <3>2. Tally(j)'
      BY <1>1, <2>1, <3>1 DEF Tally
    <3>3. Single(j)'
      BY <1>1, <1>3, <2>1, <2>2, <3>1 DEF Single
    <3> QED BY <3>2, <3>3
  <2>4. CASE op \in Paying /\ i = j
    <3>1. Asked(j)' = Asked(j) \cup {c}
      BY <1>2, <1>3, <2>2, <2>4 DEF Asked, Charging, Paying
    <3>2. Due(j)' \subseteq Due(j) \cup {c}
      <4>1. \A d \in Asked(j) : call'[d] = call[d]
        BY <1>3, <2>2 DEF Asked, Charging
      <4> QED BY <3>1, <4>1 DEF Due
    <3>3. IsFiniteSet(Asked(j)) /\ IsFiniteSet(Due(j)) /\ IsFiniteSet(Pending(j))
      BY <2>1, FS_Subset DEF Tally, Due
    <3>4. IsFiniteSet(Due(j)') /\ Cardinality(Due(j)') <= Cardinality(Due(j)) + 1
      BY <3>2, <3>3, OneMore
    <3>5. IsFiniteSet(Asked(j)') /\ Cardinality(Asked(j)') = Cardinality(Asked(j)) + 1
      BY <2>2, <3>1, <3>3, FS_AddElement
    <3>6. /\ Cardinality(Due(j)) \in Nat /\ Cardinality(Due(j)') \in Nat
          /\ Cardinality(Asked(j)) \in Nat /\ Cardinality(Pending(j)) \in Nat
      BY <3>3, <3>4, FS_CardinalityType
    <3>7. PICK n \in Nat :
            /\ ledger[j].principal = Deposit * n
            /\ n + Cardinality(Pending(j)) + Cardinality(Due(j)) <= Cardinality(Asked(j)) + crashes
      BY <2>1 DEF Tally
    <3>8. n + Cardinality(Pending(j)') + Cardinality(Due(j)') <= Cardinality(Asked(j)') + crashes'
      BY <1>6, <2>1, <3>4, <3>5, <3>6, <3>7
    <3>9. Tally(j)'
      BY <1>1, <2>1, <3>3, <3>5, <3>7, <3>8 DEF Tally
    <3>10. Single(j)'
      <4>1. \A d \in Asked(j) : d \in Calls \ {c}
        BY <2>2 DEF Asked, Charging
      <4>2. (\A d \in Asked(j)' : call'[d].op = "Fund") => \A d \in Asked(j) : call[d].op = "Fund"
        BY <1>3, <3>1, <4>1
      <4> QED BY <1>1, <2>1, <4>2 DEF Single
    <3> QED BY <3>9, <3>10
  <2> QED BY <2>3, <2>4
<1> QED
  BY <1>5, <1>6, <1>7 DEF Counted

(* A call that was about to send has sent.                                 *)
LEMMA CountedSend ==
  ASSUME Inv, Counted, NEW c \in Calls, Send(c), net' = net \cup {Tx(c)}, Goto(c, "wait")
  PROVE  Counted'
<1> DEFINE k == [call[c] EXCEPT !.pc = "wait"]
<1>1. /\ call[c].pc = "send" /\ call' = [call EXCEPT ![c] = k]
      /\ UNCHANGED <<escrow, ledger, crashes>>
  BY DEF Send, Goto, chain
<1>2. DOMAIN call[c] = CallFields /\ DOMAIN call = Calls
  BY DEF Inv, CallsBacked, Backed
<1>3. k.pc = "wait" /\ k.op = call[c].op /\ k.job = call[c].job
  BY <1>2 DEF CallFields
<1> HIDE DEF k
<1>4. call'[c] = k /\ \A d \in Calls \ {c} : call'[d] = call[d]
  BY <1>1, <1>2
<1>5. /\ \A d \in Calls : call'[d].op = call[d].op /\ call'[d].job = call[d].job
      /\ \A j : Asked(j)' = Asked(j)
  BY <1>1, <1>2, <1>3, AskedStays
<1>6. DOMAIN ledger' = Jobs /\ crashes \in Nat /\ crashes' = crashes
      /\ \A d \in Calls : call'[d].pc = "idle" => call'[d].op = "none"
  BY <1>1, <1>3, <1>4 DEF Counted
<1>7. Tx(c).job = call[c].job /\ Tx(c).op = call[c].op
  BY DEF Tx
<1>8. ASSUME NEW j \in Jobs PROVE Tally(j)' /\ Single(j)'
  <2>1. Tally(j) /\ Single(j) /\ Asked(j)' = Asked(j)
    BY <1>5 DEF Counted
  <2>2. Single(j)'
    BY <1>1, <1>5, <2>1, SingleStays
  <2>3. Due(j)' \subseteq Due(j) \ {c}
    BY <1>3, <1>4, <2>1 DEF Due, Asked, Charging
  <2>4. CASE c \notin Asked(j)
    <3>1. Pending(j)' = Pending(j)
      BY <1>7, <2>4 DEF Pending, Asked, Charging, Paying
    <3>2. PICK x \in Nat : x = 0 /\ crashes' = crashes + x
      BY <1>6
    <3> QED BY <1>1, <1>6, <2>1, <2>2, <2>3, <3>1, <3>2, Fewer
  <2>5. CASE c \in Asked(j)
    <3>1. c \in Due(j)
      BY <1>1, <2>5 DEF Due
    <3>2. Pending(j)' \subseteq Pending(j) \cup {Tx(c)}
      BY DEF Pending
    <3>3. IsFiniteSet(Asked(j)) /\ IsFiniteSet(Due(j)) /\ IsFiniteSet(Pending(j))
      BY <2>1, FS_Subset DEF Tally, Due
    <3>4. IsFiniteSet(Due(j)') /\ Cardinality(Due(j)') <= Cardinality(Due(j)) - 1
      BY <2>3, <3>1, <3>3, OneLess
    <3>5. IsFiniteSet(Pending(j)') /\ Cardinality(Pending(j)') <= Cardinality(Pending(j)) + 1
      BY <3>2, <3>3, OneMore
    <3>6. /\ Cardinality(Due(j)) \in Nat /\ Cardinality(Due(j)') \in Nat
          /\ Cardinality(Asked(j)) \in Nat
          /\ Cardinality(Pending(j)) \in Nat /\ Cardinality(Pending(j)') \in Nat
      BY <3>3, <3>4, <3>5, FS_CardinalityType
    <3>7. PICK n \in Nat :
            /\ ledger[j].principal = Deposit * n
            /\ n + Cardinality(Pending(j)) + Cardinality(Due(j)) <= Cardinality(Asked(j)) + crashes
      BY <2>1 DEF Tally
    <3>8. n + Cardinality(Pending(j)') + Cardinality(Due(j)') <= Cardinality(Asked(j)') + crashes'
      BY <1>6, <2>1, <3>4, <3>5, <3>6, <3>7
    <3>9. Tally(j)'
      BY <1>1, <2>1, <3>3, <3>5, <3>7, <3>8 DEF Tally
    <3> QED BY <2>2, <3>9
  <2> QED BY <2>4, <2>5
<1> QED
  BY <1>6, <1>8 DEF Counted

(* A report changes nothing of a call but the outcome it waits for.        *)
LEMMA ReportKeeps ==
  ASSUME Inv, Counted, NEW t \in net, NEW outcome, Report(t, outcome), crashes' = crashes
  PROVE  /\ \A d \in Calls : call'[d].op = call[d].op /\ call'[d].job = call[d].job
                              /\ call'[d].pc = call[d].pc
         /\ \A j : Asked(j)' = Asked(j) /\ Due(j)' = Due(j)
         /\ \A d \in Calls : call'[d].pc = "idle" => call'[d].op = "none"
<1>1. t.call \in Calls /\ DOMAIN call = Calls /\ DOMAIN call[t.call] = CallFields
  BY DEF Inv, NetKnown, CallsBacked, Backed
<1> DEFINE k == [call[t.call] EXCEPT !.outcome = outcome]
<1>2. k.op = call[t.call].op /\ k.job = call[t.call].job /\ k.pc = call[t.call].pc
  BY <1>1 DEF CallFields
<1>3. call' = call \/ call' = [call EXCEPT ![t.call] = k]
  BY DEF Report
<1> HIDE DEF k
<1>4. \A d \in Calls : call'[d].op = call[d].op /\ call'[d].job = call[d].job
                       /\ call'[d].pc = call[d].pc
  BY <1>1, <1>2, <1>3
<1> QED
  BY <1>4 DEF Asked, Due, Charging, Counted

LEMMA CountedLand == ASSUME Inv, Counted, NEW t \in net, Land(t) PROVE Counted'
<1>1. /\ Submit(t) /\ net' = net \ {t} /\ Report(t, "ok") /\ crashes' = crashes
      /\ t.call \in Calls /\ Sent(t, call[t.call]) /\ AccountsInOrder
  BY DEF Land, Inv, NetKnown
<1>2. t.job \in Jobs /\ (t.op = "Lock" => t.payee # NoKey)
  BY <1>1 DEF Inv, CallsBacked, Backed, Sent
<1>3. /\ \A d \in Calls : call'[d].op = call[d].op
      /\ \A j : Asked(j)' = Asked(j) /\ Due(j)' = Due(j)
      /\ \A d \in Calls : call'[d].pc = "idle" => call'[d].op = "none"
  BY <1>1, ReportKeeps
<1>4. /\ DOMAIN ledger' = Jobs
      /\ \A k \in Jobs \ {t.job} : ledger'[k] = ledger[k]
      /\ t.op \in Paying => ledger'[t.job].principal = ledger[t.job].principal + Deposit
      /\ t.op \notin Paying => ledger'[t.job].principal = ledger[t.job].principal
      /\ t.op = "Fund" => escrow[t.job].status = "None"
  BY <1>1, <1>2, Booked DEF Counted
<1>5. /\ \A j \in Jobs : escrow[j].status # "None" => escrow'[j].status # "None"
      /\ escrow'[t.job].status # "None"
  BY <1>1, <1>2, Submitted DEF Follows, Accomplished
<1>6. ASSUME NEW j \in Jobs PROVE Tally(j)'
  <2>1. Tally(j) /\ Asked(j)' = Asked(j) /\ Due(j)' = Due(j) /\ crashes \in Nat
    BY <1>3 DEF Counted
  <2>2. CASE ~(t.op \in Paying /\ t.job = j)
    <3>1. Pending(j)' \subseteq Pending(j) /\ ledger'[j].principal = ledger[j].principal
      BY <1>1, <1>4, <2>2 DEF Pending
    <3>2. PICK x \in Nat : x = 0 /\ crashes' = crashes + x
      BY <1>1, <2>1
    <3> QED BY <2>1, <3>1, <3>2, Fewer
  <2>3. CASE t.op \in Paying /\ t.job = j
    <3>1. t \in Pending(j) /\ Pending(j)' \subseteq Pending(j) \ {t}
      BY <1>1, <2>3 DEF Pending
    <3>2. IsFiniteSet(Asked(j)) /\ IsFiniteSet(Due(j)) /\ IsFiniteSet(Pending(j))
      BY <2>1, FS_Subset DEF Tally, Due
    <3>3. IsFiniteSet(Pending(j)') /\ Cardinality(Pending(j)') <= Cardinality(Pending(j)) - 1
      BY <3>1, <3>2, OneLess
    <3>4. /\ Cardinality(Due(j)) \in Nat /\ Cardinality(Asked(j)) \in Nat
          /\ Cardinality(Pending(j)) \in Nat /\ Cardinality(Pending(j)') \in Nat
      BY <3>2, <3>3, FS_CardinalityType
    <3>5. PICK n \in Nat :
            /\ ledger[j].principal = Deposit * n
            /\ n + Cardinality(Pending(j)) + Cardinality(Due(j)) <= Cardinality(Asked(j)) + crashes
      BY <2>1 DEF Tally
    <3>6. (n + 1) + Cardinality(Pending(j)') + Cardinality(Due(j)')
            <= Cardinality(Asked(j)') + crashes'
      BY <1>1, <2>1, <3>3, <3>4, <3>5
    <3>7. ledger'[j].principal = Deposit * (n + 1)
      BY <1>4, <2>3, <3>5, ProgramAssumption
    <3> QED BY <2>1, <3>2, <3>3, <3>6, <3>7 DEF Tally
  <2> QED BY <2>2, <2>3
<1>7. ASSUME NEW j \in Jobs PROVE Single(j)'
  <2>1. Single(j) /\ Asked(j)' = Asked(j) /\ \A d \in Asked(j) : call'[d].op = call[d].op
    BY <1>3 DEF Counted, Asked, Charging
  <2> DEFINE paid == ledger[j].principal
             funds == \A d \in Asked(j) : call[d].op = "Fund"
  <2>2. paid \in Nat /\ (funds => paid <= IF escrow[j].status = "None" THEN 0 ELSE Deposit)
    BY <2>1, ProgramAssumption DEF Counted, Tally, Single
  <2>3. CASE ledger'[j].principal = ledger[j].principal
    <3>1. escrow[j].status # "None" => escrow'[j].status # "None"
      BY <1>5
    <3>2. funds => paid <= IF escrow'[j].status = "None" THEN 0 ELSE Deposit
      BY <2>2, <3>1, ProgramAssumption
    <3> QED BY <2>1, <2>3, <3>2 DEF Single
  <2>4. CASE j # t.job
    BY <1>4, <2>4, <2>3
  <2>5. CASE j = t.job /\ t.op \notin Paying
    BY <1>4, <2>5, <2>3
  <2>6. CASE j = t.job /\ t.op = "TopUp"
    <3>1. t.call \in Asked(j) /\ call[t.call].op = "TopUp"
      BY <1>1, <2>6 DEF Sent, Asked, Charging
    <3> QED BY <2>1, <3>1 DEF Single
  <2>7. CASE j = t.job /\ t.op = "Fund"
    <3>1. ledger[j].principal \in Nat
      BY ProgramAssumption DEF Counted, Tally
    <3> QED BY <1>4, <1>5, <2>1, <2>7, <3>1, ProgramAssumption DEF Single, Paying
  <2> QED BY <2>4, <2>5, <2>6, <2>7 DEF Paying
<1> QED
  BY <1>1, <1>3, <1>4, <1>6, <1>7 DEF Counted

LEMMA CountedFailed == ASSUME Inv, Counted, NEW t \in net, Flop(t) \/ Expire(t) PROVE Counted'
<1>1. /\ net' = net \ {t} /\ crashes' = crashes /\ escrow' = escrow /\ ledger' = ledger
      /\ \E outcome : Report(t, outcome)
  BY DEF Flop, Expire, chain
<1>2. /\ \A d \in Calls : call'[d].op = call[d].op
      /\ \A j : Asked(j)' = Asked(j) /\ Due(j)' = Due(j)
      /\ \A d \in Calls : call'[d].pc = "idle" => call'[d].op = "none"
  BY <1>1, ReportKeeps
<1>3. ASSUME NEW j \in Jobs PROVE Tally(j)' /\ Single(j)'
  <2>1. Tally(j) /\ Single(j) /\ crashes \in Nat /\ Pending(j)' \subseteq Pending(j)
    BY <1>1 DEF Counted, Pending
  <2>2. Single(j)'
    BY <1>1, <1>2, <2>1, SingleStays
  <2>3. PICK x \in Nat : x = 0 /\ crashes' = crashes + x
    BY <1>1, <2>1
  <2> QED BY <1>1, <1>2, <2>1, <2>2, <2>3, Fewer
<1> QED
  BY <1>1, <1>2, <1>3 DEF Counted

LEMMA CountedInitially == Init => Counted
<1> SUFFICES ASSUME Init PROVE Counted
  OBVIOUS
<1>1. /\ ledger = [j \in Jobs |-> Chain!NoLedger] /\ escrow = [j \in Jobs |-> Chain!NoEscrow]
      /\ call = [c \in Calls |-> NoCall] /\ net = {} /\ crashes = 0
  BY DEF Init, Chain!Init
<1>2. \A j : Asked(j) = {} /\ Pending(j) = {} /\ Due(j) = {}
  BY <1>1 DEF Asked, Pending, Due, Charging, NoCall
<1>3. ASSUME NEW j \in Jobs PROVE Tally(j) /\ Single(j)
  <2>1. ledger[j].principal = 0
    BY <1>1 DEF Chain!NoLedger
  <2>2. escrow[j].status = "None"
    BY <1>1 DEF Chain!NoEscrow
  <2>3. ledger[j].principal = Deposit * 0
    BY <2>1, ProgramAssumption
  <2>4. 0 + Cardinality(Pending(j)) + Cardinality(Due(j)) <= Cardinality(Asked(j)) + crashes
    BY <1>1, <1>2, FS_EmptySet
  <2>5. Tally(j)
    BY <1>2, <2>3, <2>4, FS_EmptySet DEF Tally
  <2> QED BY <2>1, <2>2, <2>5 DEF Single
<1> QED
  BY <1>1, <1>3 DEF Counted, NoCall

LEMMA CountedStep == Inv /\ Counted /\ [Next]_vars => Counted'
<1> SUFFICES ASSUME Inv, Counted, [Next]_vars PROVE Counted'
  OBVIOUS
<1>1. ASSUME NEW c \in Calls, NEW op \in Ops, NEW j \in Jobs, NEW w \in Clients, NEW m \in Modes,
             NEW f \in Freelancers \cup {NoKey}, Request(c, op, j, w, m, f)
      PROVE  Counted'
  BY <1>1, CountedRequest
<1>2. ASSUME NEW c \in Calls, Send(c), net' = net \cup {Tx(c)}, Goto(c, "wait") PROVE Counted'
  BY <1>2, CountedSend
<1>3. ASSUME NEW c \in Calls,
             \/ Check(c) \/ Verify(c) \/ Settled(c) \/ Reread(c) \/ ReadRow(c) \/ Record(c)
             \/ Tell(c) \/ LoseTouch(c) \/ Crash(c) \/ (Send(c) /\ net' = net /\ End(c))
      PROVE  Counted'
  <2>1. /\ UNCHANGED <<escrow, ledger, net>> /\ crashes' \in {crashes, crashes + 1}
        /\ \E k : Onward(c, k)
    BY <1>3, HandlerOnward
  <2> QED BY <2>1, CountedOnward
<1>4. ASSUME NEW t \in net, Confirm(t) PROVE Counted'
  BY <1>4, CountedLand, CountedFailed DEF Confirm
<1>5. ASSUME NEW c \in Calls, Handle(c) PROVE Counted'
  <2>1. CASE Send(c)
    <3>1. \/ net' = net \cup {Tx(c)} /\ Goto(c, "wait")
          \/ net' = net /\ End(c)
      BY <2>1 DEF Send
    <3> QED BY <1>2, <1>3, <2>1, <3>1
  <2> QED BY <1>3, <1>5, <2>1 DEF Handle
<1>6. ASSUME UNCHANGED <<escrow, ledger, call, net, crashes>> PROVE Counted'
  <2>1. \A j : Asked(j)' = Asked(j) /\ Due(j)' = Due(j) /\ Pending(j)' = Pending(j)
    BY <1>6 DEF Asked, Due, Pending, Charging
  <2> QED BY <1>6, <2>1 DEF Counted, Tally, Single
<1>7. ASSUME NEW w, NEW n, WithdrawFees(w, n) PROVE Counted'
  BY <1>6, <1>7 DEF WithdrawFees, Chain!WithdrawFees
<1>8. CASE UNCHANGED vars
  BY <1>6, <1>8 DEF vars, chain
<1> QED
  BY <1>1, <1>3, <1>4, <1>5, <1>7, <1>8 DEF Next

(* ChargedOncePerDelivery: each delivery of a call charges the client once *)
(* at most, and the funding itself is charged once whatever is repeated.   *)
THEOREM ChargedOnce == Spec => []ChargedOncePerDelivery
<1>1. ASSUME Counted, NEW j \in Jobs
      PROVE  /\ ledger[j].principal <=
                  Deposit * (Cardinality({c \in Charging : call[c].job = j}) + crashes)
             /\ (\A c \in Charging : call[c].job = j => call[c].op = "Fund") =>
                  ledger[j].principal <= Deposit
  <2>1. Tally(j) /\ Single(j) /\ crashes \in Nat
    BY <1>1 DEF Counted
  <2>2. PICK n \in Nat :
          /\ ledger[j].principal = Deposit * n
          /\ n + Cardinality(Pending(j)) + Cardinality(Due(j)) <= Cardinality(Asked(j)) + crashes
    BY <2>1 DEF Tally
  <2>3. IsFiniteSet(Asked(j)) /\ IsFiniteSet(Due(j)) /\ IsFiniteSet(Pending(j))
    BY <2>1, FS_Subset DEF Tally, Due
  <2>4. /\ Cardinality(Due(j)) \in Nat /\ Cardinality(Asked(j)) \in Nat
        /\ Cardinality(Pending(j)) \in Nat
    BY <2>3, FS_CardinalityType
  <2>5. PICK m \in Nat : n + m = Cardinality(Asked(j)) + crashes
    <3>1. (Cardinality(Asked(j)) + crashes) - n \in Nat
      BY <2>1, <2>2, <2>4
    <3> QED BY <2>1, <2>4, <3>1
  <2>6. Deposit * (n + m) = Deposit * n + Deposit * m /\ Deposit * m >= 0
    BY ProgramAssumption
  <2>7. ledger[j].principal <= Deposit * (n + m)
    BY <2>2, <2>6, ProgramAssumption
  <2>8. (\A c \in Asked(j) : call[c].op = "Fund") => ledger[j].principal <= Deposit
    <3>1. ledger[j].principal \in Nat
      BY <2>2, ProgramAssumption
    <3> QED BY <2>1, <3>1, ProgramAssumption DEF Single
  <2> QED BY <2>5, <2>7, <2>8 DEF Asked
<1>2. Counted => ChargedOncePerDelivery
  BY <1>1 DEF ChargedOncePerDelivery
<1> QED
  BY <1>2, CallsBackedAlways, CountedInitially, CountedStep, PTL DEF Spec

-----------------------------------------------------------------------------
(* Calls that come one after another *)

(* What an operation leaves of the account, once its transaction is in.    *)
Result(op, e) ==
  /\ op = "Fund" => e.status = "Funded"
  /\ op = "TopUp" => e.status \in {"Funded", "Locked"}
  /\ op = "Lock" => e.status = "Locked"
  /\ op = "Release" => e.status = "Released"
  /\ op \in {"Withdraw", "Refund"} => e.status = "Refunded"

Same(r, e) ==
  /\ r.status = e.status
  /\ r.status \in {"Funded", "Locked"} => r.amount = e.amount /\ r.wallet = e.client

(* The other services know of the account what they should.                *)
ToldFits(shown, complete, e) ==
  /\ shown = "yes" <=> e.status \in {"Funded", "Locked", "Released"}
  /\ complete = TRUE <=> e.status = "Released"

Noticed(n, complete, e) == n \notin {"none", NoKey} => complete = TRUE /\ n = e.freelancer

(* A call whose transaction is in and whose row is still to be written, or *)
(* with the news still to be told.                                         *)
Landed(k) ==
  /\ k.op # "Confirm"
  /\ k.pc \in {"confirm", "record", "save"} \/ (k.pc = "wait" /\ k.outcome = "ok")
Untold(k) == Landed(k) \/ (k.op # "Confirm" /\ k.pc = "tell")

(* How far the row is behind the account.                                  *)
Behind(k, r, e) ==
  /\ k.op \in {"TopUp", "Withdraw", "Release"} => r # NoRow
  /\ k.op = "Fund" => e.amount = Deposit /\ e.client = k.wallet
  /\ k.op = "TopUp" => /\ r.status = e.status /\ e.amount = r.amount + Deposit
                       /\ r.wallet = e.client /\ e.client = k.wallet

(* What the only call handled knows of the row r and the account e of its  *)
(* job, and of what the other services were told.  A confirmation that     *)
(* stands alone has a client of the job behind it, or the job is a stray.  *)
InTurn(k, r, e, shown, complete) ==
  /\ DOMAIN k.seen = AccountFields /\ (k.pc # "check" => k.op \in Seven)
  /\ k.op = "Confirm" => /\ k.mode # "server" /\ k.pc # "save"
                         /\ k.pc \in {"record", "tell"} =>
                              e.status # "None" /\ e.client = k.wallet
  /\ k.op \in {"Lock", "Refund"} => k.mode = "server"
  /\ k.op = "Lock" /\ k.pc \in {"send", "wait", "record"} =>
       k.seen.amount = e.amount /\ k.seen.client = e.client
  /\ Untold(k) => /\ Result(k.op, e) /\ complete = FALSE
                  /\ k.op # "Fund" => shown = "yes"
  /\ Landed(k) => Behind(k, r, e)
  /\ k.pc \in {"record", "tell"} /\ k.mode # "server" => k.seen = e
  /\ k.pc = "save" => k.op = "TopUp" /\ k.mode = "server" /\ k.seen.amount = r.amount

Alone == \A c, d \in Handled : c = d

NetInTurn ==
  /\ \A t \in net : /\ t.call \in Handled
                    /\ call[t.call].pc = "wait" /\ call[t.call].outcome = "none"
                    /\ call[t.call].tries = t.try /\ call[t.call].wallet = t.signer
  /\ \A s, t \in net : s = t

CallsInTurn ==
  \A c \in Handled : call[c].job \notin strays =>
    InTurn(call[c], db[call[c].job], escrow[call[c].job],
           active[call[c].job], completed[call[c].job])

RowsAgree ==
  \A j \in Jobs \ strays :
    (\A c \in Handled : ~(Landed(call[c]) /\ call[c].job = j)) => Same(db[j], escrow[j])

ToldRight ==
  /\ DOMAIN active = Jobs /\ DOMAIN completed = Jobs /\ DOMAIN notice = Jobs
  /\ \A j \in Jobs \ strays :
       /\ completed[j] \in BOOLEAN /\ Noticed(notice[j], completed[j], escrow[j])
       /\ (\A c \in Handled : ~(Untold(call[c]) /\ call[c].job = j)) =>
            ToldFits(active[j], completed[j], escrow[j])

InOrder == Alone /\ NetInTurn /\ CallsInTurn /\ RowsAgree /\ ToldRight

Tidy == orderly => flops = {} /\ InOrder

(* The only call handled moves to k.                                       *)
LEMMA LoneCall ==
  ASSUME DOMAIN call = Calls, NEW c \in Calls, Handled \subseteq {c}, NEW k,
         call' = [call EXCEPT ![c] = k],
         \A t \in net' : /\ t.call = c /\ k.pc = "wait" /\ k.outcome = "none"
                         /\ k.tries = t.try /\ k.wallet = t.signer,
         \A s, t \in net' : s = t,
         k.pc \notin {"idle", "ended"} /\ k.job \notin strays' =>
           InTurn(k, db'[k.job], escrow'[k.job], active'[k.job], completed'[k.job]),
         \A j \in Jobs \ strays' : ~(Landed(k) /\ k.job = j) => Same(db'[j], escrow'[j]),
         DOMAIN active' = Jobs /\ DOMAIN completed' = Jobs /\ DOMAIN notice' = Jobs,
         \A j \in Jobs \ strays' :
           /\ completed'[j] \in BOOLEAN /\ Noticed(notice'[j], completed'[j], escrow'[j])
           /\ ~(Untold(k) /\ k.job = j) => ToldFits(active'[j], completed'[j], escrow'[j])
  PROVE  InOrder'
<1>1. call'[c] = k /\ \A d \in Calls \ {c} : call'[d] = call[d]
  OBVIOUS
<1>2. \A d \in Calls : d \in Handled' <=> d = c /\ k.pc \notin {"idle", "ended"}
  BY <1>1 DEF Handled
<1>3. Alone'
  BY <1>2 DEF Alone, Handled
<1>4. NetInTurn'
  BY <1>1, <1>2 DEF NetInTurn
<1>5. CallsInTurn'
  BY <1>1, <1>2 DEF CallsInTurn, Handled
<1>6. Untold(k) \/ Landed(k) => c \in Handled'
  BY <1>2 DEF Landed, Untold
<1>7. RowsAgree'
  <2> SUFFICES ASSUME NEW j \in Jobs \ strays',
                      \A d \in Handled' : ~(Landed(call'[d]) /\ call'[d].job = j)
               PROVE  Same(db'[j], escrow'[j])
    BY DEF RowsAgree
  <2> QED BY <1>1, <1>6
<1>8. ToldRight'
  <2>1. ASSUME NEW j \in Jobs \ strays', \A d \in Handled' : ~(Untold(call'[d]) /\ call'[d].job = j)
        PROVE  ToldFits(active'[j], completed'[j], escrow'[j])
    BY <1>1, <1>6, <2>1
  <2> QED BY <2>1 DEF ToldRight
<1> QED
  BY <1>3, <1>4, <1>5, <1>7, <1>8 DEF InOrder

(* What is known when a call is handled in turn.                           *)
LEMMA Turns ==
  ASSUME Inv, InOrder, NEW c \in Handled
  PROVE  /\ c \in Calls /\ DOMAIN call = Calls /\ Handled \subseteq {c}
         /\ DOMAIN call[c] = CallFields /\ call[c].job \in Jobs
         /\ call[c].job \notin strays =>
              InTurn(call[c], db[call[c].job], escrow[call[c].job],
                     active[call[c].job], completed[call[c].job])
         /\ call[c].pc # "wait" \/ call[c].outcome # "none" => net = {}
         /\ \A j \in Jobs \ strays :
              ~(Landed(call[c]) /\ call[c].job = j) => Same(db[j], escrow[j])
         /\ DOMAIN active = Jobs /\ DOMAIN completed = Jobs /\ DOMAIN notice = Jobs
         /\ \A j \in Jobs \ strays :
              /\ completed[j] \in BOOLEAN /\ Noticed(notice[j], completed[j], escrow[j])
              /\ ~(Untold(call[c]) /\ call[c].job = j) =>
                   ToldFits(active[j], completed[j], escrow[j])
<1>1. c \in Calls /\ DOMAIN call = Calls
  BY DEF Handled, Inv, CallsBacked
<1>2. DOMAIN call[c] = CallFields /\ call[c].job \in Jobs
  BY <1>1 DEF Handled, Inv, CallsBacked, Backed
<1>3. \A d \in Handled : d = c
  BY DEF InOrder, Alone
<1>4. call[c].job \notin strays =>
        InTurn(call[c], db[call[c].job], escrow[call[c].job],
               active[call[c].job], completed[call[c].job])
  BY DEF InOrder, CallsInTurn
<1>5. \A t \in net : call[c].pc = "wait" /\ call[c].outcome = "none"
  BY <1>3 DEF InOrder, NetInTurn
<1>6. \A j \in Jobs \ strays : ~(Landed(call[c]) /\ call[c].job = j) => Same(db[j], escrow[j])
  BY <1>3 DEF InOrder, RowsAgree
<1>7. /\ DOMAIN active = Jobs /\ DOMAIN completed = Jobs /\ DOMAIN notice = Jobs
      /\ \A j \in Jobs \ strays :
           /\ completed[j] \in BOOLEAN /\ Noticed(notice[j], completed[j], escrow[j])
           /\ ~(Untold(call[c]) /\ call[c].job = j) =>
                ToldFits(active[j], completed[j], escrow[j])
  BY <1>3 DEF InOrder, ToldRight
<1> QED
  BY <1>1, <1>2, <1>3, <1>4, <1>5, <1>6, <1>7

(* A step of the only call that changes nothing else, with nothing on its  *)
(* way.                                                                    *)
LEMMA LoneStep ==
  ASSUME Inv, InOrder, NEW c \in Handled, NEW k,
         call' = [call EXCEPT ![c] = k],
         UNCHANGED <<db, escrow, active, completed, notice>>, net' = {}, strays \subseteq strays',
         k.pc \notin {"idle", "ended"} /\ k.job \notin strays' =>
           InTurn(k, db[k.job], escrow[k.job], active[k.job], completed[k.job]),
         k.job \in strays \/ (Landed(call[c]) => Landed(k)),
         k.job \in strays \/ (Untold(call[c]) => Untold(k)), k.job = call[c].job
  PROVE  InOrder'
<1>1. \A j \in Jobs \ strays : ~(Landed(k) /\ k.job = j) => Same(db[j], escrow[j])
  BY Turns
<1>2. /\ DOMAIN active = Jobs /\ DOMAIN completed = Jobs /\ DOMAIN notice = Jobs
      /\ \A j \in Jobs \ strays :
           /\ completed[j] \in BOOLEAN /\ Noticed(notice[j], completed[j], escrow[j])
           /\ ~(Untold(k) /\ k.job = j) => ToldFits(active[j], completed[j], escrow[j])
  BY Turns
<1>3. c \in Calls /\ DOMAIN call = Calls /\ Handled \subseteq {c}
  BY Turns
<1> QED
  BY <1>1, <1>2, <1>3, LoneCall

LEMMA EndInOrder ==
  ASSUME Inv, InOrder, NEW c \in Handled, End(c), net' = net,
         UNCHANGED <<db, escrow, active, completed, notice>>, strays' = strays,
         call[c].job \in strays \/ ~Untold(call[c]), call[c].pc # "wait" \/ call[c].outcome # "none"
  PROVE  InOrder'
<1> DEFINE k == EndedCall(call[c])
<1>1. call' = [call EXCEPT ![c] = k] /\ k.pc = "ended" /\ k.job = call[c].job
  BY DEF End, EndedCall, NoCall
<1> HIDE DEF k
<1>2. net' = {} /\ (call[c].job \in strays \/ ~Landed(call[c]))
  BY Turns DEF Untold
<1> QED
  BY <1>1, <1>2, LoneStep

LEMMA RequestInOrder ==
  ASSUME Inv, InOrder, Handled = {}, NEW c \in Calls, NEW op, NEW j \in Jobs, NEW w,
         NEW m, NEW f, Request(c, op, j, w, m, f)
  PROVE  InOrder'
<1> DEFINE k == [NoCall EXCEPT !.pc = "check", !.op = op, !.job = j, !.mode = m,
                               !.wallet = w, !.hire = f]
<1>1. /\ op \in {"Lock", "Refund"} => m = "server"
      /\ op = "Confirm" => m = "client"
      /\ call' = [call EXCEPT ![c] = k]
      /\ UNCHANGED <<escrow, db, active, completed, notice, net>> /\ strays' = strays
  BY DEF Request, chain, told
<1>2. Handled = {}
  OBVIOUS
<1>3. k.pc = "check" /\ k.op = op /\ k.mode = m /\ DOMAIN k.seen = AccountFields
  BY DEF NoCall, NoEscrow, Chain!NoEscrow, AccountFields
<1> HIDE DEF k
<1>4. InTurn(k, db'[k.job], escrow'[k.job], active'[k.job], completed'[k.job])
  BY <1>1, <1>3 DEF InTurn, Landed, Untold
<1>5. net' = {} /\ \A i \in Jobs \ strays : Same(db'[i], escrow'[i])
  BY <1>1, <1>2 DEF InOrder, NetInTurn, RowsAgree
<1>6. /\ DOMAIN active' = Jobs /\ DOMAIN completed' = Jobs /\ DOMAIN notice' = Jobs
      /\ \A i \in Jobs \ strays :
           /\ completed'[i] \in BOOLEAN /\ Noticed(notice'[i], completed'[i], escrow'[i])
           /\ ToldFits(active'[i], completed'[i], escrow'[i])
  BY <1>1, <1>2 DEF InOrder, ToldRight
<1>7. DOMAIN call = Calls
  BY DEF Inv, CallsBacked
<1> QED
  BY <1>1, <1>2, <1>4, <1>5, <1>6, <1>7, LoneCall

LEMMA CheckInOrder ==
  ASSUME Inv, InOrder, NEW c \in Handled, Check(c), orderly'
  PROVE  InOrder'
<1> DEFINE j == call[c].job
<1>1. /\ call[c].pc = "check" /\ UNCHANGED <<escrow, db, active, completed, notice, net>>
      /\ strays' = strays
  BY DEF Check, chain, told
<1>2. CASE End(c)
  BY <1>1, <1>2, EndInOrder DEF Untold, Landed
<1>3. ASSUME NEW read, call[c].op \in Six, call[c].op = "Lock" => read = escrow[j], DOMAIN read = AccountFields,
             call' = [call EXCEPT ![c].pc = "send", ![c].seen = read]
      PROVE  InOrder'
  <2> DEFINE k == [call[c] EXCEPT !.pc = "send", !.seen = read]
  <2>1. /\ DOMAIN call[c] = CallFields /\ net' = {}
        /\ j \notin strays => InTurn(call[c], db[j], escrow[j], active[j], completed[j])
    BY <1>1, Turns
  <2>2. call' = [call EXCEPT ![c] = k]
    BY <1>3
  <2>3. /\ k.pc = "send" /\ k.op = call[c].op /\ k.mode = call[c].mode /\ k.job = j
        /\ k.seen = read
    BY <2>1 DEF CallFields
  <2> HIDE DEF k
  <2>4. j \notin strays => InTurn(k, db[k.job], escrow[k.job], active[k.job], completed[k.job])
    BY <1>3, <2>1, <2>3 DEF InTurn, Landed, Untold, Six, Seven
  <2> QED BY <1>1, <2>1, <2>2, <2>3, <2>4, LoneStep DEF Landed, Untold
<1>4. \/ /\ Allowed(call[c].op, j, escrow[j])
         /\ call' = [call EXCEPT ![c].pc = "send", ![c].seen =
              IF call[c].op \in {"Lock", "Refund"} THEN escrow[j] ELSE Known(j, escrow[j])]
      \/ End(c)
  BY <1>1 DEF Check
<1>5. DOMAIN escrow[j] = AccountFields
  BY Turns DEF Inv, AccountsInOrder, Account
<1>6. DOMAIN Known(j, escrow[j]) = AccountFields
  BY <1>5 DEF Known, NoEscrow, Chain!NoEscrow, AccountFields
<1>7. Allowed(call[c].op, j, escrow[j]) => call[c].op \in Six
  BY DEF Allowed, Six
<1> QED
  BY <1>2, <1>3, <1>4, <1>5, <1>6, <1>7

LEMMA VerifyInOrder == ASSUME Inv, InOrder, NEW c \in Handled, Verify(c) PROVE InOrder'
<1> DEFINE j == call[c].job
           k == [call[c] EXCEPT !.pc = "confirm"]
<1>1. /\ call[c].pc = "check" /\ call[c].op = "Confirm" /\ strays' = strays
      /\ UNCHANGED <<escrow, db, active, completed, notice, net>>
  BY DEF Verify, chain, told
<1>2. CASE End(c)
  BY <1>1, <1>2, EndInOrder DEF Untold, Landed
<1>3. CASE Goto(c, "confirm")
  <2>1. /\ DOMAIN call[c] = CallFields /\ net' = {}
        /\ j \notin strays => InTurn(call[c], db[j], escrow[j], active[j], completed[j])
    BY <1>1, Turns
  <2>2. call' = [call EXCEPT ![c] = k]
    BY <1>3 DEF Goto
  <2>3. /\ k.pc = "confirm" /\ k.op = call[c].op /\ k.mode = call[c].mode /\ k.job = j
        /\ k.seen = call[c].seen
    BY <2>1 DEF CallFields
  <2> HIDE DEF k
  <2>4. j \notin strays => InTurn(k, db[k.job], escrow[k.job], active[k.job], completed[k.job])
    BY <1>1, <2>1, <2>3 DEF InTurn, Landed, Untold, Seven
  <2> QED BY <1>1, <2>1, <2>2, <2>3, <2>4, LoneStep DEF Landed, Untold
<1> QED
  BY <1>2, <1>3 DEF Verify

LEMMA SendInOrder == ASSUME Inv, InOrder, NEW c \in Handled, Send(c) PROVE InOrder'
<1> DEFINE j == call[c].job
           k == [call[c] EXCEPT !.pc = "wait"]
<1>1. /\ call[c].pc = "send" /\ UNCHANGED <<escrow, db, active, completed, notice>>
      /\ strays' = strays
  BY DEF Send, chain, told
<1>2. CASE net' = net /\ End(c)
  BY <1>1, <1>2, EndInOrder DEF Untold, Landed
<1>3. CASE net' = net \cup {Tx(c)} /\ Goto(c, "wait")
  <2>1. /\ DOMAIN call[c] = CallFields /\ net = {} /\ c \in Calls
        /\ j \notin strays => InTurn(call[c], db[j], escrow[j], active[j], completed[j])
    BY <1>1, Turns
  <2>2. /\ k.pc = "wait" /\ k.op = call[c].op /\ k.job = j /\ k.mode = call[c].mode
        /\ k.outcome = call[c].outcome /\ k.tries = call[c].tries /\ k.wallet = call[c].wallet
        /\ k.seen = call[c].seen
    BY <2>1 DEF CallFields
  <2>3. call' = [call EXCEPT ![c] = k]
    BY <1>3 DEF Goto
  <2>4. call[c].outcome = "none"
    BY <1>1, <2>1 DEF Inv, CallsBacked, Backed
  <2> HIDE DEF k
  <2>5. /\ Tx(c).call = c /\ Tx(c).try = k.tries /\ Tx(c).signer = k.wallet /\ net' = {Tx(c)}
    BY <1>3, <2>1, <2>2 DEF Tx
  <2>6. k.job \notin strays' =>
          InTurn(k, db'[k.job], escrow'[k.job], active'[k.job], completed'[k.job])
    <3>1. j \notin strays => InTurn(k, db[j], escrow[j], active[j], completed[j])
      BY <1>1, <2>1, <2>2, <2>4 DEF InTurn, Landed, Untold
    <3> QED BY <1>1, <2>2, <3>1
  <2>7. ~Untold(call[c]) /\ ~Landed(call[c])
    BY <1>1 DEF Untold, Landed
  <2>8. /\ \A i \in Jobs \ strays' : Same(db'[i], escrow'[i])
        /\ DOMAIN active' = Jobs /\ DOMAIN completed' = Jobs /\ DOMAIN notice' = Jobs
        /\ \A i \in Jobs \ strays' :
             /\ completed'[i] \in BOOLEAN /\ Noticed(notice'[i], completed'[i], escrow'[i])
             /\ ToldFits(active'[i], completed'[i], escrow'[i])
    BY <1>1, <2>7, Turns
  <2>9. \A t \in net' : /\ t.call = c /\ k.pc = "wait" /\ k.outcome = "none"
                        /\ k.tries = t.try /\ k.wallet = t.signer
    BY <2>2, <2>4, <2>5
  <2>10. \A s, t \in net' : s = t
    BY <2>5
  <2>11. DOMAIN call = Calls /\ Handled \subseteq {c}
    BY Turns
  <2>12. \A i \in Jobs \ strays' : ~(Landed(k) /\ k.job = i) => Same(db'[i], escrow'[i])
    BY <2>8
  <2>13. \A i \in Jobs \ strays' :
           /\ completed'[i] \in BOOLEAN /\ Noticed(notice'[i], completed'[i], escrow'[i])
           /\ ~(Untold(k) /\ k.job = i) => ToldFits(active'[i], completed'[i], escrow'[i])
    BY <2>8
  <2>14. DOMAIN active' = Jobs /\ DOMAIN completed' = Jobs /\ DOMAIN notice' = Jobs
    BY <2>8
  <2> QED BY <2>1, <2>3, <2>6, <2>9, <2>10, <2>11, <2>12, <2>13, <2>14, LoneCall
<1> QED
  BY <1>2, <1>3 DEF Send

LEMMA SettledInOrder ==
  ASSUME Inv, InOrder, flops = {}, NEW c \in Handled, Settled(c)
  PROVE  InOrder'
<1> DEFINE j == call[c].job
<1>1. /\ call[c].pc = "wait" /\ call[c].outcome # "none"
      /\ UNCHANGED <<escrow, db, active, completed, notice, net>> /\ strays' = strays
  BY DEF Settled, chain, told
<1>2. /\ DOMAIN call[c] = CallFields /\ net' = {} /\ c \in Calls
      /\ j \notin strays => InTurn(call[c], db[j], escrow[j], active[j], completed[j])
  BY <1>1, Turns
<1>3. call[c].outcome # "failed"
  BY <1>1, <1>2 DEF Inv, CallsBacked, Backed
<1>4. CASE call[c].outcome = "ok"
  <2>1. PICK pc : pc \in {"record", "confirm"} /\ (pc = "record" <=> call[c].mode = "server")
                  /\ Goto(c, pc)
    BY <1>4 DEF Settled, GoesOn
  <2> DEFINE k == [call[c] EXCEPT !.pc = pc]
  <2>2. /\ k.pc = pc /\ k.op = call[c].op /\ k.job = j /\ k.mode = call[c].mode
        /\ k.seen = call[c].seen /\ k.wallet = call[c].wallet
    BY <1>2 DEF CallFields
  <2>3. call' = [call EXCEPT ![c] = k]
    BY <2>1 DEF Goto
  <2> HIDE DEF k
  <2>4. Behind(call[c], db[j], escrow[j]) => Behind(k, db[j], escrow[j])
    BY <2>2 DEF Behind
  <2>5. call[c].op # "Confirm"
    BY <1>1, <1>2 DEF Inv, CallsBacked, Backed, Six
  <2>6. j \notin strays => InTurn(k, db[k.job], escrow[k.job], active[k.job], completed[k.job])
    BY <1>1, <1>2, <1>4, <2>1, <2>2, <2>4, <2>5 DEF InTurn, Landed, Untold
  <2> QED BY <1>1, <1>2, <2>1, <2>2, <2>3, <2>6, LoneStep DEF Landed, Untold
<1>5. CASE call[c].outcome # "ok"
  <2>1. End(c)
    BY <1>3, <1>5 DEF Settled, GoesOn
  <2> QED BY <1>1, <1>5, <2>1, EndInOrder DEF Landed, Untold
<1> QED
  BY <1>4, <1>5

LEMMA RereadInOrder ==
  ASSUME Inv, InOrder, NEW c \in Handled, Reread(c), orderly'
  PROVE  InOrder'
<1> DEFINE j == call[c].job
           k == [call[c] EXCEPT !.pc = "record", !.seen = escrow[j]]
<1>1. /\ call[c].pc = "confirm" /\ UNCHANGED <<escrow, db, active, completed, notice, net>>
      /\ call' = [call EXCEPT ![c] = k] /\ strays \subseteq strays'
      /\ j \notin strays' => Owns(call[c].wallet, j)
  BY DEF Reread, chain, told
<1>2. /\ DOMAIN call[c] = CallFields /\ net' = {}
      /\ j \notin strays => InTurn(call[c], db[j], escrow[j], active[j], completed[j])
  BY <1>1, Turns
<1>3. /\ k.pc = "record" /\ k.op = call[c].op /\ k.job = j /\ k.mode = call[c].mode
      /\ k.seen = escrow[j] /\ k.wallet = call[c].wallet /\ DOMAIN k.seen = AccountFields
  BY <1>2, Turns DEF CallFields, Inv, AccountsInOrder, Account
<1> HIDE DEF k
<1>4. Behind(call[c], db[j], escrow[j]) => Behind(k, db[j], escrow[j])
  BY <1>3 DEF Behind
<1>5. j \notin strays' => InTurn(k, db[k.job], escrow[k.job], active[k.job], completed[k.job])
  BY <1>1, <1>2, <1>3, <1>4 DEF InTurn, Landed, Untold, Owns
<1> QED
  BY <1>1, <1>2, <1>3, <1>5, LoneStep DEF Landed, Untold

LEMMA ReadRowInOrder == ASSUME Inv, InOrder, NEW c \in Handled, ReadRow(c) PROVE InOrder'
<1> DEFINE j == call[c].job
           read == [call[c].seen EXCEPT !.amount = db[j].amount]
           k == [call[c] EXCEPT !.pc = "save", !.seen = read]
<1>1. /\ call[c].pc = "record" /\ call[c].op = "TopUp" /\ call[c].mode = "server"
      /\ UNCHANGED <<escrow, db, active, completed, notice, net>> /\ strays' = strays
  BY DEF ReadRow, chain, told
<1>2. /\ DOMAIN call[c] = CallFields /\ net' = {}
      /\ j \notin strays => InTurn(call[c], db[j], escrow[j], active[j], completed[j])
  BY <1>1, Turns
<1>3. CASE End(c)
  <2>1. db[j] = NoRow \/ j \in strays
    <3>1. CASE db[j] # NoRow
      <4>1. call' = [call EXCEPT ![c].pc = "save", ![c].seen.amount = db[j].amount]
        BY <3>1 DEF ReadRow
      <4>2. call'[c].pc = "save" /\ call'[c].pc = "ended"
        BY <1>2, <1>3, <4>1, Turns DEF End, NoCall, CallFields
      <4> QED BY <4>2
    <3> QED BY <3>1
  <2>2. j \in strays
    BY <1>1, <1>2, <2>1 DEF InTurn, Landed, Behind
  <2> QED BY <1>1, <1>3, <2>2, EndInOrder
<1>4. CASE ~End(c)
  <2>1. call' = [call EXCEPT ![c] = k]
    <3>1. call' = [call EXCEPT ![c].pc = "save", ![c].seen.amount = db[j].amount]
      BY <1>4 DEF ReadRow
    <3> QED BY <3>1
  <2>2. j \notin strays => DOMAIN read = AccountFields /\ read.amount = db[j].amount
    BY <1>2 DEF InTurn, AccountFields
  <2> HIDE DEF read
  <2>3. /\ k.pc = "save" /\ k.op = "TopUp" /\ k.job = j /\ k.mode = "server"
        /\ k.seen = read /\ k.wallet = call[c].wallet
    BY <1>1, <1>2 DEF CallFields
  <2> HIDE DEF k
  <2>4. Behind(call[c], db[j], escrow[j]) => Behind(k, db[j], escrow[j])
    BY <1>1, <2>3 DEF Behind
  <2>5. j \notin strays => InTurn(k, db[k.job], escrow[k.job], active[k.job], completed[k.job])
    BY <1>1, <1>2, <2>2, <2>3, <2>4 DEF InTurn, Landed, Untold, Result
  <2> QED BY <1>1, <1>2, <2>1, <2>3, <2>5, LoneStep DEF Landed, Untold
<1> QED
  BY <1>3, <1>4

(* What a call in turn records is what the program did.                    *)
LEMMA RecordAgrees ==
  ASSUME NEW k, NEW r, NEW e, NEW shown, NEW complete, InTurn(k, r, e, shown, complete),
         \/ k.pc = "record" /\ ~(k.op = "TopUp" /\ k.mode = "server")
         \/ k.pc = "save",
         DOMAIN r = RowFields,
         NEW new, new = (IF k.mode = "server" THEN SignedRow(k, r) ELSE ConfirmedRow(k, r))
  PROVE  Same(new, e)
<1>1. /\ k.op \in Seven /\ (k.op = "Confirm" => k.mode # "server")
      /\ k.op \in Six => Result(k.op, e) /\ Behind(k, r, e)
  BY DEF InTurn, Untold, Landed, Six
<1>2. CASE k.mode # "server"
  <2>1. /\ new = ConfirmedRow(k, r) /\ k.seen = e /\ k.op \notin {"Lock", "Refund"}
        /\ k.op = "Confirm" => e.status # "None" /\ e.client = k.wallet
    BY <1>2 DEF InTurn
  <2>2. e.status # "None"
    BY <1>1, <2>1 DEF Result, Six, Seven
  <2>3. e # NoEscrow
    BY <2>2 DEF NoEscrow, Chain!NoEscrow
  <2>4. new.status = e.status /\ new.amount = e.amount /\ new.wallet = k.wallet
    BY <2>1, <2>3 DEF ConfirmedRow, ConfirmedStatus
  <2> QED BY <1>1, <2>1, <2>4 DEF Same, Result, Behind, Six, Seven
<1>3. CASE k.mode = "server" /\ k.op = "Fund"
  <2>1. new = FundedRow(k.wallet)
    BY <1>3 DEF SignedRow
  <2> QED BY <1>1, <1>3, <2>1 DEF FundedRow, Same, Result, Behind, Six
<1>4. CASE k.mode = "server" /\ k.op = "TopUp"
  <2>1. new = [r EXCEPT !.amount = k.seen.amount + Deposit] /\ k.seen.amount = r.amount
    BY <1>1, <1>4 DEF SignedRow, ToppedUpRow, Updated, Behind, InTurn, Six
  <2>2. new.status = r.status /\ new.wallet = r.wallet /\ new.amount = r.amount + Deposit
    BY <2>1 DEF RowFields
  <2> QED BY <1>1, <1>4, <2>2 DEF Same, Behind, Six
<1>5. CASE k.mode = "server" /\ k.op \in {"Withdraw", "Release"}
  <2>1. \/ k.op = "Withdraw" /\ new = [r EXCEPT !.status = "Refunded"]
        \/ k.op = "Release" /\ new = [r EXCEPT !.status = "Released"]
    BY <1>1, <1>5 DEF SignedRow, WithdrawnRow, ReleasedRow, Updated, Behind, Six
  <2> QED BY <1>1, <2>1 DEF RowFields, Same, Result, Six
<1>6. CASE k.mode = "server" /\ k.op = "Lock"
  <2>1. new = LockedRow(k.seen, k.hire) /\ k.seen.amount = e.amount /\ k.seen.client = e.client
    BY <1>6 DEF SignedRow, InTurn
  <2> QED BY <1>1, <1>6, <2>1 DEF LockedRow, Same, Result, Six
<1>7. CASE k.mode = "server" /\ k.op = "Refund"
  <2>1. new = RefundedRow(r, k.seen)
    BY <1>7 DEF SignedRow
  <2> QED BY <1>1, <1>7, <2>1 DEF RefundedRow, RowFields, Same, Result, Six
<1> QED
  BY <1>1, <1>2, <1>3, <1>4, <1>5, <1>6, <1>7 DEF Six, Seven

LEMMA RecordInOrder == ASSUME Inv, InOrder, NEW c \in Handled, Record(c) PROVE InOrder'
<1> DEFINE j == call[c].job
           new == IF call[c].mode = "server" THEN SignedRow(call[c], db[j])
                  ELSE ConfirmedRow(call[c], db[j])
           k == [call[c] EXCEPT !.pc = "tell"]
<1>1. /\ \/ call[c].pc = "record" /\ ~(call[c].op = "TopUp" /\ call[c].mode = "server")
         \/ call[c].pc = "save"
      /\ db' = [db EXCEPT ![j] = new] /\ call' = [call EXCEPT ![c] = k]
      /\ UNCHANGED <<escrow, active, completed, notice, net>> /\ strays' = strays
  BY DEF Record, Goto, chain, told
<1>2. /\ DOMAIN call[c] = CallFields /\ net' = {} /\ j \in Jobs
      /\ j \notin strays => InTurn(call[c], db[j], escrow[j], active[j], completed[j])
      /\ c \in Calls /\ DOMAIN call = Calls /\ Handled \subseteq {c}
  BY <1>1, Turns
<1>3. DOMAIN db = Jobs /\ DOMAIN db[j] = RowFields
  BY <1>2 DEF Inv, RowsTrail
<1>4. j \notin strays => Same(new, escrow[j])
  BY <1>1, <1>2, <1>3, RecordAgrees
<1>5. /\ k.pc = "tell" /\ k.op = call[c].op /\ k.job = j /\ k.mode = call[c].mode
      /\ k.seen = call[c].seen /\ k.wallet = call[c].wallet
  BY <1>2 DEF CallFields
<1> HIDE DEF k, new
<1>6. \A i \in Jobs \ strays : Same(db'[i], escrow'[i])
  <2> TAKE i \in Jobs \ strays
  <2>1. CASE i = j
    BY <1>1, <1>3, <1>4, <2>1
  <2>2. CASE i # j
    BY <1>1, <1>3, <2>2, Turns
  <2> QED BY <2>1, <2>2
<1>7. j \notin strays =>
        InTurn(k, db'[k.job], escrow'[k.job], active'[k.job], completed'[k.job])
  <2>1. j \notin strays => \A r : InTurn(k, r, escrow[j], active[j], completed[j])
    BY <1>1, <1>2, <1>5 DEF InTurn, Landed, Untold
  <2> QED BY <1>1, <1>5, <2>1
<1>8. /\ DOMAIN active' = Jobs /\ DOMAIN completed' = Jobs /\ DOMAIN notice' = Jobs
      /\ \A i \in Jobs \ strays :
           /\ completed'[i] \in BOOLEAN /\ Noticed(notice'[i], completed'[i], escrow'[i])
           /\ ~(Untold(k) /\ k.job = i) => ToldFits(active'[i], completed'[i], escrow'[i])
  <2>1. Untold(call[c]) => Untold(k)
    BY <1>1, <1>5 DEF Untold, Landed
  <2> QED BY <1>1, <1>5, <2>1, Turns
<1> QED
  BY <1>1, <1>2, <1>5, <1>6, <1>7, <1>8, LoneCall

(* What a call in turn tells is what the program did.                      *)
LEMMA TellFits ==
  ASSUME NEW k, NEW r, NEW e, NEW shown, NEW complete, InTurn(k, r, e, shown, complete),
         k.pc = "tell",
         k.op = "Confirm" => ToldFits(shown, complete, e) /\ complete \in BOOLEAN,
         Account(e)
  PROVE  /\ complete = FALSE \/ (complete = TRUE /\ k.mode # "server")
         /\ complete = TRUE => e.status = "Released"
         /\ Outcome(k) = "Released" <=> e.status = "Released"
         /\ Outcome(k) = "Funded" => e.status = "Funded"
         /\ Outcome(k) = "Refunded" <=> e.status = "Refunded"
         /\ Outcome(k) # "Funded" => shown = "yes" \/ e.status = "Refunded"
         /\ e.status \in {"Funded", "Locked", "Released", "Refunded"}
<1>1. /\ k.op \in Seven /\ (k.op = "Confirm" => k.mode # "server")
      /\ k.op \in Six => /\ Result(k.op, e) /\ complete = FALSE
                         /\ k.op # "Fund" => shown = "yes"
      /\ k.op = "Confirm" => e.status # "None"
  BY DEF InTurn, Untold, Six
<1>2. CASE k.mode # "server"
  <2>1. k.seen = e
    BY <1>2 DEF InTurn
  <2>2. e.status # "None"
    BY <1>1 DEF Result, Six, Seven
  <2>3. e # NoEscrow
    BY <2>2 DEF NoEscrow, Chain!NoEscrow
  <2>4. Outcome(k) = e.status
    BY <1>2, <2>1, <2>3 DEF Outcome, ConfirmedStatus
  <2>5. CASE k.op = "Confirm"
    BY <1>2, <2>2, <2>4, <2>5 DEF Account, ToldFits
  <2>6. CASE k.op \in Six
    BY <1>1, <2>4, <2>6 DEF Result, Six
  <2> QED BY <1>1, <2>5, <2>6 DEF Seven
<1>3. CASE k.mode = "server"
  BY <1>1, <1>3 DEF Outcome, Result, Six, Seven
<1> QED
  BY <1>2, <1>3

LEMMA TellInOrder ==
  ASSUME Inv, InOrder, flops = {}, NEW c \in Handled, Tell(c)
  PROVE  InOrder'
<1> DEFINE j == call[c].job
           outcome == Outcome(call[c])
           k == EndedCall(call[c])
<1>1. /\ call[c].pc = "tell" /\ UNCHANGED <<escrow, db, net>> /\ strays' = strays
      /\ call' = [call EXCEPT ![c] = k]
  BY DEF Tell, End, EndedCall, chain
<1>2. /\ net' = {} /\ j \in Jobs /\ c \in Calls /\ DOMAIN call = Calls /\ Handled \subseteq {c}
      /\ j \notin strays => InTurn(call[c], db[j], escrow[j], active[j], completed[j])
      /\ DOMAIN active = Jobs /\ DOMAIN completed = Jobs /\ DOMAIN notice = Jobs
      /\ \A i \in Jobs \ strays : Same(db[i], escrow[i])
  BY <1>1, Turns DEF Landed
<1>3. j \notin strays =>
        /\ completed[j] = FALSE \/ (completed[j] = TRUE /\ call[c].mode # "server")
        /\ completed[j] = TRUE => escrow[j].status = "Released"
        /\ outcome = "Released" <=> escrow[j].status = "Released"
        /\ outcome = "Funded" => escrow[j].status = "Funded"
        /\ outcome = "Refunded" <=> escrow[j].status = "Refunded"
        /\ outcome # "Funded" => active[j] = "yes" \/ escrow[j].status = "Refunded"
        /\ escrow[j].status \in {"Funded", "Locked", "Released", "Refunded"}
  <2> SUFFICES ASSUME j \notin strays PROVE
        /\ completed[j] = FALSE \/ (completed[j] = TRUE /\ call[c].mode # "server")
        /\ completed[j] = TRUE => escrow[j].status = "Released"
        /\ outcome = "Released" <=> escrow[j].status = "Released"
        /\ outcome = "Funded" => escrow[j].status = "Funded"
        /\ outcome = "Refunded" <=> escrow[j].status = "Refunded"
        /\ outcome # "Funded" => active[j] = "yes" \/ escrow[j].status = "Refunded"
        /\ escrow[j].status \in {"Funded", "Locked", "Released", "Refunded"}
    OBVIOUS
  <2> DEFINE kk == call[c]
             r == db[j]
             e == escrow[j]
             shown == active[j]
             complete == completed[j]
  <2>1. InTurn(kk, r, e, shown, complete) /\ kk.pc = "tell" /\ Account(e)
    BY <1>1, <1>2 DEF Inv, AccountsInOrder
  <2>2. outcome = Outcome(kk)
    OBVIOUS
  <2>3. kk.op = "Confirm" => ToldFits(shown, complete, e) /\ complete \in BOOLEAN
    BY <1>2, Turns DEF Untold, Landed
  <2>4. kk.mode = call[c].mode
    OBVIOUS
  <2> HIDE DEF outcome, j, kk, r, e, shown, complete
  <2>5. /\ complete = FALSE \/ (complete = TRUE /\ kk.mode # "server")
        /\ complete = TRUE => e.status = "Released"
        /\ Outcome(kk) = "Released" <=> e.status = "Released"
        /\ Outcome(kk) = "Funded" => e.status = "Funded"
        /\ Outcome(kk) = "Refunded" <=> e.status = "Refunded"
        /\ Outcome(kk) # "Funded" => shown = "yes" \/ e.status = "Refunded"
        /\ e.status \in {"Funded", "Locked", "Released", "Refunded"}
    BY <2>1, <2>3, TellFits
  <2> QED BY <2>2, <2>4, <2>5 DEF e, shown, complete
<1>4. k.pc = "ended"
  BY DEF EndedCall, NoCall
<1> HIDE DEF k
<1>5. DOMAIN active' = Jobs /\ DOMAIN completed' = Jobs /\ DOMAIN notice' = Jobs
  BY <1>2 DEF Tell
<1>6. \A i \in Jobs \ {j} : /\ active'[i] = active[i] /\ completed'[i] = completed[i]
                            /\ notice'[i] = notice[i]
  BY <1>2 DEF Tell
<1>7. active'[j] = CASE outcome = "Funded" -> "yes" [] outcome = "Refunded" -> "no"
                     [] OTHER -> active[j]
  BY <1>2 DEF Tell
<1>8. completed'[j] = (completed[j] \/ outcome = "Released")
  BY <1>2 DEF Tell
<1>9. notice'[j] = IF outcome = "Released" /\ call[c].mode = "server" THEN db[j].freelancer
                   ELSE notice[j]
  BY <1>2 DEF Tell
<1>10. j \notin strays =>
         ToldFits(active'[j], completed'[j], escrow[j]) /\ completed'[j] \in BOOLEAN
  <2> HIDE DEF outcome, j
  <2> QED BY <1>3, <1>7, <1>8 DEF ToldFits
<1>11. db[j].freelancer # NoKey => db[j].freelancer = escrow[j].freelancer
  BY <1>2 DEF Inv, RowsTrail, Trails
<1>12. j \notin strays => Noticed(notice'[j], completed'[j], escrow[j])
  <2>1. j \notin strays => Noticed(notice[j], completed[j], escrow[j])
    BY <1>2, Turns
  <2> HIDE DEF outcome, j
  <2> QED BY <1>3, <1>8, <1>9, <1>11, <2>1 DEF Noticed
<1>13. \A i \in Jobs \ strays :
         /\ completed'[i] \in BOOLEAN /\ Noticed(notice'[i], completed'[i], escrow'[i])
         /\ ToldFits(active'[i], completed'[i], escrow'[i])
  <2> TAKE i \in Jobs \ strays
  <2>1. CASE i = j
    BY <1>1, <1>10, <1>12, <2>1
  <2>2. CASE i # j
    BY <1>1, <1>6, <2>2, Turns
  <2> QED BY <2>1, <2>2
<1> QED
  BY <1>1, <1>2, <1>4, <1>5, <1>13, LoneCall

(* What a transaction makes of the account of its job.                     *)
Turned(t, old, new) ==
  /\ Result(t.op, new)
  /\ t.op = "Fund" => old.status = "None" /\ new.amount = Deposit /\ new.client = t.signer
  /\ t.op = "TopUp" => /\ old.status \in {"Funded", "Locked"} /\ new.status = old.status
                       /\ new.amount = old.amount + Deposit
                       /\ new.client = old.client /\ new.client = t.signer
  /\ t.op = "Lock" => /\ old.status = "Funded"
                      /\ new.amount = old.amount /\ new.client = old.client
  /\ t.op = "Release" => old.status = "Locked"
  /\ t.op \in {"Withdraw", "Refund"} => old.status \in {"Funded", "Locked"}

LEMMA SubmitTurns ==
  ASSUME AccountsInOrder, NEW t, t.job \in Jobs, Submit(t)
  PROVE  /\ t.op \in Six
         /\ Turned(t, escrow[t.job], escrow'[t.job])
         /\ \A i \in Jobs : i # t.job => escrow'[i] = escrow[i]
<1> DEFINE j == t.job
           old == escrow[j]
<1>1. DOMAIN old = AccountFields /\ j \in Jobs /\ DOMAIN escrow = Jobs
  BY DEF AccountsInOrder, Account
<1>2. ASSUME NEW e, escrow' = [escrow EXCEPT ![j] = e], t.op \in Six, Turned(t, old, e)
      PROVE  /\ t.op \in Six
             /\ Turned(t, old, escrow'[j])
             /\ \A i \in Jobs : i # j => escrow'[i] = escrow[i]
  BY <1>1, <1>2
<1> HIDE DEF j, old
<1>3. CASE t.op = "Fund" /\ Chain!Initialize(t.signer, Authority, j, Deposit)
  <2> DEFINE e == Chain!Opened(t.signer, Authority, Deposit)
  <2>1. old = Chain!NoEscrow /\ escrow' = [escrow EXCEPT ![j] = e]
    BY <1>3 DEF Chain!Initialize, Chain!CanInitialize, old
  <2>2. Turned(t, old, e)
    BY <1>3, <2>1 DEF Chain!Opened, Chain!NoEscrow, Turned, Result
  <2> HIDE DEF e
  <2> QED BY <1>2, <1>3, <2>1, <2>2 DEF j, old, Six
<1>4. ASSUME NEW fee, t.op = "TopUp", old.status \in {"Funded", "Locked"},
             old.client = t.signer,
             escrow' = [escrow EXCEPT ![j] = Chain!ToppedUp(old, Deposit, fee)]
      PROVE  /\ t.op \in Six
             /\ Turned(t, old, escrow'[j])
             /\ \A i \in Jobs : i # j => escrow'[i] = escrow[i]
  <2> DEFINE e == Chain!ToppedUp(old, Deposit, fee)
  <2>1. /\ e.status = old.status /\ e.client = old.client
        /\ e.amount = old.amount + Deposit
    BY <1>1 DEF Chain!ToppedUp, AccountFields
  <2>2. escrow' = [escrow EXCEPT ![j] = e]
    BY <1>4
  <2> HIDE DEF e
  <2>3. Turned(t, old, e)
    BY <1>4, <2>1 DEF Turned, Result
  <2> QED BY <1>2, <1>4, <2>2, <2>3 DEF Six
<1>5. CASE t.op = "TopUp" /\ Chain!TopUpFunded(t.signer, j, Deposit)
  <2>1. /\ old.status = "Funded" /\ old.client = t.signer
        /\ escrow' = [escrow EXCEPT ![j] = Chain!ToppedUp(old, Deposit, Chain!Fee(Deposit))]
    BY <1>5 DEF Chain!TopUpFunded, Chain!CanTopUpFunded, old
  <2> QED BY <1>4, <1>5, <2>1 DEF j, old
<1>6. CASE t.op = "TopUp" /\ Chain!TopUpLocked(t.signer, j, Deposit)
  <2>1. /\ old.status = "Locked" /\ old.client = t.signer
        /\ escrow' = [escrow EXCEPT ![j] = Chain!ToppedUp(old, Deposit, 0)]
    BY <1>6 DEF Chain!TopUpLocked, Chain!CanTopUpLocked, old
  <2> QED BY <1>4, <1>6, <2>1 DEF j, old
<1>7. ASSUME t.op \in {"Withdraw", "Refund"}, old.status \in {"Funded", "Locked"},
             escrow' = [escrow EXCEPT ![j] = Chain!Refunded(old)]
      PROVE  /\ t.op \in Six
             /\ Turned(t, old, escrow'[j])
             /\ \A i \in Jobs : i # j => escrow'[i] = escrow[i]
  <2> DEFINE e == Chain!Refunded(old)
  <2>1. e.status = "Refunded"
    BY <1>1 DEF Chain!Refunded, AccountFields
  <2>2. escrow' = [escrow EXCEPT ![j] = e]
    BY <1>7
  <2> HIDE DEF e
  <2>3. Turned(t, old, e)
    BY <1>7, <2>1 DEF Turned, Result
  <2> QED BY <1>2, <1>7, <2>2, <2>3 DEF Six
<1>8. CASE t.op = "Withdraw" /\ Chain!Withdraw(t.signer, j)
  <2>1. old.status = "Funded" /\ escrow' = [escrow EXCEPT ![j] = Chain!Refunded(old)]
    BY <1>8 DEF Chain!Withdraw, Chain!CanWithdraw, Chain!PayBack, Chain!CanPayBack, old
  <2> QED BY <1>7, <1>8, <2>1 DEF j, old
<1>9. CASE t.op = "Refund" /\ Chain!Refund(Authority, j)
  <2>1. /\ old.status \in {"Funded", "Locked"}
        /\ escrow' = [escrow EXCEPT ![j] = Chain!Refunded(old)]
    BY <1>9 DEF Chain!Refund, Chain!CanRefund, Chain!PayBack, Chain!CanPayBack, old
  <2> QED BY <1>7, <1>9, <2>1 DEF j, old
<1>10. CASE t.op = "Release" /\ Chain!Release(t.signer, j, t.payee)
  <2> DEFINE e == Chain!Released(old)
  <2>1. old.status = "Locked" /\ escrow' = [escrow EXCEPT ![j] = e]
    BY <1>10 DEF Chain!Release, Chain!CanRelease, Chain!MayRelease, old
  <2>2. Turned(t, old, e)
    BY <1>1, <1>10, <2>1 DEF Chain!Released, AccountFields, Turned, Result
  <2> HIDE DEF e
  <2> QED BY <1>2, <1>10, <2>1, <2>2 DEF j, old, Six
<1>11. CASE t.op = "Lock" /\ Chain!Lock(Authority, j, t.payee)
  <2> DEFINE e == Chain!LockedFor(old, t.payee)
  <2>1. old.status = "Funded" /\ escrow' = [escrow EXCEPT ![j] = e]
    BY <1>11 DEF Chain!Lock, Chain!CanLock, old
  <2>2. Turned(t, old, e)
    BY <1>1, <1>11, <2>1 DEF Chain!LockedFor, AccountFields, Turned, Result
  <2> HIDE DEF e
  <2> QED BY <1>2, <1>11, <2>1, <2>2 DEF j, old, Six
<1> QED
  BY <1>3, <1>5, <1>6, <1>8, <1>9, <1>10, <1>11 DEF Submit, j

(* The transaction on its way is that of the only call handled.            *)
LEMMA OnItsWay ==
  ASSUME Inv, InOrder, NEW t \in net
  PROVE  /\ t.call \in Handled /\ t.job = call[t.call].job /\ t.op = call[t.call].op
         /\ call[t.call].pc = "wait" /\ call[t.call].outcome = "none"
         /\ call[t.call].tries = t.try /\ call[t.call].wallet = t.signer
         /\ net \ {t} = {}
<1>1. /\ t.call \in Handled
      /\ call[t.call].pc = "wait" /\ call[t.call].outcome = "none"
      /\ call[t.call].tries = t.try /\ call[t.call].wallet = t.signer
      /\ \A s \in net : s = t
  BY DEF InOrder, NetInTurn
<1>2. t.job = call[t.call].job /\ t.op = call[t.call].op
  BY DEF Inv, NetKnown, Sent
<1> QED
  BY <1>1, <1>2

(* What a call knows when its transaction has landed.                      *)
LEMMA TurnsOver ==
  ASSUME NEW k, NEW t, NEW r, NEW old, NEW new, NEW shown, NEW complete \in BOOLEAN,
         t.op \in Six, InTurn(k, r, old, shown, complete), Turned(t, old, new),
         k.pc = "wait", k.op = t.op, k.wallet = t.signer,
         Same(r, old), ToldFits(shown, complete, old),
         NEW l, l.pc = "wait", l.op = k.op, l.mode = k.mode, l.seen = k.seen,
         l.wallet = k.wallet
  PROVE  /\ InTurn(l, r, new, shown, complete) /\ complete = FALSE
<1>1. k.op \in Six
  BY DEF InTurn, Six
<1>2. complete = FALSE /\ (k.op # "Fund" => shown = "yes")
  BY <1>1 DEF Turned, ToldFits, Six
<1>3. k.op = "Lock" => k.seen.amount = new.amount /\ k.seen.client = new.client
  BY DEF InTurn, Turned
<1>4. Behind(l, r, new)
  <2>1. k.op \in {"TopUp", "Withdraw", "Release"} => r # NoRow
    BY DEF Turned, Same, NoRow
  <2>2. k.op = "Fund" => new.amount = Deposit /\ new.client = k.wallet
    BY DEF Turned
  <2>3. k.op = "TopUp" => /\ r.status = new.status /\ new.amount = r.amount + Deposit
                          /\ r.wallet = new.client /\ new.client = k.wallet
    BY DEF Turned, Same
  <2> QED BY <2>1, <2>2, <2>3 DEF Behind
<1>5. Result(l.op, new)
  BY DEF Turned
<1>6. DOMAIN l.seen = AccountFields /\ (l.op \in {"Lock", "Refund"} => l.mode = "server")
  BY DEF InTurn
<1> QED
  BY <1>1, <1>2, <1>3, <1>4, <1>5, <1>6 DEF InTurn, Six, Seven

LEMMA LandInOrder == ASSUME Inv, InOrder, NEW t \in net, Land(t) PROVE InOrder'
<1> DEFINE c == t.call
           j == t.job
           k == [call[c] EXCEPT !.outcome = "ok"]
<1>1. /\ c \in Handled /\ j = call[c].job /\ t.op = call[c].op
      /\ call[c].pc = "wait" /\ call[c].outcome = "none"
      /\ call[c].tries = t.try /\ call[c].wallet = t.signer /\ net \ {t} = {}
  BY OnItsWay
<1>2. /\ net' = {} /\ Submit(t) /\ call' = [call EXCEPT ![c] = k]
      /\ UNCHANGED <<db, active, completed, notice>> /\ strays' = strays
  BY <1>1 DEF Land, Report, told
<1>3. /\ c \in Calls /\ DOMAIN call = Calls /\ Handled \subseteq {c} /\ j \in Jobs
      /\ DOMAIN call[c] = CallFields
      /\ j \notin strays => InTurn(call[c], db[j], escrow[j], active[j], completed[j])
      /\ DOMAIN active = Jobs /\ DOMAIN completed = Jobs /\ DOMAIN notice = Jobs
  BY <1>1, Turns
<1>4. ~Landed(call[c]) /\ ~Untold(call[c])
  BY <1>1 DEF Landed, Untold
<1>5. \A i \in Jobs \ strays :
        /\ Same(db[i], escrow[i]) /\ ToldFits(active[i], completed[i], escrow[i])
        /\ completed[i] \in BOOLEAN /\ Noticed(notice[i], completed[i], escrow[i])
  BY <1>1, <1>4, Turns
<1>6. /\ Turned(t, escrow[j], escrow'[j]) /\ t.op \in Six
      /\ \A i \in Jobs : i # j => escrow'[i] = escrow[i]
  BY <1>2, <1>3, SubmitTurns DEF Inv
<1>7. /\ k.pc = "wait" /\ k.outcome = "ok" /\ k.op = call[c].op /\ k.job = j
      /\ k.mode = call[c].mode /\ k.seen = call[c].seen /\ k.wallet = call[c].wallet
  BY <1>1, <1>3 DEF CallFields
<1> HIDE DEF k
<1>8. j \notin strays =>
        InTurn(k, db[j], escrow'[j], active[j], completed[j]) /\ completed[j] = FALSE
  <2> SUFFICES ASSUME j \notin strays
               PROVE  InTurn(k, db[j], escrow'[j], active[j], completed[j])
                      /\ completed[j] = FALSE
    OBVIOUS
  <2> DEFINE kk == call[c]
             r == db[j]
             old == escrow[j]
             new == escrow'[j]
             shown == active[j]
             complete == completed[j]
  <2>1. /\ InTurn(kk, r, old, shown, complete) /\ Turned(t, old, new) /\ t.op \in Six
        /\ kk.pc = "wait" /\ kk.op = t.op /\ kk.wallet = t.signer
        /\ Same(r, old) /\ ToldFits(shown, complete, old) /\ complete \in BOOLEAN
        /\ k.pc = "wait" /\ k.op = kk.op /\ k.mode = kk.mode /\ k.seen = kk.seen
        /\ k.wallet = kk.wallet
    BY <1>1, <1>3, <1>5, <1>6, <1>7
  <2> HIDE DEF kk, r, old, new, shown, complete
  <2>2. InTurn(k, r, new, shown, complete) /\ complete = FALSE
    BY <2>1, TurnsOver
  <2> QED BY <2>2 DEF r, new, shown, complete
<1>9. Untold(k) /\ Landed(k)
  BY <1>1, <1>6, <1>7 DEF Untold, Landed, Six
<1>10. \A i \in Jobs \ strays : ~(Landed(k) /\ k.job = i) => Same(db'[i], escrow'[i])
  BY <1>2, <1>5, <1>6, <1>7, <1>9
<1>11. \A i \in Jobs \ strays :
         /\ completed'[i] \in BOOLEAN /\ Noticed(notice'[i], completed'[i], escrow'[i])
         /\ ~(Untold(k) /\ k.job = i) => ToldFits(active'[i], completed'[i], escrow'[i])
  <2> TAKE i \in Jobs \ strays
  <2>1. CASE i # j
    BY <1>2, <1>5, <1>6, <2>1
  <2>2. CASE i = j
    <3>1. Noticed(notice[j], completed[j], escrow'[j])
      BY <1>3, <1>5, <1>8, <2>2 DEF Noticed
    <3> QED BY <1>2, <1>5, <1>7, <1>9, <2>2, <3>1
  <2> QED BY <2>1, <2>2
<1>12. j \notin strays => InTurn(k, db'[k.job], escrow'[k.job], active'[k.job], completed'[k.job])
  BY <1>2, <1>7, <1>8
<1> QED
  BY <1>2, <1>3, <1>7, <1>10, <1>11, <1>12, LoneCall

LEMMA ExpireInOrder == ASSUME Inv, InOrder, NEW t \in net, Expire(t) PROVE InOrder'
<1> DEFINE c == t.call
           j == t.job
           k == [call[c] EXCEPT !.outcome = "expired"]
<1>1. /\ c \in Handled /\ j = call[c].job /\ call[c].pc = "wait" /\ call[c].outcome = "none"
      /\ call[c].tries = t.try /\ net \ {t} = {}
  BY OnItsWay
<1>2. /\ net' = {} /\ call' = [call EXCEPT ![c] = k]
      /\ UNCHANGED <<escrow, db, active, completed, notice>> /\ strays' = strays
  BY <1>1 DEF Expire, Report, chain, told
<1>3. /\ DOMAIN call[c] = CallFields
      /\ j \notin strays => InTurn(call[c], db[j], escrow[j], active[j], completed[j])
  BY <1>1, Turns
<1>4. /\ k.pc = "wait" /\ k.outcome = "expired" /\ k.op = call[c].op /\ k.job = j
      /\ k.mode = call[c].mode /\ k.seen = call[c].seen /\ k.wallet = call[c].wallet
  BY <1>1, <1>3 DEF CallFields
<1> HIDE DEF k
<1>5. j \notin strays => InTurn(k, db[k.job], escrow[k.job], active[k.job], completed[k.job])
  BY <1>1, <1>3, <1>4 DEF InTurn, Landed, Untold
<1> QED
  BY <1>1, <1>2, <1>4, <1>5, LoneStep DEF Landed, Untold

LEMMA TidyInitially == Init => Tidy
<1> SUFFICES ASSUME Init PROVE Tidy
  OBVIOUS
<1>1. /\ escrow = [j \in Jobs |-> Chain!NoEscrow] /\ db = [j \in Jobs |-> NoRow]
      /\ call = [c \in Calls |-> NoCall] /\ net = {} /\ flops = {}
      /\ active = [j \in Jobs |-> "unset"] /\ completed = [j \in Jobs |-> FALSE]
      /\ notice = [j \in Jobs |-> "none"]
  BY DEF Init, Chain!Init
<1>2. Handled = {}
  BY <1>1 DEF Handled, NoCall
<1>3. Same(NoRow, Chain!NoEscrow)
  BY DEF Same, NoRow, Chain!NoEscrow
<1>4. ToldFits("unset", FALSE, Chain!NoEscrow) /\ Noticed("none", FALSE, Chain!NoEscrow)
  BY DEF ToldFits, Noticed, Chain!NoEscrow
<1>5. RowsAgree /\ ToldRight
  BY <1>1, <1>3, <1>4 DEF RowsAgree, ToldRight
<1>6. Alone /\ NetInTurn /\ CallsInTurn
  BY <1>1, <1>2 DEF Alone, NetInTurn, CallsInTurn
<1> QED
  BY <1>1, <1>5, <1>6 DEF Tidy, InOrder

LEMMA HandlerInOrder ==
  ASSUME Inv, InOrder, orderly', flops = {}, NEW c \in Calls, Handle(c)
  PROVE  InOrder'
<1>1. c \in Handled
  BY DEF Handle, Check, Verify, Send, Settled, Reread, ReadRow, Record, Tell, Handled
<1> QED
  BY <1>1, CheckInOrder, VerifyInOrder, SendInOrder, SettledInOrder, RereadInOrder,
     ReadRowInOrder, RecordInOrder, TellInOrder DEF Handle

(* Whatever steps out of order ends the orderly time.                      *)
LEMMA TidyNext == Inv /\ Tidy /\ [Next]_vars => Tidy'
<1> SUFFICES ASSUME Inv, Tidy, [Next]_vars, orderly' PROVE flops' = {} /\ InOrder'
  BY DEF Tidy
<1>1. ASSUME orderly PROVE flops = {} /\ InOrder
  BY <1>1 DEF Tidy
<1>2. ASSUME NEW c \in Calls, NEW op \in Ops, NEW j \in Jobs, NEW w \in Clients, NEW m \in Modes,
             NEW f \in Freelancers \cup {NoKey}, Request(c, op, j, w, m, f)
      PROVE  flops' = {} /\ InOrder'
  <2>1. flops' = flops /\ orderly /\ Handled = {}
    BY <1>2 DEF Request
  <2> QED BY <1>1, <1>2, <2>1, RequestInOrder
<1>3. ASSUME NEW c \in Calls, Handle(c) PROVE flops' = {} /\ InOrder'
  <2>1. flops' = flops /\ orderly
    BY <1>3 DEF Handle, Check, Verify, Send, Settled, Reread, ReadRow, Record, Tell
  <2> QED BY <1>1, <1>3, <2>1, HandlerInOrder
<1>4. ASSUME NEW t \in net, Land(t) \/ Expire(t) PROVE flops' = {} /\ InOrder'
  <2>1. flops' = flops /\ orderly
    BY <1>4 DEF Land, Expire
  <2> QED BY <1>1, <1>4, <2>1, LandInOrder, ExpireInOrder
<1>5. ASSUME NEW t \in net, Flop(t) PROVE FALSE
  BY <1>5 DEF Flop
<1>6. ASSUME NEW c \in Calls, LoseTouch(c) PROVE FALSE
  BY <1>6 DEF LoseTouch
<1>7. ASSUME NEW c \in Calls, Crash(c) PROVE FALSE
  BY <1>7 DEF Crash
<1>8. ASSUME UNCHANGED <<escrow, db, call, net, flops, strays, orderly, active, completed, notice>>
      PROVE  flops' = {} /\ InOrder'
  <2>1. Handled' = Handled
    BY <1>8 DEF Handled
  <2> QED
    BY <1>1, <1>8, <2>1 DEF InOrder, Alone, NetInTurn, CallsInTurn, RowsAgree, ToldRight
<1>9. ASSUME NEW w, NEW n, WithdrawFees(w, n) PROVE flops' = {} /\ InOrder'
  BY <1>8, <1>9 DEF WithdrawFees, Chain!WithdrawFees, told
<1>10. CASE UNCHANGED vars
  BY <1>8, <1>10 DEF vars, chain, told
<1> QED
  BY <1>2, <1>3, <1>4, <1>5, <1>6, <1>7, <1>9, <1>10 DEF Next, Confirm

LEMMA TidyAlways == Spec => []Tidy
<1> QED
  BY TidyInitially, TidyNext, CallsBackedAlways, PTL DEF Spec

(* AgreesWhenQuiet: as long as calls come one after another and nothing    *)
(* goes wrong, the row and the account of a job that only its client ever  *)
(* confirmed stay together, whatever was refused or expired on the way.    *)
THEOREM QuietAgrees == Spec => []AgreesWhenQuiet
<1>1. Tidy => AgreesWhenQuiet
  BY DEF Tidy, InOrder, RowsAgree, Same, Quiet, AgreesWhenQuiet
<1> QED
  BY <1>1, TidyAlways, PTL

(* ToldWhenQuiet: and what the other services were told fits.              *)
THEOREM QuietTold == Spec => []ToldWhenQuiet
<1>1. ASSUME InOrder, Quiet, NEW j \in Jobs \ strays
      PROVE  /\ active[j] = "yes" <=> escrow[j].status \in {"Funded", "Locked", "Released"}
             /\ completed[j] <=> escrow[j].status = "Released"
             /\ notice[j] \notin {"none", NoKey} => completed[j] /\ notice[j] = escrow[j].freelancer
  <2>1. /\ ToldFits(active[j], completed[j], escrow[j]) /\ completed[j] \in BOOLEAN
        /\ Noticed(notice[j], completed[j], escrow[j])
    BY <1>1 DEF Quiet, InOrder, ToldRight
  <2> QED BY <2>1 DEF ToldFits, Noticed
<1>2. Tidy => ToldWhenQuiet
  BY <1>1 DEF Tidy, ToldWhenQuiet
<1> QED
  BY <1>2, TidyAlways, PTL

-----------------------------------------------------------------------------
(* The program under the service *)

(* The service only ever acts for wallets there are.                       *)
WalletsKnown ==
  /\ \A c \in Handled : call[c].wallet \in Clients /\ call[c].hire \in Freelancers \cup {NoKey}
  /\ \A t \in net : t.signer \in Clients /\ (t.op = "Lock" => t.payee \in Freelancers)
  /\ \A j \in Jobs : escrow[j].freelancer \in Freelancers \cup {NoKey}

LEMMA WalletsOnward ==
  ASSUME Inv, WalletsKnown, NEW c \in Calls, NEW k, Onward(c, k), UNCHANGED <<escrow, net>>
  PROVE  WalletsKnown'
<1>1. /\ DOMAIN call = Calls /\ call' = [call EXCEPT ![c] = k] /\ c \in Handled
      /\ k.pc # "ended" => k.hire = call[c].hire /\ k.wallet = call[c].wallet
  BY DEF Inv, CallsBacked, Onward, Going, Handled
<1>2. ASSUME NEW d \in Handled'
      PROVE  call'[d].wallet \in Clients /\ call'[d].hire \in Freelancers \cup {NoKey}
  <2>1. d \in Calls /\ call'[d].pc \notin {"idle", "ended"}
    BY DEF Handled
  <2>2. CASE d = c
    BY <1>1, <2>1, <2>2 DEF WalletsKnown
  <2>3. CASE d # c
    <3>1. call'[d] = call[d] /\ d \in Handled
      BY <1>1, <2>1, <2>3 DEF Handled
    <3> QED BY <3>1 DEF WalletsKnown
  <2> QED BY <2>2, <2>3
<1> QED
  BY <1>2 DEF WalletsKnown

LEMMA WalletsRequest ==
  ASSUME Inv, WalletsKnown, NEW c \in Calls, NEW op, NEW j \in Jobs, NEW w \in Clients, NEW m,
         NEW f \in Freelancers \cup {NoKey}, Request(c, op, j, w, m, f)
  PROVE  WalletsKnown'
<1> DEFINE k == [NoCall EXCEPT !.pc = "check", !.op = op, !.job = j, !.mode = m,
                               !.wallet = w, !.hire = f]
<1>1. /\ DOMAIN call = Calls /\ call' = [call EXCEPT ![c] = k] /\ UNCHANGED <<escrow, net>>
  BY DEF Inv, CallsBacked, Request, chain
<1>2. k.wallet = w /\ k.hire = f
  BY DEF NoCall
<1> HIDE DEF k
<1>3. ASSUME NEW d \in Handled'
      PROVE  call'[d].wallet \in Clients /\ call'[d].hire \in Freelancers \cup {NoKey}
  <2>1. CASE d = c
    BY <1>1, <1>2, <2>1
  <2>2. CASE d # c
    <3>1. call'[d] = call[d] /\ d \in Handled
      BY <1>1, <2>2 DEF Handled
    <3> QED BY <3>1 DEF WalletsKnown
  <2> QED BY <2>1, <2>2
<1> QED
  BY <1>1, <1>3 DEF WalletsKnown

LEMMA WalletsSend ==
  ASSUME Inv, WalletsKnown, NEW c \in Calls, Send(c), net' = net \cup {Tx(c)}, Goto(c, "wait")
  PROVE  WalletsKnown'
<1> DEFINE k == [call[c] EXCEPT !.pc = "wait"]
<1>1. /\ DOMAIN call = Calls /\ call' = [call EXCEPT ![c] = k] /\ escrow' = escrow
      /\ DOMAIN call[c] = CallFields /\ c \in Handled
      /\ call[c].op = "Lock" => call[c].hire # NoKey
  BY DEF Inv, CallsBacked, Backed, Send, Goto, Handled, chain
<1>2. k.wallet = call[c].wallet /\ k.hire = call[c].hire
  BY <1>1 DEF CallFields
<1> HIDE DEF k
<1>3. ASSUME NEW d \in Handled'
      PROVE  call'[d].wallet \in Clients /\ call'[d].hire \in Freelancers \cup {NoKey}
  <2>1. CASE d = c
    BY <1>1, <1>2, <2>1 DEF WalletsKnown
  <2>2. CASE d # c
    <3>1. call'[d] = call[d] /\ d \in Handled
      BY <1>1, <2>2 DEF Handled
    <3> QED BY <3>1 DEF WalletsKnown
  <2> QED BY <2>1, <2>2
<1>4. Tx(c).signer = call[c].wallet /\ (Tx(c).op = "Lock" => Tx(c).payee = call[c].hire)
      /\ Tx(c).op = call[c].op
  BY DEF Tx
<1>5. Tx(c).signer \in Clients /\ (Tx(c).op = "Lock" => Tx(c).payee \in Freelancers)
  BY <1>1, <1>4 DEF WalletsKnown
<1> QED
  BY <1>1, <1>3, <1>5 DEF WalletsKnown

(* A transaction the service sent is an instruction of the program.        *)
LEMMA Instruction ==
  ASSUME Inv, WalletsKnown, NEW t \in net, Submit(t)
  PROVE  /\ Chain!Next
         /\ \A j \in Jobs : escrow'[j].freelancer \in Freelancers \cup {NoKey}
<1> DEFINE j == t.job
           Known2 == \A i \in Jobs : escrow'[i].freelancer \in Freelancers \cup {NoKey}
<1>1. /\ t.signer \in Clients /\ (t.op = "Lock" => t.payee \in Freelancers)
      /\ \A i \in Jobs : escrow[i].freelancer \in Freelancers \cup {NoKey}
  BY DEF WalletsKnown
<1>2. j \in Jobs /\ AccountsInOrder
  BY DEF Inv, NetKnown, CallsBacked, Backed, Sent
<1>3. t.signer \in Chain!Wallets /\ Authority \in Chain!Wallets
  BY <1>1 DEF Chain!Wallets
<1>4. DOMAIN escrow = Jobs /\ DOMAIN escrow[j] = AccountFields
  BY <1>2 DEF AccountsInOrder, Account
<1>5. ASSUME NEW e, escrow' = [escrow EXCEPT ![j] = e],
             e.freelancer \in Freelancers \cup {NoKey}
      PROVE  Known2
  BY <1>1, <1>4, <1>5
<1>6. \A fee : Chain!ToppedUp(escrow[j], Deposit, fee).freelancer = escrow[j].freelancer
  BY <1>4 DEF Chain!ToppedUp, AccountFields
<1>7. /\ Chain!Released(escrow[j]).freelancer = escrow[j].freelancer
      /\ Chain!Refunded(escrow[j]).freelancer = escrow[j].freelancer
      /\ \A f : Chain!LockedFor(escrow[j], f).freelancer = f
      /\ \A c, n : Chain!Opened(c, Authority, n).freelancer = NoKey
  BY <1>4 DEF Chain!Released, Chain!Refunded, Chain!LockedFor, Chain!Opened, AccountFields
<1> HIDE DEF j, Known2
<1>8. CASE t.op = "Fund" /\ Chain!Initialize(t.signer, Authority, j, Deposit)
  <2>1. Known2
    BY <1>5, <1>7, <1>8 DEF Chain!Initialize, Chain!CanInitialize
  <2> QED BY <1>1, <1>2, <1>8, <2>1 DEF Chain!Next, Known2
<1>9. CASE t.op = "TopUp" /\ Chain!TopUpFunded(t.signer, j, Deposit)
  <2>1. Known2
    BY <1>1, <1>2, <1>5, <1>6, <1>9 DEF Chain!TopUpFunded, Chain!CanTopUpFunded
  <2> QED BY <1>2, <1>3, <1>9, <2>1 DEF Chain!Next, Known2
<1>10. CASE t.op = "TopUp" /\ Chain!TopUpLocked(t.signer, j, Deposit)
  <2>1. Known2
    BY <1>1, <1>2, <1>5, <1>6, <1>10 DEF Chain!TopUpLocked, Chain!CanTopUpLocked
  <2> QED BY <1>2, <1>3, <1>10, <2>1 DEF Chain!Next, Known2
<1>11. CASE t.op = "Withdraw" /\ Chain!Withdraw(t.signer, j)
  <2>1. Known2
    BY <1>1, <1>2, <1>5, <1>7, <1>11 DEF Chain!Withdraw, Chain!CanWithdraw, Chain!PayBack, Chain!CanPayBack
  <2> QED BY <1>2, <1>3, <1>11, <2>1 DEF Chain!Next, Known2
<1>12. CASE t.op = "Refund" /\ Chain!Refund(Authority, j)
  <2>1. Known2
    BY <1>1, <1>2, <1>5, <1>7, <1>12 DEF Chain!Refund, Chain!CanRefund, Chain!PayBack, Chain!CanPayBack
  <2> QED BY <1>2, <1>3, <1>12, <2>1 DEF Chain!Next, Known2
<1>13. CASE t.op = "Release" /\ Chain!Release(t.signer, j, t.payee)
  <2>1. Known2
    BY <1>1, <1>2, <1>5, <1>7, <1>13 DEF Chain!Release, Chain!CanRelease
  <2>2. t.payee \in Freelancers
    BY <1>1, <1>2, <1>13 DEF Chain!Release, Chain!CanRelease, Chain!MayRelease, AccountsInOrder, Account
  <2> QED BY <1>2, <1>3, <1>13, <2>1, <2>2 DEF Chain!Next, Known2
<1>14. CASE t.op = "Lock" /\ Chain!Lock(Authority, j, t.payee)
  <2>1. Known2
    BY <1>1, <1>5, <1>7, <1>14 DEF Chain!Lock, Chain!CanLock
  <2> QED BY <1>1, <1>2, <1>3, <1>14, <2>1 DEF Chain!Next, Known2
<1> QED
  BY <1>8, <1>9, <1>10, <1>11, <1>12, <1>13, <1>14 DEF Submit, j, Known2

LEMMA WalletsConfirm ==
  ASSUME Inv, WalletsKnown, NEW t \in net, NEW outcome, Report(t, outcome), net' \subseteq net,
         \A j \in Jobs : escrow'[j].freelancer \in Freelancers \cup {NoKey}
  PROVE  WalletsKnown'
<1>1. \A d \in Calls : d \in Handled' => /\ d \in Handled
                                         /\ call'[d].wallet = call[d].wallet
                                         /\ call'[d].hire = call[d].hire
  <2>1. CASE call' = call
    BY <2>1 DEF Handled
  <2>2. CASE call' # call
    <3> DEFINE c == t.call
               k == [call[c] EXCEPT !.outcome = outcome]
    <3>1. call' = [call EXCEPT ![c] = k] /\ call[c].pc = "wait"
      BY <2>2 DEF Report
    <3>2. c \in Calls /\ DOMAIN call = Calls /\ DOMAIN call[c] = CallFields
      BY DEF Inv, NetKnown, CallsBacked, Backed
    <3>3. k.wallet = call[c].wallet /\ k.hire = call[c].hire
      BY <3>2 DEF CallFields
    <3> HIDE DEF k
    <3> QED BY <3>1, <3>2, <3>3 DEF Handled
  <2> QED BY <2>1, <2>2
<1>2. \A d \in Handled' : call'[d].wallet \in Clients /\ call'[d].hire \in Freelancers \cup {NoKey}
  BY <1>1 DEF WalletsKnown, Handled
<1> QED
  BY <1>2 DEF WalletsKnown

LEMMA WalletsInitially == Init => WalletsKnown
<1> SUFFICES ASSUME Init PROVE WalletsKnown
  OBVIOUS
<1>1. /\ escrow = [j \in Jobs |-> Chain!NoEscrow] /\ net = {}
      /\ call = [c \in Calls |-> NoCall]
  BY DEF Init, Chain!Init
<1>2. Handled = {}
  BY <1>1 DEF Handled, NoCall
<1>3. Chain!NoEscrow.freelancer = NoKey
  BY DEF Chain!NoEscrow
<1> QED
  BY <1>1, <1>2, <1>3 DEF WalletsKnown

(* Only a transaction that lands and a withdrawal of fees move money, and  *)
(* they are the program's own instructions.                                *)
LEMMA ChainStep ==
  ASSUME Inv, WalletsKnown, [Next]_vars
  PROVE  WalletsKnown' /\ [Chain!Next]_(Chain!vars)
<1>1. ASSUME UNCHANGED chain PROVE [Chain!Next]_(Chain!vars)
  BY <1>1 DEF chain, Chain!vars
<1>2. ASSUME NEW c \in Calls, NEW op \in Ops, NEW j \in Jobs, NEW w \in Clients, NEW m \in Modes,
             NEW f \in Freelancers \cup {NoKey}, Request(c, op, j, w, m, f)
      PROVE  WalletsKnown' /\ UNCHANGED chain
  <2>1. UNCHANGED chain
    BY <1>2 DEF Request
  <2> QED BY <1>2, <2>1, WalletsRequest
<1>3. ASSUME NEW c \in Calls, Send(c), net' = net \cup {Tx(c)}, Goto(c, "wait")
      PROVE  WalletsKnown' /\ UNCHANGED chain
  <2>1. UNCHANGED chain
    BY <1>3 DEF Send
  <2> QED BY <1>3, <2>1, WalletsSend
<1>4. ASSUME NEW c \in Calls,
             \/ Check(c) \/ Verify(c) \/ Settled(c) \/ Reread(c) \/ ReadRow(c) \/ Record(c)
             \/ Tell(c) \/ LoseTouch(c) \/ Crash(c) \/ (Send(c) /\ net' = net /\ End(c))
      PROVE  WalletsKnown' /\ UNCHANGED chain
  <2>1. UNCHANGED <<escrow, ledger, net>> /\ \E k : Onward(c, k)
    BY <1>4, HandlerOnward
  <2>2. UNCHANGED chain
    BY <1>4 DEF Check, Verify, Settled, Reread, ReadRow, Record, Tell, LoseTouch, Crash, Send
  <2> QED BY <2>1, <2>2, WalletsOnward
<1>5. ASSUME NEW c \in Calls, Handle(c) PROVE WalletsKnown' /\ UNCHANGED chain
  <2>1. CASE Send(c)
    <3>1. \/ net' = net \cup {Tx(c)} /\ Goto(c, "wait")
          \/ net' = net /\ End(c)
      BY <2>1 DEF Send
    <3> QED BY <1>3, <1>4, <2>1, <3>1
  <2> QED BY <1>4, <1>5, <2>1 DEF Handle
<1>6. ASSUME NEW t \in net, Land(t) PROVE WalletsKnown' /\ [Chain!Next]_(Chain!vars)
  <2>1. Submit(t) /\ Report(t, "ok") /\ net' \subseteq net
    BY <1>6 DEF Land
  <2>2. Chain!Next /\ \A j \in Jobs : escrow'[j].freelancer \in Freelancers \cup {NoKey}
    BY <2>1, Instruction
  <2> QED BY <2>1, <2>2, WalletsConfirm
<1>7. ASSUME NEW t \in net, Flop(t) \/ Expire(t) PROVE WalletsKnown' /\ UNCHANGED chain
  <2>1. UNCHANGED chain /\ net' \subseteq net /\ (Report(t, "failed") \/ Report(t, "expired"))
    BY <1>7 DEF Flop, Expire
  <2>2. \A j \in Jobs : escrow'[j].freelancer \in Freelancers \cup {NoKey}
    BY <2>1 DEF WalletsKnown, chain
  <2> QED BY <2>1, <2>2, WalletsConfirm
<1>8. CASE UNCHANGED vars
  <2>1. UNCHANGED chain /\ escrow' = escrow /\ call' = call /\ net' = net
    BY <1>8 DEF vars, chain
  <2> QED BY <1>1, <2>1 DEF WalletsKnown, Handled
<1>9. ASSUME NEW w \in Chain!Wallets, NEW n \in Withdrawals, WithdrawFees(w, n)
      PROVE  WalletsKnown' /\ [Chain!Next]_(Chain!vars)
  <2>1. Chain!WithdrawFees(w, n) /\ call' = call /\ net' = net
    BY <1>9 DEF WithdrawFees
  <2>2. escrow' = escrow
    BY <2>1 DEF Chain!WithdrawFees
  <2>3. Chain!Next
    BY <2>1 DEF Chain!Next
  <2> QED BY <2>1, <2>2, <2>3 DEF WalletsKnown, Handled
<1> QED
  BY <1>1, <1>2, <1>4, <1>5, <1>6, <1>7, <1>8, <1>9 DEF Next, Confirm

(* Whatever the service does, crashes and repeats included, the accounts   *)
(* change only as the program lets them: what is proved of EscrowProgram   *)
(* holds under the service.                                                *)
THEOREM RunsTheProgram == Spec => Chain!Spec
<1>1. Init => Chain!Init
  BY DEF Init
<1>2. Inv /\ WalletsKnown /\ [Next]_vars => WalletsKnown' /\ [Chain!Next]_(Chain!vars)
  BY ChainStep
<1> QED
  BY <1>1, <1>2, WalletsInitially, CallsBackedAlways, PTL DEF Spec, Chain!Spec

(* What is proved of the program in EscrowProgramProofs, for any wallets   *)
(* and amounts, is proved of the service's: the two instances of it are    *)
(* the same program, so that its guarantees hold under the service too.    *)
Prog == INSTANCE EscrowProgramProofs WITH Authorities <- {Authority}, Amounts <- {Deposit}

LEMMA SameInit == Prog!Init <=> Chain!Init
BY DEF Prog!Init, Chain!Init, Prog!Wallets, Chain!Wallets, Prog!NoEscrow, Chain!NoEscrow,
       Prog!NoLedger, Chain!NoLedger

LEMMA SameNext == [Prog!Next]_(Prog!vars) <=> [Chain!Next]_(Chain!vars)
<1>1. \A c, a, j, n : Prog!Initialize(c, a, j, n) <=> Chain!Initialize(c, a, j, n)
  BY DEF Prog!Initialize, Chain!Initialize, Prog!CanInitialize, Chain!CanInitialize,
         Prog!Opened, Chain!Opened, Prog!NoEscrow, Chain!NoEscrow, Prog!PaidIn, Chain!PaidIn,
         Prog!CanCharge, Chain!CanCharge, Prog!Charge, Chain!Charge, Prog!Affords,
         Chain!Affords, Prog!FeeFits, Chain!FeeFits, Prog!FitsU64, Chain!FitsU64, Prog!RentOK,
         Chain!RentOK, Prog!Fee, Chain!Fee, Prog!FEE_BPS, Chain!FEE_BPS, Prog!BPS_DENOMINATOR,
         Chain!BPS_DENOMINATOR
<1>2. \A s, j, f : Prog!Lock(s, j, f) <=> Chain!Lock(s, j, f)
  BY DEF Prog!Lock, Chain!Lock, Prog!CanLock, Chain!CanLock, Prog!LockedFor, Chain!LockedFor,
         Prog!PaidOut, Chain!PaidOut, Prog!RentOK, Chain!RentOK
<1>3. \A s, j, f : Prog!Release(s, j, f) <=> Chain!Release(s, j, f)
  BY DEF Prog!Release, Chain!Release, Prog!CanRelease, Chain!CanRelease, Prog!MayRelease,
         Chain!MayRelease, Prog!ReleaseFee, Chain!ReleaseFee, Prog!Released, Chain!Released,
         Prog!PaidOut, Chain!PaidOut, Prog!FeeFits, Chain!FeeFits, Prog!FitsU64, Chain!FitsU64,
         Prog!RentOK, Chain!RentOK, Prog!Fee, Chain!Fee, Prog!FEE_BPS, Chain!FEE_BPS,
         Prog!BPS_DENOMINATOR, Chain!BPS_DENOMINATOR
<1>4. \A s, j : Prog!Refund(s, j) <=> Chain!Refund(s, j)
  BY DEF Prog!Refund, Chain!Refund, Prog!CanRefund, Chain!CanRefund, Prog!RefundSum,
         Chain!RefundSum, Prog!CanPayBack, Chain!CanPayBack, Prog!PayBack, Chain!PayBack,
         Prog!Refunded, Chain!Refunded, Prog!PaidOut, Chain!PaidOut, Prog!FitsU64,
         Chain!FitsU64, Prog!RentOK, Chain!RentOK
<1>5. \A s, j : Prog!Withdraw(s, j) <=> Chain!Withdraw(s, j)
  BY DEF Prog!Withdraw, Chain!Withdraw, Prog!CanWithdraw, Chain!CanWithdraw, Prog!WithdrawSum,
         Chain!WithdrawSum, Prog!CanPayBack, Chain!CanPayBack, Prog!PayBack, Chain!PayBack,
         Prog!Refunded, Chain!Refunded, Prog!PaidOut, Chain!PaidOut, Prog!FitsU64,
         Chain!FitsU64, Prog!RentOK, Chain!RentOK
<1>6. \A s, j, n : Prog!TopUpFunded(s, j, n) <=> Chain!TopUpFunded(s, j, n)
  BY DEF Prog!TopUpFunded, Chain!TopUpFunded, Prog!CanTopUpFunded, Chain!CanTopUpFunded,
         Prog!ToppedUp, Chain!ToppedUp, Prog!PaidIn, Chain!PaidIn, Prog!CanCharge,
         Chain!CanCharge, Prog!Charge, Chain!Charge, Prog!Affords, Chain!Affords, Prog!FeeFits,
         Chain!FeeFits, Prog!FitsU64, Chain!FitsU64, Prog!RentOK, Chain!RentOK, Prog!Fee,
         Chain!Fee, Prog!FEE_BPS, Chain!FEE_BPS, Prog!BPS_DENOMINATOR, Chain!BPS_DENOMINATOR
<1>7. \A s, j, n : Prog!TopUpLocked(s, j, n) <=> Chain!TopUpLocked(s, j, n)
  BY DEF Prog!TopUpLocked, Chain!TopUpLocked, Prog!CanTopUpLocked, Chain!CanTopUpLocked,
         Prog!ToppedUp, Chain!ToppedUp, Prog!PaidIn, Chain!PaidIn, Prog!CanCharge,
         Chain!CanCharge, Prog!Charge, Chain!Charge, Prog!Affords, Chain!Affords, Prog!FeeFits,
         Chain!FeeFits, Prog!FitsU64, Chain!FitsU64, Prog!RentOK, Chain!RentOK, Prog!Fee,
         Chain!Fee, Prog!FEE_BPS, Chain!FEE_BPS, Prog!BPS_DENOMINATOR, Chain!BPS_DENOMINATOR
<1>8. \A s, n : Prog!WithdrawFees(s, n) <=> Chain!WithdrawFees(s, n)
  BY DEF Prog!WithdrawFees, Chain!WithdrawFees, Prog!RentOK, Chain!RentOK
<1>9. Prog!Next <=> Chain!Next
  BY <1>1, <1>2, <1>3, <1>4, <1>5, <1>6, <1>7, <1>8
     DEF Prog!Next, Chain!Next, Prog!Wallets, Chain!Wallets
<1> QED
  BY <1>9 DEF Prog!vars, Chain!vars

LEMMA SameAssumptions == Prog!ConstantsAssumption /\ Prog!RuntimeAssumption
<1>1. Prog!IsFiniteSet(Clients) <=> Chain!IsFiniteSet(Clients)
  BY DEF Prog!IsFiniteSet, Chain!IsFiniteSet
<1>2. Prog!Cardinality(Clients) = Chain!Cardinality(Clients)
  BY DEF Prog!Cardinality, Chain!Cardinality, Prog!IsFiniteSet, Chain!IsFiniteSet
<1> QED
  BY <1>1, <1>2, ProgramAssumption DEF Prog!Wallets, Chain!Wallets

LEMMA RunsTheSameProgram == Spec => Prog!Spec
<1>1. Prog!Spec <=> Chain!Spec
  BY SameInit, SameNext, PTL DEF Prog!Spec, Chain!Spec
<1> QED
  BY <1>1, RunsTheProgram, PTL

(* However calls are interleaved, lost or repeated, every vault holds what *)
(* its account records, the client leaves free before the hire and gets    *)
(* the principal back after a dispute, the freelancer is paid in full, and *)
(* the platform takes no more than its 5%.                                 *)
THEOREM MoneyInOrder ==
  Spec => [](/\ Chain!Solvency
             /\ Chain!FreeExitBeforeHire /\ Chain!DisputeReturnsPrincipal
             /\ Chain!ReleasePaysPrincipalLessFee /\ Chain!FivePercentCap)
<1>1. Prog!Solvency <=> Chain!Solvency
  BY DEF Prog!Solvency, Chain!Solvency, Prog!Solvent, Chain!Solvent
<1>2. Prog!FreeExitBeforeHire <=> Chain!FreeExitBeforeHire
  BY DEF Prog!FreeExitBeforeHire, Chain!FreeExitBeforeHire, Prog!Hired, Chain!Hired
<1>3. Prog!DisputeReturnsPrincipal <=> Chain!DisputeReturnsPrincipal
  BY DEF Prog!DisputeReturnsPrincipal, Chain!DisputeReturnsPrincipal, Prog!Hired, Chain!Hired
<1>4. Prog!ReleasePaysPrincipalLessFee <=> Chain!ReleasePaysPrincipalLessFee
  BY DEF Prog!ReleasePaysPrincipalLessFee, Chain!ReleasePaysPrincipalLessFee, Prog!Hired,
         Chain!Hired, Prog!Fee, Chain!Fee, Prog!FEE_BPS, Chain!FEE_BPS,
         Prog!BPS_DENOMINATOR, Chain!BPS_DENOMINATOR
<1>5. Prog!FivePercentCap <=> Chain!FivePercentCap
  BY DEF Prog!FivePercentCap, Chain!FivePercentCap, Prog!FEE_BPS, Chain!FEE_BPS,
         Prog!BPS_DENOMINATOR, Chain!BPS_DENOMINATOR
<1>6. /\ Prog!Spec => []Prog!Solvency
      /\ Prog!Spec => []Prog!FreeExitBeforeHire
      /\ Prog!Spec => []Prog!DisputeReturnsPrincipal
      /\ Prog!Spec => []Prog!ReleasePaysPrincipalLessFee
      /\ Prog!Spec => []Prog!FivePercentCap
  BY SameAssumptions, Prog!SolvencyHolds, Prog!FreeExit, Prog!DisputeRefund, Prog!ReleasePays,
     Prog!AtMostFivePercent
<1> QED
  BY <1>1, <1>2, <1>3, <1>4, <1>5, <1>6, RunsTheSameProgram, PTL

(* RefundNeverBlocked, and more: in every state the service can reach, the *)
(* refund its authority would send for an open escrow passes.  Money is    *)
(* never trapped by a lost message, a row that disagrees or a crash.       *)
THEOREM RefundPasses ==
  Spec => [](\A j \in Jobs : Chain!Open(j) => Chain!CanRefund(Authority, j))
<1>1. Prog!RefundNeverBlocked <=> Chain!RefundNeverBlocked
  BY DEF Prog!RefundNeverBlocked, Chain!RefundNeverBlocked, Prog!Open, Chain!Open,
         Prog!FitsU64, Chain!FitsU64, Prog!RefundSum, Chain!RefundSum, Prog!RentOK, Chain!RentOK
<1>2. /\ Prog!Spec => []Prog!RefundNeverBlocked
      /\ Prog!Spec => []Prog!TypeOK
  BY SameAssumptions, Prog!RefundAlwaysPossible, Prog!TypeCorrect
<1>3. Chain!RefundNeverBlocked /\ Prog!TypeOK =>
        \A j \in Jobs : Chain!Open(j) => Chain!CanRefund(Authority, j)
  <2> SUFFICES ASSUME Chain!RefundNeverBlocked, Prog!TypeOK, NEW j \in Jobs, Chain!Open(j)
               PROVE  Chain!CanRefund(Authority, j)
    OBVIOUS
  <2> DEFINE e == escrow[j]
             sum == Chain!RefundSum(e)
  <2>1. e.status \in {"Funded", "Locked"}
    BY DEF Chain!Open
  <2>2. e.authority = Authority /\ vault[j] \in Nat
    BY <2>1 DEF Prog!TypeOK, Prog!JobEscrow, Prog!NoEscrow
  <2>3. /\ Chain!FitsU64(sum) /\ vault[j] = sum /\ Chain!RentOK(wallet[e.client] + sum)
    BY DEF Chain!RefundNeverBlocked
  <2>4. vault[j] >= sum /\ vault[j] - sum = 0
    BY <2>2, <2>3
  <2>5. Chain!RentOK(vault[j] - sum)
    BY <2>4 DEF Chain!RentOK
  <2> QED
    BY <2>1, <2>2, <2>3, <2>4, <2>5 DEF Chain!CanRefund, Chain!CanPayBack
<1> QED
  BY <1>1, <1>2, <1>3, RunsTheSameProgram, PTL

(* And what the clients and freelancers see of their jobs' money is the    *)
(* custody they were promised.  Of the platform's earnings nothing is said *)
(* here: whoever may collect them, no step of a job is disturbed.          *)
THEOREM ServiceKeepsCustody == Spec => Chain!KeepsJobMoney
<1>1. Prog!Custody!Init <=> Chain!Custody!Init
  BY DEF Prog!Custody!Init, Chain!Custody!Init, Prog!Wallets, Chain!Wallets
<1>2. Prog!Custody!JobStep <=> Chain!Custody!JobStep
  BY DEF Prog!Custody!JobStep, Chain!Custody!JobStep, Prog!Wallets, Chain!Wallets,
         Prog!Custody!Open, Chain!Custody!Open, Prog!Custody!Add, Chain!Custody!Add,
         Prog!Custody!Hire, Chain!Custody!Hire, Prog!Custody!Pay, Chain!Custody!Pay,
         Prog!Custody!Return, Chain!Custody!Return, Prog!Custody!Cut, Chain!Custody!Cut
<1>3. Prog!Custody!Aside <=> Chain!Custody!Aside
  BY DEF Prog!Custody!Aside, Chain!Custody!Aside, Prog!Wallets, Chain!Wallets
<1>4. [Prog!Custody!JobStep \/ Prog!Custody!Aside]_(Prog!Custody!vars)
        <=> [Chain!Custody!JobStep \/ Chain!Custody!Aside]_(Chain!Custody!vars)
  BY <1>2, <1>3 DEF Prog!Custody!vars, Chain!Custody!vars
<1>5. Prog!KeepsJobMoney <=> Chain!KeepsJobMoney
  BY <1>1, <1>4, PTL
     DEF Prog!KeepsJobMoney, Chain!KeepsJobMoney, Prog!Custody!JobsSpec, Chain!Custody!JobsSpec
<1>6. Prog!Spec => Prog!KeepsJobMoney
  BY SameAssumptions, Prog!ImplementsJobCustody
<1> QED
  BY <1>5, <1>6, RunsTheSameProgram, PTL
=============================================================================
