---------------------------- MODULE EscrowService ----------------------------
(***************************************************************************)
(* The escrow service: calls arrive as messages, check a guard, send one   *)
(* transaction to the program of EscrowProgram, wait for it, record the    *)
(* outcome in the escrows table and tell the other services.  Every await  *)
(* is a point where other calls run, so each of these is a step of its own.*)
(*                                                                         *)
(* A message is acknowledged when its handler returns.  A crash before     *)
(* that makes the broker deliver it again, and the handler starts over,    *)
(* whatever its last attempt had already sent.                             *)
(***************************************************************************)
EXTENDS Naturals, FiniteSets

CONSTANTS
  Jobs, Clients, Freelancers, Supply, Withdrawals, FeeVaultStart, MaxU64, RentMin, NoKey,
  Authority,   \* the platform's keypair
  Deposit,     \* lamports a fund or top-up call asks for
  Calls,       \* calls the service may receive
  Ops,         \* operations among them
  Modes,       \* signing modes: "server", "client", "relay"
  MaxHandled,  \* calls handled at a time: the channel's prefetch
  MaxCrashes,  \* bound on crashes
  Outages      \* may the Solana RPC node fail to answer, and clients give up?

VARIABLES
  escrow, vault, feeVault, wallet, ledger,  \* the program's accounts
  db,        \* the row of each job in the escrows table
  call,      \* the calls and how far their handlers are
  net,       \* transactions accepted by a node and not yet in a block
  active,    \* the isActive of the last JOB_SET_ACTIVE published for each job
  completed, \* whether JOB_COMPLETED was published for it
  notice,    \* the freelancerId of the last ESCROW_RELEASED published for it
  crashes,
  flops,     \* history: jobs with a transaction that failed after preflight
  strays,    \* history: jobs confirmed by a wallet that had no escrow there
  orderly    \* history: calls came one at a time, and nothing went wrong

Chain == INSTANCE EscrowProgram WITH Authorities <- {Authority}, Amounts <- {Deposit}

ASSUME ProgramAssumption == Chain!ConstantsAssumption /\ Chain!RuntimeAssumption

chain == <<escrow, vault, feeVault, wallet, ledger>>
told == <<active, completed, notice>>
vars == <<chain, db, call, net, told, crashes, flops, strays, orderly>>

NoEscrow == Chain!NoEscrow

NoRow == [status |-> "None", amount |-> 0, wallet |-> NoKey, freelancer |-> NoKey]

NoCall == [pc |-> "idle", op |-> "none", job |-> NoKey, mode |-> "server", wallet |-> NoKey,
           hire |-> NoKey, seen |-> NoEscrow, outcome |-> "none", tries |-> 0]

Init ==
  /\ Chain!Init
  /\ db = [j \in Jobs |-> NoRow]
  /\ call = [c \in Calls |-> NoCall]
  /\ net = {}
  /\ active = [j \in Jobs |-> "unset"]
  /\ completed = [j \in Jobs |-> FALSE]
  /\ notice = [j \in Jobs |-> "none"]
  /\ crashes = 0
  /\ flops = {}
  /\ strays = {}
  /\ orderly = TRUE

-----------------------------------------------------------------------------

Handled == {c \in Calls : call[c].pc \notin {"idle", "ended"}}

Goto(c, pc) == call' = [call EXCEPT ![c].pc = pc]

(* The handler returns or throws; only what was asked is remembered. *)
End(c) == call' = [call EXCEPT ![c] =
  [NoCall EXCEPT !.pc = "ended", !.op = call[c].op, !.job = call[c].job]]

(* A call reaches the service.  Locks come from PROPOSAL_HIRED and refunds *)
(* from the admin: the authority signs both.  Fund, top up, withdraw and   *)
(* release in client and relay mode go on to a confirmation of their own;  *)
(* "Confirm" is one that stands alone, from any user and for any job.      *)
Request(c, op, j, w, m, f) ==
  /\ call[c].pc = "idle"
  /\ Cardinality(Handled) < MaxHandled
  /\ op \in {"Lock", "Refund"} => m = "server"
  /\ op = "Confirm" => m = "client"
  /\ (op = "Lock") = (f # NoKey)
  /\ call' = [call EXCEPT ![c] = [NoCall EXCEPT
       !.pc = "check", !.op = op, !.job = j, !.mode = m, !.wallet = w, !.hire = f]]
  /\ orderly' = (orderly /\ Handled = {})
  /\ UNCHANGED <<chain, db, net, told, crashes, flops, strays>>

(* A read of the account: null when it is not there or the node fails. *)
Readings(j) == {escrow[j]} \cup (IF Outages THEN {NoEscrow} ELSE {})

(* Without a reading, the client's operations fall back to the row. *)
Known(j, seen) ==
  IF seen # NoEscrow THEN seen
  ELSE [NoEscrow EXCEPT !.status = db[j].status, !.freelancer = db[j].freelancer]

(* The guards: fundJob looks at the row, the others at what is Known, and  *)
(* the authority's two operations at nothing but the account.              *)
CanFund(j) == db[j].status \in {"None", "Refunded"}
CanTopUp(known) == known.status \in {"Funded", "Locked"}
CanWithdraw(known) == known.status = "Funded"
CanRelease(known) == known.status = "Locked" /\ known.freelancer # NoKey
CanLock(seen) == seen.status = "Funded"
CanRefund(seen) == seen.status \in {"Funded", "Locked"}

Allowed(op, j, seen) ==
  \/ op = "Fund" /\ CanFund(j)
  \/ op = "TopUp" /\ CanTopUp(Known(j, seen))
  \/ op = "Withdraw" /\ CanWithdraw(Known(j, seen))
  \/ op = "Release" /\ CanRelease(Known(j, seen))
  \/ op = "Lock" /\ CanLock(seen)
  \/ op = "Refund" /\ CanRefund(seen)

Check(c) ==
  LET j == call[c].job
  IN /\ call[c].pc = "check" /\ call[c].op # "Confirm"
     /\ \E seen \in Readings(j) :
          /\ IF Allowed(call[c].op, j, seen)
             THEN call' = [call EXCEPT ![c].pc = "send", ![c].seen =
                    IF call[c].op \in {"Lock", "Refund"} THEN seen ELSE Known(j, seen)]
             ELSE End(c)
          /\ orderly' = (orderly /\ seen = escrow[j])
     /\ UNCHANGED <<chain, db, net, told, crashes, flops, strays>>

(* A confirmation that stands alone asks one thing of the signature it is  *)
(* given: that it is of a transaction in a block that did not fail.  Whose *)
(* it is and what it did to which account is not looked at, and the        *)
(* signed transaction it may bring to relay instead can be anyone's too.   *)
Verify(c) ==
  /\ call[c].pc = "check" /\ call[c].op = "Confirm"
  /\ Goto(c, "confirm") \/ End(c)
  /\ UNCHANGED <<chain, db, net, told, crashes, flops, strays, orderly>>

(* The transaction a call builds, and what the program does with it. *)
Tx(c) ==
  [call |-> c, try |-> call[c].tries, op |-> call[c].op, job |-> call[c].job,
   signer |-> call[c].wallet,
   payee |-> IF call[c].op = "Release" THEN call[c].seen.freelancer ELSE call[c].hire]

Submit(t) ==
  \/ t.op = "Fund" /\ Chain!Initialize(t.signer, Authority, t.job, Deposit)
  \/ t.op = "TopUp" /\ Chain!TopUpFunded(t.signer, t.job, Deposit)
  \/ t.op = "TopUp" /\ Chain!TopUpLocked(t.signer, t.job, Deposit)
  \/ t.op = "Withdraw" /\ Chain!Withdraw(t.signer, t.job)
  \/ t.op = "Release" /\ Chain!Release(t.signer, t.job, t.payee)
  \/ t.op = "Lock" /\ Chain!Lock(Authority, t.job, t.payee)
  \/ t.op = "Refund" /\ Chain!Refund(Authority, t.job)

(* Would the program carry it out now? *)
Passes(t) ==
  \/ t.op = "Fund" /\ Chain!CanInitialize(t.signer, t.job, Deposit)
  \/ t.op = "TopUp" /\ Chain!CanTopUpFunded(t.signer, t.job, Deposit)
  \/ t.op = "TopUp" /\ Chain!CanTopUpLocked(t.signer, t.job, Deposit)
  \/ t.op = "Withdraw" /\ Chain!CanWithdraw(t.signer, t.job)
  \/ t.op = "Release" /\ Chain!CanRelease(t.signer, t.job, t.payee)
  \/ t.op = "Lock" /\ Chain!CanLock(Authority, t.job)
  \/ t.op = "Refund" /\ Chain!CanRefund(Authority, t.job)

(* Broadcast, by the service or by the client's own wallet.  The node's    *)
(* preflight runs the transaction and refuses one that would fail now.     *)
Send(c) ==
  /\ call[c].pc = "send"
  /\ IF Passes(Tx(c))
     THEN net' = net \cup {Tx(c)} /\ Goto(c, "wait")
     ELSE UNCHANGED net /\ End(c)
  /\ UNCHANGED <<chain, db, told, crashes, flops, strays, orderly>>

(* The node reports what became of a transaction to whoever still waits.   *)
Report(t, outcome) ==
  call' = IF call[t.call].pc = "wait" /\ call[t.call].tries = t.try
          THEN [call EXCEPT ![t.call].outcome = outcome]
          ELSE call

Land(t) ==
  /\ Submit(t)
  /\ net' = net \ {t}
  /\ Report(t, "ok")
  /\ UNCHANGED <<db, told, crashes, flops, strays, orderly>>

(* It is included in a block, but the program returns an error. *)
Flop(t) ==
  /\ ~Passes(t)
  /\ net' = net \ {t}
  /\ Report(t, "failed")
  /\ flops' = flops \cup {t.job}
  /\ orderly' = FALSE
  /\ UNCHANGED <<chain, db, told, crashes, strays>>

(* Its blockhash expires before a leader includes it. *)
Expire(t) ==
  /\ net' = net \ {t}
  /\ Report(t, "expired")
  /\ UNCHANGED <<chain, db, told, crashes, flops, strays, orderly>>

(* confirmTransaction throws when the transaction expired.  When it was    *)
(* included, signAndBroadcast and the authority's operations go on without *)
(* looking at its error; confirmClientTransaction does look.               *)
GoesOn_ExpiredToo(mode, outcome) == outcome = "ok" \/ mode = "server"
GoesOn(mode, outcome) == outcome = "ok" \/ (outcome = "failed" /\ mode = "server")

Settled_ErrorUnanswered(c) ==
  /\ call[c].pc = "wait" /\ call[c].outcome # "none"
  /\ GoesOn(call[c].mode, call[c].outcome)
  /\ Goto(c, IF call[c].mode = "server" THEN "record" ELSE "confirm")
  /\ UNCHANGED <<chain, db, net, told, crashes, flops, strays, orderly>>
Settled(c) ==
  /\ call[c].pc = "wait" /\ call[c].outcome # "none"
  /\ IF GoesOn(call[c].mode, call[c].outcome)
     THEN Goto(c, IF call[c].mode = "server" THEN "record" ELSE "confirm")
     ELSE End(c)
  /\ UNCHANGED <<chain, db, net, told, crashes, flops, strays, orderly>>

(* The wait throws, or the client never comes back to confirm, and the     *)
(* transaction is still on its way.                                        *)
LoseTouch_Resends(c) ==
  /\ Outages
  /\ call[c].pc = "wait"
  /\ Goto(c, "send")
  /\ UNCHANGED <<chain, db, net, told, crashes, flops, strays, orderly>>
LoseTouch(c) ==
  /\ Outages
  /\ call[c].pc = "wait"
  /\ call' = [call EXCEPT ![c] =
       [NoCall EXCEPT !.pc = "ended", !.op = call[c].op, !.job = call[c].job, !.outcome = "lost"]]
  /\ orderly' = FALSE
  /\ UNCHANGED <<chain, db, net, told, crashes, flops, strays>>

(* Does this wallet have money in escrow for the job? *)
Owns(w, j) == escrow[j].status # "None" /\ escrow[j].client = w

(* A confirmation reads the account again; one that finds none goes on.    *)
Reread(c) ==
  LET j == call[c].job
  IN /\ call[c].pc = "confirm"
     /\ \E seen \in Readings(j) :
          /\ call' = [call EXCEPT ![c].pc = "record", ![c].seen = seen]
          /\ orderly' = (orderly /\ seen = escrow[j])
     /\ strays' = IF Owns(call[c].wallet, j) THEN strays ELSE strays \cup {j}
     /\ UNCHANGED <<chain, db, net, told, crashes, flops>>

(* A top-up adds to the amount of the row as it reads it here. *)
ReadRow(c) ==
  /\ call[c].pc = "record" /\ call[c].op = "TopUp" /\ call[c].mode = "server"
  /\ IF db[call[c].job] = NoRow THEN End(c)
     ELSE call' = [call EXCEPT ![c].pc = "save", ![c].seen.amount = db[call[c].job].amount]
  /\ UNCHANGED <<chain, db, net, told, crashes, flops, strays, orderly>>

(* update() changes columns of a row that exists; upsert() also creates it.*)
Updated(row, new) == IF row = NoRow THEN NoRow ELSE new

ConfirmedStatus(seen) == IF seen = NoEscrow THEN "Funded" ELSE seen.status

(* The row a confirmed client transaction leaves ... *)
ConfirmedRow_AmountOfRow(k, row) ==
  [status |-> ConfirmedStatus(k.seen), amount |-> row.amount,
   wallet |-> k.wallet, freelancer |-> NoKey]
ConfirmedRow(k, row) ==
  [status |-> ConfirmedStatus(k.seen), amount |-> k.seen.amount,
   wallet |-> k.wallet, freelancer |-> NoKey]

(* ... and the ones the service's own transactions leave. *)
FundedRow(w) == [status |-> "Funded", amount |-> Deposit, wallet |-> w, freelancer |-> NoKey]
ToppedUpRow(row, read) == Updated(row, [row EXCEPT !.amount = read + Deposit])
WithdrawnRow(row) == Updated(row, [row EXCEPT !.status = "Refunded"])
ReleasedRow(row) == Updated(row, [row EXCEPT !.status = "Released"])
LockedRow(seen, f) ==
  [status |-> "Locked", amount |-> seen.amount, wallet |-> seen.client, freelancer |-> f]
RefundedRow(row, seen) ==
  [row EXCEPT !.status = "Refunded", !.amount = 0, !.wallet = seen.client]

SignedRow(k, row) ==
  CASE k.op = "Fund" -> FundedRow(k.wallet)
    [] k.op = "TopUp" -> ToppedUpRow(row, k.seen.amount)
    [] k.op = "Withdraw" -> WithdrawnRow(row)
    [] k.op = "Release" -> ReleasedRow(row)
    [] k.op = "Lock" -> LockedRow(k.seen, k.hire)
    [] k.op = "Refund" -> RefundedRow(row, k.seen)

Record(c) ==
  /\ \/ call[c].pc = "record" /\ ~(call[c].op = "TopUp" /\ call[c].mode = "server")
     \/ call[c].pc = "save"
  /\ db' = [db EXCEPT ![call[c].job] = IF call[c].mode = "server" THEN SignedRow(call[c], @) ELSE ConfirmedRow(call[c], @)]
  /\ Goto(c, "tell")
  /\ UNCHANGED <<chain, net, told, crashes, flops, strays, orderly>>

(* What a handler knows to have happened when it publishes. *)
Outcome_WithdrawUntold(k) ==
  IF k.mode # "server" THEN ConfirmedStatus(k.seen)
  ELSE CASE k.op = "Fund" -> "Funded"
         [] k.op = "Refund" -> "Refunded"
         [] k.op = "Release" -> "Released"
         [] OTHER -> "nothing to tell"
Outcome_FundUntold(k) ==
  IF k.mode # "server" THEN ConfirmedStatus(k.seen)
  ELSE CASE k.op \in {"Withdraw", "Refund"} -> "Refunded"
         [] k.op = "Release" -> "Released"
         [] OTHER -> "nothing to tell"
Outcome(k) ==
  IF k.mode # "server" THEN ConfirmedStatus(k.seen)
  ELSE CASE k.op = "Fund" -> "Funded"
         [] k.op \in {"Withdraw", "Refund"} -> "Refunded"
         [] k.op = "Release" -> "Released"
         [] OTHER -> "nothing to tell"

(* JOB_SET_ACTIVE, or JOB_COMPLETED; ESCROW_RELEASED, with the freelancer  *)
(* the row names by now, only when the service itself signed the release.  *)
Tell(c) ==
  LET j == call[c].job
      outcome == Outcome(call[c])
  IN /\ call[c].pc = "tell"
     /\ active' = [active EXCEPT ![j] =
          CASE outcome = "Funded" -> "yes" [] outcome = "Refunded" -> "no" [] OTHER -> @]
     /\ completed' = [completed EXCEPT ![j] = @ \/ outcome = "Released"]
     /\ notice' = [notice EXCEPT ![j] =
          IF outcome = "Released" /\ call[c].mode = "server" THEN db[j].freelancer ELSE @]
     /\ End(c)
     /\ UNCHANGED <<chain, db, net, crashes, flops, strays, orderly>>

(* The service stops before it acknowledged the message, and gets it again.*)
(* What the service signs is sent anew; a signature to verify is verified  *)
(* again; a transaction to relay that is in a block is refused by the node.*)
Crash(c) ==
  /\ crashes < MaxCrashes
  /\ crashes' = crashes + 1
  /\ c \in Handled
  /\ \/ /\ call[c].mode = "server"
        /\ call' = [call EXCEPT ![c].pc = "check", ![c].seen = NoEscrow,
                                ![c].outcome = "none", ![c].tries = @ + 1]
     \/ /\ call[c].mode = "client" /\ call[c].pc \in {"confirm", "record", "tell"}
        /\ Goto(c, "confirm")
     \/ /\ call[c].mode = "relay" /\ call[c].outcome # "none"
        /\ End(c)
  /\ orderly' = FALSE
  /\ UNCHANGED <<chain, db, net, told, flops, strays>>

Handle(c) ==
  \/ Check(c)
  \/ Verify(c)
  \/ Send(c)
  \/ Settled(c)
  \/ Reread(c)
  \/ ReadRow(c)
  \/ Record(c)
  \/ Tell(c)

(* The platform's earnings are taken, by withdrawPlatformFees or by anyone *)
(* who calls the program; the service keeps no record of it.               *)
WithdrawFees(w, n) ==
  /\ Chain!WithdrawFees(w, n)
  /\ UNCHANGED <<db, call, net, told, crashes, flops, strays, orderly>>

Confirm(t) ==
  \/ Land(t)
  \/ Flop(t)
  \/ Expire(t)

Next ==
  \/ \E c \in Calls, op \in Ops, j \in Jobs, w \in Clients, m \in Modes,
        f \in Freelancers \cup {NoKey} : Request(c, op, j, w, m, f)
  \/ \E c \in Calls : Handle(c)
  \/ \E t \in net : Confirm(t)
  \/ \E c \in Calls : LoseTouch(c)
  \/ \E c \in Calls : Crash(c)
  \/ \E w \in Chain!Wallets, n \in Withdrawals : WithdrawFees(w, n)

(* A handler that can run does, and the network decides every transaction  *)
(* one way or another before its blockhash is too old.                     *)
Fairness ==
  /\ \A c \in Calls : WF_vars(Handle(c))
  /\ WF_vars(\E t \in net : Confirm(t))

Spec == Init /\ [][Next]_vars /\ Fairness
-----------------------------------------------------------------------------
(* Properties *)

(* Whatever is interleaved, lost, repeated or crashes, a row never claims  *)
(* more than the program did, as long as no transaction of its job failed  *)
(* after it passed preflight: a funded row has an account behind it, a     *)
(* locked row a hire, a released or refunded row that very settlement.  A  *)
(* confirmation by someone with no escrow there can only have made up that *)
(* the job is funded, nothing else.                                        *)
RecordTrailsChain ==
  \A j \in Jobs \ flops :
    CASE db[j].status = "Funded" -> escrow[j].status # "None" \/ j \in strays
      [] db[j].status = "Locked" -> escrow[j].freelancer # NoKey
      [] db[j].status \in {"Released", "Refunded"} -> escrow[j].status = db[j].status
      [] OTHER -> TRUE

(* With the same proviso the freelancer a row names is the one the program *)
(* would pay, whichever of two hires of the same job came first.           *)
RecordNamesPayee ==
  \A j \in Jobs \ flops : db[j].freelancer # NoKey => db[j].freelancer = escrow[j].freelancer

Charging == {c \in Calls : call[c].op \in {"Fund", "TopUp"}}

(* A client is charged at most once for each delivery of a fund or top-up  *)
(* call, and for the funding itself only once: the program's init refuses  *)
(* the second, so that only top-ups can be repeated by a redelivery.       *)
ChargedOncePerDelivery ==
  /\ \A j \in Jobs : ledger[j].principal <=
       Deposit * (Cardinality({c \in Charging : call[c].job = j}) + crashes)
  /\ \A j \in Jobs : (\A c \in Charging : call[c].job = j => call[c].op = "Fund") =>
       ledger[j].principal <= Deposit

Quiet == Handled = {} /\ net = {}

(* As long as calls came one after another, with a node that answered, no  *)
(* crash and no transaction that failed after preflight, the row and the   *)
(* account of a job that only its client ever confirmed are the same: the  *)
(* same status and, while the escrow is open, the same amount and client,  *)
(* whatever was refused, expired or confirmed again on the way.            *)
AgreesWhenQuiet ==
  Quiet /\ orderly => \A j \in Jobs \ strays :
    /\ db[j].status = escrow[j].status
    /\ db[j].status \in {"Funded", "Locked"} =>
         db[j].amount = escrow[j].amount /\ db[j].wallet = escrow[j].client

(* And what the other services were told then fits: a job is shown from    *)
(* its first funding until its money goes back, and complete once paid; if *)
(* a freelancer is told of the payment, it is the one who was paid.        *)
ToldWhenQuiet ==
  Quiet /\ orderly => \A j \in Jobs \ strays :
    /\ active[j] = "yes" <=> escrow[j].status \in {"Funded", "Locked", "Released"}
    /\ completed[j] <=> escrow[j].status = "Released"
    /\ notice[j] \notin {"none", NoKey} => completed[j] /\ notice[j] = escrow[j].freelancer

(* No call hangs: whatever becomes of its transaction, and however often   *)
(* the service stops, every call that was received is answered.            *)
EveryCallEnds ==
  \A c \in Calls : call[c].pc \notin {"idle", "ended"} ~> call[c].pc = "ended"

(* A client whose money is in escrow sees the job go live, whatever else   *)
(* is going on with it; only a crash, a call of the job that lost touch    *)
(* with its transaction, or a hire locked in before the client's own       *)
(* funding is confirmed can leave the job unannounced.                     *)
FundedJobGoesLive ==
  \A j \in Jobs : escrow[j].status # "None" ~>
    \/ active[j] # "unset"
    \/ crashes > 0
    \/ escrow[j].freelancer # NoKey
    \/ \E c \in Calls : call[c].job = j /\ call[c].outcome = "lost"

(* "released: Funds sent to freelancer": the meaning ESCROW_FRONTEND.md    *)
(* gives to the status of the record.                                      *)
ReleasedMeansPaid ==
  \A j \in Jobs : db[j].status = "Released" => ledger[j].earned > 0
=============================================================================
