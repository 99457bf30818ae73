----------------------------- MODULE Milestones -----------------------------
(***************************************************************************)
(* The milestones of one job: rows of the escrow service, each with an     *)
(* escrow of its own on chain, keyed by the milestone's id.  Every await   *)
(* of a handler is a point where others run, so what lies between two of   *)
(* them is a step.                                                         *)
(*                                                                         *)
(* The job escrow asks the chain before it acts (EscrowService); these     *)
(* operations look at the row alone, so that the row decides what can      *)
(* still be done with the money.                                           *)
(***************************************************************************)
EXTENDS Naturals, FiniteSets

CONSTANTS
  Milestones, Clients, Freelancers, Supply, Withdrawals, FeeVaultStart, MaxU64, RentMin, NoKey,
  Authority,   \* the platform's keypair
  Deposit,     \* lamports of each milestone, fixed at its creation
  Calls,       \* calls the service may receive
  Modes,       \* signing modes: "server", "client" (which includes relaying)
  MaxHandled,  \* calls handled at a time: the channel's prefetch
  MaxCrashes,  \* bound on crashes
  Outages      \* may the Solana RPC node fail to answer, and clients give up?

VARIABLES
  escrow, vault, feeVault, wallet, ledger,  \* the program's accounts
  row,      \* the milestones table
  call,     \* the calls and how far their handlers are
  net,      \* transactions accepted by a node and not yet in a block
  active,   \* the isActive of the last JOB_SET_ACTIVE published for the job
  crashes,
  trouble,  \* history: milestones with a transaction or a reading that failed or was lost
  flops,    \* history: those whose transaction failed after it passed preflight
  strays,   \* history: those confirmed by a wallet that had no escrow there
  drained,  \* history: was the fee vault ever too low to take a milestone's fee?
  overlap   \* history: were two calls ever handled at once?

Chain == INSTANCE EscrowProgram WITH
  Jobs <- Milestones, Authorities <- {Authority}, Amounts <- {Deposit}

ASSUME ProgramAssumption == Chain!ConstantsAssumption /\ Chain!RuntimeAssumption

chain == <<escrow, vault, feeVault, wallet, ledger>>
history == <<trouble, flops, strays, drained, overlap>>
vars == <<chain, row, call, net, active, crashes, history>>

NoEscrow == Chain!NoEscrow

NoRow == [status |-> "None", amount |-> 0, wallet |-> NoKey, freelancer |-> NoKey]
Pending == [NoRow EXCEPT !.status = "Pending", !.amount = Deposit]

NoCall == [pc |-> "idle", op |-> "none", ms |-> NoKey, mode |-> "server", wallet |-> NoKey,
           hire |-> NoKey, list |-> {}, todo |-> {}, seen |-> NoRow, outcome |-> "none", tries |-> 0]

(* The program refuses to leave an account below the rent minimum, the fee *)
(* vault too: the fee it would get from a hire has to lift it above that.  *)
Low == feeVault + Chain!Fee(Deposit) < RentMin

Init ==
  /\ Chain!Init
  /\ row = [m \in Milestones |-> NoRow]
  /\ call = [c \in Calls |-> NoCall]
  /\ net = {}
  /\ active = "unset"
  /\ crashes = 0
  /\ trouble = {} /\ flops = {} /\ strays = {}
  /\ drained = Low
  /\ overlap = FALSE

-----------------------------------------------------------------------------

Handled == {c \in Calls : call[c].pc \notin {"idle", "ended"}}

Goto(c, pc) == call' = [call EXCEPT ![c].pc = pc]

Ended(k) == [NoCall EXCEPT !.pc = "ended", !.op = k.op, !.ms = k.ms, !.list = k.list]

(* A handler that is through with its milestone returns; the hire goes on  *)
(* with its next one, whatever became of this one.                         *)
Finished_StopsAtError(k, ok) ==
  IF k.op = "Lock" /\ ok THEN [k EXCEPT !.pc = "turn", !.outcome = "none"] ELSE Ended(k)
Finished(k, ok) ==
  IF k.op = "Lock" THEN [k EXCEPT !.pc = "turn", !.outcome = "none"] ELSE Ended(k)
Finish(c, ok) == call' = [call EXCEPT ![c] = Finished(call[c], ok)]

(* The job's owner adds milestones to it, in one save. *)
CreateMilestones(ms) ==
  /\ ms # {} /\ \A m \in ms : row[m] = NoRow
  /\ row' = [m \in Milestones |-> IF m \in ms THEN Pending ELSE row[m]]
  /\ UNCHANGED <<chain, call, net, active, crashes, history>>

Receive(c, k) ==
  /\ call[c].pc = "idle"
  /\ Cardinality(Handled) < MaxHandled
  /\ call' = [call EXCEPT ![c] = k]
  /\ overlap' = (overlap \/ Handled # {})
  /\ UNCHANGED <<chain, row, net, active, crashes, trouble, flops, strays, drained>>

(* A confirmation follows a fund, withdraw or release in client mode; one  *)
(* that stands alone comes from any user and for any milestone.            *)
Request(c, op, m, w, mode) ==
  /\ op = "Refund" => mode = "server"
  /\ op = "Confirm" => mode = "client"
  /\ Receive(c, [NoCall EXCEPT !.pc = "check", !.op = op, !.ms = m, !.mode = mode, !.wallet = w])

(* PROPOSAL_HIRED, for a freelancer with a wallet. *)
ProposalHired(c, f) ==
  Receive(c, [NoCall EXCEPT !.pc = "list", !.op = "Lock", !.hire = f])

(* The job's own escrow was locked first.  That may throw, and the message *)
(* goes to the dead letters; else the funded milestones are listed, once.  *)
ListFunded(c) ==
  LET funded == {m \in Milestones : row[m].status = "Funded"}
  IN /\ call[c].pc = "list"
     /\ \/ call' = [call EXCEPT ![c].pc = "turn", ![c].list = funded, ![c].todo = funded]
        \/ Outages /\ call' = [call EXCEPT ![c] = Ended(@)]
     /\ UNCHANGED <<chain, row, net, active, crashes, history>>

Turn(c) ==
  /\ call[c].pc = "turn"
  /\ \/ call[c].todo = {} /\ call' = [call EXCEPT ![c] = Ended(@)]
     \/ \E m \in call[c].todo :
          call' = [call EXCEPT ![c].pc = "check", ![c].ms = m, ![c].todo = @ \ {m}]
  /\ UNCHANGED <<chain, row, net, active, crashes, history>>

(* The guards of the six operations, all of them on the row. *)
Allowed(op, r) ==
  CASE op = "Fund" -> r.status = "Pending"
    [] op \in {"Withdraw", "TopUp", "Lock"} -> r.status = "Funded"
    [] op = "Release" -> r.status = "Locked" /\ r.freelancer # NoKey
    [] op = "Refund" -> r.status \in {"Funded", "Locked"} /\ r.wallet # NoKey

Check(c) ==
  LET r == row[call[c].ms]
  IN /\ call[c].pc = "check" /\ call[c].op # "Confirm"
     /\ IF Allowed(call[c].op, r)
        THEN call' = [call EXCEPT ![c].pc = "send", ![c].seen = r]
        ELSE Finish(c, TRUE)
     /\ UNCHANGED <<chain, row, net, active, crashes, history>>

(* A confirmation that stands alone needs a signature of any transaction   *)
(* that is in a block and did not fail.                                    *)
Verify(c) ==
  /\ call[c].pc = "check" /\ call[c].op = "Confirm"
  /\ Goto(c, "confirm") \/ Finish(c, FALSE)
  /\ UNCHANGED <<chain, row, net, active, crashes, history>>

(* The transaction a call builds, and what the program does with it.  The  *)
(* accounts of a top-up lack the platform fee vault: the program refuses   *)
(* every one.                                                              *)
Tx(c) ==
  LET k == call[c]
  IN [call |-> c, try |-> k.tries, op |-> k.op, ms |-> k.ms, signer |-> k.wallet,
      payee |-> CASE k.op = "Lock" -> k.hire
                  [] k.op = "Release" -> k.seen.freelancer
                  [] k.op = "Refund" -> k.seen.wallet
                  [] OTHER -> NoKey]

Submit(t) ==
  \/ t.op = "Fund" /\ Chain!Initialize(t.signer, Authority, t.ms, Deposit)
  \/ t.op = "Withdraw" /\ Chain!Withdraw(t.signer, t.ms)
  \/ t.op = "Release" /\ Chain!Release(t.signer, t.ms, t.payee)
  \/ t.op = "Lock" /\ Chain!Lock(Authority, t.ms, t.payee)
  \/ t.op = "Refund" /\ t.payee = escrow[t.ms].client /\ Chain!Refund(Authority, t.ms)

(* Would the program carry it out now? *)
Passes(t) ==
  \/ t.op = "Fund" /\ Chain!CanInitialize(t.signer, t.ms, Deposit)
  \/ t.op = "Withdraw" /\ Chain!CanWithdraw(t.signer, t.ms)
  \/ t.op = "Release" /\ Chain!CanRelease(t.signer, t.ms, t.payee)
  \/ t.op = "Lock" /\ Chain!CanLock(Authority, t.ms)
  \/ t.op = "Refund" /\ t.payee = escrow[t.ms].client /\ Chain!CanRefund(Authority, t.ms)

(* Broadcast by the service or by the client's own wallet; the preflight   *)
(* refuses a transaction that would fail now.                              *)
Send(c) ==
  /\ call[c].pc = "send"
  /\ IF Passes(Tx(c))
     THEN net' = net \cup {Tx(c)} /\ Goto(c, "wait")
     ELSE UNCHANGED net /\ Finish(c, FALSE)
  /\ UNCHANGED <<chain, row, active, crashes, history>>

Report(t, outcome) ==
  call' = IF call[t.call].pc = "wait" /\ call[t.call].tries = t.try /\ call[t.call].ms = t.ms
          THEN [call EXCEPT ![t.call].outcome = outcome]
          ELSE call

Land(t) ==
  /\ Submit(t)
  /\ net' = net \ {t}
  /\ Report(t, "ok")
  /\ UNCHANGED <<row, active, crashes, history>>

(* Included in a block, but the program returns an error. *)
Flop(t) ==
  /\ ~Passes(t)
  /\ net' = net \ {t}
  /\ Report(t, "failed")
  /\ flops' = flops \cup {t.ms} /\ trouble' = trouble \cup {t.ms}
  /\ UNCHANGED <<chain, row, active, crashes, strays, drained, overlap>>

(* Its blockhash expires before a leader includes it. *)
Expire(t) ==
  /\ net' = net \ {t}
  /\ Report(t, "expired")
  /\ trouble' = trouble \cup {t.ms}
  /\ UNCHANGED <<chain, row, active, crashes, flops, strays, drained, overlap>>

(* confirmTransaction throws when the transaction expired; when it failed  *)
(* in a block only the confirmation of a client's transaction looks.       *)
GoesOn_ExpiredToo(mode, outcome) == outcome = "ok" \/ mode = "server"
GoesOn(mode, outcome) == outcome = "ok" \/ (outcome = "failed" /\ mode = "server")

Settled(c) ==
  /\ call[c].pc = "wait" /\ call[c].outcome # "none"
  /\ IF GoesOn(call[c].mode, call[c].outcome)
     THEN Goto(c, IF call[c].mode = "server" THEN "record" ELSE "confirm")
     ELSE Finish(c, FALSE)
  /\ UNCHANGED <<chain, row, net, active, crashes, history>>

(* The wait throws, or the client never comes back to confirm, while the   *)
(* transaction is still on its way.                                        *)
LoseTouch(c) ==
  /\ Outages
  /\ call[c].pc = "wait"
  /\ Finish(c, FALSE)
  /\ trouble' = trouble \cup {call[c].ms}
  /\ UNCHANGED <<chain, row, net, active, crashes, flops, strays, drained, overlap>>

(* Does this wallet have money in escrow for the milestone? *)
Owns(w, m) == escrow[m].status # "None" /\ escrow[m].client = w

(* What confirmMilestoneTransaction reads of the account; null, where none *)
(* is or the node fails, counts as funded with the amount of the row.      *)
Account(e) == [NoRow EXCEPT !.status = e.status, !.amount = e.amount]
Fallback(r) == [NoRow EXCEPT !.status = "Funded", !.amount = r.amount]

Reread(c) ==
  LET m == call[c].ms
      Reads(seen) == call' = [call EXCEPT ![c].pc = "record", ![c].seen = seen]
  IN /\ call[c].pc = "confirm"
     /\ IF row[m] = NoRow THEN Finish(c, FALSE) /\ UNCHANGED <<trouble, strays>>
        ELSE /\ \/ /\ Reads(IF escrow[m] = NoEscrow THEN Fallback(row[m]) ELSE Account(escrow[m]))
                   /\ UNCHANGED trouble
                \/ /\ Outages /\ Reads(Fallback(row[m]))
                   /\ trouble' = trouble \cup {m}
             /\ strays' = IF Owns(call[c].wallet, m) THEN strays ELSE strays \cup {m}
     /\ UNCHANGED <<chain, row, net, active, crashes, flops, drained, overlap>>

(* The row a call leaves.  Confirming never touches the freelancer. *)
ConfirmedRow(k, r) ==
  [r EXCEPT !.status = k.seen.status, !.amount = k.seen.amount, !.wallet = k.wallet]

SignedRow(k, r) ==
  CASE k.op = "Fund" -> [r EXCEPT !.status = "Funded", !.wallet = k.wallet]
    [] k.op \in {"Withdraw", "Refund"} -> [r EXCEPT !.status = "Refunded"]
    [] k.op = "Release" -> [r EXCEPT !.status = "Released"]
    [] k.op = "Lock" -> [r EXCEPT !.status = "Locked", !.freelancer = k.hire]

Recorded(k, r) == IF k.mode = "server" THEN SignedRow(k, r) ELSE ConfirmedRow(k, r)

(* What is still to do once the row is written: announce a funded job at   *)
(* once, count what is left after money went back, and otherwise nothing.  *)
AfterRecord_RefundSilent(status) == IF status = "Funded" THEN "announce" ELSE "done"
AfterRecord(status) ==
  CASE status = "Funded" -> "announce" [] status = "Refunded" -> "count" [] OTHER -> "done"

Record(c) ==
  LET new == Recorded(call[c], row[call[c].ms])
      next == AfterRecord(new.status)
  IN /\ call[c].pc = "record"
     /\ row' = [row EXCEPT ![call[c].ms] = new]
     /\ IF next = "done" THEN Finish(c, TRUE) ELSE Goto(c, next)
     /\ UNCHANGED <<chain, net, active, crashes, history>>

Announce(c) ==
  /\ call[c].pc = "announce"
  /\ active' = "yes"
  /\ Finish(c, TRUE)
  /\ UNCHANGED <<chain, row, net, crashes, history>>

(* updateJobActiveFromMilestones counts the rows; the publication of the   *)
(* result is a step of its own.                                            *)
Count(c) ==
  /\ call[c].pc = "count"
  /\ call' = [call EXCEPT ![c].pc = "publish", ![c].outcome =
       IF \E m \in Milestones : row[m].status \in {"Funded", "Locked"} THEN "yes" ELSE "no"]
  /\ UNCHANGED <<chain, row, net, active, crashes, history>>

Publish(c) ==
  /\ call[c].pc = "publish"
  /\ active' = call[c].outcome
  /\ Finish(c, TRUE)
  /\ UNCHANGED <<chain, row, net, crashes, history>>

(* The service stops before a message was acknowledged and gets it again:  *)
(* what it signs is sent anew, the hire lists its milestones again, a      *)
(* signature is verified again and a relayed transaction is refused.       *)
Crash(c) ==
  /\ crashes < MaxCrashes
  /\ crashes' = crashes + 1
  /\ c \in Handled
  /\ \/ /\ call[c].mode = "server"
        /\ call' = [call EXCEPT ![c] = [call[c] EXCEPT
             !.pc = IF call[c].op = "Lock" THEN "list" ELSE "check",
             !.list = {}, !.todo = {}, !.seen = NoRow, !.outcome = "none", !.tries = @ + 1]]
     \/ /\ call[c].mode = "client" /\ call[c].pc \in {"confirm", "record", "announce", "count", "publish"}
        /\ \/ Goto(c, "confirm")
           \/ call' = [call EXCEPT ![c] = Ended(@)]
  /\ UNCHANGED <<chain, row, net, active, history>>

Handle(c) ==
  \/ ListFunded(c)
  \/ Turn(c)
  \/ Check(c)
  \/ Verify(c)
  \/ Send(c)
  \/ Settled(c)
  \/ Reread(c)
  \/ Record(c)
  \/ Announce(c)
  \/ Count(c)
  \/ Publish(c)

(* The platform's earnings are taken, by withdrawPlatformFees or by anyone *)
(* who calls the program.                                                  *)
WithdrawFees(w, n) ==
  /\ Chain!WithdrawFees(w, n)
  /\ drained' = (drained \/ Low')
  /\ UNCHANGED <<row, call, net, active, crashes, trouble, flops, strays, overlap>>

Confirm(t) ==
  \/ Land(t)
  \/ Flop(t)
  \/ Expire(t)

Next ==
  \/ \E ms \in SUBSET Milestones : CreateMilestones(ms)
  \/ \E c \in Calls, m \in Milestones, w \in Clients, mode \in Modes,
        op \in {"Fund", "TopUp", "Withdraw", "Release", "Refund", "Confirm"} : Request(c, op, m, w, mode)
  \/ \E c \in Calls, f \in Freelancers : ProposalHired(c, f)
  \/ \E c \in Calls : Handle(c)
  \/ \E t \in net : Confirm(t)
  \/ \E c \in Calls : LoseTouch(c)
  \/ \E c \in Calls : Crash(c)
  \/ \E w \in Chain!Wallets, n \in Withdrawals : WithdrawFees(w, n)

Spec == Init /\ [][Next]_vars

-----------------------------------------------------------------------------
(* Properties *)

(* A row never claims more than the program did, whatever is interleaved,  *)
(* lost, repeated or crashes, as long as no transaction of its milestone   *)
(* failed after preflight: a funded row has an account behind it, a locked *)
(* row a hire, a settled row that settlement, and a freelancer it names is *)
(* the one the program pays.  Since every guard reads the row, a row that  *)
(* ran ahead would send the client's money the wrong way.  A confirmation  *)
(* by someone with no escrow there can have made up a funding, no more.    *)
RowTrailsChain ==
  \A m \in Milestones \ flops :
    /\ CASE row[m].status = "Funded" -> escrow[m].status # "None" \/ m \in strays
         [] row[m].status = "Locked" -> escrow[m].freelancer # NoKey
         [] row[m].status \in {"Released", "Refunded"} -> escrow[m].status = row[m].status
         [] OTHER -> row[m].freelancer = NoKey
    /\ row[m].freelancer # NoKey => row[m].freelancer = escrow[m].freelancer

(* One milestone that cannot be locked does not keep the others from it:   *)
(* when the handler of a hire is through, no milestone it set out to lock  *)
(* is still open to withdrawal, but for those with a transaction of their  *)
(* own, or a reading of their account, that came to grief, and those that  *)
(* someone without an escrow confirmed.  It takes a fee vault that was     *)
(* never emptied so far that the program would refuse the fee of a hire.   *)
HireLocksListed ==
  \A c \in Calls : call[c].pc = "ended" /\ ~drained =>
    \A m \in call[c].list \ (trouble \cup strays) : escrow[m].status # "Funded"

Quiet == Handled = {} /\ net = {}
Orderly == ~overlap /\ crashes = 0 /\ trouble = {}

(* Its row was made up: no money was ever put in escrow for it.            *)
MadeUp(m) == m \in strays /\ row[m].status = "Funded" /\ escrow[m] = NoEscrow

(* When calls come one after another and nothing goes wrong, the row and   *)
(* the account of a milestone agree, but for a funding that someone made   *)
(* up by confirming what was never paid; and the job is shown while a row  *)
(* is funded or locked: it disappears only when none is left.              *)
AgreesWhenOrderly ==
  Quiet /\ Orderly =>
    /\ \A m \in Milestones :
         \/ /\ row[m].status \notin {"None", "Pending"} => row[m].status = escrow[m].status
            /\ row[m].status \in {"None", "Pending"} => escrow[m] = NoEscrow
            /\ row[m].freelancer = escrow[m].freelancer
         \/ MadeUp(m)
    /\ (\E m \in Milestones : row[m].status \in {"Funded", "Locked"}) => active = "yes"
    /\ (\A m \in Milestones : row[m].status \in {"None", "Pending", "Refunded"}) => active # "yes"
=============================================================================
