------------------------------ MODULE Proposals ------------------------------
(***************************************************************************)
(* The proposals of the job service: freelancers apply, the client short-  *)
(* lists, rejects or offers the job with a signature, the applicant accepts*)
(* with another one, and PROPOSAL_HIRED tells the other services.          *)
(*                                                                         *)
(* Every handler loads the row, decides, and saves the object it loaded.   *)
(* TypeORM's save reads the row again and updates the columns that differ  *)
(* from the object, so that a save is two more steps, and an object that   *)
(* has grown stale writes its old columns back.                            *)
(***************************************************************************)
EXTENDS Naturals, FiniteSets

CONSTANTS
  Users, Jobs,
  Owner,          \* the client of each job
  Proposals,      \* whom and what they may apply to: one proposal for each pair
  Applied,        \* proposals made before today and still pending
  MaxCalls,       \* bound on the calls the service receives
  DailyLimit,     \* applications a user may make a day
  MaxHandled,     \* calls handled at a time: the channel's prefetch
  MaxCrashes,     \* bound on crashes
  NoUser

ASSUME ProposalsAssumption ==
  /\ Owner \in [Jobs -> Users] /\ NoUser \notin Users
  /\ Proposals \subseteq Users \X Jobs /\ Applied \subseteq Proposals
  /\ DailyLimit \in Nat /\ MaxHandled \in Nat \ {0} /\ MaxCalls \in Nat /\ MaxCrashes \in Nat

VARIABLES
  row,       \* the proposals table, by applicant and job
  call,      \* the calls and how far their handlers are
  hired,     \* PROPOSAL_HIRED published for each proposal
  received,  \* proposals whose client was sent 'proposal.received'
  crashes,
  agreed,    \* history: who had a signature of the hire accepted, by proposal
  overlapped \* history: proposals two calls worked on at the same time

vars == <<row, call, hired, received, crashes, agreed, overlapped>>

Calls == 1 .. MaxCalls          \* numbered as they arrive

Columns == {"status", "clientSigned", "freelancerSigned"}
Row == [status : {"None", "pending", "shortlisted", "awaiting_acceptance", "hired", "rejected"},
        clientSigned : BOOLEAN, freelancerSigned : BOOLEAN]
NoRow == [status |-> "None", clientSigned |-> FALSE, freelancerSigned |-> FALSE]
Pending == [NoRow EXCEPT !.status = "pending"]

NoCall == [pc |-> "idle", op |-> "none", p |-> <<NoUser, "none">>, by |-> NoUser,
           to |-> "none", entity |-> NoRow, changed |-> {}]

Init ==
  /\ row = [p \in Proposals |-> IF p \in Applied THEN Pending ELSE NoRow]
  /\ call = [c \in Calls |-> NoCall]
  /\ hired = [p \in Proposals |-> 0]
  /\ received = {}
  /\ crashes = 0
  /\ agreed = [p \in Proposals |-> {}]
  /\ overlapped = {}

-----------------------------------------------------------------------------

Handled == {c \in Calls : call[c].pc \notin {"idle", "ended"}}

Start(op) == IF op = "create" THEN "apply" ELSE "load"
Goto(c, pc) == call' = [call EXCEPT ![c].pc = pc]
End(c) == call' = [call EXCEPT ![c] = [NoCall EXCEPT !.pc = "ended", !.op = call[c].op, !.p = call[c].p]]

(* A request reaches the service: to apply, to set a status, to accept.    *)
(* Signatures it carries are valid; the others are refused unseen.         *)
Request(c, op, p, by, to) ==
  /\ call[c].pc = "idle" /\ (c > 1 => call[c - 1].pc # "idle")
  /\ Cardinality(Handled) < MaxHandled
  /\ op \in {"create", "accept"} => by = p[1]
  /\ (op = "update") = (to # "none")
  /\ call' = [call EXCEPT ![c] =
       [NoCall EXCEPT !.pc = Start(op), !.op = op, !.p = p, !.by = by, !.to = to]]
  /\ overlapped' = IF \E d \in Handled : call[d].p = p THEN overlapped \cup {p} ELSE overlapped
  /\ UNCHANGED <<row, hired, received, crashes, agreed>>

-----------------------------------------------------------------------------
(* Applying.  The job, which may be gone or not active, and the duplicate  *)
(* are looked up, then the day's applications are counted, then the row is *)
(* inserted.                                                               *)

AppliedToday(u) == {p \in Proposals \ Applied : p[1] = u /\ row[p] # NoRow}

Apply(c) ==
  /\ call[c].pc = "apply"
  /\ \/ row[call[c].p] = NoRow /\ Goto(c, "count")
     \/ End(c)
  /\ UNCHANGED <<row, hired, received, crashes, agreed, overlapped>>

UnderLimit_OffByOne(u) == Cardinality(AppliedToday(u)) <= DailyLimit
UnderLimit(u) == Cardinality(AppliedToday(u)) < DailyLimit

Count(c) ==
  /\ call[c].pc = "count"
  /\ IF UnderLimit(call[c].by) THEN Goto(c, "insert") ELSE End(c)
  /\ UNCHANGED <<row, hired, received, crashes, agreed, overlapped>>

(* The unique index refuses a second row for the same applicant and job.   *)
Free_NoUniqueIndex(p) == TRUE
Free(p) == row[p] = NoRow

Insert(c) ==
  /\ call[c].pc = "insert"
  /\ IF Free(call[c].p)
     THEN row' = [row EXCEPT ![call[c].p] = Pending] /\ Goto(c, "notify")
     ELSE UNCHANGED row /\ End(c)
  /\ UNCHANGED <<hired, received, crashes, agreed, overlapped>>

(* The client to notify is read off the saved proposal, whose job is the   *)
(* reference the handler built it with: it has an id, and no owner.        *)
SavedJob(p) == [id |-> p[2], userId |-> NoUser]

Notify(c) ==
  /\ call[c].pc = "notify"
  /\ received' = IF SavedJob(call[c].p).userId # NoUser THEN received \cup {call[c].p} ELSE received
  /\ End(c)
  /\ UNCHANGED <<row, hired, crashes, agreed, overlapped>>

-----------------------------------------------------------------------------
(* Changing the status and accepting an offer.                             *)

MayUpdate_RejectedToo(k, r) ==
  IF r.status \in {"hired", "awaiting_acceptance"}
  THEN k.by = k.p[1] /\ k.to = "rejected"
  ELSE k.by = Owner[k.p[2]] /\ r.status # "None"
MayUpdate(k, r) ==
  /\ r.status \notin {"None", "rejected"}
  /\ IF r.status \in {"hired", "awaiting_acceptance"}
     THEN k.by = k.p[1] /\ k.to = "rejected"
     ELSE k.by = Owner[k.p[2]]

MayAccept_Unoffered(k, r) == r.status \notin {"None", "rejected", "hired"}
MayAccept(k, r) == r.status = "awaiting_acceptance"

Allowed(k, r) == IF k.op = "accept" THEN MayAccept(k, r) ELSE MayUpdate(k, r)

(* What the handler makes of the row it loaded. *)
Edited_OfferIsHire(k, r) ==
  CASE k.op = "accept" -> [r EXCEPT !.status = "hired", !.freelancerSigned = TRUE]
    [] k.op = "update" /\ k.to = "hired" -> [r EXCEPT !.status = "hired", !.clientSigned = TRUE]
    [] OTHER -> [r EXCEPT !.status = k.to]
Edited(k, r) ==
  CASE k.op = "accept" -> [r EXCEPT !.status = "hired", !.freelancerSigned = TRUE]
    [] k.op = "update" /\ k.to = "hired" -> [r EXCEPT !.status = "awaiting_acceptance", !.clientSigned = TRUE]
    [] OTHER -> [r EXCEPT !.status = k.to]

(* The signatures the call brings, verified before anything is saved. *)
Signatures(k) ==
  CASE k.op = "accept" -> {"freelancer"}
    [] k.op = "update" /\ k.to = "hired" -> {"client"}
    [] OTHER -> {}

Load(c) ==
  LET k == call[c]
      r == row[k.p]
  IN /\ k.pc = "load"
     /\ IF Allowed(k, r)
        THEN /\ call' = [call EXCEPT ![c].pc = "reload", ![c].entity = Edited(k, r)]
             /\ agreed' = [agreed EXCEPT ![k.p] = @ \cup Signatures(k)]
        ELSE End(c) /\ UNCHANGED agreed
     /\ UNCHANGED <<row, hired, received, crashes, overlapped>>

Reload(c) ==
  /\ call[c].pc = "reload"
  /\ call' = [call EXCEPT ![c].pc = "write",
       ![c].changed = {f \in Columns : call[c].entity[f] # row[call[c].p][f]}]
  /\ UNCHANGED <<row, hired, received, crashes, agreed, overlapped>>

Write(c) ==
  LET k == call[c]
  IN /\ k.pc = "write"
     /\ row' = [row EXCEPT ![k.p] =
          [f \in Columns |-> IF f \in k.changed THEN k.entity[f] ELSE row[k.p][f]]]
     /\ IF k.op = "accept" THEN Goto(c, "publish") ELSE End(c)
     /\ UNCHANGED <<hired, received, crashes, agreed, overlapped>>

(* Only an acceptance tells anyone. *)
Publish_IfStillHired(c) ==
  /\ call[c].pc = "publish"
  /\ hired' = IF row[call[c].p].status = "hired" THEN [hired EXCEPT ![call[c].p] = @ + 1] ELSE hired
  /\ End(c)
  /\ UNCHANGED <<row, received, crashes, agreed, overlapped>>
Publish(c) ==
  /\ call[c].pc = "publish"
  /\ hired' = [hired EXCEPT ![call[c].p] = @ + 1]
  /\ End(c)
  /\ UNCHANGED <<row, received, crashes, agreed, overlapped>>

-----------------------------------------------------------------------------

(* The service stops: every unacknowledged call is delivered again.        *)
Crash ==
  /\ crashes < MaxCrashes
  /\ crashes' = crashes + 1
  /\ call' = [c \in Calls |->
       IF c \in Handled
       THEN [call[c] EXCEPT !.pc = Start(call[c].op), !.entity = NoRow, !.changed = {}]
       ELSE call[c]]
  /\ UNCHANGED <<row, hired, received, agreed, overlapped>>

Handle(c) ==
  \/ Apply(c)
  \/ Count(c)
  \/ Insert(c)
  \/ Notify(c)
  \/ Load(c)
  \/ Reload(c)
  \/ Write(c)
  \/ Publish(c)

Next ==
  \/ \E c \in Calls, op \in {"create", "update", "accept"}, p \in Proposals, by \in Users,
        to \in {"none", "shortlisted", "hired", "rejected"} : Request(c, op, p, by, to)
  \/ \E c \in Calls : Handle(c)
  \/ Crash

(* A handler whose reads and writes are answered goes on to its end.       *)
Spec == Init /\ [][Next]_vars /\ \A c \in Calls : WF_vars(Handle(c))
-----------------------------------------------------------------------------
(* Properties *)

Call == [pc : {"idle", "apply", "count", "insert", "notify", "load", "reload", "write",
               "publish", "ended"},
         op : {"none", "create", "update", "accept"},
         p : Proposals \cup {<<NoUser, "none">>}, by : Users \cup {NoUser},
         to : {"none", "shortlisted", "hired", "rejected"},
         entity : Row, changed : SUBSET Columns]

(* Whatever overlaps or crashes, nobody is hired, and no hire is announced,*)
(* unless the client signed an offer and the applicant then accepted it.   *)
AgreedByBoth ==
  \A p \in Proposals :
    row[p].status = "hired" \/ hired[p] > 0 => agreed[p] = {"client", "freelancer"}

(* The count and the insert are two steps: the daily limit may be exceeded *)
(* by the applications handled at the same time, and by no more, however   *)
(* often the service is restarted.                                         *)
LimitOvershoot ==
  \A u \in Users : Cardinality(AppliedToday(u)) <= DailyLimit + MaxHandled - 1

(* A proposal never goes back to pending: neither a second application nor *)
(* a redelivered one nor a stale save resets what was decided.             *)
NeverStartsOver ==
  [][\A p \in Proposals : row[p].status # "None" /\ row'[p].status = "pending"
       => row[p].status = "pending"]_vars

(* "already been rejected and cannot be updated": a rejection is final for *)
(* a proposal whose calls do not overlap, crashes included.                *)
RejectedIsFinal ==
  [][\A p \in Proposals \ overlapped :
       row[p].status = "rejected" => row'[p].status = "rejected"]_vars

(* For such a proposal the signatures in the row are those its status      *)
(* stands for, and an acceptance is announced exactly once unless a crash  *)
(* came in between.                                                        *)
SignaturesFitStatus ==
  \A p \in Proposals \ overlapped :
    /\ row[p].status = "awaiting_acceptance" => row[p].clientSigned /\ ~row[p].freelancerSigned
    /\ row[p].status = "hired" => row[p].clientSigned /\ row[p].freelancerSigned
    /\ crashes = 0 /\ (\A c \in Handled : call[c].p # p)
         => hired[p] = IF row[p].freelancerSigned THEN 1 ELSE 0

(* Whoever was hired is announced, even if a decline follows at once; only *)
(* a crash between the save and the publish can swallow the announcement.  *)
HireIsAnnounced ==
  \A p \in Proposals : row[p].status = "hired" ~> hired[p] > 0 \/ crashes > 0
=============================================================================
