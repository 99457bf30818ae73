------------------------------ MODULE Contracts ------------------------------
(***************************************************************************)
(* The contract of a hire: the job service generates it when it hears      *)
(* PROPOSAL_HIRED and certifies its completion when it hears JOB_COMPLETED;*)
(* the escrow service writes both to the job's contract account on chain   *)
(* and answers with the result.  The program asks of neither that it is    *)
(* the platform's authority: whoever signs first creates the account of a  *)
(* job, with documents of their own, and it is theirs to complete.         *)
(*                                                                         *)
(* JOB_COMPLETED is bound to two queues of the job service, whose consumers*)
(* share one table of handlers: each event is delivered twice, and each    *)
(* delivery runs the completion.                                           *)
(***************************************************************************)
EXTENDS Naturals, Sequences, FiniteSets

CONSTANTS
  Proposals, Jobs,
  JobOf,          \* the job of each proposal
  Hires,          \* how often PROPOSAL_HIRED is published for each proposal
  Releases,       \* how often JOB_COMPLETED is published for each job
  MaxCrashes,     \* bound on crashes
  MaxHandled,     \* bound on the messages a service handles at a time
  Outages         \* may S3, Pinata and the Solana RPC node fail?

ASSUME ContractsAssumption ==
  /\ JobOf \in [Proposals -> Jobs]
  /\ Hires \in [Proposals -> Nat] /\ Releases \in [Jobs -> Nat]
  /\ MaxCrashes \in Nat /\ MaxHandled \in Nat \ {0}
  /\ Outages \in BOOLEAN

VARIABLES
  contract,  \* the contracts table, by proposal
  stored,    \* the completion certificate of each contract in S3
  onchain,   \* the contract account of each job
  work,      \* messages not acknowledged yet, and how far their handlers are
  certs,     \* certificates made so far: the contract of each, in order
  crashes,
  pdfs,      \* history: contract PDFs made for each proposal
  early,     \* history: jobs completed while a contract was being generated
  twice      \* history: jobs whose completion was handled twice at a time

tables == <<contract, stored, certs>>
history == <<pdfs, early, twice>>
vars == <<tables, onchain, work, crashes, history>>

(* cert and pdf stand for the URLs and hashes, created and completed for   *)
(* the signatures of the on-chain transactions.                            *)
NoRow == [status |-> "None", pdf |-> FALSE, created |-> FALSE, cert |-> 0, completed |-> FALSE]
Columns == DOMAIN NoRow
NoAccount == [state |-> "None", authority |-> "none", of |-> "none", cert |-> 0]

(* One message and its handler.  no tells messages of a kind apart; target,*)
(* entity and carries, the columns of the entity that are not undefined,   *)
(* are what a handler keeps between its steps.                             *)
Message(type, of, no) ==
  [type |-> type, of |-> of, no |-> no, pc |-> "start",
   target |-> "none", entity |-> NoRow, carries |-> {}]

(* The events are in the queues from the start: one not yet delivered is   *)
(* like one not yet published.  A hire may be published twice, by two      *)
(* acceptances; the release of an escrow is one event, with a delivery     *)
(* from JOB_QUEUE and another from CONTRACT_QUEUE.                         *)
Published ==
  (UNION {{Message("hired", p, n) : n \in 1 .. Hires[p]} : p \in Proposals}) \cup
  (UNION {{Message("completed", j, n) : n \in 1 .. 2 * Releases[j]} : j \in Jobs})

Init ==
  /\ contract = [p \in Proposals |-> NoRow]
  /\ stored = [p \in Proposals |-> 0]
  /\ certs = <<>>
  /\ onchain = [j \in Jobs |-> NoAccount]
  /\ work = Published
  /\ crashes = 0
  /\ pdfs = [p \in Proposals |-> 0]
  /\ early = {}
  /\ twice = {}

-----------------------------------------------------------------------------
(* Steps of a handler w: it goes on as v, or is done and has published.    *)

EscrowService == {"create", "complete"}
JobService == {"hired", "completed", "create result", "complete result"}

(* A handler starts on a message if its service is not busy with others.   *)
Starts(w, types) ==
  /\ w.type \in types /\ w.pc = "start"
  /\ Cardinality({v \in work : v.type \in types /\ v.pc # "start"}) < MaxHandled

Become(w, v) == work' = (work \ {w}) \cup {v}
Publish(w, msgs) == work' = (work \ {w}) \cup msgs
Done(w) == Publish(w, {})

(* createAndGenerate: nothing to do for a proposal that has a contract ... *)
FindHired(w) ==
  /\ w.type = "hired" /\ Starts(w, JobService)
  /\ IF contract[w.of] = NoRow THEN Become(w, [w EXCEPT !.pc = "insert"]) ELSE Done(w)
  /\ UNCHANGED <<tables, onchain, crashes, history>>

(* ... and the unique index turns away a handler that looked too soon.     *)
Free_NoUniqueIndex(p) == TRUE
Free(p) == contract[p] = NoRow

Insert(w) ==
  /\ w.type = "hired" /\ w.pc = "insert"
  /\ IF Free(w.of)
     THEN /\ contract' = [contract EXCEPT ![w.of] = [NoRow EXCEPT !.status = "generating"]]
          /\ Become(w, [w EXCEPT !.pc = "generate", !.target = w.of])
     ELSE UNCHANGED contract /\ Done(w)
  /\ UNCHANGED <<stored, certs, onchain, crashes, history>>

(* The PDF goes to S3, or the contract is to be marked as failed.          *)
Generate_LeavesFailure(w) ==
  /\ w.type = "hired" /\ w.pc = "generate"
  /\ \/ /\ pdfs' = [pdfs EXCEPT ![w.of] = @ + 1]
        /\ Become(w, [w EXCEPT !.pc = "save", !.carries = {"status", "pdf"},
             !.entity.status = "generated", !.entity.pdf = TRUE])
     \/ Outages /\ UNCHANGED pdfs /\ Done(w)
  /\ UNCHANGED <<tables, onchain, crashes, early, twice>>
Generate(w) ==
  /\ w.type = "hired" /\ w.pc = "generate"
  /\ \/ /\ pdfs' = [pdfs EXCEPT ![w.of] = @ + 1]
        /\ Become(w, [w EXCEPT !.pc = "save", !.carries = {"status", "pdf"},
             !.entity.status = "generated", !.entity.pdf = TRUE])
     \/ /\ Outages /\ UNCHANGED pdfs
        /\ Become(w, [w EXCEPT !.pc = "save", !.carries = {"status"}, !.entity.status = "failed"])
  /\ UNCHANGED <<tables, onchain, crashes, early, twice>>

(* completeByJobId: some contract of the job, unless it is completed.      *)
AlreadyCompleted_Unchecked(p) == FALSE
AlreadyCompleted(p) == contract[p].status = "completed"

FindCompleted(w) ==
  /\ w.type = "completed" /\ Starts(w, JobService)
  /\ LET found == {p \in Proposals : JobOf[p] = w.of /\ contract[p] # NoRow}
     IN \/ found = {} /\ Done(w) /\ UNCHANGED <<early, twice>>
        \/ \E p \in found :
             IF AlreadyCompleted(p) THEN Done(w) /\ UNCHANGED <<early, twice>>
             ELSE /\ Become(w, [w EXCEPT !.pc = "load", !.target = p])
                  /\ early' = IF contract[p].status = "generating" THEN early \cup {w.of} ELSE early
                  /\ twice' = IF \E v \in work : v.type = "completed" /\ v.target = p
                              THEN twice \cup {w.of} ELSE twice
  /\ UNCHANGED <<tables, onchain, crashes, pdfs>>

LoadCompleted(w) ==
  /\ w.type = "completed" /\ w.pc = "load"
  /\ Become(w, [w EXCEPT !.pc = "certify", !.entity = contract[w.target], !.carries = Columns])
  /\ UNCHANGED <<tables, onchain, crashes, history>>

(* generateCompletionCertificate: each certificate carries its own date,   *)
(* and replaces the last one in S3.  A failed upload gives up the message. *)
Certify(w) ==
  /\ w.type = "completed" /\ w.pc = "certify"
  /\ \/ /\ certs' = Append(certs, w.target)
        /\ stored' = [stored EXCEPT ![w.target] = Len(certs')]
        /\ Become(w, [w EXCEPT !.pc = "save",
             !.entity.status = "completed", !.entity.cert = Len(certs')])
     \/ Outages /\ UNCHANGED <<stored, certs>> /\ Done(w)
  /\ UNCHANGED <<contract, onchain, crashes, history>>

(* save writes the columns of the object it was given, whatever the row    *)
(* became in the meantime.                                                 *)
Saved(w, row) == [f \in Columns |-> IF f \in w.carries THEN w.entity[f] ELSE row[f]]

(* What is then to be written on chain. *)
Requests(w) ==
  CASE w.entity.status = "generated" -> {Message("create", w.target, 0)}
    [] w.entity.status = "completed" -> {Message("complete", w.target, w.entity.cert)}
    [] OTHER -> {}

(* The request is not published if Pinata failed, so that there is no      *)
(* metadata to refer to, or if the service stops right after the save.     *)
Save(w) ==
  /\ w.pc = "save"
  /\ contract' = [contract EXCEPT ![w.target] = Saved(w, @)]
  /\ \/ Publish(w, Requests(w))
     \/ Outages /\ Done(w)
  /\ UNCHANGED <<stored, certs, onchain, crashes, history>>

-----------------------------------------------------------------------------
(* The escrow service and the program's contract account.                  *)

(* create_contract inits the account of the job for any signer, and notes  *)
(* who it was; complete_contract wants it active, and the same signer.     *)
Accepts(w, account) ==
  \/ w.type = "create" /\ account = NoAccount
  \/ w.type = "complete" /\ account.state = "Active" /\ account.authority = "service"

Executed(w, account) ==
  IF w.type = "create"
  THEN [state |-> "Active", authority |-> "service", of |-> w.of, cert |-> 0]
  ELSE [account EXCEPT !.state = "Completed", !.cert = w.no]

(* A node refuses a transaction that would fail now.                       *)
Preflight(w) ==
  /\ Starts(w, EscrowService)
  /\ IF Accepts(w, onchain[JobOf[w.of]]) THEN Become(w, [w EXCEPT !.pc = "land"]) ELSE Done(w)
  /\ UNCHANGED <<tables, onchain, crashes, history>>

Result(w) ==
  Message(IF w.type = "create" THEN "create result" ELSE "complete result", w.of, w.no)

(* The transaction is included, and a success published without a look at  *)
(* its error; or the wait for it fails, whether or not it gets there, and  *)
(* what is published is a failure, which the job service only logs.        *)
Land_AnswersAnyway(w) ==
  LET j == JobOf[w.of]
  IN /\ w.pc = "land"
     /\ \/ onchain' = [onchain EXCEPT ![j] = IF Accepts(w, @) THEN Executed(w, @) ELSE @]
        \/ Outages /\ UNCHANGED onchain
     /\ Publish(w, {Result(w)})
     /\ UNCHANGED <<tables, crashes, history>>
Land(w) ==
  LET j == JobOf[w.of]
  IN /\ w.pc = "land"
     /\ \/ /\ onchain' = [onchain EXCEPT ![j] = IF Accepts(w, @) THEN Executed(w, @) ELSE @]
           /\ \/ Publish(w, {Result(w)})
              \/ Outages /\ Done(w)
        \/ Outages /\ UNCHANGED onchain /\ Done(w)
     /\ UNCHANGED <<tables, crashes, history>>

Applied_AsGenerated(w, row) ==
  IF w.type = "create result" THEN [row EXCEPT !.created = TRUE, !.status = "generated"]
  ELSE [row EXCEPT !.completed = TRUE]
Applied(w, row) ==
  IF w.type = "create result" THEN [row EXCEPT !.created = TRUE]
  ELSE [row EXCEPT !.completed = TRUE]

ApplyResult(w) ==
  /\ w.type \in {"create result", "complete result"} /\ Starts(w, JobService)
  /\ contract' = [contract EXCEPT ![w.of] = Applied(w, @)]
  /\ Done(w)
  /\ UNCHANGED <<stored, certs, onchain, crashes, history>>

-----------------------------------------------------------------------------

(* Anyone else may call the program too.  The documents a stranger puts    *)
(* into the account, or completes it with, are none of the tables.         *)
StrangerCreates(j) ==
  /\ onchain[j] = NoAccount
  /\ onchain' = [onchain EXCEPT ![j].state = "Active", ![j].authority = "stranger"]
  /\ UNCHANGED <<tables, work, crashes, history>>

StrangerCompletes(j) ==
  /\ onchain[j].state = "Active" /\ onchain[j].authority = "stranger"
  /\ onchain' = [onchain EXCEPT ![j].state = "Completed"]
  /\ UNCHANGED <<tables, work, crashes, history>>

(* A service stops, and is delivered its unacknowledged messages again.    *)
Crash(types) ==
  /\ crashes < MaxCrashes
  /\ \E w \in work : w.type \in types /\ w.pc # "start"
  /\ crashes' = crashes + 1
  /\ work' = {w \in work : w.type \notin types} \cup
       {Message(w.type, w.of, w.no) :
          w \in {w \in work : w.type \in types}}
  /\ UNCHANGED <<tables, onchain, history>>

Handle(w) ==
  \/ FindHired(w)
  \/ Insert(w)
  \/ Generate(w)
  \/ FindCompleted(w)
  \/ LoadCompleted(w)
  \/ Certify(w)
  \/ Save(w)
  \/ Preflight(w)
  \/ Land(w)
  \/ ApplyResult(w)

Next ==
  \/ \E w \in work : Handle(w)
  \/ \E j \in Jobs : StrangerCreates(j) \/ StrangerCompletes(j)
  \/ Crash(JobService)
  \/ Crash(EscrowService)

Spec == Init /\ [][Next]_vars
-----------------------------------------------------------------------------
(* Properties *)

(* However often a hire is published or delivered, and wherever the service*)
(* stops, a proposal never gets a second contract document.                *)
OnePdfPerProposal == \A p \in Proposals : pdfs[p] <= 1

(* A row never claims an on-chain contract the job does not have, nor a    *)
(* completion that is not the service's own, even if another contract of   *)
(* the same job, or a stranger, got there first; and an account the service*)
(* made refers to documents of that job.                                   *)
RowTrailsAccount ==
  /\ \A p \in Proposals :
       /\ contract[p].created => onchain[JobOf[p]].state # "None"
       /\ contract[p].completed =>
            onchain[JobOf[p]].state = "Completed" /\ onchain[JobOf[p]].authority = "service"
  /\ \A j \in Jobs : onchain[j].authority = "service" =>
       /\ JobOf[onchain[j].of] = j /\ pdfs[onchain[j].of] = 1
       /\ onchain[j].cert > 0 => JobOf[certs[onchain[j].cert]] = j

(* Unless a completion was handled twice at a time or before the contract  *)
(* was generated, the certificate in the row is the one in S3, and the one *)
(* on chain if the account has one for this contract.                      *)
CertificateAgrees ==
  \A p \in Proposals :
    JobOf[p] \notin early \cup twice /\ contract[p].cert > 0 =>
      /\ contract[p].cert = stored[p]
      /\ LET c == onchain[JobOf[p]].cert
         IN c > 0 /\ certs[c] = p => c = contract[p].cert

(* A completed contract stays completed, unless the completion overtook    *)
(* the generation, whose save then puts the status back.                   *)
CompletedIsFinal ==
  [][\A p \in Proposals : JobOf[p] \notin early /\ contract[p].status = "completed"
       => contract'[p].status = "completed"]_vars

(* When all is handled, every hire has a contract or a failure on record,  *)
(* whatever could be uploaded or not, and however often it was published;  *)
(* only a crash can leave its contract generating for ever.                *)
HireGetsContract ==
  work = {} => \A p \in Proposals :
    /\ Hires[p] > 0 => contract[p] # NoRow
    /\ contract[p].status = "generating" => crashes > 0
=============================================================================
