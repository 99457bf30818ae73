----------------------------- MODULE JobListing -----------------------------
(***************************************************************************)
(* The jobs and saved_jobs tables of the job service.  A handler finds a   *)
(* row, changes the object and saves it; save() reads the row once more    *)
(* and writes the columns in which the object differs from it.  Other      *)
(* handlers run between these three queries, and nothing locks the row.    *)
(***************************************************************************)
EXTENDS Naturals, FiniteSets

CONSTANTS
  Jobs,       \* ids of jobs and drafts
  Users,
  Calls,      \* messages the service may receive
  Ops,        \* operations among them
  MaxHandled, \* messages handled at a time: the channel's prefetch
  Nobody

ASSUME NobodyAssumption == Nobody \notin Users

VARIABLES
  job,     \* the row of each job
  saved,   \* the bookmark of each user for each job: its row's id, or 0
  fresh,   \* the next such id
  call,    \* the messages and how far their handlers are
  word,    \* history: the last value a handler that is about isActive left
  raced,   \* history: jobs written while another handler held the row
  clash    \* history: jobs written while another save was between its queries

history == <<word, raced, clash>>
vars == <<job, saved, fresh, call, history>>

Columns == {"type", "ms", "active"}
Column == [type |-> {"full", "milestone"}, ms |-> {"none", "some"}, active |-> BOOLEAN]

Row == [owner : Users, draft : BOOLEAN, type : Column.type, ms : Column.ms, active : BOOLEAN]
NoJob == [owner |-> Nobody, draft |-> FALSE, type |-> "full", ms |-> "none", active |-> FALSE]

(* The fields of a request: each may be left out. *)
NoDto == [type |-> "keep", ms |-> "keep", active |-> FALSE]

NoCall == [pc |-> "idle", op |-> "none", user |-> Nobody, job |-> Nobody, dto |-> NoDto,
           entity |-> NoJob, diff |-> {}, id |-> 0, answer |-> "none"]

Proper(row) == row.type = "milestone" => row.ms = "some"

Init ==
  /\ job \in [Jobs -> {r \in Row : (r.draft \/ Proper(r)) /\ (r.draft => ~r.active)} \cup {NoJob}]
  /\ saved \in {s \in [Users -> [Jobs -> {0, 1}]] :
                 \A p, q \in Users \X Jobs : s[p[1]][p[2]] = 1 /\ s[q[1]][q[2]] = 1 => p = q}
  /\ fresh = 2
  /\ call = [c \in Calls |-> NoCall]
  /\ word = [j \in Jobs |-> job[j].active]
  /\ raced = {} /\ clash = {}

-----------------------------------------------------------------------------

Handled == {c \in Calls : call[c].pc \notin {"idle", "ended"}}

Edits == {"Update", "UpdateStatus", "SaveDraft", "SetActive", "Completed"}

ASSUME OpsAssumption == Ops \subseteq Edits \cup {"Create", "NewDraft", "Bookmark", "Unbookmark"}

(* Where a handler starts. *)
Start(op) ==
  CASE op \in {"Create", "NewDraft"} -> "insert"
    [] op \in Edits -> "find"
    [] op = "Bookmark" -> "find job"
    [] op = "Unbookmark" -> "find bookmark"

(* The fields a request may carry. *)
DtoOf(op) ==
  CASE op \in {"Create", "NewDraft", "Update", "SaveDraft"} ->
         [type : Column.type \cup {"keep"}, ms : Column.ms \cup {"keep"}, active : {FALSE}]
    [] op \in {"UpdateStatus", "SetActive"} -> {[NoDto EXCEPT !.active = b] : b \in BOOLEAN}
    [] OTHER -> {NoDto}

Request(c, op, u, j, dto) ==
  /\ (u = Nobody) = (op \in {"SetActive", "Completed"})
  /\ call[c].pc = "idle"
  /\ Cardinality(Handled) < MaxHandled
  /\ call' = [call EXCEPT ![c] =
       [NoCall EXCEPT !.pc = Start(op), !.op = op, !.user = u, !.job = j, !.dto = dto]]
  /\ UNCHANGED <<job, saved, fresh, history>>

(* The handler answers; only what became of a bookmark is remembered. *)
Answer(c, a) ==
  LET k == call[c]
  IN call' = [call EXCEPT ![c] =
       IF k.op \in {"Bookmark", "Unbookmark"} /\ a = "ok"
       THEN [NoCall EXCEPT !.pc = "ended", !.op = k.op, !.user = k.user, !.job = k.job,
                           !.id = k.id, !.answer = a]
       ELSE [NoCall EXCEPT !.pc = "ended"]]

Merge(row, dto) ==
  [row EXCEPT !.type = IF dto.type = "keep" THEN @ ELSE dto.type,
              !.ms = IF dto.ms = "keep" THEN @ ELSE dto.ms]

(* A new job is not active until its escrow is funded.  A draft needs no   *)
(* milestones, but payment_type is a column without a default.             *)
Insert(c) ==
  LET k == call[c]
      blank == [NoJob EXCEPT !.owner = k.user, !.draft = (k.op = "NewDraft")]
      new == Merge(blank, k.dto)
      complete == k.dto.type # "keep" /\ (k.op = "Create" => Proper(new))
  IN /\ k.pc = "insert"
     /\ IF complete
        THEN /\ job[k.job] = NoJob
             /\ job' = [job EXCEPT ![k.job] = new]
             /\ word' = [word EXCEPT ![k.job] = FALSE]
             /\ Answer(c, "ok")
        ELSE UNCHANGED <<job, word>> /\ Answer(c, "refused")
     /\ UNCHANGED <<saved, fresh, raced, clash>>

(* Which rows findOne returns to an operation, the owner's check included. *)
Finds(k, row) ==
  /\ row # NoJob
  /\ k.op \in {"SetActive", "Completed"} => ~row.draft
  /\ k.op \in {"Update", "UpdateStatus"} => row.owner = k.user
  /\ k.op = "SaveDraft" => row.draft /\ row.owner = k.user

(* The object after the operation changed it. *)
Changed_EditDeactivates(k, row) ==
  CASE k.op \in {"Update", "SaveDraft"} -> [Merge(row, k.dto) EXCEPT !.active = FALSE]
    [] k.op \in {"UpdateStatus", "SetActive"} -> [row EXCEPT !.active = k.dto.active]
    [] k.op = "Completed" -> [row EXCEPT !.active = FALSE]
Changed(k, row) ==
  CASE k.op \in {"Update", "SaveDraft"} -> Merge(row, k.dto)
    [] k.op \in {"UpdateStatus", "SetActive"} -> [row EXCEPT !.active = k.dto.active]
    [] k.op = "Completed" -> [row EXCEPT !.active = FALSE]

Find(c) ==
  LET k == call[c]
      row == job[k.job]
      entity == Changed(k, row)
  IN /\ k.pc = "find"
     /\ IF Finds(k, row) /\ (k.op = "Update" => Proper(entity))
        THEN call' = [call EXCEPT ![c].pc = "compare", ![c].entity = entity]
        ELSE Answer(c, "refused")
     /\ UNCHANGED <<job, saved, fresh, history>>

(* The columns save() is going to write: those in which the object differs *)
(* from the row as it is by now, whoever changed it.                       *)
ToWrite_RequestedOnly(k, row) ==
  {x \in Columns : k.entity[x] # row[x]} \cap
    CASE k.op = "Update" -> {"type", "ms"} \ {x \in {"type", "ms"} : k.dto[x] = "keep"}
      [] k.op = "SaveDraft" -> {"type", "ms"}
      [] OTHER -> {"active"}
ToWrite(k, row) == {x \in Columns : k.entity[x] # row[x]}

Compare(c) ==
  /\ call[c].pc = "compare"
  /\ call' = [call EXCEPT ![c].pc = "write", ![c].diff = ToWrite(call[c], job[call[c].job])]
  /\ UNCHANGED <<job, saved, fresh, history>>

Holding(j, pcs) == {c \in Calls : call[c].job = j /\ call[c].pc \in pcs}

Written(k, row) ==
  [row EXCEPT !.type = IF "type" \in k.diff THEN k.entity.type ELSE @,
              !.ms = IF "ms" \in k.diff THEN k.entity.ms ELSE @,
              !.active = IF "active" \in k.diff THEN k.entity.active ELSE @]

Write(c) ==
  LET k == call[c]
      j == k.job
  IN /\ k.pc = "write"
     /\ job' = [job EXCEPT ![j] = Written(k, @)]
     /\ Answer(c, "ok")
     /\ word' = [word EXCEPT ![j] = IF k.op \in {"Update", "SaveDraft"} THEN @ ELSE k.entity.active]
     /\ raced' = IF Holding(j, {"compare", "write"}) = {c} THEN raced ELSE raced \cup {j}
     /\ clash' = IF Holding(j, {"write"}) = {c} THEN clash ELSE clash \cup {j}
     /\ UNCHANGED <<saved, fresh>>

(* Bookmarks: the job must exist, a bookmark must not, and the unique      *)
(* index refuses a second one that was not there when it was looked up.    *)
FindJob(c) ==
  /\ call[c].pc = "find job"
  /\ IF job[call[c].job] = NoJob THEN Answer(c, "refused")
     ELSE call' = [call EXCEPT ![c].pc = "find existing"]
  /\ UNCHANGED <<job, saved, fresh, history>>

Mark(c) == saved[call[c].user][call[c].job]

FindExisting(c) ==
  /\ call[c].pc = "find existing"
  /\ IF Mark(c) # 0 THEN Answer(c, "refused") ELSE call' = [call EXCEPT ![c].pc = "add"]
  /\ UNCHANGED <<job, saved, fresh, history>>

AddBookmark(c) ==
  /\ call[c].pc = "add"
  /\ IF Mark(c) # 0 THEN UNCHANGED <<saved, fresh>> /\ Answer(c, "refused")
     ELSE /\ saved' = [saved EXCEPT ![call[c].user][call[c].job] = fresh]
          /\ fresh' = fresh + 1
          /\ call' = [call EXCEPT ![c].pc = "ended", ![c].answer = "ok", ![c].id = fresh]
  /\ UNCHANGED <<job, history>>

FindBookmark(c) ==
  /\ call[c].pc = "find bookmark"
  /\ IF Mark(c) = 0 THEN Answer(c, "refused")
     ELSE call' = [call EXCEPT ![c].pc = "remove", ![c].id = Mark(c)]
  /\ UNCHANGED <<job, saved, fresh, history>>

(* remove() deletes the row it is given, by its id. *)
Doomed_ByUserAndJob(k, id) == id # 0
Doomed(k, id) == id = k.id

RemoveBookmark(c) ==
  /\ call[c].pc = "remove"
  /\ saved' = IF Doomed(call[c], Mark(c))
              THEN [saved EXCEPT ![call[c].user][call[c].job] = 0] ELSE saved
  /\ Answer(c, "ok")
  /\ UNCHANGED <<job, fresh, history>>

Handle(c) ==
  \/ Insert(c)
  \/ Find(c)
  \/ Compare(c)
  \/ Write(c)
  \/ FindJob(c)
  \/ FindExisting(c)
  \/ AddBookmark(c)
  \/ FindBookmark(c)
  \/ RemoveBookmark(c)

Next ==
  \/ \E c \in Calls, op \in Ops, u \in Users \cup {Nobody}, j \in Jobs :
       \E dto \in DtoOf(op) : Request(c, op, u, j, dto)
  \/ \E c \in Calls : Handle(c)

Spec == Init /\ [][Next]_vars

-----------------------------------------------------------------------------
(* What the read operations return. *)

Listed(active) == {j \in Jobs : job[j] # NoJob /\ job[j].active = active}
Mine(u) == {j \in Jobs : job[j].owner = u}
Drafts(u) == {j \in Mine(u) : job[j].draft}
Bookmarks(u) == {j \in Jobs : saved[u][j] # 0 /\ job[j] # NoJob}

-----------------------------------------------------------------------------
(* Properties *)

(* Among the jobs a client has posted, one paid by milestones has some.    *)
(* Each edit only checks the object it holds, so that two of them, one     *)
(* switching to milestones and one dropping them, may both pass; it is     *)
(* the saving of the whole object that keeps the row consistent, unless    *)
(* even the two queries of two saves interleave.                           *)
MilestoneJobsHaveMilestones ==
  \A u \in Users : \A j \in (Mine(u) \ Drafts(u)) \ clash : Proper(job[j])

(* A job is listed as active exactly when the last handler that is about   *)
(* its status said so: neither an edit of the job nor one of a draft takes *)
(* back what the escrow service announced, except by overlapping with it.  *)
ListedAsAnnounced ==
  \A j \in Jobs \ raced : job[j] # NoJob => (j \in Listed(TRUE)) = word[j]

(* A bookmark a user was told of stays until a removal that has seen it is *)
(* made: of two removals the slower one does not take the bookmark that    *)
(* was made in between.                                                    *)
BookmarkStays ==
  \A c \in Calls : call[c].op = "Bookmark" /\ call[c].answer = "ok" =>
    \/ /\ saved[call[c].user][call[c].job] = call[c].id
       /\ call[c].job \in Bookmarks(call[c].user)
    \/ \E d \in Calls : call[d].op = "Unbookmark" /\ call[d].answer = "ok" /\ call[d].id = call[c].id
=============================================================================
