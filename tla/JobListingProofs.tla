--------------------------- MODULE JobListingProofs ---------------------------
(***************************************************************************)
(* Jobs and bookmarks keep their promises for any jobs, users, calls and   *)
(* number of calls handled at a time.                                      *)
(***************************************************************************)
EXTENDS JobListing, TLAPS

AnyOp == Edits \cup {"Create", "NewDraft", "Bookmark", "Unbookmark"}
Pcs == {"idle", "insert", "find", "compare", "write", "find job", "find existing", "add",
        "find bookmark", "remove", "ended"}

RowType == [owner : Users \cup {Nobody}, draft : BOOLEAN, type : Column.type, ms : Column.ms,
            active : BOOLEAN]
Dto == [type : Column.type \cup {"keep"}, ms : Column.ms \cup {"keep"}, active : BOOLEAN]
CallType == [pc : Pcs, op : AnyOp \cup {"none"}, user : Users \cup {Nobody},
             job : Jobs \cup {Nobody}, dto : Dto, entity : RowType, diff : SUBSET Columns,
             id : Nat, answer : {"none", "ok", "refused"}]

(* The handler of an operation runs its own queries only, and a call that  *)
(* asks for a bookmark keeps its user, its job and the row's id.           *)
Stage(k) ==
  /\ k.pc = "insert" => k.op \in {"Create", "NewDraft"}
  /\ k.pc \in {"find", "compare", "write"} => k.op \in Edits
  /\ k.pc \in {"find job", "find existing", "add"} => k.op = "Bookmark"
  /\ k.pc \in {"find bookmark", "remove"} => k.op = "Unbookmark"
  /\ k.pc = "remove" => k.id # 0
  /\ k.pc \notin {"idle", "ended"} =>
       k.job \in Jobs /\ (k.op \notin {"SetActive", "Completed"} => k.user \in Users)
  /\ k.pc # "ended" => k.answer = "none"
  /\ k.op = "Bookmark" /\ k.answer = "ok" => k.user \in Users /\ k.job \in Jobs /\ k.id # 0

TypeOK ==
  /\ job \in [Jobs -> RowType]
  /\ \A j \in Jobs : job[j] # NoJob => job[j].owner \in Users
  /\ saved \in [Users -> [Jobs -> Nat]]
  /\ fresh \in Nat \ {0}
  /\ call \in [Calls -> CallType]
  /\ word \in [Jobs -> BOOLEAN]
  /\ \A c \in Calls : Stage(call[c])

(* The row a handler holds is there, and is a draft if it saves a draft.   *)
HeldBy(k) ==
  /\ k.pc \in {"compare", "write", "find existing", "add"} => job[k.job] # NoJob
  /\ k.pc \in {"compare", "write"} /\ k.op = "SaveDraft" => job[k.job].draft = TRUE

Held == \A c \in Calls : HeldBy(call[c])

Base == TypeOK /\ Held

-----------------------------------------------------------------------------

(* What a change of one call leaves of the others.                         *)
LEMMA OneCall ==
  ASSUME TypeOK, NEW c \in Calls, NEW k \in CallType, Stage(k), call' = [call EXCEPT ![c] = k]
  PROVE /\ call' \in [Calls -> CallType]
        /\ call'[c] = k
        /\ \A d \in Calls : d # c => call'[d] = call[d]
        /\ \A d \in Calls : Stage(call[d])'
<1>1. /\ call' \in [Calls -> CallType]
      /\ call'[c] = k
      /\ \A d \in Calls : d # c => call'[d] = call[d]
  BY DEF TypeOK
<1>2. ASSUME NEW d \in Calls PROVE Stage(call[d])'
  <2>1. Stage(call[d])
    BY DEF TypeOK
  <2>2. CASE d = c
    BY <1>1, <2>2 DEF Stage
  <2>3. CASE d # c
    BY <1>1, <2>1, <2>3 DEF Stage
  <2> QED
    BY <2>2, <2>3
<1> QED
  BY <1>1, <1>2

(* The record of a call that is answered.                                  *)
Answered(k, a) ==
  IF k.op \in {"Bookmark", "Unbookmark"} /\ a = "ok"
  THEN [NoCall EXCEPT !.pc = "ended", !.op = k.op, !.user = k.user, !.job = k.job,
                      !.id = k.id, !.answer = a]
  ELSE [NoCall EXCEPT !.pc = "ended"]

(* The blank record is one of a call.                                      *)
LEMMA NoCallIsACall == NoCall \in CallType
  BY DEF NoCall, CallType, NoDto, Dto, NoJob, RowType, Column, Pcs, AnyOp

(* An answer ends the call, and does not grant a bookmark.                 *)
LEMMA Answering ==
  ASSUME TypeOK, NEW c \in Calls, NEW a \in {"ok", "refused"}, Answer(c, a),
         call[c].op = "Bookmark" => a = "refused"
  PROVE /\ Answered(call[c], a) \in CallType
        /\ Stage(Answered(call[c], a))
        /\ Answered(call[c], a).pc = "ended"
        /\ call' = [call EXCEPT ![c] = Answered(call[c], a)]
<1>1. call[c] \in CallType
  BY DEF TypeOK
<1>2. call' = [call EXCEPT ![c] = Answered(call[c], a)]
  BY DEF Answer, Answered
<1> DEFINE done == Answered(call[c], a)
<1>3. CASE call[c].op \in {"Bookmark", "Unbookmark"} /\ a = "ok"
  <2>1. call[c].op = "Unbookmark"
    BY <1>3
  <2>2. done = [NoCall EXCEPT !.pc = "ended", !.op = call[c].op, !.user = call[c].user,
                  !.job = call[c].job, !.id = call[c].id, !.answer = a]
    BY <1>3 DEF Answered
  <2>3. done \in CallType /\ done.pc = "ended" /\ done.op = call[c].op
    BY <1>1, <2>2, NoCallIsACall DEF CallType, Pcs
  <2> HIDE DEF done
  <2>4. Stage(done)
    BY <2>1, <2>3 DEF Stage
  <2> QED
    BY <1>2, <2>3, <2>4 DEF done
<1>4. CASE ~(call[c].op \in {"Bookmark", "Unbookmark"} /\ a = "ok")
  <2>1. done = [NoCall EXCEPT !.pc = "ended"]
    BY <1>4 DEF Answered
  <2>2. done \in CallType /\ done.pc = "ended" /\ done.op = "none"
    BY <2>1, NoCallIsACall DEF CallType, Pcs, NoCall
  <2> HIDE DEF done
  <2>3. Stage(done)
    BY <2>2 DEF Stage
  <2> QED
    BY <1>2, <2>2, <2>3 DEF done
<1> QED
  BY <1>3, <1>4

(* At the start nothing is held.                                           *)
LEMMA Initially == Init => Base
<1> SUFFICES ASSUME Init PROVE Base
  OBVIOUS
<1>0. Row \subseteq RowType /\ NoJob \in RowType
  BY DEF Row, RowType, NoJob, Column
<1>r. job \in [Jobs -> Row \cup {NoJob}]
  BY DEF Init
<1>1. job \in [Jobs -> RowType] /\ \A j \in Jobs : job[j] # NoJob => job[j].owner \in Users
  BY <1>0, <1>r DEF Row
<1>2. word \in [Jobs -> BOOLEAN]
  BY <1>1 DEF Init, RowType
<1>3. saved \in [Users -> [Jobs -> Nat]]
  BY DEF Init
<1>4. call \in [Calls -> CallType] /\ \A c \in Calls : call[c] = NoCall
  BY NoCallIsACall DEF Init
<1>5. Stage(NoCall)
  BY DEF Stage, NoCall, Edits
<1>6. Held
  <2>1. HeldBy(NoCall)
    BY DEF HeldBy, NoCall
  <2> QED
    BY <1>4, <2>1 DEF Held
<1> QED
  BY <1>1, <1>2, <1>3, <1>4, <1>5, <1>6 DEF Base, TypeOK, Init

(* A step of one call keeps the types and what handlers hold, if it leaves *)
(* the jobs there are, and which of them are drafts.                       *)
LEMMA Advance ==
  ASSUME Base, NEW c \in Calls, NEW k \in CallType, Stage(k), call' = [call EXCEPT ![c] = k],
         job' \in [Jobs -> RowType],
         \A j \in Jobs : job'[j] # NoJob => job'[j].owner \in Users,
         \A j \in Jobs : job[j] # NoJob => job'[j] # NoJob /\ job'[j].draft = job[j].draft,
         saved' \in [Users -> [Jobs -> Nat]], fresh' \in Nat \ {0}, word' \in [Jobs -> BOOLEAN],
         k.pc \in {"compare", "write", "find existing", "add"} => job[k.job] # NoJob,
         k.pc \in {"compare", "write"} /\ k.op = "SaveDraft" => job[k.job].draft = TRUE
  PROVE Base'
<1>0. TypeOK /\ Held
  BY DEF Base
<1>1. /\ call' \in [Calls -> CallType]
      /\ call'[c] = k
      /\ \A d \in Calls : d # c => call'[d] = call[d]
      /\ \A d \in Calls : Stage(call[d])'
  BY <1>0, OneCall
<1>2. TypeOK'
  BY <1>1 DEF TypeOK
<1>3. ASSUME NEW d \in Calls PROVE HeldBy(call[d])'
  <2>1. call'[d].pc \notin {"idle", "ended"} => call'[d].job \in Jobs
    BY <1>1 DEF Stage
  <2>2. /\ call'[d].pc \in {"compare", "write", "find existing", "add"} => job[call'[d].job] # NoJob
        /\ call'[d].pc \in {"compare", "write"} /\ call'[d].op = "SaveDraft" => job[call'[d].job].draft = TRUE
    BY <1>0, <1>1 DEF Held, HeldBy
  <2> QED
    BY <2>1, <2>2 DEF HeldBy
<1> QED
  BY <1>2, <1>3 DEF Base, Held

(* Most steps concern no table.                                            *)
LEMMA AdvanceOnly ==
  ASSUME Base, NEW c \in Calls, NEW k \in CallType, Stage(k), call' = [call EXCEPT ![c] = k],
         UNCHANGED <<job, saved, fresh, word>>,
         k.pc \in {"compare", "write", "find existing", "add"} => job[k.job] # NoJob,
         k.pc \in {"compare", "write"} /\ k.op = "SaveDraft" => job[k.job].draft = TRUE
  PROVE Base'
  BY Advance DEF Base, TypeOK

(* The same for a call that is answered.                                   *)
LEMMA AnswerOnly ==
  ASSUME Base, NEW c \in Calls, NEW a \in {"ok", "refused"}, Answer(c, a),
         call[c].op = "Bookmark" => a = "refused", UNCHANGED <<job, saved, fresh, word>>
  PROVE Base'
<1>1. TypeOK
  BY DEF Base
<1>2. /\ Answered(call[c], a) \in CallType
      /\ Stage(Answered(call[c], a))
      /\ Answered(call[c], a).pc = "ended"
      /\ call' = [call EXCEPT ![c] = Answered(call[c], a)]
  BY <1>1, Answering
<1> QED
  BY <1>2, AdvanceOnly

-----------------------------------------------------------------------------
(* Each step keeps the types and what handlers hold *)

(* A message starts its handler.                                           *)
LEMMA RequestStep ==
  ASSUME Base, NEW c \in Calls, NEW o \in Ops, NEW u \in Users \cup {Nobody}, NEW j \in Jobs,
         NEW dto \in DtoOf(o), Request(c, o, u, j, dto)
  PROVE Base'
<1> DEFINE k == [NoCall EXCEPT !.pc = Start(o), !.op = o, !.user = u, !.job = j, !.dto = dto]
<1>1. o \in AnyOp
  BY OpsAssumption DEF AnyOp
<1>2. dto \in Dto
  <2>1. NoDto \in Dto /\ \A b \in BOOLEAN : [NoDto EXCEPT !.active = b] \in Dto
    BY DEF NoDto, Dto, Column
  <2>2. CASE o \in {"Create", "NewDraft", "Update", "SaveDraft"}
    BY <2>2 DEF DtoOf, Dto
  <2>3. CASE o \in {"UpdateStatus", "SetActive"}
    BY <2>1, <2>3 DEF DtoOf
  <2>4. CASE o \notin {"Create", "NewDraft", "Update", "SaveDraft", "UpdateStatus", "SetActive"}
    BY <2>1, <2>4 DEF DtoOf
  <2> QED
    BY <2>2, <2>3, <2>4
<1>3. /\ Start(o) \in {"insert", "find", "find job", "find bookmark"}
      /\ Start(o) = "insert" => o \in {"Create", "NewDraft"}
      /\ Start(o) = "find" => o \in Edits
      /\ Start(o) = "find job" => o = "Bookmark"
      /\ Start(o) = "find bookmark" => o = "Unbookmark"
  BY <1>1 DEF Start, AnyOp, Edits
<1>4. k \in CallType /\ k.pc = Start(o) /\ k.op = o /\ k.user = u /\ k.job = j /\ k.answer = "none"
  BY <1>1, <1>2, <1>3, NoCallIsACall DEF CallType, NoCall, Pcs
<1>5. o \notin {"SetActive", "Completed"} => u \in Users
  BY DEF Request
<1>6. Stage(k)
  BY <1>3, <1>4, <1>5 DEF Stage
<1>7. call' = [call EXCEPT ![c] = k] /\ UNCHANGED <<job, saved, fresh, word>>
  BY DEF Request, history
<1> HIDE DEF k
<1> QED
  BY <1>3, <1>4, <1>6, <1>7, AdvanceOnly

(* A job or draft is inserted complete, or refused.                        *)
LEMMA InsertStep == ASSUME Base, NEW c \in Calls, Insert(c) PROVE Base'
<1> DEFINE k == call[c]
           blank == [NoJob EXCEPT !.owner = k.user, !.draft = (k.op = "NewDraft")]
           new == Merge(blank, k.dto)
           complete == k.dto.type # "keep" /\ (k.op = "Create" => Proper(new))
<1>0. TypeOK /\ k \in CallType /\ Stage(k) /\ k.pc = "insert"
  BY DEF Base, TypeOK, Insert
<1>1. k.op \in {"Create", "NewDraft"} /\ k.job \in Jobs /\ k.user \in Users /\ k.dto \in Dto
  BY <1>0 DEF Stage, CallType
<1>2. blank \in RowType /\ blank.owner = k.user
  BY <1>0, <1>1 DEF NoJob, RowType, Column
<1>3. new \in RowType /\ new.owner = k.user
  <2> HIDE DEF blank
  <2> QED
    BY <1>1, <1>2 DEF Merge, RowType, Dto, Column
<1>4. CASE ~complete
  <2>1. UNCHANGED <<job, saved, fresh, word>> /\ Answer(c, "refused")
    BY <1>4 DEF Insert
  <2> QED
    BY <1>1, <2>1, AnswerOnly
<1>5. CASE complete
  <2>1. /\ job[k.job] = NoJob
        /\ job' = [job EXCEPT ![k.job] = new]
        /\ word' = [word EXCEPT ![k.job] = FALSE]
        /\ Answer(c, "ok")
        /\ UNCHANGED <<saved, fresh>>
    BY <1>5 DEF Insert
  <2> HIDE DEF new, complete, blank
  <2>2. /\ Answered(k, "ok") \in CallType
        /\ Stage(Answered(k, "ok"))
        /\ Answered(k, "ok").pc = "ended"
        /\ call' = [call EXCEPT ![c] = Answered(k, "ok")]
    BY <1>0, <1>1, <2>1, Answering
  <2>3. /\ job' \in [Jobs -> RowType]
        /\ \A j \in Jobs : job'[j] = IF j = k.job THEN new ELSE job[j]
        /\ word' \in [Jobs -> BOOLEAN]
    BY <1>0, <1>1, <1>3, <2>1 DEF TypeOK
  <2>4. \A j \in Jobs : job'[j] # NoJob => job'[j].owner \in Users
    BY <1>0, <1>1, <1>3, <2>3 DEF TypeOK
  <2>5. saved' \in [Users -> [Jobs -> Nat]] /\ fresh' \in Nat \ {0}
    BY <1>0, <2>1 DEF TypeOK
  <2> QED
    BY <2>1, <2>2, <2>3, <2>4, <2>5, Advance
<1> QED
  BY <1>4, <1>5

(* A handler keeps the row it finds, changed as the request says.          *)
LEMMA Edited ==
  ASSUME NEW row \in RowType, NEW k \in CallType, k.op \in Edits
  PROVE /\ Changed(k, row) \in RowType
        /\ k.op \in {"Update", "SaveDraft"} => Changed(k, row).active = row.active
        /\ k.op \notin {"Update", "SaveDraft"} =>
             Changed(k, row).type = row.type /\ Changed(k, row).ms = row.ms
<1>1. k.dto \in Dto
  BY DEF CallType
<1>2. CASE k.op \in {"Update", "SaveDraft"}
  BY <1>1, <1>2 DEF Changed, Merge, RowType, Dto, Column
<1>3. CASE k.op \in {"UpdateStatus", "SetActive"}
  BY <1>1, <1>3 DEF Changed, RowType, Dto
<1>4. CASE k.op = "Completed"
  BY <1>4 DEF Changed, RowType
<1> QED
  BY <1>2, <1>3, <1>4 DEF Edits

(* A handler takes the row as it is into its hands.                        *)
LEMMA FindStep == ASSUME Base, NEW c \in Calls, Find(c) PROVE Base'
<1> DEFINE k == call[c]
           row == job[k.job]
           entity == Changed(k, row)
<1>0. TypeOK /\ k \in CallType /\ Stage(k) /\ k.pc = "find"
  BY DEF Base, TypeOK, Find
<1>1. k.op \in Edits /\ k.job \in Jobs /\ row \in RowType
  BY <1>0 DEF Stage, TypeOK
<1>2. entity \in RowType
  BY <1>0, <1>1, Edited
<1>3. UNCHANGED <<job, saved, fresh, word>>
  BY DEF Find, history
<1>4. CASE Answer(c, "refused")
  BY <1>1, <1>3, <1>4, AnswerOnly DEF Edits
<1>5. CASE Finds(k, row) /\ call' = [call EXCEPT ![c].pc = "compare", ![c].entity = entity]
  <2> DEFINE new == [k EXCEPT !.pc = "compare", !.entity = entity]
  <2> HIDE DEF entity
  <2>1. call' = [call EXCEPT ![c] = new]
    BY <1>0, <1>5 DEF TypeOK
  <2>2. new \in CallType /\ new.pc = "compare" /\ new.op = k.op /\ new.job = k.job
        /\ new.user = k.user /\ new.answer = k.answer /\ new.id = k.id
    BY <1>0, <1>2 DEF CallType, Pcs
  <2>3. Stage(new)
    BY <1>0, <1>1, <2>2 DEF Stage, Edits
  <2>4. job[k.job] # NoJob /\ (k.op = "SaveDraft" => job[k.job].draft = TRUE)
    BY <1>5 DEF Finds
  <2> HIDE DEF new, row, k
  <2> QED
    BY <1>3, <2>1, <2>2, <2>3, <2>4, AdvanceOnly DEF k
<1> QED
  BY <1>4, <1>5 DEF Find

(* The first query of a save only notes what to write.                     *)
LEMMA CompareStep == ASSUME Base, NEW c \in Calls, Compare(c) PROVE Base'
<1> DEFINE k == call[c]
           new == [k EXCEPT !.pc = "write", !.diff = ToWrite(k, job[k.job])]
<1>0. TypeOK /\ Held /\ k \in CallType /\ Stage(k) /\ k.pc = "compare"
  BY DEF Base, TypeOK, Compare
<1>1. UNCHANGED <<job, saved, fresh, word>>
  BY DEF Compare, history
<1>2. call' = [call EXCEPT ![c] = new]
  BY <1>0 DEF TypeOK, Compare
<1>3. ToWrite(k, job[k.job]) \in SUBSET Columns
  BY DEF ToWrite
<1>4. new \in CallType /\ new.pc = "write" /\ new.op = k.op /\ new.job = k.job
      /\ new.user = k.user /\ new.answer = k.answer /\ new.id = k.id
  BY <1>0, <1>3 DEF CallType, Pcs
<1>5. Stage(new)
  BY <1>0, <1>4 DEF Stage, Edits
<1>6. job[k.job] # NoJob /\ (k.op = "SaveDraft" => job[k.job].draft = TRUE)
  BY <1>0 DEF Held, HeldBy
<1> HIDE DEF new
<1> QED
  BY <1>1, <1>2, <1>4, <1>5, <1>6, AdvanceOnly

(* The row a save leaves.                                                  *)
LEMMA Writing ==
  ASSUME TypeOK, NEW c \in Calls, Write(c)
  PROVE LET k == call[c]
        IN /\ k.job \in Jobs
           /\ job' = [job EXCEPT ![k.job] = Written(k, job[k.job])]
           /\ Written(k, job[k.job]) \in RowType
           /\ Written(k, job[k.job]).owner = job[k.job].owner
           /\ Written(k, job[k.job]).draft = job[k.job].draft
           /\ Written(k, job[k.job]).type = IF "type" \in k.diff THEN k.entity.type ELSE job[k.job].type
           /\ Written(k, job[k.job]).ms = IF "ms" \in k.diff THEN k.entity.ms ELSE job[k.job].ms
           /\ Written(k, job[k.job]).active =
                IF "active" \in k.diff THEN k.entity.active ELSE job[k.job].active
<1> DEFINE k == call[c]
           row == job[k.job]
<1>1. k \in CallType /\ k.job \in Jobs /\ row \in RowType /\ k.entity \in RowType
  BY DEF TypeOK, Stage, Write, CallType
<1>2. job' = [job EXCEPT ![k.job] = Written(k, row)]
  BY DEF Write, Written
<1>3. /\ Written(k, row) \in RowType
      /\ Written(k, row).owner = row.owner
      /\ Written(k, row).draft = row.draft
      /\ Written(k, row).type = IF "type" \in k.diff THEN k.entity.type ELSE row.type
      /\ Written(k, row).ms = IF "ms" \in k.diff THEN k.entity.ms ELSE row.ms
      /\ Written(k, row).active = IF "active" \in k.diff THEN k.entity.active ELSE row.active
  <2> HIDE DEF k, row
  <2> QED
    BY <1>1 DEF Written, RowType, Column
<1> QED
  BY <1>1, <1>2, <1>3

(* The second one writes the noted columns; owner and draft flag stay.      *)
LEMMA WriteStep == ASSUME Base, NEW c \in Calls, Write(c) PROVE Base'
<1> DEFINE k == call[c]
           row == job[k.job]
           new == Written(k, row)
<1>0. TypeOK /\ Held /\ k \in CallType /\ Stage(k) /\ k.pc = "write" /\ k.op \in Edits
  BY DEF Base, TypeOK, Write, Stage
<1>1. /\ k.job \in Jobs
      /\ job' = [job EXCEPT ![k.job] = new]
      /\ new \in RowType /\ new.owner = row.owner /\ new.draft = row.draft
  BY <1>0, Writing
<1>2. Answer(c, "ok") /\ UNCHANGED <<saved, fresh>>
      /\ word' = [word EXCEPT ![k.job] = IF k.op \in {"Update", "SaveDraft"} THEN @ ELSE k.entity.active]
  BY DEF Write
<1>3. /\ Answered(k, "ok") \in CallType
      /\ Stage(Answered(k, "ok"))
      /\ Answered(k, "ok").pc = "ended"
      /\ call' = [call EXCEPT ![c] = Answered(k, "ok")]
  BY <1>0, <1>2, Answering DEF Edits
<1>4. row # NoJob /\ row.owner \in Users
  BY <1>0, <1>1 DEF Held, HeldBy, TypeOK
<1>5. k.entity.active \in BOOLEAN
  BY <1>0 DEF CallType, RowType
<1> HIDE DEF new
<1>6. /\ job' \in [Jobs -> RowType]
      /\ \A j \in Jobs : job'[j] = IF j = k.job THEN new ELSE job[j]
  BY <1>0, <1>1 DEF TypeOK
<1>7. word' \in [Jobs -> BOOLEAN]
  BY <1>0, <1>1, <1>2, <1>5 DEF TypeOK
<1>8. \A j \in Jobs : job'[j] # NoJob => job'[j].owner \in Users
  BY <1>0, <1>1, <1>4, <1>6 DEF TypeOK
<1>9. new # NoJob
  BY <1>1, <1>4, NobodyAssumption DEF NoJob
<1>10. \A j \in Jobs : job[j] # NoJob => job'[j] # NoJob /\ job'[j].draft = job[j].draft
  BY <1>1, <1>6, <1>9
<1>11. saved' \in [Users -> [Jobs -> Nat]] /\ fresh' \in Nat \ {0}
  BY <1>0, <1>2 DEF TypeOK
<1> QED
  BY <1>3, <1>6, <1>7, <1>8, <1>10, <1>11, Advance

(* Bookmarks leave the jobs alone, and new ones have an id.                *)
LEMMA BookmarkSteps ==
  ASSUME Base, NEW c \in Calls,
         FindJob(c) \/ FindExisting(c) \/ AddBookmark(c) \/ FindBookmark(c) \/ RemoveBookmark(c)
  PROVE Base'
<1> DEFINE k == call[c]
<1>0. TypeOK /\ Held /\ k \in CallType /\ Stage(k) /\ HeldBy(k)
  BY DEF Base, TypeOK, Held
<1>u. k.pc \in {"find job", "find existing", "add", "find bookmark", "remove"} =>
        k.user \in Users /\ k.job \in Jobs
  BY <1>0 DEF Stage
<1>a. ASSUME UNCHANGED <<job, saved, fresh, word>>, Answer(c, "refused")
      PROVE Base'
  BY <1>a, AnswerOnly
<1>b. ASSUME NEW p \in {"find existing", "add"}, k.op = "Bookmark", call' = [call EXCEPT ![c].pc = p],
             job[k.job] # NoJob, k.pc \in {"find job", "find existing"},
             UNCHANGED <<job, saved, fresh, word>>
      PROVE Base'
  <2> DEFINE new == [k EXCEPT !.pc = p]
  <2>1. call' = [call EXCEPT ![c] = new]
    BY <1>0, <1>b DEF TypeOK
  <2>2. new \in CallType /\ new.pc = p /\ new.op = k.op /\ new.job = k.job
        /\ new.user = k.user /\ new.answer = k.answer /\ new.id = k.id
    BY <1>0 DEF CallType, Pcs
  <2>3. Stage(new)
    BY <1>0, <1>b, <2>2 DEF Stage, Edits
  <2> HIDE DEF new
  <2> QED
    BY <1>b, <2>1, <2>2, <2>3, AdvanceOnly
<1>1. CASE FindJob(c)
  <2>1. k.op = "Bookmark" /\ k.pc = "find job"
    BY <1>0, <1>1 DEF FindJob, Stage
  <2> QED
    BY <1>1, <1>a, <1>b, <2>1 DEF FindJob, history
<1>2. CASE FindExisting(c)
  <2>1. k.op = "Bookmark" /\ k.pc = "find existing" /\ job[k.job] # NoJob
    BY <1>0, <1>2 DEF FindExisting, Stage, HeldBy
  <2> QED
    BY <1>2, <1>a, <1>b, <2>1 DEF FindExisting, history
<1>3. CASE AddBookmark(c)
  <2>1. CASE Mark(c) # 0
    BY <1>3, <1>a, <2>1 DEF AddBookmark, history
  <2>2. CASE Mark(c) = 0
    <3> DEFINE new == [k EXCEPT !.pc = "ended", !.answer = "ok", !.id = fresh]
    <3>1. /\ saved' = [saved EXCEPT ![k.user][k.job] = fresh]
          /\ fresh' = fresh + 1
          /\ call' = [call EXCEPT ![c] = new]
          /\ UNCHANGED <<job, word>>
          /\ k.pc = "add"
      BY <1>0, <1>3, <2>2 DEF AddBookmark, history, TypeOK
    <3>2. new \in CallType /\ new.pc = "ended" /\ new.op = k.op /\ new.job = k.job
          /\ new.user = k.user /\ new.id = fresh
      BY <1>0 DEF CallType, Pcs, TypeOK
    <3>3. Stage(new)
      BY <1>0, <1>u, <3>1, <3>2 DEF Stage, Edits, TypeOK
    <3>4. saved' \in [Users -> [Jobs -> Nat]] /\ fresh' \in Nat \ {0}
      BY <1>0, <1>u, <3>1 DEF TypeOK
    <3> HIDE DEF new
    <3> QED
      BY <1>0, <3>1, <3>2, <3>3, <3>4, Advance DEF TypeOK
  <2> QED
    BY <2>1, <2>2
<1>4. CASE FindBookmark(c)
  <2>1. CASE Mark(c) = 0
    BY <1>4, <1>a, <2>1 DEF FindBookmark, history
  <2>2. CASE Mark(c) # 0
    <3> DEFINE new == [k EXCEPT !.pc = "remove", !.id = Mark(c)]
    <3>0. k.pc = "find bookmark" /\ call' = [call EXCEPT ![c] = new]
      BY <1>0, <1>4, <2>2 DEF FindBookmark, TypeOK
    <3>1. Mark(c) \in Nat
      BY <1>0, <1>u, <3>0 DEF Mark, TypeOK
    <3>2. new \in CallType /\ new.pc = "remove" /\ new.op = k.op /\ new.job = k.job
          /\ new.user = k.user /\ new.answer = k.answer /\ new.id = Mark(c)
      BY <1>0, <3>1 DEF CallType, Pcs
    <3>3. Stage(new)
      BY <1>0, <2>2, <3>0, <3>2 DEF Stage, Edits
    <3>4. UNCHANGED <<job, saved, fresh, word>>
      BY <1>4 DEF FindBookmark, history
    <3> HIDE DEF new
    <3> QED
      BY <3>0, <3>2, <3>3, <3>4, AdvanceOnly
  <2> QED
    BY <2>1, <2>2
<1>5. CASE RemoveBookmark(c)
  <2>1. k.pc = "remove" /\ k.op = "Unbookmark" /\ Answer(c, "ok") /\ UNCHANGED <<job, fresh, word>>
    BY <1>0, <1>5 DEF RemoveBookmark, Stage, history
  <2>2. saved' \in [Users -> [Jobs -> Nat]]
    BY <1>0, <1>u, <1>5, <2>1 DEF RemoveBookmark, TypeOK
  <2>3. /\ Answered(k, "ok") \in CallType
        /\ Stage(Answered(k, "ok"))
        /\ Answered(k, "ok").pc = "ended"
        /\ call' = [call EXCEPT ![c] = Answered(k, "ok")]
    BY <1>0, <2>1, Answering
  <2> QED
    BY <1>0, <2>1, <2>2, <2>3, Advance DEF TypeOK
<1> QED
  BY <1>1, <1>2, <1>3, <1>4, <1>5

(* Every step keeps the types and what handlers hold.                      *)
LEMMA BaseStep == Base /\ [Next]_vars => Base'
<1> SUFFICES ASSUME Base, [Next]_vars PROVE Base'
  OBVIOUS
<1>1. CASE UNCHANGED vars
  BY <1>1 DEF vars, history, Base, TypeOK, Held, HeldBy, Stage
<1>2. ASSUME NEW c \in Calls, Handle(c) PROVE Base'
  BY <1>2, InsertStep, FindStep, CompareStep, WriteStep, BookmarkSteps DEF Handle
<1>3. ASSUME NEW c \in Calls, NEW o \in Ops, NEW u \in Users \cup {Nobody}, NEW j \in Jobs,
             NEW dto \in DtoOf(o), Request(c, o, u, j, dto)
      PROVE Base'
  BY <1>3, RequestStep
<1> QED
  BY <1>1, <1>2, <1>3 DEF Next

-----------------------------------------------------------------------------
(* What the lists rest on: the objects handlers are about to save *)

Saving(k) == k.pc \in {"compare", "write"}

(* While nobody else wrote the row a handler holds, what it holds of the   *)
(* status is the row's, or what it was asked to make of it, and a save     *)
(* writes it if it differs.                                                *)
StatusKept ==
  /\ \A j \in Jobs \ raced : job[j] # NoJob => job[j].active = word[j]
  /\ \A c \in Calls :
       LET k == call[c]
       IN Saving(k) /\ k.job \notin raced =>
            /\ k.op \in {"Update", "SaveDraft"} => k.entity.active = job[k.job].active
            /\ k.pc = "write" => ("active" \notin k.diff => k.entity.active = job[k.job].active)

(* While no two saves interleave, what is about to be saved is consistent, *)
(* and a save writes whatever differs.                                     *)
ProperKept ==
  /\ \A j \in Jobs \ clash : job[j] # NoJob /\ job[j].draft = FALSE => Proper(job[j])
  /\ \A c \in Calls :
       LET k == call[c]
       IN Saving(k) /\ k.job \notin clash =>
            /\ job[k.job].draft = FALSE => Proper(k.entity)
            /\ k.pc = "write" =>
                 /\ "type" \notin k.diff => k.entity.type = job[k.job].type
                 /\ "ms" \notin k.diff => k.entity.ms = job[k.job].ms

JobsKept == StatusKept /\ ProperKept

(* At the start posted jobs are consistent and nothing is being saved.     *)
LEMMA KeptInitially == Init => JobsKept
<1> SUFFICES ASSUME Init PROVE JobsKept
  OBVIOUS
<1>1. \A c \in Calls : ~Saving(call[c])
  BY DEF Init, NoCall, Saving
<1>2. \A j \in Jobs : job[j] # NoJob => job[j] \in Row /\ (job[j].draft \/ Proper(job[j]))
  BY DEF Init
<1>3. \A j \in Jobs : word[j] = job[j].active
  BY DEF Init
<1> QED
  BY <1>1, <1>2, <1>3 DEF JobsKept, StatusKept, ProperKept, Row

(* A step of a call that changes no job and holds none afterwards.         *)
LEMMA KeptAside ==
  ASSUME Base, JobsKept, NEW c \in Calls, NEW k \in CallType, call' = [call EXCEPT ![c] = k],
         ~Saving(k), UNCHANGED <<job, word, raced, clash>>
  PROVE JobsKept'
<1>1. \A d \in Calls : Saving(call'[d]) => call'[d] = call[d]
  BY DEF Base, TypeOK
<1>2. StatusKept'
  BY <1>1 DEF JobsKept, StatusKept, Saving
<1>3. ProperKept'
  BY <1>1 DEF JobsKept, ProperKept, Saving, Proper
<1> QED
  BY <1>2, <1>3 DEF JobsKept

(* The record of an answer is none that holds a job.                       *)
LEMMA AnswerHoldsNothing ==
  ASSUME TypeOK, NEW c \in Calls, NEW a, Answer(c, a)
  PROVE /\ \A d \in Calls : d # c => call'[d] = call[d]
        /\ call'[c].pc = "ended"
  BY DEF TypeOK, Answer, NoCall

(* A call that is answered without a change of a job keeps all that.       *)
LEMMA KeptByAnswer ==
  ASSUME Base, JobsKept, NEW c \in Calls, NEW a, Answer(c, a), UNCHANGED <<job, word, raced, clash>>
  PROVE JobsKept'
<1>1. \A d \in Calls : Saving(call'[d]) => call'[d] = call[d]
  BY AnswerHoldsNothing DEF Base, Saving
<1>2. StatusKept'
  BY <1>1 DEF JobsKept, StatusKept, Saving
<1>3. ProperKept'
  BY <1>1 DEF JobsKept, ProperKept, Saving, Proper
<1> QED
  BY <1>2, <1>3 DEF JobsKept

(* A new job is consistent and inactive, and nobody holds it yet.          *)
LEMMA KeptByInsert == ASSUME Base, JobsKept, NEW c \in Calls, Insert(c) PROVE JobsKept'
<1> DEFINE k == call[c]
           blank == [NoJob EXCEPT !.owner = k.user, !.draft = (k.op = "NewDraft")]
           new == Merge(blank, k.dto)
           complete == k.dto.type # "keep" /\ (k.op = "Create" => Proper(new))
<1>0. TypeOK /\ Held /\ k \in CallType /\ k.op \in {"Create", "NewDraft"} /\ k.job \in Jobs
  BY DEF Base, TypeOK, Insert, Stage
<1>1. CASE ~complete
  <2>1. Answer(c, "refused") /\ UNCHANGED <<job, word, raced, clash>>
    BY <1>1 DEF Insert
  <2> QED
    BY <2>1, KeptByAnswer
<1>2. CASE complete
  <2>0. k.dto \in Dto
    BY <1>0 DEF CallType
  <2>1. blank.active = FALSE /\ blank.draft = (k.op = "NewDraft")
    BY DEF NoJob
  <2>2. new.active = FALSE /\ new.draft = (k.op = "NewDraft")
    <3>1. new.active = blank.active /\ new.draft = blank.draft
      <4> HIDE DEF blank
      <4> QED
        BY DEF Merge
    <3> QED
      BY <2>1, <3>1
  <2>3. /\ job[k.job] = NoJob
        /\ job' = [job EXCEPT ![k.job] = new]
        /\ word' = [word EXCEPT ![k.job] = FALSE]
        /\ Answer(c, "ok")
        /\ UNCHANGED <<raced, clash>>
    BY <1>2 DEF Insert
  <2>4. new.draft = FALSE => Proper(new)
    BY <1>0, <1>2, <2>2
  <2> HIDE DEF new, complete, blank
  <2>5. /\ \A j \in Jobs : job'[j] = IF j = k.job THEN new ELSE job[j]
        /\ \A j \in Jobs : word'[j] = IF j = k.job THEN FALSE ELSE word[j]
    BY <1>0, <2>3 DEF TypeOK
  <2>6. \A d \in Calls : Saving(call'[d]) =>
          call'[d] = call[d] /\ call[d].job \in Jobs /\ call[d].job # k.job
    <3>1. \A d \in Calls : Saving(call'[d]) => call'[d] = call[d]
      BY <1>0, <2>3, AnswerHoldsNothing DEF Saving
    <3>2. \A d \in Calls : Saving(call[d]) => call[d].job \in Jobs
      BY <1>0 DEF Saving, TypeOK, Stage
    <3>3. \A d \in Calls : Saving(call[d]) => job[call[d].job] # NoJob
      BY <1>0 DEF Saving, Held, HeldBy
    <3> QED
      BY <2>3, <3>1, <3>2, <3>3
  <2>7. StatusKept'
    <3>1. ASSUME NEW j \in Jobs \ raced', job'[j] # NoJob PROVE job'[j].active = word'[j]
      <4>1. CASE j = k.job
        <5>1. job'[j] = new /\ word'[j] = FALSE
          BY <2>5, <4>1
        <5> QED
          BY <2>2, <5>1, Zenon
      <4>2. CASE j # k.job
        BY <2>3, <2>5, <3>1, <4>2 DEF JobsKept, StatusKept
      <4> QED
        BY <4>1, <4>2
    <3>2. \A d \in Calls : Saving(call'[d]) => job'[call[d].job] = job[call[d].job]
      BY <2>5, <2>6
    <3>3. ASSUME NEW d \in Calls, Saving(call'[d]), call'[d].job \notin raced'
          PROVE /\ call'[d].op \in {"Update", "SaveDraft"} =>
                     call'[d].entity.active = job'[call'[d].job].active
                /\ call'[d].pc = "write" =>
                     ("active" \notin call'[d].diff => call'[d].entity.active = job'[call'[d].job].active)
      <4>1. call'[d] = call[d] /\ job'[call[d].job] = job[call[d].job] /\ call[d].job \notin raced
        BY <2>3, <2>6, <3>2, <3>3
      <4> QED
        BY <3>3, <4>1 DEF JobsKept, StatusKept
    <3> QED
      BY <3>1, <3>3 DEF StatusKept
  <2>8. ProperKept'
    BY <2>3, <2>4, <2>5, <2>6 DEF JobsKept, ProperKept, Saving, Proper
  <2> QED
    BY <2>7, <2>8 DEF JobsKept
<1> QED
  BY <1>1, <1>2

(* What is found is consistent as long as the row is, or has been checked. *)
LEMMA KeptByFind == ASSUME Base, JobsKept, NEW c \in Calls, Find(c) PROVE JobsKept'
<1> DEFINE k == call[c]
           row == job[k.job]
           entity == Changed(k, row)
<1>0. TypeOK /\ k \in CallType /\ k.op \in Edits /\ k.job \in Jobs /\ row \in RowType
  BY DEF Base, TypeOK, Find, Stage
<1>1. UNCHANGED <<job, word, raced, clash>>
  BY DEF Find, history
<1>2. CASE Answer(c, "refused")
  BY <1>1, <1>2, KeptByAnswer
<1>3. CASE /\ Finds(k, row) /\ (k.op = "Update" => Proper(entity))
           /\ call' = [call EXCEPT ![c].pc = "compare", ![c].entity = entity]
  <2>1. /\ entity \in RowType
        /\ k.op \in {"Update", "SaveDraft"} => entity.active = row.active
        /\ k.op \notin {"Update", "SaveDraft"} => entity.type = row.type /\ entity.ms = row.ms
    BY <1>0, Edited
  <2>2. row # NoJob /\ (k.op = "SaveDraft" => row.draft = TRUE)
    BY <1>3 DEF Finds
  <2>3. row.draft = FALSE /\ k.job \notin clash => Proper(entity)
    <3>1. CASE k.op = "Update"
      BY <1>3, <3>1
    <3>2. CASE k.op = "SaveDraft"
      BY <2>2, <3>2
    <3>3. CASE k.op \notin {"Update", "SaveDraft"}
      BY <1>0, <2>1, <2>2, <3>3 DEF JobsKept, ProperKept, Proper
    <3> QED
      BY <3>1, <3>2, <3>3
  <2> HIDE DEF entity
  <2>4. /\ call'[c].pc = "compare" /\ call'[c].job = k.job /\ call'[c].op = k.op
        /\ call'[c].entity = entity
        /\ \A d \in Calls : d # c => call'[d] = call[d]
    BY <1>0, <1>3 DEF TypeOK, CallType
  <2>5. StatusKept'
    BY <1>1, <2>1, <2>4 DEF JobsKept, StatusKept, Saving
  <2>6. ProperKept'
    BY <1>1, <2>3, <2>4 DEF JobsKept, ProperKept, Saving, Proper
  <2> QED
    BY <2>5, <2>6 DEF JobsKept
<1> QED
  BY <1>2, <1>3 DEF Find

(* What a save is not going to write is what the row already holds.        *)
LEMMA KeptByCompare == ASSUME Base, JobsKept, NEW c \in Calls, Compare(c) PROVE JobsKept'
<1> DEFINE k == call[c]
           diff == ToWrite(k, job[k.job])
<1>0. TypeOK /\ k \in CallType /\ k.job \in Jobs /\ job[k.job] \in RowType /\ k.entity \in RowType
  BY DEF Base, TypeOK, Compare, Stage, CallType
<1>1. UNCHANGED <<job, word, raced, clash>> /\ k.pc = "compare"
  BY DEF Compare, history
<1>2. /\ call'[c].pc = "write" /\ call'[c].job = k.job /\ call'[c].op = k.op
      /\ call'[c].entity = k.entity /\ call'[c].diff = diff
      /\ \A d \in Calls : d # c => call'[d] = call[d]
  <2> HIDE DEF diff
  <2>1. call' = [call EXCEPT ![c].pc = "write", ![c].diff = diff]
    BY DEF Compare, diff
  <2> QED
    BY <1>0, <2>1 DEF TypeOK, CallType
<1>3. /\ "active" \notin diff => k.entity.active = job[k.job].active
      /\ "type" \notin diff => k.entity.type = job[k.job].type
      /\ "ms" \notin diff => k.entity.ms = job[k.job].ms
  BY <1>0 DEF ToWrite, Columns, RowType
<1> HIDE DEF diff
<1>4. StatusKept'
  BY <1>1, <1>2, <1>3 DEF JobsKept, StatusKept, Saving
<1>5. ProperKept'
  BY <1>1, <1>2, <1>3 DEF JobsKept, ProperKept, Saving, Proper
<1> QED
  BY <1>4, <1>5 DEF JobsKept

(* A save leaves the row as the object is, and whoever else held the row   *)
(* makes it one that was raced for.                                        *)
LEMMA KeptByWrite == ASSUME Base, JobsKept, NEW c \in Calls, Write(c) PROVE JobsKept'
<1> DEFINE k == call[c]
           row == job[k.job]
           new == Written(k, row)
           IsEdit == k.op \in {"Update", "SaveDraft"}
<1>0. /\ TypeOK /\ Held /\ k \in CallType /\ k.job \in Jobs /\ row \in RowType
      /\ k.pc = "write" /\ k.entity \in RowType /\ row # NoJob
  BY DEF Base, TypeOK, Write, Stage, CallType, Held, HeldBy
<1>1. /\ job' = [job EXCEPT ![k.job] = new]
      /\ new.draft = row.draft
      /\ new.type = IF "type" \in k.diff THEN k.entity.type ELSE row.type
      /\ new.ms = IF "ms" \in k.diff THEN k.entity.ms ELSE row.ms
      /\ new.active = IF "active" \in k.diff THEN k.entity.active ELSE row.active
  BY <1>0, Writing
<1> HIDE DEF new
<1>2. /\ \A j \in Jobs : job'[j] = IF j = k.job THEN new ELSE job[j]
      /\ \A j \in Jobs : word'[j] = IF j = k.job /\ ~IsEdit THEN k.entity.active ELSE word[j]
  BY <1>0, <1>1 DEF Write, TypeOK
<1>3. /\ raced \subseteq raced' /\ clash \subseteq clash'
      /\ \A j \in Jobs : j # k.job => (j \in raced' <=> j \in raced) /\ (j \in clash' <=> j \in clash)
      /\ k.job \notin raced' => \A d \in Calls : d # c => call[d].job # k.job \/ ~Saving(call[d])
      /\ k.job \notin clash' => \A d \in Calls : d # c => call[d].job # k.job \/ call[d].pc # "write"
  BY <1>0 DEF Write, Holding, Saving
<1>4. \A d \in Calls : Saving(call'[d]) => call'[d] = call[d] /\ d # c /\ call[d].job \in Jobs
  BY <1>0, AnswerHoldsNothing DEF Write, Saving, TypeOK, Stage
<1>5. StatusKept'
  <2>1. k.job \notin raced => new.active = IF IsEdit THEN row.active ELSE k.entity.active
    BY <1>0, <1>1 DEF JobsKept, StatusKept, Saving
  <2>2. \A j \in Jobs \ raced' : job'[j] # NoJob => job'[j].active = word'[j]
    BY <1>0, <1>2, <1>3, <2>1 DEF JobsKept, StatusKept
  <2>3. ASSUME NEW d \in Calls, Saving(call'[d]), call'[d].job \notin raced'
        PROVE call[d].job \notin raced /\ job'[call[d].job] = job[call[d].job]
    BY <1>2, <1>3, <1>4, <2>3
  <2> QED
    BY <1>4, <2>2, <2>3 DEF JobsKept, StatusKept, Saving
<1>6. ProperKept'
  <2>1. k.job \notin clash => new.type = k.entity.type /\ new.ms = k.entity.ms
                               /\ (new.draft = FALSE => Proper(new))
    BY <1>0, <1>1 DEF JobsKept, ProperKept, Saving, Proper
  <2>2. \A j \in Jobs \ clash' : job'[j] # NoJob /\ job'[j].draft = FALSE => Proper(job'[j])
    BY <1>0, <1>2, <1>3, <2>1 DEF JobsKept, ProperKept
  <2>3. ASSUME NEW d \in Calls, Saving(call'[d]), call'[d].job \notin clash'
        PROVE /\ call[d].job \notin clash /\ job'[call[d].job].draft = job[call[d].job].draft
              /\ call[d].pc = "write" => job'[call[d].job] = job[call[d].job]
    BY <1>1, <1>2, <1>3, <1>4, <2>3
  <2>4. ASSUME NEW d \in Calls, Saving(call'[d]), call'[d].job \notin clash'
        PROVE /\ job'[call[d].job].draft = FALSE => Proper(call[d].entity)
              /\ call[d].pc = "write" =>
                   /\ "type" \notin call[d].diff => call[d].entity.type = job'[call[d].job].type
                   /\ "ms" \notin call[d].diff => call[d].entity.ms = job'[call[d].job].ms
    BY <1>4, <2>3, <2>4 DEF JobsKept, ProperKept, Saving
  <2>5. \A j \in Jobs \ clash' : job'[j] # NoJob /\ job'[j].draft = FALSE => Proper(job[j])'
    BY <2>2 DEF Proper
  <2> QED
    BY <1>4, <2>4, <2>5 DEF ProperKept, Proper
<1> QED
  BY <1>5, <1>6 DEF JobsKept

(* Every step keeps what the lists rest on.                                *)
LEMMA JobsStep == Base /\ JobsKept /\ [Next]_vars => JobsKept'
<1> SUFFICES ASSUME Base, JobsKept, [Next]_vars PROVE JobsKept'
  OBVIOUS
<1>1. CASE UNCHANGED vars
  BY <1>1 DEF vars, history, JobsKept, StatusKept, ProperKept, Saving, Proper
<1>2. ASSUME NEW c \in Calls, NEW o \in Ops, NEW u \in Users \cup {Nobody}, NEW j \in Jobs,
             NEW dto \in DtoOf(o), Request(c, o, u, j, dto)
      PROVE JobsKept'
  <2>1. o \in AnyOp
    BY OpsAssumption DEF AnyOp
  <2>2. Start(o) \notin {"compare", "write"}
    BY <2>1 DEF Start, AnyOp, Edits
  <2>3. /\ \A d \in Calls : d # c => call'[d] = call[d]
        /\ call'[c].pc = Start(o)
        /\ UNCHANGED <<job, word, raced, clash>>
    BY <1>2 DEF Request, history, NoCall, Base, TypeOK
  <2>4. \A d \in Calls : Saving(call'[d]) => call'[d] = call[d]
    BY <2>2, <2>3 DEF Saving
  <2>5. StatusKept'
    BY <2>3, <2>4 DEF JobsKept, StatusKept, Saving
  <2>6. ProperKept'
    BY <2>3, <2>4 DEF JobsKept, ProperKept, Saving, Proper
  <2> QED
    BY <2>5, <2>6 DEF JobsKept
<1>3. ASSUME NEW c \in Calls,
             FindJob(c) \/ FindExisting(c) \/ AddBookmark(c) \/ FindBookmark(c) \/ RemoveBookmark(c)
      PROVE JobsKept'
  <2>a. TypeOK /\ call[c] \in CallType
    BY DEF Base, TypeOK
  <2>b. ASSUME NEW a, Answer(c, a)
        PROVE (\A d \in Calls : d # c => call'[d] = call[d]) /\ ~Saving(call'[c])
    BY <2>a, <2>b, AnswerHoldsNothing DEF Saving
  <2>c. ASSUME ~\E a \in {"ok", "refused"} : Answer(c, a)
        PROVE (\A d \in Calls : d # c => call'[d] = call[d]) /\ ~Saving(call'[c])
    <3>1. \/ \E p \in {"find existing", "add"} : call' = [call EXCEPT ![c].pc = p]
          \/ call' = [call EXCEPT ![c].pc = "ended", ![c].answer = "ok", ![c].id = fresh]
          \/ call' = [call EXCEPT ![c].pc = "remove", ![c].id = Mark(c)]
      BY <1>3, <2>c DEF FindJob, FindExisting, AddBookmark, FindBookmark, RemoveBookmark
    <3>2. ASSUME NEW new, call' = [call EXCEPT ![c] = new], new.pc \notin {"compare", "write"}
          PROVE (\A d \in Calls : d # c => call'[d] = call[d]) /\ ~Saving(call'[c])
      BY <2>a, <3>2 DEF TypeOK, Saving
    <3>3. /\ \A p \in {"find existing", "add"} : [call[c] EXCEPT !.pc = p].pc = p
          /\ [call[c] EXCEPT !.pc = "ended", !.answer = "ok", !.id = fresh].pc = "ended"
          /\ [call[c] EXCEPT !.pc = "remove", !.id = Mark(c)].pc = "remove"
      BY <2>a DEF CallType
    <3>4. \/ \E p \in {"find existing", "add"} : call' = [call EXCEPT ![c] = [call[c] EXCEPT !.pc = p]]
          \/ call' = [call EXCEPT ![c] = [call[c] EXCEPT !.pc = "ended", !.answer = "ok", !.id = fresh]]
          \/ call' = [call EXCEPT ![c] = [call[c] EXCEPT !.pc = "remove", !.id = Mark(c)]]
      BY <2>a, <3>1 DEF TypeOK
    <3> QED
      BY <3>2, <3>3, <3>4
  <2>1. (\A d \in Calls : d # c => call'[d] = call[d]) /\ ~Saving(call'[c])
    BY <2>b, <2>c
  <2>2. UNCHANGED <<job, word, raced, clash>>
    BY <1>3 DEF FindJob, FindExisting, AddBookmark, FindBookmark, RemoveBookmark, history
  <2>3. StatusKept'
    BY <2>1, <2>2 DEF JobsKept, StatusKept, Saving
  <2>4. ProperKept'
    BY <2>1, <2>2 DEF JobsKept, ProperKept, Saving, Proper
  <2> QED
    BY <2>3, <2>4 DEF JobsKept
<1> QED
  BY <1>1, <1>2, <1>3, KeptByInsert, KeptByFind, KeptByCompare, KeptByWrite DEF Next, Handle

(* A job is listed as active exactly when the last handler that is about   *)
(* its status said so, unless it was written while another held it.        *)
THEOREM ListedAsAnnouncedAlways == Spec => []ListedAsAnnounced
<1>1. Base /\ JobsKept => ListedAsAnnounced
  <2> SUFFICES ASSUME Base, JobsKept, NEW j \in Jobs \ raced, job[j] # NoJob
               PROVE (j \in Listed(TRUE)) = word[j]
    BY DEF ListedAsAnnounced
  <2>1. job[j].active = word[j] /\ word[j] \in BOOLEAN
    BY DEF JobsKept, StatusKept, Base, TypeOK
  <2> QED
    BY <2>1 DEF Listed
<1> QED
  BY <1>1, Initially, KeptInitially, BaseStep, JobsStep, PTL DEF Spec

(* A posted job that is paid by milestones has some, unless two saves of   *)
(* it interleaved.                                                         *)
THEOREM MilestonesKept == Spec => []MilestoneJobsHaveMilestones
<1>1. Base /\ JobsKept => MilestoneJobsHaveMilestones
  <2> SUFFICES ASSUME Base, JobsKept, NEW u \in Users, NEW j \in (Mine(u) \ Drafts(u)) \ clash
               PROVE Proper(job[j])
    BY DEF MilestoneJobsHaveMilestones
  <2>1. j \in Jobs /\ job[j].owner = u /\ ~job[j].draft
    BY DEF Mine, Drafts
  <2>2. job[j] # NoJob /\ job[j].draft = FALSE
    BY <2>1, NobodyAssumption DEF NoJob, Base, TypeOK, RowType
  <2> QED
    BY <2>1, <2>2 DEF JobsKept, ProperKept
<1> QED
  BY <1>1, Initially, KeptInitially, BaseStep, JobsStep, PTL DEF Spec

-----------------------------------------------------------------------------
(* Bookmarks *)

Told(k) == k.op = "Bookmark" /\ k.answer = "ok"
Removed(k) == \E d \in Calls : call[d].op = "Unbookmark" /\ call[d].answer = "ok" /\ call[d].id = k.id

(* The bookmark a call made is there, or a call removed this very row.     *)
MarksKept ==
  \A c \in Calls : Told(call[c]) =>
    /\ job[call[c].job] # NoJob
    /\ saved[call[c].user][call[c].job] = call[c].id \/ Removed(call[c])

(* A step in which nothing was told and no bookmark changed.               *)
LEMMA MarksAside ==
  ASSUME Base, MarksKept, NEW c \in Calls, call[c].pc # "ended",
         \A d \in Calls : d # c => call'[d] = call[d], ~Told(call'[c]), UNCHANGED saved,
         \A j \in Jobs : job[j] # NoJob => job'[j] # NoJob
  PROVE MarksKept'
<1>1. ASSUME NEW d \in Calls, Told(call'[d])
      PROVE d # c /\ call'[d] = call[d] /\ call[d].job \in Jobs
  BY <1>1 DEF Base, TypeOK, Stage, Told
<1>2. ASSUME NEW d \in Calls, call[d].answer = "ok" PROVE call'[d] = call[d]
  BY <1>2 DEF Base, TypeOK, Stage
<1>3. \A d \in Calls : Removed(call[d]) => Removed(call[d])' \/ d = c
  BY <1>2 DEF Removed
<1> QED
  BY <1>1, <1>2 DEF MarksKept, Told, Removed

(* A bookmark is only added where there is none, under an id of its own.   *)
LEMMA MarksByAdd ==
  ASSUME Base, MarksKept, NEW c \in Calls, AddBookmark(c) PROVE MarksKept'
<1> DEFINE k == call[c]
           new == [k EXCEPT !.pc = "ended", !.answer = "ok", !.id = fresh]
<1>0. /\ TypeOK /\ k \in CallType /\ k.pc = "add" /\ k.op = "Bookmark"
      /\ k.user \in Users /\ k.job \in Jobs /\ job[k.job] # NoJob /\ k.answer = "none"
  BY DEF Base, TypeOK, AddBookmark, Stage, Held, HeldBy
<1>1. CASE Mark(c) # 0
  <2>1. Answer(c, "refused") /\ UNCHANGED <<job, saved>>
    BY <1>1 DEF AddBookmark
  <2>2. \A d \in Calls : d # c => call'[d] = call[d]
    BY <1>0, <2>1, AnswerHoldsNothing
  <2>3. ~Told(call'[c])
    BY <1>0, <2>1 DEF Answer, NoCall, Told, TypeOK
  <2> QED
    BY <1>0, <2>1, <2>2, <2>3, MarksAside
<1>2. CASE Mark(c) = 0
  <2>1. /\ saved' = [saved EXCEPT ![k.user][k.job] = fresh]
        /\ call' = [call EXCEPT ![c] = new]
        /\ UNCHANGED job
    BY <1>0, <1>2 DEF AddBookmark, TypeOK
  <2>2. new.op = "Bookmark" /\ new.job = k.job /\ new.user = k.user /\ new.id = fresh
    BY <1>0 DEF CallType
  <2> HIDE DEF new
  <2>3. call'[c] = new /\ \A d \in Calls : d # c => call'[d] = call[d]
    BY <1>0, <2>1 DEF TypeOK
  <2>4. \A u \in Users, j \in Jobs :
          saved'[u][j] = IF u = k.user /\ j = k.job THEN fresh ELSE saved[u][j]
    BY <1>0, <2>1 DEF TypeOK
  <2>5. \A d \in Calls : call[d].answer = "ok" => call'[d] = call[d] /\ d # c
    BY <1>0, <2>3
  <2>6. \A d \in Calls : d # c /\ Removed(call[d]) => Removed(call[d])'
    BY <2>3, <2>5 DEF Removed
  <2>7. ASSUME NEW d \in Calls, Told(call'[d])
        PROVE /\ job'[call'[d].job] # NoJob
              /\ saved'[call'[d].user][call'[d].job] = call'[d].id \/ Removed(call[d])'
    <3>1. CASE d = c
      BY <1>0, <2>1, <2>2, <2>3, <2>4, <3>1
    <3>2. CASE d # c
      <4>1. /\ call'[d] = call[d] /\ Told(call[d]) /\ call[d].id # 0
            /\ call[d].user \in Users /\ call[d].job \in Jobs
        BY <1>0, <2>3, <2>7, <3>2 DEF TypeOK, Stage, Told
      <4>2. CASE Removed(call[d])
        BY <2>1, <2>6, <3>2, <4>1, <4>2 DEF MarksKept
      <4>3. CASE saved[call[d].user][call[d].job] = call[d].id
        <5>1. ~(call[d].user = k.user /\ call[d].job = k.job)
          BY <1>2, <4>1, <4>3 DEF Mark
        <5> QED
          BY <2>1, <2>4, <4>1, <4>3, <5>1 DEF MarksKept
      <4> QED
        BY <4>1, <4>2, <4>3 DEF MarksKept
    <3> QED
      BY <3>1, <3>2
  <2> QED
    BY <2>7 DEF MarksKept, Removed
<1> QED
  BY <1>1, <1>2

(* A removal takes no row but the one it found.                            *)
LEMMA MarksByRemove ==
  ASSUME Base, MarksKept, NEW c \in Calls, RemoveBookmark(c) PROVE MarksKept'
<1> DEFINE k == call[c]
           new == Answered(k, "ok")
<1>0. /\ TypeOK /\ k \in CallType /\ k.pc = "remove" /\ k.op = "Unbookmark"
      /\ k.user \in Users /\ k.job \in Jobs /\ k.id # 0 /\ k.answer = "none"
  BY DEF Base, TypeOK, RemoveBookmark, Stage
<1>1. call' = [call EXCEPT ![c] = new] /\ UNCHANGED job
  BY DEF RemoveBookmark, Answer, Answered
<1>2. new.op = "Unbookmark" /\ new.answer = "ok" /\ new.id = k.id
  BY <1>0 DEF Answered, NoCall
<1> HIDE DEF new
<1>3. call'[c] = new /\ \A d \in Calls : d # c => call'[d] = call[d]
  BY <1>0, <1>1 DEF TypeOK
<1>4. \A u \in Users, j \in Jobs :
        saved'[u][j] = saved[u][j] \/ (u = k.user /\ j = k.job /\ saved[u][j] = k.id)
  BY <1>0 DEF RemoveBookmark, Doomed, Mark, TypeOK
<1>5. ASSUME NEW d \in Calls, Told(call'[d])
      PROVE /\ job'[call'[d].job] # NoJob
            /\ saved'[call'[d].user][call'[d].job] = call'[d].id \/ Removed(call[d])'
  <2>1. /\ d # c /\ call'[d] = call[d] /\ Told(call[d])
        /\ call[d].user \in Users /\ call[d].job \in Jobs
    BY <1>0, <1>2, <1>3, <1>5 DEF TypeOK, Stage, Told
  <2>2. Removed(call[d]) => Removed(call[d])'
    <3>1. \A e \in Calls : call[e].answer = "ok" => call'[e] = call[e]
      BY <1>0, <1>3
    <3> QED
      BY <2>1, <3>1 DEF Removed
  <2>3. saved[call[d].user][call[d].job] = call[d].id =>
          \/ saved'[call[d].user][call[d].job] = call[d].id
          \/ Removed(call[d])'
    BY <1>2, <1>3, <1>4, <2>1 DEF Removed
  <2> QED
    BY <1>1, <2>1, <2>2, <2>3 DEF MarksKept
<1> QED
  BY <1>5 DEF MarksKept, Removed

(* Every step keeps the bookmarks calls were told of.                      *)
LEMMA MarksStep == Base /\ MarksKept /\ [Next]_vars => MarksKept'
<1> SUFFICES ASSUME Base, MarksKept, [Next]_vars PROVE MarksKept'
  OBVIOUS
<1>0. TypeOK
  BY DEF Base
<1>1. CASE UNCHANGED vars
  BY <1>1 DEF vars, MarksKept, Removed, Told
<1>2. ASSUME NEW c \in Calls, NEW o \in Ops, NEW u \in Users \cup {Nobody}, NEW j \in Jobs,
             NEW dto \in DtoOf(o), Request(c, o, u, j, dto)
      PROVE MarksKept'
  <2>1. /\ \A d \in Calls : d # c => call'[d] = call[d]
        /\ call[c].pc = "idle" /\ call'[c].answer = "none" /\ UNCHANGED <<job, saved>>
    BY <1>0, <1>2 DEF Request, history, NoCall, TypeOK
  <2> QED
    BY <2>1, MarksAside DEF Told
<1>3. ASSUME NEW c \in Calls, NEW a \in {"ok", "refused"}, Answer(c, a), call[c].pc # "ended",
             call[c].op = "Bookmark" => a = "refused", UNCHANGED saved,
             \A j \in Jobs : job[j] # NoJob => job'[j] # NoJob
      PROVE MarksKept'
  <2>1. \A d \in Calls : d # c => call'[d] = call[d]
    BY <1>0, <1>3, AnswerHoldsNothing
  <2>2. ~Told(call'[c])
    BY <1>0, <1>3 DEF Answer, NoCall, Told, TypeOK
  <2> QED
    BY <1>3, <2>1, <2>2, MarksAside
<1>4. ASSUME NEW c \in Calls, NEW p, call' = [call EXCEPT ![c] = p], p.answer = "none",
             call[c].pc # "ended", UNCHANGED <<job, saved>>
      PROVE MarksKept'
  <2>1. call'[c] = p /\ \A d \in Calls : d # c => call'[d] = call[d]
    BY <1>0, <1>4 DEF TypeOK
  <2> QED
    BY <1>4, <2>1, MarksAside DEF Told
<1>5. ASSUME NEW c \in Calls, Insert(c) \/ Write(c) PROVE MarksKept'
  <2>1. /\ call[c].pc # "ended" /\ call[c].op # "Bookmark" /\ UNCHANGED saved
        /\ \E a \in {"ok", "refused"} : Answer(c, a)
    BY <1>0, <1>5 DEF Insert, Write, TypeOK, Stage, Edits
  <2>2. \A j \in Jobs : job[j] # NoJob => job'[j] # NoJob
    <3>1. CASE Write(c)
      <4>1. /\ call[c].job \in Jobs
            /\ job' = [job EXCEPT ![call[c].job] = Written(call[c], job[call[c].job])]
            /\ Written(call[c], job[call[c].job]).owner = job[call[c].job].owner
        BY <1>0, <3>1, Writing
      <4>2. \A j \in Jobs : job[j] # NoJob => job[j].owner \in Users /\ job[j].owner # NoJob.owner
        BY <1>0, NobodyAssumption DEF TypeOK, NoJob
      <4>3. \A j \in Jobs : job'[j] = job[j] \/ job'[j].owner = job[j].owner
        BY <1>0, <4>1 DEF TypeOK
      <4> QED
        BY <4>2, <4>3
    <3>2. CASE Insert(c)
      <4>1. \/ UNCHANGED job
            \/ /\ job[call[c].job] = NoJob
               /\ \E new : job' = [job EXCEPT ![call[c].job] = new]
        BY <3>2 DEF Insert
      <4> QED
        BY <1>0, <4>1 DEF TypeOK
    <3> QED
      BY <1>5, <3>1, <3>2
  <2> QED
    BY <1>3, <2>1, <2>2
<1>6. ASSUME NEW c \in Calls, Find(c) \/ Compare(c) \/ FindJob(c) \/ FindExisting(c) \/ FindBookmark(c)
      PROVE MarksKept'
  <2>1. call[c].pc \notin {"idle", "ended"} /\ call[c].answer = "none" /\ call[c] \in CallType
        /\ UNCHANGED <<job, saved>>
    BY <1>0, <1>6 DEF Find, Compare, FindJob, FindExisting, FindBookmark, TypeOK, Stage, history
  <2>2. CASE Answer(c, "refused")
    BY <1>3, <2>1, <2>2
  <2>3. CASE ~Answer(c, "refused")
    <3>1. \/ \E p : call' = [call EXCEPT ![c].pc = p]
          \/ \E p, e : call' = [call EXCEPT ![c].pc = p, ![c].entity = e]
          \/ \E p, f : call' = [call EXCEPT ![c].pc = p, ![c].diff = f]
          \/ \E p, i : call' = [call EXCEPT ![c].pc = p, ![c].id = i]
      BY <1>6, <2>3 DEF Find, Compare, FindJob, FindExisting, FindBookmark
    <3>2. CASE \E p : call' = [call EXCEPT ![c].pc = p]
      <4>1. PICK p : call' = [call EXCEPT ![c].pc = p]
        BY <3>2
      <4>2. call' = [call EXCEPT ![c] = [call[c] EXCEPT !.pc = p]]
        BY <1>0, <4>1 DEF TypeOK
      <4>3. [call[c] EXCEPT !.pc = p].answer = "none"
        BY <2>1 DEF CallType
      <4> QED
        BY <1>4, <2>1, <4>2, <4>3
    <3>3. CASE \E p, e : call' = [call EXCEPT ![c].pc = p, ![c].entity = e]
      <4>1. PICK p, e : call' = [call EXCEPT ![c].pc = p, ![c].entity = e]
        BY <3>3
      <4>2. call' = [call EXCEPT ![c] = [call[c] EXCEPT !.pc = p, !.entity = e]]
        BY <1>0, <4>1 DEF TypeOK
      <4>3. [call[c] EXCEPT !.pc = p, !.entity = e].answer = "none"
        BY <2>1 DEF CallType
      <4> QED
        BY <1>4, <2>1, <4>2, <4>3
    <3>4. CASE \E p, f : call' = [call EXCEPT ![c].pc = p, ![c].diff = f]
      <4>1. PICK p, f : call' = [call EXCEPT ![c].pc = p, ![c].diff = f]
        BY <3>4
      <4>2. call' = [call EXCEPT ![c] = [call[c] EXCEPT !.pc = p, !.diff = f]]
        BY <1>0, <4>1 DEF TypeOK
      <4>3. [call[c] EXCEPT !.pc = p, !.diff = f].answer = "none"
        BY <2>1 DEF CallType
      <4> QED
        BY <1>4, <2>1, <4>2, <4>3
    <3>5. CASE \E p, i : call' = [call EXCEPT ![c].pc = p, ![c].id = i]
      <4>1. PICK p, i : call' = [call EXCEPT ![c].pc = p, ![c].id = i]
        BY <3>5
      <4>2. call' = [call EXCEPT ![c] = [call[c] EXCEPT !.pc = p, !.id = i]]
        BY <1>0, <4>1 DEF TypeOK
      <4>3. [call[c] EXCEPT !.pc = p, !.id = i].answer = "none"
        BY <2>1 DEF CallType
      <4> QED
        BY <1>4, <2>1, <4>2, <4>3
    <3> QED
      BY <3>1, <3>2, <3>3, <3>4, <3>5
  <2> QED
    BY <2>2, <2>3
<1> QED
  BY <1>1, <1>2, <1>5, <1>6, MarksByAdd, MarksByRemove DEF Next, Handle

(* A bookmark a user was told of stays until a removal that has seen this  *)
(* very row.                                                               *)
THEOREM BookmarkStaysAlways == Spec => []BookmarkStays
<1>1. Init => MarksKept
  BY DEF Init, MarksKept, Told, NoCall
<1>2. Base /\ MarksKept => BookmarkStays
  <2> SUFFICES ASSUME Base, MarksKept, NEW c \in Calls, Told(call[c])
               PROVE \/ /\ saved[call[c].user][call[c].job] = call[c].id
                        /\ call[c].job \in Bookmarks(call[c].user)
                     \/ Removed(call[c])
    BY DEF BookmarkStays, Told, Removed
  <2>1. call[c].user \in Users /\ call[c].job \in Jobs /\ call[c].id # 0
    BY DEF Base, TypeOK, Stage, Told
  <2> QED
    BY <2>1 DEF MarksKept, Bookmarks
<1> QED
  BY <1>1, <1>2, Initially, BaseStep, MarksStep, PTL DEF Spec
=============================================================================
