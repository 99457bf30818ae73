--------------------------- MODULE ContractsProofs ---------------------------
(***************************************************************************)
(* Proofs about Contracts, for any proposals, jobs, hires and releases.    *)
(*                                                                         *)
(* Sound is the inductive invariant of the first two properties: what each *)
(* message in flight carries is true of the rows and accounts it will be   *)
(* written to (MessageOK), because these only grow (Grows); and a proposal *)
(* has one handler at most that is past the insert (HireOK).  Followed,    *)
(* Undisturbed and Agrees strengthen the other three.                      *)
(***************************************************************************)
EXTENDS Contracts, TLAPS

-----------------------------------------------------------------------------
(* The inductive invariant. *)

Fields == {"type", "of", "no", "pc", "target", "entity", "carries"}

Generating(v, p) == v.type = "hired" /\ v.of = p /\ v.pc \in {"generate", "save"}
Handling(v, p) == v.type = "completed" /\ v.pc # "start" /\ v.target = p

HasAccount(p) == onchain[JobOf[p]].state # "None"
IsCompleted(p) ==
  onchain[JobOf[p]].state = "Completed" /\ onchain[JobOf[p]].authority = "service"
IsServices(p) == onchain[JobOf[p]].authority = "service"
IsCertOf(c, p) == c \in 1 .. Len(certs) /\ certs[c] = p

HiredOK(v) ==
  /\ v.of \in Proposals
  /\ v.pc \in {"start", "insert", "generate", "save"}
  /\ v.pc \in {"generate", "save"} => v.target = v.of
  /\ v.pc = "save" =>
       \/ v.carries = {"status"} /\ v.entity.status = "failed"
       \/ v.carries = {"status", "pdf"} /\ v.entity.status = "generated" /\ pdfs[v.of] = 1

CompletionOK(v) ==
  /\ v.of \in Jobs
  /\ v.pc \in {"start", "load", "certify", "save"}
  /\ v.pc # "start" =>
       v.target \in Proposals /\ JobOf[v.target] = v.of /\ contract[v.target] # NoRow
  /\ v.pc \in {"certify", "save"} =>
       /\ v.carries = Columns
       /\ v.entity.created => HasAccount(v.target)
       /\ v.entity.completed => IsCompleted(v.target)
  /\ v.pc = "save" => v.entity.status = "completed" /\ IsCertOf(v.entity.cert, v.target)

RequestOK(v) ==
  /\ v.of \in Proposals
  /\ v.pc \in {"start", "land"}
  /\ v.type = "create" => pdfs[v.of] = 1
  /\ v.type = "complete" => IsCertOf(v.no, v.of) /\ (v.pc = "land" => IsServices(v.of))

ResultOK(v) ==
  /\ v.of \in Proposals
  /\ v.pc = "start"
  /\ v.type = "create result" => HasAccount(v.of)
  /\ v.type = "complete result" => IsCompleted(v.of)

MessageOK(v) ==
  /\ DOMAIN v = Fields /\ DOMAIN v.entity = Columns
  /\ \/ v.type = "hired" /\ HiredOK(v)
     \/ v.type = "completed" /\ CompletionOK(v)
     \/ v.type \in EscrowService /\ RequestOK(v)
     \/ v.type \in {"create result", "complete result"} /\ ResultOK(v)

AccountOK(j) ==
  /\ DOMAIN onchain[j] = DOMAIN NoAccount
  /\ onchain[j].state \in {"None", "Active", "Completed"} /\ onchain[j].cert \in Nat
  /\ onchain[j].authority \in {"none", "service", "stranger"}
  /\ onchain[j].state = "None" => onchain[j] = NoAccount
  /\ onchain[j].authority = "none" => onchain[j] = NoAccount
  /\ onchain[j].authority = "stranger" => onchain[j].cert = 0
  /\ onchain[j].authority = "service" =>
       /\ onchain[j].of \in Proposals /\ JobOf[onchain[j].of] = j /\ pdfs[onchain[j].of] = 1
       /\ onchain[j].cert > 0 => onchain[j].cert <= Len(certs) /\ JobOf[certs[onchain[j].cert]] = j

RowOK(p) ==
  /\ DOMAIN contract[p] = Columns
  /\ contract[p].created => HasAccount(p)
  /\ contract[p].completed => IsCompleted(p)

HireOK(p) ==
  /\ pdfs[p] \in {0, 1}
  /\ pdfs[p] = 1 => contract[p] # NoRow
  /\ \A v \in work : Generating(v, p) =>
       contract[p] # NoRow /\ (v.pc = "generate" => pdfs[p] = 0)
  /\ \A v, w \in work : Generating(v, p) /\ Generating(w, p) => v = w

Tables == 
  /\ DOMAIN contract = Proposals /\ DOMAIN stored = Proposals /\ DOMAIN pdfs = Proposals
  /\ DOMAIN onchain = Jobs
  /\ certs \in Seq(Proposals) /\ crashes \in Nat

Sound ==
  /\ Tables
  /\ \A v \in work : MessageOK(v)
  /\ \A j \in Jobs : AccountOK(j)
  /\ \A p \in Proposals : RowOK(p) 
  /\ \A p \in Proposals : HireOK(p)

Followed(p) ==
  /\ Hires[p] > 0 => contract[p] # NoRow \/ \E v \in work : v.type = "hired" /\ v.of = p
  /\ contract[p].status = "generating" => crashes > 0 \/ \E v \in work : Generating(v, p)

Undisturbed(p) ==
  JobOf[p] \notin early =>
    \A v \in work : Generating(v, p) =>
      contract[p].status = "generating" /\ \A w \in work : ~Handling(w, p)

Certified(p, c) ==
  \/ \E v \in work : v.type = "complete" /\ v.of = p /\ v.no = c
  \/ LET d == onchain[JobOf[p]].cert IN d > 0 /\ certs[d] = p /\ c = d

Agrees(p) ==
  JobOf[p] \notin early \cup twice =>
    /\ \A v, w \in work : Handling(v, p) /\ Handling(w, p) => v = w
    /\ \A v \in work : Handling(v, p) =>
         contract[p].status # "completed" /\ (v.pc = "save" => v.entity.cert = stored[p])
    /\ contract[p].status # "completed" => contract[p].cert = 0 /\ \A c : ~Certified(p, c)
    /\ contract[p].status = "completed" =>
         contract[p].cert = stored[p] /\ \A c : Certified(p, c) => c = contract[p].cert

Inv ==
  /\ Sound
  /\ \A p \in Proposals : Followed(p)
  /\ \A p \in Proposals : Undisturbed(p)
  /\ \A p \in Proposals : Agrees(p)

-----------------------------------------------------------------------------
(* What only grows. *)

Grows ==
  /\ \A j \in Jobs :
       /\ onchain[j].state # "None" => onchain'[j].state # "None"
       /\ onchain[j].state = "Completed" => onchain'[j].state = "Completed"
       /\ onchain[j].authority = "service" => onchain'[j].authority = "service"
  /\ \A p \in Proposals :
       /\ pdfs[p] = 1 => pdfs'[p] = 1
       /\ contract[p] # NoRow => contract'[p] # NoRow
  /\ Len(certs) \in Nat /\ Len(certs') \in Nat
  /\ Len(certs) <= Len(certs')
  /\ \A c \in 1 .. Len(certs) : certs'[c] = certs[c]

(* The columns of a row, one by one. *)
LEMMA ColumnsAre ==
  /\ Columns = {"status", "pdf", "created", "cert", "completed"}
  /\ DOMAIN NoRow = Columns /\ NoRow.status = "None" /\ NoRow.cert = 0
  /\ NoRow.created = FALSE /\ NoRow.completed = FALSE
BY DEF Columns, NoRow

(* What a message relies on stays true of what only grows. *)
LEMMA MessageKept ==
  ASSUME NEW v, MessageOK(v), Grows
  PROVE  MessageOK(v)'
<1>1. \A p \in Proposals : JobOf[p] \in Jobs
  BY ContractsAssumption
<1>2. \A c, p : IsCertOf(c, p) => IsCertOf(c, p)'
  BY DEF IsCertOf, Grows
<1>3. \A p \in Proposals :
        /\ HasAccount(p) => HasAccount(p)'
        /\ IsCompleted(p) => IsCompleted(p)'
        /\ IsServices(p) => IsServices(p)'
  BY <1>1 DEF HasAccount, IsCompleted, IsServices, Grows
<1>4. CASE v.type = "hired" /\ HiredOK(v)
  BY <1>4 DEF HiredOK, MessageOK, Grows
<1>5. CASE v.type = "completed" /\ CompletionOK(v)
  <2>1. CompletionOK(v)'
    BY <1>2, <1>3, <1>5 DEF CompletionOK, Grows
  <2> QED BY <1>5, <2>1 DEF MessageOK
<1>6. CASE v.type \in EscrowService /\ RequestOK(v)
  BY <1>2, <1>3, <1>6 DEF RequestOK, MessageOK, Grows
<1>7. CASE v.type \in {"create result", "complete result"} /\ ResultOK(v)
  BY <1>3, <1>7 DEF ResultOK, MessageOK
<1> QED BY <1>4, <1>5, <1>6, <1>7 DEF MessageOK

(* What save writes: the whole row if the entity was loaded, and otherwise *)
(* only what the generation has set.                                       *)
LEMMA SavedRow ==
  ASSUME NEW w, NEW row, MessageOK(w), w.pc = "save", DOMAIN row = Columns
  PROVE  /\ DOMAIN Saved(w, row) = Columns
         /\ Saved(w, row).status = w.entity.status
         /\ w.entity.status \in {"generated", "failed", "completed"}
         /\ w.type = "hired" =>
              /\ w.entity.status # "completed"
              /\ \A f \in {"created", "cert", "completed"} : Saved(w, row)[f] = row[f]
         /\ w.type # "hired" =>
              w.type = "completed" /\ \A f \in Columns : Saved(w, row)[f] = w.entity[f]
<1>1. w.type = "hired" \/ w.type = "completed"
  BY DEF MessageOK, RequestOK, ResultOK
<1>2. w.type = "hired" => HiredOK(w)
  BY DEF MessageOK, EscrowService
<1>3. w.type = "completed" => CompletionOK(w)
  BY DEF MessageOK, EscrowService
<1>4. DOMAIN Saved(w, row) = Columns
  BY DEF Saved
<1>5. \A f \in Columns : Saved(w, row)[f] = IF f \in w.carries THEN w.entity[f] ELSE row[f]
  BY DEF Saved
<1>6. CASE w.type = "hired"
  BY <1>2, <1>4, <1>5, <1>6, ColumnsAre DEF HiredOK
<1>7. CASE w.type = "completed"
  BY <1>3, <1>4, <1>5, <1>7, ColumnsAre DEF CompletionOK
<1> QED BY <1>1, <1>6, <1>7

(* The type of a message decides what holds of it. *)
LEMMA ByType ==
  ASSUME NEW v, MessageOK(v)
  PROVE  /\ v.type = "hired" => HiredOK(v)
         /\ v.type = "completed" => CompletionOK(v)
         /\ v.type \in EscrowService => RequestOK(v)
         /\ v.type \in {"create result", "complete result"} => ResultOK(v)
         /\ v.pc = "save" => v.type \in {"hired", "completed"} /\ v.target \in Proposals
         /\ v.pc = "land" => v.type \in EscrowService
BY DEF MessageOK, EscrowService, HiredOK, CompletionOK, RequestOK, ResultOK

(* A stranger's call changes one account that is not the service's.        *)
LEMMA StrangerOnly ==
  ASSUME Sound, NEW j \in Jobs, StrangerCreates(j) \/ StrangerCompletes(j)
  PROVE  /\ UNCHANGED <<contract, stored, certs, work, crashes, pdfs, early, twice>>
         /\ \A i \in Jobs : i # j => onchain'[i] = onchain[i]
         /\ onchain[j].authority # "service" /\ onchain[j].state # "Completed"
         /\ DOMAIN onchain' = Jobs /\ DOMAIN onchain'[j] = DOMAIN NoAccount
         /\ onchain'[j].authority = "stranger" /\ onchain'[j].cert = 0
         /\ onchain'[j].state \in {"Active", "Completed"}
<1>1. DOMAIN onchain = Jobs /\ AccountOK(j)
  BY DEF Sound, Tables
<1>2. CASE StrangerCreates(j)
  BY <1>1, <1>2 DEF StrangerCreates, NoAccount, tables, history
<1>3. CASE StrangerCompletes(j)
  BY <1>1, <1>3 DEF StrangerCompletes, AccountOK, NoAccount, tables, history
<1> QED BY <1>2, <1>3

LEMMA OnlyGrows ==
  ASSUME Sound, Next
  PROVE  Grows
<1> USE DEF Sound, Tables
<1>1. Len(certs) \in Nat
  OBVIOUS
<1>2. ASSUME UNCHANGED <<onchain, pdfs, contract, certs>> PROVE Grows
  BY <1>1, <1>2 DEF Grows
<1>3. ASSUME NEW p \in Proposals, NEW r, contract' = [contract EXCEPT ![p] = r], r # NoRow,
             UNCHANGED <<onchain, pdfs, certs>>
      PROVE  Grows
  BY <1>1, <1>3 DEF Grows
<1>4. ASSUME NEW w \in work, Insert(w) PROVE Grows
  <2>1. [NoRow EXCEPT !.status = "generating"] # NoRow
    BY DEF NoRow
  <2>2. w.of \in Proposals
    BY <1>4, ByType DEF Insert, HiredOK
  <2>3. CASE Free(w.of)
    BY <1>3, <1>4, <2>1, <2>2, <2>3 DEF Insert, history
  <2>4. CASE ~ Free(w.of)
    BY <1>2, <1>4, <2>4 DEF Insert, history
  <2> QED BY <2>3, <2>4
<1>5. ASSUME NEW w \in work, Generate(w) PROVE Grows
  <2>1. w.of \in Proposals /\ pdfs[w.of] = 0
    BY <1>5, ByType DEF Generate, HiredOK, HireOK, Generating
  <2> QED BY <1>1, <1>2, <1>5, <2>1 DEF Generate, tables, Grows
<1>6. ASSUME NEW w \in work, Certify(w) PROVE Grows
  <2>1. w.target \in Proposals
    BY <1>6, ByType DEF Certify, CompletionOK
  <2>2. CASE certs' = Append(certs, w.target)
    BY <1>1, <1>6, <2>1, <2>2 DEF Certify, Grows, history
  <2> QED BY <1>2, <1>6, <2>2 DEF Certify, history
<1>7. ASSUME NEW w \in work, Save(w) PROVE Grows
  <2>1. w.target \in Proposals
    BY <1>7, ByType DEF Save
  <2>2. Saved(w, contract[w.target]).status # "None"
    BY <1>7, <2>1, SavedRow DEF Save, RowOK
  <2>3. Saved(w, contract[w.target]) # NoRow
    BY <2>2, ColumnsAre
  <2>4. contract' = [contract EXCEPT ![w.target] = Saved(w, contract[w.target])]
    BY <1>7 DEF Save
  <2> QED BY <1>3, <1>7, <2>1, <2>3, <2>4 DEF Save, history
<1>8. ASSUME NEW w \in work, Land(w) PROVE Grows
  <2> DEFINE j == JobOf[w.of]
  <2>1. j \in Jobs /\ AccountOK(j)
    BY <1>8, ByType, ContractsAssumption DEF Land, RequestOK
  <2>2. /\ Executed(w, onchain[j]).state \in {"Active", "Completed"}
        /\ onchain[j].state = "Completed" => ~ Accepts(w, onchain[j])
        /\ onchain[j].authority = "service" => Executed(w, onchain[j]).authority = "service"
    BY <2>1 DEF Executed, Accepts, AccountOK, NoAccount
  <2>3. CASE onchain' = [onchain EXCEPT ![j] = IF Accepts(w, @) THEN Executed(w, @) ELSE @]
    BY <1>1, <1>8, <2>1, <2>2, <2>3 DEF Land, Grows, tables, history
  <2> QED BY <1>2, <1>8, <2>3 DEF Land, tables, history
<1>9. ASSUME NEW w \in work, ApplyResult(w) PROVE Grows
  <2>1. w.of \in Proposals
    BY <1>9, ByType DEF ApplyResult, ResultOK
  <2>2. Applied(w, contract[w.of]).created = TRUE \/ Applied(w, contract[w.of]).completed = TRUE
    BY <2>1, ColumnsAre DEF Applied, RowOK
  <2>3. Applied(w, contract[w.of]) # NoRow
    BY <2>2, ColumnsAre
  <2>4. contract' = [contract EXCEPT ![w.of] = Applied(w, contract[w.of])]
    BY <1>9 DEF ApplyResult
  <2> QED BY <1>3, <1>9, <2>1, <2>3, <2>4 DEF ApplyResult, history
<1>10. ASSUME NEW w \in work,
              FindHired(w) \/ FindCompleted(w) \/ LoadCompleted(w) \/ Preflight(w)
       PROVE  Grows
  BY <1>2, <1>10 DEF FindHired, FindCompleted, LoadCompleted, Preflight, tables, history
<1>11. ASSUME NEW types, Crash(types) PROVE Grows
  BY <1>2, <1>11 DEF Crash, tables, history
<1>12. ASSUME NEW j \in Jobs, StrangerCreates(j) \/ StrangerCompletes(j)
       PROVE  Grows
  <2>1. Len(certs) \in Nat /\ UNCHANGED <<contract, pdfs, certs>>
    BY <1>1, <1>12, StrangerOnly
  <2>2. \A i \in Jobs :
          /\ onchain[i].state # "None" => onchain'[i].state # "None"
          /\ onchain[i].state = "Completed" => onchain'[i].state = "Completed"
          /\ onchain[i].authority = "service" => onchain'[i].authority = "service"
    BY <1>12, StrangerOnly
  <2> QED BY <2>1, <2>2 DEF Grows
<1> QED
  BY <1>4, <1>5, <1>6, <1>7, <1>8, <1>9, <1>10, <1>11, <1>12 DEF Next, Handle

(* Whatever a step makes of a message in flight, and whatever it publishes, *)
(* carries nothing the rows and accounts do not have.                      *)
LEMMA MessagesStep ==
  ASSUME Sound, Next
  PROVE  \A v \in work' : MessageOK(v)'
<1> USE DEF Sound, Tables
<1>1. Grows
  BY OnlyGrows
<1>2. \A v \in work : MessageOK(v)'
  BY <1>1, MessageKept
<1> HIDE <1>1
<1>3. ASSUME NEW w \in work, NEW v, Become(w, v), MessageOK(v)' PROVE \A u \in work' : MessageOK(u)'
  BY <1>2, <1>3 DEF Become
<1>4. ASSUME NEW w \in work, Done(w) PROVE \A u \in work' : MessageOK(u)'
  BY <1>2, <1>4 DEF Done, Publish
<1>5. ASSUME NEW w \in work, FindHired(w) PROVE \A v \in work' : MessageOK(v)'
  <2> DEFINE v == [w EXCEPT !.pc = "insert"]
  <2>1. MessageOK(w)' /\ w.type = "hired"
    BY <1>2, <1>5 DEF FindHired
  <2>2. MessageOK(v)'
    BY <2>1 DEF MessageOK, HiredOK, EscrowService, Fields
  <2> QED BY <1>3, <1>4, <1>5, <2>2 DEF FindHired
<1>6. ASSUME NEW w \in work, Insert(w) PROVE \A v \in work' : MessageOK(v)'
  <2> DEFINE v == [w EXCEPT !.pc = "generate", !.target = w.of]
  <2>1. MessageOK(w)' /\ w.type = "hired"
    BY <1>2, <1>6 DEF Insert
  <2>2. MessageOK(v)'
    BY <2>1 DEF MessageOK, HiredOK, EscrowService, Fields
  <2> QED BY <1>3, <1>4, <1>6, <2>2 DEF Insert
<1>7. ASSUME NEW w \in work, Generate(w) PROVE \A v \in work' : MessageOK(v)'
  <2> DEFINE v == [w EXCEPT !.pc = "save", !.carries = {"status", "pdf"},
                     !.entity.status = "generated", !.entity.pdf = TRUE]
  <2> DEFINE u == [w EXCEPT !.pc = "save", !.carries = {"status"}, !.entity.status = "failed"]
  <2>1. MessageOK(w)' /\ MessageOK(w) /\ w.type = "hired" /\ w.pc = "generate"
    BY <1>2, <1>7 DEF Generate
  <2>2. w.of \in Proposals /\ w.target = w.of /\ pdfs[w.of] = 0
    BY <2>1, ByType DEF HiredOK, HireOK, Generating
  <2>3. ASSUME pdfs' = [pdfs EXCEPT ![w.of] = @ + 1] PROVE MessageOK(v)'
    <3>1. /\ DOMAIN v = Fields /\ DOMAIN v.entity = Columns /\ v.type = "hired" /\ v.of = w.of
          /\ v.pc = "save" /\ v.target = w.target /\ v.carries = {"status", "pdf"}
          /\ v.entity.status = "generated"
      BY <2>1, ColumnsAre DEF MessageOK, Fields
    <3>2. pdfs'[w.of] = 1
      BY <2>2, <2>3
    <3> HIDE DEF v
    <3> QED BY <2>2, <3>1, <3>2 DEF MessageOK, HiredOK, EscrowService
  <2>4. MessageOK(u)'
    BY <2>1, <2>2 DEF MessageOK, HiredOK, EscrowService, Fields, Columns, NoRow
  <2> QED BY <1>3, <1>4, <1>7, <2>3, <2>4 DEF Generate
<1>8. ASSUME NEW w \in work, FindCompleted(w) PROVE \A v \in work' : MessageOK(v)'
  <2>1. MessageOK(w)' /\ w.type = "completed" /\ tables' = tables
    BY <1>2, <1>8 DEF FindCompleted
  <2>2. ASSUME NEW p \in Proposals, JobOf[p] = w.of, contract[p] # NoRow,
               Become(w, [w EXCEPT !.pc = "load", !.target = p])
        PROVE  \A v \in work' : MessageOK(v)'
    <3> DEFINE v == [w EXCEPT !.pc = "load", !.target = p]
    <3>1. MessageOK(v)'
      BY <2>1, <2>2 DEF MessageOK, CompletionOK, EscrowService, Fields, tables
    <3> QED BY <1>3, <2>2, <3>1
  <2> QED BY <1>4, <1>8, <2>2 DEF FindCompleted
<1>9. ASSUME NEW w \in work, LoadCompleted(w) PROVE \A v \in work' : MessageOK(v)'
  <2>0. PICK v : v = [w EXCEPT !.pc = "certify", !.entity = contract[w.target], !.carries = Columns]
    OBVIOUS
  <2>1. MessageOK(w)' /\ w.type = "completed" /\ w.pc = "load"
    BY <1>2, <1>9 DEF LoadCompleted
  <2>2. w.target \in Proposals /\ RowOK(w.target)
    BY <2>1, <1>9, ByType DEF CompletionOK, LoadCompleted
  <2>3. UNCHANGED <<tables, onchain>>
    BY <1>9 DEF LoadCompleted
  <2>4. MessageOK(v)'
    BY <2>0, <2>1, <2>2, <2>3
       DEF MessageOK, CompletionOK, RowOK, HasAccount, IsCompleted, EscrowService, Fields, tables
  <2> QED BY <1>3, <1>9, <2>0, <2>4 DEF LoadCompleted
<1>10. ASSUME NEW w \in work, Certify(w) PROVE \A v \in work' : MessageOK(v)'
  <2>0. PICK n, v : n = Len(certs') /\ v = [w EXCEPT !.pc = "save",
                        !.entity.status = "completed", !.entity.cert = n]
    OBVIOUS
  <2>1. MessageOK(w)' /\ MessageOK(w) /\ w.type = "completed" /\ w.pc = "certify"
    BY <1>2, <1>10 DEF Certify
  <2>2. w.target \in Proposals
    BY <2>1, ByType DEF CompletionOK
  <2>3. ASSUME certs' = Append(certs, w.target) PROVE MessageOK(v)'
    <3>1. IsCertOf(n, w.target)'
      <4>1. n = Len(certs) + 1 /\ certs'[n] = w.target /\ Len(certs) \in Nat
        BY <2>0, <2>2, <2>3
      <4> QED BY <2>0, <4>1 DEF IsCertOf
    <3>2. /\ DOMAIN v = Fields /\ DOMAIN v.entity = Columns /\ v.type = "completed" /\ v.of = w.of
          /\ v.pc = "save" /\ v.target = w.target /\ v.carries = w.carries
          /\ v.entity.status = "completed" /\ v.entity.cert = n
          /\ v.entity.created = w.entity.created /\ v.entity.completed = w.entity.completed
      BY <2>0, <2>1, ColumnsAre DEF MessageOK, Fields
    <3> QED BY <2>1, <3>1, <3>2 DEF MessageOK, CompletionOK, EscrowService
  <2> QED BY <1>3, <1>4, <1>10, <2>0, <2>3 DEF Certify
<1>11. ASSUME NEW w \in work, Save(w) PROVE \A v \in work' : MessageOK(v)'
  <2>1. MessageOK(w) /\ w.pc = "save" /\ UNCHANGED <<certs, pdfs>>
    BY <1>11 DEF Save, history
  <2>2. \A m \in Requests(w) : MessageOK(m)'
    <3>1. CASE w.entity.status = "generated"
      <4>0. PICK m : m = Message("create", w.target, 0)
        OBVIOUS
      <4>1. Requests(w) = {m}
        BY <3>1, <4>0 DEF Requests
      <4>2. w.target \in Proposals /\ pdfs[w.target] = 1
        BY <2>1, <3>1, ByType DEF HiredOK, CompletionOK
      <4>3. MessageOK(m)'
        <5>1. /\ DOMAIN m = Fields /\ DOMAIN m.entity = Columns
              /\ m.type = "create" /\ m.of = w.target /\ m.pc = "start"
          BY <4>0 DEF Message, Fields, Columns
        <5> QED BY <2>1, <4>2, <5>1 DEF MessageOK, RequestOK, EscrowService
      <4> QED BY <4>1, <4>3
    <3>2. CASE w.entity.status = "completed"
      <4>0. PICK m : m = Message("complete", w.target, w.entity.cert)
        OBVIOUS
      <4>1. Requests(w) = {m}
        BY <3>2, <4>0 DEF Requests
      <4>2. w.target \in Proposals /\ IsCertOf(w.entity.cert, w.target)'
        BY <2>1, <3>2, ByType DEF HiredOK, CompletionOK, IsCertOf
      <4>3. MessageOK(m)'
        <5>1. /\ DOMAIN m = Fields /\ DOMAIN m.entity = Columns
              /\ m.type = "complete" /\ m.of = w.target /\ m.no = w.entity.cert /\ m.pc = "start"
          BY <4>0 DEF Message, Fields, Columns
        <5> QED BY <4>2, <5>1 DEF MessageOK, RequestOK, EscrowService
      <4> QED BY <4>1, <4>3
    <3>3. CASE w.entity.status \notin {"generated", "completed"}
      BY <3>3 DEF Requests
    <3> QED BY <3>1, <3>2, <3>3
  <2> QED BY <1>2, <1>4, <1>11, <2>2 DEF Save, Publish
<1>12. ASSUME NEW w \in work, Preflight(w) PROVE \A v \in work' : MessageOK(v)'
  <2> DEFINE v == [w EXCEPT !.pc = "land"]
  <2>1. /\ MessageOK(w)' /\ MessageOK(w) /\ w.type \in EscrowService
        /\ w.of \in Proposals /\ UNCHANGED onchain
    BY <1>2, <1>12, ByType DEF Preflight, Starts, RequestOK
  <2>2. ASSUME Accepts(w, onchain[JobOf[w.of]]) PROVE MessageOK(v)'
    <3>1. w.type = "complete" => IsServices(w.of)'
      BY <2>1, <2>2 DEF Accepts, IsServices
    <3> QED BY <2>1, <3>1 DEF MessageOK, RequestOK, EscrowService, Fields
  <2> QED BY <1>3, <1>4, <1>12, <2>2 DEF Preflight
<1>13. ASSUME NEW w \in work, Land(w) PROVE \A v \in work' : MessageOK(v)'
  <2> DEFINE j == JobOf[w.of]
  <2>1. MessageOK(w) /\ w.type \in EscrowService /\ RequestOK(w) /\ w.pc = "land"
    BY <1>13, ByType DEF Land
  <2>2. w.of \in Proposals /\ j \in Jobs /\ AccountOK(j)
    BY <2>1, ContractsAssumption DEF RequestOK
  <2>3. ASSUME onchain' = [onchain EXCEPT ![j] = IF Accepts(w, @) THEN Executed(w, @) ELSE @]
        PROVE  MessageOK(Result(w))'
    <3>1. CASE w.type = "create"
      <4>1. HasAccount(w.of)'
        BY <2>2, <2>3, <3>1 DEF HasAccount, Accepts, Executed, AccountOK
      <4>0. PICK m : m = Message("create result", w.of, w.no)
        OBVIOUS
      <4>2. Result(w) = m
        BY <3>1, <4>0 DEF Result
      <4>3. /\ DOMAIN m = Fields /\ DOMAIN m.entity = Columns
            /\ m.type = "create result" /\ m.of = w.of /\ m.pc = "start"
        BY <4>0 DEF Message, Fields, Columns
      <4> QED BY <2>2, <4>1, <4>2, <4>3 DEF MessageOK, ResultOK
    <3>2. CASE w.type = "complete"
      <4>1. IsCompleted(w.of)'
        BY <2>1, <2>2, <2>3, <3>2
           DEF IsCompleted, IsServices, RequestOK, Accepts, Executed, AccountOK, NoAccount
      <4>0. PICK m : m = Message("complete result", w.of, w.no)
        OBVIOUS
      <4>2. Result(w) = m
        BY <3>2, <4>0 DEF Result
      <4>3. /\ DOMAIN m = Fields /\ DOMAIN m.entity = Columns
            /\ m.type = "complete result" /\ m.of = w.of /\ m.pc = "start"
        BY <4>0 DEF Message, Fields, Columns
      <4> QED BY <2>2, <4>1, <4>2, <4>3 DEF MessageOK, ResultOK
    <3> QED BY <2>1, <3>1, <3>2 DEF EscrowService
  <2> QED BY <1>2, <1>4, <1>13, <2>3 DEF Land, Publish
<1>14. ASSUME NEW w \in work, ApplyResult(w) PROVE \A v \in work' : MessageOK(v)'
  BY <1>4, <1>14 DEF ApplyResult
<1>15. ASSUME NEW types, Crash(types) PROVE \A v \in work' : MessageOK(v)'
  <2>1. \A w \in work : MessageOK(Message(w.type, w.of, w.no))'
    <3> SUFFICES ASSUME NEW w \in work PROVE MessageOK(Message(w.type, w.of, w.no))'
      OBVIOUS
    <3>1. MessageOK(w)'
      BY <1>2
    <3>0. PICK m : m = Message(w.type, w.of, w.no)
      OBVIOUS
    <3>2. /\ DOMAIN m = Fields /\ DOMAIN m.entity = Columns
          /\ m.type = w.type /\ m.of = w.of /\ m.no = w.no /\ m.pc = "start"
      BY <3>0 DEF Message, Fields, Columns
    <3> SUFFICES MessageOK(m)'
      BY <3>0
    <3>3. CASE w.type = "hired" /\ HiredOK(w)'
      BY <3>2, <3>3 DEF MessageOK, HiredOK
    <3>4. CASE w.type = "completed" /\ CompletionOK(w)'
      BY <3>2, <3>4 DEF MessageOK, CompletionOK
    <3>5. CASE w.type \in EscrowService /\ RequestOK(w)'
      BY <3>2, <3>5 DEF MessageOK, RequestOK
    <3>6. CASE w.type \in {"create result", "complete result"} /\ ResultOK(w)'
      BY <3>2, <3>6 DEF MessageOK, ResultOK
    <3> QED BY <3>1, <3>3, <3>4, <3>5, <3>6 DEF MessageOK
  <2> QED BY <1>2, <1>15, <2>1 DEF Crash
<1>16. ASSUME NEW j \in Jobs, StrangerCreates(j) \/ StrangerCompletes(j)
       PROVE  \A v \in work' : MessageOK(v)'
  BY <1>2, <1>16, StrangerOnly
<1> QED
  BY <1>5, <1>6, <1>7, <1>8, <1>9, <1>10, <1>11, <1>12, <1>13, <1>14, <1>15, <1>16 DEF Next, Handle

(* The tables keep their rows, and the certificates stay a list.           *)
LEMMA TablesStep ==
  ASSUME Sound, Next
  PROVE  Tables'
<1> USE DEF Sound, Tables
<1>1. ASSUME NEW w \in work, Certify(w) PROVE Tables'
  <2>1. w.target \in Proposals
    BY <1>1, ByType DEF Certify, CompletionOK
  <2>2. certs' \in Seq(Proposals) /\ DOMAIN stored' = Proposals
    BY <1>1, <2>1 DEF Certify
  <2> QED BY <1>1, <2>2 DEF Certify, history
<1>2. ASSUME NEW w \in work, Handle(w), ~ Certify(w) PROVE Tables'
  BY <1>2 DEF Handle, FindHired, Insert, Generate, FindCompleted, LoadCompleted, Save,
       Preflight, Land, ApplyResult, tables, history
<1>3. ASSUME NEW types, Crash(types) PROVE Tables'
  BY <1>3 DEF Crash, tables, history
<1>4. ASSUME NEW j \in Jobs, StrangerCreates(j) \/ StrangerCompletes(j)
      PROVE  Tables'
  BY <1>4, StrangerOnly
<1> QED BY <1>1, <1>2, <1>3, <1>4 DEF Next

(* A job's account changes only when a transaction lands.                  *)
LEMMA AccountsStep ==
  ASSUME Sound, Next
  PROVE  \A j \in Jobs : AccountOK(j)'
<1> USE DEF Sound
<1>1. Grows
  BY OnlyGrows
<1> HIDE <1>1
<1>2. ASSUME NEW i \in Jobs, onchain'[i] = onchain[i] PROVE AccountOK(i)'
  BY <1>1, <1>2 DEF AccountOK, Grows, Tables
<1>3. ASSUME UNCHANGED onchain PROVE \A i \in Jobs : AccountOK(i)'
  BY <1>2, <1>3
<1>4. ASSUME NEW w \in work, Land(w) PROVE \A i \in Jobs : AccountOK(i)'
  <2> DEFINE j == JobOf[w.of]
  <2>1. RequestOK(w) /\ w.type \in EscrowService
    BY <1>4, ByType DEF Land
  <2>2. w.of \in Proposals /\ j \in Jobs /\ AccountOK(j) /\ UNCHANGED <<certs, pdfs>>
    BY <1>4, <2>1, ContractsAssumption DEF RequestOK, Land, tables, history
  <2> DEFINE a == IF Accepts(w, onchain[j]) THEN Executed(w, onchain[j]) ELSE onchain[j]
  <2>3. CASE onchain' = [onchain EXCEPT ![j] = IF Accepts(w, @) THEN Executed(w, @) ELSE @]
    <3>1. onchain'[j] = a /\ \A i \in Jobs : i # j => onchain'[i] = onchain[i]
      BY <2>2, <2>3 DEF Tables
    <3>2. CASE ~ Accepts(w, onchain[j])
      BY <1>2, <3>1, <3>2
    <3>3. CASE Accepts(w, onchain[j]) /\ w.type = "create"
      <4>1. a = [state |-> "Active", authority |-> "service", of |-> w.of, cert |-> 0]
        BY <3>3 DEF Executed
      <4>2. pdfs[w.of] = 1
        BY <2>1, <3>3 DEF RequestOK
      <4>3. AccountOK(j)'
        <5>1. DOMAIN a = DOMAIN NoAccount /\ a.state = "Active" /\ a.authority = "service"
              /\ a.of = w.of /\ a.cert = 0
          BY <4>1 DEF NoAccount
        <5> HIDE DEF a
        <5> QED BY <2>2, <3>1, <4>2, <5>1 DEF AccountOK
      <4> QED BY <1>2, <3>1, <4>3
    <3>4. CASE Accepts(w, onchain[j]) /\ w.type = "complete"
      <4>1. /\ a = [onchain[j] EXCEPT !.state = "Completed", !.cert = w.no]
            /\ onchain[j].state = "Active" /\ onchain[j].authority = "service"
        BY <3>4 DEF Executed, Accepts
      <4>2. w.no \in 1 .. Len(certs) /\ certs[w.no] = w.of /\ Len(certs) \in Nat
        BY <2>1, <3>4 DEF RequestOK, IsCertOf, Tables
      <4>3. /\ DOMAIN a = DOMAIN NoAccount /\ a.state = "Completed" /\ a.cert = w.no
            /\ a.of = onchain[j].of /\ a.authority = "service"
        BY <2>2, <4>1 DEF AccountOK, NoAccount
      <4> HIDE DEF a
      <4>4. AccountOK(j)'
        BY <2>2, <3>1, <4>1, <4>2, <4>3 DEF AccountOK
      <4> QED BY <1>2, <3>1, <4>4
    <3> QED BY <2>1, <3>2, <3>3, <3>4 DEF EscrowService
  <2> QED BY <1>3, <1>4, <2>3 DEF Land
<1>5. ASSUME NEW w \in work, Handle(w), ~ Land(w) PROVE UNCHANGED onchain
  BY <1>5 DEF Handle, FindHired, Insert, Generate, FindCompleted, LoadCompleted, Certify, Save,
       Preflight, ApplyResult
<1>6. ASSUME NEW types, Crash(types) PROVE UNCHANGED onchain
  BY <1>6 DEF Crash
<1>7. ASSUME NEW j \in Jobs, StrangerCreates(j) \/ StrangerCompletes(j)
      PROVE  \A i \in Jobs : AccountOK(i)'
  <2>1. \A i \in Jobs : i # j => onchain'[i] = onchain[i]
    BY <1>7, StrangerOnly
  <2>2. AccountOK(j)'
    BY <1>7, StrangerOnly DEF AccountOK
  <2> QED BY <1>2, <2>1, <2>2
<1> QED BY <1>3, <1>4, <1>5, <1>6, <1>7 DEF Next

(* A row changes when it is inserted, saved or told of a result, and what  *)
(* is written then was true when it was read, and still is.                *)
LEMMA RowsStep ==
  ASSUME Sound, Next
  PROVE  \A p \in Proposals : RowOK(p)'
<1> USE DEF Sound, Tables
<1>1. \A p \in Proposals : (HasAccount(p) => HasAccount(p)') /\ (IsCompleted(p) => IsCompleted(p)')
  BY OnlyGrows, ContractsAssumption DEF HasAccount, IsCompleted, Grows
<1>2. ASSUME NEW p \in Proposals, contract'[p] = contract[p] PROVE RowOK(p)'
  BY <1>1, <1>2 DEF RowOK
<1>3. ASSUME NEW w \in work, Insert(w) PROVE \A p \in Proposals : RowOK(p)'
  <2>1. w.of \in Proposals
    BY <1>3, ByType DEF Insert, HiredOK
  <2>2. CASE Free(w.of)
    <3>1. contract' = [contract EXCEPT ![w.of] = [NoRow EXCEPT !.status = "generating"]]
      BY <1>3, <2>2 DEF Insert
    <3>2. RowOK(w.of)'
      BY <2>1, <3>1, ColumnsAre DEF RowOK
    <3> QED BY <1>2, <3>1, <3>2
  <2> QED BY <1>2, <1>3, <2>2 DEF Insert
<1>4. ASSUME NEW w \in work, Save(w) PROVE \A p \in Proposals : RowOK(p)'
  <2> DEFINE t == w.target
  <2>1. t \in Proposals /\ MessageOK(w) /\ w.pc = "save"
    BY <1>4, ByType DEF Save
  <2>2. contract' = [contract EXCEPT ![t] = Saved(w, contract[t])] /\ UNCHANGED onchain
    BY <1>4 DEF Save
  <2>3. /\ DOMAIN Saved(w, contract[t]) = Columns
        /\ Saved(w, contract[t])["created"] => HasAccount(t)
        /\ Saved(w, contract[t])["completed"] => IsCompleted(t)
    <3>1. RowOK(t)
      BY <2>1
    <3>2. CASE w.type = "hired"
      BY <2>1, <3>1, <3>2, SavedRow DEF RowOK
    <3>3. CASE w.type # "hired"
      <4>1. w.type = "completed" /\ CompletionOK(w)
        BY <2>1, <3>1, <3>3, SavedRow, ByType DEF RowOK
      <4>2. DOMAIN Saved(w, contract[t]) = Columns
            /\ \A f \in Columns : Saved(w, contract[t])[f] = w.entity[f]
        BY <2>1, <3>1, <3>3, SavedRow DEF RowOK
      <4>3. /\ w.entity["created"] => HasAccount(t)
            /\ w.entity["completed"] => IsCompleted(t)
        BY <2>1, <4>1 DEF CompletionOK
      <4>4. /\ Saved(w, contract[t])["created"] = w.entity["created"]
            /\ Saved(w, contract[t])["completed"] = w.entity["completed"]
        BY <4>2, ColumnsAre
      <4> QED BY <4>2, <4>3, <4>4
    <3> QED BY <3>2, <3>3
  <2>4. RowOK(t)'
    BY <1>1, <2>1, <2>2, <2>3 DEF RowOK
  <2> QED BY <1>2, <2>2, <2>4
<1>5. ASSUME NEW w \in work, ApplyResult(w) PROVE \A p \in Proposals : RowOK(p)'
  <2>1. w.of \in Proposals /\ ResultOK(w) /\ w.type \in {"create result", "complete result"}
    BY <1>5, ByType DEF ApplyResult, ResultOK
  <2>2. contract' = [contract EXCEPT ![w.of] = Applied(w, contract[w.of])]
    BY <1>5 DEF ApplyResult
  <2>3. RowOK(w.of)'
    BY <1>1, <2>1, <2>2, ColumnsAre DEF RowOK, ResultOK, Applied
  <2> QED BY <1>2, <2>2, <2>3
<1>6. ASSUME NEW w \in work, Handle(w), ~ Insert(w), ~ Save(w), ~ ApplyResult(w)
      PROVE  UNCHANGED contract
  BY <1>6 DEF Handle, FindHired, Generate, FindCompleted, LoadCompleted, Certify,
       Preflight, Land, tables
<1>7. ASSUME NEW types, Crash(types) PROVE UNCHANGED contract
  BY <1>7 DEF Crash, tables
<1>8. ASSUME NEW j \in Jobs, StrangerCreates(j) \/ StrangerCompletes(j)
      PROVE  UNCHANGED contract
  BY <1>8, StrangerOnly
<1> QED BY <1>2, <1>3, <1>4, <1>5, <1>6, <1>7, <1>8 DEF Next

(* Only the insert and the generation make a message Generating.           *)
LEMMA NoNewGenerating ==
  ASSUME Sound, Next, NEW p \in Proposals
  PROVE  \/ \E w \in work : (Insert(w) \/ Generate(w)) /\ w.of = p
         \/ /\ pdfs'[p] = pdfs[p]
            /\ \A v \in work' : Generating(v, p) => v \in work
<1> USE DEF Sound, Tables
<1>1. ASSUME NEW w \in work, NEW v, Become(w, v), v.type # "hired" \/ v.pc = "insert" \/ v.of # p
      PROVE  \A u \in work' : Generating(u, p) => u \in work
  BY <1>1 DEF Become, Generating
<1>2. ASSUME NEW w \in work, Done(w)
      PROVE  \A u \in work' : Generating(u, p) => u \in work
  BY <1>2 DEF Done, Publish
<1>3. ASSUME NEW w \in work, NEW msgs, Publish(w, msgs), \A m \in msgs : m.type # "hired"
      PROVE  \A u \in work' : Generating(u, p) => u \in work
  BY <1>3 DEF Publish, Generating
<1>4. \A w \in work : DOMAIN w = Fields /\ DOMAIN w.entity = Columns
  BY DEF MessageOK
<1>5. ASSUME NEW w \in work, FindHired(w)
      PROVE  pdfs' = pdfs /\ \A u \in work' : Generating(u, p) => u \in work
  <2>1. [w EXCEPT !.pc = "insert"].pc = "insert"
    BY <1>4 DEF Fields
  <2> QED BY <1>1, <1>2, <1>5, <2>1 DEF FindHired, history
<1>6. ASSUME NEW w \in work, Insert(w), w.of # p
      PROVE  pdfs' = pdfs /\ \A u \in work' : Generating(u, p) => u \in work
  <2>1. [w EXCEPT !.pc = "generate", !.target = w.of].of # p
    BY <1>4, <1>6 DEF Fields
  <2> QED BY <1>1, <1>2, <1>6, <2>1 DEF Insert, history
<1>7. ASSUME NEW w \in work, Generate(w), w.of # p
      PROVE  pdfs'[p] = pdfs[p] /\ \A u \in work' : Generating(u, p) => u \in work
  <2>1. [w EXCEPT !.pc = "save", !.carries = {"status", "pdf"},
           !.entity.status = "generated", !.entity.pdf = TRUE].of # p
    BY <1>4, <1>7 DEF Fields
  <2>2. [w EXCEPT !.pc = "save", !.carries = {"status"}, !.entity.status = "failed"].of # p
    BY <1>4, <1>7 DEF Fields
  <2>3. pdfs'[p] = pdfs[p]
    BY <1>7 DEF Generate
  <2> QED BY <1>1, <1>7, <2>1, <2>2, <2>3 DEF Generate
<1>8. ASSUME NEW w \in work, FindCompleted(w)
      PROVE  pdfs' = pdfs /\ \A u \in work' : Generating(u, p) => u \in work
  <2>1. \A q : [w EXCEPT !.pc = "load", !.target = q].type # "hired"
    BY <1>4, <1>8 DEF Fields, FindCompleted
  <2> QED BY <1>1, <1>2, <1>8, <2>1 DEF FindCompleted
<1>9. ASSUME NEW w \in work, LoadCompleted(w)
      PROVE  pdfs' = pdfs /\ \A u \in work' : Generating(u, p) => u \in work
  <2>0. PICK v : v = [w EXCEPT !.pc = "certify", !.entity = contract[w.target], !.carries = Columns]
    OBVIOUS
  <2>1. v.type # "hired"
    BY <1>4, <1>9, <2>0 DEF Fields, LoadCompleted
  <2> QED BY <1>1, <1>9, <2>0, <2>1 DEF LoadCompleted, history
<1>10. ASSUME NEW w \in work, Certify(w)
      PROVE  pdfs' = pdfs /\ \A u \in work' : Generating(u, p) => u \in work
  <2>0. PICK n, v : n = Len(certs') /\ v = [w EXCEPT !.pc = "save",
                        !.entity.status = "completed", !.entity.cert = n]
    OBVIOUS
  <2>1. v.type # "hired"
    BY <1>4, <1>10, <2>0 DEF Fields, Certify
  <2> QED BY <1>1, <1>2, <1>10, <2>0, <2>1 DEF Certify, history
<1>11. ASSUME NEW w \in work, Save(w)
      PROVE  pdfs' = pdfs /\ \A u \in work' : Generating(u, p) => u \in work
  <2>1. \A m \in Requests(w) : m.type # "hired"
    BY DEF Requests, Message
  <2> QED BY <1>2, <1>3, <1>11, <2>1 DEF Save, history
<1>12. ASSUME NEW w \in work, Preflight(w)
      PROVE  pdfs' = pdfs /\ \A u \in work' : Generating(u, p) => u \in work
  <2>1. [w EXCEPT !.pc = "land"].type # "hired"
    BY <1>4, <1>12 DEF Fields, Preflight, Starts, EscrowService
  <2> QED BY <1>1, <1>2, <1>12, <2>1 DEF Preflight, history
<1>13. ASSUME NEW w \in work, Land(w)
      PROVE  pdfs' = pdfs /\ \A u \in work' : Generating(u, p) => u \in work
  <2>1. Result(w).type # "hired"
    BY DEF Result, Message
  <2> QED BY <1>2, <1>3, <1>13, <2>1 DEF Land, history
<1>14. ASSUME NEW w \in work, ApplyResult(w)
      PROVE  pdfs' = pdfs /\ \A u \in work' : Generating(u, p) => u \in work
  BY <1>2, <1>14 DEF ApplyResult, history
<1>15. ASSUME NEW types, Crash(types)
      PROVE  pdfs' = pdfs /\ \A u \in work' : Generating(u, p) => u \in work
  BY <1>15 DEF Crash, Generating, Message, history
<1>16. ASSUME NEW j \in Jobs, StrangerCreates(j) \/ StrangerCompletes(j)
       PROVE  pdfs' = pdfs /\ \A u \in work' : Generating(u, p) => u \in work
  BY <1>16, StrangerOnly
<1> QED
  BY <1>5, <1>6, <1>7, <1>8, <1>9, <1>10, <1>11, <1>12, <1>13, <1>14, <1>15, <1>16 DEF Next, Handle

(* The unique index admits one handler to the generation, and that handler *)
(* makes one document.                                                     *)
LEMMA HireStep ==
  ASSUME Sound, Next
  PROVE  \A p \in Proposals : HireOK(p)'
<1> USE DEF Sound, Tables
<1> SUFFICES ASSUME NEW p \in Proposals PROVE HireOK(p)'
  OBVIOUS
<1>1. contract[p] # NoRow => contract'[p] # NoRow
  BY OnlyGrows DEF Grows
<1>2. ASSUME pdfs'[p] = pdfs[p], \A v \in work' : Generating(v, p) => v \in work PROVE HireOK(p)'
  <2>1. HireOK(p)
    OBVIOUS
  <2> QED BY <1>1, <1>2, <2>1 DEF HireOK, Generating
<1>3. ASSUME NEW w \in work, Insert(w), w.of = p PROVE HireOK(p)'
  <2>1. pdfs' = pdfs /\ HireOK(p)
    BY <1>3 DEF Insert, history
  <2>2. CASE ~ Free(p)
    BY <1>2, <1>3, <2>1, <2>2 DEF Insert, Done, Publish
  <2>3. CASE Free(p)
    <3>1. pdfs[p] = 0 /\ \A v \in work : ~ Generating(v, p)
      BY <2>1, <2>3 DEF HireOK, Free
    <3>2. contract'[p] # NoRow
      BY <1>3, <2>3, ColumnsAre DEF Insert
    <3>3. \A v \in work' : Generating(v, p) => v = [w EXCEPT !.pc = "generate", !.target = w.of]
      BY <1>3, <2>3, <3>1 DEF Insert, Become
    <3> QED BY <2>1, <3>1, <3>2, <3>3 DEF HireOK, Generating
  <2> QED BY <2>2, <2>3
<1>4. ASSUME NEW w \in work, Generate(w), w.of = p PROVE HireOK(p)'
  <2>1. DOMAIN w = Fields /\ DOMAIN w.entity = Columns
    BY DEF MessageOK
  <2>2. HireOK(p) /\ Generating(w, p) /\ w.pc = "generate"
    BY <1>4 DEF Generate, Generating
  <2>3. pdfs[p] = 0 /\ contract'[p] # NoRow /\ \A v \in work : Generating(v, p) => v = w
    BY <1>1, <2>2 DEF HireOK
  <2>4. ASSUME NEW v, v.pc = "save", Become(w, v), pdfs'[p] \in {0, 1} PROVE HireOK(p)'
    <3>1. \A u \in work' : Generating(u, p) => u = v
      BY <2>3, <2>4 DEF Become
    <3> QED BY <2>3, <2>4, <3>1 DEF HireOK, Generating
  <2>5. [w EXCEPT !.pc = "save", !.carries = {"status", "pdf"},
           !.entity.status = "generated", !.entity.pdf = TRUE].pc = "save"
    BY <2>1 DEF Fields
  <2>6. [w EXCEPT !.pc = "save", !.carries = {"status"}, !.entity.status = "failed"].pc = "save"
    BY <2>1 DEF Fields
  <2>7. pdfs'[p] \in {0, 1}
    BY <1>4, <2>3 DEF Generate
  <2> QED BY <1>4, <2>4, <2>5, <2>6, <2>7 DEF Generate
<1> QED BY <1>2, <1>3, <1>4, NoNewGenerating

LEMMA SoundInit == Init => Sound
<1> SUFFICES ASSUME Init PROVE Sound
  OBVIOUS
<1>1. Tables
  BY DEF Init, Tables
<1>2. ASSUME NEW v \in work PROVE MessageOK(v) /\ v.pc = "start"
  <2>1. CASE \E p \in Proposals : \E n \in 1 .. Hires[p] : v = Message("hired", p, n)
    <3>1. DOMAIN v = Fields /\ DOMAIN v.entity = Columns
          /\ v.type = "hired" /\ v.of \in Proposals /\ v.pc = "start"
      BY <2>1 DEF Message, Fields, Columns
    <3> QED BY <3>1 DEF MessageOK, HiredOK
  <2>2. CASE \E j \in Jobs : \E n \in 1 .. 2 * Releases[j] : v = Message("completed", j, n)
    <3>1. DOMAIN v = Fields /\ DOMAIN v.entity = Columns
          /\ v.type = "completed" /\ v.of \in Jobs /\ v.pc = "start"
      BY <2>2 DEF Message, Fields, Columns
    <3> QED BY <3>1 DEF MessageOK, CompletionOK
  <2>3. CASE v \in UNION {{Message("hired", p, n) : n \in 1 .. Hires[p]} : p \in Proposals}
    BY <2>1, <2>3
  <2>4. CASE v \in UNION {{Message("completed", j, n) : n \in 1 .. 2 * Releases[j]} : j \in Jobs}
    BY <2>2, <2>4
  <2> QED BY <1>2, <2>3, <2>4 DEF Init, Published
<1>3. \A j \in Jobs : AccountOK(j)
  BY DEF Init, AccountOK, NoAccount
<1>4. \A p \in Proposals : RowOK(p)
  BY ColumnsAre DEF Init, RowOK
<1>5. \A p \in Proposals : HireOK(p)
  BY <1>2 DEF Init, HireOK, Generating
<1> QED BY <1>1, <1>2, <1>3, <1>4, <1>5 DEF Sound

LEMMA SoundStep == Sound /\ [Next]_vars => Sound'
<1> SUFFICES ASSUME Sound, [Next]_vars PROVE Sound'
  OBVIOUS
<1>1. CASE Next
  BY <1>1, TablesStep, MessagesStep, AccountsStep, RowsStep, HireStep DEF Sound
<1>2. CASE UNCHANGED vars
  <2>1. Tables'
    BY <1>2 DEF vars, tables, history, Sound, Tables
  <2>2. \A v \in work' : MessageOK(v)'
    <3> SUFFICES ASSUME NEW v \in work PROVE MessageOK(v)'
      BY <1>2 DEF vars
    <3>1. MessageOK(v) /\ UNCHANGED <<contract, onchain, certs, pdfs>>
      BY <1>2 DEF vars, tables, history, Sound
    <3>2. HiredOK(v) => HiredOK(v)'
      BY <3>1 DEF HiredOK
    <3>3. CompletionOK(v) => CompletionOK(v)'
      BY <3>1 DEF CompletionOK, HasAccount, IsCompleted, IsCertOf
    <3>4. (RequestOK(v) => RequestOK(v)') /\ (ResultOK(v) => ResultOK(v)')
      BY <3>1 DEF RequestOK, ResultOK, HasAccount, IsCompleted, IsServices, IsCertOf
    <3> QED BY <3>1, <3>2, <3>3, <3>4 DEF MessageOK
  <2>3. \A j \in Jobs : AccountOK(j)'
    BY <1>2 DEF vars, tables, history, Sound, AccountOK
  <2>4. \A p \in Proposals : RowOK(p)' /\ HireOK(p)'
    BY <1>2 DEF vars, tables, history, Sound, RowOK, HireOK, HasAccount, IsCompleted
  <2> QED BY <2>1, <2>2, <2>3, <2>4 DEF Sound
<1> QED BY <1>1, <1>2

(* The inductive invariant: every row, document, transaction and           *)
(* completion is backed by what made it.                                   *)
THEOREM SoundAlways == Spec => []Sound
BY SoundInit, SoundStep, PTL DEF Spec

-----------------------------------------------------------------------------
(* Properties that follow at once. *)

(* However often a hire is published or delivered, and wherever the job    *)
(* service stops, createAndGenerate makes one contract document at most.   *)
THEOREM NeverTwoPdfs == Spec => []OnePdfPerProposal
<1>1. Sound => OnePdfPerProposal
  BY DEF Sound, HireOK, OnePdfPerProposal
<1> QED BY <1>1, SoundAlways, PTL

(* What a row says of the job's account holds there, whatever was lost,    *)
(* repeated or refused on the way, and an account the service made refers  *)
(* to a contract and a certificate of its own job.                         *)
THEOREM RowNeverAhead == Spec => []RowTrailsAccount
<1>1. Sound => RowTrailsAccount
  <2> SUFFICES ASSUME Sound PROVE RowTrailsAccount
    OBVIOUS
  <2>1. \A p \in Proposals : RowOK(p)
    BY DEF Sound
  <2>2. \A j \in Jobs : AccountOK(j)
    BY DEF Sound
  <2> QED BY <2>1, <2>2 DEF RowTrailsAccount, RowOK, AccountOK, HasAccount, IsCompleted
<1> QED BY <1>1, SoundAlways, PTL

-----------------------------------------------------------------------------
(* What a step may do to one row, one handler, one certificate.            *)

(* The status and certificate of a row are written by the insert and by    *)
(* save, of a generation or of a completion, and by nothing else.          *)
LEMMA RowChanges ==
  ASSUME Sound, Next, NEW p \in Proposals
  PROVE  \/ contract'[p].status = contract[p].status /\ contract'[p].cert = contract[p].cert
         \/ \E w \in work :
              /\ Insert(w) /\ w.of = p /\ contract[p] = NoRow
              /\ contract'[p].status = "generating" /\ contract'[p].cert = 0
         \/ \E w \in work :
              /\ Save(w) /\ w.target = p /\ w.type = "hired"
              /\ contract'[p].status \in {"generated", "failed"}
              /\ contract'[p].cert = contract[p].cert
         \/ \E w \in work :
              /\ Save(w) /\ w.target = p /\ w.type = "completed"
              /\ contract'[p].status = "completed"
              /\ contract'[p].cert = w.entity.cert
<1> USE DEF Sound, Tables
<1> DEFINE same == contract'[p].status = contract[p].status /\ contract'[p].cert = contract[p].cert
<1>1. ASSUME NEW w \in work, Insert(w)
      PROVE  \/ same
             \/ /\ w.of = p /\ contract[p] = NoRow
                /\ contract'[p].status = "generating" /\ contract'[p].cert = 0
  <2>1. w.of \in Proposals
    BY <1>1, ByType DEF Insert, HiredOK
  <2>2. CASE Free(w.of) /\ w.of = p
    BY <1>1, <2>1, <2>2, ColumnsAre DEF Insert, Free
  <2>3. CASE Free(w.of) /\ w.of # p
    BY <1>1, <2>1, <2>3 DEF Insert
  <2> QED BY <1>1, <2>2, <2>3 DEF Insert
<1>2. ASSUME NEW w \in work, Save(w), w.target = p
      PROVE  \/ /\ w.type = "hired" /\ contract'[p].cert = contract[p].cert
                /\ contract'[p].status \in {"generated", "failed"}
             \/ /\ w.type = "completed" /\ contract'[p].cert = w.entity.cert
                /\ contract'[p].status = "completed"
  <2>1. contract'[p] = Saved(w, contract[p]) /\ w.pc = "save" /\ MessageOK(w)
    BY <1>2 DEF Save
  <2>2. DOMAIN contract[p] = Columns
    BY DEF RowOK
  <2>3. CASE w.type = "hired"
    <3>1. \A f \in {"created", "cert", "completed"} : Saved(w, contract[p])[f] = contract[p][f]
      BY <2>1, <2>2, <2>3, SavedRow
    <3>2. /\ Saved(w, contract[p]).status = w.entity.status
          /\ w.entity.status \in {"generated", "failed", "completed"}
          /\ w.entity.status # "completed"
      BY <2>1, <2>2, <2>3, SavedRow
    <3> QED BY <2>1, <2>3, <3>1, <3>2
  <2>4. CASE w.type # "hired"
    <3>1. w.type = "completed" /\ \A f \in Columns : Saved(w, contract[p])[f] = w.entity[f]
      BY <2>1, <2>2, <2>4, SavedRow
    <3>2. w.entity.status = "completed"
      BY <2>1, <3>1, ByType DEF CompletionOK
    <3> QED BY <2>1, <3>1, <3>2, ColumnsAre
  <2> QED BY <2>3, <2>4
<1>3. ASSUME NEW w \in work, Save(w), w.target # p PROVE same
  BY <1>3 DEF Save
<1>4. ASSUME NEW w \in work, ApplyResult(w) PROVE same
  <2>1. w.of \in Proposals /\ DOMAIN contract[p] = Columns
    BY <1>4, ByType DEF ApplyResult, ResultOK, RowOK
  <2>2. CASE w.of = p
    BY <1>4, <2>1, <2>2, ColumnsAre DEF ApplyResult, Applied
  <2> QED BY <1>4, <2>1, <2>2 DEF ApplyResult
<1>5. ASSUME NEW w \in work, Handle(w), ~ Insert(w), ~ Save(w), ~ ApplyResult(w) PROVE same
  BY <1>5 DEF Handle, FindHired, Generate, FindCompleted, LoadCompleted, Certify,
       Preflight, Land, tables
<1>6. ASSUME NEW types, Crash(types) PROVE same
  BY <1>6 DEF Crash, tables
<1>7. ASSUME NEW j \in Jobs, StrangerCreates(j) \/ StrangerCompletes(j)
      PROVE  same
  BY <1>7, StrangerOnly
<1> HIDE DEF same
<1>8. same \/ \E w \in work : Insert(w) \/ Save(w)
  BY <1>3, <1>4, <1>5, <1>6, <1>7 DEF Next
<1>9. CASE same
  BY <1>9 DEF same
<1>10. ASSUME NEW w \in work, Insert(w), ~ same
      PROVE  /\ Insert(w) /\ w.of = p /\ contract[p] = NoRow
             /\ contract'[p].status = "generating" /\ contract'[p].cert = 0
  BY <1>1, <1>10
<1>11. ASSUME NEW w \in work, Save(w), ~ same
       PROVE  \/ /\ Save(w) /\ w.target = p /\ w.type = "hired"
                 /\ contract'[p].status \in {"generated", "failed"}
                 /\ contract'[p].cert = contract[p].cert
              \/ /\ Save(w) /\ w.target = p /\ w.type = "completed"
                 /\ contract'[p].status = "completed"
                 /\ contract'[p].cert = w.entity.cert
  BY <1>2, <1>3, <1>11
<1> QED BY <1>8, <1>9, <1>10, <1>11

(* The certificate in S3 changes only when one is made for the contract.   *)
LEMMA StoredStep ==
  ASSUME Sound, Next, NEW p \in Proposals
  PROVE  stored'[p] = stored[p] \/ \E w \in work : Certify(w) /\ w.target = p
<1> USE DEF Sound, Tables
<1>1. ASSUME NEW w \in work, Certify(w), w.target # p PROVE stored'[p] = stored[p]
  BY <1>1 DEF Certify
<1>2. ASSUME NEW w \in work, Handle(w), ~ Certify(w) PROVE stored'[p] = stored[p]
  BY <1>2 DEF Handle, FindHired, Insert, Generate, FindCompleted, LoadCompleted, Save, Preflight,
       Land, ApplyResult, tables
<1>3. ASSUME NEW types, Crash(types) PROVE stored'[p] = stored[p]
  BY <1>3 DEF Crash, tables
<1>4. ASSUME NEW j \in Jobs, StrangerCreates(j) \/ StrangerCompletes(j)
      PROVE  stored'[p] = stored[p]
  BY <1>4, StrangerOnly
<1> QED BY <1>1, <1>2, <1>3, <1>4 DEF Next

(* A request to certify a contract comes from the save of its completion,  *)
(* and only the landing of such a request puts a certificate on chain.     *)
LEMMA CertifiedStep ==
  ASSUME Sound, Next, NEW p \in Proposals, NEW c, Certified(p, c)'
  PROVE  \/ Certified(p, c)
         \/ \E w \in work :
              Save(w) /\ w.type = "completed" /\ w.target = p /\ c = w.entity.cert
<1> USE DEF Sound, Tables
<1> DEFINE Requested(W) == \E v \in W : v.type = "complete" /\ v.of = p /\ v.no = c
           j == JobOf[p]
           OnChain(d, list) == d > 0 /\ list[d] = p /\ c = d
<1>1. j \in Jobs /\ AccountOK(j)
  BY ContractsAssumption
<1>2. Certified(p, c) <=> Requested(work) \/ OnChain(onchain[j].cert, certs)
  BY DEF Certified
<1>3. Requested(work') \/ OnChain(onchain'[j].cert, certs')
  BY DEF Certified
<1>4. CASE Requested(work')
  <2>1. \A w \in work : DOMAIN w = Fields /\ DOMAIN w.entity = Columns
    BY DEF MessageOK
  <2>2. ASSUME NEW w \in work, NEW v, Become(w, v), v.type = w.type, v.of = w.of, v.no = w.no
        PROVE  Requested(work)
    BY <1>4, <2>2 DEF Become
  <2>3. ASSUME NEW w \in work, Done(w) PROVE Requested(work)
    BY <1>4, <2>3 DEF Done, Publish
  <2>4. ASSUME NEW w \in work, Save(w)
        PROVE  \/ Requested(work)
               \/ w.type = "completed" /\ w.target = p /\ c = w.entity.cert
    <3>1. w.type \in {"hired", "completed"} /\ MessageOK(w) /\ w.pc = "save"
      BY <2>4, ByType DEF Save
    <3>2. w.type = "hired" => w.entity.status # "completed"
      BY <3>1, ByType DEF HiredOK
    <3>3. ASSUME NEW m \in Requests(w), m.type = "complete", m.of = p, m.no = c
          PROVE  w.type = "completed" /\ w.target = p /\ c = w.entity.cert
      BY <3>1, <3>2, <3>3 DEF Requests, Message
    <3> QED BY <1>4, <2>3, <2>4, <3>3 DEF Save, Publish
  <2>5. ASSUME NEW w \in work, Land(w) PROVE Requested(work)
    <3>1. Result(w).type # "complete"
      BY DEF Result, Message
    <3> QED BY <1>4, <2>3, <2>5, <3>1 DEF Land, Publish
  <2>6. ASSUME NEW w \in work, FindHired(w) \/ Insert(w) \/ Preflight(w) \/ ApplyResult(w)
        PROVE  Requested(work)
    <3> DEFINE v == [w EXCEPT !.pc = "insert"]
               u == [w EXCEPT !.pc = "land"]
               t == [w EXCEPT !.pc = "generate", !.target = w.of]
    <3>1. /\ v.type = w.type /\ v.of = w.of /\ v.no = w.no
          /\ u.type = w.type /\ u.of = w.of /\ u.no = w.no
          /\ t.type = w.type /\ t.of = w.of /\ t.no = w.no
      BY <2>1 DEF Fields
    <3>2. Become(w, v) \/ Become(w, u) \/ Become(w, t) \/ Done(w)
      BY <2>6 DEF FindHired, Insert, Preflight, ApplyResult
    <3> QED BY <2>2, <2>3, <3>1, <3>2
  <2>7. ASSUME NEW w \in work, Generate(w) PROVE Requested(work)
    <3> DEFINE v == [w EXCEPT !.pc = "save", !.carries = {"status", "pdf"},
                       !.entity.status = "generated", !.entity.pdf = TRUE]
               u == [w EXCEPT !.pc = "save", !.carries = {"status"}, !.entity.status = "failed"]
    <3>1. /\ v.type = w.type /\ v.of = w.of /\ v.no = w.no
          /\ u.type = w.type /\ u.of = w.of /\ u.no = w.no
      BY <2>1 DEF Fields
    <3> QED BY <2>2, <2>7, <3>1 DEF Generate
  <2>8. ASSUME NEW w \in work, FindCompleted(w) PROVE Requested(work)
    <3>1. \A q : LET v == [w EXCEPT !.pc = "load", !.target = q]
                 IN v.type = w.type /\ v.of = w.of /\ v.no = w.no
      BY <2>1 DEF Fields
    <3> QED BY <2>2, <2>3, <2>8, <3>1 DEF FindCompleted
  <2>9. ASSUME NEW w \in work, LoadCompleted(w) PROVE Requested(work)
    <3>0. PICK v : v = [w EXCEPT !.pc = "certify", !.entity = contract[w.target], !.carries = Columns]
      OBVIOUS
    <3>1. v.type = w.type /\ v.of = w.of /\ v.no = w.no
      BY <2>1, <3>0 DEF Fields
    <3> QED BY <2>2, <2>9, <3>0, <3>1 DEF LoadCompleted
  <2>10. ASSUME NEW w \in work, Certify(w) PROVE Requested(work)
    <3>0. PICK n, v : n = Len(certs') /\ v = [w EXCEPT !.pc = "save",
                          !.entity.status = "completed", !.entity.cert = n]
      OBVIOUS
    <3>1. v.type = w.type /\ v.of = w.of /\ v.no = w.no
      BY <2>1, <3>0 DEF Fields
    <3> QED BY <2>2, <2>3, <2>10, <3>0, <3>1 DEF Certify
  <2>11. ASSUME NEW types, Crash(types) PROVE Requested(work)
    BY <1>4, <2>11 DEF Crash, Message
  <2> HIDE DEF Requested
  <2>12. ASSUME NEW i \in Jobs, StrangerCreates(i) \/ StrangerCompletes(i)
         PROVE  Requested(work)
    BY <1>4, <2>12, StrangerOnly
  <2> QED
    BY <1>2, <2>4, <2>5, <2>6, <2>7, <2>8, <2>9, <2>10, <2>11, <2>12 DEF Next, Handle
<1>5. CASE OnChain(onchain'[j].cert, certs')
  <2>1. onchain'[j].cert <= Len(certs) /\ onchain'[j].cert > 0 => certs[onchain'[j].cert] = p
    BY <1>1, <1>5, OnlyGrows, AccountsStep DEF Grows, AccountOK
  <2>2. CASE onchain'[j] = onchain[j]
    <3>1. onchain[j].cert \in 1 .. Len(certs)
      BY <1>1, <1>5, <2>2 DEF AccountOK, NoAccount
    <3> QED BY <1>2, <1>5, <2>1, <2>2, <3>1
  <2>3. ASSUME NEW w \in work, Land(w), onchain'[j] # onchain[j] PROVE Requested(work)
    <3>1. RequestOK(w) /\ w.type \in EscrowService
      BY <2>3, ByType DEF Land
    <3>2. JobOf[w.of] = j /\ onchain'[j] = Executed(w, onchain[j])
      BY <1>1, <2>3 DEF Land
    <3>3. w.type = "complete" /\ onchain'[j].cert = w.no
      BY <1>1, <1>5, <3>1, <3>2 DEF Executed, AccountOK, NoAccount, EscrowService
    <3>4. w.no \in 1 .. Len(certs) /\ certs[w.no] = w.of
      BY <3>1, <3>3 DEF RequestOK, IsCertOf
    <3> QED BY <1>5, <2>1, <3>3, <3>4
  <2>4. ASSUME NEW w \in work, Handle(w), ~ Land(w) PROVE UNCHANGED onchain
    BY <2>4 DEF Handle, FindHired, Insert, Generate, FindCompleted, LoadCompleted, Certify, Save,
         Preflight, ApplyResult
  <2>5. ASSUME NEW types, Crash(types) PROVE UNCHANGED onchain
    BY <2>5 DEF Crash
  <2>6. ASSUME NEW i \in Jobs, StrangerCreates(i) \/ StrangerCompletes(i)
        PROVE  ~ onchain'[j].cert > 0 \/ onchain'[j] = onchain[j]
    <3>1. CASE i = j
      BY <2>6, <3>1, StrangerOnly
    <3>2. CASE i # j
      BY <1>1, <2>6, <3>2, StrangerOnly
    <3> QED BY <3>1, <3>2
  <2> QED BY <1>2, <1>5, <2>2, <2>3, <2>4, <2>5, <2>6 DEF Next
<1> QED BY <1>3, <1>4, <1>5

(* A completion handler of a contract starts in FindCompleted, and goes on *)
(* in LoadCompleted and Certify; no other step makes one.                  *)
LEMMA NoNewHandling ==
  ASSUME Sound, Next, NEW p \in Proposals, NEW v \in work', Handling(v, p)
  PROVE  \/ v \in work
         \/ /\ \A u \in work' : u \in work \/ u = v
            /\ ~ AlreadyCompleted(p) /\ contract'[p].status = contract[p].status
            /\ v.pc = "load"
            /\ contract[p].status = "generating" => JobOf[p] \in early'
            /\ (\E u \in work : Handling(u, p)) => JobOf[p] \in twice'
         \/ \E w \in work :
              /\ Handling(w, p) /\ work' = (work \ {w}) \cup {v}
              /\ contract' = contract
              /\ v.pc = "save" => v.entity.cert = stored'[p]
<1> USE DEF Sound, Tables
<1>1. \A w \in work : DOMAIN w = Fields /\ DOMAIN w.entity = Columns
  BY DEF MessageOK
<1>2. ASSUME NEW w \in work, NEW u, Become(w, u), u.type # "completed" PROVE v \in work
  BY <1>2 DEF Become, Handling
<1>3. ASSUME NEW w \in work, Done(w) PROVE v \in work
  BY <1>3 DEF Done, Publish
<1>4. ASSUME NEW w \in work, NEW msgs, Publish(w, msgs), \A m \in msgs : m.pc = "start"
      PROVE  v \in work
  BY <1>4 DEF Publish, Handling
<1>5. ASSUME NEW w \in work, FindHired(w) \/ Insert(w) \/ Preflight(w) PROVE v \in work
  <2> DEFINE a == [w EXCEPT !.pc = "insert"]
             b == [w EXCEPT !.pc = "land"]
             c == [w EXCEPT !.pc = "generate", !.target = w.of]
  <2>1. a.type = w.type /\ b.type = w.type /\ c.type = w.type
    BY <1>1 DEF Fields
  <2>2. Become(w, a) \/ Become(w, b) \/ Become(w, c) \/ Done(w)
    BY <1>5 DEF FindHired, Insert, Preflight
  <2>3. w.type # "completed"
    BY <1>5 DEF FindHired, Insert, Preflight, Starts, EscrowService
  <2> QED BY <1>2, <1>3, <2>1, <2>2, <2>3
<1>6. ASSUME NEW w \in work, Generate(w) PROVE v \in work
  <2> DEFINE a == [w EXCEPT !.pc = "save", !.carries = {"status", "pdf"},
                     !.entity.status = "generated", !.entity.pdf = TRUE]
             b == [w EXCEPT !.pc = "save", !.carries = {"status"}, !.entity.status = "failed"]
  <2>1. a.type = w.type /\ b.type = w.type
    BY <1>1 DEF Fields
  <2>2. Become(w, a) \/ Become(w, b)
    BY <1>6 DEF Generate
  <2>3. w.type # "completed"
    BY <1>6 DEF Generate
  <2> QED BY <1>2, <2>1, <2>2, <2>3
<1>7. ASSUME NEW w \in work, Save(w) PROVE v \in work
  <2>1. \A m \in Requests(w) : m.pc = "start"
    BY DEF Requests, Message
  <2> QED BY <1>3, <1>4, <1>7, <2>1 DEF Save
<1>8. ASSUME NEW w \in work, Land(w) PROVE v \in work
  <2>1. Result(w).pc = "start"
    BY DEF Result, Message
  <2> QED BY <1>3, <1>4, <1>8, <2>1 DEF Land
<1>9. ASSUME NEW w \in work, ApplyResult(w) PROVE v \in work
  BY <1>3, <1>9 DEF ApplyResult
<1>10. ASSUME NEW types, Crash(types) PROVE v \in work
  BY <1>10 DEF Crash, Message, Handling
<1>11. ASSUME NEW w \in work, FindCompleted(w), v \notin work
       PROVE  /\ \A u \in work' : u \in work \/ u = v
              /\ ~ AlreadyCompleted(p) /\ contract'[p].status = contract[p].status
              /\ v.pc = "load"
              /\ contract[p].status = "generating" => JobOf[p] \in early'
              /\ (\E u \in work : Handling(u, p)) => JobOf[p] \in twice'
  <2>1. PICK q \in Proposals :
          /\ JobOf[q] = w.of /\ ~ AlreadyCompleted(q)
          /\ Become(w, [w EXCEPT !.pc = "load", !.target = q])
          /\ early' = IF contract[q].status = "generating" THEN early \cup {w.of} ELSE early
          /\ twice' = IF \E u \in work : u.type = "completed" /\ u.target = q
                      THEN twice \cup {w.of} ELSE twice
    BY <1>3, <1>11 DEF FindCompleted
  <2>2. v = [w EXCEPT !.pc = "load", !.target = q]
    BY <1>11, <2>1 DEF Become
  <2>3. v.pc = "load" /\ v.target = q
    BY <1>1, <2>2 DEF Fields
  <2>4. q = p
    BY <2>3 DEF Handling
  <2>5. \A u \in work' : u \in work \/ u = v
    BY <2>1, <2>2 DEF Become
  <2>6. contract'[p].status = contract[p].status
    BY <1>11 DEF FindCompleted, tables
  <2>7. (\E u \in work : Handling(u, p)) => JobOf[p] \in twice'
    BY <2>1, <2>4 DEF Handling
  <2> QED BY <2>1, <2>3, <2>4, <2>5, <2>6, <2>7
<1>12. ASSUME NEW w \in work, LoadCompleted(w), v \notin work
       PROVE  /\ Handling(w, p) /\ work' = (work \ {w}) \cup {v}
              /\ contract' = contract
              /\ v.pc = "save" => v.entity.cert = stored'[p]
  <2>0. PICK u : u = [w EXCEPT !.pc = "certify", !.entity = contract[w.target], !.carries = Columns]
    OBVIOUS
  <2>1. u.pc = "certify" /\ u.target = w.target
    BY <1>1, <2>0 DEF Fields
  <2>2. Become(w, u)
    BY <1>12, <2>0 DEF LoadCompleted
  <2>3. v = u
    BY <1>12, <2>2 DEF Become
  <2> QED BY <1>12, <2>1, <2>2, <2>3 DEF LoadCompleted, Become, Handling, tables
<1>13. ASSUME NEW w \in work, Certify(w), v \notin work
       PROVE  /\ Handling(w, p) /\ work' = (work \ {w}) \cup {v}
              /\ contract' = contract
              /\ v.pc = "save" => v.entity.cert = stored'[p]
  <2>0. PICK n, u : n = Len(certs') /\ u = [w EXCEPT !.pc = "save",
                        !.entity.status = "completed", !.entity.cert = n]
    OBVIOUS
  <2>1. u.target = w.target /\ u.entity.cert = n
    BY <1>1, <2>0, ColumnsAre DEF Fields
  <2>2. Become(w, u) /\ stored' = [stored EXCEPT ![w.target] = n]
    BY <1>3, <1>13, <2>0 DEF Certify
  <2>3. v = u
    BY <1>13, <2>2 DEF Become
  <2>4. w.target = p
    BY <2>1, <2>3 DEF Handling
  <2> QED BY <1>13, <2>1, <2>2, <2>3, <2>4 DEF Certify, Become, Handling
<1>14. ASSUME NEW j \in Jobs, StrangerCreates(j) \/ StrangerCompletes(j)
       PROVE  v \in work
  BY <1>14, StrangerOnly
<1> QED
  BY <1>5, <1>6, <1>7, <1>8, <1>9, <1>10, <1>11, <1>12, <1>13, <1>14 DEF Next, Handle

(* A handler that saves or certifies has done so for good.                 *)
LEMMA SaveLeaves ==
  ASSUME Sound, NEW w \in work, Save(w)
  PROVE  \A v \in work' : v.pc # "start" => v \in work /\ v # w
<1>1. \A m \in Requests(w) : m.pc = "start"
  BY DEF Requests, Message
<1> QED BY <1>1 DEF Save, Publish, Done

(* early and twice only grow. *)
LEMMA HistoryGrows ==
  ASSUME Next
  PROVE  early \subseteq early' /\ twice \subseteq twice'
<1>1. ASSUME NEW w \in work, FindCompleted(w) PROVE early \subseteq early' /\ twice \subseteq twice'
  BY <1>1 DEF FindCompleted
<1>2. ASSUME NEW w \in work, Handle(w), ~ FindCompleted(w) PROVE UNCHANGED <<early, twice>>
  BY <1>2 DEF Handle, FindHired, Insert, Generate, LoadCompleted, Certify, Save, Preflight, Land,
       ApplyResult, history
<1>3. ASSUME NEW types, Crash(types) PROVE UNCHANGED <<early, twice>>
  BY <1>3 DEF Crash, history
<1>4. ASSUME NEW j \in Jobs, StrangerCreates(j) \/ StrangerCompletes(j)
      PROVE  UNCHANGED <<early, twice>>
  BY <1>4 DEF StrangerCreates, StrangerCompletes, history
<1> QED BY <1>1, <1>2, <1>3, <1>4 DEF Next

-----------------------------------------------------------------------------
(* The remaining parts of the invariant. *)

(* While a contract is generated and no completion has overtaken it, the   *)
(* row is generating and no completion of it is at work.                   *)
LEMMA UndisturbedStep ==
  ASSUME Sound, Next, NEW p \in Proposals, Undisturbed(p)
  PROVE  Undisturbed(p)'
<1> SUFFICES ASSUME JobOf[p] \notin early', NEW v \in work', Generating(v, p)
             PROVE  contract'[p].status = "generating" /\ \A u \in work' : ~ Handling(u, p)
  BY DEF Undisturbed, Generating, Handling
<1>1. JobOf[p] \notin early
  BY HistoryGrows
<1>2. \A u \in work : Generating(u, p) =>
        contract[p].status = "generating" /\ \A t \in work : ~ Handling(t, p)
  BY <1>1 DEF Undisturbed
<1>3. HireOK(p) /\ \A w \in work : MessageOK(w)
  BY DEF Sound
<1>4. ASSUME NEW w \in work, Insert(w), w.of = p PROVE contract'[p].status = "generating" /\ \A u \in work' : ~ Handling(u, p)
  <2>1. CASE Free(p)
    <3>1. \A u \in work : ~ Handling(u, p)
      BY <1>3, <2>1, ByType DEF Free, Handling, CompletionOK
    <3>2. contract'[p].status = "generating"
      BY <1>4, <2>1, ColumnsAre DEF Insert, Sound, Tables
    <3>3. [w EXCEPT !.pc = "generate", !.target = w.of].type = "hired"
      BY <1>3, <1>4 DEF Insert, MessageOK, Fields
    <3>4. \A u \in work' : Handling(u, p) => u \in work
      BY <1>4, <2>1, <3>3 DEF Insert, Become, Handling
    <3> QED BY <3>1, <3>2, <3>4
  <2>2. CASE ~ Free(p)
    <3>1. work' \subseteq work /\ UNCHANGED contract
      BY <1>4, <2>2 DEF Insert, Done, Publish
    <3> QED BY <1>2, <3>1
  <2> QED BY <2>1, <2>2
<1>5. ASSUME NEW w \in work, Generate(w), w.of = p PROVE contract'[p].status = "generating" /\ \A u \in work' : ~ Handling(u, p)
  <2>1. Generating(w, p) /\ UNCHANGED <<contract, early, twice>>
    BY <1>5 DEF Generate, Generating, tables
  <2>2. \A u \in work' : Handling(u, p) => u \in work
    <3> DEFINE a == [w EXCEPT !.pc = "save", !.carries = {"status", "pdf"},
                       !.entity.status = "generated", !.entity.pdf = TRUE]
               b == [w EXCEPT !.pc = "save", !.carries = {"status"}, !.entity.status = "failed"]
    <3>1. a.type = "hired" /\ b.type = "hired"
      BY <1>3, <1>5 DEF Generate, MessageOK, Fields
    <3>2. Become(w, a) \/ Become(w, b)
      BY <1>5 DEF Generate
    <3> HIDE DEF a, b
    <3> QED BY <3>1, <3>2 DEF Become, Handling
  <2> QED BY <1>2, <2>1, <2>2
<1>6. CASE v \in work
  <2>1. contract[p].status = "generating" /\ \A u \in work : ~ Handling(u, p)
    BY <1>2, <1>6
  <2>2. \A u \in work' : ~ Handling(u, p)
    BY <2>1, NoNewHandling
  <2>3. ASSUME NEW w \in work, Save(w), w.target = p PROVE FALSE
    <3>1. w.type = "hired" => w.of = p
      BY <1>3, <2>3, ByType DEF Save, HiredOK
    <3>2. w.type \in {"hired", "completed"} /\ w.pc = "save"
      BY <1>3, <2>3, ByType DEF Save
    <3>3. Generating(w, p)
      BY <2>1, <2>3, <3>1, <3>2 DEF Handling, Generating
    <3>4. w = v
      BY <1>3, <1>6, <3>3 DEF HireOK
    <3> QED BY <2>3, <3>4, SaveLeaves DEF Generating
  <2>4. contract'[p].status = "generating"
    BY <2>1, <2>3, RowChanges
  <2> QED BY <2>2, <2>4
<1> QED BY <1>4, <1>5, <1>6, NoNewGenerating

(* A hire keeps its message until it has a row, and a generating row its   *)
(* handler until the service stops.                                        *)
LEMMA FollowedStep ==
  ASSUME Sound, Next, NEW p \in Proposals, Followed(p)
  PROVE  Followed(p)'
<1> USE DEF Sound, Tables
<1>1. contract[p] # NoRow => contract'[p] # NoRow
  BY OnlyGrows DEF Grows
<1>2. \A w \in work : DOMAIN w = Fields /\ DOMAIN w.entity = Columns
  BY DEF MessageOK
<1>3. ASSUME NEW v \in work, v.type = "hired", v.of = p
      PROVE  contract'[p] # NoRow \/ \E u \in work' : u.type = "hired" /\ u.of = p
  <2>1. CASE contract[p] # NoRow
    BY <1>1, <2>1
  <2>2. CASE v \in work'
    BY <1>3, <2>2
  <2>3. ASSUME Handle(v), contract[p] = NoRow
        PROVE  contract'[p] # NoRow \/ \E u \in work' : u.type = "hired" /\ u.of = p
    <3>1. v.pc \notin {"generate", "save"}
      BY <1>3, <2>3 DEF HireOK, Generating
    <3>2. v.pc # "land"
      BY <1>3, ByType DEF EscrowService
    <3>3. FindHired(v) \/ Insert(v)
      BY <1>3, <2>3, <3>1, <3>2
         DEF Handle, Generate, FindCompleted, LoadCompleted, Certify, Save, Preflight, Land,
             ApplyResult, Starts, EscrowService
    <3>4. CASE FindHired(v)
      <4>1. LET u == [v EXCEPT !.pc = "insert"] IN u.type = "hired" /\ u.of = p /\ u \in work'
        BY <1>2, <1>3, <2>3, <3>4 DEF FindHired, Become, Fields
      <4> QED BY <4>1
    <3>5. CASE Insert(v)
      BY <1>3, <2>3, <3>5, ColumnsAre DEF Insert, Free
    <3> QED BY <3>3, <3>4, <3>5
  <2>4. ASSUME NEW w \in work, Handle(w), w # v PROVE v \in work'
    BY <2>4 DEF Handle, FindHired, Insert, Generate, FindCompleted, LoadCompleted, Certify, Save,
         Preflight, Land, ApplyResult, Become, Publish, Done
  <2>5. ASSUME NEW types, Crash(types) PROVE \E u \in work' : u.type = "hired" /\ u.of = p
    <3>1. CASE "hired" \in types
      <4>1. Message(v.type, v.of, v.no) \in work'
        BY <1>3, <2>5, <3>1 DEF Crash
      <4>2. LET u == Message(v.type, v.of, v.no) IN u.type = "hired" /\ u.of = p
        BY <1>3 DEF Message
      <4> QED BY <4>1, <4>2
    <3>2. CASE "hired" \notin types
      BY <1>3, <2>5, <3>2 DEF Crash
    <3> QED BY <3>1, <3>2
  <2>6. ASSUME NEW j \in Jobs, StrangerCreates(j) \/ StrangerCompletes(j)
        PROVE  v \in work'
    BY <1>3, <2>6, StrangerOnly
  <2> QED BY <2>1, <2>2, <2>3, <2>4, <2>5, <2>6 DEF Next
<1>4. ASSUME NEW types, Crash(types) PROVE crashes' > 0
  BY <1>4 DEF Crash
<1>5. crashes > 0 => crashes' > 0
  <2>1. ASSUME NEW w \in work, Handle(w) PROVE UNCHANGED crashes
    BY <2>1 DEF Handle, FindHired, Insert, Generate, FindCompleted, LoadCompleted, Certify, Save,
         Preflight, Land, ApplyResult
  <2>2. ASSUME NEW j \in Jobs, StrangerCreates(j) \/ StrangerCompletes(j)
        PROVE  UNCHANGED crashes
    BY <2>2, StrangerOnly
  <2> QED BY <1>4, <2>1, <2>2 DEF Next
<1>6. ASSUME NEW w \in work, Insert(w), w.of = p, contract[p] = NoRow
      PROVE  \E u \in work' : Generating(u, p)
  <2>1. LET u == [w EXCEPT !.pc = "generate", !.target = w.of] IN Generating(u, p) /\ u \in work'
    BY <1>2, <1>6 DEF Insert, Become, Free, Generating, Fields
  <2> QED BY <2>1
<1>7. ASSUME NEW v \in work, Generating(v, p), contract'[p].status = "generating"
      PROVE  crashes' > 0 \/ \E u \in work' : Generating(u, p)
  <2>1. ASSUME Handle(v) PROVE \E u \in work' : Generating(u, p)
    <3>1. Generate(v) \/ Save(v)
      BY <1>7, <2>1 DEF Generating, Handle, FindHired, Insert, FindCompleted, LoadCompleted, Certify,
           Preflight, Land, ApplyResult, Starts, EscrowService
    <3>2. CASE Generate(v)
      <4> DEFINE a == [v EXCEPT !.pc = "save", !.carries = {"status", "pdf"},
                         !.entity.status = "generated", !.entity.pdf = TRUE]
                 b == [v EXCEPT !.pc = "save", !.carries = {"status"}, !.entity.status = "failed"]
      <4>1. Generating(a, p) /\ Generating(b, p)
        BY <1>2, <1>7 DEF Generating, Fields
      <4>2. Become(v, a) \/ Become(v, b)
        BY <3>2 DEF Generate
      <4> HIDE DEF a, b
      <4> QED BY <4>1, <4>2 DEF Become
    <3>3. CASE Save(v)
      <4>1. v.target = p /\ v.type = "hired" /\ MessageOK(v) /\ v.pc = "save"
        BY <1>7, <3>3, ByType DEF Generating, Save, HiredOK
      <4>2. contract'[p] = Saved(v, contract[p]) /\ DOMAIN contract[p] = Columns
        BY <3>3, <4>1 DEF Save, RowOK
      <4>3. contract'[p].status # "generating"
        BY <4>1, <4>2, SavedRow
      <4> QED BY <1>7, <4>3
    <3> QED BY <3>1, <3>2, <3>3
  <2>2. ASSUME NEW w \in work, Handle(w), w # v PROVE v \in work'
    BY <2>2 DEF Handle, FindHired, Insert, Generate, FindCompleted, LoadCompleted, Certify, Save,
         Preflight, Land, ApplyResult, Become, Publish, Done
  <2>3. ASSUME NEW j \in Jobs, StrangerCreates(j) \/ StrangerCompletes(j)
        PROVE  v \in work'
    BY <1>7, <2>3, StrangerOnly
  <2> QED BY <1>4, <1>7, <2>1, <2>2, <2>3 DEF Next
<1>8. Hires[p] > 0 => contract'[p] # NoRow \/ \E u \in work' : u.type = "hired" /\ u.of = p
  BY <1>1, <1>3 DEF Followed
<1>9. ASSUME contract'[p].status = "generating"
      PROVE  crashes' > 0 \/ \E u \in work' : Generating(u, p)
  <2>1. CASE contract[p].status = "generating"
    BY <1>5, <1>7, <1>9, <2>1 DEF Followed
  <2>2. CASE contract[p].status # "generating"
    BY <1>6, <1>9, <2>2, RowChanges
  <2> QED BY <2>1, <2>2
<1> QED BY <1>8, <1>9 DEF Followed, Generating

(* Of an orderly completion: one handler at a time, no certificate out     *)
(* before the row is saved, and the row's own certificate after that.      *)
LEMMA AgreesStep ==
  ASSUME Sound, Next, NEW p \in Proposals, Undisturbed(p), Agrees(p)
  PROVE  Agrees(p)'
<1> SUFFICES ASSUME JobOf[p] \notin early', JobOf[p] \notin twice'
             PROVE  /\ \A v, w \in work' : Handling(v, p) /\ Handling(w, p) => v = w
                    /\ \A v \in work' : Handling(v, p) =>
                         /\ contract'[p].status # "completed"
                         /\ v.pc = "save" => v.entity.cert = stored'[p]
                    /\ contract'[p].status # "completed" =>
                         contract'[p].cert = 0 /\ \A c : ~Certified(p, c)'
                    /\ contract'[p].status = "completed" =>
                         /\ contract'[p].cert = stored'[p]
                         /\ \A c : Certified(p, c)' => c = contract'[p].cert
  BY DEF Agrees, Handling
<1>1. JobOf[p] \notin early /\ JobOf[p] \notin twice
  BY HistoryGrows
<1>2. \A v, w \in work : Handling(v, p) /\ Handling(w, p) => v = w
  BY <1>1 DEF Agrees
<1>3. \A v \in work : Handling(v, p) =>
        contract[p].status # "completed" /\ (v.pc = "save" => v.entity.cert = stored[p])
  BY <1>1 DEF Agrees
<1>4. contract[p].status # "completed" => contract[p].cert = 0 /\ \A c : ~Certified(p, c)
  BY <1>1 DEF Agrees
<1>5. contract[p].status = "completed" =>
        contract[p].cert = stored[p] /\ \A c : Certified(p, c) => c = contract[p].cert
  BY <1>1 DEF Agrees
<1>6. \A w \in work : Generating(w, p) => contract[p].status = "generating"
  BY <1>1 DEF Undisturbed
<1>7. \A w \in work : MessageOK(w)
  BY DEF Sound
<1>8. ASSUME NEW w \in work, Save(w), w.type = "completed", w.target = p PROVE Handling(w, p)
  BY <1>8 DEF Save, Handling
<1>9. ASSUME NEW w \in work, Save(w), w.type = "hired", w.target = p PROVE Generating(w, p)
  BY <1>7, <1>9, ByType DEF Save, Generating, HiredOK
<1>10. ASSUME NEW w \in work, Certify(w), w.target = p PROVE Handling(w, p)
  BY <1>10 DEF Certify, Handling
<1>11. ASSUME NEW v \in work', NEW w \in work', Handling(v, p), Handling(w, p) PROVE v = w
  <2>1. CASE v \in work /\ w \in work
    BY <1>2, <1>11, <2>1
  <2>2. ASSUME NEW s \in work', NEW t \in work', Handling(s, p), Handling(t, p), s \notin work
        PROVE  s = t
    <3>1. \/ t = s
          \/ t \in work /\ JobOf[p] \in twice'
          \/ \E u \in work : Handling(u, p) /\ work' = (work \ {u}) \cup {s}
      BY <2>2, NoNewHandling
    <3>2. ASSUME NEW u \in work, Handling(u, p), work' = (work \ {u}) \cup {s} PROVE s = t
      BY <1>2, <2>2, <3>2
    <3> QED BY <3>1, <3>2
  <2> QED BY <1>11, <2>1, <2>2
<1>12. ASSUME NEW w \in work, Save(w), w.type = "completed", w.target = p
       PROVE  \A v \in work' : ~ Handling(v, p)
  <2> SUFFICES ASSUME NEW v \in work', Handling(v, p) PROVE FALSE
    OBVIOUS
  <2>1. v \in work /\ v # w
    BY <1>12, SaveLeaves DEF Handling
  <2> QED BY <1>2, <1>8, <1>12, <2>1
<1>13. ASSUME NEW v \in work', Handling(v, p)
       PROVE  /\ contract'[p].status # "completed"
              /\ v.pc = "save" => v.entity.cert = stored'[p]
  <2>1. CASE v \in work
    <3>1. contract[p].status # "completed" /\ (v.pc = "save" => v.entity.cert = stored[p])
      BY <1>3, <1>13, <2>1
    <3>2. contract'[p].status # "completed"
      BY <1>12, <1>13, <3>1, RowChanges
    <3>3. ASSUME NEW w \in work, Certify(w), w.target = p, v.pc = "save" PROVE FALSE
      <4>1. v = w
        BY <1>2, <1>10, <1>13, <2>1, <3>3
      <4> QED BY <3>3, <4>1 DEF Certify
    <3> QED BY <3>1, <3>2, <3>3, StoredStep
  <2>2. CASE v \notin work
    <3>1. CASE ~ AlreadyCompleted(p) /\ contract'[p].status = contract[p].status /\ v.pc = "load"
      BY <3>1 DEF AlreadyCompleted
    <3>2. ASSUME NEW w \in work, Handling(w, p), contract' = contract,
                 v.pc = "save" => v.entity.cert = stored'[p]
          PROVE  /\ contract'[p].status # "completed"
                 /\ v.pc = "save" => v.entity.cert = stored'[p]
      BY <1>3, <3>2
    <3> QED BY <1>13, <2>2, <3>1, <3>2, NoNewHandling
  <2> QED BY <2>1, <2>2
<1>14. ASSUME contract'[p].status # "completed"
       PROVE  contract'[p].cert = 0 /\ \A c : ~Certified(p, c)'
  <2>1. contract[p].status # "completed"
    BY <1>6, <1>9, <1>14, RowChanges, ColumnsAre
  <2>2. contract[p].cert = 0 /\ \A c : ~Certified(p, c)
    BY <1>4, <2>1
  <2>3. contract'[p].cert = 0
    BY <1>14, <2>2, RowChanges
  <2>4. ASSUME NEW w \in work, Save(w), w.type = "completed", w.target = p PROVE FALSE
    <3>1. contract'[p] = Saved(w, contract[p]) /\ w.pc = "save" /\ DOMAIN contract[p] = Columns
      BY <2>4 DEF Save, Sound, Tables, RowOK
    <3>2. w.entity.status = "completed"
      BY <1>7, <2>4, <3>1, ByType DEF CompletionOK
    <3>3. Saved(w, contract[p]).status = w.entity.status
      BY <1>7, <3>1, SavedRow
    <3> QED BY <1>14, <3>1, <3>2, <3>3
  <2> QED BY <2>2, <2>3, <2>4, CertifiedStep
<1>15. ASSUME contract'[p].status = "completed"
       PROVE  /\ contract'[p].cert = stored'[p]
              /\ \A c : Certified(p, c)' => c = contract'[p].cert
  <2>1. CASE contract[p].status = "completed"
    <3>1. \A w \in work : ~ Handling(w, p) /\ ~ Generating(w, p)
      BY <1>3, <1>6, <2>1
    <3>2. stored'[p] = stored[p] /\ contract'[p].cert = contract[p].cert
      BY <1>8, <1>10, <1>15, <2>1, <3>1, RowChanges, StoredStep
    <3>3. \A c : Certified(p, c)' => Certified(p, c)
      BY <1>8, <3>1, CertifiedStep
    <3> QED BY <1>5, <2>1, <3>2, <3>3
  <2>2. CASE contract[p].status # "completed"
    <3>1. PICK w \in work :
            /\ Save(w) /\ w.target = p /\ w.type = "completed"
            /\ contract'[p].cert = w.entity.cert
      BY <1>15, <2>2, RowChanges
    <3>2. w.entity.cert = stored[p] /\ stored'[p] = stored[p]
      BY <1>3, <1>8, <3>1 DEF Save
    <3>3. \A v \in work : Save(v) /\ v.type = "completed" /\ v.target = p => v = w
      BY <1>2, <1>8, <3>1
    <3>4. \A c : Certified(p, c)' => c = w.entity.cert
      BY <1>4, <2>2, <3>3, CertifiedStep
    <3> QED BY <3>1, <3>2, <3>4
  <2> QED BY <2>1, <2>2
<1> QED BY <1>11, <1>13, <1>14, <1>15

LEMMA InvInit == Init => Inv
<1> SUFFICES ASSUME Init PROVE Inv
  OBVIOUS
<1>1. Sound
  BY SoundInit
<1> SUFFICES ASSUME NEW p \in Proposals PROVE Followed(p) /\ Undisturbed(p) /\ Agrees(p)
  BY <1>1 DEF Inv
<1>2. \A v \in work : v.pc = "start" /\ v.type \in {"hired", "completed"}
  <2> SUFFICES ASSUME NEW v \in work PROVE v.pc = "start" /\ v.type \in {"hired", "completed"}
    OBVIOUS
  <2>1. CASE v \in UNION {{Message("hired", q, n) : n \in 1 .. Hires[q]} : q \in Proposals}
    BY <2>1 DEF Message
  <2>2. CASE v \in UNION {{Message("completed", j, n) : n \in 1 .. 2 * Releases[j]} : j \in Jobs}
    BY <2>2 DEF Message
  <2> QED BY <2>1, <2>2 DEF Init, Published
<1>3. contract[p] = NoRow /\ stored[p] = 0 /\ JobOf[p] \in Jobs /\ onchain[JobOf[p]] = NoAccount
  BY ContractsAssumption DEF Init
<1>4. Followed(p)
  <2>1. ASSUME Hires[p] > 0 PROVE \E v \in work : v.type = "hired" /\ v.of = p
    <3>1. Hires[p] \in Nat /\ 1 \in 1 .. Hires[p]
      BY <2>1, ContractsAssumption
    <3>2. Message("hired", p, 1) \in work
      BY <3>1 DEF Init, Published
    <3>3. LET u == Message("hired", p, 1) IN u.type = "hired" /\ u.of = p
      BY DEF Message
    <3> QED BY <3>2, <3>3
  <2> QED BY <1>3, <2>1, ColumnsAre DEF Followed
<1>5. Undisturbed(p)
  BY <1>2 DEF Undisturbed, Generating
<1>6. \A c : ~ Certified(p, c)
  BY <1>2, <1>3 DEF Certified, NoAccount
<1>7. Agrees(p)
  BY <1>2, <1>3, <1>6, ColumnsAre DEF Agrees, Handling
<1> QED BY <1>4, <1>5, <1>7

LEMMA InvStep == Inv /\ [Next]_vars => Inv'
<1> SUFFICES ASSUME Inv, [Next]_vars PROVE Inv'
  OBVIOUS
<1>1. Sound'
  BY SoundStep DEF Inv
<1>2. CASE Next
  <2>1. ASSUME NEW p \in Proposals PROVE Followed(p)' /\ Undisturbed(p)' /\ Agrees(p)'
    BY <1>2, FollowedStep, UndisturbedStep, AgreesStep DEF Inv
  <2> QED BY <1>1, <2>1 DEF Inv
<1>3. CASE UNCHANGED vars
  <2>1. ASSUME NEW p \in Proposals PROVE Followed(p)' /\ Undisturbed(p)' /\ Agrees(p)'
    <3>1. Followed(p) /\ Undisturbed(p) /\ Agrees(p)
      BY DEF Inv
    <3>2. Followed(p)' /\ Undisturbed(p)'
      BY <1>3, <3>1 DEF vars, tables, history, Followed, Undisturbed, Generating, Handling
    <3>3. \A c : Certified(p, c)' <=> Certified(p, c)
      BY <1>3 DEF vars, tables, Certified
    <3>4. Agrees(p)'
      BY <1>3, <3>1, <3>3 DEF vars, tables, history, Agrees, Handling
    <3> QED BY <3>2, <3>4
  <2> QED BY <1>1, <2>1 DEF Inv
<1> QED BY <1>2, <1>3

LEMMA InvAlways == Spec => []Inv
BY InvInit, InvStep, PTL DEF Spec

-----------------------------------------------------------------------------
(* Properties that need the rest of the invariant. *)

(* A hire whose messages are all handled has its contract, generated or    *)
(* marked as failed; only a stop of the job service leaves one generating. *)
THEOREM HireFollowedUp == Spec => []HireGetsContract
<1>1. Inv => HireGetsContract
  BY DEF Inv, Followed, HireGetsContract
<1> QED BY <1>1, InvAlways, PTL

(* Unless completions overlapped or overtook the generation, the row, S3   *)
(* and the chain speak of the same certificate, at every step.             *)
THEOREM OneCertificate == Spec => []CertificateAgrees
<1>1. Inv => CertificateAgrees
  <2> SUFFICES ASSUME Inv, NEW p \in Proposals, JobOf[p] \notin early \cup twice,
                      contract[p].cert > 0
               PROVE  /\ contract[p].cert = stored[p]
                      /\ LET c == onchain[JobOf[p]].cert
                         IN c > 0 /\ certs[c] = p => c = contract[p].cert
    BY DEF CertificateAgrees
  <2>1. Agrees(p)
    BY DEF Inv
  <2>2. contract[p].status = "completed"
    BY <2>1 DEF Agrees
  <2> QED BY <2>1, <2>2 DEF Agrees, Certified
<1> QED BY <1>1, InvAlways, PTL

(* The save of a generation puts a completed contract back only if the     *)
(* completion had begun before the generation was saved.                   *)
THEOREM CompletedForGood == Spec => CompletedIsFinal
<1>1. ASSUME Inv, Next, NEW p \in Proposals, JobOf[p] \notin early,
             contract[p].status = "completed"
      PROVE  contract'[p].status = "completed"
  <2>1. Sound /\ Undisturbed(p)
    BY <1>1 DEF Inv
  <2>2. \A w \in work : ~ Generating(w, p)
    BY <1>1, <2>1 DEF Undisturbed
  <2>3. ASSUME NEW w \in work, Save(w), w.type = "hired", w.target = p PROVE Generating(w, p)
    BY <2>1, <2>3, ByType DEF Sound, Save, Generating, HiredOK
  <2> QED BY <1>1, <2>1, <2>2, <2>3, RowChanges, ColumnsAre
<1>2. Inv /\ [Next]_vars =>
        [\A p \in Proposals : JobOf[p] \notin early /\ contract[p].status = "completed"
           => contract'[p].status = "completed"]_vars
  BY <1>1
<1> QED BY <1>2, InvAlways, PTL DEF Spec, CompletedIsFinal
=============================================================================
