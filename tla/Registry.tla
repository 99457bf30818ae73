------------------------------ MODULE Registry ------------------------------
(***************************************************************************)
(* The small tables of the user and launchpad services, changed by         *)
(* requests over Messaging: each operation looks a row up, inserts or      *)
(* updates it, and leaves it to the table's unique index, if it has one,   *)
(* to refuse what a concurrent or repeated request did in between.  One    *)
(* key of one table is looked at: no operation reads another.              *)
(***************************************************************************)
EXTENDS Messaging

CONSTANTS
  Values,   \* roles, or contents of a profile
  Tables    \* the tables looked at

VARIABLES
  table,    \* the table of this key
  op,       \* what each request asks for
  rows,     \* how many rows the key has
  value,    \* what they hold
  work      \* the query each handler is at

data == <<rows, value>>
rvars == <<vars, table, op, data, work>>

None == "none"

(* follow and unfollow a wallet; a client's or freelancer's profile; the   *)
(* profile on the launchpad; the user behind a login.                      *)
Operations ==
  [follows |-> {"follow", "unfollow"}, profiles |-> {"create", "edit"},
   defi |-> {"upsert"}, users |-> {"me"}]

ASSUME TablesAssumption == Tables \subseteq DOMAIN Operations

(* Operations that are about the row's existence, not its contents. *)
Bare == {"follow", "unfollow"}

Idle == [r \in Requests |-> [n \in Runs |-> "start"]]

RInit ==
  /\ Init
  /\ table \in Tables
  /\ op \in [Requests -> [op : Operations[table], value : Values]]
  /\ \A r, s \in Requests : op[r].op \in Bare => op[r].value = op[s].value
  /\ \/ rows = 0 /\ value = None
     \/ rows = 1 /\ value \in Values
  /\ work = Idle

-----------------------------------------------------------------------------
(* Steps of a handler *)

Is(r, n, at) == run[r][n].pc = "body" /\ work[r][n] = at

Starts(r, n, o) == Is(r, n, "start") /\ op[r].op = o

GoTo(r, n, at) == work' = [work EXCEPT ![r][n] = at] /\ UNCHANGED vars

Answers(r, n, a) == Execute(r, n, a) /\ work' = [work EXCEPT ![r][n] = "start"]

Insert(v) == rows' = rows + 1 /\ value' = v
Update(v) == value' = v /\ UNCHANGED rows

(* The unique index, or the primary key, on the columns of the key. *)
Refused_NoIndex == FALSE
Refused == rows > 0

InsertOr(r, n, conflict) ==
  IF Refused THEN UNCHANGED data /\ Answers(r, n, conflict)
  ELSE Insert(op[r].value) /\ Answers(r, n, "ok")

(* FollowService: an insert whose conflict counts as success; a delete. *)
Follow(r, n) == Starts(r, n, "follow") /\ InsertOr(r, n, "ok")

Unfollow(r, n) ==
  /\ Starts(r, n, "unfollow")
  /\ rows' = 0 /\ value' = None
  /\ Answers(r, n, "ok")

(* DefiProfileService.upsert: one INSERT ... ON CONFLICT DO UPDATE. *)
OnConflict_DoNothing(v) == UNCHANGED data
OnConflict(v) == Update(v)

Upsert(r, n) ==
  /\ Starts(r, n, "upsert")
  /\ IF Refused THEN OnConflict(op[r].value) ELSE Insert(op[r].value)
  /\ Answers(r, n, "ok")

(* The profile services refuse to create what exists and to edit what does *)
(* not.                                                                    *)
Find(r, n) ==
  /\ UNCHANGED data
  /\ \/ /\ Starts(r, n, "create")
        /\ IF rows > 0 THEN Answers(r, n, "refused") ELSE GoTo(r, n, "insert")
     \/ /\ Starts(r, n, "edit")
        /\ IF rows = 0 THEN Answers(r, n, "refused") ELSE GoTo(r, n, "compare")

Save(r, n) == Is(r, n, "insert") /\ InsertOr(r, n, "refused")

(* save() of a row that exists updates it only if it differs by now. *)
Compare(r, n) ==
  /\ Is(r, n, "compare")
  /\ UNCHANGED data
  /\ IF value # op[r].value THEN GoTo(r, n, "update")
     ELSE IF op[r].op = "me" THEN GoTo(r, n, "privy")
     ELSE Answers(r, n, "ok")

Overwrite(r, n) ==
  /\ Is(r, n, "update")
  /\ Update(op[r].value)
  /\ IF op[r].op = "me" THEN GoTo(r, n, "privy") ELSE Answers(r, n, "ok")

(* GET /users/me gives the user the role asked for and creates the user if *)
(* need be, with what Privy knows; a user created in the meantime is       *)
(* returned as it is.  The answer carries the user's data at Privy.        *)
FindUser(r, n) ==
  /\ Starts(r, n, "me")
  /\ UNCHANGED data
  /\ GoTo(r, n, IF rows = 0 THEN "create" ELSE IF value = op[r].value THEN "privy" ELSE "compare")

FindAgain(r, n) ==
  /\ Is(r, n, "create")
  /\ UNCHANGED data
  /\ GoTo(r, n, IF rows = 0 THEN "fetch" ELSE "privy")

Fetch(r, n) ==
  /\ Is(r, n, "fetch")
  /\ UNCHANGED data
  /\ GoTo(r, n, "select") \/ Answers(r, n, "refused")

(* save() of an object with a key of its own looks for the row first. *)
Select(r, n) ==
  /\ Is(r, n, "select")
  /\ UNCHANGED data
  /\ GoTo(r, n, IF rows = 0 THEN "insert user" ELSE "compare")

InsertUser(r, n) ==
  /\ Is(r, n, "insert user")
  /\ IF Refused THEN UNCHANGED data /\ Answers(r, n, "refused")
     ELSE Insert(op[r].value) /\ GoTo(r, n, "privy")

Privy(r, n) ==
  /\ Is(r, n, "privy")
  /\ UNCHANGED data
  /\ \E a \in Answer : Answers(r, n, a)

Body(r, n) ==
  \/ Follow(r, n)
  \/ Unfollow(r, n)
  \/ Upsert(r, n)
  \/ Find(r, n)
  \/ Save(r, n)
  \/ Compare(r, n)
  \/ Overwrite(r, n)
  \/ FindUser(r, n)
  \/ FindAgain(r, n)
  \/ Fetch(r, n)
  \/ Select(r, n)
  \/ InsertUser(r, n)
  \/ Privy(r, n)

RNext ==
  /\ \/ \E r \in Requests, n \in Runs : Body(r, n)
     \/ /\ Transport
        /\ UNCHANGED data
        /\ work' = IF service' = "down" THEN Idle ELSE work
  /\ UNCHANGED <<table, op>>

RSpec == RInit /\ [][RNext]_rvars

-----------------------------------------------------------------------------
(* Properties *)

(* However requests overlap and handlers are run again, a key has one row, *)
(* and of those who ask to create it at most one request is granted.       *)
CreatedOnce ==
  /\ rows <= 1
  /\ \A r, s \in Requests :
       op[r].op = "create" /\ op[s].op = "create" /\ "ok" \in answers[r] \cap answers[s] => r = s

Effect(o) ==
  IF o.op = "unfollow" THEN {None} ELSE IF o.op \in Bare THEN Values ELSE {o.value}

(* Asking for the same thing again, after a time limit or not, is safe: if *)
(* nobody asked for anything else and one was told it is done, it is done, *)
(* whatever the repeated and the late ones still do.                       *)
RetryIsSafe ==
  \A r \in Requests :
    /\ call[r].told = "ok"
    /\ \A s \in Requests : call[s].pc # "new" => op[s] = op[r]
    => value \in Effect(op[r])
=============================================================================
