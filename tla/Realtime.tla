------------------------------ MODULE Realtime ------------------------------
(***************************************************************************)
(* What users see live: the conversation of a client and a freelancer with *)
(* its messages (chat service), their notifications (notification          *)
(* service), the unread counts both services push to the gateway, and the  *)
(* gateway's sockets.  Whatever is going on is an activity of several      *)
(* steps: a message being handled, or a socket's life.                     *)
(*                                                                         *)
(* A hire should open the conversation, and does not: the chat service     *)
(* wants a freelancerId that the event does not have.  Where there is a    *)
(* conversation, the tables had it before.                                 *)
(***************************************************************************)
EXTENDS Naturals, FiniteSets

CONSTANTS
  Client, Freelancer,
  Activities,
  Prefetch,   \* messages a service handles at a time
  MaxCrashes  \* bound: crashes of a service

Users == {Client, Freelancer}
Other(u) == CHOOSE v \in Users : v # u

VARIABLES
  conv,     \* is there a conversation?
  unread,   \* the messages and notifications with is_read = false
  badge,    \* the last count pushed to each user by each service
  doing,    \* the activities and how far they are
  registry, \* userSockets: pairs of a user and a socket
  crashes,
  late,     \* history: sockets gone before their token was verified
  blurred   \* history: users whose count an overlap may have spoilt

vars == <<conv, unread, badge, doing, registry, crashes, late, blurred>>
store == <<conv, unread>>
history == <<late, blurred>>

Services == {"chat", "notes"}
None == "none"

(* Operations by service; "socket" is a connection to the gateway. *)
Ops == [chat |-> {"hire", "send", "read"},
        notes |-> {"notify", "notify both", "read one", "read all"}]

NoLegs == [u \in Users |-> "none"]
Nothing == [service |-> None, op |-> None, user |-> None, pc |-> "idle", leg |-> NoLegs,
            count |-> [u \in Users |-> 0]]

Init ==
  /\ conv \in BOOLEAN
  /\ unread = {}
  /\ badge = [s \in Services |-> [u \in Users |-> 0]]
  /\ doing = [k \in Activities |-> Nothing]
  /\ registry = {} /\ crashes = 0 /\ late = {}
  /\ blurred = [s \in Services |-> {}]

-----------------------------------------------------------------------------

Under(s) == {k \in Activities : doing[k].service = s /\ doing[k].pc \notin {"idle", "ended"}}

(* Whose count an activity pushes. *)
Audience(s, op, u) ==
  CASE op = "send" -> {Other(u)}
    [] op \in {"read", "notify", "read one", "read all"} -> {u}
    [] op = "notify both" -> Users
    [] OTHER -> {}

Begin(k, s, op, u) ==
  /\ doing[k].pc = "idle"
  /\ s \in Services => Cardinality(Under(s)) < Prefetch
  /\ doing' = [doing EXCEPT ![k] =
       [Nothing EXCEPT !.service = s, !.op = op,
          !.user = IF op \in {"hire", "notify both"} THEN None ELSE u,
          !.pc = CASE op = "socket" -> "verify" [] op = "hire" -> "hired" [] OTHER -> "change",
          !.leg = [v \in Users |-> IF v \in Audience(s, op, u) THEN "change" ELSE "none"]]]
  /\ UNCHANGED <<store, badge, registry, crashes, history>>

(* Of what has ended no more than the operation is remembered. *)
Finished(k) == [Nothing EXCEPT !.pc = "ended", !.op = doing[k].op]

Goto(k, pc) ==
  doing' = [doing EXCEPT ![k] = IF pc = "ended" THEN Finished(k) ELSE [@ EXCEPT !.pc = pc]]

(* An insert is known by its activity and the delivery it is part of. *)
Item(k, u) == [by |-> k, attempt |-> crashes, service |-> doing[k].service, for |-> u]

UnreadOf(s, u) == {i \in unread : i.service = s /\ i.for = u}

-----------------------------------------------------------------------------
(* What handlers of PROPOSAL_HIRED read of the event, as far as it is      *)
(* published; handleHiredInit returns with a warning if one of the two it  *)
(* needs is missing, before anything is looked up.                         *)

HiredFields == {"proposalId", "applicantId", "jobId", "jobTitle", "clientId"}

Hired(k) ==
  /\ doing[k].pc = "hired"
  /\ ~ ({"clientId", "freelancerId"} \subseteq HiredFields)
  /\ Goto(k, "ended")
  /\ UNCHANGED <<store, badge, registry, crashes, history>>

-----------------------------------------------------------------------------
(* Messages, notifications and reading them: a change, a count of what is  *)
(* unread for its recipient, and the push of that count.                   *)

Leg(k, u, at) == doing[k].pc = "change" /\ doing[k].leg[u] = at

(* The change is made: the leg goes on, or the handler fails. *)
Step(k, u, at) ==
  doing' = [doing EXCEPT ![k] =
    IF at = "done" /\ \A v \in Users \ {u} : doing[k].leg[v] \in {"none", "done"}
    THEN Finished(k) ELSE [@ EXCEPT !.leg[u] = at]]

Add(k, u) ==
  /\ Leg(k, u, "change") /\ doing[k].op \in {"send", "notify", "notify both"}
  /\ IF doing[k].op = "send" /\ ~ conv
     THEN Goto(k, "ended") /\ UNCHANGED unread
     ELSE unread' = unread \cup {Item(k, u)} /\ Step(k, u, "count")
  /\ UNCHANGED <<conv, badge, registry, crashes, history>>

(* markRead of a conversation: every message that u did not send.          *)
Read(k, u) ==
  /\ Leg(k, u, "change") /\ doing[k].op \in {"read", "read one"}
  /\ IF doing[k].op = "read" /\ ~ conv
     THEN Goto(k, "ended") /\ UNCHANGED unread
     ELSE \E gone \in IF doing[k].op = "read" THEN {UnreadOf("chat", u)}
                      ELSE {{i} : i \in UnreadOf("notes", u)} \cup {{}} :
            unread' = unread \ gone /\ Step(k, u, "count")
  /\ UNCHANGED <<conv, badge, registry, crashes, history>>

(* Nobody else is between its change and its push. *)
Alone(k, s) == Under(s) = {k}

Counted(k, u) ==
  LET s == doing[k].service
  IN blurred' = [blurred EXCEPT ![s] = IF Alone(k, s) THEN @ \ {u} ELSE @ \cup {u}]

(* markAllRead pushes a zero nobody counted. *)
ReadAll(k, u) ==
  /\ Leg(k, u, "change") /\ doing[k].op = "read all"
  /\ unread' = unread \ UnreadOf("notes", u)
  /\ Step(k, u, "push")
  /\ Counted(k, u)
  /\ UNCHANGED <<conv, badge, registry, crashes, late>>

NumberFor_Sender(k, u) == Cardinality(UnreadOf(doing[k].service, Other(u)))
NumberFor(k, u) == Cardinality(UnreadOf(doing[k].service, u))

Count(k, u) ==
  /\ Leg(k, u, "count")
  /\ doing' = [doing EXCEPT ![k].leg[u] = "push", ![k].count[u] = NumberFor(k, u)]
  /\ Counted(k, u)
  /\ UNCHANGED <<store, badge, registry, crashes, late>>

Push(k, u) ==
  /\ Leg(k, u, "push")
  /\ badge' = [badge EXCEPT ![doing[k].service][u] = doing[k].count[u]]
  /\ Step(k, u, "done")
  /\ UNCHANGED <<store, registry, crashes, history>>

(* A service crashes: what it was handling is delivered again. *)
Crash(s) ==
  /\ crashes < MaxCrashes /\ Under(s) # {}
  /\ crashes' = crashes + 1
  /\ doing' = [k \in Activities |->
       IF k \notin Under(s) THEN doing[k]
       ELSE [doing[k] EXCEPT
               !.leg = [u \in Users |-> IF @[u] = "none" THEN "none" ELSE "change"],
               !.count = Nothing.count]]
  /\ UNCHANGED <<store, badge, registry, history>>

-----------------------------------------------------------------------------
(* A socket: its token is verified, then it joins the user's room and the  *)
(* registry; a disconnect finds the user id only once it was set.          *)

Socket(k, pc) == doing[k].op = "socket" /\ doing[k].pc = pc

Verified(k) ==
  /\ doing[k].op = "socket" /\ doing[k].pc \in {"verify", "hung up"}
  /\ \/ /\ registry' = registry \cup {<<doing[k].user, k>>}
        /\ Goto(k, IF doing[k].pc = "verify" THEN "live" ELSE "ended")
        /\ late' = IF doing[k].pc = "verify" THEN late ELSE late \cup {<<doing[k].user, k>>}
     \/ Goto(k, "ended") /\ UNCHANGED <<registry, late>>
  /\ UNCHANGED <<store, badge, crashes, blurred>>

Dropped_WholeUser(k) == {p \in registry : p[1] = doing[k].user}
Dropped(k) == {<<doing[k].user, k>>}

Disconnect(k) ==
  /\ \/ Socket(k, "verify") /\ Goto(k, "hung up") /\ UNCHANGED registry
     \/ Socket(k, "live") /\ Goto(k, "ended") /\ registry' = registry \ Dropped(k)
  /\ UNCHANGED <<store, badge, crashes, history>>

-----------------------------------------------------------------------------

Next ==
  \/ \E k \in Activities, s \in Services, u \in Users :
       \E op \in Ops[s] : Begin(k, s, op, u)
  \/ \E k \in Activities, u \in Users : Begin(k, "sockets", "socket", u)
  \/ \E k \in Activities :
       \/ Hired(k)
       \/ Verified(k)
       \/ Disconnect(k)
  \/ \E k \in Activities, u \in Users :
       \/ Add(k, u)
       \/ Read(k, u)
       \/ ReadAll(k, u)
       \/ Count(k, u)
       \/ Push(k, u)
  \/ \E s \in Services : Crash(s)

Spec == Init /\ [][Next]_vars

-----------------------------------------------------------------------------
(* Properties *)

(* A hire that was handled has left the two a conversation to talk in.     *)
HireOpensConversation ==
  \A k \in Activities : doing[k].op = "hire" /\ doing[k].pc = "ended" => conv

(* When a service is at rest, the count a user saw last is the number of   *)
(* unread items, unless handlers overlapped: however often a message was   *)
(* delivered, and whatever failed in between.                              *)
BadgeAgrees ==
  \A s \in Services : Under(s) = {} =>
    \A u \in Users \ blurred[s] : badge[s][u] = Cardinality(UnreadOf(s, u))

(* The registry holds the sockets that are live, each under its user, and  *)
(* besides them only those that hung up while their token was verified.    *)
RegistryHoldsTheLive ==
  registry = late \cup {<<doing[k].user, k>> : k \in {j \in Activities : Socket(j, "live")}}
=============================================================================
