---------------------------- MODULE RealtimeProofs ----------------------------
(***************************************************************************)
(* What the conversation and the sockets promise, for any number of things *)
(* going on at a time, any prefetch and any number of crashes.             *)
(***************************************************************************)
EXTENDS Realtime, FiniteSetTheorems, TLAPS

Shaped(d) == DOMAIN d = {"service", "op", "user", "pc", "leg", "count"}

AtHire == {"hired"}
AtSocket == {"verify", "hung up", "live"}

(* Each kind of activity has steps of its own.                             *)
Kind(d) ==
  \/ d.pc = "idle"
  \/ d.pc = "ended"
  \/ d.pc \in AtSocket /\ d.op = "socket" /\ d.service = "sockets"
  \/ d.pc \in AtHire /\ d.op = "hire"
  \/ d.pc = "change" /\ d.op \notin {"hire", "socket"}

Kinds ==
  /\ DOMAIN doing = Activities
  /\ \A k \in Activities : Shaped(doing[k]) /\ Kind(doing[k])

-----------------------------------------------------------------------------
(* How each step moves its activity *)

(* Nothing goes on at the start, ...                                       *)
LEMMA NothingRecord == Shaped(Nothing) /\ Nothing.pc = "idle"
  BY DEF Shaped, Nothing

(* ... and what has ended keeps its operation.                             *)
LEMMA FinishedRecord ==
  ASSUME NEW k \in Activities
  PROVE Shaped(Finished(k)) /\ Finished(k).pc = "ended" /\ Finished(k).op = doing[k].op
  BY NothingRecord DEF Finished, Shaped

(* One activity moves, the others stay.                                    *)
Moves(k) ==
  /\ DOMAIN doing' = Activities
  /\ Shaped(doing'[k])
  /\ \A j \in Activities : j # k => doing'[j] = doing[j]

Same(k) == doing'[k].op = doing[k].op /\ doing'[k].service = doing[k].service /\ doing'[k].user = doing[k].user

Ends(k) == doing'[k].pc = "ended" /\ doing'[k].op = doing[k].op

(* The activity is about to take another step.                             *)
LEMMA Going ==
  ASSUME Kinds, NEW k \in Activities, NEW p, Goto(k, p)
  PROVE /\ Moves(k)
        /\ p = "ended" => Ends(k)
        /\ p # "ended" => Same(k) /\ doing'[k].pc = p
<1>1. CASE p = "ended"
  <2>1. doing' = [doing EXCEPT ![k] = Finished(k)]
    BY <1>1 DEF Goto
  <2> QED
    BY <1>1, <2>1, FinishedRecord DEF Kinds, Moves, Ends
<1>2. CASE p # "ended"
  <2> DEFINE e == [doing[k] EXCEPT !.pc = p]
  <2>1. doing' = [doing EXCEPT ![k] = e]
    BY <1>2 DEF Goto
  <2>2. /\ Shaped(e) /\ e.pc = p
        /\ e.op = doing[k].op /\ e.service = doing[k].service /\ e.user = doing[k].user
    BY DEF Kinds, Shaped
  <2> HIDE DEF e
  <2> QED
    BY <1>2, <2>1, <2>2 DEF Kinds, Moves, Same
<1> QED
  BY <1>1, <1>2

(* A leg goes on, and the activity with it or to its end.                  *)
LEMMA Stepping ==
  ASSUME Kinds, NEW k \in Activities, NEW u \in Users, NEW at, Step(k, u, at)
  PROVE /\ Moves(k)
        /\ \/ Ends(k)
           \/ Same(k) /\ doing'[k].pc = doing[k].pc
<1>1. CASE doing' = [doing EXCEPT ![k] = Finished(k)]
  BY <1>1, FinishedRecord DEF Kinds, Moves, Ends
<1>2. CASE doing' = [doing EXCEPT ![k] = [doing[k] EXCEPT !.leg = [@ EXCEPT ![u] = at]]]
  <2> DEFINE l == [doing[k].leg EXCEPT ![u] = at]
             e == [doing[k] EXCEPT !.leg = l]
  <2>1. doing' = [doing EXCEPT ![k] = e]
    BY <1>2
  <2>2. /\ Shaped(e) /\ e.pc = doing[k].pc
        /\ e.op = doing[k].op /\ e.service = doing[k].service /\ e.user = doing[k].user
    BY DEF Kinds, Shaped
  <2> HIDE DEF e
  <2> QED
    BY <2>1, <2>2 DEF Kinds, Moves, Same
<1> QED
  BY <1>1, <1>2 DEF Step

(* An activity begins at the first step of its kind.                       *)
LEMMA Beginning ==
  ASSUME Kinds, NEW k \in Activities, NEW s, NEW op, NEW u \in Users, Begin(k, s, op, u),
         op = "socket" => s = "sockets"
  PROVE /\ Moves(k) /\ doing[k].pc = "idle"
        /\ doing'[k].pc = CASE op = "socket" -> "verify" [] op = "hire" -> "hired" [] OTHER -> "change"
        /\ doing'[k].op = op /\ doing'[k].service = s
<1> DEFINE p == CASE op = "socket" -> "verify" [] op = "hire" -> "hired" [] OTHER -> "change"
           l == [v \in Users |-> IF v \in Audience(s, op, u) THEN "change" ELSE "none"]
           who == IF op \in {"hire", "notify both"} THEN None ELSE u
           e == [Nothing EXCEPT !.service = s, !.op = op, !.user = who, !.pc = p, !.leg = l]
<1>1. doing' = [doing EXCEPT ![k] = e] /\ doing[k].pc = "idle"
  BY DEF Begin
<1> HIDE DEF p, l, who
<1>2. Shaped(e) /\ e.pc = p /\ e.op = op /\ e.service = s
  BY NothingRecord DEF Shaped
<1> HIDE DEF e
<1>3. Moves(k) /\ doing'[k] = e
  BY <1>1, <1>2 DEF Kinds, Moves
<1> QED
  BY <1>1, <1>2, <1>3 DEF p

(* Counting changes no step.                                               *)
LEMMA Counting ==
  ASSUME Kinds, NEW k \in Activities, NEW u \in Users, Count(k, u)
  PROVE Moves(k) /\ Same(k) /\ doing'[k].pc = doing[k].pc
<1> DEFINE l == [doing[k].leg EXCEPT ![u] = "push"]
           n == [doing[k].count EXCEPT ![u] = NumberFor(k, u)]
           e == [doing[k] EXCEPT !.leg = l, !.count = n]
<1>1. doing' = [doing EXCEPT ![k] = e]
  BY DEF Count
<1> HIDE DEF l, n
<1>2. /\ Shaped(e) /\ e.pc = doing[k].pc
      /\ e.op = doing[k].op /\ e.service = doing[k].service /\ e.user = doing[k].user
  BY DEF Kinds, Shaped
<1> HIDE DEF e
<1> QED
  BY <1>1, <1>2 DEF Kinds, Moves, Same

(* After a crash, what was being handled starts over.                      *)
LEMMA Crashing ==
  ASSUME Kinds, NEW s \in Services, Crash(s)
  PROVE /\ DOMAIN doing' = Activities
        /\ \A k \in Activities : k \notin Under(s) => doing'[k] = doing[k]
        /\ \A k \in Under(s) :
             Shaped(doing'[k]) /\ Same(k) /\ doing'[k].pc = doing[k].pc
<1> DEFINE l(k) == [u \in Users |-> IF doing[k].leg[u] = "none" THEN "none" ELSE "change"]
           e(k) == [doing[k] EXCEPT !.leg = l(k), !.count = Nothing.count]
<1>1. doing' = [k \in Activities |-> IF k \notin Under(s) THEN doing[k] ELSE e(k)]
  BY DEF Crash
<1>2. ASSUME NEW k \in Under(s)
      PROVE /\ Shaped(e(k)) /\ e(k).pc = doing[k].pc
            /\ e(k).op = doing[k].op /\ e(k).service = doing[k].service /\ e(k).user = doing[k].user
  <2> HIDE DEF l
  <2> QED
    BY DEF Kinds, Under, Shaped
<1>3. Under(s) \subseteq Activities
  BY DEF Under
<1> HIDE DEF e
<1>4. /\ DOMAIN doing' = Activities
      /\ \A k \in Activities : k \notin Under(s) => doing'[k] = doing[k]
      /\ \A k \in Under(s) : doing'[k] = e(k)
  BY <1>1, <1>3
<1> QED
  BY <1>2, <1>4 DEF Same

(* A leg of an activity changes neither conversation nor sockets.          *)
LEMMA Changing ==
  ASSUME Kinds, NEW k \in Activities, NEW u \in Users,
         Add(k, u) \/ Read(k, u) \/ ReadAll(k, u) \/ Count(k, u) \/ Push(k, u)
  PROVE /\ Moves(k) /\ doing[k].pc = "change"
        /\ \/ Ends(k)
           \/ Same(k) /\ doing'[k].pc = doing[k].pc
        /\ UNCHANGED <<conv, registry, late, crashes>>
<1>1. CASE Add(k, u)
  <2>1. doing[k].pc = "change" /\ UNCHANGED <<conv, registry, late, crashes>>
    BY <1>1 DEF Add, Leg, history
  <2>2. Goto(k, "ended") \/ Step(k, u, "count")
    BY <1>1 DEF Add
  <2> QED
    BY <2>1, <2>2, Going, Stepping
<1>2. CASE Read(k, u)
  <2>1. doing[k].pc = "change" /\ UNCHANGED <<conv, registry, late, crashes>>
    BY <1>2 DEF Read, Leg, history
  <2>2. Goto(k, "ended") \/ Step(k, u, "count")
    BY <1>2 DEF Read
  <2> QED
    BY <2>1, <2>2, Going, Stepping
<1>3. CASE ReadAll(k, u)
  <2>1. doing[k].pc = "change" /\ UNCHANGED <<conv, registry, late, crashes>>
    BY <1>3 DEF ReadAll, Leg
  <2>2. Step(k, u, "push")
    BY <1>3 DEF ReadAll
  <2> QED
    BY <2>1, <2>2, Stepping
<1>4. CASE Count(k, u)
  <2>1. doing[k].pc = "change" /\ UNCHANGED <<conv, registry, late, crashes>>
    BY <1>4 DEF Count, Leg, store
  <2> QED
    BY <1>4, <2>1, Counting
<1>5. CASE Push(k, u)
  <2>1. doing[k].pc = "change" /\ UNCHANGED <<conv, registry, late, crashes>>
    BY <1>5 DEF Push, Leg, store, history
  <2>2. Step(k, u, "done")
    BY <1>5 DEF Push
  <2> QED
    BY <2>1, <2>2, Stepping
<1> QED
  BY <1>1, <1>2, <1>3, <1>4, <1>5

(* What begins is of a service, or a socket.                               *)
Begins(k) ==
  \/ \E s \in Services, u \in Users : \E op \in Ops[s] : Begin(k, s, op, u)
  \/ \E u \in Users : Begin(k, "sockets", "socket", u)

LEMMA BeginningOne ==
  ASSUME Kinds, NEW k \in Activities, Begins(k)
  PROVE /\ Moves(k) /\ doing[k].pc = "idle"
        /\ Kind(doing'[k]) /\ doing'[k].pc \in {"verify", "hired", "change"}
        /\ UNCHANGED <<conv, registry, late, crashes>>
<1>1. CASE \E s \in Services, u \in Users : \E op \in Ops[s] : Begin(k, s, op, u)
  <2>0. PICK s \in Services, u \in Users : \E op \in Ops[s] : Begin(k, s, op, u)
    BY <1>1
  <2>1. PICK op \in Ops[s] : Begin(k, s, op, u)
    BY <2>0
  <2>2. op # "socket"
    <3>1. Ops["chat"] = {"hire", "send", "read"}
      BY DEF Ops
    <3>2. Ops["notes"] = {"notify", "notify both", "read one", "read all"}
      BY DEF Ops
    <3>3. s = "chat" \/ s = "notes"
      BY DEF Services
    <3> QED
      BY <3>1, <3>2, <3>3
  <2>3. Moves(k) /\ doing[k].pc = "idle" /\ doing'[k].op = op
        /\ doing'[k].pc = IF op = "hire" THEN "hired" ELSE "change"
    BY <2>1, <2>2, Beginning
  <2>4. UNCHANGED <<conv, registry, late, crashes>>
    BY <2>1 DEF Begin, store, history
  <2> QED
    BY <2>2, <2>3, <2>4 DEF Kind, AtHire
<1>2. CASE \E u \in Users : Begin(k, "sockets", "socket", u)
  <2>1. PICK u \in Users : Begin(k, "sockets", "socket", u)
    BY <1>2
  <2>2. Moves(k) /\ doing[k].pc = "idle" /\ doing'[k].op = "socket" /\ doing'[k].service = "sockets"
        /\ doing'[k].pc = "verify"
    BY <2>1, Beginning
  <2>3. UNCHANGED <<conv, registry, late, crashes>>
    BY <2>1 DEF Begin, store, history
  <2> QED
    BY <2>2, <2>3 DEF Kind, AtSocket
<1> QED
  BY <1>1, <1>2 DEF Begins

(* The steps, for the proofs below.                                        *)
LEMMA Steps ==
  ASSUME Next
  PROVE \/ \E k \in Activities : Begins(k)
        \/ \E k \in Activities :
             Hired(k) \/ Verified(k) \/ Disconnect(k)
        \/ \E k \in Activities, u \in Users :
             Add(k, u) \/ Read(k, u) \/ ReadAll(k, u) \/ Count(k, u) \/ Push(k, u)
        \/ \E s \in Services : Crash(s)
  BY DEF Next, Begins

-----------------------------------------------------------------------------

(* If one activity moves within its kind, the kinds are kept.              *)
LEMMA OneKind ==
  ASSUME Kinds, NEW k \in Activities, Moves(k), Kind(doing'[k])
  PROVE Kinds'
<1>1. \A j \in Activities : Shaped(doing'[j]) /\ Kind(doing'[j])
  BY DEF Kinds, Moves
<1> QED
  BY <1>1 DEF Kinds, Moves, Shaped, Kind

(* Every activity takes the steps of its kind.                             *)
LEMMA KindsStep == Kinds /\ [Next]_vars => Kinds'
<1> SUFFICES ASSUME Kinds, [Next]_vars PROVE Kinds'
  OBVIOUS
<1>1. ASSUME NEW k \in Activities, Begins(k) PROVE Kinds'
  BY <1>1, BeginningOne, OneKind
<1>2. ASSUME NEW k \in Activities, Hired(k) PROVE Kinds'
  <2>1. Moves(k) /\ doing'[k].pc = "ended"
    BY <1>2, Going DEF Hired, Ends
  <2> QED
    BY <2>1, OneKind DEF Kind
<1>3. ASSUME NEW k \in Activities, Verified(k) \/ Disconnect(k) PROVE Kinds'
  <2>1. doing[k].pc \in AtSocket
    BY <1>3 DEF Verified, Disconnect, Socket, AtSocket
  <2>2. doing[k].op = "socket" /\ doing[k].service = "sockets"
    BY <2>1 DEF Kinds, Kind, AtSocket, AtHire
  <2>3. Goto(k, "live") \/ Goto(k, "hung up") \/ Goto(k, "ended")
    BY <1>3 DEF Verified, Disconnect
  <2>4. Moves(k) /\ (doing'[k].pc = "ended" \/ (/\ doing'[k].pc \in AtSocket /\ doing'[k].op = "socket"
                                                   /\ doing'[k].service = "sockets"))
    BY <2>2, <2>3, Going DEF AtSocket, Same, Ends
  <2> QED
    BY <2>4, OneKind DEF Kind
<1>4. ASSUME NEW k \in Activities, NEW u \in Users,
             Add(k, u) \/ Read(k, u) \/ ReadAll(k, u) \/ Count(k, u) \/ Push(k, u)
      PROVE Kinds'
  <2>1. doing[k].pc = "change" /\ doing[k].op \notin {"hire", "socket"}
    BY <1>4, Changing DEF Kinds, Kind, AtHire, AtSocket
  <2>2. Moves(k) /\ (doing'[k].pc = "ended" \/ (doing'[k].pc = "change" /\ doing'[k].op \notin {"hire", "socket"}))
    BY <1>4, <2>1, Changing DEF Same, Ends
  <2> QED
    BY <2>2, OneKind DEF Kind
<1>5. ASSUME NEW s \in Services, Crash(s) PROVE Kinds'
  <2>1. DOMAIN doing' = Activities
    BY <1>5, Crashing
  <2>2. ASSUME NEW k \in Activities PROVE Shaped(doing'[k]) /\ Kind(doing'[k])
    <3>1. CASE k \notin Under(s)
      BY <1>5, <3>1, Crashing DEF Kinds
    <3>2. CASE k \in Under(s)
      <4>1. Kind(doing[k]) /\ doing[k].service # "sockets" /\ doing[k].pc \notin {"idle", "ended"}
        BY <3>2 DEF Kinds, Under, Services
      <4>2. /\ Shaped(doing'[k]) /\ doing'[k].op = doing[k].op
            /\ doing'[k].pc = doing[k].pc
        BY <1>5, <3>2, Crashing DEF Same
      <4> QED
        BY <4>1, <4>2 DEF Kind, AtHire, AtSocket
    <3> QED
      BY <3>1, <3>2
  <2> QED
    BY <2>1, <2>2 DEF Kinds, Shaped, Kind
<1>6. CASE UNCHANGED vars
  BY <1>6 DEF vars, Kinds, Shaped, Kind
<1> QED
  BY <1>1, <1>2, <1>3, <1>4, <1>5, <1>6, Steps

(* At the start nothing goes on.                                           *)
LEMMA KindsInitially == Init => Kinds
  BY NothingRecord DEF Init, Kinds, Kind

-----------------------------------------------------------------------------
(* Sockets *)

Live == {<<doing[k].user, k>> : k \in {j \in Activities : Socket(j, "live")}}

(* What is left over in the registry is of sockets that are gone.          *)
RegistryKept ==
  /\ registry = late \cup Live
  /\ \A u, k : <<u, k>> \in late => k \in Activities /\ doing[k].pc = "ended"

(* Steps that leave the live sockets alone.                                *)
LEMMA OtherSockets ==
  ASSUME RegistryKept, UNCHANGED <<registry, late>>,
         \A j \in Activities :
           /\ doing[j].pc = "ended" => doing'[j].pc = "ended"
           /\ (doing'[j].op = "socket" /\ doing'[j].pc = "live") = Socket(j, "live")
           /\ Socket(j, "live") => doing'[j].user = doing[j].user
  PROVE RegistryKept'
<1>1. Live' = Live
  BY DEF Live, Socket
<1>2. ASSUME NEW u, NEW k, <<u, k>> \in late' PROVE k \in Activities /\ doing'[k].pc = "ended"
  BY <1>2 DEF RegistryKept
<1> QED
  BY <1>1, <1>2 DEF RegistryKept

(* The same, when one activity moves that has not ended.                   *)
LEMMA OtherSocket ==
  ASSUME RegistryKept, UNCHANGED <<registry, late>>, NEW k \in Activities, Moves(k),
         doing[k].pc \notin {"ended", "live"}, doing'[k].pc # "live"
  PROVE RegistryKept'
<1>1. ASSUME NEW j \in Activities
      PROVE /\ doing[j].pc = "ended" => doing'[j].pc = "ended"
            /\ (doing'[j].op = "socket" /\ doing'[j].pc = "live") = Socket(j, "live")
            /\ Socket(j, "live") => doing'[j].user = doing[j].user
  <2>1. CASE j = k
    BY <2>1 DEF Socket
  <2>2. CASE j # k
    BY <2>2 DEF Moves, Socket
  <2> QED
    BY <2>1, <2>2
<1> QED
  BY <1>1, OtherSockets

(* A socket joins the registry when its token is verified, ...             *)
LEMMA VerifiedStep ==
  ASSUME Kinds, RegistryKept, NEW k \in Activities, Verified(k)
  PROVE RegistryKept'
<1>1. doing[k].op = "socket" /\ doing[k].pc \in {"verify", "hung up"}
  BY DEF Verified
<1> DEFINE pair == <<doing[k].user, k>>
<1>2. CASE registry' = registry /\ late' = late /\ Goto(k, "ended")
  BY <1>1, <1>2, Going, OtherSocket DEF Ends
<1>3. CASE /\ registry' = registry \cup {pair} /\ doing[k].pc = "verify"
           /\ Goto(k, "live") /\ late' = late
  <2>1. Moves(k) /\ doing'[k].pc = "live" /\ doing'[k].op = "socket" /\ doing'[k].user = doing[k].user
    BY <1>1, <1>3, Going DEF Same
  <2>2. Live' = Live \cup {pair}
    <3> DEFINE L == {j \in Activities : Socket(j, "live")}
    <3>1. \A j \in Activities : j # k => doing'[j] = doing[j]
      BY <2>1 DEF Moves
    <3>2. L' = L \cup {k}
      BY <2>1, <3>1 DEF Socket
    <3>3. \A j \in L \cup {k} : doing'[j].user = doing[j].user
      BY <2>1, <3>1
    <3>4. Live = {<<doing[j].user, j>> : j \in L} /\ Live' = {<<doing'[j].user, j>> : j \in L'}
      BY DEF Live
    <3> HIDE DEF L
    <3> QED
      BY <3>2, <3>3, <3>4
  <2>3. ASSUME NEW u, NEW j, <<u, j>> \in late' PROVE j \in Activities /\ doing'[j].pc = "ended"
    <3>1. j \in Activities /\ doing[j].pc = "ended"
      BY <1>3, <2>3 DEF RegistryKept
    <3> QED
      BY <1>1, <2>1, <3>1 DEF Moves
  <2> QED
    BY <1>3, <2>2, <2>3 DEF RegistryKept
<1>4. CASE /\ registry' = registry \cup {pair}
           /\ Goto(k, "ended") /\ late' = late \cup {pair}
  <2>1. Moves(k) /\ doing'[k].pc = "ended"
    BY <1>4, Going DEF Ends
  <2>2. Live' = Live
    <3>1. ASSUME NEW j \in Activities
          PROVE /\ (doing'[j].op = "socket" /\ doing'[j].pc = "live") = Socket(j, "live")
                /\ Socket(j, "live") => doing'[j].user = doing[j].user
      <4>1. CASE j = k
        BY <1>1, <2>1, <4>1 DEF Socket
      <4>2. CASE j # k
        BY <2>1, <4>2 DEF Socket, Moves
      <4> QED
        BY <4>1, <4>2
    <3> QED
      BY <3>1 DEF Live, Socket
  <2>3. ASSUME NEW u, NEW j, <<u, j>> \in late' PROVE j \in Activities /\ doing'[j].pc = "ended"
    <3>1. CASE <<u, j>> \in late
      <4>1. j \in Activities /\ doing[j].pc = "ended"
        BY <3>1 DEF RegistryKept
      <4> QED
        BY <2>1, <4>1 DEF Moves
    <3>2. CASE <<u, j>> = pair
      BY <2>1, <3>2
    <3> QED
      BY <1>4, <2>3, <3>1, <3>2
  <2> QED
    BY <1>4, <2>2, <2>3 DEF RegistryKept
<1> QED
  BY <1>1, <1>2, <1>3, <1>4 DEF Verified

(* ... and leaves it when it disconnects after that.                       *)
LEMMA DisconnectStep ==
  ASSUME Kinds, RegistryKept, NEW k \in Activities, Disconnect(k)
  PROVE RegistryKept'
<1>1. CASE Socket(k, "verify") /\ Goto(k, "hung up") /\ registry' = registry
  <2>1. Moves(k) /\ doing'[k].pc = "hung up" /\ doing[k].pc = "verify" /\ late' = late
    BY <1>1, Going DEF Socket, Disconnect, history
  <2> QED
    BY <1>1, <2>1, OtherSocket
<1>2. CASE Socket(k, "live") /\ Goto(k, "ended") /\ registry' = registry \ Dropped(k)
  <2>1. Moves(k) /\ doing'[k].pc = "ended" /\ doing[k].pc = "live" /\ late' = late
    BY <1>2, Going DEF Socket, Disconnect, history, Ends
  <2> DEFINE pair == <<doing[k].user, k>>
  <2>2. pair \notin late
    BY <2>1 DEF RegistryKept
  <2>3. Live' = Live \ {pair}
    BY <2>1 DEF Live, Socket, Moves
  <2>4. registry' = late' \cup Live'
    BY <1>2, <2>1, <2>2, <2>3 DEF RegistryKept, Dropped
  <2>5. ASSUME NEW u, NEW j, <<u, j>> \in late' PROVE j \in Activities /\ doing'[j].pc = "ended"
    <3>1. j \in Activities /\ doing[j].pc = "ended"
      BY <2>1, <2>5 DEF RegistryKept
    <3> QED
      BY <2>1, <3>1 DEF Moves
  <2> QED
    BY <2>4, <2>5 DEF RegistryKept
<1> QED
  BY <1>1, <1>2 DEF Disconnect

(* Nothing else touches the registry.                                      *)
LEMMA RegistryStep == Kinds /\ RegistryKept /\ [Next]_vars => RegistryKept'
<1> SUFFICES ASSUME Kinds, RegistryKept, [Next]_vars PROVE RegistryKept'
  OBVIOUS
<1>1. ASSUME NEW k \in Activities, Begins(k) PROVE RegistryKept'
  <2>1. Moves(k) /\ doing[k].pc = "idle" /\ doing'[k].pc # "live" /\ UNCHANGED <<registry, late>>
    BY <1>1, BeginningOne
  <2> QED
    BY <2>1, OtherSocket
<1>2. ASSUME NEW k \in Activities, Hired(k) PROVE RegistryKept'
  <2>1. Moves(k) /\ doing'[k].pc = "ended" /\ doing[k].pc = "hired" /\ UNCHANGED <<registry, late>>
    BY <1>2, Going DEF Hired, Ends, history
  <2> QED
    BY <2>1, OtherSocket
<1>3. ASSUME NEW k \in Activities, NEW u \in Users,
             Add(k, u) \/ Read(k, u) \/ ReadAll(k, u) \/ Count(k, u) \/ Push(k, u)
      PROVE RegistryKept'
  <2>1. doing[k].pc = "change" /\ doing'[k].pc # "live" /\ Moves(k) /\ UNCHANGED <<registry, late>>
    BY <1>3, Changing DEF Ends
  <2> QED
    BY <2>1, OtherSocket
<1>4. ASSUME NEW s \in Services, Crash(s) PROVE RegistryKept'
  <2>1. UNCHANGED <<registry, late>>
    BY <1>4 DEF Crash, history
  <2>2. ASSUME NEW j \in Activities
        PROVE /\ doing[j].pc = "ended" => doing'[j].pc = "ended"
              /\ (doing'[j].op = "socket" /\ doing'[j].pc = "live") = Socket(j, "live")
              /\ Socket(j, "live") => doing'[j].user = doing[j].user
    <3>1. CASE j \notin Under(s)
      BY <1>4, <3>1, Crashing DEF Socket
    <3>2. CASE j \in Under(s)
      <4>1. doing[j].pc # "ended" /\ doing[j].service # "sockets"
        BY <3>2 DEF Under, Services
      <4>2. ~Socket(j, "live")
        BY <4>1 DEF Kinds, Kind, Socket, AtHire, AtSocket
      <4>3. doing[j].pc # "live"
        BY <4>1, <3>2 DEF Kinds, Kind, AtHire, AtSocket, Under
      <4>4. doing'[j].pc # "live" /\ doing'[j].pc = doing[j].pc
        BY <1>4, <3>2, <4>3, Crashing
      <4> QED
        BY <4>1, <4>2, <4>4 DEF Socket
    <3> QED
      BY <3>1, <3>2
  <2> QED
    BY <2>1, <2>2, OtherSockets
<1>5. CASE UNCHANGED vars
  BY <1>5 DEF vars, RegistryKept, Live, Socket
<1> QED
  BY <1>1, <1>2, <1>3, <1>4, <1>5, VerifiedStep, DisconnectStep, Steps

(* The registry holds the live sockets, and besides them only those that   *)
(* hung up while their token was verified.                                 *)
THEOREM RegistryHoldsTheLiveAlways == Spec => []RegistryHoldsTheLive
<1>1. Init => RegistryKept
  <2> SUFFICES ASSUME Init PROVE RegistryKept
    OBVIOUS
  <2>1. \A k \in Activities : ~Socket(k, "live")
    BY NothingRecord DEF Init, Socket
  <2> QED
    BY <2>1 DEF Init, RegistryKept, Live
<1>2. RegistryKept => RegistryHoldsTheLive
  BY DEF RegistryKept, RegistryHoldsTheLive, Live
<1> QED
  BY <1>1, <1>2, KindsInitially, KindsStep, RegistryStep, PTL DEF Spec

-----------------------------------------------------------------------------
(* The badges *)

Legs == {"none", "change", "count", "push", "done"}

(* An activity has legs while it changes something, and each kind of       *)
(* change is of one service.  What was not counted is zero.                *)
LegsFit(d) ==
  /\ DOMAIN d.leg = Users /\ DOMAIN d.count = Users
  /\ \A u \in Users : d.leg[u] \in Legs /\ (d.leg[u] \in {"change", "count"} => d.count[u] = 0)
  /\ d.pc # "change" => \A u \in Users : d.leg[u] = "none"
  /\ d.pc \in AtHire => d.service = "chat"
  /\ d.pc = "change" => d.service = IF d.op \in {"send", "read"} THEN "chat" ELSE "notes"

(* Messages are sent and read only in a conversation.                      *)
Spoken(k) ==
  doing[k].op \in {"send", "read"} /\ ~ conv =>
    \A u \in Users : doing[k].leg[u] \in {"none", "change"}

(* The activity will count what is unread for u.                           *)
Owes(k, s, u) ==
  /\ doing[k].service = s
  /\ \/ doing[k].leg[u] = "count"
     \/ doing[k].leg[u] = "change" /\ (doing[k].op \in {"send", "read"} => conv)

Pushes(k, s, u) == doing[k].service = s /\ doing[k].leg[u] = "push"

Number(s, u) == Cardinality(UnreadOf(s, u))

(* Unless the count of u is blurred or somebody will count it again, what  *)
(* was counted or, if nobody is about to push a count, what was pushed     *)
(* last is right.                                                          *)
Accurate(s, u) ==
  (u \notin blurred[s] /\ \A k \in Activities : ~ Owes(k, s, u)) =>
    /\ \A k \in Activities : Pushes(k, s, u) => doing[k].count[u] = Number(s, u)
    /\ (\A k \in Activities : ~ Pushes(k, s, u)) => badge[s][u] = Number(s, u)

Boxes == DOMAIN blurred = Services /\ DOMAIN badge = Services /\ \A s \in Services : DOMAIN badge[s] = Users

BadgeKept ==
  /\ Boxes
  /\ \A k \in Activities : LegsFit(doing[k]) /\ Spoken(k)
  /\ \A s \in Services, u \in Users : Accurate(s, u)

(* Nothing has no legs, nor has what has ended.                            *)
LEMMA NoLegsLeft ==
  /\ LegsFit(Nothing)
  /\ \A k \in Activities : LegsFit(Finished(k)) /\ \A u \in Users : Finished(k).leg[u] = "none"
<1>1. /\ Nothing.pc = "idle" /\ Nothing.leg = NoLegs /\ Nothing.count = [u \in Users |-> 0]
      /\ \A k \in Activities :
           /\ Finished(k).pc = "ended" /\ Finished(k).leg = NoLegs
           /\ Finished(k).count = [u \in Users |-> 0]
  BY DEF Nothing, Finished
<1> QED
  BY <1>1 DEF LegsFit, Legs, NoLegs, AtHire

(* Its legs, and what it counted, stay.                                    *)
InPlace(k) == doing'[k].leg = doing[k].leg /\ doing'[k].count = doing[k].count

Quits(k) == LegsFit(doing'[k]) /\ \A u \in Users : doing'[k].leg[u] = "none"

LEMMA LegsGoing ==
  ASSUME Kinds, NEW k \in Activities, NEW p, Goto(k, p)
  PROVE  IF p = "ended" THEN Quits(k) ELSE InPlace(k)
<1>1. CASE p = "ended"
  <2>1. doing'[k] = Finished(k)
    BY <1>1 DEF Goto, Kinds
  <2>2. LegsFit(Finished(k)) /\ \A u \in Users : Finished(k).leg[u] = "none"
    BY NoLegsLeft
  <2> QED BY <1>1, <2>1, <2>2 DEF Quits
<1>2. CASE p # "ended"
  <2>1. doing'[k] = [doing[k] EXCEPT !.pc = p]
    BY <1>2 DEF Goto, Kinds
  <2> QED BY <1>2, <2>1 DEF Kinds, Shaped, InPlace
<1> QED
  BY <1>1, <1>2

(* A leg moves, or the last one has come to its end.                       *)
MovesLeg(k, u, at) == doing'[k].leg = [doing[k].leg EXCEPT ![u] = at]

LEMMA LegsStepping ==
  ASSUME Kinds, NEW k \in Activities, NEW u \in Users, NEW at, Step(k, u, at)
  PROVE  \/ /\ at = "done" /\ Quits(k)
            /\ \A v \in Users \ {u} : doing[k].leg[v] \in {"none", "done"}
         \/ /\ Same(k) /\ doing'[k].pc = doing[k].pc
            /\ MovesLeg(k, u, at) /\ doing'[k].count = doing[k].count
<1>1. CASE at = "done" /\ \A v \in Users \ {u} : doing[k].leg[v] \in {"none", "done"}
  <2>1. doing'[k] = Finished(k)
    BY <1>1 DEF Step, Kinds
  <2>2. LegsFit(Finished(k)) /\ \A v \in Users : Finished(k).leg[v] = "none"
    BY NoLegsLeft
  <2> QED BY <1>1, <2>1, <2>2 DEF Quits
<1>2. CASE ~ (at = "done" /\ \A v \in Users \ {u} : doing[k].leg[v] \in {"none", "done"})
  <2> DEFINE l == [doing[k].leg EXCEPT ![u] = at]
             e == [doing[k] EXCEPT !.leg = l]
  <2>1. doing' = [doing EXCEPT ![k] = e]
    BY <1>2 DEF Step
  <2>2. /\ e.pc = doing[k].pc /\ e.leg = l /\ e.count = doing[k].count
        /\ e.op = doing[k].op /\ e.service = doing[k].service /\ e.user = doing[k].user
    BY DEF Kinds, Shaped
  <2> HIDE DEF e
  <2>3. doing'[k] = e
    BY <2>1 DEF Kinds
  <2> QED BY <2>2, <2>3 DEF Same, MovesLeg
<1> QED
  BY <1>1, <1>2

(* What begins has counted nothing.                                        *)
LEMMA LegsBeginning ==
  ASSUME Kinds, NEW k \in Activities, Begins(k)
  PROVE  LegsFit(doing'[k]) /\ \A u \in Users : doing'[k].leg[u] \in {"none", "change"}
<1>1. ASSUME NEW s, NEW op, NEW u \in Users, Begin(k, s, op, u),
             \/ s = "chat" /\ op \in {"hire", "send", "read"}
             \/ s = "notes" /\ op \in {"notify", "notify both", "read one", "read all"}
             \/ s = "sockets" /\ op = "socket"
      PROVE  LegsFit(doing'[k]) /\ \A v \in Users : doing'[k].leg[v] \in {"none", "change"}
  <2> DEFINE l == [v \in Users |-> IF v \in Audience(s, op, u) THEN "change" ELSE "none"]
             p == CASE op = "socket" -> "verify" [] op = "hire" -> "hired" [] OTHER -> "change"
             who == IF op \in {"hire", "notify both"} THEN None ELSE u
             e == [Nothing EXCEPT !.service = s, !.op = op, !.user = who, !.pc = p, !.leg = l]
  <2>1. doing'[k] = e
    BY <1>1 DEF Begin, Kinds
  <2>2. Nothing.count = [v \in Users |-> 0]
    BY DEF Nothing
  <2>3. /\ DOMAIN l = Users /\ \A v \in Users : l[v] \in {"none", "change"}
        /\ op \in {"hire", "socket"} => \A v \in Users : l[v] = "none"
    BY DEF Audience
  <2>4. /\ op = "socket" => p = "verify"
        /\ op = "hire" => p = "hired"
        /\ op \notin {"socket", "hire"} => p = "change"
    OBVIOUS
  <2> HIDE DEF l, p, who
  <2>5. e.service = s /\ e.op = op /\ e.pc = p /\ e.leg = l /\ e.count = Nothing.count
    BY NothingRecord DEF Shaped
  <2> HIDE DEF e
  <2>6. LegsFit(e)
    <3>1. /\ DOMAIN e.leg = Users /\ DOMAIN e.count = Users
          /\ \A v \in Users : e.leg[v] \in {"none", "change"} /\ e.count[v] = 0
      BY <2>2, <2>3, <2>5
    <3>2. CASE op \in {"hire", "socket"}
      BY <1>1, <2>3, <2>4, <2>5, <3>1, <3>2 DEF LegsFit, Legs, AtHire
    <3>3. CASE op \notin {"hire", "socket"}
      BY <1>1, <2>4, <2>5, <3>1, <3>3 DEF LegsFit, Legs, AtHire
    <3> QED BY <3>2, <3>3
  <2> QED BY <2>1, <2>3, <2>5, <2>6
<1>2. CASE \E s \in Services, u \in Users : \E op \in Ops[s] : Begin(k, s, op, u)
  <2>0. PICK s \in Services, u \in Users : \E op \in Ops[s] : Begin(k, s, op, u)
    BY <1>2
  <2>1. PICK op \in Ops[s] : Begin(k, s, op, u)
    BY <2>0
  <2>2. CASE s = "chat"
    <3>1. op \in {"hire", "send", "read"}
      BY <2>2 DEF Ops
    <3> QED BY <1>1, <2>1, <2>2, <3>1
  <2>3. CASE s = "notes"
    <3>1. op \in {"notify", "notify both", "read one", "read all"}
      BY <2>3 DEF Ops
    <3> QED BY <1>1, <2>1, <2>3, <3>1
  <2> QED BY <2>2, <2>3 DEF Services
<1>3. CASE \E u \in Users : Begin(k, "sockets", "socket", u)
  BY <1>1, <1>3
<1> QED
  BY <1>2, <1>3 DEF Begins

(* A crash sets every leg back to its change.                              *)
LEMMA LegsCrashing ==
  ASSUME Kinds, NEW s \in Services, Crash(s), NEW k \in Under(s), LegsFit(doing[k])
  PROVE  /\ LegsFit(doing'[k])
         /\ \A u \in Users : doing'[k].leg[u] = IF doing[k].leg[u] = "none" THEN "none" ELSE "change"
<1> DEFINE l == [u \in Users |-> IF doing[k].leg[u] = "none" THEN "none" ELSE "change"]
           e == [doing[k] EXCEPT !.leg = l, !.count = Nothing.count]
<1>1. k \in Activities /\ doing[k].service = s /\ doing[k].pc \notin {"idle", "ended"}
  BY DEF Under
<1>2. doing'[k] = e
  BY <1>1 DEF Crash
<1>3. Nothing.count = [v \in Users |-> 0]
  BY DEF Nothing
<1>4. DOMAIN l = Users /\ \A v \in Users : l[v] = IF doing[k].leg[v] = "none" THEN "none" ELSE "change"
  OBVIOUS
<1>5. doing[k].pc = "change" \/ doing[k].pc \in AtHire
  BY <1>1 DEF Kinds, Kind, Services
<1> HIDE DEF l
<1>6. /\ e.service = s /\ e.op = doing[k].op /\ e.pc = doing[k].pc /\ e.leg = l /\ e.count = Nothing.count
  BY <1>1 DEF Kinds, Shaped
<1> HIDE DEF e
<1>7. LegsFit(e)
  BY <1>1, <1>3, <1>4, <1>5, <1>6 DEF LegsFit, Legs, AtHire
<1> QED
  BY <1>2, <1>4, <1>6, <1>7

(* If one activity moves, the others' legs stay as they are.               *)
LEMMA OthersFit ==
  ASSUME BadgeKept, NEW k \in Activities, Moves(k), UNCHANGED conv, LegsFit(doing'[k]), Spoken(k)'
  PROVE  \A j \in Activities : LegsFit(doing'[j]) /\ Spoken(j)'
<1> SUFFICES ASSUME NEW j \in Activities, j # k PROVE LegsFit(doing'[j]) /\ Spoken(j)'
  OBVIOUS
<1>1. doing'[j] = doing[j] /\ LegsFit(doing[j]) /\ Spoken(j)
  BY DEF Moves, BadgeKept
<1> QED
  BY <1>1 DEF Spoken

(* The parts of the invariant that concern all activities alike, after one *)
(* of them moved.                                                          *)
LEMMA Assembling ==
  ASSUME BadgeKept, NEW k \in Activities, Moves(k), UNCHANGED conv, LegsFit(doing'[k]), Spoken(k)',
         Boxes', \A s \in Services, u \in Users : Accurate(s, u)'
  PROVE  BadgeKept'
<1>1. \A j \in Activities : LegsFit(doing'[j]) /\ Spoken(j)'
  BY OthersFit
<1> QED
  BY <1>1 DEF BadgeKept, LegsFit

(* A step that is not about a user's count leaves it as right as it was.   *)
LEMMA Passing ==
  ASSUME NEW s \in Services, NEW u \in Users, Accurate(s, u), NEW k \in Activities, Moves(k), UNCHANGED conv,
         UnreadOf(s, u)' = UnreadOf(s, u), badge'[s][u] = badge[s][u],
         u \in blurred[s] => u \in blurred'[s],
         Owes(k, s, u) => Owes(k, s, u)', Pushes(k, s, u)' <=> Pushes(k, s, u),
         Pushes(k, s, u) => doing'[k].count[u] = doing[k].count[u]
  PROVE  Accurate(s, u)'
<1>1. \A j \in Activities \ {k} : doing'[j] = doing[j]
  BY DEF Moves
<1>2. \A j \in Activities :
        /\ Owes(j, s, u) => Owes(j, s, u)'
        /\ Pushes(j, s, u)' <=> Pushes(j, s, u)
        /\ Pushes(j, s, u) => doing'[j].count[u] = doing[j].count[u]
  BY <1>1 DEF Owes, Pushes
<1>3. Number(s, u)' = Number(s, u)
  BY DEF Number
<1> QED
  BY <1>2, <1>3 DEF Accurate

(* Whoever is about to count excuses everything.                           *)
LEMMA Owing ==
  ASSUME NEW s \in Services, NEW u \in Users, NEW k \in Activities, Owes(k, s, u)'
  PROVE  Accurate(s, u)'
  BY DEF Accurate

LEMMA Blurring ==
  ASSUME NEW s \in Services, NEW u \in Users, u \in blurred'[s]
  PROVE  Accurate(s, u)'
  BY DEF Accurate

(* An activity without legs moves, and nothing is read, posted or pushed.  *)
LEMMA WithoutLegs ==
  ASSUME BadgeKept, NEW k \in Activities, Moves(k), UNCHANGED conv,
         \A u \in Users : doing[k].leg[u] = "none",
         LegsFit(doing'[k]), \A u \in Users : doing'[k].leg[u] \in {"none", "change"},
         UNCHANGED <<unread, badge, blurred>>
  PROVE  BadgeKept'
<1>1. Spoken(k)' /\ Boxes'
  BY DEF BadgeKept, Spoken, Boxes
<1>2. ASSUME NEW s \in Services, NEW u \in Users PROVE Accurate(s, u)'
  <2>1. ~ Owes(k, s, u) /\ ~ Pushes(k, s, u) /\ ~ Pushes(k, s, u)'
    BY DEF Owes, Pushes
  <2>2. UnreadOf(s, u)' = UnreadOf(s, u)
    BY DEF UnreadOf
  <2> QED BY <2>1, <2>2, Passing DEF BadgeKept
<1> QED
  BY <1>1, <1>2, Assembling

(* A hire's and a socket's steps have no legs, nor has what begins.        *)
LEMMA QuietStep ==
  ASSUME Kinds, BadgeKept, NEW k \in Activities,
         Begins(k) \/ Hired(k) \/ Verified(k) \/ Disconnect(k)
  PROVE  BadgeKept'
<1>0. LegsFit(doing[k])
  BY DEF BadgeKept
<1>1. CASE Begins(k)
  <2>1. Moves(k) /\ doing[k].pc = "idle" /\ UNCHANGED conv
    BY <1>1, BeginningOne
  <2>2. UNCHANGED <<unread, badge, blurred>>
    BY <1>1 DEF Begins, Begin, store, history
  <2> QED BY <1>0, <1>1, <2>1, <2>2, LegsBeginning, WithoutLegs DEF LegsFit
<1>2. ASSUME NEW p, Goto(k, p), doing[k].pc # "change", p \notin {"change"},
             UNCHANGED <<conv, unread, badge, blurred>>,
             p \in AtHire => doing[k].service = "chat"
      PROVE  BadgeKept'
  <2>1. Moves(k) /\ (p # "ended" => Same(k) /\ doing'[k].pc = p)
    BY <1>2, Going
  <2>2. \A u \in Users : doing[k].leg[u] = "none"
    BY <1>0, <1>2 DEF LegsFit
  <2>3. LegsFit(doing'[k]) /\ \A u \in Users : doing'[k].leg[u] = "none"
    <3>1. CASE p = "ended"
      BY <1>2, <3>1, LegsGoing DEF Quits
    <3>2. CASE p # "ended"
      <4>1. InPlace(k)
        BY <1>2, <3>2, LegsGoing
      <4> QED BY <1>0, <1>2, <2>1, <2>2, <3>2, <4>1 DEF LegsFit, InPlace, Same
    <3> QED BY <3>1, <3>2
  <2> QED BY <1>2, <2>1, <2>2, <2>3, WithoutLegs
<1>3. CASE Hired(k)
  <2>1. doing[k].pc # "change" /\ Goto(k, "ended") /\ UNCHANGED <<conv, unread, badge, blurred>>
    BY <1>3 DEF Hired, store, history
  <2> QED BY <1>2, <2>1 DEF AtHire
<1>4. CASE Verified(k) \/ Disconnect(k)
  <2>1. doing[k].pc \in AtSocket
    BY <1>4 DEF Verified, Disconnect, Socket, AtSocket
  <2>2. PICK p \in {"live", "hung up", "ended"} : Goto(k, p)
    BY <1>4 DEF Verified, Disconnect
  <2>3. UNCHANGED <<conv, unread, badge, blurred>>
    BY <1>4 DEF Verified, Disconnect, store, history
  <2> QED BY <1>2, <2>1, <2>2, <2>3 DEF AtSocket, AtHire
<1> QED
  BY <1>1, <1>3, <1>4

-----------------------------------------------------------------------------
(* The legs of the badges *)

(* A leg leaves its change behind.                                         *)
LEMMA Changed ==
  ASSUME Kinds, BadgeKept, NEW k \in Activities, NEW u \in Users, NEW at \in {"count", "push"},
         Leg(k, u, "change"), Step(k, u, at)
  PROVE  /\ Moves(k) /\ Same(k) /\ LegsFit(doing'[k])
         /\ doing'[k].count = doing[k].count /\ doing[k].count[u] = 0
         /\ \A v \in Users : doing'[k].leg[v] = IF v = u THEN at ELSE doing[k].leg[v]
<1>1. doing[k].pc = "change" /\ doing[k].leg[u] = "change" /\ LegsFit(doing[k])
  BY DEF Leg, BadgeKept
<1>2. Moves(k)
  BY Stepping
<1>3. /\ Same(k) /\ doing'[k].pc = doing[k].pc
      /\ MovesLeg(k, u, at) /\ doing'[k].count = doing[k].count
  BY LegsStepping
<1>4. /\ DOMAIN doing'[k].leg = Users
      /\ \A v \in Users : doing'[k].leg[v] = IF v = u THEN at ELSE doing[k].leg[v]
  BY <1>1, <1>3 DEF MovesLeg, LegsFit
<1>5. LegsFit(doing'[k])
  BY <1>1, <1>3, <1>4 DEF LegsFit, Legs, Same, AtHire
<1> QED
  BY <1>1, <1>2, <1>3, <1>4, <1>5 DEF LegsFit

(* Counts of another service, or of another user, do not notice.           *)
LEMMA Beside ==
  ASSUME NEW k \in Activities, Same(k), UNCHANGED conv, NEW s \in Services, NEW u \in Users,
         s # doing[k].service \/ doing'[k].leg[u] = doing[k].leg[u]
  PROVE  (Owes(k, s, u)' <=> Owes(k, s, u)) /\ (Pushes(k, s, u)' <=> Pushes(k, s, u))
  BY DEF Owes, Pushes, Same

(* A message without a conversation is refused, before anything was        *)
(* counted.                                                                *)
LEMMA Refusing ==
  ASSUME Kinds, BadgeKept, NEW k \in Activities, doing[k].op \in {"send", "read"}, ~ conv,
         Goto(k, "ended"), UNCHANGED <<conv, unread, badge, blurred>>
  PROVE  BadgeKept'
<1>1. Moves(k) /\ Quits(k)
  BY Going, LegsGoing
<1>2. Spoken(k)' /\ Boxes'
  BY <1>1 DEF BadgeKept, Spoken, Boxes, Quits
<1>3. ASSUME NEW s \in Services, NEW u \in Users PROVE Accurate(s, u)'
  <2>1. doing[k].leg[u] \in {"none", "change"} /\ doing'[k].leg[u] = "none"
    BY <1>1 DEF BadgeKept, Spoken, Quits
  <2>2. ~ Owes(k, s, u) /\ ~ Pushes(k, s, u) /\ ~ Pushes(k, s, u)'
    BY <2>1 DEF Owes, Pushes
  <2>3. UnreadOf(s, u)' = UnreadOf(s, u)
    BY DEF UnreadOf
  <2> QED BY <1>1, <2>2, <2>3, Passing DEF BadgeKept
<1> QED
  BY <1>1, <1>2, <1>3, Assembling DEF Quits

(* What is added is unread for its recipient, whose count is owed.         *)
LEMMA AddStep ==
  ASSUME Kinds, BadgeKept, NEW k \in Activities, NEW u \in Users, Add(k, u)
  PROVE  BadgeKept'
<1> DEFINE item == Item(k, u)
           t == doing[k].service
<1>1. Leg(k, u, "change") /\ UNCHANGED <<conv, badge, blurred>>
  BY DEF Add, history
<1>2. CASE doing[k].op = "send" /\ ~ conv
  BY <1>1, <1>2, Refusing DEF Add
<1>3. CASE ~ (doing[k].op = "send" /\ ~ conv)
  <2>1. unread' = unread \cup {item} /\ Step(k, u, "count") /\ doing[k].op # "read"
    BY <1>3 DEF Add
  <2>2. item.service = t /\ item.for = u
    BY DEF Item
  <2> HIDE DEF item
  <2>3. /\ Moves(k) /\ Same(k) /\ LegsFit(doing'[k])
        /\ doing'[k].count = doing[k].count
        /\ \A v \in Users : doing'[k].leg[v] = IF v = u THEN "count" ELSE doing[k].leg[v]
    BY <1>1, <2>1, Changed
  <2>4. Spoken(k)'
    BY <1>1, <1>3, <2>1, <2>3 DEF Spoken, Same
  <2>5. Boxes'
    BY <1>1, <2>1, <2>2 DEF BadgeKept, Boxes
  <2>6. ASSUME NEW s \in Services, NEW v \in Users PROVE Accurate(s, v)'
    <3>1. CASE s = t /\ v = u
      BY <2>3, <3>1, Owing DEF Owes, Same
    <3>2. CASE ~ (s = t /\ v = u)
      <4>1. UnreadOf(s, v)' = UnreadOf(s, v)
        BY <2>1, <2>2, <3>2 DEF UnreadOf
      <4>2. (Owes(k, s, v)' <=> Owes(k, s, v)) /\ (Pushes(k, s, v)' <=> Pushes(k, s, v))
        BY <1>1, <2>3, <3>2, Beside
      <4> QED BY <1>1, <2>3, <4>1, <4>2, Passing DEF BadgeKept
    <3> QED BY <3>1, <3>2
  <2> QED BY <1>1, <2>3, <2>4, <2>5, <2>6, Assembling
<1> QED
  BY <1>2, <1>3

(* What is read was unread for the reader alone, whose count is owed.       *)
LEMMA ReadStep ==
  ASSUME Kinds, BadgeKept, NEW k \in Activities, NEW u \in Users, Read(k, u)
  PROVE  BadgeKept'
<1> DEFINE t == doing[k].service
<1>1. Leg(k, u, "change") /\ UNCHANGED <<conv, badge, blurred>> /\ doing[k].op \in {"read", "read one"}
  BY DEF Read, history
<1>2. t = IF doing[k].op = "read" THEN "chat" ELSE "notes"
  BY <1>1 DEF BadgeKept, LegsFit, Leg
<1>3. CASE doing[k].op = "read" /\ ~ conv
  BY <1>1, <1>3, Refusing DEF Read
<1>4. CASE ~ (doing[k].op = "read" /\ ~ conv)
  <2>1. PICK gone : /\ gone \in IF doing[k].op = "read" THEN {UnreadOf("chat", u)}
                                ELSE {{i} : i \in UnreadOf("notes", u)} \cup {{}}
                    /\ unread' = unread \ gone
                    /\ Step(k, u, "count")
    BY <1>4 DEF Read
  <2>2. \A i \in gone : i.service = t /\ i.for = u
    BY <1>1, <1>2, <2>1 DEF UnreadOf
  <2>3. /\ Moves(k) /\ Same(k) /\ LegsFit(doing'[k])
        /\ doing'[k].count = doing[k].count
        /\ \A v \in Users : doing'[k].leg[v] = IF v = u THEN "count" ELSE doing[k].leg[v]
    BY <1>1, <2>1, Changed
  <2>4. Spoken(k)'
    BY <1>1, <1>4, <2>3 DEF Spoken, Same
  <2>5. Boxes'
    BY <1>1, <2>1 DEF BadgeKept, Boxes
  <2>6. ASSUME NEW s \in Services, NEW v \in Users PROVE Accurate(s, v)'
    <3>1. CASE s = t /\ v = u
      BY <2>3, <3>1, Owing DEF Owes, Same
    <3>2. CASE ~ (s = t /\ v = u)
      <4>1. UnreadOf(s, v)' = UnreadOf(s, v)
        BY <2>1, <2>2, <3>2 DEF UnreadOf
      <4>2. (Owes(k, s, v)' <=> Owes(k, s, v)) /\ (Pushes(k, s, v)' <=> Pushes(k, s, v))
        BY <1>1, <2>3, <3>2, Beside
      <4> QED BY <1>1, <2>3, <4>1, <4>2, Passing DEF BadgeKept
    <3> QED BY <3>1, <3>2
  <2> QED BY <1>1, <2>3, <2>4, <2>5, <2>6, Assembling
<1> QED
  BY <1>3, <1>4

(* Whoever is alone with a service is the only one that pushes a count.    *)
LEMMA OnlyOne ==
  ASSUME BadgeKept, NEW k \in Activities, NEW u \in Users, NEW s \in Services, Alone(k, s),
         NEW j \in Activities, Pushes(j, s, u)
  PROVE  j = k
<1>1. doing[j].pc = "change"
  BY DEF BadgeKept, LegsFit, Pushes
<1> QED
  BY <1>1 DEF Pushes, Alone, Under

(* A count taken while alone is right; one taken among others is blurred.  *)
LEMMA CountTaken ==
  ASSUME BadgeKept, NEW k \in Activities, NEW u \in Users, Moves(k), Counted(k, u),
         NEW s \in Services, doing[k].service = s, Pushes(k, s, u)',
         doing'[k].count[u] = Number(s, u)'
  PROVE  Accurate(s, u)'
<1>1. CASE Alone(k, s)
  <2>1. \A j \in Activities : Pushes(j, s, u)' => j = k
    BY <1>1, OnlyOne DEF Moves, Pushes
  <2> QED BY <2>1 DEF Accurate
<1>2. CASE ~ Alone(k, s)
  <2>1. blurred' = [blurred EXCEPT ![s] = @ \cup {u}]
    BY <1>2 DEF Counted
  <2> QED BY <2>1, Blurring DEF BadgeKept, Boxes
<1> QED
  BY <1>1, <1>2

(* Counting for one user changes what is blurred for nobody else.          *)
LEMMA CountedBeside ==
  ASSUME BadgeKept, NEW k \in Activities, NEW u \in Users, Counted(k, u), NEW s \in Services, NEW v \in Users,
         ~ (s = doing[k].service /\ v = u)
  PROVE  v \in blurred[s] => v \in blurred'[s]
  BY DEF BadgeKept, Boxes, Counted

(* All are read, and the zero that is pushed for it is right.              *)
LEMMA ReadAllStep ==
  ASSUME Kinds, BadgeKept, NEW k \in Activities, NEW u \in Users, ReadAll(k, u)
  PROVE  BadgeKept'
<1>1. /\ Leg(k, u, "change") /\ UNCHANGED <<conv, badge>> /\ doing[k].op = "read all"
      /\ unread' = unread \ UnreadOf("notes", u)
      /\ Step(k, u, "push") /\ Counted(k, u)
  BY DEF ReadAll
<1>2. doing[k].service = "notes"
  BY <1>1 DEF BadgeKept, LegsFit, Leg
<1>3. /\ Moves(k) /\ Same(k) /\ LegsFit(doing'[k])
      /\ doing'[k].count = doing[k].count /\ doing[k].count[u] = 0
      /\ \A v \in Users : doing'[k].leg[v] = IF v = u THEN "push" ELSE doing[k].leg[v]
  BY <1>1, Changed
<1>4. Spoken(k)'
  BY <1>1, <1>3 DEF Spoken, Same
<1>5. Boxes'
  BY <1>1 DEF BadgeKept, Boxes, Counted
<1>6. ASSUME NEW s \in Services, NEW v \in Users PROVE Accurate(s, v)'
  <2>1. CASE s = doing[k].service /\ v = u
    <3>1. UnreadOf(s, u)' = {}
      BY <1>1, <1>2, <2>1 DEF UnreadOf
    <3>2. Number(s, u)' = 0
      BY <3>1, FS_EmptySet DEF Number
    <3>3. Pushes(k, s, u)' /\ doing'[k].count[u] = 0
      BY <1>3, <2>1 DEF Pushes, Same
    <3> QED BY <1>1, <1>3, <2>1, <3>2, <3>3, CountTaken
  <2>2. CASE ~ (s = doing[k].service /\ v = u)
    <3>1. UnreadOf(s, v)' = UnreadOf(s, v)
      <4>1. s # "notes" \/ v # u
        BY <1>2, <2>2
      <4>2. UnreadOf(s, v) \cap UnreadOf("notes", u) = {}
        BY <4>1 DEF UnreadOf, BadgeKept
      <4> QED BY <1>1, <4>2 DEF UnreadOf
    <3>2. (Owes(k, s, v)' <=> Owes(k, s, v)) /\ (Pushes(k, s, v)' <=> Pushes(k, s, v))
      BY <1>1, <1>3, <2>2, Beside
    <3>3. v \in blurred[s] => v \in blurred'[s]
      BY <1>1, <2>2, CountedBeside
    <3> QED BY <1>1, <1>3, <3>1, <3>2, <3>3, Passing DEF BadgeKept
  <2> QED BY <2>1, <2>2
<1> QED
  BY <1>1, <1>3, <1>4, <1>5, <1>6, Assembling

(* What is unread is counted.                                              *)
LEMMA CountStep ==
  ASSUME Kinds, BadgeKept, NEW k \in Activities, NEW u \in Users, Count(k, u)
  PROVE  BadgeKept'
<1> DEFINE l == [doing[k].leg EXCEPT ![u] = "push"]
           n == [doing[k].count EXCEPT ![u] = NumberFor(k, u)]
           e == [doing[k] EXCEPT !.leg = l, !.count = n]
<1>1. Leg(k, u, "count") /\ UNCHANGED <<conv, unread, badge>> /\ Counted(k, u)
  BY DEF Count, store
<1>2. Moves(k) /\ Same(k) /\ doing'[k].pc = doing[k].pc
  BY Counting
<1>3. doing[k].pc = "change" /\ doing[k].leg[u] = "count" /\ LegsFit(doing[k]) /\ Spoken(k)
  BY <1>1 DEF Leg, BadgeKept
<1>4. doing'[k].leg = l /\ doing'[k].count = n
  <2>1. doing'[k] = e
    BY DEF Count, Kinds
  <2> HIDE DEF l, n
  <2>2. e.leg = l /\ e.count = n
    BY DEF Kinds, Shaped
  <2> QED BY <2>1, <2>2
<1>5. /\ DOMAIN doing'[k].leg = Users /\ DOMAIN doing'[k].count = Users
      /\ \A v \in Users : /\ doing'[k].leg[v] = IF v = u THEN "push" ELSE doing[k].leg[v]
                          /\ doing'[k].count[v] = IF v = u THEN NumberFor(k, u) ELSE doing[k].count[v]
  BY <1>3, <1>4 DEF LegsFit
<1> HIDE DEF l, n, e
<1>6. LegsFit(doing'[k])
  BY <1>2, <1>3, <1>5 DEF LegsFit, Legs, Same, AtHire
<1>7. Spoken(k)'
  <2>1. ~ (doing[k].op \in {"send", "read"} /\ ~ conv)
    BY <1>3 DEF Spoken
  <2> QED BY <1>1, <1>2, <2>1 DEF Spoken, Same
<1>8. Boxes'
  BY <1>1 DEF BadgeKept, Boxes, Counted
<1>9. ASSUME NEW s \in Services, NEW v \in Users PROVE Accurate(s, v)'
  <2>0. UnreadOf(s, v)' = UnreadOf(s, v)
    BY <1>1 DEF UnreadOf
  <2>1. CASE s = doing[k].service /\ v = u
    <3>1. Number(s, u)' = NumberFor(k, u)
      BY <2>0, <2>1 DEF Number, NumberFor
    <3>2. Pushes(k, s, u)' /\ doing'[k].count[u] = NumberFor(k, u)
      BY <1>2, <1>5, <2>1 DEF Pushes, Same
    <3> QED BY <1>1, <1>2, <2>1, <3>1, <3>2, CountTaken
  <2>2. CASE ~ (s = doing[k].service /\ v = u)
    <3>1. (Owes(k, s, v)' <=> Owes(k, s, v)) /\ (Pushes(k, s, v)' <=> Pushes(k, s, v))
      BY <1>1, <1>2, <1>5, <2>2, Beside
    <3>2. v \in blurred[s] => v \in blurred'[s]
      BY <1>1, <2>2, CountedBeside
    <3>3. Pushes(k, s, v) => doing'[k].count[v] = doing[k].count[v]
      BY <1>5, <2>2 DEF Pushes
    <3> QED BY <1>1, <1>2, <2>0, <3>1, <3>2, <3>3, Passing DEF BadgeKept
  <2> QED BY <2>1, <2>2
<1> QED
  BY <1>1, <1>2, <1>6, <1>7, <1>8, <1>9, Assembling

(* A count that nobody is to take again is pushed.                         *)
LEMMA PushStep ==
  ASSUME Kinds, BadgeKept, NEW k \in Activities, NEW u \in Users, Push(k, u)
  PROVE  BadgeKept'
<1> DEFINE t == doing[k].service
<1>1. /\ Leg(k, u, "push") /\ UNCHANGED <<conv, unread, blurred>> /\ Step(k, u, "done")
      /\ badge' = [badge EXCEPT ![t][u] = doing[k].count[u]]
  BY DEF Push, store, history
<1>2. Moves(k)
  BY <1>1, Stepping
<1>3. doing[k].pc = "change" /\ doing[k].leg[u] = "push" /\ LegsFit(doing[k]) /\ Spoken(k)
  BY <1>1 DEF Leg, BadgeKept
<1>4. t \in Services
  BY <1>3 DEF LegsFit, Services
<1>5. /\ LegsFit(doing'[k]) /\ Spoken(k)'
      /\ doing'[k].leg[u] \in {"none", "done"}
      /\ \A s \in Services, v \in Users : s # t \/ v # u =>
           /\ Owes(k, s, v) => Owes(k, s, v)'
           /\ Pushes(k, s, v)' <=> Pushes(k, s, v)
           /\ Pushes(k, s, v) => doing'[k].count[v] = doing[k].count[v]
  <2>1. CASE Quits(k) /\ \A v \in Users \ {u} : doing[k].leg[v] \in {"none", "done"}
    <3>1. LegsFit(doing'[k]) /\ \A v \in Users : doing'[k].leg[v] = "none"
      BY <2>1 DEF Quits
    <3>2. Spoken(k)'
      BY <3>1 DEF Spoken
    <3>3. ASSUME NEW s \in Services, NEW v \in Users, s # t \/ v # u
          PROVE ~ Owes(k, s, v) /\ ~ Pushes(k, s, v) /\ ~ Pushes(k, s, v)'
      BY <2>1, <3>1, <3>3 DEF Owes, Pushes
    <3> QED BY <3>1, <3>2, <3>3
  <2>2. CASE /\ Same(k) /\ doing'[k].pc = doing[k].pc
             /\ MovesLeg(k, u, "done") /\ doing'[k].count = doing[k].count
    <3>1. /\ DOMAIN doing'[k].leg = Users
          /\ \A v \in Users : doing'[k].leg[v] = IF v = u THEN "done" ELSE doing[k].leg[v]
      BY <1>3, <2>2 DEF MovesLeg, LegsFit
    <3>2. LegsFit(doing'[k])
      BY <1>3, <2>2, <3>1 DEF LegsFit, Legs, Same, AtHire
    <3>3. Spoken(k)'
      <4>1. ~ (doing[k].op \in {"send", "read"} /\ ~ conv)
        BY <1>3 DEF Spoken
      <4> QED BY <1>1, <2>2, <4>1 DEF Spoken, Same
    <3>4. ASSUME NEW s \in Services, NEW v \in Users, s # t \/ v # u
          PROVE (Owes(k, s, v)' <=> Owes(k, s, v)) /\ (Pushes(k, s, v)' <=> Pushes(k, s, v))
      BY <1>1, <2>2, <3>1, <3>4, Beside
    <3> QED BY <2>2, <3>1, <3>2, <3>3, <3>4
  <2> QED BY <1>1, <2>1, <2>2, LegsStepping
<1>6. /\ badge'[t][u] = doing[k].count[u]
      /\ \A s \in Services, v \in Users : s # t \/ v # u => badge'[s][v] = badge[s][v]
  BY <1>1, <1>4 DEF BadgeKept, Boxes
<1>7. Boxes'
  <2>1. badge' = [badge EXCEPT ![t] = [badge[t] EXCEPT ![u] = doing[k].count[u]]]
    BY <1>1
  <2> QED BY <1>1, <1>4, <2>1 DEF BadgeKept, Boxes
<1>8. ASSUME NEW s \in Services, NEW v \in Users PROVE Accurate(s, v)'
  <2>0. UnreadOf(s, v)' = UnreadOf(s, v) /\ blurred'[s] = blurred[s]
    BY <1>1 DEF UnreadOf
  <2>1. CASE s # t \/ v # u
    BY <1>1, <1>2, <1>5, <1>6, <2>0, <2>1, Passing DEF BadgeKept
  <2>2. CASE s = t /\ v = u
    <3> SUFFICES ASSUME v \notin blurred[s], \A j \in Activities : ~ Owes(j, s, v)'
                 PROVE  /\ \A j \in Activities : Pushes(j, s, v)' => doing'[j].count[v] = Number(s, v)'
                        /\ badge'[s][v] = Number(s, v)'
      BY <2>0 DEF Accurate
    <3>1. ASSUME NEW j \in Activities PROVE ~ Owes(j, s, v)
      <4>1. CASE j = k
        BY <1>3, <2>2, <4>1 DEF Owes
      <4>2. CASE j # k
        BY <1>1, <1>2, <4>2 DEF Owes, Moves
      <4> QED BY <4>1, <4>2
    <3>2. \A j \in Activities : Pushes(j, s, v) => doing[j].count[v] = Number(s, v)
      BY <3>1 DEF BadgeKept, Accurate
    <3>3. Number(s, v)' = Number(s, v)
      BY <2>0 DEF Number
    <3>4. Pushes(k, s, v)
      BY <1>3, <2>2 DEF Pushes
    <3>5. ASSUME NEW j \in Activities, Pushes(j, s, v)' PROVE doing'[j].count[v] = Number(s, v)
      <4>1. j # k
        BY <1>5, <2>2, <3>5 DEF Pushes
      <4> QED BY <1>2, <3>2, <3>5, <4>1 DEF Pushes, Moves
    <3> QED BY <1>6, <2>2, <3>2, <3>3, <3>4, <3>5
  <2> QED BY <2>1, <2>2
<1> QED
  BY <1>1, <1>2, <1>5, <1>7, <1>8, Assembling

(* After a crash all that was changed will be changed, and counted, again. *)
LEMMA CrashStep ==
  ASSUME Kinds, BadgeKept, NEW t \in Services, Crash(t)
  PROVE  BadgeKept'
<1>1. UNCHANGED <<conv, unread, badge, blurred>>
  BY DEF Crash, store, history
<1>2. ASSUME NEW k \in Activities
      PROVE  /\ LegsFit(doing'[k]) /\ doing'[k].op = doing[k].op /\ doing'[k].service = doing[k].service
             /\ k \notin Under(t) => doing'[k] = doing[k]
             /\ k \in Under(t) => \A u \in Users :
                  doing'[k].leg[u] = IF doing[k].leg[u] = "none" THEN "none" ELSE "change"
  <2>1. CASE k \in Under(t)
    BY <2>1, Crashing, LegsCrashing DEF BadgeKept, Same
  <2>2. CASE k \notin Under(t)
    BY <2>2, Crashing DEF BadgeKept
  <2> QED BY <2>1, <2>2
<1>3. \A k \in Activities : LegsFit(doing'[k]) /\ Spoken(k)'
  BY <1>1, <1>2 DEF BadgeKept, Spoken
<1>4. Boxes'
  BY <1>1 DEF BadgeKept, Boxes
<1>5. ASSUME NEW s \in Services, NEW u \in Users PROVE Accurate(s, u)'
  <2>0. Number(s, u)' = Number(s, u)
    BY <1>1 DEF Number, UnreadOf
  <2>1. ASSUME NEW k \in Activities, Owes(k, s, u) \/ Pushes(k, s, u), k \in Under(t)
        PROVE  Owes(k, s, u)'
    <3>1. doing'[k].leg[u] = "change" /\ doing'[k].service = s
      BY <1>2, <2>1 DEF Owes, Pushes
    <3>2. doing[k].op \in {"send", "read"} => conv
      BY <2>1 DEF Owes, Pushes, BadgeKept, Spoken
    <3> QED BY <1>1, <1>2, <3>1, <3>2 DEF Owes
  <2>2. ASSUME NEW k \in Activities, k \notin Under(t)
        PROVE  /\ Owes(k, s, u)' <=> Owes(k, s, u)
               /\ Pushes(k, s, u)' <=> Pushes(k, s, u)
               /\ doing'[k] = doing[k]
    BY <1>1, <1>2, <2>2 DEF Owes, Pushes
  <2>3. ASSUME NEW k \in Activities, k \in Under(t) PROVE ~ Pushes(k, s, u)'
    BY <1>2, <2>3 DEF Pushes
  <2>4. CASE \E k \in Activities : Owes(k, s, u)'
    BY <2>4 DEF Accurate
  <2>5. CASE \A k \in Activities : ~ Owes(k, s, u)'
    <3>1. \A k \in Activities : /\ ~ Owes(k, s, u)
                                /\ Pushes(k, s, u)' <=> Pushes(k, s, u)
                                /\ Pushes(k, s, u) => doing'[k] = doing[k]
      BY <2>1, <2>2, <2>3, <2>5
    <3> QED BY <1>1, <2>0, <3>1 DEF BadgeKept, Accurate
  <2> QED BY <2>4, <2>5
<1> QED
  BY <1>3, <1>4, <1>5 DEF BadgeKept, LegsFit

(* At the start nothing is unread, and so say the badges.                  *)
LEMMA BadgeInitially == Init => BadgeKept
<1> SUFFICES ASSUME Init PROVE BadgeKept
  OBVIOUS
<1>1. /\ unread = {} /\ badge = [s \in Services |-> [u \in Users |-> 0]]
      /\ blurred = [s \in Services |-> {}] /\ \A k \in Activities : doing[k] = Nothing
  BY DEF Init
<1>2. LegsFit(Nothing) /\ \A u \in Users : Nothing.leg[u] = "none"
  BY NoLegsLeft DEF Nothing, NoLegs
<1>3. \A s \in Services, u \in Users : Number(s, u) = 0
  <2>1. \A s \in Services, u \in Users : UnreadOf(s, u) = {}
    BY <1>1 DEF UnreadOf
  <2> QED BY <2>1, FS_EmptySet DEF Number
<1>4. \A k \in Activities : LegsFit(doing[k]) /\ Spoken(k)
  BY <1>1, <1>2 DEF Spoken
<1>5. \A s \in Services, u \in Users : Accurate(s, u)
  BY <1>1, <1>2, <1>3 DEF Accurate, Pushes
<1> QED
  BY <1>1, <1>4, <1>5 DEF BadgeKept, Boxes

LEMMA BadgeStep == Kinds /\ BadgeKept /\ [Next]_vars => BadgeKept'
<1> SUFFICES ASSUME Kinds, BadgeKept, [Next]_vars PROVE BadgeKept'
  OBVIOUS
<1>1. CASE UNCHANGED vars
  <2>1. UNCHANGED <<conv, unread, badge, doing, blurred>>
    BY <1>1 DEF vars
  <2>2. \A k \in Activities : LegsFit(doing[k])' /\ Spoken(k)'
    BY <2>1 DEF BadgeKept, LegsFit, Spoken
  <2>3. \A s \in Services, u \in Users : Accurate(s, u)'
    BY <2>1 DEF BadgeKept, Accurate, Owes, Pushes, Number, UnreadOf
  <2> QED BY <2>1, <2>2, <2>3 DEF BadgeKept, Boxes
<1>2. CASE Next
  BY <1>2, Steps, QuietStep, AddStep, ReadStep, ReadAllStep, CountStep, PushStep,
     CrashStep
<1> QED
  BY <1>1, <1>2

(* When a service is at rest, the count a user saw last is the number of   *)
(* unread items, unless handlers overlapped: however often a message was   *)
(* delivered, and whatever crashed.                                        *)
THEOREM BadgeAgreesAlways == Spec => []BadgeAgrees
<1>1. BadgeKept => BadgeAgrees
  <2> SUFFICES ASSUME BadgeKept, NEW s \in Services, Under(s) = {}, NEW u \in Users \ blurred[s]
               PROVE  badge[s][u] = Cardinality(UnreadOf(s, u))
    BY DEF BadgeAgrees
  <2>1. \A k \in Activities : doing[k].service = s => doing[k].pc # "change"
    BY DEF Under
  <2>2. \A k \in Activities : ~ Owes(k, s, u) /\ ~ Pushes(k, s, u)
    BY <2>1 DEF BadgeKept, LegsFit, Owes, Pushes
  <2> QED BY <2>2 DEF BadgeKept, Accurate, Number
<1> QED
  BY <1>1, BadgeInitially, BadgeStep, KindsInitially, KindsStep, PTL DEF Spec
=============================================================================
