------------------------------ MODULE Messaging ------------------------------
(***************************************************************************)
(* Requests from the gateway's instances to one service over RabbitMQ.     *)
(* An instance subscribes to its own response queue at its first request,  *)
(* keeps the pending requests in a map and gives up after a time limit.    *)
(* The service subscribes to its durable queue before it registers its     *)
(* handlers, handles up to Prefetch messages at a time and acknowledges a  *)
(* message when its handler has ended.  Either side may lose its           *)
(* connection or crash.  What a handler does is up to Registry; here it    *)
(* comes to some answer.                                                   *)
(***************************************************************************)
EXTENDS Naturals, FiniteSets

CONSTANTS
  Requests,  \* ids of requests
  Gateways,  \* instances of the API gateway
  Prefetch,  \* messages the service handles at a time
  MaxRuns,   \* bound: handlers started for one request
  MaxFaults  \* bound: crashes and lost connections

ASSUME PrefetchAssumption == Prefetch \in Nat \ {0}
ASSUME BoundsAssumption == MaxRuns \in Nat \ {0} /\ MaxFaults \in Nat

VARIABLES
  sub,       \* each instance's subscription: no, trying, bound or failed
  up,        \* whether its connection is up
  call,      \* each request: its instance, whether it is pending, what it was told
  outbox,    \* requests an instance published while its connection was down
  mail,      \* responses in each instance's queue
  service,   \* down, consuming (no handler registered yet) or ready
  ready,     \* requests in the service's queue
  held,      \* requests delivered to the service and not acknowledged
  run,       \* the handlers started for each request
  lost,      \* history: acknowledged without a handler, or gone with an outbox
  answers,   \* history: what the handlers of each request came to
  faults     \* crashes and lost connections so far

gatewayVars == <<sub, up, call, outbox, mail>>
serviceVars == <<service, ready, held, run, lost, answers>>
vars == <<gatewayVars, serviceVars, faults>>

Answer == {"ok", "refused"}
Runs == 1..MaxRuns
NoRun == [pc |-> "none", live |-> FALSE, answer |-> "none"]

Init ==
  /\ sub = [g \in Gateways |-> "no"]
  /\ up = [g \in Gateways |-> TRUE]
  /\ call \in [Requests -> [at : Gateways, pc : {"new"}, told : {"none"}]]
  /\ outbox = [g \in Gateways |-> {}]
  /\ mail = [g \in Gateways |-> {}]
  /\ service = "down" /\ ready = {} /\ held = {} /\ lost = {}
  /\ run = [r \in Requests |-> [n \in Runs |-> NoRun]]
  /\ answers = [r \in Requests |-> {}]
  /\ faults = 0

-----------------------------------------------------------------------------
(* The gateway *)

At(g, pcs) == {r \in Requests : call[r].at = g /\ call[r].pc \in pcs}

(* The requests in S go to the broker, or wait for the connection.  The    *)
(* service's durable queue is there since it first ran; before that the    *)
(* broker would drop them.                                                 *)
Publish(g, S) ==
  IF up[g] THEN ready' = ready \cup S /\ UNCHANGED outbox
  ELSE outbox' = [outbox EXCEPT ![g] = @ \cup S] /\ UNCHANGED ready

Settled(S, told) ==
  [r \in Requests |-> IF r \in S THEN [call[r] EXCEPT !.pc = "settled", !.told = told] ELSE call[r]]

(* request(): all wait for the one subscription; the pending entry and its *)
(* timer are made when the request is published.                           *)
Ask(r) ==
  LET g == call[r].at
  IN /\ call[r].pc = "new"
     /\ \/ /\ sub[g] \in {"no", "trying"}
           /\ sub' = [sub EXCEPT ![g] = "trying"]
           /\ call' = [call EXCEPT ![r].pc = "waiting"]
           /\ UNCHANGED <<outbox, ready>>
        \/ /\ sub[g] = "bound"
           /\ call' = [call EXCEPT ![r].pc = "pending"]
           /\ Publish(g, {r})
           /\ UNCHANGED sub
        \/ /\ sub[g] = "failed"
           /\ call' = Settled({r}, "failed")
           /\ UNCHANGED <<sub, outbox, ready>>
     /\ UNCHANGED <<up, mail, service, held, run, lost, answers, faults>>

Subscribe(g) ==
  /\ sub[g] = "trying"
  /\ sub' = [sub EXCEPT ![g] = "bound"]
  /\ call' = [r \in Requests |->
       IF r \in At(g, {"waiting"}) THEN [call[r] EXCEPT !.pc = "pending"] ELSE call[r]]
  /\ Publish(g, At(g, {"waiting"}))
  /\ UNCHANGED <<up, mail, service, held, run, lost, answers, faults>>

(* The rejected promise is kept: the instance never subscribes again. *)
SubscribeFails(g) ==
  /\ sub[g] = "trying" /\ faults < MaxFaults
  /\ faults' = faults + 1
  /\ sub' = [sub EXCEPT ![g] = "failed"]
  /\ call' = Settled(At(g, {"waiting"}), "failed")
  /\ UNCHANGED <<up, outbox, mail, serviceVars>>

(* The response's consumer: an answer nobody waits for is dropped. *)
Pending_Asked(r) == call[r].pc # "new"
Pending(r) == call[r].pc = "pending"

Receive(g, m) ==
  /\ m \in mail[g]
  /\ mail' = [mail EXCEPT ![g] = @ \ {m}]
  /\ call' = IF Pending(m.request) THEN Settled({m.request}, m.answer) ELSE call
  /\ UNCHANGED <<sub, up, outbox, serviceVars, faults>>

Timeout(r) ==
  /\ Pending(r)
  /\ call' = Settled({r}, "timeout")
  /\ UNCHANGED <<sub, up, outbox, mail, serviceVars, faults>>

(* The response queue is deleted with its last consumer. *)
Disconnect(g) ==
  /\ up[g] /\ faults < MaxFaults
  /\ faults' = faults + 1
  /\ up' = [up EXCEPT ![g] = FALSE]
  /\ mail' = [mail EXCEPT ![g] = {}]
  /\ UNCHANGED <<sub, call, outbox, serviceVars>>

Reconnect(g) ==
  /\ ~up[g]
  /\ up' = [up EXCEPT ![g] = TRUE]
  /\ ready' = ready \cup outbox[g]
  /\ outbox' = [outbox EXCEPT ![g] = {}]
  /\ UNCHANGED <<sub, call, mail, service, held, run, lost, answers, faults>>

CrashGateway(g) ==
  /\ faults < MaxFaults
  /\ faults' = faults + 1
  /\ sub' = [sub EXCEPT ![g] = "no"]
  /\ up' = [up EXCEPT ![g] = TRUE]
  /\ mail' = [mail EXCEPT ![g] = {}]
  /\ outbox' = [outbox EXCEPT ![g] = {}]
  /\ call' = Settled(At(g, {"waiting", "pending"}), "gone")
  /\ lost' = lost \cup outbox[g]
  /\ UNCHANGED <<service, ready, held, run, answers>>

-----------------------------------------------------------------------------
(* The service *)

(* subscribe() is awaited before the handlers are registered. *)
Start ==
  /\ service = "down"
  /\ service' = "consuming"
  /\ UNCHANGED <<gatewayVars, ready, held, run, lost, answers, faults>>

Register ==
  /\ service = "consuming"
  /\ service' = "ready"
  /\ UNCHANGED <<gatewayVars, ready, held, run, lost, answers, faults>>

(* A message without a handler is acknowledged all the same. *)
Swallow(r) ==
  /\ service = "consuming" /\ r \in ready
  /\ ready' = ready \ {r}
  /\ lost' = lost \cup {r}
  /\ UNCHANGED <<gatewayVars, service, held, run, answers, faults>>

HeldAfterDelivery_AckFirst(r) == held
HeldAfterDelivery(r) == held \cup {r}

Deliver(r, n) ==
  /\ service = "ready" /\ r \in ready
  /\ Cardinality(held) < Prefetch
  /\ run[r][n] = NoRun
  /\ \A m \in 1..(n - 1) : run[r][m] # NoRun
  /\ ready' = ready \ {r}
  /\ held' = HeldAfterDelivery(r)
  /\ run' = [run EXCEPT ![r][n] = [pc |-> "body", live |-> TRUE, answer |-> "none"]]
  /\ UNCHANGED <<gatewayVars, service, lost, answers, faults>>

(* The handler comes to an answer; it catches whatever goes wrong. *)
Execute(r, n, a) ==
  /\ run[r][n].pc = "body"
  /\ run' = [run EXCEPT ![r][n].pc = "respond", ![r][n].answer = a]
  /\ answers' = [answers EXCEPT ![r] = @ \cup {a}]
  /\ UNCHANGED <<gatewayVars, service, ready, held, lost, faults>>

(* respond(): every instance's queue is bound to the response; those that  *)
(* did not ask drop it.                                                    *)
Respond(r, n) ==
  LET g == call[r].at
  IN /\ run[r][n].pc = "respond"
     /\ run' = [run EXCEPT ![r][n].pc = "ack"]
     /\ mail' = IF sub[g] = "bound" /\ up[g]
                THEN [mail EXCEPT ![g] = @ \cup {[request |-> r, answer |-> run[r][n].answer]}]
                ELSE mail
     /\ UNCHANGED <<sub, up, call, outbox, service, ready, held, lost, answers, faults>>

Ended(f) == [r \in Requests |-> [n \in Runs |->
  IF f[r][n].pc = "none" THEN NoRun ELSE [pc |-> "end", live |-> FALSE, answer |-> "none"]]]

(* The process ends: the broker puts back what was not acknowledged. *)
Stop ==
  /\ service' = "down"
  /\ ready' = ready \cup held
  /\ held' = {}
  /\ run' = Ended(run)
  /\ UNCHANGED <<gatewayVars, lost, answers>>

Crash == service # "down" /\ faults < MaxFaults /\ faults' = faults + 1 /\ Stop

(* Acknowledging on a channel that was closed meanwhile throws, so does    *)
(* the rejection in the catch block, and the process ends.                 *)
Acknowledge(r, n) ==
  /\ run[r][n].pc = "ack"
  /\ \/ /\ run[r][n].live
        /\ held' = held \ {r}
        /\ run' = [run EXCEPT ![r][n] = [pc |-> "end", live |-> FALSE, answer |-> "none"]]
        /\ UNCHANGED <<gatewayVars, service, ready, lost, answers>>
     \/ ~run[r][n].live /\ Stop
  /\ UNCHANGED faults

(* The connection is lost and made again: what was not acknowledged is     *)
(* delivered again while the first handler is still at it.                 *)
NewChannel ==
  /\ service = "ready" /\ faults < MaxFaults
  /\ faults' = faults + 1
  /\ ready' = ready \cup held
  /\ held' = {}
  /\ run' = [r \in Requests |-> [n \in Runs |-> [run[r][n] EXCEPT !.live = FALSE]]]
  /\ UNCHANGED <<gatewayVars, service, lost, answers>>

-----------------------------------------------------------------------------

GatewayStep ==
  \/ \E r \in Requests : Ask(r) \/ Timeout(r)
  \/ \E g \in Gateways :
       \/ Subscribe(g)
       \/ SubscribeFails(g)
       \/ \E m \in mail[g] : Receive(g, m)
       \/ Disconnect(g)
       \/ Reconnect(g)
       \/ CrashGateway(g)

ServiceStep ==
  \/ Start
  \/ Register
  \/ \E r \in Requests : Swallow(r)
  \/ \E r \in Requests, n \in Runs : Deliver(r, n) \/ Respond(r, n) \/ Acknowledge(r, n)
  \/ Crash
  \/ NewChannel

Transport == GatewayStep \/ ServiceStep

Next ==
  \/ Transport
  \/ \E r \in Requests, n \in Runs, a \in Answer : Execute(r, n, a)

Spec == Init /\ [][Next]_vars

-----------------------------------------------------------------------------
(* Properties *)

outcome == [r \in Requests |-> call[r].told]
Promise == INSTANCE Rpc

(* Whatever is lost, late or delivered twice, callers are told what Rpc    *)
(* promises: once, nothing that no handler of theirs came to, and a        *)
(* failure only of what is never executed.                                 *)
KeepsPromise == Promise!Spec

Issued(r) == call[r].pc \in {"pending", "settled"} /\ call[r].told # "failed"

(* A published request is somewhere until a handler has seen it through:   *)
(* in an outbox, in the queue or with the service.  It is lost only with   *)
(* the instance that asked, or when the service was still starting, never  *)
(* because a connection or the service went down.                          *)
NothingIsLost ==
  \A r \in Requests : Issued(r) /\ call[r].told # "gone" =>
    \/ r \in outbox[call[r].at] \cup ready \cup held \cup lost
    \/ answers[r] # {}
=============================================================================
