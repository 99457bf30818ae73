--------------------------------- MODULE Rpc ---------------------------------
(***************************************************************************)
(* What a request to another service promises its caller: it is settled at *)
(* most once; an answer was given by an execution of this request; and a   *)
(* request said to have failed was not and will not be executed.  A time   *)
(* limit promises nothing: the request may be executed never, before,      *)
(* later, or several times.                                                *)
(***************************************************************************)
CONSTANT Requests

VARIABLES
  outcome, \* what the caller of each request was told, "none" before
  answers  \* the answers the executions of each request came to

Answer == {"ok", "refused"}

Init ==
  /\ outcome = [r \in Requests |-> "none"]
  /\ answers = [r \in Requests |-> {}]

Execute(r, a) ==
  /\ outcome[r] # "failed"
  /\ answers' = [answers EXCEPT ![r] = @ \cup {a}]
  /\ UNCHANGED outcome

MaySay(r, o) ==
  \/ o \in answers[r]
  \/ o \in {"timeout", "gone"}
  \/ o = "failed" /\ answers[r] = {}

(* Several may be told at once, when the process that asked goes away. *)
Settle(told) ==
  /\ \A r \in Requests : told[r] # outcome[r] => outcome[r] = "none" /\ MaySay(r, told[r])
  /\ outcome' = told
  /\ UNCHANGED answers

Outcome == Answer \cup {"none", "timeout", "gone", "failed"}

Next ==
  \/ \E r \in Requests, a \in Answer : Execute(r, a)
  \/ \E told \in [Requests -> Outcome] : Settle(told)

Spec == Init /\ [][Next]_<<outcome, answers>>
=============================================================================
