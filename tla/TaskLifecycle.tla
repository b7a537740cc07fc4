--------------------------- MODULE TaskLifecycle ---------------------------
(***************************************************************************)
(* What the coordinator promises a client about its tasks, without         *)
(* workers, queues, leases or time: the life of each task, the attempt     *)
(* that decides it, and the inputs it may rely on.  One step of the        *)
(* coordinator may move several tasks at once (a worker's death, a failure *)
(* that runs down a chain of dependents), so a step moves every task by    *)
(* one of its moves or leaves it alone.                                    *)
(***************************************************************************)
EXTENDS Integers

CONSTANT TaskId

VARIABLES
  phase,     \* where each task is in its life
  attempt,   \* how often it was leased
  inputs,    \* the tasks whose outputs it takes
  result     \* the attempt whose output is its result, 0 while there is none

vars == <<phase, attempt, inputs, result>>

Ended == {"Succeeded", "Failed", "Cancelled"}
Unended == {"Pending", "Leased", "Stopping"}

Same(t) ==
  /\ phase'[t] = phase[t] /\ attempt'[t] = attempt[t]
  /\ inputs'[t] = inputs[t] /\ result'[t] = result[t]

Move(t, from, to) ==
  /\ phase[t] \in from /\ phase'[t] = to
  /\ attempt'[t] = attempt[t] /\ inputs'[t] = inputs[t]
  /\ result'[t] = result[t]

\* A new task takes outputs of tasks that have not failed.
Create(t) ==
  /\ phase[t] = "Unborn" /\ phase'[t] = "Pending"
  /\ attempt'[t] = 0 /\ result'[t] = 0
  /\ \A u \in inputs'[t] : phase[u] \in Unended \cup {"Succeeded"}

\* A lease is a new attempt, and its inputs have all been produced.
Lease(t) ==
  /\ phase[t] = "Pending" /\ phase'[t] = "Leased"
  /\ attempt'[t] = attempt[t] + 1
  /\ inputs'[t] = inputs[t] /\ result'[t] = result[t]
  /\ \A u \in inputs[t] : phase[u] = "Succeeded"

\* Only the running attempt can succeed, and its output is the result.
Succeed(t) ==
  /\ phase[t] = "Leased" /\ phase'[t] = "Succeeded"
  /\ result'[t] = attempt[t]
  /\ attempt'[t] = attempt[t] /\ inputs'[t] = inputs[t]

\* A task that was never leased fails only because of an input.
Abandon(t) ==
  /\ Move(t, {"Pending"}, "Failed")
  /\ \E u \in inputs[t] : phase'[u] \in Ended

\* A task is forgotten only when no unended task takes its output.
Forget(t) ==
  /\ phase[t] \in Ended /\ phase'[t] = "Forgotten"
  /\ attempt'[t] = 0 /\ inputs'[t] = {} /\ result'[t] = 0
  /\ \A u \in TaskId : phase[u] \in Unended => t \notin inputs[u]

Moves(t) ==
  \/ Same(t) \/ Create(t) \/ Lease(t) \/ Succeed(t) \/ Abandon(t) \/ Forget(t)
  \/ Move(t, {"Leased"}, "Pending") \/ Move(t, {"Leased"}, "Failed")
  \/ Move(t, {"Leased"}, "Stopping")
  \/ Move(t, {"Pending", "Stopping"}, "Cancelled")

Init ==
  /\ phase = [t \in TaskId |-> "Unborn"]
  /\ attempt = [t \in TaskId |-> 0]
  /\ inputs = [t \in TaskId |-> {}]
  /\ result = [t \in TaskId |-> 0]

Next == \A t \in TaskId : Moves(t)

Spec == Init /\ [][Next]_vars
=============================================================================
