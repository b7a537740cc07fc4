--------------------------- MODULE MCCoordinator ---------------------------
(* Small instances of Coordinator for TLC.                                 *)
EXTENDS Coordinator, TLC

CONSTANTS n1, n2, t1, t2, t3, p1, op1, op2, c1, c2, cpu

OneNode == {n1}
TwoNodes == {n1, n2}
TwoTasks == {t1, t2}
ThreeTasks == {t1, t2, t3}
Symmetry == Permutations(NodeId) \cup Permutations(TaskId)

Cpu(k) == [r \in ResourceKind |-> k]
Table(i, o) == [p \in Operation |-> [in |-> i, out |-> o]]

\* One slot, or two slots that share the same two units of cpu.
OneSlot == [slots |-> 1, total |-> Cpu(1), ops |-> Table(c1, c1)]
TwoSlots == [slots |-> 2, total |-> Cpu(2), ops |-> Table(c1, c1)]
LargeWorkers == {TwoSlots}

\* Workers that disagree on what the operation reads and writes.
Disagreeing == {[OneSlot EXCEPT !.ops = Table(c1, c2)],
                [OneSlot EXCEPT !.ops = Table(c2, c2)]}

Once == [op |-> op1, resources |-> Cpu(1), max |-> 1]
Twice == [op |-> op1, resources |-> Cpu(1), max |-> 2]
Heavy == [op |-> op1, resources |-> Cpu(2), max |-> 1]
TwoTries == {Twice}
LightAndHeavy == {Once, Heavy}
=============================================================================
