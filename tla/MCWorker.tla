----------------------------- MODULE MCWorker ------------------------------
(* Small instances of WorkerProcess for TLC.                               *)
EXTENDS WorkerProcess, TLC

CONSTANTS n1, t1, op1, c1, cpu

Cpu(k) == [r \in ResourceKind |-> k]
OneSlot == [slots |-> 1, total |-> Cpu(1),
            ops |-> [p \in Operation |-> [in |-> c1, out |-> c1]]]
OneSlots == {OneSlot}
EachOneSlot == [n \in NodeId |-> OneSlot]
Twice == {[op |-> op1, resources |-> Cpu(1), max |-> 2]}
=============================================================================
