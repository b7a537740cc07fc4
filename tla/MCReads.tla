------------------------------ MODULE MCReads ------------------------------
(* A small instance of ClientReads for TLC.                                *)
EXTENDS ClientReads

CONSTANTS n1, t1, t2, op1, c1, cpu, w1

Cpu(k) == [r \in ResourceKind |-> k]
Table == [p \in Operation |-> [in |-> c1, out |-> c1]]
OneSlot == {[slots |-> 1, total |-> Cpu(1), ops |-> Table]}
TwoTries == {[op |-> op1, resources |-> Cpu(1), max |-> 2]}

\* No handle, one, two, and three with one of them twice.
HandleLists == {<<>>, <<t1>>, <<t1, t2>>, <<t1, t1, t2>>}
=============================================================================
