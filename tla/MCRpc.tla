------------------------------- MODULE MCRpc -------------------------------
(* Small instances of Rpc for model checking.                              *)
EXTENDS Rpc

CONSTANTS r1, r2, r3

\* The second request's reply is the larger one.
TwoSizes == [r \in Req |-> IF r = r1 THEN 1 ELSE 2]
=============================================================================
