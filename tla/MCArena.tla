------------------------------ MODULE MCArena ------------------------------
(* Small instances of Arena for model checking.                            *)
EXTENDS Arena

CONSTANTS h1, h2, r1, r2, c1, c2

\* Objects of one and two bytes that share the slot size of two bytes.
OneSlotSize == [id \in Object |-> IF id \in Hashed THEN 1 ELSE 2]

\* Objects of none, two and three bytes: slots of two and of four bytes.
TwoSlotSizes ==
  [id \in Object |-> IF id = h1 THEN 0 ELSE IF id = r1 THEN 3 ELSE 2]
=============================================================================
