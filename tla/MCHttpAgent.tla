----------------------------- MODULE MCHttpAgent -----------------------------
(* A small instance of the HTTP front ends.                                 *)
EXTENDS HttpAgent
CONSTANTS m1, m2, s1, s2
TwoMessages == {m1, m2}
OddRequest == {m1}
TwoSlots == {s1, s2}
\* A batch of two calls, either of which may lack its argument, and an empty one.
BatchSizes == [m \in TwoMessages |-> IF m = m1 THEN 2 ELSE 0]
=============================================================================
