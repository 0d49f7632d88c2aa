---------------------------- MODULE MCLoadServer ----------------------------
(* A server with two workers and up to three calls at the same time.        *)
EXTENDS LoadServer
CONSTANTS c1, c2, c3, i1, i2
ThreeCalls == {c1, c2, c3}
TwoInits == {i1, i2}
=============================================================================
