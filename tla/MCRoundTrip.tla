----------------------------- MODULE MCRoundTrip -----------------------------
(* A small instance of the round-trip generator.                            *)
EXTENDS RoundTrip
CONSTANTS i1, i2
TwoItems == {i1, i2}
=============================================================================
