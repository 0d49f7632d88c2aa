----------------------------- MODULE MCDeployer -----------------------------
(* Small instances of the deployment helper.                                *)
EXTENDS Deployer, TLC
CONSTANTS e1, e2, v1, v2
OneService == {v1}
TwoServices == {v1, v2}
OneExample == {e1}
TwoExamples == {e1, e2}
ServiceSymmetry == Permutations(TwoServices)
=============================================================================
