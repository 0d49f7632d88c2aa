----------------------------- MODULE MCPullAgent -----------------------------
(* Small instances of the pull worker.                                      *)
EXTENDS PullAgent, TLC
CONSTANTS m1, m2, s1, s2
NoRequests == {}
OddRequest == {m2}
TwoMessages == {m1, m2}
OneSlot == {s1}
TwoSlots == {s1, s2}
SlotSymmetry == Permutations(TwoSlots)
=============================================================================
