------------------------------ MODULE MCSources ------------------------------
(* Instances of Sources for TLC. *)
EXTENDS Sources, TLC

CONSTANTS j1, j2, i1, i2

Policy(on, safe, disable) == [on |-> on, safe |-> safe, disable |-> disable]
OneJob == {j1}
TwoJobs == {j1, j2}
NoItems == {}
OneItem == {i1}
TwoItems == {i1, i2}
Contents == {1, 2}
OneContent == {1}
ManualOrSafe == {Policy(FALSE, safe, TRUE) : safe \in BOOLEAN}
OnOrOff == {Policy(TRUE, FALSE, FALSE), Policy(FALSE, FALSE, FALSE)}
ManualOnly == {Policy(FALSE, FALSE, FALSE)}
OnManual == {Policy(TRUE, FALSE, FALSE)}
JobSymmetry == Permutations({j1, j2})
ItemSymmetry == Permutations({i1, i2})
=============================================================================
