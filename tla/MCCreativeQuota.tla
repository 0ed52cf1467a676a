--------------------------- MODULE MCCreativeQuota ---------------------------
(* Small instances of CreativeQuota for TLC.                                *)
EXTENDS CreativeQuota, TLC

CONSTANTS j1, j2

TwoJobs == {j1, j2}
JobSymmetry == Permutations(TwoJobs)

=============================================================================
