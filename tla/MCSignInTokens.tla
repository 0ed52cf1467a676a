--------------------------- MODULE MCSignInTokens ---------------------------
(* Small instances of SignInTokens for TLC.                                 *)
EXTENDS SignInTokens, TLC

CONSTANTS r1, r2, f1

TwoRuns == {r1, r2}
RunSymmetry == Permutations(Runs)

=============================================================================
