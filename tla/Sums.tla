-------------------------------- MODULE Sums --------------------------------
(***************************************************************************)
(* Adding up, or multiplying, what a function gives over a finite set, as  *)
(* the aggregates of the modelled queries and the allocator's sum() do.    *)
(***************************************************************************)
EXTENDS FiniteSetsExt

Sum(f, S) == MapThenSumSet(LAMBDA c : f[c], S)

Product(f, S) ==
    MapThenFoldSet(LAMBDA x, y : x * y, 1, LAMBDA c : f[c], LAMBDA T : CHOOSE c \in T : TRUE, S)

=============================================================================
