--------------------------- MODULE MCBudgetSplit ---------------------------
(* Small instances of BudgetSplit for TLC.                                  *)
EXTENDS BudgetSplit, TLC

\* Splits that add up: the first channel the smallest, or everything on the last,
\* which then loses more than MaxShift in one pass.
Uneven == {<<20, 40, 40>>, <<0, 0, 100>>}

\* What one pass reads: the first channel is much cheaper, or its figures have
\* become dear, or no platform answers.
Cheap == (1 :> 1) @@ (2 :> 4) @@ (3 :> 4)
Dear  == (1 :> 4) @@ (2 :> 1) @@ (3 :> 0)
Nothing == << >>
SomeReadings == {Cheap, Dear, Nothing}

=============================================================================
