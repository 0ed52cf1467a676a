--------------------------- MODULE MCDesignFiles ---------------------------
(* A small instance of DesignFiles for TLC.                                 *)
EXTENDS DesignFiles

CONSTANTS r1, r2, w1, w2

TwoRequests == {r1, r2}
TwoWorkers == {w1, w2}

=============================================================================
