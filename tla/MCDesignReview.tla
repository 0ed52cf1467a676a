--------------------------- MODULE MCDesignReview ---------------------------
(* Small instances of DesignReview for TLC.                                 *)
EXTENDS DesignReview

CONSTANTS w1, w2

TwoWorkers == {w1, w2}

=============================================================================
