--------------------------- MODULE MCBookMetrics ---------------------------
(* Instances of BookMetrics for TLC.                                       *)
EXTENDS BookMetrics, TLC

CONSTANTS t1, t2, t3, b1, b2

\* Two trades of one book, whose values can cancel, and one of another.
Values == {-1, 0, 1}
Books == (t1 :> b1) @@ (t2 :> b1) @@ (t3 :> b2)
=============================================================================
