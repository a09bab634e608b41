--------------------------- MODULE MCStatusBoard ---------------------------
(* StatusBoard for TLC: requests and handler threads are interchangeable.   *)
EXTENDS StatusBoard, TLC

BoardSymmetry == Permutations(Rid) \cup Permutations(Handler)
=============================================================================
