---------------------------- MODULE MCTradeDesk ----------------------------
(* TradeDesk for TLC: books, their names and callers are interchangeable;   *)
(* trades and threads are not, new ones being CHOOSEn.                      *)
EXTENDS TradeDesk, TLC

DeskSymmetry == Permutations(Book) \cup Permutations(Name) \cup Permutations(Caller)
=============================================================================
