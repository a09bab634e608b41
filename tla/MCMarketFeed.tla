---------------------------- MODULE MCMarketFeed ----------------------------
(* Instances of MarketFeed for TLC: connections are interchangeable.       *)
EXTENDS MarketFeed, TLC

ConnSymmetry == Permutations(Conn)
=============================================================================
