---------------------------- MODULE MCValuations ----------------------------
(* Instances of Valuations for TLC.                                        *)
EXTENDS Valuations, TLC

CONSTANTS t1, t2, acme

\* One tick reprices every trade.
OneSymbol == [t \in Trade |-> acme]
=============================================================================
