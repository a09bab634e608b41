--------------------------- MODULE MCTradeAction ---------------------------
(* TradeAction for TLC: model values for the clients, requests and trades.  *)
EXTENDS TradeAction, TLC

CONSTANTS r1, r2, t1, t2, c1, h1, h2

MCRid2 == {r1, r2}
MCTrade2 == {t1, t2}
MCClient1 == {c1}
MCHandler1 == {h1}
MCHandler2 == {h1, h2}

\* Interchangeable names; used only where no liveness property is checked.
Symmetry == Permutations(Rid) \cup Permutations(TradeId)
            \cup Permutations(Client) \cup Permutations(Handler)

\* uuid4 never runs out: there is an unused trade_id for every request.
ASSUME FreshIds == Cardinality(Rid) <= Cardinality(TradeId)
=============================================================================
