---------------------------- MODULE TradeLedger ----------------------------
(***************************************************************************)
(* What the trade-action service promises about the trades and valuations  *)
(* tables, whatever its queue, retries, failures and restarts do: a trade  *)
(* is opened at most once for a request that asked for it, is closed at    *)
(* most once and only because some request asked for that, and a closing   *)
(* valuation appears in the very step that closes the trade.               *)
(***************************************************************************)
EXTENDS Naturals

CONSTANTS Rid,       \* client_request_id values
          TradeId,   \* primary keys of the trades table
          NoRid,     \* the client_request_id of a row that does not exist
          NoTrade    \* the trade_id of a request that names no existing trade

VARIABLES asked,     \* trade actions that clients have asked for
          status,    \* status[t]: "NONE" (no row), "ACTIVE" or "CLOSED"
          openedBy,  \* openedBy[t]: the client_request_id in row t
          closing    \* closing[t]: number of closing valuations of trade t

vars == <<asked, status, openedBy, closing>>

Action == {"OPEN_TRADE", "CLOSE_TRADE", "INVALID"}
Payload == [action : Action, rid : Rid, trade : TradeId \cup {NoTrade}]

Init == /\ asked = {}
        /\ status = [t \in TradeId |-> "NONE"]
        /\ openedBy = [t \in TradeId |-> NoRid]
        /\ closing = [t \in TradeId |-> 0]

\* Clients make up their minds; a client_request_id is used for one payload.
Ask == /\ \E new \in SUBSET Payload :
             /\ \A p \in new : \A q \in asked : p.rid # q.rid
             /\ asked' = asked \cup new
       /\ UNCHANGED <<status, openedBy, closing>>

Open(p, t) ==
    /\ p \in asked /\ p.action = "OPEN_TRADE"
    /\ status[t] = "NONE"
    /\ \A u \in TradeId : openedBy[u] # p.rid
    /\ status' = [status EXCEPT ![t] = "ACTIVE"]
    /\ openedBy' = [openedBy EXCEPT ![t] = p.rid]
    /\ UNCHANGED <<asked, closing>>

Close(p) ==
    /\ p \in asked /\ p.action = "CLOSE_TRADE"
    /\ p.trade \in TradeId
    /\ status[p.trade] = "ACTIVE"
    /\ closing[p.trade] = 0
    /\ status' = [status EXCEPT ![p.trade] = "CLOSED"]
    /\ closing' = [closing EXCEPT ![p.trade] = 1]
    /\ UNCHANGED <<asked, openedBy>>

Next == \/ Ask
        \/ \E p \in Payload : (\E t \in TradeId : Open(p, t)) \/ Close(p)

Spec == Init /\ [][Next]_vars
=============================================================================
