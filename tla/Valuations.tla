----------------------------- MODULE Valuations -----------------------------
(***************************************************************************)
(* pricing-service and blotter-service.  A refresher thread copies the     *)
(* active trades of the database into active_trades_cache; the pricing     *)
(* thread prices the trades a tick concerns, stores each valuation, saves  *)
(* it and puts it on the queue of every /valuation-stream subscriber.  The *)
(* blotter reads one such stream, reconnecting when it breaks, and keeps   *)
(* the latest valuations of every trade for the UI.                        *)
(*                                                                         *)
(* A valuation is the number of its computation (its valuation_time);      *)
(* prices are not modelled.  The trades table belongs to                   *)
(* trade-action-service: Open and Close are its commits.                   *)
(*                                                                         *)
(* An operator whose comment says "Slip:" is a bug one could plausibly     *)
(* make in the definition that follows it; no specification uses it.       *)
(***************************************************************************)
EXTENDS Naturals, Sequences, FiniteSets, SequencesExt

CONSTANTS Trade, NoTrade,
          Symbol, SymbolOf,   \* the symbol of every trade
          Conn, NoConn,       \* bound: /valuation-stream requests of the blotter
          CacheLimit,         \* default limit of get_trades
          MaxHistory,         \* MAX_VALUATIONS_PER_TRADE
          MaxPriced,          \* bound: valuations computed
          MaxFaults,          \* bound: database calls that raise
          MaxRestarts         \* bound: restarts of either service

ASSUME ValuationAssumption ==
    /\ NoTrade \notin Trade /\ NoConn \notin Conn
    /\ SymbolOf \in [Trade -> Symbol]
    /\ CacheLimit \in Nat \ {0} /\ MaxHistory \in Nat \ {0}
    /\ MaxPriced \in Nat /\ MaxFaults \in Nat /\ MaxRestarts \in Nat

VARIABLES
    created,    \* the trades of the database, in the order of created_at
    closed,     \* those with status CLOSED
    rows,       \* rows[t]: live valuations of t in the valuations table
    fetched,    \* what the refresher has read and not yet installed
    refresher,  \* the refresher's next step
    cache,      \* active_trades_cache
    feed,       \* pricing_worker's loop around the market-data stream
    connection, \* connection_status, which GET /health reports
    step,       \* what the pricing thread does next
    todo,       \* matching_trades not priced yet
    current,    \* the trade in store_and_publish
    priced,     \* valuations computed so far
    store,      \* valuations_store, 0: no entry
    subscribers,\* sse_subscribers
    conn,       \* the threads that serve /valuation-stream
    snap,       \* snap[c]: what the thread of c still yields of its snapshot
    inbox,      \* inbox[c]: its client_queue
    blotter,    \* valuation_worker: connecting, reading or dead
    link,       \* the connection it reads
    history,    \* valuation_cache: the last valuations received, per trade
    faults, restarts

table == <<created, closed>>
caching == <<fetched, refresher, cache>>
pricing == <<feed, connection, step, todo, current, priced, store>>
streaming == <<subscribers, conn, snap, inbox>>
reading == <<blotter, link, history>>
vars == <<created, closed, rows, fetched, refresher, cache, feed, connection, step, todo,
          current, priced, store, subscribers, conn, snap, inbox, blotter, link,
          history, faults, restarts>>

Valuation == Trade \X (1..MaxPriced)

Init ==
    /\ created = <<>> /\ closed = {}
    /\ rows = [t \in Trade |-> {}]
    /\ fetched = {} /\ refresher = "query" /\ cache = {}
    /\ feed = "new" /\ connection = "DISCONNECTED"
    /\ step = "tick" /\ todo = {} /\ current = NoTrade
    /\ priced = 0
    /\ store = [t \in Trade |-> 0]
    /\ subscribers = {}
    /\ conn = [c \in Conn |-> "new"]
    /\ snap = [c \in Conn |-> <<>>] /\ inbox = [c \in Conn |-> <<>>]
    /\ blotter = "connect" /\ link = NoConn
    /\ history = [t \in Trade |-> <<>>]
    /\ faults = 0 /\ restarts = 0

Raised == faults < MaxFaults /\ faults' = faults + 1
Works == UNCHANGED faults

-----------------------------------------------------------------------------
(* trade-action-service                                                    *)

Open(t) ==
    /\ t \notin ToSet(created)
    /\ created' = Append(created, t)
    /\ UNCHANGED <<closed, rows, caching, pricing, streaming, reading, faults, restarts>>

Close(t) ==
    /\ t \in ToSet(created) \ closed
    /\ closed' = closed \cup {t}
    /\ UNCHANGED <<created, rows, caching, pricing, streaming, reading, faults, restarts>>

-----------------------------------------------------------------------------
(* cache_refresh_worker                                                    *)

\* Rows of get_trades, whose query asks for status ACTIVE.
Active == {i \in DOMAIN created : created[i] \notin closed}
NewerThan(k) == Cardinality({i \in Active : i > k})

\* get_trades with its default limit: the newest CacheLimit active trades.
\* Slip: ordered by created_at, oldest first.
OldestActive ==
    {created[k] : k \in {k \in Active : Cardinality({i \in Active : i < k}) < CacheLimit}}
NewestActive ==
    {created[k] : k \in {k \in Active : NewerThan(k) < CacheLimit}}

\* A query that raises is logged; the cache stays until the next round.
ReloadQuery ==
    /\ refresher = "query"
    /\ \/ Works /\ fetched' = NewestActive /\ refresher' = "swap"
       \/ Raised /\ UNCHANGED <<fetched, refresher>>
    /\ UNCHANGED <<table, rows, cache, pricing, streaming, reading, restarts>>

\* Slip: the new entries are added without clearing the dict.
ReloadMerge ==
    /\ refresher = "swap"
    /\ cache' = cache \cup fetched
    /\ fetched' = {} /\ refresher' = "query"
    /\ UNCHANGED <<table, rows, pricing, streaming, reading, faults, restarts>>
ReloadSwap ==
    /\ refresher = "swap"
    /\ cache' = fetched
    /\ fetched' = {} /\ refresher' = "query"
    /\ UNCHANGED <<table, rows, pricing, streaming, reading, faults, restarts>>

-----------------------------------------------------------------------------
(* pricing_worker                                                          *)

work == <<step, todo, current, priced, store>>
FeedUnchanged == UNCHANGED <<table, rows, caching, work, streaming, reading, restarts>>

\* "Pricing worker started" is audited outside the loop.
FeedStart ==
    /\ feed = "new"
    /\ \/ Works /\ feed' = "lost"
       \/ Raised /\ feed' = "dead"
    /\ UNCHANGED connection /\ FeedUnchanged

\* connect_to_market_data_stream begins ...
FeedConnect ==
    /\ feed = "lost"
    /\ feed' = "connecting" /\ connection' = "RECONNECTING"
    /\ Works /\ FeedUnchanged

\* ... and has the stream, unless the audit write that says so raises ...
FeedOpened ==
    /\ feed = "connecting"
    /\ connection' = "CONNECTED"
    /\ \/ Works /\ feed' = "up"
       \/ Raised /\ feed' = "failing"
    /\ FeedUnchanged

\* ... or urlopen raises, and an audit write of that, if it raises too, changes
\* nothing more.
FeedRefused ==
    /\ feed = "connecting"
    /\ feed' = "failing" /\ connection' = "DISCONNECTED"
    /\ Works \/ Raised
    /\ FeedUnchanged

\* Slip: the loop has no outer `except`.
FeedLostUncaught ==
    /\ feed = "up" /\ step = "tick"
    /\ feed' = "dead"
    /\ UNCHANGED connection /\ Works /\ FeedUnchanged
\* The stream ends, and the loop connects again at once; or it breaks, or a
\* curve tick's get_curve raises.
FeedLost ==
    /\ feed = "up" /\ step = "tick"
    /\ \/ feed' = "connecting" /\ connection' = "RECONNECTING"
       \/ feed' = "failing" /\ UNCHANGED connection
    /\ Works /\ FeedUnchanged

\* Slip: the loss is audited before it is noted.
FeedExceptAuditFirst ==
    /\ feed = "failing"
    /\ \/ Works /\ feed' = "lost" /\ connection' = "DISCONNECTED"
       \/ Raised /\ feed' = "dead" /\ UNCHANGED connection
    /\ FeedUnchanged
\* The outer `except`: its audit write may raise and so end the thread.
FeedExcept ==
    /\ feed = "failing"
    /\ connection' = "DISCONNECTED"
    /\ \/ Works /\ feed' = "lost"
       \/ Raised /\ feed' = "dead"
    /\ FeedUnchanged

\* recalculate_valuations: the trades of the tick's symbol, read under
\* cache_lock and priced afterwards, whatever the refresher does meanwhile.
TakeTick(s) ==
    /\ feed = "up" /\ step = "tick"
    /\ todo' = {t \in cache : SymbolOf[t] = s}
    /\ todo' # {}
    /\ step' = "price"
    /\ UNCHANGED <<table, rows, caching, feed, connection, current, priced, store,
                   streaming, reading, faults, restarts>>

NextTrade(rest) == IF rest = {} THEN "tick" ELSE "price"

\* Missing inputs, or an error that the loop logs.
SkipTrade(t) ==
    /\ step = "price" /\ t \in todo
    /\ todo' = todo \ {t}
    /\ step' = NextTrade(todo \ {t})
    /\ UNCHANGED <<table, rows, caching, feed, connection, current, priced, store,
                   streaming, reading, faults, restarts>>

\* store_and_publish: the store, under pricing_lock ...
StoreValuation(t) ==
    /\ step = "price" /\ t \in todo /\ priced < MaxPriced
    /\ priced' = priced + 1
    /\ store' = [store EXCEPT ![t] = priced + 1]
    /\ current' = t /\ todo' = todo \ {t} /\ step' = "save"
    /\ UNCHANGED <<table, rows, caching, feed, connection, streaming, reading, faults, restarts>>

\* ... the valuations table, whose errors save_valuation swallows ...
\* Slip: the row is added to the session and never committed.
SaveUncommitted ==
    /\ step = "save"
    /\ Works \/ Raised
    /\ step' = "publish"
    /\ UNCHANGED <<table, rows, caching, feed, connection, todo, current, priced, store, streaming,
                   reading, restarts>>
SaveValuation ==
    /\ step = "save"
    /\ \/ Works /\ rows' = [rows EXCEPT ![current] = @ \cup {store[current]}]
       \/ Raised /\ UNCHANGED rows
    /\ step' = "publish"
    /\ UNCHANGED <<table, caching, feed, connection, todo, current, priced, store, streaming,
                   reading, restarts>>

\* ... and every subscriber's queue, under sse_subscribers_lock.
\* Slip: the valuation is published before and after the save.
PublishTwice ==
    /\ step = "publish"
    /\ inbox' = [c \in Conn |-> IF c \in subscribers
                                THEN inbox[c] \o <<<<current, store[current]>>,
                                                  <<current, store[current]>>>>
                                ELSE inbox[c]]
    /\ current' = NoTrade /\ step' = NextTrade(todo)
    /\ UNCHANGED <<table, rows, caching, feed, connection, todo, priced, store, subscribers,
                   conn, snap, reading, faults, restarts>>
PublishValuation ==
    /\ step = "publish"
    /\ inbox' = [c \in Conn |-> IF c \in subscribers
                                THEN Append(inbox[c], <<current, store[current]>>)
                                ELSE inbox[c]]
    /\ current' = NoTrade /\ step' = NextTrade(todo)
    /\ UNCHANGED <<table, rows, caching, feed, connection, todo, priced, store, subscribers,
                   conn, snap, reading, faults, restarts>>

-----------------------------------------------------------------------------
(* The threads that serve /valuation-stream, and the blotter's reader      *)

\* urlopen reaches the service: the handler registers a queue first.
Connect(c) ==
    /\ blotter = "connect" /\ conn[c] = "new"
    /\ conn' = [conn EXCEPT ![c] = "registered"]
    /\ subscribers' = subscribers \cup {c}
    /\ blotter' = "read" /\ link' = c
    /\ UNCHANGED <<table, rows, caching, pricing, snap, inbox, history, faults, restarts>>

Stored == {v \in Valuation : store[v[1]] = v[2]}

\* The generator starts: it copies the store under pricing_lock.
TakeSnapshot(c) ==
    /\ conn[c] = "registered"
    /\ conn' = [conn EXCEPT ![c] = "streaming"]
    /\ snap' = [snap EXCEPT ![c] = SetToSeq(Stored)]
    /\ UNCHANGED <<table, rows, caching, pricing, subscribers, inbox, reading,
                   faults, restarts>>

\* update_cache appends and keeps the last MaxHistory entries.
\* Slip: the slice keeps the first entries.
KeepFirst(s) == SubSeq(s, 1, IF Len(s) < MaxHistory THEN Len(s) ELSE MaxHistory)
\* Slip: off by one, the slice keeps an entry too many.
KeepOneMore(s) == SubSeq(s, IF Len(s) > MaxHistory THEN Len(s) - MaxHistory ELSE 1, Len(s))
KeepLast(s) == SubSeq(s, IF Len(s) > MaxHistory THEN Len(s) - MaxHistory + 1 ELSE 1, Len(s))

\* The thread yields the next valuation, of its snapshot first.  If nobody
\* reads the connection any more the write fails and `finally` removes the
\* queue from the subscribers.
Yield(c) ==
    /\ conn[c] = "streaming"
    /\ \/ /\ snap[c] # <<>>
          /\ snap' = [snap EXCEPT ![c] = Tail(@)] /\ UNCHANGED inbox
       \/ /\ snap[c] = <<>> /\ inbox[c] # <<>>
          /\ inbox' = [inbox EXCEPT ![c] = Tail(@)] /\ UNCHANGED snap
    /\ LET v == Head(snap[c] \o inbox[c])
       IN  IF link = c
           THEN /\ history' = [history EXCEPT ![v[1]] = KeepLast(Append(@, v[2]))]
                /\ UNCHANGED conn
           ELSE /\ conn' = [conn EXCEPT ![c] = "ending"]
                /\ UNCHANGED history
    /\ UNCHANGED <<table, rows, caching, pricing, subscribers, blotter, link,
                   faults, restarts>>

Unsubscribe(c) ==
    /\ conn[c] = "ending"
    /\ conn' = [conn EXCEPT ![c] = "gone"]
    /\ subscribers' = subscribers \ {c}
    /\ UNCHANGED <<table, rows, caching, pricing, snap, inbox, reading, faults, restarts>>

\* The connection breaks or no valuation comes for 30 s; the reader audits the
\* loss, sleeps and connects again.  If the audit write raises, it dies.  (An
\* audit write that raises right after connecting has the same effect.)
\* Slip: the reader does not leave its read loop.
DropUnnoticed ==
    /\ blotter = "read" /\ \E c \in Conn : conn[c] = "new"
    /\ link' = NoConn /\ UNCHANGED blotter
    /\ UNCHANGED <<table, rows, caching, pricing, streaming, history, faults, restarts>>
Drop ==
    /\ blotter = "read" /\ \E c \in Conn : conn[c] = "new"
    /\ link' = NoConn
    /\ \/ Works /\ blotter' = "connect"
       \/ Raised /\ blotter' = "dead"
    /\ UNCHANGED <<table, rows, caching, pricing, streaming, history, restarts>>

-----------------------------------------------------------------------------
(* Restarts: everything but the database is in memory.                     *)

RestartPricing ==
    /\ restarts < MaxRestarts /\ \E c \in Conn : conn[c] = "new"
    /\ restarts' = restarts + 1
    /\ fetched' = {} /\ refresher' = "query" /\ cache' = {}
    /\ feed' = "new" /\ connection' = "DISCONNECTED"
    /\ step' = "tick" /\ todo' = {} /\ current' = NoTrade
    /\ store' = [t \in Trade |-> 0]
    /\ subscribers' = {}
    /\ conn' = [c \in Conn |-> IF conn[c] = "new" THEN "new" ELSE "gone"]
    /\ snap' = [c \in Conn |-> <<>>] /\ inbox' = [c \in Conn |-> <<>>]
    /\ link' = NoConn
    /\ blotter' = IF blotter = "read" THEN "connect" ELSE blotter
    /\ UNCHANGED <<table, rows, priced, history, faults>>

RestartBlotter ==
    /\ restarts < MaxRestarts /\ \E c \in Conn : conn[c] = "new"
    /\ restarts' = restarts + 1
    /\ blotter' = "connect" /\ link' = NoConn
    /\ history' = [t \in Trade |-> <<>>]
    /\ UNCHANGED <<table, rows, caching, pricing, streaming, faults>>

-----------------------------------------------------------------------------
FeedThread == FeedStart \/ FeedConnect \/ FeedExcept
Refresher == ReloadQuery \/ ReloadSwap
PriceTrade == \E t \in Trade : SkipTrade(t) \/ StoreValuation(t)
PricingThread == PriceTrade \/ SaveValuation \/ PublishValuation
StreamThread(c) == TakeSnapshot(c) \/ Yield(c) \/ Unsubscribe(c)

Next ==
    \/ \E t \in Trade : Open(t) \/ Close(t)
    \/ Refresher
    \/ FeedThread \/ FeedOpened \/ FeedRefused \/ FeedLost
    \/ \E s \in Symbol : TakeTick(s)
    \/ PricingThread
    \/ \E c \in Conn : Connect(c) \/ StreamThread(c)
    \/ Drop
    \/ RestartPricing \/ RestartBlotter

Spec == Init /\ [][Next]_vars

\* Threads are scheduled; market-data-service and the blotter's connection can be
\* reached again in the end, after any number of refusals; no tick and no trade
\* has to come.
FairSpec ==
    /\ Spec
    /\ WF_vars(Refresher) /\ WF_vars(PricingThread) /\ WF_vars(FeedThread)
    /\ SF_vars(FeedOpened)
    /\ \A c \in Conn : WF_vars(StreamThread(c))
    /\ WF_vars(\E c \in Conn : Connect(c))

-----------------------------------------------------------------------------
(* Properties                                                              *)

TypeOK ==
    /\ created \in Seq(Trade) /\ closed \subseteq ToSet(created)
    /\ rows \in [Trade -> SUBSET (1..MaxPriced)]
    /\ fetched \subseteq Trade /\ cache \subseteq Trade
    /\ Cardinality(cache) <= CacheLimit
    /\ refresher \in {"query", "swap"}
    /\ feed \in {"new", "lost", "connecting", "failing", "up", "dead"}
    /\ connection \in {"CONNECTED", "RECONNECTING", "DISCONNECTED"}
    /\ step \in {"tick", "price", "save", "publish"}
    /\ todo \subseteq Trade /\ (step = "price" => todo # {})
    /\ current \in Trade \cup {NoTrade}
    /\ (current # NoTrade) <=> (step \in {"save", "publish"})
    /\ priced \in 0..MaxPriced /\ store \in [Trade -> 0..MaxPriced]
    /\ conn \in [Conn -> {"new", "registered", "streaming", "ending", "gone"}]
    /\ subscribers = {c \in Conn : conn[c] \in {"registered", "streaming", "ending"}}
    /\ snap \in [Conn -> Seq(Valuation)] /\ inbox \in [Conn -> Seq(Valuation)]
    /\ blotter \in {"connect", "read", "dead"}
    /\ link \in Conn \cup {NoConn} /\ (blotter = "read" <=> link # NoConn)
    /\ history \in [Trade -> Seq(1..MaxPriced)]
    /\ \A t \in Trade : Len(history[t]) <= MaxHistory
    /\ faults \in 0..MaxFaults /\ restarts \in 0..MaxRestarts

\* What will be yielded on connection c, where it is about trade t, and what the
\* blotter shows of t once it has been.
Coming(c) == snap[c] \o inbox[c]
About(s, t) == {i \in DOMAIN s : s[i][1] = t}
Latest(t) == IF history[t] = <<>> THEN 0 ELSE Last(history[t])
Outcome(c, t) == IF About(Coming(c), t) = {} THEN Latest(t)
                 ELSE Coming(c)[Max(About(Coming(c), t))][2]

\* While the blotter reads a stream, what it shows of a trade, once it has read
\* what is on its way, is the trade's valuation in the pricing store: nothing
\* stored around registering, copying the store or reconnecting is lost.  Only
\* a valuation that is not yet published, or not yet copied, may be missing.
NothingMissed ==
    link # NoConn =>
       \A t \in Trade :
          (store[t] # 0 /\ t # current /\ conn[link] # "registered")
             => Outcome(link, t) = store[t]

\* On one connection the queued valuations of a trade only get newer; the one
\* step back a client can see is from the snapshot to its queue.
QueueInOrder ==
    \A c \in Conn : \A i, j \in DOMAIN inbox[c] :
       i < j => inbox[c][i][2] < inbox[c][j][2]

\* Every valuation has its row in the valuations table, unless its save raised
\* or a restart came first: each costs at most one row.
SavesAccounted ==
    LET saved == UNION {rows[t] : t \in Trade}
        saving == IF step = "save" THEN {store[current]} ELSE {}
    IN  Cardinality((1..priced) \ (saved \cup saving)) <= faults + restarts

\* GET /health, whose status is UP even when the pricing thread has died, tells
\* by market_data_connection: CONNECTED while the thread reads the stream,
\* DISCONNECTED when it has lost it or died, whatever raised on the way.
ConnectionShown ==
    /\ feed = "up" => connection = "CONNECTED"
    /\ feed \in {"new", "lost", "dead"} => connection = "DISCONNECTED"

\* The blotter ends up showing the store's valuations for good, through lost
\* connections and restarts, unless its reader has died.
BlotterSettles ==
    <>[](blotter = "dead" \/ \A t \in Trade : store[t] # 0 => Latest(t) = store[t])

\* After a trade has been closed its pricing comes to an end for good: it leaves
\* the cache at a refresh, and what the tick loop, which never looks at the
\* database, had copied of it before is worked off.
ClosedPricedNoMore ==
    \A t \in Trade : (t \in closed) ~> [](t \notin cache \cup todo /\ t # current)

\* An open trade reaches the cache and can be priced, or it is closed first or
\* CacheLimit newer active trades crowd it out.
OpenReachesCache ==
    \A t \in Trade :
       (t \in ToSet(created)) ~>
          (t \in cache \/ \E k \in DOMAIN created :
                            created[k] = t /\ (t \in closed \/ NewerThan(k) >= CacheLimit))

\* As long as no database call has raised, a broken market-data stream is
\* always opened again: only the audit write of the `except` ends the thread.
FeedRecovers == (feed # "up") ~> (feed = "up" \/ faults > 0)
=============================================================================
