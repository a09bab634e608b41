----------------------------- MODULE MarketFeed -----------------------------
(***************************************************************************)
(* market-data-service: market_worker generates a cycle of ticks, replaces *)
(* the snapshot, puts every tick on the queue of every /stream subscriber  *)
(* and hands the cycle to db_worker; metric_worker counts cycles for       *)
(* /health.  The snapshot and the list of subscribers share data_lock,     *)
(* which publish_tick_to_stream holds for a whole cycle while the threads  *)
(* that serve the streams go on reading their own queues.                  *)
(*                                                                         *)
(* A tick is <<cycle, position in the cycle>>; prices are not modelled.    *)
(*                                                                         *)
(* An operator whose comment says "Slip:" is a bug one could plausibly     *)
(* make in the definition that follows it; no specification uses it.       *)
(***************************************************************************)
EXTENDS Naturals, Sequences, FiniteSets

CONSTANTS Conn,       \* GET /stream requests, each with a queue of its own
          MaxCycle,   \* bound: cycles generated
          SaveWorks   \* outcomes of a database commit, a subset of BOOLEAN

ASSUME FeedAssumption ==
    /\ MaxCycle \in Nat \ {0}
    /\ SaveWorks \subseteq BOOLEAN

VARIABLES
    cycle,        \* calls of generate_market_tick
    pc,           \* what market_worker does next
    next,         \* position of the tick that publish_tick_to_stream puts next
    snapshot,     \* the cycle market_tick_data_state holds
    subscribers,  \* worker.subscribers
    conn,         \* the threads that serve /stream
    inbox,        \* inbox[c]: the client_queue of connection c
    taken,        \* history: the ticks the thread of c took off its queue
    metricsQueue, \* EVENT_GENERATED messages metric_worker has not read
    health,       \* health_stats["generated_events"]
    dbQueue,      \* cycles db_worker has not taken
    buffer,       \* records db_worker has built and not saved
    spot          \* the market_data_spot_prices table

stream == <<subscribers, conn, inbox, taken>>
storage == <<dbQueue, buffer, spot>>
vars == <<cycle, pc, next, snapshot, subscribers, conn, inbox, taken,
          metricsQueue, health, dbQueue, buffer, spot>>

\* The instruments of a cycle, in the order of the dict that is published.
Instruments == <<"ACME_OPT", "IRS", "MARKET_INDEX", "ACME", "GOVT_5Y", "EURUSD",
                 "USD_YIELD_CURVE", "EUR_YIELD_CURVE">>
N == Len(Instruments)
IsCurve(i) == Instruments[i] \in {"USD_YIELD_CURVE", "EUR_YIELD_CURVE"}
HasSymbol(i) == Instruments[i] # "IRS"
Tick == (1..MaxCycle) \X (1..N)
Cycle(n) == [i \in 1..N |-> <<n, i>>]

\* __main__ generates a cycle and stores it before any thread starts.
Init ==
    /\ cycle = 1
    /\ pc = "generate"
    /\ next = 1
    /\ snapshot = 1
    /\ subscribers = {}
    /\ conn = [c \in Conn |-> "new"]
    /\ inbox = [c \in Conn |-> <<>>]
    /\ taken = [c \in Conn |-> <<>>]
    /\ metricsQueue = 1
    /\ health = 0
    /\ dbQueue = <<>>
    /\ buffer = <<>>
    /\ spot = {}

\* Only publish_tick_to_stream keeps data_lock over more than one step.
Locked == pc = "put"

-----------------------------------------------------------------------------
(* market_worker                                                           *)

Generate ==
    /\ pc = "generate"
    /\ cycle < MaxCycle
    /\ cycle' = cycle + 1
    /\ metricsQueue' = metricsQueue + 1
    /\ pc' = "update"
    /\ UNCHANGED <<next, snapshot, stream, health, storage>>

\* Slip: update_snapshot fills a local variable (no `global` statement).
UpdateSnapshotLocal ==
    /\ pc = "update"
    /\ pc' = "publish"
    /\ UNCHANGED <<cycle, next, snapshot, stream, metricsQueue, health, storage>>
UpdateSnapshot ==
    /\ pc = "update"
    /\ snapshot' = cycle
    /\ pc' = "publish"
    /\ UNCHANGED <<cycle, next, stream, metricsQueue, health, storage>>

\* publish_tick_to_stream takes data_lock ...
LockStream ==
    /\ pc = "publish"
    /\ pc' = "put"
    /\ next' = 1
    /\ UNCHANGED <<cycle, snapshot, stream, metricsQueue, health, storage>>

\* ... puts one tick after the other on every queue, and releases the lock.
\* Slip: client queues get a maxsize and a full one is skipped.
PutTickBounded ==
    /\ pc = "put"
    /\ inbox' = [c \in Conn |-> IF c \in subscribers /\ Len(inbox[c]) < N
                                THEN Append(inbox[c], <<cycle, next>>)
                                ELSE inbox[c]]
    /\ \/ next < N /\ next' = next + 1 /\ pc' = "put"
       \/ next = N /\ next' = 1 /\ pc' = "persist"
    /\ UNCHANGED <<cycle, snapshot, subscribers, conn, taken, metricsQueue,
                   health, storage>>
PutTick ==
    /\ pc = "put"
    /\ inbox' = [c \in Conn |-> IF c \in subscribers
                                THEN Append(inbox[c], <<cycle, next>>)
                                ELSE inbox[c]]
    /\ \/ next < N /\ next' = next + 1 /\ pc' = "put"
       \/ next = N /\ next' = 1 /\ pc' = "persist"
    /\ UNCHANGED <<cycle, snapshot, subscribers, conn, taken, metricsQueue,
                   health, storage>>

\* market_worker calls neither persist_curves nor persist_full_snapshot.
Persist ==
    /\ pc = "persist"
    /\ dbQueue' = Append(dbQueue, cycle)
    /\ pc' = "generate"
    /\ UNCHANGED <<cycle, next, snapshot, stream, metricsQueue, health,
                   buffer, spot>>

-----------------------------------------------------------------------------
(* The threads that serve GET /stream                                      *)

\* Slip: the new queue is appended without data_lock.
JoinUnlocked(c) ==
    /\ conn[c] = "new"
    /\ subscribers' = subscribers \cup {c}
    /\ conn' = [conn EXCEPT ![c] = "open"]
    /\ UNCHANGED <<cycle, pc, next, snapshot, inbox, taken, metricsQueue, health,
                   storage>>
Join(c) ==
    /\ conn[c] = "new"
    /\ ~Locked
    /\ subscribers' = subscribers \cup {c}
    /\ conn' = [conn EXCEPT ![c] = "open"]
    /\ UNCHANGED <<cycle, pc, next, snapshot, inbox, taken, metricsQueue, health,
                   storage>>

Deliver(c) ==
    /\ conn[c] = "open"
    /\ inbox[c] # <<>>
    /\ taken' = [taken EXCEPT ![c] = Append(@, Head(inbox[c]))]
    /\ inbox' = [inbox EXCEPT ![c] = Tail(@)]
    /\ UNCHANGED <<cycle, pc, next, snapshot, subscribers, conn, metricsQueue,
                   health, storage>>

\* The client goes away.
Disconnect(c) ==
    /\ conn[c] = "open"
    /\ conn' = [conn EXCEPT ![c] = "dead"]
    /\ UNCHANGED <<cycle, pc, next, snapshot, subscribers, inbox, taken,
                   metricsQueue, health, storage>>

\* Its thread, blocked in client_queue.get(), notices when it writes the next
\* tick: the generator is closed and `finally` looks for the queue, unlocked.
\* Slip: the generator goes on with the next tick.
WriteFailsIgnored(c) ==
    /\ conn[c] = "dead"
    /\ inbox[c] # <<>>
    /\ taken' = [taken EXCEPT ![c] = Append(@, Head(inbox[c]))]
    /\ inbox' = [inbox EXCEPT ![c] = Tail(@)]
    /\ UNCHANGED <<cycle, pc, next, snapshot, subscribers, conn,
                   metricsQueue, health, storage>>
WriteFails(c) ==
    /\ conn[c] = "dead"
    /\ inbox[c] # <<>>
    /\ taken' = [taken EXCEPT ![c] = Append(@, Head(inbox[c]))]
    /\ inbox' = [inbox EXCEPT ![c] = Tail(@)]
    /\ conn' = [conn EXCEPT ![c] = IF c \in subscribers THEN "leaving" ELSE "gone"]
    /\ UNCHANGED <<cycle, pc, next, snapshot, subscribers, metricsQueue,
                   health, storage>>

\* Slip: `finally` logs the disconnect and removes nothing.
LeaveForgets(c) ==
    /\ conn[c] = "leaving"
    /\ ~Locked
    /\ conn' = [conn EXCEPT ![c] = "gone"]
    /\ UNCHANGED <<cycle, pc, next, snapshot, subscribers, inbox, taken,
                   metricsQueue, health, storage>>
Leave(c) ==
    /\ conn[c] = "leaving"
    /\ ~Locked
    /\ subscribers' = subscribers \ {c}
    /\ conn' = [conn EXCEPT ![c] = "gone"]
    /\ UNCHANGED <<cycle, pc, next, snapshot, inbox, taken, metricsQueue, health,
                   storage>>

-----------------------------------------------------------------------------
(* metric_worker and db_worker                                             *)

MetricWorker ==
    /\ metricsQueue > 0
    /\ metricsQueue' = metricsQueue - 1
    /\ health' = health + 1
    /\ UNCHANGED <<cycle, pc, next, snapshot, stream, storage>>

BatchSize == 30

\* data["symbol"] of a tick that is not a curve: a tick without one raises.
Raises == \E i \in 1..N : ~IsCurve(i) /\ ~HasSymbol(i)
Records(n) == LET IsSpot(tick) == ~IsCurve(tick[2]) IN SelectSeq(Cycle(n), IsSpot)

\* One turn of the loop: whatever is raised clears the buffer and is logged.
\* Slip: the inner `except` clears nothing and raises again; the thread ends
\* with the cycle it was working on.
DbWorkerDies ==
    /\ dbQueue # <<>>
    /\ ~Raises
    /\ dbQueue' = Tail(dbQueue)
    /\ UNCHANGED <<cycle, pc, next, snapshot, stream, metricsQueue, health,
                   buffer, spot>>
DbWorker ==
    /\ dbQueue # <<>>
    /\ dbQueue' = Tail(dbQueue)
    /\ LET batch == buffer \o Records(Head(dbQueue))
           full == Len(batch) >= BatchSize \/ Tail(dbQueue) = <<>>
       IN  \E saved \in SaveWorks :
             /\ buffer' = IF Raises \/ full THEN <<>> ELSE batch
             /\ spot' = IF ~Raises /\ full /\ saved
                        THEN spot \cup {batch[i] : i \in DOMAIN batch} ELSE spot
    /\ UNCHANGED <<cycle, pc, next, snapshot, stream, metricsQueue, health>>

-----------------------------------------------------------------------------
MarketWorker == Generate \/ UpdateSnapshot \/ LockStream \/ PutTick \/ Persist
StreamThread(c) == Deliver(c) \/ WriteFails(c) \/ Leave(c)

Next ==
    \/ MarketWorker
    \/ MetricWorker
    \/ DbWorker
    \/ \E c \in Conn : Join(c) \/ Disconnect(c) \/ StreamThread(c)

Spec == Init /\ [][Next]_vars

\* Threads are scheduled; nobody has to connect or to disconnect.  Leave waits
\* for a lock that is taken again in every cycle.
FairSpec ==
    /\ Spec
    /\ WF_vars(MarketWorker) /\ WF_vars(MetricWorker) /\ WF_vars(DbWorker)
    /\ \A c \in Conn : WF_vars(Deliver(c) \/ WriteFails(c)) /\ SF_vars(Leave(c))

-----------------------------------------------------------------------------
(* Properties                                                              *)

\* Shape of the state; a subscriber is a connection whose thread still runs.
TypeOK ==
    /\ cycle \in 1..MaxCycle
    /\ pc \in {"generate", "update", "publish", "put", "persist"}
    /\ next \in 1..N
    /\ snapshot \in 1..MaxCycle
    /\ conn \in [Conn -> {"new", "open", "dead", "leaving", "gone"}]
    /\ subscribers = {c \in Conn : conn[c] \in {"open", "dead", "leaving"}}
    /\ inbox \in [Conn -> Seq(Tick)]
    /\ taken \in [Conn -> Seq(Tick)]
    /\ metricsQueue \in Nat /\ health \in Nat
    /\ dbQueue \in Seq(1..MaxCycle)
    /\ buffer \in Seq(Tick) /\ spot \subseteq Tick

Sent(c) == taken[c] \o inbox[c]
Following(tick) == IF tick[2] < N THEN <<tick[1], tick[2] + 1>> ELSE <<tick[1] + 1, 1>>

\* A stream starts at the first tick of a cycle and then carries every tick in
\* order, without gap or repetition: joining and leaving wait for the lock that
\* publish_tick_to_stream holds over a cycle.
StreamWhole ==
    \A c \in Conn :
       /\ Sent(c) # <<>> => Sent(c)[1][2] = 1
       /\ \A i \in 1..(Len(Sent(c)) - 1) : Sent(c)[i + 1] = Following(Sent(c)[i])

\* The tick that was put on the stream last.
LastPut ==
    CASE pc = "put" /\ next > 1 -> <<cycle, next - 1>>
      [] pc \in {"generate", "persist"} -> <<cycle, N>>
      [] OTHER -> <<cycle - 1, N>>

\* The stream keeps the promise of Broadcast: publish_tick_to_stream under
\* data_lock, the client queues and the threads that serve them amount to
\* sending every tick to all members at once, with members that come and go
\* between two cycles only.
Feed == INSTANCE Broadcast WITH
    Reader <- Conn, last <- LastPut, members <- subscribers,
    past <- {c \in Conn : conn[c] # "new"}, sent <- [c \in Conn |-> Sent(c)]
FeedSpec == Feed!Spec

\* GET /snapshot is never older than a tick some client holds: a cycle is
\* stored (update_snapshot) before any of its ticks is published.
SnapshotNotBehind ==
    \A c \in Conn : \A i \in DOMAIN Sent(c) : Sent(c)[i][1] <= snapshot

\* A connection whose client is gone leaves the list of subscribers once a tick
\* waits for it; its queue does not grow for ever.
DeadLeave ==
    \A c \in Conn :
       (conn[c] = "dead" /\ inbox[c] # <<>>) ~> (c \notin subscribers)

\* db_worker survives what it raises and takes every cycle off its queue.
DbDrains == (dbQueue # <<>>) ~> (dbQueue = <<>>)

\* README.md: "Every benchmark tick is stored in market_data_spot_prices."
\* Claimed of a streamed cycle that db_worker is done with.
BenchmarkStored ==
    (dbQueue = <<>> /\ buffer = <<>> /\ pc \in {"generate", "update", "publish", "put"})
       => \A n \in 2..MaxCycle : (n < cycle \/ (n = cycle /\ pc = "generate"))
             => \E tick \in spot : tick[1] = n /\ Instruments[tick[2]] = "MARKET_INDEX"
=============================================================================
