---------------------------- MODULE BookMetrics ----------------------------
(***************************************************************************)
(* book_metrics_service of pricing-service: every benchmark tick samples   *)
(* the value of each book and the level of the index, turns both into      *)
(* returns over the last sampling interval, appends the pair to the book's *)
(* rolling window and computes alpha and beta from the window.             *)
(*                                                                         *)
(* The pricing thread runs all of it between two pricings, so a tick is    *)
(* one step.  A return is modelled by the two observations it is formed    *)
(* from and alpha and beta by the window they are computed from; a book's  *)
(* value matters because a return over a value of zero is not formed.      *)
(*                                                                         *)
(* An operator whose comment says "Slip:" is a bug one could plausibly     *)
(* make in the definition that follows it; no specification uses it.       *)
(***************************************************************************)
EXTENDS Integers, Sequences, FiniteSets, FiniteSetsExt

CONSTANTS Book, Trade, BookOf,
          FairValue,   \* the fair values a trade can have, zero among them
          NoValue,     \* no entry in a dict
          Window,      \* BOOK_METRICS_WINDOW
          MaxTick,     \* bound: benchmark ticks
          MaxRestarts  \* bound: restarts of pricing-service

ASSUME MetricsAssumption ==
    /\ BookOf \in [Trade -> Book]
    /\ FairValue \subseteq Int /\ NoValue \notin Int
    /\ Window \in Nat \ {0} /\ MaxTick \in Nat /\ MaxRestarts \in Nat

VARIABLES
    tick,       \* benchmark ticks published so far
    store,      \* valuations_store: the latest fair value of each trade
    lastBook,   \* last_book_value: NoValue or the value and when it was sampled
    lastLevel,  \* last_benchmark_level: 0 (None) or when it was sampled
    returns,    \* book_returns: the windows
    metrics,    \* metrics_store: the window the metrics were computed from
    restarts

vars == <<tick, store, lastBook, lastLevel, returns, metrics, restarts>>

MinObservations == 2

Cleared ==
    /\ store' = [t \in Trade |-> NoValue]
    /\ lastBook' = [b \in Book |-> NoValue]
    /\ lastLevel' = 0
    /\ returns' = [b \in Book |-> <<>>]
    /\ metrics' = [b \in Book |-> NoValue]

Init ==
    /\ tick = 0
    /\ store = [t \in Trade |-> NoValue]
    /\ lastBook = [b \in Book |-> NoValue]
    /\ lastLevel = 0
    /\ returns = [b \in Book |-> <<>>]
    /\ metrics = [b \in Book |-> NoValue]
    /\ restarts = 0

\* store_and_publish replaces a trade's valuation; nothing removes one.
PriceTrade(t) ==
    /\ \E v \in FairValue : store' = [store EXCEPT ![t] = v]
    /\ UNCHANGED <<tick, lastBook, lastLevel, returns, metrics, restarts>>

\* Trades of book b that snapshot_book_values adds up; a book without one is
\* not in its result.
\* Slip: `if not fair_value` takes a value of zero for a missing one.
PricedNonZero(b) == {t \in Trade : BookOf[t] = b /\ store[t] \notin {NoValue, 0}}
Priced(b) == {t \in Trade : BookOf[t] = b /\ store[t] # NoValue}
BookValue(b) == MapThenSumSet(LAMBDA t : store[t], Priced(b))
Sampled == {b \in Book : Priced(b) # {}}

Formed(b) == lastBook[b] # NoValue /\ lastBook[b].value # 0

\* deque(maxlen=WINDOW).
\* Slip: the pair goes to the old end of the deque.
RollLeft(w, p) == <<p>> \o (IF Len(w) < Window THEN w ELSE Tail(w))
Roll(w, p) == IF Len(w) < Window THEN Append(w, p) ELSE Append(Tail(w), p)

\* The windows after observation `now`, when lastLevel is not None.
Rolled(now) ==
    [b \in Book |->
       IF b \in Sampled /\ Formed(b)
       THEN Roll(returns[b], [book |-> <<lastBook[b].at, now>>,
                              benchmark |-> <<lastLevel, now>>])
       ELSE returns[b]]

\* update_book_metrics returns early without a return or with too few pairs.
\* Slip: the metrics are computed from the window before the append.
MetricsBefore(now) ==
    [b \in Book |->
       IF b \in Sampled /\ Formed(b) /\ Len(returns[b]) >= MinObservations
       THEN returns[b] ELSE metrics[b]]
MetricsAfter(now) ==
    [b \in Book |->
       IF b \in Sampled /\ Formed(b) /\ Len(Rolled(now)[b]) >= MinObservations
       THEN Rolled(now)[b] ELSE metrics[b]]

\* on_benchmark_tick.  The first level only seeds: there is no return yet.
Observe ==
    /\ tick < MaxTick
    /\ tick' = tick + 1
    /\ lastLevel' = tick + 1
    /\ lastBook' = [b \in Book |-> IF b \in Sampled
                       THEN [at |-> tick + 1, value |-> BookValue(b)]
                       ELSE lastBook[b]]
    /\ IF lastLevel = 0
       THEN UNCHANGED <<returns, metrics>>
       ELSE /\ returns' = Rolled(tick + 1)
            /\ metrics' = MetricsAfter(tick + 1)
    /\ UNCHANGED <<store, restarts>>

\* The market stream is down when a tick is published, or the tick carries no
\* level: the tick is not observed.
Miss ==
    /\ tick < MaxTick
    /\ tick' = tick + 1
    /\ UNCHANGED <<store, lastBook, lastLevel, returns, metrics, restarts>>

Restart ==
    /\ restarts < MaxRestarts
    /\ restarts' = restarts + 1
    /\ Cleared
    /\ UNCHANGED tick

Next == (\E t \in Trade : PriceTrade(t)) \/ Observe \/ Miss \/ Restart

Spec == Init /\ [][Next]_vars

-----------------------------------------------------------------------------
(* Properties                                                              *)

\* README.md: sampling both series on the same clock guarantees that they are
\* aligned.  In every pair the book's return and the index's return are formed
\* from the same two observations, however late a book appears, whatever ticks
\* are missed and whichever returns cannot be formed.
Aligned ==
    \A b \in Book : \A i \in DOMAIN returns[b] :
       returns[b][i].book = returns[b][i].benchmark

\* Intervals of one window do not overlap, and follow one another in time.
Chronological ==
    \A b \in Book : \A i, j \in DOMAIN returns[b] :
       i < j => returns[b][i].book[2] <= returns[b][j].book[1]

\* What the API serves for a book is computed from its present window, as soon
\* as that holds two pairs and never before.
MetricsFresh ==
    \A b \in Book :
       metrics[b] = IF Len(returns[b]) >= MinObservations THEN returns[b] ELSE NoValue
=============================================================================
