------------------------- MODULE BookMetricsProofs -------------------------
(***************************************************************************)
(* Theorems about BookMetrics, for any books, trades, fair values, window  *)
(* and numbers of ticks and restarts.                                      *)
(*                                                                         *)
(* The sum of a book's fair values (BookValue) is never looked into: what  *)
(* is proved holds whatever value a book has.                              *)
(***************************************************************************)
EXTENDS BookMetrics, TLAPS

-----------------------------------------------------------------------------
(* The inductive invariant                                                 *)

Returned == [book : Nat \X Nat, benchmark : Nat \X Nat]

Shapes ==
    /\ tick \in Nat /\ lastLevel \in Nat /\ lastLevel <= tick
    /\ store \in [Trade -> FairValue \cup {NoValue}]
    /\ lastBook = [b \in Book |-> lastBook[b]]
    /\ returns \in [Book -> Seq(Returned)]
    /\ metrics = [b \in Book |-> metrics[b]]

\* A book that has a last value was sampled at the index's last observation.
SampledLast == \A b \in Book : lastBook[b] # NoValue => lastBook[b].at = lastLevel

\* ... and will be at the next one, since a valuation is never removed.
ValuedStays == \A b \in Book : lastBook[b] # NoValue => b \in Sampled

\* Every return of a window was complete at the last observation.
Past == \A b \in Book : \A i \in DOMAIN returns[b] :
           /\ returns[b][i].book[1] <= returns[b][i].book[2]
           /\ returns[b][i].book[2] <= lastLevel

Inv == Shapes /\ SampledLast /\ ValuedStays /\ Past
         /\ Aligned /\ Chronological /\ MetricsFresh

-----------------------------------------------------------------------------
(* Rolling windows                                                         *)

\* Appending to a bounded deque: the newest element is the one given, every
\* other was there before, and no two change their order.
LEMMA RollIsWindow ==
    ASSUME NEW w \in Seq(Returned), NEW p \in Returned
    PROVE  /\ Roll(w, p) \in Seq(Returned)
           /\ Len(Roll(w, p)) \in 1..(Len(w) + 1)
           /\ Len(Roll(w, p)) >= Len(w)
           /\ Roll(w, p)[Len(Roll(w, p))] = p
           /\ \E d \in {0, 1} : \A i \in 1..(Len(Roll(w, p)) - 1) :
                 i + d \in DOMAIN w /\ Roll(w, p)[i] = w[i + d]
<1>1. CASE Len(w) < Window
  <2>1. Roll(w, p) = Append(w, p)  BY <1>1 DEF Roll
  <2>2. \A i \in 1..(Len(Append(w, p)) - 1) :
           i + 0 \in DOMAIN w /\ Append(w, p)[i] = w[i + 0]
    OBVIOUS
  <2> QED  BY <2>1, <2>2
<1>2. CASE ~(Len(w) < Window)
  <2>1. Roll(w, p) = Append(Tail(w), p)  BY <1>2 DEF Roll
  <2>2. w # <<>> /\ Len(w) \in Nat \ {0}
    BY <1>2, MetricsAssumption DEF MetricsAssumption
  <2>3. Tail(w) \in Seq(Returned) /\ Len(Tail(w)) = Len(w) - 1
    BY <2>2
  <2>4. \A i \in 1..Len(Tail(w)) : i + 1 \in DOMAIN w /\ Tail(w)[i] = w[i + 1]
    BY <2>2, <2>3
  <2>5. \A i \in 1..(Len(Append(Tail(w), p)) - 1) :
           i + 1 \in DOMAIN w /\ Append(Tail(w), p)[i] = w[i + 1]
    BY <2>3, <2>4
  <2> QED  BY <2>1, <2>2, <2>3, <2>5
<1> QED  BY <1>1, <1>2

-----------------------------------------------------------------------------
(* The steps                                                               *)

\* Before the first observation nothing is in a window.
LEMMA InitInv == Init => Inv
<1> SUFFICES ASSUME Init PROVE Inv  OBVIOUS
<1>1. Shapes  BY DEF Init, Shapes
<1>2. SampledLast /\ ValuedStays  BY DEF Init, SampledLast, ValuedStays
<1>3. Past /\ Aligned /\ Chronological  BY DEF Init, Past, Aligned, Chronological
<1>4. MetricsFresh  BY DEF Init, MetricsFresh, MinObservations
<1> QED  BY <1>1, <1>2, <1>3, <1>4 DEF Inv

\* A restart forgets everything but the time.
LEMMA RestartInv == Inv /\ Restart => Inv'
<1> SUFFICES ASSUME Inv, Restart PROVE Inv'  OBVIOUS
<1> USE DEF Restart, Cleared
<1>1. Shapes'  BY DEF Inv, Shapes
<1>2. SampledLast' /\ ValuedStays'  BY DEF SampledLast, ValuedStays
<1>3. Past' /\ Aligned' /\ Chronological'  BY DEF Past, Aligned, Chronological
<1>4. MetricsFresh'  BY DEF MetricsFresh, MinObservations
<1> QED  BY <1>1, <1>2, <1>3, <1>4 DEF Inv

\* Pricing a trade touches no window, and removes nothing from the store.
LEMMA PriceTradeInv == ASSUME NEW t \in Trade PROVE Inv /\ PriceTrade(t) => Inv'
<1> SUFFICES ASSUME Inv, PriceTrade(t) PROVE Inv'  OBVIOUS
<1> PICK v \in FairValue : store' = [store EXCEPT ![t] = v]  BY DEF PriceTrade
<1>1. UNCHANGED <<tick, lastBook, lastLevel, returns, metrics>>  BY DEF PriceTrade
<1>2. v # NoValue  BY MetricsAssumption DEF MetricsAssumption
<1>3. Shapes'  BY <1>1 DEF Inv, Shapes
<1>4. \A s \in Trade : store[s] # NoValue => store'[s] # NoValue
  BY <1>2 DEF Inv, Shapes
<1>5. Sampled \subseteq Sampled'  BY <1>4 DEF Sampled, Priced
<1>6. ValuedStays'  BY <1>1, <1>5 DEF Inv, ValuedStays
<1>7. SampledLast' /\ Past' /\ Aligned' /\ Chronological' /\ MetricsFresh'
  BY <1>1 DEF Inv, SampledLast, Past, Aligned, Chronological, MetricsFresh
<1> QED  BY <1>3, <1>6, <1>7 DEF Inv

\* What an observation does to one window.
LEMMA RolledWindow ==
    ASSUME Inv, lastLevel # 0, NEW b \in Book, NEW now, now = tick + 1,
           b \in Sampled, Formed(b)
    PROVE  LET p == [book |-> <<lastLevel, now>>, benchmark |-> <<lastLevel, now>>]
           IN  p \in Returned /\ Rolled(now)[b] = Roll(returns[b], p)
<1>1. lastBook[b].at = lastLevel  BY DEF Inv, SampledLast, Formed
<1>2. lastLevel \in Nat /\ now \in Nat  BY DEF Inv, Shapes
<1> QED  BY <1>1, <1>2 DEF Rolled, Returned

\* A benchmark tick: sample, form the returns, roll the windows, compute.
LEMMA ObserveInv == Inv /\ Observe => Inv'
<1> SUFFICES ASSUME Inv, Observe PROVE Inv'  OBVIOUS
<1> DEFINE now == tick + 1
<1>1. now \in Nat /\ lastLevel \in Nat /\ lastLevel < now
      /\ tick' = now /\ lastLevel' = now /\ store' = store
  BY DEF Inv, Shapes, Observe
<1>2. lastBook' = [b \in Book |-> IF b \in Sampled
                       THEN [at |-> now, value |-> BookValue(b)] ELSE lastBook[b]]
  BY DEF Observe
<1>3. Sampled' = Sampled  BY <1>1 DEF Sampled, Priced
<1>4. SampledLast'
  <2> SUFFICES ASSUME NEW b \in Book, lastBook'[b] # NoValue
               PROVE  lastBook'[b].at = lastLevel'
    BY DEF SampledLast
  <2>1. CASE b \in Sampled  BY <2>1, <1>1, <1>2
  <2>2. CASE b \notin Sampled  BY <2>2, <1>2 DEF Inv, ValuedStays
  <2> QED  BY <2>1, <2>2
<1>5. ValuedStays'  BY <1>2, <1>3 DEF Inv, ValuedStays
<1>6. CASE lastLevel = 0
  <2>1. returns' = returns /\ metrics' = metrics  BY <1>6 DEF Observe
  <2>2. Shapes'  BY <1>1, <1>2, <2>1 DEF Inv, Shapes
  <2>3. Past'
    <3> SUFFICES ASSUME NEW b \in Book, NEW i \in DOMAIN returns[b]
                 PROVE  /\ returns[b][i].book[1] <= returns[b][i].book[2]
                        /\ returns[b][i].book[2] <= now
      BY <1>1, <2>1 DEF Past
    <3>1. returns[b] \in Seq(Returned)  BY DEF Inv, Shapes
    <3>2. returns[b][i] \in Returned  BY <3>1
    <3> QED  BY <1>1, <3>2 DEF Inv, Past, Returned
  <2>4. Aligned' /\ Chronological' /\ MetricsFresh'
    BY <2>1 DEF Inv, Aligned, Chronological, MetricsFresh
  <2> QED  BY <1>4, <1>5, <2>2, <2>3, <2>4 DEF Inv
<1>7. CASE lastLevel # 0
  <2> DEFINE p == [book |-> <<lastLevel, now>>, benchmark |-> <<lastLevel, now>>]
             Adds(b) == b \in Sampled /\ Formed(b)
  <2>1. returns' = Rolled(now) /\ metrics' = MetricsAfter(now)
    BY <1>7 DEF Observe
  <2>2. \A b \in Book : Adds(b) => p \in Returned /\ returns'[b] = Roll(returns[b], p)
    BY <2>1, <1>7, <1>1, RolledWindow
  <2>3. \A b \in Book : ~Adds(b) => returns'[b] = returns[b]
    BY <2>1 DEF Rolled
  <2>4. \A b \in Book : returns[b] \in Seq(Returned)  BY DEF Inv, Shapes
  <2>5. \A b \in Book : returns'[b] \in Seq(Returned)
    BY <2>2, <2>3, <2>4, RollIsWindow
  <2>6. Shapes'
    <3>1. returns' \in [Book -> Seq(Returned)]  BY <2>1, <2>5 DEF Rolled
    <3>2. metrics' = [b \in Book |-> metrics'[b]]  BY <2>1 DEF MetricsAfter
    <3> QED  BY <1>1, <1>2, <3>1, <3>2 DEF Inv, Shapes
  \* Old pairs end at the last level, where the new one begins.
  <2>7. ASSUME NEW b \in Book
        PROVE  /\ \A i \in DOMAIN returns'[b] :
                     /\ returns'[b][i].book = returns'[b][i].benchmark
                     /\ returns'[b][i].book[1] <= returns'[b][i].book[2]
                     /\ returns'[b][i].book[2] <= now
               /\ \A i, j \in DOMAIN returns'[b] :
                     i < j => returns'[b][i].book[2] <= returns'[b][j].book[1]
    <3>1. \A i \in DOMAIN returns[b] :
             /\ returns[b][i] \in Returned
             /\ returns[b][i].book = returns[b][i].benchmark
             /\ returns[b][i].book[1] <= returns[b][i].book[2]
             /\ returns[b][i].book[2] <= lastLevel
      BY <2>4 DEF Inv, Past, Aligned
    <3>2. \A i, j \in DOMAIN returns[b] :
             i < j => returns[b][i].book[2] <= returns[b][j].book[1]
      BY DEF Inv, Chronological
    <3>3. CASE ~Adds(b)
      <4>1. returns'[b] = returns[b]  BY <2>3, <3>3
      <4> QED  BY <4>1, <3>1, <3>2, <1>1 DEF Returned
    <3>4. CASE Adds(b)
      <4> DEFINE old == returns[b]
                 new == returns'[b]
                 n == Len(new)
      <4>1. p \in Returned /\ old \in Seq(Returned) /\ new = Roll(old, p)
        BY <2>2, <2>4, <3>4
      <4>5. p.book = p.benchmark /\ p.book[1] = lastLevel /\ p.book[2] = now
        OBVIOUS
      <4> HIDE DEF p, new, old, now
      <4>6. /\ new \in Seq(Returned) /\ n \in 1..(Len(old) + 1) /\ new[n] = p
            /\ \E d \in {0, 1} : \A i \in 1..(n - 1) :
                 i + d \in DOMAIN old /\ new[i] = old[i + d]
        BY <4>1, RollIsWindow, Zenon
      <4>2. new \in Seq(Returned) /\ n \in Nat \ {0} /\ new[n] = p
        BY <4>1, <4>6
      <4>3. PICK d \in {0, 1} : \A i \in 1..(n - 1) :
                 i + d \in DOMAIN old /\ new[i] = old[i + d]
        BY <4>6
      <4>4. \A i \in DOMAIN new : i \in 1..n  BY <4>2
      <4> HIDE DEF n
      <4>9. \A i \in 1..(n - 1) : new[i].book[2] <= lastLevel
        BY <4>3, <3>1 DEF old
      <4>7. \A i \in DOMAIN new :
                 /\ new[i].book = new[i].benchmark
                 /\ new[i].book[1] <= new[i].book[2]
                 /\ new[i].book[2] <= now
        <5> SUFFICES ASSUME NEW i \in DOMAIN new
                     PROVE  /\ new[i].book = new[i].benchmark
                            /\ new[i].book[1] <= new[i].book[2]
                            /\ new[i].book[2] <= now
          OBVIOUS
        <5>1. CASE i = n  BY <5>1, <4>2, <4>5, <1>1 DEF now
        <5>2. CASE i # n
          <6>1. i + d \in DOMAIN old /\ new[i] = old[i + d]  BY <5>2, <4>2, <4>3, <4>4
          <6>2. old[i + d] \in Returned  BY <6>1, <3>1 DEF old
          <6> QED  BY <6>1, <6>2, <3>1, <1>1 DEF old, Returned, now
        <5> QED  BY <5>1, <5>2
      <4>8. \A i, j \in DOMAIN new : i < j => new[i].book[2] <= new[j].book[1]
        <5> SUFFICES ASSUME NEW i \in DOMAIN new, NEW j \in DOMAIN new, i < j
                     PROVE  new[i].book[2] <= new[j].book[1]
          OBVIOUS
        <5>1. i \in 1..(n - 1)  BY <4>2, <4>4
        <5>2. CASE j = n  BY <5>1, <5>2, <4>2, <4>5, <4>9
        <5>3. CASE j # n
          <6>1. j \in 1..(n - 1)  BY <5>3, <4>2, <4>4
          <6>2. /\ i + d \in DOMAIN old /\ j + d \in DOMAIN old
                /\ new[i] = old[i + d] /\ new[j] = old[j + d]
            BY <5>1, <6>1, <4>3
          <6>3. i + d < j + d  BY <5>1, <6>1, <4>2
          <6> QED  BY <6>2, <6>3, <3>2 DEF old
        <5> QED  BY <5>2, <5>3
      <4> QED  BY <4>7, <4>8 DEF new
    <3> QED  BY <3>3, <3>4
  <2>8. Past' /\ Aligned' /\ Chronological'
    BY <2>7, <1>1 DEF Past, Aligned, Chronological
  <2>9. MetricsFresh'
    <3> SUFFICES ASSUME NEW b \in Book
                 PROVE  metrics'[b] = IF Len(returns'[b]) >= MinObservations
                                      THEN returns'[b] ELSE NoValue
      BY DEF MetricsFresh
    <3>1. metrics[b] = IF Len(returns[b]) >= MinObservations
                       THEN returns[b] ELSE NoValue
      BY DEF Inv, MetricsFresh
    <3>2. metrics'[b] = IF Adds(b) /\ Len(returns'[b]) >= MinObservations
                        THEN returns'[b] ELSE metrics[b]
      BY <2>1 DEF MetricsAfter
    <3>3. CASE ~Adds(b)  BY <3>1, <3>2, <3>3, <2>3
    <3>4. CASE Adds(b)
      <4>1. /\ p \in Returned /\ returns[b] \in Seq(Returned)
            /\ returns'[b] = Roll(returns[b], p)
        BY <3>4, <2>2, <2>4
      <4>2. Len(Roll(returns[b], p)) >= Len(returns[b])
        BY <4>1, RollIsWindow, Zenon
      <4>3. Len(returns'[b]) \in Nat /\ Len(returns[b]) \in Nat
        BY <2>4, <2>5
      <4> QED  BY <4>1, <4>2, <4>3, <3>1, <3>2, <3>4 DEF MinObservations
    <3> QED  BY <3>3, <3>4
  <2> QED  BY <1>4, <1>5, <2>6, <2>8, <2>9 DEF Inv
<1> QED  BY <1>6, <1>7

\* Every step keeps the invariant.
LEMMA NextInv == Inv /\ [Next]_vars => Inv'
<1> SUFFICES ASSUME Inv, [Next]_vars PROVE Inv'  OBVIOUS
<1>1. ASSUME NEW t \in Trade, PriceTrade(t) PROVE Inv'  BY <1>1, PriceTradeInv
<1>2. CASE Observe  BY <1>2, ObserveInv
<1>3. CASE Restart  BY <1>3, RestartInv
<1>4. ASSUME UNCHANGED <<store, lastBook, lastLevel, returns, metrics>>,
             tick' \in Nat, tick' >= tick
      PROVE  Inv'
  <2>1. Shapes'  BY <1>4 DEF Inv, Shapes
  <2>2. SampledLast' /\ ValuedStays' /\ Past'
    BY <1>4 DEF Inv, SampledLast, ValuedStays, Past, Sampled, Priced
  <2>3. Aligned' /\ Chronological' /\ MetricsFresh'
    BY <1>4 DEF Inv, Aligned, Chronological, MetricsFresh
  <2> QED  BY <2>1, <2>2, <2>3 DEF Inv
<1>5. CASE Miss  BY <1>4, <1>5 DEF Miss, Inv, Shapes
<1>6. CASE UNCHANGED vars  BY <1>4, <1>6 DEF vars, Inv, Shapes
<1> QED  BY <1>1, <1>2, <1>3, <1>5, <1>6 DEF Next

\* The invariant holds of every behaviour.
LEMMA InvAlways == Spec => []Inv
BY InitInv, NextInv, PTL DEF Spec

-----------------------------------------------------------------------------
(* The theorems                                                            *)

\* In every window the book's and the index's returns span the same interval.
THEOREM AlignedAlways == Spec => []Aligned
<1>1. Inv => Aligned  BY DEF Inv
<1> QED  BY <1>1, InvAlways, PTL

\* The intervals of a window follow one another in time.
THEOREM ChronologicalAlways == Spec => []Chronological
<1>1. Inv => Chronological  BY DEF Inv
<1> QED  BY <1>1, InvAlways, PTL

\* The metrics served for a book are those of its present window.
THEOREM MetricsFreshAlways == Spec => []MetricsFresh
<1>1. Inv => MetricsFresh  BY DEF Inv
<1> QED  BY <1>1, InvAlways, PTL
=============================================================================
