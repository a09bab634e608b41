-------------------------- MODULE MarketFeedProofs --------------------------
(***************************************************************************)
(* What holds of MarketFeed for every set of connections and any number of *)
(* cycles: its type invariant; that streams are whole and the snapshot is  *)
(* never behind them; that it implements Broadcast; and that its storage   *)
(* worker never stores a price.                                            *)
(***************************************************************************)
EXTENDS MarketFeed, TLAPS

-----------------------------------------------------------------------------
(* Sequences and constants.                                                *)

\* Taking an element off a queue and adding it to what was taken leaves the
\* concatenation of the two alone.
LEMMA MoveHead ==
    ASSUME NEW S, NEW s \in Seq(S), NEW q \in Seq(S), q # <<>>
    PROVE  Append(s, Head(q)) \o Tail(q) = s \o q
<1> DEFINE left == Append(s, Head(q)) \o Tail(q)
           right == s \o q
<1>1. /\ Head(q) \in S /\ Tail(q) \in Seq(S) /\ Len(Tail(q)) = Len(q) - 1
      /\ Len(q) \in Nat \ {0} /\ Len(s) \in Nat
  OBVIOUS
<1>2. left \in Seq(S) /\ right \in Seq(S)
  BY <1>1
<1>3. Len(left) = Len(right)
  BY <1>1
<1>4. ASSUME NEW i \in 1..Len(left) PROVE left[i] = right[i]
  <2>1. CASE i <= Len(s)
    BY <1>1, <2>1
  <2>2. CASE i = Len(s) + 1
    BY <1>1, <2>2
  <2>3. CASE i > Len(s) + 1
    BY <1>1, <2>3
  <2> QED BY <1>1, <2>1, <2>2, <2>3
<1> HIDE DEF left, right
<1>5. left = right
  BY <1>2, <1>3, <1>4
<1> QED BY <1>5 DEF left, right

\* Adding to a queue adds to the concatenation.
LEMMA AppendRight ==
    ASSUME NEW S, NEW s \in Seq(S), NEW q \in Seq(S), NEW e \in S
    PROVE  s \o Append(q, e) = Append(s \o q, e)
OBVIOUS

\* The element after what was taken is the head of the queue.
LEMMA HeadIsNext ==
    ASSUME NEW S, NEW s \in Seq(S), NEW q \in Seq(S), q # <<>>
    PROVE  (s \o q)[Len(s) + 1] = Head(q)
<1>1. Len(s) \in Nat /\ Len(q) \in Nat \ {0}
  OBVIOUS
<1>2. Len(s) + 1 \in 1..(Len(s) + Len(q)) /\ (Len(s) + 1) - Len(s) = 1
  BY <1>1
<1>3. (s \o q)[Len(s) + 1] = q[1]
  BY <1>1, <1>2
<1> QED BY <1>1, <1>3

\* A cycle has eight instruments.
LEMMA EightTicks == N = 8
BY DEF N, Instruments

\* The second instrument is the IRS tick, which has no symbol.
LEMMA EveryBatchRaises == Raises
<1>1. 2 \in 1..N
  BY EightTicks
<1>2. Instruments[2] = "IRS"
  BY DEF Instruments
<1> QED BY <1>1, <1>2 DEF Raises, IsCurve, HasSymbol

-----------------------------------------------------------------------------
(* Type correctness.  Every batch raises, so the buffer stays empty and no  *)
(* record has to be built.                                                  *)

NothingSaved == buffer = <<>> /\ spot = {}
TypeInv == TypeOK /\ NothingSaved

\* Nothing has been generated at first.
LEMMA TypeInit == Init => TypeInv
BY FeedAssumption, EightTicks DEF Init, TypeInv, TypeOK, NothingSaved, Tick

\* The steps of market_worker keep the types.
LEMMA TypeMarketWorker == ASSUME TypeInv, MarketWorker PROVE TypeInv'
<1> USE FeedAssumption, EightTicks
    DEF TypeInv, TypeOK, NothingSaved, stream, storage
<1>1. CASE Generate
  BY <1>1 DEF Generate
<1>2. CASE UpdateSnapshot
  BY <1>2 DEF UpdateSnapshot
<1>3. CASE LockStream
  BY <1>3 DEF LockStream
<1>4. CASE PutTick
  <2>1. <<cycle, next>> \in Tick
    BY DEF Tick
  <2>2. inbox' \in [Conn -> Seq(Tick)]
    BY <1>4, <2>1 DEF PutTick
  <2>3. next' \in 1..N /\ pc' \in {"put", "persist"}
    BY <1>4 DEF PutTick
  <2> QED BY <1>4, <2>2, <2>3 DEF PutTick
<1>5. CASE Persist
  BY <1>5 DEF Persist
<1> QED BY <1>1, <1>2, <1>3, <1>4, <1>5 DEF MarketWorker

\* The threads that serve a connection keep the types.
LEMMA TypeStream ==
    ASSUME TypeInv, NEW c \in Conn, Join(c) \/ Disconnect(c) \/ StreamThread(c)
    PROVE  TypeInv'
<1> USE DEF TypeInv, TypeOK, NothingSaved, stream, storage
<1>1. CASE Join(c)
  BY <1>1 DEF Join
<1>2. CASE Disconnect(c)
  BY <1>2 DEF Disconnect
<1>3. ASSUME inbox[c] # <<>>,
             taken' = [taken EXCEPT ![c] = Append(@, Head(inbox[c]))],
             inbox' = [inbox EXCEPT ![c] = Tail(@)]
      PROVE  inbox' \in [Conn -> Seq(Tick)] /\ taken' \in [Conn -> Seq(Tick)]
  <2>1. Head(inbox[c]) \in Tick /\ Tail(inbox[c]) \in Seq(Tick)
    BY <1>3
  <2> QED BY <1>3, <2>1
<1>4. CASE Deliver(c)
  BY <1>3, <1>4 DEF Deliver
<1>5. CASE WriteFails(c)
  BY <1>3, <1>5 DEF WriteFails
<1>6. CASE Leave(c)
  BY <1>6 DEF Leave
<1> QED BY <1>1, <1>2, <1>4, <1>5, <1>6 DEF StreamThread

\* Every step keeps the types.
LEMMA TypeNext == TypeInv /\ [Next]_vars => TypeInv'
<1> SUFFICES ASSUME TypeInv, [Next]_vars PROVE TypeInv'
  OBVIOUS
<1>1. CASE MetricWorker
  BY <1>1 DEF MetricWorker, TypeInv, TypeOK, NothingSaved, stream, storage
<1>2. CASE DbWorker
  <2>1. buffer' = <<>> /\ spot' = {}
    BY <1>2, EveryBatchRaises DEF DbWorker, TypeInv, NothingSaved
  <2>2. dbQueue' \in Seq(1..MaxCycle)
    BY <1>2 DEF DbWorker, TypeInv, TypeOK
  <2> QED BY <1>2, <2>1, <2>2 DEF DbWorker, TypeInv, TypeOK, NothingSaved, stream
<1>3. CASE UNCHANGED vars
  BY <1>3 DEF vars, TypeInv, TypeOK, NothingSaved
<1> QED BY <1>1, <1>2, <1>3, TypeMarketWorker, TypeStream DEF Next

\* The state of market-data-service has its types in every state; above all,
\* the subscribers are the connections whose thread still runs.
THEOREM FeedTypeCorrect == Spec => []TypeOK
<1>1. TypeInv => TypeOK
  BY DEF TypeInv
<1> QED BY <1>1, TypeInit, TypeNext, PTL DEF Spec

\* db_worker never stores a price: however many cycles are published and however
\* its commits end, the IRS tick makes every batch raise before one is made.
THEOREM NothingStored == Spec => [](spot = {})
<1>1. TypeInv => spot = {}
  BY DEF TypeInv, NothingSaved
<1> QED BY <1>1, TypeInit, TypeNext, PTL DEF Spec

-----------------------------------------------------------------------------
(* The stream.                                                              *)

\* The snapshot is the newest cycle, but for the time between generate and
\* update_snapshot.
SnapshotFollows ==
    /\ pc = "update" => cycle > 1 /\ snapshot = cycle - 1
    /\ pc # "update" => snapshot = cycle
    /\ pc \in {"publish", "put"} => cycle > 1
\* A subscriber has been sent the newest tick, once it has been sent any; while
\* a cycle is being put on the queues it has been sent some.
SubscribersCurrent ==
    \A c \in subscribers :
       /\ Sent(c) # <<>> => Sent(c)[Len(Sent(c))] = LastPut
       /\ pc = "put" /\ next > 1 => Sent(c) # <<>>
NewHaveNothing == \A c \in Conn : conn[c] = "new" => Sent(c) = <<>>
StreamInv == /\ SnapshotFollows /\ SubscribersCurrent /\ NewHaveNothing
             /\ StreamWhole /\ SnapshotNotBehind

\* What is sent to a connection is a sequence of ticks.
LEMMA SentType == ASSUME TypeInv, NEW c \in Conn PROVE Sent(c) \in Seq(Tick)
BY DEF TypeInv, TypeOK, Sent

\* At first there is nothing to be whole.
LEMMA StreamInit == Init => StreamInv
<1> SUFFICES ASSUME Init PROVE StreamInv
  OBVIOUS
<1>1. \A c \in Conn : Sent(c) = <<>>
  BY DEF Init, Sent
<1> QED BY <1>1, EightTicks
        DEF Init, StreamInv, SnapshotFollows, SubscribersCurrent, NewHaveNothing,
            StreamWhole, SnapshotNotBehind

\* Steps other than PutTick: what is sent does not change and neither does the
\* tick that was put last, the snapshot never goes back, and a connection that
\* joins has been sent nothing.
LEMMA StreamKept ==
    ASSUME TypeInv, TypeInv', StreamInv, SnapshotFollows', LastPut' = LastPut,
           \A c \in Conn : Sent(c)' = Sent(c),
           \A c \in Conn : conn'[c] = "new" => conn[c] = "new",
           snapshot' >= snapshot,
           \A c \in subscribers' : c \in subscribers \/ (conn[c] = "new" /\ ~Locked'),
           (pc = "put" /\ next > 1) \/ ~(pc' = "put" /\ next' > 1)
    PROVE  StreamInv'
<1>0. subscribers \subseteq Conn /\ subscribers' \subseteq Conn
  BY DEF TypeInv, TypeOK
<1>1. SubscribersCurrent'
  <2> SUFFICES ASSUME NEW c \in subscribers'
               PROVE  /\ Sent(c) # <<>> => Sent(c)[Len(Sent(c))] = LastPut
                      /\ pc' = "put" /\ next' > 1 => Sent(c) # <<>>
    BY <1>0 DEF SubscribersCurrent
  <2>1. CASE c \in subscribers
    BY <2>1 DEF StreamInv, SubscribersCurrent
  <2>2. CASE conn[c] = "new" /\ ~Locked'
    BY <1>0, <2>2 DEF StreamInv, NewHaveNothing, Locked
  <2> QED BY <2>1, <2>2
<1>2. NewHaveNothing'
  BY DEF StreamInv, NewHaveNothing
<1>3. StreamWhole'
  BY DEF StreamInv, StreamWhole, Following
<1>4. SnapshotNotBehind'
  <2> SUFFICES ASSUME NEW c \in Conn, NEW i \in DOMAIN Sent(c)
               PROVE  Sent(c)[i][1] <= snapshot'
    BY DEF SnapshotNotBehind
  <2>1. Sent(c)[i] \in Tick
    BY SentType
  <2>2. Sent(c)[i][1] \in Nat /\ snapshot \in Nat /\ snapshot' \in Nat
    BY <2>1, FeedAssumption DEF Tick, TypeInv, TypeOK
  <2>3. Sent(c)[i][1] <= snapshot
    BY DEF StreamInv, SnapshotNotBehind
  <2> QED BY <2>2, <2>3
<1> QED BY <1>1, <1>2, <1>3, <1>4 DEF StreamInv

\* publish_tick_to_stream adds one tick to what every subscriber was sent, the
\* one that follows the tick that was put last.
LEMMA PutTickSends ==
    ASSUME TypeInv, StreamInv, PutTick
    PROVE  /\ <<cycle, next>> \in Tick
           /\ Following(LastPut) = <<cycle, next>> /\ LastPut' = <<cycle, next>>
           /\ \A c \in Conn : Sent(c)' = IF c \in subscribers
                                         THEN Append(Sent(c), <<cycle, next>>)
                                         ELSE Sent(c)
<1> USE EightTicks, FeedAssumption DEF TypeInv, TypeOK
<1>1. <<cycle, next>> \in Tick
  BY DEF Tick
<1>2. pc = "put" /\ cycle > 1 /\ cycle \in Nat /\ next \in 1..8
  BY DEF PutTick, StreamInv, SnapshotFollows
<1>3. Following(LastPut) = <<cycle, next>>
  <2>1. CASE next = 1
    BY <1>2, <2>1 DEF LastPut, Following
  <2>2. CASE next > 1
    BY <1>2, <2>2 DEF LastPut, Following
  <2> QED BY <1>2, <2>1, <2>2
<1>4. LastPut' = <<cycle, next>>
  BY <1>2 DEF PutTick, LastPut
<1>5. ASSUME NEW c \in Conn
      PROVE  Sent(c)' = IF c \in subscribers THEN Append(Sent(c), <<cycle, next>>)
                        ELSE Sent(c)
  <2>1. taken'[c] = taken[c] /\ taken[c] \in Seq(Tick) /\ inbox[c] \in Seq(Tick)
    BY DEF PutTick
  <2>2. CASE c \in subscribers
    <3>1. inbox'[c] = Append(inbox[c], <<cycle, next>>)
      BY <2>2 DEF PutTick
    <3> QED BY <1>1, <2>1, <2>2, <3>1, AppendRight DEF Sent
  <2>3. CASE c \notin subscribers
    BY <2>1, <2>3 DEF PutTick, Sent
  <2> QED BY <2>2, <2>3
<1> QED BY <1>1, <1>3, <1>4, <1>5

\* A thread that takes a tick off its queue changes nothing that was sent.
LEMMA TakeKeepsSent ==
    ASSUME TypeInv, NEW c \in Conn, inbox[c] # <<>>,
           taken' = [taken EXCEPT ![c] = Append(@, Head(inbox[c]))],
           inbox' = [inbox EXCEPT ![c] = Tail(@)]
    PROVE  \A d \in Conn : Sent(d)' = Sent(d)
<1> SUFFICES ASSUME NEW d \in Conn PROVE Sent(d)' = Sent(d)
  OBVIOUS
<1> USE DEF TypeInv, TypeOK
<1>1. CASE d = c
  <2>1. taken'[c] = Append(taken[c], Head(inbox[c])) /\ inbox'[c] = Tail(inbox[c])
    OBVIOUS
  <2>2. taken[c] \in Seq(Tick) /\ inbox[c] \in Seq(Tick)
    OBVIOUS
  <2> QED BY <1>1, <2>1, <2>2, MoveHead DEF Sent
<1>2. CASE d # c
  BY <1>2 DEF Sent
<1> QED BY <1>1, <1>2

\* A tick of a cycle on its way to the subscribers keeps the streams whole.
LEMMA StreamPut == ASSUME TypeInv, TypeInv', StreamInv, PutTick PROVE StreamInv'
<1> DEFINE tick == <<cycle, next>>
<1> USE FeedAssumption, EightTicks
<1>0. pc = "put" /\ cycle > 1 /\ snapshot = cycle /\ subscribers \subseteq Conn
      /\ cycle \in Nat
  BY DEF PutTick, StreamInv, SnapshotFollows, TypeInv, TypeOK
<1>1. /\ tick \in Tick /\ Following(LastPut) = tick /\ LastPut' = tick
      /\ \A c \in Conn : Sent(c)' = IF c \in subscribers THEN Append(Sent(c), tick)
                                    ELSE Sent(c)
  BY PutTickSends
<1>2. /\ pc' \in {"put", "persist"} /\ UNCHANGED <<cycle, snapshot, subscribers, conn>>
  BY DEF PutTick
<1>3. SnapshotFollows'
  BY <1>0, <1>2 DEF SnapshotFollows
<1>4. SubscribersCurrent'
  BY <1>0, <1>1, <1>2, SentType DEF SubscribersCurrent
<1>5. NewHaveNothing'
  BY <1>1, <1>2 DEF NewHaveNothing, StreamInv, TypeInv, TypeOK
<1>6. StreamWhole'
  <2> SUFFICES ASSUME NEW c \in Conn
               PROVE  /\ Sent(c)' # <<>> => Sent(c)'[1][2] = 1
                      /\ \A i \in 1..(Len(Sent(c)') - 1) :
                            Sent(c)'[i + 1] = Following(Sent(c)'[i])
    BY DEF StreamWhole, Following
  <2>1. Sent(c) \in Seq(Tick)
    BY SentType
  <2>2. CASE c \notin subscribers
    BY <1>1, <2>2 DEF StreamInv, StreamWhole
  <2>3. CASE c \in subscribers
    <3>1. Sent(c)' = Append(Sent(c), tick)
      BY <1>1, <2>3
    <3>2. CASE Sent(c) = <<>>
      <4>1. next = 1
        BY <1>0, <2>3, <3>2 DEF StreamInv, SubscribersCurrent, TypeInv, TypeOK
      <4> QED BY <3>1, <3>2, <4>1
    <3>3. CASE Sent(c) # <<>>
      <4>1. Len(Sent(c)) \in Nat \ {0} /\ Sent(c)[Len(Sent(c))] = LastPut
        BY <2>1, <2>3, <3>3 DEF StreamInv, SubscribersCurrent
      <4>2. Sent(c)'[1] = Sent(c)[1]
        BY <2>1, <1>1, <3>1, <4>1
      <4>3. ASSUME NEW i \in 1..(Len(Sent(c)') - 1)
            PROVE  Sent(c)'[i + 1] = Following(Sent(c)'[i])
        <5>1. Len(Sent(c)') = Len(Sent(c)) + 1 /\ i \in 1..Len(Sent(c))
          BY <2>1, <1>1, <3>1, <4>1
        <5>2. Sent(c)'[i] = Sent(c)[i]
          BY <2>1, <1>1, <3>1, <5>1
        <5>3. CASE i < Len(Sent(c))
          <6>1. Sent(c)'[i + 1] = Sent(c)[i + 1] /\ i \in 1..(Len(Sent(c)) - 1)
            BY <2>1, <1>1, <3>1, <4>1, <5>1, <5>3
          <6> QED BY <5>2, <6>1 DEF StreamInv, StreamWhole
        <5>4. CASE i = Len(Sent(c))
          <6>1. Sent(c)'[i + 1] = tick
            BY <2>1, <1>1, <3>1, <4>1, <5>4
          <6> QED BY <1>1, <4>1, <5>2, <5>4, <6>1
        <5> QED BY <4>1, <5>1, <5>3, <5>4
      <4> QED BY <3>3, <4>2, <4>3 DEF StreamInv, StreamWhole
    <3> QED BY <3>2, <3>3
  <2> QED BY <2>2, <2>3
<1>7. SnapshotNotBehind'
  <2> SUFFICES ASSUME NEW c \in Conn, NEW i \in DOMAIN Sent(c)'
               PROVE  Sent(c)'[i][1] <= snapshot
    BY <1>2 DEF SnapshotNotBehind
  <2>1. Sent(c) \in Seq(Tick)
    BY SentType
  <2>2. CASE i \in DOMAIN Sent(c) /\ Sent(c)'[i] = Sent(c)[i]
    BY <2>2 DEF StreamInv, SnapshotNotBehind
  <2>3. CASE Sent(c)'[i] = tick
    BY <1>0, <2>3
  <2>4. CASE c \in subscribers
    <3>1. Sent(c)' = Append(Sent(c), tick)
      BY <1>1, <2>4
    <3>2. i \in 1..(Len(Sent(c)) + 1) /\ Len(Sent(c)) \in Nat
      BY <1>1, <2>1, <3>1
    <3>3. CASE i = Len(Sent(c)) + 1
      BY <1>1, <2>1, <2>3, <3>1, <3>3
    <3>4. CASE i # Len(Sent(c)) + 1
      BY <1>1, <2>1, <2>2, <3>1, <3>2, <3>4
    <3> QED BY <3>3, <3>4
  <2>5. CASE c \notin subscribers
    BY <1>1, <2>2, <2>5
  <2> QED BY <2>4, <2>5
<1> QED BY <1>3, <1>4, <1>5, <1>6, <1>7 DEF StreamInv

\* Every step keeps the streams whole: market_worker's ...
LEMMA StreamMarketWorker ==
    ASSUME TypeInv, TypeInv', StreamInv, MarketWorker PROVE StreamInv'
<1> USE FeedAssumption, EightTicks DEF stream
<1>1. ASSUME UNCHANGED stream PROVE \A c \in Conn : Sent(c)' = Sent(c)
  BY <1>1 DEF Sent
<1>2. SnapshotFollows /\ cycle \in Nat /\ snapshot \in Nat /\ snapshot' \in Nat
  BY DEF StreamInv, TypeInv, TypeOK
<1>3. CASE Generate
  <2>1. SnapshotFollows' /\ LastPut' = LastPut
    BY <1>2, <1>3 DEF Generate, SnapshotFollows, LastPut, TypeInv, TypeOK
  <2> QED BY <1>1, <1>2, <1>3, <2>1, StreamKept DEF Generate, Locked
<1>4. CASE UpdateSnapshot
  <2>1. SnapshotFollows' /\ LastPut' = LastPut /\ snapshot' >= snapshot
    BY <1>2, <1>4 DEF UpdateSnapshot, SnapshotFollows, LastPut
  <2> QED BY <1>1, <1>2, <1>4, <2>1, StreamKept DEF UpdateSnapshot, Locked
<1>5. CASE LockStream
  <2>1. SnapshotFollows' /\ LastPut' = LastPut
    BY <1>2, <1>5 DEF LockStream, SnapshotFollows, LastPut
  <2> QED BY <1>1, <1>2, <1>5, <2>1, StreamKept DEF LockStream
<1>6. CASE PutTick
  BY <1>6, StreamPut
<1>7. CASE Persist
  <2>1. SnapshotFollows' /\ LastPut' = LastPut
    BY <1>2, <1>7 DEF Persist, SnapshotFollows, LastPut
  <2> QED BY <1>1, <1>2, <1>7, <2>1, StreamKept DEF Persist, Locked
<1> QED BY <1>3, <1>4, <1>5, <1>6, <1>7 DEF MarketWorker

\* ... and everybody else's.
LEMMA StreamNext == TypeInv /\ TypeInv' /\ StreamInv /\ [Next]_vars => StreamInv'
<1> SUFFICES ASSUME TypeInv, TypeInv', StreamInv, [Next]_vars PROVE StreamInv'
  OBVIOUS
<1>1. ASSUME UNCHANGED <<cycle, pc, next, snapshot>>
      PROVE  SnapshotFollows' /\ LastPut' = LastPut /\ snapshot' >= snapshot
  BY <1>1, FeedAssumption DEF StreamInv, SnapshotFollows, LastPut, TypeInv, TypeOK
<1>2. ASSUME UNCHANGED <<inbox, taken>> PROVE \A c \in Conn : Sent(c)' = Sent(c)
  BY <1>2 DEF Sent
<1>3. ASSUME UNCHANGED <<cycle, pc, next, snapshot, subscribers, conn, inbox, taken>>
      PROVE  StreamInv'
  BY <1>1, <1>2, <1>3, StreamKept
<1>4. ASSUME NEW c \in Conn, Join(c) \/ Disconnect(c) \/ StreamThread(c)
      PROVE  StreamInv'
  <2>0. conn \in [Conn -> {"new", "open", "dead", "leaving", "gone"}]
    BY DEF TypeInv, TypeOK
  <2>1. CASE Join(c)
    BY <1>1, <1>2, <2>0, <2>1, StreamKept DEF Join, Locked
  <2>2. CASE Disconnect(c)
    BY <1>1, <1>2, <2>0, <2>2, StreamKept DEF Disconnect
  <2>3. CASE Deliver(c)
    <3>1. \A d \in Conn : Sent(d)' = Sent(d)
      BY <2>3, TakeKeepsSent DEF Deliver
    <3> QED BY <1>1, <2>3, <3>1, StreamKept DEF Deliver
  <2>4. CASE WriteFails(c)
    <3>1. \A d \in Conn : Sent(d)' = Sent(d)
      BY <2>4, TakeKeepsSent DEF WriteFails
    <3>2. \A d \in Conn : conn'[d] = "new" => conn[d] = "new"
      BY <2>0, <2>4 DEF WriteFails
    <3> QED BY <1>1, <2>4, <3>1, <3>2, StreamKept DEF WriteFails
  <2>5. CASE Leave(c)
    <3>1. UNCHANGED <<cycle, pc, next, snapshot, inbox, taken>>
      BY <2>5 DEF Leave
    <3>2. \A d \in Conn : conn'[d] = "new" => conn[d] = "new"
      BY <2>0, <2>5 DEF Leave
    <3>3. subscribers' \subseteq subscribers
      BY <2>5 DEF Leave
    <3> QED BY <1>1, <1>2, <3>1, <3>2, <3>3, StreamKept
  <2> QED BY <1>4, <2>1, <2>2, <2>3, <2>4, <2>5 DEF StreamThread
<1>5. CASE MetricWorker
  BY <1>3, <1>5 DEF MetricWorker, stream
<1>6. CASE DbWorker
  BY <1>3, <1>6 DEF DbWorker, stream
<1>7. CASE UNCHANGED vars
  BY <1>3, <1>7 DEF vars
<1> QED BY <1>4, <1>5, <1>6, <1>7, StreamMarketWorker DEF Next

\* The invariant of the streams holds of every behaviour.
LEMMA StreamInductive == Spec => [](TypeInv /\ StreamInv)
<1>1. TypeInv /\ StreamInv /\ [Next]_vars => (TypeInv /\ StreamInv)'
  BY TypeNext, StreamNext
<1> QED BY <1>1, TypeInit, StreamInit, PTL DEF Spec

\* Every stream starts at the first tick of a cycle and carries every tick after
\* it in order, whoever joins, leaves or dies while publish_tick_to_stream runs.
THEOREM StreamsWhole == Spec => []StreamWhole
<1>1. StreamInv => StreamWhole
  BY DEF StreamInv
<1> QED BY <1>1, StreamInductive, PTL

\* No client holds a tick newer than what GET /snapshot answers.
THEOREM SnapshotFirst == Spec => []SnapshotNotBehind
<1>1. StreamInv => SnapshotNotBehind
  BY DEF StreamInv
<1> QED BY <1>1, StreamInductive, PTL

-----------------------------------------------------------------------------
(* The refinement: every step of the threads is a step of Broadcast or       *)
(* changes nothing that Broadcast speaks of.                                 *)

\* The mapped state, by name.
Ever == {c \in Conn : conn[c] # "new"}
SentTo == [c \in Conn |-> Sent(c)]

\* The initial state maps to that of Broadcast.
LEMMA FeedInit == Init => Feed!Init
<1> SUFFICES ASSUME Init PROVE Feed!Init
  OBVIOUS
<1>1. LastPut = <<1, N>>
  BY DEF Init, LastPut
<1>2. \A c \in Conn : Sent(c) = <<>>
  BY DEF Init, Sent
<1> QED BY <1>1, <1>2 DEF Init, Feed!Init

\* A step that leaves these alone is a stutter of Broadcast.
LEMMA FeedStutter ==
    ASSUME LastPut' = LastPut, UNCHANGED <<subscribers, taken>>, Ever' = Ever,
           \A c \in Conn : Sent(c)' = Sent(c)
    PROVE  UNCHANGED Feed!vars
BY DEF Feed!vars, Ever

\* PutTick is Publish: the tick it puts is the one that follows.
LEMMA FeedPublish == ASSUME TypeInv, StreamInv, PutTick PROVE Feed!Publish
<1>1. /\ Following(LastPut) = <<cycle, next>> /\ LastPut' = <<cycle, next>>
      /\ \A c \in Conn : Sent(c)' = IF c \in subscribers
                                    THEN Append(Sent(c), <<cycle, next>>)
                                    ELSE Sent(c)
  BY PutTickSends
<1>2. Feed!Following(LastPut) = <<cycle, next>>
  BY <1>1 DEF Following, Feed!Following
<1>3. cycle <= MaxCycle
  BY FeedAssumption DEF TypeInv, TypeOK
<1>4. SentTo' = [c \in Conn |-> IF c \in subscribers THEN Append(SentTo[c], LastPut')
                                ELSE SentTo[c]]
  BY <1>1 DEF SentTo
<1>5. UNCHANGED <<subscribers, conn, taken>>
  BY DEF PutTick
<1> QED BY <1>1, <1>2, <1>3, <1>4, <1>5 DEF Feed!Publish, SentTo

\* Joining and leaving wait for data_lock: no cycle is half published then.
LEMMA UnlockedIsBetween == ASSUME TypeInv, ~Locked PROVE Feed!BetweenCycles
BY DEF Locked, LastPut, Feed!BetweenCycles

\* Taking the head of the queue is taking the first tick not taken yet.
LEMMA FeedTake ==
    ASSUME TypeInv, NEW c \in Conn, inbox[c] # <<>>, LastPut' = LastPut,
           taken' = [taken EXCEPT ![c] = Append(@, Head(inbox[c]))],
           inbox' = [inbox EXCEPT ![c] = Tail(@)],
           UNCHANGED subscribers, Ever' = Ever
    PROVE  Feed!Take(c)
<1>1. taken[c] \in Seq(Tick) /\ inbox[c] \in Seq(Tick)
  BY DEF TypeInv, TypeOK
<1>2. Len(taken[c]) \in Nat /\ Len(inbox[c]) \in Nat \ {0}
  BY <1>1
<1>3. Len(Sent(c)) = Len(taken[c]) + Len(inbox[c])
  BY <1>1 DEF Sent
<1>4. Sent(c)[Len(taken[c]) + 1] = Head(inbox[c])
  BY <1>1, HeadIsNext DEF Sent
<1>5. \A d \in Conn : Sent(d)' = Sent(d)
  BY TakeKeepsSent
<1>6. SentTo' = SentTo /\ SentTo[c] = Sent(c)
  BY <1>5 DEF SentTo
<1>7. Len(taken[c]) < Len(SentTo[c])
  <2> DEFINE t == Len(taken[c])
             b == Len(inbox[c])
             s == Len(SentTo[c])
  <2>1. t \in Nat /\ b \in Nat \ {0} /\ s = t + b
    BY <1>2, <1>3, <1>6, Zenon
  <2> HIDE DEF t, b, s
  <2>2. t < s
    BY <2>1
  <2> QED BY <2>2 DEF t, s
<1>8. taken' = [taken EXCEPT ![c] = Append(@, SentTo[c][Len(@) + 1])]
  BY <1>4, <1>6, Zenon
<1> QED BY <1>6, <1>7, <1>8 DEF Feed!Take, Ever, SentTo

\* Every step is a step of Broadcast or leaves the mapped state alone.
LEMMA FeedNext ==
    TypeInv /\ StreamInv /\ [Next]_vars => [Feed!Next]_(Feed!vars)
<1> SUFFICES ASSUME TypeInv, StreamInv, [Next]_vars
             PROVE  Feed!Next \/ UNCHANGED Feed!vars
  OBVIOUS
<1>0. conn \in [Conn -> {"new", "open", "dead", "leaving", "gone"}] /\ cycle \in Nat
  BY FeedAssumption DEF TypeInv, TypeOK
<1>1. ASSUME LastPut' = LastPut, UNCHANGED stream PROVE UNCHANGED Feed!vars
  BY <1>1, FeedStutter DEF stream, Sent, Ever
<1>2. ASSUME UNCHANGED <<cycle, pc, next>> PROVE LastPut' = LastPut
  BY <1>2 DEF LastPut
<1>3. CASE Generate \/ UpdateSnapshot \/ LockStream \/ Persist
  <2>1. UNCHANGED stream
    BY <1>3 DEF Generate, UpdateSnapshot, LockStream, Persist
  <2>2. LastPut' = LastPut
    <3>1. CASE Generate
      BY <1>0, <3>1 DEF Generate, LastPut
    <3>2. CASE UpdateSnapshot
      BY <3>2 DEF UpdateSnapshot, LastPut
    <3>3. CASE LockStream
      BY <3>3 DEF LockStream, LastPut
    <3>4. CASE Persist
      BY <3>4 DEF Persist, LastPut
    <3> QED BY <1>3, <3>1, <3>2, <3>3, <3>4
  <2> QED BY <1>1, <2>1, <2>2
<1>4. CASE PutTick
  BY <1>4, FeedPublish DEF Feed!Next
<1>5. ASSUME NEW c \in Conn, Join(c) PROVE Feed!Next
  <2>1. Feed!BetweenCycles /\ LastPut' = LastPut
    BY <1>2, <1>5, UnlockedIsBetween DEF Join
  <2>2. c \notin Ever /\ Ever' = Ever \cup {c}
    BY <1>0, <1>5 DEF Join, Ever
  <2>3. SentTo' = SentTo /\ taken' = taken /\ subscribers' = subscribers \cup {c}
    BY <1>5 DEF Join, SentTo, Sent
  <2> QED BY <2>1, <2>2, <2>3 DEF Feed!Next, Feed!Join, Ever, SentTo
<1>6. ASSUME NEW c \in Conn, Disconnect(c) PROVE UNCHANGED Feed!vars
  <2>1. Ever' = Ever
    BY <1>0, <1>6 DEF Disconnect, Ever
  <2> QED BY <1>2, <1>6, <2>1, FeedStutter DEF Disconnect, Sent
<1>7. ASSUME NEW c \in Conn, Deliver(c) PROVE Feed!Next
  <2>1. Feed!Take(c)
    BY <1>2, <1>7, FeedTake DEF Deliver, Ever
  <2> QED BY <2>1 DEF Feed!Next
<1>8. ASSUME NEW c \in Conn, WriteFails(c) PROVE Feed!Next
  <2>1. Ever' = Ever
    BY <1>0, <1>8 DEF WriteFails, Ever
  <2>2. Feed!Take(c)
    BY <1>2, <1>8, <2>1, FeedTake DEF WriteFails
  <2> QED BY <2>2 DEF Feed!Next
<1>9. ASSUME NEW c \in Conn, Leave(c) PROVE Feed!Next
  <2>1. Feed!BetweenCycles /\ LastPut' = LastPut
    BY <1>2, <1>9, UnlockedIsBetween DEF Leave
  <2>2. Ever' = Ever
    BY <1>0, <1>9 DEF Leave, Ever
  <2>3. SentTo' = SentTo /\ taken' = taken /\ subscribers' = subscribers \ {c}
    BY <1>9 DEF Leave, SentTo, Sent
  <2> QED BY <2>1, <2>2, <2>3 DEF Feed!Next, Feed!Leave, Ever, SentTo
<1>10. CASE MetricWorker \/ DbWorker
  BY <1>1, <1>2, <1>10 DEF MetricWorker, DbWorker
<1>11. CASE UNCHANGED vars
  BY <1>1, <1>2, <1>11 DEF vars, stream
<1> QED BY <1>3, <1>4, <1>5, <1>6, <1>7, <1>8, <1>9, <1>10, <1>11
        DEF Next, MarketWorker, StreamThread

\* publish_tick_to_stream under data_lock, the client queues and the threads
\* that serve them keep the promise of Broadcast for any number of clients:
\* every tick goes to all members at once, and members come and go only
\* between two cycles.
THEOREM StreamsBroadcast == Spec => FeedSpec
<1> QED BY StreamInductive, FeedInit, FeedNext, PTL DEF Spec, FeedSpec, Feed!Spec
=============================================================================
