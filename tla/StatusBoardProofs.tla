-------------------------- MODULE StatusBoardProofs --------------------------
(***************************************************************************)
(* What holds of StatusBoard for every number of requests and handlers and *)
(* every length of its queue and deques: no waiting work is understated,   *)
(* a finished request is shown with its result, and throughput_per_min     *)
(* counts the acceptances of the last minute.                              *)
(***************************************************************************)
EXTENDS StatusBoard, Counting, FiniteSetTheorems, TLAPS

-----------------------------------------------------------------------------
(* Types.                                                                  *)

GoodItem == {item \in Item : WellFormed(item)}
Request == [pc : {"free", "item", "stamp"}, items : Seq(GoodItem), batch : BOOLEAN,
            now : 0..MaxWait]
\* A request in work has a current item, and it is valid once it is enqueued.
Served(req) == /\ req.pc \in {"item", "stamp"} => req.items # <<>>
               /\ req.pc = "stamp" => Head(req.items).valid

BoardType ==
    /\ handler \in [Handler -> Request]
    /\ \A h \in Handler : Served(handler[h])
    /\ queue \in Seq(Rid) /\ Len(queue) <= QueueMaxsize
    /\ job \in Rid \cup {NoRid}
    /\ actions \in Seq(Entry) /\ Len(actions) <= ActionsLimit
    /\ stamps \in Seq(0..Oldest)
    /\ evicted \in [Rid -> Nat]
    /\ tardy \subseteq Rid /\ lost \subseteq Rid
    /\ requests \in 0..MaxRequests

\* Ages and delays are numbers, and no age of interest is capped.
LEMMA Ages == /\ Oldest \in Nat /\ MaxWait \in Nat /\ Window \in Nat
              /\ MaxWait < Oldest /\ Window + 2 * MaxWait < Oldest
              /\ 0 \in 0..MaxWait
BY BoardAssumption DEF Oldest

\* A thread without a request.
LEMMA FreeType == FreeHandler \in Request /\ Served(FreeHandler) /\ FreeHandler.pc = "free"
<1>1. <<>> \in Seq(GoodItem)
  OBVIOUS
<1> QED BY <1>1, Ages DEF FreeHandler, Request, Served

\* What is left of a request.
LEMMA RestType ==
    ASSUME NEW req \in Request, req.items # <<>>
    PROVE  /\ Rest(req) \in Request /\ Served(Rest(req))
           /\ Rest(req).pc \in {"free", "item"}
<1>1. CASE Len(req.items) = 1
  BY <1>1, FreeType DEF Rest
<1>2. CASE Len(req.items) # 1
  <2>1. PICK items \in Seq(GoodItem) : items = req.items /\ items # <<>>
    BY DEF Request
  <2>2. Tail(items) \in Seq(GoodItem) /\ Tail(items) # <<>>
    <3>1. Tail(items) \in Seq(GoodItem) /\ Len(Tail(items)) = Len(items) - 1
      BY <2>1, HeadTailProperties
    <3>2. Len(items) \in Nat /\ Len(items) # 1
      BY <1>2, <2>1
    <3>3. Len(Tail(items)) # 0
      BY <3>1, <3>2
    <3> QED BY <3>1, <3>3, EmptySeq
  <2>3. PICK r : r = [req EXCEPT !.pc = "item", !.items = Tail(@), !.now = 0]
    OBVIOUS
  <2>4. r.pc = "item" /\ r.items = Tail(items) /\ r \in Request
    BY <2>1, <2>2, <2>3, Ages DEF Request
  <2>5. Rest(req) = r
    BY <1>2, <2>3, Zenon DEF Rest
  <2> QED BY <2>2, <2>4, <2>5 DEF Served
<1> QED BY <1>1, <1>2

\* The current item of a handler at work.
LEMMA CurrentType ==
    ASSUME BoardType, NEW h \in Handler, handler[h].pc \in {"item", "stamp"}
    PROVE  /\ handler[h] \in Request /\ handler[h].items # <<>>
           /\ Current(h) \in GoodItem /\ Current(h).rid \in Rid \cup {NoRid}
           /\ Current(h).valid \in BOOLEAN
           /\ Current(h).valid => Current(h).rid \in Rid
           /\ handler[h].pc = "stamp" => Current(h).valid
<1>1. /\ handler[h] \in Request /\ handler[h].items # <<>>
      /\ handler[h].pc = "stamp" => Current(h).valid
  BY DEF BoardType, Served, Current
<1>2. Current(h) \in GoodItem
  BY <1>1 DEF Request, Current
<1> QED BY <1>1, <1>2 DEF GoodItem, Item, WellFormed

-----------------------------------------------------------------------------
(* The list of recent actions.                                             *)

Waiting(r) == {[rid |-> r, result |-> "QUEUED"]}
ListType == /\ actions \in Seq(Entry) /\ Len(actions) <= ActionsLimit
            /\ evicted \in [Rid -> Nat]

\* A deque of limited length: a new first element, the last one may go.
LEMMA Deque ==
    ASSUME NEW S, NEW s \in Seq(S), NEW e \in S, NEW n \in Nat \ {0}, Len(s) <= n
    PROVE  /\ SubSeq(<<e>> \o s, 1, Least(n, Len(s) + 1)) \in Seq(S)
           /\ Len(SubSeq(<<e>> \o s, 1, Least(n, Len(s) + 1))) = Least(n, Len(s) + 1)
           /\ SubSeq(<<e>> \o s, 1, Least(n, Len(s) + 1))[1] = e
           /\ \A i \in 2..Least(n, Len(s) + 1) :
                 /\ i - 1 \in DOMAIN s
                 /\ SubSeq(<<e>> \o s, 1, Least(n, Len(s) + 1))[i] = s[i - 1]
           /\ \A X : Count(SubSeq(<<e>> \o s, 1, Least(n, Len(s) + 1)), X)
                       + (IF Len(s) = n /\ s[n] \in X THEN 1 ELSE 0)
                     = Count(s, X) + (IF e \in X THEN 1 ELSE 0)
<1>1. PICK t \in Seq(S) : /\ t = <<e>> \o s /\ Len(t) = Len(s) + 1 /\ t[1] = e
                          /\ \A i \in 2..(Len(s) + 1) : t[i] = s[i - 1]
  <2>1. <<e>> \in Seq(S) /\ Len(<<e>>) = 1 /\ <<e>>[1] = e
    OBVIOUS
  <2>2. PICK f \in Seq(S) : f = <<e>> /\ Len(f) = 1 /\ f[1] = e
    BY <2>1
  <2>3. /\ f \o s \in Seq(S) /\ Len(f \o s) = 1 + Len(s)
        /\ \A i \in 1..(1 + Len(s)) : (f \o s)[i] = IF i <= 1 THEN f[i] ELSE s[i - 1]
    BY <2>2, ConcatProperties
  <2>4. Len(s) \in Nat
    OBVIOUS
  <2>5. PICK t \in Seq(S) : t = f \o s
    BY <2>3
  <2>6. /\ Len(t) = Len(s) + 1
        /\ \A i \in 1..(1 + Len(s)) : t[i] = IF i <= 1 THEN f[i] ELSE s[i - 1]
    BY <2>3, <2>4, <2>5
  <2>7. t[1] = e /\ \A i \in 2..(Len(s) + 1) : t[i] = s[i - 1]
    BY <2>2, <2>4, <2>6
  <2> QED BY <2>2, <2>5, <2>6, <2>7
<1>2. PICK m \in Nat : m = Least(n, Len(s) + 1) /\ 1 <= m /\ m <= Len(s) + 1
                       /\ m = IF Len(s) = n THEN n ELSE Len(s) + 1
  BY DEF Least
<1>3. PICK u \in Seq(S) : /\ u = SubSeq(t, 1, m) /\ Len(u) = m
                          /\ \A i \in 1..m : u[i] = t[i]
  <2>1. \A i \in 1..m : t[i] \in S
    BY <1>1, <1>2, ElementOfSeq
  <2>2. /\ SubSeq(t, 1, m) \in Seq(S)
        /\ Len(SubSeq(t, 1, m)) = IF 1 <= m THEN m - 1 + 1 ELSE 0
        /\ \A i \in 1..m - 1 + 1 : SubSeq(t, 1, m)[i] = t[1 + i - 1]
    BY <2>1, <1>2, SubSeqProperties
  <2>3. PICK u : u = SubSeq(t, 1, m)
    OBVIOUS
  <2>4. u \in Seq(S) /\ Len(u) = m /\ \A i \in 1..m : u[i] = t[1 + i - 1]
    BY <1>2, <2>2, <2>3
  <2>5. \A i \in 1..m : 1 + i - 1 = i
    BY <1>2
  <2>6. \A i \in 1..m : u[i] = t[i]
    BY <2>4, <2>5
  <2> QED BY <2>3, <2>4, <2>6
<1>4. u[1] = e /\ \A i \in 2..m : i - 1 \in DOMAIN s /\ u[i] = s[i - 1]
  BY <1>1, <1>2, <1>3
<1>5. ASSUME NEW X
      PROVE  Count(u, X) + (IF Len(s) = n /\ s[n] \in X THEN 1 ELSE 0)
               = Count(s, X) + (IF e \in X THEN 1 ELSE 0)
  <2>1. Count(t, X) = Count(s, X) + (IF e \in X THEN 1 ELSE 0)
    BY <1>1, CountPrepend
  <2>2. CASE Len(s) = n
    <3>1. Count(t, X) = Count(SubSeq(t, 1, Len(t) - 1), X) + (IF t[Len(t)] \in X THEN 1 ELSE 0)
      <4>1. t # <<>>
        BY <1>1
      <4>2. /\ SubSeq(t, 1, Len(t) - 1) \in Seq(S) /\ t[Len(t)] \in S
            /\ Count(t, X) = Count(SubSeq(t, 1, Len(t) - 1), X)
                             + (IF t[Len(t)] \in X THEN 1 ELSE 0)
        BY <4>1, CountFront
      <4> QED BY <4>2
    <3>2. m = Len(t) - 1 /\ t[Len(t)] = s[n]
      BY <1>1, <1>2, <2>2
    <3>3. Count(t, X) = Count(u, X) + (IF s[n] \in X THEN 1 ELSE 0)
      BY <1>3, <3>1, <3>2, Zenon
    <3> QED BY <2>1, <2>2, <3>3, Zenon
  <2>3. CASE Len(s) # n
    <3>1. u = t
      BY <1>1, <1>2, <1>3, <2>3, SeqEqual
    <3>2. Count(u, X) \in Nat
      BY CountType
    <3> QED BY <2>1, <2>3, <3>1, <3>2
  <2> QED BY <2>2, <2>3
<1> QED BY <1>1, <1>2, <1>3, <1>4, <1>5, Zenon

\* The newest entry of r says QUEUED.
QueuedNewest(r) ==
    \E i \in DOMAIN actions :
       /\ actions[i].rid = r /\ actions[i].result = "QUEUED"
       /\ \A j \in DOMAIN actions : actions[j].rid = r => i <= j

\* The newest entry of a request is the first one in the list.
LEMMA NewestIsFirst ==
    ASSUME ListType, NEW r \in Rid, Mentioned(r)
    PROVE  /\ Newest(r) \in DOMAIN actions /\ actions[Newest(r)].rid = r
           /\ \A j \in DOMAIN actions : actions[j].rid = r => Newest(r) <= j
<1>1. PICK P \in SUBSET DOMAIN actions : P = {i \in DOMAIN actions : actions[i].rid = r}
  OBVIOUS
<1>2. \E i \in P : \A j \in P : i <= j
  BY <1>1, FirstPosition DEF ListType, Mentioned
<1>3. \E i \in DOMAIN actions : /\ actions[i].rid = r
                                /\ \A j \in DOMAIN actions : actions[j].rid = r => i <= j
  BY <1>1, <1>2
<1> QED BY <1>3, Zenon DEF Newest

\* What appendleft does to the entries that say "waiting in buffer".
LEMMA AppendLeftEffect ==
    ASSUME ListType, NEW e \in Entry, AppendLeft(e)
    PROVE  /\ ListType'
           /\ \A r \in Rid :
                 /\ Count(actions', Waiting(r)) + evicted'[r]
                      = Count(actions, Waiting(r)) + evicted[r]
                          + (IF e \in Waiting(r) THEN 1 ELSE 0)
                 /\ QueuedNewest(r)' => IF e.rid = r THEN e.result = "QUEUED" ELSE QueuedNewest(r)
<1>1. /\ actions' \in Seq(Entry) /\ Len(actions') = Least(ActionsLimit, Len(actions) + 1)
      /\ actions'[1] = e
      /\ \A i \in 2..Len(actions') : i - 1 \in DOMAIN actions /\ actions'[i] = actions[i - 1]
      /\ \A X : Count(actions', X)
                  + (IF Len(actions) = ActionsLimit /\ actions[ActionsLimit] \in X THEN 1 ELSE 0)
                = Count(actions, X) + (IF e \in X THEN 1 ELSE 0)
  <2>1. PICK s \in Seq(Entry), n \in Nat \ {0} :
              /\ s = actions /\ n = ActionsLimit /\ Len(s) <= n
              /\ actions' = SubSeq(<<e>> \o s, 1, Least(n, Len(s) + 1))
    BY BoardAssumption DEF ListType, AppendLeft
  <2>2. PICK u : u = SubSeq(<<e>> \o s, 1, Least(n, Len(s) + 1))
    OBVIOUS
  <2>3. /\ u \in Seq(Entry) /\ Len(u) = Least(n, Len(s) + 1) /\ u[1] = e
        /\ \A i \in 2..Least(n, Len(s) + 1) : i - 1 \in DOMAIN s /\ u[i] = s[i - 1]
        /\ \A X : Count(u, X) + (IF Len(s) = n /\ s[n] \in X THEN 1 ELSE 0)
                   = Count(s, X) + (IF e \in X THEN 1 ELSE 0)
    <3>1. ActionsLimit \in Nat \ {0} /\ n \in Nat \ {0} /\ s \in Seq(Entry) /\ Len(s) <= n
      BY <2>1
    <3> HIDE <2>1, <2>2
    <3>2. /\ SubSeq(<<e>> \o s, 1, Least(n, Len(s) + 1)) \in Seq(Entry)
          /\ Len(SubSeq(<<e>> \o s, 1, Least(n, Len(s) + 1))) = Least(n, Len(s) + 1)
          /\ SubSeq(<<e>> \o s, 1, Least(n, Len(s) + 1))[1] = e
          /\ \A i \in 2..Least(n, Len(s) + 1) :
                 /\ i - 1 \in DOMAIN s
                 /\ SubSeq(<<e>> \o s, 1, Least(n, Len(s) + 1))[i] = s[i - 1]
          /\ \A X : Count(SubSeq(<<e>> \o s, 1, Least(n, Len(s) + 1)), X)
                       + (IF Len(s) = n /\ s[n] \in X THEN 1 ELSE 0)
                     = Count(s, X) + (IF e \in X THEN 1 ELSE 0)
      BY <3>1, Deque
    <3> QED BY <2>2, <3>2, Zenon
  <2> QED BY <2>1, <2>2, <2>3, Zenon
<1>2. ListType'
  <2>1. Len(actions') <= ActionsLimit
    BY <1>1, BoardAssumption DEF ListType, Least
  <2>2. evicted' \in [Rid -> Nat]
    BY DEF ListType, AppendLeft
  <2> QED BY <1>1, <2>1, <2>2 DEF ListType
<1>3. ASSUME NEW r \in Rid
      PROVE  Count(actions', Waiting(r)) + evicted'[r]
               = Count(actions, Waiting(r)) + evicted[r] + (IF e \in Waiting(r) THEN 1 ELSE 0)
  <2>1. evicted'[r] = IF Len(actions) = ActionsLimit /\ actions[ActionsLimit] \in Waiting(r)
                      THEN evicted[r] + 1 ELSE evicted[r]
    BY DEF AppendLeft, Waiting
  <2>2. PICK n \in Nat, m \in Nat, k \in Nat :
              n = Count(actions', Waiting(r)) /\ m = Count(actions, Waiting(r)) /\ k = evicted[r]
    BY <1>1, CountType DEF ListType
  <2>3. n + (IF Len(actions) = ActionsLimit /\ actions[ActionsLimit] \in Waiting(r) THEN 1 ELSE 0)
          = m + (IF e \in Waiting(r) THEN 1 ELSE 0)
    BY <1>1, <2>2, Zenon
  <2> QED BY <2>1, <2>2, <2>3
<1>4. ASSUME NEW r \in Rid, QueuedNewest(r)'
      PROVE  IF e.rid = r THEN e.result = "QUEUED" ELSE QueuedNewest(r)
  <2>1. PICK i \in DOMAIN actions' :
              /\ actions'[i].rid = r /\ actions'[i].result = "QUEUED"
              /\ \A j \in DOMAIN actions' : actions'[j].rid = r => i <= j
    BY <1>4 DEF QueuedNewest
  <2>2. i \in 1..Len(actions') /\ Len(actions') \in Nat /\ DOMAIN actions' = 1..Len(actions')
    BY <1>1, LenProperties
  <2>3. CASE i = 1
    BY <1>1, <2>1, <2>3
  <2>4. CASE i # 1
    <3>1. i \in 2..Len(actions') /\ 1 \in DOMAIN actions'
      BY <2>2, <2>4
    <3>2. e.rid # r
      <4>1. actions'[1] = e
        BY <1>1
      <4>2. ~(i <= 1)
        BY <2>2, <3>1
      <4> QED BY <2>1, <3>1, <4>1, <4>2
    <3>3. /\ i - 1 \in DOMAIN actions
          /\ actions[i - 1].rid = r /\ actions[i - 1].result = "QUEUED"
      BY <1>1, <2>1, <3>1
    <3>4. ASSUME NEW j \in DOMAIN actions, actions[j].rid = r PROVE i - 1 <= j
      <4>1. j \in 1..Len(actions) /\ i \in Nat
        BY <2>2, LenProperties DEF ListType
      <4>2. CASE j + 1 \in 2..Len(actions')
        <5>1. actions'[j + 1] = actions[(j + 1) - 1] /\ (j + 1) - 1 = j
          BY <1>1, <4>1, <4>2
        <5>2. i <= j + 1
          BY <2>1, <2>2, <3>4, <4>1, <4>2, <5>1
        <5> QED BY <4>1, <5>2
      <4>3. CASE j + 1 \notin 2..Len(actions')
        BY <2>2, <4>1, <4>3
      <4> QED BY <4>2, <4>3
    <3> QED BY <3>2, <3>3, <3>4 DEF QueuedNewest
  <2> QED BY <2>3, <2>4
<1> QED BY <1>2, <1>3, <1>4

\* What _update_action does to them.
LEMMA UpdateEffect ==
    ASSUME ListType, NEW r \in Rid, NEW result \in Final, UpdateAction(r, result)
    PROVE  /\ ListType'
           /\ \A q \in Rid :
                 /\ Count(actions, Waiting(q)) + evicted[q]
                      <= Count(actions', Waiting(q)) + evicted'[q] + (IF q = r THEN 1 ELSE 0)
                 /\ QueuedNewest(q)' => q # r /\ QueuedNewest(q)
<1>0. result # "QUEUED" /\ result \in Result
  BY DEF Final, Result
<1>1. CASE ~Mentioned(r)
  <2>1. PICK e \in Entry : e = [rid |-> r, result |-> result] /\ e.rid = r /\ e.result = result
    <3>1. [rid |-> r, result |-> result] \in Entry
      BY <1>0 DEF Entry
    <3> QED BY <3>1
  <2>2. AppendLeft(e)
    BY <1>1, <2>1 DEF UpdateAction
  <2>3. \A q \in Rid : e \notin Waiting(q)
    BY <1>0, <2>1 DEF Waiting
  <2>4. /\ ListType'
        /\ \A q \in Rid :
              /\ Count(actions', Waiting(q)) + evicted'[q]
                   = Count(actions, Waiting(q)) + evicted[q] + 0
              /\ QueuedNewest(q)' => q # r /\ QueuedNewest(q)
    BY <1>0, <2>1, <2>2, <2>3, AppendLeftEffect
  <2>5. ASSUME NEW q \in Rid
        PROVE  Count(actions, Waiting(q)) + evicted[q]
                 <= Count(actions', Waiting(q)) + evicted'[q] + (IF q = r THEN 1 ELSE 0)
    <3>1. PICK n \in Nat, m \in Nat, k \in Nat, l \in Nat :
                /\ n = Count(actions, Waiting(q)) /\ m = Count(actions', Waiting(q))
                /\ k = evicted[q] /\ l = evicted'[q]
      BY <2>4, CountType DEF ListType
    <3>2. m + l = n + k + 0
      BY <2>4, <3>1, Zenon
    <3> QED BY <3>1, <3>2
  <2> QED BY <2>4, <2>5
<1>2. CASE Mentioned(r)
  <2>1. PICK i \in DOMAIN actions :
              /\ i = Newest(r) /\ actions[i].rid = r
              /\ \A j \in DOMAIN actions : actions[j].rid = r => i <= j
    BY <1>2, NewestIsFirst
  <2>2. actions' = [actions EXCEPT ![i].result = result] /\ evicted' = evicted
    BY <1>2, <2>1 DEF UpdateAction
  <2>3. PICK e \in Entry : /\ actions' = [actions EXCEPT ![i] = e]
                           /\ e.rid = r /\ e.result = result
    <3>1. PICK was \in Entry : was = actions[i]
      BY <2>1, ElementOfSeq, LenProperties DEF ListType
    <3>2. PICK e : e = [was EXCEPT !.result = result]
      OBVIOUS
    <3>3. e \in Entry /\ e.rid = r /\ e.result = result
      BY <1>0, <2>1, <3>1, <3>2 DEF Entry
    <3>4. actions' = [actions EXCEPT ![i] = e]
      BY <2>2, <3>1, <3>2
    <3> QED BY <3>3, <3>4
  <2>4. /\ actions' \in Seq(Entry) /\ Len(actions') = Len(actions)
        /\ \A X : Count(actions, X) <= Count(actions', X) + (IF actions[i] \in X THEN 1 ELSE 0)
        /\ DOMAIN actions' = DOMAIN actions /\ actions'[i] = e
        /\ \A j \in DOMAIN actions : j # i => actions'[j] = actions[j]
    <3>1. actions \in Seq(Entry)
      BY DEF ListType
    <3>2. /\ [actions EXCEPT ![i] = e] \in Seq(Entry)
          /\ Len([actions EXCEPT ![i] = e]) = Len(actions)
          /\ \A X : Count(actions, X) <= Count([actions EXCEPT ![i] = e], X)
                                         + (IF actions[i] \in X THEN 1 ELSE 0)
      <4>1. i \in DOMAIN actions /\ e \in Entry
        OBVIOUS
      <4>2. ASSUME NEW X
            PROVE  /\ [actions EXCEPT ![i] = e] \in Seq(Entry)
                   /\ Len([actions EXCEPT ![i] = e]) = Len(actions)
                   /\ Count(actions, X) <= Count([actions EXCEPT ![i] = e], X)
                                         + (IF actions[i] \in X THEN 1 ELSE 0)
        BY <3>1, <4>1, CountReplace
      <4> QED BY <4>2
    <3>3. /\ actions' \in Seq(Entry) /\ Len(actions') = Len(actions)
          /\ \A X : Count(actions, X) <= Count(actions', X) + (IF actions[i] \in X THEN 1 ELSE 0)
      BY <2>3, <3>2, Zenon
    <3>4. /\ DOMAIN actions' = DOMAIN actions /\ actions'[i] = e
          /\ \A j \in DOMAIN actions : j # i => actions'[j] = actions[j]
      BY <2>1, <2>3
    <3> QED BY <3>3, <3>4
  <2>5. ListType'
    BY <2>2, <2>4 DEF ListType
  <2>6. ASSUME NEW q \in Rid
        PROVE  Count(actions, Waiting(q)) + evicted[q]
                 <= Count(actions', Waiting(q)) + evicted'[q] + (IF q = r THEN 1 ELSE 0)
    <3>1. PICK n \in Nat, m \in Nat, k \in Nat :
                /\ n = Count(actions, Waiting(q)) /\ m = Count(actions', Waiting(q))
                /\ k = evicted[q] /\ k = evicted'[q]
      BY <2>2, <2>4, CountType DEF ListType
    <3>2. n <= m + (IF actions[i] \in Waiting(q) THEN 1 ELSE 0)
      BY <2>4, <3>1, Zenon
    <3>3. actions[i] \in Waiting(q) => q = r
      BY <2>1 DEF Waiting
    <3> QED BY <3>1, <3>2, <3>3
  <2>7. ASSUME NEW q \in Rid, QueuedNewest(q)' PROVE q # r /\ QueuedNewest(q)
    <3>1. PICK k \in DOMAIN actions :
                /\ actions'[k].rid = q /\ actions'[k].result = "QUEUED"
                /\ \A j \in DOMAIN actions : actions'[j].rid = q => k <= j
      BY <2>4, <2>7 DEF QueuedNewest
    <3>2. k # i
      BY <1>0, <2>3, <2>4, <3>1
    <3>3. q # r
      <4>1. CASE q = r
        <5>1. k <= i /\ i <= k
          BY <2>1, <2>3, <2>4, <3>1, <3>2, <4>1
        <5>2. i \in Nat /\ k \in Nat
          BY <2>1, LenProperties DEF ListType
        <5> QED BY <3>2, <5>1, <5>2
      <4> QED BY <4>1
    <3>4. QueuedNewest(q)
      BY <2>1, <2>4, <3>1, <3>2, <3>3 DEF QueuedNewest
    <3> QED BY <3>3, <3>4
  <2> QED BY <2>5, <2>6, <2>7
<1> QED BY <1>1, <1>2

-----------------------------------------------------------------------------
(* The time stamps.                                                        *)

Age == 0..Oldest
\* What was appended later is older by no more than a thread's delay between
\* its reading of the clock and its turn at _lock.
Ordered(s) == \A i, j \in DOMAIN s : i < j => s[j] <= s[i] + MaxWait

\* _prune_throughput leaves a tail that begins with a fresh stamp, or nothing.
LEMMA PruneEffect ==
    ASSUME NEW s \in Seq(Age), NEW now \in 0..MaxWait
    PROVE  /\ Prune(s, now) \in Seq(Age)
           /\ \/ /\ Prune(s, now) = <<>>
                 /\ \A i \in DOMAIN s : ~(s[i] <= now + Window)
              \/ \E k \in 1..Len(s) :
                    /\ s[k] <= now + Window
                    /\ \A i \in 1..(k - 1) : ~(s[i] <= now + Window)
                    /\ Len(Prune(s, now)) = Len(s) - k + 1
                    /\ \A i \in 1..(Len(s) - k + 1) : Prune(s, now)[i] = s[i + (k - 1)]
<1>1. PICK Fresh \in SUBSET (DOMAIN s) : Fresh = {i \in DOMAIN s : s[i] <= now + Window}
  OBVIOUS
<1>2. DOMAIN s = 1..Len(s) /\ Len(s) \in Nat
  BY LenProperties
<1>3. CASE Fresh = {}
  <2>1. Prune(s, now) = <<>>
    BY <1>1, <1>3 DEF Prune
  <2>2. <<>> \in Seq(Age)
    OBVIOUS
  <2> QED BY <1>1, <1>3, <2>1, <2>2
<1>4. CASE Fresh # {}
  <2>1. \E i \in Fresh : \A j \in Fresh : i <= j
    BY <1>4, FirstPosition
  <2>2. PICK k \in Fresh : /\ k = CHOOSE i \in Fresh : \A j \in Fresh : i <= j
                           /\ \A j \in Fresh : k <= j
    BY <2>1
  <2>3. k \in 1..Len(s) /\ s[k] <= now + Window
    BY <1>1, <1>2
  <2>4. ASSUME NEW i \in 1..(k - 1) PROVE ~(s[i] <= now + Window)
    BY <1>1, <1>2, <2>2, <2>3
  <2>5. Prune(s, now) = SubSeq(s, k, Len(s))
    BY <1>1, <1>4, <2>2 DEF Prune
  <2>6. PICK t : t = SubSeq(s, k, Len(s))
    OBVIOUS
  <2>7. /\ t \in Seq(Age) /\ Len(t) = IF k <= Len(s) THEN Len(s) - k + 1 ELSE 0
        /\ \A i \in 1..(Len(s) - k + 1) : t[i] = s[k + i - 1]
    <3>1. \A i \in k..Len(s) : s[i] \in Age
      BY <1>2, <2>3, ElementOfSeq
    <3> QED BY <1>2, <2>3, <2>6, <3>1, SubSeqProperties
  <2>8. \A i \in 1..(Len(s) - k + 1) : k + i - 1 = i + (k - 1)
    BY <1>2, <2>3
  <2>9. Len(t) = Len(s) - k + 1 /\ \A i \in 1..(Len(s) - k + 1) : t[i] = s[i + (k - 1)]
    BY <2>3, <2>7, <2>8
  <2> QED BY <2>3, <2>4, <2>5, <2>6, <2>7, <2>9
<1> QED BY <1>3, <1>4

\* Pruning keeps the order, and bounds the age of what is left.
LEMMA PruneOrdered ==
    ASSUME NEW s \in Seq(Age), NEW now \in 0..MaxWait, Ordered(s)
    PROVE  /\ Ordered(Prune(s, now))
           /\ \A i \in DOMAIN Prune(s, now) : Prune(s, now)[i] <= Window + 2 * MaxWait
<1>1. PICK t \in Seq(Age) : t = Prune(s, now)
  BY PruneEffect
<1>2. CASE t = <<>>
  BY <1>1, <1>2 DEF Ordered
<1>3. CASE t # <<>>
  <2>1. PICK k \in 1..Len(s) :
              /\ s[k] <= now + Window
              /\ Len(t) = Len(s) - k + 1
              /\ \A i \in 1..(Len(s) - k + 1) : t[i] = s[i + (k - 1)]
    <3>1. Prune(s, now) # <<>>
      BY <1>1, <1>3
    <3>2. \E k \in 1..Len(s) :
             /\ s[k] <= now + Window
             /\ \A i \in 1..(k - 1) : ~(s[i] <= now + Window)
             /\ Len(Prune(s, now)) = Len(s) - k + 1
             /\ \A i \in 1..(Len(s) - k + 1) : Prune(s, now)[i] = s[i + (k - 1)]
      BY <3>1, PruneEffect, Zenon
    <3> QED BY <1>1, <3>2, Zenon
  <2>2. /\ DOMAIN s = 1..Len(s) /\ Len(s) \in Nat /\ DOMAIN t = 1..(Len(s) - k + 1)
        /\ \A i \in DOMAIN s : s[i] \in Nat
    BY <2>1, LenProperties, ElementOfSeq, Ages DEF Age
  <2>3. \A i \in DOMAIN t : i + (k - 1) \in DOMAIN s /\ t[i] = s[i + (k - 1)] /\ k <= i + (k - 1)
    BY <2>1, <2>2
  <2>4. Ordered(t)
    <3> SUFFICES ASSUME NEW i \in DOMAIN t, NEW j \in DOMAIN t, i < j
                 PROVE  t[j] <= t[i] + MaxWait
      BY DEF Ordered
    <3>1. i + (k - 1) < j + (k - 1)
      BY <2>2
    <3> QED BY <2>3, <3>1 DEF Ordered
  <2>5. ASSUME NEW i \in DOMAIN t PROVE t[i] <= Window + 2 * MaxWait
    <3>1. PICK m \in DOMAIN s : m = i + (k - 1) /\ t[i] = s[m] /\ k <= m
      BY <2>3
    <3>2. s[m] <= s[k] + MaxWait
      <4>1. CASE k = m
        BY <2>2, <4>1, Ages
      <4>2. CASE k # m
        <5>1. k < m
          BY <2>2, <3>1, <4>2
        <5> QED BY <2>2, <5>1 DEF Ordered
      <4> QED BY <4>1, <4>2
    <3>3. s[k] \in Nat /\ s[m] \in Nat /\ now \in Nat /\ now <= MaxWait
      BY <2>2, Ages
    <3> QED BY <2>1, <3>1, <3>2, <3>3, Ages
  <2> QED BY <1>1, <2>4, <2>5
<1> QED BY <1>2, <1>3

\* record_accepted appends a stamp no older than MaxWait.
LEMMA AppendOrdered ==
    ASSUME NEW s \in Seq(Age), NEW now \in 0..MaxWait, Ordered(s)
    PROVE  Append(s, now) \in Seq(Age) /\ Ordered(Append(s, now))
<1>1. now \in Age /\ now \in Nat /\ now <= MaxWait
  BY Ages DEF Age
<1>2. PICK t \in Seq(Age) : /\ t = Append(s, now) /\ Len(t) = Len(s) + 1 /\ t[Len(s) + 1] = now
                            /\ \A i \in 1..Len(s) : t[i] = s[i]
  <2>1. /\ Append(s, now) \in Seq(Age) /\ Len(Append(s, now)) = Len(s) + 1
        /\ \A i \in 1..Len(s) : Append(s, now)[i] = s[i]
        /\ Append(s, now)[Len(s) + 1] = now
    BY <1>1, AppendProperties
  <2> QED BY <2>1
<1>3. ASSUME NEW i \in DOMAIN t, NEW j \in DOMAIN t, i < j PROVE t[j] <= t[i] + MaxWait
  <2>1. Len(s) \in Nat /\ DOMAIN s = 1..Len(s) /\ DOMAIN t = 1..(Len(s) + 1)
    BY <1>2, LenProperties
  <2>2. i \in DOMAIN s /\ t[i] = s[i] /\ s[i] \in Nat
    <3>1. i \in 1..Len(s)
      BY <1>3, <2>1
    <3> QED BY <1>2, <2>1, <3>1, ElementOfSeq, Ages DEF Age
  <2>3. CASE j = Len(s) + 1
    BY <1>1, <1>2, <2>2, <2>3, Ages
  <2>4. CASE j # Len(s) + 1
    <3>1. j \in 1..Len(s)
      BY <2>1, <2>4
    <3> QED BY <1>2, <1>3, <2>1, <2>2, <3>1 DEF Ordered
  <2> QED BY <2>3, <2>4
<1> QED BY <1>2, <1>3 DEF Ordered

\* Time goes by.
LEMMA TickOrdered ==
    ASSUME NEW s \in Seq(Age), Ordered(s)
    PROVE  /\ [i \in DOMAIN s |-> Older(s[i])] \in Seq(Age)
           /\ Ordered([i \in DOMAIN s |-> Older(s[i])])
<1>1. /\ DOMAIN s = 1..Len(s) /\ Len(s) \in Nat
      /\ \A i \in DOMAIN s : s[i] \in Nat /\ s[i] <= Oldest
  BY LenProperties, ElementOfSeq, Ages DEF Age
<1>2. \A i \in DOMAIN s : Older(s[i]) \in Age
  BY <1>1, Ages DEF Older, Age
<1>3. [i \in DOMAIN s |-> Older(s[i])] \in Seq(Age)
  BY <1>1, <1>2
<1>4. ASSUME NEW i \in DOMAIN s, NEW j \in DOMAIN s, i < j
      PROVE  Older(s[j]) <= Older(s[i]) + MaxWait
  <2>1. s[j] <= s[i] + MaxWait
    BY <1>4 DEF Ordered
  <2> QED BY <1>1, <2>1, Ages DEF Older
<1> QED BY <1>3, <1>4 DEF Ordered

-----------------------------------------------------------------------------
(* Type correctness.                                                       *)

TypeInv == BoardType /\ Ordered(stamps)

\* The board starts empty.
LEMMA TypeInit == Init => TypeInv
<1> SUFFICES ASSUME Init PROVE TypeInv
  OBVIOUS
<1>1. handler = [h \in Handler |-> FreeHandler]
  BY DEF Init
<1>2. handler \in [Handler -> Request] /\ \A h \in Handler : Served(handler[h])
  BY <1>1, FreeType
<1>3. Len(queue) <= QueueMaxsize /\ Len(actions) <= ActionsLimit
  BY BoardAssumption DEF Init
<1>4. stamps = <<>> /\ <<>> \in Seq(0..Oldest) /\ DOMAIN <<>> = {}
  BY DEF Init
<1>5. Ordered(stamps)
  BY <1>4 DEF Ordered
<1>6. requests \in 0..MaxRequests
  BY BoardAssumption DEF Init
<1> QED BY <1>2, <1>3, <1>4, <1>5, <1>6 DEF TypeInv, BoardType, Init

\* A handler goes on; the rest of the state keeps its types.
LEMMA HandlerMoves ==
    ASSUME BoardType, NEW h \in Handler, NEW r \in Request, Served(r),
           handler' = [handler EXCEPT ![h] = r]
    PROVE  /\ handler' \in [Handler -> Request] /\ \A o \in Handler : Served(handler'[o])
           /\ handler'[h] = r /\ \A o \in Handler : o # h => handler'[o] = handler[o]
BY DEF BoardType

\* What the actions of a handler do to it.
LEMMA HandlerEffect ==
    ASSUME BoardType, NEW h \in Handler, HandlerStep(h)
    PROVE  \E r \in Request : /\ Served(r) /\ handler' = [handler EXCEPT ![h] = r]
                              /\ Put(h) <=> r.pc = "stamp"
                              /\ r.pc = "stamp" => Head(r.items) = Current(h)
                              /\ handler[h].pc = "stamp" <=> RecordAccepted(h)
<1>1. CASE Submit(h)
  <2>0. PICK n \in 1..MaxBatch, batch \in BOOLEAN :
              \E items \in [1..n -> GoodItem] :
                 handler' = [handler EXCEPT ![h] =
                    [pc |-> "item", items |-> items, batch |-> batch, now |-> 0]]
    BY <1>1, Zenon DEF Submit, GoodItem
  <2>1. PICK items \in [1..n -> GoodItem] :
              handler' = [handler EXCEPT ![h] =
                 [pc |-> "item", items |-> items, batch |-> batch, now |-> 0]]
    BY <2>0
  <2>2. items \in Seq(GoodItem) /\ items # <<>>
    <3>1. n \in Nat /\ 1 \in 1..n
      BY <2>0, BoardAssumption
    <3>2. DOMAIN items # {}
      BY <3>1
    <3> QED BY <3>1, <3>2
  <2>3. PICK r : r = [pc |-> "item", items |-> items, batch |-> batch, now |-> 0]
    OBVIOUS
  <2>4. r \in Request /\ Served(r) /\ r.pc = "item"
    BY <2>2, <2>3, Ages DEF Request, Served
  <2> QED BY <1>1, <2>1, <2>3, <2>4 DEF Submit, Put, RecordAccepted, AtItem
<1>2. CASE Reject(h) \/ RecordAccepted(h)
  <2>1. handler[h] \in Request /\ handler[h].items # <<>>
    BY <1>2, CurrentType DEF Reject, RecordAccepted, AtItem
  <2>2. PICK r : r = Rest(handler[h])
    OBVIOUS
  <2>3. r \in Request /\ Served(r) /\ r.pc \in {"free", "item"}
    BY <2>1, <2>2, RestType
  <2>4. handler' = [handler EXCEPT ![h] = r]
    BY <1>2, <2>2 DEF Reject, RecordAccepted, BoardType
  <2> QED BY <1>2, <2>3, <2>4 DEF Reject, RecordAccepted, Put, AtItem
<1>3. CASE Put(h)
  <2>1. handler[h] \in Request /\ handler[h].items # <<>> /\ Current(h).valid
        /\ handler[h].pc = "item"
    BY <1>3, CurrentType DEF Put, AtItem
  <2>2. PICK was \in Request : was = handler[h]
    BY <2>1
  <2>3. PICK r : r = [was EXCEPT !.pc = "stamp", !.now = 0]
    OBVIOUS
  <2>4. r \in Request /\ r.pc = "stamp" /\ r.items = was.items
    BY <2>3, Ages DEF Request
  <2>5. handler' = [handler EXCEPT ![h] = r]
    BY <1>3, <2>2, <2>3 DEF Put, BoardType
  <2>6. Served(r) /\ Head(r.items) = Current(h)
    BY <2>1, <2>2, <2>4 DEF Served, Current
  <2> QED BY <1>3, <2>1, <2>4, <2>5, <2>6 DEF RecordAccepted
<1>4. CASE Overload(h)
  <2>1. handler' = [handler EXCEPT ![h] = FreeHandler] /\ handler[h].pc = "item"
        /\ Len(queue) = QueueMaxsize
    BY <1>4 DEF Overload, AtItem
  <2>2. QueueMaxsize \in Nat
    BY BoardAssumption
  <2>3. ~Put(h) /\ ~RecordAccepted(h) /\ handler[h].pc # "stamp"
    BY <2>1, <2>2 DEF Put, RecordAccepted
  <2>4. PICK r \in Request : r = FreeHandler /\ Served(r) /\ r.pc = "free"
    BY FreeType
  <2> QED BY <2>1, <2>3, <2>4
<1> QED BY <1>1, <1>2, <1>3, <1>4 DEF HandlerStep

\* What actions do to the list.
LEMMA ListEffect ==
    ASSUME BoardType, Next
    PROVE  \/ UNCHANGED board
           \/ /\ job \in Rid /\ RecordResult
              /\ \E result \in Final : UpdateAction(job, result)
           \/ \E h \in Handler : /\ Reject(h) \/ Overload(h)
                                 /\ \E e \in Entry : e.result = "REJECTED" /\ AppendLeft(e)
           \/ \E h \in Handler : /\ RecordAccepted(h) /\ Current(h).rid \in Rid
                                 /\ AppendLeft([rid |-> Current(h).rid, result |-> "QUEUED"])
<1>1. ASSUME NEW h \in Handler, Reject(h) \/ Overload(h)
      PROVE  UNCHANGED board \/ \E e \in Entry : e.result = "REJECTED" /\ AppendLeft(e)
  <2>1. Current(h).rid \in Rid \cup {NoRid}
    BY <1>1, CurrentType DEF Reject, Overload, AtItem
  <2>2. [rid |-> Current(h).rid, result |-> "REJECTED"] \in Entry
    BY <2>1 DEF Entry, Result
  <2> QED BY <1>1, <2>2 DEF Reject, Overload
<1>2. ASSUME NEW h \in Handler, RecordAccepted(h)
      PROVE  /\ Current(h).rid \in Rid
             /\ AppendLeft([rid |-> Current(h).rid, result |-> "QUEUED"])
  BY <1>2, CurrentType DEF RecordAccepted
<1>3. ASSUME NEW h \in Handler, Submit(h) \/ Put(h) PROVE UNCHANGED board
  BY <1>3 DEF Submit, Put
<1>4. CASE Get \/ LoseResult \/ StatusStep \/ Tick
  BY <1>4 DEF Get, LoseResult, StatusStep, BuildStatus, Tick
<1>5. CASE RecordResult
  BY <1>5 DEF RecordResult, BoardType
<1> QED BY <1>1, <1>2, <1>3, <1>4, <1>5 DEF Next, HandlerStep, WorkerStep

\* Every action keeps the type and the limit of the list.
LEMMA ListNext == BoardType /\ Next => ListType'
<1> SUFFICES ASSUME BoardType, Next PROVE ListType'
  OBVIOUS
<1>1. ListType
  BY DEF BoardType, ListType
<1>2. CASE UNCHANGED board
  BY <1>1, <1>2 DEF ListType, board
<1>3. ASSUME NEW e \in Entry, AppendLeft(e) PROVE ListType'
  BY <1>1, <1>3, AppendLeftEffect
<1>4. ASSUME NEW r \in Rid, AppendLeft([rid |-> r, result |-> "QUEUED"]) PROVE ListType'
  <2>1. [rid |-> r, result |-> "QUEUED"] \in Entry
    BY DEF Entry, Result
  <2> QED BY <1>3, <1>4, <2>1
<1>5. ASSUME job \in Rid, NEW result \in Final, UpdateAction(job, result) PROVE ListType'
  BY <1>1, <1>5, UpdateEffect
<1> QED BY <1>2, <1>3, <1>4, <1>5, ListEffect

\* Every action keeps the stamps in order up to one delay.
LEMMA StampsNext == TypeInv /\ Next => stamps' \in Seq(Age) /\ Ordered(stamps')
<1> SUFFICES ASSUME TypeInv, Next PROVE stamps' \in Seq(Age) /\ Ordered(stamps')
  OBVIOUS
<1>0. stamps \in Seq(Age) /\ Ordered(stamps)
  BY DEF TypeInv, BoardType, Age
<1>1. CASE UNCHANGED stamps
  BY <1>0, <1>1
<1>2. ASSUME NEW h \in Handler, RecordAccepted(h)
      PROVE  stamps' \in Seq(Age) /\ Ordered(stamps')
  <2>1. PICK now \in 0..MaxWait : now = handler[h].now
    <3>1. handler[h] \in Request
      BY <1>2, CurrentType DEF RecordAccepted, TypeInv
    <3> QED BY <3>1 DEF Request
  <2>2. PICK t \in Seq(Age) : t = Append(stamps, now) /\ Ordered(t)
    BY <1>0, AppendOrdered
  <2>3. stamps' = Prune(t, now)
    BY <1>2, <2>1, <2>2 DEF RecordAccepted
  <2> QED BY <2>2, <2>3, PruneEffect, PruneOrdered
<1>3. ASSUME NEW now \in 0..MaxWait, BuildStatus(now)
      PROVE  stamps' \in Seq(Age) /\ Ordered(stamps')
  BY <1>0, <1>3, PruneEffect, PruneOrdered DEF BuildStatus
<1>4. CASE Tick
  BY <1>0, <1>4, TickOrdered DEF Tick
<1>5. ASSUME NEW h \in Handler, Submit(h) \/ Reject(h) \/ Put(h) \/ Overload(h)
      PROVE  UNCHANGED stamps
  BY <1>5 DEF Submit, Reject, Put, Overload
<1>6. CASE WorkerStep
  BY <1>1, <1>6 DEF WorkerStep, Get, RecordResult, LoseResult
<1> QED BY <1>1, <1>2, <1>3, <1>4, <1>5, <1>6 DEF Next, HandlerStep, StatusStep

\* The queue, the worker's payload and the bookkeeping.
LEMMA QueueNext ==
    ASSUME BoardType, Next
    PROVE  /\ queue' \in Seq(Rid) /\ Len(queue') <= QueueMaxsize
           /\ job' \in Rid \cup {NoRid}
           /\ tardy' \subseteq Rid /\ lost' \subseteq Rid
           /\ requests' \in 0..MaxRequests
<1>0. /\ queue \in Seq(Rid) /\ Len(queue) <= QueueMaxsize /\ QueueMaxsize \in Nat
      /\ job \in Rid \cup {NoRid} /\ tardy \subseteq Rid /\ lost \subseteq Rid
      /\ requests \in 0..MaxRequests /\ MaxRequests \in Nat
  BY BoardAssumption DEF BoardType
<1>1. CASE UNCHANGED <<queue, job, tardy, lost>> /\ requests' \in 0..MaxRequests
  BY <1>0, <1>1
<1>2. ASSUME NEW h \in Handler, Submit(h)
      PROVE  UNCHANGED <<queue, job, tardy, lost>> /\ requests' \in 0..MaxRequests
  BY <1>0, <1>2 DEF Submit
<1>3. ASSUME NEW h \in Handler, Reject(h) \/ Overload(h)
      PROVE  UNCHANGED <<queue, job, tardy, lost>> /\ requests' \in 0..MaxRequests
  BY <1>0, <1>3 DEF Reject, Overload
<1>4. ASSUME NEW h \in Handler, Put(h)
      PROVE  /\ queue' \in Seq(Rid) /\ Len(queue') <= QueueMaxsize
             /\ UNCHANGED <<job, tardy, lost, requests>>
  <2>1. PICK r \in Rid : r = Current(h).rid
    BY <1>4, CurrentType DEF Put, AtItem
  <2>2. queue' = Append(queue, r) /\ Len(queue) < QueueMaxsize
    BY <1>4, <2>1 DEF Put
  <2> QED BY <1>0, <1>4, <2>2 DEF Put
<1>5. ASSUME NEW h \in Handler, RecordAccepted(h)
      PROVE  UNCHANGED <<queue, job, lost, requests>> /\ tardy' \subseteq Rid
  <2>1. Current(h).rid \in Rid
    BY <1>5, CurrentType DEF RecordAccepted
  <2> QED BY <1>0, <1>5, <2>1 DEF RecordAccepted
<1>6. CASE Get
  <2>1. queue # <<>> /\ job' = Head(queue) /\ queue' = Tail(queue)
    BY <1>6 DEF Get
  <2>2. Head(queue) \in Rid /\ Tail(queue) \in Seq(Rid) /\ Len(Tail(queue)) = Len(queue) - 1
    BY <1>0, <2>1
  <2>3. Len(queue) \in Nat
    BY <1>0
  <2> QED BY <1>0, <1>6, <2>1, <2>2, <2>3 DEF Get
<1>7. CASE RecordResult \/ LoseResult
  BY <1>0, <1>7 DEF RecordResult, LoseResult
<1>8. CASE StatusStep \/ Tick
  BY <1>0, <1>1, <1>8 DEF StatusStep, BuildStatus, Tick
<1> QED BY <1>0, <1>2, <1>3, <1>4, <1>5, <1>6, <1>7, <1>8 DEF Next, HandlerStep, WorkerStep

\* Every step keeps the types.
LEMMA TypeNext == TypeInv /\ [Next]_vars => TypeInv'
<1> SUFFICES ASSUME TypeInv, [Next]_vars PROVE TypeInv'
  OBVIOUS
<1>1. CASE UNCHANGED vars
  BY <1>1 DEF vars, board, TypeInv, BoardType, Ordered
<1>2. CASE Next
  <2>1. handler' \in [Handler -> Request] /\ \A h \in Handler : Served(handler'[h])
    <3>1. ASSUME NEW h \in Handler, HandlerStep(h)
          PROVE  handler' \in [Handler -> Request] /\ \A o \in Handler : Served(handler'[o])
      <4>1. PICK r \in Request : Served(r) /\ handler' = [handler EXCEPT ![h] = r]
        BY <3>1, HandlerEffect DEF TypeInv
      <4> QED BY <4>1, HandlerMoves DEF TypeInv
    <3>2. CASE WorkerStep \/ StatusStep
      <4>1. handler' = handler
        BY <3>2 DEF WorkerStep, Get, RecordResult, LoseResult, StatusStep, BuildStatus
      <4> QED BY <4>1 DEF TypeInv, BoardType
    <3>3. CASE Tick
      <4>1. ASSUME NEW h \in Handler
            PROVE  handler'[h] \in Request /\ Served(handler'[h])
        <5>1. PICK was \in Request : was = handler[h] /\ Served(was)
          BY DEF TypeInv, BoardType
        <5>2. CASE was.pc = "stamp"
          <6>1. PICK r : r = [was EXCEPT !.now = @ + 1]
            OBVIOUS
          <6>2. was.now \in 0..MaxWait /\ was.now < MaxWait
            BY <3>3, <5>1, <5>2 DEF Tick, Request
          <6>3. was.now + 1 \in 0..MaxWait
            BY <6>2, Ages
          <6>4. r \in Request /\ r.pc = was.pc /\ r.items = was.items
            BY <6>1, <6>3 DEF Request
          <6>5. handler'[h] = r
            BY <3>3, <5>1, <5>2, <6>1, Zenon DEF Tick
          <6> QED BY <5>1, <6>4, <6>5 DEF Served
        <5>3. CASE was.pc # "stamp"
          <6>1. handler'[h] = was
            BY <3>3, <5>1, <5>3, Zenon DEF Tick
          <6> QED BY <5>1, <6>1
        <5> QED BY <5>2, <5>3
      <4>2. handler' = [h \in Handler |-> handler'[h]]
        BY <3>3 DEF Tick
      <4> QED BY <4>1, <4>2
    <3> QED BY <1>2, <3>1, <3>2, <3>3 DEF Next
  <2>2. ListType'
    BY <1>2, ListNext DEF TypeInv
  <2>3. stamps' \in Seq(0..Oldest) /\ Ordered(stamps')
    BY <1>2, StampsNext DEF Age
  <2>4. /\ queue' \in Seq(Rid) /\ Len(queue') <= QueueMaxsize
        /\ job' \in Rid \cup {NoRid}
        /\ tardy' \subseteq Rid /\ lost' \subseteq Rid
        /\ requests' \in 0..MaxRequests
    BY <1>2, QueueNext DEF TypeInv
  <2> QED BY <2>1, <2>2, <2>3, <2>4 DEF TypeInv, BoardType, ListType, Ordered
<1> QED BY <1>1, <1>2

\* The type invariant holds of every behaviour.
LEMMA TypeInduction == Spec => []TypeInv
BY TypeInit, TypeNext, PTL DEF Spec

\* In every reachable state of trade-action-service's status board both deques
\* and the queue respect their lengths, and what handlers hold is well-formed.
THEOREM BoardTypeCorrect == Spec => []TypeOK
<1>1. TypeInv => TypeOK
  <2> SUFFICES ASSUME TypeInv PROVE TypeOK
    OBVIOUS
  <2>1. \A s \in Seq(GoodItem) : s \in Seq(Item)
    BY SeqMonotonic DEF GoodItem
  <2>2. \A r \in Request : r \in [pc : {"free", "item", "stamp"}, items : Seq(Item),
                                  batch : BOOLEAN, now : 0..MaxWait]
    BY <2>1 DEF Request
  <2> QED BY <2>2 DEF TypeInv, BoardType, TypeOK
<1> QED BY <1>1, TypeInduction, PTL

\* Pruning drops no stamp of the last minute.
Fresh(s) == {i \in DOMAIN s : s[i] <= Window}

\* The stamps of the last minute can be counted.
LEMMA FreshFinite ==
    ASSUME NEW s \in Seq(Age)
    PROVE  IsFiniteSet(Fresh(s)) /\ Cardinality(Fresh(s)) \in Nat
<1>1. 1 \in Int /\ Len(s) \in Int /\ Fresh(s) \subseteq 1..Len(s)
  BY LenProperties DEF Fresh
<1>2. IsFiniteSet(1..Len(s))
  BY <1>1, FS_Interval
<1> QED BY <1>1, <1>2, FS_Subset, FS_CardinalityType

\* Pruning loses no stamp of the last minute.
LEMMA PruneKeeps ==
    ASSUME NEW s \in Seq(Age), NEW now \in 0..MaxWait
    PROVE  Cardinality(Fresh(s)) <= Cardinality(Fresh(Prune(s, now)))
<1>1. PICK t \in Seq(Age) : t = Prune(s, now)
  BY PruneEffect
<1>2. /\ \A i \in DOMAIN s : s[i] \in Nat
      /\ now \in Nat /\ Window \in Nat /\ Window <= now + Window
      /\ DOMAIN s = 1..Len(s) /\ DOMAIN t = 1..Len(t) /\ Len(s) \in Nat
  BY LenProperties, ElementOfSeq, Ages DEF Age
<1>3. CASE Fresh(s) = {}
  <2>1. Cardinality(Fresh(s)) = 0
    BY <1>3, FS_EmptySet
  <2>2. Cardinality(Fresh(t)) \in Nat
    BY FreshFinite
  <2> QED BY <1>1, <2>1, <2>2
<1>4. CASE Fresh(s) # {}
  <2>1. ~ \A i \in DOMAIN s : ~(s[i] <= now + Window)
    <3>1. PICK i \in DOMAIN s : s[i] <= Window
      BY <1>4 DEF Fresh
    <3> QED BY <1>2, <3>1
  <2>2. \E k \in 1..Len(s) :
           /\ \A i \in 1..(k - 1) : ~(s[i] <= now + Window)
           /\ Len(Prune(s, now)) = Len(s) - k + 1
           /\ \A i \in 1..(Len(s) - k + 1) : Prune(s, now)[i] = s[i + (k - 1)]
    BY <2>1, PruneEffect
  <2>3. PICK k \in 1..Len(s) :
           /\ \A i \in 1..(k - 1) : ~(s[i] <= now + Window)
           /\ Len(t) = Len(s) - k + 1
           /\ \A i \in 1..(Len(s) - k + 1) : t[i] = s[i + (k - 1)]
    BY <1>1, <2>2
  <2>4. ASSUME NEW i \in Fresh(s) PROVE i - (k - 1) \in Fresh(t) /\ i \in Nat
    <3>1. i \in 1..Len(s) /\ s[i] <= Window /\ s[i] \in Nat
      BY <1>2 DEF Fresh
    <3>2. i \notin 1..(k - 1)
      BY <1>2, <2>3, <3>1
    <3>3. i - (k - 1) \in 1..(Len(s) - k + 1) /\ (i - (k - 1)) + (k - 1) = i
      BY <1>2, <3>1, <3>2
    <3>4. t[i - (k - 1)] = s[i]
      BY <2>3, <3>3
    <3> QED BY <1>2, <2>3, <3>1, <3>3, <3>4 DEF Fresh
  <2>5. PICK f : f = [i \in Fresh(s) |-> i - (k - 1)]
    OBVIOUS
  <2>6. f \in [Fresh(s) -> Fresh(t)]
    BY <2>4, <2>5
  <2>7. \A i, j \in Fresh(s) : f[i] = f[j] => i = j
    BY <1>2, <2>4, <2>5
  <2>8. IsFiniteSet(Fresh(t))
    BY FreshFinite
  <2> QED BY <1>1, <2>6, <2>7, <2>8, Moved
<1> QED BY <1>3, <1>4

\* throughput_per_min counts every acceptance of the last minute and none that
\* is older by more than the two delays between a clock and its lock, for any
\* number of handlers, whatever the order of their appends: _prune_throughput
\* may stop at the first fresh stamp.
THEOREM ThroughputCounts == Spec => ThroughputRight
<1> DEFINE P == /\ Tick \/ Within(Window)' >= Within(Window)
                /\ \A now \in 0..MaxWait : BuildStatus(now) =>
                      \A i \in DOMAIN stamps' : stamps'[i] <= Window + 2 * MaxWait
<1>1. ASSUME TypeInv, TypeInv', [Next]_vars PROVE P
  <2>0. /\ stamps \in Seq(Age) /\ stamps' \in Seq(Age) /\ Ordered(stamps)
        /\ Within(Window) = Cardinality(Fresh(stamps)) /\ Within(Window) \in Nat
        /\ Within(Window)' = Cardinality(Fresh(stamps')) /\ Within(Window)' \in Nat
    BY <1>1, FreshFinite DEF TypeInv, BoardType, Age, Within, Fresh
  <2>1. ASSUME NEW now \in 0..MaxWait, BuildStatus(now)
        PROVE  \A i \in DOMAIN stamps' : stamps'[i] <= Window + 2 * MaxWait
    BY <2>0, <2>1, PruneOrdered DEF BuildStatus
  <2>2. CASE UNCHANGED stamps
    BY <2>0, <2>1, <2>2
  <2>3. ASSUME NEW now \in 0..MaxWait, BuildStatus(now)
        PROVE  Within(Window)' >= Within(Window)
    <3>1. Cardinality(Fresh(stamps)) <= Cardinality(Fresh(stamps'))
      BY <2>0, <2>3, PruneKeeps DEF BuildStatus
    <3> QED BY <2>0, <3>1
  <2>4. ASSUME NEW h \in Handler, RecordAccepted(h)
        PROVE  Within(Window)' >= Within(Window)
    <3>1. PICK now \in 0..MaxWait : now = handler[h].now
      <4>1. handler[h] \in Request
        BY <1>1, <2>4, CurrentType DEF RecordAccepted, TypeInv
      <4> QED BY <4>1 DEF Request
    <3>2. /\ Append(stamps, now) \in Seq(Age) /\ Len(Append(stamps, now)) = Len(stamps) + 1
          /\ \A i \in 1..Len(stamps) : Append(stamps, now)[i] = stamps[i]
      <4>1. now \in Age
        BY Ages DEF Age
      <4> QED BY <2>0, <4>1, AppendProperties
    <3>3. PICK t \in Seq(Age) : /\ t = Append(stamps, now) /\ Len(t) = Len(stamps) + 1
                                /\ \A i \in 1..Len(stamps) : t[i] = stamps[i]
      BY <3>2
    <3>4. stamps' = Prune(t, now)
      BY <2>4, <3>1, <3>3 DEF RecordAccepted
    <3>5. Cardinality(Fresh(t)) <= Cardinality(Fresh(stamps'))
      BY <3>4, PruneKeeps
    <3>6. Fresh(stamps) \subseteq Fresh(t)
      <4>1. DOMAIN stamps = 1..Len(stamps) /\ DOMAIN t = 1..Len(t) /\ Len(stamps) \in Nat
        BY <2>0, LenProperties
      <4> QED BY <3>3, <4>1 DEF Fresh
    <3>7. IsFiniteSet(Fresh(t)) /\ Cardinality(Fresh(t)) \in Nat
      BY FreshFinite
    <3>8. Cardinality(Fresh(stamps)) <= Cardinality(Fresh(t))
      BY <3>6, <3>7, FS_Subset
    <3> QED BY <2>0, <3>5, <3>7, <3>8
  <2>5. ASSUME NEW h \in Handler, Submit(h) \/ Reject(h) \/ Put(h) \/ Overload(h)
        PROVE  UNCHANGED stamps
    BY <2>5 DEF Submit, Reject, Put, Overload
  <2>6. CASE WorkerStep
    BY <2>2, <2>6 DEF WorkerStep, Get, RecordResult, LoseResult
  <2>7. CASE UNCHANGED vars
    BY <2>2, <2>7 DEF vars
  <2>8. CASE Tick
    BY <2>1, <2>8
  <2> QED BY <1>1, <2>1, <2>2, <2>3, <2>4, <2>5, <2>6, <2>7, <2>8 DEF Next, HandlerStep, StatusStep
<1>2. Spec => [][P]_vars
  BY <1>1, TypeInduction, PTL DEF Spec
<1> QED BY <1>2 DEF ThroughputRight

-----------------------------------------------------------------------------
(* Waiting work.                                                           *)

Stamping == {h \in Handler : handler[h].pc = "stamp"}
Queued(r) == Count(actions, Waiting(r))

\* The parts of WaitingIsShown are numbers.
LEMMA WaitingParts ==
    ASSUME BoardType, IsFiniteSet(Stamping), NEW r \in Rid
    PROVE  /\ Unfinished(r) = Count(queue, {r}) + (IF job = r THEN 1 ELSE 0)
           /\ Count(queue, {r}) \in Nat /\ Unfinished(r) \in Nat
           /\ IsFiniteSet(Unrecorded(r)) /\ Cardinality(Unrecorded(r)) \in Nat
           /\ Cardinality(Shown(r, {"QUEUED"})) = Queued(r) /\ Queued(r) \in Nat
           /\ evicted[r] \in Nat
<1>1. Unfinished(r) = Count(queue, {r}) + (IF job = r THEN 1 ELSE 0)
  <2>1. InQueue(r) = Positions(queue, {r})
    BY DEF InQueue, Positions
  <2> QED BY <2>1, Zenon DEF Unfinished, Count
<1>2. Count(queue, {r}) \in Nat
  BY CountType DEF BoardType
<1>3. Unfinished(r) \in Nat
  BY <1>1, <1>2
<1>4. IsFiniteSet(Unrecorded(r)) /\ Cardinality(Unrecorded(r)) \in Nat
  <2>1. Unrecorded(r) \in SUBSET Stamping
    BY DEF Unrecorded, Stamping
  <2> QED BY <2>1, FS_Subset, FS_CardinalityType
<1>5. Shown(r, {"QUEUED"}) = Positions(actions, Waiting(r))
  <2>1. \A i \in DOMAIN actions : actions[i] \in Entry
    BY ElementOfSeq, LenProperties DEF BoardType
  <2>2. ASSUME NEW e \in Entry
        PROVE  (e.rid = r /\ e.result \in {"QUEUED"}) <=> e \in Waiting(r)
    BY DEF Entry, Waiting
  <2> QED BY <2>1, <2>2 DEF Shown, Positions
<1>6. Queued(r) \in Nat
  BY CountType DEF BoardType, Queued
<1> QED BY <1>1, <1>2, <1>3, <1>4, <1>5, <1>6 DEF Queued, Count, BoardType

\* The queue and the worker's payload.
LEMMA UnfinishedEffect ==
    ASSUME BoardType, BoardType', IsFiniteSet(Stamping), IsFiniteSet(Stamping'),
           Next, NEW r \in Rid
    PROVE  /\ (\E h \in Handler : Put(h) /\ Current(h).rid = r)
                 => Unfinished(r)' = Unfinished(r) + 1
           /\ (RecordResult \/ LoseResult) /\ job = r
                 => Unfinished(r) = Unfinished(r)' + 1
           /\ (\E h \in Handler : RecordAccepted(h)) => Unfinished(r)' = Unfinished(r)
           /\ \/ \E h \in Handler : Put(h) /\ Current(h).rid = r
              \/ (RecordResult \/ LoseResult) /\ job = r
              \/ Unfinished(r)' = Unfinished(r)
<1>1. PICK n \in Nat, m \in Nat :
            /\ n = Count(queue, {r}) /\ m = Count(queue', {r})
            /\ Unfinished(r) = n + (IF job = r THEN 1 ELSE 0)
            /\ Unfinished(r)' = m + (IF job' = r THEN 1 ELSE 0)
  <2>1. /\ Unfinished(r) = Count(queue, {r}) + (IF job = r THEN 1 ELSE 0)
        /\ Count(queue, {r}) \in Nat
    BY WaitingParts
  <2>2. /\ Unfinished(r)' = Count(queue', {r}) + (IF job' = r THEN 1 ELSE 0)
        /\ Count(queue', {r}) \in Nat
    <3>1. InQueue(r)' = Positions(queue', {r})
      BY DEF InQueue, Positions
    <3>2. Count(queue', {r}) \in Nat
      BY CountType DEF BoardType
    <3> QED BY <3>1, <3>2, Zenon DEF Unfinished, Count
  <2> QED BY <2>1, <2>2
<1>2. queue \in Seq(Rid) /\ NoRid \notin Rid
  BY BoardAssumption DEF BoardType
<1>3. ASSUME UNCHANGED <<queue, job>> PROVE Unfinished(r)' = Unfinished(r)
  <2>1. queue' = queue /\ job' = job
    BY <1>3
  <2> QED BY <2>1, Zenon DEF Unfinished, InQueue
<1>4. ASSUME NEW h \in Handler, Put(h)
      PROVE  /\ Current(h).rid = r => Unfinished(r)' = Unfinished(r) + 1
             /\ Current(h).rid # r => Unfinished(r)' = Unfinished(r)
  <2>1. Current(h).rid \in Rid
    BY <1>4, CurrentType DEF Put, AtItem
  <2>2. queue' = Append(queue, Current(h).rid) /\ job' = job
    BY <1>4 DEF Put
  <2>3. m = n + (IF Current(h).rid \in {r} THEN 1 ELSE 0)
    BY <1>1, <1>2, <2>1, <2>2, CountAppend
  <2> QED BY <1>1, <2>2, <2>3
<1>5. ASSUME Get PROVE Unfinished(r)' = Unfinished(r)
  <2>1. queue # <<>> /\ job = NoRid /\ job' = Head(queue) /\ queue' = Tail(queue)
    BY <1>5 DEF Get
  <2>2. n = m + (IF Head(queue) \in {r} THEN 1 ELSE 0)
    BY <1>1, <1>2, <2>1, CountTail
  <2> QED BY <1>1, <1>2, <2>1, <2>2
<1>6. ASSUME RecordResult \/ LoseResult
      PROVE  /\ job = r => Unfinished(r) = Unfinished(r)' + 1
             /\ job # r => Unfinished(r)' = Unfinished(r)
  <2>1. queue' = queue /\ job # NoRid /\ job' = NoRid
    BY <1>6 DEF RecordResult, LoseResult
  <2>2. n = m
    BY <1>1, <2>1, Zenon
  <2> QED BY <1>1, <1>2, <2>1, <2>2
<1>7. ASSUME NEW h \in Handler, Submit(h) \/ Reject(h) \/ Overload(h) \/ RecordAccepted(h)
      PROVE  Unfinished(r)' = Unfinished(r)
  BY <1>3, <1>7 DEF Submit, Reject, Overload, RecordAccepted
<1>8. ASSUME StatusStep \/ Tick PROVE Unfinished(r)' = Unfinished(r)
  BY <1>3, <1>8 DEF StatusStep, BuildStatus, Tick
<1>9. \/ \E h \in Handler : Put(h) /\ Current(h).rid = r
      \/ (RecordResult \/ LoseResult) /\ job = r
      \/ Unfinished(r)' = Unfinished(r)
  <2>1. CASE \E h \in Handler : HandlerStep(h)
    BY <1>4, <1>7, <2>1 DEF HandlerStep
  <2>2. CASE WorkerStep
    BY <1>5, <1>6, <2>2 DEF WorkerStep
  <2> QED BY <1>8, <2>1, <2>2 DEF Next
<1> QED BY <1>4, <1>6, <1>7, <1>9

\* The handlers between put and record_accepted.
LEMMA UnrecordedEffect ==
    ASSUME BoardType, IsFiniteSet(Stamping), Next
    PROVE  /\ IsFiniteSet(Stamping')
           /\ \A r \in Rid :
                 /\ \A h \in Handler : Put(h) /\ Current(h).rid = r =>
                       h \notin Unrecorded(r) /\ Unrecorded(r)' = Unrecorded(r) \cup {h}
                 /\ \A h \in Handler : RecordAccepted(h) /\ Current(h).rid = r =>
                       h \in Unrecorded(r) /\ Unrecorded(r)' = Unrecorded(r) \ {h}
                 /\ \/ \E h \in Handler : Put(h) /\ Current(h).rid = r
                    \/ \E h \in Handler : RecordAccepted(h) /\ Current(h).rid = r
                    \/ Unrecorded(r)' = Unrecorded(r)
<1>1. ASSUME NEW h \in Handler, HandlerStep(h)
      PROVE  /\ Stamping' \subseteq Stamping \cup {h}
             /\ \A r \in Rid :
                  /\ Put(h) /\ Current(h).rid = r =>
                       h \notin Unrecorded(r) /\ Unrecorded(r)' = Unrecorded(r) \cup {h}
                  /\ RecordAccepted(h) /\ Current(h).rid = r =>
                       h \in Unrecorded(r) /\ Unrecorded(r)' = Unrecorded(r) \ {h}
                  /\ \/ Put(h) /\ Current(h).rid = r
                     \/ RecordAccepted(h) /\ Current(h).rid = r
                     \/ Unrecorded(r)' = Unrecorded(r)
  <2>1. PICK q \in Request : /\ Served(q) /\ handler' = [handler EXCEPT ![h] = q]
                             /\ Put(h) <=> q.pc = "stamp"
                             /\ q.pc = "stamp" => Head(q.items) = Current(h)
                             /\ handler[h].pc = "stamp" <=> RecordAccepted(h)
    BY <1>1, HandlerEffect
  <2>2. handler'[h] = q /\ \A o \in Handler : o # h => handler'[o] = handler[o]
    BY <2>1, HandlerMoves
  <2>3. Stamping' \subseteq Stamping \cup {h}
    BY <2>2 DEF Stamping
  <2>4. ~(Put(h) /\ RecordAccepted(h))
    BY DEF Put, AtItem, RecordAccepted
  <2>5. ASSUME NEW r \in Rid
        PROVE  /\ \A o \in Handler : o # h => (o \in Unrecorded(r)' <=> o \in Unrecorded(r))
               /\ h \in Unrecorded(r) <=> (RecordAccepted(h) /\ Current(h).rid = r)
               /\ h \in Unrecorded(r)' <=> (Put(h) /\ Current(h).rid = r)
    <3>1. \A o \in Handler : o # h => (o \in Unrecorded(r)' <=> o \in Unrecorded(r))
      BY <2>2 DEF Unrecorded, Current
    <3>2. h \in Unrecorded(r) <=> (RecordAccepted(h) /\ Current(h).rid = r)
      BY <2>1 DEF Unrecorded
    <3>3. h \in Unrecorded(r)' <=> (handler'[h].pc = "stamp" /\ Head(handler'[h].items).rid = r)
      BY DEF Unrecorded, Current
    <3>4. h \in Unrecorded(r)' <=> (Put(h) /\ Current(h).rid = r)
      BY <2>1, <2>2, <3>3
    <3> QED BY <3>1, <3>2, <3>4
  <2>6. \A r \in Rid : Unrecorded(r) \subseteq Handler /\ Unrecorded(r)' \subseteq Handler
    BY DEF Unrecorded
  <2>7. ASSUME NEW r \in Rid
        PROVE  /\ Put(h) /\ Current(h).rid = r =>
                    h \notin Unrecorded(r) /\ Unrecorded(r)' = Unrecorded(r) \cup {h}
               /\ RecordAccepted(h) /\ Current(h).rid = r =>
                    h \in Unrecorded(r) /\ Unrecorded(r)' = Unrecorded(r) \ {h}
               /\ \/ Put(h) /\ Current(h).rid = r
                  \/ RecordAccepted(h) /\ Current(h).rid = r
                  \/ Unrecorded(r)' = Unrecorded(r)
    <3>1. PICK U \in SUBSET Handler, V \in SUBSET Handler :
                U = Unrecorded(r) /\ V = Unrecorded(r)'
      BY <2>6
    <3>2. /\ \A o \in Handler : o # h => (o \in V <=> o \in U)
          /\ h \in U <=> (RecordAccepted(h) /\ Current(h).rid = r)
          /\ h \in V <=> (Put(h) /\ Current(h).rid = r)
      BY <2>5, <3>1
    <3>3. CASE h \in U /\ h \notin V
      <4>1. V = U \ {h}
        BY <3>2, <3>3
      <4> QED BY <3>1, <3>2, <3>3, <4>1
    <3>4. CASE h \notin U /\ h \in V
      <4>1. V = U \cup {h}
        BY <3>2, <3>4
      <4> QED BY <3>1, <3>2, <3>4, <4>1
    <3>5. CASE h \notin U /\ h \notin V
      <4>1. V = U
        BY <3>2, <3>5
      <4> QED BY <3>1, <3>2, <3>5, <4>1
    <3> QED BY <2>4, <3>2, <3>3, <3>4, <3>5
  <2> QED BY <2>3, <2>7
<1>2. ASSUME WorkerStep \/ StatusStep \/ Tick
      PROVE  Stamping' = Stamping /\ \A r \in Rid : Unrecorded(r)' = Unrecorded(r)
  <2>1. CASE WorkerStep \/ StatusStep
    <3>1. handler' = handler
      BY <2>1 DEF WorkerStep, Get, RecordResult, LoseResult, StatusStep, BuildStatus
    <3> QED BY <3>1 DEF Stamping, Unrecorded, Current
  <2>2. CASE Tick
    <3>1. ASSUME NEW h \in Handler
          PROVE  handler'[h].pc = handler[h].pc /\ handler'[h].items = handler[h].items
      <4>1. PICK was \in Request : was = handler[h]
        BY DEF BoardType
      <4>2. PICK r : r = [was EXCEPT !.now = @ + 1]
        OBVIOUS
      <4>3. r.pc = was.pc /\ r.items = was.items
        BY <4>2 DEF Request
      <4>4. handler'[h] = IF was.pc = "stamp" THEN r ELSE was
        BY <2>2, <4>1, <4>2, Zenon DEF Tick
      <4> QED BY <4>1, <4>3, <4>4
    <3> QED BY <3>1 DEF Stamping, Unrecorded, Current
  <2> QED BY <1>2, <2>1, <2>2
<1>3. \A h \in Handler : IsFiniteSet(Stamping \cup {h})
  BY FS_AddElement
<1>4. IsFiniteSet(Stamping')
  BY <1>1, <1>2, <1>3, FS_Subset DEF Next
<1>5. \A h \in Handler : Put(h) \/ RecordAccepted(h) => HandlerStep(h)
  BY DEF HandlerStep
<1> QED BY <1>1, <1>2, <1>4, <1>5 DEF Next

\* The parts again, before and after a step.
Parts ==
    IsFiniteSet(Stamping) =>
       \A r \in Rid :
          /\ Unfinished(r) \in Nat /\ Queued(r) \in Nat /\ evicted[r] \in Nat
          /\ Cardinality(Unrecorded(r)) \in Nat /\ IsFiniteSet(Unrecorded(r))
          /\ Cardinality(Shown(r, {"QUEUED"})) = Queued(r)

\* They are numbers now ...
LEMMA PartsNow == BoardType => Parts
BY WaitingParts DEF Parts

\* ... and after a step.
LEMMA PartsThen == BoardType' => Parts'
BY PartsNow, PTL

Balanced(r) == Unfinished(r) <= Cardinality(Shown(r, {"QUEUED"}))
                                + Cardinality(Unrecorded(r)) + evicted[r]

\* What a step does to the entries that say "waiting in buffer".
LEMMA QueuedEffect ==
    ASSUME BoardType, BoardType', Next, NEW r \in Rid
    PROVE  /\ (\E h \in Handler : RecordAccepted(h) /\ Current(h).rid = r)
                 => Queued(r)' + evicted'[r] = Queued(r) + evicted[r] + 1
           /\ \/ /\ RecordResult /\ job = r
                 /\ Queued(r) + evicted[r] <= Queued(r)' + evicted'[r] + 1
              \/ Queued(r) + evicted[r] <= Queued(r)' + evicted'[r]
<1>1. PICK q \in Nat, e \in Nat, p \in Nat, d \in Nat :
            /\ q = Queued(r) /\ q = Count(actions, Waiting(r)) /\ e = evicted[r]
            /\ p = Queued(r)' /\ p = Count(actions', Waiting(r)) /\ d = evicted'[r]
  BY CountType DEF BoardType, Queued, Waiting
<1>2. ListType /\ \A f \in Rid : Waiting(f) = {[rid |-> f, result |-> "QUEUED"]}
  BY DEF BoardType, ListType, Waiting
<1>3. ASSUME NEW h \in Handler, RecordAccepted(h), Current(h).rid = r
      PROVE  p + d = q + e + 1
  <2>1. PICK entry \in Entry : entry = [rid |-> r, result |-> "QUEUED"] /\ AppendLeft(entry)
    <3>1. [rid |-> r, result |-> "QUEUED"] \in Entry
      BY DEF Entry, Result
    <3>2. AppendLeft([rid |-> r, result |-> "QUEUED"])
      BY <1>3 DEF RecordAccepted
    <3> QED BY <3>1, <3>2
  <2>2. entry \in Waiting(r)
    BY <2>1 DEF Waiting
  <2>3. Count(actions', Waiting(r)) + evicted'[r]
          = Count(actions, Waiting(r)) + evicted[r] + (IF entry \in Waiting(r) THEN 1 ELSE 0)
    BY <1>2, <2>1, AppendLeftEffect
  <2> QED BY <1>1, <2>2, <2>3
<1>4. ASSUME NEW entry \in Entry, AppendLeft(entry) PROVE q + e <= p + d
  <2>1. Count(actions', Waiting(r)) + evicted'[r]
          = Count(actions, Waiting(r)) + evicted[r] + (IF entry \in Waiting(r) THEN 1 ELSE 0)
    BY <1>2, <1>4, AppendLeftEffect
  <2>2. p + d = q + e + (IF entry \in Waiting(r) THEN 1 ELSE 0)
    BY <1>1, <2>1, Zenon
  <2> QED BY <1>1, <2>2
<1>5. ASSUME NEW h \in Handler, Current(h).rid \in Rid,
             AppendLeft([rid |-> Current(h).rid, result |-> "QUEUED"])
      PROVE  q + e <= p + d
  <2>1. [rid |-> Current(h).rid, result |-> "QUEUED"] \in Entry
    BY <1>5 DEF Entry, Result
  <2> QED BY <1>4, <1>5, <2>1
<1>6. ASSUME job \in Rid, RecordResult, NEW result \in Final, UpdateAction(job, result)
      PROVE  q + e <= p + d \/ (RecordResult /\ job = r /\ q + e <= p + d + 1)
  <2>1. Count(actions, Waiting(r)) + evicted[r]
          <= Count(actions', Waiting(r)) + evicted'[r] + (IF r = job THEN 1 ELSE 0)
    BY <1>2, <1>6, UpdateEffect
  <2>2. q + e <= p + d + (IF r = job THEN 1 ELSE 0)
    BY <1>1, <2>1, Zenon
  <2> QED BY <1>1, <1>6, <2>2
<1>7. ASSUME UNCHANGED board PROVE q + e <= p + d
  <2>1. actions' = actions /\ evicted' = evicted
    BY <1>7 DEF board
  <2>2. p = q /\ d = e
    BY <1>1, <2>1, Zenon
  <2> QED BY <1>1, <2>2
<1>8. q + e <= p + d \/ (RecordResult /\ job = r /\ q + e <= p + d + 1)
  BY <1>4, <1>5, <1>6, <1>7, ListEffect
<1> QED BY <1>1, <1>3, <1>8

\* What a step adds to one side of WaitingIsShown it adds to the other.
LEMMA BalancedNext ==
    ASSUME BoardType, BoardType', IsFiniteSet(Stamping), Next, NEW r \in Rid, Balanced(r)
    PROVE  Balanced(r)'
<1>0. IsFiniteSet(Stamping')
  BY UnrecordedEffect
<1>1. PICK u \in Nat, q \in Nat, n \in Nat, e \in Nat :
            /\ u = Unfinished(r) /\ q = Queued(r) /\ n = Cardinality(Unrecorded(r))
            /\ e = evicted[r] /\ u <= q + n + e
  BY PartsNow DEF Parts, Balanced
<1>2. PICK v \in Nat, p \in Nat, m \in Nat, d \in Nat :
            /\ v = Unfinished(r)' /\ p = Queued(r)' /\ m = Cardinality(Unrecorded(r)')
            /\ d = evicted'[r]
            /\ Balanced(r)' <=> v <= p + m + d
  BY <1>0, PartsThen DEF Parts, Balanced
<1> DEFINE Enqueued == \E h \in Handler : Put(h) /\ Current(h).rid = r
           Recorded == \E h \in Handler : RecordAccepted(h) /\ Current(h).rid = r
           Worked   == (RecordResult \/ LoseResult) /\ job = r
<1>3. /\ Enqueued => v = u + 1
      /\ Worked => u = v + 1
      /\ Recorded => v = u
      /\ Enqueued \/ Worked \/ v = u
  BY <1>0, <1>1, <1>2, UnfinishedEffect
<1>4. /\ Enqueued => m = n + 1
      /\ Recorded => n = m + 1
      /\ Enqueued \/ Recorded \/ m = n
  <2>1. IsFiniteSet(Unrecorded(r))
    BY PartsNow DEF Parts
  <2>2. ASSUME NEW h \in Handler, h \notin Unrecorded(r), Unrecorded(r)' = Unrecorded(r) \cup {h}
        PROVE  m = n + 1
    BY <1>1, <1>2, <2>1, <2>2, FS_AddElement
  <2>3. ASSUME NEW h \in Handler, h \in Unrecorded(r), Unrecorded(r)' = Unrecorded(r) \ {h}
        PROVE  n = m + 1
    <3>1. m = n - 1
      BY <1>1, <1>2, <2>1, <2>3, FS_RemoveElement
    <3> QED BY <1>1, <3>1
  <2>4. Enqueued \/ Recorded \/ m = n
    BY <1>1, <1>2, UnrecordedEffect
  <2> QED BY <2>2, <2>3, <2>4, UnrecordedEffect
<1>5. /\ Recorded => p + d = q + e + 1
      /\ (Worked /\ q + e <= p + d + 1) \/ q + e <= p + d
  <2>1. /\ Recorded => Queued(r)' + evicted'[r] = Queued(r) + evicted[r] + 1
        /\ \/ Worked /\ Queued(r) + evicted[r] <= Queued(r)' + evicted'[r] + 1
           \/ Queued(r) + evicted[r] <= Queued(r)' + evicted'[r]
    BY QueuedEffect
  <2> HIDE DEF Recorded, Worked
  <2>2. q = Queued(r) /\ e = evicted[r] /\ p = Queued(r)' /\ d = evicted'[r]
    BY <1>1, <1>2
  <2>3. Recorded => p + d = q + e + 1
    BY <2>1, <2>2, Zenon
  <2>4. (Worked /\ q + e <= p + d + 1) \/ q + e <= p + d
    BY <2>1, <2>2, Zenon
  <2> QED BY <2>3, <2>4
<1>6. v <= p + m + d
  <2> HIDE DEF Enqueued, Recorded, Worked
  <2>1. CASE Enqueued
    BY <1>1, <1>2, <1>3, <1>4, <1>5, <2>1
  <2>2. CASE ~Enqueued
    BY <1>1, <1>2, <1>3, <1>4, <1>5, <2>2
  <2> QED BY <2>1, <2>2
<1> QED BY <1>2, <1>6

WaitingInv == TypeInv /\ IsFiniteSet(Stamping) /\ \A r \in Rid : Balanced(r)

\* At first nothing waits and nothing is shown.
LEMMA WaitingInit == Init => WaitingInv
<1> SUFFICES ASSUME Init PROVE WaitingInv
  OBVIOUS
<1>1. TypeInv /\ BoardType
  BY TypeInit DEF TypeInv
<1>2. IsFiniteSet(Stamping)
  <2>1. Stamping = {}
    BY FreeType DEF Init, Stamping
  <2> QED BY <2>1, FS_EmptySet
<1>3. ASSUME NEW r \in Rid PROVE Balanced(r)
  <2>1. PICK q \in Nat, n \in Nat, e \in Nat, k \in Nat :
              /\ q = Cardinality(Shown(r, {"QUEUED"})) /\ n = Cardinality(Unrecorded(r))
              /\ e = evicted[r] /\ k = Unfinished(r)
    BY <1>1, <1>2, PartsNow DEF Parts
  <2>2. Unfinished(r) = 0
    <3>1. Unfinished(r) = Count(queue, {r}) + (IF job = r THEN 1 ELSE 0)
      BY <1>1, <1>2, WaitingParts
    <3>2. Count(queue, {r}) = 0
      <4>1. queue = <<>>
        BY DEF Init
      <4> QED BY <4>1, CountEmpty
    <3>3. job # r
      BY BoardAssumption DEF Init
    <3> QED BY <3>1, <3>2, <3>3
  <2> QED BY <2>1, <2>2 DEF Balanced
<1> QED BY <1>1, <1>2, <1>3 DEF WaitingInv

\* Every step keeps the balance of every request.
LEMMA WaitingNext == WaitingInv /\ [Next]_vars => WaitingInv'
<1> SUFFICES ASSUME WaitingInv, [Next]_vars PROVE WaitingInv'
  OBVIOUS
<1>1. TypeInv' /\ BoardType /\ BoardType'
  BY TypeNext DEF WaitingInv, TypeInv
<1>2. CASE Next
  <2>1. IsFiniteSet(Stamping)'
    BY <1>1, <1>2, UnrecordedEffect DEF WaitingInv
  <2>2. \A r \in Rid : Balanced(r)'
    BY <1>1, <1>2, BalancedNext DEF WaitingInv
  <2> QED BY <1>1, <2>1, <2>2 DEF WaitingInv
<1>3. CASE UNCHANGED vars
  <2>1. IsFiniteSet(Stamping)'
    BY <1>3, Zenon DEF vars, Stamping, WaitingInv
  <2>2. ASSUME NEW r \in Rid PROVE Balanced(r)'
    <3>1. Balanced(r)
      BY DEF WaitingInv
    <3>2. /\ handler' = handler /\ queue' = queue /\ job' = job
          /\ actions' = actions /\ evicted' = evicted
      BY <1>3 DEF vars
    <3> QED BY <3>1, <3>2 DEF Balanced, Unfinished, InQueue, Shown, Unrecorded, Current
  <2> QED BY <1>1, <2>1, <2>2 DEF WaitingInv
<1> QED BY <1>2, <1>3

\* GET /status does not understate the work that waits: every copy of a request
\* in the queue or with the worker has an entry QUEUED in recent_actions, or
\* the deque's maxlen pushed that entry out, or a handler is between its put
\* and its record_accepted.
THEOREM WaitingShown == Spec => []WaitingIsShown
<1>1. WaitingInv => WaitingIsShown
  BY Zenon DEF WaitingInv, WaitingIsShown, Balanced
<1> QED BY <1>1, WaitingInit, WaitingNext, PTL DEF Spec

-----------------------------------------------------------------------------
(* Finished work.                                                          *)

\* The newest entry of a finished request says QUEUED for one of two reasons.
Explained(r) == QueuedNewest(r) /\ Unfinished(r) = 0 => r \in tardy \cup lost

\* A step that leaves a finished request with a newest entry QUEUED either makes
\* it tardy or lost, or found it so.
LEMMA ExplainedNext ==
    ASSUME BoardType, BoardType', IsFiniteSet(Stamping), Next, NEW r \in Rid, Explained(r)
    PROVE  Explained(r)'
<1> SUFFICES ASSUME QueuedNewest(r)', Unfinished(r)' = 0 PROVE r \in tardy' \cup lost'
  BY DEF Explained
<1>1. ListType /\ IsFiniteSet(Stamping')
  BY UnrecordedEffect DEF BoardType, ListType
<1>2. Unfinished(r) \in Nat
  BY PartsNow DEF Parts
<1>3. CASE RecordResult
  <2>1. PICK result \in Final : UpdateAction(job, result)
    BY <1>3 DEF RecordResult
  <2>2. job \in Rid /\ job # NoRid
    BY <1>3 DEF RecordResult, BoardType
  <2>3. job # r /\ QueuedNewest(r)
    BY <1>1, <2>1, <2>2, UpdateEffect
  <2>4. Unfinished(r) = 0
    <3>1. ~\E h \in Handler : Put(h)
      BY <1>3, <2>2 DEF RecordResult, Put
    <3> QED BY <1>1, <2>3, <3>1, UnfinishedEffect
  <2>5. r \in tardy \cup lost
    BY <2>3, <2>4 DEF Explained
  <2> QED BY <1>3, <2>3, <2>5 DEF RecordResult
<1>4. CASE LoseResult
  <2>1. QueuedNewest(r)
    BY <1>4 DEF LoseResult, board, QueuedNewest
  <2>2. CASE job = r
    BY <1>4, <2>2 DEF LoseResult
  <2>3. CASE job # r
    <3>1. ~\E h \in Handler : Put(h)
      BY <1>4, BoardAssumption DEF LoseResult, Put
    <3>2. Unfinished(r) = 0
      BY <1>1, <2>3, <3>1, UnfinishedEffect
    <3>3. r \in tardy \cup lost
      BY <2>1, <3>2 DEF Explained
    <3> QED BY <1>4, <3>3 DEF LoseResult
  <2> QED BY <2>2, <2>3
<1>5. ASSUME NEW h \in Handler, RecordAccepted(h)
      PROVE  r \in tardy' \cup lost'
  <2>1. Unfinished(r) = 0
    BY <1>1, <1>5, UnfinishedEffect
  <2>2. lost' = lost /\ tardy \subseteq tardy'
    BY <1>5 DEF RecordAccepted
  <2>3. CASE Current(h).rid = r
    BY <1>5, <2>1, <2>3 DEF RecordAccepted
  <2>4. CASE Current(h).rid # r
    <3>1. PICK e \in Entry : e.rid # r /\ AppendLeft(e)
      <4>1. Current(h).rid \in Rid
        BY <1>5, CurrentType DEF RecordAccepted
      <4>2. PICK e : e = [rid |-> Current(h).rid, result |-> "QUEUED"]
        OBVIOUS
      <4>3. e \in Entry /\ e.rid = Current(h).rid
        BY <4>1, <4>2 DEF Entry, Result
      <4> QED BY <1>5, <2>4, <4>2, <4>3 DEF RecordAccepted
    <3>2. QueuedNewest(r)
      BY <1>1, <3>1, AppendLeftEffect
    <3> QED BY <2>1, <2>2, <3>2 DEF Explained
  <2> QED BY <2>3, <2>4
<1>6. ASSUME ~RecordResult, ~LoseResult, \A h \in Handler : ~RecordAccepted(h)
      PROVE  r \in tardy' \cup lost'
  <2>1. tardy' = tardy /\ lost' = lost
    BY <1>6 DEF Next, HandlerStep, WorkerStep, StatusStep, Submit, Reject, Put, Overload,
                Get, BuildStatus, Tick
  <2>2. Unfinished(r) = 0
    <3>1. ASSUME NEW h \in Handler, Put(h), Current(h).rid = r PROVE FALSE
      <4>1. Unfinished(r)' = Unfinished(r) + 1
        BY <1>1, <3>1, UnfinishedEffect
      <4> QED BY <1>2, <4>1
    <3> QED BY <1>1, <1>6, <3>1, UnfinishedEffect
  <2>3. QueuedNewest(r)
    <3>1. CASE UNCHANGED board
      BY <3>1 DEF board, QueuedNewest
    <3>2. ASSUME NEW e \in Entry, e.result = "REJECTED", AppendLeft(e)
          PROVE  QueuedNewest(r)
      <4>1. IF e.rid = r THEN e.result = "QUEUED" ELSE QueuedNewest(r)
        BY <1>1, <3>2, AppendLeftEffect
      <4> QED BY <3>2, <4>1
    <3> QED BY <1>6, <3>1, <3>2, ListEffect
  <2> QED BY <2>1, <2>2, <2>3 DEF Explained
<1> QED BY <1>3, <1>4, <1>5, <1>6

DoneInv == TypeInv /\ IsFiniteSet(Stamping) /\ \A r \in Rid : Explained(r)

\* Every step keeps the explanations.
LEMMA DoneNext == DoneInv /\ [Next]_vars => DoneInv'
<1> SUFFICES ASSUME DoneInv, [Next]_vars PROVE DoneInv'
  OBVIOUS
<1>1. TypeInv' /\ BoardType /\ BoardType'
  BY TypeNext DEF DoneInv, TypeInv
<1>2. CASE Next
  <2>1. IsFiniteSet(Stamping)'
    BY <1>1, <1>2, UnrecordedEffect DEF DoneInv
  <2>2. \A r \in Rid : Explained(r)'
    BY <1>1, <1>2, ExplainedNext DEF DoneInv
  <2> QED BY <1>1, <2>1, <2>2 DEF DoneInv
<1>3. CASE UNCHANGED vars
  <2>1. IsFiniteSet(Stamping)'
    BY <1>3, Zenon DEF vars, Stamping, DoneInv
  <2>2. ASSUME NEW r \in Rid PROVE Explained(r)'
    <3>1. Explained(r)
      BY DEF DoneInv
    <3>2. /\ queue' = queue /\ job' = job /\ actions' = actions
          /\ tardy' = tardy /\ lost' = lost
      BY <1>3 DEF vars
    <3> QED BY <3>1, <3>2 DEF Explained, Unfinished, InQueue, QueuedNewest
  <2> QED BY <1>1, <2>1, <2>2 DEF DoneInv
<1> QED BY <1>2, <1>3

\* A request that is done is shown with its result: the newest entry of its
\* client_request_id says QUEUED only if a copy is unfinished, record_accepted
\* got the lock after the worker's last result, or the audit of a failure
\* raised and no result was recorded.
THEOREM DoneShown == Spec => []DoneIsShown
<1>1. Init => DoneInv
  <2> SUFFICES ASSUME Init PROVE DoneInv
    OBVIOUS
  <2>1. \A r \in Rid : Explained(r)
    BY DEF Init, Explained, QueuedNewest
  <2> QED BY <2>1, WaitingInit DEF DoneInv, WaitingInv
<1>2. DoneInv => DoneIsShown
  <2> SUFFICES ASSUME DoneInv, NEW r \in Rid, Mentioned(r), Unfinished(r) = 0,
                      actions[Newest(r)].result = "QUEUED"
               PROVE  r \in tardy \cup lost
    BY DEF DoneIsShown
  <2>1. ListType
    BY DEF DoneInv, TypeInv, BoardType, ListType
  <2>2. QueuedNewest(r)
    BY <2>1, NewestIsFirst DEF QueuedNewest
  <2> QED BY <2>2 DEF DoneInv, Explained
<1> QED BY <1>1, <1>2, DoneNext, PTL DEF Spec
=============================================================================
