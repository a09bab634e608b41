-------------------------- MODULE ValuationsProofs --------------------------
(***************************************************************************)
(* What holds of Valuations for every number of trades and connections and *)
(* every bound: the blotter misses no stored valuation, a connection is    *)
(* sent valuations in order, every valuation has its row or a fault that   *)
(* cost it, and /health tells the state of the market-data stream.         *)
(***************************************************************************)
EXTENDS Valuations, Counting

-----------------------------------------------------------------------------
(* The last element of a sequence of valuations that is about a trade.     *)

\* The last element of s about t holds x.
Says(s, t, x) == \E i \in DOMAIN s : /\ s[i] = <<t, x>>
                                     /\ \A j \in DOMAIN s : s[j][1] = t => j <= i
Silent(s, t) == \A i \in DOMAIN s : s[i][1] # t

\* A set of positions of a sequence has a last one.
LEMMA LastPosition ==
    ASSUME NEW S, NEW s \in Seq(S), NEW P \in SUBSET (DOMAIN s), P # {}
    PROVE  \E i \in P : \A j \in P : j <= i
<1> DEFINE n == Len(s)
           Q == {k \in 0..n : n - k \in P}
<1>1. n \in Nat /\ P \subseteq 1..n
  OBVIOUS
<1>2. Q \in SUBSET Nat /\ Q # {}
  <2>1. PICK i \in P : TRUE
    OBVIOUS
  <2>2. n - i \in 0..n /\ n - (n - i) = i
    BY <1>1, <2>1
  <2> QED BY <1>1, <2>2
<1>3. PICK k \in Q : \A m \in Q : k <= m
  BY <1>2, LeastNumber
<1>4. \A j \in P : j <= n - k
  <2> SUFFICES ASSUME NEW j \in P PROVE j <= n - k
    OBVIOUS
  <2>1. j \in 1..n /\ k \in 0..n
    BY <1>1
  <2>2. n - j \in 0..n /\ n - (n - j) = j
    BY <1>1, <2>1
  <2>3. k <= n - j
    BY <1>3, <2>2
  <2> QED BY <1>1, <2>1, <2>3
<1> QED BY <1>4

\* The last message about a trade is at the greatest of the positions about it.
LEMMA LastAbout ==
    ASSUME NEW s \in Seq(Valuation), NEW t \in Trade
    PROVE  /\ Silent(s, t) <=> About(s, t) = {}
           /\ ~Silent(s, t) => /\ Max(About(s, t)) \in DOMAIN s
                               /\ Says(s, t, s[Max(About(s, t))][2])
           /\ \A x : Says(s, t, x) => ~Silent(s, t) /\ s[Max(About(s, t))][2] = x
           /\ ~Silent(s, t) => \E x \in 1..MaxPriced : Says(s, t, x)
<1>1. Silent(s, t) <=> About(s, t) = {}
  BY DEF Silent, About
<1>2. ASSUME ~Silent(s, t)
      PROVE  /\ Max(About(s, t)) \in About(s, t)
             /\ \A j \in About(s, t) : j <= Max(About(s, t))
  <2>1. \E i \in About(s, t) : \A j \in About(s, t) : j <= i
    BY <1>1, <1>2, LastPosition DEF About
  <2>2. \A i, j \in About(s, t) : j <= i <=> i >= j
    BY DEF About
  <2>3. \E i \in About(s, t) : \A j \in About(s, t) : i >= j
    BY <2>1, <2>2
  <2>4. Max(About(s, t)) \in About(s, t) /\ \A j \in About(s, t) : Max(About(s, t)) >= j
    BY <2>3, Zenon DEF Max
  <2> QED BY <2>2, <2>4
<1>3. \A i \in DOMAIN s : i \in Nat /\ s[i] = <<s[i][1], s[i][2]>> /\ s[i][2] \in 1..MaxPriced
  <2>1. \A i \in DOMAIN s : s[i] \in Valuation
    BY ElementOfSeq, LenProperties
  <2> QED BY <2>1 DEF Valuation
<1>4. ASSUME ~Silent(s, t)
      PROVE  /\ Max(About(s, t)) \in DOMAIN s
             /\ Says(s, t, s[Max(About(s, t))][2])
             /\ s[Max(About(s, t))][2] \in 1..MaxPriced
  <2>1. PICK m \in About(s, t) : m = Max(About(s, t)) /\ \A j \in About(s, t) : j <= m
    BY <1>2, <1>4
  <2>2. m \in DOMAIN s /\ s[m] = <<t, s[m][2]>> /\ s[m][2] \in 1..MaxPriced
    BY <1>3, <2>1 DEF About
  <2>3. Says(s, t, s[m][2])
    BY <2>1, <2>2 DEF Says, About
  <2> QED BY <2>1, <2>2, <2>3
<1>5. ASSUME NEW x, Says(s, t, x)
      PROVE  ~Silent(s, t) /\ s[Max(About(s, t))][2] = x
  <2>1. PICK i \in DOMAIN s : s[i] = <<t, x>> /\ \A j \in DOMAIN s : s[j][1] = t => j <= i
    BY <1>5 DEF Says
  <2>2. ~Silent(s, t) /\ i \in About(s, t)
    BY <2>1 DEF Silent, About
  <2>3. PICK m \in About(s, t) : m = Max(About(s, t)) /\ \A j \in About(s, t) : j <= m
    BY <1>2, <2>2
  <2>4. m \in DOMAIN s /\ s[m][1] = t /\ m \in Nat /\ i \in Nat
    BY <1>3, <2>3 DEF About
  <2>5. m = i
    BY <2>1, <2>2, <2>3, <2>4
  <2> QED BY <2>1, <2>2, <2>3, <2>5
<1> QED BY <1>1, <1>4, <1>5

\* put
LEMMA SaysAppend ==
    ASSUME NEW s \in Seq(Valuation), NEW v \in Valuation, NEW t \in Trade
    PROVE  /\ Append(s, v) \in Seq(Valuation)
           /\ v[1] = t => Says(Append(s, v), t, v[2])
           /\ \A x : v[1] # t => (Says(Append(s, v), t, x) <=> Says(s, t, x))
           /\ v[1] # t => (Silent(Append(s, v), t) <=> Silent(s, t))
<1>1. PICK u \in Seq(Valuation), n \in Nat :
            /\ u = Append(s, v) /\ n = Len(s) /\ Len(u) = n + 1 /\ u[n + 1] = v
            /\ \A i \in 1..n : u[i] = s[i]
  <2>1. /\ Append(s, v) \in Seq(Valuation) /\ Len(s) \in Nat
        /\ Len(Append(s, v)) = Len(s) + 1 /\ Append(s, v)[Len(s) + 1] = v
        /\ \A i \in 1..Len(s) : Append(s, v)[i] = s[i]
    BY AppendProperties
  <2> QED BY <2>1
<1>2. DOMAIN u = 1..(n + 1) /\ DOMAIN s = 1..n /\ v = <<v[1], v[2]>>
  BY <1>1 DEF Valuation
<1>3. v[1] = t => Says(u, t, v[2])
  <2>1. n + 1 \in DOMAIN u /\ \A j \in DOMAIN u : j <= n + 1
    BY <1>2
  <2> QED BY <1>1, <1>2, <2>1 DEF Says
<1>4. ASSUME v[1] # t, NEW x PROVE Says(u, t, x) <=> Says(s, t, x)
  <2>1. \A i \in DOMAIN u : (u[i][1] = t => i \in DOMAIN s /\ s[i] = u[i])
    BY <1>1, <1>2, <1>4
  <2>2. \A i \in DOMAIN s : i \in DOMAIN u /\ s[i] = u[i]
    BY <1>1, <1>2
  <2> QED BY <2>1, <2>2 DEF Says
<1>5. v[1] # t => (Silent(u, t) <=> Silent(s, t))
  <2>1. \A i \in 1..(n + 1) : i \in 1..n \/ i = n + 1
    BY <1>1
  <2>2. \A i \in 1..n : i \in 1..(n + 1)
    BY <1>1
  <2> QED BY <1>1, <1>2, <2>1, <2>2 DEF Silent
<1> QED BY <1>1, <1>3, <1>4, <1>5

\* get
LEMMA SaysTail ==
    ASSUME NEW s \in Seq(Valuation), s # <<>>, NEW t \in Trade
    PROVE  /\ Tail(s) \in Seq(Valuation) /\ Head(s) \in Valuation
           /\ \A x : Says(Tail(s), t, x) <=> (Says(s, t, x) /\ ~Silent(Tail(s), t))
           /\ Silent(s, t) <=> (Silent(Tail(s), t) /\ Head(s)[1] # t)
           /\ Silent(Tail(s), t) /\ Head(s)[1] = t => Says(s, t, Head(s)[2])
<1>1. PICK u \in Seq(Valuation), n \in Nat, v \in Valuation :
            /\ u = Tail(s) /\ n = Len(u) /\ Len(s) = n + 1 /\ v = Head(s) /\ v = s[1]
            /\ \A i \in 1..n : u[i] = s[i + 1]
  <2>1. PICK m \in Nat : m = Len(s)
    BY LenProperties
  <2>2. m # 0 /\ m - 1 \in Nat /\ m = (m - 1) + 1
    BY <2>1, EmptySeq
  <2>3. /\ Tail(s) \in Seq(Valuation) /\ Head(s) \in Valuation
        /\ Len(Tail(s)) = m - 1 /\ Head(s) = s[1]
        /\ \A i \in 1..(m - 1) : Tail(s)[i] = s[i + 1]
    BY <2>1, <2>2, HeadTailProperties
  <2> QED BY <2>1, <2>2, <2>3
<1>2. /\ DOMAIN s = 1..(n + 1) /\ DOMAIN u = 1..n /\ v = <<v[1], v[2]>>
      /\ \A j \in 1..(n + 1) : j = 1 \/ (j - 1 \in 1..n /\ s[j] = u[j - 1])
  <2>1. \A j \in 1..(n + 1) : j = 1 \/ (j - 1 \in 1..n /\ (j - 1) + 1 = j)
    BY <1>1
  <2> QED BY <1>1, <2>1 DEF Valuation
<1>3. ASSUME NEW x, Says(u, t, x) PROVE Says(s, t, x) /\ ~Silent(u, t)
  <2>1. PICK i \in 1..n : u[i] = <<t, x>> /\ \A j \in 1..n : u[j][1] = t => j <= i
    BY <1>2, <1>3 DEF Says
  <2>2. i + 1 \in 1..(n + 1) /\ s[i + 1] = <<t, x>>
    BY <1>1, <2>1
  <2>3. ASSUME NEW j \in 1..(n + 1), s[j][1] = t PROVE j <= i + 1
    <3>1. CASE j = 1
      BY <1>1, <2>1, <3>1
    <3>2. CASE j # 1
      <4>1. j - 1 \in 1..n /\ u[j - 1][1] = t
        BY <1>2, <2>3, <3>2
      <4>2. j - 1 <= i
        BY <2>1, <4>1
      <4> QED BY <2>1, <4>2
    <3> QED BY <3>1, <3>2
  <2>4. Says(s, t, x)
    <3>1. PICK k \in 1..(n + 1) : k = i + 1
      BY <2>2
    <3>2. s[k] = <<t, x>> /\ \A j \in 1..(n + 1) : s[j][1] = t => j <= k
      BY <2>2, <2>3, <3>1
    <3> QED BY <1>2, <3>2 DEF Says
  <2>5. ~Silent(u, t)
    BY <1>2, <2>1 DEF Silent
  <2> QED BY <2>4, <2>5
<1>4. ASSUME NEW x, Says(s, t, x), ~Silent(u, t) PROVE Says(u, t, x)
  <2>1. PICK i \in 1..(n + 1) : s[i] = <<t, x>> /\ \A j \in 1..(n + 1) : s[j][1] = t => j <= i
    BY <1>2, <1>4 DEF Says
  <2>2. PICK k \in 1..n : u[k][1] = t
    BY <1>2, <1>4 DEF Silent
  <2>3. k + 1 \in 1..(n + 1) /\ s[k + 1][1] = t
    BY <1>1, <2>2
  <2>4. k + 1 <= i
    BY <2>1, <2>3
  <2>5. i - 1 \in 1..n /\ u[i - 1] = <<t, x>>
    BY <1>2, <2>1, <2>2, <2>4
  <2>6. ASSUME NEW j \in 1..n, u[j][1] = t PROVE j <= i - 1
    <3>1. j + 1 \in 1..(n + 1) /\ s[j + 1][1] = t
      BY <1>1, <2>6
    <3> QED BY <2>1, <3>1
  <2> QED BY <1>2, <2>5, <2>6 DEF Says
<1>5. Silent(s, t) <=> (Silent(u, t) /\ v[1] # t)
  <2>1. \A i \in 1..n : i + 1 \in 1..(n + 1)
    BY <1>1
  <2>2. 1 \in 1..(n + 1)
    BY <1>1
  <2>3. \A i \in 1..n : u[i] = s[i + 1]
    BY <1>1
  <2>4. Silent(u, t) <=> \A i \in 1..n : u[i][1] # t
    BY <1>2 DEF Silent
  <2>5. Silent(s, t) <=> \A i \in 1..(n + 1) : s[i][1] # t
    BY <1>2 DEF Silent
  <2>6. v = s[1]
    BY <1>1
  <2> QED BY <1>2, <2>1, <2>2, <2>3, <2>4, <2>5, <2>6
<1>6. ASSUME Silent(u, t), v[1] = t PROVE Says(s, t, v[2])
  <2>1. s[1] = <<t, v[2]>> /\ 1 \in 1..(n + 1)
    BY <1>1, <1>2, <1>6
  <2>2. \A j \in 1..(n + 1) : s[j][1] = t => j <= 1
    BY <1>2, <1>6 DEF Silent
  <2> QED BY <1>2, <2>1, <2>2 DEF Says
<1> QED BY <1>1, <1>3, <1>4, <1>5, <1>6

\* The snapshot comes before what is queued.
LEMMA SaysConcat ==
    ASSUME NEW s \in Seq(Valuation), NEW u \in Seq(Valuation), NEW t \in Trade
    PROVE  /\ s \o u \in Seq(Valuation)
           /\ \A x : Says(u, t, x) => Says(s \o u, t, x)
           /\ \A x : Silent(u, t) /\ Says(s, t, x) => Says(s \o u, t, x)
           /\ Silent(s \o u, t) <=> (Silent(s, t) /\ Silent(u, t))
<1>1. PICK w \in Seq(Valuation), n \in Nat, m \in Nat :
            /\ w = s \o u /\ n = Len(s) /\ m = Len(u) /\ Len(w) = n + m
            /\ \A i \in 1..n : w[i] = s[i]
            /\ \A i \in 1..m : w[i + n] = u[i]
  <2>1. /\ s \o u \in Seq(Valuation) /\ Len(s) \in Nat /\ Len(u) \in Nat
        /\ Len(s \o u) = Len(s) + Len(u)
        /\ \A i \in 1..Len(s) : (s \o u)[i] = s[i]
        /\ \A i \in 1..Len(u) : (s \o u)[i + Len(s)] = u[i]
    OBVIOUS
  <2> QED BY <2>1
<1>2. /\ DOMAIN s = 1..n /\ DOMAIN u = 1..m /\ DOMAIN w = 1..(n + m)
      /\ \A i \in 1..n : i \in 1..(n + m)
      /\ \A i \in 1..m : i + n \in 1..(n + m)
      /\ \A k \in 1..(n + m) : (k \in 1..n /\ w[k] = s[k])
                                \/ (k - n \in 1..m /\ w[k] = u[k - n])
  <2>1. \A k \in 1..(n + m) : k \in 1..n \/ (k - n \in 1..m /\ (k - n) + n = k)
    BY <1>1
  <2> QED BY <1>1, <2>1
<1>3. ASSUME NEW x, Says(u, t, x) PROVE Says(w, t, x)
  <2>1. PICK i \in 1..m : u[i] = <<t, x>> /\ \A j \in 1..m : u[j][1] = t => j <= i
    BY <1>2, <1>3 DEF Says
  <2>2. ASSUME NEW k \in 1..(n + m), w[k][1] = t PROVE k <= i + n
    BY <1>1, <1>2, <2>1, <2>2
  <2> QED BY <1>1, <1>2, <2>1, <2>2 DEF Says
<1>4. ASSUME NEW x, Silent(u, t), Says(s, t, x) PROVE Says(w, t, x)
  <2>1. PICK i \in 1..n : s[i] = <<t, x>> /\ \A j \in 1..n : s[j][1] = t => j <= i
    BY <1>2, <1>4 DEF Says
  <2>2. ASSUME NEW k \in 1..(n + m), w[k][1] = t PROVE k <= i
    BY <1>1, <1>2, <1>4, <2>1, <2>2 DEF Silent
  <2> QED BY <1>1, <1>2, <2>1, <2>2 DEF Says
<1>5. Silent(w, t) <=> (Silent(s, t) /\ Silent(u, t))
  <2>1. ASSUME \A k \in 1..(n + m) : w[k][1] # t PROVE Silent(s, t) /\ Silent(u, t)
    <3>1. \A i \in 1..n : s[i][1] # t
      BY <1>1, <1>2, <2>1
    <3>2. \A i \in 1..m : u[i][1] # t
      BY <1>1, <1>2, <2>1
    <3> QED BY <1>2, <3>1, <3>2 DEF Silent
  <2>2. ASSUME Silent(s, t), Silent(u, t), NEW k \in 1..(n + m) PROVE w[k][1] # t
    BY <1>2, <2>2 DEF Silent
  <2> QED BY <1>2, <2>1, <2>2 DEF Silent
<1> QED BY <1>1, <1>3, <1>4, <1>5

-----------------------------------------------------------------------------
(* What the helpers of the model return.                                   *)

\* The copy of the store that a generator yields: every stored valuation, and
\* nothing else.
LEMMA SnapshotWhole ==
    ASSUME NEW S, IsFiniteSet(S)
    PROVE  /\ SetToSeq(S) \in Seq(S)
           /\ \A v \in S : \E i \in DOMAIN SetToSeq(S) : SetToSeq(S)[i] = v
<1>1. PICK n \in Nat : n = Cardinality(S) /\ ExistsBijection(1..n, S)
  BY FS_CardinalityType
<1>2. \E f \in [1..n -> S] : IsInjective(f)
  BY <1>1 DEF ExistsBijection, Bijection, Injection
<1>3. PICK f \in [1..n -> S] : f = SetToSeq(S) /\ IsInjective(f)
  BY <1>1, <1>2, Zenon DEF SetToSeq
<1>4. f \in Seq(S)
  BY <1>3
<1>5. f \in Surjection(1..n, S)
  <2>1. Cardinality(1..n) = n
    <3>1. 1 \in Int /\ n \in Int
      OBVIOUS
    <3>2. Cardinality(1..n) = IF 1 > n THEN 0 ELSE n - 1 + 1
      BY <3>1, FS_Interval
    <3> QED BY <3>2
  <2>2. f \in Injection(1..n, S)
    BY <1>3 DEF Injection
  <2> QED BY <1>1, <2>1, <2>2, FS_Injection
<1>6. \A v \in S : \E i \in DOMAIN f : f[i] = v
  BY <1>5 DEF Surjection
<1> QED BY <1>3, <1>4, <1>6

\* What update_cache keeps of a trade's history ends with the new valuation.
LEMMA KeepLastEffect ==
    ASSUME NEW S, NEW s \in Seq(S), NEW x \in S
    PROVE  /\ KeepLast(Append(s, x)) \in Seq(S)
           /\ Len(KeepLast(Append(s, x))) <= MaxHistory
           /\ KeepLast(Append(s, x)) # <<>>
           /\ Last(KeepLast(Append(s, x))) = x
<1>1. PICK u \in Seq(S), n \in Nat : /\ u = Append(s, x) /\ n = Len(u) /\ n >= 1 /\ u[n] = x
  <2>1. /\ Append(s, x) \in Seq(S) /\ Len(s) \in Nat
        /\ Len(Append(s, x)) = Len(s) + 1 /\ Append(s, x)[Len(s) + 1] = x
    BY AppendProperties
  <2>2. PICK m \in Nat : m = Len(s) + 1 /\ m >= 1
    BY <2>1
  <2> QED BY <2>1, <2>2
<1>2. MaxHistory \in Nat /\ MaxHistory >= 1
  BY ValuationAssumption
<1>3. PICK a \in 1..n : a = (IF n > MaxHistory THEN n - MaxHistory + 1 ELSE 1)
  <2>1. n > MaxHistory => n - MaxHistory + 1 \in 1..n
    BY <1>1, <1>2
  <2>2. 1 \in 1..n
    BY <1>1
  <2> QED BY <2>1, <2>2
<1>4. PICK w : w = SubSeq(u, a, n)
  OBVIOUS
<1>5. w \in Seq(S) /\ Len(w) = n - a + 1 /\ w[n - a + 1] = u[n]
  <2>1. a \in 1..(Len(u) + 1) /\ n \in (a - 1)..Len(u)
    BY <1>1
  <2>2. /\ SubSeq(u, a, n) \in Seq(S)
        /\ Len(SubSeq(u, a, n)) = n - a + 1
        /\ \A i \in 1..(n - a + 1) : SubSeq(u, a, n)[i] = u[a + i - 1]
    BY <2>1, SubSeqProperties
  <2>3. n - a + 1 \in 1..(n - a + 1) /\ a + (n - a + 1) - 1 = n
    BY <1>1, <1>3
  <2> QED BY <1>4, <2>2, <2>3
<1>6. KeepLast(Append(s, x)) = w
  BY <1>1, <1>3, <1>4, Zenon DEF KeepLast
<1>7. Len(w) <= MaxHistory /\ Len(w) >= 1
  BY <1>1, <1>2, <1>3, <1>5
<1>8. w # <<>>
  BY <1>7
<1> QED BY <1>1, <1>5, <1>6, <1>7, <1>8 DEF Last

\* get_trades returns no more rows than its limit.
LEMMA NewestBounded ==
    ASSUME created \in Seq(Trade)
    PROVE  /\ NewestActive \subseteq Trade /\ IsFiniteSet(NewestActive)
           /\ Cardinality(NewestActive) <= CacheLimit
<1> DEFINE K == {k \in Active : NewerThan(k) < CacheLimit}
<1>0. /\ CacheLimit \in Nat /\ CacheLimit >= 1
      /\ \A k \in Active : k \in 1..Len(created) /\ k \in Nat /\ created[k] \in Trade
  BY ValuationAssumption DEF Active
<1>1. IsFiniteSet(Active) /\ \A k \in Active : IsFiniteSet({i \in Active : i > k})
                                              /\ NewerThan(k) \in Nat
  <2>1. Len(created) \in Nat /\ 1 \in Int /\ Len(created) \in Int
    OBVIOUS
  <2>2. IsFiniteSet(1..Len(created)) /\ Active \in SUBSET (1..Len(created))
    BY <1>0, <2>1, FS_Interval
  <2>3. IsFiniteSet(Active)
    BY <2>2, FS_Subset
  <2>4. \A k \in Active : {i \in Active : i > k} \in SUBSET Active
    OBVIOUS
  <2>5. \A k \in Active : IsFiniteSet({i \in Active : i > k})
    BY <2>3, <2>4, FS_Subset
  <2> QED BY <2>3, <2>5, FS_CardinalityType DEF NewerThan
<1>2. IsFiniteSet(K) /\ Cardinality(K) <= CacheLimit /\ Cardinality(K) \in Nat
  <2>0. K \in SUBSET Active
    OBVIOUS
  <2>1. IsFiniteSet(K)
    BY <1>1, <2>0, FS_Subset
  <2>2. CASE K = {}
    BY <1>0, <2>1, <2>2, FS_EmptySet
  <2>3. CASE K # {}
    <3>1. PICK k \in K : \A j \in K : k <= j
      <4>1. K \in SUBSET Nat
        BY <1>0
      <4> QED BY <2>3, <4>1, LeastNumber
    <3>2. PICK N : N = {i \in Active : i > k}
      OBVIOUS
    <3>3. IsFiniteSet(N) /\ Cardinality(N) \in Nat /\ Cardinality(N) < CacheLimit
      BY <1>1, <3>1, <3>2 DEF NewerThan
    <3>4. K \in SUBSET (N \cup {k})
      BY <1>0, <3>1, <3>2
    <3>5. /\ IsFiniteSet(N \cup {k})
          /\ Cardinality(N \cup {k}) = IF k \in N THEN Cardinality(N) ELSE Cardinality(N) + 1
      BY <3>3, FS_AddElement
    <3>6. Cardinality(K) <= Cardinality(N \cup {k})
      BY <3>4, <3>5, FS_Subset
    <3>7. Cardinality(K) \in Nat
      BY <2>1, FS_CardinalityType
    <3> QED BY <1>0, <2>1, <3>3, <3>5, <3>6, <3>7
  <2> QED BY <2>2, <2>3
<1>3. [k \in K |-> created[k]] \in Surjection(K, NewestActive)
  BY DEF Surjection, NewestActive
<1>4. IsFiniteSet(NewestActive) /\ Cardinality(NewestActive) <= Cardinality(K)
  BY <1>2, <1>3, FS_Surjection
<1>5. NewestActive \subseteq Trade
  BY <1>0 DEF NewestActive
<1>6. Cardinality(NewestActive) \in Nat
  BY <1>4, FS_CardinalityType
<1> QED BY <1>0, <1>2, <1>4, <1>5, <1>6

-----------------------------------------------------------------------------
(* The state of the market-data stream.                                    *)

\* GET /health of pricing-service, which says UP even when the pricing thread
\* has died, tells by market_data_connection that the thread reads the stream,
\* and that it has lost it or died, whichever audit write raised on the way.
THEOREM ConnectionTold == Spec => []ConnectionShown
<1>1. Init => ConnectionShown
  BY DEF Init, ConnectionShown
<1>2. ConnectionShown /\ [Next]_vars => ConnectionShown'
  <2> SUFFICES ASSUME ConnectionShown, [Next]_vars PROVE ConnectionShown'
    OBVIOUS
  <2>1. CASE UNCHANGED <<feed, connection>>
    BY <2>1 DEF ConnectionShown
  <2>2. CASE FeedThread \/ FeedOpened \/ FeedRefused \/ FeedLost
    BY <2>2 DEF ConnectionShown, FeedThread, FeedStart, FeedConnect, FeedExcept, FeedOpened,
                FeedRefused, FeedLost
  <2>3. CASE RestartPricing
    BY <2>3 DEF ConnectionShown, RestartPricing
  <2>4. CASE PricingThread \/ \E s \in Symbol : TakeTick(s)
    BY <2>1, <2>4 DEF PricingThread, PriceTrade, SkipTrade, StoreValuation, SaveValuation,
                      PublishValuation, TakeTick
  <2>5. ASSUME (\E t \in Trade : Open(t) \/ Close(t)) \/ Refresher \/ Drop \/ RestartBlotter
               \/ (\E c \in Conn : Connect(c) \/ StreamThread(c))
        PROVE  UNCHANGED pricing
    BY <2>5 DEF Open, Close, Refresher, ReloadQuery, ReloadSwap, Drop, RestartBlotter,
                Connect, StreamThread, TakeSnapshot, Yield, Unsubscribe
  <2>6. CASE UNCHANGED vars
    BY <2>1, <2>6 DEF vars
  <2> QED BY <2>1, <2>2, <2>3, <2>4, <2>5, <2>6 DEF Next, pricing
<1> QED BY <1>1, <1>2, PTL DEF Spec

-----------------------------------------------------------------------------
(* Type correctness.                                                       *)

Working == step \in {"save", "publish"}

\* The trades, the cache, the rows and the thread states.
TableType ==
    /\ created \in Seq(Trade) /\ closed \subseteq ToSet(created)
    /\ rows \in [Trade -> SUBSET (1..MaxPriced)]
    /\ fetched \subseteq Trade /\ cache \subseteq Trade
    /\ Cardinality(fetched) <= CacheLimit /\ Cardinality(cache) <= CacheLimit
    /\ refresher \in {"query", "swap"}
    /\ feed \in {"new", "lost", "connecting", "failing", "up", "dead"}
    /\ connection \in {"CONNECTED", "RECONNECTING", "DISCONNECTED"}
    /\ faults \in 0..MaxFaults /\ restarts \in 0..MaxRestarts

\* The pricing thread and its store.
PriceType ==
    /\ step \in {"tick", "price", "save", "publish"}
    /\ todo \subseteq Trade /\ (step = "price" => todo # {})
    /\ current \in Trade \cup {NoTrade}
    /\ (current # NoTrade) <=> Working
    /\ priced \in 0..MaxPriced /\ store \in [Trade -> 0..MaxPriced]
    /\ \A t \in Trade : store[t] <= priced
    /\ Working => store[current] = priced /\ priced # 0
    /\ IsFiniteSet(Stored)

\* The stream threads and the blotter's reader.
StreamType ==
    /\ conn \in [Conn -> {"new", "registered", "streaming", "ending", "gone"}]
    /\ subscribers = {c \in Conn : conn[c] \in {"registered", "streaming", "ending"}}
    /\ snap \in [Conn -> Seq(Valuation)] /\ inbox \in [Conn -> Seq(Valuation)]
    /\ \A c \in Conn : /\ conn[c] = "new" => inbox[c] = <<>>
                       /\ conn[c] \in {"new", "registered"} => snap[c] = <<>>
    /\ blotter \in {"connect", "read", "dead"}
    /\ link \in Conn \cup {NoConn} /\ (blotter = "read" <=> link # NoConn)
    /\ link # NoConn => conn[link] \in {"registered", "streaming"}
    /\ history \in [Trade -> Seq(1..MaxPriced)]
    /\ \A t \in Trade : Len(history[t]) <= MaxHistory

TypeInv == TableType /\ PriceType /\ StreamType

\* At first nothing is priced and nobody connected.
LEMMA TypeInit == Init => TypeInv
<1> SUFFICES ASSUME Init PROVE TypeInv
  OBVIOUS
<1>1. TableType
  <2>1. created = <<>> /\ created \in Seq(Trade) /\ closed \subseteq ToSet(created)
    BY DEF Init
  <2>2. Cardinality(fetched) <= CacheLimit /\ Cardinality(cache) <= CacheLimit
    BY FS_EmptySet, ValuationAssumption DEF Init
  <2>3. rows \in [Trade -> SUBSET (1..MaxPriced)]
    BY DEF Init
  <2> QED BY <2>1, <2>2, <2>3, ValuationAssumption DEF Init, TableType
<1>2. PriceType
  <2>1. Stored = {}
    BY ValuationAssumption DEF Init, Stored, Valuation
  <2> QED BY <2>1, FS_EmptySet, ValuationAssumption DEF Init, PriceType, Working
<1>3. StreamType
  <2>1. <<>> \in Seq(Valuation) /\ <<>> \in Seq(1..MaxPriced) /\ Len(<<>>) = 0
    OBVIOUS
  <2> QED BY <2>1, ValuationAssumption DEF Init, StreamType
<1> QED BY <1>1, <1>2, <1>3 DEF TypeInv

\* A step that raises costs one of the faults.
LEMMA FaultType ==
    ASSUME faults \in 0..MaxFaults, Works \/ Raised
    PROVE  faults' \in 0..MaxFaults
BY ValuationAssumption DEF Works, Raised

\* Every step keeps the types of tables and cache.
LEMMA TableNext == TypeInv /\ [Next]_vars => TableType'
<1> SUFFICES ASSUME TypeInv, [Next]_vars PROVE TableType'
  OBVIOUS
<1>0. TableType /\ created \in Seq(Trade)
  BY DEF TypeInv, TableType
<1>1. ASSUME NEW t \in Trade, Open(t) PROVE TableType'
  <2>1. created' = Append(created, t)
    BY <1>1 DEF Open
  <2>2. created' \in Seq(Trade) /\ ToSet(created) \subseteq ToSet(created')
    <3>1. /\ Append(created, t) \in Seq(Trade) /\ Len(created) \in Nat
          /\ Len(Append(created, t)) = Len(created) + 1
          /\ \A i \in 1..Len(created) : Append(created, t)[i] = created[i]
      BY <1>0, AppendProperties
    <3>2. \A i \in DOMAIN created : i \in DOMAIN created' /\ created'[i] = created[i]
      BY <1>0, <2>1, <3>1
    <3> QED BY <2>1, <3>1, <3>2 DEF ToSet
  <2> QED BY <1>0, <1>1, <2>2 DEF Open, TableType, caching, pricing
<1>2. ASSUME NEW t \in Trade, Close(t) PROVE TableType'
  BY <1>0, <1>2 DEF Close, TableType, caching, pricing
<1>3. CASE ReloadQuery
  <2>1. faults' \in 0..MaxFaults
    BY <1>0, <1>3, FaultType DEF ReloadQuery, TableType
  <2>2. \/ fetched' = NewestActive \/ fetched' = fetched
    BY <1>3 DEF ReloadQuery
  <2>3. fetched' \subseteq Trade /\ Cardinality(fetched') <= CacheLimit
    BY <1>0, <2>2, NewestBounded DEF TableType
  <2> QED BY <1>0, <1>3, <2>1, <2>3 DEF ReloadQuery, TableType, table, pricing
<1>4. CASE ReloadSwap
  <2>1. Cardinality(fetched') <= CacheLimit /\ fetched' = {}
    BY <1>4, FS_EmptySet, ValuationAssumption DEF ReloadSwap
  <2> QED BY <1>0, <1>4, <2>1 DEF ReloadSwap, TableType, table, pricing
<1>5. CASE FeedThread \/ FeedOpened \/ FeedRefused \/ FeedLost
  <2>1. /\ FeedUnchanged
        /\ feed' \in {"lost", "dead", "connecting", "up", "failing"}
        /\ connection' \in {connection, "CONNECTED", "RECONNECTING", "DISCONNECTED"}
        /\ Works \/ Raised
    BY <1>5 DEF FeedThread, FeedStart, FeedConnect, FeedExcept, FeedOpened, FeedRefused, FeedLost
  <2>2. faults' \in 0..MaxFaults
    BY <1>0, <2>1, FaultType DEF TableType
  <2> QED BY <1>0, <2>1, <2>2 DEF FeedUnchanged, TableType, table, caching
<1>6. CASE SaveValuation
  <2>1. faults' \in 0..MaxFaults
    BY <1>0, <1>6, FaultType DEF SaveValuation, TableType
  <2>2. rows' \in [Trade -> SUBSET (1..MaxPriced)]
    <3>1. current \in Trade /\ store[current] \in 1..MaxPriced
      BY <1>6 DEF SaveValuation, TypeInv, PriceType, Working
    <3> QED BY <1>0, <1>6, <3>1 DEF SaveValuation, TableType
  <2> QED BY <1>0, <1>6, <2>1, <2>2 DEF SaveValuation, TableType, table, caching
<1>7. ASSUME \/ \E s \in Symbol : TakeTick(s)
             \/ PriceTrade \/ PublishValuation
             \/ \E c \in Conn : Connect(c) \/ StreamThread(c)
      PROVE  UNCHANGED <<table, rows, caching, feed, connection, faults, restarts>>
  BY <1>7 DEF TakeTick, PriceTrade, SkipTrade, StoreValuation, PublishValuation,
              Connect, StreamThread, TakeSnapshot, Yield, Unsubscribe, pricing
<1>8. CASE UNCHANGED <<table, rows, caching, feed, connection, faults, restarts>>
  BY <1>0, <1>8 DEF TableType, table, caching
<1>9. CASE Drop
  <2>1. faults' \in 0..MaxFaults
    BY <1>0, <1>9, FaultType DEF Drop, TableType
  <2> QED BY <1>0, <1>9, <2>1 DEF Drop, TableType, table, caching, pricing
<1>10. CASE RestartPricing
  <2>1. restarts' \in 0..MaxRestarts
    BY <1>0, <1>10, ValuationAssumption DEF RestartPricing, TableType
  <2>2. Cardinality(fetched') <= CacheLimit /\ Cardinality(cache') <= CacheLimit
        /\ fetched' = {} /\ cache' = {}
    BY <1>10, FS_EmptySet, ValuationAssumption DEF RestartPricing
  <2> QED BY <1>0, <1>10, <2>1, <2>2 DEF RestartPricing, TableType, table
<1>11. CASE RestartBlotter
  <2>1. restarts' \in 0..MaxRestarts
    BY <1>0, <1>11, ValuationAssumption DEF RestartBlotter, TableType
  <2> QED BY <1>0, <1>11, <2>1 DEF RestartBlotter, TableType, table, caching, pricing
<1>12. CASE UNCHANGED vars
  BY <1>8, <1>12 DEF vars, table, caching
<1> QED BY <1>1, <1>2, <1>3, <1>4, <1>5, <1>6, <1>7, <1>8, <1>9, <1>10, <1>11, <1>12
        DEF Next, Refresher, PricingThread

\* Every step keeps the types of the pricing thread and its store.
LEMMA PriceNext == TypeInv /\ [Next]_vars => PriceType'
<1> SUFFICES ASSUME TypeInv, [Next]_vars PROVE PriceType'
  OBVIOUS
<1>0. PriceType
  BY DEF TypeInv
<1>1. CASE UNCHANGED work
  <2>1. /\ step' = step /\ todo' = todo /\ current' = current
        /\ priced' = priced /\ store' = store
    BY <1>1 DEF work
  <2>2. Stored' = Stored
    BY <2>1 DEF Stored
  <2>3. IsFiniteSet(Stored)'
    BY <1>0, <2>2, Zenon DEF PriceType
  <2> QED BY <1>0, <2>1, <2>3 DEF PriceType, Working
<1>2. ASSUME NEW s \in Symbol, TakeTick(s) PROVE PriceType'
  <2>1. /\ step = "tick" /\ step' = "price" /\ current' = current
        /\ priced' = priced /\ store' = store /\ todo' # {} /\ todo' \subseteq cache
    BY <1>2 DEF TakeTick
  <2>2. Stored' = Stored /\ cache \subseteq Trade
    BY <2>1 DEF Stored, TypeInv, TableType
  <2>3. IsFiniteSet(Stored)'
    BY <1>0, <2>2, Zenon DEF PriceType
  <2> QED BY <1>0, <2>1, <2>2, <2>3 DEF PriceType, Working
<1>3. ASSUME NEW t \in Trade, SkipTrade(t) PROVE PriceType'
  <2>1. /\ step = "price" /\ step' = NextTrade(todo \ {t}) /\ current' = current
        /\ priced' = priced /\ store' = store /\ todo' = todo \ {t}
    BY <1>3 DEF SkipTrade
  <2>2. Stored' = Stored
    BY <2>1 DEF Stored
  <2>3. IsFiniteSet(Stored)'
    BY <1>0, <2>2, Zenon DEF PriceType
  <2> QED BY <1>0, <2>1, <2>3 DEF PriceType, Working, NextTrade
<1>4. ASSUME NEW t \in Trade, StoreValuation(t) PROVE PriceType'
  <2>1. /\ step = "price" /\ priced < MaxPriced /\ priced' = priced + 1
        /\ store' = [store EXCEPT ![t] = priced + 1]
        /\ current' = t /\ todo' = todo \ {t} /\ step' = "save"
    BY <1>4 DEF StoreValuation
  <2>2. priced' \in 1..MaxPriced /\ MaxPriced \in Nat /\ priced \in Nat
    BY <1>0, <2>1, ValuationAssumption DEF PriceType
  <2>3. /\ store' \in [Trade -> 0..MaxPriced] /\ store'[t] = priced'
        /\ \A u \in Trade : u # t => store'[u] = store[u]
    BY <1>0, <2>1, <2>2 DEF PriceType
  <2>4. IsFiniteSet(Stored)'
    <3>1. Stored' \in SUBSET (Stored \cup {<<t, priced'>>})
      <4>1. ASSUME NEW v \in Stored' PROVE v \in Stored \cup {<<t, priced'>>}
        BY <2>3, <4>1 DEF Stored, Valuation
      <4> QED BY <4>1
    <3>2. IsFiniteSet(Stored \cup {<<t, priced'>>})
      BY <1>0, FS_AddElement DEF PriceType
    <3> QED BY <3>1, <3>2, FS_Subset
  <2>5. \A u \in Trade : store'[u] <= priced'
    BY <1>0, <2>1, <2>2, <2>3 DEF PriceType
  <2>6. t # NoTrade
    BY ValuationAssumption
  <2> QED BY <1>0, <2>1, <2>2, <2>3, <2>4, <2>5, <2>6 DEF PriceType, Working
<1>5. CASE SaveValuation \/ PublishValuation
  <2>1. priced' = priced /\ store' = store /\ todo' = todo
    BY <1>5 DEF SaveValuation, PublishValuation
  <2>2. Stored' = Stored
    BY <2>1 DEF Stored
  <2>3. IsFiniteSet(Stored)'
    BY <1>0, <2>2, Zenon DEF PriceType
  <2>4. CASE SaveValuation
    BY <1>0, <2>1, <2>3, <2>4 DEF PriceType, Working, SaveValuation
  <2>5. CASE PublishValuation
    BY <1>0, <2>1, <2>3, <2>5 DEF PriceType, Working, PublishValuation, NextTrade
  <2> QED BY <1>5, <2>4, <2>5
<1>6. CASE RestartPricing
  <2>1. /\ step' = "tick" /\ todo' = {} /\ current' = NoTrade /\ priced' = priced
        /\ store' = [t \in Trade |-> 0]
    BY <1>6 DEF RestartPricing
  <2>2. Stored' = {}
    BY <2>1 DEF Stored, Valuation
  <2>3. IsFiniteSet(Stored')
    BY <2>2, FS_EmptySet
  <2>4. store' \in [Trade -> 0..MaxPriced] /\ \A t \in Trade : store'[t] <= priced'
    BY <1>0, <2>1, ValuationAssumption DEF PriceType
  <2> QED BY <1>0, <2>1, <2>3, <2>4 DEF PriceType, Working
<1>7. ASSUME \/ \E t \in Trade : Open(t) \/ Close(t)
             \/ Refresher \/ FeedThread \/ FeedOpened \/ FeedRefused \/ FeedLost
             \/ \E c \in Conn : Connect(c) \/ StreamThread(c)
             \/ Drop \/ RestartBlotter
      PROVE  UNCHANGED work
  BY <1>7 DEF Open, Close, Refresher, ReloadQuery, ReloadSwap, FeedThread, FeedStart, FeedConnect,
              FeedExcept, FeedOpened, FeedRefused, FeedLost, FeedUnchanged, Connect, StreamThread,
              TakeSnapshot, Yield, Unsubscribe, Drop, RestartBlotter, pricing, work
<1>8. CASE UNCHANGED vars
  BY <1>1, <1>8 DEF vars, work
<1> QED BY <1>1, <1>2, <1>3, <1>4, <1>5, <1>6, <1>7, <1>8 DEF Next, PricingThread, PriceTrade

\* Every step keeps the types of streams and reader.
LEMMA StreamNext == TypeInv /\ [Next]_vars => StreamType'
<1> SUFFICES ASSUME TypeInv, [Next]_vars PROVE StreamType'
  OBVIOUS
<1>0. StreamType /\ <<>> \in Seq(Valuation) /\ NoConn \notin Conn
  BY ValuationAssumption DEF TypeInv
<1>1. CASE UNCHANGED <<streaming, reading>>
  <2>1. /\ subscribers' = subscribers /\ conn' = conn /\ snap' = snap /\ inbox' = inbox
        /\ blotter' = blotter /\ link' = link /\ history' = history
    BY <1>1 DEF streaming, reading
  <2> QED BY <1>0, <2>1 DEF StreamType
<1>2. ASSUME NEW c \in Conn, Connect(c) PROVE StreamType'
  <2>1. /\ conn[c] = "new" /\ conn' = [conn EXCEPT ![c] = "registered"]
        /\ subscribers' = subscribers \cup {c} /\ blotter' = "read" /\ link' = c
        /\ snap' = snap /\ inbox' = inbox /\ history' = history
    BY <1>2 DEF Connect
  <2>2. /\ conn' \in [Conn -> {"new", "registered", "streaming", "ending", "gone"}]
        /\ conn'[c] = "registered" /\ \A d \in Conn : d # c => conn'[d] = conn[d]
    BY <1>0, <2>1 DEF StreamType
  <2>3. subscribers' = {d \in Conn : conn'[d] \in {"registered", "streaming", "ending"}}
    BY <1>0, <2>1, <2>2 DEF StreamType
  <2> QED BY <1>0, <2>1, <2>2, <2>3 DEF StreamType
<1>3. ASSUME NEW c \in Conn, TakeSnapshot(c) PROVE StreamType'
  <2>1. /\ conn[c] = "registered" /\ conn' = [conn EXCEPT ![c] = "streaming"]
        /\ snap' = [snap EXCEPT ![c] = SetToSeq(Stored)]
        /\ subscribers' = subscribers /\ inbox' = inbox
        /\ blotter' = blotter /\ link' = link /\ history' = history
    BY <1>3 DEF TakeSnapshot, reading
  <2>2. /\ conn' \in [Conn -> {"new", "registered", "streaming", "ending", "gone"}]
        /\ conn'[c] = "streaming" /\ \A d \in Conn : d # c => conn'[d] = conn[d]
    BY <1>0, <2>1 DEF StreamType
  <2>3. subscribers' = {d \in Conn : conn'[d] \in {"registered", "streaming", "ending"}}
    BY <1>0, <2>1, <2>2 DEF StreamType
  <2>4. SetToSeq(Stored) \in Seq(Valuation)
    <3>1. IsFiniteSet(Stored)
      BY DEF TypeInv, PriceType
    <3>2. SetToSeq(Stored) \in Seq(Stored)
      BY <3>1, SnapshotWhole
    <3>3. Stored \subseteq Valuation
      BY DEF Stored
    <3> QED BY <3>2, <3>3, SeqMonotonic
  <2>5. /\ snap' \in [Conn -> Seq(Valuation)]
        /\ \A d \in Conn : d # c => snap'[d] = snap[d]
    BY <1>0, <2>1, <2>4 DEF StreamType
  <2>6. \A d \in Conn : /\ conn'[d] = "new" => inbox'[d] = <<>>
                        /\ conn'[d] \in {"new", "registered"} => snap'[d] = <<>>
    BY <1>0, <2>1, <2>2, <2>5 DEF StreamType
  <2> QED BY <1>0, <2>1, <2>2, <2>3, <2>5, <2>6 DEF StreamType
<1>4. ASSUME NEW c \in Conn, Yield(c) PROVE StreamType'
  <2>1. /\ conn[c] = "streaming"
        /\ subscribers' = subscribers /\ blotter' = blotter /\ link' = link
    BY <1>4 DEF Yield
  <2>2. PICK s \in Seq(Valuation) : s = snap[c] \o inbox[c]
    <3>1. snap[c] \in Seq(Valuation) /\ inbox[c] \in Seq(Valuation)
      BY <1>0 DEF StreamType
    <3>2. snap[c] \o inbox[c] \in Seq(Valuation)
      BY <3>1, ConcatProperties
    <3> QED BY <3>2
  <2>3. s # <<>> /\ snap' \in [Conn -> Seq(Valuation)] /\ inbox' \in [Conn -> Seq(Valuation)]
        /\ \A d \in Conn : d # c => snap'[d] = snap[d] /\ inbox'[d] = inbox[d]
    <3>1. snap[c] \in Seq(Valuation) /\ inbox[c] \in Seq(Valuation)
      BY <1>0 DEF StreamType
    <3>2. CASE snap[c] # <<>> /\ snap' = [snap EXCEPT ![c] = Tail(@)] /\ UNCHANGED inbox
      <4>1. s # <<>>
        BY <2>2, <3>1, <3>2
      <4> QED BY <1>0, <3>1, <3>2, <4>1 DEF StreamType
    <3>3. CASE inbox[c] # <<>> /\ inbox' = [inbox EXCEPT ![c] = Tail(@)] /\ UNCHANGED snap
      <4>1. s # <<>>
        BY <2>2, <3>1, <3>3
      <4> QED BY <1>0, <3>1, <3>3, <4>1 DEF StreamType
    <3> QED BY <1>4, <3>2, <3>3 DEF Yield
  <2>4. PICK v \in Valuation : v = Head(s)
    BY <2>3
  <2>5. CASE link = c
    <3>1. history' = [history EXCEPT ![v[1]] = KeepLast(Append(@, v[2]))] /\ conn' = conn
      BY <1>4, <2>2, <2>4, <2>5 DEF Yield
    <3>2. v[1] \in Trade /\ v[2] \in 1..MaxPriced
      BY <2>4 DEF Valuation
    <3>3. PICK h \in Seq(1..MaxPriced) : h = history[v[1]]
      BY <1>0, <3>2 DEF StreamType
    <3>4. /\ KeepLast(Append(h, v[2])) \in Seq(1..MaxPriced)
          /\ Len(KeepLast(Append(h, v[2]))) <= MaxHistory
      BY <3>2, KeepLastEffect
    <3>5. history' = [history EXCEPT ![v[1]] = KeepLast(Append(h, v[2]))]
      BY <3>1, <3>3, Zenon
    <3>6. /\ history' \in [Trade -> Seq(1..MaxPriced)]
          /\ \A t \in Trade : Len(history'[t]) <= MaxHistory
      BY <1>0, <3>4, <3>5 DEF StreamType
    <3>7. \A d \in Conn : /\ conn[d] = "new" => inbox'[d] = <<>>
                          /\ conn[d] \in {"new", "registered"} => snap'[d] = <<>>
      BY <1>0, <2>1, <2>3 DEF StreamType
    <3> QED BY <1>0, <2>1, <2>3, <3>1, <3>6, <3>7 DEF StreamType
  <2>6. CASE link # c
    <3>1. conn' = [conn EXCEPT ![c] = "ending"] /\ history' = history
      BY <1>4, <2>6 DEF Yield
    <3>2. /\ conn' \in [Conn -> {"new", "registered", "streaming", "ending", "gone"}]
          /\ conn'[c] = "ending" /\ \A d \in Conn : d # c => conn'[d] = conn[d]
      BY <1>0, <3>1 DEF StreamType
    <3>3. subscribers' = {d \in Conn : conn'[d] \in {"registered", "streaming", "ending"}}
      BY <1>0, <2>1, <3>2 DEF StreamType
    <3>4. \A d \in Conn : /\ conn'[d] = "new" => inbox'[d] = <<>>
                          /\ conn'[d] \in {"new", "registered"} => snap'[d] = <<>>
      BY <1>0, <2>3, <3>2 DEF StreamType
    <3> QED BY <1>0, <2>1, <2>3, <2>6, <3>1, <3>2, <3>3, <3>4 DEF StreamType
  <2> QED BY <2>5, <2>6
<1>5. ASSUME NEW c \in Conn, Unsubscribe(c) PROVE StreamType'
  <2>1. /\ conn[c] = "ending" /\ conn' = [conn EXCEPT ![c] = "gone"]
        /\ subscribers' = subscribers \ {c} /\ snap' = snap /\ inbox' = inbox
        /\ blotter' = blotter /\ link' = link /\ history' = history
    BY <1>5 DEF Unsubscribe, reading
  <2>2. /\ conn' \in [Conn -> {"new", "registered", "streaming", "ending", "gone"}]
        /\ conn'[c] = "gone" /\ \A d \in Conn : d # c => conn'[d] = conn[d]
    BY <1>0, <2>1 DEF StreamType
  <2>3. subscribers' = {d \in Conn : conn'[d] \in {"registered", "streaming", "ending"}}
    BY <1>0, <2>1, <2>2 DEF StreamType
  <2> QED BY <1>0, <2>1, <2>2, <2>3 DEF StreamType
<1>6. CASE PublishValuation
  <2>1. /\ inbox' = [c \in Conn |-> IF c \in subscribers
                                    THEN Append(inbox[c], <<current, store[current]>>)
                                    ELSE inbox[c]]
        /\ subscribers' = subscribers /\ conn' = conn /\ snap' = snap
        /\ blotter' = blotter /\ link' = link /\ history' = history
    BY <1>6 DEF PublishValuation, reading
  <2>2. PICK v \in Valuation : v = <<current, store[current]>>
    <3>1. current \in Trade /\ store[current] \in 1..MaxPriced
      BY <1>6 DEF PublishValuation, TypeInv, PriceType, Working
    <3> QED BY <3>1 DEF Valuation
  <2>3. inbox' \in [Conn -> Seq(Valuation)]
    <3>1. \A c \in Conn : Append(inbox[c], v) \in Seq(Valuation)
      BY <1>0 DEF StreamType
    <3> QED BY <1>0, <2>1, <2>2, <3>1 DEF StreamType
  <2>4. \A c \in Conn : conn[c] = "new" => inbox'[c] = <<>>
    BY <1>0, <2>1 DEF StreamType
  <2> QED BY <1>0, <2>1, <2>3, <2>4 DEF StreamType
<1>7. CASE Drop
  <2>1. /\ blotter' \in {"connect", "dead"} /\ link' = NoConn /\ history' = history
        /\ subscribers' = subscribers /\ conn' = conn /\ snap' = snap /\ inbox' = inbox
    BY <1>7 DEF Drop, streaming
  <2> QED BY <1>0, <2>1 DEF StreamType
<1>8. CASE RestartBlotter
  <2>1. /\ blotter' = "connect" /\ link' = NoConn /\ history' = [t \in Trade |-> <<>>]
        /\ subscribers' = subscribers /\ conn' = conn /\ snap' = snap /\ inbox' = inbox
    BY <1>8 DEF RestartBlotter, streaming
  <2>2. /\ history' \in [Trade -> Seq(1..MaxPriced)]
        /\ \A t \in Trade : Len(history'[t]) <= MaxHistory
    BY <2>1, ValuationAssumption
  <2> QED BY <1>0, <2>1, <2>2 DEF StreamType
<1>9. CASE RestartPricing
  <2>1. /\ conn' = [c \in Conn |-> IF conn[c] = "new" THEN "new" ELSE "gone"]
        /\ snap' = [c \in Conn |-> <<>>] /\ inbox' = [c \in Conn |-> <<>>]
        /\ subscribers' = {} /\ link' = NoConn /\ history' = history
        /\ blotter' = IF blotter = "read" THEN "connect" ELSE blotter
    BY <1>9 DEF RestartPricing
  <2> QED BY <1>0, <2>1 DEF StreamType
<1>10. ASSUME \/ \E t \in Trade : Open(t) \/ Close(t)
              \/ Refresher \/ FeedThread \/ FeedOpened \/ FeedRefused \/ FeedLost
              \/ \E s \in Symbol : TakeTick(s)
              \/ PriceTrade \/ SaveValuation
       PROVE  UNCHANGED <<streaming, reading>>
  <2>1. CASE \E t \in Trade : Open(t) \/ Close(t)
    BY <2>1 DEF Open, Close
  <2>2. CASE Refresher
    BY <2>2 DEF Refresher, ReloadQuery, ReloadSwap
  <2>3. CASE FeedThread \/ FeedOpened \/ FeedRefused \/ FeedLost
    BY <2>3 DEF FeedThread, FeedStart, FeedConnect, FeedExcept, FeedOpened, FeedRefused, FeedLost,
                FeedUnchanged
  <2>4. CASE (\E s \in Symbol : TakeTick(s)) \/ PriceTrade \/ SaveValuation
    BY <2>4 DEF TakeTick, PriceTrade, SkipTrade, StoreValuation, SaveValuation
  <2> QED BY <1>10, <2>1, <2>2, <2>3, <2>4
<1>11. CASE UNCHANGED vars
  BY <1>1, <1>11 DEF vars, streaming, reading
<1> QED BY <1>1, <1>2, <1>3, <1>4, <1>5, <1>6, <1>7, <1>8, <1>9, <1>10, <1>11
        DEF Next, PricingThread, StreamThread

\* Every step keeps the types.
LEMMA TypeNext == TypeInv /\ [Next]_vars => TypeInv'
BY TableNext, PriceNext, StreamNext DEF TypeInv

\* The type invariant holds of every behaviour.
LEMMA TypeInduction == Spec => []TypeInv
BY TypeInit, TypeNext, PTL DEF Spec

\* In every reachable state of pricing-service and the blotter the cache holds
\* no more trades than get_trades returns, a queue belongs to every registered
\* client, and no trade's history is longer than MAX_VALUATIONS_PER_TRADE.
THEOREM ValuationsTypeCorrect == Spec => []TypeOK
<1>1. TypeInv => TypeOK
  BY DEF TypeInv, TableType, PriceType, StreamType, TypeOK, Working
<1> QED BY <1>1, TypeInduction, PTL

-----------------------------------------------------------------------------
(* The order of what is queued.                                            *)

\* What is queued was priced before, and what is being published was not yet
\* queued.
Queues ==
    \A c \in Conn :
       /\ \A i, j \in DOMAIN inbox[c] : i < j => inbox[c][i][2] < inbox[c][j][2]
       /\ \A i \in DOMAIN inbox[c] : /\ inbox[c][i][2] <= priced
                                     /\ Working => inbox[c][i][2] < priced

\* A queue without its first element is in order, too.
LEMMA TailInOrder ==
    ASSUME NEW s \in Seq(Valuation), s # <<>>
    PROVE  /\ \A i \in DOMAIN Tail(s) : i + 1 \in DOMAIN s /\ Tail(s)[i] = s[i + 1]
           /\ \A i \in DOMAIN Tail(s) : i \in Nat
<1>1. PICK m \in Nat : m = Len(s) /\ m # 0 /\ m - 1 \in Nat
  BY LenProperties, EmptySeq
<1>2. /\ Tail(s) \in Seq(Valuation) /\ Len(Tail(s)) = m - 1
      /\ \A i \in 1..(m - 1) : Tail(s)[i] = s[i + 1]
  BY <1>1, HeadTailProperties
<1>3. DOMAIN Tail(s) = 1..(m - 1) /\ DOMAIN s = 1..m
  BY <1>1, <1>2
<1> QED BY <1>1, <1>2, <1>3

\* Every step keeps the queues in order.
LEMMA QueuesNext == TypeInv /\ TypeInv' /\ Queues /\ [Next]_vars => Queues'
<1> SUFFICES ASSUME TypeInv, TypeInv', Queues, [Next]_vars PROVE Queues'
  OBVIOUS
<1>0. /\ \A c \in Conn : inbox[c] \in Seq(Valuation)
      /\ \A c \in Conn : \A i \in DOMAIN inbox[c] : i \in Nat /\ inbox[c][i][2] \in Nat
      /\ priced \in Nat
  <2>1. \A c \in Conn : inbox[c] \in Seq(Valuation)
    BY DEF TypeInv, StreamType
  <2>2. \A v \in Valuation : v[2] \in Nat
    BY DEF Valuation
  <2>3. \A c \in Conn : \A i \in DOMAIN inbox[c] : i \in Nat /\ inbox[c][i] \in Valuation
    BY <2>1, ElementOfSeq, LenProperties
  <2> QED BY <2>1, <2>2, <2>3 DEF TypeInv, PriceType
<1>1. ASSUME inbox' = inbox, priced' = priced, Working' => Working PROVE Queues'
  BY <1>1 DEF Queues
<1>2. ASSUME NEW t \in Trade, StoreValuation(t) PROVE Queues'
  <2>1. inbox' = inbox /\ priced' = priced + 1
    BY <1>2 DEF StoreValuation, streaming
  <2> QED BY <1>0, <2>1 DEF Queues
<1>3. ASSUME NEW c \in Conn, Yield(c) PROVE Queues'
  <2>1. priced' = priced /\ (Working' <=> Working)
    BY <1>3 DEF Yield, pricing, Working
  <2>2. CASE inbox' = inbox
    BY <1>1, <2>1, <2>2
  <2>3. CASE inbox[c] # <<>> /\ inbox' = [inbox EXCEPT ![c] = Tail(@)]
    <3>1. PICK s \in Seq(Valuation) : s = inbox[c] /\ s # <<>>
      BY <1>0, <2>3
    <3>2. inbox'[c] = Tail(s) /\ \A d \in Conn : d # c => inbox'[d] = inbox[d]
      BY <2>3, <3>1 DEF TypeInv, StreamType
    <3>3. /\ \A i \in DOMAIN Tail(s) : i + 1 \in DOMAIN s /\ Tail(s)[i] = s[i + 1]
          /\ \A i \in DOMAIN Tail(s) : i \in Nat
      BY <3>1, TailInOrder
    <3>4. /\ \A i, j \in DOMAIN s : i < j => s[i][2] < s[j][2]
          /\ \A i \in DOMAIN s : s[i][2] <= priced /\ (Working => s[i][2] < priced)
      BY <3>1 DEF Queues
    <3>5. \A i, j \in DOMAIN Tail(s) : i < j => Tail(s)[i][2] < Tail(s)[j][2]
      BY <3>3, <3>4
    <3>6. \A i \in DOMAIN Tail(s) : /\ Tail(s)[i][2] <= priced
                                    /\ Working => Tail(s)[i][2] < priced
      BY <3>3, <3>4
    <3> QED BY <2>1, <3>2, <3>5, <3>6 DEF Queues
  <2> QED BY <1>3, <2>2, <2>3 DEF Yield
<1>4. CASE PublishValuation
  <2>1. /\ Working /\ ~Working' /\ priced' = priced /\ store[current] = priced
        /\ \A c \in Conn : inbox'[c] = IF c \in subscribers
                                       THEN Append(inbox[c], <<current, store[current]>>)
                                       ELSE inbox[c]
    BY <1>4 DEF PublishValuation, Working, NextTrade, TypeInv, PriceType
  <2> SUFFICES ASSUME NEW c \in Conn
               PROVE  /\ \A i, j \in DOMAIN inbox'[c] : i < j => inbox'[c][i][2] < inbox'[c][j][2]
                      /\ \A i \in DOMAIN inbox'[c] : inbox'[c][i][2] <= priced
    BY <2>1 DEF Queues
  <2>2. CASE inbox'[c] = inbox[c]
    BY <2>2 DEF Queues
  <2>3. CASE inbox'[c] = Append(inbox[c], <<current, store[current]>>)
    <3>1. PICK v : v = <<current, store[current]>> /\ v[2] = priced
      BY <2>1
    <3>2. PICK s \in Seq(Valuation), n \in Nat : s = inbox[c] /\ n = Len(s)
      BY <1>0
    <3>3. /\ v \in Valuation
      <4>1. current \in Trade /\ store[current] \in 1..MaxPriced
        BY <2>1 DEF TypeInv, PriceType, Working
      <4> QED BY <3>1, <4>1 DEF Valuation
    <3>4. PICK u \in Seq(Valuation) : /\ u = Append(s, v) /\ Len(u) = n + 1 /\ u[n + 1] = v
                                      /\ \A i \in 1..n : u[i] = s[i]
      <4>1. /\ Append(s, v) \in Seq(Valuation) /\ Len(Append(s, v)) = n + 1
            /\ Append(s, v)[n + 1] = v /\ \A i \in 1..n : Append(s, v)[i] = s[i]
        BY <3>2, <3>3, AppendProperties
      <4> QED BY <4>1
    <3>5. DOMAIN u = 1..(n + 1) /\ DOMAIN s = 1..n /\ inbox'[c] = u
      BY <2>3, <3>1, <3>2, <3>4
    <3>6. /\ \A i, j \in 1..n : i < j => s[i][2] < s[j][2]
          /\ \A i \in 1..n : s[i][2] < priced
      BY <2>1, <3>2, <3>5 DEF Queues
    <3>7. \A i \in 1..(n + 1) : (i \in 1..n /\ u[i] = s[i]) \/ (i = n + 1 /\ u[i] = v)
      BY <3>4
    <3>8. ASSUME NEW i \in 1..(n + 1), NEW j \in 1..(n + 1), i < j PROVE u[i][2] < u[j][2]
      <4>1. i \in 1..n /\ u[i] = s[i]
        BY <3>7, <3>8
      <4>2. CASE j \in 1..n /\ u[j] = s[j]
        BY <3>6, <3>8, <4>1, <4>2
      <4>3. CASE j = n + 1 /\ u[j] = v
        <5>1. u[i][2] < priced
          BY <3>6, <4>1
        <5> QED BY <3>1, <4>3, <5>1
      <4> QED BY <3>7, <4>2, <4>3
    <3>9. ASSUME NEW i \in 1..(n + 1) PROVE u[i][2] <= priced
      <4>1. \A k \in 1..n : s[k][2] \in Nat
        BY <1>0, <3>2, <3>5
      <4> QED BY <1>0, <3>1, <3>6, <3>7, <4>1
    <3> QED BY <3>5, <3>8, <3>9
  <2> QED BY <2>1, <2>2, <2>3
<1>5. CASE RestartPricing
  <2>1. \A c \in Conn : inbox'[c] = <<>> /\ DOMAIN <<>> = {}
    BY <1>5 DEF RestartPricing
  <2> QED BY <2>1 DEF Queues
<1>6. ASSUME \/ \E t \in Trade : Open(t) \/ Close(t) \/ SkipTrade(t)
             \/ Refresher \/ FeedThread \/ FeedOpened \/ FeedRefused \/ FeedLost
             \/ \E s \in Symbol : TakeTick(s)
             \/ SaveValuation \/ Drop \/ RestartBlotter
             \/ \E c \in Conn : Connect(c) \/ TakeSnapshot(c) \/ Unsubscribe(c)
      PROVE  inbox' = inbox /\ priced' = priced /\ (Working' => Working)
  <2>1. CASE \E t \in Trade : Open(t) \/ Close(t)
    BY <2>1 DEF Open, Close, streaming, pricing, Working
  <2>2. CASE Refresher
    BY <2>2 DEF Refresher, ReloadQuery, ReloadSwap, streaming, pricing, Working
  <2>3. CASE FeedThread \/ FeedOpened \/ FeedRefused \/ FeedLost
    <3>1. FeedUnchanged
      BY <2>3 DEF FeedThread, FeedStart, FeedConnect, FeedExcept, FeedOpened, FeedRefused, FeedLost
    <3> QED BY <3>1 DEF FeedUnchanged, work, streaming, Working
  <2>4. CASE (\E s \in Symbol : TakeTick(s)) \/ (\E t \in Trade : SkipTrade(t)) \/ SaveValuation
    BY <2>4 DEF TakeTick, SkipTrade, NextTrade, SaveValuation, streaming, Working
  <2>5. CASE Drop \/ RestartBlotter
    BY <2>5 DEF Drop, RestartBlotter, streaming, pricing, Working
  <2>6. CASE \E c \in Conn : Connect(c) \/ TakeSnapshot(c) \/ Unsubscribe(c)
    BY <2>6 DEF Connect, TakeSnapshot, Unsubscribe, pricing, Working
  <2> QED BY <1>6, <2>1, <2>2, <2>3, <2>4, <2>5, <2>6
<1>7. CASE UNCHANGED vars
  BY <1>1, <1>7 DEF vars, Working
<1> QED BY <1>1, <1>2, <1>3, <1>4, <1>5, <1>6, <1>7
        DEF Next, PricingThread, PriceTrade, StreamThread

\* Whatever the pricing thread, the stream's handlers and restarts do, the
\* valuations queued for a /valuation-stream client are sent in the order in
\* which they were priced, and none twice.
THEOREM StreamInOrder == Spec => []QueueInOrder
<1>1. Init => Queues
  BY DEF Init, Queues
<1>2. Queues => QueueInOrder
  BY DEF Queues, QueueInOrder
<1> QED BY <1>1, <1>2, QueuesNext, TypeInduction, PTL DEF Spec

-----------------------------------------------------------------------------
(* Rows of the valuations table.                                           *)

Saved == UNION {rows[t] : t \in Trade}
Saving == IF step = "save" THEN {store[current]} ELSE {}
Unsaved == (1..priced) \ (Saved \cup Saving)
Paid == Cardinality(Unsaved) <= faults + restarts

\* A step that leaves a valuation without its row counts a fault or a restart.
LEMMA PaidNext == TypeInv /\ TypeInv' /\ Paid /\ [Next]_vars => Paid'
<1> SUFFICES ASSUME TypeInv, TypeInv', Paid, [Next]_vars PROVE Paid'
  OBVIOUS
<1>0. PICK n \in Nat, m \in Nat, k \in Nat, l \in Nat :
            /\ n = faults /\ m = restarts /\ k = faults' /\ l = restarts'
  BY DEF TypeInv, TableType
<1>1. IsFiniteSet(Unsaved) /\ Cardinality(Unsaved) \in Nat /\ Cardinality(Unsaved) <= n + m
  <2>1. 1 \in Int /\ priced \in Int
    BY DEF TypeInv, PriceType
  <2>2. IsFiniteSet(1..priced)
    BY <2>1, FS_Interval
  <2> QED BY <1>0, <2>2, FS_Difference, FS_CardinalityType DEF Unsaved, Paid
<1>2. ASSUME Unsaved' \subseteq Unsaved, n <= k, m <= l PROVE Paid'
  <2>1. Unsaved' \in SUBSET Unsaved
    BY <1>2
  <2>2. Cardinality(Unsaved') <= Cardinality(Unsaved) /\ Cardinality(Unsaved') \in Nat
    BY <1>1, <2>1, FS_Subset, FS_CardinalityType
  <2>3. Cardinality(Unsaved') <= k + l
    BY <1>1, <1>2, <2>2
  <2> QED BY <1>0, <2>3 DEF Paid
<1>3. ASSUME NEW x, Unsaved' \subseteq Unsaved \cup {x}, k + l = n + m + 1 PROVE Paid'
  <2>1. IsFiniteSet(Unsaved \cup {x})
        /\ Cardinality(Unsaved \cup {x}) = IF x \in Unsaved THEN Cardinality(Unsaved)
                                           ELSE Cardinality(Unsaved) + 1
    BY <1>1, FS_AddElement
  <2>2. Unsaved' \in SUBSET (Unsaved \cup {x})
    BY <1>3
  <2>3. Cardinality(Unsaved') <= Cardinality(Unsaved \cup {x}) /\ Cardinality(Unsaved') \in Nat
    BY <2>1, <2>2, FS_Subset, FS_CardinalityType
  <2>4. Cardinality(Unsaved') <= k + l
    BY <1>1, <1>3, <2>1, <2>3
  <2> QED BY <1>0, <2>4 DEF Paid
<1>4. ASSUME Works \/ Raised PROVE n <= k
  BY <1>0, <1>4 DEF Works, Raised
<1>5. ASSUME UNCHANGED <<rows, priced, store, current, step, restarts>>, n <= k PROVE Paid'
  <2>1. Unsaved' = Unsaved
    BY <1>5 DEF Unsaved, Saved, Saving
  <2>2. m <= l
    BY <1>0, <1>5
  <2> QED BY <1>2, <1>5, <2>1, <2>2
<1>6. ASSUME \/ \E t \in Trade : Open(t) \/ Close(t)
             \/ \E c \in Conn : Connect(c) \/ StreamThread(c)
             \/ ReloadSwap
      PROVE  Paid'
  <2>1. UNCHANGED <<rows, pricing, faults, restarts>>
    BY <1>6 DEF Open, Close, Connect, StreamThread, TakeSnapshot, Yield, Unsubscribe, ReloadSwap
  <2> QED BY <1>0, <1>5, <2>1 DEF pricing
<1>7. ASSUME ReloadQuery \/ Drop PROVE Paid'
  <2>1. UNCHANGED <<rows, pricing, restarts>> /\ (Works \/ Raised)
    BY <1>7 DEF ReloadQuery, Drop
  <2> QED BY <1>4, <1>5, <2>1 DEF pricing
<1>8. ASSUME FeedThread \/ FeedOpened \/ FeedRefused \/ FeedLost PROVE Paid'
  <2>1. FeedUnchanged /\ (Works \/ Raised)
    BY <1>8 DEF FeedThread, FeedStart, FeedConnect, FeedExcept, FeedOpened, FeedRefused, FeedLost
  <2> QED BY <1>4, <1>5, <2>1 DEF FeedUnchanged, work
<1>9. ASSUME (\E s \in Symbol : TakeTick(s)) \/ (\E t \in Trade : SkipTrade(t)) \/ PublishValuation
      PROVE  Paid'
  <2>1. /\ rows' = rows /\ priced' = priced /\ faults' = faults /\ restarts' = restarts
        /\ step # "save"
    BY <1>9 DEF TakeTick, SkipTrade, PublishValuation
  <2>2. Unsaved' \subseteq Unsaved
    BY <2>1 DEF Unsaved, Saved, Saving
  <2> QED BY <1>0, <1>2, <2>1, <2>2
<1>10. ASSUME NEW t \in Trade, StoreValuation(t) PROVE Paid'
  <2>1. /\ rows' = rows /\ priced' = priced + 1 /\ faults' = faults /\ restarts' = restarts
        /\ step = "price" /\ step' = "save" /\ current' = t
        /\ store' = [store EXCEPT ![t] = priced + 1]
    BY <1>10 DEF StoreValuation
  <2>2. store'[current'] = priced + 1 /\ priced \in Nat
    BY <2>1 DEF TypeInv, PriceType
  <2>3. \A i \in 1..(priced + 1) : i = priced + 1 \/ i \in 1..priced
    BY <2>2
  <2>4. Unsaved' \subseteq Unsaved
    BY <2>1, <2>2, <2>3 DEF Unsaved, Saved, Saving
  <2> QED BY <1>0, <1>2, <2>1, <2>4
<1>11. CASE SaveValuation
  <2>1. /\ step = "save" /\ step' = "publish" /\ priced' = priced /\ restarts' = restarts
    BY <1>11 DEF SaveValuation
  <2>2. CASE Works /\ rows' = [rows EXCEPT ![current] = @ \cup {store[current]}]
    <3>1. current \in Trade /\ rows \in [Trade -> SUBSET (1..MaxPriced)]
      BY <2>1 DEF TypeInv, PriceType, TableType, Working
    <3>2. \A t \in Trade : rows[t] \subseteq rows'[t]
      BY <2>2, <3>1
    <3>3. store[current] \in rows'[current]
      BY <2>2, <3>1
    <3>4. Saved \cup {store[current]} \subseteq Saved'
      BY <3>1, <3>2, <3>3 DEF Saved
    <3>5. Unsaved' \subseteq Unsaved
      BY <2>1, <3>4 DEF Unsaved, Saving
    <3> QED BY <1>0, <1>2, <1>4, <2>1, <2>2, <3>5
  <2>3. CASE Raised /\ rows' = rows
    <3>1. Unsaved' \subseteq Unsaved \cup {store[current]}
      BY <2>1, <2>3 DEF Unsaved, Saved, Saving
    <3>2. k = n + 1 /\ l = m
      BY <1>0, <2>1, <2>3 DEF Raised
    <3> QED BY <1>3, <3>1, <3>2
  <2> QED BY <1>11, <2>2, <2>3 DEF SaveValuation
<1>12. CASE RestartPricing
  <2>1. /\ rows' = rows /\ priced' = priced /\ faults' = faults /\ restarts' = restarts + 1
        /\ step' = "tick"
    BY <1>12 DEF RestartPricing
  <2>2. Unsaved' \subseteq Unsaved \cup {store[current]}
    BY <2>1 DEF Unsaved, Saved, Saving
  <2>3. k + l = n + m + 1
    BY <1>0, <2>1
  <2> QED BY <1>3, <2>2, <2>3
<1>13. CASE RestartBlotter
  <2>1. /\ UNCHANGED <<rows, pricing>> /\ faults' = faults /\ restarts' = restarts + 1
    BY <1>13 DEF RestartBlotter
  <2>2. Unsaved' = Unsaved
    BY <2>1 DEF pricing, Unsaved, Saved, Saving
  <2>3. n <= k /\ m <= l
    BY <1>0, <2>1
  <2> QED BY <1>2, <2>2, <2>3
<1>14. CASE UNCHANGED vars
  <2>1. n <= k
    BY <1>0, <1>14 DEF vars
  <2> QED BY <1>5, <1>14, <2>1 DEF vars
<1> QED BY <1>6, <1>7, <1>8, <1>9, <1>10, <1>11, <1>12, <1>13, <1>14
        DEF Next, Refresher, PricingThread, PriceTrade

\* save_valuation swallows what its session raises; still, every valuation
\* that was computed has its row in the valuations table, but for one at most
\* for each database call that raised and each restart.
THEOREM EverySaveAccounted == Spec => []SavesAccounted
<1>1. Init => Paid
  <2> SUFFICES ASSUME Init PROVE Paid
    OBVIOUS
  <2>1. Unsaved = {}
    BY DEF Init, Unsaved
  <2> QED BY <2>1, FS_EmptySet DEF Init, Paid
<1>2. Paid => SavesAccounted
  BY Zenon DEF Paid, SavesAccounted, Unsaved, Saved, Saving
<1> QED BY <1>1, <1>2, PaidNext, TypeInduction, PTL DEF Spec

-----------------------------------------------------------------------------
(* What the blotter is going to show.                                      *)

\* A client that is registered and has no snapshot yet finds in its queue, of
\* each trade, the stored valuation last or none at all; one that has its
\* snapshot gets the stored valuation last, or shows it already.
Caught(t) ==
    /\ conn[link] = "registered" =>
          Silent(inbox[link], t) \/ Says(inbox[link], t, store[t])
    /\ conn[link] = "streaming" /\ store[t] # 0 =>
          \/ Says(Coming(link), t, store[t])
          \/ Silent(Coming(link), t) /\ Latest(t) = store[t]
AllCaught == link # NoConn => \A t \in Trade : t # current => Caught(t)

\* What is caught is what the reader will show.
LEMMA CaughtIsShown == TypeInv /\ AllCaught => NothingMissed
<1> SUFFICES ASSUME TypeInv, AllCaught, link # NoConn, NEW t \in Trade,
                    store[t] # 0, t # current, conn[link] # "registered"
             PROVE  Outcome(link, t) = store[t]
  BY DEF NothingMissed
<1>1. link \in Conn /\ conn[link] = "streaming" /\ Caught(t)
  BY DEF TypeInv, StreamType, AllCaught
<1>2. PICK s \in Seq(Valuation) : s = Coming(link)
  <2>1. snap[link] \in Seq(Valuation) /\ inbox[link] \in Seq(Valuation)
    BY <1>1 DEF TypeInv, StreamType
  <2> QED BY <2>1, ConcatProperties DEF Coming
<1>3. CASE Says(s, t, store[t])
  <2>1. ~Silent(s, t) /\ s[Max(About(s, t))][2] = store[t]
    BY <1>3, LastAbout
  <2>2. About(s, t) # {}
    BY <2>1, LastAbout
  <2> QED BY <1>2, <2>1, <2>2 DEF Outcome
<1>4. CASE Silent(s, t) /\ Latest(t) = store[t]
  <2>1. About(s, t) = {}
    BY <1>4, LastAbout
  <2> QED BY <1>2, <1>4, <2>1 DEF Outcome
<1> QED BY <1>1, <1>2, <1>3, <1>4 DEF Caught

\* A step that leaves the link, the store and what is on its way alone.
Untouched ==
    /\ link' = link /\ store' = store /\ history' = history /\ current' = current
    /\ link # NoConn => /\ conn'[link] = conn[link] /\ snap'[link] = snap[link]
                        /\ inbox'[link] = inbox[link]

\* Such a step leaves caught what was.
LEMMA CaughtUntouched ==
    ASSUME AllCaught, Untouched
    PROVE  AllCaught'
<1> SUFFICES ASSUME link # NoConn, NEW t \in Trade, t # current PROVE Caught(t)'
  BY DEF AllCaught, Untouched
<1>1. Caught(t)
  BY DEF AllCaught
<1>2. Coming(link)' = Coming(link) /\ Latest(t)' = Latest(t)
  BY DEF Coming, Latest, Untouched
<1>3. /\ conn'[link'] = conn[link] /\ inbox'[link'] = inbox[link] /\ store' = store
      /\ Coming(link)' = Coming(link)
  BY <1>2 DEF Untouched
<1>4. /\ Silent(inbox'[link'], t) <=> Silent(inbox[link], t)
      /\ Says(inbox'[link'], t, store'[t]) <=> Says(inbox[link], t, store[t])
  BY <1>3
<1> QED BY <1>1, <1>2, <1>3, <1>4 DEF Caught

\* The pricing thread: the store first, the queues afterwards.
LEMMA CaughtStore ==
    ASSUME TypeInv, AllCaught, NEW u \in Trade, StoreValuation(u)
    PROVE  AllCaught'
<1>1. /\ store' = [store EXCEPT ![u] = priced + 1] /\ current' = u /\ step = "price"
      /\ conn' = conn /\ snap' = snap /\ inbox' = inbox /\ link' = link /\ history' = history
  BY DEF StoreValuation, streaming, reading
<1> SUFFICES ASSUME link # NoConn, NEW t \in Trade, t # u PROVE Caught(t)'
  BY <1>1 DEF AllCaught
<1>2. Caught(t)
  <2>1. current = NoTrade /\ t # NoTrade
    BY <1>1, ValuationAssumption DEF TypeInv, PriceType, Working
  <2> QED BY <2>1 DEF AllCaught
<1>3. store'[t] = store[t]
  BY <1>1 DEF TypeInv, PriceType
<1>4. Coming(link)' = Coming(link) /\ Latest(t)' = Latest(t)
  BY <1>1 DEF Coming, Latest
<1> QED BY <1>1, <1>2, <1>3, <1>4 DEF Caught

\* The valuation that was stored is put on every queue, the current one with it.
LEMMA CaughtPublish ==
    ASSUME TypeInv, AllCaught, PublishValuation
    PROVE  AllCaught'
<1>1. /\ inbox' = [c \in Conn |-> IF c \in subscribers
                                  THEN Append(inbox[c], <<current, store[current]>>)
                                  ELSE inbox[c]]
      /\ conn' = conn /\ snap' = snap /\ link' = link /\ history' = history /\ store' = store
      /\ step = "publish"
  BY DEF PublishValuation, reading
<1> SUFFICES ASSUME link # NoConn, NEW t \in Trade PROVE Caught(t)'
  BY <1>1 DEF AllCaught
<1>2. PICK v \in Valuation : /\ v = <<current, store[current]>>
                              /\ v[1] = current /\ v[2] = store[current]
  <2>1. PICK u \in Trade, x \in 1..MaxPriced : u = current /\ x = store[current]
    <3>1. current \in Trade /\ current # NoTrade
      BY <1>1 DEF TypeInv, PriceType, Working
    <3>2. store[current] = priced /\ priced \in 1..MaxPriced
      BY <1>1 DEF TypeInv, PriceType, Working
    <3> QED BY <3>1, <3>2
  <2>2. <<u, x>> \in Valuation /\ <<u, x>>[1] = u /\ <<u, x>>[2] = x
    BY DEF Valuation
  <2> QED BY <2>1, <2>2
<1>3. /\ link \in Conn /\ link \in subscribers /\ conn[link] \in {"registered", "streaming"}
      /\ snap[link] \in Seq(Valuation) /\ inbox[link] \in Seq(Valuation)
  BY DEF TypeInv, StreamType
<1>4. PICK q \in Seq(Valuation), s \in Seq(Valuation), c \in Seq(Valuation) :
            q = inbox[link] /\ s = snap[link] /\ c = s \o q /\ c = Coming(link)
  BY <1>3, ConcatProperties DEF Coming
<1>5. inbox'[link] = Append(q, v)
  BY <1>1, <1>2, <1>3, <1>4
<1>6. Coming(link)' = Append(c, v)
  <2>1. s \o Append(q, v) = Append(s \o q, v)
    OBVIOUS
  <2>2. Coming(link)' = s \o Append(q, v)
    BY <1>1, <1>4, <1>5 DEF Coming
  <2> QED BY <1>4, <2>1, <2>2
<1>7. CASE t = current
  <2>1. Says(Append(q, v), t, v[2]) /\ Says(Append(c, v), t, v[2])
    BY <1>2, <1>7, SaysAppend
  <2>2. v[2] = store'[t]
    BY <1>1, <1>2, <1>7
  <2> QED BY <1>1, <1>5, <1>6, <2>1, <2>2 DEF Caught
<1>8. CASE t # current
  <2>1. /\ \A x : Says(Append(q, v), t, x) <=> Says(q, t, x)
        /\ \A x : Says(Append(c, v), t, x) <=> Says(c, t, x)
        /\ Silent(Append(q, v), t) <=> Silent(q, t)
        /\ Silent(Append(c, v), t) <=> Silent(c, t)
    BY <1>2, <1>8, SaysAppend
  <2>2. Caught(t)
    BY <1>8 DEF AllCaught
  <2>3. Latest(t)' = Latest(t)
    BY <1>1 DEF Latest
  <2> QED BY <1>1, <1>4, <1>5, <1>6, <2>1, <2>2, <2>3 DEF Caught
<1> QED BY <1>7, <1>8

\* A handler's own steps: it copies the store, and it sends.
LEMMA CaughtSnapshot ==
    ASSUME TypeInv, AllCaught, NEW c \in Conn, TakeSnapshot(c)
    PROVE  AllCaught'
<1>1. /\ conn[c] = "registered" /\ conn' = [conn EXCEPT ![c] = "streaming"]
      /\ snap' = [snap EXCEPT ![c] = SetToSeq(Stored)] /\ inbox' = inbox
      /\ store' = store /\ current' = current /\ link' = link /\ history' = history
  BY DEF TakeSnapshot, pricing, reading
<1>2. CASE link # c
  <2>1. link # NoConn => conn'[link] = conn[link] /\ snap'[link] = snap[link]
    BY <1>1, <1>2 DEF TypeInv, StreamType
  <2> QED BY <1>1, <2>1, CaughtUntouched DEF Untouched
<1>3. CASE link = c
  <2> SUFFICES ASSUME NEW t \in Trade, t # current PROVE Caught(t)'
    BY <1>1 DEF AllCaught
  <2>1. c # NoConn
    BY ValuationAssumption
  <2>2. PICK q \in Seq(Valuation), s \in Seq(Valuation) :
              /\ q = inbox[c] /\ s = SetToSeq(Stored)
              /\ \A i \in DOMAIN s : s[i] \in Stored
              /\ \A v \in Stored : \E i \in DOMAIN s : s[i] = v
    <3>1. IsFiniteSet(Stored) /\ Stored \subseteq Valuation
      BY DEF TypeInv, PriceType, Stored
    <3>2. PICK s : s = SetToSeq(Stored) /\ s \in Seq(Stored)
                   /\ \A v \in Stored : \E i \in DOMAIN s : s[i] = v
      BY <3>1, SnapshotWhole
    <3>3. s \in Seq(Valuation)
      BY <3>1, <3>2, SeqMonotonic
    <3>4. \A i \in DOMAIN s : s[i] \in Stored
      BY <3>2, ElementOfSeq, LenProperties
    <3>5. inbox[c] \in Seq(Valuation)
      BY DEF TypeInv, StreamType
    <3> QED BY <3>2, <3>3, <3>4, <3>5
  <2>3. /\ conn'[c] = "streaming" /\ Coming(c)' = s \o q
    BY <1>1, <2>2 DEF Coming, TypeInv, StreamType
  <2>4. Silent(q, t) \/ Says(q, t, store[t])
    BY <1>1, <1>3, <2>1, <2>2 DEF AllCaught, Caught
  <2>5. ASSUME store[t] # 0 PROVE Says(s \o q, t, store[t])
    <3>1. CASE Says(q, t, store[t])
      BY <3>1, SaysConcat
    <3>2. CASE Silent(q, t)
      <4>1. <<t, store[t]>> \in Stored
        <5>1. store[t] \in 1..MaxPriced
          BY <2>5, ValuationAssumption DEF TypeInv, PriceType
        <5> QED BY <5>1 DEF Stored, Valuation
      <4>2. ~Silent(s, t)
        BY <2>2, <4>1 DEF Silent
      <4>3. PICK x \in 1..MaxPriced : Says(s, t, x)
        BY <4>2, LastAbout
      <4>4. x = store[t]
        BY <2>2, <4>3 DEF Says, Stored
      <4> QED BY <3>2, <4>3, <4>4, SaysConcat
    <3> QED BY <2>4, <3>1, <3>2
  <2> QED BY <1>1, <1>3, <2>3, <2>5 DEF Caught
<1> QED BY <1>2, <1>3

\* What a handler yields the reader keeps, as the end of a history.
LEMMA CaughtYield ==
    ASSUME TypeInv, TypeInv', AllCaught, NEW c \in Conn, Yield(c)
    PROVE  AllCaught'
<1>1. conn[c] = "streaming" /\ store' = store /\ current' = current /\ link' = link
  BY DEF Yield, pricing
<1>2. \/ /\ snap[c] # <<>> /\ snap' = [snap EXCEPT ![c] = Tail(@)] /\ inbox' = inbox
      \/ /\ snap[c] = <<>> /\ inbox[c] # <<>>
         /\ inbox' = [inbox EXCEPT ![c] = Tail(@)] /\ snap' = snap
  BY DEF Yield
<1>3. PICK s \in Seq(Valuation), q \in Seq(Valuation), all \in Seq(Valuation) :
            /\ s = snap[c] /\ q = inbox[c] /\ all = s \o q /\ all = Coming(c)
  <2>1. snap[c] \in Seq(Valuation) /\ inbox[c] \in Seq(Valuation)
    BY DEF TypeInv, StreamType
  <2> QED BY <2>1, ConcatProperties DEF Coming
<1>4. CASE link # c
  <2>1. history' = history /\ conn' = [conn EXCEPT ![c] = "ending"]
    BY <1>4 DEF Yield
  <2>2. link # NoConn => link \in Conn
    BY DEF TypeInv, StreamType
  <2>3. link # NoConn => /\ conn'[link] = conn[link] /\ snap'[link] = snap[link]
                         /\ inbox'[link] = inbox[link]
    BY <1>2, <1>4, <2>1, <2>2 DEF TypeInv, StreamType
  <2> QED BY <1>1, <2>1, <2>3, CaughtUntouched DEF Untouched
<1>5. CASE link = c
  <2>0. c # NoConn
    BY ValuationAssumption
  <2>1. all # <<>> /\ Coming(c)' = Tail(all)
    <3>1. CASE s # <<>> /\ snap' = [snap EXCEPT ![c] = Tail(@)] /\ inbox' = inbox
      <4>1. s \o q # <<>> /\ Tail(s \o q) = Tail(s) \o q
        BY <3>1
      <4>2. snap'[c] = Tail(s) /\ inbox'[c] = q
        BY <1>3, <3>1 DEF TypeInv, StreamType
      <4> QED BY <1>3, <4>1, <4>2 DEF Coming
    <3>2. CASE s = <<>> /\ q # <<>> /\ inbox' = [inbox EXCEPT ![c] = Tail(@)] /\ snap' = snap
      <4>1. s \o q = q /\ <<>> \o Tail(q) = Tail(q)
        BY <3>2
      <4>2. snap'[c] = <<>> /\ inbox'[c] = Tail(q)
        BY <1>3, <3>2 DEF TypeInv, StreamType
      <4> QED BY <1>3, <3>2, <4>1, <4>2 DEF Coming
    <3> QED BY <1>2, <1>3, <3>1, <3>2
  <2>2. PICK v \in Valuation, rest \in Seq(Valuation) : v = Head(all) /\ rest = Tail(all)
    BY <2>1, HeadTailProperties
  <2>3. history' = [history EXCEPT ![v[1]] = KeepLast(Append(@, v[2]))] /\ conn' = conn
    BY <1>3, <1>5, <2>2 DEF Yield
  <2>4. v[1] \in Trade /\ v[2] \in 1..MaxPriced
    BY DEF Valuation
  <2>5. /\ Latest(v[1])' = v[2]
        /\ \A t \in Trade : t # v[1] => Latest(t)' = Latest(t)
    <3>1. PICK h \in Seq(1..MaxPriced) : h = history[v[1]]
      BY <2>4 DEF TypeInv, StreamType
    <3>2. /\ KeepLast(Append(h, v[2])) # <<>>
          /\ Last(KeepLast(Append(h, v[2]))) = v[2]
      <4>1. PICK x \in 1..MaxPriced : x = v[2]
        BY <2>4
      <4>2. /\ KeepLast(Append(h, x)) # <<>>
            /\ Last(KeepLast(Append(h, x))) = x
        BY KeepLastEffect
      <4> QED BY <4>1, <4>2, Zenon
    <3>3. history'[v[1]] = KeepLast(Append(h, v[2]))
      BY <2>3, <2>4, <3>1 DEF TypeInv, StreamType
    <3>4. \A t \in Trade : t # v[1] => history'[t] = history[t]
      BY <2>3 DEF TypeInv, StreamType
    <3> QED BY <3>2, <3>3, <3>4 DEF Latest
  <2> SUFFICES ASSUME NEW t \in Trade, t # current, store[t] # 0
               PROVE  \/ Says(rest, t, store[t])
                      \/ Silent(rest, t) /\ Latest(t)' = store[t]
    BY <1>1, <1>5, <2>1, <2>2, <2>3 DEF AllCaught, Caught
  <2>6. Says(all, t, store[t]) \/ (Silent(all, t) /\ Latest(t) = store[t])
    BY <1>1, <1>3, <1>5, <2>0 DEF AllCaught, Caught
  <2>7. /\ Says(rest, t, store[t]) <=> (Says(all, t, store[t]) /\ ~Silent(rest, t))
        /\ Silent(all, t) <=> (Silent(rest, t) /\ v[1] # t)
        /\ Silent(rest, t) /\ v[1] = t => Says(all, t, v[2])
    BY <2>1, <2>2, SaysTail
  <2>8. CASE Silent(rest, t) /\ v[1] = t
    <3>1. Says(all, t, v[2]) /\ Says(all, t, store[t])
      BY <2>6, <2>7, <2>8
    <3>2. v[2] = store[t]
      BY <3>1, LastAbout
    <3> QED BY <2>5, <2>8, <3>2
  <2>9. CASE Silent(rest, t) /\ v[1] # t
    <3>1. Silent(all, t)
      BY <2>7, <2>9
    <3>2. Latest(t) = store[t]
      BY <2>6, <3>1, LastAbout
    <3> QED BY <2>5, <2>9, <3>2
  <2>10. CASE ~Silent(rest, t)
    <3>1. Says(all, t, store[t])
      BY <2>6, <2>7, <2>10
    <3> QED BY <2>7, <2>10, <3>1
  <2> QED BY <2>8, <2>9, <2>10
<1> QED BY <1>4, <1>5

\* Every step leaves all but the current trade caught.
LEMMA CaughtNext == TypeInv /\ TypeInv' /\ AllCaught /\ [Next]_vars => AllCaught'
<1> SUFFICES ASSUME TypeInv, TypeInv', AllCaught, [Next]_vars PROVE AllCaught'
  OBVIOUS
<1>1. ASSUME NEW c \in Conn, Connect(c) PROVE AllCaught'
  <2>1. /\ conn[c] = "new" /\ conn' = [conn EXCEPT ![c] = "registered"] /\ link' = c
        /\ inbox' = inbox
    BY <1>1 DEF Connect
  <2>2. conn'[c] = "registered" /\ inbox'[c] = <<>>
    BY <2>1 DEF TypeInv, StreamType
  <2>3. \A t \in Trade : Silent(<<>>, t)
    BY DEF Silent
  <2> QED BY <2>1, <2>2, <2>3 DEF AllCaught, Caught
<1>2. ASSUME NEW c \in Conn, Unsubscribe(c) PROVE AllCaught'
  <2>1. /\ conn[c] = "ending" /\ conn' = [conn EXCEPT ![c] = "gone"]
        /\ UNCHANGED <<store, current, link, history, snap, inbox>>
    BY <1>2 DEF Unsubscribe, pricing, reading
  <2>2. link # NoConn => link # c /\ conn'[link] = conn[link]
    BY <2>1 DEF TypeInv, StreamType
  <2> QED BY <2>1, <2>2, CaughtUntouched DEF Untouched
<1>3. CASE Drop \/ RestartPricing \/ RestartBlotter
  <2>1. link' = NoConn
    BY <1>3 DEF Drop, RestartPricing, RestartBlotter
  <2> QED BY <2>1 DEF AllCaught
<1>4. ASSUME \/ \E t \in Trade : Open(t) \/ Close(t) \/ SkipTrade(t)
             \/ Refresher \/ FeedThread \/ FeedOpened \/ FeedRefused \/ FeedLost
             \/ \E s \in Symbol : TakeTick(s)
             \/ SaveValuation
      PROVE  UNCHANGED <<store, current, streaming, reading>>
  <2>1. CASE \E t \in Trade : Open(t) \/ Close(t)
    BY <2>1 DEF Open, Close, pricing
  <2>2. CASE Refresher
    BY <2>2 DEF Refresher, ReloadQuery, ReloadSwap, pricing
  <2>3. CASE FeedThread \/ FeedOpened \/ FeedRefused \/ FeedLost
    <3>1. FeedUnchanged
      BY <2>3 DEF FeedThread, FeedStart, FeedConnect, FeedExcept, FeedOpened, FeedRefused, FeedLost
    <3> QED BY <3>1 DEF FeedUnchanged, work
  <2>4. CASE (\E s \in Symbol : TakeTick(s)) \/ (\E t \in Trade : SkipTrade(t)) \/ SaveValuation
    BY <2>4 DEF TakeTick, SkipTrade, SaveValuation
  <2> QED BY <1>4, <2>1, <2>2, <2>3, <2>4
<1>5. CASE UNCHANGED <<store, current, streaming, reading>>
  BY <1>5, CaughtUntouched DEF Untouched, streaming, reading
<1>6. CASE UNCHANGED vars
  BY <1>5, <1>6 DEF vars, streaming, reading
<1> QED BY <1>1, <1>2, <1>3, <1>4, <1>5, <1>6,
           CaughtStore, CaughtPublish, CaughtSnapshot, CaughtYield
        DEF Next, PricingThread, PriceTrade, StreamThread

\* While the blotter reads a /valuation-stream, it shows of every trade, once
\* it has read what is on its way, the valuation in the pricing store: nothing
\* stored between the registration of its queue, the copy of the store and the
\* publication is lost, in whatever order threads, lost connections and
\* restarts take turns.
THEOREM BlotterMissesNothing == Spec => []NothingMissed
<1>1. Init => AllCaught
  BY DEF Init, AllCaught
<1> QED BY <1>1, CaughtIsShown, CaughtNext, TypeInduction, PTL DEF Spec
=============================================================================
