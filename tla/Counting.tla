------------------------------ MODULE Counting ------------------------------
(***************************************************************************)
(* How many elements of a sequence are in a set, after what the code does  *)
(* to its queues: get (Tail), put (Append), appendleft and the batches it  *)
(* sends (\o).  Facts that several proofs cite; no module of the model     *)
(* uses this one.                                                          *)
(***************************************************************************)
EXTENDS Integers, Sequences, FiniteSetTheorems, SequenceTheorems, WellFoundedInduction, TLAPS

Positions(s, X) == {i \in DOMAIN s : s[i] \in X}
Count(s, X) == Cardinality(Positions(s, X))

\* A count is a number, and no greater than the length.
LEMMA CountType ==
    ASSUME NEW S, NEW s \in Seq(S), NEW X
    PROVE  /\ IsFiniteSet(Positions(s, X)) /\ Count(s, X) \in Nat
           /\ Count(s, X) <= Len(s)
<1>0. Len(s) \in Nat /\ 1 \in Int /\ Len(s) \in Int
  OBVIOUS
<1>1. IsFiniteSet(1..Len(s)) /\ Cardinality(1..Len(s)) = Len(s)
  <2>1. Cardinality(1..Len(s)) = IF 1 > Len(s) THEN 0 ELSE Len(s) - 1 + 1
    BY <1>0, FS_Interval
  <2>2. Cardinality(1..Len(s)) = Len(s)
    BY <1>0, <2>1
  <2> QED BY <1>0, <2>2, FS_Interval
<1>2. Positions(s, X) \in SUBSET (1..Len(s))
  BY DEF Positions
<1> QED BY <1>1, <1>2, FS_Subset, FS_CardinalityType DEF Count

\* A set that can be moved into another one is no larger.
LEMMA Moved ==
    ASSUME NEW I, NEW J, IsFiniteSet(J), NEW f \in [I -> J],
           \A i, j \in I : f[i] = f[j] => i = j
    PROVE  IsFiniteSet(I) /\ Cardinality(I) <= Cardinality(J)
           /\ Cardinality(I) \in Nat /\ Cardinality(J) \in Nat
<1>1. f \in Injection(I, J)
  BY DEF Injection, IsInjective
<1> QED BY <1>1, FS_Injection, FS_CardinalityType

\* The elements of s \o t are those of s and those of t.
LEMMA CountConcat ==
    ASSUME NEW S, NEW s \in Seq(S), NEW t \in Seq(S), NEW X
    PROVE  Count(s \o t, X) = Count(s, X) + Count(t, X)
<1> DEFINE I == Positions(s, X)
           J == Positions(t, X)
           K == Positions(s \o t, X)
           L == K \ I
<1>0. /\ Len(s) \in Nat /\ Len(t) \in Nat /\ s \o t \in Seq(S)
      /\ Len(s \o t) = Len(s) + Len(t)
      /\ \A i \in 1..Len(s) : (s \o t)[i] = s[i]
      /\ \A i \in 1..Len(t) : (s \o t)[i + Len(s)] = t[i]
  OBVIOUS
<1>1. IsFiniteSet(I) /\ IsFiniteSet(J) /\ IsFiniteSet(K)
      /\ Cardinality(I) \in Nat /\ Cardinality(J) \in Nat
  BY <1>0, CountType DEF Count
<1>2. I \subseteq K
  BY <1>0 DEF Positions
<1>3. IsFiniteSet(L)
  BY <1>1, FS_Difference
<1>4. \A i \in L : i - Len(s) \in J
  <2> SUFFICES ASSUME NEW i \in L PROVE i - Len(s) \in J
    OBVIOUS
  <2>1. i \in 1..(Len(s) + Len(t)) /\ (s \o t)[i] \in X /\ i \notin I
    BY <1>0 DEF Positions
  <2>2. i \notin 1..Len(s)
    BY <1>0, <2>1 DEF Positions
  <2>3. i - Len(s) \in 1..Len(t) /\ i = (i - Len(s)) + Len(s)
    BY <1>0, <2>1, <2>2
  <2>4. t[i - Len(s)] \in X
    BY <1>0, <2>1, <2>3
  <2> QED BY <2>3, <2>4 DEF Positions
<1>5. \A j \in J : j + Len(s) \in L
  BY <1>0 DEF Positions
<1>6. Cardinality(L) <= Cardinality(J)
  <2>1. \A i \in L : i \in Nat
    BY <1>0 DEF Positions
  <2>2. [i \in L |-> i - Len(s)] \in [L -> J]
    BY <1>4
  <2>3. \A i, j \in L : [k \in L |-> k - Len(s)][i] = [k \in L |-> k - Len(s)][j] => i = j
    BY <1>0, <2>1
  <2> QED BY <1>1, <2>2, <2>3, Moved
<1>7. Cardinality(J) <= Cardinality(L)
  <2>1. \A i \in J : i \in Nat
    BY DEF Positions
  <2>2. [j \in J |-> j + Len(s)] \in [J -> L]
    BY <1>5
  <2>3. \A i, j \in J : [k \in J |-> k + Len(s)][i] = [k \in J |-> k + Len(s)][j] => i = j
    BY <1>0, <2>1
  <2> QED BY <1>3, <2>2, <2>3, Moved
<1>8. Cardinality(L) = Cardinality(K) - Cardinality(I)
  <2>1. K \cap I = I
    BY <1>2
  <2> QED BY <1>1, <2>1, FS_Difference
<1>9. Cardinality(K) \in Nat /\ Cardinality(L) \in Nat
  BY <1>1, <1>3, FS_CardinalityType
<1> HIDE DEF I, J, K, L
<1>10. Cardinality(K) = Cardinality(I) + Cardinality(J)
  BY <1>1, <1>6, <1>7, <1>8, <1>9
<1> QED BY <1>10 DEF Count, I, J, K

\* A sequence of one.
LEMMA CountOne ==
    ASSUME NEW S, NEW e \in S, NEW X
    PROVE  /\ Count(<<e>>, X) = IF e \in X THEN 1 ELSE 0
           /\ <<e>> \in Seq(S)
<1>1. Positions(<<e>>, X) = IF e \in X THEN {1} ELSE {}
  BY DEF Positions
<1> QED BY <1>1, FS_Singleton, FS_EmptySet DEF Count

\* Nothing is in the empty sequence.
LEMMA CountEmpty == ASSUME NEW X PROVE Count(<<>>, X) = 0
<1>1. Positions(<<>>, X) = {}
  BY DEF Positions
<1> QED BY <1>1, FS_EmptySet DEF Count

\* put
LEMMA CountAppend ==
    ASSUME NEW S, NEW s \in Seq(S), NEW e \in S, NEW X
    PROVE  Count(Append(s, e), X) = Count(s, X) + (IF e \in X THEN 1 ELSE 0)
<1>1. Append(s, e) = s \o <<e>>
  OBVIOUS
<1>2. Count(s \o <<e>>, X) = Count(s, X) + Count(<<e>>, X)
  <2>1. <<e>> \in Seq(S)
    OBVIOUS
  <2>2. PICK t \in Seq(S) : t = <<e>>
    BY <2>1
  <2> QED BY <2>2, CountConcat
<1>3. Count(<<e>>, X) = IF e \in X THEN 1 ELSE 0
  BY CountOne
<1> QED BY <1>1, <1>2, <1>3, Zenon

\* appendleft
LEMMA CountPrepend ==
    ASSUME NEW S, NEW s \in Seq(S), NEW e \in S, NEW X
    PROVE  Count(<<e>> \o s, X) = Count(s, X) + (IF e \in X THEN 1 ELSE 0)
<1>1. Count(<<e>> \o s, X) = Count(<<e>>, X) + Count(s, X)
  <2>1. <<e>> \in Seq(S)
    OBVIOUS
  <2>2. PICK t \in Seq(S) : t = <<e>>
    BY <2>1
  <2> QED BY <2>2, CountConcat
<1>2. Count(<<e>>, X) = IF e \in X THEN 1 ELSE 0
  BY CountOne
<1>3. PICK a \in Nat, b \in Nat : a = Count(<<e>>, X) /\ b = Count(s, X)
  BY CountType, CountOne
<1> QED BY <1>1, <1>2, <1>3

\* get
LEMMA CountTail ==
    ASSUME NEW S, NEW s \in Seq(S), s # <<>>, NEW X
    PROVE  /\ Tail(s) \in Seq(S) /\ Head(s) \in S
           /\ Count(s, X) = Count(Tail(s), X) + (IF Head(s) \in X THEN 1 ELSE 0)
<1>1. s = <<Head(s)>> \o Tail(s) /\ Tail(s) \in Seq(S) /\ Head(s) \in S
  OBVIOUS
<1>2. Count(<<Head(s)>> \o Tail(s), X)
        = Count(Tail(s), X) + (IF Head(s) \in X THEN 1 ELSE 0)
  BY <1>1, CountPrepend
<1> QED BY <1>1, <1>2, Zenon

\* A part of a sequence, from its beginning.
LEMMA CountPrefix ==
    ASSUME NEW S, NEW s \in Seq(S), NEW n \in 0..Len(s), NEW X
    PROVE  SubSeq(s, 1, n) \in Seq(S) /\ Count(SubSeq(s, 1, n), X) <= Count(s, X)
<1>1. /\ SubSeq(s, 1, n) \in Seq(S) /\ Len(SubSeq(s, 1, n)) = n
      /\ \A i \in 1..n : SubSeq(s, 1, n)[i] = s[i]
  OBVIOUS
<1>2. Positions(SubSeq(s, 1, n), X) \in SUBSET Positions(s, X)
  BY <1>1 DEF Positions
<1> QED BY <1>1, <1>2, CountType, FS_Subset DEF Count

\* pop
LEMMA CountFront ==
    ASSUME NEW S, NEW s \in Seq(S), s # <<>>, NEW X
    PROVE  /\ SubSeq(s, 1, Len(s) - 1) \in Seq(S) /\ s[Len(s)] \in S
           /\ Count(s, X) = Count(SubSeq(s, 1, Len(s) - 1), X)
                            + (IF s[Len(s)] \in X THEN 1 ELSE 0)
<1>1. PICK n \in Nat : n = Len(s) - 1 /\ Len(s) = n + 1 /\ n \in 0..Len(s)
  <2>1. PICK k \in Nat : k = Len(s) /\ k # 0
    BY LenProperties, EmptySeq
  <2>2. k - 1 \in Nat /\ k = (k - 1) + 1 /\ k - 1 \in 0..k
    BY <2>1
  <2> QED BY <2>1, <2>2
<1>2. PICK t \in Seq(S) : t = SubSeq(s, 1, n)
  BY <1>1, CountPrefix
<1>3. PICK e \in S : e = s[Len(s)]
  BY <1>1
<1>4. s = Append(t, e)
  <2>1. Len(t) = n /\ \A i \in 1..n : t[i] = s[i]
    BY <1>1, <1>2
  <2>2. Len(Append(t, e)) = n + 1 /\ Append(t, e) \in Seq(S)
        /\ Append(t, e)[n + 1] = e /\ \A i \in 1..n : Append(t, e)[i] = t[i]
    BY <2>1
  <2>3. \A i \in 1..(n + 1) : s[i] = Append(t, e)[i]
    BY <1>1, <1>3, <2>1, <2>2
  <2> QED BY <1>1, <2>2, <2>3, SeqEqual
<1>5. Count(Append(t, e), X) = Count(t, X) + (IF e \in X THEN 1 ELSE 0)
  BY CountAppend
<1> QED BY <1>1, <1>2, <1>3, <1>4, <1>5, Zenon

\* An element is replaced.
LEMMA CountReplace ==
    ASSUME NEW S, NEW s \in Seq(S), NEW i \in DOMAIN s, NEW e \in S, NEW X
    PROVE  /\ [s EXCEPT ![i] = e] \in Seq(S) /\ Len([s EXCEPT ![i] = e]) = Len(s)
           /\ Count(s, X) <= Count([s EXCEPT ![i] = e], X) + (IF s[i] \in X THEN 1 ELSE 0)
<1>1. PICK t \in Seq(S) : t = [s EXCEPT ![i] = e] /\ Len(t) = Len(s)
                          /\ \A j \in DOMAIN s : j # i => t[j] = s[j]
  <2>1. [s EXCEPT ![i] = e] \in Seq(S) /\ Len([s EXCEPT ![i] = e]) = Len(s)
    BY ExceptSeq
  <2> QED BY <2>1
<1>2. /\ IsFiniteSet(Positions(s, X)) /\ IsFiniteSet(Positions(t, X))
      /\ Count(s, X) \in Nat /\ Count(t, X) \in Nat
  BY CountType
<1>3. CASE s[i] \in X
  <2>1. Positions(s, X) \subseteq Positions(t, X) \cup {i}
    BY <1>1 DEF Positions
  <2>2. IsFiniteSet(Positions(t, X) \cup {i})
        /\ (Cardinality(Positions(t, X) \cup {i}) = Count(t, X)
            \/ Cardinality(Positions(t, X) \cup {i}) = Count(t, X) + 1)
    BY <1>2, FS_AddElement DEF Count
  <2>3. Count(s, X) <= Cardinality(Positions(t, X) \cup {i})
    BY <2>1, <2>2, FS_Subset DEF Count
  <2> QED BY <1>1, <1>2, <1>3, <2>2, <2>3
<1>4. CASE s[i] \notin X
  <2>1. Positions(s, X) \subseteq Positions(t, X)
    BY <1>1, <1>4 DEF Positions
  <2>2. Count(s, X) <= Count(t, X)
    BY <1>2, <2>1, FS_Subset DEF Count
  <2> QED BY <1>1, <1>2, <1>4, <2>2
<1> QED BY <1>3, <1>4

\* A set of numbers has a least one, and the positions of a sequence a first.
LEMMA LeastNumber ==
    ASSUME NEW P \in SUBSET Nat, P # {}
    PROVE  \E i \in P : \A j \in P : i <= j
<1>1. PICK R : R = OpToRel(<, Nat)
  OBVIOUS
<1>2. IsWellFoundedOn(R, Nat)
  BY <1>1, NatLessThanWellFounded
<1>3. PICK i \in P : \A j \in P : <<j, i>> \notin R
  BY <1>2, WFMin
<1>4. \A j \in P : ~(j < i)
  BY <1>1, <1>3 DEF OpToRel
<1> QED BY <1>4

\* A set of positions of a sequence has a first one.
LEMMA FirstPosition ==
    ASSUME NEW S, NEW s \in Seq(S), NEW P \in SUBSET (DOMAIN s), P # {}
    PROVE  \E i \in P : \A j \in P : i <= j
<1>1. P \in SUBSET Nat
  OBVIOUS
<1> QED BY <1>1, LeastNumber
=============================================================================
