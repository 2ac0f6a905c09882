--------------------------- MODULE Counting_proofs ---------------------------
(* What a queue operation does to the number of occurrences of a value.    *)
EXTENDS Counting, FunctionTheorems, FiniteSetTheorems, SequenceTheorems, TLAPS

LEMMA OccurrencesType ==
  ASSUME NEW T, NEW s \in Seq(T), NEW x
  PROVE  /\ Occurrences(x, s) \in Nat
         /\ IsFiniteSet({i \in DOMAIN s : s[i] = x})
<1>1. Len(s) \in Nat /\ DOMAIN s = 1..Len(s)
  BY LenProperties
<1>2. IsFiniteSet(DOMAIN s)
  BY <1>1, FS_Interval
<1>3. IsFiniteSet({i \in DOMAIN s : s[i] = x})
  BY <1>2, FS_Subset
<1> QED
  BY <1>3, FS_CardinalityType DEF Occurrences

LEMMA OccurrencesEmpty == \A x : Occurrences(x, <<>>) = 0
<1> SUFFICES ASSUME NEW x PROVE Occurrences(x, <<>>) = 0
  OBVIOUS
<1>1. {i \in DOMAIN <<>> : <<>>[i] = x} = {}
  OBVIOUS
<1> QED
  BY <1>1, FS_EmptySet DEF Occurrences

LEMMA OccurrencesAppend ==
  ASSUME NEW T, NEW s \in Seq(T), NEW e \in T, NEW x
  PROVE  Occurrences(x, Append(s, e)) = Occurrences(x, s) + (IF e = x THEN 1 ELSE 0)
<1> DEFINE n == Len(s)
           a == Append(s, e)
           S == {i \in DOMAIN s : s[i] = x}
           A == {i \in DOMAIN a : a[i] = x}
<1>1. /\ n \in Nat /\ DOMAIN s = 1..n /\ DOMAIN a = 1..(n + 1)
      /\ \A i \in 1..n : a[i] = s[i]
      /\ a[n + 1] = e
  <2>1. a \in Seq(T) /\ Len(a) = n + 1 BY AppendProperties
  <2> QED BY <2>1, AppendProperties, LenProperties
<1>2. IsFiniteSet(S) /\ Cardinality(S) \in Nat
  BY OccurrencesType, FS_CardinalityType
<1> HIDE DEF n, a
<1>3. n + 1 \notin S
  BY <1>1
<1>4. CASE e = x
  <2>1. ASSUME NEW i PROVE i \in A <=> i \in S \cup {n + 1}
    BY <1>1, <1>4
  <2>2. A = S \cup {n + 1}
    <3> HIDE DEF A, S
    <3> QED BY <2>1
  <2>3. Cardinality(A) = Cardinality(S) + 1
    <3> HIDE DEF A, S
    <3> QED BY <1>2, <1>3, <2>2, FS_AddElement
  <2> QED BY <1>4, <2>3 DEF Occurrences, a
<1>5. CASE e # x
  <2>1. A = S BY <1>1, <1>5
  <2>2. Cardinality(A) = Cardinality(S) + 0
    <3> HIDE DEF A, S
    <3> QED BY <1>2, <2>1
  <2> QED BY <1>5, <2>2 DEF Occurrences, a
<1> QED
  BY <1>4, <1>5

LEMMA OccurrencesTail ==
  ASSUME NEW T, NEW s \in Seq(T), s # <<>>, NEW x
  PROVE  Occurrences(x, s) = Occurrences(x, Tail(s)) + (IF Head(s) = x THEN 1 ELSE 0)
<1> DEFINE n == Len(s)
           t == Tail(s)
           S == {i \in DOMAIN s : s[i] = x}
           R == {i \in DOMAIN t : t[i] = x}
           U == S \ {1}
           f == [i \in R |-> i + 1]
<1>1. /\ n \in Nat \ {0} /\ DOMAIN s = 1..n /\ DOMAIN t = 1..(n - 1)
      /\ \A i \in 1..(n - 1) : t[i] = s[i + 1]
      /\ Head(s) = s[1] /\ t \in Seq(T)
  <2>1. n \in Nat \ {0} /\ DOMAIN s = 1..n
    BY EmptySeq, LenProperties
  <2>2. t \in Seq(T) /\ Len(t) = n - 1 /\ \A i \in 1..Len(t) : t[i] = s[i + 1]
    BY HeadTailProperties
  <2>3. DOMAIN t = 1..Len(t)
    BY <2>2, LenProperties
  <2>4. Head(s) = s[1]
    OBVIOUS
  <2> QED BY <2>1, <2>2, <2>3, <2>4
<1>2. IsFiniteSet(S) /\ Cardinality(S) \in Nat /\ IsFiniteSet(R) /\ Cardinality(R) \in Nat
  <2>1. IsFiniteSet(S)
    BY OccurrencesType
  <2>2. IsFiniteSet(R)
    BY <1>1, OccurrencesType
  <2> HIDE DEF S, R
  <2> QED BY <2>1, <2>2, FS_CardinalityType
<1>3. Cardinality(U) = Cardinality(R)
  <2> HIDE DEF n, t
  <2>1. f \in [R -> U]
    <3> SUFFICES ASSUME NEW i \in R PROVE i + 1 \in U
      OBVIOUS
    <3> QED BY <1>1
  <2>2. \A i, k \in R : f[i] = f[k] => i = k
    BY <1>1
  <2>3. \A k \in U : \E i \in R : f[i] = k
    <3> SUFFICES ASSUME NEW k \in U PROVE \E i \in R : f[i] = k
      OBVIOUS
    <3>1. k \in 1..n /\ k # 1 /\ s[k] = x BY <1>1
    <3>2. k - 1 \in 1..(n - 1) /\ (k - 1) + 1 = k BY <1>1, <3>1
    <3>3. k - 1 \in R BY <1>1, <3>1, <3>2
    <3> QED BY <3>2, <3>3
  <2>4. ExistsBijection(R, U)
    <3> HIDE DEF f, R, U
    <3> QED BY <2>1, <2>2, <2>3, Fun_IsBij DEF ExistsBijection
  <2> QED BY <1>2, <2>4, FS_Bijection
<1>4. Cardinality(U) = IF 1 \in S THEN Cardinality(S) - 1 ELSE Cardinality(S)
  BY <1>2, FS_RemoveElement
<1>5. 1 \in S <=> Head(s) = x
  BY <1>1
<1> HIDE DEF S, R, U
<1>6. Cardinality(S) = Cardinality(R) + (IF Head(s) = x THEN 1 ELSE 0)
  BY <1>2, <1>3, <1>4, <1>5
<1> QED
  BY <1>6 DEF Occurrences, S, R
=============================================================================
