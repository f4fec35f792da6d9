-------------------------- MODULE SequenceLemmas --------------------------
(***************************************************************************)
(* Facts about numbers, finite sets of numbers and sequences that the      *)
(* proofs about several components need: what Max, Min and RemoveAt of the *)
(* community modules return, and that the elements of a finite set of      *)
(* numbers can be counted off in order.                                    *)
(***************************************************************************)
EXTENDS Integers, Sequences, SequencesExt, SequenceTheorems, FiniteSetTheorems,
        WellFoundedInduction, TLAPS

-----------------------------------------------------------------------------
(* Numbers. *)

\* The larger of two integers bounds both.
LEMMA MaxOfTwo ==
    ASSUME NEW a \in Int, NEW b \in Int
    PROVE  Max({a, b}) \in {a, b} /\ Max({a, b}) >= a /\ Max({a, b}) >= b
  <1>1. \E x \in {a, b} : \A y \in {a, b} : x >= y
    OBVIOUS
  <1>2. /\ Max({a, b}) \in {a, b}
        /\ \A y \in {a, b} : Max({a, b}) >= y
    BY <1>1, Zenon DEF Max
  <1> QED
    BY <1>2

\* A non-empty set of naturals has a minimum, and Min finds it.
LEMMA MinOfNaturals ==
    ASSUME NEW S, S \subseteq Nat, S # {}
    PROVE  Min(S) \in S /\ \A y \in S : Min(S) <= y
  <1>1. \E x \in S : \A y \in S : ~(<<y, x>> \in OpToRel(<, Nat))
    BY NatLessThanWellFounded, WFMin, Zenon
  <1>2. PICK x \in S : \A y \in S : ~(<<y, x>> \in OpToRel(<, Nat))
    BY <1>1, Zenon
  <1>3. \A y \in S : x <= y
    <2>1. \A y, z \in Nat : y < z => <<y, z>> \in OpToRel(<, Nat)
      BY Zenon DEF OpToRel
    <2>2. \A y \in S : ~(y < x)
      BY <1>2, <2>1, Zenon
    <2> QED
      BY <2>2
  <1>4. \E z \in S : \A y \in S : z <= y
    BY <1>3
  <1> QED
    BY <1>4, Zenon DEF Min

\* The greatest number of a non-empty interval is its upper end.
LEMMA MaxOfInterval ==
    ASSUME NEW a \in Int, NEW b \in Int, a <= b
    PROVE  Max(a..b) = b
  <1>1. b \in a..b /\ \A y \in a..b : b >= y
    OBVIOUS
  <1>2. Max(a..b) \in a..b /\ \A y \in a..b : Max(a..b) >= y
    BY <1>1, Zenon DEF Max
  <1> QED
    BY <1>1, <1>2

\* The smaller of two integers.
LEMMA MinOfTwo ==
    ASSUME NEW a \in Int, NEW b \in Int
    PROVE  Min({a, b}) \in {a, b} /\ Min({a, b}) <= a /\ Min({a, b}) <= b
  <1>1. \E x \in {a, b} : \A y \in {a, b} : x <= y
    OBVIOUS
  <1>2. /\ Min({a, b}) \in {a, b}
        /\ \A y \in {a, b} : Min({a, b}) <= y
    BY <1>1, Zenon DEF Min
  <1> QED
    BY <1>2

\* In a finite set of numbers there is an n-th smallest one, for every n up to
\* the size of the set.
LEMMA NthExists ==
    ASSUME NEW S, S \subseteq Nat, IsFiniteSet(S), NEW n \in 1..Cardinality(S)
    PROVE  \E i \in S : Cardinality({j \in S : j <= i}) = n
  <1> DEFINE UpTo(i) == {j \in S : j <= i}
             Bad == {m \in 1..Cardinality(S) : ~\E i \in S : Cardinality(UpTo(i)) = m}
  <1> SUFFICES ASSUME Bad # {} PROVE FALSE
    OBVIOUS
  <1>1. Cardinality(S) \in Nat /\ Bad \subseteq Nat
    BY FS_CardinalityType
  <1> DEFINE m == Min(Bad)
  <1>2. m \in Bad /\ \A k \in Bad : m <= k
    BY <1>1, MinOfNaturals
  <1>3. m \in 1..Cardinality(S) /\ ~\E i \in S : Cardinality(UpTo(i)) = m
    BY <1>2
  <1> HIDE DEF m, Bad
  <1>4. \A i \in S : IsFiniteSet(UpTo(i)) /\ Cardinality(UpTo(i)) \in Nat
    BY FS_Subset, FS_CardinalityType
  <1>5. CASE m = 1
    <2>1. S # {}
      BY <1>1, <1>3, FS_EmptySet
    <2>2. \E a \in S : \A y \in S : a <= y
      BY <2>1, MinOfNaturals
    <2> PICK a \in S : \A y \in S : a <= y
      BY <2>2
    <2>3. UpTo(a) = {a}
      <3>1. a \in UpTo(a)
        OBVIOUS
      <3>2. \A y \in UpTo(a) : y = a
        OBVIOUS
      <3> QED
        BY <3>1, <3>2, Zenon
    <2>4. Cardinality(UpTo(a)) = 1
      BY <2>3, FS_Singleton
    <2> QED
      BY <1>3, <1>5, <2>4
  <1>6. CASE m # 1
    <2>1. m - 1 \in 1..Cardinality(S) /\ m - 1 \notin Bad
      BY <1>1, <1>2, <1>3, <1>6
    <2>2. PICK i \in S : Cardinality(UpTo(i)) = m - 1
      BY <2>1 DEF Bad
    <2> DEFINE T == {j \in S : ~(j <= i)}
    <2>3. T # {}
      <3> SUFFICES ASSUME T = {} PROVE FALSE
        OBVIOUS
      <3>1. UpTo(i) = S
        OBVIOUS
      <3>2. Cardinality(S) = m - 1
        BY <2>2, <3>1, Zenon
      <3> QED
        BY <1>1, <1>3, <3>2
    <2>4. Min(T) \in T /\ \A y \in T : Min(T) <= y
      BY <2>3, MinOfNaturals
    <2> DEFINE k == Min(T)
    <2>5. k \in S /\ k \in Nat /\ i \in Nat /\ ~(k <= i) /\ \A y \in T : k <= y
      BY <2>4
    <2> HIDE DEF k
    <2>6. UpTo(k) = UpTo(i) \union {k}
      <3>1. \A y \in UpTo(k) : y \in UpTo(i) \/ y = k
        BY <2>5
      <3>2. \A y \in UpTo(i) : y \in UpTo(k)
        BY <2>5
      <3>3. k \in UpTo(k)
        BY <2>5
      <3> HIDE DEF UpTo
      <3> QED
        BY <3>1, <3>2, <3>3
    <2>7. k \notin UpTo(i)
      BY <2>5
    <2>8. Cardinality(UpTo(i) \union {k}) = Cardinality(UpTo(i)) + 1
      BY <1>4, <2>7, FS_AddElement
    <2>9. Cardinality(UpTo(k)) = m
      <3>1. Cardinality(UpTo(k)) = Cardinality(UpTo(i)) + 1
        BY <2>6, <2>8, Zenon
      <3> QED
        BY <1>1, <1>3, <2>2, <3>1
    <2> QED
      BY <1>3, <2>5, <2>9
  <1> QED
    BY <1>5, <1>6

-----------------------------------------------------------------------------
(* Sequences. *)

\* RemoveAt closes the gap: it is d without position p, in the same order.
LEMMA RemoveAtFacts ==
    ASSUME NEW S, NEW d \in Seq(S), NEW p \in 1..Len(d)
    PROVE  /\ RemoveAt(d, p) \in Seq(S)
           /\ Len(RemoveAt(d, p)) = Len(d) - 1
           /\ \A i \in 1..(Len(d) - 1) :
                 RemoveAt(d, p)[i] = d[IF i < p THEN i ELSE i + 1]
  <1> DEFINE a == SubSeq(d, 1, p - 1)
             b == SubSeq(d, p + 1, Len(d))
  <1>0. Len(d) \in Nat /\ \A i \in 1..Len(d) : d[i] \in S
    BY ElementOfSeq, LenProperties
  <1>1. a \in Seq(S) /\ Len(a) = p - 1 /\ \A i \in 1..(p - 1) : a[i] = d[i]
    <2>1. 1 \in Int /\ p - 1 \in Int /\ \A i \in 1..(p - 1) : d[i] \in S
      BY <1>0
    <2> QED
      BY <1>0, <2>1, SubSeqProperties
  <1>2. b \in Seq(S) /\ Len(b) = Len(d) - p
        /\ \A i \in 1..(Len(d) - p) : b[i] = d[p + i]
    <2>1. p + 1 \in Int /\ Len(d) \in Int /\ \A i \in (p + 1)..Len(d) : d[i] \in S
      BY <1>0
    <2>2. /\ SubSeq(d, p + 1, Len(d)) \in Seq(S)
          /\ Len(SubSeq(d, p + 1, Len(d))) =
                IF p + 1 <= Len(d) THEN Len(d) - (p + 1) + 1 ELSE 0
          /\ \A i \in 1..(Len(d) - (p + 1) + 1) :
                SubSeq(d, p + 1, Len(d))[i] = d[p + 1 + i - 1]
      BY <2>1, SubSeqProperties
    <2> QED
      BY <1>0, <2>2
  <1> HIDE DEF a, b
  <1>3. /\ a \o b \in Seq(S)
        /\ Len(a \o b) = Len(a) + Len(b)
        /\ \A i \in 1..(Len(a) + Len(b)) :
              (a \o b)[i] = IF i <= Len(a) THEN a[i] ELSE b[i - Len(a)]
    BY <1>1, <1>2, ConcatProperties
  <1>4. RemoveAt(d, p) = a \o b
    BY DEF RemoveAt, a, b
  <1>5. ASSUME NEW i \in 1..(Len(d) - 1)
        PROVE  (a \o b)[i] = d[IF i < p THEN i ELSE i + 1]
    <2>1. CASE i < p
      BY <1>0, <1>1, <1>2, <1>3, <2>1
    <2>2. CASE i >= p
      <3>1. i - (p - 1) \in 1..(Len(d) - p) /\ p + (i - (p - 1)) = i + 1
        BY <1>0, <2>2
      <3>2. (a \o b)[i] = b[i - (p - 1)]
        BY <1>0, <1>1, <1>2, <1>3, <2>2
      <3>3. b[i - (p - 1)] = d[p + (i - (p - 1))]
        BY <1>2, <3>1
      <3>4. (IF i < p THEN i ELSE i + 1) = i + 1
        BY <1>0, <2>2
      <3> QED
        BY <3>1, <3>2, <3>3, <3>4
    <2>3. i < p \/ i >= p
      BY <1>0
    <2> QED
      BY <2>1, <2>2, <2>3, Zenon
  <1>6. Len(a \o b) = Len(d) - 1
    BY <1>0, <1>1, <1>2, <1>3
  <1> QED
    BY <1>3, <1>4, <1>5, <1>6, Zenon

=============================================================================
