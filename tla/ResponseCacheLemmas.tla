------------------------ MODULE ResponseCacheLemmas ------------------------
(***************************************************************************)
(* What the operations of ResponseCache do to the ordered dictionary, for  *)
(* every dictionary, key, reply and time.  The proofs about the modules    *)
(* that use the cache rest on these lemmas and not on the definitions.     *)
(***************************************************************************)
EXTENDS ResponseCache, SequenceLemmas

-----------------------------------------------------------------------------
(* The ordered dictionary. *)

Unique(d) == \A i, j \in DOMAIN d : i # j => d[i].key # d[j].key

\* Every entry of e is an entry of d.
Within(e, d) == \A i \in DOMAIN e : \E j \in DOMAIN d : e[i] = d[j]

\* A key that is present has a position.
LEMMA IndexOfFacts ==
    ASSUME NEW d, NEW k, Has(d, k)
    PROVE  IndexOf(d, k) \in DOMAIN d /\ d[IndexOf(d, k)].key = k
  BY Zenon DEF Has, IndexOf

\* del d[k] removes k, adds nothing, and keeps keys unique.
LEMMA WithoutFacts ==
    ASSUME NEW d \in Seq(Entry), NEW k
    PROVE  /\ Without(d, k) \in Seq(Entry)
           /\ Len(Without(d, k)) = IF Has(d, k) THEN Len(d) - 1 ELSE Len(d)
           /\ Within(Without(d, k), d)
           /\ Unique(d) => Unique(Without(d, k)) /\ ~Has(Without(d, k), k)
  <1>0. Len(d) \in Nat /\ DOMAIN d = 1..Len(d)
    BY LenProperties
  <1>1. CASE ~Has(d, k)
    <2>1. Without(d, k) = d
      BY <1>1 DEF Without
    <2>2. Within(d, d)
      BY Zenon DEF Within
    <2> QED
      BY <1>1, <2>1, <2>2
  <1>2. CASE Has(d, k)
    <2> DEFINE p == IndexOf(d, k)
               e == RemoveAt(d, p)
    <2>1. p \in 1..Len(d) /\ d[p].key = k
      BY <1>0, <1>2, IndexOfFacts
    <2>2. Without(d, k) = e
      BY <1>2 DEF Without
    <2> HIDE DEF p
    <2>3. /\ e \in Seq(Entry)
          /\ Len(e) = Len(d) - 1
          /\ \A i \in 1..(Len(d) - 1) : e[i] = d[IF i < p THEN i ELSE i + 1]
      BY <2>1, RemoveAtFacts
    <2> HIDE DEF e
    <2>4. DOMAIN e = 1..(Len(d) - 1)
      BY <2>3, LenProperties
    <2>5. Within(e, d)
      <3> SUFFICES ASSUME NEW i \in DOMAIN e
                   PROVE  \E j \in DOMAIN d : e[i] = d[j]
        BY DEF Within
      <3>1. (IF i < p THEN i ELSE i + 1) \in DOMAIN d
        BY <1>0, <2>1, <2>4
      <3> QED
        BY <2>3, <2>4, <3>1
    <2>6. ASSUME Unique(d)
          PROVE  Unique(e) /\ ~Has(e, k)
      <3>1. ASSUME NEW i \in DOMAIN e, NEW j \in DOMAIN e, i # j
            PROVE  e[i].key # e[j].key
        <4> DEFINE f(n) == IF n < p THEN n ELSE n + 1
        <4>1. f(i) \in DOMAIN d /\ f(j) \in DOMAIN d /\ f(i) # f(j)
          BY <1>0, <2>1, <2>4, <3>1
        <4>2. e[i] = d[f(i)] /\ e[j] = d[f(j)]
          BY <2>3, <2>4
        <4> QED
          BY <2>6, <4>1, <4>2 DEF Unique
      <3>2. ASSUME NEW i \in DOMAIN e
            PROVE  e[i].key # k
        <4> DEFINE f == IF i < p THEN i ELSE i + 1
        <4>1. f \in DOMAIN d /\ f # p /\ p \in DOMAIN d
          BY <1>0, <2>1, <2>4
        <4>2. e[i] = d[f]
          BY <2>3, <2>4
        <4> QED
          BY <2>1, <2>6, <4>1, <4>2 DEF Unique
      <3> QED
        BY <3>1, <3>2 DEF Unique, Has
    <2> QED
      BY <1>2, <2>2, <2>3, <2>5, <2>6
  <1> QED
    BY <1>1, <1>2

\* del d[k] keeps every other entry.
LEMMA WithoutKeeps ==
    ASSUME NEW d \in Seq(Entry), NEW k, NEW j \in DOMAIN d, d[j].key # k
    PROVE  \E i \in DOMAIN Without(d, k) : Without(d, k)[i] = d[j]
  <1>0. Len(d) \in Nat /\ DOMAIN d = 1..Len(d)
    BY LenProperties
  <1>1. CASE ~Has(d, k)
    BY <1>1 DEF Without
  <1>2. CASE Has(d, k)
    <2> DEFINE p == IndexOf(d, k)
               e == RemoveAt(d, p)
               i == IF j < p THEN j ELSE j - 1
    <2>1. p \in 1..Len(d) /\ d[p].key = k
      BY <1>0, <1>2, IndexOfFacts
    <2>2. Without(d, k) = e
      BY <1>2 DEF Without
    <2> HIDE DEF p
    <2>3. /\ e \in Seq(Entry)
          /\ Len(e) = Len(d) - 1
          /\ \A n \in 1..(Len(d) - 1) : e[n] = d[IF n < p THEN n ELSE n + 1]
      BY <2>1, RemoveAtFacts
    <2> HIDE DEF e
    <2>4. DOMAIN e = 1..(Len(d) - 1)
      BY <2>3, LenProperties
    <2>5. j # p
      BY <2>1
    <2>6. i \in 1..(Len(d) - 1) /\ (IF i < p THEN i ELSE i + 1) = j
      BY <1>0, <2>1, <2>5
    <2>7. e[i] = d[j]
      BY <2>3, <2>6, Zenon
    <2> QED
      BY <2>2, <2>4, <2>6, <2>7
  <1> QED
    BY <1>1, <1>2

\* d[k] = e; d.move_to_end(k) keeps every other entry and ends in e.
LEMMA PutAtEndKeeps ==
    ASSUME NEW d \in Seq(Entry), NEW k, NEW e \in Entry
    PROVE  /\ Len(PutAtEnd(d, k, e)) \in DOMAIN PutAtEnd(d, k, e)
           /\ PutAtEnd(d, k, e)[Len(PutAtEnd(d, k, e))] = e
           /\ \A j \in DOMAIN d : d[j].key # k =>
                 \E i \in DOMAIN PutAtEnd(d, k, e) : PutAtEnd(d, k, e)[i] = d[j]
  <1> DEFINE w == Without(d, k)
             r == Append(w, e)
  <1>1. w \in Seq(Entry)
    BY WithoutFacts
  <1>2. PutAtEnd(d, k, e) = r
    BY DEF PutAtEnd
  <1>3. \A j \in DOMAIN d : d[j].key # k => \E i \in DOMAIN w : w[i] = d[j]
    BY WithoutKeeps
  <1> HIDE DEF w
  <1>4. Len(w) \in Nat /\ DOMAIN w = 1..Len(w)
    BY <1>1, LenProperties
  <1>5. /\ r \in Seq(Entry)
        /\ Len(r) = Len(w) + 1
        /\ DOMAIN r = 1..(Len(w) + 1)
        /\ \A i \in 1..Len(w) : r[i] = w[i]
        /\ r[Len(w) + 1] = e
    BY <1>1, <1>4, AppendProperties, LenProperties
  <1> HIDE DEF r
  <1>6. \A i \in DOMAIN w : i \in DOMAIN r /\ r[i] = w[i]
    BY <1>4, <1>5
  <1>7. \A j \in DOMAIN d : d[j].key # k => \E i \in DOMAIN r : r[i] = d[j]
    BY <1>3, <1>6
  <1>8. Len(r) \in DOMAIN r /\ r[Len(r)] = e
    BY <1>4, <1>5
  <1> QED
    BY <1>2, <1>7, <1>8

\* d[k] = e; d.move_to_end(k) adds e and nothing else, and grows the
\* dictionary only if k is new.
LEMMA PutAtEndFacts ==
    ASSUME NEW d \in Seq(Entry), NEW k, NEW e \in Entry, e.key = k
    PROVE  /\ PutAtEnd(d, k, e) \in Seq(Entry)
           /\ Len(PutAtEnd(d, k, e)) = IF Has(d, k) THEN Len(d) ELSE Len(d) + 1
           /\ Within(PutAtEnd(d, k, e), Append(d, e))
           /\ Unique(d) => Unique(PutAtEnd(d, k, e))
  <1> DEFINE w == Without(d, k)
             n == Len(w)
             r == Append(w, e)
  <1>0. Len(d) \in Nat /\ DOMAIN d = 1..Len(d)
    BY LenProperties
  <1>1. /\ w \in Seq(Entry)
        /\ n = IF Has(d, k) THEN Len(d) - 1 ELSE Len(d)
        /\ Within(w, d)
        /\ Unique(d) => Unique(w) /\ ~Has(w, k)
    BY WithoutFacts
  <1>2. PutAtEnd(d, k, e) = r
    BY DEF PutAtEnd
  <1> HIDE DEF w
  <1>3. n \in Nat /\ DOMAIN w = 1..n
    BY <1>1, LenProperties
  <1>4. /\ r \in Seq(Entry)
        /\ Len(r) = n + 1
        /\ DOMAIN r = 1..(n + 1)
        /\ \A i \in 1..n : r[i] = w[i]
        /\ r[n + 1] = e
    BY <1>1, <1>3, AppendProperties, LenProperties
  <1>5. /\ DOMAIN Append(d, e) = 1..(Len(d) + 1)
        /\ \A i \in 1..Len(d) : Append(d, e)[i] = d[i]
        /\ Append(d, e)[Len(d) + 1] = e
    BY <1>0, AppendProperties, LenProperties
  <1> HIDE DEF n, r
  <1>6. Within(r, Append(d, e))
    <2> SUFFICES ASSUME NEW i \in DOMAIN r
                 PROVE  \E j \in DOMAIN Append(d, e) : r[i] = Append(d, e)[j]
      BY DEF Within
    <2>1. CASE i = n + 1
      <3>1. Len(d) + 1 \in DOMAIN Append(d, e)
        BY <1>0, <1>5
      <3> QED
        BY <1>4, <1>5, <2>1, <3>1
    <2>2. CASE i \in 1..n
      <3>1. PICK j \in DOMAIN d : w[i] = d[j]
        BY <1>1, <1>3, <2>2 DEF Within
      <3>2. j \in DOMAIN Append(d, e) /\ Append(d, e)[j] = d[j]
        BY <1>0, <1>5, <3>1
      <3> QED
        BY <1>4, <2>2, <3>1, <3>2
    <2> QED
      BY <1>3, <1>4, <2>1, <2>2
  <1>7. ASSUME Unique(d)
        PROVE  Unique(r)
    <2> SUFFICES ASSUME NEW i \in DOMAIN r, NEW j \in DOMAIN r, i # j
                 PROVE  r[i].key # r[j].key
      BY DEF Unique
    <2>1. \A m \in 1..n : w[m].key # k
      BY <1>1, <1>3, <1>7 DEF Has
    <2>2. \A l, m \in 1..n : l # m => w[l].key # w[m].key
      BY <1>1, <1>3, <1>7 DEF Unique
    <2>3. CASE i \in 1..n /\ j \in 1..n
      BY <1>4, <2>2, <2>3
    <2>4. CASE i = n + 1 /\ j \in 1..n
      BY <1>4, <2>1, <2>4
    <2>5. CASE j = n + 1 /\ i \in 1..n
      BY <1>4, <2>1, <2>5
    <2> QED
      BY <1>3, <1>4, <2>3, <2>4, <2>5
  <1>8. Len(r) = IF Has(d, k) THEN Len(d) ELSE Len(d) + 1
    <2>1. CASE Has(d, k)
      BY <1>0, <1>1, <1>3, <1>4, <2>1
    <2>2. CASE ~Has(d, k)
      BY <1>0, <1>1, <1>3, <1>4, <2>2
    <2> QED
      BY <2>1, <2>2
  <1> QED
    BY <1>2, <1>4, <1>6, <1>7, <1>8

\* d.move_to_end(k) permutes the dictionary.
LEMMA MoveToEndFacts ==
    ASSUME NEW d \in Seq(Entry), NEW k, Has(d, k)
    PROVE  /\ MoveToEnd(d, k) \in Seq(Entry)
           /\ Len(MoveToEnd(d, k)) = Len(d)
           /\ Within(MoveToEnd(d, k), d)
           /\ Unique(d) => Unique(MoveToEnd(d, k))
  <1> DEFINE p == IndexOf(d, k)
             e == d[p]
  <1>0. Len(d) \in Nat /\ DOMAIN d = 1..Len(d) /\ \A i \in 1..Len(d) : d[i] \in Entry
    BY LenProperties, ElementOfSeq
  <1>1. p \in DOMAIN d /\ e.key = k /\ e \in Entry
    BY <1>0, IndexOfFacts
  <1>2. MoveToEnd(d, k) = PutAtEnd(d, k, e)
    BY DEF MoveToEnd
  <1> HIDE DEF p
  <1>3. /\ MoveToEnd(d, k) \in Seq(Entry)
        /\ Len(MoveToEnd(d, k)) = Len(d)
        /\ Within(MoveToEnd(d, k), Append(d, e))
        /\ Unique(d) => Unique(MoveToEnd(d, k))
    BY <1>1, <1>2, PutAtEndFacts
  <1>4. Within(Append(d, e), d)
    <2>1. /\ DOMAIN Append(d, e) = 1..(Len(d) + 1)
          /\ \A i \in 1..Len(d) : Append(d, e)[i] = d[i]
          /\ Append(d, e)[Len(d) + 1] = d[p]
      BY <1>0, <1>1, AppendProperties, LenProperties
    <2> SUFFICES ASSUME NEW i \in DOMAIN Append(d, e)
                 PROVE  \E j \in DOMAIN d : Append(d, e)[i] = d[j]
      BY DEF Within
    <2> QED
      BY <1>0, <1>1, <2>1
  <1> QED
    BY <1>3, <1>4 DEF Within

\* d.move_to_end(k) loses nothing.
LEMMA MoveToEndKeeps ==
    ASSUME NEW d \in Seq(Entry), NEW k, Has(d, k), Unique(d)
    PROVE  Within(d, MoveToEnd(d, k))
  <1> DEFINE p == IndexOf(d, k)
             m == MoveToEnd(d, k)
  <1>1. p \in DOMAIN d /\ d[p].key = k /\ d[p] \in Entry
    BY IndexOfFacts, LenProperties, ElementOfSeq
  <1>2. m = PutAtEnd(d, k, d[p])
    BY DEF MoveToEnd
  <1> HIDE DEF p, m
  <1>3. /\ Len(m) \in DOMAIN m
        /\ m[Len(m)] = d[p]
        /\ \A j \in DOMAIN d : d[j].key # k => \E i \in DOMAIN m : m[i] = d[j]
    BY <1>1, <1>2, PutAtEndKeeps
  <1>4. \A j \in DOMAIN d : d[j].key = k => j = p
    BY <1>1 DEF Unique
  <1>5. \A j \in DOMAIN d : \E i \in DOMAIN m : d[j] = m[i]
    BY <1>3, <1>4
  <1> QED
    BY <1>5 DEF Within, m

\* The entries of e stand in d in the same order.
InOrderOf(e, d) ==
    \A i, j \in DOMAIN e : i < j =>
        \E a, b \in DOMAIN d : a < b /\ e[i] = d[a] /\ e[j] = d[b]

\* del d[k] leaves the others in their order.
LEMMA WithoutOrder ==
    ASSUME NEW d \in Seq(Entry), NEW k
    PROVE  InOrderOf(Without(d, k), d)
  <1>0. Len(d) \in Nat /\ DOMAIN d = 1..Len(d)
    BY LenProperties
  <1>1. CASE ~Has(d, k)
    BY <1>1 DEF Without, InOrderOf
  <1>2. CASE Has(d, k)
    <2> DEFINE p == IndexOf(d, k)
               e == RemoveAt(d, p)
               At(i) == IF i < p THEN i ELSE i + 1
    <2>1. p \in 1..Len(d) /\ Without(d, k) = e
      BY <1>0, <1>2, IndexOfFacts DEF Without
    <2> HIDE DEF p
    <2>2. /\ e \in Seq(Entry)
          /\ Len(e) = Len(d) - 1
          /\ \A i \in 1..(Len(d) - 1) : e[i] = d[At(i)]
      BY <2>1, RemoveAtFacts
    <2> HIDE DEF e
    <2>3. DOMAIN e = 1..(Len(d) - 1)
      BY <2>2, LenProperties
    <2>4. \A i, j \in 1..(Len(d) - 1) : i < j =>
             At(i) \in DOMAIN d /\ At(j) \in DOMAIN d /\ At(i) < At(j)
      BY <1>0, <2>1
    <2> HIDE DEF At
    <2> QED
      BY <2>1, <2>2, <2>3, <2>4 DEF InOrderOf
  <1> QED
    BY <1>1, <1>2

\* The expired prefix of d ends at or before the end of d.
LEMMA FirstLiveFacts ==
    ASSUME NEW d \in Seq(Entry), NEW t \in Nat
    PROVE  FirstLive(d, t) \in 1..(Len(d) + 1)
  <1> DEFINE live == {i \in DOMAIN d : d[i].exp > t}
  <1>0. Len(d) \in Nat /\ DOMAIN d = 1..Len(d)
    BY LenProperties
  <1>1. CASE live = {}
    BY <1>0, <1>1 DEF FirstLive
  <1>2. CASE live # {}
    <2>2. FirstLive(d, t) = Min(live)
      BY <1>2 DEF FirstLive
    <2>3. live \subseteq Nat /\ live \subseteq DOMAIN d
      BY <1>0
    <2> HIDE DEF live
    <2>1. Min(live) \in live
      BY <1>2, <2>3, MinOfNaturals
    <2>4. Min(live) \in 1..Len(d)
      BY <1>0, <2>1, <2>3, Zenon
    <2> QED
      BY <1>0, <2>2, <2>4
  <1> QED
    BY <1>1, <1>2

\* No entry before the first live one is live.
LEMMA FirstLiveIsFirst ==
    ASSUME NEW d \in Seq(Entry), NEW t \in Nat, NEW j \in DOMAIN d, j < FirstLive(d, t)
    PROVE  ~(d[j].exp > t)
  <1> DEFINE live == {i \in DOMAIN d : d[i].exp > t}
  <1> SUFFICES ASSUME j \in live PROVE FALSE
    OBVIOUS
  <1>0. DOMAIN d = 1..Len(d) /\ Len(d) \in Nat
    BY LenProperties
  <1>1. live # {} /\ live \subseteq Nat
    BY <1>0
  <1>2. FirstLive(d, t) = Min(live)
    BY <1>1 DEF FirstLive
  <1> HIDE DEF live
  <1>3. Min(live) <= j /\ Min(live) \in live
    BY <1>1, MinOfNaturals
  <1> QED
    BY <1>0, <1>1, <1>2, <1>3

\* _evict_locked drops the entries up to some place: expired ones only, or as
\* many as the dictionary has too many.
LEMMA EvictSuffix ==
    ASSUME NEW d \in Seq(Entry), NEW t \in Nat
    PROVE  \E m \in 1..(Len(d) + 1) :
              /\ DOMAIN Evict(d, t) = 1..(Len(d) - m + 1)
              /\ \A i \in DOMAIN Evict(d, t) :
                    m + i - 1 \in DOMAIN d /\ Evict(d, t)[i] = d[m + i - 1]
              /\ \/ \A j \in 1..(m - 1) : ~(d[j].exp > t)
                 \/ m - 1 = Len(d) - MaxEntries
  <1> DEFINE n == Len(d)
             a == FirstLive(d, t)
             b == n - MaxEntries + 1
             m == Max({a, b})
             e == Evict(d, t)
  <1>0. n \in Nat /\ DOMAIN d = 1..n /\ \A i \in 1..n : d[i] \in Entry
    BY LenProperties, ElementOfSeq
  <1>1. MaxEntries \in Nat \ {0}
    BY CacheAssumption
  <1>2. a \in 1..(n + 1)
    BY FirstLiveFacts
  <1>3. \A j \in 1..n : j < a => ~(d[j].exp > t)
    BY <1>0, FirstLiveIsFirst
  <1>4. e = SubSeq(d, m, n)
    BY DEF Evict
  <1> HIDE DEF a, n, e
  <1>5. m \in {a, b} /\ m >= a /\ m >= b
    <2>1. a \in Int /\ b \in Int
      BY <1>0, <1>1, <1>2
    <2> HIDE DEF b
    <2> QED
      BY <2>1, MaxOfTwo
  <1> HIDE DEF m
  <1>6. m \in 1..(n + 1)
    BY <1>0, <1>1, <1>2, <1>5
  <1>7. /\ e \in Seq(Entry)
        /\ Len(e) = IF m <= n THEN n - m + 1 ELSE 0
        /\ \A i \in 1..(n - m + 1) : e[i] = d[m + i - 1]
    <2>1. m \in Int /\ n \in Int /\ \A i \in m..n : d[i] \in Entry
      BY <1>0, <1>6
    <2> QED
      BY <1>4, <2>1, SubSeqProperties
  <1>8. DOMAIN e = 1..(n - m + 1)
    BY <1>0, <1>6, <1>7, LenProperties
  <1>9. \A i \in DOMAIN e : m + i - 1 \in DOMAIN d /\ e[i] = d[m + i - 1]
    BY <1>0, <1>6, <1>7, <1>8
  <1>10. \/ \A j \in 1..(m - 1) : ~(d[j].exp > t)
         \/ m - 1 = n - MaxEntries
    <2>1. CASE m = a
      BY <1>0, <1>2, <1>3, <2>1
    <2>2. CASE m = b
      BY <1>0, <1>1, <2>2
    <2> QED
      BY <1>5, <2>1, <2>2
  <1> QED
    BY <1>6, <1>8, <1>9, <1>10 DEF n, e

\* _evict_locked keeps a suffix of the dictionary that fits into the cap.
LEMMA EvictFacts ==
    ASSUME NEW d \in Seq(Entry), NEW t \in Nat
    PROVE  /\ Evict(d, t) \in Seq(Entry)
           /\ Len(Evict(d, t)) <= MaxEntries
           /\ Within(Evict(d, t), d)
           /\ Unique(d) => Unique(Evict(d, t))
  <1> DEFINE n == Len(d)
             m == Max({FirstLive(d, t), n - MaxEntries + 1})
             e == Evict(d, t)
  <1>0. n \in Nat /\ DOMAIN d = 1..n /\ \A i \in 1..n : d[i] \in Entry
    BY LenProperties, ElementOfSeq
  <1>1. MaxEntries \in Nat \ {0}
    BY CacheAssumption
  <1>2. FirstLive(d, t) \in 1..(n + 1)
    BY FirstLiveFacts
  <1>3. m \in 1..(n + 1) /\ m >= n - MaxEntries + 1
    <2> DEFINE a == FirstLive(d, t)
               b == n - MaxEntries + 1
    <2>1. a \in Int /\ b \in Int
      BY <1>0, <1>1, <1>2
    <2>2. m \in {a, b} /\ m >= a /\ m >= b
      BY <2>1, MaxOfTwo
    <2> HIDE DEF m, n
    <2> QED
      BY <1>0, <1>1, <1>2, <2>2
  <1>4. e = SubSeq(d, m, n)
    BY DEF Evict
  <1> HIDE DEF m, e, n
  <1>5. /\ e \in Seq(Entry)
        /\ Len(e) = IF m <= n THEN n - m + 1 ELSE 0
        /\ \A i \in 1..(n - m + 1) : e[i] = d[m + i - 1]
    <2>1. m \in Int /\ n \in Int /\ \A i \in m..n : d[i] \in Entry
      BY <1>0, <1>3
    <2> QED
      BY <1>4, <2>1, SubSeqProperties
  <1>6. Len(e) = n - m + 1 /\ DOMAIN e = 1..(n - m + 1)
    BY <1>0, <1>3, <1>5, LenProperties
  <1>7. Len(e) <= MaxEntries
    BY <1>0, <1>1, <1>3, <1>6
  <1>8. \A i \in DOMAIN e : m + i - 1 \in DOMAIN d /\ e[i] = d[m + i - 1]
    BY <1>0, <1>3, <1>5, <1>6
  <1>9. Within(e, d)
    BY <1>8 DEF Within
  <1>10. ASSUME Unique(d)
         PROVE  Unique(e)
    <2> SUFFICES ASSUME NEW i \in DOMAIN e, NEW j \in DOMAIN e, i # j
                 PROVE  e[i].key # e[j].key
      BY DEF Unique
    <2>1. m + i - 1 # m + j - 1
      BY <1>0, <1>3, <1>6
    <2> QED
      BY <1>8, <1>10, <2>1 DEF Unique
  <1> QED
    BY <1>5, <1>7, <1>9, <1>10 DEF e

\* _evict_locked never drops the entry that was just recorded, if it is live.
LEMMA EvictKeepsLast ==
    ASSUME NEW d \in Seq(Entry), NEW t \in Nat,
           Len(d) \in DOMAIN d, d[Len(d)].exp > t
    PROVE  \E i \in DOMAIN Evict(d, t) : Evict(d, t)[i] = d[Len(d)]
  <1> DEFINE n == Len(d)
             f == FirstLive(d, t)
             live == {i \in DOMAIN d : d[i].exp > t}
             b == n - MaxEntries + 1
             m == Max({f, b})
             e == Evict(d, t)
  <1>0. n \in Nat /\ DOMAIN d = 1..n /\ \A i \in 1..n : d[i] \in Entry
    BY LenProperties, ElementOfSeq
  <1>1. MaxEntries \in Nat \ {0}
    BY CacheAssumption
  <1>2. f \in 1..n
    <2>1. n \in live /\ live \subseteq Nat
      BY <1>0
    <2>2. f = Min(live)
      BY <2>1 DEF FirstLive
    <2>3. live \subseteq 1..n
      BY <1>0
    <2> HIDE DEF live, f
    <2>4. Min(live) \in live
      BY <2>1, MinOfNaturals
    <2> QED
      BY <2>2, <2>3, <2>4, Zenon
  <1> HIDE DEF f
  <1>3. m \in 1..n
    <2>1. f \in Int /\ b \in Int /\ b <= n
      BY <1>0, <1>1, <1>2
    <2> HIDE DEF b, n
    <2>2. m \in {f, b} /\ m >= f
      BY <2>1, MaxOfTwo
    <2> HIDE DEF m
    <2> QED
      BY <1>0, <1>2, <2>1, <2>2
  <1>4. e = SubSeq(d, m, n)
    BY DEF Evict, f
  <1> HIDE DEF m, e, n
  <1>5. /\ e \in Seq(Entry)
        /\ Len(e) = IF m <= n THEN n - m + 1 ELSE 0
        /\ \A i \in 1..(n - m + 1) : e[i] = d[m + i - 1]
    <2>1. m \in Int /\ n \in Int /\ \A i \in m..n : d[i] \in Entry
      BY <1>0, <1>3
    <2> QED
      BY <1>4, <2>1, SubSeqProperties
  <1>6. DOMAIN e = 1..(n - m + 1) /\ n - m + 1 \in DOMAIN e /\ m + (n - m + 1) - 1 = n
    BY <1>0, <1>3, <1>5, LenProperties
  <1>7. e[n - m + 1] = d[n]
    <2>1. e[n - m + 1] = d[m + (n - m + 1) - 1]
      BY <1>5, <1>6
    <2> QED
      BY <1>6, <2>1
  <1> QED
    BY <1>6, <1>7 DEF e, n

\* A dictionary that fits loses no entry that lives.
LEMMA EvictKeepsLive ==
    ASSUME NEW d \in Seq(Entry), NEW t \in Nat, Len(d) <= MaxEntries,
           NEW j \in DOMAIN d, d[j].exp > t
    PROVE  \E i \in DOMAIN Evict(d, t) : Evict(d, t)[i] = d[j]
  <1> DEFINE n == Len(d)
             f == FirstLive(d, t)
             live == {i \in DOMAIN d : d[i].exp > t}
             b == n - MaxEntries + 1
             m == Max({f, b})
             e == Evict(d, t)
  <1>0. n \in Nat /\ DOMAIN d = 1..n /\ \A i \in 1..n : d[i] \in Entry
    BY LenProperties, ElementOfSeq
  <1>1. MaxEntries \in Nat \ {0}
    BY CacheAssumption
  <1>2. f \in 1..j
    <2>1. j \in live /\ live \subseteq Nat /\ live \subseteq 1..n
      BY <1>0
    <2>2. f = Min(live)
      BY <2>1 DEF FirstLive
    <2> HIDE DEF live, f
    <2>3. Min(live) \in live /\ Min(live) <= j
      BY <2>1, MinOfNaturals
    <2> QED
      BY <1>0, <2>1, <2>2, <2>3
  <1> HIDE DEF f
  <1>3. m \in 1..j
    <2>1. f \in Int /\ b \in Int /\ b <= 1
      BY <1>0, <1>1, <1>2
    <2> HIDE DEF b, n
    <2>2. m \in {f, b} /\ m >= f
      BY <2>1, MaxOfTwo
    <2> HIDE DEF m
    <2> QED
      BY <1>0, <1>2, <2>1, <2>2
  <1>4. e = SubSeq(d, m, n)
    BY DEF Evict, f
  <1> HIDE DEF m, e, n
  <1>5. /\ e \in Seq(Entry)
        /\ Len(e) = IF m <= n THEN n - m + 1 ELSE 0
        /\ \A i \in 1..(n - m + 1) : e[i] = d[m + i - 1]
    <2>1. m \in Int /\ n \in Int /\ \A i \in m..n : d[i] \in Entry
      BY <1>0, <1>3
    <2> QED
      BY <1>4, <2>1, SubSeqProperties
  <1>6. DOMAIN e = 1..(n - m + 1) /\ j - m + 1 \in DOMAIN e /\ m + (j - m + 1) - 1 = j
    BY <1>0, <1>3, <1>5, LenProperties
  <1>7. e[j - m + 1] = d[j]
    <2>1. e[j - m + 1] = d[m + (j - m + 1) - 1]
      BY <1>5, <1>6
    <2> QED
      BY <1>6, <2>1
  <1> QED
    BY <1>6, <1>7 DEF e

-----------------------------------------------------------------------------
(* The methods. *)

\* A hit is a present key, and what lookup() returns is a reply, the
\* in-flight sentinel or None.
LEMMA LookupResultType ==
    ASSUME CacheTypeOK, NEW k
    PROVE  /\ Hit(k) => Has(cached, k)
           /\ LookupResult(k) \in Raw \union {IN_FLIGHT, NONE}
  <1>1. Hit(k) => Has(cached, k)
    BY DEF Hit, Has
  <1>2. ASSUME Hit(k)
        PROVE  cached[IndexOf(cached, k)].raw \in Raw
    <2>1. IndexOf(cached, k) \in DOMAIN cached
      BY <1>1, <1>2, IndexOfFacts
    <2>2. cached \in Seq(Entry) /\ DOMAIN cached = 1..Len(cached)
      BY LenProperties DEF CacheTypeOK
    <2>3. cached[IndexOf(cached, k)] \in Entry
      BY <2>1, <2>2, ElementOfSeq
    <2> QED
      BY <2>3 DEF Entry
  <1> QED
    BY <1>1, <1>2 DEF LookupResult

\* What every lookup() leaves of the dictionary.
LEMMA LookupEffectFacts ==
    ASSUME CacheTypeOK, NEW k, LookupEffect(k)
    PROVE  /\ cached' \in Seq(Entry)
           /\ Len(cached') <= Len(cached)
           /\ Within(cached', cached)
           /\ Unique(cached) => Unique(cached')
  <1>0. cached \in Seq(Entry) /\ Len(cached) \in Nat
    BY LenProperties DEF CacheTypeOK
  <1>1. CASE Hit(k)
    <2>1. cached' = MoveToEnd(cached, k) /\ Has(cached, k)
      BY <1>1, LookupResultType DEF LookupEffect
    <2> QED
      BY <1>0, <2>1, MoveToEndFacts
  <1>2. CASE ~Hit(k)
    <2>1. cached' = Without(cached, k)
      BY <1>2 DEF LookupEffect
    <2>2. /\ cached' \in Seq(Entry)
          /\ Len(cached') = IF Has(cached, k) THEN Len(cached) - 1 ELSE Len(cached)
          /\ Within(cached', cached)
          /\ Unique(cached) => Unique(cached')
      BY <1>0, <2>1, WithoutFacts
    <2>3. Len(cached') <= Len(cached)
      BY <1>0, <2>2
    <2> QED
      BY <2>2, <2>3
  <1> QED
    BY <1>1, <1>2

\* What every record_reply() leaves of the dictionary.
LEMMA RecordReplyFacts ==
    ASSUME CacheTypeOK, NEW k \in Key, NEW r \in Raw, NEW x \in Nat,
           RecordReply(k, r, x)
    PROVE  /\ cached' \in Seq(Entry)
           /\ Len(cached') <= MaxEntries
           /\ Within(cached', Append(cached, [key |-> k, raw |-> r, exp |-> x]))
           /\ Unique(cached) => Unique(cached')
  <1> DEFINE e == [key |-> k, raw |-> r, exp |-> x]
             p == PutAtEnd(cached, k, e)
  <1>1. cached \in Seq(Entry) /\ now \in Nat
    BY CacheAssumption DEF CacheTypeOK
  <1>2. e \in Entry /\ e.key = k
    BY DEF Entry
  <1>3. cached' = Evict(p, now)
    BY DEF RecordReply
  <1> HIDE DEF e
  <1>4. /\ p \in Seq(Entry)
        /\ Within(p, Append(cached, e))
        /\ Unique(cached) => Unique(p)
    BY <1>1, <1>2, PutAtEndFacts
  <1> HIDE DEF p
  <1>5. /\ cached' \in Seq(Entry)
        /\ Len(cached') <= MaxEntries
        /\ Within(cached', p)
        /\ Unique(p) => Unique(cached')
    BY <1>1, <1>3, <1>4, EvictFacts
  <1>6. Within(cached', Append(cached, e))
    BY <1>4, <1>5 DEF Within
  <1> QED
    BY <1>4, <1>5, <1>6 DEF e

\* What record_reply() leaves is the new entry and entries of other keys; the
\* new entry is there unless it has no lifetime.
LEMMA RecordReplyEntries ==
    ASSUME CacheTypeOK, Unique(cached), NEW k \in Key, NEW r \in Raw, NEW x \in Nat,
           RecordReply(k, r, x)
    PROVE  /\ \A i \in DOMAIN cached' :
                 \/ cached'[i] = [key |-> k, raw |-> r, exp |-> x]
                 \/ cached'[i].key # k /\ \E j \in DOMAIN cached : cached'[i] = cached[j]
           /\ x > now => Has(cached', k)
  <1> DEFINE e == [key |-> k, raw |-> r, exp |-> x]
             p == PutAtEnd(cached, k, e)
  <1>1. cached \in Seq(Entry) /\ now \in Nat
    BY CacheAssumption DEF CacheTypeOK
  <1>2. e \in Entry /\ e.key = k /\ e.exp = x
    BY DEF Entry
  <1>3. cached' = Evict(p, now)
    BY DEF RecordReply
  <1> HIDE DEF e
  <1>4. p \in Seq(Entry) /\ Within(p, Append(cached, e)) /\ Unique(p)
    BY <1>1, <1>2, PutAtEndFacts
  <1>5. Len(p) \in DOMAIN p /\ p[Len(p)] = e
    BY <1>1, <1>2, PutAtEndKeeps
  <1> HIDE DEF p
  <1>6. Within(cached', p)
    BY <1>1, <1>3, <1>4, EvictFacts
  <1>7. ASSUME NEW i \in DOMAIN p
        PROVE  p[i] = e \/ (p[i].key # k /\ \E j \in DOMAIN cached : p[i] = cached[j])
    <2>1. CASE i = Len(p)
      BY <1>5, <2>1
    <2>2. CASE i # Len(p)
      <3>1. p[i].key # k
        BY <1>2, <1>4, <1>5, <2>2 DEF Unique
      <3>2. PICK j \in DOMAIN Append(cached, e) : p[i] = Append(cached, e)[j]
        BY <1>4 DEF Within
      <3>3. /\ Len(cached) \in Nat /\ DOMAIN cached = 1..Len(cached)
            /\ DOMAIN Append(cached, e) = 1..(Len(cached) + 1)
            /\ \A n \in 1..Len(cached) : Append(cached, e)[n] = cached[n]
            /\ Append(cached, e)[Len(cached) + 1] = e
        BY <1>1, <1>2, AppendProperties, LenProperties
      <3>4. j # Len(cached) + 1
        BY <1>2, <3>1, <3>2, <3>3
      <3>5. j \in DOMAIN cached /\ p[i] = cached[j]
        BY <3>2, <3>3, <3>4
      <3> QED
        BY <3>1, <3>5
    <2> QED
      BY <2>1, <2>2
  <1>8. ASSUME NEW i \in DOMAIN cached'
        PROVE  cached'[i] = e \/ (cached'[i].key # k
                  /\ \E j \in DOMAIN cached : cached'[i] = cached[j])
    <2>1. PICK n \in DOMAIN p : cached'[i] = p[n]
      BY <1>6 DEF Within
    <2> QED
      BY <1>7, <2>1
  <1>9. ASSUME x > now
        PROVE  Has(cached', k)
    <2>1. \E i \in DOMAIN cached' : cached'[i] = p[Len(p)]
      BY <1>1, <1>2, <1>3, <1>4, <1>5, <1>9, EvictKeepsLast
    <2> QED
      BY <1>2, <1>5, <2>1 DEF Has
  <1> QED
    BY <1>8, <1>9 DEF e

\* record_reply() keeps the other replies that live, as long as they fit.
LEMMA RecordReplyKeeps ==
    ASSUME CacheTypeOK, NEW k \in Key, NEW r \in Raw, NEW x \in Nat, RecordReply(k, r, x),
           Len(PutAtEnd(cached, k, [key |-> k, raw |-> r, exp |-> x])) <= MaxEntries
    PROVE  /\ x > now => \E i \in DOMAIN cached' :
                            cached'[i] = [key |-> k, raw |-> r, exp |-> x]
           /\ \A j \in DOMAIN cached : cached[j].key # k /\ cached[j].exp > now =>
                 \E i \in DOMAIN cached' : cached'[i] = cached[j]
  <1> DEFINE e == [key |-> k, raw |-> r, exp |-> x]
             p == PutAtEnd(cached, k, e)
  <1>1. cached \in Seq(Entry) /\ now \in Nat
    BY CacheAssumption DEF CacheTypeOK
  <1>2. e \in Entry /\ e.key = k /\ e.exp = x
    BY DEF Entry
  <1>3. cached' = Evict(p, now) /\ Len(p) <= MaxEntries
    BY DEF RecordReply
  <1> HIDE DEF e
  <1>4. /\ p \in Seq(Entry)
        /\ Len(p) \in DOMAIN p /\ p[Len(p)] = e
        /\ \A j \in DOMAIN cached : cached[j].key # k => \E i \in DOMAIN p : p[i] = cached[j]
    BY <1>1, <1>2, PutAtEndFacts, PutAtEndKeeps
  <1> HIDE DEF p
  <1>5. \A j \in DOMAIN p : p[j].exp > now => \E i \in DOMAIN cached' : cached'[i] = p[j]
    BY <1>1, <1>3, <1>4, EvictKeepsLive
  <1>6. x > now => \E i \in DOMAIN cached' : cached'[i] = e
    BY <1>2, <1>4, <1>5
  <1>7. ASSUME NEW j \in DOMAIN cached, cached[j].key # k, cached[j].exp > now
        PROVE  \E i \in DOMAIN cached' : cached'[i] = cached[j]
    <2>1. PICK n \in DOMAIN p : p[n] = cached[j]
      BY <1>4, <1>7
    <2> QED
      BY <1>5, <1>7, <2>1
  <1> QED
    BY <1>6, <1>7 DEF e

=============================================================================
