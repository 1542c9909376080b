--------------------------- MODULE MonitoringProofs ---------------------------
(***************************************************************************)
(* Proofs about the monitoring, for any number of projects, classes,       *)
(* entries, overlapping loops, rules, thresholds, days and failures: the   *)
(* ingestion of the events, the alerts over the stored events, and the     *)
(* time the events are kept.                                               *)
(*                                                                         *)
(* Ingestion: the loops over a batch are counted entry by entry up to a    *)
(* first entry for which the count would be wrong, and the rows of a batch *)
(* are summed over projects and classes.                                   *)
(*                                                                         *)
(* Alerts: what a scan knows when it inserts or pushes may be stale, so    *)
(* nothing rests on it.  The unique key alone keeps a fault to one pending *)
(* row, and a row is pushed once because its index is new when it is       *)
(* inserted: only the scan that inserted it carries it to the robot.       *)
(*                                                                         *)
(* Retention: each loop by itself bounds the age of the rows, by the day   *)
(* whose cleanup it has behind it or stands in for, less one day for every *)
(* skip; a DELETE below its limit took all that was old.                   *)
(***************************************************************************)
EXTENDS MonAlerts, MonRetention, Sums, SequenceTheorems, TLAPS

-------------------------------------------------------------------------------
(***************************************************************************)
(* The cleaning of a batch, entry by entry.                                *)
(***************************************************************************)
\* A loop over the first n entries of s that appends those at the indices K:
\* h[k] is what it has after entry k.
Loops(h, s, K, n) ==
    h = [k \in 0..n |-> IF k = 0 THEN <<>>
                        ELSE IF k \in K THEN Append(h[k - 1], s[k]) ELSE h[k - 1]]

LEMMA LoopEnds ==
    ASSUME NEW s, NEW K, NEW n \in Nat
    PROVE  \E h : Loops(h, s, K, n)
<1> DEFINE Bad == {m \in 0..n : ~\E h : Loops(h, s, K, m)}
<1>1. ASSUME Bad # {} PROVE FALSE
  <2>1. PICK m \in Bad : \A k \in Bad : m <= k
    <3>1. Bad \subseteq 0..n
        OBVIOUS
    <3> HIDE DEF Bad
    <3> QED
        BY <1>1, <3>1, SmallestNumber
  <2>2. m # 0
    <3> DEFINE h == [k \in 0..0 |-> <<>>]
    <3>1. Loops(h, s, K, 0)
        BY DEF Loops
    <3> QED
        BY <2>1, <3>1
  <2>3. m \in 0..n /\ m \in Nat /\ m - 1 \in 0..n /\ m - 1 \notin Bad
      BY <2>1, <2>2
  <2>4. PICK h : Loops(h, s, K, m - 1)
      BY <2>3
  <2> DEFINE g == [k \in 0..m |->
                     IF k < m THEN h[k]
                     ELSE IF m \in K THEN Append(h[m - 1], s[m]) ELSE h[m - 1]]
  <2>5. \A k \in 0..m : g[k] = IF k = 0 THEN <<>>
                               ELSE IF k \in K THEN Append(g[k - 1], s[k]) ELSE g[k - 1]
    <3> SUFFICES ASSUME NEW k \in 0..m
                 PROVE  g[k] = IF k = 0 THEN <<>>
                               ELSE IF k \in K THEN Append(g[k - 1], s[k]) ELSE g[k - 1]
        OBVIOUS
    <3>1. CASE k < m
      <4>1. k \in 0..(m - 1) /\ g[k] = h[k] /\ (k # 0 => g[k - 1] = h[k - 1])
          BY <2>3, <3>1
      <4>2. h[k] = IF k = 0 THEN <<>>
                   ELSE IF k \in K THEN Append(h[k - 1], s[k]) ELSE h[k - 1]
          BY <2>4, <4>1 DEF Loops
      <4> HIDE DEF g
      <4> QED
          BY <4>1, <4>2
    <3>2. CASE k = m
      <4>1. g[m - 1] = h[m - 1]
          BY <2>3
      <4>2. g[m] = IF m \in K THEN Append(h[m - 1], s[m]) ELSE h[m - 1]
          BY <2>3
      <4> HIDE DEF g
      <4> QED
          BY <2>2, <3>2, <4>1, <4>2
    <3> QED
        BY <2>3, <3>1, <3>2
  <2>6. g = [k \in 0..m |-> g[k]]
      OBVIOUS
  <2> HIDE DEF g
  <2>7. Loops(g, s, K, m)
      BY <2>5, <2>6 DEF Loops
  <2> QED
      BY <2>1, <2>7
<1>2. n \in 0..n /\ n \notin Bad
    BY <1>1
<1> QED
    BY <1>2

\* How many indices of K are among the first k.
Nth(K, k) == Cardinality(K \cap 1..k)

\* How many of the entries at I are of kind V.
Count(s, I, V) == Cardinality({i \in I : s[i] \in V})

LEMMA NthGrows ==
    ASSUME NEW K, NEW k \in Nat \ {0}
    PROVE  /\ Nth(K, 0) = 0 /\ Nth(K, k - 1) \in Nat
           /\ Nth(K, k) = IF k \in K THEN Nth(K, k - 1) + 1 ELSE Nth(K, k - 1)
           /\ Nth(K, k) <= k
<1> DEFINE Old == K \cap 1..(k - 1)
           All == 1..k
<1>1. IsFiniteSet(Old) /\ IsFiniteSet(All) /\ Cardinality(All) = k
  <2>1. IsFiniteSet(1..(k - 1)) /\ IsFiniteSet(All) /\ Cardinality(All) = k
      BY FS_Interval
  <2>2. Old \subseteq 1..(k - 1)
      OBVIOUS
  <2> QED
      BY <2>1, <2>2, FS_Subset
<1>2. K \cap All = IF k \in K THEN Old \cup {k} ELSE Old
    OBVIOUS
<1>3. k \notin Old /\ K \cap All \subseteq All
    OBVIOUS
<1>4. Nth(K, k - 1) = Cardinality(Old) /\ Nth(K, k) = Cardinality(K \cap All)
    BY DEF Nth
<1>5. K \cap 1..0 = {} /\ Cardinality({}) = 0
    BY FS_EmptySet
<1> HIDE DEF Old, All
<1>6. Cardinality(Old) \in Nat
    BY <1>1, FS_CardinalityType
<1>7. Cardinality(Old \cup {k}) = Cardinality(Old) + 1
    BY <1>1, <1>3, FS_AddElement
<1>8. Cardinality(K \cap All) <= k
    BY <1>1, <1>3, FS_Subset
<1> QED
    BY <1>2, <1>4, <1>5, <1>6, <1>7, <1>8 DEF Nth

\* What the loop collects: the entries of K, each where K counts it, and as many
\* of any kind V as there are at K.
Collected(c, s, K, n) ==
    /\ c \in Seq(Event) /\ Len(c) = Nth(K, n)
    /\ \A i \in K : Nth(K, i) \in 1..Nth(K, n) /\ c[Nth(K, i)] = s[i]
    /\ \A m \in 1..Len(c) : \E i \in K : c[m] = s[i]
    /\ \A V : Count(c, 1..Len(c), V) = Count(s, K, V)

LEMMA LoopCollects ==
    ASSUME NEW s, NEW n \in Nat, NEW K, K \subseteq 1..n,
           \A i \in K : s[i] \in Event, NEW h, Loops(h, s, K, n)
    PROVE  Collected(h[n], s, K, n)
<1> SUFFICES ASSUME NEW V
             PROVE  /\ h[n] \in Seq(Event) /\ Len(h[n]) = Nth(K, n)
                    /\ \A i \in K : Nth(K, i) \in 1..Nth(K, n) /\ h[n][Nth(K, i)] = s[i]
                    /\ \A m \in 1..Len(h[n]) : \E i \in K : h[n][m] = s[i]
                    /\ Count(h[n], 1..Len(h[n]), V) = Count(s, K, V)
    BY DEF Collected
<1> DEFINE Hits(k) == {m \in 1..Len(h[k]) : h[k][m] \in V}
           Those(k) == {i \in K \cap 1..k : s[i] \in V}
           Good(k) == /\ h[k] \in Seq(Event) /\ Len(h[k]) = Nth(K, k)
                      /\ \A i \in K \cap 1..k :
                            Nth(K, i) \in 1..Nth(K, k) /\ h[k][Nth(K, i)] = s[i]
                      /\ \A m \in 1..Len(h[k]) : \E i \in K : h[k][m] = s[i]
                      /\ IsFiniteSet(Hits(k)) /\ IsFiniteSet(Those(k))
                      /\ Cardinality(Hits(k)) = Cardinality(Those(k))
           Bad == {k \in 0..n : ~Good(k)}
<1>1. \A k \in 0..n : h[k] = IF k = 0 THEN <<>>
                             ELSE IF k \in K THEN Append(h[k - 1], s[k]) ELSE h[k - 1]
    BY DEF Loops
<1>2. ASSUME Bad # {} PROVE FALSE
  <2>1. PICK k \in Bad : \A m \in Bad : k <= m
    <3>1. Bad \subseteq 0..n
        OBVIOUS
    <3> HIDE DEF Bad
    <3> QED
        BY <1>2, <3>1, SmallestNumber
  <2>2. k # 0
    <3>1. h[0] = <<>>
        BY <1>1
    <3>2. h[0] \in Seq(Event) /\ Len(h[0]) = 0 /\ Nth(K, 0) = 0
        BY <3>1, EmptySeq, NthGrows
    <3>3. Hits(0) = {} /\ Those(0) = {} /\ K \cap 1..0 = {} /\ 1..Len(h[0]) = {}
        BY <3>2
    <3>4. IsFiniteSet({})
        BY FS_EmptySet
    <3>5. Good(0)
        BY <3>2, <3>3, <3>4
    <3> QED
        BY <2>1, <3>5
  <2>3. k \in 1..n /\ k - 1 \in 0..n /\ k \in Nat \ {0}
      BY <2>1, <2>2
  <2>4. Good(k - 1)
    <3>1. ~(k <= k - 1)
        BY <2>3
    <3> HIDE DEF Good
    <3> QED
        BY <2>1, <2>3, <3>1
  <2> DEFINE old == h[k - 1]
             e == s[k]
  <2>5. /\ h[k] = IF k \in K THEN Append(old, e) ELSE old
        /\ old \in Seq(Event) /\ Len(old) = Nth(K, k - 1) /\ Len(old) \in Nat
        /\ Nth(K, k) = IF k \in K THEN Nth(K, k - 1) + 1 ELSE Nth(K, k - 1)
      BY <1>1, <2>2, <2>3, <2>4, NthGrows
  <2>6. CASE k \notin K
    <3>1. h[k] = old /\ K \cap 1..k = K \cap 1..(k - 1) /\ Nth(K, k) = Nth(K, k - 1)
        BY <2>3, <2>5, <2>6
    <3>2. Hits(k) = Hits(k - 1) /\ Those(k) = Those(k - 1)
        BY <3>1
    <3> HIDE DEF Hits, Those
    <3>3. Good(k)
        BY <2>4, <3>1, <3>2
    <3> QED
        BY <2>1, <3>3
  <2>7. CASE k \in K
    <3> DEFINE len == Len(old)
    <3>1. /\ h[k] = Append(old, e) /\ e \in Event
          /\ K \cap 1..k = (K \cap 1..(k - 1)) \cup {k} /\ k \notin 1..(k - 1)
        BY <2>3, <2>5, <2>7
    <3>2. /\ h[k] \in Seq(Event) /\ Len(h[k]) = len + 1
          /\ \A m \in 1..len : h[k][m] = old[m]
          /\ h[k][len + 1] = e
        BY <2>5, <3>1, AppendProperties
    <3>3. Nth(K, k) = len + 1 /\ len \in Nat /\ Nth(K, k - 1) = len
        BY <2>5, <2>7
    <3>4. \A i \in K \cap 1..k : Nth(K, i) \in 1..Nth(K, k) /\ h[k][Nth(K, i)] = s[i]
      <4>1. \A i \in K \cap 1..(k - 1) : Nth(K, i) \in 1..len /\ old[Nth(K, i)] = s[i]
          BY <2>4, <3>3
      <4> HIDE DEF len, old
      <4>2. ASSUME NEW i \in K \cap 1..(k - 1)
            PROVE  Nth(K, i) \in 1..Nth(K, k) /\ h[k][Nth(K, i)] = s[i]
          BY <3>2, <3>3, <4>1
      <4>3. Nth(K, k) \in 1..Nth(K, k) /\ h[k][Nth(K, k)] = s[k]
          BY <3>2, <3>3
      <4> QED
          BY <3>1, <4>2, <4>3
    <3>5. \A m \in 1..Len(h[k]) : \E i \in K : h[k][m] = s[i]
      <4>1. \A m \in 1..len : \E i \in K : old[m] = s[i]
          BY <2>4
      <4> HIDE DEF len, old
      <4>2. \A m \in 1..Len(h[k]) : m \in 1..len \/ m = len + 1
          BY <3>2, <3>3
      <4> QED
          BY <2>7, <3>2, <4>1, <4>2
    <3>6. /\ Hits(k) = IF e \in V THEN Hits(k - 1) \cup {len + 1} ELSE Hits(k - 1)
          /\ len + 1 \notin Hits(k - 1)
      <4>1. \A m : m \in 1..Len(h[k]) <=> m \in 1..len \/ m = len + 1
          BY <3>2, <3>3
      <4>2. \A m \in 1..len : h[k][m] \in V <=> old[m] \in V
          BY <3>2
      <4>3. len + 1 \notin 1..len
          BY <3>3
      <4>4. \A m : m \in Hits(k - 1) <=> m \in 1..len /\ old[m] \in V
          OBVIOUS
      <4>5. \A m : m \in Hits(k) <=> m \in 1..Len(h[k]) /\ h[k][m] \in V
          OBVIOUS
      <4> HIDE DEF len, Hits, old, e
      <4>6. \A m : m \in Hits(k) <=> m \in Hits(k - 1) \/ (m = len + 1 /\ e \in V)
          BY <3>2, <4>1, <4>2, <4>4, <4>5
      <4>7. e \in V => Hits(k) = Hits(k - 1) \cup {len + 1}
          BY <4>6
      <4>8. e \notin V => Hits(k) = Hits(k - 1)
          BY <4>6
      <4>9. len + 1 \notin Hits(k - 1)
          BY <4>3, <4>4
      <4> QED
          BY <4>7, <4>8, <4>9
    <3>7. /\ Those(k) = IF e \in V THEN Those(k - 1) \cup {k} ELSE Those(k - 1)
          /\ k \notin Those(k - 1)
        BY <3>1
    <3>8. /\ IsFiniteSet(Hits(k)) /\ IsFiniteSet(Those(k))
          /\ Cardinality(Hits(k)) = Cardinality(Those(k))
      <4>1. /\ IsFiniteSet(Hits(k - 1)) /\ IsFiniteSet(Those(k - 1))
            /\ Cardinality(Hits(k - 1)) = Cardinality(Those(k - 1))
          BY <2>4
      <4> HIDE DEF Hits, Those, e, len
      <4>2. CASE e \in V
        <5>1. /\ IsFiniteSet(Hits(k - 1) \cup {len + 1})
              /\ Cardinality(Hits(k - 1) \cup {len + 1}) = Cardinality(Hits(k - 1)) + 1
            BY <3>6, <4>1, FS_AddElement
        <5>2. /\ IsFiniteSet(Those(k - 1) \cup {k})
              /\ Cardinality(Those(k - 1) \cup {k}) = Cardinality(Those(k - 1)) + 1
            BY <3>7, <4>1, FS_AddElement
        <5> QED
            BY <3>6, <3>7, <4>1, <4>2, <5>1, <5>2
      <4>3. CASE e \notin V
          BY <3>6, <3>7, <4>1, <4>3
      <4> QED
          BY <4>2, <4>3
    <3>9. Len(h[k]) = Nth(K, k)
        BY <3>2, <3>3
    <3> HIDE DEF Hits, Those
    <3>10. Good(k)
        BY <3>2, <3>4, <3>5, <3>8, <3>9
    <3> QED
        BY <2>1, <3>10
  <2> QED
      BY <2>6, <2>7
<1>3. Bad = {} /\ n \in 0..n
  <2> HIDE DEF Bad
  <2> QED
      BY <1>2
<1>4. Good(n)
  <2> HIDE DEF Good
  <2> QED
      BY <1>3
<1>5. K \cap 1..n = K
    OBVIOUS
<1>6. Those(n) = {i \in K : s[i] \in V}
    BY <1>5
<1>7. Cardinality(Hits(n)) = Cardinality(Those(n))
    BY <1>4
<1>8. /\ h[n] \in Seq(Event) /\ Len(h[n]) = Nth(K, n)
      /\ \A i \in K : Nth(K, i) \in 1..Nth(K, n) /\ h[n][Nth(K, i)] = s[i]
      /\ \A m \in 1..Len(h[n]) : \E i \in K : h[n][m] = s[i]
  <2> HIDE DEF Hits, Those
  <2> QED
      BY <1>4, <1>5
<1> HIDE DEF Good, Those
<1> QED
    BY <1>6, <1>7, <1>8 DEF Count

\* The entries that are looked at, and those of them that are stored.
LEMMA ConsideredIs ==
    ASSUME NEW posted \in Batch
    PROVE  Considered(posted) \in Seq(Event) /\ Len(Considered(posted)) <= MaxBatch
<1>1. PICK n \in 0..MaxPosted : posted \in [1..n -> Event]
    BY DEF Batch, BoundedSeq, SeqOf
<1>2. n \in Nat /\ MaxBatch \in Nat /\ MaxBatch >= 1
    BY MonEventsAssumption
<1>3. posted \in Seq(Event) /\ Len(posted) = n
    BY <1>1, <1>2, IsASeq, LenProperties
<1> DEFINE least == Min({MaxBatch, n})
<1>4. least \in {MaxBatch, n} /\ least <= n /\ least <= MaxBatch
  <2>1. \E x \in {MaxBatch, n} : \A y \in {MaxBatch, n} : x <= y
      BY <1>2
  <2> QED
      BY <2>1 DEF Min
<1> HIDE DEF least
<1>5. least \in Int /\ \A i \in 1..least : posted[i] \in Event
    BY <1>1, <1>2, <1>4
<1>6. Considered(posted) = SubSeq(posted, 1, least)
    BY <1>3 DEF Considered, least
<1>7. SubSeq(posted, 1, least) \in Seq(Event) /\ Len(SubSeq(posted, 1, least)) = least
    BY <1>2, <1>3, <1>4, <1>5, SubSeqProperties
<1> QED
    BY <1>4, <1>6, <1>7

\* The entries of known types, and the loop over the batch that keeps them.
CleanIn(batch) == {k \in 1..Len(batch) : Clean(batch[k])}

LEMMA CleanedIs ==
    ASSUME NEW batch \in Seq(Event)
    PROVE  \E h : /\ Loops(h, batch, CleanIn(batch), Len(batch))
                 /\ Cleaned(batch) = h[Len(batch)]
<1> DEFINE Fold(h) == [n \in 0..Len(batch) |->
              IF n = 0 THEN <<>>
              ELSE IF Clean(batch[n]) THEN Append(h[n - 1], batch[n]) ELSE h[n - 1]]
<1>1. Len(batch) \in Nat
    BY LenProperties
<1>2. \A n \in 0..Len(batch) : n # 0 => (n \in CleanIn(batch) <=> Clean(batch[n]))
    BY <1>1 DEF CleanIn
<1>3. \A h : Loops(h, batch, CleanIn(batch), Len(batch)) <=> h = Fold(h)
    BY <1>2 DEF Loops
<1>4. PICK h : h = Fold(h)
    BY <1>1, <1>3, LoopEnds
<1>5. \E k : k = Fold(k) /\ Cleaned(batch) = k[Len(batch)]
    BY <1>4 DEF Cleaned
<1> HIDE DEF Fold
<1> QED
    BY <1>3, <1>5

\* What is left of a batch: entries of known types, each where they are counted,
\* with as many of any kind V as the batch has of them.
LEMMA CleanedRows ==
    ASSUME NEW batch \in Seq(Event)
    PROVE  /\ Cleaned(batch) \in Seq(Event)
           /\ Len(Cleaned(batch)) \in Nat /\ Len(Cleaned(batch)) <= Len(batch)
           /\ \A m \in 1..Len(Cleaned(batch)) : Clean(Cleaned(batch)[m])
           /\ \A i \in CleanIn(batch) :
                 LET m == Nth(CleanIn(batch), i)
                 IN  m \in 1..Len(Cleaned(batch)) /\ Cleaned(batch)[m] = batch[i]
           /\ \A V : Count(Cleaned(batch), 1..Len(Cleaned(batch)), V)
                       = Count(batch, CleanIn(batch), V)
<1> DEFINE K == CleanIn(batch)
           n == Len(batch)
           rows == Cleaned(batch)
<1>1. n \in Nat /\ \A k \in 1..n : batch[k] \in Event
    BY LenProperties, ElementOfSeq
<1>2. K \subseteq 1..n /\ \A i \in K : batch[i] \in Event /\ Clean(batch[i])
    BY <1>1 DEF CleanIn
<1>3. PICK h : Loops(h, batch, K, n) /\ rows = h[n]
    BY CleanedIs
<1> HIDE DEF K, n, rows
<1>4. /\ rows \in Seq(Event) /\ Len(rows) = Nth(K, n)
      /\ \A i \in K : Nth(K, i) \in 1..Nth(K, n) /\ rows[Nth(K, i)] = batch[i]
      /\ \A m \in 1..Len(rows) : \E i \in K : rows[m] = batch[i]
      /\ \A V : Count(rows, 1..Len(rows), V) = Count(batch, K, V)
  <2>1. n \in Nat /\ K \subseteq 1..n /\ (\A i \in K : batch[i] \in Event) /\ Loops(h, batch, K, n)
      BY <1>1, <1>2, <1>3
  <2>2. Collected(h[n], batch, K, n)
      BY <2>1, LoopCollects
  <2> QED
      BY <1>3, <2>2 DEF Collected
<1>5. Len(rows) \in Nat /\ Len(rows) <= n
  <2>1. CASE n = 0
    <3>1. Nth(K, 0) = 0
      <4>1. 1 \in Nat \ {0}
          OBVIOUS
      <4> QED
          BY <4>1, NthGrows
    <3> QED
        BY <1>4, <2>1, <3>1
  <2>2. CASE n # 0
      BY <1>1, <1>4, <2>2, NthGrows, LenProperties
  <2> QED
      BY <2>1, <2>2
<1>6. \A m \in 1..Len(rows) : Clean(rows[m])
    BY <1>2, <1>4
<1> QED
    BY <1>4, <1>5, <1>6 DEF K, n, rows

LEMMA CardsAre ==
    ASSUME NEW batch \in Seq(Event), NEW rows \in Seq(Event), Len(rows) <= Len(batch)
    PROVE  LET P == PushedRows(rows)
           IN  /\ Cards(batch, rows) \in Seq(Event)
               /\ Len(Cards(batch, rows)) = Cardinality(P)
               /\ \A i \in P : Cards(batch, rows)[Nth(P, i)] = batch[i]
<1> DEFINE P == PushedRows(rows)
           n == Len(rows)
           Fold(h) == [k \in 0..n |->
              IF k = 0 THEN <<>>
              ELSE IF k \in P THEN Append(h[k - 1], batch[k]) ELSE h[k - 1]]
<1>1. n \in Nat /\ Len(batch) \in Nat /\ DOMAIN rows = 1..n
      /\ \A k \in 1..n : batch[k] \in Event
    BY LenProperties, ElementOfSeq
<1>2. P \subseteq 1..n /\ P \cap 1..n = P
    BY <1>1 DEF PushedRows
<1>3. \A h : Loops(h, batch, P, n) <=> h = Fold(h)
    BY DEF Loops
<1>4. PICK g : g = Fold(g)
  <2> HIDE DEF Fold, P, n
  <2> QED
      BY <1>1, <1>3, LoopEnds
<1>5. \E h : h = Fold(h) /\ Cards(batch, rows) = h[n]
    BY <1>4 DEF Cards
<1> HIDE DEF Fold, P, n
<1>6. PICK h : h = Fold(h) /\ Cards(batch, rows) = h[n]
    BY <1>5
<1>7. Loops(h, batch, P, n)
    BY <1>3, <1>6
<1>8. \A i \in P : batch[i] \in Event
    BY <1>1, <1>2
<1>9. /\ h[n] \in Seq(Event) /\ Len(h[n]) = Nth(P, n)
      /\ \A i \in P : h[n][Nth(P, i)] = batch[i]
  <2>1. n \in Nat /\ P \subseteq 1..n /\ (\A i \in P : batch[i] \in Event) /\ Loops(h, batch, P, n)
      BY <1>1, <1>2, <1>7, <1>8
  <2>2. Collected(h[n], batch, P, n)
      BY <2>1, LoopCollects
  <2> QED
      BY <2>2 DEF Collected
<1>10. Nth(P, n) = Cardinality(P)
    BY <1>2 DEF Nth
<1> QED
    BY <1>6, <1>9, <1>10 DEF P

\* The first white screens, as a function of a batch.
WhiteIn(batch, n) == {i \in 1..n : batch[i].type \in WhiteScreen}

\* As long as every entry was accepted, cleaned and uncleaned batch agree.
LEMMA CleanSoFar ==
    ASSUME NEW batch \in Seq(Event), NEW i \in 1..Len(batch), \A k \in 1..i : Clean(batch[k])
    PROVE  \A k \in 1..i : k \in 1..Len(Cleaned(batch)) /\ Cleaned(batch)[k] = batch[k]
<1> SUFFICES ASSUME NEW k \in 1..i
             PROVE  k \in 1..Len(Cleaned(batch)) /\ Cleaned(batch)[k] = batch[k]
    OBVIOUS
<1>1. Len(batch) \in Nat /\ i \in Nat /\ k \in Nat /\ k \in 1..Len(batch)
    BY LenProperties
<1>2. k \in CleanIn(batch) /\ CleanIn(batch) \cap 1..k = 1..k
    BY <1>1 DEF CleanIn
<1>3. Nth(CleanIn(batch), k) = k
  <2>1. Cardinality(1..k) = k
      BY <1>1, FS_Interval
  <2> QED
      BY <1>2, <2>1 DEF Nth
<1> QED
    BY <1>2, <1>3, CleanedRows

LEMMA CardsShow ==
    ASSUME NEW batch \in Seq(Event)
    PROVE  LET shown == Cards(batch, Cleaned(batch))
           IN  /\ shown \in Seq(Event)
               /\ Len(shown) = Cardinality(WhiteIn(batch, Len(batch)))
               /\ \A i \in WhiteIn(batch, Len(batch)) :
                     (\A k \in 1..i : Clean(batch[k]))
                         => shown[Cardinality(WhiteIn(batch, i))] = batch[i]
<1> DEFINE rows == Cleaned(batch)
           P == PushedRows(rows)
           shown == Cards(batch, rows)
           V == {e \in Event : e.type \in WhiteScreen}
<1>1. /\ rows \in Seq(Event) /\ Len(rows) \in Nat /\ Len(rows) <= Len(batch)
      /\ Count(rows, 1..Len(rows), V) = Count(batch, CleanIn(batch), V)
  <2> HIDE DEF V
  <2> QED
      BY CleanedRows
<1>2. DOMAIN rows = 1..Len(rows) /\ \A m \in 1..Len(rows) : rows[m] \in Event
    BY <1>1, LenProperties, ElementOfSeq
<1>3. Len(batch) \in Nat /\ \A k \in 1..Len(batch) : batch[k] \in Event
    BY LenProperties, ElementOfSeq
<1>4. /\ shown \in Seq(Event) /\ Len(shown) = Cardinality(P)
      /\ \A i \in P : shown[Nth(P, i)] = batch[i]
  <2> HIDE DEF rows
  <2> QED
      BY <1>1, CardsAre
<1>5. P = {m \in 1..Len(rows) : rows[m] \in V}
  <2> HIDE DEF rows
  <2> QED
      BY <1>2 DEF PushedRows
<1>6. {i \in CleanIn(batch) : batch[i] \in V} = WhiteIn(batch, Len(batch))
    BY <1>3, MonEventsAssumption DEF CleanIn, WhiteIn, Clean
<1>7. Cardinality(P) = Cardinality(WhiteIn(batch, Len(batch)))
    BY <1>1, <1>5, <1>6 DEF Count
<1>8. ASSUME NEW i \in WhiteIn(batch, Len(batch)), \A k \in 1..i : Clean(batch[k])
      PROVE  shown[Cardinality(WhiteIn(batch, i))] = batch[i]
  <2>1. i \in 1..Len(batch) /\ batch[i].type \in WhiteScreen
      BY DEF WhiteIn
  <2>2. \A k \in 1..i : k \in 1..Len(rows) /\ rows[k] = batch[k]
      BY <1>8, <2>1, CleanSoFar
  <2> HIDE DEF rows, shown
  <2>3. \A k \in 1..i : k \in P <=> batch[k].type \in WhiteScreen
      BY <1>2, <2>2 DEF PushedRows
  <2>4. P \cap 1..i = WhiteIn(batch, i)
      BY <2>3 DEF WhiteIn
  <2>5. i \in P
      BY <2>1, <2>3, <1>3
  <2> QED
      BY <1>4, <2>4, <2>5 DEF Nth
<1> QED
    BY <1>4, <1>7, <1>8

-------------------------------------------------------------------------------
(***************************************************************************)
(* What a request stores, counted over projects and types.                 *)
(***************************************************************************)
Counts == [Project -> [Class -> Nat]]
PerProject(w) == [p \in Project |-> SumOf(w[p], Class)]

\* A sum of natural numbers is one.
LEMMA SumNat ==
    ASSUME NEW S, IsFiniteSet(S), NEW g, \A x \in S : g[x] \in Nat
    PROVE  SumOf(g, S) \in Nat
<1>1. {} \in SUBSET S /\ SumOf(g, {}) = 0
    BY SumEmpty
<1>2. SumOf(g, {}) \in Int /\ SumOf(g, S) \in Int /\ SumOf(g, {}) <= SumOf(g, S)
    BY <1>1, SumBound
<1> QED
    BY <1>1, <1>2

LEMMA TotalIs == TotalRows = SumOf(PerProject(window), Project)
<1> DEFINE Fold(h) == [s \in SUBSET Project |-> IF s = {} THEN 0
              ELSE MapThenSumSet(LAMBDA t : window[Some(s)][t], Class) + h[s \ {Some(s)}]]
<1>1. \A s \in SUBSET Project : s # {} => Some(s) \in Project
    BY SomeIn
<1>2. \A p : MapThenSumSet(LAMBDA t : window[p][t], Class) = SumOf(window[p], Class)
    BY DEF SumOf
<1>3. \A h : PartialSums(h, PerProject(window), Project) <=> h = Fold(h)
    BY <1>1, <1>2 DEF PartialSums, PerProject
<1>4. IsFiniteSet(Project)
    BY MonEventsAssumption
<1>5. PICK g : g = Fold(g)
    BY <1>3, <1>4, SumsExist
<1>6. \E h : h = Fold(h) /\ TotalRows = h[Project]
    BY <1>5 DEF Some, TotalRows, MapThenSumSet, MapThenFoldSet
<1> HIDE DEF Fold
<1>7. PICK h : h = Fold(h) /\ TotalRows = h[Project]
    BY <1>6
<1>8. PartialSums(h, PerProject(window), Project)
    BY <1>3, <1>7
<1> QED
    BY <1>4, <1>7, <1>8, SumOfIs

LEMMA TotalIsThen == TotalRows' = SumOf(PerProject(window'), Project)
<1>1. (TotalRows = SumOf(PerProject(window), Project))'
    BY TotalIs, PTL
<1> QED
    BY <1>1 DEF PerProject

Total(w) == SumOf(PerProject(w), Project)

LEMMA TotalNat ==
    ASSUME NEW w \in Counts
    PROVE  /\ \A p \in Project : PerProject(w)[p] = SumOf(w[p], Class) /\ PerProject(w)[p] \in Nat
           /\ Total(w) \in Nat
<1>1. IsFiniteSet(Project) /\ IsFiniteSet(Class)
    BY MonEventsAssumption
<1>2. ASSUME NEW p \in Project PROVE SumOf(w[p], Class) \in Nat
  <2>1. \A t \in Class : w[p][t] \in Nat
      BY DEF Counts
  <2> QED
      BY <1>1, <2>1, SumNat
<1>3. \A p \in Project : PerProject(w)[p] = SumOf(w[p], Class) /\ PerProject(w)[p] \in Nat
    BY <1>2 DEF PerProject
<1> QED
    BY <1>1, <1>3, SumNat DEF Total

\* A batch adds as many rows as it has, each to the count of its project and type.
LEMMA TotalGrows ==
    ASSUME NEW w \in Counts, NEW rows \in Seq(Event),
           \A m \in 1..Len(rows) : Clean(rows[m]),
           NEW v, v = [p \in Project |-> [t \in Class |-> w[p][t] + RowsOf(rows, p, t)]]
    PROVE  v \in Counts /\ Total(v) = Total(w) + Len(rows)
<1> DEFINE D == 1..Len(rows)
           Of(p) == {i \in D : rows[i].project = p}
           typed == [i \in D |-> rows[i].type]
           placed == [i \in D |-> rows[i].project]
           added(p) == [t \in Class |-> RowsOf(rows, p, t)]
           more == [p \in Project |-> Cardinality(Of(p))]
<1>1. /\ IsFiniteSet(Project) /\ IsFiniteSet(Class)
      /\ Len(rows) \in Nat /\ DOMAIN rows = D /\ IsFiniteSet(D) /\ Cardinality(D) = Len(rows)
  <2>1. Len(rows) \in Nat /\ DOMAIN rows = 1..Len(rows)
      BY LenProperties
  <2>2. \A n \in Nat : IsFiniteSet(1..n) /\ Cardinality(1..n) = n
    <3> TAKE n \in Nat
    <3>1. IsFiniteSet(1..n) /\ Cardinality(1..n) = IF 1 > n THEN 0 ELSE n - 1 + 1
        BY FS_Interval
    <3> QED
        BY <3>1
  <2> QED
      BY <2>1, <2>2, MonEventsAssumption
<1>2. \A i \in D : rows[i].project \in Project /\ rows[i].type \in Class
  <2>1. \A i \in D : rows[i] \in Event /\ Clean(rows[i])
      BY <1>1, ElementOfSeq
  <2> QED
      BY <2>1 DEF Event, Clean
<1>3. \A p : Of(p) \subseteq D /\ IsFiniteSet(Of(p))
  <2>1. \A p : Of(p) \subseteq D
      OBVIOUS
  <2> HIDE DEF Of, D
  <2> QED
      BY <1>1, <2>1, FS_Subset
<1>4. \A p, t : RowsOf(rows, p, t) = Cardinality(Valued(Of(p), typed, {t}))
  <2> SUFFICES ASSUME NEW p, NEW t
               PROVE  RowsOf(rows, p, t) = Cardinality(Valued(Of(p), typed, {t}))
      OBVIOUS
  <2>1. {i \in D : rows[i].project = p /\ rows[i].type = t} = Valued(Of(p), typed, {t})
      BY DEF Valued
  <2> QED
      BY <1>1, <2>1 DEF RowsOf
<1>5. \A p, t : RowsOf(rows, p, t) \in Nat
  <2> SUFFICES ASSUME NEW p, NEW t PROVE RowsOf(rows, p, t) \in Nat
      OBVIOUS
  <2> DEFINE These == Valued(Of(p), typed, {t})
  <2>1. These \subseteq Of(p)
      BY DEF Valued
  <2>2. RowsOf(rows, p, t) = Cardinality(These)
      BY <1>4
  <2> HIDE DEF These, Of
  <2> QED
      BY <1>3, <2>1, <2>2, FS_Subset, FS_CardinalityType
<1>6. v \in Counts
    BY <1>5 DEF Counts
<1>7. \A p \in Project : SumOf(added(p), Class) = Cardinality(Of(p))
  <2> SUFFICES ASSUME NEW p \in Project
               PROVE  SumOf(added(p), Class) = Cardinality(Of(p))
      OBVIOUS
  <2>1. \A t \in Class : added(p)[t] = Cardinality(Valued(Of(p), typed, {t}))
      BY <1>4
  <2>2. Valued(Of(p), typed, Class) = Of(p)
      BY <1>2 DEF Valued
  <2> HIDE DEF Of, typed, added
  <2>3. SumOf(added(p), Class) = Cardinality(Valued(Of(p), typed, Class))
      BY <1>1, <1>3, <2>1, CountByValue
  <2> QED
      BY <2>2, <2>3
<1>8. SumOf(more, Project) = Len(rows)
  <2>1. \A p \in Project : more[p] = Cardinality(Valued(D, placed, {p}))
    <3>1. \A p : Of(p) = Valued(D, placed, {p})
        BY DEF Valued
    <3> QED
        BY <3>1
  <2>2. Valued(D, placed, Project) = D
      BY <1>2 DEF Valued
  <2>0. IsFiniteSet(D) /\ IsFiniteSet(Project)
      BY <1>1
  <2> HIDE DEF D, Of, placed, more
  <2>3. SumOf(more, Project) = Cardinality(Valued(D, placed, Project))
      BY <2>0, <2>1, CountByValue
  <2> QED
      BY <1>1, <2>2, <2>3
<1>9. \A p \in Project : PerProject(v)[p] = PerProject(w)[p] + more[p]
  <2> SUFFICES ASSUME NEW p \in Project
               PROVE  PerProject(v)[p] = PerProject(w)[p] + more[p]
      OBVIOUS
  <2>1. \A t \in Class : /\ w[p][t] \in Int /\ added(p)[t] \in Int
                        /\ v[p][t] = w[p][t] + added(p)[t]
      BY <1>5 DEF Counts
  <2> DEFINE vp == v[p]
             wp == w[p]
             ap == added(p)
  <2>2. \A t \in Class : wp[t] \in Int /\ ap[t] \in Int /\ vp[t] = wp[t] + ap[t]
      BY <2>1
  <2> HIDE DEF added, vp, wp, ap
  <2>3. SumOf(vp, Class) = SumOf(wp, Class) + SumOf(ap, Class)
      BY <1>1, <2>2, SumAdd
  <2>4. /\ PerProject(v)[p] = SumOf(vp, Class) /\ PerProject(w)[p] = SumOf(wp, Class)
        /\ SumOf(ap, Class) = more[p]
      BY <1>6, <1>7, TotalNat DEF vp, wp, ap
  <2> QED
      BY <2>3, <2>4
<1>10. \A p \in Project : /\ PerProject(w)[p] \in Int /\ more[p] \in Int
                          /\ PerProject(v)[p] = PerProject(w)[p] + more[p]
  <2>1. \A p \in Project : more[p] \in Int
    <3> HIDE DEF Of
    <3> QED
        BY <1>3, FS_CardinalityType
  <2>2. \A p \in Project : PerProject(w)[p] \in Nat
      BY TotalNat
  <2> HIDE DEF more
  <2> QED
      BY <1>9, <2>1, <2>2
<1> HIDE DEF more
<1>11. Total(v) = Total(w) + SumOf(more, Project)
    BY <1>1, <1>10, SumAdd DEF Total
<1> QED
    BY <1>6, <1>8, <1>11

-------------------------------------------------------------------------------
(***************************************************************************)
(* The steps of the ingestion.                                             *)
(***************************************************************************)
EventInv == EventTypeOK /\ CardsShowTheirEntries

LEMMA WindowCounts == EventTypeOK => window \in Counts
<1>1. 0..MaxRows \subseteq Nat
    BY MonEventsAssumption
<1> QED
    BY <1>1 DEF EventTypeOK, Counts

LEMMA TotalStays == window' = window => TotalRows' = TotalRows
<1>1. window' = window => PerProject(window') = PerProject(window)
    OBVIOUS
<1> QED
    BY <1>1, TotalIs, TotalIsThen

\* The rows the table gains are the entries the answer calls accepted.
LEMMA IngestTotals ==
    ASSUME EventTypeOK, NEW posted \in Batch, IngestEvents(posted)
    PROVE  /\ TotalRows \in Nat /\ TotalRows' \in Nat
           /\ persist => TotalRows' = TotalRows + receipt'
           /\ ~persist => TotalRows' = TotalRows
           /\ receipt' \in 0..MaxBatch
<1> DEFINE batch == Considered(posted)
           rows == Cleaned(batch)
<1>1. window \in Counts /\ TotalRows = Total(window) /\ TotalRows \in Nat
    BY WindowCounts, TotalIs, TotalNat DEF Total
<1>2. batch \in Seq(Event) /\ Len(batch) <= MaxBatch /\ MaxBatch \in Nat /\ Len(batch) \in Nat
    BY ConsideredIs, MonEventsAssumption, LenProperties
<1> HIDE DEF batch
<1>3. /\ rows \in Seq(Event) /\ Len(rows) \in Nat /\ Len(rows) <= Len(batch)
      /\ \A m \in 1..Len(rows) : Clean(rows[m])
    BY <1>2, CleanedRows
<1>4. Len(rows) \in 0..MaxBatch /\ 0 \in 0..MaxBatch
    BY <1>2, <1>3
<1> HIDE DEF rows
<1>5. CASE PushDirectly(posted)
  <2>1. ~persist /\ receipt' = Len(rows) /\ window' = window
      BY <1>5 DEF PushDirectly, rows, batch
  <2> QED
      BY <1>1, <1>4, <2>1, TotalStays
<1>6. CASE InsertMonEvents(posted)
  <2>1. persist /\ receipt' = Len(rows) /\ window' = Stored(rows)
      BY <1>6 DEF InsertMonEvents, rows, batch
  <2>2. window' = [p \in Project |-> [t \in Class |-> window[p][t] + RowsOf(rows, p, t)]]
      BY <2>1 DEF Stored
  <2>3. Total(window') = Total(window) + Len(rows)
      BY <1>1, <1>3, <2>2, TotalGrows
  <2>4. TotalRows' = Total(window')
      BY TotalIsThen DEF Total
  <2> QED
      BY <1>1, <1>3, <1>4, <2>1, <2>3, <2>4
<1>7. CASE InsertFails(posted)
  <2>1. persist /\ receipt' = 0 /\ window' = window
      BY <1>7 DEF InsertFails
  <2> QED
      BY <1>1, <1>4, <2>1, TotalStays
<1> QED
    BY <1>5, <1>6, <1>7 DEF IngestEvents

LEMMA LeaveKeepsTypes ==
    ASSUME EventTypeOK, NEW p \in Project, NEW t \in Class, LeaveWindow(p, t)
    PROVE  EventTypeOK'
<1>1. /\ window \in [Project -> [Class -> 0..MaxRows]] /\ MaxRows \in Nat
      /\ window[p][t] > 0
      /\ window' = [window EXCEPT ![p][t] = @ - 1]
    BY MonEventsAssumption DEF EventTypeOK, LeaveWindow
<1>2. window' \in [Project -> [Class -> 0..MaxRows]]
    BY <1>1
<1> QED
    BY <1>2 DEF EventTypeOK, LeaveWindow

LEMMA IngestKeepsInv ==
    ASSUME EventInv, NEW posted \in Batch, IngestEvents(posted)
    PROVE  EventInv'
<1> DEFINE batch == Considered(posted)
<1>0. EventTypeOK /\ CardsShowTheirEntries
    BY DEF EventInv
<1>1. batch \in Seq(Event)
    BY ConsideredIs
<1>2. receipt' \in 0..MaxBatch
    BY <1>0, IngestTotals
<1>3. CASE PushDirectly(posted)
  <2> HIDE DEF batch
  <2>1. /\ entries' = batch /\ cards' = Cards(batch, Cleaned(batch))
        /\ UNCHANGED <<persist, window>>
      BY <1>3 DEF PushDirectly, batch
  <2>2. \A n : WhiteScreensUpTo(n)' = WhiteIn(batch, n)
      BY <2>1 DEF WhiteScreensUpTo, WhiteIn
  <2>3. /\ cards' \in Seq(Event) /\ Len(cards') = Cardinality(WhiteIn(batch, Len(batch)))
        /\ \A i \in WhiteIn(batch, Len(batch)) :
              (\A k \in 1..i : Clean(batch[k]))
                  => cards'[Cardinality(WhiteIn(batch, i))] = batch[i]
      BY <1>1, <2>1, CardsShow
  <2>4. CardsShowTheirEntries'
      BY <2>1, <2>2, <2>3 DEF CardsShowTheirEntries
  <2>5. EventTypeOK'
      BY <1>0, <1>1, <1>2, <2>1, <2>3 DEF EventTypeOK
  <2> QED
      BY <2>4, <2>5 DEF EventInv
<1>4. CASE InsertMonEvents(posted) \/ InsertFails(posted)
  <2>1. UNCHANGED <<persist, entries, cards>>
      BY <1>4 DEF InsertMonEvents, InsertFails
  <2>2. CardsShowTheirEntries'
      BY <1>0, <2>1 DEF CardsShowTheirEntries, WhiteScreensUpTo
  <2>3. window' \in [Project -> [Class -> 0..MaxRows]]
    <3>1. CASE InsertFails(posted)
        BY <1>0, <3>1 DEF InsertFails, EventTypeOK
    <3>2. CASE InsertMonEvents(posted)
      <4> HIDE DEF batch
      <4> DEFINE rows == Cleaned(batch)
      <4>1. /\ rows \in Seq(Event) /\ \A m \in 1..Len(rows) : Clean(rows[m])
          BY <1>1, CleanedRows
      <4> HIDE DEF rows
      <4>2. /\ window' = Stored(rows)
            /\ \A p \in Project, t \in Class : window'[p][t] <= MaxRows
          BY <3>2 DEF InsertMonEvents, rows, batch
      <4>3. window' = [p \in Project |-> [t \in Class |-> window[p][t] + RowsOf(rows, p, t)]]
          BY <4>2 DEF Stored
      <4>4. window' \in Counts
          BY <1>0, <4>1, <4>3, TotalGrows, WindowCounts
      <4> QED
          BY <4>2, <4>4, MonEventsAssumption DEF Counts
    <3> QED
        BY <1>4, <3>1, <3>2
  <2>4. EventTypeOK'
      BY <1>0, <1>2, <2>1, <2>3 DEF EventTypeOK
  <2> QED
      BY <2>2, <2>4 DEF EventInv
<1> QED
    BY <1>3, <1>4 DEF IngestEvents

LEMMA EventInvStep ==
    ASSUME EventInv, [EventNext]_eventVars
    PROVE  EventInv'
<1>0. EventTypeOK /\ CardsShowTheirEntries
    BY DEF EventInv
<1>1. ASSUME NEW posted \in Batch, IngestEvents(posted)
      PROVE  EventInv'
    BY <1>1, IngestKeepsInv
<1>2. ASSUME NEW p \in Project, NEW t \in Class, LeaveWindow(p, t)
      PROVE  EventInv'
  <2>1. EventTypeOK'
      BY <1>0, <1>2, LeaveKeepsTypes
  <2>2. UNCHANGED <<receipt, entries, cards>>
      BY <1>2 DEF LeaveWindow
  <2>3. CardsShowTheirEntries'
      BY <1>0, <2>2 DEF CardsShowTheirEntries, WhiteScreensUpTo
  <2> QED
      BY <2>1, <2>3 DEF EventInv
<1>3. CASE UNCHANGED eventVars
    BY <1>0, <1>3 DEF EventInv, EventTypeOK, CardsShowTheirEntries, WhiteScreensUpTo, eventVars
<1> QED
    BY <1>1, <1>2, <1>3 DEF EventNext

LEMMA EventInvInit == EventInit => EventInv
<1> SUFFICES ASSUME EventInit PROVE EventInv
    OBVIOUS
<1>1. <<>> \in Seq(Event) /\ Len(<<>>) = 0
    BY EmptySeq
<1>2. EventTypeOK
    BY <1>1, MonEventsAssumption DEF EventInit, EventTypeOK
<1>3. WhiteScreensUpTo(0) = {} /\ Cardinality({}) = 0
    BY FS_EmptySet DEF WhiteScreensUpTo
<1>4. CardsShowTheirEntries
    BY <1>1, <1>3 DEF EventInit, CardsShowTheirEntries
<1> QED
    BY <1>2, <1>4 DEF EventInv

-------------------------------------------------------------------------------
(***************************************************************************)
(* The inductive invariant.                                                *)
(***************************************************************************)
AtRule == {"count", "detail", "find", "update", "insert", "push"}

ScanState == [pc : AtRule \cup {"scan", "wait"}, todo : SUBSET Project,
              project : Project \cup {NoProject}, rule : 0..Len(Rules), row : Nat,
              torn : BOOLEAN]

AlertTypes == /\ torn \in [Fault -> BOOLEAN]
              /\ alert \in [Fault -> Seq(Row)]
              /\ job \in [Job -> ScanState]
              /\ failures \in Nat

\* A scan that is at a rule has a project and a rule.
OnFault(s) == s.pc \in AtRule => s.project \in Project /\ s.rule \in 1..Len(Rules)

ScansOnFaults == \A j \in Job : OnFault(job[j])

OnePending == \A f \in Fault : \A m, n \in Pending(f) : m = n

\* The scan on its way to the robot is the only one with that row, and the row
\* is an urgent one that was not pushed yet.
Carries(j, f, n) == job[j].pc = "push" /\ Watched(j) = f /\ job[j].row = n

CarriedRows ==
    \A j \in Job, f \in Fault, n \in Nat : Carries(j, f, n) =>
        /\ n \in DOMAIN alert[f] /\ f[2] \in Urgent /\ alert[f][n].pushed = 0
        /\ \A k \in Job : Carries(k, f, n) => k = j

PushedAtMost ==
    \A f \in Fault : \A n \in DOMAIN alert[f] :
        alert[f][n].pushed <= (IF f[2] \in Urgent THEN 1 ELSE 0)

\* Without a failure every urgent row was pushed or is on its way.
PushedUnlessCarried ==
    failures = 0 => \A f \in Fault : \A n \in DOMAIN alert[f] :
        f[2] \in Urgent /\ alert[f][n].pushed = 0 => \E j \in Job : Carries(j, f, n)

AlertInv == /\ AlertTypes
            /\ ScansOnFaults
            /\ OnePending
            /\ CarriedRows
            /\ PushedAtMost
            /\ PushedUnlessCarried

-------------------------------------------------------------------------------
(***************************************************************************)
(* How a scan moves.                                                       *)
(***************************************************************************)
\* Scan j moves to the state s, which is not on its way to the robot.
Moves(j, s) == /\ job' = [job EXCEPT ![j] = s]
               /\ s \in ScanState /\ OnFault(s) /\ s.pc # "push"

LEMMA FaultWatched ==
    ASSUME AlertTypes, ScansOnFaults, NEW j \in Job, job[j].pc \in AtRule
    PROVE  Watched(j) \in Fault /\ Watched(j)[2] = Rules[job[j].rule]
<1>1. job[j].project \in Project /\ job[j].rule \in 1..Len(Rules)
    BY DEF ScansOnFaults, OnFault
<1>2. Rules[job[j].rule] \in Class
    BY <1>1, MonAlertsAssumption
<1> QED
    BY <1>1, <1>2 DEF Watched, Fault

LEMMA IdleState == Idle \in ScanState /\ OnFault(Idle) /\ Idle.pc = "wait"
<1>1. Len(Rules) \in Nat
    BY MonAlertsAssumption, LenProperties
<1> QED
    BY <1>1 DEF Idle, ScanState, OnFault, AtRule

LEMMA VisitMoves ==
    ASSUME AlertTypes, NEW j \in Job, NEW projects \in SUBSET Project,
           projects # {} => Len(Rules) >= 1, Visit(j, projects)
    PROVE  \E s : Moves(j, s)
<1>1. CASE projects = {}
    BY <1>1, IdleState DEF Visit, Moves
<1>2. CASE projects # {}
  <2>1. PICK p \in projects :
           job' = [job EXCEPT ![j] = [Idle EXCEPT !.pc = "count", !.project = p, !.rule = 1,
                                                  !.todo = projects \ {p}]]
      BY <1>2 DEF Visit
  <2> DEFINE s == [Idle EXCEPT !.pc = "count", !.project = p, !.rule = 1,
                               !.todo = projects \ {p}]
  <2>2. Len(Rules) \in Nat /\ Len(Rules) >= 1
      BY <1>2, MonAlertsAssumption, LenProperties
  <2> DEFINE a == [Idle EXCEPT !.pc = "count"]
             b == [a EXCEPT !.project = p]
             c == [b EXCEPT !.rule = 1]
  <2>3. a \in ScanState /\ a.pc = "count"
      BY IdleState DEF ScanState, AtRule
  <2> HIDE DEF a
  <2>4. b \in ScanState /\ b.pc = "count" /\ b.project = p
      BY <2>3 DEF ScanState
  <2> HIDE DEF b
  <2>5. c \in ScanState /\ c.pc = "count" /\ c.project = p /\ c.rule = 1
      BY <2>2, <2>4 DEF ScanState
  <2> HIDE DEF c
  <2> DEFINE d == [c EXCEPT !.todo = projects \ {p}]
  <2>6. d \in ScanState /\ d.pc = "count" /\ d.project = p /\ d.rule = 1
      BY <2>5 DEF ScanState
  <2>7. s = d
      BY IdleState DEF ScanState, a, b, c
  <2> HIDE DEF d, s
  <2>8. OnFault(d)
      BY <2>2, <2>6 DEF OnFault
  <2> QED
      BY <2>1, <2>6, <2>7, <2>8 DEF Moves, s
<1> QED
    BY <1>1, <1>2

LEMMA NextRuleMoves ==
    ASSUME AlertTypes, ScansOnFaults, NEW j \in Job, job[j].pc \in AtRule, NextRule(j)
    PROVE  \E s : Moves(j, s)
<1>1. /\ job[j] \in ScanState /\ job[j].project \in Project
      /\ job[j].rule \in 1..Len(Rules) /\ Len(Rules) \in Nat
    BY MonAlertsAssumption, LenProperties DEF AlertTypes, ScansOnFaults, OnFault
<1>2. CASE job[j].rule < Len(Rules)
  <2> DEFINE x == job[j]
             a == [x EXCEPT !.pc = "count"]
             b == [a EXCEPT !.rule = @ + 1]
             c == [b EXCEPT !.row = 0]
             s == [c EXCEPT !.torn = FALSE]
  <2>1. job' = [job EXCEPT ![j] = [x EXCEPT !.pc = "count", !.rule = @ + 1, !.row = 0,
                                            !.torn = FALSE]]
      BY <1>2 DEF NextRule
  <2>2. [x EXCEPT !.pc = "count", !.rule = @ + 1, !.row = 0, !.torn = FALSE] = s
      BY <1>1 DEF ScanState
  <2>3. /\ a \in ScanState /\ a.pc = "count" /\ a.rule = x.rule /\ a.project = x.project
      BY <1>1 DEF ScanState, AtRule
  <2> HIDE DEF a
  <2>4. b \in ScanState /\ b.pc = "count" /\ b.rule = x.rule + 1 /\ b.project = x.project
      BY <1>1, <1>2, <2>3 DEF ScanState
  <2> HIDE DEF b
  <2>5. c \in ScanState /\ c.pc = "count" /\ c.rule = x.rule + 1 /\ c.project = x.project
      BY <2>4 DEF ScanState
  <2> HIDE DEF c
  <2>6. s \in ScanState /\ s.pc = "count" /\ s.rule = x.rule + 1 /\ s.project = x.project
      BY <2>5 DEF ScanState
  <2>7. OnFault(s)
    <3> HIDE DEF s
    <3> QED
        BY <1>1, <1>2, <2>6 DEF OnFault
  <2> QED
      BY <2>1, <2>2, <2>6, <2>7 DEF Moves
<1>3. CASE ~(job[j].rule < Len(Rules))
  <2>1. Visit(j, job[j].todo) /\ job[j].todo \in SUBSET Project /\ Len(Rules) >= 1
      BY <1>1, <1>3 DEF NextRule, ScanState
  <2> QED
      BY <2>1, VisitMoves
<1> QED
    BY <1>2, <1>3

LEMMA GotoMoves ==
    ASSUME AlertTypes, ScansOnFaults, NEW j \in Job, NEW pc,
           Goto(j, pc), pc \in {"scan", "wait"} \/ (pc \in AtRule /\ job[j].pc \in AtRule),
           pc # "push"
    PROVE  \E s : Moves(j, s)
<1> DEFINE s == [job[j] EXCEPT !.pc = pc]
<1>1. job[j] \in ScanState
    BY DEF AlertTypes
<1>2. job' = [job EXCEPT ![j] = s]
    BY DEF Goto
<1>3. s \in ScanState /\ s.pc = pc /\ s.project = job[j].project /\ s.rule = job[j].rule
    BY <1>1 DEF ScanState
<1>4. OnFault(s)
    BY <1>3 DEF ScansOnFaults, OnFault, AtRule
<1> QED
    BY <1>2, <1>3, <1>4 DEF Moves

\* A move takes nothing to the robot, and takes no row away from it unless it
\* is a failure.
LEMMA CarriesAfterMove ==
    ASSUME AlertTypes, NEW j \in Job, NEW s, Moves(j, s)
    PROVE  \A k \in Job : \A f, n :
              /\ Carries(k, f, n)' => k # j /\ Carries(k, f, n)
              /\ k # j => (Carries(k, f, n)' <=> Carries(k, f, n))
<1>1. job'[j] = s /\ s.pc # "push" /\ \A k \in Job : k # j => job'[k] = job[k]
    BY DEF Moves, AlertTypes
<1>2. \A k \in Job : k # j => Watched(k)' = Watched(k)
    BY <1>1 DEF Watched
<1> QED
    BY <1>1, <1>2 DEF Carries

LEMMA MoveKeepsInv ==
    ASSUME AlertInv, NEW j \in Job, NEW s, Moves(j, s), torn' = torn, alert' = alert,
           failures' \in Nat,
           (failures' = failures /\ job[j].pc # "push") \/ failures' # 0
    PROVE  AlertInv'
<1>0. AlertTypes
    BY DEF AlertInv
<1>1. AlertTypes'
    BY <1>0 DEF AlertTypes, Moves
<1>2. ScansOnFaults'
  <2>1. \A k \in Job : job'[k] = s \/ job'[k] = job[k]
      BY <1>0 DEF Moves, AlertTypes
  <2> QED
      BY <2>1 DEF ScansOnFaults, Moves, AlertInv, OnFault
<1>3. OnePending' /\ PushedAtMost'
    BY DEF AlertInv, OnePending, PushedAtMost, Pending
<1>4. \A k \in Job : \A f, n :
         /\ Carries(k, f, n)' => k # j /\ Carries(k, f, n)
         /\ k # j => (Carries(k, f, n)' <=> Carries(k, f, n))
    BY <1>0, CarriesAfterMove
<1>5. CarriedRows'
  <2> SUFFICES ASSUME NEW i \in Job, NEW f \in Fault, NEW n \in Nat, Carries(i, f, n)'
               PROVE  /\ n \in DOMAIN alert[f] /\ f[2] \in Urgent /\ alert[f][n].pushed = 0
                      /\ \A k \in Job : Carries(k, f, n)' => k = i
      BY DEF CarriedRows
  <2>1. Carries(i, f, n)
      BY <1>4
  <2> QED
      BY <1>4, <2>1 DEF AlertInv, CarriedRows
<1>6. PushedUnlessCarried'
  <2> SUFFICES ASSUME failures' = 0, NEW f \in Fault, NEW n \in DOMAIN alert[f],
                      f[2] \in Urgent, alert[f][n].pushed = 0
               PROVE  \E k \in Job : Carries(k, f, n)'
      BY DEF PushedUnlessCarried
  <2>1. failures = 0 /\ job[j].pc # "push"
      OBVIOUS
  <2>2. PICK k \in Job : Carries(k, f, n)
      BY <2>1 DEF AlertInv, PushedUnlessCarried
  <2>3. k # j
      BY <2>1, <2>2 DEF Carries
  <2> QED
      BY <1>4, <2>2, <2>3
<1> QED
    BY <1>1, <1>2, <1>3, <1>5, <1>6 DEF AlertInv

-------------------------------------------------------------------------------
(***************************************************************************)
(* The steps that write an alert.                                          *)
(***************************************************************************)
\* A new row is the only pending one of its fault, by the unique key, and its
\* index is one that no scan carries.
LEMMA InsertKeepsInv ==
    ASSUME AlertInv, NEW j \in Job, InsertMonAlert(j)
    PROVE  AlertInv'
<1> DEFINE new == [status |-> "pending", pushed |-> 0]
<1> SUFFICES ASSUME NEW f, f = Watched(j), NEW last, last = Len(alert[f]) + 1
             PROVE  AlertInv'
    OBVIOUS
<1>0. AlertTypes /\ ScansOnFaults
    BY DEF AlertInv
<1>1. /\ job[j].pc = "insert" /\ UniqueKey(f, "pending")
      /\ failures' = failures /\ torn' = torn
    BY DEF InsertMonAlert, Accepted
<1>2. f \in Fault
    BY <1>0, <1>1, FaultWatched DEF AtRule
<1>3. alert' = [alert EXCEPT ![f] = Append(alert[f], new)] /\ alert[f] \in Seq(Row)
    BY <1>0, <1>2 DEF InsertMonAlert, AlertTypes
<1>4. new \in Row
    BY DEF Row
<1> HIDE DEF new
<1>5. /\ Append(alert[f], new) \in Seq(Row)
      /\ DOMAIN alert[f] = 1..Len(alert[f]) /\ Len(alert[f]) \in Nat
      /\ DOMAIN Append(alert[f], new) = 1..(Len(alert[f]) + 1)
      /\ \A n \in 1..Len(alert[f]) : Append(alert[f], new)[n] = alert[f][n]
      /\ Append(alert[f], new)[Len(alert[f]) + 1] = new
    BY <1>3, <1>4, AppendProperties, LenProperties
<1>6. /\ alert' \in [Fault -> Seq(Row)]
      /\ \A g \in Fault : g # f => alert'[g] = alert[g]
      /\ DOMAIN alert'[f] = 1..last
      /\ \A n \in DOMAIN alert[f] : n \in DOMAIN alert'[f] /\ n # last /\ alert'[f][n] = alert[f][n]
      /\ alert'[f][last] = new
      /\ \A n \in DOMAIN alert'[f] : n = last \/ n \in DOMAIN alert[f]
    BY <1>0, <1>2, <1>3, <1>5 DEF AlertTypes
<1>7. new.status = "pending" /\ new.pushed = 0
    BY DEF new
<1>8. OnePending'
  <2> SUFFICES ASSUME NEW g \in Fault, NEW m \in Pending(g)', NEW n \in Pending(g)'
               PROVE  m = n
      BY DEF OnePending
  <2>1. CASE g # f
      BY <1>6, <2>1 DEF AlertInv, OnePending, Pending
  <2>2. CASE g = f
    <3>1. \A i \in Pending(f)' : i = last
        BY <1>1, <1>6 DEF Pending, UniqueKey
    <3> QED
        BY <2>2, <3>1
  <2> QED
      BY <2>1, <2>2
<1>9. PushedAtMost'
  <2> SUFFICES ASSUME NEW g \in Fault, NEW n \in DOMAIN alert'[g]
               PROVE  alert'[g][n].pushed <= (IF g[2] \in Urgent THEN 1 ELSE 0)
      BY DEF PushedAtMost
  <2>1. CASE g = f /\ n = last
      BY <1>6, <1>7, <2>1
  <2>2. CASE g # f \/ n # last
    <3>1. n \in DOMAIN alert[g] /\ alert'[g][n] = alert[g][n]
        BY <1>6, <2>2
    <3> QED
        BY <3>1 DEF AlertInv, PushedAtMost
  <2> QED
      BY <2>1, <2>2
<1>10. \A k \in Job, n \in Nat : Carries(k, f, n) => n # last
    BY <1>2, <1>5 DEF AlertInv, CarriedRows
<1>11. CASE Pushes(f)
  <2> DEFINE a == [job[j] EXCEPT !.pc = "push"]
             s == [a EXCEPT !.row = last]
  <2>1. job[j] \in ScanState /\ last \in Nat
      BY <1>0, <1>5 DEF AlertTypes
  <2>2. job' = [job EXCEPT ![j] = s]
    <3>1. job' = [job EXCEPT ![j].pc = "push", ![j].row = last]
        BY <1>11 DEF InsertMonAlert
    <3>2. [job EXCEPT ![j].pc = "push", ![j].row = last] = [job EXCEPT ![j] = s]
        BY <1>0, <2>1 DEF AlertTypes, ScanState
    <3> QED
        BY <3>1, <3>2
  <2>3. a \in ScanState /\ a.pc = "push" /\ a.project = job[j].project /\ a.rule = job[j].rule
      BY <2>1 DEF ScanState, AtRule
  <2> HIDE DEF a
  <2>4. s \in ScanState /\ s.pc = "push" /\ s.project = job[j].project /\ s.rule = job[j].rule
        /\ s.row = last
      BY <2>1, <2>3 DEF ScanState
  <2> HIDE DEF s
  <2>5. job'[j] = s /\ \A k \in Job : k # j => job'[k] = job[k]
      BY <1>0, <2>2 DEF AlertTypes
  <2>6. AlertTypes' /\ ScansOnFaults'
    <3>1. AlertTypes'
        BY <1>0, <1>1, <1>6, <2>2, <2>4 DEF AlertTypes
    <3>2. OnFault(s)
        BY <1>0, <1>1, <2>4 DEF ScansOnFaults, OnFault, AtRule
    <3> QED
        BY <1>0, <2>5, <3>1, <3>2 DEF ScansOnFaults, OnFault
  <2>7. Carries(j, f, last)' /\ \A g, n : Carries(j, g, n)' => g = f /\ n = last
      BY <2>4, <2>5 DEF Carries, Watched
  <2>8. \A k \in Job : \A g, n : k # j => (Carries(k, g, n)' <=> Carries(k, g, n))
      BY <2>5 DEF Carries, Watched
  <2>9. \A g, n : ~Carries(j, g, n)
      BY <1>1 DEF Carries
  <2>10. CarriedRows'
    <3> SUFFICES ASSUME NEW i \in Job, NEW g \in Fault, NEW n \in Nat, Carries(i, g, n)'
                 PROVE  /\ n \in DOMAIN alert'[g] /\ g[2] \in Urgent /\ alert'[g][n].pushed = 0
                        /\ \A k \in Job : Carries(k, g, n)' => k = i
        BY DEF CarriedRows
    <3>1. CASE i = j
      <4>1. g = f /\ n = last /\ g[2] \in Urgent
          BY <1>11, <2>7, <3>1 DEF Pushes
      <4>2. n \in DOMAIN alert'[g] /\ alert'[g][n].pushed = 0
          BY <1>5, <1>6, <1>7, <4>1
      <4> QED
          BY <1>10, <2>8, <3>1, <4>1, <4>2
    <3>2. CASE i # j
      <4>1. Carries(i, g, n)
          BY <2>8, <3>2
      <4>2. /\ n \in DOMAIN alert[g] /\ g[2] \in Urgent /\ alert[g][n].pushed = 0
            /\ \A k \in Job : Carries(k, g, n) => k = i
          BY <4>1 DEF AlertInv, CarriedRows
      <4>3. n \in DOMAIN alert'[g] /\ alert'[g][n] = alert[g][n]
          BY <1>6, <4>2
      <4>4. ~Carries(j, g, n)'
          BY <1>10, <2>7, <4>1
      <4> QED
          BY <2>8, <4>2, <4>3, <4>4
    <3> QED
        BY <3>1, <3>2
  <2>11. PushedUnlessCarried'
    <3> SUFFICES ASSUME failures = 0, NEW g \in Fault, NEW n \in DOMAIN alert'[g],
                        g[2] \in Urgent, alert'[g][n].pushed = 0
                 PROVE  \E k \in Job : Carries(k, g, n)'
        BY <1>1 DEF PushedUnlessCarried
    <3>1. CASE g = f /\ n = last
        BY <2>7, <3>1
    <3>2. CASE g # f \/ n # last
      <4>1. n \in DOMAIN alert[g] /\ alert'[g][n] = alert[g][n]
          BY <1>6, <3>2
      <4>2. PICK k \in Job : Carries(k, g, n)
          BY <4>1 DEF AlertInv, PushedUnlessCarried
      <4> QED
          BY <2>8, <2>9, <4>2
    <3> QED
        BY <3>1, <3>2
  <2> QED
      BY <1>8, <1>9, <2>6, <2>10, <2>11 DEF AlertInv
<1>12. CASE ~Pushes(f)
  <2>1. PICK s : Moves(j, s)
    <3>1. NextRule(j)
        BY <1>12 DEF InsertMonAlert
    <3> QED
        BY <1>0, <1>1, <3>1, NextRuleMoves DEF AtRule
  <2>2. \A k \in Job : \A g, n :
           /\ Carries(k, g, n)' => k # j /\ Carries(k, g, n)
           /\ k # j => (Carries(k, g, n)' <=> Carries(k, g, n))
      BY <1>0, <2>1, CarriesAfterMove
  <2>3. AlertTypes' /\ ScansOnFaults'
    <3>1. AlertTypes'
        BY <1>0, <1>1, <1>6, <2>1 DEF AlertTypes, Moves
    <3>2. \A k \in Job : job'[k] = s \/ job'[k] = job[k]
        BY <1>0, <2>1 DEF Moves, AlertTypes
    <3> QED
        BY <1>0, <2>1, <3>1, <3>2 DEF ScansOnFaults, OnFault, Moves
  <2>4. CarriedRows'
    <3> SUFFICES ASSUME NEW i \in Job, NEW g \in Fault, NEW n \in Nat, Carries(i, g, n)'
                 PROVE  /\ n \in DOMAIN alert'[g] /\ g[2] \in Urgent /\ alert'[g][n].pushed = 0
                        /\ \A k \in Job : Carries(k, g, n)' => k = i
        BY DEF CarriedRows
    <3>1. /\ n \in DOMAIN alert[g] /\ g[2] \in Urgent /\ alert[g][n].pushed = 0
          /\ \A k \in Job : Carries(k, g, n) => k = i
        BY <2>2 DEF AlertInv, CarriedRows
    <3>2. n \in DOMAIN alert'[g] /\ alert'[g][n] = alert[g][n]
        BY <1>6, <3>1
    <3> QED
        BY <2>2, <3>1, <3>2
  <2>5. PushedUnlessCarried'
    <3> SUFFICES ASSUME failures = 0, NEW g \in Fault, NEW n \in DOMAIN alert'[g],
                        g[2] \in Urgent, alert'[g][n].pushed = 0
                 PROVE  \E k \in Job : Carries(k, g, n)'
        BY <1>1 DEF PushedUnlessCarried
    <3>1. g # f
        BY <1>12 DEF Pushes
    <3>2. n \in DOMAIN alert[g] /\ alert'[g][n] = alert[g][n]
        BY <1>6, <3>1
    <3>3. PICK k \in Job : Carries(k, g, n)
        BY <3>2 DEF AlertInv, PushedUnlessCarried
    <3>4. k # j
        BY <1>1, <3>3 DEF Carries
    <3> QED
        BY <2>2, <3>3, <3>4
  <2> QED
      BY <1>8, <1>9, <2>3, <2>4, <2>5 DEF AlertInv
<1> QED
    BY <1>11, <1>12

\* What writing one field of one row does.
LEMMA RowWritten ==
    ASSUME alert \in [Fault -> Seq(Row)], NEW f \in Fault, NEW n \in DOMAIN alert[f],
           NEW new \in Row, alert' = [alert EXCEPT ![f] = [alert[f] EXCEPT ![n] = new]]
    PROVE  /\ alert' \in [Fault -> Seq(Row)]
           /\ \A g \in Fault : DOMAIN alert'[g] = DOMAIN alert[g]
           /\ alert'[f][n] = new
           /\ \A g \in Fault : \A m \in DOMAIN alert[g] :
                 g # f \/ m # n => alert'[g][m] = alert[g][m]
<1>1. alert[f] \in Seq(Row) /\ DOMAIN alert[f] = 1..Len(alert[f])
    BY LenProperties
<1> DEFINE t == [alert[f] EXCEPT ![n] = new]
<1>2. /\ t \in Seq(Row) /\ Len(t) = Len(alert[f])
      /\ \A m \in 1..Len(alert[f]) : t[m] = IF m = n THEN new ELSE alert[f][m]
    BY <1>1, ExceptSeq
<1>3. DOMAIN t = DOMAIN alert[f]
    OBVIOUS
<1> HIDE DEF t
<1>4. alert' = [alert EXCEPT ![f] = t]
    BY DEF t
<1> QED
    BY <1>1, <1>2, <1>3, <1>4

\* The robot got the row that only this scan carried.
LEMMA PushKeepsInv ==
    ASSUME AlertInv, NEW j \in Job, PostMonWebhook(j)
    PROVE  AlertInv'
<1> SUFFICES ASSUME NEW f, f = Watched(j), NEW n, n = job[j].row
             PROVE  AlertInv'
    OBVIOUS
<1>0. AlertTypes /\ ScansOnFaults
    BY DEF AlertInv
<1>1. job[j].pc = "push" /\ failures' = failures /\ torn' = torn /\ NextRule(j)
      /\ alert' = [alert EXCEPT ![f][n].pushed = @ + 1]
    BY DEF PostMonWebhook
<1>2. f \in Fault /\ n \in Nat
    BY <1>0, <1>1, FaultWatched DEF AtRule, AlertTypes, ScanState
<1>3. /\ Carries(j, f, n)
      /\ n \in DOMAIN alert[f] /\ f[2] \in Urgent /\ alert[f][n].pushed = 0
      /\ \A k \in Job : Carries(k, f, n) => k = j
    BY <1>1, <1>2 DEF AlertInv, CarriedRows, Carries
<1> DEFINE new == [alert[f][n] EXCEPT !.pushed = @ + 1]
<1>4. alert[f][n] \in Row
  <2>1. alert[f] \in Seq(Row)
      BY <1>0, <1>2 DEF AlertTypes
  <2> QED
      BY <1>3, <2>1, ElementOfSeq, LenProperties
<1>5. new \in Row /\ new.pushed = 1 /\ new.status = alert[f][n].status
    BY <1>3, <1>4 DEF Row
<1>6. alert' = [alert EXCEPT ![f] = [alert[f] EXCEPT ![n] = new]]
    BY <1>1
<1> HIDE DEF new
<1>7. /\ alert' \in [Fault -> Seq(Row)]
      /\ \A g \in Fault : DOMAIN alert'[g] = DOMAIN alert[g]
      /\ alert'[f][n] = new
      /\ \A g \in Fault : \A m \in DOMAIN alert[g] :
            g # f \/ m # n => alert'[g][m] = alert[g][m]
    BY <1>0, <1>2, <1>3, <1>5, <1>6, RowWritten DEF AlertTypes
<1>8. PICK s : Moves(j, s)
    BY <1>0, <1>1, NextRuleMoves DEF AtRule
<1>9. \A k \in Job : \A g, m :
         /\ Carries(k, g, m)' => k # j /\ Carries(k, g, m)
         /\ k # j => (Carries(k, g, m)' <=> Carries(k, g, m))
    BY <1>0, <1>8, CarriesAfterMove
<1>10. AlertTypes' /\ ScansOnFaults'
  <2>1. AlertTypes'
      BY <1>0, <1>1, <1>7, <1>8 DEF AlertTypes, Moves
  <2>2. \A k \in Job : job'[k] = s \/ job'[k] = job[k]
      BY <1>0, <1>8 DEF Moves, AlertTypes
  <2> QED
      BY <1>0, <1>8, <2>1, <2>2 DEF ScansOnFaults, OnFault, Moves
<1>11. OnePending'
  <2>1. \A g \in Fault : \A m \in Pending(g)' : m \in Pending(g)
      BY <1>5, <1>7 DEF Pending
  <2> QED
      BY <2>1 DEF AlertInv, OnePending
<1>12. PushedAtMost'
  <2> SUFFICES ASSUME NEW g \in Fault, NEW m \in DOMAIN alert'[g]
               PROVE  alert'[g][m].pushed <= (IF g[2] \in Urgent THEN 1 ELSE 0)
      BY DEF PushedAtMost
  <2>1. CASE g = f /\ m = n
      BY <1>3, <1>5, <1>7, <2>1
  <2>2. CASE g # f \/ m # n
    <3>1. m \in DOMAIN alert[g] /\ alert'[g][m] = alert[g][m]
        BY <1>7, <2>2
    <3> QED
        BY <3>1 DEF AlertInv, PushedAtMost
  <2> QED
      BY <2>1, <2>2
<1>13. CarriedRows'
  <2> SUFFICES ASSUME NEW i \in Job, NEW g \in Fault, NEW m \in Nat, Carries(i, g, m)'
               PROVE  /\ m \in DOMAIN alert'[g] /\ g[2] \in Urgent /\ alert'[g][m].pushed = 0
                      /\ \A k \in Job : Carries(k, g, m)' => k = i
      BY DEF CarriedRows
  <2>1. i # j /\ Carries(i, g, m)
      BY <1>9
  <2>2. /\ m \in DOMAIN alert[g] /\ g[2] \in Urgent /\ alert[g][m].pushed = 0
        /\ \A k \in Job : Carries(k, g, m) => k = i
      BY <2>1 DEF AlertInv, CarriedRows
  <2>3. g # f \/ m # n
      BY <1>3, <2>1
  <2> QED
      BY <1>7, <1>9, <2>2, <2>3
<1>14. PushedUnlessCarried'
  <2> SUFFICES ASSUME failures = 0, NEW g \in Fault, NEW m \in DOMAIN alert'[g],
                      g[2] \in Urgent, alert'[g][m].pushed = 0
               PROVE  \E k \in Job : Carries(k, g, m)'
      BY <1>1 DEF PushedUnlessCarried
  <2>1. g # f \/ m # n
      BY <1>5, <1>7
  <2>2. m \in DOMAIN alert[g] /\ alert'[g][m] = alert[g][m]
      BY <1>7, <2>1
  <2>3. PICK k \in Job : Carries(k, g, m)
      BY <2>2 DEF AlertInv, PushedUnlessCarried
  <2>4. k # j
      BY <1>3, <2>1, <2>3 DEF Carries
  <2> QED
      BY <1>9, <2>3, <2>4
<1> QED
    BY <1>10, <1>11, <1>12, <1>13, <1>14 DEF AlertInv

\* An acknowledgement takes a row out of the pending ones and pushes nothing.
LEMMA AckEffect ==
    ASSUME AlertTypes, NEW f \in Fault, NEW n \in DOMAIN alert[f], AckMonAlert(f, n)
    PROVE  /\ alert' \in [Fault -> Seq(Row)]
           /\ \A g \in Fault : DOMAIN alert'[g] = DOMAIN alert[g]
           /\ \A g \in Fault : \A m \in DOMAIN alert[g] :
                 /\ alert'[g][m].pushed = alert[g][m].pushed
                 /\ alert'[g][m].status = alert[g][m].status \/ alert'[g][m].status = "acked"
<1> DEFINE new == [alert[f][n] EXCEPT !.status = "acked"]
<1>1. alert[f][n] \in Row
  <2>1. alert[f] \in Seq(Row)
      BY DEF AlertTypes
  <2> QED
      BY <2>1, ElementOfSeq, LenProperties
<1>2. new \in Row /\ new.pushed = alert[f][n].pushed /\ new.status = "acked"
    BY <1>1 DEF Row
<1>3. alert' = [alert EXCEPT ![f] = [alert[f] EXCEPT ![n] = new]]
    BY DEF AckMonAlert
<1> HIDE DEF new
<1>4. /\ alert' \in [Fault -> Seq(Row)]
      /\ \A g \in Fault : DOMAIN alert'[g] = DOMAIN alert[g]
      /\ alert'[f][n] = new
      /\ \A g \in Fault : \A m \in DOMAIN alert[g] :
            g # f \/ m # n => alert'[g][m] = alert[g][m]
    BY <1>2, <1>3, RowWritten DEF AlertTypes
<1> QED
    BY <1>2, <1>4

LEMMA AckKeepsInv ==
    ASSUME AlertInv, NEW f \in Fault, NEW n \in DOMAIN alert[f], AckMonAlert(f, n)
    PROVE  AlertInv'
<1>0. AlertTypes
    BY DEF AlertInv
<1>1. /\ alert' \in [Fault -> Seq(Row)]
      /\ \A g \in Fault : DOMAIN alert'[g] = DOMAIN alert[g]
      /\ \A g \in Fault : \A m \in DOMAIN alert[g] :
            /\ alert'[g][m].pushed = alert[g][m].pushed
            /\ alert'[g][m].status = alert[g][m].status \/ alert'[g][m].status = "acked"
    BY <1>0, AckEffect
<1>2. job' = job /\ failures' = failures /\ torn' = torn
    BY DEF AckMonAlert
<1>3. \A k, g, m : Carries(k, g, m)' <=> Carries(k, g, m)
    BY <1>2 DEF Carries, Watched
<1>4. AlertTypes' /\ ScansOnFaults'
    BY <1>1, <1>2 DEF AlertInv, AlertTypes, ScansOnFaults, OnFault
<1>5. OnePending'
  <2>1. \A g \in Fault : \A m \in Pending(g)' : m \in Pending(g)
      BY <1>1 DEF Pending
  <2> QED
      BY <2>1 DEF AlertInv, OnePending
<1>6. PushedAtMost'
    BY <1>1 DEF AlertInv, PushedAtMost
<1>7. CarriedRows'
    BY <1>1, <1>3 DEF AlertInv, CarriedRows
<1>8. PushedUnlessCarried'
    BY <1>1, <1>2, <1>3 DEF AlertInv, PushedUnlessCarried
<1> QED
    BY <1>4, <1>5, <1>6, <1>7, <1>8 DEF AlertInv

-------------------------------------------------------------------------------
(***************************************************************************)
(* The theorems.                                                           *)
(***************************************************************************)
\* The steps of a scan that write no alert.
LEMMA ScanMoves ==
    ASSUME AlertInv, NEW j \in Job,
           \/ Tick(j) \/ ListMonProjectsInWindow(j) \/ CheckMonRule(j)
           \/ BuildMonAlertDetail(j) \/ DetailFails(j) \/ FindPendingMonAlert(j)
           \/ UpdateMonAlertMetric(j) \/ RefuseMonAlert(j) \/ ScanFails(j) \/ Restart(j)
    PROVE  AlertInv'
<1>0. AlertTypes /\ ScansOnFaults
    BY DEF AlertInv
<1>1. CASE Tick(j)
  <2>1. /\ job[j].pc = "wait" /\ Goto(j, "scan")
        /\ torn' = torn /\ alert' = alert /\ failures' = failures
      BY <1>1 DEF Tick
  <2>2. \E s : Moves(j, s)
      BY <1>0, <2>1, GotoMoves
  <2> QED
      BY <1>0, <2>1, <2>2, MoveKeepsInv DEF AlertTypes
<1>2. CASE ListMonProjectsInWindow(j)
  <2> DEFINE seen == {p \in Project : \E t \in Class : window[p][t] > 0}
  <2>1. /\ job[j].pc = "scan" /\ Visit(j, seen)
        /\ torn' = torn /\ alert' = alert /\ failures' = failures
      BY <1>2 DEF ListMonProjectsInWindow
  <2>2. seen # {} => Len(Rules) >= 1
    <3>1. Class # {} => Len(Rules) >= 1
      <4>1. DOMAIN Rules = 1..Len(Rules) /\ Len(Rules) \in Nat
          BY MonAlertsAssumption, LenProperties
      <4> QED
          BY <4>1, MonAlertsAssumption
    <3> QED
        BY <3>1
  <2>3. seen \in SUBSET Project
      OBVIOUS
  <2> HIDE DEF seen
  <2>4. \E s : Moves(j, s)
      BY <1>0, <2>1, <2>2, <2>3, VisitMoves
  <2> QED
      BY <1>0, <2>1, <2>4, MoveKeepsInv DEF AlertTypes
<1>3. CASE CheckMonRule(j)
  <2>1. /\ job[j].pc = "count" /\ torn' = torn /\ alert' = alert /\ failures' = failures
        /\ Goto(j, "detail") \/ NextRule(j)
      BY <1>3 DEF CheckMonRule
  <2>2. \E s : Moves(j, s)
      BY <1>0, <2>1, GotoMoves, NextRuleMoves DEF AtRule
  <2> QED
      BY <1>0, <2>1, <2>2, MoveKeepsInv DEF AlertTypes
<1>4. CASE FindPendingMonAlert(j)
  <2>1. /\ job[j].pc = "find" /\ torn' = torn /\ alert' = alert /\ failures' = failures
        /\ \/ Goto(j, "insert")
           \/ \E n \in Pending(Watched(j)) :
                 job' = [job EXCEPT ![j].pc = "update", ![j].row = n]
      BY <1>4 DEF FindPendingMonAlert
  <2>2. CASE Goto(j, "insert")
    <3>1. \E s : Moves(j, s)
        BY <1>0, <2>1, <2>2, GotoMoves DEF AtRule
    <3> QED
        BY <1>0, <2>1, <3>1, MoveKeepsInv DEF AlertTypes
  <2>3. ASSUME NEW n \in Pending(Watched(j)),
               job' = [job EXCEPT ![j].pc = "update", ![j].row = n]
        PROVE  AlertInv'
    <3> DEFINE a == [job[j] EXCEPT !.pc = "update"]
               s == [a EXCEPT !.row = n]
    <3>1. Watched(j) \in Fault
        BY <1>0, <2>1, FaultWatched DEF AtRule
    <3>2. n \in Nat
      <4>1. alert[Watched(j)] \in Seq(Row)
          BY <1>0, <3>1 DEF AlertTypes
      <4>2. DOMAIN alert[Watched(j)] = 1..Len(alert[Watched(j)]) /\ Len(alert[Watched(j)]) \in Nat
          BY <4>1, LenProperties
      <4> QED
          BY <4>2 DEF Pending
    <3>3. job[j] \in ScanState
        BY <1>0 DEF AlertTypes
    <3>4. job' = [job EXCEPT ![j] = s]
      <4>1. [job EXCEPT ![j].pc = "update", ![j].row = n] = [job EXCEPT ![j] = s]
          BY <1>0, <3>3 DEF AlertTypes, ScanState
      <4> QED
          BY <2>3, <4>1
    <3>5. a \in ScanState /\ a.pc = "update" /\ a.project = job[j].project /\ a.rule = job[j].rule
        BY <3>3 DEF ScanState, AtRule
    <3> HIDE DEF a
    <3>6. s \in ScanState /\ s.pc = "update" /\ s.project = job[j].project /\ s.rule = job[j].rule
        BY <3>2, <3>5 DEF ScanState
    <3> HIDE DEF s
    <3>7. Moves(j, s)
        BY <1>0, <2>1, <3>4, <3>6 DEF Moves, ScansOnFaults, OnFault, AtRule
    <3> QED
        BY <1>0, <2>1, <3>7, MoveKeepsInv DEF AlertTypes
  <2> QED
      BY <2>1, <2>2, <2>3
<1>5. CASE UpdateMonAlertMetric(j) \/ RefuseMonAlert(j)
  <2>1. /\ job[j].pc \in {"update", "insert"}
        /\ torn' = torn /\ alert' = alert /\ failures' = failures
        /\ NextRule(j)
      BY <1>5 DEF UpdateMonAlertMetric, RefuseMonAlert, AfterRefusal, RollMetric
  <2>2. \E s : Moves(j, s)
      BY <1>0, <2>1, NextRuleMoves DEF AtRule
  <2> QED
      BY <1>0, <2>1, <2>2, MoveKeepsInv DEF AlertTypes
<1>6. CASE ScanFails(j)
  <2>1. torn' = torn /\ alert' = alert /\ failures' = failures + 1
      BY <1>6 DEF ScanFails, Fails
  <2>2. failures' \in Nat /\ failures' # 0
      BY <1>0, <2>1 DEF AlertTypes
  <2>3. \E s : Moves(j, s)
    <3>1. CASE job' = [job EXCEPT ![j] = Idle]
        BY <3>1, IdleState DEF Moves
    <3>2. CASE job[j].pc \notin {"scan", "detail", "wait"} /\ NextRule(j)
      <4>1. job[j].pc \in AtRule
          BY <1>0, <3>2 DEF AlertTypes, ScanState
      <4> QED
          BY <1>0, <3>2, <4>1, NextRuleMoves
    <3> QED
        BY <1>6, <3>1, <3>2 DEF ScanFails
  <2> QED
      BY <2>1, <2>2, <2>3, MoveKeepsInv
<1>7. CASE Restart(j)
  <2> DEFINE s == [Idle EXCEPT !.pc = "scan"]
  <2>1. /\ torn' = torn /\ alert' = alert /\ failures' = failures + 1
        /\ job' = [job EXCEPT ![j] = s]
      BY <1>7 DEF Restart, Fails
  <2>2. failures' \in Nat /\ failures' # 0
      BY <1>0, <2>1 DEF AlertTypes
  <2>3. s \in ScanState /\ s.pc = "scan"
      BY IdleState DEF ScanState
  <2> HIDE DEF s
  <2>4. Moves(j, s)
      BY <2>1, <2>3 DEF Moves, OnFault, AtRule
  <2> QED
      BY <2>1, <2>2, <2>4, MoveKeepsInv
<1>8. ASSUME NEW cut \in BOOLEAN,
             job[j].pc = "detail", job' = [job EXCEPT ![j].pc = "find", ![j].torn = cut]
      PROVE  \E s : Moves(j, s)
  <2> DEFINE a == [job[j] EXCEPT !.pc = "find"]
             s == [a EXCEPT !.torn = cut]
  <2>1. job[j] \in ScanState
      BY <1>0 DEF AlertTypes
  <2>2. job' = [job EXCEPT ![j] = s]
    <3>1. [job EXCEPT ![j].pc = "find", ![j].torn = cut] = [job EXCEPT ![j] = s]
        BY <1>0, <2>1 DEF AlertTypes, ScanState
    <3> QED
        BY <1>8, <3>1
  <2>3. a \in ScanState /\ a.pc = "find" /\ a.project = job[j].project /\ a.rule = job[j].rule
      BY <2>1 DEF ScanState, AtRule
  <2> HIDE DEF a
  <2>4. s \in ScanState /\ s.pc = "find" /\ s.project = job[j].project /\ s.rule = job[j].rule
      BY <2>3 DEF ScanState
  <2> HIDE DEF s
  <2> QED
      BY <1>0, <1>8, <2>2, <2>4 DEF Moves, ScansOnFaults, OnFault, AtRule
<1>9. CASE BuildMonAlertDetail(j)
  <2>1. /\ job[j].pc = "detail" /\ torn' = torn /\ alert' = alert /\ failures' = failures
        /\ job' = [job EXCEPT ![j].pc = "find", ![j].torn = torn[Watched(j)]]
      BY <1>9 DEF BuildMonAlertDetail
  <2>2. torn[Watched(j)] \in BOOLEAN
    <3>1. Watched(j) \in Fault
        BY <1>0, <2>1, FaultWatched DEF AtRule
    <3> QED
        BY <1>0, <3>1 DEF AlertTypes
  <2>3. \E s : Moves(j, s)
      BY <1>8, <2>1, <2>2
  <2> QED
      BY <1>0, <2>1, <2>3, MoveKeepsInv DEF AlertTypes
<1>10. CASE DetailFails(j)
  <2>1. /\ job[j].pc = "detail" /\ torn' = torn /\ alert' = alert
        /\ failures' = failures + 1
        /\ \E cut \in BOOLEAN : job' = [job EXCEPT ![j].pc = "find", ![j].torn = cut]
      BY <1>10 DEF DetailFails, Fails
  <2>2. failures' \in Nat /\ failures' # 0
      BY <1>0, <2>1 DEF AlertTypes
  <2>3. \E s : Moves(j, s)
      BY <1>8, <2>1
  <2> QED
      BY <2>1, <2>2, <2>3, MoveKeepsInv
<1> QED
    BY <1>1, <1>2, <1>3, <1>4, <1>5, <1>6, <1>7, <1>9, <1>10

LEMMA InitAlertInv == AlertInit => AlertInv
<1> SUFFICES ASSUME AlertInit PROVE AlertInv
    OBVIOUS
<1> DEFINE s == [Idle EXCEPT !.pc = "scan"]
<1>1. s \in ScanState /\ s.pc = "scan"
    BY IdleState DEF ScanState
<1>2. /\ job = [j \in Job |-> s] /\ failures = 0
      /\ alert = [f \in Fault |-> <<>>] /\ torn = [f \in Fault |-> FALSE]
    BY DEF AlertInit
<1> HIDE DEF s
<1>3. AlertTypes
    BY <1>1, <1>2, EmptySeq DEF AlertTypes
<1>4. ScansOnFaults
    BY <1>1, <1>2 DEF ScansOnFaults, OnFault, AtRule
<1>5. \A f \in Fault : DOMAIN alert[f] = {}
    BY <1>2, EmptySeq
<1>6. \A j \in Job : \A f, n : ~Carries(j, f, n)
    BY <1>1, <1>2 DEF Carries
<1> QED
    BY <1>3, <1>4, <1>5, <1>6
    DEF AlertInv, OnePending, CarriedRows, PushedAtMost, PushedUnlessCarried, Pending

LEMMA AlertInvStep ==
    ASSUME AlertInv, [Next]_vars
    PROVE  AlertInv'
<1>1. CASE EventStep \/ UNCHANGED vars
  <2>1. /\ alert' = alert /\ job' = job /\ failures' = failures
        /\ torn' \in [Fault -> BOOLEAN]
      BY <1>1 DEF EventStep, vars, alertVars, AlertInv, AlertTypes
  <2>2. \A k, g, m : Carries(k, g, m)' <=> Carries(k, g, m)
      BY <2>1 DEF Carries, Watched
  <2>3. AlertTypes'
      BY <2>1 DEF AlertInv, AlertTypes
  <2>4. ScansOnFaults' /\ OnePending' /\ PushedAtMost'
      BY <2>1 DEF AlertInv, ScansOnFaults, OnePending, PushedAtMost, Pending
  <2>5. CarriedRows' /\ PushedUnlessCarried'
      BY <2>1, <2>2 DEF AlertInv, CarriedRows, PushedUnlessCarried
  <2> QED
      BY <2>3, <2>4, <2>5 DEF AlertInv
<1>2. ASSUME NEW j \in Job,
             Tick(j) \/ Scan(j) \/ DetailFails(j) \/ ScanFails(j) \/ Restart(j)
      PROVE  AlertInv'
    BY <1>2, ScanMoves, InsertKeepsInv, PushKeepsInv DEF Scan
<1>3. ASSUME NEW f \in Fault, NEW n \in DOMAIN alert[f], AckMonAlert(f, n)
      PROVE  AlertInv'
    BY <1>3, AckKeepsInv
<1> QED
    BY <1>1, <1>2, <1>3 DEF Next

\* The invariant holds whatever the scans, the administrators, the events and
\* the failures do, and in whatever order.
THEOREM AlertInvariant == Spec => []AlertInv
    BY InitAlertInv, AlertInvStep, PTL DEF Spec

\* One pending alert per fault, although each scan looks for one and inserts in
\* two statements: the unique key decides (repository.InsertMonAlert).
THEOREM OnePendingAlways == Spec => []OnePendingPerFault
<1>1. AlertInv => OnePendingPerFault
  <2> SUFFICES ASSUME AlertInv, NEW f \in Fault PROVE Cardinality(Pending(f)) <= 1
      BY DEF OnePendingPerFault
  <2>1. CASE Pending(f) = {}
      BY <2>1, FS_EmptySet
  <2>2. CASE Pending(f) # {}
    <3>1. PICK n : Pending(f) = {n}
        BY <2>2 DEF AlertInv, OnePending
    <3>2. Cardinality({n}) = 1
        BY FS_Singleton
    <3>3. Cardinality(Pending(f)) = 1
        BY <3>1, <3>2
    <3> QED
        BY <3>3
  <2> QED
      BY <2>1, <2>2
<1> QED
    BY <1>1, AlertInvariant, PTL

\* The robot hears of an alert at most once and only of the highest level; and
\* without a failure or a restart it hears of each such alert, unless the scan
\* that inserted it is about to tell it (service.checkMonRule).
THEOREM UrgentAlertsArePushedOnce == Spec => []UrgentIsPushedOnce
<1>1. AlertInv => UrgentIsPushedOnce
  <2> SUFFICES ASSUME AlertInv, NEW f \in Fault, NEW n \in DOMAIN alert[f]
               PROVE  /\ alert[f][n].pushed <= (IF f[2] \in Urgent THEN 1 ELSE 0)
                      /\ f[2] \in Urgent /\ failures = 0
                            => (alert[f][n].pushed = 0 <=> OnItsWay(f, n))
      BY DEF UrgentIsPushedOnce
  <2>1. n \in Nat
    <3>1. alert[f] \in Seq(Row)
        BY DEF AlertInv, AlertTypes
    <3>2. DOMAIN alert[f] = 1..Len(alert[f]) /\ Len(alert[f]) \in Nat
        BY <3>1, LenProperties
    <3> QED
        BY <3>2
  <2>2. OnItsWay(f, n) <=> \E j \in Job : Carries(j, f, n)
      BY DEF OnItsWay, Carries
  <2>3. alert[f][n].pushed <= (IF f[2] \in Urgent THEN 1 ELSE 0)
      BY DEF AlertInv, PushedAtMost
  <2>4. (\E j \in Job : Carries(j, f, n)) => alert[f][n].pushed = 0
      BY <2>1 DEF AlertInv, CarriedRows
  <2>5. f[2] \in Urgent /\ failures = 0 /\ alert[f][n].pushed = 0
           => \E j \in Job : Carries(j, f, n)
      BY DEF AlertInv, PushedUnlessCarried
  <2> QED
      BY <2>2, <2>3, <2>4, <2>5
<1> QED
    BY <1>1, AlertInvariant, PTL

\* A scan inserts when no row of the fault is pending: the life of an alert begins.
LEMMA InsertRaises ==
    ASSUME AlertInv, NEW j \in Job, InsertMonAlert(j)
    PROVE  Lives!LivesNext
<1> SUFFICES ASSUME NEW f, f = Watched(j) PROVE Lives!LivesNext
    OBVIOUS
<1>1. job[j].pc = "insert" /\ UniqueKey(f, "pending")
    BY DEF InsertMonAlert, Accepted
<1>2. f \in Fault /\ alert[f] \in Seq(Row)
    BY <1>1, FaultWatched DEF AlertInv, AtRule, AlertTypes
<1>3. \A n \in DOMAIN alert[f] : alert[f][n].status = "acked"
  <2>1. \A n \in DOMAIN alert[f] : alert[f][n] \in Row
      BY <1>2, ElementOfSeq, LenProperties
  <2> QED
      BY <1>1, <2>1 DEF UniqueKey, Row
<1>4. alert' = [alert EXCEPT ![f] = Append(@, Lives!Raised)]
    BY DEF InsertMonAlert, Lives!Raised
<1>5. Lives!Raise(f)
    BY <1>3, <1>4 DEF Lives!Raise
<1> QED
    BY <1>2, <1>5 DEF Lives!LivesNext

\* The scan at the robot carries an urgent row that nobody pushed, by AlertInv,
\* although it inserted it some steps ago.
LEMMA PushTells ==
    ASSUME AlertInv, NEW j \in Job, PostMonWebhook(j)
    PROVE  Lives!LivesNext
<1> SUFFICES ASSUME NEW f, f = Watched(j), NEW n, n = job[j].row PROVE Lives!LivesNext
    OBVIOUS
<1>1. alert' = [alert EXCEPT ![f][n].pushed = @ + 1] /\ job[j].pc = "push"
    BY DEF PostMonWebhook
<1>2. f \in Fault /\ Carries(j, f, n) /\ n \in Nat
    BY <1>1, FaultWatched DEF AlertInv, AtRule, Carries, AlertTypes, ScanState
<1>3. n \in DOMAIN alert[f] /\ f[2] \in Urgent /\ alert[f][n].pushed = 0
    BY <1>2 DEF AlertInv, CarriedRows
<1>4. alert' = [alert EXCEPT ![f][n].pushed = 1]
    BY <1>1, <1>3
<1>5. Lives!Tell(f, n)
    BY <1>2, <1>3, <1>4 DEF Lives!Tell, Pushes
<1> QED
    BY <1>2, <1>3, <1>5 DEF Lives!LivesNext

\* Scans, acknowledgements, failures and restarts implement the life of an alert:
\* raised when none is pending, told once at most, closed for good; and every other
\* step leaves all alerts as they are (service/mon_alert.go, repository.AckMonAlert).
THEOREM AlertsImplementTheirLives == Spec => ImplementsAlertLives
<1>1. AlertInit => Lives!LivesInit
    BY DEF AlertInit, Lives!LivesInit
<1>2. AlertInv /\ [Next]_vars => [Lives!LivesNext]_alert
  <2> SUFFICES ASSUME AlertInv, Next PROVE Lives!LivesNext \/ alert' = alert
      BY DEF vars, alertVars
  <2>1. ASSUME NEW f \in Fault, NEW n \in DOMAIN alert[f], AckMonAlert(f, n)
        PROVE  Lives!LivesNext
    <3>1. Lives!Close(f, n)
        BY <2>1 DEF AckMonAlert, AckTarget, Lives!Close
    <3> QED
        BY <3>1 DEF Lives!LivesNext
  <2>2. ASSUME NEW j \in Job,
               \/ Tick(j) \/ ListMonProjectsInWindow(j) \/ CheckMonRule(j)
               \/ BuildMonAlertDetail(j) \/ DetailFails(j)
               \/ FindPendingMonAlert(j) \/ UpdateMonAlertMetric(j) \/ RefuseMonAlert(j)
               \/ ScanFails(j) \/ Restart(j)
        PROVE  alert' = alert
      BY <2>2 DEF Tick, ListMonProjectsInWindow, CheckMonRule, BuildMonAlertDetail,
                  DetailFails, FindPendingMonAlert, UpdateMonAlertMetric, RollMetric,
                  RefuseMonAlert, ScanFails, Restart
  <2>3. EventStep => alert' = alert
      BY DEF EventStep
  <2> QED
      BY <2>1, <2>2, <2>3, InsertRaises, PushTells DEF Next, Scan
<1> QED
    BY <1>1, <1>2, AlertInvariant, PTL DEF Spec, ImplementsAlertLives, Lives!LivesSpec

-------------------------------------------------------------------------------
(***************************************************************************)
(* Retention.                                                              *)
(***************************************************************************)
LoopState == [pc : {"start", "wait", "delete"}, lastCleanupDay : Nat,
              before : Int, seen : Int]

RetentionTypes == /\ now \in Time
                  /\ kept \in [Time -> Nat]
                  /\ loop \in [Process -> LoopState]
                  /\ skips \in Nat

\* The day whose cleanup loop j has behind it, or stands in for.
CleanedDay(j) == IF loop[j].pc = "start" THEN Today
                 ELSE IF loop[j].pc = "wait" THEN loop[j].lastCleanupDay
                 ELSE loop[j].lastCleanupDay - 1

\* A waiting loop has noted the date of its last tick.
DateNoted(j) ==
    loop[j].pc = "wait" =>
        /\ loop[j].lastCleanupDay * DayLength <= now
        /\ now <= (loop[j].lastCleanupDay + 1) * DayLength
        /\ loop[j].seen = now => loop[j].lastCleanupDay = Today

\* A deleting loop has today's date and today's cutoff, and the day has begun
\* only now.
CutoffIsToday(j) ==
    loop[j].pc = "delete" =>
        /\ loop[j].lastCleanupDay = Today
        /\ now = Today * DayLength
        /\ loop[j].before = now - RetentionDays * DayLength

\* The rows are as young as that day's cleanup leaves them, up to the skips.
Floor(j) == (CleanedDay(j) - RetentionDays - skips) * DayLength

CleanedUpTo(j) == \A t \in Time : kept[t] > 0 => Floor(j) <= t

LoopInv(j) == DateNoted(j) /\ CutoffIsToday(j) /\ CleanedUpTo(j)

RetentionInv == /\ EventInv
                /\ RetentionTypes
                /\ \A j \in Process : LoopInv(j)

\* Whole days and the units of time.
LEMMA WholeDays ==
    ASSUME NEW n \in Nat, NEW d \in Nat \ {0}
    PROVE  /\ n \div d \in Nat
           /\ (n \div d) * d <= n
           /\ n < (n \div d + 1) * d
OBVIOUS

\* Days are ordered as their units are, and add up.
LEMMA DaysMonotone ==
    ASSUME NEW a \in Int, NEW b \in Int, NEW d \in Nat \ {0}, a <= b
    PROVE  a * d \in Int /\ b * d \in Int /\ a * d <= b * d
OBVIOUS

LEMMA DaysOrder ==
    ASSUME NEW a \in Int, NEW b \in Int, NEW d \in Nat \ {0}, a * d < b * d
    PROVE  a < b
OBVIOUS

LEMMA DaysAdd ==
    ASSUME NEW a \in Int, NEW b \in Int, NEW d \in Nat \ {0}
    PROVE  (a - b) * d = a * d - b * d
OBVIOUS

\* The constants are numbers, and the time starts at 0.
LEMMA Constants ==
    /\ DayLength \in Nat \ {0} /\ RetentionDays \in Nat \ {0} /\ BatchLimit \in Nat \ {0}
    /\ Horizon \in Nat /\ Time \subseteq Nat
BY MonRetentionAssumption DEF Time

\* The time is within its day.
LEMMA TodayIs ==
    ASSUME now \in Time
    PROVE  /\ now \in Nat /\ Today \in Nat
           /\ Today * DayLength <= now
           /\ now < (Today + 1) * DayLength
BY Constants, WholeDays DEF Today

\* A loop is between yesterday's cleanup and today's.
LEMMA DayBounds ==
    ASSUME RetentionTypes, NEW j \in Process, LoopInv(j)
    PROVE  /\ CleanedDay(j) \in Int
           /\ CleanedDay(j) <= Today
           /\ Today <= CleanedDay(j) + 1
           /\ now <= (CleanedDay(j) + 1) * DayLength
<1>1. /\ now \in Nat /\ Today \in Nat
      /\ Today * DayLength <= now
      /\ now < (Today + 1) * DayLength
    BY TodayIs DEF RetentionTypes
<1>2. /\ loop[j].pc \in {"start", "wait", "delete"}
      /\ loop[j].lastCleanupDay \in Nat
    BY DEF RetentionTypes, LoopState
<1>3. CASE loop[j].pc = "start"
  <2>1. CleanedDay(j) = Today
      BY <1>3 DEF CleanedDay
  <2>2. (Today + 1) * DayLength \in Int
      BY <1>1, Constants
  <2> QED
      BY <1>1, <2>1, <2>2
<1>4. CASE loop[j].pc = "wait"
  <2> DEFINE c == loop[j].lastCleanupDay
  <2>1. c \in Nat /\ c * DayLength <= now /\ now <= (c + 1) * DayLength /\ CleanedDay(j) = c
      BY <1>2, <1>4 DEF LoopInv, DateNoted, CleanedDay
  <2> HIDE DEF c
  <2>2. c < Today + 1
    <3>1. /\ c * DayLength \in Int /\ (Today + 1) * DayLength \in Int
          /\ c \in Int /\ Today + 1 \in Int
        BY <1>1, <2>1, Constants
    <3>2. c * DayLength < (Today + 1) * DayLength
        BY <1>1, <2>1, <3>1
    <3> QED
        BY <3>1, <3>2, Constants, DaysOrder
  <2>3. ~(c + 1 < Today)
    <3>1. ASSUME c + 1 < Today PROVE FALSE
      <4>1. c + 1 + 1 \in Int /\ c + 1 \in Int /\ Today \in Int /\ c + 1 + 1 <= Today
          BY <1>1, <2>1, <3>1
      <4>2. (c + 1 + 1) * DayLength <= Today * DayLength
          BY <4>1, Constants, DaysMonotone
      <4>3. (c + 1) * DayLength < (c + 1 + 1) * DayLength
          BY <2>1, Constants
      <4>4. /\ (c + 1) * DayLength \in Int /\ (c + 1 + 1) * DayLength \in Int
            /\ Today * DayLength \in Int
          BY <1>1, <2>1, Constants
      <4> QED
          BY <1>1, <2>1, <4>2, <4>3, <4>4
    <3> QED
        BY <3>1
  <2> QED
      BY <1>1, <2>1, <2>2, <2>3
<1>5. CASE loop[j].pc = "delete"
  <2>1. loop[j].lastCleanupDay = Today /\ CleanedDay(j) = Today - 1
      BY <1>2, <1>5 DEF LoopInv, CutoffIsToday, CleanedDay
  <2>2. now = Today * DayLength
      BY <1>5 DEF LoopInv, CutoffIsToday
  <2>3. (Today - 1) + 1 = Today
      BY <1>1
  <2> QED
      BY <1>1, <2>1, <2>2, <2>3
<1> QED
    BY <1>2, <1>3, <1>4, <1>5

\* One loop is enough to bound the age of the rows.
LEMMA KeptFromInv == RetentionInv => RetentionIsKept
<1> SUFFICES ASSUME RetentionInv, NEW t \in Time, kept[t] > 0
             PROVE  now - t <= (RetentionDays + 1 + skips) * DayLength
    BY DEF RetentionIsKept
<1>1. PICK j \in Process : TRUE
    BY MonRetentionAssumption
<1>2. /\ CleanedDay(j) \in Int
      /\ now <= (CleanedDay(j) + 1) * DayLength
      /\ (CleanedDay(j) - RetentionDays - skips) * DayLength <= t
    BY DayBounds DEF RetentionInv, LoopInv, CleanedUpTo, Floor
<1>3. now \in Nat /\ t \in Nat /\ skips \in Nat /\ RetentionDays \in Nat
    BY Constants DEF RetentionInv, RetentionTypes
<1> DEFINE a == CleanedDay(j) + 1
           b == CleanedDay(j) - RetentionDays - skips
<1>4. /\ a \in Int /\ b \in Int /\ a - b = RetentionDays + 1 + skips
      /\ now <= a * DayLength /\ b * DayLength <= t
    BY <1>2, <1>3
<1> HIDE DEF a, b
<1>5. /\ (a - b) * DayLength = a * DayLength - b * DayLength
      /\ a * DayLength \in Int /\ b * DayLength \in Int
    BY <1>4, Constants, DaysAdd
<1>6. now - t <= a * DayLength - b * DayLength
    BY <1>3, <1>4, <1>5
<1> QED
    BY <1>4, <1>5, <1>6

\* At the start there are no rows and no cleanup.
LEMMA RetentionInvInit == RetentionInit => RetentionInv
<1> SUFFICES ASSUME RetentionInit PROVE RetentionInv
    OBVIOUS
<1>1. EventInv
    BY EventInvInit DEF RetentionInit
<1>2. RetentionTypes
  <2>1. 0 \in Time
      BY Constants DEF Time
  <2> QED
      BY <2>1 DEF RetentionInit, RetentionTypes, LoopState, Started
<1>3. ASSUME NEW j \in Process PROVE LoopInv(j)
    BY DEF RetentionInit, LoopInv, DateNoted, CutoffIsToday, CleanedUpTo, Started
<1> QED
    BY <1>1, <1>2, <1>3 DEF RetentionInv

\* What a loop rests on when it does not move: the date, the rows and the skips.
LEMMA LoopRests ==
    ASSUME RetentionTypes, RetentionTypes', NEW j \in Process, LoopInv(j),
           now' = now, loop'[j] = loop[j], skips' \in Nat, skips <= skips',
           \A t \in Time : kept'[t] > 0 => (kept[t] > 0 \/ t = now)
    PROVE  LoopInv(j)'
<1>1. Today' = Today /\ CleanedDay(j)' = CleanedDay(j)
    BY DEF Today, CleanedDay
<1>2. DateNoted(j)' /\ CutoffIsToday(j)'
    BY <1>1 DEF LoopInv, DateNoted, CutoffIsToday
<1>3. /\ CleanedDay(j) \in Int /\ CleanedDay(j) <= Today
      /\ now \in Nat /\ Today \in Nat /\ Today * DayLength <= now
      /\ skips \in Nat /\ RetentionDays \in Nat
    BY DayBounds, TodayIs, Constants DEF RetentionTypes
<1> DEFINE a == CleanedDay(j) - RetentionDays - skips'
           b == CleanedDay(j) - RetentionDays - skips
<1>4. a \in Int /\ b \in Int /\ a <= b /\ a <= Today
    BY <1>3
<1>5. Floor(j)' = a * DayLength /\ Floor(j) = b * DayLength
    BY <1>1 DEF Floor
<1> HIDE DEF a, b
<1>6. /\ a * DayLength \in Int /\ b * DayLength \in Int
      /\ a * DayLength <= b * DayLength
    BY <1>4, Constants, DaysMonotone
<1>7. Today * DayLength \in Int /\ a * DayLength <= Today * DayLength
    BY <1>3, <1>4, Constants, DaysMonotone
<1>8. CleanedUpTo(j)'
  <2> SUFFICES ASSUME NEW t \in Time, kept'[t] > 0 PROVE a * DayLength <= t
      BY <1>5 DEF CleanedUpTo
  <2>1. t \in Nat
      BY Constants
  <2>2. CASE kept[t] > 0
    <3>1. b * DayLength <= t
        BY <1>5, <2>2 DEF LoopInv, CleanedUpTo
    <3> QED
        BY <1>6, <2>1, <3>1
  <2>3. CASE t = now
      BY <1>3, <1>6, <1>7, <2>3
  <2> QED
      BY <2>2, <2>3
<1> QED
    BY <1>2, <1>8 DEF LoopInv

\* The smaller of two numbers.
LEMMA SmallerOfTwo ==
    ASSUME NEW a \in Nat, NEW b \in Nat
    PROVE  Min({a, b}) = IF a <= b THEN a ELSE b
<1> DEFINE c == IF a <= b THEN a ELSE b
           Least(x) == x \in {a, b} /\ \A y \in {a, b} : x <= y
<1>1. Least(c) /\ \A x : Least(x) => x = c
    OBVIOUS
<1>2. Min({a, b}) = CHOOSE x : Least(x)
    BY DEF Min
<1> HIDE DEF Least, c
<1>3. Least(CHOOSE x : Least(x))
    BY <1>1
<1> QED
    BY <1>1, <1>2, <1>3 DEF c

\* Rows only go, and a cleanup that ends leaves none before its cutoff: the
\* last DELETE took fewer rows than its limit, hence all there were.
LEMMA DeleteLeaves ==
    ASSUME RetentionTypes, NEW j \in Process, DeleteMonEventsBefore(j)
    PROVE  /\ kept' \in [Time -> Nat]
           /\ \A t \in Time : kept'[t] <= kept[t]
           /\ \/ loop' = loop
              \/ /\ loop' = [loop EXCEPT ![j].pc = "wait", ![j].before = 0]
                 /\ \A t \in Time : kept'[t] > 0 => loop[j].before <= t
<1> DEFINE old == Expired(loop[j].before)
<1>1. PICK taken \in [old -> 0..BatchLimit] :
        /\ \A t \in old : taken[t] <= kept[t]
        /\ SumOf(taken, old) = Min({BatchLimit, SumOf(kept, old)})
        /\ kept' = [t \in Time |-> IF t \in old THEN kept[t] - taken[t] ELSE kept[t]]
        /\ loop' = IF SumOf(taken, old) < BatchLimit
                   THEN [loop EXCEPT ![j].pc = "wait", ![j].before = 0]
                   ELSE loop
    BY DEF DeleteMonEventsBefore, SumOf, CleanedUp
<1>2. /\ old \subseteq Time /\ old \in SUBSET Time /\ IsFiniteSet(old)
      /\ \A t \in Time \ old : kept[t] > 0 => loop[j].before <= t
  <2>1. IsFiniteSet(Time)
    <3>1. Horizon \in Nat /\ Time = 0..Horizon
        BY Constants DEF Time
    <3> QED
        BY <3>1, FS_Interval
  <2>2. old \subseteq Time
      BY DEF Expired
  <2>3. IsFiniteSet(old)
      BY <2>1, <2>2, FS_Subset
  <2>4. loop[j].before \in Int /\ Time \subseteq Nat
      BY Constants DEF RetentionTypes, LoopState
  <2>5. ASSUME NEW t \in Time \ old, kept[t] > 0 PROVE loop[j].before <= t
    <3>1. ~(t < loop[j].before) /\ t \in Nat
        BY <2>4, <2>5 DEF Expired
    <3> QED
        BY <2>4, <3>1
  <2> QED
      BY <2>2, <2>3, <2>5
<1> HIDE DEF old
<1>3. /\ \A t \in Time : kept[t] \in Nat
      /\ \A t \in old : kept[t] \in Nat /\ taken[t] \in Nat /\ taken[t] <= kept[t]
  <2>1. BatchLimit \in Nat
      BY Constants
  <2> QED
      BY <1>1, <1>2, <2>1 DEF RetentionTypes
<1>4. \A t \in Time : /\ kept'[t] \in Nat
                      /\ kept'[t] <= kept[t]
                      /\ t \notin old => kept'[t] = kept[t]
                      /\ t \in old => kept'[t] = kept[t] - taken[t]
    BY <1>1, <1>3
<1>5. kept' \in [Time -> Nat]
    BY <1>1, <1>4
<1>6. ASSUME SumOf(taken, old) < BatchLimit
      PROVE  \A t \in Time : kept'[t] > 0 => loop[j].before <= t
  <2>1. SumOf(kept, old) \in Nat
      BY <1>2, <1>3, SumNat
  <2>2. BatchLimit \in Nat
      BY Constants
  <2>3. SumOf(taken, old) = SumOf(kept, old)
    <3> DEFINE many == SumOf(kept, old)
    <3>1. SumOf(taken, old) = Min({BatchLimit, many}) /\ many \in Nat
        BY <1>1, <2>1
    <3> HIDE DEF many
    <3>2. SumOf(taken, old) = IF BatchLimit <= many THEN BatchLimit ELSE many
        BY <2>2, <3>1, SmallerOfTwo
    <3>3. SumOf(taken, old) = many
        BY <1>6, <2>2, <3>1, <3>2
    <3> QED
        BY <3>3 DEF many
  <2>4. \A t \in old : kept[t] = taken[t]
    <3>1. old \in SUBSET old
        OBVIOUS
    <3>2. \A x \in old : IF x \in old THEN kept[x] = taken[x] ELSE kept[x] = 0
      <4>1. /\ \A t \in old : kept[t] \in Nat
            /\ \A t \in old : taken[t] \in Nat /\ taken[t] <= kept[t]
          BY <1>3
      <4>2. IsFiniteSet(old)
          BY <1>2
      <4> QED
          BY <2>3, <3>1, <4>1, <4>2, SumTight
    <3> QED
        BY <3>2
  <2>5. \A t \in old : kept'[t] = 0
      BY <1>2, <1>3, <1>4, <2>4
  <2> QED
      BY <1>2, <1>4, <2>5
<1> QED
    BY <1>1, <1>4, <1>5, <1>6

-------------------------------------------------------------------------------
(***************************************************************************)
(* The steps.                                                              *)
(***************************************************************************)
\* Time passes when every loop has noted this day.
LEMMA PassKeeps ==
    ASSUME RetentionTypes, \A j \in Process : LoopInv(j), Pass
    PROVE  RetentionTypes' /\ \A j \in Process : LoopInv(j)'
<1>1. /\ now \in Nat /\ now' = now + 1 /\ now' \in Time
      /\ UNCHANGED <<kept, loop, skips>>
    BY Constants DEF Pass, RetentionTypes, Time
<1>2. RetentionTypes'
    BY <1>1 DEF RetentionTypes
<1>3. ASSUME NEW j \in Process PROVE LoopInv(j)'
  <2> DEFINE c == loop[j].lastCleanupDay
  <2>1. /\ loop[j].pc = "wait" /\ loop[j].seen = now /\ loop[j].seen \in Int
        /\ c \in Nat
      BY DEF Pass, RetentionTypes, LoopState
  <2>2. c = Today /\ CleanedDay(j) = c /\ CleanedDay(j)' = c
      BY <1>1, <2>1 DEF LoopInv, DateNoted, CleanedDay
  <2>3. c * DayLength <= now /\ now < (c + 1) * DayLength
      BY <2>2, TodayIs DEF RetentionTypes
  <2>4. c * DayLength \in Int /\ (c + 1) * DayLength \in Int
      BY <2>1, Constants
  <2>5. c * DayLength <= now' /\ now' <= (c + 1) * DayLength
      BY <1>1, <2>3, <2>4
  <2>6. loop[j].seen # now'
      BY <1>1, <2>1
  <2>7. DateNoted(j)' /\ CutoffIsToday(j)'
      BY <1>1, <2>1, <2>5, <2>6 DEF DateNoted, CutoffIsToday
  <2>8. CleanedUpTo(j)'
      BY <1>1, <2>2 DEF LoopInv, CleanedUpTo, Floor
  <2> QED
      BY <2>7, <2>8 DEF LoopInv
<1> QED
    BY <1>2, <1>3

\* A request stores rows of now and takes none away.
LEMMA RowsOnlyCome ==
    ASSUME EventTypeOK, RetentionTypes, IngestRows
    PROVE  /\ RetentionTypes'
           /\ UNCHANGED <<now, loop, skips>>
           /\ \A t \in Time : kept'[t] > 0 => (kept[t] > 0 \/ t = now)
<1>1. PICK posted \in Batch : IngestEvents(posted)
    BY DEF IngestRows
<1>2. /\ TotalRows \in Nat /\ TotalRows' \in Nat
      /\ TotalRows <= TotalRows'
  <2>1. /\ TotalRows \in Nat
        /\ TotalRows' \in Nat
        /\ persist => TotalRows' = TotalRows + receipt'
        /\ ~persist => TotalRows' = TotalRows
        /\ receipt' \in 0..MaxBatch
      BY <1>1, IngestTotals
  <2>2. MaxBatch \in Nat
      BY MonEventsAssumption
  <2>3. TotalRows' = TotalRows + receipt' \/ TotalRows' = TotalRows
      BY <2>1
  <2>4. receipt' \in Nat
      BY <2>1, <2>2
  <2> DEFINE was == TotalRows
             is == TotalRows'
  <2>5. was \in Nat /\ (is = was + receipt' \/ is = was)
      BY <2>1, <2>3
  <2> HIDE DEF was, is
  <2>6. was <= is
      BY <2>4, <2>5
  <2> QED
      BY <2>1, <2>6 DEF was, is
<1>3. /\ kept' = [kept EXCEPT ![now] = @ + TotalRows' - TotalRows]
      /\ UNCHANGED <<now, loop, skips>>
    BY DEF IngestRows
<1> DEFINE more == TotalRows' - TotalRows
<1>4. kept[now] + TotalRows' - TotalRows \in Nat
    BY <1>2 DEF RetentionTypes
<1> HIDE DEF more
<1>5. kept' \in [Time -> Nat] /\ \A t \in Time : t # now => kept'[t] = kept[t]
    BY <1>3, <1>4 DEF RetentionTypes
<1> QED
    BY <1>3, <1>5 DEF RetentionTypes

\* A step that leaves every loop but j where it is.
LEMMA OthersRest ==
    ASSUME RetentionTypes, RetentionTypes', \A k \in Process : LoopInv(k),
           NEW j \in Process, now' = now, skips <= skips',
           \A k \in Process : k # j => loop'[k] = loop[k],
           \A t \in Time : kept'[t] > 0 => kept[t] > 0,
           LoopInv(j)'
    PROVE  \A k \in Process : LoopInv(k)'
<1> SUFFICES ASSUME NEW k \in Process, k # j PROVE LoopInv(k)'
    OBVIOUS
<1>1. skips' \in Nat /\ loop'[k] = loop[k]
    BY DEF RetentionTypes
<1> QED
    BY <1>1, LoopRests

\* The loop j itself when it ends a day's cleanup or stands in for one: the day
\* may be a day later, if the rows are as young or one more skip is counted.
LEMMA LoopMoves ==
    ASSUME RetentionTypes, NEW j \in Process, LoopInv(j),
           now' = now, kept' = kept, skips' \in Nat,
           DateNoted(j)', CutoffIsToday(j)', CleanedDay(j)' \in Int,
           CleanedDay(j)' - skips' <= CleanedDay(j) - skips
    PROVE  LoopInv(j)'
<1>1. CleanedDay(j) \in Int /\ skips \in Nat /\ RetentionDays \in Nat
    BY DayBounds, Constants DEF RetentionTypes
<1> DEFINE a == CleanedDay(j)' - RetentionDays - skips'
           b == CleanedDay(j) - RetentionDays - skips
<1>2. a \in Int /\ b \in Int /\ a <= b
    BY <1>1
<1>3. Floor(j)' = a * DayLength /\ Floor(j) = b * DayLength
    BY DEF Floor
<1> HIDE DEF a, b
<1>4. /\ a * DayLength \in Int /\ b * DayLength \in Int
      /\ a * DayLength <= b * DayLength
    BY <1>2, Constants, DaysMonotone
<1>5. CleanedUpTo(j)'
  <2> SUFFICES ASSUME NEW t \in Time, kept[t] > 0 PROVE a * DayLength <= t
      BY <1>3 DEF CleanedUpTo
  <2>1. t \in Nat /\ b * DayLength <= t
      BY <1>3, Constants DEF LoopInv, CleanedUpTo
  <2> QED
      BY <1>4, <2>1
<1> QED
    BY <1>5 DEF LoopInv

\* The steps of a loop, one after the other.
LEMMA StartKeeps ==
    ASSUME RetentionTypes, \A k \in Process : LoopInv(k),
           NEW j \in Process, StartMonAlertJob(j)
    PROVE  RetentionTypes' /\ \A k \in Process : LoopInv(k)'
<1>1. /\ now \in Nat /\ Today \in Nat
      /\ Today * DayLength <= now /\ now < (Today + 1) * DayLength
    BY TodayIs DEF RetentionTypes
<1>2. /\ loop[j].pc = "start"
      /\ loop' = [loop EXCEPT ![j] = [pc |-> "wait", lastCleanupDay |-> Today,
                                      before |-> 0, seen |-> now]]
      /\ UNCHANGED <<now, kept, skips>>
    BY DEF StartMonAlertJob
<1>3. /\ loop'[j] = [pc |-> "wait", lastCleanupDay |-> Today, before |-> 0, seen |-> now]
      /\ loop' \in [Process -> LoopState]
      /\ \A k \in Process : k # j => loop'[k] = loop[k]
    BY <1>1, <1>2 DEF RetentionTypes, LoopState
<1>4. RetentionTypes' /\ skips' \in Nat /\ skips <= skips'
    BY <1>2, <1>3 DEF RetentionTypes
<1>5. Today' = Today /\ CleanedDay(j) = Today /\ CleanedDay(j)' = Today
    BY <1>2, <1>3 DEF CleanedDay, Today
<1>6. DateNoted(j)' /\ CutoffIsToday(j)'
  <2>1. (Today + 1) * DayLength \in Int
      BY <1>1, Constants
  <2> QED
      BY <1>1, <1>2, <1>3, <1>5, <2>1 DEF DateNoted, CutoffIsToday
<1>7. LoopInv(j)'
  <2>1. CleanedDay(j)' - skips' <= CleanedDay(j) - skips
      BY <1>1, <1>2, <1>4, <1>5
  <2> QED
      BY <1>1, <1>2, <1>4, <1>5, <1>6, <2>1, LoopMoves
<1> QED
    BY <1>2, <1>3, <1>4, <1>7, OthersRest

LEMMA TickKeeps ==
    ASSUME RetentionTypes, \A k \in Process : LoopInv(k),
           NEW j \in Process, TickerFires(j)
    PROVE  RetentionTypes' /\ \A k \in Process : LoopInv(k)'
<1> DEFINE c == loop[j].lastCleanupDay
<1>1. /\ now \in Nat /\ Today \in Nat /\ skips \in Nat
      /\ Today * DayLength <= now /\ now < (Today + 1) * DayLength
    BY TodayIs DEF RetentionTypes
<1>2. /\ loop[j].pc = "wait"
      /\ loop' = [loop EXCEPT ![j] =
                     IF Today # @.lastCleanupDay
                     THEN [pc |-> "delete", lastCleanupDay |-> Today, seen |-> now,
                           before |-> now - RetentionDays * DayLength]
                     ELSE [@ EXCEPT !.seen = now]]
      /\ UNCHANGED <<now, kept, skips>>
    BY DEF TickerFires
<1>3. now - RetentionDays * DayLength \in Int
    BY <1>1, Constants
<1>4. /\ loop[j] \in LoopState /\ c \in Nat /\ CleanedDay(j) = c
      /\ c * DayLength <= now /\ now <= (c + 1) * DayLength
    BY <1>2 DEF RetentionTypes, LoopState, CleanedDay, LoopInv, DateNoted
<1>5. /\ loop' \in [Process -> LoopState]
      /\ \A k \in Process : k # j => loop'[k] = loop[k]
      /\ loop'[j] = IF Today # c
                    THEN [pc |-> "delete", lastCleanupDay |-> Today, seen |-> now,
                          before |-> now - RetentionDays * DayLength]
                    ELSE [loop[j] EXCEPT !.seen = now]
    BY <1>1, <1>2, <1>3 DEF RetentionTypes, LoopState
<1>6. RetentionTypes' /\ skips' \in Nat /\ skips <= skips' /\ Today' = Today
    BY <1>1, <1>2, <1>5 DEF RetentionTypes, Today
<1>7. ASSUME Today # c PROVE LoopInv(j)'
  <2>1. /\ CleanedDay(j) <= Today /\ Today <= CleanedDay(j) + 1
      BY DayBounds
  <2>2. Today = c + 1
      BY <1>1, <1>4, <1>7, <2>1
  <2>3. /\ loop'[j].pc = "delete" /\ loop'[j].lastCleanupDay = Today
        /\ loop'[j].before = now - RetentionDays * DayLength
      BY <1>5, <1>7
  <2>4. now = Today * DayLength
    <3>1. Today * DayLength \in Int
        BY <1>1, Constants
    <3> QED
        BY <1>1, <1>4, <2>2, <3>1
  <2>5. DateNoted(j)' /\ CutoffIsToday(j)'
      BY <1>2, <1>6, <2>3, <2>4 DEF DateNoted, CutoffIsToday
  <2>6. CleanedDay(j)' = c
      BY <1>4, <2>2, <2>3 DEF CleanedDay
  <2>7. CleanedDay(j)' - skips' <= CleanedDay(j) - skips
      BY <1>1, <1>2, <1>4, <2>6
  <2> QED
      BY <1>2, <1>4, <1>6, <2>5, <2>6, <2>7, LoopMoves
<1>8. ASSUME Today = c PROVE LoopInv(j)'
  <2>1. /\ loop'[j].pc = "wait" /\ loop'[j].lastCleanupDay = c
      BY <1>2, <1>4, <1>5, <1>8 DEF LoopState
  <2>2. DateNoted(j)' /\ CutoffIsToday(j)'
      BY <1>2, <1>4, <1>6, <1>8, <2>1 DEF DateNoted, CutoffIsToday
  <2>3. CleanedDay(j)' = c
      BY <2>1 DEF CleanedDay
  <2>4. CleanedDay(j)' - skips' <= CleanedDay(j) - skips
      BY <1>1, <1>2, <1>4, <2>3
  <2> QED
      BY <1>2, <1>4, <1>6, <2>2, <2>3, <2>4, LoopMoves
<1>9. LoopInv(j)'
    BY <1>7, <1>8
<1> QED
    BY <1>2, <1>5, <1>6, <1>9, OthersRest

\* The loop's record when a cleanup is over.
LEMMA BackToWaiting ==
    ASSUME RetentionTypes, NEW j \in Process,
           loop' = [loop EXCEPT ![j].pc = "wait", ![j].before = 0]
    PROVE  /\ loop' \in [Process -> LoopState]
           /\ \A k \in Process : k # j => loop'[k] = loop[k]
           /\ loop'[j].pc = "wait" /\ loop'[j].lastCleanupDay = loop[j].lastCleanupDay
<1> DEFINE waits == [loop[j] EXCEPT !.pc = "wait"]
           over == [waits EXCEPT !.before = 0]
<1>1. loop \in [Process -> LoopState] /\ loop[j] \in LoopState
    BY DEF RetentionTypes
<1>2. waits \in LoopState /\ waits.pc = "wait" /\ waits.lastCleanupDay = loop[j].lastCleanupDay
    BY <1>1 DEF LoopState
<1>3. over \in LoopState /\ over.pc = "wait" /\ over.lastCleanupDay = loop[j].lastCleanupDay
  <2> HIDE DEF waits
  <2> QED
      BY <1>2 DEF LoopState
<1>4. loop' = [loop EXCEPT ![j] = over]
    BY <1>1 DEF LoopState
<1> HIDE DEF waits, over
<1>5. loop' \in [Process -> LoopState] /\ loop'[j] = over
      /\ \A k \in Process : k # j => loop'[k] = loop[k]
    BY <1>1, <1>3, <1>4
<1> QED
    BY <1>3, <1>5

LEMMA DeleteKeeps ==
    ASSUME RetentionTypes, \A k \in Process : LoopInv(k),
           NEW j \in Process, DeleteMonEventsBefore(j)
    PROVE  RetentionTypes' /\ \A k \in Process : LoopInv(k)'
<1>1. loop[j].pc = "delete" /\ UNCHANGED <<now, skips>>
    BY DEF DeleteMonEventsBefore
<1>2. /\ kept' \in [Time -> Nat]
      /\ \A t \in Time : kept[t] \in Nat /\ kept'[t] \in Nat /\ kept'[t] <= kept[t]
    BY DeleteLeaves DEF RetentionTypes
<1>3. \A t \in Time : kept'[t] > 0 => kept[t] > 0
    BY <1>2
<1>4. skips \in Nat /\ skips <= skips' /\ skips' \in Nat /\ now' = now
    BY <1>1 DEF RetentionTypes
<1>5. ASSUME loop' = loop
      PROVE  RetentionTypes' /\ \A k \in Process : LoopInv(k)'
  <2>1. RetentionTypes'
      BY <1>1, <1>2, <1>5 DEF RetentionTypes
  <2>2. ASSUME NEW k \in Process PROVE LoopInv(k)'
      BY <1>3, <1>4, <1>5, <2>1, LoopRests
  <2> QED
      BY <2>1, <2>2
<1>6. ASSUME loop' = [loop EXCEPT ![j].pc = "wait", ![j].before = 0],
             \A t \in Time : kept'[t] > 0 => loop[j].before <= t
      PROVE  RetentionTypes' /\ \A k \in Process : LoopInv(k)'
  <2>1. /\ loop[j] \in LoopState /\ now \in Nat /\ Today \in Nat
        /\ Today * DayLength <= now /\ now < (Today + 1) * DayLength
        /\ RetentionDays \in Nat
      BY TodayIs, Constants DEF RetentionTypes
  <2>2. /\ loop' \in [Process -> LoopState]
        /\ \A k \in Process : k # j => loop'[k] = loop[k]
        /\ loop'[j].pc = "wait" /\ loop'[j].lastCleanupDay = loop[j].lastCleanupDay
      BY <1>6, BackToWaiting
  <2>3. RetentionTypes' /\ Today' = Today
      BY <1>1, <1>2, <2>2 DEF RetentionTypes, Today
  <2>4. /\ loop[j].lastCleanupDay = Today /\ now = Today * DayLength
        /\ loop[j].before = now - RetentionDays * DayLength
      BY <1>1 DEF LoopInv, CutoffIsToday
  <2>5. DateNoted(j)' /\ CutoffIsToday(j)' /\ CleanedDay(j)' = Today
    <3>1. (Today + 1) * DayLength \in Int
        BY <2>1, Constants
    <3> QED
        BY <1>4, <2>1, <2>2, <2>3, <2>4, <3>1 DEF DateNoted, CutoffIsToday, CleanedDay
  <2>6. CleanedUpTo(j)'
    <3> DEFINE a == Today - RetentionDays - skips
               b == Today - RetentionDays
    <3>1. a \in Int /\ b \in Int /\ a <= b /\ b = Today - RetentionDays
        BY <1>4, <2>1
    <3>2. Floor(j)' = a * DayLength
        BY <1>1, <2>5 DEF Floor
    <3> HIDE DEF a, b
    <3>3. /\ a * DayLength \in Int /\ b * DayLength \in Int
          /\ a * DayLength <= b * DayLength
        BY <3>1, Constants, DaysMonotone
    <3>4. b * DayLength = Today * DayLength - RetentionDays * DayLength
        BY <2>1, <3>1, Constants, DaysAdd
    <3>5. loop[j].before = b * DayLength
        BY <2>4, <3>4
    <3>6. ASSUME NEW t \in Time, kept'[t] > 0 PROVE a * DayLength <= t
      <4>1. t \in Nat /\ b * DayLength <= t
          BY <1>6, <3>5, <3>6, Constants
      <4> QED
          BY <3>3, <4>1
    <3> QED
        BY <3>2, <3>6 DEF CleanedUpTo
  <2>7. LoopInv(j)'
      BY <2>5, <2>6 DEF LoopInv
  <2> QED
      BY <1>3, <1>4, <2>2, <2>3, <2>7, OthersRest
<1> QED
    BY <1>5, <1>6, DeleteLeaves

LEMMA FailKeeps ==
    ASSUME RetentionTypes, \A k \in Process : LoopInv(k),
           NEW j \in Process, CleanupFails(j)
    PROVE  RetentionTypes' /\ \A k \in Process : LoopInv(k)'
<1>1. /\ loop[j].pc = "delete" /\ UNCHANGED <<now, kept>>
      /\ loop' = [loop EXCEPT ![j].pc = "wait", ![j].before = 0]
      /\ skips' = skips + 1 /\ skips \in Nat /\ skips' \in Nat /\ skips <= skips'
    BY DEF CleanupFails, Skip, RetentionTypes
<1>2. /\ loop[j] \in LoopState /\ now \in Nat /\ Today \in Nat
      /\ Today * DayLength <= now /\ now < (Today + 1) * DayLength
    BY TodayIs DEF RetentionTypes
<1>3. /\ loop' \in [Process -> LoopState]
      /\ \A k \in Process : k # j => loop'[k] = loop[k]
      /\ loop'[j].pc = "wait" /\ loop'[j].lastCleanupDay = loop[j].lastCleanupDay
    BY <1>1, BackToWaiting
<1>4. RetentionTypes' /\ Today' = Today
    BY <1>1, <1>3 DEF RetentionTypes, Today
<1>5. loop[j].lastCleanupDay = Today /\ CleanedDay(j) = Today - 1
    BY <1>1 DEF LoopInv, CutoffIsToday, CleanedDay
<1>6. DateNoted(j)' /\ CutoffIsToday(j)' /\ CleanedDay(j)' = Today
  <2>1. (Today + 1) * DayLength \in Int
      BY <1>2, Constants
  <2> QED
      BY <1>1, <1>2, <1>3, <1>4, <1>5, <2>1 DEF DateNoted, CutoffIsToday, CleanedDay
<1>7. CleanedDay(j)' - skips' <= CleanedDay(j) - skips
    BY <1>1, <1>2, <1>5, <1>6
<1>8. LoopInv(j)'
    BY <1>1, <1>2, <1>6, <1>7, LoopMoves
<1> QED
    BY <1>1, <1>3, <1>4, <1>8, OthersRest

LEMMA StartAgainKeeps ==
    ASSUME RetentionTypes, \A k \in Process : LoopInv(k),
           NEW j \in Process, StartAgain(j)
    PROVE  RetentionTypes' /\ \A k \in Process : LoopInv(k)'
<1>1. /\ UNCHANGED <<now, kept>>
      /\ loop' = [loop EXCEPT ![j] = Started]
      /\ skips' = skips + 1 /\ skips \in Nat /\ skips' \in Nat /\ skips <= skips'
    BY DEF StartAgain, Skip, RetentionTypes
<1>2. Started \in LoopState
    BY DEF Started, LoopState
<1>3. /\ loop' \in [Process -> LoopState]
      /\ \A k \in Process : k # j => loop'[k] = loop[k]
      /\ loop'[j].pc = "start"
    BY <1>1, <1>2 DEF RetentionTypes, Started
<1>4. RetentionTypes' /\ Today' = Today
    BY <1>1, <1>3 DEF RetentionTypes, Today
<1>5. /\ CleanedDay(j)' = Today /\ Today \in Nat
      /\ CleanedDay(j) \in Int /\ Today <= CleanedDay(j) + 1
    BY <1>3, <1>4, DayBounds, TodayIs DEF CleanedDay, RetentionTypes
<1>6. DateNoted(j)' /\ CutoffIsToday(j)'
    BY <1>3 DEF DateNoted, CutoffIsToday
<1>7. CleanedDay(j)' - skips' <= CleanedDay(j) - skips
    BY <1>1, <1>5
<1>8. LoopInv(j)'
    BY <1>1, <1>5, <1>6, <1>7, LoopMoves
<1> QED
    BY <1>1, <1>3, <1>4, <1>8, OthersRest

\* Of the events' part, a step of the retention is a step of the ingestion or
\* leaves it alone.
LEMMA IngestionOrNot == RetentionNext => [EventNext]_eventVars
BY DEF RetentionNext, Pass, IngestRows, WindowMoves, Loop, StartMonAlertJob, TickerFires,
       DeleteMonEventsBefore, CleanupFails, StartAgain, EventNext

\* Every step keeps the invariant.
LEMMA RetentionInvStep ==
    ASSUME RetentionInv, [RetentionNext]_allVars
    PROVE  RetentionInv'
<1>0. EventInv /\ EventTypeOK /\ RetentionTypes /\ \A j \in Process : LoopInv(j)
    BY DEF RetentionInv, EventInv
<1>1. EventInv'
  <2>1. [EventNext]_eventVars
      BY IngestionOrNot DEF allVars
  <2> QED
      BY <1>0, <2>1, EventInvStep
<1>2. ASSUME UNCHANGED <<now, loop, skips>>, RetentionTypes',
             \A t \in Time : kept'[t] > 0 => (kept[t] > 0 \/ t = now)
      PROVE  RetentionTypes' /\ \A j \in Process : LoopInv(j)'
  <2>1. skips' \in Nat /\ skips <= skips'
      BY <1>2 DEF RetentionTypes
  <2>2. ASSUME NEW j \in Process PROVE LoopInv(j)'
      BY <1>0, <1>2, <2>1, LoopRests
  <2> QED
      BY <1>2, <2>2
<1>3. CASE Pass
    BY <1>0, <1>1, <1>3, PassKeeps DEF RetentionInv
<1>4. CASE IngestRows
  <2>1. /\ RetentionTypes'
        /\ UNCHANGED <<now, loop, skips>>
        /\ \A t \in Time : kept'[t] > 0 => (kept[t] > 0 \/ t = now)
      BY <1>0, <1>4, RowsOnlyCome
  <2> QED
      BY <1>1, <1>2, <2>1 DEF RetentionInv
<1>5. CASE UNCHANGED retentionVars
  <2>1. UNCHANGED <<now, kept, loop, skips>>
      BY <1>5 DEF retentionVars
  <2>2. RetentionTypes'
      BY <1>0, <2>1 DEF RetentionTypes
  <2> QED
      BY <1>1, <1>2, <2>1, <2>2 DEF RetentionInv
<1>6. ASSUME NEW j \in Process, Loop(j) \/ CleanupFails(j) \/ StartAgain(j)
      PROVE  RetentionInv'
  <2>1. CASE StartMonAlertJob(j)
      BY <1>0, <1>1, <2>1, StartKeeps DEF RetentionInv
  <2>2. CASE TickerFires(j)
      BY <1>0, <1>1, <2>2, TickKeeps DEF RetentionInv
  <2>3. CASE DeleteMonEventsBefore(j)
      BY <1>0, <1>1, <2>3, DeleteKeeps DEF RetentionInv
  <2>4. CASE CleanupFails(j)
      BY <1>0, <1>1, <2>4, FailKeeps DEF RetentionInv
  <2>5. CASE StartAgain(j)
      BY <1>0, <1>1, <2>5, StartAgainKeeps DEF RetentionInv
  <2> QED
      BY <1>6, <2>1, <2>2, <2>3, <2>4, <2>5 DEF Loop
<1>7. CASE UNCHANGED allVars
    BY <1>5, <1>7 DEF allVars
<1> QED
    BY <1>3, <1>4, <1>5, <1>6, <1>7 DEF RetentionNext, WindowMoves

\* The types hold in every state, and for every loop the rows are as young as
\* the day it has noted promises: service.StartMonAlertJob writes the day down
\* at its start and before its cleanup, and cleanupMonEvents deletes until a
\* statement takes fewer rows than its limit.
THEOREM RetentionInvariant == RetentionSpec => []RetentionInv
<1>1. RetentionInit => RetentionInv
    BY RetentionInvInit
<1>2. RetentionInv /\ [RetentionNext]_allVars => RetentionInv'
    BY RetentionInvStep
<1> QED
    BY <1>1, <1>2, PTL DEF RetentionSpec

\* No row of mon_event outlives its retention by more than a day, and one more
\* for each start or failure that made a loop skip its cleanup, whatever the
\* number of servers, the arrivals and the races of their DELETEs
\* (service.StartMonAlertJob, cleanupMonEvents).
THEOREM RetentionIsAlwaysKept == RetentionSpec => []RetentionIsKept
<1>1. RetentionInv => RetentionIsKept
    BY KeptFromInv
<1> QED
    BY <1>1, RetentionInvariant, PTL

-------------------------------------------------------------------------------
(***************************************************************************)
(* What ingestion promises, beside the alerts and the cleanup as well.     *)
(***************************************************************************)
\* Neither the scan loop nor the cleanup does anything to what a request of
\* service.IngestEvents goes by: with either of them beside it the ingestion
\* behaves as by itself.
THEOREM IngestionAlongside == (Spec => EventSpec) /\ (RetentionSpec => EventSpec)
<1>1. AlertInit => EventInit
    BY DEF AlertInit
<1>2. [Next]_vars => [EventNext]_eventVars
    BY DEF Next, EventStep, Tick, Scan, ScanFails, DetailFails, Restart, AckMonAlert, vars,
           ListMonProjectsInWindow, CheckMonRule, BuildMonAlertDetail, FindPendingMonAlert,
           UpdateMonAlertMetric, InsertMonAlert, RefuseMonAlert, PostMonWebhook
<1>3. RetentionInit => EventInit
    BY DEF RetentionInit
<1>4. [RetentionNext]_allVars => [EventNext]_eventVars
    BY IngestionOrNot DEF allVars
<1> QED
    BY <1>1, <1>2, <1>3, <1>4, PTL DEF Spec, RetentionSpec, EventSpec

\* The types, and what the cards show, hold after every request.
LEMMA EventInvariant == EventSpec => []EventInv
<1>1. EventInv /\ [EventNext]_eventVars => EventInv'
    BY EventInvStep
<1> QED
    BY <1>1, EventInvInit, PTL DEF EventSpec

\* With the switch off every white-screen entry of a batch of any length has its
\* card posted in its place, and the card shows that entry when nothing before it was
\* rejected (service.IngestEvents).
THEOREM CardsAlwaysShowTheirEntries == EventSpec => []CardsShowTheirEntries
<1>1. EventInv => CardsShowTheirEntries
    BY DEF EventInv
<1> QED
    BY <1>1, EventInvariant, PTL
===============================================================================
