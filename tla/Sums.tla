-------------------------------- MODULE Sums ---------------------------------
(***************************************************************************)
(* Sums over finite sets, for the proofs that count: a product's stock     *)
(* over its orders, the rows a statement takes over their times, a batch   *)
(* over its projects and types, a page over its table; and what counting   *)
(* itself needs.                                                           *)
(*                                                                         *)
(* MapThenSumSet adds the terms up in the order in which CHOOSE draws      *)
(* them.  That the sum is there, and that the order does not matter,       *)
(* follows for finite sets from a smallest subset for which it would fail. *)
(***************************************************************************)
EXTENDS Integers, FiniteSetsExt, FiniteSetTheorems, WellFoundedInduction, TLAPS

\* The element that is drawn next, and the sum of a function's values.
Some(s) == CHOOSE x \in s : TRUE
SumOf(g, S) == MapThenSumSet(LAMBDA x : g[x], S)

\* The partial sums of g over the subsets of S, as the fold computes them.
PartialSums(h, g, S) ==
    h = [s \in SUBSET S |-> IF s = {} THEN 0 ELSE g[Some(s)] + h[s \ {Some(s)}]]

\* A family of subsets of a finite set has a smallest one.
LEMMA SmallestSubset ==
    ASSUME NEW S, IsFiniteSet(S), NEW Bad, Bad \subseteq SUBSET S, Bad # {}
    PROVE  \E s \in Bad : \A u \in Bad : u \subseteq s => u = s
<1>1. Bad \subseteq FiniteSubsetsOf(S)
    BY FS_FiniteSubsetsOfFinite
<1>2. IsWellFoundedOn(StrictSubsetOrdering(S), FiniteSubsetsOf(S))
    BY FS_StrictSubsetOrderingWellFounded
<1>3. PICK s \in Bad : \A u \in Bad : ~(<<u, s>> \in StrictSubsetOrdering(S))
    BY <1>1, <1>2, WFMin
<1>4. \A u \in Bad : u \subseteq s /\ u # s => <<u, s>> \in StrictSubsetOrdering(S)
    BY DEF StrictSubsetOrdering
<1>5. \A u \in Bad : u \subseteq s => u = s
    BY <1>3, <1>4, Zenon
<1> QED
    BY <1>5, Zenon

\* A set of numbers has a smallest one.
LEMMA SmallestNumber ==
    ASSUME NEW N \in Nat, NEW Bad, Bad \subseteq 0..N, Bad # {}
    PROVE  \E n \in Bad : \A m \in Bad : n <= m
<1> DEFINE To(n) == 1..n
           Tos == {To(n) : n \in Bad}
           All == 1..N
<1>1. IsFiniteSet(All)
    BY FS_Interval
<1>2. Tos \subseteq SUBSET All /\ Tos # {}
  <2>1. \A n \in Bad : To(n) \in SUBSET All /\ To(n) \in Tos
      OBVIOUS
  <2>2. \A s \in Tos : \E n \in Bad : s = To(n)
      OBVIOUS
  <2> HIDE DEF To, Tos, All
  <2> QED
      BY <2>1, <2>2
<1>3. PICK s \in Tos : \A u \in Tos : u \subseteq s => u = s
  <2> HIDE DEF To, Tos, All
  <2> QED
      BY <1>1, <1>2, SmallestSubset
<1>4. PICK n \in Bad : s = To(n)
    BY <1>3
<1>5. ASSUME NEW m \in Bad, m < n PROVE FALSE
  <2>1. m \in Nat /\ n \in Nat
      OBVIOUS
  <2>2. To(m) \in Tos /\ To(m) \subseteq To(n)
      BY <1>5, <2>1
  <2>3. n \in To(n) /\ n \notin To(m)
      BY <1>5, <2>1
  <2> QED
      BY <1>3, <1>4, <2>2, <2>3
<1>6. \A m \in Bad : n <= m
    BY <1>5
<1> QED
    BY <1>6

\* Drawing an element of a set gives one of its elements.
LEMMA SomeIn == \A s : s # {} => Some(s) \in s
BY DEF Some

\* The equation of the partial sums has one solution at most, and one at least.
LEMMA SumsUnique ==
    ASSUME NEW S, IsFiniteSet(S), NEW g, NEW h, NEW k,
           PartialSums(h, g, S), PartialSums(k, g, S)
    PROVE  h = k
<1> DEFINE Bad == {s \in SUBSET S : h[s] # k[s]}
<1>1. ASSUME Bad # {} PROVE FALSE
  <2>0. Bad \subseteq SUBSET S
      OBVIOUS
  <2>1. PICK s \in Bad : \A u \in Bad : u \subseteq s => u = s
    <3> HIDE DEF Bad
    <3> QED
      BY <1>1, <2>0, SmallestSubset
  <2>2. s # {}
      BY <2>1 DEF PartialSums
  <2>3. s \ {Some(s)} \in SUBSET S /\ s \ {Some(s)} # s
      BY <2>2, SomeIn
  <2>4. h[s \ {Some(s)}] = k[s \ {Some(s)}]
      BY <2>1, <2>3
  <2> QED
      BY <2>1, <2>2, <2>4 DEF PartialSums
<1>2. h = [s \in SUBSET S |-> h[s]] /\ k = [s \in SUBSET S |-> k[s]]
    BY DEF PartialSums
<1> QED
    BY <1>1, <1>2

LEMMA SumsRestrict ==
    ASSUME NEW S, NEW T \in SUBSET S, NEW g, NEW h, PartialSums(h, g, S)
    PROVE  PartialSums([s \in SUBSET T |-> h[s]], g, T)
<1>1. \A s \in SUBSET T : s # {} => s \ {Some(s)} \in SUBSET T
    OBVIOUS
<1>2. \A s \in SUBSET T : h[s] = IF s = {} THEN 0 ELSE g[Some(s)] + h[s \ {Some(s)}]
    BY DEF PartialSums
<1> QED
    BY <1>1, <1>2 DEF PartialSums

\* The sums over a set agree with those over its subsets.
LEMMA SumsAgree ==
    ASSUME NEW S, IsFiniteSet(S), NEW T \in SUBSET S, NEW g, NEW h, NEW k,
           PartialSums(h, g, S), PartialSums(k, g, T)
    PROVE  \A s \in SUBSET T : h[s] = k[s]
<1>1. [s \in SUBSET T |-> h[s]] = k
  <2>1. IsFiniteSet(T)
      BY FS_Subset
  <2>2. PartialSums([s \in SUBSET T |-> h[s]], g, T)
      BY SumsRestrict
  <2> QED
      BY <2>1, <2>2, SumsUnique
<1> QED
    BY <1>1

LEMMA SumsExist ==
    ASSUME NEW S, IsFiniteSet(S), NEW g
    PROVE  \E h : PartialSums(h, g, S)
<1> DEFINE Bad == {s \in SUBSET S : ~\E h : PartialSums(h, g, s)}
<1>1. ASSUME Bad # {} PROVE FALSE
  <2>0. Bad \subseteq SUBSET S
      OBVIOUS
  <2>1. PICK s \in Bad : \A u \in Bad : u \subseteq s => u = s
    <3> HIDE DEF Bad
    <3> QED
      BY <1>1, <2>0, SmallestSubset
  <2> DEFINE H == [u \in SUBSET s |-> CHOOSE h : PartialSums(h, g, u)]
             Rest(u) == u \ {Some(u)}
             h == [u \in SUBSET s |-> IF u = {} THEN 0 ELSE g[Some(u)] + H[Rest(u)][Rest(u)]]
  <2>2. \A u \in SUBSET s : u # {} => Rest(u) \in SUBSET s /\ Rest(u) # s
      BY SomeIn
  <2>3. \A u \in SUBSET s : u # s => PartialSums(H[u], g, u)
      BY <2>1
  <2>4. \A u \in SUBSET s : IsFiniteSet(u)
      BY FS_Subset
  <2>5. \A u \in SUBSET s : h[u] = IF u = {} THEN 0 ELSE g[Some(u)] + H[Rest(u)][Rest(u)]
      OBVIOUS
  <2>6. h = [u \in SUBSET s |-> h[u]]
      OBVIOUS
  <2> HIDE DEF H, h
  <2>7. \A u \in SUBSET s : u # s => h[u] = H[u][u]
    <3> SUFFICES ASSUME NEW u \in SUBSET s, u # s PROVE h[u] = H[u][u]
        OBVIOUS
    <3>1. H[u] = [v \in SUBSET u |-> IF v = {} THEN 0 ELSE g[Some(v)] + H[u][v \ {Some(v)}]]
        BY <2>3 DEF PartialSums
    <3>2. H[u][u] = IF u = {} THEN 0 ELSE g[Some(u)] + H[u][Rest(u)]
        BY <3>1
    <3>3. ASSUME u # {} PROVE H[u][Rest(u)] = H[Rest(u)][Rest(u)]
      <4>1. PartialSums(H[u], g, u) /\ PartialSums(H[Rest(u)], g, Rest(u))
          BY <2>2, <2>3, <3>3
      <4>2. Rest(u) \in SUBSET u /\ IsFiniteSet(u)
          BY <2>4
      <4>3. Rest(u) \in SUBSET Rest(u)
          OBVIOUS
      <4> DEFINE r == Rest(u)
                 hu == H[u]
                 hr == H[r]
      <4> HIDE DEF Rest, r, hu, hr
      <4>4. \A v \in SUBSET r : hu[v] = hr[v]
          BY <4>1, <4>2, SumsAgree DEF r, hu, hr
      <4> QED
          BY <4>3, <4>4 DEF r, hu, hr
    <3> QED
        BY <2>5, <3>2, <3>3
  <2>8. \A u \in SUBSET s : h[u] = IF u = {} THEN 0 ELSE g[Some(u)] + h[Rest(u)]
    <3> SUFFICES ASSUME NEW u \in SUBSET s, u # {} PROVE h[u] = g[Some(u)] + h[Rest(u)]
        BY <2>5
    <3>1. h[Rest(u)] = H[Rest(u)][Rest(u)]
        BY <2>2, <2>7
    <3> QED
        BY <2>5, <3>1
  <2>9. PartialSums(h, g, s)
      BY <2>8, <2>6 DEF PartialSums
  <2> QED
      BY <2>1, <2>9
<1>2. S \notin Bad
    BY <1>1
<1> QED
    BY <1>2

\* A sum, opened.
LEMMA SumUnfolds ==
    ASSUME NEW S, NEW g, NEW h, PartialSums(h, g, S)
    PROVE  \E k : PartialSums(k, g, S) /\ SumOf(g, S) = k[S]
BY DEF PartialSums, Some, SumOf, MapThenSumSet, MapThenFoldSet

LEMMA SumOfIs ==
    ASSUME NEW S, IsFiniteSet(S), NEW g, NEW h, PartialSums(h, g, S), NEW T \in SUBSET S
    PROVE  SumOf(g, T) = h[T]
<1>1. PICK k0 : PartialSums(k0, g, T)
    BY SumsExist, FS_Subset
<1>2. PICK k : PartialSums(k, g, T) /\ SumOf(g, T) = k[T]
    BY <1>1, SumUnfolds
<1>3. h[T] = k[T]
    BY <1>2, SumsAgree
<1> QED
    BY <1>2, <1>3

\* The empty sum, and a sum with one element taken out, whichever it is.
LEMMA SumEmpty == ASSUME NEW g PROVE SumOf(g, {}) = 0
<1>1. PICK h : PartialSums(h, g, {})
    BY SumsExist, FS_EmptySet
<1>2. SumOf(g, {}) = h[{}]
    BY <1>1, SumOfIs, FS_EmptySet
<1> QED
    BY <1>1, <1>2 DEF PartialSums

LEMMA SumTakeOut ==
    ASSUME NEW S, IsFiniteSet(S), NEW g, \A x \in S : g[x] \in Int
    PROVE  SumOf(g, S) \in Int /\ \A x \in S : SumOf(g, S) = g[x] + SumOf(g, S \ {x})
<1>1. PICK h : PartialSums(h, g, S)
    BY SumsExist
<1>2. \A s \in SUBSET S : h[s] = IF s = {} THEN 0 ELSE g[Some(s)] + h[s \ {Some(s)}]
    BY <1>1 DEF PartialSums
<1> DEFINE Good(s) == h[s] \in Int /\ \A x \in s : h[s] = g[x] + h[s \ {x}]
           Bad == {s \in SUBSET S : ~Good(s)}
<1>3. ASSUME Bad # {} PROVE FALSE
  <2>0. Bad \subseteq SUBSET S
      OBVIOUS
  <2>1. PICK s \in Bad : \A u \in Bad : u \subseteq s => u = s
    <3> HIDE DEF Bad
    <3> QED
      BY <1>3, <2>0, SmallestSubset
  <2>2. s # {} /\ s \in SUBSET S
    <3>1. h[{}] = 0
        BY <1>2
    <3>2. Good({})
        BY <3>1
    <3> QED
        BY <2>1, <3>2
  <2> DEFINE y == Some(s)
  <2>3. y \in s /\ h[s] = g[y] + h[s \ {y}] /\ g[y] \in Int
      BY <1>2, <2>2, SomeIn
  <2>4. \A u \in SUBSET s : u # s => Good(u)
      BY <2>1
  <2>5. h[s] \in Int
      BY <2>3, <2>4
  <2>6. ASSUME NEW x \in s, x # y PROVE h[s] = g[x] + h[s \ {x}]
    <3>1. h[s \ {y}] = g[x] + h[(s \ {y}) \ {x}]
        BY <2>3, <2>4, <2>6
    <3>2. h[s \ {x}] = g[y] + h[(s \ {x}) \ {y}]
        BY <2>3, <2>4, <2>6
    <3>3. (s \ {y}) \ {x} = (s \ {x}) \ {y}
        OBVIOUS
    <3>4. h[(s \ {y}) \ {x}] \in Int /\ g[x] \in Int
        BY <2>2, <2>3, <2>4, <2>6
    <3> DEFINE c == h[(s \ {y}) \ {x}]
    <3>5. h[s] = g[y] + (g[x] + c) /\ h[s \ {x}] = g[y] + c
        BY <2>3, <3>1, <3>2, <3>3
    <3>6. c \in Int /\ g[x] \in Int /\ g[y] \in Int
        BY <2>3, <3>4
    <3> HIDE DEF c, y
    <3> QED
        BY <3>5, <3>6
  <2> QED
      BY <2>1, <2>3, <2>5, <2>6
<1>4. Good(S)
    BY <1>3
<1>5. SumOf(g, S) = h[S] /\ \A x \in S : SumOf(g, S \ {x}) = h[S \ {x}]
    BY <1>1, SumOfIs
<1> QED
    BY <1>4, <1>5

\* Sums of the same terms.
LEMMA SumSame ==
    ASSUME NEW S, IsFiniteSet(S), NEW f, NEW g, \A x \in S : f[x] = g[x]
    PROVE  SumOf(f, S) = SumOf(g, S)
<1>1. PICK h : PartialSums(h, f, S)
    BY SumsExist
<1>2. PartialSums(h, g, S)
  <2>1. \A s \in SUBSET S : h[s] = IF s = {} THEN 0 ELSE g[Some(s)] + h[s \ {Some(s)}]
    <3>1. \A s \in SUBSET S : s # {} => f[Some(s)] = g[Some(s)]
        BY SomeIn
    <3>2. \A s \in SUBSET S : h[s] = IF s = {} THEN 0 ELSE f[Some(s)] + h[s \ {Some(s)}]
        BY <1>1 DEF PartialSums
    <3> QED
        BY <3>1, <3>2
  <2>2. h = [s \in SUBSET S |-> h[s]]
      BY <1>1 DEF PartialSums
  <2> QED
      BY <2>1, <2>2 DEF PartialSums
<1> QED
    BY <1>1, <1>2, SumOfIs

\* A sum over fewer and smaller terms.
LEMMA SumBound ==
    ASSUME NEW S, IsFiniteSet(S), NEW T \in SUBSET S, NEW f, NEW g,
           \A x \in S : g[x] \in Nat,
           \A x \in T : f[x] \in Nat /\ f[x] <= g[x]
    PROVE  SumOf(f, T) \in Int /\ SumOf(g, S) \in Int /\ SumOf(f, T) <= SumOf(g, S)
<1> DEFINE Good(s) == SumOf(f, s \cap T) <= SumOf(g, s)
           Bad == {s \in SUBSET S : ~Good(s)}
<1>1. \A s \in SUBSET S : IsFiniteSet(s) /\ IsFiniteSet(s \cap T)
    BY FS_Subset
<1>2. \A s \in SUBSET S :
         /\ SumOf(g, s) \in Int
         /\ \A x \in s : SumOf(g, s) = g[x] + SumOf(g, s \ {x})
  <2> SUFFICES ASSUME NEW s \in SUBSET S
               PROVE  /\ SumOf(g, s) \in Int
                      /\ \A x \in s : SumOf(g, s) = g[x] + SumOf(g, s \ {x})
      OBVIOUS
  <2>1. IsFiniteSet(s)
      BY <1>1
  <2>2. \A x \in s : g[x] \in Int
      OBVIOUS
  <2> QED
      BY <2>1, <2>2, SumTakeOut
<1>3. \A s \in SUBSET T :
         /\ SumOf(f, s) \in Int
         /\ \A x \in s : SumOf(f, s) = f[x] + SumOf(f, s \ {x})
  <2> SUFFICES ASSUME NEW s \in SUBSET T
               PROVE  /\ SumOf(f, s) \in Int
                      /\ \A x \in s : SumOf(f, s) = f[x] + SumOf(f, s \ {x})
      OBVIOUS
  <2>1. s \in SUBSET S
      OBVIOUS
  <2>2. IsFiniteSet(s)
      BY <1>1, <2>1
  <2>3. \A x \in s : f[x] \in Int
      OBVIOUS
  <2> QED
      BY <2>2, <2>3, SumTakeOut
<1>4. ASSUME Bad # {} PROVE FALSE
  <2>0. Bad \subseteq SUBSET S
      OBVIOUS
  <2>1. PICK s \in Bad : \A u \in Bad : u \subseteq s => u = s
    <3> HIDE DEF Bad
    <3> QED
        BY <1>4, <2>0, SmallestSubset
  <2>2. s \in SUBSET S /\ s # {}
    <3>1. Good({})
      <4>1. {} \cap T = {}
          OBVIOUS
      <4> QED
          BY <4>1, SumEmpty
    <3> QED
        BY <2>1, <3>1
  <2>3. PICK x \in s : TRUE
      BY <2>2
  <2>4. Good(s \ {x})
      BY <2>1, <2>3
  <2>5. SumOf(g, s) = g[x] + SumOf(g, s \ {x}) /\ SumOf(g, s \ {x}) \in Int /\ g[x] \in Nat
      BY <1>2, <2>2, <2>3
  <2>6. CASE x \in T
    <3>1. (s \ {x}) \cap T = (s \cap T) \ {x}
        OBVIOUS
    <3>2. SumOf(f, s \cap T) = f[x] + SumOf(f, (s \cap T) \ {x})
        BY <1>3, <2>3, <2>6
    <3>3. SumOf(f, (s \cap T) \ {x}) \in Int
        BY <1>3
    <3> QED
        BY <2>1, <2>4, <2>5, <2>6, <3>1, <3>2, <3>3
  <2>7. CASE x \notin T
    <3>1. (s \ {x}) \cap T = s \cap T
        BY <2>7
    <3>2. SumOf(f, s \cap T) \in Int
        BY <1>3
    <3> QED
        BY <2>1, <2>4, <2>5, <3>1, <3>2
  <2> QED
      BY <2>6, <2>7
<1>5. Good(S) /\ S \cap T = T
    BY <1>4
<1> QED
    BY <1>2, <1>3, <1>5

\* Terms that are 0 may be left out.
LEMMA SumZeros ==
    ASSUME NEW S, IsFiniteSet(S), NEW T \in SUBSET S, NEW f,
           \A x \in S : f[x] \in Int, \A x \in S \ T : f[x] = 0
    PROVE  SumOf(f, S) = SumOf(f, T)
<1> DEFINE Bad == {s \in SUBSET S : SumOf(f, s) # SumOf(f, s \cap T)}
<1>1. \A s \in SUBSET S : \A x \in s : SumOf(f, s) = f[x] + SumOf(f, s \ {x})
  <2> SUFFICES ASSUME NEW s \in SUBSET S
               PROVE  \A x \in s : SumOf(f, s) = f[x] + SumOf(f, s \ {x})
      OBVIOUS
  <2>1. IsFiniteSet(s) /\ \A x \in s : f[x] \in Int
      BY FS_Subset
  <2> QED
      BY <2>1, SumTakeOut
<1>2. \A s \in SUBSET S : SumOf(f, s) \in Int
  <2> SUFFICES ASSUME NEW s \in SUBSET S PROVE SumOf(f, s) \in Int
      OBVIOUS
  <2>1. IsFiniteSet(s) /\ \A x \in s : f[x] \in Int
      BY FS_Subset
  <2> QED
      BY <2>1, SumTakeOut
<1>3. ASSUME Bad # {} PROVE FALSE
  <2>0. Bad \subseteq SUBSET S
      OBVIOUS
  <2>1. PICK s \in Bad : \A u \in Bad : u \subseteq s => u = s
    <3> HIDE DEF Bad
    <3> QED
        BY <1>3, <2>0, SmallestSubset
  <2>2. s \in SUBSET S /\ s # {}
    <3>1. {} \cap T = {}
        OBVIOUS
    <3> QED
        BY <2>1, <3>1
  <2>3. PICK x \in s : TRUE
      BY <2>2
  <2>4. SumOf(f, s \ {x}) = SumOf(f, (s \ {x}) \cap T)
      BY <2>1, <2>3
  <2>5. SumOf(f, s) = f[x] + SumOf(f, s \ {x}) /\ SumOf(f, s \ {x}) \in Int
      BY <1>1, <1>2, <2>2, <2>3
  <2>6. CASE x \in T
    <3>1. (s \ {x}) \cap T = (s \cap T) \ {x} /\ s \cap T \in SUBSET S /\ x \in s \cap T
        BY <2>2, <2>3, <2>6
    <3>2. SumOf(f, s \cap T) = f[x] + SumOf(f, (s \cap T) \ {x})
        BY <1>1, <3>1
    <3> QED
        BY <2>1, <2>4, <2>5, <3>1, <3>2
  <2>7. CASE x \notin T
    <3>1. (s \ {x}) \cap T = s \cap T /\ f[x] = 0
        BY <2>2, <2>3, <2>7
    <3> QED
        BY <2>1, <2>4, <2>5, <3>1
  <2> QED
      BY <2>6, <2>7
<1>4. SumOf(f, S) = SumOf(f, S \cap T) /\ S \cap T = T
    BY <1>3
<1> QED
    BY <1>4

\* If fewer and smaller terms add up to as much, they are the same terms and
\* the others are 0.
LEMMA SumTight ==
    ASSUME NEW S, IsFiniteSet(S), NEW T \in SUBSET S, NEW f, NEW g,
           \A x \in S : g[x] \in Nat,
           \A x \in T : f[x] \in Nat /\ f[x] <= g[x],
           SumOf(f, T) = SumOf(g, S)
    PROVE  \A x \in S : IF x \in T THEN g[x] = f[x] ELSE g[x] = 0
<1> SUFFICES ASSUME NEW x \in S
             PROVE  IF x \in T THEN g[x] = f[x] ELSE g[x] = 0
    OBVIOUS
<1>1. IsFiniteSet(S \ {x}) /\ T \ {x} \in SUBSET (S \ {x}) /\ IsFiniteSet(T)
    BY FS_Subset
<1>2. /\ \A y \in S \ {x} : g[y] \in Nat
      /\ \A y \in T \ {x} : f[y] \in Nat /\ f[y] <= g[y]
    OBVIOUS
<1>3. /\ SumOf(f, T \ {x}) \in Int /\ SumOf(g, S \ {x}) \in Int
      /\ SumOf(f, T \ {x}) <= SumOf(g, S \ {x})
    BY <1>1, <1>2, SumBound
<1>4. SumOf(g, S) = g[x] + SumOf(g, S \ {x})
  <2>1. \A y \in S : g[y] \in Int
      OBVIOUS
  <2> QED
      BY <2>1, SumTakeOut
<1>5. CASE x \in T
  <2>1. \A y \in T : f[y] \in Int
      OBVIOUS
  <2>2. SumOf(f, T) = f[x] + SumOf(f, T \ {x})
      BY <1>1, <1>5, <2>1, SumTakeOut
  <2>3. f[x] \in Nat /\ g[x] \in Nat /\ f[x] <= g[x]
      BY <1>5
  <2>4. f[x] + SumOf(f, T \ {x}) = g[x] + SumOf(g, S \ {x})
      BY <1>4, <2>2
  <2> QED
      BY <1>3, <1>5, <2>3, <2>4
<1>6. CASE x \notin T
  <2>1. T \ {x} = T
      BY <1>6
  <2>2. g[x] \in Nat /\ SumOf(f, T \ {x}) = g[x] + SumOf(g, S \ {x})
      BY <1>4, <2>1
  <2> QED
      BY <1>3, <1>6, <2>2
<1> QED
    BY <1>5, <1>6

\* Two sums over the same set, term by term.
LEMMA SumAdd ==
    ASSUME NEW S, IsFiniteSet(S), NEW f, NEW g, NEW k,
           \A x \in S : f[x] \in Int /\ g[x] \in Int /\ k[x] = f[x] + g[x]
    PROVE  SumOf(k, S) = SumOf(f, S) + SumOf(g, S)
<1> DEFINE Good(s) == SumOf(k, s) = SumOf(f, s) + SumOf(g, s)
           Bad == {s \in SUBSET S : ~Good(s)}
<1>1. ASSUME Bad # {} PROVE FALSE
  <2>0. Bad \subseteq SUBSET S
      OBVIOUS
  <2>1. PICK s \in Bad : \A u \in Bad : u \subseteq s => u = s
    <3> HIDE DEF Bad
    <3> QED
        BY <1>1, <2>0, SmallestSubset
  <2>2. s \in SUBSET S /\ s # {}
    <3>1. Good({})
        BY SumEmpty
    <3> QED
        BY <2>1, <3>1
  <2>3. PICK x \in s : TRUE
      BY <2>2
  <2>4. Good(s \ {x})
      BY <2>1, <2>3
  <2>5. IsFiniteSet(s) /\ IsFiniteSet(s \ {x})
      BY <2>2, FS_Subset
  <2>6. \A y \in s : f[y] \in Int /\ g[y] \in Int /\ k[y] \in Int
      BY <2>2
  <2>7. \A y \in s \ {x} : f[y] \in Int /\ g[y] \in Int
      BY <2>6
  <2>8. SumOf(k, s) = k[x] + SumOf(k, s \ {x})
      BY <2>3, <2>5, <2>6, SumTakeOut
  <2>9. SumOf(f, s) = f[x] + SumOf(f, s \ {x}) /\ SumOf(f, s \ {x}) \in Int
      BY <2>3, <2>5, <2>6, <2>7, SumTakeOut
  <2>10. SumOf(g, s) = g[x] + SumOf(g, s \ {x}) /\ SumOf(g, s \ {x}) \in Int
      BY <2>3, <2>5, <2>6, <2>7, SumTakeOut
  <2>11. k[x] = f[x] + g[x] /\ f[x] \in Int /\ g[x] \in Int
      BY <2>2, <2>3
  <2>12. Good(s)
      BY <2>4, <2>8, <2>9, <2>10, <2>11
  <2> QED
      BY <2>1, <2>12
<1>2. Good(S)
    BY <1>1
<1> QED
    BY <1>2

\* Counting a finite set value by value: c[x] members of D have the value x, and
\* together they are the members with a value in S.
Valued(D, v, S) == {i \in D : v[i] \in S}

LEMMA CountByValue ==
    ASSUME NEW D, IsFiniteSet(D), NEW v, NEW S, IsFiniteSet(S), NEW c,
           \A x \in S : c[x] = Cardinality(Valued(D, v, {x}))
    PROVE  SumOf(c, S) = Cardinality(Valued(D, v, S))
<1> DEFINE With(s) == Valued(D, v, s)
           Good(s) == SumOf(c, s) = Cardinality(With(s))
           Bad == {s \in SUBSET S : ~Good(s)}
<1>1. ASSUME Bad # {} PROVE FALSE
  <2>0. Bad \subseteq SUBSET S
      OBVIOUS
  <2>1. PICK s \in Bad : \A u \in Bad : u \subseteq s => u = s
    <3> HIDE DEF Bad
    <3> QED
        BY <1>1, <2>0, SmallestSubset
  <2>2. s \in SUBSET S /\ s # {}
    <3>1. With({}) = {}
        BY DEF Valued
    <3>2. Good({})
        BY <3>1, SumEmpty, FS_EmptySet
    <3> QED
        BY <2>1, <3>2
  <2>3. PICK x \in s : TRUE
      BY <2>2
  <2>4. Good(s \ {x})
      BY <2>1, <2>3
  <2>5. \A y \in s : c[y] \in Int
    <3> SUFFICES ASSUME NEW y \in s PROVE c[y] \in Int
        OBVIOUS
    <3> DEFINE These == With({y})
    <3>1. These \subseteq D /\ c[y] = Cardinality(These)
        BY <2>2 DEF Valued
    <3> HIDE DEF These
    <3>2. IsFiniteSet(These)
        BY <3>1, FS_Subset
    <3>3. Cardinality(These) \in Nat
        BY <3>2, FS_CardinalityType
    <3> QED
        BY <3>1, <3>3
  <2>6. IsFiniteSet(s)
      BY <2>2, FS_Subset
  <2>7. SumOf(c, s) = c[x] + SumOf(c, s \ {x})
      BY <2>3, <2>5, <2>6, SumTakeOut
  <2> DEFINE One == With({x})
             Rest == With(s \ {x})
  <2>8. IsFiniteSet(One) /\ IsFiniteSet(Rest) /\ One \cap Rest = {} /\ With(s) = One \cup Rest
    <3>1. One \subseteq D /\ Rest \subseteq D
        BY DEF Valued
    <3>2. IsFiniteSet(One) /\ IsFiniteSet(Rest)
        BY <3>1, FS_Subset
    <3>3. One \cap Rest = {}
        BY DEF Valued
    <3>4. With(s) = One \cup Rest
        BY <2>3 DEF Valued
    <3> QED
        BY <3>2, <3>3, <3>4
  <2>9. Cardinality(With(s)) = Cardinality(One) + Cardinality(Rest)
    <3> HIDE DEF One, Rest, With
    <3>1. Cardinality({}) = 0
        BY FS_EmptySet
    <3>2. Cardinality(One) \in Nat /\ Cardinality(Rest) \in Nat
        BY <2>8, FS_CardinalityType
    <3>3. Cardinality(One \cup Rest)
             = Cardinality(One) + Cardinality(Rest) - Cardinality(One \cap Rest)
        BY <2>8, FS_Union
    <3>4. Cardinality(One \cap Rest) = 0
        BY <2>8, <3>1
    <3>5. Cardinality(With(s)) = Cardinality(One \cup Rest)
        BY <2>8
    <3> QED
        BY <3>2, <3>3, <3>4, <3>5
  <2>10. c[x] = Cardinality(One)
      BY <2>2, <2>3
  <2>11. Good(s)
      BY <2>4, <2>7, <2>9, <2>10
  <2> QED
      BY <2>1, <2>11
<1>2. Good(S)
    BY <1>1
<1> QED
    BY <1>2


-------------------------------------------------------------------------------
(***************************************************************************)
(* Counting: injections, and the greatest and the smallest number of a     *)
(* finite set.                                                             *)
(***************************************************************************)
\* An injection between finite sets of the same size reaches every element.
LEMMA InjectiveIsOnto ==
    ASSUME NEW S, NEW T, IsFiniteSet(S), IsFiniteSet(T),
           Cardinality(S) = Cardinality(T),
           NEW f \in [S -> T], \A x, y \in S : f[x] = f[y] => x = y
    PROVE  \A t \in T : \E x \in S : f[x] = t
<1>1. f \in Injection(S, T)
    BY DEF Injection, IsInjective
<1>2. f \in Surjection(S, T)
    BY <1>1, FS_Injection
<1> QED
    BY <1>2 DEF Surjection

\* As many values as indices.
LEMMA CountInjective ==
    ASSUME NEW k \in Nat, NEW f, \A i, j \in 1..k : f[i] = f[j] => i = j
    PROVE  IsFiniteSet({f[i] : i \in 1..k}) /\ Cardinality({f[i] : i \in 1..k}) = k
<1> DEFINE S == 1..k
           T == {f[i] : i \in 1..k}
           g == [i \in S |-> f[i]]
<1>1. IsFiniteSet(S) /\ Cardinality(S) = k
    BY FS_Interval
<1>2. g \in Bijection(S, T)
    BY DEF Bijection, Injection, Surjection, IsInjective
<1> QED
    BY <1>1, <1>2, FS_Bijection DEF ExistsBijection

\* A finite set of numbers that is not empty has a greatest one.
LEMMA MaxIs ==
    ASSUME NEW T, IsFiniteSet(T), T \subseteq Int, NEW z \in T
    PROVE  Max(T) \in T /\ \A y \in T : Max(T) >= y
<1> DEFINE Up(x) == {y \in T : y >= x}
           Sizes == {Cardinality(Up(x)) : x \in T}
<1>1. Cardinality(T) \in Nat
    BY FS_CardinalityType
<1>2. ASSUME NEW x \in T
      PROVE  IsFiniteSet(Up(x)) /\ Cardinality(Up(x)) \in 0..Cardinality(T)
  <2>1. Up(x) \in SUBSET T
      OBVIOUS
  <2> HIDE DEF Up
  <2>2. IsFiniteSet(Up(x)) /\ Cardinality(Up(x)) <= Cardinality(T)
      BY <2>1, FS_Subset
  <2>3. Cardinality(Up(x)) \in Nat
      BY <2>2, FS_CardinalityType
  <2> QED
      BY <1>1, <2>2, <2>3
<1>3. PICK x \in T : \A y \in T : Cardinality(Up(x)) <= Cardinality(Up(y))
  <2> HIDE DEF Up
  <2>1. Sizes \subseteq 0..Cardinality(T) /\ Cardinality(Up(z)) \in Sizes
      BY <1>2
  <2>2. \E n \in Sizes : \A m \in Sizes : n <= m
    <3> HIDE DEF Sizes
    <3> QED
      BY <1>1, <2>1, SmallestNumber
  <2> QED
      BY <2>2
<1>4. ASSUME NEW y \in T PROVE x >= y
  <2>1. SUFFICES ASSUME y > x PROVE FALSE
      OBVIOUS
  <2>2. x \in Int /\ y \in Int /\ \A v \in T : v \in Int
      OBVIOUS
  <2>3. Up(y) \subseteq Up(x)
    <3> SUFFICES ASSUME NEW v \in T, v >= y PROVE v >= x
        OBVIOUS
    <3> QED
        BY <2>1, <2>2
  <2>4. x \in Up(x) /\ x \notin Up(y)
      BY <2>1, <2>2
  <2>5. Cardinality(Up(x)) \in Nat /\ Cardinality(Up(y)) \in Nat
      BY <1>1, <1>2
  <2> HIDE DEF Up
  <2>6. Cardinality(Up(y)) <= Cardinality(Up(x)) /\ Cardinality(Up(x)) # Cardinality(Up(y))
      BY <1>2, <2>3, <2>4, FS_Subset
  <2> QED
      BY <1>3, <2>5, <2>6
<1> QED
    BY <1>4 DEF Max

LEMMA MinIs ==
    ASSUME NEW n \in Nat, NEW T, T \subseteq 0..n, T # {}
    PROVE  Min(T) \in T /\ \A y \in T : Min(T) <= y
<1>1. \E x \in T : \A y \in T : x <= y
    BY SmallestNumber
<1> QED
    BY <1>1 DEF Min
===============================================================================
