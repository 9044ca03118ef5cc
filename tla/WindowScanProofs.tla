-------------------------- MODULE WindowScanProofs --------------------------
(***************************************************************************)
(* Proofs about WindowScan, for every set of offsets, every geometry and   *)
(* every width of the slices: the types, and that a scan neither reports a *)
(* false gap nor misses one, provided the chain is not combined with class *)
(* filtering (ExactConfigs; the combination does report false gaps).       *)
(***************************************************************************)
EXTENDS WindowScan, FiniteSetTheorems, TLAPS

ExactConfigs == <<"jump2", TRUE>> \notin Configs

-----------------------------------------------------------------------------
(* Listing(S) lists the elements of S in ascending order, each once. *)
LEMMA RankInRange ==
  ASSUME NEW S \in SUBSET Nat, IsFiniteSet(S), NEW x \in S
  PROVE  Rank(S, x) \in 0 .. Cardinality(S) - 1
<1>1. IsFiniteSet(S) /\ S \subseteq Nat
  OBVIOUS
<1>2. IsFiniteSet(S \ {x}) /\ Cardinality(S \ {x}) = Cardinality(S) - 1
  BY <1>1, FS_RemoveElement
<1>3. {y \in S : y < x} \in SUBSET (S \ {x})
  BY <1>1
<1>4. /\ IsFiniteSet({y \in S : y < x})
      /\ Cardinality({y \in S : y < x}) <= Cardinality(S \ {x})
  BY <1>2, <1>3, FS_Subset
<1>5. Cardinality({y \in S : y < x}) \in Nat /\ Cardinality(S) \in Nat
  BY <1>1, <1>4, FS_CardinalityType
<1> QED BY <1>2, <1>4, <1>5 DEF Rank

LEMMA RankMonotone ==
  ASSUME NEW S \in SUBSET Nat, IsFiniteSet(S), NEW x \in S, NEW y \in S, x < y
  PROVE  Rank(S, x) < Rank(S, y)
<1> DEFINE Lx == {z \in S : z < x}
           Ly == {z \in S : z < y}
<1>1. IsFiniteSet(S) /\ S \subseteq Nat
  OBVIOUS
<1>2. IsFiniteSet(Lx) /\ IsFiniteSet(Ly)
  BY <1>1, FS_Subset
<1>3. IsFiniteSet(Lx \cup {x}) /\ Cardinality(Lx \cup {x}) = Cardinality(Lx) + 1
  <2>1. x \notin Lx
    BY <1>1
  <2> QED BY <1>2, <2>1, FS_AddElement
<1>4. Lx \cup {x} \in SUBSET Ly
  <2>1. x \in Nat /\ y \in Nat /\ \A z \in Lx : z \in Nat
    BY <1>1
  <2>2. \A z \in Lx : z \in S /\ z < y
    BY <2>1
  <2> QED BY <2>1, <2>2
<1>5. Cardinality(Lx \cup {x}) <= Cardinality(Ly)
  BY <1>2, <1>4, FS_Subset
<1>6. Cardinality(Lx) \in Nat /\ Cardinality(Ly) \in Nat
  BY <1>2, FS_CardinalityType
<1> QED BY <1>3, <1>5, <1>6 DEF Rank

LEMMA ListingAscends ==
  ASSUME NEW S \in SUBSET Nat, IsFiniteSet(S)
  PROVE  /\ Cardinality(S) \in Nat
         /\ Listing(S) \in [0 .. Cardinality(S) - 1 -> S]
         /\ \A i, j \in 0 .. Cardinality(S) - 1 :
              i < j => Listing(S)[i] < Listing(S)[j]
         /\ \A x \in S : \E i \in 0 .. Cardinality(S) - 1 : Listing(S)[i] = x
<1> DEFINE n == Cardinality(S)
           f == [x \in S |-> Rank(S, x)]
           o == Listing(S)
<1>1. IsFiniteSet(S) /\ S \subseteq Nat /\ n \in Nat
  BY FS_CardinalityType
<1>2. f \in Injection(S, 0 .. n - 1)
  <2>1. f \in [S -> 0 .. n - 1]
    BY RankInRange
  <2>2. ASSUME NEW x \in S, NEW y \in S, f[x] = f[y] PROVE x = y
    <3>1. Rank(S, x) \in Int /\ Rank(S, y) \in Int
      BY RankInRange, <1>1
    <3>2. ~(x < y) /\ ~(y < x)
      BY <2>2, <3>1, RankMonotone
    <3> QED BY <3>2, <1>1
  <2> QED BY <2>1, <2>2 DEF Injection, IsInjective
<1>3. IsFiniteSet(0 .. n - 1) /\ Cardinality(0 .. n - 1) = n
  <2>1. n - 1 \in Int
    BY <1>1
  <2> QED BY <1>1, <2>1, FS_Interval
<1>4. f \in Surjection(S, 0 .. n - 1)
  BY <1>2, <1>3, FS_Injection
<1>5. \A i \in 0 .. n - 1 : \E x \in S : Rank(S, x) = i
  BY <1>4 DEF Surjection
<1>6. \A i \in 0 .. n - 1 : o[i] \in S /\ Rank(S, o[i]) = i
  BY <1>5 DEF Listing
<1>7. o \in [0 .. n - 1 -> S]
  BY <1>6 DEF Listing
<1>8. ASSUME NEW i \in 0 .. n - 1, NEW j \in 0 .. n - 1, i < j
      PROVE  o[i] < o[j]
  <2>1. o[i] \in Nat /\ o[j] \in Nat /\ i \in Int /\ j \in Int
    <3>1. o[i] \in S /\ o[j] \in S
      BY <1>6
    <3>2. o[i] \in Nat /\ o[j] \in Nat
      BY <3>1
    <3>3. i \in Int /\ j \in Int
      BY <1>1
    <3> QED BY <3>2, <3>3
  <2>2. o[i] # o[j]
    BY <1>6, <1>8, <2>1
  <2>3. ~(o[j] < o[i])
    <3>1. o[j] < o[i] => Rank(S, o[j]) < Rank(S, o[i])
      BY <1>6, RankMonotone
    <3> QED BY <3>1, <1>6, <1>8, <2>1
  <2> QED BY <2>1, <2>2, <2>3
<1>9. ASSUME NEW x \in S PROVE \E i \in 0 .. n - 1 : o[i] = x
  <2>1. Rank(S, x) \in 0 .. n - 1
    BY RankInRange
  <2>2. o[Rank(S, x)] \in S /\ Rank(S, o[Rank(S, x)]) = Rank(S, x)
    BY <1>6, <2>1
  <2>3. o[Rank(S, x)] = x
    <3> DEFINE z == o[Rank(S, x)]
    <3>1. z < x => Rank(S, z) < Rank(S, x)
      BY <2>2, RankMonotone
    <3>2. x < z => Rank(S, x) < Rank(S, z)
      BY <2>2, RankMonotone
    <3>3. Rank(S, x) \in Int
      BY <2>1
    <3>4. z \in S /\ Rank(S, z) = Rank(S, x)
      BY <2>2
    <3> HIDE DEF z
    <3>5. z = x
      BY <3>1, <3>2, <3>3, <3>4
    <3> QED BY <3>5 DEF z
  <2> QED BY <2>1, <2>3
<1> QED BY <1>1, <1>7, <1>8, <1>9

(* Smallest and largest elements of finite sets of natural numbers. *)
LEMMA Minimum ==
  ASSUME NEW S \in SUBSET Nat, IsFiniteSet(S), S # {}
  PROVE  FirstOf(S) \in S /\ \A j \in S : FirstOf(S) <= j
<1> DEFINE n == Cardinality(S)
           o == Listing(S)
<1>1. /\ n \in Nat /\ o \in [0 .. n - 1 -> S]
      /\ \A i, j \in 0 .. n - 1 : i < j => o[i] < o[j]
      /\ \A x \in S : \E i \in 0 .. n - 1 : o[i] = x
  BY ListingAscends
<1> HIDE DEF n, o
<1>2. 0 \in 0 .. n - 1
  <2>1. PICK x \in S : TRUE
    OBVIOUS
  <2>2. PICK i \in 0 .. n - 1 : o[i] = x
    BY <1>1
  <2> QED BY <1>1, <2>2
<1>3. ASSUME NEW x \in S PROVE o[0] <= x
  <2>1. PICK i \in 0 .. n - 1 : o[i] = x
    BY <1>1
  <2>2. o[0] \in Nat /\ x \in Nat
    BY <1>1, <1>2
  <2>3. i = 0 \/ 0 < i
    BY <1>1
  <2> QED BY <1>1, <1>2, <2>1, <2>2, <2>3
<1>4. o[0] \in S
  BY <1>1, <1>2
<1> QED BY <1>3, <1>4 DEF FirstOf

LEMMA Maximum ==
  ASSUME NEW S \in SUBSET Nat, IsFiniteSet(S), S # {}
  PROVE  LastOf(S) \in S /\ \A j \in S : j <= LastOf(S)
<1> DEFINE n == Cardinality(S)
           o == Listing(S)
<1>1. /\ n \in Nat /\ o \in [0 .. n - 1 -> S]
      /\ \A i, j \in 0 .. n - 1 : i < j => o[i] < o[j]
      /\ \A x \in S : \E i \in 0 .. n - 1 : o[i] = x
  BY ListingAscends
<1> HIDE DEF n, o
<1>2. n - 1 \in 0 .. n - 1
  <2>1. PICK x \in S : TRUE
    OBVIOUS
  <2>2. PICK i \in 0 .. n - 1 : o[i] = x
    BY <1>1
  <2> QED BY <1>1, <2>2
<1>3. ASSUME NEW x \in S PROVE x <= o[n - 1]
  <2>1. PICK i \in 0 .. n - 1 : o[i] = x
    BY <1>1
  <2>2. o[n - 1] \in Nat /\ x \in Nat
    BY <1>1, <1>2
  <2>3. i = n - 1 \/ i < n - 1
    BY <1>1
  <2> QED BY <1>1, <1>2, <2>1, <2>2, <2>3
<1>4. o[n - 1] \in S
  BY <1>1, <1>2
<1> QED BY <1>3, <1>4 DEF LastOf

-----------------------------------------------------------------------------
(* The invariant.  Layout: what the fill leaves in the flight.             *)
Layout ==
  /\ count \in Nat
  /\ off \in [Indices -> Extracted(win)]
  /\ \A i, j \in Indices : i < j => off[i] < off[j]
  /\ \A x \in Extracted(win) : \E i \in Indices : off[i] = x

(* Neighbours: probable primes with no probable prime between them.        *)
Probable(i)    == i \in Indices /\ off[i] \in win.mr
NoneFrom(a, b) == \A k \in Indices : (a <= k /\ k < b) => off[k] \notin win.mr
Neighbours(i, j) == Probable(i) /\ Probable(j) /\ i < j /\ NoneFrom(i + 1, j)
Wide(i, j)       == Neighbours(i, j) /\ off[j] - off[i] >= Thr

(* The pairs found are the wide pairs that end at p or before.             *)
FoundUpTo(p) ==
  /\ \A n \in 1 .. Len(pairs) :
       \E i, j \in Indices : Wide(i, j) /\ j <= p /\ pairs[n] = <<off[i], off[j]>>
  /\ \A i, j \in Indices :
       Wide(i, j) /\ j <= p => \E n \in 1 .. Len(pairs) : pairs[n] = <<off[i], off[j]>>

Anchored == /\ Probable(pidx) /\ qidx \in Indices /\ pidx < qidx
            /\ off[qidx] >= off[pidx] + Thr
            /\ \A k \in Indices : k < qidx => off[k] < off[pidx] + Thr
            /\ FoundUpTo(pidx)

ChainInv ==
  /\ phase = "FIND_FIRST" =>
       pairs = <<>> /\ 0 <= clo /\ clo <= chi /\ chi <= count /\ NoneFrom(0, clo)
  /\ phase = "JUMP_BACK" =>
       Anchored /\ pidx + 1 <= clo /\ clo <= chi /\ chi <= qidx /\ NoneFrom(chi, qidx)
  /\ phase = "FIND_END" =>
       Anchored /\ qidx <= clo /\ clo <= chi /\ chi <= count /\ NoneFrom(pidx + 1, clo)
  /\ phase = "DONE" => (count = 0 \/ FoundUpTo(count - 1))

(* The full scan: gaps of the neighbours met so far.                       *)
GapsOf(i, j) == { g \in GapsBetween(off[i], off[j]) : Qualifies(g) /\ Verified(g) }
FullInv ==
  phase = "FULL" =>
    /\ 0 <= clo /\ clo <= count
    /\ IF pidx = None THEN NoneFrom(0, clo)
                      ELSE Probable(pidx) /\ pidx < clo /\ NoneFrom(pidx + 1, clo)
    /\ \A i, j \in Indices :
         Neighbours(i, j) /\ j < clo /\ Qualifies(<<off[i], off[j]>>)
           => GapsOf(i, j) \subseteq out

Inv ==
  /\ TypeOK
  /\ phase \in {"FIND_FIRST", "JUMP_BACK", "FIND_END", "DONE"} => scan = "jump2"
  /\ phase = "FULL" => scan = "full"
  /\ Layout
  /\ ChainInv
  /\ FullInv
  /\ phase \notin {"FULL", "reported"} => out = {}
  /\ NoFalseGap
  /\ NoMissedGap

-----------------------------------------------------------------------------
(* What the searches of the chain find. *)
LEMMA Geometry ==
  ASSUME TypeOK, Layout
  PROVE  /\ Indices \in SUBSET Nat /\ IsFiniteSet(Indices)
         /\ \A i \in Indices : off[i] \in Nat /\ off[i] \in Offsets
         /\ \A i, j \in Indices : i <= j => off[i] <= off[j]
         /\ Thr \in Nat \ {0}
<1>1. Indices \in SUBSET Nat
  BY DEF Layout, Indices
<1>2. IsFiniteSet(Indices)
  <2>1. count - 1 \in Int
    BY DEF Layout
  <2> QED BY <2>1, FS_Interval DEF Indices
<1>3. \A i \in Indices : off[i] \in Nat /\ off[i] \in Offsets
  BY OffsetsAssumption DEF TypeOK
<1>4. ASSUME NEW i \in Indices, NEW j \in Indices, i <= j PROVE off[i] <= off[j]
  <2>1. i = j \/ i < j
    BY <1>1, <1>4
  <2> QED BY <1>3, <2>1 DEF Layout
<1> QED BY <1>1, <1>2, <1>3, <1>4, ThrAssumption

LEMMA FoundFirst ==
  ASSUME TypeOK, Layout, 0 <= clo, chi <= count, Found # {}
  PROVE  /\ Probable(FirstOf(Found)) /\ clo <= FirstOf(Found) /\ FirstOf(Found) < chi
         /\ NoneFrom(clo, FirstOf(Found))
<1>1. Found \in SUBSET Indices /\ \A i \in Found : clo <= i /\ i < chi /\ Probable(i)
  BY DEF Found, IsProbable, Probable, Indices, TypeOK, Layout
<1>2. IsFiniteSet(Found) /\ Found \in SUBSET Nat
  BY <1>1, Geometry, FS_Subset
<1>3. FirstOf(Found) \in Found /\ \A j \in Found : FirstOf(Found) <= j
  BY <1>2, Minimum
<1>4. ASSUME NEW k \in Indices, clo <= k, k < FirstOf(Found), off[k] \in win.mr
      PROVE  FALSE
  <2>1. k \in Found
    BY <1>1, <1>3, <1>4 DEF Found, IsProbable, Indices, TypeOK, Layout
  <2>2. FirstOf(Found) \in Nat /\ k \in Nat /\ FirstOf(Found) <= k
    BY <1>2, <1>3, <2>1
  <2> QED BY <1>4, <2>2
<1> QED BY <1>1, <1>3, <1>4 DEF NoneFrom

LEMMA FoundLast ==
  ASSUME TypeOK, Layout, 0 <= clo, chi <= count, Found # {}
  PROVE  /\ Probable(LastOf(Found)) /\ clo <= LastOf(Found) /\ LastOf(Found) < chi
         /\ NoneFrom(LastOf(Found) + 1, chi)
<1>1. Found \in SUBSET Indices /\ \A i \in Found : clo <= i /\ i < chi /\ Probable(i)
  BY DEF Found, IsProbable, Probable, Indices, TypeOK, Layout
<1>2. IsFiniteSet(Found) /\ Found \in SUBSET Nat
  BY <1>1, Geometry, FS_Subset
<1>3. LastOf(Found) \in Found /\ \A j \in Found : j <= LastOf(Found)
  BY <1>2, Maximum
<1>4. ASSUME NEW k \in Indices, LastOf(Found) + 1 <= k, k < chi, off[k] \in win.mr
      PROVE  FALSE
  <2>1. k \in Found
    BY <1>1, <1>2, <1>3, <1>4 DEF Found, IsProbable, Indices, TypeOK, Layout
  <2>2. LastOf(Found) \in Nat /\ k \in Nat /\ k <= LastOf(Found)
    BY <1>2, <1>3, <2>1
  <2> QED BY <1>4, <2>2
<1> QED BY <1>1, <1>3, <1>4 DEF NoneFrom

LEMMA FoundNone ==
  ASSUME TypeOK, Layout, Found = {}
  PROVE  NoneFrom(clo, chi)
<1> SUFFICES ASSUME NEW k \in Indices, clo <= k, k < chi, off[k] \in win.mr
             PROVE  FALSE
  BY DEF NoneFrom
<1>1. k \in clo .. chi - 1
  BY DEF Indices, TypeOK, Layout
<1>2. k \in Found
  BY <1>1 DEF Found, IsProbable
<1> QED BY <1>2

(* gh_jump2_find_q. *)
LEMMA FindQFinds ==
  ASSUME TypeOK, Layout, NEW p \in Indices
  PROVE  \/ /\ FindQ(p) = None
            /\ \A k \in Indices : off[k] < off[p] + Thr
         \/ /\ FindQ(p) \in Indices /\ p < FindQ(p) /\ FindQ(p) # None
            /\ off[FindQ(p)] >= off[p] + Thr
            /\ \A k \in Indices : k < FindQ(p) => off[k] < off[p] + Thr
<1> USE Geometry
<1>1. ASSUME NEW k \in Indices, k \notin FarFrom(p) PROVE off[k] < off[p] + Thr
  <2>1. CASE k > p
    BY <1>1, <2>1 DEF FarFrom
  <2>2. CASE k <= p
    <3>1. off[k] <= off[p]
      BY <2>2
    <3> QED BY <3>1
  <2> QED BY <2>1, <2>2
<1>2. CASE FarFrom(p) = {}
  BY <1>1, <1>2 DEF FindQ
<1>3. CASE FarFrom(p) # {}
  <2>1. FarFrom(p) \in SUBSET Indices /\ \A j \in FarFrom(p) : j > p /\ off[j] >= off[p] + Thr
    BY DEF FarFrom
  <2>2. FarFrom(p) \in SUBSET Nat /\ IsFiniteSet(FarFrom(p))
    BY <2>1, FS_Subset
  <2>3. FirstOf(FarFrom(p)) \in FarFrom(p) /\ \A j \in FarFrom(p) : FirstOf(FarFrom(p)) <= j
    BY <1>3, <2>2, Minimum
  <2>4. FindQ(p) = FirstOf(FarFrom(p)) /\ FindQ(p) \in Nat
    BY <1>3, <2>2, <2>3 DEF FindQ
  <2>5. \A k \in Indices : k < FindQ(p) => k \notin FarFrom(p)
    BY <2>2, <2>3, <2>4
  <2> QED BY <1>1, <2>1, <2>3, <2>4, <2>5 DEF None
<1> QED BY <1>2, <1>3

-----------------------------------------------------------------------------
(* How the set of wide pairs found grows with the anchor. *)
LEMMA FirstAnchor ==
  ASSUME TypeOK, Layout, NEW f, Probable(f), NoneFrom(0, f), pairs = <<>>
  PROVE  FoundUpTo(f)
<1>1. ~ \E i, j \in Indices : Wide(i, j) /\ j <= f
  BY Geometry DEF Wide, Neighbours, Probable, NoneFrom
<1> QED BY <1>1 DEF FoundUpTo

LEMMA NearerAnchor ==
  ASSUME TypeOK, Layout, NEW p, NEW f, Probable(p), Probable(f), p < f,
         off[f] < off[p] + Thr, FoundUpTo(p)
  PROVE  FoundUpTo(f)
<1> USE Geometry
<1>1. p \in Indices /\ f \in Indices
  BY DEF Probable
<1>2. ASSUME NEW i \in Indices, NEW j \in Indices, Wide(i, j), j <= f
      PROVE  j <= p
  <2>1. SUFFICES ASSUME p < j PROVE FALSE
    BY <1>1
  <2>2. ~(i < p)
    BY <1>1, <1>2, <2>1 DEF Wide, Neighbours, NoneFrom, Probable
  <2>3. p <= i
    BY <1>1, <2>2
  <2>4. off[p] <= off[i] /\ off[j] <= off[f]
    BY <1>1, <1>2, <2>3
  <2>5. off[j] - off[i] >= Thr
    BY <1>2 DEF Wide
  <2>6. off[p] \in Nat /\ off[i] \in Nat /\ off[j] \in Nat /\ off[f] \in Nat
    BY <1>1
  <2> QED BY <2>4, <2>5, <2>6
<1>3. \A j \in Indices : j <= p => j <= f
  BY <1>1
<1> QED BY <1>2, <1>3 DEF FoundUpTo

LEMMA WiderAnchor ==
  ASSUME TypeOK, Layout, NEW p, NEW f, Probable(p), Probable(f), p < f,
         NoneFrom(p + 1, f), off[f] >= off[p] + Thr, FoundUpTo(p),
         pairs' = Append(pairs, <<off[p], off[f]>>),
         UNCHANGED <<win, off, count>>
  PROVE  FoundUpTo(f)'
<1> USE Geometry
<1>1. p \in Indices /\ f \in Indices
  BY DEF Probable
<1>2. Indices' = Indices /\ \A i, j \in Indices : Wide(i, j)' <=> Wide(i, j)
  BY DEF Indices, Wide, Neighbours, NoneFrom, Probable
<1>3. Wide(p, f)
  BY <1>1 DEF Wide, Neighbours
<1>4. /\ Len(pairs') = Len(pairs) + 1 /\ Len(pairs) \in Nat
      /\ pairs'[Len(pairs) + 1] = <<off[p], off[f]>>
      /\ \A n \in 1 .. Len(pairs) : pairs'[n] = pairs[n]
  BY <1>1 DEF TypeOK
<1>5. ASSUME NEW i \in Indices, NEW j \in Indices, Wide(i, j), j <= f, ~(j <= p)
      PROVE  i = p /\ j = f
  <2>1. j = f
    BY <1>1, <1>5 DEF Wide, Neighbours, NoneFrom, Probable
  <2>2. ~(i < p) /\ ~(p < i)
    BY <1>1, <1>5, <2>1 DEF Wide, Neighbours, NoneFrom, Probable
  <2> QED BY <1>1, <2>1, <2>2
<1>6. ASSUME NEW n \in 1 .. Len(pairs')
      PROVE  \E i, j \in Indices : Wide(i, j) /\ j <= f /\ pairs'[n] = <<off[i], off[j]>>
  <2>1. CASE n \in 1 .. Len(pairs)
    <3>1. PICK i \in Indices, j \in Indices :
            Wide(i, j) /\ j <= p /\ pairs[n] = <<off[i], off[j]>>
      BY <2>1 DEF FoundUpTo
    <3>2. j <= f
      BY <1>1, <3>1
    <3> QED BY <1>4, <2>1, <3>1, <3>2
  <2>2. CASE n = Len(pairs) + 1
    BY <1>1, <1>3, <1>4, <2>2
  <2>3. n \in 1 .. Len(pairs) \/ n = Len(pairs) + 1
    BY <1>4
  <2> QED BY <2>1, <2>2, <2>3
<1>7. ASSUME NEW i \in Indices, NEW j \in Indices, Wide(i, j), j <= f
      PROVE  \E n \in 1 .. Len(pairs') : pairs'[n] = <<off[i], off[j]>>
  <2>1. CASE j <= p
    <3>1. PICK n \in 1 .. Len(pairs) : pairs[n] = <<off[i], off[j]>>
      BY <1>7, <2>1 DEF FoundUpTo
    <3>2. n \in 1 .. Len(pairs') /\ pairs'[n] = pairs[n]
      BY <1>4
    <3> QED BY <3>1, <3>2
  <2>2. CASE ~(j <= p)
    <3>1. i = p /\ j = f
      BY <1>5, <1>7, <2>2
    <3>2. Len(pairs) + 1 \in 1 .. Len(pairs')
      BY <1>4
    <3> QED BY <1>4, <3>1, <3>2
  <2> QED BY <2>1, <2>2
<1>8. \A n \in 1 .. Len(pairs') :
       \E i, j \in Indices' : Wide(i, j)' /\ j <= f /\ pairs'[n] = <<off'[i], off'[j]>>
  BY <1>2, <1>6
<1>9. \A i, j \in Indices' : Wide(i, j)' /\ j <= f =>
       \E n \in 1 .. Len(pairs') : pairs'[n] = <<off'[i], off'[j]>>
  <2> TAKE i, j \in Indices'
  <2> HAVE Wide(i, j)' /\ j <= f
  <2>1. i \in Indices /\ j \in Indices /\ Wide(i, j) /\ off' = off
    BY <1>2
  <2> QED BY <1>7, <2>1
<1> QED BY <1>8, <1>9 DEF FoundUpTo

(* Nothing wide lies beyond an anchor without far candidates, or without   *)
(* probable primes after it.                                               *)
LEMMA NothingBeyond ==
  ASSUME TypeOK, Layout, NEW p, Probable(p),
         \/ \A k \in Indices : off[k] < off[p] + Thr
         \/ NoneFrom(p + 1, count),
         NEW i \in Indices, NEW j \in Indices, Wide(i, j)
  PROVE  j <= p
<1> USE Geometry
<1>1. p \in Indices
  BY DEF Probable
<1>2. SUFFICES ASSUME p < j PROVE FALSE
  BY <1>1
<1>3. CASE NoneFrom(p + 1, count)
  <2>1. p + 1 <= j /\ j < count
    BY <1>1, <1>2 DEF Indices, Layout
  <2> QED BY <1>3, <2>1 DEF NoneFrom, Wide, Neighbours, Probable
<1>4. CASE \A k \in Indices : off[k] < off[p] + Thr
  <2>1. ~(i < p)
    BY <1>1, <1>2 DEF Wide, Neighbours, NoneFrom, Probable
  <2>2. off[p] <= off[i] /\ off[j] < off[p] + Thr
    BY <1>1, <1>4, <2>1
  <2>3. off[j] - off[i] >= Thr
    BY DEF Wide
  <2>4. off[p] \in Nat /\ off[i] \in Nat /\ off[j] \in Nat
    BY <1>1
  <2> QED BY <2>2, <2>3, <2>4
<1> QED BY <1>3, <1>4

LEMMA LastAnchor ==
  ASSUME TypeOK, Layout, NEW p, Probable(p), FoundUpTo(p)',
         \/ \A k \in Indices : off[k] < off[p] + Thr
         \/ NoneFrom(p + 1, count),
         UNCHANGED <<win, off, count>>
  PROVE  FoundUpTo(count - 1)'
<1> USE Geometry
<1>1. p \in Indices
  BY DEF Probable
<1>2. Indices' = Indices /\ \A i, j \in Indices : Wide(i, j)' <=> Wide(i, j)
  BY DEF Indices, Wide, Neighbours, NoneFrom, Probable
<1>3. \A i, j \in Indices' : Wide(i, j)' => j <= p
  BY <1>2, NothingBeyond
<1>4. \A j \in Indices' : j <= count' - 1
  BY DEF Indices, Layout
<1>5. \A n \in 1 .. Len(pairs') : \E i, j \in Indices' :
        Wide(i, j)' /\ j <= count' - 1 /\ pairs'[n] = <<off'[i], off'[j]>>
  BY <1>4 DEF FoundUpTo
<1>6. \A i, j \in Indices' : Wide(i, j)' /\ j <= count' - 1 =>
        \E n \in 1 .. Len(pairs') : pairs'[n] = <<off'[i], off'[j]>>
  BY <1>3 DEF FoundUpTo
<1> QED BY <1>5, <1>6 DEF FoundUpTo

-----------------------------------------------------------------------------
(* Preservation, one lemma per action. *)
LEMMA WidthFacts ==
  /\ W0 \in Nat \ {0}
  /\ \A w \in Nat : Widen(w) \in Nat
  /\ \A a, b \in Int : /\ Least(a, b) \in Int /\ Least(a, b) <= a /\ Least(a, b) <= b
                       /\ (Least(a, b) = a \/ Least(a, b) = b)
                       /\ Greatest(a, b) \in Int /\ a <= Greatest(a, b) /\ b <= Greatest(a, b)
                       /\ (Greatest(a, b) = a \/ Greatest(a, b) = b)
BY WidthAssumption DEF W0, Widen, Least, Greatest

(* Every conjunct that speaks of the window only is kept with the window.  *)
LEMMA SameWindow ==
  ASSUME UNCHANGED <<config, win, off, count>>
  PROVE  /\ scan' = scan /\ quarter' = quarter /\ Indices' = Indices
         /\ Layout => Layout'
         /\ \A i, j : Wide(i, j)' <=> Wide(i, j)
         /\ \A i, j : Neighbours(i, j)' <=> Neighbours(i, j)
         /\ \A i : Probable(i)' <=> Probable(i)
         /\ \A i, j : NoneFrom(i, j)' <=> NoneFrom(i, j)
         /\ \A i, j : GapsOf(i, j)' = GapsOf(i, j)
BY DEF scan, quarter, Indices, Layout, Extracted, Hidden, quarter, Wide, Neighbours,
       Probable, NoneFrom, GapsOf, GapsBetween, Direct, Resolved, Chain, HiddenInside,
       TemplateDiscards, UseTemplate, Qualifies, Verified

LEMMA SamePairs ==
  ASSUME UNCHANGED <<config, win, off, count, pairs>>
  PROVE  \A p : FoundUpTo(p)' <=> FoundUpTo(p)
BY SameWindow DEF FoundUpTo, Indices, Wide, Neighbours, Probable, NoneFrom

(* JumpFrom, with the wide pairs up to the new anchor already recorded.    *)
LEMMA JumpFromAnchor ==
  ASSUME TypeOK, Layout, NEW f, Probable(f), FoundUpTo(f)', JumpFrom(f),
         UNCHANGED <<config, win, off, count>>
  PROVE  /\ pidx' \in Int /\ qidx' \in Int /\ clo' \in Int /\ chi' \in Int /\ wcur' \in Nat
         /\ phase' \in {"JUMP_BACK", "DONE"}
         /\ ChainInv'
<1> USE Geometry, WidthFacts, SameWindow
<1>1. f \in Indices /\ f \in Nat
  BY DEF Probable
<1>2. CASE FindQ(f) = None
  <2>1. \A k \in Indices : off[k] < off[f] + Thr
    BY <1>1, <1>2, FindQFinds
  <2>2. phase' = "DONE" /\ clo' = clo /\ chi' = chi /\ wcur' = wcur /\ pidx' = f /\ qidx' = None
    BY <1>2 DEF JumpFrom
  <2>3. FoundUpTo(count - 1)'
    BY <2>1, LastAnchor
  <2> QED BY <1>1, <2>2, <2>3 DEF ChainInv, TypeOK, None
<1>3. CASE FindQ(f) # None
  <2> DEFINE q == FindQ(f)
  <2>1. /\ q \in Indices /\ f < q /\ off[q] >= off[f] + Thr
        /\ \A k \in Indices : k < q => off[k] < off[f] + Thr
    BY <1>1, <1>3, FindQFinds
  <2>2. q \in Nat
    BY <2>1
  <2>3. /\ phase' = "JUMP_BACK" /\ pidx' = f /\ qidx' = q
        /\ clo' = Greatest(q - W0, f + 1) /\ chi' = q /\ wcur' = Widen(W0)
    BY <1>3 DEF JumpFrom
  <2> HIDE DEF q
  <2>4. clo' \in Int /\ f + 1 <= clo' /\ clo' <= q
    <3>1. q - W0 <= q /\ f + 1 <= q /\ q - W0 \in Int /\ f + 1 \in Int
      BY <1>1, <2>1, <2>2
    <3> QED BY <2>2, <2>3, <3>1
  <2>5. Anchored'
    BY <1>1, <2>1, <2>3 DEF Anchored
  <2>6. NoneFrom(chi, qidx)'
    BY <2>2, <2>3 DEF NoneFrom
  <2> QED BY <1>1, <2>2, <2>3, <2>4, <2>5, <2>6 DEF ChainInv
<1> QED BY <1>2, <1>3

(* A round of the chain changes only the chain's own record: what is left  *)
(* to show of it is ChainInv.                                              *)
LEMMA ChainRound ==
  ASSUME Inv, scan = "jump2", out = {}, UNCHANGED <<config, win, off, count, out>>,
         phase' \in {"FIND_FIRST", "JUMP_BACK", "FIND_END", "DONE", "failed"},
         ChainInv',
         pidx' \in Int, qidx' \in Int, clo' \in Int, chi' \in Int, wcur' \in Nat,
         pairs' \in Seq(Offsets \X Offsets), Len(pairs') <= Cap
  PROVE  Inv'
<1>1. TypeOK'
  BY SameWindow DEF Inv, TypeOK
<1>2. Layout' /\ scan' = "jump2"
  BY SameWindow DEF Inv
<1>3. FullInv' /\ NoFalseGap' /\ NoMissedGap'
  BY DEF FullInv, NoFalseGap, NoMissedGap
<1> QED BY <1>1, <1>2, <1>3 DEF Inv

LEMMA StartChainKeeps ==
  ASSUME Inv, StartChain PROVE Inv'
<1> USE WidthFacts
<1>1. TypeOK /\ Layout /\ count \in Nat /\ count > 0 /\ out = {}
  BY DEF Inv, Layout, StartChain
<1>2. /\ clo' = 0 /\ chi' = Least(count, W0) /\ wcur' = Widen(W0)
      /\ pidx' = None /\ qidx' = None /\ pairs' = <<>> /\ phase' = "FIND_FIRST"
      /\ UNCHANGED <<config, win, off, count, out>> /\ scan = "jump2"
  BY DEF StartChain
<1>3. chi' \in Int /\ 0 <= chi' /\ chi' <= count /\ wcur' \in Nat
  BY <1>1, <1>2 DEF Least
<1>4. NoneFrom(0, clo)'
  BY <1>1, <1>2, Geometry DEF NoneFrom, Indices
<1>5. ChainInv'
  BY <1>2, <1>3, <1>4 DEF ChainInv
<1>6. pairs' \in Seq(Offsets \X Offsets) /\ Len(pairs') <= Cap
  BY <1>2, WidthAssumption
<1> QED BY <1>1, <1>2, <1>3, <1>5, <1>6, ChainRound DEF None

LEMMA SkipEmptyKeeps ==
  ASSUME Inv, SkipEmpty PROVE Inv'
<1>1. ChainInv'
  BY DEF ChainInv, SkipEmpty
<1> QED BY <1>1, ChainRound DEF Inv, SkipEmpty, TypeOK

(* The next slice upwards: what was tested holds no probable prime.        *)
LEMMA NextSlice ==
  ASSUME TypeOK, Layout, 0 <= clo, clo <= chi, chi <= count, Found = {}, NextSliceUp,
         NEW a \in Int, NoneFrom(a, clo), UNCHANGED <<win, off, count>>
  PROVE  /\ clo' = chi /\ clo' \in Int /\ chi' \in Int /\ wcur' \in Nat
         /\ 0 <= clo' /\ clo' <= chi' /\ chi' <= count
         /\ NoneFrom(a, clo)' /\ NoneFrom(a, chi)
         /\ phase' = "DONE" /\ phase # "DONE" => chi = count
<1> USE WidthFacts
<1>1. /\ clo' = chi /\ chi' = Least(chi + wcur, count) /\ wcur' = Widen(wcur)
      /\ clo \in Int /\ chi \in Int /\ wcur \in Nat /\ count \in Nat
      /\ (phase' = "DONE" /\ phase # "DONE" => chi >= count)
  BY DEF NextSliceUp, TypeOK
<1>2. NoneFrom(clo, chi)
  BY FoundNone
<1>3. NoneFrom(a, chi)
  BY <1>1, <1>2, Geometry DEF NoneFrom
<1>4. NoneFrom(a, clo)'
  BY <1>1, <1>3 DEF NoneFrom, Indices
<1>5. chi' \in Int /\ chi <= chi' /\ chi' <= count
  BY <1>1 DEF Least
<1> QED BY <1>1, <1>3, <1>4, <1>5

LEMMA FindFirstKeeps ==
  ASSUME Inv, FindFirst PROVE Inv'
<1>1. /\ TypeOK /\ Layout /\ phase = "FIND_FIRST" /\ scan = "jump2" /\ out = {}
      /\ UNCHANGED <<config, win, off, count, out>>
  BY DEF Inv, FindFirst
<1>2. pairs = <<>> /\ 0 <= clo /\ clo <= chi /\ chi <= count /\ NoneFrom(0, clo)
  BY <1>1 DEF Inv, ChainInv
<1>3. pairs' = pairs
  BY DEF FindFirst, NextSliceUp
<1>4. CASE Found # {}
  <2> PICK f : f = FirstOf(Found)
    OBVIOUS
  <2>1. Probable(f) /\ clo <= f /\ NoneFrom(clo, f) /\ f \in Nat
    BY <1>1, <1>2, <1>4, FoundFirst, Geometry DEF Probable
  <2>2. NoneFrom(0, f)
    BY <1>1, <1>2, <2>1, Geometry DEF NoneFrom, TypeOK
  <2>3. FoundUpTo(f)
    BY <1>1, <1>2, <2>1, <2>2, FirstAnchor
  <2>4. FoundUpTo(f)'
    BY <1>1, <1>3, <2>3, SamePairs
  <2>5. JumpFrom(f)
    BY <1>4 DEF FindFirst
  <2>6. /\ pidx' \in Int /\ qidx' \in Int /\ clo' \in Int /\ chi' \in Int /\ wcur' \in Nat
        /\ phase' \in {"JUMP_BACK", "DONE"}
        /\ ChainInv'
    BY <1>1, <2>1, <2>4, <2>5, JumpFromAnchor
  <2> QED BY <1>1, <1>3, <2>6, ChainRound DEF TypeOK
<1>5. CASE Found = {}
  <2>1. NextSliceUp
    BY <1>5 DEF FindFirst
  <2>2. /\ clo' = chi /\ clo' \in Int /\ chi' \in Int /\ wcur' \in Nat
        /\ 0 <= clo' /\ clo' <= chi' /\ chi' <= count
        /\ NoneFrom(0, clo)' /\ NoneFrom(0, chi)
        /\ phase' = "DONE" /\ phase # "DONE" => chi = count
    BY <1>1, <1>2, <1>5, <2>1, NextSlice
  <2>3. phase' \in {"FIND_FIRST", "DONE"} /\ pidx' = pidx /\ qidx' = qidx
    BY <1>1, <2>1 DEF NextSliceUp
  <2>4. CASE phase' = "DONE"
    <3>1. NoneFrom(0, count)
      BY <1>1, <2>2, <2>4
    <3>2. ~ \E i, j \in Indices : Wide(i, j)
      <4>1. \A i \in Indices : 0 <= i /\ i < count
        BY <1>1 DEF Indices, TypeOK
      <4> QED BY <3>1, <4>1 DEF Wide, Neighbours, Probable, NoneFrom
    <3>3. FoundUpTo(count - 1)
      BY <1>2, <3>2 DEF FoundUpTo
    <3>4. FoundUpTo(count - 1)'
      <4>1. FoundUpTo(count - 1)' <=> FoundUpTo(count - 1)
        BY <1>1, <1>3, SameWindow DEF FoundUpTo
      <4> QED BY <3>3, <4>1
    <3> QED BY <1>1, <1>3, <2>2, <2>3, <2>4, <3>4, ChainRound DEF ChainInv, TypeOK
  <2>5. CASE phase' = "FIND_FIRST"
    <3>1. ChainInv'
      BY <1>1, <1>2, <1>3, <2>2, <2>5 DEF ChainInv
    <3> QED BY <1>1, <1>3, <2>2, <2>3, <2>5, <3>1, ChainRound DEF TypeOK
  <2> QED BY <2>3, <2>4, <2>5
<1> QED BY <1>4, <1>5

LEMMA HopKeeps ==
  ASSUME Inv, Hop PROVE Inv'
<1>1. /\ TypeOK /\ Layout /\ phase = "JUMP_BACK" /\ scan = "jump2" /\ out = {}
      /\ UNCHANGED <<config, win, off, count, pairs, out>> /\ Found # {}
      /\ pairs \in Seq(Offsets \X Offsets) /\ Len(pairs) <= Cap
  BY DEF Inv, Hop, TypeOK
<1>2. /\ Anchored /\ pidx + 1 <= clo /\ clo <= chi /\ chi <= qidx /\ NoneFrom(chi, qidx)
  BY <1>1 DEF Inv, ChainInv
<1>3. /\ pidx \in Indices /\ qidx \in Indices /\ clo \in Int /\ chi \in Int
      /\ 0 <= clo /\ chi <= count /\ pidx \in Nat /\ qidx \in Nat
  <2>1. pidx \in Indices /\ qidx \in Indices /\ count \in Nat
    BY <1>1, <1>2 DEF Anchored, Probable, TypeOK
  <2> QED BY <1>1, <1>2, <2>1 DEF TypeOK, Indices
<1> PICK f : f = LastOf(Found)
  OBVIOUS
<1>4. Probable(f) /\ clo <= f /\ f < chi /\ NoneFrom(f + 1, chi) /\ f \in Indices /\ f \in Nat
  BY <1>1, <1>3, FoundLast, Geometry DEF Probable
<1>5. FoundUpTo(f)
  <2>1. pidx < f /\ f < qidx
    BY <1>2, <1>3, <1>4
  <2>2. off[f] < off[pidx] + Thr
    BY <1>2, <1>4, <2>1 DEF Anchored
  <2> QED BY <1>1, <1>2, <1>4, <2>1, <2>2, NearerAnchor DEF Anchored
<1>6. FoundUpTo(f)'
  BY <1>1, <1>5, SamePairs
<1>7. /\ pidx' \in Int /\ qidx' \in Int /\ clo' \in Int /\ chi' \in Int /\ wcur' \in Nat
      /\ phase' \in {"JUMP_BACK", "DONE"}
      /\ ChainInv'
  BY <1>1, <1>4, <1>6, JumpFromAnchor DEF Hop
<1> QED BY <1>1, <1>7, ChainRound

LEMMA AllCompositeKeeps ==
  ASSUME Inv, AllComposite PROVE Inv'
<1>1. /\ TypeOK /\ Layout /\ phase = "JUMP_BACK" /\ scan = "jump2" /\ out = {}
      /\ UNCHANGED <<config, win, off, count, pidx, qidx, pairs, out>> /\ Found = {}
      /\ clo = pidx + 1 /\ count \in Nat
      /\ pairs \in Seq(Offsets \X Offsets) /\ Len(pairs) <= Cap
  BY DEF Inv, AllComposite, TypeOK
<1>2. /\ Anchored /\ pidx + 1 <= clo /\ clo <= chi /\ chi <= qidx /\ NoneFrom(chi, qidx)
  BY <1>1 DEF Inv, ChainInv
<1>3. /\ pidx \in Nat /\ qidx \in Nat /\ qidx < count /\ chi \in Int /\ clo \in Int
      /\ pidx \in Indices /\ qidx \in Indices
  <2>1. pidx \in Indices /\ qidx \in Indices /\ count \in Nat
    BY <1>1, <1>2 DEF Anchored, Probable, TypeOK
  <2> QED BY <1>1, <1>2, <2>1 DEF TypeOK, Indices
<1>4. NoneFrom(pidx + 1, qidx)
  <2>1. NoneFrom(pidx + 1, chi)
    BY <1>1, FoundNone
  <2>2. ASSUME NEW k \in Indices, pidx + 1 <= k, k < qidx
        PROVE  off[k] \notin win.mr
    <3>1. k \in Int
      BY <1>1 DEF Indices
    <3>2. k < chi \/ chi <= k
      BY <1>3, <3>1
    <3> QED BY <1>2, <2>1, <2>2, <3>1, <3>2 DEF NoneFrom
  <2> QED BY <2>2 DEF NoneFrom
<1>5. /\ clo' = qidx /\ chi' = Least(qidx + W0, count) /\ wcur' = Widen(W0)
      /\ W0 \in Nat \ {0}
  BY WidthFacts DEF AllComposite
<1>6. chi' \in Int /\ qidx < chi' /\ chi' <= count /\ ~(Least(qidx + W0, count) <= qidx)
  BY <1>1, <1>3, <1>5 DEF Least
<1>7. phase' = "FIND_END" /\ wcur' \in Nat
  BY <1>5, <1>6, WidthFacts DEF AllComposite
<1>8. Anchored'
  <2>1. FoundUpTo(pidx)'
    BY <1>1, <1>2, SamePairs DEF Anchored
  <2> QED BY <1>1, <1>2, <2>1 DEF Anchored, Probable, Indices
<1>9. NoneFrom(pidx + 1, clo)'
  BY <1>1, <1>4, <1>5 DEF NoneFrom, Indices
<1>10. ChainInv'
  BY <1>1, <1>3, <1>5, <1>6, <1>7, <1>8, <1>9 DEF ChainInv
<1> QED BY <1>1, <1>3, <1>5, <1>6, <1>7, <1>10, ChainRound

LEMMA SliceDownKeeps ==
  ASSUME Inv, SliceDown PROVE Inv'
<1>1. /\ TypeOK /\ Layout /\ phase = "JUMP_BACK" /\ scan = "jump2" /\ out = {}
      /\ UNCHANGED <<config, win, off, count, phase, pidx, qidx, pairs, out>> /\ Found = {}
      /\ clo # pidx + 1 /\ wcur \in Nat
      /\ pairs \in Seq(Offsets \X Offsets) /\ Len(pairs) <= Cap
  BY DEF Inv, SliceDown, TypeOK
<1>2. /\ Anchored /\ pidx + 1 <= clo /\ clo <= chi /\ chi <= qidx /\ NoneFrom(chi, qidx)
  BY <1>1 DEF Inv, ChainInv
<1>3. /\ pidx \in Nat /\ qidx \in Nat /\ chi \in Int /\ clo \in Int
  <2>1. pidx \in Indices /\ qidx \in Indices /\ count \in Nat
    BY <1>1, <1>2 DEF Anchored, Probable, TypeOK
  <2> QED BY <1>1, <1>2, <2>1 DEF TypeOK, Indices
<1>4. NoneFrom(clo, qidx)
  <2>1. NoneFrom(clo, chi)
    BY <1>1, FoundNone
  <2>2. ASSUME NEW k \in Indices, clo <= k, k < qidx
        PROVE  off[k] \notin win.mr
    <3>1. k \in Int
      BY <1>1 DEF Indices
    <3>2. k < chi \/ chi <= k
      BY <1>3, <3>1
    <3> QED BY <1>2, <2>1, <2>2, <3>1, <3>2 DEF NoneFrom
  <2> QED BY <2>2 DEF NoneFrom
<1>5. chi' = clo /\ clo' = Greatest(clo - wcur, pidx + 1) /\ wcur' = Widen(wcur)
  BY DEF SliceDown
<1>6. clo' \in Int /\ pidx + 1 <= clo' /\ clo' <= clo
  BY <1>1, <1>2, <1>3, <1>5 DEF Greatest
<1>7. Anchored'
  <2>1. FoundUpTo(pidx)'
    BY <1>1, <1>2, SamePairs DEF Anchored
  <2> QED BY <1>1, <1>2, <2>1 DEF Anchored, Probable, Indices
<1>8. NoneFrom(chi, qidx)'
  BY <1>1, <1>4, <1>5 DEF NoneFrom, Indices
<1>9. ChainInv'
  <2>1. chi' <= qidx'
    BY <1>1, <1>2, <1>3, <1>5
  <2> QED BY <1>1, <1>5, <1>6, <1>7, <1>8, <2>1 DEF ChainInv
<1>10. wcur' \in Nat
  BY <1>1, <1>5, WidthFacts
<1> QED BY <1>1, <1>3, <1>5, <1>6, <1>9, <1>10, ChainRound

LEMMA FindEndKeeps ==
  ASSUME Inv, FindEnd PROVE Inv'
<1>1. /\ TypeOK /\ Layout /\ phase = "FIND_END" /\ scan = "jump2" /\ out = {}
      /\ UNCHANGED <<config, win, off, count, out>> /\ count \in Nat
      /\ pairs \in Seq(Offsets \X Offsets) /\ Len(pairs) <= Cap
  BY DEF Inv, FindEnd, TypeOK
<1>2. /\ Anchored /\ qidx <= clo /\ clo <= chi /\ chi <= count /\ NoneFrom(pidx + 1, clo)
  BY <1>1 DEF Inv, ChainInv
<1>3. /\ pidx \in Nat /\ qidx \in Nat /\ clo \in Int /\ chi \in Int /\ 0 <= clo
      /\ pidx \in Indices /\ qidx \in Indices /\ pidx < qidx
  <2>1. pidx \in Indices /\ qidx \in Indices /\ count \in Nat /\ pidx < qidx
    BY <1>1, <1>2 DEF Anchored, Probable, TypeOK
  <2> QED BY <1>1, <1>2, <2>1 DEF TypeOK, Indices
<1>4. CASE Found # {}
  <2> PICK f : f = FirstOf(Found)
    OBVIOUS
  <2>1. Probable(f) /\ clo <= f /\ f < chi /\ NoneFrom(clo, f) /\ f \in Nat /\ f \in Indices
    BY <1>1, <1>2, <1>3, <1>4, FoundFirst, Geometry DEF Probable
  <2>2. NoneFrom(pidx + 1, f)
    BY <1>1, <1>2, <1>3, <2>1, Geometry DEF NoneFrom
  <2>3. pidx < f /\ off[f] >= off[pidx] + Thr
    <3>1. qidx <= f /\ pidx < f
      BY <1>2, <1>3, <2>1
    <3>2. off[qidx] <= off[f]
      BY <1>1, <1>3, <2>1, <3>1, Geometry
    <3>3. off[qidx] >= off[pidx] + Thr
      BY <1>2 DEF Anchored
    <3>4. off[f] \in Nat /\ off[qidx] \in Nat /\ off[pidx] \in Nat /\ Thr \in Nat
      BY <1>1, <1>3, <2>1, Geometry
    <3> QED BY <3>1, <3>2, <3>3, <3>4
  <2>4. /\ pairs' = Append(pairs, <<off[pidx], off[f]>>) /\ JumpFrom(f)
        /\ Len(pairs) < Cap
    BY <1>4 DEF FindEnd
  <2>5. FoundUpTo(f)'
    BY <1>1, <1>2, <2>1, <2>2, <2>3, <2>4, WiderAnchor DEF Anchored
  <2>6. /\ pidx' \in Int /\ qidx' \in Int /\ clo' \in Int /\ chi' \in Int /\ wcur' \in Nat
        /\ phase' \in {"JUMP_BACK", "DONE"}
        /\ ChainInv'
    BY <1>1, <2>1, <2>4, <2>5, JumpFromAnchor
  <2>7. pairs' \in Seq(Offsets \X Offsets) /\ Len(pairs') <= Cap
    <3>1. off[pidx] \in Offsets /\ off[f] \in Offsets
      BY <1>1, <1>3, <2>1, Geometry
    <3>2. <<off[pidx], off[f]>> \in Offsets \X Offsets
      BY <3>1
    <3> QED BY <1>1, <2>4, <3>2, WidthAssumption
  <2> QED BY <1>1, <2>6, <2>7, ChainRound
<1>5. CASE Found = {}
  <2>1. NextSliceUp /\ pairs' = pairs
    BY <1>5 DEF FindEnd, NextSliceUp
  <2>2. /\ clo' = chi /\ clo' \in Int /\ chi' \in Int /\ wcur' \in Nat
        /\ 0 <= clo' /\ clo' <= chi' /\ chi' <= count
        /\ NoneFrom(pidx + 1, clo') /\ NoneFrom(pidx + 1, chi)
        /\ phase' = "DONE" /\ phase # "DONE" => chi = count
    <3> PICK a \in Int : a = pidx + 1
      BY <1>3
    <3>1. /\ clo' = chi /\ clo' \in Int /\ chi' \in Int /\ wcur' \in Nat
          /\ 0 <= clo' /\ clo' <= chi' /\ chi' <= count
          /\ NoneFrom(a, clo)' /\ NoneFrom(a, chi)
          /\ phase' = "DONE" /\ phase # "DONE" => chi = count
      BY <1>1, <1>2, <1>3, <1>5, <2>1, NextSlice
    <3> QED BY <3>1
  <2>3. phase' \in {"FIND_END", "DONE"} /\ pidx' = pidx /\ qidx' = qidx
    BY <1>1, <2>1 DEF NextSliceUp
  <2>4. FoundUpTo(pidx)'
    BY <1>1, <1>2, <2>1, <2>3, SamePairs DEF Anchored
  <2>5. CASE phase' = "DONE"
    <3>1. NoneFrom(pidx + 1, count)
      BY <1>1, <2>2, <2>5
    <3>2. FoundUpTo(count - 1)'
      <4> PICK p : p = pidx
        OBVIOUS
      <4>1. FoundUpTo(p)' /\ Probable(p) /\ NoneFrom(p + 1, count)
        BY <1>2, <2>3, <2>4, <3>1 DEF Anchored, FoundUpTo
      <4> QED BY <1>1, <4>1, LastAnchor
    <3>3. ChainInv'
      BY <2>5, <3>2 DEF ChainInv
    <3> QED BY <1>1, <1>3, <2>1, <2>2, <2>3, <2>5, <3>3, ChainRound DEF TypeOK
  <2>6. CASE phase' = "FIND_END"
    <3>1. Anchored'
      BY <1>1, <1>2, <2>3, <2>4 DEF Anchored, Probable, Indices
    <3>2. NoneFrom(pidx + 1, clo)'
      BY <1>1, <2>2, <2>3 DEF NoneFrom, Indices
    <3>3. qidx' <= clo'
      BY <1>2, <1>3, <2>2, <2>3
    <3>4. ChainInv'
      BY <1>1, <2>2, <2>3, <2>6, <3>1, <3>2, <3>3 DEF ChainInv
    <3> QED BY <1>1, <1>3, <2>1, <2>2, <2>3, <2>6, <3>4, ChainRound DEF TypeOK
  <2> QED BY <2>3, <2>5, <2>6
<1> QED BY <1>4, <1>5

LEMMA CapReachedKeeps ==
  ASSUME Inv, CapReached PROVE Inv'
<1>1. ChainInv'
  BY DEF ChainInv, CapReached
<1> QED BY <1>1, ChainRound DEF Inv, CapReached, TypeOK

-----------------------------------------------------------------------------
(* What the gaps read off two neighbours are worth.                        *)

(* A probable prime was extracted, or it is of a hidden class.             *)
LEMMA Reached ==
  ASSUME TypeOK, Layout, NEW x \in win.mr
  PROVE  /\ x \in Nat /\ x \in Offsets
         /\ \/ \E k \in Indices : off[k] = x
            \/ quarter /\ x \in win.hid /\ RegionStart <= x /\ x < TailStart
<1>1. x \in win.surv /\ win.surv \subseteq Offsets
  BY DEF TypeOK, Window
<1>2. x \in Extracted(win) \/ (quarter /\ x \in Hidden(win))
  BY <1>1 DEF Extracted
<1> QED BY <1>1, <1>2, OffsetsAssumption DEF Layout, Hidden

(* The order of the indices is the order of the offsets.                   *)
LEMMA Between ==
  ASSUME TypeOK, Layout, NEW i \in Indices, NEW j \in Indices, Neighbours(i, j),
         NEW k \in Indices, off[i] < off[k], off[k] < off[j]
  PROVE  off[k] \notin win.mr
<1> USE Geometry
<1>1. i \in Nat /\ j \in Nat /\ k \in Nat /\ off[i] \in Nat /\ off[j] \in Nat /\ off[k] \in Nat
  OBVIOUS
<1>2. ~(k <= i)
  <2>1. k <= i => off[k] <= off[i]
    OBVIOUS
  <2> QED BY <1>1, <2>1
<1>3. ~(j <= k)
  <2>1. j <= k => off[j] <= off[k]
    OBVIOUS
  <2> QED BY <1>1, <2>1
<1> QED BY <1>1, <1>2, <1>3 DEF Neighbours, NoneFrom

(* Between neighbours that are compared directly there is no probable      *)
(* prime; elsewhere any is a hidden candidate, which the template keeps.   *)
LEMMA InsideNeighbours ==
  ASSUME TypeOK, Layout, NEW i \in Indices, NEW j \in Indices, Neighbours(i, j),
         NEW x \in win.mr, off[i] < x, x < off[j]
  PROVE  ~Direct(off[i], off[j]) /\ x \in HiddenInside(off[i], off[j])
<1>1. x \in Nat /\ off[i] \in Nat /\ off[j] \in Nat
  BY Reached, Geometry
<1>2. quarter /\ x \in win.hid /\ RegionStart <= x /\ x < TailStart
  BY Reached, Between
<1>3. ~Direct(off[i], off[j])
  BY <1>1, <1>2, RegionAssumption DEF Direct
<1>4. ~TemplateDiscards(x)
  BY DEF TemplateDiscards, UseTemplate
<1> QED BY <1>2, <1>3, <1>4 DEF HiddenInside

LEMMA GapsSound ==
  ASSUME TypeOK, Layout, NEW i \in Indices, NEW j \in Indices, Neighbours(i, j),
         NEW g \in GapsOf(i, j)
  PROVE  g \in Offsets \X Offsets /\ TrueGap(g)
<1>1. g \in GapsBetween(off[i], off[j]) /\ Qualifies(g) /\ Verified(g)
  BY DEF GapsOf
<1>2. off[i] \in Nat /\ off[j] \in Nat /\ off[i] \in Offsets /\ off[j] \in Offsets /\ off[i] < off[j]
  BY Geometry DEF Layout, Neighbours
<1>3. \A x \in win.prime : x \in win.mr /\ x \in Nat
  BY Reached DEF TypeOK
<1>4. CASE Direct(off[i], off[j])
  <2>1. g = <<off[i], off[j]>>
    BY <1>1, <1>4 DEF GapsBetween
  <2>2. \A x \in win.prime : x <= off[i] \/ off[j] <= x
    BY <1>2, <1>3, <1>4, InsideNeighbours
  <2> QED BY <1>1, <1>2, <2>1, <2>2 DEF TrueGap, Consecutive, Verified
<1>5. CASE ~Direct(off[i], off[j])
  <2>1. g \in Resolved(off[i], off[j])
    BY <1>1, <1>5 DEF GapsBetween
  <2>2. /\ g \in Chain(off[i], off[j]) \X Chain(off[i], off[j])
        /\ g[1] < g[2]
        /\ \A x \in Chain(off[i], off[j]) : x <= g[1] \/ g[2] <= x
    BY <2>1 DEF Resolved
  <2>3. \A x \in Chain(off[i], off[j]) : x \in Nat /\ x \in Offsets /\ off[i] <= x /\ x <= off[j]
    BY <1>2, Reached DEF Chain, HiddenInside
  <2>4. /\ g \in Offsets \X Offsets /\ g[1] \in Nat /\ g[2] \in Nat
        /\ off[i] <= g[1] /\ g[2] <= off[j]
    BY <2>2, <2>3
  <2>5. ASSUME NEW x \in win.prime, ~(x <= g[1] \/ g[2] <= x) PROVE FALSE
    <3>1. x \in win.mr /\ x \in Nat /\ g[1] < x /\ x < g[2]
      BY <1>3, <2>4, <2>5
    <3>2. off[i] < x /\ x < off[j]
      BY <1>2, <2>4, <3>1
    <3>3. x \in Chain(off[i], off[j])
      BY <3>1, <3>2, InsideNeighbours DEF Chain
    <3> QED BY <2>2, <2>5, <3>3
  <2> QED BY <1>1, <2>2, <2>4, <2>5 DEF TrueGap, Consecutive, Verified
<1> QED BY <1>4, <1>5

(* A gap that lies in a container is among those read off some neighbours. *)
LEMMA GapsComplete ==
  ASSUME TypeOK, Layout, win.mr = win.prime,
         NEW g \in win.prime \X win.prime, TrueGap(g), Contained(g)
  PROVE  \E i, j \in Indices : /\ Neighbours(i, j)
                               /\ Qualifies(<<off[i], off[j]>>)
                               /\ g \in GapsOf(i, j)
<1> USE Geometry
<1> DEFINE Below == {k \in Indices : off[k] \in win.prime /\ off[k] <= g[1]}
           Above == {k \in Indices : off[k] \in win.prime /\ g[2] <= off[k]}
<1>1. /\ g = <<g[1], g[2]>> /\ g[1] \in win.mr /\ g[2] \in win.mr
      /\ g[1] \in Nat /\ g[2] \in Nat /\ g[1] \in Offsets /\ g[1] < g[2]
      /\ \A x \in win.prime : x <= g[1] \/ g[2] <= x
      /\ Qualifies(g) /\ Verified(g)
  BY Reached DEF TrueGap, Consecutive, Verified
<1>2. Below # {} /\ Below \in SUBSET Nat /\ IsFiniteSet(Below)
  <2>1. Below \in SUBSET Indices
    OBVIOUS
  <2> QED BY <2>1, FS_Subset DEF Contained
<1>3. Above # {} /\ Above \in SUBSET Nat /\ IsFiniteSet(Above)
  <2>1. Above \in SUBSET Indices
    OBVIOUS
  <2> QED BY <2>1, FS_Subset DEF Contained
<1>4. PICK i \in Below : \A k \in Below : k <= i
  BY <1>2, Maximum
<1>5. PICK j \in Above : \A k \in Above : j <= k
  BY <1>3, Minimum
<1>6. /\ i \in Indices /\ j \in Indices /\ i \in Nat /\ j \in Nat
      /\ off[i] \in Nat /\ off[j] \in Nat /\ off[i] \in Offsets /\ off[j] \in Offsets
      /\ off[i] \in win.prime /\ off[j] \in win.prime
      /\ off[i] <= g[1] /\ g[2] <= off[j]
  OBVIOUS
<1>7. i < j
  <2>1. j <= i => off[j] <= off[i]
    BY <1>6
  <2> QED BY <1>1, <1>6, <2>1
<1>8. Neighbours(i, j)
  <2>1. ASSUME NEW k \in Indices, i + 1 <= k, k < j, off[k] \in win.mr PROVE FALSE
    <3>1. off[k] <= g[1] \/ g[2] <= off[k]
      BY <1>1, <2>1
    <3>2. k \in Below \/ k \in Above
      BY <2>1, <3>1
    <3> QED BY <1>4, <1>5, <1>6, <2>1, <3>2
  <2> QED BY <1>6, <1>7, <2>1 DEF Neighbours, Probable, NoneFrom
<1>9. Qualifies(<<off[i], off[j]>>)
  <2>1. /\ g[2] - g[1] >= Need[g[1]] /\ Need[off[i]] <= Need[g[1]]
        /\ Need[g[1]] \in Nat /\ Need[off[i]] \in Nat
    BY <1>1, <1>6, NeedAssumption DEF Qualifies
  <2> QED BY <1>1, <1>6, <2>1 DEF Qualifies
<1>10. g[1] = off[i] \/ (~Direct(off[i], off[j]) /\ g[1] \in HiddenInside(off[i], off[j]))
  <2>1. SUFFICES ASSUME off[i] < g[1]
                 PROVE  ~Direct(off[i], off[j]) /\ g[1] \in HiddenInside(off[i], off[j])
    BY <1>1, <1>6
  <2>2. g[1] < off[j]
    BY <1>1, <1>6
  <2> QED BY <1>1, <1>6, <1>8, <2>1, <2>2, InsideNeighbours
<1>11. g[2] = off[j] \/ (~Direct(off[i], off[j]) /\ g[2] \in HiddenInside(off[i], off[j]))
  <2>1. SUFFICES ASSUME g[2] < off[j]
                 PROVE  ~Direct(off[i], off[j]) /\ g[2] \in HiddenInside(off[i], off[j])
    BY <1>1, <1>6
  <2>2. off[i] < g[2]
    BY <1>1, <1>6
  <2> QED BY <1>1, <1>6, <1>8, <2>1, <2>2, InsideNeighbours
<1>12. g \in GapsBetween(off[i], off[j])
  <2>1. CASE Direct(off[i], off[j])
    BY <1>1, <1>10, <1>11, <2>1 DEF GapsBetween
  <2>2. CASE ~Direct(off[i], off[j])
    <3>1. g[1] \in Chain(off[i], off[j]) /\ g[2] \in Chain(off[i], off[j])
      BY <1>10, <1>11 DEF Chain
    <3>2. \A x \in Chain(off[i], off[j]) : x <= g[1] \/ g[2] <= x
      BY <1>1, <1>6 DEF Chain, HiddenInside
    <3> QED BY <1>1, <2>2, <3>1, <3>2 DEF GapsBetween, Resolved
  <2> QED BY <2>1, <2>2
<1> QED BY <1>1, <1>6, <1>8, <1>9, <1>12 DEF GapsOf

-----------------------------------------------------------------------------
(* The reports. *)

(* Nothing that speaks of the window changes with the record of the scan.  *)
LEMMA SameGaps ==
  ASSUME UNCHANGED <<config, win, off, count>>
  PROVE  /\ \A g : TrueGap(g)' <=> TrueGap(g)
         /\ \A g : Contained(g)' <=> Contained(g)
BY DEF TrueGap, Consecutive, Qualifies, Contained, Indices

LEMMA PairsAreDirect ==
  ASSUME ExactConfigs, TypeOK, scan = "jump2", NEW a, NEW b
  PROVE  quarter = FALSE /\ Direct(a, b) /\ GapsBetween(a, b) = {<<a, b>>}
<1>1. config = <<scan, quarter>> /\ quarter \in BOOLEAN
  BY ConfigsAssumption DEF TypeOK, scan, quarter
<1>2. quarter = FALSE
  BY <1>1 DEF ExactConfigs, TypeOK
<1> QED BY <1>2 DEF Direct, GapsBetween

LEMMA ReportPairsKeeps ==
  ASSUME ExactConfigs, Inv, ReportPairs PROVE Inv'
<1> DEFINE Good == {m \in 1 .. Len(pairs) : Qualifies(pairs[m]) /\ Verified(pairs[m])}
<1>1. /\ TypeOK /\ Layout /\ phase = "DONE" /\ scan = "jump2"
      /\ UNCHANGED <<config, win, off, count, pairs>>
      /\ phase' = "reported" /\ out' = {pairs[n] : n \in Good}
      /\ pidx' = None /\ qidx' = None /\ clo' = 0 /\ chi' = 0 /\ wcur' = Chunk
  BY DEF Inv, ReportPairs, ForgetSlices
<1>2. count = 0 \/ FoundUpTo(count - 1)
  BY <1>1 DEF Inv, ChainInv
<1>3. \A i \in Indices : i <= count - 1
  BY <1>1 DEF Indices, TypeOK
<1>4. ASSUME count = 0 PROVE win.prime = {} /\ Indices = {}
  <2>1. Indices = {}
    BY <1>4 DEF Indices
  <2>2. win.mr \subseteq Extracted(win)
    <3>1. quarter = FALSE
      BY <1>1, PairsAreDirect
    <3> QED BY <1>1, <3>1 DEF Extracted, TypeOK
  <2> QED BY <1>1, <2>1, <2>2 DEF Layout, TypeOK
<1>5. ASSUME NEW g \in out' PROVE g \in Offsets \X Offsets /\ TrueGap(g)
  <2>1. PICK n \in 1 .. Len(pairs) : g = pairs[n] /\ Qualifies(g) /\ Verified(g)
    BY <1>1, <1>5
  <2>2. count # 0
    BY <1>4, <2>1 DEF Verified
  <2>3. PICK i \in Indices, j \in Indices : Wide(i, j) /\ g = <<off[i], off[j]>>
    BY <1>2, <2>1, <2>2 DEF FoundUpTo
  <2>4. g \in GapsOf(i, j) /\ Neighbours(i, j)
    BY <1>1, <2>1, <2>3, PairsAreDirect DEF GapsOf, Wide
  <2> QED BY <1>1, <2>4, GapsSound
<1>6. ASSUME win.mr = win.prime, NEW g \in win.prime \X win.prime, TrueGap(g), Contained(g)
      PROVE  g \in out'
  <2>1. PICK i \in Indices, j \in Indices : Neighbours(i, j) /\ g \in GapsOf(i, j)
    BY <1>1, <1>6, GapsComplete
  <2>2. g = <<off[i], off[j]>> /\ Qualifies(g) /\ Verified(g)
    BY <1>1, <2>1, PairsAreDirect DEF GapsOf
  <2>3. Wide(i, j)
    <3>1. /\ off[i] \in Offsets /\ off[i] \in Nat /\ off[j] \in Nat
          /\ Thr <= Need[off[i]] /\ Thr \in Nat /\ Need[off[i]] \in Nat
      BY <1>1, Geometry, ThrAssumption, NeedAssumption
    <3>2. off[j] - off[i] >= Need[off[i]]
      BY <2>2 DEF Qualifies
    <3> QED BY <2>1, <3>1, <3>2 DEF Wide
  <2>4. count # 0
    BY <1>4, <2>1
  <2>5. PICK n \in 1 .. Len(pairs) : pairs[n] = g
    BY <1>2, <1>3, <2>2, <2>3, <2>4 DEF FoundUpTo
  <2>6. n \in Good
    BY <2>2, <2>5
  <2> QED BY <1>1, <2>5, <2>6
<1>7. TypeOK'
  <2>1. pairs \in Seq(Offsets \X Offsets) /\ Len(pairs) <= Cap
    BY <1>1 DEF TypeOK
  <2>2. out' \subseteq Offsets \X Offsets
    BY <1>5
  <2> HIDE DEF Good
  <2> QED BY <1>1, <2>1, <2>2, SameWindow, WidthAssumption DEF TypeOK, None
<1>8. NoFalseGap'
  BY <1>1, <1>5, SameGaps DEF NoFalseGap
<1>9. NoMissedGap'
  BY <1>1, <1>6, SameGaps DEF NoMissedGap
<1>10. Layout' /\ ChainInv' /\ FullInv'
  BY <1>1, SameWindow DEF ChainInv, FullInv
<1> QED BY <1>1, <1>7, <1>8, <1>9, <1>10 DEF Inv

LEMMA StartFullKeeps ==
  ASSUME Inv, StartFull PROVE Inv'
<1>1. /\ TypeOK /\ Layout /\ phase = "filled" /\ scan = "full" /\ out = {}
      /\ phase' = "FULL" /\ clo' = 0 /\ pidx' = None /\ count \in Nat
      /\ UNCHANGED <<config, win, off, count, qidx, chi, wcur, pairs, out>>
  BY DEF Inv, StartFull, TypeOK
<1>2. TypeOK'
  BY <1>1, SameWindow DEF TypeOK, None
<1>3. NoneFrom(0, clo)' /\ \A i, j \in Indices' : ~(Neighbours(i, j)' /\ j < clo')
  BY <1>1, Geometry DEF NoneFrom, Indices, Neighbours, Probable
<1>4. FullInv'
  BY <1>1, <1>3 DEF FullInv
<1>5. ChainInv' /\ NoFalseGap' /\ NoMissedGap' /\ Layout' /\ scan' = "full"
  BY <1>1, SameWindow DEF ChainInv, NoFalseGap, NoMissedGap
<1> QED BY <1>1, <1>2, <1>4, <1>5 DEF Inv

(* The previous prime of the full scan is the left neighbour of the next.  *)
LEMMA PreviousPrime ==
  ASSUME Inv, phase = "FULL", clo < count, Probable(clo), NEW i \in Indices
  PROVE  Neighbours(i, clo) <=> (pidx # None /\ i = pidx)
<1> USE Geometry DEF Inv
<1>1. /\ TypeOK /\ Layout /\ clo \in Nat /\ i \in Nat /\ clo \in Indices
      /\ IF pidx = None THEN NoneFrom(0, clo)
                        ELSE Probable(pidx) /\ pidx < clo /\ NoneFrom(pidx + 1, clo)
  BY DEF FullInv, Probable
<1>2. CASE pidx = None
  BY <1>1, <1>2 DEF Neighbours, Probable, NoneFrom
<1>3. CASE pidx # None
  <2>1. pidx \in Nat /\ pidx \in Indices
    BY <1>1, <1>3 DEF Probable
  <2>2. Neighbours(pidx, clo)
    BY <1>1, <1>3 DEF Neighbours
  <2>3. ASSUME Neighbours(i, clo) PROVE i = pidx
    <3>1. ~(i < pidx)
      BY <1>1, <1>3, <2>1, <2>3 DEF Neighbours, Probable, NoneFrom
    <3>2. ~(pidx < i)
      BY <1>1, <1>3, <2>1, <2>3 DEF Neighbours, Probable, NoneFrom
    <3> QED BY <1>1, <2>1, <3>1, <3>2
  <2> QED BY <1>3, <2>2, <2>3
<1> QED BY <1>2, <1>3

LEMMA FullStepKeeps ==
  ASSUME Inv, FullStep PROVE Inv'
<1>1. /\ TypeOK /\ Layout /\ phase = "FULL" /\ scan = "full" /\ clo < count /\ clo' = clo + 1
      /\ UNCHANGED <<config, win, off, count, phase, qidx, chi, wcur, pairs>>
      /\ NoFalseGap
  BY DEF Inv, FullStep
<1>2. /\ 0 <= clo /\ clo <= count /\ clo \in Nat /\ count \in Nat /\ clo \in Indices
      /\ IF pidx = None THEN NoneFrom(0, clo)
                        ELSE Probable(pidx) /\ pidx < clo /\ NoneFrom(pidx + 1, clo)
      /\ \A i, j \in Indices :
           Neighbours(i, j) /\ j < clo /\ Qualifies(<<off[i], off[j]>>)
             => GapsOf(i, j) \subseteq out
  <2>1. clo \in Int /\ count \in Nat
    BY <1>1 DEF TypeOK
  <2> QED BY <1>1, <2>1 DEF Inv, FullInv, Indices
<1>3. \A i, j \in Indices : Neighbours(i, j)' <=> Neighbours(i, j)
  BY <1>1, SameWindow
<1>4. pidx' \in Int /\ out \subseteq out'
  BY <1>1, <1>2 DEF FullStep, TypeOK
<1>5. ASSUME NEW g \in out' PROVE g \in Offsets \X Offsets /\ TrueGap(g)
  <2>1. CASE g \in out
    BY <1>1, <2>1 DEF NoFalseGap, TypeOK
  <2>2. CASE g \notin out
    <3>1. /\ IsProbable(clo) /\ pidx # None
          /\ g \in {h \in GapsBetween(off[pidx], off[clo]) : Qualifies(h) /\ Verified(h)}
      BY <1>5, <2>2 DEF FullStep
    <3>2. Probable(clo) /\ Probable(pidx) /\ pidx \in Indices /\ clo \in Indices
      BY <1>2, <3>1 DEF Probable, IsProbable
    <3>3. Neighbours(pidx, clo)
      BY <1>2, <3>1, <3>2 DEF Neighbours
    <3>4. g \in GapsOf(pidx, clo)
      BY <3>1 DEF GapsOf
    <3> QED BY <1>1, <3>2, <3>3, <3>4, GapsSound
  <2> QED BY <2>1, <2>2
<1>6. IF pidx' = None THEN NoneFrom(0, clo + 1)
                      ELSE Probable(pidx') /\ pidx' < clo + 1 /\ NoneFrom(pidx' + 1, clo + 1)
  <2>1. CASE IsProbable(clo)
    <3>1. pidx' = clo /\ Probable(clo) /\ clo # None
      BY <1>2, <2>1 DEF FullStep, Probable, IsProbable, None
    <3>2. NoneFrom(clo + 1, clo + 1)
      BY <1>1, <1>2, Geometry DEF NoneFrom
    <3> QED BY <1>2, <3>1, <3>2
  <2>2. CASE ~IsProbable(clo)
    <3>1. pidx' = pidx /\ off[clo] \notin win.mr
      BY <2>2 DEF FullStep, IsProbable
    <3>2. \A a \in Int : NoneFrom(a, clo) => NoneFrom(a, clo + 1)
      BY <1>1, <1>2, <3>1, Geometry DEF NoneFrom
    <3>3. pidx # None => pidx \in Nat
      BY <1>1, <1>2, Geometry DEF Probable
    <3> QED BY <1>2, <3>1, <3>2, <3>3
  <2> QED BY <2>1, <2>2
<1>7. ASSUME NEW i \in Indices, NEW j \in Indices, Neighbours(i, j), j < clo + 1,
             Qualifies(<<off[i], off[j]>>)
      PROVE  GapsOf(i, j) \subseteq out'
  <2>1. CASE j < clo
    BY <1>2, <1>4, <1>7, <2>1
  <2>2. CASE j = clo
    <3>1. Probable(clo) /\ IsProbable(clo)
      BY <1>7, <2>2 DEF Neighbours, Probable, IsProbable
    <3>2. pidx # None /\ i = pidx
      BY <1>1, <1>7, <2>2, <3>1, PreviousPrime
    <3>3. out' = out \cup GapsOf(pidx, clo)
      BY <1>7, <2>2, <3>1, <3>2 DEF FullStep, GapsOf
    <3> QED BY <2>2, <3>2, <3>3
  <2>3. j < clo \/ j = clo
    BY <1>1, <1>2, <1>7, Geometry
  <2> QED BY <2>1, <2>2, <2>3
<1>8. TypeOK'
  <2>1. out' \subseteq Offsets \X Offsets
    BY <1>5
  <2>2. clo' \in Int
    BY <1>1, <1>2
  <2>3. /\ config' \in Configs /\ win' \in Window /\ count' \in Nat
        /\ win'.prime \subseteq win'.mr /\ win'.mr \subseteq win'.surv
        /\ off' \in [Indices' -> Offsets]
    BY <1>1, SameWindow DEF TypeOK
  <2>4. /\ phase' = "FULL" /\ qidx' \in Int /\ chi' \in Int /\ wcur' \in Nat
        /\ pairs' \in Seq(Offsets \X Offsets) /\ Len(pairs') <= Cap
    BY <1>1 DEF TypeOK
  <2> QED BY <1>4, <2>1, <2>2, <2>3, <2>4 DEF TypeOK
<1>9. FullInv'
  <2>1. clo' \in Nat /\ 0 <= clo' /\ clo' <= count'
    BY <1>1, <1>2
  <2>2. \A i, j \in Indices' :
          Neighbours(i, j)' /\ j < clo' /\ Qualifies(<<off[i], off[j]>>)'
            => GapsOf(i, j)' \subseteq out'
    BY <1>1, <1>7, SameWindow DEF Qualifies
  <2>3. IF pidx' = None THEN NoneFrom(0, clo)'
                        ELSE Probable(pidx)' /\ pidx' < clo' /\ NoneFrom(pidx + 1, clo)'
    BY <1>1, <1>6 DEF NoneFrom, Probable, Indices
  <2> QED BY <2>1, <2>2, <2>3 DEF FullInv
<1>10. NoFalseGap' /\ NoMissedGap' /\ ChainInv' /\ Layout' /\ scan' = "full"
  BY <1>1, <1>5, SameGaps, SameWindow DEF NoFalseGap, NoMissedGap, ChainInv
<1> QED BY <1>1, <1>8, <1>9, <1>10 DEF Inv

LEMMA FullEndsKeeps ==
  ASSUME Inv, FullEnds PROVE Inv'
<1>1. /\ TypeOK /\ Layout /\ phase = "FULL" /\ scan = "full" /\ clo >= count /\ NoFalseGap
      /\ UNCHANGED <<config, win, off, count, pairs, out>> /\ phase' = "reported"
      /\ pidx' = None /\ qidx' = None /\ clo' = 0 /\ chi' = 0 /\ wcur' = Chunk
  BY DEF Inv, FullEnds, ForgetSlices
<1>2. \A i, j \in Indices :
        Neighbours(i, j) /\ Qualifies(<<off[i], off[j]>>) => GapsOf(i, j) \subseteq out
  <2>1. \A j \in Indices : j < clo
    BY <1>1 DEF TypeOK, Indices
  <2> QED BY <1>1, <2>1 DEF Inv, FullInv
<1>3. ASSUME win.mr = win.prime, NEW g \in win.prime \X win.prime, TrueGap(g), Contained(g)
      PROVE  g \in out
  BY <1>1, <1>2, <1>3, GapsComplete
<1>4. TypeOK'
  BY <1>1, SameWindow, WidthAssumption DEF TypeOK, None
<1>5. NoMissedGap' /\ NoFalseGap'
  BY <1>1, <1>3, SameGaps DEF NoMissedGap, NoFalseGap
<1>6. Layout' /\ ChainInv' /\ FullInv'
  BY <1>1, SameWindow DEF ChainInv, FullInv
<1> QED BY <1>1, <1>4, <1>5, <1>6 DEF Inv

-----------------------------------------------------------------------------
(* The fill and the release of the flight, and the initial state. *)
LEMMA ListingOffsets ==
  ASSUME NEW S \in SUBSET Offsets
  PROVE  /\ Cardinality(S) \in Nat
         /\ Listing(S) \in [0 .. Cardinality(S) - 1 -> S]
         /\ Listing(S) \in [0 .. Cardinality(S) - 1 -> Offsets]
         /\ \A i, j \in 0 .. Cardinality(S) - 1 :
              i < j => Listing(S)[i] < Listing(S)[j]
         /\ \A x \in S : \E i \in 0 .. Cardinality(S) - 1 : Listing(S)[i] = x
<1>1. IsFiniteSet(S) /\ S \in SUBSET Nat
  BY OffsetsAssumption, FS_Subset
<1> QED BY <1>1, ListingAscends

LEMMA ListingNone ==
  Cardinality({}) = 0 /\ Listing({}) \in [0 .. 0 - 1 -> Offsets] /\ 0 .. 0 - 1 = {}
<1>1. Cardinality({}) = 0
  BY FS_EmptySet
<1>2. {} \in SUBSET Offsets
  OBVIOUS
<1>3. Listing({}) \in [0 .. Cardinality({}) - 1 -> Offsets]
  BY <1>2, ListingOffsets
<1> QED BY <1>1, <1>3

LEMMA EmptyFlight ==
  ASSUME win = NoWindow, off = Listing({}), count = 0
  PROVE  /\ Layout /\ off \in [Indices -> Offsets] /\ win \in Window
         /\ win.prime \subseteq win.mr /\ win.mr \subseteq win.surv
<1>1. Extracted(win) = {}
  BY DEF Extracted, NoWindow, Hidden
<1>2. Indices = {} /\ off \in [Indices -> Offsets]
  BY ListingNone DEF Indices
<1>3. Layout
  <2>1. Listing({}) \in [{} -> {}]
    <3>1. {} \in SUBSET Offsets
      OBVIOUS
    <3> QED BY <3>1, ListingOffsets, ListingNone
  <2> QED BY <1>1, <1>2, <2>1 DEF Layout
<1>4. win \in Window /\ win.prime \subseteq win.mr /\ win.mr \subseteq win.surv
  BY DEF NoWindow, Window
<1> QED BY <1>2, <1>3, <1>4

LEMMA InitInv == Init => Inv
<1> SUFFICES ASSUME Init PROVE Inv
  OBVIOUS
<1>1. /\ Layout /\ off \in [Indices -> Offsets] /\ win \in Window
      /\ win.prime \subseteq win.mr /\ win.mr \subseteq win.surv
  BY EmptyFlight DEF Init
<1>2. TypeOK
  BY <1>1, WidthAssumption DEF Init, TypeOK, None
<1> QED BY <1>1, <1>2 DEF Init, Inv, ChainInv, FullInv, NoFalseGap, NoMissedGap

LEMMA FillKeeps ==
  ASSUME Inv, FillAny PROVE Inv'
<1>1. PICK s \in Sieved, h \in HiddenSets, e \in BOOLEAN : \E p \in SUBSET s :
        \E t \in SUBSET (s \cap Pseudo) :
          Fill([surv |-> s, prime |-> p, mr |-> p \cup t, hid |-> h, even |-> e])
  BY DEF FillAny
<1>2. PICK p \in SUBSET s, t \in SUBSET (s \cap Pseudo) :
          Fill([surv |-> s, prime |-> p, mr |-> p \cup t, hid |-> h, even |-> e])
  BY <1>1
<1> DEFINE w == [surv |-> s, prime |-> p, mr |-> p \cup t, hid |-> h, even |-> e]
<1>3. w \in Window /\ w.prime \subseteq w.mr /\ w.mr \subseteq w.surv /\ w.surv \subseteq Offsets
  BY RegionAssumption DEF Window
<1>4. PICK u \in Window : u = w
  BY <1>3
<1> HIDE DEF w
<1>5. /\ win' = u /\ off' = Listing(Extracted(u)) /\ count' = Cardinality(Extracted(u))
      /\ phase' = "filled" /\ out = {} /\ TypeOK
      /\ UNCHANGED <<config, pidx, qidx, clo, chi, wcur, pairs, out>>
      /\ u.prime \subseteq u.mr /\ u.mr \subseteq u.surv
  BY <1>2, <1>3, <1>4 DEF Fill, w, Inv
<1>6. Extracted(u) \in SUBSET Offsets /\ Extracted(win)' = Extracted(u)
  BY <1>5 DEF Extracted, Window, quarter, Hidden
<1>7. /\ count' \in Nat /\ off' \in [Indices' -> Extracted(u)] /\ off' \in [Indices' -> Offsets]
      /\ \A i, j \in Indices' : i < j => off'[i] < off'[j]
      /\ \A x \in Extracted(u) : \E i \in Indices' : off'[i] = x
  BY <1>5, <1>6, ListingOffsets DEF Indices
<1>8. Layout'
  BY <1>6, <1>7 DEF Layout
<1>9. TypeOK'
  BY <1>5, <1>7 DEF TypeOK
<1> QED BY <1>5, <1>8, <1>9 DEF Inv, ChainInv, FullInv, NoFalseGap, NoMissedGap

LEMMA ReleaseKeeps ==
  ASSUME Inv, Release PROVE Inv'
<1>1. /\ win' = NoWindow /\ off' = Listing({}) /\ count' = 0 /\ phase' = "empty" /\ out' = {}
      /\ UNCHANGED <<config, pidx, qidx, clo, chi, wcur, pairs>> /\ TypeOK
  BY DEF Release, Inv
<1>2. /\ Layout' /\ off' \in [Indices' -> Offsets] /\ win' \in Window
      /\ win'.prime \subseteq win'.mr /\ win'.mr \subseteq win'.surv
  <2>1. Extracted(win)' = {}
    BY <1>1 DEF Extracted, NoWindow, Hidden
  <2>2. Indices' = {} /\ off' \in [Indices' -> Offsets]
    BY <1>1, ListingNone DEF Indices
  <2>3. Listing({}) \in [{} -> {}]
    <3>1. {} \in SUBSET Offsets
      OBVIOUS
    <3> QED BY <3>1, ListingOffsets, ListingNone
  <2>4. Layout'
    BY <1>1, <2>1, <2>2, <2>3 DEF Layout
  <2>5. NoWindow \in Window /\ NoWindow.prime \subseteq NoWindow.mr /\ NoWindow.mr \subseteq NoWindow.surv
    BY DEF NoWindow, Window
  <2> QED BY <1>1, <2>2, <2>4, <2>5
<1>3. TypeOK'
  BY <1>1, <1>2 DEF TypeOK
<1> QED BY <1>1, <1>2, <1>3 DEF Inv, ChainInv, FullInv, NoFalseGap, NoMissedGap

LEMMA StutterKeeps ==
  ASSUME Inv, UNCHANGED vars PROVE Inv'
<1>1. UNCHANGED <<config, win, off, count, phase, pidx, qidx, clo, chi, wcur, pairs, out>>
  BY DEF vars
<1>2. TypeOK' /\ Layout' /\ scan' = scan
  BY <1>1, SameWindow DEF Inv, TypeOK
<1>3. ChainInv'
  <2>1. ChainInv
    BY DEF Inv
  <2>2. /\ NoneFrom(0, clo)' <=> NoneFrom(0, clo)
        /\ NoneFrom(chi, qidx)' <=> NoneFrom(chi, qidx)
        /\ NoneFrom(pidx + 1, clo)' <=> NoneFrom(pidx + 1, clo)
    BY <1>1 DEF NoneFrom, Indices
  <2>3. FoundUpTo(pidx)' <=> FoundUpTo(pidx)
    BY <1>1, SamePairs
  <2>4. FoundUpTo(count - 1)' <=> FoundUpTo(count - 1)
    BY <1>1, SamePairs
  <2>5. Anchored' <=> Anchored
    BY <1>1, <2>3 DEF Anchored, Probable, Indices
  <2> QED BY <1>1, <2>1, <2>2, <2>4, <2>5 DEF ChainInv
<1>4. FullInv'
  <2>1. FullInv
    BY DEF Inv
  <2>2. /\ NoneFrom(0, clo)' <=> NoneFrom(0, clo)
        /\ NoneFrom(pidx + 1, clo)' <=> NoneFrom(pidx + 1, clo)
        /\ Probable(pidx)' <=> Probable(pidx)
    BY <1>1 DEF NoneFrom, Probable, Indices
  <2>3. ASSUME phase = "FULL",
               NEW i \in Indices', NEW j \in Indices', Neighbours(i, j)', j < clo',
               Qualifies(<<off[i], off[j]>>)'
        PROVE  GapsOf(i, j)' \subseteq out'
    <3>1. /\ i \in Indices /\ j \in Indices /\ Neighbours(i, j) /\ j < clo
          /\ Qualifies(<<off[i], off[j]>>) /\ GapsOf(i, j)' = GapsOf(i, j)
      BY <1>1, <2>3, SameWindow DEF Qualifies
    <3>2. GapsOf(i, j) \subseteq out
      BY <2>1, <2>3, <3>1 DEF FullInv
    <3> QED BY <1>1, <3>1, <3>2
  <2> QED BY <1>1, <2>1, <2>2, <2>3 DEF FullInv
<1>5. NoFalseGap' /\ NoMissedGap'
  BY <1>1, SameGaps DEF Inv, NoFalseGap, NoMissedGap
<1> QED BY <1>1, <1>2, <1>3, <1>4, <1>5 DEF Inv

-----------------------------------------------------------------------------
(* Inv is inductive when no configuration combines the chain with class    *)
(* filtering: one case per action of Next.                                 *)
THEOREM InductiveInv == ExactConfigs => (Spec => []Inv)
<1> SUFFICES ASSUME ExactConfigs PROVE Spec => []Inv
  OBVIOUS
<1>1. Init => Inv
  BY InitInv
<1>2. Inv /\ [Next]_vars => Inv'
  <2> SUFFICES ASSUME Inv, [Next]_vars PROVE Inv'
    OBVIOUS
  <2>1. CASE FillAny
    BY <2>1, FillKeeps
  <2>2. CASE StartChain
    BY <2>2, StartChainKeeps
  <2>3. CASE SkipEmpty
    BY <2>3, SkipEmptyKeeps
  <2>4. CASE FindFirst
    BY <2>4, FindFirstKeeps
  <2>5. CASE Hop
    BY <2>5, HopKeeps
  <2>6. CASE AllComposite
    BY <2>6, AllCompositeKeeps
  <2>7. CASE SliceDown
    BY <2>7, SliceDownKeeps
  <2>8. CASE FindEnd
    BY <2>8, FindEndKeeps
  <2>9. CASE CapReached
    BY <2>9, CapReachedKeeps
  <2>10. CASE ReportPairs
    BY <2>10, ReportPairsKeeps
  <2>11. CASE StartFull
    BY <2>11, StartFullKeeps
  <2>12. CASE FullStep
    BY <2>12, FullStepKeeps
  <2>13. CASE FullEnds
    BY <2>13, FullEndsKeeps
  <2>14. CASE Release
    BY <2>14, ReleaseKeeps
  <2>15. CASE UNCHANGED vars
    BY <2>15, StutterKeeps
  <2> QED BY <2>1, <2>2, <2>3, <2>4, <2>5, <2>6, <2>7, <2>8, <2>9, <2>10, <2>11,
            <2>12, <2>13, <2>14, <2>15 DEF Next, Scan
<1> QED BY <1>1, <1>2, PTL DEF Spec

(* Every variable keeps its type; in particular no window leaves more      *)
(* pairs in its record than there is room for.                             *)
THEOREM ScanTypes == ExactConfigs => (Spec => []TypeOK)
<1> SUFFICES ASSUME ExactConfigs PROVE Spec => []TypeOK
  OBVIOUS
<1>1. Inv => TypeOK
  BY DEF Inv
<1> QED BY <1>1, InductiveInv, PTL

(* No false gap is ever written.                                           *)
THEOREM ScanSound == ExactConfigs => (Spec => []NoFalseGap)
<1> SUFFICES ASSUME ExactConfigs PROVE Spec => []NoFalseGap
  OBVIOUS
<1>1. Inv => NoFalseGap
  BY DEF Inv
<1> QED BY <1>1, InductiveInv, PTL

(* No gap inside a container of extracted primes is missed.                *)
THEOREM ScanComplete == ExactConfigs => (Spec => []NoMissedGap)
<1> SUFFICES ASSUME ExactConfigs PROVE Spec => []NoMissedGap
  OBVIOUS
<1>1. Inv => NoMissedGap
  BY DEF Inv
<1> QED BY <1>1, InductiveInv, PTL
=============================================================================
