--------------------------- MODULE LimbEulerProofs ---------------------------
(***************************************************************************)
(* Proofs about LimbEuler, for limbs of any width from four bits, any      *)
(* number of limbs and either multiplication: the limbs add and export,    *)
(* the Montgomery product is the product, the windows of the exponent make *)
(* its power of two, and the two tests decide what they are named for.     *)
(***************************************************************************)
EXTENDS LimbEuler, FiniteSets, FiniteSetTheorems, FunctionTheorems, WellFoundedInduction, TLAPS

-----------------------------------------------------------------------------
(* Induction and loops                                                      *)

\* A set of naturals has a smallest element.
LEMMA SmallestIn ==
  ASSUME NEW S, S \subseteq Nat, S # {}
  PROVE  \E m \in S : \A k \in S : m <= k
<1>1. PICK n \in Nat : n \in S
  OBVIOUS
<1> DEFINE Smaller  == StrictSubsetOrdering(0 .. n)
           Segments == { 0 .. k : k \in { j \in S : j <= n } }
<1>2. IsWellFoundedOn(Smaller, SUBSET (0 .. n))
  <2>1. IsFiniteSet(0 .. n)
    BY FS_Interval
  <2>2. FiniteSubsetsOf(0 .. n) = SUBSET (0 .. n)
    BY <2>1, FS_FiniteSubsetsOfFinite
  <2>3. IsWellFoundedOn(Smaller, FiniteSubsetsOf(0 .. n))
    BY FS_StrictSubsetOrderingWellFounded
  <2> HIDE DEF Smaller
  <2> QED
    BY <2>2, <2>3
<1>3. Segments \subseteq SUBSET (0 .. n) /\ Segments # {}
  BY <1>1
<1>4. \A k, m \in Nat : k < m /\ m <= n => <<0 .. k, 0 .. m>> \in Smaller
  <2>1. SUFFICES ASSUME NEW k \in Nat, NEW m \in Nat, k < m, m <= n
                 PROVE  <<0 .. k, 0 .. m>> \in Smaller
    OBVIOUS
  <2>2. (0 .. k) \subseteq (0 .. m) /\ (0 .. m) \subseteq (0 .. n) /\ (0 .. k) # (0 .. m)
    <3>1. m \in 0 .. m /\ m \notin 0 .. k
      BY <2>1
    <3> QED
      BY <2>1, <3>1
  <2> QED
    BY <2>2 DEF StrictSubsetOrdering
<1>5. PICK x \in Segments : \A y \in Segments : ~(<<y, x>> \in Smaller)
  <2> HIDE DEF Smaller, Segments
  <2> QED
    BY <1>2, <1>3, WFMin
<1>6. PICK m \in S : x = 0 .. m /\ m <= n
  OBVIOUS
<1>7. \A k \in S : k <= n => m <= k
  <2>1. SUFFICES ASSUME NEW k \in S, k <= n, k < m PROVE FALSE
    OBVIOUS
  <2>2. (0 .. k) \in Segments
    BY <2>1
  <2> HIDE DEF Segments, Smaller
  <2> QED
    BY <1>4, <1>5, <1>6, <2>1, <2>2
<1> QED
  BY <1>1, <1>6, <1>7

\* What holds of 0, and of each k + 1 below n when it holds of k, holds up to n.
LEMMA Induction ==
  ASSUME NEW n \in Nat, NEW G, 0 \in G, \A k \in 0 .. n - 1 : k \in G => k + 1 \in G
  PROVE  n \in G /\ \A k \in 0 .. n : k \in G
<1> DEFINE Bad == { k \in 0 .. n : k \notin G }
<1> SUFFICES ASSUME Bad # {} PROVE FALSE
  OBVIOUS
<1>1. Bad \subseteq Nat
  OBVIOUS
<1>2. PICK m \in Bad : \A k \in Bad : m <= k
  <2> HIDE DEF Bad
  <2> QED
    BY <1>1, SmallestIn
<1>3. m \in 0 .. n /\ m # 0 /\ m \notin G
  OBVIOUS
<1>4. m - 1 \in 0 .. n - 1 /\ m - 1 \in G
  BY <1>2, <1>3
<1>5. (m - 1) + 1 \in G
  BY <1>4
<1> QED
  BY <1>3, <1>5

\* f has the states of a loop of n steps from the state s.
Iterates(f, F, s, n) == f = [k \in 0 .. n |-> IF k = 0 THEN s ELSE F[k - 1][f[k - 1]]]
Within(f, I, n)      == \A k \in 0 .. n : f[k] \in I[k]

\* A loop of n steps, of which step k takes a state of I[k] to one of I[k + 1].
LEMMA Loop ==
  ASSUME NEW n \in Nat, NEW s, NEW I, NEW F, s \in I[0],
         \A k \in 0 .. n - 1 : \A p \in I[k] : F[k][p] \in I[k + 1]
  PROVE  \E f : Iterates(f, F, s, n) /\ Within(f, I, n)
<1> DEFINE Good(f, m) == /\ f = [k \in 0 .. m |-> IF k = 0 THEN s ELSE F[k - 1][f[k - 1]]]
                         /\ \A k \in 0 .. m : f[k] \in I[k]
           G == { m \in 0 .. n : \E f : Good(f, m) }
<1>1. 0 \in G
  <2>1. Good([k \in 0 .. 0 |-> s], 0)
    OBVIOUS
  <2> HIDE DEF Good
  <2> QED
    BY <2>1
<1>2. ASSUME NEW m \in 0 .. n - 1, m \in G PROVE m + 1 \in G
  <2>1. PICK f : Good(f, m)
    BY <1>2
  <2> DEFINE g == [k \in 0 .. m + 1 |-> IF k = m + 1 THEN F[m][f[m]] ELSE f[k]]
  <2>2. f[m] \in I[m] /\ F[m][f[m]] \in I[m + 1]
    BY <2>1
  <2>3. \A k \in 0 .. m + 1 : g[k] \in I[k]
    BY <2>1, <2>2
  <2>4. g[0] = s
    BY <2>1
  <2>5. \A k \in 1 .. m + 1 : g[k] = F[k - 1][g[k - 1]]
    <3>1. TAKE k \in 1 .. m + 1
    <3>2. CASE k = m + 1
      BY <3>2
    <3>3. CASE k # m + 1
      <4>1. k \in 0 .. m /\ k # 0 /\ k - 1 \in 0 .. m /\ k - 1 # m + 1
        BY <3>3
      <4>2. f[k] = F[k - 1][f[k - 1]]
        BY <2>1, <4>1
      <4> QED
        BY <4>1, <4>2, <3>3
    <3> QED
      BY <3>2, <3>3
  <2>6. g = [k \in 0 .. m + 1 |-> IF k = 0 THEN s ELSE F[k - 1][g[k - 1]]]
    <3>1. \A k \in 0 .. m + 1 : g[k] = IF k = 0 THEN s ELSE F[k - 1][g[k - 1]]
      <4> HIDE DEF g
      <4> QED
        BY <2>4, <2>5
    <3>2. g = [k \in 0 .. m + 1 |-> g[k]]
      OBVIOUS
    <3> HIDE DEF g
    <3> QED
      BY <3>1, <3>2
  <2>7. Good(g, m + 1)
    <3> HIDE DEF g
    <3> QED
      BY <2>3, <2>6
  <2> HIDE DEF Good, g
  <2> QED
    BY <2>7
<1>3. n \in G
  <2> HIDE DEF G
  <2>1. \A k \in 0 .. n : k \in G
    BY <1>1, <1>2, Induction
  <2> QED
    BY <2>1
<1>4. PICK f : Good(f, n)
  BY <1>3
<1> QED
  BY <1>4 DEF Iterates, Within

\* A state that follows the steps of a loop is, after n of them, where the loop is.
LEMMA LoopEnds ==
  ASSUME NEW n \in Nat, NEW s, NEW I, NEW F, NEW g, s \in I[0], g[0] = s,
         \A k \in 0 .. n - 1 : \A p \in I[k] : F[k][p] \in I[k + 1],
         \A k \in 0 .. n - 1 : g[k] \in I[k] => g[k + 1] = F[k][g[k]]
  PROVE  g[n] \in I[n]
<1> DEFINE G == { k \in 0 .. n : g[k] \in I[k] }
<1>1. 0 \in G
  OBVIOUS
<1>2. ASSUME NEW k \in 0 .. n - 1, k \in G PROVE k + 1 \in G
  BY <1>2
<1> HIDE DEF G
<1>3. n \in G
  BY <1>1, <1>2, Induction
<1> QED
  BY <1>3 DEF G

-----------------------------------------------------------------------------
(* Powers of two                                                            *)

\* The powers of two are positive.
LEMMA PowerType ==
  ASSUME NEW n \in Nat
  PROVE  2^n \in Nat /\ 2^n > 0
<1>1. IsFiniteSet(1 .. n) /\ Cardinality(1 .. n) = n
  BY FS_Interval
<1>2. IsFiniteSet(SUBSET (1 .. n)) /\ Cardinality(SUBSET (1 .. n)) = 2^n
  BY <1>1, FS_SUBSET
<1>3. Cardinality(SUBSET (1 .. n)) \in Nat
  BY <1>2, FS_CardinalityType
<1>4. SUBSET (1 .. n) # {}
  OBVIOUS
<1>5. Cardinality(SUBSET (1 .. n)) # 0
  BY <1>2, <1>4, FS_EmptySet
<1> QED
  BY <1>2, <1>3, <1>5

\* 2^0.
LEMMA PowerZero == 2^0 = 1
<1>1. IsFiniteSet({}) /\ Cardinality({}) = 0
  BY FS_EmptySet
<1>2. Cardinality(SUBSET {}) = 2^Cardinality({})
  BY <1>1, FS_SUBSET
<1>3. SUBSET {} = {{}}
  OBVIOUS
<1>4. Cardinality({{}}) = 1
  BY FS_Singleton
<1> QED
  BY <1>1, <1>2, <1>3, <1>4

\* A set with one more element has twice the subsets.
LEMMA PowerNext ==
  ASSUME NEW n \in Nat
  PROVE  2^(n + 1) = 2 * 2^n
<1> DEFINE S == 1 .. n
           T == 1 .. n + 1
           A == { X \in SUBSET T : n + 1 \notin X }
           B == { X \in SUBSET T : n + 1 \in X }
<1>1. /\ IsFiniteSet(S) /\ Cardinality(S) = n
      /\ IsFiniteSet(T) /\ Cardinality(T) = n + 1
  BY FS_Interval
<1>2. /\ IsFiniteSet(SUBSET S) /\ Cardinality(SUBSET S) = 2^n
      /\ IsFiniteSet(SUBSET T) /\ Cardinality(SUBSET T) = 2^(n + 1)
  <2> HIDE DEF S, T
  <2> QED
    BY <1>1, FS_SUBSET
<1>3. A = SUBSET S
  <2>1. ASSUME NEW X \in A PROVE X \in SUBSET S
    OBVIOUS
  <2>2. ASSUME NEW X \in SUBSET S PROVE X \in A
    OBVIOUS
  <2> QED
    BY <2>1, <2>2
<1>4. Cardinality(B) = 2^n
  <2> DEFINE f == [X \in SUBSET S |-> X \cup {n + 1}]
  <2>1. f \in Bijection(SUBSET S, B)
    <3>1. f \in [SUBSET S -> B]
      OBVIOUS
    <3>2. \A X, Y \in SUBSET S : f[X] = f[Y] => X = Y
      <4>1. SUFFICES ASSUME NEW X \in SUBSET S, NEW Y \in SUBSET S, X \cup {n + 1} = Y \cup {n + 1}
                     PROVE  X = Y
        OBVIOUS
      <4>2. n + 1 \notin X /\ n + 1 \notin Y
        OBVIOUS
      <4> QED
        BY <4>1, <4>2
    <3>3. \A Y \in B : \E X \in SUBSET S : f[X] = Y
      <4>1. SUFFICES ASSUME NEW Y \in B PROVE \E X \in SUBSET S : X \cup {n + 1} = Y
        OBVIOUS
      <4>2. Y \ {n + 1} \in SUBSET S /\ (Y \ {n + 1}) \cup {n + 1} = Y
        OBVIOUS
      <4> QED
        BY <4>2
    <3> HIDE DEF f, B, S
    <3> QED
      BY <3>1, <3>2, <3>3, Fun_IsBij
  <2>2. ExistsBijection(SUBSET S, B)
    <3> HIDE DEF f, B, S
    <3> QED
      BY <2>1 DEF ExistsBijection
  <2> HIDE DEF S, B
  <2> QED
    BY <1>2, <2>2, FS_Bijection
<1>5. IsFiniteSet(A) /\ IsFiniteSet(B) /\ A \cup B = SUBSET T /\ A \cap B = {}
  <2>1. A \subseteq SUBSET T /\ B \subseteq SUBSET T /\ A \cup B = SUBSET T /\ A \cap B = {}
    OBVIOUS
  <2> HIDE DEF A, B, T
  <2> QED
    BY <1>2, <2>1, FS_Subset
<1>6. Cardinality(A \cup B) = Cardinality(A) + Cardinality(B) - Cardinality(A \cap B)
  <2> HIDE DEF A, B, T
  <2> QED
    BY <1>5, FS_Union
<1>7. Cardinality(A \cap B) = 0
  <2> HIDE DEF A, B, T
  <2> QED
  BY <1>5, FS_EmptySet
<1>8. PICK x \in Nat : x = 2^n
  BY PowerType
<1> HIDE DEF A, B, S, T
<1>9. Cardinality(A) = x /\ Cardinality(B) = x
  BY <1>2, <1>3, <1>4, <1>8
<1>10. Cardinality(A \cup B) = x + x
  BY <1>6, <1>7, <1>8, <1>9
<1>11. 2^(n + 1) = x + x
  BY <1>2, <1>5, <1>10
<1> QED
  BY <1>8, <1>11

-----------------------------------------------------------------------------
(* Numbers as limbs                                                         *)

\* Powers multiply as their exponents add.
LEMMA PowerSum ==
  ASSUME NEW m \in Nat, NEW n \in Nat
  PROVE  2^(m + n) = 2^m * 2^n
<1> DEFINE G == { k \in 0 .. n : 2^(m + k) = 2^m * 2^k }
<1>1. 0 \in G
  <2>1. 2^m \in Nat /\ m + 0 = m
    BY PowerType
  <2>2. 2^(m + 0) = 2^m * 2^0
    BY <2>1, PowerZero
  <2> QED
    BY <2>2
<1>2. ASSUME NEW k \in 0 .. n - 1, k \in G PROVE k + 1 \in G
  <2>1. 2^((m + k) + 1) = 2 * 2^(m + k) /\ 2^(k + 1) = 2 * 2^k
    BY PowerNext
  <2>2. PICK x \in Nat : x = 2^m
    BY PowerType
  <2>3. PICK y \in Nat : y = 2^k
    BY PowerType
  <2>4. 2^(m + k) = x * y
    BY <1>2, <2>2, <2>3
  <2>5. m + (k + 1) = (m + k) + 1
    OBVIOUS
  <2>6. 2^(m + (k + 1)) = 2 * (x * y) /\ 2^(k + 1) = 2 * y
    BY <2>1, <2>3, <2>4, <2>5
  <2>7. 2 * (x * y) = x * (2 * y)
    OBVIOUS
  <2>8. 2^(m + (k + 1)) = 2^m * 2^(k + 1)
    BY <2>2, <2>6, <2>7
  <2> QED
    BY <2>8
<1> HIDE DEF G
<1>3. n \in G
  BY <1>1, <1>2, Induction
<1> QED
  BY <1>3 DEF G

\* A larger exponent has no smaller power.
LEMMA PowerOrder ==
  ASSUME NEW m \in Nat, NEW n \in Nat, m <= n
  PROVE  2^m <= 2^n
<1>1. PICK d \in Nat : n = m + d
  <2>1. n - m \in Nat /\ n = m + (n - m)
    OBVIOUS
  <2> QED
    BY <2>1
<1>2. 2^n = 2^m * 2^d
  BY <1>1, PowerSum
<1>3. PICK x \in Nat : x = 2^m
  BY PowerType
<1>4. PICK y \in Nat : y = 2^d /\ y > 0
  BY PowerType
<1>5. x * y >= x
  BY <1>4
<1> QED
  BY <1>2, <1>3, <1>4, <1>5

\* 2^1.
LEMMA PowerOne == 2^1 = 2
<1>1. 2^(0 + 1) = 2 * 2^0
  BY PowerNext
<1> QED
  BY <1>1, PowerZero

\* The weight of limb k.
Weight(k) == 2^(LimbBits * k)

\* A limb has at least one bit.
LEMMA RadixType == Radix \in Nat /\ Radix >= 2
<1>1. LimbBits \in Nat /\ 1 <= LimbBits
  BY LimbAssumption
<1>2. 2^1 <= 2^LimbBits /\ 2^LimbBits \in Nat
  BY <1>1, PowerOrder, PowerType
<1> QED
  BY <1>2, PowerOne DEF Radix

\* The weight of a limb is positive.
LEMMA WeightType ==
  ASSUME NEW k \in Nat
  PROVE  Weight(k) \in Nat /\ Weight(k) > 0
<1>1. LimbBits * k \in Nat
  BY LimbAssumption
<1> QED
  BY <1>1, PowerType DEF Weight

\* The weight of the next limb.
LEMMA WeightNext ==
  ASSUME NEW k \in Nat
  PROVE  Weight(k + 1) = Radix * Weight(k)
<1>1. PICK l \in Nat : l = LimbBits
  BY LimbAssumption
<1>2. l * (k + 1) = l + l * k /\ l * k \in Nat
  BY <1>1
<1>3. 2^(l + l * k) = 2^l * 2^(l * k)
  BY <1>2, PowerSum
<1> QED
  BY <1>1, <1>2, <1>3 DEF Weight, Radix

\* The weight of the lowest limb.
LEMMA WeightZero == Weight(0) = 1
<1>1. LimbBits * 0 = 0
  BY LimbAssumption
<1> QED
  BY <1>1, PowerZero DEF Weight

\* The number that the first n limbs of a stand for.
Value(a, n) ==
  LET sum[k \in 0 .. n] == IF k = 0 THEN 0 ELSE sum[k - 1] + a[k - 1] * Weight(k - 1)
  IN  sum[n]

\* The value is what the sum over the limbs makes of them, limb by limb.
LEMMA ValueSum ==
  ASSUME NEW a, NEW n \in Nat, \A j \in 0 .. n - 1 : a[j] \in Nat
  PROVE  \E f : /\ f \in [0 .. n -> Nat] /\ f[0] = 0
                /\ \A k \in 0 .. n - 1 : f[k + 1] = f[k] + a[k] * Weight(k)
                /\ Value(a, n) = f[n]
<1> DEFINE F == [k \in 0 .. n - 1 |-> [p \in Nat |-> p + a[k] * Weight(k)]]
           I == [k \in 0 .. n |-> Nat]
           Is(f) == f = [k \in 0 .. n |-> IF k = 0 THEN 0 ELSE f[k - 1] + a[k - 1] * Weight(k - 1)]
<1>1. \A k \in 0 .. n - 1 : a[k] * Weight(k) \in Nat
  BY WeightType
<1>2. \A k \in 0 .. n - 1 : \A p \in I[k] : F[k][p] \in I[k + 1]
  BY <1>1
<1>3. 0 \in I[0]
  OBVIOUS
<1>4. PICK f : Iterates(f, F, 0, n) /\ Within(f, I, n)
  <2> HIDE DEF F, I
  <2> QED
    BY <1>2, <1>3, Loop
<1>5. \A k \in 0 .. n : f[k] \in Nat
  BY <1>4 DEF Within
<1>6. \A k \in 1 .. n : F[k - 1][f[k - 1]] = f[k - 1] + a[k - 1] * Weight(k - 1)
  BY <1>5
<1>7. f = [k \in 0 .. n |-> IF k = 0 THEN 0 ELSE f[k - 1] + a[k - 1] * Weight(k - 1)]
  <2>1. \A k \in 0 .. n : (IF k = 0 THEN 0 ELSE F[k - 1][f[k - 1]])
                            = IF k = 0 THEN 0 ELSE f[k - 1] + a[k - 1] * Weight(k - 1)
    <3>1. ASSUME NEW k \in 0 .. n, k # 0
          PROVE  F[k - 1][f[k - 1]] = f[k - 1] + a[k - 1] * Weight(k - 1)
      <4>1. k \in 1 .. n
        BY <3>1
      <4> HIDE DEF F
      <4> QED
        BY <1>6, <4>1
    <3> HIDE DEF F, I, Is
    <3> QED
      BY <3>1
  <2> HIDE DEF F, I
  <2> QED
    BY <1>4, <2>1 DEF Iterates
<1> DEFINE g == CHOOSE x : Is(x)
<1>8. Is(g)
  BY <1>7
<1>9. Value(a, n) = g[n]
  BY DEF Value
<1> HIDE DEF g, F, I
<1>10. g = [k \in 0 .. n |-> IF k = 0 THEN 0 ELSE g[k - 1] + a[k - 1] * Weight(k - 1)]
  BY <1>8
<1>11. g[0] = 0 /\ \A k \in 0 .. n - 1 : g[k + 1] = g[k] + a[k] * Weight(k)
  <2>1. g[0] = 0
    BY <1>10
  <2>2. ASSUME NEW k \in 0 .. n - 1 PROVE g[k + 1] = g[k] + a[k] * Weight(k)
    <3>1. k + 1 \in 0 .. n /\ k + 1 # 0 /\ (k + 1) - 1 = k
      OBVIOUS
    <3>2. g[k + 1] = g[(k + 1) - 1] + a[(k + 1) - 1] * Weight((k + 1) - 1)
      BY <1>10, <3>1
    <3> QED
      BY <3>1, <3>2
  <2> QED
    BY <2>1, <2>2
<1> DEFINE G == { k \in 0 .. n : g[k] \in Nat }
<1>12. \A k \in 0 .. n : k \in G
  <2>1. 0 \in G
    BY <1>11
  <2>2. ASSUME NEW k \in 0 .. n - 1, k \in G PROVE k + 1 \in G
    <3>1. PICK x \in Nat : x = a[k] * Weight(k)
      BY <1>1
    <3>2. g[k + 1] = g[k] + x /\ g[k] \in Nat
      BY <1>11, <2>2, <3>1
    <3> QED
      BY <3>2
  <2> HIDE DEF G
  <2> QED
    BY <2>1, <2>2, Induction
<1>13. g \in [0 .. n -> Nat]
  <2>1. \A k \in 0 .. n : g[k] \in Nat
    BY <1>12
  <2>2. g = [k \in 0 .. n |-> g[k]]
    BY <1>10
  <2> QED
    BY <2>1, <2>2
<1> QED
  BY <1>9, <1>11, <1>13

\* No limbs are worth nothing.
LEMMA ValueZero ==
  ASSUME NEW a
  PROVE  Value(a, 0) = 0
<1>1. \A j \in 0 .. 0 - 1 : a[j] \in Nat
  OBVIOUS
<1>2. PICK f : f[0] = 0 /\ Value(a, 0) = f[0]
  BY <1>1, ValueSum
<1> QED
  BY <1>2

\* The sums of two numbers whose low limbs are the same.
LEMMA ValueSame ==
  ASSUME NEW a, NEW b, NEW n \in Nat,
         \A j \in 0 .. n - 1 : a[j] \in Nat /\ b[j] = a[j]
  PROVE  Value(b, n) = Value(a, n)
<1>1. PICK f : /\ f \in [0 .. n -> Nat] /\ f[0] = 0
               /\ \A k \in 0 .. n - 1 : f[k + 1] = f[k] + a[k] * Weight(k)
               /\ Value(a, n) = f[n]
  BY ValueSum
<1>2. \A j \in 0 .. n - 1 : b[j] \in Nat
  OBVIOUS
<1>3. PICK g : /\ g \in [0 .. n -> Nat] /\ g[0] = 0
               /\ \A k \in 0 .. n - 1 : g[k + 1] = g[k] + b[k] * Weight(k)
               /\ Value(b, n) = g[n]
  BY <1>2, ValueSum
<1> DEFINE G == { k \in 0 .. n : g[k] = f[k] }
<1>4. 0 \in G
  BY <1>1, <1>3
<1>5. ASSUME NEW k \in 0 .. n - 1, k \in G PROVE k + 1 \in G
  <2>1. g[k + 1] = g[k] + b[k] * Weight(k) /\ f[k + 1] = f[k] + a[k] * Weight(k)
    BY <1>1, <1>3
  <2>2. g[k] = f[k] /\ b[k] = a[k]
    BY <1>5
  <2> QED
    BY <2>1, <2>2
<1> HIDE DEF G
<1>6. n \in G
  BY <1>4, <1>5, Induction
<1> QED
  BY <1>1, <1>3, <1>6 DEF G

\* One limb more.
LEMMA ValueNext ==
  ASSUME NEW a, NEW n \in Nat, \A j \in 0 .. n : a[j] \in Nat
  PROVE  Value(a, n + 1) = Value(a, n) + a[n] * Weight(n)
<1>0. PICK m \in Nat : m = n + 1
  OBVIOUS
<1>1. PICK f : /\ f \in [0 .. m -> Nat] /\ f[0] = 0
               /\ \A k \in 0 .. m - 1 : f[k + 1] = f[k] + a[k] * Weight(k)
               /\ Value(a, m) = f[m]
  <2>1. \A j \in 0 .. m - 1 : a[j] \in Nat
    BY <1>0
  <2> QED
    BY <2>1, ValueSum
<1>2. \A j \in 0 .. n - 1 : a[j] \in Nat
  OBVIOUS
<1>3. PICK g : /\ g \in [0 .. n -> Nat] /\ g[0] = 0
               /\ \A k \in 0 .. n - 1 : g[k + 1] = g[k] + a[k] * Weight(k)
               /\ Value(a, n) = g[n]
  BY <1>2, ValueSum
<1> DEFINE G == { k \in 0 .. n : g[k] = f[k] }
<1>4. 0 \in G
  BY <1>0, <1>1, <1>3
<1>5. ASSUME NEW k \in 0 .. n - 1, k \in G PROVE k + 1 \in G
  <2>1. g[k + 1] = g[k] + a[k] * Weight(k) /\ f[k + 1] = f[k] + a[k] * Weight(k)
    BY <1>0, <1>1, <1>3
  <2>2. g[k] = f[k]
    BY <1>5
  <2> QED
    BY <2>1, <2>2
<1> HIDE DEF G
<1>6. n \in G
  BY <1>4, <1>5, Induction
<1>7. f[n + 1] = f[n] + a[n] * Weight(n)
  BY <1>0, <1>1
<1> QED
  BY <1>0, <1>1, <1>3, <1>6, <1>7 DEF G

\* A value is a natural number.
LEMMA ValueType ==
  ASSUME NEW a, NEW n \in Nat, \A j \in 0 .. n - 1 : a[j] \in Nat
  PROVE  Value(a, n) \in Nat
BY ValueSum

\* n limbs stand for a number below the weight of the next one.
LEMMA ValueBound ==
  ASSUME NEW a, NEW n \in Nat, \A j \in 0 .. n - 1 : a[j] \in 0 .. Radix - 1
  PROVE  Value(a, n) < Weight(n)
<1> DEFINE G == { k \in 0 .. n : Value(a, k) < Weight(k) }
<1>1. 0 \in G
  BY ValueZero, WeightZero
<1>2. ASSUME NEW k \in 0 .. n - 1, k \in G PROVE k + 1 \in G
  <2>1. \A j \in 0 .. k : a[j] \in Nat
    BY RadixType
  <2>2. Value(a, k + 1) = Value(a, k) + a[k] * Weight(k)
    BY <2>1, ValueNext
  <2>3. \A j \in 0 .. k - 1 : a[j] \in Nat
    BY <2>1
  <2>4. PICK v \in Nat : v = Value(a, k)
    BY <2>3, ValueType
  <2>5. PICK w \in Nat : w = Weight(k)
    BY WeightType
  <2>6. PICK r \in Nat : r = Radix
    BY RadixType
  <2>7. PICK x \in Nat : x = a[k] /\ x <= r - 1
    BY <2>6
  <2>8. x * w <= (r - 1) * w
    BY <2>7
  <2>9. (r - 1) * w = r * w - w
    OBVIOUS
  <2>10. Weight(k + 1) = r * w
    BY <2>5, <2>6, WeightNext
  <2>11. v < w
    BY <1>2, <2>4, <2>5
  <2>12. v + x * w < r * w
    BY <2>8, <2>9, <2>11
  <2> QED
    BY <2>2, <2>4, <2>5, <2>7, <2>10, <2>12
<1> HIDE DEF G
<1>3. n \in G
  BY <1>1, <1>2, Induction
<1> QED
  BY <1>3 DEF G

-----------------------------------------------------------------------------
(* Addition and export                                                      *)

Limbs(n) == [0 .. n - 1 -> 0 .. Radix - 1]

\* A limb is below the radix.
LEMMA LimbsType ==
  ASSUME NEW n \in Nat, NEW a \in Limbs(n), NEW j \in 0 .. n - 1
  PROVE  a[j] \in Nat /\ a[j] <= Radix - 1 /\ a[j] \in 0 .. Radix - 1
BY RadixType DEF Limbs

\* The value of the low limbs is below the weight of the next.
LEMMA LimbsValue ==
  ASSUME NEW n \in Nat, NEW a \in Limbs(n), NEW k \in 0 .. n
  PROVE  /\ Value(a, k) \in Nat /\ Value(a, k) < Weight(k)
         /\ k < n => Value(a, k + 1) = Value(a, k) + a[k] * Weight(k)
<1>0. \A j \in 0 .. k - 1 : a[j] \in Nat /\ a[j] \in 0 .. Radix - 1
  BY LimbsType
<1>2. k < n => \A j \in 0 .. k : a[j] \in Nat
  BY LimbsType
<1> QED
  BY <1>0, <1>2, ValueType, ValueBound, ValueNext

\* Adding into a limb: what stays and what is carried.
LEMMA CarryInto ==
  ASSUME NEW v \in Nat, NEW w \in Nat, NEW r \in Nat, NEW x \in Nat, r > 0
  PROVE  /\ x % r \in 0 .. r - 1 /\ x \div r \in Nat
         /\ (v + (x % r) * w) + (x \div r) * (r * w) = v + x * w
<1>0. PICK q \in Int : q = x \div r
  OBVIOUS
<1>2. PICK e \in 0 .. r - 1 : e = x % r
  OBVIOUS
<1>3. x = r * q + e
  BY <1>0, <1>2
<1>4. q >= 0
  BY <1>3
<1>5. (v + e * w) + q * (r * w) = v + (r * q + e) * w
  OBVIOUS
<1> QED
  BY <1>0, <1>2, <1>3, <1>4, <1>5

AddStates(a, delta) ==
  [k \in 0 .. MaxLimbs |->
     { s \in [a : Limbs(MaxLimbs), carry : Nat] :
         /\ Value(s.a, k) + s.carry * Weight(k) = Value(a, k) + delta
         /\ \A j \in k .. MaxLimbs - 1 : s.a[j] = a[j] }]

\* primality_limbs_add_u64 adds: the limbs and the carry that is left are the sum.
LEMMA AddU64Exact ==
  ASSUME NEW a \in Limbs(MaxLimbs), NEW delta \in Nat
  PROVE  /\ AddU64(a, delta) \in [a : Limbs(MaxLimbs), carry : Nat]
         /\ Value(AddU64(a, delta).a, MaxLimbs) + AddU64(a, delta).carry * Weight(MaxLimbs)
              = Value(a, MaxLimbs) + delta
<1> DEFINE n == MaxLimbs
           I == AddStates(a, delta)
           S == [a : Limbs(MaxLimbs), carry : Nat]
           step(s, k) == [a     |-> [s.a EXCEPT ![k] = (@ + s.carry) % Radix],
                          carry |-> (s.a[k] + s.carry) \div Radix]
           s0 == [a |-> a, carry |-> delta]
           F == [k \in 0 .. n - 1 |-> [p \in S |-> step(p, k)]]
<1>0. n \in Nat
  BY LimbAssumption
<1>2. \A k \in 0 .. n : I[k] \subseteq S
  BY DEF AddStates
<1>3. s0 \in I[0]
  BY <1>0, ValueZero, WeightZero DEF AddStates
<1>4. ASSUME NEW k \in 0 .. n - 1, NEW p \in I[k] PROVE step(p, k) \in I[k + 1]
  <2> DEFINE b == [p.a EXCEPT ![k] = (@ + p.carry) % Radix]
             c == (p.a[k] + p.carry) \div Radix
  <2>1. /\ p.a \in Limbs(n) /\ p.carry \in Nat
        /\ Value(p.a, k) + p.carry * Weight(k) = Value(a, k) + delta
        /\ \A j \in k .. n - 1 : p.a[j] = a[j]
    <3>1. k \in 0 .. MaxLimbs /\ p \in AddStates(a, delta)[k]
      BY <1>0
    <3> QED
      BY <3>1 DEF AddStates
  <2>2. PICK x \in Nat : x = p.a[k] + p.carry
    BY <1>0, <2>1, LimbsType
  <2>3. PICK r \in Nat : r = Radix /\ r > 0
    BY RadixType
  <2>4. PICK w \in Nat : w = Weight(k)
    BY WeightType
  <2>5. PICK v \in Nat : v = Value(p.a, k)
    BY <1>0, <2>1, LimbsValue
  <2>6. /\ x % r \in 0 .. r - 1 /\ x \div r \in Nat
        /\ (v + (x % r) * w) + (x \div r) * (r * w) = v + x * w
    BY <2>3, CarryInto
  <2>7. b \in Limbs(n) /\ b[k] = x % r /\ c = x \div r
    BY <1>0, <2>1, <2>2, <2>3, <2>6 DEF Limbs
  <2>8. \A j \in 0 .. n - 1 : j # k => b[j] = p.a[j]
    BY <2>1 DEF Limbs
  <2>9. Value(b, k) = v
    <3>1. \A j \in 0 .. k - 1 : p.a[j] \in Nat /\ b[j] = p.a[j]
      BY <1>0, <2>1, <2>8, LimbsType
    <3> HIDE DEF b
    <3> QED
      BY <3>1, <2>5, ValueSame
  <2>10. Value(b, k + 1) = v + (x % r) * w
    <3> HIDE DEF b
    <3> QED
      BY <1>0, <2>4, <2>7, <2>9, LimbsValue
  <2>11. Weight(k + 1) = r * w
    BY <2>3, <2>4, WeightNext
  <2>12. PICK y \in Nat : y = a[k] /\ y = p.a[k]
    BY <1>0, <2>1, LimbsType
  <2>13. PICK u \in Nat : u = Value(a, k)
    BY <1>0, LimbsValue
  <2>14. Value(a, k + 1) = u + y * w
    <3>1. k \in 0 .. n /\ k < n
      BY <1>0
    <3>2. Value(a, k + 1) = Value(a, k) + a[k] * Weight(k)
      BY <1>0, <3>1, LimbsValue
    <3> QED
      BY <2>4, <2>12, <2>13, <3>2
  <2>15. PICK z \in Nat : z = p.carry /\ x = y + z
    BY <2>1, <2>2, <2>12
  <2>16. v + z * w = u + delta
    BY <2>1, <2>4, <2>5, <2>13, <2>15
  <2>17. v + (y + z) * w = (u + y * w) + delta
    <3>1. (y + z) * w = y * w + z * w
      OBVIOUS
    <3> QED
      BY <2>16, <3>1
  <2>18. Value(b, k + 1) + c * Weight(k + 1) = Value(a, k + 1) + delta
    <3> HIDE DEF b, c
    <3> QED
      BY <2>6, <2>7, <2>10, <2>11, <2>14, <2>15, <2>17
  <2>19. c \in Nat /\ \A j \in k + 1 .. n - 1 : b[j] = a[j]
    BY <2>1, <2>6, <2>7, <2>8
  <2>20. step(p, k) = [a |-> b, carry |-> c]
    OBVIOUS
  <2> HIDE DEF b, c, step
  <2> QED
    BY <1>0, <2>7, <2>18, <2>19, <2>20 DEF AddStates
<1>5. \A k \in 0 .. n - 1 : \A p \in I[k] : /\ F[k][p] = step(p, k)
                                              /\ F[k][p] \in I[k + 1]
                                              /\ Only({ step(q, k) : q \in {p} }) = F[k][p]
  <2>1. \A k \in 0 .. n - 1 : \A p \in S : F[k][p] = step(p, k)
    <3> HIDE DEF step, S
    <3> QED
      OBVIOUS
  <2>2. \A k \in 0 .. n - 1 : \A p : Only({ step(q, k) : q \in {p} }) = step(p, k)
    <3> HIDE DEF step
    <3> QED
      BY DEF Only
  <2> HIDE DEF step, S, F, I
  <2> QED
    BY <1>0, <1>2, <1>4, <2>1, <2>2
<1>6. PICK f : Iterates(f, F, s0, n) /\ Within(f, I, n)
  <2> HIDE DEF F, I, s0, step
  <2> QED
    BY <1>0, <1>3, <1>5, Loop
<1> DEFINE Is(h) == h = [k \in 0 .. n |->
                          IF k = 0 THEN s0 ELSE Only({ step(p, k - 1) : p \in {h[k - 1]} })]
           g == CHOOSE h : Is(h)
<1>7. Is(f)
  <2>1. \A k \in 1 .. n : F[k - 1][f[k - 1]] = Only({ step(p, k - 1) : p \in {f[k - 1]} })
    <3>1. SUFFICES ASSUME NEW k \in 1 .. n
                   PROVE  F[k - 1][f[k - 1]] = Only({ step(p, k - 1) : p \in {f[k - 1]} })
      OBVIOUS
    <3>2. k - 1 \in 0 .. n - 1 /\ k - 1 \in 0 .. n
      BY <1>0
    <3> HIDE DEF step, I, F
    <3> QED
      BY <1>5, <1>6, <3>2 DEF Within
  <2>2. \A k \in 0 .. n : (IF k = 0 THEN s0 ELSE F[k - 1][f[k - 1]])
                         = IF k = 0 THEN s0 ELSE Only({ step(p, k - 1) : p \in {f[k - 1]} })
    <3> HIDE DEF step, F, s0, I, S
    <3> QED
      BY <1>0, <2>1
  <2> HIDE DEF step, F, s0, I, S
  <2> QED
    BY <1>6, <2>2 DEF Iterates
<1>8. Is(g)
  <2> HIDE DEF Is
  <2> QED
    BY <1>7
<1>9. g[0] = s0 /\ \A k \in 0 .. n - 1 : g[k + 1] = Only({ step(p, k) : p \in {g[k]} })
  <2> HIDE DEF step, g, s0
  <2>1. g[0] = s0
    BY <1>0, <1>8
  <2>2. ASSUME NEW k \in 0 .. n - 1 PROVE g[k + 1] = Only({ step(p, k) : p \in {g[k]} })
    <3>1. k + 1 \in 0 .. n /\ k + 1 # 0 /\ (k + 1) - 1 = k
      BY <1>0
    <3> QED
      BY <1>8, <3>1
  <2> QED
    BY <2>1, <2>2
<1>10. \A k \in 0 .. n - 1 : g[k] \in I[k] => g[k + 1] = F[k][g[k]]
  <2> HIDE DEF step, g, I, F
  <2> QED
    BY <1>5, <1>9
<1>11. g[n] \in I[n]
  <2>1. \A k \in 0 .. n - 1 : \A p \in I[k] : F[k][p] \in I[k + 1]
    <3> HIDE DEF step, g, I, F, s0
    <3> QED
      BY <1>5
  <2>2. g[0] = s0
    <3> HIDE DEF step, g, I, F, s0
    <3> QED
      BY <1>9
  <2> HIDE DEF step, g, I, F, s0
  <2> QED
    BY <1>0, <1>3, <1>10, <2>1, <2>2, LoopEnds
<1>12. AddU64(a, delta) \in I[n]
  <2>1. AddU64(a, delta) = g[n]
    BY DEF AddU64, Accumulate
  <2> QED
    BY <1>11, <2>1
<1> QED
  BY <1>0, <1>12 DEF AddStates

\* Quotient and rest are determined.
LEMMA DivisionIs ==
  ASSUME NEW x \in Nat, NEW w \in Nat, NEW q \in Nat, NEW e \in Nat, x = w * q + e, e < w
  PROVE  x \div w = q /\ x % w = e
<1>1. w > 0
  OBVIOUS
<1>2. PICK d \in Int : d = x \div w
  BY <1>1
<1>3. PICK f \in 0 .. w - 1 : f = x % w
  BY <1>1
<1>4. x = w * d + f
  BY <1>1, <1>2, <1>3
<1>5. w * (q - d) = f - e
  BY <1>4
<1>6. q - d = 0
  <2>1. ASSUME q - d >= 1 PROVE FALSE
    <3>1. w * (q - d) >= w
      BY <2>1
    <3> QED
      BY <3>1, <1>5
  <2>2. ASSUME q - d <= -1 PROVE FALSE
    <3>1. w * (d - q) >= w
      BY <2>2
    <3>2. w * (d - q) = e - f
      BY <1>5
    <3> QED
      BY <3>1, <3>2
  <2> QED
    BY <2>1, <2>2
<1>7. q = d
  BY <1>6
<1>8. e = f
  BY <1>5, <1>7
<1> QED
  BY <1>2, <1>3, <1>7, <1>8

\* Division with rest.
LEMMA Rest ==
  ASSUME NEW x \in Nat, NEW w \in Nat, w > 0
  PROVE  /\ x \div w \in Nat /\ x % w \in Nat /\ x % w < w
         /\ x = w * (x \div w) + (x % w)
<1>1. PICK q \in Int : q = x \div w
  OBVIOUS
<1>2. PICK e \in 0 .. w - 1 : e = x % w
  OBVIOUS
<1>3. x = w * q + e
  BY <1>1, <1>2
<1>4. q >= 0
  <2>1. ASSUME q <= -1 PROVE FALSE
    <3>1. w * q <= w * (-1)
      BY <2>1
    <3> QED
      BY <3>1, <1>3
  <2> QED
    BY <2>1
<1> QED
  BY <1>1, <1>2, <1>3, <1>4

\* The number whose low k limbs are cut off, limb by limb.
LEMMA RestNext ==
  ASSUME NEW x \in Nat, NEW w \in Nat, NEW r \in Nat, w > 0, r > 0
  PROVE  /\ x % (r * w) = (x % w) + ((x \div w) % r) * w
         /\ x \div (r * w) = (x \div w) \div r
<1>1. PICK q \in Nat : q = x \div w
  BY Rest
<1>2. PICK e \in Nat : e = x % w /\ e < w
  BY Rest
<1>3. x = w * q + e
  BY <1>1, <1>2, Rest
<1>4. PICK u \in Nat : u = q \div r
  BY Rest
<1>5. PICK v \in Nat : v = q % r /\ v < r
  BY Rest
<1>6. q = r * u + v
  BY <1>4, <1>5, Rest
<1>7. x = (r * w) * u + (e + v * w)
  <2>1. w * (r * u + v) + e = (r * w) * u + (e + v * w)
    OBVIOUS
  <2> QED
    BY <1>3, <1>6, <2>1
<1>8. e + v * w < r * w
  <2>1. v * w <= (r - 1) * w
    BY <1>5
  <2>2. (r - 1) * w = r * w - w
    OBVIOUS
  <2> QED
    BY <1>2, <2>1, <2>2
<1>9. PICK m \in Nat : m = r * w
  OBVIOUS
<1>10. PICK f \in Nat : f = e + v * w
  OBVIOUS
<1>11. x \div m = u /\ x % m = f
  BY <1>7, <1>8, <1>9, <1>10, DivisionIs
<1> QED
  BY <1>1, <1>2, <1>4, <1>5, <1>9, <1>10, <1>11

\* The limbs above the first k.
LEMMA ValueHigh ==
  ASSUME NEW n \in Nat, NEW a \in Limbs(n), NEW k \in 0 .. n
  PROVE  \E z \in Nat : Value(a, n) = Value(a, k) + Weight(k) * z
<1> DEFINE G == { d \in 0 .. n - k : \E z \in Nat : Value(a, k + d) = Value(a, k) + Weight(k) * z }
<1>1. 0 \in G
  <2>1. PICK v \in Nat : v = Value(a, k)
    BY LimbsValue
  <2>2. PICK w \in Nat : w = Weight(k)
    BY WeightType
  <2>3. v = v + w * 0 /\ k + 0 = k
    OBVIOUS
  <2>4. Value(a, k + 0) = Value(a, k) + Weight(k) * 0
    BY <2>1, <2>2, <2>3
  <2> QED
    BY <2>4
<1>2. ASSUME NEW d \in 0 .. n - k - 1, d \in G PROVE d + 1 \in G
  <2>1. PICK z \in Nat : Value(a, k + d) = Value(a, k) + Weight(k) * z
    BY <1>2
  <2>2. k + d \in 0 .. n /\ k + d < n
    OBVIOUS
  <2>3. Value(a, (k + d) + 1) = Value(a, k + d) + a[k + d] * Weight(k + d)
    BY <2>2, LimbsValue
  <2>4. Weight(k + d) = Weight(k) * 2^(LimbBits * d)
    <3>1. PICK l \in Nat : l = LimbBits
      BY LimbAssumption
    <3>2. l * (k + d) = l * k + l * d /\ l * k \in Nat /\ l * d \in Nat
      BY <3>1
    <3>3. 2^(l * k + l * d) = 2^(l * k) * 2^(l * d)
      BY <3>2, PowerSum
    <3> QED
      BY <3>1, <3>2, <3>3 DEF Weight
  <2>5. PICK p \in Nat : p = 2^(LimbBits * d)
    <3>1. LimbBits * d \in Nat
      BY LimbAssumption
    <3> QED
      BY <3>1, PowerType
  <2>6. PICK x \in Nat : x = a[k + d]
    BY <2>2, LimbsType
  <2>7. PICK w \in Nat : w = Weight(k)
    BY WeightType
  <2>8. PICK v \in Nat : v = Value(a, k)
    BY LimbsValue
  <2>9. Value(a, (k + d) + 1) = (v + w * z) + x * (w * p)
    BY <2>1, <2>3, <2>4, <2>5, <2>6, <2>7, <2>8
  <2>10. (v + w * z) + x * (w * p) = v + w * (z + x * p) /\ z + x * p \in Nat
    OBVIOUS
  <2>11. k + (d + 1) = (k + d) + 1
    OBVIOUS
  <2>12. PICK y \in Nat : y = z + x * p
    OBVIOUS
  <2>13. Value(a, k + (d + 1)) = Value(a, k) + Weight(k) * y
    BY <2>7, <2>8, <2>9, <2>10, <2>11, <2>12
  <2>14. d + 1 \in 0 .. n - k
    OBVIOUS
  <2> QED
    BY <2>13, <2>14
<1>3. n - k \in G
  <2>1. n - k \in Nat
    OBVIOUS
  <2>2. PICK m \in Nat : m = n - k
    BY <2>1
  <2> HIDE DEF G
  <2>3. \A d \in 0 .. m - 1 : d \in G => d + 1 \in G
    BY <1>2, <2>2
  <2> QED
    BY <1>1, <2>2, <2>3, Induction
<1>4. k + (n - k) = n
  OBVIOUS
<1> QED
  BY <1>3, <1>4

\* A limb from the number.
LEMMA LimbAt ==
  ASSUME NEW n \in Nat, NEW a \in Limbs(n), NEW k \in 0 .. n - 1
  PROVE  a[k] = (Value(a, n) \div Weight(k)) % Radix
<1>1. PICK m \in 0 .. n : m = k + 1
  OBVIOUS
<1>2. PICK z \in Nat : Value(a, n) = Value(a, m) + Weight(m) * z
  BY ValueHigh
<1>3. PICK v \in Nat : v = Value(a, k) /\ v < Weight(k)
  BY LimbsValue
<1>4. PICK w \in Nat : w = Weight(k) /\ w > 0
  BY WeightType
<1>5. PICK r \in Nat : r = Radix /\ r > 0
  BY RadixType
<1>6. PICK x \in Nat : x = a[k] /\ x < r
  <2>1. a[k] \in Nat /\ a[k] <= Radix - 1
    BY LimbsType
  <2> QED
    BY <1>5, <2>1
<1>7. Value(a, m) = v + x * w
  <2>1. k \in 0 .. n /\ k < n
    OBVIOUS
  <2>2. Value(a, k + 1) = Value(a, k) + a[k] * Weight(k)
    BY <2>1, LimbsValue
  <2> QED
    BY <1>1, <1>3, <1>4, <1>6, <2>2
<1>8. Weight(m) = r * w
  <2>1. k \in Nat
    OBVIOUS
  <2> QED
    BY <1>1, <1>4, <1>5, <2>1, WeightNext
<1>9. Value(a, n) = (v + x * w) + (r * w) * z
  BY <1>2, <1>7, <1>8
<1>10. (v + x * w) + (r * w) * z = w * (r * z + x) + v
  OBVIOUS
<1>11. PICK y \in Nat : y = r * z + x
  OBVIOUS
<1>12. PICK t \in Nat : t = w * y + v /\ t = Value(a, n)
  BY <1>9, <1>10, <1>11
<1>13. t \div w = y
  BY <1>3, <1>4, <1>12, DivisionIs
<1>14. y % r = x
  BY <1>6, <1>11, DivisionIs
<1> QED
  BY <1>4, <1>5, <1>6, <1>12, <1>13, <1>14

\* Two numbers with the same limbs are one.
LEMMA LimbsEqual ==
  ASSUME NEW n \in Nat, NEW a \in Limbs(n), NEW b \in Limbs(n), Value(a, n) = Value(b, n)
  PROVE  a = b
<1>1. \A k \in 0 .. n - 1 : a[k] = b[k]
  BY LimbAt
<1> QED
  BY <1>1 DEF Limbs

\* The export of a number has limbs.
LEMMA ExportType ==
  ASSUME NEW x \in Nat
  PROVE  Export(x) \in Limbs(MaxLimbs)
<1>1. MaxLimbs \in Nat
  BY LimbAssumption
<1>2. \A k \in 0 .. MaxLimbs - 1 : (x \div Weight(k)) % Radix \in 0 .. Radix - 1
  <2>1. SUFFICES ASSUME NEW k \in 0 .. MaxLimbs - 1
                 PROVE  (x \div Weight(k)) % Radix \in 0 .. Radix - 1
    OBVIOUS
  <2>2. k \in Nat
    BY <1>1
  <2>3. PICK w \in Nat : w = Weight(k) /\ w > 0
    BY <2>2, WeightType
  <2>4. PICK q \in Nat : q = x \div w
    BY <2>3, Rest
  <2>5. PICK r \in Nat : r = Radix /\ r > 0
    BY RadixType
  <2>6. q % r \in Nat /\ q % r < r
    BY <2>5, Rest
  <2> QED
    BY <2>3, <2>4, <2>5, <2>6
<1> QED
  BY <1>2 DEF Export, Limbs, Weight

\* The low limbs of the export of a number are worth its rest.
LEMMA ExportValue ==
  ASSUME NEW x \in Nat, NEW n \in 0 .. MaxLimbs
  PROVE  Value(Export(x), n) = x % Weight(n)
<1> DEFINE a == Export(x)
           G == { k \in 0 .. n : Value(a, k) = x % Weight(k) }
<1>0. MaxLimbs \in Nat /\ n \in Nat /\ a \in Limbs(MaxLimbs)
  BY LimbAssumption, ExportType
<1>1. 0 \in G
  BY <1>0, ValueZero, WeightZero
<1>2. ASSUME NEW k \in 0 .. n - 1, k \in G PROVE k + 1 \in G
  <2>1. k \in 0 .. MaxLimbs /\ k < MaxLimbs /\ k \in Nat
    BY <1>0
  <2>2. Value(a, k + 1) = Value(a, k) + a[k] * Weight(k)
    <3> HIDE DEF a
    <3> QED
      BY <1>0, <2>1, LimbsValue
  <2>3. PICK w \in Nat : w = Weight(k) /\ w > 0
    BY <2>1, WeightType
  <2>4. PICK r \in Nat : r = Radix /\ r > 0
    BY RadixType
  <2>5. a[k] = (x \div w) % r
    <3>1. k \in 0 .. MaxLimbs - 1
      BY <1>0
    <3>2. a[k] = (x \div Weight(k)) % Radix
      BY <3>1 DEF Export, Weight
    <3> QED
      BY <2>3, <2>4, <3>2
  <2>6. Weight(k + 1) = r * w
    BY <2>1, <2>3, <2>4, WeightNext
  <2>7. x % (r * w) = (x % w) + ((x \div w) % r) * w
    BY <2>3, <2>4, RestNext
  <2>8. Value(a, k) = x % w
    BY <1>2, <2>3
  <2>9. Value(a, k + 1) = x % Weight(k + 1)
    <3> HIDE DEF a
    <3> QED
      BY <2>2, <2>3, <2>5, <2>6, <2>7, <2>8
  <2> QED
    BY <2>9
<1> HIDE DEF G
<1>3. n \in G
  BY <1>0, <1>1, <1>2, Induction
<1> QED
  BY <1>3 DEF G

\* A number fits when it is below the weight of the limb beyond; then its export is worth it.
LEMMA FitsWeight ==
  ASSUME NEW x \in Nat
  PROVE  /\ Fits(x) <=> x < Weight(MaxLimbs)
         /\ Fits(x) => Value(Export(x), MaxLimbs) = x
<1>1. MaxLimbs \in Nat /\ MaxLimbs \in 0 .. MaxLimbs
  BY LimbAssumption
<1>2. PICK w \in Nat : w = Weight(MaxLimbs) /\ w > 0
  BY <1>1, WeightType
<1>3. Fits(x) <=> x < w
  BY <1>2 DEF Fits, Weight
<1>4. x < w => x % w = x
  <2>1. x = w * 0 + x
    OBVIOUS
  <2> QED
    BY <2>1, DivisionIs
<1>5. Value(Export(x), MaxLimbs) = x % w
  BY <1>1, <1>2, ExportValue
<1> QED
  BY <1>2, <1>3, <1>4, <1>5

\* The limbs of x, advanced by d, are those of x + d, or a carry is left and x + d is too
\* wide (primality_limbs_add_u64).
THEOREM Advanced ==
  ASSUME NEW x \in Nat, NEW d \in Nat, Fits(x)
  PROVE  /\ AddU64(Export(x), d).carry = 0 <=> Fits(x + d)
         /\ Fits(x + d) => AddU64(Export(x), d).a = Export(x + d)
<1> DEFINE s == AddU64(Export(x), d)
           n == MaxLimbs
<1>1. n \in Nat /\ Export(x) \in Limbs(n) /\ Export(x + d) \in Limbs(n)
  BY LimbAssumption, ExportType
<1>2. s \in [a : Limbs(n), carry : Nat] /\ Value(s.a, n) + s.carry * Weight(n) = Value(Export(x), n) + d
  BY <1>1, AddU64Exact
<1>3. Value(Export(x), n) = x
  BY FitsWeight
<1> HIDE DEF s
<1>4. PICK w \in Nat : w = Weight(n) /\ w > 0
  BY <1>1, WeightType
<1>5. PICK v \in Nat : v = Value(s.a, n) /\ v < w
  <2>1. n \in 0 .. n /\ s.a \in Limbs(n)
    BY <1>1, <1>2
  <2> QED
    BY <1>1, <1>4, <2>1, LimbsValue
<1>6. PICK c \in Nat : c = s.carry
  BY <1>2
<1>7. v + c * w = x + d
  BY <1>2, <1>3, <1>4, <1>5, <1>6
<1>8. Fits(x + d) <=> x + d < w
  BY <1>4, FitsWeight
<1>9. c # 0 => c * w >= w
  BY <1>4
<1>10. c = 0 => c * w = 0
  OBVIOUS
<1>11. c = 0 <=> x + d < w
  BY <1>5, <1>7, <1>9, <1>10
<1>12. ASSUME Fits(x + d) PROVE s.a = Export(x + d)
  <2>1. v = x + d
    BY <1>7, <1>8, <1>10, <1>11, <1>12
  <2>2. Value(Export(x + d), n) = x + d
    BY <1>12, FitsWeight
  <2> QED
    BY <1>1, <1>2, <1>5, <2>1, <2>2, LimbsEqual
<1> QED
  BY <1>6, <1>8, <1>11, <1>12 DEF s

-----------------------------------------------------------------------------
(* Comparison, subtraction and doubling                                     *)

\* The greatest element of a set.
LEMMA GreatestOnly ==
  ASSUME NEW S, NEW m \in S, S \subseteq Nat, \A y \in S : m >= y
  PROVE  Greatest(S) = m
<1>1. \E x \in S : \A y \in S : x >= y
  OBVIOUS
<1>2. Greatest(S) \in S /\ \A y \in S : Greatest(S) >= y
  BY <1>1 DEF Greatest
<1>3. Greatest(S) >= m /\ m >= Greatest(S)
  BY <1>2
<1>4. PICK x \in Nat : x = Greatest(S)
  BY <1>2
<1> QED
  BY <1>3, <1>4

\* A bounded set has a greatest element.
LEMMA GreatestIn ==
  ASSUME NEW n \in Nat, NEW S, S \subseteq 0 .. n, S # {}
  PROVE  \E m \in S : \A y \in S : m >= y
<1> DEFINE T == { n - k : k \in S }
<1>1. T \subseteq Nat /\ T # {}
  <2>1. \A k \in S : n - k \in Nat
    OBVIOUS
  <2> QED
    BY <2>1
<1>2. PICK t \in T : \A y \in T : t <= y
  <2> HIDE DEF T
  <2> QED
    BY <1>1, SmallestIn
<1>3. PICK m \in S : t = n - m
  OBVIOUS
<1>4. ASSUME NEW y \in S PROVE m >= y
  <2>1. n - y \in T
    OBVIOUS
  <2>2. t <= n - y
    BY <1>2, <2>1
  <2> QED
    BY <1>3, <2>2
<1> QED
  BY <1>4

\* The first n limbs of a.
HasLimbs(a, n) == \A j \in 0 .. n - 1 : a[j] \in 0 .. Radix - 1

\* The value of the low limbs, for an array that may be longer.
LEMMA HasLimbsValue ==
  ASSUME NEW n \in Nat, NEW a, HasLimbs(a, n), NEW k \in 0 .. n
  PROVE  /\ Value(a, k) \in Nat /\ Value(a, k) < Weight(k)
         /\ k < n => Value(a, k + 1) = Value(a, k) + a[k] * Weight(k)
         /\ k < n => a[k] \in Nat /\ a[k] < Radix
<1>1. \A j \in 0 .. k - 1 : a[j] \in Nat /\ a[j] \in 0 .. Radix - 1
  BY RadixType DEF HasLimbs
<1>2. k < n => \A j \in 0 .. k : a[j] \in Nat
  BY RadixType DEF HasLimbs
<1>3. k < n => a[k] \in Nat /\ a[k] < Radix
  BY RadixType DEF HasLimbs
<1> QED
  BY <1>1, <1>2, <1>3, ValueType, ValueBound, ValueNext

\* What two numbers of the same limbs differ by at the highest different limb.
LEMMA Compared ==
  ASSUME NEW n \in Nat, NEW a, NEW b, HasLimbs(a, n), HasLimbs(b, n),
         NEW m \in 0 .. n - 1, \A j \in m + 1 .. n - 1 : a[j] = b[j], a[m] > b[m]
  PROVE  Value(a, n) > Value(b, n)
<1> DEFINE G == { d \in 0 .. n - (m + 1) : Value(a, (m + 1) + d) > Value(b, (m + 1) + d) }
<1>1. 0 \in G
  <2>1. m \in 0 .. n /\ m < n /\ m \in Nat
    OBVIOUS
  <2>2. /\ Value(a, m + 1) = Value(a, m) + a[m] * Weight(m)
        /\ Value(b, m + 1) = Value(b, m) + b[m] * Weight(m)
    BY <2>1, HasLimbsValue
  <2>3. PICK v \in Nat : v = Value(a, m)
    BY <2>1, HasLimbsValue
  <2>4. PICK u \in Nat : u = Value(b, m) /\ u < Weight(m)
    BY <2>1, HasLimbsValue
  <2>5. PICK w \in Nat : w = Weight(m)
    BY <2>1, WeightType
  <2>6. PICK x \in Nat : x = a[m]
    BY <2>1, HasLimbsValue
  <2>7. PICK y \in Nat : y = b[m]
    BY <2>1, HasLimbsValue
  <2>8. x * w >= (y + 1) * w
    BY <2>6, <2>7
  <2>9. (y + 1) * w = y * w + w
    OBVIOUS
  <2>10. v + x * w > u + y * w
    BY <2>4, <2>5, <2>8, <2>9
  <2>11. Value(a, m + 1) > Value(b, m + 1)
    BY <2>2, <2>3, <2>4, <2>5, <2>6, <2>7, <2>10
  <2>12. (m + 1) + 0 = m + 1 /\ 0 \in 0 .. n - (m + 1)
    OBVIOUS
  <2> QED
    BY <2>11, <2>12
<1>2. ASSUME NEW d \in 0 .. n - (m + 1) - 1, d \in G PROVE d + 1 \in G
  <2>1. PICK k \in 0 .. n : k = (m + 1) + d /\ k < n /\ k \in m + 1 .. n - 1 /\ k \in Nat
    OBVIOUS
  <2>2. Value(a, k) > Value(b, k)
    BY <1>2, <2>1
  <2>3. /\ Value(a, k + 1) = Value(a, k) + a[k] * Weight(k)
        /\ Value(b, k + 1) = Value(b, k) + b[k] * Weight(k)
    BY <2>1, HasLimbsValue
  <2>4. PICK v \in Nat : v = Value(a, k)
    BY <2>1, HasLimbsValue
  <2>5. PICK u \in Nat : u = Value(b, k)
    BY <2>1, HasLimbsValue
  <2>6. PICK z \in Nat : z = a[k] * Weight(k) /\ z = b[k] * Weight(k)
    <3>1. a[k] = b[k] /\ a[k] \in Nat /\ Weight(k) \in Nat
      BY <2>1, HasLimbsValue, WeightType
    <3> QED
      BY <3>1
  <2>7. Value(a, k + 1) > Value(b, k + 1)
    BY <2>2, <2>3, <2>4, <2>5, <2>6
  <2>8. k + 1 = (m + 1) + (d + 1) /\ d + 1 \in 0 .. n - (m + 1)
    BY <2>1
  <2> QED
    BY <2>7, <2>8
<1>3. n - (m + 1) \in G
  <2>1. PICK e \in Nat : e = n - (m + 1)
    OBVIOUS
  <2> HIDE DEF G
  <2>2. \A d \in 0 .. e - 1 : d \in G => d + 1 \in G
    BY <1>2, <2>1
  <2> QED
    BY <1>1, <2>1, <2>2, Induction
<1>4. (m + 1) + (n - (m + 1)) = n
  OBVIOUS
<1> QED
  BY <1>3, <1>4

\* gte compares values.
LEMMA GteValue ==
  ASSUME NEW n \in Nat, NEW a, NEW b, HasLimbs(a, n), HasLimbs(b, n)
  PROVE  Gte(a, b, n) <=> Value(a, n) >= Value(b, n)
<1> DEFINE D == Differ(a, b, n)
<1>0. /\ Value(a, n) \in Nat /\ Value(b, n) \in Nat
      /\ \A k \in 0 .. n - 1 : a[k] \in Nat /\ b[k] \in Nat
  BY HasLimbsValue
<1>1. CASE D = {}
  <2>1. \A k \in 0 .. n - 1 : a[k] = b[k]
    BY <1>1 DEF Differ
  <2>2. Value(b, n) = Value(a, n)
    BY <1>0, <2>1, ValueSame
  <2> QED
    BY <1>0, <1>1, <2>2 DEF Gte
<1>2. CASE D # {}
  <2>1. D \subseteq 0 .. n
    BY DEF Differ
  <2>2. PICK m \in D : \A y \in D : m >= y
    <3> HIDE DEF D
    <3> QED
      BY <1>2, <2>1, GreatestIn
  <2>3. Greatest(D) = m
    <3> HIDE DEF D
    <3>1. D \subseteq Nat
      BY <2>1
    <3> QED
      BY <2>2, <3>1, GreatestOnly
  <2>4. m \in 0 .. n - 1 /\ a[m] # b[m]
    BY DEF Differ
  <2>5. \A j \in m + 1 .. n - 1 : a[j] = b[j]
    <3>1. SUFFICES ASSUME NEW j \in m + 1 .. n - 1, a[j] # b[j] PROVE FALSE
      OBVIOUS
    <3>2. j \in D
      BY <2>4, <3>1 DEF Differ
    <3> QED
      BY <2>2, <2>4, <3>2
  <2>6. Gte(a, b, n) <=> a[m] > b[m]
    BY <1>2, <2>3 DEF Gte
  <2>7. a[m] > b[m] => Value(a, n) > Value(b, n)
    BY <2>4, <2>5, Compared
  <2>8. b[m] > a[m] => Value(b, n) > Value(a, n)
    BY <2>4, <2>5, Compared
  <2>9. a[m] > b[m] \/ b[m] > a[m]
    BY <1>0, <2>4
  <2> QED
    BY <1>0, <2>6, <2>7, <2>8, <2>9
<1> QED
  BY <1>1, <1>2

\* An element of a sequence.
LEMMA SeqAt ==
  ASSUME NEW S, NEW q \in Seq(S), NEW j \in 1 .. Len(q)
  PROVE  q[j] \in S
OBVIOUS

\* A subtraction with a borrow, of one limb.
LEMMA BorrowFrom ==
  ASSUME NEW x \in Nat, NEW y \in Nat, NEW c \in {0, 1}, NEW r \in Nat, x < r, y < r
  PROVE  /\ (x - y - c) % r \in 0 .. r - 1
         /\ (x - y - c) % r = (x - y - c) + (IF x < y + c THEN r ELSE 0)
<1>1. CASE x < y + c
  <2>1. PICK z \in Nat : z = (x - y - c) + r
    BY <1>1
  <2>2. z < r
    BY <1>1, <2>1
  <2>3. z % r = z
    <3>1. z = r * 0 + z
      OBVIOUS
    <3> QED
      BY <2>2, <3>1, DivisionIs
  <2>4. (x - y - c) % r = z
    BY <2>1, <2>2
  <2> QED
    BY <1>1, <2>1, <2>2, <2>4
<1>2. CASE ~(x < y + c)
  <2>1. PICK z \in Nat : z = x - y - c
    BY <1>2
  <2>2. z < r
    BY <2>1
  <2>3. z % r = z
    <3>1. z = r * 0 + z
      OBVIOUS
    <3> QED
      BY <2>2, <3>1, DivisionIs
  <2> QED
    BY <1>2, <2>1, <2>2, <2>3
<1> QED
  BY <1>1, <1>2

\* The limbs that a sequence holds.
Taken(s, k) == [j \in 0 .. k - 1 |-> s[j + 1]]

SubStates(a, b, n) ==
  [k \in 0 .. n |->
     { s \in [r : Seq(0 .. Radix - 1), borrow : {0, 1}] :
         /\ Len(s.r) = k
         /\ Value(Taken(s.r, k), k) + Value(b, k) = Value(a, k) + s.borrow * Weight(k) }]

\* sub_limbs subtracts, but for a borrow out of the highest limb.
LEMMA SubLimbsValue ==
  ASSUME NEW n \in Nat, NEW a, NEW b, HasLimbs(a, n), HasLimbs(b, n)
  PROVE  /\ SubLimbs(a, b, n) \in Limbs(n)
         /\ \E c \in {0, 1} : Value(SubLimbs(a, b, n), n) + Value(b, n) = Value(a, n) + c * Weight(n)
<1> DEFINE I == SubStates(a, b, n)
           S == [r : Seq(0 .. Radix - 1), borrow : {0, 1}]
           step(s, k) == [r |-> Append(s.r, (a[k] - b[k] - s.borrow) % Radix),
                          borrow |-> IF a[k] < b[k] + s.borrow THEN 1 ELSE 0]
           s0 == [r |-> <<>>, borrow |-> 0]
           F == [k \in 0 .. n - 1 |-> [p \in S |-> step(p, k)]]
<1>0. n \in Nat
  OBVIOUS
<1>2. \A k \in 0 .. n : I[k] \subseteq S
  BY DEF SubStates
<1>3. s0 \in I[0]
  BY <1>0, ValueZero, WeightZero DEF SubStates
<1>4. ASSUME NEW k \in 0 .. n - 1, NEW p \in I[k] PROVE step(p, k) \in I[k + 1]
  <2> DEFINE d == (a[k] - b[k] - p.borrow) % Radix
             q == Append(p.r, d)
             c == IF a[k] < b[k] + p.borrow THEN 1 ELSE 0
  <2>1. /\ p.r \in Seq(0 .. Radix - 1) /\ p.borrow \in {0, 1} /\ Len(p.r) = k
        /\ Value(Taken(p.r, k), k) + Value(b, k) = Value(a, k) + p.borrow * Weight(k)
    <3>1. k \in 0 .. n /\ p \in SubStates(a, b, n)[k]
      BY <1>0
    <3> QED
      BY <3>1 DEF SubStates
  <2>2. k \in 0 .. n /\ k < n /\ k \in Nat
    BY <1>0
  <2>3. PICK x \in Nat : x = a[k] /\ x < Radix
    BY <1>0, <2>2, HasLimbsValue
  <2>4. PICK y \in Nat : y = b[k] /\ y < Radix
    BY <1>0, <2>2, HasLimbsValue
  <2>5. PICK r \in Nat : r = Radix /\ r > 0
    BY RadixType
  <2>6. PICK e \in {0, 1} : e = p.borrow
    BY <2>1
  <2>7. PICK z \in 0 .. r - 1 : z = d /\ z = (x - y - e) + (IF x < y + e THEN r ELSE 0)
    <3>1. x < r /\ y < r
      BY <2>3, <2>4, <2>5
    <3>2. /\ (x - y - e) % r \in 0 .. r - 1
          /\ (x - y - e) % r = (x - y - e) + (IF x < y + e THEN r ELSE 0)
      BY <3>1, BorrowFrom
    <3>3. d = (x - y - e) % r
      BY <2>3, <2>4, <2>5, <2>6
    <3> HIDE DEF d
    <3> QED
      BY <3>2, <3>3
  <2>8. c \in {0, 1} /\ z = (x - y - e) + c * r
    BY <2>3, <2>4, <2>5, <2>6, <2>7
  <2>9. q \in Seq(0 .. Radix - 1) /\ Len(q) = k + 1 /\ q[k + 1] = z
        /\ \A j \in 0 .. k - 1 : q[j + 1] = p.r[j + 1] /\ p.r[j + 1] \in 0 .. Radix - 1
    <3>1. PICK s \in Seq(0 .. Radix - 1) : s = p.r /\ Len(s) = k
      BY <2>1
    <3>2. z \in 0 .. Radix - 1
      <4> HIDE DEF d
      <4> QED
        BY <2>5, <2>7
    <3>3. q = Append(s, z)
      <4>1. d = z
        <5> HIDE DEF d
        <5> QED
          BY <2>7
      <4> HIDE DEF d
      <4> QED
        BY <3>1, <4>1
    <3>4. /\ Append(s, z) \in Seq(0 .. Radix - 1) /\ Len(Append(s, z)) = k + 1
          /\ Append(s, z)[k + 1] = z
          /\ \A j \in 1 .. k : Append(s, z)[j] = s[j]
      BY <3>1, <3>2
    <3>5. \A j \in 1 .. k : s[j] \in 0 .. Radix - 1
      BY <3>1, SeqAt
    <3>6. \A j \in 0 .. k - 1 : j + 1 \in 1 .. k
      BY <2>2
    <3> HIDE DEF q
    <3> QED
      BY <3>1, <3>3, <3>4, <3>5, <3>6
  <2>10. HasLimbs(Taken(q, k + 1), k + 1)
    <3>1. \A j \in 0 .. (k + 1) - 1 : q[j + 1] \in 0 .. Radix - 1
      <4> HIDE DEF q
      <4>1. \A j \in 1 .. Len(q) : q[j] \in 0 .. Radix - 1
        BY <2>9, SeqAt
      <4>2. \A j \in 0 .. (k + 1) - 1 : j + 1 \in 1 .. Len(q)
        BY <2>2, <2>9
      <4> QED
        BY <4>1, <4>2
    <3> HIDE DEF q
    <3> QED
      BY <3>1 DEF HasLimbs, Taken
  <2>11. Value(Taken(q, k + 1), k + 1) = Value(Taken(q, k + 1), k) + Taken(q, k + 1)[k] * Weight(k)
    <3>1. k \in 0 .. k + 1 /\ k < k + 1 /\ k + 1 \in Nat
      BY <2>2
    <3> HIDE DEF q
    <3> QED
      BY <2>10, <3>1, HasLimbsValue
  <2>12. Taken(q, k + 1)[k] = z
    <3>1. k \in 0 .. (k + 1) - 1
      BY <2>2
    <3> HIDE DEF q
    <3> QED
      BY <2>9, <3>1 DEF Taken
  <2>13. Value(Taken(q, k + 1), k) = Value(Taken(p.r, k), k)
    <3>1. \A j \in 0 .. k - 1 : Taken(p.r, k)[j] \in Nat /\ Taken(q, k + 1)[j] = Taken(p.r, k)[j]
      <4>1. SUFFICES ASSUME NEW j \in 0 .. k - 1
                     PROVE  Taken(p.r, k)[j] \in Nat /\ Taken(q, k + 1)[j] = Taken(p.r, k)[j]
        OBVIOUS
      <4>2. j \in 0 .. (k + 1) - 1
        BY <2>2
      <4>3. Taken(p.r, k)[j] = p.r[j + 1]
        BY DEF Taken
      <4>4. Taken(q, k + 1)[j] = q[j + 1]
        BY <4>2 DEF Taken
      <4> HIDE DEF q
      <4> QED
        BY <2>9, <4>3, <4>4, RadixType
    <3> HIDE DEF q
    <3> QED
      BY <2>2, <3>1, ValueSame
  <2>14. PICK w \in Nat : w = Weight(k)
    BY <2>2, WeightType
  <2>15. Weight(k + 1) = r * w
    BY <2>2, <2>5, <2>14, WeightNext
  <2>16. PICK va \in Nat : va = Value(a, k) /\ Value(a, k + 1) = va + x * w
    BY <1>0, <2>2, <2>3, <2>14, HasLimbsValue
  <2>17. PICK vb \in Nat : vb = Value(b, k) /\ Value(b, k + 1) = vb + y * w
    BY <1>0, <2>2, <2>4, <2>14, HasLimbsValue
  <2>18. PICK v \in Nat : v = Value(Taken(q, k + 1), k)
    <3>1. k \in 0 .. k + 1 /\ k + 1 \in Nat
      BY <2>2
    <3> HIDE DEF q
    <3> QED
      BY <2>10, <3>1, HasLimbsValue
  <2>19. v + vb = va + e * w
    BY <2>1, <2>6, <2>13, <2>14, <2>16, <2>17, <2>18
  <2>20. (v + z * w) + (vb + y * w) = (va + x * w) + c * (r * w)
    <3>1. PICK h \in {0, 1} : h = c
      BY <2>8
    <3>2. z = (x - y - e) + h * r
      BY <2>8, <3>1
    <3>3. z * w = ((x * w - y * w) - e * w) + h * (r * w)
      BY <3>2
    <3> HIDE DEF c
    <3> QED
      BY <2>19, <3>1, <3>3
  <2>21. Value(Taken(q, k + 1), k + 1) + Value(b, k + 1) = Value(a, k + 1) + c * Weight(k + 1)
    <3> HIDE DEF c, q
    <3> QED
      BY <2>11, <2>12, <2>14, <2>15, <2>16, <2>17, <2>18, <2>20
  <2>22. step(p, k) = [r |-> q, borrow |-> c] /\ k + 1 \in 0 .. n
    BY <2>2
  <2> HIDE DEF c, q, step
  <2> QED
    BY <2>8, <2>9, <2>21, <2>22 DEF SubStates
<1>5. \A k \in 0 .. n - 1 : \A p \in I[k] : /\ F[k][p] = step(p, k)
                                              /\ F[k][p] \in I[k + 1]
                                              /\ Only({ step(q, k) : q \in {p} }) = F[k][p]
  <2>1. \A k \in 0 .. n - 1 : \A p \in S : F[k][p] = step(p, k)
    <3> HIDE DEF step, S
    <3> QED
      OBVIOUS
  <2>2. \A k \in 0 .. n - 1 : \A p : Only({ step(q, k) : q \in {p} }) = step(p, k)
    <3> HIDE DEF step
    <3> QED
      BY DEF Only
  <2> HIDE DEF step, S, F, I
  <2> QED
    BY <1>0, <1>2, <1>4, <2>1, <2>2
<1>6. PICK f : Iterates(f, F, s0, n) /\ Within(f, I, n)
  <2> HIDE DEF F, I, s0, step
  <2> QED
    BY <1>0, <1>3, <1>5, Loop
<1> DEFINE Is(h) == h = [k \in 0 .. n |->
                          IF k = 0 THEN s0 ELSE Only({ step(p, k - 1) : p \in {h[k - 1]} })]
           g == CHOOSE h : Is(h)
<1>7. Is(f)
  <2>1. \A k \in 1 .. n : F[k - 1][f[k - 1]] = Only({ step(p, k - 1) : p \in {f[k - 1]} })
    <3>1. SUFFICES ASSUME NEW k \in 1 .. n
                   PROVE  F[k - 1][f[k - 1]] = Only({ step(p, k - 1) : p \in {f[k - 1]} })
      OBVIOUS
    <3>2. k - 1 \in 0 .. n - 1 /\ k - 1 \in 0 .. n
      BY <1>0
    <3> HIDE DEF step, I, F
    <3> QED
      BY <1>5, <1>6, <3>2 DEF Within
  <2>2. \A k \in 0 .. n : (IF k = 0 THEN s0 ELSE F[k - 1][f[k - 1]])
                         = IF k = 0 THEN s0 ELSE Only({ step(p, k - 1) : p \in {f[k - 1]} })
    <3> HIDE DEF step, F, s0, I, S
    <3> QED
      BY <1>0, <2>1
  <2> HIDE DEF step, F, s0, I, S
  <2> QED
    BY <1>6, <2>2 DEF Iterates
<1>8. Is(g)
  <2> HIDE DEF Is
  <2> QED
    BY <1>7
<1>9. g[0] = s0 /\ \A k \in 0 .. n - 1 : g[k + 1] = Only({ step(p, k) : p \in {g[k]} })
  <2> HIDE DEF step, g, s0
  <2>1. g[0] = s0
    BY <1>0, <1>8
  <2>2. ASSUME NEW k \in 0 .. n - 1 PROVE g[k + 1] = Only({ step(p, k) : p \in {g[k]} })
    <3>1. k + 1 \in 0 .. n /\ k + 1 # 0 /\ (k + 1) - 1 = k
      BY <1>0
    <3> QED
      BY <1>8, <3>1
  <2> QED
    BY <2>1, <2>2
<1>10. \A k \in 0 .. n - 1 : g[k] \in I[k] => g[k + 1] = F[k][g[k]]
  <2> HIDE DEF step, g, I, F
  <2> QED
    BY <1>5, <1>9
<1>11. g[n] \in I[n]
  <2>1. \A k \in 0 .. n - 1 : \A p \in I[k] : F[k][p] \in I[k + 1]
    <3> HIDE DEF step, g, I, F, s0
    <3> QED
      BY <1>5
  <2>2. g[0] = s0
    <3> HIDE DEF step, g, I, F, s0
    <3> QED
      BY <1>9
  <2> HIDE DEF step, g, I, F, s0
  <2> QED
    BY <1>0, <1>3, <1>10, <2>1, <2>2, LoopEnds
<1>12. Accumulate(step, s0, n) \in I[n]
  <2>1. Accumulate(step, s0, n) = g[n]
    BY DEF Accumulate
  <2> QED
    BY <1>11, <2>1
<1>13. PICK t \in I[n] : t = Accumulate(step, s0, n)
  BY <1>12
<1>14. /\ t.r \in Seq(0 .. Radix - 1) /\ t.borrow \in {0, 1} /\ Len(t.r) = n
       /\ Value(Taken(t.r, n), n) + Value(b, n) = Value(a, n) + t.borrow * Weight(n)
  <2>1. n \in 0 .. n /\ t \in SubStates(a, b, n)[n]
    BY <1>0
  <2> QED
    BY <2>1 DEF SubStates
<1>15. SubLimbs(a, b, n) = Taken(t.r, n)
  BY <1>13 DEF SubLimbs, Taken
<1>16. Taken(t.r, n) \in Limbs(n)
  <2>1. \A j \in 1 .. Len(t.r) : t.r[j] \in 0 .. Radix - 1
    BY <1>14, SeqAt
  <2>2. \A j \in 0 .. n - 1 : j + 1 \in 1 .. Len(t.r)
    BY <1>14
  <2>3. \A j \in 0 .. n - 1 : t.r[j + 1] \in 0 .. Radix - 1
    BY <2>1, <2>2
  <2> QED
    BY <2>3 DEF Limbs, Taken
<1> QED
  BY <1>14, <1>15, <1>16

\* Two numbers below w that differ by a multiple of it.
LEMMA NoMultipleBetween ==
  ASSUME NEW w \in Nat, NEW x \in 0 .. w - 1, NEW y \in 0 .. w - 1, NEW z \in Int, x - y = w * z
  PROVE  x = y /\ z = 0
<1>1. z = 0
  <2>1. ASSUME z >= 1 PROVE FALSE
    <3>1. w * z >= w
      BY <2>1
    <3> QED
      BY <3>1
  <2>2. ASSUME z <= -1 PROVE FALSE
    <3>1. w * (-z) >= w
      BY <2>2
    <3>2. w * (-z) = y - x
      OBVIOUS
    <3> QED
      BY <3>1, <3>2
  <2> QED
    BY <2>1, <2>2
<1> QED
  BY <1>1

\* A number below 2b, of which c is what lies above its n limbs, is brought below b.
Brought(t, c, b, n) == IF c # 0 \/ Gte(t, b, n) THEN SubLimbs(t, b, n) ELSE [k \in 0 .. n - 1 |-> t[k]]

\* It is then below b, and lost b once or not at all.
LEMMA Reduced ==
  ASSUME NEW n \in Nat, NEW t, NEW b, NEW c \in Nat, HasLimbs(t, n), HasLimbs(b, n),
         Value(t, n) + c * Weight(n) < 2 * Value(b, n)
  PROVE  /\ Brought(t, c, b, n) \in Limbs(n)
         /\ Value(Brought(t, c, b, n), n) < Value(b, n)
         /\ \/ Value(Brought(t, c, b, n), n) = Value(t, n) + c * Weight(n)
            \/ Value(Brought(t, c, b, n), n) = (Value(t, n) + c * Weight(n)) - Value(b, n)
<1>0. n \in 0 .. n
  OBVIOUS
<1>1. PICK v \in Nat : v = Value(t, n) /\ v < Weight(n)
  BY <1>0, HasLimbsValue
<1>2. PICK m \in Nat : m = Value(b, n) /\ m < Weight(n)
  BY <1>0, HasLimbsValue
<1>3. PICK w \in Nat : w = Weight(n)
  BY WeightType
<1>4. CASE c # 0 \/ Gte(t, b, n)
  <2>1. Brought(t, c, b, n) = SubLimbs(t, b, n)
    BY <1>4 DEF Brought
  <2>2. PICK s \in Limbs(n) : s = SubLimbs(t, b, n)
    BY SubLimbsValue
  <2>3. PICK d \in {0, 1} : Value(s, n) + Value(b, n) = Value(t, n) + d * Weight(n)
    BY <2>2, SubLimbsValue
  <2>4. PICK u \in Nat : u = Value(s, n) /\ u < Weight(n)
    BY <1>0, <2>2, LimbsValue
  <2>5. v + c * w >= m
    <3>1. CASE c # 0
      <4>1. c * w >= w
        BY <3>1
      <4> QED
        BY <1>1, <1>2, <1>3, <4>1
    <3>2. CASE c = 0
      <4>1. v >= m
        BY <1>1, <1>2, <1>4, <3>2, GteValue
      <4> QED
        BY <3>2, <4>1
    <3> QED
      BY <3>1, <3>2
  <2>6. v + c * w < 2 * m
    BY <1>1, <1>2, <1>3
  <2>7. PICK y \in 0 .. w - 1 : y = (v + c * w) - m
    BY <1>2, <1>3, <2>5, <2>6
  <2>8. u - y = w * (d - c)
    <3>1. u + m = v + d * w
      BY <1>1, <1>2, <1>3, <2>3, <2>4
    <3>2. w * (d - c) = d * w - c * w
      OBVIOUS
    <3> QED
      BY <2>7, <3>1, <3>2
  <2>9. u = y
    <3>1. u \in 0 .. w - 1 /\ d - c \in Int
      BY <1>3, <2>4
    <3> QED
      BY <2>8, <3>1, NoMultipleBetween
  <2>10. y < m
    BY <2>6, <2>7
  <2> QED
    BY <1>1, <1>2, <1>3, <2>1, <2>2, <2>4, <2>7, <2>9, <2>10
<1>5. CASE c = 0 /\ ~Gte(t, b, n)
  <2>1. Brought(t, c, b, n) = [k \in 0 .. n - 1 |-> t[k]]
    BY <1>5 DEF Brought
  <2>2. PICK s : s = [k \in 0 .. n - 1 |-> t[k]]
    OBVIOUS
  <2>3. s \in Limbs(n)
    BY <2>2 DEF Limbs, HasLimbs
  <2>4. \A j \in 0 .. n - 1 : t[j] \in Nat /\ s[j] = t[j]
    BY <2>2, RadixType DEF HasLimbs
  <2>5. Value(s, n) = v
    BY <1>1, <2>4, ValueSame
  <2>6. v < m
    BY <1>1, <1>2, <1>5, GteValue
  <2>7. c * w = 0
    BY <1>5
  <2> QED
    BY <1>1, <1>2, <1>3, <2>1, <2>2, <2>3, <2>5, <2>6, <2>7
<1> QED
  BY <1>4, <1>5

\* Half a limb's range.
LEMMA HalfRadix ==
  /\ 2^(LimbBits - 1) \in Nat /\ 2^(LimbBits - 1) > 0
  /\ Radix = 2 * 2^(LimbBits - 1)
<1>1. LimbBits - 1 \in Nat /\ LimbBits = (LimbBits - 1) + 1
  BY LimbAssumption
<1>2. PICK l \in Nat : l = LimbBits - 1
  BY <1>1
<1>3. 2^(l + 1) = 2 * 2^l /\ 2^l \in Nat /\ 2^l > 0
  BY PowerNext, PowerType
<1> QED
  BY <1>1, <1>2, <1>3 DEF Radix

Twice(a, n) ==
  [k \in 0 .. n - 1 |->
     (2 * a[k] + (IF k = 0 THEN 0 ELSE a[k - 1] \div 2^(LimbBits - 1))) % Radix]
ShiftedOut(a, k) == IF k = 0 THEN 0 ELSE a[k - 1] \div 2^(LimbBits - 1)

\* Twice a number is its limbs shifted, and the bit shifted out.
LEMMA TwiceValue ==
  ASSUME NEW n \in Nat, NEW a, HasLimbs(a, n)
  PROVE  /\ Twice(a, n) \in Limbs(n)
         /\ ShiftedOut(a, n) \in {0, 1}
         /\ Value(Twice(a, n), n) + ShiftedOut(a, n) * Weight(n) = 2 * Value(a, n)
<1>1. PICK h \in Nat : h = 2^(LimbBits - 1) /\ h > 0 /\ Radix = 2 * h
  BY HalfRadix
<1>2. PICK r \in Nat : r = Radix /\ r = 2 * h
  BY <1>1, RadixType
<1>3. \A k \in 0 .. n : ShiftedOut(a, k) \in {0, 1}
  <2>1. SUFFICES ASSUME NEW k \in 0 .. n, k # 0 PROVE a[k - 1] \div h \in {0, 1}
    BY <1>1 DEF ShiftedOut
  <2>2. PICK x \in Nat : x = a[k - 1] /\ x < 2 * h
    <3>1. PICK j \in 0 .. n : j = k - 1 /\ j < n
      BY <2>1
    <3>2. a[j] \in Nat /\ a[j] < Radix
      BY <3>1, HasLimbsValue
    <3> QED
      BY <1>1, <3>1, <3>2
  <2>3. CASE x < h
    <3>1. x = h * 0 + x
      OBVIOUS
    <3>2. x \div h = 0
      BY <2>3, <3>1, DivisionIs
    <3> QED
      BY <2>2, <3>2
  <2>4. CASE x >= h
    <3>1. PICK y \in Nat : y = x - h
      BY <2>4
    <3>2. x = h * 1 + y /\ y < h
      BY <2>2, <3>1
    <3>3. x \div h = 1
      BY <3>2, DivisionIs
    <3> QED
      BY <2>2, <3>3
  <2> QED
    BY <2>3, <2>4
<1>4. ASSUME NEW k \in 0 .. n - 1
      PROVE  /\ Twice(a, n)[k] \in 0 .. r - 1
             /\ Twice(a, n)[k] + ShiftedOut(a, k + 1) * r = 2 * a[k] + ShiftedOut(a, k)
  <2>1. PICK x \in Nat : x = a[k] /\ x < r
    BY <1>2, HasLimbsValue
  <2>2. PICK d \in Nat : d = x \div h
    BY <1>1, Rest
  <2>3. PICK e \in Nat : e = x % h /\ e < h
    BY <1>1, Rest
  <2>4. x = h * d + e
    <3>1. x = h * (x \div h) + (x % h)
      BY <1>1, Rest
    <3> QED
      BY <2>2, <2>3, <3>1
  <2>5. PICK s \in {0, 1} : s = ShiftedOut(a, k)
    BY <1>3
  <2>6. ShiftedOut(a, k + 1) = d
    BY <1>1, <2>1, <2>2 DEF ShiftedOut
  <2>7. PICK y \in Nat : y = 2 * x + s
    OBVIOUS
  <2>8. PICK f \in Nat : f = 2 * e + s
    OBVIOUS
  <2>9. y = r * d + f /\ f < r
    <3>1. 2 * (h * d + e) = (2 * h) * d + 2 * e
      OBVIOUS
    <3>2. y = (2 * h) * d + f
      BY <2>4, <2>7, <2>8, <3>1
    <3>3. f < r
      BY <1>2, <2>3, <2>8
    <3> QED
      BY <1>2, <3>2, <3>3
  <2>10. y % r = f
    BY <2>9, DivisionIs
  <2>11. Twice(a, n)[k] = y % r
    <3>1. Twice(a, n)[k] = (2 * a[k] + ShiftedOut(a, k)) % Radix
      BY DEF Twice, ShiftedOut
    <3> QED
      BY <1>2, <2>1, <2>5, <2>7, <3>1
  <2>12. d * r = r * d
    OBVIOUS
  <2> QED
    BY <2>1, <2>5, <2>6, <2>7, <2>9, <2>10, <2>11, <2>12
<1>5. Twice(a, n) \in Limbs(n)
  <2>1. \A k \in 0 .. n - 1 : Twice(a, n)[k] \in 0 .. Radix - 1
    BY <1>2, <1>4
  <2>2. Twice(a, n) = [k \in 0 .. n - 1 |-> Twice(a, n)[k]]
    BY DEF Twice
  <2> QED
    BY <2>1, <2>2 DEF Limbs
<1> DEFINE G == { k \in 0 .. n : Value(Twice(a, n), k) + ShiftedOut(a, k) * Weight(k) = 2 * Value(a, k) }
<1>6. 0 \in G
  BY ValueZero, WeightZero DEF ShiftedOut
<1>7. ASSUME NEW k \in 0 .. n - 1, k \in G PROVE k + 1 \in G
  <2>0. k \in 0 .. n /\ k < n /\ k \in Nat /\ k + 1 \in 0 .. n
    OBVIOUS
  <2>1. PICK x \in Nat : x = a[k]
    BY <2>0, HasLimbsValue
  <2>2. PICK s \in {0, 1} : s = ShiftedOut(a, k)
    BY <1>3, <2>0
  <2>3. PICK d \in {0, 1} : d = ShiftedOut(a, k + 1)
    BY <1>3, <2>0
  <2>4. PICK w \in Nat : w = Weight(k) /\ Weight(k + 1) = r * w
    BY <1>2, <2>0, WeightType, WeightNext
  <2>5. PICK v \in Nat : v = Value(a, k) /\ Value(a, k + 1) = v + x * w
    BY <2>0, <2>1, <2>4, HasLimbsValue
  <2>6. PICK y \in Nat : y = Twice(a, n)[k]
    BY <1>4
  <2>7. PICK u \in Nat : u = Value(Twice(a, n), k) /\ Value(Twice(a, n), k + 1) = u + y * w
    BY <1>5, <2>0, <2>4, <2>6, LimbsValue
  <2>8. y + d * r = 2 * x + s
    BY <1>4, <2>1, <2>2, <2>3, <2>6
  <2>9. u + s * w = 2 * v
    BY <1>7, <2>2, <2>4, <2>5, <2>7
  <2>10. (u + y * w) + d * (r * w) = 2 * (v + x * w)
    <3>1. y = (2 * x + s) - d * r
      BY <2>8
    <3>2. y * w = (2 * (x * w) + s * w) - d * (r * w)
      BY <3>1
    <3> QED
      BY <2>9, <3>2
  <2> QED
    BY <2>0, <2>3, <2>4, <2>5, <2>7, <2>10
<1> HIDE DEF G
<1>8. n \in G
  BY <1>6, <1>7, Induction
<1>9. ShiftedOut(a, n) \in {0, 1}
  BY <1>3
<1> QED
  BY <1>5, <1>8, <1>9 DEF G

\* mod_dbl doubles modulo b.
LEMMA ModDblExact ==
  ASSUME NEW n \in Nat, n > 0, NEW a, NEW b, HasLimbs(a, n), HasLimbs(b, n),
         Value(a, n) < Value(b, n)
  PROVE  /\ ModDbl(a, b, n) \in Limbs(n)
         /\ Value(ModDbl(a, b, n), n) < Value(b, n)
         /\ \/ Value(ModDbl(a, b, n), n) = 2 * Value(a, n)
            \/ Value(ModDbl(a, b, n), n) = 2 * Value(a, n) - Value(b, n)
<1>1. PICK t \in Limbs(n) : t = Twice(a, n)
  BY TwiceValue
<1>2. PICK c \in {0, 1} : c = ShiftedOut(a, n)
  BY TwiceValue
<1>3. Value(t, n) + c * Weight(n) = 2 * Value(a, n)
  BY <1>1, <1>2, TwiceValue
<1>4. ModDbl(a, b, n) = IF c = 1 \/ Gte(t, b, n) THEN SubLimbs(t, b, n) ELSE t
  BY <1>1, <1>2 DEF ModDbl, Twice, ShiftedOut
<1>5. t = [k \in 0 .. n - 1 |-> t[k]]
  BY <1>1 DEF Limbs
<1>6. ModDbl(a, b, n) = Brought(t, c, b, n)
  BY <1>2, <1>4, <1>5 DEF Brought
<1>7. HasLimbs(t, n)
  BY <1>1 DEF Limbs, HasLimbs
<1>8. n \in 0 .. n
  OBVIOUS
<1>9. Value(a, n) \in Nat /\ Value(b, n) \in Nat
  BY <1>8, HasLimbsValue
<1>10. Value(t, n) + c * Weight(n) < 2 * Value(b, n)
  BY <1>3, <1>9
<1>11. c \in Nat
  BY <1>2
<1>12. /\ Brought(t, c, b, n) \in Limbs(n)
       /\ Value(Brought(t, c, b, n), n) < Value(b, n)
       /\ \/ Value(Brought(t, c, b, n), n) = Value(t, n) + c * Weight(n)
          \/ Value(Brought(t, c, b, n), n) = (Value(t, n) + c * Weight(n)) - Value(b, n)
  BY <1>7, <1>10, <1>11, Reduced
<1>13. PICK y \in Nat : y = Value(t, n) + c * Weight(n) /\ y = 2 * Value(a, n)
  BY <1>3, <1>9
<1>14. PICK d : d = ModDbl(a, b, n) /\ d = Brought(t, c, b, n)
  BY <1>6
<1>15. /\ d \in Limbs(n)
       /\ Value(d, n) < Value(b, n)
       /\ Value(d, n) = y \/ Value(d, n) = y - Value(b, n)
  BY <1>12, <1>13, <1>14
<1>16. 2 * Value(a, n) - Value(b, n) = y - Value(b, n)
  BY <1>13
<1>17. Value(d, n) = 2 * Value(a, n) \/ Value(d, n) = 2 * Value(a, n) - Value(b, n)
  BY <1>13, <1>15, <1>16
<1> QED
  BY <1>14, <1>15, <1>17

-----------------------------------------------------------------------------
(* Multiplication by a limb                                                 *)

\* The product of two limbs and one more fits two limbs, with another one added to it.
LEMMA MacExact ==
  ASSUME NEW acc \in 0 .. Radix - 1, NEW x \in 0 .. Radix - 1, NEW y \in 0 .. Radix - 1,
         NEW c \in 0 .. Radix - 1
  PROVE  /\ Mac(acc, x, y, c)[1] \in 0 .. Radix - 1 /\ Mac(acc, x, y, c)[2] \in 0 .. Radix - 1
         /\ Mac(acc, x, y, c)[1] + Radix * Mac(acc, x, y, c)[2] = (acc + x * y) + c
<1>1. PICK r \in Nat : r = Radix /\ r >= 2
  BY RadixType
<1>2. acc \in Nat /\ x \in Nat /\ y \in Nat /\ c \in Nat /\ acc <= r - 1 /\ x <= r - 1 /\ y <= r - 1
      /\ c <= r - 1
  BY <1>1
<1>3. PICK p \in Nat : p = x * y + c
  BY <1>2
<1>4. p <= (r - 1) * r
  <2>1. x * y <= (r - 1) * y
    BY <1>2
  <2>2. (r - 1) * y <= (r - 1) * (r - 1)
    BY <1>2
  <2>3. (r - 1) * (r - 1) + (r - 1) = (r - 1) * r
    OBVIOUS
  <2> QED
    BY <1>2, <1>3, <2>1, <2>2, <2>3
<1>5. PICK lo \in Nat : lo = p % r /\ lo < r
  BY <1>1, Rest
<1>6. PICK hi \in Nat : hi = p \div r /\ p = r * hi + lo
  BY <1>1, <1>5, Rest
<1>7. PICK s \in Nat : s = acc + lo
  BY <1>2
<1>8. PICK d \in Nat : d = s % r /\ d < r
  BY <1>1, Rest
<1>9. PICK e \in Nat : e = s \div r /\ s = r * e + d
  BY <1>1, <1>8, Rest
<1>10. (acc + x * y) + c = d + r * (hi + e)
  <2>1. (acc + x * y) + c = acc + p
    BY <1>2, <1>3
  <2>2. PICK f \in Nat : f = r * hi
    OBVIOUS
  <2>3. PICK g \in Nat : g = r * e
    OBVIOUS
  <2>4. r * (hi + e) = f + g
    BY <2>2, <2>3
  <2>5. acc + p = d + (f + g)
    BY <1>2, <1>6, <1>7, <1>9, <2>2, <2>3
  <2> QED
    BY <2>1, <2>4, <2>5
<1>11. hi + e < r
  <2>1. SUFFICES ASSUME hi + e >= r PROVE FALSE
    BY <1>6, <1>9
  <2>2. r * (hi + e) >= r * r
    BY <2>1
  <2>3. acc + p <= (r - 1) + (r - 1) * r
    BY <1>2, <1>4
  <2>4. (r - 1) + (r - 1) * r = r * r - 1
    OBVIOUS
  <2>5. (acc + x * y) + c = acc + p
    BY <1>2, <1>3
  <2> QED
    BY <1>2, <1>10, <2>2, <2>3, <2>4, <2>5
<1>12. PICK h \in Nat : h = hi + e
  OBVIOUS
<1>13. h % r = h
  <2>1. h = r * 0 + h
    OBVIOUS
  <2> QED
    BY <1>11, <1>12, <2>1, DivisionIs
<1>14. Mac(acc, x, y, c) = <<d, h>>
  <2>1. Mac(acc, x, y, c) = <<(acc + lo) % r, (hi + ((acc + lo) \div r)) % r>>
    BY <1>1, <1>3, <1>5, <1>6 DEF Mac
  <2> QED
    BY <1>7, <1>8, <1>9, <1>12, <1>13, <2>1
<1>15. Mac(acc, x, y, c)[1] = d /\ Mac(acc, x, y, c)[2] = h
  BY <1>14
<1>16. d \in 0 .. r - 1 /\ h \in 0 .. r - 1
  BY <1>1, <1>8, <1>11, <1>12
<1> QED
  BY <1>1, <1>10, <1>12, <1>15, <1>16

MulStates(t, x, b, nl) ==
  [k \in 0 .. nl |->
     { s \in [t : Limbs(nl + 2), c : 0 .. Radix - 1] :
         /\ Value(s.t, k) + s.c * Weight(k) = Value(t, k) + x * Value(b, k)
         /\ \A j \in k .. nl + 1 : s.t[j] = t[j] }]

\* A limb put into t.
LEMMA PutLimb ==
  ASSUME NEW n \in Nat, NEW t \in Limbs(n), NEW k \in 0 .. n - 1, NEW m \in 0 .. Radix - 1
  PROVE  /\ [t EXCEPT ![k] = m] \in Limbs(n)
         /\ [t EXCEPT ![k] = m][k] = m
         /\ \A j \in 0 .. n - 1 : j # k => [t EXCEPT ![k] = m][j] = t[j]
         /\ Value([t EXCEPT ![k] = m], k) = Value(t, k)
         /\ Value([t EXCEPT ![k] = m], k + 1) = Value(t, k) + m * Weight(k)
<1>1. PICK u : u = [t EXCEPT ![k] = m]
  OBVIOUS
<1>2. /\ u \in Limbs(n) /\ u[k] = m
      /\ \A j \in 0 .. n - 1 : j # k => u[j] = t[j]
  BY <1>1 DEF Limbs
<1>3. Value(u, k) = Value(t, k)
  <2>1. \A j \in 0 .. k - 1 : t[j] \in Nat /\ u[j] = t[j]
    BY <1>2, LimbsType
  <2> QED
    BY <2>1, ValueSame
<1>4. Value(u, k + 1) = Value(u, k) + u[k] * Weight(k)
  <2>1. k \in 0 .. n /\ k < n
    OBVIOUS
  <2> QED
    BY <1>2, <2>1, LimbsValue
<1> QED
  BY <1>1, <1>2, <1>3, <1>4

CiosTop(s, nl) ==
  [s.t EXCEPT ![nl] = (@ + s.c) % Radix,
              ![nl + 1] = (@ + ((s.t[nl] + s.c) \div Radix)) % Radix]

\* The loop over the limbs of b adds x * b, but for the carry into the two limbs above.
LEMMA MulLoop ==
  ASSUME NEW nl \in Nat, NEW t \in Limbs(nl + 2), NEW x \in 0 .. Radix - 1, NEW b, HasLimbs(b, nl)
  PROVE  \E s \in [t : Limbs(nl + 2), c : 0 .. Radix - 1] :
           /\ Value(s.t, nl) + s.c * Weight(nl) = Value(t, nl) + x * Value(b, nl)
           /\ s.t[nl] = t[nl] /\ s.t[nl + 1] = t[nl + 1]
           /\ CiosAddMul(t, x, b, nl) = CiosTop(s, nl)
<1> DEFINE n == nl
           I == MulStates(t, x, b, nl)
           S == [t : Limbs(nl + 2), c : 0 .. Radix - 1]
           step(s, j) == Only({ [t |-> [s.t EXCEPT ![j] = m[1]], c |-> m[2]] :
                                  m \in {Mac(s.t[j], x, b[j], s.c)} })
           s0 == [t |-> t, c |-> 0]
           F == [k \in 0 .. n - 1 |-> [p \in S |-> step(p, k)]]
<1>0. n \in Nat
  OBVIOUS
<1>1. /\ x \in Nat
      /\ \A k \in 0 .. nl : /\ Value(t, k) \in Nat /\ Value(b, k) \in Nat
                            /\ k < nl => b[k] \in 0 .. Radix - 1
  <2>1. \A k \in 0 .. nl : k \in 0 .. nl + 2 /\ nl + 2 \in Nat
    OBVIOUS
  <2>2. \A k \in 0 .. nl : Value(t, k) \in Nat
    BY <2>1, LimbsValue
  <2>3. \A k \in 0 .. nl : Value(b, k) \in Nat /\ (k < nl => b[k] \in 0 .. Radix - 1)
    BY HasLimbsValue DEF HasLimbs
  <2> QED
    BY <2>2, <2>3, RadixType
<1>2. \A k \in 0 .. n : I[k] \subseteq S
  BY DEF MulStates
<1>3. s0 \in I[0]
  <2>1. Value(t, 0) = 0 /\ Value(b, 0) = 0 /\ Weight(0) = 1
    BY ValueZero, WeightZero
  <2>2. 0 \in 0 .. Radix - 1
    BY RadixType
  <2>3. Value(t, 0) + 0 * Weight(0) = Value(t, 0) + x * Value(b, 0)
    BY <1>1, <2>1
  <2> QED
    BY <2>2, <2>3 DEF MulStates
<1>4. ASSUME NEW k \in 0 .. n - 1, NEW p \in I[k] PROVE step(p, k) \in I[k + 1]
  <2>1. /\ p.t \in Limbs(nl + 2) /\ p.c \in 0 .. Radix - 1
        /\ Value(p.t, k) + p.c * Weight(k) = Value(t, k) + x * Value(b, k)
        /\ \A j \in k .. nl + 1 : p.t[j] = t[j]
    <3>1. k \in 0 .. nl /\ p \in MulStates(t, x, b, nl)[k]
      BY <1>0
    <3> QED
      BY <3>1 DEF MulStates
  <2>2. k \in 0 .. nl /\ k < nl /\ k \in Nat /\ k \in 0 .. (nl + 2) - 1 /\ nl + 2 \in Nat
        /\ k + 1 \in 0 .. nl
    BY <1>0
  <2>3. p.t[k] \in 0 .. Radix - 1 /\ p.t[k] = t[k] /\ b[k] \in 0 .. Radix - 1
    BY <1>1, <2>1, <2>2, LimbsType
  <2>4. PICK m : m = Mac(p.t[k], x, b[k], p.c)
    OBVIOUS
  <2>5. /\ m[1] \in 0 .. Radix - 1 /\ m[2] \in 0 .. Radix - 1
        /\ m[1] + Radix * m[2] = (p.t[k] + x * b[k]) + p.c
    <3>1. PICK tk \in 0 .. Radix - 1 : tk = p.t[k]
      BY <2>3
    <3>2. PICK bk \in 0 .. Radix - 1 : bk = b[k]
      BY <2>3
    <3>3. PICK c \in 0 .. Radix - 1 : c = p.c
      BY <2>1
    <3>4. /\ Mac(tk, x, bk, c)[1] \in 0 .. Radix - 1 /\ Mac(tk, x, bk, c)[2] \in 0 .. Radix - 1
          /\ Mac(tk, x, bk, c)[1] + Radix * Mac(tk, x, bk, c)[2] = (tk + x * bk) + c
      BY MacExact
    <3>5. m = Mac(tk, x, bk, c)
      BY <2>4, <3>1, <3>2, <3>3
    <3> QED
      BY <3>1, <3>2, <3>3, <3>4, <3>5
  <2>6. step(p, k) = [t |-> [p.t EXCEPT ![k] = m[1]], c |-> m[2]]
    BY <2>4 DEF Only
  <2>7. PICK u : u = [p.t EXCEPT ![k] = m[1]]
    OBVIOUS
  <2>8. /\ u \in Limbs(nl + 2)
        /\ \A j \in 0 .. (nl + 2) - 1 : j # k => u[j] = p.t[j]
        /\ Value(u, k + 1) = Value(p.t, k) + m[1] * Weight(k)
    BY <2>1, <2>2, <2>5, <2>7, PutLimb
  <2>9. PICK v \in Nat : v = Value(p.t, k)
    <3>1. k \in 0 .. nl + 2
      BY <2>2
    <3> QED
      BY <2>1, <2>2, <3>1, LimbsValue
  <2>10. PICK vt \in Nat : vt = Value(t, k)
    BY <1>1, <2>2
  <2>11. PICK vb \in Nat : vb = Value(b, k)
    BY <1>1, <2>2
  <2>12. PICK w \in Nat : w = Weight(k)
    BY <2>2, WeightType
  <2>13. PICK r \in Nat : r = Radix
    BY RadixType
  <2>14. Weight(k + 1) = r * w
    BY <2>2, <2>12, <2>13, WeightNext
  <2>15. PICK tk \in Nat : tk = t[k] /\ tk = p.t[k]
    BY <2>3
  <2>16. PICK bk \in Nat : bk = b[k]
    BY <2>3
  <2>17. PICK c \in Nat : c = p.c
    BY <2>1
  <2>18. PICK lo \in Nat : lo = m[1]
    BY <2>5
  <2>19. PICK hi \in Nat : hi = m[2]
    BY <2>5
  <2>20. v + c * w = vt + x * vb
    BY <2>1, <2>9, <2>10, <2>11, <2>12, <2>17
  <2>21. lo + r * hi = (tk + x * bk) + c
    BY <2>5, <2>13, <2>15, <2>16, <2>17, <2>18, <2>19
  <2>22. (v + lo * w) + hi * (r * w) = (vt + tk * w) + x * (vb + bk * w)
    <3>1. x \in Nat
      BY <1>1
    <3>2. lo = ((tk + x * bk) + c) - r * hi
      BY <2>21, <3>1
    <3>3. lo * w = ((tk * w + (x * bk) * w) + c * w) - (r * hi) * w
      BY <3>1, <3>2
    <3>4. (r * hi) * w = hi * (r * w)
      OBVIOUS
    <3>5. x * (vb + bk * w) = x * vb + (x * bk) * w
      BY <3>1
    <3> QED
      BY <2>20, <3>1, <3>3, <3>4, <3>5
  <2>23. Value(t, k + 1) = vt + tk * w
    <3>1. k \in 0 .. nl + 2 /\ k < nl + 2
      BY <2>2
    <3>2. Value(t, k + 1) = Value(t, k) + t[k] * Weight(k)
      BY <2>2, <3>1, LimbsValue
    <3> QED
      BY <2>10, <2>12, <2>15, <3>2
  <2>24. Value(b, k + 1) = vb + bk * w
    BY <2>2, <2>11, <2>12, <2>16, HasLimbsValue
  <2>25. Value(u, k + 1) + m[2] * Weight(k + 1) = Value(t, k + 1) + x * Value(b, k + 1)
    BY <2>8, <2>9, <2>12, <2>14, <2>18, <2>19, <2>22, <2>23, <2>24
  <2>26. \A j \in k + 1 .. nl + 1 : u[j] = t[j]
    BY <2>1, <2>2, <2>8
  <2>27. step(p, k) = [t |-> u, c |-> m[2]]
    BY <2>6, <2>7
  <2> HIDE DEF step
  <2> QED
    BY <2>2, <2>5, <2>8, <2>25, <2>26, <2>27 DEF MulStates
<1>5. \A k \in 0 .. n - 1 : \A p \in I[k] : /\ F[k][p] = step(p, k)
                                              /\ F[k][p] \in I[k + 1]
                                              /\ Only({ step(q, k) : q \in {p} }) = F[k][p]
  <2>1. \A k \in 0 .. n - 1 : \A p \in S : F[k][p] = step(p, k)
    <3> HIDE DEF step, S
    <3> QED
      OBVIOUS
  <2>2. \A k \in 0 .. n - 1 : \A p : Only({ step(q, k) : q \in {p} }) = step(p, k)
    <3> HIDE DEF step
    <3> QED
      BY DEF Only
  <2> HIDE DEF step, S, F, I
  <2> QED
    BY <1>0, <1>2, <1>4, <2>1, <2>2
<1>6. PICK f : Iterates(f, F, s0, n) /\ Within(f, I, n)
  <2> HIDE DEF F, I, s0, step
  <2> QED
    BY <1>0, <1>3, <1>5, Loop
<1> DEFINE Is(h) == h = [k \in 0 .. n |->
                          IF k = 0 THEN s0 ELSE Only({ step(p, k - 1) : p \in {h[k - 1]} })]
           g == CHOOSE h : Is(h)
<1>7. Is(f)
  <2>1. \A k \in 1 .. n : F[k - 1][f[k - 1]] = Only({ step(p, k - 1) : p \in {f[k - 1]} })
    <3>1. SUFFICES ASSUME NEW k \in 1 .. n
                   PROVE  F[k - 1][f[k - 1]] = Only({ step(p, k - 1) : p \in {f[k - 1]} })
      OBVIOUS
    <3>2. k - 1 \in 0 .. n - 1 /\ k - 1 \in 0 .. n
      BY <1>0
    <3> HIDE DEF step, I, F
    <3> QED
      BY <1>5, <1>6, <3>2 DEF Within
  <2>2. \A k \in 0 .. n : (IF k = 0 THEN s0 ELSE F[k - 1][f[k - 1]])
                         = IF k = 0 THEN s0 ELSE Only({ step(p, k - 1) : p \in {f[k - 1]} })
    <3> HIDE DEF step, F, s0, I, S
    <3> QED
      BY <1>0, <2>1
  <2> HIDE DEF step, F, s0, I, S
  <2> QED
    BY <1>6, <2>2 DEF Iterates
<1>8. Is(g)
  <2> HIDE DEF Is
  <2> QED
    BY <1>7
<1>9. g[0] = s0 /\ \A k \in 0 .. n - 1 : g[k + 1] = Only({ step(p, k) : p \in {g[k]} })
  <2> HIDE DEF step, g, s0
  <2>1. g[0] = s0
    BY <1>0, <1>8
  <2>2. ASSUME NEW k \in 0 .. n - 1 PROVE g[k + 1] = Only({ step(p, k) : p \in {g[k]} })
    <3>1. k + 1 \in 0 .. n /\ k + 1 # 0 /\ (k + 1) - 1 = k
      BY <1>0
    <3> QED
      BY <1>8, <3>1
  <2> QED
    BY <2>1, <2>2
<1>10. \A k \in 0 .. n - 1 : g[k] \in I[k] => g[k + 1] = F[k][g[k]]
  <2> HIDE DEF step, g, I, F
  <2> QED
    BY <1>5, <1>9
<1>11. g[n] \in I[n]
  <2>1. \A k \in 0 .. n - 1 : \A p \in I[k] : F[k][p] \in I[k + 1]
    <3> HIDE DEF step, g, I, F, s0
    <3> QED
      BY <1>5
  <2>2. g[0] = s0
    <3> HIDE DEF step, g, I, F, s0
    <3> QED
      BY <1>9
  <2> HIDE DEF step, g, I, F, s0
  <2> QED
    BY <1>0, <1>3, <1>10, <2>1, <2>2, LoopEnds
<1>12. Accumulate(step, s0, n) \in I[n]
  <2>1. Accumulate(step, s0, n) = g[n]
    BY DEF Accumulate
  <2> QED
    BY <1>11, <2>1
<1>13. PICK s \in I[n] : s = Accumulate(step, s0, n)
  BY <1>12
<1>14. /\ s \in S
       /\ Value(s.t, nl) + s.c * Weight(nl) = Value(t, nl) + x * Value(b, nl)
       /\ \A j \in nl .. nl + 1 : s.t[j] = t[j]
  <2>1. nl \in 0 .. nl /\ s \in MulStates(t, x, b, nl)[nl]
    OBVIOUS
  <2> QED
    BY <2>1 DEF MulStates
<1>15. CiosAddMul(t, x, b, nl) = CiosTop(s, nl)
  BY <1>13 DEF CiosAddMul, CiosTop, Only
<1>16. s.t[nl] = t[nl] /\ s.t[nl + 1] = t[nl + 1]
  BY <1>14
<1> QED
  BY <1>14, <1>15, <1>16

\* u is t with other limbs nl and nl + 1: m, and the sum of the old one and e.
TopIs(u, t, m, e, nl) ==
  /\ u \in Limbs(nl + 2)
  /\ \A j \in 0 .. nl - 1 : u[j] = t[j]
  /\ u[nl] = m /\ u[nl + 1] = (t[nl + 1] + e) % Radix

\* The two highest limbs count, but for what is lost above them.
TopCounts(u, t, m, e, nl) ==
  \E z \in Nat : Value(u, nl + 2) + z * Weight(nl + 2)
                    = (Value(t, nl) + m * Weight(nl)) + (t[nl + 1] + e) * Weight(nl + 1)

\* The two limbs above take the carry in.
LEMMA TopAdded ==
  ASSUME NEW nl \in Nat, NEW t \in Limbs(nl + 2), NEW m \in 0 .. Radix - 1, NEW e \in Nat,
         NEW u, TopIs(u, t, m, e, nl)
  PROVE  TopCounts(u, t, m, e, nl)
<1>1. nl + 2 \in Nat /\ nl \in 0 .. (nl + 2) - 1 /\ nl + 1 \in 0 .. (nl + 2) - 1
      /\ nl \in 0 .. nl + 2 /\ nl + 1 \in 0 .. nl + 2 /\ (nl + 1) + 1 = nl + 2 /\ nl + 1 \in Nat
      /\ nl < nl + 2 /\ nl + 1 < nl + 2
  OBVIOUS
<1>2. /\ u \in Limbs(nl + 2) /\ u[nl] = m /\ u[nl + 1] = (t[nl + 1] + e) % Radix
      /\ \A j \in 0 .. nl - 1 : u[j] = t[j]
  BY DEF TopIs
<1>3. Value(u, nl + 1) = Value(t, nl) + m * Weight(nl)
  <2>1. \A j \in 0 .. nl - 1 : t[j] \in Nat /\ u[j] = t[j]
    <3>1. \A j \in 0 .. nl - 1 : j \in 0 .. (nl + 2) - 1
      OBVIOUS
    <3> QED
      BY <1>1, <1>2, <3>1, LimbsType
  <2>2. Value(u, nl) = Value(t, nl)
    BY <2>1, ValueSame
  <2>3. Value(u, nl + 1) = Value(u, nl) + u[nl] * Weight(nl)
    BY <1>1, <1>2, LimbsValue
  <2> QED
    BY <1>2, <2>2, <2>3
<1>4. PICK y \in Nat : y = t[nl + 1] + e
  BY <1>1, LimbsType
<1>5. PICK r \in Nat : r = Radix /\ r > 0
  BY RadixType
<1>6. PICK d \in Nat : d = y % r /\ d < r
  BY <1>5, Rest
<1>7. PICK z \in Nat : z = y \div r
  BY <1>5, Rest
<1>8. y = r * z + d
  <2>1. y = r * (y \div r) + (y % r)
    BY <1>5, Rest
  <2> QED
    BY <1>6, <1>7, <2>1
<1>9. u[nl + 1] = d
  BY <1>2, <1>4, <1>5, <1>6
<1>11. Value(u, (nl + 1) + 1) = Value(u, nl + 1) + d * Weight(nl + 1)
  <2>1. Value(u, (nl + 1) + 1) = Value(u, nl + 1) + u[nl + 1] * Weight(nl + 1)
    BY <1>1, <1>2, LimbsValue
  <2> QED
    BY <1>9, <2>1
<1>12. PICK w \in Nat : w = Weight(nl + 1)
  BY <1>1, WeightType
<1>13. Weight((nl + 1) + 1) = r * w
  BY <1>1, <1>5, <1>12, WeightNext
<1>14. PICK v \in Nat : v = Value(t, nl) + m * Weight(nl)
  <2>1. Value(t, nl) \in Nat /\ Weight(nl) \in Nat /\ m \in Nat
    BY <1>1, LimbsValue, WeightType, RadixType
  <2> QED
    BY <2>1
<1>15. Value(u, nl + 2) = v + d * w
  BY <1>1, <1>3, <1>11, <1>12, <1>14
<1>16. (v + d * w) + z * (r * w) = v + y * w
  <2>1. (r * z + d) * w = z * (r * w) + d * w
    OBVIOUS
  <2> QED
    BY <1>8, <2>1
<1>17. Weight(nl + 2) = r * w
  BY <1>1, <1>13
<1>18. Value(u, nl + 2) + z * Weight(nl + 2) = v + y * w
  BY <1>15, <1>16, <1>17
<1>19. Value(u, nl + 2) + z * Weight(nl + 2)
         = (Value(t, nl) + m * Weight(nl)) + (t[nl + 1] + e) * Weight(nl + 1)
  BY <1>4, <1>12, <1>14, <1>18
<1> QED
  BY <1>19 DEF TopCounts

\* u is t + x * b, but for what is lost above the highest limb.
AddsUp(u, t, x, b, nl) ==
  /\ u \in Limbs(nl + 2)
  /\ \E z \in Nat : Value(u, nl + 2) + z * Weight(nl + 2) = Value(t, nl + 2) + x * Value(b, nl)

\* The low limbs of t were summed up to s, with the carry c.
LEMMA Topped ==
  ASSUME NEW nl \in Nat, NEW t \in Limbs(nl + 2), NEW s \in Limbs(nl + 2), NEW x \in Nat,
         NEW b, HasLimbs(b, nl), NEW c \in Nat,
         Value(s, nl) + c * Weight(nl) = Value(t, nl) + x * Value(b, nl),
         s[nl] = t[nl], s[nl + 1] = t[nl + 1],
         NEW m \in 0 .. Radix - 1, NEW e \in Nat, m + Radix * e = s[nl] + c,
         NEW u, TopIs(u, s, m, e, nl)
  PROVE  AddsUp(u, t, x, b, nl)
<1>1. nl + 2 \in Nat /\ nl \in 0 .. nl + 2 /\ nl + 1 \in 0 .. nl + 2 /\ nl < nl + 2 /\ nl + 1 < nl + 2
      /\ nl \in 0 .. nl /\ (nl + 1) + 1 = nl + 2 /\ nl + 1 \in Nat
  OBVIOUS
<1>2. u \in Limbs(nl + 2)
  BY DEF TopIs
<1>3. PICK z \in Nat : Value(u, nl + 2) + z * Weight(nl + 2)
                         = (Value(s, nl) + m * Weight(nl)) + (s[nl + 1] + e) * Weight(nl + 1)
  <2>1. TopCounts(u, s, m, e, nl)
    BY TopAdded
  <2> QED
    BY <2>1 DEF TopCounts
<1>4. Value(t, nl + 1) = Value(t, nl) + t[nl] * Weight(nl)
  BY <1>1, LimbsValue
<1>5. Value(t, (nl + 1) + 1) = Value(t, nl + 1) + t[nl + 1] * Weight(nl + 1)
  BY <1>1, LimbsValue
<1>6. PICK w \in Nat : w = Weight(nl)
  BY WeightType
<1>7. PICK r \in Nat : r = Radix
  BY RadixType
<1>8. Weight(nl + 1) = r * w
  BY <1>6, <1>7, WeightNext
<1>9. PICK vt \in Nat : vt = Value(t, nl)
  BY <1>1, LimbsValue
<1>10. PICK vs \in Nat : vs = Value(s, nl)
  BY <1>1, LimbsValue
<1>11. PICK vb \in Nat : vb = Value(b, nl)
  BY <1>1, HasLimbsValue
<1>12. t[nl] \in Nat /\ t[nl + 1] \in Nat
  <2>1. nl \in 0 .. (nl + 2) - 1 /\ nl + 1 \in 0 .. (nl + 2) - 1
    OBVIOUS
  <2> QED
    BY <1>1, <2>1, LimbsType
<1>13. PICK t0 \in Nat : t0 = t[nl] /\ t0 = s[nl]
  BY <1>12
<1>14. PICK t1 \in Nat : t1 = t[nl + 1] /\ t1 = s[nl + 1]
  BY <1>12
<1>15. m \in Nat
  BY RadixType
<1>16. (vs + m * w) + (t1 + e) * (r * w) = ((vt + t0 * w) + t1 * (r * w)) + x * vb
  <2>1. vs + c * w = vt + x * vb
    BY <1>6, <1>9, <1>10, <1>11
  <2>2. m = (t0 + c) - r * e
    BY <1>7, <1>13, <1>15
  <2>3. m * w = (t0 * w + c * w) - (r * e) * w
    BY <2>2
  <2>4. (r * e) * w = e * (r * w)
    OBVIOUS
  <2>5. (t1 + e) * (r * w) = t1 * (r * w) + e * (r * w)
    OBVIOUS
  <2>6. PICK q \in Nat : q = e * (r * w)
    OBVIOUS
  <2>7. PICK q1 \in Nat : q1 = t1 * (r * w)
    OBVIOUS
  <2>8. PICK q2 \in Nat : q2 = x * vb
    OBVIOUS
  <2>9. PICK q3 \in Nat : q3 = m * w
    BY <1>15
  <2>10. q3 = (t0 * w + c * w) - q
    BY <2>3, <2>4, <2>6, <2>9
  <2>11. vs + c * w = vt + q2
    BY <2>1, <2>8
  <2>12. (vs + q3) + (q1 + q) = ((vt + t0 * w) + q1) + q2
    BY <2>10, <2>11
  <2> QED
    BY <2>5, <2>6, <2>7, <2>8, <2>9, <2>12
<1>17. Value(t, nl + 2) = (vt + t0 * w) + t1 * (r * w)
  BY <1>1, <1>4, <1>5, <1>6, <1>8, <1>9, <1>13, <1>14
<1>18. Value(u, nl + 2) + z * Weight(nl + 2) = (vs + m * w) + (t1 + e) * (r * w)
  BY <1>3, <1>6, <1>8, <1>10, <1>14
<1>19. Value(u, nl + 2) + z * Weight(nl + 2) = Value(t, nl + 2) + x * Value(b, nl)
  BY <1>11, <1>16, <1>17, <1>18
<1> QED
  BY <1>2, <1>19 DEF AddsUp

\* The loop with one carry chain adds x * b.
LEMMA CiosExact ==
  ASSUME NEW nl \in Nat, NEW t \in Limbs(nl + 2), NEW x \in 0 .. Radix - 1, NEW b, HasLimbs(b, nl)
  PROVE  AddsUp(CiosAddMul(t, x, b, nl), t, x, b, nl)
<1>1. PICK p \in [t : Limbs(nl + 2), c : 0 .. Radix - 1] :
           /\ Value(p.t, nl) + p.c * Weight(nl) = Value(t, nl) + x * Value(b, nl)
           /\ p.t[nl] = t[nl] /\ p.t[nl + 1] = t[nl + 1]
           /\ CiosAddMul(t, x, b, nl) = CiosTop(p, nl)
  BY MulLoop
<1>2. PICK s \in Limbs(nl + 2) : s = p.t
  BY <1>1
<1>3. PICK c \in Nat : c = p.c
  BY <1>1, RadixType
<1>4. s[nl] \in Nat
  <2>1. nl \in 0 .. (nl + 2) - 1 /\ nl + 2 \in Nat
    OBVIOUS
  <2> QED
    BY <2>1, LimbsType
<1>5. PICK r \in Nat : r = Radix /\ r > 0
  BY RadixType
<1>6. PICK y \in Nat : y = s[nl] + c
  BY <1>4
<1>7. PICK m \in Nat : m = y % r /\ m < r
  BY <1>5, Rest
<1>8. PICK e \in Nat : e = y \div r
  BY <1>5, Rest
<1>9. m + r * e = y
  <2>1. y = r * (y \div r) + (y % r)
    BY <1>5, Rest
  <2> QED
    BY <1>7, <1>8, <2>1
<1>10. PICK u : u = CiosTop(p, nl)
  OBVIOUS
<1>11. u = [[s EXCEPT ![nl] = m] EXCEPT ![nl + 1] = (s[nl + 1] + e) % Radix]
  <2>1. u = [p.t EXCEPT ![nl] = (@ + p.c) % Radix,
                        ![nl + 1] = (@ + ((p.t[nl] + p.c) \div Radix)) % Radix]
    BY <1>10 DEF CiosTop
  <2>2. u = [s EXCEPT ![nl] = (@ + c) % r, ![nl + 1] = (@ + ((s[nl] + c) \div r)) % r]
    BY <1>2, <1>3, <1>5, <2>1
  <2>3. nl # nl + 1
    OBVIOUS
  <2>4. u = [[s EXCEPT ![nl] = (s[nl] + c) % r]
               EXCEPT ![nl + 1] = (s[nl + 1] + ((s[nl] + c) \div r)) % r]
    BY <2>2, <2>3
  <2> QED
    BY <1>5, <1>6, <1>7, <1>8, <2>4
<1>12. m \in 0 .. Radix - 1 /\ x \in Nat
  BY <1>5, <1>7, RadixType
<1>13. m + Radix * e = s[nl] + c
  BY <1>5, <1>6, <1>9
<1>14. Value(s, nl) + c * Weight(nl) = Value(t, nl) + x * Value(b, nl)
       /\ s[nl] = t[nl] /\ s[nl + 1] = t[nl + 1]
  BY <1>1, <1>2, <1>3
<1>15. TopIs(u, s, m, e, nl)
  <2>1. nl \in 0 .. (nl + 2) - 1 /\ nl + 1 \in 0 .. (nl + 2) - 1 /\ nl # nl + 1
        /\ \A j \in 0 .. nl - 1 : j \in 0 .. (nl + 2) - 1 /\ j # nl /\ j # nl + 1
    OBVIOUS
  <2>2. s[nl + 1] \in Nat
    BY <2>1, LimbsType
  <2>3. PICK d \in Nat : d = (s[nl + 1] + e) % r /\ d < r
    <3>1. PICK y1 \in Nat : y1 = s[nl + 1] + e
      BY <2>2
    <3>2. y1 % r \in Nat /\ y1 % r < r
      BY <1>5, Rest
    <3> QED
      BY <3>1, <3>2
  <2>4. d \in 0 .. Radix - 1
    BY <1>5, <2>3
  <2>5. u = [[s EXCEPT ![nl] = m] EXCEPT ![nl + 1] = d]
    BY <1>5, <1>11, <2>3
  <2>6. /\ u \in [0 .. (nl + 2) - 1 -> 0 .. Radix - 1]
        /\ u[nl] = m /\ u[nl + 1] = d
        /\ \A j \in 0 .. nl - 1 : u[j] = s[j]
    BY <1>12, <2>1, <2>4, <2>5 DEF Limbs
  <2> QED
    BY <1>5, <2>3, <2>6 DEF TopIs, Limbs
<1>16. AddsUp(u, t, x, b, nl)
  BY <1>12, <1>13, <1>14, <1>15, Topped
<1> QED
  BY <1>1, <1>10, <1>16

AdxStates(t, x, b, nl) ==
  [k \in 0 .. nl |->
     { s \in [t : Limbs(nl + 2), hi : 0 .. Radix - 1, of : {0, 1}, cf : {0, 1}] :
         /\ Value(s.t, k) + ((s.hi + s.of) + s.cf) * Weight(k) = Value(t, k) + x * Value(b, k)
         /\ \A j \in k .. nl + 1 : s.t[j] = t[j] }]

\* A bit is carried out of a sum of two limbs and a bit.
LEMMA BitCarried ==
  ASSUME NEW r \in Nat, r > 0, NEW x \in Nat, x < 2 * r
  PROVE  x \div r \in {0, 1} /\ x % r \in 0 .. r - 1 /\ (x % r) + r * (x \div r) = x
<1>1. PICK q \in Nat : q = x \div r
  BY Rest
<1>2. PICK e \in Nat : e = x % r /\ e < r
  BY Rest
<1>3. x = r * q + e
  <2>1. x = r * (x \div r) + (x % r)
    BY Rest
  <2> QED
    BY <1>1, <1>2, <2>1
<1>4. q < 2
  <2>1. SUFFICES ASSUME q >= 2 PROVE FALSE
    OBVIOUS
  <2>2. r * q >= r * 2
    BY <2>1
  <2> QED
    BY <1>3, <2>2
<1>5. q \in {0, 1} /\ e \in 0 .. r - 1 /\ e + r * q = x
  BY <1>2, <1>3, <1>4
<1> QED
  BY <1>1, <1>2, <1>5

\* The high limb of a product.
LEMMA HighLimb ==
  ASSUME NEW r \in Nat, r > 0, NEW x \in 0 .. r - 1, NEW y \in 0 .. r - 1
  PROVE  /\ (x * y) \div r \in 0 .. r - 1 /\ (x * y) % r \in 0 .. r - 1
         /\ ((x * y) % r) + r * ((x * y) \div r) = x * y
<1>1. PICK p \in Nat : p = x * y
  OBVIOUS
<1>2. PICK q \in Nat : q = p \div r
  BY Rest
<1>3. PICK e \in Nat : e = p % r /\ e < r
  BY Rest
<1>4. p = r * q + e
  <2>1. p = r * (p \div r) + (p % r)
    BY Rest
  <2> QED
    BY <1>2, <1>3, <2>1
<1>5. q < r
  <2>1. SUFFICES ASSUME q >= r PROVE FALSE
    OBVIOUS
  <2>2. r * q >= r * r
    BY <2>1
  <2>3. x * y <= (r - 1) * y
    OBVIOUS
  <2>4. (r - 1) * y <= (r - 1) * (r - 1)
    OBVIOUS
  <2>5. (r - 1) * (r - 1) < r * r
    OBVIOUS
  <2> QED
    BY <1>1, <1>4, <2>2, <2>3, <2>4, <2>5
<1>6. q \in 0 .. r - 1 /\ e \in 0 .. r - 1 /\ e + r * q = p
  BY <1>3, <1>4, <1>5
<1> QED
  BY <1>1, <1>2, <1>3, <1>6

AdxTop(s, nl) ==
  LET u == s.t[nl] + s.hi + s.of
      v == (u % Radix) + s.cf
  IN  [s.t EXCEPT ![nl] = v % Radix,
                  ![nl + 1] = (@ + (u \div Radix) + (v \div Radix)) % Radix]

\* So does the loop with two, but for the high limb and the two carries.
LEMMA AdxLoop ==
  ASSUME NEW nl \in Nat, NEW t \in Limbs(nl + 2), NEW x \in 0 .. Radix - 1, NEW b, HasLimbs(b, nl)
  PROVE  \E s \in [t : Limbs(nl + 2), hi : 0 .. Radix - 1, of : {0, 1}, cf : {0, 1}] :
           /\ Value(s.t, nl) + ((s.hi + s.of) + s.cf) * Weight(nl) = Value(t, nl) + x * Value(b, nl)
           /\ s.t[nl] = t[nl] /\ s.t[nl + 1] = t[nl + 1]
           /\ AdxAddMul(t, x, b, nl) = AdxTop(s, nl)
<1> DEFINE n == nl
           I == AdxStates(t, x, b, nl)
           S == [t : Limbs(nl + 2), hi : 0 .. Radix - 1, of : {0, 1}, cf : {0, 1}]
           step(s, j) ==
             LET p == x * b[j]
                 u == s.t[j] + s.hi + s.of
                 v == (u % Radix) + (p % Radix) + s.cf
             IN  [t |-> [s.t EXCEPT ![j] = v % Radix], hi |-> p \div Radix,
                  of |-> u \div Radix, cf |-> v \div Radix]
           s0 == [t |-> t, hi |-> 0, of |-> 0, cf |-> 0]
           F == [k \in 0 .. n - 1 |-> [p \in S |-> step(p, k)]]
<1>0. n \in Nat
  OBVIOUS
<1>1. /\ x \in Nat
      /\ \A k \in 0 .. nl : /\ Value(t, k) \in Nat /\ Value(b, k) \in Nat
                            /\ k < nl => b[k] \in 0 .. Radix - 1
  <2>1. \A k \in 0 .. nl : k \in 0 .. nl + 2 /\ nl + 2 \in Nat
    OBVIOUS
  <2>2. \A k \in 0 .. nl : Value(t, k) \in Nat
    BY <2>1, LimbsValue
  <2>3. \A k \in 0 .. nl : Value(b, k) \in Nat /\ (k < nl => b[k] \in 0 .. Radix - 1)
    BY HasLimbsValue DEF HasLimbs
  <2> QED
    BY <2>2, <2>3, RadixType
<1>2. \A k \in 0 .. n : I[k] \subseteq S
  BY DEF AdxStates
<1>3. s0 \in I[0]
  <2>1. Value(t, 0) = 0 /\ Value(b, 0) = 0 /\ Weight(0) = 1
    BY ValueZero, WeightZero
  <2>2. 0 \in 0 .. Radix - 1
    BY RadixType
  <2>3. Value(t, 0) + ((0 + 0) + 0) * Weight(0) = Value(t, 0) + x * Value(b, 0)
    BY <1>1, <2>1
  <2> QED
    BY <2>2, <2>3 DEF AdxStates
<1>4. ASSUME NEW k \in 0 .. n - 1, NEW p \in I[k] PROVE step(p, k) \in I[k + 1]
  <2>1. /\ p.t \in Limbs(nl + 2) /\ p.hi \in 0 .. Radix - 1 /\ p.of \in {0, 1} /\ p.cf \in {0, 1}
        /\ Value(p.t, k) + ((p.hi + p.of) + p.cf) * Weight(k) = Value(t, k) + x * Value(b, k)
        /\ \A j \in k .. nl + 1 : p.t[j] = t[j]
    <3>1. k \in 0 .. nl /\ p \in AdxStates(t, x, b, nl)[k]
      BY <1>0
    <3> QED
      BY <3>1 DEF AdxStates
  <2>2. k \in 0 .. nl /\ k < nl /\ k \in Nat /\ k \in 0 .. (nl + 2) - 1 /\ nl + 2 \in Nat
        /\ k + 1 \in 0 .. nl
    BY <1>0
  <2>3. PICK r \in Nat : r = Radix /\ r > 0 /\ r >= 2
    BY RadixType
  <2>4. PICK tk \in 0 .. r - 1 : tk = t[k] /\ tk = p.t[k]
    <3>1. p.t[k] \in 0 .. Radix - 1 /\ p.t[k] = t[k]
      BY <2>1, <2>2, LimbsType
    <3> QED
      BY <2>3, <3>1
  <2>5. PICK bk \in 0 .. r - 1 : bk = b[k]
    BY <1>1, <2>2, <2>3
  <2>6. PICK h \in 0 .. r - 1 : h = p.hi
    BY <2>1, <2>3
  <2>7. PICK o \in {0, 1} : o = p.of
    BY <2>1
  <2>8. PICK f \in {0, 1} : f = p.cf
    BY <2>1
  <2>9. x \in 0 .. r - 1
    BY <2>3
  <2>10. PICK q \in Nat : q = x * bk
    BY <1>1, <2>5
  <2>11. PICK qh \in 0 .. r - 1 : qh = q \div r
    BY <2>3, <2>9, <2>10, HighLimb
  <2>12. PICK ql \in 0 .. r - 1 : ql = q % r
    BY <2>3, <2>9, <2>10, HighLimb
  <2>13. ql + r * qh = q
    <3>1. (q % r) + r * (q \div r) = q
      <4>1. q = r * (q \div r) + (q % r) /\ q \div r \in Nat /\ q % r \in Nat
        BY <2>3, Rest
      <4> QED
        BY <2>3, <4>1
    <3> QED
      BY <2>11, <2>12, <3>1
  <2>14. PICK u \in Nat : u = tk + h + o /\ u < 2 * r
    BY <2>3
  <2>15. PICK o2 \in {0, 1} : o2 = u \div r
    BY <2>3, <2>14, BitCarried
  <2>16. PICK ul \in 0 .. r - 1 : ul = u % r
    BY <2>3, <2>14, BitCarried
  <2>17. ul + r * o2 = u
    <3>1. (u % r) + r * (u \div r) = u
      BY <2>3, <2>14, BitCarried
    <3> QED
      BY <2>15, <2>16, <3>1
  <2>18. PICK v \in Nat : v = ul + ql + f /\ v < 2 * r
    BY <2>3
  <2>19. PICK f2 \in {0, 1} : f2 = v \div r
    BY <2>3, <2>18, BitCarried
  <2>20. PICK m \in 0 .. r - 1 : m = v % r
    BY <2>3, <2>18, BitCarried
  <2>21. m + r * f2 = v
    <3>1. (v % r) + r * (v \div r) = v
      BY <2>3, <2>18, BitCarried
    <3> QED
      BY <2>19, <2>20, <3>1
  <2>22. step(p, k) = [t |-> [p.t EXCEPT ![k] = m], hi |-> qh, of |-> o2, cf |-> f2]
    BY <2>3, <2>4, <2>5, <2>6, <2>7, <2>8, <2>10, <2>11, <2>12, <2>14, <2>15, <2>16, <2>18, <2>19, <2>20
  <2>23. PICK s : s = [p.t EXCEPT ![k] = m]
    OBVIOUS
  <2>24. m \in 0 .. Radix - 1 /\ qh \in 0 .. Radix - 1
    BY <2>3
  <2>25. /\ s \in Limbs(nl + 2)
         /\ \A j \in 0 .. (nl + 2) - 1 : j # k => s[j] = p.t[j]
         /\ Value(s, k + 1) = Value(p.t, k) + m * Weight(k)
    BY <2>1, <2>2, <2>23, <2>24, PutLimb
  <2>26. PICK vp \in Nat : vp = Value(p.t, k)
    <3>1. k \in 0 .. nl + 2
      BY <2>2
    <3> QED
      BY <2>1, <2>2, <3>1, LimbsValue
  <2>27. PICK vt \in Nat : vt = Value(t, k)
    BY <1>1, <2>2
  <2>28. PICK vb \in Nat : vb = Value(b, k)
    BY <1>1, <2>2
  <2>29. PICK w \in Nat : w = Weight(k) /\ Weight(k + 1) = r * w
    BY <2>2, <2>3, WeightType, WeightNext
  <2>30. vp + ((h + o) + f) * w = vt + x * vb
    BY <2>1, <2>6, <2>7, <2>8, <2>26, <2>27, <2>28, <2>29
  <2>31. PICK c \in Nat : c = (h + o) + f
    OBVIOUS
  <2>32. PICK e \in Nat : e = (qh + o2) + f2
    OBVIOUS
  <2>33. m + r * e = (tk + x * bk) + c
    <3>1. r * e = (r * qh + r * o2) + r * f2
      BY <2>32
    <3>2. PICK g1 \in Nat : g1 = r * qh
      OBVIOUS
    <3>3. PICK g2 \in Nat : g2 = r * o2
      OBVIOUS
    <3>4. PICK g3 \in Nat : g3 = r * f2
      OBVIOUS
    <3>5. m + r * e = ((m + g3) + g2) + g1
      BY <3>1, <3>2, <3>3, <3>4
    <3>6. m + g3 = ul + ql + f
      BY <2>18, <2>21, <3>4
    <3>7. ul + g2 = tk + h + o
      BY <2>14, <2>17, <3>3
    <3>8. ql + g1 = q
      BY <2>13, <3>2
    <3>9. ((m + g3) + g2) + g1 = (tk + q) + c
      BY <2>31, <3>6, <3>7, <3>8
    <3> QED
      BY <2>10, <3>5, <3>9
  <2>34. (vp + m * w) + e * (r * w) = (vt + tk * w) + x * (vb + bk * w)
    <3>1. x \in Nat
      BY <1>1
    <3>2. m = ((tk + x * bk) + c) - r * e
      BY <2>33, <3>1
    <3>3. m * w = ((tk * w + (x * bk) * w) + c * w) - (r * e) * w
      BY <3>1, <3>2
    <3>4. (r * e) * w = e * (r * w)
      OBVIOUS
    <3>5. x * (vb + bk * w) = x * vb + (x * bk) * w
      BY <3>1
    <3>6. vp + c * w = vt + x * vb
      BY <2>30, <2>31
    <3> QED
      BY <3>1, <3>3, <3>4, <3>5, <3>6
  <2>35. Value(t, k + 1) = vt + tk * w
    <3>1. k \in 0 .. nl + 2 /\ k < nl + 2
      BY <2>2
    <3>2. Value(t, k + 1) = Value(t, k) + t[k] * Weight(k)
      BY <2>2, <3>1, LimbsValue
    <3> QED
      BY <2>4, <2>27, <2>29, <3>2
  <2>36. Value(b, k + 1) = vb + bk * w
    BY <2>2, <2>5, <2>28, <2>29, HasLimbsValue
  <2>37. Value(s, k + 1) + ((qh + o2) + f2) * Weight(k + 1) = Value(t, k + 1) + x * Value(b, k + 1)
    BY <2>25, <2>26, <2>29, <2>32, <2>34, <2>35, <2>36
  <2>38. \A j \in k + 1 .. nl + 1 : s[j] = t[j]
    BY <2>1, <2>2, <2>25
  <2>39. step(p, k) = [t |-> s, hi |-> qh, of |-> o2, cf |-> f2]
    BY <2>22, <2>23
  <2> HIDE DEF step
  <2> QED
    BY <2>2, <2>24, <2>25, <2>37, <2>38, <2>39 DEF AdxStates
<1>5. \A k \in 0 .. n - 1 : \A p \in I[k] : /\ F[k][p] = step(p, k)
                                              /\ F[k][p] \in I[k + 1]
                                              /\ Only({ step(q, k) : q \in {p} }) = F[k][p]
  <2>1. \A k \in 0 .. n - 1 : \A p \in S : F[k][p] = step(p, k)
    <3> HIDE DEF step, S
    <3> QED
      OBVIOUS
  <2>2. \A k \in 0 .. n - 1 : \A p : Only({ step(q, k) : q \in {p} }) = step(p, k)
    <3> HIDE DEF step
    <3> QED
      BY DEF Only
  <2> HIDE DEF step, S, F, I
  <2> QED
    BY <1>0, <1>2, <1>4, <2>1, <2>2
<1>6. PICK f : Iterates(f, F, s0, n) /\ Within(f, I, n)
  <2> HIDE DEF F, I, s0, step
  <2> QED
    BY <1>0, <1>3, <1>5, Loop
<1> DEFINE Is(h) == h = [k \in 0 .. n |->
                          IF k = 0 THEN s0 ELSE Only({ step(p, k - 1) : p \in {h[k - 1]} })]
           g == CHOOSE h : Is(h)
<1>7. Is(f)
  <2>1. \A k \in 1 .. n : F[k - 1][f[k - 1]] = Only({ step(p, k - 1) : p \in {f[k - 1]} })
    <3>1. SUFFICES ASSUME NEW k \in 1 .. n
                   PROVE  F[k - 1][f[k - 1]] = Only({ step(p, k - 1) : p \in {f[k - 1]} })
      OBVIOUS
    <3>2. k - 1 \in 0 .. n - 1 /\ k - 1 \in 0 .. n
      BY <1>0
    <3> HIDE DEF step, I, F
    <3> QED
      BY <1>5, <1>6, <3>2 DEF Within
  <2>2. \A k \in 0 .. n : (IF k = 0 THEN s0 ELSE F[k - 1][f[k - 1]])
                         = IF k = 0 THEN s0 ELSE Only({ step(p, k - 1) : p \in {f[k - 1]} })
    <3> HIDE DEF step, F, s0, I, S
    <3> QED
      BY <1>0, <2>1
  <2> HIDE DEF step, F, s0, I, S
  <2> QED
    BY <1>6, <2>2 DEF Iterates
<1>8. Is(g)
  <2> HIDE DEF Is
  <2> QED
    BY <1>7
<1>9. g[0] = s0 /\ \A k \in 0 .. n - 1 : g[k + 1] = Only({ step(p, k) : p \in {g[k]} })
  <2> HIDE DEF step, g, s0
  <2>1. g[0] = s0
    BY <1>0, <1>8
  <2>2. ASSUME NEW k \in 0 .. n - 1 PROVE g[k + 1] = Only({ step(p, k) : p \in {g[k]} })
    <3>1. k + 1 \in 0 .. n /\ k + 1 # 0 /\ (k + 1) - 1 = k
      BY <1>0
    <3> QED
      BY <1>8, <3>1
  <2> QED
    BY <2>1, <2>2
<1>10. \A k \in 0 .. n - 1 : g[k] \in I[k] => g[k + 1] = F[k][g[k]]
  <2> HIDE DEF step, g, I, F
  <2> QED
    BY <1>5, <1>9
<1>11. g[n] \in I[n]
  <2>1. \A k \in 0 .. n - 1 : \A p \in I[k] : F[k][p] \in I[k + 1]
    <3> HIDE DEF step, g, I, F, s0
    <3> QED
      BY <1>5
  <2>2. g[0] = s0
    <3> HIDE DEF step, g, I, F, s0
    <3> QED
      BY <1>9
  <2> HIDE DEF step, g, I, F, s0
  <2> QED
    BY <1>0, <1>3, <1>10, <2>1, <2>2, LoopEnds
<1>12. Accumulate(step, s0, n) \in I[n]
  <2>1. Accumulate(step, s0, n) = g[n]
    BY DEF Accumulate
  <2> QED
    BY <1>11, <2>1
<1>13. PICK s \in I[n] : s = Accumulate(step, s0, n)
  BY <1>12
<1>14. /\ s \in S
       /\ Value(s.t, nl) + ((s.hi + s.of) + s.cf) * Weight(nl) = Value(t, nl) + x * Value(b, nl)
       /\ \A j \in nl .. nl + 1 : s.t[j] = t[j]
  <2>1. nl \in 0 .. nl /\ s \in AdxStates(t, x, b, nl)[nl]
    OBVIOUS
  <2> QED
    BY <2>1 DEF AdxStates
<1>15. AdxAddMul(t, x, b, nl) = AdxTop(s, nl)
  BY <1>13 DEF AdxAddMul, AdxTop, Only
<1>16. s.t[nl] = t[nl] /\ s.t[nl + 1] = t[nl + 1]
  BY <1>14
<1> QED
  BY <1>14, <1>15, <1>16

\* The loop with two carry chains adds x * b.
LEMMA AdxExact ==
  ASSUME NEW nl \in Nat, NEW t \in Limbs(nl + 2), NEW x \in 0 .. Radix - 1, NEW b, HasLimbs(b, nl)
  PROVE  AddsUp(AdxAddMul(t, x, b, nl), t, x, b, nl)
<1>1. PICK p \in [t : Limbs(nl + 2), hi : 0 .. Radix - 1, of : {0, 1}, cf : {0, 1}] :
           /\ Value(p.t, nl) + ((p.hi + p.of) + p.cf) * Weight(nl) = Value(t, nl) + x * Value(b, nl)
           /\ p.t[nl] = t[nl] /\ p.t[nl + 1] = t[nl + 1]
           /\ AdxAddMul(t, x, b, nl) = AdxTop(p, nl)
  BY AdxLoop
<1>2. PICK s \in Limbs(nl + 2) : s = p.t
  BY <1>1
<1>3. PICK r \in Nat : r = Radix /\ r > 0
  BY RadixType
<1>4. PICK h \in 0 .. r - 1 : h = p.hi
  BY <1>1, <1>3
<1>5. PICK o \in {0, 1} : o = p.of
  BY <1>1
<1>6. PICK f \in {0, 1} : f = p.cf
  BY <1>1
<1>7. nl \in 0 .. (nl + 2) - 1 /\ nl + 1 \in 0 .. (nl + 2) - 1 /\ nl # nl + 1 /\ nl + 2 \in Nat
        /\ \A j \in 0 .. nl - 1 : j \in 0 .. (nl + 2) - 1 /\ j # nl /\ j # nl + 1
  OBVIOUS
<1>8. PICK y \in Nat : y = s[nl] /\ y < r
  <2>1. s[nl] \in Nat /\ s[nl] <= Radix - 1
    BY <1>7, LimbsType
  <2> QED
    BY <1>3, <2>1
<1>9. PICK y1 \in Nat : y1 = s[nl + 1]
  BY <1>7, LimbsType
<1>10. PICK c \in Nat : c = (h + o) + f
  OBVIOUS
<1>11. PICK a \in Nat : a = y + h + o /\ a < 2 * r
  BY <1>8
<1>12. PICK ad \in {0, 1} : ad = a \div r
  BY <1>3, <1>11, BitCarried
<1>13. PICK al \in 0 .. r - 1 : al = a % r /\ al + r * ad = a
  BY <1>3, <1>11, <1>12, BitCarried
<1>14. PICK v \in Nat : v = al + f /\ v < 2 * r
  BY <1>3
<1>15. PICK vd \in {0, 1} : vd = v \div r
  BY <1>3, <1>14, BitCarried
<1>16. PICK m \in 0 .. r - 1 : m = v % r /\ m + r * vd = v
  BY <1>3, <1>14, <1>15, BitCarried
<1>17. PICK e \in Nat : e = ad + vd
  OBVIOUS
<1>18. m + Radix * e = s[nl] + c
  <2>1. r * e = r * ad + r * vd
    BY <1>17
  <2>2. PICK g1 \in Nat : g1 = r * ad
    OBVIOUS
  <2>3. PICK g2 \in Nat : g2 = r * vd
    OBVIOUS
  <2>4. al + g1 = y + h + o /\ m + g2 = al + f
    BY <1>11, <1>13, <1>14, <1>16, <2>2, <2>3
  <2>5. m + (g1 + g2) = y + c
    BY <1>10, <2>4
  <2> QED
    BY <1>3, <1>8, <2>1, <2>2, <2>3, <2>5
<1>19. PICK u : u = AdxTop(p, nl)
  OBVIOUS
<1>20. PICK d \in Nat : d = (y1 + e) % r /\ d < r
  <2>1. PICK z \in Nat : z = y1 + e
    OBVIOUS
  <2>2. z % r \in Nat /\ z % r < r
    BY <1>3, Rest
  <2> QED
    BY <2>1, <2>2
<1>21. u = [[s EXCEPT ![nl] = m] EXCEPT ![nl + 1] = d]
  <2>1. u = [s EXCEPT ![nl] = v % r, ![nl + 1] = (@ + ad + vd) % r]
    BY <1>2, <1>3, <1>4, <1>5, <1>6, <1>8, <1>11, <1>12, <1>13, <1>14, <1>15, <1>19 DEF AdxTop
  <2>2. u = [[s EXCEPT ![nl] = m] EXCEPT ![nl + 1] = (s[nl + 1] + ad + vd) % r]
    BY <1>7, <1>16, <2>1
  <2>3. s[nl + 1] + ad + vd = y1 + e
    BY <1>9, <1>17
  <2> QED
    BY <1>20, <2>2, <2>3
<1>22. TopIs(u, s, m, e, nl)
  <2>1. d \in 0 .. Radix - 1 /\ m \in 0 .. Radix - 1
    BY <1>3, <1>20
  <2>2. /\ u \in [0 .. (nl + 2) - 1 -> 0 .. Radix - 1]
        /\ u[nl] = m /\ u[nl + 1] = d
        /\ \A j \in 0 .. nl - 1 : u[j] = s[j]
    BY <1>7, <1>21, <2>1 DEF Limbs
  <2>3. d = (s[nl + 1] + e) % Radix
    BY <1>3, <1>9, <1>20
  <2> QED
    BY <2>2, <2>3 DEF TopIs, Limbs
<1>23. Value(s, nl) + c * Weight(nl) = Value(t, nl) + x * Value(b, nl)
       /\ s[nl] = t[nl] /\ s[nl + 1] = t[nl + 1]
  BY <1>1, <1>2, <1>4, <1>5, <1>6, <1>10
<1>24. m \in 0 .. Radix - 1 /\ x \in Nat
  BY <1>3
<1>25. AddsUp(u, t, x, b, nl)
  BY <1>18, <1>22, <1>23, <1>24, Topped
<1> QED
  BY <1>1, <1>19, <1>25

-----------------------------------------------------------------------------
(* The Montgomery product                                                   *)

\* Whichever loop is used adds x * b.
LEMMA AddMulExact ==
  ASSUME NEW M, M.nl \in Nat, NEW t \in Limbs(M.nl + 2), NEW x \in 0 .. Radix - 1, NEW b,
         HasLimbs(b, M.nl)
  PROVE  AddsUp(AddMul(t, x, b, M), t, x, b, M.nl)
BY CiosExact, AdxExact DEF AddMul

\* A sum that is not too wide is exact.
LEMMA AddsUpExact ==
  ASSUME NEW nl \in Nat, NEW t \in Limbs(nl + 2), NEW x \in Nat, NEW b, HasLimbs(b, nl),
         NEW u, AddsUp(u, t, x, b, nl),
         Value(t, nl + 2) + x * Value(b, nl) < Weight(nl + 2)
  PROVE  u \in Limbs(nl + 2) /\ Value(u, nl + 2) = Value(t, nl + 2) + x * Value(b, nl)
<1>1. u \in Limbs(nl + 2)
  BY DEF AddsUp
<1>2. PICK z \in Nat : Value(u, nl + 2) + z * Weight(nl + 2) = Value(t, nl + 2) + x * Value(b, nl)
  BY DEF AddsUp
<1>3. nl + 2 \in Nat /\ nl + 2 \in 0 .. nl + 2 /\ nl \in 0 .. nl
  OBVIOUS
<1>4. PICK v \in Nat : v = Value(u, nl + 2)
  BY <1>1, <1>3, LimbsValue
<1>5. PICK w \in Nat : w = Weight(nl + 2)
  BY <1>3, WeightType
<1>6. PICK s \in Nat : s = Value(t, nl + 2) + x * Value(b, nl)
  <2>1. Value(t, nl + 2) \in Nat /\ Value(b, nl) \in Nat
    BY <1>3, LimbsValue, HasLimbsValue
  <2> QED
    BY <2>1
<1>7. v + z * w = s /\ s < w
  BY <1>2, <1>4, <1>5, <1>6
<1>8. z = 0
  <2>1. SUFFICES ASSUME z >= 1 PROVE FALSE
    OBVIOUS
  <2>2. z * w >= w
    BY <2>1
  <2> QED
    BY <1>7, <2>2
<1>9. v = s
  BY <1>7, <1>8
<1> QED
  BY <1>1, <1>4, <1>6, <1>9

\* The first limb is the rest modulo the radix.
LEMMA FirstLimb ==
  ASSUME NEW n \in Nat, n > 0, NEW a, HasLimbs(a, n)
  PROVE  \E z \in Nat : Value(a, n) = a[0] + Radix * z
<1>1. PICK s : s = [k \in 0 .. n - 1 |-> a[k]]
  OBVIOUS
<1>2. s \in Limbs(n) /\ s[0] = a[0]
  BY <1>1 DEF Limbs, HasLimbs
<1>3. \A j \in 0 .. n - 1 : a[j] \in Nat /\ s[j] = a[j]
  BY <1>1, RadixType DEF HasLimbs
<1>4. Value(s, n) = Value(a, n)
  BY <1>3, ValueSame
<1>5. 1 \in 0 .. n /\ 0 \in 0 .. n /\ 0 < n /\ 0 + 1 = 1
  OBVIOUS
<1>6. PICK z \in Nat : Value(s, n) = Value(s, 1) + Weight(1) * z
  BY <1>2, <1>5, ValueHigh
<1>7. Value(s, 0 + 1) = Value(s, 0) + s[0] * Weight(0)
  BY <1>2, <1>5, LimbsValue
<1>8. Value(s, 0) = 0 /\ Weight(0) = 1 /\ s[0] \in Nat
  <2>1. 0 \in 0 .. n - 1
    OBVIOUS
  <2> QED
    BY <1>2, <2>1, ValueZero, WeightZero, LimbsType
<1>9. Value(s, 1) = s[0]
  BY <1>5, <1>7, <1>8
<1>10. Weight(1) = Radix
  <2>1. Weight(0 + 1) = Radix * Weight(0)
    BY WeightNext
  <2> QED
    BY <1>8, <2>1, RadixType
<1> QED
  BY <1>2, <1>4, <1>6, <1>9, <1>10

\* Without its first limb, which is zero, a number is divided by the radix.
LEMMA ShiftedValue ==
  ASSUME NEW n \in Nat, NEW t \in Limbs(n + 1), t[0] = 0, NEW s,
         s = [k \in 0 .. n |-> IF k <= n - 1 THEN t[k + 1] ELSE 0]
  PROVE  s \in Limbs(n + 1) /\ Value(s, n + 1) * Radix = Value(t, n + 1)
<1>1. s \in Limbs(n + 1)
  <2>1. \A k \in 0 .. n : s[k] \in 0 .. Radix - 1
    <3>1. SUFFICES ASSUME NEW k \in 0 .. n PROVE s[k] \in 0 .. Radix - 1
      OBVIOUS
    <3>2. CASE k <= n - 1
      <4>1. k + 1 \in 0 .. (n + 1) - 1 /\ n + 1 \in Nat
        BY <3>2
      <4>2. t[k + 1] \in 0 .. Radix - 1
        BY <4>1, LimbsType
      <4> QED
        BY <3>2, <4>2
    <3>3. CASE ~(k <= n - 1)
      BY <3>3, RadixType
    <3> QED
      BY <3>2, <3>3
  <2>2. (n + 1) - 1 = n
    OBVIOUS
  <2> QED
    BY <2>1, <2>2 DEF Limbs
<1>2. n + 1 \in Nat
  OBVIOUS
<1>3. PICK r \in Nat : r = Radix
  BY RadixType
<1> DEFINE G == { k \in 0 .. n : Value(s, k) * Radix = Value(t, k + 1) }
<1>4. 0 \in G
  <2>1. 0 \in 0 .. n + 1 /\ 0 < n + 1 /\ 0 + 1 = 1
    OBVIOUS
  <2>2. Value(t, 0 + 1) = Value(t, 0) + t[0] * Weight(0)
    BY <1>2, <2>1, LimbsValue
  <2>3. Value(t, 0 + 1) = 0
    BY <2>2, ValueZero, WeightZero
  <2>4. Value(s, 0) * Radix = 0
    BY <1>3, ValueZero
  <2> QED
    BY <2>3, <2>4
<1>5. ASSUME NEW k \in 0 .. n - 1, k \in G PROVE k + 1 \in G
  <2>1. k \in 0 .. n + 1 /\ k < n + 1 /\ k + 1 \in 0 .. n + 1 /\ k + 1 < n + 1 /\ k \in Nat
        /\ k + 1 \in Nat /\ k <= n - 1 /\ k \in 0 .. n /\ k + 1 \in 0 .. (n + 1) - 1
    OBVIOUS
  <2>2. Value(s, k + 1) = Value(s, k) + s[k] * Weight(k)
    BY <1>1, <1>2, <2>1, LimbsValue
  <2>3. Value(t, (k + 1) + 1) = Value(t, k + 1) + t[k + 1] * Weight(k + 1)
    BY <1>2, <2>1, LimbsValue
  <2>4. PICK x \in Nat : x = t[k + 1] /\ x = s[k]
    <3>1. t[k + 1] \in Nat
      BY <1>2, <2>1, LimbsType
    <3> QED
      BY <2>1, <3>1
  <2>5. PICK w \in Nat : w = Weight(k) /\ Weight(k + 1) = r * w
    BY <1>3, <2>1, WeightType, WeightNext
  <2>6. PICK v \in Nat : v = Value(s, k)
    BY <1>1, <1>2, <2>1, LimbsValue
  <2>7. Value(t, k + 1) = v * r
    BY <1>3, <1>5, <2>6
  <2>8. (v + x * w) * r = v * r + x * (r * w)
    OBVIOUS
  <2>9. Value(s, k + 1) * Radix = Value(t, (k + 1) + 1)
    BY <1>3, <2>2, <2>3, <2>4, <2>5, <2>6, <2>7, <2>8
  <2> QED
    BY <2>9
<1> HIDE DEF G
<1>6. n \in G
  BY <1>4, <1>5, Induction
<1>7. Value(s, n + 1) = Value(s, n) + s[n] * Weight(n)
  <2>1. n \in 0 .. n + 1 /\ n < n + 1
    OBVIOUS
  <2> QED
    BY <1>1, <1>2, <2>1, LimbsValue
<1>8. s[n] = 0 /\ Weight(n) \in Nat /\ Value(s, n) \in Nat
  <2>1. n \in 0 .. n + 1 /\ n \in 0 .. n
    OBVIOUS
  <2> QED
    BY <1>1, <1>2, <2>1, LimbsValue, WeightType
<1>9. Value(s, n + 1) = Value(s, n)
  BY <1>7, <1>8
<1> QED
  BY <1>1, <1>6, <1>9 DEF G

\* What a Montgomery product is taken modulo: the inverse of the lowest limb is exact.
Modular(M) ==
  /\ M.nl \in Nat \ {0} /\ M.n \in Limbs(M.nl)
  /\ M.ninv \in 0 .. Radix - 1
  /\ \E z \in Int : M.n[0] * M.ninv = Radix * z - 1

\* What a modulus consists of.
LEMMA ModularType ==
  ASSUME NEW M, Modular(M)
  PROVE  /\ M.nl \in Nat /\ M.nl > 0 /\ M.n \in Limbs(M.nl) /\ HasLimbs(M.n, M.nl)
         /\ Value(M.n, M.nl) \in Nat /\ Value(M.n, M.nl) < Weight(M.nl)
         /\ M.n[0] \in Nat /\ M.ninv \in Nat /\ M.ninv < Radix
<1>1. M.nl \in Nat /\ M.nl > 0 /\ M.n \in Limbs(M.nl) /\ M.ninv \in 0 .. Radix - 1
  BY DEF Modular
<1>2. HasLimbs(M.n, M.nl)
  BY <1>1 DEF Limbs, HasLimbs
<1>3. M.nl \in 0 .. M.nl /\ 0 \in 0 .. M.nl - 1
  BY <1>1
<1>4. M.ninv \in Nat /\ M.ninv < Radix
  BY <1>1, RadixType
<1> QED
  BY <1>1, <1>2, <1>3, <1>4, LimbsValue, LimbsType

\* The product of a limb with the modulus that clears the lowest limb.
Clearing(u, M) == (u[0] * M.ninv) % Radix

\* The multiple of the modulus that is added clears the lowest limb.
LEMMA Cleared ==
  ASSUME NEW M, Modular(M), NEW u \in Limbs(M.nl + 2), NEW v \in Limbs(M.nl + 2),
         Value(v, M.nl + 2) = Value(u, M.nl + 2) + Clearing(u, M) * Value(M.n, M.nl)
  PROVE  Clearing(u, M) \in 0 .. Radix - 1 /\ v[0] = 0
<1>1. /\ M.nl \in Nat /\ M.nl > 0 /\ M.n \in Limbs(M.nl) /\ HasLimbs(M.n, M.nl)
      /\ M.n[0] \in Nat /\ M.ninv \in Nat
  BY ModularType
<1>2. M.nl + 2 \in Nat /\ M.nl + 2 > 0 /\ 0 \in 0 .. (M.nl + 2) - 1
  BY <1>1
<1>3. PICK r \in Nat : r = Radix /\ r > 0
  BY RadixType
<1>4. PICK u0 \in Nat : u0 = u[0]
  BY <1>2, LimbsType
<1>5. PICK v0 \in Nat : v0 = v[0] /\ v0 < r
  <2>1. v[0] \in Nat /\ v[0] <= Radix - 1
    BY <1>2, LimbsType
  <2> QED
    BY <1>3, <2>1
<1>6. PICK n0 \in Nat : n0 = M.n[0]
  BY <1>1
<1>7. PICK ni \in Nat : ni = M.ninv
  BY <1>1
<1>8. HasLimbs(u, M.nl + 2) /\ HasLimbs(v, M.nl + 2)
  BY <1>2 DEF Limbs, HasLimbs
<1>a. PICK l \in Nat : l = M.nl + 2 /\ l > 0 /\ HasLimbs(u, l) /\ HasLimbs(v, l)
  BY <1>2, <1>8
<1>9. PICK yu \in Nat : Value(u, M.nl + 2) = u0 + r * yu
  <2>1. \E z \in Nat : Value(u, l) = u[0] + Radix * z
    BY <1>a, FirstLimb
  <2> QED
    BY <1>3, <1>4, <1>a, <2>1
<1>10. PICK yv \in Nat : Value(v, M.nl + 2) = v0 + r * yv
  <2>1. \E z \in Nat : Value(v, l) = v[0] + Radix * z
    BY <1>a, FirstLimb
  <2> QED
    BY <1>3, <1>5, <1>a, <2>1
<1>11. PICK yn \in Nat : Value(M.n, M.nl) = n0 + r * yn
  BY <1>1, <1>3, <1>6, FirstLimb
<1>12. PICK z \in Int : n0 * ni = r * z - 1
  BY <1>3, <1>6, <1>7 DEF Modular
<1>13. PICK x \in Nat : x = u0 * ni
  OBVIOUS
<1>14. PICK q \in Nat : q = x \div r
  BY <1>3, Rest
<1>15. PICK m \in Nat : m = x % r /\ m < r
  BY <1>3, Rest
<1>16. x = r * q + m
  <2>1. x = r * (x \div r) + (x % r)
    BY <1>3, Rest
  <2> QED
    BY <1>14, <1>15, <2>1
<1>17. Clearing(u, M) = m
  BY <1>3, <1>4, <1>7, <1>13, <1>15 DEF Clearing
<1>18. m * n0 = (u0 * (r * z) - u0) - (r * q) * n0
  <2>1. m = u0 * ni - r * q
    BY <1>13, <1>16
  <2>2. m * n0 = u0 * (n0 * ni) - (r * q) * n0
    BY <2>1
  <2>3. u0 * (n0 * ni) = u0 * (r * z) - u0
    BY <1>12
  <2> QED
    BY <2>2, <2>3
<1>19. v0 - 0 = r * (((u0 * z - q * n0) + (yu + m * yn)) - yv)
  <2>1. v0 + r * yv = (u0 + r * yu) + m * (n0 + r * yn)
    BY <1>9, <1>10, <1>11, <1>17
  <2>2. m * (n0 + r * yn) = m * n0 + r * (m * yn)
    OBVIOUS
  <2>3. u0 * (r * z) = r * (u0 * z) /\ (r * q) * n0 = r * (q * n0)
    OBVIOUS
  <2>4. PICK g1 \in Int : g1 = u0 * z
    OBVIOUS
  <2>5. PICK g2 \in Int : g2 = q * n0
    OBVIOUS
  <2>6. PICK g3 \in Int : g3 = m * yn
    OBVIOUS
  <2>7. v0 + r * yv = (u0 + r * yu) + (((r * g1 - u0) - r * g2) + r * g3)
    BY <1>18, <2>1, <2>2, <2>3, <2>4, <2>5, <2>6
  <2>8. r * (((g1 - g2) + (yu + g3)) - yv) = (((r * g1 - r * g2) + r * yu) + r * g3) - r * yv
    OBVIOUS
  <2>9. v0 - 0 = r * (((g1 - g2) + (yu + g3)) - yv)
    BY <2>7, <2>8
  <2> QED
    BY <2>4, <2>5, <2>6, <2>9
<1>20. v0 = 0
  <2>1. PICK g \in Int : g = ((u0 * z - q * n0) + (yu + m * yn)) - yv
    OBVIOUS
  <2>2. v0 - 0 = r * g
    BY <1>19, <2>1
  <2>3. v0 \in 0 .. r - 1 /\ 0 \in 0 .. r - 1
    BY <1>3, <1>5
  <2> QED
    BY <2>2, <2>3, NoMultipleBetween
<1>21. m \in 0 .. Radix - 1
  BY <1>3, <1>15
<1> QED
  BY <1>5, <1>17, <1>20, <1>21

\* One limb of the first factor.
Shifted(v, nl) == [k \in 0 .. nl + 1 |-> IF k <= nl THEN v[k + 1] ELSE 0]
OneLimb(t, x, b, M) ==
  LET u == AddMul(t, x, b, M)
  IN  Shifted(AddMul(u, Clearing(u, M), M.n, M), M.nl)

\* The two limbs above hold what a step of the product adds.
LEMMA Wide ==
  ASSUME NEW nl \in Nat
  PROVE  2 * (Radix * Weight(nl)) <= Weight(nl + 2)
<1>1. PICK r \in Nat : r = Radix /\ r >= 2
  BY RadixType
<1>2. PICK w \in Nat : w = Weight(nl)
  BY WeightType
<1>3. Weight(nl + 1) = r * w
  BY <1>1, <1>2, WeightNext
<1>4. Weight((nl + 1) + 1) = r * (r * w)
  BY <1>1, <1>3, WeightNext
<1>5. PICK y \in Nat : y = r * w
  OBVIOUS
<1>6. 2 * y <= r * y
  BY <1>1
<1>7. nl + 2 = (nl + 1) + 1
  OBVIOUS
<1> QED
  BY <1>1, <1>2, <1>4, <1>5, <1>6, <1>7

\* A step of the product: t becomes (t + x * b + m * n) / Radix for some m, and stays below n + b.
LEMMA OneLimbExact ==
  ASSUME NEW M, Modular(M), NEW t \in Limbs(M.nl + 2), NEW x \in 0 .. Radix - 1, NEW b,
         HasLimbs(b, M.nl), Value(b, M.nl) < Value(M.n, M.nl),
         Value(t, M.nl + 2) < Value(M.n, M.nl) + Value(b, M.nl)
  PROVE  /\ OneLimb(t, x, b, M) \in Limbs(M.nl + 2)
         /\ Value(OneLimb(t, x, b, M), M.nl + 2) < Value(M.n, M.nl) + Value(b, M.nl)
         /\ \E m \in Nat : Value(OneLimb(t, x, b, M), M.nl + 2) * Radix
                             = (Value(t, M.nl + 2) + x * Value(b, M.nl)) + m * Value(M.n, M.nl)
<1>1. PICK l \in Nat : l = M.nl /\ l > 0
  BY ModularType
<1>2. PICK n \in Limbs(l) : n = M.n /\ HasLimbs(n, l)
  BY <1>1, ModularType
<1>3. PICK N \in Nat : N = Value(n, l) /\ N < Weight(l)
  BY <1>1, <1>2, ModularType
<1>4. PICK B \in Nat : B = Value(b, l) /\ B < N
  <2>1. l \in 0 .. l
    OBVIOUS
  <2> QED
    BY <1>1, <1>2, <1>3, <2>1, HasLimbsValue
<1>5. PICK T \in Nat : T = Value(t, l + 2) /\ T < N + B
  <2>1. l + 2 \in 0 .. l + 2 /\ l + 2 \in Nat
    OBVIOUS
  <2> QED
    BY <1>1, <1>2, <1>3, <1>4, <2>1, LimbsValue
<1>6. PICK r \in Nat : r = Radix /\ r >= 2
  BY RadixType
<1>7. PICK w \in Nat : w = Weight(l)
  BY WeightType
<1>8. 2 * (r * w) <= Weight(l + 2)
  BY <1>6, <1>7, Wide
<1>9. x \in Nat /\ x <= r - 1
  BY <1>6
<1>10. r * (N + B) <= 2 * (r * w)
  <2>1. N + B <= 2 * w
    BY <1>3, <1>4, <1>7
  <2>2. r * (N + B) <= r * (2 * w)
    BY <2>1
  <2> QED
    BY <2>2
<1>11. T + x * B + (r - 1) * N < r * (N + B)
  <2>1. x * B <= (r - 1) * B
    BY <1>9
  <2>2. r * (N + B) = (N + B) + ((r - 1) * N + (r - 1) * B)
    OBVIOUS
  <2> QED
    BY <1>5, <1>9, <2>1, <2>2
<1>12. (r - 1) * N >= 0
  BY <1>6
<1>13. T + x * B < Weight(l + 2)
  <2>1. PICK y \in Nat : y = Weight(l + 2)
    BY WeightType
  <2> QED
    BY <1>8, <1>9, <1>10, <1>11, <1>12, <2>1
<1>14. PICK u : u = AddMul(t, x, b, M)
  OBVIOUS
<1>15. AddsUp(u, t, x, b, l)
  BY <1>1, <1>14, AddMulExact
<1>16. u \in Limbs(l + 2) /\ Value(u, l + 2) = T + x * B
  <2>1. Value(t, l + 2) + x * Value(b, l) < Weight(l + 2)
    BY <1>4, <1>5, <1>13
  <2> QED
    BY <1>1, <1>4, <1>5, <1>9, <1>15, <2>1, AddsUpExact
<1>17. PICK m \in 0 .. r - 1 : m = Clearing(u, M)
  <2>1. u[0] \in Nat /\ M.ninv \in Nat
    <3>1. l + 2 \in Nat /\ 0 \in 0 .. (l + 2) - 1
      OBVIOUS
    <3> QED
      BY <1>16, <3>1, LimbsType, ModularType
  <2>2. PICK y \in Nat : y = u[0] * M.ninv
    BY <2>1
  <2>3. y % r \in Nat /\ y % r < r
    BY <1>6, Rest
  <2> QED
    BY <1>6, <2>2, <2>3 DEF Clearing
<1>18. PICK v : v = AddMul(u, m, M.n, M)
  OBVIOUS
<1>19. AddsUp(v, u, m, n, l)
  <2>1. m \in 0 .. Radix - 1
    BY <1>6
  <2> QED
    BY <1>1, <1>2, <1>16, <1>18, <2>1, AddMulExact
<1>20. m * N <= (r - 1) * N
  OBVIOUS
<1>21. v \in Limbs(l + 2) /\ Value(v, l + 2) = (T + x * B) + m * N
  <2>1. PICK y \in Nat : y = Weight(l + 2)
    BY WeightType
  <2>2. PICK s \in Nat : s = T + x * B
    BY <1>9
  <2>3. s + m * N < y
    BY <1>8, <1>9, <1>10, <1>11, <1>20, <2>1, <2>2
  <2>4. Value(u, l + 2) + m * Value(n, l) < Weight(l + 2)
    BY <1>3, <1>16, <2>1, <2>2, <2>3
  <2>5. v \in Limbs(l + 2) /\ Value(v, l + 2) = Value(u, l + 2) + m * Value(n, l)
    BY <1>2, <1>16, <1>19, <2>4, AddsUpExact
  <2> QED
    BY <1>3, <1>16, <2>5
<1>22. v[0] = 0
  <2>1. Value(v, M.nl + 2) = Value(u, M.nl + 2) + Clearing(u, M) * Value(M.n, M.nl)
    BY <1>1, <1>2, <1>3, <1>16, <1>17, <1>21
  <2> QED
    BY <1>1, <1>16, <1>21, <2>1, Cleared
<1>23. PICK s : s = Shifted(v, l)
  OBVIOUS
<1>24. s = OneLimb(t, x, b, M)
  BY <1>1, <1>14, <1>17, <1>18, <1>23 DEF OneLimb
<1>25. s \in Limbs((l + 1) + 1) /\ Value(s, (l + 1) + 1) * Radix = Value(v, (l + 1) + 1)
  <2>1. l + 1 \in Nat /\ (l + 1) - 1 = l /\ l + 2 = (l + 1) + 1
    OBVIOUS
  <2>2. v \in Limbs((l + 1) + 1)
    BY <1>21, <2>1
  <2>3. PICK e \in Nat : e = l + 1
    OBVIOUS
  <2>4. s = [k \in 0 .. e |-> IF k <= e - 1 THEN v[k + 1] ELSE 0]
    BY <1>23, <2>1, <2>3 DEF Shifted
  <2>5. v \in Limbs(e + 1)
    BY <2>2, <2>3
  <2>6. s \in Limbs(e + 1) /\ Value(s, e + 1) * Radix = Value(v, e + 1)
    BY <1>22, <2>4, <2>5, ShiftedValue
  <2> QED
    BY <2>3, <2>6
<1>26. l + 2 = (l + 1) + 1
  OBVIOUS
<1>27. PICK V \in Nat : V = Value(s, l + 2)
  <2>1. l + 2 \in 0 .. l + 2 /\ l + 2 \in Nat
    OBVIOUS
  <2> QED
    BY <1>25, <1>26, <2>1, LimbsValue
<1>28. V * r = (T + x * B) + m * N
  BY <1>6, <1>21, <1>25, <1>26, <1>27
<1>29. V < N + B
  <2>1. V * r < r * (N + B)
    BY <1>9, <1>11, <1>20, <1>28
  <2>2. SUFFICES ASSUME V >= N + B PROVE FALSE
    OBVIOUS
  <2>3. V * r >= (N + B) * r
    BY <2>2
  <2> QED
    BY <2>1, <2>3
<1>30. s \in Limbs(l + 2)
  BY <1>25, <1>26
<1>31. m \in Nat
  OBVIOUS
<1>32. Value(s, M.nl + 2) * Radix = (Value(t, M.nl + 2) + x * Value(b, M.nl)) + m * Value(M.n, M.nl)
  BY <1>1, <1>2, <1>3, <1>4, <1>5, <1>6, <1>27, <1>28
<1>33. Value(s, M.nl + 2) < Value(M.n, M.nl) + Value(b, M.nl)
  BY <1>1, <1>2, <1>3, <1>4, <1>27, <1>29
<1> QED
  BY <1>1, <1>24, <1>30, <1>31, <1>32, <1>33

\* After the first k limbs of a.
ProductStates(a, b, M) ==
  [k \in 0 .. M.nl |->
     { t \in Limbs(M.nl + 2) :
         /\ Value(t, M.nl + 2) < Value(M.n, M.nl) + Value(b, M.nl)
         /\ \E m \in Nat : Value(t, M.nl + 2) * Weight(k)
                             = Value(a, k) * Value(b, M.nl) + m * Value(M.n, M.nl) }]

\* Zero has the value 0.
LEMMA ZeroValue ==
  ASSUME NEW n \in Nat
  PROVE  [k \in 0 .. n - 1 |-> 0] \in Limbs(n) /\ Value([k \in 0 .. n - 1 |-> 0], n) = 0
<1>1. PICK z : z = [k \in 0 .. n - 1 |-> 0]
  OBVIOUS
<1>2. z \in Limbs(n)
  BY <1>1, RadixType DEF Limbs
<1> DEFINE G == { k \in 0 .. n : Value(z, k) = 0 }
<1>3. 0 \in G
  BY ValueZero
<1>4. ASSUME NEW k \in 0 .. n - 1, k \in G PROVE k + 1 \in G
  <2>1. k \in 0 .. n /\ k < n /\ k \in Nat
    OBVIOUS
  <2>2. Value(z, k + 1) = Value(z, k) + z[k] * Weight(k)
    BY <1>2, <2>1, LimbsValue
  <2>3. z[k] = 0 /\ Weight(k) \in Nat
    BY <1>1, <2>1, WeightType
  <2> QED
    BY <1>4, <2>2, <2>3
<1> HIDE DEF G
<1>5. n \in G
  BY <1>3, <1>4, Induction
<1> QED
  BY <1>1, <1>2, <1>5 DEF G

\* The product after all limbs of a.
LEMMA ProductExact ==
  ASSUME NEW M, Modular(M), NEW a, HasLimbs(a, M.nl), NEW b, HasLimbs(b, M.nl),
         Value(b, M.nl) < Value(M.n, M.nl)
  PROVE  Product(a, b, M) \in ProductStates(a, b, M)[M.nl]
<1> DEFINE n == M.nl
           I == ProductStates(a, b, M)
           S == Limbs(M.nl + 2)
           Down(t) == [k \in 0 .. M.nl + 1 |-> IF k <= M.nl THEN t[k + 1] ELSE 0]
           step(t, i) == Only({ Down(v) :
                                  v \in { AddMul(u, (u[0] * M.ninv) % Radix, M.n, M) :
                                            u \in {AddMul(t, a[i], b, M)} } })
           s0 == [k \in 0 .. M.nl + 1 |-> 0]
           F == [k \in 0 .. n - 1 |-> [p \in S |-> step(p, k)]]
<1>0. n \in Nat
  BY ModularType
<1>1. /\ Value(M.n, n) \in Nat /\ Value(b, n) \in Nat
      /\ \A k \in 0 .. n : Value(a, k) \in Nat /\ Weight(k) \in Nat
  <2>1. n \in 0 .. n
    BY <1>0
  <2> QED
    BY <1>0, <2>1, ModularType, HasLimbsValue, WeightType
<1>2. \A k \in 0 .. n : I[k] \subseteq S
  BY DEF ProductStates
<1>3. s0 \in I[0]
  <2>1. s0 \in Limbs(n + 2) /\ Value(s0, n + 2) = 0
    <3>1. PICK l \in Nat : l = n + 2 /\ l - 1 = n + 1
      BY <1>0
    <3>2. s0 = [k \in 0 .. l - 1 |-> 0]
      BY <3>1
    <3> HIDE DEF s0
    <3> QED
      BY <3>1, <3>2, ZeroValue
  <2> HIDE DEF s0
  <2>2. Value(s0, n + 2) * Weight(0) = Value(a, 0) * Value(b, n) + 0 * Value(M.n, n)
    BY <1>0, <1>1, <2>1, ValueZero, WeightZero
  <2>3. Value(s0, n + 2) < Value(M.n, n) + Value(b, n)
    BY <1>1, <2>1
  <2>4. 0 \in 0 .. M.nl /\ 0 \in Nat
    BY <1>0
  <2> QED
    BY <2>1, <2>2, <2>3, <2>4 DEF ProductStates
<1>4. ASSUME NEW k \in 0 .. n - 1, NEW p \in I[k] PROVE step(p, k) \in I[k + 1]
  <2>1. k \in 0 .. n /\ k < n /\ k \in Nat /\ k + 1 \in 0 .. n /\ k \in 0 .. n - 1
    BY <1>0
  <2>2. p \in Limbs(n + 2) /\ Value(p, n + 2) < Value(M.n, n) + Value(b, n)
    BY <2>1 DEF ProductStates
  <2>3. PICK m \in Nat : Value(p, n + 2) * Weight(k) = Value(a, k) * Value(b, n) + m * Value(M.n, n)
    BY <2>1 DEF ProductStates
  <2>4. a[k] \in 0 .. Radix - 1
    BY <2>1 DEF HasLimbs
  <2>5. PICK x \in 0 .. Radix - 1 : x = a[k] /\ x \in Nat
    BY <2>4, RadixType
  <2>6. step(p, k) = OneLimb(p, x, b, M)
    <3>1. PICK u : u = AddMul(p, x, b, M)
      OBVIOUS
    <3>2. PICK v : v = AddMul(u, Clearing(u, M), M.n, M)
      OBVIOUS
    <3>3. { AddMul(y, (y[0] * M.ninv) % Radix, M.n, M) : y \in {AddMul(p, a[k], b, M)} } = {v}
      BY <2>5, <3>1, <3>2 DEF Clearing
    <3>4. step(p, k) = Down(v)
      <4> HIDE DEF Down
      <4> QED
        BY <3>3 DEF Only
    <3> QED
      BY <3>1, <3>2, <3>4 DEF OneLimb, Shifted
  <2>7. PICK s : s = OneLimb(p, x, b, M)
    OBVIOUS
  <2>8. s \in Limbs(n + 2) /\ Value(s, n + 2) < Value(M.n, n) + Value(b, n)
    BY <2>2, <2>7, OneLimbExact
  <2>9. PICK e \in Nat : Value(s, n + 2) * Radix
                           = (Value(p, n + 2) + x * Value(b, n)) + e * Value(M.n, n)
    BY <2>2, <2>7, OneLimbExact
  <2>10. n + 2 \in Nat /\ n + 2 \in 0 .. n + 2
    BY <1>0
  <2>11. PICK V \in Nat : V = Value(s, n + 2)
    BY <2>8, <2>10, LimbsValue
  <2>12. PICK P \in Nat : P = Value(p, n + 2)
    BY <2>2, <2>10, LimbsValue
  <2>13. PICK N \in Nat : N = Value(M.n, n)
    BY <1>1
  <2>14. PICK B \in Nat : B = Value(b, n)
    BY <1>1
  <2>15. PICK A \in Nat : A = Value(a, k)
    BY <1>1, <2>1
  <2>16. PICK w \in Nat : w = Weight(k)
    BY <1>1, <2>1
  <2>17. PICK r \in Nat : r = Radix
    BY RadixType
  <2>18. Weight(k + 1) = r * w
    BY <2>1, <2>16, <2>17, WeightNext
  <2>19. Value(a, k + 1) = A + x * w
    <3>1. Value(a, k + 1) = Value(a, k) + a[k] * Weight(k)
      BY <1>0, <2>1, HasLimbsValue
    <3> QED
      BY <2>5, <2>15, <2>16, <3>1
  <2>20. V * (r * w) = (A + x * w) * B + (m + e * w) * N
    <3>1. V * r = (P + x * B) + e * N
      BY <2>9, <2>11, <2>12, <2>13, <2>14, <2>17
    <3>2. P * w = A * B + m * N
      BY <2>3, <2>12, <2>13, <2>14, <2>15, <2>16
    <3>3. V * (r * w) = (V * r) * w
      OBVIOUS
    <3>4. ((P + x * B) + e * N) * w = (P * w + (x * w) * B) + (e * w) * N
      BY <2>5
    <3>5. (A + x * w) * B = A * B + (x * w) * B
      BY <2>5
    <3>6. (m + e * w) * N = m * N + (e * w) * N
      OBVIOUS
    <3>7. PICK g1 \in Nat : g1 = A * B
      OBVIOUS
    <3>8. PICK g2 \in Nat : g2 = m * N
      OBVIOUS
    <3>9. PICK g3 \in Nat : g3 = (x * w) * B
      BY <2>5
    <3>10. PICK g4 \in Nat : g4 = (e * w) * N
      OBVIOUS
    <3>11. V * (r * w) = ((g1 + g2) + g3) + g4
      BY <3>1, <3>2, <3>3, <3>4, <3>7, <3>8, <3>9, <3>10
    <3> QED
      BY <3>5, <3>6, <3>7, <3>8, <3>9, <3>10, <3>11
  <2>21. PICK f \in Nat : f = m + e * w
    OBVIOUS
  <2>22. Value(s, n + 2) * Weight(k + 1) = Value(a, k + 1) * Value(b, n) + f * Value(M.n, n)
    BY <2>11, <2>13, <2>14, <2>18, <2>19, <2>20, <2>21
  <2>23. s \in ProductStates(a, b, M)[k + 1]
    BY <2>1, <2>8, <2>22 DEF ProductStates
  <2> HIDE DEF step
  <2> QED
    BY <2>6, <2>7, <2>23
<1>5. \A k \in 0 .. n - 1 : \A p \in I[k] : /\ F[k][p] = step(p, k)
                                              /\ F[k][p] \in I[k + 1]
                                              /\ Only({ step(q, k) : q \in {p} }) = F[k][p]
  <2>1. \A k \in 0 .. n - 1 : \A p \in S : F[k][p] = step(p, k)
    <3> HIDE DEF step, S
    <3> QED
      OBVIOUS
  <2>2. \A k \in 0 .. n - 1 : \A p : Only({ step(q, k) : q \in {p} }) = step(p, k)
    <3> HIDE DEF step
    <3> QED
      BY DEF Only
  <2> HIDE DEF step, S, F, I
  <2> QED
    BY <1>0, <1>2, <1>4, <2>1, <2>2
<1>6. PICK f : Iterates(f, F, s0, n) /\ Within(f, I, n)
  <2> HIDE DEF F, I, s0, step
  <2> QED
    BY <1>0, <1>3, <1>5, Loop
<1> DEFINE Is(h) == h = [k \in 0 .. n |->
                          IF k = 0 THEN s0 ELSE Only({ step(p, k - 1) : p \in {h[k - 1]} })]
           g == CHOOSE h : Is(h)
<1>7. Is(f)
  <2>1. \A k \in 1 .. n : F[k - 1][f[k - 1]] = Only({ step(p, k - 1) : p \in {f[k - 1]} })
    <3>1. SUFFICES ASSUME NEW k \in 1 .. n
                   PROVE  F[k - 1][f[k - 1]] = Only({ step(p, k - 1) : p \in {f[k - 1]} })
      OBVIOUS
    <3>2. k - 1 \in 0 .. n - 1 /\ k - 1 \in 0 .. n
      BY <1>0
    <3> HIDE DEF step, I, F
    <3> QED
      BY <1>5, <1>6, <3>2 DEF Within
  <2>2. \A k \in 0 .. n : (IF k = 0 THEN s0 ELSE F[k - 1][f[k - 1]])
                         = IF k = 0 THEN s0 ELSE Only({ step(p, k - 1) : p \in {f[k - 1]} })
    <3> HIDE DEF step, F, s0, I, S
    <3> QED
      BY <1>0, <2>1
  <2> HIDE DEF step, F, s0, I, S
  <2> QED
    BY <1>6, <2>2 DEF Iterates
<1>8. Is(g)
  <2> HIDE DEF Is
  <2> QED
    BY <1>7
<1>9. g[0] = s0 /\ \A k \in 0 .. n - 1 : g[k + 1] = Only({ step(p, k) : p \in {g[k]} })
  <2> HIDE DEF step, g, s0, n
  <2>1. g[0] = s0
    BY <1>0, <1>8
  <2>2. ASSUME NEW k \in 0 .. n - 1 PROVE g[k + 1] = Only({ step(p, k) : p \in {g[k]} })
    <3>1. k + 1 \in 0 .. n /\ k + 1 # 0 /\ (k + 1) - 1 = k
      BY <1>0
    <3> QED
      BY <1>8, <3>1
  <2> QED
    BY <2>1, <2>2
<1>10. \A k \in 0 .. n - 1 : g[k] \in I[k] => g[k + 1] = F[k][g[k]]
  <2> HIDE DEF step, g, I, F
  <2> QED
    BY <1>5, <1>9
<1>11. g[n] \in I[n]
  <2>1. \A k \in 0 .. n - 1 : \A p \in I[k] : F[k][p] \in I[k + 1]
    <3> HIDE DEF step, g, I, F, s0, n
    <3> QED
      BY <1>5
  <2>2. g[0] = s0
    <3> HIDE DEF step, g, I, F, s0, n
    <3> QED
      BY <1>9
  <2> HIDE DEF step, g, I, F, s0, n
  <2> QED
    BY <1>0, <1>3, <1>10, <2>1, <2>2, LoopEnds
<1>12. Accumulate(step, s0, n) \in I[n]
  <2>1. Accumulate(step, s0, n) = g[n]
    BY DEF Accumulate
  <2> QED
    BY <1>11, <2>1
<1>13. Product(a, b, M) = Accumulate(step, s0, n)
  BY DEF Product
<1> QED
  BY <1>12, <1>13

\* The Montgomery product of a and b is a * b / R modulo n and below n, whichever of the
\* two loops multiplies and whether n is subtracted in the end or not (cpu_montmul_n,
\* DECL_MONTMUL_EXACT_ADX).
THEOREM MontMulExact ==
  ASSUME NEW M, Modular(M), NEW a, HasLimbs(a, M.nl), NEW b, HasLimbs(b, M.nl),
         Value(b, M.nl) < Value(M.n, M.nl)
  PROVE  /\ MontMul(a, b, M) \in Limbs(M.nl)
         /\ Value(MontMul(a, b, M), M.nl) < Value(M.n, M.nl)
         /\ \E m \in Int : Value(MontMul(a, b, M), M.nl) * Weight(M.nl)
                             = Value(a, M.nl) * Value(b, M.nl) + m * Value(M.n, M.nl)
<1>1. PICK l \in Nat : l = M.nl /\ l > 0
  BY ModularType
<1>2. PICK n \in Limbs(l) : n = M.n /\ HasLimbs(n, l)
  BY <1>1, ModularType
<1>3. PICK N \in Nat : N = Value(n, l) /\ N < Weight(l)
  BY <1>1, <1>2, ModularType
<1>4. l + 2 \in Nat /\ l \in 0 .. l /\ l + 2 \in 0 .. l + 2 /\ l \in 0 .. l + 2 /\ l + 1 \in 0 .. l + 2
      /\ l < l + 2 /\ l + 1 < l + 2 /\ l \in 0 .. (l + 2) - 1 /\ l + 1 \in 0 .. (l + 2) - 1
      /\ l + 1 \in Nat /\ (l + 1) + 1 = l + 2
  OBVIOUS
<1>5. PICK B \in Nat : B = Value(b, l) /\ B < N
  BY <1>1, <1>2, <1>3, <1>4, HasLimbsValue
<1>6. PICK A \in Nat : A = Value(a, l)
  BY <1>1, <1>4, HasLimbsValue
<1>7. PICK t : t = Product(a, b, M)
  OBVIOUS
<1>8. t \in ProductStates(a, b, M)[l]
  BY <1>1, <1>7, ProductExact
<1>9. t \in Limbs(l + 2) /\ Value(t, l + 2) < N + B
  BY <1>1, <1>2, <1>3, <1>4, <1>5, <1>8 DEF ProductStates
<1>10. PICK m \in Nat : Value(t, l + 2) * Weight(l) = A * B + m * N
  BY <1>1, <1>2, <1>3, <1>4, <1>5, <1>6, <1>8 DEF ProductStates
<1>11. PICK T \in Nat : T = Value(t, l + 2)
  BY <1>4, <1>9, LimbsValue
<1>12. PICK w \in Nat : w = Weight(l)
  BY WeightType
<1>13. PICK r \in Nat : r = Radix /\ r >= 2
  BY RadixType
<1>14. PICK v \in Nat : v = Value(t, l)
  BY <1>4, <1>9, LimbsValue
<1>15. PICK t0 \in Nat : t0 = t[l]
  BY <1>4, <1>9, LimbsType
<1>16. PICK t1 \in Nat : t1 = t[l + 1]
  BY <1>4, <1>9, LimbsType
<1>17. T = (v + t0 * w) + t1 * (r * w)
  <2>1. Value(t, l + 1) = v + t0 * w
    BY <1>4, <1>9, <1>12, <1>14, <1>15, LimbsValue
  <2>2. Value(t, (l + 1) + 1) = Value(t, l + 1) + t[l + 1] * Weight(l + 1)
    BY <1>4, <1>9, LimbsValue
  <2>3. Weight(l + 1) = r * w
    BY <1>12, <1>13, WeightNext
  <2> QED
    BY <1>4, <1>11, <1>16, <2>1, <2>2, <2>3
<1>18. t1 = 0
  <2>1. SUFFICES ASSUME t1 >= 1 PROVE FALSE
    OBVIOUS
  <2>2. t1 * (r * w) >= r * w
    BY <2>1
  <2>3. r * w >= 2 * w
    BY <1>13
  <2>4. T < 2 * w
    BY <1>3, <1>5, <1>9, <1>11, <1>12
  <2>5. t0 * w >= 0
    OBVIOUS
  <2>6. PICK g \in Nat : g = t1 * (r * w)
    OBVIOUS
  <2>7. PICK h \in Nat : h = t0 * w
    OBVIOUS
  <2>8. PICK q \in Nat : q = r * w
    OBVIOUS
  <2> QED
    BY <1>17, <2>2, <2>3, <2>4, <2>6, <2>7, <2>8
<1>19. T = v + t0 * w
  BY <1>17, <1>18
<1>20. HasLimbs(t, l)
  <2>1. \A j \in 0 .. l - 1 : j \in 0 .. (l + 2) - 1
    OBVIOUS
  <2> QED
    BY <1>4, <1>9, <2>1, LimbsType DEF HasLimbs
<1>21. PICK d : d = Brought(t, t0, n, l)
  OBVIOUS
<1>22. Value(t, l) + t0 * Weight(l) < 2 * Value(n, l)
  BY <1>3, <1>5, <1>9, <1>11, <1>12, <1>14, <1>19
<1>23. /\ d \in Limbs(l)
       /\ Value(d, l) < N
       /\ Value(d, l) = T \/ Value(d, l) = T - N
  BY <1>2, <1>3, <1>12, <1>14, <1>19, <1>20, <1>21, <1>22, Reduced
<1>24. MontMul(a, b, M) = d
  <2> DEFINE Result(y) == IF y[M.nl] # 0 \/ Gte(y, M.n, M.nl) THEN SubLimbs(y, M.n, M.nl)
                          ELSE [k \in 0 .. M.nl - 1 |-> y[k]]
             Products == { Product(x, y, M) : x \in {a}, y \in {b} }
  <2>1. Products = {t}
    BY <1>7
  <2>2. MontMul(a, b, M) = Only({ Result(y) : y \in Products })
    BY DEF MontMul
  <2>3. MontMul(a, b, M) = Result(t)
    <3> HIDE DEF Result, Products
    <3>1. { Result(y) : y \in Products } = {Result(t)}
      BY <2>1
    <3> QED
      BY <2>2, <3>1 DEF Only
  <2> QED
    BY <1>1, <1>2, <1>15, <1>21, <2>3 DEF Brought
<1>25. \E e \in Int : Value(d, l) * Weight(l) = A * B + e * N
  <2>1. CASE Value(d, l) = T
    BY <1>10, <1>11, <2>1
  <2>2. CASE Value(d, l) = T - N
    <3>1. (T - N) * w = (A * B + m * N) - N * w
      BY <1>10, <1>11, <1>12
    <3>2. (A * B + m * N) - N * w = A * B + (m - w) * N
      OBVIOUS
    <3>3. m - w \in Int
      OBVIOUS
    <3>4. Value(d, l) * Weight(l) = A * B + (m - w) * N
      BY <1>12, <2>2, <3>1, <3>2
    <3> QED
      BY <3>3, <3>4
  <2> QED
    BY <1>23, <2>1, <2>2
<1> QED
  BY <1>1, <1>2, <1>3, <1>5, <1>6, <1>23, <1>24, <1>25

-----------------------------------------------------------------------------
(* Montgomery forms                                                         *)

Congruent(x, y, n) == \E q \in Int : x = y + q * n

\* n divides x, and the k-th double of x.
Multiple(x, n)    == \E p \in Int : x = p * n
Doubled(x, k, n)  == \E q \in Int : 2^k * x = q * n

\* An odd number that divides a multiple of a power of two divides the other factor.
LEMMA Cancel ==
  ASSUME NEW n \in Nat, n % 2 = 1, NEW k \in Nat, NEW x \in Int, Doubled(x, k, n)
  PROVE  Multiple(x, n)
<1> DEFINE G == { j \in 0 .. k : \E p \in Int : 2^(k - j) * x = p * n }
<1>1. 0 \in G
  <2>1. k - 0 = k
    OBVIOUS
  <2>2. PICK q \in Int : 2^(k - 0) * x = q * n
    BY <2>1 DEF Doubled
  <2> QED
    BY <2>2
<1>2. ASSUME NEW j \in 0 .. k - 1, j \in G PROVE j + 1 \in G
  <2>1. PICK p \in Int : 2^(k - j) * x = p * n
    BY <1>2
  <2>2. PICK i \in Nat : i = k - (j + 1) /\ k - j = i + 1
    OBVIOUS
  <2>3. PICK w \in Nat : w = 2^i /\ 2^(i + 1) = 2 * w
    BY PowerType, PowerNext
  <2>4. 2 * (w * x) = p * n
    <3>1. 2^(k - j) = 2 * w
      BY <2>2, <2>3
    <3>2. (2 * w) * x = 2 * (w * x)
      OBVIOUS
    <3> QED
      BY <2>1, <3>1, <3>2
  <2>5. PICK h \in Nat : n = 2 * h + 1
    <3>1. n = 2 * (n \div 2) + 1 /\ n \div 2 \in Nat
      OBVIOUS
    <3> QED
      BY <3>1
  <2>6. PICK y \in Int : y = w * x
    OBVIOUS
  <2>7. PICK g \in Int : g = p * h
    OBVIOUS
  <2>8. 2 * y = 2 * g + p
    <3>1. p * (2 * h + 1) = 2 * (p * h) + p
      OBVIOUS
    <3> QED
      BY <2>4, <2>5, <2>6, <2>7, <3>1
  <2>9. PICK s \in Int : s = y - g /\ p = 2 * s
    BY <2>8
  <2>10. w * x = s * n
    <3>1. (2 * s) * n = 2 * (s * n)
      OBVIOUS
    <3>2. PICK e \in Int : e = s * n
      OBVIOUS
    <3>3. 2 * y = 2 * e
      BY <2>4, <2>6, <2>9, <3>1, <3>2
    <3> QED
      BY <2>6, <3>2, <3>3
  <2>11. 2^(k - (j + 1)) * x = s * n
    BY <2>2, <2>3, <2>10
  <2> QED
    BY <2>11
<1> HIDE DEF G
<1>3. k \in G
  BY <1>1, <1>2, Induction
<1>4. k - k = 0 /\ 2^0 = 1
  BY PowerZero
<1>5. PICK p \in Int : 2^(k - k) * x = p * n
  BY <1>3 DEF G
<1>6. 2^(k - k) = 1
  BY <1>4
<1>7. x = p * n
  BY <1>5, <1>6
<1> QED
  BY <1>7 DEF Multiple

\* The limbs a are the Montgomery form of y.
Form(a, y, M) ==
  /\ a \in Limbs(M.nl) /\ Value(a, M.nl) < Value(M.n, M.nl)
  /\ Congruent(Value(a, M.nl), y * Weight(M.nl), Value(M.n, M.nl))

OddModulus(M) == Modular(M) /\ Value(M.n, M.nl) % 2 = 1

\* What a Montgomery form consists of.
LEMMA FormType ==
  ASSUME NEW M, OddModulus(M), NEW a, NEW y, Form(a, y, M)
  PROVE  /\ HasLimbs(a, M.nl) /\ a \in Limbs(M.nl)
         /\ Value(a, M.nl) \in Nat /\ Value(a, M.nl) < Value(M.n, M.nl)
<1>1. M.nl \in Nat
  BY ModularType DEF OddModulus
<1>2. a \in Limbs(M.nl) /\ Value(a, M.nl) < Value(M.n, M.nl)
  BY DEF Form
<1>3. HasLimbs(a, M.nl)
  BY <1>2 DEF Limbs, HasLimbs
<1>4. M.nl \in 0 .. M.nl
  BY <1>1
<1> QED
  BY <1>1, <1>2, <1>3, <1>4, LimbsValue

\* Montgomery forms multiply as the numbers they stand for.
LEMMA FormTimes ==
  ASSUME NEW M, OddModulus(M), NEW a, NEW b, NEW y \in Nat, NEW z \in Nat, Form(a, y, M), Form(b, z, M)
  PROVE  Form(MontMul(a, b, M), y * z, M)
<1>1. Modular(M)
  BY DEF OddModulus
<1>2. PICK l \in Nat : l = M.nl
  BY <1>1, ModularType
<1>3. PICK N \in Nat : N = Value(M.n, l) /\ N % 2 = 1
  BY <1>1, <1>2, ModularType DEF OddModulus
<1>4. HasLimbs(a, l) /\ HasLimbs(b, l) /\ Value(a, l) \in Nat /\ Value(b, l) \in Nat /\ Value(b, l) < N
  BY <1>2, <1>3, FormType
<1>5. PICK A \in Nat : A = Value(a, l)
  BY <1>4
<1>6. PICK B \in Nat : B = Value(b, l)
  BY <1>4
<1>7. PICK w \in Nat : w = Weight(l)
  BY WeightType
<1>8. PICK q1 \in Int : A = y * w + q1 * N
  BY <1>2, <1>3, <1>5, <1>7 DEF Form, Congruent
<1>9. PICK q2 \in Int : B = z * w + q2 * N
  BY <1>2, <1>3, <1>6, <1>7 DEF Form, Congruent
<1>10. PICK r : r = MontMul(a, b, M)
  OBVIOUS
<1>11. r \in Limbs(l) /\ Value(r, l) < N
  BY <1>1, <1>2, <1>3, <1>4, <1>10, MontMulExact
<1>12. PICK m \in Int : Value(r, l) * w = A * B + m * N
  BY <1>1, <1>2, <1>3, <1>4, <1>5, <1>6, <1>7, <1>10, MontMulExact
<1>13. PICK V \in Nat : V = Value(r, l)
  <2>1. l \in 0 .. l
    OBVIOUS
  <2> QED
    BY <1>11, <2>1, LimbsValue
<1>14. w * (V - (y * z) * w) = ((y * w) * q2 + (q1 * B + m)) * N
  <2>1. A * B = (y * w) * B + (q1 * N) * B
    BY <1>8
  <2>2. (y * w) * B = (y * w) * (z * w) + ((y * w) * q2) * N
    BY <1>9
  <2>3. (q1 * N) * B = (q1 * B) * N
    OBVIOUS
  <2>4. (y * w) * (z * w) = w * ((y * z) * w)
    OBVIOUS
  <2>5. V * w = ((w * ((y * z) * w) + ((y * w) * q2) * N) + (q1 * B) * N) + m * N
    BY <1>12, <1>13, <2>1, <2>2, <2>3, <2>4
  <2>6. ((y * w) * q2 + (q1 * B + m)) * N = (((y * w) * q2) * N + (q1 * B) * N) + m * N
    OBVIOUS
  <2>7. PICK g \in Nat : g = (y * z) * w
    OBVIOUS
  <2>8. w * (V - g) = V * w - w * g
    OBVIOUS
  <2>9. PICK h1 \in Int : h1 = ((y * w) * q2) * N
    OBVIOUS
  <2>10. PICK h2 \in Int : h2 = (q1 * B) * N
    OBVIOUS
  <2>11. PICK h3 \in Int : h3 = m * N
    OBVIOUS
  <2>12. PICK h4 \in Int : h4 = w * g
    OBVIOUS
  <2>13. V * w - h4 = (h1 + h2) + h3
    BY <2>5, <2>7, <2>9, <2>10, <2>11, <2>12
  <2> QED
    BY <2>6, <2>7, <2>8, <2>9, <2>10, <2>11, <2>12, <2>13
<1>15. PICK d \in Int : d = V - (y * z) * w
  OBVIOUS
<1>16. PICK e \in Int : e = (y * w) * q2 + (q1 * B + m)
  OBVIOUS
<1>17. \E p \in Int : d = p * N
  <2>1. LimbBits * l \in Nat /\ w = 2^(LimbBits * l)
    BY <1>7, LimbAssumption DEF Weight
  <2>2. PICK k \in Nat : k = LimbBits * l /\ w = 2^k
    BY <2>1
  <2>3. 2^k * d = e * N
    BY <1>14, <1>15, <1>16, <2>2
  <2>4. Doubled(d, k, N)
    BY <1>16, <2>3 DEF Doubled
  <2>5. Multiple(d, N)
    BY <1>3, <1>15, <2>2, <2>4, Cancel
  <2> QED
    BY <2>5 DEF Multiple
<1>18. PICK p \in Int : d = p * N
  BY <1>17
<1>19. V = (y * z) * w + p * N
  BY <1>15, <1>18
<1>20. Congruent(V, (y * z) * w, N)
  BY <1>19 DEF Congruent
<1> QED
  BY <1>2, <1>3, <1>7, <1>10, <1>11, <1>13, <1>20 DEF Form

\* One has the value 1.
LEMMA OneValue ==
  ASSUME NEW n \in Nat, n > 0
  PROVE  One(n) \in Limbs(n) /\ Value(One(n), n) = 1
<1>1. PICK o : o = One(n)
  OBVIOUS
<1>2. o \in Limbs(n) /\ o[0] = 1 /\ \A k \in 1 .. n - 1 : o[k] = 0
  BY <1>1, RadixType DEF One, Limbs
<1> DEFINE G == { k \in 0 .. n : k > 0 => Value(o, k) = 1 }
<1>3. 0 \in G
  OBVIOUS
<1>4. ASSUME NEW k \in 0 .. n - 1, k \in G PROVE k + 1 \in G
  <2>1. k \in 0 .. n /\ k < n /\ k \in Nat /\ k + 1 \in 0 .. n
    OBVIOUS
  <2>2. Value(o, k + 1) = Value(o, k) + o[k] * Weight(k)
    BY <1>2, <2>1, LimbsValue
  <2>3. CASE k = 0
    BY <1>2, <2>1, <2>2, <2>3, ValueZero, WeightZero
  <2>4. CASE k # 0
    <3>1. o[k] = 0 /\ Value(o, k) = 1 /\ Weight(k) \in Nat
      BY <1>2, <1>4, <2>1, <2>4, WeightType
    <3> QED
      BY <2>1, <2>2, <3>1
  <2> QED
    BY <2>3, <2>4
<1> HIDE DEF G
<1>5. n \in G
  BY <1>3, <1>4, Induction
<1> QED
  BY <1>1, <1>2, <1>5 DEF G

\* Out of Montgomery form, by a product with one.
LEMMA FormLeft ==
  ASSUME NEW M, OddModulus(M), NEW a, NEW y \in Nat, Form(a, y, M), Value(M.n, M.nl) > 1
  PROVE  /\ MontMul(a, One(M.nl), M) \in Limbs(M.nl)
         /\ Value(MontMul(a, One(M.nl), M), M.nl) = y % Value(M.n, M.nl)
<1>1. Modular(M)
  BY DEF OddModulus
<1>2. PICK l \in Nat : l = M.nl /\ l > 0
  BY <1>1, ModularType
<1>3. PICK N \in Nat : N = Value(M.n, l) /\ N % 2 = 1 /\ N > 1
  BY <1>1, <1>2, ModularType DEF OddModulus
<1>4. HasLimbs(a, l) /\ Value(a, l) \in Nat
  BY <1>2, <1>3, FormType
<1>5. PICK A \in Nat : A = Value(a, l)
  BY <1>4
<1>6. PICK o : o = One(l)
  OBVIOUS
<1>7. Value(o, l) = 1 /\ HasLimbs(o, l)
  <2>1. o \in Limbs(l) /\ Value(o, l) = 1
    BY <1>2, <1>6, OneValue
  <2> QED
    BY <2>1 DEF Limbs, HasLimbs
<1>8. PICK w \in Nat : w = Weight(l)
  BY WeightType
<1>9. PICK q \in Int : A = y * w + q * N
  BY <1>2, <1>3, <1>5, <1>8 DEF Form, Congruent
<1>10. PICK r : r = MontMul(a, o, M)
  OBVIOUS
<1>11. r \in Limbs(l) /\ Value(r, l) < N
  BY <1>1, <1>2, <1>3, <1>4, <1>7, <1>10, MontMulExact
<1>12. PICK m \in Int : Value(r, l) * w = A * 1 + m * N
  BY <1>1, <1>2, <1>3, <1>4, <1>5, <1>7, <1>8, <1>10, MontMulExact
<1>13. PICK V \in Nat : V = Value(r, l)
  <2>1. l \in 0 .. l
    OBVIOUS
  <2> QED
    BY <1>11, <2>1, LimbsValue
<1>14. w * (V - y) = (q + m) * N
  <2>1. V * w = (y * w + q * N) + m * N
    BY <1>9, <1>12, <1>13
  <2>2. (q + m) * N = q * N + m * N
    OBVIOUS
  <2>3. w * (V - y) = V * w - y * w
    OBVIOUS
  <2> QED
    BY <2>1, <2>2, <2>3
<1>15. PICK d \in Int : d = V - y
  OBVIOUS
<1>16. PICK e \in Int : e = q + m
  OBVIOUS
<1>17. \E p \in Int : d = p * N
  <2>1. LimbBits * l \in Nat /\ w = 2^(LimbBits * l)
    BY <1>8, LimbAssumption DEF Weight
  <2>2. PICK k \in Nat : k = LimbBits * l /\ w = 2^k
    BY <2>1
  <2>3. 2^k * d = e * N
    BY <1>14, <1>15, <1>16, <2>2
  <2>4. Doubled(d, k, N)
    BY <1>16, <2>3 DEF Doubled
  <2>5. Multiple(d, N)
    BY <1>3, <1>15, <2>2, <2>4, Cancel
  <2> QED
    BY <2>5 DEF Multiple
<1>18. PICK p \in Int : V - y = p * N
  BY <1>15, <1>17
<1>19. V = y % N
  <2>1. PICK f \in Nat : f = y % N /\ f < N
    BY <1>3, Rest
  <2>2. PICK g \in Nat : g = y \div N
    BY <1>3, Rest
  <2>3. y = N * g + f
    <3>1. N \in Nat /\ N > 0 /\ y \in Int
      BY <1>3
    <3>2. y = N * (y \div N) + (y % N)
      BY <3>1, Rest
    <3> QED
      BY <2>1, <2>2, <3>2
  <2>4. V - f = N * (p + g)
    <3>1. N * (p + g) = p * N + N * g
      OBVIOUS
    <3> QED
      BY <1>18, <2>3, <3>1
  <2>5. V \in 0 .. N - 1 /\ f \in 0 .. N - 1 /\ p + g \in Int
    BY <1>11, <1>13, <2>1
  <2>6. V = f
    BY <2>4, <2>5, NoMultipleBetween
  <2> QED
    BY <2>1, <2>6
<1> QED
  BY <1>2, <1>3, <1>6, <1>10, <1>11, <1>13, <1>19

-----------------------------------------------------------------------------
(* The inverse of the modulus and R mod n                                   *)

\* A remainder of an integer, which may be negative.
LEMMA IntRest ==
  ASSUME NEW x \in Int, NEW w \in Nat, w > 0
  PROVE  x % w \in 0 .. w - 1 /\ \E q \in Int : x = w * q + (x % w)
<1>1. PICK q \in Int : q = x \div w
  OBVIOUS
<1>2. PICK e \in 0 .. w - 1 : e = x % w
  OBVIOUS
<1>3. x = w * q + e
  BY <1>1, <1>2
<1> QED
  BY <1>2, <1>3

\* x is the inverse of n0 in the lowest m bits, and in the lowest 2^k bits of a limb.
InverseTo(n0, x, m) == \E z \in Int : n0 * x = 1 + z * 2^m
InverseIn(n0, x, k) == \A m \in 0 .. LimbBits : m <= 2^k => InverseTo(n0, x, m)

Newton(n0, x) == (x * ((2 - n0 * x) % Radix)) % Radix

\* A Newton step doubles the bits in which the inverse is right.
LEMMA NewtonStep ==
  ASSUME NEW n0 \in Nat, NEW x \in 0 .. Radix - 1, NEW k \in Nat, InverseIn(n0, x, k)
  PROVE  Newton(n0, x) \in 0 .. Radix - 1 /\ InverseIn(n0, Newton(n0, x), k + 1)
<1>1. PICK r \in Nat : r = Radix /\ r > 0
  BY RadixType
<1>2. x \in Nat
  BY <1>1
<1>3. PICK c \in Int : c = n0 * x
  BY <1>2
<1>4. PICK u : u = (2 - c) % r
  OBVIOUS
<1>5. u \in 0 .. r - 1 /\ \E q \in Int : 2 - c = r * q + u
  BY <1>1, <1>4, IntRest
<1>6. PICK q \in Int : 2 - c = r * q + u
  BY <1>5
<1>7. x * u \in Nat
  BY <1>2, <1>5
<1>8. PICK y : y = (x * u) % r
  OBVIOUS
<1>9. y \in 0 .. r - 1 /\ \E p \in Int : x * u = r * p + y
  <2>1. PICK v \in Int : v = x * u
    BY <1>7
  <2>2. y = v % r
    BY <1>8, <2>1
  <2> QED
    BY <1>1, <2>1, <2>2, IntRest
<1>10. PICK p \in Int : x * u = r * p + y
  BY <1>9
<1>11. y = Newton(n0, x)
  BY <1>1, <1>3, <1>4, <1>8 DEF Newton
<1>12. PICK g \in Int : n0 * y = c * (2 - c) + r * g
  <2>1. y \in Nat /\ u \in Nat
    BY <1>5, <1>9
  <2>2. y = x * u - r * p
    BY <1>10, <2>1
  <2>3. u = (2 - c) - r * q
    BY <1>6, <2>1
  <2>4. n0 * y = n0 * (x * u) - n0 * (r * p)
    BY <1>7, <2>2
  <2>5. n0 * (x * u) = c * u
    BY <1>2, <1>3, <2>1
  <2>6. c * u = c * (2 - c) - c * (r * q)
    BY <2>3
  <2>7. c * (r * q) = r * (c * q) /\ n0 * (r * p) = r * (n0 * p)
    OBVIOUS
  <2>8. PICK h1 \in Int : h1 = c * q
    OBVIOUS
  <2>9. PICK h2 \in Int : h2 = n0 * p
    OBVIOUS
  <2>10. r * (0 - (h1 + h2)) = (0 - r * h1) - r * h2
    OBVIOUS
  <2>11. n0 * y = c * (2 - c) + r * (0 - (h1 + h2))
    BY <2>4, <2>5, <2>6, <2>7, <2>8, <2>9, <2>10
  <2>12. PICK h \in Int : h = 0 - (h1 + h2)
    OBVIOUS
  <2>13. n0 * y = c * (2 - c) + r * h
    BY <2>11, <2>12
  <2> QED
    BY <2>13
<1>13. ASSUME NEW m \in 0 .. LimbBits, m <= 2^(k + 1) PROVE InverseTo(n0, y, m)
  <2>1. LimbBits \in Nat /\ m \in Nat
    BY LimbAssumption
  <2>2. PICK w \in Nat : w = 2^k /\ m <= 2 * w
    BY <1>13, PowerType, PowerNext
  <2>3. PICK h \in Nat : h <= m /\ h <= w /\ m - h <= h
    <3>1. PICK e \in Nat : m = 2 * e \/ m = 2 * e + 1
      <4>1. m \div 2 \in Nat /\ (m = 2 * (m \div 2) \/ m = 2 * (m \div 2) + 1)
        BY <2>1
      <4> QED
        BY <4>1
    <3>2. CASE m = 2 * e
      BY <2>1, <2>2, <3>2
    <3>3. CASE m = 2 * e + 1
      BY <2>1, <2>2, <3>3
    <3> QED
      BY <3>1, <3>2, <3>3
  <2>4. h \in 0 .. LimbBits /\ h <= 2^k
    BY <2>1, <2>2, <2>3
  <2>5. InverseTo(n0, x, h)
    BY <2>4 DEF InverseIn
  <2>6. PICK z \in Int : c = 1 + z * 2^h
    BY <1>3, <2>5 DEF InverseTo
  <2>7. PICK d \in Nat : h = (m - h) + d
    <3>1. h - (m - h) \in Nat /\ h = (m - h) + (h - (m - h))
      BY <2>1, <2>3
    <3> QED
      BY <3>1
  <2>8. PICK j \in Nat : j = m - h
    BY <2>1, <2>3
  <2>9. PICK i \in Nat : i = LimbBits - m
    BY <2>1
  <2>10. PICK H \in Nat : H = 2^h
    BY PowerType
  <2>11. PICK J \in Nat : J = 2^j
    BY PowerType
  <2>12. PICK D \in Nat : D = 2^d
    BY PowerType
  <2>13. PICK B \in Nat : B = 2^m
    BY <2>1, PowerType
  <2>14. PICK T \in Nat : T = 2^i
    BY PowerType
  <2>15. B = H * J
    <3>1. m = h + j
      BY <2>1, <2>3, <2>8
    <3> QED
      BY <2>10, <2>11, <2>13, <3>1, PowerSum
  <2>16. H = J * D
    <3>1. h = j + d
      BY <2>7, <2>8
    <3> QED
      BY <2>10, <2>11, <2>12, <3>1, PowerSum
  <2>17. r = B * T
    <3>1. LimbBits = m + i
      BY <2>1, <2>9
    <3> QED
      BY <1>1, <2>1, <2>13, <2>14, <3>1, PowerSum DEF Radix
  <2>18. c * (2 - c) = 1 - (z * H) * (z * H)
    <3>1. PICK a \in Int : a = z * H
      OBVIOUS
    <3>2. c = 1 + a
      BY <2>6, <2>10, <3>1
    <3>3. (1 + a) * (2 - (1 + a)) = 1 - a * a
      OBVIOUS
    <3> QED
      BY <3>1, <3>2, <3>3
  <2>19. (z * H) * (z * H) = ((z * z) * D) * B
    <3>1. (z * H) * (z * H) = (z * z) * (H * H)
      OBVIOUS
    <3>2. H * H = H * (J * D)
      BY <2>16
    <3>3. H * (J * D) = D * (H * J)
      OBVIOUS
    <3>4. H * H = D * B
      BY <2>15, <3>2, <3>3
    <3>5. (z * z) * (D * B) = ((z * z) * D) * B
      OBVIOUS
    <3> QED
      BY <3>1, <3>4, <3>5
  <2>20. r * g = (T * g) * B
    <3>1. (B * T) * g = (T * g) * B
      OBVIOUS
    <3> QED
      BY <2>17, <3>1
  <2>21. PICK a1 \in Int : a1 = (z * z) * D
    OBVIOUS
  <2>22. PICK a2 \in Int : a2 = T * g
    OBVIOUS
  <2>23. (a2 - a1) * B = a2 * B - a1 * B
    OBVIOUS
  <2>24. n0 * y = 1 + (a2 - a1) * B
    <3>1. PICK b1 \in Int : b1 = a1 * B
      OBVIOUS
    <3>2. PICK b2 \in Int : b2 = a2 * B
      OBVIOUS
    <3>3. n0 * y = (1 - b1) + b2
      BY <1>12, <2>18, <2>19, <2>20, <2>21, <2>22, <3>1, <3>2
    <3> QED
      BY <2>23, <3>1, <3>2, <3>3
  <2> QED
    BY <2>13, <2>24 DEF InverseTo
<1> QED
  BY <1>1, <1>9, <1>11, <1>13 DEF InverseIn

\* The Newton steps of mont_ninv from 1 end with minus the inverse of an odd limb.
LEMMA MontNinvExact ==
  ASSUME NEW n0 \in Nat, n0 % 2 = 1
  PROVE  /\ MontNinv(n0) \in 0 .. Radix - 1
         /\ \E z \in Int : n0 * MontNinv(n0) = Radix * z - 1
<1> DEFINE n == NinvSteps
           S == 0 .. Radix - 1
           I == [k \in 0 .. n |-> { x \in S : InverseIn(n0, x, k) }]
           step(x, k) == (x * ((2 - n0 * x) % Radix)) % Radix
           s0 == 1
           F == [k \in 0 .. n - 1 |-> [x \in S |-> step(x, k)]]
<1>0. n \in Nat
  BY LimbAssumption
<1>2. \A k \in 0 .. n : I[k] \subseteq S
  OBVIOUS
<1>3. s0 \in I[0]
  <2>1. 1 \in S
    BY RadixType
  <2>2. ASSUME NEW m \in 0 .. LimbBits, m <= 2^0 PROVE InverseTo(n0, 1, m)
    <3>1. m = 0 \/ m = 1
      BY <2>2, PowerZero, LimbAssumption
    <3>2. CASE m = 0
      <4>1. n0 * 1 = 1 + (n0 - 1) * 1 /\ 2^m = 1
        BY <3>2, PowerZero
      <4> QED
        BY <4>1 DEF InverseTo
    <3>3. CASE m = 1
      <4>1. n0 * 1 = 1 + (n0 \div 2) * 2 /\ 2^m = 2 /\ n0 \div 2 \in Int
        BY <3>3, PowerOne
      <4> QED
        BY <4>1 DEF InverseTo
    <3> QED
      BY <3>1, <3>2, <3>3
  <2>3. InverseIn(n0, 1, 0)
    BY <2>2 DEF InverseIn
  <2> QED
    BY <1>0, <2>1, <2>3
<1>4. \A k \in 0 .. n - 1 : \A p \in I[k] : step(p, k) \in I[k + 1]
  <2>1. SUFFICES ASSUME NEW k \in 0 .. n - 1, NEW p \in I[k] PROVE step(p, k) \in I[k + 1]
    OBVIOUS
  <2>2. k \in Nat /\ k \in 0 .. n /\ k + 1 \in 0 .. n
    BY <1>0
  <2>3. p \in S /\ InverseIn(n0, p, k)
    BY <2>2
  <2>4. Newton(n0, p) \in S /\ InverseIn(n0, Newton(n0, p), k + 1)
    BY <2>2, <2>3, NewtonStep
  <2>5. step(p, k) = Newton(n0, p)
    BY DEF Newton
  <2> HIDE DEF step
  <2> QED
    BY <2>2, <2>4, <2>5
<1>5. \A k \in 0 .. n - 1 : \A p \in I[k] : /\ F[k][p] = step(p, k)
                                              /\ F[k][p] \in I[k + 1]
                                              /\ Only({ step(q, k) : q \in {p} }) = F[k][p]
  <2>1. \A k \in 0 .. n - 1 : \A p \in S : F[k][p] = step(p, k)
    <3> HIDE DEF step, S
    <3> QED
      OBVIOUS
  <2>2. \A k \in 0 .. n - 1 : \A p : Only({ step(q, k) : q \in {p} }) = step(p, k)
    <3> HIDE DEF step
    <3> QED
      BY DEF Only
  <2> HIDE DEF step, S, F, I
  <2> QED
    BY <1>0, <1>2, <1>4, <2>1, <2>2
<1>6. PICK f : Iterates(f, F, s0, n) /\ Within(f, I, n)
  <2> HIDE DEF F, I, s0, step
  <2> QED
    BY <1>0, <1>3, <1>5, Loop
<1> DEFINE Is(h) == h = [k \in 0 .. n |->
                          IF k = 0 THEN s0 ELSE Only({ step(p, k - 1) : p \in {h[k - 1]} })]
           g == CHOOSE h : Is(h)
<1>7. Is(f)
  <2>1. \A k \in 1 .. n : F[k - 1][f[k - 1]] = Only({ step(p, k - 1) : p \in {f[k - 1]} })
    <3>1. SUFFICES ASSUME NEW k \in 1 .. n
                   PROVE  F[k - 1][f[k - 1]] = Only({ step(p, k - 1) : p \in {f[k - 1]} })
      OBVIOUS
    <3>2. k - 1 \in 0 .. n - 1 /\ k - 1 \in 0 .. n
      BY <1>0
    <3> HIDE DEF step, I, F
    <3> QED
      BY <1>5, <1>6, <3>2 DEF Within
  <2>2. \A k \in 0 .. n : (IF k = 0 THEN s0 ELSE F[k - 1][f[k - 1]])
                         = IF k = 0 THEN s0 ELSE Only({ step(p, k - 1) : p \in {f[k - 1]} })
    <3> HIDE DEF step, F, s0, I, S
    <3> QED
      BY <1>0, <2>1
  <2> HIDE DEF step, F, s0, I, S
  <2> QED
    BY <1>6, <2>2 DEF Iterates
<1>8. Is(g)
  <2> HIDE DEF Is
  <2> QED
    BY <1>7
<1>9. g[0] = s0 /\ \A k \in 0 .. n - 1 : g[k + 1] = Only({ step(p, k) : p \in {g[k]} })
  <2> HIDE DEF step, g, s0, n, S
  <2>1. g[0] = s0
    BY <1>0, <1>8
  <2>2. ASSUME NEW k \in 0 .. n - 1 PROVE g[k + 1] = Only({ step(p, k) : p \in {g[k]} })
    <3>1. k + 1 \in 0 .. n /\ k + 1 # 0 /\ (k + 1) - 1 = k
      BY <1>0
    <3> QED
      BY <1>8, <3>1
  <2> QED
    BY <2>1, <2>2
<1>10. \A k \in 0 .. n - 1 : g[k] \in I[k] => g[k + 1] = F[k][g[k]]
  <2> HIDE DEF step, g, I, F
  <2> QED
    BY <1>5, <1>9
<1>11. g[n] \in I[n]
  <2>1. \A k \in 0 .. n - 1 : \A p \in I[k] : F[k][p] \in I[k + 1]
    <3> HIDE DEF step, g, I, F, s0, n, S
    <3> QED
      BY <1>5
  <2>2. g[0] = s0
    <3> HIDE DEF step, g, I, F, s0, n, S
    <3> QED
      BY <1>9
  <2> HIDE DEF step, g, I, F, s0, n, S
  <2> QED
    BY <1>0, <1>3, <1>10, <2>1, <2>2, LoopEnds
<1>12. Accumulate(step, s0, n) \in I[n]
  <2>1. Accumulate(step, s0, n) = g[n]
    BY DEF Accumulate
  <2> QED
    BY <1>11, <2>1
<1>13. PICK x \in I[n] : x = Accumulate(step, s0, n)
  BY <1>12
<1>14. x \in S /\ InverseIn(n0, x, n)
  <2>1. n \in 0 .. n
    BY <1>0
  <2>2. I[n] = { y \in S : InverseIn(n0, y, n) }
    BY <2>1
  <2> HIDE DEF I
  <2> QED
    BY <1>13, <2>2
<1>15. MontNinv(n0) = (Radix - x) % Radix
  BY <1>13 DEF MontNinv
<1>16. LimbBits \in Nat /\ LimbBits <= 2^n
  BY LimbAssumption
<1>17. InverseTo(n0, x, LimbBits)
  BY <1>14, <1>16 DEF InverseIn
<1>18. PICK r \in Nat : r = Radix /\ r > 0
  BY RadixType
<1>19. PICK z \in Int : n0 * x = 1 + z * r
  BY <1>17, <1>18 DEF InverseTo, Radix
<1>20. x \in Nat /\ r - x \in Int
  BY <1>14, <1>18
<1>21. PICK v : v = (r - x) % r
  OBVIOUS
<1>22. v \in 0 .. r - 1 /\ \E q \in Int : r - x = r * q + v
  BY <1>18, <1>20, <1>21, IntRest
<1>23. PICK q \in Int : r - x = r * q + v
  BY <1>22
<1>24. PICK h \in Int : h = 1 - q
  OBVIOUS
<1>25. v = r * h - x
  <2>1. r * (1 - q) = r - r * q
    OBVIOUS
  <2> QED
    BY <1>20, <1>22, <1>23, <1>24, <2>1
<1>26. n0 * v = r * (n0 * h - z) - 1
  <2>1. n0 * v = n0 * (r * h) - n0 * x
    BY <1>20, <1>25
  <2>2. n0 * (r * h) = r * (n0 * h)
    OBVIOUS
  <2>3. r * (n0 * h - z) = r * (n0 * h) - z * r
    OBVIOUS
  <2> QED
    BY <1>19, <2>1, <2>2, <2>3
<1>27. PICK e \in Int : e = n0 * h - z
  OBVIOUS
<1>28. n0 * v = r * e - 1
  BY <1>26, <1>27
<1> QED
  BY <1>15, <1>18, <1>21, <1>22, <1>28

\* The modulus of an odd number, with the inverse of its lowest limb.
LEMMA ModulusOdd ==
  ASSUME NEW nl \in Nat, nl > 0, NEW n, HasLimbs(n, nl), n[0] % 2 = 1, NEW adx
  PROVE  /\ OddModulus(Modulus(n, nl, adx))
         /\ Modulus(n, nl, adx).nl = nl
         /\ Modulus(n, nl, adx).n \in Limbs(nl)
         /\ \A k \in 0 .. nl - 1 : Modulus(n, nl, adx).n[k] = n[k]
         /\ Value(Modulus(n, nl, adx).n, nl) = Value(n, nl)
         /\ Value(n, nl) % 2 = 1
<1>1. PICK M : M = Modulus(n, nl, adx)
  OBVIOUS
<1>2. M.nl = nl /\ M.n = [k \in 0 .. nl - 1 |-> n[k]] /\ M.ninv = MontNinv(n[0])
  BY <1>1 DEF Modulus
<1>3. M.n \in Limbs(nl) /\ (\A k \in 0 .. nl - 1 : M.n[k] = n[k])
  BY <1>2 DEF Limbs, HasLimbs
<1>4. 0 \in 0 .. nl - 1 /\ M.n[0] = n[0]
  BY <1>3
<1>5. PICK n0 \in Nat : n0 = n[0] /\ n0 % 2 = 1
  <2>1. n[0] \in 0 .. Radix - 1
    BY <1>4 DEF HasLimbs
  <2> QED
    BY <2>1, RadixType
<1>6. M.ninv \in 0 .. Radix - 1 /\ \E z \in Int : M.n[0] * M.ninv = Radix * z - 1
  BY <1>2, <1>4, <1>5, MontNinvExact
<1>7. Modular(M)
  BY <1>2, <1>3, <1>6 DEF Modular
<1>8. Value(M.n, nl) = Value(n, nl)
  <2>1. \A j \in 0 .. nl - 1 : n[j] \in Nat /\ M.n[j] = n[j]
    BY <1>3, RadixType DEF HasLimbs
  <2> QED
    BY <2>1, ValueSame
<1>9. Value(n, nl) % 2 = 1
  <2>1. PICK z \in Nat : Value(n, nl) = n[0] + Radix * z
    BY FirstLimb
  <2>2. PICK h \in Nat : Radix = 2 * h
    BY HalfRadix
  <2>3. PICK c \in Nat : c = h * z
    OBVIOUS
  <2>4. Value(n, nl) = n0 + 2 * c
    <3>1. (2 * h) * z = 2 * (h * z)
      OBVIOUS
    <3> QED
      BY <1>5, <2>1, <2>2, <2>3, <3>1
  <2> QED
    BY <1>5, <2>4
<1>10. OddModulus(M)
  BY <1>2, <1>7, <1>8, <1>9 DEF OddModulus
<1> QED
  BY <1>1, <1>2, <1>3, <1>8, <1>9, <1>10

\* The place of the highest bit of a limb.
LEMMA MsbOfExact ==
  ASSUME NEW x \in 1 .. Radix - 1
  PROVE  /\ MsbOf(x) \in 0 .. LimbBits - 1
         /\ 2^MsbOf(x) <= x /\ x < 2^(MsbOf(x) + 1)
<1>1. PICK l \in Nat : l = LimbBits /\ l > 0 /\ Radix = 2^l
  BY LimbAssumption DEF Radix
<1>2. x \in Nat /\ x > 0 /\ x < 2^l
  BY <1>1, RadixType
<1> DEFINE S == { k \in 0 .. l - 1 : x \div 2^k > 0 }
<1>3. \A k \in 0 .. l - 1 : k \in S <=> 2^k <= x
  <2>1. SUFFICES ASSUME NEW k \in 0 .. l - 1 PROVE x \div 2^k > 0 <=> 2^k <= x
    OBVIOUS
  <2>2. PICK w \in Nat : w = 2^k /\ w > 0
    BY PowerType
  <2>3. PICK q \in Nat : q = x \div w
    BY <1>2, <2>2, Rest
  <2>4. PICK e \in Nat : x = w * q + e /\ e < w
    BY <1>2, <2>2, <2>3, Rest
  <2>5. CASE q = 0
    BY <2>2, <2>3, <2>4, <2>5
  <2>6. CASE q > 0
    <3>1. w * q >= w
      BY <2>6
    <3> QED
      BY <1>2, <2>2, <2>3, <2>4, <2>6, <3>1
  <2> QED
    BY <2>5, <2>6
<1>4. 0 \in S
  <2>1. 0 \in 0 .. l - 1 /\ 2^0 <= x
    BY <1>1, <1>2, PowerZero
  <2> QED
    BY <1>3, <2>1
<1>5. S \subseteq 0 .. l /\ S \subseteq Nat /\ S # {}
  <2>1. S \subseteq 0 .. l - 1
    OBVIOUS
  <2> HIDE DEF S
  <2> QED
    BY <1>1, <1>4, <2>1
<1>6. PICK m \in S : \A y \in S : m >= y
  <2> HIDE DEF S
  <2> QED
    BY <1>5, GreatestIn
<1>7. Greatest(S) = m
  <2> HIDE DEF S
  <2> QED
    BY <1>5, <1>6, GreatestOnly
<1>8. MsbOf(x) = m
  BY <1>1, <1>7 DEF MsbOf
<1>9. m \in 0 .. l - 1
  BY <1>6
<1> HIDE DEF S
<1>10. 2^m <= x
  BY <1>3, <1>6, <1>9
<1>11. x < 2^(m + 1)
  <2>1. CASE m = l - 1
    <3>1. m + 1 = l
      BY <1>1, <2>1
    <3> QED
      BY <1>2, <3>1
  <2>2. CASE m < l - 1
    <3>1. PICK k \in 0 .. l - 1 : k = m + 1
      BY <1>1, <1>9, <2>2
    <3>2. k \notin S
      BY <1>6, <1>9, <3>1
    <3>3. ~ (2^k <= x) /\ 2^k \in Nat
      BY <1>3, <3>2, PowerType
    <3> QED
      BY <1>2, <3>1, <3>3
  <2> QED
    BY <1>9, <2>1, <2>2
<1> QED
  BY <1>1, <1>8, <1>9, <1>10, <1>11

\* The limbs from k on are zero.
LEMMA ValueTop ==
  ASSUME NEW n \in Nat, NEW a, HasLimbs(a, n), NEW k \in 0 .. n, \A j \in k .. n - 1 : a[j] = 0
  PROVE  Value(a, n) = Value(a, k)
<1> DEFINE G == { j \in 0 .. n : j >= k => Value(a, j) = Value(a, k) }
<1>1. 0 \in G
  BY DEF G
<1>2. ASSUME NEW j \in 0 .. n - 1, j \in G PROVE j + 1 \in G
  <2>1. j \in 0 .. n /\ j < n /\ j + 1 \in 0 .. n
    OBVIOUS
  <2>2. CASE j < k
    <3>1. j + 1 >= k => j + 1 = k
      BY <2>1, <2>2
    <3> QED
      BY <2>1, <3>1
  <2>3. CASE j >= k
    <3>1. a[j] = 0 /\ Value(a, j) = Value(a, k)
      BY <1>2, <2>1, <2>3
    <3>2. Value(a, j + 1) = Value(a, j) + a[j] * Weight(j)
      BY <2>1, HasLimbsValue
    <3>3. Weight(j) \in Nat /\ Value(a, j) \in Nat
      BY <2>1, WeightType, HasLimbsValue
    <3>4. Value(a, j + 1) = Value(a, k)
      BY <3>1, <3>2, <3>3
    <3> QED
      BY <2>1, <3>4
  <2> QED
    BY <2>1, <2>2, <2>3
<1> HIDE DEF G
<1>3. n \in G
  BY <1>1, <1>2, Induction
<1> QED
  BY <1>3 DEF G

\* A power of two with its whole limbs apart.
LEMMA PowerWeight ==
  ASSUME NEW k \in Nat, NEW m \in Nat
  PROVE  LimbBits * k + m \in Nat /\ 2^(LimbBits * k + m) = 2^m * Weight(k)
<1>1. PICK i \in Nat : i = LimbBits * k
  BY LimbAssumption
<1>2. 2^(i + m) = 2^i * 2^m
  BY PowerSum
<1>3. 2^i \in Nat /\ 2^m \in Nat
  BY PowerType
<1>4. 2^i * 2^m = 2^m * 2^i
  BY <1>3
<1> QED
  BY <1>1, <1>2, <1>4 DEF Weight

\* The highest bit of a number whose highest limb that counts is g.
LEMMA MsbAt ==
  ASSUME NEW n \in Nat, NEW a, HasLimbs(a, n), NEW g \in 0 .. n - 1, a[g] # 0,
         \A j \in g + 1 .. n - 1 : a[j] = 0
  PROVE  /\ MsbOf(a[g]) \in 0 .. LimbBits - 1
         /\ g * LimbBits + MsbOf(a[g]) \in Nat
         /\ 2^(g * LimbBits + MsbOf(a[g])) = 2^MsbOf(a[g]) * Weight(g)
         /\ 2^(g * LimbBits + MsbOf(a[g])) <= Value(a, n)
         /\ Value(a, n) < 2^((g * LimbBits + MsbOf(a[g])) + 1)
<1>1. PICK x \in Nat : x = a[g] /\ x \in 1 .. Radix - 1
  <2>1. a[g] \in 0 .. Radix - 1
    BY DEF HasLimbs
  <2> QED
    BY <2>1, RadixType
<1>2. PICK m \in Nat : m = MsbOf(a[g]) /\ m \in 0 .. LimbBits - 1 /\ 2^m <= x /\ x < 2^(m + 1)
  BY <1>1, MsbOfExact, LimbAssumption
<1>3. PICK w \in Nat : w = Weight(g) /\ w > 0
  BY WeightType
<1>4. PICK p \in Nat : p = 2^m /\ 2^(m + 1) = 2 * p
  BY <1>2, PowerType, PowerNext
<1>5. PICK i \in Nat : i = g * LimbBits + m
  BY <1>2, LimbAssumption
<1>6. 2^i = p * w
  <2>1. g * LimbBits = LimbBits * g
    BY LimbAssumption
  <2>2. i = LimbBits * g + m
    BY <1>5, <2>1
  <2> QED
    BY <1>2, <1>3, <1>4, <2>2, PowerWeight
<1>7. 2^(i + 1) = 2 * (p * w)
  BY <1>5, <1>6, PowerNext
<1>8. PICK v \in Nat : v = Value(a, g) /\ v < w
  <2>1. g \in 0 .. n
    OBVIOUS
  <2> QED
    BY <1>3, <2>1, HasLimbsValue
<1>9. Value(a, n) = v + x * w
  <2>1. PICK h \in 0 .. n : h = g + 1 /\ \A j \in h .. n - 1 : a[j] = 0
    OBVIOUS
  <2>2. Value(a, n) = Value(a, h)
    BY <2>1, ValueTop
  <2>3. g \in 0 .. n /\ g < n
    OBVIOUS
  <2>4. Value(a, g + 1) = Value(a, g) + a[g] * Weight(g)
    BY <2>3, HasLimbsValue
  <2> QED
    BY <1>1, <1>3, <1>8, <2>1, <2>2, <2>4
<1>10. p * w <= x * w
  BY <1>2, <1>4
<1>11. x * w + w <= (2 * p) * w
  <2>1. x + 1 <= 2 * p
    BY <1>2, <1>4
  <2>2. (x + 1) * w <= (2 * p) * w
    BY <2>1
  <2>3. (x + 1) * w = x * w + w
    OBVIOUS
  <2> QED
    BY <2>2, <2>3
<1>12. (2 * p) * w = 2 * (p * w)
  OBVIOUS
<1>13. p * w <= v + x * w /\ v + x * w < 2 * (p * w)
  <2>1. PICK pw \in Nat : pw = p * w
    OBVIOUS
  <2>2. PICK xw \in Nat : xw = x * w
    OBVIOUS
  <2> QED
    BY <1>8, <1>10, <1>11, <1>12, <2>1, <2>2
<1> QED
  BY <1>2, <1>3, <1>4, <1>5, <1>6, <1>7, <1>9, <1>13

\* find_msb returns the highest bit set.
LEMMA FindMsbExact ==
  ASSUME NEW n \in Nat, n > 0, NEW a, HasLimbs(a, n), Value(a, n) > 0
  PROVE  /\ FindMsb(a, n) \in Nat
         /\ 2^FindMsb(a, n) <= Value(a, n) /\ Value(a, n) < 2^(FindMsb(a, n) + 1)
<1> DEFINE S == { k \in 0 .. n - 1 : k = 0 \/ a[k] # 0 }
<1>1. S \subseteq 0 .. n /\ S \subseteq Nat /\ S # {}
  <2>1. 0 \in S
    OBVIOUS
  <2> QED
    BY <2>1
<1>2. PICK g \in S : \A y \in S : g >= y
  <2> HIDE DEF S
  <2> QED
    BY <1>1, GreatestIn
<1>3. Greatest(S) = g
  <2> HIDE DEF S
  <2> QED
    BY <1>1, <1>2, GreatestOnly
<1>4. g \in 0 .. n - 1 /\ \A j \in g + 1 .. n - 1 : a[j] = 0
  <2>1. ASSUME NEW j \in g + 1 .. n - 1, a[j] # 0 PROVE FALSE
    <3>1. j \in S
      BY <1>2, <2>1
    <3> QED
      BY <1>2, <3>1
  <2> QED
    BY <1>2, <2>1
<1>5. a[g] # 0
  <2>1. ASSUME a[g] = 0 PROVE FALSE
    <3>1. g = 0
      BY <1>2, <2>1
    <3>2. \A j \in 0 .. n - 1 : a[j] = 0
      <4>1. \A j \in 0 .. n - 1 : j = 0 \/ j \in g + 1 .. n - 1
        BY <3>1
      <4> QED
        BY <1>4, <2>1, <3>1, <4>1
    <3>3. 0 \in 0 .. n
      OBVIOUS
    <3>4. Value(a, n) = Value(a, 0)
      BY <3>2, <3>3, ValueTop
    <3> QED
      BY <3>4, ValueZero
  <2> QED
    BY <2>1
<1>6. FindMsb(a, n) = g * LimbBits + MsbOf(a[g])
  BY <1>3 DEF FindMsb
<1> HIDE DEF S
<1> QED
  BY <1>4, <1>5, <1>6, MsbAt

\* Doubling with at most one subtraction of n.
LEMMA CongruentTwice ==
  ASSUME NEW n \in Nat, NEW x \in Int, NEW y \in Int, Congruent(x, y, n),
         NEW v \in Int, v = 2 * x \/ v = 2 * x - n
  PROVE  Congruent(v, 2 * y, n)
<1>1. PICK q \in Int : x = y + q * n
  BY DEF Congruent
<1>2. (2 * q) * n = 2 * (q * n) /\ (2 * q - 1) * n = 2 * (q * n) - n
  OBVIOUS
<1>3. PICK g \in Int : g = q * n
  OBVIOUS
<1>4. CASE v = 2 * x
  <2>1. v = 2 * y + (2 * q) * n
    BY <1>1, <1>2, <1>3, <1>4
  <2>2. PICK p \in Int : p = 2 * q
    OBVIOUS
  <2> QED
    BY <2>1, <2>2 DEF Congruent
<1>5. CASE v = 2 * x - n
  <2>1. v = 2 * y + (2 * q - 1) * n
    BY <1>1, <1>2, <1>3, <1>5
  <2>2. PICK p \in Int : p = 2 * q - 1
    OBVIOUS
  <2> QED
    BY <2>1, <2>2 DEF Congruent
<1> QED
  BY <1>4, <1>5

\* The states of the doublings from the highest bit of n: 2^k in the limbs, modulo n.
DoubledTo(n, nl, top) ==
  [k \in 0 .. (LimbBits * nl) - top |->
     { a \in Limbs(nl) : /\ Value(a, nl) < Value(n, nl)
                         /\ Congruent(Value(a, nl), 2^(top + k), Value(n, nl)) }]

\* Only the lowest number above a power of two is not odd.
LEMMA OddAbove ==
  ASSUME NEW x \in Nat, x % 2 = 1, x > 1, NEW k \in Nat, 2^k <= x
  PROVE  2^k < x
<1>1. CASE k = 0
  BY <1>1, PowerZero
<1>2. CASE k > 0
  <2>1. PICK j \in Nat : k = j + 1
    <3>1. k - 1 \in Nat /\ k = (k - 1) + 1
      BY <1>2
    <3> QED
      BY <3>1
  <2>2. PICK w \in Nat : w = 2^j
    BY PowerType
  <2>3. 2^k = 2 * w
    BY <2>1, <2>2, PowerNext
  <2>4. 2 * w # x
    OBVIOUS
  <2> QED
    BY <2>3, <2>4
<1> QED
  BY <1>1, <1>2

\* R mod n: from the highest bit of n by doubling.
LEMMA RModNExact ==
  ASSUME NEW nl \in Nat, nl > 0, NEW n, HasLimbs(n, nl), n[nl - 1] # 0,
         Value(n, nl) % 2 = 1, Value(n, nl) > 1
  PROVE  /\ RModN(n, nl) \in Limbs(nl)
         /\ Value(RModN(n, nl), nl) < Value(n, nl)
         /\ Congruent(Value(RModN(n, nl), nl), Weight(nl), Value(n, nl))
<1>a. PICK hi \in 0 .. nl - 1 : hi = nl - 1 /\ hi + 1 = nl
  OBVIOUS
<1>b. \A j \in hi + 1 .. nl - 1 : n[j] = 0
  BY <1>a
<1>c. /\ MsbOf(n[hi]) \in 0 .. LimbBits - 1
      /\ hi * LimbBits + MsbOf(n[hi]) \in Nat
      /\ 2^(hi * LimbBits + MsbOf(n[hi])) = 2^MsbOf(n[hi]) * Weight(hi)
      /\ 2^(hi * LimbBits + MsbOf(n[hi])) <= Value(n, nl)
  BY <1>a, <1>b, MsbAt
<1>d. PICK top \in Nat : top = (nl - 1) * LimbBits + MsbOf(n[nl - 1])
  BY <1>a, <1>c
<1>e. PICK m \in Nat : m = 2^MsbOf(n[nl - 1]) /\ m < Radix /\ 2^top = m * Weight(hi)
  <2>1. PICK b \in Nat : b = MsbOf(n[hi]) /\ b \in 0 .. LimbBits - 1
    BY <1>c, LimbAssumption
  <2>2. b + 1 <= LimbBits /\ LimbBits \in Nat /\ b + 1 \in Nat
    BY <2>1, LimbAssumption
  <2>3. 2^(b + 1) <= Radix
    BY <2>2, PowerOrder DEF Radix
  <2>4. 2^b \in Nat /\ 2^b > 0 /\ 2^(b + 1) = 2 * 2^b
    BY <2>1, PowerType, PowerNext
  <2>5. 2^b < Radix
    BY <2>3, <2>4, RadixType
  <2> QED
    BY <1>a, <1>c, <1>d, <2>1, <2>4, <2>5
<1>f. PICK N \in Nat : N = Value(n, nl) /\ N > 1 /\ N % 2 = 1 /\ N < Weight(nl)
  <2>1. nl \in 0 .. nl
    OBVIOUS
  <2> QED
    BY <2>1, HasLimbsValue
<1>g. 2^top < N
  <2>1. 2^top <= N
    BY <1>a, <1>c, <1>d, <1>f
  <2> QED
    BY <1>d, <1>f, <2>1, OddAbove
<1>hi. PICK all \in Nat : all = LimbBits * nl /\ top <= all
  <2>1. PICK all \in Nat : all = LimbBits * nl
    BY LimbAssumption
  <2>2. PICK i \in Nat : i = LimbBits * hi
    BY LimbAssumption
  <2>3. all = i + LimbBits
    <3>1. LimbBits * (hi + 1) = LimbBits * hi + LimbBits
      BY LimbAssumption
    <3> QED
      BY <1>a, <2>1, <2>2, <3>1
  <2>4. hi * LimbBits = LimbBits * hi
    BY LimbAssumption
  <2>5. top = i + MsbOf(n[hi]) /\ MsbOf(n[hi]) <= LimbBits
    BY <1>a, <1>c, <1>d, <2>2, <2>4, LimbAssumption
  <2>6. MsbOf(n[hi]) \in Nat
    BY <1>c, LimbAssumption
  <2>7. top <= all
    BY <2>3, <2>5, <2>6, LimbAssumption
  <2> QED
    BY <2>1, <2>7
<1> DEFINE cnt == (LimbBits * nl) - top
           I == DoubledTo(n, nl, top)
           S == Limbs(nl)
           s0 == [k \in 0 .. nl - 1 |-> IF k = nl - 1 THEN 2^MsbOf(n[nl - 1]) ELSE 0]
           step(r, k) == ModDbl(r, n, nl)
           F == [k \in 0 .. cnt - 1 |-> [p \in S |-> step(p, k)]]
<1>0. cnt \in Nat
  BY <1>hi
<1>2. \A k \in 0 .. cnt : I[k] \subseteq S
  BY DEF DoubledTo
<1>3. s0 \in I[0]
  <2>1. s0 \in Limbs(nl) /\ s0[hi] = m /\ \A j \in 0 .. hi - 1 : s0[j] = 0
    BY <1>a, <1>e, RadixType DEF Limbs
  <2> HIDE DEF s0
  <2>2. hi \in 0 .. nl /\ hi < nl /\ hi + 1 = nl
    BY <1>a
  <2>3. Value(s0, hi) = 0
    <3>1. HasLimbs(s0, hi)
      BY <2>1, <2>2, RadixType DEF HasLimbs
    <3>2. 0 \in 0 .. hi
      BY <2>2
    <3> QED
      BY <2>1, <2>2, <3>1, <3>2, ValueTop, ValueZero
  <2>4. Value(s0, hi + 1) = Value(s0, hi) + s0[hi] * Weight(hi)
    BY <2>1, <2>2, LimbsValue
  <2>5. Value(s0, nl) = 2^top
    BY <1>e, <2>1, <2>2, <2>3, <2>4, WeightType
  <2>6. PICK v \in Nat : v = Value(s0, nl) /\ v = 2^(top + 0) /\ v < N
    BY <1>g, <2>5, PowerType
  <2>7. v = v + 0 * N
    OBVIOUS
  <2>8. Congruent(Value(s0, nl), 2^(top + 0), N)
    BY <2>6, <2>7 DEF Congruent
  <2>9. 0 \in 0 .. (LimbBits * nl) - top
    BY <1>0
  <2> QED
    BY <1>f, <2>1, <2>6, <2>8, <2>9 DEF DoubledTo
<1>4. \A k \in 0 .. cnt - 1 : \A p \in I[k] : step(p, k) \in I[k + 1]
  <2>1. SUFFICES ASSUME NEW k \in 0 .. cnt - 1, NEW p \in I[k] PROVE step(p, k) \in I[k + 1]
    OBVIOUS
  <2>2. k \in Nat /\ k \in 0 .. (LimbBits * nl) - top /\ k + 1 \in 0 .. (LimbBits * nl) - top
    BY <1>0
  <2>3. p \in Limbs(nl) /\ Value(p, nl) < N /\ Congruent(Value(p, nl), 2^(top + k), N)
    BY <1>f, <2>2 DEF DoubledTo
  <2>4. HasLimbs(p, nl) /\ Value(p, nl) \in Nat
    <3>1. HasLimbs(p, nl) /\ nl \in 0 .. nl
      BY <2>3 DEF HasLimbs, Limbs
    <3> QED
      BY <3>1, HasLimbsValue
  <2>5. PICK d : d = ModDbl(p, n, nl)
    OBVIOUS
  <2>6. /\ d \in Limbs(nl) /\ Value(d, nl) < N
        /\ Value(d, nl) = 2 * Value(p, nl) \/ Value(d, nl) = 2 * Value(p, nl) - N
    BY <1>f, <2>3, <2>4, <2>5, ModDblExact
  <2>7. PICK v \in Int : v = Value(d, nl)
    <3>1. nl \in 0 .. nl
      OBVIOUS
    <3> QED
      BY <2>6, <3>1, LimbsValue
  <2>8. PICK x \in Int : x = Value(p, nl)
    BY <2>4
  <2>9. PICK i \in Nat : i = top + k
    BY <2>2
  <2>10. PICK y \in Int : y = 2^i
    BY <2>9, PowerType
  <2>11. Congruent(x, y, N) /\ (v = 2 * x \/ v = 2 * x - N)
    BY <2>3, <2>6, <2>7, <2>8, <2>9, <2>10
  <2>12. Congruent(v, 2 * y, N)
    BY <1>f, <2>11, CongruentTwice
  <2>13. 2^(i + 1) = 2 * y /\ i + 1 = top + (k + 1)
    BY <2>2, <2>9, <2>10, PowerNext
  <2>14. Congruent(Value(d, nl), 2^(top + (k + 1)), N)
    BY <2>7, <2>12, <2>13
  <2>15. d \in I[k + 1]
    BY <1>f, <2>2, <2>6, <2>14 DEF DoubledTo
  <2> HIDE DEF I
  <2> QED
    BY <2>5, <2>15
<1>5. \A k \in 0 .. cnt - 1 : \A p \in I[k] : /\ F[k][p] = step(p, k)
                                              /\ F[k][p] \in I[k + 1]
                                              /\ Only({ step(q, k) : q \in {p} }) = F[k][p]
  <2>1. \A k \in 0 .. cnt - 1 : \A p \in S : F[k][p] = step(p, k)
    <3> HIDE DEF step, S
    <3> QED
      OBVIOUS
  <2>2. \A k \in 0 .. cnt - 1 : \A p : Only({ step(q, k) : q \in {p} }) = step(p, k)
    <3> HIDE DEF step
    <3> QED
      BY DEF Only
  <2> HIDE DEF step, S, F, I
  <2> QED
    BY <1>0, <1>2, <1>4, <2>1, <2>2
<1>6. PICK f : Iterates(f, F, s0, cnt) /\ Within(f, I, cnt)
  <2> HIDE DEF F, I, s0, step
  <2> QED
    BY <1>0, <1>3, <1>5, Loop
<1> DEFINE Is(h) == h = [k \in 0 .. cnt |->
                          IF k = 0 THEN s0 ELSE Only({ step(p, k - 1) : p \in {h[k - 1]} })]
           g == CHOOSE h : Is(h)
<1>7. Is(f)
  <2>1. \A k \in 1 .. cnt : F[k - 1][f[k - 1]] = Only({ step(p, k - 1) : p \in {f[k - 1]} })
    <3>1. SUFFICES ASSUME NEW k \in 1 .. cnt
                   PROVE  F[k - 1][f[k - 1]] = Only({ step(p, k - 1) : p \in {f[k - 1]} })
      OBVIOUS
    <3>2. k - 1 \in 0 .. cnt - 1 /\ k - 1 \in 0 .. cnt
      BY <1>0
    <3> HIDE DEF step, I, F
    <3> QED
      BY <1>5, <1>6, <3>2 DEF Within
  <2>2. \A k \in 0 .. cnt : (IF k = 0 THEN s0 ELSE F[k - 1][f[k - 1]])
                         = IF k = 0 THEN s0 ELSE Only({ step(p, k - 1) : p \in {f[k - 1]} })
    <3> HIDE DEF step, F, s0, I, S
    <3> QED
      BY <1>0, <2>1
  <2> HIDE DEF step, F, s0, I, S
  <2> QED
    BY <1>6, <2>2 DEF Iterates
<1>8. Is(g)
  <2> HIDE DEF Is
  <2> QED
    BY <1>7
<1>9. g[0] = s0 /\ \A k \in 0 .. cnt - 1 : g[k + 1] = Only({ step(p, k) : p \in {g[k]} })
  <2> HIDE DEF step, g, s0, cnt
  <2>1. g[0] = s0
    BY <1>0, <1>8
  <2>2. ASSUME NEW k \in 0 .. cnt - 1 PROVE g[k + 1] = Only({ step(p, k) : p \in {g[k]} })
    <3>1. k + 1 \in 0 .. cnt /\ k + 1 # 0 /\ (k + 1) - 1 = k
      BY <1>0
    <3> QED
      BY <1>8, <3>1
  <2> QED
    BY <2>1, <2>2
<1>10. \A k \in 0 .. cnt - 1 : g[k] \in I[k] => g[k + 1] = F[k][g[k]]
  <2> HIDE DEF step, g, I, F
  <2> QED
    BY <1>5, <1>9
<1>11. g[cnt] \in I[cnt]
  <2>1. \A k \in 0 .. cnt - 1 : \A p \in I[k] : F[k][p] \in I[k + 1]
    <3> HIDE DEF step, g, I, F, s0, cnt
    <3> QED
      BY <1>5
  <2>2. g[0] = s0
    <3> HIDE DEF step, g, I, F, s0, cnt
    <3> QED
      BY <1>9
  <2> HIDE DEF step, g, I, F, s0, cnt
  <2> QED
    BY <1>0, <1>3, <1>10, <2>1, <2>2, LoopEnds
<1>12. Accumulate(step, s0, cnt) \in I[cnt]
  <2>1. Accumulate(step, s0, cnt) = g[cnt]
    BY DEF Accumulate
  <2> QED
    BY <1>11, <2>1
<1>13. RModN(n, nl) = Accumulate(step, s0, cnt)
  BY <1>d DEF RModN
<1>14. PICK r \in I[cnt] : r = RModN(n, nl)
  BY <1>12, <1>13
<1>15. cnt \in 0 .. (LimbBits * nl) - top /\ top + cnt = LimbBits * nl
  BY <1>0, <1>hi
<1>16. r \in Limbs(nl) /\ Value(r, nl) < N /\ Congruent(Value(r, nl), 2^(top + cnt), N)
  <2> HIDE DEF cnt
  <2> QED
    BY <1>f, <1>14, <1>15 DEF DoubledTo
<1>17. 2^(top + cnt) = Weight(nl)
  <2> HIDE DEF cnt
  <2> QED
    BY <1>15 DEF Weight
<1> QED
  BY <1>f, <1>14, <1>16, <1>17

-----------------------------------------------------------------------------
(* Windows of the exponent                                                  *)

\* Two in Montgomery form.
LEMMA TwoForm ==
  ASSUME NEW nl \in Nat, nl > 0, NEW n, HasLimbs(n, nl), n[nl - 1] # 0,
         n[0] % 2 = 1, Value(n, nl) > 1, NEW adx
  PROVE  Form(ModDbl(RModN(n, nl), n, nl), 2, Modulus(n, nl, adx))
<1>1. PICK M : M = Modulus(n, nl, adx)
  OBVIOUS
<1>2. OddModulus(M) /\ M.nl = nl /\ Value(M.n, nl) = Value(n, nl) /\ Value(n, nl) % 2 = 1
  BY <1>1, ModulusOdd
<1>3. PICK N \in Nat : N = Value(n, nl) /\ N > 1
  <2>1. nl \in 0 .. nl
    OBVIOUS
  <2> QED
    BY <2>1, HasLimbsValue
<1>4. PICK r : r = RModN(n, nl)
  OBVIOUS
<1>5. r \in Limbs(nl) /\ Value(r, nl) < N /\ Congruent(Value(r, nl), Weight(nl), N)
  BY <1>2, <1>3, <1>4, RModNExact
<1>6. HasLimbs(r, nl) /\ Value(r, nl) \in Nat
  <2>1. HasLimbs(r, nl) /\ nl \in 0 .. nl
    BY <1>5 DEF HasLimbs, Limbs
  <2> QED
    BY <2>1, HasLimbsValue
<1>7. PICK d : d = ModDbl(r, n, nl)
  OBVIOUS
<1>8. /\ d \in Limbs(nl) /\ Value(d, nl) < N
      /\ Value(d, nl) = 2 * Value(r, nl) \/ Value(d, nl) = 2 * Value(r, nl) - N
  BY <1>3, <1>5, <1>6, <1>7, ModDblExact
<1>9. PICK v \in Int : v = Value(d, nl)
  <2>1. nl \in 0 .. nl
    OBVIOUS
  <2> QED
    BY <1>8, <2>1, LimbsValue
<1>10. PICK x \in Int : x = Value(r, nl)
  BY <1>6
<1>11. PICK w \in Int : w = Weight(nl)
  BY WeightType
<1>12. Congruent(x, w, N) /\ (v = 2 * x \/ v = 2 * x - N)
  BY <1>5, <1>8, <1>9, <1>10, <1>11
<1>13. Congruent(v, 2 * w, N)
  BY <1>3, <1>12, CongruentTwice
<1>14. Form(d, 2, M)
  BY <1>2, <1>3, <1>8, <1>9, <1>11, <1>13 DEF Form
<1> QED
  BY <1>1, <1>4, <1>7, <1>14

\* The table of the first count odd powers of two.
PowersOdd(odd, count, M) ==
  /\ odd \in Seq(Limbs(M.nl)) /\ Len(odd) = count
  /\ \A j \in 1 .. count : Form(odd[j], 2^(2 * j - 1), M)

OddStates(count, M) ==
  [k \in 0 .. count - 1 |-> { p \in Seq(Limbs(M.nl)) : PowersOdd(p, k + 1, M) }]

\* The table holds the odd powers of two.
LEMMA OddPowersExact ==
  ASSUME NEW M, OddModulus(M), NEW two, Form(two, 2, M), NEW width \in Nat, width > 0
  PROVE  PowersOdd(OddPowers(two, width, M), 2^(width - 1), M)
<1>a. PICK count \in Nat : count = 2^(width - 1) /\ count > 0
  <2>1. width - 1 \in Nat
    OBVIOUS
  <2> QED
    BY <2>1, PowerType
<1> DEFINE four == MontMul(two, two, M)
<1>c. Form(four, 2 * 2, M)
  BY FormTimes
<1>d. Form(four, 4, M)
  BY <1>c
<1> HIDE DEF four
<1> DEFINE n == 2^(width - 1) - 1
           I == OddStates(count, M)
           S == Seq(Limbs(M.nl))
           s0 == <<two>>
           step(p, k) == Append(p, MontMul(p[Len(p)], four, M))
           F == [k \in 0 .. n - 1 |-> [p \in S |-> step(p, k)]]
<1>0. n \in Nat /\ n = count - 1
  BY <1>a
<1>2. \A k \in 0 .. n : I[k] \subseteq S
  BY <1>0 DEF OddStates
<1>3. s0 \in I[0]
  <2>1. two \in Limbs(M.nl)
    BY FormType
  <2>2. <<two>> \in Seq(Limbs(M.nl)) /\ Len(<<two>>) = 1 /\ <<two>>[1] = two
    BY <2>1
  <2>3. ASSUME NEW j \in 1 .. 1 PROVE Form(<<two>>[j], 2^(2 * j - 1), M)
    <3>1. j = 1 /\ 2 * j - 1 = 1
      OBVIOUS
    <3> QED
      BY <2>2, <3>1, PowerOne
  <2>4. PowersOdd(<<two>>, 0 + 1, M)
    BY <2>2, <2>3 DEF PowersOdd
  <2>5. 0 \in 0 .. count - 1
    BY <1>a
  <2> QED
    BY <2>2, <2>4, <2>5 DEF OddStates
<1>4. \A k \in 0 .. n - 1 : \A p \in I[k] : step(p, k) \in I[k + 1]
  <2>1. SUFFICES ASSUME NEW k \in 0 .. n - 1, NEW p \in I[k] PROVE step(p, k) \in I[k + 1]
    OBVIOUS
  <2>2. k \in Nat /\ k \in 0 .. count - 1 /\ k + 1 \in 0 .. count - 1
    BY <1>0
  <2>3. p \in Seq(Limbs(M.nl)) /\ PowersOdd(p, k + 1, M)
    BY <2>2 DEF OddStates
  <2>4. PICK i \in Nat : i = k + 1 /\ i > 0
    BY <2>2
  <2>5. Len(p) = i /\ \A j \in 1 .. i : Form(p[j], 2^(2 * j - 1), M)
    BY <2>3, <2>4 DEF PowersOdd
  <2>6. PICK e \in Nat : e = 2 * i - 1
    BY <2>4
  <2>7. PICK y \in Nat : y = 2^e
    BY <2>6, PowerType
  <2>8. Form(p[Len(p)], y, M)
    BY <2>4, <2>5, <2>6, <2>7
  <2>9. PICK v : v = MontMul(p[Len(p)], four, M)
    OBVIOUS
  <2>10. Form(v, y * 4, M)
    BY <1>d, <2>7, <2>8, <2>9, FormTimes
  <2>11. 2^(2 * (i + 1) - 1) = y * 4
    <3>1. 2^(e + 1) = 2 * y
      BY <2>6, <2>7, PowerNext
    <3>2. 2^((e + 1) + 1) = 2 * (2 * y)
      <4>1. PICK f \in Nat : f = e + 1
        BY <2>6
      <4> QED
        BY <3>1, <4>1, PowerNext
    <3>3. (e + 1) + 1 = 2 * (i + 1) - 1
      BY <2>6
    <3> QED
      BY <2>7, <3>2, <3>3
  <2>12. v \in Limbs(M.nl)
    BY <2>10 DEF Form
  <2>13. PICK q : q = Append(p, v)
    OBVIOUS
  <2>14. /\ q \in Seq(Limbs(M.nl)) /\ Len(q) = i + 1 /\ q[i + 1] = v
         /\ \A j \in 1 .. i : q[j] = p[j]
    BY <2>3, <2>4, <2>5, <2>12, <2>13
  <2>15. ASSUME NEW j \in 1 .. i + 1 PROVE Form(q[j], 2^(2 * j - 1), M)
    <3>1. CASE j = i + 1
      BY <2>10, <2>11, <2>14, <3>1
    <3>2. CASE j # i + 1
      <4>1. j \in 1 .. i
        BY <2>4, <3>2
      <4> QED
        BY <2>5, <2>14, <4>1
    <3> QED
      BY <3>1, <3>2
  <2>16. PowersOdd(q, (k + 1) + 1, M)
    BY <2>4, <2>14, <2>15 DEF PowersOdd
  <2>17. q \in I[k + 1]
    BY <2>2, <2>14, <2>16 DEF OddStates
  <2>18. step(p, k) = q
    BY <2>9, <2>13
  <2> HIDE DEF I, step
  <2> QED
    BY <2>17, <2>18
<1>5. \A k \in 0 .. n - 1 : \A p \in I[k] : /\ F[k][p] = step(p, k)
                                              /\ F[k][p] \in I[k + 1]
                                              /\ Only({ step(q, k) : q \in {p} }) = F[k][p]
  <2>1. \A k \in 0 .. n - 1 : \A p \in S : F[k][p] = step(p, k)
    <3> HIDE DEF step, S
    <3> QED
      OBVIOUS
  <2>2. \A k \in 0 .. n - 1 : \A p : Only({ step(q, k) : q \in {p} }) = step(p, k)
    <3> HIDE DEF step
    <3> QED
      BY DEF Only
  <2> HIDE DEF step, S, F, I
  <2> QED
    BY <1>0, <1>2, <1>4, <2>1, <2>2
<1>6. PICK f : Iterates(f, F, s0, n) /\ Within(f, I, n)
  <2> HIDE DEF F, I, s0, step
  <2> QED
    BY <1>0, <1>3, <1>5, Loop
<1> DEFINE Is(h) == h = [k \in 0 .. n |->
                          IF k = 0 THEN s0 ELSE Only({ step(p, k - 1) : p \in {h[k - 1]} })]
           g == CHOOSE h : Is(h)
<1>7. Is(f)
  <2>1. \A k \in 1 .. n : F[k - 1][f[k - 1]] = Only({ step(p, k - 1) : p \in {f[k - 1]} })
    <3>1. SUFFICES ASSUME NEW k \in 1 .. n
                   PROVE  F[k - 1][f[k - 1]] = Only({ step(p, k - 1) : p \in {f[k - 1]} })
      OBVIOUS
    <3>2. k - 1 \in 0 .. n - 1 /\ k - 1 \in 0 .. n
      BY <1>0
    <3> HIDE DEF step, I, F
    <3> QED
      BY <1>5, <1>6, <3>2 DEF Within
  <2>2. \A k \in 0 .. n : (IF k = 0 THEN s0 ELSE F[k - 1][f[k - 1]])
                         = IF k = 0 THEN s0 ELSE Only({ step(p, k - 1) : p \in {f[k - 1]} })
    <3> HIDE DEF step, F, s0, I, S
    <3> QED
      BY <1>0, <2>1
  <2> HIDE DEF step, F, s0, I, S
  <2> QED
    BY <1>6, <2>2 DEF Iterates
<1>8. Is(g)
  <2> HIDE DEF Is
  <2> QED
    BY <1>7
<1>9. g[0] = s0 /\ \A k \in 0 .. n - 1 : g[k + 1] = Only({ step(p, k) : p \in {g[k]} })
  <2> HIDE DEF step, g, s0, n, four
  <2>1. g[0] = s0
    BY <1>0, <1>8
  <2>2. ASSUME NEW k \in 0 .. n - 1 PROVE g[k + 1] = Only({ step(p, k) : p \in {g[k]} })
    <3>1. k + 1 \in 0 .. n /\ k + 1 # 0 /\ (k + 1) - 1 = k
      BY <1>0
    <3> QED
      BY <1>8, <3>1
  <2> QED
    BY <2>1, <2>2
<1>10. \A k \in 0 .. n - 1 : g[k] \in I[k] => g[k + 1] = F[k][g[k]]
  <2> HIDE DEF step, g, I, F
  <2> QED
    BY <1>5, <1>9
<1>11. g[n] \in I[n]
  <2>1. \A k \in 0 .. n - 1 : \A p \in I[k] : F[k][p] \in I[k + 1]
    <3> HIDE DEF step, g, I, F, s0, n, four
    <3> QED
      BY <1>5
  <2>2. g[0] = s0
    <3> HIDE DEF step, g, I, F, s0, n, four
    <3> QED
      BY <1>9
  <2> HIDE DEF step, g, I, F, s0, n, four
  <2> QED
    BY <1>0, <1>3, <1>10, <2>1, <2>2, LoopEnds
<1>12. Accumulate(step, s0, n) \in I[n]
  <2>1. Accumulate(step, s0, n) = g[n]
    BY DEF Accumulate
  <2> QED
    BY <1>11, <2>1
<1>13. OddPowers(two, width, M) = Accumulate(step, s0, n)
  BY DEF OddPowers, four
<1>14. PICK o \in I[n] : o = OddPowers(two, width, M)
  BY <1>12, <1>13
<1>15. n \in 0 .. count - 1 /\ n + 1 = count
  BY <1>0
<1>16. PowersOdd(o, n + 1, M)
  <2> HIDE DEF n
  <2> QED
    BY <1>14, <1>15 DEF OddStates
<1> QED
  BY <1>a, <1>14, <1>15, <1>16

\* The table and the modulus of the parts that do not depend on the exponent.
LEMMA PrecompExact ==
  ASSUME NEW nl \in Nat, nl > 0, NEW n, HasLimbs(n, nl), n[nl - 1] # 0,
         n[0] % 2 = 1, Value(n, nl) > 1, NEW width \in Nat, width > 0, NEW adx
  PROVE  /\ Precomp(n, nl, width, adx).M = Modulus(n, nl, adx)
         /\ Precomp(n, nl, width, adx).width = width
         /\ PowersOdd(Precomp(n, nl, width, adx).odd, 2^(width - 1), Modulus(n, nl, adx))
<1> DEFINE Result(M, two) == [M |-> M, odd |-> OddPowers(two, width, M), width |-> width]
           Results == { Result(M, two) : M \in {Modulus(n, nl, adx)}, two \in {ModDbl(RModN(n, nl), n, nl)} }
<1>1. Precomp(n, nl, width, adx) = Only(Results)
  BY DEF Precomp
<1>2. PICK M : M = Modulus(n, nl, adx)
  OBVIOUS
<1>3. PICK two : two = ModDbl(RModN(n, nl), n, nl)
  OBVIOUS
<1>4. Results = { Result(M, two) }
  <2> HIDE DEF Result
  <2> QED
    BY <1>2, <1>3
<1>5. Precomp(n, nl, width, adx) = Result(M, two)
  <2> HIDE DEF Result, Results
  <2> QED
    BY <1>1, <1>4 DEF Only
<1>6. Form(two, 2, M) /\ OddModulus(M)
  BY <1>2, <1>3, TwoForm, ModulusOdd
<1>7. PowersOdd(OddPowers(two, width, M), 2^(width - 1), M)
  BY <1>6, OddPowersExact
<1> QED
  BY <1>2, <1>5, <1>7

\* The exponents that the products of a list of factors go through.
Exponents(ex, factors, count) ==
  /\ ex \in [0 .. Len(factors) -> Nat]
  /\ \A k \in 0 .. Len(factors) - 1 :
       /\ factors[k + 1] \in 0 .. count
       /\ ex[k + 1] = IF factors[k + 1] = 0 THEN 2 * ex[k] ELSE ex[k] + (2 * factors[k + 1] - 1)

PowerStates(ex, n, M) == [k \in 0 .. n |-> { x \in Limbs(M.nl) : Form(x, 2^ex[k], M) }]

\* The products after a list of factors have the exponent that the list makes.
LEMMA MultipliedExact ==
  ASSUME NEW M, OddModulus(M), NEW odd, NEW count \in Nat, PowersOdd(odd, count, M),
         NEW factors, Len(factors) \in Nat, NEW ex, Exponents(ex, factors, count),
         NEW r, Form(r, 2^ex[0], M)
  PROVE  Form(Multiplied(r, factors, odd, M), 2^ex[Len(factors)], M)
<1> DEFINE n == Len(factors)
           I == PowerStates(ex, n, M)
           S == Limbs(M.nl)
           s0 == r
           step(x, k) == MontMul(x, IF factors[k + 1] = 0 THEN x ELSE odd[factors[k + 1]], M)
           F == [k \in 0 .. n - 1 |-> [p \in S |-> step(p, k)]]
<1>0. n \in Nat
  OBVIOUS
<1>1. \A k \in 0 .. n : ex[k] \in Nat
  BY DEF Exponents
<1>2. \A k \in 0 .. n : I[k] \subseteq S
  BY DEF PowerStates
<1>3. s0 \in I[0]
  BY <1>0, FormType DEF PowerStates
<1>4. \A k \in 0 .. n - 1 : \A p \in I[k] : step(p, k) \in I[k + 1]
  <2>1. SUFFICES ASSUME NEW k \in 0 .. n - 1, NEW p \in I[k] PROVE step(p, k) \in I[k + 1]
    OBVIOUS
  <2>2. k \in Nat /\ k \in 0 .. n /\ k + 1 \in 0 .. n
    BY <1>0
  <2>3. PICK e \in Nat : e = ex[k]
    BY <1>1, <2>2
  <2>4. Form(p, 2^e, M)
    BY <2>2, <2>3 DEF PowerStates
  <2>5. PICK f \in 0 .. count : f = factors[k + 1] /\ ex[k + 1] = IF f = 0 THEN 2 * e ELSE e + (2 * f - 1)
    BY <2>3 DEF Exponents
  <2>6. 2^e \in Nat
    BY PowerType
  <2>7. CASE f = 0
    <3>1. step(p, k) = MontMul(p, p, M)
      BY <2>5, <2>7
    <3>2. Form(MontMul(p, p, M), 2^e * 2^e, M)
      BY <2>4, <2>6, FormTimes
    <3>3. 2^(e + e) = 2^e * 2^e
      BY PowerSum
    <3>4. ex[k + 1] = e + e
      BY <2>5, <2>7
    <3>5. Form(step(p, k), 2^ex[k + 1], M)
      BY <3>1, <3>2, <3>3, <3>4
    <3> HIDE DEF step
    <3> QED
      BY <2>2, <3>5, FormType DEF PowerStates
  <2>8. CASE f # 0
    <3>1. step(p, k) = MontMul(p, odd[f], M)
      BY <2>5, <2>8
    <3>2. PICK h \in Nat : h = 2 * f - 1
      BY <2>8
    <3>3. Form(odd[f], 2^h, M)
      BY <2>8, <3>2 DEF PowersOdd
    <3>4. 2^h \in Nat
      BY PowerType
    <3>5. Form(MontMul(p, odd[f], M), 2^e * 2^h, M)
      BY <2>4, <2>6, <3>3, <3>4, FormTimes
    <3>6. 2^(e + h) = 2^e * 2^h
      BY PowerSum
    <3>7. ex[k + 1] = e + h
      BY <2>5, <2>8, <3>2
    <3>8. Form(step(p, k), 2^ex[k + 1], M)
      BY <3>1, <3>5, <3>6, <3>7
    <3> HIDE DEF step
    <3> QED
      BY <2>2, <3>8, FormType DEF PowerStates
  <2> HIDE DEF I, step
  <2> QED
    BY <2>5, <2>7, <2>8
<1>5. \A k \in 0 .. n - 1 : \A p \in I[k] : /\ F[k][p] = step(p, k)
                                              /\ F[k][p] \in I[k + 1]
                                              /\ Only({ step(q, k) : q \in {p} }) = F[k][p]
  <2>1. \A k \in 0 .. n - 1 : \A p \in S : F[k][p] = step(p, k)
    <3> HIDE DEF step, S
    <3> QED
      OBVIOUS
  <2>2. \A k \in 0 .. n - 1 : \A p : Only({ step(q, k) : q \in {p} }) = step(p, k)
    <3> HIDE DEF step
    <3> QED
      BY DEF Only
  <2> HIDE DEF step, S, F, I
  <2> QED
    BY <1>0, <1>2, <1>4, <2>1, <2>2
<1>6. PICK f : Iterates(f, F, s0, n) /\ Within(f, I, n)
  <2> HIDE DEF F, I, s0, step
  <2> QED
    BY <1>0, <1>3, <1>5, Loop
<1> DEFINE Is(h) == h = [k \in 0 .. n |->
                          IF k = 0 THEN s0 ELSE Only({ step(p, k - 1) : p \in {h[k - 1]} })]
           g == CHOOSE h : Is(h)
<1>7. Is(f)
  <2>1. \A k \in 1 .. n : F[k - 1][f[k - 1]] = Only({ step(p, k - 1) : p \in {f[k - 1]} })
    <3>1. SUFFICES ASSUME NEW k \in 1 .. n
                   PROVE  F[k - 1][f[k - 1]] = Only({ step(p, k - 1) : p \in {f[k - 1]} })
      OBVIOUS
    <3>2. k - 1 \in 0 .. n - 1 /\ k - 1 \in 0 .. n
      BY <1>0
    <3> HIDE DEF step, I, F
    <3> QED
      BY <1>5, <1>6, <3>2 DEF Within
  <2>2. \A k \in 0 .. n : (IF k = 0 THEN s0 ELSE F[k - 1][f[k - 1]])
                         = IF k = 0 THEN s0 ELSE Only({ step(p, k - 1) : p \in {f[k - 1]} })
    <3> HIDE DEF step, F, s0, I, S
    <3> QED
      BY <1>0, <2>1
  <2> HIDE DEF step, F, s0, I, S
  <2> QED
    BY <1>6, <2>2 DEF Iterates
<1>8. Is(g)
  <2> HIDE DEF Is
  <2> QED
    BY <1>7
<1>9. g[0] = s0 /\ \A k \in 0 .. n - 1 : g[k + 1] = Only({ step(p, k) : p \in {g[k]} })
  <2> HIDE DEF step, g, s0, n
  <2>1. g[0] = s0
    BY <1>0, <1>8
  <2>2. ASSUME NEW k \in 0 .. n - 1 PROVE g[k + 1] = Only({ step(p, k) : p \in {g[k]} })
    <3>1. k + 1 \in 0 .. n /\ k + 1 # 0 /\ (k + 1) - 1 = k
      BY <1>0
    <3> QED
      BY <1>8, <3>1
  <2> QED
    BY <2>1, <2>2
<1>10. \A k \in 0 .. n - 1 : g[k] \in I[k] => g[k + 1] = F[k][g[k]]
  <2> HIDE DEF step, g, I, F
  <2> QED
    BY <1>5, <1>9
<1>11. g[n] \in I[n]
  <2>1. \A k \in 0 .. n - 1 : \A p \in I[k] : F[k][p] \in I[k + 1]
    <3> HIDE DEF step, g, I, F, s0, n
    <3> QED
      BY <1>5
  <2>2. g[0] = s0
    <3> HIDE DEF step, g, I, F, s0, n
    <3> QED
      BY <1>9
  <2> HIDE DEF step, g, I, F, s0, n
  <2> QED
    BY <1>0, <1>3, <1>10, <2>1, <2>2, LoopEnds
<1>12. Accumulate(step, s0, n) \in I[n]
  <2>1. Accumulate(step, s0, n) = g[n]
    BY DEF Accumulate
  <2> QED
    BY <1>11, <2>1
<1>13. PICK x \in I[n] : x = Accumulate(step, s0, n)
  BY <1>12
<1>14. Multiplied(r, factors, odd, M) = Accumulate(step, s0, n)
  BY DEF Multiplied
<1>15. Form(x, 2^ex[n], M)
  <2>1. n \in 0 .. n
    BY <1>0
  <2> HIDE DEF n
  <2> QED
    BY <1>13, <2>1 DEF PowerStates
<1> QED
  BY <1>13, <1>14, <1>15

\* The trailing zeros of a window, and the odd number above them.
LEMMA TrailingExact ==
  ASSUME NEW size \in 1 .. FERMAT_WIN_MAX, NEW w \in Nat, w > 0, w < 2^size
  PROVE  /\ TrailingZeros(w) \in 0 .. size - 1
         /\ \E h \in Nat : w = 2^TrailingZeros(w) * (2 * h + 1)
<1> DEFINE S == { z \in 0 .. FERMAT_WIN_MAX : w % 2^z = 0 }
<1>1. FERMAT_WIN_MAX \in Nat /\ size \in Nat /\ size <= FERMAT_WIN_MAX /\ size > 0
  BY DEF FERMAT_WIN_MAX
<1>2. 0 \in S
  <2>1. 2^0 = 1 /\ w % 1 = 0
    BY PowerZero
  <2> QED
    BY <1>1, <2>1
<1>3. S \subseteq 0 .. FERMAT_WIN_MAX /\ S \subseteq Nat /\ S # {}
  <2>1. S \subseteq 0 .. FERMAT_WIN_MAX
    OBVIOUS
  <2> HIDE DEF S
  <2> QED
    BY <1>1, <1>2, <2>1
<1>4. PICK m \in S : \A y \in S : m >= y
  <2> HIDE DEF S
  <2> QED
    BY <1>1, <1>3, GreatestIn
<1>5. TrailingZeros(w) = m
  <2>1. Greatest(S) = m
    <3> HIDE DEF S
    <3> QED
      BY <1>3, <1>4, GreatestOnly
  <2> QED
    BY <2>1 DEF TrailingZeros
<1>6. m \in Nat /\ m <= FERMAT_WIN_MAX /\ w % 2^m = 0
  BY <1>1, <1>4
<1>7. \A y \in 0 .. FERMAT_WIN_MAX : w % 2^y = 0 => y <= m
  BY <1>1, <1>4
<1> HIDE DEF S
<1>8. PICK p \in Nat : p = 2^m /\ p > 0 /\ 2^(m + 1) = 2 * p
  BY <1>6, PowerType, PowerNext
<1>9. PICK q \in Nat : w = p * q
  <2>1. w \div p \in Nat /\ w = p * (w \div p) + (w % p)
    BY <1>8, Rest
  <2>2. PICK q \in Nat : q = w \div p
    BY <2>1
  <2>3. w = p * q
    BY <1>6, <1>8, <2>1, <2>2
  <2> QED
    BY <2>3
<1>10. q > 0
  <2>1. p * 0 = 0
    OBVIOUS
  <2> QED
    BY <1>9, <2>1
<1>11. w >= p
  <2>1. p * q >= p
    BY <1>10
  <2> QED
    BY <1>9, <2>1
<1>12. m < size
  <2>1. ASSUME m >= size PROVE FALSE
    <3>1. 2^size <= 2^m /\ 2^size \in Nat
      BY <1>1, <1>6, <2>1, PowerOrder, PowerType
    <3> QED
      BY <1>8, <1>11, <3>1
  <2> QED
    BY <1>1, <1>6, <2>1
<1>13. PICK h \in Nat : q = 2 * h \/ q = 2 * h + 1
  <2>1. q \div 2 \in Nat /\ (q = 2 * (q \div 2) \/ q = 2 * (q \div 2) + 1)
    OBVIOUS
  <2> QED
    BY <2>1
<1>14. q # 2 * h
  <2>1. ASSUME q = 2 * h PROVE FALSE
    <3>1. PICK n \in 0 .. FERMAT_WIN_MAX : n = m + 1
      BY <1>1, <1>6, <1>12
    <3>2. PICK t \in Nat : t = 2 * p /\ t = 2^n /\ t > 0
      BY <1>8, <3>1
    <3>3. w = t * h + 0
      <4>1. p * (2 * h) = (2 * p) * h
        OBVIOUS
      <4>2. PICK g \in Nat : g = (2 * p) * h
        OBVIOUS
      <4> QED
        BY <1>9, <2>1, <3>2, <4>1, <4>2
    <3>4. w % t = 0
      BY <3>2, <3>3, DivisionIs
    <3> QED
      BY <1>6, <1>7, <3>1, <3>2, <3>4
  <2> QED
    BY <2>1
<1>15. w = p * (2 * h + 1)
  BY <1>9, <1>13, <1>14
<1> QED
  BY <1>1, <1>5, <1>6, <1>8, <1>12, <1>15

\* A list of squarings.
LEMMA SquaresSeq ==
  ASSUME NEW n \in Nat
  PROVE  Squares(n) \in Seq(Nat) /\ Len(Squares(n)) = n /\ \A k \in 1 .. n : Squares(n)[k] = 0
<1>1. Squares(n) = [k \in 1 .. n |-> 0]
  BY DEF Squares
<1>2. [k \in 1 .. n |-> 0] \in Seq(Nat)
  OBVIOUS
<1>3. Len([k \in 1 .. n |-> 0]) = n
  OBVIOUS
<1> QED
  BY <1>1, <1>2, <1>3

\* The squares and the product of a window of the given size.
FactorsOf(w, z, size) ==
  IF w = 0 THEN Squares(size)
  ELSE Squares(size - z) \o <<(w \div 2^z) \div 2 + 1>> \o Squares(z)

\* The exponents of count squares from e on.
LEMMA SquaringExponents ==
  ASSUME NEW e \in Nat, NEW n \in Nat
  PROVE  [k \in 0 .. n |-> e * 2^k] \in [0 .. n -> Nat]
         /\ \A k \in 0 .. n - 1 : e * 2^(k + 1) = 2 * (e * 2^k)
<1>1. \A k \in 0 .. n : e * 2^k \in Nat
  BY PowerType
<1>2. ASSUME NEW k \in 0 .. n - 1 PROVE e * 2^(k + 1) = 2 * (e * 2^k)
  <2>1. PICK p \in Nat : p = 2^k /\ 2^(k + 1) = 2 * p
    BY PowerType, PowerNext
  <2>2. e * (2 * p) = 2 * (e * p)
    OBVIOUS
  <2> QED
    BY <2>1, <2>2
<1> QED
  BY <1>1, <1>2

\* A window of zeros only squares.
LEMMA EmptyWindow ==
  ASSUME NEW size \in Nat, NEW e \in Nat, NEW count \in Nat
  PROVE  \E ex : /\ Exponents(ex, Squares(size), count) /\ ex[0] = e
                 /\ ex[size] = e * 2^size
<1> DEFINE ex == [k \in 0 .. size |-> e * 2^k]
<1>1. Len(Squares(size)) = size /\ \A k \in 1 .. size : Squares(size)[k] = 0
  BY SquaresSeq
<1>2. ex \in [0 .. size -> Nat] /\ \A k \in 0 .. size - 1 : e * 2^(k + 1) = 2 * (e * 2^k)
  BY SquaringExponents
<1>3. \A k \in 0 .. size : ex[k] = e * 2^k
  OBVIOUS
<1> HIDE DEF ex
<1>4. ASSUME NEW k \in 0 .. size - 1
      PROVE  Squares(size)[k + 1] = 0 /\ ex[k + 1] = 2 * ex[k]
  <2>1. k \in 0 .. size /\ k + 1 \in 0 .. size /\ k + 1 \in 1 .. size
    OBVIOUS
  <2> QED
    BY <1>1, <1>2, <1>3, <2>1
<1>5. Exponents(ex, Squares(size), count)
  BY <1>1, <1>2, <1>4 DEF Exponents
<1>6. ex[0] = e
  <2>1. e * 1 = e /\ 0 \in 0 .. size
    OBVIOUS
  <2> QED
    BY <1>3, <2>1, PowerZero
<1>7. ex[size] = e * 2^size
  BY <1>3
<1> QED
  BY <1>5, <1>6, <1>7

\* w is an odd number with z zeros after it.
OddPart(w, z, h) == w = 2^z * (2 * h + 1)

\* The factors of a window that is not empty.
LEMMA WindowFactors ==
  ASSUME NEW size \in Nat, NEW z \in Nat, z < size, NEW h \in Nat, NEW w, OddPart(w, z, h)
  PROVE  /\ FactorsOf(w, z, size) \in Seq(Nat) /\ Len(FactorsOf(w, z, size)) = size + 1
         /\ \A k \in 1 .. size + 1 :
              FactorsOf(w, z, size)[k] = IF k = (size - z) + 1 THEN h + 1 ELSE 0
<1>1. PICK p \in Nat : p = 2^z /\ p > 0
  BY PowerType
<1>2. PICK q \in Nat : q = 2 * h + 1
  OBVIOUS
<1>3. w \in Nat /\ w = p * q + 0 /\ w # 0
  <2>1. p * q \in Nat /\ p * q >= q
    BY <1>1
  <2>2. w = p * q
    BY <1>1, <1>2 DEF OddPart
  <2> QED
    BY <1>2, <2>1, <2>2
<1>4. w \div p = q
  BY <1>1, <1>3, DivisionIs
<1>5. q \div 2 = h
  BY <1>2
<1>6. PICK a \in Nat : a = size - z /\ a + z = size
  OBVIOUS
<1>7. FactorsOf(w, z, size) = Squares(a) \o <<h + 1>> \o Squares(z)
  BY <1>1, <1>3, <1>4, <1>5, <1>6 DEF FactorsOf
<1>8. PICK s : s = Squares(a)
  OBVIOUS
<1>9. PICK t : t = Squares(z)
  OBVIOUS
<1>10. /\ s \in Seq(Nat) /\ Len(s) = a /\ \A k \in 1 .. a : s[k] = 0
       /\ t \in Seq(Nat) /\ Len(t) = z /\ \A k \in 1 .. z : t[k] = 0
  BY <1>8, <1>9, SquaresSeq
<1>11. PICK u \in Seq(Nat) : /\ u = s \o <<h + 1>> /\ Len(u) = a + 1
                             /\ \A k \in 1 .. a + 1 : u[k] = IF k = a + 1 THEN h + 1 ELSE 0
  <2>1. PICK u : u = s \o <<h + 1>>
    OBVIOUS
  <2>2. <<h + 1>> \in Seq(Nat) /\ Len(<<h + 1>>) = 1 /\ <<h + 1>>[1] = h + 1
    OBVIOUS
  <2>3. u \in Seq(Nat) /\ Len(u) = a + 1
    BY <1>10, <2>1, <2>2
  <2>4. \A k \in 1 .. a + 1 : u[k] = IF k = a + 1 THEN h + 1 ELSE 0
    BY <1>10, <2>1, <2>2
  <2> QED
    BY <2>1, <2>3, <2>4
<1>12. PICK v : v = u \o t
  OBVIOUS
<1>13. v \in Seq(Nat) /\ Len(v) = (a + 1) + z
  <2>1. v \in Seq(Nat)
    BY <1>10, <1>11, <1>12
  <2>0. u \in Seq(Nat) /\ t \in Seq(Nat)
    BY <1>10
  <2>2. Len(v) = Len(u) + Len(t)
    BY <1>12, <2>0
  <2>3. Len(u) = a + 1 /\ Len(t) = z
    BY <1>10, <1>11
  <2> QED
    BY <2>1, <2>2, <2>3
<1>14. ASSUME NEW k \in 1 .. (a + 1) + z PROVE v[k] = IF k = a + 1 THEN h + 1 ELSE 0
  <2>1. CASE k <= a + 1
    <3>1. v[k] = u[k] /\ k \in 1 .. a + 1
      BY <1>10, <1>11, <1>12, <2>1
    <3> QED
      BY <1>11, <3>1
  <2>2. CASE k > a + 1
    <3>1. v[k] = t[k - (a + 1)] /\ k - (a + 1) \in 1 .. z
      BY <1>10, <1>11, <1>12, <2>2
    <3> QED
      BY <1>10, <2>2, <3>1
  <2> QED
    BY <2>1, <2>2
<1>15. FactorsOf(w, z, size) = v /\ (a + 1) + z = size + 1
  BY <1>6, <1>7, <1>8, <1>9, <1>11, <1>12
<1> QED
  BY <1>6, <1>13, <1>14, <1>15

\* The exponents of such a window: squares, the odd factor, squares.
WindowExponents(e, a, h, n) ==
  [k \in 0 .. n |-> IF k <= a THEN e * 2^k ELSE (e * 2^a + (2 * h + 1)) * 2^(k - (a + 1))]

\* The squarings, the odd power and the squarings of a window shift the exponent and add the window to it.
LEMMA FilledWindow ==
  ASSUME NEW size \in Nat, NEW z \in Nat, z < size, NEW h \in Nat, NEW w, OddPart(w, z, h),
         NEW e \in Nat, NEW count \in Nat, h + 1 <= count
  PROVE  \E ex : /\ Exponents(ex, FactorsOf(w, z, size), count) /\ ex[0] = e
                 /\ ex[size + 1] = e * 2^size + w
<1>1. PICK fs : fs = FactorsOf(w, z, size)
  OBVIOUS
<1>2. PICK a \in Nat : a = size - z /\ a + z = size
  OBVIOUS
<1>3. /\ Len(fs) = size + 1
      /\ \A k \in 1 .. size + 1 : fs[k] = IF k = a + 1 THEN h + 1 ELSE 0
  <2>1. /\ Len(FactorsOf(w, z, size)) = size + 1
        /\ \A k \in 1 .. size + 1 : FactorsOf(w, z, size)[k] = IF k = (size - z) + 1 THEN h + 1 ELSE 0
    BY WindowFactors
  <2> QED
    BY <1>1, <1>2, <2>1
<1>4. PICK ex : ex = WindowExponents(e, a, h, size + 1)
  OBVIOUS
<1>5. PICK b \in Nat : b = e * 2^a + (2 * h + 1)
  <2>1. 2^a \in Nat
    BY PowerType
  <2> QED
    BY <2>1
<1>6. \A k \in 0 .. size + 1 : ex[k] = IF k <= a THEN e * 2^k ELSE b * 2^(k - (a + 1))
  BY <1>4, <1>5 DEF WindowExponents
<1>7. \A k \in 0 .. size + 1 : ex[k] \in Nat
  <2>1. SUFFICES ASSUME NEW k \in 0 .. size + 1 PROVE ex[k] \in Nat
    OBVIOUS
  <2>2. CASE k <= a
    <3>1. 2^k \in Nat
      BY PowerType
    <3> QED
      BY <1>6, <2>2, <3>1
  <2>3. CASE k > a
    <3>1. PICK j \in Nat : j = k - (a + 1)
      BY <2>3
    <3>2. 2^j \in Nat /\ ex[k] = b * 2^j
      BY <1>6, <2>3, <3>1, PowerType
    <3> QED
      BY <3>2
  <2> QED
    BY <2>2, <2>3
<1>8. ex \in [0 .. size + 1 -> Nat]
  <2>1. DOMAIN ex = 0 .. size + 1 /\ ex = [k \in DOMAIN ex |-> ex[k]]
    BY <1>4 DEF WindowExponents
  <2> QED
    BY <1>7, <2>1
<1>9. ASSUME NEW k \in 0 .. size
      PROVE  /\ fs[k + 1] \in 0 .. count
             /\ ex[k + 1] = IF fs[k + 1] = 0 THEN 2 * ex[k] ELSE ex[k] + (2 * fs[k + 1] - 1)
  <2>1. k \in Nat /\ k \in 0 .. size + 1 /\ k + 1 \in 1 .. size + 1 /\ k + 1 \in 0 .. size + 1
    OBVIOUS
  <2>2. CASE k < a
    <3>1. fs[k + 1] = 0 /\ ex[k] = e * 2^k /\ ex[k + 1] = e * 2^(k + 1)
      BY <1>3, <1>6, <2>1, <2>2
    <3>2. PICK p \in Nat : p = 2^k /\ 2^(k + 1) = 2 * p
      BY <2>1, PowerType, PowerNext
    <3>3. e * (2 * p) = 2 * (e * p)
      OBVIOUS
    <3> QED
      BY <3>1, <3>2, <3>3
  <2>3. CASE k = a
    <3>1. fs[k + 1] = h + 1
      BY <1>3, <2>1, <2>3
    <3>2. ex[k] = e * 2^a
      BY <1>6, <2>1, <2>3
    <3>3. PICK i \in Nat : i = (k + 1) - (a + 1) /\ i = 0
      BY <2>3
    <3>6. ex[k + 1] = b * 2^i
      <4>1. PICK m \in 0 .. size + 1 : m = k + 1 /\ ~(m <= a) /\ m - (a + 1) = i
        BY <2>1, <2>3, <3>3
      <4>2. ex[m] = b * 2^(m - (a + 1))
        BY <1>6, <4>1
      <4> QED
        BY <4>1, <4>2
    <3>4. ex[k + 1] = b
      <4>1. 2^i = 1
        BY <3>3, PowerZero
      <4> QED
        BY <3>6, <4>1
    <3>5. PICK g \in Nat : g = e * 2^a
      <4>1. 2^a \in Nat
        BY PowerType
      <4> QED
        BY <4>1
    <3> QED
      BY <1>5, <3>1, <3>2, <3>4, <3>5
  <2>4. CASE k > a
    <3>1. fs[k + 1] = 0
      BY <1>3, <2>1, <2>4
    <3>2. PICK j \in Nat : j = k - (a + 1) /\ (k + 1) - (a + 1) = j + 1
      BY <2>4
    <3>3. ex[k] = b * 2^j /\ ex[k + 1] = b * 2^(j + 1)
      BY <1>6, <2>1, <2>4, <3>2
    <3>4. PICK p \in Nat : p = 2^j /\ 2^(j + 1) = 2 * p
      BY PowerType, PowerNext
    <3>5. b * (2 * p) = 2 * (b * p)
      OBVIOUS
    <3> QED
      BY <3>1, <3>3, <3>4, <3>5
  <2> QED
    BY <2>1, <2>2, <2>3, <2>4
<1>10. Exponents(ex, fs, count)
  <2>1. Len(fs) - 1 = size
    BY <1>3
  <2> QED
    BY <1>3, <1>8, <1>9, <2>1 DEF Exponents
<1>11. ex[0] = e
  <2>1. 0 \in 0 .. size + 1 /\ 0 <= a /\ e * 1 = e
    BY <1>2
  <2> QED
    BY <1>6, <2>1, PowerZero
<1>12. ex[size + 1] = e * 2^size + w
  <2>1. size + 1 \in 0 .. size + 1 /\ ~(size + 1 <= a) /\ (size + 1) - (a + 1) = z
    BY <1>2
  <2>2. ex[size + 1] = b * 2^z
    BY <1>6, <2>1
  <2>3. PICK p \in Nat : p = 2^z
    BY PowerType
  <2>4. PICK r \in Nat : r = 2^a
    BY PowerType
  <2>5. 2^size = r * p
    BY <1>2, <2>3, <2>4, PowerSum
  <2>6. (e * r + (2 * h + 1)) * p = e * (r * p) + p * (2 * h + 1)
    OBVIOUS
  <2>7. w = p * (2 * h + 1)
    BY <2>3 DEF OddPart
  <2> QED
    BY <1>5, <2>2, <2>3, <2>4, <2>5, <2>6, <2>7
<1> QED
  BY <1>1, <1>10, <1>11, <1>12

\* A window of the exponent turns 2^e into 2^(e * 2^size + w).
LEMMA WindowStep ==
  ASSUME NEW M, OddModulus(M), NEW width \in 1 .. FERMAT_WIN_MAX, NEW odd,
         PowersOdd(odd, 2^(width - 1), M),
         NEW size \in {1, width}, NEW w \in Nat, w < 2^size,
         NEW e \in Nat, NEW r, Form(r, 2^e, M)
  PROVE  Form(Multiplied(r, FactorsOf(w, TrailingZeros(w), size), odd, M), 2^(e * 2^size + w), M)
<1>1. width \in Nat /\ width >= 1 /\ size \in Nat /\ size >= 1 /\ size <= width /\ size \in 1 .. FERMAT_WIN_MAX
  BY DEF FERMAT_WIN_MAX
<1>2. PICK j \in Nat : j = width - 1
  BY <1>1
<1>3. PICK count \in Nat : count = 2^(width - 1) /\ count = 2^j
  BY <1>2, PowerType
<1>4. PICK z : z = TrailingZeros(w)
  OBVIOUS
<1>5. CASE w = 0
  <2>1. PICK ex : /\ Exponents(ex, Squares(size), count) /\ ex[0] = e
                  /\ ex[size] = e * 2^size
    BY <1>1, EmptyWindow
  <2>2. PICK fs : fs = Squares(size) /\ Len(fs) = size
    BY <1>1, SquaresSeq
  <2>3. Form(Multiplied(r, fs, odd, M), 2^ex[Len(fs)], M)
    BY <1>1, <1>3, <2>1, <2>2, MultipliedExact
  <2>4. FactorsOf(w, z, size) = fs
    BY <1>5, <2>2 DEF FactorsOf
  <2>5. e * 2^size + w = ex[Len(fs)]
    <3>1. 2^size \in Nat
      BY <1>1, PowerType
    <3>2. PICK g \in Nat : g = e * 2^size
      BY <3>1
    <3> QED
      BY <1>5, <2>1, <2>2, <3>2
  <2> QED
    BY <1>4, <2>3, <2>4, <2>5
<1>6. CASE w > 0
  <2>1. z \in 0 .. size - 1 /\ \E h \in Nat : w = 2^z * (2 * h + 1)
    BY <1>1, <1>4, <1>6, TrailingExact
  <2>2. PICK h \in Nat : OddPart(w, z, h)
    BY <2>1 DEF OddPart
  <2>3. z \in Nat /\ z < size
    BY <1>1, <2>1
  <2>4. h + 1 <= count
    <3>1. PICK p \in Nat : p = 2^z /\ p > 0
      BY <2>3, PowerType
    <3>2. PICK i \in Nat : i = width /\ i = j + 1
      BY <1>1, <1>2
    <3>3. 2^size <= 2^i
      BY <1>1, <3>2, PowerOrder
    <3>4. 2^i = 2 * count
      BY <1>3, <3>2, PowerNext
    <3>5. 2 * h + 1 <= w
      <4>1. PICK q \in Nat : q = 2 * h + 1
        OBVIOUS
      <4>2. p * q >= q
        BY <3>1
      <4> QED
        BY <2>2, <3>1, <4>1, <4>2 DEF OddPart
    <3>6. w < 2 * count
      <4>1. 2^size \in Nat
        BY <1>1, PowerType
      <4> QED
        BY <3>3, <3>4, <4>1
    <3> QED
      BY <3>5, <3>6
  <2>5. PICK fs : fs = FactorsOf(w, z, size)
    OBVIOUS
  <2>6. Len(fs) = size + 1
    BY <1>1, <2>2, <2>3, <2>5, WindowFactors
  <2>a. \E ex : /\ Exponents(ex, FactorsOf(w, z, size), count) /\ ex[0] = e
                /\ ex[size + 1] = e * 2^size + w
    BY <1>1, <2>2, <2>3, <2>4, FilledWindow
  <2>7. PICK ex : /\ Exponents(ex, fs, count) /\ ex[0] = e
                  /\ ex[size + 1] = e * 2^size + w
    BY <2>5, <2>a
  <2>8. Len(fs) \in Nat
    BY <1>1, <2>6
  <2>9. Form(Multiplied(r, fs, odd, M), 2^ex[Len(fs)], M)
    BY <1>3, <2>7, <2>8, MultipliedExact
  <2> QED
    BY <1>4, <2>5, <2>6, <2>7, <2>9
<1> QED
  BY <1>5, <1>6

-----------------------------------------------------------------------------
(* The bits of the exponent                                                 *)

\* z is the number that the limbs of e above limb i stand for, with its lowest limb apart.
Above(e, n, i, z) == i + 1 < n => \E y \in Nat : z = e[i + 1] + Radix * y

\* The number e from bit k on: the rest of a limb and the limbs above it.
LEMMA LimbDigits ==
  ASSUME NEW n \in Nat, NEW e, HasLimbs(e, n), NEW i \in 0 .. n - 1, NEW o \in 0 .. LimbBits - 1,
         NEW d \in Nat, LimbBits = o + d
  PROVE  \E z \in Nat :
           /\ Value(e, n) \div 2^(LimbBits * i + o) = (e[i] \div 2^o) + 2^d * z
           /\ Above(e, n, i, z)
<1>1. PICK l \in Nat : l = LimbBits /\ o \in Nat /\ o < l /\ l = o + d
  BY LimbAssumption
<1>2. PICK r \in Nat : r = Radix /\ r > 0
  BY RadixType
<1>3. PICK p \in Nat : p = 2^o /\ p > 0
  BY <1>1, PowerType
<1>4. PICK g \in Nat : g = 2^d
  BY PowerType
<1>5. r = p * g
  BY <1>1, <1>2, <1>3, <1>4, PowerSum DEF Radix
<1>6. PICK x \in Nat : x = e[i]
  <2>1. e[i] \in 0 .. Radix - 1
    BY DEF HasLimbs
  <2> QED
    BY <2>1, RadixType
<1>7. PICK w \in Nat : w = Weight(i) /\ w > 0
  BY WeightType
<1>8. PICK v \in Nat : v = Value(e, i) /\ v < w
  <2>1. i \in 0 .. n
    OBVIOUS
  <2> QED
    BY <1>7, <2>1, HasLimbsValue
<1> DEFINE At(z) == /\ Value(e, n) = v + w * (x + r * z)
                    /\ i + 1 < n => \E y \in Nat : z = e[i + 1] + r * y
<1>9. \E z \in Nat : At(z)
  <2>1. PICK a \in Limbs(n) : \A j \in 0 .. n - 1 : a[j] = e[j]
    <3>1. [j \in 0 .. n - 1 |-> e[j]] \in Limbs(n)
      BY DEF Limbs, HasLimbs
    <3> QED
      BY <3>1
  <2>2. PICK h \in 0 .. n : h = i + 1
    OBVIOUS
  <2>3. PICK z \in Nat : Value(a, n) = Value(a, h) + Weight(h) * z
    BY ValueHigh
  <2>4. Value(a, n) = Value(e, n) /\ Value(a, h) = Value(e, h)
    <3>1. \A j \in 0 .. n - 1 : e[j] \in Nat /\ a[j] = e[j]
      BY <2>1, RadixType DEF HasLimbs
    <3>2. \A j \in 0 .. h - 1 : e[j] \in Nat /\ a[j] = e[j]
      BY <2>2, <3>1
    <3> QED
      BY <2>2, <3>1, <3>2, ValueSame
  <2>5. Value(e, h) = v + x * w
    BY <1>6, <1>7, <1>8, <2>2, HasLimbsValue
  <2>6. Weight(h) = r * w
    BY <1>2, <1>7, <2>2, WeightNext
  <2>7. Value(e, n) = v + w * (x + r * z)
    <3>1. w * (x + r * z) = x * w + (r * w) * z
      OBVIOUS
    <3>2. Value(e, n) = (v + x * w) + (r * w) * z
      BY <2>3, <2>4, <2>5, <2>6
    <3>3. PICK c1 \in Nat : c1 = x * w
      OBVIOUS
    <3>4. PICK c2 \in Nat : c2 = (r * w) * z
      OBVIOUS
    <3> QED
      BY <3>1, <3>2, <3>3, <3>4
  <2>8. ASSUME i + 1 < n PROVE \E y \in Nat : z = e[i + 1] + r * y
    <3>1. PICK f \in 0 .. n : f = h + 1 /\ h < n /\ h \in 0 .. n - 1
      BY <2>2, <2>8
    <3>2. PICK y \in Nat : Value(a, n) = Value(a, f) + Weight(f) * y
      BY ValueHigh
    <3>3. Value(a, f) = Value(a, h) + a[h] * Weight(h)
      BY <3>1, LimbsValue
    <3>4. PICK u \in Nat : u = Weight(h) /\ u > 0
      BY WeightType
    <3>5. Weight(f) = r * u
      BY <1>2, <3>1, <3>4, WeightNext
    <3>6. PICK b \in Nat : b = a[h]
      BY <3>1, LimbsType
    <3>7. PICK k \in Nat : k = Value(a, h)
      BY <2>2, LimbsValue
    <3>8. k + u * z = (k + b * u) + (r * u) * y
      BY <2>3, <3>2, <3>3, <3>4, <3>5, <3>6, <3>7
    <3>9. u * z = u * (b + r * y)
      <4>1. u * (b + r * y) = b * u + (r * u) * y
        OBVIOUS
      <4>2. PICK c1 \in Nat : c1 = b * u
        OBVIOUS
      <4>3. PICK c2 \in Nat : c2 = (r * u) * y
        OBVIOUS
      <4> QED
        BY <3>8, <4>1, <4>2, <4>3
    <3>10. PICK c \in Nat : c = b + r * y
      OBVIOUS
    <3>11. z = c
      BY <3>4, <3>9, <3>10
    <3> QED
      BY <2>1, <2>2, <3>1, <3>6, <3>10, <3>11
  <2> QED
    BY <2>7, <2>8
<1>a. PICK z \in Nat : At(z)
  <2> HIDE DEF At
  <2> QED
    BY <1>9
<1>10. /\ Value(e, n) = v + w * (x + r * z)
       /\ i + 1 < n => \E y \in Nat : z = e[i + 1] + r * y
  BY <1>a
<1>11. PICK q \in Nat : q = x \div p
  BY <1>3, Rest
<1>12. PICK t \in Nat : t = x % p /\ t < p /\ x = p * q + t
  BY <1>3, <1>11, Rest
<1>13. PICK s \in Nat : s = q + g * z
  OBVIOUS
<1>14. PICK b \in Nat : b = v + w * t
  OBVIOUS
<1>15. b < p * w
  <2>1. t + 1 <= p
    BY <1>12
  <2>2. (t + 1) * w <= p * w
    BY <2>1
  <2>3. (t + 1) * w = w * t + w
    OBVIOUS
  <2>4. PICK c \in Nat : c = w * t
    OBVIOUS
  <2>5. PICK f \in Nat : f = p * w
    OBVIOUS
  <2> QED
    BY <1>8, <1>14, <2>2, <2>3, <2>4, <2>5
<1>16. Value(e, n) = (p * w) * s + b
  <2>1. (p * w) * (q + g * z) = w * (p * q) + w * ((p * g) * z)
    OBVIOUS
  <2>2. w * (x + r * z) = w * x + w * (r * z)
    OBVIOUS
  <2>3. w * x = w * (p * q) + w * t
    <3>1. w * (p * q + t) = w * (p * q) + w * t
      OBVIOUS
    <3> QED
      BY <1>12, <3>1
  <2>4. PICK c1 \in Nat : c1 = w * (p * q)
    OBVIOUS
  <2>5. PICK c2 \in Nat : c2 = w * (r * z)
    OBVIOUS
  <2>6. PICK c3 \in Nat : c3 = w * t
    OBVIOUS
  <2>7. (p * w) * s = c1 + c2
    BY <1>5, <1>13, <2>1, <2>4, <2>5
  <2>8. Value(e, n) = v + ((c1 + c3) + c2)
    BY <1>10, <2>2, <2>3, <2>4, <2>5, <2>6
  <2>9. b = v + c3
    BY <1>14, <2>6
  <2> QED
    BY <2>7, <2>8, <2>9
<1>17. 2^(LimbBits * i + o) = p * w
  BY <1>1, <1>3, <1>7, PowerWeight
<1>18. PICK u \in Nat : u = p * w
  OBVIOUS
<1>19. PICK val \in Nat : val = Value(e, n) /\ val = u * s + b /\ b < u
  BY <1>15, <1>16, <1>18
<1>20. val \div u = s
  BY <1>19, DivisionIs
<1>21. Above(e, n, i, z)
  BY <1>2, <1>10 DEF Above
<1> QED
  BY <1>3, <1>4, <1>6, <1>11, <1>13, <1>17, <1>18, <1>19, <1>20, <1>21

\* The limb and the place in it of bit k.
LEMMA BitPlace ==
  ASSUME NEW n \in Nat, NEW k \in Nat, k < LimbBits * n
  PROVE  \E i \in 0 .. n - 1 : \E o \in 0 .. LimbBits - 1 : \E d \in Nat :
           /\ k \div LimbBits = i /\ k % LimbBits = o
           /\ k = LimbBits * i + o /\ LimbBits = o + d /\ d > 0
<1>1. PICK l \in Nat : l = LimbBits /\ l > 0
  BY LimbAssumption
<1>2. PICK i \in Nat : i = k \div l
  BY <1>1, Rest
<1>3. PICK o \in Nat : o = k % l /\ o < l /\ k = l * i + o
  BY <1>1, <1>2, Rest
<1>4. i < n
  <2>1. ASSUME i >= n PROVE FALSE
    <3>1. l * i >= l * n
      BY <2>1
    <3> QED
      BY <1>1, <1>3, <3>1
  <2> QED
    BY <2>1
<1>5. PICK d \in Nat : l = o + d /\ d > 0
  <2>1. l - o \in Nat /\ l = o + (l - o) /\ l - o > 0
    BY <1>1, <1>3
  <2> QED
    BY <2>1
<1>6. i \in 0 .. n - 1 /\ o \in 0 .. LimbBits - 1
  BY <1>1, <1>3, <1>4
<1> QED
  BY <1>1, <1>2, <1>3, <1>5, <1>6

\* A bit of a number as limbs.
LEMMA BitExact ==
  ASSUME NEW n \in Nat, NEW e, HasLimbs(e, n), NEW k \in Nat, k < LimbBits * n
  PROVE  Bit(e, k) = (Value(e, n) \div 2^k) % 2
<1>1. PICK i \in 0 .. n - 1, o \in 0 .. LimbBits - 1, d \in Nat :
        /\ k \div LimbBits = i /\ k % LimbBits = o
        /\ k = LimbBits * i + o /\ LimbBits = o + d /\ d > 0
  BY BitPlace
<1>2. PICK z \in Nat : Value(e, n) \div 2^k = (e[i] \div 2^o) + 2^d * z
  <2>1. \E z \in Nat : /\ Value(e, n) \div 2^(LimbBits * i + o) = (e[i] \div 2^o) + 2^d * z
                       /\ Above(e, n, i, z)
    BY <1>1, LimbDigits
  <2> QED
    BY <1>1, <2>1
<1>3. PICK j \in Nat : d = j + 1
  <2>1. d - 1 \in Nat /\ d = (d - 1) + 1
    BY <1>1
  <2> QED
    BY <2>1
<1>4. PICK h \in Nat : h = 2^j /\ 2^d = 2 * h
  BY <1>3, PowerType, PowerNext
<1>5. PICK q \in Nat : q = e[i] \div 2^o
  <2>1. e[i] \in Nat
    BY RadixType DEF HasLimbs
  <2>2. o \in Nat
    BY LimbAssumption
  <2>3. 2^o \in Nat /\ 2^o > 0
    BY <2>2, PowerType
  <2> QED
    BY <2>1, <2>3, Rest
<1>6. (q + (2 * h) * z) % 2 = q % 2
  <2>1. PICK c \in Nat : c = h * z
    OBVIOUS
  <2>2. (2 * h) * z = 2 * c
    BY <2>1
  <2>3. (q + 2 * c) % 2 = q % 2
    OBVIOUS
  <2> QED
    BY <2>2, <2>3
<1> QED
  BY <1>1, <1>2, <1>4, <1>5, <1>6 DEF Bit

\* The small powers of two that the windows of four bits are made with.
LEMMA SmallPowers == 2^1 = 2 /\ 2^2 = 4 /\ 2^3 = 8 /\ 2^4 = 16
<1>1. 2^(1 + 1) = 2 * 2^1 /\ 2^(2 + 1) = 2 * 2^2 /\ 2^(3 + 1) = 2 * 2^3
  BY PowerNext
<1> QED
  BY <1>1, PowerOne

\* A power of two of four or more bits is a multiple of sixteen.
LEMMA Sixteens ==
  ASSUME NEW d \in Nat, d >= 4
  PROVE  \E h \in Nat : 2^d = 16 * h
<1>1. PICK j \in Nat : d = 4 + j
  <2>1. d - 4 \in Nat /\ d = 4 + (d - 4)
    OBVIOUS
  <2> QED
    BY <2>1
<1>2. 2^(4 + j) = 2^4 * 2^j
  BY PowerSum
<1>3. PICK h \in Nat : h = 2^j
  BY PowerType
<1> QED
  BY <1>1, <1>2, <1>3, SmallPowers

\* Four bits of a number as limbs, which may lie in two limbs.
LEMMA GetBits4Exact ==
  ASSUME NEW n \in Nat, n <= MaxLimbs, NEW e, HasLimbs(e, n), NEW k \in Nat, k + 3 < LimbBits * n
  PROVE  GetBits4(e, k) = (Value(e, n) \div 2^k) % 16
<1>0. LimbBits \in Nat /\ LimbBits >= 4 /\ MaxLimbs \in Nat /\ LimbBits * n \in Nat
  BY LimbAssumption
<1>1. PICK i \in 0 .. n - 1, o \in 0 .. LimbBits - 1, d \in Nat :
        /\ k \div LimbBits = i /\ k % LimbBits = o
        /\ k = LimbBits * i + o /\ LimbBits = o + d /\ d > 0
  <2>1. k < LimbBits * n
    BY <1>0
  <2> QED
    BY <2>1, BitPlace
<1>2. PICK z \in Nat : /\ Value(e, n) \div 2^k = (e[i] \div 2^o) + 2^d * z
                       /\ i + 1 < n => \E y \in Nat : z = e[i + 1] + Radix * y
  <2>1. \E z \in Nat : /\ Value(e, n) \div 2^(LimbBits * i + o) = (e[i] \div 2^o) + 2^d * z
                       /\ Above(e, n, i, z)
    BY <1>1, LimbDigits
  <2> QED
    BY <1>1, <2>1 DEF Above
<1>3. PICK g \in Nat : g = 2^d
  BY PowerType
<1>4. PICK p \in Nat : p = 2^o /\ p > 0
  BY <1>0, PowerType
<1>5. Radix = p * g
  BY <1>0, <1>1, <1>3, <1>4, PowerSum DEF Radix
<1>6. PICK x \in Nat : x = e[i] /\ x < p * g
  <2>1. e[i] \in 0 .. Radix - 1
    BY DEF HasLimbs
  <2> QED
    BY <1>5, <2>1, RadixType
<1>7. PICK q \in Nat : q = x \div p
  BY <1>4, Rest
<1>8. q < g
  <2>1. x = p * q + (x % p) /\ x % p \in Nat
    BY <1>4, <1>7, Rest
  <2>2. ASSUME q >= g PROVE FALSE
    <3>1. p * q >= p * g
      BY <2>2
    <3>2. PICK c1 \in Nat : c1 = p * q
      OBVIOUS
    <3>3. PICK c2 \in Nat : c2 = p * g
      OBVIOUS
    <3> QED
      BY <1>6, <2>1, <3>1, <3>2, <3>3
  <2> QED
    BY <2>2
<1>9. (Value(e, n) \div 2^k) % 16 = (q + g * z) % 16
  BY <1>2, <1>3, <1>4, <1>6, <1>7
<1>10. GetBits4(e, k) = IF o > LimbBits - 4 /\ i + 1 < MaxLimbs
                        THEN (q % 16) + ((e[i + 1] * 2^(LimbBits - o)) % 16) ELSE q % 16
  BY <1>1, <1>4, <1>6, <1>7 DEF GetBits4
<1>11. CASE d >= 4
  <2>1. PICK h \in Nat : g = 16 * h
    BY <1>3, <1>11, Sixteens
  <2>2. PICK c \in Nat : c = h * z
    OBVIOUS
  <2>3. (16 * h) * z = 16 * c
    BY <2>2
  <2>4. (q + 16 * c) % 16 = q % 16
    OBVIOUS
  <2>5. ~(o > LimbBits - 4)
    BY <1>0, <1>1, <1>11
  <2> QED
    BY <1>9, <1>10, <2>1, <2>3, <2>4, <2>5
<1>12. CASE d < 4
  <2>1. o > LimbBits - 4 /\ o + 3 >= LimbBits
    BY <1>0, <1>1, <1>12
  <2>2. i + 1 < n
    <3>1. ASSUME i + 1 = n PROVE FALSE
      <4>1. LimbBits * (i + 1) = LimbBits * i + LimbBits
        BY <1>0
      <4>2. PICK c \in Nat : c = LimbBits * i
        BY <1>0
      <4>3. k + 3 >= c + LimbBits
        BY <1>0, <1>1, <2>1, <4>2
      <4>4. LimbBits * n = c + LimbBits
        BY <3>1, <4>1, <4>2
      <4> QED
        BY <1>0, <4>3, <4>4
    <3> QED
      BY <3>1
  <2>3. i + 1 < MaxLimbs
    BY <1>0, <2>2
  <2>4. LimbBits - o = d
    BY <1>0, <1>1
  <2>5. PICK u \in Nat : u = e[i + 1]
    <3>1. i + 1 \in 0 .. n - 1
      BY <2>2
    <3>2. e[i + 1] \in 0 .. Radix - 1
      BY <3>1 DEF HasLimbs
    <3> QED
      BY <3>2, RadixType
  <2>6. GetBits4(e, k) = (q % 16) + ((u * g) % 16)
    BY <1>3, <1>10, <2>1, <2>3, <2>4, <2>5
  <2>7. PICK y \in Nat : z = u + Radix * y
    BY <1>2, <2>2, <2>5
  <2>8. PICK h \in Nat : Radix = 16 * h
    BY <1>0, Sixteens DEF Radix
  <2>9. PICK c \in Nat : c = h * y
    OBVIOUS
  <2>10. z = u + 16 * c
    <3>1. (16 * h) * y = 16 * (h * y)
      OBVIOUS
    <3> QED
      BY <2>7, <2>8, <2>9, <3>1
  <2>11. d = 1 \/ d = 2 \/ d = 3
    BY <1>1, <1>12
  <2>12. CASE d = 1
    <3>1. g = 2
      BY <1>3, <2>12, SmallPowers
    <3>2. (q % 16) + ((u * 2) % 16) = (q + 2 * (u + 16 * c)) % 16
      <4>1. q < 2
        BY <1>8, <3>1
      <4> QED
        BY <4>1
    <3> QED
      BY <1>9, <2>6, <2>10, <3>1, <3>2
  <2>13. CASE d = 2
    <3>1. g = 4
      BY <1>3, <2>13, SmallPowers
    <3>2. (q % 16) + ((u * 4) % 16) = (q + 4 * (u + 16 * c)) % 16
      <4>1. q < 4
        BY <1>8, <3>1
      <4> QED
        BY <4>1
    <3> QED
      BY <1>9, <2>6, <2>10, <3>1, <3>2
  <2>14. CASE d = 3
    <3>1. g = 8
      BY <1>3, <2>14, SmallPowers
    <3>2. (q % 16) + ((u * 8) % 16) = (q + 8 * (u + 16 * c)) % 16
      <4>1. q < 8
        BY <1>8, <3>1
      <4> QED
        BY <4>1
    <3> QED
      BY <1>9, <2>6, <2>10, <3>1, <3>2
  <2> QED
    BY <2>11, <2>12, <2>13, <2>14
<1> QED
  BY <1>11, <1>12

\* The states of a window read bit by bit.
BitStates(v, k, width) ==
  [j \in 0 .. width |-> { w \in Nat : w = (v \div 2^k) % 2^j }]

\* A bit of a number of n limbs lies in one of them.
LEMMA BitInside ==
  ASSUME NEW n \in Nat, NEW k \in Nat, k < LimbBits * n
  PROVE  ~ (k \div LimbBits >= n)
<1>1. PICK l \in Nat : l = LimbBits /\ l > 0
  BY LimbAssumption
<1>2. PICK i \in Nat : i = k \div l
  BY <1>1, Rest
<1>3. PICK o \in Nat : o = k % l /\ o < l /\ k = l * i + o
  BY <1>1, <1>2, Rest
<1>4. i < n
  <2>1. ASSUME i >= n PROVE FALSE
    <3>1. l * i >= l * n
      BY <2>1
    <3> QED
      BY <1>1, <1>3, <3>1
  <2> QED
    BY <2>1
<1> QED
  BY <1>1, <1>2, <1>4

\* One more bit of a number.
LEMMA BitNext ==
  ASSUME NEW v \in Nat, NEW k \in Nat, NEW j \in Nat
  PROVE  (v \div 2^k) % 2^(j + 1) = ((v \div 2^k) % 2^j) + 2^j * ((v \div 2^(k + j)) % 2)
<1>1. PICK p \in Nat : p = 2^k /\ p > 0
  BY PowerType
<1>2. PICK g \in Nat : g = 2^j /\ g > 0 /\ 2^(j + 1) = 2 * g
  BY PowerType, PowerNext
<1>3. 2^(k + j) = g * p
  <2>1. p * g = g * p
    OBVIOUS
  <2> QED
    BY <1>1, <1>2, <2>1, PowerSum
<1>4. PICK x \in Nat : x = v \div p
  BY <1>1, Rest
<1>5. v \div (g * p) = x \div g
  BY <1>1, <1>2, <1>4, RestNext
<1>6. x % (2 * g) = (x % g) + ((x \div g) % 2) * g
  <2>1. PICK t \in Nat : t = 2 /\ t > 0
    OBVIOUS
  <2>a. PICK h \in Nat : h = g /\ h > 0
    BY <1>2
  <2>b. /\ x % (t * h) = (x % h) + ((x \div h) % t) * h
        /\ x \div (t * h) = (x \div h) \div t
    BY <2>a, <2>1, RestNext
  <2>2. x % (t * g) = (x % g) + ((x \div g) % t) * g
    BY <2>a, <2>b
  <2> QED
    BY <2>1, <2>2
<1>7. PICK b \in Nat : b = (x \div g) % 2
  <2>1. x \div g \in Nat
    BY <1>2, Rest
  <2> QED
    BY <2>1
<1>8. b * g = g * b
  OBVIOUS
<1> QED
  BY <1>1, <1>2, <1>3, <1>4, <1>5, <1>6, <1>7, <1>8

\* get_bits_w returns the bits of the exponent from one bit on.
LEMMA GetBitsWExact ==
  ASSUME NEW nl \in Nat, NEW e, HasLimbs(e, nl), NEW from \in Nat, NEW width \in Nat,
         from + width <= LimbBits * nl
  PROVE  GetBitsW(e, from, width, nl) = (Value(e, nl) \div 2^from) % 2^width
<1>a. LimbBits * nl \in Nat
  BY LimbAssumption
<1>b. PICK v \in Nat : v = Value(e, nl)
  <2>1. nl \in 0 .. nl
    OBVIOUS
  <2> QED
    BY <2>1, HasLimbsValue
<1>c. ASSUME NEW m \in Nat, m < LimbBits * nl PROVE ~ (m \div LimbBits >= nl)
  BY <1>c, BitInside
<1> DEFINE n == width
           I == BitStates(v, from, width)
           S == Nat
           s0 == 0
           step(w, j) == IF (from + j) \div LimbBits >= nl THEN w ELSE w + 2^j * Bit(e, from + j)
           F == [j \in 0 .. n - 1 |-> [p \in S |-> step(p, j)]]
<1>0. n \in Nat
  OBVIOUS
<1>2. \A j \in 0 .. n : I[j] \subseteq S
  BY DEF BitStates
<1>3. s0 \in I[0]
  <2>1. v \div 2^from \in Nat
    BY PowerType, Rest
  <2>2. (v \div 2^from) % 1 = 0
    BY <2>1
  <2>3. (v \div 2^from) % 2^0 = 0
    BY <2>2, PowerZero
  <2>4. 0 \in 0 .. width
    OBVIOUS
  <2> QED
    BY <2>3, <2>4 DEF BitStates
<1>4. \A j \in 0 .. n - 1 : \A p \in I[j] : step(p, j) \in I[j + 1]
  <2>1. SUFFICES ASSUME NEW j \in 0 .. n - 1, NEW p \in I[j] PROVE step(p, j) \in I[j + 1]
    OBVIOUS
  <2>2. j \in Nat /\ j \in 0 .. width /\ j + 1 \in 0 .. width
    OBVIOUS
  <2>3. p = (v \div 2^from) % 2^j /\ p \in Nat
    BY <2>2 DEF BitStates
  <2>4. PICK m \in Nat : m = from + j
    BY <2>2
  <2>5. m < LimbBits * nl
    BY <1>a, <2>2, <2>4
  <2>6. Bit(e, m) = (v \div 2^m) % 2
    BY <1>b, <2>5, BitExact
  <2>7. ~ (m \div LimbBits >= nl)
    BY <1>c, <2>5
  <2>8. step(p, j) = p + 2^j * Bit(e, m)
    BY <2>4, <2>7
  <2>9. step(p, j) = (v \div 2^from) % 2^(j + 1)
    BY <2>2, <2>3, <2>4, <2>6, <2>8, BitNext
  <2>10. (v \div 2^from) % 2^(j + 1) \in Nat
    <3>1. v \div 2^from \in Nat
      BY PowerType, Rest
    <3>2. 2^(j + 1) \in Nat /\ 2^(j + 1) > 0
      BY <2>2, PowerType
    <3> QED
      BY <3>1, <3>2, Rest
  <2> HIDE DEF step
  <2> QED
    BY <2>2, <2>9, <2>10 DEF BitStates
<1>5. \A k \in 0 .. n - 1 : \A p \in I[k] : /\ F[k][p] = step(p, k)
                                              /\ F[k][p] \in I[k + 1]
                                              /\ Only({ step(q, k) : q \in {p} }) = F[k][p]
  <2>1. \A k \in 0 .. n - 1 : \A p \in S : F[k][p] = step(p, k)
    <3> HIDE DEF step, S
    <3> QED
      OBVIOUS
  <2>2. \A k \in 0 .. n - 1 : \A p : Only({ step(q, k) : q \in {p} }) = step(p, k)
    <3> HIDE DEF step
    <3> QED
      BY DEF Only
  <2> HIDE DEF step, S, F, I
  <2> QED
    BY <1>0, <1>2, <1>4, <2>1, <2>2
<1>6. PICK f : Iterates(f, F, s0, n) /\ Within(f, I, n)
  <2> HIDE DEF F, I, s0, step
  <2> QED
    BY <1>0, <1>3, <1>5, Loop
<1> DEFINE Is(h) == h = [k \in 0 .. n |->
                          IF k = 0 THEN s0 ELSE Only({ step(p, k - 1) : p \in {h[k - 1]} })]
           g == CHOOSE h : Is(h)
<1>7. Is(f)
  <2>1. \A k \in 1 .. n : F[k - 1][f[k - 1]] = Only({ step(p, k - 1) : p \in {f[k - 1]} })
    <3>1. SUFFICES ASSUME NEW k \in 1 .. n
                   PROVE  F[k - 1][f[k - 1]] = Only({ step(p, k - 1) : p \in {f[k - 1]} })
      OBVIOUS
    <3>2. k - 1 \in 0 .. n - 1 /\ k - 1 \in 0 .. n
      BY <1>0
    <3> HIDE DEF step, I, F
    <3> QED
      BY <1>5, <1>6, <3>2 DEF Within
  <2>2. \A k \in 0 .. n : (IF k = 0 THEN s0 ELSE F[k - 1][f[k - 1]])
                         = IF k = 0 THEN s0 ELSE Only({ step(p, k - 1) : p \in {f[k - 1]} })
    <3> HIDE DEF step, F, s0, I, S
    <3> QED
      BY <1>0, <2>1
  <2> HIDE DEF step, F, s0, I, S
  <2> QED
    BY <1>6, <2>2 DEF Iterates
<1>8. Is(g)
  <2> HIDE DEF Is
  <2> QED
    BY <1>7
<1>9. g[0] = s0 /\ \A k \in 0 .. n - 1 : g[k + 1] = Only({ step(p, k) : p \in {g[k]} })
  <2> HIDE DEF step, g, s0, n, S
  <2>1. g[0] = s0
    BY <1>0, <1>8
  <2>2. ASSUME NEW k \in 0 .. n - 1 PROVE g[k + 1] = Only({ step(p, k) : p \in {g[k]} })
    <3>1. k + 1 \in 0 .. n /\ k + 1 # 0 /\ (k + 1) - 1 = k
      BY <1>0
    <3> QED
      BY <1>8, <3>1
  <2> QED
    BY <2>1, <2>2
<1>10. \A k \in 0 .. n - 1 : g[k] \in I[k] => g[k + 1] = F[k][g[k]]
  <2> HIDE DEF step, g, I, F
  <2> QED
    BY <1>5, <1>9
<1>11. g[n] \in I[n]
  <2>1. \A k \in 0 .. n - 1 : \A p \in I[k] : F[k][p] \in I[k + 1]
    <3> HIDE DEF step, g, I, F, s0, n, S
    <3> QED
      BY <1>5
  <2>2. g[0] = s0
    <3> HIDE DEF step, g, I, F, s0, n, S
    <3> QED
      BY <1>9
  <2> HIDE DEF step, g, I, F, s0, n, S
  <2> QED
    BY <1>0, <1>3, <1>10, <2>1, <2>2, LoopEnds
<1>12. Accumulate(step, s0, n) \in I[n]
  <2>1. Accumulate(step, s0, n) = g[n]
    BY DEF Accumulate
  <2> QED
    BY <1>11, <2>1
<1>13. GetBitsW(e, from, width, nl) = Accumulate(step, s0, n)
  BY DEF GetBitsW
<1>14. n \in 0 .. width
  OBVIOUS
<1>15. PICK x \in I[n] : x = Accumulate(step, s0, n)
  BY <1>12
<1>16. x = (v \div 2^from) % 2^n
  <2> HIDE DEF n
  <2> QED
    BY <1>14, <1>15 DEF BitStates
<1> QED
  BY <1>b, <1>13, <1>15, <1>16

-----------------------------------------------------------------------------
(* Powers of two by windows                                                 *)

\* The windows of Pow2Window: their sizes and the bits of the exponent they hold.
SizeAt(bit, width) == IF bit < width - 1 THEN 1 ELSE width
BitsAt(e, bit, size, nl) ==
  CASE size = 1          -> Bit(e, bit)
    [] size = FERMAT_WIN -> GetBits4(e, bit - (size - 1))
    [] OTHER             -> GetBitsW(e, bit - (size - 1), size, nl)

\* Whichever way a window is read, it is the bits from low up to bit.
LEMMA WindowBits ==
  ASSUME NEW nl \in Nat, nl <= MaxLimbs, NEW e, HasLimbs(e, nl),
         NEW size \in Nat, size > 0, NEW low \in Nat, NEW bit, bit = low + (size - 1),
         bit < LimbBits * nl
  PROVE  /\ BitsAt(e, bit, size, nl) \in Nat /\ BitsAt(e, bit, size, nl) < 2^size
         /\ Value(e, nl) \div 2^low = (Value(e, nl) \div 2^(bit + 1)) * 2^size + BitsAt(e, bit, size, nl)
<1>a. bit \in Nat /\ bit - (size - 1) = low /\ LimbBits * nl \in Nat
  BY LimbAssumption
<1>1. PICK v \in Nat : v = Value(e, nl)
  <2>1. nl \in 0 .. nl
    OBVIOUS
  <2> QED
    BY <2>1, HasLimbsValue
<1>2. PICK p \in Nat : p = 2^low /\ p > 0
  BY PowerType
<1>3. PICK g \in Nat : g = 2^size /\ g > 0
  BY PowerType
<1>4. PICK x \in Nat : x = v \div p
  BY <1>2, Rest
<1>5. BitsAt(e, bit, size, nl) = x % g
  <2>1. CASE size = 1
    <3>1. bit = low
      BY <1>a, <2>1
    <3>3. BitsAt(e, bit, size, nl) = Bit(e, bit)
      BY <2>1 DEF BitsAt, FERMAT_WIN
    <3>2. Bit(e, low) = (v \div 2^low) % 2
      BY <1>1, <3>1, BitExact
    <3> QED
      BY <1>2, <1>3, <1>4, <2>1, <3>1, <3>2, <3>3, PowerOne
  <2>2. CASE size # 1 /\ size = FERMAT_WIN
    <3>1. size = 4 /\ low + 3 < LimbBits * nl
      BY <1>a, <2>2 DEF FERMAT_WIN
    <3>2. BitsAt(e, bit, size, nl) = GetBits4(e, low)
      BY <1>a, <2>2 DEF BitsAt
    <3>3. GetBits4(e, low) = (v \div 2^low) % 16
      BY <1>1, <3>1, GetBits4Exact
    <3> QED
      BY <1>2, <1>3, <1>4, <3>1, <3>2, <3>3, SmallPowers
  <2>3. CASE size # 1 /\ size # FERMAT_WIN
    <3>1. BitsAt(e, bit, size, nl) = GetBitsW(e, low, size, nl)
      BY <1>a, <2>3 DEF BitsAt
    <3>2. low + size <= LimbBits * nl
      BY <1>a
    <3>3. GetBitsW(e, low, size, nl) = (v \div 2^low) % 2^size
      BY <1>1, <3>2, GetBitsWExact
    <3> QED
      BY <1>2, <1>3, <1>4, <3>1, <3>3
  <2> QED
    BY <2>1, <2>2, <2>3
<1>6. PICK w \in Nat : w = x % g /\ w < g
  BY <1>3, Rest
<1>7. PICK y \in Nat : y = x \div g
  BY <1>3, Rest
<1>8. x = g * y + w
  BY <1>3, <1>6, <1>7, Rest
<1>9. v \div 2^(bit + 1) = y
  <2>1. bit + 1 = size + low
    BY <1>a
  <2>2. 2^(size + low) = g * p
    BY <1>2, <1>3, PowerSum
  <2>3. v \div (g * p) = (v \div p) \div g
    BY <1>2, <1>3, RestNext
  <2> QED
    BY <1>4, <1>7, <2>1, <2>2, <2>3
<1>10. g * y = y * g
  OBVIOUS
<1> QED
  BY <1>1, <1>2, <1>3, <1>4, <1>5, <1>6, <1>8, <1>9, <1>10

\* After k windows at least k bits are read; the limbs hold two to the power of the bits read.
WindowStates(v, msb, M) ==
  [k \in 0 .. msb |->
     { s \in [res : Limbs(M.nl), bit : Int] :
         /\ s.bit >= -1 /\ s.bit < msb /\ s.bit <= (msb - 1) - k
         /\ Form(s.res, 2^(v \div 2^(s.bit + 1)), M) }]

\* Read in windows of width bits from its highest bit on, the exponent e gives 2^e in
\* Montgomery form, also where a window lies in two limbs or only single bits are left
\* (cpu_pow2_window_from_precomp).
THEOREM Pow2WindowExact ==
  ASSUME NEW M, OddModulus(M), M.nl <= MaxLimbs, NEW width \in 1 .. FERMAT_WIN_MAX, NEW odd,
         PowersOdd(odd, 2^(width - 1), M), NEW e, HasLimbs(e, M.nl), NEW msb \in Nat,
         2^msb <= Value(e, M.nl), Value(e, M.nl) < 2^(msb + 1)
  PROVE  Form(Pow2Window(e, msb, odd, width, M), 2^Value(e, M.nl), M)
<1>a. PICK l \in Nat : l = M.nl /\ l > 0 /\ l <= MaxLimbs
  BY ModularType DEF OddModulus
<1>b. PICK v \in Nat : v = Value(e, l) /\ v < Weight(l)
  <2>1. l \in 0 .. l
    OBVIOUS
  <2> QED
    BY <1>a, <2>1, HasLimbsValue
<1>c. width \in Nat /\ width >= 1 /\ width <= FERMAT_WIN_MAX
  BY DEF FERMAT_WIN_MAX
<1>d. PICK all \in Nat : all = LimbBits * l /\ msb < all
  <2>1. PICK all \in Nat : all = LimbBits * l
    BY LimbAssumption
  <2>2. ASSUME msb >= all PROVE FALSE
    <3>1. 2^all <= 2^msb /\ 2^all = Weight(l)
      BY <2>1, <2>2, PowerOrder DEF Weight
    <3>2. 2^msb \in Nat /\ 2^all \in Nat
      BY PowerType
    <3> QED
      BY <1>a, <1>b, <3>1, <3>2
  <2> QED
    BY <2>1, <2>2
<1> DEFINE n == msb
           I == WindowStates(v, msb, M)
           S == [res : Limbs(M.nl), bit : Int]
           s0 == [res |-> odd[1], bit |-> msb - 1]
           Size(bit) == IF bit < width - 1 THEN 1 ELSE width
           Bits(bit, size) ==
             CASE size = 1          -> Bit(e, bit)
               [] size = FERMAT_WIN -> GetBits4(e, bit - (size - 1))
               [] OTHER             -> GetBitsW(e, bit - (size - 1), size, M.nl)
           Factors(w, z, size) ==
             IF w = 0 THEN Squares(size)
             ELSE Squares(size - z) \o <<(w \div 2^z) \div 2 + 1>> \o Squares(z)
           step(s, k) ==
             IF s.bit < 0 THEN s
             ELSE Only({ [res |-> Multiplied(s.res, Factors(w, TrailingZeros(w), Size(s.bit)), odd, M),
                          bit |-> s.bit - Size(s.bit)] : w \in {Bits(s.bit, Size(s.bit))} })
           F == [k \in 0 .. n - 1 |-> [p \in S |-> step(p, k)]]
<1>0. n \in Nat
  OBVIOUS
<1>1. ASSUME NEW s \in S, s.bit >= 0, NEW k
      PROVE  \E size, w :
               /\ size = SizeAt(s.bit, width) /\ w = BitsAt(e, s.bit, size, M.nl)
               /\ step(s, k) = [res |-> Multiplied(s.res, FactorsOf(w, TrailingZeros(w), size), odd, M),
                                bit |-> s.bit - size]
  <2> DEFINE Next(w, size) ==
               [res |-> Multiplied(s.res, Factors(w, TrailingZeros(w), size), odd, M), bit |-> s.bit - size]
  <2>1. PICK size : size = Size(s.bit) /\ size = SizeAt(s.bit, width)
    BY DEF SizeAt
  <2>2. PICK w : w = Bits(s.bit, size) /\ w = BitsAt(e, s.bit, size, M.nl)
    BY DEF BitsAt
  <2>3. step(s, k) = Only({ Next(u, Size(s.bit)) : u \in {Bits(s.bit, Size(s.bit))} })
    <3>1. ~(s.bit < 0)
      BY <1>1
    <3> QED
      BY <3>1
  <2>4. step(s, k) = Only({ Next(u, size) : u \in {w} })
    <3> HIDE DEF step, Next, Size, Bits
    <3> QED
      BY <2>1, <2>2, <2>3
  <2>5. step(s, k) = Next(w, size)
    <3> HIDE DEF step, Next
    <3> QED
      BY <2>4 DEF Only
  <2>6. Factors(w, TrailingZeros(w), size) = FactorsOf(w, TrailingZeros(w), size)
    BY DEF FactorsOf
  <2> HIDE DEF step, Factors
  <2> QED
    BY <2>1, <2>2, <2>5, <2>6
<1>2. \A k \in 0 .. n : I[k] \subseteq S
  BY DEF WindowStates
<1>3. s0 \in I[0]
  <2>1. PICK j \in Nat : j = width - 1
    BY <1>c
  <2>2. 2^j \in Nat /\ 2^j > 0 /\ PowersOdd(odd, 2^j, M)
    BY <2>1, PowerType
  <2>3. Form(odd[1], 2^(2 * 1 - 1), M)
    <3>1. 1 \in 1 .. 2^j
      BY <2>2
    <3> QED
      BY <2>2, <3>1 DEF PowersOdd
  <2>4. Form(odd[1], 2^1, M)
    BY <2>3
  <2>5. v \div 2^msb = 1
    <3>1. PICK p \in Nat : p = 2^msb /\ 2^(msb + 1) = 2 * p
      BY PowerType, PowerNext
    <3>2. PICK b \in Nat : v = p + b /\ b < p
      <4>1. v - p \in Nat /\ v = p + (v - p) /\ v - p < p
        BY <1>a, <1>b, <3>1
      <4> QED
        BY <4>1
    <3>3. v = p * 1 + b
      BY <3>2
    <3> QED
      BY <3>1, <3>2, <3>3, DivisionIs
  <2>6. (msb - 1) + 1 = msb
    OBVIOUS
  <2>7. Form(odd[1], 2^(v \div 2^((msb - 1) + 1)), M)
    BY <2>4, <2>5, <2>6
  <2>8. odd[1] \in Limbs(M.nl)
    BY <2>4 DEF Form
  <2>9. s0 \in S /\ s0.bit = msb - 1 /\ s0.res = odd[1]
    BY <2>8
  <2>10. 0 \in 0 .. msb
    OBVIOUS
  <2> HIDE DEF s0
  <2>11. s0.bit >= -1 /\ s0.bit < msb /\ s0.bit <= (msb - 1) - 0
    BY <2>9
  <2>12. Form(s0.res, 2^(v \div 2^(s0.bit + 1)), M)
    BY <2>7, <2>9
  <2> QED
    BY <2>9, <2>10, <2>11, <2>12 DEF WindowStates
<1>4. \A k \in 0 .. n - 1 : \A p \in I[k] : step(p, k) \in I[k + 1]
  <2>1. SUFFICES ASSUME NEW k \in 0 .. n - 1, NEW p \in I[k] PROVE step(p, k) \in I[k + 1]
    OBVIOUS
  <2>2. k \in Nat /\ k \in 0 .. msb /\ k + 1 \in 0 .. msb
    OBVIOUS
  <2>3. /\ p \in S /\ p.bit \in Int /\ p.bit >= -1 /\ p.bit < msb /\ p.bit <= (msb - 1) - k
        /\ Form(p.res, 2^(v \div 2^(p.bit + 1)), M)
    BY <2>2 DEF WindowStates
  <2>4. CASE p.bit < 0
    <3>1. step(p, k) = p
      BY <2>4
    <3>2. p.bit <= (msb - 1) - (k + 1)
      BY <2>2, <2>3, <2>4
    <3>3. p \in I[k + 1]
      BY <2>2, <2>3, <3>2 DEF WindowStates
    <3> HIDE DEF step, I
    <3> QED
      BY <3>1, <3>3
  <2>5. CASE p.bit >= 0
    <3>1. PICK size, w :
            /\ size = SizeAt(p.bit, width) /\ w = BitsAt(e, p.bit, size, M.nl)
            /\ step(p, k) = [res |-> Multiplied(p.res, FactorsOf(w, TrailingZeros(w), size), odd, M),
                             bit |-> p.bit - size]
      <4> HIDE DEF step, S
      <4> QED
        BY <1>1, <2>3, <2>5
    <3>2. PICK bit \in Nat : bit = p.bit /\ bit < msb /\ bit <= (msb - 1) - k
      BY <2>3, <2>5
    <3>3. size \in {1, width} /\ size \in Nat /\ size > 0 /\ bit - (size - 1) \in Nat
      BY <1>c, <3>1, <3>2 DEF SizeAt
    <3>4. PICK low \in Nat : bit = low + (size - 1) /\ low = (bit - size) + 1 /\ bit - size >= -1
      <4>1. bit - (size - 1) \in Nat /\ bit = (bit - (size - 1)) + (size - 1)
            /\ bit - (size - 1) = (bit - size) + 1
        BY <3>3
      <4> QED
        BY <3>3, <4>1
    <3>5. bit < LimbBits * l
      BY <1>d, <3>2
    <3>6. /\ BitsAt(e, bit, size, l) \in Nat /\ BitsAt(e, bit, size, l) < 2^size
          /\ Value(e, l) \div 2^low = (Value(e, l) \div 2^(bit + 1)) * 2^size + BitsAt(e, bit, size, l)
      BY <1>a, <3>3, <3>4, <3>5, WindowBits
    <3>7. w \in Nat /\ w < 2^size /\ v \div 2^low = (v \div 2^(bit + 1)) * 2^size + w
      BY <1>a, <1>b, <3>1, <3>2, <3>6
    <3>8. PICK x \in Nat : x = v \div 2^(bit + 1)
      <4>1. 2^(bit + 1) \in Nat /\ 2^(bit + 1) > 0
        BY PowerType
      <4> QED
        BY <4>1, Rest
    <3>9. Form(p.res, 2^x, M)
      BY <2>3, <3>2, <3>8
    <3>10. PICK r : r = Multiplied(p.res, FactorsOf(w, TrailingZeros(w), size), odd, M)
      OBVIOUS
    <3>11. Form(r, 2^(x * 2^size + w), M)
      BY <3>3, <3>7, <3>9, <3>10, WindowStep
    <3>12. Form(r, 2^(v \div 2^low), M)
      BY <3>7, <3>8, <3>11
    <3>13. PICK t : t = step(p, k)
      <4> HIDE DEF step
      <4> QED
        OBVIOUS
    <3>14. t = [res |-> r, bit |-> bit - size]
      <4> HIDE DEF step
      <4> QED
        BY <3>1, <3>2, <3>10, <3>13
    <3>15. r \in Limbs(M.nl)
      BY <3>12 DEF Form
    <3>16. /\ t \in S /\ t.res = r /\ t.bit = bit - size /\ t.bit + 1 = low
           /\ t.bit >= -1 /\ t.bit < msb /\ t.bit <= (msb - 1) - (k + 1)
      BY <2>2, <3>2, <3>3, <3>4, <3>14, <3>15
    <3>17. Form(t.res, 2^(v \div 2^(t.bit + 1)), M)
      BY <3>12, <3>16
    <3>18. t \in I[k + 1]
      BY <2>2, <3>16, <3>17 DEF WindowStates
    <3> HIDE DEF step, I
    <3> QED
      BY <3>13, <3>18
  <2> HIDE DEF step, I
  <2> QED
    BY <2>3, <2>4, <2>5
<1>5. \A k \in 0 .. n - 1 : \A p \in I[k] : /\ F[k][p] = step(p, k)
                                              /\ F[k][p] \in I[k + 1]
                                              /\ Only({ step(q, k) : q \in {p} }) = F[k][p]
  <2>1. \A k \in 0 .. n - 1 : \A p \in S : F[k][p] = step(p, k)
    <3> HIDE DEF step, S
    <3> QED
      OBVIOUS
  <2>2. \A k \in 0 .. n - 1 : \A p : Only({ step(q, k) : q \in {p} }) = step(p, k)
    <3> HIDE DEF step
    <3> QED
      BY DEF Only
  <2> HIDE DEF step, S, F, I
  <2> QED
    BY <1>0, <1>2, <1>4, <2>1, <2>2
<1>6. PICK f : Iterates(f, F, s0, n) /\ Within(f, I, n)
  <2> HIDE DEF F, I, s0, step
  <2> QED
    BY <1>0, <1>3, <1>5, Loop
<1> DEFINE Is(h) == h = [k \in 0 .. n |->
                          IF k = 0 THEN s0 ELSE Only({ step(p, k - 1) : p \in {h[k - 1]} })]
           g == CHOOSE h : Is(h)
<1>7. Is(f)
  <2>1. \A k \in 1 .. n : F[k - 1][f[k - 1]] = Only({ step(p, k - 1) : p \in {f[k - 1]} })
    <3>1. SUFFICES ASSUME NEW k \in 1 .. n
                   PROVE  F[k - 1][f[k - 1]] = Only({ step(p, k - 1) : p \in {f[k - 1]} })
      OBVIOUS
    <3>2. k - 1 \in 0 .. n - 1 /\ k - 1 \in 0 .. n
      BY <1>0
    <3> HIDE DEF step, I, F
    <3> QED
      BY <1>5, <1>6, <3>2 DEF Within
  <2>2. \A k \in 0 .. n : (IF k = 0 THEN s0 ELSE F[k - 1][f[k - 1]])
                         = IF k = 0 THEN s0 ELSE Only({ step(p, k - 1) : p \in {f[k - 1]} })
    <3> HIDE DEF step, F, s0, I, S
    <3> QED
      BY <1>0, <2>1
  <2> HIDE DEF step, F, s0, I, S
  <2> QED
    BY <1>6, <2>2 DEF Iterates
<1>8. Is(g)
  <2> HIDE DEF Is
  <2> QED
    BY <1>7
<1>9. g[0] = s0 /\ \A k \in 0 .. n - 1 : g[k + 1] = Only({ step(p, k) : p \in {g[k]} })
  <2> HIDE DEF step, g, s0, n
  <2>1. g[0] = s0
    BY <1>0, <1>8
  <2>2. ASSUME NEW k \in 0 .. n - 1 PROVE g[k + 1] = Only({ step(p, k) : p \in {g[k]} })
    <3>1. k + 1 \in 0 .. n /\ k + 1 # 0 /\ (k + 1) - 1 = k
      BY <1>0
    <3> QED
      BY <1>8, <3>1
  <2> QED
    BY <2>1, <2>2
<1>10. \A k \in 0 .. n - 1 : g[k] \in I[k] => g[k + 1] = F[k][g[k]]
  <2> HIDE DEF step, g, I, F
  <2> QED
    BY <1>5, <1>9
<1>11. g[n] \in I[n]
  <2>1. \A k \in 0 .. n - 1 : \A p \in I[k] : F[k][p] \in I[k + 1]
    <3> HIDE DEF step, g, I, F, s0, n
    <3> QED
      BY <1>5
  <2>2. g[0] = s0
    <3> HIDE DEF step, g, I, F, s0, n
    <3> QED
      BY <1>9
  <2> HIDE DEF step, g, I, F, s0, n
  <2> QED
    BY <1>0, <1>3, <1>10, <2>1, <2>2, LoopEnds
<1>12. Accumulate(step, s0, n) \in I[n]
  <2>1. Accumulate(step, s0, n) = g[n]
    BY DEF Accumulate
  <2> QED
    BY <1>11, <2>1
<1>13. Pow2Window(e, msb, odd, width, M) = Accumulate(step, s0, n).res
  BY DEF Pow2Window
<1>14. PICK s \in I[n] : s = Accumulate(step, s0, n)
  BY <1>12
<1>15. Form(s.res, 2^v, M)
  <2>1. n \in 0 .. msb
    OBVIOUS
  <2>2. /\ s.bit \in Int /\ s.bit >= -1 /\ s.bit <= (msb - 1) - n
        /\ Form(s.res, 2^(v \div 2^(s.bit + 1)), M)
    <3> HIDE DEF n
    <3> QED
      BY <1>14, <2>1 DEF WindowStates
  <2>3. s.bit = -1 /\ s.bit + 1 = 0
    BY <2>2
  <2>4. v \div 2^0 = v
    <3>1. v \div 1 = v
      OBVIOUS
    <3> QED
      BY <3>1, PowerZero
  <2> QED
    BY <2>2, <2>3, <2>4
<1> HIDE DEF step, s0, n, I
<1> QED
  BY <1>a, <1>b, <1>13, <1>14, <1>15

-----------------------------------------------------------------------------
(* The tests                                                                *)

\* A table of odd powers, with what it was made for.
Ready(p, M, width) ==
  /\ p.M = M /\ p.width = width /\ width \in 1 .. FERMAT_WIN_MAX
  /\ OddModulus(M) /\ M.nl <= MaxLimbs /\ Value(M.n, M.nl) > 1
  /\ PowersOdd(p.odd, 2^(width - 1), M)

\* Power and product with one: 2^e mod n.
LEMMA PowerOfTwoExact ==
  ASSUME NEW p, NEW M, NEW width, Ready(p, M, width), NEW e, HasLimbs(e, M.nl), Value(e, M.nl) > 0
  PROVE  /\ PowerOfTwo(p, e) \in Limbs(M.nl)
         /\ Value(PowerOfTwo(p, e), M.nl) = 2^Value(e, M.nl) % Value(M.n, M.nl)
<1>1. /\ p.M = M /\ p.width = width /\ width \in 1 .. FERMAT_WIN_MAX
      /\ OddModulus(M) /\ M.nl <= MaxLimbs /\ Value(M.n, M.nl) > 1
      /\ PowersOdd(p.odd, 2^(width - 1), M)
  BY DEF Ready
<1>2. PICK l \in Nat : l = M.nl /\ l > 0
  BY <1>1, ModularType DEF OddModulus
<1>3. PICK v \in Nat : v = Value(e, l) /\ v > 0
  <2>1. l \in 0 .. l
    OBVIOUS
  <2> QED
    BY <1>2, <2>1, HasLimbsValue
<1>4. PICK msb \in Nat : msb = FindMsb(e, l) /\ 2^msb <= v /\ v < 2^(msb + 1)
  BY <1>2, <1>3, FindMsbExact
<1>5. PICK odd : odd = p.odd
  OBVIOUS
<1>6. PICK r : r = Pow2Window(e, msb, odd, width, M)
  OBVIOUS
<1>7. Form(r, 2^v, M)
  BY <1>1, <1>2, <1>3, <1>4, <1>5, <1>6, Pow2WindowExact
<1>8. PICK y \in Nat : y = 2^v
  BY PowerType
<1>9. /\ MontMul(r, One(M.nl), M) \in Limbs(M.nl)
      /\ Value(MontMul(r, One(M.nl), M), M.nl) = y % Value(M.n, M.nl)
  BY <1>1, <1>7, <1>8, FormLeft
<1>10. PowerOfTwo(p, e) = MontMul(r, One(M.nl), M)
  BY <1>1, <1>2, <1>4, <1>5, <1>6 DEF PowerOfTwo
<1> QED
  BY <1>2, <1>3, <1>8, <1>9, <1>10

\* An odd number less one.
LEMMA Minus1Value ==
  ASSUME NEW n \in Nat, n > 0, NEW a \in Limbs(n), a[0] % 2 = 1
  PROVE  /\ Minus1(a) \in Limbs(n) /\ Minus1(a)[0] % 2 = 0
         /\ Value(Minus1(a), n) = Value(a, n) - 1
<1>1. 0 \in 0 .. n - 1 /\ a[0] \in Nat /\ a[0] \in 0 .. Radix - 1 /\ a[0] >= 1
  <2>1. 0 \in 0 .. n - 1 /\ a[0] \in Nat /\ a[0] \in 0 .. Radix - 1
    BY LimbsType
  <2> QED
    BY <2>1
<1>2. PICK m : m = Minus1(a)
  OBVIOUS
<1>3. PICK low \in 0 .. Radix - 1 : low = a[0] - 1 /\ low \in Nat
  <2>1. PICK x \in Nat : x = a[0] /\ x <= Radix - 1 /\ x >= 1
    BY <1>1, RadixType
  <2>2. x - 1 \in 0 .. Radix - 1 /\ x - 1 \in Nat
    BY <2>1, RadixType
  <2> QED
    BY <2>1, <2>2
<1>4. m = [a EXCEPT ![0] = low]
  BY <1>2, <1>3 DEF Minus1
<1>5. m \in Limbs(n) /\ m[0] = low /\ \A j \in 0 .. n - 1 : j # 0 => m[j] = a[j]
  <2>1. n \in Nat /\ a \in Limbs(n) /\ 0 \in 0 .. n - 1
    BY <1>1
  <2>2. /\ [a EXCEPT ![0] = low] \in Limbs(n)
        /\ [a EXCEPT ![0] = low][0] = low
        /\ \A j \in 0 .. n - 1 : j # 0 => [a EXCEPT ![0] = low][j] = a[j]
    BY <2>1, PutLimb
  <2> QED
    BY <1>4, <2>2
<1>6. low % 2 = 0
  BY <1>1, <1>3
<1> DEFINE G == { k \in 0 .. n : k > 0 => Value(m, k) = Value(a, k) - 1 }
<1>7. 0 \in G
  OBVIOUS
<1>8. ASSUME NEW k \in 0 .. n - 1, k \in G PROVE k + 1 \in G
  <2>1. k \in 0 .. n /\ k < n /\ k \in Nat /\ k + 1 \in 0 .. n
    OBVIOUS
  <2>2. Value(m, k + 1) = Value(m, k) + m[k] * Weight(k) /\ Value(a, k + 1) = Value(a, k) + a[k] * Weight(k)
    BY <1>5, <2>1, LimbsValue
  <2>3. CASE k = 0
    <3>1. Value(m, 0) = 0 /\ Value(a, 0) = 0 /\ Weight(0) = 1
      BY ValueZero, WeightZero
    <3>2. Value(m, k + 1) = 0 + low * 1 /\ Value(a, k + 1) = 0 + a[0] * 1
      BY <1>5, <2>2, <2>3, <3>1
    <3> QED
      BY <1>1, <1>3, <2>1, <3>2
  <2>4. CASE k # 0
    <3>1. m[k] = a[k] /\ Value(m, k) = Value(a, k) - 1
      BY <1>5, <1>8, <2>1, <2>4
    <3>2. PICK c \in Nat : c = a[k] * Weight(k)
      <4>1. a[k] \in Nat /\ Weight(k) \in Nat
        BY <2>1, LimbsType, WeightType
      <4> QED
        BY <4>1
    <3>3. Value(a, k) \in Nat
      BY <2>1, LimbsValue
    <3> QED
      BY <2>1, <2>2, <3>1, <3>2, <3>3
  <2> QED
    BY <2>3, <2>4
<1> HIDE DEF G
<1>9. n \in G
  BY <1>7, <1>8, Induction
<1> QED
  BY <1>2, <1>5, <1>6, <1>9 DEF G

\* The lowest bit of limb k, that moves into limb k - 1.
BitMoved(e, k, n) == IF k = n THEN 0 ELSE e[k] % 2

\* Half of an even number, limb by limb.
LEMMA HalvedValue ==
  ASSUME NEW n \in Nat, n > 0, NEW e \in Limbs(n), e[0] % 2 = 0
  PROVE  Halved(e, n) \in Limbs(n) /\ 2 * Value(Halved(e, n), n) = Value(e, n)
<1>1. PICK h : h = Halved(e, n)
  OBVIOUS
<1>2. PICK s \in Nat : s = 2^(LimbBits - 1) /\ s > 0 /\ Radix = 2 * s
  BY HalfRadix
<1>3. \A k \in 0 .. n - 1 : e[k] \in Nat /\ e[k] < 2 * s
  BY <1>2, LimbsType, RadixType
<1>4. \A k \in 0 .. n : BitMoved(e, k, n) \in {0, 1}
  BY <1>3 DEF BitMoved
<1>5. ASSUME NEW k \in 0 .. n - 1
      PROVE  h[k] = (e[k] \div 2) + BitMoved(e, k + 1, n) * s
  <2>1. h[k] = (e[k] \div 2) + (IF k = n - 1 THEN 0 ELSE (e[k + 1] * s) % Radix)
    BY <1>1, <1>2 DEF Halved
  <2>2. CASE k = n - 1
    <3>1. BitMoved(e, k + 1, n) = 0 /\ 0 * s = 0
      BY <2>2 DEF BitMoved
    <3> QED
      BY <2>1, <2>2, <3>1
  <2>3. CASE k # n - 1
    <3>1. PICK j \in 0 .. n - 1 : j = k + 1
      BY <2>3
    <3>2. PICK x \in Nat : x = e[j]
      BY <1>3
    <3>3. PICK q \in Nat : x = 2 * q + (x % 2)
      <4>1. x \div 2 \in Nat /\ x = 2 * (x \div 2) + (x % 2)
        OBVIOUS
      <4> QED
        BY <4>1
    <3>4. PICK b \in {0, 1} : b = x % 2
      OBVIOUS
    <3>5. x * s = (2 * s) * q + b * s
      <4>1. (2 * q + b) * s = (2 * s) * q + b * s
        OBVIOUS
      <4> QED
        BY <3>3, <3>4, <4>1
    <3>6. PICK y \in Nat : y = b * s /\ y < 2 * s
      <4>1. b * s = 0 \/ b * s = s
        OBVIOUS
      <4> QED
        BY <1>2, <4>1
    <3>7. PICK t \in Nat : t = 2 * s
      OBVIOUS
    <3>8. PICK u \in Nat : u = x * s
      OBVIOUS
    <3>9. u % t = y
      BY <3>5, <3>6, <3>7, <3>8, DivisionIs
    <3>10. BitMoved(e, k + 1, n) = b
      BY <3>1, <3>2, <3>4 DEF BitMoved
    <3> QED
      BY <1>2, <2>1, <2>3, <3>1, <3>2, <3>6, <3>7, <3>8, <3>9, <3>10
  <2> QED
    BY <2>2, <2>3
<1>6. ASSUME NEW k \in 0 .. n - 1
      PROVE  /\ h[k] \in 0 .. Radix - 1
             /\ 2 * h[k] + BitMoved(e, k, n) = e[k] + BitMoved(e, k + 1, n) * Radix
  <2>1. PICK x \in Nat : x = e[k] /\ x < 2 * s
    BY <1>3
  <2>2. PICK b \in {0, 1} : b = BitMoved(e, k + 1, n)
    <3>1. k + 1 \in 0 .. n
      OBVIOUS
    <3> QED
      BY <1>4, <3>1
  <2>3. BitMoved(e, k, n) = x % 2
    BY <2>1 DEF BitMoved
  <2>4. h[k] = (x \div 2) + b * s
    BY <1>5, <2>1, <2>2
  <2>5. CASE b = 0
    <3>1. h[k] = x \div 2
      BY <2>4, <2>5
    <3>2. b * Radix = 0
      BY <2>5, RadixType
    <3>3. x \div 2 \in Nat /\ 2 * (x \div 2) + (x % 2) = x /\ x \div 2 < s
      BY <2>1
    <3>4. h[k] \in 0 .. Radix - 1
      BY <1>2, <3>1, <3>3
    <3>5. 2 * h[k] + BitMoved(e, k, n) = e[k] + b * Radix
      BY <2>1, <2>3, <3>1, <3>2, <3>3
    <3> QED
      BY <2>2, <3>4, <3>5
  <2>6. CASE b = 1
    <3>1. h[k] = (x \div 2) + s
      BY <2>4, <2>6
    <3>2. b * Radix = 2 * s
      BY <1>2, <2>6
    <3> QED
      BY <1>2, <2>1, <2>2, <2>3, <3>1, <3>2
  <2> QED
    BY <2>5, <2>6
<1>7. h \in Limbs(n)
  BY <1>1, <1>6 DEF Limbs, Halved
<1> DEFINE G == { k \in 0 .. n : 2 * Value(h, k) = Value(e, k) + BitMoved(e, k, n) * Weight(k) }
<1>8. 0 \in G
  <2>1. BitMoved(e, 0, n) = 0
    BY DEF BitMoved
  <2>2. 2 * 0 = 0 + 0 * 1 /\ 0 \in 0 .. n
    OBVIOUS
  <2> QED
    BY <2>1, <2>2, ValueZero, WeightZero
<1>9. ASSUME NEW k \in 0 .. n - 1, k \in G PROVE k + 1 \in G
  <2>1. k \in 0 .. n /\ k < n /\ k \in Nat /\ k + 1 \in 0 .. n
    OBVIOUS
  <2>2. Value(h, k + 1) = Value(h, k) + h[k] * Weight(k) /\ Value(e, k + 1) = Value(e, k) + e[k] * Weight(k)
    BY <1>7, <2>1, LimbsValue
  <2>3. PICK w \in Nat : w = Weight(k)
    BY <2>1, WeightType
  <2>4. PICK r \in Nat : r = Radix /\ Weight(k + 1) = r * w
    BY <2>1, <2>3, RadixType, WeightNext
  <2>5. PICK b \in {0, 1} : b = BitMoved(e, k, n)
    BY <1>4, <2>1
  <2>6. PICK c \in {0, 1} : c = BitMoved(e, k + 1, n)
    BY <1>4, <2>1
  <2>7. PICK x \in Nat : x = e[k]
    BY <1>3
  <2>8. PICK y \in Nat : y = h[k]
    BY <1>7, LimbsType
  <2>9. PICK vh \in Nat : vh = Value(h, k)
    BY <1>7, <2>1, LimbsValue
  <2>10. PICK ve \in Nat : ve = Value(e, k)
    BY <2>1, LimbsValue
  <2>11. 2 * vh = ve + b * w
    BY <1>9, <2>1, <2>3, <2>5, <2>9, <2>10
  <2>12. 2 * y + b = x + c * r
    BY <1>6, <2>4, <2>5, <2>6, <2>7, <2>8
  <2>13. 2 * (vh + y * w) = (ve + x * w) + c * (r * w)
    <3>1. 2 * y = (x + c * r) - b
      BY <2>12
    <3>2. (2 * y) * w = (x * w + (c * r) * w) - b * w
      BY <3>1
    <3>3. (c * r) * w = c * (r * w) /\ (2 * y) * w = 2 * (y * w)
      OBVIOUS
    <3>4. PICK d1 \in Nat : d1 = y * w
      OBVIOUS
    <3>5. PICK d2 \in Nat : d2 = x * w
      OBVIOUS
    <3>6. PICK d3 \in Nat : d3 = c * (r * w)
      OBVIOUS
    <3>7. PICK d4 \in Nat : d4 = b * w
      OBVIOUS
    <3> QED
      BY <2>11, <3>2, <3>3, <3>4, <3>5, <3>6, <3>7
  <2>14. 2 * Value(h, k + 1) = Value(e, k + 1) + BitMoved(e, k + 1, n) * Weight(k + 1)
    BY <2>2, <2>3, <2>4, <2>6, <2>7, <2>8, <2>9, <2>10, <2>13
  <2> QED
    BY <2>1, <2>14
<1> HIDE DEF G
<1>10. n \in G
  BY <1>8, <1>9, Induction
<1>11. BitMoved(e, n, n) * Weight(n) = 0
  <2>1. Weight(n) \in Nat /\ BitMoved(e, n, n) = 0
    BY WeightType DEF BitMoved
  <2> QED
    BY <2>1
<1>12. Value(e, n) \in Nat
  <2>1. n \in 0 .. n
    OBVIOUS
  <2> QED
    BY <2>1, LimbsValue
<1> QED
  BY <1>1, <1>7, <1>10, <1>11, <1>12 DEF G

\* The tests to the base two.
FermatSays(n) == 2^(n - 1) % n = 1
EulerSays(n)  == 2^((n - 1) \div 2) % n \in {1, n - 1}

\* With the table ready the Fermat test says whether 2^(n-1) mod n is 1.
LEMMA FermatPrecompExact ==
  ASSUME NEW p, NEW M, NEW width, Ready(p, M, width), M.n[0] % 2 = 1
  PROVE  FermatPrecomp(p) <=> FermatSays(Value(M.n, M.nl))
<1>1. p.M = M /\ OddModulus(M) /\ Value(M.n, M.nl) > 1
  BY DEF Ready
<1>2. PICK l \in Nat : l = M.nl /\ l > 0 /\ M.n \in Limbs(l)
  BY <1>1, ModularType DEF OddModulus
<1>3. PICK v \in Nat : v = Value(M.n, l) /\ v > 1
  <2>1. l \in 0 .. l
    OBVIOUS
  <2> QED
    BY <1>1, <1>2, <2>1, LimbsValue
<1>4. PICK e : e = Minus1(M.n)
  OBVIOUS
<1>5. e \in Limbs(l) /\ Value(e, l) = v - 1
  BY <1>2, <1>3, <1>4, Minus1Value
<1>6. HasLimbs(e, l)
  BY <1>5 DEF HasLimbs, Limbs
<1>7. PICK r : r = PowerOfTwo(p, e)
  OBVIOUS
<1>8. r \in Limbs(l) /\ Value(r, l) = 2^(v - 1) % v
  <2>1. r \in Limbs(l) /\ Value(r, l) = 2^Value(e, l) % Value(M.n, l)
    BY <1>2, <1>3, <1>5, <1>6, <1>7, PowerOfTwoExact
  <2> QED
    BY <1>3, <1>5, <2>1
<1>9. PICK o : o = One(l) /\ o \in Limbs(l) /\ Value(o, l) = 1
  BY <1>2, OneValue
<1>10. r = o <=> Value(r, l) = 1
  BY <1>8, <1>9, LimbsEqual
<1>11. FermatPrecomp(p) <=> r = o
  BY <1>1, <1>2, <1>4, <1>7, <1>9 DEF FermatPrecomp
<1> QED
  BY <1>2, <1>3, <1>8, <1>10, <1>11 DEF FermatSays

\* The Euler test says whether 2^((n-1)/2) mod n is 1 or n-1.
LEMMA EulerPrecompExact ==
  ASSUME NEW p, NEW M, NEW width, Ready(p, M, width), M.n[0] % 2 = 1
  PROVE  EulerPrecomp(p) <=> EulerSays(Value(M.n, M.nl))
<1>1. p.M = M /\ OddModulus(M) /\ Value(M.n, M.nl) > 1 /\ Value(M.n, M.nl) % 2 = 1
  BY DEF Ready, OddModulus
<1>2. PICK l \in Nat : l = M.nl /\ l > 0 /\ M.n \in Limbs(l)
  BY <1>1, ModularType DEF OddModulus
<1>3. PICK v \in Nat : v = Value(M.n, l) /\ v > 1 /\ v % 2 = 1
  <2>1. l \in 0 .. l
    OBVIOUS
  <2> QED
    BY <1>1, <1>2, <2>1, LimbsValue
<1>4. PICK m : m = Minus1(M.n)
  OBVIOUS
<1>5. m \in Limbs(l) /\ m[0] % 2 = 0 /\ Value(m, l) = v - 1
  BY <1>2, <1>3, <1>4, Minus1Value
<1>6. PICK e : e = Halved(m, l)
  OBVIOUS
<1>7. e \in Limbs(l) /\ 2 * Value(e, l) = v - 1
  BY <1>2, <1>5, <1>6, HalvedValue
<1>8. PICK h \in Nat : h = Value(e, l) /\ h = (v - 1) \div 2 /\ h > 0
  <2>1. l \in 0 .. l
    OBVIOUS
  <2>2. PICK h \in Nat : h = Value(e, l)
    BY <1>7, <2>1, LimbsValue
  <2>3. 2 * h = v - 1
    BY <1>7, <2>2
  <2> QED
    BY <1>3, <2>2, <2>3
<1>9. HasLimbs(e, l)
  BY <1>7 DEF HasLimbs, Limbs
<1>10. PICK r : r = PowerOfTwo(p, e)
  OBVIOUS
<1>11. r \in Limbs(l) /\ Value(r, l) = 2^h % v
  <2>1. r \in Limbs(l) /\ Value(r, l) = 2^Value(e, l) % Value(M.n, l)
    BY <1>2, <1>8, <1>9, <1>10, PowerOfTwoExact
  <2> QED
    BY <1>3, <1>8, <2>1
<1>12. PICK o : o = One(l) /\ o \in Limbs(l) /\ Value(o, l) = 1
  BY <1>2, OneValue
<1>13. r = o <=> Value(r, l) = 1
  BY <1>11, <1>12, LimbsEqual
<1>14. r = m <=> Value(r, l) = v - 1
  BY <1>5, <1>11, LimbsEqual
<1>15. EulerPrecomp(p) <=> r \in {o, m}
  BY <1>1, <1>2, <1>4, <1>6, <1>10, <1>12 DEF EulerPrecomp
<1>16. EulerSays(v) <=> 2^h % v \in {1, v - 1}
  BY <1>8 DEF EulerSays
<1> QED
  BY <1>2, <1>3, <1>11, <1>13, <1>14, <1>15, <1>16

\* The tests on limbs, for a number that is odd.
LEMMA PrecompReady ==
  ASSUME NEW nl \in Nat, nl > 0, nl <= MaxLimbs, NEW n, HasLimbs(n, nl), n[nl - 1] # 0,
         n[0] % 2 = 1, Value(n, nl) > 1, NEW width \in 1 .. FERMAT_WIN_MAX, NEW adx
  PROVE  /\ FermatPrecomp(Precomp(n, nl, width, adx)) <=> FermatSays(Value(n, nl))
         /\ EulerPrecomp(Precomp(n, nl, width, adx)) <=> EulerSays(Value(n, nl))
<1>1. width \in Nat /\ width > 0
  BY DEF FERMAT_WIN_MAX
<1>2. PICK M : M = Modulus(n, nl, adx)
  OBVIOUS
<1>3. PICK p : p = Precomp(n, nl, width, adx)
  OBVIOUS
<1>4. p.M = M /\ p.width = width /\ PowersOdd(p.odd, 2^(width - 1), M)
  BY <1>1, <1>2, <1>3, PrecompExact
<1>5. /\ OddModulus(M) /\ M.nl = nl /\ M.n[0] = n[0]
      /\ Value(M.n, nl) = Value(n, nl)
  <2>1. 0 \in 0 .. nl - 1
    OBVIOUS
  <2> QED
    BY <1>2, <2>1, ModulusOdd
<1>6. Ready(p, M, width)
  BY <1>4, <1>5 DEF Ready
<1>7. M.n[0] % 2 = 1
  BY <1>5
<1>8. /\ FermatPrecomp(p) <=> FermatSays(Value(M.n, M.nl))
      /\ EulerPrecomp(p) <=> EulerSays(Value(M.n, M.nl))
  BY <1>6, <1>7, FermatPrecompExact, EulerPrecompExact
<1> QED
  BY <1>3, <1>5, <1>8

\* The tests on two limbs and more.
LEMMA WideTests ==
  ASSUME NEW nl \in Nat, nl > 1, nl <= MaxLimbs, NEW n, HasLimbs(n, nl), n[nl - 1] # 0,
         n[0] % 2 = 1, Value(n, nl) > 1, NEW width \in 1 .. FERMAT_WIN_MAX, NEW adx
  PROVE  /\ FermatTest(n, nl, width, adx) <=> FermatSays(Value(n, nl))
         /\ EulerTest(n, nl, width, adx) <=> EulerSays(Value(n, nl))
<1>1. FERMAT_WIN \in 1 .. FERMAT_WIN_MAX
  BY DEF FERMAT_WIN, FERMAT_WIN_MAX
<1>2. \A wd \in 1 .. FERMAT_WIN_MAX :
        /\ FermatPrecomp(Precomp(n, nl, wd, adx)) <=> FermatSays(Value(n, nl))
        /\ EulerPrecomp(Precomp(n, nl, wd, adx)) <=> EulerSays(Value(n, nl))
  BY PrecompReady
<1>3. /\ FermatExact(n, nl, adx) <=> FermatSays(Value(n, nl))
      /\ FermatDynwin(n, nl, width, adx) <=> FermatSays(Value(n, nl))
  BY <1>1, <1>2 DEF FermatExact, FermatDynwin
<1>4. /\ EulerExact(n, nl, adx) <=> EulerSays(Value(n, nl))
      /\ EulerDynwin(n, nl, width, adx) <=> EulerSays(Value(n, nl))
  BY <1>1, <1>2 DEF EulerExact, EulerDynwin
<1>5. nl # 1 /\ 0 < nl
  OBVIOUS
<1>6. FermatTest(n, nl, width, adx) <=> FermatSays(Value(n, nl))
  <2>1. CASE width = FERMAT_WIN
    BY <1>3, <1>5, <2>1 DEF FermatTest
  <2>2. CASE width # FERMAT_WIN
    BY <1>3, <1>5, <2>2 DEF FermatTest
  <2> QED
    BY <2>1, <2>2
<1>7. EulerTest(n, nl, width, adx) <=> EulerSays(Value(n, nl))
  <2>1. CASE width = FERMAT_WIN
    BY <1>4, <1>5, <2>1 DEF EulerTest
  <2>2. CASE width # FERMAT_WIN
    BY <1>4, <1>5, <2>2 DEF EulerTest
  <2> QED
    BY <2>1, <2>2
<1> QED
  BY <1>6, <1>7

RestsMultiply(x, y, n) == ((x % n) * (y % n)) % n = (x * y) % n

\* Remainders multiply.
LEMMA RestTimes ==
  ASSUME NEW n \in Nat, n > 0, NEW x \in Nat, NEW y \in Nat
  PROVE  RestsMultiply(x, y, n)
<1>1. PICK p \in Nat : p = x \div n
  BY Rest
<1>2. PICK a \in Nat : a = x % n /\ x = n * p + a
  BY <1>1, Rest
<1>3. PICK q \in Nat : q = y \div n
  BY Rest
<1>4. PICK b \in Nat : b = y % n /\ y = n * q + b
  BY <1>3, Rest
<1>5. PICK t \in Nat : t = a * b
  OBVIOUS
<1>6. PICK u \in Nat : u = t \div n
  BY Rest
<1>7. PICK v \in Nat : v = t % n /\ v < n /\ t = n * u + v
  BY <1>6, Rest
<1>8. PICK s \in Nat : s = (p * y + a * q) + u
  OBVIOUS
<1>9. PICK z \in Nat : z = x * y
  OBVIOUS
<1>10. z = n * s + v
  <2>1. (n * p + a) * y = n * (p * y) + a * y
    OBVIOUS
  <2>2. a * (n * q + b) = n * (a * q) + a * b
    OBVIOUS
  <2>3. n * ((p * y + a * q) + u) = (n * (p * y) + n * (a * q)) + n * u
    OBVIOUS
  <2>4. PICK c1 \in Nat : c1 = n * (p * y)
    OBVIOUS
  <2>5. PICK c2 \in Nat : c2 = n * (a * q)
    OBVIOUS
  <2>6. PICK c3 \in Nat : c3 = n * u
    OBVIOUS
  <2>7. z = c1 + a * y
    BY <1>2, <1>9, <2>1, <2>4
  <2>8. a * y = c2 + t
    BY <1>4, <1>5, <2>2, <2>5
  <2>9. n * s = (c1 + c2) + c3
    BY <1>8, <2>3, <2>4, <2>5, <2>6
  <2> QED
    BY <1>7, <2>6, <2>7, <2>8, <2>9
<1>11. z % n = v
  BY <1>7, <1>10, DivisionIs
<1>12. ((x % n) * (y % n)) % n = (x * y) % n
  BY <1>2, <1>4, <1>5, <1>7, <1>9, <1>11
<1> QED
  BY <1>12 DEF RestsMultiply

\* The squarings and products of the test on one limb, after the lowest k bits of e.
SquareStates(n, e) ==
  [k \in 0 .. LimbBits |->
     { s \in [acc : Nat, base : Nat] :
         s.acc = 2^(e % 2^k) % n /\ s.base = 2^(2^k) % n }]

\* Squaring and multiplying on one limb.
LEMMA PowerU64Exact ==
  ASSUME NEW n \in Nat, n > 1, NEW e \in Nat, e < Radix
  PROVE  PowerU64(n, e) = 2^e % n
<1> DEFINE cnt == LimbBits
           I == SquareStates(n, e)
           S == [acc : Nat, base : Nat]
           s0 == [acc |-> 1, base |-> 2 % n]
           step(s, k) == [acc  |-> IF (e \div 2^k) % 2 = 1 THEN (s.acc * s.base) % n ELSE s.acc,
                          base |-> (s.base * s.base) % n]
           F == [k \in 0 .. cnt - 1 |-> [p \in S |-> step(p, k)]]
<1>0. cnt \in Nat
  BY LimbAssumption
<1>2. \A k \in 0 .. cnt : I[k] \subseteq S
  BY DEF SquareStates
<1>3. s0 \in I[0]
  <2>1. e % 1 = 0 /\ 1 % n = 1 /\ 2 % n \in Nat
    <3>1. 1 = n * 0 + 1
      OBVIOUS
    <3>2. 1 % n = 1
      BY <3>1, DivisionIs
    <3> QED
      BY <3>2, Rest
  <2>2. e % 2^0 = 0 /\ 2^(2^0) = 2
    BY <2>1, PowerZero, PowerOne
  <2>3. 2^(e % 2^0) % n = 1
    BY <2>1, <2>2, PowerZero
  <2>4. 2^(2^0) % n = 2 % n
    BY <2>2
  <2>5. s0 \in S /\ s0.acc = 1 /\ s0.base = 2 % n /\ 0 \in 0 .. LimbBits
    BY <1>0, <2>1
  <2> HIDE DEF s0
  <2> QED
    BY <2>3, <2>4, <2>5 DEF SquareStates
<1>4. \A k \in 0 .. cnt - 1 : \A p \in I[k] : step(p, k) \in I[k + 1]
  <2>1. SUFFICES ASSUME NEW k \in 0 .. cnt - 1, NEW p \in I[k] PROVE step(p, k) \in I[k + 1]
    OBVIOUS
  <2>2. k \in Nat /\ k \in 0 .. LimbBits /\ k + 1 \in 0 .. LimbBits
    BY <1>0
  <2>3. p.acc \in Nat /\ p.base \in Nat /\ p.acc = 2^(e % 2^k) % n /\ p.base = 2^(2^k) % n
    BY <2>2 DEF SquareStates
  <2>4. PICK g \in Nat : g = 2^k /\ g > 0 /\ 2^(k + 1) = 2 * g
    BY <2>2, PowerType, PowerNext
  <2>5. PICK x \in Nat : x = e % g
    BY <2>4, Rest
  <2>6. PICK u \in Nat : u = 2^x
    BY PowerType
  <2>7. PICK v \in Nat : v = 2^g
    BY PowerType
  <2>8. p.acc = u % n /\ p.base = v % n
    BY <2>3, <2>4, <2>5, <2>6, <2>7
  <2>9. (p.base * p.base) % n = 2^(2^(k + 1)) % n
    <3>0. ((v % n) * (v % n)) % n = (v * v) % n
      <4>1. n > 0
        OBVIOUS
      <4>2. RestsMultiply(v, v, n)
        BY <4>1, RestTimes
      <4> QED
        BY <4>2 DEF RestsMultiply
    <3>1. (p.base * p.base) % n = (v * v) % n
      BY <2>8, <3>0
    <3>2. 2^(g + g) = v * v /\ g + g = 2 * g
      BY <2>7, PowerSum
    <3> QED
      BY <2>4, <3>1, <3>2
  <2>10. PICK b \in Nat : b = (e \div g) % 2 /\ (b = 0 \/ b = 1)
    <3>1. e \div g \in Nat
      BY <2>4, Rest
    <3> QED
      BY <3>1
  <2>11. e % 2^(k + 1) = x + b * g
    <3>1. PICK t \in Nat : t = 2 /\ t > 0
      OBVIOUS
    <3>2. e % (t * g) = (e % g) + ((e \div g) % t) * g
      BY <2>4, <3>1, RestNext
    <3> QED
      BY <2>4, <2>5, <2>10, <3>1, <3>2
  <2>12. PICK acc \in Nat : acc = step(p, k).acc /\ acc = 2^(e % 2^(k + 1)) % n
    <3>1. CASE b = 1
      <4>1. step(p, k).acc = (p.acc * p.base) % n
        BY <2>4, <2>10, <3>1
      <4>0. ((u % n) * (v % n)) % n = (u * v) % n
        <5>1. n > 0
          OBVIOUS
        <5>2. RestsMultiply(u, v, n)
          BY <5>1, RestTimes
        <5> QED
          BY <5>2 DEF RestsMultiply
      <4>2. (p.acc * p.base) % n = (u * v) % n
        BY <2>8, <4>0
      <4>3. 2^(x + g) = u * v
        BY <2>6, <2>7, PowerSum
      <4>4. e % 2^(k + 1) = x + g
        BY <2>11, <3>1
      <4>5. (u * v) % n \in Nat
        BY Rest
      <4> HIDE DEF step
      <4> QED
        BY <4>1, <4>2, <4>3, <4>4, <4>5
    <3>2. CASE b = 0
      <4>1. step(p, k).acc = p.acc
        BY <2>4, <2>10, <3>2
      <4>2. e % 2^(k + 1) = x
        BY <2>11, <3>2
      <4> HIDE DEF step
      <4> QED
        BY <2>3, <2>6, <2>8, <4>1, <4>2
    <3> QED
      BY <2>10, <3>1, <3>2
  <2>13. (p.base * p.base) % n \in Nat
    BY <2>3, Rest
  <2>14. step(p, k) = [acc |-> acc, base |-> (p.base * p.base) % n]
    BY <2>12
  <2>15. PICK t : t = [acc |-> acc, base |-> (p.base * p.base) % n]
    OBVIOUS
  <2>16. t \in S /\ t.acc = acc /\ t.base = (p.base * p.base) % n
    BY <2>13, <2>15
  <2>17. t \in I[k + 1]
    BY <2>2, <2>9, <2>12, <2>16 DEF SquareStates
  <2> HIDE DEF step, I
  <2> QED
    BY <2>14, <2>15, <2>17
<1>5. \A k \in 0 .. cnt - 1 : \A p \in I[k] : /\ F[k][p] = step(p, k)
                                              /\ F[k][p] \in I[k + 1]
                                              /\ Only({ step(q, k) : q \in {p} }) = F[k][p]
  <2>1. \A k \in 0 .. cnt - 1 : \A p \in S : F[k][p] = step(p, k)
    <3> HIDE DEF step, S
    <3> QED
      OBVIOUS
  <2>2. \A k \in 0 .. cnt - 1 : \A p : Only({ step(q, k) : q \in {p} }) = step(p, k)
    <3> HIDE DEF step
    <3> QED
      BY DEF Only
  <2> HIDE DEF step, S, F, I
  <2> QED
    BY <1>0, <1>2, <1>4, <2>1, <2>2
<1>6. PICK f : Iterates(f, F, s0, cnt) /\ Within(f, I, cnt)
  <2> HIDE DEF F, I, s0, step
  <2> QED
    BY <1>0, <1>3, <1>5, Loop
<1> DEFINE Is(h) == h = [k \in 0 .. cnt |->
                          IF k = 0 THEN s0 ELSE Only({ step(p, k - 1) : p \in {h[k - 1]} })]
           g == CHOOSE h : Is(h)
<1>7. Is(f)
  <2>1. \A k \in 1 .. cnt : F[k - 1][f[k - 1]] = Only({ step(p, k - 1) : p \in {f[k - 1]} })
    <3>1. SUFFICES ASSUME NEW k \in 1 .. cnt
                   PROVE  F[k - 1][f[k - 1]] = Only({ step(p, k - 1) : p \in {f[k - 1]} })
      OBVIOUS
    <3>2. k - 1 \in 0 .. cnt - 1 /\ k - 1 \in 0 .. cnt
      BY <1>0
    <3> HIDE DEF step, I, F
    <3> QED
      BY <1>5, <1>6, <3>2 DEF Within
  <2>2. \A k \in 0 .. cnt : (IF k = 0 THEN s0 ELSE F[k - 1][f[k - 1]])
                         = IF k = 0 THEN s0 ELSE Only({ step(p, k - 1) : p \in {f[k - 1]} })
    <3> HIDE DEF step, F, s0, I, S
    <3> QED
      BY <1>0, <2>1
  <2> HIDE DEF step, F, s0, I, S
  <2> QED
    BY <1>6, <2>2 DEF Iterates
<1>8. Is(g)
  <2> HIDE DEF Is
  <2> QED
    BY <1>7
<1>9. g[0] = s0 /\ \A k \in 0 .. cnt - 1 : g[k + 1] = Only({ step(p, k) : p \in {g[k]} })
  <2> HIDE DEF step, g, s0, cnt
  <2>1. g[0] = s0
    BY <1>0, <1>8
  <2>2. ASSUME NEW k \in 0 .. cnt - 1 PROVE g[k + 1] = Only({ step(p, k) : p \in {g[k]} })
    <3>1. k + 1 \in 0 .. cnt /\ k + 1 # 0 /\ (k + 1) - 1 = k
      BY <1>0
    <3> QED
      BY <1>8, <3>1
  <2> QED
    BY <2>1, <2>2
<1>10. \A k \in 0 .. cnt - 1 : g[k] \in I[k] => g[k + 1] = F[k][g[k]]
  <2> HIDE DEF step, g, I, F
  <2> QED
    BY <1>5, <1>9
<1>11. g[cnt] \in I[cnt]
  <2>1. \A k \in 0 .. cnt - 1 : \A p \in I[k] : F[k][p] \in I[k + 1]
    <3> HIDE DEF step, g, I, F, s0, cnt
    <3> QED
      BY <1>5
  <2>2. g[0] = s0
    <3> HIDE DEF step, g, I, F, s0, cnt
    <3> QED
      BY <1>9
  <2> HIDE DEF step, g, I, F, s0, cnt
  <2> QED
    BY <1>0, <1>3, <1>10, <2>1, <2>2, LoopEnds
<1>12. Accumulate(step, s0, cnt) \in I[cnt]
  <2>1. Accumulate(step, s0, cnt) = g[cnt]
    BY DEF Accumulate
  <2> QED
    BY <1>11, <2>1
<1>13. PowerU64(n, e) = Accumulate(step, s0, cnt).acc
  BY DEF PowerU64
<1>14. PICK s \in I[cnt] : s = Accumulate(step, s0, cnt)
  BY <1>12
<1>15. s.acc = 2^(e % 2^LimbBits) % n
  <2>1. LimbBits \in 0 .. LimbBits
    BY LimbAssumption
  <2> QED
    BY <1>14, <2>1 DEF SquareStates
<1>16. e % 2^LimbBits = e
  <2>1. PICK r \in Nat : r = Radix /\ r = 2^LimbBits
    BY RadixType DEF Radix
  <2>2. e = r * 0 + e
    BY <2>1
  <2>3. e % r = e
    BY <2>1, <2>2, DivisionIs
  <2> QED
    BY <2>1, <2>3
<1> HIDE DEF step, s0, cnt, I
<1> QED
  BY <1>13, <1>14, <1>15, <1>16

\* The tests on one limb.
LEMMA U64Tests ==
  ASSUME NEW n \in Nat, n > 1, n % 2 = 1, n < Radix
  PROVE  (FermatU64(n) <=> FermatSays(n)) /\ (EulerU64(n) <=> EulerSays(n))
<1>1. CASE n < 4
  <2>1. n = 3
    BY <1>1
  <2>2. 2^(3 - 1) % 3 = 1
    <3>1. 3 - 1 = 2 /\ 4 % 3 = 1
      OBVIOUS
    <3> QED
      BY <3>1, SmallPowers
  <2>3. 2^((3 - 1) \div 2) % 3 = 3 - 1
    <3>1. (3 - 1) \div 2 = 1 /\ 2 % 3 = 3 - 1
      OBVIOUS
    <3> QED
      BY <3>1, SmallPowers
  <2> QED
    BY <2>1, <2>2, <2>3 DEF FermatU64, EulerU64, FermatSays, EulerSays
<1>2. CASE n >= 4
  <2>1. PICK r \in Nat : r = Radix /\ n < r
    BY RadixType
  <2>2. PICK e \in Nat : e = n - 1 /\ e < r
    BY <2>1
  <2>3. PICK h \in Nat : h = (n - 1) \div 2 /\ h < r
    <3>1. (n - 1) \div 2 \in Nat /\ (n - 1) \div 2 < r
      BY <2>1
    <3> QED
      BY <3>1
  <2>4. PowerU64(n, e) = 2^e % n /\ PowerU64(n, h) = 2^h % n
    BY <2>1, <2>2, <2>3, PowerU64Exact
  <2> QED
    BY <1>2, <2>2, <2>3, <2>4 DEF FermatU64, EulerU64, FermatSays, EulerSays
<1> QED
  BY <1>1, <1>2

\* The limbs that a number needs.
LEMMA EffectiveExact ==
  ASSUME NEW a \in Limbs(MaxLimbs)
  PROVE  /\ EffectiveNl(a) \in 1 .. MaxLimbs /\ Value(a, EffectiveNl(a)) = Value(a, MaxLimbs)
         /\ EffectiveNl(a) = 1 \/ a[EffectiveNl(a) - 1] # 0
<1> DEFINE S == { k \in 1 .. MaxLimbs : k = 1 \/ a[k - 1] # 0 }
<1>1. MaxLimbs \in Nat /\ MaxLimbs >= 1
  BY LimbAssumption
<1>2. S \subseteq 0 .. MaxLimbs /\ S \subseteq Nat /\ S # {}
  <2>1. 1 \in S
    BY <1>1
  <2>2. S \subseteq 0 .. MaxLimbs
    BY <1>1
  <2> HIDE DEF S
  <2> QED
    BY <1>1, <2>1, <2>2
<1>3. PICK m \in S : \A y \in S : m >= y
  <2> HIDE DEF S
  <2> QED
    BY <1>1, <1>2, GreatestIn
<1>4. EffectiveNl(a) = m
  <2>1. Greatest(S) = m
    <3> HIDE DEF S
    <3> QED
      BY <1>2, <1>3, GreatestOnly
  <2> QED
    BY <2>1 DEF EffectiveNl
<1>5. m \in 1 .. MaxLimbs /\ (m = 1 \/ a[m - 1] # 0)
  BY <1>3
<1>6. \A j \in m .. MaxLimbs - 1 : a[j] = 0
  <2>1. SUFFICES ASSUME NEW j \in m .. MaxLimbs - 1, a[j] # 0 PROVE FALSE
    OBVIOUS
  <2>2. PICK k \in 1 .. MaxLimbs : k = j + 1 /\ k - 1 = j
    BY <1>1, <1>5
  <2>3. k \in S
    BY <2>1, <2>2
  <2>4. m >= k
    BY <1>3, <2>3
  <2> QED
    BY <1>1, <1>5, <2>2, <2>4
<1> HIDE DEF S
<1>7. HasLimbs(a, MaxLimbs) /\ m \in 0 .. MaxLimbs
  BY <1>1, <1>5 DEF Limbs, HasLimbs
<1>8. Value(a, MaxLimbs) = Value(a, m)
  BY <1>1, <1>6, <1>7, ValueTop
<1> QED
  BY <1>4, <1>5, <1>8

\* The Fermat test of an odd number on its limbs says whether 2^(n-1) is 1 modulo n, the
\* Euler test whether 2^((n-1)/2) is 1 or n-1: for one limb and for more, in windows of
\* any width, with either multiplication (fermat_test_cpu_nlimbs, euler_test_cpu_nlimbs).
THEOREM LimbTestsExact ==
  ASSUME NEW n \in Nat, n > 1, n % 2 = 1, Fits(n), NEW width \in 1 .. FERMAT_WIN_MAX, NEW adx
  PROVE  /\ FermatTest(Export(n), EffectiveNl(Export(n)), width, adx) <=> FermatSays(n)
         /\ EulerTest(Export(n), EffectiveNl(Export(n)), width, adx) <=> EulerSays(n)
<1>1. PICK a : a = Export(n)
  OBVIOUS
<1>2. a \in Limbs(MaxLimbs) /\ Value(a, MaxLimbs) = n
  BY <1>1, ExportType, FitsWeight
<1>3. MaxLimbs \in Nat /\ MaxLimbs >= 1
  BY LimbAssumption
<1>4. PICK nl \in 1 .. MaxLimbs : /\ nl = EffectiveNl(a) /\ Value(a, nl) = n
                                  /\ nl = 1 \/ a[nl - 1] # 0
  BY <1>2, EffectiveExact
<1>5. nl \in Nat /\ nl > 0 /\ nl <= MaxLimbs
  BY <1>3, <1>4
<1>6. HasLimbs(a, nl)
  BY <1>2, <1>3, <1>5 DEF Limbs, HasLimbs
<1>7. PICK x \in Nat : x = a[0] /\ x < Radix
  <2>1. 0 \in 0 .. MaxLimbs - 1
    BY <1>3
  <2> QED
    BY <1>2, <1>3, <2>1, LimbsType, RadixType
<1>8. PICK z \in Nat : n = x + Radix * z
  BY <1>4, <1>5, <1>6, <1>7, FirstLimb
<1>9. x % 2 = 1
  <2>1. PICK s \in Nat : Radix = 2 * s
    BY HalfRadix
  <2>2. PICK c \in Nat : c = s * z
    OBVIOUS
  <2>3. (2 * s) * z = 2 * c
    BY <2>2
  <2>4. n = x + 2 * c
    BY <1>8, <2>1, <2>3
  <2> QED
    BY <2>4
<1>10. CASE nl = 1
  <2>1. Value(a, 1) = a[0]
    <3>1. 0 \in 0 .. nl /\ 0 < nl
      BY <1>10
    <3>2. Value(a, 0 + 1) = Value(a, 0) + a[0] * Weight(0)
      BY <1>5, <1>6, <3>1, HasLimbsValue
    <3> QED
      BY <1>7, <3>2, ValueZero, WeightZero
  <2>2. n = x
    BY <1>4, <1>7, <1>10, <2>1
  <2>3. (FermatU64(x) <=> FermatSays(x)) /\ (EulerU64(x) <=> EulerSays(x))
    BY <1>7, <1>9, <2>2, U64Tests
  <2>4. FermatTest(a, nl, width, adx) <=> FermatU64(a[0])
    BY <1>5, <1>10 DEF FermatTest
  <2>5. EulerTest(a, nl, width, adx) <=> EulerU64(a[0])
    BY <1>5, <1>10 DEF EulerTest
  <2> QED
    BY <1>1, <1>4, <1>7, <2>2, <2>3, <2>4, <2>5
<1>11. CASE nl > 1
  <2>1. a[nl - 1] # 0 /\ a[0] % 2 = 1 /\ Value(a, nl) > 1
    BY <1>4, <1>7, <1>9, <1>11
  <2>2. /\ FermatTest(a, nl, width, adx) <=> FermatSays(Value(a, nl))
        /\ EulerTest(a, nl, width, adx) <=> EulerSays(Value(a, nl))
    BY <1>5, <1>6, <1>11, <2>1, WideTests
  <2> QED
    BY <1>1, <1>4, <2>2
<1> QED
  BY <1>5, <1>10, <1>11
=============================================================================
