------------------------- MODULE WindowSearchProofs -------------------------
(***************************************************************************)
(* Proofs about OddSieve and WindowSearch, for words, vectors, windows and *)
(* halos of any size and any set of odd small primes: the sieve leaves     *)
(* exactly the odd numbers without a small factor, however it marks and    *)
(* extracts; the CPU's test on limbs decides what passes; the gaps that    *)
(* are queued are real, and each is queued once.                           *)
(***************************************************************************)
EXTENDS WindowSearch, LimbEulerProofs

-----------------------------------------------------------------------------
(* Numbers                                                                  *)

\* p divides a.
Divides(p, a) == \E q \in Int : a = p * q

\* Division with remainder.
LEMMA Division ==
  ASSUME NEW a \in Int, NEW p \in Nat, p > 0
  PROVE  /\ a \div p \in Int /\ a % p \in 0 .. p - 1
         /\ a = p * (a \div p) + (a % p)
OBVIOUS

\* A remainder of zero is divisibility.
LEMMA NoRest ==
  ASSUME NEW a \in Int, NEW p \in Nat, p > 0
  PROVE  a % p = 0 <=> Divides(p, a)
<1>1. ASSUME a % p = 0 PROVE Divides(p, a)
  BY <1>1, Division DEF Divides
<1>2. ASSUME NEW q \in Int, a = p * q PROVE a % p = 0
  <2>1. PICK d \in Int : d = a \div p
    BY Division
  <2>2. PICK r \in 0 .. p - 1 : r = a % p
    BY Division
  <2>3. r = p * (q - d)
    <3>1. a = p * d + r
      BY <2>1, <2>2, Division
    <3> QED
      BY <3>1, <1>2, <2>1, <2>2
  <2>4. PICK e \in Int : e = q - d
    OBVIOUS
  <2>5. r = p * e
    BY <2>3, <2>4
  <2>6. e >= 1 => p * e >= p
    OBVIOUS
  <2>7. e <= -1 => p * e <= -p
    OBVIOUS
  <2> QED
    BY <2>2, <2>5, <2>6, <2>7
<1> QED
  BY <1>1, <1>2 DEF Divides

LEMMA DividesSum ==
  ASSUME NEW p \in Int, NEW a \in Int, NEW b \in Int, Divides(p, a), Divides(p, b)
  PROVE  Divides(p, a + b) /\ Divides(p, a - b)
<1>1. PICK q \in Int : a = p * q
  BY DEF Divides
<1>2. PICK r \in Int : b = p * r
  BY DEF Divides
<1>3. a + b = p * (q + r) /\ q + r \in Int /\ a - b = p * (q - r) /\ q - r \in Int
  BY <1>1, <1>2
<1> QED
  BY <1>3 DEF Divides

LEMMA DividesProduct ==
  ASSUME NEW p \in Int, NEW a \in Int, NEW c \in Int, Divides(p, a)
  PROVE  Divides(p, c * a)
<1>1. PICK q \in Int : a = p * q
  BY DEF Divides
<1>2. c * a = p * (c * q) /\ c * q \in Int
  BY <1>1
<1> QED
  BY <1>2 DEF Divides

LEMMA DividesTwice ==
  ASSUME NEW p \in Int, NEW a \in Int, Divides(p, a)
  PROVE  Divides(p, 2 * a)
<1>1. Divides(p, a + a) /\ a + a = 2 * a
  BY DividesSum
<1> QED
  BY <1>1

\* An odd number that divides twice a number divides it.
LEMMA DividesHalf ==
  ASSUME NEW p \in Nat, p % 2 = 1, NEW a \in Int, Divides(p, 2 * a)
  PROVE  Divides(p, a)
<1>1. PICK q \in Int : 2 * a = p * q
  BY DEF Divides
<1>2. PICK h \in Int : p = 2 * h + 1
  BY Division
<1>3. q = 2 * (a - h * q)
  BY <1>1, <1>2
<1>4. PICK m \in Int : m = a - h * q
  BY <1>2
<1>5. q = 2 * m
  BY <1>3, <1>4
<1>6. a = p * m
  <2>1. 2 * a = 2 * (p * m)
    BY <1>1, <1>5
  <2>2. p * m \in Int
    OBVIOUS
  <2> QED
    BY <2>1, <2>2
<1> QED
  BY <1>6 DEF Divides

\* Numbers with the same remainder.
LEMMA SameRest ==
  ASSUME NEW a \in Int, NEW b \in Int, NEW p \in Nat, p > 0
  PROVE  a % p = b % p <=> Divides(p, a - b)
<1>1. PICK d \in Int, r \in 0 .. p - 1 : d = a \div p /\ r = a % p
  BY Division
<1>2. PICK e \in Int, s \in 0 .. p - 1 : e = b \div p /\ s = b % p
  BY Division
<1>3. a = p * d + r /\ b = p * e + s
  BY <1>1, <1>2, Division
<1>4. ASSUME r = s PROVE Divides(p, a - b)
  <2>1. a - b = p * (d - e) /\ d - e \in Int
    BY <1>3, <1>4
  <2> QED
    BY <2>1 DEF Divides
<1>5. ASSUME NEW q \in Int, a - b = p * q PROVE r = s
  <2>1. PICK f \in Int : f = q - d + e
    OBVIOUS
  <2>2. r - s = p * f
    <3>1. p * f = p * q - p * d + p * e
      BY <2>1
    <3> QED
      BY <1>3, <1>5, <3>1
  <2>3. f >= 1 => p * f >= p
    OBVIOUS
  <2>4. f <= -1 => p * f <= -p
    OBVIOUS
  <2>5. r - s < p /\ r - s > -p
    OBVIOUS
  <2>6. f = 0
    BY <2>2, <2>3, <2>4, <2>5
  <2> QED
    BY <2>2, <2>6
<1> QED
  BY <1>1, <1>2, <1>4, <1>5 DEF Divides

\* The rest of a number that is small is itself.
LEMMA SmallRest ==
  ASSUME NEW p \in Nat, NEW a \in 0 .. p - 1
  PROVE  a % p = a
<1>1. PICK d \in Int, r \in 0 .. p - 1 : d = a \div p /\ r = a % p
  BY Division
<1>2. a = p * d + r
  BY <1>1, Division
<1>3. d >= 1 => p * d >= p
  OBVIOUS
<1>4. d <= -1 => p * d <= -p
  OBVIOUS
<1>5. d = 0
  BY <1>2, <1>3, <1>4
<1> QED
  BY <1>1, <1>2, <1>5

\* A number is its remainder, but for a multiple of p.
LEMMA RestDivided ==
  ASSUME NEW a \in Int, NEW p \in Nat, p > 0
  PROVE  \E r \in 0 .. p - 1 : r = a % p /\ Divides(p, a - r) /\ Divides(p, r - a)
<1>1. PICK d \in Int, r \in 0 .. p - 1 : d = a \div p /\ r = a % p /\ a = p * d + r
  BY Division
<1>2. a - r = p * d /\ r - a = p * (-d) /\ -d \in Int
  BY <1>1
<1> QED
  BY <1>1, <1>2 DEF Divides

-----------------------------------------------------------------------------
(* The sieve                                                                *)

\* The odd numbers from a on that p divides are at pos and at every p-th slot from it.
EveryFrom(pos, p, a) ==
  /\ pos \in 0 .. p - 1
  /\ \A k \in Int : (k - pos) % p = 0 <=> (a + 2 * k) % p = 0

\* The odd numbers of a progression that p divides: every p-th slot from the first.
LEMMA FirstSlotRight ==
  ASSUME NEW p \in Nat, p >= 3, p % 2 = 1, NEW base \in Nat, NEW offset \in Nat,
         NEW first \in {0, 1}
  PROVE  EveryFrom(FirstSlot(base % p, offset, p, first), p, base + offset + first)
<1>1. PICK b \in 0 .. p - 1, o \in 0 .. p - 1 : b = base % p /\ o = offset % p
  BY Division
<1>0. b % p = b /\ o % p = o /\ first % p = first
  <2>1. first \in 0 .. p - 1
    OBVIOUS
  <2> QED
    BY <2>1, SmallRest
<1>12. Divides(p, base - b) /\ Divides(p, offset - o)
  <2>1. base % p = b % p /\ offset % p = o % p /\ base \in Int /\ offset \in Int /\ p > 0
    BY <1>0, <1>1
  <2>2. b \in Int /\ o \in Int
    OBVIOUS
  <2> QED
    BY <2>1, <2>2, SameRest
<1>2. PICK u \in 0 .. p - 1 : u = Below(b + o, p) /\ (u = b + o \/ u = b + o - p)
  <2>1. CASE b + o >= p
    BY <2>1 DEF Below
  <2>2. CASE ~(b + o >= p)
    BY <2>2 DEF Below
  <2> QED
    BY <2>1, <2>2
<1>3. PICK r \in 0 .. p - 1 : r = Below(u + first, p) /\ (r = u + first \/ r = u + first - p)
  BY DEF Below
<1>4. PICK t \in 0 .. p - 1 : t = (IF r = 0 THEN 0 ELSE p - r) /\ (t + r = 0 \/ t + r = p)
  OBVIOUS
<1>5. PICK h \in Nat : h = (p + 1) \div 2 /\ 2 * h = p + 1
  BY Division
<1>6. PICK pos \in 0 .. p - 1 : pos = (t * h) % p /\ pos = FirstSlot(base % p, offset, p, first)
  <2>1. (t * h) % p \in 0 .. p - 1
    BY Division
  <2>2. FirstSlot(base % p, offset, p, first) = (t * h) % p
    BY <1>0, <1>1, <1>2, <1>3, <1>4, <1>5 DEF FirstSlot
  <2> QED
    BY <2>1, <2>2
<1>7. Divides(p, 0) /\ Divides(p, p)
  <2>1. 0 = p * 0 /\ p = p * 1
    OBVIOUS
  <2> QED
    BY <2>1 DEF Divides
<1>8. Divides(p, base + offset + first - r)
  <2>1. Divides(p, (base - b) + (offset - o))
    BY <1>12, DividesSum
  <2>2. Divides(p, b + o - u)
    BY <1>2, <1>7
  <2>3. Divides(p, u + first - r)
    BY <1>3, <1>7
  <2>4. Divides(p, (base - b) + (offset - o) + (b + o - u))
    BY <2>1, <2>2, DividesSum
  <2>5. Divides(p, (base - b) + (offset - o) + (b + o - u) + (u + first - r))
    BY <2>3, <2>4, DividesSum
  <2>6. (base - b) + (offset - o) + (b + o - u) + (u + first - r) = base + offset + first - r
    OBVIOUS
  <2> QED
    BY <2>5, <2>6
<1>9. Divides(p, 2 * pos - t)
  <2>0. PICK m \in Int : m = t * h
    OBVIOUS
  <2>1. Divides(p, pos - m)
    <3>1. pos % p = m % p
      BY <1>6, <2>0, SmallRest
    <3> QED
      BY <3>1, SameRest
  <2>2. Divides(p, 2 * (pos - m))
    <3>1. pos - m \in Int
      OBVIOUS
    <3> QED
      BY <2>1, <3>1, DividesTwice
  <2>3. PICK c \in Int : c = t * p /\ Divides(p, c)
    BY <1>7, DividesProduct
  <2>4. 2 * (pos - m) + c = 2 * pos - t
    <3>1. 2 * m = t * (2 * h)
      BY <2>0
    <3>2. t * (2 * h) = c + t
      BY <1>5, <2>3
    <3> QED
      BY <3>1, <3>2
  <2>5. Divides(p, 2 * (pos - m) + c)
    <3>1. 2 * (pos - m) \in Int
      OBVIOUS
    <3> QED
      BY <2>2, <2>3, <3>1, DividesSum
  <2> QED
    BY <2>4, <2>5
<1>10. Divides(p, base + offset + first + 2 * pos)
  <2>1. Divides(p, (base + offset + first - r) + (2 * pos - t))
    BY <1>8, <1>9, DividesSum
  <2>2. Divides(p, t + r)
    BY <1>4, <1>7
  <2>3. Divides(p, (base + offset + first - r) + (2 * pos - t) + (t + r))
    BY <2>1, <2>2, DividesSum
  <2>4. (base + offset + first - r) + (2 * pos - t) + (t + r) = base + offset + first + 2 * pos
    OBVIOUS
  <2> QED
    BY <2>3, <2>4
<1>11. ASSUME NEW k \in Int
       PROVE  (k - pos) % p = 0 <=> (base + offset + first + 2 * k) % p = 0
  <2>1. k - pos \in Int /\ base + offset + first + 2 * k \in Int
    OBVIOUS
  <2>2. ASSUME Divides(p, k - pos) PROVE Divides(p, base + offset + first + 2 * k)
    <3>1. Divides(p, 2 * (k - pos))
      <4>1. PICK e \in Int : e = k - pos
        OBVIOUS
      <4> QED
        BY <2>2, <4>1, DividesTwice
    <3>2. Divides(p, (base + offset + first + 2 * pos) + 2 * (k - pos))
      BY <1>10, <3>1, DividesSum
    <3>3. (base + offset + first + 2 * pos) + 2 * (k - pos) = base + offset + first + 2 * k
      OBVIOUS
    <3> QED
      BY <3>2, <3>3
  <2>3. ASSUME Divides(p, base + offset + first + 2 * k) PROVE Divides(p, k - pos)
    <3>1. Divides(p, (base + offset + first + 2 * k) - (base + offset + first + 2 * pos))
      BY <1>10, <2>3, DividesSum
    <3>2. (base + offset + first + 2 * k) - (base + offset + first + 2 * pos) = 2 * (k - pos)
      OBVIOUS
    <3> QED
      BY <2>1, <3>1, <3>2, DividesHalf
  <2> QED
    BY <2>1, <2>2, <2>3, NoRest
<1> QED
  BY <1>6, <1>11 DEF EveryFrom

\* Numbers that differ by a multiple of p are divided alike.
LEMMA SameDivided ==
  ASSUME NEW p \in Nat, p > 0, NEW a \in Int, NEW b \in Int, Divides(p, a - b)
  PROVE  a % p = 0 <=> b % p = 0
BY SameRest

\* The places of one remainder, and the slots of the odd numbers after c that p
\* divides.
Every(p, pos, n)  == {k \in 0 .. n - 1 : (k - pos) % p = 0}
Divided(p, c, n)  == {k \in 0 .. n - 1 : (c + 2 * k) % p = 0}

\* From a, which is at most p behind e, the progression is all of it from e on.
LEMMA ProgressionFrom ==
  ASSUME NEW p \in Nat, p > 0, NEW pos \in Int, NEW a \in Int, NEW e \in Int, NEW n \in Int,
         Divides(p, a - pos), a - p < e, e <= a
  PROVE  Progression(a, p, n) = {k \in e .. n - 1 : (k - pos) % p = 0}
<1>1. ASSUME NEW k \in Int PROVE (k - a) % p = 0 <=> (k - pos) % p = 0
  <2>1. (k - pos) - (k - a) = a - pos /\ k - pos \in Int /\ k - a \in Int
    OBVIOUS
  <2> QED
    BY <2>1, SameDivided
<1>2. ASSUME NEW k \in Int, e <= k, (k - a) % p = 0 PROVE k >= a
  <2>1. PICK q \in Int : k - a = p * q
    <3>1. k - a \in Int
      OBVIOUS
    <3> QED
      BY <1>2, <3>1, NoRest DEF Divides
  <2>2. q <= -1 => p * q <= -p
    OBVIOUS
  <2>3. q >= 0
    BY <1>2, <2>1, <2>2
  <2>4. q >= 0 => p * q >= 0
    OBVIOUS
  <2> QED
    BY <2>1, <2>3, <2>4
<1>3. ASSUME NEW k \in Progression(a, p, n) PROVE k \in {x \in e .. n - 1 : (x - pos) % p = 0}
  <2>1. k \in Int /\ e <= k /\ k <= n - 1 /\ (k - a) % p = 0
    BY DEF Progression
  <2> QED
    BY <1>1, <2>1
<1>4. ASSUME NEW k \in e .. n - 1, (k - pos) % p = 0 PROVE k \in Progression(a, p, n)
  <2>1. k \in Int /\ (k - a) % p = 0 /\ k >= a
    BY <1>1, <1>2, <1>4
  <2> QED
    BY <2>1 DEF Progression
<1> QED
  BY <1>3, <1>4

\* A mark of a block's masks is one of the progression, and the other way round.
LEMMA VectorMarksRight ==
  ASSUME NEW p \in Nat, p > 0, NEW pos \in 0 .. p - 1, NEW blocks \in Nat,
         Block \in Nat, Block > 0
  PROVE  VectorMarks(p, pos, blocks) = {k \in 0 .. blocks * Block - 1 : (k - pos) % p = 0}
<1>1. PICK B \in Nat : B = Block /\ B > 0
  OBVIOUS
<1>2. ASSUME NEW b \in Int, NEW x \in Int
      PROVE  (PhaseOf(p, pos, b) + x) % p = 0 <=> (b * B + x - pos) % p = 0
  <2>1. PICK c \in 0 .. p - 1 : c = B % p /\ Divides(p, B - c)
    BY RestDivided
  <2>2. PICK z \in 0 .. p - 1 : z = (p - (pos % p)) % p /\ Divides(p, z + pos)
    <3>1. PICK y \in Int : y = p - pos
      OBVIOUS
    <3>2. PICK z \in 0 .. p - 1 : z = y % p /\ Divides(p, z - y)
      BY RestDivided
    <3>3. Divides(p, p)
      <4>1. p = p * 1
        OBVIOUS
      <4> QED
        BY <4>1 DEF Divides
    <3>4. Divides(p, (z - y) + p) /\ (z - y) + p = z + pos
      <4>1. z - y \in Int /\ p \in Int
        OBVIOUS
      <4>2. Divides(p, (z - y) + p)
        BY <3>2, <3>3, <4>1, DividesSum
      <4> QED
        BY <3>1, <4>2
    <3>5. p - (pos % p) = y
      BY <3>1, SmallRest
    <3> QED
      BY <3>2, <3>4, <3>5
  <2>3. PICK m \in Int : m = b * c
    OBVIOUS
  <2>4. PICK ph \in 0 .. p - 1 : ph = PhaseOf(p, pos, b) /\ Divides(p, ph - (z + m))
    <3>1. PICK y \in Int : y = z + m
      OBVIOUS
    <3>2. PICK ph \in 0 .. p - 1 : ph = y % p /\ Divides(p, ph - y)
      BY RestDivided
    <3>3. PhaseOf(p, pos, b) = y % p
      BY <1>1, <2>1, <2>2, <2>3, <3>1 DEF PhaseOf
    <3> QED
      BY <3>1, <3>2, <3>3
  <2>5. PICK d \in Int : d = b * (B - c) /\ Divides(p, d)
    <3>1. PICK e \in Int : e = B - c
      OBVIOUS
    <3>2. Divides(p, e) /\ p \in Int
      BY <2>1, <3>1
    <3>3. Divides(p, b * e)
      BY <3>2, DividesProduct
    <3>4. b * e \in Int
      OBVIOUS
    <3> QED
      BY <3>1, <3>3, <3>4
  <2>6. d = b * B - m
    BY <2>3, <2>5
  <2>7. PICK g \in Int : g = b * B
    OBVIOUS
  <2>8. Divides(p, (ph - (z + m)) + (z + pos))
    BY <2>2, <2>4, DividesSum
  <2>9. Divides(p, ((ph - (z + m)) + (z + pos)) - d)
    BY <2>5, <2>8, DividesSum
  <2>10. ((ph - (z + m)) + (z + pos)) - d = (ph + x) - (g + x - pos)
    BY <2>6, <2>7
  <2>11. ph + x \in Int /\ g + x - pos \in Int
    OBVIOUS
  <2>12. (ph + x) % p = 0 <=> (g + x - pos) % p = 0
    BY <2>9, <2>10, <2>11, SameDivided
  <2> QED
    BY <2>4, <2>7, <2>12
<1>3. ASSUME NEW k \in VectorMarks(p, pos, blocks)
      PROVE  k \in {y \in 0 .. blocks * B - 1 : (y - pos) % p = 0}
  <2>1. PICK b \in 0 .. blocks - 1, x \in 0 .. B - 1 :
          k = b * B + x /\ (PhaseOf(p, pos, b) + x) % p = 0
    BY <1>1 DEF VectorMarks, MaskBits
  <2>2. k \in Int /\ 0 <= k /\ k <= blocks * B - 1
    <3>1. PICK r \in Nat : r = blocks - 1 - b
      OBVIOUS
    <3>2. blocks * B = b * B + B + r * B
      BY <3>1
    <3>3. r * B >= 0 /\ r * B \in Int /\ b * B \in Int /\ b * B >= 0
      BY <3>1
    <3> QED
      BY <2>1, <3>2, <3>3
  <2>3. (k - pos) % p = 0
    BY <1>2, <2>1
  <2>4. k \in 0 .. blocks * B - 1
    <3>1. blocks * B \in Int
      OBVIOUS
    <3> QED
      BY <2>2, <3>1
  <2> QED
    BY <2>3, <2>4
<1>4. ASSUME NEW k \in 0 .. blocks * B - 1, (k - pos) % p = 0
      PROVE  k \in VectorMarks(p, pos, blocks)
  <2>1. PICK b \in Int, x \in 0 .. B - 1 : k = b * B + x
    <3>1. k = B * (k \div B) + (k % B) /\ k \div B \in Int /\ k % B \in 0 .. B - 1
      BY <1>1, Division
    <3>2. B * (k \div B) = (k \div B) * B
      BY <3>1
    <3> QED
      BY <3>1, <3>2
  <2>2. b \in 0 .. blocks - 1
    <3>1. b <= -1 => b * B <= -B
      BY <1>1
    <3>2. b >= blocks => b * B >= blocks * B
      BY <1>1
    <3>3. b * B \in Int /\ blocks * B \in Int
      OBVIOUS
    <3> QED
      BY <1>4, <2>1, <3>1, <3>2, <3>3
  <2>3. (PhaseOf(p, pos, b) + x) % p = 0
    BY <1>2, <1>4, <2>1
  <2>4. x \in MaskBits(p, PhaseOf(p, pos, b))
    BY <1>1, <2>3 DEF MaskBits
  <2> QED
    BY <1>1, <2>1, <2>2, <2>4 DEF VectorMarks
<1> QED
  BY <1>1, <1>3, <1>4

\* After the blocks the marking goes on with the first number of the progression.
LEMMA AfterVectorRight ==
  ASSUME NEW p \in Nat, p > 0, NEW pos \in 0 .. p - 1, NEW end \in Nat
  PROVE  /\ AfterVector(p, pos, end) \in Int /\ Divides(p, AfterVector(p, pos, end) - pos)
         /\ AfterVector(p, pos, end) - p < end /\ end <= AfterVector(p, pos, end)
<1>1. CASE pos < end
  <2>1. PICK u \in Int : u = end - pos + p - 1
    OBVIOUS
  <2>2. PICK m \in Int, r \in 0 .. p - 1 : m = u \div p /\ u = p * m + r
    BY Division
  <2>3. PICK a \in Int : a = m * p
    OBVIOUS
  <2>4. AfterVector(p, pos, end) = pos + a
    BY <1>1, <2>1, <2>2, <2>3 DEF AfterVector
  <2>5. a = u - r
    BY <2>2, <2>3
  <2>6. (pos + a) - pos = p * m
    BY <2>3
  <2> QED
    BY <2>1, <2>2, <2>4, <2>5, <2>6 DEF Divides
<1>2. CASE ~(pos < end)
  <2>1. AfterVector(p, pos, end) = pos
    BY <1>2 DEF AfterVector
  <2>2. pos - pos = p * 0
    OBVIOUS
  <2> QED
    BY <1>2, <2>1, <2>2 DEF Divides
<1> QED
  BY <1>1, <1>2

\* The marks of one prime, with vectors or without.
LEMMA MarksRight ==
  ASSUME NEW p \in Nat, p > 0, NEW pos \in 0 .. p - 1, NEW n \in Nat, NEW avx
  PROVE  Marks(p, pos, n, avx) = Every(p, pos, n)
<1>1. PICK B \in Nat : B = Block /\ B > 0
  BY SieveAssumption DEF Block
<1>2. PICK blocks \in Nat :
        blocks * B <= n /\ blocks = (IF avx /\ p <= VectorMax THEN n \div Block ELSE 0)
  <2>1. PICK d \in Int, r \in 0 .. B - 1 : d = n \div B /\ n = B * d + r
    BY <1>1, Division
  <2>2. d <= -1 => B * d <= -B
    BY <1>1
  <2>3. d >= 0
    BY <2>1, <2>2
  <2>4. d * B = B * d /\ 0 * B = 0
    OBVIOUS
  <2>5. d * B <= n
    BY <2>1, <2>4
  <2> QED
    BY <1>1, <2>1, <2>3, <2>4, <2>5
<1>3. PICK end \in Nat : end = blocks * B /\ end = blocks * Block /\ end <= n
  BY <1>1, <1>2
<1>4. VectorMarks(p, pos, blocks) = {k \in 0 .. end - 1 : (k - pos) % p = 0}
  BY <1>1, <1>3, VectorMarksRight
<1>5. PICK a \in Int : /\ a = IF blocks > 0 THEN AfterVector(p, pos, end) ELSE pos
                       /\ Divides(p, a - pos) /\ a - p < end /\ end <= a
  <2>1. CASE blocks > 0
    BY <2>1, AfterVectorRight
  <2>2. CASE ~(blocks > 0)
    <3>1. end = 0 /\ pos - pos = p * 0
      BY <1>3, <2>2
    <3> QED
      BY <2>2, <3>1 DEF Divides
  <2> QED
    BY <2>1, <2>2
<1>6. Progression(a, p, n) = {k \in end .. n - 1 : (k - pos) % p = 0}
  BY <1>5, ProgressionFrom
<1>7. Marks(p, pos, n, avx) = VectorMarks(p, pos, blocks) \cup Progression(a, p, n)
  BY <1>2, <1>3, <1>5 DEF Marks
<1> QED
  BY <1>3, <1>4, <1>6, <1>7 DEF Every

\* Without vectors.
LEMMA ProgressionRight ==
  ASSUME NEW p \in Nat, p > 0, NEW pos \in 0 .. p - 1, NEW n \in Nat
  PROVE  Progression(pos, p, n) = Every(p, pos, n)
<1>1. pos - pos = p * 0 /\ pos \in Int /\ pos - p < 0 /\ 0 <= pos
  OBVIOUS
<1>2. Divides(p, pos - pos)
  BY <1>1 DEF Divides
<1>3. Progression(pos, p, n) = {k \in 0 .. n - 1 : (k - pos) % p = 0}
  BY <1>1, <1>2, ProgressionFrom
<1> QED
  BY <1>3 DEF Every

\* What the windows' bitmaps say: the slots of numbers with a small factor.
Factored(b, n, first) ==
  {k \in 0 .. n - 1 : \E p \in SmallPrimes : (b + first + 2 * k) % p = 0}

LEMMA SmallPrimeIs ==
  ASSUME NEW p \in SmallPrimes
  PROVE  p \in Nat /\ p >= 3 /\ p > 0 /\ p % 2 = 1
BY SieveAssumption

\* The slots of the numbers that p divides, whichever way they are marked.
LEMMA SlotsOf ==
  ASSUME NEW p \in SmallPrimes, NEW base \in Nat, NEW offset \in Nat, NEW n \in Nat,
         NEW first \in {0, 1}, NEW avx
  PROVE  /\ Marks(p, FirstSlot(base % p, offset, p, first), n, avx) =
              Divided(p, base + offset + first, n)
         /\ Progression(FirstSlot(base % p, offset, p, first), p, n) =
              Divided(p, base + offset + first, n)
<1>1. p \in Nat /\ p >= 3 /\ p > 0 /\ p % 2 = 1
  BY SmallPrimeIs
<1>2. /\ FirstSlot(base % p, offset, p, first) \in 0 .. p - 1
      /\ \A k \in Int : (k - FirstSlot(base % p, offset, p, first)) % p = 0
                           <=> (base + offset + first + 2 * k) % p = 0
  <2>1. EveryFrom(FirstSlot(base % p, offset, p, first), p, base + offset + first)
    BY <1>1, FirstSlotRight
  <2> QED
    BY <2>1 DEF EveryFrom
<1>3. PICK pos \in 0 .. p - 1 : pos = FirstSlot(base % p, offset, p, first)
  BY <1>2
<1>4. Marks(p, pos, n, avx) = Every(p, pos, n) /\ Progression(pos, p, n) = Every(p, pos, n)
  BY <1>1, MarksRight, ProgressionRight
<1>5. Every(p, pos, n) = Divided(p, base + offset + first, n)
  BY <1>2, <1>3 DEF Every, Divided
<1> QED
  BY <1>3, <1>4, <1>5

LEMMA CachedRight ==
  ASSUME NEW base \in Nat, NEW offset \in Nat, NEW n \in Nat, NEW first \in {0, 1}, NEW avx
  PROVE  CachedBitmap(base, offset, n, first, avx) = Factored(base + offset, n, first)
<1>1. ASSUME NEW p \in SmallPrimes
      PROVE  Marks(p, FirstSlot(base % p, offset, p, first), n, avx) =
               Divided(p, base + offset + first, n)
  BY SlotsOf
<1> QED
  BY <1>1 DEF CachedBitmap, Factored, Divided

LEMMA FreshRight ==
  ASSUME NEW base \in Nat, NEW n \in Nat, NEW avx
  PROVE  FreshBitmap(base, n, avx) = Factored(base, n, 1)
<1>1. ASSUME NEW p \in SmallPrimes
      PROVE  Marks(p, FirstSlot(base % p, 0, p, 1), n, avx) = Divided(p, base + 0 + 1, n)
  BY SlotsOf
<1>2. base + 0 = base
  OBVIOUS
<1> QED
  BY <1>1, <1>2 DEF FreshBitmap, Factored, Divided

LEMMA HybridRight ==
  ASSUME NEW base \in Nat, NEW offset \in Nat, NEW n \in Nat, NEW first \in {0, 1},
         NEW split \in Nat
  PROVE  HybridBitmap(base, offset, n, first, split) = Factored(base + offset, n, first)
<1>1. ASSUME NEW p \in SmallPrimes
      PROVE  Progression(FirstSlot(base % p, offset, p, first), p, n) =
               Divided(p, base + offset + first, n)
  BY SlotsOf
<1>2. ASSUME NEW p \in SmallPrimes PROVE p >= split \/ p < split
  <2>1. p \in Nat
    BY SmallPrimeIs
  <2> QED
    BY <2>1
<1> QED
  BY <1>1, <1>2 DEF HybridBitmap, HighBitmap, Factored, Divided

-----------------------------------------------------------------------------
(* The extraction                                                           *)

\* How many words there are, and how much of the last one is used.
LEMMA WordsFacts ==
  ASSUME NEW n \in Nat
  PROVE  /\ WordBits \in Nat /\ WordBits > 0 /\ WordsFor(n) \in Nat
         /\ (WordsFor(n) - 1) * WordBits < n /\ n <= WordsFor(n) * WordBits
         /\ n % WordBits # 0 => n = (WordsFor(n) - 1) * WordBits + (n % WordBits)
         /\ n % WordBits = 0 => n = WordsFor(n) * WordBits
<1>1. PICK B \in Nat : B = WordBits /\ B > 0
  BY SieveAssumption
<1>2. PICK m \in Int, r \in 0 .. B - 1 : m = (n + B - 1) \div B /\ n + B - 1 = B * m + r
  <2>1. n + B - 1 \in Int
    OBVIOUS
  <2> QED
    BY <1>1, <2>1, Division
<1>3. PICK d \in Int, s \in 0 .. B - 1 : s = n % B /\ n = B * d + s
  <2>1. n = B * (n \div B) + (n % B) /\ n \div B \in Int /\ n % B \in 0 .. B - 1
    BY <1>1, Division
  <2> QED
    BY <2>1
<1>4. m = WordsFor(n)
  BY <1>1, <1>2 DEF WordsFor
<1>5. B * (m - 1) = n - (r + 1) /\ (m - 1) * B = n - (r + 1) /\ m * B = n - (r + 1) + B
  BY <1>2
<1>6. m >= 0
  <2>1. m <= -1 => B * m <= -B
    BY <1>1
  <2> QED
    BY <1>2, <2>1
<1>7. PICK e \in Int : e = d - (m - 1)
  OBVIOUS
<1>8. B * e = r + 1 - s
  <2>1. B * e = B * d - B * (m - 1)
    BY <1>7
  <2> QED
    BY <1>3, <1>5, <2>1
<1>9. /\ e >= 1 => B * e >= B
      /\ e >= 2 => B * e >= 2 * B
      /\ e <= -1 => B * e <= -B
  BY <1>1
<1>10. CASE s # 0
  <2>1. e = 0
    BY <1>8, <1>9, <1>10
  <2>2. r + 1 = s
    BY <1>8, <2>1
  <2> QED
    BY <1>1, <1>3, <1>4, <1>5, <1>6, <1>10, <2>2
<1>11. CASE s = 0
  <2>1. e = 1
    <3>1. e # 0 /\ e >= 0
      BY <1>8, <1>9, <1>11
    <3> QED
      BY <1>8, <1>9, <1>11, <3>1
  <2>2. r + 1 = B
    BY <1>8, <1>11, <2>1
  <2> QED
    BY <1>1, <1>3, <1>4, <1>5, <1>6, <1>11, <2>2
<1> QED
  BY <1>10, <1>11

\* A word gives its slots below n that are not marked, however it is read.
LEMMA WordRight ==
  ASSUME NEW n \in Nat, NEW bitmap, NEW v \in 0 .. WordsFor(n) - 1
  PROVE  Masked(bitmap, v, n) = {k \in Unmarked(bitmap, v) : k < n}
<1>1. PICK B \in Nat, m \in Nat : B = WordBits /\ B > 0 /\ m = WordsFor(n)
  BY WordsFacts
<1>2. /\ (m - 1) * B < n /\ n <= m * B
      /\ n % B # 0 => n = (m - 1) * B + (n % B)
      /\ n % B = 0 => n = m * B
  BY <1>1, WordsFacts
<1>3. v \in Int /\ 0 <= v /\ v <= m - 1
  BY <1>1
<1>4. CASE LastPartial(v, n)
  <2>1. v = m - 1 /\ n % B # 0
    BY <1>1, <1>3, <1>4 DEF LastPartial
  <2>2. v * B + (n % B) = n
    BY <1>2, <2>1
  <2>3. v * WordBits + (n % WordBits) = n
    BY <1>1, <2>2
  <2> QED
    BY <1>4, <2>3 DEF Masked
<1>5. CASE ~LastPartial(v, n)
  <2>1. v * B + B <= n
    <3>1. CASE n % B = 0
      <4>1. v * B <= (m - 1) * B
        <5>1. PICK e \in Nat : e = m - 1 - v
          BY <1>3
        <5>2. (m - 1) * B = v * B + e * B /\ e * B >= 0 /\ e * B \in Int /\ v * B \in Int
          BY <1>3, <5>1
        <5> QED
          BY <5>2
      <4>2. (m - 1) * B + B = m * B /\ v * B \in Int /\ (m - 1) * B \in Int
        BY <1>3
      <4> QED
        BY <1>2, <3>1, <4>1, <4>2
    <3>2. CASE n % B # 0
      <4>1. v # m - 1
        BY <1>1, <1>3, <1>5, <3>2 DEF LastPartial
      <4>2. PICK e \in Nat : e = m - 2 - v
        BY <1>3, <4>1
      <4>3. (m - 1) * B = v * B + B + e * B /\ e * B >= 0 /\ e * B \in Int /\ v * B \in Int
        BY <1>3, <4>2
      <4> QED
        BY <1>2, <4>3
    <3> QED
      BY <3>1, <3>2
  <2>2. \A k \in Unmarked(bitmap, v) : k < n
    <3>1. v * B \in Int
      BY <1>3
    <3> QED
      BY <1>1, <2>1, <3>1 DEF Unmarked
  <2>3. Masked(bitmap, v, n) = Unmarked(bitmap, v)
    BY <1>5 DEF Masked
  <2> QED
    BY <2>2, <2>3
<1> QED
  BY <1>4, <1>5

LEMMA ExtractedRight ==
  ASSUME NEW n \in Nat, NEW bitmap, NEW avx
  PROVE  Extracted(bitmap, n, avx) = (0 .. n - 1) \ bitmap
<1>1. PICK B \in Nat, m \in Nat : B = WordBits /\ B > 0 /\ m = WordsFor(n) /\ n <= m * B
  BY WordsFacts
<1>2. \A v \in 0 .. m - 1 : Masked(bitmap, v, n) = {k \in Unmarked(bitmap, v) : k < n}
  BY <1>1, WordRight
<1>3. Extracted(bitmap, n, avx) = UNION {{k \in Unmarked(bitmap, v) : k < n} : v \in 0 .. m - 1}
  BY <1>1, <1>2 DEF Extracted
<1>4. ASSUME NEW v \in 0 .. m - 1, NEW k \in Unmarked(bitmap, v), k < n
      PROVE  k \in (0 .. n - 1) \ bitmap
  <2>1. v * B \in Int /\ v * B >= 0
    OBVIOUS
  <2>2. k \in v * B .. v * B + B - 1 /\ k \notin bitmap
    BY <1>1 DEF Unmarked
  <2> QED
    BY <1>4, <2>1, <2>2
<1>5. ASSUME NEW k \in (0 .. n - 1) \ bitmap
      PROVE  \E v \in 0 .. m - 1 : k \in Unmarked(bitmap, v)
  <2>1. PICK v \in Int, x \in 0 .. B - 1 : k = B * v + x
    <3>1. k = B * (k \div B) + (k % B) /\ k \div B \in Int /\ k % B \in 0 .. B - 1
      BY <1>1, Division
    <3> QED
      BY <3>1
  <2>2. B * v = v * B /\ v * B \in Int /\ m * B \in Int
    OBVIOUS
  <2>3. v <= -1 => v * B <= -B
    BY <1>1
  <2>4. v >= m => v * B >= m * B
    BY <1>1
  <2>5. v \in 0 .. m - 1
    BY <1>1, <2>1, <2>2, <2>3, <2>4
  <2>6. k \in v * B .. v * B + B - 1
    BY <2>1, <2>2
  <2> QED
    BY <1>1, <2>5, <2>6 DEF Unmarked
<1> QED
  BY <1>3, <1>4, <1>5

\* The odd numbers of a window that have no small factor.
Rough(b, size) ==
  {x \in 0 .. size - 1 : (b + x) % 2 = 1 /\ \A p \in SmallPrimes : (b + x) % p # 0}

LEMMA OffsetsRight ==
  ASSUME NEW b \in Nat, NEW size \in Nat, NEW first \in {0, 1}, (b + first) % 2 = 1
  PROVE  Offsets((0 .. OddCount(size, first) - 1) \ Factored(b, OddCount(size, first), first),
                 first) = Rough(b, size)
<1>1. PICK n \in Nat, r \in {0, 1} : n = OddCount(size, first) /\ size - first + 1 = 2 * n + r
  <2>1. PICK n \in Int, r \in 0 .. 1 :
          n = (size - first + 1) \div 2 /\ size - first + 1 = 2 * n + r
    <3>1. size - first + 1 \in Int
      OBVIOUS
    <3> QED
      BY <3>1, Division
  <2> QED
    BY <2>1 DEF OddCount
<1>2. PICK h \in Int : b + first = 2 * h + 1
  BY Division
<1>3. ASSUME NEW k \in (0 .. n - 1) \ Factored(b, n, first)
      PROVE  first + 2 * k \in Rough(b, size)
  <2>1. first + 2 * k \in 0 .. size - 1
    BY <1>1
  <2>2. b + (first + 2 * k) = 2 * (h + k) + 1
    BY <1>2
  <2>3. (b + (first + 2 * k)) % 2 = 1
    BY <2>2
  <2>4. b + (first + 2 * k) = b + first + 2 * k
    OBVIOUS
  <2>5. \A p \in SmallPrimes : (b + first + 2 * k) % p # 0
    BY DEF Factored
  <2> QED
    BY <2>1, <2>3, <2>4, <2>5 DEF Rough
<1>4. ASSUME NEW x \in Rough(b, size)
      PROVE  \E k \in (0 .. n - 1) \ Factored(b, n, first) : x = first + 2 * k
  <2>1. x \in 0 .. size - 1 /\ (b + x) % 2 = 1 /\ \A p \in SmallPrimes : (b + x) % p # 0
    BY DEF Rough
  <2>2. PICK g \in Int : b + x = 2 * g + 1
    BY <2>1, Division
  <2>3. PICK k \in Int : k = g - h
    OBVIOUS
  <2>4. x = first + 2 * k
    BY <1>2, <2>1, <2>2, <2>3
  <2>5. k \in 0 .. n - 1
    BY <1>1, <2>1, <2>4
  <2>6. b + x = b + first + 2 * k
    BY <2>4
  <2>7. k \notin Factored(b, n, first)
    BY <2>1, <2>6 DEF Factored
  <2> QED
    BY <2>4, <2>5, <2>7
<1> QED
  BY <1>1, <1>3, <1>4 DEF Offsets

-----------------------------------------------------------------------------
(* The survivors of a window                                                *)

\* The window at hand lies in the range.
Located == input \in Inputs /\ w \in Nat /\ w <= Windows /\ halo \in Nat

LEMMA WindowPlace ==
  ASSUME Located
  PROVE  /\ Start \in Nat /\ Start % 2 = 0 /\ ScanSize \in 0 .. RangeLen /\ input.base \in Nat
         /\ input.base % 2 = 0 /\ input.split \in Nat
         /\ input.sieve \in {"cached", "fresh", "hybrid"}
<1>1. /\ input.base \in Nat /\ input.base % 2 = 0 /\ input.split \in Nat
      /\ input.sieve \in {"cached", "fresh", "hybrid"}
  BY InputAssumption DEF Located
<1>2. PICK n \in Nat, k \in Nat : n = OwnedSize /\ n > 0 /\ n % 2 = 0 /\ k = RangeLen /\ k % n = 0
  BY WindowAssumption, InputAssumption
<1>3. PICK m \in Int : m = Windows /\ k = n * m
  <2>1. k = n * (k \div n) + (k % n) /\ k \div n \in Int
    BY <1>2, Division
  <2>2. k = n * (k \div n)
    BY <1>2, <2>1
  <2> QED
    BY <1>2, <2>1, <2>2 DEF Windows
<1>4. PICK x \in Nat : x = w /\ x <= m
  BY <1>3 DEF Located
<1>5. PICK e \in Nat : e = m - x
  BY <1>4
<1>6. k = x * n + n * e /\ x * n \in Nat /\ n * e \in Nat
  <2>1. n * m = n * x + n * e /\ n * x = x * n /\ n * x \in Nat /\ n * e \in Nat
    BY <1>5
  <2> QED
    BY <1>3, <2>1
<1>7. Start = x * n
  BY <1>2, <1>4 DEF Start
<1>8. Start % 2 = 0
  <2>1. PICK h \in Int : n = 2 * h
    BY <1>2, Division
  <2>2. x * n = 2 * (x * h) /\ x * h \in Int
    BY <2>1
  <2>3. PICK y \in Int : y = x * h
    BY <2>2
  <2>4. Start = 2 * y
    BY <1>7, <2>2, <2>3
  <2> QED
    BY <2>4
<1>9. PICK r \in Nat : r = Remaining /\ r = k - x * n
  <2>1. k - x * n \in Nat
    BY <1>6
  <2> QED
    BY <1>2, <1>7, <2>1 DEF Remaining
<1>10. PICK y \in Nat : y = halo
  BY DEF Located
<1>11. ScanSize = IF n + y > r THEN r ELSE n + y
  BY <1>2, <1>9, <1>10 DEF ScanSize
<1>12. PICK z \in Nat : z = x * n /\ r = k - z
  BY <1>6, <1>9
<1>13. ScanSize \in 0 .. k
  BY <1>11, <1>12
<1> QED
  BY <1>1, <1>2, <1>7, <1>8, <1>12, <1>13

\* The class of a number, from the header's base and the offsets.
LEMMA ClassRight ==
  ASSUME NEW base \in Nat, NEW start \in Nat, NEW x \in Nat
  PROVE  ClassOf(BaseMod60(base, start), x) = (base + start + x) % 60
BY DEF ClassOf, BaseMod60

\* The survivors are the numbers without a small factor, whichever way the window
\* is sieved.
LEMMA SurvivorsAre ==
  ASSUME Located
  PROVE  Survivors = Rough(input.base + Start, ScanSize)
<1>1. PICK base \in Nat, start \in Nat, size \in Nat :
        /\ base = input.base /\ start = Start /\ size = ScanSize
        /\ base % 2 = 0 /\ start % 2 = 0
  BY WindowPlace
<1>2. PICK b \in Nat : b = base + start /\ b % 2 = 0 /\ (b + 1) % 2 = 1
  BY <1>1
<1>3. FirstOdd(base) = 1
  BY <1>1 DEF FirstOdd
<1>4. PICK n \in Nat : n = OddCount(size, 1)
  <2>1. OddCount(size, 1) = size \div 2
    BY DEF OddCount
  <2>2. size \div 2 \in Nat
    OBVIOUS
  <2> QED
    BY <2>1, <2>2
<1>5. Bitmap(n, 1) = Factored(b, n, 1)
  <2>1. CachedBitmap(base, start, n, 1, input.avx) = Factored(b, n, 1)
    BY <1>2, CachedRight
  <2>2. FreshBitmap(b, n, input.avx) = Factored(b, n, 1)
    BY FreshRight
  <2>3. PICK p \in Nat : p = input.split /\ input.sieve \in {"cached", "fresh", "hybrid"}
    BY WindowPlace
  <2>4. HybridBitmap(base, start, n, 1, p) = Factored(b, n, 1)
    BY <1>2, HybridRight
  <2> QED
    BY <1>1, <1>2, <2>1, <2>2, <2>3, <2>4 DEF Bitmap
<1>6. Extracted(Bitmap(n, 1), n, input.avx) = (0 .. n - 1) \ Factored(b, n, 1)
  BY <1>5, ExtractedRight
<1>7. Survivors = Offsets((0 .. n - 1) \ Factored(b, n, 1), 1)
  BY <1>1, <1>3, <1>4, <1>6 DEF Survivors
<1>8. Offsets((0 .. n - 1) \ Factored(b, n, 1), 1) = Rough(b, size)
  BY <1>2, <1>4, OffsetsRight
<1> QED
  BY <1>1, <1>2, <1>7, <1>8

\* ... and of a visible class, in the two-pass scan.
LEMMA FilteredAre ==
  ASSUME Located
  PROVE  Filtered(Survivors) =
           { x \in 0 .. ScanSize - 1 :
               LET n == input.base + Start + x IN
               /\ n % 2 = 1 /\ \A p \in SmallPrimes : n % p # 0
               /\ input.half => (n % 60) \in VisibleClasses(input.quarter) }
<1>1. PICK base \in Nat, start \in Nat, size \in Nat :
        base = input.base /\ start = Start /\ size = ScanSize
  BY WindowPlace
<1>2. Survivors = Rough(base + start, size)
  BY <1>1, SurvivorsAre
<1>3. \A x \in 0 .. size - 1 : ClassOf(BaseMod60(base, start), x) = (base + start + x) % 60
  BY ClassRight
<1> QED
  BY <1>1, <1>2, <1>3 DEF Filtered, FilterOffsets, Rough

-----------------------------------------------------------------------------
(* The candidates of the window at hand                                     *)

Flushing == pc \in {"stage", "submit", "oldest", "rest", "process"}

\* The window at hand has been sieved and not been dispatched.
Holding == pc \in {"probe", "dispatch"} \/ (Flushing /\ ret = "dispatch")

SieveInv ==
  /\ Located
  /\ pc \in {"loop", "sieve", "done"} \/ Holding \/ (Flushing /\ ret = "loop")
  /\ pc = "sieve" \/ Holding => w < Windows
  /\ Holding => cand = Filtered(Survivors)

LEMMA SieveInit == Init => SieveInv
<1> SUFFICES ASSUME Init PROVE SieveInv
  OBVIOUS
<1>1. input \in Inputs /\ w = 0 /\ pc = "loop" /\ halo = 0
  BY DEF Init
<1>2. 0 <= Windows
  <2>1. PICK n \in Nat, k \in Nat : n = OwnedSize /\ n > 0 /\ k = RangeLen
    BY WindowAssumption
  <2>2. PICK d \in Int, r \in 0 .. n - 1 : d = k \div n /\ k = n * d + r
    <3>1. k = n * (k \div n) + (k % n) /\ k \div n \in Int /\ k % n \in 0 .. n - 1
      BY <2>1, Division
    <3> QED
      BY <3>1
  <2>3. d <= -1 => n * d <= -n
    BY <2>1
  <2>4. d >= 0
    BY <2>2, <2>3
  <2> QED
    BY <2>1, <2>2, <2>4 DEF Windows
<1> QED
  BY <1>1, <1>2 DEF SieveInv, Located, Holding, Flushing

LEMMA SieveStep == SieveInv /\ [Next]_vars => SieveInv'
<1> SUFFICES ASSUME SieveInv, [Next]_vars PROVE SieveInv'
  OBVIOUS
<1>0. /\ input \in Inputs /\ w \in Nat /\ w <= Windows /\ halo \in Nat
      /\ pc \in {"loop", "sieve", "done"} \/ Holding \/ (Flushing /\ ret = "loop")
      /\ pc = "sieve" \/ Holding => w < Windows
      /\ Holding => cand = Filtered(Survivors)
  BY DEF SieveInv, Located
<1>1. /\ HaloInitial \in Nat /\ Lookahead \in Nat /\ Windows \in Int
  <2>1. PICK n \in Nat, k \in Nat : n = OwnedSize /\ n > 0 /\ k = RangeLen
    BY WindowAssumption
  <2>2. k \div n \in Int
    BY <2>1, Division
  <2> QED
    BY <2>1, <2>2, WindowAssumption DEF Windows
<1>2. ASSUME UNCHANGED <<input, w, halo>>
      PROVE  Located' /\ Filtered(Survivors)' = Filtered(Survivors)
  BY <1>0, <1>2 DEF Located, Filtered, Survivors, Bitmap, ScanSize, Start, Remaining
<1>3. CASE UNCHANGED <<input, w, halo, cand, ret, pc>>
  <2>1. (Holding' <=> Holding) /\ (Flushing' <=> Flushing)
    BY <1>3 DEF Holding, Flushing
  <2> QED
    BY <1>0, <1>2, <1>3, <2>1 DEF SieveInv
<1>4. CASE BeginWindow
  <2>1. /\ pc' = "sieve" /\ input' = input /\ w' = w /\ w < Windows /\ halo' \in Nat
    BY <1>1, <1>4 DEF BeginWindow
  <2> QED
    BY <1>0, <2>1 DEF SieveInv, Located, Holding, Flushing
<1>5. CASE Sieve
  <2>1. /\ pc = "sieve" /\ cand' = Filtered(Survivors) /\ pc' \in {"dispatch", "probe"}
        /\ UNCHANGED <<input, w, halo>>
    BY <1>5 DEF Sieve, window
  <2> QED
    BY <1>0, <1>2, <2>1 DEF SieveInv, Holding, Flushing
<1>6. CASE Probe
  <2>1. /\ pc = "probe" /\ UNCHANGED <<input, w, cand>>
        /\ \/ pc' = "sieve" /\ halo' = Lookahead
           \/ pc' = "dispatch" /\ halo' = halo
    BY <1>6 DEF Probe
  <2>2. Holding
    BY <2>1 DEF Holding
  <2>3. CASE pc' = "sieve" /\ halo' = Lookahead
    BY <1>0, <1>1, <2>1, <2>2, <2>3 DEF SieveInv, Located, Holding, Flushing
  <2>4. CASE pc' = "dispatch" /\ halo' = halo
    BY <1>0, <1>2, <2>1, <2>2, <2>4 DEF SieveInv, Holding, Flushing
  <2> QED
    BY <2>1, <2>3, <2>4
<1>7. CASE SkipWindow \/ DispatchCpu \/ DispatchGpu
  <2>1. /\ pc = "dispatch" /\ w' = w + 1 /\ UNCHANGED <<input, halo>>
        /\ pc' \in {"loop", "process", "stage"} /\ (pc' # "loop" => ret' = "loop")
    BY <1>7 DEF SkipWindow, DispatchCpu, DispatchGpu
  <2>2. w < Windows
    BY <1>0, <2>1 DEF Holding
  <2>3. w' \in Nat /\ w' <= Windows
    BY <1>0, <1>1, <2>1, <2>2
  <2>4. ~Holding' /\ (pc' = "loop" \/ (Flushing' /\ ret' = "loop"))
    BY <2>1 DEF Holding, Flushing
  <2> QED
    BY <1>0, <2>1, <2>3, <2>4 DEF SieveInv, Located
<1>8. CASE DispatchFull
  <2>1. /\ pc = "dispatch" /\ pc' = "stage" /\ ret' = "dispatch"
        /\ UNCHANGED <<input, w, halo, cand>>
    BY <1>8 DEF DispatchFull, window
  <2> QED
    BY <1>0, <1>2, <2>1 DEF SieveInv, Holding, Flushing
<1>9. CASE EndOfRange
  <2>1. /\ pc' \in {"done", "stage"} /\ ret' = "loop" /\ UNCHANGED <<input, w, halo>>
    BY <1>9 DEF EndOfRange, window
  <2> QED
    BY <1>2, <2>1 DEF SieveInv, Holding, Flushing
<1>10. CASE \/ Stage \/ Submit \/ SubmitFails \/ AllSubmitted
            \/ CollectOldest \/ CollectRest \/ BatchTested \/ ProcessWindow
  <2>1. Flushing /\ Flushing' /\ UNCHANGED <<input, w, halo, cand, ret>>
    BY <1>10 DEF Stage, Submit, SubmitFails, AllSubmitted, CollectOldest, CollectRest,
       BatchTested, ProcessWindow, Flushing, window
  <2>2. Holding' <=> Holding
    BY <2>1 DEF Holding, Flushing
  <2>3. pc' # "sieve" /\ pc \notin {"loop", "sieve", "done"}
    BY <2>1 DEF Flushing
  <2> QED
    BY <1>0, <1>2, <2>1, <2>2, <2>3 DEF SieveInv
<1>11. CASE BatchDone
  <2>1. pc = "process" /\ pc' = ret /\ UNCHANGED <<input, w, halo, cand, ret>>
    BY <1>11 DEF BatchDone, window
  <2>2. ret \in {"loop", "dispatch"}
    BY <1>0, <2>1 DEF Holding, Flushing
  <2>3. CASE ret = "loop"
    BY <1>2, <2>1, <2>3 DEF SieveInv, Holding, Flushing
  <2>4. CASE ret = "dispatch"
    BY <1>0, <1>2, <2>1, <2>4 DEF SieveInv, Holding, Flushing
  <2> QED
    BY <2>2, <2>3, <2>4
<1>12. UNCHANGED vars => UNCHANGED <<input, w, halo, cand, ret, pc>>
  BY DEF vars, window
<1> QED
  BY <1>3, <1>4, <1>5, <1>6, <1>7, <1>8, <1>9, <1>10, <1>11, <1>12 DEF Next

LEMMA SieveInvExact == SieveInv => SurvivorsExact
<1> SUFFICES ASSUME SieveInv, pc \in {"probe", "dispatch"}
             PROVE  cand = { x \in 0 .. ScanSize - 1 :
                               LET n == input.base + Start + x IN
                               /\ n % 2 = 1 /\ \A p \in SmallPrimes : n % p # 0
                               /\ input.half => (n % 60) \in VisibleClasses(input.quarter) }
  BY DEF SurvivorsExact
<1>1. Located /\ cand = Filtered(Survivors)
  BY DEF SieveInv, Holding
<1> QED
  BY <1>1, FilteredAre

\* What the sieve leaves of a window are its odd numbers without a small factor,
\* and of a visible class in the two-pass scan, no more and no fewer: whether
\* their residues were cached for the header or made for the window, whether the
\* marks came from vectors, from single steps or in part from the GPU, and however
\* the last word of the bitmap was read (sieve_core.c).
THEOREM SieveIsExact == Spec => []SurvivorsExact
BY SieveInit, SieveStep, SieveInvExact, PTL DEF Spec

-----------------------------------------------------------------------------
(* Neighbours                                                               *)

LEMMA LeastIs ==
  ASSUME NEW S, S \subseteq Nat, S # {}
  PROVE  Least(S) \in S /\ \A y \in S : Least(S) <= y
<1>1. PICK m \in S : \A k \in S : m <= k
  BY SmallestIn
<1> QED
  BY <1>1 DEF Least

LEMMA LeastIsOnly ==
  ASSUME NEW S, S \subseteq Nat, NEW m \in S, \A y \in S : m <= y
  PROVE  Least(S) = m
<1>1. Least(S) \in S /\ \A y \in S : Least(S) <= y
  BY LeastIs
<1>2. Least(S) \in Nat /\ m \in Nat /\ Least(S) <= m /\ m <= Least(S)
  BY <1>1
<1> QED
  BY <1>2

LEMMA GreatestIs ==
  ASSUME NEW n \in Nat, NEW S, S \subseteq 0 .. n - 1, S # {}
  PROVE  Greatest(S) \in S /\ \A y \in S : y <= Greatest(S)
<1> DEFINE Mirror == {n - x : x \in S}
<1>1. Mirror \subseteq Nat /\ Mirror # {}
  OBVIOUS
<1>2. PICK m \in Mirror : \A k \in Mirror : m <= k
  BY <1>1, SmallestIn
<1>3. PICK x \in S : m = n - x
  BY <1>2
<1>4. ASSUME NEW y \in S PROVE y <= x
  <2>1. m <= n - y /\ x \in Int /\ y \in Int
    BY <1>2
  <2> QED
    BY <1>3, <2>1
<1> QED
  BY <1>4 DEF Greatest

\* No number of the set lies between two neighbours.
LEMMA AdjacentAre ==
  ASSUME NEW chain, chain \subseteq Nat, NEW g \in Adjacent(chain)
  PROVE  /\ g[1] \in chain /\ g[2] \in chain /\ g[1] < g[2]
         /\ \A x \in chain : x <= g[1] \/ g[2] <= x
<1>1. PICK a \in chain : /\ \E x \in chain : x > a
                         /\ g = <<a, Least({x \in chain : x > a})>>
  BY DEF Adjacent
<1>2. PICK c \in chain : c = Least({x \in chain : x > a}) /\ c > a
                         /\ \A x \in chain : x > a => c <= x
  <2>1. {x \in chain : x > a} \subseteq Nat /\ {x \in chain : x > a} # {}
    BY <1>1
  <2> QED
    BY <2>1, LeastIs
<1>3. g[1] = a /\ g[2] = c
  BY <1>1, <1>2
<1>4. \A x \in chain : x <= a \/ c <= x
  BY <1>2
<1> QED
  BY <1>2, <1>3, <1>4

\* A gap between consecutive primes, long enough.
TrueGap(p, len) == p \in Prime /\ NextPrime(p) = p + len /\ Qualifies(p, len)

LEMMA NextPrimeIs ==
  ASSUME NEW p \in Prime, NEW q \in Prime, p < q, \A r \in Prime : r <= p \/ q <= r
  PROVE  NextPrime(p) = q
<1>1. Prime \subseteq Nat
  BY PrimeAssumption
<1>2. {r \in Prime : r > p} \subseteq Nat /\ q \in {r \in Prime : r > p}
  BY <1>1
<1>3. \A r \in {r \in Prime : r > p} : q <= r
  BY <1>1
<1> QED
  BY <1>2, <1>3, LeastIsOnly DEF NextPrime

\* What a chain emits is a gap between consecutive primes, if its ends are primes
\* and every prime between them is in the chain.
LEMMA EmitsTrue ==
  ASSUME NEW b \in Nat, NEW chain, chain \subseteq Nat, NEW g \in Adjacent(chain),
         b + g[1] \in Prime, b + g[2] \in Prime, Qualifies(b + g[1], g[2] - g[1]),
         \A x \in Nat : b + x \in Prime /\ g[1] < x /\ x < g[2] => x \in chain
  PROVE  TrueGap(b + g[1], g[2] - g[1])
<1>1. PICK a \in chain, c \in chain :
        a = g[1] /\ c = g[2] /\ a < c /\ \A x \in chain : x <= a \/ c <= x
  BY AdjacentAre
<1>2. a \in Nat /\ c \in Nat
  OBVIOUS
<1>3. ASSUME NEW r \in Prime, b + a < r, r < b + c PROVE FALSE
  <2>1. PICK x \in Nat : x = r - b /\ r = b + x
    BY <1>2, <1>3, PrimeAssumption
  <2>2. a < x /\ x < c
    BY <1>2, <1>3, <2>1
  <2>3. x \in chain
    BY <1>1, <2>1, <2>2
  <2> QED
    BY <1>1, <1>2, <2>2, <2>3
<1>4. \A r \in Prime : r <= b + a \/ b + c <= r
  BY <1>2, <1>3, PrimeAssumption
<1>5. NextPrime(b + a) = b + c
  BY <1>1, <1>2, <1>4, NextPrimeIs
<1>6. b + c = b + a + (c - a)
  BY <1>2
<1> QED
  BY <1>1, <1>5, <1>6 DEF TrueGap

-----------------------------------------------------------------------------
(* The gaps of one window                                                   *)

\* The candidates of a window of n numbers from b on.
Visible(b, n) ==
  { x \in 0 .. n - 1 : /\ (b + x) % 2 = 1 /\ \A p \in SmallPrimes : (b + x) % p # 0
                       /\ input.half => ((b + x) % 60) \in VisibleClasses(input.quarter) }

LEMMA ClassOfSum ==
  ASSUME NEW b \in Nat, NEW x \in Nat
  PROVE  ClassOf(b % 60, x) = (b + x) % 60
<1>1. PICK r \in 0 .. 59, s \in 0 .. 59 : r = b % 60 /\ s = x % 60
  BY Division
<1>2. (r + s) % 60 = (b + x) % 60
  <2>1. (b % 60) \in 0 .. 59 /\ b = 60 * (b \div 60) + (b % 60) /\ b \div 60 \in Int
    BY Division
  <2>2. (x % 60) \in 0 .. 59 /\ x = 60 * (x \div 60) + (x % 60) /\ x \div 60 \in Int
    BY Division
  <2>3. PICK k \in Int, m \in Int : b = 60 * k + r /\ x = 60 * m + s
    BY <1>1, <2>1, <2>2
  <2> QED
    BY <2>3
<1> QED
  BY <1>1, <1>2 DEF ClassOf

\* A prime of a window is a candidate, or of a hidden class.
LEMMA PrimesSeen ==
  ASSUME input \in Inputs, NEW b \in Nat, b >= input.base, NEW n \in Nat,
         NEW x \in Nat, x < n, b + x \in Prime
  PROVE  x \in Visible(b, n) \/ (input.half /\ ClassOf(b % 60, x) \in HiddenClasses(input.quarter))
<1>1. input.base \in Nat
  BY InputAssumption
<1>2. PICK q \in Prime : q = b + x
  OBVIOUS
<1>3. /\ q % 2 = 1 /\ \A p \in SmallPrimes : q % p # 0
      /\ (q % 60) \in VisibleClasses(FALSE) \cup HiddenClasses(FALSE)
  <2>1. q >= input.base
    BY <1>1, <1>2
  <2> QED
    BY <2>1, PrimeAssumption
<1>4. \A c \in VisibleClasses(FALSE) \cup HiddenClasses(FALSE) :
        c \in VisibleClasses(input.quarter) \cup HiddenClasses(input.quarter)
  BY DEF VisibleClasses, HiddenClasses
<1>5. ClassOf(b % 60, x) = (q % 60)
  BY <1>2, ClassOfSum
<1>6. x \in 0 .. n - 1
  OBVIOUS
<1>7. CASE (q % 60) \in VisibleClasses(input.quarter) \/ ~input.half
  <2>1. input.half => (q % 60) \in VisibleClasses(input.quarter)
    BY <1>7
  <2> QED
    BY <1>2, <1>3, <1>6, <2>1 DEF Visible
<1>8. CASE ~((q % 60) \in VisibleClasses(input.quarter) \/ ~input.half)
  <2>1. ClassOf(b % 60, x) \in HiddenClasses(input.quarter)
    BY <1>3, <1>4, <1>5, <1>8
  <2> QED
    BY <1>8, <2>1
<1> QED
  BY <1>7, <1>8

\* What a window with candidates "cands" is said to have passed.
Sound(b, cands, passed) ==
  passed \subseteq cands /\ \A x \in cands : b + x \in Prime => x \in passed

LEMMA TestedDown ==
  ASSUME NEW cands, cands \subseteq Nat, NEW passed, passed \subseteq cands
  PROVE  /\ Tested(cands, passed) \subseteq cands
         /\ \A y \in Tested(cands, passed) : \A x \in cands :
              x <= y => x \in Tested(cands, passed)
<1> DEFINE closers == { x \in passed : x >= OwnedSize }
<1>1. CASE closers = {}
  BY <1>1 DEF Tested
<1>2. CASE closers # {}
  <2>1. PICK m \in Nat : m = Least(closers)
    BY <1>2, LeastIs
  <2>2. Tested(cands, passed) = { x \in cands : x <= m }
    BY <1>2, <2>1 DEF Tested
  <2>3. ASSUME NEW y \in Tested(cands, passed), NEW x \in cands, x <= y
        PROVE  x \in Tested(cands, passed)
    <3>1. y \in Nat /\ y <= m /\ x \in Nat
      BY <2>2
    <3>2. x <= m
      BY <2>3, <3>1
    <3> QED
      BY <2>2, <3>2
  <2>4. Tested(cands, passed) \subseteq cands
    BY <2>2
  <2> QED
    BY <2>3, <2>4
<1> QED
  BY <1>1, <1>2

\* Every gap that a window reports, and whose ends are primes, is true.
LEMMA ReportedTrue ==
  ASSUME input \in Inputs, NEW win, NEW start \in Nat, start % 2 = 0, NEW n \in Nat,
         win.start = start, win.cand = Visible(input.base + start, n),
         NEW passed, Sound(input.base + start, win.cand, passed),
         NEW tested, tested = Tested(win.cand, passed),
         NEW g \in Reported(win, tested, passed \cap tested), Verified(g)
  PROVE  TrueGap(input.base + g.nadd, g.len)
<1> DEFINE b == input.base + start
           positives == passed \cap tested
<1>1. PICK h \in Nat : h = input.base /\ b = h + start /\ b \in Nat /\ b >= h /\ b % 2 = 0
  <2>1. input.base \in Nat /\ input.base % 2 = 0
    BY InputAssumption
  <2> QED
    BY <2>1
<1>2. /\ win.cand \subseteq 0 .. n - 1 /\ passed \subseteq win.cand /\ tested \subseteq win.cand
      /\ positives \subseteq tested /\ positives \subseteq Nat /\ tested \subseteq 0 .. n - 1
  <2>1. win.cand \subseteq 0 .. n - 1 /\ passed \subseteq win.cand
    BY DEF Visible, Sound
  <2>2. win.cand \subseteq Nat
    BY <2>1
  <2>3. tested \subseteq win.cand
    BY <2>1, <2>2, TestedDown
  <2> QED
    BY <2>1, <2>2, <2>3
\* A prime up to a tested candidate is positive, or of a hidden class.
<1>3. ASSUME NEW x \in Nat, b + x \in Prime, NEW y \in tested, x <= y
      PROVE  \/ x \in positives
             \/ input.half /\ ClassOf(b % 60, x) \in HiddenClasses(input.quarter)
  <2>1. x < n
    BY <1>2, <1>3
  <2>2. \/ x \in win.cand
        \/ input.half /\ ClassOf(b % 60, x) \in HiddenClasses(input.quarter)
    BY <1>1, <1>3, <2>1, PrimesSeen
  <2>3. win.cand \subseteq Nat
    BY <1>2
  <2>4. x \in win.cand => x \in tested
    BY <1>2, <1>3, <2>3, TestedDown
  <2>5. x \in win.cand => x \in passed
    BY <1>1, <1>3 DEF Sound
  <2> QED
    BY <2>2, <2>4, <2>5
\* A chain that ends at a tested candidate, and has the positives and the hidden
\* primes between its members, emits true gaps.
<1>4. ASSUME NEW chain, chain \subseteq Nat, NEW e \in Adjacent(chain),
             e[1] < OwnedSize /\ Qualifies(b + e[1], e[2] - e[1]),
             NEW y \in tested, e[2] <= y,
             g.nadd = start + e[1], g.len = e[2] - e[1],
             \A x \in Nat : /\ b + x \in Prime /\ e[1] < x /\ x < e[2]
                            /\ \/ x \in positives
                               \/ input.half /\ ClassOf(b % 60, x) \in HiddenClasses(input.quarter)
                            => x \in chain
      PROVE  TrueGap(input.base + g.nadd, g.len)
  <2>1. PICK a \in Nat, c \in Nat : a = e[1] /\ c = e[2] /\ a < c
    BY <1>4, AdjacentAre
  <2>2. PICK t \in Nat : t = y /\ c <= t
    BY <1>2, <1>4, <2>1
  <2>3. b + a = input.base + g.nadd /\ b + c = input.base + g.nadd + g.len
    <3>1. g.nadd = start + a /\ g.len = c - a
      BY <1>4, <2>1
    <3>2. h + start + a = h + (start + a) /\ h + start + c = h + (start + a) + (c - a)
      BY <2>1
    <3> QED
      BY <1>1, <3>1, <3>2
  <2>4. b + e[1] \in Prime /\ b + e[2] \in Prime
    BY <2>1, <2>3 DEF Verified
  <2>5. ASSUME NEW x \in Nat, b + x \in Prime, e[1] < x, x < e[2] PROVE x \in chain
    <3>1. x <= y
      BY <2>1, <2>2, <2>5
    <3> QED
      BY <1>3, <1>4, <2>5, <3>1
  <2>6. TrueGap(b + e[1], e[2] - e[1])
    BY <1>1, <1>4, <2>4, <2>5, EmitsTrue
  <2> QED
    BY <1>4, <2>1, <2>3, <2>6
<1>5. CASE ~input.half
  <2>1. PICK e \in Detect(b, positives) : g = [nadd |-> start + e[1], len |-> e[2] - e[1], by |-> e]
    BY <1>5 DEF Reported
  <2>2. e \in Adjacent(positives) /\ e[1] < OwnedSize /\ Qualifies(b + e[1], e[2] - e[1])
    BY <2>1 DEF Detect
  <2>3. e[2] \in positives
    BY <1>2, <2>2, AdjacentAre
  <2>4. e[2] \in tested /\ e[2] <= e[2]
    BY <1>2, <2>3
  <2>5. g.nadd = start + e[1] /\ g.len = e[2] - e[1]
    BY <2>1
  <2> QED
    BY <1>2, <1>4, <1>5, <2>2, <2>4, <2>5
<1>6. CASE /\ input.half
           /\ \E v \in Detect(b, positives) :
                \E e \in ResolveGap(input.quarter, b, v[1], v[2], OwnedSize) :
                  g = [nadd |-> start + e[1], len |-> e[2] - e[1], by |-> v]
  <2>0. PICK v \in Detect(b, positives) :
          \E e \in ResolveGap(input.quarter, b, v[1], v[2], OwnedSize) :
            g = [nadd |-> start + e[1], len |-> e[2] - e[1], by |-> v]
    BY <1>6
  <2>1. PICK e \in ResolveGap(input.quarter, b, v[1], v[2], OwnedSize) :
          g = [nadd |-> start + e[1], len |-> e[2] - e[1], by |-> v]
    BY <2>0
  <2>2. PICK l \in Nat, u \in Nat :
          /\ l = v[1] /\ u = v[2] /\ l \in positives /\ u \in positives /\ l < u
          /\ \A x \in positives : x <= l \/ u <= x
    <3>1. v \in Adjacent(positives)
      BY <2>1 DEF Detect
    <3> QED
      BY <1>2, <3>1, AdjacentAre
  <2> DEFINE hidden == HiddenPrimes(input.quarter, b + l, u - l)
             chain  == {l, u} \cup { l + x : x \in hidden }
  <2>3. hidden \subseteq 0 .. u - l - 1
    BY DEF HiddenPrimes
  <2>4. chain \subseteq Nat /\ \A x \in chain : l <= x /\ x <= u
    BY <2>2, <2>3
  <2>5. e \in Adjacent(chain) /\ e[1] < OwnedSize /\ Qualifies(b + e[1], e[2] - e[1])
    BY <2>1, <2>2 DEF ResolveGap, EmitChain
  <2>6. PICK a \in Nat, c \in Nat : a = e[1] /\ c = e[2] /\ l <= a /\ c <= u /\ a < c
    <3>1. e[1] \in chain /\ e[2] \in chain /\ e[1] < e[2]
      <4> HIDE DEF chain
      <4> QED
        BY <2>4, <2>5, AdjacentAre
    <3> HIDE DEF chain
    <3> QED
      BY <2>4, <3>1
  <2>7. ASSUME NEW x \in Nat, b + x \in Prime, a < x, x < c,
               ClassOf(b % 60, x) \in HiddenClasses(input.quarter)
        PROVE  x \in chain
    <3>1. PICK d \in Nat : d = x - l /\ x = l + d /\ d \in 0 .. u - l - 1
      BY <2>2, <2>6, <2>7
    <3>2. ClassOf((b + l) % 60, d) = ClassOf(b % 60, x)
      <4>1. b + l \in Nat /\ b + l + d = b + x
        BY <1>1, <2>2, <3>1
      <4> QED
        BY <1>1, <3>1, <4>1, ClassOfSum
    <3>3. b + l + d = b + x
      BY <1>1, <3>1
    <3>4. d \in hidden
      BY <2>7, <3>1, <3>2, <3>3 DEF HiddenPrimes
    <3> QED
      BY <3>1, <3>4
  <2>8. \A x \in positives : ~(a < x /\ x < c)
    BY <1>2, <2>2, <2>6
  <2>9. u \in tested /\ e[2] <= u
    BY <1>2, <2>2, <2>6
  <2>10. g.nadd = start + e[1] /\ g.len = e[2] - e[1]
    BY <2>1
  <2> HIDE DEF chain, hidden, positives, b
  <2> QED
    BY <1>4, <2>4, <2>5, <2>6, <2>7, <2>8, <2>9, <2>10
<1>7. CASE /\ input.half
           /\ \E e \in Prefix(b, tested, positives) :
                g = [nadd |-> start + e[1], len |-> e[2] - e[1], by |-> <<>>]
  <2>1. PICK e \in Prefix(b, tested, positives) :
          g = [nadd |-> start + e[1], len |-> e[2] - e[1], by |-> <<>>]
    BY <1>7
  \* The prefix ends with a tested candidate; no positive lies before it.
  <2>2. PICK v \in tested, last \in SUBSET tested :
          /\ last \subseteq {v}
          /\ e \in EmitChain(b, HiddenPrimes(input.quarter, b, v) \cup last, OwnedSize)
          /\ \A x \in positives : v <= x
    <3>0. PICK pos : pos = positives
      OBVIOUS
    <3>1. tested # {} /\ tested \subseteq Nat
      <4>1. e \in Prefix(b, tested, pos)
        BY <2>1, <3>0
      <4>2. tested # {}
        BY <4>1 DEF Prefix
      <4> QED
        BY <1>2, <4>2
    <3>2. CASE positives # {} /\ Least(positives) > 0
      <4>1. Least(positives) \in positives /\ \A x \in positives : Least(positives) <= x
        BY <1>2, <3>2, LeastIs
      <4>2. e \in VerifyPrefix(input.quarter, b, Least(positives), TRUE, OwnedSize)
        BY <2>1, <3>1, <3>2 DEF Prefix
      <4>3. e \in EmitChain(b, HiddenPrimes(input.quarter, b, Least(positives))
                                 \cup {Least(positives)}, OwnedSize)
        BY <4>2 DEF VerifyPrefix
      <4> QED
        BY <1>2, <4>1, <4>3
    <3>3. CASE ~(positives # {} /\ Least(positives) > 0)
      <4>1. positives = {}
        <5>1. SUFFICES ASSUME positives # {} PROVE FALSE
          OBVIOUS
        <5>2. Least(positives) \in positives
          BY <1>2, <5>1, LeastIs
        <5>3. 0 \in positives
          BY <1>2, <3>3, <5>1, <5>2
        <5>4. (b + 0) % 2 = 1
          BY <1>2, <5>3 DEF Visible
        <5> QED
          BY <1>1, <5>4
      <4>2. Greatest(tested) \in tested
        BY <1>2, <3>1, GreatestIs
      <4>3. e \in VerifyPrefix(input.quarter, b, Greatest(tested),
                               Greatest(tested) \in positives, OwnedSize)
        BY <2>1, <3>1, <3>3 DEF Prefix
      <4>4. e \in EmitChain(b, HiddenPrimes(input.quarter, b, Greatest(tested)) \cup {},
                            OwnedSize)
        BY <4>1, <4>3 DEF VerifyPrefix
      <4> QED
        BY <4>1, <4>2, <4>4
    <3> QED
      BY <3>2, <3>3
  <2>3. v \in Nat
    BY <1>2, <2>2
  <2> DEFINE hidden == HiddenPrimes(input.quarter, b, v)
             chain  == hidden \cup last
  <2>4. hidden \subseteq 0 .. v - 1
    BY DEF HiddenPrimes
  <2>5. chain \subseteq Nat /\ \A x \in chain : x <= v
    <3>1. \A x \in hidden : x \in Nat /\ x <= v
      BY <2>3, <2>4
    <3>2. \A x \in last : x = v
      BY <2>2
    <3>3. ASSUME NEW x \in chain PROVE x \in Nat /\ x <= v
      <4>1. x \in hidden \/ x \in last
        BY <3>3
      <4>2. v \in Nat /\ v <= v
        BY <2>3
      <4>3. CASE x \in last
        BY <3>2, <4>2, <4>3
      <4>4. CASE x \in hidden
        BY <3>1, <4>4
      <4> QED
        BY <4>1, <4>3, <4>4
    <3> QED
      BY <3>3
  <2>6. e \in Adjacent(chain) /\ e[1] < OwnedSize /\ Qualifies(b + e[1], e[2] - e[1])
    BY <2>2 DEF EmitChain
  <2>7. PICK a \in Nat, c \in Nat : a = e[1] /\ c = e[2] /\ c <= v /\ a < c
    BY <2>5, <2>6, AdjacentAre
  <2>8. ASSUME NEW x \in Nat, b + x \in Prime, a < x, x < c,
               ClassOf(b % 60, x) \in HiddenClasses(input.quarter)
        PROVE  x \in chain
    <3>1. x \in 0 .. v - 1
      BY <2>3, <2>7, <2>8
    <3> QED
      BY <2>8, <3>1 DEF HiddenPrimes
  <2>9. \A x \in positives : ~(a < x /\ x < c)
    BY <1>2, <2>2, <2>3, <2>7
  <2>10. e[2] <= v
    BY <2>7
  <2>11. g.nadd = start + e[1] /\ g.len = e[2] - e[1]
    BY <2>1
  <2> HIDE DEF chain, hidden, positives, b
  <2> QED
    BY <1>4, <2>2, <2>5, <2>6, <2>7, <2>8, <2>9, <2>10, <2>11
<1>8. input.half =>
        \/ \E v \in Detect(b, positives) :
             \E e \in ResolveGap(input.quarter, b, v[1], v[2], OwnedSize) :
               g = [nadd |-> start + e[1], len |-> e[2] - e[1], by |-> v]
        \/ \E e \in Prefix(b, tested, positives) :
             g = [nadd |-> start + e[1], len |-> e[2] - e[1], by |-> <<>>]
  <2>1. PICK pos : pos = positives
    OBVIOUS
  <2>2. g \in Reported(win, tested, pos)
    BY <2>1
  <2> DEFINE from  == input.base + win.start
             first == { [nadd |-> win.start + e[1], len |-> e[2] - e[1], by |-> <<>>] :
                          e \in Prefix(from, tested, pos) }
             resolved(v) ==
               { [nadd |-> win.start + e[1], len |-> e[2] - e[1], by |-> v] :
                   e \in ResolveGap(input.quarter, from, v[1], v[2], OwnedSize) }
  <2>3. input.half => g \in first \cup UNION { resolved(v) : v \in Detect(from, pos) }
    <3>1. input.half => Reported(win, tested, pos) =
                          first \cup UNION { resolved(v) : v \in Detect(from, pos) }
      BY DEF Reported
    <3> HIDE DEF first, resolved
    <3> QED
      BY <2>2, <3>1
  <2>4. ASSUME g \in first
        PROVE  \E e \in Prefix(from, tested, pos) :
                 g = [nadd |-> win.start + e[1], len |-> e[2] - e[1], by |-> <<>>]
    BY <2>4
  <2>5. ASSUME NEW v \in Detect(from, pos), g \in resolved(v)
        PROVE  \E e \in ResolveGap(input.quarter, from, v[1], v[2], OwnedSize) :
                 g = [nadd |-> win.start + e[1], len |-> e[2] - e[1], by |-> v]
    BY <2>5
  <2>6. input.half => g \in first \/ \E v \in Detect(from, pos) : g \in resolved(v)
    <3> HIDE DEF first, resolved
    <3> QED
      BY <2>3
  <2>7. from = b /\ win.start = start
    OBVIOUS
  <2> HIDE DEF first, resolved, from, b, positives
  <2>8. SUFFICES ASSUME input.half
                 PROVE  \/ \E v \in Detect(b, positives) :
                             \E e \in ResolveGap(input.quarter, b, v[1], v[2], OwnedSize) :
                               g = [nadd |-> start + e[1], len |-> e[2] - e[1], by |-> v]
                        \/ \E e \in Prefix(b, tested, positives) :
                             g = [nadd |-> start + e[1], len |-> e[2] - e[1], by |-> <<>>]
    OBVIOUS
  <2>9. CASE g \in first
    BY <2>1, <2>4, <2>7, <2>9
  <2>10. CASE \E v \in Detect(from, pos) : g \in resolved(v)
    <3>1. PICK v \in Detect(b, positives) : g \in resolved(v)
      BY <2>1, <2>7, <2>10
    <3>2. v \in Detect(from, pos)
      BY <2>1, <2>7
    <3> QED
      BY <2>5, <2>7, <3>1, <3>2
  <2> QED
    BY <2>6, <2>8, <2>9, <2>10
<1> QED
  BY <1>5, <1>6, <1>7, <1>8

-----------------------------------------------------------------------------
(* The batch                                                                *)

\* A window of the batch, with the candidates that the sieve left of it.
GoodWindow(win) ==
  \E start \in Nat, n \in 0 .. RangeLen :
    /\ start % 2 = 0 /\ win.start = start
    /\ win.cand = Visible(input.base + start, n)

Batched ==
  /\ pend \in Seq([start : Nat, cand : SUBSET Nat])
  /\ \A k \in 1 .. Len(pend) : GoodWindow(pend[k])

\* The candidates up to e, in the order in which they are packed.
UpTo(e) == { d \in Members(pend) : d[1] < e[1] \/ (d[1] = e[1] /\ d[2] <= e[2]) }

LEMMA MembersAre ==
  ASSUME Batched
  PROVE  /\ Members(pend) \subseteq (1 .. Len(pend)) \X (0 .. RangeLen - 1)
         /\ \A k \in 1 .. Len(pend) : \A x \in pend[k].cand : <<k, x>> \in Members(pend)
         /\ IsFiniteSet(Members(pend))
<1>0. Len(pend) \in Nat /\ DOMAIN pend = 1 .. Len(pend) /\ RangeLen \in Nat
  BY WindowAssumption DEF Batched
<1>1. \A k \in 1 .. Len(pend) : pend[k].cand \subseteq 0 .. RangeLen - 1
  <2>1. TAKE k \in 1 .. Len(pend)
  <2>2. PICK start \in Nat, n \in 0 .. RangeLen : pend[k].cand = Visible(input.base + start, n)
    BY DEF Batched, GoodWindow
  <2> QED
    BY <1>0, <2>2 DEF Visible
<1>2. Members(pend) \subseteq (1 .. Len(pend)) \X (0 .. RangeLen - 1)
  BY <1>0, <1>1 DEF Members
<1>3. \A k \in 1 .. Len(pend) : \A x \in pend[k].cand : <<k, x>> \in Members(pend)
  BY <1>0 DEF Members
<1>4. IsFiniteSet((1 .. Len(pend)) \X (0 .. RangeLen - 1))
  <2>1. IsFiniteSet(1 .. Len(pend)) /\ IsFiniteSet(0 .. RangeLen - 1)
    BY <1>0, FS_Interval
  <2> QED
    BY <2>1, FS_Product
<1> QED
  BY <1>2, <1>3, <1>4, FS_Subset

\* Every candidate has a place of its own.
LEMMA Places ==
  ASSUME Batched
  PROVE  /\ Total(pend) \in Nat
         /\ \A e \in Members(pend) : Place(e) \in 1 .. Total(pend)
         /\ \A d, e \in Members(pend) : Place(d) = Place(e) => d = e
<1>1. /\ IsFiniteSet(Members(pend)) /\ Len(pend) \in Nat /\ RangeLen \in Nat
      /\ \A e \in Members(pend) : e = <<e[1], e[2]>> /\ e[1] \in Nat /\ e[2] \in Nat
  <2>1. Len(pend) \in Nat /\ RangeLen \in Nat
    BY WindowAssumption DEF Batched
  <2>2. \A e \in (1 .. Len(pend)) \X (0 .. RangeLen - 1) :
          e = <<e[1], e[2]>> /\ e[1] \in Nat /\ e[2] \in Nat
    BY <2>1
  <2> QED
    BY <2>1, <2>2, MembersAre
<1>2. \A e : Place(e) = Cardinality(UpTo(e))
  BY DEF Place, UpTo
<1>3. \A e : UpTo(e) \subseteq Members(pend)
  BY DEF UpTo
<1>4. \A e : IsFiniteSet(UpTo(e)) /\ Cardinality(UpTo(e)) \in Nat
             /\ Cardinality(UpTo(e)) <= Cardinality(Members(pend))
  BY <1>1, <1>3, FS_Subset, FS_CardinalityType
<1>5. Total(pend) \in Nat
  BY <1>1, FS_CardinalityType DEF Total
<1>6. ASSUME NEW e \in Members(pend) PROVE Place(e) \in 1 .. Total(pend)
  <2>1. e \in UpTo(e)
    BY <1>1 DEF UpTo
  <2>2. Cardinality(UpTo(e)) # 0
    BY <1>4, <2>1, FS_EmptySet
  <2> QED
    BY <1>2, <1>4, <1>5, <2>2 DEF Total
<1>7. ASSUME NEW d \in Members(pend), NEW e \in Members(pend),
             d[1] < e[1] \/ (d[1] = e[1] /\ d[2] < e[2])
      PROVE  Place(d) # Place(e)
  <2>1. UpTo(d) \subseteq UpTo(e)
    <3>1. SUFFICES ASSUME NEW c \in UpTo(d) PROVE c \in UpTo(e)
      OBVIOUS
    <3>2. c \in Members(pend) /\ (c[1] < d[1] \/ (c[1] = d[1] /\ c[2] <= d[2]))
      BY DEF UpTo
    <3>3. c[1] < e[1] \/ (c[1] = e[1] /\ c[2] <= e[2])
      BY <1>1, <1>7, <3>2
    <3> QED
      BY <3>2, <3>3 DEF UpTo
  <2>2. e \in UpTo(e) /\ e \notin UpTo(d)
    BY <1>1, <1>7 DEF UpTo
  <2>3. Cardinality(UpTo(d)) # Cardinality(UpTo(e))
    <3>1. UpTo(d) # UpTo(e)
      BY <2>2
    <3> QED
      BY <1>4, <2>1, <3>1, FS_Subset
  <2> QED
    BY <1>2, <2>3
<1>8. ASSUME NEW d \in Members(pend), NEW e \in Members(pend), d # e
      PROVE  \/ d[1] < e[1] \/ (d[1] = e[1] /\ d[2] < e[2])
             \/ e[1] < d[1] \/ (e[1] = d[1] /\ e[2] < d[2])
  BY <1>1, <1>8
<1>9. \A d, e \in Members(pend) : Place(d) = Place(e) => d = e
  BY <1>7, <1>8
<1> QED
  BY <1>5, <1>6, <1>9

\* ... where it is packed.
LEMMA PackedThere ==
  ASSUME Batched, NEW e \in Members(pend)
  PROVE  Packed(Place(e)) = NumberOf(e)
<1>1. (CHOOSE d \in Members(pend) : Place(d) = Place(e)) = e
  BY Places
<1> QED
  BY <1>1 DEF Packed

\* A batch is being tested on the device.
Asking == pc \in {"submit", "oldest", "rest"}

\* The result of e is in a slot of the device.
Waiting(e) ==
  \E s \in inflight : chunk[s].from < Place(e) /\ Place(e) <= chunk[s].from + chunk[s].n

FlushTypes ==
  /\ off \in Nat /\ next_slot \in {0, 1} /\ inflight \subseteq {0, 1}
  /\ chunk \in [{0, 1} -> [from : Nat, n : Nat]]
  /\ slots = [s \in {0, 1} |-> slots[s]]

\* A slot that waits is never submitted to; what waits in it are the candidates
\* of its piece; no prime of the pieces before "off" is lost, and none passed that
\* does not pass the test; and a batch that did not fail has all its results when
\* its windows are processed.
FlushInv ==
  /\ FlushTypes
  /\ pc = "submit" => next_slot \notin inflight
  /\ pc = "oldest" => next_slot \in inflight
  /\ Asking => \A s \in inflight : \A y \in 1 .. chunk[s].n :
                 slots[s][y] = Packed(chunk[s].from + y)
  /\ gpu_ok /\ (Asking \/ pc = "process") =>
       /\ DOMAIN verdicts = 1 .. Total(pend)
       /\ \A e \in Members(pend) :
            /\ Place(e) <= off /\ NumberOf(e) \in Prime => verdicts[Place(e)] \/ Waiting(e)
            /\ verdicts[Place(e)] => Test(NumberOf(e))
  /\ gpu_ok /\ pc \in {"rest", "process"} => off >= Total(pend)
  /\ gpu_ok /\ pc = "process" => inflight = {}

FoundTrue == \A g \in found : TrueGap(input.base + g.nadd, g.len)

GapInv == Batched /\ FlushInv /\ i \in Nat \ {0} /\ FoundTrue

\* The results of a window never miss a prime.
LEMMA PassedSound ==
  ASSUME GapInv, LimbTestExact, pc = "process", i <= Len(pend)
  PROVE  Sound(input.base + pend[i].start, pend[i].cand, Passed(i))
<1>1. i \in 1 .. Len(pend)
  BY DEF GapInv, Batched
<1>2. PICK from : from = input.base + pend[i].start
  OBVIOUS
<1>3. CASE gpu_ok
  <2>1. Passed(i) = { x \in pend[i].cand : verdicts[Place(<<i, x>>)] }
    BY <1>3 DEF Passed
  <2>2. ASSUME NEW x \in pend[i].cand, from + x \in Prime PROVE x \in Passed(i)
    <3>1. <<i, x>> \in Members(pend)
      BY <1>1, MembersAre DEF GapInv
    <3>2. Place(<<i, x>>) \in 1 .. Total(pend) /\ Total(pend) \in Nat
      BY <3>1, Places DEF GapInv
    <3>3. off \in Nat /\ off >= Total(pend) /\ inflight = {}
      BY <1>3 DEF GapInv, FlushInv, FlushTypes
    <3>4. Place(<<i, x>>) <= off
      BY <3>2, <3>3
    <3>5. NumberOf(<<i, x>>) \in Prime
      BY <1>2, <2>2 DEF NumberOf
    <3>6. verdicts[Place(<<i, x>>)] \/ Waiting(<<i, x>>)
      BY <1>3, <3>1, <3>4, <3>5 DEF GapInv, FlushInv
    <3>7. ~Waiting(<<i, x>>)
      BY <3>3 DEF Waiting
    <3> QED
      BY <2>1, <3>6, <3>7
  <2> QED
    BY <1>2, <2>1, <2>2 DEF Sound
<1>4. CASE ~gpu_ok /\ ~input.cpu.limbs
  <2>1. Passed(i) = { x \in pend[i].cand : Test(from + x) }
    BY <1>2, <1>4 DEF Passed, CpuPassed
  <2> QED
    BY <1>2, <2>1 DEF Sound, Test
<1>5. CASE ~gpu_ok /\ input.cpu.limbs
  <2>1. PICK passed : passed = Passed(i)
    OBVIOUS
  <2>2. passed = { x \in pend[i].cand : CpuAnswer(from + x) }
    BY <1>2, <1>5, <2>1 DEF LimbTestExact
  <2>3. ASSUME NEW x \in pend[i].cand, from + x \in Prime PROVE x \in passed
    <3>1. (from + x) % 2 = 1
      BY <1>1, <1>2 DEF GapInv, Batched, GoodWindow, Visible
    <3>2. CpuAnswer(from + x)
      BY <2>3, <3>1, EulerCriterion DEF Test, CpuAnswer
    <3> QED
      BY <2>2, <3>2
  <2> QED
    BY <1>2, <2>1, <2>2, <2>3 DEF Sound
<1> QED
  BY <1>3, <1>4, <1>5

LEMMA FoundStep ==
  ASSUME GapInv, LimbTestExact, SieveInv, ProcessWindow
  PROVE  FoundTrue'
<1>1. /\ pc = "process" /\ i <= Len(pend) /\ input' = input
      /\ found' = found \cup
           { g \in Reported(pend[i], Tested(pend[i].cand, Passed(i)),
                            Passed(i) \cap Tested(pend[i].cand, Passed(i))) : Verified(g) }
  BY DEF ProcessWindow
<1>2. PICK passed : passed = Passed(i)
  OBVIOUS
<1>3. PICK tested : tested = Tested(pend[i].cand, passed)
  OBVIOUS
<1>4. i \in 1 .. Len(pend) /\ input \in Inputs /\ RangeLen \in Nat
  BY <1>1, WindowAssumption DEF GapInv, Batched, SieveInv, Located
<1>5. PICK start \in Nat, n \in 0 .. RangeLen :
        /\ start % 2 = 0 /\ pend[i].start = start
        /\ pend[i].cand = Visible(input.base + start, n)
  BY <1>4 DEF GapInv, Batched, GoodWindow
<1>6. Sound(input.base + start, pend[i].cand, passed)
  BY <1>1, <1>2, <1>5, PassedSound
<1>7. ASSUME NEW g \in Reported(pend[i], tested, passed \cap tested), Verified(g)
      PROVE  TrueGap(input.base + g.nadd, g.len)
  <2>1. n \in Nat
    BY <1>4
  <2> QED
    BY <1>3, <1>4, <1>5, <1>6, <1>7, <2>1, ReportedTrue
<1>8. \A g \in found : TrueGap(input.base + g.nadd, g.len)
  BY DEF GapInv, FoundTrue
<1>9. \A g \in found' : TrueGap(input.base + g.nadd, g.len)
  BY <1>1, <1>2, <1>3, <1>7, <1>8
<1> QED
  BY <1>1, <1>9 DEF FoundTrue

\* The steps that leave the batch as it is.
LEMMA BatchKept ==
  ASSUME Batched, UNCHANGED <<input, pend>>
  PROVE  /\ Batched' /\ Total(pend)' = Total(pend) /\ Members(pend)' = Members(pend)
         /\ \A e : Place(e)' = Place(e) /\ NumberOf(e)' = NumberOf(e)
         /\ \A y : Packed(y)' = Packed(y)
<1>1. \A win : GoodWindow(win)' <=> GoodWindow(win)
  BY DEF GoodWindow, Visible
<1>2. Batched'
  BY <1>1 DEF Batched
<1>3. Total(pend)' = Total(pend) /\ Members(pend)' = Members(pend)
  BY DEF Total, Members
<1>4. \A e : Place(e)' = Place(e) /\ NumberOf(e)' = NumberOf(e)
  BY DEF Place, NumberOf, Members
<1>5. \A y : Packed(y)' = Packed(y)
  BY <1>3, <1>4 DEF Packed
<1> QED
  BY <1>2, <1>3, <1>4, <1>5

\* A window is dispatched with what the sieve left of it.
LEMMA Dispatched ==
  ASSUME Located, cand = Filtered(Survivors)
  PROVE  /\ [start |-> Start, cand |-> cand] \in [start : Nat, cand : SUBSET Nat]
         /\ GoodWindow([start |-> Start, cand |-> cand])
<1>1. PICK start \in Nat, n \in 0 .. RangeLen : start = Start /\ start % 2 = 0 /\ n = ScanSize
  BY WindowPlace
<1>2. cand = Visible(input.base + start, n)
  BY <1>1, FilteredAre DEF Visible
<1>3. cand \subseteq Nat
  BY <1>2 DEF Visible
<1> QED
  BY <1>1, <1>2, <1>3 DEF GoodWindow

LEMMA BatchedStep ==
  ASSUME Batched, SieveInv, [Next]_vars
  PROVE  Batched'
<1>1. Located /\ (pc = "dispatch" => cand = Filtered(Survivors))
  BY DEF SieveInv, Holding
<1>2. CASE UNCHANGED <<input, pend>>
  BY <1>2, BatchKept
<1> DEFINE new == [start |-> Start, cand |-> cand]
<1>3. ASSUME input' = input PROVE \A win : GoodWindow(win)' <=> GoodWindow(win)
  BY <1>3 DEF GoodWindow, Visible
<1>4. CASE DispatchCpu
  <2>1. pc = "dispatch" /\ pend' = <<new>> /\ input' = input
    BY <1>4 DEF DispatchCpu
  <2>2. new \in [start : Nat, cand : SUBSET Nat] /\ GoodWindow(new)
    BY <1>1, <2>1, Dispatched
  <2> HIDE DEF new
  <2> QED
    BY <1>3, <2>1, <2>2 DEF Batched
<1>5. CASE DispatchGpu
  <2>1. pc = "dispatch" /\ pend' = Append(pend, new) /\ input' = input
    BY <1>5 DEF DispatchGpu
  <2>2. new \in [start : Nat, cand : SUBSET Nat] /\ GoodWindow(new)
    BY <1>1, <2>1, Dispatched
  <2> HIDE DEF new
  <2>3. /\ pend \in Seq([start : Nat, cand : SUBSET Nat])
        /\ \A k \in 1 .. Len(pend) : GoodWindow(pend[k])
    BY DEF Batched
  <2>4. /\ pend' \in Seq([start : Nat, cand : SUBSET Nat]) /\ Len(pend') = Len(pend) + 1
        /\ \A k \in 1 .. Len(pend) : pend'[k] = pend[k]
        /\ pend'[Len(pend) + 1] = new
    BY <2>1, <2>2, <2>3
  <2>5. \A k \in 1 .. Len(pend') : GoodWindow(pend'[k])
    <3>1. TAKE k \in 1 .. Len(pend')
    <3>2. k \in 1 .. Len(pend) \/ k = Len(pend) + 1
      BY <2>3, <2>4
    <3> QED
      BY <2>2, <2>3, <2>4, <3>2
  <2> QED
    BY <1>3, <2>1, <2>4, <2>5 DEF Batched
<1>6. CASE BatchDone
  <2>1. pend' = <<>>
    BY <1>6 DEF BatchDone
  <2> QED
    BY <2>1 DEF Batched
<1>7. CASE \/ BeginWindow \/ Sieve \/ Probe \/ SkipWindow \/ DispatchFull \/ EndOfRange
           \/ Stage \/ Submit \/ SubmitFails \/ AllSubmitted
           \/ CollectOldest \/ CollectRest \/ BatchTested \/ ProcessWindow
  BY <1>2, <1>7 DEF BeginWindow, Sieve, Probe, SkipWindow, DispatchFull, EndOfRange, Stage,
     Submit, SubmitFails, AllSubmitted, CollectOldest, CollectRest, BatchTested, ProcessWindow
<1>8. CASE UNCHANGED vars
  BY <1>2, <1>8 DEF vars
<1> QED
  BY <1>4, <1>5, <1>6, <1>7, <1>8 DEF Next

\* A result that is copied to the place of its candidate is a prime's own.
LEMMA CollectRight ==
  ASSUME Batched, FlushInv, Asking, gpu_ok, NEW s \in inflight, CollectSlot(s),
         UNCHANGED <<input, pend, off, chunk>>
  PROVE  /\ DOMAIN verdicts' = 1 .. Total(pend)
         /\ \A e \in Members(pend) :
              /\ Place(e) <= off /\ NumberOf(e) \in Prime => verdicts'[Place(e)] \/ Waiting(e)'
              /\ verdicts'[Place(e)] => Test(NumberOf(e))
<1>1. /\ verdicts' = VerdictsWith(s) /\ inflight' = inflight \ {s}
      /\ DOMAIN verdicts = 1 .. Total(pend)
  BY DEF CollectSlot, FlushInv
<1>2. DOMAIN verdicts' = 1 .. Total(pend)
  BY <1>1 DEF VerdictsWith
<1>3. PICK from \in Nat, n \in Nat : from = chunk[s].from /\ n = chunk[s].n
  BY DEF FlushInv, FlushTypes
<1>4. \A y \in 1 .. n : slots[s][y] = Packed(from + y)
  BY <1>3 DEF FlushInv
<1>5. ASSUME NEW e \in Members(pend)
      PROVE  /\ Place(e) <= off /\ NumberOf(e) \in Prime => verdicts'[Place(e)] \/ Waiting(e)'
             /\ verdicts'[Place(e)] => Test(NumberOf(e))
  <2>1. PICK y \in Nat : y = Place(e) /\ y \in DOMAIN verdicts
    BY <1>1, Places
  <2>2. verdicts'[y] <=> IF y > from /\ y <= from + n THEN Test(slots[s][y - from])
                         ELSE verdicts[y]
    BY <1>1, <1>3, <2>1 DEF VerdictsWith
  <2>3. CASE y > from /\ y <= from + n
    <3>1. y - from \in 1 .. n /\ from + (y - from) = y
      BY <2>3
    <3>2. slots[s][y - from] = Packed(y)
      BY <1>4, <3>1
    <3>3. Packed(y) = NumberOf(e)
      BY <2>1, PackedThere
    <3> QED
      BY <1>5, <2>1, <2>2, <2>3, <3>2, <3>3 DEF Test
  <2>4. CASE ~(y > from /\ y <= from + n)
    <3>1. /\ Place(e) <= off /\ NumberOf(e) \in Prime => verdicts[y] \/ Waiting(e)
          /\ verdicts[y] => Test(NumberOf(e))
      BY <1>5, <2>1 DEF FlushInv
    <3>2. Waiting(e) => Waiting(e)'
      <4>1. SUFFICES ASSUME NEW t \in inflight, chunk[t].from < y, y <= chunk[t].from + chunk[t].n
                     PROVE  Waiting(e)'
        BY <2>1 DEF Waiting
      <4>2. t # s
        BY <1>3, <2>4, <4>1
      <4>3. t \in inflight' /\ chunk' = chunk /\ Place(e)' = y
        BY <1>1, <2>1, <4>2, BatchKept
      <4> QED
        BY <4>1, <4>3 DEF Waiting
    <3> QED
      BY <2>1, <2>2, <2>4, <3>1, <3>2
  <2> QED
    BY <2>3, <2>4
<1> QED
  BY <1>2, <1>5

LEMMA FlushStep ==
  ASSUME Batched, FlushInv, SieveInv, [Next]_vars
  PROVE  FlushInv'
<1>1. FlushTypes /\ MaxBatch \in Nat /\ Total(pend) \in Nat
  BY Places, WindowAssumption DEF FlushInv
<1>2. ret \in {"loop", "dispatch"} \/ pc # "process"
  BY DEF SieveInv, Holding, Flushing
<1>3. ASSUME UNCHANGED <<flush, slots>>
      PROVE  /\ FlushTypes' /\ inflight' = inflight /\ next_slot' = next_slot /\ off' = off
             /\ chunk' = chunk /\ gpu_ok' = gpu_ok /\ verdicts' = verdicts /\ slots' = slots
  BY <1>1, <1>3 DEF flush, FlushTypes
<1>4. CASE UNCHANGED <<flush, slots>> /\ ~Asking' /\ pc' # "process"
  BY <1>3, <1>4 DEF FlushInv, Asking
<1>5. CASE UNCHANGED <<input, pend, flush, slots, pc>>
  <2>1. \A e : Waiting(e)' <=> Waiting(e)
    BY <1>3, <1>5, BatchKept DEF Waiting
  <2>2. Asking' <=> Asking
    BY <1>5 DEF Asking
  <2> QED
    BY <1>3, <1>5, <2>1, <2>2, BatchKept DEF FlushInv, Test
<1>6. CASE DispatchCpu
  <2>1. /\ gpu_ok' = FALSE /\ pc' = "process"
        /\ UNCHANGED <<off, next_slot, inflight, chunk, verdicts, slots>>
    BY <1>6 DEF DispatchCpu
  <2> QED
    BY <1>1, <2>1 DEF FlushInv, FlushTypes, Asking
<1>7. CASE Stage
  <2>1. /\ off' = 0 /\ next_slot' = 0 /\ inflight' = {}
        /\ verdicts' = [x \in 1 .. Total(pend) |-> FALSE]
        /\ pc' \in {"submit", "process"} /\ (pc' = "process" => ~gpu_ok')
        /\ UNCHANGED <<input, pend, chunk, slots>>
    BY <1>7 DEF Stage
  <2>2. \A e \in Members(pend)' : ~(Place(e)' <= off')
    BY <1>1, <2>1, BatchKept, Places
  <2>3. DOMAIN verdicts' = 1 .. Total(pend)' /\ \A x \in 1 .. Total(pend) : ~verdicts'[x]
    BY <2>1, BatchKept
  <2>4. \A e \in Members(pend)' : ~verdicts'[Place(e)']
    BY <2>1, <2>3, BatchKept, Places
  <2> QED
    BY <1>1, <2>1, <2>2, <2>3, <2>4 DEF FlushInv, FlushTypes, Asking
<1>8. CASE Submit
  <2>1. PICK size \in Nat, at \in Nat, s \in {0, 1} : size = Piece /\ at = off /\ s = next_slot
    <3>1. off < Total(pend)
      BY <1>8 DEF Submit
    <3>2. Total(pend) - off \in Nat
      BY <1>1, <3>1 DEF FlushTypes
    <3> QED
      BY <1>1, <3>2 DEF Piece, FlushTypes
  <2>2. /\ pc = "submit" /\ s \notin inflight /\ UNCHANGED <<input, pend, gpu_ok, verdicts>>
        /\ slots' = [slots EXCEPT ![s] = [y \in 1 .. size |-> Packed(at + y)]]
        /\ chunk' = [chunk EXCEPT ![s] = [from |-> at, n |-> size]]
        /\ inflight' = inflight \cup {s} /\ off' = at + size /\ next_slot' = 1 - s
        /\ pc' = IF inflight' = {0, 1} THEN "oldest" ELSE "submit"
    BY <1>8, <2>1 DEF Submit, FlushInv
  <2>3. /\ chunk'[s].from = at /\ chunk'[s].n = size
        /\ \A t \in inflight : t \in {0, 1} /\ chunk'[t] = chunk[t] /\ slots'[t] = slots[t]
        /\ \A y \in 1 .. size : slots'[s][y] = Packed(at + y)
    BY <1>1, <2>2 DEF FlushTypes
  <2>4. FlushTypes'
    <3>1. chunk' \in [{0, 1} -> [from : Nat, n : Nat]]
      BY <1>1, <2>2 DEF FlushTypes
    <3>2. slots' = [t \in {0, 1} |-> slots'[t]]
      BY <1>1, <2>2 DEF FlushTypes
    <3>3. off' \in Nat /\ next_slot' \in {0, 1} /\ inflight' \subseteq {0, 1}
      BY <1>1, <2>2 DEF FlushTypes
    <3> QED
      BY <3>1, <3>2, <3>3 DEF FlushTypes
  <2>5. /\ pc' = "submit" => next_slot' \notin inflight'
        /\ pc' = "oldest" => next_slot' \in inflight'
    BY <1>1, <2>2 DEF FlushTypes
  <2>6. ASSUME NEW t \in inflight', NEW y \in 1 .. chunk'[t].n
        PROVE  slots'[t][y] = Packed(chunk'[t].from + y)
    <3>1. CASE t = s
      BY <2>3, <2>6, <3>1
    <3>2. CASE t \in inflight
      BY <2>2, <2>3, <2>6, <3>2 DEF FlushInv, Asking
    <3> QED
      BY <2>2, <3>1, <3>2
  <2>7. ASSUME gpu_ok, NEW e \in Members(pend), Place(e) <= at + size, NumberOf(e) \in Prime
        PROVE  verdicts[Place(e)] \/ Waiting(e)'
    <3>1. Place(e) \in Nat
      BY <1>1, Places
    <3>2. CASE Place(e) <= at
      <4>1. verdicts[Place(e)] \/ Waiting(e)
        BY <2>1, <2>2, <2>7, <3>2 DEF FlushInv, Asking
      <4>2. Waiting(e) => Waiting(e)'
        BY <2>2, <2>3, BatchKept DEF Waiting
      <4> QED
        BY <4>1, <4>2
    <3>3. CASE ~(Place(e) <= at)
      <4>1. at < Place(e) /\ Place(e) <= at + size /\ s \in inflight'
        BY <2>2, <2>7, <3>1, <3>3
      <4> QED
        BY <2>2, <2>3, <4>1, BatchKept DEF Waiting
    <3> QED
      BY <3>2, <3>3
  <2>8. gpu_ok => /\ DOMAIN verdicts = 1 .. Total(pend)
                  /\ \A e \in Members(pend) : verdicts[Place(e)] => Test(NumberOf(e))
    BY <2>2 DEF FlushInv, Asking
  <2>9. /\ \A y : Packed(y)' = Packed(y)
        /\ Total(pend)' = Total(pend) /\ Members(pend)' = Members(pend)
        /\ \A e : Place(e)' = Place(e) /\ NumberOf(e)' = NumberOf(e)
    BY <2>2, BatchKept
  <2>10. gpu_ok' => /\ DOMAIN verdicts' = 1 .. Total(pend)'
                    /\ \A e \in Members(pend)' :
                         /\ Place(e)' <= off' /\ NumberOf(e)' \in Prime
                              => verdicts'[Place(e)'] \/ Waiting(e)'
                         /\ verdicts'[Place(e)'] => Test(NumberOf(e))'
    BY <2>2, <2>7, <2>8, <2>9 DEF Test
  <2>11. pc' \in {"submit", "oldest"}
    BY <2>2
  <2> QED
    BY <2>4, <2>5, <2>6, <2>9, <2>10, <2>11 DEF FlushInv
<1>9. CASE SubmitFails
  <2>1. /\ pc = "submit" /\ gpu_ok' = FALSE /\ pc' = "rest"
        /\ UNCHANGED <<input, pend, off, next_slot, inflight, chunk, verdicts, slots>>
    BY <1>9 DEF SubmitFails
  <2>2. FlushTypes'
    BY <1>1, <2>1 DEF FlushTypes
  <2>3. \A y : Packed(y)' = Packed(y)
    BY <2>1, BatchKept
  <2>4. \A s \in inflight : \A y \in 1 .. chunk[s].n : slots[s][y] = Packed(chunk[s].from + y)
    BY <2>1 DEF FlushInv, Asking
  <2>5. \A s \in inflight' : \A y \in 1 .. chunk'[s].n : slots'[s][y] = Packed(chunk'[s].from + y)
    BY <2>1, <2>4
  <2> QED
    BY <2>1, <2>2, <2>3, <2>5 DEF FlushInv
<1>10. CASE AllSubmitted \/ BatchTested
  <2>1. /\ Asking /\ (Asking \/ pc = "process")' /\ pc' \in {"rest", "process"}
        /\ UNCHANGED <<input, pend, flush, slots>>
        /\ pc = "submit" => off = Total(pend)
        /\ pc' = "process" => inflight = {}
        /\ pc \in {"submit", "rest"}
    BY <1>10 DEF AllSubmitted, BatchTested, Asking
  <2>2. \A e : Waiting(e)' <=> Waiting(e)
    BY <1>3, <2>1, BatchKept DEF Waiting
  <2>3. gpu_ok => off >= Total(pend)
    BY <1>1, <2>1 DEF FlushInv, FlushTypes
  <2>4. /\ \A s \in inflight : \A y \in 1 .. chunk[s].n : slots[s][y] = Packed(chunk[s].from + y)
        /\ gpu_ok =>
             /\ DOMAIN verdicts = 1 .. Total(pend)
             /\ \A e \in Members(pend) :
                  /\ Place(e) <= off /\ NumberOf(e) \in Prime => verdicts[Place(e)] \/ Waiting(e)
                  /\ verdicts[Place(e)] => Test(NumberOf(e))
    BY <2>1 DEF FlushInv
  <2> QED
    BY <1>3, <2>1, <2>2, <2>3, <2>4, BatchKept DEF FlushInv, Asking, Test
<1>11. ASSUME NEW s \in inflight, CollectSlot(s), Asking, Asking', pc' # "oldest",
              UNCHANGED <<input, pend, off, next_slot, chunk, gpu_ok>>,
              pc' = "submit" => s = next_slot, pc' = "rest" => pc = "rest"
       PROVE  FlushInv'
  <2>1. /\ slots' = [slots EXCEPT ![s] = <<>>] /\ inflight' = inflight \ {s}
    BY <1>11 DEF CollectSlot
  <2>2. FlushTypes'
    <3>1. slots' = [t \in {0, 1} |-> slots'[t]]
      BY <1>1, <2>1 DEF FlushTypes
    <3> QED
      BY <1>1, <1>11, <2>1, <3>1 DEF FlushTypes
  <2>3. \A t \in inflight' : t \in inflight /\ slots'[t] = slots[t] /\ chunk'[t] = chunk[t]
    BY <1>1, <1>11, <2>1 DEF FlushTypes
  <2>4. \A t \in inflight' : \A y \in 1 .. chunk'[t].n :
          slots'[t][y] = Packed(chunk'[t].from + y)
    BY <1>11, <2>3 DEF FlushInv
  <2>5. gpu_ok => /\ DOMAIN verdicts' = 1 .. Total(pend)
                  /\ \A e \in Members(pend) :
                       /\ Place(e) <= off /\ NumberOf(e) \in Prime
                            => verdicts'[Place(e)] \/ Waiting(e)'
                       /\ verdicts'[Place(e)] => Test(NumberOf(e))
    BY <1>11, CollectRight
  <2>6. gpu_ok' /\ pc' = "rest" => off' >= Total(pend)'
    BY <1>11, BatchKept DEF FlushInv
  <2>7. pc' = "submit" => next_slot' \notin inflight'
    BY <1>11, <2>1
  <2>8. pc' # "process"
    BY <1>11 DEF Asking
  <2> QED
    BY <1>11, <2>2, <2>4, <2>5, <2>6, <2>7, <2>8, BatchKept DEF FlushInv, Test
<1>12. CASE CollectOldest
  <2>1. CASE CollectSlot(next_slot) /\ pc' = "submit" /\ UNCHANGED <<gpu_ok, faults>>
    <3>1. /\ pc = "oldest" /\ next_slot \in inflight
          /\ UNCHANGED <<input, pend, off, next_slot, chunk>>
      BY <1>12 DEF CollectOldest, FlushInv
    <3> QED
      BY <1>11, <2>1, <3>1 DEF Asking
  <2>2. CASE gpu_ok' = FALSE /\ pc' = "rest" /\ UNCHANGED <<verdicts, slots, inflight>>
    <3>1. pc = "oldest" /\ UNCHANGED <<input, pend, off, next_slot, chunk>>
      BY <1>12 DEF CollectOldest
    <3> QED
      BY <1>1, <2>2, <3>1, BatchKept DEF FlushInv, FlushTypes, Asking
  <2> QED
    BY <1>12, <2>1, <2>2 DEF CollectOldest
<1>13. CASE CollectRest
  <2>1. pc = "rest" /\ pc' = "rest" /\ inflight # {}
        /\ UNCHANGED <<input, pend, off, next_slot, chunk>>
    BY <1>13 DEF CollectRest
  <2>2. PICK s \in inflight : s = Least(inflight)
    <3>1. inflight \subseteq Nat
      BY <1>1 DEF FlushTypes
    <3> QED
      BY <2>1, <3>1, LeastIs
  <2>3. CASE CollectSlot(s) /\ UNCHANGED <<gpu_ok, faults>>
    BY <1>11, <2>1, <2>3 DEF Asking
  <2>4. CASE gpu_ok' = FALSE /\ inflight' = inflight \ {s} /\ UNCHANGED <<verdicts, slots>>
    <3>1. FlushTypes'
      BY <1>1, <2>1, <2>4 DEF FlushTypes
    <3>2. \A y : Packed(y)' = Packed(y)
      BY <2>1, BatchKept
    <3>3. \A t \in inflight' : \A y \in 1 .. chunk'[t].n :
            slots'[t][y] = Packed(chunk'[t].from + y)
      BY <2>1, <2>4 DEF FlushInv, Asking
    <3> QED
      BY <2>1, <2>4, <3>1, <3>2, <3>3 DEF FlushInv
  <2> QED
    BY <1>13, <2>2, <2>3, <2>4 DEF CollectRest
<1>14. CASE \/ BeginWindow \/ Sieve \/ Probe \/ SkipWindow \/ DispatchGpu \/ DispatchFull
            \/ EndOfRange \/ BatchDone
  <2>1. UNCHANGED <<flush, slots>>
    BY <1>14 DEF BeginWindow, Sieve, Probe, SkipWindow, DispatchGpu, DispatchFull, EndOfRange,
       BatchDone
  <2>2. pc' \in {"loop", "sieve", "probe", "dispatch", "stage", "done"}
    BY <1>2, <1>14 DEF BeginWindow, Sieve, Probe, SkipWindow, DispatchGpu, DispatchFull,
       EndOfRange, BatchDone
  <2> QED
    BY <1>4, <2>1, <2>2 DEF Asking
<1>15. CASE ProcessWindow
  BY <1>5, <1>15 DEF ProcessWindow
<1>16. CASE UNCHANGED vars
  BY <1>5, <1>16 DEF vars
<1> QED
  BY <1>6, <1>7, <1>8, <1>9, <1>10, <1>12, <1>13, <1>14, <1>15, <1>16 DEF Next

LEMMA GapInit == Init => GapInv
<1> SUFFICES ASSUME Init PROVE GapInv
  OBVIOUS
<1>1. /\ pend = <<>> /\ off = 0 /\ next_slot = 0 /\ inflight = {} /\ gpu_ok = FALSE
      /\ chunk = [s \in {0, 1} |-> [from |-> 0, n |-> 0]]
      /\ slots = [s \in {0, 1} |-> <<>>] /\ i = 1 /\ found = {} /\ pc = "loop"
  BY DEF Init
<1>2. Batched
  BY <1>1 DEF Batched
<1>3. FlushInv
  BY <1>1 DEF FlushInv, FlushTypes, Asking
<1> QED
  BY <1>1, <1>2, <1>3 DEF GapInv, FoundTrue

LEMMA GapStep == SieveInv /\ GapInv /\ LimbTestExact /\ [Next]_vars => GapInv'
<1> SUFFICES ASSUME SieveInv, GapInv, LimbTestExact, [Next]_vars PROVE GapInv'
  OBVIOUS
<1>1. Batched /\ FlushInv /\ i \in Nat \ {0} /\ FoundTrue
  BY DEF GapInv
<1>2. Batched' /\ FlushInv'
  BY <1>1, BatchedStep, FlushStep
<1>3. i' \in Nat \ {0}
  <2>1. i' \in {i, i + 1, 1}
    BY DEF Next, vars, BeginWindow, Sieve, Probe, SkipWindow, DispatchCpu, DispatchGpu,
       DispatchFull, EndOfRange, Stage, Submit, SubmitFails, AllSubmitted, CollectOldest,
       CollectRest, BatchTested, ProcessWindow, BatchDone
  <2> QED
    BY <1>1, <2>1
<1>4. FoundTrue'
  <2>1. CASE ProcessWindow
    BY <2>1, FoundStep
  <2>2. CASE ~ProcessWindow
    <3>1. UNCHANGED <<input, found>>
      BY <2>2 DEF Next, vars, BeginWindow, Sieve, Probe, SkipWindow, DispatchCpu, DispatchGpu,
         DispatchFull, EndOfRange, Stage, Submit, SubmitFails, AllSubmitted, CollectOldest,
         CollectRest, BatchTested, BatchDone
    <3> QED
      BY <1>1, <3>1 DEF FoundTrue
  <2> QED
    BY <2>1, <2>2
<1> QED
  BY <1>2, <1>3, <1>4 DEF GapInv

-----------------------------------------------------------------------------
(* The CPU's test on limbs                                                  *)

\* A power of two modulo n is one of half the exponent, squared, or twice that.
LEMMA HalfPower ==
  ASSUME NEW n \in Nat, n > 1, NEW k \in Nat, k # 0, NEW h, h = 2^(k \div 2) % n
  PROVE  2^k % n = IF k % 2 = 0 THEN (h * h) % n ELSE (2 * ((h * h) % n)) % n
<1>1. PICK j \in Nat, r \in {0, 1} : j = k \div 2 /\ r = k % 2 /\ k = (j + j) + r
  OBVIOUS
<1>2. PICK a \in Nat : a = 2^j
  BY PowerType
<1>3. PICK b \in Nat : b = a * a
  OBVIOUS
<1>4. 2^(j + j) = b
  BY <1>2, <1>3, PowerSum
<1>5. PICK g \in Nat : g = b % n
  BY Rest
<1>6. (h * h) % n = g
  <2>1. h = a % n
    BY <1>1, <1>2
  <2>2. RestsMultiply(a, a, n)
    BY RestTimes
  <2> QED
    BY <1>3, <1>5, <2>1, <2>2 DEF RestsMultiply
<1>7. CASE r = 0
  BY <1>1, <1>4, <1>5, <1>6, <1>7
<1>8. CASE r = 1
  <2>1. PICK m \in Nat : m = j + j /\ k = m + 1
    BY <1>1, <1>8
  <2>2. 2^k = 2 * b
    BY <1>4, <2>1, PowerNext
  <2>3. g % n = b % n
    <3>1. g < n
      BY <1>5, Rest
    <3>2. g = n * 0 + g
      BY <1>5
    <3>3. g % n = g
      BY <3>1, <3>2, DivisionIs
    <3> QED
      BY <1>5, <3>3
  <2>4. PICK two \in Nat : two = 2
    OBVIOUS
  <2>5. RestsMultiply(two, g, n) /\ RestsMultiply(two, b, n)
    BY RestTimes
  <2>6. (two * g) % n = (two * b) % n
    BY <2>3, <2>5 DEF RestsMultiply
  <2>7. k % 2 # 0
    BY <1>1, <1>8
  <2> QED
    BY <1>6, <2>2, <2>4, <2>6, <2>7
<1> QED
  BY <1>1, <1>7, <1>8

\* PowerOf2Mod is what its name says.
LEMMA PowerOf2ModExact ==
  ASSUME NEW n \in Nat, n > 1, NEW e \in Nat
  PROVE  PowerOf2Mod(n, e) = 2^e % n
<1> DEFINE Is(p) == p = [k \in Nat |->
                          IF k = 0 THEN 1
                          ELSE LET h == p[k \div 2]
                               IN  IF k % 2 = 0 THEN (h * h) % n ELSE (2 * ((h * h) % n)) % n]
           f == [k \in Nat |-> 2^k % n]
           g == CHOOSE p : Is(p)
           Bad == { k \in Nat : g[k] # f[k] }
<1>1. Is(f)
  <2>1. ASSUME NEW k \in Nat
        PROVE  2^k % n = IF k = 0 THEN 1
                         ELSE LET h == f[k \div 2]
                              IN  IF k % 2 = 0 THEN (h * h) % n ELSE (2 * ((h * h) % n)) % n
    <3>1. CASE k = 0
      <4>1. 1 = n * 0 + 1
        OBVIOUS
      <4>2. 1 % n = 1
        BY <4>1, DivisionIs
      <4> QED
        BY <3>1, <4>2, PowerZero
    <3>2. CASE k # 0
      <4>1. k \div 2 \in Nat
        OBVIOUS
      <4>2. PICK h : h = f[k \div 2] /\ h = 2^(k \div 2) % n
        BY <4>1
      <4>3. 2^k % n = IF k % 2 = 0 THEN (h * h) % n ELSE (2 * ((h * h) % n)) % n
        BY <3>2, <4>2, HalfPower
      <4> HIDE DEF f
      <4> QED
        BY <3>2, <4>2, <4>3
    <3> QED
      BY <3>1, <3>2
  <2> QED
    BY <2>1
<1>2. Is(g)
  <2> HIDE DEF Is
  <2> QED
    BY <1>1
<1>3. Bad = {}
  <2>1. SUFFICES ASSUME Bad # {} PROVE FALSE
    OBVIOUS
  <2>2. PICK m \in Bad : \A k \in Bad : m <= k
    <3>1. Bad \subseteq Nat
      OBVIOUS
    <3> HIDE DEF Bad
    <3> QED
      BY <2>1, <3>1, SmallestIn
  <2>3. m \in Nat /\ g[m] # f[m]
    OBVIOUS
  <2>4. g[m] = IF m = 0 THEN 1
               ELSE LET h == g[m \div 2]
                    IN  IF m % 2 = 0 THEN (h * h) % n ELSE (2 * ((h * h) % n)) % n
    <3> HIDE DEF g
    <3> QED
      BY <1>2, <2>3
  <2>5. f[m] = IF m = 0 THEN 1
               ELSE LET h == f[m \div 2]
                    IN  IF m % 2 = 0 THEN (h * h) % n ELSE (2 * ((h * h) % n)) % n
    <3> HIDE DEF f
    <3> QED
      BY <1>1, <2>3
  <2>6. m # 0
    <3> HIDE DEF f, g
    <3> QED
      BY <2>3, <2>4, <2>5
  <2>7. PICK q \in Nat : q = m \div 2 /\ q < m
    BY <2>3, <2>6
  <2>8. g[q] = f[q]
    BY <2>2, <2>3, <2>7
  <2> HIDE DEF f, g
  <2> QED
    BY <2>3, <2>4, <2>5, <2>7, <2>8
<1>4. g[e] = f[e]
  <2> HIDE DEF f, g
  <2> QED
    BY <1>3
<1>5. PowerOf2Mod(n, e) = g[e]
  BY DEF PowerOf2Mod
<1> HIDE DEF g
<1> QED
  BY <1>4, <1>5

\* What the tests say, as it is computed for reference.
LEMMA Base2Tests ==
  ASSUME NEW n \in Nat, n > 1
  PROVE  (EulerBase2(n) <=> EulerSays(n)) /\ (FermatBase2(n) <=> FermatSays(n))
<1>1. PICK e \in Nat : e = n - 1
  OBVIOUS
<1>2. PICK h \in Nat : h = (n - 1) \div 2
  OBVIOUS
<1>3. PowerOf2Mod(n, e) = 2^e % n /\ PowerOf2Mod(n, h) = 2^h % n
  BY PowerOf2ModExact
<1> QED
  BY <1>1, <1>2, <1>3 DEF EulerBase2, EulerSays, FermatBase2, FermatSays

\* The tests decide an odd number that fits.
LEMMA OddDecided ==
  ASSUME input \in Inputs, NEW n \in Nat, n > 1, n % 2 = 1, Fits(n)
  PROVE  DecidedOnLimbs(n)
<1>1. PICK width \in 1 .. FERMAT_WIN_MAX : width = input.cpu.width
  BY InputAssumption DEF FERMAT_WIN_MIN, FERMAT_WIN_MAX
<1>2. PICK adx : adx = input.cpu.adx
  OBVIOUS
<1>3. /\ FermatTest(Export(n), EffectiveNl(Export(n)), width, adx) <=> FermatSays(n)
      /\ EulerTest(Export(n), EffectiveNl(Export(n)), width, adx) <=> EulerSays(n)
  BY LimbTestsExact
<1> QED
  BY <1>1, <1>2, <1>3, Base2Tests DEF DecidedOnLimbs

\* A set that is enumerated in ascending order is enumerated: each place has an element.
LEMMA AscendingAre ==
  ASSUME NEW S, S \subseteq Nat, IsFiniteSet(S)
  PROVE  /\ Cardinality(S) \in Nat
         /\ \A j \in 1 .. Cardinality(S) : Ascending(S)[j] \in S
         /\ \A x \in S : \E j \in 1 .. Cardinality(S) : Ascending(S)[j] = x
<1> DEFINE NotAbove(e) == { y \in S : y <= e }
           place == [e \in S |-> Cardinality(NotAbove(e))]
           N == Cardinality(S)
<1>1. N \in Nat
  BY FS_CardinalityType
<1>2. ASSUME NEW e \in S PROVE IsFiniteSet(NotAbove(e)) /\ Cardinality(NotAbove(e)) \in 1 .. N
  <2>1. NotAbove(e) \subseteq S /\ e \in NotAbove(e)
    OBVIOUS
  <2> HIDE DEF NotAbove
  <2>2. IsFiniteSet(NotAbove(e)) /\ Cardinality(NotAbove(e)) \in Nat /\ Cardinality(NotAbove(e)) <= N
    BY <2>1, FS_Subset, FS_CardinalityType
  <2>3. Cardinality(NotAbove(e)) # 0
    BY <2>1, <2>2, FS_EmptySet
  <2> QED
    BY <1>1, <2>2, <2>3
<1>3. ASSUME NEW d \in S, NEW e \in S, d < e PROVE Cardinality(NotAbove(d)) # Cardinality(NotAbove(e))
  <2>a. d \in Nat /\ e \in Nat /\ ~(e <= d)
    BY <1>3
  <2>b. ASSUME NEW y \in S, y <= d PROVE y <= e
    <3>1. y \in Nat
      OBVIOUS
    <3> QED
      BY <1>3, <2>a, <2>b, <3>1
  <2>0. \A y \in S : y <= d => y <= e
    <3> HIDE DEF NotAbove, place, N
    <3> QED
      BY <2>b
  <2>c. NotAbove(d) \subseteq NotAbove(e)
    BY <2>0
  <2>d. e \in NotAbove(e)
    BY <2>a
  <2>e. e \notin NotAbove(d)
    BY <2>a
  <2>1. NotAbove(d) \subseteq NotAbove(e) /\ e \in NotAbove(e) /\ e \notin NotAbove(d)
    <3> HIDE DEF NotAbove
    <3> QED
      BY <2>c, <2>d, <2>e
  <2>2. NotAbove(d) # NotAbove(e)
    BY <2>1
  <2>3. IsFiniteSet(NotAbove(e)) /\ IsFiniteSet(NotAbove(d))
    BY <1>2
  <2> HIDE DEF NotAbove
  <2> QED
    BY <2>1, <2>2, <2>3, FS_Subset
<1>4. \A d, e \in S : Cardinality(NotAbove(d)) = Cardinality(NotAbove(e)) => d = e
  <2>1. SUFFICES ASSUME NEW d \in S, NEW e \in S, Cardinality(NotAbove(d)) = Cardinality(NotAbove(e)), d # e
                 PROVE  FALSE
    OBVIOUS
  <2>2. d < e \/ e < d
    BY <2>1
  <2> HIDE DEF NotAbove
  <2> QED
    BY <1>3, <2>1, <2>2
<1>5. place \in Injection(S, 1 .. N)
  <2>1. place \in [S -> 1 .. N]
    <3> HIDE DEF NotAbove, N
    <3> QED
      BY <1>2
  <2>2. \A d, e \in S : place[d] = place[e] => d = e
    <3> HIDE DEF NotAbove
    <3> QED
      BY <1>4
  <2> HIDE DEF place, N
  <2> QED
    BY <2>1, <2>2, Fun_IsInj
<1>6. place \in Surjection(S, 1 .. N)
  <2>1. IsFiniteSet(1 .. N) /\ Cardinality(1 .. N) = N
    BY <1>1, FS_Interval
  <2> HIDE DEF place
  <2> QED
    BY <1>5, <2>1, FS_Injection
<1>7. ASSUME NEW j \in 1 .. N, NEW e \in S, Cardinality(NotAbove(e)) = j PROVE Ascending(S)[j] = e
  <2>1. Ascending(S)[j] = CHOOSE x \in S : Cardinality(NotAbove(x)) = j
    BY DEF Ascending
  <2> HIDE DEF NotAbove
  <2>2. PICK x \in S : x = (CHOOSE y \in S : Cardinality(NotAbove(y)) = j) /\ Cardinality(NotAbove(x)) = j
    BY <1>7
  <2> QED
    BY <1>4, <1>7, <2>1, <2>2
<1>8. ASSUME NEW j \in 1 .. N PROVE \E e \in S : Ascending(S)[j] = e
  <2>1. PICK e \in S : place[e] = j
    <3> HIDE DEF place, N
    <3> QED
      BY <1>6 DEF Surjection
  <2>2. Cardinality(NotAbove(e)) = j
    BY <2>1
  <2> HIDE DEF NotAbove
  <2> QED
    BY <1>7, <2>2
<1> HIDE DEF NotAbove, place
<1> QED
  BY <1>1, <1>2, <1>7, <1>8

\* What the cache holds for the candidate from + x.
Caches == [valid : BOOLEAN, limbs : Limbs(MaxLimbs), last : Nat]
Cached(c, from, x) ==
  /\ c.last = x /\ (c.valid <=> Fits(from + x))
  /\ c.valid => c.limbs = Export(from + x)

\* A valid cache holds the limbs of the candidate that it was filled for.
LEMMA CacheForExact ==
  ASSUME NEW from \in Nat, NEW x \in Nat, NEW c \in Caches,
         c.valid => Cached(c, from, c.last)
  PROVE  CacheFor(c, from, x) \in Caches /\ Cached(CacheFor(c, from, x), from, x)
<1>1. PICK y \in Nat : y = from + x
  OBVIOUS
<1>2. Export(y) \in Limbs(MaxLimbs) /\ Fits(y) \in BOOLEAN
  BY <1>1, ExportType DEF Fits
<1>3. PICK fresh : fresh = [valid |-> Fits(y), limbs |-> Export(y), last |-> x]
  OBVIOUS
<1>4. fresh \in Caches /\ Cached(fresh, from, x)
  <2>1. fresh.last = x /\ fresh.valid = Fits(y) /\ fresh.limbs = Export(y)
    BY <1>3
  <2>2. fresh \in Caches
    BY <1>2, <1>3 DEF Caches
  <2> QED
    BY <1>1, <2>1, <2>2 DEF Cached
<1> DEFINE sum == AddU64(c.limbs, x - c.last)
<1>5. CASE ~(c.valid /\ c.last <= x /\ sum.carry = 0)
  <2>1. CacheFor(c, from, x) = fresh
    BY <1>1, <1>3, <1>5 DEF CacheFor
  <2> QED
    BY <1>4, <2>1
<1>6. CASE c.valid /\ c.last <= x /\ sum.carry = 0
  <2>1. c.last \in Nat /\ Fits(from + c.last) /\ c.limbs = Export(from + c.last)
    BY <1>6 DEF Caches, Cached
  <2>2. PICK z \in Nat : z = from + c.last
    BY <2>1
  <2>3. PICK d \in Nat : d = x - c.last /\ z + d = y
    BY <1>1, <1>6, <2>1, <2>2
  <2>4. /\ AddU64(Export(z), d).carry = 0 <=> Fits(z + d)
        /\ Fits(z + d) => AddU64(Export(z), d).a = Export(z + d)
    BY <2>1, <2>2, Advanced
  <2>5. sum = AddU64(Export(z), d)
    BY <2>1, <2>2, <2>3
  <2> HIDE DEF sum
  <2>6. Fits(y) /\ sum.a = Export(y)
    BY <1>6, <2>3, <2>4, <2>5
  <2>7. CacheFor(c, from, x) = [valid |-> TRUE, limbs |-> Export(y), last |-> x]
    BY <1>6, <2>6 DEF CacheFor, sum
  <2>8. CacheFor(c, from, x) = fresh
    BY <1>3, <2>6, <2>7
  <2> QED
    BY <1>4, <2>8
<1> QED
  BY <1>5, <1>6

\* The caches of the first k candidates.
CacheStates(from, S) ==
  [k \in 0 .. Cardinality(S) |->
     { s \in Seq(Caches) : /\ Len(s) = k
                           /\ \A j \in 1 .. k : Cached(s[j], from, Ascending(S)[j]) }]

\* The cache of one more candidate.
LEMMA CacheNext ==
  ASSUME NEW from \in Nat, NEW S, S \subseteq Nat, IsFiniteSet(S),
         NEW k \in 0 .. Cardinality(S) - 1, NEW s \in CacheStates(from, S)[k]
  PROVE  Append(s, CacheFor(IF s = <<>> THEN CacheReset ELSE s[Len(s)], from, Ascending(S)[k + 1]))
           \in CacheStates(from, S)[k + 1]
<1> DEFINE N == Cardinality(S)
<1>1. N \in Nat /\ k \in Nat /\ k \in 0 .. N /\ k + 1 \in 0 .. N /\ k + 1 \in 1 .. N
  <2>1. N \in Nat
    BY AscendingAre
  <2>2. k \in 0 .. N - 1
    OBVIOUS
  <2> HIDE DEF N
  <2> QED
    BY <2>1, <2>2
<1>2. PICK x \in Nat : x = Ascending(S)[k + 1]
  <2>1. Ascending(S)[k + 1] \in S
    BY <1>1, AscendingAre
  <2> QED
    BY <2>1
<1>3. /\ s \in Seq(Caches) /\ Len(s) = k
      /\ \A j \in 1 .. k : Cached(s[j], from, Ascending(S)[j])
  BY <1>1 DEF CacheStates
<1>4. PICK c : c = IF s = <<>> THEN CacheReset ELSE s[Len(s)]
  OBVIOUS
<1>5. c \in Caches /\ (c.valid => Cached(c, from, c.last))
  <2>1. CASE s = <<>>
    <3>1. Export(0) \in Limbs(MaxLimbs)
      BY ExportType
    <3>2. CacheReset \in Caches /\ CacheReset.valid = FALSE
      BY <3>1 DEF CacheReset, Caches
    <3> QED
      BY <1>4, <2>1, <3>2
  <2>2. CASE s # <<>>
    <3>1. k \in 1 .. k /\ k # 0
      BY <1>1, <1>3, <2>2
    <3>2. c = s[k]
      BY <1>3, <1>4, <2>2
    <3>3. c \in Caches
      BY <1>3, <3>1, <3>2, SeqAt
    <3>4. Cached(c, from, Ascending(S)[k])
      BY <1>3, <3>1, <3>2
    <3>5. c.last = Ascending(S)[k]
      BY <3>4 DEF Cached
    <3> QED
      BY <3>3, <3>4, <3>5
  <2> QED
    BY <2>1, <2>2
<1>6. PICK e : e = CacheFor(c, from, x)
  OBVIOUS
<1>7. e \in Caches /\ Cached(e, from, x)
  BY <1>2, <1>5, <1>6, CacheForExact
<1>8. PICK t : t = Append(s, e)
  OBVIOUS
<1>9. /\ t \in Seq(Caches) /\ Len(t) = k + 1 /\ t[k + 1] = e
      /\ \A j \in 1 .. k : t[j] = s[j]
  BY <1>1, <1>3, <1>7, <1>8
<1>10. \A j \in 1 .. k + 1 : Cached(t[j], from, Ascending(S)[j])
  <2>1. TAKE j \in 1 .. k + 1
  <2>2. CASE j = k + 1
    BY <1>2, <1>7, <1>9, <2>2
  <2>3. CASE j # k + 1
    <3>1. j \in 1 .. k
      BY <1>1, <2>3
    <3> QED
      BY <1>3, <1>9, <3>1
  <2> QED
    BY <2>2, <2>3
<1>11. t \in CacheStates(from, S)[k + 1]
  BY <1>1, <1>9, <1>10 DEF CacheStates
<1> QED
  BY <1>2, <1>4, <1>6, <1>8, <1>11

\* The CPU's test on limbs passes what it says that it passes.
LEMMA CacheAnswers ==
  ASSUME input \in Inputs, NEW from \in Nat, NEW x \in Nat, from + x > 1, (from + x) % 2 = 1,
         NEW c, Cached(c, from, x)
  PROVE  CpuPasses(c, from) <=> CpuAnswer(from + x)
<1>1. PICK n \in Nat : n = from + x /\ n > 1 /\ n % 2 = 1
  OBVIOUS
<1>2. c.last = x /\ (c.valid <=> Fits(n)) /\ (c.valid => c.limbs = Export(n))
  BY <1>1 DEF Cached
<1>3. CASE Fits(n)
  <2>1. DecidedOnLimbs(n)
    BY <1>1, <1>3, OddDecided
  <2>2. EulerTest(Export(n), EffectiveNl(Export(n)), input.cpu.width, input.cpu.adx)
          <=> EulerBase2(n)
    BY <2>1 DEF DecidedOnLimbs
  <2> QED
    BY <1>1, <1>2, <1>3, <2>2 DEF CpuPasses, CpuAnswer
<1>4. CASE ~Fits(n)
  BY <1>1, <1>2, <1>4 DEF CpuPasses, CpuAnswer
<1> QED
  BY <1>3, <1>4

\* Candidates are odd.
OddFrom(from, S) == \A x \in S : from + x > 1 /\ (from + x) % 2 = 1

\* The CPU passes the candidates of which its test on limbs says so.
LEMMA CpuPassedExact ==
  ASSUME input \in Inputs, input.cpu.limbs, NEW from \in Nat, NEW cands, cands \subseteq Nat,
         IsFiniteSet(cands), OddFrom(from, cands)
  PROVE  CpuPassed(from, cands) = { x \in cands : CpuAnswer(from + x) }
<1> DEFINE cnt == Cardinality(cands)
           I == CacheStates(from, cands)
           S == Seq(Caches)
           s0 == <<>>
           step(s, k) == Append(s, CacheFor(IF s = <<>> THEN CacheReset ELSE s[Len(s)], from,
                                            Ascending(cands)[k + 1]))
           F == [k \in 0 .. cnt - 1 |-> [p \in S |-> step(p, k)]]
<1>0. cnt \in Nat
  BY AscendingAre
<1>2. \A k \in 0 .. cnt : I[k] \subseteq S
  BY DEF CacheStates
<1>3. s0 \in I[0]
  <2>1. s0 \in Seq(Caches) /\ Len(s0) = 0 /\ 0 \in 0 .. Cardinality(cands)
    BY <1>0
  <2> QED
    BY <2>1 DEF CacheStates
<1>4. \A k \in 0 .. cnt - 1 : \A p \in I[k] : step(p, k) \in I[k + 1]
  BY CacheNext
<1>5. \A k \in 0 .. cnt - 1 : \A p \in I[k] : /\ F[k][p] = step(p, k)
                                              /\ F[k][p] \in I[k + 1]
                                              /\ Only({ step(q, k) : q \in {p} }) = F[k][p]
  <2>1. \A k \in 0 .. cnt - 1 : \A p \in S : F[k][p] = step(p, k)
    <3> HIDE DEF step, S
    <3> QED
      OBVIOUS
  <2>2. \A k \in 0 .. cnt - 1 : \A p : Only({ step(q, k) : q \in {p} }) = step(p, k)
    <3> HIDE DEF step
    <3> QED
      BY DEF Only
  <2> HIDE DEF step, S, F, I
  <2> QED
    BY <1>0, <1>2, <1>4, <2>1, <2>2
<1>6. PICK f : Iterates(f, F, s0, cnt) /\ Within(f, I, cnt)
  <2> HIDE DEF F, I, s0, step
  <2> QED
    BY <1>0, <1>3, <1>5, Loop
<1> DEFINE Is(h) == h = [k \in 0 .. cnt |->
                          IF k = 0 THEN s0 ELSE Only({ step(p, k - 1) : p \in {h[k - 1]} })]
           g == CHOOSE h : Is(h)
<1>7. Is(f)
  <2>1. \A k \in 1 .. cnt : F[k - 1][f[k - 1]] = Only({ step(p, k - 1) : p \in {f[k - 1]} })
    <3>1. SUFFICES ASSUME NEW k \in 1 .. cnt
                   PROVE  F[k - 1][f[k - 1]] = Only({ step(p, k - 1) : p \in {f[k - 1]} })
      OBVIOUS
    <3>2. k - 1 \in 0 .. cnt - 1 /\ k - 1 \in 0 .. cnt
      BY <1>0
    <3> HIDE DEF step, I, F
    <3> QED
      BY <1>5, <1>6, <3>2 DEF Within
  <2>2. \A k \in 0 .. cnt : (IF k = 0 THEN s0 ELSE F[k - 1][f[k - 1]])
                         = IF k = 0 THEN s0 ELSE Only({ step(p, k - 1) : p \in {f[k - 1]} })
    <3> HIDE DEF step, F, s0, I, S
    <3> QED
      BY <1>0, <2>1
  <2> HIDE DEF step, F, s0, I, S
  <2> QED
    BY <1>6, <2>2 DEF Iterates
<1>8. Is(g)
  <2> HIDE DEF Is
  <2> QED
    BY <1>7
<1>9. g[0] = s0 /\ \A k \in 0 .. cnt - 1 : g[k + 1] = Only({ step(p, k) : p \in {g[k]} })
  <2> HIDE DEF step, g, s0, cnt
  <2>1. g[0] = s0
    BY <1>0, <1>8
  <2>2. ASSUME NEW k \in 0 .. cnt - 1 PROVE g[k + 1] = Only({ step(p, k) : p \in {g[k]} })
    <3>1. k + 1 \in 0 .. cnt /\ k + 1 # 0 /\ (k + 1) - 1 = k
      BY <1>0
    <3> QED
      BY <1>8, <3>1
  <2> QED
    BY <2>1, <2>2
<1>10. \A k \in 0 .. cnt - 1 : g[k] \in I[k] => g[k + 1] = F[k][g[k]]
  <2> HIDE DEF step, g, I, F
  <2> QED
    BY <1>5, <1>9
<1>11. g[cnt] \in I[cnt]
  <2>1. \A k \in 0 .. cnt - 1 : \A p \in I[k] : F[k][p] \in I[k + 1]
    <3> HIDE DEF step, g, I, F, s0, cnt
    <3> QED
      BY <1>5
  <2>2. g[0] = s0
    <3> HIDE DEF step, g, I, F, s0, cnt
    <3> QED
      BY <1>9
  <2> HIDE DEF step, g, I, F, s0, cnt
  <2> QED
    BY <1>0, <1>3, <1>10, <2>1, <2>2, LoopEnds
<1>12. Accumulate(step, s0, cnt) \in I[cnt]
  <2>1. Accumulate(step, s0, cnt) = g[cnt]
    BY DEF Accumulate
  <2> QED
    BY <1>11, <2>1
<1>13. PICK s \in I[cnt] : s = CpuCaches(from, cands)
  BY <1>12 DEF CpuCaches
<1>14. /\ s \in Seq(Caches) /\ Len(s) = cnt
       /\ \A j \in 1 .. cnt : Cached(s[j], from, Ascending(cands)[j])
  <2>1. Cardinality(cands) \in 0 .. Cardinality(cands)
    BY <1>0
  <2> QED
    BY <1>13, <2>1 DEF CacheStates
<1>15. CpuPassed(from, cands) = { c.last : c \in { d \in Range(s) : CpuPasses(d, from) } }
  BY <1>13 DEF CpuPassed
<1>16. \A j \in 1 .. cnt : /\ s[j].last \in cands /\ s[j].last = Ascending(cands)[j]
                           /\ CpuPasses(s[j], from) <=> CpuAnswer(from + s[j].last)
  <2>1. TAKE j \in 1 .. cnt
  <2>2. PICK x \in Nat : x = Ascending(cands)[j] /\ x \in cands
    BY AscendingAre
  <2>3. PICK c : c = s[j] /\ Cached(c, from, x)
    BY <1>14, <2>2
  <2>4. from + x > 1 /\ (from + x) % 2 = 1
    BY <2>2 DEF OddFrom
  <2>5. CpuPasses(c, from) <=> CpuAnswer(from + x)
    BY <2>3, <2>4, CacheAnswers
  <2>6. c.last = x
    BY <2>3 DEF Cached
  <2> QED
    BY <2>2, <2>3, <2>5, <2>6
<1> HIDE DEF step, s0, I, F, S
<1>17. ASSUME NEW x \in CpuPassed(from, cands) PROVE x \in cands /\ CpuAnswer(from + x)
  <2>1. PICK c \in Range(s) : CpuPasses(c, from) /\ x = c.last
    BY <1>15, <1>17
  <2>2. PICK j \in 1 .. cnt : c = s[j]
    BY <1>14, <2>1 DEF Range
  <2> QED
    BY <1>16, <2>1, <2>2
<1>18. ASSUME NEW x \in cands, CpuAnswer(from + x) PROVE x \in CpuPassed(from, cands)
  <2>1. PICK j \in 1 .. cnt : Ascending(cands)[j] = x
    BY AscendingAre
  <2>2. PICK c : c = s[j] /\ c.last = x /\ CpuPasses(c, from)
    BY <1>16, <1>18, <2>1
  <2>3. c \in Range(s)
    BY <1>14, <2>1, <2>2 DEF Range
  <2> QED
    BY <1>15, <2>2, <2>3
<1> QED
  BY <1>17, <1>18

\* An odd number's low limb is odd, and fits if the number does.
LEMMA LowLimb ==
  ASSUME NEW n \in Nat, n % 2 = 1, Fits(n)
  PROVE  n % Radix \in Nat /\ (n % Radix) % 2 = 1 /\ Fits(n % Radix)
<1>1. PICK r \in Nat, s \in Nat : r = Radix /\ r > 0 /\ r = 2 * s
  BY RadixType, HalfRadix
<1>2. PICK q \in Nat : q = n \div r
  BY <1>1, Rest
<1>3. PICK m \in Nat : m = n % r /\ n = r * q + m
  BY <1>1, <1>2, Rest
<1>4. m % 2 = 1
  <2>1. PICK c \in Nat : c = s * q
    OBVIOUS
  <2>2. (2 * s) * q = 2 * c
    BY <2>1
  <2>3. n = 2 * c + m
    BY <1>1, <1>3, <2>2
  <2> QED
    BY <2>3
<1>5. m <= n
  <2>1. PICK c \in Nat : c = r * q
    OBVIOUS
  <2> QED
    BY <1>3, <2>1
<1>6. PICK b \in Nat : b = 2^(LimbBits * MaxLimbs)
  <2>1. PICK k \in Nat : k = LimbBits * MaxLimbs
    BY LimbAssumption
  <2> QED
    BY <2>1, PowerType
<1> QED
  BY <1>1, <1>3, <1>4, <1>5, <1>6 DEF Fits

\* Candidates are odd, and larger than one.
LEMMA CandidatesOdd ==
  ASSUME SieveInv, GapInv
  PROVE  /\ pc = "probe" =>
              /\ input.base + Start \in Nat /\ cand \subseteq Nat /\ IsFiniteSet(cand)
              /\ OddFrom(input.base + Start, cand)
         /\ pc = "process" /\ i <= Len(pend) =>
              /\ input.base + pend[i].start \in Nat
              /\ pend[i].cand \subseteq Nat /\ IsFiniteSet(pend[i].cand)
              /\ OddFrom(input.base + pend[i].start, pend[i].cand)
<1>1. input \in Inputs /\ Located
  BY DEF SieveInv, Located
<1>2. PICK base \in Nat : base = input.base /\ base > 1
  <2>1. input.base \in Nat \ {0} /\ input.base % 2 = 0
    BY <1>1, InputAssumption
  <2> QED
    BY <2>1
<1>3. ASSUME NEW from \in Nat, from >= base, NEW n \in Nat, NEW S, S \subseteq 0 .. n - 1,
             \A x \in S : (from + x) % 2 = 1
      PROVE  S \subseteq Nat /\ IsFiniteSet(S) /\ OddFrom(from, S)
  <2>1. IsFiniteSet(0 .. n - 1)
    BY <1>3, FS_Interval
  <2>2. IsFiniteSet(S)
    BY <1>3, <2>1, FS_Subset
  <2>3. \A x \in S : from + x > 1
    BY <1>2, <1>3
  <2> QED
    BY <1>3, <2>2, <2>3 DEF OddFrom
<1>4. CASE pc = "probe"
  <2>1. w < Windows /\ SurvivorsExact
    BY <1>4, SieveInvExact DEF SieveInv, Holding
  <2>2. PICK start \in Nat, n \in Nat : start = Start /\ n = ScanSize
    BY <1>1, <2>1, WindowPlace
  <2>3. cand = { x \in 0 .. n - 1 :
                   LET y == base + start + x IN
                   /\ y % 2 = 1 /\ \A p \in SmallPrimes : y % p # 0
                   /\ input.half => (y % 60) \in VisibleClasses(input.quarter) }
    BY <1>2, <1>4, <2>1, <2>2 DEF SurvivorsExact
  <2>4. PICK from \in Nat : from = base + start /\ from >= base
    OBVIOUS
  <2>5. cand \subseteq 0 .. n - 1 /\ \A x \in cand : (from + x) % 2 = 1
    BY <2>3, <2>4
  <2>6. cand \subseteq Nat /\ IsFiniteSet(cand) /\ OddFrom(from, cand)
    BY <1>3, <2>4, <2>5
  <2> QED
    BY <1>2, <1>4, <2>2, <2>4, <2>6
<1>5. CASE pc = "process" /\ i <= Len(pend)
  <2>1. i \in 1 .. Len(pend) /\ RangeLen \in Nat
    BY <1>5, WindowAssumption DEF GapInv, Batched
  <2>2. PICK start \in Nat, n \in 0 .. RangeLen :
          pend[i].start = start /\ pend[i].cand = Visible(input.base + start, n)
    BY <2>1 DEF GapInv, Batched, GoodWindow
  <2>3. PICK from \in Nat : from = base + start /\ from >= base
    OBVIOUS
  <2>4. n \in Nat
    BY <2>1
  <2>5. PICK S : S = pend[i].cand
    OBVIOUS
  <2>6. S \subseteq 0 .. n - 1 /\ \A x \in S : (from + x) % 2 = 1
    BY <1>2, <2>2, <2>3, <2>5 DEF Visible
  <2>7. S \subseteq Nat /\ IsFiniteSet(S) /\ OddFrom(from, S)
    BY <1>3, <2>3, <2>4, <2>6
  <2> QED
    BY <1>2, <1>5, <2>2, <2>3, <2>5, <2>7
<1> QED
  BY <1>4, <1>5

\* The sieve's candidates are what the test on limbs is exact for.
LEMMA LimbsExact == SieveInv /\ GapInv => LimbTestExact
<1> SUFFICES ASSUME SieveInv, GapInv, input.cpu.limbs PROVE LimbTestExact
  BY DEF LimbTestExact
<1>1. input \in Inputs
  BY DEF SieveInv, Located
<1>2. ASSUME pc = "probe"
      PROVE  CpuPassed(input.base + Start, { x \in cand : x >= OwnedSize })
               = { x \in { x \in cand : x >= OwnedSize } : CpuAnswer(input.base + Start + x) }
  <2>1. PICK from \in Nat : from = input.base + Start
    BY <1>2, CandidatesOdd
  <2>2. cand \subseteq Nat /\ IsFiniteSet(cand) /\ OddFrom(from, cand)
    BY <1>2, <2>1, CandidatesOdd
  <2>3. PICK S : S = { x \in cand : x >= OwnedSize }
    OBVIOUS
  <2>4. S \subseteq Nat /\ S \subseteq cand
    BY <2>2, <2>3
  <2>5. IsFiniteSet(S) /\ OddFrom(from, S)
    BY <2>2, <2>4, FS_Subset DEF OddFrom
  <2>6. CpuPassed(from, S) = { x \in S : CpuAnswer(from + x) }
    BY <1>1, <2>4, <2>5, CpuPassedExact
  <2> QED
    BY <2>1, <2>3, <2>6
<1>3. ASSUME pc = "process", i <= Len(pend), ~gpu_ok
      PROVE  LET from == input.base + pend[i].start
             IN  /\ Passed(i) = { x \in pend[i].cand : CpuAnswer(from + x) }
                 /\ \A x \in pend[i].cand : LET n == from + x IN
                      Fits(n) =>
                        /\ DecidedOnLimbs(n) /\ (n % Radix > 1 => DecidedOnLimbs(n % Radix))
                        /\ \A d \in 1 .. Radix - 1 :
                             Fits(n + d) => AddU64(Export(n), d).a = Export(n + d)
  <2>1. PICK from \in Nat : from = input.base + pend[i].start
    BY <1>3, CandidatesOdd
  <2>2. PICK S : S = pend[i].cand
    OBVIOUS
  <2>3. S \subseteq Nat /\ IsFiniteSet(S) /\ OddFrom(from, S)
    BY <1>3, <2>1, <2>2, CandidatesOdd
  <2>4. CpuPassed(from, S) = { x \in S : CpuAnswer(from + x) }
    BY <1>1, <2>3, CpuPassedExact
  <2>5. Passed(i) = { x \in S : CpuAnswer(from + x) }
    BY <1>3, <2>1, <2>2, <2>4 DEF Passed
  <2>6. ASSUME NEW x \in S, NEW n, n = from + x, Fits(n)
        PROVE  /\ DecidedOnLimbs(n) /\ (n % Radix > 1 => DecidedOnLimbs(n % Radix))
               /\ \A d \in 1 .. Radix - 1 :
                    Fits(n + d) => AddU64(Export(n), d).a = Export(n + d)
    <3>1. n \in Nat /\ n > 1 /\ n % 2 = 1
      BY <2>3, <2>6 DEF OddFrom
    <3>2. DecidedOnLimbs(n)
      BY <1>1, <2>6, <3>1, OddDecided
    <3>3. PICK m \in Nat : m = n % Radix /\ m % 2 = 1 /\ Fits(m)
      BY <2>6, <3>1, LowLimb
    <3>4. m > 1 => DecidedOnLimbs(m)
      BY <1>1, <3>3, OddDecided
    <3>5. ASSUME NEW d \in 1 .. Radix - 1, Fits(n + d)
          PROVE  AddU64(Export(n), d).a = Export(n + d)
      <4>1. d \in Nat
        BY <3>5, RadixType
      <4> QED
        BY <2>6, <3>1, <3>5, <4>1, Advanced
    <3> QED
      BY <3>2, <3>3, <3>4, <3>5
  <2> QED
    BY <2>1, <2>2, <2>5, <2>6
<1> QED
  BY <1>2, <1>3 DEF LimbTestExact

\* The CPU's test on limbs passes exactly the candidates c of which 2^((c-1)/2) is 1 or
\* c-1 modulo c, or that GMP passes if they are too wide: when it looks for a prime that
\* closes the halo and when it tests a window, for limbs of any width from four bits, any
\* number of limbs, either multiplication and each width of window, whether the limbs
\* were exported or advanced from the candidate before; and the Euler and Fermat tests
\* are exact on freshly exported limbs (primality_limbs.c, worker_limb_cache_euler).
THEOREM LimbTestIsExact == Spec => []LimbTestExact
<1>1. SieveInv /\ GapInv /\ [Next]_vars => SieveInv' /\ GapInv'
  BY SieveStep, GapStep, LimbsExact
<1> QED
  BY <1>1, SieveInit, GapInit, LimbsExact, PTL DEF Spec

-----------------------------------------------------------------------------
(* The gaps that are queued are real                                        *)

LEMMA GapInvTrue == GapInv => NoFalseGap
BY DEF GapInv, FoundTrue, TrueGap, NoFalseGap

\* Only gaps between consecutive primes that are long enough are queued: with
\* pseudoprimes among the candidates, hidden classes, a batch cut in pieces of
\* which some fail, results that come back by place, and either test of the CPU
\* (gpu_pending_flush, worker_process_window).
THEOREM GapsAreTrue == Spec => []NoFalseGap
<1>1. SieveInv /\ GapInv /\ [Next]_vars => SieveInv' /\ GapInv'
  BY SieveStep, GapStep, LimbsExact
<1> QED
  BY <1>1, SieveInit, GapInit, GapInvTrue, PTL DEF Spec

-----------------------------------------------------------------------------
(***************************************************************************)
(* Each gap of the range is queued, once.                                  *)
(***************************************************************************)
\* A prime follows p, if there is one at all beyond it.
LEMMA NextPrimeOf ==
  ASSUME NEW p \in Prime, NEW v \in Prime, p < v
  PROVE  /\ NextPrime(p) \in Prime /\ p < NextPrime(p) /\ NextPrime(p) <= v
         /\ \A r \in Prime : r <= p \/ NextPrime(p) <= r
<1> DEFINE later == { q \in Prime : q > p }
<1>1. later \subseteq Nat /\ v \in later
  BY PrimeAssumption
<1>2. Least(later) \in later /\ \A y \in later : Least(later) <= y
  BY <1>1, LeastIs
<1>3. NextPrime(p) = Least(later)
  BY DEF NextPrime
<1>4. \A r \in Prime : r <= p \/ r \in later
  BY PrimeAssumption
<1> QED
  BY <1>1, <1>2, <1>3, <1>4

\* Two members with none between are adjacent.
LEMMA Neighbours ==
  ASSUME NEW chain, chain \subseteq Nat, NEW a \in chain, NEW c \in chain, a < c,
         \A x \in chain : x <= a \/ c <= x
  PROVE  <<a, c>> \in Adjacent(chain)
<1>1. {x \in chain : x > a} \subseteq Nat /\ c \in {x \in chain : x > a}
  OBVIOUS
<1>2. Least({x \in chain : x > a}) = c
  <2>1. \A y \in {x \in chain : x > a} : c <= y
    BY <1>1
  <2> QED
    BY <1>1, <2>1, LeastIsOnly
<1>3. a \in { y \in chain : \E x \in chain : x > y }
  BY <1>1
<1> QED
  BY <1>2, <1>3 DEF Adjacent

\* The neighbours of a set between which a number lies.
LEMMA Around ==
  ASSUME NEW S, S \subseteq Nat, NEW a \in Nat, \E x \in S : x <= a, \E x \in S : a < x
  PROVE  \E l \in S, u \in S :
           l <= a /\ a < u /\ (\A x \in S : x <= l \/ u <= x) /\ <<l, u>> \in Adjacent(S)
<1> DEFINE low  == { x \in S : x <= a }
           high == { x \in S : a < x }
<1>1. PICK l \in low : \A y \in low : y <= l
  <2>1. PICK n \in Nat : n = a + 1
    OBVIOUS
  <2>2. low \subseteq 0 .. n - 1
    <3>1. \A x \in low : x \in Nat /\ x <= a
      OBVIOUS
    <3> HIDE DEF low
    <3> QED
      BY <2>1, <3>1
  <2>3. low # {}
    OBVIOUS
  <2> HIDE DEF low
  <2> QED
    BY <2>2, <2>3, GreatestIs
<1>2. PICK u \in high : \A y \in high : u <= y
  <2>1. high \subseteq Nat /\ high # {}
    OBVIOUS
  <2> QED
    BY <2>1, LeastIs
<1>3. l \in S /\ u \in S /\ l <= a /\ a < u /\ l \in Nat /\ u \in Nat
  OBVIOUS
<1>4. \A x \in S : x <= l \/ u <= x
  <2>1. ASSUME NEW x \in S PROVE x <= a \/ a < x
    <3>1. x \in Int /\ a \in Int
      OBVIOUS
    <3> QED
      BY <3>1
  <2>2. \A x \in S : x \in low \/ x \in high
    BY <2>1
  <2> HIDE DEF low, high
  <2> QED
    BY <1>1, <1>2, <2>2
<1>5. <<l, u>> \in Adjacent(S)
  <2>1. l < u
    BY <1>3
  <2> HIDE DEF low, high
  <2> QED
    BY <1>3, <1>4, <2>1, Neighbours
<1> QED
  BY <1>3, <1>4, <1>5

\* A chain of primes that has a prime and the next one emits the gap.
LEMMA ChainEmits ==
  ASSUME NEW b \in Nat, NEW chain, chain \subseteq Nat,
         \A x \in chain : b + x \in Prime,
         NEW a \in chain, NEW c \in chain, a < c, a < OwnedSize,
         \A r \in Prime : r <= b + a \/ b + c <= r, Qualifies(b + a, c - a)
  PROVE  <<a, c>> \in EmitChain(b, chain, OwnedSize)
<1>1. ASSUME NEW x \in chain PROVE x <= a \/ c <= x
  <2>1. b + x <= b + a \/ b + c <= b + x
    OBVIOUS
  <2> QED
    BY <2>1
<1>2. <<a, c>> \in Adjacent(chain)
  BY <1>1, Neighbours
<1> QED
  BY <1>2 DEF EmitChain

\* A window reports what lies in its prefix, and what its visible gaps resolve to.
LEMMA ReportedIs ==
  ASSUME NEW win, NEW tested, NEW pos, NEW b, b = input.base + win.start, NEW g
  PROVE  /\ ~input.half =>
              (g \in Reported(win, tested, pos) <=>
                 \E e \in Detect(b, pos) :
                   g = [nadd |-> win.start + e[1], len |-> e[2] - e[1], by |-> e])
         /\ input.half =>
              (g \in Reported(win, tested, pos) <=>
                 \/ \E e \in Prefix(b, tested, pos) :
                      g = [nadd |-> win.start + e[1], len |-> e[2] - e[1], by |-> <<>>]
                 \/ \E v \in Detect(b, pos) :
                      \E e \in ResolveGap(input.quarter, b, v[1], v[2], OwnedSize) :
                        g = [nadd |-> win.start + e[1], len |-> e[2] - e[1], by |-> v])
<1> DEFINE first == { [nadd |-> win.start + e[1], len |-> e[2] - e[1], by |-> <<>>] :
                        e \in Prefix(b, tested, pos) }
           resolved(v) ==
             { [nadd |-> win.start + e[1], len |-> e[2] - e[1], by |-> v] :
                 e \in ResolveGap(input.quarter, b, v[1], v[2], OwnedSize) }
           plain == { [nadd |-> win.start + e[1], len |-> e[2] - e[1], by |-> e] :
                        e \in Detect(b, pos) }
<1>1. /\ ~input.half => Reported(win, tested, pos) = plain
      /\ input.half => Reported(win, tested, pos) =
                         first \cup UNION { resolved(v) : v \in Detect(b, pos) }
  BY DEF Reported
<1>2. g \in plain <=>
        \E e \in Detect(b, pos) :
          g = [nadd |-> win.start + e[1], len |-> e[2] - e[1], by |-> e]
  OBVIOUS
<1>3. g \in first <=>
        \E e \in Prefix(b, tested, pos) :
          g = [nadd |-> win.start + e[1], len |-> e[2] - e[1], by |-> <<>>]
  OBVIOUS
<1>4. \A v : g \in resolved(v) <=>
        \E e \in ResolveGap(input.quarter, b, v[1], v[2], OwnedSize) :
          g = [nadd |-> win.start + e[1], len |-> e[2] - e[1], by |-> v]
  OBVIOUS
<1>5. g \in UNION { resolved(v) : v \in Detect(b, pos) } <=>
        \E v \in Detect(b, pos) : g \in resolved(v)
  OBVIOUS
<1> HIDE DEF first, resolved, plain
<1>6. g \in UNION { resolved(v) : v \in Detect(b, pos) } <=>
        \E v \in Detect(b, pos) :
          \E e \in ResolveGap(input.quarter, b, v[1], v[2], OwnedSize) :
            g = [nadd |-> win.start + e[1], len |-> e[2] - e[1], by |-> v]
  BY <1>4, <1>5
<1> QED
  BY <1>1, <1>2, <1>3, <1>6

\* What a visible gap resolves to lies in it.
LEMMA ResolvedWithin ==
  ASSUME NEW quarter, NEW b \in Nat, NEW l \in Nat, NEW u \in Nat, l < u,
         NEW e \in ResolveGap(quarter, b, l, u, OwnedSize)
  PROVE  /\ e[1] \in Nat /\ e[2] \in Nat /\ l <= e[1] /\ e[1] < e[2] /\ e[2] <= u
         /\ e[1] < OwnedSize
<1> DEFINE hidden == HiddenPrimes(quarter, b + l, u - l)
           chain  == {l, u} \cup { l + x : x \in hidden }
<1>1. hidden \subseteq 0 .. u - l - 1
  BY DEF HiddenPrimes
<1>2. chain \subseteq Nat /\ \A x \in chain : l <= x /\ x <= u
  BY <1>1
<1>3. e \in Adjacent(chain) /\ e[1] < OwnedSize
  BY DEF ResolveGap, EmitChain
<1> HIDE DEF chain
<1>4. e[1] \in chain /\ e[2] \in chain /\ e[1] < e[2]
  BY <1>2, <1>3, AdjacentAre
<1> QED
  BY <1>2, <1>3, <1>4

Inside(S, n) == S \subseteq 0 .. n - 1

\* The chain up to v.
PrefixTo(b, v, pos) ==
  EmitChain(b, HiddenPrimes(input.quarter, b, v) \cup ({v} \cap pos), OwnedSize)

\* The prefix ends with a tested candidate, and no positive lies before its end.
LEMMA PrefixIs ==
  ASSUME NEW b \in Nat, NEW n \in Nat, NEW tested, Inside(tested, n),
         NEW pos, pos \subseteq tested, 0 \notin pos, NEW e \in Prefix(b, tested, pos)
  PROVE  \E v \in tested : e \in PrefixTo(b, v, pos) /\ \A x \in pos : v <= x
<1>1. tested # {} /\ tested \subseteq Nat /\ pos \subseteq Nat
  <2>1. tested # {}
    BY DEF Prefix
  <2> QED
    BY <2>1 DEF Inside
<1>2. CASE pos # {} /\ Least(pos) > 0
  <2>1. Least(pos) \in pos /\ \A x \in pos : Least(pos) <= x
    BY <1>1, <1>2, LeastIs
  <2>2. e \in VerifyPrefix(input.quarter, b, Least(pos), TRUE, OwnedSize)
    BY <1>1, <1>2 DEF Prefix
  <2>3. {Least(pos)} = {Least(pos)} \cap pos
    BY <2>1
  <2>4. e \in PrefixTo(b, Least(pos), pos)
    BY <2>2, <2>3 DEF VerifyPrefix, PrefixTo
  <2> QED
    BY <2>1, <2>4
<1>3. CASE ~(pos # {} /\ Least(pos) > 0)
  <2>1. pos = {}
    <3>1. SUFFICES ASSUME pos # {} PROVE FALSE
      OBVIOUS
    <3>2. PICK m \in Nat : m = Least(pos) /\ m \in pos
      BY <1>1, <3>1, LeastIs
    <3>3. ~(m > 0)
      BY <1>3, <3>1, <3>2
    <3> QED
      BY <3>2, <3>3
  <2>2. Greatest(tested) \in tested
    BY <1>1, GreatestIs DEF Inside
  <2>3. e \in VerifyPrefix(input.quarter, b, Greatest(tested), Greatest(tested) \in pos, OwnedSize)
    BY <1>1, <1>3 DEF Prefix
  <2>4. {Greatest(tested)} \cap pos = {}
    BY <2>1
  <2>5. e \in PrefixTo(b, Greatest(tested), pos)
    BY <2>1, <2>3, <2>4 DEF VerifyPrefix, PrefixTo
  <2> QED
    BY <2>1, <2>2, <2>5
<1> QED
  BY <1>2, <1>3

\* The gaps of the prefix end no later than the first positive.
LEMMA PrefixWithin ==
  ASSUME NEW b \in Nat, NEW v \in Nat, NEW pos, NEW e \in PrefixTo(b, v, pos)
  PROVE  e[1] \in Nat /\ e[2] \in Nat /\ e[1] < e[2] /\ e[2] <= v /\ e[1] < OwnedSize
<1> DEFINE chain == HiddenPrimes(input.quarter, b, v) \cup ({v} \cap pos)
<1>1. HiddenPrimes(input.quarter, b, v) \subseteq 0 .. v - 1
  BY DEF HiddenPrimes
<1>2. chain \subseteq Nat /\ \A x \in chain : x <= v
  <2>1. \A x \in HiddenPrimes(input.quarter, b, v) : x \in Nat /\ x <= v
    BY <1>1
  <2>2. \A x \in {v} \cap pos : x \in Nat /\ x <= v
    OBVIOUS
  <2> QED
    BY <2>1, <2>2
<1>3. e \in Adjacent(chain) /\ e[1] < OwnedSize
  BY DEF EmitChain, PrefixTo
<1> HIDE DEF chain
<1>4. e[1] \in chain /\ e[2] \in chain /\ e[1] < e[2]
  BY <1>2, <1>3, AdjacentAre
<1> QED
  BY <1>2, <1>3, <1>4

\* Where a reported gap lies, and among which positives.
Shaped(g, start, pos, a, c, via) ==
  /\ a < OwnedSize /\ a < c /\ g = [nadd |-> start + a, len |-> c - a, by |-> via]
  /\ ~input.half => via = <<a, c>>
  /\ input.half => \/ via = <<>> /\ \A x \in pos : c <= x
                   \/ /\ via # <<>> /\ via = <<via[1], via[2]>>
                      /\ via[1] \in pos /\ via[2] \in pos
                      /\ \A x \in pos : x <= via[1] \/ via[2] <= x
                      /\ via[1] <= a /\ c <= via[2]

LEMMA ReportedShape ==
  ASSUME NEW win, NEW start \in Nat, win.start = start, NEW b \in Nat, b = input.base + start,
         NEW n \in Nat, NEW tested, Inside(tested, n),
         NEW pos, pos \subseteq tested, 0 \notin pos, NEW g \in Reported(win, tested, pos)
  PROVE  \E a \in Nat, c \in Nat : \E via : Shaped(g, start, pos, a, c, via)
<1> USE DEF Shaped
<1>1. pos \subseteq Nat
  BY DEF Inside
<1>2. \A v \in Adjacent(pos) : v = <<v[1], v[2]>> /\ v # <<>>
  <2>1. \A x, y : <<x, y>> = << <<x, y>>[1], <<x, y>>[2] >> /\ <<x, y>> # <<>>
    OBVIOUS
  <2>2. \A v \in Adjacent(pos) : \E x, y : v = <<x, y>>
    BY DEF Adjacent
  <2> QED
    BY <2>1, <2>2
<1>3. CASE ~input.half
  <2>1. PICK e \in Detect(b, pos) : g = [nadd |-> start + e[1], len |-> e[2] - e[1], by |-> e]
    BY <1>3, ReportedIs
  <2>2. e \in Adjacent(pos) /\ e[1] < OwnedSize
    BY <2>1 DEF Detect
  <2>3. e[1] \in pos /\ e[2] \in pos /\ e[1] < e[2]
    BY <1>1, <2>2, AdjacentAre
  <2>4. e = <<e[1], e[2]>>
    BY <1>2, <2>2
  <2>5. PICK a \in Nat, c \in Nat : a = e[1] /\ c = e[2]
    BY <1>1, <2>3
  <2> QED
    BY <1>3, <2>1, <2>2, <2>3, <2>4, <2>5
<1>4. CASE input.half /\ \E e \in Prefix(b, tested, pos) :
             g = [nadd |-> start + e[1], len |-> e[2] - e[1], by |-> <<>>]
  <2>1. PICK e \in Prefix(b, tested, pos) :
          g = [nadd |-> start + e[1], len |-> e[2] - e[1], by |-> <<>>]
    BY <1>4
  <2>2. PICK v \in tested : e \in PrefixTo(b, v, pos) /\ \A x \in pos : v <= x
    BY <2>1, PrefixIs
  <2>3. v \in Nat
    BY DEF Inside
  <2>4. PICK a \in Nat, c \in Nat : a = e[1] /\ c = e[2] /\ a < c /\ c <= v /\ a < OwnedSize
    BY <2>2, <2>3, PrefixWithin
  <2>5. \A x \in pos : c <= x
    BY <1>1, <2>2, <2>3, <2>4
  <2> QED
    BY <1>4, <2>1, <2>4, <2>5
<1>5. CASE input.half /\ \E v \in Detect(b, pos) :
             \E e \in ResolveGap(input.quarter, b, v[1], v[2], OwnedSize) :
               g = [nadd |-> start + e[1], len |-> e[2] - e[1], by |-> v]
  <2>1. PICK v \in Detect(b, pos) :
          \E e \in ResolveGap(input.quarter, b, v[1], v[2], OwnedSize) :
            g = [nadd |-> start + e[1], len |-> e[2] - e[1], by |-> v]
    BY <1>5
  <2>2. PICK e \in ResolveGap(input.quarter, b, v[1], v[2], OwnedSize) :
          g = [nadd |-> start + e[1], len |-> e[2] - e[1], by |-> v]
    BY <2>1
  <2>3. v \in Adjacent(pos)
    BY DEF Detect
  <2>4. /\ v[1] \in pos /\ v[2] \in pos /\ v[1] < v[2] /\ v = <<v[1], v[2]>>
        /\ \A x \in pos : x <= v[1] \/ v[2] <= x
    BY <1>1, <1>2, <2>3, AdjacentAre
  <2>5. PICK l \in Nat, u \in Nat : l = v[1] /\ u = v[2] /\ l < u
    BY <1>1, <2>4
  <2>6. e \in ResolveGap(input.quarter, b, l, u, OwnedSize)
    BY <2>5
  <2>7. PICK a \in Nat, c \in Nat :
          a = e[1] /\ c = e[2] /\ l <= a /\ a < c /\ c <= u /\ a < OwnedSize
    BY <2>5, <2>6, ResolvedWithin
  <2>8. v # <<>>
    BY <1>2, <2>3
  <2> QED
    BY <1>5, <2>2, <2>4, <2>5, <2>7, <2>8
<1> QED
  BY <1>3, <1>4, <1>5, ReportedIs

\* A window reports a gap of a given length once only.
LEMMA ReportedOnce ==
  ASSUME NEW win, NEW start \in Nat, win.start = start, NEW b \in Nat, b = input.base + start,
         NEW n \in Nat, NEW tested, Inside(tested, n),
         NEW pos, pos \subseteq tested, 0 \notin pos,
         NEW g \in Reported(win, tested, pos), NEW h \in Reported(win, tested, pos),
         g.nadd = h.nadd, g.len = h.len
  PROVE  g = h
<1>0. pos \subseteq Nat
  BY DEF Inside
<1>1. PICK a \in Nat, c \in Nat : \E via : Shaped(g, start, pos, a, c, via)
  BY ReportedShape
<1>2. PICK d \in Nat, e \in Nat : \E on : Shaped(h, start, pos, d, e, on)
  BY ReportedShape
<1> USE DEF Shaped
<1>3. PICK via : Shaped(g, start, pos, a, c, via)
  BY <1>1
<1>4. PICK on : Shaped(h, start, pos, d, e, on)
  BY <1>2
<1>5. a = d /\ c = e
  <2>1. start + a = start + d /\ c - a = e - d
    BY <1>3, <1>4
  <2> QED
    BY <2>1
<1>6. via = on
  <2>1. CASE ~input.half
    BY <1>3, <1>4, <1>5, <2>1
  <2>2. CASE input.half /\ via = <<>> /\ on # <<>>
    <3>1. on[1] \in Nat /\ on[1] <= a /\ on[1] \in pos
      BY <1>0, <1>4, <1>5, <2>2
    <3>2. c <= on[1]
      BY <1>3, <2>2, <3>1
    <3> QED
      BY <1>3, <3>1, <3>2
  <2>3. CASE input.half /\ via # <<>> /\ on = <<>>
    <3>1. via[1] \in Nat /\ via[1] <= a /\ via[1] \in pos
      BY <1>0, <1>3, <2>3
    <3>2. c <= via[1]
      BY <1>4, <1>5, <2>3, <3>1
    <3> QED
      BY <1>3, <3>1, <3>2
  <2>4. CASE input.half /\ via # <<>> /\ on # <<>>
    <3>1. PICK l \in pos, u \in pos :
            via = <<l, u>> /\ l <= a /\ c <= u /\ \A x \in pos : x <= l \/ u <= x
      BY <1>3, <2>4
    <3>2. PICK m \in pos, v \in pos :
            on = <<m, v>> /\ m <= a /\ c <= v /\ \A x \in pos : x <= m \/ v <= x
      BY <1>4, <1>5, <2>4
    <3>3. l \in Nat /\ u \in Nat /\ m \in Nat /\ v \in Nat
      BY <1>0
    <3>4. /\ m <= l \/ u <= m
          /\ l <= m \/ v <= l
          /\ v <= l \/ u <= v
          /\ u <= m \/ v <= u
      BY <3>1, <3>2
    <3>5. l = m /\ u = v
      BY <1>3, <3>1, <3>2, <3>3, <3>4
    <3> QED
      BY <3>1, <3>2, <3>5
  <2>5. input.half => (via = <<>> /\ on = <<>>) \/ (via # <<>> \/ on # <<>>)
    OBVIOUS
  <2> QED
    BY <2>1, <2>2, <2>3, <2>4
<1> QED
  BY <1>3, <1>4, <1>5, <1>6

\* Up to a tested candidate, a prime is positive, or of a hidden class.
LEMMA PrimesPositive ==
  ASSUME input \in Inputs, NEW b \in Nat, b >= input.base, NEW n \in Nat,
         NEW cands, cands = Visible(b, n), NEW passed, Sound(b, cands, passed),
         NEW tested, tested = Tested(cands, passed),
         NEW x \in Nat, b + x \in Prime, NEW y \in tested, x <= y
  PROVE  \/ x \in passed \cap tested
         \/ input.half /\ ClassOf(b % 60, x) \in HiddenClasses(input.quarter)
<1>1. cands \subseteq 0 .. n - 1 /\ passed \subseteq cands
  BY DEF Visible, Sound
<1>2. cands \subseteq Nat
  BY <1>1
<1>3. tested \subseteq cands /\ \A z \in cands : z <= y => z \in tested
  BY <1>1, <1>2, TestedDown
<1>4. x < n
  BY <1>1, <1>3
<1>5. x \in cands \/ (input.half /\ ClassOf(b % 60, x) \in HiddenClasses(input.quarter))
  BY <1>4, PrimesSeen
<1>6. x \in cands => x \in passed /\ x \in tested
  BY <1>3 DEF Sound
<1> QED
  BY <1>5, <1>6

\* What a window with candidates "cands" passes if no pseudoprime is among them.
Primes(b, cands) == { x \in cands : b + x \in Prime }

\* The gap that begins at p is among what a window reports.
Reports(win, tested, positives, p) ==
  \E g \in Reported(win, tested, positives) :
    g.nadd = p - input.base /\ g.len = NextPrime(p) - p /\ Verified(g)

\* A gap of a window, beyond whose start lies a prime that is a candidate, is
\* reported: as a gap between visible primes, or within one that is at least as
\* long (the containment lemma), or in the prefix.
LEMMA ReportedAll ==
  ASSUME input \in Inputs, NEW win, NEW start \in Nat, start % 2 = 0, NEW n \in Nat,
         win.start = start, win.cand = Visible(input.base + start, n),
         NEW passed, passed = Primes(input.base + start, win.cand),
         NEW tested, tested = Tested(win.cand, passed),
         NEW pos, pos = passed \cap tested,
         NEW p \in Prime, input.base + start <= p, p < input.base + start + OwnedSize,
         Qualifies(p, NextPrime(p) - p),
         NEW z \in win.cand, p < input.base + start + z, input.base + start + z \in Prime
  PROVE  Reports(win, tested, pos, p)
<1> DEFINE b == input.base + start
           positives == pos
<1>1. PICK h \in Nat : h = input.base /\ b = h + start /\ b \in Nat /\ b >= h /\ b % 2 = 0
  <2>1. input.base \in Nat /\ input.base % 2 = 0
    BY InputAssumption
  <2> QED
    BY <2>1
<1>2. /\ win.cand \subseteq 0 .. n - 1 /\ passed \subseteq win.cand /\ tested \subseteq win.cand
      /\ positives \subseteq tested /\ positives \subseteq Nat /\ tested \subseteq Nat
  <2>1. win.cand \subseteq 0 .. n - 1 /\ passed \subseteq win.cand
    BY DEF Visible, Primes
  <2>2. win.cand \subseteq Nat
    BY <2>1
  <2>3. tested \subseteq win.cand
    BY <2>1, <2>2, TestedDown
  <2> QED
    BY <2>1, <2>2, <2>3
<1>3. Sound(b, win.cand, passed) /\ \A x \in positives : b + x \in Prime
  BY DEF Sound, Primes
<1>4. ASSUME NEW x \in Nat, b + x \in Prime, NEW y \in positives, x <= y
      PROVE  \/ x \in positives
             \/ input.half /\ ClassOf(b % 60, x) \in HiddenClasses(input.quarter)
  <2>1. y \in tested
    BY <1>2
  <2> QED
    BY <1>1, <1>3, <1>4, <2>1, PrimesPositive
<1>5. PICK a \in Nat, c \in Nat, o \in Nat :
        /\ p = b + a /\ NextPrime(p) = b + c /\ a < c /\ o = OwnedSize /\ a < o
        /\ b + c \in Prime /\ \A r \in Prime : r <= b + a \/ b + c <= r
  <2>1. PICK v \in Prime : v = input.base + start + z
    OBVIOUS
  <2>2. p \in Nat /\ v \in Nat /\ OwnedSize \in Nat
    BY PrimeAssumption, WindowAssumption
  <2>3. PICK q \in Prime : q = NextPrime(p) /\ p < q /\ \A r \in Prime : r <= p \/ q <= r
    BY <2>1, NextPrimeOf
  <2>4. q \in Nat
    BY PrimeAssumption
  <2>5. p - b \in Nat /\ q - b \in Nat /\ p = b + (p - b) /\ q = b + (q - b)
        /\ p - b < q - b /\ p - b < OwnedSize
    BY <1>1, <2>2, <2>3, <2>4
  <2> QED
    BY <2>2, <2>3, <2>5
<1>6. Qualifies(b + a, c - a)
  <2>1. NextPrime(p) - p = c - a
    BY <1>1, <1>5
  <2> QED
    BY <1>5, <2>1

\* A positive lies beyond the start of the gap.
<1>7. PICK y \in positives : a < y
  <2> DEFINE closers == { x \in passed : x >= OwnedSize }
  <2>1. z \in Nat /\ a < z /\ z \in passed
    BY <1>1, <1>2, <1>5 DEF Primes
  <2>2. CASE closers = {}
    <3>1. tested = win.cand
      BY <2>2 DEF Tested
    <3> QED
      BY <2>1, <3>1
  <2>3. CASE closers # {}
    <3>1. closers \subseteq Nat
      BY <1>2
    <3>2. PICK m \in closers : m = Least(closers)
      BY <2>3, <3>1, LeastIs
    <3>3. tested = { x \in win.cand : x <= m }
      BY <2>3, <3>2 DEF Tested
    <3>4. m \in passed /\ m \in win.cand /\ m \in Nat /\ m >= o /\ a < m
      BY <1>2, <1>5, <3>1
    <3> QED
      BY <3>3, <3>4
  <2> QED
    BY <2>2, <2>3
<1>8. \A x \in positives : x <= a \/ c <= x
  <2>1. SUFFICES ASSUME NEW x \in positives PROVE x <= a \/ c <= x
    OBVIOUS
  <2>2. x \in Nat /\ (b + x <= b + a \/ b + c <= b + x)
    BY <1>2, <1>3, <1>5
  <2> QED
    BY <1>1, <1>5, <2>2
<1>9. y \in Nat /\ c <= y /\ a <= y
  BY <1>2, <1>5, <1>7, <1>8
<1>10. /\ a \in positives \/ (input.half /\ ClassOf(b % 60, a) \in HiddenClasses(input.quarter))
       /\ c \in positives \/ (input.half /\ ClassOf(b % 60, c) \in HiddenClasses(input.quarter))
  <2>1. b + a \in Prime
    BY <1>5
  <2> HIDE DEF b, positives
  <2> QED
    BY <1>4, <1>5, <1>7, <1>9, <2>1

\* It suffices to report it, by whatever.
<1>11. ASSUME NEW via, [nadd |-> start + a, len |-> c - a, by |-> via]
                         \in Reported(win, tested, positives)
       PROVE  Reports(win, tested, pos, p)
  <2>1. PICK g \in Reported(win, tested, positives) :
          g = [nadd |-> start + a, len |-> c - a, by |-> via]
    BY <1>11
  <2>2. g.nadd = start + a /\ g.len = c - a
    BY <2>1
  <2>3. /\ start + a = p - h /\ h + (start + a) = b + a
        /\ NextPrime(p) - p = c - a /\ h + (start + a) + (c - a) = b + c
    <3>1. p = h + start + a
      BY <1>1, <1>5
    <3>2. start + a = p - h /\ h + (start + a) = b + a
      BY <1>1, <1>5, <3>1
    <3>3. NextPrime(p) - p = c - a
      BY <1>1, <1>5
    <3>4. h + (start + a) + (c - a) = b + c
      BY <1>1, <3>2
    <3> QED
      BY <3>2, <3>3, <3>4
  <2>4. Verified(g)
    BY <1>1, <1>5, <2>2, <2>3 DEF Verified
  <2>5. g.nadd = p - input.base /\ g.len = NextPrime(p) - p
    BY <1>1, <2>2, <2>3
  <2>6. g \in Reported(win, tested, pos)
    OBVIOUS
  <2> QED
    BY <2>4, <2>5, <2>6 DEF Reports
<1> HIDE DEF b, positives
<1>12. CASE ~input.half
  <2>1. a \in positives /\ c \in positives
    BY <1>10, <1>12
  <2>2. <<a, c>> \in Adjacent(positives)
    BY <1>2, <1>5, <1>8, <2>1, Neighbours
  <2>3. <<a, c>> \in Detect(b, positives)
    BY <1>5, <1>6, <2>2 DEF Detect
  <2>4. [nadd |-> start + a, len |-> c - a, by |-> <<a, c>>] \in Reported(win, tested, positives)
    BY <1>12, <2>3, ReportedIs DEF b
  <2> QED
    BY <1>11, <2>4 DEF positives
<1>13. CASE input.half /\ \E x \in positives : x <= a
  <2>1. PICK l \in positives, u \in positives :
          /\ l <= a /\ a < u /\ (\A x \in positives : x <= l \/ u <= x)
          /\ <<l, u>> \in Adjacent(positives)
    BY <1>2, <1>7, <1>13, Around
  <2>2. l \in Nat /\ u \in Nat /\ c <= u /\ b + l \in Prime /\ b + u \in Prime
    BY <1>2, <1>3, <1>5, <1>8, <2>1 DEF positives, b
  <2>3. Qualifies(b + l, u - l)
    <3>1. PICK s \in Int, t \in Int : s = Need[b + l] /\ t = Need[b + a] /\ s <= t
      <4>1. b + a \in Prime /\ b + l <= b + a
        BY <1>1, <1>5, <2>1, <2>2
      <4> QED
        BY <2>2, <4>1, NeedAssumption
    <3>2. c - a >= t
      BY <1>6, <3>1 DEF Qualifies
    <3>3. u - l >= s
      BY <1>5, <2>1, <2>2, <3>1, <3>2
    <3> QED
      BY <3>1, <3>3 DEF Qualifies
  <2>4. <<l, u>> \in Detect(b, positives)
    BY <1>5, <2>1, <2>2, <2>3 DEF Detect
  <2> DEFINE hidden == HiddenPrimes(input.quarter, b + l, u - l)
             chain  == {l, u} \cup { l + x : x \in hidden }
  <2>5. ASSUME NEW x \in Nat, l < x, x < u, b + x \in Prime,
               ClassOf(b % 60, x) \in HiddenClasses(input.quarter)
        PROVE  x \in chain
    <3>1. PICK d \in Nat : d = x - l /\ x = l + d /\ d \in 0 .. u - l - 1
      BY <2>2, <2>5
    <3>2. ClassOf((b + l) % 60, d) = ClassOf(b % 60, x)
      <4>1. PICK f \in Nat, e \in Nat : f = b + l /\ e = b /\ f + d = e + x
        <5>1. b \in Nat /\ l \in Nat /\ d \in Nat /\ x = l + d
          BY <1>1, <2>2, <3>1
        <5>2. b + l \in Nat /\ (b + l) + d = b + x
          BY <5>1
        <5> QED
          BY <5>1, <5>2
      <4>2. ClassOf(f % 60, d) = (f + d) % 60 /\ ClassOf(e % 60, x) = (e + x) % 60
        BY ClassOfSum
      <4> QED
        BY <4>1, <4>2
    <3>3. b + l + d = b + x
      BY <1>1, <2>2, <3>1
    <3>4. d \in hidden
      BY <2>5, <3>1, <3>2, <3>3 DEF HiddenPrimes
    <3> QED
      BY <3>1, <3>4
  <2>6. a \in chain
    <3>1. CASE a \in positives
      <4>1. a = l
        BY <1>5, <2>1, <2>2, <3>1
      <4> QED
        BY <4>1
    <3>2. CASE a \notin positives
      <4>1. a # l /\ l < a /\ b + a \in Prime
        BY <1>5, <2>1, <2>2, <3>2
      <4> HIDE DEF chain
      <4> QED
        BY <1>5, <1>10, <2>1, <2>5, <3>2, <4>1
    <3> QED
      BY <3>1, <3>2
  <2>7. c \in chain
    <3>1. CASE c = u
      BY <3>1
    <3>2. CASE c # u
      <4>1. l < c /\ c < u /\ c \notin positives
        BY <1>5, <2>1, <2>2, <3>2
      <4> HIDE DEF chain
      <4> QED
        BY <1>5, <1>10, <2>5, <4>1
    <3> QED
      BY <3>1, <3>2
  <2>8. chain \subseteq Nat /\ \A x \in chain : b + x \in Prime
    <3>1. \A x \in hidden : x \in Nat /\ b + l + x \in Prime
      BY DEF HiddenPrimes
    <3>2. \A x \in hidden : l + x \in Nat /\ b + (l + x) = b + l + x
      BY <1>1, <2>2, <3>1
    <3> HIDE DEF hidden
    <3> QED
      BY <2>2, <3>1, <3>2
  <2>9. <<a, c>> \in EmitChain(b, chain, OwnedSize)
    <3> HIDE DEF chain
    <3> QED
      BY <1>1, <1>5, <1>6, <2>6, <2>7, <2>8, ChainEmits
  <2>10. <<a, c>> \in ResolveGap(input.quarter, b, l, u, OwnedSize)
    BY <2>9 DEF ResolveGap
  <2>11. [nadd |-> start + a, len |-> c - a, by |-> <<l, u>>] \in Reported(win, tested, positives)
    BY <1>13, <2>4, <2>10, ReportedIs DEF b
  <2> QED
    BY <1>11, <2>11 DEF positives
<1>14. CASE input.half /\ ~\E x \in positives : x <= a
  <2>1. PICK u \in positives : u = Least(positives) /\ \A x \in positives : u <= x
    BY <1>2, <1>7, LeastIs
  <2>2. u \in Nat /\ a < u /\ u > 0 /\ c <= u /\ b + u \in Prime
    BY <1>2, <1>3, <1>5, <1>8, <1>14, <2>1 DEF positives, b
  <2> DEFINE chain == HiddenPrimes(input.quarter, b, u) \cup {u}
  <2>3. ASSUME NEW x \in Nat, x < u, b + x \in Prime,
               ClassOf(b % 60, x) \in HiddenClasses(input.quarter)
        PROVE  x \in chain
    <3>1. x \in 0 .. u - 1
      BY <2>2, <2>3
    <3> QED
      BY <2>3, <3>1 DEF HiddenPrimes
  <2>4. a \in chain
    <3>1. a \notin positives /\ b + a \in Prime
      BY <1>5, <1>14
    <3> HIDE DEF chain
    <3> QED
      BY <1>5, <1>10, <2>2, <2>3, <3>1
  <2>5. c \in chain
    <3>1. CASE c = u
      BY <3>1
    <3>2. CASE c # u
      <4>1. c < u /\ c \notin positives
        BY <1>5, <2>1, <2>2, <3>2
      <4> HIDE DEF chain
      <4> QED
        BY <1>5, <1>10, <2>3, <4>1
    <3> QED
      BY <3>1, <3>2
  <2>6. chain \subseteq Nat /\ \A x \in chain : b + x \in Prime
    <3>1. \A x \in HiddenPrimes(input.quarter, b, u) : x \in Nat /\ b + x \in Prime
      BY DEF HiddenPrimes
    <3> QED
      BY <2>2, <3>1
  <2>7. <<a, c>> \in EmitChain(b, chain, OwnedSize)
    <3> HIDE DEF chain
    <3> QED
      BY <1>1, <1>5, <1>6, <2>4, <2>5, <2>6, ChainEmits
  <2>8. tested # {} /\ positives # {}
    BY <1>2, <1>7
  <2>9. <<a, c>> \in Prefix(b, tested, positives)
    <3>1. <<a, c>> \in VerifyPrefix(input.quarter, b, u, TRUE, OwnedSize)
      BY <2>7 DEF VerifyPrefix
    <3> QED
      BY <2>1, <2>2, <2>8, <3>1 DEF Prefix
  <2>10. [nadd |-> start + a, len |-> c - a, by |-> <<>>] \in Reported(win, tested, positives)
    BY <1>14, <2>9, ReportedIs DEF b
  <2> QED
    BY <1>11, <2>10 DEF positives
<1> QED
  BY <1>12, <1>13, <1>14
-----------------------------------------------------------------------------
(* Every gap of the range is queued, and only once                          *)

\* No pseudoprime is among the numbers of the range.
Clean == Pseudoprimes = {}

\* Then the tests pass no composite.
LEMMA OnlyPrimes ==
  ASSUME Clean, NEW m
  PROVE  /\ Test(m) <=> m \in Prime
         /\ input.cpu.limbs /\ m \in input.base .. input.base + RangeLen - 1 /\ m % 2 = 1
            /\ (\A p \in SmallPrimes : m % p # 0) => (CpuAnswer(m) <=> m \in Prime)
<1>1. Test(m) <=> m \in Prime
  BY DEF Clean, Pseudoprimes, Test
<1>2. ASSUME input.cpu.limbs, m \in input.base .. input.base + RangeLen - 1, m % 2 = 1,
             \A p \in SmallPrimes : m % p # 0
      PROVE  CpuAnswer(m) <=> m \in Prime
  <2>1. m \in Prime => EulerBase2(m)
    BY <1>2, EulerCriterion
  <2>2. EulerBase2(m) => m \in Prime
    BY <1>2 DEF Clean, Pseudoprimes
  <2> QED
    BY <1>1, <2>1, <2>2 DEF CpuAnswer
<1> QED
  BY <1>1, <1>2

\* Then a window passes its primes.
LEMMA PassedExact ==
  ASSUME input \in Inputs, GapInv, LimbTestExact, pc = "process", i <= Len(pend), Clean,
         \A x \in pend[i].cand : pend[i].start + x < RangeLen
  PROVE  Passed(i) = Primes(input.base + pend[i].start, pend[i].cand)
<1>1. i \in 1 .. Len(pend)
  BY DEF GapInv, Batched
<1>2. PICK start \in Nat, n \in 0 .. RangeLen :
        pend[i].start = start /\ pend[i].cand = Visible(input.base + start, n)
  BY <1>1 DEF GapInv, Batched, GoodWindow
<1>3. Sound(input.base + start, pend[i].cand, Passed(i))
  BY <1>2, PassedSound
<1>4. ASSUME NEW x \in Passed(i) PROVE x \in pend[i].cand /\ input.base + start + x \in Prime
  <2>1. x \in pend[i].cand
    BY <1>3 DEF Sound
  <2>2. PICK h \in Nat, y \in Nat, z \in Nat : h = input.base /\ y = x /\ z = RangeLen
    BY <1>2, <2>1, InputAssumption, WindowAssumption DEF Visible
  <2>3. /\ (h + start + y) % 2 = 1 /\ \A p \in SmallPrimes : (h + start + y) % p # 0
        /\ start + y < z
    BY <1>2, <2>1, <2>2 DEF Visible
  <2>4. h + start + y \in h .. h + z - 1
    BY <2>3
  <2>5. CASE gpu_ok
    <3>1. verdicts[Place(<<i, x>>)]
      BY <2>5 DEF Passed
    <3>2. <<i, x>> \in Members(pend)
      BY <1>1, <2>1, MembersAre DEF GapInv
    <3>3. Test(NumberOf(<<i, x>>))
      BY <2>5, <3>1, <3>2 DEF GapInv, FlushInv
    <3>4. NumberOf(<<i, x>>) = input.base + start + x
      BY <1>2 DEF NumberOf
    <3> QED
      BY <2>1, <3>3, <3>4, OnlyPrimes
  <2>6. CASE ~gpu_ok /\ ~input.cpu.limbs
    <3>1. Test(input.base + start + x)
      BY <1>2, <2>6 DEF Passed, CpuPassed
    <3> QED
      BY <2>1, <3>1, OnlyPrimes
  <2>7. CASE ~gpu_ok /\ input.cpu.limbs
    <3>1. Passed(i) = { e \in pend[i].cand : CpuAnswer(input.base + start + e) }
      BY <1>2, <2>7 DEF LimbTestExact
    <3>2. CpuAnswer(h + start + y)
      BY <2>2, <3>1
    <3>3. h + start + y \in Prime
      BY <2>2, <2>3, <2>4, <2>7, <3>2, OnlyPrimes
    <3> QED
      BY <2>1, <2>2, <3>3
  <2> QED
    BY <2>5, <2>6, <2>7
<1>5. \A x \in pend[i].cand : input.base + start + x \in Prime => x \in Passed(i)
  BY <1>3 DEF Sound
<1> QED
  BY <1>2, <1>4, <1>5 DEF Primes

\* The window in which a number lies.
LEMMA QuotientIs ==
  ASSUME NEW n \in Nat \ {0}, NEW k \in Nat, NEW d \in Nat, k * n <= d, d < k * n + n
  PROVE  d \div n = k
<1>1. PICK q \in Int, r \in 0 .. n - 1 : q = d \div n /\ d = n * q + r
  <2>1. d = n * (d \div n) + (d % n) /\ d \div n \in Int /\ d % n \in 0 .. n - 1
    BY Division
  <2> QED
    BY <2>1
<1>2. ASSUME q < k PROVE FALSE
  <2>1. PICK e \in Nat : k = q + 1 + e
    <3>1. k - q - 1 \in Nat /\ k = q + 1 + (k - q - 1)
      BY <1>2
    <3> QED
      BY <3>1
  <2>2. k * n = n * q + n + n * e /\ n * e \in Nat
    BY <2>1
  <2>3. PICK s \in Int, t \in Nat, u \in Int : s = n * q /\ t = n * e /\ u = k * n
    BY <2>2
  <2> QED
    BY <1>1, <2>2, <2>3
<1>3. ASSUME k < q PROVE FALSE
  <2>1. PICK e \in Nat : q = k + 1 + e
    <3>1. q - k - 1 \in Nat /\ q = k + 1 + (q - k - 1)
      BY <1>3
    <3> QED
      BY <3>1
  <2>2. n * q = k * n + n + n * e /\ n * e \in Nat
    BY <2>1
  <2>3. PICK s \in Int, t \in Nat, u \in Int : s = n * q /\ t = n * e /\ u = k * n
    BY <2>2
  <2> QED
    BY <1>1, <2>2, <2>3
<1> QED
  BY <1>1, <1>2, <1>3

\* The windows cover the range.
LEMMA RangeCovered ==
  ASSUME Located
  PROVE  /\ Windows * OwnedSize = RangeLen
         /\ (w + 1) * OwnedSize = Start + OwnedSize
         /\ w < Windows => Start + OwnedSize <= RangeLen
<1>1. PICK n \in Nat, k \in Nat : n = OwnedSize /\ n > 0 /\ k = RangeLen /\ k % n = 0
  BY WindowAssumption
<1>2. PICK m \in Int : m = Windows /\ k = n * m
  <2>1. k = n * (k \div n) + (k % n) /\ k \div n \in Int
    BY <1>1, Division
  <2>2. k = n * (k \div n)
    BY <1>1, <2>1
  <2> QED
    BY <1>1, <2>1, <2>2 DEF Windows
<1>3. PICK x \in Nat : x = w /\ x <= m
  BY <1>2 DEF Located
<1>4. m * n = k /\ (x + 1) * n = x * n + n
  BY <1>2
<1>5. ASSUME x < m PROVE x * n + n <= k
  <2>1. PICK e \in Nat : m = x + 1 + e
    <3>1. m - x - 1 \in Nat /\ m = x + 1 + (m - x - 1)
      BY <1>5
    <3> QED
      BY <3>1
  <2>2. n * m = x * n + n + n * e /\ n * e \in Nat
    BY <2>1
  <2>3. PICK s \in Int, t \in Nat, u \in Int : s = n * m /\ t = n * e /\ u = x * n
    BY <2>2
  <2> QED
    BY <1>2, <2>2, <2>3
<1> QED
  BY <1>1, <1>2, <1>3, <1>4, <1>5 DEF Start

\* A window is sieved beyond what it owns, and not beyond the range.
LEMMA ScanPlace ==
  ASSUME Located, w < Windows
  PROVE  /\ ScanSize \in Nat /\ OwnedSize <= ScanSize /\ Start + ScanSize <= RangeLen
         /\ Start + ScanSize = RangeLen \/ ScanSize = OwnedSize + halo
         /\ ScanSize >= Remaining => Start + ScanSize = RangeLen
<1>1. PICK s \in Nat, o \in Nat, k \in Nat, y \in Nat :
        s = Start /\ o = OwnedSize /\ k = RangeLen /\ y = halo /\ s + o <= k
  BY WindowPlace, RangeCovered, WindowAssumption DEF Located
<1>2. Remaining = k - s /\ ScanSize = IF o + y > k - s THEN k - s ELSE o + y
  BY <1>1 DEF Remaining, ScanSize
<1> QED
  BY <1>1, <1>2

\* Beyond the start of every gap that begins in a window lies a prime that is a
\* candidate of it, if one lies within its lookahead.
Reaches(start, cands) ==
  \A p \in Prime :
    /\ input.base + start <= p /\ p < input.base + start + OwnedSize /\ Closed(p)
    => \E x \in cands : p < input.base + start + x /\ input.base + start + x \in Prime

\* A window that was sieved far enough reaches the gaps it owns.
LEMMA Reaching ==
  ASSUME Located, w < Windows, NEW cands, cands = Filtered(Survivors),
         \/ halo >= Lookahead \/ ScanSize >= Remaining
         \/ \E x \in cands : x >= OwnedSize /\ input.base + Start + x \in Prime
  PROVE  Reaches(Start, cands)
<1>1. PICK h \in Nat, s \in Nat, o \in Nat \ {0}, k \in Nat, z \in Nat :
        h = input.base /\ s = Start /\ o = OwnedSize /\ k = RangeLen /\ z = ScanSize
  BY WindowPlace, ScanPlace, WindowAssumption
<1>2. PICK f \in Nat, y \in Nat : f = Lookahead /\ y = halo
  BY WindowAssumption DEF Located
<1>3. o <= z /\ s + z <= k /\ (s + z = k \/ z = o + y) /\ (ScanSize >= Remaining => s + z = k)
  BY <1>1, <1>2, ScanPlace
<1>4. input \in Inputs /\ cands = Visible(h + s, z)
  BY <1>1, FilteredAre DEF Visible, Located
<1>5. SUFFICES ASSUME NEW p \in Prime, h + s <= p, p < h + s + o, Closed(p)
               PROVE  \E x \in cands : p < h + s + x /\ h + s + x \in Prime
  BY <1>1 DEF Reaches
<1>6. p \in Nat
  BY PrimeAssumption
<1>7. CASE \E x \in cands : x >= OwnedSize /\ input.base + Start + x \in Prime
  <2>1. PICK x \in cands : x >= o /\ h + s + x \in Prime
    BY <1>1, <1>7
  <2>2. x \in Nat
    BY <1>4 DEF Visible
  <2>3. p < h + s + x
    BY <1>5, <1>6, <2>1, <2>2
  <2> QED
    BY <2>1, <2>3
<1>8. CASE halo >= Lookahead \/ ScanSize >= Remaining
  <2>1. ((p - h) \div o) * o = s
    <3>1. PICK m \in Nat : m = w /\ m * o = s
      BY <1>1 DEF Located, Start
    <3>2. PICK d \in Nat : d = p - h /\ m * o <= d /\ d < m * o + o
      BY <1>5, <1>6, <3>1
    <3>3. d \div o = m
      BY <3>2, QuotientIs
    <3> QED
      BY <3>1, <3>2, <3>3
  <2>2. PICK v \in Prime :
          /\ p < v /\ v < h + (IF s + o + f > k THEN k ELSE s + o + f)
          /\ input.half => (v % 60) \in VisibleClasses(input.quarter)
    BY <1>1, <1>2, <1>5, <2>1 DEF Closed
  <2>3. v \in Nat
    BY PrimeAssumption
  <2>4. PICK x \in Nat : v = h + s + x /\ x < z
    <3>1. v < h + s + z
      BY <1>2, <1>3, <1>8, <2>2, <2>3
    <3>2. v - h - s \in Nat /\ v = h + s + (v - h - s) /\ v - h - s < z
      BY <1>5, <1>6, <2>2, <2>3, <3>1
    <3> QED
      BY <3>2
  <2>5. v % 2 = 1 /\ \A q \in SmallPrimes : v % q # 0
    <3>1. v >= input.base
      BY <1>1, <2>3, <2>4
    <3> QED
      BY <1>4, <3>1, PrimeAssumption
  <2>6. x \in cands
    BY <1>4, <2>2, <2>4, <2>5 DEF Visible
  <2> QED
    BY <2>2, <2>4, <2>6
<1> QED
  BY <1>7, <1>8

\* A window that is skipped as empty has no such gap.
LEMMA SkippedHasNone ==
  ASSUME Located, w < Windows, cand = Filtered(Survivors), Empty,
         Survivors = {} \/ Reaches(Start, cand),
         NEW p \in Prime, input.base + Start <= p, p < input.base + Start + OwnedSize, Closed(p)
  PROVE  FALSE
<1>1. CASE Survivors = {}
  <2>1. PICK h \in Nat, s \in Nat, o \in Nat \ {0}, z \in Nat :
          h = input.base /\ s = Start /\ o = OwnedSize /\ z = ScanSize /\ o <= z
    BY WindowPlace, ScanPlace, WindowAssumption
  <2>2. PICK x \in Nat : p = h + s + x /\ x < z
    <3>1. p \in Nat
      BY PrimeAssumption
    <3>2. p - h - s \in Nat /\ p = h + s + (p - h - s) /\ p - h - s < z
      BY <2>1, <3>1
    <3> QED
      BY <3>2
  <2>3. p % 2 = 1 /\ \A q \in SmallPrimes : p % q # 0
    <3>1. p >= input.base /\ input \in Inputs
      BY <2>1, <2>2 DEF Located
    <3> QED
      BY <3>1, PrimeAssumption
  <2>4. x \in Rough(h + s, z)
    BY <2>2, <2>3 DEF Rough
  <2> QED
    BY <1>1, <2>1, <2>4, SurvivorsAre
<1>2. CASE Survivors # {} /\ Reaches(Start, cand)
  <2>1. cand = {}
    BY <1>2 DEF Empty
  <2> QED
    BY <1>2, <2>1 DEF Reaches
<1> QED
  BY <1>1, <1>2

\* The prime that closes the halo is one.
LEMMA ClosedIsReached ==
  ASSUME Located, w < Windows, cand = Filtered(Survivors), LimbTestExact, pc = "probe", Clean,
         HaloClosed
  PROVE  \E x \in cand : x >= OwnedSize /\ input.base + Start + x \in Prime
<1>1. PICK h \in Nat, s \in Nat, k \in Nat, z \in Nat :
        h = input.base /\ s = Start /\ k = RangeLen /\ z = ScanSize /\ s + z <= k
  BY WindowPlace, ScanPlace, WindowAssumption
<1>2. cand = Visible(h + s, z)
  BY <1>1, FilteredAre DEF Visible
<1> DEFINE S == { x \in cand : x >= OwnedSize }
<1>3. PICK x : x \in CpuPassed(h + s, S)
  BY <1>1 DEF HaloClosed
<1>4. CASE ~input.cpu.limbs
  <2>1. x \in S /\ Test(h + s + x)
    BY <1>3, <1>4 DEF CpuPassed
  <2> QED
    BY <1>1, <2>1, OnlyPrimes
<1>5. CASE input.cpu.limbs
  <2>1. x \in S /\ CpuAnswer(h + s + x)
    BY <1>1, <1>3, <1>5 DEF LimbTestExact
  <2>2. /\ x \in Nat /\ x < z /\ (h + s + x) % 2 = 1
        /\ \A p \in SmallPrimes : (h + s + x) % p # 0
    BY <1>2, <2>1 DEF Visible
  <2>3. h + s + x \in h .. h + k - 1
    BY <1>1, <2>2
  <2>4. h + s + x \in Prime
    BY <1>1, <1>5, <2>1, <2>2, <2>3, OnlyPrimes
  <2> QED
    BY <1>1, <2>1, <2>4
<1> QED
  BY <1>4, <1>5

\* The windows of the batch that are still to be processed.
FirstLeft == IF pc = "process" THEN i ELSE 1
Left      == FirstLeft .. Len(pend)

Control ==
  /\ Asking => i = 1
  /\ ~input.gpu /\ pc # "process" => pend = <<>>
  /\ pc = "done" => pend = <<>> /\ w = Windows
  /\ pc = "sieve" /\ Hybrid => halo = Lookahead

\* The windows of the batch follow each other, and lie before the window at hand;
\* the gaps found lie before those that are left; and no two begin at one number.
InOrder ==
  /\ \A k \in 1 .. Len(pend) :
       /\ pend[k].start + OwnedSize <= w * OwnedSize
       /\ \A x \in pend[k].cand : pend[k].start + x < RangeLen
       /\ \A j \in 1 .. k - 1 : pend[j].start + OwnedSize <= pend[k].start
  /\ \A g \in found : g.nadd \in Nat /\ g.nadd < w * OwnedSize
  /\ \A g \in found : \A k \in Left : g.nadd < pend[k].start
  /\ \A g, h \in found : g.nadd = h.nadd => g = h

\* The window at hand is dispatched only when it reaches far enough, or is empty.
ToDispatch == pc = "dispatch" \/ (Flushing /\ ret = "dispatch")
AtHand     == ToDispatch => Survivors = {} \/ Reaches(Start, cand)
InBatch    == \A k \in 1 .. Len(pend) : Reaches(pend[k].start, pend[k].cand)

\* A gap of the windows so far is queued, or its window is left.
Queued(g) == \E f \in found : f.nadd = g.nadd /\ f.len = g.len
Kept ==
  \A g \in Gaps : g.nadd < w * OwnedSize =>
    \/ Queued(g)
    \/ \E k \in Left : pend[k].start <= g.nadd /\ g.nadd < pend[k].start + OwnedSize

WalkInv == Control /\ InOrder /\ (Clean => AtHand /\ InBatch /\ Kept)

\* What the steps have in common that leave the windows and the gaps as they are.
Quiet ==
  /\ UNCHANGED <<input, w, pend, found>>
  /\ \/ pc # "process" /\ (pc' = "process" => i' = 1)
     \/ UNCHANGED <<pc, i>>

\* They are the steps up to a dispatch, and those of a flush up to its results.
LEMMA QuietSteps ==
  ASSUME Control,
         \/ BeginWindow \/ Sieve \/ Probe \/ DispatchFull \/ EndOfRange
         \/ Stage \/ Submit \/ SubmitFails \/ AllSubmitted
         \/ CollectOldest \/ CollectRest \/ BatchTested \/ UNCHANGED vars
  PROVE  Quiet
<1>1. CASE BeginWindow \/ Sieve \/ Probe \/ DispatchFull \/ EndOfRange
  BY <1>1 DEF BeginWindow, Sieve, Probe, DispatchFull, EndOfRange, Quiet, window
<1>2. CASE Stage \/ Submit \/ SubmitFails \/ AllSubmitted \/ CollectOldest \/ CollectRest
  BY <1>2 DEF Stage, Submit, SubmitFails, AllSubmitted, CollectOldest, CollectRest, Quiet, window,
     flush
<1>3. CASE BatchTested
  BY <1>3 DEF BatchTested, Quiet, window, Control, Asking
<1>4. CASE UNCHANGED vars
  BY <1>4 DEF vars, window, Quiet
<1> QED
  BY <1>1, <1>2, <1>3, <1>4

\* Where the batch is empty, and the halo full.
LEMMA ControlStep ==
  ASSUME Control, SieveInv, [Next]_vars
  PROVE  Control'
<1>1. CASE UNCHANGED vars
  BY <1>1 DEF vars, window, Control, Asking, Hybrid, Windows
<1>2. CASE \/ BeginWindow \/ Sieve \/ Probe \/ SkipWindow \/ DispatchCpu \/ DispatchGpu
           \/ DispatchFull \/ EndOfRange
  BY <1>2, WindowAssumption DEF BeginWindow, Sieve, Probe, SkipWindow, DispatchCpu, DispatchGpu,
     DispatchFull, EndOfRange, window, flush, Control, Asking, Hybrid, SieveInv, Located, Windows
<1>3. CASE \/ Stage \/ Submit \/ SubmitFails \/ AllSubmitted \/ CollectOldest \/ CollectRest
           \/ BatchTested
  BY <1>3 DEF Stage, Submit, SubmitFails, AllSubmitted, CollectOldest, CollectRest, BatchTested,
     window, flush, Control, Asking, Hybrid
<1>4. CASE ProcessWindow
  BY <1>4 DEF ProcessWindow, window, flush, Control, Asking, Hybrid
<1>5. CASE BatchDone
  <2>1. ret \in {"loop", "dispatch"}
    BY <1>5 DEF BatchDone, SieveInv, Holding, Flushing
  <2> QED
    BY <1>5, <2>1 DEF BatchDone, window, flush, Control, Asking, Hybrid
<1> QED
  BY <1>1, <1>2, <1>3, <1>4, <1>5 DEF Next

\* They keep the invariant.
LEMMA QuietKeeps ==
  ASSUME Quiet, Batched
  PROVE  /\ InOrder => InOrder'
         /\ Clean' <=> Clean
         /\ InBatch => InBatch'
         /\ Kept => Kept'
         /\ \A start, cands : Reaches(start, cands)' <=> Reaches(start, cands)
<1>1. UNCHANGED <<input, w, pend, found>> /\ Left' = Left
  BY DEF Quiet, Left, FirstLeft
<1>2. Clean' <=> Clean
  BY <1>1 DEF Clean, Pseudoprimes
<1>3. \A start, cands : Reaches(start, cands)' <=> Reaches(start, cands)
  BY <1>1 DEF Reaches, Closed
<1>4. InOrder => InOrder'
  BY <1>1 DEF InOrder
<1>5. InBatch => InBatch'
  BY <1>1, <1>3 DEF InBatch
<1>6. Gaps' = Gaps
  BY <1>1 DEF Gaps, Closed
<1>7. Kept => Kept'
  BY <1>1, <1>6 DEF Kept, Queued
<1> QED
  BY <1>2, <1>3, <1>4, <1>5, <1>7

\* A window is dispatched with a halo that closes its gaps: the probe saw a prime
\* there, or the halo is the lookahead, or the range ends.
LEMMA AtHandStep ==
  ASSUME AtHand, Control, Clean, SieveInv, LimbTestExact, [Next]_vars
  PROVE  AtHand'
<1>1. ASSUME UNCHANGED <<input, window>>, ToDispatch' => ToDispatch
      PROVE  AtHand'
  <2>1. Reaches(Start, cand)' <=> Reaches(Start, cand)
    BY <1>1 DEF Reaches, Closed, Start, window
  <2>2. Survivors' = Survivors
    BY <1>1 DEF Survivors, Bitmap, Start, ScanSize, Remaining, window
  <2> QED
    BY <1>1, <2>1, <2>2 DEF AtHand
<1>2. ASSUME ~ToDispatch' PROVE AtHand'
  BY <1>2 DEF AtHand
<1>3. Located
  BY DEF SieveInv
<1>4. CASE BeginWindow \/ SkipWindow
  BY <1>2, <1>4 DEF BeginWindow, SkipWindow, ToDispatch, Flushing
<1>5. CASE Sieve
  <2>1. CASE ~Hybrid
    BY <1>2, <1>5, <2>1 DEF Sieve, ToDispatch, Flushing
  <2>2. CASE Hybrid
    <3>1. /\ pc = "sieve" /\ halo = Lookahead /\ w < Windows /\ cand' = Filtered(Survivors)
          /\ UNCHANGED <<input, w, halo>>
      BY <1>5, <2>2 DEF Sieve, Control, SieveInv
    <3>2. halo >= Lookahead
      BY <3>1, WindowAssumption
    <3>3. Reaches(Start, cand')
      BY <1>3, <3>1, <3>2, Reaching
    <3>4. Reaches(Start, cand)' <=> Reaches(Start, cand')
      BY <3>1 DEF Reaches, Closed, Start
    <3> QED
      BY <3>3, <3>4 DEF AtHand
  <2> QED
    BY <2>1, <2>2
<1>6. CASE Probe
  <2>1. CASE Survivors # {} /\ ~HaloClosed /\ halo < Lookahead /\ ScanSize < Remaining
    BY <1>2, <1>6, <2>1 DEF Probe, ToDispatch, Flushing
  <2>2. CASE ~(Survivors # {} /\ ~HaloClosed /\ halo < Lookahead /\ ScanSize < Remaining)
    <3>1. /\ pc = "probe" /\ w < Windows /\ cand = Filtered(Survivors)
          /\ UNCHANGED <<input, w, halo, cand>>
      BY <1>6, <2>2 DEF Probe, SieveInv, Holding
    <3>2. \/ Survivors = {} \/ halo >= Lookahead \/ ScanSize >= Remaining
          \/ \E x \in cand : x >= OwnedSize /\ input.base + Start + x \in Prime
      <4>1. halo < Lookahead \/ halo >= Lookahead
        BY <1>3, WindowAssumption DEF Located
      <4>2. ScanSize < Remaining \/ ScanSize >= Remaining
        <5>1. Remaining \in Int /\ ScanSize \in Int
          BY <1>3, WindowPlace, WindowAssumption DEF Remaining
        <5> QED
          BY <5>1
      <4>3. HaloClosed => \E x \in cand : x >= OwnedSize /\ input.base + Start + x \in Prime
        BY <1>3, <3>1, ClosedIsReached
      <4> QED
        BY <2>2, <4>1, <4>2, <4>3
    <3>3. Survivors = {} \/ Reaches(Start, cand)
      BY <1>3, <3>1, <3>2, Reaching
    <3>4. Reaches(Start, cand)' <=> Reaches(Start, cand)
      BY <3>1 DEF Reaches, Closed, Start
    <3>5. Survivors' = Survivors
      BY <3>1 DEF Survivors, Bitmap, Start, ScanSize, Remaining
    <3> QED
      BY <3>3, <3>4, <3>5 DEF AtHand
  <2> QED
    BY <2>1, <2>2
<1>7. CASE DispatchCpu \/ DispatchGpu \/ EndOfRange
  BY <1>2, <1>7 DEF DispatchCpu, DispatchGpu, EndOfRange, ToDispatch, Flushing
<1>8. CASE \/ DispatchFull \/ Stage \/ Submit \/ SubmitFails \/ AllSubmitted \/ CollectOldest
           \/ CollectRest \/ BatchTested \/ ProcessWindow
  <2>1. UNCHANGED <<input, window>> /\ ToDispatch' => ToDispatch
    BY <1>8 DEF DispatchFull, Stage, Submit, SubmitFails, AllSubmitted, CollectOldest,
       CollectRest, BatchTested, ProcessWindow, ToDispatch, Flushing
  <2>2. UNCHANGED <<input, window>>
    BY <1>8 DEF DispatchFull, Stage, Submit, SubmitFails, AllSubmitted, CollectOldest,
       CollectRest, BatchTested, ProcessWindow
  <2> QED
    BY <1>1, <2>1, <2>2
<1>9. CASE BatchDone
  BY <1>1, <1>9 DEF BatchDone, ToDispatch, Flushing
<1>10. CASE UNCHANGED vars
  BY <1>1, <1>10 DEF vars, ToDispatch, Flushing
<1> QED
  BY <1>4, <1>5, <1>6, <1>7, <1>8, <1>9, <1>10 DEF Next

\* A window of the batch, being processed.
AtWork(start, n, passed, tested) ==
  /\ i \in 1 .. Len(pend) /\ start % 2 = 0 /\ pend[i].start = start
  /\ pend[i].cand = Visible(input.base + start, n)
  /\ passed = Passed(i) /\ Sound(input.base + start, pend[i].cand, passed)
  /\ tested = Tested(pend[i].cand, passed) /\ Inside(tested, n)
  /\ 0 \notin passed \cap tested
  /\ found' = found \cup { g \in Reported(pend[i], tested, passed \cap tested) : Verified(g) }

LEMMA Processing ==
  ASSUME GapInv, SieveInv, LimbTestExact, ProcessWindow
  PROVE  \E start \in Nat, n \in Nat : \E passed, tested : AtWork(start, n, passed, tested)
<1> USE DEF AtWork
<1>1. /\ pc = "process" /\ i <= Len(pend)
      /\ found' = found \cup
           { g \in Reported(pend[i], Tested(pend[i].cand, Passed(i)),
                            Passed(i) \cap Tested(pend[i].cand, Passed(i))) : Verified(g) }
  BY DEF ProcessWindow
<1>2. PICK passed : passed = Passed(i)
  OBVIOUS
<1>3. PICK tested : tested = Tested(pend[i].cand, passed)
  OBVIOUS
<1>4. i \in 1 .. Len(pend) /\ input \in Inputs /\ RangeLen \in Nat
  BY <1>1, WindowAssumption DEF GapInv, Batched, SieveInv, Located
<1>5. PICK start \in Nat, n \in 0 .. RangeLen :
        /\ start % 2 = 0 /\ pend[i].start = start
        /\ pend[i].cand = Visible(input.base + start, n)
  BY <1>4 DEF GapInv, Batched, GoodWindow
<1>6. n \in Nat
  BY <1>4
<1>7. Sound(input.base + start, pend[i].cand, passed)
  BY <1>1, <1>2, <1>5, PassedSound
<1>8. pend[i].cand \subseteq 0 .. n - 1 /\ passed \subseteq pend[i].cand
  BY <1>5, <1>7 DEF Visible, Sound
<1>9. tested \subseteq pend[i].cand
  <2>1. pend[i].cand \subseteq Nat
    BY <1>8
  <2> QED
    BY <1>3, <1>8, <2>1, TestedDown
<1>10. Inside(tested, n)
  BY <1>8, <1>9 DEF Inside
<1>11. 0 \notin pend[i].cand
  <2>1. PICK b \in Nat : b = input.base + start /\ b % 2 = 0
    <3>1. input.base \in Nat /\ input.base % 2 = 0
      BY <1>4, InputAssumption
    <3> QED
      BY <1>5, <3>1
  <2>2. (b + 0) % 2 # 1
    BY <2>1
  <2> QED
    BY <1>5, <2>1, <2>2 DEF Visible
<1>12. 0 \notin passed \cap tested
  BY <1>9, <1>11
<1> QED
  BY <1>1, <1>2, <1>3, <1>4, <1>5, <1>6, <1>7, <1>10, <1>12

\* A window that is processed adds gaps it owns, each once.
LEMMA InOrderProcess ==
  ASSUME GapInv, SieveInv, InOrder, LimbTestExact, ProcessWindow
  PROVE  InOrder'
<1>0. PICK start \in Nat, n \in Nat : \E passed, tested : AtWork(start, n, passed, tested)
  BY Processing
<1> USE DEF AtWork
<1>1. PICK passed, tested : AtWork(start, n, passed, tested)
  BY <1>0
<1> DEFINE pos == passed \cap tested
           new == { g \in Reported(pend[i], tested, pos) : Verified(g) }
<1>2. /\ pc = "process" /\ pc' = "process" /\ i' = i + 1
      /\ UNCHANGED <<input, w, pend>> /\ found' = found \cup new
  BY <1>1 DEF ProcessWindow, window
<1>3. /\ Len(pend) \in Nat /\ i \in Nat /\ input \in Inputs /\ OwnedSize \in Nat
      /\ \A k \in 1 .. Len(pend) : pend[k].start \in Nat
  <2>1. pend \in Seq([start : Nat, cand : SUBSET Nat])
    BY DEF GapInv, Batched
  <2>2. \A k \in 1 .. Len(pend) : pend[k].start \in Nat
    BY DEF GapInv, Batched, GoodWindow
  <2>3. Len(pend) \in Nat /\ i \in Nat
    BY <1>1, <2>1
  <2>4. input \in Inputs /\ OwnedSize \in Nat
    BY WindowAssumption DEF SieveInv, Located
  <2> QED
    BY <2>2, <2>3, <2>4
<1>4. PICK b \in Nat : b = input.base + start
  <2>1. input.base \in Nat
    BY <1>3, InputAssumption
  <2> QED
    BY <2>1
<1>5. pos \subseteq tested /\ 0 \notin pos
  BY <1>1
<1>6. ASSUME NEW g \in new
      PROVE  g.nadd \in Nat /\ start <= g.nadd /\ g.nadd < start + OwnedSize /\ g.len \in Int
  <2>1. g \in Reported(pend[i], tested, pos)
    OBVIOUS
  <2>2. PICK a \in Nat, c \in Nat : \E via : Shaped(g, start, pos, a, c, via)
    <3> HIDE DEF pos, new
    <3> QED
      BY <1>1, <1>4, <1>5, <2>1, ReportedShape
  <2>3. a < OwnedSize /\ g.nadd = start + a /\ g.len = c - a
    BY <2>2 DEF Shaped
  <2> QED
    BY <1>3, <2>3
<1>7. ASSUME NEW g \in new, NEW h \in new, g.nadd = h.nadd PROVE g = h
  <2>1. g \in Reported(pend[i], tested, pos) /\ Verified(g)
    OBVIOUS
  <2>2. h \in Reported(pend[i], tested, pos) /\ Verified(h)
    OBVIOUS
  <2>3. TrueGap(input.base + g.nadd, g.len) /\ TrueGap(input.base + h.nadd, h.len)
    BY <1>1, <1>3, <2>1, <2>2, ReportedTrue
  <2>4. input.base + g.nadd + g.len = input.base + g.nadd + h.len
    BY <1>7, <2>3 DEF TrueGap
  <2>5. g.len = h.len
    <3>1. g.nadd \in Int /\ g.len \in Int /\ h.len \in Int
      BY <1>6
    <3>2. input.base \in Int
      BY <1>3, InputAssumption
    <3> QED
      BY <2>4, <3>1, <3>2
  <2> HIDE DEF pos, new
  <2> QED
    BY <1>1, <1>4, <1>5, <1>7, <2>1, <2>2, <2>5, ReportedOnce
<1>8. i \in Left /\ Left' = i + 1 .. Len(pend)
  BY <1>1, <1>2, <1>3 DEF Left, FirstLeft
<1>9. Left' \subseteq Left
  BY <1>2, <1>3, <1>8 DEF Left, FirstLeft
<1> HIDE DEF new
<1>10. \A g \in found' : g.nadd \in Nat /\ g.nadd < w * OwnedSize
  <2>1. start + OwnedSize <= w * OwnedSize /\ w * OwnedSize \in Int
    BY <1>1, <1>3 DEF InOrder, SieveInv, Located
  <2>2. PICK e \in Int : e = w * OwnedSize
    BY <2>1
  <2>3. \A g \in new : g.nadd \in Nat /\ g.nadd < e
    BY <1>3, <1>6, <2>1, <2>2
  <2> QED
    BY <1>2, <2>2, <2>3 DEF InOrder
<1>11. ASSUME NEW g \in found', NEW k \in Left' PROVE g.nadd < pend[k].start
  <2>1. CASE g \in found
    BY <1>9, <2>1 DEF InOrder
  <2>2. CASE g \in new
    <3>1. k \in 1 .. Len(pend) /\ i \in 1 .. k - 1
      BY <1>1, <1>3, <1>8
    <3>2. start + OwnedSize <= pend[k].start
      BY <1>1, <3>1 DEF InOrder
    <3> QED
      BY <1>3, <1>6, <2>2, <3>1, <3>2
  <2> QED
    BY <1>2, <2>1, <2>2
<1>12. ASSUME NEW g \in found', NEW h \in found', g.nadd = h.nadd PROVE g = h
  <2>1. \A f \in found : f.nadd \in Nat /\ f.nadd < start
    BY <1>1, <1>8 DEF InOrder
  <2>2. CASE g \in found /\ h \in found
    BY <1>12, <2>2 DEF InOrder
  <2>3. CASE g \in new /\ h \in new
    BY <1>7, <1>12, <2>3
  <2>4. CASE (g \in found /\ h \in new) \/ (g \in new /\ h \in found)
    BY <1>6, <1>12, <2>1, <2>4
  <2> QED
    BY <1>2, <2>2, <2>3, <2>4
<1> QED
  BY <1>2, <1>10, <1>11, <1>12 DEF InOrder

\* A window that is processed leaves none of its gaps behind.
LEMMA KeptProcess ==
  ASSUME GapInv, SieveInv, InOrder, InBatch, Kept, Clean, LimbTestExact, ProcessWindow
  PROVE  Kept'
<1>0. PICK start \in Nat, n \in Nat : \E passed, tested : AtWork(start, n, passed, tested)
  BY Processing
<1> USE DEF AtWork
<1>1. PICK passed, tested : AtWork(start, n, passed, tested)
  BY <1>0
<1>2. /\ pc = "process" /\ pc' = "process" /\ i' = i + 1 /\ i <= Len(pend)
      /\ UNCHANGED <<input, w, pend>>
  BY DEF ProcessWindow, window
<1>3. input \in Inputs /\ Len(pend) \in Nat
  BY DEF SieveInv, Located, GapInv, Batched
<1>4. passed = Primes(input.base + start, pend[i].cand)
  BY <1>1, <1>2, <1>3, PassedExact DEF InOrder
<1>5. Gaps' = Gaps
  BY <1>2 DEF Gaps, Closed
<1>6. Left = i .. Len(pend) /\ Left' = i + 1 .. Len(pend)
  BY <1>2 DEF Left, FirstLeft
<1>7. ASSUME NEW g \in Gaps, start <= g.nadd, g.nadd < start + OwnedSize
      PROVE  Queued(g)'
  <2>1. PICK p \in Prime :
          /\ g = [nadd |-> p - input.base, len |-> NextPrime(p) - p]
          /\ Closed(p) /\ Qualifies(p, NextPrime(p) - p)
    BY DEF Gaps
  <2>2. g.nadd = p - input.base /\ g.len = NextPrime(p) - p
    BY <2>1
  <2>3. input.base + start <= p /\ p < input.base + start + OwnedSize
    <3>1. PICK h \in Nat, o \in Nat : h = input.base /\ o = OwnedSize
      BY <1>3, InputAssumption, WindowAssumption
    <3>2. p \in Nat
      BY PrimeAssumption
    <3> QED
      BY <1>7, <2>2, <3>1, <3>2
  <2>4. Reaches(start, pend[i].cand)
    BY <1>1 DEF InBatch
  <2>5. PICK z \in pend[i].cand : p < input.base + start + z /\ input.base + start + z \in Prime
    BY <2>1, <2>3, <2>4 DEF Reaches
  <2>6. PICK f \in Reported(pend[i], tested, passed \cap tested) :
          f.nadd = p - input.base /\ f.len = NextPrime(p) - p /\ Verified(f)
    <3>1. PICK win : win = pend[i]
      OBVIOUS
    <3>2. PICK pos : pos = passed \cap tested
      OBVIOUS
    <3>3. /\ start % 2 = 0 /\ win.start = start /\ win.cand = Visible(input.base + start, n)
          /\ passed = Primes(input.base + start, win.cand) /\ tested = Tested(win.cand, passed)
          /\ z \in win.cand
      BY <1>1, <1>4, <2>5, <3>1
    <3>4. Reports(win, tested, pos, p)
      BY <1>3, <2>1, <2>3, <2>5, <3>2, <3>3, ReportedAll
    <3> QED
      BY <3>1, <3>2, <3>4 DEF Reports
  <2>7. f \in found'
    BY <1>1, <2>6
  <2> QED
    BY <2>2, <2>6, <2>7 DEF Queued
<1>8. SUFFICES ASSUME NEW g \in Gaps, g.nadd < w * OwnedSize
               PROVE  \/ Queued(g)'
                      \/ \E k \in i + 1 .. Len(pend) :
                           pend[k].start <= g.nadd /\ g.nadd < pend[k].start + OwnedSize
  BY <1>2, <1>5, <1>6 DEF Kept, Queued
<1>9. CASE Queued(g)
  BY <1>1, <1>9 DEF Queued
<1>10. CASE \E k \in Left : pend[k].start <= g.nadd /\ g.nadd < pend[k].start + OwnedSize
  <2>1. PICK k \in i .. Len(pend) :
          pend[k].start <= g.nadd /\ g.nadd < pend[k].start + OwnedSize
    BY <1>6, <1>10
  <2>2. k = i \/ k \in i + 1 .. Len(pend)
    BY <1>1, <1>3
  <2> QED
    BY <1>1, <1>7, <2>1, <2>2
<1> QED
  BY <1>8, <1>9, <1>10 DEF Kept

\* What a window is dispatched with.
LEMMA Dispatching ==
  ASSUME SieveInv, pc = "dispatch", ~Empty
  PROVE  /\ Start + OwnedSize = (w + 1) * OwnedSize /\ Start = w * OwnedSize
         /\ \A x \in cand : Start + x < RangeLen
         /\ AtHand => Reaches(Start, cand)
         /\ Start \in Nat /\ OwnedSize \in Nat
<1>1. Located /\ w < Windows /\ cand = Filtered(Survivors)
  BY DEF SieveInv, Holding
<1>2. PICK s \in Nat, z \in Nat, k \in Nat : s = Start /\ z = ScanSize /\ k = RangeLen /\ s + z <= k
  BY <1>1, WindowPlace, ScanPlace, WindowAssumption
<1>3. \A x \in cand : x \in Nat /\ x < z
  BY <1>1, <1>2, FilteredAre
<1>4. \A x \in cand : Start + x < RangeLen
  BY <1>2, <1>3
<1>5. Survivors # {}
  <2>1. Filtered({}) = {}
    BY DEF Filtered, FilterOffsets
  <2> QED
    BY <1>1, <2>1 DEF Empty
<1> QED
  BY <1>1, <1>2, <1>4, <1>5, RangeCovered, WindowAssumption DEF AtHand, ToDispatch, Start

\* The number at which the windows so far end.
LEMMA OneMore ==
  ASSUME Located, w < Windows, w' = w + 1
  PROVE  w' * OwnedSize = Start + OwnedSize /\ w * OwnedSize = Start /\ Start \in Nat
         /\ OwnedSize \in Nat \ {0}
BY RangeCovered, WindowPlace, WindowAssumption DEF Start

\* A window is dispatched behind those of the batch.
LEMMA Appended ==
  ASSUME GapInv, SieveInv, Control, DispatchCpu \/ DispatchGpu
  PROVE  /\ pc = "dispatch" /\ ~Empty /\ w' = w + 1 /\ found' = found /\ input' = input
         /\ FirstLeft' = 1 /\ FirstLeft = 1 /\ Len(pend) \in Nat /\ Len(pend') = Len(pend) + 1
         /\ \A k \in 1 .. Len(pend) : pend'[k] = pend[k]
         /\ pend'[Len(pend) + 1].start = Start /\ pend'[Len(pend) + 1].cand = cand
<1> DEFINE new == [start |-> Start, cand |-> cand]
<1>1. /\ pc = "dispatch" /\ ~Empty /\ w' = w + 1 /\ found' = found /\ input' = input
      /\ FirstLeft' = 1 /\ FirstLeft = 1
      /\ pend' = Append(pend, new)
  <2>1. CASE DispatchCpu
    <3>1. /\ pc = "dispatch" /\ ~input.gpu /\ pend' = <<new>> /\ i' = 1
      BY <2>1 DEF DispatchCpu
    <3>2. pend = <<>>
      BY <3>1 DEF Control
    <3>3. Append(<<>>, new) = <<new>>
      OBVIOUS
    <3> QED
      BY <2>1, <3>1, <3>2, <3>3 DEF DispatchCpu, FirstLeft
  <2>2. CASE DispatchGpu
    BY <2>2 DEF DispatchGpu, FirstLeft
  <2> QED
    BY <2>1, <2>2
<1>2. PICK len \in Nat : /\ len = Len(pend) /\ Len(pend') = len + 1
                         /\ \A k \in 1 .. len : pend'[k] = pend[k]
                         /\ pend'[len + 1] = new
  <2>1. pend \in Seq([start : Nat, cand : SUBSET Nat])
    BY DEF GapInv, Batched
  <2>2. Located /\ cand = Filtered(Survivors)
    BY <1>1 DEF SieveInv, Holding
  <2>3. new \in [start : Nat, cand : SUBSET Nat]
    BY <2>2, Dispatched
  <2> HIDE DEF new
  <2> QED
    BY <1>1, <2>1, <2>3
<1>3. new.start = Start /\ new.cand = cand
  OBVIOUS
<1> HIDE DEF new
<1> QED
  BY <1>1, <1>2, <1>3

\* A window is dispatched behind the others.
LEMMA InOrderDispatch ==
  ASSUME GapInv, SieveInv, Control, InOrder, DispatchCpu \/ DispatchGpu
  PROVE  InOrder'
<1>1. /\ pc = "dispatch" /\ ~Empty /\ w' = w + 1 /\ found' = found /\ input' = input
      /\ FirstLeft' = 1 /\ FirstLeft = 1
  BY Appended
<1>2. PICK len \in Nat : /\ len = Len(pend) /\ Len(pend') = len + 1
                         /\ \A k \in 1 .. len : pend'[k] = pend[k]
                         /\ pend'[len + 1].start = Start /\ pend'[len + 1].cand = cand
  BY Appended
<1>3. /\ w' * OwnedSize = Start + OwnedSize /\ w * OwnedSize = Start
      /\ Start \in Nat /\ OwnedSize \in Nat /\ \A x \in cand : Start + x < RangeLen
  <2>1. Located /\ w < Windows
    BY <1>1 DEF SieveInv, Holding
  <2> QED
    BY <1>1, <2>1, Dispatching, OneMore
<1>5. PICK s \in Nat, o \in Nat : s = Start /\ o = OwnedSize
  BY <1>3
<1>6. \A k \in 1 .. len : pend[k].start \in Nat /\ pend[k].start + o <= s
  <2>1. \A k \in 1 .. len : pend[k].start \in Nat
    BY <1>2 DEF GapInv, Batched, GoodWindow
  <2> QED
    BY <1>2, <1>3, <1>5, <2>1 DEF InOrder
<1>7. \A k \in 1 .. len + 1 :
        /\ pend'[k].start + OwnedSize <= w' * OwnedSize
        /\ \A x \in pend'[k].cand : pend'[k].start + x < RangeLen
        /\ \A j \in 1 .. k - 1 : pend'[j].start + OwnedSize <= pend'[k].start
  <2>1. TAKE k \in 1 .. len + 1
  <2>2. CASE k = len + 1
    <3>1. \A j \in 1 .. k - 1 : j \in 1 .. len
      BY <2>2
    <3> QED
      BY <1>2, <1>3, <1>5, <1>6, <2>2, <3>1
  <2>3. CASE k \in 1 .. len
    <3>1. pend[k].start + o <= s + o
      BY <1>6, <2>3
    <3>2. \A j \in 1 .. k - 1 : j \in 1 .. len
      BY <2>3
    <3>3. pend'[k] = pend[k] /\ \A j \in 1 .. k - 1 : pend'[j] = pend[j]
      BY <1>2, <2>3, <3>2
    <3> QED
      BY <1>2, <1>3, <1>5, <2>3, <3>1, <3>3 DEF InOrder
  <2> QED
    BY <2>2, <2>3
<1>8. \A g \in found : g.nadd \in Nat /\ g.nadd < s
  BY <1>3, <1>5 DEF InOrder
<1>9. \A g \in found : g.nadd < s + o
  BY <1>5, <1>8
<1>10. ASSUME NEW g \in found, NEW k \in 1 .. len + 1 PROVE g.nadd < pend'[k].start
  <2>1. CASE k = len + 1
    BY <1>2, <1>5, <1>8, <2>1
  <2>2. CASE k \in 1 .. len
    BY <1>1, <1>2, <2>2 DEF InOrder, Left
  <2> QED
    BY <2>1, <2>2
<1>11. Left' = 1 .. len + 1
  BY <1>1, <1>2 DEF Left
<1> QED
  BY <1>1, <1>2, <1>3, <1>5, <1>7, <1>8, <1>9, <1>10, <1>11 DEF InOrder

\* Its gaps are left to be found there.
LEMMA KeptDispatch ==
  ASSUME GapInv, SieveInv, Control, InOrder, AtHand, InBatch, Kept, DispatchCpu \/ DispatchGpu
  PROVE  InBatch' /\ Kept'
<1>1. /\ pc = "dispatch" /\ ~Empty /\ w' = w + 1 /\ found' = found /\ input' = input
      /\ FirstLeft' = 1 /\ FirstLeft = 1
  BY Appended
<1>2. PICK len \in Nat : /\ len = Len(pend) /\ Len(pend') = len + 1
                         /\ \A k \in 1 .. len : pend'[k] = pend[k]
                         /\ pend'[len + 1].start = Start /\ pend'[len + 1].cand = cand
  BY Appended
<1>3. PICK s \in Nat, o \in Nat :
        /\ s = Start /\ o = OwnedSize /\ w' * OwnedSize = s + o /\ w * OwnedSize = s
        /\ Reaches(Start, cand)
  <2>1. Located /\ w < Windows
    BY <1>1 DEF SieveInv, Holding
  <2> QED
    BY <1>1, <2>1, Dispatching, OneMore
<1>5. \A start, cands : Reaches(start, cands)' <=> Reaches(start, cands)
  BY <1>1 DEF Reaches, Closed
<1>6. InBatch'
  <2>1. \A k \in 1 .. len : Reaches(pend[k].start, pend[k].cand)
    BY <1>2 DEF InBatch
  <2>2. ASSUME NEW k \in 1 .. len + 1 PROVE Reaches(pend'[k].start, pend'[k].cand)
    <3>1. k \in 1 .. len \/ k = len + 1
      OBVIOUS
    <3> QED
      BY <1>2, <1>3, <2>1, <3>1
  <2> QED
    BY <1>2, <1>5, <2>2 DEF InBatch
<1>7. Kept'
  <2>1. Gaps' = Gaps /\ Left' = 1 .. len + 1 /\ Left = 1 .. len
    BY <1>1, <1>2 DEF Gaps, Closed, Left
  <2>2. SUFFICES ASSUME NEW g \in Gaps, g.nadd < s + o
                 PROVE  \/ Queued(g)
                        \/ \E k \in 1 .. len + 1 :
                             pend'[k].start <= g.nadd /\ g.nadd < pend'[k].start + o
    BY <1>1, <1>3, <2>1 DEF Kept, Queued
  <2>3. CASE g.nadd < s
    BY <1>2, <1>3, <2>1, <2>3 DEF Kept
  <2>4. CASE ~(g.nadd < s)
    <3>1. PICK x \in Int : x = g.nadd
      <4>1. PICK p \in Prime : g = [nadd |-> p - input.base, len |-> NextPrime(p) - p]
        BY DEF Gaps
      <4>2. p \in Nat /\ input.base \in Nat
        BY PrimeAssumption, InputAssumption DEF SieveInv, Located
      <4> QED
        BY <4>1, <4>2
    <3>2. s <= g.nadd
      BY <2>4, <3>1
    <3> QED
      BY <1>2, <1>3, <2>2, <3>2
  <2> QED
    BY <2>3, <2>4
<1> QED
  BY <1>6, <1>7

\* A gap of the range begins at a prime.
LEMMA GapBegins ==
  ASSUME input \in Inputs, NEW g \in Gaps
  PROVE  \E p \in Prime :
           /\ p = input.base + g.nadd /\ Closed(p) /\ g.nadd \in Nat /\ g.nadd < RangeLen
           /\ p \in Nat /\ input.base \in Nat
<1>1. PICK p \in Prime :
        /\ g = [nadd |-> p - input.base, len |-> NextPrime(p) - p]
        /\ Closed(p) /\ input.base <= p /\ p < input.base + RangeLen
  BY DEF Gaps
<1>2. PICK h \in Nat, k \in Nat, q \in Nat : h = input.base /\ k = RangeLen /\ q = p
  BY InputAssumption, WindowAssumption, PrimeAssumption
<1>3. g.nadd = q - h /\ q - h \in Nat /\ q - h < k /\ q = h + (q - h)
  BY <1>1, <1>2
<1> QED
  BY <1>1, <1>2, <1>3

\* A window skipped as empty begins no gap that is looked for.
LEMMA SkipKeeps ==
  ASSUME SieveInv, GapInv, SkipWindow
  PROVE  /\ InOrder => InOrder'
         /\ InBatch => InBatch'
         /\ AtHand /\ Kept => Kept'
<1>1. /\ pc = "dispatch" /\ Empty /\ w' = w + 1 /\ Located /\ w < Windows
      /\ cand = Filtered(Survivors) /\ UNCHANGED <<input, pend, found>>
      /\ FirstLeft' = 1 /\ FirstLeft = 1 /\ input \in Inputs
  BY DEF SkipWindow, flush, SieveInv, Holding, Located, FirstLeft
<1>2. Left' = Left
  BY <1>1 DEF Left
<1>3. PICK s \in Nat, o \in Nat :
        s = Start /\ o = OwnedSize /\ w' * OwnedSize = s + o /\ w * OwnedSize = s
  BY <1>1, OneMore
<1>4. \A start, cands : Reaches(start, cands)' <=> Reaches(start, cands)
  BY <1>1 DEF Reaches, Closed
<1>5. InBatch => InBatch'
  BY <1>1, <1>4 DEF InBatch
<1>6. ASSUME InOrder PROVE InOrder'
  <2>1. \A g \in found : g.nadd \in Nat /\ g.nadd < s + o
    BY <1>3, <1>6 DEF InOrder
  <2>2. ASSUME NEW k \in 1 .. Len(pend) PROVE pend[k].start + OwnedSize <= w' * OwnedSize
    <3>1. pend[k].start + o <= s
      BY <1>3, <1>6 DEF InOrder
    <3>2. pend[k].start \in Nat
      BY DEF GapInv, Batched, GoodWindow
    <3> QED
      BY <1>3, <3>1, <3>2
  <2> QED
    BY <1>1, <1>2, <1>3, <1>6, <2>1, <2>2 DEF InOrder
<1>7. ASSUME AtHand, Kept PROVE Kept'
  <2>1. Gaps' = Gaps
    BY <1>1 DEF Gaps, Closed
  <2>2. ASSUME NEW g \in Gaps, g.nadd < s + o PROVE g.nadd < s
    <3>1. PICK p \in Prime, h \in Nat, q \in Nat, d \in Nat :
            p = q /\ q = h + d /\ d = g.nadd /\ h = input.base /\ Closed(p)
      BY <1>1, GapBegins
    <3>2. CASE ~(d < s)
      <4>1. h + s <= q /\ q < h + s + o
        BY <2>2, <3>1, <3>2
      <4>2. Survivors = {} \/ Reaches(Start, cand)
        BY <1>1, <1>7 DEF AtHand, ToDispatch
      <4>3. input.base + Start <= p /\ p < input.base + Start + OwnedSize
        BY <1>3, <3>1, <4>1
      <4> QED
        BY <1>1, <3>1, <4>2, <4>3, SkippedHasNone
    <3> QED
      BY <3>1, <3>2
  <2> QED
    BY <1>1, <1>2, <1>3, <1>7, <2>1, <2>2 DEF Kept, Queued
<1> QED
  BY <1>5, <1>6, <1>7

\* The batch is emptied when none of its windows is left.
LEMMA DoneKeeps ==
  ASSUME GapInv, BatchDone
  PROVE  /\ InOrder => InOrder'
         /\ InBatch'
         /\ Kept => Kept'
<1>1. /\ UNCHANGED <<input, w, found>> /\ pend' = <<>> /\ pc = "process" /\ i > Len(pend)
      /\ Len(pend) \in Nat /\ i \in Nat
  BY DEF BatchDone, window, GapInv, Batched
<1>2. Len(pend') = 0
  BY <1>1
<1>3. Left = {} /\ Left' = {}
  <2>1. Left = i .. Len(pend)
    BY <1>1 DEF Left, FirstLeft
  <2>2. FirstLeft' \in Nat /\ FirstLeft' > 0
    BY DEF FirstLeft, BatchDone, GapInv
  <2>3. Left' = FirstLeft' .. 0
    BY <1>2 DEF Left
  <2>4. Left' = {}
    BY <2>2, <2>3
  <2>5. Left = {}
    BY <1>1, <2>1
  <2> QED
    BY <2>4, <2>5
<1>4. InOrder => InOrder'
  BY <1>1, <1>2, <1>3 DEF InOrder
<1>5. Kept => Kept'
  <2>1. Gaps' = Gaps
    BY <1>1 DEF Gaps, Closed
  <2> QED
    BY <1>1, <1>3, <2>1 DEF Kept, Queued
<1> QED
  BY <1>2, <1>4, <1>5 DEF InBatch

LEMMA WalkInit == Init => WalkInv
<1> SUFFICES ASSUME Init PROVE WalkInv
  OBVIOUS
<1>1. /\ input \in Inputs /\ w = 0 /\ pc = "loop" /\ pend = <<>> /\ i = 1 /\ found = {}
      /\ Len(pend) = 0 /\ OwnedSize \in Nat
  BY WindowAssumption DEF Init
<1>2. Control
  BY <1>1 DEF Control, Asking
<1>3. Left = {}
  BY <1>1 DEF Left, FirstLeft
<1>4. InOrder /\ AtHand /\ InBatch
  BY <1>1, <1>3 DEF InOrder, AtHand, ToDispatch, Flushing, InBatch
<1>5. Kept
  <2>1. ASSUME NEW g \in Gaps PROVE ~(g.nadd < w * OwnedSize)
    <3>1. g.nadd \in Nat
      BY <1>1, GapBegins
    <3>2. w * OwnedSize = 0
      BY <1>1
    <3> QED
      BY <3>1, <3>2
  <2> QED
    BY <2>1 DEF Kept
<1> QED
  BY <1>2, <1>4, <1>5 DEF WalkInv

LEMMA WalkStep ==
  SieveInv /\ GapInv /\ LimbTestExact /\ WalkInv /\ [Next]_vars => WalkInv'
<1> SUFFICES ASSUME SieveInv, GapInv, LimbTestExact, WalkInv, [Next]_vars PROVE WalkInv'
  OBVIOUS
<1>1. Control /\ InOrder /\ (Clean => AtHand /\ InBatch /\ Kept) /\ Batched
  BY DEF WalkInv, GapInv
<1>2. Control'
  BY <1>1, ControlStep
<1>3. Clean' => Clean
  <2>1. UNCHANGED input
    BY DEF Next, vars, BeginWindow, Sieve, Probe, SkipWindow, DispatchCpu, DispatchGpu,
       DispatchFull, EndOfRange, Stage, Submit, SubmitFails, AllSubmitted, CollectOldest,
       CollectRest, BatchTested, ProcessWindow, BatchDone
  <2> QED
    BY <2>1 DEF Clean, Pseudoprimes
<1>4. Clean => AtHand'
  BY <1>1, AtHandStep
<1>5. ASSUME InOrder', Clean => InBatch' /\ Kept' PROVE WalkInv'
  BY <1>2, <1>3, <1>4, <1>5 DEF WalkInv
<1>6. CASE \/ BeginWindow \/ Sieve \/ Probe \/ DispatchFull \/ EndOfRange
           \/ Stage \/ Submit \/ SubmitFails \/ AllSubmitted
           \/ CollectOldest \/ CollectRest \/ BatchTested \/ UNCHANGED vars
  <2>1. Quiet
    BY <1>1, <1>6, QuietSteps
  <2> QED
    BY <1>1, <1>5, <2>1, QuietKeeps
<1>7. CASE SkipWindow
  BY <1>1, <1>5, <1>7, SkipKeeps
<1>8. CASE DispatchCpu \/ DispatchGpu
  BY <1>1, <1>5, <1>8, InOrderDispatch, KeptDispatch
<1>9. CASE ProcessWindow
  <2>1. InOrder' /\ (Clean => Kept')
    BY <1>1, <1>9, InOrderProcess, KeptProcess
  <2>2. InBatch => InBatch'
    <3>1. UNCHANGED <<input, pend>>
      BY <1>9 DEF ProcessWindow
    <3>2. \A start, cands : Reaches(start, cands)' <=> Reaches(start, cands)
      BY <3>1 DEF Reaches, Closed
    <3> QED
      BY <3>1, <3>2 DEF InBatch
  <2> QED
    BY <1>1, <1>5, <2>1, <2>2
<1>10. CASE BatchDone
  BY <1>1, <1>5, <1>10, DoneKeeps
<1> QED
  BY <1>6, <1>7, <1>8, <1>9, <1>10 DEF Next

LEMMA WalkInvOnce == SieveInv /\ WalkInv => EveryGapOnce
<1> SUFFICES ASSUME SieveInv, WalkInv PROVE EveryGapOnce
  OBVIOUS
<1>1. \A g, h \in found : g.nadd = h.nadd => g = h
  BY DEF WalkInv, InOrder
<1>2. ASSUME pc = "done", Pseudoprimes = {}, NEW g \in Gaps
      PROVE  \E f \in found : f.nadd = g.nadd /\ f.len = g.len
  <2>1. w = Windows /\ pend = <<>> /\ Kept /\ Located
    BY <1>2 DEF WalkInv, Control, Clean, SieveInv
  <2>2. w * OwnedSize = RangeLen
    BY <2>1, RangeCovered
  <2>3. g.nadd < w * OwnedSize
    BY <2>1, <2>2, GapBegins DEF Located
  <2>4. Left = {}
    BY <1>2, <2>1 DEF Left, FirstLeft
  <2> QED
    BY <2>1, <2>3, <2>4 DEF Kept, Queued
<1> QED
  BY <1>1, <1>2 DEF EveryGapOnce

\* No gap is queued twice, by two windows or by a prefix and a visible gap; and when
\* the range has been searched, each of its gaps that are long enough is queued, if a
\* visible prime within the lookahead lies beyond its start and the range has no
\* pseudoprime: whatever the classes of a pass hide, wherever the windows and the
\* batches end, whatever part of a batch fails, and with either test of the CPU
\* (main.c, "The containment lemma guarantees no true qualifying gap is lost";
\* worker_gpu.c).
THEOREM GapsQueuedOnce == Spec => []EveryGapOnce
<1>1. SieveInv /\ GapInv /\ [Next]_vars => SieveInv' /\ GapInv'
  BY SieveStep, GapStep, LimbsExact
<1>2. SieveInv /\ GapInv => LimbTestExact
  BY LimbsExact
<1> QED
  BY <1>1, <1>2, SieveInit, GapInit, WalkInit, WalkStep, WalkInvOnce, PTL DEF Spec
=============================================================================
