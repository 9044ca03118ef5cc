----------------------------- MODULE LimbEuler -----------------------------
(***************************************************************************)
(* The Euler test of the CPU on fixed limbs                                *)
(* (src/new_src/primality_limbs.c): Montgomery products by the CIOS method *)
(* in two forms, one with a single carry chain and one with the two chains *)
(* of ADCX and ADOX, and powers of two by windows of the exponent.         *)
(* The width of a limb is a parameter; a number is a function from limb    *)
(* indices, little-endian, and a limb wraps at 2^LimbBits.                 *)
(***************************************************************************)
EXTENDS Integers, Sequences

CONSTANTS
  LimbBits,   \* width of a limb (64)
  MaxLimbs,   \* PRIMALITY_CPU_MAX_LIMBS
  NinvSteps   \* Newton steps of mont_ninv (6)

(* The windows of four bits that GetBits4 reads lie in two limbs at most.  *)
ASSUME LimbAssumption ==
  /\ LimbBits \in Nat /\ LimbBits >= 4 /\ MaxLimbs \in Nat \ {0}
  /\ NinvSteps \in Nat /\ 2^NinvSteps >= LimbBits

FERMAT_WIN == 4
FERMAT_WIN_MIN == 3
FERMAT_WIN_MAX == 5
Radix      == 2^LimbBits

Greatest(S) == CHOOSE x \in S : \A y \in S : y <= x

\* The element of a singleton: a value bound in a set is evaluated once.
Only(S) == CHOOSE x \in S : TRUE

\* The state s after step(.., 0), ..., step(.., n - 1).
Accumulate(step(_, _), s, n) ==
  LET after[k \in 0 .. n] ==
        IF k = 0 THEN s ELSE Only({ step(p, k - 1) : p \in {after[k - 1]} })
  IN  after[n]

(***************************************************************************)
(* Limbs.                                                                  *)
(***************************************************************************)
(* -(n^-1) mod 2^LimbBits: each step doubles the number of valid bits.     *)
MontNinv(n0) ==
  LET Newton(x, k) == (x * ((2 - n0 * x) % Radix)) % Radix
  IN  (Radix - Accumulate(Newton, 1, NinvSteps)) % Radix

Differ(a, b, nl) == { k \in 0 .. nl - 1 : a[k] # b[k] }

Gte(a, b, nl) ==
  LET D == Differ(a, b, nl) IN D = {} \/ a[Greatest(D)] > b[Greatest(D)]

SubLimbs(a, b, nl) ==
  LET step(s, k) == [r |-> Append(s.r, (a[k] - b[k] - s.borrow) % Radix),
                     borrow |-> IF a[k] < b[k] + s.borrow THEN 1 ELSE 0]
      r == Accumulate(step, [r |-> <<>>, borrow |-> 0], nl).r
  IN  [k \in 0 .. nl - 1 |-> r[k + 1]]

One(nl)   == [k \in 0 .. nl - 1 |-> IF k = 0 THEN 1 ELSE 0]
Minus1(n) == [n EXCEPT ![0] = @ - 1]      \* of an odd n

(* a = 2a mod n, where the bit shifted out counts.                         *)
ModDbl(a, n, nl) ==
  LET twice == [k \in 0 .. nl - 1 |->
                  (2 * a[k] + (IF k = 0 THEN 0 ELSE a[k - 1] \div 2^(LimbBits - 1))) % Radix]
      carry == a[nl - 1] \div 2^(LimbBits - 1)
  IN  IF carry = 1 \/ Gte(twice, n, nl) THEN SubLimbs(twice, n, nl) ELSE twice

MsbOf(x) == Greatest({ k \in 0 .. LimbBits - 1 : x \div 2^k > 0 })
FindMsb(a, nl) ==
  LET used == { k \in 0 .. nl - 1 : k = 0 \/ a[k] # 0 }
  IN  Greatest(used) * LimbBits + MsbOf(a[Greatest(used)])

(* R mod n, R = 2^(LimbBits * nl), from the highest bit of n by doubling.  *)
RModN(n, nl) ==
  LET topbit == ((nl - 1) * LimbBits) + MsbOf(n[nl - 1])
      seed   == [k \in 0 .. nl - 1 |-> IF k = nl - 1 THEN 2^MsbOf(n[nl - 1]) ELSE 0]
      step(r, k) == ModDbl(r, n, nl)
  IN  Accumulate(step, seed, LimbBits * nl - topbit)

(***************************************************************************)
(* Montgomery products.  t has two limbs more than n.                      *)
(***************************************************************************)
(* Low limb and carry of acc + a * b + c. *)
Mac(acc, a, b, c) ==
  LET p  == a * b + c
      lo == p % Radix
  IN  <<(acc + lo) % Radix, ((p \div Radix) + ((acc + lo) \div Radix)) % Radix>>

(* t += x * b, with one carry. *)
CiosAddMul(t, x, b, nl) ==
  LET step(s, j) == Only({ [t |-> [s.t EXCEPT ![j] = m[1]], c |-> m[2]] :
                             m \in {Mac(s.t[j], x, b[j], s.c)} })
  IN  Only({ [s.t EXCEPT ![nl] = (@ + s.c) % Radix,
                         ![nl + 1] = (@ + ((s.t[nl] + s.c) \div Radix)) % Radix] :
               s \in {Accumulate(step, [t |-> t, c |-> 0], nl)} })

(* The same with two: OF carries the sum of t and the high limb before, CF *)
(* that of the result and the low limb.                                    *)
AdxAddMul(t, x, b, nl) ==
  LET step(s, j) ==
        LET p == x * b[j]
            u == s.t[j] + s.hi + s.of
            v == (u % Radix) + (p % Radix) + s.cf
        IN  [t |-> [s.t EXCEPT ![j] = v % Radix], hi |-> p \div Radix,
             of |-> u \div Radix, cf |-> v \div Radix]
      Carried(s) ==
        LET u == s.t[nl] + s.hi + s.of
            v == (u % Radix) + s.cf
        IN  [s.t EXCEPT ![nl] = v % Radix,
                        ![nl + 1] = (@ + (u \div Radix) + (v \div Radix)) % Radix]
  IN  Only({ Carried(s) :
               s \in {Accumulate(step, [t |-> t, hi |-> 0, of |-> 0, cf |-> 0], nl)} })

AddMul(t, x, b, M) ==
  IF M.adx THEN AdxAddMul(t, x, b, M.nl) ELSE CiosAddMul(t, x, b, M.nl)

(* a * b / R, not yet reduced: M has the modulus n, its nl limbs, ninv and *)
(* adx.                                                                    *)
Product(a, b, M) ==
  LET Shifted(t) == [k \in 0 .. M.nl + 1 |-> IF k <= M.nl THEN t[k + 1] ELSE 0]
      step(t, i) == Only({ Shifted(v) :
                             v \in { AddMul(u, (u[0] * M.ninv) % Radix, M.n, M) :
                                       u \in {AddMul(t, a[i], b, M)} } })
  IN  Accumulate(step, [k \in 0 .. M.nl + 1 |-> 0], M.nl)

(* a * b / R mod n. *)
MontMul(a, b, M) ==
  Only({ IF t[M.nl] # 0 \/ Gte(t, M.n, M.nl) THEN SubLimbs(t, M.n, M.nl)
         ELSE [k \in 0 .. M.nl - 1 |-> t[k]] :
           t \in { Product(x, y, M) : x \in {a}, y \in {b} } })

Modulus(n, nl, adx) ==
  [n |-> [k \in 0 .. nl - 1 |-> n[k]], nl |-> nl, ninv |-> MontNinv(n[0]), adx |-> adx]

(***************************************************************************)
(* Powers of two.                                                          *)
(***************************************************************************)
Bit(e, k) == (e[k \div LimbBits] \div 2^(k % LimbBits)) % 2

(* Four bits of the exponent from bit k on, which may lie in two limbs.    *)
GetBits4(e, k) ==
  LET limb == k \div LimbBits
      o    == k % LimbBits
      low  == (e[limb] \div 2^o) % 16
  IN  IF o > LimbBits - 4 /\ limb + 1 < MaxLimbs
      THEN low + ((e[limb + 1] * 2^(LimbBits - o)) % 16) ELSE low

(* The same bit by bit, for windows of any width. *)
GetBitsW(e, k, width, nl) ==
  LET step(w, j) == IF (k + j) \div LimbBits >= nl THEN w ELSE w + 2^j * Bit(e, k + j)
  IN  Accumulate(step, 0, width)

TrailingZeros(w) == Greatest({ z \in 0 .. FERMAT_WIN_MAX : w % 2^z = 0 })

(* The odd powers of two that a window needs. *)
OddPowers(two, width, M) ==
  LET four       == MontMul(two, two, M)
      step(p, k) == Append(p, MontMul(p[Len(p)], four, M))
  IN  Accumulate(step, <<two>>, 2^(width - 1) - 1)

(* A power as the products that make it: 0 squares, f multiplies by odd[f]. *)
Squares(count) == [k \in 1 .. count |-> 0]
Multiplied(r, factors, odd, M) ==
  LET step(x, k) ==
        MontMul(x, IF factors[k + 1] = 0 THEN x ELSE odd[factors[k + 1]], M)
  IN  Accumulate(step, r, Len(factors))

(* 2^e in Montgomery form, from the second bit of e down: windows of       *)
(* width bits, and single bits when fewer are left.                        *)
Pow2Window(e, msb, odd, width, M) ==
  LET Size(bit) == IF bit < width - 1 THEN 1 ELSE width
      Bits(bit, size) ==
        CASE size = 1          -> Bit(e, bit)
          [] size = FERMAT_WIN -> GetBits4(e, bit - (size - 1))
          [] OTHER             -> GetBitsW(e, bit - (size - 1), size, M.nl)
      Factors(w, z, size) ==
        IF w = 0 THEN Squares(size)
        ELSE Squares(size - z) \o <<(w \div 2^z) \div 2 + 1>> \o Squares(z)
      step(s, k) ==
        IF s.bit < 0 THEN s
        ELSE Only({ [res |-> Multiplied(s.res, Factors(w, TrailingZeros(w), Size(s.bit)), odd, M),
                     bit |-> s.bit - Size(s.bit)] : w \in {Bits(s.bit, Size(s.bit))} })
  IN  Accumulate(step, [res |-> odd[1], bit |-> msb - 1], msb).res

(***************************************************************************)
(* The tests.                                                              *)
(***************************************************************************)
(* One limb: with the products of 128 bits that the compiler has.          *)
PowerU64(n, e) ==
  LET step(s, k) == [acc  |-> IF (e \div 2^k) % 2 = 1 THEN (s.acc * s.base) % n ELSE s.acc,
                     base |-> (s.base * s.base) % n]
  IN  Accumulate(step, [acc |-> 1, base |-> 2 % n], LimbBits).acc

FermatU64(n) == IF n < 4 THEN n >= 2 ELSE n % 2 = 1 /\ PowerU64(n, n - 1) = 1
EulerU64(n)  ==
  IF n < 4 THEN n >= 2 ELSE n % 2 = 1 /\ PowerU64(n, (n - 1) \div 2) \in {1, n - 1}

(* What does not depend on the exponent. *)
Precomp(n, nl, width, adx) ==
  Only({ [M |-> M, odd |-> OddPowers(two, width, M), width |-> width] :
           M \in {Modulus(n, nl, adx)}, two \in {ModDbl(RModN(n, nl), n, nl)} })

\* 2^e mod n, out of Montgomery form by a product with one.
PowerOfTwo(p, e) ==
  MontMul(Pow2Window(e, FindMsb(e, p.M.nl), p.odd, p.width, p.M),
          One(p.M.nl), p.M)

Halved(e, nl) ==
  [k \in 0 .. nl - 1 |->
     (e[k] \div 2) + (IF k = nl - 1 THEN 0 ELSE (e[k + 1] * 2^(LimbBits - 1)) % Radix)]

FermatPrecomp(p) == PowerOfTwo(p, Minus1(p.M.n)) = One(p.M.nl)
EulerPrecomp(p)  ==
  PowerOfTwo(p, Halved(Minus1(p.M.n), p.M.nl)) \in {One(p.M.nl), Minus1(p.M.n)}

FermatExact(n, nl, adx) == n[0] % 2 = 1 /\ \E p \in {Precomp(n, nl, FERMAT_WIN, adx)} : FermatPrecomp(p)
EulerExact(n, nl, adx)  == n[0] % 2 = 1 /\ \E p \in {Precomp(n, nl, FERMAT_WIN, adx)} : EulerPrecomp(p)
FermatDynwin(n, nl, width, adx) == n[0] % 2 = 1 /\ \E p \in {Precomp(n, nl, width, adx)} : FermatPrecomp(p)
EulerDynwin(n, nl, width, adx)  == n[0] % 2 = 1 /\ \E p \in {Precomp(n, nl, width, adx)} : EulerPrecomp(p)

FermatTest(n, nl, width, adx) ==
  /\ 0 < nl /\ nl <= MaxLimbs
  /\ IF nl = 1 THEN FermatU64(n[0])
     ELSE IF width = FERMAT_WIN THEN FermatExact(n, nl, adx) ELSE FermatDynwin(n, nl, width, adx)
EulerTest(n, nl, width, adx) ==
  /\ 0 < nl /\ nl <= MaxLimbs
  /\ IF nl = 1 THEN EulerU64(n[0])
     ELSE IF width = FERMAT_WIN THEN EulerExact(n, nl, adx) ELSE EulerDynwin(n, nl, width, adx)

(***************************************************************************)
(* Numbers as limbs.                                                       *)
(***************************************************************************)
EffectiveNl(a) == Greatest({ k \in 1 .. MaxLimbs : k = 1 \/ a[k - 1] # 0 })

(* The limbs of a number that fits, and how many it needs; 0 if it does    *)
(* not fit.                                                                *)
Export(x) == [k \in 0 .. MaxLimbs - 1 |-> (x \div 2^(LimbBits * k)) % Radix]
Fits(x)   == x < 2^(LimbBits * MaxLimbs)

(* a + delta, delta of one limb, with the carry that is left.              *)
AddU64(a, delta) ==
  LET step(s, k) == [a     |-> [s.a EXCEPT ![k] = (@ + s.carry) % Radix],
                     carry |-> (s.a[k] + s.carry) \div Radix]
  IN  Accumulate(step, [a |-> a, carry |-> delta], MaxLimbs)
=============================================================================
