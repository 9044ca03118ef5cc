------------------------------ MODULE OddSieve ------------------------------
(***************************************************************************)
(* The window sieve of src/new_src/sieve_core.c: one bit per odd number of *)
(* a window, marked by small primes and extracted word by word, with the   *)
(* vector paths for the smallest primes and for the extraction, and with   *)
(* the primes from a split on marked by the GPU (hybrid).                  *)
(*                                                                         *)
(* A bitmap is the set of its marked slots.  The multiplication by a       *)
(* reciprocal that sieve_fast_mod and the kernel use is written as %.      *)
(***************************************************************************)
EXTENDS Integers

CONSTANTS
  SmallPrimes,  \* the odd ones of small_primes
  WordBits,     \* bits of a bitmap word (64)
  Lanes,        \* words of a vector (4)
  VectorMax     \* SIEVE_AVX2_PRIME_MAX (63)

ASSUME SieveAssumption ==
  /\ SmallPrimes \subseteq { p \in Nat : p >= 3 /\ p % 2 = 1 }
  /\ WordBits \in Nat \ {0} /\ Lanes \in Nat \ {0} /\ VectorMax \in Nat

Block == WordBits * Lanes    \* SIEVE_AVX2_BLOCK_OFFSETS

(* The odd numbers of a window of the given size: slot k is the offset     *)
(* first + 2k.                                                             *)
FirstOdd(base)         == IF base % 2 = 1 THEN 0 ELSE 1
OddCount(size, first)  == (size - first + 1) \div 2
Slots(size, first)     == 0 .. OddCount(size, first) - 1

Below(r, p) == IF r >= p THEN r - p ELSE r

(* The first slot that p divides; base_mod is the residue of the base the  *)
(* offset counts from.                                                     *)
FirstSlot(base_mod, offset, p, first) ==
  LET r == Below(Below(base_mod + (offset % p), p) + (first % p), p)
      t == IF r = 0 THEN 0 ELSE p - r
  IN  (t * ((p + 1) \div 2)) % p

(* Every p-th slot from pos on. *)
Progression(pos, p, n) == { k \in pos .. n - 1 : (k - pos) % p = 0 }

(* Whole blocks are or-ed with a table of masks by phase, from phase_0 on. *)
MaskBits(p, phase)   == { x \in 0 .. Block - 1 : (phase + x) % p = 0 }
PhaseOf(p, pos, b)   == (((p - (pos % p)) % p) + b * (Block % p)) % p
VectorMarks(p, pos, blocks) ==
  UNION { { b * Block + x : x \in MaskBits(p, PhaseOf(p, pos, b)) } : b \in 0 .. blocks - 1 }
AfterVector(p, pos, end) ==
  IF pos < end THEN pos + ((end - pos + p - 1) \div p) * p ELSE pos

(* The marks of one prime on the CPU. *)
Marks(p, pos, n, avx) ==
  LET blocks == IF avx /\ p <= VectorMax THEN n \div Block ELSE 0
  IN  VectorMarks(p, pos, blocks) \cup
      Progression(IF blocks > 0 THEN AfterVector(p, pos, blocks * Block) ELSE pos, p, n)

(* A window of the header's range, from residues of the header's base.     *)
CachedBitmap(base, offset, n, first, avx) ==
  UNION { Marks(p, FirstSlot(base % p, offset, p, first), n, avx) : p \in SmallPrimes }

(* The same from residues of the window's own base, taken for even.        *)
FreshBitmap(base, n, avx) ==
  UNION { Marks(p, FirstSlot(base % p, 0, p, 1), n, avx) : p \in SmallPrimes }

(* The GPU marks the primes from the split on, the CPU the ones below.     *)
HighBitmap(base, offset, n, first, split) ==
  UNION { Progression(FirstSlot(base % p, offset, p, first), p, n) :
            p \in { q \in SmallPrimes : q >= split } }
HybridBitmap(base, offset, n, first, split) ==
  HighBitmap(base, offset, n, first, split) \cup
  UNION { Progression(FirstSlot(base % p, offset, p, first), p, n) :
            p \in { q \in SmallPrimes : q < split } }

(***************************************************************************)
(* Extraction: the slots of a word that are not marked; in the last word   *)
(* only those below n, whether it is read alone or as a lane of a vector.  *)
(***************************************************************************)
WordsFor(n)     == (n + WordBits - 1) \div WordBits
VectorWords(n)  == (WordsFor(n) \div Lanes) * Lanes
Unmarked(bitmap, w) == (w * WordBits .. w * WordBits + WordBits - 1) \ bitmap
LastPartial(w, n)   == w + 1 = WordsFor(n) /\ n % WordBits # 0

Masked(bitmap, w, n) ==
  IF LastPartial(w, n)
  THEN { k \in Unmarked(bitmap, w) : k < w * WordBits + (n % WordBits) }
  ELSE Unmarked(bitmap, w)

\* Mutant: the lanes of a vector are not masked.
ExtractedUnmasked(bitmap, n, avx) ==
  UNION { IF avx /\ w < VectorWords(n) THEN Unmarked(bitmap, w) ELSE Masked(bitmap, w, n) :
            w \in 0 .. WordsFor(n) - 1 }

Extracted(bitmap, n, avx) ==
  UNION { IF avx /\ w >= VectorWords(n)
          THEN { k \in Unmarked(bitmap, w) : k < n }
          ELSE Masked(bitmap, w, n) : w \in 0 .. WordsFor(n) - 1 }

Offsets(slots, first) == { first + 2 * k : k \in slots }
=============================================================================
