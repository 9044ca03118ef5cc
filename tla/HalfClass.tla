------------------------------ MODULE HalfClass -----------------------------
(***************************************************************************)
(* The two-pass scan of src/new_src/halfclass.c: half (or a quarter) of    *)
(* the residue classes mod 60 is sieved and tested everywhere, the hidden  *)
(* classes only between two visible primes far enough apart, and before    *)
(* the first visible prime of a window.                                    *)
(*                                                                         *)
(* Prime and Need are parameters: which numbers are prime, and how long a  *)
(* gap must be, by its start, to reach the merit threshold.  The mini      *)
(* sieve discards composites only (its primes are far below the numbers it *)
(* is used on) and the Miller-Rabin test of what is left is taken to be    *)
(* exact, so together they are Prime.                                      *)
(***************************************************************************)
EXTENDS Integers

CONSTANTS Prime, Need

(* halfclass_visible_mask, halfclass_hidden_mask.                          *)
VisibleClasses(quarter) ==
  IF quarter THEN {1, 7, 11, 13} ELSE {1, 7, 11, 13, 17, 19, 23, 29}
HiddenClasses(quarter) ==
  {31, 37, 41, 43, 47, 49, 53, 59} \cup IF quarter THEN {17, 19, 23, 29} ELSE {}

(* halfclass_base_mod60, from the header's base and the window's offset.   *)
BaseMod60(header, start) == ((header % 60) + (start % 60)) % 60
ClassOf(base60, off)     == (base60 + (off % 60)) % 60

FilterOffsets(quarter, base60, offs) ==
  { x \in offs : ClassOf(base60, x) \in VisibleClasses(quarter) }

(* halfclass_collect_hidden: hidden primes in [sub, sub + interval).       *)
HiddenPrimes(quarter, sub, interval) ==
  { x \in 0 .. interval - 1 :
      ClassOf(sub % 60, x) \in HiddenClasses(quarter) /\ sub + x \in Prime }

Qualifies(start, len) == len >= Need[start]

(* Neighbours in a set of offsets. *)
Least(S) == CHOOSE x \in S : \A y \in S : x <= y
Adjacent(S) ==
  { <<a, Least({ x \in S : x > a })>> : a \in { y \in S : \E x \in S : x > y } }

(* halfclass_emit_chain: pairs that begin in the owned part and qualify.   *)
EmitChain(base, chain, owned) ==
  { g \in Adjacent(chain) : g[1] < owned /\ Qualifies(base + g[1], g[2] - g[1]) }

(* halfclass_resolve_gap. *)
ResolveGap(quarter, base, a, b, owned) ==
  EmitChain(base, {a, b} \cup { a + x : x \in HiddenPrimes(quarter, base + a, b - a) }, owned)

(* halfclass_verify_prefix: up to the offset v, which may be a prime.      *)
VerifyPrefix(quarter, base, v, terminal_is_prime, owned) ==
  EmitChain(base, HiddenPrimes(quarter, base, v) \cup
                  IF terminal_is_prime THEN {v} ELSE {}, owned)
=============================================================================
