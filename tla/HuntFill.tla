------------------------------ MODULE HuntFill ------------------------------
(***************************************************************************)
(* The fill of one flight of the prime-gap hunt (gh_fill_... in            *)
(* src/new_src/gap_hunt.c): for each of the K windows of the flight the    *)
(* sieve marks a bitmap from the residues of the window's base and the     *)
(* survivors are packed into the flight's candidate buffer.                *)
(*                                                                         *)
(* The residues are cached on the device across windows and flights, and   *)
(* the host keeps the window the cache stands for (res_k, res_valid).  A   *)
(* window is marked from scratch (mode 0), by one step of the cache        *)
(* (mode 1), or by folding k - res_k steps into the marking while the      *)
(* cache stays anchored (mode 2); in mode 2 two windows may be marked      *)
(* together into the two bitmaps.                                          *)
(*                                                                         *)
(* A window stands for the candidates packed for it: one cell of the       *)
(* buffer, holding the base its candidates were built from and the window  *)
(* its bitmap was marked for.  Every operator returns the set of outcomes  *)
(* the step may have, with the number of faults of the device it took.     *)
(***************************************************************************)
EXTENDS Integers

CONSTANTS
  K,        \* windows per flight (g_batch)
  MLimit,   \* how far the cache may be folded (res_m_limit)
  CandCap   \* cells in a flight's candidate buffer (cap)

ASSUME FillAssumption == /\ K \in Nat \ {0} /\ MLimit \in Nat
                         /\ CandCap \in Nat /\ K <= CandCap

VARIABLE config  \* fixed: the settings of the walk

None  == -1
Torn  == -2      \* residues or a bitmap that a failed call left half written

Slots   == 0 .. K - 1
Cells   == 0 .. CandCap - 1
Windows == Nat \cup {None, Torn}
Cell    == [base : Windows, marks : Windows]
NoCell  == [base |-> None, marks |-> None]

(* The sieve: residue cache and the two bitmaps.                           *)
Engine == [res_k : Nat, res_valid : BOOLEAN, dev_k : Windows,
           bitmap : [{0, 1} -> Windows]]
NewEngine == [res_k |-> 0, res_valid |-> FALSE, dev_k |-> None,
              bitmap |-> [x \in {0, 1} |-> None]]

(* The part of a flight the fill writes: base_k, cum, the candidate buffer *)
(* and the running count of cells used.                                    *)
Pack == [base : [Slots -> Nat], cum : [Slots -> Nat],
         cands : [Cells -> Cell], used : Nat]
NewPack == [base |-> [i \in Slots |-> 0], cum |-> [i \in Slots |-> 0],
            cands |-> [c \in Cells |-> NoCell], used |-> 0]

Outcome(ok, faults, e, b) == [ok |-> ok, faults |-> faults, e |-> e, b |-> b]

(***************************************************************************)
(* Mark.                                                                   *)
(***************************************************************************)
(* gpu_adapter_window_fits: later windows exceed the width of the kernels. *)
Fits(k) == k < config.fit

CanFold(e, k) ==
  config.incr = 2 /\ e.res_valid /\ k >= e.res_k /\ (k - e.res_k) <= MLimit
CanStep(e, k) == config.incr = 1 /\ e.res_valid /\ k = e.res_k + 1

(* The window the marks are for: the cache plus what is folded in.         *)
MarksFor(e, k) ==
  IF CanFold(e, k) THEN e.dev_k + (k - e.res_k)
  ELSE IF CanStep(e, k) THEN e.dev_k + 1 ELSE k

\* Mutant: res_k follows the window although the cache stayed anchored.
MarkedAndMoved(e, i, k) ==
  [e EXCEPT !.res_k = k, !.res_valid = TRUE,
            !.dev_k = IF CanFold(e, k) THEN @ ELSE MarksFor(e, k),
            !.bitmap[i % 2] = MarksFor(e, k)]

Marked(e, i, k) ==
  [e EXCEPT !.res_k = IF CanFold(e, k) THEN @ ELSE k,
            !.res_valid = TRUE,
            !.dev_k = IF CanFold(e, k) THEN @ ELSE MarksFor(e, k),
            !.bitmap[i % 2] = MarksFor(e, k)]

(* A failed mark, or a residue check that does not match.                  *)
MarkFailed(e, i, k) ==
  [e EXCEPT !.res_valid = FALSE,
            !.dev_k = IF CanFold(e, k) THEN @ ELSE Torn,
            !.bitmap[i % 2] = Torn]

(***************************************************************************)
(* Extract: at a fixed stride when the counts are deferred, else packed    *)
(* after the windows before it.                                            *)
(***************************************************************************)
Place(b, i)   == IF config.defer THEN i ELSE b.used
HasRoom(b, i) == Place(b, i) < CandCap

Extracted(e, b, i, k) ==
  [b EXCEPT !.cum[i] = Place(b, i), !.used = Place(b, i) + 1,
            !.cands[Place(b, i)] = [base |-> k, marks |-> e.bitmap[i % 2]]]

(***************************************************************************)
(* gh_fill_window_step: mark, commit, extract.                             *)
(***************************************************************************)
OneWindow(e, b, i, k) ==
  LET nb == [b EXCEPT !.base[i] = k]
      m  == Marked(e, i, k)
  IN  IF ~Fits(k) THEN {Outcome(FALSE, 0, e, nb)}
      ELSE {Outcome(FALSE, 1, MarkFailed(e, i, k), nb)} \cup
           IF HasRoom(nb, i)
           THEN {Outcome(FALSE, 1, m, nb), Outcome(TRUE, 0, m, Extracted(m, nb, i, k))}
           ELSE {Outcome(FALSE, 0, m, nb)}

(* The per-window path for a pair, after n faults.                         *)
TwoWindows(n, e, b, i, k) ==
  UNION { IF o.ok THEN { Outcome(p.ok, n + o.faults + p.faults, p.e, p.b) :
                           p \in OneWindow(o.e, o.b, i + 1, k + 1) }
                  ELSE { Outcome(FALSE, n + o.faults, o.e, o.b) } :
          o \in OneWindow(e, b, i, k) }

(***************************************************************************)
(* gh_fill_pair_step and its fallback in gh_fill_step.  The fallback also  *)
(* runs when the extract of the first or the second window failed: the     *)
(* first window may then have been packed already, and is packed again.    *)
(***************************************************************************)
PairMarked(e, k) ==
  [e EXCEPT !.bitmap = [x \in {0, 1} |-> MarksFor(e, k + x)]]
PairDeclined(e) == [e EXCEPT !.bitmap = [x \in {0, 1} |-> Torn]]

Pair(e, b, i, k) ==
  LET nb == [b EXCEPT !.base[i] = k, !.base[i + 1] = k + 1]
      m  == PairMarked(e, k)
      a  == Extracted(m, nb, i, k)
  IN  IF ~(Fits(k) /\ Fits(k + 1)) THEN TwoWindows(0, e, b, i, k)
      ELSE TwoWindows(1, PairDeclined(e), nb, i, k)
           \cup TwoWindows(IF HasRoom(nb, i) THEN 1 ELSE 0, m, nb, i, k)
           \cup IF ~HasRoom(nb, i) THEN {}
                ELSE TwoWindows(IF HasRoom(a, i + 1) THEN 1 ELSE 0, m, a, i, k)
                     \cup IF HasRoom(a, i + 1)
                          THEN {Outcome(TRUE, 0, m, Extracted(m, a, i + 1, k + 1))}
                          ELSE {}

(* gh_fill_quantum, gh_fill_pair_ok: two windows at once from an even      *)
(* index when both can be folded.                                          *)
Quantum(e, i, k) ==
  IF i % 2 = 0 /\ i + 1 < K /\ e.res_valid /\ CanFold(e, k) /\ CanFold(e, k + 1)
  THEN 2 ELSE 1

FillStep(e, b, i, k) ==
  IF Quantum(e, i, k) = 2 THEN Pair(e, b, i, k) ELSE OneWindow(e, b, i, k)
=============================================================================
