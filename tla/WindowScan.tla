----------------------------- MODULE WindowScan -----------------------------
(***************************************************************************)
(* The scan of one window of the prime-gap hunt (src/new_src/gap_hunt.c):  *)
(* from the survivors the sieve extracted to the gaps written to the       *)
(* output file.  Two scans exist, chosen when the hunt starts:             *)
(*                                                                         *)
(*   "jump2"  gh_jump2_scan: a chain of primes is walked by testing only   *)
(*            chunks of candidates: from a prime p it goes to the first    *)
(*            candidate q at least Thr after p and searches backwards for  *)
(*            the last prime before q; when there is none, the gap from p  *)
(*            is wide and its end is searched forwards from q.             *)
(*   "full"   every candidate is tested and consecutive probable primes    *)
(*            are compared (gh_batch_process).                             *)
(*                                                                         *)
(* With GAP_HUNT_QUARTER the sieve extracts only the candidates of visible *)
(* residue classes between RegionStart and TailStart; the full scan then   *)
(* resolves a wide pair by looking for primes of the hidden classes inside *)
(* it.  The record of the flight is reused for the next window (Release    *)
(* and Fill), which is why what a scan leaves in it matters.               *)
(*                                                                         *)
(* Numbers are abstracted to their offsets in the window.  Need[a] stands  *)
(* for min_merit * ln(base + a): a gap qualifies when it is at least that  *)
(* long, and it does not shrink as the start grows; Thr is the threshold   *)
(* of the chain, computed from the window's base, hence no larger.         *)
(***************************************************************************)
EXTENDS Integers, Sequences, FiniteSets

CONSTANTS
  Offsets,      \* the offsets of a window
  Sieved,       \* possible sets of survivors of the sieve
  Pseudo,       \* offsets where the probable-prime test may err
  HiddenSets,   \* possible sets of offsets of a hidden class (base mod 60)
  RegionStart,  \* quarter mode filters classes from here ...
  TailStart,    \* ... up to here
  Need,         \* least length of a gap worth reporting, by its start
  Thr,          \* the chain's threshold
  Chunk,        \* widest slice of candidates tested at once
  Wave,         \* width of the first slice (GAP_HUNT_JUMP2_WAVE)
  Cap,          \* room for pairs per window (GAP_HUNT_JUMP_CAP)
  Configs       \* allowed <<scan, quarter>>

ASSUME OffsetsAssumption == Offsets \subseteq Nat /\ IsFiniteSet(Offsets)
ASSUME NeedAssumption ==
  /\ Need \in [Offsets -> Nat]
  /\ \A a, b \in Offsets : a <= b => Need[a] <= Need[b]
ASSUME ThrAssumption == Thr \in Nat \ {0} /\ \A a \in Offsets : Thr <= Need[a]
ASSUME WidthAssumption == Chunk \in Nat \ {0} /\ Wave \in Nat /\ Cap \in Nat
ASSUME RegionAssumption ==
  /\ RegionStart \in Nat /\ TailStart \in Nat
  /\ HiddenSets \subseteq SUBSET Offsets
  /\ Sieved \subseteq SUBSET Offsets /\ Pseudo \subseteq Offsets
ASSUME ConfigsAssumption == Configs \subseteq {"jump2", "full"} \X BOOLEAN

(* A window: what survives the sieve, what passes the probable-prime test, *)
(* what is prime, which offsets are of a hidden class, and whether the     *)
(* window's base is even (the CRT template only speaks of even bases).     *)
Window == [surv : SUBSET Offsets, prime : SUBSET Offsets, mr : SUBSET Offsets,
           hid : SUBSET Offsets, even : BOOLEAN]

None == -1
NoWindow == [surv |-> {}, mr |-> {}, prime |-> {}, hid |-> {}, even |-> TRUE]

VARIABLES
  config,   \* <<scan, quarter>>, fixed
  win,      \* the window in the flight
  off,      \* win_off: offsets of the extracted candidates, by index
  count,    \* how many
  phase,    \* of the flight: J2_... while the chain walks
  pidx,     \* chain: last prime found (full scan: previous prime, or None)
  qidx,     \* chain: first candidate at least Thr after it
  clo, chi, \* the slice under test: indices clo .. chi-1 (full scan: clo is j)
  wcur,     \* width of the next slice
  pairs,    \* jump_s, jump_e: wide pairs found, as offsets; Len is jump_n
  out       \* gaps written to the output file for this window

vars == <<config, win, off, count, phase, pidx, qidx, clo, chi, wcur, pairs, out>>

scan    == config[1]
quarter == config[2]

Indices == 0 .. count - 1
W0      == IF Wave >= 2 /\ Wave < Chunk THEN Wave ELSE Chunk
Least(a, b)    == IF a < b THEN a ELSE b
Greatest(a, b) == IF a > b THEN a ELSE b
Widen(w)       == Least(2 * w, Chunk)

(***************************************************************************)
(* Fill: the sieve's extraction.                                           *)
(***************************************************************************)
Hidden(w)    == { x \in w.hid : RegionStart <= x /\ x < TailStart }
Extracted(w) == IF quarter THEN w.surv \ Hidden(w) ELSE w.surv

(* A set of offsets in ascending order, by index from 0.                   *)
Rank(S, x)  == Cardinality({ y \in S : y < x })
Listing(S)  == [i \in 0 .. Cardinality(S) - 1 |-> CHOOSE x \in S : Rank(S, x) = i]

Init ==
  /\ config \in Configs
  /\ win = NoWindow /\ off = Listing({}) /\ count = 0
  /\ phase = "empty"
  /\ pidx = None /\ qidx = None
  /\ clo = 0 /\ chi = 0 /\ wcur = Chunk
  /\ pairs = <<>> /\ out = {}

Fill(w) ==
  /\ phase = "empty"
  /\ win' = w
  /\ off' = Listing(Extracted(w))
  /\ count' = Cardinality(Extracted(w))
  /\ phase' = "filled"
  /\ UNCHANGED <<config, pidx, qidx, clo, chi, wcur, pairs, out>>

(***************************************************************************)
(* The chain of gh_jump2_scan.  One action is one round: the slice         *)
(* clo .. chi-1 was tested and the window's record advances.               *)
(***************************************************************************)
IsProbable(i) == off[i] \in win.mr
Found    == { i \in clo .. chi - 1 : IsProbable(i) }
FirstOf(S) == CHOOSE i \in S : \A j \in S : i <= j
LastOf(S)  == CHOOSE i \in S : \A j \in S : j <= i

\* Mutant: a candidate exactly Thr away is not far enough.
BeyondThr(p) == { j \in Indices : j > p /\ off[j] > off[p] + Thr }

(* gh_jump2_find_q: the first index after p at least Thr away, or None.    *)
FarFrom(p) == { j \in Indices : j > p /\ off[j] >= off[p] + Thr }
FindQ(p)   == IF FarFrom(p) = {} THEN None ELSE FirstOf(FarFrom(p))

\* Mutant: jump_n is not reset.
StartChainKeepsPairs ==
  /\ phase = "filled" /\ scan = "jump2" /\ count > 0
  /\ pairs' = pairs
  /\ pidx' = None /\ qidx' = None
  /\ phase' = "FIND_FIRST"
  /\ clo' = 0 /\ chi' = Least(count, W0) /\ wcur' = Widen(W0)
  /\ UNCHANGED <<config, win, off, count, out>>

StartChain ==
  /\ phase = "filled" /\ scan = "jump2" /\ count > 0
  /\ pairs' = <<>>                       \* jump_n = 0: stale pairs go away
  /\ pidx' = None /\ qidx' = None
  /\ phase' = "FIND_FIRST"
  /\ clo' = 0 /\ chi' = Least(count, W0) /\ wcur' = Widen(W0)
  /\ UNCHANGED <<config, win, off, count, out>>

(* A flight without candidates is not scanned, so its pairs stay as the    *)
(* previous fill left them.                                                *)
SkipEmpty ==
  /\ phase = "filled" /\ scan = "jump2" /\ count = 0
  /\ phase' = "DONE"
  /\ UNCHANGED <<config, win, off, count, pidx, qidx, clo, chi, wcur, pairs, out>>

(* Prime p found: jump to q and search backwards from it.                  *)
JumpFrom(p) ==
  LET q == FindQ(p) IN
  /\ pidx' = p /\ qidx' = q
  /\ IF q = None
     THEN phase' = "DONE" /\ UNCHANGED <<clo, chi, wcur>>
     ELSE /\ phase' = "JUMP_BACK"
          /\ clo' = Greatest(q - W0, p + 1) /\ chi' = q
          /\ wcur' = Widen(W0)

\* Mutant: off by one at the end of the candidates.
NextSliceUpForever ==
  /\ clo' = chi /\ chi' = Least(chi + wcur, count) /\ wcur' = Widen(wcur)
  /\ phase' = IF chi > count THEN "DONE" ELSE phase
  /\ UNCHANGED <<pidx, qidx, pairs>>

(* The next slice upwards, or the end of the candidates.                   *)
NextSliceUp ==
  /\ clo' = chi /\ chi' = Least(chi + wcur, count) /\ wcur' = Widen(wcur)
  /\ phase' = IF chi >= count THEN "DONE" ELSE phase
  /\ UNCHANGED <<pidx, qidx, pairs>>

FindFirst ==
  /\ phase = "FIND_FIRST"
  /\ IF Found # {} THEN JumpFrom(FirstOf(Found)) /\ UNCHANGED pairs
                   ELSE NextSliceUp
  /\ UNCHANGED <<config, win, off, count, out>>

Hop ==
  /\ phase = "JUMP_BACK" /\ Found # {}
  /\ JumpFrom(LastOf(Found))
  /\ UNCHANGED <<config, win, off, count, pairs, out>>

(* No prime between p and q: the pair is wide, look for its end from q on. *)
AllComposite ==
  /\ phase = "JUMP_BACK" /\ Found = {} /\ clo = pidx + 1
  /\ clo' = qidx /\ chi' = Least(qidx + W0, count) /\ wcur' = Widen(W0)
  /\ phase' = IF Least(qidx + W0, count) <= qidx THEN "DONE" ELSE "FIND_END"
  /\ UNCHANGED <<config, win, off, count, pidx, qidx, pairs, out>>

SliceDown ==
  /\ phase = "JUMP_BACK" /\ Found = {} /\ clo # pidx + 1
  /\ chi' = clo /\ clo' = Greatest(clo - wcur, pidx + 1) /\ wcur' = Widen(wcur)
  /\ UNCHANGED <<config, win, off, count, phase, pidx, qidx, pairs, out>>

FindEnd ==
  /\ phase = "FIND_END"
  /\ Found # {} => Len(pairs) < Cap
  /\ IF Found # {}
     THEN /\ pairs' = Append(pairs, <<off[pidx], off[FirstOf(Found)]>>)
          /\ JumpFrom(FirstOf(Found))
     ELSE NextSliceUp
  /\ UNCHANGED <<config, win, off, count, out>>

(* No room for another pair: the scan fails and the walk stops.            *)
CapReached ==
  /\ phase = "FIND_END" /\ Found # {} /\ Len(pairs) >= Cap
  /\ phase' = "failed"
  /\ UNCHANGED <<config, win, off, count, pidx, qidx, clo, chi, wcur, pairs, out>>

(***************************************************************************)
(* gh_batch_process.  A gap is written when it is long enough for its own  *)
(* start and both ends pass the full primality test.                       *)
(***************************************************************************)
Qualifies(g) == g[2] - g[1] >= Need[g[1]]
Verified(g)  == g[1] \in win.prime /\ g[2] \in win.prime

(* The chain's indices are locals of the scan. *)
ForgetSlices ==
  pidx' = None /\ qidx' = None /\ clo' = 0 /\ chi' = 0 /\ wcur' = Chunk

ReportPairs ==
  /\ phase = "DONE"
  /\ out' = { pairs[n] : n \in { m \in 1 .. Len(pairs) :
                                   Qualifies(pairs[m]) /\ Verified(pairs[m]) } }
  /\ phase' = "reported"
  /\ ForgetSlices
  /\ UNCHANGED <<config, win, off, count, pairs>>

StartFull ==
  /\ phase = "filled" /\ scan = "full"
  /\ phase' = "FULL" /\ clo' = 0 /\ pidx' = None
  /\ UNCHANGED <<config, win, off, count, qidx, chi, wcur, pairs, out>>

(* Only where every class was extracted is a pair of neighbours a pair of  *)
(* consecutive primes; elsewhere the hidden classes inside are tested.     *)
Direct(a, b) ==
  ~quarter \/ (a < RegionStart /\ b < RegionStart)
           \/ (a >= TailStart /\ b >= TailStart)

(* The CRT template may discard a hidden candidate before it is tested: it *)
(* proves composites for an even base, and for an odd one it would discard *)
(* every candidate, so it is not used then.                                *)
UseTemplate        == win.even
TemplateDiscards(x) == UseTemplate /\ (IF win.even THEN x \notin win.mr ELSE TRUE)

HiddenInside(a, b) ==
  { x \in win.hid : a < x /\ x < b /\ x \in win.mr /\ ~TemplateDiscards(x) }
Chain(a, b) == {a, b} \cup HiddenInside(a, b)

(* halfclass_resolve_gap_ex: neighbours in the chain a, hidden primes, b.  *)
Resolved(a, b) ==
  { g \in Chain(a, b) \X Chain(a, b) :
      /\ g[1] < g[2]
      /\ \A x \in Chain(a, b) : x <= g[1] \/ g[2] <= x }

GapsBetween(a, b) == IF Direct(a, b) THEN {<<a, b>>} ELSE Resolved(a, b)

FullStep ==
  /\ phase = "FULL" /\ clo < count
  /\ clo' = clo + 1
  /\ IF ~IsProbable(clo)
     THEN UNCHANGED <<pidx, out>>
     ELSE /\ pidx' = clo
          /\ out' = IF pidx # None /\ Qualifies(<<off[pidx], off[clo]>>)
                    THEN out \cup { g \in GapsBetween(off[pidx], off[clo]) :
                                      Qualifies(g) /\ Verified(g) }
                    ELSE out
  /\ UNCHANGED <<config, win, off, count, phase, qidx, chi, wcur, pairs>>

FullEnds ==
  /\ phase = "FULL" /\ clo >= count
  /\ phase' = "reported"
  /\ ForgetSlices
  /\ UNCHANGED <<config, win, off, count, pairs, out>>

(* The flight's record is free for the next fill; nothing in it is reset.  *)
Release ==
  /\ phase = "reported"
  /\ phase' = "empty" /\ win' = NoWindow /\ off' = Listing({}) /\ count' = 0
  /\ out' = {}
  /\ UNCHANGED <<config, pidx, qidx, clo, chi, wcur, pairs>>

Scan ==
  \/ StartChain \/ SkipEmpty
  \/ FindFirst \/ Hop \/ AllComposite \/ SliceDown \/ FindEnd \/ CapReached
  \/ ReportPairs
  \/ StartFull \/ FullStep \/ FullEnds

FillAny ==
  \E s \in Sieved, h \in HiddenSets, e \in BOOLEAN : \E p \in SUBSET s :
    \E t \in SUBSET (s \cap Pseudo) :
      Fill([surv |-> s, prime |-> p, mr |-> p \cup t, hid |-> h, even |-> e])

Next == FillAny \/ Scan \/ Release

Spec == Init /\ [][Next]_vars /\ WF_vars(Scan)
-----------------------------------------------------------------------------
(***************************************************************************)
(* Properties.                                                             *)
(***************************************************************************)
TypeOK ==
  /\ config \in Configs
  /\ win \in Window
  /\ win.prime \subseteq win.mr /\ win.mr \subseteq win.surv
  /\ count \in Nat
  /\ off \in [Indices -> Offsets]
  /\ phase \in {"empty", "filled", "FIND_FIRST", "JUMP_BACK", "FIND_END", "DONE",
                "FULL", "reported", "failed"}
  /\ pidx \in Int /\ qidx \in Int /\ clo \in Int /\ chi \in Int
  /\ wcur \in Nat
  /\ pairs \in Seq(Offsets \X Offsets) /\ Len(pairs) <= Cap
  /\ out \subseteq Offsets \X Offsets

(* The gaps the window really has: consecutive primes, far enough apart.   *)
Consecutive(g) ==
  /\ g[1] \in win.prime /\ g[2] \in win.prime /\ g[1] < g[2]
  /\ \A x \in win.prime : x <= g[1] \/ g[2] <= x
TrueGap(g) == Consecutive(g) /\ Qualifies(g)

(* Every gap written to the output file is a gap between consecutive       *)
(* primes and long enough, whatever the test's pseudoprimes, the slices    *)
(* and the previous occupant of the flight's record were.                  *)
NoFalseGap == \A g \in out : TrueGap(g)

(* A gap lies in a container when primes that were extracted enclose it.   *)
(* Without class filtering every gap does.                                 *)
Contained(g) ==
  \E i, j \in Indices : /\ off[i] \in win.prime /\ off[j] \in win.prime
                        /\ off[i] <= g[1] /\ g[2] <= off[j]

(* When the probable-prime test errs on no candidate of the window, every  *)
(* gap of the window that lies in a container has been written when the    *)
(* scan ends: jumping over candidates and filtering classes loses none.    *)
NoMissedGap ==
  (phase = "reported" /\ win.mr = win.prime)
    => \A g \in win.prime \X win.prime :
         (TrueGap(g) /\ Contained(g)) => g \in out

(* A scan that was started ends, with a report or because the room for     *)
(* pairs was used up.                                                      *)
ScanEnds == (phase = "filled") ~> (phase \in {"reported", "failed"})
=============================================================================
