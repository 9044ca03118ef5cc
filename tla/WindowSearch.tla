---------------------------- MODULE WindowSearch ----------------------------
(***************************************************************************)
(* What a non-CRT worker does with the windows of one header               *)
(* (src/new_src/worker_gpu.c), on concrete numbers.  The windows cover the *)
(* range base .. base + RangeLen - 1.  Each is sieved with a halo beyond   *)
(* its end, so that the gap in which it ends is closed; its survivors are  *)
(* tested on the CPU or collected for the GPU, and the gaps that begin in  *)
(* the window are verified and queued.  Which windows a worker gets is     *)
(* MinerFarm's subject; here one worker gets all of them.                  *)
(*                                                                         *)
(* The Fermat batch of several windows is cut in pieces of the size the    *)
(* device takes, on two slots in turn; a failing call sends the whole      *)
(* batch to the CPU.  A slot whose collect failed stays busy, and a        *)
(* submission on it is refused (gpu_fermat_submit_try).                    *)
(***************************************************************************)
EXTENDS OddSieve, HalfClass, LimbEuler, Sequences, FiniteSets, Functions

CONSTANTS
  RangeLen,     \* length of a header's range (2^shift)
  OwnedSize,    \* non_crt_owned_window_size
  HaloInitial,  \* NON_CRT_HALO_INITIAL
  Lookahead,    \* NON_CRT_LOOKAHEAD_SIZE
  FlushTarget,  \* candidates that make a batch full (GPU_PENDING_FLUSH_TARGET)
  MaxWindows,   \* windows a batch has room for (GPU_BATCH_MAX_WINDOWS)
  MaxBatch,     \* candidates per submission (gpu_fermat_max_batch)
  Inputs        \* headers, settings, pseudoprimes and failures to run with

ASSUME WindowAssumption ==
  /\ RangeLen \in Nat /\ OwnedSize \in Nat \ {0} /\ RangeLen % OwnedSize = 0
  /\ HaloInitial \in Nat /\ Lookahead \in Nat /\ HaloInitial <= Lookahead
  /\ FlushTarget \in Nat /\ MaxWindows \in Nat \ {0} /\ MaxBatch \in Nat \ {0}

(* A header's base is its hash, which has 256 bits, times 2^shift; a       *)
(* window's size is a power of two.                                        *)
ASSUME InputAssumption ==
  /\ OwnedSize % 2 = 0
  /\ \A x \in Inputs : /\ x.base \in Nat \ {0} /\ x.base % 2 = 0 /\ x.split \in Nat
                       /\ x.sieve \in {"cached", "fresh", "hybrid"}
                       /\ x.cpu.width \in FERMAT_WIN_MIN .. FERMAT_WIN_MAX

(* The numbers searched are far above the primes they are sieved with.     *)
ASSUME PrimeAssumption ==
  /\ Prime \subseteq Nat
  /\ \A x \in Inputs : \A q \in Prime :
       q >= x.base => /\ q % 2 = 1 /\ \A p \in SmallPrimes : q % p # 0
                      /\ (q % 60) \in VisibleClasses(FALSE) \cup HiddenClasses(FALSE)

(* A merit is a length over the logarithm of the start: a later start needs *)
(* no shorter gap.                                                          *)
ASSUME NeedAssumption ==
  \A p, q \in Prime : Need[p] \in Int /\ (p <= q => Need[p] <= Need[q])

Windows == RangeLen \div OwnedSize

VARIABLES
  input,      \* fixed: [base, half, quarter, sieve, avx, gpu, split, cpu, pseudo, faults]
  w,          \* the window at hand
  pc,
  halo,       \* halo_size
  cand,       \* candidate offsets of the window at hand
  pend,       \* the batch: windows with their candidates
  ret,        \* where to go on after a flush
  off, next_slot, inflight, chunk, gpu_ok, verdicts,   \* of the flush under way
  slots,      \* candidates that wait in a slot of the device
  i,          \* window of the batch being processed
  found,      \* gaps queued: [nadd, len, by]
  faults      \* failures left

window == <<w, halo, cand>>
flush  == <<off, next_slot, inflight, chunk, gpu_ok, verdicts>>
vars   == <<input, window, pc, pend, ret, flush, slots, i, found, faults>>

Start     == w * OwnedSize
Remaining == RangeLen - Start
ScanSize  == IF OwnedSize + halo > Remaining THEN Remaining ELSE OwnedSize + halo
Hybrid    == input.sieve = "hybrid"
Spend     == faults > 0 /\ faults' = faults - 1

(* GMP's Euler test passes primes, and the odd pseudoprime.                *)
Test(n) == n \in Prime \/ n \in input.pseudo

Ascending(S) ==
  [x \in 1 .. Cardinality(S) |-> CHOOSE e \in S : Cardinality({ y \in S : y <= e }) = x]

(***************************************************************************)
(* worker_limb_cache_euler.  With GAPMINER_CPU_LIMBS the limbs of the last *)
(* candidate are kept, and the next one is made by adding the difference   *)
(* of their offsets.                                                       *)
(***************************************************************************)
CacheReset == [valid |-> FALSE, limbs |-> Export(0), last |-> 0]

\* Mutant: a candidate that is too wide leaves the cache valid.
CacheValidWide(cache, from, x) ==
  LET sum == AddU64(cache.limbs, x - cache.last)
  IN  IF cache.valid /\ cache.last <= x /\ sum.carry = 0
      THEN [valid |-> TRUE, limbs |-> sum.a, last |-> x]
      ELSE [valid |-> TRUE, limbs |-> Export(from + x), last |-> x]

(* The cache for the candidate from + x: advanced, or filled anew, or      *)
(* invalid if the candidate has more limbs than there are.                 *)
CacheFor(cache, from, x) ==
  LET sum == AddU64(cache.limbs, x - cache.last)
  IN  IF cache.valid /\ cache.last <= x /\ sum.carry = 0
      THEN [valid |-> TRUE, limbs |-> sum.a, last |-> x]
      ELSE [valid |-> Fits(from + x), limbs |-> Export(from + x), last |-> x]

CpuPasses(cache, from) ==
  IF cache.valid
  THEN EulerTest(cache.limbs, EffectiveNl(cache.limbs), input.cpu.width, input.cpu.adx)
  ELSE Test(from + cache.last)

\* The caches of the candidates, one after the other.
CpuCaches(from, S) ==
  LET step(s, k) == Append(s, CacheFor(IF s = <<>> THEN CacheReset ELSE s[Len(s)], from,
                                       Ascending(S)[k + 1]))
  IN  Accumulate(step, <<>>, Cardinality(S))

\* The candidates that pass on the CPU, tested in ascending order.
CpuPassed(from, S) ==
  IF ~input.cpu.limbs THEN { x \in S : Test(from + x) }
  ELSE { cache.last : cache \in { c \in Range(CpuCaches(from, S)) : CpuPasses(c, from) } }

Init ==
  /\ input \in Inputs
  /\ w = 0 /\ pc = "loop" /\ halo = 0 /\ cand = {}
  /\ pend = <<>> /\ ret = "loop"
  /\ off = 0 /\ next_slot = 0 /\ inflight = {} /\ gpu_ok = FALSE /\ verdicts = <<>>
  /\ chunk = [s \in {0, 1} |-> [from |-> 0, n |-> 0]]
  /\ slots = [s \in {0, 1} |-> <<>>]
  /\ i = 1 /\ found = {} /\ faults = input.faults

(***************************************************************************)
(* Sieve a window: with a small halo first, which grows once if no prime   *)
(* closes the window (a sieve without survivors ends it, though none of a  *)
(* visible class does not); the GPU sieve takes the whole halo at once.    *)
(***************************************************************************)
BeginWindow ==
  /\ pc = "loop" /\ w < Windows
  /\ halo' = IF Hybrid THEN Lookahead ELSE HaloInitial
  /\ pc' = "sieve"
  /\ UNCHANGED <<input, w, cand, pend, ret, flush, slots, i, found, faults>>

Bitmap(n, first) ==
  CASE input.sieve = "cached" -> CachedBitmap(input.base, Start, n, first, input.avx)
    [] input.sieve = "fresh"  -> FreshBitmap(input.base + Start, n, input.avx)
    [] input.sieve = "hybrid" -> HybridBitmap(input.base, Start, n, first, input.split)

Survivors ==
  LET first == IF input.sieve = "fresh" THEN 1 ELSE FirstOdd(input.base)
      n     == OddCount(ScanSize, first)
  IN  Offsets(Extracted(Bitmap(n, first), n, input.avx), first)

Filtered(S) ==
  IF input.half THEN FilterOffsets(input.quarter, BaseMod60(input.base, Start), S) ELSE S

Sieve ==
  /\ pc = "sieve"
  /\ cand' = Filtered(Survivors)
  /\ pc' = IF Hybrid THEN "dispatch" ELSE "probe"
  /\ UNCHANGED <<input, w, halo, pend, ret, flush, slots, i, found, faults>>

\* Mutant: any prime of the window closes the halo.
ClosedByAny == CpuPassed(input.base + Start, cand) # {}

HaloClosed == CpuPassed(input.base + Start, { x \in cand : x >= OwnedSize }) # {}

Probe ==
  /\ pc = "probe"
  /\ IF Survivors # {} /\ ~HaloClosed /\ halo < Lookahead /\ ScanSize < Remaining
     THEN halo' = Lookahead /\ pc' = "sieve"
     ELSE pc' = "dispatch" /\ UNCHANGED halo
  /\ UNCHANGED <<input, w, cand, pend, ret, flush, slots, i, found, faults>>

(***************************************************************************)
(* worker_dispatch_candidates.                                             *)
(***************************************************************************)
(* The candidates of a batch, as <<window, offset>>.                       *)
Members(p) == UNION { {k} \X p[k].cand : k \in DOMAIN p }
Total(p)   == Cardinality(Members(p))

(* A window without survivors counts as searched; one without survivors of *)
(* a visible class only where the CPU sieved it alone.                     *)
Empty == IF Hybrid THEN Survivors = {} ELSE cand = {}

SkipWindow ==
  /\ pc = "dispatch" /\ Empty
  /\ w' = w + 1 /\ pc' = "loop"
  /\ UNCHANGED <<input, halo, cand, pend, ret, flush, slots, i, found, faults>>

DispatchCpu ==
  /\ pc = "dispatch" /\ ~input.gpu /\ ~Empty
  /\ pend' = <<[start |-> Start, cand |-> cand]>>
  /\ gpu_ok' = FALSE /\ i' = 1 /\ ret' = "loop" /\ pc' = "process"
  /\ w' = w + 1
  /\ UNCHANGED <<input, halo, cand, off, next_slot, inflight, chunk, verdicts, slots, found,
                 faults>>

DispatchGpu ==
  /\ pc = "dispatch" /\ input.gpu /\ ~Empty
  /\ Len(pend) < MaxWindows
  /\ pend' = Append(pend, [start |-> Start, cand |-> cand])
  /\ pc' = (IF Total(pend') >= FlushTarget THEN "stage" ELSE "loop") /\ ret' = "loop"
  /\ w' = w + 1
  /\ UNCHANGED <<input, halo, cand, flush, slots, i, found, faults>>

(* No room: the batch is flushed first. *)
DispatchFull ==
  /\ pc = "dispatch" /\ input.gpu /\ ~Empty
  /\ Len(pend) = MaxWindows
  /\ pc' = "stage" /\ ret' = "dispatch"
  /\ UNCHANGED <<input, window, pend, flush, slots, i, found, faults>>

EndOfRange ==
  /\ pc = "loop" /\ w = Windows
  /\ pc' = IF pend = <<>> THEN "done" ELSE "stage"
  /\ ret' = "loop"
  /\ UNCHANGED <<input, window, pend, flush, slots, i, found, faults>>

(***************************************************************************)
(* gpu_pending_flush.                                                      *)
(***************************************************************************)
(* The candidates are packed window by window, each window's ascending.    *)
Place(e) ==
  Cardinality({ d \in Members(pend) : d[1] < e[1] \/ (d[1] = e[1] /\ d[2] <= e[2]) })
NumberOf(e) == input.base + pend[e[1]].start + e[2]
Packed(y)   == NumberOf(CHOOSE e \in Members(pend) : Place(e) = y)

Stage ==
  /\ pc = "stage"
  /\ off' = 0 /\ next_slot' = 0 /\ inflight' = {} /\ i' = 1
  /\ verdicts' = [x \in 1 .. Total(pend) |-> FALSE]
  /\ \/ gpu_ok' = TRUE /\ pc' = "submit" /\ UNCHANGED faults
     \/ gpu_ok' = FALSE /\ pc' = "process" /\ Spend
  /\ UNCHANGED <<input, window, pend, ret, chunk, slots, found>>

(* The next piece goes to the next slot, unless the slot is busy.          *)
Piece == LET left == Total(pend) - off IN IF left < MaxBatch THEN left ELSE MaxBatch

Submit ==
  /\ pc = "submit" /\ off < Total(pend) /\ slots[next_slot] = <<>>
  /\ slots' = [slots EXCEPT ![next_slot] = [y \in 1 .. Piece |-> Packed(off + y)]]
  /\ chunk' = [chunk EXCEPT ![next_slot] = [from |-> off, n |-> Piece]]
  /\ inflight' = inflight \cup {next_slot}
  /\ off' = off + Piece /\ next_slot' = 1 - next_slot
  /\ pc' = IF inflight' = {0, 1} THEN "oldest" ELSE "submit"
  /\ UNCHANGED <<input, window, pend, ret, gpu_ok, verdicts, i, found, faults>>

SubmitFails ==
  /\ pc = "submit" /\ off < Total(pend)
  /\ \/ slots[next_slot] # <<>> /\ UNCHANGED faults
     \/ slots[next_slot] = <<>> /\ Spend
  /\ gpu_ok' = FALSE /\ pc' = "rest"
  /\ UNCHANGED <<input, window, pend, ret, off, next_slot, inflight, chunk, verdicts, slots, i,
                 found>>

AllSubmitted ==
  /\ pc = "submit" /\ off = Total(pend)
  /\ pc' = "rest"
  /\ UNCHANGED <<input, window, pend, ret, flush, slots, i, found, faults>>

\* Mutant: the results go where the slot's next piece will be.
VerdictsMisplaced(s) ==
  [x \in DOMAIN verdicts |->
     IF x > off - chunk[s].n /\ x <= off
     THEN Test(slots[s][x - (off - chunk[s].n)]) ELSE verdicts[x]]

(* The results of a slot, copied to the place of its piece.                *)
VerdictsWith(s) ==
  [x \in DOMAIN verdicts |->
     IF x > chunk[s].from /\ x <= chunk[s].from + chunk[s].n
     THEN Test(slots[s][x - chunk[s].from]) ELSE verdicts[x]]

CollectSlot(s) ==
  /\ verdicts' = VerdictsWith(s)
  /\ slots' = [slots EXCEPT ![s] = <<>>]
  /\ inflight' = inflight \ {s}

(* Two pieces are on the device: the older one first.                      *)
CollectOldest ==
  /\ pc = "oldest"
  /\ \/ CollectSlot(next_slot) /\ pc' = "submit" /\ UNCHANGED <<gpu_ok, faults>>
     \/ gpu_ok' = FALSE /\ pc' = "rest" /\ Spend /\ UNCHANGED <<verdicts, slots, inflight>>
  /\ UNCHANGED <<input, window, pend, ret, off, next_slot, chunk, i, found>>

(* What is left, also when the batch has failed; a slot whose collect      *)
(* fails here stays busy.                                                  *)
CollectRest ==
  /\ pc = "rest" /\ inflight # {}
  /\ LET s == Least(inflight) IN
     \/ CollectSlot(s) /\ UNCHANGED <<gpu_ok, faults>>
     \/ gpu_ok' = FALSE /\ inflight' = inflight \ {s} /\ Spend /\ UNCHANGED <<verdicts, slots>>
  /\ UNCHANGED <<input, window, pc, pend, ret, off, next_slot, chunk, i, found>>

BatchTested ==
  /\ pc = "rest" /\ inflight = {}
  /\ pc' = "process"
  /\ UNCHANGED <<input, window, pend, ret, flush, slots, i, found, faults>>

(***************************************************************************)
(* worker_process_window.                                                  *)
(***************************************************************************)
(* The offsets of a window that passed: by the batch's results for it,     *)
(* which lie behind those of the windows before it, or by the CPU's test.  *)
Passed(k) ==
  IF gpu_ok THEN { x \in pend[k].cand : verdicts[Place(<<k, x>>)] }
  ELSE CpuPassed(input.base + pend[k].start, pend[k].cand)

(* Testing ends with the first halo endpoint. *)
Tested(cands, passed) ==
  LET closers == { x \in passed : x >= OwnedSize }
  IN  IF closers = {} THEN cands ELSE { x \in cands : x <= Least(closers) }

(* gap_detection_find: neighbours that passed, of which the first is owned.*)
Detect(base, positives) ==
  { g \in Adjacent(positives) : g[1] < OwnedSize /\ Qualifies(base + g[1], g[2] - g[1]) }

(* The hidden classes before the first visible prime, or, when there is    *)
(* none, up to the last candidate.                                         *)
Prefix(base, tested, positives) ==
  IF tested = {} THEN {}
  ELSE IF positives # {} /\ Least(positives) > 0
  THEN VerifyPrefix(input.quarter, base, Least(positives), TRUE, OwnedSize)
  ELSE LET last == Greatest(tested)
       IN  VerifyPrefix(input.quarter, base, last, last \in positives, OwnedSize)

(* Gaps of a window with what they were found by: the prefix (<<>>), or a  *)
(* gap between visible primes.                                             *)
Reported(win, tested, positives) ==
  LET base      == input.base + win.start
      Gap(g, v) == [nadd |-> win.start + g[1], len |-> g[2] - g[1], by |-> v]
      visible   == Detect(base, positives)
  IN  IF input.half
      THEN { Gap(g, <<>>) : g \in Prefix(base, tested, positives) } \cup
           UNION { { Gap(g, v) : g \in ResolveGap(input.quarter, base, v[1], v[2], OwnedSize) } :
                     v \in visible }
      ELSE { Gap(g, g) : g \in visible }

(* BPSW on both ends. *)
Verified(g) == input.base + g.nadd \in Prime /\ input.base + g.nadd + g.len \in Prime

ProcessWindow ==
  /\ pc = "process" /\ i <= Len(pend)
  /\ \E passed \in {Passed(i)} : \E tested \in {Tested(pend[i].cand, passed)} :
       found' = found \cup
                { g \in Reported(pend[i], tested, passed \cap tested) : Verified(g) }
  /\ i' = i + 1
  /\ UNCHANGED <<input, window, pc, pend, ret, flush, slots, faults>>

BatchDone ==
  /\ pc = "process" /\ i > Len(pend)
  /\ pend' = <<>> /\ pc' = ret
  /\ UNCHANGED <<input, window, ret, flush, slots, i, found, faults>>

Next ==
  \/ BeginWindow \/ Sieve \/ Probe
  \/ SkipWindow \/ DispatchCpu \/ DispatchGpu \/ DispatchFull \/ EndOfRange
  \/ Stage \/ Submit \/ SubmitFails \/ AllSubmitted
  \/ CollectOldest \/ CollectRest \/ BatchTested
  \/ ProcessWindow \/ BatchDone

Spec == Init /\ [][Next]_vars
-----------------------------------------------------------------------------
(***************************************************************************)
(* Properties.                                                             *)
(***************************************************************************)
(* The survivors of a window are its odd numbers without a small factor,   *)
(* and of a visible class, no more and no fewer: whichever way the marks   *)
(* were made and extracted, at every size of window and halo.              *)
SurvivorsExact ==
  pc \in {"probe", "dispatch"} =>
    cand = { x \in 0 .. ScanSize - 1 :
               LET n == input.base + Start + x IN
               /\ n % 2 = 1 /\ \A p \in SmallPrimes : n % p # 0
               /\ input.half => (n % 60) \in VisibleClasses(input.quarter) }

\* 2^e mod n.
PowerOf2Mod(n, e) ==
  LET power[k \in Nat] ==
        IF k = 0 THEN 1 ELSE LET h == power[k \div 2]
                             IN  IF k % 2 = 0 THEN (h * h) % n ELSE (2 * ((h * h) % n)) % n
  IN  power[e]

EulerBase2(n)  == PowerOf2Mod(n, (n - 1) \div 2) \in {1, n - 1}
FermatBase2(n) == PowerOf2Mod(n, n - 1) = 1

(* Euler's criterion: an odd prime passes the test.                        *)
ASSUME EulerCriterion == \A q \in Prime : q % 2 = 1 => EulerBase2(q)

DecidedOnLimbs(n) ==
  \A a \in {Export(n)} :
    /\ EulerTest(a, EffectiveNl(a), input.cpu.width, input.cpu.adx) <=> EulerBase2(n)
    /\ FermatTest(a, EffectiveNl(a), input.cpu.width, input.cpu.adx) <=> FermatBase2(n)

(* What the CPU's test on limbs shall say of a number: 2^((n-1)/2) = 1 or   *)
(* n-1 mod n; of one that is too wide, what GMP says.                      *)
CpuAnswer(n) == IF Fits(n) THEN EulerBase2(n) ELSE Test(n)

(* The CPU's test on limbs passes exactly these candidates, when it looks  *)
(* for a prime that closes the halo and when it tests a window, with       *)
(* either multiplication and every width of window, whether the limbs were *)
(* exported or advanced from the candidate before.  On freshly exported    *)
(* limbs the Euler and the Fermat test are exact too, also for a number of *)
(* one limb, and adding to them carries (what test_primality.c compares,   *)
(* on all candidates).                                                     *)
LimbTestExact ==
  input.cpu.limbs =>
    /\ pc = "probe" =>
         LET from == input.base + Start
             S    == { x \in cand : x >= OwnedSize }
         IN  CpuPassed(from, S) = { x \in S : CpuAnswer(from + x) }
    /\ pc = "process" /\ i <= Len(pend) /\ ~gpu_ok =>
         LET from == input.base + pend[i].start
         IN  /\ Passed(i) = { x \in pend[i].cand : CpuAnswer(from + x) }
             /\ \A x \in pend[i].cand : LET n == from + x IN
                  Fits(n) =>
                    /\ DecidedOnLimbs(n) /\ (n % Radix > 1 => DecidedOnLimbs(n % Radix))
                    /\ \A d \in 1 .. Radix - 1 :
                         Fits(n + d) => AddU64(Export(n), d).a = Export(n + d)

NextPrime(n) == Least({ q \in Prime : q > n })

(* Only gaps between consecutive primes that are long enough are queued,   *)
(* with pseudoprimes at either end or inside, hidden classes and results   *)
(* from the device.                                                        *)
NoFalseGap ==
  \A g \in found : LET p == input.base + g.nadd IN
    p \in Prime /\ NextPrime(p) = p + g.len /\ Qualifies(p, g.len)

(* The gaps of the range: they begin in it, and a prime that is tested     *)
(* lies beyond their start, within the lookahead of the window they begin  *)
(* in.                                                                     *)
Closed(p) ==
  LET start == ((p - input.base) \div OwnedSize) * OwnedSize
      end   == input.base + (IF start + OwnedSize + Lookahead > RangeLen THEN RangeLen
                             ELSE start + OwnedSize + Lookahead)
  IN  \E v \in Prime : /\ p < v /\ v < end
                       /\ input.half => (v % 60) \in VisibleClasses(input.quarter)
Gaps ==
  { [nadd |-> p - input.base, len |-> NextPrime(p) - p] :
      p \in { r \in Prime : /\ input.base <= r /\ r < input.base + RangeLen
                            /\ Closed(r) /\ Qualifies(r, NextPrime(r) - r) } }

(* Each such gap is queued, and no gap is queued twice, by two windows, or *)
(* by a prefix and a visible gap (main.c: "The containment lemma           *)
(* guarantees no true qualifying gap is lost").  A pseudoprime can cost    *)
(* the gap it lies in, so the second half is for ranges without one.       *)
Pseudoprimes ==
  input.pseudo \cup
  IF input.cpu.limbs
  THEN { n \in input.base .. input.base + RangeLen - 1 :
           /\ n \notin Prime /\ n % 2 = 1 /\ EulerBase2(n)
           /\ \A p \in SmallPrimes : n % p # 0 }
  ELSE {}

EveryGapOnce ==
  /\ \A g, h \in found : g.nadd = h.nadd => g = h
  /\ pc = "done" /\ Pseudoprimes = {} =>
       \A g \in Gaps : \E f \in found : f.nadd = g.nadd /\ f.len = g.len
=============================================================================
