------------------------------ MODULE CrtWorker -----------------------------
(***************************************************************************)
(* A worker thread in CRT mode (worker_thread_run_crt and the crt_fused_   *)
(* functions of src/new_src/worker_gpu.c) with the test slots of           *)
(* src/new_src/gpu/gpu_fermat.cu.                                          *)
(*                                                                         *)
(* The worker walks the header nonces of the published work; a nonce gives *)
(* a number of windows, its rows.  Windows are marked and extracted on the *)
(* device and gathered into flights of K; two flights take turns.          *)
(*                                                                         *)
(*   chain_on   a full flight is scanned at once by the chain of           *)
(*              MINING_JUMP2; when that fails all of it is tested          *)
(*   otherwise  a full flight is submitted, and collected when its turn    *)
(*              comes again; windows extracted in part may need their tail *)
(*              then, for which their bitmap is made again                 *)
(*                                                                         *)
(* When a device call fails the fused pipeline is given up and windows are *)
(* searched one at a time on the CPU.  Workers share nothing but the       *)
(* published work and the gap queue, so one of them is modelled; a found   *)
(* gap is queued under the generation of the flight.                       *)
(***************************************************************************)
EXTENDS Integers, FiniteSets

CONSTANTS
  K,          \* windows per flight (flight_batch)
  LastNonce,  \* bound: the nonces after it are of no use
  Rows,       \* windows of a nonce; 0: its hash or alignment is of no use
  MaxGen,     \* bound: works published
  Configs     \* settings a worker may be started with

Nonces == 1 .. LastNonce
RowIds == UNION { 0 .. Rows[n] : n \in Nonces }

(* chain: MINING_JUMP2; pair: GPU_SIEVE_PAIR; split: heads are extracted   *)
(* without their tails; half: HALF_CLASS; hollow: windows without any      *)
(* candidate; wide: windows that exceed the width of the kernels; batch:   *)
(* the windows whose candidates one submission can hold                    *)
(* (gpu_fermat_max_batch), which only the large flights of chain mode       *)
(* exceed; faults: a bound on the failures of the device.                  *)
Places == Nonces \X RowIds

ASSUME CrtAssumption ==
  /\ K \in Nat \ {0} /\ LastNonce \in Nat \ {0}
  /\ Rows \in [Nonces -> Nat] /\ Rows[LastNonce] = 0 /\ MaxGen \in Nat
  /\ Configs \subseteq [chain : BOOLEAN, pair : BOOLEAN, split : BOOLEAN, half : BOOLEAN,
                        hollow : SUBSET Places, wide : SUBSET Places, batch : 1 .. K,
                        faults : Nat]
  /\ \A c \in Configs : c.batch < K => c.chain

(* The base grows with the row: rows after one that is too wide are too    *)
(* wide, so a row that fits finds its nonce's rows marked.                 *)
ASSUME WidthAssumption ==
  \A c \in Configs : \A n \in Nonces : \A r, q \in 0 .. Rows[n] - 1 :
    r <= q /\ <<n, r>> \in c.wide => <<n, q>> \in c.wide

(* A window, named by the work, the nonce and the row its base comes from. *)
Window == [gen : 0 .. MaxGen, nonce : 0 .. LastNonce, row : RowIds]
NoWindow == [gen |-> 0, nonce |-> 0, row |-> 0]

(* The candidates of a window in a device buffer: the base they were built *)
(* from and the window whose bitmap they were extracted from.              *)
Cell   == [base : Window, marks : Window]
NoCell == [base |-> NoWindow, marks |-> NoWindow]
Own(w) == [base |-> w, marks |-> w]

Slots == {0, 1}
InFlight == 0 .. K - 1
Cells == 0 .. 2 * K - 1    \* heads of a flight, then tails

VARIABLES
  config,
  gen,        \* work_generation; 0 before the first work
  stop,       \* g_stop_requested
  pc,         \* where the worker is
  snap,       \* generation of the worker's snapshot
  nonce, row, \* nonce and row_m
  seq,        \* fused_seq, modulo the 2K after which its uses repeat
  fused,      \* fused_enabled
  chain_on,
  row_marked, \* row_batch_marked
  pend,       \* fused_pending: the window to be marked again with the next
  bitmap,     \* the two bitmaps of the sieve
  arena,      \* its row bitmaps
  cands,      \* candidate buffers, by flight
  is_prime,   \* results, by flight: the candidates they are about
  slots,      \* test slots of the device: [busy, running, count]
  fl,         \* fused_fl, the two flights
  cur, j,     \* flight and window being scanned
  tails,      \* tail_accum
  ret,        \* where the scan of a flight was called from
  scans,      \* history: windows searched, under which generation
  taken,      \* history: windows put into a flight
  again,      \* history: a window was searched twice
  faults      \* failures left

work  == <<gen, stop>>
place == <<snap, nonce, row>>
mode  == <<fused, chain_on>>
sieve == <<row_marked, pend, bitmap, arena>>
scan  == <<cur, j, tails, ret>>
hist  == <<scans, taken, again>>
vars  == <<config, work, pc, place, seq, mode, sieve, cands, is_prime, slots, fl,
           scan, hist, faults>>

Flight == [active : BOOLEAN, n : 0 .. K, total : 0 .. K, gen : 0 .. MaxGen,
           row_mode : BOOLEAN, base : {0, 1},
           wins : [InFlight -> [w : Window, count : {0, 1}]]]
NewFlight == [active |-> FALSE, n |-> 0, total |-> 0, gen |-> 0, row_mode |-> FALSE,
              base |-> 0, wins |-> [i \in InFlight |-> [w |-> NoWindow, count |-> 0]]]
NoPend == [valid |-> FALSE, parity |-> 0, w |-> NoWindow]

Win    == [gen |-> snap, nonce |-> nonce, row |-> row]
Fits   == <<nonce, row>> \notin config.wide
RowMode == Rows[nonce] > 1
W_in   == seq % K
Filling == (seq \div K) % 2
Parity == seq % 2
Spend(n) == n <= faults /\ faults' = faults - n

Init ==
  /\ config \in Configs
  /\ gen = 0 /\ stop = FALSE /\ pc = "snap"
  /\ snap = 0 /\ nonce = 1 /\ row = 0 /\ seq = 0
  /\ fused = TRUE /\ chain_on = config.chain
  /\ row_marked = FALSE /\ pend = NoPend
  /\ bitmap = [x \in Slots |-> NoWindow] /\ arena = [r \in RowIds |-> NoWindow]
  /\ cands = [s \in Slots |-> [c \in Cells |-> NoCell]] /\ is_prime = cands
  /\ slots = [s \in Slots |-> [busy |-> FALSE, running |-> FALSE, count |-> 0]]
  /\ fl = [s \in Slots |-> NewFlight]
  /\ cur = 0 /\ j = 0 /\ tails = 0 /\ ret = "row"
  /\ scans = {} /\ taken = {} /\ again = FALSE
  /\ faults = config.faults

(***************************************************************************)
(* The farm: new work and the stop flag.                                   *)
(***************************************************************************)
Publish ==
  /\ gen < MaxGen /\ gen' = gen + 1
  /\ UNCHANGED <<config, stop, pc, place, seq, mode, sieve, cands, is_prime, slots, fl,
                 scan, hist, faults>>

RequestStop ==
  /\ ~stop /\ stop' = TRUE
  /\ UNCHANGED <<config, gen, pc, place, seq, mode, sieve, cands, is_prime, slots, fl,
                 scan, hist, faults>>

(***************************************************************************)
(* The test slots.  A submission waits until its slot is free; a collect   *)
(* that fails leaves the slot busy.                                        *)
(***************************************************************************)
Free(s) == ~slots[s].busy
AtMost(n) == IF n <= config.batch THEN n ELSE config.batch    \* gpu_fermat_clamp
Submitted(s, n) ==
  [slots EXCEPT ![s] = [busy |-> TRUE, running |-> TRUE, count |-> AtMost(n)]]
\* A failed collect of a test that was submitted and collected in one step.
LeftBusy(s) == [slots EXCEPT ![s] = [busy |-> TRUE, running |-> FALSE, count |-> 0]]

(* The first n candidates of a flight have been tested.                    *)
Tested(s, n) ==
  [is_prime EXCEPT ![s] = [c \in Cells |-> IF c < n THEN cands[s][c] ELSE @[c]]]

(* The device has tested a submitted flight, reading its buffer now.       *)
KernelEnds(s) ==
  /\ slots[s].busy /\ slots[s].running
  /\ slots' = [slots EXCEPT ![s].running = FALSE]
  /\ is_prime' = Tested(s, slots[s].count)
  /\ UNCHANGED <<config, work, pc, place, seq, mode, sieve, cands, fl, scan, hist, faults>>

(***************************************************************************)
(* The outer loop and the loop over nonces.                                *)
(***************************************************************************)
Snapshot ==
  /\ pc = "snap" /\ ~stop /\ gen > 0
  /\ snap' = gen /\ nonce' = 1 /\ pc' = "nonce"
  /\ UNCHANGED <<config, work, row, seq, mode, sieve, cands, is_prime, slots, fl, scan,
                 hist, faults>>

LeaveLoop ==
  /\ pc = "snap" /\ stop
  /\ pc' = "exit0"
  /\ UNCHANGED <<config, work, place, seq, mode, sieve, cands, is_prime, slots, fl, scan,
                 hist, faults>>

\* Mutants: only new work, or only a stop, is looked for.
InterruptedByWork == gen # snap
InterruptedByStop == stop
Interrupted == stop \/ gen # snap

BeginNonce ==
  /\ pc = "nonce" /\ ~Interrupted
  /\ row' = 0 /\ row_marked' = FALSE /\ pc' = "row"
  /\ UNCHANGED <<config, work, snap, nonce, seq, mode, pend, bitmap, arena, cands, is_prime,
                 slots, fl, scan, hist, faults>>

NextNonce ==
  /\ pc = "row" /\ row >= Rows[nonce]
  /\ nonce' = IF nonce < LastNonce THEN nonce + 1 ELSE nonce
  /\ pc' = "nonce"
  /\ UNCHANGED <<config, work, snap, row, seq, mode, sieve, cands, is_prime, slots, fl, scan,
                 hist, faults>>

(* A window of the nonce: into a flight, or to the CPU.  The flight whose  *)
(* turn it is must have been collected before it is filled again.          *)
BeginRow ==
  /\ pc = "row" /\ row < Rows[nonce]
  /\ pend' = IF Fits THEN pend ELSE NoPend
  /\ IF ~Fits \/ ~fused THEN pc' = "cpu" /\ UNCHANGED <<cur, ret>>
     ELSE IF W_in = 0 /\ fl[Filling].active
     THEN pc' = "collect" /\ cur' = Filling /\ ret' = "mark"
     ELSE pc' = "mark" /\ UNCHANGED <<cur, ret>>
  /\ UNCHANGED <<config, work, place, seq, mode, row_marked, bitmap, arena, cands, is_prime,
                 slots, fl, j, tails, hist, faults>>

(***************************************************************************)
(* Mark and extract a window.  A bitmap or a row of the arena holds the    *)
(* marks of the window it was last marked for.                             *)
(***************************************************************************)
MarkedRows(w, n) ==
  [r \in RowIds |-> IF r < n THEN [w EXCEPT !.row = w.row + r] ELSE arena[r]]
MarkedOne(w, parity) == [bitmap EXCEPT ![parity] = w]
MarkedPair(v, vparity, w) == [x \in Slots |-> IF x = vparity THEN v ELSE w]
\* The candidates of w, packed with its base, left by the marks at hand.
Packed(w, marks) == [base |-> w, marks |-> marks]

(* All rows of a nonce are marked with its first; a single window into one *)
(* of two bitmaps, the window before it, if it is held, into the other.    *)
Arena == IF RowMode /\ row = 0 THEN MarkedRows(Win, Rows[nonce]) ELSE arena
Bitmap ==
  IF RowMode THEN bitmap
  ELSE IF config.pair /\ pend.valid THEN MarkedPair(pend.w, pend.parity, Win)
  ELSE MarkedOne(Win, Parity)
Marks == IF RowMode THEN Arena[row] ELSE Bitmap[Parity]

(* The first window of a flight fixes what all of it is scanned under.     *)
Opened ==
  IF W_in > 0 THEN fl[Filling]
  ELSE [fl[Filling] EXCEPT !.n = 0, !.total = 0, !.gen = snap, !.row_mode = RowMode,
                           !.base = Parity]
Candidates == IF <<nonce, row>> \in config.hollow THEN 0 ELSE 1

AddWindow ==
  /\ pc = "mark" /\ (RowMode /\ row > 0 => row_marked)
  /\ arena' = Arena /\ bitmap' = Bitmap /\ row_marked' = RowMode
  /\ fl' = [fl EXCEPT ![Filling] =
              [Opened EXCEPT !.n = @ + 1, !.total = @ + Candidates,
                             !.wins[W_in] = [w |-> Win, count |-> Candidates]]]
  /\ cands' = IF Candidates = 0 THEN cands
              ELSE [cands EXCEPT ![Filling][Opened.total] = Packed(Win, Marks)]
  /\ taken' = IF Candidates = 0 THEN taken ELSE taken \cup {Win}
  /\ pend' = IF config.pair THEN [valid |-> TRUE, parity |-> Parity, w |-> Win] ELSE NoPend
  /\ seq' = (seq + 1) % (2 * K)
  /\ IF W_in = K - 1
     THEN pc' = (IF chain_on THEN "chain" ELSE "submit") /\ cur' = Filling
          /\ ret' = "row" /\ UNCHANGED row
     ELSE pc' = "row" /\ row' = row + 1 /\ UNCHANGED <<cur, ret>>
  /\ UNCHANGED <<config, work, snap, nonce, mode, is_prime, slots, j, tails, scans, again,
                 faults>>

(* The mark or the extraction fails, or the candidates do not fit.  The    *)
(* window goes to the CPU; in chain mode the flight is kept.               *)
AddFails ==
  /\ pc = "mark"
  /\ Spend(1) /\ fused' = FALSE /\ pend' = NoPend /\ pc' = "cpu"
  /\ UNCHANGED <<config, work, place, seq, chain_on, row_marked, bitmap, arena, cands,
                 is_prime, slots, fl, scan, hist>>

Searched(w, g, own) ==
  /\ scans' = scans \cup {[w |-> w, gen |-> g, own |-> own]}
  /\ again' = (again \/ w \in { r.w : r \in scans })

(* The sieve and the test without the fused pipeline.  The test may use    *)
(* slot 0 when it is free.                                                 *)

CpuWindow ==
  /\ pc = "cpu"
  /\ Searched(Win, snap, TRUE)
  /\ \/ UNCHANGED <<slots, faults>>
     \/ Fits /\ Free(0) /\ Spend(1) /\ slots' = LeftBusy(0)
  /\ row' = row + 1 /\ pc' = "row"
  /\ UNCHANGED <<config, work, snap, nonce, seq, mode, sieve, cands, is_prime, fl, scan,
                 taken>>

(***************************************************************************)
(* A full flight in batch mode.                                            *)
(***************************************************************************)
\* Mutant: the windows of a flight that was scanned stay in it.
EmptiedInPart(s) == [fl EXCEPT ![s].active = FALSE]
Emptied(s) == [fl EXCEPT ![s].active = FALSE, ![s].n = 0, ![s].total = 0]

SubmitFlight ==
  /\ pc = "submit"
  /\ \/ /\ IF fl[cur].total = 0 THEN UNCHANGED slots
           ELSE Free(cur) /\ slots' = Submitted(cur, fl[cur].total)
        /\ fl' = [fl EXCEPT ![cur].active = TRUE]
        /\ UNCHANGED <<fused, faults>>
     \/ /\ fl[cur].total > 0 /\ Free(cur) /\ Spend(1)
        /\ fl' = Emptied(cur) /\ fused' = FALSE /\ UNCHANGED slots
  /\ row' = row + 1 /\ pc' = "row"
  /\ UNCHANGED <<config, work, snap, nonce, seq, chain_on, sieve, cands, is_prime, scan, hist>>

(* Where to go on after a flight; it is empty again then.                  *)
Resume == CASE ret = "mark" -> "mark" [] ret = "row" -> "row" [] ret = "drain" -> "snap"
            [] ret = "exit0" -> "exit1" [] ret = "exit1" -> "done"
AtExit == ret \in {"exit0", "exit1"}
Return(where) ==
  /\ pc' = where
  /\ row' = IF ret = "row" THEN row + 1 ELSE row

BeginScan == pc' = "scan" /\ j' = 0 /\ tails' = 0

Collect ==
  /\ pc = "collect"
  /\ fl[cur].total > 0 /\ slots[cur].busy => ~slots[cur].running
  /\ slots' = [slots EXCEPT ![cur].busy = @ /\ fl[cur].total = 0]
  /\ BeginScan
  /\ UNCHANGED <<config, work, place, seq, mode, sieve, cands, is_prime, fl, cur, ret, hist,
                 faults>>

(* The pipeline is given up and the flight's windows with it; the window   *)
(* at hand goes to the CPU.  At exit nothing is left to give up.           *)
GiveUpCollect ==
  /\ Spend(1)
  /\ fl' = Emptied(cur)
  /\ fused' = (fused /\ ret # "mark")
  /\ pc' = IF ret = "mark" THEN "cpu" ELSE Resume

CollectFails ==
  /\ pc = "collect" /\ fl[cur].total > 0
  /\ GiveUpCollect
  /\ UNCHANGED <<config, work, place, seq, chain_on, sieve, cands, is_prime, slots, scan, hist>>

(***************************************************************************)
(* A flight in chain mode: the chain, or a test of all candidates.         *)
(***************************************************************************)
Chain ==
  /\ pc = "chain"
  /\ fl[cur].total > 0 => Free(cur)
  /\ is_prime' = Tested(cur, fl[cur].total)
  /\ BeginScan
  /\ UNCHANGED <<config, work, place, seq, mode, sieve, cands, slots, fl, cur, ret, hist, faults>>

(* What the chain had found by then says nothing about the rest.           *)
ChainFails ==
  /\ pc = "chain" /\ fl[cur].total > 0 /\ Free(cur)
  /\ Spend(1)
  /\ slots' \in {slots, LeftBusy(cur)}
  /\ is_prime' = [is_prime EXCEPT ![cur] = [c \in Cells |-> NoCell]]
  /\ pc' = "full"
  /\ UNCHANGED <<config, work, place, seq, mode, sieve, cands, fl, scan, hist>>

FullScan ==
  /\ pc = "full" /\ Free(cur)
  /\ is_prime' = Tested(cur, AtMost(fl[cur].total))
  /\ BeginScan
  /\ UNCHANGED <<config, work, place, seq, mode, sieve, cands, slots, fl, cur, ret, hist, faults>>

FullScanFails ==
  /\ pc = "full" /\ Free(cur)
  /\ Spend(1)
  /\ slots' \in {slots, LeftBusy(cur)}
  /\ fl' = IF ret = "row" THEN Emptied(cur) ELSE fl
  /\ fused' = (fused /\ AtExit) /\ chain_on' = (chain_on /\ AtExit)
  /\ Return(Resume)
  /\ UNCHANGED <<config, work, snap, nonce, seq, sieve, cands, is_prime, scan, hist>>

(***************************************************************************)
(* Scan the windows of a flight (crt_scan_gaps).                           *)
(***************************************************************************)
Scanned == fl[cur].wins[j]
Cum(s, i) == Cardinality({ x \in 0 .. i - 1 : fl[s].wins[x].count = 1 })
Head == is_prime[cur][Cum(cur, j)]

(* A window without candidates has no gaps, one whose candidates were not  *)
(* tested shows none.                                                      *)
\* Mutant: a gap is queued under the work at hand.
RecordedNow ==
  IF Scanned.count = 0 \/ Head = NoCell THEN UNCHANGED <<scans, again>>
  ELSE Searched(Scanned.w, snap, Head = Own(Scanned.w))
Record ==
  IF Scanned.count = 0 \/ Head = NoCell THEN UNCHANGED <<scans, again>>
  ELSE Searched(Scanned.w, fl[cur].gen, Head = Own(Scanned.w))

(* In batch mode a head without a closing prime needs its tail.            *)
MayNeedTail == (ret = "mark" \/ AtExit) /\ ~chain_on /\ config.split
               /\ Scanned.count = 1

(* The bitmap is made again, in the first row of the arena if the flight   *)
(* is one of rows; the tail is put behind the heads and tested.            *)
\* Mutant: in the row of the window's place in the flight.
RemadeInPlace == IF fl[cur].row_mode THEN [arena EXCEPT ![j] = Scanned.w] ELSE arena
RemadeArena  == IF fl[cur].row_mode THEN MarkedRows(Scanned.w, 1) ELSE arena
RemadeBitmap == IF fl[cur].row_mode THEN bitmap
                ELSE MarkedOne(Scanned.w, (fl[cur].base + j) % 2)

Tail ==
  /\ pc = "scan" /\ j < fl[cur].n /\ MayNeedTail /\ Free(cur)
  /\ arena' = RemadeArena /\ bitmap' = RemadeBitmap
  /\ cands' = [cands EXCEPT ![cur][fl[cur].total + tails] = Packed(Scanned.w, Scanned.w)]
  /\ tails' = tails + 1
  /\ pc' = "window"
  /\ UNCHANGED <<config, work, place, seq, mode, row_marked, pend, is_prime, slots, fl, cur, j,
                 ret, hist, faults>>

TailFails ==
  /\ pc = "scan" /\ j < fl[cur].n /\ MayNeedTail /\ Free(cur)
  /\ GiveUpCollect
  /\ arena' = RemadeArena /\ bitmap' = RemadeBitmap
  /\ slots' \in {slots, LeftBusy(cur)}
  /\ UNCHANGED <<config, work, place, seq, chain_on, row_marked, pend, cands, is_prime, scan,
                 hist>>

(* Only with hidden classes is anything left to test: the candidates       *)
(* between two visible primes, on the flight's slot, or on the CPU when    *)
(* that fails.                                                             *)
ScanWindow ==
  /\ pc \in {"scan", "window"} /\ j < fl[cur].n
  /\ Record
  /\ j' = j + 1 /\ pc' = "scan"
  /\ UNCHANGED <<config, work, place, seq, mode, sieve, cands, is_prime, slots, fl, cur, tails,
                 ret, taken, faults>>

NeedHidden ==
  /\ pc \in {"scan", "window"} /\ j < fl[cur].n /\ config.half /\ Scanned.count = 1
  /\ pc' = "hidden"
  /\ UNCHANGED <<config, work, place, seq, mode, sieve, cands, is_prime, slots, fl, scan, hist,
                 faults>>

TestHidden ==
  /\ pc = "hidden" /\ Free(cur)
  /\ Record
  /\ \/ UNCHANGED <<slots, faults>>
     \/ Spend(1) /\ slots' \in {slots, LeftBusy(cur)}
  /\ j' = j + 1 /\ pc' = "scan"
  /\ UNCHANGED <<config, work, place, seq, mode, sieve, cands, is_prime, fl, cur, tails, ret,
                 taken>>

ScanEnds ==
  /\ pc = "scan" /\ j = fl[cur].n
  /\ fl' = Emptied(cur)
  /\ Return(Resume)
  /\ UNCHANGED <<config, work, snap, nonce, seq, mode, sieve, cands, is_prime, slots, scan, hist,
                 faults>>

(***************************************************************************)
(* New work or a stop: the flight being filled is not lost, and the next   *)
(* work starts with one of its own.                                        *)
(***************************************************************************)
NextFlight == IF W_in = 0 THEN seq ELSE (seq - W_in + K) % (2 * K)
Realign == seq' = IF stop THEN seq ELSE NextFlight

DrainChain ==
  /\ pc = "nonce" /\ Interrupted /\ fused /\ chain_on
  /\ pend' = NoPend /\ Realign
  /\ IF fl[Filling].n > 0
     THEN pc' = "chain" /\ cur' = Filling /\ ret' = "drain"
     ELSE pc' = "snap" /\ UNCHANGED <<cur, ret>>
  /\ UNCHANGED <<config, work, place, mode, row_marked, bitmap, arena, cands, is_prime,
                 slots, fl, j, tails, hist, faults>>

(* fused_flush_partial: submitted, and collected when its turn comes.      *)
\* Mutant: a flight that is not full is not submitted.
PartialDropped == FALSE
Partial == ~fl[Filling].active /\ fl[Filling].total > 0

DrainBatch ==
  /\ pc = "nonce" /\ Interrupted /\ fused /\ ~chain_on
  /\ \/ /\ Partial /\ Free(Filling)
        /\ slots' = Submitted(Filling, fl[Filling].total)
        /\ fl' = [fl EXCEPT ![Filling].active = TRUE]
        /\ UNCHANGED faults
     \/ /\ Partial /\ Free(Filling) /\ Spend(1)
        /\ fl' = Emptied(Filling) /\ UNCHANGED slots
     \/ /\ ~Partial
        /\ fl' = IF fl[Filling].active THEN fl ELSE Emptied(Filling)
        /\ UNCHANGED <<slots, faults>>
  /\ pend' = NoPend /\ Realign /\ pc' = "snap"
  /\ UNCHANGED <<config, work, place, mode, row_marked, bitmap, arena, cands, is_prime,
                 scan, hist>>

DrainNothing ==
  /\ pc = "nonce" /\ Interrupted /\ ~fused
  /\ pend' = NoPend /\ pc' = "snap"
  /\ UNCHANGED <<config, work, place, seq, mode, row_marked, bitmap, arena, cands, is_prime,
                 slots, fl, scan, hist, faults>>

(***************************************************************************)
(* The end of the thread.                                                  *)
(***************************************************************************)
LastFlight(s) ==
  LET here == IF s = 0 THEN "exit0" ELSE "exit1" IN
  /\ pc = here
  /\ cur' = s /\ ret' = here
  /\ pc' = IF chain_on /\ fl[s].n > 0 THEN "chain"
           ELSE IF fl[s].active THEN "collect"
           ELSE IF s = 0 THEN "exit1" ELSE "done"
  /\ UNCHANGED <<config, work, place, seq, mode, sieve, cands, is_prime, slots, fl, j, tails,
                 hist, faults>>

Worker ==
  \/ Snapshot \/ LeaveLoop \/ BeginNonce \/ NextNonce \/ BeginRow
  \/ AddWindow \/ AddFails \/ CpuWindow \/ SubmitFlight \/ Collect \/ CollectFails
  \/ Chain \/ ChainFails \/ FullScan \/ FullScanFails
  \/ Tail \/ TailFails \/ ScanWindow \/ NeedHidden \/ TestHidden \/ ScanEnds
  \/ DrainChain \/ DrainBatch \/ DrainNothing
  \/ LastFlight(0) \/ LastFlight(1)

Kernels == \E s \in Slots : KernelEnds(s)

Next == Publish \/ RequestStop \/ Worker \/ Kernels

Spec == Init /\ [][Next]_vars /\ WF_vars(Worker) /\ WF_vars(Kernels)
-----------------------------------------------------------------------------
(***************************************************************************)
(* Properties.                                                             *)
(***************************************************************************)
TypeOK ==
  /\ config \in Configs
  /\ gen \in 0 .. MaxGen /\ stop \in BOOLEAN
  /\ pc \in {"snap", "nonce", "row", "collect", "mark", "cpu", "submit", "chain", "full",
             "scan", "window", "hidden", "exit0", "exit1", "done"}
  /\ snap \in 0 .. MaxGen /\ nonce \in Nonces /\ row \in RowIds
  /\ seq \in 0 .. 2 * K - 1
  /\ fused \in BOOLEAN /\ chain_on \in BOOLEAN /\ row_marked \in BOOLEAN
  /\ pend \in [valid : BOOLEAN, parity : {0, 1}, w : Window]
  /\ bitmap \in [Slots -> Window] /\ arena \in [RowIds -> Window]
  /\ cands \in [Slots -> [Cells -> Cell]] /\ is_prime \in [Slots -> [Cells -> Cell]]
  /\ slots \in [Slots -> [busy : BOOLEAN, running : BOOLEAN, count : 0 .. K]]
  /\ fl \in [Slots -> Flight]
  /\ cur \in Slots /\ j \in 0 .. K /\ tails \in 0 .. K
  /\ ret \in {"mark", "row", "drain", "exit0", "exit1"}
  /\ scans \subseteq [w : Window, gen : 0 .. MaxGen, own : BOOLEAN]
  /\ taken \subseteq Window /\ again \in BOOLEAN
  /\ faults \in 0 .. config.faults

(* A window is scanned with the results of its own candidates, built from  *)
(* its base and left by its marking, whatever was marked, made again or    *)
(* submitted in the meantime.                                              *)
OwnResults == \A r \in scans : r.own

(* A window is scanned under the work its base comes from, so that a gap   *)
(* is queued with the header it belongs to.  Only a nonce space that is    *)
(* used up lets a flight begin under one work and end under the next.      *)
UnderItsWork == \A r \in scans : r.gen = r.w.gen

(* No window of a work is scanned twice, by a drain and a collect, or by a *)
(* failed chain and its fallback.                                          *)
NeverTwice == ~again

(* Windows that went into a flight, and were neither scanned nor wait in   *)
(* one that will be.                                                       *)
Awaited(s) ==
  IF pc # "done" /\ (fused \/ chain_on \/ fl[s].active \/ (cur = s /\ pc \in
       {"chain", "full", "scan", "window", "hidden"}))
  THEN { fl[s].wins[x].w : x \in 0 .. fl[s].n - 1 } ELSE {}
Lost == taken \ ({ r.w : r \in scans } \cup Awaited(0) \cup Awaited(1))

(* A failure of the device costs the windows of one flight at most; without*)
(* one every window that was taken is scanned before the thread ends.      *)
LossPerFailure == Cardinality(Lost) <= K * (config.faults - faults)

(* The worker waits for a slot that nobody will free.                      *)
Hung ==
  \/ pc \in {"submit", "chain", "full"} /\ fl[cur].total > 0 /\ ~Free(cur)
  \/ pc = "hidden" /\ ~Free(cur)
  \/ pc = "nonce" /\ Interrupted /\ fused /\ ~chain_on /\ Partial /\ ~Free(Filling)

(* A worker that is asked to stop stops, unless a collect has failed and   *)
(* left it waiting for its slot.                                           *)
StopEndsIt == stop ~> (pc = "done" \/ (Hung /\ faults < config.faults))

(* New work is taken up, unless the worker stops or waits for such a slot. *)
NewWorkTaken == (gen # snap) ~> (gen = snap \/ stop \/ (Hung /\ faults < config.faults))

(* The comment at worker_gpu.c:1694: "any chain error falls back to a full *)
(* scan of the same flight, and any further error disables the fused path".*)
FailClosed == (pc = "full") ~> (pc # "full")
=============================================================================
