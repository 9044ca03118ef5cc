------------------------------ MODULE MinerFarm ------------------------------
(***************************************************************************)
(* The non-CRT mining farm: miner_farm.c (the work published to the        *)
(* workers, the shared window counter, the completion counter) and the     *)
(* worker threads of worker_gpu.c (snapshot, claim, GPU batches, scan, gap *)
(* queue).  The main thread appears as the calls it makes; MinerNode       *)
(* composes the same actions with the main loop itself.                    *)
(*                                                                         *)
(* A critical section of work_lock, of g_gap_queue_lock, and the compare-  *)
(* and-swap of atomic_nonce_claim is one step.  update_work stores the     *)
(* counter inside its critical section, where a lock-free claim can slip   *)
(* in between; such a claim reads and writes the counter alone, so it      *)
(* commutes with the rest of the section and one step stands for both.     *)
(***************************************************************************)
EXTENDS Naturals, Sequences, FiniteSets

CONSTANTS
  Workers,        \* worker threads
  NumWindows,     \* windows per header (non_crt_windows_per_header)
  Chunk,          \* NON_CRT_WINDOW_CHUNK: windows claimed at once
  SieveTarget,    \* GPU_SIEVE_BATCH: windows per GPU sieve batch, 0 = off
  PendingCap,     \* GPU_BATCH_MAX_WINDOWS: windows per Fermat batch, 0 = no GPU
  QueueCap,       \* MAX_PENDING_GAPS - 1
  Headers,        \* block headers: records [tmpl, nonce]
  MaxGeneration   \* bound of the model on work_generation

ASSUME FarmAssumption ==
  /\ NumWindows \in Nat \ {0}
  /\ Chunk \in Nat \ {0}
  /\ SieveTarget \in Nat
  /\ PendingCap \in Nat
  /\ QueueCap \in Nat \ {0}
  /\ MaxGeneration \in Nat \ {0}
  /\ \A h \in Headers : h = [tmpl |-> h.tmpl, nonce |-> h.nonce]
  /\ Workers \cap {"free", "stolen", "done"} = {}

VARIABLES
  work,       \* h256 and header_nonce of every worker_config: the active header
  gen,        \* farm->work_generation
  nonce,      \* farm->nonce.current: the next window nobody claimed
  completed,  \* farm->completed_windows
  stop,       \* g_stop_requested
  queue,      \* g_gap_queue
  exhausted   \* main's last verdict of miner_farm_work_exhausted
farmVars == <<work, gen, nonce, completed, stop, queue, exhausted>>

VARIABLES     \* locals of worker_thread_run, one per worker
  pc,         \* where in the loop the thread is
  snap,       \* generation and header of its last snapshot
  chunk,      \* chunk_generation, chunk_next, chunk_end
  cached,     \* cached_generation: whose base the sieve residues belong to
  sieveOn,    \* gpu_sieve_enabled
  batch,      \* gpu_sieve_batch.windows, each slot with its own header
  pend,       \* gpu_pending: one header for all its windows
  job         \* windows being run by worker_process_window
workerVars == <<pc, snap, chunk, cached, sieveOn, batch, pend, job>>

VARIABLES     \* history, read by properties only
  owner,      \* of each window of the active header: who has it
  scanned     \* windows of the active header really scanned under it
history == <<owner, scanned>>

vars == <<farmVars, workerVars, history>>

Windows == 0 .. NumWindows - 1
NoGen   == 0                      \* UINT64_MAX in the code: no generation yet

\* A flight of windows that share one header; the code resets n to 0.
Flight(g, h, W) == [gen |-> g, hdr |-> h, wins |-> W]
Emptied(f)      == [f EXCEPT !.wins = {}]
Job(f)          == [gen |-> f.gen, hdr |-> f.hdr, todo |-> f.wins, unmarked |-> {}]

Busy(w) == job[w].todo \cup job[w].unmarked # {}

-----------------------------------------------------------------------------
(* The farm's entry points, called by the main thread.                     *)

\* miner_farm_update_work: one critical section.
UpdateWork(h) ==
  /\ work' = h
  /\ nonce' = 0
  /\ completed' = 0
  /\ gen' = gen + 1
  /\ owner' = [x \in Windows |-> "free"]
  /\ scanned' = {}

\* Mutant: asks only whether every window was claimed.
ClaimedOnly == nonce >= NumWindows

\* miner_farm_work_exhausted
WorkExhausted == nonce >= NumWindows /\ completed >= NumWindows

\* miner_farm_stop
StopFarm == stop' = TRUE

\* Mutant: reads the oldest gap and leaves it in the ring.
PopGapPeeks == queue # <<>> /\ queue' = queue

\* worker_get_pending_gap; the flush loop of main takes the entry.
PopGap == queue # <<>> /\ queue' = Tail(queue)

-----------------------------------------------------------------------------
(* worker_thread_run                                                       *)

\* Mutant: the header is copied at the first snapshot only.
SnapshotKeepsHeader(w) ==
  /\ pc[w] = "loop" /\ ~Busy(w) /\ ~stop
  /\ snap' = [snap EXCEPT ![w].gen = gen]
  /\ pc' = [pc EXCEPT ![w] = IF chunk[w].gen = gen THEN "window" ELSE "turn"]
  /\ UNCHANGED <<farmVars, chunk, cached, sieveOn, batch, pend, job, history>>

\* Top of the loop, worker_snapshot_work.  With a new generation the old
\* batches are flushed first ("turn").
Snapshot(w) ==
  /\ pc[w] = "loop" /\ ~Busy(w) /\ ~stop
  /\ snap' = [snap EXCEPT ![w] = [gen |-> gen, hdr |-> work]]
  /\ pc' = [pc EXCEPT ![w] = IF chunk[w].gen = gen THEN "window" ELSE "turn"]
  /\ UNCHANGED <<farmVars, chunk, cached, sieveOn, batch, pend, job, history>>

\* Mutant: the rest of the old chunk is not dropped.
AdoptKeepsChunk(w) ==
  /\ pc[w] = "turn" /\ ~Busy(w) /\ batch[w] = {} /\ pend[w].wins = {}
  /\ chunk' = [chunk EXCEPT ![w].gen = snap[w].gen]
  /\ cached' = [cached EXCEPT ![w] = snap[w].gen]
  /\ pc' = [pc EXCEPT ![w] = "window"]
  /\ UNCHANGED <<farmVars, snap, sieveOn, batch, pend, job, history>>

\* Mutant: the sieve batch is not flushed before the residues change.
AdoptKeepsBatch(w) ==
  /\ pc[w] = "turn" /\ ~Busy(w)
  /\ chunk' = [chunk EXCEPT ![w] = [gen |-> snap[w].gen, next |-> 0, end |-> 0]]
  /\ cached' = [cached EXCEPT ![w] = snap[w].gen]
  /\ pc' = [pc EXCEPT ![w] = "window"]
  /\ UNCHANGED <<farmVars, snap, sieveOn, batch, pend, job, history>>

\* The batches of the old generation are gone: drop what is left of the old
\* chunk and load the sieve residues of the new header.
Adopt(w) ==
  /\ pc[w] = "turn" /\ ~Busy(w) /\ batch[w] = {} /\ pend[w].wins = {}
  /\ chunk' = [chunk EXCEPT ![w] = [gen |-> snap[w].gen, next |-> 0, end |-> 0]]
  /\ cached' = [cached EXCEPT ![w] = snap[w].gen]
  /\ pc' = [pc EXCEPT ![w] = "window"]
  /\ UNCHANGED <<farmVars, snap, sieveOn, batch, pend, job, history>>

\* Mutant: sleeps without flushing the batches.
ClaimNothingNoFlush(w) ==
  /\ pc[w] = "window" /\ chunk[w].next = chunk[w].end
  /\ nonce >= NumWindows
  /\ pc' = [pc EXCEPT ![w] = "wait"]
  /\ UNCHANGED <<farmVars, snap, chunk, cached, sieveOn, batch, pend, job, history>>

\* atomic_nonce_claim found the counter at its limit: flush, then wait.
ClaimNothing(w) ==
  /\ pc[w] = "window" /\ chunk[w].next = chunk[w].end
  /\ nonce >= NumWindows
  /\ pc' = [pc EXCEPT ![w] = "drain"]
  /\ UNCHANGED <<farmVars, snap, chunk, cached, sieveOn, batch, pend, job, history>>

\* atomic_nonce_claim: up to Chunk windows of whatever header is active now,
\* which need not be the header of the snapshot.
ClaimSize == IF NumWindows - nonce < Chunk THEN NumWindows - nonce ELSE Chunk
Claim(w) ==
  /\ pc[w] = "window" /\ chunk[w].next = chunk[w].end
  /\ nonce < NumWindows
  /\ nonce' = nonce + ClaimSize
  /\ chunk' = [chunk EXCEPT ![w].next = nonce, ![w].end = nonce + ClaimSize]
  /\ owner' = [x \in Windows |->
                 IF x < nonce \/ x >= nonce + ClaimSize THEN owner[x]
                 ELSE IF snap[w].gen = gen THEN w ELSE "stolen"]
  /\ UNCHANGED <<work, gen, completed, stop, queue, exhausted, pc, snap,
                 cached, sieveOn, batch, pend, job, scanned>>

\* Mutant: counts a window whatever the generation it was claimed under.
MarkAnyGeneration(f, x) ==
  /\ completed' = completed + 1
  /\ owner' = [owner EXCEPT ![x] = "done"]

\* worker_mark_window_complete, for window x of a flight f.
MarkComplete(f, x) ==
  IF f.gen = gen
  THEN /\ completed' = completed + 1
       /\ owner' = [owner EXCEPT ![x] = "done"]
  ELSE UNCHANGED <<completed, owner>>

\* History: x has been searched with the base of header f.hdr.
Searched(f, x) ==
  scanned' = IF f.gen = gen /\ f.hdr = work THEN scanned \cup {x} ELSE scanned

\* worker_dispatch_candidates: the windows' survivors join the Fermat batch.
Process(w, f) == job' = [job EXCEPT ![w] = Job(f)]

Dispatch(w, f) ==
  \/ \* no GPU, or no memory for the copy: process on the CPU now
     Process(w, f) /\ UNCHANGED pend
  \/ /\ PendingCap > 0 /\ Cardinality(pend[w].wins) < PendingCap
     /\ LET joined == IF pend[w].wins = {} THEN f
                      ELSE [pend[w] EXCEPT !.wins = @ \cup f.wins]
        IN \/ pend' = [pend EXCEPT ![w] = joined] /\ UNCHANGED job
           \/ \* the batch holds enough candidates for a launch
              Process(w, joined) /\ pend' = [pend EXCEPT ![w] = Emptied(joined)]
  \/ /\ PendingCap > 0 /\ Cardinality(pend[w].wins) >= PendingCap
     /\ Process(w, pend[w])
     /\ pend' = [pend EXCEPT ![w] = f]

\* After the sieve: dispatch the survivors, or count a window without any.
Sieved(w, f, x) ==
  \/ Dispatch(w, f) /\ UNCHANGED <<completed, owner, scanned>>
  \/ MarkComplete(f, x) /\ Searched(f, x) /\ UNCHANGED <<pend, job>>

NextWindow(w) ==
  LET x == chunk[w].next
  IN  Flight(snap[w].gen, snap[w].hdr, {x})
TakeNext(w) ==
  /\ pc[w] \in {"window", "admit"} /\ chunk[w].next < chunk[w].end
  /\ chunk' = [chunk EXCEPT ![w].next = @ + 1]
  /\ UNCHANGED <<work, gen, nonce, stop, queue, exhausted, snap, cached, sieveOn>>

\* Sieve the next window on the CPU.
TakeCpu(w) ==
  /\ TakeNext(w)
  /\ ~sieveOn[w]
  /\ Sieved(w, NextWindow(w), chunk[w].next)
  /\ pc' = [pc EXCEPT ![w] = "loop"]
  /\ UNCHANGED batch

\* Put the next window in the GPU sieve batch; a batch that reached its
\* autotuned target (SieveTarget at most) is flushed.
TakeBatch(w) ==
  /\ TakeNext(w)
  /\ sieveOn[w] /\ Cardinality(batch[w]) < SieveTarget
  /\ batch' = [batch EXCEPT ![w] = @ \cup {NextWindow(w)}]
  /\ \/ Cardinality(batch[w]) + 1 < SieveTarget /\ pc' = [pc EXCEPT ![w] = "loop"]
     \/ pc' = [pc EXCEPT ![w] = "sieve"]
  /\ UNCHANGED <<completed, pend, job, history>>

\* The next window has another shape than the batch: flush the batch first.
Reshape(w) ==
  /\ pc[w] = "window" /\ chunk[w].next < chunk[w].end
  /\ sieveOn[w] /\ batch[w] # {}
  /\ pc' = [pc EXCEPT ![w] = "reshape"]
  /\ UNCHANGED <<farmVars, snap, chunk, cached, sieveOn, batch, pend, job, history>>

\* gpu_sieve_batch_flush, one window of it.
SieveFlush == {"turn", "drain", "exit", "sieve", "reshape"}
SieveOne(w) ==
  /\ pc[w] \in SieveFlush /\ ~Busy(w)
  /\ \E f \in batch[w] :
       /\ batch' = [batch EXCEPT ![w] = @ \ {f}]
       /\ \E x \in f.wins : Sieved(w, f, x)
  /\ UNCHANGED <<work, gen, nonce, stop, queue, exhausted, pc, snap, chunk,
                 cached, sieveOn>>

\* The GPU sieve failed: the CPU sieves this batch and every later window.
SieveFails(w) ==
  /\ pc[w] \in SieveFlush /\ ~Busy(w) /\ batch[w] # {} /\ sieveOn[w]
  /\ sieveOn' = [sieveOn EXCEPT ![w] = FALSE]
  /\ UNCHANGED <<farmVars, pc, snap, chunk, cached, batch, pend, job, history>>

\* The batch is flushed: back to the loop, or to the window that waits.
SieveDone(w) ==
  /\ pc[w] \in {"sieve", "reshape"} /\ ~Busy(w) /\ batch[w] = {}
  /\ pc' = [pc EXCEPT ![w] = IF @ = "sieve" THEN "loop" ELSE "admit"]
  /\ UNCHANGED <<farmVars, snap, chunk, cached, sieveOn, batch, pend, job, history>>

\* gpu_pending_flush of a last, partial batch.
FlushPending(w) ==
  /\ pc[w] \in {"turn", "drain", "exit"} /\ ~Busy(w) /\ batch[w] = {}
  /\ pend[w].wins # {}
  /\ Process(w, pend[w])
  /\ pend' = [pend EXCEPT ![w] = Emptied(@)]
  /\ UNCHANGED <<farmVars, pc, snap, chunk, cached, sieveOn, batch, history>>

\* worker_process_window: search one window and queue its gap, if it has one
\* (dropped when the queue is full) ...
Entry(f, x) == [gen |-> f.gen, hdr |-> f.hdr, idx |-> x, late |-> f.gen # gen]
Push(e) == queue' = IF Len(queue) < QueueCap THEN Append(queue, e) ELSE queue
Scan(w) ==
  /\ job[w].unmarked = {}
  /\ \E x \in job[w].todo :
       /\ Push(Entry(job[w], x)) \/ UNCHANGED queue
       /\ Searched(job[w], x)
       /\ job' = [job EXCEPT ![w].todo = @ \ {x}, ![w].unmarked = {x}]
  /\ UNCHANGED <<work, gen, nonce, completed, stop, exhausted, pc, snap, chunk,
                 cached, sieveOn, batch, pend, owner>>

\* ... and count it.
Mark(w) ==
  /\ \E x \in job[w].unmarked : MarkComplete(job[w], x)
  /\ job' = [job EXCEPT ![w].unmarked = {}]
  /\ UNCHANGED <<work, gen, nonce, stop, queue, exhausted, pc, snap, chunk,
                 cached, sieveOn, batch, pend, scanned>>

\* Everything claimed is scanned: sleep until the generation moves.
Drained(w) ==
  /\ pc[w] = "drain" /\ ~Busy(w) /\ batch[w] = {} /\ pend[w].wins = {}
  /\ pc' = [pc EXCEPT ![w] = "wait"]
  /\ UNCHANGED <<farmVars, snap, chunk, cached, sieveOn, batch, pend, job, history>>

\* Mutant: a sleeping worker does not look at the stop flag.
WakeOnWorkOnly(w) ==
  /\ pc[w] = "wait" /\ gen # snap[w].gen
  /\ pc' = [pc EXCEPT ![w] = "loop"]
  /\ UNCHANGED <<farmVars, snap, chunk, cached, sieveOn, batch, pend, job, history>>

Wake(w) ==
  /\ pc[w] = "wait"
  /\ stop \/ gen # snap[w].gen
  /\ pc' = [pc EXCEPT ![w] = "loop"]
  /\ UNCHANGED <<farmVars, snap, chunk, cached, sieveOn, batch, pend, job, history>>

\* The loop ends on a stop request; the batches are flushed on the way out.
LeaveLoop(w) ==
  /\ pc[w] = "loop" /\ ~Busy(w) /\ stop
  /\ pc' = [pc EXCEPT ![w] = "exit"]
  /\ UNCHANGED <<farmVars, snap, chunk, cached, sieveOn, batch, pend, job, history>>

Exit(w) ==
  /\ pc[w] = "exit" /\ ~Busy(w) /\ batch[w] = {} /\ pend[w].wins = {}
  /\ pc' = [pc EXCEPT ![w] = "done"]
  /\ UNCHANGED <<farmVars, snap, chunk, cached, sieveOn, batch, pend, job, history>>

Worker(w) ==
  \/ Snapshot(w) \/ Adopt(w) \/ ClaimNothing(w) \/ Claim(w)
  \/ TakeCpu(w) \/ TakeBatch(w) \/ Reshape(w)
  \/ SieveOne(w) \/ SieveFails(w) \/ SieveDone(w) \/ FlushPending(w)
  \/ Scan(w) \/ Mark(w)
  \/ Drained(w) \/ Wake(w) \/ LeaveLoop(w) \/ Exit(w)

-----------------------------------------------------------------------------
(* The main thread, as far as the farm sees it.  A signal can raise stop in  *)
(* the middle of an iteration, so none of these wait for ~stop.              *)

\* New work from the node or the pool: another template, or the same one
\* published afresh, which starts its header nonces over.
NewWork ==
  /\ ~exhausted /\ gen < MaxGeneration
  /\ \E h \in Headers :
       /\ h.tmpl # work.tmpl \/ h.nonce <= work.nonce
       /\ UpdateWork(h)
  /\ UNCHANGED <<stop, queue, exhausted, workerVars>>

CheckExhausted ==
  /\ ~exhausted /\ WorkExhausted
  /\ exhausted' = TRUE
  /\ UNCHANGED <<work, gen, nonce, completed, stop, queue, workerVars, history>>

\* gapcoin_gbt_work_next_hash: the next header nonce that is valid for the
\* template; when there is none the farm is stopped.
NextHeaders ==
  {h \in Headers : h.tmpl = work.tmpl /\ h.nonce > work.nonce /\
     \A k \in Headers : k.tmpl = work.tmpl /\ k.nonce > work.nonce => h.nonce <= k.nonce}
Rotate ==
  /\ exhausted
  /\ exhausted' = FALSE
  /\ \/ \E h \in NextHeaders : UpdateWork(h) /\ UNCHANGED stop
     \/ /\ NextHeaders = {}
        /\ StopFarm
        /\ UNCHANGED <<work, gen, nonce, completed, history>>
  /\ UNCHANGED <<queue, workerVars>>

TakeGap ==
  /\ ~exhausted /\ PopGap
  /\ UNCHANGED <<work, gen, nonce, completed, stop, exhausted, workerVars, history>>

RequestStop ==
  /\ ~stop /\ StopFarm
  /\ UNCHANGED <<work, gen, nonce, completed, queue, exhausted, workerVars, history>>

Done == \A w \in Workers : pc[w] = "done"

\* Every thread has returned: nothing is left to do.
Terminated == stop /\ Done /\ UNCHANGED vars

-----------------------------------------------------------------------------
\* The threads are created after the first work was published.
FarmInit ==
  /\ work \in Headers /\ gen = 1 /\ nonce = 0 /\ completed = 0
  /\ stop = FALSE /\ queue = <<>> /\ exhausted = FALSE
  /\ pc = [w \in Workers |-> "loop"]
  /\ snap = [w \in Workers |-> [gen |-> NoGen, hdr |-> work]]
  /\ chunk = [w \in Workers |-> [gen |-> NoGen, next |-> 0, end |-> 0]]
  /\ cached = [w \in Workers |-> NoGen]
  /\ sieveOn = [w \in Workers |-> SieveTarget > 0]
  /\ batch = [w \in Workers |-> {}]
  /\ pend = [w \in Workers |-> Flight(NoGen, work, {})]
  /\ job = [w \in Workers |-> Job(Flight(NoGen, work, {}))]
  /\ owner = [x \in Windows |-> "free"]
  /\ scanned = {}

FarmNext ==
  \/ \E w \in Workers : Worker(w)
  \/ NewWork \/ CheckExhausted \/ Rotate \/ TakeGap \/ RequestStop \/ Terminated

FarmSpec == FarmInit /\ [][FarmNext]_vars

\* The threads run, and main keeps looping over its checks; nobody has to
\* publish new work or ask for a stop.
FarmFairness ==
  /\ \A w \in Workers : WF_vars(Worker(w))
  /\ WF_vars(CheckExhausted) /\ WF_vars(Rotate) /\ WF_vars(TakeGap)

FairFarmSpec == FarmSpec /\ FarmFairness

-----------------------------------------------------------------------------
Places  == {"loop", "turn", "window", "admit", "sieve", "reshape", "drain", "wait",
            "exit", "done"}
Owners  == Workers \cup {"free", "stolen", "done"}
Snaps   == [gen : Nat, hdr : Headers]
Chunks  == [gen : Nat, next : 0 .. NumWindows, end : 0 .. NumWindows]
Flights == [gen : Nat, hdr : Headers, wins : SUBSET Windows]
Singles == {f \in Flights : \E x \in Windows : f.wins = {x}}
Jobs    == [gen : Nat, hdr : Headers, todo : SUBSET Windows, unmarked : SUBSET Windows]
Entries == [gen : Nat, hdr : Headers, idx : Windows, late : BOOLEAN]

\* Every variable stays in its domain; the gap ring never overflows.
TypeOK ==
  /\ work \in Headers /\ gen \in Nat /\ nonce \in 0 .. NumWindows
  /\ completed \in Nat
  /\ stop \in BOOLEAN /\ exhausted \in BOOLEAN
  /\ queue \in Seq(Entries) /\ Len(queue) <= QueueCap
  /\ pc \in [Workers -> Places]
  /\ snap \in [Workers -> Snaps]
  /\ chunk \in [Workers -> Chunks]
  /\ cached \in [Workers -> Nat]
  /\ sieveOn \in [Workers -> BOOLEAN]
  /\ batch \in [Workers -> SUBSET Singles]
  /\ pend \in [Workers -> Flights]
  /\ job \in [Workers -> Jobs]
  /\ owner \in [Windows -> Owners]
  /\ scanned \in SUBSET Windows

Of(state) == {x \in Windows : owner[x] = state}

\* The windows of the active header that worker w still has to deal with, by
\* where they are: its chunk, its sieve batch, its Fermat batch, being scanned.
InChunk(w) == IF chunk[w].gen = gen THEN {x \in Windows : chunk[w].next <= x /\ x < chunk[w].end}
              ELSE {}
InBatch(w) == {x \in Windows : \E f \in batch[w] : f.gen = gen /\ x \in f.wins}
InPend(w)  == IF pend[w].gen = gen THEN pend[w].wins ELSE {}
InTodo(w)  == IF job[w].gen = gen THEN job[w].todo ELSE {}
InMark(w)  == IF job[w].gen = gen THEN job[w].unmarked ELSE {}

Held(w) == InChunk(w) \cup InBatch(w) \cup InPend(w) \cup InTodo(w) \cup InMark(w)
Apart(w) ==
  /\ InChunk(w) \cap (InBatch(w) \cup InPend(w) \cup InTodo(w) \cup InMark(w)) = {}
  /\ InBatch(w) \cap (InPend(w) \cup InTodo(w) \cup InMark(w)) = {}
  /\ InPend(w) \cap (InTodo(w) \cup InMark(w)) = {}
  /\ InTodo(w) \cap InMark(w) = {}

\* Every window of the active header is in exactly one place: not claimed yet,
\* in the hands of the one worker that claimed it for this header (in one of
\* its stores), claimed for a header that is gone, or counted - once.  No
\* flush, failed GPU batch or change of work loses or doubles a window.
WindowsAccounted ==
  /\ \A x \in Windows : owner[x] = "free" <=> x >= nonce
  /\ completed = Cardinality(Of("done"))
  /\ \A w \in Workers : Of(w) = Held(w) /\ Apart(w)

\* miner_farm_work_exhausted tells main to leave a header only when every window
\* of it was searched with that header's own base (not with the base of an
\* earlier one whose worker raced the change of work).
ExhaustedMeansScanned == WorkExhausted => scanned = Windows

\* A queued gap that carries the current generation was found under the header
\* that is active now, in a window searched for it: main may submit it with the
\* active header and the gap's own nonce.
EntryUnderItsHeader ==
  \A i \in 1 .. Len(queue) :
    queue[i].gen = gen => /\ queue[i].hdr = work
                          /\ queue[i].idx \in scanned
                          /\ owner[queue[i].idx] \notin {"free", "stolen"}

\* The residues the GPU sieve marks a batch with are those of the header its
\* windows were claimed under: a batch is never carried over a change of base.
SieveBaseMatches == \A w \in Workers : \A f \in batch[w] : f.gen = cached[w]

\* Once main has found the header exhausted no gap of it can be queued any more:
\* whatever the header has to offer is in the queue before the header is left.
NoGapAfterExhaustion ==
  [][exhausted /\ Len(queue') > Len(queue) => queue'[Len(queue')].gen < gen]_vars

\* The farm implements the abstract scan of a header.
Abs == INSTANCE HeaderScan WITH
         header <- work, free <- Of("free"), done <- Of("done")
HeaderScanned == Abs!Spec

\* A stop request ends every thread, wherever it is: in the claim wait, in the
\* middle of a batch, or sleeping over an exhausted header.
StopTerminates == stop ~> Done

\* Each header is scanned to the end or replaced, unless the farm is stopped -
\* or a worker claimed some of its windows with the snapshot of an older header.
StallOnlyByStolenClaim ==
  \A g \in 1 .. MaxGeneration :
    (gen = g) ~> (gen > g \/ stop \/ WorkExhausted \/ Of("stolen") # {})

\* What miner_farm.h says of miner_farm_work_exhausted: it becomes true once
\* every window of the header is completed.  The claim race makes it miss.
HeaderRangeCompletes ==
  \A g \in 1 .. MaxGeneration : (gen = g) ~> (gen > g \/ stop \/ WorkExhausted)
=============================================================================
