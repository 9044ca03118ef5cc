# A TLA+ development for GapMiner V2

GapMiner V2 (`new_src/`) mines Gapcoin: it looks for large gaps between
consecutive primes in ranges that a block header determines, and hands each
gap it finds to a node (as a block) or to a pool (as a share). This directory
models the part of it that is concurrent: how work reaches the threads, what
becomes of every window of it, what a window's sieve and search find, how a
found gap gets from a worker to the node or the pool, how a window's candidates
travel through bitmaps, buffers and flights on the GPU, how the prime-gap hunt
survives a crash, and how all of it stops.

All paths below are relative to the repository; line numbers are those of the
commit the modules were written from. The map from each definition to its
lines is in `PROJECT.json`.

## 1. Inventory

### 1.1 The parts and how they interact

```
 gapcoind  <--RPC--  RPC thread --template slot (g_rpc_lock)-->  main loop
                                                                  |   ^
 pool <--TCP-- receive thread --published work (work_lock)------> |   | gap queue
      <-------- submit_share (send_lock) ------------------------ |   | (g_gap_queue_lock)
                                                                  v   |
                        miner farm: header, generation, counters (work_lock)
                                                  |    ^ completed windows
                        lock-free window counter  v    |
                                        worker threads --batches--> GPU / CPU sieve, Fermat
```

| part | state | operations |
|---|---|---|
| Mining farm, `miner_farm.c`, `atomic_nonce.c` | active header and height in every worker's configuration, work generation, window counter, completed windows | `update_work`, `work_exhausted`, `stop`, `join`, `claim` |
| Worker threads, `worker_gpu.c` | snapshot of the work, claimed chunk, cached sieve residues, GPU sieve batch, pending Fermat batch | the loop of `worker_thread_run`: snapshot, adopt, claim, sieve, batch, flush, process, mark, sleep, leave |
| Gap queue, `worker_gpu.c:257-306, 4411-4433` | a ring of entries, each with the generation and header nonce it was found under | push by workers (drops when full), pop by main |
| Main loop, `main.c:1105-1466` | current template, header nonce, the queue entry in hand | take a template, poll the pool, check exhaustion, rotate, flush the queue, submit |
| RPC thread, `main.c:133-172` | last height seen, one template slot and its flag | poll `getblocktemplate`, signal on a change of height |
| Templates and blocks, `gapcoin_work.c`, `gapcoin_rpc.c`, `block_assembly.c` | header prefix and nonce | first and next header nonce whose hash is in range, block bytes, `submitblock` |
| Stratum client, `stratum.c` | socket, connected flag, ids, ring of pending shares, ring of payload hashes, published work, counters | connect and reconnect, handle a line, refresh, submit, poll, disconnect |
| Gap hunt, `gap_hunt.c` | walk position, two flights, the cache of residues on the device, the prefetch, state file | fill, submit, collect, scan, process, save, resume |
| CRT worker, `worker_gpu.c:1640-2160, 2758-4370` | nonce and row, two flights, bitmaps and row arena, fallback switches | mark, extract, submit, collect, chain scan, full scan, drain |
| CRT tables, `crt_*.c`, `covering.c`, `gap_target.c` | residues read from a file | choose nonces and bases |
| Test slots, `gpu/gpu_fermat.cu` | two slots per context: pending, count, event | submit, collect |
| Arithmetic: `pow_q48.c`, `halfclass.c`, `gap_detection.c`, `gap_dist.c`, `sieve_core.c`, `primality_*.c` | none, or tables; the limbs of the last candidate | sieves, primality tests, merit and difficulty |
| GPU: `gpu_adapter.c`, `gpu/*.cu` | device buffers | batched sieve and Fermat kernels |
| Records: `record_log.c`, `merit_records.c` | a log file, a table | append a line, look a merit up |

### 1.2 What is hard, and what makes each part correct

* **Farm.** Work changes at any moment under threads that hold half-processed
  batches of the old work, and the window counter is claimed without the lock.
  Correct means: every window of a header is claimed once, searched with that
  header's base, counted once and only for it; a header is left only when all
  of it was searched; a queued gap carries the header it was found under;
  every thread stops.
* **Main loop and RPC thread.** A template slot and a flag between two
  threads, a rotation, a flush and a submission that takes up to 60 s, in one
  loop. Correct means: no new height is lost, a block mixes no two templates,
  no gap is handed over twice, each gap gets an outcome that says what
  happened, shutdown does not hang.
* **Stratum client.** Connections drop in the middle of two-step operations;
  answers carry only an id. Correct means: a verdict goes to the share it is
  about, once; no share is lost from sight; the client ends up on the work the
  pool spoke of last; an unchanged refresh changes nothing.
* **Gap hunt.** Two flights and a prefetch are under way when the process is
  killed or a device call fails; residues are cached on the device across
  windows. Correct means: the saved position never passes a window whose gaps
  are not in the output; each candidate is tested as an offset from its own
  base, with the marks of its own sieve; the chain of primes reports exactly
  the gaps a full test would; every window is searched in the end.
* **CRT worker.** Bitmaps, row arenas, candidate buffers and test slots are
  reused while their former contents are still to be read; a failure falls
  back to another path in the middle of a flight. Correct means: a window is
  scanned once, with the results of its own candidates, under its own work; a
  failure costs one flight at most; a stop and new work are taken.
* **Sieve and search of a window.** Marks by vectors, tails of words, a halo
  that grows, half of the residue classes tested, results that come back in
  pieces. Correct means: the survivors are the numbers without a small factor;
  only gaps between consecutive primes are queued; every gap the halo can close
  is queued, by one window.
* **Difficulty** (not modelled). The value the node computes, to the last bit.

`PROJECT.json` lists every hazard at its line, with the properties that watch
it, or the reason why none does.

## 2. Modules

| module | what it is |
|---|---|
| `HeaderScan` | what the farm promises: the windows of a header are handed out and counted at most once, and the header advances only when all are counted |
| `MinerFarm` | farm and worker threads (non-CRT), implementing `HeaderScan` |
| `MinerFarmProofs` | its theorems |
| `MinerNode` | node mode: `MinerFarm` with the real main loop, the RPC thread and a node |
| `MinerNodeProofs` | its theorems, resting on those of the farm |
| `StratumClient` | pool mode: receive thread, main's pool branch, a pool behind a connection that drops |
| `StratumClientProofs` | its theorems |
| `WindowScan` | what a scan of one window reports: the chain of `MINING_JUMP2`, the full test, the quarter scan of the hunt |
| `WindowScanProofs` | its theorems |
| `RangeWalk` | what the hunt's walk promises: the saved position passes reported windows only |
| `HuntFill` | the fill of a flight of the hunt: residue cache, bitmaps, packing |
| `GapHunt` | the walk of the hunt with its flights, prefetch, saves, failures, signals and kills, implementing `RangeWalk` |
| `GapHuntProofs` | its theorems, and how much a restart repeats |
| `CrtWorker` | a worker in CRT mode with the test slots of the device |
| `CrtWorkerProofs` | its theorems |
| `OddSieve` | the sieve of a window: marks, bitmap, extraction |
| `LimbEuler` | the CPU's Euler and Fermat tests on limbs: Montgomery products, windows of the exponent, conversion |
| `LimbEulerProofs` | its theorems: the arithmetic is exact and the tests decide what they are named for |
| `HalfClass` | the two-pass scan: visible and hidden residue classes |
| `WindowSearch` | a non-CRT worker and the numbers of a header: sieve, halo, Fermat batch, gap search, verification |
| `WindowSearchProofs` | its theorems |
| `MC...` | the constants of the runs |

Definitions called *Mutant* in a comment are plausible bugs: putting one in the
place of the definition it precedes must break the property that
`PROJECT.json` pairs it with. They are no part of the model.

### 2.1 MinerFarm

One step is one critical section, one compare-and-swap, or one stretch of
thread-local work. `pc[w]` is where a worker is in `worker_thread_run`:
`loop` (top), `turn` (the generation moved: flush the old batches, then
`Adopt`), `window` and `admit` (take the next window of the chunk, or claim
another), `sieve` and `reshape` (flush a sieve batch in the middle of the
loop), `drain` and `wait` (nothing to claim), `exit`, `done`. A worker's
windows are in one of its chunk, sieve batch (`batch`), Fermat batch (`pend`)
or `job`, the call of `worker_process_window` under way.

Abstractions:

* A window has no content: its search may queue a gap or not. More than one
  gap per window would be more entries of the same kind.
* `update_work` stores the window counter inside its critical section, where a
  lock-free claim can come in between. Such a claim touches the counter
  alone, so it commutes with the rest of the section.
* The autotuned size of a sieve batch is any size up to `SieveTarget`. A sieve
  failure may come between two windows of a flush; in the code it comes before
  the first one.
* The range test at `worker_gpu.c:1384-1392` is left out: no claimed window
  fails it. A window whose sieve cannot be allocated (1546) is not modelled.
* `owner` and `scanned` are history: they are read by properties only.

The model's main thread (`NewWork`, `CheckExhausted`, `Rotate`, `TakeGap`,
`RequestStop`) can do these in any order the real one could; that the real one
does nothing else is `FarmUsedAsAssumed`, below. Rotating beyond the last
valid header nonce stops the farm, as in the code.

### 2.2 MinerNode

`mainPc` follows one pass of the loop: `top` (take the template, if there is
one), `check` and `rotate`, `flush`, `submit`, `await` (the `submitblock` call
is under way), and after the loop `joinRpc`, `joinWorkers`, `over`. The RPC
thread alternates between a call to the node (`Fetch`) and the critical
section of `g_rpc_lock` (`Store`). The node moves along `Templates`; `Height`
says which of them have the same height. A template with no header in
`Headers` is one `gapcoin_gbt_work_init` cannot use, which stops the farm.

The statuses *below-target* and *assemble-failed* are one outcome, `withheld`;
*accepted* and *rejected* (a timeout included) are `answered`. A failed fetch
is a step that changes nothing.

### 2.3 StratumClient

`send_lock` and `work_lock` sections are one step each. What takes two in the
code takes two here: `Submit` then `Send`, `Publish` then `ResetDedup`,
`Reconnect` then `Reconnected` (between which `send_lock` is free for the
callbacks), `Send` then `RecordRefusal` (main asks whether the client is
connected). `link` is the socket: `up`, `dropped` (the peer is gone; a send
may still seem to work), `none` (closed, or known to be dead). When a
connection drops, what the pool has not read is lost and a prefix of what it
sent arrives. The pool, `PoolRotates`, `PoolRetargets`, `PoolAnswers` and the
network, `LinkDrops`, are external: they do what `stratum.c` and
`docs/POOL_STRATUM.md` expect of a pool, including an answer to a submission that
is work or neither yes nor no. A push carries the pool's current work. An
answer may carry any template the pool has had, under its first or its present
target (`Templates`): the production pool was captured answering every request,
in new sessions too, with one template it had cached, while its pushes carried
a newer one (`docs/POOL_STRATUM.md:85`).

With such a pool a refresh or a reconnect takes the client back to the older
template, which `parse_work_params` publishes as new work, with an empty
duplicate ring. Two history variables let the properties say what holds then.
`told` is the work in the pool's last push or answer, delivered or not:
`WorkAdopted` promises this work and no other, which may be a template the pool
has abandoned. `again` collects the headers that an answer has brought back
after the pool spoke of another: their shares may be sent again, and `NoResend`
is about all others.

Abstractions: a payload is the header it is for and a gap; hashes do not
collide; the network difficulty and the counters are left out; the farm is
reduced to what `MinerFarm` shows of it, a gap is queued at most once per
publication of a work (`found`), and `EntryUnderItsHeader`; a send to a pool
that is alive but does not read (a `select` that times out) is not modelled;
an unusable header ends the program (`Leave`). `due` is `last_request == 0`;
a refresh because the timer ran out may come at any idle tick.

### 2.4 WindowScan

One window of the hunt, from its survivors to the reported gaps. `phase`
follows the record of a flight through `gh_jump2_scan` (`FIND_FIRST`,
`JUMP_BACK`, `FIND_END`, `DONE`, as `J2_...` in the code) or the full scan of
`gh_batch_process` (`FULL`); one action is one round, in which a slice
`clo .. chi-1` of the candidates was tested. `Release` and the next `Fill`
reuse the record without a reset, which is the hazard at `gap_hunt.c:1016`.

Abstractions: numbers are offsets in the window; `Need[a]` is
`min_merit * ln(base + a)` and `Thr` the chain's threshold from the window's
base; what survives the sieve and what is prime are chosen freely, and the
probable-prime test may err at the offsets `Pseudo`. A gap that reaches from
one window into the next is not looked for by the code either.

### 2.5 HuntFill, GapHunt, RangeWalk

`HuntFill` has the state of the sieve: the window `dev_k` for which residues
are on the device, what the host believes of it (`res_k`, `res_valid`), and for
which window each bitmap was marked. A candidate in a buffer is a cell that
holds the base it was built from and the window its bitmap was marked for;
`OwnSurvivors` compares both with the window it is reported for. The operators
return the set of outcomes of a step with the number of device faults each
took, so that `GapHunt` can use them for a fill (`FillFlight`) and a prefetch
(`Prefetch`) alike.

`pc` follows one iteration of the loop of `gap_hunt_run`: collect or skip,
process, refill, fill, submit or scan, tick (periodic save), and after the loop
the drain of both flights and the final save. `Kill` ends the process anywhere
and `Start` resumes from the state file. `Configs` are the combinations of
`GAP_HUNT_JUMP`, `GAP_HUNT_JUMP2`, `GAP_HUNT_PREFETCH`, incremental residues,
deferred counts, a limit of windows and a width limit.

Abstractions: a window has at most one candidate cell, so a flight of K windows
packs up to K cells; a flight without candidates is chosen by `hollow`; the
kernel of a submitted flight reads the buffer when it ends. The state file is
replaced by a rename in the code and is one step here. Power loss (no `fsync`)
is not modelled.

### 2.6 CrtWorker

`pc` follows `worker_thread_run_crt` and the `crt_fused_*` functions it calls:
`snap`, `nonce`, `row`, `mark`, `cpu` (the path without the GPU), `submit` and
`collect` (batch mode), `chain` and `full` (chain mode), `scan`, `window` and
`hidden` (the windows of a flight), `exit0`, `exit1`, `done`. A bitmap and a
row of the arena hold the window they were marked for, a candidate cell its
base and its marks, `is_prime` the candidates a result is about. A test slot is
`busy` from a submission to a successful collect, as `pending[slot]` in
`gpu_fermat.cu`; `KernelEnds` reads the buffer at the last moment it may.

Abstractions: `Rows` gives the windows of a nonce (0 where its hash or its
alignment is of no use); a flight's windows have one candidate or none; workers
share nothing but the published work, so there is one; the nonce space of
`2^32` is `LastNonce`, whose wrap is not modelled; the hybrid CPU sieve is one
step, `CpuWindow`; which gaps are good enough is not modelled. A base grows with
its row, so rows after one that is too wide are too wide (`WidthAssumption`):
`row_batch_marked` is set whenever a later row is marked
(`worker_gpu.c:3877-3907`).

### 2.7 OddSieve, HalfClass, LimbEuler, WindowSearch

`MinerFarm` says which worker gets which window; here one worker takes all
windows of a header in turn, with their numbers. A bitmap is the set of its
marked slots. `pc` follows the body of the window loop of `worker_thread_run`:
`sieve` and `probe` (does a prime close the halo?), `dispatch`, then
`worker_process_window` for a window on the CPU (`process`), or
`gpu_pending_flush` for a batch: `stage`, `submit`, `oldest`, `rest`, `process`.
`Inputs` are headers with a setting: residues cached for the header or fresh
for the window, the hybrid sieve with its split, vectors or not, CPU or GPU
tests, half or a quarter of the classes, the CPU test, and the pseudoprime and failures
of the run.

With `GAPMINER_CPU_LIMBS` the CPU tests on limbs. `CacheFor` is
`worker_limb_cache_euler`'s cache: the limbs of the last candidate, advanced by
the difference of the offsets, filled anew, or invalid when the candidate is too
wide; `CpuCaches` is what it holds at each candidate in turn. `LimbEuler` is
`primality_limbs.c`: a limb is a number below `2^LimbBits`, and
every carry, borrow and wrap of the code is written out; the code's copies of a
function for 2 to 20 limbs are one operator, the two forms of the product on
x86, with and without ADX, are two. `Pow2Window` serves the exact tests (windows
of four bits, read by `GetBits4`) and the ones for other widths (`GetBitsW`).
`Accumulate` stands for a loop and `Only` binds a value.

Abstractions: `Prime` is the set of primes and `pseudo` the composites that pass
GMP's or the device's test; BPSW and the Miller-Rabin test of hidden candidates are exact,
as every composite in the range of the runs would show if they were not used;
`Need[p]` is the length a gap that begins at `p` needs for the merit threshold.
The reciprocals of `sieve_fast_mod` and the kernels are `%`. A word has
`WordBits` bits and a vector `Lanes` words. A window that finds no room in a
batch is kept until the batch is flushed. A batch keeps no more than one header
here; what becomes of a batch at a change of work is `MinerFarm`'s subject.

## 3. What the runs show

| run | shows |
|---|---|
| `farm_cpu` | two workers without batches over three windows and three headers: `WindowsAccounted` (each window is unclaimed, with one worker in one place, stolen, or counted once), `ExhaustedMeansScanned`, `EntryUnderItsHeader`, `NoGapAfterExhaustion`, and the refinement `HeaderScanned` |
| `farm_gpu` | one worker with both kinds of batches against main: the accounting again, `SieveBaseMatches`, `StopTerminates`, `StallOnlyByStolenClaim` |
| `farm_stall` | violation, finding 1 |
| `node` | `OneTemplatePerBlock`, `SubmittedOnce`, `FarmUsedAsAssumed` (the program is an instance of `MinerFarm`'s specification), and with fair threads `NewHeightIsMined`, `QueueDrains`, `ShutdownCompletes` |
| `node_stale` | violation, finding 2 |
| `pool` | `VerdictIsThePools`, `OneVerdict`, `NoSilentLoss`, `NoResend`, and with fair threads `ShareResolved`, `WorkAdopted`, `ClientStops` |
| `hunt_chain` | for every content of small windows, in the chain, the full and the quarter scan: `NoFalseGap`, `NoMissedGap`, `ScanEnds` |
| `hunt_quarter` | violation, finding 3 |
| `hunt_walk` | `NoWindowSkipped`, `RedoBounded` (how much a restart repeats), `OwnSurvivors`, the refinement `ImplementsRangeWalk`, `EveryWindowSearched`, `EveryRunEnds` |
| `crt` | `OwnResults`, `UnderItsWork`, `NeverTwice`, `LossPerFailure`, and `StopEndsIt`, `NewWorkTaken` |
| `crt_hang` | violation, finding 4 |
| `window_search` | `SurvivorsExact`, `LimbTestExact`, `NoFalseGap`, `EveryGapOnce`, for 968 combinations of header, setting, pseudoprime and failures |

### 3.1 Bounds

* Farm: three windows in chunks of two give a full and a partial chunk, and two
  claims by two workers; a queue of one entry is full after one gap;
  batches of two are full, partial and empty; two generations give one change
  of work, by rotation or by replacement, under every state of the workers.
  What a third generation would add is a worker that sleeps through one, which
  `gen # snap.gen` does not tell from one change; the proofs of section 4 have
  no bound. `MaxGeneration` guards `NewWork` only, so that main never stops
  rotating because of the bound.
* Node: one worker and one window, since what several do to each other is the
  farm's matter; three templates of rising heights, so that a second one can
  arrive while the first waits in the slot, and an unusable one among them; two
  header nonces for one template, so that a rotation happens. `MaxChanges`
  bounds the node's moves.
* Pool: two headers, two targets and one gap give a rotation, a retarget by
  either kind of push, and a second submission of the same payload; a pending
  ring of one is full with the first share; one dropped connection at any
  point, or a refresh because the timer ran out, at any point (`MaxTroubles`
  counts both; the refresh after a run of rejections is not counted); the pool
  changes its work once (`MaxChanges`), and each of its answers may carry the
  older template. The invariant behind `NoResend` was also checked with three
  headers and two changes, where an answer can go back two templates.
* Window scan: the offsets `1 .. 8`, 10 and 14 with slices of two and three
  candidates give slices that are full, cut by the end and cut by the last
  prime, hops of every length, two wide gaps in a row, and more wide gaps than
  there is room for (`Cap` is 2). Four sets of survivors include the empty one
  and a single candidate. All sets of primes among the survivors are tried.
* Hunt: flights of three windows (a pair and a single one), `MLimit` of 3 so
  that the cache is folded and refreshed within a flight, buffers of four
  cells, a save when seven windows were processed, which never coincides with
  the end of a flight. One fault, one kill and one stop, each anywhere, in seven
  settings; a restart after a kill may meet the fault. Twenty-seven windows are
  nine flights, enough for flights without candidates to overtake one in the air
  both before a save and before the next: the bound of `RedoBounded`, one period of
  saves and four flights, is reached to the window, and one window less is refuted.
* CRT: flights of two windows, three nonces with two, one and two rows (so that
  a flight covers two nonces, and one is left partial), two works, two failures
  anywhere, in four settings.
* Window search: four windows of 32 numbers with a halo of 8 or 32 give a halo
  that suffices, one that has to grow, one that is not enough (a gap of 34
  begins at 1327) and one cut by the end of the range. Words of six bits and
  vectors of two words over 16 to 32 slots give every position of the last word
  in a vector. Sieving by 3, 5 and 7 leaves composites between 1024 and 4096,
  one at a time of which passes the Euler test. Batches of up to two windows in
  pieces of seven give two slots in flight, a partial piece and three pieces of
  a batch; two device calls fail. Needed lengths of 12 and 16 are met by several
  gaps of each header. Limbs have four bits, as many as a window of the exponent,
  and a number at most three: the six headers tested on limbs have two limbs,
  three, and (4096) one too many, and two of them have a base-2 Euler
  pseudoprime that survives the sieve, 2047 and 4033. A top limb with and without its highest bit, carries
  out of it and windows across limbs all occur; each of five slips in these places
  is found by `LimbTestExact`.

### 3.2 Fairness

* Weak fairness for each worker thread, the RPC thread, the main loop and the
  receive thread: they are threads of the operating system, and none of their
  steps waits for ever for a lock, since no lock is held across a step.
* The node answers a repeated `getblocktemplate`; `submitblock` returns (it has
  a timeout of 60 s, `gapcoin_rpc.c:526`).
* The pool answers what it has read on a connection that is up
  (`WF(PoolAnswers)`), and accepts a new connection in the end (part of the
  receive thread's fairness).
* The hunt's thread and the CRT worker take their steps, and the device ends the
  tests it was given (`WF(Walk)`, `WF(Worker)`, `WF(Kernels)`). Of the hunt,
  somebody starts it again after it has ended (`WF(Start)`): without that, a
  walk that was stopped stays stopped. Faults, kills and stops are bounded, so
  they do not recur for ever.
* Nobody is obliged to publish work, find a gap, drop a connection or ask for
  a stop.

## 4. What is proved

For any number of workers, windows, headers and templates, any sizes of
batches, queue, rings, flights and limits, under `FarmAssumption`, `NodeAssumption`,
`StratumAssumption`, `FillAssumption`, `WalkAssumption`, `CrtAssumption` and those of
`WindowScan` and `WindowSearch` (the types of the constants; worker names are not the
words used for owners; a flight fits its candidate buffer; the node has finitely many
templates, numbered in their order; only the flights of the chain exceed a submission;
a header's base and the size of a window are even, being a multiple of `2^shift` and a
power of two, and the base is positive, being a hash of 256 bits
(`gapcoin_work.c:269`); a limb has at least four bits, which `cpu_get_bits4` relies on,
the Newton steps double up to a limb, and the windows of the exponent have the three to
five bits that `cpu_window_cfg_init_once` admits; the numbers searched are above the primes they are sieved with, so that a
prime among them is odd and has no small factor; a later start needs no shorter gap,
as a merit is a length over the logarithm of the start, `gap_detection.c:146`; Euler's
criterion):

| theorem | states |
|---|---|
| `TypeCorrect` | `TypeOK` of `MinerFarm` |
| `Invariant` | `IInv`, the inductive invariant |
| `Accounted`, `ExhaustedScanned`, `EntryMatches`, `SieveBase` | the invariants of `farm_cpu` and `farm_gpu` |
| `QuietAfterExhaustion` | the action property `NoGapAfterExhaustion` |
| `Refinement` | `MinerFarm` implements `HeaderScan` |
| `NodeUsesFarm` | `FarmUsedAsAssumed` |
| `NodeFarmInvariant`, `NodeExhaustedScanned` | so what holds of the farm holds with the real main loop |
| `NodeTypeCorrect` | `TypeOK` of `MinerFarm` and `NodeTypeOK` of `MinerNode` |
| `BlocksFit` | `OneTemplatePerBlock` |
| `GapsSubmittedOnce` | `SubmittedOnce` |
| `VerdictsRight`, `VerdictsOnce`, `NothingLost`, `NothingResent` | `VerdictIsThePools`, `OneVerdict`, `NoSilentLoss`, `NoResend` of `StratumClient` |
| `ScanTypes` | `TypeOK` of `WindowScan` |
| `ScanSound` | `NoFalseGap`, if every setting is the full scan or the chain over all classes (`ExactConfigs`) |
| `ScanComplete` | `NoMissedGap`, likewise |
| `NothingSkipped` | `NoWindowSkipped` of `GapHunt` |
| `OwnCandidates` | `OwnSurvivors` |
| `WalkRefines` | `GapHunt` implements `RangeWalk` |
| `RedoStaysBounded` | `RedoBounded` |
| `CrtTypeCorrect` | `TypeOK` of `CrtWorker` |
| `ResultsAreOwn`, `ScansUnderWork`, `ScannedOnlyOnce`, `FailureCostsOneFlight` | `OwnResults`, `UnderItsWork`, `NeverTwice`, `LossPerFailure` of `CrtWorker` |
| `SieveIsExact` | `SurvivorsExact` of `WindowSearch` |
| `MontMulExact` | a Montgomery product is `a * b / R` modulo `n` and below `n` |
| `Pow2WindowExact` | the windows of the exponent `e` give `2^e` in Montgomery form |
| `LimbTestsExact` | the Fermat and the Euler test on limbs decide what they are named for |
| `Advanced` | limbs advanced by a difference are those of the sum, or a carry is left |
| `LimbTestIsExact` | `LimbTestExact` of `WindowSearch` |
| `GapsAreTrue` | its `NoFalseGap`, with either test of the CPU |
| `GapsQueuedOnce` | its `EveryGapOnce`, likewise |

The invariant. `WindowsAccounted` alone is not inductive: whether a flush
returns a window to the right place depends on whose window it is. `IInv` adds

* `Provenance`: whatever carries the current generation (snapshot, batch, job,
  queue entry) carries the active header, because both are read in one
  critical section, and nothing carries a later one;
* `Discipline`: all that a worker holds has the generation of its chunk,
  because `Adopt` waits for the batches to be flushed;
* `TurnsFromOld`: a worker that flushes for a change of work holds nothing of
  the current generation;
* `VerdictStands`: a verdict of exhaustion stays true until main acts on it;
* `Searches`: what is counted, or about to be, was searched.

A worker whose chunk is of an old generation therefore holds no window of the
active header (`Stale`), and one whose chunk is of this generation holds what
its stores name (`Live`); each step moves one window between the two sides of
the account (`MoveKeepsAccount`, `CountKeepsAccount`). Exhaustion is a count:
`completed` is the cardinality of the finite set of counted windows, so a count
of `NumWindows` means all of them (`AllDone`), and by `Searches` all of them
were searched. After that no worker holds a window of the current generation,
so no gap of it is queued (`QuietStep`). The refinement maps `free` and `done`
to the windows with these owners: a claim is `HandOut`, a mark is `Count`,
`update_work` is `Rotate` after a verdict and `Replace` otherwise.

The node-mode program is shown to be a behaviour of `FarmSpec` step by step
(`NodeIsFarm`), so the farm's theorems hold of it. `BlocksFit` needs `NInv`:
main's template is that of the published header, or the farm has been stopped.

`GapsSubmittedOnce` combines both levels (`Once`). Within one header: a window that
was searched is counted or about to be (`Settled`), so nobody searches it again and
at most one queued gap of the active header names it (`QueuedOnce`); once main has
taken that gap, it is gone from the queue and from all workers' hands (`CurGone`,
`SentGone`). Between headers: templates reach main in rising order, because the RPC
thread stores one only when its height differs from the last (`TemplatesRise`), and
nonces rise within a template, so no header comes back (`SentBefore`). That a
worker still searches windows of an old header does no harm: their entries carry
the old generation, and main drops them.

`StratumClient` is proved for a pool that answers with any template it has had, any capacity of the two rings and any
number of shares in flight, reconnects and refreshes. A verdict finds its share
by an id, so the invariant follows the ids: every id in use (in the ring, on
either wire, or taken by a submission that has not sent yet) is below `msgId`
(`FreshIds`), a share has one entry in the ring (`OneEntry`), a line to the
pool with the id of an entry is the submission of that share (`IdsBind`), and a
line from the pool with it is what the pool said of this share
(`AnswersBind`). That a reconnect empties the ring in the step in which it drops
both wires is what keeps the last two. `Open` puts every share without a verdict in one place,
the ring or the list to be reported, so no two of them report it;
`SendTracked` says that the share being sent is not forgotten between
its two steps. `NoResend` rests on an invariant of its own (`OnceInv`), about
one header that is not in `again`, as long as the target stays. On the way from
the published work along the wire to the pool's last word, the header forms one
run: where it is left, it does not come again (`OneRun`, `RunsOn`). Once main has
been told to leave it, or has mined and left it (`Past`), it is neither
published nor on the wire. So main comes to the header once and to each of its
gaps once; the shares of such headers are all different, and `DedupCap` plays no
part in it. What the pool answers is free: an answer that brings back a header
moves it to `again`.

`WindowScan` is proved for windows of any size and any survivors, primes,
pseudoprimes and widths of slices. The invariant speaks of the last prime `p`
the chain has found (`pidx`): the pairs on the list are exactly the pairs of
neighbouring probable primes at least `Thr` apart that end at `p` or before
(`FoundUpTo(p)`); while a slice is searched backwards from `q`, no candidate
between the slice and `q` is a probable prime; while the end of a wide gap is
searched, none from `p` up to the slice is. A hop from `p` to a later prime
less than `Thr` away passes no wide pair (`NearerAnchor`), which is why the
candidates between them need no test. The proof needs `Thr <= Need[a]`: the
chain's threshold comes from the window's base, below every start of a gap.

`GapHunt` is proved for flights of any size, any period of saves, any limits and
settings, and any number of failures, signals, kills and restarts. The fill is
proved first, outside the walk: whatever way a step of it takes (rebuilt, stepped
or folded residues, a pair, its fallback after either window, a fault anywhere),
`FillStepGood` says that the sieve's host side still knows which window the
residues on the device stand for (`EngineOk`), and that on success the first
windows of the flight are packed with candidates of their own in cells of their own
(`Filled`). The invariant of the walk then has four parts:

* `Roles` and `PrefOk`: which flight may be active, filled or prefetched where; in
  particular a prefetch writes the flight whose turn it is not, and is over before
  that flight is looked at;
* `Packs`: a flight that counts as filled is full, and nobody writes it then;
* `Accounted`: every window below the position of the walk is in the output, in the
  air, prefetched, or in the flight being scanned or processed; once the loop was
  left, every window below the position to be saved is in the output or in the air,
  and a drain that fails brings that position back;
* `Ahead` and `SavedBehind`: whatever is in hand lies between the saved position and
  the position of the walk, so that each position a failure names
  (`next_k`, a flight's base, `k_safe`) is one the first part covers (`FailKeeps`).

A periodic save needs the prefetch to be over when it happens (`PrefOk` at `tick`):
`k_safe` ignores a prefetch that has not filled a window yet.

`RedoStaysBounded` counts what is in hand. `Load` is what was processed since the
last save, plus the windows of flights in the air, of the one just filled, of the
prefetched one and of what remains of the one being processed. The walk leads the
saved position by `Load` and at most one more flight (`Lead`), one without
candidates that was processed at once while an older one was in the air; only
one flight can have been filled after one in the air (`Near`), which is why it is
not more. `LoadBound` bounds `Load` at each place of the loop. After the loop only
`HandBelow` is left: all that may still be reported lies below the bound.

`CrtWorker` is proved for flights of any length, any table of rows, any number of
works, and any failures of the device. Its invariant `IInv` has, in the order in
which they rest on each other:

* `Control`, `Progress` and `Snapped`: in which mode, at which row and with which
  snapshot the worker can be where;
* `Filled`: the flight whose turn it is holds the `W_in` windows put into it under
  this work, and the other one is idle, in the air, or being dealt with;
* `Content`: the candidates of a flight lie in its buffer in the order of its
  windows (`Cum` counts them), each with the base and the marks of its window,
  which needs `Marked`: the held window of a pair goes into the other bitmap, and the
  rows still to come were marked with this nonce;
* `Submittal` and `Results`: a flight in the air has its slot with all its
  candidates, a slot whose kernel ended has the results of the buffer's present
  contents, and so a result that is scanned is that of the candidate in its place,
  or there is none. With `Content` this gives `OwnResults` and `UnderItsWork`;
* `Order`: the worker is past every window it took or searched (`KnownPassed`), the
  windows of the flights are different ones (`Distinct`), and what a flight has
  still to scan was not searched (`Unscanned`). So a window at hand is a new one, and
  `NeverTwice` follows;
* `LossBound`: a window is `AtRisk` when it was taken and was neither searched nor is
  sure to be (`Secure`: its flight is `Due`, or is being scanned, has not come to it
  yet and has a result for it). A window comes to be at risk only in a step in which
  the device fails, and only if it is in the flight the failure hits (`KeptStays`,
  `RiskMoves`); that flight has `K` windows at most, so each failure adds at most `K`
  (`LossStep`). What is `Lost` was at risk.

`WindowSearch` is proved for windows, words, vectors, halos and batches of any size,
any set of primes to sieve with and any inputs. First the arithmetic: `FirstSlot` is a
slot that `p` divides, because `p` is odd and `(p + 1) / 2` halves modulo `p`
(`FirstSlotRight`), so every `p`-th slot from it on are all of them; the masks by phase
of the vector path mark the same slots, and the scalar steps go on where the vectors
ended (`VectorMarksRight`, `AfterVectorRight`). So the cached, the fresh and the hybrid
bitmap are one (`Factored`), and the extraction, with the last word cut to size, leaves
the rest (`ExtractedRight`). `SieveInv` holds that a window waits with these
candidates, also while a full batch is flushed before it is admitted (`Holding`).

For `NoFalseGap`, each candidate of a batch has a place of its own in the packed array
(`Places`), `FlushInv` says that every place before `off` has its candidate's result or
waits for it in a slot, that a slot in flight is not submitted to, and that a batch that
did not fail has all its results when its windows are processed (`PassedSound`). What is
tested of a window is closed downwards (`TestedDown`), so between two neighbouring
positives, or before the first, there is no visible prime, and the chain has the hidden
ones (`ReportedTrue`). This needs tests that pass every prime: those of GMP and of the
device do by Euler's criterion, and the CPU's test on limbs because it is Euler's
(`LimbTestIsExact`), so the theorems suppose nothing of the tests.

`LimbEuler` is proved for limbs of any width from four bits, any number of limbs and
either multiplication. A loop of the code is a recursive function on `0 .. n`, which is
a `CHOOSE` over its equation. Induction is taken from the order of the strict subsets of
a finite set, which is well-founded: a set of naturals has a smallest element
(`SmallestIn`), so an invariant that is a set of states for each step, `I[k]`, is kept up
to the end of the loop (`Loop`, `LoopEnds`). No operator is passed to a
theorem for it. Powers of two are counted as subsets (`PowerNext`), because the provers
know nothing of `^`. On this the argument goes in five stages.

* Limbs. `Value` is the sum of the limbs with their weights, bounded by the next weight
  (`LimbsValue`), and two arrays of one value are the same (`LimbsEqual`). Addition with
  its carry, subtraction with its borrow, comparison by the highest different
  limb and doubling are exact (`AddU64Exact`, `SubLimbsValue`, `GteValue`, `ModDblExact`).
* The product. Both multiplications add `x * b` to `t` (`CiosExact`; `AdxExact`, where the
  two carry chains and the high limb stand for one carry): a limb times a limb, and two
  more limbs, fit two limbs (`MacExact`). The multiple of the modulus that is added then clears
  the lowest limb (`Cleared`) if `ninv` is minus the inverse, which the Newton steps find by doubling
  the number of its valid bits (`NewtonStep`, `MontNinvExact`). The sum stays below
  `n + b` (`OneLimbExact`), so that one limb above and one subtraction suffice (`MontMulExact`).
* Montgomery forms. `a` stands for `y` when it is `y * R` modulo `n` and below `n`
  (`Form`): forms multiply (`FormTimes`), `R mod n` comes from the highest bit of `n` by
  doubling (`RModNExact`), and the table has the odd powers of two (`OddPowersExact`).
* Windows. `GetBits4` and `GetBitsW` read the bits of the exponent, across limbs too
  (`GetBits4Exact`, `GetBitsWExact`); the squarings before and after the
  product shift the exponent and add the window (`FilledWindow`, `WindowStep`), so
  the bits read so far are always the exponent so far (`Pow2WindowExact`).
* Tests and cache. Out of Montgomery form the result is below `n`, so comparing limbs
  compares numbers (`FermatPrecompExact`, `EulerPrecompExact`; `U64Tests` for one limb).
  `CacheForExact` holds that a valid cache has the limbs of the candidate it was last filled or
  advanced for; a carry out of the top limb, or a candidate that is too wide,
  invalidates it. Candidates are odd and above one (`CandidatesOdd`), as the tests need,
  by `SieveInv`.

For `EveryGapOnce`, `WalkInv` goes with the windows. `InOrder`: those of a batch follow
each other and lie before the one at hand, and the gaps found begin before the windows
that are left; a window adds only gaps it owns, each true and so with one end, and each
resolved from one visible gap or the prefix (`ReportedOnce`). So none is queued twice.
`Kept`: in a range without a pseudoprime (`Clean`), a gap that begins before the window
at hand is queued or begins in a window of the batch that is left. It is needed for this
that a window `Reaches` its gaps: a prime it tests lies beyond the start of each gap
that one within the lookahead closes. `AtHand` says so of the window at hand, once
the probe has found a prime in the halo, or the halo is the lookahead, or ends with the
range (`Reaching`, `ClosedIsReached`); `InBatch` says so of those that wait. A window
skipped as empty has no such gap (`SkippedHasNone`). `ReportedAll` is the containment
lemma of `main.c:698`: the visible gap that contains a gap begins no later and is
no shorter, so it qualifies when the contained one does, and its chain has both ends
of it; a gap before the first visible prime is in the prefix. At the end the batch is
empty and the windows cover the range (`WalkInvOnce`).

Every inductive invariant was checked by TLC, as an invariant of the run's instance,
before it was proved.

Every safety property that a passing run checks is also proved. What `LimbEuler` leaves to the
mathematics is Euler's criterion, that a prime passes Euler's test: an assumption of
`WindowSearch`, which TLC evaluates on the primes of its runs. No liveness property is
proved, of any module: fairness and `ENABLED` are beyond the reach of the provers.

The proof of `LimbTestExact` found two things in the model. `FermatTest` and `EulerTest`
chose the test by a `CASE` of which two guards held for one limb, where the code returns
first (`primality_limbs.c:1177`); they are nested conditions now. And the width of a window has to be one
of those that the code accepts (`primality_limbs.c:771`), which `InputAssumption` now says.

## 5. Findings

1. `farm_stall`, `worker_gpu.c:1352`. The claim race. Windows of a new header
   that are claimed with the snapshot of the old one are never searched under
   it, and the completion count of the header never reaches its range:
   `miner_farm_work_exhausted` stays false and the workers sleep until the
   next block. `miner_farm.h:118` promises otherwise. `StallOnlyByStolenClaim`
   shows that nothing else can cause it. A claim that is made, or checked,
   under the lock that guards the generation would close it.
2. `node_stale`, `main.c:1239`. The loop rotates before it flushes, so a gap
   found in the last windows of a header is dropped as stale, although the
   header was current when the gap was queued (`README.md:962`).
3. `hunt_quarter`, `gap_hunt.c:1342`. `GAP_HUNT_QUARTER=1` together with the
   chain scan, which is on by default, reports pairs of visible primes without a
   look at the hidden classes between them; `README.md:1019` calls the quarter
   scan exact.
4. `crt_hang`, `gpu/gpu_fermat.cu:2096`. A collect that fails leaves its slot
   pending, and the fallback that `worker_gpu.c:1694` promises waits for this
   slot for ever, beyond the reach of the stop flag.

Seen on the way, without a run of its own: on a pool that answers with a cached
template, every refresh and every reconnect takes the client back to the
abandoned template until the next push, empties the duplicate ring
(`stratum.c:599`) and lets the template's shares be sent again, where
`README.md:1218` says that polling costs nothing and `README.md:1286` that
duplicates are dropped locally (`stratum.h:126` limits this to the last new
work); a reconnect between the two steps of
a submission reports the share unresolved, and a failing send then records it
again (`stratum.c:1225`; `OneVerdict` allows for it); a send that fails before
the receive thread has noticed is recorded as a duplicate (`main.c:1319`); the
last flight of the hunt below the width limit of the kernels is scanned and
never reported when the next one is prefetched (`gap_hunt.c:2342`;
`EveryWindowSearched` exempts it); a composite that passes the Euler test
hides the gap it lies in, although `worker_gpu.c:443` says that no gap can be
missed (`EveryGapOnce` exempts ranges with one); a failing collect of a non-CRT
worker costs it the slot for good, and later batches go to the CPU
(`gpu_fermat.cu:2045`); `work_height` keeps the height of the first
template, and a rotation publishes it with later ones (`main.c:1224`);
`mont_mul` loses the carry of its last sum for moduli above 2^63, so that
`primality_miller_rabin_u64` rejects the prime 2^64 - 59 (`primality_limbs.c:87`;
only tests call it, with small numbers); the squaring for builds without x86
passes a carry on for two limbs at most (`primality_limbs.c:592` and `601`), which
limbs of 64 bits make improbable and narrow ones show.

## 6. What is left

1. The gap queue as a ring with head and tail, and the claim as a
   compare-and-swap loop, each implementing the atomic step `MinerFarm` takes.
2. A composition of `StratumClient` with `MinerFarm` (pool mode as a whole).

## 7. Not modelled

* What GMP's primality tests and the kernels compute: which number is a prime or
  a pseudoprime for them is a constant of `WindowSearch`, and a free choice
  elsewhere. Of `primality_limbs.c`, the squaring of builds without x86 and the
  64-bit Miller-Rabin test, which the miner does not call. CUDA code is out of reach of TLC; the host side is modelled where it
  decides which data a kernel reads and whose its results are.
* The 48-bit fixed-point logarithms of `pow_q48.c`: TLC's integers hold 32 bits.
* Allocation failures, among them the one at `worker_gpu.c:1546`, after which a
  window counts as searched; a device buffer that is replaced by a smaller one
  while a prefetch fills it (`gpu_sieve.cu:3274-3355`); the nonce that wraps
  around (`worker_gpu.c:4312`); the difficulty in a global that every snapshot
  replaces (`worker_gpu.c:367`); a state file that does not name the CRT file
  it belongs to (`gap_hunt.c:2025`); a failed write to the hunt's output file,
  which is ignored (`gap_hunt.c:1316-1320`); results of a flight overwritten
  below the commit (`gap_hunt.c:845`: `NoWindowSkipped` sees a commit that
  fails); a template whose parent hash is not hex, after which
  `gapcoin_gbt_work_init` has zeroed the header prefix
  (`gapcoin_work.c:247-251`; the unusable templates of the model have no parent
  or no difficulty, and return before that).
* Bytes: headers, blocks, JSON, log lines. Where a field decides something it
  is in the model (nonce, template, height, generation, id).
* Statistics, the command line, the offline cover
  searches (`covering.c`, `crt_gen_main.c`), `tools/`, `scripts/`,
  `GpuVerify/`, and modules marked unused (`gap_priority.c`,
  `gap_candidate.c`, `submit_engine.c`).
