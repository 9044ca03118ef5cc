------------------------------- MODULE GapHunt ------------------------------
(***************************************************************************)
(* The walk of the prime-gap hunt (gap_hunt_run in src/new_src/gap_hunt.c) *)
(* over the windows 0, 1, 2, ...: two flights of K windows take turns, the *)
(* position is saved periodically and when the walk ends, and the process  *)
(* may be stopped by a signal, killed, or end on a failure at any point    *)
(* and is started again from the state file.                               *)
(*                                                                         *)
(*   "plain"  the candidates of a filled flight are tested on the device   *)
(*            while the other flight is processed and filled again;        *)
(*   "jump"   a filled flight is scanned and processed at once;            *)
(*   "jump2"  likewise, and the next flight is filled between the rounds   *)
(*            of the scan (g_pref), unless GAP_HUNT_PREFETCH is 0.         *)
(*                                                                         *)
(* What a scan finds inside a window is WindowScan's subject: here a       *)
(* window is searched when the candidates tested for it were built from    *)
(* its own base and survived its own sieve.  out holds the windows whose   *)
(* results reached the output file, which is flushed gap by gap.           *)
(***************************************************************************)
EXTENDS HuntFill

CONSTANTS
  Tick,        \* windows between two periodic saves (1024)
  IndexLimit,  \* largest window index (UINT64_MAX)
  Configs,     \* settings a walk may be started with
  MaxFaults, MaxKills, MaxStops   \* bounds on what the environment does

ASSUME WalkAssumption ==
  /\ Tick \in Nat \ {0} /\ IndexLimit \in Nat /\ K <= IndexLimit
  /\ MaxFaults \in Nat /\ MaxKills \in Nat /\ MaxStops \in Nat
  /\ Configs \subseteq [mode : {"plain", "jump", "jump2"}, incr : 0 .. 2,
                        defer : BOOLEAN, ahead : BOOLEAN, kmax : Nat, fit : Nat,
                        hollow : SUBSET Nat]

VARIABLES
  saved,        \* k in the state file
  out,          \* windows searched and reported
  pc,           \* where the walk is; "down" when no process runs
  next_k, turn, g_stop, exit_status, failure_k,
  since,        \* windows - last_save
  flights,      \* A and B: [pack, n, total, active, running, mr]
  eng,          \* the sieve
  i,            \* window of the flight being filled or processed
  cur,          \* flight being processed
  ret,          \* where to go on after processing
  pref,         \* g_pref: [b, k0, next_i, done, failed]
  save_k,       \* position to save at the end
  faults, kills, stops  \* what is left of the environment's bounds

disk == <<saved, out>>
loop == <<next_k, turn, g_stop, exit_status, failure_k, since, save_k>>
env  == <<kills, stops>>
vars == <<config, disk, loop, pc, flights, eng, i, cur, ret, pref, faults, env>>

Mode  == config.mode
Other(s) == 1 - s
Flight == [pack : Pack, n : BOOLEAN, total : Nat, active : BOOLEAN,
           running : BOOLEAN, mr : [Cells -> Cell]]
NewFlight == [pack |-> NewPack, n |-> FALSE, total |-> 0, active |-> FALSE,
              running |-> FALSE, mr |-> NewPack.cands]
NoPref == [b |-> None, k0 |-> 0, next_i |-> 0, done |-> FALSE, failed |-> FALSE]

Base(s)        == flights[s].pack.base[0]
KMaxReached    == config.kmax # 0 /\ next_k >= config.kmax
IndexOverflows == next_k > IndexLimit - K

(* A process that has just started: everything but the files is new.       *)
Fresh(where, k) ==
  /\ pc' = where
  /\ next_k' = k /\ turn' = 0 /\ g_stop' = FALSE
  /\ exit_status' = 0 /\ failure_k' = k /\ since' = 0 /\ save_k' = 0
  /\ flights' = [s \in {0, 1} |-> NewFlight] /\ eng' = NewEngine
  /\ i' = 0 /\ cur' = 0 /\ ret' = "tick" /\ pref' = NoPref

Init ==
  /\ config \in Configs
  /\ saved = 0 /\ out = {} /\ pc = "down"
  /\ next_k = 0 /\ turn = 0 /\ g_stop = FALSE
  /\ exit_status = 0 /\ failure_k = 0 /\ since = 0 /\ save_k = 0
  /\ flights = [s \in {0, 1} |-> NewFlight] /\ eng = NewEngine
  /\ i = 0 /\ cur = 0 /\ ret = "tick" /\ pref = NoPref
  /\ faults = MaxFaults /\ kills = MaxKills /\ stops = MaxStops

Start ==
  /\ pc = "down" /\ Fresh("loop", saved)
  /\ UNCHANGED <<config, disk, faults, env>>

(* Leave the loop on a failure, with the position to replay from.          *)
Fail(k) ==
  /\ pc' = "exit" /\ exit_status' = 1 /\ failure_k' = k
  /\ UNCHANGED <<next_k, turn, g_stop, since, save_k>>

Spend(n) == n <= faults /\ faults' = faults - n

(***************************************************************************)
(* The top of the loop: collect the flight whose turn it is.               *)
(***************************************************************************)
LeaveLoop ==
  /\ pc = "loop" /\ g_stop
  /\ pc' = "exit"
  /\ UNCHANGED <<config, disk, loop, flights, eng, i, cur, ret, pref, faults, env>>

(* The device tested the flight's candidates.                              *)
KernelEnds(s) ==
  /\ flights[s].active /\ flights[s].running
  /\ flights' = [flights EXCEPT ![s].running = FALSE, ![s].mr = flights[s].pack.cands]
  /\ UNCHANGED <<config, disk, loop, pc, eng, i, cur, ret, pref, faults, env>>

Process(s, then) == pc' = "process" /\ cur' = s /\ i' = 0 /\ ret' = then

Collect ==
  /\ pc = "loop" /\ ~g_stop /\ flights[turn].active
  /\ \/ ~flights[turn].running /\ Process(turn, "refill")
        /\ UNCHANGED <<loop, faults>>
     \/ Spend(1) /\ Fail(Base(turn)) /\ UNCHANGED <<i, cur, ret>>
  /\ UNCHANGED <<config, disk, flights, eng, pref, env>>

NothingToCollect ==
  /\ pc = "loop" /\ ~g_stop /\ ~flights[turn].active
  /\ pc' = "refill"
  /\ UNCHANGED <<config, disk, loop, flights, eng, i, cur, ret, pref, faults, env>>

(***************************************************************************)
(* gh_batch_process, window by window: a kill may fall between two.        *)
(***************************************************************************)
(* What the device tested for a window is the window's own candidates.     *)
Searched(s, w) ==
  flights[s].total = 0 \/
  flights[s].mr[flights[s].pack.cum[w]] =
    [base |-> flights[s].pack.base[w], marks |-> flights[s].pack.base[w]]

ProcessWindow ==
  /\ pc = "process" /\ i < K
  /\ out' = IF Searched(cur, i) THEN out \cup {flights[cur].pack.base[i]} ELSE out
  /\ since' = since + 1 /\ i' = i + 1
  /\ UNCHANGED <<config, saved, pc, next_k, turn, g_stop, exit_status, failure_k, save_k,
                 flights, eng, cur, ret, pref, faults, env>>

\* Mutant: the flight still counts as filled after it was processed.
FlightStaysFilled == [flights EXCEPT ![cur].active = FALSE]

FlightDone == [flights EXCEPT ![cur].active = FALSE, ![cur].n = FALSE,
                              ![cur].total = 0]

ProcessEnds ==
  /\ pc = "process" /\ i = K
  /\ flights' = FlightDone
  /\ pc' = ret /\ i' = 0 /\ cur' = 0 /\ ret' = "tick"
  /\ UNCHANGED <<config, disk, loop, eng, pref, faults, env>>

(***************************************************************************)
(* Refill.                                                                 *)
(***************************************************************************)
Prefetched == Mode = "jump2" /\ pref.b = turn

BeginFill ==
  /\ pc = "refill" /\ ~Prefetched /\ ~g_stop /\ ~KMaxReached /\ ~IndexOverflows
  /\ pc' = "fill" /\ i' = 0
  /\ flights' = [flights EXCEPT ![turn].pack.used = 0]
  /\ UNCHANGED <<config, disk, loop, eng, cur, ret, pref, faults, env>>

IndexOverflow ==
  /\ pc = "refill" /\ ~Prefetched /\ ~g_stop /\ ~KMaxReached /\ IndexOverflows
  /\ Fail(next_k)
  /\ UNCHANGED <<config, disk, flights, eng, i, cur, ret, pref, faults, env>>

(* Nothing more to fill; once nothing is left to process, stop.            *)
AllDrained ==
  IF Mode = "jump2" THEN pref.b = None /\ ~flights[0].n /\ ~flights[1].n
                    ELSE ~flights[0].active /\ ~flights[1].active

NothingToFill ==
  /\ pc = "refill" /\ ~Prefetched /\ (g_stop \/ KMaxReached)
  /\ g_stop' = (g_stop \/ AllDrained)
  /\ pc' = "tick"
  /\ UNCHANGED <<config, disk, next_k, turn, exit_status, failure_k, since, save_k,
                 flights, eng, i, cur, ret, pref, faults, env>>

(* gh_fill_only, one step (one window or a pair) at a time.                *)
FillFlight ==
  /\ pc = "fill" /\ i < K
  /\ \E o \in FillStep(eng, flights[turn].pack, i, next_k + i) :
       /\ Spend(o.faults)
       /\ eng' = o.e /\ flights' = [flights EXCEPT ![turn].pack = o.b]
       /\ IF o.ok THEN i' = i + Quantum(eng, i, next_k + i) /\ UNCHANGED <<loop, pc>>
                  ELSE Fail(next_k) /\ UNCHANGED i
  /\ UNCHANGED <<config, disk, cur, ret, pref, env>>

(* gh_fill_commit; config.hollow are the flights without any candidate.    *)
Committed(s) ==
  [flights EXCEPT ![s].n = TRUE,
                  ![s].total = IF Base(s) \in config.hollow THEN 0
                               ELSE flights[s].pack.used]

CommitFill ==
  /\ pc = "fill" /\ i = K
  /\ \/ /\ flights' = Committed(turn)
        /\ pc' = "filled" /\ UNCHANGED <<loop, faults>>
     \/ Spend(1) /\ Fail(next_k) /\ UNCHANGED flights
  /\ i' = 0
  /\ UNCHANGED <<config, disk, eng, cur, ret, pref, env>>

\* Mutant: the next flight starts one window too far.
AdvancePast == next_k' = next_k + K + 1

Advance == next_k' = next_k + K

(* Plain: submit the candidates, an empty flight is processed at once.     *)
Submit ==
  /\ pc = "filled" /\ Mode = "plain"
  /\ \/ /\ flights[turn].total > 0
        /\ flights' = [flights EXCEPT ![turn].active = TRUE, ![turn].running = TRUE]
        /\ pc' = "tick" /\ Advance
        /\ UNCHANGED <<turn, g_stop, exit_status, failure_k, since, save_k, i, cur, ret, faults>>
     \/ /\ flights[turn].total = 0
        /\ Process(turn, "tick") /\ Advance
        /\ UNCHANGED <<turn, g_stop, exit_status, failure_k, since, save_k, flights, faults>>
     \/ /\ flights[turn].total > 0
        /\ Spend(1) /\ Fail(next_k) /\ UNCHANGED <<flights, i, cur, ret>>
  /\ UNCHANGED <<config, disk, eng, pref, env>>

(* What a synchronous scan tests.                                          *)
Tested(s) == [flights EXCEPT ![s].mr = flights[s].pack.cands]

Jump ==
  /\ pc = "filled" /\ Mode = "jump"
  /\ \/ /\ flights' = Tested(turn) /\ Process(turn, "tick") /\ Advance
        /\ UNCHANGED <<turn, g_stop, exit_status, failure_k, since, save_k, faults>>
     \/ /\ flights[turn].total > 0
        /\ Spend(1) /\ Fail(next_k) /\ UNCHANGED <<flights, i, cur, ret>>
  /\ UNCHANGED <<config, disk, eng, pref, env>>

(***************************************************************************)
(* jump2: the flight filled now, or prefetched while the other one was     *)
(* scanned, is scanned while the next one is filled.                       *)
(***************************************************************************)
Jump2Filled ==
  /\ pc = "filled" /\ Mode = "jump2"
  /\ Advance /\ pc' = "reserve"
  /\ UNCHANGED <<config, disk, turn, g_stop, exit_status, failure_k, since, save_k,
                 flights, eng, i, cur, ret, pref, faults, env>>

TakePrefetched ==
  /\ pc = "refill" /\ Prefetched /\ pref.done /\ ~pref.failed
  /\ pref' = NoPref /\ pc' = "reserve"
  /\ UNCHANGED <<config, disk, loop, flights, eng, i, cur, ret, faults, env>>

PrefetchedFailed ==
  /\ pc = "refill" /\ Prefetched /\ pref.failed
  /\ Fail(pref.k0)
  /\ UNCHANGED <<config, disk, flights, eng, i, cur, ret, pref, faults, env>>

Reserve ==
  /\ pc = "reserve"
  /\ IF g_stop \/ KMaxReached \/ IndexOverflows \/ ~config.ahead
     THEN UNCHANGED <<pref, next_k, flights>>
     ELSE /\ pref' = [b |-> Other(turn), k0 |-> next_k, next_i |-> 0,
                      done |-> FALSE, failed |-> FALSE]
          /\ flights' = [flights EXCEPT ![Other(turn)].pack.used = 0]
          /\ Advance
  /\ pc' = "scan"
  /\ UNCHANGED <<config, disk, turn, g_stop, exit_status, failure_k, since, save_k,
                 eng, i, cur, ret, faults, env>>

(* gh_prefetch_step: between two rounds of the scan, or to its end when    *)
(* the scan ended first.                                                   *)
Prefetch ==
  /\ pc = "finish" \/ (pc = "scan" /\ flights[turn].total > 0)
  /\ pref.b # None /\ ~pref.done /\ ~pref.failed
  /\ \/ /\ pref.next_i < K
        /\ \E o \in FillStep(eng, flights[pref.b].pack, pref.next_i, pref.k0 + pref.next_i) :
             /\ Spend(o.faults)
             /\ eng' = o.e /\ flights' = [flights EXCEPT ![pref.b].pack = o.b]
             /\ pref' = IF o.ok
                        THEN [pref EXCEPT !.next_i = @ + Quantum(eng, @, pref.k0 + @)]
                        ELSE [pref EXCEPT !.failed = TRUE]
     \/ /\ pref.next_i = K
        /\ flights' = Committed(pref.b)
        /\ \/ pref' = [pref EXCEPT !.done = TRUE] /\ UNCHANGED faults
           \/ pref' = [pref EXCEPT !.done = TRUE, !.failed = TRUE] /\ Spend(1)
        /\ UNCHANGED eng
  /\ UNCHANGED <<config, disk, loop, pc, i, cur, ret, env>>

(* gh_jump2_scan ends, not between the last step of the prefetch and its   *)
(* commit.  A prefetch under way is finished before the flight is          *)
(* processed; when that fails the scanned flight is replayed.              *)
CommitDue == pref.b # None /\ pref.next_i = K /\ ~pref.done

ScanEnds ==
  /\ pc = "scan" /\ ~CommitDue
  /\ \/ /\ flights' = Tested(turn) /\ UNCHANGED <<loop, faults>>
        /\ IF pref.b = None \/ pref.done
           THEN Process(turn, "tick")
           ELSE pc' = "finish" /\ UNCHANGED <<i, cur, ret>>
     \/ /\ flights[turn].total > 0
        /\ Spend(1) /\ Fail(Base(turn)) /\ UNCHANGED <<flights, i, cur, ret>>
  /\ UNCHANGED <<config, disk, eng, pref, env>>

PrefetchEnded ==
  /\ pc = "finish"
  /\ \/ pref.done /\ ~pref.failed /\ Process(turn, "tick") /\ UNCHANGED loop
     \/ pref.failed /\ Fail(Base(turn)) /\ UNCHANGED <<i, cur, ret>>
  /\ UNCHANGED <<config, disk, flights, eng, pref, faults, env>>

(***************************************************************************)
(* The periodic save: the oldest window that is not in the output yet.     *)
(***************************************************************************)
LeastOf(S) == CHOOSE x \in S : \A y \in S : x <= y

\* Mutant: flights in the air are ignored.
KSafeIgnoresFlights == next_k

KSafe ==
  LeastOf({next_k} \cup { Base(s) : s \in { t \in {0, 1} : flights[t].active } }
          \cup { k \in {pref.k0} : pref.b # None /\ (pref.next_i > 0 \/ pref.done) })

\* Mutant: the windows since the last save are forgotten when nothing is saved.
TickSkipForgets ==
  /\ pc = "tick" /\ since < Tick
  /\ pc' = "loop" /\ turn' = Other(turn) /\ since' = 0
  /\ UNCHANGED <<config, disk, next_k, g_stop, exit_status, failure_k, save_k,
                 flights, eng, i, cur, ret, pref, faults, env>>

TickSkip ==
  /\ pc = "tick" /\ since < Tick
  /\ pc' = "loop" /\ turn' = Other(turn)
  /\ UNCHANGED <<config, disk, next_k, g_stop, exit_status, failure_k, since, save_k,
                 flights, eng, i, cur, ret, pref, faults, env>>

TickSave ==
  /\ pc = "tick" /\ since >= Tick
  /\ \/ /\ saved' = KSafe /\ since' = 0 /\ turn' = Other(turn) /\ pc' = "loop"
        /\ UNCHANGED <<next_k, g_stop, exit_status, failure_k, save_k, faults>>
     \/ Spend(1) /\ Fail(KSafe) /\ UNCHANGED saved
  /\ UNCHANGED <<config, out, flights, eng, i, cur, ret, pref, env>>

(***************************************************************************)
(* The end: flights in the air are drained and the position is saved.      *)
(***************************************************************************)
\* Mutant: a failure saves the position of the next fill.
ExitPositionNext == IF pref.b # None /\ pref.k0 < next_k THEN pref.k0 ELSE next_k

ExitPosition ==
  LET k == IF exit_status = 1 THEN failure_k ELSE next_k
  IN  IF pref.b # None /\ pref.k0 < k THEN pref.k0 ELSE k

Exit ==
  /\ pc = "exit"
  /\ save_k' = ExitPosition /\ pc' = "drain0"
  /\ UNCHANGED <<config, disk, next_k, turn, g_stop, exit_status, failure_k, since,
                 flights, eng, i, cur, ret, pref, faults, env>>

DrainNext(s) == IF s = 0 THEN "drain1" ELSE "final"

Drain(s) ==
  /\ pc = IF s = 0 THEN "drain0" ELSE "drain1"
  /\ \/ /\ ~flights[s].active
        /\ pc' = DrainNext(s) /\ UNCHANGED <<loop, flights, i, cur, ret, faults>>
     \/ /\ flights[s].active /\ ~flights[s].running
        /\ Process(s, DrainNext(s)) /\ UNCHANGED <<loop, flights, faults>>
     \/ /\ flights[s].active /\ Spend(1)
        /\ save_k' = IF Base(s) < save_k THEN Base(s) ELSE save_k
        /\ flights' = [flights EXCEPT ![s].active = FALSE]
        /\ exit_status' = 1 /\ pc' = DrainNext(s)
        /\ UNCHANGED <<next_k, turn, g_stop, failure_k, since, i, cur, ret>>
  /\ UNCHANGED <<config, disk, eng, pref, env>>

(* The process ends; its memory is gone.                                   *)
FinalSave ==
  /\ pc = "final"
  /\ \/ saved' = save_k /\ UNCHANGED faults
     \/ UNCHANGED saved /\ Spend(1)
  /\ Fresh("down", 0)
  /\ UNCHANGED <<config, out, env>>

(***************************************************************************)
(* The environment.                                                        *)
(***************************************************************************)
Signal ==
  /\ pc # "down" /\ ~g_stop /\ stops > 0
  /\ stops' = stops - 1 /\ g_stop' = TRUE
  /\ UNCHANGED <<config, disk, next_k, turn, exit_status, failure_k, since, save_k, pc,
                 flights, eng, i, cur, ret, pref, faults, kills>>

Kill ==
  /\ pc # "down" /\ kills > 0
  /\ kills' = kills - 1
  /\ Fresh("down", 0)
  /\ UNCHANGED <<config, disk, faults, stops>>

Walk ==
  \/ LeaveLoop \/ Collect \/ NothingToCollect
  \/ ProcessWindow \/ ProcessEnds
  \/ BeginFill \/ IndexOverflow \/ NothingToFill \/ FillFlight \/ CommitFill
  \/ Submit \/ Jump
  \/ Jump2Filled \/ TakePrefetched \/ PrefetchedFailed \/ Reserve
  \/ Prefetch \/ ScanEnds \/ PrefetchEnded
  \/ TickSkip \/ TickSave
  \/ Exit \/ Drain(0) \/ Drain(1) \/ FinalSave

Kernels == \E s \in {0, 1} : KernelEnds(s)

Next == Start \/ Walk \/ Kernels \/ Signal \/ Kill

(* The walk keeps going, the device finishes what it was given, and        *)
(* somebody starts a walk that has ended again.                            *)
Spec == Init /\ [][Next]_vars /\ WF_vars(Walk) /\ WF_vars(Kernels) /\ WF_vars(Start)
-----------------------------------------------------------------------------
(***************************************************************************)
(* Properties.                                                             *)
(***************************************************************************)
TypeOK ==
  /\ config \in Configs
  /\ saved \in Nat /\ out \subseteq Nat
  /\ pc \in {"down", "loop", "process", "refill", "fill", "filled", "reserve", "scan",
             "finish", "tick", "exit", "drain0", "drain1", "final"}
  /\ ret \in {"refill", "tick", "drain1", "final"}
  /\ next_k \in Nat /\ turn \in {0, 1} /\ g_stop \in BOOLEAN
  /\ exit_status \in {0, 1} /\ failure_k \in Nat /\ since \in Nat /\ save_k \in Nat
  /\ flights \in [{0, 1} -> Flight] /\ eng \in Engine
  /\ i \in 0 .. K /\ cur \in {0, 1}
  /\ pref \in [b : {None, 0, 1}, k0 : Nat, next_i : 0 .. K,
               done : BOOLEAN, failed : BOOLEAN]
  /\ faults \in Nat /\ kills \in Nat /\ stops \in Nat

(* Wherever the walk is stopped, killed or fails, no window below the      *)
(* position in the state file is lost: each was searched, with the         *)
(* survivors of its own sieve, and its gaps are in the output file.        *)
NoWindowSkipped == \A k \in 0 .. saved - 1 : k \in out

(* However the walk ends, what is searched again is bounded: the output    *)
(* never runs ahead of the saved position by more than the windows of one  *)
(* period of saves, the two flights an iteration may process and two more, *)
(* which may overtake a flight in the air when they have no candidates:    *)
(* one before the last save and one before the next.                       *)
RedoBounded == \A k \in out : k < saved + Tick - 1 + 4 * K

(* The candidates tested for a window are its own: built from its base and *)
(* left by the marking of its residues, whether it was marked alone, with  *)
(* its neighbour, from the cache or after a fallback.                      *)
OwnSurvivors ==
  \A s \in {0, 1} : flights[s].n /\ flights[s].total > 0 =>
    \A w \in Slots : LET b == flights[s].pack IN
      b.cands[b.cum[w]] = [base |-> b.base[w], marks |-> b.base[w]]

(* The walk is an implementation of RangeWalk. *)
Abstract == INSTANCE RangeWalk
ImplementsRangeWalk == Abstract!Spec

(* The windows a walk can reach: whole flights before the limits, whose    *)
(* candidates fit the kernels.  A flight that is scanned while the next    *)
(* one is filled is thrown away when that fill fails: the next flight must *)
(* fit as well, or not be begun.                                           *)
FlightOf(k)  == k - (k % K)
WithinLimits(f) == (config.kmax = 0 \/ f < config.kmax) /\ f <= IndexLimit - K
FlightFits(f)   == f + K - 1 < config.fit
FilledAhead(f)  == Mode = "jump2" /\ config.ahead /\ WithinLimits(f + K)
Reachable(k) ==
  /\ WithinLimits(FlightOf(k)) /\ FlightFits(FlightOf(k))
  /\ FilledAhead(FlightOf(k)) => FlightFits(FlightOf(k) + K)

(* As long as an ended walk is started again, every window it can reach is *)
(* searched in the end, whatever failures, kills and stops came between.   *)
EveryWindowSearched == <>(\A k \in 0 .. IndexLimit : Reachable(k) => k \in out)

(* Every run ends: it reaches its last window and drains both flights.     *)
EveryRunEnds == (pc # "down") ~> (pc = "down")
=============================================================================
