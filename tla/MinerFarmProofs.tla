--------------------------- MODULE MinerFarmProofs ---------------------------
(***************************************************************************)
(* Proofs about MinerFarm, for any number of workers, windows, headers and *)
(* batch slots.                                                            *)
(***************************************************************************)
EXTENDS MinerFarm, FiniteSetTheorems, TLAPS

-----------------------------------------------------------------------------
(* Type correctness                                                         *)

\* The operators that build flights and jobs stay in their domains.
LEMMA FlightType ==
  /\ \A g \in Nat, h \in Headers, W \in SUBSET Windows : Flight(g, h, W) \in Flights
  /\ \A f \in Flights : /\ Job(f) \in Jobs /\ Emptied(f) \in Flights
                        /\ f.gen \in Nat /\ f.hdr \in Headers /\ f.wins \in SUBSET Windows
  /\ \A f, g \in Flights : [g EXCEPT !.wins = @ \cup f.wins] \in Flights
<1>1. \A g \in Nat, h \in Headers, W \in SUBSET Windows : Flight(g, h, W) \in Flights
  BY DEF Flight, Flights
<1>2. \A f \in Flights : /\ Job(f) \in Jobs /\ Emptied(f) \in Flights
                         /\ f.gen \in Nat /\ f.hdr \in Headers /\ f.wins \in SUBSET Windows
  BY DEF Job, Jobs, Emptied, Flights
<1>3. \A f, g \in Flights : [g EXCEPT !.wins = @ \cup f.wins] \in Flights
  BY DEF Flights
<1> QED
  BY <1>1, <1>2, <1>3

\* The places a worker can be at.
LEMMA PlaceNames ==
  /\ "loop" \in Places /\ "turn" \in Places /\ "window" \in Places /\ "admit" \in Places
  /\ "sieve" \in Places /\ "reshape" \in Places /\ "drain" \in Places /\ "wait" \in Places
  /\ "exit" \in Places /\ "done" \in Places
BY DEF Places

\* Who a window can belong to.
LEMMA OwnerNames ==
  /\ "free" \in Owners /\ "stolen" \in Owners /\ "done" \in Owners
  /\ \A w \in Workers : w \in Owners
BY DEF Owners

\* worker_dispatch_candidates keeps both stores it touches in their domain.
LEMMA DispatchType ==
  ASSUME TypeOK, NEW w \in Workers, NEW f \in Flights, Dispatch(w, f)
  PROVE  pend' \in [Workers -> Flights] /\ job' \in [Workers -> Jobs]
<1>1. pend[w] \in Flights /\ pend \in [Workers -> Flights] /\ job \in [Workers -> Jobs]
  BY DEF TypeOK
<1>2. CASE Process(w, f) /\ UNCHANGED pend
  BY <1>1, <1>2, FlightType DEF Process
<1>3. CASE \E g \in Flights :
             \/ pend' = [pend EXCEPT ![w] = g] /\ UNCHANGED job
             \/ Process(w, g) /\ pend' = [pend EXCEPT ![w] = Emptied(g)]
  BY <1>1, <1>3, FlightType DEF Process
<1>4. CASE Process(w, pend[w]) /\ pend' = [pend EXCEPT ![w] = f]
  BY <1>1, <1>4, FlightType DEF Process
<1>5. \/ Process(w, f) /\ UNCHANGED pend
      \/ LET joined == IF pend[w].wins = {} THEN f
                       ELSE [pend[w] EXCEPT !.wins = @ \cup f.wins]
         IN \/ pend' = [pend EXCEPT ![w] = joined] /\ UNCHANGED job
            \/ Process(w, joined) /\ pend' = [pend EXCEPT ![w] = Emptied(joined)]
      \/ Process(w, pend[w]) /\ pend' = [pend EXCEPT ![w] = f]
  BY DEF Dispatch
<1>6. (IF pend[w].wins = {} THEN f ELSE [pend[w] EXCEPT !.wins = @ \cup f.wins]) \in Flights
  BY <1>1, FlightType
<1> QED
  BY <1>2, <1>3, <1>4, <1>5, <1>6

\* worker_mark_window_complete keeps the counter and the history in theirs.
LEMMA MarkType ==
  ASSUME TypeOK, NEW f, NEW x \in Windows, MarkComplete(f, x)
  PROVE  completed' \in Nat /\ owner' \in [Windows -> Owners]
<1>1. completed \in Nat /\ owner \in [Windows -> Owners] /\ [owner EXCEPT ![x] = "done"] \in [Windows -> Owners]
  BY OwnerNames DEF TypeOK
<1>2. \/ completed' = completed + 1 /\ owner' = [owner EXCEPT ![x] = "done"]
      \/ completed' = completed /\ owner' = owner
  BY DEF MarkComplete
<1> QED
  BY <1>1, <1>2

\* A search adds a window, or none, to those scanned.
LEMMA SearchedType ==
  ASSUME TypeOK, NEW f, NEW x \in Windows, Searched(f, x)
  PROVE  scanned' \in SUBSET Windows
<1>1. scanned' = scanned \/ scanned' = scanned \cup {x}
  BY DEF Searched
<1>2. scanned \subseteq Windows /\ scanned \cup {x} \subseteq Windows
  BY DEF TypeOK
<1> QED
  BY <1>1, <1>2

\* A sieved window (it goes to the batch, the worker, or is marked) keeps every
\* store it touches in its domain.
LEMMA SievedType ==
  ASSUME TypeOK, NEW w \in Workers, NEW f \in Flights, NEW x \in Windows, Sieved(w, f, x)
  PROVE  /\ pend' \in [Workers -> Flights] /\ job' \in [Workers -> Jobs]
         /\ completed' \in Nat /\ owner' \in [Windows -> Owners]
         /\ scanned' \in SUBSET Windows
<1>1. CASE Dispatch(w, f) /\ UNCHANGED <<completed, owner, scanned>>
  BY <1>1, DispatchType DEF TypeOK
<1>2. CASE MarkComplete(f, x) /\ Searched(f, x) /\ UNCHANGED <<pend, job>>
  BY <1>2, MarkType, SearchedType DEF TypeOK
<1> QED
  BY <1>1, <1>2 DEF Sieved

\* miner_farm_update_work keeps what it resets in its domain.
LEMMA UpdateType ==
  ASSUME TypeOK, NEW h \in Headers, UpdateWork(h)
  PROVE  /\ work' \in Headers /\ gen' \in Nat /\ nonce' \in 0 .. NumWindows
         /\ completed' \in Nat /\ owner' \in [Windows -> Owners]
         /\ scanned' \in SUBSET Windows
BY FarmAssumption, OwnerNames DEF UpdateWork, TypeOK

\* The next window of an unfinished chunk is a window of the range.
LEMMA NextWindowType ==
  ASSUME TypeOK, NEW w \in Workers, chunk[w].next < chunk[w].end
  PROVE  /\ chunk[w].next \in Windows
         /\ NextWindow(w) \in Flights
         /\ NextWindow(w).wins = {chunk[w].next}
<1>1. chunk[w] \in Chunks /\ snap[w] \in Snaps
  BY DEF TypeOK
<1>2. chunk[w].next \in Windows
  BY <1>1, FarmAssumption DEF Chunks, Windows
<1>3. snap[w].gen \in Nat /\ snap[w].hdr \in Headers
  BY <1>1 DEF Snaps
<1> QED
  BY <1>2, <1>3 DEF NextWindow, Flight, Flights

\* The type invariant is inductive by itself.
LEMMA TypeInit == FarmInit => TypeOK
<1> SUFFICES ASSUME FarmInit PROVE TypeOK
  OBVIOUS
<1>1. Flight(NoGen, work, {}) \in Flights /\ Job(Flight(NoGen, work, {})) \in Jobs
  BY FlightType DEF FarmInit, NoGen
<1>2. queue \in Seq(Entries) /\ Len(queue) <= QueueCap
  BY FarmAssumption DEF FarmInit
<1>3. 0 \in 0 .. NumWindows /\ 0 \in Nat /\ 1 \in Nat
  BY FarmAssumption
<1>4. [gen |-> NoGen, hdr |-> work] \in Snaps /\ [gen |-> NoGen, next |-> 0, end |-> 0] \in Chunks
  BY <1>3 DEF Snaps, Chunks, NoGen, FarmInit
<1>5. (SieveTarget > 0) \in BOOLEAN
  OBVIOUS
<1> QED
  BY <1>1, <1>2, <1>3, <1>4, <1>5, PlaceNames, OwnerNames DEF FarmInit, TypeOK, NoGen

\* No step of main or of a worker leaves the types.
LEMMA TypeStep == TypeOK /\ [FarmNext]_vars => TypeOK'
<1> SUFFICES ASSUME TypeOK, [FarmNext]_vars PROVE TypeOK'
  OBVIOUS
<1> USE DEF farmVars, workerVars, history
<1>1. ASSUME NEW w \in Workers, Snapshot(w) PROVE TypeOK'
  <2>1. [gen |-> gen, hdr |-> work] \in Snaps
    BY DEF TypeOK, Snaps
  <2>2. pc' \in [Workers -> Places] /\ snap' \in [Workers -> Snaps]
    BY <1>1, <2>1, PlaceNames DEF Snapshot, TypeOK
  <2> QED
    BY <1>1, <2>2 DEF Snapshot, TypeOK
<1>2. ASSUME NEW w \in Workers, Adopt(w) PROVE TypeOK'
  <2>1. snap[w].gen \in Nat
    BY DEF TypeOK, Snaps
  <2>2. [gen |-> snap[w].gen, next |-> 0, end |-> 0] \in Chunks
    BY <2>1, FarmAssumption DEF Chunks
  <2>3. /\ pc' \in [Workers -> Places] /\ chunk' \in [Workers -> Chunks]
        /\ cached' \in [Workers -> Nat]
    BY <1>2, <2>1, <2>2, PlaceNames DEF Adopt, TypeOK
  <2> QED
    BY <1>2, <2>3 DEF Adopt, TypeOK
<1>3. ASSUME NEW w \in Workers,
             \/ ClaimNothing(w) \/ Reshape(w) \/ SieveDone(w) \/ Drained(w) \/ Wake(w)
             \/ LeaveLoop(w) \/ Exit(w)
      PROVE  TypeOK'
  <2>1. pc' \in [Workers -> Places]
    BY <1>3, PlaceNames DEF ClaimNothing, Reshape, SieveDone, Drained, Wake, LeaveLoop, Exit, TypeOK
  <2> QED
    BY <1>3, <2>1 DEF ClaimNothing, Reshape, SieveDone, Drained, Wake, LeaveLoop, Exit, TypeOK
<1>4. ASSUME NEW w \in Workers, Claim(w) PROVE TypeOK'
  <2>1. nonce + ClaimSize \in 0 .. NumWindows /\ nonce \in 0 .. NumWindows
    BY <1>4, FarmAssumption DEF Claim, ClaimSize, TypeOK
  <2>2. owner' \in [Windows -> Owners]
    BY <1>4, OwnerNames DEF Claim, TypeOK
  <2>3. [chunk[w] EXCEPT !.next = nonce, !.end = nonce + ClaimSize] \in Chunks
    BY <2>1 DEF Chunks, TypeOK
  <2>4. chunk' \in [Workers -> Chunks]
    BY <1>4, <2>3 DEF Claim, TypeOK
  <2> QED
    BY <1>4, <2>1, <2>2, <2>4 DEF Claim, TypeOK
<1>5. ASSUME NEW w \in Workers, TakeNext(w)
      PROVE  chunk' \in [Workers -> Chunks]
  <2>1. chunk[w] \in Chunks /\ chunk[w].next < chunk[w].end
    BY <1>5 DEF TakeNext, TypeOK
  <2>2. chunk[w].next + 1 \in 0 .. NumWindows
    BY <2>1, FarmAssumption DEF Chunks
  <2>3. [chunk[w] EXCEPT !.next = @ + 1] \in Chunks
    BY <2>1, <2>2 DEF Chunks
  <2> QED
    BY <1>5, <2>3 DEF TakeNext, TypeOK
<1>6. ASSUME NEW w \in Workers, TakeCpu(w) PROVE TypeOK'
  <2>1. TakeNext(w) /\ chunk[w].next < chunk[w].end
    BY <1>6 DEF TakeCpu, TakeNext
  <2>2. /\ pend' \in [Workers -> Flights] /\ job' \in [Workers -> Jobs]
        /\ completed' \in Nat /\ owner' \in [Windows -> Owners]
        /\ scanned' \in SUBSET Windows
    BY <1>6, <2>1, NextWindowType, SievedType DEF TakeCpu
  <2>3. chunk' \in [Workers -> Chunks] /\ pc' \in [Workers -> Places]
    BY <1>5, <1>6, <2>1, PlaceNames DEF TakeCpu, TypeOK
  <2> QED
    BY <1>6, <2>1, <2>2, <2>3 DEF TakeCpu, TakeNext, TypeOK
<1>7. ASSUME NEW w \in Workers, TakeBatch(w) PROVE TypeOK'
  <2>1. TakeNext(w) /\ chunk[w].next < chunk[w].end
    BY <1>7 DEF TakeBatch, TakeNext
  <2>2. NextWindow(w) \in Singles
    BY <2>1, NextWindowType DEF Singles
  <2>3. batch' \in [Workers -> SUBSET Singles]
    <3>1. batch' = [batch EXCEPT ![w] = batch[w] \cup {NextWindow(w)}]
      BY <1>7 DEF TakeBatch
    <3>2. batch[w] \in SUBSET Singles /\ batch \in [Workers -> SUBSET Singles]
      BY DEF TypeOK
    <3>3. batch[w] \cup {NextWindow(w)} \in SUBSET Singles
      BY <2>2, <3>2
    <3> QED
      BY <3>1, <3>2, <3>3
  <2>4. chunk' \in [Workers -> Chunks] /\ pc' \in [Workers -> Places]
    BY <1>5, <1>7, <2>1, PlaceNames DEF TakeBatch, TypeOK
  <2> QED
    BY <1>7, <2>1, <2>3, <2>4 DEF TakeBatch, TakeNext, TypeOK
<1>8. ASSUME NEW w \in Workers, SieveOne(w) PROVE TypeOK'
  <2>1. PICK f \in batch[w] : /\ batch' = [batch EXCEPT ![w] = @ \ {f}]
                              /\ \E x \in f.wins : Sieved(w, f, x)
    BY <1>8 DEF SieveOne
  <2>2. f \in Flights /\ f.wins \in SUBSET Windows
    BY FlightType DEF TypeOK, Singles
  <2>3. PICK x \in f.wins : Sieved(w, f, x)
    BY <2>1
  <2>4. batch' \in [Workers -> SUBSET Singles]
    BY <2>1 DEF TypeOK
  <2>5. /\ pend' \in [Workers -> Flights] /\ job' \in [Workers -> Jobs]
        /\ completed' \in Nat /\ owner' \in [Windows -> Owners]
        /\ scanned' \in SUBSET Windows
    BY <2>2, <2>3, SievedType
  <2> QED
    BY <1>8, <2>4, <2>5 DEF SieveOne, TypeOK
<1>9. ASSUME NEW w \in Workers, SieveFails(w) PROVE TypeOK'
  <2>1. sieveOn' \in [Workers -> BOOLEAN]
    BY <1>9 DEF SieveFails, TypeOK
  <2> QED
    BY <1>9, <2>1 DEF SieveFails, TypeOK
<1>10. ASSUME NEW w \in Workers, FlushPending(w) PROVE TypeOK'
  <2>1. pend[w] \in Flights /\ Emptied(pend[w]) \in Flights /\ Job(pend[w]) \in Jobs
    BY FlightType DEF TypeOK
  <2>2. pend' \in [Workers -> Flights] /\ job' \in [Workers -> Jobs]
    BY <1>10, <2>1 DEF FlushPending, Process, TypeOK
  <2> QED
    BY <1>10, <2>2 DEF FlushPending, TypeOK
<1>11. ASSUME NEW w \in Workers, Scan(w) PROVE TypeOK'
  <2>1. PICK x \in job[w].todo :
               /\ Push(Entry(job[w], x)) \/ UNCHANGED queue
               /\ Searched(job[w], x)
               /\ job' = [job EXCEPT ![w].todo = @ \ {x}, ![w].unmarked = {x}]
    BY <1>11 DEF Scan
  <2>2. job[w] \in Jobs /\ x \in Windows
    BY DEF TypeOK, Jobs
  <2>3. Entry(job[w], x) \in Entries
    BY <2>2 DEF Entry, Entries, Jobs
  <2>4. queue' \in Seq(Entries) /\ Len(queue') <= QueueCap
    <3>1. queue \in Seq(Entries) /\ Len(queue) <= QueueCap /\ QueueCap \in Nat /\ Len(queue) \in Nat
      BY FarmAssumption DEF TypeOK
    <3>2. \/ queue' = queue
          \/ Len(queue) < QueueCap /\ queue' = Append(queue, Entry(job[w], x))
      BY <2>1 DEF Push
    <3>3. Append(queue, Entry(job[w], x)) \in Seq(Entries)
      BY <2>3, <3>1
    <3>4. Len(Append(queue, Entry(job[w], x))) = Len(queue) + 1
      BY <2>3, <3>1
    <3>5. CASE queue' = queue
      BY <3>1, <3>5
    <3>6. CASE Len(queue) < QueueCap /\ queue' = Append(queue, Entry(job[w], x))
      BY <3>1, <3>3, <3>4, <3>6
    <3> QED
      BY <3>2, <3>5, <3>6
  <2>5. [job[w] EXCEPT !.todo = @ \ {x}, !.unmarked = {x}] \in Jobs
    BY <2>2 DEF Jobs
  <2>6. job' \in [Workers -> Jobs]
    BY <2>1, <2>5 DEF TypeOK
  <2>7. scanned' \in SUBSET Windows
    BY <2>1, <2>2, SearchedType
  <2> QED
    BY <1>11, <2>4, <2>6, <2>7 DEF Scan, TypeOK
<1>12. ASSUME NEW w \in Workers, Mark(w) PROVE TypeOK'
  <2>1. PICK x \in job[w].unmarked : MarkComplete(job[w], x)
    BY <1>12 DEF Mark
  <2>2. job[w] \in Jobs /\ x \in Windows
    BY DEF TypeOK, Jobs
  <2>3. completed' \in Nat /\ owner' \in [Windows -> Owners]
    BY <2>1, <2>2, MarkType
  <2>4. [job[w] EXCEPT !.unmarked = {}] \in Jobs
    BY <2>2 DEF Jobs
  <2>5. job' \in [Workers -> Jobs]
    BY <1>12, <2>4 DEF Mark, TypeOK
  <2> QED
    BY <1>12, <2>3, <2>5 DEF Mark, TypeOK
<1>13. CASE NewWork
  <2>1. PICK h \in Headers : UpdateWork(h)
    BY <1>13 DEF NewWork
  <2> QED
    BY <1>13, <2>1, UpdateType DEF NewWork, TypeOK
<1>14. CASE Rotate
  <2>1. CASE \E h \in NextHeaders : UpdateWork(h) /\ UNCHANGED stop
    <3>1. PICK h \in Headers : UpdateWork(h) /\ UNCHANGED stop
      BY <2>1 DEF NextHeaders
    <3> QED
      BY <1>14, <3>1, UpdateType DEF Rotate, TypeOK
  <2>2. CASE NextHeaders = {} /\ StopFarm /\ UNCHANGED <<work, gen, nonce, completed, history>>
    BY <1>14, <2>2 DEF Rotate, StopFarm, TypeOK
  <2> QED
    BY <1>14, <2>1, <2>2 DEF Rotate
<1>15. CASE TakeGap
  <2>1. queue # <<>> /\ queue' = Tail(queue) /\ queue \in Seq(Entries) /\ Len(queue) <= QueueCap
    BY <1>15 DEF TakeGap, PopGap, TypeOK
  <2>2. queue' \in Seq(Entries) /\ Len(queue') = Len(queue) - 1
    BY <2>1
  <2>3. Len(queue) \in Nat /\ QueueCap \in Nat
    BY <2>1, FarmAssumption
  <2>4. queue' \in Seq(Entries) /\ Len(queue') <= QueueCap
    BY <2>1, <2>2, <2>3
  <2> QED
    BY <1>15, <2>4 DEF TakeGap, TypeOK
<1>16. CASE CheckExhausted \/ RequestStop
  BY <1>16 DEF CheckExhausted, RequestStop, StopFarm, TypeOK
<1>17. CASE UNCHANGED vars
  BY <1>17 DEF vars, TypeOK
<1> QED
  BY <1>1, <1>2, <1>3, <1>4, <1>6, <1>7, <1>8, <1>9, <1>10, <1>11, <1>12, <1>13, <1>14,
     <1>15, <1>16, <1>17 DEF FarmNext, Worker, Terminated

\* Every variable stays in its domain and the gap ring never holds more than
\* its capacity, whatever the number of workers and windows.
THEOREM TypeCorrect == FarmSpec => []TypeOK
BY TypeInit, TypeStep, PTL DEF FarmSpec

-----------------------------------------------------------------------------
(* The inductive invariant                                                  *)

\* Whatever carries the current generation carries the active header: the
\* snapshot of both is taken in one critical section.
Tagged(f) == f.gen <= gen /\ (f.gen = gen => f.hdr = work)

Provenance ==
  /\ \A w \in Workers : /\ Tagged(snap[w]) /\ Tagged(pend[w]) /\ Tagged(job[w])
                        /\ chunk[w].gen <= gen
                        /\ \A f \in batch[w] : Tagged(f)
  /\ \A i \in 1 .. Len(queue) : Tagged(queue[i])

\* All that a worker holds belongs to the generation of its chunk, which is the
\* generation of its snapshot while it takes windows; it takes none while it
\* still runs some.
Discipline ==
  \A w \in Workers :
    /\ chunk[w].next <= chunk[w].end
    /\ cached[w] = chunk[w].gen
    /\ \A f \in batch[w] : f.gen = chunk[w].gen
    /\ pend[w].wins # {} => pend[w].gen = chunk[w].gen
    /\ Busy(w) => /\ job[w].gen = chunk[w].gen
                  /\ pc[w] \notin {"window", "admit", "wait", "done"}
    /\ pc[w] \in {"window", "admit", "reshape"} => chunk[w].gen = snap[w].gen
    /\ \A x, y \in job[w].unmarked : x = y

\* A worker flushes for a change of work only what belongs to an old header.
TurnsFromOld == \A w \in Workers : pc[w] = "turn" => chunk[w].gen < gen

\* The verdict of miner_farm_work_exhausted stays true until main acts on it.
VerdictStands == exhausted => WorkExhausted

\* What is counted, or waits to be counted, was searched; so were the windows
\* of the queued gaps.
Searches ==
  /\ Of("done") \subseteq scanned
  /\ \A w \in Workers : InMark(w) \subseteq scanned

IInv ==
  /\ TypeOK /\ Provenance /\ Discipline /\ TurnsFromOld /\ WindowsAccounted
  /\ VerdictStands /\ Searches /\ EntryUnderItsHeader

-----------------------------------------------------------------------------
(* Provenance                                                               *)

\* The fields the following proofs do arithmetic on.
LEMMA FieldTypes ==
  ASSUME TypeOK
  PROVE  /\ gen \in Nat /\ nonce \in Nat /\ nonce <= NumWindows /\ NumWindows \in Nat
         /\ \A w \in Workers :
              /\ snap[w] \in Snaps /\ chunk[w] \in Chunks /\ batch[w] \in SUBSET Singles
              /\ pend[w] \in Flights /\ job[w] \in Jobs
              /\ snap[w].gen \in Nat /\ pend[w].gen \in Nat /\ job[w].gen \in Nat
              /\ chunk[w].gen \in Nat /\ chunk[w].next \in Nat /\ chunk[w].end \in Nat
              /\ chunk[w].end <= NumWindows
              /\ \A f \in batch[w] : f \in Flights /\ f.gen \in Nat
         /\ \A i \in 1 .. Len(queue) : queue[i] \in Entries /\ queue[i].gen \in Nat
<1>1. gen \in Nat /\ nonce \in Nat /\ nonce <= NumWindows /\ NumWindows \in Nat
  BY FarmAssumption DEF TypeOK
<1>2. ASSUME NEW w \in Workers
      PROVE  /\ snap[w] \in Snaps /\ chunk[w] \in Chunks /\ batch[w] \in SUBSET Singles
             /\ pend[w] \in Flights /\ job[w] \in Jobs
  BY DEF TypeOK
<1>3. ASSUME NEW w \in Workers
      PROVE  /\ snap[w].gen \in Nat /\ pend[w].gen \in Nat /\ job[w].gen \in Nat
             /\ chunk[w].gen \in Nat /\ chunk[w].next \in Nat /\ chunk[w].end \in Nat
             /\ chunk[w].end <= NumWindows
  BY <1>2, FarmAssumption DEF Snaps, Chunks, Flights, Jobs
<1>4. ASSUME NEW w \in Workers, NEW f \in batch[w] PROVE f \in Flights /\ f.gen \in Nat
  BY <1>2 DEF Singles, Flights
<1>5. ASSUME NEW i \in 1 .. Len(queue) PROVE queue[i] \in Entries /\ queue[i].gen \in Nat
  <2>1. queue \in Seq(Entries)
    BY DEF TypeOK
  <2>2. queue[i] \in Entries
    BY <2>1
  <2> QED
    BY <2>2 DEF Entries
<1> QED
  BY <1>1, <1>2, <1>3, <1>4, <1>5

\* Where Dispatch puts the windows of f: in the Fermat batch or in a job, next
\* to those of the batch, and nowhere twice.
LEMMA DispatchEffect ==
  ASSUME TypeOK, NEW w \in Workers, NEW f \in Flights, Dispatch(w, f), ~Busy(w),
         pend[w].wins # {} => pend[w].gen = f.gen
  PROVE  /\ \A v \in Workers \ {w} : pend'[v] = pend[v] /\ job'[v] = job[v]
         /\ pend'[w].wins \cup job'[w].todo = pend[w].wins \cup f.wins
         /\ pend[w].wins \cap f.wins = {} => pend'[w].wins \cap job'[w].todo = {}
         /\ job'[w].unmarked = {}
         /\ pend'[w].wins # {} => pend'[w].gen = f.gen
         /\ job'[w].todo # {} => job'[w].gen = f.gen
         /\ \/ pend'[w].gen = f.gen /\ pend'[w].hdr = f.hdr
            \/ pend'[w].gen = pend[w].gen /\ pend'[w].hdr = pend[w].hdr
         /\ \/ job'[w] = job[w]
            \/ job'[w].gen = f.gen /\ job'[w].hdr = f.hdr
            \/ job'[w].gen = pend[w].gen /\ job'[w].hdr = pend[w].hdr
<1>1. pend \in [Workers -> Flights] /\ job \in [Workers -> Jobs] /\ pend[w] \in Flights
      /\ job[w] \in Jobs
  BY DEF TypeOK
<1>2. job[w].todo = {} /\ job[w].unmarked = {}
  BY DEF Busy
<1>3. CASE Process(w, f) /\ UNCHANGED pend
  BY <1>1, <1>3 DEF Process, Job
<1> DEFINE joined == IF pend[w].wins = {} THEN f ELSE [pend[w] EXCEPT !.wins = @ \cup f.wins]
<1>4. /\ joined.wins = pend[w].wins \cup f.wins /\ joined.gen = f.gen
      /\ \/ joined.hdr = f.hdr
         \/ joined.gen = pend[w].gen /\ joined.hdr = pend[w].hdr
      /\ joined \in Flights
  BY <1>1 DEF Flights
<1>5. CASE pend' = [pend EXCEPT ![w] = joined] /\ UNCHANGED job
  <2> HIDE DEF joined
  <2> QED
    BY <1>1, <1>2, <1>4, <1>5
<1>6. CASE Process(w, joined) /\ pend' = [pend EXCEPT ![w] = Emptied(joined)]
  <2> HIDE DEF joined
  <2>1. /\ Emptied(joined).wins = {} /\ Emptied(joined).gen = joined.gen
        /\ Emptied(joined).hdr = joined.hdr
    BY <1>4 DEF Emptied, Flights
  <2>2. pend'[w] = Emptied(joined) /\ job'[w] = Job(joined)
    BY <1>1, <1>6 DEF Process
  <2>3. \A v \in Workers \ {w} : pend'[v] = pend[v] /\ job'[v] = job[v]
    BY <1>1, <1>6 DEF Process
  <2> QED
    BY <1>4, <2>1, <2>2, <2>3 DEF Job
<1>7. CASE Process(w, pend[w]) /\ pend' = [pend EXCEPT ![w] = f]
  BY <1>1, <1>7 DEF Process, Job
<1>8. \/ Process(w, f) /\ UNCHANGED pend
      \/ pend' = [pend EXCEPT ![w] = joined] /\ UNCHANGED job
      \/ Process(w, joined) /\ pend' = [pend EXCEPT ![w] = Emptied(joined)]
      \/ Process(w, pend[w]) /\ pend' = [pend EXCEPT ![w] = f]
  BY DEF Dispatch
<1> HIDE DEF joined
<1> QED
  BY <1>3, <1>5, <1>6, <1>7, <1>8

\* A step that leaves the work, the queue and the places of a flight alone
\* leaves its provenance alone; one that publishes new work makes it old.
LEMMA TaggedOld ==
  ASSUME NEW f, f.gen \in Nat, gen \in Nat, Tagged(f), gen' = gen + 1
  PROVE  f.gen <= gen' /\ f.gen # gen'
BY DEF Tagged

\* No step gives a worker anything of a generation later than the farm's, or,
\* within the farm's generation, of another header.
LEMMA ProvenanceStep ==
  ASSUME TypeOK, Provenance, Discipline, [FarmNext]_vars
  PROVE  Provenance'
<1> USE DEF farmVars, workerVars, history
<1>0. TypeOK'
  BY TypeStep
<1> DEFINE Mine(w) == /\ Tagged(snap[w]) /\ Tagged(pend[w]) /\ Tagged(job[w])
                      /\ chunk[w].gen <= gen
                      /\ \A f \in batch[w] : Tagged(f)
           Queued  == \A i \in 1 .. Len(queue) : Tagged(queue[i])
<1>1. (\A w \in Workers : Mine(w)) /\ Queued
  BY DEF Provenance
<1>2. ASSUME (\A w \in Workers : Mine(w)'), Queued' PROVE Provenance'
  BY <1>2 DEF Provenance
<1>3. ASSUME UNCHANGED <<gen, work, queue>> PROVE Queued'
  BY <1>1, <1>3 DEF Tagged
<1>4. ASSUME NEW w \in Workers, UNCHANGED <<gen, work, snap, chunk, pend, job, batch>>
      PROVE  Mine(w)'
  BY <1>1, <1>4 DEF Tagged
<1>5. ASSUME NEW w \in Workers, Snapshot(w) PROVE Provenance'
  <2>1. snap'[w].gen = gen /\ snap'[w].hdr = work
    BY <1>5 DEF Snapshot, TypeOK
  <2>2. \A v \in Workers \ {w} : snap'[v] = snap[v]
    BY <1>5 DEF Snapshot, TypeOK
  <2>3. \A v \in Workers : Tagged(snap[v])'
    BY <1>1, <1>5, <2>1, <2>2, FieldTypes DEF Snapshot, Tagged
  <2>4. \A v \in Workers : Mine(v)'
    BY <1>1, <1>5, <2>3 DEF Snapshot, Tagged
  <2> QED
    BY <1>2, <1>3, <1>5, <2>4 DEF Snapshot
<1>6. ASSUME NEW w \in Workers, Adopt(w) PROVE Provenance'
  <2>1. chunk'[w].gen = snap[w].gen /\ \A v \in Workers \ {w} : chunk'[v] = chunk[v]
    BY <1>6 DEF Adopt, TypeOK
  <2>2. \A v \in Workers : chunk'[v].gen <= gen
    BY <1>1, <2>1 DEF Tagged
  <2>3. \A v \in Workers : Mine(v)'
    BY <1>1, <1>6, <2>2 DEF Adopt, Tagged
  <2> QED
    BY <1>2, <1>3, <1>6, <2>3 DEF Adopt
<1>7. ASSUME NEW w \in Workers,
             \/ ClaimNothing(w) \/ Reshape(w) \/ SieveFails(w) \/ SieveDone(w)
             \/ Drained(w) \/ Wake(w) \/ LeaveLoop(w) \/ Exit(w)
      PROVE  Provenance'
  <2>1. UNCHANGED <<gen, work, queue, snap, chunk, pend, job, batch>>
    BY <1>7 DEF ClaimNothing, Reshape, SieveFails, SieveDone, Drained, Wake, LeaveLoop, Exit
  <2> QED
    BY <1>2, <1>3, <1>4, <2>1
<1>8. ASSUME NEW w \in Workers, \/ Claim(w) \/ TakeNext(w) PROVE \A v \in Workers : chunk'[v].gen = chunk[v].gen
  <2>1. chunk \in [Workers -> Chunks]
    BY DEF TypeOK
  <2> QED
    BY <1>8, <2>1 DEF Claim, TakeNext, Chunks
<1>9. ASSUME NEW w \in Workers, Claim(w) PROVE Provenance'
  <2>1. \A v \in Workers : Mine(v)'
    BY <1>1, <1>8, <1>9 DEF Claim, Tagged
  <2> QED
    BY <1>2, <1>3, <1>9, <2>1 DEF Claim
<1>10. ASSUME NEW w \in Workers, NEW f \in Flights, NEW x, Sieved(w, f, x), Tagged(f), ~Busy(w),
              pend[w].wins # {} => pend[w].gen = f.gen, UNCHANGED <<gen, work>>
       PROVE  \A v \in Workers : Tagged(pend[v])' /\ Tagged(job[v])'
  <2>1. CASE UNCHANGED <<pend, job>>
    BY <1>1, <1>10, <2>1 DEF Tagged
  <2>2. CASE Dispatch(w, f)
    <3>1. /\ \A v \in Workers \ {w} : pend'[v] = pend[v] /\ job'[v] = job[v]
          /\ \/ pend'[w].gen = f.gen /\ pend'[w].hdr = f.hdr
             \/ pend'[w].gen = pend[w].gen /\ pend'[w].hdr = pend[w].hdr
          /\ \/ job'[w] = job[w]
             \/ job'[w].gen = f.gen /\ job'[w].hdr = f.hdr
             \/ job'[w].gen = pend[w].gen /\ job'[w].hdr = pend[w].hdr
      BY <1>10, <2>2, DispatchEffect
    <3> QED
      BY <1>1, <1>10, <3>1 DEF Tagged
  <2> QED
    BY <1>10, <2>1, <2>2 DEF Sieved
<1>11. ASSUME NEW w \in Workers, TakeNext(w)
       PROVE  /\ NextWindow(w) \in Flights /\ Tagged(NextWindow(w)) /\ ~Busy(w)
              /\ NextWindow(w).gen = snap[w].gen
              /\ pend[w].wins # {} => pend[w].gen = NextWindow(w).gen
  <2>1. NextWindow(w).gen = snap[w].gen /\ NextWindow(w).hdr = snap[w].hdr
    BY DEF NextWindow, Flight
  <2>2. pc[w] \in {"window", "admit"} /\ chunk[w].next < chunk[w].end
    BY <1>11 DEF TakeNext
  <2>3. ~Busy(w) /\ chunk[w].gen = snap[w].gen
    BY <2>2 DEF Discipline
  <2>4. pend[w].wins # {} => pend[w].gen = NextWindow(w).gen
    BY <2>1, <2>3 DEF Discipline
  <2> QED
    BY <1>1, <2>1, <2>2, <2>3, <2>4, NextWindowType DEF Tagged
<1>12. ASSUME NEW w \in Workers, TakeCpu(w) PROVE Provenance'
  <2>1. TakeNext(w) /\ UNCHANGED <<gen, work, queue, snap, batch>>
    BY <1>12 DEF TakeCpu, TakeNext
  <2>2. \A v \in Workers : Tagged(pend[v])' /\ Tagged(job[v])'
    BY <1>10, <1>11, <1>12, <2>1 DEF TakeCpu
  <2>3. \A v \in Workers : Mine(v)'
    BY <1>1, <1>8, <2>1, <2>2 DEF Tagged
  <2> QED
    BY <1>2, <1>3, <2>1, <2>3
<1>13. ASSUME NEW w \in Workers, TakeBatch(w) PROVE Provenance'
  <2>1. TakeNext(w) /\ UNCHANGED <<gen, work, queue, snap, pend, job>>
    BY <1>13 DEF TakeBatch, TakeNext, history
  <2>2. batch'[w] = batch[w] \cup {NextWindow(w)} /\ \A v \in Workers \ {w} : batch'[v] = batch[v]
    BY <1>13 DEF TakeBatch, TypeOK
  <2>3. Tagged(NextWindow(w))
    BY <1>11, <2>1
  <2>4. \A v \in Workers : \A f \in batch'[v] : Tagged(f)
    BY <1>1, <2>2, <2>3
  <2>5. \A v \in Workers : Mine(v)'
    BY <1>1, <1>8, <2>1, <2>4 DEF Tagged
  <2> QED
    BY <1>2, <1>3, <2>1, <2>5
<1>14. ASSUME NEW w \in Workers, SieveOne(w) PROVE Provenance'
  <2>1. PICK f \in batch[w] : /\ batch' = [batch EXCEPT ![w] = @ \ {f}]
                              /\ \E x \in f.wins : Sieved(w, f, x)
    BY <1>14 DEF SieveOne
  <2>2. UNCHANGED <<gen, work, queue, snap, chunk>> /\ ~Busy(w)
    BY <1>14 DEF SieveOne
  <2>3. f \in Flights /\ Tagged(f) /\ (pend[w].wins # {} => pend[w].gen = f.gen)
    BY <1>1, FieldTypes DEF Discipline
  <2>4. \A v \in Workers : Tagged(pend[v])' /\ Tagged(job[v])'
    BY <1>10, <2>1, <2>2, <2>3
  <2>5. \A v \in Workers : batch'[v] \subseteq batch[v]
    BY <2>1 DEF TypeOK
  <2>6. \A v \in Workers : Mine(v)'
    BY <1>1, <2>2, <2>4, <2>5 DEF Tagged
  <2> QED
    BY <1>2, <1>3, <2>2, <2>6
<1>15. ASSUME NEW w \in Workers, FlushPending(w) PROVE Provenance'
  <2>1. pend \in [Workers -> Flights] /\ job \in [Workers -> Jobs] /\ pend[w] \in Flights
    BY DEF TypeOK
  <2>2. \A v \in Workers : pend'[v].gen = pend[v].gen /\ pend'[v].hdr = pend[v].hdr
    BY <1>15, <2>1 DEF FlushPending, Emptied, Flights
  <2>3. /\ job'[w].gen = pend[w].gen /\ job'[w].hdr = pend[w].hdr
        /\ \A v \in Workers \ {w} : job'[v] = job[v]
    BY <1>15, <2>1 DEF FlushPending, Process, Job
  <2>4. UNCHANGED <<gen, work, queue, snap, chunk, batch>>
    BY <1>15 DEF FlushPending
  <2>5. \A v \in Workers : Tagged(pend[v])' /\ Tagged(job[v])'
    BY <1>1, <2>2, <2>3, <2>4 DEF Tagged
  <2>6. \A v \in Workers : Mine(v)'
    BY <1>1, <2>4, <2>5 DEF Tagged
  <2> QED
    BY <1>2, <1>3, <2>4, <2>6
<1>16. ASSUME NEW w \in Workers, Scan(w) \/ Mark(w)
       PROVE  \A v \in Workers : Mine(v)'
  <2>1. \A v \in Workers : job'[v].gen = job[v].gen /\ job'[v].hdr = job[v].hdr
    <3>1. job \in [Workers -> Jobs]
      BY DEF TypeOK
    <3>2. CASE Scan(w)
      <4>1. \E x : job' = [job EXCEPT ![w].todo = @ \ {x}, ![w].unmarked = {x}]
        BY <3>2 DEF Scan
      <4> QED
        BY <3>1, <4>1 DEF Jobs
    <3>3. CASE Mark(w)
      BY <3>1, <3>3 DEF Mark, Jobs
    <3> QED
      BY <1>16, <3>2, <3>3
  <2>2. UNCHANGED <<gen, work, snap, chunk, pend, batch>>
    BY <1>16 DEF Scan, Mark
  <2> QED
    BY <1>1, <2>1, <2>2 DEF Tagged
<1>17. ASSUME NEW w \in Workers, Scan(w) PROVE Provenance'
  <2>1. PICK x \in job[w].todo : Push(Entry(job[w], x)) \/ UNCHANGED queue
    BY <1>17 DEF Scan
  <2>2. UNCHANGED <<gen, work>>
    BY <1>17 DEF Scan
  <2>3. Tagged(Entry(job[w], x))
    BY <1>1 DEF Tagged, Entry
  <2>4. queue \in Seq(Entries) /\ Entry(job[w], x) \in Entries
    <3>1. job[w] \in Jobs /\ x \in Windows
      BY DEF TypeOK, Jobs
    <3> QED
      BY <3>1 DEF Entry, Entries, Jobs, TypeOK
  <2>5. queue' = queue \/ queue' = Append(queue, Entry(job[w], x))
    BY <2>1 DEF Push
  <2>6. Queued'
    <3>1. CASE queue' = queue
      BY <1>3, <2>2, <3>1
    <3>2. CASE queue' = Append(queue, Entry(job[w], x))
      <4>1. ASSUME NEW i \in 1 .. Len(queue')
            PROVE  queue'[i] = Entry(job[w], x) \/ (i \in 1 .. Len(queue) /\ queue'[i] = queue[i])
        BY <2>4, <3>2
      <4> QED
        BY <1>1, <2>2, <2>3, <4>1 DEF Tagged
    <3> QED
      BY <2>5, <3>1, <3>2
  <2> QED
    BY <1>2, <1>16, <1>17, <2>6
<1>18. ASSUME NEW w \in Workers, Mark(w) PROVE Provenance'
  BY <1>2, <1>3, <1>16, <1>18 DEF Mark
<1>19. ASSUME NEW h \in Headers, UpdateWork(h), UNCHANGED <<queue, workerVars>>
       PROVE  Provenance'
  <2>1. gen' = gen + 1
    BY <1>19 DEF UpdateWork
  <2>2. \A w \in Workers : Mine(w)'
    BY <1>1, <1>19, <2>1, FieldTypes, TaggedOld DEF Tagged
  <2>3. Queued'
    BY <1>1, <1>19, <2>1, FieldTypes, TaggedOld DEF Tagged
  <2> QED
    BY <1>2, <2>2, <2>3
<1>20. CASE NewWork
  BY <1>19, <1>20 DEF NewWork
<1>21. CASE Rotate
  <2>1. CASE \E h \in NextHeaders : UpdateWork(h) /\ UNCHANGED stop
    BY <1>19, <1>21, <2>1 DEF Rotate, NextHeaders
  <2>2. CASE UNCHANGED <<work, gen>>
    BY <1>2, <1>3, <1>4, <1>21, <2>2 DEF Rotate
  <2> QED
    BY <1>21, <2>1, <2>2 DEF Rotate
<1>22. CASE TakeGap
  <2>1. queue # <<>> /\ queue' = Tail(queue) /\ queue \in Seq(Entries)
    BY <1>22 DEF TakeGap, PopGap, TypeOK
  <2>2. \A i \in 1 .. Len(queue') : i + 1 \in 1 .. Len(queue) /\ queue'[i] = queue[i + 1]
    BY <2>1
  <2>3. Queued'
    BY <1>1, <1>22, <2>2 DEF TakeGap, Tagged
  <2> QED
    BY <1>2, <1>4, <1>22, <2>3 DEF TakeGap
<1>23. CASE CheckExhausted \/ RequestStop
  BY <1>2, <1>3, <1>4, <1>23 DEF CheckExhausted, RequestStop
<1>24. CASE UNCHANGED vars
  BY <1>2, <1>3, <1>4, <1>24 DEF vars
<1> QED
  BY <1>5, <1>6, <1>7, <1>9, <1>12, <1>13, <1>14, <1>15, <1>17, <1>18, <1>20, <1>21,
     <1>22, <1>23, <1>24 DEF FarmNext, Worker, Terminated

\* Whatever a worker holds, it holds for the generation of its chunk: Adopt gets
\* rid of the rest before the chunk changes.
LEMMA DisciplineStep ==
  ASSUME TypeOK, Discipline, [FarmNext]_vars
  PROVE  Discipline'
<1> USE DEF farmVars, workerVars, history
<1> DEFINE Mine(w) == /\ chunk[w].next <= chunk[w].end
                      /\ cached[w] = chunk[w].gen
                      /\ \A f \in batch[w] : f.gen = chunk[w].gen
                      /\ pend[w].wins # {} => pend[w].gen = chunk[w].gen
                      /\ Busy(w) => /\ job[w].gen = chunk[w].gen
                                    /\ pc[w] \notin {"window", "admit", "wait", "done"}
                      /\ pc[w] \in {"window", "admit", "reshape"} => chunk[w].gen = snap[w].gen
                      /\ \A x, y \in job[w].unmarked : x = y
<1>1. \A w \in Workers : Mine(w)
  BY DEF Discipline
<1>2. ASSUME \A w \in Workers : Mine(w)' PROVE Discipline'
  BY <1>2 DEF Discipline
<1>3. /\ pc \in [Workers -> Places] /\ snap \in [Workers -> Snaps] /\ chunk \in [Workers -> Chunks]
      /\ cached \in [Workers -> Nat] /\ batch \in [Workers -> SUBSET Singles]
      /\ pend \in [Workers -> Flights] /\ job \in [Workers -> Jobs]
  BY DEF TypeOK
\* Every action of w leaves the other workers as they are.
<1>4. ASSUME NEW w \in Workers, Mine(w)',
             \A v \in Workers \ {w} :
               /\ pc'[v] = pc[v] /\ snap'[v] = snap[v] /\ chunk'[v] = chunk[v]
               /\ cached'[v] = cached[v] /\ batch'[v] = batch[v] /\ pend'[v] = pend[v]
               /\ job'[v] = job[v]
      PROVE  Discipline'
  <2>1. ASSUME NEW v \in Workers \ {w} PROVE Mine(v)'
    <3>1. (Busy(v))' <=> Busy(v)
      BY <1>4 DEF Busy
    <3> QED
      BY <1>1, <1>4, <3>1
  <2> QED
    BY <1>2, <1>4, <2>1
<1>5. ASSUME NEW w \in Workers, Snapshot(w) PROVE Discipline'
  <2>1. ~Busy(w) /\ ~(Busy(w))'
    BY <1>5 DEF Snapshot, Busy
  <2>2. /\ snap'[w].gen = gen
        /\ pc'[w] \in {"window", "turn"} /\ (pc'[w] = "window" => chunk[w].gen = gen)
    BY <1>3, <1>5 DEF Snapshot
  <2>3. Mine(w)'
    BY <1>1, <1>5, <2>1, <2>2 DEF Snapshot
  <2> QED
    BY <1>3, <1>4, <1>5, <2>3 DEF Snapshot
<1>6. ASSUME NEW w \in Workers, Adopt(w) PROVE Discipline'
  <2>1. ~Busy(w) /\ ~(Busy(w))' /\ batch[w] = {} /\ pend[w].wins = {}
    BY <1>6 DEF Adopt, Busy
  <2>2. /\ chunk'[w] = [gen |-> snap[w].gen, next |-> 0, end |-> 0]
        /\ cached'[w] = snap[w].gen /\ pc'[w] = "window"
    BY <1>3, <1>6 DEF Adopt
  <2>3. Mine(w)'
    BY <1>1, <1>6, <2>1, <2>2 DEF Adopt
  <2> QED
    BY <1>3, <1>4, <1>6, <2>3 DEF Adopt
<1>7. ASSUME NEW w \in Workers,
             UNCHANGED <<snap, chunk, cached, batch, pend, job>>, pc' = [pc EXCEPT ![w] = pc'[w]],
             Busy(w) => pc'[w] \notin {"window", "admit", "wait", "done"},
             pc'[w] \in {"window", "admit", "reshape"} => chunk[w].gen = snap[w].gen
      PROVE  Discipline'
  <2>1. (Busy(w))' <=> Busy(w)
    BY <1>7 DEF Busy
  <2>2. Mine(w)'
    BY <1>1, <1>7, <2>1
  <2> QED
    BY <1>3, <1>4, <1>7, <2>2
<1>8. ASSUME NEW w \in Workers, ClaimNothing(w) \/ Reshape(w) PROVE Discipline'
  <2>1. /\ UNCHANGED <<snap, chunk, cached, batch, pend, job>> /\ pc[w] = "window"
        /\ pc' = [pc EXCEPT ![w] = pc'[w]] /\ pc'[w] \in {"drain", "reshape"}
    BY <1>3, <1>8 DEF ClaimNothing, Reshape
  <2> QED
    BY <1>1, <1>7, <2>1
<1>9. ASSUME NEW w \in Workers,
             SieveDone(w) \/ Drained(w) \/ Wake(w) \/ LeaveLoop(w) \/ Exit(w)
      PROVE  Discipline'
  <2>1. /\ UNCHANGED <<snap, chunk, cached, batch, pend, job>>
        /\ pc' = [pc EXCEPT ![w] = pc'[w]]
        /\ \/ pc[w] = "sieve" /\ pc'[w] = "loop" /\ ~Busy(w)
           \/ pc[w] = "reshape" /\ pc'[w] = "admit" /\ ~Busy(w)
           \/ pc'[w] \in {"wait", "exit", "done"} /\ ~Busy(w)
           \/ pc'[w] = "loop"
    BY <1>3, <1>9 DEF SieveDone, Drained, Wake, LeaveLoop, Exit
  <2> QED
    BY <1>1, <1>7, <2>1
<1>10. ASSUME NEW w \in Workers, SieveFails(w) PROVE Discipline'
  BY <1>1, <1>2, <1>10 DEF SieveFails, Busy
<1>11. ASSUME NEW w \in Workers, Claim(w) PROVE Discipline'
  <2>1. /\ chunk'[w].gen = chunk[w].gen /\ chunk'[w].next = nonce
        /\ chunk'[w].end = nonce + ClaimSize
        /\ \A v \in Workers \ {w} : chunk'[v] = chunk[v]
    BY <1>3, <1>11 DEF Claim, Chunks
  <2>2. nonce <= nonce + ClaimSize
    BY <1>11, FarmAssumption, FieldTypes DEF Claim, ClaimSize
  <2>3. UNCHANGED <<pc, snap, cached, batch, pend, job>> /\ ((Busy(w))' <=> Busy(w))
    BY <1>11 DEF Claim, Busy
  <2>4. Mine(w)'
    BY <1>1, <2>1, <2>2, <2>3
  <2> QED
    BY <1>4, <2>1, <2>3, <2>4
<1>12. ASSUME NEW w \in Workers, TakeNext(w)
       PROVE  /\ chunk'[w].gen = chunk[w].gen /\ chunk'[w].next <= chunk'[w].end
              /\ \A v \in Workers \ {w} : chunk'[v] = chunk[v]
              /\ NextWindow(w) \in Flights /\ NextWindow(w).gen = chunk[w].gen
              /\ ~Busy(w)
  <2>1. /\ chunk'[w].gen = chunk[w].gen /\ chunk'[w].next = chunk[w].next + 1
        /\ chunk'[w].end = chunk[w].end
        /\ \A v \in Workers \ {w} : chunk'[v] = chunk[v]
    BY <1>3, <1>12 DEF TakeNext, Chunks
  <2>2. chunk[w].next < chunk[w].end /\ pc[w] \in {"window", "admit"}
    BY <1>12 DEF TakeNext
  <2>3. chunk'[w].next <= chunk'[w].end
    BY <2>1, <2>2, FieldTypes
  <2>4. NextWindow(w) \in Flights /\ NextWindow(w).gen = snap[w].gen
    BY <2>2, NextWindowType DEF NextWindow, Flight
  <2> QED
    BY <1>1, <2>1, <2>2, <2>3, <2>4
\* After the sieve, the window's flight is where Dispatch may put it.
<1>13. ASSUME NEW w \in Workers, NEW f \in Flights, NEW x, Sieved(w, f, x), ~Busy(w),
              f.gen = chunk[w].gen
       PROVE  /\ \A v \in Workers \ {w} : pend'[v] = pend[v] /\ job'[v] = job[v]
              /\ pend'[w].wins # {} => pend'[w].gen = chunk[w].gen
              /\ job'[w].unmarked = {}
              /\ job'[w].todo # {} => job'[w].gen = chunk[w].gen
  <2>1. CASE UNCHANGED <<pend, job>>
    BY <1>1, <1>13, <2>1 DEF Busy
  <2>2. CASE Dispatch(w, f)
    BY <1>1, <1>13, <2>2, DispatchEffect
  <2> QED
    BY <1>13, <2>1, <2>2 DEF Sieved
<1>14. ASSUME NEW w \in Workers, TakeCpu(w) PROVE Discipline'
  <2>1. TakeNext(w) /\ UNCHANGED <<snap, cached, batch>>
    BY <1>14 DEF TakeCpu, TakeNext
  <2>2. pc'[w] = "loop" /\ \A v \in Workers \ {w} : pc'[v] = pc[v]
    BY <1>3, <1>14 DEF TakeCpu
  <2>3. /\ \A v \in Workers \ {w} : pend'[v] = pend[v] /\ job'[v] = job[v]
        /\ pend'[w].wins # {} => pend'[w].gen = chunk[w].gen
        /\ job'[w].unmarked = {}
        /\ job'[w].todo # {} => job'[w].gen = chunk[w].gen
    BY <1>12, <1>13, <1>14, <2>1 DEF TakeCpu
  <2>4. Mine(w)'
    BY <1>1, <1>12, <2>1, <2>2, <2>3 DEF Busy
  <2> QED
    BY <1>4, <1>12, <2>1, <2>2, <2>3, <2>4
<1>15. ASSUME NEW w \in Workers, TakeBatch(w) PROVE Discipline'
  <2>1. TakeNext(w) /\ UNCHANGED <<snap, cached, pend, job>>
    BY <1>15 DEF TakeBatch, TakeNext
  <2>2. /\ pc'[w] \in {"loop", "sieve"} /\ \A v \in Workers \ {w} : pc'[v] = pc[v]
        /\ batch'[w] = batch[w] \cup {NextWindow(w)}
        /\ \A v \in Workers \ {w} : batch'[v] = batch[v]
    BY <1>3, <1>15 DEF TakeBatch
  <2>3. Mine(w)'
    BY <1>1, <1>12, <2>1, <2>2 DEF Busy
  <2> QED
    BY <1>4, <1>12, <2>1, <2>2, <2>3
<1>16. ASSUME NEW w \in Workers, SieveOne(w) PROVE Discipline'
  <2>1. PICK f \in batch[w] : /\ batch' = [batch EXCEPT ![w] = @ \ {f}]
                              /\ \E x \in f.wins : Sieved(w, f, x)
    BY <1>16 DEF SieveOne
  <2>2. UNCHANGED <<pc, snap, chunk, cached>> /\ ~Busy(w) /\ pc[w] \in SieveFlush
    BY <1>16 DEF SieveOne
  <2>3. f \in Flights /\ f.gen = chunk[w].gen
    BY <1>1, FieldTypes
  <2>4. /\ \A v \in Workers \ {w} : pend'[v] = pend[v] /\ job'[v] = job[v]
        /\ pend'[w].wins # {} => pend'[w].gen = chunk[w].gen
        /\ job'[w].unmarked = {}
        /\ job'[w].todo # {} => job'[w].gen = chunk[w].gen
    BY <1>13, <2>1, <2>2, <2>3
  <2>5. batch'[w] \subseteq batch[w] /\ \A v \in Workers \ {w} : batch'[v] = batch[v]
    BY <1>3, <2>1
  <2>6. Mine(w)'
    BY <1>1, <2>2, <2>4, <2>5 DEF Busy, SieveFlush
  <2> QED
    BY <1>4, <2>2, <2>4, <2>5, <2>6
<1>17. ASSUME NEW w \in Workers, FlushPending(w) PROVE Discipline'
  <2>1. /\ pend'[w].wins = {} /\ job'[w].gen = pend[w].gen /\ job'[w].unmarked = {}
        /\ \A v \in Workers \ {w} : pend'[v] = pend[v] /\ job'[v] = job[v]
    BY <1>3, <1>17 DEF FlushPending, Process, Job, Emptied, Flights
  <2>2. /\ UNCHANGED <<pc, snap, chunk, cached, batch>> /\ pend[w].wins # {}
        /\ pc[w] \in {"turn", "drain", "exit"}
    BY <1>17 DEF FlushPending
  <2>3. Mine(w)'
    BY <1>1, <2>1, <2>2 DEF Busy
  <2> QED
    BY <1>4, <2>1, <2>2, <2>3
<1>18. ASSUME NEW w \in Workers, Scan(w) \/ Mark(w) PROVE Discipline'
  <2>1. /\ Busy(w) /\ job'[w].gen = job[w].gen /\ (\A x, y \in job'[w].unmarked : x = y)
        /\ \A v \in Workers \ {w} : job'[v] = job[v]
    <3>1. CASE Scan(w)
      <4>1. \E x \in job[w].todo : job' = [job EXCEPT ![w].todo = @ \ {x}, ![w].unmarked = {x}]
        BY <3>1 DEF Scan
      <4> QED
        BY <1>3, <4>1 DEF Jobs, Busy
    <3>2. CASE Mark(w)
      BY <1>3, <3>2 DEF Mark, Jobs, Busy
    <3> QED
      BY <1>18, <3>1, <3>2
  <2>2. UNCHANGED <<pc, snap, chunk, cached, pend, batch>>
    BY <1>18 DEF Scan, Mark
  <2>3. Mine(w)'
    BY <1>1, <2>1, <2>2
  <2> QED
    BY <1>4, <2>1, <2>2, <2>3
<1>19. CASE UNCHANGED workerVars
  BY <1>1, <1>2, <1>19 DEF Busy
<1>20. CASE NewWork \/ CheckExhausted \/ Rotate \/ TakeGap \/ RequestStop \/ UNCHANGED vars
  BY <1>19, <1>20 DEF NewWork, CheckExhausted, Rotate, TakeGap, RequestStop, vars
<1> QED
  BY <1>5, <1>6, <1>8, <1>9, <1>10, <1>11, <1>14, <1>15, <1>16, <1>17, <1>18, <1>20
     DEF FarmNext, Worker, Terminated

-----------------------------------------------------------------------------
(* The account of the windows                                               *)

\* A worker between two generations still holds a chunk of an old one.
LEMMA TurnsStep ==
  ASSUME TypeOK, Provenance, TurnsFromOld, [FarmNext]_vars
  PROVE  TurnsFromOld'
<1> USE DEF farmVars, workerVars, history
<1>1. ASSUME NEW w \in Workers, Snapshot(w) PROVE TurnsFromOld'
  <2>1. chunk[w].gen # gen => chunk[w].gen < gen
    BY FieldTypes DEF Provenance
  <2>2. pc'[w] = "turn" => chunk[w].gen # gen
    BY <1>1 DEF Snapshot, TypeOK
  <2> QED
    BY <1>1, <2>1, <2>2 DEF Snapshot, TurnsFromOld, TypeOK
<1>2. ASSUME NEW w \in Workers, Worker(w), ~Snapshot(w) PROVE TurnsFromOld'
  <2>1. gen' = gen /\ \A v \in Workers : pc'[v] = "turn" => pc[v] = "turn"
    <3> DEFINE Elsewhere == {"window", "drain", "loop", "sieve", "reshape", "admit", "wait",
                             "exit", "done"}
    <3>1. \/ UNCHANGED pc
          \/ pc' = [pc EXCEPT ![w] = pc'[w]] /\ pc'[w] \in Elsewhere
      <4>1. pc \in [Workers -> Places]
        BY DEF TypeOK
      <4>2. CASE Adopt(w) \/ ClaimNothing(w) \/ Reshape(w) \/ Drained(w)
        BY <4>1, <4>2 DEF Adopt, ClaimNothing, Reshape, Drained
      <4>3. CASE TakeCpu(w) \/ TakeBatch(w) \/ SieveDone(w)
        BY <4>1, <4>3 DEF TakeCpu, TakeBatch, SieveDone
      <4>4. CASE Wake(w) \/ LeaveLoop(w) \/ Exit(w)
        BY <4>1, <4>4 DEF Wake, LeaveLoop, Exit
      <4>5. CASE Claim(w) \/ SieveOne(w) \/ SieveFails(w) \/ FlushPending(w) \/ Scan(w) \/ Mark(w)
        BY <4>5 DEF Claim, SieveOne, SieveFails, FlushPending, Scan, Mark
      <4> QED
        BY <1>2, <4>2, <4>3, <4>4, <4>5 DEF Worker
    <3>2. gen' = gen
      BY <1>2 DEF Worker, Adopt, ClaimNothing, Claim, TakeCpu, TakeBatch, TakeNext, Reshape, SieveOne,
                  SieveFails, SieveDone, FlushPending, Scan, Mark, Drained, Wake, LeaveLoop, Exit
    <3> QED
      BY <3>1, <3>2 DEF TypeOK
  <2>2. \A v \in Workers : chunk'[v].gen = chunk[v].gen \/ pc'[v] # "turn"
    <3>1. CASE Adopt(w)
      BY <3>1 DEF Adopt, TypeOK
    <3>2. CASE Claim(w) \/ TakeNext(w)
      <4>1. chunk \in [Workers -> Chunks]
        BY DEF TypeOK
      <4> QED
        BY <3>2, <4>1 DEF Claim, TakeNext, Chunks
    <3>3. CASE UNCHANGED chunk
      BY <3>3
    <3> QED
      BY <1>2, <3>1, <3>2, <3>3
         DEF Worker, ClaimNothing, TakeCpu, TakeBatch, Reshape, SieveOne,
             SieveFails, SieveDone, FlushPending, Scan, Mark, Drained, Wake, LeaveLoop, Exit
  <2> QED
    BY <2>1, <2>2 DEF TurnsFromOld
<1>3. ASSUME UNCHANGED <<pc, chunk>>, gen' = gen \/ gen' = gen + 1 PROVE TurnsFromOld'
  BY <1>3, FieldTypes DEF TurnsFromOld
<1>4. CASE NewWork \/ CheckExhausted \/ Rotate \/ TakeGap \/ RequestStop \/ UNCHANGED vars
  BY <1>3, <1>4 DEF NewWork, CheckExhausted, Rotate, TakeGap, RequestStop, UpdateWork, vars
<1> QED
  BY <1>1, <1>2, <1>4 DEF FarmNext, Terminated

\* A worker whose chunk is of an old generation holds nothing of the active
\* header.
LEMMA Stale ==
  ASSUME Discipline, NEW w \in Workers, chunk[w].gen # gen
  PROVE  /\ InChunk(w) = {} /\ InBatch(w) = {} /\ InPend(w) = {}
         /\ InTodo(w) = {} /\ InMark(w) = {} /\ Held(w) = {}
<1>1. InChunk(w) = {}
  BY DEF InChunk
<1>2. InBatch(w) = {}
  BY DEF InBatch, Discipline
<1>3. InPend(w) = {}
  BY DEF InPend, Discipline
<1>4. InTodo(w) = {} /\ InMark(w) = {}
  BY DEF InTodo, InMark, Discipline, Busy
<1> QED
  BY <1>1, <1>2, <1>3, <1>4 DEF Held

\* The same in the next state: a worker whose chunk is of an old generation holds
\* no window of this one.
LEMMA StaleNext ==
  ASSUME Discipline', NEW w \in Workers, chunk'[w].gen # gen'
  PROVE  Held(w)' = {} /\ Apart(w)'
<1>1. (InChunk(w) = {})'
  BY DEF InChunk
<1>2. (InBatch(w) = {})'
  BY DEF InBatch, Discipline
<1>3. (InPend(w) = {})'
  BY DEF InPend, Discipline
<1>4. (InTodo(w) = {} /\ InMark(w) = {})'
  BY DEF InTodo, InMark, Discipline, Busy
<1> QED
  BY <1>1, <1>2, <1>3, <1>4 DEF Held, Apart

\* What a worker of the active generation holds, store by store.
LEMMA Live ==
  ASSUME Discipline, TypeOK, NEW w \in Workers, chunk[w].gen = gen
  PROVE  /\ InChunk(w) = {x \in Windows : chunk[w].next <= x /\ x < chunk[w].end}
         /\ InBatch(w) = UNION {f.wins : f \in batch[w]}
         /\ InPend(w) = pend[w].wins
         /\ InTodo(w) = job[w].todo /\ InMark(w) = job[w].unmarked
<1>1. InBatch(w) = UNION {f.wins : f \in batch[w]}
  BY DEF InBatch, Discipline, TypeOK, Singles, Flights
<1>2. InPend(w) = pend[w].wins
  BY DEF InPend, Discipline
<1>3. InTodo(w) = job[w].todo /\ InMark(w) = job[w].unmarked
  BY DEF InTodo, InMark, Discipline, Busy
<1> QED
  BY <1>1, <1>2, <1>3 DEF InChunk

\* The same in the next state: a worker whose chunk is of this generation holds
\* what its stores name.
LEMMA LiveNext ==
  ASSUME Discipline', TypeOK', NEW w \in Workers, chunk'[w].gen = gen'
  PROVE  /\ InChunk(w)' = {x \in Windows : chunk'[w].next <= x /\ x < chunk'[w].end}
         /\ InBatch(w)' = UNION {f.wins : f \in batch'[w]}
         /\ InPend(w)' = pend'[w].wins
         /\ InTodo(w)' = job'[w].todo /\ InMark(w)' = job'[w].unmarked
<1>1. InBatch(w)' = UNION {f.wins : f \in batch'[w]}
  BY DEF InBatch, Discipline, TypeOK, Singles, Flights
<1>2. InPend(w)' = pend'[w].wins
  BY DEF InPend, Discipline
<1>3. InTodo(w)' = job'[w].todo /\ InMark(w)' = job'[w].unmarked
  BY DEF InTodo, InMark, Discipline, Busy
<1> QED
  BY <1>1, <1>2, <1>3 DEF InChunk

\* Whoever leaves its stores alone while the work stays holds what it held.
LEMMA SameStores ==
  ASSUME NEW w \in Workers, gen' = gen,
         chunk'[w] = chunk[w], batch'[w] = batch[w], pend'[w] = pend[w], job'[w] = job[w]
  PROVE  Held(w)' = Held(w) /\ (Apart(w)' <=> Apart(w))
<1>1. /\ InChunk(w)' = InChunk(w) /\ InBatch(w)' = InBatch(w) /\ InPend(w)' = InPend(w)
      /\ InTodo(w)' = InTodo(w) /\ InMark(w)' = InMark(w)
  BY DEF InChunk, InBatch, InPend, InTodo, InMark
<1> QED
  BY <1>1 DEF Held, Apart

\* Windows can be counted.
LEMMA DoneFinite ==
  ASSUME TypeOK
  PROVE  IsFiniteSet(Windows) /\ Cardinality(Windows) = NumWindows /\ IsFiniteSet(Of("done"))
<1>1. IsFiniteSet(Windows) /\ Cardinality(Windows) = NumWindows
  <2>1. 0 \in Int /\ NumWindows - 1 \in Int /\ ~(0 > NumWindows - 1)
        /\ (NumWindows - 1) - 0 + 1 = NumWindows
    BY FarmAssumption
  <2> QED
    BY <2>1, FS_Interval DEF Windows
<1>2. Of("done") \in SUBSET Windows
  BY DEF Of
<1> QED
  BY <1>1, <1>2, FS_Subset

\* Moving windows between a worker's own stores keeps the account ...
LEMMA MoveKeepsAccount ==
  ASSUME WindowsAccounted, NEW w \in Workers, UNCHANGED <<gen, owner, nonce, completed>>,
         \A v \in Workers \ {w} : /\ chunk'[v] = chunk[v] /\ batch'[v] = batch[v]
                                  /\ pend'[v] = pend[v] /\ job'[v] = job[v],
         Held(w)' = Held(w), Apart(w)'
  PROVE  WindowsAccounted'
<1>1. \A s : Of(s)' = Of(s)
  BY DEF Of
<1>2. \A v \in Workers : Of(v)' = Held(v)' /\ Apart(v)'
  BY <1>1, SameStores DEF WindowsAccounted
<1> QED
  BY <1>1, <1>2 DEF WindowsAccounted

\* ... and so does counting one of them.
LEMMA CountKeepsAccount ==
  ASSUME TypeOK, WindowsAccounted, NEW w \in Workers, UNCHANGED <<gen, nonce>>,
         \A v \in Workers \ {w} : /\ chunk'[v] = chunk[v] /\ batch'[v] = batch[v]
                                  /\ pend'[v] = pend[v] /\ job'[v] = job[v],
         NEW x \in Held(w), Held(w)' = Held(w) \ {x}, Apart(w)',
         completed' = completed + 1, owner' = [owner EXCEPT ![x] = "done"]
  PROVE  WindowsAccounted'
<1>1. x \in Windows /\ owner[x] = w /\ Of(w) = Held(w)
  BY DEF WindowsAccounted, Of
<1>2. w # "done" /\ w # "free" /\ \A v \in Workers : v # "done"
  BY FarmAssumption
<1>3. \A y \in Windows : owner'[y] = IF y = x THEN "done" ELSE owner[y]
  BY DEF TypeOK
<1>4. Of(w)' = Of(w) \ {x}
  BY <1>1, <1>2, <1>3 DEF Of
<1>5. \A v \in Workers \ {w} : Of(v)' = Of(v)
  BY <1>1, <1>2, <1>3 DEF Of
<1>6. Of("done")' = Of("done") \cup {x} /\ x \notin Of("done")
  BY <1>1, <1>2, <1>3 DEF Of
<1>7. completed' = Cardinality(Of("done"))'
  BY <1>6, DoneFinite, FS_AddElement DEF WindowsAccounted
<1>8. \A y \in Windows : owner'[y] = "free" <=> y >= nonce'
  BY <1>1, <1>2, <1>3 DEF WindowsAccounted
<1>9. \A v \in Workers : Of(v)' = Held(v)' /\ Apart(v)'
  BY <1>1, <1>4, <1>5, SameStores DEF WindowsAccounted
<1> QED
  BY <1>7, <1>8, <1>9 DEF WindowsAccounted

\* The next window leaves the chunk.
LEMMA TakeNextEffect ==
  ASSUME TypeOK, NEW w \in Workers, TakeNext(w)
  PROVE  /\ UNCHANGED <<gen, nonce>>
         /\ \A v \in Workers \ {w} : chunk'[v] = chunk[v]
         /\ chunk'[w].gen = chunk[w].gen
         /\ chunk'[w].end = chunk[w].end /\ chunk'[w].next = chunk[w].next + 1
         /\ chunk[w].next \in Windows /\ chunk[w].next < chunk[w].end
         /\ LET inside(c) == {x \in Windows : c.next <= x /\ x < c.end}
            IN  inside(chunk'[w]) = inside(chunk[w]) \ {chunk[w].next}
<1>1. chunk \in [Workers -> Chunks]
  BY DEF TypeOK
<1>2. /\ UNCHANGED <<gen, nonce>>
      /\ \A v \in Workers \ {w} : chunk'[v] = chunk[v]
      /\ chunk'[w].gen = chunk[w].gen
      /\ chunk'[w].end = chunk[w].end /\ chunk'[w].next = chunk[w].next + 1
      /\ chunk[w].next < chunk[w].end
  BY <1>1 DEF TakeNext, Chunks
<1>3. chunk[w].next \in Windows
  BY <1>2, NextWindowType
<1>4. \A x \in Windows : chunk[w].next + 1 <= x <=> chunk[w].next <= x /\ x # chunk[w].next
  BY FieldTypes, FarmAssumption DEF Windows
<1> QED
  BY <1>2, <1>3, <1>4

\* A sieved window x that leaves the chunk or the sieve batch of w either joins
\* the Fermat batch or the running job, or is counted.
LEMMA SievedAccount ==
  ASSUME TypeOK, TypeOK', Discipline, Discipline', WindowsAccounted,
         NEW w \in Workers, NEW x \in Windows, NEW f \in Flights,
         f.wins = {x}, f.gen = chunk[w].gen, chunk'[w].gen = chunk[w].gen,
         Sieved(w, f, x), ~Busy(w), UNCHANGED <<gen, nonce>>,
         \A v \in Workers \ {w} : chunk'[v] = chunk[v] /\ batch'[v] = batch[v],
         chunk[w].gen = gen => /\ x \in InChunk(w) \cup InBatch(w)
                               /\ InChunk(w)' = InChunk(w) \ {x}
                               /\ InBatch(w)' = InBatch(w) \ {x}
  PROVE  WindowsAccounted'
<1>1. CASE Dispatch(w, f) /\ UNCHANGED <<completed, owner, scanned>>
  <2>1. /\ \A v \in Workers \ {w} : pend'[v] = pend[v] /\ job'[v] = job[v]
        /\ pend'[w].wins \cup job'[w].todo = pend[w].wins \cup {x}
        /\ pend[w].wins \cap {x} = {} => pend'[w].wins \cap job'[w].todo = {}
        /\ job'[w].unmarked = {}
    BY <1>1, DispatchEffect DEF Discipline
  <2>2. job[w].todo = {} /\ job[w].unmarked = {}
    BY DEF Busy
  <2>3. CASE chunk[w].gen = gen
    <3>1. /\ InPend(w) = pend[w].wins /\ InTodo(w) = {} /\ InMark(w) = {}
          /\ InPend(w)' = pend'[w].wins /\ InTodo(w)' = job'[w].todo /\ InMark(w)' = {}
      BY <2>1, <2>2, <2>3, Live, LiveNext
    <3>2. Apart(w)
      BY DEF WindowsAccounted
    <3>3. x \notin InPend(w)
      BY <2>3, <3>2 DEF Apart
    <3>4. Held(w)' = Held(w)
      BY <2>1, <2>3, <3>1 DEF Held
    <3>5. Apart(w)'
      BY <2>1, <2>3, <3>1, <3>2, <3>3 DEF Apart
    <3> QED
      BY <1>1, <2>1, <3>4, <3>5, MoveKeepsAccount
  <2>4. CASE chunk[w].gen # gen
    BY <1>1, <2>1, <2>4, Stale, StaleNext, MoveKeepsAccount
  <2> QED
    BY <2>3, <2>4
<1>2. CASE MarkComplete(f, x) /\ Searched(f, x) /\ UNCHANGED <<pend, job>>
  <2>1. \A v \in Workers \ {w} : pend'[v] = pend[v] /\ job'[v] = job[v]
    BY <1>2
  <2>2. CASE chunk[w].gen = gen
    <3>1. completed' = completed + 1 /\ owner' = [owner EXCEPT ![x] = "done"]
      BY <1>2, <2>2 DEF MarkComplete
    <3>2. Apart(w)
      BY DEF WindowsAccounted
    <3>3. /\ InPend(w)' = InPend(w) /\ InTodo(w)' = InTodo(w) /\ InMark(w)' = InMark(w)
      BY <1>2 DEF InPend, InTodo, InMark
    <3>4. x \in Held(w) /\ Held(w)' = Held(w) \ {x} /\ Apart(w)'
      BY <2>2, <3>2, <3>3 DEF Held, Apart
    <3> QED
      BY <2>1, <3>1, <3>4, CountKeepsAccount
  <2>3. CASE chunk[w].gen # gen
    <3>1. UNCHANGED <<completed, owner>>
      BY <1>2, <2>3 DEF MarkComplete
    <3> QED
      BY <2>1, <2>3, <3>1, Stale, StaleNext, MoveKeepsAccount
  <2> QED
    BY <2>2, <2>3
<1> QED
  BY <1>1, <1>2 DEF Sieved

\* Fresh work: every window is free, nobody holds any.
LEMMA UpdateAccount ==
  ASSUME TypeOK, Provenance, Discipline, Discipline', NEW h, UpdateWork(h), UNCHANGED workerVars
  PROVE  WindowsAccounted'
<1>1. \A w \in Workers : chunk'[w].gen # gen'
  BY FieldTypes DEF Provenance, UpdateWork, workerVars
<1>2. \A w \in Workers : Held(w)' = {} /\ Apart(w)'
  BY <1>1, StaleNext
<1>3. owner' = [x \in Windows |-> "free"] /\ nonce' = 0 /\ completed' = 0
  BY DEF UpdateWork
<1>4. \A w \in Workers : Of(w)' = {}
  BY <1>3, FarmAssumption DEF Of
<1>5. Of("done")' = {}
  BY <1>3 DEF Of
<1>6. \A x \in Windows : owner'[x] = "free" <=> x >= nonce'
  BY <1>3 DEF Windows
<1> QED
  BY <1>2, <1>3, <1>4, <1>5, <1>6, FS_EmptySet DEF WindowsAccounted

\* Claiming: the free windows from nonce on go to w, or to nobody.
LEMMA ClaimAccount ==
  ASSUME TypeOK, TypeOK', Discipline, Discipline', WindowsAccounted, NEW w \in Workers, Claim(w)
  PROVE  WindowsAccounted'
<1> DEFINE New == {x \in Windows : nonce <= x /\ x < nonce + ClaimSize}
<1>1. /\ UNCHANGED <<gen, completed, pc, snap, cached, batch, pend, job>>
      /\ nonce' = nonce + ClaimSize /\ pc[w] = "window" /\ chunk[w].next = chunk[w].end
      /\ nonce < NumWindows
  BY DEF Claim
<1>2. /\ chunk'[w].gen = chunk[w].gen /\ chunk'[w].next = nonce
      /\ chunk'[w].end = nonce + ClaimSize
      /\ \A v \in Workers \ {w} : chunk'[v] = chunk[v]
  <2>1. chunk \in [Workers -> Chunks]
    BY DEF TypeOK
  <2> QED
    BY <2>1 DEF Claim, Chunks
<1>3. chunk[w].gen = snap[w].gen
  BY <1>1 DEF Discipline
<1>4. ClaimSize \in Nat
  BY <1>1, FieldTypes, FarmAssumption DEF ClaimSize
<1>5. \A x \in Windows : owner'[x] = IF x \notin New THEN owner[x]
                                     ELSE IF chunk[w].gen = gen THEN w ELSE "stolen"
  BY <1>3, <1>4, FieldTypes DEF Claim, Windows
<1>6. \A x \in New : owner[x] = "free"
  BY DEF WindowsAccounted
<1>7. w \notin {"free", "stolen", "done"} /\ \A v \in Workers : v \notin {"free", "stolen", "done"}
  BY FarmAssumption
<1>8. \A x \in Windows : owner'[x] = "free" <=> x >= nonce'
  BY <1>1, <1>4, <1>5, <1>7, FieldTypes DEF WindowsAccounted, Windows
<1>9. Of("done")' = Of("done")
  BY <1>5, <1>6, <1>7 DEF Of
<1>10. \A v \in Workers \ {w} : Of(v)' = Of(v)
  BY <1>5, <1>6, <1>7 DEF Of
<1>11. \A v \in Workers \ {w} : Of(v)' = Held(v)' /\ Apart(v)'
  BY <1>1, <1>2, <1>10, SameStores DEF WindowsAccounted
<1>12. Of(w)' = Held(w)' /\ Apart(w)'
  <2>1. CASE chunk[w].gen = gen
    <3>1. Of(w)' = Of(w) \cup New
      BY <1>5, <1>6, <1>7, <2>1 DEF Of
    <3>2. InChunk(w) = {}
      BY <1>1, <2>1, FieldTypes DEF InChunk, Windows
    <3>3. InChunk(w)' = New
      BY <1>1, <1>2, <2>1 DEF InChunk
    <3>4. /\ InBatch(w)' = InBatch(w) /\ InPend(w)' = InPend(w)
          /\ InTodo(w)' = InTodo(w) /\ InMark(w)' = InMark(w)
      BY <1>1 DEF InBatch, InPend, InTodo, InMark
    <3>5. Of(w) = Held(w) /\ Apart(w)
      BY DEF WindowsAccounted
    <3>6. Of(w) \cap New = {}
      BY <1>6, <1>7 DEF Of
    <3>7. Held(w)' = Held(w) \cup New
      BY <3>2, <3>3, <3>4 DEF Held
    <3>8. Apart(w)'
      BY <3>3, <3>4, <3>5, <3>6 DEF Apart, Held
    <3> QED
      BY <3>1, <3>5, <3>7, <3>8
  <2>2. CASE chunk[w].gen # gen
    <3>1. Of(w)' = Of(w)
      BY <1>5, <1>6, <1>7, <2>2 DEF Of
    <3>2. Of(w) = {}
      BY <2>2, Stale DEF WindowsAccounted
    <3> QED
      BY <1>1, <1>2, <2>2, <3>1, <3>2, StaleNext
  <2> QED
    BY <2>1, <2>2
<1>13. completed' = Cardinality(Of("done"))'
  BY <1>1, <1>9 DEF WindowsAccounted
<1> QED
  BY <1>8, <1>11, <1>12, <1>13 DEF WindowsAccounted

\* No step loses a window of the current generation, or lets two workers have it.
LEMMA AccountStep ==
  ASSUME TypeOK, Provenance, Discipline, TurnsFromOld, WindowsAccounted, [FarmNext]_vars
  PROVE  WindowsAccounted'
<1> USE DEF farmVars, workerVars, history
<1>0. TypeOK' /\ Discipline'
  BY TypeStep, DisciplineStep
<1>1. ASSUME UNCHANGED <<gen, owner, nonce, completed, chunk, batch, pend, job>>
      PROVE  WindowsAccounted'
  <2>1. \A v \in Workers : Held(v)' = Held(v) /\ (Apart(v)' <=> Apart(v))
    BY <1>1, SameStores
  <2>2. \A s : Of(s)' = Of(s)
    BY <1>1 DEF Of
  <2> QED
    BY <1>1, <2>1, <2>2 DEF WindowsAccounted
<1>2. ASSUME NEW w \in Workers,
             \/ Snapshot(w) \/ ClaimNothing(w) \/ Reshape(w) \/ SieveFails(w) \/ SieveDone(w)
             \/ Drained(w) \/ Wake(w) \/ LeaveLoop(w) \/ Exit(w)
      PROVE  WindowsAccounted'
  BY <1>1, <1>2 DEF Snapshot, ClaimNothing, Reshape, SieveFails, SieveDone, Drained, Wake,
                    LeaveLoop, Exit
<1>3. ASSUME NEW w \in Workers, Adopt(w) PROVE WindowsAccounted'
  <2>1. /\ UNCHANGED <<gen, owner, nonce, completed, batch, pend, job>> /\ ~Busy(w)
        /\ batch[w] = {} /\ pend[w].wins = {} /\ pc[w] = "turn"
    BY <1>3 DEF Adopt
  <2>2. chunk'[w].next = 0 /\ chunk'[w].end = 0 /\ \A v \in Workers \ {w} : chunk'[v] = chunk[v]
    BY <1>3 DEF Adopt, TypeOK
  <2>3. Held(w) = {}
    BY <2>1, FieldTypes, Stale DEF TurnsFromOld
  <2>4. InChunk(w)' = {}
    BY <2>2 DEF InChunk, Windows
  <2>5. InBatch(w)' = {} /\ InPend(w)' = {} /\ InTodo(w)' = {} /\ InMark(w)' = {}
    BY <2>1 DEF InBatch, InPend, InTodo, InMark, Busy
  <2>6. Held(w)' = {} /\ Apart(w)'
    BY <2>4, <2>5 DEF Held, Apart
  <2> QED
    BY <2>1, <2>2, <2>3, <2>6, MoveKeepsAccount
<1>4. ASSUME NEW w \in Workers, Claim(w) PROVE WindowsAccounted'
  BY <1>0, <1>4, ClaimAccount
<1>5. ASSUME NEW w \in Workers, TakeNext(w)
      PROVE  /\ ~Busy(w) /\ NextWindow(w) \in Flights /\ NextWindow(w).wins = {chunk[w].next}
             /\ NextWindow(w).gen = chunk[w].gen /\ chunk'[w].gen = chunk[w].gen
             /\ chunk[w].gen = gen => /\ chunk[w].next \in InChunk(w)
                                      /\ InChunk(w)' = InChunk(w) \ {chunk[w].next}
  <2>1. pc[w] \in {"window", "admit"} /\ chunk[w].next < chunk[w].end
    BY <1>5 DEF TakeNext
  <2>2. ~Busy(w) /\ chunk[w].gen = snap[w].gen
    BY <2>1 DEF Discipline
  <2>3. NextWindow(w).gen = snap[w].gen
    BY DEF NextWindow, Flight
  <2>4. chunk[w].gen = gen => /\ chunk[w].next \in InChunk(w)
                              /\ InChunk(w)' = InChunk(w) \ {chunk[w].next}
    BY <1>5, TakeNextEffect, FieldTypes DEF InChunk
  <2> QED
    BY <1>5, <2>1, <2>2, <2>3, <2>4, NextWindowType, TakeNextEffect
<1>6. ASSUME NEW w \in Workers, TakeCpu(w) PROVE WindowsAccounted'
  <2>1. TakeNext(w) /\ UNCHANGED batch /\ Sieved(w, NextWindow(w), chunk[w].next)
    BY <1>6 DEF TakeCpu
  <2>2. chunk[w].gen = gen => InBatch(w)' = InBatch(w) \ {chunk[w].next}
    <3>1. chunk[w].gen = gen => InBatch(w)' = InBatch(w)
      BY <2>1, TakeNextEffect DEF InBatch
    <3>2. chunk[w].gen = gen => chunk[w].next \notin InBatch(w)
      BY <1>5, <2>1 DEF WindowsAccounted, Apart
    <3> QED
      BY <3>1, <3>2
  <2> QED
    BY <1>0, <1>5, <2>1, <2>2, TakeNextEffect, SievedAccount
<1>7. ASSUME NEW w \in Workers, TakeBatch(w) PROVE WindowsAccounted'
  <2>1. TakeNext(w) /\ UNCHANGED <<completed, pend, job, owner>>
    BY <1>7 DEF TakeBatch
  <2>2. batch'[w] = batch[w] \cup {NextWindow(w)} /\ \A v \in Workers \ {w} : batch'[v] = batch[v]
    BY <1>7 DEF TakeBatch, TypeOK
  <2>3. CASE chunk[w].gen = gen
    <3>1. InBatch(w)' = InBatch(w) \cup {chunk[w].next}
      <4>1. gen' = gen /\ NextWindow(w).wins = {chunk[w].next} /\ NextWindow(w).gen = gen
            /\ chunk[w].next \in Windows
        BY <1>5, <2>1, <2>3, TakeNextEffect
      <4> QED
        BY <2>2, <4>1 DEF InBatch
    <3>2. /\ InPend(w)' = InPend(w) /\ InTodo(w)' = InTodo(w) /\ InMark(w)' = InMark(w)
      BY <2>1, TakeNextEffect DEF InPend, InTodo, InMark
    <3>3. Apart(w)
      BY DEF WindowsAccounted
    <3>4. Held(w)' = Held(w)
      BY <1>5, <2>1, <2>3, <3>1, <3>2 DEF Held
    <3>5. Apart(w)'
      BY <1>5, <2>1, <2>3, <3>1, <3>2, <3>3 DEF Apart
    <3> QED
      BY <2>1, <2>2, <3>4, <3>5, TakeNextEffect, MoveKeepsAccount
  <2>4. CASE chunk[w].gen # gen
    BY <1>0, <2>1, <2>2, <2>4, TakeNextEffect, Stale, StaleNext, MoveKeepsAccount
  <2> QED
    BY <2>3, <2>4
<1>8. ASSUME NEW w \in Workers, SieveOne(w) PROVE WindowsAccounted'
  <2>1. PICK f \in batch[w] : /\ batch' = [batch EXCEPT ![w] = @ \ {f}]
                              /\ \E x \in f.wins : Sieved(w, f, x)
    BY <1>8 DEF SieveOne
  <2>2. UNCHANGED <<gen, nonce, chunk>> /\ ~Busy(w)
    BY <1>8 DEF SieveOne
  <2>3. PICK x \in f.wins : Sieved(w, f, x)
    BY <2>1
  <2>4. f \in Flights /\ x \in Windows /\ f.wins = {x} /\ f.gen = chunk[w].gen
    BY <2>3 DEF TypeOK, Singles, Discipline
  <2>5. batch'[w] = batch[w] \ {f} /\ \A v \in Workers \ {w} : batch'[v] = batch[v]
    BY <2>1 DEF TypeOK
  \* One flight of the active generation per window: they differ in nothing else.
  <2>6. \A g \in batch[w] : chunk[w].gen = gen /\ x \in g.wins => g = f
    <3>1. ASSUME NEW g \in batch[w], chunk[w].gen = gen, x \in g.wins PROVE g = f
      <4>1. g \in Flights /\ g.wins = {x} /\ g.gen = gen /\ g.hdr = work
        BY <3>1 DEF TypeOK, Singles, Discipline, Provenance, Tagged
      <4>2. f.gen = gen /\ f.hdr = work
        BY <2>4, <3>1 DEF Provenance, Tagged
      <4> QED
        BY <2>4, <4>1, <4>2 DEF Flights
    <3> QED
      BY <3>1
  <2>7. chunk[w].gen = gen => /\ x \in InChunk(w) \cup InBatch(w)
                              /\ InChunk(w)' = InChunk(w) \ {x}
                              /\ InBatch(w)' = InBatch(w) \ {x}
    <3>1. chunk[w].gen = gen => x \in InBatch(w) /\ InBatch(w)' = InBatch(w) \ {x}
      BY <2>2, <2>4, <2>5, <2>6 DEF InBatch, TypeOK, Singles
    <3>2. InChunk(w)' = InChunk(w)
      BY <2>2 DEF InChunk
    <3>3. Apart(w)
      BY DEF WindowsAccounted
    <3>4. chunk[w].gen = gen => x \notin InChunk(w)
      BY <3>1, <3>3 DEF Apart
    <3> QED
      BY <3>1, <3>2, <3>4
  <2> QED
    BY <1>0, <2>2, <2>3, <2>4, <2>5, <2>7, SievedAccount
<1>9. ASSUME NEW w \in Workers, FlushPending(w) PROVE WindowsAccounted'
  <2>1. /\ pend'[w].wins = {} /\ job'[w].todo = pend[w].wins /\ job'[w].unmarked = {}
        /\ pend'[w].gen = pend[w].gen /\ job'[w].gen = pend[w].gen
        /\ \A v \in Workers \ {w} : pend'[v] = pend[v] /\ job'[v] = job[v]
    BY <1>9 DEF FlushPending, Process, Job, Emptied, Flights, TypeOK
  <2>2. UNCHANGED <<gen, nonce, completed, owner, chunk, batch>> /\ ~Busy(w)
    BY <1>9 DEF FlushPending
  <2>3. InTodo(w) = {} /\ InMark(w) = {}
    BY <2>2 DEF InTodo, InMark, Busy
  <2>4. InPend(w)' = {} /\ InTodo(w)' = InPend(w) /\ InMark(w)' = {}
    BY <2>1, <2>2 DEF InPend, InTodo, InMark
  <2>5. InChunk(w)' = InChunk(w) /\ InBatch(w)' = InBatch(w)
    BY <2>2 DEF InChunk, InBatch
  <2>6. Apart(w)
    BY DEF WindowsAccounted
  <2>7. Held(w)' = Held(w) /\ Apart(w)'
    BY <2>3, <2>4, <2>5, <2>6 DEF Held, Apart
  <2> QED
    BY <2>1, <2>2, <2>7, MoveKeepsAccount
<1>10. ASSUME NEW w \in Workers, Scan(w) PROVE WindowsAccounted'
  <2>1. PICK x \in job[w].todo : job' = [job EXCEPT ![w].todo = @ \ {x}, ![w].unmarked = {x}]
    BY <1>10 DEF Scan
  <2>2. /\ UNCHANGED <<gen, nonce, completed, owner, chunk, batch, pend>>
        /\ job[w].unmarked = {}
    BY <1>10 DEF Scan
  <2>3. /\ job'[w].gen = job[w].gen /\ job'[w].todo = job[w].todo \ {x}
        /\ job'[w].unmarked = {x} /\ \A v \in Workers \ {w} : job'[v] = job[v]
    BY <2>1 DEF TypeOK, Jobs
  <2>4. InTodo(w)' \cup InMark(w)' = InTodo(w) \cup InMark(w) /\ InTodo(w)' \cap InMark(w)' = {}
    BY <2>2, <2>3 DEF InTodo, InMark
  <2>5. InChunk(w)' = InChunk(w) /\ InBatch(w)' = InBatch(w) /\ InPend(w)' = InPend(w)
    BY <2>2 DEF InChunk, InBatch, InPend
  <2>6. Apart(w)
    BY DEF WindowsAccounted
  <2>7. Held(w)' = Held(w) /\ Apart(w)'
    BY <2>4, <2>5, <2>6 DEF Held, Apart
  <2> QED
    BY <2>2, <2>3, <2>7, MoveKeepsAccount
<1>11. ASSUME NEW w \in Workers, Mark(w) PROVE WindowsAccounted'
  <2>1. PICK x \in job[w].unmarked : MarkComplete(job[w], x)
    BY <1>11 DEF Mark
  <2>2. UNCHANGED <<gen, nonce, chunk, batch, pend>>
    BY <1>11 DEF Mark
  <2>3. /\ job'[w].gen = job[w].gen /\ job'[w].todo = job[w].todo /\ job'[w].unmarked = {}
        /\ \A v \in Workers \ {w} : job'[v] = job[v]
    BY <1>11 DEF Mark, TypeOK, Jobs
  <2>4. job[w].unmarked = {x} /\ x \in Windows /\ job[w].gen = chunk[w].gen
    BY <2>1 DEF Discipline, Busy, TypeOK, Jobs
  <2>5. /\ InChunk(w)' = InChunk(w) /\ InBatch(w)' = InBatch(w) /\ InPend(w)' = InPend(w)
        /\ InTodo(w)' = InTodo(w) /\ InMark(w)' = {}
    BY <2>2, <2>3 DEF InChunk, InBatch, InPend, InTodo, InMark
  <2>6. Apart(w) /\ Apart(w)'
    BY <2>5 DEF WindowsAccounted, Apart
  <2>7. CASE job[w].gen = gen
    <3>1. completed' = completed + 1 /\ owner' = [owner EXCEPT ![x] = "done"]
      BY <2>1, <2>7 DEF MarkComplete
    <3>2. InMark(w) = {x}
      BY <2>4, <2>7 DEF InMark
    <3>3. x \in Held(w) /\ Held(w)' = Held(w) \ {x}
      BY <2>5, <2>6, <3>2 DEF Held, Apart
    <3> QED
      BY <2>2, <2>3, <2>6, <3>1, <3>3, CountKeepsAccount
  <2>8. CASE job[w].gen # gen
    <3>1. UNCHANGED <<completed, owner>>
      BY <2>1, <2>8 DEF MarkComplete
    <3>2. Held(w) = {} /\ Held(w)' = {}
      BY <1>0, <2>2, <2>4, <2>8, Stale, StaleNext
    <3> QED
      BY <2>2, <2>3, <2>6, <3>1, <3>2, MoveKeepsAccount
  <2> QED
    BY <2>7, <2>8
<1>12. CASE NewWork
  BY <1>0, <1>12, UpdateAccount DEF NewWork
<1>13. CASE Rotate
  <2>1. CASE \E h \in NextHeaders : UpdateWork(h) /\ UNCHANGED stop
    BY <1>0, <1>13, <2>1, UpdateAccount DEF Rotate
  <2>2. CASE UNCHANGED <<work, gen, nonce, completed, history>>
    BY <1>1, <1>13, <2>2 DEF Rotate
  <2> QED
    BY <1>13, <2>1, <2>2 DEF Rotate
<1>14. CASE CheckExhausted \/ TakeGap \/ RequestStop \/ UNCHANGED vars
  BY <1>1, <1>14 DEF CheckExhausted, TakeGap, RequestStop, vars
<1> QED
  BY <1>2, <1>3, <1>4, <1>6, <1>7, <1>8, <1>9, <1>10, <1>11, <1>12, <1>13, <1>14
     DEF FarmNext, Worker, Terminated

-----------------------------------------------------------------------------
(* The searches, the queue and main's verdict                               *)

\* While the work stays, windows are only added to the searched ones, and a
\* window that is neither free nor stolen becomes neither.
LEMMA Monotone ==
  ASSUME TypeOK, Provenance, WindowsAccounted, [FarmNext]_vars, gen' = gen
  PROVE  /\ work' = work /\ scanned \subseteq scanned' /\ nonce' >= nonce /\ completed' >= completed
         /\ \A x \in Windows : /\ owner[x] \notin {"free", "stolen"} => owner'[x] \notin {"free", "stolen"}
                               /\ owner[x] # "done" /\ owner'[x] = "done" =>
                                    \/ x \in scanned'
                                    \/ \E w \in Workers : Mark(w) /\ job[w].gen = gen /\ x \in job[w].unmarked
<1> USE DEF farmVars, workerVars, history
<1>0. /\ gen \in Nat /\ nonce \in Nat /\ completed \in Nat /\ owner \in [Windows -> Owners]
      /\ \A w \in Workers : w \notin {"free", "stolen", "done"}
  BY FieldTypes, FarmAssumption DEF TypeOK
<1> DEFINE Kept == \A x \in Windows :
             /\ owner[x] \notin {"free", "stolen"} => owner'[x] \notin {"free", "stolen"}
             /\ owner[x] # "done" /\ owner'[x] = "done" =>
                  \/ x \in scanned'
                  \/ \E w \in Workers : Mark(w) /\ job[w].gen = gen /\ x \in job[w].unmarked
<1>1. ASSUME UNCHANGED <<work, scanned, nonce, completed, owner>>
      PROVE  /\ work' = work /\ scanned \subseteq scanned' /\ nonce' >= nonce /\ completed' >= completed
             /\ Kept
  BY <1>0, <1>1
<1>2. ASSUME NEW w \in Workers,
             \/ Snapshot(w) \/ Adopt(w) \/ ClaimNothing(w) \/ TakeBatch(w) \/ Reshape(w)
             \/ SieveFails(w) \/ SieveDone(w) \/ FlushPending(w) \/ Drained(w) \/ Wake(w)
             \/ LeaveLoop(w) \/ Exit(w)
      PROVE  UNCHANGED <<work, scanned, nonce, completed, owner>>
  BY <1>2 DEF Snapshot, Adopt, ClaimNothing, TakeBatch, TakeNext, Reshape, SieveFails, SieveDone,
              FlushPending, Drained, Wake, LeaveLoop, Exit
<1>3. ASSUME NEW w \in Workers, Claim(w)
      PROVE  /\ work' = work /\ scanned \subseteq scanned' /\ nonce' >= nonce /\ completed' >= completed
             /\ Kept
  <2>1. ClaimSize \in Nat
    BY <1>3, FieldTypes, FarmAssumption DEF Claim, ClaimSize
  <2>2. UNCHANGED <<work, scanned, completed>> /\ nonce' = nonce + ClaimSize
    BY <1>3 DEF Claim
  <2>3. \A x \in Windows : \/ owner'[x] = owner[x]
                           \/ x >= nonce /\ owner'[x] \in Workers \cup {"stolen"}
    BY <1>0, <1>3, <2>1 DEF Claim, Windows
  <2>4. \A x \in Windows : x >= nonce => owner[x] = "free"
    BY DEF WindowsAccounted
  <2> QED
    BY <1>0, <2>1, <2>2, <2>3, <2>4
\* The two ways a window is counted.
<1>4. ASSUME NEW f, NEW x \in Windows, MarkComplete(f, x), Tagged(f)
      PROVE  /\ completed' >= completed
             /\ \A y \in Windows : owner'[y] = owner[y] \/ (y = x /\ owner'[y] = "done" /\ f.gen = gen /\ f.hdr = work)
  BY <1>0, <1>4 DEF MarkComplete, Tagged
<1>5. ASSUME NEW w \in Workers, NEW f, NEW x \in Windows, Sieved(w, f, x), Tagged(f),
             UNCHANGED <<work, nonce>>
      PROVE  /\ work' = work /\ scanned \subseteq scanned' /\ nonce' >= nonce /\ completed' >= completed
             /\ Kept
  <2>1. CASE UNCHANGED <<completed, owner, scanned>>
    BY <1>1, <1>5, <2>1
  <2>2. CASE MarkComplete(f, x) /\ Searched(f, x)
    <3>1. scanned \subseteq scanned' /\ (f.gen = gen /\ f.hdr = work => x \in scanned')
      BY <2>2 DEF Searched
    <3> QED
      BY <1>0, <1>4, <1>5, <2>2, <3>1
  <2> QED
    BY <1>5, <2>1, <2>2 DEF Sieved
<1>6. ASSUME NEW w \in Workers, TakeCpu(w)
      PROVE  /\ work' = work /\ scanned \subseteq scanned' /\ nonce' >= nonce /\ completed' >= completed
             /\ Kept
  <2>1. /\ Sieved(w, NextWindow(w), chunk[w].next) /\ chunk[w].next \in Windows
        /\ UNCHANGED <<work, nonce>>
    BY <1>6, NextWindowType DEF TakeCpu, TakeNext
  <2>2. Tagged(NextWindow(w))
    BY DEF Provenance, Tagged, NextWindow, Flight
  <2> QED
    BY <1>5, <2>1, <2>2
<1>7. ASSUME NEW w \in Workers, SieveOne(w)
      PROVE  /\ work' = work /\ scanned \subseteq scanned' /\ nonce' >= nonce /\ completed' >= completed
             /\ Kept
  <2>1. PICK f \in batch[w] : \E x \in f.wins : Sieved(w, f, x)
    BY <1>7 DEF SieveOne
  <2>2. Tagged(f) /\ f.wins \subseteq Windows
    BY DEF Provenance, TypeOK, Singles, Flights
  <2>3. UNCHANGED <<work, nonce>>
    BY <1>7 DEF SieveOne
  <2> QED
    BY <1>5, <2>1, <2>2, <2>3
<1>8. ASSUME NEW w \in Workers, Scan(w)
      PROVE  /\ work' = work /\ scanned \subseteq scanned' /\ nonce' >= nonce /\ completed' >= completed
             /\ Kept
  <2>1. UNCHANGED <<work, nonce, completed, owner>> /\ scanned \subseteq scanned'
    BY <1>8 DEF Scan, Searched
  <2> QED
    BY <1>0, <2>1
<1>9. ASSUME NEW w \in Workers, Mark(w)
      PROVE  /\ work' = work /\ scanned \subseteq scanned' /\ nonce' >= nonce /\ completed' >= completed
             /\ Kept
  <2>1. PICK x \in job[w].unmarked : MarkComplete(job[w], x)
    BY <1>9 DEF Mark
  <2>2. x \in Windows /\ Tagged(job[w])
    BY DEF Provenance, TypeOK, Jobs
  <2>3. UNCHANGED <<work, nonce, scanned>>
    BY <1>9 DEF Mark
  <2>4. /\ completed' >= completed
        /\ \A y \in Windows : owner'[y] = owner[y] \/ (y = x /\ owner'[y] = "done" /\ job[w].gen = gen)
    BY <1>4, <2>1, <2>2
  <2> QED
    BY <1>0, <1>9, <2>3, <2>4
<1>10. ~(\E h : UpdateWork(h))
  BY <1>0 DEF UpdateWork
<1>11. CASE NewWork \/ CheckExhausted \/ Rotate \/ TakeGap \/ RequestStop \/ UNCHANGED vars
  <2>1. UNCHANGED <<work, scanned, nonce, completed, owner>>
    BY <1>10, <1>11 DEF NewWork, CheckExhausted, Rotate, TakeGap, RequestStop, vars
  <2> QED
    BY <1>1, <2>1
<1> QED
  BY <1>1, <1>2, <1>3, <1>6, <1>7, <1>8, <1>9, <1>11 DEF FarmNext, Worker, Terminated

\* The work changes only through UpdateWork.
LEMMA WorkChanges ==
  ASSUME TypeOK, [FarmNext]_vars, gen' # gen
  PROVE  /\ gen' = gen + 1 /\ (\E h \in Headers : UpdateWork(h))
         /\ UNCHANGED <<queue, workerVars>> /\ ~exhausted'
<1>1. ASSUME NEW w \in Workers, Worker(w) PROVE gen' = gen
  BY <1>1 DEF Worker, Snapshot, Adopt, ClaimNothing, Claim, TakeCpu, TakeBatch, TakeNext, Reshape,
     SieveOne, SieveFails, SieveDone, FlushPending, Scan, Mark, Drained, Wake, LeaveLoop, Exit,
     farmVars
<1>2. CASE NewWork
  BY <1>2 DEF NewWork, UpdateWork
<1>3. CASE Rotate
  BY <1>3 DEF Rotate, UpdateWork, NextHeaders
<1>4. CASE CheckExhausted \/ TakeGap \/ RequestStop \/ UNCHANGED vars
  BY <1>4 DEF CheckExhausted, TakeGap, RequestStop, vars, farmVars
<1> QED
  BY <1>1, <1>2, <1>3, <1>4 DEF FarmNext, Terminated

\* A verdict of exhaustion stands until other work is published.
LEMMA VerdictStep ==
  ASSUME TypeOK, Provenance, WindowsAccounted, VerdictStands, [FarmNext]_vars
  PROVE  VerdictStands'
<1>1. CASE gen' # gen
  BY <1>1, WorkChanges DEF VerdictStands
<1>2. CASE gen' = gen
  <2>1. exhausted' => WorkExhausted
    <3>1. ASSUME exhausted', ~exhausted PROVE CheckExhausted
      BY <3>1 DEF FarmNext, Worker, Snapshot, Adopt, ClaimNothing, Claim, TakeCpu, TakeBatch,
         TakeNext, Reshape, SieveOne, SieveFails, SieveDone, FlushPending, Scan, Mark, Drained,
         Wake, LeaveLoop, Exit, NewWork, Rotate, TakeGap, RequestStop, Terminated, vars, farmVars
    <3> QED
      BY <3>1 DEF VerdictStands, CheckExhausted
  <2>2. nonce' >= nonce /\ completed' >= completed
    BY <1>2, Monotone
  <2>3. /\ nonce \in Nat /\ completed \in Nat /\ nonce' \in Nat /\ completed' \in Nat
        /\ NumWindows \in Nat
    <3>1. TypeOK'
      BY TypeStep
    <3> QED
      BY <3>1, FarmAssumption DEF TypeOK
  <2> QED
    BY <2>1, <2>2, <2>3 DEF VerdictStands, WorkExhausted
<1> QED
  BY <1>1, <1>2

\* A window completed under the current generation, or awaiting its mark, has been
\* searched under it.
LEMMA SearchesStep ==
  ASSUME TypeOK, Provenance, Discipline, WindowsAccounted, Searches, [FarmNext]_vars
  PROVE  Searches'
<1> USE DEF farmVars, workerVars, history
<1>0. TypeOK' /\ Discipline'
  BY TypeStep, DisciplineStep
<1>1. CASE gen' # gen
  <2>1. /\ gen' = gen + 1 /\ UNCHANGED workerVars
        /\ owner' = [x \in Windows |-> "free"]
    BY <1>1, WorkChanges DEF UpdateWork
  <2>2. \A w \in Workers : chunk'[w].gen # gen'
    BY <2>1, FieldTypes DEF Provenance
  <2>3. \A w \in Workers : InMark(w)' = {}
    BY <1>0, <2>2, StaleNext DEF Held
  <2>4. Of("done")' = {}
    BY <2>1 DEF Of
  <2> QED
    BY <2>3, <2>4 DEF Searches
<1>2. CASE gen' = gen
  <2>1. scanned \subseteq scanned'
    BY <1>2, Monotone
  <2>2. Of("done")' \subseteq scanned'
    <3>1. ASSUME NEW x \in Windows, owner'[x] = "done" PROVE x \in scanned'
      <4>1. CASE owner[x] = "done"
        BY <2>1, <4>1 DEF Searches, Of
      <4>2. CASE owner[x] # "done"
        <5>1. \/ x \in scanned'
              \/ \E w \in Workers : Mark(w) /\ job[w].gen = gen /\ x \in job[w].unmarked
          BY <1>2, <3>1, <4>2, Monotone
        <5>2. ASSUME NEW w \in Workers, job[w].gen = gen, x \in job[w].unmarked PROVE x \in scanned
          BY <5>2 DEF Searches, InMark
        <5> QED
          BY <2>1, <5>1, <5>2
      <4> QED
        BY <4>1, <4>2
    <3> QED
      BY <3>1 DEF Of
  <2>3. ASSUME NEW w \in Workers, job'[w].unmarked \subseteq job[w].unmarked, job'[w].gen = job[w].gen
        PROVE  InMark(w)' \subseteq scanned'
    BY <1>2, <2>1, <2>3 DEF Searches, InMark
  <2>4. ASSUME NEW w \in Workers, NEW v \in Workers, Worker(v) PROVE InMark(w)' \subseteq scanned'
    <3>1. CASE job'[w] = job[w]
      BY <2>3, <3>1
    <3>2. CASE job'[w].unmarked = {}
      BY <3>2 DEF InMark
    <3>3. CASE Scan(v)
      <4>1. PICK x \in job[v].todo : /\ Searched(job[v], x)
                                     /\ job' = [job EXCEPT ![v].todo = @ \ {x}, ![v].unmarked = {x}]
        BY <3>3 DEF Scan
      <4>2. CASE w = v
        <5>1. job'[w].unmarked = {x} /\ job'[w].gen = job[w].gen
          BY <4>1, <4>2 DEF TypeOK, Jobs
        <5>2. job[w].gen = gen => x \in scanned'
          BY <4>1, <4>2 DEF Searched, Provenance, Tagged
        <5> QED
          BY <1>2, <5>1, <5>2 DEF InMark
      <4>3. CASE w # v
        BY <3>1, <4>1, <4>3 DEF TypeOK
      <4> QED
        BY <4>2, <4>3
    <3>4. CASE Mark(v)
      <4>1. job'[w] = job[w] \/ job'[w].unmarked = {}
        BY <3>4 DEF Mark, TypeOK, Jobs
      <4> QED
        BY <3>1, <3>2, <4>1
    <3>5. ASSUME NEW f \in Flights, Dispatch(v, f), ~Busy(v), pend[v].wins # {} => pend[v].gen = f.gen
          PROVE  InMark(w)' \subseteq scanned'
      <4>1. job'[w] = job[w] \/ job'[w].unmarked = {}
        BY <3>5, DispatchEffect
      <4> QED
        BY <3>1, <3>2, <4>1
    <3>6. CASE TakeCpu(v)
      <4>1. /\ pc[v] \in {"window", "admit"} /\ chunk[v].next < chunk[v].end
            /\ Dispatch(v, NextWindow(v)) \/ UNCHANGED job
        BY <3>6 DEF TakeCpu, TakeNext, Sieved
      <4>2. ~Busy(v) /\ NextWindow(v) \in Flights /\ NextWindow(v).gen = chunk[v].gen
        BY <4>1, NextWindowType DEF Discipline, NextWindow, Flight
      <4> QED
        BY <3>1, <3>5, <4>1, <4>2 DEF Discipline
    <3>7. CASE SieveOne(v)
      <4>1. PICK f \in batch[v] : Dispatch(v, f) \/ UNCHANGED job
        BY <3>7 DEF SieveOne, Sieved
      <4>2. ~Busy(v)
        BY <3>7 DEF SieveOne
      <4>3. f \in Flights /\ f.gen = chunk[v].gen
        BY FieldTypes DEF Discipline
      <4> QED
        BY <3>1, <3>5, <4>1, <4>2, <4>3 DEF Discipline
    <3>8. CASE FlushPending(v)
      <4>1. job'[w] = job[w] \/ job'[w].unmarked = {}
        BY <3>8 DEF FlushPending, Process, Job, TypeOK
      <4> QED
        BY <3>1, <3>2, <4>1
    <3>9. CASE UNCHANGED job
      BY <3>1, <3>9
    <3> QED
      BY <2>4, <3>3, <3>4, <3>6, <3>7, <3>8, <3>9
         DEF Worker, Snapshot, Adopt, ClaimNothing, Claim, TakeBatch, Reshape, SieveFails,
             SieveDone, Drained, Wake, LeaveLoop, Exit
  <2>5. \A w \in Workers : InMark(w)' \subseteq scanned'
    <3>1. CASE \E v \in Workers : Worker(v)
      BY <2>4, <3>1
    <3>2. CASE UNCHANGED job
      BY <2>3, <3>2
    <3> QED
      BY <3>1, <3>2 DEF FarmNext, NewWork, CheckExhausted, Rotate, TakeGap, RequestStop,
                        Terminated, vars
  <2> QED
    BY <2>2, <2>5 DEF Searches
<1> QED
  BY <1>1, <1>2

\* A gap of the current generation is queued with its header, by a search of its
\* window.
LEMMA EntryStep ==
  ASSUME TypeOK, Provenance, Discipline, WindowsAccounted, EntryUnderItsHeader, [FarmNext]_vars
  PROVE  EntryUnderItsHeader'
<1> USE DEF farmVars, workerVars, history
<1> DEFINE Good(e) == e.gen = gen => /\ e.hdr = work /\ e.idx \in scanned
                                     /\ owner[e.idx] \notin {"free", "stolen"}
<1> DEFINE GoodNext(e) == e.gen = gen' => /\ e.hdr = work' /\ e.idx \in scanned'
                                          /\ owner'[e.idx] \notin {"free", "stolen"}
<1>1. /\ queue \in Seq(Entries) /\ gen \in Nat
      /\ \A i \in 1 .. Len(queue) : /\ queue[i] \in Entries /\ Good(queue[i])
                                    /\ queue[i].idx \in Windows /\ queue[i].gen <= gen
  <2>1. queue \in Seq(Entries) /\ gen \in Nat
    BY DEF TypeOK
  <2>2. \A i \in 1 .. Len(queue) : queue[i] \in Entries
    BY <2>1
  <2>3. \A e \in Entries : e.idx \in Windows
    BY DEF Entries
  <2>4. \A i \in 1 .. Len(queue) : queue[i].gen <= gen
    BY DEF Provenance, Tagged
  <2> QED
    BY <2>1, <2>2, <2>3, <2>4 DEF EntryUnderItsHeader
<1>2. ASSUME \A i \in 1 .. Len(queue') : GoodNext(queue'[i]) PROVE EntryUnderItsHeader'
  BY <1>2 DEF EntryUnderItsHeader
<1>3. CASE gen' # gen
  <2>1. gen' = gen + 1 /\ queue' = queue
    BY <1>3, WorkChanges
  <2>2. \A i \in 1 .. Len(queue) : queue[i].gen # gen'
    BY <1>1, <2>1, FieldTypes
  <2> QED
    BY <1>2, <2>1, <2>2
<1>4. CASE gen' = gen
  <2>1. ASSUME NEW e, Good(e), e.idx \in Windows PROVE GoodNext(e)
    BY <1>4, <2>1, Monotone
  <2>2. CASE queue' = queue
    BY <1>1, <1>2, <2>1, <2>2
  <2>3. CASE TakeGap
    <3>1. queue # <<>> /\ queue' = Tail(queue) /\ queue \in Seq(Entries)
      BY <2>3 DEF TakeGap, PopGap, TypeOK
    <3>2. \A i \in 1 .. Len(queue') : i + 1 \in 1 .. Len(queue) /\ queue'[i] = queue[i + 1]
      BY <3>1
    <3> QED
      BY <1>1, <1>2, <2>1, <3>2
  <2>4. ASSUME NEW w \in Workers, Scan(w) PROVE EntryUnderItsHeader'
    <3>1. PICK x \in job[w].todo : /\ Push(Entry(job[w], x)) \/ UNCHANGED queue
                                   /\ Searched(job[w], x)
      BY <2>4 DEF Scan
    <3>2. job[w] \in Jobs /\ x \in Windows /\ queue \in Seq(Entries)
      BY DEF TypeOK, Jobs
    <3>3. Entry(job[w], x) \in Entries
      BY <3>2 DEF Entry, Entries, Jobs
    <3>4. UNCHANGED <<gen, work, owner>>
      BY <2>4 DEF Scan
    <3>5. job[w].gen = gen => owner[x] = w
      BY <3>2 DEF WindowsAccounted, Of, Held, InTodo
    <3>6. job[w].gen = gen => job[w].hdr = work /\ x \in scanned'
      BY <3>1 DEF Provenance, Tagged, Searched
    <3>7. GoodNext(Entry(job[w], x))
      BY <3>4, <3>5, <3>6, FarmAssumption DEF Entry
    <3>8. CASE queue' = Append(queue, Entry(job[w], x))
      <4>1. ASSUME NEW i \in 1 .. Len(queue')
            PROVE  queue'[i] = Entry(job[w], x) \/ (i \in 1 .. Len(queue) /\ queue'[i] = queue[i])
        BY <3>2, <3>3, <3>8
      <4> QED
        BY <1>1, <1>2, <2>1, <3>7, <4>1
    <3> QED
      BY <2>2, <3>1, <3>8 DEF Push
  <2> QED
    BY <2>2, <2>3, <2>4 DEF FarmNext, Worker, Snapshot, Adopt, ClaimNothing, Claim, TakeCpu,
       TakeBatch, TakeNext, Reshape, SieveOne, SieveFails, SieveDone, FlushPending, Mark, Drained,
       Wake, LeaveLoop, Exit, NewWork, CheckExhausted, Rotate, RequestStop, Terminated, vars
<1> QED
  BY <1>3, <1>4


-----------------------------------------------------------------------------
(* The invariant holds                                                      *)

\* The farm starts with the invariant: nothing is claimed.
LEMMA InvInit == FarmInit => IInv
<1> SUFFICES ASSUME FarmInit PROVE IInv
  OBVIOUS
<1>1. TypeOK
  BY TypeInit
<1>2. gen = 1 /\ NoGen = 0
  BY DEF FarmInit, NoGen
<1>3. Provenance
  BY <1>2 DEF FarmInit, Provenance, Tagged, Flight, Job
<1>4. Discipline
  BY <1>2 DEF FarmInit, Discipline, Busy, Flight, Job
<1>5. TurnsFromOld
  BY DEF FarmInit, TurnsFromOld
<1>6. ASSUME NEW w \in Workers PROVE Held(w) = {} /\ Apart(w)
  <2>1. chunk[w].gen # gen
    BY <1>2 DEF FarmInit
  <2> QED
    BY <1>4, <2>1, Stale DEF Apart
<1>7. WindowsAccounted
  <2>1. \A w \in Workers : Of(w) = {}
    BY FarmAssumption DEF FarmInit, Of
  <2>2. Of("done") = {} /\ completed = 0
    BY DEF FarmInit, Of
  <2>3. \A x \in Windows : owner[x] = "free" /\ x >= nonce
    BY FarmAssumption DEF FarmInit, Windows
  <2> QED
    BY <1>6, <2>1, <2>2, <2>3, FS_EmptySet DEF WindowsAccounted
<1>8. VerdictStands
  BY DEF FarmInit, VerdictStands
<1>9. Searches
  <2>1. Of("done") = {}
    BY DEF FarmInit, Of
  <2>2. \A w \in Workers : InMark(w) = {}
    BY <1>6 DEF Held
  <2> QED
    BY <2>1, <2>2 DEF Searches
<1>10. EntryUnderItsHeader
  BY DEF FarmInit, EntryUnderItsHeader
<1> QED
  BY <1>1, <1>3, <1>4, <1>5, <1>7, <1>8, <1>9, <1>10 DEF IInv

\* Every step keeps the invariant, one part after another.
LEMMA InvStep == IInv /\ [FarmNext]_vars => IInv'
<1> SUFFICES ASSUME IInv, [FarmNext]_vars PROVE IInv'
  OBVIOUS
<1> USE DEF IInv
<1>1. TypeOK'
  BY TypeStep
<1>2. Provenance'
  BY ProvenanceStep
<1>3. Discipline'
  BY DisciplineStep
<1>4. TurnsFromOld'
  BY TurnsStep
<1>5. WindowsAccounted'
  BY AccountStep
<1>6. VerdictStands'
  BY VerdictStep
<1>7. Searches'
  BY SearchesStep
<1>8. EntryUnderItsHeader'
  BY EntryStep
<1> QED
  BY <1>1, <1>2, <1>3, <1>4, <1>5, <1>6, <1>7, <1>8

\* The inductive invariant holds in every reachable state of the farm.
THEOREM Invariant == FarmSpec => []IInv
BY InvInit, InvStep, PTL DEF FarmSpec

\* A finished header: every window of it is counted.
LEMMA AllDone ==
  ASSUME IInv, WorkExhausted
  PROVE  Of("done") = Windows
<1>1. IsFiniteSet(Windows) /\ Cardinality(Windows) = NumWindows /\ Of("done") \subseteq Windows
  BY DoneFinite DEF IInv, Of
<1>2. Cardinality(Of("done")) >= NumWindows
  BY DEF IInv, WindowsAccounted, WorkExhausted
<1>3. /\ Cardinality(Of("done")) <= Cardinality(Windows)
      /\ Cardinality(Of("done")) = Cardinality(Windows) => Of("done") = Windows
  BY <1>1, FS_Subset
<1>4. Cardinality(Of("done")) \in Nat /\ NumWindows \in Nat
  BY FarmAssumption DEF IInv, WindowsAccounted, TypeOK
<1> QED
  BY <1>1, <1>2, <1>3, <1>4

\* No window of the active header is lost, claimed twice or counted twice.
THEOREM Accounted == FarmSpec => []WindowsAccounted
BY Invariant, PTL DEF IInv

\* Main leaves a header only after every window of it was searched with its base.
THEOREM ExhaustedScanned == FarmSpec => []ExhaustedMeansScanned
<1>1. ASSUME IInv PROVE ExhaustedMeansScanned
  <2>1. ASSUME WorkExhausted PROVE scanned = Windows
    BY <1>1, <2>1, AllDone DEF IInv, Searches, TypeOK
  <2> QED
    BY <2>1 DEF ExhaustedMeansScanned
<1> QED
  BY <1>1, Invariant, PTL

\* A gap with the current generation belongs to the active header.
THEOREM EntryMatches == FarmSpec => []EntryUnderItsHeader
BY Invariant, PTL DEF IInv

\* A sieve batch is never carried over a change of the residues it is marked with.
THEOREM SieveBase == FarmSpec => []SieveBaseMatches
<1>1. ASSUME IInv PROVE SieveBaseMatches
  BY <1>1 DEF IInv, Discipline, SieveBaseMatches
<1> QED
  BY <1>1, Invariant, PTL

\* Nothing of a header is queued after main found it exhausted.
LEMMA QuietStep ==
  ASSUME IInv, [FarmNext]_vars, exhausted, Len(queue') > Len(queue)
  PROVE  queue'[Len(queue')].gen < gen
<1>1. queue \in Seq(Entries) /\ gen \in Nat
  BY DEF IInv, TypeOK
<1>2. ~(queue' = queue) /\ ~(queue # <<>> /\ queue' = Tail(queue))
  BY <1>1
<1>3. PICK w \in Workers : Scan(w)
  BY <1>2 DEF FarmNext, Worker, Snapshot, Adopt, ClaimNothing, Claim, TakeCpu, TakeBatch, TakeNext,
     Reshape, SieveOne, SieveFails, SieveDone, FlushPending, Mark, Drained, Wake, LeaveLoop, Exit,
     NewWork, CheckExhausted, Rotate, TakeGap, PopGap, RequestStop, Terminated, vars, farmVars,
     workerVars, UpdateWork
<1>4. PICK x \in job[w].todo : Push(Entry(job[w], x)) \/ UNCHANGED queue
  BY <1>3 DEF Scan
<1>5. queue' = Append(queue, Entry(job[w], x))
  BY <1>2, <1>4 DEF Push
<1>6. job[w] \in Jobs /\ x \in Windows /\ job[w].gen \in Nat
  BY DEF IInv, TypeOK, Jobs
<1>7. Entry(job[w], x) \in Entries /\ Entry(job[w], x).gen = job[w].gen
  BY <1>6 DEF Entry, Entries, Jobs
<1>8. queue'[Len(queue')].gen = job[w].gen
  BY <1>1, <1>5, <1>7
<1>9. job[w].gen <= gen
  BY DEF IInv, Provenance, Tagged
<1>10. job[w].gen # gen
  <2>1. owner[x] = "done"
    BY <1>6, AllDone DEF IInv, VerdictStands, Of
  <2>2. job[w].gen = gen => owner[x] = w
    BY <1>6 DEF IInv, WindowsAccounted, Of, Held, InTodo
  <2> QED
    BY <2>1, <2>2, FarmAssumption
<1> QED
  BY <1>1, <1>6, <1>8, <1>9, <1>10

\* Once main has found a header exhausted, nothing of the farm's generation enters
\* the gap queue (worker_mark_window_complete comes after worker_queue_push).
THEOREM QuietAfterExhaustion == FarmSpec => NoGapAfterExhaustion
<1>1. ASSUME IInv, [FarmNext]_vars
      PROVE  [exhausted /\ Len(queue') > Len(queue) => queue'[Len(queue')].gen < gen]_vars
  BY <1>1, QuietStep
<1> QED
  BY <1>1, Invariant, PTL DEF FarmSpec, NoGapAfterExhaustion

-----------------------------------------------------------------------------
(* The farm implements HeaderScan                                           *)

\* A window counted under the current generation was in its worker's hands.
LEMMA CountRefines ==
  ASSUME IInv, NEW w \in Workers, NEW f, NEW x \in Windows, MarkComplete(f, x),
         f.gen = gen => x \in Held(w), work' = work
  PROVE  Abs!Count \/ UNCHANGED <<work, Of("free"), Of("done")>>
<1>1. CASE f.gen # gen
  <2>1. owner' = owner
    BY <1>1 DEF MarkComplete
  <2> QED
    BY <2>1 DEF Of
<1>2. CASE f.gen = gen
  <2>1. owner' = [owner EXCEPT ![x] = "done"] /\ owner \in [Windows -> Owners]
    BY <1>2 DEF MarkComplete, IInv, TypeOK
  <2>2. owner[x] = w /\ w # "free" /\ w # "done"
    BY <1>2, FarmAssumption DEF IInv, WindowsAccounted, Of
  <2>3. Of("free")' = Of("free") /\ Of("done")' = Of("done") \cup {x}
    BY <2>1, <2>2 DEF Of
  <2>4. x \in Windows \ (Of("free") \cup Of("done"))
    BY <2>2 DEF Of
  <2> QED
    BY <2>3, <2>4 DEF Abs!Count, Abs!Windows, Windows
<1> QED
  BY <1>1, <1>2

\* A claim hands out the windows from the counter on.
LEMMA ClaimRefines ==
  ASSUME IInv, NEW w \in Workers, Claim(w)
  PROVE  Abs!HandOut
<1> DEFINE Given == {x \in Windows : nonce <= x /\ x < nonce + ClaimSize}
<1>1. /\ nonce \in Nat /\ nonce < NumWindows /\ NumWindows \in Nat
      /\ ClaimSize \in Nat /\ ClaimSize > 0
  BY FieldTypes, FarmAssumption DEF IInv, Claim, ClaimSize
<1>2. Given # {} /\ Given \subseteq Of("free")
  <2>1. nonce \in Given
    BY <1>1 DEF Windows
  <2>2. \A x \in Windows : x >= nonce => owner[x] = "free"
    BY DEF IInv, WindowsAccounted
  <2>3. \A x \in Given : x >= nonce
    BY <1>1 DEF Windows
  <2> QED
    BY <2>1, <2>2, <2>3 DEF Of
<1>3. \A x \in Windows : /\ x \notin Given => owner'[x] = owner[x]
                         /\ x \in Given => owner'[x] \in Workers \cup {"stolen"}
  <2>1. owner' = [x \in Windows |->
                    IF x < nonce \/ x >= nonce + ClaimSize THEN owner[x]
                    ELSE IF snap[w].gen = gen THEN w ELSE "stolen"]
    BY DEF Claim
  <2>2. \A x \in Windows : (x < nonce \/ x >= nonce + ClaimSize) <=> x \notin Given
    BY <1>1 DEF Windows
  <2> QED
    BY <2>1, <2>2
<1>4. \A v \in Workers \cup {"stolen"} : v # "free" /\ v # "done"
  BY FarmAssumption
<1>5. \A x \in Given : owner[x] = "free"
  BY <1>2 DEF Of
<1>6. Of("free")' = Of("free") \ Given
  BY <1>3, <1>4 DEF Of
<1>7. Of("done")' = Of("done")
  BY <1>3, <1>4, <1>5 DEF Of
<1>8. work' = work
  BY DEF Claim
<1> HIDE DEF Given
<1> QED
  BY <1>2, <1>6, <1>7, <1>8 DEF Abs!HandOut

\* Fresh work starts the abstract scan over.
LEMMA UpdateRefines ==
  ASSUME NEW h, UpdateWork(h)
  PROVE  Abs!Start(h)
<1>1. work' = h /\ \A x \in Windows : owner'[x] = "free"
  BY DEF UpdateWork
<1>2. Of("free")' = Windows /\ Of("done")' = {}
  BY <1>1 DEF Of
<1> QED
  BY <1>1, <1>2 DEF Abs!Start, Abs!Windows, Windows

\* Sieving a window counts it, for HeaderScan, or is invisible.
LEMMA SievedRefines ==
  ASSUME IInv, NEW w \in Workers, NEW f, NEW x \in Windows, Sieved(w, f, x),
         f.gen = gen => x \in Held(w), work' = work
  PROVE  Abs!Count \/ UNCHANGED <<work, Of("free"), Of("done")>>
<1>1. CASE UNCHANGED owner
  BY <1>1 DEF Of
<1>2. CASE MarkComplete(f, x)
  BY <1>2, CountRefines
<1> QED
  BY <1>1, <1>2 DEF Sieved

\* Every step of the farm is a step of HeaderScan, or invisible to it.
LEMMA RefinementStep ==
  ASSUME IInv, [FarmNext]_vars
  PROVE  Abs!Next \/ UNCHANGED <<work, Of("free"), Of("done")>>
<1> USE DEF farmVars, workerVars, history
<1>1. CASE UNCHANGED <<work, owner>>
  BY <1>1 DEF Of
<1>2. ASSUME NEW w \in Workers, Claim(w) PROVE Abs!Next
  BY <1>2, ClaimRefines DEF Abs!Next
<1>3. ASSUME NEW w \in Workers, TakeCpu(w)
      PROVE  Abs!Count \/ UNCHANGED <<work, Of("free"), Of("done")>>
  <2>1. /\ pc[w] \in {"window", "admit"} /\ chunk[w].next < chunk[w].end
        /\ Sieved(w, NextWindow(w), chunk[w].next) /\ work' = work
    BY <1>3 DEF TakeCpu, TakeNext
  <2>2. chunk[w].next \in Windows
    BY <2>1, NextWindowType DEF IInv
  <2>3. NextWindow(w).gen = chunk[w].gen
    BY <2>1 DEF NextWindow, Flight, IInv, Discipline
  <2>4. NextWindow(w).gen = gen => chunk[w].next \in InChunk(w)
    BY <2>1, <2>2, <2>3, FieldTypes DEF InChunk, IInv
  <2> QED
    BY <2>1, <2>2, <2>4, SievedRefines DEF Held
<1>4. ASSUME NEW w \in Workers, SieveOne(w)
      PROVE  Abs!Count \/ UNCHANGED <<work, Of("free"), Of("done")>>
  <2>1. PICK f \in batch[w] : \E x \in f.wins : Sieved(w, f, x)
    BY <1>4 DEF SieveOne
  <2>2. PICK x \in f.wins : Sieved(w, f, x)
    BY <2>1
  <2>3. x \in Windows
    BY FieldTypes DEF IInv, Flights
  <2>4. f.gen = gen => x \in Held(w)
    BY <2>3 DEF InBatch, Held
  <2>5. work' = work
    BY <1>4 DEF SieveOne
  <2> QED
    BY <2>2, <2>3, <2>4, <2>5, SievedRefines
<1>5. ASSUME NEW w \in Workers, Mark(w)
      PROVE  Abs!Count \/ UNCHANGED <<work, Of("free"), Of("done")>>
  <2>1. PICK x \in job[w].unmarked : MarkComplete(job[w], x)
    BY <1>5 DEF Mark
  <2>2. x \in Windows
    BY FieldTypes DEF IInv, Jobs
  <2>3. job[w].gen = gen => x \in Held(w)
    BY DEF InMark, Held
  <2>4. work' = work
    BY <1>5 DEF Mark
  <2> QED
    BY <2>1, <2>2, <2>3, <2>4, CountRefines
<1>6. CASE NewWork
  <2>1. PICK h \in Headers : (h.tmpl # work.tmpl \/ h.nonce <= work.nonce) /\ UpdateWork(h)
    BY <1>6 DEF NewWork
  <2> QED
    BY <2>1, UpdateRefines DEF Abs!Next, Abs!Replace
<1>7. CASE Rotate
  <2>1. CASE UNCHANGED <<work, owner>>
    BY <1>1, <2>1
  <2>2. ASSUME NEW h \in NextHeaders, UpdateWork(h) PROVE Abs!Rotate
    <3>1. h \in Headers /\ h.tmpl = work.tmpl /\ h.nonce > work.nonce
      BY DEF NextHeaders
    <3>2. Of("done") = Windows
      BY <1>7, AllDone DEF Rotate, IInv, VerdictStands
    <3> QED
      BY <2>2, <3>1, <3>2, UpdateRefines DEF Abs!Rotate, Abs!Windows, Windows
  <2> QED
    BY <1>7, <2>1, <2>2 DEF Rotate, Abs!Next
<1>8. ASSUME NEW w \in Workers,
             \/ Snapshot(w) \/ Adopt(w) \/ ClaimNothing(w) \/ TakeBatch(w) \/ Reshape(w)
             \/ SieveFails(w) \/ SieveDone(w) \/ FlushPending(w) \/ Scan(w) \/ Drained(w)
             \/ Wake(w) \/ LeaveLoop(w) \/ Exit(w)
      PROVE  UNCHANGED <<work, owner>>
  BY <1>8 DEF Snapshot, Adopt, ClaimNothing, TakeBatch, TakeNext, Reshape, SieveFails, SieveDone,
              FlushPending, Scan, Drained, Wake, LeaveLoop, Exit
<1>9. CASE CheckExhausted \/ TakeGap \/ RequestStop \/ UNCHANGED vars
  <2>1. UNCHANGED <<work, owner>>
    BY <1>9 DEF CheckExhausted, TakeGap, RequestStop, vars
  <2> QED
    BY <1>1, <2>1
<1> QED
  BY <1>1, <1>2, <1>3, <1>4, <1>5, <1>6, <1>7, <1>8, <1>9
     DEF FarmNext, Worker, Terminated, Abs!Next

\* The farm implements the abstract scan: a window is handed out once per
\* header and counted once, and the header nonce advances only when all are.
THEOREM Refinement == FarmSpec => HeaderScanned
<1>1. FarmInit => Abs!Init
  BY FarmAssumption DEF FarmInit, Abs!Init, Of, Abs!Windows, Windows
<1>2. IInv /\ [FarmNext]_vars => [Abs!Next]_(Abs!absVars)
  BY RefinementStep DEF Abs!absVars
<1> QED
  BY <1>1, <1>2, Invariant, PTL DEF FarmSpec, HeaderScanned, Abs!Spec
=============================================================================
