--------------------------- MODULE MinerNodeProofs ---------------------------
(***************************************************************************)
(* Node mode implements the farm's specification, so what MinerFarmProofs  *)
(* proves of the farm holds with the real main loop around it; every block *)
(* that is submitted is made of one template, and no gap is submitted      *)
(* twice.                                                                  *)
(***************************************************************************)
EXTENDS MinerNode, MinerFarmProofs

-----------------------------------------------------------------------------
(* Every step of the node mode is a step of the farm, or none               *)

\* What the main loop does to the farm is an operation of MinerFarm.
LEMMA MainIsFarm ==
  ASSUME MainLoop
  PROVE  [FarmNext]_vars
<1>1. CASE TakeTemplate
  BY <1>1 DEF TakeTemplate, FarmNext
<1>2. CASE Exhausted
  BY <1>2 DEF Exhausted, FarmNext
<1>3. CASE RotateHeader
  BY <1>3 DEF RotateHeader, FarmNext
<1>4. CASE Pop
  BY <1>4 DEF Pop, FarmNext
<1>5. CASE \/ NoTemplateYet \/ NotExhausted \/ Withhold \/ Submit \/ Answer \/ QueueEmpty
           \/ LeaveMain \/ JoinRpc \/ JoinWorkers
  BY <1>5 DEF NoTemplateYet, NotExhausted, Withhold, Submit, Answer, QueueEmpty, LeaveMain,
              JoinRpc, JoinWorkers
<1> QED
  BY <1>1, <1>2, <1>3, <1>4, <1>5 DEF MainLoop

\* The RPC thread and the node leave the farm alone, so every step of the program
\* is a step of the farm or invisible to it.
LEMMA NodeIsFarm == [NodeNext]_allVars => [FarmNext]_vars
<1> SUFFICES ASSUME [NodeNext]_allVars PROVE [FarmNext]_vars
  OBVIOUS
<1>1. CASE NodeMoves \/ RpcThread \/ Over \/ UNCHANGED allVars
  BY <1>1 DEF NodeMoves, RpcThread, Fetch, Store, RpcEnds, Over, allVars
<1>2. CASE MainLoop
  BY <1>2, MainIsFarm
<1>3. CASE Signal
  BY <1>3 DEF Signal, FarmNext
<1>4. ASSUME NEW w \in Workers, WorkerStep(w) PROVE [FarmNext]_vars
  BY <1>4 DEF WorkerStep, FarmNext
<1> QED
  BY <1>1, <1>2, <1>3, <1>4 DEF NodeNext

\* The main loop and the RPC thread use the farm as MinerFarm assumes.
THEOREM NodeUsesFarm == NodeSpec => FarmUsedAsAssumed
<1>1. NodeInit => FarmInit
  BY DEF NodeInit
<1> QED
  BY <1>1, NodeIsFarm, PTL DEF NodeSpec, FarmUsedAsAssumed, FarmSpec

\* The farm's inductive invariant, with the real main loop.
THEOREM NodeFarmInvariant == NodeSpec => []IInv
BY NodeUsesFarm, Invariant, PTL DEF FarmUsedAsAssumed

\* With the real main loop, too, a header is left only when it was searched.
THEOREM NodeExhaustedScanned == NodeSpec => []ExhaustedMeansScanned
BY NodeUsesFarm, ExhaustedScanned, PTL DEF FarmUsedAsAssumed

-----------------------------------------------------------------------------
(* Every block is made of one template                                      *)

\* Main's template is that of the active header, or the farm is stopped; the
\* entry main deals with was found under the active header.
TemplateFits ==
  /\ tmpl = work.tmpl \/ stop
  /\ mainPc = "submit" => cur.hdr = work

NInv == TemplateFits /\ OneTemplatePerBlock

\* Main starts with the template of the published header.
LEMMA NInvInit == NodeInit => NInv
BY DEF NodeInit, FirstHeaders, NInv, TemplateFits, OneTemplatePerBlock

\* Work and stop move only where main or a signal moves them.
LEMMA Quiet ==
  ASSUME NEW w \in Workers, Worker(w)
  PROVE  UNCHANGED <<work, stop>>
BY DEF Worker, Snapshot, Adopt, ClaimNothing, Claim, TakeCpu, TakeBatch, TakeNext, Reshape,
   SieveOne, SieveFails, SieveDone, FlushPending, Scan, Mark, Drained, Wake, LeaveLoop, Exit,
   farmVars

\* Every step keeps template and header together, while main can still submit.
LEMMA NInvStep == IInv /\ NInv /\ [NodeNext]_allVars => NInv'
<1> SUFFICES ASSUME IInv, NInv, [NodeNext]_allVars PROVE NInv'
  OBVIOUS
<1> USE DEF mainVars
<1>1. ASSUME UNCHANGED <<work, stop, mainPc, tmpl, cur, sent>> PROVE NInv'
  BY <1>1 DEF NInv, TemplateFits, OneTemplatePerBlock
<1>2. ASSUME UNCHANGED <<work, tmpl, cur, sent>>, mainPc' # "submit", stop => stop' PROVE NInv'
  BY <1>2 DEF NInv, TemplateFits, OneTemplatePerBlock
<1>3. CASE TakeTemplate
  <2>1. mainPc' # "submit" /\ sent' = sent /\ tmpl' = stored /\ ~stop
    BY <1>3 DEF TakeTemplate
  <2>2. work'.tmpl = stored \/ stop'
    BY <1>3 DEF TakeTemplate, FirstHeaders, RequestStop, StopFarm
  <2> QED
    BY <2>1, <2>2 DEF NInv, TemplateFits, OneTemplatePerBlock
<1>4. CASE RotateHeader
  <2>1. mainPc' # "submit" /\ UNCHANGED <<tmpl, cur, sent>>
    BY <1>4 DEF RotateHeader
  <2>2. \/ work'.tmpl = work.tmpl /\ stop' = stop
        \/ work' = work /\ stop'
    BY <1>4 DEF RotateHeader, Rotate, NextHeaders, UpdateWork, StopFarm
  <2> QED
    BY <2>1, <2>2 DEF NInv, TemplateFits, OneTemplatePerBlock
<1>5. CASE Pop
  <2>1. /\ UNCHANGED <<work, stop, gen, tmpl, sent>>
        /\ queue # <<>> /\ cur' = Head(queue)
        /\ mainPc' = "submit" => Head(queue).gen = gen
    BY <1>5 DEF Pop, TakeGap, PopGap
  <2>2. Head(queue).gen = gen => Head(queue).hdr = work
    <3>1. queue \in Seq(Entries)
      BY DEF IInv, TypeOK
    <3>2. 1 \in 1 .. Len(queue) /\ Head(queue) = queue[1]
      BY <2>1, <3>1
    <3> QED
      BY <3>2 DEF IInv, Provenance, Tagged
  <2> QED
    BY <2>1, <2>2 DEF NInv, TemplateFits, OneTemplatePerBlock
<1>6. CASE Submit
  <2>1. /\ UNCHANGED <<work, stop, tmpl>> /\ mainPc' = "await"
        /\ cur.hdr = work
        /\ sent' = sent \cup {[hdr |-> cur.hdr, prefix |-> work.tmpl, txs |-> tmpl,
                               idx |-> cur.idx]}
    BY <1>6 DEF Submit, vars, farmVars, NInv, TemplateFits
  <2> QED
    BY <2>1 DEF NInv, TemplateFits, OneTemplatePerBlock
<1>7. CASE Exhausted
  BY <1>2, <1>7 DEF Exhausted, CheckExhausted
<1>8. CASE \/ NoTemplateYet \/ NotExhausted \/ Withhold \/ Answer \/ QueueEmpty
           \/ LeaveMain \/ JoinRpc \/ JoinWorkers
  BY <1>2, <1>8 DEF NoTemplateYet, NotExhausted, Withhold, Answer, QueueEmpty, LeaveMain,
                    JoinRpc, JoinWorkers, vars, farmVars
<1>9. CASE NodeMoves \/ RpcThread \/ Over \/ UNCHANGED allVars
  BY <1>1, <1>9 DEF NodeMoves, RpcThread, Fetch, Store, RpcEnds, Over, allVars, vars, farmVars
<1>10. CASE Signal
  <2>1. UNCHANGED <<work, mainPc, tmpl, cur, sent>> /\ stop'
    BY <1>10 DEF Signal, RequestStop, StopFarm
  <2> QED
    BY <2>1 DEF NInv, TemplateFits, OneTemplatePerBlock
<1>11. ASSUME NEW w \in Workers, WorkerStep(w) PROVE NInv'
  BY <1>1, <1>11, Quiet DEF WorkerStep
<1> QED
  BY <1>3, <1>4, <1>5, <1>6, <1>7, <1>8, <1>9, <1>10, <1>11 DEF NodeNext, MainLoop

\* Header, nonce and transactions of every submitted block belong together.
THEOREM BlocksFit == NodeSpec => []OneTemplatePerBlock
<1>1. NInv => OneTemplatePerBlock
  BY DEF NInv
<1> QED
  BY <1>1, NInvInit, NInvStep, NodeFarmInvariant, PTL DEF NodeSpec
-----------------------------------------------------------------------------
(* A window is searched once under its header, and queued once              *)

\* What was searched under the active header is counted, or its worker is about
\* to count it: it does not wait anywhere to be searched again.
Settled == \A x \in scanned : owner[x] = "done" \/ \E w \in Workers : x \in InMark(w)

Current(i) == i \in 1 .. Len(queue) /\ queue[i].gen = gen

\* Two queued gaps of the active header are of two windows.
QueuedOnce ==
  \A i, j \in 1 .. Len(queue) :
    Current(i) /\ Current(j) /\ queue[i].idx = queue[j].idx => i = j

\* A window is added to the searched ones when it is counted without a survivor,
\* or by the search itself.
LEMMA SearchAdds ==
  ASSUME TypeOK, Provenance, Discipline, [FarmNext]_vars, gen' = gen,
         NEW x \in scanned', x \notin scanned
  PROVE  owner'[x] = "done" \/ \E w \in Workers : x \in InMark(w)'
<1> USE DEF farmVars, workerVars, history
<1>0. owner \in [Windows -> Owners] /\ gen \in Nat /\ x \in Windows
  BY TypeStep DEF TypeOK
<1>1. ASSUME NEW w \in Workers, NEW f, NEW y \in Windows, Sieved(w, f, y)
      PROVE  owner'[x] = "done"
  <2>1. MarkComplete(f, y) /\ Searched(f, y)
    BY <1>1 DEF Sieved
  <2>2. x = y /\ f.gen = gen
    BY <2>1 DEF Searched
  <2> QED
    BY <1>0, <2>1, <2>2 DEF MarkComplete
<1>2. ASSUME NEW w \in Workers, TakeCpu(w) PROVE owner'[x] = "done"
  BY <1>1, <1>2, NextWindowType DEF TakeCpu, TakeNext
<1>3. ASSUME NEW w \in Workers, SieveOne(w) PROVE owner'[x] = "done"
  <2>1. PICK f \in batch[w] : \E y \in f.wins : Sieved(w, f, y)
    BY <1>3 DEF SieveOne
  <2>2. f.wins \subseteq Windows
    BY DEF TypeOK, Singles, Flights
  <2> QED
    BY <1>1, <2>1, <2>2
<1>4. ASSUME NEW w \in Workers, Scan(w) PROVE x \in InMark(w)'
  <2>1. PICK y \in job[w].todo :
               /\ Searched(job[w], y)
               /\ job' = [job EXCEPT ![w].todo = @ \ {y}, ![w].unmarked = {y}]
    BY <1>4 DEF Scan
  <2>2. x = y /\ job[w].gen = gen
    BY <2>1 DEF Searched
  <2>3. job'[w].unmarked = {y} /\ job'[w].gen = job[w].gen
    BY <2>1 DEF TypeOK, Jobs
  <2> QED
    BY <2>2, <2>3 DEF InMark
<1>5. ~(\E h : UpdateWork(h))
  BY <1>0 DEF UpdateWork
<1> QED
  BY <1>2, <1>3, <1>4, <1>5 DEF FarmNext, Worker, Snapshot, Adopt, ClaimNothing, Claim, TakeBatch,
     TakeNext, Reshape, SieveFails, SieveDone, FlushPending, Mark, Drained, Wake, LeaveLoop,
     Exit, NewWork, CheckExhausted, Rotate, TakeGap, RequestStop, Terminated, vars

\* A searched window that waits to be counted keeps waiting until it is: its
\* worker is busy, and does nothing else with it.
LEMMA MarkWaits ==
  ASSUME IInv, [FarmNext]_vars, gen' = gen, NEW w \in Workers, NEW x \in InMark(w)
  PROVE  owner'[x] = "done" \/ x \in InMark(w)'
<1> USE DEF farmVars, workerVars, history
<1>0. /\ owner \in [Windows -> Owners] /\ x \in Windows /\ x \in job[w].unmarked
      /\ job[w].gen = gen /\ job \in [Workers -> Jobs] /\ TypeOK /\ Discipline
  <2>1. x \in job[w].unmarked /\ job[w].gen = gen
    BY DEF InMark
  <2> QED
    BY <2>1, FieldTypes DEF IInv, TypeOK, Jobs
<1>1. Busy(w) /\ pc[w] \notin {"window", "admit", "wait", "done"}
  BY <1>0 DEF Busy, Discipline
<1>2. CASE job'[w] = job[w]
  BY <1>0, <1>2 DEF InMark
<1>3. CASE Mark(w)
  <2>1. PICK y \in job[w].unmarked : MarkComplete(job[w], y)
    BY <1>3 DEF Mark
  <2>2. y = x
    BY <1>0, <2>1 DEF Discipline
  <2> QED
    BY <1>0, <2>1, <2>2 DEF MarkComplete
<1>4. ASSUME NEW v \in Workers \ {w}, NEW f, Dispatch(v, f) \/ UNCHANGED job
      PROVE  job'[w] = job[w]
  BY <1>0, <1>4 DEF Dispatch, Process
<1>5. ASSUME NEW v \in Workers, Worker(v), v # w PROVE job'[w] = job[w]
  <2>1. CASE TakeCpu(v)
    BY <1>4, <1>5, <2>1 DEF TakeCpu, Sieved
  <2>2. CASE SieveOne(v)
    BY <1>4, <1>5, <2>2 DEF SieveOne, Sieved
  <2>3. CASE FlushPending(v)
    BY <1>0, <1>5, <2>3 DEF FlushPending, Process
  <2>4. CASE Scan(v) \/ Mark(v)
    BY <1>0, <1>5, <2>4 DEF Scan, Mark
  <2> QED
    BY <1>5, <2>1, <2>2, <2>3, <2>4 DEF Worker, Snapshot, Adopt, ClaimNothing, Claim, TakeBatch,
       Reshape, SieveFails, SieveDone, Drained, Wake, LeaveLoop, Exit
<1>6. ASSUME Worker(w) PROVE Mark(w) \/ job'[w] = job[w]
  <2>1. ~TakeCpu(w) /\ ~SieveOne(w) /\ ~FlushPending(w)
    BY <1>1 DEF TakeCpu, TakeNext, SieveOne, FlushPending
  <2>2. ~Scan(w)
    BY <1>0 DEF Scan
  <2> QED
    BY <1>6, <2>1, <2>2 DEF Worker, Snapshot, Adopt, ClaimNothing, Claim, TakeBatch,
       Reshape, SieveFails, SieveDone, Drained, Wake, LeaveLoop, Exit
<1>7. CASE NewWork \/ CheckExhausted \/ Rotate \/ TakeGap \/ RequestStop \/ UNCHANGED vars
  <2>1. job' = job
    BY <1>7 DEF NewWork, CheckExhausted, Rotate, TakeGap, RequestStop, vars
  <2> QED
    BY <1>2, <2>1
<1> QED
  BY <1>2, <1>3, <1>5, <1>6, <1>7 DEF FarmNext, Terminated

\* A counted window stays counted while the work stays.
LEMMA DoneStays ==
  ASSUME IInv, [FarmNext]_vars, gen' = gen, NEW x \in Windows, owner[x] = "done"
  PROVE  owner'[x] = "done"
<1> USE DEF farmVars, workerVars, history
<1>0. owner \in [Windows -> Owners] /\ gen \in Nat /\ x < nonce /\ nonce \in Nat
  <2>1. "done" # "free" => ~(x >= nonce)
    BY DEF IInv, WindowsAccounted
  <2> QED
    BY <2>1, FieldTypes, FarmAssumption DEF IInv, TypeOK, Windows
<1>1. ASSUME NEW f, NEW y, MarkComplete(f, y) \/ UNCHANGED owner PROVE owner'[x] = "done"
  BY <1>0, <1>1 DEF MarkComplete
<1>2. ASSUME NEW w \in Workers, Claim(w) PROVE owner'[x] = "done"
  BY <1>0, <1>2 DEF Claim
<1>3. ASSUME NEW w \in Workers, TakeCpu(w) \/ SieveOne(w) \/ Mark(w) PROVE owner'[x] = "done"
  BY <1>1, <1>3 DEF TakeCpu, SieveOne, Sieved, Mark
<1>4. ~(\E h : UpdateWork(h))
  BY <1>0 DEF UpdateWork
<1> QED
  BY <1>1, <1>2, <1>3, <1>4 DEF FarmNext, Worker, Snapshot, Adopt, ClaimNothing, TakeBatch,
     TakeNext, Reshape, SieveFails, SieveDone, FlushPending, Scan, Drained, Wake, LeaveLoop,
     Exit, NewWork, CheckExhausted, Rotate, TakeGap, RequestStop, Terminated, vars

\* Every step of the farm leaves the searched windows settled.
LEMMA SettledStep ==
  ASSUME IInv, Settled, [FarmNext]_vars
  PROVE  Settled'
<1>1. CASE gen' # gen
  <2>1. scanned' = {}
    BY <1>1, WorkChanges DEF IInv, UpdateWork
  <2> QED
    BY <2>1 DEF Settled
<1>2. CASE gen' = gen
  <2>1. ASSUME NEW x \in scanned' PROVE owner'[x] = "done" \/ \E w \in Workers : x \in InMark(w)'
    <3>1. CASE x \notin scanned
      BY <1>2, <2>1, <3>1, SearchAdds DEF IInv
    <3>2. CASE x \in scanned
      <4>1. x \in Windows
        BY <3>2 DEF IInv, TypeOK
      <4>2. CASE owner[x] = "done"
        BY <1>2, <4>1, <4>2, DoneStays
      <4>3. CASE \E w \in Workers : x \in InMark(w)
        BY <1>2, <4>3, MarkWaits
      <4> QED
        BY <3>2, <4>2, <4>3 DEF Settled
    <3> QED
      BY <3>1, <3>2
  <2> QED
    BY <2>1 DEF Settled
<1> QED
  BY <1>1, <1>2

\* What a worker of the active generation is about to search was not searched.
LEMMA ScanIsFresh ==
  ASSUME IInv, Settled, NEW w \in Workers, job[w].unmarked = {}, job[w].gen = gen,
         NEW x \in job[w].todo
  PROVE  x \notin scanned
<1>1. x \in InTodo(w) /\ x \in Windows
  BY FieldTypes DEF InTodo, IInv, Jobs
<1>2. owner[x] = w
  BY <1>1 DEF IInv, WindowsAccounted, Of, Held
<1>3. ASSUME NEW v \in Workers, x \in InMark(v) PROVE FALSE
  <2>1. owner[x] = v
    BY <1>1, <1>3 DEF IInv, WindowsAccounted, Of, Held
  <2> QED
    BY <1>2, <1>3, <2>1 DEF InMark
<1> QED
  BY <1>2, <1>3, FarmAssumption DEF Settled

\* How the queue moves: not at all, by its head, or by an entry that a search
\* appends, which if it is of the active header is of a window not yet searched.
LEMMA QueueMoves ==
  ASSUME IInv, Settled, [FarmNext]_vars
  PROVE  \/ queue' = queue
         \/ gen' = gen /\ queue # <<>> /\ queue' = Tail(queue)
         \/ /\ gen' = gen
            /\ \E e \in Entries : queue' = Append(queue, e) /\ (e.gen = gen => e.idx \notin scanned)
<1> USE DEF farmVars, workerVars, history
<1>1. ASSUME NEW w \in Workers, Scan(w)
      PROVE  \/ queue' = queue
             \/ \E e \in Entries : queue' = Append(queue, e) /\ (e.gen = gen => e.idx \notin scanned)
  <2>1. PICK x \in job[w].todo : Push(Entry(job[w], x)) \/ UNCHANGED queue
    BY <1>1 DEF Scan
  <2>2. job[w].unmarked = {} /\ job[w] \in Jobs /\ x \in Windows
    BY <1>1, FieldTypes DEF Scan, IInv, Jobs
  <2>3. Entry(job[w], x) \in Entries /\ Entry(job[w], x).gen = job[w].gen /\ Entry(job[w], x).idx = x
    BY <2>2 DEF Entry, Entries, Jobs
  <2>4. job[w].gen = gen => x \notin scanned
    BY <2>2, ScanIsFresh
  <2> QED
    BY <2>1, <2>3, <2>4 DEF Push
<1>2. CASE TakeGap
  BY <1>2 DEF TakeGap, PopGap
<1> QED
  BY <1>1, <1>2 DEF FarmNext, Worker, Snapshot, Adopt, ClaimNothing, Claim, TakeCpu, TakeBatch,
     TakeNext, Reshape, SieveOne, SieveFails, SieveDone, FlushPending, Scan, Mark, Drained, Wake,
     LeaveLoop, Exit, NewWork, CheckExhausted, Rotate, RequestStop, Terminated, vars

\* Nothing in the queue is of a generation that just began.
LEMMA NoneIsCurrent ==
  ASSUME IInv, [FarmNext]_vars, gen' # gen
  PROVE  queue' = queue /\ \A i \in 1 .. Len(queue) : queue[i].gen # gen'
<1>1. gen' = gen + 1 /\ queue' = queue
  BY WorkChanges DEF IInv
<1> QED
  BY <1>1, FieldTypes DEF IInv, Provenance, Tagged

\* A window of which the queue holds no gap of the active header any more, and
\* which nobody will search again.
Gone(x) == x \in scanned /\ \A i \in 1 .. Len(queue) : Current(i) => queue[i].idx # x

\* It stays gone while the work stays.
LEMMA GoneStays ==
  ASSUME IInv, Settled, [FarmNext]_vars, gen' = gen, NEW x, Gone(x)
  PROVE  Gone(x)'
<1>1. scanned \subseteq scanned' /\ queue \in Seq(Entries)
  BY Monotone DEF IInv, TypeOK
<1>2. ASSUME NEW i \in 1 .. Len(queue'), queue'[i].gen = gen' PROVE queue'[i].idx # x
  <2>1. CASE queue' = queue
    BY <1>2, <2>1 DEF Gone, Current
  <2>2. CASE queue # <<>> /\ queue' = Tail(queue)
    <3>1. i + 1 \in 1 .. Len(queue) /\ queue'[i] = queue[i + 1]
      BY <1>1, <2>2
    <3> QED
      BY <1>2, <3>1 DEF Gone, Current
  <2>3. CASE \E e \in Entries : queue' = Append(queue, e) /\ (e.gen = gen => e.idx \notin scanned)
    <3>1. PICK e \in Entries : queue' = Append(queue, e) /\ (e.gen = gen => e.idx \notin scanned)
      BY <2>3
    <3>2. queue'[i] = e \/ (i \in 1 .. Len(queue) /\ queue'[i] = queue[i])
      BY <1>1, <3>1
    <3> QED
      BY <1>2, <3>1, <3>2 DEF Gone, Current
  <2> QED
    BY <2>1, <2>2, <2>3, QueueMoves
<1> QED
  BY <1>1, <1>2 DEF Gone, Current

\* Every step of the farm keeps the queued gaps of the active header apart.
LEMMA QueuedStep ==
  ASSUME IInv, Settled, QueuedOnce, [FarmNext]_vars
  PROVE  QueuedOnce'
<1>0. queue \in Seq(Entries)
  BY DEF IInv, TypeOK
<1>1. CASE gen' # gen
  BY <1>1, NoneIsCurrent DEF QueuedOnce, Current
<1>2. CASE gen' = gen /\ queue' = queue
  BY <1>2 DEF QueuedOnce, Current
<1>3. CASE gen' = gen /\ queue # <<>> /\ queue' = Tail(queue)
  <2>1. \A i \in 1 .. Len(queue') : i + 1 \in 1 .. Len(queue) /\ queue'[i] = queue[i + 1] /\ i \in Nat
    BY <1>0, <1>3
  <2> QED
    BY <1>3, <2>1 DEF QueuedOnce, Current
<1>4. CASE /\ gen' = gen
           /\ \E e \in Entries : queue' = Append(queue, e) /\ (e.gen = gen => e.idx \notin scanned)
  <2>1. PICK e \in Entries : queue' = Append(queue, e) /\ (e.gen = gen => e.idx \notin scanned)
    BY <1>4
  <2>2. \A i \in 1 .. Len(queue') : \/ i = Len(queue) + 1 /\ queue'[i] = e
                                    \/ i \in 1 .. Len(queue) /\ queue'[i] = queue[i]
    BY <1>0, <2>1
  <2>3. \A i \in 1 .. Len(queue) : Current(i) => queue[i].idx \in scanned
    BY DEF IInv, EntryUnderItsHeader, Current
  <2>4. ASSUME NEW i \in 1 .. Len(queue'), NEW j \in 1 .. Len(queue'),
               queue'[i].gen = gen, queue'[j].gen = gen, queue'[i].idx = queue'[j].idx
        PROVE  i = j
    BY <2>1, <2>2, <2>3, <2>4 DEF QueuedOnce, Current
  <2> QED
    BY <1>4, <2>4 DEF QueuedOnce, Current
<1> QED
  BY <1>1, <1>2, <1>3, <1>4, QueueMoves

-----------------------------------------------------------------------------
(* No gap is submitted twice                                                *)

\* The template main has, or finds waiting for it.
Last == IF stored = NoTemplate THEN tmpl ELSE stored

\* The node's templates reach main in order: one that waits is newer than main's,
\* because the RPC thread stores it only when the height differs from the last.
TemplatesRise ==
  /\ fetched <= node /\ Last <= fetched /\ prevHeight = Height(Last)
  /\ stored # NoTemplate => tmpl < stored
  /\ work.tmpl <= tmpl

\* No block was sent under a header that is still to come.
SentBefore ==
  \A b \in sent : \/ b.hdr.tmpl < work.tmpl
                  \/ b.hdr.tmpl = work.tmpl /\ b.hdr.nonce <= work.nonce

\* The gaps sent under the active header, and the one main deals with, are gone
\* from the queue and from the hands of the workers.
SentGone == \A b \in sent : b.hdr = work => Gone(b.idx)
CurGone  == mainPc = "submit" => Gone(cur.idx)

Once ==
  /\ NodeTypeOK /\ Settled /\ QueuedOnce
  /\ TemplatesRise /\ SentBefore /\ SentGone /\ CurGone /\ SubmittedOnce

\* What the numbers of templates and headers are.
LEMMA NodeNumbers ==
  ASSUME TypeOK, NodeTypeOK
  PROVE  /\ \A t \in Templates : t \in Int /\ t >= 1 /\ Height(t) \in Nat
         /\ NoTemplate \notin Templates
         /\ work \in Headers /\ \A h \in Headers : h.tmpl \in Templates /\ h.nonce \in Nat
<1>1. \A t \in Templates : t \in Int /\ t >= 1 /\ Height(t) \in Nat
  BY NodeAssumption, FS_CardinalityType
<1> QED
  BY <1>1, NodeAssumption DEF NoTemplate, TypeOK

\* The program starts within the types.
LEMMA NodeTypeInit == NodeInit => NodeTypeOK
<1> SUFFICES ASSUME NodeInit PROVE NodeTypeOK
  OBVIOUS
<1>1. 1 \in Templates
  BY NodeAssumption, FS_CardinalityType
<1>2. NoEntry \in [gen : Nat, hdr : Headers, idx : Windows, late : BOOLEAN]
  BY FarmAssumption DEF NodeInit, FirstHeaders, NoEntry, NoGen, Windows
<1> QED
  BY <1>1, <1>2, NodeAssumption DEF NodeInit, NodeTypeOK

\* No step of main, of the RPC thread or of the node leaves the types.
LEMMA NodeTypeStep == IInv /\ NodeTypeOK /\ [NodeNext]_allVars => NodeTypeOK'
<1> SUFFICES ASSUME IInv, NodeTypeOK, [NodeNext]_allVars PROVE NodeTypeOK'
  OBVIOUS
<1> USE DEF nodeVars, mainVars
<1>0. TypeOK
  BY DEF IInv
<1>1. CASE NodeMoves \/ RpcThread
  BY <1>0, <1>1, NodeNumbers DEF NodeMoves, RpcThread, Fetch, Store, RpcEnds, NodeTypeOK
<1>2. CASE TakeTemplate
  BY <1>2 DEF TakeTemplate, NodeTypeOK
<1>3. CASE \/ NoTemplateYet \/ Exhausted \/ NotExhausted \/ RotateHeader \/ QueueEmpty
           \/ LeaveMain \/ JoinRpc \/ JoinWorkers \/ Signal \/ Over \/ UNCHANGED allVars
  BY <1>3 DEF NoTemplateYet, Exhausted, NotExhausted, RotateHeader, QueueEmpty, LeaveMain,
              JoinRpc, JoinWorkers, Signal, Over, allVars, NodeTypeOK
<1>4. ASSUME NEW e \in Entries, NEW status \in Statuses, Resolve(e, status)
      PROVE  outcomes' \subseteq [hdr : Headers, idx : Windows, late : BOOLEAN, status : Statuses]
  BY <1>4 DEF Resolve, Entries, NodeTypeOK
<1>5. cur \in Entries
  BY DEF NodeTypeOK, Entries
<1>6. CASE Pop
  <2>1. queue # <<>> /\ queue \in Seq(Entries) /\ cur' = Head(queue)
    BY <1>0, <1>6 DEF Pop, TakeGap, PopGap, TypeOK
  <2>2. cur' \in Entries
    BY <2>1
  <2>3. /\ mainPc' = mainPc \/ mainPc' = "submit"
        /\ outcomes' = outcomes \/ Resolve(cur', "stale")
        /\ UNCHANGED <<nodeVars, tmpl, sent>>
    BY <1>6 DEF Pop
  <2>4. outcomes' \subseteq [hdr : Headers, idx : Windows, late : BOOLEAN, status : Statuses]
    BY <1>4, <2>2, <2>3 DEF Statuses, NodeTypeOK
  <2> QED
    BY <2>2, <2>3, <2>4 DEF NodeTypeOK, Entries
<1>7. CASE Withhold \/ Answer
  <2>1. Resolve(cur, "withheld") \/ Resolve(cur, "answered")
    BY <1>7 DEF Withhold, Answer
  <2>2. outcomes' \subseteq [hdr : Headers, idx : Windows, late : BOOLEAN, status : Statuses]
    BY <1>4, <1>5, <2>1 DEF Statuses
  <2> QED
    BY <1>7, <2>2 DEF Withhold, Answer, NodeTypeOK
<1>8. CASE Submit
  <2>1. [hdr |-> cur.hdr, prefix |-> work.tmpl, txs |-> tmpl, idx |-> cur.idx] \in Blocks
    BY <1>0, <1>5, NodeNumbers DEF Blocks, Entries, NodeTypeOK
  <2> QED
    BY <1>8, <2>1 DEF Submit, NodeTypeOK
<1>9. ASSUME NEW w \in Workers, WorkerStep(w) PROVE NodeTypeOK'
  BY <1>9 DEF WorkerStep, NodeTypeOK
<1> QED
  BY <1>1, <1>2, <1>3, <1>6, <1>7, <1>8, <1>9 DEF NodeNext, MainLoop

\* Main keeps the templates in order, and so do the node and the RPC thread.
LEMMA TemplatesStep ==
  ASSUME TypeOK, NodeTypeOK, TemplatesRise, [NodeNext]_allVars
  PROVE  TemplatesRise'
<1> USE DEF nodeVars, mainVars
<1>1. /\ node \in Int /\ fetched \in Templates /\ fetched \in Int /\ tmpl \in Int /\ Last \in Int
      /\ work.tmpl \in Int /\ tmpl # NoTemplate /\ node + 1 \in Int
  BY NodeNumbers DEF NodeTypeOK, Last
<1>2. ASSUME UNCHANGED <<work, node, fetched, prevHeight, stored, tmpl>> PROVE TemplatesRise'
  BY <1>2 DEF TemplatesRise, Last
<1>3. CASE NodeMoves
  BY <1>1, <1>3 DEF NodeMoves, TemplatesRise, Last, vars, farmVars
<1>4. CASE Fetch
  BY <1>1, <1>4 DEF Fetch, TemplatesRise, Last, vars, farmVars
<1>5. CASE Store
  <2>1. UNCHANGED <<work, node, fetched, tmpl>>
    BY <1>5 DEF Store, vars, farmVars
  <2>2. CASE Height(fetched) # prevHeight
    <3>1. stored' = fetched /\ prevHeight' = Height(fetched)
      BY <1>5, <2>2 DEF Store
    <3>2. fetched # NoTemplate
      BY <1>1, NodeNumbers
    <3>3. Last < fetched /\ tmpl <= Last
      BY <1>1, <2>2 DEF TemplatesRise, Last
    <3>4. Last' = fetched
      BY <3>1, <3>2 DEF Last
    <3> QED
      BY <1>1, <2>1, <3>1, <3>3, <3>4 DEF TemplatesRise
  <2>3. CASE Height(fetched) = prevHeight
    BY <1>2, <1>5, <2>1, <2>3 DEF Store
  <2> QED
    BY <2>2, <2>3
<1>6. CASE TakeTemplate
  <2>1. /\ stored # NoTemplate /\ tmpl' = stored /\ stored' = NoTemplate
        /\ UNCHANGED <<node, fetched, prevHeight>>
        /\ work'.tmpl = stored \/ work' = work
    BY <1>6 DEF TakeTemplate, FirstHeaders, RequestStop
  <2>2. Last' = stored /\ Last = stored
    BY <2>1 DEF Last
  <2>3. stored \in Int /\ work.tmpl <= stored
    BY <1>1, <2>1, <2>2 DEF TemplatesRise
  <2> QED
    BY <1>1, <2>1, <2>2, <2>3 DEF TemplatesRise
<1>7. CASE RotateHeader
  <2>1. work'.tmpl = work.tmpl /\ UNCHANGED <<node, fetched, prevHeight, stored, tmpl>>
    BY <1>7 DEF RotateHeader, Rotate, NextHeaders, UpdateWork
  <2> QED
    BY <2>1 DEF TemplatesRise, Last
<1>8. CASE \/ NoTemplateYet \/ Exhausted \/ NotExhausted \/ Pop \/ Withhold \/ Submit \/ Answer
           \/ QueueEmpty \/ LeaveMain \/ JoinRpc \/ JoinWorkers \/ Signal \/ RpcEnds \/ Over
           \/ UNCHANGED allVars
  BY <1>2, <1>8 DEF NoTemplateYet, Exhausted, CheckExhausted, NotExhausted, Pop, TakeGap, Withhold,
     Submit, Answer, QueueEmpty, LeaveMain, JoinRpc, JoinWorkers, Signal, RequestStop, RpcEnds,
     Over, allVars, vars, farmVars
<1>9. ASSUME NEW w \in Workers, WorkerStep(w) PROVE TemplatesRise'
  BY <1>2, <1>9, Quiet DEF WorkerStep
<1> QED
  BY <1>3, <1>4, <1>5, <1>6, <1>7, <1>8, <1>9 DEF NodeNext, MainLoop, RpcThread

\* Only two steps of main publish work.
LEMMA WorkStays ==
  ASSUME [NodeNext]_allVars, ~TakeTemplate, ~RotateHeader
  PROVE  UNCHANGED <<work, gen>>
<1>1. ASSUME NEW w \in Workers, Worker(w) PROVE UNCHANGED <<work, gen>>
  BY <1>1 DEF Worker, Snapshot, Adopt, ClaimNothing, Claim, TakeCpu, TakeBatch, TakeNext, Reshape,
     SieveOne, SieveFails, SieveDone, FlushPending, Scan, Mark, Drained, Wake, LeaveLoop, Exit,
     farmVars
<1>2. CASE MainLoop
  BY <1>2 DEF MainLoop, NoTemplateYet, Exhausted, CheckExhausted, NotExhausted, Pop, TakeGap,
     Withhold, Submit, Answer, QueueEmpty, LeaveMain, JoinRpc, JoinWorkers, vars, farmVars
<1>3. CASE NodeMoves \/ RpcThread \/ Signal \/ Over \/ UNCHANGED allVars
  BY <1>3 DEF NodeMoves, RpcThread, Fetch, Store, RpcEnds, Signal, RequestStop, Over, allVars,
     vars, farmVars
<1> QED
  BY <1>1, <1>2, <1>3 DEF NodeNext, WorkerStep

\* A block is added by Submit, of the gap main deals with, and by nothing else.
LEMMA BlocksAdded ==
  ASSUME [NodeNext]_allVars
  PROVE  /\ ~Submit => sent' = sent
         /\ mainPc' = "submit" => Pop \/ (mainPc = "submit" /\ cur' = cur /\ sent' = sent)
<1> USE DEF mainVars
<1>1. CASE MainLoop
  BY <1>1 DEF MainLoop, TakeTemplate, NoTemplateYet, Exhausted, NotExhausted, RotateHeader, Pop,
     Withhold, Submit, Answer, QueueEmpty, LeaveMain, JoinRpc, JoinWorkers
<1>2. CASE NodeMoves \/ RpcThread \/ Signal \/ Over \/ UNCHANGED allVars
  BY <1>2 DEF NodeMoves, RpcThread, Fetch, Store, RpcEnds, Signal, Over, allVars
<1>3. ASSUME NEW w \in Workers, WorkerStep(w) PROVE UNCHANGED mainVars
  BY <1>3 DEF WorkerStep
<1> QED
  BY <1>1, <1>2, <1>3 DEF NodeNext

\* Work that main publishes is newer than every block that was sent.
LEMMA SentBeforeStep ==
  ASSUME TypeOK, NodeTypeOK, NodeTypeOK', NInv, TemplatesRise, SentBefore, [NodeNext]_allVars
  PROVE  /\ SentBefore'
         /\ work' # work => \A b \in sent : b.hdr # work'
<1>1. /\ work.tmpl \in Int /\ work.nonce \in Nat /\ tmpl \in Int
      /\ \A b \in sent : b.hdr.tmpl \in Int /\ b.hdr.nonce \in Nat
  BY NodeNumbers DEF NodeTypeOK, Blocks
<1>2. CASE TakeTemplate
  <2>1. sent' = sent /\ stored # NoTemplate /\ (work' = work \/ work'.tmpl = stored)
    BY <1>2 DEF TakeTemplate, FirstHeaders, RequestStop
  <2>2. CASE work' = work
    BY <2>1, <2>2 DEF SentBefore
  <2>3. CASE work'.tmpl = stored
    <3>1. stored \in Int /\ work.tmpl < stored
      BY <1>1, <2>1, NodeNumbers DEF TemplatesRise, NodeTypeOK
    <3>2. \A b \in sent : b.hdr.tmpl < work'.tmpl
      BY <1>1, <2>3, <3>1 DEF SentBefore
    <3> QED
      BY <1>1, <2>1, <2>3, <3>1, <3>2 DEF SentBefore
  <2> QED
    BY <2>1, <2>2, <2>3
<1>3. CASE RotateHeader
  <2>1. sent' = sent
    BY <1>3 DEF RotateHeader
  <2>2. CASE work' = work
    BY <2>1, <2>2 DEF SentBefore
  <2>3. CASE work' \in NextHeaders
    <3>1. work'.tmpl = work.tmpl /\ work'.nonce > work.nonce /\ work'.nonce \in Nat
      BY <2>3, NodeNumbers DEF NextHeaders
    <3> QED
      BY <1>1, <2>1, <3>1 DEF SentBefore
  <2> QED
    BY <1>3, <2>2, <2>3 DEF RotateHeader, Rotate, UpdateWork
<1>4. CASE ~TakeTemplate /\ ~RotateHeader
  <2>1. work' = work
    BY <1>4, WorkStays
  <2>2. CASE Submit
    <3>1. cur.hdr = work
      BY <2>2 DEF Submit, NInv, TemplateFits
    <3>2. sent' = sent \cup {[hdr |-> cur.hdr, prefix |-> work.tmpl, txs |-> tmpl, idx |-> cur.idx]}
      BY <2>2 DEF Submit
    <3> QED
      BY <1>1, <2>1, <3>1, <3>2 DEF SentBefore
  <2>3. CASE ~Submit
    BY <2>1, <2>3, BlocksAdded DEF SentBefore
  <2> QED
    BY <2>1, <2>2, <2>3
<1> QED
  BY <1>2, <1>3, <1>4

\* Main's queue entry is of a gap that is gone, and was not sent.
LEMMA PopIsFresh ==
  ASSUME IInv, Settled, QueuedOnce, SentGone, [NodeNext]_allVars, Pop, mainPc' = "submit"
  PROVE  Gone(cur.idx)' /\ \A b \in sent : ~(b.hdr = cur'.hdr /\ b.idx = cur'.idx)
<1>1. /\ queue # <<>> /\ queue \in Seq(Entries) /\ queue' = Tail(queue) /\ cur' = Head(queue)
      /\ UNCHANGED <<gen, scanned, work>> /\ cur'.gen = gen
  BY DEF Pop, TakeGap, PopGap, IInv, TypeOK, history
<1>2. 1 \in 1 .. Len(queue) /\ cur' = queue[1] /\ Current(1)
  BY <1>1 DEF Current
<1>3. cur'.hdr = work /\ cur'.idx \in scanned
  BY <1>1, <1>2 DEF IInv, EntryUnderItsHeader
<1>4. ASSUME NEW i \in 1 .. Len(queue'), queue'[i].gen = gen' PROVE queue'[i].idx # cur'.idx
  <2>1. i \in Nat /\ i + 1 # 1 /\ i + 1 \in 1 .. Len(queue) /\ queue'[i] = queue[i + 1]
    BY <1>1
  <2> QED
    BY <1>1, <1>2, <1>4, <2>1 DEF QueuedOnce, Current
<1>5. Gone(cur.idx)'
  BY <1>1, <1>3, <1>4 DEF Gone, Current
<1>6. \A b \in sent : ~(b.hdr = cur'.hdr /\ b.idx = cur'.idx)
  BY <1>2, <1>3 DEF SentGone, Gone
<1> QED
  BY <1>5, <1>6

\* Nothing is queued, sent or searched before the first template.
LEMMA OnceInit == NodeInit => Once
<1> SUFFICES ASSUME NodeInit PROVE Once
  OBVIOUS
<1>1. scanned = {} /\ queue = <<>> /\ sent = {} /\ mainPc = "top"
  BY DEF NodeInit, FarmInit
<1>2. Settled /\ QueuedOnce /\ SentBefore /\ SentGone /\ CurGone /\ SubmittedOnce
  BY <1>1 DEF Settled, QueuedOnce, Current, SentBefore, SentGone, CurGone, SubmittedOnce
<1>3. TemplatesRise
  BY DEF NodeInit, FirstHeaders, TemplatesRise, Last, NoTemplate
<1> QED
  BY <1>2, <1>3, NodeTypeInit DEF Once

\* Every step of the program keeps each gap from being submitted again.
LEMMA OnceStep == IInv /\ NInv /\ Once /\ [NodeNext]_allVars => Once'
<1> SUFFICES ASSUME IInv, NInv, Once, [NodeNext]_allVars PROVE Once'
  OBVIOUS
<1>0. [FarmNext]_vars /\ TypeOK /\ NodeTypeOK'
  BY NodeIsFarm, NodeTypeStep DEF IInv, Once
<1>1. Settled' /\ QueuedOnce'
  BY <1>0, SettledStep, QueuedStep DEF Once
<1>2. TemplatesRise' /\ SentBefore' /\ (work' # work => \A b \in sent : b.hdr # work')
  BY <1>0, TemplatesStep, SentBeforeStep DEF Once
<1>3. ASSUME NEW x, Gone(x), gen' = gen PROVE Gone(x)'
  BY <1>0, <1>3, GoneStays DEF Once
<1>4. CASE TakeTemplate \/ RotateHeader
  <2>1. sent' = sent /\ mainPc' # "submit"
    BY <1>4 DEF TakeTemplate, RotateHeader
  <2>2. work' # work \/ gen' = gen
    <3>1. ASSUME UpdateWork(work') PROVE work' # work
      <4>1. CASE TakeTemplate
        <5>1. NewWork => work'.tmpl = stored /\ stored # NoTemplate
          BY <4>1 DEF TakeTemplate, FirstHeaders, RequestStop, StopFarm, NewWork
        <5>2. work.tmpl \in Int /\ tmpl \in Int /\ (stored # NoTemplate => stored \in Int)
          BY <1>0, NodeNumbers DEF Once, NodeTypeOK
        <5>3. ~NewWork => gen' = gen
          BY <4>1 DEF TakeTemplate, RequestStop
        <5>4. gen' # gen
          BY <1>0, <3>1, FieldTypes DEF UpdateWork
        <5> QED
          BY <5>1, <5>2, <5>3, <5>4 DEF Once, TemplatesRise
      <4>2. CASE RotateHeader
        <5>1. gen' # gen
          BY <1>0, <3>1, FieldTypes DEF UpdateWork
        <5>2. work' \in NextHeaders
          BY <4>2, <5>1 DEF RotateHeader, Rotate, UpdateWork
        <5>3. work'.nonce > work.nonce /\ work.nonce \in Nat
          BY <1>0, <5>2, NodeNumbers DEF NextHeaders, Once
        <5> QED
          BY <5>3
      <4> QED
        BY <1>4, <4>1, <4>2
    <3>2. gen' = gen \/ UpdateWork(work')
      <4>1. gen' # gen => \E h \in Headers : UpdateWork(h)
        BY <1>0, WorkChanges
      <4> QED
        BY <4>1 DEF UpdateWork
    <3> QED
      BY <3>1, <3>2
  <2>3. SentGone'
    BY <1>2, <1>3, <2>1, <2>2 DEF Once, SentGone
  <2> QED
    BY <1>0, <1>1, <1>2, <2>1, <2>3 DEF Once, CurGone, SubmittedOnce
<1>5. CASE ~TakeTemplate /\ ~RotateHeader
  <2>1. work' = work /\ gen' = gen
    BY <1>5, WorkStays
  <2>2. SentGone'
    <3>1. CASE Submit
      <4>1. /\ sent' = sent \cup {[hdr |-> cur.hdr, prefix |-> work.tmpl, txs |-> tmpl,
                                   idx |-> cur.idx]}
            /\ Gone(cur.idx)
        BY <3>1 DEF Submit, Once, CurGone
      <4> QED
        BY <1>3, <2>1, <4>1 DEF Once, SentGone
    <3>2. CASE ~Submit
      BY <1>3, <2>1, <3>2, BlocksAdded DEF Once, SentGone
    <3> QED
      BY <3>1, <3>2
  <2>3. CurGone' /\ SubmittedOnce'
    <3>1. CASE mainPc' # "submit"
      BY <3>1 DEF CurGone, SubmittedOnce
    <3>2. CASE mainPc' = "submit" /\ Pop
      <4>1. sent' = sent
        BY <3>2 DEF Pop
      <4> QED
        BY <3>2, <4>1, PopIsFresh DEF Once, CurGone, SubmittedOnce
    <3>3. CASE mainPc = "submit" /\ cur' = cur /\ sent' = sent
      BY <1>3, <2>1, <3>3 DEF Once, CurGone, SubmittedOnce
    <3> QED
      BY <3>1, <3>2, <3>3, BlocksAdded
  <2> QED
    BY <1>0, <1>1, <1>2, <2>2, <2>3 DEF Once
<1> QED
  BY <1>4, <1>5

\* The types hold, each window is searched once under its header, and no block is
\* submitted a second time.
THEOREM NodeTypeCorrect == NodeSpec => [](TypeOK /\ NodeTypeOK)
<1>1. IInv /\ Once => TypeOK /\ NodeTypeOK
  BY DEF IInv, Once
<1> QED
  BY <1>1, NInvInit, NInvStep, OnceInit, OnceStep, NodeFarmInvariant, PTL DEF NodeSpec

\* No gap is submitted twice, whatever the workers that raced a change of work do.
THEOREM GapsSubmittedOnce == NodeSpec => []SubmittedOnce
<1>1. Once => SubmittedOnce
  BY DEF Once
<1> QED
  BY <1>1, NInvInit, NInvStep, OnceInit, OnceStep, NodeFarmInvariant, PTL DEF NodeSpec
=============================================================================
