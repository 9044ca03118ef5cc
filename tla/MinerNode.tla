------------------------------ MODULE MinerNode ------------------------------
(***************************************************************************)
(* Node mode: the main loop and the RPC polling thread of main.c, with the *)
(* farm of MinerFarm and a Gapcoin node that moves to other templates.     *)
(*                                                                         *)
(* The main thread is the only one that publishes work, so what it reads   *)
(* of the generation stays true until its own next step.  A critical       *)
(* section of g_rpc_lock is one step; a submitblock call is two, and       *)
(* everything else may move in between.                                    *)
(***************************************************************************)
EXTENDS MinerFarm

CONSTANTS
  Templates,      \* 1 .. n: the templates the node hands out, in its order
  Height(_)       \* of each template

ASSUME NodeAssumption ==
  /\ Templates = 1 .. Cardinality(Templates)
  /\ Templates # {} /\ IsFiniteSet(Templates)
  /\ \A h \in Headers : h.tmpl \in Templates /\ h.nonce \in Nat
  /\ \A t \in Templates : Height(t) \in Nat

VARIABLES
  node,       \* the node's current template
  rpcPc,      \* the RPC thread: fetching, with a template in hand, or gone
  fetched,    \* the template it fetched last
  prevHeight, \* g_rpc_prev_height
  stored,     \* g_rpc_template; NoTemplate when g_new_block_ready is clear
  mainPc,     \* where the main loop is
  tmpl,       \* main's template, whose transactions a block is made of
  cur,        \* the queue entry main is dealing with
  sent,       \* history: every block handed to submitblock
  outcomes    \* history: the gaps main resolved, with the status it logged
nodeVars == <<node, rpcPc, fetched, prevHeight, stored>>
mainVars == <<mainPc, tmpl, cur, sent, outcomes>>

allVars == <<vars, nodeVars, mainVars>>

NoTemplate == 0

\* gapcoin_gbt_work_hash from nonce 0: the template's first valid header.
FirstHeaders(t) ==
  {h \in Headers : h.tmpl = t /\ \A k \in Headers : k.tmpl = t => h.nonce <= k.nonce}

\* A template gapcoin_gbt_work_init cannot use: no parent or no difficulty.
Usable(t) == FirstHeaders(t) # {}

-----------------------------------------------------------------------------
(* The node and the thread that polls it                                    *)

\* A block arrives, or the chain is reorganized.
NodeMoves ==
  /\ node + 1 \in Templates
  /\ node' = node + 1
  /\ UNCHANGED <<vars, rpcPc, fetched, prevHeight, stored, mainVars>>

\* g_rpc_running, which main clears once it has left its loop.
RpcRunning == mainPc \notin {"joinRpc", "joinWorkers", "over"}

\* Mutant: the thread does not look at g_rpc_running.
FetchForever ==
  /\ rpcPc = "fetch"
  /\ fetched' = node
  /\ rpcPc' = "store"
  /\ UNCHANGED <<vars, node, prevHeight, stored, mainVars>>

\* gapcoin_rpc_get_block_template; a call that fails is tried again.
Fetch ==
  /\ rpcPc = "fetch" /\ RpcRunning
  /\ fetched' = node
  /\ rpcPc' = "store"
  /\ UNCHANGED <<vars, node, prevHeight, stored, mainVars>>

\* Mutant: the height is remembered before it is compared.
StoreComparesLate ==
  /\ rpcPc = "store"
  /\ prevHeight' = Height(fetched) /\ rpcPc' = "fetch"
  /\ UNCHANGED <<vars, node, stored, fetched, mainVars>>

\* Signal main only when the height changed; the newest template replaces one
\* that main has not taken.
Store ==
  /\ rpcPc = "store"
  /\ IF Height(fetched) # prevHeight
     THEN stored' = fetched /\ prevHeight' = Height(fetched)
     ELSE UNCHANGED <<stored, prevHeight>>
  /\ rpcPc' = "fetch"
  /\ UNCHANGED <<vars, node, fetched, mainVars>>

RpcEnds ==
  /\ rpcPc = "fetch" /\ ~RpcRunning
  /\ rpcPc' = "gone"
  /\ UNCHANGED <<vars, node, fetched, prevHeight, stored, mainVars>>

-----------------------------------------------------------------------------
(* The main loop                                                            *)

\* Top of the loop: take the template the RPC thread left, if any.
TakeTemplate ==
  /\ mainPc = "top" /\ ~stop /\ stored # NoTemplate
  /\ tmpl' = stored
  /\ stored' = NoTemplate
  /\ \/ NewWork /\ work' \in FirstHeaders(stored)
     \/ ~Usable(stored) /\ RequestStop
  /\ mainPc' = "check"
  /\ UNCHANGED <<node, rpcPc, fetched, prevHeight, cur, sent, outcomes>>

NoTemplateYet ==
  /\ mainPc = "top" /\ ~stop /\ stored = NoTemplate
  /\ mainPc' = "check"
  /\ UNCHANGED <<vars, nodeVars, tmpl, cur, sent, outcomes>>

\* Mutant: rotates as soon as every window is claimed.
ExhaustedByClaims ==
  /\ mainPc = "check" /\ nonce >= NumWindows /\ exhausted' = TRUE
  /\ mainPc' = "rotate"
  /\ UNCHANGED <<work, gen, nonce, completed, stop, queue, workerVars, history,
                 nodeVars, tmpl, cur, sent, outcomes>>

\* miner_farm_work_exhausted
Exhausted ==
  /\ mainPc = "check" /\ CheckExhausted
  /\ mainPc' = "rotate"
  /\ UNCHANGED <<nodeVars, tmpl, cur, sent, outcomes>>
NotExhausted ==
  /\ mainPc = "check" /\ ~WorkExhausted
  /\ mainPc' = "flush"
  /\ UNCHANGED <<vars, nodeVars, tmpl, cur, sent, outcomes>>

\* The next header nonce of the same template.
RotateHeader ==
  /\ mainPc = "rotate" /\ Rotate
  /\ mainPc' = "flush"
  /\ UNCHANGED <<nodeVars, tmpl, cur, sent, outcomes>>

Resolve(e, status) ==
  outcomes' = outcomes \cup {[hdr |-> e.hdr, idx |-> e.idx, late |-> e.late,
                              status |-> status]}

\* Mutant: flushes the queue without looking at the generation.
PopAnyGeneration ==
  /\ mainPc = "flush" /\ TakeGap
  /\ cur' = Head(queue)
  /\ mainPc' = "submit" /\ UNCHANGED outcomes
  /\ UNCHANGED <<nodeVars, tmpl, sent>>

\* Take a gap from the queue; one of another generation is dropped as stale.
Pop ==
  /\ mainPc = "flush" /\ TakeGap
  /\ cur' = Head(queue)
  /\ IF cur'.gen # gen
     THEN Resolve(cur', "stale") /\ UNCHANGED mainPc
     ELSE mainPc' = "submit" /\ UNCHANGED outcomes
  /\ UNCHANGED <<nodeVars, tmpl, sent>>

\* Below the exact Q48 target ("below-target"), or the block could not be
\* assembled ("assemble-failed").
Withhold ==
  /\ mainPc = "submit"
  /\ Resolve(cur, "withheld")
  /\ mainPc' = "flush"
  /\ UNCHANGED <<vars, nodeVars, tmpl, cur, sent>>

\* The block: the active header with the nonce of the entry, and the
\* transactions of main's template.
Submit ==
  /\ mainPc = "submit"
  /\ sent' = sent \cup {[hdr |-> cur.hdr, prefix |-> work.tmpl, txs |-> tmpl,
                         idx |-> cur.idx]}
  /\ mainPc' = "await"
  /\ UNCHANGED <<vars, nodeVars, tmpl, cur, outcomes>>

\* The node's answer, "accepted" or "rejected"; a call that times out counts as
\* rejected.
Answer ==
  /\ mainPc = "await"
  /\ Resolve(cur, "answered")
  /\ mainPc' = "flush"
  /\ UNCHANGED <<vars, nodeVars, tmpl, cur, sent>>

QueueEmpty ==
  /\ mainPc = "flush" /\ queue = <<>>
  /\ mainPc' = "top"
  /\ UNCHANGED <<vars, nodeVars, tmpl, cur, sent, outcomes>>

\* Shutdown: stop the RPC thread, join it, join the workers.
LeaveMain ==
  /\ mainPc = "top" /\ stop
  /\ mainPc' = "joinRpc"
  /\ UNCHANGED <<vars, nodeVars, tmpl, cur, sent, outcomes>>
JoinRpc ==
  /\ mainPc = "joinRpc" /\ rpcPc = "gone"
  /\ mainPc' = "joinWorkers"
  /\ UNCHANGED <<vars, nodeVars, tmpl, cur, sent, outcomes>>
JoinWorkers ==
  /\ mainPc = "joinWorkers" /\ Done
  /\ mainPc' = "over"
  /\ UNCHANGED <<vars, nodeVars, tmpl, cur, sent, outcomes>>

MainLoop ==
  \/ TakeTemplate \/ NoTemplateYet \/ Exhausted \/ NotExhausted \/ RotateHeader
  \/ Pop \/ Withhold \/ Submit \/ Answer \/ QueueEmpty
  \/ LeaveMain \/ JoinRpc \/ JoinWorkers

Signal == RequestStop /\ UNCHANGED <<nodeVars, mainVars>>

Over == mainPc = "over" /\ UNCHANGED allVars

-----------------------------------------------------------------------------
NoEntry == [gen |-> NoGen, hdr |-> work, idx |-> 0, late |-> FALSE]

NodeInit ==
  /\ FarmInit
  /\ work \in FirstHeaders(1)
  /\ node = 1 /\ rpcPc = "fetch" /\ fetched = 1
  /\ prevHeight = Height(1) /\ stored = NoTemplate
  /\ mainPc = "top" /\ tmpl = 1 /\ cur = NoEntry
  /\ sent = {} /\ outcomes = {}

WorkerStep(w) == Worker(w) /\ UNCHANGED <<nodeVars, mainVars>>
RpcThread == Fetch \/ Store \/ RpcEnds

NodeNext ==
  \/ NodeMoves \/ RpcThread \/ MainLoop \/ Signal \/ Over
  \/ \E w \in Workers : WorkerStep(w)

NodeSpec == NodeInit /\ [][NodeNext]_allVars

\* Every thread keeps running; a node that is asked again answers in the end,
\* and a submitblock call returns (it has a timeout of 60 s).
NodeFairness ==
  /\ \A w \in Workers : WF_allVars(WorkerStep(w))
  /\ WF_allVars(RpcThread) /\ WF_allVars(MainLoop)

FairNodeSpec == NodeSpec /\ NodeFairness

-----------------------------------------------------------------------------
Blocks == [hdr : Headers, prefix : Templates, txs : Templates, idx : Windows]
Statuses == {"stale", "withheld", "answered"}

\* Every variable of the node part stays in its domain.
NodeTypeOK ==
  /\ node \in Templates /\ fetched \in Templates /\ tmpl \in Templates
  /\ rpcPc \in {"fetch", "store", "gone"}
  /\ prevHeight \in Nat /\ stored \in Templates \cup {NoTemplate}
  /\ mainPc \in {"top", "check", "rotate", "flush", "submit", "await",
                 "joinRpc", "joinWorkers", "over"}
  /\ cur \in [gen : Nat, hdr : Headers, idx : Windows, late : BOOLEAN]
  /\ sent \subseteq Blocks
  /\ outcomes \subseteq [hdr : Headers, idx : Windows, late : BOOLEAN, status : Statuses]

\* A block is made of one template: the one its gap was found under, whose
\* header main submits and whose transactions it appends.  Only a template main
\* cannot use, which stops the farm, comes between the two.
OneTemplatePerBlock ==
  \A b \in sent : b.prefix = b.hdr.tmpl /\ (b.txs = b.prefix \/ stop)

\* No gap is submitted twice, although a worker that raced a change of work may
\* search a window of the old header again.
SubmittedOnce ==
  mainPc = "submit" => ~ \E b \in sent : b.hdr = cur.hdr /\ b.idx = cur.idx

\* The farm sees nothing of main but the calls MinerFarm assumes: what is proved
\* there of the farm holds with the real main loop.
FarmUsedAsAssumed == FarmSpec

\* A template whose height the miner has not seen replaces its work, unless the
\* node has moved on or the miner stops: the handshake loses no block.
NewHeightIsMined ==
  \A t \in Templates :
    (node = t) ~> (node # t \/ stop \/ Height(work.tmpl) = Height(t))

\* The queue drains: every gap gets its verdict, and the workers cannot keep
\* main in its flush loop for ever (they run out of windows, and only main can
\* give them others).
QueueDrains ==
  LET settled == queue = <<>> /\ mainPc \notin {"submit", "await"}
  IN  ~settled ~> (stop \/ settled)

\* Shutdown joins every thread, also with a submission or a fetch under way.
ShutdownCompletes == stop ~> (mainPc = "over" /\ rpcPc = "gone" /\ Done)

\* README.md of the repository: a gap is "stale" only if its header had already
\* rotated when the gap was queued.
StaleOnlyIfLate == \A o \in outcomes : o.status = "stale" => o.late
=============================================================================
