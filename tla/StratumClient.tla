---------------------------- MODULE StratumClient ----------------------------
(***************************************************************************)
(* Pool mode: the stratum client of stratum.c, its receive thread, the     *)
(* main thread that polls it for work and submits shares to it, and a pool *)
(* behind a connection that can drop.                                      *)
(*                                                                         *)
(* A critical section of send_lock or work_lock is one step.  A share is   *)
(* submitted in two of them (the id, then the bytes), published work       *)
(* resets the duplicate ring in a second one, and a reconnect gives        *)
(* send_lock away in its middle, to report the shares it lost.             *)
(***************************************************************************)
EXTENDS Integers, Sequences, SequencesExt

CONSTANTS
  Headers,     \* 1 .. n: the templates the pool goes through, in its order
  Targets,     \* share difficulties; the pool starts with 1
  Gaps,        \* the gaps the farm finds under one header
  PendingCap,  \* STRATUM_SUBMIT_ID_RING
  DedupCap,    \* STRATUM_DEDUP_RING
  MaxChanges,  \* bound: times the pool changes its template or its target
  MaxShares,   \* bound: submissions by main
  MaxTroubles  \* bound: connections the network drops, and refreshes because
               \* the timer ran out, together

ASSUME StratumAssumption ==
  /\ Headers \subseteq Nat \ {0} /\ Targets \subseteq Nat \ {0}
  /\ 1 \in Headers /\ 1 \in Targets
  /\ PendingCap \in Nat /\ DedupCap \in Nat \ {0}
  /\ MaxChanges \in Nat /\ MaxShares \in Nat /\ MaxTroubles \in Nat

VARIABLES
  poolWork,   \* the pool: the work it is at
  told,       \* history: the work in its last push or answer (delivered or not)
  again,      \* history: headers it has gone back to in an answer
  poolSaid,   \* history: its answers to submissions, <<attempt, answer>>
  retargeted, \* history: it has moved the share target
  link,       \* the socket: "up", "dropped" by the peer, or "none" (sock is -1, or
              \* the system knows that it is dead)
  toPool,     \* on the wire
  fromPool,
  drops,      \* history, for MaxTroubles
  running, connected, msgId, pending, dedup,
  work,       \* work_data and share_ndiff; NoWork while work_ready is 0
  workNew, rejects,
  due,        \* last_request is 0: the next idle tick asks for work
  timers,     \* history, for MaxTroubles
  recvPc,     \* the receive thread: at its loop, or inside one of two calls
  lost,       \* the pending ring it saved, to be reported unresolved
  mainPc,
  sendId,     \* the id of the share main is about to send
  cur,        \* the work main mines
  found,      \* the gaps the farm has queued since it was given cur
  shares,     \* history: the payload of every attempt to submit
  admitted,   \* history: the attempts that got an id, <<attempt, ring had room>>
  log         \* history: what was recorded of them, <<attempt, status>>
poolVars   == <<poolWork, told, again, poolSaid, retargeted>>
wireVars   == <<link, toPool, fromPool, drops>>
shareVars  == <<msgId, pending, dedup>>
workVars   == <<work, workNew>>
timerVars  == <<rejects, due, timers>>
recvVars   == <<connected, recvPc, lost>>
mainVars   == <<running, mainPc, sendId, cur, found, shares, admitted>>
vars == <<poolVars, wireVars, shareVars, workVars, timerVars, recvVars, mainVars, log>>

Works  == [header : Headers, target : Targets]
NoWork == [header |-> 0, target |-> 0]

\* What a line of the protocol says.
Submission(id, a) == [kind |-> "submit", id |-> id, attempt |-> a]
Request(id)       == [kind |-> "request", id |-> id]
Verdict(id, v)    == [kind |-> "verdict", id |-> id, says |-> v]
Reply(id, w)      == [kind |-> "work", id |-> id, work |-> w]
Notify(w)         == [kind |-> "notify", work |-> w]
NewTarget(t)      == [kind |-> "target", target |-> t]

-----------------------------------------------------------------------------
(* The pool and the network                                                 *)

Deliver(m) == fromPool' = IF link = "up" THEN Append(fromPool, m) ELSE fromPool

MayChange == poolWork.header - 1 + (IF retargeted THEN 1 ELSE 0) < MaxChanges

\* The pool moves to its next template and pushes it.
PoolRotates ==
  /\ MayChange /\ poolWork.header + 1 \in Headers
  /\ poolWork' = [poolWork EXCEPT !.header = @ + 1]
  /\ told' = poolWork' /\ Deliver(Notify(told'))
  /\ UNCHANGED <<again, poolSaid, retargeted, link, toPool, drops, shareVars, workVars,
                 timerVars, recvVars, mainVars, log>>

\* It moves the share target, with either kind of push.
PoolRetargets ==
  /\ MayChange /\ ~retargeted
  /\ \E t \in Targets \ {poolWork.target} :
       /\ poolWork' = [poolWork EXCEPT !.target = t]
       /\ \/ told' = [told EXCEPT !.target = t] /\ Deliver(NewTarget(t))
          \/ told' = poolWork' /\ Deliver(Notify(told'))
  /\ retargeted' = TRUE
  /\ UNCHANGED <<again, poolSaid, link, toPool, drops, shareVars, workVars, timerVars,
                 recvVars, mainVars, log>>

\* What an answer may carry: the production pool keeps answering, in a new
\* session too, with the template it had cached when a session started, while
\* it pushes newer ones.  Any template so far, then, under the pool's first
\* target or its present one.
Templates ==
  { w \in Works : w.header <= poolWork.header /\ w.target \in {1, poolWork.target} }

AnswerWork(id) ==
  \E w \in Templates :
    /\ fromPool' = Append(fromPool, Reply(id, w))
    /\ told' = w
    /\ again' = IF w.header = told.header THEN again ELSE again \cup {w.header}

\* It answers a line; some pools answer a submission with work, or with a
\* result that is neither.
PoolAnswers ==
  /\ link = "up" /\ toPool # <<>>
  /\ toPool' = Tail(toPool)
  /\ LET m == Head(toPool) IN
     \/ /\ m.kind = "request"
        /\ AnswerWork(m.id)
        /\ UNCHANGED poolSaid
     \/ /\ m.kind = "submit"
        /\ \E v \in {"accepted", "rejected"} :
             /\ fromPool' = Append(fromPool, Verdict(m.id, v))
             /\ poolSaid' = poolSaid \cup {<<m.attempt, v>>}
        /\ UNCHANGED <<told, again>>
     \/ /\ m.kind = "submit"
        /\ \/ AnswerWork(m.id)
           \/ /\ fromPool' = Append(fromPool, Verdict(m.id, "odd"))
              /\ UNCHANGED <<told, again>>
        /\ poolSaid' = poolSaid \cup {<<m.attempt, "neither">>}
  /\ UNCHANGED <<poolWork, retargeted, link, drops, shareVars, workVars, timerVars,
                 recvVars, mainVars, log>>

\* The connection drops: what the pool has not read is lost, and of what it
\* sent a prefix arrives.
LinkDrops ==
  /\ link = "up" /\ drops + timers < MaxTroubles
  /\ link' = "dropped"
  /\ drops' = drops + 1
  /\ toPool' = <<>>
  /\ \E n \in 0 .. Len(fromPool) : fromPool' = SubSeq(fromPool, 1, n)
  /\ UNCHANGED <<poolVars, shareVars, workVars, timerVars, recvVars, mainVars, log>>

\* stratum_send_raw.  The system takes what it is given on a connection it
\* does not know to be dead.
SendOk(m) ==
  /\ \/ link = "up" /\ toPool' = Append(toPool, m)
     \/ link = "dropped" /\ UNCHANGED toPool
  /\ UNCHANGED link
SendFails == link # "up" /\ link' = "none" /\ UNCHANGED toPool

-----------------------------------------------------------------------------
(* The receive thread                                                       *)

\* Mutant: the loop does not look at running.
NeverStops == TRUE

\* The loop's condition.
Receives == running

\* Mutant: every message has the id of the first.
SameId == 1

\* The id of the next message.
NextId == msgId

\* pending_take_locked.
IsPending(id) == \E i \in DOMAIN pending : pending[i].id = id
PlaceOf(id)   == CHOOSE i \in DOMAIN pending : pending[i].id = id
AttemptOf(id) == pending[PlaceOf(id)].attempt
Without(id)   == IF IsPending(id) THEN RemoveAt(pending, PlaceOf(id)) ELSE pending

\* Mutant: the shares of the old connection stay in the ring.
KeepPending == lost' = <<>> /\ UNCHANGED pending

\* Mutant: they are dropped, and nothing is reported.
DropPending == lost' = <<>> /\ pending' = <<>>

\* pending_flush_unresolved_locked.
FlushPending == lost' = pending /\ pending' = <<>>

\* stratum_reconnect_locked, up to where it gives send_lock away.
Reconnect ==
  /\ recvPc = "loop" /\ Receives /\ ~connected
  /\ link' = "up" /\ toPool' = <<>> /\ fromPool' = <<>>
  /\ FlushPending
  /\ recvPc' = "reporting"
  /\ UNCHANGED <<poolVars, drops, msgId, dedup, workVars, timerVars, connected,
                 mainVars, log>>

\* The callbacks, and the rest of it: the session's first request.
Reconnected ==
  /\ recvPc = "reporting"
  /\ log' = log \cup {<<lost[i].attempt, "unresolved">> : i \in DOMAIN lost}
  /\ lost' = <<>>
  /\ msgId' = NextId + 1
  /\ \/ /\ SendOk(Request(NextId))
        /\ connected' = TRUE /\ rejects' = 0 /\ due' = FALSE
     \/ /\ SendFails
        /\ UNCHANGED <<connected, rejects, due>>
  /\ recvPc' = "loop"
  /\ UNCHANGED <<poolVars, fromPool, drops, pending, dedup, workVars, timers, mainVars>>

\* Mutant: every work message is published.
PublishAlways(w) == work' = w /\ workNew' = TRUE /\ recvPc' = "resetting"

\* parse_work_params.
Publish(w) ==
  IF work = w
  THEN UNCHANGED <<workVars, recvPc>>
  ELSE work' = w /\ workNew' = TRUE /\ recvPc' = "resetting"

\* The second half of it: dedup_reset_locked.
ResetDedup ==
  /\ recvPc = "resetting"
  /\ dedup' = <<>>
  /\ recvPc' = "loop"
  /\ UNCHANGED <<poolVars, wireVars, msgId, pending, workVars, timerVars, connected,
                 lost, mainVars, log>>

\* parse_set_difficulty.
SetTarget(t) ==
  /\ work' = [work EXCEPT !.target = t]
  /\ workNew' = TRUE
  /\ UNCHANGED recvPc

\* Mutant: an answer leaves its share in the ring.
CreditOnly(id, v) ==
  /\ log' = log \cup {<<AttemptOf(id), v>>}
  /\ UNCHANGED pending

\* A share's verdict: pending_take_locked and pool_verdict_cb.
Credit(id, v) ==
  /\ pending' = Without(id)
  /\ log' = log \cup {<<AttemptOf(id), v>>}

\* Two rejections in a row make a refresh due.
Count(v) ==
  IF v = "accepted"
  THEN rejects' = 0 /\ UNCHANGED due
  ELSE /\ rejects' = IF rejects < 2 THEN rejects + 1 ELSE 2
       /\ due' = (due \/ rejects >= 1)

HandleVerdict(m) ==
  /\ m.kind = "verdict"
  /\ \/ IsPending(m.id) /\ m.says # "odd" /\ Credit(m.id, m.says) /\ Count(m.says)
     \/ /\ IsPending(m.id) /\ m.says = "odd"
        /\ pending' = Without(m.id) /\ UNCHANGED <<log, rejects, due>>
     \/ ~IsPending(m.id) /\ UNCHANGED <<pending, log, rejects, due>>
  /\ UNCHANGED <<workVars, recvPc>>

\* Mutant: work is taken only from the answer to a request.
ReplyOnly(m) ==
  /\ m.kind \in {"work", "notify"}
  /\ IF m.kind = "work" THEN Publish(m.work) /\ pending' = Without(m.id)
                        ELSE UNCHANGED <<workVars, recvPc, pending>>
  /\ UNCHANGED <<log, rejects, due>>

\* Work, in an answer (to a submission, too) or in a push of any name.
HandleWork(m) ==
  /\ m.kind \in {"work", "notify"}
  /\ Publish(m.work)
  /\ pending' = IF m.kind = "work" THEN Without(m.id) ELSE pending
  /\ UNCHANGED <<log, rejects, due>>

HandleTarget(m) ==
  m.kind = "target" /\ SetTarget(m.target) /\ UNCHANGED <<pending, log, rejects, due>>

\* handle_line.
HandleLine ==
  /\ recvPc = "loop" /\ connected /\ fromPool # <<>>
  /\ fromPool' = Tail(fromPool)
  /\ LET m == Head(fromPool) IN HandleVerdict(m) \/ HandleWork(m) \/ HandleTarget(m)
  /\ UNCHANGED <<poolVars, link, toPool, drops, msgId, dedup, timers, connected, lost,
                 mainVars>>

\* An idle tick that asks for work, because a refresh is due or the timer ran out.
Refresh ==
  /\ recvPc = "loop" /\ connected /\ fromPool = <<>> /\ link # "none"
  /\ \/ due /\ UNCHANGED timers
     \/ ~due /\ drops + timers < MaxTroubles /\ timers' = timers + 1
  /\ msgId' = NextId + 1
  /\ \/ SendOk(Request(NextId)) /\ rejects' = 0 /\ due' = FALSE
     \/ SendFails /\ UNCHANGED <<rejects, due>>
  /\ UNCHANGED <<poolVars, fromPool, drops, pending, dedup, workVars, recvVars,
                 mainVars, log>>

\* recv fails: the peer is gone, or main has closed the socket.
Disconnected ==
  /\ recvPc = "loop" /\ connected /\ fromPool = <<>> /\ link # "up"
  /\ link' = "none"
  /\ connected' = FALSE
  /\ UNCHANGED <<poolVars, toPool, fromPool, drops, shareVars, workVars, timerVars,
                 recvPc, lost, mainVars, log>>

RecvEnds ==
  /\ recvPc = "loop" /\ ~Receives
  /\ link' = "none" /\ connected' = FALSE /\ recvPc' = "gone"
  /\ UNCHANGED <<poolVars, toPool, fromPool, drops, shareVars, workVars, timerVars,
                 lost, mainVars, log>>

-----------------------------------------------------------------------------
(* The main thread                                                          *)

\* stratum_wait_work at startup, stratum_poll_work in the loop: main mines the
\* published work from its start.
TakeWork ==
  /\ \/ mainPc = "waiting" /\ work.header # 0 /\ mainPc' = "mining"
     \/ mainPc = "mining" /\ work.header # 0 /\ workNew /\ UNCHANGED mainPc
  /\ cur' = work
  /\ found' = {}
  /\ workNew' = FALSE
  /\ UNCHANGED <<poolVars, wireVars, shareVars, work, timerVars, recvVars, running,
                 sendId, shares, admitted, log>>

Attempt == Len(shares)

\* dedup_seen_locked.
Remember(s) ==
  dedup' = IF Len(dedup) < DedupCap THEN Append(dedup, s) ELSE Append(Tail(dedup), s)

\* A share is tracked while the ring has room.
Pend(a) ==
  pending' = IF Len(pending) < PendingCap
             THEN Append(pending, [id |-> NextId, attempt |-> a]) ELSE pending

\* A gap leaves the queue; stratum_submit_share, up to where it has an id or
\* gives up.
Submit ==
  /\ mainPc = "mining" /\ Attempt < MaxShares
  /\ \E g \in Gaps \ found :
       LET s == [header |-> cur.header, gap |-> g] IN
       /\ found' = found \cup {g}
       /\ shares' = Append(shares, s)
       /\ \/ /\ ~connected \/ Contains(dedup, s)
             /\ mainPc' = "refused"
             /\ UNCHANGED <<shareVars, sendId, admitted>>
          \/ /\ connected /\ ~Contains(dedup, s)
             /\ Remember(s)
             /\ Pend(Attempt + 1)
             /\ sendId' = NextId
             /\ msgId' = NextId + 1
             /\ admitted' = admitted \cup {<<Attempt + 1, Len(pending) < PendingCap>>}
             /\ mainPc' = "sending"
  /\ UNCHANGED <<poolVars, wireVars, workVars, timerVars, recvVars, running, cur, log>>

\* The rest of it: the bytes are sent, under a new hold of send_lock.
Send ==
  /\ mainPc = "sending"
  /\ \/ /\ SendOk(Submission(sendId, Attempt))
        /\ log' = log \cup {<<Attempt, "queued">>}
        /\ mainPc' = "mining"
        /\ UNCHANGED pending
     \/ /\ SendFails
        /\ pending' = Without(sendId)
        /\ mainPc' = "refused"
        /\ UNCHANGED log
  /\ UNCHANGED <<poolVars, fromPool, drops, msgId, dedup, workVars, timerVars, recvVars,
                 running, sendId, cur, found, shares, admitted>>

\* Main's record of a share the client did not queue: it asks whether the
\* client is connected, now.
RecordRefusal ==
  /\ mainPc = "refused"
  /\ log' = log \cup {<<Attempt, IF connected THEN "duplicate" ELSE "send-failed">>}
  /\ mainPc' = "mining"
  /\ UNCHANGED <<poolVars, wireVars, shareVars, workVars, timerVars, recvVars, running,
                 sendId, cur, found, shares, admitted>>

\* The first half of stratum_disconnect: when the program ends, or gets no
\* work to start with.
Leave ==
  /\ mainPc \in {"waiting", "mining"}
  /\ running' = FALSE
  /\ link' = "none"
  /\ mainPc' = "joining"
  /\ UNCHANGED <<poolVars, toPool, fromPool, drops, shareVars, workVars, timerVars,
                 recvVars, sendId, cur, found, shares, admitted, log>>

\* The rest of it.
JoinRecv ==
  /\ mainPc = "joining" /\ recvPc = "gone"
  /\ mainPc' = "over"
  /\ UNCHANGED <<poolVars, wireVars, shareVars, workVars, timerVars, recvVars, running,
                 sendId, cur, found, shares, admitted, log>>

-----------------------------------------------------------------------------
Init ==
  /\ poolWork = [header |-> 1, target |-> 1]
  /\ told = poolWork /\ again = {} /\ poolSaid = {} /\ retargeted = FALSE
  /\ link = "none" /\ toPool = <<>> /\ fromPool = <<>> /\ drops = 0
  /\ running = TRUE /\ connected = FALSE
  /\ msgId = 1 /\ pending = <<>> /\ dedup = <<>>
  /\ work = NoWork /\ workNew = FALSE
  /\ rejects = 0 /\ due = FALSE /\ timers = 0
  /\ recvPc = "loop" /\ lost = <<>>
  /\ mainPc = "waiting" /\ sendId = 0 /\ cur = NoWork /\ found = {}
  /\ shares = <<>> /\ admitted = {} /\ log = {}

RecvThread == Reconnect \/ Reconnected \/ ResetDedup \/ HandleLine \/ Refresh
                \/ Disconnected \/ RecvEnds

\* What main does as long as it goes round its loop; whether the farm finds
\* a gap is not up to it.
MainGoesOn == TakeWork \/ Send \/ RecordRefusal \/ JoinRecv

Pool == PoolRotates \/ PoolRetargets \/ PoolAnswers

\* The program has ended.
Over == mainPc = "over" /\ UNCHANGED vars

Next == Pool \/ LinkDrops \/ RecvThread \/ MainGoesOn \/ Submit \/ Leave \/ Over

Spec == Init /\ [][Next]_vars

FairSpec ==
  /\ Spec
  /\ WF_vars(RecvThread)
  /\ WF_vars(MainGoesOn)
  /\ WF_vars(PoolAnswers)

-----------------------------------------------------------------------------
Verdicts == {"accepted", "rejected", "unresolved"}
Statuses == Verdicts \cup {"queued", "duplicate", "send-failed"}
Attempts == 1 .. MaxShares
Payloads == [header : Headers, gap : Gaps]
Pendings == [id : Nat \ {0}, attempt : Attempts]

TypeOK ==
  /\ poolWork \in Works /\ told \in Works /\ again \subseteq Headers
  /\ poolSaid \subseteq Attempts \X {"accepted", "rejected", "neither"}
  /\ retargeted \in BOOLEAN
  /\ link \in {"none", "up", "dropped"} /\ drops \in 0 .. MaxTroubles
  /\ running \in BOOLEAN /\ connected \in BOOLEAN
  /\ msgId \in Nat \ {0}
  /\ pending \in Seq(Pendings) /\ Len(pending) <= PendingCap
  /\ dedup \in Seq(Payloads) /\ Len(dedup) <= DedupCap
  /\ work \in Works \cup {NoWork} \cup [header : {0}, target : Targets]
  /\ workNew \in BOOLEAN /\ rejects \in 0 .. 2 /\ due \in BOOLEAN
  /\ timers \in 0 .. MaxTroubles
  /\ recvPc \in {"loop", "reporting", "resetting", "gone"}
  /\ lost \in Seq(Pendings)
  /\ mainPc \in {"waiting", "mining", "sending", "refused", "joining", "over"}
  /\ sendId \in Nat
  /\ cur \in Works \cup {NoWork} /\ found \subseteq Gaps
  /\ shares \in Seq(Payloads) /\ Len(shares) <= MaxShares
  /\ admitted \subseteq Attempts \X BOOLEAN
  /\ log \subseteq Attempts \X Statuses

\* A recorded acceptance or rejection is what the pool said of that very
\* share, whatever connections, ids and refreshes came in between.
VerdictIsThePools ==
  \A e \in log : e[2] \in {"accepted", "rejected"} => e \in poolSaid

\* No share gets two of accepted, rejected and unresolved: neither an answer
\* nor a reconnect reports what another has reported.
OneVerdict ==
  \A e, f \in log : e[1] = f[1] /\ e[2] \in Verdicts /\ f[2] \in Verdicts => e = f

HasVerdict(a) == \E v \in Verdicts : <<a, v>> \in log

\* A queued share has a verdict or is still to get one, from the pool or from
\* the next reconnect; it is lost from sight only if the ring of 64 was full
\* when it was submitted or the pool's answer was neither yes nor no.
NoSilentLoss ==
  \A a \in Attempts : <<a, "queued">> \in log =>
    \/ HasVerdict(a)
    \/ \E i \in DOMAIN pending : pending[i].attempt = a
    \/ \E i \in DOMAIN lost : lost[i].attempt = a
    \/ <<a, FALSE>> \in admitted
    \/ <<a, "neither">> \in poolSaid

\* A payload is submitted twice only if the pool has moved the share target
\* or has itself gone back, in an answer, to the template the payload is for:
\* then the client mines that template from its start, with an empty duplicate
\* ring.  Nothing else makes it (a refresh that brings the same work, a push
\* and a reconnect in any order, a share in flight when work is published).
NoResend ==
  \A p, q \in admitted :
    p[1] # q[1] /\ shares[p[1]] = shares[q[1]]
      => retargeted \/ shares[p[1]].header \in again

\* Every queued share that is tracked gets its verdict, unless the program
\* ends: a dropped connection is noticed and made anew, and that resolves what
\* the pool has not answered.
ShareResolved ==
  \A a \in Attempts :
    (<<a, "queued">> \in log /\ <<a, TRUE>> \in admitted)
      ~> (HasVerdict(a) \/ <<a, "neither">> \in poolSaid \/ ~running)

\* The client ends up on the work the pool spoke of last, pushed or answered,
\* whatever connections were lost: a push that nobody heard is made good by the
\* answer to the next session's request.  That answer counts as the last word
\* even when it is older than what was pushed, so a pool that answers with a
\* cached template has its client mine the template it has abandoned.
WorkAdopted ==
  \A w \in Works : told = w ~> (cur = w \/ told # w \/ ~running)

\* stratum_disconnect returns: the receive thread sees running or its closed
\* socket, even in the middle of a reconnect.
ClientStops == ~running ~> mainPc = "over"
=============================================================================
