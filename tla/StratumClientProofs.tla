------------------------- MODULE StratumClientProofs -------------------------
(***************************************************************************)
(* Proofs about StratumClient, for every pool of headers, targets and      *)
(* gaps, every capacity of the two rings, and any number of dropped        *)
(* connections and refreshes: verdicts go to the right share and only      *)
(* once, no share is lost from sight, and none is sent twice unless the    *)
(* pool itself moved its target or went back to an older template.         *)
(***************************************************************************)
EXTENDS StratumClient, SequenceTheorems, TLAPS

-----------------------------------------------------------------------------
(* Sequences and what is in them                                            *)

LEMMA InSeq ==
  ASSUME NEW S, NEW s \in Seq(S)
  PROVE  /\ ToSet(s) \in SUBSET S
         /\ \A i \in 1 .. Len(s) : s[i] \in ToSet(s)
         /\ DOMAIN s = 1 .. Len(s) /\ Len(s) \in Nat
         /\ s = <<>> => ToSet(s) = {}
BY DEF ToSet

LEMMA InAppend ==
  ASSUME NEW S, NEW s \in Seq(S), NEW e \in S
  PROVE  /\ Append(s, e) \in Seq(S)
         /\ ToSet(Append(s, e)) = ToSet(s) \cup {e}
         /\ Len(Append(s, e)) = Len(s) + 1
<1> DEFINE t == Append(s, e)
<1>1. /\ t \in Seq(S) /\ Len(t) = Len(s) + 1
      /\ \A i \in 1 .. Len(s) : t[i] = s[i]
      /\ t[Len(s) + 1] = e
  BY AppendProperties
<1>2. /\ DOMAIN t = 1 .. Len(s) + 1 /\ DOMAIN s = 1 .. Len(s) /\ Len(s) \in Nat
  BY <1>1, LenProperties
<1> HIDE DEF t
<1>3. ToSet(t) \subseteq ToSet(s) \cup {e}
  BY <1>1, <1>2 DEF ToSet
<1>4. ToSet(s) \cup {e} \subseteq ToSet(t)
  BY <1>1, <1>2 DEF ToSet
<1> QED BY <1>1, <1>3, <1>4 DEF t

LEMMA InTail ==
  ASSUME NEW S, NEW s \in Seq(S), s # <<>>
  PROVE  /\ Tail(s) \in Seq(S)
         /\ Head(s) \in ToSet(s) /\ Head(s) \in S
         /\ ToSet(Tail(s)) \subseteq ToSet(s)
<1>1. /\ Tail(s) \in Seq(S) /\ Len(Tail(s)) = Len(s) - 1
      /\ \A i \in 1 .. Len(Tail(s)) : Tail(s)[i] = s[i + 1]
      /\ Head(s) \in S
  BY HeadTailProperties
<1>2. /\ DOMAIN Tail(s) = 1 .. Len(s) - 1 /\ DOMAIN s = 1 .. Len(s) /\ Len(s) \in Nat \ {0}
  BY <1>1, LenProperties, EmptySeq
<1>3. Head(s) = s[1]
  OBVIOUS
<1>4. ToSet(Tail(s)) \subseteq ToSet(s)
  BY <1>1, <1>2 DEF ToSet
<1> QED BY <1>1, <1>2, <1>3, <1>4 DEF ToSet

LEMMA InPrefix ==
  ASSUME NEW S, NEW s \in Seq(S), NEW n \in 0 .. Len(s)
  PROVE  /\ SubSeq(s, 1, n) \in Seq(S)
         /\ ToSet(SubSeq(s, 1, n)) \subseteq ToSet(s)
<1>1. /\ SubSeq(s, 1, n) \in Seq(S) /\ Len(SubSeq(s, 1, n)) = n
      /\ \A i \in 1 .. n : SubSeq(s, 1, n)[i] = s[i]
  BY SMT
<1>2. DOMAIN SubSeq(s, 1, n) = 1 .. n /\ DOMAIN s = 1 .. Len(s) /\ Len(s) \in Nat
  BY <1>1, LenProperties
<1> QED BY <1>1, <1>2 DEF ToSet

LEMMA InRemoveAt ==
  ASSUME NEW S, NEW s \in Seq(S), NEW k \in 1 .. Len(s)
  PROVE  /\ RemoveAt(s, k) \in Seq(S)
         /\ Len(RemoveAt(s, k)) = Len(s) - 1
         /\ \A i \in 1 .. Len(s) - 1 :
              RemoveAt(s, k)[i] = IF i < k THEN s[i] ELSE s[i + 1]
<1> DEFINE a == SubSeq(s, 1, k - 1)
           b == SubSeq(s, k + 1, Len(s))
<1>1. /\ a \in Seq(S) /\ Len(a) = k - 1
      /\ \A i \in 1 .. k - 1 : a[i] = s[i]
  OBVIOUS
<1>2. /\ b \in Seq(S) /\ Len(b) = Len(s) - k
      /\ \A i \in 1 .. Len(s) - k : b[i] = s[k + i]
  OBVIOUS
<1> HIDE DEF a, b
<1>3. /\ a \o b \in Seq(S)
      /\ Len(a \o b) = Len(a) + Len(b)
      /\ \A i \in 1 .. Len(a) + Len(b) :
           (a \o b)[i] = IF i <= Len(a) THEN a[i] ELSE b[i - Len(a)]
  BY <1>1, <1>2, ConcatProperties
<1>4. Len(s) \in Nat /\ k \in Nat
  BY LenProperties
<1>5. ASSUME NEW i \in 1 .. Len(s) - 1
      PROVE  (a \o b)[i] = IF i < k THEN s[i] ELSE s[i + 1]
  <2>1. /\ i \in 1 .. Len(a) + Len(b)
        /\ i < k <=> i <= Len(a)
        /\ i < k => i \in 1 .. k - 1
        /\ ~(i < k) => /\ i - Len(a) \in 1 .. Len(s) - k
                      /\ k + (i - Len(a)) = i + 1
    BY <1>1, <1>2, <1>4
  <2>2. CASE i < k
    BY <1>1, <1>3, <2>1, <2>2
  <2>3. CASE ~(i < k)
    BY <1>2, <1>3, <2>1, <2>3
  <2> QED BY <2>2, <2>3
<1>6. RemoveAt(s, k) = a \o b
  BY DEF RemoveAt, a, b
<1>7. Len(a) + Len(b) = Len(s) - 1
  BY <1>1, <1>2, <1>4
<1> QED BY <1>3, <1>5, <1>6, <1>7

-----------------------------------------------------------------------------
(* The invariant                                                            *)

Ring == ToSet(pending)
Lost == ToSet(lost)

Ids == Nat \ {0}
ToPoolLines ==
  [kind : {"submit"}, id : Ids, attempt : Attempts] \cup [kind : {"request"}, id : Ids]
FromPoolLines ==
  [kind : {"verdict"}, id : Ids, says : {"accepted", "rejected", "odd"}]
    \cup [kind : {"work"}, id : Ids, work : Works]
    \cup [kind : {"notify"}, work : Works]
    \cup [kind : {"target"}, target : Targets]

Typed ==
  /\ TypeOK
  /\ toPool \in Seq(ToPoolLines) /\ fromPool \in Seq(FromPoolLines)
  /\ mainPc \in {"mining", "sending", "refused"} => cur \in Works
  /\ mainPc \in {"sending", "refused"} => Attempt \in Attempts
  /\ mainPc = "sending" => sendId \in Ids

\* Every id in use is below the next one, every attempt among those counted.
FreshIds ==
  /\ \A p \in Ring : p.id < msgId
  /\ \A m \in ToSet(toPool) : m.id < msgId
  /\ \A m \in ToSet(fromPool) : m.kind \in {"verdict", "work"} => m.id < msgId
  /\ mainPc = "sending" => sendId < msgId
FreshAttempts ==
  /\ \A p \in Ring \cup Lost : p.attempt <= Len(shares)
  /\ \A e \in log : e[1] <= Len(shares)
  /\ \A e \in admitted : e[1] <= Len(shares)

\* A share has one entry in the ring, under an id of its own.
OneEntry ==
  \A i, j \in DOMAIN pending :
    pending[i].id = pending[j].id \/ pending[i].attempt = pending[j].attempt => i = j

\* A line to the pool with the id of a share is the submission of this share.
IdsBind ==
  \A p \in Ring :
    /\ \A m \in ToSet(toPool) : m.id = p.id => m.kind = "submit" /\ m.attempt = p.attempt
    /\ mainPc = "sending" /\ sendId = p.id => p.attempt = Attempt

\* So a line from the pool with that id is what the pool said of this share.
Meaning(m) == IF m.kind = "verdict" /\ m.says # "odd" THEN m.says ELSE "neither"
AnswersBind ==
  \A p \in Ring : \A m \in ToSet(fromPool) :
    m.kind \in {"verdict", "work"} /\ m.id = p.id => <<p.attempt, Meaning(m)>> \in poolSaid

\* What waits for a verdict has none, and waits in one place.
Open ==
  /\ \A p \in Ring \cup Lost : ~HasVerdict(p.attempt)
  /\ \A p \in Ring, q \in Lost : p.attempt # q.attempt
  /\ recvPc # "reporting" => lost = <<>>

\* The share that is being sent is not forgotten yet.
Tracked(a) ==
  \/ HasVerdict(a)
  \/ \E p \in Ring \cup Lost : p.attempt = a
  \/ <<a, FALSE>> \in admitted
  \/ <<a, "neither">> \in poolSaid
SendTracked ==
  /\ mainPc = "sending" => Tracked(Attempt)
  /\ mainPc \in {"sending", "refused"} => <<Attempt, "queued">> \notin log

IInv ==
  /\ Typed /\ FreshIds /\ FreshAttempts /\ OneEntry /\ IdsBind /\ AnswersBind
  /\ Open /\ SendTracked
  /\ VerdictIsThePools /\ OneVerdict /\ NoSilentLoss

-----------------------------------------------------------------------------
(* While the pool leaves its target alone, works differ only in their       *)
(* header, and none is above the template the pool is at.                   *)
WithWork(m) == m.kind \in {"work", "notify"}
Above(s) == \A i \in DOMAIN s : WithWork(s[i]) => s[i].work.header <= poolWork.header

FirstTarget ==
  /\ poolWork.target = 1
  /\ work \in [header : {0}, target : {0}] \cup [header : Headers, target : {1}]
  /\ ~workNew => cur = work
  /\ \A i \in DOMAIN fromPool :
       /\ fromPool[i].kind # "target"
       /\ WithWork(fromPool[i]) => fromPool[i].work.target = 1

SoFar ==
  /\ work.header <= poolWork.header /\ cur.header <= poolWork.header
  /\ Above(fromPool)
  /\ \A i \in DOMAIN shares : shares[i].header <= poolWork.header

\* Along the wire s to the last word w of the pool: header h does not come
\* after place i.
NotAfter(h, s, w, i) ==
  /\ w.header # h
  /\ \A k \in DOMAIN s : i < k /\ WithWork(s[k]) => s[k].work.header # h

\* Where header h is left, it does not come again: on the wire after another
\* one, after h was published, and after main has mined it.
Leaves(h, s, w, i) == WithWork(s[i]) /\ s[i].work.header # h => NotAfter(h, s, w, i)
OneRun(h, s, w) ==
  \A i, j \in DOMAIN s :
    i < j /\ WithWork(s[i]) /\ s[i].work.header = h => Leaves(h, s, w, j)
RunsOn(h, s, w) == \A j \in DOMAIN s : Leaves(h, s, w, j)

Shared(h) == \E i \in DOMAIN shares : shares[i].header = h
Past(h) == \/ cur.header = h /\ workNew
           \/ Shared(h) /\ cur.header # h

MinedOnce(h) ==
  /\ OneRun(h, fromPool, told)
  /\ work.header = h => RunsOn(h, fromPool, told)
  /\ Past(h) => work.header # h /\ NotAfter(h, fromPool, told, 0)

\* So every gap of such a header is found, and submitted, once.
SharesDiffer ==
  /\ \A i \in DOMAIN shares : shares[i].header \notin again =>
       /\ shares[i].header = cur.header => shares[i].gap \in found
       /\ \A j \in DOMAIN shares : shares[i] = shares[j] => i = j
  /\ mainPc = "waiting" => shares = <<>>

OnceInv ==
  ~retargeted =>
    FirstTarget /\ SoFar /\ SharesDiffer /\ \A h \in Headers \ again : MinedOnce(h)

-----------------------------------------------------------------------------
(* The proof                                                                *)

USE DEF poolVars, wireVars, shareVars, workVars, timerVars, recvVars, mainVars

\* What pending_take_locked leaves: the entries with another id.
LEMMA Taken ==
  ASSUME Typed, OneEntry, NEW id
  PROVE  /\ Without(id) \in Seq(Pendings) /\ Len(Without(id)) <= PendingCap
         /\ ToSet(Without(id)) = {p \in Ring : p.id # id}
         /\ \A i, j \in DOMAIN Without(id) :
              \/ Without(id)[i].id = Without(id)[j].id
              \/ Without(id)[i].attempt = Without(id)[j].attempt
              => i = j
         /\ IsPending(id) => \E p \in Ring : p.id = id /\ p.attempt = AttemptOf(id)
         /\ ~IsPending(id) => \A p \in Ring : p.id # id
<1>0. /\ pending \in Seq(Pendings) /\ Len(pending) <= PendingCap /\ PendingCap \in Nat
      /\ DOMAIN pending = 1 .. Len(pending) /\ Len(pending) \in Nat
  BY StratumAssumption, LenProperties DEF Typed, TypeOK
<1>1. CASE ~IsPending(id)
  <2>1. \A p \in Ring : p.id # id
    BY <1>1 DEF IsPending, Ring, ToSet
  <2>2. Without(id) = pending
    BY <1>1 DEF Without
  <2> QED BY <1>0, <1>1, <2>1, <2>2 DEF OneEntry, Ring
<1>2. CASE IsPending(id)
  <2> DEFINE k == PlaceOf(id)
             t == RemoveAt(pending, k)
  <2>1. k \in 1 .. Len(pending) /\ pending[k].id = id
    BY <1>0, <1>2 DEF IsPending, PlaceOf
  <2>2. Without(id) = t /\ AttemptOf(id) = pending[k].attempt
    BY <1>2 DEF Without, AttemptOf
  <2> HIDE DEF k
  <2>3. /\ t \in Seq(Pendings) /\ Len(t) = Len(pending) - 1
        /\ \A i \in 1 .. Len(pending) - 1 :
             t[i] = IF i < k THEN pending[i] ELSE pending[i + 1]
    BY <1>0, <2>1, InRemoveAt
  <2> HIDE DEF t
  <2>4. DOMAIN t = 1 .. Len(pending) - 1
    BY <1>0, <2>3, LenProperties
  <2>5. ToSet(t) = {p \in Ring : p.id # id}
    <3>1. ASSUME NEW i \in DOMAIN t
          PROVE  t[i] \in Ring /\ t[i].id # id
      <4>1. CASE i < k
        <5>1. t[i] = pending[i] /\ i \in 1 .. Len(pending) /\ i # k
          BY <1>0, <2>1, <2>3, <2>4, <4>1
        <5> QED BY <1>0, <2>1, <5>1 DEF OneEntry, Ring, ToSet
      <4>2. CASE ~(i < k)
        <5>1. t[i] = pending[i + 1] /\ i + 1 \in 1 .. Len(pending) /\ i + 1 # k
          BY <1>0, <2>1, <2>3, <2>4, <4>2
        <5> QED BY <1>0, <2>1, <5>1 DEF OneEntry, Ring, ToSet
      <4> QED BY <4>1, <4>2
    <3>2. ASSUME NEW i \in DOMAIN pending, pending[i].id # id
          PROVE  pending[i] \in ToSet(t)
      <4>1. CASE i < k
        BY <1>0, <2>1, <2>3, <2>4, <4>1 DEF ToSet
      <4>2. CASE ~(i < k)
        <5>1. i # k
          BY <2>1, <3>2
        <5>2. i - 1 \in DOMAIN t /\ ~(i - 1 < k) /\ (i - 1) + 1 = i
          BY <1>0, <2>1, <2>4, <4>2, <5>1
        <5> QED BY <2>3, <2>4, <5>2 DEF ToSet
      <4> QED BY <4>1, <4>2
    <3> QED BY <3>1, <3>2 DEF ToSet, Ring
  <2>6. ASSUME NEW i \in DOMAIN t, NEW j \in DOMAIN t,
               t[i].id = t[j].id \/ t[i].attempt = t[j].attempt
        PROVE  i = j
    <3> DEFINE i0 == IF i < k THEN i ELSE i + 1
               j0 == IF j < k THEN j ELSE j + 1
    <3>1. i0 \in DOMAIN pending /\ j0 \in DOMAIN pending /\ (i0 = j0 => i = j)
      BY <1>0, <2>1, <2>4
    <3>2. t[i] = pending[i0] /\ t[j] = pending[j0]
      BY <2>3, <2>4
    <3> HIDE DEF i0, j0
    <3> QED BY <2>6, <3>1, <3>2 DEF OneEntry
  <2>7. pending[k] \in Ring
    BY <1>0, <2>1 DEF Ring, ToSet
  <2> QED BY <1>0, <1>2, <2>1, <2>2, <2>3, <2>5, <2>6, <2>7
<1> QED BY <1>1, <1>2

\* What a submission does to the ring.
LEMMA Pended ==
  ASSUME Typed, FreshIds, FreshAttempts, OneEntry,
         Attempt + 1 \in Attempts, Pend(Attempt + 1)
  PROVE  /\ pending' \in Seq(Pendings) /\ Len(pending') <= PendingCap
         /\ OneEntry'
         /\ \/ /\ Len(pending) < PendingCap
               /\ Ring' = Ring \cup {[id |-> msgId, attempt |-> Attempt + 1]}
            \/ ~(Len(pending) < PendingCap) /\ pending' = pending
<1>0. /\ pending \in Seq(Pendings) /\ Len(pending) <= PendingCap /\ PendingCap \in Nat
      /\ DOMAIN pending = 1 .. Len(pending) /\ Len(pending) \in Nat
      /\ msgId \in Ids
  BY StratumAssumption, LenProperties DEF Typed, TypeOK, Ids
<1>1. CASE ~(Len(pending) < PendingCap)
  <2>1. pending' = pending
    BY <1>1 DEF Pend
  <2> QED BY <1>0, <1>1, <2>1 DEF OneEntry
<1>2. CASE Len(pending) < PendingCap
  <2> DEFINE e == [id |-> msgId, attempt |-> Attempt + 1]
  <2>1. pending' = Append(pending, e)
    BY <1>2 DEF Pend, NextId
  <2>2. e \in Pendings
    BY <1>0 DEF Pendings, Ids
  <2>3. /\ pending' \in Seq(Pendings) /\ Len(pending') = Len(pending) + 1
        /\ ToSet(pending') = Ring \cup {e}
    BY <1>0, <2>1, <2>2, InAppend DEF Ring
  <2>4. /\ \A i \in 1 .. Len(pending) : pending'[i] = pending[i]
        /\ pending'[Len(pending) + 1] = e
        /\ DOMAIN pending' = 1 .. Len(pending) + 1
    BY <1>0, <2>1, <2>2, <2>3, AppendProperties, LenProperties
  <2>5. \A i \in 1 .. Len(pending) : pending[i].id # e.id /\ pending[i].attempt # e.attempt
    <3> TAKE i \in 1 .. Len(pending)
    <3>1. pending[i] \in Ring /\ pending[i] \in Pendings
      BY <1>0, InSeq DEF Ring
    <3>2. pending[i].id < msgId /\ pending[i].attempt <= Len(shares)
      BY <3>1 DEF FreshIds, FreshAttempts
    <3>3. pending[i].id \in Nat /\ pending[i].attempt \in Nat /\ Len(shares) \in Nat
      <4>1. shares \in Seq(Payloads)
        BY DEF Typed, TypeOK
      <4>2. pending[i].id \in Nat /\ pending[i].attempt \in Nat
        BY <3>1 DEF Pendings, Attempts
      <4> QED BY <4>1, <4>2, LenProperties
    <3> QED BY <1>0, <3>2, <3>3 DEF Attempt, Ids
  <2>6. OneEntry'
    BY <1>0, <2>4, <2>5 DEF OneEntry
  <2> QED BY <1>0, <1>2, <2>3, <2>6 DEF Ring
<1> QED BY <1>1, <1>2

\* Messages that are sent are of the right type.
LEMMA Lines ==
  ASSUME Typed
  PROVE  /\ \A id \in Ids : Request(id) \in ToPoolLines
         /\ \A id \in Ids, a \in Attempts : Submission(id, a) \in ToPoolLines
         /\ \A id \in Ids, v \in {"accepted", "rejected", "odd"} : Verdict(id, v) \in FromPoolLines
         /\ \A id \in Ids, w \in Works : Reply(id, w) \in FromPoolLines
         /\ \A w \in Works : Notify(w) \in FromPoolLines
         /\ \A t \in Targets : NewTarget(t) \in FromPoolLines
         /\ msgId \in Ids /\ NextId = msgId /\ msgId + 1 \in Ids
BY DEF Request, Submission, Verdict, Reply, Notify, NewTarget, ToPoolLines, FromPoolLines,
       Typed, TypeOK, Ids, NextId

LEMMA SendTyped ==
  ASSUME Typed, NEW m \in ToPoolLines, SendOk(m) \/ SendFails
  PROVE  toPool' \in Seq(ToPoolLines) /\ link' \in {"none", "up", "dropped"}
<1>1. toPool \in Seq(ToPoolLines) /\ link \in {"none", "up", "dropped"}
  BY DEF Typed, TypeOK
<1>2. Append(toPool, m) \in Seq(ToPoolLines)
  BY <1>1, InAppend
<1> QED BY <1>1, <1>2 DEF SendOk, SendFails

LEMMA TypedInit == Init => Typed
<1>1. \A S : <<>> \in Seq(S) /\ Len(<<>>) = 0
  BY EmptySeq
<1> SUFFICES ASSUME Init PROVE Typed
  OBVIOUS
<1>2. TypeOK
  <2>1. /\ poolWork \in Works /\ told \in Works /\ again = {} /\ poolSaid = {} /\ link = "none" /\ drops \in 0 .. MaxTroubles
        /\ msgId \in Nat \ {0} /\ rejects \in 0 .. 2 /\ timers \in 0 .. MaxTroubles
        /\ sendId \in Nat
    BY StratumAssumption DEF Init, Works
  <2>2. /\ pending \in Seq(Pendings) /\ Len(pending) <= PendingCap /\ lost \in Seq(Pendings)
        /\ dedup \in Seq(Payloads) /\ Len(dedup) <= DedupCap
        /\ shares \in Seq(Payloads) /\ Len(shares) <= MaxShares
    BY <1>1, StratumAssumption DEF Init
  <2>3. /\ retargeted \in BOOLEAN /\ running \in BOOLEAN /\ connected \in BOOLEAN
        /\ workNew \in BOOLEAN /\ due \in BOOLEAN
    BY DEF Init
  <2>4. /\ work = NoWork /\ cur = NoWork /\ found = {} /\ admitted = {} /\ log = {}
        /\ recvPc = "loop" /\ mainPc = "waiting"
    BY DEF Init
  <2> QED BY <2>1, <2>2, <2>3, <2>4 DEF TypeOK
<1> QED BY <1>1, <1>2 DEF Init, Typed

LEMMA TypedStep ==
  ASSUME IInv, Next
  PROVE  Typed'
<1>0. /\ Typed /\ FreshIds /\ FreshAttempts /\ OneEntry
      /\ PendingCap \in Nat /\ DedupCap \in Nat \ {0} /\ MaxShares \in Nat
      /\ Targets \subseteq Nat \ {0} /\ Headers \subseteq Nat \ {0}
  BY StratumAssumption DEF IInv
<1>1. CASE PoolRotates
  <2>1. poolWork' \in Works /\ told' = poolWork'
    BY <1>0, <1>1 DEF PoolRotates, Typed, TypeOK, Works
  <2>2. fromPool' \in Seq(FromPoolLines)
    BY <1>0, <1>1, <2>1, Lines, InAppend DEF PoolRotates, Deliver, Typed
  <2> QED BY SMTT(40), <1>0, <1>1, <2>1, <2>2 DEF PoolRotates, Typed, TypeOK, Attempt
<1>2. CASE PoolRetargets
  <2>1. PICK t \in Targets \ {poolWork.target} :
          /\ poolWork' = [poolWork EXCEPT !.target = t]
          /\ \/ told' = [told EXCEPT !.target = t] /\ Deliver(NewTarget(t))
             \/ told' = poolWork' /\ Deliver(Notify(told'))
    BY <1>2 DEF PoolRetargets
  <2>2. poolWork' \in Works /\ told' \in Works
    BY <1>0, <2>1 DEF Typed, TypeOK, Works
  <2>3. fromPool' \in Seq(FromPoolLines)
    <3>1. NewTarget(t) \in FromPoolLines /\ Notify(poolWork') \in FromPoolLines
      BY <1>0, <2>2, Lines
    <3>2. \/ fromPool' = fromPool
          \/ fromPool' = Append(fromPool, NewTarget(t))
          \/ fromPool' = Append(fromPool, Notify(poolWork'))
      BY <2>1 DEF Deliver
    <3>3. fromPool \in Seq(FromPoolLines)
      BY <1>0 DEF Typed
    <3> HIDE DEF NewTarget, Notify
    <3> QED BY <3>1, <3>2, <3>3, InAppend
  <2> QED BY SMTT(40), <1>0, <1>2, <2>2, <2>3 DEF PoolRetargets, Typed, TypeOK, Attempt
<1>3. CASE PoolAnswers
  <2> DEFINE m == Head(toPool)
  <2>1. m \in ToPoolLines /\ toPool' \in Seq(ToPoolLines)
    BY <1>0, <1>3, InTail DEF PoolAnswers, Typed
  <2>2. m.id \in Ids /\ (m.kind = "submit" => m.attempt \in Attempts)
    BY <2>1 DEF ToPoolLines
  <2>3. fromPool' \in Seq(FromPoolLines)
    <3>1. PICK l \in FromPoolLines : fromPool' = Append(fromPool, l)
      BY <1>0, <1>3, <2>2, Lines DEF PoolAnswers, AnswerWork, Templates
    <3> QED BY <1>0, <3>1, InAppend DEF Typed
  <2>4. poolSaid' \subseteq Attempts \X {"accepted", "rejected", "neither"}
    <3>1. poolSaid \subseteq Attempts \X {"accepted", "rejected", "neither"}
      BY <1>0 DEF Typed, TypeOK
    <3>2. \/ poolSaid' = poolSaid
          \/ /\ m.attempt \in Attempts
             /\ \E v \in {"accepted", "rejected", "neither"} :
                  poolSaid' = poolSaid \cup {<<m.attempt, v>>}
      BY <1>3, <2>2 DEF PoolAnswers
    <3> HIDE DEF m
    <3> QED BY <3>1, <3>2
  <2>5. told' \in Works /\ again' \subseteq Headers
    <3>1. told \in Works /\ again \subseteq Headers
      BY <1>0 DEF Typed, TypeOK
    <3>2. CASE AnswerWork(m.id)
      <4>1. PICK w \in Works : /\ told' = w
                               /\ again' = again \/ again' = again \cup {w.header}
        BY <3>2 DEF AnswerWork, Templates
      <4>2. w.header \in Headers
        BY DEF Works
      <4> QED BY <3>1, <4>1, <4>2
    <3>3. CASE UNCHANGED <<told, again>>
      BY <3>1, <3>3
    <3> QED BY <1>3, <3>2, <3>3 DEF PoolAnswers
  <2>6. UNCHANGED <<poolWork, retargeted, link, drops, shareVars, workVars, timerVars, recvVars,
                    mainVars, log>>
    BY <1>3 DEF PoolAnswers
  <2> QED BY SMTT(40), <1>0, <2>1, <2>3, <2>4, <2>5, <2>6 DEF Typed, TypeOK, Attempt
<1>4. CASE LinkDrops
  <2>1. fromPool' \in Seq(FromPoolLines)
    BY <1>0, <1>4, InPrefix DEF LinkDrops, Typed
  <2>2. toPool' \in Seq(ToPoolLines) /\ drops' \in 0 .. MaxTroubles
    BY <1>0, <1>4, EmptySeq, StratumAssumption DEF LinkDrops, Typed, TypeOK
  <2> QED BY SMTT(40), <1>0, <1>4, <2>1, <2>2 DEF LinkDrops, Typed, TypeOK, Attempt
<1>5. CASE Reconnect
  <2>1. \A S : <<>> \in Seq(S) /\ Len(<<>>) = 0
    BY EmptySeq
  <2> QED BY <1>0, <1>5, <2>1 DEF Reconnect, FlushPending, Typed, TypeOK, Attempt
<1>6. CASE Reconnected
  <2>1. log' \subseteq Attempts \X Statuses
    <3>1. ASSUME NEW i \in DOMAIN lost
          PROVE  <<lost[i].attempt, "unresolved">> \in Attempts \X Statuses
      <4>1. lost[i] \in Pendings
        BY <1>0, InSeq DEF Typed, TypeOK
      <4> QED BY <4>1 DEF Pendings, Statuses, Verdicts
    <3>2. /\ log \subseteq Attempts \X Statuses
          /\ log' = log \cup {<<lost[i].attempt, "unresolved">> : i \in DOMAIN lost}
      BY <1>0, <1>6 DEF Reconnected, Typed, TypeOK
    <3> QED BY <3>1, <3>2
  <2>2. toPool' \in Seq(ToPoolLines) /\ link' \in {"none", "up", "dropped"} /\ msgId' \in Ids
    BY <1>0, <1>6, Lines, SendTyped DEF Reconnected
  <2>3. lost' \in Seq(Pendings)
    BY <1>6, EmptySeq DEF Reconnected
  <2>4. connected' \in BOOLEAN /\ rejects' \in 0 .. 2 /\ due' \in BOOLEAN
    <3>1. connected \in BOOLEAN /\ rejects \in 0 .. 2 /\ due \in BOOLEAN
      BY <1>0 DEF Typed, TypeOK
    <3>2. \/ connected' = connected /\ rejects' = rejects /\ due' = due
          \/ connected' = TRUE /\ rejects' = 0 /\ due' = FALSE
      BY <1>6 DEF Reconnected
    <3>3. connected' \in BOOLEAN /\ due' \in BOOLEAN
      BY <3>1, <3>2, Zenon
    <3> QED BY <3>1, <3>2, <3>3
  <2> QED BY SMTT(40), <1>0, <1>6, <2>1, <2>2, <2>3, <2>4
          DEF Reconnected, Typed, TypeOK, Attempt, Ids
<1>7. CASE ResetDedup
  BY <1>0, <1>7, EmptySeq DEF ResetDedup, Typed, TypeOK, Attempt
<1>8. CASE HandleLine
  <2> DEFINE m == Head(fromPool)
  <2>1. m \in FromPoolLines /\ fromPool' \in Seq(FromPoolLines)
    BY <1>0, <1>8, InTail DEF HandleLine, Typed
  <2>2. /\ pending' \in Seq(Pendings) /\ Len(pending') <= PendingCap
        /\ log' \subseteq Attempts \X Statuses
    <3>1. /\ Without(m.id) \in Seq(Pendings) /\ Len(Without(m.id)) <= PendingCap
          /\ IsPending(m.id) => AttemptOf(m.id) \in Attempts
      <4>1. Ring \in SUBSET Pendings
        BY <1>0, InSeq DEF Ring, Typed, TypeOK
      <4>2. /\ Without(m.id) \in Seq(Pendings) /\ Len(Without(m.id)) <= PendingCap
            /\ IsPending(m.id) => \E p \in Ring : p.id = m.id /\ p.attempt = AttemptOf(m.id)
        BY <1>0, Taken
      <4> QED BY <4>1, <4>2 DEF Pendings
    <3>2. m.kind = "verdict" => m.says \in {"accepted", "rejected", "odd"}
      BY <2>1 DEF FromPoolLines
    <3> QED BY SMTT(40), <1>0, <1>8, <3>1, <3>2
            DEF HandleLine, HandleVerdict, HandleWork, HandleTarget, Credit, Typed, TypeOK,
                Statuses, Verdicts
  <2>3. /\ work' \in Works \cup {NoWork} \cup [header : {0}, target : Targets]
        /\ workNew' \in BOOLEAN /\ recvPc' \in {"loop", "reporting", "resetting", "gone"}
    <3>1. m.kind \in {"work", "notify"} => m.work \in Works
      BY <2>1 DEF FromPoolLines
    <3>2. m.kind = "target" => m.target \in Targets
      BY <2>1 DEF FromPoolLines
    <3>3. /\ work \in Works \cup {NoWork} \cup [header : {0}, target : Targets]
          /\ workNew \in BOOLEAN /\ recvPc \in {"loop", "reporting", "resetting", "gone"}
      BY <1>0 DEF Typed, TypeOK
    <3>4. \/ UNCHANGED <<work, workNew, recvPc>>
          \/ m.kind \in {"work", "notify"} /\ Publish(m.work)
          \/ m.kind = "target" /\ SetTarget(m.target)
      BY <1>8 DEF HandleLine, HandleVerdict, HandleWork, HandleTarget
    <3>5. CASE UNCHANGED <<work, workNew, recvPc>>
      BY <3>3, <3>5
    <3>6. CASE m.kind \in {"work", "notify"} /\ Publish(m.work)
      BY <3>1, <3>3, <3>6 DEF Publish
    <3>7. CASE m.kind = "target" /\ SetTarget(m.target)
      BY <3>2, <3>3, <3>7 DEF SetTarget, Works, NoWork
    <3> QED BY <3>4, <3>5, <3>6, <3>7
  <2>4. rejects' \in 0 .. 2 /\ due' \in BOOLEAN
    <3>1. rejects \in 0 .. 2 /\ due \in BOOLEAN
      BY <1>0 DEF Typed, TypeOK
    <3>2. UNCHANGED <<rejects, due>> \/ Count(m.says)
      BY <1>8 DEF HandleLine, HandleVerdict, HandleWork, HandleTarget
    <3>3. due' \in BOOLEAN
      BY <3>1, <3>2, Zenon DEF Count
    <3>4. rejects' = rejects \/ rejects' = 0 \/ rejects' = IF rejects < 2 THEN rejects + 1 ELSE 2
      BY <3>2, Zenon DEF Count
    <3>5. rejects' \in 0 .. 2
      BY <3>1, <3>4
    <3> QED BY <3>3, <3>5
  <2> QED BY <1>0, <1>8, <2>1, <2>2, <2>3, <2>4 DEF HandleLine, Typed, TypeOK, Attempt
<1>9. CASE Refresh
  <2>1. toPool' \in Seq(ToPoolLines) /\ link' \in {"none", "up", "dropped"} /\ msgId' \in Ids
    BY <1>0, <1>9, Lines, SendTyped DEF Refresh
  <2>2. timers' \in 0 .. MaxTroubles
    BY <1>0, <1>9, StratumAssumption DEF Refresh, Typed, TypeOK
  <2>3. rejects' \in 0 .. 2 /\ due' \in BOOLEAN
    <3>1. rejects \in 0 .. 2 /\ due \in BOOLEAN
      BY <1>0 DEF Typed, TypeOK
    <3>2. \/ rejects' = rejects /\ due' = due
          \/ rejects' = 0 /\ due' = FALSE
      BY <1>9 DEF Refresh
    <3>3. due' \in BOOLEAN
      BY <3>1, <3>2, Zenon
    <3> QED BY <3>1, <3>2, <3>3
  <2> QED BY SMTT(40), <1>0, <1>9, <2>1, <2>2, <2>3
          DEF Refresh, Typed, TypeOK, Attempt, Ids
<1>10. CASE Disconnected \/ RecvEnds
  <2>1. connected' = FALSE
    BY <1>10 DEF Disconnected, RecvEnds
  <2>2. connected' \in BOOLEAN
    BY <2>1, Zenon
  <2>3. CASE Disconnected
    BY <1>0, <2>2, <2>3 DEF Disconnected, Typed, TypeOK, Attempt
  <2>4. CASE RecvEnds
    BY <1>0, <2>2, <2>4 DEF RecvEnds, Typed, TypeOK, Attempt
  <2> QED BY <1>10, <2>3, <2>4
<1>11. CASE TakeWork
  <2>1. cur' \in Works /\ mainPc' = "mining"
    BY <1>0, <1>11 DEF TakeWork, Typed, TypeOK, Works, NoWork
  <2>2. workNew' = FALSE
    BY <1>11 DEF TakeWork
  <2>3. workNew' \in BOOLEAN
    BY <2>2, Zenon
  <2> QED BY <1>0, <1>11, <2>1, <2>3 DEF TakeWork, Typed, TypeOK, Attempt
<1>12. CASE Send
  <2>1. Attempt \in Attempts /\ cur \in Works
    BY <1>0, <1>12 DEF Send, Typed
  <2>2. sendId \in Ids
    BY <1>0, <1>12 DEF Send, Typed
  <2>3. toPool' \in Seq(ToPoolLines) /\ link' \in {"none", "up", "dropped"}
    BY <1>0, <1>12, <2>1, <2>2, Lines, SendTyped DEF Send
  <2>4. pending' \in Seq(Pendings) /\ Len(pending') <= PendingCap
    <3>1. Without(sendId) \in Seq(Pendings) /\ Len(Without(sendId)) <= PendingCap
      BY <1>0, Taken
    <3> QED BY <1>0, <1>12, <3>1 DEF Send, Typed, TypeOK
  <2>5. log' \subseteq Attempts \X Statuses
    BY <1>0, <1>12, <2>1 DEF Send, Typed, TypeOK, Statuses
  <2>6. /\ mainPc' \in {"mining", "refused"} /\ Attempt' = Attempt /\ cur' = cur
        /\ UNCHANGED <<poolVars, fromPool, drops, msgId, dedup, workVars, timerVars,
                       recvVars, running, sendId, found, shares, admitted>>
    BY <1>12 DEF Send, Attempt
  <2>7. TypeOK'
    BY <1>0, <2>3, <2>4, <2>5, <2>6 DEF Typed, TypeOK
  <2> QED BY <1>0, <2>1, <2>3, <2>6, <2>7 DEF Typed
<1>13. CASE RecordRefusal
  <2>1. Attempt \in Attempts
    BY <1>0, <1>13 DEF RecordRefusal, Typed
  <2> QED BY <1>0, <1>13, <2>1 DEF RecordRefusal, Typed, TypeOK, Attempt, Statuses, Verdicts
<1>14. CASE JoinRecv \/ Leave
  <2>1. running' \in BOOLEAN
    <3>1. running \in BOOLEAN /\ (running' = running \/ running' = FALSE)
      BY <1>0, <1>14 DEF JoinRecv, Leave, Typed, TypeOK
    <3> QED BY <3>1, Zenon
  <2>2. CASE JoinRecv
    BY <1>0, <2>1, <2>2 DEF JoinRecv, Typed, TypeOK, Attempt
  <2>3. CASE Leave
    BY <1>0, <2>1, <2>3 DEF Leave, Typed, TypeOK, Attempt
  <2> QED BY <1>14, <2>2, <2>3
<1>15. CASE Submit
  <2>1. PICK g \in Gaps \ found :
          LET s == [header |-> cur.header, gap |-> g] IN
          /\ found' = found \cup {g}
          /\ shares' = Append(shares, s)
          /\ \/ /\ mainPc' = "refused"
                /\ UNCHANGED <<shareVars, sendId, admitted>>
             \/ /\ Remember(s) /\ Pend(Attempt + 1)
                /\ sendId' = NextId /\ msgId' = NextId + 1
                /\ admitted' = admitted \cup {<<Attempt + 1, Len(pending) < PendingCap>>}
                /\ mainPc' = "sending"
    BY <1>15 DEF Submit
  <2> DEFINE s == [header |-> cur.header, gap |-> g]
  <2>2. /\ s \in Payloads /\ Attempt + 1 \in Attempts /\ cur \in Works
        /\ shares \in Seq(Payloads) /\ dedup \in Seq(Payloads) /\ Len(dedup) <= DedupCap
    BY <1>0, <1>15, <2>1, LenProperties
       DEF Submit, Typed, TypeOK, Works, Payloads, Attempt, Attempts
  <2> HIDE DEF s
  <2>3. /\ shares' \in Seq(Payloads) /\ Len(shares') = Attempt + 1 /\ found' \subseteq Gaps
        /\ Len(shares') <= MaxShares
    BY <1>0, <2>1, <2>2, InAppend DEF Attempt, Attempts, Typed, TypeOK, s
  <2>4. dedup' \in Seq(Payloads) /\ Len(dedup') <= DedupCap
    <3>1. CASE Remember(s)
      <4>1. CASE Len(dedup) < DedupCap
        BY <1>0, <2>2, <3>1, <4>1, InAppend, LenProperties DEF Remember
      <4>2. CASE ~(Len(dedup) < DedupCap)
        <5>1. dedup # <<>> /\ Len(dedup) \in Nat
          BY <1>0, <2>2, <4>2, EmptySeq, LenProperties
        <5>2. Tail(dedup) \in Seq(Payloads) /\ Len(Tail(dedup)) = Len(dedup) - 1
          BY <2>2, <5>1, HeadTailProperties
        <5>3. /\ Append(Tail(dedup), s) \in Seq(Payloads)
              /\ Len(Append(Tail(dedup), s)) = Len(dedup)
          BY <2>2, <5>1, <5>2, InAppend
        <5> QED BY <2>2, <3>1, <4>2, <5>3 DEF Remember
      <4> QED BY <4>1, <4>2
    <3> QED BY <2>1, <2>2, <3>1 DEF s
  <2>5. pending' \in Seq(Pendings) /\ Len(pending') <= PendingCap
    BY <1>0, <2>1, <2>2, Pended DEF Typed, TypeOK
  <2>6. /\ msgId' \in Ids /\ mainPc' \in {"refused", "sending"}
        /\ mainPc' = "sending" => sendId' \in Ids
        /\ sendId' \in Nat
    BY <1>0, <2>1, Lines DEF Typed, TypeOK, Ids
  <2>7. admitted' \subseteq Attempts \X BOOLEAN
    <3>1. admitted \subseteq Attempts \X BOOLEAN
      BY <1>0 DEF Typed, TypeOK
    <3>2. (Len(pending) < PendingCap) \in BOOLEAN
      OBVIOUS
    <3>3. <<Attempt + 1, Len(pending) < PendingCap>> \in Attempts \X BOOLEAN
      BY <2>2, <3>2, Zenon
    <3>4. \/ admitted' = admitted
          \/ admitted' = admitted \cup {<<Attempt + 1, Len(pending) < PendingCap>>}
      BY <2>1
    <3> QED BY <3>1, <3>3, <3>4, Zenon
  <2> QED BY SMTT(40), <1>0, <1>15, <2>2, <2>3, <2>4, <2>5, <2>6, <2>7
          DEF Submit, Typed, TypeOK, Attempt, Ids
<1>16. CASE Over
  BY <1>0, <1>16 DEF Over, vars, Typed, TypeOK, Attempt
<1> QED
  BY <1>1, <1>2, <1>3, <1>4, <1>5, <1>6, <1>7, <1>8, <1>9, <1>10, <1>11, <1>12, <1>13, <1>14,
     <1>15, <1>16 DEF Next, Pool, RecvThread, MainGoesOn

-----------------------------------------------------------------------------
(* What a step does to ids, lines and the ring                              *)

\* A line that is new on the wire to the pool is a request under the next id,
\* or the submission main is about to send.
NewToPool(l) ==
  \/ l.kind = "request" /\ l.id = msgId /\ msgId' = msgId + 1
  \/ /\ l.kind = "submit" /\ l.id = sendId /\ l.attempt = Attempt /\ mainPc = "sending"
     /\ mainPc' # "sending" /\ UNCHANGED <<msgId, pending, shares>>

\* A line that is new on the wire from it is a push, or answers a line it read.
NewFromPool(l) ==
  \/ l.kind \in {"notify", "target"}
  \/ /\ l.kind \in {"verdict", "work"}
     /\ \E m \in ToSet(toPool) :
          l.id = m.id /\ (m.kind = "submit" => <<m.attempt, Meaning(l)>> \in poolSaid')

\* A new share has the next id and the next attempt.
Submitting ==
  /\ mainPc = "mining" /\ mainPc' = "sending" /\ sendId' = msgId /\ msgId' = msgId + 1
  /\ Len(shares') = Len(shares) + 1 /\ UNCHANGED <<toPool, fromPool>>

Effects ==
  /\ msgId' \in {msgId, msgId + 1}
  /\ \A l \in ToSet(toPool') : l \in ToSet(toPool) \/ NewToPool(l)
  /\ \A l \in ToSet(fromPool') : l \in ToSet(fromPool) \/ NewFromPool(l)
  /\ poolSaid \subseteq poolSaid'
  /\ \A p \in Ring' :
       p \in Ring \/ (p.id = msgId /\ p.attempt = Attempt + 1 /\ Submitting)
  /\ mainPc' = "sending" => Submitting \/ UNCHANGED <<mainPc, sendId, shares>>
  /\ Len(shares') \in {Len(shares), Len(shares) + 1}

LEMMA RequestEffects ==
  ASSUME Typed, SendOk(Request(NextId)) \/ SendFails
  PROVE  \A l \in ToSet(toPool') :
           l \in ToSet(toPool) \/ (l.kind = "request" /\ l.id = msgId)
<1>1. toPool \in Seq(ToPoolLines) /\ Request(NextId) \in ToPoolLines
  BY Lines DEF Typed
<1>2. Request(NextId).kind = "request" /\ Request(NextId).id = msgId
  BY DEF Request, NextId
<1>3. toPool' = toPool \/ toPool' = Append(toPool, Request(NextId))
  BY DEF SendOk, SendFails
<1>4. ToSet(Append(toPool, Request(NextId))) = ToSet(toPool) \cup {Request(NextId)}
  BY <1>1, InAppend
<1> HIDE DEF Request
<1> QED BY <1>2, <1>3, <1>4

LEMMA PushEffects ==
  ASSUME Typed, NEW l \in FromPoolLines, l.kind \in {"notify", "target"}, Deliver(l)
  PROVE  \A k \in ToSet(fromPool') : k \in ToSet(fromPool) \/ NewFromPool(k)
<1>1. fromPool \in Seq(FromPoolLines)
  BY DEF Typed
<1>2. fromPool' = fromPool \/ fromPool' = Append(fromPool, l)
  BY DEF Deliver
<1>3. ToSet(Append(fromPool, l)) = ToSet(fromPool) \cup {l}
  BY <1>1, InAppend
<1>4. NewFromPool(l)
  BY DEF NewFromPool
<1> QED BY <1>2, <1>3, <1>4

LEMMA StepEffects ==
  ASSUME IInv, Next
  PROVE  Effects
<1>0. /\ Typed /\ FreshIds /\ FreshAttempts /\ OneEntry
      /\ msgId \in Ids /\ Len(shares) \in Nat
      /\ toPool \in Seq(ToPoolLines) /\ fromPool \in Seq(FromPoolLines)
      /\ pending \in Seq(Pendings)
  BY LenProperties DEF IInv, Typed, TypeOK, Ids
<1>1. CASE PoolRotates
  <2>1. poolWork' \in Works
    BY TypedStep DEF Typed, TypeOK
  <2>2. Notify(poolWork') \in FromPoolLines /\ Notify(poolWork').kind = "notify"
    BY <1>0, <2>1, Lines DEF Notify
  <2>3. \A k \in ToSet(fromPool') : k \in ToSet(fromPool) \/ NewFromPool(k)
    BY <1>0, <1>1, <2>2, PushEffects DEF PoolRotates
  <2> QED BY <1>1, <2>3 DEF PoolRotates, Effects, Ring
<1>2. CASE PoolRetargets
  <2>1. poolWork' \in Works
    BY TypedStep DEF Typed, TypeOK
  <2>2. PICK t \in Targets : Deliver(NewTarget(t)) \/ Deliver(Notify(poolWork'))
    BY <1>2, Zenon DEF PoolRetargets
  <2>3. /\ Notify(poolWork') \in FromPoolLines /\ Notify(poolWork').kind = "notify"
        /\ NewTarget(t) \in FromPoolLines /\ NewTarget(t).kind = "target"
    BY <1>0, <2>1, Lines DEF Notify, NewTarget
  <2>4. \A k \in ToSet(fromPool') : k \in ToSet(fromPool) \/ NewFromPool(k)
    BY <1>0, <2>2, <2>3, PushEffects
  <2> QED BY <1>2, <2>4 DEF PoolRetargets, Effects, Ring
<1>3. CASE PoolAnswers
  <2> DEFINE m == Head(toPool)
  <2>1. m \in ToSet(toPool) /\ m \in ToPoolLines /\ ToSet(toPool') \subseteq ToSet(toPool)
    BY <1>0, <1>3, InTail DEF PoolAnswers
  <2>2. m.id \in Ids /\ (m.kind = "submit" => m.attempt \in Attempts)
    BY <2>1 DEF ToPoolLines
  <2>3. \E l \in FromPoolLines :
          /\ fromPool' = Append(fromPool, l)
          /\ l.kind \in {"verdict", "work"} /\ l.id = m.id
          /\ m.kind = "submit" => <<m.attempt, Meaning(l)>> \in poolSaid'
    <3>1. ASSUME AnswerWork(m.id),
                 m.kind = "submit" => poolSaid' = poolSaid \cup {<<m.attempt, "neither">>}
          PROVE  \E l \in FromPoolLines :
                   /\ fromPool' = Append(fromPool, l)
                   /\ l.kind \in {"verdict", "work"} /\ l.id = m.id
                   /\ m.kind = "submit" => <<m.attempt, Meaning(l)>> \in poolSaid'
      <4>1. PICK w \in Works : fromPool' = Append(fromPool, Reply(m.id, w))
        BY <3>1 DEF AnswerWork, Templates
      <4>2. /\ Reply(m.id, w) \in FromPoolLines /\ Reply(m.id, w).kind = "work"
            /\ Reply(m.id, w).id = m.id /\ Meaning(Reply(m.id, w)) = "neither"
        BY <1>0, <2>2, Lines DEF Reply, Meaning
      <4> QED BY <3>1, <4>1, <4>2
    <3>2. ASSUME NEW v \in {"accepted", "rejected"},
                 fromPool' = Append(fromPool, Verdict(m.id, v)),
                 poolSaid' = poolSaid \cup {<<m.attempt, v>>}
          PROVE  \E l \in FromPoolLines :
                   /\ fromPool' = Append(fromPool, l)
                   /\ l.kind \in {"verdict", "work"} /\ l.id = m.id
                   /\ m.kind = "submit" => <<m.attempt, Meaning(l)>> \in poolSaid'
      <4>1. /\ Verdict(m.id, v) \in FromPoolLines /\ Verdict(m.id, v).kind = "verdict"
            /\ Verdict(m.id, v).id = m.id /\ Meaning(Verdict(m.id, v)) = v
        BY <1>0, <2>2, Lines DEF Verdict, Meaning
      <4> QED BY <3>2, <4>1
    <3>3. CASE /\ fromPool' = Append(fromPool, Verdict(m.id, "odd"))
               /\ poolSaid' = poolSaid \cup {<<m.attempt, "neither">>}
      <4>1. /\ Verdict(m.id, "odd") \in FromPoolLines /\ Verdict(m.id, "odd").kind = "verdict"
            /\ Verdict(m.id, "odd").id = m.id /\ Meaning(Verdict(m.id, "odd")) = "neither"
        BY <1>0, <2>2, Lines DEF Verdict, Meaning
      <4> QED BY <3>3, <4>1
    <3> QED BY <1>3, <3>1, <3>2, <3>3 DEF PoolAnswers
  <2>4. PICK l \in FromPoolLines :
          /\ fromPool' = Append(fromPool, l)
          /\ l.kind \in {"verdict", "work"} /\ l.id = m.id
          /\ m.kind = "submit" => <<m.attempt, Meaning(l)>> \in poolSaid'
    BY <2>3
  <2>5. ToSet(fromPool') = ToSet(fromPool) \cup {l} /\ NewFromPool(l)
    <3>1. ToSet(Append(fromPool, l)) = ToSet(fromPool) \cup {l}
      BY <1>0, InAppend
    <3>2. NewFromPool(l)
      BY <2>1, <2>4 DEF NewFromPool
    <3> QED BY <2>4, <3>1, <3>2
  <2> QED BY <1>3, <2>1, <2>5 DEF PoolAnswers, Effects, Ring
<1>4. CASE LinkDrops
  <2>1. ToSet(fromPool') \subseteq ToSet(fromPool) /\ ToSet(toPool') = {}
    BY <1>0, <1>4, InPrefix, InSeq, EmptySeq DEF LinkDrops
  <2> QED BY <1>4, <2>1 DEF LinkDrops, Effects, Ring
<1>5. CASE Reconnect
  <2>1. ToSet(fromPool') = {} /\ ToSet(toPool') = {} /\ ToSet(pending') = {}
    BY <1>5, InSeq, EmptySeq DEF Reconnect, FlushPending
  <2> QED BY <1>5, <2>1 DEF Reconnect, Effects, Ring
<1>6. CASE Reconnected
  <2>1. \A l \in ToSet(toPool') : l \in ToSet(toPool) \/ (l.kind = "request" /\ l.id = msgId)
    BY <1>0, <1>6, RequestEffects DEF Reconnected
  <2> QED BY <1>0, <1>6, <2>1 DEF Reconnected, Effects, Ring, NewToPool, NextId
<1>7. CASE ResetDedup \/ Disconnected \/ RecvEnds
  BY <1>7 DEF ResetDedup, Disconnected, RecvEnds, Effects, Ring
<1>8. CASE HandleLine
  <2> DEFINE m == Head(fromPool)
  <2>1. ToSet(fromPool') \subseteq ToSet(fromPool)
    BY <1>0, <1>8, InTail DEF HandleLine
  <2>2. pending' = pending \/ pending' = Without(m.id)
    BY <1>8 DEF HandleLine, HandleVerdict, HandleWork, HandleTarget, Credit
  <2>3. Ring' \subseteq Ring
    BY <1>0, <2>2, Taken DEF Ring
  <2> QED BY <1>8, <2>1, <2>3 DEF HandleLine, Effects
<1>9. CASE Refresh
  <2>1. \A l \in ToSet(toPool') : l \in ToSet(toPool) \/ (l.kind = "request" /\ l.id = msgId)
    BY <1>0, <1>9, RequestEffects DEF Refresh
  <2> QED BY <1>0, <1>9, <2>1 DEF Refresh, Effects, Ring, NewToPool, NextId
<1>10. CASE TakeWork \/ RecordRefusal \/ JoinRecv \/ Leave
  BY <1>10 DEF TakeWork, RecordRefusal, JoinRecv, Leave, Effects, Ring
<1>11. CASE Send
  <2> DEFINE l == Submission(sendId, Attempt)
  <2>1. l \in ToPoolLines
    BY <1>0, <1>11, Lines DEF Send, Typed
  <2>2. l.kind = "submit" /\ l.id = sendId /\ l.attempt = Attempt
    BY DEF Submission
  <2>3. CASE SendOk(l) /\ mainPc' = "mining" /\ UNCHANGED pending
    <3>1. toPool' = toPool \/ toPool' = Append(toPool, l)
      BY <2>3 DEF SendOk
    <3>2. NewToPool(l)
      BY <1>11, <2>2, <2>3 DEF Send, NewToPool
    <3>3. \A k \in ToSet(toPool') : k \in ToSet(toPool) \/ NewToPool(k)
      <4>1. ToSet(Append(toPool, l)) = ToSet(toPool) \cup {l}
        BY <1>0, <2>1, InAppend
      <4> HIDE DEF l
      <4> QED BY <3>1, <3>2, <4>1
    <3> QED BY <1>11, <2>3, <3>3 DEF Send, Effects, Ring
  <2>4. CASE SendFails /\ pending' = Without(sendId) /\ mainPc' = "refused"
    <3>1. Ring' \subseteq Ring
      BY <1>0, <2>4, Taken DEF Ring
    <3> QED BY <1>11, <2>4, <3>1 DEF Send, SendFails, Effects
  <2> QED BY <1>11, <2>3, <2>4 DEF Send
<1>12. CASE Submit
  <2>1. Len(shares') = Len(shares) + 1 /\ Attempt + 1 \in Attempts
    BY <1>0, <1>12, TypedStep, LenProperties, AppendProperties
       DEF Submit, Typed, TypeOK, Attempt, Attempts
  <2>2. CASE mainPc' = "refused" /\ UNCHANGED <<shareVars, sendId>>
    BY <1>0, <1>12, <2>1, <2>2 DEF Submit, Effects, Ring
  <2>3. CASE /\ Pend(Attempt + 1) /\ sendId' = NextId /\ msgId' = NextId + 1
             /\ mainPc' = "sending"
    <3>1. Submitting
      BY <1>12, <2>1, <2>3 DEF Submit, Submitting, NextId
    <3>2. \A p \in Ring' : p \in Ring \/ (p.id = msgId /\ p.attempt = Attempt + 1)
      <4>1. \/ Ring' = Ring \cup {[id |-> msgId, attempt |-> Attempt + 1]}
            \/ pending' = pending
        BY <1>0, <2>1, <2>3, Pended
      <4> QED BY <4>1 DEF Ring
    <3> QED BY <1>0, <1>12, <2>1, <2>3, <3>1, <3>2 DEF Submit, Effects, NextId
  <2> QED BY <1>12, <2>2, <2>3 DEF Submit
<1>13. CASE Over
  BY <1>13 DEF Over, vars, Effects, Ring
<1> QED
  BY <1>1, <1>2, <1>3, <1>4, <1>5, <1>6, <1>7, <1>8, <1>9, <1>10, <1>11, <1>12, <1>13
     DEF Next, Pool, RecvThread, MainGoesOn

-----------------------------------------------------------------------------
(* Ids                                                                      *)

LEMMA RingTyped ==
  ASSUME Typed
  PROVE  /\ Ring \in SUBSET Pendings /\ Lost \in SUBSET Pendings
         /\ \A p \in Ring : p.id \in Ids
         /\ \A p \in Ring \cup Lost : p.attempt \in Attempts
         /\ Attempts \subseteq Nat /\ Len(shares) \in Nat /\ msgId \in Ids
<1>1. Ring \in SUBSET Pendings /\ Lost \in SUBSET Pendings
  BY InSeq DEF Ring, Lost, Typed, TypeOK
<1>2. Attempts \subseteq Nat /\ Len(shares) \in Nat /\ msgId \in Ids
  BY LenProperties DEF Typed, TypeOK, Attempts, Ids
<1> QED BY <1>1, <1>2 DEF Pendings, Ids

LEMMA FreshIdsStep ==
  ASSUME IInv, Typed', Effects
  PROVE  FreshIds'
<1>1. /\ Typed /\ FreshIds /\ msgId \in Nat /\ msgId' \in Nat
      /\ \A p \in Ring : p.id \in Nat
      /\ ToSet(toPool) \in SUBSET ToPoolLines /\ ToSet(fromPool) \in SUBSET FromPoolLines
  BY RingTyped, InSeq DEF IInv, Typed, TypeOK, Ids
<1>2. ASSUME NEW p \in Ring' PROVE p.id < msgId'
  BY <1>1, <1>2 DEF FreshIds, Effects, Submitting
<1>3. ASSUME NEW m \in ToSet(toPool)' PROVE m.id < msgId'
  <2>1. CASE m \in ToSet(toPool)
    <3>1. m.id \in Nat /\ m.id < msgId
      BY <1>1, <2>1 DEF FreshIds, ToPoolLines, Ids
    <3> QED BY <1>1, <3>1 DEF Effects
  <2>2. CASE NewToPool(m)
    <3>1. mainPc = "sending" => sendId \in Nat /\ sendId < msgId
      BY <1>1 DEF Typed, Ids, FreshIds
    <3> QED BY <1>1, <2>2, <3>1 DEF NewToPool
  <2> QED BY <1>3, <2>1, <2>2 DEF Effects
<1>4. ASSUME NEW m \in ToSet(fromPool)', m.kind \in {"verdict", "work"} PROVE m.id < msgId'
  <2>1. CASE m \in ToSet(fromPool)
    <3>1. m.id \in Nat /\ m.id < msgId
      BY <1>1, <1>4, <2>1 DEF FreshIds, FromPoolLines, Ids
    <3> QED BY <1>1, <3>1 DEF Effects
  <2>2. CASE NewFromPool(m)
    <3>1. PICK l \in ToSet(toPool) : m.id = l.id
      BY <1>4, <2>2 DEF NewFromPool
    <3>2. l.id \in Nat /\ l.id < msgId
      BY <1>1, <3>1 DEF FreshIds, ToPoolLines, Ids
    <3> QED BY <1>1, <3>1, <3>2 DEF Effects
  <2> QED BY <1>4, <2>1, <2>2 DEF Effects
<1>5. mainPc' = "sending" => sendId' < msgId'
  <2>1. CASE Submitting
    BY <1>1, <2>1 DEF Submitting
  <2>2. CASE mainPc' = "sending" /\ UNCHANGED <<mainPc, sendId, shares>>
    <3>1. sendId \in Nat /\ sendId < msgId
      BY <1>1, <2>2 DEF Typed, Ids, FreshIds
    <3> QED BY <1>1, <2>2, <3>1 DEF Effects
  <2> QED BY <2>1, <2>2 DEF Effects
<1> QED BY <1>2, <1>3, <1>4, <1>5 DEF FreshIds

LEMMA IdsBindStep ==
  ASSUME IInv, Typed', Effects
  PROVE  IdsBind'
<1>0. /\ Typed /\ FreshIds /\ IdsBind /\ FreshAttempts /\ msgId \in Nat
      /\ \A p \in Ring : p.id \in Nat
      /\ ToSet(toPool) \in SUBSET ToPoolLines
  BY RingTyped, InSeq DEF IInv, Typed, TypeOK, Ids
<1> SUFFICES ASSUME NEW p \in Ring'
             PROVE  /\ \A m \in ToSet(toPool)' :
                         m.id = p.id => m.kind = "submit" /\ m.attempt = p.attempt
                    /\ mainPc' = "sending" /\ sendId' = p.id => p.attempt = Attempt'
  BY DEF IdsBind
<1>1. CASE p \in Ring
  <2>1. p.id \in Nat /\ p.id < msgId
    BY <1>0, <1>1 DEF FreshIds
  <2>2. ASSUME NEW m \in ToSet(toPool)', m.id = p.id
        PROVE  m.kind = "submit" /\ m.attempt = p.attempt
    <3>1. CASE m \in ToSet(toPool)
      BY <1>0, <1>1, <2>2, <3>1 DEF IdsBind
    <3>2. CASE NewToPool(m)
      BY <1>0, <1>1, <2>1, <2>2, <3>2 DEF IdsBind, NewToPool
    <3> QED BY <2>2, <3>1, <3>2 DEF Effects
  <2>3. ASSUME mainPc' = "sending", sendId' = p.id
        PROVE  p.attempt = Attempt'
    <3>1. CASE Submitting
      BY <1>0, <2>1, <2>3, <3>1 DEF Submitting
    <3>2. CASE UNCHANGED <<mainPc, sendId, shares>>
      BY <1>0, <1>1, <2>3, <3>2 DEF IdsBind, Attempt
    <3> QED BY <2>3, <3>1, <3>2 DEF Effects
  <2> QED BY <2>2, <2>3
<1>2. CASE p.id = msgId /\ p.attempt = Attempt + 1 /\ Submitting
  <2>1. ASSUME NEW m \in ToSet(toPool)' PROVE m.id # p.id
    <3>1. m \in ToSet(toPool) /\ m.id \in Nat
      BY <1>0, <1>2, <2>1 DEF Submitting, ToPoolLines, Ids
    <3> QED BY <1>0, <1>2, <3>1 DEF FreshIds
  <2> QED BY <1>2, <2>1 DEF Submitting, Attempt
<1> QED BY <1>1, <1>2 DEF Effects

LEMMA AnswersBindStep ==
  ASSUME IInv, Typed', Effects
  PROVE  AnswersBind'
<1>0. /\ Typed /\ FreshIds /\ IdsBind /\ AnswersBind /\ msgId \in Nat
      /\ ToSet(fromPool) \in SUBSET FromPoolLines
  BY RingTyped, InSeq DEF IInv, Typed, TypeOK, Ids
<1> SUFFICES ASSUME NEW p \in Ring', NEW m \in ToSet(fromPool)',
                    m.kind \in {"verdict", "work"}, m.id = p.id
             PROVE  <<p.attempt, Meaning(m)>> \in poolSaid'
  BY DEF AnswersBind, Meaning
<1>1. CASE p \in Ring /\ m \in ToSet(fromPool)
  BY <1>0, <1>1 DEF AnswersBind, Effects
<1>2. CASE p \in Ring /\ NewFromPool(m)
  <2>1. PICK l \in ToSet(toPool) :
          m.id = l.id /\ (l.kind = "submit" => <<l.attempt, Meaning(m)>> \in poolSaid')
    BY <1>2 DEF NewFromPool
  <2>2. l.kind = "submit" /\ l.attempt = p.attempt
    BY <1>0, <1>2, <2>1 DEF IdsBind
  <2> QED BY <2>1, <2>2
<1>3. CASE p.id = msgId /\ Submitting
  <2>1. m \in ToSet(fromPool) /\ m.id \in Nat
    BY <1>0, <1>3 DEF Submitting, FromPoolLines, Ids
  <2> QED BY <1>0, <1>3, <2>1 DEF FreshIds
<1> QED BY <1>1, <1>2, <1>3 DEF Effects

LEMMA OneEntryStep ==
  ASSUME IInv, Next
  PROVE  OneEntry'
<1>0. Typed /\ FreshIds /\ FreshAttempts /\ OneEntry
  BY DEF IInv
<1>1. CASE UNCHANGED pending
  BY <1>0, <1>1 DEF OneEntry
<1>2. CASE pending' = <<>>
  BY <1>2 DEF OneEntry
<1>3. ASSUME NEW id, pending' = Without(id)
      PROVE  OneEntry'
  <2>1. \A i, j \in DOMAIN Without(id) :
          \/ Without(id)[i].id = Without(id)[j].id
          \/ Without(id)[i].attempt = Without(id)[j].attempt
          => i = j
    BY <1>0, Taken
  <2> QED BY <1>3, <2>1 DEF OneEntry
<1>4. CASE Submit
  <2>1. CASE Pend(Attempt + 1)
    <3>1. Attempt + 1 \in Attempts
      BY <1>0, <1>4, StratumAssumption, LenProperties DEF Submit, Typed, TypeOK, Attempt, Attempts
    <3> QED BY <1>0, <2>1, <3>1, Pended
  <2> QED BY <1>1, <1>4, <2>1 DEF Submit
<1>5. CASE HandleLine \/ Send
  BY <1>1, <1>3, <1>5
     DEF HandleLine, HandleVerdict, HandleWork, HandleTarget, Credit, Send
<1>6. CASE Reconnect
  BY <1>2, <1>6 DEF Reconnect, FlushPending
<1> QED
  BY <1>1, <1>4, <1>5, <1>6
     DEF Next, Pool, PoolRotates, PoolRetargets, PoolAnswers, LinkDrops, RecvThread, Reconnected,
         ResetDedup, Refresh, Disconnected, RecvEnds, MainGoesOn, TakeWork, RecordRefusal,
         JoinRecv, Leave, Over, vars

-----------------------------------------------------------------------------
(* Verdicts                                                                 *)

Account ==
  /\ FreshAttempts /\ Open /\ SendTracked
  /\ VerdictIsThePools /\ OneVerdict /\ NoSilentLoss

\* NoSilentLoss, in terms of Tracked.
LEMMA LossIsTracked ==
  /\ NoSilentLoss <=> \A a \in Attempts : <<a, "queued">> \in log => Tracked(a)
  /\ NoSilentLoss' <=> \A a \in Attempts : <<a, "queued">> \in log' => Tracked(a)'
BY DEF NoSilentLoss, Tracked, Ring, Lost, ToSet

\* Most steps leave ring, records and admissions alone.
LEMMA QuietStep ==
  ASSUME IInv, Typed', Effects, UNCHANGED <<pending, lost, log, admitted, shares>>,
         mainPc' \in {"sending", "refused"} => UNCHANGED mainPc,
         recvPc' # "reporting" => lost = <<>>
  PROVE  Account'
<1>1. /\ Ring' = Ring /\ Lost' = Lost /\ Attempt' = Attempt
      /\ \A a : HasVerdict(a)' <=> HasVerdict(a)
      /\ \A a : Tracked(a) => Tracked(a)'
  BY DEF Ring, Lost, Attempt, HasVerdict, Tracked, Effects
<1>2. FreshAttempts' /\ Open'
  BY <1>1 DEF IInv, FreshAttempts, Open
<1>3. SendTracked'
  BY <1>1 DEF IInv, SendTracked
<1>4. VerdictIsThePools' /\ OneVerdict'
  BY DEF IInv, VerdictIsThePools, OneVerdict, Effects
<1>5. NoSilentLoss'
  BY <1>1, LossIsTracked DEF IInv
<1> QED BY <1>2, <1>3, <1>4, <1>5 DEF Account

\* A line from the pool: the share it is about leaves the ring, with its verdict.
LEMMA LineStep ==
  ASSUME IInv, Typed', Effects, HandleLine
  PROVE  Account'
<1> DEFINE m == Head(fromPool)
<1>0. /\ Typed /\ FreshAttempts /\ OneEntry /\ Open /\ SendTracked /\ AnswersBind
      /\ VerdictIsThePools /\ OneVerdict /\ NoSilentLoss
      /\ m \in ToSet(fromPool)
      /\ UNCHANGED <<poolSaid, lost, shares, admitted, mainPc>>
      /\ recvPc # "reporting" /\ recvPc' # "reporting" /\ lost = <<>> /\ Lost = {}
  <2>1. m \in ToSet(fromPool)
    BY InTail DEF IInv, Typed, HandleLine
  <2>2. recvPc = "loop" /\ recvPc' # "reporting"
    BY DEF HandleLine, HandleVerdict, HandleWork, HandleTarget, Publish, SetTarget
  <2>3. lost = <<>>
    BY <2>2 DEF IInv, Open
  <2>4. Lost = {}
    BY <2>3, InSeq, EmptySeq DEF Lost, ToSet
  <2>5. UNCHANGED <<poolSaid, lost, shares, admitted, mainPc>>
    BY DEF HandleLine
  <2> QED BY <2>1, <2>2, <2>3, <2>4, <2>5 DEF IInv
<1> HIDE DEF m
<1>1. CASE UNCHANGED <<pending, log>>
  BY <1>0, <1>1, QuietStep
<1>2. CASE /\ m.kind \in {"verdict", "work"} /\ Meaning(m) = "neither"
           /\ pending' = Without(m.id) /\ UNCHANGED log
  <2>1. Ring' = {p \in Ring : p.id # m.id}
    BY <1>0, <1>2, Taken DEF Ring
  <2>2. \A p \in Ring : p \in Ring' \/ <<p.attempt, "neither">> \in poolSaid
    BY <1>0, <1>2, <2>1 DEF AnswersBind
  <2>3. \A a : (HasVerdict(a)' <=> HasVerdict(a)) /\ (Tracked(a) => Tracked(a)')
    BY <1>0, <1>2, <2>2 DEF HasVerdict, Tracked, Lost
  <2>4. FreshAttempts' /\ Open'
    BY <1>0, <1>2, <2>1, <2>3 DEF FreshAttempts, Open, Lost
  <2>5. SendTracked'
    BY <1>0, <1>2, <2>3 DEF SendTracked, Attempt
  <2>6. VerdictIsThePools' /\ OneVerdict'
    BY <1>0, <1>2 DEF VerdictIsThePools, OneVerdict
  <2>7. NoSilentLoss'
    BY <1>0, <1>2, <2>3, LossIsTracked
  <2> QED BY <2>4, <2>5, <2>6, <2>7 DEF Account
<1>3. CASE m.kind = "verdict" /\ m.says # "odd" /\ IsPending(m.id) /\ Credit(m.id, m.says)
  <2>1. PICK q \in Ring : q.id = m.id /\ q.attempt = AttemptOf(m.id)
    BY <1>0, <1>3, Taken
  <2>2. Ring' = {p \in Ring : p.id # m.id} /\ log' = log \cup {<<q.attempt, m.says>>}
    BY <1>0, <1>3, <2>1, Taken DEF Ring, Credit
  <2>3. <<q.attempt, m.says>> \in poolSaid
    BY <1>0, <1>3, <2>1 DEF AnswersBind, Meaning
  <2>4. m.says \in {"accepted", "rejected"}
    BY <1>0, <1>3, InSeq DEF Typed, FromPoolLines
  <2>5. ~HasVerdict(q.attempt) /\ \A p \in Ring' : p.attempt # q.attempt
    <3>1. ASSUME NEW p \in Ring, p.attempt = q.attempt PROVE p.id = q.id
      BY <1>0, <2>1, <3>1 DEF OneEntry, Ring, ToSet
    <3> QED BY <1>0, <2>1, <2>2, <3>1 DEF Open
  <2>6. \A a : /\ HasVerdict(a) => HasVerdict(a)'
               /\ HasVerdict(a)' => HasVerdict(a) \/ a = q.attempt
               /\ Tracked(a) => Tracked(a)'
    <3>1. \A a : HasVerdict(a) => HasVerdict(a)'
      BY <2>2 DEF HasVerdict
    <3>2. \A a : HasVerdict(a)' => HasVerdict(a) \/ a = q.attempt
      BY <2>2 DEF HasVerdict
    <3>3. HasVerdict(q.attempt)'
      BY <2>2, <2>4 DEF HasVerdict, Verdicts
    <3>4. \A p \in Ring : p \in Ring' \/ p.attempt = q.attempt
      <4>1. ASSUME NEW p \in Ring, p.id = m.id PROVE p.attempt = q.attempt
        BY <1>0, <2>1, <4>1 DEF OneEntry, Ring, ToSet
      <4> QED BY <2>2, <4>1
    <3>5. \A a : Tracked(a) => Tracked(a)'
      BY <1>0, <3>1, <3>3, <3>4 DEF Tracked, Lost
    <3> QED BY <3>1, <3>2, <3>5
  <2>7. FreshAttempts'
    <3>1. q.attempt <= Len(shares)
      BY <1>0, <2>1 DEF FreshAttempts
    <3> QED BY <1>0, <2>2, <3>1 DEF FreshAttempts, Lost
  <2>8. Open'
    BY <1>0, <2>2, <2>5, <2>6 DEF Open, Lost
  <2>9. SendTracked'
    BY <1>0, <2>2, <2>4, <2>6 DEF SendTracked, Attempt
  <2>10. VerdictIsThePools'
    BY <1>0, <2>2, <2>3 DEF VerdictIsThePools
  <2>11. OneVerdict'
    <3>1. \A e \in log : e = <<e[1], e[2]>>
      <4>1. log \subseteq Attempts \X Statuses
        BY <1>0 DEF Typed, TypeOK
      <4> QED BY <4>1
    <3>2. \A e \in log : e[1] = q.attempt => e[2] \notin Verdicts
      BY <2>5, <3>1 DEF HasVerdict
    <3> QED BY <1>0, <2>2, <3>2 DEF OneVerdict
  <2>12. NoSilentLoss'
    <3>1. \A a : <<a, "queued">> \in log' => <<a, "queued">> \in log
      BY <2>2, <2>4
    <3> QED BY <1>0, <2>6, <3>1, LossIsTracked
  <2> QED BY <2>7, <2>8, <2>9, <2>10, <2>11, <2>12 DEF Account
<1> QED
  BY <1>1, <1>2, <1>3 DEF HandleLine, HandleVerdict, HandleWork, HandleTarget, Credit, Meaning, m

\* The first half of a reconnect: what was in the ring waits to be reported.
LEMMA ReconnectStep ==
  ASSUME IInv, Typed', Effects, Reconnect
  PROVE  Account'
<1>1. /\ Typed /\ FreshAttempts /\ Open /\ SendTracked
      /\ VerdictIsThePools /\ OneVerdict /\ NoSilentLoss
  BY DEF IInv
<1>2. /\ Ring' = {} /\ Lost' = Ring /\ Lost = {}
      /\ recvPc' = "reporting" /\ UNCHANGED <<log, admitted, shares, poolSaid, mainPc>>
  <2>1. lost = <<>> /\ lost' = pending /\ pending' = <<>>
    BY <1>1 DEF Reconnect, FlushPending, Open
  <2> QED BY <2>1, InSeq, EmptySeq DEF Reconnect, Ring, Lost, ToSet
<1>3. \A a : (HasVerdict(a)' <=> HasVerdict(a)) /\ (Tracked(a) => Tracked(a)')
  BY <1>2 DEF HasVerdict, Tracked
<1>4. FreshAttempts' /\ Open'
  BY <1>1, <1>2, <1>3 DEF FreshAttempts, Open
<1>5. SendTracked'
  BY <1>1, <1>2, <1>3 DEF SendTracked, Attempt
<1>6. VerdictIsThePools' /\ OneVerdict'
  BY <1>1, <1>2 DEF VerdictIsThePools, OneVerdict
<1>7. NoSilentLoss'
  BY <1>1, <1>2, <1>3, LossIsTracked
<1> QED BY <1>4, <1>5, <1>6, <1>7 DEF Account

\* The second half: they are reported unresolved.
LEMMA ReconnectedStep ==
  ASSUME IInv, Typed', Effects, Reconnected
  PROVE  Account'
<1>1. /\ Typed /\ FreshAttempts /\ Open /\ SendTracked
      /\ VerdictIsThePools /\ OneVerdict /\ NoSilentLoss
  BY DEF IInv
<1>0. \A e \in log : e = <<e[1], e[2]>>
  <2>1. log \subseteq Attempts \X Statuses
    BY <1>1 DEF Typed, TypeOK
  <2> QED BY <2>1
<1>2. /\ Ring' = Ring /\ Lost' = {} /\ lost' = <<>>
      /\ UNCHANGED <<admitted, shares, poolSaid, mainPc>>
      /\ log' = log \cup {<<p.attempt, "unresolved">> : p \in Lost}
  BY InSeq, EmptySeq DEF Reconnected, Ring, Lost, ToSet
<1>3. \A a : /\ HasVerdict(a) => HasVerdict(a)'
             /\ HasVerdict(a)' => HasVerdict(a) \/ \E p \in Lost : p.attempt = a
             /\ (\E p \in Lost : p.attempt = a) => HasVerdict(a)'
  BY <1>2 DEF HasVerdict, Verdicts
<1>4. \A a : Tracked(a) => Tracked(a)'
  BY <1>2, <1>3 DEF Tracked
<1>5. FreshAttempts'
  BY <1>1, <1>2 DEF FreshAttempts
<1>6. Open'
  BY <1>1, <1>2, <1>3 DEF Open
<1>7. SendTracked'
  BY <1>1, <1>2, <1>4 DEF SendTracked, Attempt
<1>8. VerdictIsThePools'
  BY <1>1, <1>2 DEF VerdictIsThePools
<1>9. OneVerdict'
  <2>1. \A p \in Lost, e \in log : e[1] = p.attempt => e[2] \notin Verdicts
    BY <1>0, <1>1 DEF Open, HasVerdict
  <2> QED BY <1>1, <1>2, <2>1 DEF OneVerdict
<1>10. NoSilentLoss'
  BY <1>1, <1>2, <1>4, LossIsTracked
<1> QED BY <1>5, <1>6, <1>7, <1>8, <1>9, <1>10 DEF Account

\* A record that is no verdict.
LEMMA RecordStep ==
  ASSUME IInv, Typed', Effects, NEW st \in Statuses \ Verdicts,
         mainPc \in {"sending", "refused"}, mainPc' = "mining",
         log' = log \cup {<<Attempt, st>>}, st = "queued" => mainPc = "sending",
         UNCHANGED <<pending, lost, admitted, shares, poolSaid, recvPc>>
  PROVE  Account'
<1>1. /\ Typed /\ FreshAttempts /\ Open /\ SendTracked
      /\ VerdictIsThePools /\ OneVerdict /\ NoSilentLoss
      /\ Attempt \in Nat
  BY LenProperties DEF IInv, Typed, TypeOK, Attempt
<1>2. Ring' = Ring /\ Lost' = Lost
  BY DEF Ring, Lost
<1>3. \A a : (HasVerdict(a)' <=> HasVerdict(a)) /\ (Tracked(a) => Tracked(a)')
  <2>1. \A a : HasVerdict(a)' <=> HasVerdict(a)
    BY DEF HasVerdict
  <2> QED BY <1>2, <2>1 DEF Tracked
<1>4. FreshAttempts' /\ Open'
  BY <1>1, <1>2, <1>3 DEF FreshAttempts, Open, Attempt
<1>5. SendTracked'
  BY DEF SendTracked
<1>6. VerdictIsThePools' /\ OneVerdict'
  BY <1>1 DEF VerdictIsThePools, OneVerdict, Verdicts
<1>7. NoSilentLoss'
  <2>1. ASSUME NEW a \in Attempts, <<a, "queued">> \in log'
        PROVE  Tracked(a)
    <3>1. CASE <<a, "queued">> \in log
      BY <1>1, <3>1, LossIsTracked
    <3>2. CASE a = Attempt /\ st = "queued"
      BY <1>1, <3>2 DEF SendTracked
    <3> QED BY <2>1, <3>1, <3>2
  <2> QED BY <1>3, <2>1, LossIsTracked
<1> QED BY <1>4, <1>5, <1>6, <1>7 DEF Account

\* A send that fails takes the share out of the ring; it was not queued.
LEMMA SendFailsStep ==
  ASSUME IInv, Typed', Effects, Send, pending' = Without(sendId), mainPc' = "refused",
         UNCHANGED log
  PROVE  Account'
<1>1. /\ Typed /\ FreshAttempts /\ OneEntry /\ Open /\ SendTracked /\ IdsBind
      /\ VerdictIsThePools /\ OneVerdict /\ NoSilentLoss
      /\ mainPc = "sending" /\ UNCHANGED <<lost, admitted, shares, poolSaid, recvPc>>
  BY DEF IInv, Send
<1>2. Ring' = {p \in Ring : p.id # sendId} /\ Lost' = Lost
  BY <1>1, Taken DEF Ring, Lost
<1>3. \A p \in Ring : p \in Ring' \/ p.attempt = Attempt
  BY <1>1, <1>2 DEF IdsBind
<1>4. \A a : /\ HasVerdict(a)' <=> HasVerdict(a)
             /\ Tracked(a) => Tracked(a)' \/ a = Attempt
  BY <1>1, <1>2, <1>3 DEF HasVerdict, Tracked
<1>5. FreshAttempts' /\ Open'
  BY <1>1, <1>2, <1>4 DEF FreshAttempts, Open
<1>6. SendTracked'
  BY <1>1 DEF SendTracked, Attempt
<1>7. VerdictIsThePools' /\ OneVerdict'
  BY <1>1 DEF VerdictIsThePools, OneVerdict
<1>8. NoSilentLoss'
  BY <1>1, <1>4, LossIsTracked DEF SendTracked
<1> QED BY <1>5, <1>6, <1>7, <1>8 DEF Account

\* A new share: nothing is recorded of it, and it is tracked or the ring is full.
LEMMA SubmitStep ==
  ASSUME IInv, Typed', Effects, Submit
  PROVE  Account'
<1>1. /\ Typed /\ FreshIds /\ FreshAttempts /\ OneEntry /\ Open
      /\ VerdictIsThePools /\ OneVerdict /\ NoSilentLoss
      /\ UNCHANGED <<log, lost, poolSaid, recvPc>>
  BY DEF IInv, Submit
<1>2. PICK n \in Attempts : n = Attempt + 1 /\ Attempt' = n /\ Attempt \in Nat
  <2>1. Attempt \in Nat /\ Attempt < MaxShares
    BY LenProperties DEF IInv, Typed, TypeOK, Submit, Attempt
  <2>2. Attempt' = Attempt + 1
    <3>1. PICK s : shares' = Append(shares, s)
      BY DEF Submit
    <3>2. shares' \in Seq(Payloads) /\ shares \in Seq(Payloads)
      BY DEF IInv, Typed, TypeOK
    <3> QED BY <3>1, <3>2 DEF Attempt
  <2> QED BY <2>1, <2>2, StratumAssumption DEF Attempts
<1>3. \A a \in Attempts : a <= Attempt => a # n
  BY <1>2 DEF Attempts
<1>4. /\ \A e \in log : e[1] \in Attempts /\ e[1] <= Attempt
      /\ \A p \in Ring \cup Lost : p.attempt \in Attempts /\ p.attempt <= Attempt
  <2>1. \A e \in log : e[1] \in Attempts
    BY <1>1 DEF Typed, TypeOK
  <2>2. \A p \in Ring \cup Lost : p.attempt \in Attempts
    BY <1>1, RingTyped DEF Pendings
  <2> QED BY <1>1, <2>1, <2>2 DEF FreshAttempts, Attempt
<1>5. ~HasVerdict(n) /\ <<n, "queued">> \notin log
  BY <1>3, <1>4 DEF HasVerdict
<1>6. Lost' = Lost /\ \A a : HasVerdict(a)' <=> HasVerdict(a)
  BY <1>1 DEF HasVerdict, Lost
<1>7. /\ Ring \subseteq Ring'
      /\ \A p \in Ring' : p \in Ring \/ p.attempt = n
      /\ admitted \subseteq admitted'
      /\ \A e \in admitted' : e \in admitted \/ e[1] = n
      /\ mainPc' \in {"sending", "refused"}
      /\ mainPc' = "sending" => \/ \E p \in Ring' : p.attempt = n
                                \/ <<n, FALSE>> \in admitted'
  <2>1. CASE mainPc' = "refused" /\ UNCHANGED <<shareVars, sendId, admitted>>
    BY <2>1 DEF Ring
  <2>2. CASE /\ mainPc' = "sending" /\ Pend(Attempt + 1)
             /\ admitted' = admitted \cup {<<Attempt + 1, Len(pending) < PendingCap>>}
    <3> DEFINE e == [id |-> msgId, attempt |-> n]
    <3>1. \/ Len(pending) < PendingCap /\ Ring' = Ring \cup {e}
          \/ ~(Len(pending) < PendingCap) /\ pending' = pending
      BY <1>1, <1>2, <2>2, Pended
    <3>2. CASE Len(pending) < PendingCap
      <4>1. Ring' = Ring \cup {e} /\ e.attempt = n
        BY <3>1, <3>2
      <4>2. \A f \in admitted' : f \in admitted \/ f[1] = n
        BY <1>2, <2>2
      <4> HIDE DEF e
      <4> QED BY <2>2, <4>1, <4>2
    <3>3. CASE ~(Len(pending) < PendingCap)
      <4>1. Ring' = Ring
        BY <3>1, <3>3 DEF Ring
      <4>2. (Len(pending) < PendingCap) = FALSE
        BY <3>3
      <4>3. admitted' = admitted \cup {<<n, FALSE>>}
        BY <1>2, <2>2, <4>2
      <4>4. \A f \in admitted' : f \in admitted \/ f[1] = n
        <5> DEFINE g == <<n, FALSE>>
        <5>1. g[1] = n
          OBVIOUS
        <5>2. admitted' = admitted \cup {g}
          BY <4>3
        <5> HIDE DEF g
        <5> QED BY <5>1, <5>2
      <4> QED BY <2>2, <4>1, <4>3, <4>4
    <3> QED BY <3>2, <3>3
  <2> QED BY <2>1, <2>2 DEF Submit
<1>8. \A a : Tracked(a) => Tracked(a)'
  BY <1>1, <1>6, <1>7 DEF Tracked
<1>9. FreshAttempts'
  <2>1. Len(shares') = n /\ Attempt <= n /\ n \in Nat
    BY <1>2 DEF Attempt, Attempts
  <2>2. \A k \in Nat : k <= Attempt => k <= n
    BY <1>2, <2>1
  <2>3. \A p \in Ring' \cup Lost' : p.attempt <= n
    BY <1>4, <1>6, <1>7, <2>1, <2>2 DEF Attempts
  <2>4. \A e \in log' : e[1] <= n
    BY <1>1, <1>4, <2>1, <2>2 DEF Attempts
  <2>5. \A e \in admitted' : e[1] <= n
    <3>1. \A e \in admitted : e[1] \in Nat /\ e[1] <= Attempt
      <4>1. admitted \subseteq Attempts \X BOOLEAN
        BY <1>1 DEF Typed, TypeOK
      <4>2. \A e \in admitted : e[1] \in Nat
        BY <4>1 DEF Attempts
      <4> QED BY <1>1, <4>2 DEF FreshAttempts, Attempt
    <3> QED BY <1>7, <2>1, <2>2, <3>1
  <2> QED BY <2>1, <2>3, <2>4, <2>5 DEF FreshAttempts
<1>10. Open'
  <2>1. \A q \in Lost : q.attempt # n
    BY <1>3, <1>4
  <2> QED BY <1>1, <1>5, <1>6, <1>7, <2>1 DEF Open
<1>11. SendTracked'
  <2>1. mainPc' = "sending" => Tracked(n)'
    BY <1>7 DEF Tracked
  <2> QED BY <1>1, <1>2, <1>5, <2>1 DEF SendTracked
<1>12. VerdictIsThePools' /\ OneVerdict'
  BY <1>1 DEF VerdictIsThePools, OneVerdict
<1>13. NoSilentLoss'
  BY <1>1, <1>8, LossIsTracked
<1> QED BY <1>9, <1>10, <1>11, <1>12, <1>13 DEF Account

LEMMA AccountStep ==
  ASSUME IInv, Typed', Effects, Next
  PROVE  Account'
<1>1. recvPc # "reporting" => lost = <<>>
  BY DEF IInv, Open
<1>2. CASE Reconnect \/ Reconnected \/ HandleLine \/ Submit
  BY <1>2, ReconnectStep, ReconnectedStep, LineStep, SubmitStep
<1>3. CASE Send
  <2>1. CASE /\ log' = log \cup {<<Attempt, "queued">>} /\ mainPc' = "mining"
             /\ UNCHANGED pending
    BY <1>3, <2>1, RecordStep DEF Send, Statuses, Verdicts
  <2> QED BY <1>3, <2>1, SendFailsStep DEF Send
<1>4. CASE RecordRefusal
  <2> DEFINE st == IF connected THEN "duplicate" ELSE "send-failed"
  <2>1. st \in Statuses \ Verdicts /\ st # "queued"
    BY DEF Statuses, Verdicts
  <2>2. log' = log \cup {<<Attempt, st>>}
    BY <1>4 DEF RecordRefusal
  <2> HIDE DEF st
  <2> QED BY <1>4, <2>1, <2>2, RecordStep DEF RecordRefusal
<1>5. CASE PoolRotates \/ PoolRetargets \/ PoolAnswers \/ LinkDrops
  BY <1>1, <1>5, QuietStep DEF PoolRotates, PoolRetargets, PoolAnswers, LinkDrops
<1>6. CASE ResetDedup \/ Refresh \/ Disconnected \/ RecvEnds
  BY <1>1, <1>6, QuietStep DEF ResetDedup, Refresh, Disconnected, RecvEnds
<1>7. CASE TakeWork \/ JoinRecv \/ Leave \/ Over
  BY <1>1, <1>7, QuietStep DEF TakeWork, JoinRecv, Leave, Over, vars
<1> QED
  BY <1>2, <1>3, <1>4, <1>5, <1>6, <1>7 DEF Next, Pool, RecvThread, MainGoesOn

-----------------------------------------------------------------------------
(* Theorems                                                                 *)

LEMMA IInvInit == Init => IInv
<1> SUFFICES ASSUME Init PROVE IInv
  OBVIOUS
<1>1. Ring = {} /\ Lost = {} /\ ToSet(toPool) = {} /\ ToSet(fromPool) = {}
  BY DEF Init, Ring, Lost, ToSet
<1>2. Typed
  BY TypedInit
<1>3. FreshIds /\ FreshAttempts /\ OneEntry /\ IdsBind /\ AnswersBind
  BY <1>1 DEF Init, FreshIds, FreshAttempts, OneEntry, IdsBind, AnswersBind
<1>4. Open /\ SendTracked /\ VerdictIsThePools /\ OneVerdict /\ NoSilentLoss
  BY <1>1 DEF Init, Open, SendTracked, VerdictIsThePools, OneVerdict, NoSilentLoss
<1> QED BY <1>2, <1>3, <1>4 DEF IInv

LEMMA IInvStep == IInv /\ [Next]_vars => IInv'
<1> SUFFICES ASSUME IInv, [Next]_vars PROVE IInv'
  OBVIOUS
<1>1. CASE Next
  <2>1. Typed' /\ Effects /\ OneEntry'
    BY <1>1, TypedStep, StepEffects, OneEntryStep
  <2>2. FreshIds' /\ IdsBind' /\ AnswersBind'
    BY <2>1, FreshIdsStep, IdsBindStep, AnswersBindStep
  <2>3. Account'
    BY <1>1, <2>1, AccountStep
  <2> QED BY <2>1, <2>2, <2>3 DEF IInv, Account
<1>2. CASE UNCHANGED vars
  <2> USE <1>2 DEF vars
  <2>1. Typed'
    BY DEF IInv, Typed, TypeOK, Attempt
  <2>2. Ring' = Ring /\ Lost' = Lost /\ Attempt' = Attempt
    BY DEF Ring, Lost, Attempt
  <2>3. FreshIds' /\ FreshAttempts' /\ OneEntry' /\ IdsBind' /\ AnswersBind'
    BY <2>2 DEF IInv, FreshIds, FreshAttempts, OneEntry, IdsBind, AnswersBind
  <2>4. \A a : (HasVerdict(a)' <=> HasVerdict(a)) /\ (Tracked(a) => Tracked(a)')
    BY <2>2 DEF HasVerdict, Tracked
  <2>5. Open' /\ SendTracked' /\ VerdictIsThePools' /\ OneVerdict' /\ NoSilentLoss'
    BY <2>2, <2>4, LossIsTracked
       DEF IInv, Open, SendTracked, VerdictIsThePools, OneVerdict
  <2> QED BY <2>1, <2>3, <2>5 DEF IInv
<1> QED BY <1>1, <1>2

\* The inductive invariant: ids bind lines and ring entries to shares, and every
\* share is in one place.
THEOREM Invariant == Spec => []IInv
BY IInvInit, IInvStep, PTL DEF Spec

\* The client's state keeps its types, both rings their capacity.
THEOREM TypeCorrect == Spec => []TypeOK
<1>1. IInv => TypeOK
  BY DEF IInv, Typed
<1> QED BY <1>1, Invariant, PTL

\* A recorded acceptance or rejection is what the pool said of that share.
THEOREM VerdictsRight == Spec => []VerdictIsThePools
<1>1. IInv => VerdictIsThePools
  BY DEF IInv
<1> QED BY <1>1, Invariant, PTL

\* No share gets two verdicts.
THEOREM VerdictsOnce == Spec => []OneVerdict
<1>1. IInv => OneVerdict
  BY DEF IInv
<1> QED BY <1>1, Invariant, PTL

\* No queued share is lost from sight.
THEOREM NothingLost == Spec => []NoSilentLoss
<1>1. IInv => NoSilentLoss
  BY DEF IInv
<1> QED BY <1>1, Invariant, PTL

-----------------------------------------------------------------------------
(* No payload twice                                                         *)

LEMMA WireWork ==
  ASSUME NEW m \in FromPoolLines, WithWork(m)
  PROVE  m.work \in Works /\ m.work.header \in Nat \ {0}
BY StratumAssumption DEF FromPoolLines, WithWork, Works

\* The pool says w, then v, which it has not come back to.
LEMMA RunAppend ==
  ASSUME NEW h, NEW w, NEW v, v.header = h => w.header = h,
         NEW s \in Seq(FromPoolLines), NEW m \in FromPoolLines, WithWork(m) => m.work = v
  PROVE  LET t == Append(s, m) IN
         /\ NotAfter(h, s, w, 0) => NotAfter(h, t, v, 0)
         /\ OneRun(h, s, w) => OneRun(h, t, v)
         /\ RunsOn(h, s, w) => RunsOn(h, t, v)
<1> DEFINE t == Append(s, m)
           n == Len(s)
<1>1. /\ \A i \in 1 .. n : t[i] = s[i]
      /\ t[n + 1] = m
      /\ t \in Seq(FromPoolLines) /\ Len(t) = n + 1
  BY AppendProperties
<1>2. DOMAIN t = 1 .. n + 1 /\ DOMAIN s = 1 .. n /\ n \in Nat
  BY <1>1, LenProperties
<1> HIDE DEF t, n
<1>3. ASSUME NEW i \in 0 .. n, NotAfter(h, s, w, i) PROVE NotAfter(h, t, v, i)
  <2>1. v.header # h
    BY <1>3 DEF NotAfter
  <2>2. ASSUME NEW k \in DOMAIN t, i < k, WithWork(t[k]) PROVE t[k].work.header # h
    <3>1. CASE k = n + 1
      BY <1>1, <2>1, <2>2, <3>1
    <3>2. CASE k \in DOMAIN s
      BY <1>1, <1>2, <1>3, <2>2, <3>2 DEF NotAfter
    <3> QED BY <1>2, <3>1, <3>2
  <2> QED BY <2>1, <2>2 DEF NotAfter
<1>4. Leaves(h, t, v, n + 1)
  <2> SUFFICES ASSUME WithWork(m), m.work.header # h PROVE NotAfter(h, t, v, n + 1)
    BY <1>1 DEF Leaves
  <2>1. \A k \in DOMAIN t : ~(n + 1 < k)
    BY <1>2
  <2> QED BY <2>1 DEF NotAfter
<1>5. ASSUME NEW j \in DOMAIN s, Leaves(h, s, w, j) PROVE Leaves(h, t, v, j)
  <2>1. t[j] = s[j] /\ j \in 0 .. n
    BY <1>1, <1>2
  <2> QED BY <1>3, <1>5, <2>1 DEF Leaves
<1>6. ASSUME OneRun(h, s, w) PROVE OneRun(h, t, v)
  <2> SUFFICES ASSUME NEW i \in DOMAIN t, NEW j \in DOMAIN t,
                      i < j, WithWork(t[i]), t[i].work.header = h
               PROVE  Leaves(h, t, v, j)
    BY DEF OneRun
  <2>1. CASE j = n + 1
    BY <1>4, <2>1
  <2>2. CASE j \in DOMAIN s
    <3>1. i \in DOMAIN s /\ t[i] = s[i]
      BY <1>1, <1>2, <2>2
    <3> QED BY <1>5, <1>6, <2>2, <3>1 DEF OneRun
  <2> QED BY <1>2, <2>1, <2>2
<1>7. ASSUME RunsOn(h, s, w) PROVE RunsOn(h, t, v)
  <2> SUFFICES ASSUME NEW j \in DOMAIN t PROVE Leaves(h, t, v, j)
    BY DEF RunsOn
  <2>1. CASE j = n + 1
    BY <1>4, <2>1
  <2>2. CASE j \in DOMAIN s
    BY <1>5, <1>7, <2>2 DEF RunsOn
  <2> QED BY <1>2, <2>1, <2>2
<1>8. 0 \in 0 .. n
  BY <1>2
<1> QED BY <1>3, <1>6, <1>7, <1>8 DEF t

\* The same when nobody hears it.
LEMMA RunUnheard ==
  ASSUME NEW h, NEW w, NEW v, v.header = h => w.header = h, NEW s
  PROVE  /\ NotAfter(h, s, w, 0) => NotAfter(h, s, v, 0)
         /\ OneRun(h, s, w) => OneRun(h, s, v)
         /\ RunsOn(h, s, w) => RunsOn(h, s, v)
<1>1. \A i : NotAfter(h, s, w, i) => NotAfter(h, s, v, i)
  BY DEF NotAfter
<1>2. \A i : Leaves(h, s, w, i) => Leaves(h, s, v, i)
  BY <1>1 DEF Leaves
<1> QED BY <1>1, <1>2 DEF OneRun, RunsOn

LEMMA RunPrefix ==
  ASSUME NEW h, NEW w, NEW s \in Seq(FromPoolLines), NEW n \in 0 .. Len(s)
  PROVE  LET t == SubSeq(s, 1, n) IN
         /\ NotAfter(h, s, w, 0) => NotAfter(h, t, w, 0)
         /\ OneRun(h, s, w) => OneRun(h, t, w)
         /\ RunsOn(h, s, w) => RunsOn(h, t, w)
<1> DEFINE t == SubSeq(s, 1, n)
<1>1. t \in Seq(FromPoolLines) /\ Len(t) = n /\ \A i \in 1 .. n : t[i] = s[i]
  BY SMT
<1>2. DOMAIN t = 1 .. n /\ DOMAIN s = 1 .. Len(s) /\ Len(s) \in Nat
  BY <1>1, LenProperties
<1> HIDE DEF t
<1>3. \A i \in DOMAIN t : i \in DOMAIN s /\ t[i] = s[i]
  BY <1>1, <1>2
<1>4. \A i : NotAfter(h, s, w, i) => NotAfter(h, t, w, i)
  BY <1>3 DEF NotAfter
<1>5. \A i \in DOMAIN t : Leaves(h, s, w, i) => Leaves(h, t, w, i)
  BY <1>3, <1>4 DEF Leaves
<1> QED BY <1>3, <1>4, <1>5 DEF OneRun, RunsOn, t

LEMMA RunTail ==
  ASSUME NEW h, NEW w, NEW s \in Seq(FromPoolLines), s # <<>>
  PROVE  LET t == Tail(s)
             m == Head(s) IN
         /\ NotAfter(h, s, w, 0) =>
              NotAfter(h, t, w, 0) /\ (WithWork(m) => m.work.header # h)
         /\ OneRun(h, s, w) =>
              OneRun(h, t, w) /\ (WithWork(m) /\ m.work.header = h => RunsOn(h, t, w))
         /\ RunsOn(h, s, w) =>
              RunsOn(h, t, w) /\ (WithWork(m) /\ m.work.header # h => NotAfter(h, t, w, 0))
<1> DEFINE t == Tail(s)
           m == Head(s)
<1>1. /\ t \in Seq(FromPoolLines) /\ Len(t) = Len(s) - 1
      /\ \A i \in 1 .. Len(t) : t[i] = s[i + 1]
  BY HeadTailProperties
<1>2. DOMAIN t = 1 .. Len(s) - 1 /\ DOMAIN s = 1 .. Len(s) /\ Len(s) \in Nat \ {0}
  BY <1>1, LenProperties, EmptySeq
<1>3. m = s[1] /\ 1 \in DOMAIN s
  BY <1>2
<1> HIDE DEF t, m
<1>4. \A i \in DOMAIN t : i + 1 \in DOMAIN s /\ t[i] = s[i + 1] /\ 1 < i + 1 /\ 0 < i + 1
  BY <1>1, <1>2
<1>5. \A i, j \in DOMAIN t : i < j => i + 1 < j + 1
  BY <1>2
<1>6. NotAfter(h, s, w, 0) => NotAfter(h, t, w, 0)
  BY <1>4 DEF NotAfter
<1>7. NotAfter(h, s, w, 1) => NotAfter(h, t, w, 0)
  BY <1>4 DEF NotAfter
<1>8. ASSUME NEW i \in DOMAIN t, Leaves(h, s, w, i + 1) PROVE Leaves(h, t, w, i)
  <2>1. NotAfter(h, s, w, i + 1) => NotAfter(h, t, w, i)
    BY <1>4, <1>5 DEF NotAfter
  <2> QED BY <1>4, <1>8, <2>1 DEF Leaves
<1>9. NotAfter(h, s, w, 0) /\ WithWork(m) => m.work.header # h
  <2>1. 0 < 1
    OBVIOUS
  <2> QED BY <1>3, <2>1 DEF NotAfter
<1>10. OneRun(h, s, w) => OneRun(h, t, w)
  BY <1>4, <1>5, <1>8 DEF OneRun
<1>11. OneRun(h, s, w) /\ WithWork(m) /\ m.work.header = h => RunsOn(h, t, w)
  BY <1>3, <1>4, <1>8 DEF OneRun, RunsOn
<1>12. RunsOn(h, s, w) => RunsOn(h, t, w)
  BY <1>4, <1>8 DEF RunsOn
<1>13. RunsOn(h, s, w) /\ WithWork(m) /\ m.work.header # h => NotAfter(h, t, w, 0)
  BY <1>3, <1>7 DEF RunsOn, Leaves
<1> QED BY <1>6, <1>9, <1>10, <1>11, <1>12, <1>13 DEF t, m

\* The headers in sight are numbers.
LEMMA HeadersTyped ==
  ASSUME Typed, FirstTarget
  PROVE  /\ Headers \subseteq Nat \ {0}
         /\ poolWork \in Works /\ poolWork.header \in Nat
         /\ work.header \in Nat /\ cur.header \in Nat
         /\ fromPool \in Seq(FromPoolLines) /\ DOMAIN fromPool = 1 .. Len(fromPool)
         /\ \A i \in DOMAIN fromPool : WithWork(fromPool[i]) => fromPool[i].work.header \in Nat
         /\ shares \in Seq(Payloads) /\ DOMAIN shares = 1 .. Len(shares)
         /\ Len(fromPool) \in Nat /\ Len(shares) \in Nat
         /\ \A i \in DOMAIN shares : shares[i].header \in Headers
<1>1. Headers \subseteq Nat \ {0} /\ Targets \subseteq Nat \ {0}
  BY StratumAssumption
<1>2. poolWork \in Works /\ cur \in Works \cup {NoWork}
  BY DEF Typed, TypeOK
<1>3. \A w \in Works \cup {NoWork} : w.header \in Nat
  <2>1. \A w \in Works : w.header \in Nat
    BY <1>1 DEF Works
  <2>2. NoWork.header \in Nat
    BY DEF NoWork
  <2> QED BY <2>1, <2>2
<1>4. work.header \in Nat
  <2>1. CASE work \in [header : {0}, target : {0}]
    BY <2>1
  <2>2. CASE work \in [header : Headers, target : {1}]
    BY <1>1, <2>2
  <2> QED BY <2>1, <2>2 DEF FirstTarget
<1>5. /\ fromPool \in Seq(FromPoolLines) /\ DOMAIN fromPool = 1 .. Len(fromPool)
      /\ Len(fromPool) \in Nat
  BY LenProperties DEF Typed
<1>6. \A i \in DOMAIN fromPool : WithWork(fromPool[i]) => fromPool[i].work.header \in Nat
  BY <1>5, WireWork
<1>7. /\ shares \in Seq(Payloads) /\ DOMAIN shares = 1 .. Len(shares) /\ Len(shares) \in Nat
      /\ \A i \in DOMAIN shares : shares[i] \in Payloads
  BY LenProperties DEF Typed, TypeOK
<1> QED BY <1>1, <1>2, <1>3, <1>4, <1>5, <1>6, <1>7 DEF Payloads

\* The pool's next line, heard or not.
Says(m) ==
  /\ m \in FromPoolLines /\ m.kind # "target"
  /\ WithWork(m) => /\ m.work = told' /\ m.work.target = 1
                    /\ m.work.header <= poolWork'.header
  /\ fromPool' = fromPool \/ fromPool' = Append(fromPool, m)
  /\ UNCHANGED <<work, workNew, cur, shares>>

LEMMA SaysBound ==
  ASSUME Typed, FirstTarget, SoFar, NEW m, Says(m),
         poolWork' \in Works, poolWork'.target = 1, poolWork.header <= poolWork'.header
  PROVE  FirstTarget' /\ SoFar'
<1>1. /\ poolWork.header \in Nat /\ work.header \in Nat /\ cur.header \in Nat
      /\ fromPool \in Seq(FromPoolLines) /\ DOMAIN fromPool = 1 .. Len(fromPool)
      /\ \A i \in DOMAIN fromPool : WithWork(fromPool[i]) => fromPool[i].work.header \in Nat
      /\ \A i \in DOMAIN shares : shares[i].header \in Nat
      /\ Len(fromPool) \in Nat /\ poolWork'.header \in Nat
  BY HeadersTyped, StratumAssumption DEF Works
<1>2. \A k \in Nat : k <= poolWork.header => k <= poolWork'.header
  BY <1>1
<1>3. ASSUME NEW i \in DOMAIN fromPool
      PROVE  /\ fromPool[i].kind # "target"
             /\ WithWork(fromPool[i]) => /\ fromPool[i].work.target = 1
                                         /\ fromPool[i].work.header <= poolWork'.header
  BY <1>1, <1>2 DEF FirstTarget, SoFar, Above
<1>4. ASSUME NEW i \in DOMAIN fromPool'
      PROVE  /\ fromPool'[i].kind # "target"
             /\ WithWork(fromPool'[i]) => /\ fromPool'[i].work.target = 1
                                          /\ fromPool'[i].work.header <= poolWork'.header
  <2>1. CASE fromPool' = fromPool
    BY <1>3, <2>1
  <2>2. CASE fromPool' = Append(fromPool, m)
    <3>1. /\ \A k \in 1 .. Len(fromPool) : fromPool'[k] = fromPool[k]
          /\ fromPool'[Len(fromPool) + 1] = m
          /\ fromPool' \in Seq(FromPoolLines) /\ Len(fromPool') = Len(fromPool) + 1
      BY <1>1, <2>2, AppendProperties DEF Says
    <3>2. DOMAIN fromPool' = 1 .. Len(fromPool) + 1
      BY <3>1, LenProperties
    <3>3. CASE i = Len(fromPool) + 1
      BY <3>1, <3>3 DEF Says
    <3>4. CASE i \in DOMAIN fromPool
      BY <1>1, <1>3, <3>1, <3>4
    <3> QED BY <1>1, <3>2, <3>3, <3>4
  <2> QED BY <2>1, <2>2 DEF Says
<1>5. UNCHANGED <<work, workNew, cur, shares>>
  BY DEF Says
<1>6. FirstTarget'
  BY <1>4, <1>5 DEF FirstTarget, WithWork
<1>7. SoFar'
  <2>1. work'.header <= poolWork'.header /\ cur'.header <= poolWork'.header
    BY <1>1, <1>2, <1>5 DEF SoFar
  <2>2. \A i \in DOMAIN shares' : shares'[i].header <= poolWork'.header
    BY <1>1, <1>2, <1>5 DEF SoFar
  <2> QED BY <1>4, <2>1, <2>2 DEF SoFar, Above, WithWork
<1> QED BY <1>6, <1>7

\* A header that it does not go back to.
LEMMA SaysOnce ==
  ASSUME Typed, FirstTarget, NEW m, Says(m),
         NEW h, MinedOnce(h), told'.header = h => told.header = h
  PROVE  MinedOnce(h)'
<1>1. fromPool \in Seq(FromPoolLines) /\ UNCHANGED <<work, workNew, cur, shares>>
  BY DEF Typed, Says
<1>2. /\ NotAfter(h, fromPool, told, 0) => NotAfter(h, fromPool', told', 0)
      /\ OneRun(h, fromPool, told) => OneRun(h, fromPool', told')
      /\ RunsOn(h, fromPool, told) => RunsOn(h, fromPool', told')
  <2>1. CASE fromPool' = Append(fromPool, m)
    BY <1>1, <2>1, RunAppend DEF Says
  <2>2. CASE fromPool' = fromPool
    BY <2>2, RunUnheard
  <2> QED BY <2>1, <2>2 DEF Says
<1>3. (Past(h) <=> Past(h)') /\ work' = work
  BY <1>1 DEF Past, Shared
<1>4. /\ OneRun(h, fromPool, told)' <=> OneRun(h, fromPool', told')
      /\ RunsOn(h, fromPool, told)' <=> RunsOn(h, fromPool', told')
      /\ NotAfter(h, fromPool, told, 0)' <=> NotAfter(h, fromPool', told', 0)
  BY DEF OneRun, RunsOn, NotAfter, Leaves, WithWork
<1> QED BY <1>2, <1>3, <1>4 DEF MinedOnce

\* A header that it comes to.
LEMMA SaysFirst ==
  ASSUME Typed, FirstTarget, SoFar, NEW m, Says(m),
         NEW h \in Nat, h > poolWork.header
  PROVE  MinedOnce(h)'
<1>1. /\ poolWork.header \in Nat /\ work.header \in Nat /\ cur.header \in Nat
      /\ fromPool \in Seq(FromPoolLines) /\ DOMAIN fromPool = 1 .. Len(fromPool)
      /\ \A i \in DOMAIN fromPool : WithWork(fromPool[i]) => fromPool[i].work.header \in Nat
      /\ \A i \in DOMAIN shares : shares[i].header \in Nat
      /\ Len(fromPool) \in Nat /\ UNCHANGED <<work, workNew, cur, shares>>
  BY HeadersTyped, StratumAssumption DEF Says
<1>2. work.header # h /\ cur.header # h /\ ~Shared(h)
  <2>1. \A k \in Nat : k <= poolWork.header => k # h
    BY <1>1
  <2> QED BY <1>1, <2>1 DEF SoFar, Shared
<1>3. \A i \in DOMAIN fromPool : WithWork(fromPool[i]) => fromPool[i].work.header # h
  BY <1>1 DEF SoFar, Above
<1>4. ASSUME NEW i \in DOMAIN fromPool', NEW j \in DOMAIN fromPool',
             i < j, WithWork(fromPool'[i])
      PROVE  fromPool'[i].work.header # h
  <2>1. CASE fromPool' = fromPool
    BY <1>3, <1>4, <2>1
  <2>2. CASE fromPool' = Append(fromPool, m)
    <3>1. /\ \A k \in 1 .. Len(fromPool) : fromPool'[k] = fromPool[k]
          /\ fromPool' \in Seq(FromPoolLines) /\ Len(fromPool') = Len(fromPool) + 1
      BY <1>1, <2>2, AppendProperties DEF Says
    <3>2. DOMAIN fromPool' = 1 .. Len(fromPool) + 1
      BY <3>1, LenProperties
    <3>3. i \in DOMAIN fromPool
      BY <1>1, <1>4, <3>2
    <3> QED BY <1>1, <1>3, <1>4, <3>1, <3>3
  <2> QED BY <2>1, <2>2 DEF Says
<1>5. OneRun(h, fromPool, told)'
  BY <1>4 DEF OneRun, WithWork
<1>6. ~Past(h)' /\ work'.header # h
  BY <1>1, <1>2 DEF Past, Shared
<1> QED BY <1>5, <1>6 DEF MinedOnce

LEMMA PoolStep ==
  ASSUME IInv, FirstTarget, SoFar, \A h \in Headers \ again : MinedOnce(h),
         PoolRotates \/ PoolAnswers
  PROVE  FirstTarget' /\ SoFar' /\ \A h \in Headers \ again' : MinedOnce(h)'
<1>0. /\ Typed /\ poolWork \in Works /\ poolWork.header \in Nat /\ poolWork.target = 1
      /\ Headers \subseteq Nat \ {0}
  BY HeadersTyped DEF IInv, FirstTarget
<1>1. CASE PoolRotates
  <2> DEFINE m == Notify(told')
  <2>1. /\ poolWork' \in Works /\ poolWork'.target = 1 /\ poolWork'.header = poolWork.header + 1
        /\ told' = poolWork' /\ again' = again
    BY <1>0, <1>1 DEF PoolRotates, Works
  <2>2. m \in FromPoolLines /\ m.kind = "notify" /\ m.work = told'
    BY <1>0, <2>1, Lines DEF Notify
  <2>3. poolWork.header <= poolWork'.header /\ told'.header <= poolWork'.header
    BY <1>0, <2>1
  <2>4. Says(m)
    <3>1. fromPool' = fromPool \/ fromPool' = Append(fromPool, m)
      BY <1>1 DEF PoolRotates, Deliver
    <3>2. UNCHANGED <<work, workNew, cur, shares>>
      BY <1>1 DEF PoolRotates
    <3> HIDE DEF m
    <3> QED BY <2>1, <2>2, <2>3, <3>1, <3>2 DEF Says
  <2> HIDE DEF m
  <2>5. FirstTarget' /\ SoFar'
    BY <1>0, <2>1, <2>3, <2>4, SaysBound
  <2>6. ASSUME NEW h \in Headers \ again' PROVE MinedOnce(h)'
    <3>1. CASE h = poolWork'.header
      BY <1>0, <2>1, <2>4, <3>1, SaysFirst
    <3>2. CASE h # poolWork'.header
      BY <1>0, <2>1, <2>4, <2>6, <3>2, SaysOnce
    <3> QED BY <3>1, <3>2
  <2> QED BY <2>5, <2>6
<1>2. CASE PoolAnswers
  <2>1. /\ poolWork' = poolWork /\ UNCHANGED <<work, workNew, cur, shares>>
    BY <1>2 DEF PoolAnswers
  <2>2. Head(toPool) \in ToPoolLines
    BY <1>0, <1>2, InTail DEF PoolAnswers, Typed
  <2> DEFINE id == Head(toPool).id
  <2>3. id \in Ids
    BY <2>2 DEF ToPoolLines
  <2> HIDE DEF id
  <2>4. \/ AnswerWork(id)
        \/ /\ UNCHANGED <<told, again>>
           /\ \E v \in {"accepted", "rejected", "odd"} : fromPool' = Append(fromPool, Verdict(id, v))
    BY <1>2 DEF PoolAnswers, id
  <2>5. \E m : Says(m) /\ again \subseteq again' /\ (told'.header = told.header \/ told'.header \in again')
    <3>1. CASE AnswerWork(id)
      <4>1. PICK w \in Templates :
              /\ fromPool' = Append(fromPool, Reply(id, w)) /\ told' = w
              /\ again' = IF w.header = told.header THEN again ELSE again \cup {w.header}
        BY <3>1 DEF AnswerWork
      <4>2. w \in Works /\ w.target = 1 /\ w.header <= poolWork'.header
        BY <1>0, <2>1, <4>1 DEF Templates
      <4>3. Reply(id, w) \in FromPoolLines /\ Reply(id, w).kind = "work" /\ Reply(id, w).work = w
        BY <1>0, <2>3, <4>2, Lines DEF Reply
      <4>4. Says(Reply(id, w))
        BY <2>1, <4>1, <4>2, <4>3 DEF Says
      <4> QED BY <4>1, <4>4
    <3>2. ASSUME NEW v \in {"accepted", "rejected", "odd"}, UNCHANGED <<told, again>>,
                 fromPool' = Append(fromPool, Verdict(id, v))
          PROVE  Says(Verdict(id, v)) /\ again' = again /\ told' = told
      <4>1. Verdict(id, v) \in FromPoolLines /\ Verdict(id, v).kind = "verdict"
        BY <1>0, <2>3, Lines DEF Verdict
      <4> QED BY <2>1, <3>2, <4>1 DEF Says, WithWork
    <3> QED BY <2>4, <3>1, <3>2
  <2>6. PICK m : Says(m) /\ again \subseteq again'
                 /\ (told'.header = told.header \/ told'.header \in again')
    BY <2>5
  <2>7. FirstTarget' /\ SoFar'
    BY <1>0, <2>1, <2>6, SaysBound
  <2>8. ASSUME NEW h \in Headers \ again' PROVE MinedOnce(h)'
    BY <1>0, <2>6, <2>8, SaysOnce
  <2> QED BY <2>7, <2>8
<1> QED BY <1>1, <1>2

\* A connection that drops, or is made anew, shortens the wire.
LEMMA LinkStep ==
  ASSUME IInv, FirstTarget, SoFar, \A h \in Headers \ again : MinedOnce(h),
         LinkDrops \/ Reconnect
  PROVE  FirstTarget' /\ SoFar' /\ \A h \in Headers \ again' : MinedOnce(h)'
<1>1. UNCHANGED <<poolWork, told, again, work, workNew, cur, shares>>
  BY DEF LinkDrops, Reconnect
<1>2. fromPool \in Seq(FromPoolLines)
  BY DEF IInv, Typed
<1>3. PICK n \in 0 .. Len(fromPool) : fromPool' = SubSeq(fromPool, 1, n)
  <2>1. CASE LinkDrops
    BY <2>1 DEF LinkDrops
  <2>2. CASE Reconnect
    <3>1. fromPool' = SubSeq(fromPool, 1, 0) /\ 0 \in 0 .. Len(fromPool)
      BY <1>2, <2>2 DEF Reconnect
    <3> QED BY <3>1
  <2> QED BY <2>1, <2>2
<1>4. \A i \in DOMAIN fromPool' : i \in DOMAIN fromPool /\ fromPool'[i] = fromPool[i]
  BY <1>2, <1>3
<1>5. FirstTarget' /\ SoFar'
  BY <1>1, <1>4 DEF FirstTarget, SoFar, Above, WithWork
<1>6. ASSUME NEW h \in Headers \ again PROVE MinedOnce(h)'
  <2>1. /\ NotAfter(h, fromPool, told, 0) => NotAfter(h, fromPool', told', 0)
        /\ OneRun(h, fromPool, told) => OneRun(h, fromPool', told')
        /\ RunsOn(h, fromPool, told) => RunsOn(h, fromPool', told')
    BY <1>1, <1>2, <1>3, RunPrefix
  <2>2. /\ OneRun(h, fromPool, told)' <=> OneRun(h, fromPool', told')
        /\ RunsOn(h, fromPool, told)' <=> RunsOn(h, fromPool', told')
        /\ NotAfter(h, fromPool, told, 0)' <=> NotAfter(h, fromPool', told', 0)
    BY DEF OneRun, RunsOn, NotAfter, Leaves, WithWork
  <2>3. (Past(h) <=> Past(h)') /\ work' = work
    BY <1>1 DEF Past, Shared
  <2>4. MinedOnce(h)
    BY <1>6
  <2> QED BY <2>1, <2>2, <2>3, <2>4 DEF MinedOnce
<1> QED BY <1>1, <1>5, <1>6

\* A line that comes in publishes no header that the client has left.
LEMMA PublishStep ==
  ASSUME IInv, FirstTarget, SoFar, \A h \in Headers \ again : MinedOnce(h), HandleLine
  PROVE  FirstTarget' /\ SoFar' /\ \A h \in Headers \ again' : MinedOnce(h)'
<1> DEFINE m == Head(fromPool)
<1>1. /\ Typed /\ fromPool \in Seq(FromPoolLines) /\ fromPool # <<>> /\ m \in FromPoolLines
      /\ fromPool' = Tail(fromPool)
      /\ UNCHANGED <<poolWork, told, again, cur, shares, retargeted>>
  BY InTail DEF IInv, Typed, HandleLine
<1>2. /\ m = fromPool[1] /\ 1 \in DOMAIN fromPool
      /\ \A i \in DOMAIN fromPool' : i + 1 \in DOMAIN fromPool /\ fromPool'[i] = fromPool[i + 1]
  <2>1. /\ Tail(fromPool) \in Seq(FromPoolLines) /\ Len(Tail(fromPool)) = Len(fromPool) - 1
        /\ \A i \in 1 .. Len(Tail(fromPool)) : Tail(fromPool)[i] = fromPool[i + 1]
    BY <1>1, HeadTailProperties
  <2>2. /\ DOMAIN fromPool = 1 .. Len(fromPool) /\ Len(fromPool) \in Nat \ {0}
        /\ DOMAIN Tail(fromPool) = 1 .. Len(fromPool) - 1
    BY <1>1, <2>1, LenProperties, EmptySeq
  <2> QED BY <1>1, <2>1, <2>2
<1>3. /\ m.kind # "target"
      /\ WithWork(m) => /\ m.work.target = 1 /\ m.work.header <= poolWork.header
                        /\ m.work \in Works
  BY <1>1, <1>2, WireWork DEF FirstTarget, SoFar, Above
<1>4. /\ \A i \in DOMAIN fromPool' :
           /\ fromPool'[i].kind # "target"
           /\ WithWork(fromPool'[i]) => /\ fromPool'[i].work.target = 1
                                        /\ fromPool'[i].work.header <= poolWork.header
      /\ cur.header <= poolWork.header /\ poolWork.target = 1
      /\ \A i \in DOMAIN shares : shares[i].header <= poolWork.header
  BY <1>2 DEF FirstTarget, SoFar, Above
<1>5. ASSUME NEW h \in Headers \ again
      PROVE  /\ NotAfter(h, fromPool, told, 0) =>
                  NotAfter(h, fromPool', told', 0) /\ (WithWork(m) => m.work.header # h)
             /\ OneRun(h, fromPool', told')
             /\ WithWork(m) /\ m.work.header = h => RunsOn(h, fromPool', told')
             /\ RunsOn(h, fromPool, told) =>
                  /\ RunsOn(h, fromPool', told')
                  /\ WithWork(m) /\ m.work.header # h => NotAfter(h, fromPool', told', 0)
  <2>1. OneRun(h, fromPool, told)
    BY <1>5 DEF MinedOnce
  <2> QED BY <1>1, <2>1, RunTail
<1>6. ASSUME NEW h
      PROVE  /\ OneRun(h, fromPool, told)' <=> OneRun(h, fromPool', told')
             /\ RunsOn(h, fromPool, told)' <=> RunsOn(h, fromPool', told')
             /\ NotAfter(h, fromPool, told, 0)' <=> NotAfter(h, fromPool', told', 0)
             /\ Past(h)' <=> (cur.header = h /\ workNew') \/ (Shared(h) /\ cur.header # h)
  BY <1>1 DEF OneRun, RunsOn, NotAfter, Leaves, WithWork, Past, Shared
<1> HIDE DEF m
<1>7. CASE UNCHANGED <<work, workNew>>
  <2>1. FirstTarget' /\ SoFar'
    BY <1>1, <1>4, <1>7 DEF FirstTarget, SoFar, Above, WithWork
  <2>2. ASSUME NEW h \in Headers \ again PROVE MinedOnce(h)'
    BY <1>5, <1>6, <1>7, <2>2 DEF MinedOnce, Past
  <2> QED BY <1>1, <2>1, <2>2
<1>8. CASE WithWork(m) /\ work # m.work /\ work' = m.work /\ workNew' = TRUE
  <2>1. m.work \in [header : Headers, target : {1}]
    BY <1>3, <1>8 DEF Works
  <2>2. FirstTarget' /\ SoFar'
    BY <1>1, <1>3, <1>4, <1>8, <2>1 DEF FirstTarget, SoFar, Above, WithWork
  <2>3. m.work.header # work.header
    <3>1. Headers \subseteq Nat \ {0}
      BY StratumAssumption
    <3>2. work \in [header : {0}, target : {0}] \cup [header : Headers, target : {1}]
      BY DEF FirstTarget
    <3>3. CASE work \in [header : {0}, target : {0}]
      BY <2>1, <3>1, <3>3
    <3>4. CASE work \in [header : Headers, target : {1}]
      BY <1>8, <2>1, <3>4
    <3> QED BY <3>2, <3>3, <3>4
  <2>4. ASSUME NEW h \in Headers \ again PROVE MinedOnce(h)'
    <3>1. MinedOnce(h)
      BY <2>4
    <3>2. work'.header = h => RunsOn(h, fromPool', told')
      BY <1>5, <1>8
    <3>3. ASSUME Past(h)' PROVE work'.header # h /\ NotAfter(h, fromPool', told', 0)
      <4>1. CASE Past(h)
        <5>1. NotAfter(h, fromPool, told, 0)
          BY <3>1, <4>1 DEF MinedOnce
        <5> QED BY <1>5, <1>8, <5>1
      <4>2. CASE ~Past(h)
        <5>1. cur.header = h /\ ~workNew
          BY <1>6, <3>3, <4>2 DEF Past
        <5>2. work.header = h
          BY <5>1 DEF FirstTarget
        <5>3. RunsOn(h, fromPool, told) /\ m.work.header # h
          BY <2>3, <3>1, <5>2 DEF MinedOnce
        <5> QED BY <1>5, <1>8, <5>3
      <4> QED BY <4>1, <4>2
    <3> QED BY <1>5, <1>6, <3>2, <3>3 DEF MinedOnce
  <2> QED BY <1>1, <2>2, <2>4
<1> QED
  BY <1>3, <1>7, <1>8
     DEF HandleLine, HandleVerdict, HandleWork, HandleTarget, Publish, WithWork, m

\* Main takes work it has not mined: its shares have other headers.
LEMMA TakeStep ==
  ASSUME IInv, FirstTarget, SoFar, SharesDiffer, \A h \in Headers \ again : MinedOnce(h),
         TakeWork
  PROVE  /\ FirstTarget' /\ SoFar' /\ SharesDiffer'
         /\ \A h \in Headers \ again' : MinedOnce(h)'
<1>1. /\ UNCHANGED <<poolWork, told, again, fromPool, work, shares>>
      /\ cur' = work /\ workNew' = FALSE /\ mainPc' = "mining"
      /\ mainPc = "waiting" \/ workNew
  BY DEF TakeWork
<1>2. FirstTarget' /\ SoFar'
  BY <1>1 DEF FirstTarget, SoFar, Above, WithWork
<1>3. ASSUME NEW h \in Headers \ again PROVE MinedOnce(h)'
  <2>1. Past(h)' => Past(h)
    <3> SUFFICES ASSUME Past(h)' PROVE Past(h)
      OBVIOUS
    <3>1. Shared(h) /\ work.header # h
      BY <1>1 DEF Past, Shared
    <3> QED BY <3>1 DEF Past, FirstTarget
  <2>2. /\ OneRun(h, fromPool, told)' <=> OneRun(h, fromPool, told)
        /\ RunsOn(h, fromPool, told)' <=> RunsOn(h, fromPool, told)
        /\ NotAfter(h, fromPool, told, 0)' <=> NotAfter(h, fromPool, told, 0)
    BY <1>1 DEF OneRun, RunsOn, NotAfter, Leaves, WithWork
  <2>3. MinedOnce(h)
    BY <1>3
  <2> QED BY <1>1, <2>1, <2>2, <2>3 DEF MinedOnce
<1>4. ASSUME NEW i \in DOMAIN shares, shares[i].header \notin again
      PROVE  shares[i].header # work.header
  <2>1. mainPc # "waiting"
    BY EmptySeq DEF SharesDiffer
  <2>2. workNew
    BY <1>1, <2>1
  <2>3. shares[i].header \in Headers
    BY HeadersTyped DEF IInv
  <2>4. Past(shares[i].header) /\ MinedOnce(shares[i].header)
    BY <1>4, <2>2, <2>3 DEF Past, Shared
  <2> QED BY <2>4 DEF MinedOnce
<1>5. SharesDiffer'
  BY <1>1, <1>4 DEF SharesDiffer
<1> QED BY <1>1, <1>2, <1>3, <1>5

\* It submits a gap it has not found before under the header it mines.
LEMMA SubmitsOnce ==
  ASSUME IInv, FirstTarget, SoFar, SharesDiffer, \A h \in Headers \ again : MinedOnce(h),
         Submit
  PROVE  /\ FirstTarget' /\ SoFar' /\ SharesDiffer'
         /\ \A h \in Headers \ again' : MinedOnce(h)'
<1>1. /\ shares \in Seq(Payloads) /\ DOMAIN shares = 1 .. Len(shares) /\ Len(shares) \in Nat
      /\ cur \in Works /\ mainPc = "mining"
      /\ UNCHANGED <<poolWork, told, again, fromPool, work, workNew, cur>>
  BY LenProperties DEF IInv, Typed, TypeOK, Submit
<1>2. PICK g \in Gaps \ found :
        /\ found' = found \cup {g}
        /\ shares' = Append(shares, [header |-> cur.header, gap |-> g])
  BY DEF Submit
<1> DEFINE s == [header |-> cur.header, gap |-> g]
<1>3. s \in Payloads /\ s.header = cur.header /\ s.gap = g
  BY <1>1 DEF Works, Payloads
<1> HIDE DEF s
<1>4. /\ \A i \in 1 .. Len(shares) : shares'[i] = shares[i]
      /\ shares'[Len(shares) + 1] = s /\ DOMAIN shares' = 1 .. Len(shares) + 1
  BY <1>1, <1>2, <1>3, AppendProperties, LenProperties DEF s
<1>5. ASSUME NEW i \in DOMAIN shares'
      PROVE  \/ i \in DOMAIN shares /\ shares'[i] = shares[i]
             \/ i = Len(shares) + 1 /\ shares'[i] = s
  BY <1>1, <1>4
<1>6. FirstTarget'
  BY <1>1 DEF FirstTarget, WithWork
<1>7. SoFar'
  <2>1. \A i \in DOMAIN shares' : shares'[i].header <= poolWork.header
    BY <1>3, <1>5 DEF SoFar
  <2> QED BY <1>1, <2>1 DEF SoFar, Above, WithWork
<1>8. ASSUME NEW h \in Headers \ again PROVE MinedOnce(h)'
  <2>1. Past(h)' => Past(h)
    BY <1>1, <1>3, <1>5 DEF Past, Shared
  <2>2. /\ OneRun(h, fromPool, told)' <=> OneRun(h, fromPool, told)
        /\ RunsOn(h, fromPool, told)' <=> RunsOn(h, fromPool, told)
        /\ NotAfter(h, fromPool, told, 0)' <=> NotAfter(h, fromPool, told, 0)
    BY <1>1 DEF OneRun, RunsOn, NotAfter, Leaves, WithWork
  <2>3. MinedOnce(h)
    BY <1>8
  <2> QED BY <1>1, <2>1, <2>2, <2>3 DEF MinedOnce
<1>9. ASSUME NEW i \in DOMAIN shares, shares[i].header \notin again PROVE shares[i] # s
  BY <1>2, <1>3, <1>9 DEF SharesDiffer
<1>10. ASSUME NEW i \in DOMAIN shares', shares'[i].header \notin again
       PROVE  /\ shares'[i].header = cur.header => shares'[i].gap \in found'
              /\ \A j \in DOMAIN shares' : shares'[i] = shares'[j] => i = j
  <2>1. shares'[i].header = cur.header => shares'[i].gap \in found'
    BY <1>2, <1>3, <1>5, <1>10 DEF SharesDiffer
  <2>2. ASSUME NEW j \in DOMAIN shares', shares'[i] = shares'[j] PROVE i = j
    BY <1>5, <1>9, <1>10, <2>2 DEF SharesDiffer
  <2> QED BY <2>1, <2>2
<1>11. SharesDiffer'
  <2>1. mainPc' # "waiting"
    BY DEF Submit
  <2> QED BY <1>1, <1>10, <2>1 DEF SharesDiffer
<1> QED BY <1>1, <1>6, <1>7, <1>8, <1>11

LEMMA OnceInit == Init => OnceInv
<1> SUFFICES ASSUME Init
             PROVE  FirstTarget /\ SoFar /\ SharesDiffer /\ \A h \in Headers \ again : MinedOnce(h)
  BY DEF OnceInv
<1>1. DOMAIN fromPool = {} /\ DOMAIN shares = {}
  BY EmptySeq DEF Init
<1>2. FirstTarget /\ SoFar /\ SharesDiffer
  BY <1>1 DEF Init, FirstTarget, SoFar, Above, SharesDiffer, NoWork
<1>3. ASSUME NEW h \in Headers \ again PROVE MinedOnce(h)
  <2>1. OneRun(h, fromPool, told) /\ ~Shared(h) /\ ~workNew
    BY <1>1 DEF Init, OneRun, Shared
  <2>2. work.header # h
    BY StratumAssumption DEF Init, NoWork
  <2> QED BY <2>1, <2>2 DEF MinedOnce, Past
<1> QED BY <1>2, <1>3

LEMMA OnceStep == IInv /\ OnceInv /\ [Next]_vars => OnceInv'
<1> SUFFICES ASSUME IInv, OnceInv, [Next]_vars, ~retargeted'
             PROVE  /\ FirstTarget' /\ SoFar' /\ SharesDiffer'
                    /\ \A h \in Headers \ again' : MinedOnce(h)'
  BY DEF OnceInv
<1>1. ~retargeted
  BY DEF Next, Pool, PoolRotates, PoolRetargets, PoolAnswers, LinkDrops, RecvThread, Reconnect,
         Reconnected, ResetDedup, HandleLine, Refresh, Disconnected, RecvEnds, MainGoesOn,
         TakeWork, Send, RecordRefusal, JoinRecv, Submit, Leave, Over, vars
<1>2. FirstTarget /\ SoFar /\ SharesDiffer /\ \A h \in Headers \ again : MinedOnce(h)
  BY <1>1 DEF OnceInv
<1>3. ASSUME UNCHANGED <<poolWork, told, again, fromPool, work, workNew, cur, shares>>
      PROVE  FirstTarget' /\ SoFar' /\ \A h \in Headers \ again' : MinedOnce(h)'
  <2>1. FirstTarget' /\ SoFar'
    BY <1>2, <1>3 DEF FirstTarget, SoFar, Above, WithWork
  <2>2. ASSUME NEW h \in Headers \ again PROVE MinedOnce(h)'
    BY <1>2, <1>3, <2>2
       DEF MinedOnce, OneRun, RunsOn, NotAfter, Leaves, WithWork, Past, Shared
  <2> QED BY <1>3, <2>1, <2>2
<1>4. ASSUME UNCHANGED <<shares, cur, found>>, again \subseteq again',
             mainPc' = "waiting" => mainPc = "waiting"
      PROVE  SharesDiffer'
  BY <1>2, <1>4 DEF SharesDiffer
<1>5. CASE PoolRotates \/ PoolAnswers
  <2>1. UNCHANGED <<shares, cur, found, mainPc>> /\ again \subseteq again'
    BY <1>5 DEF PoolRotates, PoolAnswers, AnswerWork
  <2> QED BY <1>2, <1>4, <1>5, <2>1, PoolStep
<1>6. CASE PoolRetargets
  BY <1>6 DEF PoolRetargets
<1>7. CASE LinkDrops \/ Reconnect
  BY <1>2, <1>4, <1>7, LinkStep DEF LinkDrops, Reconnect
<1>8. CASE HandleLine
  BY <1>2, <1>4, <1>8, PublishStep DEF HandleLine
<1>9. CASE TakeWork
  BY <1>2, <1>9, TakeStep
<1>10. CASE Submit
  BY <1>2, <1>10, SubmitsOnce
<1>11. CASE Reconnected \/ ResetDedup \/ Refresh \/ Disconnected \/ RecvEnds
  BY <1>3, <1>4, <1>11 DEF Reconnected, ResetDedup, Refresh, Disconnected, RecvEnds
<1>12. CASE Send \/ RecordRefusal \/ JoinRecv \/ Leave
  BY <1>3, <1>4, <1>12 DEF Send, RecordRefusal, JoinRecv, Leave
<1>13. CASE UNCHANGED vars
  BY <1>3, <1>4, <1>13 DEF vars
<1> QED
  BY <1>5, <1>6, <1>7, <1>8, <1>9, <1>10, <1>11, <1>12, <1>13
     DEF Next, Pool, RecvThread, MainGoesOn, Over

\* A payload is submitted twice only if the pool has moved its target or has
\* gone back, in an answer, to the payload's template: main comes to every
\* other header, and to the gaps of each, only once.
THEOREM NothingResent == Spec => []NoResend
<1>1. IInv /\ OnceInv => NoResend
  <2> SUFFICES ASSUME IInv, OnceInv, ~retargeted,
                      NEW p \in admitted, NEW q \in admitted, shares[p[1]] = shares[q[1]],
                      shares[p[1]].header \notin again
               PROVE  p[1] = q[1]
    BY DEF NoResend
  <2>1. p[1] \in 1 .. Len(shares) /\ q[1] \in 1 .. Len(shares)
    BY LenProperties DEF IInv, Typed, TypeOK, FreshAttempts, Attempts
  <2>2. DOMAIN shares = 1 .. Len(shares)
    BY LenProperties DEF IInv, Typed, TypeOK
  <2> QED BY <2>1, <2>2 DEF OnceInv, SharesDiffer
<1>2. Spec => []OnceInv
  BY OnceInit, OnceStep, Invariant, PTL DEF Spec
<1> QED BY <1>1, <1>2, Invariant, PTL
=============================================================================
