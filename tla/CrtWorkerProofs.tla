--------------------------- MODULE CrtWorkerProofs ---------------------------
(***************************************************************************)
(* Proofs about CrtWorker, for flights of any length, any table of rows,   *)
(* any number of works and any failures of the device: the results a       *)
(* window is scanned with are its own, under its own work, once, and a     *)
(* failure costs the windows of one flight at most.                        *)
(***************************************************************************)
EXTENDS CrtWorker, FiniteSetTheorems, TLAPS

-----------------------------------------------------------------------------
(* The parts of the inductive invariant                                     *)

Scanning == {"scan", "window", "hidden"}
Dealing  == {"submit", "collect", "chain", "full"} \cup Scanning

\* The worker deals with a flight, and was led there from r.
At(r) == pc \in Dealing /\ ret = r

\* In the loop over the rows of a nonce.
InNonce == pc \in {"row", "mark", "cpu"} \/ At("mark") \/ At("row")

Other(s) == 1 - s

\* Nothing of the flight is waiting for the rest of it.
Idle(s) == fl[s].active \/ fl[s].n = 0

\* Where the worker can be, and in which mode.
Control ==
  /\ pc \in {"mark", "cpu"} \/ At("mark") \/ At("row") => row < Rows[nonce]
  /\ pc = "row" => row <= Rows[nonce]
  /\ pc = "submit" => ret = "row" /\ ~chain_on
  /\ pc = "collect" => ret \in {"mark", "exit0", "exit1"}
  /\ pc \in {"chain", "full"} => ret # "mark" /\ chain_on
  /\ At("exit0") => cur = 0
  /\ At("exit1") => cur = 1
  /\ pc = "mark" \/ At("mark") \/ At("row") \/ At("drain") => fused
  /\ fused => (chain_on <=> config.chain)
  /\ chain_on => config.chain
  /\ config.chain => \A s \in Slots : ~fl[s].active

\* How far the scan of a flight is, and how many tails it added.
Progress ==
  /\ pc \in Scanning => j <= fl[cur].n
  /\ pc \in {"window", "hidden"} => j < fl[cur].n
  /\ pc \in Scanning => tails <= (IF pc = "scan" THEN j ELSE j + 1)

\* The snapshot is of a work, and is replaced by a later one only.
Snapped ==
  /\ snap <= gen
  /\ (pc = "snap" \/ At("drain")) /\ ~stop => snap < gen \/ snap = 0
  /\ pc = "nonce" \/ InNonce => snap > 0

\* The flight whose turn it is holds the windows of this work put into it so
\* far; the other one waits to be collected, is being dealt with, or is empty.
Filled ==
  fused =>
    /\ pc \in {"nonce", "row", "mark", "cpu"} =>
         /\ Idle(Other(Filling))
         /\ W_in = 0 => Idle(Filling)
         /\ W_in > 0 => /\ fl[Filling].n = W_in /\ fl[Filling].gen = snap
                        /\ ~fl[Filling].active
    /\ pc = "mark" => ~fl[Filling].active
    /\ At("row") => W_in = 0 /\ cur = Other(Filling) /\ Idle(Filling) /\ ~fl[cur].active
    /\ At("mark") => W_in = 0 /\ cur = Filling /\ Idle(Other(cur))
    /\ At("drain") => (W_in = 0 \/ stop) /\ Idle(Other(cur))
    /\ pc \in {"snap", "exit0"} => Idle(0) /\ Idle(1)
    /\ pc = "snap" => W_in = 0 \/ stop
    /\ pc = "exit1" \/ At("exit0") => Idle(1)

\* A submitted flight has its slot, with all its candidates; only such a one is
\* collected.
Submittal ==
  /\ pc = "collect" => fl[cur].active
  /\ \A s \in Slots :
       fl[s].active /\ fl[s].total > 0 /\ ~(cur = s /\ pc \in Scanning) =>
         /\ slots[s].busy /\ slots[s].count = fl[s].total
         /\ ~slots[s].running => \A c \in 0 .. fl[s].total - 1 : is_prime[s][c] = cands[s][c]

\* The candidates of a flight are its windows', in their order.
Matches(s) ==
  /\ fl[s].total = Cum(s, fl[s].n)
  /\ \A x \in 0 .. fl[s].n - 1 :
       /\ fl[s].wins[x].w.gen = fl[s].gen
       /\ fl[s].wins[x].count = 1 => cands[s][Cum(s, x)] = Own(fl[s].wins[x].w)
Content == \A s \in Slots : Matches(s)

\* A result that is scanned is that of the candidate in its place, or none.
Results ==
  pc \in Scanning \cup {"full"} =>
    \A c \in 0 .. fl[cur].total - 1 : is_prime[cur][c] \in {NoCell, cands[cur][c]}

\* The held window goes into the other bitmap; the rows still to come are marked.
Marked ==
  /\ pend.valid => pend.parity # Parity
  /\ row_marked /\ InNonce /\ RowMode =>
       \A r \in 1 .. Rows[nonce] - 1 : arena[r] = [gen |-> snap, nonce |-> nonce, row |-> r]

NextRow == IF pc = "nonce" THEN 0 ELSE IF At("row") THEN row + 1 ELSE row

\* The worker is past window w.
Passed(w) ==
  /\ w.gen > 0 /\ w.gen <= snap
  /\ (pc = "nonce" \/ InNonce) /\ w.gen = snap =>
       w.nonce < nonce \/ (w.nonce = nonce /\ w.row < NextRow)

ScannedWindows == {r.w : r \in scans}
FlightWindows(s) == {fl[s].wins[x].w : x \in 0 .. fl[s].n - 1}
Known == ScannedWindows \cup taken \cup FlightWindows(0) \cup FlightWindows(1)

\* The worker is past every window it took or searched.
KnownPassed == \A w \in Known : Passed(w)

\* What a flight still has to scan was not searched.
From(s) == IF cur = s /\ pc \in Scanning THEN j ELSE 0
Unscanned ==
  \A s \in Slots : \A x \in 0 .. fl[s].n - 1 :
    x >= From(s) => fl[s].wins[x].w \notin ScannedWindows

\* A window without candidates was not taken, and no window is in two places.
TakenCounts ==
  \A s \in Slots : \A x \in 0 .. fl[s].n - 1 :
    fl[s].wins[x].w \in taken => fl[s].wins[x].count = 1
Distinct ==
  \A s, t \in Slots : \A x \in 0 .. fl[s].n - 1 : \A y \in 0 .. fl[t].n - 1 :
    fl[s].wins[x].w = fl[t].wins[y].w => s = t /\ x = y

Order == KnownPassed /\ Unscanned /\ TakenCounts /\ Distinct

\* Flight s will be scanned, unless the device fails once more.
Due(s) ==
  /\ pc # "done" /\ ~(pc = "full" /\ cur = s)
  /\ fused \/ chain_on \/ fl[s].active
  /\ ~(s = 0 /\ (pc = "exit1" \/ At("exit1")))

\* ... and its window x with it.
Kept(s, x) ==
  IF cur = s /\ pc \in Scanning THEN x >= j /\ is_prime[s][Cum(s, x)] # NoCell ELSE Due(s)
Secure(s) == {fl[s].wins[x].w : x \in {y \in 0 .. fl[s].n - 1 : Kept(s, y)}}

\* Each failure has cost the windows of one flight at most, those counted that a
\* failed chain has put at risk.
AtRisk == taken \ (ScannedWindows \cup Secure(0) \cup Secure(1))
LossBound == IsFiniteSet(taken) /\ Cardinality(AtRisk) <= K * (config.faults - faults)

\* The flight a failure of the device hits.
Hit == IF pc \in {"mark", "nonce"} THEN Filling ELSE cur

-----------------------------------------------------------------------------
(* Numbers, flights and windows                                             *)

\* The settings and the constants.
LEMMA Settings ==
  /\ K \in Nat /\ K > 0 /\ LastNonce \in Nat /\ LastNonce > 0 /\ MaxGen \in Nat
  /\ LastNonce \in Nonces /\ 1 \in Nonces /\ Rows[LastNonce] = 0
  /\ \A n \in Nonces : Rows[n] \in Nat /\ (\A r \in 0 .. Rows[n] : r \in RowIds)
  /\ 0 \in RowIds /\ (\A r \in RowIds : r \in Nat)
  /\ \A c \in Configs : /\ c.chain \in BOOLEAN /\ c.batch \in Nat /\ c.batch <= K /\ c.batch > 0
                        /\ c.faults \in Nat /\ (~c.chain => c.batch = K)
<1>1. /\ K \in Nat /\ K > 0 /\ LastNonce \in Nat /\ LastNonce > 0 /\ MaxGen \in Nat
      /\ LastNonce \in Nonces /\ 1 \in Nonces /\ Rows[LastNonce] = 0
      /\ \A n \in Nonces : Rows[n] \in Nat
  BY CrtAssumption DEF Nonces
<1>2. \A n \in Nonces : \A r \in 0 .. Rows[n] : r \in RowIds
  BY DEF RowIds
<1>3. 0 \in RowIds /\ \A r \in RowIds : r \in Nat
  <2>1. \A r \in RowIds : r \in Nat
    BY <1>1 DEF RowIds
  <2>2. 0 \in 0 .. Rows[1]
    BY <1>1
  <2> QED
    BY <1>1, <1>2, <2>1, <2>2
<1>4. \A c \in Configs : /\ c.chain \in BOOLEAN /\ c.batch \in Nat /\ c.batch <= K /\ c.batch > 0
                         /\ c.faults \in Nat /\ (~c.chain => c.batch = K)
  BY CrtAssumption
<1> QED
  BY <1>1, <1>2, <1>3, <1>4

\* What fused_seq says: the flight whose turn it is, the place in it, the bitmap.
LEMMA Turns ==
  ASSUME NEW q \in 0 .. 2 * K - 1
  PROVE  /\ q % K = IF q < K THEN q ELSE q - K
         /\ (q \div K) % 2 = IF q < K THEN 0 ELSE 1
         /\ q % 2 \in {0, 1}
         /\ (q + 1) % (2 * K) = IF q + 1 = 2 * K THEN 0 ELSE q + 1
         /\ ((q + 1) % (2 * K)) % 2 = 1 - (q % 2)
         /\ (q - (q % K) + K) % (2 * K) = IF q < K THEN K ELSE 0
<1>1. K \in Nat /\ K > 0
  BY Settings
<1>2. q % K = IF q < K THEN q ELSE q - K
  BY <1>1
<1>3. q \div K = IF q < K THEN 0 ELSE 1
  BY <1>1
<1>4. q % 2 \in {0, 1} /\ (q + 1) % (2 * K) = IF q + 1 = 2 * K THEN 0 ELSE q + 1
  BY <1>1
<1>5. ((q + 1) % (2 * K)) % 2 = 1 - (q % 2)
  BY <1>1, <1>4
<1>6. (q - (q % K) + K) % (2 * K) = IF q < K THEN K ELSE 0
  BY <1>1, <1>2
<1> QED
  BY <1>2, <1>3, <1>4, <1>5, <1>6

\* The same of the present value.
LEMMA Turn ==
  ASSUME TypeOK
  PROVE  /\ W_in \in 0 .. K - 1 /\ W_in \in Nat /\ Filling \in Slots /\ Parity \in {0, 1}
         /\ Other(Filling) \in Slots /\ Other(Filling) # Filling
         /\ Other(Other(Filling)) = Filling
         /\ \A s \in Slots : s # Filling => s = Other(Filling)
<1>1. seq \in 0 .. 2 * K - 1
  BY DEF TypeOK
<1>2. W_in \in 0 .. K - 1 /\ W_in \in Nat /\ Filling \in {0, 1} /\ Parity \in {0, 1}
  BY <1>1, Turns, Settings DEF W_in, Filling, Parity
<1> QED
  BY <1>2 DEF Slots, Other

\* ... and of the next window, and the next flight.
LEMMA NextTurn ==
  ASSUME TypeOK, seq' = (seq + 1) % (2 * K)
  PROVE  /\ seq' \in 0 .. 2 * K - 1 /\ Parity' = 1 - Parity /\ Parity' # Parity
         /\ W_in = K - 1 => W_in' = 0 /\ Filling' = Other(Filling)
         /\ W_in # K - 1 => W_in' = W_in + 1 /\ Filling' = Filling
<1>1. seq \in 0 .. 2 * K - 1 /\ K \in Nat /\ K > 0
  BY Settings DEF TypeOK
<1>2. seq' = IF seq + 1 = 2 * K THEN 0 ELSE seq + 1
  BY <1>1, Turns
<1>3. seq' \in 0 .. 2 * K - 1
  BY <1>1, <1>2
<1>4. /\ W_in = IF seq < K THEN seq ELSE seq - K
      /\ Filling = IF seq < K THEN 0 ELSE 1
      /\ W_in' = IF seq' < K THEN seq' ELSE seq' - K
      /\ Filling' = IF seq' < K THEN 0 ELSE 1
  BY <1>1, <1>3, Turns DEF W_in, Filling
<1>5. Parity' = 1 - Parity /\ Parity' # Parity
  <2>1. seq % 2 \in {0, 1} /\ ((seq + 1) % (2 * K)) % 2 = 1 - (seq % 2)
    BY <1>1, Turns
  <2>2. Parity = seq % 2 /\ Parity' = ((seq + 1) % (2 * K)) % 2
    BY DEF Parity
  <2> QED
    BY <2>1, <2>2
<1> QED
  BY <1>1, <1>2, <1>3, <1>4, <1>5 DEF Other

LEMMA DrainTurn ==
  ASSUME TypeOK, Realign
  PROVE  /\ seq' \in 0 .. 2 * K - 1
         /\ W_in' = 0 \/ (stop /\ seq' = seq)
<1>1. seq \in 0 .. 2 * K - 1 /\ K \in Nat /\ K > 0
  BY Settings DEF TypeOK
<1>2. CASE stop \/ W_in = 0
  BY <1>1, <1>2 DEF Realign, NextFlight, W_in
<1>3. CASE ~stop /\ W_in # 0
  <2>1. seq' = IF seq < K THEN K ELSE 0
    BY <1>1, <1>3, Turns DEF Realign, NextFlight, W_in
  <2>2. seq' \in 0 .. 2 * K - 1
    BY <1>1, <2>1
  <2>3. W_in' = 0
    BY <1>1, <2>1, <2>2, Turns DEF W_in
  <2> QED
    BY <2>2, <2>3
<1> QED
  BY <1>2, <1>3

\* Cum of a table of windows.
CumOf(f, i) == Cardinality({x \in 0 .. i - 1 : f[x].count = 1})

\* The place of a window's candidate, counted.
LEMMA CumCounts ==
  ASSUME NEW f, NEW i \in Nat
  PROVE  /\ IsFiniteSet({x \in 0 .. i - 1 : f[x].count = 1})
         /\ CumOf(f, i) \in Nat /\ CumOf(f, i) <= i
         /\ CumOf(f, i + 1) = CumOf(f, i) + (IF f[i].count = 1 THEN 1 ELSE 0)
         /\ CumOf(f, 0) = 0
<1>1. IsFiniteSet(0 .. i - 1) /\ Cardinality(0 .. i - 1) = i
  <2>1. 0 \in Int /\ i - 1 \in Int /\ (i - 1) - 0 + 1 = i /\ (0 > i - 1 => i = 0)
    OBVIOUS
  <2> QED
    BY <2>1, FS_Interval
<1>2. {x \in 0 .. i - 1 : f[x].count = 1} \subseteq 0 .. i - 1
  OBVIOUS
<1>3. /\ IsFiniteSet({x \in 0 .. i - 1 : f[x].count = 1})
      /\ CumOf(f, i) \in Nat /\ CumOf(f, i) <= i
  BY <1>1, <1>2, FS_Subset, FS_CardinalityType DEF CumOf
<1>4. ASSUME f[i].count = 1 PROVE CumOf(f, i + 1) = CumOf(f, i) + 1
  <2>1. {x \in 0 .. (i + 1) - 1 : f[x].count = 1} = {x \in 0 .. i - 1 : f[x].count = 1} \cup {i}
    BY <1>4
  <2>2. i \notin {x \in 0 .. i - 1 : f[x].count = 1}
    OBVIOUS
  <2> QED
    BY <1>3, <2>1, <2>2, FS_AddElement DEF CumOf
<1>5. ASSUME f[i].count # 1 PROVE CumOf(f, i + 1) = CumOf(f, i)
  <2>1. {x \in 0 .. (i + 1) - 1 : f[x].count = 1} = {x \in 0 .. i - 1 : f[x].count = 1}
    BY <1>5
  <2> QED
    BY <2>1 DEF CumOf
<1>6. CumOf(f, 0) = 0
  <2>1. {x \in 0 .. 0 - 1 : f[x].count = 1} = {}
    OBVIOUS
  <2> QED
    BY <2>1, FS_EmptySet DEF CumOf
<1> QED
  BY <1>3, <1>4, <1>5, <1>6

\* Candidates of later windows come later; the table before i decides Cum at i.
LEMMA CumOrder ==
  ASSUME NEW f, NEW g, NEW n \in Nat
  PROVE  /\ \A x \in 0 .. n - 1 : f[x].count = 1 => CumOf(f, x) < CumOf(f, n)
         /\ (\A x \in 0 .. n - 1 : f[x] = g[x]) => CumOf(f, n) = CumOf(g, n)
<1>1. ASSUME NEW x \in 0 .. n - 1, f[x].count = 1 PROVE CumOf(f, x) < CumOf(f, n)
  <2>1. x \in Nat /\ x + 1 \in Nat
    OBVIOUS
  <2>2. {y \in 0 .. (x + 1) - 1 : f[y].count = 1} \subseteq {y \in 0 .. n - 1 : f[y].count = 1}
    OBVIOUS
  <2>3. CumOf(f, x + 1) <= CumOf(f, n)
    BY <2>1, <2>2, CumCounts, FS_Subset DEF CumOf
  <2>4. CumOf(f, x + 1) = CumOf(f, x) + 1 /\ CumOf(f, x) \in Nat /\ CumOf(f, n) \in Nat
    BY <1>1, <2>1, CumCounts
  <2> QED
    BY <2>3, <2>4
<1>2. ASSUME \A x \in 0 .. n - 1 : f[x] = g[x] PROVE CumOf(f, n) = CumOf(g, n)
  <2>1. {x \in 0 .. n - 1 : f[x].count = 1} = {x \in 0 .. n - 1 : g[x].count = 1}
    BY <1>2
  <2> QED
    BY <2>1 DEF CumOf
<1> QED
  BY <1>1, <1>2

\* What the types say of a flight.
LEMMA FlightParts ==
  ASSUME TypeOK, NEW s \in Slots
  PROVE  /\ fl[s] \in Flight /\ fl[s].n \in 0 .. K /\ fl[s].n \in Nat /\ fl[s].total \in 0 .. K
         /\ fl[s].gen \in 0 .. MaxGen /\ fl[s].active \in BOOLEAN
         /\ \A x \in 0 .. fl[s].n - 1 : x \in InFlight /\ x \in Nat
         /\ \A x \in InFlight : fl[s].wins[x].w \in Window /\ fl[s].wins[x].count \in {0, 1}
         /\ fl[s].wins \in [InFlight -> [w : Window, count : {0, 1}]]
<1>1. fl[s] \in Flight
  BY DEF TypeOK
<1>2. fl[s].n \in 0 .. K /\ fl[s].n \in Nat /\ \A x \in 0 .. fl[s].n - 1 : x \in InFlight /\ x \in Nat
  BY <1>1, Settings DEF Flight, InFlight
<1> QED
  BY <1>1, <1>2 DEF Flight

\* The window at hand, inside a nonce.
LEMMA AtHand ==
  ASSUME TypeOK
  PROVE  Win \in Window /\ Win.gen = snap /\ Win.nonce = nonce /\ Win.row = row
         /\ Own(Win) \in Cell /\ (row < Rows[nonce] => row + 1 \in RowIds)
         /\ snap \in Nat /\ nonce \in Nat /\ row \in Nat /\ Rows[nonce] \in Nat
         /\ nonce \in 0 .. LastNonce
<1>1. snap \in 0 .. MaxGen /\ nonce \in Nonces /\ row \in RowIds
  BY DEF TypeOK
<1>2. nonce \in 0 .. LastNonce /\ nonce \in Nat /\ snap \in Nat /\ row \in Nat /\ Rows[nonce] \in Nat
  BY <1>1, Settings DEF Nonces
<1>3. row < Rows[nonce] => row + 1 \in RowIds
  BY <1>1, <1>2, Settings
<1> QED
  BY <1>1, <1>2, <1>3 DEF Win, Window, Own, Cell

\* A flight that is given up, or was scanned, is empty; the other one is as before.
LEMMA Emptying ==
  ASSUME TypeOK, NEW s \in Slots, fl' = Emptied(s)
  PROVE  /\ fl' \in [Slots -> Flight]
         /\ fl'[s].n = 0 /\ fl'[s].total = 0 /\ ~fl'[s].active
         /\ \A t \in Slots : t # s => fl'[t] = fl[t]
<1>1. fl \in [Slots -> Flight] /\ fl[s] \in Flight
  BY DEF TypeOK
<1>2. fl' = [fl EXCEPT ![s] = [fl[s] EXCEPT !.active = FALSE, !.n = 0, !.total = 0]]
  BY <1>1 DEF Emptied
<1>3. [fl[s] EXCEPT !.active = FALSE, !.n = 0, !.total = 0] \in Flight
  <2>1. 0 \in 0 .. K /\ FALSE \in BOOLEAN
    BY Settings
  <2> QED
    BY <1>1, <2>1 DEF Flight
<1> QED
  BY <1>1, <1>2, <1>3 DEF Flight

\* A submitted flight is active, and otherwise as before.
LEMMA Activating ==
  ASSUME TypeOK, NEW s \in Slots, fl' = [fl EXCEPT ![s].active = TRUE]
  PROVE  /\ fl' \in [Slots -> Flight]
         /\ fl'[s].active /\ fl'[s].n = fl[s].n /\ fl'[s].total = fl[s].total
         /\ fl'[s].gen = fl[s].gen /\ fl'[s].wins = fl[s].wins
         /\ \A t \in Slots : t # s => fl'[t] = fl[t]
<1>1. fl \in [Slots -> Flight] /\ fl[s] \in Flight
  BY DEF TypeOK
<1> QED
  BY <1>1 DEF Flight

\* Cum is that of a flight's table.
LEMMA CumIs ==
  ASSUME NEW s, NEW i
  PROVE  Cum(s, i) = CumOf(fl[s].wins, i) /\ Cum(s, i)' = CumOf(fl'[s].wins, i)
BY DEF Cum, CumOf

\* The same facts of a flight, in a state and in the next.
LEMMA CumFacts ==
  ASSUME NEW s, NEW i \in Nat
  PROVE  /\ Cum(s, i) \in Nat /\ Cum(s, i) <= i /\ Cum(s, 0) = 0
         /\ Cum(s, i + 1) = Cum(s, i) + (IF fl[s].wins[i].count = 1 THEN 1 ELSE 0)
         /\ Cum(s, i + 1)' = Cum(s, i)' + (IF fl'[s].wins[i].count = 1 THEN 1 ELSE 0)
<1>1. /\ CumOf(fl[s].wins, i) \in Nat /\ CumOf(fl[s].wins, i) <= i /\ CumOf(fl[s].wins, 0) = 0
      /\ CumOf(fl[s].wins, i + 1) = CumOf(fl[s].wins, i)
                                    + (IF fl[s].wins[i].count = 1 THEN 1 ELSE 0)
  BY CumCounts
<1>2. CumOf(fl'[s].wins, i + 1) = CumOf(fl'[s].wins, i)
                                 + (IF fl'[s].wins[i].count = 1 THEN 1 ELSE 0)
  BY CumCounts
<1> QED
  BY <1>1, <1>2, CumIs

\* What putting the window at hand into the flight whose turn it is does to it.
LEMMA Adding ==
  ASSUME TypeOK, Control, Filled, Content, AddWindow,
         NEW s, s = Filling, NEW i, i = W_in
  PROVE  /\ s \in Slots /\ i \in 0 .. K - 1 /\ i \in InFlight /\ i \in Nat
         /\ fused /\ row < Rows[nonce] /\ ~fl[s].active
         /\ i > 0 => fl[s].n = i /\ fl[s].gen = snap
         /\ Opened.total = Cum(s, i) /\ Candidates \in {0, 1}
         /\ fl' \in [Slots -> Flight]
         /\ fl'[s].n = i + 1 /\ ~fl'[s].active /\ fl'[s].gen = snap
         /\ fl'[s].total = Cum(s, i) + Candidates
         /\ fl'[s].wins = [fl[s].wins EXCEPT ![i] = [w |-> Win, count |-> Candidates]]
         /\ \A t \in Slots : t # s => fl'[t] = fl[t]
<1>0. K \in Nat /\ K > 0
  BY Settings
<1>1. s \in Slots /\ i \in 0 .. K - 1 /\ i \in InFlight /\ i \in Nat
  BY Turn, <1>0 DEF InFlight
<1>2. pc = "mark" /\ fused /\ row < Rows[nonce] /\ ~fl[s].active
  BY DEF AddWindow, Control, Filled
<1>3. i > 0 => fl[s].n = i /\ fl[s].gen = snap
  BY <1>1, <1>2 DEF Filled
<1>4. fl[s] \in Flight /\ fl \in [Slots -> Flight]
  BY <1>1 DEF TypeOK
<1>5. i = 0 => Cum(s, i) = 0
  BY CumFacts
<1>6. Opened \in Flight /\ Opened.total = Cum(s, i) /\ Opened.n = i /\ ~Opened.active
      /\ Opened.gen = snap /\ Opened.wins = fl[s].wins
  <2>1. CASE i > 0
    BY <1>1, <1>2, <1>3, <1>4, <2>1 DEF Opened, Content, Matches
  <2>2. CASE i = 0
    <3>1. snap \in 0 .. MaxGen /\ RowMode \in BOOLEAN /\ Parity \in {0, 1}
      BY Turn DEF TypeOK, RowMode
    <3>2. Opened = [fl[s] EXCEPT !.n = 0, !.total = 0, !.gen = snap, !.row_mode = RowMode,
                                 !.base = Parity]
      BY <2>2 DEF Opened
    <3>3. 0 \in 0 .. K
      BY <1>0
    <3> QED
      BY <1>2, <1>4, <1>5, <2>2, <3>1, <3>2, <3>3 DEF Flight
  <2> QED
    BY <1>1, <2>1, <2>2
<1>7. Candidates \in {0, 1}
  BY DEF Candidates
<1>8. Cum(s, i) \in Nat /\ Cum(s, i) <= i
  BY <1>1, CumFacts
<1>9. /\ fl' = [fl EXCEPT ![s] = [Opened EXCEPT !.n = i + 1, !.total = Opened.total + Candidates,
                                  !.wins[i] = [w |-> Win, count |-> Candidates]]]
  BY <1>4, <1>6 DEF AddWindow, Flight
<1>10. [w |-> Win, count |-> Candidates] \in [w : Window, count : {0, 1}]
  BY AtHand, <1>7
<1>11. i + 1 \in 0 .. K /\ Opened.total + Candidates \in 0 .. K
  BY <1>0, <1>1, <1>6, <1>7, <1>8
<1>12. fl' \in [Slots -> Flight] /\ fl'[s].n = i + 1 /\ ~fl'[s].active /\ fl'[s].gen = snap
       /\ fl'[s].total = Cum(s, i) + Candidates
       /\ fl'[s].wins = [fl[s].wins EXCEPT ![i] = [w |-> Win, count |-> Candidates]]
       /\ \A t \in Slots : t # s => fl'[t] = fl[t]
  BY <1>1, <1>4, <1>6, <1>9, <1>10, <1>11 DEF Flight
<1> QED
  BY <1>1, <1>2, <1>3, <1>6, <1>7, <1>12

\* The flight's table before the new window, and its candidates, stay.
LEMMA AddingKeeps ==
  ASSUME TypeOK, Control, Filled, Content, AddWindow,
         NEW s, s = Filling, NEW i, i = W_in
  PROVE  /\ \A x \in 0 .. i - 1 : fl'[s].wins[x] = fl[s].wins[x] /\ Cum(s, x)' = Cum(s, x)
         /\ fl'[s].wins[i] = [w |-> Win, count |-> Candidates] /\ Cum(s, i)' = Cum(s, i)
         /\ Cum(s, i) \in Cells
         /\ Cum(s, i + 1)' = Cum(s, i) + Candidates
         /\ \A c \in Cells : c # Cum(s, i) => cands'[s][c] = cands[s][c]
         /\ \A t \in Slots : t # s => cands'[t] = cands[t]
         /\ cands'[s][Cum(s, i)] =
              IF Candidates = 1 THEN Packed(Win, Marks) ELSE cands[s][Cum(s, i)]
<1>0. K \in Nat /\ K > 0
  BY Settings
<1>1. /\ s \in Slots /\ i \in 0 .. K - 1 /\ i \in InFlight /\ i \in Nat
      /\ Opened.total = Cum(s, i) /\ Candidates \in {0, 1}
      /\ fl'[s].wins = [fl[s].wins EXCEPT ![i] = [w |-> Win, count |-> Candidates]]
  BY Adding
<1>2. fl[s].wins \in [InFlight -> [w : Window, count : {0, 1}]]
  BY <1>1, FlightParts
<1>3. /\ fl'[s].wins[i] = [w |-> Win, count |-> Candidates]
      /\ \A x \in 0 .. i - 1 : fl'[s].wins[x] = fl[s].wins[x]
  BY <1>0, <1>1, <1>2 DEF InFlight
<1>4. \A x \in 0 .. i : Cum(s, x)' = Cum(s, x)
  <2> TAKE x \in 0 .. i
  <2>1. x \in Nat /\ \A y \in 0 .. x - 1 : fl'[s].wins[y] = fl[s].wins[y]
    BY <1>1, <1>3
  <2>2. CumOf(fl'[s].wins, x) = CumOf(fl[s].wins, x)
    BY <2>1, CumOrder
  <2> QED
    BY <2>2, CumIs
<1>5. Cum(s, i) \in Nat /\ Cum(s, i) <= i
  BY <1>1, CumFacts
<1>6. Cum(s, i) \in Cells
  BY <1>0, <1>1, <1>5 DEF Cells
<1>7. Cum(s, i + 1)' = Cum(s, i) + Candidates
  <2>1. Cum(s, i + 1)' = Cum(s, i)' + (IF fl'[s].wins[i].count = 1 THEN 1 ELSE 0)
    <3>1. i \in Nat
      BY <1>1
    <3> HIDE <1>1
    <3> QED
      BY <3>1, CumFacts, Zenon
  <2>2. Cum(s, i)' = Cum(s, i)
    BY <1>1, <1>4
  <2> QED
    BY <1>1, <1>3, <2>1, <2>2
<1>8. cands \in [Slots -> [Cells -> Cell]]
  BY DEF TypeOK
<1>9. cands' = IF Candidates = 0 THEN cands
               ELSE [cands EXCEPT ![s][Cum(s, i)] = Packed(Win, Marks)]
  BY <1>1 DEF AddWindow
<1>10. /\ \A c \in Cells : c # Cum(s, i) => cands'[s][c] = cands[s][c]
       /\ \A t \in Slots : t # s => cands'[t] = cands[t]
       /\ cands'[s][Cum(s, i)] =
              IF Candidates = 1 THEN Packed(Win, Marks) ELSE cands[s][Cum(s, i)]
  BY <1>1, <1>6, <1>8, <1>9
<1> QED
  BY <1>1, <1>3, <1>4, <1>6, <1>7, <1>10

\* The other flight is left alone, and this one is not submitted yet.
LEMMA AddingOthers ==
  ASSUME TypeOK, Control, Filled, Content, AddWindow, NEW s, s = Filling
  PROVE  /\ s \in Slots /\ ~fl'[s].active /\ ~fl[s].active
         /\ \A u \in Slots : u # s => fl'[u] = fl[u] /\ cands'[u] = cands[u]
<1>1. s \in Slots /\ fl \in [Slots -> Flight] /\ ~fl[s].active
  BY Turn DEF TypeOK, Filled, AddWindow, Control
<1>2. PICK f : fl' = [fl EXCEPT ![s] = [Opened EXCEPT !.n = @ + 1, !.total = @ + Candidates,
                                                      !.wins[W_in] = f]]
  BY DEF AddWindow
<1>3. \A u \in Slots : u # s => fl'[u] = fl[u]
  BY <1>1, <1>2
<1>4. ~fl'[s].active
  BY <1>1, <1>2 DEF Opened, Flight
<1>5. \A u \in Slots : u # s => cands'[u] = cands[u]
  BY <1>1 DEF AddWindow, TypeOK
<1> QED
  BY <1>1, <1>3, <1>4, <1>5

\* The window at hand is extracted from its own bitmap.
LEMMA MarksAreOwn ==
  ASSUME TypeOK, Control, Marked, AddWindow
  PROVE  Packed(Win, Marks) = Own(Win)
<1>1. row < Rows[nonce] /\ row \in RowIds /\ row \in Nat /\ Rows[nonce] \in Nat
  BY AtHand DEF AddWindow, Control, TypeOK
<1>2. CASE RowMode /\ row = 0
  <2>1. Arena[row] = [Win EXCEPT !.row = row + row]
    BY <1>1, <1>2 DEF Arena, MarkedRows, Win
  <2>2. [Win EXCEPT !.row = row + row] = Win
    BY <1>2 DEF Win
  <2> QED
    BY <1>2, <2>1, <2>2 DEF Marks, Packed, Own
<1>3. CASE RowMode /\ row # 0
  <2>1. row \in 1 .. Rows[nonce] - 1 /\ row_marked /\ InNonce
    BY <1>1, <1>3 DEF AddWindow, InNonce
  <2> QED
    BY <1>3, <2>1 DEF Marked, Marks, Arena, Packed, Own, Win
<1>4. CASE ~RowMode
  <2>1. Parity \in Slots /\ bitmap \in [Slots -> Window]
    BY Turn DEF TypeOK, Slots
  <2> QED
    BY <1>4, <2>1 DEF Marked, Marks, Bitmap, MarkedPair, MarkedOne, Packed, Own
<1> QED
  BY <1>2, <1>3, <1>4

-----------------------------------------------------------------------------
(* The types                                                                *)

\* The places of the worker, its buffers, its device, and what it did.
PlaceTyped ==
  /\ config \in Configs /\ gen \in 0 .. MaxGen /\ stop \in BOOLEAN
  /\ pc \in {"snap", "nonce", "row", "collect", "mark", "cpu", "submit", "chain", "full",
             "scan", "window", "hidden", "exit0", "exit1", "done"}
  /\ snap \in 0 .. MaxGen /\ nonce \in Nonces /\ row \in RowIds
  /\ seq \in 0 .. 2 * K - 1
  /\ fused \in BOOLEAN /\ chain_on \in BOOLEAN /\ row_marked \in BOOLEAN
  /\ cur \in Slots /\ j \in 0 .. K /\ tails \in 0 .. K
  /\ ret \in {"mark", "row", "drain", "exit0", "exit1"}
  /\ faults \in 0 .. config.faults
BufferTyped ==
  /\ pend \in [valid : BOOLEAN, parity : {0, 1}, w : Window]
  /\ bitmap \in [Slots -> Window] /\ arena \in [RowIds -> Window]
  /\ cands \in [Slots -> [Cells -> Cell]] /\ is_prime \in [Slots -> [Cells -> Cell]]
DeviceTyped ==
  /\ slots \in [Slots -> [busy : BOOLEAN, running : BOOLEAN, count : 0 .. K]]
  /\ fl \in [Slots -> Flight]
HistoryTyped ==
  /\ scans \subseteq [w : Window, gen : 0 .. MaxGen, own : BOOLEAN]
  /\ taken \subseteq Window /\ again \in BOOLEAN

LEMMA TypeParts == TypeOK <=> PlaceTyped /\ BufferTyped /\ DeviceTyped /\ HistoryTyped
BY DEF TypeOK, PlaceTyped, BufferTyped, DeviceTyped, HistoryTyped

\* Windows, buffers and slots to begin with.
LEMMA NewTypes ==
  /\ NoWindow \in Window /\ NoCell \in Cell /\ NewFlight \in Flight
  /\ NoPend \in [valid : BOOLEAN, parity : {0, 1}, w : Window]
  /\ 0 \in Slots /\ 1 \in Slots /\ 0 \in 0 .. K
<1>1. NoWindow \in Window
  BY Settings DEF NoWindow, Window
<1>2. 0 \in 0 .. K /\ 0 \in 0 .. MaxGen
  BY Settings
<1>3. NewFlight \in Flight
  BY <1>1, <1>2 DEF NewFlight, Flight
<1> QED
  BY <1>1, <1>2, <1>3 DEF NoCell, Cell, NoPend, Slots

LEMMA TypeInit == Init => TypeOK
<1> SUFFICES ASSUME Init PROVE TypeOK
  OBVIOUS
<1>1. PlaceTyped
  <2>1. config \in Configs /\ faults \in 0 .. config.faults /\ chain_on \in BOOLEAN
    BY Settings DEF Init
  <2>2. 0 \in 0 .. MaxGen /\ 0 \in 0 .. 2 * K - 1
    BY Settings
  <2> QED
    BY <2>1, <2>2, Settings, NewTypes DEF Init, PlaceTyped
<1>2. BufferTyped
  BY NewTypes DEF Init, BufferTyped
<1>3. DeviceTyped
  BY NewTypes DEF Init, DeviceTyped
<1>4. HistoryTyped
  BY DEF Init, HistoryTyped
<1> QED
  BY <1>1, <1>2, <1>3, <1>4, TypeParts

\* What a submission and a failed collect leave of a slot.
LEMMA SlotTypes ==
  ASSUME TypeOK, NEW s \in Slots, NEW n \in 0 .. K
  PROVE  /\ AtMost(n) \in 0 .. K /\ (~config.chain => AtMost(n) = n)
         /\ Submitted(s, n) \in [Slots -> [busy : BOOLEAN, running : BOOLEAN, count : 0 .. K]]
         /\ LeftBusy(s) \in [Slots -> [busy : BOOLEAN, running : BOOLEAN, count : 0 .. K]]
         /\ Submitted(s, n)[s] = [busy |-> TRUE, running |-> TRUE, count |-> AtMost(n)]
         /\ \A t \in Slots : t # s => Submitted(s, n)[t] = slots[t] /\ LeftBusy(s)[t] = slots[t]
<1>1. config \in Configs /\ slots \in [Slots -> [busy : BOOLEAN, running : BOOLEAN, count : 0 .. K]]
  BY DEF TypeOK
<1>2. AtMost(n) \in 0 .. K /\ (~config.chain => AtMost(n) = n)
  BY <1>1, Settings DEF AtMost
<1>3. 0 \in 0 .. K
  BY Settings
<1> QED
  BY <1>1, <1>2, <1>3 DEF Submitted, LeftBusy

LEMMA DeviceTypes ==
  ASSUME TypeOK, Control, Filled, Content, [Next]_vars
  PROVE  DeviceTyped'
<1> USE DEF DeviceTyped
<1>1. slots \in [Slots -> [busy : BOOLEAN, running : BOOLEAN, count : 0 .. K]]
      /\ fl \in [Slots -> Flight] /\ cur \in Slots /\ Filling \in Slots
  BY Turn DEF TypeOK
<1>2. \A s \in Slots : fl[s].total \in 0 .. K
  BY FlightParts
<1>3. CASE AddWindow
  BY <1>1, <1>3, Adding DEF AddWindow
<1>4. CASE CpuWindow \/ ChainFails
  BY <1>1, <1>2, <1>4, SlotTypes DEF CpuWindow, ChainFails, Slots
<1>5. CASE SubmitFlight
  <2>1. fl' \in [Slots -> Flight]
    BY <1>1, <1>5, Activating, Emptying DEF SubmitFlight
  <2>2. slots' = slots \/ slots' = Submitted(cur, fl[cur].total)
    BY <1>5 DEF SubmitFlight
  <2>3. fl[cur].total \in 0 .. K
    BY <1>1, <1>2
  <2>4. Submitted(cur, fl[cur].total)
          \in [Slots -> [busy : BOOLEAN, running : BOOLEAN, count : 0 .. K]]
    BY <1>1, <2>3, SlotTypes
  <2> QED
    BY <1>1, <2>1, <2>2, <2>4
<1>6. CASE Collect
  BY <1>1, <1>6 DEF Collect
<1>7. CASE CollectFails
  BY <1>1, <1>7, Emptying DEF CollectFails, GiveUpCollect
<1>8. CASE FullScanFails \/ TailFails
  <2>1. fl' = fl \/ fl' = Emptied(cur)
    BY <1>8 DEF FullScanFails, TailFails, GiveUpCollect
  <2> QED
    BY <1>1, <1>2, <1>8, <2>1, Emptying, SlotTypes DEF FullScanFails, TailFails
<1>9. CASE TestHidden
  BY <1>1, <1>2, <1>9, SlotTypes DEF TestHidden
<1>10. CASE ScanEnds
  BY <1>1, <1>10, Emptying DEF ScanEnds
<1>11. CASE DrainBatch
  <2>1. fl' \in [Slots -> Flight]
    BY <1>1, <1>11, Activating, Emptying DEF DrainBatch
  <2>2. slots' = slots \/ slots' = Submitted(Filling, fl[Filling].total)
    BY <1>11 DEF DrainBatch
  <2>3. fl[Filling].total \in 0 .. K
    BY <1>1, <1>2
  <2>4. Submitted(Filling, fl[Filling].total)
          \in [Slots -> [busy : BOOLEAN, running : BOOLEAN, count : 0 .. K]]
    BY <1>1, <2>3, SlotTypes
  <2> QED
    BY <1>1, <2>1, <2>2, <2>4
<1>12. ASSUME NEW s \in Slots, KernelEnds(s) PROVE DeviceTyped'
  BY <1>1, <1>12 DEF KernelEnds
<1>13. CASE \/ Publish \/ RequestStop \/ Snapshot \/ LeaveLoop \/ BeginNonce \/ NextNonce
            \/ BeginRow \/ AddFails \/ Chain \/ FullScan \/ Tail \/ ScanWindow \/ NeedHidden
            \/ DrainChain \/ DrainNothing \/ LastFlight(0) \/ LastFlight(1) \/ UNCHANGED vars
  BY <1>1, <1>13 DEF Publish, RequestStop, Snapshot, LeaveLoop, BeginNonce, NextNonce,
     BeginRow, AddFails, Chain, FullScan, Tail, ScanWindow, NeedHidden, DrainChain,
     DrainNothing, LastFlight, vars
<1> QED
  BY <1>3, <1>4, <1>5, <1>6, <1>7, <1>8, <1>9, <1>10, <1>11, <1>12, <1>13 DEF Next, Worker, Kernels


\* The marks of a window's row, and what the device tested, have their types.
LEMMA BufferShapes ==
  ASSUME TypeOK, NEW w \in Window, NEW n \in Nat, \A r \in 0 .. n - 1 : w.row + r \in RowIds,
         NEW s \in Slots, NEW m
  PROVE  /\ MarkedRows(w, n) \in [RowIds -> Window]
         /\ MarkedOne(w, s) \in [Slots -> Window]
         /\ Tested(s, m) \in [Slots -> [Cells -> Cell]]
<1>1. MarkedRows(w, n) \in [RowIds -> Window]
  <2>1. ASSUME NEW r \in RowIds, r < n PROVE [w EXCEPT !.row = w.row + r] \in Window
    <3>1. r \in 0 .. n - 1
      BY <2>1, Settings
    <3> QED
      BY <3>1 DEF Window
  <2> QED
    BY <2>1 DEF MarkedRows, TypeOK
<1>2. MarkedOne(w, s) \in [Slots -> Window]
  BY DEF MarkedOne, TypeOK
<1>3. Tested(s, m) \in [Slots -> [Cells -> Cell]]
  BY DEF Tested, TypeOK
<1> QED
  BY <1>1, <1>2, <1>3

\* The window being scanned.
LEMMA ScannedWindow ==
  ASSUME TypeOK, j < fl[cur].n
  PROVE  /\ cur \in Slots /\ j \in InFlight /\ j \in 0 .. fl[cur].n - 1 /\ j \in Nat
         /\ j + 1 \in 0 .. K /\ j + 1 <= fl[cur].n /\ Scanned = fl[cur].wins[j]
         /\ Scanned.w \in Window /\ Scanned.count \in {0, 1}
<1>1. cur \in Slots /\ j \in 0 .. K /\ K \in Nat
  BY Settings DEF TypeOK
<1>2. fl[cur].n \in 0 .. K
  BY <1>1, FlightParts
<1>3. j \in 0 .. fl[cur].n - 1 /\ j \in Nat /\ j + 1 \in 0 .. K /\ j + 1 <= fl[cur].n
  BY <1>1, <1>2
<1> QED
  BY <1>1, <1>3, FlightParts DEF Scanned

LEMMA BufferTypes ==
  ASSUME TypeOK, Control, Filled, Content, Marked, [Next]_vars
  PROVE  BufferTyped'
<1> USE DEF BufferTyped
<1>1. BufferTyped /\ cur \in Slots /\ Filling \in Slots
  BY Turn, TypeParts DEF TypeOK
<1>2. CASE AddWindow
  <2>1. arena' \in [RowIds -> Window]
    <3>1. CASE RowMode /\ row = 0
      <4>1. \A r \in 0 .. Rows[nonce] - 1 : Win.row + r \in RowIds
        BY <1>2, <3>1, AtHand, Settings DEF TypeOK
      <4> QED
        BY <1>1, <1>2, <3>1, <4>1, AtHand, BufferShapes DEF AddWindow, Arena
    <3> QED
      BY <1>1, <1>2, <3>1 DEF AddWindow, Arena
  <2>2. bitmap' \in [Slots -> Window]
    BY <1>1, <1>2, AtHand, Turn DEF AddWindow, Bitmap, MarkedPair, MarkedOne
  <2>3. cands' \in [Slots -> [Cells -> Cell]]
    <3>1. Packed(Win, Marks) \in Cell
      BY <1>2, MarksAreOwn, AtHand
    <3> QED
      BY <1>1, <1>2, <3>1 DEF AddWindow
  <2>4. pend' \in [valid : BOOLEAN, parity : {0, 1}, w : Window]
    BY <1>2, NewTypes, Turn, AtHand DEF AddWindow
  <2> QED
    BY <1>1, <1>2, <2>1, <2>2, <2>3, <2>4 DEF AddWindow
<1>3. ASSUME NEW s \in Slots, KernelEnds(s) PROVE BufferTyped'
  <2>1. is_prime' \in [Slots -> [Cells -> Cell]]
    BY <1>1, <1>3 DEF KernelEnds, Tested
  <2> QED
    BY <1>1, <1>3, <2>1 DEF KernelEnds, sieve
<1>4. CASE Chain \/ FullScan
  <2>1. PICK m : is_prime' = Tested(cur, m)
    BY <1>4 DEF Chain, FullScan
  <2>2. is_prime' \in [Slots -> [Cells -> Cell]]
    BY <1>1, <2>1 DEF Tested
  <2> QED
    BY <1>1, <1>4, <2>2 DEF Chain, FullScan, sieve
<1>5. CASE ChainFails
  BY <1>1, <1>5, NewTypes DEF ChainFails, sieve
<1>6. CASE Tail \/ TailFails
  <2>1. j < fl[cur].n
    BY <1>6 DEF Tail, TailFails
  <2>2. Scanned.w \in Window /\ \A r \in 0 .. 1 - 1 : Scanned.w.row + r \in RowIds
    <3>1. Scanned.w \in Window
      BY <2>1, ScannedWindow
    <3>2. Scanned.w.row \in RowIds /\ Scanned.w.row \in Nat
      BY <3>1, Settings DEF Window
    <3> QED
      BY <3>1, <3>2
  <2>3. RemadeArena \in [RowIds -> Window]
    BY <1>1, <2>2, BufferShapes DEF RemadeArena
  <2>4. RemadeBitmap \in [Slots -> Window]
    BY <1>1, <2>2 DEF RemadeBitmap, MarkedOne
  <2>5. Packed(Scanned.w, Scanned.w) \in Cell
    BY <2>2 DEF Packed, Cell
  <2>6. cands' \in [Slots -> [Cells -> Cell]]
    <3>1. CASE Tail
      <4>1. PICK c : cands' = [cands EXCEPT ![cur][c] = Packed(Scanned.w, Scanned.w)]
        BY <3>1 DEF Tail
      <4> QED
        BY <1>1, <2>5, <4>1
    <3>2. CASE TailFails
      BY <1>1, <3>2 DEF TailFails
    <3> QED
      BY <1>6, <3>1, <3>2
  <2>7. arena' = RemadeArena /\ bitmap' = RemadeBitmap /\ pend' = pend /\ is_prime' = is_prime
    BY <1>6 DEF Tail, TailFails
  <2> QED
    BY <1>1, <2>3, <2>4, <2>6, <2>7
<1>7. CASE BeginRow \/ AddFails \/ DrainChain \/ DrainBatch \/ DrainNothing
  BY <1>1, <1>7, NewTypes DEF BeginRow, AddFails, DrainChain, DrainBatch, DrainNothing
<1>8. CASE \/ Publish \/ RequestStop \/ Snapshot \/ LeaveLoop \/ BeginNonce \/ NextNonce
           \/ CpuWindow \/ SubmitFlight \/ Collect \/ CollectFails \/ FullScanFails
           \/ ScanWindow \/ NeedHidden \/ TestHidden \/ ScanEnds
           \/ LastFlight(0) \/ LastFlight(1) \/ UNCHANGED vars
  BY <1>1, <1>8 DEF Publish, RequestStop, Snapshot, LeaveLoop, BeginNonce, NextNonce, CpuWindow,
     SubmitFlight, Collect, CollectFails, FullScanFails, ScanWindow, NeedHidden, TestHidden,
     ScanEnds, LastFlight, vars, sieve
<1> QED
  BY <1>2, <1>3, <1>4, <1>5, <1>6, <1>7, <1>8 DEF Next, Worker, Kernels


\* The flight's window belongs to a nonce's row: the next row exists.
LEMMA NextRowIs ==
  ASSUME TypeOK, Control, pc \in {"mark", "cpu"} \/ At("mark") \/ At("row")
  PROVE  row + 1 \in RowIds
BY AtHand DEF Control

\* A step of the flight in the device's queue leads back to the loops.
LEMMA ResumeTypes ==
  ASSUME TypeOK
  PROVE  Resume \in {"mark", "row", "snap", "exit1", "done"}
BY DEF TypeOK, Resume

LEMMA PlaceTypes ==
  ASSUME TypeOK, Control, Progress, [Next]_vars
  PROVE  PlaceTyped'
<1> USE DEF PlaceTyped, work, place, mode, sieve, scan, hist
<1>1. PlaceTyped /\ Filling \in Slots /\ W_in \in 0 .. K - 1 /\ K \in Nat /\ 0 \in 0 .. K
      /\ 0 \in RowIds /\ 1 \in Nonces /\ 0 \in Slots /\ 1 \in Slots
  BY Turn, Settings, NewTypes, TypeParts
<1>2. config.faults \in Nat
  BY <1>1, Settings
<1>3. ASSUME NEW n \in Nat, Spend(n) PROVE faults' \in 0 .. config.faults
  BY <1>1, <1>2, <1>3 DEF Spend
<1>4. Resume \in {"mark", "row", "snap", "exit1", "done"}
  BY ResumeTypes
<1>5. CASE Publish
  BY <1>1, <1>5, Settings DEF Publish
<1>6. CASE RequestStop \/ Snapshot \/ LeaveLoop \/ BeginNonce \/ BeginRow
  BY <1>1, <1>6 DEF RequestStop, Snapshot, LeaveLoop, BeginNonce, BeginRow
<1>7. CASE NextNonce
  <2>1. nonce' \in Nonces
    BY <1>1, <1>7, Settings DEF NextNonce, Nonces
  <2> QED
    BY <1>1, <1>7, <2>1 DEF NextNonce
<1>8. CASE AddWindow
  <2>1. row + 1 \in RowIds
    BY <1>8, NextRowIs DEF AddWindow
  <2>2. seq' \in 0 .. 2 * K - 1
    BY <1>8, NextTurn DEF AddWindow
  <2> QED
    BY <1>1, <1>8, <2>1, <2>2 DEF AddWindow, RowMode
<1>9. CASE AddFails
  BY <1>1, <1>3, <1>9 DEF AddFails
<1>10. CASE CpuWindow
  <2>1. row + 1 \in RowIds
    BY <1>10, NextRowIs DEF CpuWindow
  <2> QED
    BY <1>1, <1>3, <1>10, <2>1 DEF CpuWindow
<1>11. CASE SubmitFlight
  <2>1. row + 1 \in RowIds
    BY <1>11, NextRowIs DEF SubmitFlight, Control, At, Dealing
  <2> QED
    BY <1>1, <1>3, <1>11, <2>1 DEF SubmitFlight
<1>12. CASE Collect \/ Chain \/ FullScan
  BY <1>1, <1>12 DEF Collect, Chain, FullScan, BeginScan
<1>13. CASE CollectFails \/ TailFails
  BY <1>1, <1>3, <1>4, <1>13 DEF CollectFails, TailFails, GiveUpCollect
<1>14. CASE ChainFails
  BY <1>1, <1>3, <1>14 DEF ChainFails
<1>15. CASE FullScanFails
  <2>1. ret = "row" => row + 1 \in RowIds
    BY <1>15, NextRowIs DEF FullScanFails, At, Dealing
  <2>2. row' \in RowIds
    BY <1>1, <1>15, <2>1 DEF FullScanFails, Return
  <2> QED
    BY <1>1, <1>3, <1>4, <1>15, <2>2 DEF FullScanFails, Return
<1>16. CASE Tail
  <2>1. tails + 1 \in 0 .. K
    BY <1>1, <1>16, ScannedWindow DEF Tail, Progress, Scanning
  <2> QED
    BY <1>1, <1>16, <2>1 DEF Tail
<1>17. CASE ScanWindow \/ NeedHidden
  BY <1>1, <1>17, ScannedWindow DEF ScanWindow, NeedHidden
<1>18. CASE TestHidden
  <2>1. j < fl[cur].n
    BY <1>18 DEF TestHidden, Progress
  <2> QED
    BY <1>1, <1>3, <1>18, <2>1, ScannedWindow DEF TestHidden
<1>19. CASE ScanEnds
  <2>1. ret = "row" => row + 1 \in RowIds
    BY <1>19, NextRowIs DEF ScanEnds, At, Dealing, Scanning
  <2>2. row' \in RowIds
    BY <1>1, <1>19, <2>1 DEF ScanEnds, Return
  <2> QED
    BY <1>1, <1>4, <1>19, <2>2 DEF ScanEnds, Return
<1>20. CASE DrainChain \/ DrainBatch
  <2>1. seq' \in 0 .. 2 * K - 1
    BY <1>20, DrainTurn DEF DrainChain, DrainBatch
  <2> QED
    BY <1>1, <1>3, <1>20, <2>1 DEF DrainChain, DrainBatch
<1>21. CASE DrainNothing \/ LastFlight(0) \/ LastFlight(1) \/ UNCHANGED vars
  BY <1>1, <1>21 DEF DrainNothing, LastFlight, vars
<1>22. ASSUME NEW s \in Slots, KernelEnds(s) PROVE PlaceTyped'
  BY <1>1, <1>22 DEF KernelEnds
<1> QED
  BY <1>5, <1>6, <1>7, <1>8, <1>9, <1>10, <1>11, <1>12, <1>13, <1>14, <1>15, <1>16, <1>17,
     <1>18, <1>19, <1>20, <1>21, <1>22 DEF Next, Worker, Kernels

\* Searching a window.
LEMMA SearchTypes ==
  ASSUME TypeOK, NEW w \in Window, NEW g \in 0 .. MaxGen, NEW own \in BOOLEAN,
         Searched(w, g, own)
  PROVE  /\ scans' \subseteq [w : Window, gen : 0 .. MaxGen, own : BOOLEAN]
         /\ again' \in BOOLEAN
<1>1. [w |-> w, gen |-> g, own |-> own] \in [w : Window, gen : 0 .. MaxGen, own : BOOLEAN]
  OBVIOUS
<1>2. again' \in BOOLEAN
  BY DEF Searched, TypeOK
<1> QED
  BY <1>1, <1>2 DEF Searched, TypeOK

\* Recording a window, with the results at hand.
LEMMA RecordTypes ==
  ASSUME TypeOK, j < fl[cur].n, Record
  PROVE  /\ scans' \subseteq [w : Window, gen : 0 .. MaxGen, own : BOOLEAN]
         /\ again' \in BOOLEAN
<1>1. Scanned.w \in Window /\ fl[cur].gen \in 0 .. MaxGen
  BY ScannedWindow, FlightParts
<1>2. CASE Searched(Scanned.w, fl[cur].gen, Head = Own(Scanned.w))
  <2>1. (Head = Own(Scanned.w)) \in BOOLEAN
    OBVIOUS
  <2> QED
    BY <1>1, <1>2, <2>1, SearchTypes
<1>3. CASE UNCHANGED <<scans, again>>
  BY <1>3 DEF TypeOK
<1> QED
  BY <1>2, <1>3 DEF Record

LEMMA HistoryTypes ==
  ASSUME TypeOK, Progress, [Next]_vars
  PROVE  HistoryTyped'
<1> USE DEF HistoryTyped
<1>1. HistoryTyped
  BY TypeParts
<1>2. CASE AddWindow
  BY <1>1, <1>2, AtHand DEF AddWindow
<1>3. CASE CpuWindow
  <2>1. Searched(Win, snap, TRUE) /\ taken' = taken /\ Win \in Window /\ snap \in 0 .. MaxGen
    BY <1>3, AtHand DEF CpuWindow, TypeOK
  <2> QED
    BY <1>1, <2>1, SearchTypes
<1>4. CASE ScanWindow
  BY <1>1, <1>4, RecordTypes DEF ScanWindow
<1>5. CASE TestHidden
  <2>1. j < fl[cur].n
    BY <1>5 DEF TestHidden, Progress
  <2> QED
    BY <1>1, <1>5, <2>1, RecordTypes DEF TestHidden
<1>6. CASE \/ Publish \/ RequestStop \/ Snapshot \/ LeaveLoop \/ BeginNonce \/ NextNonce
           \/ BeginRow \/ AddFails \/ SubmitFlight \/ Collect \/ CollectFails \/ Chain
           \/ ChainFails \/ FullScan \/ FullScanFails \/ Tail \/ TailFails \/ NeedHidden
           \/ ScanEnds \/ DrainChain \/ DrainBatch \/ DrainNothing
           \/ LastFlight(0) \/ LastFlight(1) \/ UNCHANGED vars
  BY <1>1, <1>6 DEF Publish, RequestStop, Snapshot, LeaveLoop, BeginNonce, NextNonce,
     BeginRow, AddFails, SubmitFlight, Collect, CollectFails, Chain, ChainFails, FullScan,
     FullScanFails, Tail, TailFails, NeedHidden, ScanEnds, DrainChain, DrainBatch,
     DrainNothing, LastFlight, vars, hist
<1>7. ASSUME NEW s \in Slots, KernelEnds(s) PROVE HistoryTyped'
  BY <1>1, <1>7 DEF KernelEnds, hist
<1> QED
  BY <1>2, <1>3, <1>4, <1>5, <1>6, <1>7 DEF Next, Worker, Kernels

LEMMA TypeStep ==
  ASSUME TypeOK, Control, Progress, Filled, Content, Marked, [Next]_vars
  PROVE  TypeOK'
BY PlaceTypes, BufferTypes, DeviceTypes, HistoryTypes, TypeParts
   DEF TypeOK, PlaceTyped, BufferTyped, DeviceTyped, HistoryTyped

-----------------------------------------------------------------------------
(* Where the worker can be                                                  *)

\* Where a flight's end leads, for the callers that can give it up.
LEMMA ResumeIs ==
  ASSUME TypeOK
  PROVE  /\ Resume = "mark" <=> ret = "mark"
         /\ Resume = "row" <=> ret = "row"
         /\ Resume = "snap" <=> ret = "drain"
         /\ Resume = "exit1" <=> ret = "exit0"
         /\ Resume = "done" <=> ret = "exit1"
BY DEF TypeOK, Resume

LEMMA ControlStep ==
  ASSUME TypeOK, Control, [Next]_vars
  PROVE  Control'
<1> USE DEF Control, At, Dealing, Scanning
<1>1. /\ row \in Nat /\ Rows[nonce] \in Nat /\ chain_on \in BOOLEAN /\ fused \in BOOLEAN
      /\ cur \in Slots /\ Filling \in Slots /\ fl \in [Slots -> Flight]
      /\ ret \in {"mark", "row", "drain", "exit0", "exit1"}
  BY AtHand, Turn DEF TypeOK
<1>2. ASSUME NEW s \in Slots, fl' = Emptied(s) \/ fl' = fl
      PROVE  (\A t \in Slots : ~fl[t].active) => (\A t \in Slots : ~fl'[t].active)
  BY <1>2, Emptying
<1>3. CASE Publish \/ RequestStop \/ UNCHANGED vars
  BY <1>3 DEF Publish, RequestStop, vars, work, place, mode, scan
<1>4. ASSUME NEW s \in Slots, KernelEnds(s) PROVE Control'
  BY <1>4 DEF KernelEnds, place, mode, scan
<1>5. CASE Snapshot \/ LeaveLoop \/ BeginNonce \/ NextNonce \/ BeginRow
  BY <1>1, <1>5 DEF Snapshot, LeaveLoop, BeginNonce, NextNonce, BeginRow, place, mode, scan
<1>6. CASE AddWindow
  <2>1. (\A t \in Slots : ~fl[t].active) => (\A t \in Slots : ~fl'[t].active)
    <3> SUFFICES ASSUME \A t \in Slots : ~fl[t].active, NEW t \in Slots PROVE ~fl'[t].active
      OBVIOUS
    <3>1. fl'[t] = fl[t] \/ t = Filling
      BY <1>1, <1>6 DEF AddWindow
    <3>2. ~fl'[Filling].active
      BY <1>1, <1>6 DEF AddWindow, Opened, Flight
    <3> QED
      BY <3>1, <3>2
  <2> QED
    BY <1>1, <1>6, <2>1 DEF AddWindow, mode
<1>7. CASE AddFails \/ CpuWindow
  <2>1. CASE AddFails
    BY <1>1, <2>1 DEF AddFails, place, scan
  <2>2. CASE CpuWindow
    <3>1. pc = "cpu" /\ pc' = "row" /\ row' = row + 1
          /\ UNCHANGED <<config, nonce, fused, chain_on, fl>>
      BY <2>2 DEF CpuWindow, mode
    <3>2. row < Rows[nonce]
      BY <3>1
    <3> QED
      BY <1>1, <3>1, <3>2
  <2> QED
    BY <1>7, <2>1, <2>2
<1>8. CASE SubmitFlight
  <2>1. ~config.chain
    BY <1>8 DEF SubmitFlight
  <2> QED
    BY <1>1, <1>8, <2>1 DEF SubmitFlight, scan
<1>9. CASE Collect \/ Chain \/ FullScan
  BY <1>1, <1>9 DEF Collect, Chain, FullScan, BeginScan, place, mode
<1>10. CASE CollectFails \/ TailFails
  <2>1. (\A t \in Slots : ~fl[t].active) => (\A t \in Slots : ~fl'[t].active)
    BY <1>1, <1>2, <1>10 DEF CollectFails, TailFails, GiveUpCollect
  <2> QED
    BY <1>1, <1>10, <2>1, ResumeIs, ResumeTypes
       DEF CollectFails, TailFails, GiveUpCollect, MayNeedTail, AtExit, place, scan
<1>11. CASE ChainFails
  BY <1>1, <1>11 DEF ChainFails, place, mode, scan
<1>12. CASE FullScanFails
  <2>1. (\A t \in Slots : ~fl[t].active) => (\A t \in Slots : ~fl'[t].active)
    BY <1>1, <1>2, <1>12 DEF FullScanFails
  <2> QED
    BY <1>1, <1>12, <2>1, ResumeIs, ResumeTypes DEF FullScanFails, Return, AtExit, scan
<1>13. CASE Tail \/ ScanWindow \/ NeedHidden \/ TestHidden
  BY <1>1, <1>13 DEF Tail, ScanWindow, NeedHidden, TestHidden, place, mode, scan
<1>14. CASE ScanEnds
  <2>1. (\A t \in Slots : ~fl[t].active) => (\A t \in Slots : ~fl'[t].active)
    BY <1>1, <1>2, <1>14 DEF ScanEnds
  <2> QED
    BY <1>1, <1>14, <2>1, ResumeIs, ResumeTypes DEF ScanEnds, Return, mode, scan
<1>15. CASE DrainChain \/ DrainNothing
  BY <1>1, <1>15 DEF DrainChain, DrainNothing, place, mode, scan
<1>16. CASE DrainBatch
  BY <1>1, <1>16 DEF DrainBatch, place, mode, scan
<1>17. CASE LastFlight(0) \/ LastFlight(1)
  BY <1>1, <1>17 DEF LastFlight, place, mode
<1> QED
  BY <1>3, <1>4, <1>5, <1>6, <1>7, <1>8, <1>9, <1>10, <1>11, <1>12, <1>13, <1>14, <1>15, <1>16,
     <1>17 DEF Next, Worker, Kernels

\* The scan of a flight stays inside it.
LEMMA ProgressStep ==
  ASSUME TypeOK, Control, Progress, [Next]_vars
  PROVE  Progress'
<1> USE DEF Progress, Scanning
<1>1. j \in Nat /\ tails \in Nat /\ cur \in Slots /\ \A s \in Slots : fl[s].n \in Nat
  BY FlightParts DEF TypeOK
<1>2. CASE Collect \/ Chain \/ FullScan
  BY <1>1, <1>2 DEF Collect, Chain, FullScan, BeginScan
<1>3. CASE Tail \/ ScanWindow \/ NeedHidden \/ TestHidden
  BY <1>1, <1>3 DEF Tail, ScanWindow, NeedHidden, TestHidden, scan
<1>4. CASE \/ Publish \/ RequestStop \/ UNCHANGED vars
  BY <1>4 DEF Publish, RequestStop, vars, scan
<1>5. ASSUME NEW s \in Slots, KernelEnds(s) PROVE Progress'
  BY <1>5 DEF KernelEnds, scan
<1>6. CASE CollectFails \/ FullScanFails \/ TailFails \/ ScanEnds
  BY <1>6, ResumeTypes DEF CollectFails, FullScanFails, TailFails, ScanEnds, GiveUpCollect, Return
<1>7. CASE \/ Snapshot \/ LeaveLoop \/ BeginNonce \/ NextNonce \/ BeginRow \/ AddWindow
           \/ AddFails \/ CpuWindow \/ SubmitFlight \/ ChainFails \/ DrainChain \/ DrainBatch
           \/ DrainNothing \/ LastFlight(0) \/ LastFlight(1)
  BY <1>7 DEF Snapshot, LeaveLoop, BeginNonce, NextNonce, BeginRow, AddWindow, AddFails,
     CpuWindow, SubmitFlight, ChainFails, DrainChain, DrainBatch, DrainNothing, LastFlight
<1> QED
  BY <1>2, <1>3, <1>4, <1>5, <1>6, <1>7 DEF Next, Worker, Kernels

\* A snapshot is of the work there is; it is left for a later one, or for good.
LEMMA SnappedStep ==
  ASSUME TypeOK, Control, Snapped, [Next]_vars
  PROVE  Snapped'
<1> USE DEF Snapped, At, Dealing, Scanning, InNonce
<1>1. gen \in Nat /\ snap \in Nat /\ ret \in {"mark", "row", "drain", "exit0", "exit1"}
  BY Settings DEF TypeOK
<1>2. CASE Publish
  BY <1>1, <1>2 DEF Publish, place, scan
<1>3. CASE RequestStop \/ UNCHANGED vars
  BY <1>1, <1>3 DEF RequestStop, vars, place, scan, work
<1>4. ASSUME NEW s \in Slots, KernelEnds(s) PROVE Snapped'
  BY <1>1, <1>4 DEF KernelEnds, place, scan, work
<1>5. CASE Snapshot
  BY <1>1, <1>5 DEF Snapshot, scan, work
<1>6. CASE DrainChain \/ DrainBatch \/ DrainNothing
  BY <1>1, <1>6 DEF DrainChain, DrainBatch, DrainNothing, Interrupted, place, scan, work
<1>7. CASE CollectFails \/ FullScanFails \/ TailFails \/ ScanEnds
  <2>1. UNCHANGED <<gen, stop, snap, ret>>
    BY <1>7 DEF CollectFails, FullScanFails, TailFails, ScanEnds, work, place, scan
  <2>2. pc' = Resume \/ (pc' = "cpu" /\ ret = "mark")
    BY <1>7 DEF CollectFails, FullScanFails, TailFails, ScanEnds, GiveUpCollect, Return
  <2>3. pc \in {"collect", "full", "scan"}
    BY <1>7 DEF CollectFails, FullScanFails, TailFails, ScanEnds
  <2> QED
    BY <1>1, <2>1, <2>2, <2>3, ResumeIs, ResumeTypes
<1>8. CASE LeaveLoop \/ BeginNonce \/ NextNonce \/ BeginRow \/ AddWindow \/ AddFails \/ CpuWindow
  BY <1>1, <1>8 DEF LeaveLoop, BeginNonce, NextNonce, BeginRow, AddWindow, AddFails, CpuWindow,
     place, scan, work
<1>9. CASE \/ SubmitFlight \/ Collect \/ Chain \/ ChainFails \/ FullScan \/ Tail \/ ScanWindow
           \/ NeedHidden \/ TestHidden \/ LastFlight(0) \/ LastFlight(1)
  BY <1>1, <1>9 DEF SubmitFlight, Collect, Chain, ChainFails, FullScan, BeginScan, Tail,
     ScanWindow, NeedHidden, TestHidden, LastFlight, place, scan, work, Control
<1> QED
  BY <1>2, <1>3, <1>4, <1>5, <1>6, <1>7, <1>8, <1>9 DEF Next, Worker, Kernels

-----------------------------------------------------------------------------
(* Whose turn it is                                                         *)

LEMMA FilledStep ==
  ASSUME TypeOK, Control, Snapped, Filled, Content, [Next]_vars
  PROVE  Filled'
<1> USE DEF Filled, At, Dealing, Scanning, Idle
<1>1. /\ Filling \in {0, 1} /\ Other(Filling) \in {0, 1} /\ Other(Filling) # Filling
      /\ Other(Other(Filling)) = Filling /\ W_in \in Nat /\ cur \in {0, 1}
      /\ Other(0) = 1 /\ Other(1) = 0 /\ Slots = {0, 1}
      /\ ret \in {"mark", "row", "drain", "exit0", "exit1"}
      /\ \A s \in Slots : fl[s].n \in Nat
  BY Turn, FlightParts DEF TypeOK, Slots, Other
<1>2. seq' = seq => UNCHANGED <<Filling, W_in>>
  BY DEF Filling, W_in
<1>3. CASE Publish \/ RequestStop \/ UNCHANGED vars
  BY <1>1, <1>2, <1>3 DEF Publish, RequestStop, vars, work, place, mode, scan
<1>4. ASSUME NEW s \in Slots, KernelEnds(s) PROVE Filled'
  BY <1>1, <1>2, <1>4 DEF KernelEnds, work, place, mode, scan
<1>5. CASE Snapshot \/ LeaveLoop \/ BeginNonce \/ NextNonce
  <2>1. UNCHANGED <<Filling, W_in, fused, fl, stop>>
    BY <1>2, <1>5 DEF Snapshot, LeaveLoop, BeginNonce, NextNonce, work, mode
  <2>2. CASE Snapshot
    <3>1. pc = "snap" /\ ~stop /\ pc' = "nonce"
      BY <2>2 DEF Snapshot
    <3>2. fused => W_in = 0 /\ Idle(Filling) /\ Idle(Other(Filling))
      BY <1>1, <3>1
    <3> QED
      BY <1>1, <2>1, <3>1, <3>2
  <2>3. CASE LeaveLoop
    BY <1>1, <2>1, <2>3 DEF LeaveLoop
  <2>4. CASE BeginNonce \/ NextNonce
    BY <1>1, <2>1, <2>4 DEF BeginNonce, NextNonce
  <2> QED
    BY <1>5, <2>2, <2>3, <2>4
<1>6. CASE BeginRow
  <2>1. pc = "row" /\ UNCHANGED <<Filling, W_in, snap, stop, fused, fl>>
    BY <1>2, <1>6 DEF BeginRow, work, place, mode
  <2>2. \/ pc' = "cpu" /\ UNCHANGED <<cur, ret>>
        \/ W_in = 0 /\ fl[Filling].active /\ pc' = "collect" /\ cur' = Filling /\ ret' = "mark"
        \/ ~(W_in = 0 /\ fl[Filling].active) /\ pc' = "mark"
    BY <1>6 DEF BeginRow
  <2> QED
    BY <1>1, <2>1, <2>2
<1>7. CASE AddWindow
  <2>1. PICK s \in Slots, i \in 0 .. K - 1 : s = Filling /\ i = W_in
    BY Turn
  <2>2. /\ fl'[s].n = i + 1 /\ ~fl'[s].active /\ fl'[s].gen = snap
        /\ fl'[Other(s)] = fl[Other(s)] /\ i \in Nat
    BY <1>1, <1>7, <2>1, Adding
  <2>3. pc = "mark" /\ UNCHANGED <<stop, snap, fused>>
    BY <1>7 DEF AddWindow, work, mode
  <2>4. CASE i = K - 1
    <3>1. W_in' = 0 /\ Filling' = Other(s)
      BY <1>7, <2>1, <2>4, NextTurn DEF AddWindow
    <3>2. ret' = "row" /\ cur' = s /\ pc' \in {"chain", "submit"}
      BY <1>7, <2>1, <2>4 DEF AddWindow
    <3> QED
      BY <1>1, <2>1, <2>2, <2>3, <3>1, <3>2
  <2>5. CASE i # K - 1
    <3>1. W_in' = i + 1 /\ Filling' = s
      BY <1>7, <2>1, <2>5, NextTurn DEF AddWindow
    <3>2. pc' = "row"
      BY <1>7, <2>1, <2>5 DEF AddWindow
    <3> QED
      BY <1>1, <2>1, <2>2, <2>3, <3>1, <3>2
  <2> QED
    BY <2>4, <2>5
<1>8. CASE AddFails
  BY <1>8 DEF AddFails
<1>9. CASE CpuWindow
  BY <1>1, <1>2, <1>9 DEF CpuWindow, work, mode, scan
<1>10. CASE SubmitFlight
  <2>1. pc = "submit" /\ ret = "row" /\ fused /\ pc' = "row" /\ seq' = seq
    BY <1>10 DEF SubmitFlight, Control
  <2>2. cur = Other(Filling) /\ W_in = 0 /\ (fl[Filling].active \/ fl[Filling].n = 0)
    BY <2>1
  <2>3. fl' = Emptied(cur) \/ fl' = [fl EXCEPT ![cur].active = TRUE]
    BY <1>10 DEF SubmitFlight
  <2>4. fl'[Filling] = fl[Filling] /\ (fl'[cur].active \/ fl'[cur].n = 0)
    BY <1>1, <2>2, <2>3, Activating, Emptying
  <2> QED
    BY <1>1, <1>2, <2>1, <2>2, <2>4
<1>11. CASE \/ Collect \/ Chain \/ ChainFails \/ FullScan \/ Tail \/ ScanWindow \/ NeedHidden
            \/ TestHidden
  <2>1. /\ UNCHANGED <<fused, fl, cur, ret, seq, stop>>
        /\ pc \in Dealing /\ pc' \in Dealing
    BY <1>11 DEF Collect, Chain, ChainFails, FullScan, BeginScan, Tail, ScanWindow, NeedHidden,
       TestHidden, work, place, mode, scan
  <2> QED
    BY <1>1, <1>2, <2>1
<1>12. CASE CollectFails \/ FullScanFails \/ TailFails
  <2>1. CASE ret = "exit0"
    <3>1. fl'[1] = fl[1]
      BY <1>1, <1>12, <2>1, Emptying
         DEF CollectFails, FullScanFails, TailFails, GiveUpCollect, Control
    <3>2. pc' = "exit1" /\ pc \in Dealing /\ fused' = fused
      BY <1>12, <2>1, ResumeIs, ResumeTypes
         DEF CollectFails, FullScanFails, TailFails, GiveUpCollect, Return, AtExit, TypeOK
    <3> QED
      BY <1>1, <2>1, <3>1, <3>2
  <2>2. CASE ret = "exit1"
    <3>1. pc' = "done"
      BY <1>12, <2>2, ResumeIs, ResumeTypes
         DEF CollectFails, FullScanFails, TailFails, GiveUpCollect, Return
    <3> QED
      BY <3>1
  <2>3. CASE ret \notin {"exit0", "exit1"}
    BY <1>1, <1>12, <2>3
       DEF CollectFails, FullScanFails, TailFails, GiveUpCollect, AtExit, MayNeedTail, Control
  <2> QED
    BY <2>1, <2>2, <2>3
<1>13. CASE ScanEnds
  <2>1. fl'[cur].n = 0 /\ ~fl'[cur].active /\ fl'[Other(cur)] = fl[Other(cur)]
    BY <1>1, <1>13, Emptying DEF ScanEnds
  <2>2. pc = "scan" /\ pc' = Resume /\ UNCHANGED <<seq, stop, snap, fused, cur, ret>>
    BY <1>13 DEF ScanEnds, Return, work, mode, scan
  <2>3. cur = 0 => Other(cur) = 1
    BY <1>1
  <2>4. cur = 1 => Other(cur) = 0
    BY <1>1
  <2>5. CASE ret \in {"mark", "row"}
    BY <1>1, <1>2, <2>1, <2>2, <2>3, <2>4, <2>5, ResumeIs, ResumeTypes
  <2>6. CASE ret = "drain"
    BY <1>1, <1>2, <2>1, <2>2, <2>3, <2>4, <2>6, ResumeIs, ResumeTypes
  <2>7. CASE ret \in {"exit0", "exit1"}
    BY <1>1, <1>2, <2>1, <2>2, <2>3, <2>4, <2>7, ResumeIs, ResumeTypes DEF Control
  <2> QED
    BY <1>1, <2>5, <2>6, <2>7
<1>14. CASE DrainChain
  <2>1. W_in' = 0 \/ stop
    BY <1>14, DrainTurn DEF DrainChain
  <2> QED
    BY <1>1, <1>14, <2>1 DEF DrainChain, Control, work, mode
<1>15. CASE DrainBatch
  <2>1. W_in' = 0 \/ stop
    BY <1>15, DrainTurn DEF DrainBatch
  <2>2. fl'[Other(Filling)] = fl[Other(Filling)] /\ (fl'[Filling].active \/ fl'[Filling].n = 0)
    BY <1>1, <1>15, Activating, Emptying DEF DrainBatch
  <2> QED
    BY <1>1, <1>15, <2>1, <2>2 DEF DrainBatch, work, mode
<1>16. CASE DrainNothing
  BY <1>16 DEF DrainNothing, mode
<1>17. CASE LastFlight(0) \/ LastFlight(1)
  BY <1>1, <1>2, <1>17 DEF LastFlight, work, mode
<1> QED
  BY <1>3, <1>4, <1>5, <1>6, <1>7, <1>8, <1>9, <1>10, <1>11, <1>12, <1>13, <1>14, <1>15, <1>16,
     <1>17 DEF Next, Worker, Kernels

-----------------------------------------------------------------------------
(* Candidates and results                                                   *)

\* In the loop over the rows nothing but its first step changes the nonce.
LEMMA NonceStays ==
  ASSUME TypeOK, Control, [Next]_vars, InNonce', ~BeginNonce
  PROVE  InNonce /\ UNCHANGED <<snap, nonce>>
<1> USE DEF InNonce, At, Dealing, Scanning
<1>1. CASE \/ Publish \/ RequestStop \/ UNCHANGED vars
  BY <1>1 DEF Publish, RequestStop, vars, place, scan
<1>2. ASSUME NEW s \in Slots, KernelEnds(s) PROVE InNonce /\ UNCHANGED <<snap, nonce>>
  BY <1>2 DEF KernelEnds, place, scan
<1>3. CASE CollectFails \/ FullScanFails \/ TailFails \/ ScanEnds
  BY <1>3, ResumeIs, ResumeTypes DEF CollectFails, FullScanFails, TailFails, ScanEnds,
     GiveUpCollect, Return, place, scan
<1>4. CASE \/ Snapshot \/ LeaveLoop \/ NextNonce \/ BeginRow \/ AddWindow
           \/ AddFails \/ CpuWindow \/ SubmitFlight
  BY <1>4 DEF Snapshot, LeaveLoop, NextNonce, BeginRow, AddWindow, AddFails,
     CpuWindow, SubmitFlight, Control, place, scan
<1>5. CASE \/ Collect \/ Chain \/ ChainFails \/ FullScan \/ Tail \/ ScanWindow \/ NeedHidden
           \/ TestHidden
  BY <1>5 DEF Collect, Chain, ChainFails, FullScan, BeginScan, Tail, ScanWindow, NeedHidden,
     TestHidden, place, scan
<1>6. CASE DrainChain \/ DrainBatch \/ DrainNothing \/ LastFlight(0) \/ LastFlight(1)
  BY <1>6 DEF DrainChain, DrainBatch, DrainNothing, LastFlight
<1> QED
  BY <1>1, <1>2, <1>3, <1>4, <1>5, <1>6 DEF Next, Worker, Kernels

LEMMA MarkedStep ==
  ASSUME TypeOK, Control, Marked, [Next]_vars
  PROVE  Marked'
<1>1. pend'.valid => pend'.parity # Parity'
  <2>1. seq' = seq => Parity' = Parity
    BY DEF Parity
  <2>2. CASE AddWindow
    BY <2>2, NextTurn DEF AddWindow, NoPend
  <2>3. CASE BeginRow \/ AddFails \/ DrainChain \/ DrainBatch \/ DrainNothing
    BY <2>1, <2>3 DEF BeginRow, AddFails, DrainChain, DrainBatch, DrainNothing, NoPend, Marked
  <2>4. CASE \/ Publish \/ RequestStop \/ Snapshot \/ LeaveLoop \/ BeginNonce \/ NextNonce
             \/ CpuWindow \/ SubmitFlight \/ Collect \/ CollectFails \/ Chain \/ ChainFails
             \/ FullScan \/ FullScanFails \/ Tail \/ TailFails \/ ScanWindow \/ NeedHidden
             \/ TestHidden \/ ScanEnds \/ LastFlight(0) \/ LastFlight(1) \/ UNCHANGED vars
    BY <2>1, <2>4 DEF Publish, RequestStop, Snapshot, LeaveLoop, BeginNonce, NextNonce,
       CpuWindow, SubmitFlight, Collect, CollectFails, Chain, ChainFails, FullScan,
       FullScanFails, Tail, TailFails, ScanWindow, NeedHidden, TestHidden, ScanEnds,
       LastFlight, vars, sieve, Marked
  <2>5. ASSUME NEW s \in Slots, KernelEnds(s) PROVE pend'.valid => pend'.parity # Parity'
    BY <2>1, <2>5 DEF KernelEnds, sieve, Marked
  <2> QED
    BY <2>2, <2>3, <2>4, <2>5 DEF Next, Worker, Kernels
<1>2. ASSUME (row_marked /\ InNonce /\ RowMode)', NEW r \in 1 .. Rows[nonce'] - 1
      PROVE  arena'[r] = [gen |-> snap', nonce |-> nonce', row |-> r]
  <2>1. ~BeginNonce /\ InNonce /\ UNCHANGED <<snap, nonce>>
    BY <1>2, NonceStays DEF BeginNonce
  <2>2. r \in RowIds /\ r \in Nat /\ r # 0 /\ RowMode /\ arena \in [RowIds -> Window]
    <3>1. nonce \in Nonces
      BY DEF TypeOK
    <3>2. r \in 0 .. Rows[nonce] /\ r \in Nat /\ r # 0
      BY <2>1, <3>1, Settings
    <3> QED
      BY <1>2, <2>1, <3>1, <3>2, Settings DEF RowMode, TypeOK
  <2>3. row_marked => arena[r] = [gen |-> snap, nonce |-> nonce, row |-> r]
    BY <2>1, <2>2 DEF Marked
  <2>4. CASE AddWindow
    <3>1. CASE row = 0
      <4>1. arena'[r] = [Win EXCEPT !.row = Win.row + r]
        BY <2>1, <2>2, <2>4, <3>1, AtHand DEF AddWindow, Arena, MarkedRows
      <4>2. Win.row + r = r
        BY <2>2, <3>1 DEF Win
      <4> QED
        BY <2>1, <4>1, <4>2 DEF Win
    <3>2. CASE row # 0
      <4>1. row > 0
        BY <3>2, AtHand
      <4> QED
        BY <2>1, <2>2, <2>3, <2>4, <3>2, <4>1 DEF AddWindow, Arena
    <3> QED
      BY <3>1, <3>2
  <2>5. CASE Tail \/ TailFails
    <3>1. row_marked' = row_marked /\ arena' = RemadeArena
      BY <2>5 DEF Tail, TailFails
    <3>2. RemadeArena[r] = arena[r]
      BY <2>2 DEF RemadeArena, MarkedRows
    <3> QED
      BY <1>2, <2>1, <2>3, <3>1, <3>2
  <2>6. CASE UNCHANGED <<row_marked, arena>>
    BY <1>2, <2>1, <2>3, <2>6
  <2>7. AddWindow \/ Tail \/ TailFails \/ UNCHANGED <<row_marked, arena>>
    <3>1. CASE \/ Publish \/ RequestStop \/ Snapshot \/ LeaveLoop \/ NextNonce \/ BeginRow
               \/ AddFails \/ CpuWindow \/ SubmitFlight \/ Collect \/ CollectFails \/ Chain
               \/ ChainFails \/ FullScan \/ FullScanFails \/ ScanWindow \/ NeedHidden
               \/ TestHidden \/ ScanEnds \/ DrainChain \/ DrainBatch \/ DrainNothing
               \/ LastFlight(0) \/ LastFlight(1) \/ UNCHANGED vars
      BY <3>1 DEF Publish, RequestStop, Snapshot, LeaveLoop, NextNonce, BeginRow, AddFails,
         CpuWindow, SubmitFlight, Collect, CollectFails, Chain, ChainFails, FullScan,
         FullScanFails, ScanWindow, NeedHidden, TestHidden, ScanEnds, DrainChain, DrainBatch,
         DrainNothing, LastFlight, vars, sieve
    <3>2. ASSUME NEW s \in Slots, KernelEnds(s) PROVE UNCHANGED <<row_marked, arena>>
      BY <3>2 DEF KernelEnds, sieve
    <3> QED
      BY <2>1, <3>1, <3>2 DEF Next, Worker, Kernels
  <2> QED
    BY <2>4, <2>5, <2>6, <2>7
<1> QED
  BY <1>1, <1>2 DEF Marked


\* What a step does to the flights and their candidates.
LEMMA FlightMoves ==
  ASSUME TypeOK, [Next]_vars
  PROVE  \/ AddWindow
         \/ Tail
         \/ /\ cands' = cands
            /\ \E s \in Slots : fl' = Emptied(s) \/ fl' = [fl EXCEPT ![s].active = TRUE]
         \/ UNCHANGED <<cands, fl>>
<1>0. cur \in Slots /\ Filling \in Slots
  BY Turn DEF TypeOK
<1>1. CASE \/ SubmitFlight \/ CollectFails \/ FullScanFails \/ TailFails \/ ScanEnds \/ DrainBatch
  BY <1>0, <1>1 DEF SubmitFlight, CollectFails, FullScanFails, TailFails, ScanEnds, DrainBatch,
     GiveUpCollect
<1>2. CASE \/ Publish \/ RequestStop \/ Snapshot \/ LeaveLoop \/ BeginNonce \/ NextNonce
           \/ BeginRow \/ AddFails \/ CpuWindow \/ Collect \/ Chain \/ ChainFails \/ FullScan
           \/ ScanWindow \/ NeedHidden \/ TestHidden \/ DrainChain \/ DrainNothing
           \/ LastFlight(0) \/ LastFlight(1) \/ UNCHANGED vars
  BY <1>2 DEF Publish, RequestStop, Snapshot, LeaveLoop, BeginNonce, NextNonce, BeginRow,
     AddFails, CpuWindow, Collect, Chain, ChainFails, FullScan, ScanWindow, NeedHidden,
     TestHidden, DrainChain, DrainNothing, LastFlight, vars
<1>3. ASSUME NEW s \in Slots, KernelEnds(s) PROVE UNCHANGED <<cands, fl>>
  BY <1>3 DEF KernelEnds
<1> QED
  BY <1>1, <1>2, <1>3 DEF Next, Worker, Kernels

\* A flight whose windows stay has the same counts.
LEMMA CumStays ==
  ASSUME NEW s, fl'[s].wins = fl[s].wins
  PROVE  \A x : Cum(s, x)' = Cum(s, x)
BY CumIs

\* How a flight is shown to match its candidates after a step.
LEMMA MatchesNext ==
  ASSUME NEW s, NEW n, fl'[s].n = n, fl'[s].total = Cum(s, n)',
         \A x \in 0 .. n - 1 :
            /\ fl'[s].wins[x].w.gen = fl'[s].gen
            /\ fl'[s].wins[x].count = 1 => cands'[s][Cum(s, x)'] = Own(fl'[s].wins[x].w)
  PROVE  Matches(s)'
BY DEF Matches, Cum

LEMMA ContentStep ==
  ASSUME TypeOK, Control, Filled, Content, Marked, [Next]_vars
  PROVE  Content'
<1>0. K \in Nat /\ cur \in Slots /\ cands \in [Slots -> [Cells -> Cell]]
  BY Settings DEF TypeOK
<1> SUFFICES ASSUME NEW t \in Slots PROVE Matches(t)'
  BY DEF Content
<1>1. /\ fl[t].n \in Nat /\ fl[t].total = Cum(t, fl[t].n)
      /\ \A x \in 0 .. fl[t].n - 1 :
           /\ x \in Nat /\ fl[t].wins[x].w.gen = fl[t].gen
           /\ fl[t].wins[x].count = 1 => cands[t][Cum(t, x)] = Own(fl[t].wins[x].w)
  BY FlightParts DEF Content, Matches
<1>2. CASE fl'[t].n = fl[t].n /\ fl'[t].wins = fl[t].wins /\ fl'[t].total = fl[t].total
           /\ fl'[t].gen = fl[t].gen /\ cands'[t] = cands[t]
  <2>1. PICK n \in Nat : n = fl[t].n
    BY <1>1
  <2>2. \A x : Cum(t, x)' = Cum(t, x)
    BY <1>2, CumStays
  <2>3. fl'[t].n = n /\ fl'[t].total = Cum(t, n)'
    BY <1>1, <1>2, <2>1, <2>2
  <2>4. \A x \in 0 .. n - 1 :
          /\ fl'[t].wins[x].w.gen = fl'[t].gen
          /\ fl'[t].wins[x].count = 1 => cands'[t][Cum(t, x)'] = Own(fl'[t].wins[x].w)
    BY <1>1, <1>2, <2>1, <2>2
  <2> QED
    BY <2>3, <2>4, MatchesNext
<1>3. CASE AddWindow
  <2>1. PICK s \in Slots, i \in 0 .. K - 1 : s = Filling /\ i = W_in
    BY Turn
  <2>2. CASE t # s
    <3>1. fl'[t] = fl[t]
      <4>1. \A u \in Slots : u # s => fl'[u] = fl[u]
        BY <1>3, <2>1, AddingOthers
      <4> QED
        BY <2>2, <4>1
    <3>2. cands'[t] = cands[t]
      BY <1>3, <2>1, <2>2, AddingKeeps
    <3> QED
      BY <1>2, <3>1, <3>2
  <2>3. CASE t = s
    <3>1. /\ i \in Nat /\ i > 0 => fl[s].n = i /\ fl[s].gen = snap
          /\ fl'[s].n = i + 1 /\ fl'[s].gen = snap
          /\ fl'[s].total = Cum(s, i) + Candidates /\ Candidates \in {0, 1}
      BY <1>3, <2>1, Adding
    <3>2. /\ \A x \in 0 .. i - 1 : fl'[s].wins[x] = fl[s].wins[x] /\ Cum(s, x)' = Cum(s, x)
          /\ fl'[s].wins[i] = [w |-> Win, count |-> Candidates] /\ Cum(s, i)' = Cum(s, i)
          /\ Cum(s, i) \in Cells
          /\ Cum(s, i + 1)' = Cum(s, i) + Candidates
          /\ \A c \in Cells : c # Cum(s, i) => cands'[s][c] = cands[s][c]
          /\ cands'[s][Cum(s, i)] =
               IF Candidates = 1 THEN Packed(Win, Marks) ELSE cands[s][Cum(s, i)]
      BY <1>3, <2>1, AddingKeeps
    <3>3. PICK n \in Nat : n = i + 1
      BY <3>1
    <3>6. fl'[s].n = n /\ fl'[s].total = Cum(s, n)'
      BY <3>1, <3>2, <3>3
    <3>4. ASSUME NEW x \in 0 .. i - 1
          PROVE  /\ fl'[s].wins[x].w.gen = snap
                 /\ fl'[s].wins[x].count = 1 => cands'[s][Cum(s, x)'] = Own(fl'[s].wins[x].w)
      <4>1. i > 0 /\ x \in 0 .. fl[s].n - 1 /\ x \in Nat
        BY <3>1
      <4>2. fl'[s].wins[x].w.gen = snap
        BY <1>1, <2>3, <3>1, <3>2, <4>1
      <4>3. ASSUME fl[s].wins[x].count = 1 PROVE cands'[s][Cum(s, x)] = cands[s][Cum(s, x)]
        <5>1. Cum(s, x) < Cum(s, i)
          <6>1. CumOf(fl[s].wins, x) < CumOf(fl[s].wins, i)
            BY <3>1, <4>3, CumOrder
          <6> QED
            BY <6>1, CumIs
        <5>2. Cum(s, x) \in Nat
          BY <4>1, CumFacts
        <5>3. Cum(s, x) \in Cells /\ Cum(s, x) # Cum(s, i)
          BY <1>0, <3>2, <5>1, <5>2 DEF Cells
        <5> QED
          BY <3>2, <5>3
      <4> QED
        BY <1>1, <2>3, <3>2, <4>1, <4>2, <4>3
    <3>5. /\ fl'[s].wins[i].w.gen = snap
          /\ fl'[s].wins[i].count = 1 => cands'[s][Cum(s, i)'] = Own(fl'[s].wins[i].w)
      BY <1>3, <3>2, AtHand, MarksAreOwn
    <3>7. \A x \in 0 .. n - 1 :
            /\ fl'[s].wins[x].w.gen = fl'[s].gen
            /\ fl'[s].wins[x].count = 1 => cands'[s][Cum(s, x)'] = Own(fl'[s].wins[x].w)
      <4> TAKE x \in 0 .. n - 1
      <4>1. x \in 0 .. i - 1 \/ x = i
        BY <3>1, <3>3
      <4> QED
        BY <3>1, <3>4, <3>5, <4>1
    <3> QED
      BY <2>3, <3>6, <3>7, MatchesNext
  <2> QED
    BY <2>2, <2>3
<1>4. CASE Tail
  <2>1. fl' = fl
    BY <1>4 DEF Tail
  <2>2. CASE t # cur
    BY <1>0, <1>2, <1>4, <2>1, <2>2 DEF Tail
  <2>3. CASE t = cur
    <3>1. ASSUME NEW x \in 0 .. fl[t].n - 1, fl[t].wins[x].count = 1
          PROVE  cands'[t][Cum(t, x)] = cands[t][Cum(t, x)]
      <4>1. Cum(t, x) < fl[t].total
        <5>1. CumOf(fl[t].wins, x) < CumOf(fl[t].wins, fl[t].n)
          BY <1>1, <3>1, CumOrder
        <5> QED
          BY <1>1, <5>1, CumIs
      <4>2. fl[t].total \in Nat /\ tails \in Nat /\ Cum(t, x) \in Nat
        BY <1>0, <1>1, FlightParts, CumFacts DEF TypeOK
      <4>3. Cum(t, x) # fl[t].total + tails
        BY <4>1, <4>2
      <4> QED
        BY <1>0, <1>4, <2>3, <4>3 DEF Tail
    <3>2. PICK n \in Nat : n = fl[t].n
      BY <1>1
    <3>3. \A x : Cum(t, x)' = Cum(t, x)
      BY <2>1, CumStays
    <3>4. fl'[t].n = n /\ fl'[t].total = Cum(t, n)'
      BY <1>1, <2>1, <3>2, <3>3
    <3>5. \A x \in 0 .. n - 1 :
            /\ fl'[t].wins[x].w.gen = fl'[t].gen
            /\ fl'[t].wins[x].count = 1 => cands'[t][Cum(t, x)'] = Own(fl'[t].wins[x].w)
      BY <1>1, <2>1, <3>1, <3>2, <3>3
    <3> QED
      BY <3>4, <3>5, MatchesNext
  <2> QED
    BY <2>2, <2>3
<1>5. CASE cands' = cands /\ \E s \in Slots : fl' = Emptied(s) \/ fl' = [fl EXCEPT ![s].active = TRUE]
  <2>1. PICK s \in Slots : fl' = Emptied(s) \/ fl' = [fl EXCEPT ![s].active = TRUE]
    BY <1>5
  <2>2. CASE fl' = Emptied(s) /\ t = s
    <3>1. fl'[t].n = 0 /\ fl'[t].total = 0
      BY <2>2, Emptying
    <3>2. Cum(t, 0)' = 0
      BY CumIs, CumCounts
    <3>3. PICK n : n = 0
      OBVIOUS
    <3>4. fl'[t].n = n /\ fl'[t].total = Cum(t, n)' /\ 0 .. n - 1 = {}
      BY <3>1, <3>2, <3>3
    <3> QED
      BY <3>4, MatchesNext
  <2>3. CASE fl' = Emptied(s) /\ t # s
    BY <1>2, <1>5, <2>3, Emptying
  <2>4. CASE fl' = [fl EXCEPT ![s].active = TRUE]
    BY <1>2, <1>5, <2>4, Activating
  <2> QED
    BY <2>1, <2>2, <2>3, <2>4
<1>6. CASE UNCHANGED <<cands, fl>>
  BY <1>2, <1>6
<1> QED
  BY <1>3, <1>4, <1>5, <1>6, FlightMoves


LEMMA SubmittalStep ==
  ASSUME TypeOK, Control, Filled, Content, Submittal, [Next]_vars
  PROVE  Submittal'
<1>0. /\ cur \in Slots /\ Filling \in Slots /\ 0 \in Slots /\ fl \in [Slots -> Flight]
      /\ slots \in [Slots -> [busy : BOOLEAN, running : BOOLEAN, count : 0 .. K]]
      /\ \A s \in Slots : fl[s].total \in 0 .. K /\ fl[s].total \in Nat
      /\ \A s \in Slots : \A c \in 0 .. fl[s].total - 1 : c \in Cells
      /\ K \in Nat
  <2>1. cur \in Slots /\ Filling \in Slots /\ 0 \in Slots /\ K \in Nat /\ TypeOK
    BY Turn, Settings DEF TypeOK, Slots
  <2>2. \A s \in Slots : fl[s].total \in 0 .. K /\ fl[s].total \in Nat
    BY <2>1, FlightParts
  <2>3. \A s \in Slots : \A c \in 0 .. fl[s].total - 1 : c \in Cells
    BY <2>1, <2>2 DEF Cells
  <2> QED
    BY <2>1, <2>2, <2>3 DEF TypeOK
<1> USE DEF Scanning
<1>1. CASE \/ Publish \/ RequestStop \/ Snapshot \/ LeaveLoop \/ BeginNonce \/ NextNonce
           \/ BeginRow \/ AddFails \/ NeedHidden \/ ScanWindow \/ DrainChain \/ DrainNothing
           \/ LastFlight(0) \/ LastFlight(1) \/ UNCHANGED vars
  <2>1. /\ UNCHANGED <<fl, slots, is_prime, cands>>
        /\ pc \in Scanning => cur' = cur /\ pc' \in Scanning
        /\ pc' = "collect" => fl'[cur'].active
    BY <1>1 DEF Publish, RequestStop, Snapshot, LeaveLoop, BeginNonce, NextNonce, BeginRow,
       AddFails, NeedHidden, ScanWindow, DrainChain, DrainNothing, LastFlight, vars, scan,
       Submittal
  <2> QED
    BY <2>1 DEF Submittal
<1>2. ASSUME NEW s \in Slots, KernelEnds(s) PROVE Submittal'
  <2>1. /\ UNCHANGED <<pc, fl, cands, cur>> /\ slots[s].busy /\ slots[s].running
        /\ slots' = [slots EXCEPT ![s].running = FALSE]
        /\ is_prime' = Tested(s, slots[s].count)
    BY <1>2 DEF KernelEnds, scan
  <2>2. pc' = "collect" => fl'[cur'].active
    BY <2>1 DEF Submittal
  <2>3. ASSUME NEW t \in Slots, fl[t].active, fl[t].total > 0, ~(cur = t /\ pc \in Scanning)
        PROVE  /\ slots'[t].busy /\ slots'[t].count = fl[t].total
               /\ ~slots'[t].running =>
                    \A c \in 0 .. fl[t].total - 1 : is_prime'[t][c] = cands[t][c]
    <3>1. CASE t = s
      <4>1. slots[t].count = fl[t].total
        BY <2>3 DEF Submittal
      <4>2. \A c \in 0 .. fl[t].total - 1 : is_prime'[t][c] = cands[t][c]
        BY <1>0, <2>1, <3>1, <4>1 DEF Tested, TypeOK
      <4> QED
        BY <1>0, <2>1, <3>1, <4>1, <4>2
    <3>2. CASE t # s
      BY <1>0, <2>1, <2>3, <3>2 DEF Tested, TypeOK, Submittal
    <3> QED
      BY <3>1, <3>2
  <2> QED
    BY <2>1, <2>2, <2>3 DEF Submittal
<1>3. CASE AddWindow
  <2>1. pc = "mark" /\ pc' \in {"chain", "submit", "row"} /\ UNCHANGED <<slots, is_prime>>
    BY <1>3 DEF AddWindow
  <2>2. PICK s \in Slots : s = Filling
    BY <1>0
  <2>3. ~fl'[s].active /\ \A u \in Slots : u # s => fl'[u] = fl[u]
    BY <1>3, <2>2, AddingOthers
  <2>4. \A u \in Slots : u # s => cands'[u] = cands[u]
    BY <1>3, <2>2, AddingOthers
  <2> QED
    BY <2>1, <2>3, <2>4 DEF Submittal
<1>4. CASE CpuWindow
  <2>1. /\ pc = "cpu" /\ pc' = "row" /\ UNCHANGED <<fl, cands, is_prime>>
        /\ slots' = slots \/ (~slots[0].busy /\ slots' = LeftBusy(0))
    BY <1>4 DEF CpuWindow, Free
  <2>2. CASE slots' = slots
    BY <2>1, <2>2 DEF Submittal
  <2>3. CASE ~slots[0].busy /\ slots' = LeftBusy(0)
    <3>1. \A t \in Slots : t # 0 => slots'[t] = slots[t]
      BY <1>0, <2>3 DEF LeftBusy
    <3>2. ~(fl[0].active /\ fl[0].total > 0)
      BY <1>0, <2>1, <2>3 DEF Submittal
    <3> QED
      BY <2>1, <3>1, <3>2 DEF Submittal
  <2> QED
    BY <2>1, <2>2, <2>3
<1>5. CASE SubmitFlight
  <2>1. pc = "submit" /\ pc' = "row" /\ ~config.chain /\ UNCHANGED <<cands, is_prime, cur>>
    BY <1>5 DEF SubmitFlight, Control, At, Dealing, scan
  <2>2. \/ fl[cur].total = 0 /\ slots' = slots /\ fl' = [fl EXCEPT ![cur].active = TRUE]
        \/ slots' = Submitted(cur, fl[cur].total) /\ fl' = [fl EXCEPT ![cur].active = TRUE]
        \/ slots' = slots /\ fl' = Emptied(cur)
    BY <1>5 DEF SubmitFlight
  <2>3. AtMost(fl[cur].total) = fl[cur].total
    BY <1>0, <2>1, SlotTypes
  <2>4. \A t \in Slots : t # cur => fl'[t] = fl[t] /\ slots'[t] = slots[t]
    BY <1>0, <2>2 DEF Submitted, Emptied
  <2>5. fl'[cur].active => fl'[cur].total = 0 \/ (slots'[cur].busy /\ slots'[cur].running
                                                  /\ slots'[cur].count = fl'[cur].total)
    <3>1. CASE fl' = [fl EXCEPT ![cur].active = TRUE]
      BY <1>0, <2>2, <2>3, <3>1, Activating, Emptying DEF Submitted
    <3>2. CASE fl' = Emptied(cur)
      BY <1>0, <3>2, Emptying
    <3> QED
      BY <2>2, <3>1, <3>2
  <2> QED
    BY <1>0, <2>1, <2>4, <2>5 DEF Submittal
<1>6. CASE Collect
  <2>1. /\ UNCHANGED <<fl, cands, is_prime, cur>> /\ pc = "collect" /\ pc' = "scan"
        /\ \A t \in Slots : t # cur => slots'[t] = slots[t]
    BY <1>0, <1>6 DEF Collect, BeginScan
  <2> QED
    BY <2>1 DEF Submittal
<1>7. CASE CollectFails \/ TailFails \/ ScanEnds
  <2>1. /\ fl' = Emptied(cur) /\ pc' \notin Scanning \cup {"collect"}
        /\ UNCHANGED <<cands, is_prime, cur>>
        /\ slots' \in {slots, LeftBusy(cur)}
    BY <1>7, ResumeTypes DEF CollectFails, TailFails, ScanEnds, GiveUpCollect, Return, scan
  <2>2. \A t \in Slots : t # cur => slots'[t] = slots[t] /\ fl'[t] = fl[t]
    BY <1>0, <2>1, Emptying DEF LeftBusy
  <2>3. ~fl'[cur].active
    BY <1>0, <2>1, Emptying
  <2> QED
    BY <2>1, <2>2, <2>3 DEF Submittal
<1>8. CASE Chain \/ ChainFails \/ FullScan \/ FullScanFails
  <2>1. pc \in {"chain", "full"} /\ pc' # "collect" /\ (fl' = fl \/ fl' = Emptied(cur))
    BY <1>8, ResumeTypes DEF Chain, ChainFails, FullScan, FullScanFails, BeginScan, Return
  <2>2. \A t \in Slots : ~fl[t].active
    BY <2>1 DEF Control
  <2>3. \A t \in Slots : ~fl'[t].active
    BY <1>0, <2>1, <2>2, Emptying
  <2> QED
    BY <2>1, <2>3 DEF Submittal
<1>9. CASE Tail \/ TestHidden
  <2>1. /\ UNCHANGED <<fl, is_prime, cur>> /\ pc \in Scanning /\ pc' \in Scanning
        /\ \A t \in Slots : t # cur => slots'[t] = slots[t] /\ cands'[t] = cands[t]
    BY <1>0, <1>9 DEF Tail, TestHidden, LeftBusy, TypeOK
  <2> QED
    BY <2>1 DEF Submittal
<1>10. CASE DrainBatch
  <2>1. pc = "nonce" /\ pc' = "snap" /\ ~config.chain /\ UNCHANGED <<cands, is_prime>>
    BY <1>10 DEF DrainBatch, Control
  <2>2. \/ slots' = Submitted(Filling, fl[Filling].total) /\ fl' = [fl EXCEPT ![Filling].active = TRUE]
        \/ slots' = slots /\ (fl' = Emptied(Filling) \/ fl' = fl)
    BY <1>10 DEF DrainBatch
  <2>3. CASE slots' = slots /\ (fl' = Emptied(Filling) \/ fl' = fl)
    <3>1. \A t \in Slots : fl'[t] = fl[t] \/ ~fl'[t].active
      BY <1>0, <2>3, Emptying
    <3> QED
      BY <2>1, <2>3, <3>1 DEF Submittal
  <2>4. CASE slots' = Submitted(Filling, fl[Filling].total)
             /\ fl' = [fl EXCEPT ![Filling].active = TRUE]
    <3>1. AtMost(fl[Filling].total) = fl[Filling].total
      BY <1>0, <2>1, SlotTypes
    <3>2. \A t \in Slots : t # Filling => fl'[t] = fl[t] /\ slots'[t] = slots[t]
      BY <1>0, <2>4 DEF Submitted
    <3>3. slots'[Filling].busy /\ slots'[Filling].running
          /\ slots'[Filling].count = fl'[Filling].total
      BY <1>0, <2>4, <3>1, Activating DEF Submitted
    <3> QED
      BY <1>0, <2>1, <3>2, <3>3 DEF Submittal
  <2> QED
    BY <2>2, <2>3, <2>4
<1> QED
  BY <1>1, <1>2, <1>3, <1>4, <1>5, <1>6, <1>7, <1>8, <1>9, <1>10 DEF Next, Worker, Kernels


\* What is scanned was tested from the flight's own buffer, or not at all.
LEMMA ResultsStep ==
  ASSUME TypeOK, Control, Content, Submittal, Results, [Next]_vars
  PROVE  Results'
<1> USE DEF Scanning
<1>0. /\ cur \in Slots /\ is_prime \in [Slots -> [Cells -> Cell]] /\ fl[cur].total \in Nat
      /\ cands \in [Slots -> [Cells -> Cell]] /\ fl[cur].total \in 0 .. K
      /\ \A c \in 0 .. fl[cur].total - 1 : c \in Cells
  <2>1. cur \in Slots /\ K \in Nat
    BY Settings DEF TypeOK
  <2>2. fl[cur].total \in 0 .. K /\ fl[cur].total \in Nat
    BY <2>1, FlightParts
  <2>3. \A c \in 0 .. fl[cur].total - 1 : c \in Cells
    BY <2>1, <2>2 DEF Cells
  <2> QED
    BY <2>1, <2>2, <2>3 DEF TypeOK
<1>1. CASE pc' \notin Scanning \cup {"full"}
  BY <1>1 DEF Results
<1>2. CASE Collect
  <2>1. fl[cur].active /\ UNCHANGED <<fl, cands, is_prime, cur>>
    BY <1>2 DEF Collect, Submittal, BeginScan
  <2>2. fl[cur].total > 0 =>
          \A c \in 0 .. fl[cur].total - 1 : is_prime[cur][c] = cands[cur][c]
    <3>1. pc = "collect" /\ (fl[cur].total > 0 /\ slots[cur].busy => ~slots[cur].running)
      BY <1>2 DEF Collect
    <3> QED
      BY <1>0, <2>1, <3>1 DEF Submittal
  <2> QED
    BY <1>0, <2>1, <2>2 DEF Results
<1>3. CASE Chain
  <2>1. is_prime' = Tested(cur, fl[cur].total) /\ UNCHANGED <<fl, cands, cur>>
    BY <1>3 DEF Chain, BeginScan
  <2> QED
    BY <1>0, <2>1 DEF Results, Tested
<1>4. CASE ChainFails
  <2>1. is_prime' = [is_prime EXCEPT ![cur] = [c \in Cells |-> NoCell]]
        /\ UNCHANGED <<fl, cands, cur>>
    BY <1>4 DEF ChainFails, scan
  <2> QED
    BY <1>0, <2>1 DEF Results
<1>5. CASE FullScan
  <2>1. is_prime' = Tested(cur, AtMost(fl[cur].total)) /\ UNCHANGED <<fl, cands, cur>>
        /\ pc = "full"
    BY <1>5 DEF FullScan, BeginScan
  <2> QED
    BY <1>0, <2>1 DEF Results, Tested
<1>6. ASSUME NEW s \in Slots, KernelEnds(s), pc' \in Scanning \cup {"full"} PROVE Results'
  <2>1. is_prime' = Tested(s, slots[s].count) /\ UNCHANGED <<pc, fl, cands, cur>>
    BY <1>6 DEF KernelEnds, scan
  <2> QED
    BY <1>0, <1>6, <2>1 DEF Results, Tested
<1>7. CASE Tail
  <2>1. /\ UNCHANGED <<fl, is_prime, cur>> /\ pc \in Scanning
        /\ cands' = [cands EXCEPT ![cur][fl[cur].total + tails] = Packed(Scanned.w, Scanned.w)]
    BY <1>7 DEF Tail
  <2>2. tails \in Nat
    BY DEF TypeOK
  <2>3. \A c \in 0 .. fl[cur].total - 1 : cands'[cur][c] = cands[cur][c]
    BY <1>0, <2>1, <2>2
  <2> QED
    BY <2>1, <2>3 DEF Results
<1>8. CASE \/ Publish \/ RequestStop \/ ScanWindow \/ NeedHidden \/ TestHidden \/ UNCHANGED vars
  <2>1. UNCHANGED <<fl, is_prime, cur, cands>> /\ (pc' = pc \/ pc \in Scanning)
    BY <1>8 DEF Publish, RequestStop, ScanWindow, NeedHidden, TestHidden, vars, scan
  <2> QED
    BY <2>1 DEF Results
<1>9. CASE pc' \in Scanning \cup {"full"}
  <2>1. ~ \/ Snapshot \/ LeaveLoop \/ BeginNonce \/ NextNonce \/ BeginRow \/ AddWindow
          \/ AddFails \/ CpuWindow \/ SubmitFlight \/ DrainChain \/ DrainBatch \/ DrainNothing
          \/ LastFlight(0) \/ LastFlight(1)
    BY <1>9 DEF Snapshot, LeaveLoop, BeginNonce, NextNonce, BeginRow, AddWindow, AddFails,
       CpuWindow, SubmitFlight, DrainChain, DrainBatch, DrainNothing, LastFlight
  <2>2. ~(CollectFails \/ FullScanFails \/ TailFails \/ ScanEnds)
    BY <1>9, ResumeTypes DEF CollectFails, FullScanFails, TailFails, ScanEnds, GiveUpCollect,
       Return
  <2> QED
    BY <1>2, <1>3, <1>4, <1>5, <1>6, <1>7, <1>8, <1>9, <2>1, <2>2 DEF Next, Worker, Kernels
<1> QED
  BY <1>1, <1>9

-----------------------------------------------------------------------------
(* What a window is searched with                                           *)

\* The steps that search a window: on the CPU, or as the next of a flight.
LEMMA Searches ==
  ASSUME TypeOK, Progress, [Next]_vars
  PROVE  \/ UNCHANGED <<scans, again>>
         \/ CpuWindow /\ Searched(Win, snap, TRUE)
         \/ /\ ScanWindow \/ TestHidden
            /\ pc \in Scanning /\ j < fl[cur].n /\ Scanned.count = 1 /\ Head # NoCell
            /\ Searched(Scanned.w, fl[cur].gen, Head = Own(Scanned.w))
<1>1. CASE ScanWindow \/ TestHidden
  <2>1. pc \in Scanning /\ j < fl[cur].n /\ Record
    BY <1>1 DEF ScanWindow, TestHidden, Progress, Scanning
  <2>2. Scanned.count \in {0, 1}
    BY <2>1, ScannedWindow
  <2> QED
    BY <1>1, <2>1, <2>2 DEF Record
<1>2. CASE CpuWindow
  BY <1>2 DEF CpuWindow
<1>3. CASE \/ Publish \/ RequestStop \/ Snapshot \/ LeaveLoop \/ BeginNonce \/ NextNonce
           \/ BeginRow \/ AddWindow \/ AddFails \/ SubmitFlight \/ Collect \/ CollectFails
           \/ Chain \/ ChainFails \/ FullScan \/ FullScanFails \/ Tail \/ TailFails
           \/ NeedHidden \/ ScanEnds \/ DrainChain \/ DrainBatch \/ DrainNothing
           \/ LastFlight(0) \/ LastFlight(1) \/ UNCHANGED vars
  BY <1>3 DEF Publish, RequestStop, Snapshot, LeaveLoop, BeginNonce, NextNonce, BeginRow,
     AddWindow, AddFails, SubmitFlight, Collect, CollectFails, Chain, ChainFails, FullScan,
     FullScanFails, Tail, TailFails, NeedHidden, ScanEnds, DrainChain, DrainBatch,
     DrainNothing, LastFlight, vars, hist
<1>4. ASSUME NEW s \in Slots, KernelEnds(s) PROVE UNCHANGED <<scans, again>>
  BY <1>4 DEF KernelEnds, hist
<1> QED
  BY <1>1, <1>2, <1>3, <1>4 DEF Next, Worker, Kernels

\* The result at the place of the window being scanned is its own, if there is one.
LEMMA HeadIsOwn ==
  ASSUME TypeOK, Content, Results, pc \in Scanning, j < fl[cur].n, Scanned.count = 1,
         Head # NoCell
  PROVE  Head = Own(Scanned.w) /\ Scanned.w.gen = fl[cur].gen
<1>1. cur \in Slots /\ j \in 0 .. fl[cur].n - 1 /\ j \in Nat /\ Scanned = fl[cur].wins[j]
  BY ScannedWindow
<1>2. /\ fl[cur].total = Cum(cur, fl[cur].n) /\ Scanned.w.gen = fl[cur].gen
      /\ cands[cur][Cum(cur, j)] = Own(Scanned.w)
  BY <1>1 DEF Content, Matches
<1>3. Cum(cur, j) \in 0 .. fl[cur].total - 1
  <2>1. fl[cur].n \in Nat
    BY <1>1, FlightParts
  <2>2. CumOf(fl[cur].wins, j) < CumOf(fl[cur].wins, fl[cur].n)
    BY <1>1, <2>1, CumOrder
  <2>3. Cum(cur, j) \in Nat /\ Cum(cur, fl[cur].n) \in Nat
    BY <1>1, <2>1, CumFacts
  <2> QED
    BY <1>2, <2>2, <2>3, CumIs
<1>4. is_prime[cur][Cum(cur, j)] \in {NoCell, cands[cur][Cum(cur, j)]}
  BY <1>3 DEF Results
<1> QED
  BY <1>2, <1>4 DEF Head

LEMMA OwnStep ==
  ASSUME TypeOK, Progress, Content, Results, OwnResults, UnderItsWork, [Next]_vars
  PROVE  OwnResults' /\ UnderItsWork'
<1>1. CASE UNCHANGED <<scans, again>>
  BY <1>1 DEF OwnResults, UnderItsWork
<1>2. CASE CpuWindow /\ Searched(Win, snap, TRUE)
  BY <1>2, AtHand DEF Searched, OwnResults, UnderItsWork
<1>3. CASE /\ pc \in Scanning /\ j < fl[cur].n /\ Scanned.count = 1 /\ Head # NoCell
           /\ Searched(Scanned.w, fl[cur].gen, Head = Own(Scanned.w))
  <2>1. Head = Own(Scanned.w) /\ Scanned.w.gen = fl[cur].gen
    BY <1>3, HeadIsOwn
  <2>2. scans' = scans \cup {[w |-> Scanned.w, gen |-> fl[cur].gen, own |-> TRUE]}
    BY <1>3, <2>1, Zenon DEF Searched
  <2> QED
    BY <2>1, <2>2 DEF OwnResults, UnderItsWork
<1> QED
  BY <1>1, <1>2, <1>3, Searches


-----------------------------------------------------------------------------
(* Every window is searched once                                            *)

\* What a flight's windows are.
LEMMA FlightWindowsAre ==
  ASSUME TypeOK, NEW s \in Slots
  PROVE  /\ FlightWindows(s) \subseteq Window /\ FlightWindows(s) \subseteq Known
         /\ \A x \in 0 .. fl[s].n - 1 : fl[s].wins[x].w \in FlightWindows(s)
BY FlightParts DEF FlightWindows, Known, Slots

LEMMA KnownAre == TypeOK => Known \subseteq Window
BY FlightWindowsAre DEF TypeOK, Known, ScannedWindows, Slots

\* Inside a nonce the next row changes with the window at hand only.
LEMMA RowsGoOn ==
  ASSUME TypeOK, Control, [Next]_vars, InNonce', ~BeginNonce
  PROVE  /\ NextRow \in Nat
         /\ IF AddWindow \/ CpuWindow THEN NextRow = row /\ NextRow' = row + 1
            ELSE NextRow' = NextRow
<1>0. /\ row \in Nat /\ ret \in {"mark", "row", "drain", "exit0", "exit1"}
      /\ pc' # "nonce" /\ pc # "nonce"
  <2>1. InNonce /\ row \in Nat
    BY NonceStays, AtHand
  <2> QED
    BY <2>1 DEF InNonce, TypeOK, At, Dealing, Scanning
<1>1. NextRow \in Nat
  BY <1>0 DEF NextRow
<1>2. CASE AddWindow \/ CpuWindow
  <2>1. pc \in {"mark", "cpu"} /\ NextRow = row
    BY <1>2 DEF AddWindow, CpuWindow, NextRow, At, Dealing, Scanning
  <2>2. \/ row' = row /\ ret' = "row" /\ pc' \in {"chain", "submit"}
        \/ row' = row + 1 /\ pc' = "row"
    BY <1>2 DEF AddWindow, CpuWindow
  <2>3. NextRow' = row + 1
    BY <2>2 DEF NextRow, At, Dealing, Scanning
  <2> QED
    BY <1>1, <1>2, <2>1, <2>3
<1> SUFFICES ASSUME ~AddWindow, ~CpuWindow PROVE NextRow' = NextRow
  BY <1>1, <1>2
<1>3. ASSUME pc \in Dealing <=> pc' \in Dealing, UNCHANGED <<row, ret>>
      PROVE  NextRow' = NextRow
  BY <1>0, <1>3 DEF NextRow, At
<1> USE DEF Dealing, Scanning
<1>4. CASE \/ Publish \/ RequestStop \/ UNCHANGED vars
  BY <1>3, <1>4 DEF Publish, RequestStop, vars, place, scan
<1>5. ASSUME NEW s \in Slots, KernelEnds(s) PROVE NextRow' = NextRow
  BY <1>3, <1>5 DEF KernelEnds, place, scan
<1>6. CASE CollectFails \/ FullScanFails \/ TailFails \/ ScanEnds
  <2>1. pc' \notin Dealing /\ pc \in Dealing /\ ret' = ret
    BY <1>6, ResumeTypes
       DEF CollectFails, FullScanFails, TailFails, ScanEnds, GiveUpCollect, Return, scan
  <2>2. row' = IF ret = "row" THEN row + 1 ELSE row
    BY <1>6 DEF CollectFails, FullScanFails, TailFails, ScanEnds, Return, MayNeedTail, AtExit,
       Control, place
  <2> QED
    BY <1>0, <2>1, <2>2 DEF NextRow, At
<1>7. CASE NextNonce \/ BeginRow \/ AddFails
  <2>1. row' = row /\ pc \in {"row", "mark"}
    BY <1>7 DEF NextNonce, BeginRow, AddFails, place
  <2>2. pc' = "nonce" \/ pc' \in {"cpu", "mark"} \/ (pc' = "collect" /\ ret' = "mark")
    BY <1>7 DEF NextNonce, BeginRow, AddFails
  <2> QED
    BY <1>0, <2>1, <2>2 DEF NextRow, At
<1>8. CASE SubmitFlight
  <2>1. pc = "submit" /\ ret = "row" /\ pc' = "row" /\ row' = row + 1
    BY <1>8 DEF SubmitFlight, Control
  <2> QED
    BY <2>1 DEF NextRow, At
<1>9. CASE \/ Collect \/ Chain \/ ChainFails \/ FullScan \/ Tail \/ ScanWindow \/ NeedHidden
           \/ TestHidden
  BY <1>3, <1>9 DEF Collect, Chain, ChainFails, FullScan, BeginScan, Tail, ScanWindow, NeedHidden,
     TestHidden, place, scan
<1>10. ~ \/ Snapshot \/ LeaveLoop \/ DrainChain \/ DrainBatch \/ DrainNothing \/ LastFlight(0)
         \/ LastFlight(1)
  BY <1>0 DEF Snapshot, LeaveLoop, DrainChain, DrainBatch, DrainNothing, LastFlight, InNonce, At
<1> QED
  BY <1>4, <1>5, <1>6, <1>7, <1>8, <1>9, <1>10 DEF Next, Worker, Kernels

\* The steps that lead to the loop over the nonces, and the snapshot otherwise.
LEMMA NonceSteps ==
  ASSUME TypeOK, Control, [Next]_vars
  PROVE  /\ snap' = snap \/ Snapshot
         /\ pc' = "nonce" => Snapshot \/ NextNonce \/ (pc = "nonce" /\ UNCHANGED <<snap, nonce>>)
<1>1. CASE \/ Publish \/ RequestStop \/ UNCHANGED vars
  BY <1>1 DEF Publish, RequestStop, vars, place
<1>2. ASSUME NEW s \in Slots, KernelEnds(s) PROVE UNCHANGED <<pc, snap, nonce>>
  BY <1>2 DEF KernelEnds, place
<1>3. CASE CollectFails \/ FullScanFails \/ TailFails \/ ScanEnds
  BY <1>3, ResumeTypes DEF CollectFails, FullScanFails, TailFails, ScanEnds,
     GiveUpCollect, Return, place
<1>4. CASE \/ Snapshot \/ LeaveLoop \/ BeginNonce \/ NextNonce \/ BeginRow \/ AddWindow
           \/ AddFails \/ CpuWindow \/ SubmitFlight
  BY <1>4 DEF Snapshot, LeaveLoop, BeginNonce, NextNonce, BeginRow, AddWindow, AddFails,
     CpuWindow, SubmitFlight, place
<1>5. CASE \/ Collect \/ Chain \/ ChainFails \/ FullScan \/ Tail \/ ScanWindow \/ NeedHidden
           \/ TestHidden
  BY <1>5 DEF Collect, Chain, ChainFails, FullScan, BeginScan, Tail, ScanWindow, NeedHidden,
     TestHidden, place
<1>6. CASE DrainChain \/ DrainBatch \/ DrainNothing \/ LastFlight(0) \/ LastFlight(1)
  BY <1>6 DEF DrainChain, DrainBatch, DrainNothing, LastFlight, place
<1> QED
  BY <1>1, <1>2, <1>3, <1>4, <1>5, <1>6 DEF Next, Worker, Kernels

\* What the worker is past it stays past.
LEMMA PassedStays ==
  ASSUME TypeOK, Control, Snapped, [Next]_vars, NEW w \in Window, Passed(w)
  PROVE  Passed(w)'
<1>0. /\ w.gen \in Nat /\ w.nonce \in Nat /\ w.row \in Nat /\ nonce \in Nat /\ row \in Nat
      /\ snap \in Nat /\ gen \in Nat /\ Rows[nonce] \in Nat
  BY AtHand, Settings DEF Window, TypeOK
<1>1. CASE Snapshot
  BY <1>0, <1>1 DEF Snapshot, Snapped, Passed
<1>2. CASE NextNonce
  <2>1. pc = "row" /\ row >= Rows[nonce] /\ snap' = snap /\ InNonce /\ row <= Rows[nonce]
    BY <1>2 DEF NextNonce, InNonce, Control
  <2>2. w.gen = snap => w.nonce < nonce \/ (w.nonce = nonce /\ w.row < row)
    BY <2>1 DEF Passed, NextRow, At, Dealing, Scanning
  <2>3. CASE nonce < LastNonce
    BY <1>0, <1>2, <2>1, <2>2, <2>3 DEF NextNonce, Passed
  <2>4. CASE ~(nonce < LastNonce)
    <3>1. nonce = LastNonce /\ nonce' = nonce
      BY <1>2, <2>4, Settings DEF NextNonce, TypeOK, Nonces
    <3>2. row = 0
      BY <1>0, <2>1, <3>1, Settings
    <3> QED
      BY <1>0, <2>1, <2>2, <3>1, <3>2 DEF Passed
  <2> QED
    BY <2>3, <2>4
<1>3. CASE BeginNonce
  <2>1. pc = "nonce" /\ pc' = "row" /\ row' = 0 /\ snap' = snap /\ nonce' = nonce
    BY <1>3 DEF BeginNonce
  <2>2. NextRow = 0 /\ NextRow' = 0
    BY <2>1 DEF NextRow, At, Dealing, Scanning
  <2> QED
    BY <2>1, <2>2 DEF Passed
<1>4. CASE ~Snapshot /\ ~NextNonce /\ ~BeginNonce
  <2>1. snap' = snap
    BY <1>4, NonceSteps
  <2>2. CASE pc' = "nonce"
    <3>1. pc = "nonce" /\ nonce' = nonce
      BY <1>4, <2>2, NonceSteps
    <3> QED
      BY <2>1, <2>2, <3>1 DEF Passed, NextRow
  <2>3. CASE InNonce'
    <3>1. InNonce /\ nonce' = nonce
      BY <1>4, <2>3, NonceStays
    <3>2. NextRow' \in Nat /\ NextRow \in Nat /\ NextRow' >= NextRow
      BY <1>0, <1>4, <2>3, RowsGoOn
    <3> QED
      BY <1>0, <2>1, <3>1, <3>2 DEF Passed
  <2>4. CASE pc' # "nonce" /\ ~InNonce'
    BY <2>1, <2>4 DEF Passed
  <2> QED
    BY <2>2, <2>3, <2>4
<1> QED
  BY <1>1, <1>2, <1>3, <1>4

\* The worker is not past the window at hand, until it took or searched it.
LEMMA AtHandPasses ==
  ASSUME TypeOK, Control, Snapped, [Next]_vars, AddWindow \/ CpuWindow, NEW w, w = Win
  PROVE  ~Passed(w) /\ Passed(w)'
<1>1. pc \in {"mark", "cpu"} /\ InNonce /\ ~BeginNonce /\ snap > 0 /\ NextRow = row
  BY DEF AddWindow, CpuWindow, InNonce, BeginNonce, Snapped, NextRow, At, Dealing, Scanning
<1>2. w.gen = snap /\ w.nonce = nonce /\ w.row = row /\ snap \in Nat /\ nonce \in Nat /\ row \in Nat
  BY AtHand
<1>3. ~Passed(w)
  BY <1>1, <1>2 DEF Passed
<1>4. InNonce' /\ UNCHANGED <<snap, nonce>>
  BY DEF AddWindow, CpuWindow, InNonce, At, Dealing
<1>5. NextRow' = row + 1
  BY <1>1, <1>4, RowsGoOn
<1>6. Passed(w)'
  BY <1>1, <1>2, <1>4, <1>5 DEF Passed
<1> QED
  BY <1>3, <1>6


\* A window in a flight was there before, or is the window at hand put into it.
LEMMA TableMoves ==
  ASSUME TypeOK, Control, Filled, Content, [Next]_vars, NEW s \in Slots, NEW x \in 0 .. fl'[s].n - 1
  PROVE  \/ x \in 0 .. fl[s].n - 1 /\ fl'[s].wins[x] = fl[s].wins[x]
         \/ /\ AddWindow /\ s = Filling /\ x = W_in
            /\ fl'[s].wins[x] = [w |-> Win, count |-> Candidates]
<1>1. CASE AddWindow
  <2>1. CASE s # Filling
    <3>1. fl'[s] = fl[s]
      <4>1. PICK u : u = Filling
        OBVIOUS
      <4>2. \A v \in Slots : v # u => fl'[v] = fl[v]
        BY <1>1, <4>1, AddingOthers
      <4> QED
        BY <2>1, <4>1, <4>2
    <3> QED
      BY <3>1
  <2>2. CASE s = Filling
    <3>1. PICK i \in 0 .. K - 1 : i = W_in
      BY Turn
    <3>2. fl'[s].n = i + 1 /\ i \in Nat /\ (i > 0 => fl[s].n = i)
      BY <1>1, <2>2, <3>1, Adding
    <3>3. /\ \A y \in 0 .. i - 1 : fl'[s].wins[y] = fl[s].wins[y]
          /\ fl'[s].wins[i] = [w |-> Win, count |-> Candidates]
      BY <1>1, <2>2, <3>1, AddingKeeps
    <3>4. CASE x = i
      BY <1>1, <2>2, <3>1, <3>3, <3>4
    <3>5. CASE x # i
      <4>1. x \in 0 .. i - 1 /\ i > 0
        BY <3>2, <3>5
      <4> QED
        BY <3>2, <3>3, <4>1
    <3> QED
      BY <3>4, <3>5
  <2> QED
    BY <2>1, <2>2
<1>2. CASE Tail \/ UNCHANGED <<cands, fl>>
  BY <1>2 DEF Tail
<1>3. ASSUME NEW u \in Slots, fl' = Emptied(u) \/ fl' = [fl EXCEPT ![u].active = TRUE]
      PROVE  x \in 0 .. fl[s].n - 1 /\ fl'[s].wins[x] = fl[s].wins[x]
  <2>1. CASE fl' = Emptied(u) /\ s = u
    BY <2>1, Emptying
  <2>2. CASE fl' = Emptied(u) /\ s # u
    <3>1. fl'[s] = fl[s]
      BY <2>2, Emptying
    <3> QED
      BY <3>1
  <2>3. CASE fl' = [fl EXCEPT ![u].active = TRUE]
    <3>1. fl'[s].n = fl[s].n /\ fl'[s].wins = fl[s].wins
      BY <2>3, Activating
    <3> QED
      BY <3>1
  <2> QED
    BY <1>3, <2>1, <2>2, <2>3
<1> QED
  BY <1>1, <1>2, <1>3, FlightMoves

\* Only putting a window into a flight changes what was taken.
LEMMA TakenMoves ==
  ASSUME TypeOK, [Next]_vars
  PROVE  taken' = taken \/ (AddWindow /\ taken' = IF Candidates = 0 THEN taken ELSE taken \cup {Win})
<1>1. CASE AddWindow
  BY <1>1 DEF AddWindow
<1>2. CASE \/ Publish \/ RequestStop \/ Snapshot \/ LeaveLoop \/ BeginNonce \/ NextNonce
           \/ BeginRow \/ CpuWindow \/ AddFails \/ SubmitFlight \/ Collect \/ CollectFails
           \/ Chain \/ ChainFails \/ FullScan \/ FullScanFails \/ Tail \/ TailFails
           \/ ScanWindow \/ TestHidden
           \/ NeedHidden \/ ScanEnds \/ DrainChain \/ DrainBatch \/ DrainNothing
           \/ LastFlight(0) \/ LastFlight(1) \/ UNCHANGED vars
  BY <1>2 DEF Publish, RequestStop, Snapshot, LeaveLoop, BeginNonce, NextNonce, BeginRow,
     CpuWindow, AddFails, SubmitFlight, Collect, CollectFails, Chain, ChainFails, FullScan,
     FullScanFails, Tail, TailFails, ScanWindow, TestHidden, NeedHidden, ScanEnds, DrainChain,
     DrainBatch, DrainNothing, LastFlight, vars, hist
<1>3. ASSUME NEW s \in Slots, KernelEnds(s) PROVE taken' = taken
  BY <1>3 DEF KernelEnds, hist
<1> QED
  BY <1>1, <1>2, <1>3 DEF Next, Worker, Kernels

\* What was scanned, as windows.
LEMMA ScannedMoves ==
  ASSUME TypeOK, Progress, [Next]_vars
  PROVE  \/ UNCHANGED <<scans, again>> /\ ScannedWindows' = ScannedWindows
         \/ /\ CpuWindow /\ ScannedWindows' = ScannedWindows \cup {Win}
            /\ again' = (again \/ Win \in ScannedWindows)
         \/ /\ ScanWindow \/ TestHidden
            /\ pc \in Scanning /\ j < fl[cur].n /\ Head # NoCell /\ Scanned.count = 1
            /\ ScannedWindows' = ScannedWindows \cup {Scanned.w}
            /\ again' = (again \/ Scanned.w \in ScannedWindows)
<1>1. ASSUME NEW w, NEW g, NEW own, Searched(w, g, own)
      PROVE  /\ ScannedWindows' = ScannedWindows \cup {w}
             /\ again' = (again \/ w \in ScannedWindows)
  <2>1. scans' = scans \cup {[w |-> w, gen |-> g, own |-> own]}
    BY <1>1 DEF Searched
  <2>2. again' = (again \/ w \in {r.w : r \in scans})
    BY <1>1, Zenon DEF Searched
  <2>3. ScannedWindows' = ScannedWindows \cup {w}
    <3>1. ASSUME NEW v \in ScannedWindows' PROVE v \in ScannedWindows \cup {w}
      BY <2>1, <3>1 DEF ScannedWindows
    <3>2. ASSUME NEW v \in ScannedWindows PROVE v \in ScannedWindows'
      BY <2>1, <3>2 DEF ScannedWindows
    <3>3. w \in ScannedWindows'
      <4>1. PICK r : r = [w |-> w, gen |-> g, own |-> own]
        OBVIOUS
      <4>2. r \in scans' /\ r.w = w
        BY <2>1, <4>1
      <4> QED
        BY <4>2 DEF ScannedWindows
    <3> QED
      BY <3>1, <3>2, <3>3
  <2> QED
    BY <2>2, <2>3, Zenon DEF ScannedWindows
<1>2. CASE UNCHANGED <<scans, again>>
  BY <1>2 DEF ScannedWindows
<1>3. CASE CpuWindow /\ Searched(Win, snap, TRUE)
  BY <1>1, <1>3, Zenon
<1>4. CASE /\ ScanWindow \/ TestHidden
           /\ pc \in Scanning /\ j < fl[cur].n /\ Scanned.count = 1 /\ Head # NoCell
           /\ Searched(Scanned.w, fl[cur].gen, Head = Own(Scanned.w))
  BY <1>1, <1>4, Zenon
<1> QED
  BY <1>2, <1>3, <1>4, Searches

\* Nothing becomes known but the window at hand.
LEMMA KnownMoves ==
  ASSUME TypeOK, Control, Progress, Filled, Content, [Next]_vars, NEW w \in Known'
  PROVE  w \in Known \/ ((AddWindow \/ CpuWindow) /\ w = Win)
<1>1. CASE w \in ScannedWindows'
  <2>1. j < fl[cur].n => Scanned.w \in Known
    BY ScannedWindow, FlightWindowsAre
  <2>2. ScannedWindows \subseteq Known
    BY DEF Known
  <2> QED
    BY <1>1, <2>1, <2>2, ScannedMoves
<1>2. CASE w \in taken'
  BY <1>2, TakenMoves DEF Known
<1>3. ASSUME NEW s \in Slots, w \in FlightWindows(s)'
      PROVE  w \in Known \/ ((AddWindow \/ CpuWindow) /\ w = Win)
  <2>1. PICK x \in 0 .. fl'[s].n - 1 : w = fl'[s].wins[x].w
    BY <1>3 DEF FlightWindows
  <2>2. CASE x \in 0 .. fl[s].n - 1 /\ fl'[s].wins[x] = fl[s].wins[x]
    BY <2>1, <2>2, FlightWindowsAre
  <2>3. CASE AddWindow /\ fl'[s].wins[x] = [w |-> Win, count |-> Candidates]
    BY <2>1, <2>3
  <2> QED
    BY <2>2, <2>3, TableMoves
<1> QED
  BY <1>1, <1>2, <1>3 DEF Known, Slots

LEMMA KnownStep ==
  ASSUME TypeOK, Control, Progress, Snapped, Filled, Content, KnownPassed, [Next]_vars
  PROVE  KnownPassed'
<1> SUFFICES ASSUME NEW w \in Known' PROVE Passed(w)'
  BY DEF KnownPassed
<1>1. CASE w \in Known
  <2>1. w \in Window /\ Passed(w)
    BY <1>1, KnownAre DEF KnownPassed
  <2> QED
    BY <2>1, PassedStays
<1>2. CASE (AddWindow \/ CpuWindow) /\ w = Win
  BY <1>2, AtHandPasses
<1> QED
  BY <1>1, <1>2, KnownMoves


\* The window at hand is not known before it is taken or searched.
LEMMA AtHandIsNew ==
  ASSUME TypeOK, Control, Snapped, KnownPassed, [Next]_vars, AddWindow \/ CpuWindow
  PROVE  Win \notin Known
BY AtHandPasses DEF KnownPassed

LEMMA DistinctStep ==
  ASSUME TypeOK, Control, Snapped, Filled, Content, KnownPassed, TakenCounts, Distinct, [Next]_vars
  PROVE  TakenCounts' /\ Distinct'
<1>1. ASSUME NEW s \in Slots, NEW x \in 0 .. fl'[s].n - 1, fl'[s].wins[x].w \in taken'
      PROVE  fl'[s].wins[x].count = 1
  <2>1. CASE x \in 0 .. fl[s].n - 1 /\ fl'[s].wins[x] = fl[s].wins[x]
    <3>1. fl[s].wins[x].w \in Known
      BY <2>1, FlightWindowsAre
    <3>2. fl[s].wins[x].w \in taken
      BY <1>1, <2>1, <3>1, AtHandIsNew, TakenMoves
    <3> QED
      BY <2>1, <3>2 DEF TakenCounts
  <2>2. CASE AddWindow /\ fl'[s].wins[x] = [w |-> Win, count |-> Candidates]
    <3>1. Win \notin taken /\ Win \in taken'
      BY <1>1, <2>2, AtHandIsNew DEF Known
    <3> QED
      BY <2>2, <3>1, TakenMoves DEF Candidates
  <2> QED
    BY <2>1, <2>2, TableMoves
<1>2. ASSUME NEW s \in Slots, NEW t \in Slots,
             NEW x \in 0 .. fl'[s].n - 1, NEW y \in 0 .. fl'[t].n - 1,
             fl'[s].wins[x].w = fl'[t].wins[y].w
      PROVE  s = t /\ x = y
  <2>1. \/ x \in 0 .. fl[s].n - 1 /\ fl'[s].wins[x] = fl[s].wins[x]
        \/ AddWindow /\ s = Filling /\ x = W_in /\ fl'[s].wins[x] = [w |-> Win, count |-> Candidates]
    BY TableMoves
  <2>2. \/ y \in 0 .. fl[t].n - 1 /\ fl'[t].wins[y] = fl[t].wins[y]
        \/ AddWindow /\ t = Filling /\ y = W_in /\ fl'[t].wins[y] = [w |-> Win, count |-> Candidates]
    BY TableMoves
  <2>3. x \in 0 .. fl[s].n - 1 => fl[s].wins[x].w \in Known
    BY FlightWindowsAre
  <2>4. y \in 0 .. fl[t].n - 1 => fl[t].wins[y].w \in Known
    BY FlightWindowsAre
  <2>5. AddWindow => Win \notin Known
    BY AtHandIsNew
  <2>6. CASE /\ x \in 0 .. fl[s].n - 1 /\ fl'[s].wins[x] = fl[s].wins[x]
             /\ y \in 0 .. fl[t].n - 1 /\ fl'[t].wins[y] = fl[t].wins[y]
    <3>1. fl[s].wins[x].w = fl[t].wins[y].w
      BY <1>2, <2>6
    <3> QED
      BY <2>6, <3>1 DEF Distinct
  <2>7. CASE /\ AddWindow /\ fl'[s].wins[x] = [w |-> Win, count |-> Candidates]
             /\ s = Filling /\ x = W_in /\ ~(s = t /\ x = y)
    <3>1. fl'[t].wins[y].w = Win
      BY <1>2, <2>7
    <3> QED
      BY <2>1, <2>2, <2>4, <2>5, <2>7, <3>1
  <2>8. CASE /\ AddWindow /\ fl'[t].wins[y] = [w |-> Win, count |-> Candidates]
             /\ t = Filling /\ y = W_in /\ ~(s = t /\ x = y)
    <3>1. fl'[s].wins[x].w = Win
      BY <1>2, <2>8
    <3> QED
      BY <2>1, <2>2, <2>3, <2>5, <2>8, <3>1
  <2> QED
    BY <2>1, <2>2, <2>6, <2>7, <2>8
<1> QED
  BY <1>1, <1>2 DEF TakenCounts, Distinct

\* The scan of a flight goes on, or the flight is emptied.
LEMMA ScanGoesOn ==
  ASSUME TypeOK, Control, Progress, [Next]_vars, NEW s \in Slots, cur = s /\ pc \in Scanning
  PROVE  \/ fl'[s].n = 0
         \/ /\ cur' = s /\ pc' \in Scanning /\ UNCHANGED <<fl, is_prime>>
            /\ j' = IF ScanWindow \/ TestHidden THEN j + 1 ELSE j
         \/ /\ cur' = s /\ pc' = pc /\ UNCHANGED <<fl, j>>
            /\ ~ScanWindow /\ ~TestHidden
            /\ \E u \in Slots : KernelEnds(u)
<1> USE DEF Scanning
<1>1. CASE ScanWindow \/ TestHidden
  BY <1>1 DEF ScanWindow, TestHidden
<1> SUFFICES ASSUME ~ScanWindow, ~TestHidden
             PROVE  \/ fl'[s].n = 0
                    \/ cur' = s /\ pc' \in Scanning /\ UNCHANGED <<fl, is_prime, j>>
                    \/ /\ cur' = s /\ pc' = pc /\ UNCHANGED <<fl, j>>
                       /\ \E u \in Slots : KernelEnds(u)
  BY <1>1
<1>2. CASE \/ Publish \/ RequestStop \/ Tail \/ NeedHidden \/ UNCHANGED vars
  BY <1>2 DEF Publish, RequestStop, Tail, NeedHidden, vars, scan
<1>3. CASE TailFails \/ ScanEnds
  <2>1. fl' = Emptied(s)
    BY <1>3 DEF TailFails, ScanEnds, GiveUpCollect
  <2> QED
    BY <2>1, Emptying
<1>4. ASSUME NEW u \in Slots, KernelEnds(u) PROVE cur' = s /\ pc' = pc /\ UNCHANGED <<fl, j>>
  BY <1>4 DEF KernelEnds, scan
<1>5. ~ \/ Snapshot \/ LeaveLoop \/ BeginNonce \/ NextNonce \/ BeginRow \/ AddWindow \/ AddFails
        \/ CpuWindow \/ SubmitFlight \/ Collect \/ CollectFails \/ Chain \/ ChainFails
        \/ FullScan \/ FullScanFails \/ DrainChain \/ DrainBatch \/ DrainNothing
        \/ LastFlight(0) \/ LastFlight(1)
  BY DEF Snapshot, LeaveLoop, BeginNonce, NextNonce, BeginRow, AddWindow, AddFails, CpuWindow,
     SubmitFlight, Collect, CollectFails, Chain, ChainFails, FullScan, FullScanFails,
     DrainChain, DrainBatch, DrainNothing, LastFlight
<1> QED
  BY <1>2, <1>3, <1>4, <1>5 DEF Next, Worker, Kernels

\* A scan begins with the first window.
LEMMA ScanBegins ==
  ASSUME TypeOK, [Next]_vars, pc \notin Scanning, pc' \in Scanning
  PROVE  j' = 0 /\ tails' = 0 /\ cur' = cur /\ fl' = fl /\ (Collect \/ Chain \/ FullScan)
<1> USE DEF Scanning
<1>1. CASE Collect \/ Chain \/ FullScan
  BY <1>1 DEF Collect, Chain, FullScan, BeginScan
<1>2. ~ \/ Snapshot \/ LeaveLoop \/ BeginNonce \/ NextNonce \/ BeginRow \/ AddWindow \/ AddFails
        \/ CpuWindow \/ SubmitFlight \/ ChainFails \/ Tail \/ ScanWindow \/ NeedHidden
        \/ TestHidden \/ DrainChain \/ DrainBatch \/ DrainNothing \/ LastFlight(0)
        \/ LastFlight(1) \/ Publish \/ RequestStop \/ UNCHANGED vars
  BY DEF Snapshot, LeaveLoop, BeginNonce, NextNonce, BeginRow, AddWindow, AddFails, CpuWindow,
     SubmitFlight, ChainFails, Tail, ScanWindow, NeedHidden, TestHidden, DrainChain, DrainBatch,
     DrainNothing, LastFlight, Publish, RequestStop, vars
<1>3. ~(CollectFails \/ FullScanFails \/ TailFails \/ ScanEnds)
  BY ResumeTypes DEF CollectFails, FullScanFails, TailFails, ScanEnds, GiveUpCollect, Return
<1>4. \A s \in Slots : ~KernelEnds(s)
  BY DEF KernelEnds
<1> QED
  BY <1>1, <1>2, <1>3, <1>4 DEF Next, Worker, Kernels


\* What is scanned was not searched before, and what is searched is not scanned again.
LEMMA OnceStep ==
  ASSUME TypeOK, Control, Progress, Snapped, Filled, Content, KnownPassed, Unscanned, Distinct,
         NeverTwice, [Next]_vars
  PROVE  Unscanned' /\ NeverTwice'
<1>1. j < fl[cur].n => /\ cur \in Slots /\ j \in 0 .. fl[cur].n - 1 /\ j \in Nat
                       /\ Scanned = fl[cur].wins[j]
  BY ScannedWindow
<1>2. ASSUME NEW s \in Slots, NEW x \in 0 .. fl'[s].n - 1, x >= From(s)'
      PROVE  fl'[s].wins[x].w \notin ScannedWindows'
  <2>1. CASE x \in 0 .. fl[s].n - 1 /\ fl'[s].wins[x] = fl[s].wins[x]
    <3>1. fl[s].wins[x].w \in Known /\ x \in Nat /\ fl[s].n \in Nat /\ j \in Nat
      BY <2>1, FlightWindowsAre, FlightParts DEF TypeOK
    <3>2. x >= From(s) /\ ((ScanWindow \/ TestHidden) /\ cur = s /\ pc \in Scanning => x >= j + 1)
      <4>1. CASE cur = s /\ pc \in Scanning
        <5>1. fl'[s].n # 0
          BY <3>1
        <5>2. From(s)' = j' /\ j' = IF ScanWindow \/ TestHidden THEN j + 1 ELSE j
          BY <4>1, <5>1, ScanGoesOn DEF From
        <5> QED
          BY <1>2, <3>1, <4>1, <5>2 DEF From
      <4>2. CASE ~(cur = s /\ pc \in Scanning)
        BY <3>1, <4>2 DEF From
      <4> QED
        BY <4>1, <4>2
    <3>3. fl[s].wins[x].w \notin ScannedWindows
      BY <2>1, <3>2 DEF Unscanned
    <3>4. CASE ScannedWindows' = ScannedWindows
      BY <2>1, <3>3, <3>4
    <3>5. CASE CpuWindow /\ ScannedWindows' = ScannedWindows \cup {Win}
      BY <2>1, <3>1, <3>3, <3>5, AtHandIsNew
    <3>6. CASE /\ ScanWindow \/ TestHidden
               /\ pc \in Scanning /\ j < fl[cur].n
               /\ ScannedWindows' = ScannedWindows \cup {Scanned.w}
      <4>1. s = cur => x # j
        BY <1>1, <3>1, <3>2, <3>6
      <4>2. fl[s].wins[x].w # Scanned.w
        BY <1>1, <2>1, <3>6, <4>1 DEF Distinct
      <4> QED
        BY <2>1, <3>3, <3>6, <4>2
    <3> QED
      BY <3>4, <3>5, <3>6, ScannedMoves
  <2>2. CASE AddWindow /\ fl'[s].wins[x] = [w |-> Win, count |-> Candidates]
    <3>1. Win \notin ScannedWindows
      BY <2>2, AtHandIsNew DEF Known
    <3>2. ScannedWindows' = ScannedWindows
      BY <2>2 DEF AddWindow, ScannedWindows
    <3> QED
      BY <2>2, <3>1, <3>2
  <2> QED
    BY <2>1, <2>2, TableMoves
<1>3. NeverTwice'
  <2>1. CASE UNCHANGED <<scans, again>>
    BY <2>1 DEF NeverTwice
  <2>2. CASE CpuWindow /\ again' = (again \/ Win \in ScannedWindows)
    BY <2>2, AtHandIsNew DEF NeverTwice, Known
  <2>3. CASE /\ pc \in Scanning /\ j < fl[cur].n
             /\ again' = (again \/ Scanned.w \in ScannedWindows)
    <3>1. j >= From(cur)
      BY <1>1, <2>3 DEF From
    <3>2. Scanned.w \notin ScannedWindows
      BY <1>1, <2>3, <3>1 DEF Unscanned
    <3> QED
      BY <2>3, <3>2 DEF NeverTwice
  <2> QED
    BY <2>1, <2>2, <2>3, ScannedMoves
<1> QED
  BY <1>2, <1>3 DEF Unscanned


-----------------------------------------------------------------------------
(* What a failure costs                                                     *)

\* A failure is counted.
LEMMA FaultsMove ==
  ASSUME TypeOK, [Next]_vars
  PROVE  /\ config' = config /\ faults \in Nat /\ config.faults \in Nat /\ faults <= config.faults
         /\ faults' = faults \/ faults' = faults - 1
         /\ \A n : Spend(n) => faults' = faults - n
         /\ Spend(1) => faults' # faults
<1>1. config.faults \in Nat /\ faults \in 0 .. config.faults
  BY Settings DEF TypeOK
<1>2. \A n : Spend(n) => faults' = faults - n
  BY DEF Spend
<1>3. config' = config /\ (faults' = faults \/ Spend(1))
  <2>1. CASE \/ Publish \/ RequestStop \/ Snapshot \/ LeaveLoop \/ BeginNonce \/ NextNonce
             \/ BeginRow \/ AddWindow \/ CpuWindow \/ AddFails \/ SubmitFlight \/ Collect
             \/ CollectFails \/ Chain \/ ChainFails \/ FullScan \/ FullScanFails \/ Tail
             \/ TailFails \/ ScanWindow \/ TestHidden
             \/ NeedHidden \/ ScanEnds \/ DrainChain \/ DrainBatch \/ DrainNothing
             \/ LastFlight(0) \/ LastFlight(1) \/ UNCHANGED vars
    BY <2>1 DEF Publish, RequestStop, Snapshot, LeaveLoop, BeginNonce, NextNonce, BeginRow,
       AddWindow, CpuWindow, AddFails, SubmitFlight, Collect, CollectFails, Chain, ChainFails,
       FullScan, FullScanFails, Tail, TailFails, ScanWindow, TestHidden, NeedHidden, ScanEnds,
       DrainChain, DrainBatch, DrainNothing, LastFlight, vars, GiveUpCollect
  <2>2. ASSUME NEW s \in Slots, KernelEnds(s) PROVE config' = config /\ faults' = faults
    BY <2>2 DEF KernelEnds
  <2> QED
    BY <2>1, <2>2 DEF Next, Worker, Kernels
<1>4. Spend(1) => faults' = faults - 1
  BY <1>2
<1> QED
  BY <1>1, <1>2, <1>3, <1>4

\* The windows of a flight stay in it until it is emptied.
LEMMA WindowsStay ==
  ASSUME TypeOK, Control, Filled, Content, [Next]_vars, NEW s \in Slots, NEW x \in 0 .. fl[s].n - 1
  PROVE  \/ x \in 0 .. fl'[s].n - 1 /\ fl'[s].wins[x] = fl[s].wins[x]
         \/ fl'[s].n = 0
<1>1. CASE AddWindow
  <2>1. CASE s # Filling
    <3>1. fl'[s] = fl[s]
      <4>1. PICK u : u = Filling
        OBVIOUS
      <4>2. \A v \in Slots : v # u => fl'[v] = fl[v]
        BY <1>1, <4>1, AddingOthers
      <4> QED
        BY <2>1, <4>1, <4>2
    <3> QED
      BY <3>1
  <2>2. CASE s = Filling
    <3>1. PICK i \in 0 .. K - 1 : i = W_in
      BY Turn
    <3>2. fl'[s].n = i + 1 /\ i \in Nat /\ ~fl[s].active /\ fused /\ (i > 0 => fl[s].n = i)
      BY <1>1, <2>2, <3>1, Adding
    <3>3. i > 0
      <4>1. pc = "mark" /\ fl[s].n # 0
        BY <1>1, FlightParts DEF AddWindow
      <4> QED
        BY <2>2, <3>1, <3>2, <4>1 DEF Filled, Idle
    <3>4. \A y \in 0 .. i - 1 : fl'[s].wins[y] = fl[s].wins[y]
      BY <1>1, <2>2, <3>1, AddingKeeps
    <3> QED
      BY <3>2, <3>3, <3>4
  <2> QED
    BY <2>1, <2>2
<1>2. CASE Tail \/ UNCHANGED <<cands, fl>>
  BY <1>2 DEF Tail
<1>3. ASSUME NEW u \in Slots, fl' = Emptied(u) \/ fl' = [fl EXCEPT ![u].active = TRUE]
      PROVE  \/ x \in 0 .. fl'[s].n - 1 /\ fl'[s].wins[x] = fl[s].wins[x]
             \/ fl'[s].n = 0
  <2>1. CASE fl' = Emptied(u) /\ s = u
    BY <2>1, Emptying
  <2>2. CASE fl' = Emptied(u) /\ s # u
    <3>1. fl'[s] = fl[s]
      BY <2>2, Emptying
    <3> QED
      BY <3>1
  <2>3. CASE fl' = [fl EXCEPT ![u].active = TRUE]
    <3>1. fl'[s].n = fl[s].n /\ fl'[s].wins = fl[s].wins
      BY <2>3, Activating
    <3> QED
      BY <3>1
  <2> QED
    BY <1>3, <2>1, <2>2, <2>3
<1> QED
  BY <1>1, <1>2, <1>3, FlightMoves

\* A window that was taken has its candidate in its flight.
LEMMA TakenHasCell ==
  ASSUME TypeOK, Content, KnownPassed, TakenCounts, NEW s \in Slots,
         NEW x \in 0 .. fl[s].n - 1, fl[s].wins[x].w \in taken
  PROVE  /\ fl[s].wins[x].count = 1 /\ Cum(s, x) \in 0 .. fl[s].total - 1 /\ fl[s].total \in Nat
         /\ fl[s].total > 0 /\ Cum(s, x) \in Cells
         /\ cands[s][Cum(s, x)] = Own(fl[s].wins[x].w) /\ cands[s][Cum(s, x)] # NoCell
<1>1. fl[s].wins[x].count = 1
  BY DEF TakenCounts
<1>2. fl[s].n \in Nat /\ x \in Nat /\ fl[s].total \in Nat /\ fl[s].total \in 0 .. K /\ K \in Nat
  BY FlightParts, Settings
<1>3. fl[s].total = Cum(s, fl[s].n) /\ cands[s][Cum(s, x)] = Own(fl[s].wins[x].w)
  BY <1>1 DEF Content, Matches
<1>4. CumOf(fl[s].wins, x) < CumOf(fl[s].wins, fl[s].n)
  BY <1>1, <1>2, CumOrder
<1>5. Cum(s, x) < fl[s].total /\ Cum(s, x) \in Nat
  BY <1>2, <1>3, <1>4, CumIs, CumFacts
<1>6. fl[s].wins[x].w.gen > 0
  <2>1. fl[s].wins[x].w \in Known
    BY FlightWindowsAre
  <2> QED
    BY <2>1 DEF KnownPassed, Passed
<1>7. Own(fl[s].wins[x].w) # NoCell
  BY <1>6 DEF Own, NoCell, NoWindow
<1> QED
  BY <1>1, <1>2, <1>3, <1>5, <1>7 DEF Cells

\* A flight is emptied when it was scanned, or when the device failed.
LEMMA NotEmptied ==
  ASSUME TypeOK, Control, Filled, Content, KnownPassed, TakenCounts, [Next]_vars, NEW s \in Slots,
         NEW x \in 0 .. fl[s].n - 1, fl[s].wins[x].w \in taken, Kept(s, x),
         faults' = faults \/ s # Hit
  PROVE  fl'[s].n # 0
<1> USE DEF Scanning, Hit
<1>0. cur \in Slots /\ Filling \in Slots /\ fl[s].n \in Nat /\ fl[s].n # 0 /\ x \in Nat
      /\ fl \in [Slots -> Flight]
  BY Turn, FlightParts DEF TypeOK
<1>1. CASE SubmitFlight
  <2>1. CASE fl' = [fl EXCEPT ![cur].active = TRUE]
    BY <1>0, <2>1, Activating
  <2>2. CASE fl' = Emptied(cur) /\ Spend(1)
    BY <1>0, <1>1, <2>2, Emptying, FaultsMove DEF SubmitFlight
  <2> QED
    BY <1>1, <2>1, <2>2 DEF SubmitFlight
<1>2. CASE CollectFails \/ TailFails
  <2>1. Spend(1) /\ fl' = Emptied(cur) /\ pc \in {"collect", "scan"}
    BY <1>2 DEF CollectFails, TailFails, GiveUpCollect
  <2> QED
    BY <1>0, <2>1, Emptying, FaultsMove
<1>3. CASE FullScanFails
  <2>1. pc = "full" /\ (fl' = fl \/ fl' = Emptied(cur))
    BY <1>3 DEF FullScanFails
  <2>2. s # cur
    BY <2>1 DEF Kept, Due
  <2> QED
    BY <1>0, <2>1, <2>2, Emptying
<1>4. CASE ScanEnds
  <2>1. pc = "scan" /\ fl' = Emptied(cur) /\ j = fl[cur].n
    BY <1>4 DEF ScanEnds
  <2>2. s # cur
    BY <1>0, <2>1 DEF Kept
  <2> QED
    BY <1>0, <2>1, <2>2, Emptying
<1>5. CASE DrainBatch
  <2>1. CASE fl' = [fl EXCEPT ![Filling].active = TRUE]
    BY <1>0, <2>1, Activating
  <2>2. CASE fl' = Emptied(Filling) /\ Spend(1)
    BY <1>0, <1>5, <2>2, Emptying, FaultsMove DEF DrainBatch
  <2>3. CASE ~Partial /\ fl' = IF fl[Filling].active THEN fl ELSE Emptied(Filling)
    <3>1. fl[s].total > 0
      BY TakenHasCell
    <3>2. s = Filling => fl[Filling].active
      BY <2>3, <3>1 DEF Partial
    <3> QED
      BY <1>0, <2>3, <3>2, Emptying
  <2> QED
    BY <1>5, <2>1, <2>2, <2>3 DEF DrainBatch
<1>6. CASE AddWindow
  <2>1. CASE s = Filling
    <3>1. PICK i \in 0 .. K - 1 : i = W_in
      BY Turn
    <3>2. fl'[s].n = i + 1 /\ i \in Nat
      BY <1>6, <2>1, <3>1, Adding
    <3> QED
      BY <3>2
  <2>2. CASE s # Filling
    <3>1. PICK u : u = Filling
      OBVIOUS
    <3>2. \A v \in Slots : v # u => fl'[v] = fl[v]
      BY <1>6, <3>1, AddingOthers
    <3> QED
      BY <1>0, <2>2, <3>1, <3>2
  <2> QED
    BY <2>1, <2>2
<1>7. CASE \/ Publish \/ RequestStop \/ Snapshot \/ LeaveLoop \/ BeginNonce \/ NextNonce
           \/ BeginRow \/ AddFails \/ CpuWindow \/ Collect \/ Chain \/ ChainFails \/ FullScan
           \/ Tail \/ ScanWindow \/ NeedHidden \/ TestHidden \/ DrainChain \/ DrainNothing
           \/ LastFlight(0) \/ LastFlight(1) \/ UNCHANGED vars
  <2>1. fl' = fl
    BY <1>7 DEF Publish, RequestStop, Snapshot, LeaveLoop, BeginNonce, NextNonce, BeginRow,
       AddFails, CpuWindow, Collect, Chain, ChainFails, FullScan, Tail, ScanWindow, NeedHidden,
       TestHidden, DrainChain, DrainNothing, LastFlight, vars
  <2> QED
    BY <1>0, <2>1
<1>8. ASSUME NEW u \in Slots, KernelEnds(u) PROVE fl'[s].n # 0
  BY <1>0, <1>8 DEF KernelEnds
<1> QED
  BY <1>1, <1>2, <1>3, <1>4, <1>5, <1>6, <1>7, <1>8 DEF Next, Worker, Kernels


\* A flight that is being scanned: each window is searched in its turn.
LEMMA ScanKeeps ==
  ASSUME TypeOK, Control, Progress, Content, KnownPassed, TakenCounts, [Next]_vars,
         NEW s \in Slots, NEW x \in 0 .. fl[s].n - 1, fl[s].wins[x].w \in taken,
         cur = s, pc \in Scanning, Kept(s, x), fl'[s].n # 0
  PROVE  fl[s].wins[x].w \in ScannedWindows' \/ Kept(s, x)'
<1>0. x \in Nat /\ j \in Nat /\ x >= j /\ is_prime[s][Cum(s, x)] # NoCell
  BY DEF Kept, TypeOK
<1>1. CASE /\ cur' = s /\ pc' \in Scanning /\ UNCHANGED <<fl, is_prime>>
           /\ j' = IF ScanWindow \/ TestHidden THEN j + 1 ELSE j
  <2>1. Cum(s, x)' = Cum(s, x)
    BY <1>1, CumStays
  <2>2. CASE x >= j'
    BY <1>0, <1>1, <2>1, <2>2 DEF Kept
  <2>3. CASE ~(x >= j')
    <3>1. x = j /\ (ScanWindow \/ TestHidden)
      BY <1>0, <1>1, <2>3
    <3>2. Scanned = fl[s].wins[x] /\ Head = is_prime[s][Cum(s, x)]
      BY <3>1 DEF Scanned, Head
    <3>3. Scanned.count = 1
      BY <3>2, TakenHasCell
    <3>4. Searched(Scanned.w, fl[cur].gen, Head = Own(Scanned.w))
      BY <1>0, <3>1, <3>2, <3>3 DEF ScanWindow, TestHidden, Record
    <3>5. [w |-> Scanned.w, gen |-> fl[cur].gen, own |-> Head = Own(Scanned.w)] \in scans'
      BY <3>4, Zenon DEF Searched
    <3> DEFINE r == [w |-> Scanned.w, gen |-> fl[cur].gen, own |-> Head = Own(Scanned.w)]
    <3>6. r.w = Scanned.w
      BY Zenon
    <3>7. Scanned.w \in ScannedWindows'
      BY <3>5, <3>6, Zenon DEF ScannedWindows
    <3> QED
      BY <3>2, <3>7
  <2> QED
    BY <2>2, <2>3
<1>2. CASE /\ cur' = s /\ pc' = pc /\ UNCHANGED <<fl, j>>
           /\ \E u \in Slots : KernelEnds(u)
  <2>1. PICK u \in Slots : is_prime' = Tested(u, slots[u].count)
    BY <1>2 DEF KernelEnds
  <2>2. Cum(s, x)' = Cum(s, x)
    BY <1>2, CumStays
  <2>3. Cum(s, x) \in Cells /\ cands[s][Cum(s, x)] # NoCell
    BY TakenHasCell
  <2>4. is_prime'[s][Cum(s, x)] # NoCell
    BY <1>0, <2>1, <2>3 DEF Tested, TypeOK
  <2> QED
    BY <1>0, <1>2, <2>2, <2>4 DEF Kept
<1> QED
  BY <1>1, <1>2, ScanGoesOn

\* A flight whose scan begins has been tested.
LEMMA BeginsTested ==
  ASSUME TypeOK, Control, Content, Submittal, KnownPassed, TakenCounts, [Next]_vars,
         NEW s \in Slots, NEW x \in 0 .. fl[s].n - 1, fl[s].wins[x].w \in taken,
         cur = s, pc \notin Scanning, pc # "full", pc' \in Scanning
  PROVE  Kept(s, x)'
<1>1. j' = 0 /\ cur' = cur /\ fl' = fl /\ (Collect \/ Chain \/ FullScan)
  BY ScanBegins
<1>2. /\ fl[s].total > 0 /\ Cum(s, x) \in Cells /\ Cum(s, x) \in 0 .. fl[s].total - 1
      /\ fl[s].total \in Nat /\ cands[s][Cum(s, x)] # NoCell /\ Cum(s, x)' = Cum(s, x) /\ x \in Nat
  BY <1>1, TakenHasCell, CumStays
<1>3. is_prime'[s][Cum(s, x)] = cands[s][Cum(s, x)]
  <2>1. CASE Collect
    <3>1. /\ pc = "collect" /\ is_prime' = is_prime
          /\ fl[cur].total > 0 /\ slots[cur].busy => ~slots[cur].running
      BY <2>1 DEF Collect
    <3> QED
      BY <1>2, <3>1 DEF Submittal
  <2>2. CASE Chain
    BY <1>2, <2>2 DEF Chain, Tested, TypeOK
  <2>3. ~FullScan
    BY DEF FullScan
  <2> QED
    BY <1>1, <2>1, <2>2, <2>3
<1> QED
  BY <1>1, <1>2, <1>3 DEF Kept

\* A flight that is due stays so, unless it is hit by a failure.
LEMMA DueStays ==
  ASSUME TypeOK, Control, Filled, [Next]_vars, NEW s \in Slots, Due(s), fl[s].n # 0, fl'[s].n # 0,
         ~(cur = s /\ pc \in Scanning), ~(cur' = s /\ pc' \in Scanning),
         faults' = faults \/ s # Hit
  PROVE  Due(s)'
<1> USE DEF Due, At, Dealing, Scanning, Hit
<1>0. /\ cur \in {0, 1} /\ Filling \in {0, 1} /\ s \in {0, 1} /\ Slots = {0, 1}
      /\ fl \in [Slots -> Flight] /\ ret \in {"mark", "row", "drain", "exit0", "exit1"}
      /\ Other(0) = 1 /\ Other(1) = 0
  BY Turn DEF TypeOK, Slots, Other
<1>1. CASE Publish \/ RequestStop \/ UNCHANGED vars
  BY <1>1 DEF Publish, RequestStop, vars, mode, scan
<1>2. ASSUME NEW u \in Slots, KernelEnds(u) PROVE Due(s)'
  BY <1>2 DEF KernelEnds, mode, scan
<1>3. CASE Snapshot \/ LeaveLoop \/ BeginNonce \/ NextNonce \/ CpuWindow
  BY <1>0, <1>3 DEF Snapshot, LeaveLoop, BeginNonce, NextNonce, CpuWindow, mode, scan
<1>4. CASE BeginRow \/ DrainChain \/ DrainNothing
  BY <1>0, <1>4 DEF BeginRow, DrainChain, DrainNothing, mode
<1>5. CASE AddWindow
  <2>1. fused /\ fused' = fused
    BY <1>5 DEF AddWindow, mode, Control
  <2> QED
    BY <1>5, <2>1 DEF AddWindow
<1>6. CASE AddFails
  <2>1. pc = "mark" /\ pc' = "cpu" /\ Spend(1) /\ UNCHANGED <<chain_on, fl>>
    BY <1>6 DEF AddFails
  <2>2. s # Filling /\ fused
    BY <2>1, FaultsMove DEF Control
  <2>3. chain_on \/ fl[s].active
    BY <1>0, <2>1, <2>2 DEF Filled, Idle
  <2> QED
    BY <2>1, <2>3
<1>7. CASE SubmitFlight
  <2>1. pc = "submit" /\ pc' = "row" /\ fused /\ ret = "row" /\ UNCHANGED chain_on
    BY <1>7 DEF SubmitFlight, Control
  <2>2. CASE fl' = [fl EXCEPT ![cur].active = TRUE] /\ fused' = fused
    BY <2>1, <2>2
  <2>3. CASE Spend(1) /\ fl' = Emptied(cur)
    <3>1. s # cur
      BY <2>1, <2>3, FaultsMove
    <3>2. fl'[s] = fl[s] /\ fl[s].active
      BY <1>0, <2>1, <2>3, <3>1, Emptying DEF Filled, Idle
    <3> QED
      BY <2>1, <3>2
  <2> QED
    BY <1>7, <2>2, <2>3 DEF SubmitFlight
<1>8. CASE CollectFails \/ TailFails
  <2>1. /\ Spend(1) /\ fl' = Emptied(cur) /\ pc \in {"collect", "scan"} /\ UNCHANGED <<chain_on, ret>>
        /\ fused' = (fused /\ ret # "mark") /\ pc' = IF ret = "mark" THEN "cpu" ELSE Resume
    BY <1>8 DEF CollectFails, TailFails, GiveUpCollect, scan
  <2>2. s # cur /\ fl'[s] = fl[s]
    BY <1>0, <2>1, FaultsMove, Emptying
  <2>3. CASE ret = "mark"
    <3>1. fused /\ fl[s].active
      BY <1>0, <2>1, <2>2, <2>3 DEF Filled, Control, Idle
    <3> QED
      BY <2>1, <2>2, <2>3, <3>1
  <2>4. CASE ret = "exit0"
    <3>1. cur = 0 /\ pc' = "exit1"
      BY <2>1, <2>4, ResumeIs, ResumeTypes DEF Control
    <3> QED
      BY <2>1, <2>2, <2>4, <3>1
  <2>5. ret # "exit1"
    BY <1>0, <2>1, <2>2 DEF Control
  <2>6. ret \in {"mark", "exit0", "exit1"}
    BY <1>8 DEF CollectFails, TailFails, MayNeedTail, AtExit, Control
  <2> QED
    BY <2>3, <2>4, <2>5, <2>6
<1>9. CASE ChainFails
  <2>1. Spend(1) /\ pc = "chain" /\ pc' = "full" /\ UNCHANGED <<fused, chain_on, fl, cur, ret>>
    BY <1>9 DEF ChainFails, mode, scan
  <2>2. s # cur
    BY <2>1, FaultsMove
  <2> QED
    BY <2>1, <2>2
<1>10. CASE Collect \/ Chain \/ FullScan \/ Tail \/ ScanWindow \/ NeedHidden \/ TestHidden
  <2>1. /\ UNCHANGED <<fused, chain_on, fl, cur, ret>>
        /\ pc' \in Scanning /\ pc \in Dealing
    BY <1>10 DEF Collect, Chain, FullScan, BeginScan, Tail, ScanWindow, NeedHidden, TestHidden,
       mode, scan
  <2> QED
    BY <2>1
<1>11. CASE FullScanFails
  <2>1. /\ pc = "full" /\ pc' = Resume /\ ret' = ret /\ cur' = cur
        /\ fused' = (fused /\ AtExit) /\ chain_on' = (chain_on /\ AtExit)
        /\ fl' = fl \/ fl' = Emptied(cur)
    BY <1>11 DEF FullScanFails, Return, scan
  <2>2. s # cur /\ fl'[s] = fl[s]
    BY <1>0, <2>1, Emptying
  <2>3. CASE ret \in {"row", "drain"}
    <3>1. fused /\ fl[s].active
      BY <1>0, <2>1, <2>2, <2>3 DEF Filled, Control, Idle
    <3>2. pc' \in {"row", "snap"}
      BY <2>1, <2>3, ResumeIs, ResumeTypes
    <3> QED
      BY <2>2, <3>1, <3>2
  <2>4. CASE ret = "exit0"
    <3>1. cur = 0 /\ pc' = "exit1"
      BY <2>1, <2>4, ResumeIs, ResumeTypes DEF Control
    <3> QED
      BY <2>1, <2>2, <2>4, <3>1 DEF AtExit
  <2>5. ret # "exit1" /\ ret # "mark"
    BY <1>0, <2>1, <2>2 DEF Control
  <2> QED
    BY <1>0, <2>3, <2>4, <2>5
<1>12. CASE ScanEnds
  <2>1. /\ pc = "scan" /\ pc' = Resume /\ UNCHANGED <<ret, cur, fused, chain_on>>
        /\ fl' = Emptied(cur)
    BY <1>12 DEF ScanEnds, Return, mode, scan
  <2>2. s # cur /\ fl'[s] = fl[s]
    BY <1>0, <2>1, Emptying
  <2>3. ret # "exit1" /\ (ret = "exit0" => cur = 0)
    BY <1>0, <2>1, <2>2 DEF Control
  <2>4. pc' # "done" /\ pc' \notin Dealing /\ (pc' = "exit1" => cur = 0)
    BY <2>1, <2>3, ResumeIs, ResumeTypes
  <2> QED
    BY <1>0, <2>1, <2>2, <2>4
<1>13. CASE DrainBatch
  <2>1. pc' = "snap" /\ UNCHANGED <<fused, chain_on>> /\ fused
    BY <1>13 DEF DrainBatch, mode
  <2> QED
    BY <2>1
<1>14. CASE LastFlight(0)
  <2>1. /\ pc = "exit0" /\ cur' = 0 /\ ret' = "exit0" /\ UNCHANGED <<fused, chain_on, fl>>
        /\ pc' = IF chain_on /\ fl[0].n > 0 THEN "chain" ELSE IF fl[0].active THEN "collect"
                 ELSE "exit1"
    BY <1>14 DEF LastFlight, mode
  <2>2. fl[s].n > 0
    BY <1>0, FlightParts
  <2> QED
    BY <1>0, <2>1, <2>2 DEF Filled, Idle
<1>15. CASE LastFlight(1)
  <2>1. /\ pc = "exit1" /\ cur' = 1 /\ ret' = "exit1" /\ UNCHANGED <<fused, chain_on, fl>>
        /\ pc' = IF chain_on /\ fl[1].n > 0 THEN "chain" ELSE IF fl[1].active THEN "collect"
                 ELSE "done"
    BY <1>15 DEF LastFlight, mode
  <2>2. fl[s].n > 0
    BY <1>0, FlightParts
  <2> QED
    BY <1>0, <2>1, <2>2 DEF Filled, Idle
<1> QED
  BY <1>1, <1>2, <1>3, <1>4, <1>5, <1>6, <1>7, <1>8, <1>9, <1>10, <1>11, <1>12, <1>13, <1>14,
     <1>15 DEF Next, Worker, Kernels


\* A window that would be scanned is, or still will be, unless a failure hits its flight.
LEMMA KeptStays ==
  ASSUME TypeOK, Control, Progress, Filled, Content, Submittal, KnownPassed, TakenCounts,
         [Next]_vars, NEW s \in Slots, NEW w \in Secure(s), w \in taken, faults' = faults \/ s # Hit
  PROVE  w \in ScannedWindows' \/ w \in Secure(s)'
<1>1. PICK x \in 0 .. fl[s].n - 1 : w = fl[s].wins[x].w /\ Kept(s, x)
  BY DEF Secure
<1>2. fl'[s].n # 0 /\ fl[s].n # 0
  BY <1>1, NotEmptied, FlightParts
<1>3. x \in 0 .. fl'[s].n - 1 /\ fl'[s].wins[x] = fl[s].wins[x]
  BY <1>2, WindowsStay
<1>4. Kept(s, x)' => w \in Secure(s)'
  BY <1>1, <1>3 DEF Secure
<1>5. CASE cur = s /\ pc \in Scanning
  BY <1>1, <1>2, <1>4, <1>5, ScanKeeps
<1>6. CASE ~(cur = s /\ pc \in Scanning) /\ cur' = s /\ pc' \in Scanning
  <2>1. pc \notin Scanning
    <3>1. ASSUME pc \in Scanning PROVE cur' = cur
      <4>1. cur \in Slots
        BY DEF TypeOK
      <4>2. CASE fl'[cur].n = 0
        <5>1. TailFails \/ ScanEnds \/ cur' = cur
          BY <3>1 DEF Scanning, Next, Worker, Kernels, Publish, RequestStop, KernelEnds, vars, scan,
             Snapshot, LeaveLoop, BeginNonce, NextNonce, BeginRow, AddWindow, AddFails, CpuWindow,
             SubmitFlight, Collect, CollectFails, Chain, ChainFails, FullScan, FullScanFails, Tail,
             ScanWindow, NeedHidden, TestHidden, DrainChain, DrainBatch, DrainNothing, LastFlight
        <5> QED
          BY <5>1 DEF TailFails, ScanEnds, scan
      <4> QED
        BY <3>1, <4>1, <4>2, ScanGoesOn
    <3> QED
      BY <1>6, <3>1
  <2>2. cur = s
    BY <1>6, <2>1, ScanBegins
  <2>3. pc # "full"
    BY <1>1, <2>1, <2>2 DEF Kept, Due
  <2> QED
    BY <1>1, <1>4, <1>6, <2>1, <2>2, <2>3, BeginsTested
<1>7. CASE ~(cur = s /\ pc \in Scanning) /\ ~(cur' = s /\ pc' \in Scanning)
  <2>1. Due(s)
    BY <1>1, <1>7 DEF Kept
  <2>2. Due(s)'
    BY <1>2, <1>7, <2>1, DueStays
  <2> QED
    BY <1>4, <1>7, <2>2 DEF Kept
<1> QED
  BY <1>5, <1>6, <1>7

\* A window that is taken will be scanned.
LEMMA TakenIsKept ==
  ASSUME TypeOK, Control, Filled, Content, [Next]_vars, AddWindow, NEW s, s = Filling,
         Candidates = 1
  PROVE  s \in Slots /\ Win \in Secure(s)'
<1>1. PICK i \in 0 .. K - 1 : i = W_in
  BY Turn
<1>2. s \in Slots /\ fl'[s].n = i + 1 /\ i \in Nat /\ fused
  BY <1>1, Adding
<1>3. fl'[s].wins[i] = [w |-> Win, count |-> Candidates]
  BY <1>1, AddingKeeps
<1>4. Due(s)' /\ pc' \notin Scanning
  <2>1. /\ pc' \in {"chain", "submit", "row"} /\ fused' = fused
        /\ pc' # "row" => ret' = "row"
    BY DEF AddWindow, mode
  <2> QED
    BY <1>2, <2>1 DEF Due, At, Dealing, Scanning
<1>5. Kept(s, i)'
  BY <1>4 DEF Kept
<1>6. i \in 0 .. fl'[s].n - 1 /\ fl'[s].wins[i].w = Win
  BY <1>2, <1>3
<1> QED
  BY <1>2, <1>5, <1>6 DEF Secure

\* Only what a failure hits comes to be at risk.
LEMMA RiskMoves ==
  ASSUME TypeOK, Control, Progress, Filled, Content, Submittal, KnownPassed, TakenCounts,
         [Next]_vars
  PROVE  AtRisk' \subseteq AtRisk \cup (IF faults' = faults THEN {} ELSE FlightWindows(Hit))
<1> SUFFICES ASSUME NEW w \in AtRisk', w \notin AtRisk
             PROVE  faults' # faults /\ w \in FlightWindows(Hit)
  OBVIOUS
<1>1. w \in taken' /\ w \notin ScannedWindows' /\ w \notin Secure(0)' /\ w \notin Secure(1)'
  BY DEF AtRisk
<1>2. w \in taken
  <2>1. CASE AddWindow /\ w = Win /\ Candidates # 0
    <3>1. PICK s : s = Filling
      OBVIOUS
    <3>2. s \in Slots /\ Win \in Secure(s)'
      BY <2>1, <3>1, TakenIsKept DEF Candidates
    <3> QED
      BY <1>1, <2>1, <3>2 DEF Slots
  <2> QED
    BY <1>1, <2>1, TakenMoves
<1>3. w \in ScannedWindows \/ w \in Secure(0) \/ w \in Secure(1)
  BY <1>2 DEF AtRisk
<1>4. w \notin ScannedWindows
  BY <1>1, ScannedMoves
<1>5. PICK s \in Slots : w \in Secure(s)
  BY <1>3, <1>4 DEF Slots
<1>6. faults' # faults /\ s = Hit
  BY <1>1, <1>2, <1>5, KeptStays DEF Slots
<1>7. w \in FlightWindows(s)
  BY <1>5 DEF Secure, FlightWindows
<1> QED
  BY <1>6, <1>7

\* A flight has K windows at most.
LEMMA FlightIsSmall ==
  ASSUME TypeOK, NEW s \in Slots
  PROVE  IsFiniteSet(FlightWindows(s)) /\ Cardinality(FlightWindows(s)) <= K
         /\ Cardinality(FlightWindows(s)) \in Nat
<1>1. fl[s].n \in Nat /\ fl[s].n <= K /\ K \in Nat
  BY FlightParts, Settings
<1>2. PICK n \in Nat : n = fl[s].n
  BY <1>1
<1>3. IsFiniteSet(0 .. n - 1) /\ Cardinality(0 .. n - 1) = n
  <2>1. 0 \in Int /\ n - 1 \in Int /\ (n - 1) - 0 + 1 = n /\ (0 > n - 1 => n = 0)
    OBVIOUS
  <2> QED
    BY <2>1, FS_Interval
<1> DEFINE f == [x \in 0 .. n - 1 |-> fl[s].wins[x].w]
<1>4. f \in Surjection(0 .. n - 1, FlightWindows(s))
  BY <1>2 DEF Surjection, FlightWindows
<1>5. IsFiniteSet(FlightWindows(s)) /\ Cardinality(FlightWindows(s)) <= n
  BY <1>3, <1>4, FS_Surjection
<1>6. Cardinality(FlightWindows(s)) \in Nat
  BY <1>5, FS_CardinalityType
<1> QED
  BY <1>1, <1>2, <1>5, <1>6

LEMMA LossStep ==
  ASSUME TypeOK, Control, Progress, Filled, Content, Submittal, KnownPassed, TakenCounts,
         LossBound, [Next]_vars
  PROVE  LossBound'
<1>1. IsFiniteSet(taken')
  BY TakenMoves, FS_AddElement DEF LossBound
<1>2. IsFiniteSet(AtRisk) /\ IsFiniteSet(AtRisk')
  <2>1. AtRisk \subseteq taken /\ AtRisk' \subseteq taken'
    BY DEF AtRisk
  <2> QED
    BY <1>1, <2>1, FS_Subset DEF LossBound
<1>3. /\ Cardinality(AtRisk) \in Nat /\ Cardinality(AtRisk') \in Nat
      /\ Cardinality(AtRisk) <= K * (config.faults - faults)
  BY <1>2, FS_CardinalityType DEF LossBound
<1>4. /\ config' = config /\ faults \in Nat /\ config.faults \in Nat /\ faults <= config.faults
      /\ faults' = faults \/ faults' = faults - 1
  BY FaultsMove
<1>5. CASE faults' = faults
  <2>1. AtRisk' \subseteq AtRisk
    BY <1>5, RiskMoves
  <2>2. Cardinality(AtRisk') <= Cardinality(AtRisk)
    BY <1>2, <2>1, FS_Subset
  <2>3. config.faults' - faults' = config.faults - faults
    BY <1>4, <1>5
  <2>4. Cardinality(AtRisk') <= K * (config.faults - faults)
    <3>1. K * (config.faults - faults) \in Int
      BY <1>4, Settings
    <3> QED
      BY <1>3, <2>2, <3>1
  <2> QED
    BY <1>1, <2>3, <2>4 DEF LossBound
<1>6. CASE faults' = faults - 1
  <2>1. Hit \in Slots
    BY Turn DEF Hit, TypeOK
  <2>2. PICK s \in Slots : s = Hit
    BY <2>1
  <2>3. AtRisk' \subseteq AtRisk \cup FlightWindows(s)
    BY <1>4, <1>6, <2>2, RiskMoves
  <2>4. /\ IsFiniteSet(FlightWindows(s)) /\ Cardinality(FlightWindows(s)) <= K
        /\ Cardinality(FlightWindows(s)) \in Nat
    BY FlightIsSmall
  <2>5. /\ IsFiniteSet(AtRisk \cup FlightWindows(s))
        /\ Cardinality(AtRisk \cup FlightWindows(s)) <= Cardinality(AtRisk) + Cardinality(FlightWindows(s))
    <3>1. IsFiniteSet(AtRisk \cup FlightWindows(s))
      BY <1>2, <2>4, FS_Union
    <3>2. Cardinality(AtRisk \cup FlightWindows(s)) = Cardinality(AtRisk)
            + Cardinality(FlightWindows(s)) - Cardinality(AtRisk \cap FlightWindows(s))
      BY <1>2, <2>4, FS_Union
    <3>3. Cardinality(AtRisk \cap FlightWindows(s)) \in Nat
      BY <1>2, FS_Intersection, FS_CardinalityType
    <3> QED
      BY <1>3, <2>4, <3>1, <3>2, <3>3
  <2>6. /\ Cardinality(AtRisk') <= Cardinality(AtRisk \cup FlightWindows(s))
        /\ Cardinality(AtRisk \cup FlightWindows(s)) \in Nat
    BY <2>3, <2>5, FS_Subset, FS_CardinalityType
  <2>7. Cardinality(AtRisk') <= K * (config.faults - faults) + K
    <3>1. K * (config.faults - faults) \in Int /\ K \in Nat
      BY <1>4, Settings
    <3> QED
      BY <1>3, <2>4, <2>5, <2>6, <3>1
  <2>8. K * (config.faults - faults) + K = K * (config.faults' - faults')
    <3>1. config.faults' = config.faults /\ K \in Nat
      BY <1>4, Settings
    <3>2. \A f, g \in Nat : K * (f - g) + K = K * (f - (g - 1))
      BY <3>1
    <3> QED
      BY <1>4, <1>6, <3>1, <3>2
  <2> QED
    BY <1>1, <2>7, <2>8 DEF LossBound
<1> QED
  BY <1>4, <1>5, <1>6

-----------------------------------------------------------------------------
(* The inductive invariant                                                  *)

IInv ==
  /\ TypeOK /\ Control /\ Progress /\ Snapped /\ Filled
  /\ Submittal /\ Content /\ Results /\ Marked /\ Order /\ LossBound
  /\ OwnResults /\ UnderItsWork /\ NeverTwice

LEMMA IInvInit == Init => IInv
<1> SUFFICES ASSUME Init PROVE IInv
  OBVIOUS
<1>1. TypeOK
  BY TypeInit
<1>2. /\ pc = "snap" /\ ret = "row" /\ snap = 0 /\ gen = 0 /\ seq = 0 /\ row = 0 /\ stop = FALSE
      /\ chain_on = config.chain /\ row_marked = FALSE /\ pend = NoPend
      /\ scans = {} /\ taken = {} /\ again = FALSE /\ faults = config.faults
      /\ \A s \in Slots : fl[s] = NewFlight
  BY DEF Init
<1>3. /\ 0 \in Slots /\ 1 \in Slots
      /\ \A s \in Slots : fl[s].n = 0 /\ fl[s].total = 0 /\ ~fl[s].active
  BY <1>2 DEF Slots, NewFlight
<1>4. Control /\ Progress /\ Snapped
  BY <1>2, <1>3 DEF Control, Progress, Snapped, At, Dealing, Scanning, InNonce
<1>5. Filled
  <2>1. Idle(0) /\ Idle(1)
    BY <1>3 DEF Idle
  <2>2. W_in = 0
    <3>1. 0 \in 0 .. 2 * K - 1 /\ K \in Nat /\ K > 0
      BY Settings
    <3> QED
      BY <1>2, <3>1, Turns DEF W_in
  <2> QED
    BY <1>2, <2>1, <2>2 DEF Filled, At, Dealing, Scanning
<1>6. Submittal /\ Results /\ Marked
  BY <1>2, <1>3 DEF Submittal, Results, Marked, Scanning, InNonce, At, Dealing, NoPend
<1>7. Content
  <2> SUFFICES ASSUME NEW s \in Slots PROVE Matches(s)
    BY DEF Content
  <2>1. fl[s].n = 0 /\ fl[s].total = 0
    BY <1>3
  <2>2. Cum(s, 0) = 0
    BY CumCounts DEF Cum, CumOf
  <2> QED
    BY <2>1, <2>2 DEF Matches
<1>8. Order
  <2>1. Known = {}
    BY <1>2, <1>3 DEF Known, ScannedWindows, FlightWindows
  <2> QED
    BY <1>2, <1>3, <2>1 DEF Order, KnownPassed, Unscanned, TakenCounts, Distinct
<1>9. LossBound
  <2>1. IsFiniteSet(taken) /\ AtRisk = {}
    BY <1>2, FS_EmptySet DEF AtRisk
  <2>2. Cardinality(AtRisk) = 0
    BY <2>1, FS_EmptySet
  <2>3. K \in Nat /\ config.faults \in Nat
    BY <1>1, Settings DEF TypeOK
  <2>4. K * (config.faults - faults) = 0
    BY <1>2, <2>3
  <2> QED
    BY <2>1, <2>2, <2>4 DEF LossBound
<1>10. OwnResults /\ UnderItsWork /\ NeverTwice
  BY <1>2 DEF OwnResults, UnderItsWork, NeverTwice
<1> QED
  BY <1>1, <1>4, <1>5, <1>6, <1>7, <1>8, <1>9, <1>10 DEF IInv

LEMMA IInvStep == IInv /\ [Next]_vars => IInv'
<1> SUFFICES ASSUME IInv, [Next]_vars PROVE IInv'
  OBVIOUS
<1>1. /\ TypeOK /\ Control /\ Progress /\ Snapped /\ Filled
      /\ Submittal /\ Content /\ Results /\ Marked /\ LossBound
      /\ KnownPassed /\ Unscanned /\ TakenCounts /\ Distinct
      /\ OwnResults /\ UnderItsWork /\ NeverTwice
  BY DEF IInv, Order
<1>2. TypeOK'
  BY <1>1, TypeStep
<1>3. Control' /\ Progress' /\ Snapped'
  BY <1>1, ControlStep, ProgressStep, SnappedStep
<1>4. Filled' /\ Marked'
  BY <1>1, FilledStep, MarkedStep
<1>5. Content' /\ Submittal' /\ Results'
  BY <1>1, ContentStep, SubmittalStep, ResultsStep
<1>6. OwnResults' /\ UnderItsWork'
  BY <1>1, OwnStep
<1>7. KnownPassed' /\ TakenCounts' /\ Distinct'
  BY <1>1, KnownStep, DistinctStep
<1>8. Unscanned' /\ NeverTwice'
  BY <1>1, OnceStep
<1>9. LossBound'
  BY <1>1, LossStep
<1> QED
  BY <1>2, <1>3, <1>4, <1>5, <1>6, <1>7, <1>8, <1>9 DEF IInv, Order

LEMMA IInvAlways == Spec => []IInv
BY IInvInit, IInvStep, PTL DEF Spec

\* What is lost was at risk.
LEMMA LossIsBounded == IInv => LossPerFailure
<1> SUFFICES ASSUME IInv PROVE LossPerFailure
  OBVIOUS
<1>1. IsFiniteSet(taken) /\ Cardinality(AtRisk) <= K * (config.faults - faults)
  BY DEF IInv, LossBound
<1>2. \A s \in Slots : Secure(s) \subseteq Awaited(s)
  <2> SUFFICES ASSUME NEW s \in Slots, NEW w \in Secure(s) PROVE w \in Awaited(s)
    OBVIOUS
  <2>1. PICK y \in 0 .. fl[s].n - 1 : Kept(s, y) /\ fl[s].wins[y].w = w
    BY DEF Secure
  <2>2. pc # "done" /\ (\/ fused \/ chain_on \/ fl[s].active
                        \/ (cur = s /\ pc \in Scanning))
    BY <2>1 DEF Kept, Due, Scanning
  <2> QED
    BY <2>1, <2>2 DEF Awaited, Scanning
<1>3. Lost \subseteq AtRisk
  BY <1>2 DEF Lost, AtRisk, ScannedWindows, Slots
<1>4. IsFiniteSet(AtRisk)
  BY <1>1, FS_Subset DEF AtRisk
<1>5. Cardinality(Lost) <= Cardinality(AtRisk) /\ IsFiniteSet(Lost)
  BY <1>3, <1>4, FS_Subset
<1>6. Cardinality(Lost) \in Nat /\ Cardinality(AtRisk) \in Nat
  BY <1>4, <1>5, FS_CardinalityType
<1>7. K * (config.faults - faults) \in Int
  <2>1. config.faults \in Nat /\ faults \in Nat /\ K \in Nat
    BY Settings DEF IInv, TypeOK
  <2> QED
    BY <2>1
<1> QED
  BY <1>1, <1>5, <1>6, <1>7 DEF LossPerFailure

-----------------------------------------------------------------------------
(* What holds of every behaviour of the worker                              *)

\* The worker's state keeps its types: counts stay within a flight, places
\* within the rows of a nonce, whatever fails (crt_worker_fn_gpu).
THEOREM CrtTypeCorrect == Spec => []TypeOK
<1>1. IInv => TypeOK
  BY DEF IInv
<1> QED
  BY <1>1, IInvAlways, PTL

\* A window is scanned with the results of its own candidates: those built from
\* its base and left by its own marking, though bitmaps, arenas and device
\* buffers are used again and again while two flights are under way.
THEOREM ResultsAreOwn == Spec => []OwnResults
<1>1. IInv => OwnResults
  BY DEF IInv
<1> QED
  BY <1>1, IInvAlways, PTL

\* A window is scanned under the generation of the work its base comes from,
\* also when its flight outlives that work.
THEOREM ScansUnderWork == Spec => []UnderItsWork
<1>1. IInv => UnderItsWork
  BY DEF IInv
<1> QED
  BY <1>1, IInvAlways, PTL

\* No window is scanned twice, by a drain and a collect, or by a chain that failed
\* half way and the test of the whole flight after it.
THEOREM ScannedOnlyOnce == Spec => []NeverTwice
<1>1. IInv => NeverTwice
  BY DEF IInv
<1> QED
  BY <1>1, IInvAlways, PTL

\* Every failure of the device costs the windows of one flight at most; without a
\* failure every window taken into a flight is scanned or waits in a flight that
\* will be.
THEOREM FailureCostsOneFlight == Spec => []LossPerFailure
BY LossIsBounded, IInvAlways, PTL
=============================================================================
