---------------------------- MODULE GapHuntProofs ----------------------------
(***************************************************************************)
(* Proofs about GapHunt, for flights of any size and walks of any length   *)
(* and settings: wherever a walk fails, is stopped or is killed, no window *)
(* below the saved position is lost, the walk implements RangeWalk, and    *)
(* what a restart repeats is bounded.                                      *)
(***************************************************************************)
EXTENDS GapHunt, TLAPS

-----------------------------------------------------------------------------
(* The invariant                                                            *)

\* The first n windows of a flight that begins at k0 are packed: each has
\* cells of its own, with its own candidates.
Packed(defer, b, n, k0) ==
  \A w \in 0 .. n - 1 :
    /\ b.base[w] = k0 + w
    /\ b.cum[w] \in Cells
    /\ IF defer THEN b.cum[w] = w ELSE b.cum[w] < b.used
    /\ b.cands[b.cum[w]] = [base |-> k0 + w, marks |-> k0 + w]
Filled(b, n, k0) == Packed(config.defer, b, n, k0)
Full(s) == Filled(flights[s].pack, K, Base(s))

\* The host knows which window the residues on the device stand for.
EngineOk(e) == e.res_valid => e.dev_k = e.res_k

Looping  == \/ pc \in {"loop", "refill", "fill", "filled", "reserve", "scan", "finish", "tick"}
            \/ pc = "process" /\ ret \in {"refill", "tick"}
Draining == \/ pc \in {"drain0", "drain1", "final"}
            \/ pc = "process" /\ ret \in {"drain1", "final"}

\* Which flights may be in which state, and where.
Roles ==
  /\ \A s \in {0, 1} : flights[s].active => Mode = "plain" /\ flights[s].n
  /\ pc \in {"reserve", "scan", "finish"} => Mode = "jump2"
  /\ pc \in {"refill", "fill", "filled"} => ~flights[turn].active
  /\ pc = "process" =>
       /\ ret \in {"refill", "tick"} => cur = turn
       /\ ret # "tick"   => Mode = "plain"
       /\ ret = "tick"   => ~flights[cur].active
       /\ ret = "drain1" => cur = 0
       /\ ret = "final"  => cur = 1 /\ ~flights[0].active
  /\ pc \in {"drain1", "final"} => ~flights[0].active
  /\ pc = "final" => ~flights[1].active
  /\ Looping => exit_status = 0

\* The prefetched flight is the other one until the turn goes to it.
PrefOk ==
  pref.b # None =>
    /\ Mode = "jump2"
    /\ pc \in {"loop", "refill"} => pref.b = turn
    /\ pc \in {"scan", "finish", "process", "tick"} => pref.b = Other(turn)
    /\ pc \notin {"fill", "filled", "reserve"}
    /\ pc \in {"loop", "refill", "tick", "process"} => pref.done
    /\ ~pref.failed => Filled(flights[pref.b].pack, pref.next_i, pref.k0)
    /\ pref.done => pref.next_i = K /\ flights[pref.b].n

\* A flight is full when it counts as filled, and nobody fills it then.
Packs ==
  /\ EngineOk(eng)
  /\ \A s \in {0, 1} : flights[s].n => Full(s)
  /\ \A s \in {0, 1} : flights[s].active /\ ~flights[s].running =>
                         flights[s].mr = flights[s].pack.cands
  /\ pc = "fill" => Filled(flights[turn].pack, i, next_k)
  /\ pc = "filled" => Base(turn) = next_k
  /\ pc \in {"filled", "reserve", "scan", "finish"} => flights[turn].n
  /\ pc = "finish" => flights[turn].mr = flights[turn].pack.cands
  /\ pc = "process" => /\ flights[cur].n
                       /\ flights[cur].total = 0 \/ flights[cur].mr = flights[cur].pack.cands
  /\ Looping => \A s \in {0, 1} : flights[s].n =>
       \/ flights[s].active
       \/ pref.b = s /\ pref.done
       \/ pc \in {"filled", "reserve", "scan", "finish"} /\ s = turn
       \/ pc = "process" /\ s = cur

\* Every window below the position of the walk is in the output or in hand.
Win(b) == b .. b + K - 1
InFlight(k) == \E s \in {0, 1} : flights[s].active /\ k \in Win(Base(s))
InPref(k)   == pref.b # None /\ k \in Win(pref.k0)
InTurn(k)   == pc \in {"reserve", "scan", "finish"} /\ k \in Win(Base(turn))
InProc(k)   == pc = "process" /\ k \in Win(Base(cur))
Accounted ==
  /\ Looping => \A k \in 0 .. next_k - 1 :
                  k \in out \/ InFlight(k) \/ InPref(k) \/ InTurn(k) \/ InProc(k)
  /\ pc = "exit" => \A k \in 0 .. ExitPosition - 1 : k \in out \/ InFlight(k)
  /\ Draining => \A k \in 0 .. save_k - 1 : k \in out \/ InFlight(k) \/ InProc(k)
  /\ pc = "process" => \A w \in 0 .. i - 1 : Base(cur) + w \in out

\* What is in hand lies below the position of the walk.
Ahead ==
  Looping =>
    /\ \A s \in {0, 1} : flights[s].active => Base(s) <= next_k
    /\ pref.b # None => pref.k0 <= next_k
    /\ pc \in {"reserve", "scan", "finish"} => Base(turn) <= next_k

\* The saved position has not passed anything in hand.
SavedBehind ==
  /\ Looping => saved <= next_k
  /\ \A s \in {0, 1} : flights[s].active => saved <= Base(s)
  /\ pref.b # None => saved <= pref.k0
  /\ pc \in {"reserve", "scan", "finish"} => saved <= Base(turn)
  /\ pc = "exit" => saved <= ExitPosition
  /\ Draining => saved <= save_k

Rest == /\ Roles /\ PrefOk /\ Packs
        /\ Accounted /\ Ahead /\ SavedBehind /\ NoWindowSkipped
IInv == TypeOK /\ Rest

-----------------------------------------------------------------------------
(* The fill of a flight                                                     *)

LEMMA Constants == /\ K \in Nat \ {0} /\ MLimit \in Nat /\ CandCap \in Nat /\ K <= CandCap
                   /\ Tick \in Nat \ {0} /\ IndexLimit \in Nat /\ K <= IndexLimit
BY FillAssumption, WalkAssumption

\* The cache, with what is folded in, stands for the window at hand.
LEMMA MarkRight ==
  ASSUME NEW e \in Engine, EngineOk(e), NEW k \in Nat
  PROVE  MarksFor(e, k) = k
<1>1. e.res_k \in Nat
  BY DEF Engine
<1>2. CASE CanFold(e, k)
  BY <1>1, <1>2 DEF CanFold, EngineOk, MarksFor
<1>3. CASE ~CanFold(e, k) /\ CanStep(e, k)
  BY <1>1, <1>3 DEF CanStep, EngineOk, MarksFor
<1>4. CASE ~CanFold(e, k) /\ ~CanStep(e, k)
  BY <1>4 DEF MarksFor
<1> QED BY <1>2, <1>3, <1>4

LEMMA MarkedOk ==
  ASSUME NEW e \in Engine, EngineOk(e), NEW j \in Nat, NEW k \in Nat
  PROVE  /\ Marked(e, j, k) \in Engine /\ EngineOk(Marked(e, j, k))
         /\ Marked(e, j, k).bitmap[j % 2] = k
<1> DEFINE m == Marked(e, j, k)
<1>1. MarksFor(e, k) = k
  BY MarkRight
<1>2. j % 2 \in {0, 1} /\ k \in Windows
  BY DEF Windows
<1>3. /\ e.res_k \in Nat /\ e.dev_k \in Windows /\ e.bitmap \in [{0, 1} -> Windows]
  BY DEF Engine
<1>4. /\ m.res_k = IF CanFold(e, k) THEN e.res_k ELSE k
      /\ m.dev_k = IF CanFold(e, k) THEN e.dev_k ELSE k
      /\ m.bitmap = [e.bitmap EXCEPT ![j % 2] = k]
  BY <1>1 DEF Marked, Engine
<1>5. [e.bitmap EXCEPT ![j % 2] = k] \in [{0, 1} -> Windows]
  BY <1>2, <1>3
<1>6. m \in Engine
  BY <1>1, <1>2, <1>3, <1>5 DEF Engine, Marked
<1>7. m.bitmap[j % 2] = k
  BY <1>2, <1>3, <1>4
<1>8. EngineOk(m)
  <2>1. CASE CanFold(e, k)
    BY <1>4, <2>1 DEF EngineOk, CanFold
  <2>2. CASE ~CanFold(e, k)
    BY <1>4, <2>2 DEF EngineOk
  <2> QED BY <2>1, <2>2
<1> QED BY <1>6, <1>7, <1>8

LEMMA MarkFailedOk ==
  ASSUME NEW e \in Engine, NEW j \in Nat, NEW k \in Nat
  PROVE  MarkFailed(e, j, k) \in Engine /\ EngineOk(MarkFailed(e, j, k))
<1> DEFINE m == MarkFailed(e, j, k)
<1>2. j % 2 \in {0, 1} /\ Torn \in Windows
  BY DEF Windows
<1>3. /\ e.res_k \in Nat /\ e.dev_k \in Windows /\ e.bitmap \in [{0, 1} -> Windows]
  BY DEF Engine
<1>4. m.res_valid = FALSE
  BY DEF MarkFailed, Engine
<1>5. [e.bitmap EXCEPT ![j % 2] = Torn] \in [{0, 1} -> Windows]
  BY <1>2, <1>3
<1>6. m \in Engine
  BY <1>2, <1>3, <1>5 DEF Engine, MarkFailed
<1> QED BY <1>4, <1>6 DEF EngineOk

\* Less of a filled flight is filled, and naming the bases of later windows
\* changes nothing.
LEMMA FilledLess ==
  ASSUME NEW b, NEW n \in Nat, NEW k0, Filled(b, n + 1, k0)
  PROVE  Filled(b, n, k0)
BY DEF Filled, Packed

LEMMA NamedPack ==
  ASSUME NEW b \in Pack, NEW n \in Slots, NEW k \in Nat
  PROVE  /\ [b EXCEPT !.base[n] = k] \in Pack
         /\ [b EXCEPT !.base[n] = k].base[n] = k
         /\ \A w \in Slots : w # n => [b EXCEPT !.base[n] = k].base[w] = b.base[w]
         /\ [b EXCEPT !.base[n] = k].cum = b.cum
         /\ [b EXCEPT !.base[n] = k].cands = b.cands
         /\ [b EXCEPT !.base[n] = k].used = b.used
BY DEF Pack

\* A window is packed behind the others.
LEMMA ExtractFills ==
  ASSUME NEW e \in Engine, NEW b \in Pack, NEW n \in Slots, NEW k0 \in Nat,
         Filled(b, n, k0), b.base[n] = k0 + n, e.bitmap[n % 2] = k0 + n, HasRoom(b, n)
  PROVE  /\ Extracted(e, b, n, k0 + n) \in Pack
         /\ Extracted(e, b, n, k0 + n).base = b.base
         /\ Filled(Extracted(e, b, n, k0 + n), n + 1, k0)
<1> DEFINE p == Place(b, n)
           x == Extracted(e, b, n, k0 + n)
           c == [base |-> k0 + n, marks |-> k0 + n]
<1>0. n \in Nat /\ n < K /\ K \in Nat /\ CandCap \in Nat
  BY Constants DEF Slots
<1>1. p \in Nat /\ p < CandCap /\ p \in Cells
  BY <1>0 DEF Place, HasRoom, Pack, Cells
<1>2. c \in Cell
  BY <1>0 DEF Cell, Windows
<1>3. /\ x.base = b.base /\ x.cum = [b.cum EXCEPT ![n] = p] /\ x.used = p + 1
      /\ x.cands = [b.cands EXCEPT ![p] = c]
  BY DEF Extracted, Pack
<1>4. /\ b.base \in [Slots -> Nat] /\ b.cum \in [Slots -> Nat]
      /\ b.cands \in [Cells -> Cell] /\ b.used \in Nat
  BY DEF Pack
<1> HIDE DEF p, c, x
<1>5. x \in Pack
  <2> DEFINE f == [b.cum EXCEPT ![n] = p]
             g == [b.cands EXCEPT ![p] = c]
  <2>1. f \in [Slots -> Nat] /\ g \in [Cells -> Cell] /\ p + 1 \in Nat
    BY <1>1, <1>2, <1>4
  <2>2. x = [b EXCEPT !.cum = f, !.used = p + 1, !.cands = g]
    BY DEF Extracted, x, p, c
  <2> HIDE DEF f, g
  <2> QED BY <2>1, <2>2 DEF Pack
<1>6. ASSUME NEW w \in 0 .. n
      PROVE  /\ x.base[w] = k0 + w
             /\ x.cum[w] \in Cells
             /\ IF config.defer THEN x.cum[w] = w ELSE x.cum[w] < x.used
             /\ x.cands[x.cum[w]] = [base |-> k0 + w, marks |-> k0 + w]
  <2>0. w \in Slots /\ w \in Nat
    BY <1>0 DEF Slots
  <2>1. CASE w = n
    <3>1. x.cum[w] = p /\ x.cands[p] = c /\ x.used = p + 1
      BY <1>1, <1>3, <1>4, <2>0, <2>1
    <3>2. config.defer => p = n
      BY DEF p, Place
    <3> QED BY <1>1, <1>3, <2>1, <3>1, <3>2 DEF c
  <2>2. CASE w # n
    <3>1. /\ b.base[w] = k0 + w /\ b.cum[w] \in Cells
          /\ IF config.defer THEN b.cum[w] = w ELSE b.cum[w] < b.used
          /\ b.cands[b.cum[w]] = [base |-> k0 + w, marks |-> k0 + w]
      BY <1>0, <2>2 DEF Filled, Packed
    <3>2. b.cum[w] # p /\ (~config.defer => b.cum[w] < p)
      BY <1>0, <1>4, <2>0, <2>2, <3>1 DEF p, Place
    <3>3. x.cum[w] = b.cum[w] /\ x.used = p + 1 /\ x.base[w] = b.base[w]
      BY <1>3, <1>4, <2>0, <2>2
    <3>4. x.cands[b.cum[w]] = b.cands[b.cum[w]]
      BY <1>3, <1>4, <3>1, <3>2
    <3>5. b.cum[w] \in Nat /\ (b.cum[w] < p => b.cum[w] < p + 1)
      BY <1>1, <1>4, <2>0
    <3> QED BY <3>1, <3>2, <3>3, <3>4, <3>5
  <2> QED BY <2>1, <2>2
<1>7. 0 .. (n + 1) - 1 = 0 .. n
  BY <1>0
<1>8. Filled(x, n + 1, k0)
  BY <1>6, <1>7 DEF Filled, Packed
<1> QED BY <1>3, <1>5, <1>8 DEF x

\* What every outcome of a step of the fill is, n windows being packed if it
\* succeeds.
Good(o, n, k0) ==
  /\ o.e \in Engine /\ EngineOk(o.e) /\ o.b \in Pack /\ o.faults \in Nat
  /\ o.ok => Filled(o.b, n, k0)

LEMMA Outcomes ==
  ASSUME NEW f \in Nat, NEW e \in Engine, EngineOk(e), NEW b \in Pack, NEW n, NEW k0
  PROVE  /\ Good(Outcome(FALSE, f, e, b), n, k0)
         /\ \A o : (o.ok => Filled(b, n, k0)) => Good(Outcome(o.ok, f, e, b), n, k0)
         /\ Filled(b, n, k0) => Good(Outcome(TRUE, f, e, b), n, k0)
<1>1. ASSUME NEW ok, ok => Filled(b, n, k0)
      PROVE  Good(Outcome(ok, f, e, b), n, k0)
  <2> DEFINE q == Outcome(ok, f, e, b)
  <2>1. q.e = e /\ q.b = b /\ q.faults = f
    BY DEF Outcome
  <2>2. q.ok = ok
    BY Zenon DEF Outcome
  <2> HIDE DEF q
  <2>3. q.ok => Filled(b, n, k0)
    BY <1>1, <2>2, Zenon
  <2>4. Good(q, n, k0)
    BY <2>1, <2>3, Zenon DEF Good
  <2> QED BY <2>4 DEF q
<1> QED BY <1>1, Zenon

LEMMA NamedFilled ==
  ASSUME NEW b, NEW x, NEW n \in Slots, NEW k0, Filled(b, n, k0),
         \A w \in 0 .. n - 1 : x.base[w] = b.base[w],
         x.cum = b.cum, x.cands = b.cands, x.used = b.used
  PROVE  Filled(x, n, k0)
BY DEF Filled, Packed

LEMMA OneWindowGood ==
  ASSUME NEW e \in Engine, EngineOk(e), NEW b \in Pack, NEW n \in Slots, NEW k0 \in Nat,
         Filled(b, n, k0), NEW o \in OneWindow(e, b, n, k0 + n)
  PROVE  Good(o, n + 1, k0)
<1> DEFINE k  == k0 + n
           nb == [b EXCEPT !.base[n] = k]
           m  == Marked(e, n, k)
           f  == MarkFailed(e, n, k)
           x  == Extracted(m, nb, n, k)
<1>1. n \in Nat /\ k \in Nat
  BY Constants DEF Slots
<1>2. /\ m \in Engine /\ EngineOk(m) /\ m.bitmap[n % 2] = k
      /\ f \in Engine /\ EngineOk(f)
  BY <1>1, MarkedOk, MarkFailedOk
<1>3. nb \in Pack /\ nb.base[n] = k
  BY <1>1, NamedPack
<1>4. Filled(nb, n, k0)
  <2>1. \A w \in 0 .. n - 1 : w \in Slots /\ w # n
    BY Constants DEF Slots
  <2>2. /\ \A w \in 0 .. n - 1 : nb.base[w] = b.base[w]
        /\ nb.cum = b.cum /\ nb.cands = b.cands /\ nb.used = b.used
    BY <1>1, <2>1, NamedPack
  <2> HIDE DEF nb
  <2> QED BY <2>2, NamedFilled
<1>5. HasRoom(nb, n) => x \in Pack /\ Filled(x, n + 1, k0)
  <2> HIDE DEF nb, m
  <2> QED BY <1>2, <1>3, <1>4, ExtractFills
<1>6. \/ o = Outcome(FALSE, 0, e, nb)
      \/ o = Outcome(FALSE, 1, f, nb)
      \/ o = Outcome(FALSE, 1, m, nb)
      \/ o = Outcome(FALSE, 0, m, nb)
      \/ HasRoom(nb, n) /\ o = Outcome(TRUE, 0, m, x)
  <2>1. OneWindow(e, b, n, k) =
          IF ~Fits(k) THEN {Outcome(FALSE, 0, e, nb)}
          ELSE {Outcome(FALSE, 1, f, nb)} \cup
               IF HasRoom(nb, n) THEN {Outcome(FALSE, 1, m, nb), Outcome(TRUE, 0, m, x)}
                                 ELSE {Outcome(FALSE, 0, m, nb)}
    BY DEF OneWindow
  <2> HIDE DEF nb, m, f, x, k
  <2>2. o \in OneWindow(e, b, n, k)
    BY DEF k
  <2> QED BY <2>1, <2>2
<1> HIDE DEF nb, m, f, x, k
<1>7. CASE HasRoom(nb, n) /\ o = Outcome(TRUE, 0, m, x)
  BY <1>2, <1>5, <1>7, Outcomes DEF Good
<1>8. CASE o = Outcome(FALSE, 0, e, nb) \/ o = Outcome(FALSE, 1, f, nb)
  BY <1>2, <1>3, <1>8, Outcomes DEF Good
<1>9. CASE o = Outcome(FALSE, 1, m, nb) \/ o = Outcome(FALSE, 0, m, nb)
  BY <1>2, <1>3, <1>9, Outcomes DEF Good
<1> QED BY <1>6, <1>7, <1>8, <1>9

LEMMA TwoWindowsGood ==
  ASSUME NEW e \in Engine, EngineOk(e), NEW b \in Pack, NEW n \in Slots, n + 1 \in Slots,
         NEW k0 \in Nat, Filled(b, n, k0), NEW m \in Nat,
         NEW o \in TwoWindows(m, e, b, n, k0 + n)
  PROVE  Good(o, n + 2, k0)
<1>1. n \in Nat
  BY DEF Slots
<1>2. PICK q \in OneWindow(e, b, n, k0 + n) :
        \/ /\ q.ok
           /\ \E p \in OneWindow(q.e, q.b, n + 1, k0 + n + 1) :
                o = Outcome(p.ok, m + q.faults + p.faults, p.e, p.b)
        \/ ~q.ok /\ o = Outcome(FALSE, m + q.faults, q.e, q.b)
  BY DEF TwoWindows
<1>3. Good(q, n + 1, k0)
  BY OneWindowGood
<1>4. CASE ~q.ok
  <2>1. q.e \in Engine /\ EngineOk(q.e) /\ q.b \in Pack /\ m + q.faults \in Nat
    BY <1>3 DEF Good
  <2>2. o = Outcome(FALSE, m + q.faults, q.e, q.b)
    BY <1>2, <1>4
  <2> QED BY <2>1, <2>2, Outcomes, Zenon
<1>5. CASE q.ok
  <2>1. PICK p \in OneWindow(q.e, q.b, n + 1, k0 + (n + 1)) :
          o = Outcome(p.ok, m + q.faults + p.faults, p.e, p.b)
    <3>1. k0 + n + 1 = k0 + (n + 1)
      BY <1>1
    <3> QED BY <1>2, <1>5, <3>1
  <2>2. Good(p, (n + 1) + 1, k0)
    BY <1>3, <1>5, OneWindowGood DEF Good
  <2>3. (n + 1) + 1 = n + 2
    BY <1>1
  <2>4. /\ p.e \in Engine /\ EngineOk(p.e) /\ p.b \in Pack
        /\ m + q.faults + p.faults \in Nat
    BY <1>3, <2>2 DEF Good
  <2>5. p.ok => Filled(p.b, n + 2, k0)
    BY <2>2, <2>3 DEF Good
  <2> QED BY <2>1, <2>4, <2>5, Outcomes, Zenon
<1> QED BY <1>4, <1>5

LEMMA PairGood ==
  ASSUME NEW e \in Engine, EngineOk(e), NEW b \in Pack, NEW n \in Slots, n + 1 \in Slots,
         n % 2 = 0, NEW k0 \in Nat, Filled(b, n, k0), NEW o \in Pair(e, b, n, k0 + n)
  PROVE  Good(o, n + 2, k0)
<1> DEFINE k  == k0 + n
           b1 == [b EXCEPT !.base[n] = k]
           nb == [b EXCEPT !.base[n] = k, !.base[n + 1] = k + 1]
           m  == PairMarked(e, k)
           d  == PairDeclined(e)
           a  == Extracted(m, nb, n, k)
           c  == Extracted(m, a, n + 1, k + 1)
<1>1. n \in Nat /\ k \in Nat /\ k + 1 \in Nat /\ k + 1 = k0 + (n + 1)
  BY DEF Slots
<1>2. /\ m \in Engine /\ EngineOk(m) /\ m.bitmap[0] = k /\ m.bitmap[1] = k + 1
      /\ d \in Engine /\ EngineOk(d)
  <2>1. MarksFor(e, k) = k /\ MarksFor(e, k + 1) = k + 1
    BY <1>1, MarkRight
  <2> DEFINE f == [x \in {0, 1} |-> MarksFor(e, k + x)]
             g == [x \in {0, 1} |-> Torn]
  <2>2. f[0] = k /\ f[1] = k + 1
    BY <1>1, <2>1
  <2>3. f \in [{0, 1} -> Windows] /\ g \in [{0, 1} -> Windows]
    BY <1>1, <2>2 DEF Windows
  <2>4. m = [e EXCEPT !.bitmap = f] /\ d = [e EXCEPT !.bitmap = g]
    BY DEF PairMarked, PairDeclined
  <2> HIDE DEF f, g, m, d
  <2> QED BY <2>2, <2>3, <2>4 DEF Engine, EngineOk
<1>3. /\ b1 \in Pack /\ b1.base[n] = k
      /\ \A w \in Slots : w # n => b1.base[w] = b.base[w]
      /\ b1.cum = b.cum /\ b1.cands = b.cands /\ b1.used = b.used
  BY <1>1, NamedPack
<1>4. nb \in Pack /\ nb.base[n] = k /\ nb.base[n + 1] = k + 1 /\ Filled(nb, n, k0)
  <2>1. nb = [b1 EXCEPT !.base[n + 1] = k + 1]
    BY DEF Pack
  <2> HIDE DEF nb, b1
  <2>2. /\ nb \in Pack /\ nb.base[n + 1] = k + 1
        /\ \A w \in Slots : w # n + 1 => nb.base[w] = b1.base[w]
        /\ nb.cum = b1.cum /\ nb.cands = b1.cands /\ nb.used = b1.used
    BY <1>1, <1>3, <2>1, NamedPack
  <2>3. \A w \in 0 .. n - 1 : w \in Slots /\ w # n /\ w # n + 1
    BY <1>1, Constants DEF Slots
  <2>4. \A w \in 0 .. n - 1 : nb.base[w] = b.base[w]
    BY <1>3, <2>2, <2>3
  <2>5. Filled(nb, n, k0)
    BY <1>3, <2>2, <2>4, NamedFilled
  <2>6. nb.base[n] = k
    BY <1>1, <1>3, <2>2
  <2> QED BY <2>2, <2>5, <2>6
<1>5. n % 2 = 0 /\ (n + 1) % 2 = 1
  BY <1>1
<1> HIDE DEF nb, m, d, k
<1>6. HasRoom(nb, n) => /\ a \in Pack /\ a.base = nb.base
                        /\ Filled(a, n + 1, k0) /\ Filled(a, n, k0)
  <2>1. HasRoom(nb, n) => a \in Pack /\ a.base = nb.base /\ Filled(a, n + 1, k0)
    BY <1>2, <1>4, <1>5, ExtractFills DEF k
  <2> QED BY <1>1, <2>1, FilledLess
<1> HIDE DEF a
<1>7. HasRoom(nb, n) /\ HasRoom(a, n + 1) => c \in Pack /\ Filled(c, n + 2, k0)
  <2> SUFFICES ASSUME HasRoom(nb, n), HasRoom(a, n + 1)
               PROVE  c \in Pack /\ Filled(c, n + 2, k0)
    OBVIOUS
  <2>1. /\ a.base[n + 1] = k0 + (n + 1) /\ m.bitmap[(n + 1) % 2] = k0 + (n + 1)
    BY <1>1, <1>2, <1>4, <1>5, <1>6
  <2>2. /\ Extracted(m, a, n + 1, k0 + (n + 1)) \in Pack
        /\ Filled(Extracted(m, a, n + 1, k0 + (n + 1)), (n + 1) + 1, k0)
    BY <1>2, <1>6, <2>1, ExtractFills
  <2>3. (n + 1) + 1 = n + 2
    BY <1>1
  <2> QED BY <1>1, <2>2, <2>3
<1>8. \/ o \in TwoWindows(0, e, b, n, k)
      \/ o \in TwoWindows(1, d, nb, n, k)
      \/ \E f \in {0, 1} : o \in TwoWindows(f, m, nb, n, k)
      \/ HasRoom(nb, n) /\ \E f \in {0, 1} : o \in TwoWindows(f, m, a, n, k)
      \/ HasRoom(nb, n) /\ HasRoom(a, n + 1) /\ o = Outcome(TRUE, 0, m, c)
  <2>1. Pair(e, b, n, k) =
          IF ~(Fits(k) /\ Fits(k + 1)) THEN TwoWindows(0, e, b, n, k)
          ELSE TwoWindows(1, d, nb, n, k)
               \cup TwoWindows(IF HasRoom(nb, n) THEN 1 ELSE 0, m, nb, n, k)
               \cup IF ~HasRoom(nb, n) THEN {}
                    ELSE TwoWindows(IF HasRoom(a, n + 1) THEN 1 ELSE 0, m, a, n, k)
                         \cup IF HasRoom(a, n + 1) THEN {Outcome(TRUE, 0, m, c)} ELSE {}
    BY DEF Pair, nb, m, d, a
  <2> HIDE DEF c
  <2>2. o \in Pair(e, b, n, k)
    BY DEF k
  <2> QED BY <2>1, <2>2
<1>9. CASE o \in TwoWindows(0, e, b, n, k)
  BY <1>9, TwoWindowsGood DEF k
<1>10. CASE o \in TwoWindows(1, d, nb, n, k)
  BY <1>2, <1>4, <1>10, TwoWindowsGood DEF k
<1>11. CASE \E f \in {0, 1} : o \in TwoWindows(f, m, nb, n, k)
  BY <1>2, <1>4, <1>11, TwoWindowsGood DEF k
<1>12. CASE HasRoom(nb, n) /\ \E f \in {0, 1} : o \in TwoWindows(f, m, a, n, k)
  BY <1>2, <1>6, <1>12, TwoWindowsGood DEF k
<1>13. CASE HasRoom(nb, n) /\ HasRoom(a, n + 1) /\ o = Outcome(TRUE, 0, m, c)
  <2> HIDE DEF c
  <2> QED BY <1>2, <1>7, <1>13, Outcomes DEF Good
<1> QED BY <1>8, <1>9, <1>10, <1>11, <1>12, <1>13

\* However windows are marked, alone, from the cache, folded, in pairs or after
\* a fallback, those that are packed have their own candidates.
LEMMA FillStepGood ==
  ASSUME NEW e \in Engine, EngineOk(e), NEW b \in Pack, NEW n \in Slots, NEW k0 \in Nat,
         Filled(b, n, k0), NEW o \in FillStep(e, b, n, k0 + n)
  PROVE  /\ Good(o, n + Quantum(e, n, k0 + n), k0)
         /\ n + Quantum(e, n, k0 + n) \in 0 .. K
<1>1. n \in Nat /\ n < K /\ K \in Nat
  BY Constants DEF Slots
<1>2. CASE Quantum(e, n, k0 + n) = 2
  <2>1. n % 2 = 0 /\ n + 1 \in Slots
    BY <1>1, <1>2 DEF Quantum, Slots
  <2>2. o \in Pair(e, b, n, k0 + n)
    BY <1>2 DEF FillStep
  <2> QED BY <1>1, <1>2, <2>1, <2>2, PairGood DEF Slots
<1>3. CASE Quantum(e, n, k0 + n) = 1
  <2>1. o \in OneWindow(e, b, n, k0 + n)
    BY <1>3 DEF FillStep
  <2> QED BY <1>1, <1>3, <2>1, OneWindowGood
<1> QED BY <1>2, <1>3 DEF Quantum

-----------------------------------------------------------------------------
(* Types                                                                    *)

FlightsType == [{0, 1} -> Flight]
Prefs == [b : {None, 0, 1}, k0 : Nat, next_i : 0 .. K, done : BOOLEAN, failed : BOOLEAN]

LEMMA NewTyped ==
  /\ NewEngine \in Engine /\ EngineOk(NewEngine)
  /\ NewFlight \in Flight /\ ~NewFlight.active /\ ~NewFlight.n
  /\ [s \in {0, 1} |-> NewFlight] \in FlightsType
  /\ NoPref \in Prefs /\ NoPref.b = None
<1>1. None \in Windows /\ 0 \in Nat /\ 0 \in 0 .. K
  BY Constants DEF Windows
<1>2. NewEngine \in Engine
  BY <1>1 DEF NewEngine, Engine
<1>3. EngineOk(NewEngine)
  BY DEF EngineOk, NewEngine
<1>4. NewPack \in Pack
  BY <1>1 DEF NewPack, Pack, Cell, NoCell
<1>5. NewPack.cands \in [Cells -> Cell]
  BY <1>4 DEF Pack
<1>6. NewFlight \in Flight
  BY <1>4, <1>5 DEF NewFlight, Flight
<1>7. ~NewFlight.active /\ ~NewFlight.n
  BY DEF NewFlight
<1>8. NoPref \in Prefs /\ NoPref.b = None
  BY <1>1 DEF NoPref, Prefs
<1> QED BY <1>2, <1>3, <1>6, <1>7, <1>8 DEF FlightsType

\* Each field of a flight, set by itself.
LEMMA SetField ==
  ASSUME NEW f \in FlightsType, NEW s \in {0, 1}
  PROVE  /\ \A x \in BOOLEAN : /\ [f EXCEPT ![s].active = x] \in FlightsType
                               /\ [f EXCEPT ![s].running = x] \in FlightsType
                               /\ [f EXCEPT ![s].n = x] \in FlightsType
         /\ \A x \in Nat : [f EXCEPT ![s].total = x] \in FlightsType
         /\ \A x \in [Cells -> Cell] : [f EXCEPT ![s].mr = x] \in FlightsType
         /\ \A x \in Pack : [f EXCEPT ![s].pack = x] \in FlightsType
         /\ [f EXCEPT ![s].pack.used = 0] \in FlightsType
<1>1. \A x \in BOOLEAN : /\ [f EXCEPT ![s].active = x] \in FlightsType
                         /\ [f EXCEPT ![s].running = x] \in FlightsType
                         /\ [f EXCEPT ![s].n = x] \in FlightsType
  BY DEF FlightsType, Flight
<1>2. \A x \in Nat : [f EXCEPT ![s].total = x] \in FlightsType
  BY DEF FlightsType, Flight
<1>3. \A x \in [Cells -> Cell] : [f EXCEPT ![s].mr = x] \in FlightsType
  BY DEF FlightsType, Flight
<1>4. \A x \in Pack : [f EXCEPT ![s].pack = x] \in FlightsType
  BY DEF FlightsType, Flight
<1>5. [f EXCEPT ![s].pack.used = 0] \in FlightsType
  <2>1. f[s].pack \in Pack
    BY DEF FlightsType, Flight
  <2>2. [f[s].pack EXCEPT !.used = 0] \in Pack
    BY <2>1 DEF Pack
  <2> QED BY <2>2 DEF FlightsType, Flight
<1> QED BY <1>1, <1>2, <1>3, <1>4, <1>5

LEMMA Known ==
  ASSUME TypeOK
  PROVE  /\ flights \in FlightsType /\ pref \in Prefs
         /\ \A s \in {0, 1} : /\ flights[s] \in Flight /\ flights[s].pack \in Pack
                              /\ Base(s) \in Nat /\ flights[s].total \in Nat
                              /\ flights[s].mr \in [Cells -> Cell]
         /\ pref.k0 \in Nat /\ pref.next_i \in 0 .. K
<1>1. flights \in FlightsType /\ pref \in Prefs
  BY DEF TypeOK, FlightsType, Prefs
<1>2. \A s \in {0, 1} : /\ flights[s] \in Flight /\ flights[s].pack \in Pack
                        /\ flights[s].total \in Nat /\ flights[s].mr \in [Cells -> Cell]
  BY <1>1 DEF FlightsType, Flight
<1>3. \A b \in Pack : b.base[0] \in Nat
  BY Constants DEF Pack, Slots
<1>4. \A s \in {0, 1} : Base(s) \in Nat
  BY <1>2, <1>3 DEF Base
<1>5. pref.k0 \in Nat /\ pref.next_i \in 0 .. K
  BY <1>1 DEF Prefs
<1> QED BY <1>1, <1>2, <1>4, <1>5

\* KSafe is one of the positions it is the least of.
HasLeast(S) == S \subseteq Nat /\ \E x \in S : \A y \in S : x <= y

LEMMA LeastAdd ==
  ASSUME NEW S, HasLeast(S), NEW x \in Nat, NEW T \in SUBSET {x}
  PROVE  HasLeast(S \cup T)
<1>1. PICK z \in S : \A y \in S : z <= y
  BY DEF HasLeast
<1>2. CASE x \notin T \/ z <= x
  <2>1. z \in S \cup T /\ \A y \in S \cup T : z <= y
    BY <1>1, <1>2
  <2> QED BY <2>1 DEF HasLeast
<1>3. CASE x \in T /\ ~(z <= x)
  <2>1. z \in Nat /\ x <= x
    BY DEF HasLeast
  <2>2. \A y \in S : y \in Nat /\ x <= y
    BY <1>1, <1>3, <2>1 DEF HasLeast
  <2>3. x \in S \cup T /\ \A y \in S \cup T : x <= y
    BY <1>3, <2>1, <2>2
  <2> QED BY <2>3 DEF HasLeast
<1> QED BY <1>2, <1>3

LEMMA LeastIs ==
  ASSUME NEW S, HasLeast(S)
  PROVE  LeastOf(S) \in S /\ LeastOf(S) \in Nat /\ \A y \in S : LeastOf(S) <= y
BY DEF HasLeast, LeastOf

LEMMA KSafeLeast ==
  ASSUME TypeOK
  PROVE  /\ KSafe \in Nat /\ KSafe <= next_k
         /\ \A s \in {0, 1} : flights[s].active => KSafe <= Base(s)
         /\ pref.b # None /\ (pref.next_i > 0 \/ pref.done) => KSafe <= pref.k0
         /\ \/ KSafe = next_k
            \/ \E s \in {0, 1} : flights[s].active /\ KSafe = Base(s)
            \/ pref.b # None /\ KSafe = pref.k0
<1> DEFINE F(s) == { Base(x) : x \in { y \in {s} : flights[y].active } }
           P == { k \in {pref.k0} : pref.b # None /\ (pref.next_i > 0 \/ pref.done) }
           S == {next_k} \cup { Base(s) : s \in { t \in {0, 1} : flights[t].active } } \cup P
<1>1. next_k \in Nat /\ pref.k0 \in Nat /\ \A s \in {0, 1} : Base(s) \in Nat
  BY Known DEF TypeOK
<1>2. HasLeast({next_k})
  BY <1>1 DEF HasLeast
<1>3. F(0) \in SUBSET {Base(0)} /\ F(1) \in SUBSET {Base(1)} /\ P \in SUBSET {pref.k0}
  OBVIOUS
<1>4. S = (({next_k} \cup F(0)) \cup F(1)) \cup P
  OBVIOUS
<1> HIDE DEF F, P
<1>5. HasLeast(S)
  <2>1. HasLeast({next_k} \cup F(0))
    BY <1>1, <1>2, <1>3, LeastAdd
  <2>2. HasLeast(({next_k} \cup F(0)) \cup F(1))
    BY <1>1, <1>3, <2>1, LeastAdd
  <2>3. HasLeast((({next_k} \cup F(0)) \cup F(1)) \cup P)
    BY <1>1, <1>3, <2>2, LeastAdd
  <2> QED BY <1>4, <2>3
<1>6. KSafe = LeastOf(S)
  BY DEF KSafe, P
<1> HIDE DEF S
<1>7. KSafe \in S /\ KSafe \in Nat /\ \A y \in S : KSafe <= y
  BY <1>5, <1>6, LeastIs
<1>8. /\ next_k \in S
      /\ \A s \in {0, 1} : flights[s].active => Base(s) \in S
      /\ pref.b # None /\ (pref.next_i > 0 \/ pref.done) => pref.k0 \in S
  BY DEF S, P
<1>9. \A y \in S : \/ y = next_k
                   \/ \E s \in {0, 1} : flights[s].active /\ y = Base(s)
                   \/ pref.b # None /\ y = pref.k0
  BY DEF S, P
<1> HIDE DEF KSafe
<1> QED BY <1>7, <1>8, <1>9

-----------------------------------------------------------------------------
(* The types are kept                                                       *)

\* Steps that leave the flights, the sieve and the prefetch alone.
LEMMA QuietTypes ==
  ASSUME TypeOK, UNCHANGED <<config, flights, eng, pref>>,
         \/ LeaveLoop \/ Collect \/ NothingToCollect \/ ProcessWindow \/ IndexOverflow
         \/ NothingToFill \/ Jump2Filled \/ PrefetchedFailed \/ PrefetchEnded
         \/ TickSkip \/ TickSave \/ Exit \/ Signal
  PROVE  TypeOK'
<1>1. K \in Nat /\ 0 \in 0 .. K /\ \A s \in {0, 1} : Base(s) \in Nat /\ Other(s) \in {0, 1}
  BY Constants, Known DEF Other
<1>2. /\ KSafe \in Nat /\ pref.k0 \in Nat /\ next_k \in Nat /\ failure_k \in Nat
  BY KSafeLeast, Known DEF TypeOK
<1>3. ExitPosition \in Nat
  BY <1>2 DEF ExitPosition
<1> HIDE DEF KSafe, ExitPosition, Base
<1>4. CASE LeaveLoop
  BY <1>4 DEF LeaveLoop, TypeOK, disk, loop, env
<1>5. CASE Collect
  BY <1>1, <1>5 DEF Collect, Process, Spend, Fail, TypeOK, disk, loop, env
<1>6. CASE NothingToCollect
  BY <1>6 DEF NothingToCollect, TypeOK, disk, loop, env
<1>7. CASE ProcessWindow
  <2>1. cur \in {0, 1} /\ i \in Slots /\ i + 1 \in 0 .. K
    BY <1>1, <1>7 DEF ProcessWindow, TypeOK, Slots
  <2>2. flights[cur].pack.base[i] \in Nat
    BY <2>1, Known DEF Pack
  <2>3. out' \subseteq Nat
    BY <1>7, <2>2 DEF ProcessWindow, TypeOK
  <2> QED BY <1>7, <2>1, <2>3 DEF ProcessWindow, TypeOK, env
<1>8. CASE IndexOverflow
  BY <1>2, <1>8 DEF IndexOverflow, Fail, TypeOK, disk, loop, env
<1>9. CASE NothingToFill
  <2>1. g_stop' \in BOOLEAN
    BY <1>9 DEF NothingToFill, TypeOK
  <2> QED BY <1>9, <2>1 DEF NothingToFill, TypeOK, disk, loop, env
<1>10. CASE Jump2Filled
  BY <1>1, <1>10 DEF Jump2Filled, Advance, TypeOK, disk, loop, env
<1>11. CASE PrefetchedFailed
  BY <1>2, <1>11 DEF PrefetchedFailed, Fail, TypeOK, disk, loop, env
<1>12. CASE PrefetchEnded
  BY <1>1, <1>12 DEF PrefetchEnded, Process, Fail, TypeOK, disk, loop, env
<1>13. CASE TickSkip
  BY <1>1, <1>13 DEF TickSkip, TypeOK, disk, loop, env
<1>14. CASE TickSave
  BY <1>1, <1>2, <1>14 DEF TickSave, Spend, Fail, TypeOK, disk, loop, env
<1>15. CASE Exit
  BY <1>3, <1>15 DEF Exit, TypeOK, disk, loop, env
<1>16. CASE Signal
  BY <1>16 DEF Signal, TypeOK, disk, loop, env
<1> QED BY <1>4, <1>5, <1>6, <1>7, <1>8, <1>9, <1>10, <1>11, <1>12, <1>13, <1>14, <1>15, <1>16

\* A step of the fill of flight s, n windows into the flight that begins at k0.
LEMMA FillTyped ==
  ASSUME TypeOK, EngineOk(eng), NEW s \in {0, 1}, NEW n \in Slots, NEW k0 \in Nat,
         Filled(flights[s].pack, n, k0), NEW o \in FillStep(eng, flights[s].pack, n, k0 + n)
  PROVE  /\ o.e \in Engine /\ EngineOk(o.e) /\ o.b \in Pack /\ o.faults \in Nat
         /\ [flights EXCEPT ![s].pack = o.b] \in FlightsType
         /\ n + Quantum(eng, n, k0 + n) \in 0 .. K
         /\ o.ok => Filled(o.b, n + Quantum(eng, n, k0 + n), k0)
<1>1. eng \in Engine /\ flights[s].pack \in Pack
  BY Known DEF TypeOK
<1>2. Good(o, n + Quantum(eng, n, k0 + n), k0) /\ n + Quantum(eng, n, k0 + n) \in 0 .. K
  BY <1>1, FillStepGood
<1>3. o.b \in Pack
  BY <1>2 DEF Good
<1>4. [flights EXCEPT ![s].pack = o.b] \in FlightsType
  BY <1>3, Known, SetField
<1> QED BY <1>2, <1>4 DEF Good

LEMMA CommitTyped ==
  ASSUME TypeOK, NEW s \in {0, 1}
  PROVE  Committed(s) \in FlightsType
<1> DEFINE t == IF Base(s) \in config.hollow THEN 0 ELSE flights[s].pack.used
           f == [flights EXCEPT ![s].n = TRUE]
<1>1. t \in Nat
  BY Known DEF Pack
<1>2. f \in FlightsType
  BY Known, SetField
<1>3. [f EXCEPT ![s].total = t] \in FlightsType
  BY <1>1, <1>2, SetField
<1>4. Committed(s) = [f EXCEPT ![s].total = t]
  BY Known DEF Committed, FlightsType
<1> QED BY <1>3, <1>4

LEMMA FlightTypes ==
  ASSUME IInv, Next
  PROVE  flights' \in FlightsType
<1>1. TypeOK /\ flights \in FlightsType /\ EngineOk(eng)
  BY Known DEF IInv, Rest, Packs
<1>2. CASE Start \/ FinalSave \/ Kill
  BY <1>2, NewTyped DEF Start, FinalSave, Kill, Fresh
<1>3. CASE \E s \in {0, 1} : KernelEnds(s)
  <2>1. PICK s \in {0, 1} : KernelEnds(s)
    BY <1>3
  <2> DEFINE f == [flights EXCEPT ![s].running = FALSE]
             c == flights[s].pack.cands
  <2>2. f \in FlightsType /\ c \in [Cells -> Cell]
    BY <1>1, Known, SetField DEF Pack
  <2>3. [f EXCEPT ![s].mr = c] \in FlightsType
    BY <2>2, SetField
  <2>4. flights' = [f EXCEPT ![s].mr = c]
    BY <1>1, <2>1 DEF KernelEnds, FlightsType
  <2> QED BY <2>3, <2>4
<1>4. CASE ProcessEnds
  <2> DEFINE f == [flights EXCEPT ![cur].active = FALSE]
             g == [f EXCEPT ![cur].n = FALSE]
  <2>1. cur \in {0, 1} /\ 0 \in Nat
    BY <1>1 DEF TypeOK
  <2>2. f \in FlightsType
    BY <1>1, <2>1, SetField
  <2>3. g \in FlightsType
    BY <2>1, <2>2, SetField
  <2>4. [g EXCEPT ![cur].total = 0] \in FlightsType
    BY <2>1, <2>3, SetField
  <2>5. flights' = [g EXCEPT ![cur].total = 0]
    BY <1>1, <1>4, <2>1 DEF ProcessEnds, FlightDone, FlightsType
  <2> QED BY <2>4, <2>5
<1>5. CASE BeginFill
  BY <1>1, <1>5, SetField DEF BeginFill, TypeOK
<1>6. CASE FillFlight
  <2>1. i \in Slots /\ next_k \in Nat /\ turn \in {0, 1} /\ Filled(flights[turn].pack, i, next_k)
    BY <1>1, <1>6, Constants DEF FillFlight, TypeOK, IInv, Rest, Packs, Slots
  <2>2. PICK o \in FillStep(eng, flights[turn].pack, i, next_k + i) :
          flights' = [flights EXCEPT ![turn].pack = o.b]
    BY <1>6 DEF FillFlight
  <2> QED BY <1>1, <2>1, <2>2, FillTyped
<1>7. CASE CommitFill
  BY <1>1, <1>7, CommitTyped DEF CommitFill, TypeOK
<1>8. CASE Submit
  <2> DEFINE f == [flights EXCEPT ![turn].active = TRUE]
  <2>1. turn \in {0, 1}
    BY <1>1 DEF TypeOK
  <2>2. f \in FlightsType
    BY <1>1, <2>1, SetField
  <2>3. [f EXCEPT ![turn].running = TRUE] \in FlightsType
    BY <2>1, <2>2, SetField
  <2>4. [flights EXCEPT ![turn].active = TRUE, ![turn].running = TRUE]
          = [f EXCEPT ![turn].running = TRUE]
    BY <1>1, <2>1 DEF FlightsType
  <2>5. \/ flights' = [flights EXCEPT ![turn].active = TRUE, ![turn].running = TRUE]
        \/ flights' = flights
    BY <1>8 DEF Submit
  <2> HIDE DEF f
  <2> QED BY <1>1, <2>3, <2>4, <2>5
<1>9. \A s \in {0, 1} : Tested(s) \in FlightsType
  <2> TAKE s \in {0, 1}
  <2>1. flights[s].pack.cands \in [Cells -> Cell]
    BY <1>1, Known DEF Pack
  <2> QED BY <1>1, <2>1, SetField DEF Tested
<1>10. CASE Jump \/ ScanEnds
  <2>1. turn \in {0, 1}
    BY <1>1 DEF TypeOK
  <2>2. flights' = Tested(turn) \/ flights' = flights
    BY <1>10 DEF Jump, ScanEnds
  <2> QED BY <1>1, <1>9, <2>1, <2>2
<1>11. CASE Reserve
  <2>1. Other(turn) \in {0, 1}
    BY <1>1 DEF TypeOK, Other
  <2>2. \/ flights' = [flights EXCEPT ![Other(turn)].pack.used = 0]
        \/ flights' = flights
    BY <1>11 DEF Reserve
  <2>3. [flights EXCEPT ![Other(turn)].pack.used = 0] \in FlightsType
    BY <1>1, <2>1, SetField
  <2> QED BY <1>1, <2>2, <2>3
<1>12. CASE Prefetch
  <2>1. pref.b \in {0, 1}
    BY <1>1, <1>12 DEF Prefetch, TypeOK, None
  <2>2. CASE pref.next_i < K
    <3>1. pref.next_i \in Slots /\ pref.k0 \in Nat
      BY <1>1, <2>2, Known, Constants DEF Slots
    <3>2. Filled(flights[pref.b].pack, pref.next_i, pref.k0)
      BY <1>12, <2>1 DEF IInv, Rest, PrefOk, Prefetch, None
    <3>3. pref.next_i # K
      BY <1>1, <2>2, Known, Constants
    <3>4. PICK o \in FillStep(eng, flights[pref.b].pack, pref.next_i, pref.k0 + pref.next_i) :
            flights' = [flights EXCEPT ![pref.b].pack = o.b]
      BY <1>12, <3>3 DEF Prefetch
    <3> QED BY <1>1, <2>1, <3>1, <3>2, <3>4, FillTyped
  <2>3. CASE ~(pref.next_i < K)
    <3>1. flights' = Committed(pref.b)
      BY <1>12, <2>3 DEF Prefetch
    <3> QED BY <1>1, <2>1, <3>1, CommitTyped
  <2> QED BY <2>2, <2>3
<1>13. CASE \E s \in {0, 1} : Drain(s)
  <2>1. PICK s \in {0, 1} : Drain(s)
    BY <1>13
  <2>2. flights' = flights \/ flights' = [flights EXCEPT ![s].active = FALSE]
    BY <2>1 DEF Drain
  <2> QED BY <1>1, <2>2, SetField
<1>14. CASE \/ LeaveLoop \/ Collect \/ NothingToCollect \/ ProcessWindow \/ IndexOverflow
            \/ NothingToFill \/ Jump2Filled \/ TakePrefetched \/ PrefetchedFailed
            \/ PrefetchEnded \/ TickSkip \/ TickSave \/ Exit \/ Signal
  <2>1. flights' = flights
    BY <1>14 DEF LeaveLoop, Collect, NothingToCollect, ProcessWindow, IndexOverflow,
       NothingToFill, Jump2Filled, TakePrefetched, PrefetchedFailed, PrefetchEnded,
       TickSkip, TickSave, Exit, Signal
  <2> QED BY <1>1, <2>1
<1> QED BY <1>2, <1>3, <1>4, <1>5, <1>6, <1>7, <1>8, <1>10, <1>11, <1>12, <1>13, <1>14
        DEF Next, Walk, Kernels

LEMMA NewPref ==
  ASSUME NEW s \in {None, 0, 1}, NEW k \in Nat
  PROVE  [b |-> s, k0 |-> k, next_i |-> 0, done |-> FALSE, failed |-> FALSE] \in Prefs
BY Constants DEF Prefs

LEMMA TypeStep ==
  ASSUME IInv, Next
  PROVE  TypeOK'
<1>1. TypeOK /\ EngineOk(eng) /\ pref \in Prefs
  BY Known DEF IInv, Rest, Packs
<1>2. flights' \in [{0, 1} -> Flight]
  BY FlightTypes DEF FlightsType
<1>3. /\ K \in Nat /\ 0 \in 0 .. K /\ pref.k0 \in Nat
      /\ \A s \in {0, 1} : Base(s) \in Nat /\ Other(s) \in {0, 1}
  BY <1>1, Constants, Known DEF Other
<1> HIDE DEF Base, Other
<1>4. CASE Start \/ FinalSave \/ Kill
  <2>1. NewEngine \in Engine /\ NoPref \in Prefs
    BY NewTyped
  <2>2. PICK w \in {"down", "loop"}, k \in Nat : Fresh(w, k)
    BY <1>1, <1>4 DEF Start, FinalSave, Kill, TypeOK
  <2>3. /\ pc' \in {"down", "loop"} /\ ret' = "tick" /\ next_k' \in Nat
        /\ turn' \in {0, 1} /\ g_stop' \in BOOLEAN /\ exit_status' \in {0, 1}
        /\ failure_k' \in Nat /\ since' \in Nat /\ save_k' \in Nat /\ eng' \in Engine
        /\ i' \in 0 .. K /\ cur' \in {0, 1} /\ pref' \in Prefs
    BY <1>3, <2>1, <2>2 DEF Fresh
  <2>4. /\ config' = config /\ out' = out /\ stops' = stops
        /\ saved' = saved \/ saved' = save_k
        /\ faults' = faults \/ (1 <= faults /\ faults' = faults - 1)
        /\ kills' = kills \/ (kills > 0 /\ kills' = kills - 1)
    BY <1>4 DEF Start, FinalSave, Kill, Spend, disk, env
  <2>5. /\ config' \in Configs /\ saved' \in Nat /\ out' \subseteq Nat
        /\ faults' \in Nat /\ kills' \in Nat /\ stops' \in Nat
    BY <1>1, <2>4 DEF TypeOK
  <2> QED BY <1>2, <2>3, <2>5 DEF TypeOK, Prefs
<1>5. CASE \E s \in {0, 1} : KernelEnds(s)
  BY <1>1, <1>2, <1>5 DEF KernelEnds, TypeOK, disk, loop, env
<1>6. CASE ProcessEnds
  BY <1>1, <1>2, <1>3, <1>6 DEF ProcessEnds, TypeOK, disk, loop, env
<1>7. CASE BeginFill
  BY <1>1, <1>2, <1>3, <1>7 DEF BeginFill, TypeOK, disk, loop, env
<1>8. CASE FillFlight
  <2>1. i \in Slots /\ next_k \in Nat /\ turn \in {0, 1} /\ Filled(flights[turn].pack, i, next_k)
    BY <1>1, <1>8, Constants DEF FillFlight, TypeOK, IInv, Rest, Packs, Slots
  <2>2. PICK o \in FillStep(eng, flights[turn].pack, i, next_k + i) :
          /\ Spend(o.faults) /\ eng' = o.e
          /\ \/ i' = i + Quantum(eng, i, next_k + i) /\ UNCHANGED <<loop, pc>>
             \/ Fail(next_k) /\ UNCHANGED i
          /\ UNCHANGED <<config, disk, cur, ret, pref, env>>
    BY <1>8 DEF FillFlight
  <2>3. /\ o.e \in Engine /\ o.faults \in Nat
        /\ i + Quantum(eng, i, next_k + i) \in 0 .. K
    BY <1>1, <2>1, FillTyped
  <2> HIDE DEF Quantum
  <2>4. i' \in 0 .. K
    BY <1>1, <2>2, <2>3 DEF TypeOK
  <2> QED BY <1>1, <1>2, <2>2, <2>3, <2>4 DEF TypeOK, Spend, Fail, disk, loop, env
<1>9. CASE CommitFill
  BY <1>1, <1>2, <1>3, <1>9 DEF CommitFill, Spend, Fail, TypeOK, disk, loop, env
<1>10. CASE Submit
  BY <1>1, <1>2, <1>3, <1>10
     DEF Submit, Advance, Process, Spend, Fail, TypeOK, disk, env
<1>11. CASE Jump
  BY <1>1, <1>2, <1>3, <1>11
     DEF Jump, Advance, Process, Spend, Fail, TypeOK, disk, env
<1>12. CASE ScanEnds
  BY <1>1, <1>2, <1>3, <1>12 DEF ScanEnds, Process, Spend, Fail, TypeOK, disk, loop, env
<1>13. CASE TakePrefetched
  BY <1>1, <1>2, <1>13, NewTyped DEF TakePrefetched, TypeOK, Prefs, disk, loop, env
<1>14. CASE Reserve
  <2>1. pref' \in Prefs
    <3>1. \/ pref' = pref
          \/ pref' = [b |-> Other(turn), k0 |-> next_k, next_i |-> 0,
                      done |-> FALSE, failed |-> FALSE]
      BY <1>14 DEF Reserve
    <3>2. Other(turn) \in {None, 0, 1} /\ next_k \in Nat /\ 0 \in 0 .. K
      BY <1>1, <1>3 DEF TypeOK
    <3> QED BY <1>1, <3>1, <3>2, NewPref, Zenon
  <2>2. next_k' \in Nat
    BY <1>1, <1>3, <1>14 DEF Reserve, Advance, TypeOK
  <2> QED BY <1>1, <1>2, <2>1, <2>2, <1>14 DEF Reserve, TypeOK, Prefs, disk, env
<1>15. CASE Prefetch
  <2>1. pref.b \in {0, 1}
    BY <1>1, <1>15 DEF Prefetch, TypeOK, None
  <2>2. CASE pref.next_i < K
    <3>1. pref.next_i \in Slots /\ pref.k0 \in Nat
      BY <1>1, <2>2, Known, Constants DEF Slots
    <3>2. Filled(flights[pref.b].pack, pref.next_i, pref.k0)
      BY <1>15, <2>1 DEF IInv, Rest, PrefOk, Prefetch, None
    <3>3. pref.next_i # K
      BY <1>1, <2>2, Known, Constants
    <3> DEFINE q == Quantum(eng, pref.next_i, pref.k0 + pref.next_i)
    <3>4. PICK o \in FillStep(eng, flights[pref.b].pack, pref.next_i, pref.k0 + pref.next_i) :
            /\ Spend(o.faults) /\ eng' = o.e
            /\ \/ pref' = [pref EXCEPT !.next_i = @ + q]
               \/ pref' = [pref EXCEPT !.failed = TRUE]
      BY <1>15, <3>3 DEF Prefetch
    <3>5. /\ o.e \in Engine /\ o.faults \in Nat /\ pref.next_i + q \in 0 .. K
      BY <1>1, <2>1, <3>1, <3>2, FillTyped
    <3> HIDE DEF q
    <3>6. pref' \in Prefs
      BY <1>1, <3>4, <3>5 DEF Prefs
    <3> QED BY <1>1, <1>2, <1>15, <3>4, <3>5, <3>6
            DEF Prefetch, TypeOK, Prefs, Spend, disk, loop, env
  <2>3. CASE ~(pref.next_i < K)
    <3>1. /\ \/ pref' = [pref EXCEPT !.done = TRUE] /\ UNCHANGED faults
             \/ pref' = [pref EXCEPT !.done = TRUE, !.failed = TRUE] /\ Spend(1)
          /\ UNCHANGED eng
      BY <1>15, <2>3 DEF Prefetch
    <3>2. pref' \in Prefs
      BY <1>1, <3>1 DEF Prefs
    <3> QED BY <1>1, <1>2, <1>15, <3>1, <3>2
            DEF Prefetch, TypeOK, Prefs, Spend, disk, loop, env
  <2> QED BY <2>2, <2>3
<1>16. CASE \E s \in {0, 1} : Drain(s)
  <2>1. PICK s \in {0, 1} : Drain(s)
    BY <1>16
  <2> QED BY <1>1, <1>2, <1>3, <2>1
          DEF Drain, DrainNext, Process, Spend, TypeOK, disk, loop, env
<1>17. CASE \/ LeaveLoop \/ Collect \/ NothingToCollect \/ ProcessWindow \/ IndexOverflow
            \/ NothingToFill \/ Jump2Filled \/ PrefetchedFailed
            \/ PrefetchEnded \/ TickSkip \/ TickSave \/ Exit \/ Signal
  <2>1. UNCHANGED <<config, flights, eng, pref>>
    BY <1>17 DEF LeaveLoop, Collect, NothingToCollect, ProcessWindow, IndexOverflow,
       NothingToFill, Jump2Filled, PrefetchedFailed, PrefetchEnded,
       TickSkip, TickSave, Exit, Signal
  <2> QED BY <1>1, <1>17, <2>1, QuietTypes
<1> QED BY <1>4, <1>5, <1>6, <1>7, <1>8, <1>9, <1>10, <1>11, <1>12, <1>13, <1>14, <1>15,
           <1>16, <1>17 DEF Next, Walk, Kernels

-----------------------------------------------------------------------------
(* The rest of the invariant is kept: leaving the loop                      *)

\* Leaving the loop with position p: nothing of the flight being scanned or
\* processed lies below it, and the saved position has not passed it.
LEMMA ToExit ==
  ASSUME IInv, Looping, UNCHANGED <<config, saved, out, flights, eng, pref, next_k>>,
         pc' = "exit", NEW p \in Nat, p <= next_k, saved <= p,
         \/ exit_status' = 1 /\ failure_k' = p
         \/ exit_status' = 0 /\ next_k = p,
         \A k \in 0 .. p - 1 : ~InTurn(k) /\ ~InProc(k)
  PROVE  Rest'
<1>1. TypeOK /\ Rest
  BY DEF IInv
<1>2. p \in Nat /\ next_k \in Nat /\ saved \in Nat /\ pref.k0 \in Nat
  BY <1>1, Known DEF TypeOK
<1>3. ExitPosition' = IF pref.b # None /\ pref.k0 < p THEN pref.k0 ELSE p
  BY DEF ExitPosition
<1>4. Roles'
  BY <1>1 DEF Rest, Roles, Looping, Mode
<1>5. PrefOk'
  BY <1>1 DEF Rest, PrefOk, Filled, Mode
<1>6. Packs'
  BY <1>1 DEF Rest, Packs, Looping, Full, Filled, Base, EngineOk
<1>7. ~Looping' /\ ~Draining' /\ pc' # "process"
  BY DEF Looping, Draining
<1>8. \A k \in 0 .. ExitPosition' - 1 : k \in out' \/ InFlight(k)'
  <2> TAKE k \in 0 .. ExitPosition' - 1
  <2>1. k \in 0 .. next_k - 1 /\ k \in 0 .. p - 1 /\ ~InPref(k)
    BY <1>2, <1>3, Constants DEF InPref, Win
  <2>2. k \in out \/ InFlight(k)
    BY <1>1, <2>1 DEF Rest, Accounted
  <2> QED BY <2>2 DEF InFlight, Base
<1>9. Accounted'
  BY <1>7, <1>8 DEF Accounted
<1>10. saved <= ExitPosition'
  BY <1>1, <1>2, <1>3 DEF Rest, SavedBehind
<1>11. SavedBehind'
  BY <1>1, <1>7, <1>10 DEF Rest, SavedBehind, Base
<1>12. Ahead' /\ NoWindowSkipped'
  BY <1>1, <1>7 DEF Rest, Ahead, NoWindowSkipped
<1> QED BY <1>4, <1>5, <1>6, <1>9, <1>11, <1>12 DEF Rest

LEMMA LeaveLoopKeeps ==
  ASSUME IInv, LeaveLoop
  PROVE  Rest'
<1>1. TypeOK /\ Looping /\ next_k \in Nat
  BY DEF IInv, LeaveLoop, Looping, TypeOK
<1>2. /\ UNCHANGED <<config, saved, out, flights, eng, pref, next_k, exit_status>>
      /\ pc = "loop" /\ pc' = "exit"
  BY DEF LeaveLoop, disk, loop
<1>3. exit_status' = 0 /\ saved <= next_k /\ next_k <= next_k
  BY <1>1, <1>2 DEF IInv, Rest, Roles, SavedBehind
<1>4. \A k \in 0 .. next_k - 1 : ~InTurn(k) /\ ~InProc(k)
  BY <1>2 DEF InTurn, InProc
<1> QED BY <1>1, <1>2, <1>3, <1>4, ToExit

\* Failing with the position of the next fill, of the flight whose turn it is, of
\* the prefetched flight, or of the oldest window not reported yet.
LEMMA FailKeeps ==
  ASSUME IInv, Looping, UNCHANGED <<config, disk, flights, eng, pref>>, NEW p, Fail(p),
         \/ /\ p \in {next_k, KSafe} \/ (pref.b # None /\ p = pref.k0)
            /\ pc \notin {"reserve", "scan", "finish", "process"}
         \/ /\ p = Base(turn)
            /\ pc \in {"scan", "finish"} \/ (pc = "loop" /\ flights[turn].active)
  PROVE  Rest'
<1>1. TypeOK /\ turn \in {0, 1} /\ next_k \in Nat /\ saved \in Nat
  BY DEF IInv, TypeOK
<1>2. /\ UNCHANGED <<config, saved, out, flights, eng, pref, next_k>>
      /\ pc' = "exit" /\ exit_status' = 1 /\ failure_k' = p
  BY DEF Fail, disk
<1>3. /\ saved <= next_k
      /\ \A s \in {0, 1} : flights[s].active => saved <= Base(s) /\ Base(s) <= next_k
      /\ pref.b # None => saved <= pref.k0 /\ pref.k0 <= next_k
      /\ pc \in {"scan", "finish"} => saved <= Base(turn) /\ Base(turn) <= next_k
  BY <1>1 DEF IInv, Rest, SavedBehind, Ahead
<1> HIDE DEF Base, KSafe
<1>4. p \in Nat /\ p <= next_k /\ saved <= p
  <2>1. CASE p = KSafe
    BY <1>1, <1>3, <2>1, KSafeLeast
  <2>2. CASE p # KSafe
    BY <1>1, <1>3, <2>2, Known
  <2> QED BY <2>1, <2>2
<1>5. \A k \in 0 .. p - 1 : ~InTurn(k) /\ ~InProc(k)
  BY <1>1, <1>4, Known, Constants DEF InTurn, InProc, Win
<1> QED BY <1>1, <1>2, <1>4, <1>5, ToExit

LEMMA FailuresKeep ==
  ASSUME IInv,
         \/ IndexOverflow \/ PrefetchedFailed
         \/ Collect /\ Fail(Base(turn))
         \/ CommitFill /\ Fail(next_k) /\ UNCHANGED flights
         \/ (Submit \/ Jump) /\ Fail(next_k) /\ UNCHANGED flights
         \/ ScanEnds /\ Fail(Base(turn)) /\ UNCHANGED flights
         \/ PrefetchEnded /\ Fail(Base(turn))
         \/ TickSave /\ Fail(KSafe) /\ UNCHANGED saved
  PROVE  Rest'
<1> HIDE DEF Base, KSafe, Fail
<1>1. CASE IndexOverflow
  BY <1>1, FailKeeps DEF IndexOverflow, Looping
<1>2. CASE PrefetchedFailed
  BY <1>2, FailKeeps DEF PrefetchedFailed, Prefetched, Looping, IInv, TypeOK, None
<1>3. CASE Collect /\ Fail(Base(turn))
  BY <1>3, FailKeeps DEF Collect, Looping
<1>4. CASE CommitFill /\ Fail(next_k) /\ UNCHANGED flights
  BY <1>4, FailKeeps DEF CommitFill, Looping
<1>5. CASE (Submit \/ Jump) /\ Fail(next_k) /\ UNCHANGED flights
  BY <1>5, FailKeeps DEF Submit, Jump, Looping
<1>6. CASE ScanEnds /\ Fail(Base(turn)) /\ UNCHANGED flights
  BY <1>6, FailKeeps DEF ScanEnds, Looping
<1>7. CASE PrefetchEnded /\ Fail(Base(turn))
  BY <1>7, FailKeeps DEF PrefetchEnded, Looping
<1>8. CASE TickSave /\ Fail(KSafe) /\ UNCHANGED saved
  BY <1>8, FailKeeps DEF TickSave, Looping, disk
<1> QED BY <1>1, <1>2, <1>3, <1>4, <1>5, <1>6, <1>7, <1>8

-----------------------------------------------------------------------------
(* Steps that change no flight                                              *)

LEMMA NothingToCollectKeeps ==
  ASSUME IInv, NothingToCollect
  PROVE  Rest'
<1>1. TypeOK /\ Rest
  BY DEF IInv
<1>2. /\ UNCHANGED <<config, saved, out, flights, eng, pref, next_k, turn, exit_status, save_k>>
      /\ pc = "loop" /\ pc' = "refill" /\ ~flights[turn].active
  BY DEF NothingToCollect, disk, loop
<1>3. Roles'
  BY <1>1, <1>2 DEF Rest, Roles, Looping, Mode
<1>4. PrefOk'
  BY <1>1, <1>2 DEF Rest, PrefOk, Filled, Mode
<1>5. Packs'
  BY <1>1, <1>2 DEF Rest, Packs, Looping, Full, Filled, Base, EngineOk
<1>6. Accounted'
  BY <1>1, <1>2 DEF Rest, Accounted, Looping, Draining, InFlight, InPref, InTurn, InProc, Base
<1>7. Ahead' /\ SavedBehind' /\ NoWindowSkipped'
  BY <1>1, <1>2 DEF Rest, Ahead, SavedBehind, NoWindowSkipped, Looping, Draining, Base
<1> QED BY <1>3, <1>4, <1>5, <1>6, <1>7 DEF Rest

LEMMA CollectKeeps ==
  ASSUME IInv, Collect, ~flights[turn].running, Process(turn, "refill")
  PROVE  Rest'
<1>1. TypeOK /\ Rest /\ turn \in {0, 1}
  BY DEF IInv, TypeOK
<1>2. /\ UNCHANGED <<config, saved, out, flights, eng, pref, next_k, turn, exit_status>>
      /\ pc = "loop" /\ pc' = "process" /\ cur' = turn /\ i' = 0 /\ ret' = "refill"
      /\ flights[turn].active /\ ~flights[turn].running
  BY DEF Collect, Process, Fail, disk, loop
<1>3. Mode = "plain" /\ flights[turn].n /\ pref.b = None
  BY <1>1, <1>2 DEF Rest, Roles, PrefOk
<1>4. Roles'
  BY <1>1, <1>2, <1>3 DEF Rest, Roles, Looping, Mode
<1>5. PrefOk'
  BY <1>2, <1>3 DEF PrefOk
<1>6. Packs'
  BY <1>1, <1>2, <1>3 DEF Rest, Packs, Looping, Full, Filled, Base, EngineOk
<1>7. Accounted'
  BY <1>1, <1>2 DEF Rest, Accounted, Looping, Draining, InFlight, InPref, InTurn, InProc, Base
<1>8. Ahead' /\ SavedBehind' /\ NoWindowSkipped'
  BY <1>1, <1>2 DEF Rest, Ahead, SavedBehind, NoWindowSkipped, Looping, Draining, Base
<1> QED BY <1>4, <1>5, <1>6, <1>7, <1>8 DEF Rest

LEMMA NothingToFillKeeps ==
  ASSUME IInv, NothingToFill
  PROVE  Rest'
<1>1. TypeOK /\ Rest
  BY DEF IInv
<1>2. /\ UNCHANGED <<config, saved, out, flights, eng, pref, next_k, turn, exit_status>>
      /\ pc = "refill" /\ pc' = "tick" /\ ~Prefetched
  BY DEF NothingToFill, disk
<1>3. pref.b = None
  BY <1>1, <1>2 DEF Rest, PrefOk, Prefetched
<1>4. Roles'
  BY <1>1, <1>2 DEF Rest, Roles, Looping, Mode
<1>5. PrefOk'
  BY <1>2, <1>3 DEF PrefOk
<1>6. Packs'
  BY <1>1, <1>2 DEF Rest, Packs, Looping, Full, Filled, Base, EngineOk
<1>7. Accounted'
  BY <1>1, <1>2 DEF Rest, Accounted, Looping, Draining, InFlight, InPref, InTurn, InProc, Base
<1>8. Ahead' /\ SavedBehind' /\ NoWindowSkipped'
  BY <1>1, <1>2 DEF Rest, Ahead, SavedBehind, NoWindowSkipped, Looping, Draining, Base
<1> QED BY <1>4, <1>5, <1>6, <1>7, <1>8 DEF Rest

LEMMA TickSkipKeeps ==
  ASSUME IInv, TickSkip
  PROVE  Rest'
<1>1. TypeOK /\ Rest
  BY DEF IInv
<1>2. /\ UNCHANGED <<config, saved, out, flights, eng, pref, next_k, exit_status>>
      /\ pc = "tick" /\ pc' = "loop" /\ turn' = Other(turn)
  BY DEF TickSkip, disk
<1>3. Roles'
  BY <1>1, <1>2 DEF Rest, Roles, Looping, Mode
<1>4. PrefOk'
  BY <1>1, <1>2 DEF Rest, PrefOk, Filled, Mode
<1>5. Packs'
  BY <1>1, <1>2 DEF Rest, Packs, Looping, Full, Filled, Base, EngineOk
<1>6. Accounted'
  BY <1>1, <1>2 DEF Rest, Accounted, Looping, Draining, InFlight, InPref, InTurn, InProc, Base
<1>7. Ahead' /\ SavedBehind' /\ NoWindowSkipped'
  BY <1>1, <1>2 DEF Rest, Ahead, SavedBehind, NoWindowSkipped, Looping, Draining, Base
<1> QED BY <1>3, <1>4, <1>5, <1>6, <1>7 DEF Rest

\* Nothing below KSafe is in hand, so all of it is in the output.
LEMMA TickSaveKeeps ==
  ASSUME IInv, TickSave, saved' = KSafe, turn' = Other(turn), pc' = "loop"
  PROVE  Rest'
<1>1. TypeOK /\ Rest /\ next_k \in Nat
  BY DEF IInv, TypeOK
<1>2. /\ UNCHANGED <<config, out, flights, eng, pref, next_k, exit_status>>
      /\ pc = "tick" /\ pc' = "loop" /\ turn' = Other(turn) /\ saved' = KSafe
  BY DEF TickSave, Fail
<1>3. /\ KSafe \in Nat /\ KSafe <= next_k
      /\ \A s \in {0, 1} : flights[s].active => KSafe <= Base(s)
      /\ pref.b # None => KSafe <= pref.k0
  <2>1. pref.b # None => pref.done
    BY <1>1, <1>2 DEF Rest, PrefOk
  <2> QED BY <1>1, <2>1, KSafeLeast
<1> HIDE DEF KSafe
<1>4. Roles'
  BY <1>1, <1>2 DEF Rest, Roles, Looping, Mode
<1>5. PrefOk'
  BY <1>1, <1>2 DEF Rest, PrefOk, Filled, Mode
<1>6. Packs'
  BY <1>1, <1>2 DEF Rest, Packs, Looping, Full, Filled, Base, EngineOk
<1>7. Accounted'
  BY <1>1, <1>2 DEF Rest, Accounted, Looping, Draining, InFlight, InPref, InTurn, InProc, Base
<1>8. Ahead'
  BY <1>1, <1>2 DEF Rest, Ahead, Looping, Base
<1>9. SavedBehind'
  BY <1>2, <1>3 DEF SavedBehind, Draining, Base
<1>10. NoWindowSkipped'
  <2> SUFFICES ASSUME NEW k \in 0 .. KSafe - 1
               PROVE  k \in out
    BY <1>2 DEF NoWindowSkipped
  <2>1. k \in 0 .. next_k - 1 /\ k < KSafe
    BY <1>1, <1>3
  <2>2. ~InFlight(k) /\ ~InPref(k)
    BY <1>1, <1>3, <2>1, Known, Constants DEF InFlight, InPref, Win
  <2>3. ~InTurn(k) /\ ~InProc(k)
    BY <1>2 DEF InTurn, InProc
  <2> QED BY <1>1, <1>2, <2>1, <2>2, <2>3 DEF Rest, Accounted, Looping
<1> QED BY <1>4, <1>5, <1>6, <1>7, <1>8, <1>9, <1>10 DEF Rest

LEMMA SignalKeeps ==
  ASSUME IInv, Signal
  PROVE  Rest'
<1>1. TypeOK /\ Rest
  BY DEF IInv
<1>2. UNCHANGED <<config, saved, out, flights, eng, pref, next_k, turn, exit_status, failure_k,
                  save_k, pc, i, cur, ret>>
  BY DEF Signal, disk
<1>3. Roles'
  BY <1>1, <1>2 DEF Rest, Roles, Looping, Mode
<1>4. PrefOk'
  BY <1>1, <1>2 DEF Rest, PrefOk, Filled, Mode
<1>5. Packs'
  BY <1>1, <1>2 DEF Rest, Packs, Looping, Full, Filled, Base, EngineOk
<1>6. Accounted'
  BY <1>1, <1>2 DEF Rest, Accounted, Looping, Draining, InFlight, InPref, InTurn, InProc,
     ExitPosition, Base
<1>7. Ahead' /\ SavedBehind' /\ NoWindowSkipped'
  BY <1>1, <1>2 DEF Rest, Ahead, SavedBehind, NoWindowSkipped, Looping, Draining,
     ExitPosition, Base
<1> QED BY <1>3, <1>4, <1>5, <1>6, <1>7 DEF Rest

LEMMA ExitKeeps ==
  ASSUME IInv, Exit
  PROVE  Rest'
<1>1. TypeOK /\ Rest
  BY DEF IInv
<1>2. /\ UNCHANGED <<config, saved, out, flights, eng, pref, next_k, turn>>
      /\ pc = "exit" /\ pc' = "drain0" /\ save_k' = ExitPosition
  BY DEF Exit, disk
<1> HIDE DEF ExitPosition
<1>3. Roles'
  BY <1>1, <1>2 DEF Rest, Roles, Looping, Mode
<1>4. PrefOk'
  BY <1>1, <1>2 DEF Rest, PrefOk, Filled, Mode
<1>5. Packs'
  BY <1>1, <1>2 DEF Rest, Packs, Looping, Full, Filled, Base, EngineOk
<1>6. Accounted'
  BY <1>1, <1>2 DEF Rest, Accounted, Looping, Draining, InFlight, Base
<1>7. Ahead' /\ SavedBehind' /\ NoWindowSkipped'
  BY <1>1, <1>2 DEF Rest, Ahead, SavedBehind, NoWindowSkipped, Looping, Draining, Base
<1> QED BY <1>3, <1>4, <1>5, <1>6, <1>7 DEF Rest

LEMMA Jump2FilledKeeps ==
  ASSUME IInv, Jump2Filled
  PROVE  Rest'
<1>1. TypeOK /\ Rest /\ next_k \in Nat /\ saved \in Nat /\ turn \in {0, 1}
  BY DEF IInv, TypeOK
<1>2. /\ UNCHANGED <<config, saved, out, flights, eng, pref, turn, exit_status>>
      /\ pc = "filled" /\ pc' = "reserve" /\ Mode = "jump2" /\ next_k' = next_k + K
  BY DEF Jump2Filled, Advance, disk
<1>3. pref.b = None /\ Base(turn) = next_k /\ flights[turn].n
  BY <1>1, <1>2 DEF Rest, PrefOk, Packs
<1>4. Roles'
  BY <1>1, <1>2 DEF Rest, Roles, Looping, Mode
<1>5. PrefOk'
  BY <1>2, <1>3 DEF PrefOk
<1>6. Packs'
  BY <1>1, <1>2, <1>3 DEF Rest, Packs, Looping, Full, Filled, Base, EngineOk
<1>7. \A k \in 0 .. next_k' - 1 : k \in out \/ InFlight(k)' \/ InTurn(k)'
  <2> TAKE k \in 0 .. next_k' - 1
  <2>1. CASE k < next_k
    BY <1>1, <1>2, <1>3, <2>1
       DEF Rest, Accounted, Looping, InFlight, InPref, InTurn, InProc, Base
  <2>2. CASE k >= next_k
    BY <1>1, <1>2, <1>3, <2>2, Constants DEF InTurn, Win, Base
  <2> QED BY <1>1, <2>1, <2>2
<1>8. Accounted'
  BY <1>2, <1>7 DEF Accounted, Draining
<1>9. Ahead'
  BY <1>1, <1>2, <1>3, Known, Constants DEF Rest, Ahead, Looping, Base
<1>10. SavedBehind' /\ NoWindowSkipped'
  BY <1>1, <1>2, <1>3, Constants DEF Rest, SavedBehind, NoWindowSkipped, Looping, Draining, Base
<1> QED BY <1>4, <1>5, <1>6, <1>8, <1>9, <1>10 DEF Rest

LEMMA FilledBase ==
  ASSUME NEW b, NEW k0 \in Nat, Filled(b, K, k0)
  PROVE  b.base[0] = k0
<1>1. 0 \in 0 .. K - 1
  BY Constants
<1>2. b.base[0] = k0 + 0
  BY <1>1 DEF Filled, Packed
<1> QED BY <1>2

LEMMA TakePrefetchedKeeps ==
  ASSUME IInv, TakePrefetched
  PROVE  Rest'
<1>1. TypeOK /\ Rest /\ turn \in {0, 1}
  BY DEF IInv, TypeOK
<1>2. /\ UNCHANGED <<config, saved, out, flights, eng, next_k, turn, exit_status>>
      /\ pc = "refill" /\ pc' = "reserve" /\ pref' = NoPref
      /\ Mode = "jump2" /\ pref.b = turn /\ pref.done /\ ~pref.failed
  BY DEF TakePrefetched, Prefetched, disk, loop
<1>3. pref.b # None /\ pref'.b = None
  BY <1>1, <1>2, NewTyped DEF None
<1>4. flights[turn].n /\ Base(turn) = pref.k0
  <2>1. flights[turn].n /\ Filled(flights[turn].pack, K, pref.k0)
    BY <1>1, <1>2, <1>3 DEF Rest, PrefOk
  <2> QED BY <1>1, <2>1, Known, FilledBase DEF IInv, Base
<1>5. Roles'
  BY <1>1, <1>2 DEF Rest, Roles, Looping, Mode
<1>6. PrefOk'
  BY <1>3 DEF PrefOk
<1>7. Packs'
  BY <1>1, <1>2, <1>4 DEF Rest, Packs, Looping, Full, Filled, Base, EngineOk
<1>8. Accounted'
  BY <1>1, <1>2, <1>4
     DEF Rest, Accounted, Looping, Draining, InFlight, InPref, InTurn, InProc, Base
<1>9. Ahead' /\ SavedBehind' /\ NoWindowSkipped'
  BY <1>1, <1>2, <1>3, <1>4
     DEF Rest, Ahead, SavedBehind, NoWindowSkipped, Looping, Draining, Base
<1> QED BY <1>5, <1>6, <1>7, <1>8, <1>9 DEF Rest

LEMMA PrefetchEndedKeeps ==
  ASSUME IInv, PrefetchEnded, pref.done, Process(turn, "tick")
  PROVE  Rest'
<1>1. TypeOK /\ Rest /\ turn \in {0, 1}
  BY DEF IInv, TypeOK
<1>2. /\ UNCHANGED <<config, saved, out, flights, eng, pref, next_k, turn, exit_status>>
      /\ pc = "finish" /\ pc' = "process" /\ cur' = turn /\ i' = 0 /\ ret' = "tick"
  BY DEF PrefetchEnded, Process, Fail, disk, loop
<1>3. /\ Mode = "jump2" /\ ~flights[turn].active /\ flights[turn].n
      /\ flights[turn].mr = flights[turn].pack.cands
  BY <1>1, <1>2 DEF Rest, Roles, Packs
<1>4. Roles'
  BY <1>1, <1>2, <1>3 DEF Rest, Roles, Looping, Mode
<1>5. PrefOk'
  BY <1>1, <1>2 DEF Rest, PrefOk, Filled, Mode
<1>6. Packs'
  BY <1>1, <1>2, <1>3 DEF Rest, Packs, Looping, Full, Filled, Base, EngineOk
<1>7. Accounted'
  BY <1>1, <1>2 DEF Rest, Accounted, Looping, Draining, InFlight, InPref, InTurn, InProc, Base
<1>8. Ahead' /\ SavedBehind' /\ NoWindowSkipped'
  BY <1>1, <1>2 DEF Rest, Ahead, SavedBehind, NoWindowSkipped, Looping, Draining, Base
<1> QED BY <1>4, <1>5, <1>6, <1>7, <1>8 DEF Rest

\* A processed window is reported as one that was searched: what was tested for it
\* is its own.
LEMMA WindowSearched ==
  ASSUME IInv, ProcessWindow
  PROVE  /\ flights[cur].pack.base[i] = Base(cur) + i
         /\ out' = out \cup {Base(cur) + i}
<1>1. TypeOK /\ Rest /\ cur \in {0, 1} /\ i \in 0 .. K - 1 /\ pc = "process"
  BY Constants DEF IInv, TypeOK, ProcessWindow
<1>2. /\ flights[cur].n /\ Full(cur)
      /\ flights[cur].total = 0 \/ flights[cur].mr = flights[cur].pack.cands
  BY <1>1 DEF Rest, Packs
<1>3. /\ flights[cur].pack.base[i] = Base(cur) + i
      /\ flights[cur].pack.cands[flights[cur].pack.cum[i]]
           = [base |-> Base(cur) + i, marks |-> Base(cur) + i]
  BY <1>1, <1>2 DEF Full, Filled, Packed
<1>4. Searched(cur, i)
  BY <1>2, <1>3 DEF Searched
<1> QED BY <1>3, <1>4 DEF ProcessWindow

LEMMA ProcessWindowKeeps ==
  ASSUME IInv, ProcessWindow
  PROVE  Rest'
<1>1. TypeOK /\ Rest /\ i \in Nat
  BY DEF IInv, TypeOK
<1>2. /\ UNCHANGED <<config, saved, flights, eng, pref, next_k, turn, exit_status, save_k,
                     pc, cur, ret>>
      /\ pc = "process" /\ i' = i + 1
  BY DEF ProcessWindow
<1>3. out' = out \cup {Base(cur) + i}
  BY WindowSearched
<1>4. Roles'
  BY <1>1, <1>2 DEF Rest, Roles, Looping, Mode
<1>5. PrefOk'
  BY <1>1, <1>2 DEF Rest, PrefOk, Filled, Mode
<1>6. Packs'
  BY <1>1, <1>2 DEF Rest, Packs, Looping, Full, Filled, Base, EngineOk
<1>7. \A w \in 0 .. i' - 1 : Base(cur) + w \in out'
  <2>1. \A w \in 0 .. i - 1 : Base(cur) + w \in out
    BY <1>1, <1>2 DEF Rest, Accounted
  <2>2. \A w \in 0 .. i' - 1 : w \in 0 .. i - 1 \/ w = i
    BY <1>1, <1>2
  <2> QED BY <1>3, <2>1, <2>2
<1>8. Accounted'
  BY <1>1, <1>2, <1>3, <1>7
     DEF Rest, Accounted, Looping, Draining, InFlight, InPref, InTurn, InProc, Base
<1>9. Ahead' /\ SavedBehind' /\ NoWindowSkipped'
  BY <1>1, <1>2, <1>3 DEF Rest, Ahead, SavedBehind, NoWindowSkipped, Looping, Draining, Base
<1> QED BY <1>4, <1>5, <1>6, <1>8, <1>9 DEF Rest

-----------------------------------------------------------------------------
(* A process begins and ends                                                *)

LEMMA FreshKeeps ==
  ASSUME IInv, TypeOK', config' = config, out' = out, NEW k \in Nat,
         \/ Fresh("down", k)
         \/ Fresh("loop", k) /\ k = saved',
         NoWindowSkipped'
  PROVE  Rest'
<1>1. /\ pc' \in {"down", "loop"} /\ next_k' = k /\ exit_status' = 0
      /\ pref' = NoPref /\ eng' = NewEngine
      /\ \A s \in {0, 1} : flights'[s] = NewFlight
      /\ pc' = "loop" => k = saved'
  BY DEF Fresh
<1>2. /\ \A s \in {0, 1} : ~flights'[s].active /\ ~flights'[s].n
      /\ pref'.b = None /\ EngineOk(eng)'
  BY <1>1, NewTyped DEF EngineOk
<1>3. Roles'
  BY <1>1, <1>2 DEF Roles, Looping, TypeOK
<1>4. PrefOk'
  BY <1>2 DEF PrefOk
<1>5. Packs'
  BY <1>1, <1>2 DEF Packs, Looping
<1>6. Accounted'
  BY <1>1 DEF Accounted, Looping, Draining, NoWindowSkipped
<1>7. Ahead'
  BY <1>1, <1>2 DEF Ahead
<1>8. SavedBehind'
  BY <1>1, <1>2 DEF SavedBehind, Looping, Draining, TypeOK
<1> QED BY <1>3, <1>4, <1>5, <1>6, <1>7, <1>8 DEF Rest

LEMMA ProcessesKeep ==
  ASSUME IInv, TypeOK', Start \/ FinalSave \/ Kill
  PROVE  Rest'
<1>1. TypeOK /\ Rest /\ saved \in Nat /\ 0 \in Nat
  BY DEF IInv, TypeOK
<1>2. CASE Start
  BY <1>1, <1>2, FreshKeeps DEF Start, Rest, NoWindowSkipped, disk
<1>3. CASE Kill
  BY <1>1, <1>3, FreshKeeps DEF Kill, Rest, NoWindowSkipped, disk
<1>4. CASE FinalSave
  <2>1. \A k : ~InFlight(k) /\ ~InProc(k)
    BY <1>1, <1>4 DEF FinalSave, Rest, Roles, InFlight, InProc
  <2>2. \A k \in 0 .. save_k - 1 : k \in out
    BY <1>1, <1>4, <2>1 DEF FinalSave, Rest, Accounted, Draining
  <2>3. saved' = saved \/ saved' = save_k
    BY <1>4 DEF FinalSave
  <2>4. NoWindowSkipped'
    BY <1>1, <1>4, <2>2, <2>3 DEF FinalSave, Rest, NoWindowSkipped
  <2> QED BY <1>1, <1>4, <2>4, FreshKeeps DEF FinalSave
<1> QED BY <1>2, <1>3, <1>4

-----------------------------------------------------------------------------
(* Steps that change a flight                                               *)

LEMMA KernelEndsKeeps ==
  ASSUME IInv, NEW s \in {0, 1}, KernelEnds(s)
  PROVE  Rest'
<1>1. TypeOK /\ Rest /\ flights \in FlightsType
  BY Known DEF IInv
<1>2. /\ UNCHANGED <<config, saved, out, eng, pref, next_k, turn, exit_status, failure_k,
                     save_k, pc, i, cur, ret>>
      /\ flights' = [flights EXCEPT ![s].running = FALSE, ![s].mr = flights[s].pack.cands]
  BY DEF KernelEnds, disk, loop
<1>3. \A t \in {0, 1} : /\ flights'[t].active = flights[t].active
                        /\ flights'[t].n = flights[t].n
                        /\ flights'[t].pack = flights[t].pack
                        /\ flights'[t].total = flights[t].total
                        /\ \/ flights'[t].mr = flights[t].pack.cands
                           \/ /\ flights'[t].mr = flights[t].mr
                              /\ flights'[t].running = flights[t].running
  BY <1>1, <1>2 DEF FlightsType, Flight
<1>4. turn \in {0, 1} /\ cur \in {0, 1} /\ pref.b \in {None, 0, 1}
  BY <1>1 DEF TypeOK
<1>5. Roles'
  BY <1>1, <1>2, <1>3, <1>4 DEF Rest, Roles, Looping, Mode
<1>6. PrefOk'
  BY <1>1, <1>2, <1>3, <1>4 DEF Rest, PrefOk, Filled, Mode, None
<1>7. Packs'
  <2>1. \A t \in {0, 1} : flights'[t].n => Full(t)'
    BY <1>1, <1>2, <1>3 DEF Rest, Packs, Full, Filled, Base
  <2>2. pc' # "fill" \/ Filled(flights[turn].pack, i, next_k)'
    BY <1>1, <1>2, <1>3, <1>4 DEF Rest, Packs, Filled
  <2>3. \A t \in {0, 1} : flights'[t].active /\ ~flights'[t].running =>
                            flights'[t].mr = flights'[t].pack.cands
    BY <1>1, <1>3 DEF Rest, Packs
  <2>4. /\ pc' = "filled" => Base(turn)' = next_k'
        /\ pc' \in {"filled", "reserve", "scan", "finish"} => flights'[turn'].n
        /\ pc' = "finish" => flights'[turn'].mr = flights'[turn'].pack.cands
        /\ pc' = "process" => /\ flights'[cur'].n
                              /\ \/ flights'[cur'].total = 0
                                 \/ flights'[cur'].mr = flights'[cur'].pack.cands
    <3> DEFINE P(t) == /\ flights'[t].pack = flights[t].pack
                       /\ flights'[t].n = flights[t].n
                       /\ flights'[t].total = flights[t].total
                       /\ flights[t].mr = flights[t].pack.cands =>
                            flights'[t].mr = flights[t].pack.cands
    <3>1. P(turn) /\ P(cur)
      BY <1>3, <1>4
    <3>2. UNCHANGED <<pc, turn, cur, next_k>>
      BY <1>2
    <3>3. /\ pc = "filled" => Base(turn) = next_k
          /\ pc \in {"filled", "reserve", "scan", "finish"} => flights[turn].n
          /\ pc = "finish" => flights[turn].mr = flights[turn].pack.cands
          /\ pc = "process" =>
               /\ flights[cur].n
               /\ flights[cur].total = 0 \/ flights[cur].mr = flights[cur].pack.cands
      BY <1>1 DEF Rest, Packs
    <3> QED BY <3>1, <3>2, <3>3 DEF Base
  <2>5. Looping' => \A t \in {0, 1} : flights'[t].n =>
          \/ flights'[t].active
          \/ pref'.b = t /\ pref'.done
          \/ pc' \in {"filled", "reserve", "scan", "finish"} /\ t = turn'
          \/ pc' = "process" /\ t = cur'
    BY <1>1, <1>2, <1>3 DEF Rest, Packs, Looping
  <2>6. EngineOk(eng)'
    BY <1>1, <1>2 DEF Rest, Packs, EngineOk
  <2> QED BY <2>1, <2>2, <2>3, <2>4, <2>5, <2>6 DEF Packs
<1>8. Accounted'
  <2>1. \A t \in {0, 1} : Base(t)' = Base(t)
    BY <1>3 DEF Base
  <2>2. \A k : InFlight(k)' <=> InFlight(k)
    BY <1>3, <2>1 DEF InFlight
  <2>3. \A k : /\ InPref(k)' <=> InPref(k)
               /\ InTurn(k)' <=> InTurn(k)
               /\ InProc(k)' <=> InProc(k)
    BY <1>2, <1>3, <1>4 DEF InPref, InTurn, InProc, Base
  <2>4. Base(cur)' = Base(cur) /\ ExitPosition' = ExitPosition
    BY <1>2, <1>3, <1>4 DEF Base, ExitPosition
  <2> HIDE DEF ExitPosition, Base
  <2> QED BY <1>1, <1>2, <2>2, <2>3, <2>4 DEF Rest, Accounted, Looping, Draining
<1>9. Ahead' /\ SavedBehind' /\ NoWindowSkipped'
  <2>1. /\ \A t \in {0, 1} : Base(t)' = Base(t) /\ flights'[t].active = flights[t].active
        /\ Base(turn)' = Base(turn) /\ ExitPosition' = ExitPosition
    BY <1>2, <1>3, <1>4 DEF Base, ExitPosition
  <2> HIDE DEF Base, ExitPosition
  <2>2. Ahead'
    BY <1>1, <1>2, <2>1 DEF Rest, Ahead, Looping
  <2>3. SavedBehind'
    BY <1>1, <1>2, <2>1 DEF Rest, SavedBehind, Looping, Draining
  <2>4. NoWindowSkipped'
    BY <1>1, <1>2 DEF Rest, NoWindowSkipped
  <2> QED BY <2>2, <2>3, <2>4
<1> QED BY <1>5, <1>6, <1>7, <1>8, <1>9 DEF Rest

LEMMA ProcessEndsKeeps ==
  ASSUME IInv, ProcessEnds
  PROVE  Rest'
<1>1. TypeOK /\ Rest /\ flights \in FlightsType /\ cur \in {0, 1} /\ turn \in {0, 1}
  BY Known DEF IInv, TypeOK
<1>2. /\ UNCHANGED <<config, saved, out, eng, pref, next_k, turn, exit_status, failure_k,
                     save_k>>
      /\ pc = "process" /\ i = K /\ pc' = ret /\ flights' = FlightDone
      /\ ret \in {"refill", "tick", "drain1", "final"}
  BY <1>1 DEF ProcessEnds, TypeOK, disk, loop
<1>3. /\ ~flights'[cur].active /\ ~flights'[cur].n
      /\ \A t \in {0, 1} : /\ flights'[t].pack = flights[t].pack
                           /\ flights'[t].mr = flights[t].mr
                           /\ flights'[t].running = flights[t].running
                           /\ t # cur => /\ flights'[t].active = flights[t].active
                                         /\ flights'[t].n = flights[t].n
  BY <1>1, <1>2 DEF FlightDone, FlightsType, Flight
<1>4. \A t \in {0, 1} : /\ flights'[t].active => t # cur /\ flights[t].active
                        /\ flights'[t].n => t # cur /\ flights[t].n
  BY <1>3
<1>5. Roles'
  <2>1. \A t \in {0, 1} : flights'[t].active => Mode' = "plain" /\ flights'[t].n
    BY <1>1, <1>2, <1>3, <1>4 DEF Rest, Roles, Mode
  <2>2. /\ pc' = "refill" => ~flights'[turn'].active
        /\ pc' \in {"drain1", "final"} => ~flights'[0].active
        /\ pc' = "final" => ~flights'[1].active
    BY <1>1, <1>2, <1>4 DEF Rest, Roles
  <2>3. Looping' => exit_status' = 0
    BY <1>1, <1>2 DEF Rest, Roles, Looping
  <2> QED BY <1>2, <2>1, <2>2, <2>3 DEF Roles
<1>6. PrefOk'
  <2>1. CASE pref.b = None
    BY <1>2, <2>1 DEF PrefOk
  <2>2. CASE pref.b # None
    <3>1. /\ pref.b \in {0, 1} /\ Mode = "jump2" /\ pref.b = Other(turn) /\ pref.done
          /\ ~pref.failed => Filled(flights[pref.b].pack, pref.next_i, pref.k0)
          /\ pref.next_i = K /\ flights[pref.b].n
      BY <1>1, <1>2, <2>2 DEF Rest, PrefOk, TypeOK
    <3>2. ret = "tick"
      BY <1>1, <1>2, <3>1 DEF Rest, Roles
    <3>3. ~pref.failed => Filled(flights[pref.b].pack, pref.next_i, pref.k0)'
      BY <1>2, <1>3, <3>1 DEF Filled
    <3>4. ret = "tick" => cur = turn
      BY <1>1, <1>2 DEF Rest, Roles
    <3>5. flights'[pref.b].n
      <4>1. pref.b # cur
        BY <1>1, <3>1, <3>2, <3>4 DEF Other
      <4> QED BY <1>3, <3>1, <4>1
    <3> QED BY <1>2, <3>1, <3>2, <3>3, <3>5 DEF PrefOk, Mode, Other
  <2> QED BY <2>1, <2>2
<1>7. Packs'
  <2>1. \A t \in {0, 1} : flights'[t].n => Full(t)'
    BY <1>1, <1>2, <1>3, <1>4 DEF Rest, Packs, Full, Filled, Base
  <2>2. \A t \in {0, 1} : flights'[t].active /\ ~flights'[t].running =>
                            flights'[t].mr = flights'[t].pack.cands
    BY <1>1, <1>3, <1>4 DEF Rest, Packs
  <2>3. Looping' => \A t \in {0, 1} : flights'[t].n =>
          flights'[t].active \/ (pref'.b = t /\ pref'.done)
    BY <1>1, <1>2, <1>3, <1>4 DEF Rest, Packs, Looping
  <2>4. EngineOk(eng)'
    BY <1>1, <1>2 DEF Rest, Packs, EngineOk
  <2> QED BY <1>2, <2>1, <2>2, <2>3, <2>4 DEF Packs
<1>8. Accounted'
  <2>1. \A k \in Nat : InProc(k) => k \in out
    <3> SUFFICES ASSUME NEW k \in Nat, InProc(k) PROVE k \in out
      OBVIOUS
    <3>1. Base(cur) \in Nat /\ K \in Nat /\ k \in Base(cur) .. Base(cur) + K - 1
      BY <1>1, Known, Constants DEF InProc, Win
    <3>2. PICK w \in 0 .. i - 1 : k = Base(cur) + w
      <4>1. k - Base(cur) \in 0 .. i - 1 /\ k = Base(cur) + (k - Base(cur))
        BY <1>2, <3>1
      <4> QED BY <4>1
    <3> QED BY <1>1, <1>2, <3>2 DEF Rest, Accounted
  <2>2. \A k : InFlight(k) => InFlight(k)' \/ InProc(k)
    BY <1>2, <1>3 DEF InFlight, InProc, Base
  <2>3. \A k : (InPref(k)' <=> InPref(k)) /\ ~InTurn(k)
    BY <1>2 DEF InPref, InTurn
  <2>4. /\ Looping' => Looping /\ next_k \in Nat
        /\ Draining' => Draining /\ save_k \in Nat
        /\ pc' \notin {"exit", "process"}
    BY <1>1, <1>2 DEF Looping, Draining, TypeOK
  <2>5. /\ Looping => \A k \in 0 .. next_k - 1 :
                        k \in out \/ InFlight(k) \/ InPref(k) \/ InTurn(k) \/ InProc(k)
        /\ Draining => \A k \in 0 .. save_k - 1 : k \in out \/ InFlight(k) \/ InProc(k)
    BY <1>1 DEF Rest, Accounted
  <2>6. Looping' => \A k \in 0 .. next_k - 1 : k \in out \/ InFlight(k)' \/ InPref(k)'
    BY <2>1, <2>2, <2>3, <2>4, <2>5
  <2>7. Draining' => \A k \in 0 .. save_k - 1 : k \in out \/ InFlight(k)'
    BY <2>1, <2>2, <2>4, <2>5
  <2> QED BY <1>2, <2>4, <2>6, <2>7 DEF Accounted
<1>9. Ahead' /\ SavedBehind' /\ NoWindowSkipped'
  BY <1>1, <1>2, <1>3, <1>4
     DEF Rest, Ahead, SavedBehind, NoWindowSkipped, Looping, Draining, Base
<1> QED BY <1>5, <1>6, <1>7, <1>8, <1>9 DEF Rest

\* The candidates of the flight filled now go to the device.
LEMMA SubmittedKeeps ==
  ASSUME IInv, Submit, pc' = "tick"
  PROVE  Rest'
<1>1. /\ TypeOK /\ Rest /\ flights \in FlightsType /\ turn \in {0, 1}
      /\ next_k \in Nat /\ saved \in Nat
  BY Known DEF IInv, TypeOK
<1>2. /\ UNCHANGED <<config, saved, out, eng, pref, turn, exit_status>>
      /\ pc = "filled" /\ pc' = "tick" /\ Mode = "plain" /\ next_k' = next_k + K
      /\ flights' = [flights EXCEPT ![turn].active = TRUE, ![turn].running = TRUE]
  BY DEF Submit, Process, Advance, Fail, disk
<1>3. pref.b = None /\ Base(turn) = next_k /\ flights[turn].n /\ exit_status = 0
  BY <1>1, <1>2 DEF Rest, PrefOk, Packs, Roles, Looping
<1>4. /\ flights'[turn].active /\ flights'[turn].running
      /\ \A t \in {0, 1} : /\ flights'[t].pack = flights[t].pack
                           /\ flights'[t].mr = flights[t].mr
                           /\ flights'[t].n = flights[t].n
                           /\ t # turn => /\ flights'[t].active = flights[t].active
                                          /\ flights'[t].running = flights[t].running
  BY <1>1, <1>2 DEF FlightsType, Flight
<1>5. Roles'
  <2>1. \A t \in {0, 1} : flights'[t].active => Mode' = "plain" /\ flights'[t].n
    BY <1>1, <1>2, <1>3, <1>4 DEF Rest, Roles, Mode
  <2> QED BY <1>2, <1>3, <2>1 DEF Roles
<1>6. PrefOk'
  BY <1>2, <1>3 DEF PrefOk
<1>7. Packs'
  <2>1. \A t \in {0, 1} : flights'[t].n => Full(t)'
    BY <1>1, <1>2, <1>4 DEF Rest, Packs, Full, Filled, Base
  <2>2. \A t \in {0, 1} : flights'[t].active /\ ~flights'[t].running =>
                            flights'[t].mr = flights'[t].pack.cands
    BY <1>1, <1>4 DEF Rest, Packs
  <2>3. \A t \in {0, 1} : flights'[t].n => flights'[t].active
    <3> TAKE t \in {0, 1}
    <3>1. CASE t = turn
      BY <1>4, <3>1
    <3>2. CASE t # turn
      <4>1. flights[t].n => flights[t].active
        BY <1>1, <1>2, <1>3, <3>2 DEF Rest, Packs, Looping, None
      <4> QED BY <1>4, <3>2, <4>1
    <3> QED BY <3>1, <3>2
  <2>4. EngineOk(eng)'
    BY <1>1, <1>2 DEF Rest, Packs, EngineOk
  <2> QED BY <1>2, <2>1, <2>2, <2>3, <2>4 DEF Packs
<1>8. Accounted'
  <2>1. \A k \in 0 .. next_k - 1 : k \in out \/ InFlight(k)
    BY <1>1, <1>2, <1>3 DEF Rest, Accounted, Looping, InPref, InTurn, InProc
  <2>2. \A k : InFlight(k) => InFlight(k)'
    BY <1>4 DEF InFlight, Base
  <2>3. \A k \in next_k .. next_k + K - 1 : InFlight(k)'
    BY <1>1, <1>3, <1>4 DEF InFlight, Win, Base
  <2>4. \A k \in 0 .. next_k' - 1 : k \in 0 .. next_k - 1 \/ k \in next_k .. next_k + K - 1
    BY <1>1, <1>2, Constants
  <2> QED BY <1>2, <2>1, <2>2, <2>3, <2>4 DEF Accounted, Draining
<1>9. Ahead' /\ SavedBehind' /\ NoWindowSkipped'
  <2>1. \A t \in {0, 1} : Base(t)' = Base(t) /\ Base(t) \in Nat
    BY <1>1, <1>4, Known DEF Base
  <2>2. saved <= next_k /\ next_k <= next_k' /\ next_k' \in Nat
    BY <1>1, <1>2, Constants DEF Rest, SavedBehind, Looping
  <2>3. \A t \in {0, 1} : flights'[t].active => Base(t) <= next_k /\ saved <= Base(t)
    <3> TAKE t \in {0, 1}
    <3>1. flights[t].active => Base(t) <= next_k /\ saved <= Base(t)
      BY <1>1, <1>2 DEF Rest, SavedBehind, Ahead, Looping
    <3>2. CASE t = turn
      BY <1>1, <1>3, <2>2, <3>2
    <3>3. CASE t # turn
      BY <1>4, <3>1, <3>3
    <3> QED BY <3>2, <3>3
  <2> HIDE DEF Base
  <2>4. Ahead'
    BY <1>1, <1>2, <1>3, <2>1, <2>2, <2>3 DEF Ahead
  <2>5. SavedBehind'
    BY <1>1, <1>2, <1>3, <2>1, <2>2, <2>3 DEF SavedBehind, Draining
  <2>6. NoWindowSkipped'
    BY <1>1, <1>2 DEF Rest, NoWindowSkipped
  <2> QED BY <2>4, <2>5, <2>6
<1> QED BY <1>5, <1>6, <1>7, <1>8, <1>9 DEF Rest

\* The flight filled now is processed at once: it has no candidate, or they were
\* tested by a scan.
LEMMA ProcessedKeeps ==
  ASSUME IInv, Submit \/ Jump, Process(turn, "tick")
  PROVE  Rest'
<1>1. /\ TypeOK /\ Rest /\ flights \in FlightsType /\ turn \in {0, 1}
      /\ next_k \in Nat /\ saved \in Nat
  BY Known DEF IInv, TypeOK
<1>2. /\ UNCHANGED <<config, saved, out, eng, pref, turn, exit_status>>
      /\ pc = "filled" /\ pc' = "process" /\ Mode \in {"plain", "jump"} /\ next_k' = next_k + K
      /\ cur' = turn /\ i' = 0 /\ ret' = "tick"
      /\ (flights' = flights /\ flights[turn].total = 0) \/ flights' = Tested(turn)
  BY DEF Submit, Jump, Process, Advance, Fail, disk
<1>3. /\ pref.b = None /\ Base(turn) = next_k /\ flights[turn].n /\ exit_status = 0
      /\ ~flights[turn].active
  BY <1>1, <1>2 DEF Rest, PrefOk, Packs, Roles, Looping
<1>4. \A t \in {0, 1} : /\ flights'[t].pack = flights[t].pack
                        /\ flights'[t].n = flights[t].n
                        /\ flights'[t].total = flights[t].total
                        /\ flights'[t].active = flights[t].active
                        /\ flights'[t].running = flights[t].running
                        /\ flights'[t].mr = flights[t].mr
                             \/ flights'[t].mr = flights[t].pack.cands
  BY <1>1, <1>2 DEF Tested, FlightsType, Flight
<1>5. flights'[turn].total = 0 \/ flights'[turn].mr = flights'[turn].pack.cands
  BY <1>1, <1>2 DEF Tested, FlightsType, Flight
<1>6. Roles'
  <2>1. \A t \in {0, 1} : flights'[t].active => Mode' = "plain" /\ flights'[t].n
    BY <1>1, <1>2, <1>4 DEF Rest, Roles, Mode
  <2>2. ~flights'[turn].active
    BY <1>1, <1>3, <1>4
  <2> QED BY <1>2, <1>3, <2>1, <2>2 DEF Roles
<1>7. PrefOk'
  BY <1>2, <1>3 DEF PrefOk
<1>8. Packs'
  <2>1. \A t \in {0, 1} : flights'[t].n => Full(t)'
    BY <1>1, <1>2, <1>4 DEF Rest, Packs, Full, Filled, Base
  <2>2. \A t \in {0, 1} : flights'[t].active /\ ~flights'[t].running =>
                            flights'[t].mr = flights'[t].pack.cands
    BY <1>1, <1>4 DEF Rest, Packs
  <2>3. \A t \in {0, 1} : flights'[t].n => flights'[t].active \/ t = turn
    BY <1>1, <1>2, <1>3, <1>4 DEF Rest, Packs, Looping, None
  <2>4. EngineOk(eng)' /\ flights'[turn].n
    BY <1>1, <1>2, <1>3, <1>4 DEF Rest, Packs, EngineOk
  <2> QED BY <1>2, <1>5, <2>1, <2>2, <2>3, <2>4 DEF Packs
<1>9. Accounted'
  <2>1. \A k \in 0 .. next_k - 1 : k \in out \/ InFlight(k)
    BY <1>1, <1>2, <1>3 DEF Rest, Accounted, Looping, InPref, InTurn, InProc
  <2>2. \A k : InFlight(k) => InFlight(k)'
    BY <1>4 DEF InFlight, Base
  <2>3. \A k \in next_k .. next_k + K - 1 : InProc(k)'
    BY <1>1, <1>2, <1>3, <1>4 DEF InProc, Win, Base
  <2>4. \A k \in 0 .. next_k' - 1 : k \in 0 .. next_k - 1 \/ k \in next_k .. next_k + K - 1
    BY <1>1, <1>2, Constants
  <2>5. \A w \in 0 .. i' - 1 : FALSE
    BY <1>2
  <2> QED BY <1>2, <2>1, <2>2, <2>3, <2>4, <2>5 DEF Accounted, Draining
<1>10. Ahead' /\ SavedBehind' /\ NoWindowSkipped'
  <2>1. \A t \in {0, 1} : Base(t)' = Base(t) /\ Base(t) \in Nat
    BY <1>1, <1>4, Known DEF Base
  <2>2. saved <= next_k /\ next_k <= next_k' /\ next_k' \in Nat
    BY <1>1, <1>2, Constants DEF Rest, SavedBehind, Looping
  <2>3. \A t \in {0, 1} : flights'[t].active => Base(t) <= next_k /\ saved <= Base(t)
    BY <1>1, <1>2, <1>4 DEF Rest, SavedBehind, Ahead, Looping
  <2> HIDE DEF Base
  <2>4. Ahead'
    BY <1>1, <1>2, <1>3, <2>1, <2>2, <2>3 DEF Ahead
  <2>5. SavedBehind'
    BY <1>1, <1>2, <1>3, <2>1, <2>2, <2>3 DEF SavedBehind, Draining
  <2>6. NoWindowSkipped'
    BY <1>1, <1>2 DEF Rest, NoWindowSkipped
  <2> QED BY <2>4, <2>5, <2>6
<1> QED BY <1>6, <1>7, <1>8, <1>9, <1>10 DEF Rest

\* The flight whose turn it is is written; a failure of the fill gives the flight up.
LEMMA FillingKeeps ==
  ASSUME IInv, UNCHANGED <<config, saved, out, pref, next_k, turn>>, EngineOk(eng)',
         pc \in {"refill", "fill"}, pref.b = None, NEW b,
         flights' = [flights EXCEPT ![turn].pack = b],
         \/ pc' = "fill" /\ exit_status' = exit_status /\ Filled(b, i', next_k)
         \/ pc' = "exit" /\ exit_status' = 1 /\ failure_k' = next_k
  PROVE  Rest'
<1>1. /\ TypeOK /\ Rest /\ flights \in FlightsType /\ turn \in {0, 1}
      /\ next_k \in Nat /\ saved \in Nat
  BY Known DEF IInv, TypeOK
<1>2. Looping /\ exit_status = 0 /\ ~flights[turn].active /\ ~flights[turn].n
  BY <1>1 DEF Rest, Roles, Packs, Looping, None
<1>3. /\ flights'[turn].pack = b
      /\ \A t \in {0, 1} : /\ flights'[t].n = flights[t].n
                           /\ flights'[t].active = flights[t].active
                           /\ flights'[t].running = flights[t].running
                           /\ flights'[t].mr = flights[t].mr
                           /\ t # turn => flights'[t].pack = flights[t].pack
  BY <1>1 DEF FlightsType, Flight
<1>4. \A t \in {0, 1} : /\ flights[t].active => t # turn
                        /\ flights[t].n => t # turn
  BY <1>2
<1>5. Roles'
  <2>1. \A t \in {0, 1} : flights'[t].active => Mode' = "plain" /\ flights'[t].n
    BY <1>1, <1>3 DEF Rest, Roles, Mode
  <2>2. ~flights'[turn].active
    BY <1>1, <1>2, <1>3
  <2> QED BY <1>2, <2>1, <2>2 DEF Roles, Looping
<1>6. PrefOk'
  BY DEF PrefOk
<1>7. Packs'
  <2>1. \A t \in {0, 1} : flights'[t].n => Full(t)'
    BY <1>1, <1>3, <1>4 DEF Rest, Packs, Full, Filled, Base
  <2>2. \A t \in {0, 1} : flights'[t].active /\ ~flights'[t].running =>
                            flights'[t].mr = flights'[t].pack.cands
    BY <1>1, <1>3, <1>4 DEF Rest, Packs
  <2>3. \A t \in {0, 1} : flights'[t].n => flights'[t].active
    BY <1>1, <1>2, <1>3 DEF Rest, Packs, Looping, None
  <2>4. pc' = "fill" => Filled(flights[turn].pack, i, next_k)'
    BY <1>3 DEF Filled
  <2> QED BY <2>1, <2>2, <2>3, <2>4 DEF Packs
<1>8. \A k \in 0 .. next_k - 1 : k \in out' \/ InFlight(k)'
  <2>1. \A k \in 0 .. next_k - 1 : k \in out \/ InFlight(k)
    BY <1>1, <1>2 DEF Rest, Accounted, InPref, InTurn, InProc
  <2>2. \A k : InFlight(k) => InFlight(k)'
    BY <1>3, <1>4 DEF InFlight, Base
  <2> QED BY <2>1, <2>2
<1>9. pc' = "exit" => ExitPosition' = next_k
  BY DEF ExitPosition
<1> HIDE DEF ExitPosition
<1>10. Accounted'
  BY <1>8, <1>9 DEF Accounted, Draining
<1>11. Ahead' /\ SavedBehind' /\ NoWindowSkipped'
  <2>1. \A t \in {0, 1} : flights[t].active => Base(t)' = Base(t)
    BY <1>3, <1>4 DEF Base
  <2>2. /\ saved <= next_k
        /\ \A t \in {0, 1} : flights[t].active => Base(t) <= next_k /\ saved <= Base(t)
    BY <1>1, <1>2 DEF Rest, SavedBehind, Ahead
  <2>3. \A t \in {0, 1} : flights'[t].active => Base(t)' <= next_k /\ saved <= Base(t)'
    BY <1>3, <2>1, <2>2
  <2> HIDE DEF Base
  <2>4. Ahead'
    BY <2>3 DEF Ahead
  <2>5. SavedBehind'
    BY <1>9, <2>2, <2>3 DEF SavedBehind, Draining
  <2>6. NoWindowSkipped'
    BY <1>1 DEF Rest, NoWindowSkipped
  <2> QED BY <2>4, <2>5, <2>6
<1> QED BY <1>5, <1>6, <1>7, <1>10, <1>11 DEF Rest

LEMMA FillKeeps ==
  ASSUME IInv, BeginFill \/ FillFlight
  PROVE  Rest'
<1>1. /\ TypeOK /\ Rest /\ flights \in FlightsType /\ turn \in {0, 1} /\ EngineOk(eng)
      /\ next_k \in Nat
  BY Known DEF IInv, Rest, Packs, TypeOK
<1>2. CASE BeginFill
  <2> DEFINE b == [flights[turn].pack EXCEPT !.used = 0]
  <2>1. /\ UNCHANGED <<config, saved, out, pref, next_k, turn, eng, exit_status>>
        /\ pc = "refill" /\ pc' = "fill" /\ i' = 0
        /\ flights' = [flights EXCEPT ![turn].pack.used = 0] /\ ~Prefetched
    BY <1>2 DEF BeginFill, disk, loop
  <2>2. pref.b = None
    BY <1>1, <2>1 DEF Rest, PrefOk, Prefetched
  <2>3. flights' = [flights EXCEPT ![turn].pack = b]
    BY <1>1, <2>1 DEF FlightsType
  <2>4. Filled(b, i', next_k)
    BY <2>1 DEF Filled, Packed
  <2>5. EngineOk(eng)'
    BY <1>1, <2>1 DEF EngineOk
  <2> HIDE DEF b
  <2> QED BY <2>1, <2>2, <2>3, <2>4, <2>5, FillingKeeps
<1>3. CASE FillFlight
  <2>1. /\ i \in Slots /\ Filled(flights[turn].pack, i, next_k) /\ pref.b = None
        /\ pc = "fill"
    BY <1>1, <1>3, Constants DEF FillFlight, TypeOK, Rest, Packs, PrefOk, Slots
  <2>2. PICK o \in FillStep(eng, flights[turn].pack, i, next_k + i) :
          /\ eng' = o.e /\ flights' = [flights EXCEPT ![turn].pack = o.b]
          /\ \/ o.ok /\ i' = i + Quantum(eng, i, next_k + i) /\ UNCHANGED <<loop, pc>>
             \/ Fail(next_k)
          /\ UNCHANGED <<config, disk, pref>>
    BY <1>3 DEF FillFlight
  <2> DEFINE q == i + Quantum(eng, i, next_k + i)
  <2>3. EngineOk(o.e) /\ (o.ok => Filled(o.b, q, next_k))
    BY <1>1, <2>1, FillTyped
  <2>4. EngineOk(eng)'
    BY <2>2, <2>3 DEF EngineOk
  <2>5. o.ok /\ i' = q => Filled(o.b, i', next_k)
    BY <2>3
  <2> HIDE DEF q, Filled
  <2>6. \/ pc' = "fill" /\ exit_status' = exit_status /\ Filled(o.b, i', next_k)
        \/ pc' = "exit" /\ exit_status' = 1 /\ failure_k' = next_k
    <3>1. CASE Fail(next_k)
      BY <3>1 DEF Fail
    <3>2. CASE o.ok /\ i' = q /\ UNCHANGED <<loop, pc>>
      BY <2>1, <2>5, <3>2 DEF loop
    <3> QED BY <2>2, <3>1, <3>2 DEF q
  <2>7. UNCHANGED <<config, saved, out, pref, next_k, turn>>
    BY <2>2 DEF Fail, loop, disk
  <2> QED BY <2>1, <2>2, <2>4, <2>6, <2>7, FillingKeeps
<1> QED BY <1>2, <1>3

\* What committing flight s changes.
LEMMA CommitSets ==
  ASSUME TypeOK, NEW s \in {0, 1}
  PROVE  /\ Committed(s)[s].n
         /\ \A t \in {0, 1} : /\ Committed(s)[t].pack = flights[t].pack
                              /\ Committed(s)[t].active = flights[t].active
                              /\ Committed(s)[t].running = flights[t].running
                              /\ Committed(s)[t].mr = flights[t].mr
                              /\ t # s => /\ Committed(s)[t].n = flights[t].n
                                          /\ Committed(s)[t].total = flights[t].total
BY Known DEF Committed, FlightsType, Flight

LEMMA CommitKeeps ==
  ASSUME IInv, CommitFill, flights' = Committed(turn), pc' = "filled"
  PROVE  Rest'
<1>1. /\ TypeOK /\ Rest /\ turn \in {0, 1} /\ next_k \in Nat
  BY DEF IInv, TypeOK
<1>2. /\ UNCHANGED <<config, saved, out, eng, pref, next_k, turn, exit_status>>
      /\ pc = "fill" /\ i = K /\ pc' = "filled" /\ flights' = Committed(turn)
  BY DEF CommitFill, Fail, disk, loop
<1>3. /\ pref.b = None /\ Filled(flights[turn].pack, K, next_k) /\ exit_status = 0
      /\ ~flights[turn].active
  BY <1>1, <1>2 DEF Rest, PrefOk, Packs, Roles, Looping
<1>4. Base(turn) = next_k /\ Full(turn)
  <2>1. flights[turn].pack.base[0] = next_k
    BY <1>1, <1>3, FilledBase
  <2> QED BY <1>3, <2>1 DEF Base, Full
<1>5. /\ flights'[turn].n
      /\ \A t \in {0, 1} : /\ flights'[t].pack = flights[t].pack
                           /\ flights'[t].active = flights[t].active
                           /\ flights'[t].running = flights[t].running
                           /\ flights'[t].mr = flights[t].mr
                           /\ t # turn => flights'[t].n = flights[t].n
  BY <1>1, <1>2, CommitSets
<1>6. Roles'
  <2>1. \A t \in {0, 1} : flights'[t].active => Mode' = "plain" /\ flights'[t].n
    BY <1>1, <1>2, <1>5 DEF Rest, Roles, Mode
  <2> QED BY <1>1, <1>2, <1>3, <1>5, <2>1 DEF Roles
<1>7. PrefOk'
  BY <1>2, <1>3 DEF PrefOk
<1>8. Packs'
  <2>1. \A t \in {0, 1} : flights'[t].n => Full(t)
    BY <1>1, <1>4, <1>5 DEF Rest, Packs
  <2>2. \A t \in {0, 1} : Full(t)' <=> Full(t)
    BY <1>2, <1>5 DEF Full, Filled, Base
  <2>3. \A t \in {0, 1} : flights'[t].active /\ ~flights'[t].running =>
                            flights'[t].mr = flights'[t].pack.cands
    BY <1>1, <1>5 DEF Rest, Packs
  <2>4. \A t \in {0, 1} : flights'[t].n => flights'[t].active \/ t = turn
    BY <1>1, <1>2, <1>3, <1>5 DEF Rest, Packs, Looping, None
  <2>5. EngineOk(eng)' /\ Base(turn)' = next_k'
    BY <1>1, <1>2, <1>4, <1>5 DEF Rest, Packs, EngineOk, Base
  <2>6. flights'[turn].n /\ pc' = "filled" /\ turn' = turn
    BY <1>2, <1>5
  <2> HIDE DEF Full, Base
  <2> QED BY <2>1, <2>2, <2>3, <2>4, <2>5, <2>6 DEF Packs
<1>9. Accounted'
  <2>1. \A k \in 0 .. next_k - 1 : k \in out \/ InFlight(k)
    BY <1>1, <1>2, <1>3 DEF Rest, Accounted, Looping, InPref, InTurn, InProc
  <2>2. \A k : InFlight(k) => InFlight(k)'
    BY <1>5 DEF InFlight, Base
  <2> QED BY <1>2, <2>1, <2>2 DEF Accounted, Draining
<1>10. Ahead' /\ SavedBehind' /\ NoWindowSkipped'
  <2>1. \A t \in {0, 1} : Base(t)' = Base(t)
    BY <1>5 DEF Base
  <2>2. /\ saved <= next_k
        /\ \A t \in {0, 1} : flights[t].active => Base(t) <= next_k /\ saved <= Base(t)
    BY <1>1, <1>2 DEF Rest, SavedBehind, Ahead, Looping
  <2>3. \A t \in {0, 1} : flights'[t].active => Base(t)' <= next_k /\ saved <= Base(t)'
    BY <1>5, <2>1, <2>2
  <2> HIDE DEF Base
  <2>4. Ahead'
    BY <1>2, <1>3, <2>3 DEF Ahead
  <2>5. SavedBehind'
    BY <1>2, <1>3, <2>2, <2>3 DEF SavedBehind, Draining
  <2>6. NoWindowSkipped'
    BY <1>1, <1>2 DEF Rest, NoWindowSkipped
  <2> QED BY <2>4, <2>5, <2>6
<1> QED BY <1>6, <1>7, <1>8, <1>9, <1>10 DEF Rest

LEMMA ReserveKeeps ==
  ASSUME IInv, Reserve
  PROVE  Rest'
<1>1. /\ TypeOK /\ Rest /\ flights \in FlightsType /\ turn \in {0, 1}
      /\ next_k \in Nat /\ saved \in Nat
  BY Known DEF IInv, TypeOK
<1>2. /\ UNCHANGED <<config, saved, out, eng, turn, exit_status>>
      /\ pc = "reserve" /\ pc' = "scan"
  BY DEF Reserve, disk
<1>3. /\ pref.b = None /\ Mode = "jump2" /\ exit_status = 0 /\ flights[turn].n
      /\ \A t \in {0, 1} : ~flights[t].active
      /\ \A t \in {0, 1} : flights[t].n => t = turn
      /\ saved <= next_k /\ saved <= Base(turn) /\ Base(turn) <= next_k
      /\ \A t \in {0, 1} : flights[t].n => Full(t)
      /\ EngineOk(eng)
  BY <1>1, <1>2 DEF Rest, PrefOk, Packs, Roles, SavedBehind, Ahead, Looping, None
<1>4. Other(turn) \in {0, 1} /\ Other(turn) # turn /\ Other(turn) # None
  BY <1>1 DEF Other, None
<1>5. /\ flights'[turn].pack = flights[turn].pack
      /\ \A t \in {0, 1} : flights'[t].n = flights[t].n /\ flights'[t].active = flights[t].active
  <2>1. \/ flights' = flights
        \/ flights' = [flights EXCEPT ![Other(turn)].pack.used = 0]
    BY DEF Reserve
  <2> HIDE DEF Other
  <2> QED BY <1>1, <1>4, <2>1 DEF FlightsType, Flight
<1>6. \/ pref' = pref /\ next_k' = next_k
      \/ /\ pref' = [b |-> Other(turn), k0 |-> next_k, next_i |-> 0,
                     done |-> FALSE, failed |-> FALSE]
         /\ next_k' = next_k + K
  BY DEF Reserve, Advance
<1>7. \/ pref' = pref /\ next_k' = next_k
      \/ /\ pref'.b = Other(turn) /\ pref'.k0 = next_k /\ pref'.next_i = 0
         /\ ~pref'.done /\ next_k' = next_k + K
  BY <1>6
<1>8. Roles'
  BY <1>2, <1>3, <1>5 DEF Roles, Mode
<1>9. PrefOk'
  <2>1. \A b, k0 : Filled(b, 0, k0)'
    BY DEF Filled, Packed
  <2> QED BY <1>2, <1>3, <1>7, <2>1 DEF PrefOk, Mode, Other
<1>10. Packs'
  <2>1. \A t \in {0, 1} : flights'[t].n => t = turn /\ Full(t)
    BY <1>3, <1>5
  <2>2. \A t \in {0, 1} : flights'[t].n => Full(t)'
    <3> TAKE t \in {0, 1}
    <3>1. flights'[t].n => flights'[t].pack = flights[t].pack
      BY <1>5, <2>1
    <3> QED BY <1>2, <2>1, <3>1 DEF Full, Filled, Base
  <2>3. EngineOk(eng)'
    BY <1>2, <1>3 DEF EngineOk
  <2> HIDE DEF Full
  <2> QED BY <1>1, <1>2, <1>3, <1>5, <2>2, <2>3 DEF Packs
<1>11. Accounted'
  <2>1. \A k \in 0 .. next_k - 1 : k \in out \/ k \in Win(Base(turn))
    BY <1>1, <1>2, <1>3 DEF Rest, Accounted, Looping, InFlight, InPref, InTurn, InProc
  <2>2. Base(turn)' = Base(turn)
    BY <1>2, <1>5 DEF Base
  <2>3. \A k \in 0 .. next_k - 1 : k \in out' \/ InTurn(k)'
    BY <1>2, <2>1, <2>2 DEF InTurn, Win
  <2>4. \A k \in 0 .. next_k' - 1 : k \in 0 .. next_k - 1 \/ InPref(k)'
    BY <1>1, <1>3, <1>4, <1>7, Constants DEF InPref, Win
  <2> QED BY <1>2, <2>3, <2>4 DEF Accounted, Draining
<1>12. Ahead' /\ SavedBehind' /\ NoWindowSkipped'
  <2>1. Base(turn)' = Base(turn) /\ Base(turn) \in Nat
    BY <1>1, <1>2, <1>5, Known DEF Base
  <2>2. next_k <= next_k' /\ next_k' \in Nat
    BY <1>1, <1>7, Constants
  <2>3. pref'.b # None => pref'.k0 = next_k
    BY <1>3, <1>7
  <2> HIDE DEF Base
  <2>4. Ahead'
    BY <1>1, <1>2, <1>3, <1>5, <2>1, <2>2, <2>3 DEF Ahead
  <2>5. SavedBehind'
    BY <1>1, <1>2, <1>3, <1>5, <2>1, <2>2, <2>3 DEF SavedBehind, Draining
  <2>6. NoWindowSkipped'
    BY <1>1, <1>2 DEF Rest, NoWindowSkipped
  <2> QED BY <2>4, <2>5, <2>6
<1> QED BY <1>8, <1>9, <1>10, <1>11, <1>12 DEF Rest

LEMMA ScanEndsKeeps ==
  ASSUME IInv, ScanEnds, flights' = Tested(turn), UNCHANGED loop
  PROVE  Rest'
<1>1. /\ TypeOK /\ Rest /\ flights \in FlightsType /\ turn \in {0, 1}
  BY Known DEF IInv, TypeOK
<1>2. /\ UNCHANGED <<config, saved, out, eng, pref, next_k, turn, exit_status>>
      /\ pc = "scan" /\ flights' = Tested(turn)
      /\ \/ /\ pref.b = None \/ pref.done
            /\ pc' = "process" /\ cur' = turn /\ i' = 0 /\ ret' = "tick"
         \/ pc' = "finish"
  <2>1. exit_status = 0 /\ exit_status' = 0
    BY <1>1 DEF ScanEnds, Rest, Roles, Looping, loop
  <2> QED BY <2>1 DEF ScanEnds, Process, Fail, disk, loop
<1>3. /\ Mode = "jump2" /\ exit_status = 0 /\ flights[turn].n
      /\ \A t \in {0, 1} : ~flights[t].active
  BY <1>1, <1>2 DEF Rest, Packs, Roles, Looping
<1>4. /\ flights'[turn].mr = flights[turn].pack.cands
      /\ \A t \in {0, 1} : /\ flights'[t].pack = flights[t].pack
                           /\ flights'[t].n = flights[t].n
                           /\ flights'[t].active = flights[t].active
  BY <1>1, <1>2 DEF Tested, FlightsType, Flight
<1>5. Looping'
  BY <1>2 DEF Looping
<1>6. Roles'
  BY <1>1, <1>2, <1>3, <1>4 DEF Roles, Mode
<1>7. PrefOk'
  <2>1. CASE pref.b = None
    BY <1>2, <2>1 DEF PrefOk
  <2>2. CASE pref.b # None
    <3>1. pref.b \in {0, 1}
      BY <1>1, <2>2 DEF TypeOK
    <3>2. /\ Filled(flights[pref.b].pack, pref.next_i, pref.k0)'
               <=> Filled(flights[pref.b].pack, pref.next_i, pref.k0)
          /\ flights'[pref.b].n = flights[pref.b].n
      BY <1>2, <1>4, <3>1 DEF Filled
    <3> HIDE DEF Filled
    <3> QED BY <1>1, <1>2, <2>2, <3>2 DEF Rest, PrefOk, Mode, Other
  <2> QED BY <2>1, <2>2
<1>8. Packs'
  <2>1. \A t \in {0, 1} : flights'[t].n => Full(t)'
    BY <1>1, <1>2, <1>4 DEF Rest, Packs, Full, Filled, Base
  <2>2. \A t \in {0, 1} : flights'[t].n => (pref'.b = t /\ pref'.done) \/ t = turn'
    BY <1>1, <1>2, <1>3, <1>4 DEF Rest, Packs, Looping
  <2>3. EngineOk(eng)'
    BY <1>1, <1>2 DEF Rest, Packs, EngineOk
  <2>4. flights'[turn'].n /\ flights'[turn'].mr = flights'[turn'].pack.cands
    BY <1>1, <1>2, <1>3, <1>4
  <2>5. pc' \in {"process", "finish"} /\ (pc' = "process" => cur' = turn')
    BY <1>2
  <2>6. \A t \in {0, 1} : ~flights'[t].active
    BY <1>3, <1>4
  <2> QED BY <2>1, <2>2, <2>3, <2>4, <2>5, <2>6 DEF Packs
<1>9. Accounted'
  <2>1. \A k \in 0 .. next_k - 1 : k \in out \/ InPref(k) \/ k \in Win(Base(turn))
    BY <1>1, <1>2, <1>3 DEF Rest, Accounted, Looping, InFlight, InTurn, InProc
  <2>2. \A k : k \in Win(Base(turn)) => InTurn(k)' \/ InProc(k)'
    BY <1>1, <1>2, <1>4 DEF InTurn, InProc, Win, Base
  <2>3. \A k : InPref(k)' <=> InPref(k)
    BY <1>2 DEF InPref
  <2>4. pc' # "exit" /\ ~Draining' /\ (pc' = "process" => i' = 0)
    BY <1>2 DEF Draining
  <2> QED BY <1>2, <2>1, <2>2, <2>3, <2>4 DEF Accounted
<1>10. Ahead' /\ SavedBehind' /\ NoWindowSkipped'
  <2>1. Base(turn)' = Base(turn)
    BY <1>1, <1>2, <1>4 DEF Base
  <2>2. /\ saved <= next_k /\ saved <= Base(turn) /\ Base(turn) <= next_k
        /\ pref.b # None => saved <= pref.k0 /\ pref.k0 <= next_k
    BY <1>1, <1>2 DEF Rest, SavedBehind, Ahead, Looping
  <2>3. ~Draining' /\ pc' # "exit" /\ \A t \in {0, 1} : ~flights'[t].active
    BY <1>2, <1>3, <1>4 DEF Draining
  <2> HIDE DEF Base
  <2>4. Ahead'
    BY <1>2, <2>1, <2>2, <2>3 DEF Ahead
  <2>5. SavedBehind'
    BY <1>2, <2>1, <2>2, <2>3 DEF SavedBehind
  <2>6. NoWindowSkipped'
    BY <1>1, <1>2 DEF Rest, NoWindowSkipped
  <2> QED BY <2>4, <2>5, <2>6
<1> QED BY <1>6, <1>7, <1>8, <1>9, <1>10 DEF Rest

\* A step of the prefetch leaves the flight being scanned alone.
LEMMA PrefetchKeeps ==
  ASSUME IInv, Prefetch
  PROVE  Rest'
<1> DEFINE p == pref.b
<1>1. /\ TypeOK /\ Rest /\ flights \in FlightsType /\ turn \in {0, 1} /\ pref \in Prefs
      /\ next_k \in Nat /\ saved \in Nat
  BY Known DEF IInv, TypeOK
<1>2. /\ UNCHANGED <<config, saved, out, next_k, turn, exit_status, pc>>
      /\ pc \in {"scan", "finish"} /\ p # None /\ ~pref.done /\ ~pref.failed
  BY DEF Prefetch, disk, loop
<1>3. /\ Mode = "jump2" /\ exit_status = 0 /\ flights[turn].n
      /\ \A t \in {0, 1} : ~flights[t].active
      /\ \A t \in {0, 1} : flights[t].n => t = turn
      /\ \A t \in {0, 1} : flights[t].n => Full(t)
      /\ pc = "finish" => flights[turn].mr = flights[turn].pack.cands
      /\ EngineOk(eng)
  BY <1>1, <1>2 DEF Rest, Packs, Roles, Looping
<1>4. /\ p \in {0, 1} /\ p = Other(turn) /\ p # turn
      /\ Filled(flights[p].pack, pref.next_i, pref.k0)
  BY <1>1, <1>2 DEF Rest, PrefOk, Other, TypeOK
<1>5. /\ \A t \in {0, 1} : /\ flights'[t].active = flights[t].active
                           /\ t # p => /\ flights'[t].pack = flights[t].pack
                                       /\ flights'[t].mr = flights[t].mr
                                       /\ flights'[t].n = flights[t].n
      /\ EngineOk(eng)' /\ pref'.b = p /\ pref'.k0 = pref.k0
      /\ \/ /\ ~pref'.done /\ ~flights'[p].n
            /\ pref'.failed \/ Filled(flights'[p].pack, pref'.next_i, pref.k0)
         \/ /\ pref'.done /\ pref'.next_i = K /\ flights'[p].n
            /\ Filled(flights'[p].pack, K, pref.k0)
  <2>1. CASE pref.next_i < K
    <3>1. pref.next_i \in Slots /\ pref.k0 \in Nat /\ pref.next_i # K
      BY <1>1, <2>1, Known, Constants DEF Slots
    <3> DEFINE q == pref.next_i + Quantum(eng, pref.next_i, pref.k0 + pref.next_i)
    <3>2. PICK o \in FillStep(eng, flights[p].pack, pref.next_i, pref.k0 + pref.next_i) :
            /\ eng' = o.e /\ flights' = [flights EXCEPT ![p].pack = o.b]
            /\ \/ o.ok /\ pref' = [pref EXCEPT !.next_i = q]
               \/ pref' = [pref EXCEPT !.failed = TRUE]
      BY <3>1 DEF Prefetch
    <3>3. EngineOk(o.e) /\ (o.ok => Filled(o.b, q, pref.k0))
      BY <1>1, <1>3, <1>4, <3>1, FillTyped
    <3>4. ~flights[p].n
      BY <1>3, <1>4
    <3> HIDE DEF q, p, Filled
    <3>5. /\ flights'[p].pack = o.b /\ ~flights'[p].n
          /\ \A t \in {0, 1} : /\ flights'[t].active = flights[t].active
                               /\ t # p => /\ flights'[t].pack = flights[t].pack
                                           /\ flights'[t].mr = flights[t].mr
                                           /\ flights'[t].n = flights[t].n
      BY <1>1, <1>4, <3>2, <3>4 DEF FlightsType, Flight
    <3>6. EngineOk(eng)'
      BY <3>2, <3>3 DEF EngineOk
    <3>7. /\ pref'.b = p /\ pref'.k0 = pref.k0 /\ ~pref'.done
          /\ pref'.failed \/ (o.ok /\ pref'.next_i = q)
      BY <1>1, <1>2, <3>2 DEF Prefs, p
    <3> QED BY <3>3, <3>5, <3>6, <3>7
  <2>2. CASE ~(pref.next_i < K)
    <3>1. /\ pref.next_i = K /\ flights' = Committed(p) /\ eng' = eng
          /\ \/ pref' = [pref EXCEPT !.done = TRUE]
             \/ pref' = [pref EXCEPT !.done = TRUE, !.failed = TRUE]
      BY <2>2 DEF Prefetch
    <3>2. /\ pref'.b = p /\ pref'.k0 = pref.k0 /\ pref'.done /\ pref'.next_i = K
      BY <1>1, <3>1 DEF Prefs
    <3>3. EngineOk(eng)'
      BY <1>3, <3>1 DEF EngineOk
    <3> HIDE DEF p, Filled
    <3>4. /\ flights'[p].n /\ flights'[p].pack = flights[p].pack
          /\ \A t \in {0, 1} : /\ flights'[t].active = flights[t].active
                               /\ t # p => /\ flights'[t].pack = flights[t].pack
                                           /\ flights'[t].mr = flights[t].mr
                                           /\ flights'[t].n = flights[t].n
      BY <1>1, <1>4, <3>1, CommitSets
    <3> QED BY <1>4, <3>1, <3>2, <3>3, <3>4
  <2> QED BY <2>1, <2>2
<1>6. /\ flights'[turn].n /\ flights'[turn].pack = flights[turn].pack
      /\ flights'[turn].mr = flights[turn].mr
      /\ \A t \in {0, 1} : t = turn \/ t = p
  BY <1>1, <1>3, <1>4, <1>5 DEF Other
<1> HIDE DEF p
<1>7. Roles'
  BY <1>2, <1>3, <1>5 DEF Roles, Mode
<1>8. PrefOk'
  <2>1. ~pref'.failed => Filled(flights'[p].pack, pref'.next_i, pref.k0)
    BY <1>5
  <2>2. Filled(flights[pref.b].pack, pref.next_i, pref.k0)'
          <=> Filled(flights'[p].pack, pref'.next_i, pref.k0)
    BY <1>2, <1>5 DEF Filled
  <2>3. pref'.done => pref'.next_i = K /\ flights'[pref'.b].n
    BY <1>5
  <2>4. pref'.b = Other(turn')
    BY <1>2, <1>4, <1>5 DEF Other
  <2> HIDE DEF Filled
  <2> QED BY <1>2, <1>3, <2>1, <2>2, <2>3, <2>4 DEF PrefOk, Mode, Other
<1>9. Packs'
  <2>1. \A t \in {0, 1} : flights'[t].n => Full(t)'
    <3> TAKE t \in {0, 1}
    <3>1. CASE t = turn
      BY <1>2, <1>3, <1>6, <3>1 DEF Full, Filled, Base
    <3>2. CASE t = p /\ flights'[t].n
      <4>1. Filled(flights'[p].pack, K, pref.k0) /\ pref.k0 \in Nat
        BY <1>1, <1>5, <3>2, Known
      <4>2. flights'[p].pack.base[0] = pref.k0
        BY <4>1, FilledBase
      <4> QED BY <1>2, <3>2, <4>1, <4>2 DEF Full, Filled, Base
    <3> QED BY <1>6, <3>1, <3>2
  <2>2. \A t \in {0, 1} : flights'[t].n => (pref'.b = t /\ pref'.done) \/ t = turn'
    BY <1>2, <1>5, <1>6
  <2>3. \A t \in {0, 1} : ~flights'[t].active
    BY <1>3, <1>5
  <2>4. /\ flights'[turn'].n /\ pc' \in {"scan", "finish"}
        /\ pc' = "finish" => flights'[turn'].mr = flights'[turn'].pack.cands
    BY <1>2, <1>3, <1>6
  <2> HIDE DEF Full
  <2> QED BY <1>5, <2>1, <2>2, <2>3, <2>4 DEF Packs
<1>10. Base(turn)' = Base(turn)
  BY <1>2, <1>6 DEF Base
<1>11. Accounted'
  <2>1. \A k \in 0 .. next_k - 1 : k \in out \/ InPref(k) \/ k \in Win(Base(turn))
    BY <1>1, <1>2, <1>3 DEF Rest, Accounted, Looping, InFlight, InTurn, InProc
  <2>2. \A k : k \in Win(Base(turn)) => InTurn(k)'
    BY <1>2, <1>10 DEF InTurn, Win
  <2>3. \A k : InPref(k) => InPref(k)'
    BY <1>2, <1>5 DEF InPref, Win, p
  <2> QED BY <1>2, <2>1, <2>2, <2>3 DEF Accounted, Draining
<1>12. Ahead' /\ SavedBehind' /\ NoWindowSkipped'
  <2>1. /\ saved <= next_k /\ saved <= Base(turn) /\ Base(turn) <= next_k
        /\ saved <= pref.k0 /\ pref.k0 <= next_k
    BY <1>1, <1>2 DEF Rest, SavedBehind, Ahead, Looping, p
  <2>2. ~Draining' /\ pc' # "exit" /\ \A t \in {0, 1} : ~flights'[t].active
    BY <1>2, <1>3, <1>5 DEF Draining
  <2> HIDE DEF Base
  <2>3. Ahead'
    BY <1>2, <1>5, <1>10, <2>1, <2>2 DEF Ahead
  <2>4. SavedBehind'
    BY <1>2, <1>5, <1>10, <2>1, <2>2 DEF SavedBehind
  <2>5. NoWindowSkipped'
    BY <1>1, <1>2 DEF Rest, NoWindowSkipped
  <2> QED BY <2>3, <2>4, <2>5
<1> QED BY <1>7, <1>8, <1>9, <1>11, <1>12 DEF Rest

LEMMA Below ==
  ASSUME NEW m \in Nat, NEW n \in Nat, NEW k \in 0 .. m - 1
  PROVE  (n <= k => ~(m <= n)) /\ (m <= n => k \in 0 .. n - 1)
OBVIOUS

\* The end of the walk: a flight in the air is processed, or given up with the
\* position brought back before it.
LEMMA DrainKeeps ==
  ASSUME IInv, NEW s \in {0, 1}, Drain(s)
  PROVE  Rest'
<1>1. /\ TypeOK /\ Rest /\ flights \in FlightsType /\ saved \in Nat /\ save_k \in Nat
      /\ Base(s) \in Nat
  BY Known DEF IInv, TypeOK
<1>2. /\ UNCHANGED <<config, saved, out, eng, pref, next_k, turn>>
      /\ pc = IF s = 0 THEN "drain0" ELSE "drain1"
      /\ pc' = DrainNext(s) \/ pc' = "process"
      /\ pc' = "process" => /\ flights[s].active /\ ~flights[s].running
                            /\ cur' = s /\ i' = 0 /\ ret' = DrainNext(s)
                            /\ flights' = flights /\ save_k' = save_k
      /\ pc' = DrainNext(s) =>
           \/ ~flights[s].active /\ flights' = flights /\ save_k' = save_k
           \/ /\ flights[s].active /\ flights' = [flights EXCEPT ![s].active = FALSE]
              /\ save_k' = IF Base(s) < save_k THEN Base(s) ELSE save_k
  BY DEF Drain, DrainNext, Process, disk, loop
<1>3. /\ \A t \in {0, 1} : /\ flights'[t].pack = flights[t].pack
                           /\ flights'[t].n = flights[t].n
                           /\ flights'[t].mr = flights[t].mr
                           /\ flights'[t].running = flights[t].running
                           /\ t # s => flights'[t].active = flights[t].active
      /\ flights'[s].active => pc' = "process" /\ flights[s].active
  BY <1>1, <1>2 DEF FlightsType, Flight, DrainNext
<1>4. \A t \in {0, 1} : flights'[t].active => flights[t].active
  BY <1>3
<1>5. Draining /\ Draining' /\ ~Looping /\ ~Looping' /\ pc \notin {"process", "exit"}
  BY <1>2 DEF Draining, Looping, DrainNext
<1>6. s = 1 => ~flights[0].active
  BY <1>1, <1>2 DEF Rest, Roles
<1>7. Roles'
  <2>1. \A t \in {0, 1} : flights'[t].active => Mode' = "plain" /\ flights'[t].n
    BY <1>1, <1>2, <1>3, <1>4 DEF Rest, Roles, Mode
  <2>2. pc' = "process" => Mode' = "plain"
    BY <1>1, <1>2 DEF Rest, Roles, Mode
  <2>3. CASE s = 0
    BY <1>2, <1>3, <1>5, <2>1, <2>2, <2>3 DEF Roles, DrainNext
  <2>4. CASE s = 1
    BY <1>2, <1>3, <1>4, <1>5, <1>6, <2>1, <2>2, <2>4 DEF Roles, DrainNext
  <2> QED BY <2>3, <2>4
<1>8. PrefOk'
  <2>1. CASE pref.b = None
    BY <1>2, <2>1 DEF PrefOk
  <2>2. CASE pref.b # None
    <3>1. pref.b \in {0, 1} /\ Mode = "jump2"
      BY <1>1, <2>2 DEF TypeOK, Rest, PrefOk
    <3>2. pc' # "process"
      BY <1>1, <1>2, <3>1 DEF Rest, Roles
    <3>3. /\ Filled(flights[pref.b].pack, pref.next_i, pref.k0)'
               <=> Filled(flights[pref.b].pack, pref.next_i, pref.k0)
          /\ flights'[pref.b].n = flights[pref.b].n
      BY <1>2, <1>3, <3>1 DEF Filled
    <3> HIDE DEF Filled
    <3> QED BY <1>1, <1>2, <2>2, <3>1, <3>2, <3>3 DEF Rest, PrefOk, Mode, DrainNext
  <2> QED BY <2>1, <2>2
<1>9. Packs'
  <2>1. \A t \in {0, 1} : flights'[t].n => Full(t)'
    BY <1>1, <1>2, <1>3 DEF Rest, Packs, Full, Filled, Base
  <2>2. \A t \in {0, 1} : flights'[t].active /\ ~flights'[t].running =>
                            flights'[t].mr = flights'[t].pack.cands
    BY <1>1, <1>3, <1>4 DEF Rest, Packs
  <2>3. EngineOk(eng)'
    BY <1>1, <1>2 DEF Rest, Packs, EngineOk
  <2>4. pc' = "process" => flights'[cur'].n /\ flights'[cur'].mr = flights'[cur'].pack.cands
    BY <1>1, <1>2, <1>3 DEF Rest, Roles, Packs
  <2>5. pc' \notin {"fill", "filled", "reserve", "scan", "finish"}
    BY <1>2 DEF DrainNext
  <2> QED BY <1>5, <2>1, <2>2, <2>3, <2>4, <2>5 DEF Packs
<1>10. save_k' \in Nat /\ save_k' <= save_k
  BY <1>1, <1>2 DEF DrainNext
<1>11. \A t \in {0, 1} : Base(t)' = Base(t)
  BY <1>3 DEF Base
<1>12. Accounted'
  <2>1. \A k \in 0 .. save_k - 1 : k \in out \/ InFlight(k)
    BY <1>1, <1>5 DEF Rest, Accounted, InProc
  <2>2. ASSUME NEW k \in 0 .. save_k' - 1, InFlight(k)
        PROVE  InFlight(k)'
    <3>1. PICK t \in {0, 1} : flights[t].active /\ k \in Win(Base(t))
      BY <2>2 DEF InFlight
    <3>2. flights'[t].active
      <4>1. CASE t # s
        BY <1>3, <3>1, <4>1
      <4>2. CASE t = s
        <5>1. Base(s) <= k
          BY <1>1, <3>1, <4>2, Constants DEF Win
        <5>2. ~(save_k' <= Base(s))
          BY <1>1, <1>10, <5>1, Below
        <5>3. flights' = flights
          BY <1>1, <1>2, <3>1, <4>2, <5>2 DEF DrainNext
        <5> QED BY <3>1, <4>2, <5>3
      <4> QED BY <4>1, <4>2
    <3> QED BY <1>11, <3>1, <3>2 DEF InFlight, Win
  <2>3. \A k \in 0 .. save_k' - 1 : k \in 0 .. save_k - 1
    BY <1>1, <1>10, Below
  <2>4. pc' # "exit" /\ (pc' = "process" => i' = 0)
    BY <1>2 DEF DrainNext
  <2> QED BY <1>2, <1>5, <2>1, <2>2, <2>3, <2>4 DEF Accounted
<1>13. SavedBehind'
  <2>1. \A t \in {0, 1} : flights[t].active => saved <= Base(t)
    BY <1>1 DEF Rest, SavedBehind
  <2>2. saved <= save_k'
    BY <1>1, <1>2, <1>5, <2>1 DEF Rest, SavedBehind, DrainNext
  <2>3. pc' \notin {"reserve", "scan", "finish", "exit"}
    BY <1>2 DEF DrainNext
  <2>4. pref.b # None => saved <= pref.k0
    BY <1>1 DEF Rest, SavedBehind
  <2> HIDE DEF Base
  <2> QED BY <1>2, <1>4, <1>5, <1>11, <2>1, <2>2, <2>3, <2>4 DEF SavedBehind
<1>14. Ahead' /\ NoWindowSkipped'
  BY <1>1, <1>2, <1>5 DEF Rest, Ahead, NoWindowSkipped
<1> QED BY <1>7, <1>8, <1>9, <1>12, <1>13, <1>14 DEF Rest

-----------------------------------------------------------------------------
(* The theorems                                                             *)

LEMMA Established == Init => IInv
<1> SUFFICES ASSUME Init PROVE IInv
  OBVIOUS
<1>1. /\ NewEngine \in Engine /\ EngineOk(NewEngine)
      /\ ~NewFlight.active /\ ~NewFlight.n
      /\ [s \in {0, 1} |-> NewFlight] \in FlightsType
      /\ NoPref \in Prefs /\ NoPref.b = None /\ K \in Nat
  BY NewTyped, Constants
<1>2. TypeOK
  <2>1. flights \in [{0, 1} -> Flight] /\ eng \in Engine /\ pref \in Prefs
    BY <1>1 DEF Init, FlightsType
  <2>2. /\ config \in Configs /\ faults \in Nat /\ kills \in Nat /\ stops \in Nat
        /\ saved \in Nat /\ out \subseteq Nat /\ next_k \in Nat /\ failure_k \in Nat
        /\ since \in Nat /\ save_k \in Nat
    BY WalkAssumption DEF Init
  <2>3. i \in 0 .. K /\ cur \in {0, 1} /\ turn \in {0, 1} /\ exit_status \in {0, 1}
    BY <1>1, Constants DEF Init
  <2>4. g_stop \in BOOLEAN /\ pc = "down" /\ ret = "tick"
    BY DEF Init
  <2> QED BY <2>1, <2>2, <2>3, <2>4 DEF TypeOK, Prefs
<1>3. \A s \in {0, 1} : ~flights[s].active /\ ~flights[s].n
  BY <1>1 DEF Init
<1>4. Roles
  BY <1>3 DEF Init, Roles, Looping
<1>5. PrefOk /\ Packs
  BY <1>1, <1>3 DEF Init, PrefOk, Packs, Looping
<1>6. Accounted /\ Ahead /\ SavedBehind
  BY <1>1, <1>3 DEF Init, Accounted, Ahead, SavedBehind, Looping, Draining
<1>7. NoWindowSkipped
  BY DEF Init, NoWindowSkipped
<1> QED BY <1>2, <1>4, <1>5, <1>6, <1>7 DEF IInv, Rest

LEMMA RestStep ==
  ASSUME IInv, Next
  PROVE  Rest'
<1> HIDE DEF Base, KSafe, Fail, Process, loop
<1>1. TypeOK'
  BY TypeStep
<1>2. CASE LeaveLoop \/ NothingToCollect \/ NothingToFill \/ TickSkip \/ Signal \/ Exit
  BY <1>2, LeaveLoopKeeps, NothingToCollectKeeps, NothingToFillKeeps, TickSkipKeeps,
     SignalKeeps, ExitKeeps
<1>3. CASE Jump2Filled \/ TakePrefetched \/ ProcessWindow \/ ProcessEnds
           \/ BeginFill \/ FillFlight \/ Reserve \/ Prefetch \/ IndexOverflow \/ PrefetchedFailed
  BY <1>3, Jump2FilledKeeps, TakePrefetchedKeeps, ProcessWindowKeeps, ProcessEndsKeeps,
     FillKeeps, ReserveKeeps, PrefetchKeeps, FailuresKeep
<1>4. CASE Start \/ FinalSave \/ Kill
  BY <1>1, <1>4, ProcessesKeep
<1>5. CASE \E s \in {0, 1} : KernelEnds(s) \/ Drain(s)
  BY <1>5, KernelEndsKeeps, DrainKeeps
<1>6. CASE Collect
  <2>1. \/ ~flights[turn].running /\ Process(turn, "refill")
        \/ Fail(Base(turn))
    BY <1>6 DEF Collect
  <2> QED BY <1>6, <2>1, CollectKeeps, FailuresKeep
<1>7. CASE CommitFill
  <2>1. \/ flights' = Committed(turn) /\ pc' = "filled"
        \/ Fail(next_k) /\ UNCHANGED flights
    BY <1>7 DEF CommitFill
  <2> QED BY <1>7, <2>1, CommitKeeps, FailuresKeep
<1>8. CASE Submit
  <2>1. \/ pc' = "tick"
        \/ Process(turn, "tick")
        \/ Fail(next_k) /\ UNCHANGED flights
    BY <1>8 DEF Submit
  <2> QED BY <1>8, <2>1, SubmittedKeeps, ProcessedKeeps, FailuresKeep
<1>9. CASE Jump
  <2>1. \/ Process(turn, "tick")
        \/ Fail(next_k) /\ UNCHANGED flights
    BY <1>9 DEF Jump
  <2> QED BY <1>9, <2>1, ProcessedKeeps, FailuresKeep
<1>10. CASE ScanEnds
  <2>1. \/ flights' = Tested(turn) /\ UNCHANGED loop
        \/ Fail(Base(turn)) /\ UNCHANGED flights
    BY <1>10 DEF ScanEnds
  <2> QED BY <1>10, <2>1, ScanEndsKeeps, FailuresKeep
<1>11. CASE PrefetchEnded
  <2>1. \/ pref.done /\ Process(turn, "tick")
        \/ Fail(Base(turn))
    BY <1>11 DEF PrefetchEnded
  <2> QED BY <1>11, <2>1, PrefetchEndedKeeps, FailuresKeep
<1>12. CASE TickSave
  <2>1. \/ saved' = KSafe /\ turn' = Other(turn) /\ pc' = "loop"
        \/ Fail(KSafe) /\ UNCHANGED saved
    BY <1>12 DEF TickSave
  <2> QED BY <1>12, <2>1, TickSaveKeeps, FailuresKeep
<1> QED BY <1>2, <1>3, <1>4, <1>5, <1>6, <1>7, <1>8, <1>9, <1>10, <1>11, <1>12
        DEF Next, Walk, Kernels

LEMMA Stutter ==
  ASSUME IInv, UNCHANGED vars
  PROVE  IInv'
<1>1. UNCHANGED <<config, saved, out, pc, next_k, turn, g_stop, exit_status, failure_k, since,
                  save_k, flights, eng, i, cur, ret, pref, faults, kills, stops>>
  BY DEF vars, disk, loop, env
<1>2. TypeOK'
  BY <1>1 DEF IInv, TypeOK
<1>3. Roles' /\ PrefOk'
  BY <1>1 DEF IInv, Rest, Roles, PrefOk, Looping, Filled, Mode
<1>4. Packs'
  BY <1>1 DEF IInv, Rest, Packs, Looping, Full, Filled, Base, EngineOk
<1>5. Accounted'
  BY <1>1 DEF IInv, Rest, Accounted, Looping, Draining, InFlight, InPref, InTurn, InProc,
     ExitPosition, Base
<1>6. Ahead' /\ SavedBehind' /\ NoWindowSkipped'
  BY <1>1 DEF IInv, Rest, Ahead, SavedBehind, NoWindowSkipped, Looping, Draining,
     ExitPosition, Base
<1> QED BY <1>2, <1>3, <1>4, <1>5, <1>6 DEF IInv, Rest

\* The inductive invariant holds in every state of every walk.
THEOREM Invariant == Spec => []IInv
<1>1. IInv /\ [Next]_vars => IInv'
  BY TypeStep, RestStep, Stutter DEF IInv
<1> QED BY <1>1, Established, PTL DEF Spec

\* Every variable of the walk keeps its type, whatever fails and however often the
\* process is killed and started again.
THEOREM WalkTypes == Spec => []TypeOK
<1>1. IInv => TypeOK
  BY DEF IInv
<1> QED BY <1>1, Invariant, PTL

\* No window below the position in the state file is lost, wherever the walk fails,
\* is stopped or is killed: k_safe, the exit position and the drain of the flights
\* never save a position past a window that is not in the output (gap_hunt_run).
THEOREM NothingSkipped == Spec => []NoWindowSkipped
<1>1. IInv => NoWindowSkipped
  BY DEF IInv, Rest
<1> QED BY <1>1, Invariant, PTL

\* The candidates tested for a window are its own, whichever way the residue cache
\* was used: stepped, folded, in pairs, or after a fallback (gh_fill_step).
THEOREM OwnCandidates == Spec => []OwnSurvivors
<1>1. IInv => OwnSurvivors
  <2> SUFFICES ASSUME IInv, NEW s \in {0, 1}, flights[s].n, NEW w \in Slots
               PROVE  flights[s].pack.cands[flights[s].pack.cum[w]]
                        = [base |-> flights[s].pack.base[w], marks |-> flights[s].pack.base[w]]
    BY DEF OwnSurvivors
  <2>1. Full(s)
    BY DEF IInv, Rest, Packs
  <2> QED BY <2>1 DEF Full, Filled, Packed, Slots
<1> QED BY <1>1, Invariant, PTL

-----------------------------------------------------------------------------
(* The walk implements RangeWalk                                            *)

\* The state file and the output change only as a report or a checkpoint.
LEMMA AbstractStep ==
  ASSUME IInv, IInv', [Next]_vars
  PROVE  [Abstract!Report \/ Abstract!Checkpoint]_<<saved, out>>
<1>1. saved \in Nat /\ saved' \in Nat /\ \A k \in 0 .. saved' - 1 : k \in out'
  BY DEF IInv, Rest, TypeOK, NoWindowSkipped
<1>2. CASE ProcessWindow
  <2>1. out' = out \cup {Base(cur) + i} /\ saved' = saved
    BY <1>2, WindowSearched DEF ProcessWindow
  <2>2. Abstract!Report
    BY <2>1 DEF Abstract!Report
  <2> QED BY <2>2
<1>3. CASE TickSave
  <2>1. out' = out /\ (saved' = saved \/ saved' = KSafe)
    BY <1>3 DEF TickSave
  <2>2. saved <= KSafe
    <3>1. /\ saved <= next_k /\ (pref.b # None => saved <= pref.k0)
          /\ \A s \in {0, 1} : flights[s].active => saved <= Base(s)
      BY <1>3 DEF TickSave, IInv, Rest, SavedBehind, Looping
    <3>2. TypeOK
      BY DEF IInv
    <3> HIDE DEF Base, KSafe
    <3> QED BY <3>1, <3>2, KSafeLeast
  <2> QED BY <1>1, <2>1, <2>2 DEF Abstract!Checkpoint
<1>4. CASE FinalSave
  <2>1. out' = out /\ (saved' = saved \/ saved' = save_k)
    BY <1>4 DEF FinalSave
  <2>2. saved <= save_k
    BY <1>4 DEF FinalSave, IInv, Rest, SavedBehind, Draining
  <2> QED BY <1>1, <2>1, <2>2 DEF Abstract!Checkpoint
<1>5. CASE ~(ProcessWindow \/ TickSave \/ FinalSave)
  <2>1. UNCHANGED disk
    BY <1>5 DEF Next, Walk, Kernels, Start, LeaveLoop, Collect, NothingToCollect, ProcessEnds,
       BeginFill, IndexOverflow, NothingToFill, FillFlight, CommitFill, Submit, Jump,
       Jump2Filled, TakePrefetched, PrefetchedFailed, Reserve, Prefetch, ScanEnds,
       PrefetchEnded, TickSkip, Exit, Drain, KernelEnds, Signal, Kill, vars
  <2> QED BY <2>1 DEF disk
<1> QED BY <1>2, <1>3, <1>4, <1>5

\* The walk implements RangeWalk: windows are reported, and the saved position only
\* moves forward, over windows that were.
THEOREM WalkRefines == Spec => ImplementsRangeWalk
<1>1. Init => Abstract!Init
  BY DEF Init, Abstract!Init
<1>2. IInv /\ IInv' /\ [Next]_vars => [Abstract!Report \/ Abstract!Checkpoint]_<<saved, out>>
  BY AbstractStep
<1> QED BY <1>1, <1>2, Invariant, PTL DEF Spec, ImplementsRangeWalk, Abstract!Spec

-----------------------------------------------------------------------------
(* How much a walk that is killed searches again.  Between two saves the     *)
(* position of the walk leads the saved one by the windows processed since   *)
(* then, by those in hand, and by one flight that had no candidates and      *)
(* overtook the flight in the air.                                           *)

\* Where the output must end.
Top == saved + Tick - 1 + 4 * K

AtTick    == pc = "tick" \/ (pc = "process" /\ ret = "tick")
Refilling == pc \in {"refill", "fill", "filled"} \/ (pc = "process" /\ ret = "refill")

\* The windows in hand: filled or reserved, and not processed yet.  Those of a
\* flight in the air that is being processed are taken off one by one.
InAir(s) == IF flights[s].active THEN K ELSE 0
OfTurn   == IF pc \in {"reserve", "scan", "finish"} THEN K ELSE 0
OfPref   == IF pref.b # None THEN K ELSE 0
OfProc   == IF pc = "process" THEN (IF flights[cur].active THEN 0 ELSE K) - i ELSE 0
Load     == since + InAir(0) + InAir(1) + OfTurn + OfPref + OfProc

\* What is in hand lies below the position of the walk, a whole flight of it.
Behind ==
  /\ \A s \in {0, 1} : flights[s].active => Base(s) + K <= next_k
  /\ pref.b # None => next_k = pref.k0 + K
  /\ pc \in {"reserve", "scan", "finish"} => Base(turn) + K <= next_k
  /\ pc = "process" => Base(cur) + K <= next_k

\* Only one flight can have been filled after one that is in the air.
Near == \A s \in {0, 1} : flights[s].active =>
          next_k <= Base(s) + (IF (s = turn) <=> AtTick THEN K ELSE 2 * K)

\* The walk leads the saved position by what was processed since then, what is
\* in hand, and one flight that overtook.
Lead == next_k <= saved + Load + K

\* Between two saves no more is processed than a period and what is in hand.
LoadBound ==
  /\ pc = "loop" => since <= Tick - 1
  /\ Refilling => Load <= Tick - 1 + (IF Mode = "plain" THEN 2 * K ELSE K)
  /\ pc = "reserve" => Load <= Tick - 1 + 2 * K
  /\ pc \in {"scan", "finish"} \/ AtTick => Load <= Tick - 1 + 3 * K

\* Wherever the walk is, also once it has left the loop.
HandBelow ==
  /\ \A s \in {0, 1} : flights[s].active => Base(s) + K <= Top
  /\ pc = "process" => Base(cur) + K <= Top

Walking == Looping => Behind /\ Near /\ Lead /\ LoadBound
Redo    == Walking /\ HandBelow /\ RedoBounded

-----------------------------------------------------------------------------
(* What the parts of the invariant give each other                          *)

Sized ==
  /\ K \in Nat /\ 0 < K /\ Tick \in Nat /\ 0 < Tick
  /\ saved \in Nat /\ next_k \in Nat /\ since \in Nat /\ i \in Nat /\ i <= K
  /\ turn \in {0, 1} /\ cur \in {0, 1} /\ Other(turn) \in {0, 1}
  /\ \A s \in {0, 1} : Base(s) \in Nat
  /\ flights \in FlightsType /\ pref.k0 \in Nat

LEMMA SizesOf == IInv => Sized
BY Constants, Known DEF IInv, TypeOK, Other, Sized

LEMMA Sizes ==
  ASSUME IInv
  PROVE  /\ K \in Nat /\ 0 < K /\ Tick \in Nat /\ 0 < Tick
         /\ saved \in Nat /\ next_k \in Nat /\ since \in Nat /\ i \in Nat /\ i <= K
         /\ turn \in {0, 1} /\ cur \in {0, 1} /\ Other(turn) \in {0, 1}
         /\ \A s \in {0, 1} : Base(s) \in Nat
         /\ flights \in FlightsType /\ pref.k0 \in Nat
BY SizesOf DEF Sized

LEMMA SizesNext ==
  ASSUME IInv'
  PROVE  /\ saved' \in Nat /\ next_k' \in Nat /\ since' \in Nat /\ cur' \in {0, 1}
         /\ turn' \in {0, 1} /\ \A s \in {0, 1} : Base(s)' \in Nat
<1>1. (IInv => Sized)'
  BY SizesOf, PTL
<1> QED BY <1>1 DEF Sized

\* The position of the walk, and with it all that is in hand, lies below Top.
LEMMA Bounded ==
  IInv /\ Looping /\ Behind /\ Lead /\ LoadBound => next_k <= Top /\ HandBelow
<1> SUFFICES ASSUME IInv, Looping, Behind, Lead, LoadBound
             PROVE  next_k <= Top /\ HandBelow
  OBVIOUS
<1> HIDE DEF Base
<1>1. Load <= Tick - 1 + 3 * K
  <2>1. CASE pc = "loop"
    <3>1. since <= Tick - 1 /\ OfTurn = 0 /\ OfProc = 0
      BY <2>1 DEF LoadBound, OfTurn, OfProc
    <3>2. \/ pref.b = None
          \/ ~flights[0].active /\ ~flights[1].active
      BY DEF IInv, Rest, Roles, PrefOk
    <3> QED BY <3>1, <3>2, Sizes DEF Load, InAir, OfPref
  <2>2. CASE pc # "loop"
    BY <2>2, Sizes DEF Looping, LoadBound, Refilling, AtTick, Load, InAir, OfTurn, OfPref, OfProc
  <2> QED BY <2>1, <2>2
<1>2. next_k <= Top
  BY <1>1, Sizes DEF Lead, Top, Load, InAir, OfTurn, OfPref, OfProc
<1>3. HandBelow
  BY <1>2, Sizes DEF HandBelow, Behind, Top
<1> QED BY <1>2, <1>3

LEMMA BoundedNext ==
  ASSUME IInv', Looping', Behind', Lead', LoadBound'
  PROVE  HandBelow'
<1>1. (IInv /\ Looping /\ Behind /\ Lead /\ LoadBound => next_k <= Top /\ HandBelow)'
  BY Bounded, PTL
<1> QED BY <1>1

\* A step inside the loop: the output has not grown, and the rest follows from
\* what is in hand.
LEMMA Circling ==
  ASSUME IInv, IInv', Redo, Looping', out' = out, saved <= saved',
         Behind', Near', Lead', LoadBound'
  PROVE  Redo'
<1>1. HandBelow'
  BY BoundedNext
<1>2. saved' \in Nat /\ out \subseteq Nat
  BY DEF IInv, TypeOK
<1>3. RedoBounded'
  BY <1>2, Sizes DEF Redo, RedoBounded
<1> QED BY <1>1, <1>3 DEF Redo, Walking

\* A step that ends outside the loop takes nothing new in hand.
LEMMA Leaving ==
  ASSUME IInv, IInv', Redo, ~Looping', out' = out, saved <= saved',
         \A s \in {0, 1} : flights'[s].active => flights[s].active /\ Base(s)' = Base(s),
         pc' = "process" => Base(cur)' + K <= Top
  PROVE  Redo'
<1>1. saved' \in Nat /\ out \subseteq Nat
  BY SizesNext DEF IInv, TypeOK
<1>2. Top <= Top'
  BY <1>1, Sizes DEF Top
<1>3. RedoBounded'
  BY <1>1, Sizes DEF Redo, RedoBounded
<1> HIDE DEF Base
<1>4. pc' = "process" => Base(cur)' \in Nat
  BY SizesNext
<1>5. Top \in Nat /\ Top' \in Nat
  BY <1>1, Sizes DEF Top
<1>6. HandBelow'
  BY <1>2, <1>4, <1>5, Sizes DEF HandBelow, Redo
<1> QED BY <1>3, <1>6 DEF Redo, Walking

-----------------------------------------------------------------------------
(* The steps inside the loop                                                *)

\* The device and the environment move, or a fill goes on: nothing is taken in
\* hand and nothing is put down.
LEMMA Steady ==
  ASSUME IInv, IInv', Redo, Looping,
         UNCHANGED <<config, saved, out, next_k, since, turn, pc, ret, cur>>,
         pref'.b = pref.b, pref'.k0 = pref.k0, pc = "process" => i' = i,
         \A s \in {0, 1} : flights'[s].active = flights[s].active,
         \A s \in {0, 1} : \/ flights[s].active
                           \/ s = turn /\ pc \in {"reserve", "scan", "finish"}
                           \/ pc = "process"
                           => Base(s)' = Base(s)
  PROVE  Redo'
<1> HIDE DEF Base
<1>1. Behind /\ Near /\ Lead /\ LoadBound /\ Looping'
  BY DEF Redo, Walking, Looping
<1>2. AtTick' = AtTick /\ Refilling' = Refilling /\ Mode' = Mode
  BY DEF AtTick, Refilling, Mode
<1>3. Load' = Load
  BY Sizes DEF Load, InAir, OfTurn, OfPref, OfProc
<1>4. Behind'
  BY <1>1, Sizes DEF Behind
<1>5. Near'
  BY <1>1, <1>2 DEF Near
<1>6. Lead' /\ LoadBound'
  BY <1>1, <1>2, <1>3 DEF Lead, LoadBound
<1> QED BY <1>1, <1>4, <1>5, <1>6, Sizes, Circling

\* The flight whose turn it is is collected, or there is none.
LEMMA CollectRedo ==
  ASSUME IInv, IInv', Redo, \/ Collect /\ Process(turn, "refill")
                            \/ NothingToCollect
  PROVE  Redo'
<1>1. /\ UNCHANGED <<config, saved, out, next_k, since, turn, flights, pref>> /\ pc = "loop"
      /\ \/ pc' = "process" /\ cur' = turn /\ i' = 0 /\ ret' = "refill" /\ flights[turn].active
         \/ pc' = "refill" /\ ~flights[turn].active
  BY DEF Collect, NothingToCollect, Process, Fail, disk, loop
<1>2. /\ Looping /\ Looping' /\ ~AtTick /\ ~AtTick' /\ Refilling' /\ Mode' = Mode
      /\ \A s \in {0, 1} : Base(s)' = Base(s)
  BY <1>1 DEF Looping, AtTick, Refilling, Mode, Base
<1> HIDE DEF Base
<1>3. Behind /\ Near /\ Lead /\ since <= Tick - 1
  BY <1>1, <1>2 DEF Redo, Walking, LoadBound
<1>4. Load' = Load
  BY <1>1, Sizes DEF Load, InAir, OfTurn, OfPref, OfProc
<1>5. Behind'
  <2>1. flights[turn].active => Base(turn) + K <= next_k
    BY <1>3, Sizes DEF Behind
  <2>2. pc' = "process" => Base(cur)' = Base(turn)
    BY <1>1 DEF Base
  <2> QED BY <1>1, <1>2, <1>3, <2>1, <2>2 DEF Behind
<1>6. Near'
  BY <1>1, <1>2, <1>3 DEF Near
<1>7. Lead'
  BY <1>1, <1>3, <1>4 DEF Lead
<1>8. Load <= Tick - 1 + (IF Mode = "plain" THEN 2 * K ELSE K)
  <2>1. \/ Mode = "plain" /\ pref.b = None
        \/ Mode # "plain" /\ ~flights[0].active /\ ~flights[1].active
    BY DEF IInv, Rest, Roles, PrefOk
  <2> QED BY <1>1, <1>3, <2>1, Sizes DEF Load, InAir, OfTurn, OfPref, OfProc
<1>9. LoadBound'
  BY <1>1, <1>2, <1>4, <1>8 DEF LoadBound
<1> QED BY <1>1, <1>2, <1>5, <1>6, <1>7, <1>9, Sizes, Circling

\* The fill begins and ends, or there is nothing to fill.
LEMMA RefillRedo ==
  ASSUME IInv, IInv', Redo,
         \/ BeginFill
         \/ NothingToFill
         \/ CommitFill /\ flights' = Committed(turn) /\ pc' = "filled"
  PROVE  Redo'
<1>1. /\ UNCHANGED <<config, saved, out, next_k, since, turn, pref>>
      /\ pc \in {"refill", "fill"} /\ pc' \in {"fill", "filled", "tick"}
  BY DEF BeginFill, NothingToFill, CommitFill, Fail, disk, loop
<1>2. ~flights[turn].active /\ turn \in {0, 1}
  BY <1>1, Sizes DEF IInv, Rest, Roles
<1>3. \A s \in {0, 1} : /\ flights'[s].active = flights[s].active
                        /\ flights[s].active => flights'[s].pack = flights[s].pack
  <2>1. CASE BeginFill
    BY <1>2, <2>1, Sizes DEF BeginFill, FlightsType, Flight
  <2>2. CASE NothingToFill
    BY <2>2 DEF NothingToFill
  <2>3. CASE flights' = Committed(turn)
    BY <2>3, Sizes DEF Committed, FlightsType, Flight
  <2> QED BY <2>1, <2>2, <2>3
<1>4. \A s \in {0, 1} : flights[s].active => Base(s)' = Base(s)
  BY <1>3 DEF Base
<1>5. /\ Looping /\ Looping' /\ ~AtTick /\ Refilling /\ Mode' = Mode
      /\ AtTick' <=> pc' = "tick"
  BY <1>1 DEF Looping, AtTick, Refilling, Mode
<1> HIDE DEF Base
<1>6. Behind /\ Near /\ Lead /\ LoadBound
  BY <1>5 DEF Redo, Walking
<1>7. Load' = Load
  BY <1>1, <1>3, Sizes DEF Load, InAir, OfTurn, OfPref, OfProc
<1>8. Behind'
  BY <1>1, <1>3, <1>4, <1>6 DEF Behind
<1>9. Near'
  BY <1>1, <1>2, <1>3, <1>4, <1>5, <1>6, Sizes DEF Near
<1>10. Lead'
  BY <1>1, <1>6, <1>7 DEF Lead
<1>11. LoadBound'
  <2>1. Load \in Int
    BY Sizes DEF Load, InAir, OfTurn, OfPref, OfProc
  <2> QED BY <1>1, <1>5, <1>6, <1>7, <2>1, Sizes DEF LoadBound
<1> QED BY <1>1, <1>5, <1>8, <1>9, <1>10, <1>11, Sizes, Circling

\* A flight is filled and submitted: the walk moves past it.
LEMMA SubmitRedo ==
  ASSUME IInv, IInv', Redo, Submit, pc' = "tick"
  PROVE  Redo'
<1>1. /\ UNCHANGED <<config, saved, out, since, turn, pref>> /\ next_k' = next_k + K
      /\ pc = "filled" /\ Mode = "plain"
  BY DEF Submit, Fail, Process, Advance, disk
<1>2. ~flights[turn].active /\ Base(turn) = next_k /\ pref.b = None
  BY <1>1, Sizes DEF IInv, Rest, Roles, Packs, PrefOk
<1>3. /\ flights'[turn].active
      /\ \A s \in {0, 1} : /\ flights'[s].pack = flights[s].pack
                           /\ s # turn => flights'[s].active = flights[s].active
  <2>1. flights' = [flights EXCEPT ![turn].active = TRUE, ![turn].running = TRUE]
    BY DEF Submit, Fail, Process
  <2> QED BY <2>1, Sizes DEF FlightsType, Flight
<1>4. \A s \in {0, 1} : Base(s)' = Base(s)
  BY <1>3 DEF Base
<1>5. Looping /\ Looping' /\ ~AtTick /\ AtTick' /\ Refilling /\ ~Refilling' /\ Mode' = Mode
  BY <1>1 DEF Looping, AtTick, Refilling, Mode
<1> HIDE DEF Base
<1>6. Behind /\ Near /\ Lead /\ LoadBound
  BY <1>5 DEF Redo, Walking
<1>7. Load' = Load + K
  <2>1. InAir(0)' + InAir(1)' = InAir(0) + InAir(1) + K
    BY <1>2, <1>3, Sizes DEF InAir
  <2>2. OfTurn = 0 /\ OfTurn' = 0 /\ OfProc = 0 /\ OfProc' = 0 /\ OfPref = 0 /\ OfPref' = 0
    BY <1>1, <1>2 DEF OfTurn, OfProc, OfPref
  <2> HIDE DEF InAir
  <2>3. InAir(0) \in Nat /\ InAir(1) \in Nat /\ InAir(0)' \in Nat /\ InAir(1)' \in Nat
    BY Sizes DEF InAir
  <2> QED BY <1>1, <2>1, <2>2, <2>3, Sizes DEF Load
<1>8. Behind'
  BY <1>1, <1>2, <1>3, <1>4, <1>6, Sizes DEF Behind
<1>9. Near'
  <2> SUFFICES ASSUME NEW s \in {0, 1}, flights'[s].active
               PROVE  next_k' <= Base(s)' + (IF s = turn THEN K ELSE 2 * K)
    BY <1>1, <1>5 DEF Near
  <2>1. CASE s = turn
    BY <1>1, <1>2, <1>4, <2>1, Sizes
  <2>2. CASE s # turn
    <3>1. next_k <= Base(s) + K
      BY <1>3, <1>5, <1>6, <2>2 DEF Near
    <3> QED BY <1>1, <1>4, <2>2, <3>1, Sizes
  <2> QED BY <2>1, <2>2
<1>10. Load \in Int
  BY Sizes DEF Load, InAir, OfTurn, OfPref, OfProc
<1>11. Lead' /\ LoadBound'
  BY <1>1, <1>5, <1>6, <1>7, <1>10, Sizes DEF Lead, LoadBound
<1> QED BY <1>1, <1>5, <1>8, <1>9, <1>11, Sizes, Circling

\* A flight without candidates, and every flight of "jump", is processed at once.
LEMMA AtOnceRedo ==
  ASSUME IInv, IInv', Redo, Submit \/ Jump, Process(turn, "tick")
  PROVE  Redo'
<1>1. /\ UNCHANGED <<config, saved, out, since, turn, pref>> /\ next_k' = next_k + K
      /\ pc = "filled" /\ Mode # "jump2"
      /\ pc' = "process" /\ cur' = turn /\ i' = 0 /\ ret' = "tick"
      /\ flights' = flights \/ flights' = Tested(turn)
  BY DEF Submit, Jump, Fail, Process, Advance, disk
<1>2. ~flights[turn].active /\ Base(turn) = next_k /\ pref.b = None
  BY <1>1, Sizes DEF IInv, Rest, Roles, Packs, PrefOk
<1>3. \A s \in {0, 1} : /\ flights'[s].pack = flights[s].pack
                        /\ flights'[s].active = flights[s].active
  BY <1>1, Sizes DEF Tested, FlightsType, Flight
<1>4. /\ \A s \in {0, 1} : Base(s)' = Base(s)
      /\ Base(cur)' = Base(turn)
  BY <1>1, <1>3, Sizes DEF Base
<1>5. Looping /\ Looping' /\ ~AtTick /\ AtTick' /\ Refilling /\ ~Refilling' /\ Mode' = Mode
  BY <1>1 DEF Looping, AtTick, Refilling, Mode
<1> HIDE DEF Base
<1>6. Behind /\ Near /\ Lead /\ LoadBound
  BY <1>5 DEF Redo, Walking
<1>7. Load' = Load + K
  <2>1. OfProc' = K /\ OfProc = 0 /\ OfTurn' = 0 /\ OfTurn = 0
    BY <1>1, <1>2, <1>3, Sizes DEF OfTurn, OfProc
  <2> QED BY <1>1, <1>2, <1>3, <2>1, Sizes DEF Load, InAir, OfPref
<1>8. Behind'
  BY <1>1, <1>2, <1>3, <1>4, <1>6, Sizes DEF Behind
<1>9. Near'
  BY <1>1, <1>2, <1>3, <1>4, <1>5, <1>6, Sizes DEF Near
<1>10. Load \in Int
  BY Sizes DEF Load, InAir, OfTurn, OfPref, OfProc
<1>11. Lead' /\ LoadBound'
  BY <1>1, <1>5, <1>6, <1>7, <1>10, Sizes DEF Lead, LoadBound
<1> QED BY <1>1, <1>5, <1>8, <1>9, <1>11, Sizes, Circling

\* "jump2": the flight that was filled, or prefetched, is scanned.
LEMMA Jump2Redo ==
  ASSUME IInv, IInv', Redo, Jump2Filled \/ TakePrefetched
  PROVE  Redo'
<1>1. /\ UNCHANGED <<config, saved, out, since, turn, flights>>
      /\ pc' = "reserve" /\ Mode = "jump2"
      /\ \/ pc = "filled" /\ next_k' = next_k + K /\ pref' = pref
         \/ /\ pc = "refill" /\ next_k' = next_k
            /\ pref' = NoPref /\ pref.b = turn /\ pref.done /\ ~pref.failed
  BY DEF Jump2Filled, TakePrefetched, Prefetched, Advance, disk, loop
<1>2. \A s \in {0, 1} : ~flights[s].active
  BY <1>1 DEF IInv, Rest, Roles
<1>3. pref'.b = None
  BY <1>1, NewTyped DEF IInv, Rest, PrefOk
<1>4. /\ pc = "filled" => pref.b = None /\ Base(turn) = next_k
      /\ pc = "refill" => pref.b # None /\ Base(turn) = pref.k0
  <2>1. pc = "filled" => pref.b = None /\ Base(turn) = next_k
    BY <1>1 DEF IInv, Rest, PrefOk, Packs
  <2>2. pc = "refill" => pref.b # None
    BY <1>1, Sizes DEF None
  <2>3. pc = "refill" => Filled(flights[turn].pack, K, pref.k0)
    BY <1>1, <2>2 DEF IInv, Rest, PrefOk
  <2> QED BY <2>1, <2>2, <2>3, FilledBase, Sizes DEF Base
<1>5. Base(turn)' = Base(turn)
  BY <1>1 DEF Base
<1>6. Looping /\ Looping' /\ ~AtTick' /\ ~Refilling' /\ Mode' = Mode
      /\ Refilling
  BY <1>1 DEF Looping, AtTick, Refilling, Mode
<1> HIDE DEF Base
<1>7. Behind /\ Lead /\ LoadBound
  BY <1>6 DEF Redo, Walking
<1>8. Load' = Load + (next_k' - next_k)
  <2>1. pc \in {"filled", "refill"} /\ pc' = "reserve"
    BY <1>1
  <2>2. /\ OfProc' = 0 /\ OfProc = 0 /\ OfTurn' = K /\ OfTurn = 0
        /\ OfPref' = 0 /\ InAir(0) = 0 /\ InAir(1) = 0 /\ InAir(0)' = 0 /\ InAir(1)' = 0
    BY <1>1, <1>2, <1>3, <2>1 DEF OfTurn, OfProc, OfPref, InAir
  <2>3. OfPref = IF pc = "filled" THEN 0 ELSE K
    BY <1>4, <2>1 DEF OfPref
  <2> QED BY <1>1, <2>2, <2>3, Sizes DEF Load
<1>9. Behind'
  BY <1>1, <1>2, <1>3, <1>4, <1>5, <1>7, Sizes DEF Behind
<1>10. Near'
  BY <1>1, <1>2 DEF Near
<1>11. Load \in Int
  BY Sizes DEF Load, InAir, OfTurn, OfPref, OfProc
<1>12. Lead' /\ LoadBound'
  BY <1>1, <1>6, <1>7, <1>8, <1>11, Sizes DEF Lead, LoadBound
<1> QED BY <1>1, <1>6, <1>9, <1>10, <1>12, Sizes, Circling

\* The next flight is reserved, or the walk looks no further ahead.
LEMMA ReserveRedo ==
  ASSUME IInv, IInv', Redo, Reserve
  PROVE  Redo'
<1>1. /\ UNCHANGED <<config, saved, out, since, turn>> /\ pc = "reserve" /\ pc' = "scan"
      /\ \/ pref' = pref /\ next_k' = next_k /\ flights' = flights
         \/ /\ pref'.b = Other(turn) /\ pref'.k0 = next_k /\ next_k' = next_k + K
            /\ flights' = [flights EXCEPT ![Other(turn)].pack.used = 0]
  BY DEF Reserve, Advance, disk
<1>2. pref.b = None /\ Other(turn) # turn /\ \A s \in {0, 1} : ~flights[s].active
  BY <1>1, Sizes DEF IInv, Rest, Roles, PrefOk, Other
<1>3. /\ flights'[turn].pack = flights[turn].pack
      /\ \A s \in {0, 1} : ~flights'[s].active
  BY <1>1, <1>2, Sizes DEF FlightsType, Flight
<1>4. Base(turn)' = Base(turn)
  BY <1>1, <1>3 DEF Base
<1>5. Looping /\ Looping' /\ ~AtTick' /\ ~Refilling'
  BY <1>1 DEF Looping, AtTick, Refilling
<1> HIDE DEF Base
<1>6. Behind /\ Lead /\ LoadBound
  BY <1>5 DEF Redo, Walking
<1>7. Load' - Load \in {0, K} /\ next_k' - next_k <= Load' - Load
  <2>1. /\ OfProc' = 0 /\ OfProc = 0 /\ OfTurn' = K /\ OfTurn = K /\ OfPref = 0
        /\ InAir(0) = 0 /\ InAir(1) = 0 /\ InAir(0)' = 0 /\ InAir(1)' = 0
    BY <1>1, <1>2, <1>3 DEF OfTurn, OfProc, OfPref, InAir
  <2>2. \/ OfPref' = 0 /\ next_k' = next_k
        \/ OfPref' = K /\ next_k' = next_k + K
    <3>1. None \notin {0, 1}
      BY DEF None
    <3> QED BY <1>1, <1>2, <3>1, Sizes DEF OfPref
  <2> QED BY <1>1, <2>1, <2>2, Sizes DEF Load
<1>8. Load \in Int /\ Load' \in Int /\ next_k' \in Nat
  BY <1>1, <1>7, Sizes, SizesNext DEF Load, InAir, OfTurn, OfPref, OfProc
<1>9. Behind'
  BY <1>1, <1>2, <1>3, <1>4, <1>6, Sizes DEF Behind
<1>10. Near'
  BY <1>3 DEF Near
<1>11. Lead' /\ LoadBound'
  BY <1>1, <1>5, <1>6, <1>7, <1>8, Sizes DEF Lead, LoadBound
<1> QED BY <1>1, <1>5, <1>9, <1>10, <1>11, Sizes, Circling

\* The scan ends, and the prefetch under way with it: the flight is processed.
LEMMA ScannedRedo ==
  ASSUME IInv, IInv', Redo,
         \/ ScanEnds /\ flights' = Tested(turn) /\ UNCHANGED loop
         \/ PrefetchEnded /\ Process(turn, "tick")
  PROVE  Redo'
<1>1. /\ UNCHANGED <<config, saved, out, next_k, since, turn, pref>>
      /\ pc \in {"scan", "finish"}
      /\ \/ pc' = "process" /\ cur' = turn /\ i' = 0 /\ ret' = "tick"
         \/ pc' = "finish"
      /\ flights' = flights \/ flights' = Tested(turn)
  <2>1. pc \in {"scan", "finish"} /\ exit_status = 0
    BY DEF ScanEnds, PrefetchEnded, IInv, Rest, Roles, Looping
  <2> QED BY <2>1 DEF ScanEnds, PrefetchEnded, Process, Fail, disk, loop
<1>2. \A s \in {0, 1} : ~flights[s].active
  BY <1>1 DEF IInv, Rest, Roles
<1>3. \A s \in {0, 1} : flights'[s].pack = flights[s].pack /\ ~flights'[s].active
  BY <1>1, <1>2, Sizes DEF Tested, FlightsType, Flight
<1>4. Base(turn)' = Base(turn) /\ (pc' = "process" => Base(cur)' = Base(turn))
  BY <1>1, <1>3, Sizes DEF Base
<1>5. Looping /\ Looping' /\ ~Refilling' /\ pc' \notin {"loop", "reserve"}
  BY <1>1 DEF Looping, Refilling
<1> HIDE DEF Base
<1>6. Behind /\ Lead /\ LoadBound
  BY <1>5 DEF Redo, Walking
<1>7. Load' = Load
  <2>1. /\ InAir(0) = 0 /\ InAir(1) = 0 /\ InAir(0)' = 0 /\ InAir(1)' = 0 /\ OfPref' = OfPref
    BY <1>1, <1>2, <1>3 DEF OfPref, InAir
  <2>2. OfProc' + OfTurn' = K /\ OfProc = 0 /\ OfTurn = K /\ OfProc' \in Nat /\ OfTurn' \in Nat
    BY <1>1, <1>3, Sizes DEF OfTurn, OfProc
  <2>3. OfPref \in Nat
    BY Sizes DEF OfPref
  <2> QED BY <1>1, <2>1, <2>2, <2>3, Sizes DEF Load
<1>8. Behind'
  BY <1>1, <1>3, <1>4, <1>6 DEF Behind
<1>9. Near'
  BY <1>3 DEF Near
<1>10. Lead' /\ LoadBound'
  BY <1>1, <1>5, <1>6, <1>7 DEF Lead, LoadBound
<1> QED BY <1>1, <1>5, <1>8, <1>9, <1>10, Sizes, Circling

\* A window is processed: since grows by what the hand loses.
LEMMA WindowRedo ==
  ASSUME IInv, IInv', Redo, ProcessWindow
  PROVE  Redo'
<1>1. /\ UNCHANGED <<config, saved, pc, next_k, turn, flights, cur, ret, pref>>
      /\ pc = "process" /\ i < K /\ since' = since + 1 /\ i' = i + 1
  BY DEF ProcessWindow
<1>2. out' = out \cup {Base(cur) + i} /\ out \subseteq Nat
  BY WindowSearched DEF IInv, TypeOK
<1>3. \A s \in {0, 1} : Base(s)' = Base(s)
  BY <1>1 DEF Base
<1>4. Base(cur)' = Base(cur) /\ AtTick' = AtTick /\ Refilling' = Refilling /\ Mode' = Mode
  BY <1>1 DEF Base, AtTick, Refilling, Mode
<1> HIDE DEF Base
<1>5. RedoBounded'
  <2>1. Base(cur) + K <= Top /\ Base(cur) \in Nat
    BY <1>1, Sizes DEF Redo, HandBelow
  <2>2. Base(cur) + i < Top
    BY <1>1, <2>1, Sizes DEF Top
  <2> QED BY <1>1, <1>2, <2>2 DEF Redo, RedoBounded, Top
<1>6. HandBelow'
  BY <1>1, <1>3, <1>4 DEF Redo, HandBelow, Top
<1>7. Load' = Load
  BY <1>1, Sizes DEF Load, InAir, OfTurn, OfPref, OfProc
<1>8. Walking'
  <2>1. Looping' => Looping /\ pc' # "loop"
    BY <1>1 DEF Looping
  <2>2. Looping => Behind /\ Near /\ Lead /\ LoadBound
    BY DEF Redo, Walking
  <2>3. Looping => Behind' /\ Near'
    <3>1. Behind => Behind'
      BY <1>1, <1>3, <1>4 DEF Behind
    <3>2. Near => Near'
      BY <1>1, <1>3, <1>4 DEF Near
    <3> QED BY <2>2, <3>1, <3>2
  <2>4. Looping /\ pc' # "loop" => Lead' /\ LoadBound'
    BY <1>1, <1>4, <1>7, <2>2 DEF Lead, LoadBound
  <2> QED BY <2>1, <2>3, <2>4 DEF Walking
<1> QED BY <1>5, <1>6, <1>8 DEF Redo

\* All windows of the flight are processed: the hand is what it was.
LEMMA ProcessedRedo ==
  ASSUME IInv, IInv', Redo, ProcessEnds
  PROVE  Redo'
<1>1. /\ UNCHANGED <<config, saved, out, next_k, since, turn, pref>>
      /\ pc = "process" /\ pc' = ret /\ i = K /\ ret \in {"refill", "tick", "drain1", "final"}
  BY DEF ProcessEnds, disk, loop, IInv, TypeOK
<1>2. /\ ~flights'[cur].active
      /\ \A s \in {0, 1} : /\ flights'[s].pack = flights[s].pack
                           /\ s # cur => flights'[s].active = flights[s].active
  BY Sizes DEF ProcessEnds, FlightDone, FlightsType, Flight
<1>3. \A s \in {0, 1} : Base(s)' = Base(s)
  BY <1>2 DEF Base
<1>4. /\ ret = "refill" => cur = turn /\ Mode = "plain"
      /\ ret = "tick" => cur = turn /\ ~flights[cur].active
  BY <1>1 DEF IInv, Rest, Roles
<1>5. CASE ret \in {"drain1", "final"}
  <2>1. ~Looping' /\ pc' # "process"
    BY <1>1, <1>5 DEF Looping
  <2>2. \A s \in {0, 1} : flights'[s].active => flights[s].active
    BY <1>2, Sizes
  <2> HIDE DEF Base
  <2> QED BY <1>1, <1>3, <2>1, <2>2, Sizes, Leaving
<1>6. CASE ret \in {"refill", "tick"}
  <2>1. /\ Looping /\ Looping' /\ Mode' = Mode /\ AtTick' = AtTick /\ Refilling' = Refilling
        /\ pc' \notin {"loop", "reserve", "scan", "finish", "process"}
    BY <1>1, <1>6 DEF Looping, AtTick, Refilling, Mode
  <2> HIDE DEF Base
  <2>2. Behind /\ Near /\ Lead /\ LoadBound
    BY <2>1 DEF Redo, Walking
  <2>3. Load' = Load
    <3>1. InAir(0)' + InAir(1)' = InAir(0) + InAir(1) + OfProc
      BY <1>1, <1>2, Sizes DEF InAir, OfProc
    <3>2. OfTurn = 0 /\ OfTurn' = 0 /\ OfProc' = 0 /\ OfPref' = OfPref
      BY <1>1, <2>1 DEF OfTurn, OfProc, OfPref
    <3>3. /\ InAir(0) \in Nat /\ InAir(1) \in Nat /\ InAir(0)' \in Nat /\ InAir(1)' \in Nat
          /\ OfPref \in Nat /\ OfProc \in Int
      BY Sizes DEF InAir, OfPref, OfProc
    <3> QED BY <1>1, <3>1, <3>2, <3>3, Sizes DEF Load
  <2>4. \A s \in {0, 1} : flights'[s].active => flights[s].active /\ s # turn
    BY <1>2, <1>4, <1>6, Sizes
  <2>5. Behind'
    BY <1>1, <1>3, <2>1, <2>2, <2>4 DEF Behind
  <2>6. Near'
    BY <1>1, <1>3, <2>1, <2>2, <2>4 DEF Near
  <2>7. Lead' /\ LoadBound'
    BY <1>1, <2>1, <2>2, <2>3 DEF Lead, LoadBound
  <2> QED BY <1>1, <2>1, <2>5, <2>6, <2>7, Sizes, Circling
<1> QED BY <1>1, <1>5, <1>6

\* The turn changes; a save begins a new period.
LEMMA TickRedo ==
  ASSUME IInv, IInv', Redo, \/ TickSkip
                            \/ TickSave /\ saved' = KSafe /\ turn' = Other(turn) /\ pc' = "loop"
  PROVE  Redo'
<1> HIDE DEF KSafe
<1>1. /\ UNCHANGED <<config, out, next_k, flights, pref>> /\ turn' = Other(turn)
      /\ pc = "tick" /\ pc' = "loop"
      /\ \/ saved' = saved /\ since' = since /\ since < Tick
         \/ saved' = KSafe /\ since' = 0
  BY DEF TickSkip, TickSave, Fail, disk
<1>2. /\ Looping /\ Looping' /\ AtTick /\ ~AtTick' /\ ~Refilling'
      /\ \A s \in {0, 1} : Base(s)' = Base(s) /\ ((s = turn') <=> ~(s = turn))
  BY <1>1, Sizes DEF Looping, AtTick, Refilling, Base, Other
<1> HIDE DEF Base
<1>3. Behind /\ Near /\ Lead
  BY <1>2 DEF Redo, Walking
<1>4. Behind'
  BY <1>1, <1>2, <1>3 DEF Behind
<1>5. Near'
  BY <1>1, <1>2, <1>3 DEF Near
<1>6. LoadBound'
  BY <1>1, <1>2, Sizes DEF LoadBound
<1>7. /\ KSafe \in Nat /\ KSafe <= next_k
      /\ \/ KSafe = next_k
         \/ \E s \in {0, 1} : flights[s].active /\ KSafe = Base(s)
         \/ pref.b # None /\ KSafe = pref.k0
  BY KSafeLeast DEF IInv
<1>8. saved <= saved'
  <2>1. /\ saved <= next_k /\ (pref.b # None => saved <= pref.k0)
        /\ \A s \in {0, 1} : flights[s].active => saved <= Base(s)
    BY <1>2 DEF IInv, Rest, SavedBehind
  <2> QED BY <1>1, <1>7, <2>1, Sizes
<1>9. Lead'
  <2>1. OfTurn' = OfTurn /\ OfProc' = OfProc /\ OfPref' = OfPref /\ OfTurn = 0 /\ OfProc = 0
    BY <1>1 DEF OfTurn, OfProc, OfPref
  <2>2. /\ InAir(0)' = InAir(0) /\ InAir(1)' = InAir(1)
        /\ InAir(0) \in Nat /\ InAir(1) \in Nat /\ OfPref \in Nat
    BY <1>1, Sizes DEF InAir, OfPref
  <2>3. CASE saved' = saved /\ since' = since
    BY <1>1, <1>3, <2>1, <2>2, <2>3 DEF Lead, Load
  <2>4. CASE saved' = KSafe /\ since' = 0
    <3> SUFFICES next_k <= KSafe + (InAir(0) + InAir(1) + OfPref) + K
      BY <1>1, <1>7, <2>1, <2>2, <2>4, Sizes DEF Lead, Load
    <3>1. CASE KSafe = next_k
      BY <1>7, <2>2, <3>1, Sizes
    <3>2. CASE \E s \in {0, 1} : flights[s].active /\ KSafe = Base(s)
      <4>1. PICK s \in {0, 1} : flights[s].active /\ KSafe = Base(s)
        BY <3>2
      <4>2. next_k <= Base(s) + 2 * K
        BY <1>3, <4>1, Sizes DEF Near
      <4>3. InAir(0) + InAir(1) >= K
        BY <4>1, Sizes DEF InAir
      <4> QED BY <2>2, <4>1, <4>2, <4>3, Sizes
    <3>3. CASE pref.b # None /\ KSafe = pref.k0
      <4>1. next_k = pref.k0 + K
        BY <1>3, <3>3 DEF Behind
      <4> QED BY <2>2, <3>3, <4>1, Sizes
    <3> QED BY <1>7, <3>1, <3>2, <3>3
  <2> QED BY <1>1, <2>3, <2>4
<1> QED BY <1>1, <1>2, <1>4, <1>5, <1>6, <1>8, <1>9, Sizes, Circling

-----------------------------------------------------------------------------
(* The steps into, out of and outside the loop                              *)

\* The fill of a flight goes on, or fails; so does the prefetch.
LEMMA FillingRedo ==
  ASSUME IInv, IInv', Redo, FillFlight \/ Prefetch
  PROVE  Redo'
<1>1. /\ UNCHANGED <<config, saved, out, cur, ret>>
      /\ pc \in {"fill", "scan", "finish"} /\ pc' \in {pc, "exit"}
      /\ pc' = pc => UNCHANGED <<next_k, since, turn>>
      /\ pref'.b = pref.b /\ pref'.k0 = pref.k0
  <2>1. CASE FillFlight
    BY <2>1 DEF FillFlight, Fail, loop, disk
  <2>2. CASE Prefetch
    <3>1. pref \in Prefs /\ pref.next_i \in 0 .. K
      BY Known DEF IInv
    <3>2. UNCHANGED <<config, saved, out, cur, ret, next_k, since, turn, pc>>
          /\ pc \in {"scan", "finish"}
      BY <2>2 DEF Prefetch, loop, disk
    <3>3. pref'.b = pref.b /\ pref'.k0 = pref.k0
      <4>1. \/ \E q : pref' = [pref EXCEPT !.next_i = q]
            \/ pref' = [pref EXCEPT !.failed = TRUE]
            \/ pref' = [pref EXCEPT !.done = TRUE]
            \/ pref' = [pref EXCEPT !.done = TRUE, !.failed = TRUE]
        BY <2>2 DEF Prefetch
      <4> QED BY <3>1, <4>1 DEF Prefs
    <3> QED BY <3>2, <3>3
  <2> QED BY <2>1, <2>2
<1>2. PICK s \in {0, 1} : /\ ~flights[s].active /\ (pc \in {"scan", "finish"} => s # turn)
                          /\ \/ flights' = Committed(s)
                             \/ \E b : flights' = [flights EXCEPT ![s].pack = b]
  <2>1. CASE FillFlight
    <3>1. ~flights[turn].active /\ pc = "fill"
      BY <2>1 DEF FillFlight, IInv, Rest, Roles
    <3>2. \E b : flights' = [flights EXCEPT ![turn].pack = b]
      BY <2>1 DEF FillFlight
    <3> QED BY <3>1, <3>2, Sizes
  <2>2. CASE Prefetch
    <3>1. pref.b \in {0, 1} /\ pref.b # turn
      BY <2>2, Sizes DEF Prefetch, IInv, Rest, PrefOk, Other, TypeOK
    <3>2. \A t \in {0, 1} : ~flights[t].active
      BY <2>2 DEF Prefetch, IInv, Rest, Roles
    <3>3. \/ flights' = Committed(pref.b)
          \/ \E b : flights' = [flights EXCEPT ![pref.b].pack = b]
      BY <2>2 DEF Prefetch
    <3> QED BY <3>1, <3>2, <3>3
  <2> QED BY <2>1, <2>2
<1>3. \A t \in {0, 1} : /\ flights'[t].active = flights[t].active
                        /\ t # s => flights'[t].pack = flights[t].pack
  <2>1. CASE flights' = Committed(s)
    BY <2>1, CommitSets, Sizes DEF IInv
  <2>2. CASE \E b : flights' = [flights EXCEPT ![s].pack = b]
    BY <2>2, Sizes DEF FlightsType, Flight
  <2> QED BY <1>2, <2>1, <2>2
<1>4. \A t \in {0, 1} : t # s => Base(t)' = Base(t)
  BY <1>3 DEF Base
<1> HIDE DEF Base
<1>5. CASE pc' = pc
  BY <1>1, <1>2, <1>3, <1>4, <1>5, Steady DEF Looping
<1>6. CASE pc' = "exit"
  BY <1>1, <1>2, <1>3, <1>4, <1>6, Sizes, Leaving DEF Looping
<1> QED BY <1>1, <1>5, <1>6

\* The walk leaves the loop, on a failure or at the end, or has left it.
LEMMA LeavingRedo ==
  ASSUME IInv, IInv', Redo, saved' = saved, out' = out, pc' = "exit", flights' = flights
  PROVE  Redo'
<1>1. ~Looping' /\ \A s \in {0, 1} : Base(s)' = Base(s)
  BY DEF Looping, Base
<1> HIDE DEF Base
<1> QED BY <1>1, Sizes, Leaving

LEMMA OutsideRedo ==
  ASSUME IInv, IInv', Redo, Exit \/ \E s \in {0, 1} : Drain(s)
  PROVE  Redo'
<1>1. /\ saved' = saved /\ out' = out
      /\ pc' \in {"drain0", "drain1", "final", "process"}
      /\ pc' = "process" => /\ cur' \in {0, 1} /\ flights[cur'].active
                            /\ ret' \in {"drain1", "final"}
  BY DEF Exit, Drain, DrainNext, Process, disk
<1>2. \A s \in {0, 1} : /\ flights'[s].active => flights[s].active
                        /\ flights'[s].pack = flights[s].pack
  <2>1. CASE Exit
    BY <2>1 DEF Exit
  <2>2. CASE \E s \in {0, 1} : Drain(s)
    <3>1. \/ flights' = flights
          \/ \E s \in {0, 1} : flights' = [flights EXCEPT ![s].active = FALSE]
      BY <2>2 DEF Drain
    <3> QED BY <3>1, Sizes DEF FlightsType, Flight
  <2> QED BY <2>1, <2>2
<1>3. \A s \in {0, 1} : Base(s)' = Base(s)
  BY <1>2 DEF Base
<1>4. pc' = "process" => Base(cur)' + K <= Top
  <2>1. pc' = "process" => Base(cur)' = Base(cur')
    BY <1>1, <1>2 DEF Base
  <2>2. pc' = "process" => Base(cur') + K <= Top
    BY <1>1 DEF Redo, HandBelow
  <2> HIDE DEF Base
  <2> QED BY <2>1, <2>2
<1> HIDE DEF Base
<1>5. ~Looping'
  BY <1>1 DEF Looping
<1> QED BY <1>1, <1>2, <1>3, <1>4, <1>5, Sizes, Leaving

\* The process ends, with a save or without one.
LEMMA EndRedo ==
  ASSUME IInv, IInv', Redo, Kill \/ FinalSave
  PROVE  Redo'
<1>1. /\ out' = out /\ pc' = "down" /\ \A s \in {0, 1} : ~flights'[s].active
      /\ saved' = saved \/ (pc = "final" /\ saved' = save_k)
  BY NewTyped DEF Kill, FinalSave, Fresh, disk
<1>2. saved <= saved'
  BY <1>1, Sizes DEF IInv, Rest, SavedBehind, Draining
<1>3. ~Looping'
  BY <1>1 DEF Looping
<1> QED BY <1>1, <1>2, <1>3, Leaving

\* A process begins where the last one saved.
LEMMA StartRedo ==
  ASSUME IInv, IInv', Redo, Start
  PROVE  Redo'
<1>1. /\ saved' = saved /\ out' = out /\ next_k' = saved /\ since' = 0 /\ pc' = "loop"
      /\ pref'.b = None /\ \A s \in {0, 1} : ~flights'[s].active
  BY NewTyped DEF Start, Fresh, disk
<1>2. Looping' /\ ~Refilling' /\ ~AtTick'
  BY <1>1 DEF Looping, Refilling, AtTick
<1>3. Load' = 0
  BY <1>1 DEF Load, InAir, OfTurn, OfPref, OfProc
<1>4. Behind' /\ Near' /\ Lead' /\ LoadBound'
  BY <1>1, <1>2, <1>3, Sizes DEF Behind, Near, Lead, LoadBound
<1> QED BY <1>1, <1>2, <1>4, Sizes, Circling

\* The device ends a test, a signal arrives, or nothing happens.
LEMMA QuietRedo ==
  ASSUME IInv, IInv', Redo, \/ \E s \in {0, 1} : KernelEnds(s)
                            \/ Signal
                            \/ UNCHANGED vars
  PROVE  Redo'
<1>1. /\ UNCHANGED <<config, saved, out, next_k, since, turn, pc, ret, cur, i, pref>>
      /\ \/ flights' = flights
         \/ \E s \in {0, 1} :
              flights' = [flights EXCEPT ![s].running = FALSE, ![s].mr = flights[s].pack.cands]
  BY DEF KernelEnds, Signal, vars, disk, loop
<1>2. \A s \in {0, 1} : /\ flights'[s].active = flights[s].active
                        /\ flights'[s].pack = flights[s].pack
  BY <1>1, Sizes DEF FlightsType, Flight
<1>3. (\A s \in {0, 1} : Base(s)' = Base(s)) /\ Base(cur)' = Base(cur)
  BY <1>1, <1>2, Sizes DEF Base
<1> HIDE DEF Base
<1>4. CASE Looping
  BY <1>1, <1>2, <1>3, <1>4, Steady
<1>5. CASE ~Looping
  <2>1. ~Looping'
    BY <1>1, <1>5 DEF Looping
  <2> QED BY <1>1, <1>2, <1>3, <2>1, Sizes, Leaving DEF Redo, HandBelow
<1> QED BY <1>4, <1>5

-----------------------------------------------------------------------------
(* The theorem                                                              *)

LEMMA RedoEstablished == Init => Redo
<1> SUFFICES ASSUME Init PROVE Redo
  OBVIOUS
<1>1. pc = "down" /\ out = {} /\ \A s \in {0, 1} : ~flights[s].active
  BY NewTyped DEF Init
<1> QED BY <1>1 DEF Redo, Walking, HandBelow, RedoBounded, Looping

LEMMA RedoStep ==
  ASSUME IInv, IInv', Redo, [Next]_vars
  PROVE  Redo'
<1> HIDE DEF Base, KSafe, Fail, Process, loop, disk, vars
<1>1. CASE (\E s \in {0, 1} : KernelEnds(s)) \/ Signal \/ UNCHANGED vars
  BY <1>1, QuietRedo
<1>2. CASE Start \/ Kill \/ FinalSave
  BY <1>2, StartRedo, EndRedo
<1>3. CASE Exit \/ \E s \in {0, 1} : Drain(s)
  BY <1>3, OutsideRedo
<1>4. CASE NothingToCollect \/ BeginFill \/ NothingToFill
  <2>1. CASE NothingToCollect
    BY <2>1, CollectRedo
  <2>2. CASE BeginFill \/ NothingToFill
    BY <2>2, RefillRedo
  <2> QED BY <1>4, <2>1, <2>2
<1>5. CASE FillFlight \/ Prefetch \/ ProcessWindow \/ ProcessEnds
  BY <1>5, FillingRedo, WindowRedo, ProcessedRedo
<1>6. CASE Jump2Filled \/ TakePrefetched \/ Reserve \/ TickSkip
  BY <1>6, Jump2Redo, ReserveRedo, TickRedo
<1>7. CASE LeaveLoop \/ IndexOverflow \/ PrefetchedFailed
  <2>1. pc' = "exit" /\ saved' = saved /\ out' = out /\ flights' = flights
    BY <1>7 DEF LeaveLoop, IndexOverflow, PrefetchedFailed, Fail, disk
  <2> QED BY <2>1, LeavingRedo
<1>8. CASE Collect
  <2>1. \/ Process(turn, "refill")
        \/ pc' = "exit" /\ saved' = saved /\ out' = out /\ flights' = flights
    BY <1>8 DEF Collect, Fail, disk
  <2> QED BY <1>8, <2>1, CollectRedo, LeavingRedo
<1>9. CASE CommitFill
  <2>1. \/ flights' = Committed(turn) /\ pc' = "filled"
        \/ pc' = "exit" /\ saved' = saved /\ out' = out /\ flights' = flights
    BY <1>9 DEF CommitFill, Fail, disk
  <2> QED BY <1>9, <2>1, RefillRedo, LeavingRedo
<1>10. CASE Submit
  <2>1. \/ pc' = "tick"
        \/ Process(turn, "tick")
        \/ pc' = "exit" /\ saved' = saved /\ out' = out /\ flights' = flights
    BY <1>10 DEF Submit, Fail, disk
  <2> QED BY <1>10, <2>1, SubmitRedo, AtOnceRedo, LeavingRedo
<1>11. CASE Jump
  <2>1. \/ Process(turn, "tick")
        \/ pc' = "exit" /\ saved' = saved /\ out' = out /\ flights' = flights
    BY <1>11 DEF Jump, Fail, disk
  <2> QED BY <1>11, <2>1, AtOnceRedo, LeavingRedo
<1>12. CASE ScanEnds
  <2>1. \/ flights' = Tested(turn) /\ UNCHANGED loop
        \/ pc' = "exit" /\ saved' = saved /\ out' = out /\ flights' = flights
    BY <1>12 DEF ScanEnds, Fail, disk
  <2> QED BY <1>12, <2>1, ScannedRedo, LeavingRedo
<1>13. CASE PrefetchEnded
  <2>1. \/ Process(turn, "tick")
        \/ pc' = "exit" /\ saved' = saved /\ out' = out /\ flights' = flights
    BY <1>13 DEF PrefetchEnded, Fail, disk
  <2> QED BY <1>13, <2>1, ScannedRedo, LeavingRedo
<1>14. CASE TickSave
  <2>1. \/ saved' = KSafe /\ turn' = Other(turn) /\ pc' = "loop"
        \/ pc' = "exit" /\ saved' = saved /\ out' = out /\ flights' = flights
    BY <1>14 DEF TickSave, Fail
  <2> QED BY <1>14, <2>1, TickRedo, LeavingRedo
<1> QED BY <1>1, <1>2, <1>3, <1>4, <1>5, <1>6, <1>7, <1>8, <1>9, <1>10, <1>11, <1>12, <1>13,
           <1>14 DEF Next, Walk, Kernels

\* However a walk ends, what the next one searches again is bounded: the output
\* never leads the saved position by more than a period of saves and four flights
\* (the periodic save and the failure positions of gap_hunt_run).
THEOREM RedoStaysBounded == Spec => []RedoBounded
<1>1. (IInv /\ Redo) /\ [Next]_vars => (IInv /\ Redo)'
  <2>1. IInv /\ [Next]_vars => IInv'
    BY TypeStep, RestStep, Stutter DEF IInv
  <2> QED BY <2>1, RedoStep
<1>2. Init => IInv /\ Redo
  BY Established, RedoEstablished
<1>3. IInv /\ Redo => RedoBounded
  BY DEF Redo
<1> QED BY <1>1, <1>2, <1>3, PTL DEF Spec
=============================================================================
