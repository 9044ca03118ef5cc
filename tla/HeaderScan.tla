----------------------------- MODULE HeaderScan -----------------------------
(***************************************************************************)
(* What the miner farm promises the main loop, with no threads in sight:   *)
(* the nAdd range of the current header is cut into windows; a window is   *)
(* handed out at most once per header and counted as done at most once;    *)
(* and the header nonce is advanced only when every window is done.  New   *)
(* work may replace the header at any moment.  MinerFarm implements this   *)
(* specification.                                                          *)
(***************************************************************************)
EXTENDS Naturals

CONSTANTS
  NumWindows,   \* windows per header (non_crt_windows_per_header)
  Headers       \* block headers: records [tmpl, nonce]

VARIABLES
  header,       \* the header being scanned
  free,         \* its windows nobody was given yet
  done          \* its windows whose scan was counted

Windows == 0 .. NumWindows - 1

absVars == <<header, free, done>>

Start(h) == header' = h /\ free' = Windows /\ done' = {}

HandOut ==
  \E given \in SUBSET free :
    /\ given # {}
    /\ free' = free \ given
    /\ UNCHANGED <<header, done>>

Count ==
  \E x \in Windows \ (free \cup done) :
    /\ done' = done \cup {x}
    /\ UNCHANGED <<header, free>>

\* The header nonce is advanced: nothing of the old header may be left.
Rotate ==
  /\ done = Windows
  /\ \E h \in Headers :
       h.tmpl = header.tmpl /\ h.nonce > header.nonce /\ Start(h)

\* New work: another template, or the same one published afresh by a pool.
Replace ==
  \E h \in Headers :
    (h.tmpl # header.tmpl \/ h.nonce <= header.nonce) /\ Start(h)

Init == header \in Headers /\ free = Windows /\ done = {}

Next == HandOut \/ Count \/ Rotate \/ Replace

Spec == Init /\ [][Next]_absVars
=============================================================================
