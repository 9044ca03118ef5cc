------------------------------ MODULE RangeWalk -----------------------------
(***************************************************************************)
(* What the walk of the prime-gap hunt promises: windows are searched, and *)
(* the position kept in the state file only moves forward, over windows    *)
(* whose results are in the output file.                                   *)
(***************************************************************************)
EXTENDS Naturals

VARIABLES saved,  \* the position in the state file
          out     \* windows searched, with their gaps in the output file

Init == saved = 0 /\ out = {}

Report ==
  /\ \E k \in out' : out' = out \cup {k}
  /\ UNCHANGED saved

Checkpoint ==
  /\ saved' \in Nat /\ saved <= saved'
  /\ \A k \in 0 .. saved' - 1 : k \in out
  /\ UNCHANGED out

Spec == Init /\ [][Report \/ Checkpoint]_<<saved, out>>
=============================================================================
