---------------------------- MODULE MCWindowScan ----------------------------
(* Instances of WindowScan for model checking. *)
EXTENDS WindowScan

MCOffsets == 1 .. 8 \cup {10, 14}
MCSieved  == { {}, {4}, 1 .. 8, {1, 4, 5, 10, 14} }
MCHidden  == { {3, 4, 6} }
MCNeed    == [a \in MCOffsets |-> IF a < 6 THEN 4 ELSE 5]
MCExact   == { <<"jump2", FALSE>>, <<"full", FALSE>>, <<"full", TRUE>> }
MCQuarterJump == { <<"jump2", TRUE>> }
=============================================================================
