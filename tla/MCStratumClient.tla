--------------------------- MODULE MCStratumClient ---------------------------
(* Small instances of StratumClient for TLC.                                  *)
EXTENDS StratumClient

TwoHeaders == 1 .. 2
TwoTargets == 1 .. 2
=============================================================================
