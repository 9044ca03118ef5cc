----------------------------- MODULE MCMinerFarm -----------------------------
(* Small instances of MinerFarm for TLC: template A with two valid header    *)
(* nonces and template B with one.                                           *)
EXTENDS MinerFarm, TLC

A0 == [tmpl |-> "A", nonce |-> 0]
A1 == [tmpl |-> "A", nonce |-> 1]
B0 == [tmpl |-> "B", nonce |-> 0]

TwoHeaders   == {A0, A1}
ThreeHeaders == {A0, A1, B0}
AnyWorker    == Permutations(Workers)
=============================================================================
