---------------------------- MODULE MCCrtWorker -----------------------------
(* Instances of CrtWorker for model checking. *)
EXTENDS CrtWorker

Setting(c, p, s, h, o, x, b, f) ==
  [chain |-> c, pair |-> p, split |-> s, half |-> h, hollow |-> o, wide |-> x, batch |-> b,
   faults |-> f]

\* The second nonce has a single window, the last is of no use.
MCRows == <<2, 1, 2, 0>>
MCConfigs == {
  Setting(TRUE, FALSE, FALSE, FALSE, {<<1, 1>>}, {<<3, 1>>}, 1, 2),
  Setting(TRUE, FALSE, FALSE, TRUE, {}, {}, 2, 2),
  Setting(FALSE, TRUE, TRUE, FALSE, {<<2, 0>>, <<3, 0>>}, {}, 2, 2),
  Setting(FALSE, FALSE, TRUE, TRUE, {}, {<<2, 0>>}, 2, 2) }

\* The chain alone, one failure.
ChainConfigs == { Setting(TRUE, FALSE, FALSE, FALSE, {}, {}, 2, 1) }
=============================================================================
