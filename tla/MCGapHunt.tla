----------------------------- MODULE MCGapHunt ------------------------------
(* Instances of GapHunt for model checking. *)
EXTENDS GapHunt

Setting(m, r, d, a, x, f, h) ==
  [mode |-> m, incr |-> r, defer |-> d, ahead |-> a, kmax |-> x, fit |-> f, hollow |-> h]
MCConfigs == {
  Setting("plain", 2, FALSE, FALSE, 7, 12, {}), Setting("plain", 1, TRUE, FALSE, 0, 27, {9, 21}),
  Setting("jump", 0, TRUE, FALSE, 6, 12, {3}),
  Setting("jump2", 2, FALSE, TRUE, 7, 12, {3}), Setting("jump2", 2, TRUE, TRUE, 15, 18, {}),
  Setting("jump2", 1, FALSE, TRUE, 9, 8, {}), Setting("jump2", 2, FALSE, FALSE, 9, 8, {0}) }
=============================================================================
