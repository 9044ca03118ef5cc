----------------------------- MODULE MCMinerNode -----------------------------
(* Small instances of MinerNode for TLC.                                      *)
EXTENDS MinerNode

H(t, n) == [tmpl |-> t, nonce |-> n]

\* Three templates, the third of which cannot be used; the first has a second
\* valid header nonce.
BadThird == {H(1, 0), H(1, 1), H(2, 0)}
\* One template with two valid header nonces.
OnlyFirst == {H(1, 0), H(1, 1)}

OneTemplate    == 1 .. 1
ThreeTemplates == 1 .. 3
Rising(t) == 10 + t
=============================================================================
