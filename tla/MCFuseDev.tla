----------------------------- MODULE MCFuseDev -----------------------------
(* Small instances of FuseDev for TLC. *)
EXTENDS FuseDev

CONSTANTS r1, r2, d1, d2

OneReq == {r1}
TwoReqs == {r1, r2}
OneDaemon == {d1}
TwoDaemons == {d1, d2}
Symmetry == Permutations(Req) \union Permutations(Daemon)
=============================================================================
