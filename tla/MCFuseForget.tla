---------------------------- MODULE MCFuseForget ----------------------------
(* A small instance of FuseForget for TLC. *)
EXTENDS FuseForget

CONSTANTS l1, l2
TwoLinks == {l1, l2}
=============================================================================
