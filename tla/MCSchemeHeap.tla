----------------------------- MODULE MCSchemeHeap -----------------------------
(* A small instance of SchemeHeap for TLC.                                 *)
EXTENDS SchemeHeap

CONSTANTS args, value
TwoRegs == {args, value}
=============================================================================
