----------------------------- MODULE MCYaraScan -----------------------------
(* Small instances of YaraScan for TLC. *)
EXTENDS YaraScan

CONSTANTS f1, f2, f3, f4, t1, t2

ThreeFiles == {f1, f2, f3}
FourFiles == {f1, f2, f3, f4}
TwoThreads == {t1, t2}
=============================================================================
