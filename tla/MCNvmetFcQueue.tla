--------------------------- MODULE MCNvmetFcQueue ---------------------------
(* Small instances of NvmetFcQueue for TLC. *)
EXTENDS NvmetFcQueue, TLC

CONSTANTS c1, c2, f1, f2, d1, d2

TwoCmds == {c1, c2}
OneFod == {f1}
TwoFods == {f1, f2}
NoAbts == {}
OneAbts == {c1}
NoDeleter == {}
OneDeleter == {d1}
TwoDeleters == {d1, d2}
AllDirs == {"read", "write", "nodata", "bad"}
DataDirs == {"read", "write"}
Plain == {"nodata"}
Symmetry == Permutations(Cmd) \union Permutations(Fod) \union Permutations(Deleter)
=============================================================================
