--------------------------- MODULE MCNvmetFcAssoc ---------------------------
(* A small instance of NvmetFcAssoc for TLC: who takes part varies.        *)
EXTENDS NvmetFcAssoc, TLC

CONSTANTS a1, a2, q1, q2, i1, i2, c1
TwoAssocs == {a1, a2}
TwoQueues == {q1, q2}
TwoIods   == {i1, i2}
OneCmd    == {c1}
AllCasts  == {{i1, Unreg, Ctrl}, {i1, i2, Unreg}, {i1, i2, c1}, {i1, Unreg, Conf}, {i1, Unreg, c1}}
Symmetry  == Permutations(TwoAssocs) \union Permutations(TwoQueues)
HostAlone == {{i1, c1}}
=============================================================================
