----------------------------- MODULE MCRplDao -----------------------------
(* A small instance of RplDao for TLC: c below a, b below a or the root,   *)
(* a below the root or b; and room for fewer routes than there are         *)
(* targets.                                                                *)
EXTENDS RplDao, TLC

CONSTANTS r, a, b, c
Nodes       == {r, a, b, c}
Candidates  == (r :> {} @@ a :> {r, b} @@ b :> {r, a} @@ c :> {a})
Rooms       == (r :> 1 @@ a :> 2 @@ b :> 1 @@ c :> 0)
Configurations ==
    {[mop |-> "storing", infinite |-> TRUE], [mop |-> "storing", infinite |-> FALSE],
     [mop |-> "non-storing", infinite |-> TRUE], [mop |-> "non-storing", infinite |-> FALSE]}
Beginnings  == {(r :> NoNode @@ a :> r @@ b :> a @@ c :> a)}
Bounds      ==
    {[daos |-> 2, losses |-> 1, moves |-> 0, readdressings |-> 0],
     [daos |-> 2, losses |-> 0, moves |-> 1, readdressings |-> 0],
     [daos |-> 1, losses |-> 1, moves |-> 1, readdressings |-> 0],
     [daos |-> 1, losses |-> 1, moves |-> 0, readdressings |-> 2],
     [daos |-> 1, losses |-> 0, moves |-> 1, readdressings |-> 2]}
=============================================================================
