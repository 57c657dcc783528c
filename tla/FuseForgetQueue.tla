-------------------------- MODULE FuseForgetQueue --------------------------
(***************************************************************************)
(* What the list of forget messages promises: it is a FIFO queue, and a    *)
(* read takes a prefix of it and passes it on in order, or loses it.       *)
(***************************************************************************)
EXTENDS Sequences, Naturals

CONSTANT Link

VARIABLES queue, got    \* the messages waiting; those the last read passed on
vars == <<queue, got>>

Init == queue = <<>> /\ got = <<>>

Put(l) == queue' = Append(queue, l) /\ UNCHANGED got

Take(n) ==
    /\ queue' = SubSeq(queue, n + 1, Len(queue))
    /\ got' \in {<<>>, SubSeq(queue, 1, n)}

Next == \/ \E l \in Link : Put(l)
        \/ \E n \in 0 .. Len(queue) : Take(n)

Spec == Init /\ [][Next]_vars
=============================================================================
