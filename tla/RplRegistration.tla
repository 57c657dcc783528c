-------------------------- MODULE RplRegistration --------------------------
(***************************************************************************)
(* What the DAO exchange promises a node: it asks with a number of its own *)
(* to be routed to, the answer it gets for that number was given for that  *)
(* number, and it believes in its downward route accordingly.              *)
(***************************************************************************)
CONSTANTS Node, Number

VARIABLES
    asked,          \* <<node, number>>: registrations that have been sent
    accepted,       \* those the root has installed
    refused,        \* those a router on the way had no room for
    answered,       \* those the node has got an answer for
    believes        \* Node -> has it a downward route, as far as it knows

vars == <<asked, accepted, refused, answered, believes>>

Init ==
    /\ asked = {} /\ accepted = {} /\ refused = {} /\ answered = {}
    /\ believes = [n \in Node |-> FALSE]

Ask(n, s) ==
    /\ asked' = asked \union {<<n, s>>}
    /\ UNCHANGED <<accepted, refused, answered, believes>>

Accept(n, s) ==
    /\ <<n, s>> \in asked
    /\ accepted' = accepted \union {<<n, s>>}
    /\ UNCHANGED <<asked, refused, answered, believes>>

RefuseIt(n, s) ==
    /\ <<n, s>> \in asked
    /\ refused' = refused \union {<<n, s>>}
    /\ UNCHANGED <<asked, accepted, answered, believes>>

Answer(n, s, ok) ==
    /\ <<n, s>> \in (IF ok THEN accepted ELSE refused)
    /\ answered' = answered \union {<<n, s>>}
    /\ believes' = [believes EXCEPT ![n] = ok]
    /\ UNCHANGED <<asked, accepted, refused>>

\* The node has lost its way to the root.
Doubt(n) ==
    /\ believes' = [believes EXCEPT ![n] = FALSE]
    /\ UNCHANGED <<asked, accepted, refused, answered>>

Next == \E n \in Node :
    \/ Doubt(n)
    \/ \E s \in Number :
        \/ Ask(n, s) \/ Accept(n, s) \/ RefuseIt(n, s)
        \/ \E ok \in BOOLEAN : Answer(n, s, ok)

Spec == Init /\ [][Next]_vars
=============================================================================
