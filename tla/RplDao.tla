------------------------------- MODULE RplDao -------------------------------
(***************************************************************************)
(* Destination advertisements of RPL.  A node asks to be routed to by      *)
(* sending a DAO to its preferred parent (dao_output) and repeats it until *)
(* it is acknowledged or gives up (handle_dao_retransmission).  In storing *)
(* mode each router on the way installs a route, gives the DAO a number of *)
(* its own and passes it on (dao_input_storing); the acknowledgement comes *)
(* back the same way, number by number (dao_ack_input).  In non-storing    *)
(* mode DAOs go to the root, which keeps a parent per node.                *)
(*                                                                         *)
(* Contiki runs one handler at a time on a node, so an action is a whole   *)
(* handler.  A link is a FIFO that may lose messages.                      *)
(***************************************************************************)
EXTENDS Integers, Sequences, FiniteSets

CONSTANTS
    Node, Root, NoNode,
    Parents,         \* Node -> the neighbours that may be its parent
    Capacity,        \* Node -> so many routes fit into its table
    Modes,           \* storing mode or not, and whether lifetimes are infinite
    Trees,           \* the parents the nodes may begin with
    MaxTransmissions,\* RPL_DAO_MAX_RETRANSMISSIONS
    SeqSpace,        \* the lollipop counter takes so many values
    Budgets          \* bounds: DAOs begun, messages lost, changes of a parent, and
                     \* of whether a node has an address

ASSUME NodeAssumption == /\ IsFiniteSet(Node) /\ Root \in Node /\ NoNode \notin Node
                         /\ Parents \in [Node -> SUBSET Node] /\ Parents[Root] = {}
                         /\ \A n \in Node : n \notin Parents[n]
                         /\ Capacity \in [Node -> Nat]
ASSUME ModeAssumption == Modes \subseteq [mop : {"storing", "non-storing"}, infinite : BOOLEAN]
ASSUME TreeAssumption == \A tree \in Trees :
    /\ tree \in [Node -> Node \union {NoNode}] /\ tree[Root] = NoNode
    /\ \A n \in Node \ {Root} : tree[n] \in Parents[n]
Budget == [daos : Nat, losses : Nat, moves : Nat, readdressings : Nat]
ASSUME BoundAssumption == /\ SeqSpace \in Nat \ {0, 1} /\ MaxTransmissions \in Nat \ {0}
                          /\ Budgets \subseteq Budget

VARIABLES
    mode,            \* instance->mop, and whether the lifetime is infinite
    node,            \* the instance of each node: parent, counters and timer
    route,           \* route[n][t]: n's entry for target t, storing mode
    link,            \* link[t]: t's parent at the root, non-storing mode
    chan,            \* chan[<<m, n>>]: messages from m to n
    left,            \* what is left of the budget
    moved,           \* history: somebody has changed its parent
    asked, accepted, refused, answered
                     \* history, as in RplRegistration

history == <<moved, asked, accepted, refused, answered>>
vars == <<mode, node, route, link, chan, left, history>>

Seqs    == 0 .. SeqSpace - 1
Link    == {l \in Node \X Node : l[1] # l[2]}
Storing == mode.mop = "storing"
NoRoute == [nexthop |-> NoNode, seqno_in |-> 0, seqno_out |-> 0,
            pending |-> FALSE, nopath |-> FALSE]

\* A DAO; "reg" is history: the number its target gave the registration.
Dao(t, seq, nopath, parent, reg) ==
    [type |-> "dao", target |-> t, seq |-> seq, nopath |-> nopath,
     parent |-> parent, reg |-> reg]
Ack(seq, ok) == [type |-> "ack", seq |-> seq, ok |-> ok]

\* Whoever takes no part keeps its parent; nobody is its own ancestor.
Rooted(parent) == \A S \in SUBSET (Node \ {Root}) :
    S # {} => \E n \in S : parent[n] \notin S

Init ==
    /\ mode \in Modes
    /\ \E parent \in Trees :
        /\ Rooted(parent)
        /\ node = [n \in Node |->
            [parent |-> parent[n], dao_sequence |-> 0, my_dao_seqno |-> 0,
             my_dao_transmissions |-> 0, timer |-> NoNode, downward |-> FALSE,
             addressed |-> TRUE]]
    /\ route = [n \in Node |-> [t \in Node |-> NoRoute]]
    /\ link = [t \in Node |-> NoNode]
    /\ chan = [l \in Link |-> <<>>]
    /\ left \in Budgets /\ moved = FALSE
    /\ asked = {} /\ accepted = {} /\ refused = {} /\ answered = {}

\* uip_icmp6_send
Sent(c, from, to, m) == [c EXCEPT ![<<from, to>>] = Append(@, m)]

\* RPL_LOLLIPOP_INCREMENT
Incremented(s) == IF s + 1 = SeqSpace THEN 0 ELSE s + 1

\* Where dao_output_target_seq sends to.
Destination(p) == IF Storing THEN p ELSE Root

-----------------------------------------------------------------------------
(* The registering node.                                                   *)

\* dao_output with a lifetime, called when the DAO timer of rpl-timers expires; a
\* node without a global address (get_global_addr) does not get so far.
\* (Mutant: the counter that forwarded DAOs share is not advanced.)
NotCounted(n) == [node[n] EXCEPT !.my_dao_seqno = node[n].dao_sequence,
                                 !.my_dao_transmissions = 1, !.timer = node[n].parent]
Registering(n) ==
    LET seq == Incremented(node[n].dao_sequence) IN
    [node[n] EXCEPT !.dao_sequence = seq, !.my_dao_seqno = seq,
                    !.my_dao_transmissions = 1, !.timer = node[n].parent]
DaoOutput(n) ==
    LET p == node[n].parent  me == Registering(n) IN
    /\ node[n].addressed /\ p # NoNode /\ left.daos > 0
    /\ node' = [node EXCEPT ![n] = me]
    /\ chan' = Sent(chan, n, Destination(p),
                    Dao(n, me.my_dao_seqno, FALSE, p, me.my_dao_seqno))
    /\ left' = [left EXCEPT !.daos = @ - 1]
    /\ asked' = asked \union {<<n, me.my_dao_seqno>>}
    /\ UNCHANGED <<mode, route, link, moved, accepted, refused, answered>>

\* The test for the last transmission.
Spent(n) == node[n].my_dao_transmissions >= MaxTransmissions

\* handle_dao_retransmission.  The timer keeps the parent it was set with.
Retransmit(n) ==
    LET p == node[n].timer  seq == node[n].my_dao_seqno IN
    /\ p # NoNode /\ ~Spent(n) /\ node[n].addressed
    /\ node' = [node EXCEPT ![n].my_dao_transmissions = @ + 1]
    /\ chan' = Sent(chan, n, Destination(p), Dao(n, seq, FALSE, p, seq))
    /\ UNCHANGED <<mode, route, link, left, history>>

\* Without an address it returns, and the timer is not set again.
Lapse(n) ==
    /\ node[n].timer # NoNode /\ ~Spent(n) /\ ~node[n].addressed
    /\ node' = [node EXCEPT ![n].timer = NoNode]
    /\ UNCHANGED <<mode, route, link, chan, left, history>>

\* rpl_local_repair: the node leaves its parents and has to find another one.
LocalRepair(me) == [me EXCEPT !.parent = NoNode, !.downward = FALSE]

\* No more retransmissions: repair, unless the lifetime is infinite.
GiveUp(n) ==
    /\ node[n].timer # NoNode /\ Spent(n)
    /\ LET me == [node[n] EXCEPT !.timer = NoNode] IN
        node' = [node EXCEPT ![n] = IF mode.infinite THEN me ELSE LocalRepair(me)]
    /\ UNCHANGED <<mode, route, link, chan, left, history>>

\* A change of the preferred parent, decided by rpl-dag: the old one is sent a
\* No-Path DAO (dao_output with RPL_ZERO_LIFETIME), which leaves the timer alone,
\* if the node has an address.
Move(n, p) ==
    LET old == node[n].parent  seq == Incremented(node[n].dao_sequence) IN
    /\ p \in Parents[n] \ {old} /\ left.moves > 0
    /\ Rooted([m \in Node |-> IF m = n THEN p ELSE node[m].parent])
    /\ left' = [left EXCEPT !.moves = @ - 1] /\ moved' = TRUE
    /\ IF old = NoNode \/ ~node[n].addressed
       THEN /\ node' = [node EXCEPT ![n].parent = p]
            /\ UNCHANGED chan
       ELSE /\ node' = [node EXCEPT ![n].parent = p, ![n].dao_sequence = seq]
            /\ chan' = Sent(chan, n, Destination(old), Dao(n, seq, TRUE, old, seq))
    /\ UNCHANGED <<mode, route, link, asked, accepted, refused, answered>>

-----------------------------------------------------------------------------
(* The routers.                                                            *)

Received(m, n) == [chan EXCEPT ![<<m, n>>] = Tail(@)]
Arrives(m, n, type) == chan[<<m, n>>] # <<>> /\ Head(chan[<<m, n>>]).type = type

\* prepare_for_dao_fwd
Prepared(rep, seq, out) ==
    [rep EXCEPT !.seqno_in = seq, !.seqno_out = out, !.pending = TRUE]

\* A DAO from a candidate parent of lower rank is a loop and ignored.  The rank
\* is what its last DIO said, which is stale only if somebody has moved.
MayBeLower(s, n) == s \in Parents[n] /\ moved
DaoLoop(s, n) ==
    /\ Storing /\ Arrives(s, n, "dao") /\ (s = node[n].parent \/ MayBeLower(s, n))
    /\ chan' = Received(s, n)
    /\ UNCHANGED <<mode, node, route, link, left, history>>

\* A No-Path DAO: the route is marked, if it is the sender's, and the DAO passed
\* on.  It does not ask for an acknowledgement (dao_output_target_seq:60).
IsHop(rep, s) == rep # NoRoute /\ ~rep.nopath /\ rep.nexthop = s
NoPathInput(s, n) ==
    /\ Storing /\ Arrives(s, n, "dao") /\ s # node[n].parent
    /\ LET m   == Head(chan[<<s, n>>])
           rep == route[n][m.target]
           p   == node[n].parent
           out == Incremented(node[n].dao_sequence)
       IN  /\ m.nopath
           /\ \/ /\ IsHop(rep, s) /\ p # NoNode
                 /\ route' = [route EXCEPT ![n][m.target] =
                                [Prepared(rep, m.seq, out) EXCEPT !.nopath = TRUE]]
                 /\ node' = [node EXCEPT ![n].dao_sequence = out]
                 /\ chan' = Sent(Received(s, n), n, p, [m EXCEPT !.seq = out])
              \/ /\ IsHop(rep, s) /\ p = NoNode
                 /\ route' = [route EXCEPT ![n][m.target].nopath = TRUE]
                 /\ chan' = Received(s, n)
                 /\ UNCHANGED node
              \/ /\ ~IsHop(rep, s)
                 /\ chan' = Received(s, n)
                 /\ UNCHANGED <<route, node>>
    /\ UNCHANGED <<mode, link, left, history>>

\* rpl_add_route: an entry by the same hop is kept, another one replaced.
Entry(n, t, s) == IF route[n][t].nexthop = s THEN [route[n][t] EXCEPT !.nopath = FALSE]
                  ELSE [NoRoute EXCEPT !.nexthop = s]
Fits(n, t) == \/ route[n][t] # NoRoute
              \/ Cardinality({u \in Node : route[n][u] # NoRoute}) < Capacity[n]

\* The table, or that of the neighbours, is full.
DaoRefused(s, n) ==
    /\ Storing /\ Arrives(s, n, "dao") /\ s # node[n].parent
    /\ LET m == Head(chan[<<s, n>>]) IN
        /\ ~m.nopath /\ ~Fits(n, m.target)
        /\ chan' = Sent(Received(s, n), n, s, Ack(m.seq, FALSE))
        /\ refused' = refused \union {<<m.target, m.reg>>}
    /\ UNCHANGED <<mode, node, route, link, left, moved, asked, accepted, answered>>

\* The route is there already, or this is the root: no need to wait.
\* (Mutant: also while the answer from above is outstanding.)
SameNumber(n, rep, seq) == rep.seqno_in = seq \/ n = Root
AckNow(n, rep, seq) == (~rep.pending /\ rep.seqno_in = seq) \/ n = Root

\* A retransmission of what is pending is passed on with the number it had.
IsRetransmission(rep, seq) == rep.pending /\ rep.seqno_in = seq

\* Whatever is not for this node alone goes on to its parent.
\* (Mutant: except what has been passed on already.)
OnlyNew(n, same)  == node[n].parent # NoNode /\ ~same
PassedOn(n, same) == node[n].parent # NoNode

DaoInput(s, n) ==
    /\ Storing /\ Arrives(s, n, "dao") /\ s # node[n].parent
    /\ LET m    == Head(chan[<<s, n>>])
           rep  == Entry(n, m.target, s)
           p    == node[n].parent
           same == IsRetransmission(rep, m.seq)
           out  == IF same THEN rep.seqno_out ELSE Incremented(node[n].dao_sequence)
           fwd  == IF PassedOn(n, same)
                   THEN Sent(Received(s, n), n, p, [m EXCEPT !.seq = out])
                   ELSE Received(s, n)
       IN  /\ ~m.nopath /\ Fits(n, m.target)
           /\ route' = [route EXCEPT ![n][m.target] =
                            IF p = NoNode \/ same THEN rep ELSE Prepared(rep, m.seq, out)]
           /\ node' = [node EXCEPT ![n].dao_sequence = IF p = NoNode \/ same THEN @ ELSE out]
           /\ chan' = IF AckNow(n, rep, m.seq)
                      THEN Sent(fwd, n, s, Ack(m.seq, TRUE)) ELSE fwd
           /\ accepted' = IF n = Root THEN accepted \union {<<m.target, m.reg>>} ELSE accepted
    /\ UNCHANGED <<mode, link, left, moved, asked, refused, answered>>

\* The root in non-storing mode (dao_input_nonstoring).  uip_sr_update_node has room
\* for so many nodes; a DAO for which there is none gets no answer at all.
LinkFits(t) == \/ link[t] # NoNode
               \/ Cardinality({u \in Node : link[u] # NoNode}) < Capacity[Root]
DaoInputNonStoring(s) ==
    /\ ~Storing /\ Arrives(s, Root, "dao")
    /\ LET m == Head(chan[<<s, Root>>]) IN
        \/ /\ m.nopath
           /\ link' = IF link[m.target] = m.parent THEN [link EXCEPT ![m.target] = NoNode]
                      ELSE link
           /\ chan' = Received(s, Root)
           /\ UNCHANGED accepted
        \/ /\ ~m.nopath /\ ~LinkFits(m.target)
           /\ chan' = Received(s, Root)
           /\ UNCHANGED <<link, accepted>>
        \/ /\ ~m.nopath /\ LinkFits(m.target)
           /\ link' = [link EXCEPT ![m.target] = m.parent]
           /\ chan' = Sent(Received(s, Root), Root, s, Ack(m.seq, TRUE))
           /\ accepted' = accepted \union {<<m.target, m.reg>>}
    /\ UNCHANGED <<mode, node, route, left, moved, asked, refused, answered>>

-----------------------------------------------------------------------------
(* Acknowledgements (dao_ack_input).                                       *)

\* An answer to this node's own DAO.
OwnAck(s, n) ==
    /\ Arrives(s, n, "ack") /\ n # Root /\ (Storing => s \in Parents[n])
    /\ LET m == Head(chan[<<s, n>>]) IN
        /\ m.seq = node[n].my_dao_seqno
        /\ node' = [node EXCEPT ![n].downward = m.ok, ![n].timer = NoNode]
        /\ answered' = answered \union {<<n, m.seq>>}
    /\ chan' = Received(s, n)
    /\ UNCHANGED <<mode, route, link, left, moved, asked, accepted, refused>>

\* find_route_entry_by_dao_ack
AckFor(n, seq) == {t \in Node : route[n][t].pending /\ route[n][t].seqno_out = seq}

\* An answer to a DAO this node has passed on goes back with the number it came
\* with.  (Mutant: with the number it has here.)
NumberHere(rep, m)  == [m EXCEPT !.seq = rep.seqno_out]
NumberBelow(rep, m) == [m EXCEPT !.seq = rep.seqno_in]
ForwardAck(s, n) ==
    /\ Storing /\ Arrives(s, n, "ack") /\ n # Root /\ s \in Parents[n]
    /\ LET m == Head(chan[<<s, n>>]) IN
        /\ m.seq # node[n].my_dao_seqno
        /\ \E t \in AckFor(n, m.seq) :
            LET rep == route[n][t] IN
            /\ chan' = Sent(Received(s, n), n, rep.nexthop, NumberBelow(rep, m))
            /\ route' = [route EXCEPT ![n][t] =
                            IF m.ok THEN [rep EXCEPT !.pending = FALSE] ELSE NoRoute]
    /\ UNCHANGED <<mode, node, link, left, history>>

\* One from nobody's parent, to the root, or for no entry, is dropped.
StrayAck(s, n) ==
    /\ Arrives(s, n, "ack")
    /\ \/ n = Root
       \/ Storing /\ s \notin Parents[n]
       \/ /\ Head(chan[<<s, n>>]).seq # node[n].my_dao_seqno
          /\ ~Storing \/ AckFor(n, Head(chan[<<s, n>>]).seq) = {}
    /\ chan' = Received(s, n)
    /\ UNCHANGED <<mode, node, route, link, left, history>>

-----------------------------------------------------------------------------
(* Around it.                                                              *)

\* A message is lost on the link.
Lose(s, n) ==
    /\ chan[<<s, n>>] # <<>> /\ left.losses > 0
    /\ left' = [left EXCEPT !.losses = @ - 1]
    /\ chan' = Received(s, n)
    /\ UNCHANGED <<mode, node, route, link, history>>

\* A node gets its global address, or loses it (uip-ds6).
Readdress(n) ==
    /\ left.readdressings > 0
    /\ left' = [left EXCEPT !.readdressings = @ - 1]
    /\ node' = [node EXCEPT ![n].addressed = ~@]
    /\ UNCHANGED <<mode, route, link, chan, history>>

\* An entry whose No-Path has come is removed after RPL_NOPATH_REMOVAL_DELAY.
Expire(n, t) ==
    /\ route[n][t].nopath
    /\ route' = [route EXCEPT ![n][t] = NoRoute]
    /\ UNCHANGED <<mode, node, link, chan, left, history>>

Deliver(s, n) ==
    \/ DaoLoop(s, n) \/ NoPathInput(s, n) \/ DaoRefused(s, n) \/ DaoInput(s, n)
    \/ n = Root /\ DaoInputNonStoring(s)
    \/ OwnAck(s, n) \/ ForwardAck(s, n) \/ StrayAck(s, n)

\* What goes on by itself: links deliver and timers expire.
Progress == \E n \in Node :
    \/ Retransmit(n) \/ Lapse(n) \/ GiveUp(n)
    \/ \E s \in Node \ {n} : Deliver(s, n)

Next ==
    \/ Progress
    \/ \E n \in Node : DaoOutput(n) \/ Readdress(n) \/ \E p \in Node : Move(n, p)
    \/ \E n \in Node : \E s \in Node \ {n} : Lose(s, n)
    \/ \E n, t \in Node : Expire(n, t)

\* Nobody has to register or move, and messages need not be lost.  Which message
\* or timer comes next is left open: there are only so many of them.
Fairness == WF_vars(Progress)

Spec == Init /\ [][Next]_vars /\ Fairness

-----------------------------------------------------------------------------
(* What must hold.                                                         *)

NodeState == [parent : Node \union {NoNode}, dao_sequence : Seqs, my_dao_seqno : Seqs,
              my_dao_transmissions : 0 .. MaxTransmissions,
              timer : Node \union {NoNode}, downward : BOOLEAN, addressed : BOOLEAN]
Entries == [nexthop : Node \union {NoNode}, seqno_in : Seqs, seqno_out : Seqs,
            pending : BOOLEAN, nopath : BOOLEAN]
Messages ==
    [type : {"dao"}, target : Node, seq : Seqs, nopath : BOOLEAN,
     parent : Node, reg : Seqs]
    \union [type : {"ack"}, seq : Seqs, ok : BOOLEAN]

\* The variables keep their types; no DAO is transmitted more often than
\* handle_dao_retransmission may.
TypeOK ==
    /\ mode \in Modes
    /\ node \in [Node -> NodeState]
    /\ route \in [Node -> [Node -> Entries]]
    /\ link \in [Node -> Node \union {NoNode}]
    /\ chan \in [Link -> Seq(Messages)]
    /\ left \in Budget
    /\ moved \in BOOLEAN
    /\ asked \subseteq Node \X Seqs /\ accepted \subseteq Node \X Seqs
    /\ refused \subseteq Node \X Seqs /\ answered \subseteq Node \X Seqs

\* An acknowledgement can be told by its number: no two routes that wait for one
\* at a node went out with the same, nor with that of the node's own DAO
\* (dao_ack_input asks for its own number first, then takes the first match).
NumberTells == \A n \in Node :
    /\ \A t, u \in Node :
        route[n][t].pending /\ route[n][u].pending /\ t # u
            => route[n][t].seqno_out # route[n][u].seqno_out
    /\ \A t \in Node : route[n][t].pending /\ node[n].my_dao_transmissions > 0
            => route[n][t].seqno_out # node[n].my_dao_seqno
\* The routes of every node are well-formed and can be told apart by number.
NumbersOK == TypeOK /\ NumberTells

\* Where a packet for t is after so many steps down from the root.
At(t) == LET at[k \in 0 .. Cardinality(Node)] ==
                 IF k = 0 THEN Root
                 ELSE IF at[k - 1] \in {t, NoNode} THEN at[k - 1]
                 ELSE route[at[k - 1]][t].nexthop
         IN  at
Reaches(t) == IF Storing THEN At(t)[Cardinality(Node)] = t
              ELSE link[t] \in IF node[t].parent = NoNode THEN Parents[t] ELSE {node[t].parent}

\* As long as nobody changes parents, a node that believes in its downward route
\* is reached from the root by the routes that are installed, whatever was lost,
\* repeated, refused or given up, by itself or by others.
AckedReaches == ~moved =>
    \A n \in Node : node[n].downward => Reaches(n)

Registration == INSTANCE RplRegistration WITH
    Number <- Seqs, believes <- [n \in Node |-> node[n].downward]

\* Every answer is for the number it is taken for, although each router gives a
\* DAO a number of its own: a node believes in its route exactly when the root
\* has installed the registration it was answered for.
ImplementsRegistration == Registration!Spec

Disturbed == moved \/ \E m \in Node \ {Root} : node[m].parent = NoNode
Quiet     == left.losses = 0 /\ \A l \in Link : chan[l] = <<>>

\* Whatever losses have left behind on the way, a node that may repeat its DAO
\* once more when nothing is under way and nothing is lost any more gets an answer
\* for what it has asked last, unless somebody leaves its parent, it has no address,
\* or, in non-storing mode, the table of the root is full: then the DAO is dropped
\* without an answer (vul_022:95).
RepetitionHeals == \A n \in Node \ {Root} :
    (Quiet /\ node[n].timer # NoNode /\ ~Spent(n))
        ~> \/ <<n, node[n].my_dao_seqno>> \in answered
           \/ Disturbed \/ ~node[n].addressed
           \/ ~Storing /\ ~LinkFits(n)
=============================================================================
