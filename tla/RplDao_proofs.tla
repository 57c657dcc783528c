---------------------------- MODULE RplDao_proofs ----------------------------
(***************************************************************************)
(* Proofs about RplDao, for every set of nodes, every candidate parents    *)
(* and every bound.  As long as no node's counter wraps, a number tells    *)
(* at each node which registration it stands for; from that follow that    *)
(* acknowledgements can be told apart, that the exchange keeps the promise *)
(* of RplRegistration, and that in a tree that nobody changes a node that  *)
(* believes in its downward route is reached.                              *)
(***************************************************************************)
EXTENDS RplDao, FiniteSetTheorems, SequenceTheorems, WellFoundedInduction, TLAPS

USE NodeAssumption, BoundAssumption

-----------------------------------------------------------------------------
(* Messages and channels.                                                  *)

DaoMessages == [type : {"dao"}, target : Node, seq : Seqs, nopath : BOOLEAN,
                parent : Node, reg : Seqs]
AckMessages == [type : {"ack"}, seq : Seqs, ok : BOOLEAN]

\* What is under way on a link.
Msgs(c, l) == {c[l][i] : i \in 1 .. Len(c[l])}

LEMMA MessageKinds ==
    /\ \A m \in Messages : m.type = "dao" => m \in DaoMessages
    /\ \A m \in Messages : m.type = "ack" => m \in AckMessages
    /\ Messages = DaoMessages \union AckMessages
  BY DEF Messages, DaoMessages, AckMessages

\* Sending adds the message to its link, receiving takes the first one away.
LEMMA SentType ==
    ASSUME NEW c \in [Link -> Seq(Messages)], NEW a, NEW b, NEW m \in Messages
    PROVE  /\ Sent(c, a, b, m) \in [Link -> Seq(Messages)]
           /\ \A l \in Link : \A x \in Msgs(Sent(c, a, b, m), l) :
                 x \in Msgs(c, l) \/ (l = <<a, b>> /\ x = m)
<1>. DEFINE d == Sent(c, a, b, m)
<1>1. d = [c EXCEPT ![<<a, b>>] = Append(c[<<a, b>>], m)]
  BY DEF Sent
<1>. HIDE DEF d
<1>2. \A l \in Link : d[l] = IF l = <<a, b>> THEN Append(c[l], m) ELSE c[l]
  BY <1>1
<1>3. ASSUME NEW l \in Link
      PROVE  /\ Append(c[l], m) \in Seq(Messages) /\ c[l] \in Seq(Messages)
             /\ Len(Append(c[l], m)) = Len(c[l]) + 1
             /\ \A i \in 1 .. Len(c[l]) : Append(c[l], m)[i] = c[l][i]
             /\ Append(c[l], m)[Len(c[l]) + 1] = m
             /\ Len(c[l]) \in Nat
  BY AppendProperties
<1>4. d \in [Link -> Seq(Messages)]
  BY <1>1, <1>2, <1>3
<1>5. ASSUME NEW l \in Link, NEW x \in Msgs(d, l)
      PROVE  x \in Msgs(c, l) \/ (l = <<a, b>> /\ x = m)
  <2>1. PICK i \in 1 .. Len(d[l]) : x = d[l][i]
    BY DEF Msgs
  <2>2. CASE l # <<a, b>>
    BY <1>2, <2>1, <2>2 DEF Msgs
  <2>3. CASE l = <<a, b>>
    <3>1. i \in 1 .. Len(c[l]) + 1 /\ d[l] = Append(c[l], m)
      BY <1>2, <1>3, <2>1, <2>3
    <3>2. CASE i = Len(c[l]) + 1
      BY <1>3, <2>1, <2>3, <3>1, <3>2
    <3>3. CASE i \in 1 .. Len(c[l])
      BY <1>3, <2>1, <3>1, <3>3 DEF Msgs
    <3>. QED
      BY <1>3, <3>1, <3>2, <3>3
  <2>. QED
    BY <2>2, <2>3
<1>. QED
  BY <1>4, <1>5 DEF d

LEMMA SentIn ==
    ASSUME NEW c \in [Link -> Seq(Messages)], NEW m \in Messages
    PROVE  \A a, b : Sent(c, a, b, m) \in [Link -> Seq(Messages)]
  BY SentType

LEMMA SentMsgs ==
    ASSUME NEW c \in [Link -> Seq(Messages)], NEW a, NEW b, NEW m \in Messages,
           NEW d, d = Sent(c, a, b, m), NEW l \in Link, NEW x \in Msgs(d, l)
    PROVE  x \in Msgs(c, l) \/ (l[1] = a /\ l[2] = b /\ x = m)
<1>1. x \in Msgs(c, l) \/ (l = <<a, b>> /\ x = m)
  BY SentType
<1>. QED
  BY <1>1

LEMMA SentNew ==
    ASSUME NEW c \in [Link -> Seq(Messages)], NEW a, NEW b, NEW m \in Messages,
           NEW d, d = Sent(c, a, b, m)
    PROVE  \A l \in Link : \A x \in Msgs(d, l) :
                x \in Msgs(c, l) \/ (l[1] = a /\ l[2] = b /\ x = m)
  BY SentMsgs

LEMMA ReceivedType ==
    ASSUME chan \in [Link -> Seq(Messages)], NEW s, NEW n, <<s, n>> \in Link,
           chan[<<s, n>>] # <<>>
    PROVE  /\ Received(s, n) \in [Link -> Seq(Messages)]
           /\ Head(chan[<<s, n>>]) \in Messages
           /\ Head(chan[<<s, n>>]) \in Msgs(chan, <<s, n>>)
           /\ \A l \in Link : Msgs(Received(s, n), l) \subseteq Msgs(chan, l)
<1>. DEFINE d == Received(s, n)
            q == chan[<<s, n>>]
<1>1. d = [chan EXCEPT ![<<s, n>>] = Tail(q)]
  BY DEF Received
<1>2. q \in Seq(Messages) /\ q # <<>>
  OBVIOUS
<1>. HIDE DEF d, q
<1>3. /\ Head(q) \in Messages /\ Tail(q) \in Seq(Messages)
      /\ Len(Tail(q)) = Len(q) - 1 /\ Len(q) \in Nat /\ Len(q) > 0
      /\ Head(q) = q[1]
      /\ \A i \in 1 .. Len(Tail(q)) : Tail(q)[i] = q[i + 1]
  BY <1>2, HeadTailProperties, EmptySeq
<1>4. d \in [Link -> Seq(Messages)]
  BY <1>1, <1>3
<1>5. ASSUME NEW l \in Link, NEW x \in Msgs(d, l)
      PROVE  x \in Msgs(chan, l)
  <2>1. CASE l # <<s, n>>
    BY <1>1, <2>1 DEF Msgs
  <2>2. CASE l = <<s, n>>
    <3>1. d[l] = Tail(q) /\ chan[l] = q
      BY <1>1, <2>2 DEF q
    <3>2. PICK i \in 1 .. Len(Tail(q)) : x = Tail(q)[i]
      BY <3>1 DEF Msgs
    <3>3. i + 1 \in 1 .. Len(q) /\ x = q[i + 1]
      BY <1>3, <3>2
    <3>. QED
      BY <3>1, <3>3 DEF Msgs
  <2>. QED
    BY <2>1, <2>2
<1>6. q[1] \in Msgs(chan, <<s, n>>)
  <2>1. 1 \in 1 .. Len(q)
    BY <1>3
  <2>2. Msgs(chan, <<s, n>>) = {q[i] : i \in 1 .. Len(q)}
    BY DEF Msgs, q
  <2>. QED
    BY <2>1, <2>2, ZenonT(60)
<1>. QED
  BY <1>3, <1>4, <1>5, <1>6 DEF d, q

-----------------------------------------------------------------------------
(* Types.                                                                  *)

LEMMA SeqType ==
    /\ 0 \in Seqs
    /\ \A s \in Seqs : Incremented(s) \in Seqs
    /\ Seqs \subseteq Nat
  BY DEF Seqs, Incremented

LEMMA MessageTypes ==
    /\ \A t, p \in Node, s, r \in Seqs, b \in BOOLEAN : Dao(t, s, b, p, r) \in Messages
    /\ \A s \in Seqs, b \in BOOLEAN : Ack(s, b) \in Messages
    /\ \A m \in Messages, s \in Seqs : [m EXCEPT !.seq = s] \in Messages
    /\ \A m \in Messages : m.seq \in Seqs
    /\ \A m \in Messages : m.type = "dao" =>
          /\ m.target \in Node /\ m.parent \in Node /\ m.reg \in Seqs
          /\ m.nopath \in BOOLEAN
    /\ \A m \in Messages : m.type = "ack" => m.ok \in BOOLEAN
<1>1. /\ \A t, p \in Node, s, r \in Seqs, b \in BOOLEAN : Dao(t, s, b, p, r) \in Messages
      /\ \A s \in Seqs, b \in BOOLEAN : Ack(s, b) \in Messages
  BY DEF Dao, Ack, Messages
<1>2. ASSUME NEW m \in DaoMessages, NEW s \in Seqs
      PROVE  /\ [m EXCEPT !.seq = s] \in DaoMessages
             /\ m.seq \in Seqs /\ m.target \in Node /\ m.parent \in Node
             /\ m.reg \in Seqs /\ m.nopath \in BOOLEAN
  BY DEF DaoMessages
<1>3. ASSUME NEW m \in AckMessages, NEW s \in Seqs
      PROVE  /\ [m EXCEPT !.seq = s] \in AckMessages
             /\ m.seq \in Seqs /\ m.ok \in BOOLEAN
  BY DEF AckMessages
<1>. QED
  BY <1>1, <1>2, <1>3, MessageKinds, SeqType

LEMMA InitType == Init => TypeOK
<1>. SUFFICES ASSUME Init PROVE TypeOK
  OBVIOUS
<1>1. node \in [Node -> NodeState]
  BY SeqType, TreeAssumption DEF Init, NodeState
<1>2. route \in [Node -> [Node -> Entries]]
  BY SeqType DEF Init, NoRoute, Entries
<1>3. <<>> \in Seq(Messages)
  OBVIOUS
<1>4. left \in Budget
  BY DEF Init
<1>. QED
  BY <1>1, <1>2, <1>3, <1>4 DEF Init, TypeOK

LEMMA LeftType ==
    ASSUME NEW b \in Budget
    PROVE  /\ b.daos > 0 => [b EXCEPT !.daos = @ - 1] \in Budget
           /\ b.losses > 0 => [b EXCEPT !.losses = @ - 1] \in Budget
           /\ b.moves > 0 => [b EXCEPT !.moves = @ - 1] \in Budget
           /\ b.readdressings > 0 => [b EXCEPT !.readdressings = @ - 1] \in Budget
<1>. USE DEF Budget
<1>1. b.daos > 0 => b.daos - 1 \in Nat
  OBVIOUS
<1>2. b.losses > 0 => b.losses - 1 \in Nat
  OBVIOUS
<1>3. b.moves > 0 => b.moves - 1 \in Nat
  OBVIOUS
<1>4. b.readdressings > 0 => b.readdressings - 1 \in Nat
  OBVIOUS
<1>. QED
  BY <1>1, <1>2, <1>3, <1>4

LEMMA NodeType ==
    ASSUME NEW me \in NodeState
    PROVE  /\ me.parent \in Node \union {NoNode} /\ me.timer \in Node \union {NoNode}
           /\ me.dao_sequence \in Seqs /\ me.my_dao_seqno \in Seqs
           /\ me.my_dao_transmissions \in 0 .. MaxTransmissions /\ me.downward \in BOOLEAN
           /\ me.addressed \in BOOLEAN
  BY DEF NodeState

LEMMA EntryType ==
    ASSUME TypeOK, NEW n \in Node, NEW t \in Node
    PROVE  /\ NoRoute \in Entries
           /\ \A s \in Node : Entry(n, t, s) \in Entries
           /\ \A rep \in Entries, a, b \in Seqs, v \in BOOLEAN :
                 /\ Prepared(rep, a, b) \in Entries
                 /\ [Prepared(rep, a, b) EXCEPT !.nopath = v] \in Entries
                 /\ [rep EXCEPT !.nopath = v] \in Entries
                 /\ [rep EXCEPT !.pending = v] \in Entries
           /\ route[n][t] \in Entries
           /\ \A rep \in Entries : rep.seqno_in \in Seqs /\ rep.seqno_out \in Seqs
                /\ rep.nexthop \in Node \union {NoNode} /\ rep.pending \in BOOLEAN
                /\ rep.nopath \in BOOLEAN
<1>1. NoRoute \in Entries
  BY SeqType DEF NoRoute, Entries
<1>2. route[n][t] \in Entries
  BY DEF TypeOK
<1>3. ASSUME NEW rep \in Entries, NEW a \in Seqs, NEW b \in Seqs, NEW v \in BOOLEAN
      PROVE  /\ Prepared(rep, a, b) \in Entries
             /\ [Prepared(rep, a, b) EXCEPT !.nopath = v] \in Entries
             /\ [rep EXCEPT !.nopath = v] \in Entries
             /\ [rep EXCEPT !.pending = v] \in Entries
  BY DEF Prepared, Entries
<1>4. ASSUME NEW s \in Node PROVE Entry(n, t, s) \in Entries
  BY <1>1, <1>2 DEF Entry, Entries
<1>5. \A rep \in Entries : rep.seqno_in \in Seqs /\ rep.seqno_out \in Seqs
                /\ rep.nexthop \in Node \union {NoNode} /\ rep.pending \in BOOLEAN
                /\ rep.nopath \in BOOLEAN
  BY DEF Entries
<1>. QED
  BY <1>1, <1>2, <1>3, <1>4, <1>5

LEMMA RouteMarked ==
    ASSUME NEW r \in [Node -> [Node -> Entries]], NEW n \in Node, NEW t \in Node
    PROVE  /\ [r EXCEPT ![n][t].nopath = TRUE] \in [Node -> [Node -> Entries]]
           /\ [r EXCEPT ![n][t].nopath = TRUE]
                 = [r EXCEPT ![n] = [r[n] EXCEPT ![t] = [r[n][t] EXCEPT !.nopath = TRUE]]]
<1>1. [r[n][t] EXCEPT !.nopath = TRUE] \in Entries
  <2>1. \A e \in Entries : [e EXCEPT !.nopath = TRUE] \in Entries
    BY DEF Entries
  <2>. QED
    BY <2>1
<1>2. [r EXCEPT ![n][t].nopath = TRUE]
         = [r EXCEPT ![n] = [r[n] EXCEPT ![t] = [r[n][t] EXCEPT !.nopath = TRUE]]]
  OBVIOUS
<1>3. [r[n] EXCEPT ![t] = [r[n][t] EXCEPT !.nopath = TRUE]] \in [Node -> Entries]
  BY <1>1
<1>. QED
  BY <1>2, <1>3

\* What TypeOK says of the message a handler takes.
LEMMA ArrivalType ==
    ASSUME TypeOK, NEW s \in Node, NEW n \in Node, s # n, chan[<<s, n>>] # <<>>
    PROVE  /\ <<s, n>> \in Link
           /\ Head(chan[<<s, n>>]) \in Messages
           /\ Received(s, n) \in [Link -> Seq(Messages)]
           /\ Head(chan[<<s, n>>]) \in Msgs(chan, <<s, n>>)
           /\ \A l \in Link : Msgs(Received(s, n), l) \subseteq Msgs(chan, l)
<1>1. <<s, n>> \in Link
  BY DEF Link
<1>2. chan \in [Link -> Seq(Messages)]
  BY DEF TypeOK
<1>. QED
  BY <1>1, <1>2, ReceivedType

LEMMA NextType == TypeOK /\ [Next]_vars => TypeOK'
<1>. SUFFICES ASSUME TypeOK, [Next]_vars PROVE TypeOK'
  OBVIOUS
<1>. USE DEF TypeOK
<1>1. CASE UNCHANGED vars
  BY <1>1 DEF vars, history
<1>2. ASSUME NEW n \in Node, DaoOutput(n) PROVE TypeOK'
  <2>. DEFINE me == Registering(n)
  <2>1. node[n] \in NodeState /\ node[n].parent \in Node
    BY <1>2, NodeType DEF DaoOutput
  <2>2. me \in NodeState /\ me.my_dao_seqno \in Seqs
    <3>1. 1 \in 0 .. MaxTransmissions
      OBVIOUS
    <3>2. Incremented(node[n].dao_sequence) \in Seqs
      BY <2>1, NodeType, SeqType
    <3>. QED
      BY <2>1, <3>1, <3>2 DEF Registering, NodeState
  <2>3. chan' \in [Link -> Seq(Messages)]
    BY <1>2, <2>1, <2>2, SentType, MessageTypes, ZenonT(60) DEF DaoOutput
  <2>4. left' \in Budget
    BY <1>2, LeftType DEF DaoOutput
  <2>5. node' \in [Node -> NodeState]
    BY <1>2, <2>2 DEF DaoOutput
  <2>6. asked' \subseteq Node \X Seqs
    BY <1>2, <2>2 DEF DaoOutput
  <2>. QED
    BY <1>2, <2>3, <2>4, <2>5, <2>6 DEF DaoOutput
<1>3. ASSUME NEW n \in Node, Retransmit(n) PROVE TypeOK'
  <2>1. /\ node[n] \in NodeState /\ node[n].timer \in Node /\ node[n].my_dao_seqno \in Seqs
        /\ node[n].my_dao_transmissions \in 0 .. MaxTransmissions
        /\ node[n].my_dao_transmissions + 1 \in 0 .. MaxTransmissions
    BY <1>3, NodeType, SMTT(30) DEF Retransmit, Spent
  <2>2. [node[n] EXCEPT !.my_dao_transmissions = @ + 1] \in NodeState
    BY <2>1 DEF NodeState
  <2>3. chan' \in [Link -> Seq(Messages)]
    BY <1>3, <2>1, SentType, MessageTypes, ZenonT(60) DEF Retransmit
  <2>4. node' \in [Node -> NodeState]
    BY <1>3, <2>2 DEF Retransmit
  <2>. QED
    BY <1>3, <2>3, <2>4 DEF Retransmit, history
<1>4. ASSUME NEW n \in Node, GiveUp(n) PROVE TypeOK'
  <2>. DEFINE me == [node[n] EXCEPT !.timer = NoNode]
  <2>1. node[n] \in NodeState
    OBVIOUS
  <2>2. me \in NodeState
    BY <2>1 DEF NodeState
  <2>3. [me EXCEPT !.parent = NoNode, !.downward = FALSE] \in NodeState
    BY <2>2 DEF NodeState
  <2>4. LocalRepair(me) \in NodeState
    BY <2>3 DEF LocalRepair
  <2>. QED
    BY <1>4, <2>2, <2>4 DEF GiveUp, history
<1>5. ASSUME NEW n \in Node, NEW p \in Node, Move(n, p) PROVE TypeOK'
  <2>. DEFINE old == node[n].parent
              seq == Incremented(node[n].dao_sequence)
  <2>1. node[n] \in NodeState /\ old \in Node \union {NoNode} /\ seq \in Seqs
    BY NodeType, SeqType
  <2>2. left' \in Budget
    BY <1>5, LeftType DEF Move
  <2>3. CASE old = NoNode \/ ~node[n].addressed
    <3>1. node' \in [Node -> NodeState]
      <4>1. [node[n] EXCEPT !.parent = p] \in NodeState
        BY <2>1 DEF NodeState
      <4>2. node' = [node EXCEPT ![n] = [node[n] EXCEPT !.parent = p]]
        BY <1>5, <2>3 DEF Move
      <4>. QED
        BY <4>1, <4>2
    <3>. QED
      BY <1>5, <2>2, <2>3, <3>1, ZenonT(60) DEF Move
  <2>4. CASE old # NoNode /\ node[n].addressed
    <3>1. [node[n] EXCEPT !.parent = p, !.dao_sequence = seq] \in NodeState
      BY <2>1 DEF NodeState
    <3>2. node' = [node EXCEPT ![n] = [node[n] EXCEPT !.parent = p, !.dao_sequence = seq]]
      BY <1>5, <2>4, ZenonT(60) DEF Move
    <3>3. node' \in [Node -> NodeState]
      BY <3>1, <3>2
    <3>4. chan' \in [Link -> Seq(Messages)]
      <4>1. Dao(n, seq, TRUE, old, seq) \in Messages
        BY <2>1, <2>4, MessageTypes
      <4>2. chan' = Sent(chan, n, Destination(old), Dao(n, seq, TRUE, old, seq))
        BY <1>5, <2>4 DEF Move
      <4>. QED
        BY <4>1, <4>2, SentIn
    <3>. QED
      BY <1>5, <2>2, <3>3, <3>4 DEF Move
  <2>. QED
    BY <2>3, <2>4
<1>6. ASSUME NEW n \in Node, NEW s \in Node \ {n}, Lose(s, n) PROVE TypeOK'
  <2>1. left' \in Budget
    BY <1>6, LeftType DEF Lose
  <2>2. chan' \in [Link -> Seq(Messages)]
    BY <1>6, ArrivalType DEF Lose
  <2>. QED
    BY <1>6, <2>1, <2>2 DEF Lose, history
<1>7. ASSUME NEW n \in Node, NEW t \in Node, Expire(n, t) PROVE TypeOK'
  <2>1. route' = [route EXCEPT ![n][t] = NoRoute] /\ NoRoute \in Entries
    BY <1>7, EntryType DEF Expire
  <2>2. route' \in [Node -> [Node -> Entries]]
    <3>1. route \in [Node -> [Node -> Entries]]
      OBVIOUS
    <3>. HIDE DEF TypeOK
    <3>. QED
      BY <2>1, <3>1, SMTT(30)
  <2>. QED
    BY <1>7, <2>2 DEF Expire, history
<1>8. ASSUME NEW n \in Node, NEW s \in Node \ {n}, Deliver(s, n) PROVE TypeOK'
  <2>. DEFINE m == Head(chan[<<s, n>>])
              p == node[n].parent
  <2>1. /\ m \in Messages
        /\ Received(s, n) \in [Link -> Seq(Messages)]
        /\ m.seq \in Seqs
        /\ m.type = "dao" => m.target \in Node /\ m.parent \in Node /\ m.reg \in Seqs
                             /\ m.nopath \in BOOLEAN
        /\ m.type = "ack" => m.ok \in BOOLEAN
    <3>1. chan[<<s, n>>] # <<>>
      BY <1>8 DEF Deliver, DaoLoop, NoPathInput, DaoRefused, DaoInput, DaoInputNonStoring,
                  OwnAck, ForwardAck, StrayAck, Arrives
    <3>. QED
      BY <3>1, ArrivalType, MessageTypes
  <2>2. node[n] \in NodeState /\ p \in Node \union {NoNode} /\ node[n].dao_sequence \in Seqs
        /\ Incremented(node[n].dao_sequence) \in Seqs
    BY NodeType, SeqType
  <2>3. CASE DaoLoop(s, n)
    BY <2>1, <2>3 DEF DaoLoop, history
  <2>4. CASE NoPathInput(s, n)
    <3>. DEFINE rep == route[n][m.target]
                out == Incremented(node[n].dao_sequence)
                new == [Prepared(rep, m.seq, out) EXCEPT !.nopath = TRUE]
    <3>1. m.type = "dao" /\ m.target \in Node
      BY <2>1, <2>4 DEF NoPathInput, Arrives
    <3>2. rep \in Entries /\ new \in Entries /\ [rep EXCEPT !.nopath = TRUE] \in Entries
      BY <2>1, <2>2, <3>1, EntryType
    <3>3. [m EXCEPT !.seq = out] \in Messages
      BY <2>1, <2>2, MessageTypes
    <3>4. CASE IsHop(rep, s) /\ p # NoNode
      <4>1. route' = [route EXCEPT ![n][m.target] = new]
        BY <2>4, <3>4 DEF NoPathInput
      <4>2. node' = [node EXCEPT ![n].dao_sequence = out]
        BY <2>4, <3>4, ZenonT(60) DEF NoPathInput
      <4>3. chan' = Sent(Received(s, n), n, p, [m EXCEPT !.seq = out])
        BY <2>4, <3>4 DEF NoPathInput
      <4>4. route' \in [Node -> [Node -> Entries]]
        BY <3>1, <3>2, <4>1
      <4>5. node' \in [Node -> NodeState]
        BY <2>2, <4>2 DEF NodeState
      <4>6. chan' \in [Link -> Seq(Messages)]
        BY <2>1, <3>3, <4>3, SentIn
      <4>. QED
        BY <2>4, <4>4, <4>5, <4>6 DEF NoPathInput, history
    <3>5. CASE ~(IsHop(rep, s) /\ p # NoNode)
      <4>1. chan' = Received(s, n) /\ node' = node
        BY <2>4, <3>5, SMTT(30) DEF NoPathInput
      <4>2. \/ route' = [route EXCEPT ![n][m.target].nopath = TRUE]
            \/ route' = route
        BY <2>4, <3>5 DEF NoPathInput
      <4>3. route' \in [Node -> [Node -> Entries]]
        <5>1. route \in [Node -> [Node -> Entries]]
          OBVIOUS
        <5>2. [route EXCEPT ![n][m.target].nopath = TRUE] \in [Node -> [Node -> Entries]]
          BY <3>1, <5>1, RouteMarked
        <5>. QED
          BY <4>2, <5>1, <5>2
      <4>. QED
        BY <2>1, <2>4, <4>1, <4>3 DEF NoPathInput, history
    <3>. QED
      BY <3>4, <3>5
  <2>5. CASE DaoRefused(s, n)
    <3>1. m.type = "dao" /\ <<m.target, m.reg>> \in Node \X Seqs
      BY <2>1, <2>5 DEF DaoRefused, Arrives
    <3>2. chan' \in [Link -> Seq(Messages)]
      BY <2>1, <2>5, MessageTypes, SentType DEF DaoRefused
    <3>. QED
      BY <2>5, <3>1, <3>2 DEF DaoRefused
  <2>6. CASE DaoInput(s, n)
    <3>. DEFINE rep  == Entry(n, m.target, s)
                same == IsRetransmission(rep, m.seq)
                out  == IF same THEN rep.seqno_out ELSE Incremented(node[n].dao_sequence)
                fwd  == IF PassedOn(n, same)
                        THEN Sent(Received(s, n), n, p, [m EXCEPT !.seq = out])
                        ELSE Received(s, n)
                new  == IF p = NoNode \/ same THEN rep ELSE Prepared(rep, m.seq, out)
    <3>1. /\ m.type = "dao" /\ m.target \in Node
          /\ <<m.target, m.reg>> \in Node \X Seqs
      BY <2>1, <2>6 DEF DaoInput, Arrives
    <3>2. rep \in Entries /\ out \in Seqs
      BY <2>2, <3>1, EntryType
    <3>3. new \in Entries
      BY <2>1, <3>1, <3>2, EntryType
    <3>4. fwd \in [Link -> Seq(Messages)]
      <4>1. [m EXCEPT !.seq = out] \in Messages
        BY <2>1, <3>2, MessageTypes
      <4>. QED
        BY <2>1, <4>1, SentIn
    <3>5. route' = [route EXCEPT ![n][m.target] = new]
      BY <2>6 DEF DaoInput
    <3>6. node' = [node EXCEPT ![n].dao_sequence =
                      IF p = NoNode \/ same THEN node[n].dao_sequence ELSE out]
      BY <2>6 DEF DaoInput
    <3>7. chan' = IF AckNow(n, rep, m.seq) THEN Sent(fwd, n, s, Ack(m.seq, TRUE)) ELSE fwd
      BY <2>6 DEF DaoInput
    <3>. HIDE DEF rep, same, out, fwd, new
    <3>8. route' \in [Node -> [Node -> Entries]]
      BY <3>1, <3>3, <3>5
    <3>9. node' \in [Node -> NodeState]
      BY <2>2, <3>2, <3>6 DEF NodeState
    <3>10. chan' \in [Link -> Seq(Messages)]
      BY <2>1, <3>4, <3>7, SentType, MessageTypes
    <3>11. accepted' \subseteq Node \X Seqs
      BY <2>6, <3>1 DEF DaoInput
    <3>. QED
      BY <2>6, <3>8, <3>9, <3>10, <3>11 DEF DaoInput
  <2>7. CASE n = Root /\ DaoInputNonStoring(s)
    <3>1. m.type = "dao" /\ m.target \in Node /\ m.reg \in Seqs /\ m.parent \in Node
      BY <2>1, <2>7 DEF DaoInputNonStoring, Arrives
    <3>2. Sent(Received(s, Root), Root, s, Ack(m.seq, TRUE)) \in [Link -> Seq(Messages)]
      BY <2>1, <2>7, MessageTypes, SentType
    <3>3. chan' \in [Link -> Seq(Messages)]
      BY <2>1, <2>7, <3>2, ZenonT(60) DEF DaoInputNonStoring
    <3>4. \/ link' = [link EXCEPT ![m.target] = NoNode] /\ accepted' = accepted
          \/ link' = link /\ accepted' = accepted
          \/ /\ link' = [link EXCEPT ![m.target] = m.parent]
             /\ accepted' = accepted \union {<<m.target, m.reg>>}
      BY <2>7 DEF DaoInputNonStoring
    <3>5. link' \in [Node -> Node \union {NoNode}] /\ accepted' \subseteq Node \X Seqs
      <4>1. <<m.target, m.reg>> \in Node \X Seqs
        BY <3>1
      <4>2. link \in [Node -> Node \union {NoNode}] /\ accepted \subseteq Node \X Seqs
        OBVIOUS
      <4>. HIDE DEF TypeOK, m
      <4>. QED
        BY <3>1, <3>4, <4>1, <4>2
    <3>. QED
      BY <2>7, <3>3, <3>5 DEF DaoInputNonStoring
  <2>8. CASE OwnAck(s, n)
    <3>1. m.ok \in BOOLEAN
      BY <2>1, <2>8 DEF OwnAck, Arrives
    <3>2. [node[n] EXCEPT !.downward = m.ok, !.timer = NoNode] \in NodeState
      BY <2>2, <3>1 DEF NodeState
    <3>3. node' = [node EXCEPT ![n] = [node[n] EXCEPT !.downward = m.ok, !.timer = NoNode]]
      BY <2>8 DEF OwnAck
    <3>4. node' \in [Node -> NodeState]
      BY <3>2, <3>3
    <3>5. answered' \subseteq Node \X Seqs
      BY <2>1, <2>8 DEF OwnAck
    <3>. QED
      BY <2>1, <2>8, <3>4, <3>5 DEF OwnAck
  <2>9. CASE ForwardAck(s, n)
    <3>1. PICK t \in AckFor(n, m.seq) :
             /\ chan' = Sent(Received(s, n), n, route[n][t].nexthop,
                             NumberBelow(route[n][t], m))
             /\ route' = [route EXCEPT ![n][t] =
                   IF m.ok THEN [route[n][t] EXCEPT !.pending = FALSE] ELSE NoRoute]
      BY <2>9 DEF ForwardAck
    <3>2. t \in Node
      BY DEF AckFor
    <3>3. NumberBelow(route[n][t], m) \in Messages
      BY <2>1, <3>2, EntryType, MessageTypes DEF NumberBelow
    <3>4. chan' \in [Link -> Seq(Messages)]
      BY <2>1, <3>1, <3>3, SentIn
    <3>5. route' \in [Node -> [Node -> Entries]]
      BY <3>1, <3>2, EntryType, ZenonT(60)
    <3>. QED
      BY <2>9, <3>4, <3>5 DEF ForwardAck, history
  <2>10. CASE StrayAck(s, n)
    BY <2>1, <2>10 DEF StrayAck, history
  <2>. QED
    BY <1>8, <2>3, <2>4, <2>5, <2>6, <2>7, <2>8, <2>9, <2>10 DEF Deliver
<1>9. ASSUME NEW n \in Node, Lapse(n) PROVE TypeOK'
  <2>1. [node[n] EXCEPT !.timer = NoNode] \in NodeState
    <3>1. node[n] \in NodeState
      OBVIOUS
    <3>. HIDE DEF TypeOK
    <3>. QED
      BY <3>1, SMTT(30) DEF NodeState
  <2>2. node' = [node EXCEPT ![n] = [node[n] EXCEPT !.timer = NoNode]]
    BY <1>9 DEF Lapse
  <2>3. node' \in [Node -> NodeState]
    BY <2>1, <2>2
  <2>. QED
    BY <1>9, <2>3 DEF Lapse, history
<1>10. ASSUME NEW n \in Node, Readdress(n) PROVE TypeOK'
  <2>1. [node[n] EXCEPT !.addressed = ~@] \in NodeState
    <3>1. node[n] \in NodeState
      OBVIOUS
    <3>2. (~node[n].addressed) \in BOOLEAN
      BY Zenon
    <3>. HIDE DEF TypeOK
    <3>3. \A v \in BOOLEAN : [node[n] EXCEPT !.addressed = v] \in NodeState
      BY <3>1 DEF NodeState
    <3>. QED
      BY <3>2, <3>3, Zenon
  <2>2. left' \in Budget
    BY <1>10, LeftType DEF Readdress
  <2>3. node' = [node EXCEPT ![n] = [node[n] EXCEPT !.addressed = ~@]]
    BY <1>10 DEF Readdress
  <2>4. node' \in [Node -> NodeState]
    BY <2>1, <2>3
  <2>. QED
    BY <1>10, <2>2, <2>4 DEF Readdress, history
<1>. QED
  BY <1>1, <1>2, <1>3, <1>4, <1>5, <1>6, <1>7, <1>8, <1>9, <1>10 DEF Next, Progress

\* The variables keep their types, however often the counters wrap, and no DAO is
\* transmitted more often than handle_dao_retransmission may.
THEOREM TypeCorrect == Spec => []TypeOK
<1>1. Init => TypeOK
  BY InitType
<1>2. TypeOK /\ [Next]_vars => TypeOK'
  BY NextType
<1>. QED
  BY <1>1, <1>2, PTL DEF Spec

-----------------------------------------------------------------------------
(* What a number stands for.  Every DAO is sent with the next number of    *)
(* its sender, so as long as no counter wraps there is a table f that says *)
(* which registration, <<target, number at the target>>, each number of    *)
(* each node stands for.  The table is never overwritten, only extended,   *)
(* and the invariant says that messages and routes agree with it.          *)

\* No counter has wrapped: RPL_LOLLIPOP_INCREMENT has only counted up.
NoWrap == \A n \in Node : node'[n].dao_sequence >= node[n].dao_sequence

Tables == [Node -> [Seqs -> Node \X Seqs]]
Numbers(n) == 1 .. node[n].dao_sequence

\* A node's own DAO is a registration it has asked for.
NodeOK(f, n) ==
    LET my == node[n].my_dao_seqno IN
    /\ my <= node[n].dao_sequence
    /\ node[n].timer # NoNode \/ node[n].my_dao_transmissions > 0 => my # 0
    /\ my # 0 => f[n][my] = <<n, my>> /\ <<n, my>> \in asked

\* The registration a DAO is about.
About(m) == <<m.target, m.reg>>

\* A DAO on the way carries the number its sender has given the registration, an
\* acknowledgement the number its receiver has.
DaoOK(f, l, m) ==
    /\ m.seq \in Numbers(l[1]) /\ f[l[1]][m.seq] = About(m)
    /\ m.reg <= node[m.target].dao_sequence
    /\ ~m.nopath => About(m) \in asked
AckOK(f, l, m) ==
    /\ m.seq \in Numbers(l[2])
    /\ m.ok => f[l[2]][m.seq] \in accepted
    /\ ~m.ok => f[l[2]][m.seq] \in refused
MessageOK(f, l, m) == /\ m.type = "dao" => DaoOK(f, l, m)
                      /\ m.type = "ack" => AckOK(f, l, m)

\* The two numbers of a route that waits stand for one registration, which is not
\* the node's own; one that does not wait stands for what the root has installed.
RouteOK(f, n, t) ==
    LET rep == route[n][t] IN
    /\ rep.pending =>
          /\ rep.nexthop \in Node
          /\ rep.seqno_out \in Numbers(n) /\ rep.seqno_in \in Numbers(rep.nexthop)
          /\ f[n][rep.seqno_out] = f[rep.nexthop][rep.seqno_in]
          /\ f[n][rep.seqno_out][1] = t
          /\ f[n][rep.seqno_out] # <<n, rep.seqno_out>>
    /\ ~rep.pending /\ rep.seqno_in # 0 =>
          /\ rep.nexthop \in Node /\ rep.seqno_in \in Numbers(rep.nexthop)
          /\ f[rep.nexthop][rep.seqno_in] \in accepted

Good(f) ==
    /\ \A n \in Node : NodeOK(f, n)
    /\ \A l \in Link : \A m \in Msgs(chan, l) : MessageOK(f, l, m)
    /\ \A n, t \in Node : RouteOK(f, n, t)

Explained == \E f \in Tables : Good(f)

\* The table g extends f while the counters go on.
Later(f, g) ==
    /\ \A n \in Node : /\ node[n].dao_sequence <= node'[n].dao_sequence
                       /\ \A x \in Numbers(n) : g[n][x] = f[n][x]
    /\ asked \subseteq asked' /\ accepted \subseteq accepted' /\ refused \subseteq refused'

\* What is unchanged as far as the table is concerned.
SameNode(n) ==
    /\ node'[n].my_dao_seqno = node[n].my_dao_seqno
    /\ node'[n].my_dao_transmissions = node[n].my_dao_transmissions
    /\ node'[n].timer \in {node[n].timer, NoNode}
SameRoute(n, t) ==
    /\ route'[n][t].nexthop = route[n][t].nexthop
    /\ route'[n][t].pending = route[n][t].pending
    /\ route'[n][t].seqno_in = route[n][t].seqno_in
    /\ route'[n][t].seqno_out = route[n][t].seqno_out

\* A timer that lapses, and an address that comes or goes, change nothing else.
LEMMA AsideKeeps ==
    ASSUME node \in [Node -> NodeState], NEW n \in Node, Lapse(n) \/ Readdress(n)
    PROVE  /\ mode' = mode /\ route' = route /\ link' = link /\ chan' = chan /\ moved' = moved
           /\ asked' = asked /\ accepted' = accepted /\ refused' = refused
           /\ answered' = answered
           /\ \A k \in Node : /\ SameNode(k) /\ node'[k].dao_sequence = node[k].dao_sequence
                               /\ node'[k].parent = node[k].parent
                               /\ node'[k].downward = node[k].downward
<1>1. /\ mode' = mode /\ route' = route /\ link' = link /\ chan' = chan /\ moved' = moved
      /\ asked' = asked /\ accepted' = accepted /\ refused' = refused /\ answered' = answered
  BY DEF Lapse, Readdress, history
<1>2. \/ node' = [node EXCEPT ![n].timer = NoNode]
      \/ node' = [node EXCEPT ![n].addressed = ~@]
  BY DEF Lapse, Readdress
<1>3. ASSUME NEW k \in Node
      PROVE  /\ SameNode(k) /\ node'[k].dao_sequence = node[k].dao_sequence
             /\ node'[k].parent = node[k].parent /\ node'[k].downward = node[k].downward
  <2>1. node[k] \in NodeState
    OBVIOUS
  <2>2. \/ node'[k] = node[k] \/ node'[k] = [node[k] EXCEPT !.timer = NoNode]
        \/ node'[k] = [node[k] EXCEPT !.addressed = ~@]
    BY <1>2
  <2>. QED
    BY <2>1, <2>2 DEF SameNode, NodeState
<1>. QED
  BY <1>1, <1>3

LEMMA CounterType ==
    ASSUME TypeOK, NEW n \in Node
    PROVE  /\ node[n].dao_sequence \in Nat /\ node[n].my_dao_seqno \in Nat
           /\ node[n].dao_sequence \in Seqs /\ node[n].my_dao_seqno \in Seqs
           /\ node[n].my_dao_transmissions \in Nat
           /\ \A x \in Numbers(n) : x \in Seqs /\ x \in Nat /\ x # 0
<1>1. node[n] \in NodeState
  BY DEF TypeOK
<1>2. /\ node[n].dao_sequence \in Seqs /\ node[n].my_dao_seqno \in Seqs
      /\ node[n].my_dao_transmissions \in 0 .. MaxTransmissions
  BY <1>1, NodeType
<1>. QED
  BY <1>2 DEF Seqs, Numbers

LEMMA CounterTypeNext ==
    ASSUME TypeOK', NEW n \in Node
    PROVE  /\ node'[n].dao_sequence \in Nat /\ node'[n].my_dao_seqno \in Nat
           /\ node'[n].dao_sequence \in Seqs /\ node'[n].my_dao_seqno \in Seqs
           /\ node'[n].my_dao_transmissions \in Nat
           /\ \A x \in Numbers(n)' : x \in Seqs /\ x \in Nat /\ x # 0
<1>1. node'[n] \in NodeState
  BY DEF TypeOK
<1>2. /\ node'[n].dao_sequence \in Seqs /\ node'[n].my_dao_seqno \in Seqs
      /\ node'[n].my_dao_transmissions \in 0 .. MaxTransmissions
  BY <1>1, NodeType
<1>. QED
  BY <1>2 DEF Seqs, Numbers

\* What agrees with the table agrees with a later one.
LEMMA LaterNumbers ==
    ASSUME TypeOK, TypeOK', NEW f, NEW g, Later(f, g), NEW n \in Node, NEW x \in Numbers(n)
    PROVE  x \in Numbers(n)' /\ g[n][x] = f[n][x]
<1>1. node[n].dao_sequence <= node'[n].dao_sequence /\ g[n][x] = f[n][x]
  BY DEF Later
<1>. QED
  BY <1>1, CounterType, CounterTypeNext DEF Numbers

LEMMA MessageLater ==
    ASSUME TypeOK, TypeOK', NEW f, NEW g, Later(f, g),
           NEW l \in Link, NEW m \in Messages, MessageOK(f, l, m)
    PROVE  MessageOK(g, l, m)'
<1>1. l[1] \in Node /\ l[2] \in Node
  BY DEF Link
<1>2. ASSUME m.type = "dao" PROVE DaoOK(g, l, m)'
  <2>1. DaoOK(f, l, m)
    BY <1>2 DEF MessageOK
  <2>2. m.target \in Node /\ m.reg \in Nat
    BY <1>2, MessageTypes, SeqType
  <2>3. m.seq \in Numbers(l[1])' /\ g[l[1]][m.seq] = f[l[1]][m.seq]
    BY <1>1, <2>1, LaterNumbers DEF DaoOK
  <2>4. node[m.target].dao_sequence <= node'[m.target].dao_sequence /\ asked \subseteq asked'
    BY <2>2 DEF Later
  <2>5. m.reg <= node'[m.target].dao_sequence
    BY <2>1, <2>2, <2>4, CounterType, CounterTypeNext DEF DaoOK
  <2>. QED
    BY <2>1, <2>3, <2>4, <2>5 DEF DaoOK
<1>3. ASSUME m.type = "ack" PROVE AckOK(g, l, m)'
  <2>1. AckOK(f, l, m)
    BY <1>3 DEF MessageOK
  <2>2. m.seq \in Numbers(l[2])' /\ g[l[2]][m.seq] = f[l[2]][m.seq]
    BY <1>1, <2>1, LaterNumbers DEF AckOK
  <2>3. accepted \subseteq accepted' /\ refused \subseteq refused'
    BY ZenonT(60) DEF Later
  <2>. QED
    BY <2>1, <2>2, <2>3 DEF AckOK
<1>. QED
  BY <1>2, <1>3 DEF MessageOK

LEMMA RouteLater ==
    ASSUME TypeOK, TypeOK', NEW f, NEW g, Later(f, g), NEW n \in Node, NEW t \in Node,
           RouteOK(f, n, t), SameRoute(n, t)
    PROVE  RouteOK(g, n, t)'
<1>. DEFINE rep == route[n][t]
<1>1. ASSUME rep.pending
      PROVE  /\ rep.nexthop \in Node
             /\ rep.seqno_out \in Numbers(n)'
             /\ rep.seqno_in \in 1 .. node'[rep.nexthop].dao_sequence
             /\ g[n][rep.seqno_out] = g[rep.nexthop][rep.seqno_in]
             /\ g[n][rep.seqno_out][1] = t
             /\ g[n][rep.seqno_out] # <<n, rep.seqno_out>>
  <2>1. /\ rep.nexthop \in Node
        /\ rep.seqno_out \in Numbers(n) /\ rep.seqno_in \in Numbers(rep.nexthop)
        /\ f[n][rep.seqno_out] = f[rep.nexthop][rep.seqno_in]
        /\ f[n][rep.seqno_out][1] = t
        /\ f[n][rep.seqno_out] # <<n, rep.seqno_out>>
    BY <1>1, ZenonT(60) DEF RouteOK
  <2>2. rep.seqno_out \in Numbers(n)' /\ g[n][rep.seqno_out] = f[n][rep.seqno_out]
    <3>. HIDE DEF rep
    <3>. QED
      BY <2>1, LaterNumbers
  <2>. HIDE DEF rep
  <2>3. /\ rep.seqno_in \in 1 .. node'[rep.nexthop].dao_sequence
        /\ g[rep.nexthop][rep.seqno_in] = f[rep.nexthop][rep.seqno_in]
    <3>1. PICK hop, in : hop = rep.nexthop /\ in = rep.seqno_in
      OBVIOUS
    <3>2. in \in Numbers(hop)' /\ g[hop][in] = f[hop][in]
      BY <2>1, <3>1, LaterNumbers
    <3>. QED
      BY <3>1, <3>2 DEF Numbers
  <2>4. /\ g[n][rep.seqno_out] = g[rep.nexthop][rep.seqno_in]
        /\ g[n][rep.seqno_out][1] = t
        /\ g[n][rep.seqno_out] # <<n, rep.seqno_out>>
    BY <2>1, <2>2, <2>3
  <2>. QED
    BY <2>1, <2>2, <2>3, <2>4, ZenonT(60)
<1>2. ASSUME ~rep.pending, rep.seqno_in # 0
      PROVE  /\ rep.nexthop \in Node
             /\ rep.seqno_in \in 1 .. node'[rep.nexthop].dao_sequence
             /\ g[rep.nexthop][rep.seqno_in] \in accepted'
  <2>1. /\ rep.nexthop \in Node /\ rep.seqno_in \in Numbers(rep.nexthop)
        /\ f[rep.nexthop][rep.seqno_in] \in accepted
    BY <1>2 DEF RouteOK
  <2>2. /\ \A y \in Node : \A x \in Numbers(y) :
           x \in 1 .. node'[y].dao_sequence /\ g[y][x] = f[y][x]
    BY LaterNumbers DEF Numbers
  <2>3. accepted \subseteq accepted'
    BY DEF Later
  <2>. QED
    BY <2>1, <2>2, <2>3
<1>. QED
  BY <1>1, <1>2 DEF RouteOK, SameRoute, Numbers

LEMMA NodeLater ==
    ASSUME TypeOK, TypeOK', NEW f, NEW g, Later(f, g), NEW n \in Node,
           NodeOK(f, n), SameNode(n)
    PROVE  NodeOK(g, n)'
<1>. DEFINE my == node[n].my_dao_seqno
<1>1. my <= node'[n].dao_sequence
  <2>1. my <= node[n].dao_sequence /\ node[n].dao_sequence <= node'[n].dao_sequence
    BY DEF NodeOK, Later
  <2>. QED
    BY <2>1, CounterType, CounterTypeNext
<1>2. node'[n].timer # NoNode \/ node'[n].my_dao_transmissions > 0 => my # 0
  BY DEF NodeOK, SameNode
<1>3. ASSUME my # 0 PROVE g[n][my] = <<n, my>> /\ <<n, my>> \in asked'
  <2>1. my \in Numbers(n) /\ f[n][my] = <<n, my>> /\ <<n, my>> \in asked
    BY <1>3, CounterType DEF NodeOK, Numbers
  <2>2. g[n][my] = f[n][my] /\ asked \subseteq asked'
    BY <2>1, LaterNumbers, SMTT(30) DEF Later
  <2>. QED
    BY <2>1, <2>2
<1>. QED
  BY <1>1, <1>2, <1>3 DEF NodeOK, SameNode

\* So a step has to answer for what it adds only.
LEMMA GoodLater ==
    ASSUME TypeOK, TypeOK', NEW f, NEW g, Good(f), Later(f, g),
           \A n \in Node : SameNode(n) \/ NodeOK(g, n)',
           \A l \in Link : \A m \in Msgs(chan', l) :
                m \in Msgs(chan, l) \/ MessageOK(g, l, m)',
           \A n, t \in Node : SameRoute(n, t) \/ RouteOK(g, n, t)'
    PROVE  Good(g)'
<1>1. ASSUME NEW n \in Node PROVE NodeOK(g, n)'
  BY NodeLater DEF Good
<1>2. ASSUME NEW l \in Link, NEW m \in Msgs(chan', l) PROVE MessageOK(g, l, m)'
  <2>1. CASE m \in Msgs(chan, l)
    <3>1. m \in Messages
      BY <2>1, ElementOfSeq DEF Msgs, TypeOK
    <3>2. MessageOK(f, l, m)
      BY <2>1 DEF Good
    <3>. QED
      BY <3>1, <3>2, MessageLater
  <2>. QED
    BY <2>1
<1>3. ASSUME NEW n \in Node, NEW t \in Node PROVE RouteOK(g, n, t)'
  BY RouteLater DEF Good
<1>. QED
  BY <1>1, <1>2, <1>3 DEF Good

\* The number a node takes next is new, and the table can be extended by it.
With(f, n, x, v) == [f EXCEPT ![n] = [f[n] EXCEPT ![x] = v]]

LEMMA NextNumber ==
    ASSUME TypeOK, NoWrap, NEW n \in Node, NEW f \in Tables, NEW v \in Node \X Seqs,
           NEW out, out = Incremented(node[n].dao_sequence), node'[n].dao_sequence = out,
           \A k \in Node \ {n} : node'[k].dao_sequence = node[k].dao_sequence,
           asked \subseteq asked', accepted \subseteq accepted', refused \subseteq refused'
    PROVE  /\ out = node[n].dao_sequence + 1 /\ out \in Seqs
           /\ out \in Nat /\ out # 0 /\ out \in Numbers(n)'
           /\ \E g \in Tables : g[n][out] = v /\ Later(f, g)
<1>. DEFINE g == With(f, n, out, v)
<1>1. node[n].dao_sequence \in Seqs /\ node[n].dao_sequence \in Nat /\ out \in Seqs
  BY CounterType, SeqType
<1>2. out >= node[n].dao_sequence
  BY DEF NoWrap
<1>3. out = node[n].dao_sequence + 1
  BY <1>1, <1>2 DEF Incremented
<1>4. out \in Numbers(n)' /\ out \in Nat /\ out # 0
  BY <1>1, <1>3 DEF Numbers
<1>5. f[n] \in [Seqs -> Node \X Seqs]
  BY DEF Tables
<1>6. [f[n] EXCEPT ![out] = v] \in [Seqs -> Node \X Seqs]
  BY <1>1, <1>5
<1>7. g \in Tables
  BY <1>6 DEF With, Tables
<1>8. g[n] = [f[n] EXCEPT ![out] = v] /\ \A k \in Node \ {n} : g[k] = f[k]
  BY DEF With, Tables
<1>9. g[n][out] = v /\ \A x \in Seqs \ {out} : g[n][x] = f[n][x]
  BY <1>1, <1>5, <1>8
<1>. HIDE DEF g
<1>10. ASSUME NEW k \in Node, NEW x \in Numbers(k) PROVE g[k][x] = f[k][x]
  <2>1. CASE k # n
    BY <1>8, <2>1
  <2>2. CASE k = n
    <3>1. x \in Seqs /\ x # out
      BY <1>1, <1>3, <2>2, CounterType DEF Numbers
    <3>. QED
      BY <1>9, <2>2, <3>1
  <2>. QED
    BY <2>1, <2>2
<1>11. ASSUME NEW k \in Node PROVE node[k].dao_sequence <= node'[k].dao_sequence
  <2>1. node[k].dao_sequence \in Nat
    BY CounterType
  <2>. QED
    BY <1>2, <2>1
<1>12. Later(f, g)
  BY <1>10, <1>11 DEF Later
<1>. QED
  BY <1>1, <1>3, <1>4, <1>7, <1>9, <1>12

LEMMA SameNumbers ==
    ASSUME TypeOK, NEW f,
           \A k \in Node : node'[k].dao_sequence = node[k].dao_sequence,
           asked \subseteq asked', accepted \subseteq accepted', refused \subseteq refused'
    PROVE  Later(f, f)
<1>1. ASSUME NEW k \in Node PROVE node[k].dao_sequence <= node'[k].dao_sequence
  BY CounterType
<1>. QED
  BY <1>1 DEF Later

LEMMA InitExplained == Init => Explained
<1>. SUFFICES ASSUME Init PROVE Explained
  OBVIOUS
<1>. DEFINE f == [n \in Node |-> [x \in Seqs |-> <<n, 0>>]]
<1>1. f \in Tables
  BY SeqType DEF Tables
<1>2. ASSUME NEW n \in Node PROVE NodeOK(f, n)
  BY DEF Init, NodeOK
<1>3. ASSUME NEW l \in Link PROVE Msgs(chan, l) = {}
  BY DEF Init, Msgs
<1>4. ASSUME NEW n \in Node, NEW t \in Node PROVE RouteOK(f, n, t)
  BY DEF Init, NoRoute, RouteOK
<1>. QED
  BY <1>1, <1>2, <1>3, <1>4 DEF Explained, Good

-----------------------------------------------------------------------------
(* The registering node keeps the table.                                   *)

LEMMA DaoOutputGood ==
    ASSUME TypeOK, TypeOK', NoWrap, NEW f \in Tables, Good(f), NEW n \in Node, DaoOutput(n)
    PROVE  Explained'
<1>. DEFINE out == Incremented(node[n].dao_sequence)
            p == node[n].parent
            v == <<n, out>>
<1>1. /\ node'[n] = [node[n] EXCEPT !.dao_sequence = out, !.my_dao_seqno = out,
                                    !.my_dao_transmissions = 1, !.timer = p]
      /\ \A k \in Node \ {n} : node'[k] = node[k]
      /\ chan' = Sent(chan, n, Destination(p), Dao(n, out, FALSE, p, out))
      /\ p \in Node
      /\ asked' = asked \union {<<n, out>>}
      /\ route' = route /\ accepted' = accepted /\ refused' = refused
  BY NodeType DEF DaoOutput, Registering, TypeOK
<1>2. /\ node'[n].dao_sequence = out /\ node'[n].my_dao_seqno = out
      /\ out \in Seqs
  BY <1>1, CounterType, SeqType DEF TypeOK, NodeState
<1>3. v \in Node \X Seqs
  BY <1>2
<1>. HIDE DEF p, v
<1>4. /\ out \in Nat /\ out # 0 /\ out \in Numbers(n)'
      /\ \E g \in Tables : g[n][out] = v /\ Later(f, g)
  <2>1. out = Incremented(node[n].dao_sequence)
    OBVIOUS
  <2>2. /\ \A k \in Node \ {n} : node'[k].dao_sequence = node[k].dao_sequence
        /\ asked \subseteq asked' /\ accepted \subseteq accepted' /\ refused \subseteq refused'
    BY <1>1
  <2>. HIDE DEF out
  <2>. QED
    BY <1>2, <1>3, <2>1, <2>2, NextNumber
<1>. USE DEF v
<1>. HIDE DEF out
<1>5. PICK g \in Tables : g[n][out] = <<n, out>> /\ Later(f, g)
  BY <1>4
<1>6. ASSUME NEW k \in Node PROVE SameNode(k) \/ NodeOK(g, k)'
  <2>1. CASE k # n
    BY <1>1, <2>1 DEF SameNode
  <2>2. CASE k = n
    <3>1. out <= out /\ <<n, out>> \in asked'
      BY <1>1, <1>4
    <3>. QED
      BY <1>2, <1>4, <1>5, <2>2, <3>1 DEF NodeOK
  <2>. QED
    BY <2>1, <2>2
<1>7. ASSUME NEW l \in Link, NEW m \in Msgs(chan', l)
      PROVE  m \in Msgs(chan, l) \/ MessageOK(g, l, m)'
  <2>1. \/ m \in Msgs(chan, l)
        \/ l[1] = n /\ l[2] = Destination(p) /\ m = Dao(n, out, FALSE, p, out)
    <3>. DEFINE dao == Dao(n, out, FALSE, p, out)
    <3>1. dao \in Messages
      BY <1>1, <1>2, MessageTypes
    <3>2. chan \in [Link -> Seq(Messages)]
      BY DEF TypeOK
    <3>3. chan' = Sent(chan, n, Destination(p), dao)
      BY <1>1
    <3>. HIDE DEF dao
    <3>4. m \in Msgs(chan, l) \/ (l[1] = n /\ l[2] = Destination(p) /\ m = dao)
      <4>. HIDE NodeAssumption, BoundAssumption
      <4>. QED
        BY <3>1, <3>2, <3>3, SentMsgs, SMTT(30)
    <3>. QED
      BY <3>4 DEF dao
  <2>2. ASSUME l[1] = n, m = Dao(n, out, FALSE, p, out)
        PROVE  MessageOK(g, l, m)'
    <3>1. m.type = "dao" /\ m.seq = out /\ m.target = n /\ m.reg = out /\ m.nopath = FALSE
      BY <2>2 DEF Dao
    <3>. USE DEF About
    <3>2. DaoOK(g, l, m)'
      <4>1. m.seq \in Numbers(l[1])' /\ g[l[1]][m.seq] = About(m)
        BY <1>4, <1>5, <2>2, <3>1
      <4>2. m.reg <= node'[m.target].dao_sequence
        BY <1>2, <1>4, <3>1
      <4>3. About(m) \in asked'
        BY <1>1, <3>1
      <4>. QED
        BY <4>1, <4>2, <4>3 DEF DaoOK
    <3>. QED
      BY <3>1, <3>2 DEF MessageOK
  <2>. QED
    BY <2>1, <2>2
<1>8. \A k, t \in Node : SameRoute(k, t)
  BY <1>1 DEF SameRoute
<1>9. Good(g)'
  BY <1>5, <1>6, <1>7, <1>8, GoodLater
<1>. QED
  BY <1>9 DEF Explained

LEMMA RetransmitGood ==
    ASSUME TypeOK, TypeOK', NEW f \in Tables, Good(f), NEW n \in Node, Retransmit(n)
    PROVE  Explained'
<1>. DEFINE seq == node[n].my_dao_seqno
            p == node[n].timer
<1>1. /\ node'[n] = [node[n] EXCEPT !.my_dao_transmissions = @ + 1]
      /\ \A k \in Node \ {n} : node'[k] = node[k]
      /\ chan' = Sent(chan, n, Destination(p), Dao(n, seq, FALSE, p, seq))
      /\ p \in Node
      /\ route' = route /\ asked' = asked /\ accepted' = accepted /\ refused' = refused
  BY NodeType DEF Retransmit, TypeOK, history
<1>2. /\ node'[n].dao_sequence = node[n].dao_sequence
      /\ node'[n].my_dao_seqno = seq /\ node'[n].timer = p
  BY <1>1 DEF TypeOK, NodeState
<1>3. Later(f, f)
  BY <1>1, <1>2, SameNumbers
<1>4. NodeOK(f, n) /\ p # NoNode
  BY DEF Good, Retransmit
<1>5. /\ seq \in Nat /\ seq # 0 /\ seq <= node[n].dao_sequence /\ seq \in Numbers(n)
      /\ f[n][seq] = <<n, seq>> /\ <<n, seq>> \in asked /\ seq \in Seqs
  BY <1>4, CounterType DEF NodeOK, Numbers
<1>. HIDE DEF seq, p
<1>6. ASSUME NEW k \in Node PROVE SameNode(k) \/ NodeOK(f, k)'
  <2>1. CASE k # n
    BY <1>1, <2>1 DEF SameNode
  <2>2. CASE k = n
    BY <1>1, <1>2, <1>5, <2>2 DEF NodeOK
  <2>. QED
    BY <2>1, <2>2
<1>7. ASSUME NEW l \in Link, NEW m \in Msgs(chan', l)
      PROVE  m \in Msgs(chan, l) \/ MessageOK(f, l, m)'
  <2>1. \/ m \in Msgs(chan, l)
        \/ l[1] = n /\ l[2] = Destination(p) /\ m = Dao(n, seq, FALSE, p, seq)
    <3>. DEFINE dao == Dao(n, seq, FALSE, p, seq)
    <3>1. dao \in Messages
      BY <1>1, <1>5, MessageTypes
    <3>2. chan \in [Link -> Seq(Messages)]
      BY DEF TypeOK
    <3>3. chan' = Sent(chan, n, Destination(p), dao)
      BY <1>1
    <3>. HIDE DEF dao
    <3>4. m \in Msgs(chan, l) \/ (l[1] = n /\ l[2] = Destination(p) /\ m = dao)
      <4>. HIDE NodeAssumption, BoundAssumption
      <4>. QED
        BY <3>1, <3>2, <3>3, SentMsgs, SMTT(30)
    <3>. QED
      BY <3>4 DEF dao
  <2>2. ASSUME l[1] = n, m = Dao(n, seq, FALSE, p, seq)
        PROVE  MessageOK(f, l, m)'
    <3>1. m.type = "dao" /\ m.seq = seq /\ m.target = n /\ m.reg = seq /\ m.nopath = FALSE
      BY <2>2 DEF Dao
    <3>. USE DEF About
    <3>2. DaoOK(f, l, m)'
      BY <1>1, <1>2, <1>5, <2>2, <3>1, ZenonT(60) DEF DaoOK, Numbers
    <3>. QED
      BY <3>1, <3>2 DEF MessageOK
  <2>. QED
    BY <2>1, <2>2
<1>8. \A k, t \in Node : SameRoute(k, t)
  BY <1>1 DEF SameRoute
<1>9. Good(f)'
  BY <1>3, <1>6, <1>7, <1>8, GoodLater
<1>. QED
  BY <1>9 DEF Explained

\* A node that changes its parent numbers the No-Path DAO too.
LEMMA MoveGood ==
    ASSUME TypeOK, TypeOK', NoWrap, NEW f \in Tables, Good(f), NEW n \in Node,
           NEW q \in Node, Move(n, q)
    PROVE  Explained'
<1>. DEFINE out == Incremented(node[n].dao_sequence)
            old == node[n].parent
            v == <<n, out>>
<1>1. route' = route /\ asked' = asked /\ accepted' = accepted /\ refused' = refused
  BY DEF Move
<1>2. \A k, t \in Node : SameRoute(k, t)
  BY <1>1 DEF SameRoute
<1>3. CASE old = NoNode \/ ~node[n].addressed
  <2>1. /\ node'[n] = [node[n] EXCEPT !.parent = q] /\ chan' = chan
        /\ \A k \in Node \ {n} : node'[k] = node[k]
    <3>1. node' = [node EXCEPT ![n].parent = q] /\ chan' = chan
      BY <1>3 DEF Move
    <3>2. node \in [Node -> NodeState]
      BY DEF TypeOK
    <3>. QED
      BY <3>1, <3>2
  <2>2. \A k \in Node : SameNode(k) /\ node'[k].dao_sequence = node[k].dao_sequence
    <3>1. SameNode(n) /\ node'[n].dao_sequence = node[n].dao_sequence
      BY <2>1 DEF SameNode, TypeOK, NodeState
    <3>. QED
      BY <2>1, <3>1 DEF SameNode
  <2>3. Later(f, f)
    BY <1>1, <2>2, SameNumbers
  <2>4. Good(f)'
    BY <1>2, <2>1, <2>2, <2>3, GoodLater
  <2>. QED
    BY <2>4 DEF Explained
<1>4. CASE old # NoNode /\ node[n].addressed
  <2>1. /\ node'[n] = [node[n] EXCEPT !.parent = q, !.dao_sequence = out]
        /\ \A k \in Node \ {n} : node'[k] = node[k]
        /\ chan' = Sent(chan, n, Destination(old), Dao(n, out, TRUE, old, out))
        /\ old \in Node
    <3>1. /\ node' = [node EXCEPT ![n].parent = q, ![n].dao_sequence = out]
          /\ chan' = Sent(chan, n, Destination(old), Dao(n, out, TRUE, old, out))
      BY <1>4 DEF Move
    <3>2. node \in [Node -> NodeState]
      BY DEF TypeOK
    <3>3. old \in Node
      BY <1>4, <3>2, NodeType
    <3>. QED
      BY <3>1, <3>2, <3>3
  <2>2. out \in Seqs /\ node'[n].dao_sequence = out
    BY <2>1, CounterType, SeqType DEF TypeOK, NodeState
  <2>3. v \in Node \X Seqs
    BY <2>2
  <2>. HIDE DEF old, v
  <2>4. /\ out \in Nat /\ out # 0 /\ out \in Numbers(n)'
        /\ \E g \in Tables : g[n][out] = v /\ Later(f, g)
    <3>1. out = Incremented(node[n].dao_sequence)
      OBVIOUS
    <3>2. /\ \A k \in Node \ {n} : node'[k].dao_sequence = node[k].dao_sequence
          /\ asked \subseteq asked' /\ accepted \subseteq accepted' /\ refused \subseteq refused'
      BY <1>1, <2>1
    <3>. HIDE DEF out
    <3>. QED
      BY <2>2, <2>3, <3>1, <3>2, NextNumber
  <2>. USE DEF v
  <2>5. \A k \in Node : SameNode(k)
    <3>1. SameNode(n)
      BY <2>1 DEF SameNode, TypeOK, NodeState
    <3>. QED
      BY <2>1, <3>1 DEF SameNode
  <2>. HIDE DEF out
  <2>6. PICK g \in Tables : g[n][out] = <<n, out>> /\ Later(f, g)
    BY <2>4
  <2>7. ASSUME NEW l \in Link, NEW m \in Msgs(chan', l)
        PROVE  m \in Msgs(chan, l) \/ MessageOK(g, l, m)'
    <3>1. \/ m \in Msgs(chan, l)
          \/ l[1] = n /\ l[2] = Destination(old) /\ m = Dao(n, out, TRUE, old, out)
      <4>. DEFINE dao == Dao(n, out, TRUE, old, out)
      <4>1. dao \in Messages
        BY <2>1, <2>2, MessageTypes
      <4>2. chan \in [Link -> Seq(Messages)]
        BY DEF TypeOK
      <4>3. chan' = Sent(chan, n, Destination(old), dao)
        BY <2>1
      <4>. HIDE DEF dao
      <4>4. m \in Msgs(chan, l) \/ (l[1] = n /\ l[2] = Destination(old) /\ m = dao)
        <5>. HIDE NodeAssumption, BoundAssumption
        <5>. QED
          BY <4>1, <4>2, <4>3, SentMsgs, SMTT(30)
      <4>. QED
        BY <4>4 DEF dao
    <3>2. ASSUME l[1] = n, m = Dao(n, out, TRUE, old, out)
          PROVE  MessageOK(g, l, m)'
      <4>1. m.type = "dao" /\ m.seq = out /\ m.target = n /\ m.reg = out /\ m.nopath = TRUE
        BY <3>2 DEF Dao
      <4>. USE DEF About
      <4>2. DaoOK(g, l, m)'
        <5>1. m.seq \in Numbers(l[1])' /\ g[l[1]][m.seq] = About(m)
          BY <2>4, <2>6, <3>2, <4>1
        <5>2. m.reg <= node'[m.target].dao_sequence
          BY <2>2, <2>4, <4>1
        <5>. QED
          BY <4>1, <5>1, <5>2 DEF DaoOK
      <4>. QED
        BY <4>1, <4>2 DEF MessageOK
    <3>. QED
      BY <3>1, <3>2
  <2>8. Good(g)'
    BY <1>2, <2>5, <2>6, <2>7, GoodLater
  <2>. QED
    BY <2>8 DEF Explained
<1>. QED
  BY <1>3, <1>4

\* What takes no number, sends nothing and adds no route keeps the table.
LEMMA QuietGood ==
    ASSUME TypeOK, TypeOK', NEW f \in Tables, Good(f),
           \A k \in Node : SameNode(k) /\ node'[k].dao_sequence = node[k].dao_sequence,
           \A l \in Link : Msgs(chan', l) \subseteq Msgs(chan, l),
           \A k, t \in Node : SameRoute(k, t) \/ route'[k][t] = NoRoute,
           asked \subseteq asked', accepted \subseteq accepted', refused \subseteq refused'
    PROVE  Explained'
<1>1. Later(f, f)
  BY SameNumbers
<1>2. ASSUME NEW k \in Node, NEW t \in Node, route'[k][t] = NoRoute PROVE RouteOK(f, k, t)'
  BY <1>2 DEF RouteOK, NoRoute
<1>3. Good(f)'
  BY <1>1, <1>2, GoodLater
<1>. QED
  BY <1>3 DEF Explained

-----------------------------------------------------------------------------
(* The routers keep the table.                                             *)

\* What is known of the message a handler takes.
LEMMA ArrivalGood ==
    ASSUME TypeOK, NEW f \in Tables, Good(f), NEW s \in Node, NEW n \in Node, s # n,
           chan[<<s, n>>] # <<>>, NEW m, m = Head(chan[<<s, n>>])
    PROVE  /\ m \in Messages
           /\ Received(s, n) \in [Link -> Seq(Messages)]
           /\ \A l \in Link : Msgs(Received(s, n), l) \subseteq Msgs(chan, l)
           /\ m.type = "dao" => /\ m.seq \in Numbers(s)
                                /\ f[s][m.seq] = About(m)
                                /\ m.reg <= node[m.target].dao_sequence
                                /\ ~m.nopath => About(m) \in asked
                                /\ m.target \in Node /\ m.reg \in Seqs /\ m.reg \in Nat
           /\ m.type = "ack" => /\ m.seq \in Numbers(n)
                                /\ m.ok => f[n][m.seq] \in accepted
                                /\ ~m.ok => f[n][m.seq] \in refused
<1>. DEFINE l == <<s, n>>
<1>1. /\ l \in Link /\ m \in Messages /\ m \in Msgs(chan, l)
      /\ Received(s, n) \in [Link -> Seq(Messages)]
      /\ \A k \in Link : Msgs(Received(s, n), k) \subseteq Msgs(chan, k)
  BY ArrivalType
<1>2. l[1] = s /\ l[2] = n
  OBVIOUS
<1>. HIDE DEF l
<1>3. MessageOK(f, l, m)
  BY <1>1 DEF Good
<1>4. ASSUME m.type = "dao"
      PROVE  /\ m.seq \in Numbers(s)
             /\ f[s][m.seq] = About(m)
             /\ m.reg <= node[m.target].dao_sequence
             /\ ~m.nopath => About(m) \in asked
             /\ m.target \in Node /\ m.reg \in Seqs /\ m.reg \in Nat
  <2>1. DaoOK(f, l, m)
    BY <1>3, <1>4 DEF MessageOK
  <2>2. m.target \in Node /\ m.reg \in Seqs /\ m.reg \in Nat
    BY <1>1, <1>4, MessageTypes, SeqType
  <2>. QED
    BY <1>2, <2>1, <2>2 DEF DaoOK
<1>5. ASSUME m.type = "ack"
      PROVE  /\ m.seq \in Numbers(n)
             /\ m.ok => f[n][m.seq] \in accepted
             /\ ~m.ok => f[n][m.seq] \in refused
  <2>1. AckOK(f, l, m)
    BY <1>3, <1>5 DEF MessageOK
  <2>. QED
    BY <1>2, <2>1 DEF AckOK
<1>. QED
  BY <1>1, <1>4, <1>5

\* A DAO that is passed on with the number its router has given it.
LEMMA PassedOnGood ==
    ASSUME TypeOK, TypeOK', NEW f, NEW g, Later(f, g), NEW m \in Messages,
           m.type = "dao", NEW n \in Node, NEW l \in Link, l[1] = n,
           NEW out, out \in Numbers(n)', g[n][out] = About(m),
           m.reg <= node[m.target].dao_sequence,
           ~m.nopath => About(m) \in asked,
           NEW x, x = [m EXCEPT !.seq = out]
    PROVE  MessageOK(g, l, x)'
<1>1. m \in DaoMessages
  BY MessageKinds
<1>2. x.type = "dao" /\ x.seq = out /\ x.target = m.target /\ x.reg = m.reg
      /\ x.nopath = m.nopath
      /\ About(x) = About(m)
  BY <1>1 DEF DaoMessages, About
<1>3. m.target \in Node /\ m.reg \in Nat
  BY MessageTypes, SeqType
<1>4. m.reg <= node'[m.target].dao_sequence
  BY <1>3, CounterType, CounterTypeNext DEF Later
<1>5. ~m.nopath => About(m) \in asked'
  BY DEF Later
<1>6. DaoOK(g, l, x)'
  BY <1>2, <1>4, <1>5 DEF DaoOK
<1>. QED
  BY <1>2, <1>6 DEF MessageOK

\* An answer to a number that stands for what has been installed, or refused.
LEMMA AnswerGood ==
    ASSUME TypeOK, TypeOK', NEW f, NEW g, Later(f, g), NEW s \in Node,
           NEW seq \in Numbers(s), NEW ok \in BOOLEAN,
           ok => f[s][seq] \in accepted', ~ok => f[s][seq] \in refused',
           NEW l \in Link, l[2] = s, NEW x, x.type = "ack", x.seq = seq, x.ok = ok
    PROVE  MessageOK(g, l, x)'
<1>1. seq \in Numbers(s)' /\ g[s][seq] = f[s][seq]
  BY LaterNumbers
<1>2. AckOK(g, l, x)'
  BY <1>1 DEF AckOK
<1>. QED
  BY <1>2 DEF MessageOK

LEMMA DaoRefusedGood ==
    ASSUME TypeOK, TypeOK', NEW f \in Tables, Good(f), NEW s \in Node, NEW n \in Node,
           s # n, DaoRefused(s, n)
    PROVE  Explained'
<1>. DEFINE m == Head(chan[<<s, n>>])
            ack == Ack(m.seq, FALSE)
<1>1. /\ chan[<<s, n>>] # <<>> /\ m.type = "dao" /\ ~m.nopath
      /\ chan' = Sent(Received(s, n), n, s, ack)
      /\ refused' = refused \union {About(m)}
      /\ node' = node /\ route' = route /\ asked' = asked /\ accepted' = accepted
  BY DEF DaoRefused, Arrives, About
<1>2. /\ m \in Messages
      /\ Received(s, n) \in [Link -> Seq(Messages)]
      /\ \A l \in Link : Msgs(Received(s, n), l) \subseteq Msgs(chan, l)
      /\ m.seq \in Numbers(s) /\ f[s][m.seq] = About(m)
  <2>1. m = Head(chan[<<s, n>>])
    OBVIOUS
  <2>2. chan[<<s, n>>] # <<>> /\ m.type = "dao"
    BY <1>1
  <2>. HIDE DEF m, ack
  <2>3. /\ m \in Messages
        /\ Received(s, n) \in [Link -> Seq(Messages)]
        /\ \A l \in Link : Msgs(Received(s, n), l) \subseteq Msgs(chan, l)
    BY <2>1, <2>2, ArrivalType
  <2>4. m.seq \in Numbers(s) /\ f[s][m.seq] = About(m)
    BY <2>1, <2>2, ArrivalGood
  <2>. QED
    BY <2>3, <2>4
<1>3. ack.type = "ack" /\ ack.seq = m.seq /\ ack.ok = FALSE
  BY DEF Ack
<1>4. ack \in Messages
  BY <1>2, MessageTypes
<1>. HIDE DEF m, ack
<1>5. Later(f, f)
  BY <1>1, SameNumbers
<1>6. f[s][m.seq] \in refused'
  BY <1>1, <1>2
<1>7. ASSUME NEW l \in Link, NEW x \in Msgs(chan', l)
      PROVE  x \in Msgs(chan, l) \/ MessageOK(f, l, x)'
  <2>1. x \in Msgs(Received(s, n), l) \/ (l[1] = n /\ l[2] = s /\ x = ack)
    <3>1. chan' = Sent(Received(s, n), n, s, ack)
      BY <1>1
    <3>2. Received(s, n) \in [Link -> Seq(Messages)]
      BY <1>2
    <3>. QED
      <4>. HIDE NodeAssumption, BoundAssumption
      <4>. QED
        BY <1>4, <3>1, <3>2, SentMsgs, SMTT(30)
  <2>2. ASSUME l[2] = s, x = ack PROVE MessageOK(f, l, x)'
    BY <1>2, <1>3, <1>5, <1>6, <2>2, AnswerGood
  <2>. QED
    BY <1>2, <2>1, <2>2
<1>8. /\ \A k \in Node : SameNode(k)
      /\ \A k, t \in Node : SameRoute(k, t)
  BY <1>1 DEF SameNode, SameRoute
<1>9. Good(f)'
  BY <1>5, <1>7, <1>8, GoodLater
<1>. QED
  BY <1>9 DEF Explained

LEMMA DaoInputNonStoringGood ==
    ASSUME TypeOK, TypeOK', NEW f \in Tables, Good(f), NEW s \in Node,
           NEW n \in Node, n = Root, s # n, DaoInputNonStoring(s)
    PROVE  Explained'
<1>. DEFINE m == Head(chan[<<s, n>>])
            ack == Ack(m.seq, TRUE)
<1>1. /\ chan[<<s, n>>] # <<>> /\ m.type = "dao"
      /\ node' = node /\ route' = route /\ asked' = asked /\ refused' = refused
  BY DEF DaoInputNonStoring, Arrives
<1>2. /\ m \in Messages
      /\ Received(s, n) \in [Link -> Seq(Messages)]
      /\ \A l \in Link : Msgs(Received(s, n), l) \subseteq Msgs(chan, l)
      /\ m.seq \in Numbers(s) /\ f[s][m.seq] = About(m)
  <2>1. m = Head(chan[<<s, n>>])
    OBVIOUS
  <2>2. chan[<<s, n>>] # <<>> /\ m.type = "dao"
    BY <1>1
  <2>. HIDE DEF m
  <2>. QED
    BY <2>1, <2>2, ArrivalGood, SMTT(30)
<1>3. /\ \A k \in Node : SameNode(k) /\ node'[k].dao_sequence = node[k].dao_sequence
      /\ \A k, t \in Node : SameRoute(k, t)
  BY <1>1 DEF SameNode, SameRoute
<1>4. CASE m.nopath \/ ~LinkFits(m.target)
  <2>1. chan' = Received(s, n) /\ accepted' = accepted
    BY <1>4 DEF DaoInputNonStoring
  <2>. QED
    BY <1>1, <1>2, <1>3, <2>1, QuietGood
<1>5. CASE ~m.nopath /\ LinkFits(m.target)
  <2>1. /\ chan' = Sent(Received(s, n), n, s, ack)
        /\ accepted' = accepted \union {About(m)}
    BY <1>5 DEF DaoInputNonStoring, About
  <2>2. ack.type = "ack" /\ ack.seq = m.seq /\ ack.ok = TRUE
    BY DEF Ack
  <2>3. ack \in Messages
    BY <1>2, MessageTypes
  <2>. HIDE DEF m, ack
  <2>4. Later(f, f)
    BY <1>1, <1>3, <2>1, SameNumbers
  <2>5. f[s][m.seq] \in accepted'
    BY <1>2, <2>1
  <2>6. ASSUME NEW l \in Link, NEW x \in Msgs(chan', l)
        PROVE  x \in Msgs(chan, l) \/ MessageOK(f, l, x)'
    <3>1. x \in Msgs(Received(s, n), l) \/ (l[1] = n /\ l[2] = s /\ x = ack)
      <4>. HIDE NodeAssumption, BoundAssumption
      <4>. QED
        BY <1>2, <2>1, <2>3, SentMsgs, SMTT(30)
    <3>2. ASSUME l[2] = s, x = ack PROVE MessageOK(f, l, x)'
      BY <1>2, <2>2, <2>4, <2>5, <3>2, AnswerGood
    <3>. QED
      BY <1>2, <3>1, <3>2
  <2>7. Good(f)'
    BY <1>3, <2>4, <2>6, GoodLater
  <2>. QED
    BY <2>7 DEF Explained
<1>. QED
  BY <1>4, <1>5

\* The answer a router passes on is about the same registration by both numbers.
LEMMA ForwardAckGood ==
    ASSUME TypeOK, TypeOK', NEW f \in Tables, Good(f), NEW s \in Node, NEW n \in Node,
           s # n, ForwardAck(s, n)
    PROVE  Explained'
<1>. DEFINE m == Head(chan[<<s, n>>])
<1>1. PICK t \in AckFor(n, m.seq) :
         /\ chan' = Sent(Received(s, n), n, route[n][t].nexthop, NumberBelow(route[n][t], m))
         /\ route' = [route EXCEPT ![n][t] =
                IF m.ok THEN [route[n][t] EXCEPT !.pending = FALSE] ELSE NoRoute]
  BY DEF ForwardAck
<1>2. /\ chan[<<s, n>>] # <<>> /\ m.type = "ack" /\ node' = node
      /\ asked' = asked /\ accepted' = accepted /\ refused' = refused
  BY DEF ForwardAck, Arrives, history
<1>3. t \in Node /\ route[n][t].pending /\ route[n][t].seqno_out = m.seq
  BY DEF AckFor
<1>4. route[n][t] \in Entries
  BY <1>3, EntryType
<1>5. PICK hop, in : hop = route[n][t].nexthop /\ in = route[n][t].seqno_in
  OBVIOUS
<1>6. /\ m \in Messages
      /\ Received(s, n) \in [Link -> Seq(Messages)]
      /\ \A l \in Link : Msgs(Received(s, n), l) \subseteq Msgs(chan, l)
      /\ m.seq \in Numbers(n)
      /\ m.ok => f[n][m.seq] \in accepted
      /\ ~m.ok => f[n][m.seq] \in refused
      /\ m.ok \in BOOLEAN
  BY <1>2, ArrivalGood, MessageTypes, ZenonT(60)
<1>7. /\ hop \in Node /\ in \in Numbers(hop) /\ f[n][m.seq] = f[hop][in]
  <2>1. RouteOK(f, n, t)
    BY <1>3 DEF Good
  <2>. QED
    BY <1>3, <1>5, <2>1 DEF RouteOK
<1>8. in \in Seqs
  BY <1>4, <1>5, EntryType
<1>. DEFINE ack == NumberBelow(route[n][t], m)
<1>9. ack \in Messages /\ ack.type = "ack" /\ ack.seq = in /\ ack.ok = m.ok
  <2>1. m \in AckMessages /\ ack = [m EXCEPT !.seq = in]
    BY <1>2, <1>5, <1>6, MessageKinds DEF NumberBelow
  <2>2. ack \in AckMessages /\ ack.type = "ack" /\ ack.seq = in /\ ack.ok = m.ok
    BY <1>8, <2>1 DEF AckMessages
  <2>. QED
    BY <2>2, MessageKinds
<1>10. Later(f, f)
  BY <1>2, SameNumbers
<1>11. chan' = Sent(Received(s, n), n, hop, ack)
  BY <1>1, <1>5
<1>. HIDE DEF ack
<1>12. ASSUME NEW l \in Link, NEW x \in Msgs(chan', l)
       PROVE  x \in Msgs(chan, l) \/ MessageOK(f, l, x)'
  <2>1. x \in Msgs(Received(s, n), l) \/ (l[1] = n /\ l[2] = hop /\ x = ack)
    <3>1. Received(s, n) \in [Link -> Seq(Messages)] /\ ack \in Messages
      BY <1>6, <1>9
    <3>. HIDE DEF m
    <3>. QED
      <4>. HIDE NodeAssumption, BoundAssumption
      <4>. QED
        BY <3>1, <1>11, SentMsgs, SMTT(30)
  <2>2. ASSUME l[2] = hop, x = ack PROVE MessageOK(f, l, x)'
    <3>1. m.ok => f[hop][in] \in accepted'
      BY <1>2, <1>6, <1>7
    <3>2. ~m.ok => f[hop][in] \in refused'
      BY <1>2, <1>6, <1>7
    <3>3. x.type = "ack" /\ x.seq = in /\ x.ok = m.ok
      BY <1>9, <2>2
    <3>. HIDE DEF m
    <3>. QED
      BY <1>6, <1>7, <1>10, <2>2, <3>1, <3>2, <3>3, AnswerGood
  <2>. QED
    BY <1>6, <2>1, <2>2
<1>13. ASSUME NEW k \in Node, NEW u \in Node PROVE SameRoute(k, u) \/ RouteOK(f, k, u)'
  <2>1. CASE ~(k = n /\ u = t)
    <3>1. route'[k][u] = route[k][u]
      BY <1>1, <1>3, <2>1 DEF TypeOK
    <3>. QED
      BY <3>1 DEF SameRoute
  <2>2. CASE k = n /\ u = t /\ ~m.ok
    <3>1. route'[n][t] = NoRoute
      BY <1>1, <1>3, <2>2 DEF TypeOK
    <3>. QED
      BY <2>2, <3>1 DEF RouteOK, NoRoute
  <2>3. CASE k = n /\ u = t /\ m.ok
    <3>1. route'[n][t] = [route[n][t] EXCEPT !.pending = FALSE]
      BY <1>1, <1>3, <2>3 DEF TypeOK
    <3>2. /\ ~route'[n][t].pending /\ route'[n][t].nexthop = hop
          /\ route'[n][t].seqno_in = in
      BY <1>4, <1>5, <3>1 DEF Entries
    <3>3. f[hop][in] \in accepted'
      BY <1>2, <1>6, <1>7, <2>3
    <3>4. in \in 1 .. node'[hop].dao_sequence
      BY <1>2, <1>7 DEF Numbers
    <3>. QED
      BY <1>7, <2>3, <3>2, <3>3, <3>4 DEF RouteOK, Numbers
  <2>. QED
    BY <2>1, <2>2, <2>3
<1>14. \A k \in Node : SameNode(k)
  BY <1>2 DEF SameNode
<1>15. Good(f)'
  BY <1>10, <1>12, <1>13, <1>14, GoodLater
<1>. QED
  BY <1>15 DEF Explained

\* A router that passes a No-Path DAO on gives it a number, and the entry with it.
LEMMA NoPathInputGood ==
    ASSUME TypeOK, TypeOK', NoWrap, NEW f \in Tables, Good(f), NEW s \in Node,
           NEW n \in Node, s # n, NoPathInput(s, n)
    PROVE  Explained'
<1>. DEFINE m   == Head(chan[<<s, n>>])
            rep == route[n][m.target]
            p   == node[n].parent
            out == Incremented(node[n].dao_sequence)
            v   == About(m)
<1>1. /\ chan[<<s, n>>] # <<>> /\ m.type = "dao" /\ m.nopath
      /\ asked' = asked /\ accepted' = accepted /\ refused' = refused
  BY DEF NoPathInput, Arrives, history
<1>2. /\ m \in Messages
      /\ Received(s, n) \in [Link -> Seq(Messages)]
      /\ \A l \in Link : Msgs(Received(s, n), l) \subseteq Msgs(chan, l)
      /\ m.seq \in Numbers(s) /\ f[s][m.seq] = About(m)
      /\ m.target \in Node /\ m.reg <= node[m.target].dao_sequence
      /\ m.reg \in Seqs /\ m.reg \in Nat
  <2>1. m = Head(chan[<<s, n>>])
    OBVIOUS
  <2>2. chan[<<s, n>>] # <<>> /\ m.type = "dao"
    BY <1>1
  <2>. HIDE DEF m, rep, p, out, v
  <2>3. /\ m \in Messages
        /\ Received(s, n) \in [Link -> Seq(Messages)]
        /\ \A l \in Link : Msgs(Received(s, n), l) \subseteq Msgs(chan, l)
    BY <2>1, <2>2, ArrivalType
  <2>4. m.seq \in Numbers(s) /\ f[s][m.seq] = About(m)
    BY <2>1, <2>2, ArrivalGood
  <2>5. m.target \in Node /\ m.reg <= node[m.target].dao_sequence
        /\ m.reg \in Seqs /\ m.reg \in Nat
    BY <2>1, <2>2, ArrivalGood
  <2>. QED
    BY <2>3, <2>4, <2>5
<1>3. rep \in Entries
  BY <1>2, EntryType
<1>4. CASE ~(IsHop(rep, s) /\ p # NoNode)
  <2>1. chan' = Received(s, n) /\ node' = node
    BY <1>4, ZenonT(60) DEF NoPathInput
  <2>2. \/ route' = [route EXCEPT ![n][m.target].nopath = TRUE]
        \/ route' = route
    BY <1>4 DEF NoPathInput
  <2>3. ASSUME NEW k \in Node, NEW t \in Node PROVE SameRoute(k, t)
    <3>1. CASE route' = route
      BY <3>1 DEF SameRoute
    <3>2. CASE route' = [route EXCEPT ![n][m.target].nopath = TRUE]
      <4>1. route \in [Node -> [Node -> Entries]]
        BY DEF TypeOK
      <4>2. route' = [route EXCEPT ![n] = [route[n] EXCEPT ![m.target] =
                                             [rep EXCEPT !.nopath = TRUE]]]
        BY <1>2, <3>2, <4>1, RouteMarked
      <4>3. \/ route'[k][t] = route[k][t]
            \/ k = n /\ t = m.target /\ route'[n][t] = [route[n][t] EXCEPT !.nopath = TRUE]
        BY <1>2, <4>1, <4>2
      <4>4. route[k][t] \in Entries
        BY EntryType
      <4>. QED
        BY <4>3, <4>4 DEF SameRoute, Entries
    <3>. QED
      BY <2>2, <3>1, <3>2
  <2>4. \A k \in Node : SameNode(k) /\ node'[k].dao_sequence = node[k].dao_sequence
    BY <2>1 DEF SameNode
  <2>5. \A l \in Link : Msgs(chan', l) \subseteq Msgs(chan, l)
    BY <1>2, <2>1
  <2>. QED
    BY <1>1, <2>3, <2>4, <2>5, QuietGood, SMTT(30)
<1>5. CASE IsHop(rep, s) /\ p # NoNode
  <2>. DEFINE new == [Prepared(rep, m.seq, out) EXCEPT !.nopath = TRUE]
              fwd == [m EXCEPT !.seq = out]
  <2>1. /\ route' = [route EXCEPT ![n][m.target] = new]
        /\ node' = [node EXCEPT ![n].dao_sequence = out]
        /\ chan' = Sent(Received(s, n), n, p, fwd)
        /\ rep.nexthop = s
    BY <1>5 DEF NoPathInput, IsHop
  <2>2. /\ node'[n].dao_sequence = out
        /\ \A k \in Node \ {n} : node'[k] = node[k]
        /\ \A k \in Node : SameNode(k)
    <3>1. node \in [Node -> NodeState]
      BY DEF TypeOK
    <3>2. node'[n] = [node[n] EXCEPT !.dao_sequence = out]
          /\ \A k \in Node \ {n} : node'[k] = node[k]
      BY <2>1, <3>1
    <3>3. node'[n].dao_sequence = out /\ SameNode(n)
      BY <3>1, <3>2 DEF SameNode, NodeState
    <3>. QED
      BY <3>2, <3>3 DEF SameNode
  <2>3. v \in Node \X Seqs
    BY <1>2 DEF About
  <2>. HIDE DEF m, p, v
  <2>4. /\ out \in Nat /\ out # 0 /\ out \in Numbers(n)' /\ out \in Seqs
        /\ out = node[n].dao_sequence + 1
        /\ \E g \in Tables : g[n][out] = v /\ Later(f, g)
    <3>1. out = Incremented(node[n].dao_sequence)
      OBVIOUS
    <3>2. /\ \A k \in Node \ {n} : node'[k].dao_sequence = node[k].dao_sequence
          /\ asked \subseteq asked' /\ accepted \subseteq accepted' /\ refused \subseteq refused'
      BY <1>1, <2>2
    <3>. HIDE DEF out
    <3>. QED
      BY <2>2, <2>3, <3>1, <3>2, NextNumber
  <2>5. fwd \in Messages /\ fwd = [m EXCEPT !.seq = out]
    BY <1>2, <2>4, MessageTypes
  <2>6. /\ new.pending /\ new.nexthop = s /\ new.seqno_in = m.seq /\ new.seqno_out = out
    BY <1>3, <2>1, <2>4 DEF Prepared, Entries
  <2>. HIDE DEF out, fwd, new, rep
  <2>7. PICK g \in Tables : g[n][out] = v /\ Later(f, g)
    BY <2>4
  <2>8. g[n][out] = About(m)
    BY <2>7 DEF v
  <2>9. ASSUME NEW l \in Link, NEW x \in Msgs(chan', l)
        PROVE  x \in Msgs(chan, l) \/ MessageOK(g, l, x)'
    <3>1. x \in Msgs(Received(s, n), l) \/ (l[1] = n /\ l[2] = p /\ x = fwd)
      <4>1. chan' = Sent(Received(s, n), n, p, fwd)
        BY <2>1
      <4>2. Received(s, n) \in [Link -> Seq(Messages)]
        BY <1>2
      <4>. QED
        <5>. HIDE NodeAssumption, BoundAssumption
        <5>. QED
          BY <2>5, <4>1, <4>2, SentMsgs, SMTT(30)
    <3>2. ASSUME l[1] = n, x = fwd PROVE MessageOK(g, l, x)'
      BY <1>1, <1>2, <2>4, <2>5, <2>7, <2>8, <3>2, PassedOnGood
    <3>. QED
      BY <1>2, <3>1, <3>2
  <2>10. ASSUME NEW k \in Node, NEW t \in Node PROVE SameRoute(k, t) \/ RouteOK(g, k, t)'
    <3>0. route \in [Node -> [Node -> Entries]]
      BY DEF TypeOK
    <3>1. CASE ~(k = n /\ t = m.target)
      <4>1. route'[k][t] = route[k][t]
        BY <1>2, <2>1, <3>0, <3>1
      <4>. QED
        BY <4>1 DEF SameRoute
    <3>2. CASE k = n /\ t = m.target
      <4>1. route'[n][t] = new
        BY <1>2, <2>1, <3>0, <3>2
      <4>2. m.seq \in 1 .. node'[s].dao_sequence /\ g[s][m.seq] = f[s][m.seq]
        BY <1>2, <2>7, LaterNumbers DEF Numbers
      <4>3. g[n][out] = g[s][m.seq]
        BY <1>2, <2>8, <4>2
      <4>4. g[n][out][1] = t /\ g[n][out] # <<n, out>>
        <5>1. m.target = n => m.reg # out
          BY <1>2, <2>4, CounterType
        <5>. QED
          BY <2>8, <3>2, <5>1 DEF About
      <4>. QED
        BY <2>4, <2>6, <3>2, <4>1, <4>2, <4>3, <4>4 DEF RouteOK, Numbers
    <3>. QED
      BY <3>1, <3>2
  <2>11. Good(g)'
    BY <2>2, <2>7, <2>9, <2>10, GoodLater
  <2>. QED
    BY <2>11, ZenonT(60) DEF Explained
<1>. QED
  BY <1>4, <1>5, ZenonT(60)

\* A router that installs a route gives a new DAO a number, and a retransmission
\* the number it had; what it answers at once the root has installed.
EntryFacts(f, s, n, t, rep) ==
    /\ rep \in Entries /\ rep.nexthop = s
    /\ \/ /\ rep.pending = route[n][t].pending
          /\ rep.nexthop = route[n][t].nexthop
          /\ rep.seqno_in = route[n][t].seqno_in
          /\ rep.seqno_out = route[n][t].seqno_out
       \/ rep.pending = FALSE /\ rep.seqno_in = 0
    /\ rep.pending => /\ rep.seqno_out \in Numbers(n) /\ rep.seqno_in \in Numbers(s)
                      /\ f[n][rep.seqno_out] = f[s][rep.seqno_in]
    /\ ~rep.pending /\ rep.seqno_in # 0 => f[s][rep.seqno_in] \in accepted

LEMMA EntryGood ==
    ASSUME TypeOK, NEW f, Good(f), NEW s \in Node, NEW n \in Node, NEW t \in Node,
           NEW rep, rep = Entry(n, t, s)
    PROVE  EntryFacts(f, s, n, t, rep)
<1>. USE DEF EntryFacts
<1>1. rep \in Entries /\ route[n][t] \in Entries
  BY EntryType
<1>2. RouteOK(f, n, t)
  BY DEF Good
<1>3. CASE route[n][t].nexthop = s
  <2>1. rep = [route[n][t] EXCEPT !.nopath = FALSE]
    BY <1>3 DEF Entry
  <2>2. /\ rep.pending = route[n][t].pending
        /\ rep.nexthop = route[n][t].nexthop
        /\ rep.seqno_in = route[n][t].seqno_in
        /\ rep.seqno_out = route[n][t].seqno_out
    BY <1>1, <2>1 DEF Entries
  <2>. QED
    BY <1>1, <1>2, <1>3, <2>2 DEF RouteOK
<1>4. CASE route[n][t].nexthop # s
  <2>1. rep = [NoRoute EXCEPT !.nexthop = s]
    BY <1>4 DEF Entry
  <2>2. rep.nexthop = s /\ rep.pending = FALSE /\ rep.seqno_in = 0
    BY <2>1 DEF NoRoute
  <2>. QED
    BY <1>1, <2>2
<1>. QED
  BY <1>3, <1>4

LEMMA DaoInputGood ==
    ASSUME TypeOK, TypeOK', NoWrap, NEW f \in Tables, Good(f), NEW s \in Node,
           NEW n \in Node, s # n, DaoInput(s, n)
    PROVE  Explained'
<1>. DEFINE m     == Head(chan[<<s, n>>])
            rep   == Entry(n, m.target, s)
            p     == node[n].parent
            same  == IsRetransmission(rep, m.seq)
            fresh == p # NoNode /\ ~same
            out   == IF same THEN rep.seqno_out ELSE Incremented(node[n].dao_sequence)
            new   == IF p = NoNode \/ same THEN rep ELSE Prepared(rep, m.seq, out)
            dao   == [m EXCEPT !.seq = out]
            fwd   == IF PassedOn(n, same) THEN Sent(Received(s, n), n, p, dao)
                     ELSE Received(s, n)
            ack   == Ack(m.seq, TRUE)
            v     == About(m)
<1>1. /\ chan[<<s, n>>] # <<>> /\ m.type = "dao" /\ ~m.nopath
      /\ asked' = asked /\ refused' = refused
      /\ accepted' = IF n = Root THEN accepted \union {v} ELSE accepted
      /\ route' = [route EXCEPT ![n][m.target] = new]
      /\ node' = [node EXCEPT ![n].dao_sequence =
                     IF p = NoNode \/ same THEN node[n].dao_sequence ELSE out]
      /\ chan' = IF AckNow(n, rep, m.seq) THEN Sent(fwd, n, s, ack) ELSE fwd
  BY DEF DaoInput, Arrives, About
<1>2. /\ m \in Messages
      /\ Received(s, n) \in [Link -> Seq(Messages)]
      /\ \A l \in Link : Msgs(Received(s, n), l) \subseteq Msgs(chan, l)
      /\ m.seq \in Numbers(s) /\ f[s][m.seq] = v
      /\ m.target \in Node /\ m.reg <= node[m.target].dao_sequence
      /\ m.reg \in Seqs /\ m.reg \in Nat /\ v \in asked
  <2>1. m = Head(chan[<<s, n>>])
    OBVIOUS
  <2>2. chan[<<s, n>>] # <<>> /\ m.type = "dao"
    BY <1>1
  <2>3. ~m.nopath /\ v = About(m)
    BY <1>1
  <2>. HIDE DEF m, v
  <2>4. /\ m \in Messages
        /\ Received(s, n) \in [Link -> Seq(Messages)]
        /\ \A l \in Link : Msgs(Received(s, n), l) \subseteq Msgs(chan, l)
    BY <2>1, <2>2, ArrivalType
  <2>5. m.seq \in Numbers(s) /\ f[s][m.seq] = About(m)
    BY <2>1, <2>2, ArrivalGood
  <2>6. m.target \in Node /\ m.reg <= node[m.target].dao_sequence
        /\ m.reg \in Seqs /\ m.reg \in Nat
    BY <2>1, <2>2, ArrivalGood
  <2>7. ~m.nopath => About(m) \in asked
    BY <2>1, <2>2, ArrivalGood
  <2>. QED
    BY <2>3, <2>4, <2>5, <2>6, <2>7
<1>3. /\ rep \in Entries /\ rep.nexthop = s
      /\ \/ /\ rep.pending = route[n][m.target].pending
            /\ rep.nexthop = route[n][m.target].nexthop
            /\ rep.seqno_in = route[n][m.target].seqno_in
            /\ rep.seqno_out = route[n][m.target].seqno_out
         \/ rep.pending = FALSE /\ rep.seqno_in = 0
      /\ rep.pending => /\ rep.seqno_out \in Numbers(n) /\ rep.seqno_in \in Numbers(s)
                        /\ f[n][rep.seqno_out] = f[s][rep.seqno_in]
      /\ ~rep.pending /\ rep.seqno_in # 0 => f[s][rep.seqno_in] \in accepted
  <2>1. m.target \in Node /\ rep = Entry(n, m.target, s)
    BY <1>2
  <2>. HIDE DEF m, rep
  <2>2. EntryFacts(f, s, n, m.target, rep)
    BY <2>1, EntryGood
  <2>. QED
    BY <2>2 DEF EntryFacts
<1>. HIDE DEF m, p, rep, v
<1>4. /\ node'[n].dao_sequence = IF fresh THEN out ELSE node[n].dao_sequence
      /\ \A k \in Node \ {n} : node'[k] = node[k]
      /\ \A k \in Node : SameNode(k)
  <2>1. node \in [Node -> NodeState]
    BY DEF TypeOK
  <2>2. \A x : [node[n] EXCEPT !.dao_sequence = x].dao_sequence = x
    BY <2>1 DEF NodeState
  <2>3. /\ node'[n] = [node[n] EXCEPT !.dao_sequence =
                          IF p = NoNode \/ same THEN node[n].dao_sequence ELSE out]
        /\ \A k \in Node \ {n} : node'[k] = node[k]
    BY <1>1, <2>1
  <2>. HIDE DEF out, same
  <2>4. node'[n].dao_sequence = IF fresh THEN out ELSE node[n].dao_sequence
    BY <2>2, <2>3
  <2>5. SameNode(n)
    BY <2>1, <2>3 DEF SameNode, NodeState
  <2>. QED
    BY <2>3, <2>4, <2>5 DEF SameNode
<1>5. v \in Node \X Seqs
  BY <1>2 DEF About, v
<1>6. accepted \subseteq accepted'
  BY <1>1
<1>7. /\ fresh => /\ out \in Nat /\ out # 0 /\ out \in Numbers(n)' /\ out \in Seqs
                  /\ out = node[n].dao_sequence + 1
      /\ \E g \in Tables : Later(f, g) /\ (fresh => g[n][out] = v) /\ (~fresh => g = f)
  <2>1. CASE fresh
    <3>1. out = Incremented(node[n].dao_sequence) /\ node'[n].dao_sequence = out
      BY <1>4, <2>1
    <3>2. /\ \A k \in Node \ {n} : node'[k].dao_sequence = node[k].dao_sequence
          /\ asked \subseteq asked' /\ refused \subseteq refused'
      BY <1>1, <1>4
    <3>. HIDE DEF out, fresh
    <3>3. /\ out \in Nat /\ out # 0 /\ out \in Numbers(n)' /\ out \in Seqs
          /\ out = node[n].dao_sequence + 1
          /\ \E g \in Tables : g[n][out] = v /\ Later(f, g)
      BY <1>5, <1>6, <3>1, <3>2, NextNumber
    <3>. QED
      BY <2>1, <3>3
  <2>2. CASE ~fresh
    <3>1. \A k \in Node : node'[k].dao_sequence = node[k].dao_sequence
      BY <1>4, <2>2
    <3>2. asked \subseteq asked' /\ refused \subseteq refused'
      BY <1>1
    <3>3. Later(f, f)
      BY <1>6, <3>1, <3>2, SameNumbers
    <3>. QED
      BY <2>2, <3>3
  <2>. QED
    BY <2>1, <2>2
<1>8. PICK g \in Tables : Later(f, g) /\ (fresh => g[n][out] = v) /\ (~fresh => g = f)
  BY <1>7
<1>9. p # NoNode => /\ out \in Numbers(n)' /\ out \in Seqs /\ g[n][out] = v
  <2>1. CASE fresh
    BY <1>7, <1>8, <2>1
  <2>2. CASE p # NoNode /\ same
    <3>1. rep.pending /\ rep.seqno_in = m.seq /\ out = rep.seqno_out
      BY <2>2 DEF IsRetransmission
    <3>2. rep.seqno_out \in Numbers(n) /\ f[n][rep.seqno_out] = v
      BY <1>2, <1>3, <3>1
    <3>3. rep.seqno_out \in Numbers(n)' /\ g[n][rep.seqno_out] = f[n][rep.seqno_out]
      BY <1>8, <3>2, LaterNumbers
    <3>4. rep.seqno_out \in Seqs
      BY <1>3 DEF Entries
    <3>. QED
      BY <3>1, <3>2, <3>3, <3>4
  <2>. QED
    BY <2>1, <2>2
<1>10. AckNow(n, rep, m.seq) => v \in accepted'
  <2>1. CASE n = Root
    BY <1>1, <2>1
  <2>2. CASE ~rep.pending /\ rep.seqno_in = m.seq
    <3>1. m.seq # 0
      BY <1>2, CounterType
    <3>2. f[s][m.seq] \in accepted
      BY <1>3, <2>2, <3>1
    <3>. QED
      BY <1>2, <1>6, <3>2
  <2>. QED
    BY <2>1, <2>2 DEF AckNow
<1>11. ack \in Messages /\ ack.type = "ack" /\ ack.seq = m.seq /\ ack.ok = TRUE
  BY <1>2, MessageTypes DEF Ack
<1>12. p # NoNode => dao \in Messages
  BY <1>2, <1>9, MessageTypes
<1>13. dao = [m EXCEPT !.seq = out]
  OBVIOUS
<1>14. /\ chan' = fwd \/ (AckNow(n, rep, m.seq) /\ chan' = Sent(fwd, n, s, ack))
       /\ \/ p = NoNode /\ fwd = Received(s, n)
          \/ p # NoNode /\ fwd = Sent(Received(s, n), n, p, dao)
  BY <1>1 DEF PassedOn, p
<1>. HIDE DEF ack, dao, fwd
<1>15. /\ fwd \in [Link -> Seq(Messages)]
       /\ \A l \in Link : \A x \in Msgs(fwd, l) :
             x \in Msgs(chan, l) \/ (p # NoNode /\ l[1] = n /\ x = dao)
  <2>1. CASE p = NoNode
    BY <1>2, <1>14, <2>1
  <2>2. CASE p # NoNode
    <3>1. fwd = Sent(Received(s, n), n, p, dao) /\ dao \in Messages
          /\ Received(s, n) \in [Link -> Seq(Messages)]
      BY <1>2, <1>12, <1>14, <2>2
    <3>2. fwd \in [Link -> Seq(Messages)]
      BY <3>1, SentIn
    <3>3. ASSUME NEW l \in Link, NEW x \in Msgs(fwd, l)
          PROVE  x \in Msgs(chan, l) \/ (p # NoNode /\ l[1] = n /\ x = dao)
      <4>1. x \in Msgs(Received(s, n), l) \/ (l[1] = n /\ l[2] = p /\ x = dao)
        <5>. HIDE NodeAssumption, BoundAssumption
        <5>. QED
          BY <3>1, SentMsgs, SMTT(30)
      <4>. QED
        BY <1>2, <2>2, <4>1
    <3>. QED
      BY <3>2, <3>3
  <2>. QED
    BY <2>1, <2>2
<1>16. ASSUME NEW l \in Link, NEW x \in Msgs(chan', l)
       PROVE  x \in Msgs(chan, l) \/ MessageOK(g, l, x)'
  <2>1. \/ x \in Msgs(fwd, l)
        \/ AckNow(n, rep, m.seq) /\ l[2] = s /\ x = ack
    <3>1. CASE chan' = fwd
      BY <3>1
    <3>2. CASE AckNow(n, rep, m.seq) /\ chan' = Sent(fwd, n, s, ack)
      <4>. HIDE NodeAssumption, BoundAssumption
      <4>. QED
        BY <1>11, <1>15, <3>2, SentMsgs, SMTT(30)
    <3>. QED
      BY <1>14, <3>1, <3>2
  <2>2. ASSUME p # NoNode, l[1] = n, x = dao PROVE MessageOK(g, l, x)'
    <3>1. out \in Numbers(n)' /\ g[n][out] = About(m) /\ x = [m EXCEPT !.seq = out]
          /\ About(m) \in asked
      BY <1>2, <1>9, <1>13, <2>2 DEF v
    <3>2. /\ m \in Messages /\ m.type = "dao" /\ m.reg <= node[m.target].dao_sequence
          /\ Later(f, g)
      BY <1>1, <1>2, <1>8
    <3>. HIDE DEF out
    <3>. QED
      BY <2>2, <3>1, <3>2, PassedOnGood
  <2>3. ASSUME AckNow(n, rep, m.seq), l[2] = s, x = ack PROVE MessageOK(g, l, x)'
    <3>1. f[s][m.seq] \in accepted' /\ x.type = "ack" /\ x.seq = m.seq /\ x.ok = TRUE
      BY <1>2, <1>10, <1>11, <2>3
    <3>. QED
      BY <1>2, <1>8, <2>3, <3>1, AnswerGood
  <2>. QED
    BY <1>15, <2>1, <2>2, <2>3
<1>17. ASSUME NEW k \in Node, NEW t \in Node PROVE SameRoute(k, t) \/ RouteOK(g, k, t)'
  <2>0. route \in [Node -> [Node -> Entries]]
    BY DEF TypeOK
  <2>1. CASE ~(k = n /\ t = m.target)
    <3>1. route'[k][t] = route[k][t]
      BY <1>1, <1>2, <2>0, <2>1
    <3>. QED
      BY <3>1 DEF SameRoute
  <2>2. CASE k = n /\ t = m.target
    <3>1. route'[n][t] = new
      BY <1>1, <1>2, <2>0, <2>2
    <3>2. CASE ~fresh
      <4>1. route'[n][t] = rep
        BY <3>1, <3>2
      <4>2. CASE rep.pending = FALSE /\ rep.seqno_in = 0
        BY <2>2, <4>1, <4>2 DEF RouteOK
      <4>3. CASE /\ rep.pending = route[n][m.target].pending
                 /\ rep.nexthop = route[n][m.target].nexthop
                 /\ rep.seqno_in = route[n][m.target].seqno_in
                 /\ rep.seqno_out = route[n][m.target].seqno_out
        BY <2>2, <4>1, <4>3 DEF SameRoute
      <4>. QED
        BY <1>3, <4>2, <4>3
    <3>3. CASE fresh
      <4>1. new = Prepared(rep, m.seq, out)
        BY <3>3
      <4>. HIDE DEF new, out, fresh
      <4>2. /\ new.pending /\ new.nexthop = s /\ new.seqno_in = m.seq /\ new.seqno_out = out
        BY <1>3, <4>1 DEF Prepared, Entries
      <4>3. /\ m.seq \in 1 .. node'[s].dao_sequence /\ g[s][m.seq] = v /\ g[n][out] = v
            /\ out \in Numbers(n)' /\ out # node[n].dao_sequence
            /\ out = node[n].dao_sequence + 1
        <5>1. node[n].dao_sequence \in Nat
          BY CounterType
        <5>2. out \in Numbers(n)' /\ out = node[n].dao_sequence + 1 /\ g[n][out] = v
          BY <1>7, <1>8, <3>3
        <5>3. m.seq \in 1 .. node'[s].dao_sequence /\ g[s][m.seq] = f[s][m.seq]
          BY <1>2, <1>8, LaterNumbers DEF Numbers
        <5>. QED
          BY <1>2, <5>1, <5>2, <5>3
      <4>4. g[n][out][1] = t /\ g[n][out] # <<n, out>>
        <5>1. m.target = n => m.reg # out
          BY <1>2, <4>3, CounterType
        <5>. QED
          BY <2>2, <4>3, <5>1 DEF About, v
      <4>. QED
        BY <2>2, <3>1, <4>2, <4>3, <4>4 DEF RouteOK, Numbers
    <3>. QED
      BY <3>2, <3>3
  <2>. QED
    BY <2>1, <2>2
<1>18. Good(g)'
  BY <1>4, <1>8, <1>16, <1>17, GoodLater
<1>. QED
  BY <1>18 DEF Explained

-----------------------------------------------------------------------------
(* Every step keeps the table, as long as no counter wraps.                *)

LEMMA ReceivedGood ==
    ASSUME TypeOK, TypeOK', Explained, NEW s \in Node, NEW n \in Node, s # n,
           chan[<<s, n>>] # <<>>, chan' = Received(s, n), route' = route,
           \A k \in Node : SameNode(k) /\ node'[k].dao_sequence = node[k].dao_sequence,
           asked \subseteq asked', accepted \subseteq accepted', refused \subseteq refused'
    PROVE  Explained'
<1>1. PICK f \in Tables : Good(f)
  BY DEF Explained
<1>2. \A l \in Link : Msgs(chan', l) \subseteq Msgs(chan, l)
  BY ArrivalType
<1>3. \A k, t \in Node : SameRoute(k, t)
  BY DEF SameRoute
<1>. QED
  BY <1>1, <1>2, <1>3, QuietGood

LEMMA NextExplained == TypeOK /\ Explained /\ [Next]_vars /\ [NoWrap]_vars => Explained'
<1>. SUFFICES ASSUME TypeOK, Explained, [Next]_vars, [NoWrap]_vars PROVE Explained'
  OBVIOUS
<1>1. TypeOK'
  BY NextType
<1>2. CASE UNCHANGED vars
  <2>1. PICK f \in Tables : Good(f)
    BY DEF Explained
  <2>2. /\ chan' = chan /\ node' = node /\ route' = route
        /\ asked' = asked /\ accepted' = accepted /\ refused' = refused
    BY <1>2 DEF vars, history
  <2>3. /\ \A k \in Node : SameNode(k) /\ node'[k].dao_sequence = node[k].dao_sequence
        /\ \A k, t \in Node : SameRoute(k, t)
    BY <2>2 DEF SameNode, SameRoute
  <2>4. \A l \in Link : Msgs(chan', l) \subseteq Msgs(chan, l)
    BY <2>2
  <2>. QED
    BY <1>1, <2>1, <2>2, <2>3, <2>4, QuietGood
<1>3. ASSUME NoWrap, Next PROVE Explained'
  <2>1. PICK f \in Tables : Good(f)
    BY DEF Explained
  <2>2. ASSUME NEW n \in Node, DaoOutput(n) PROVE Explained'
    BY <1>1, <1>3, <2>1, <2>2, DaoOutputGood
  <2>3. ASSUME NEW n \in Node, Retransmit(n) PROVE Explained'
    BY <1>1, <2>1, <2>3, RetransmitGood
  <2>4. ASSUME NEW n \in Node, GiveUp(n) PROVE Explained'
    <3>1. /\ chan' = chan /\ route' = route
          /\ asked' = asked /\ accepted' = accepted /\ refused' = refused
      BY <2>4 DEF GiveUp, history
    <3>2. \A k \in Node : SameNode(k) /\ node'[k].dao_sequence = node[k].dao_sequence
      <4>. DEFINE me == [node[n] EXCEPT !.timer = NoNode]
      <4>1. node \in [Node -> NodeState]
        BY DEF TypeOK
      <4>2. /\ \A k \in Node \ {n} : node'[k] = node[k]
            /\ node'[n] = me \/ node'[n] = LocalRepair(me)
        BY <2>4, <4>1 DEF GiveUp
      <4>3. node[n] \in NodeState
        BY <4>1
      <4>4. me \in NodeState /\ me.timer = NoNode /\ me.my_dao_seqno = node[n].my_dao_seqno
            /\ me.my_dao_transmissions = node[n].my_dao_transmissions
            /\ me.dao_sequence = node[n].dao_sequence
        BY <4>3 DEF NodeState
      <4>. HIDE DEF me
      <4>5. /\ LocalRepair(me).timer = NoNode
            /\ LocalRepair(me).my_dao_seqno = me.my_dao_seqno
            /\ LocalRepair(me).my_dao_transmissions = me.my_dao_transmissions
            /\ LocalRepair(me).dao_sequence = me.dao_sequence
        BY <4>4 DEF LocalRepair, NodeState
      <4>6. SameNode(n) /\ node'[n].dao_sequence = node[n].dao_sequence
        BY <4>2, <4>4, <4>5 DEF SameNode
      <4>. QED
        BY <4>2, <4>6 DEF SameNode
    <3>3. \A k, t \in Node : SameRoute(k, t)
      BY <3>1 DEF SameRoute
    <3>. QED
      BY <1>1, <2>1, <3>1, <3>2, <3>3, QuietGood
  <2>5. ASSUME NEW n \in Node, NEW p \in Node, Move(n, p) PROVE Explained'
    BY <1>1, <1>3, <2>1, <2>5, MoveGood
  <2>6. ASSUME NEW n \in Node, NEW s \in Node \ {n}, Lose(s, n) PROVE Explained'
    <3>1. /\ chan[<<s, n>>] # <<>> /\ chan' = Received(s, n) /\ route' = route /\ s # n
          /\ asked' = asked /\ accepted' = accepted /\ refused' = refused /\ node' = node
      BY <2>6 DEF Lose, history
    <3>2. \A k \in Node : SameNode(k) /\ node'[k].dao_sequence = node[k].dao_sequence
      BY <3>1 DEF SameNode
    <3>. QED
      BY <1>1, <3>1, <3>2, ReceivedGood
  <2>7. ASSUME NEW n \in Node, NEW t \in Node, Expire(n, t) PROVE Explained'
    <3>1. /\ chan' = chan /\ node' = node /\ route' = [route EXCEPT ![n][t] = NoRoute]
          /\ asked' = asked /\ accepted' = accepted /\ refused' = refused
      BY <2>7 DEF Expire, history
    <3>2. \A k \in Node : SameNode(k) /\ node'[k].dao_sequence = node[k].dao_sequence
      BY <3>1 DEF SameNode
    <3>3. route \in [Node -> [Node -> Entries]]
      BY DEF TypeOK
    <3>4. \A k, u \in Node : SameRoute(k, u) \/ route'[k][u] = NoRoute
      BY <3>1, <3>3 DEF SameRoute
    <3>5. \A l \in Link : Msgs(chan', l) \subseteq Msgs(chan, l)
      BY <3>1
    <3>. QED
      BY <1>1, <2>1, <3>1, <3>2, <3>4, <3>5, QuietGood
  <2>8. ASSUME NEW n \in Node, NEW s \in Node \ {n}, Deliver(s, n) PROVE Explained'
    <3>0. s \in Node /\ s # n
      OBVIOUS
    <3>1. CASE DaoLoop(s, n) \/ StrayAck(s, n)
      <4>1. /\ chan[<<s, n>>] # <<>> /\ chan' = Received(s, n) /\ route' = route
            /\ asked' = asked /\ accepted' = accepted /\ refused' = refused /\ node' = node
        BY <3>1 DEF DaoLoop, StrayAck, Arrives, history
      <4>2. \A k \in Node : SameNode(k) /\ node'[k].dao_sequence = node[k].dao_sequence
        BY <4>1 DEF SameNode
      <4>. QED
        BY <1>1, <3>0, <4>1, <4>2, ReceivedGood
    <3>2. CASE NoPathInput(s, n)
      BY <1>1, <1>3, <2>1, <3>0, <3>2, NoPathInputGood
    <3>3. CASE DaoRefused(s, n)
      BY <1>1, <2>1, <3>0, <3>3, DaoRefusedGood
    <3>4. CASE DaoInput(s, n)
      BY <1>1, <1>3, <2>1, <3>0, <3>4, DaoInputGood
    <3>5. CASE n = Root /\ DaoInputNonStoring(s)
      BY <1>1, <2>1, <3>0, <3>5, DaoInputNonStoringGood
    <3>6. CASE OwnAck(s, n)
      <4>. DEFINE m == Head(chan[<<s, n>>])
      <4>1. /\ chan[<<s, n>>] # <<>> /\ chan' = Received(s, n) /\ route' = route
            /\ asked' = asked /\ accepted' = accepted /\ refused' = refused
            /\ node' = [node EXCEPT ![n].downward = m.ok, ![n].timer = NoNode]
        BY <3>6 DEF OwnAck, Arrives
      <4>2. \A k \in Node : SameNode(k) /\ node'[k].dao_sequence = node[k].dao_sequence
        <5>1. node \in [Node -> NodeState]
          BY DEF TypeOK
        <5>2. /\ \A k \in Node \ {n} : node'[k] = node[k]
              /\ node'[n] = [node[n] EXCEPT !.downward = m.ok, !.timer = NoNode]
          BY <4>1, <5>1
        <5>3. SameNode(n) /\ node'[n].dao_sequence = node[n].dao_sequence
          BY <5>1, <5>2 DEF SameNode, NodeState
        <5>. QED
          BY <5>2, <5>3 DEF SameNode
      <4>3. asked \subseteq asked' /\ accepted \subseteq accepted' /\ refused \subseteq refused'
        BY <4>1
      <4>. QED
        BY <1>1, <3>0, <4>1, <4>2, <4>3, ReceivedGood
    <3>7. CASE ForwardAck(s, n)
      BY <1>1, <2>1, <3>0, <3>7, ForwardAckGood
    <3>. QED
      BY <2>8, <3>1, <3>2, <3>3, <3>4, <3>5, <3>6, <3>7 DEF Deliver
  <2>9. ASSUME NEW n \in Node, Lapse(n) \/ Readdress(n) PROVE Explained'
    <3>1. /\ chan' = chan /\ route' = route
          /\ asked' = asked /\ accepted' = accepted /\ refused' = refused
          /\ \A k \in Node : SameNode(k) /\ node'[k].dao_sequence = node[k].dao_sequence
      BY <2>9, AsideKeeps DEF TypeOK
    <3>2. \A k, t \in Node : SameRoute(k, t)
      BY <3>1 DEF SameRoute
    <3>. QED
      BY <1>1, <2>1, <3>1, <3>2, QuietGood
  <2>. QED
    BY <1>3, <2>2, <2>3, <2>4, <2>5, <2>6, <2>7, <2>8, <2>9 DEF Next, Progress
<1>. QED
  BY <1>2, <1>3

-----------------------------------------------------------------------------
(* What follows from it.                                                   *)

LEMMA ExplainedTells == TypeOK /\ Explained => NumberTells
<1>. SUFFICES ASSUME TypeOK, Explained PROVE NumberTells
  OBVIOUS
<1>1. PICK f \in Tables : Good(f)
  BY ZenonT(60) DEF Explained
<1>2. ASSUME NEW n \in Node, NEW t \in Node, route[n][t].pending
      PROVE  /\ f[n][route[n][t].seqno_out][1] = t
             /\ f[n][route[n][t].seqno_out] # <<n, route[n][t].seqno_out>>
             /\ route[n][t].seqno_out # 0
  <2>1. RouteOK(f, n, t)
    BY <1>1 DEF Good
  <2>. QED
    BY <1>2, <2>1, CounterType DEF RouteOK
<1>3. ASSUME NEW n \in Node, NEW t \in Node, NEW u \in Node,
             route[n][t].pending, route[n][u].pending, t # u
      PROVE  route[n][t].seqno_out # route[n][u].seqno_out
  <2>1. f[n][route[n][t].seqno_out][1] = t /\ f[n][route[n][u].seqno_out][1] = u
    BY <1>2, <1>3
  <2>. QED
    BY <1>3, <2>1
<1>4. ASSUME NEW n \in Node, NEW t \in Node,
             route[n][t].pending, node[n].my_dao_transmissions > 0
      PROVE  route[n][t].seqno_out # node[n].my_dao_seqno
  <2>1. NodeOK(f, n)
    BY <1>1 DEF Good
  <2>2. f[n][node[n].my_dao_seqno] = <<n, node[n].my_dao_seqno>>
    BY <1>4, <2>1 DEF NodeOK
  <2>. QED
    BY <1>2, <1>4, <2>2
<1>. QED
  BY <1>3, <1>4 DEF NumberTells

\* dao_ack_input can tell acknowledgements apart by their number alone, for any
\* number of nodes and whatever is lost or repeated, until a counter wraps: no two
\* routes of a node wait for the same number, nor for that of the node's own DAO.
THEOREM NumbersCorrect == Spec /\ [][NoWrap]_vars => []NumbersOK
<1>1. Init => TypeOK /\ Explained
  BY InitType, InitExplained
<1>2. TypeOK /\ Explained /\ [Next]_vars /\ [NoWrap]_vars => TypeOK' /\ Explained'
  BY NextType, NextExplained
<1>3. TypeOK /\ Explained => NumbersOK
  BY ExplainedTells DEF NumbersOK
<1>. QED
  BY <1>1, <1>2, <1>3, PTL DEF Spec

-----------------------------------------------------------------------------
(* The refinement.                                                         *)

Believes == [n \in Node |-> node[n].downward]

\* A step that changes nothing the promise is about.
LEMMA NothingNew ==
    ASSUME asked' = asked, accepted' = accepted, refused' = refused, answered' = answered,
           \A n \in Node : node'[n].downward = node[n].downward
    PROVE  UNCHANGED Registration!vars
<1>1. Believes' = Believes
  BY DEF Believes
<1>. QED
  BY <1>1 DEF Registration!vars, Believes

LEMMA Untouched ==
    ASSUME node \in [Node -> NodeState], NEW n \in Node
    PROVE  /\ \A x, p : /\ [node[n] EXCEPT !.dao_sequence = x].downward = node[n].downward
                       /\ [node[n] EXCEPT !.parent = p].downward = node[n].downward
                       /\ [node[n] EXCEPT !.parent = p, !.dao_sequence = x].downward
                             = node[n].downward
           /\ \A me : node' = [node EXCEPT ![n] = me] /\ me.downward = node[n].downward
                 => \A k \in Node : node'[k].downward = node[k].downward
<1>1. node[n] \in NodeState
  OBVIOUS
<1>2. \A x, p : /\ [node[n] EXCEPT !.dao_sequence = x].downward = node[n].downward
                /\ [node[n] EXCEPT !.parent = p].downward = node[n].downward
                /\ [node[n] EXCEPT !.parent = p, !.dao_sequence = x].downward
                      = node[n].downward
  BY <1>1 DEF NodeState
<1>. QED
  BY <1>2

LEMMA InitRegistration == Init => Registration!Init
  BY DEF Init, Registration!Init

LEMMA NextRegistration ==
    TypeOK /\ Explained /\ [Next]_vars => [Registration!Next]_(Registration!vars)
<1>. SUFFICES ASSUME TypeOK, Explained, [Next]_vars
              PROVE  Registration!Next \/ UNCHANGED Registration!vars
  OBVIOUS
<1>0. node \in [Node -> NodeState]
  BY DEF TypeOK
<1>1. CASE UNCHANGED vars
  BY <1>1, NothingNew DEF vars, history
<1>2. ASSUME NEW n \in Node, DaoOutput(n) PROVE Registration!Next
  <2>. DEFINE me == Registering(n)
              seq == me.my_dao_seqno
  <2>1. me.downward = node[n].downward /\ seq \in Seqs
    BY <1>0, CounterType, SeqType DEF Registering, NodeState
  <2>2. /\ asked' = asked \union {<<n, seq>>}
        /\ accepted' = accepted /\ refused' = refused /\ answered' = answered
        /\ node' = [node EXCEPT ![n] = me]
    BY <1>2 DEF DaoOutput
  <2>. HIDE DEF me
  <2>3. Believes' = Believes
    BY <1>0, <2>1, <2>2 DEF Believes
  <2>4. Registration!Ask(n, seq)
    BY <2>2, <2>3 DEF Registration!Ask, Believes
  <2>. QED
    BY <2>1, <2>4 DEF Registration!Next
<1>3. ASSUME NEW n \in Node, Retransmit(n) PROVE UNCHANGED Registration!vars
  <2>1. \A k \in Node : node'[k].downward = node[k].downward
    BY <1>0, <1>3 DEF Retransmit, NodeState
  <2>. QED
    BY <1>3, <2>1, NothingNew DEF Retransmit, history
<1>4. ASSUME NEW n \in Node, GiveUp(n)
      PROVE  Registration!Next \/ UNCHANGED Registration!vars
  <2>. DEFINE me == [node[n] EXCEPT !.timer = NoNode]
  <2>1. asked' = asked /\ accepted' = accepted /\ refused' = refused /\ answered' = answered
    BY <1>4 DEF GiveUp, history
  <2>2. me \in NodeState /\ me.downward = node[n].downward
    BY <1>0 DEF NodeState
  <2>3. CASE mode.infinite
    <3>1. node' = [node EXCEPT ![n] = me]
      BY <1>4, <2>3 DEF GiveUp
    <3>. HIDE DEF me
    <3>2. \A k \in Node : node'[k].downward = node[k].downward
      BY <1>0, <2>2, <3>1
    <3>. QED
      BY <2>1, <3>2, NothingNew
  <2>4. CASE ~mode.infinite
    <3>1. node' = [node EXCEPT ![n] = LocalRepair(me)]
      BY <1>4, <2>4 DEF GiveUp
    <3>. HIDE DEF me
    <3>2. LocalRepair(me).downward = FALSE
      BY <2>2 DEF LocalRepair, NodeState
    <3>3. Believes' = [Believes EXCEPT ![n] = FALSE]
      BY <1>0, <3>1, <3>2 DEF Believes
    <3>4. Registration!Doubt(n)
      BY <2>1, <3>3 DEF Registration!Doubt, Believes
    <3>. QED
      BY <3>4 DEF Registration!Next
  <2>. QED
    BY <2>3, <2>4
<1>5. ASSUME NEW n \in Node, NEW p \in Node, Move(n, p) PROVE UNCHANGED Registration!vars
  <2>1. \/ node' = [node EXCEPT ![n] = [node[n] EXCEPT !.parent = p]]
        \/ node' = [node EXCEPT ![n] = [node[n] EXCEPT !.parent = p,
                        !.dao_sequence = Incremented(node[n].dao_sequence)]]
    <3>1. CASE node[n].parent = NoNode \/ ~node[n].addressed
      <4>1. node' = [node EXCEPT ![n].parent = p]
        BY <1>5, <3>1 DEF Move
      <4>. QED
        BY <4>1
    <3>2. CASE node[n].parent # NoNode /\ node[n].addressed
      <4>1. node' = [node EXCEPT ![n].parent = p,
                                 ![n].dao_sequence = Incremented(node[n].dao_sequence)]
        BY <1>5, <3>2 DEF Move
      <4>2. node \in [Node -> NodeState] /\ node[n] \in NodeState
        BY <1>0
      <4>. QED
        BY <4>1, <4>2 DEF NodeState
    <3>. QED
      BY <3>1, <3>2
  <2>2. \A k \in Node : node'[k].downward = node[k].downward
    <3>. DEFINE moved1 == [node[n] EXCEPT !.parent = p]
                moved2 == [node[n] EXCEPT !.parent = p,
                                          !.dao_sequence = Incremented(node[n].dao_sequence)]
    <3>1. moved1.downward = node[n].downward /\ moved2.downward = node[n].downward
      BY <1>0, Untouched
    <3>2. node' = [node EXCEPT ![n] = moved1] \/ node' = [node EXCEPT ![n] = moved2]
      BY <2>1
    <3>. HIDE DEF moved1, moved2
    <3>. QED
      BY <1>0, <3>1, <3>2, Untouched
  <2>3. asked' = asked /\ accepted' = accepted /\ refused' = refused /\ answered' = answered
    BY <1>5 DEF Move
  <2>. QED
    BY <2>2, <2>3, NothingNew
<1>6. ASSUME NEW n \in Node, NEW s \in Node \ {n}, Lose(s, n)
      PROVE  UNCHANGED Registration!vars
  BY <1>6, NothingNew DEF Lose, history
<1>7. ASSUME NEW n \in Node, NEW t \in Node, Expire(n, t) PROVE UNCHANGED Registration!vars
  BY <1>7, NothingNew DEF Expire, history
<1>8. ASSUME NEW n \in Node, NEW s \in Node \ {n}, Deliver(s, n)
      PROVE  Registration!Next \/ UNCHANGED Registration!vars
  <2>. DEFINE m == Head(chan[<<s, n>>])
  <2>0. s \in Node /\ s # n
    OBVIOUS
  <2>1. PICK f \in Tables : Good(f)
    BY SMTT(30) DEF Explained
  <2>2. chan[<<s, n>>] # <<>> /\ m = Head(chan[<<s, n>>])
    BY <1>8 DEF Deliver, DaoLoop, NoPathInput, DaoRefused, DaoInput, DaoInputNonStoring,
                OwnAck, ForwardAck, StrayAck, Arrives
  <2>3. /\ m.type = "dao" => /\ ~m.nopath => About(m) \in asked
                             /\ m.target \in Node /\ m.reg \in Seqs
        /\ m.type = "ack" => /\ m.seq \in Numbers(n)
                             /\ m.ok => f[n][m.seq] \in accepted
                             /\ ~m.ok => f[n][m.seq] \in refused
                             /\ m.ok \in BOOLEAN
    <3>1. m \in Messages
      BY <2>0, <2>2, ArrivalType
    <3>2. m.type = "ack" => m.ok \in BOOLEAN
      BY <3>1, MessageTypes
    <3>. HIDE DEF m
    <3>3. /\ m.type = "dao" => m.target \in Node /\ m.reg \in Seqs
          /\ m.type = "ack" => m.seq \in Numbers(n)
      BY <2>0, <2>1, <2>2, ArrivalGood
    <3>4. /\ m.type = "dao" => (~m.nopath => About(m) \in asked)
          /\ m.type = "ack" => (m.ok => f[n][m.seq] \in accepted)
          /\ m.type = "ack" => (~m.ok => f[n][m.seq] \in refused)
      BY <2>0, <2>1, <2>2, ArrivalGood
    <3>. QED
      BY <3>2, <3>3, <3>4
  <2>4. CASE DaoLoop(s, n) \/ StrayAck(s, n)
    BY <2>4, NothingNew, ZenonT(60) DEF DaoLoop, StrayAck, history
  <2>5. CASE NoPathInput(s, n)
    <3>1. node' = node
          \/ node' = [node EXCEPT ![n] = [node[n] EXCEPT
                         !.dao_sequence = Incremented(node[n].dao_sequence)]]
      BY <1>0, <2>5 DEF NoPathInput
    <3>2. \A k \in Node : node'[k].downward = node[k].downward
      BY <1>0, <3>1 DEF NodeState
    <3>. QED
      BY <2>5, <3>2, NothingNew, ZenonT(60) DEF NoPathInput, history
  <2>6. CASE DaoRefused(s, n)
    <3>1. m.type = "dao" /\ ~m.nopath /\ node' = node /\ asked' = asked
          /\ accepted' = accepted /\ answered' = answered
          /\ refused' = refused \union {<<m.target, m.reg>>}
      BY <2>6 DEF DaoRefused, Arrives
    <3>2. <<m.target, m.reg>> \in asked /\ m.target \in Node /\ m.reg \in Seqs
      BY <2>3, <3>1 DEF About
    <3>. HIDE DEF m
    <3>3. Believes' = Believes
      BY <3>1 DEF Believes
    <3>4. Registration!RefuseIt(m.target, m.reg)
      BY <3>1, <3>2, <3>3 DEF Registration!RefuseIt, Believes
    <3>. QED
      BY <3>2, <3>4 DEF Registration!Next
  <2>7. CASE DaoInput(s, n)
    <3>. DEFINE rep  == Entry(n, m.target, s)
                same == IsRetransmission(rep, m.seq)
                out  == IF same THEN rep.seqno_out ELSE Incremented(node[n].dao_sequence)
                seq  == IF node[n].parent = NoNode \/ same THEN node[n].dao_sequence ELSE out
    <3>0. m.type = "dao" /\ ~m.nopath
      BY <2>7 DEF DaoInput, Arrives
    <3>1. /\ asked' = asked /\ refused' = refused /\ answered' = answered
          /\ n = Root => accepted' = accepted \union {<<m.target, m.reg>>}
          /\ n # Root => accepted' = accepted
      BY <2>7 DEF DaoInput
    <3>6. node' = [node EXCEPT ![n].dao_sequence = seq]
      BY <2>7 DEF DaoInput
    <3>2. <<m.target, m.reg>> \in asked /\ m.target \in Node /\ m.reg \in Seqs
      BY <2>3, <3>0 DEF About
    <3>. HIDE DEF m, seq
    <3>3. \A k \in Node : node'[k].downward = node[k].downward
      <4>. DEFINE me == [node[n] EXCEPT !.dao_sequence = seq]
      <4>1. me.downward = node[n].downward
        BY <1>0, Untouched
      <4>2. node' = [node EXCEPT ![n] = me]
        BY <1>0, <3>6
      <4>. HIDE DEF me
      <4>. QED
        BY <1>0, <4>1, <4>2, Untouched
    <3>4. CASE n = Root
      <4>1. Believes' = Believes
        BY <3>3 DEF Believes
      <4>2. Registration!Accept(m.target, m.reg)
        BY <3>1, <3>2, <3>4, <4>1 DEF Registration!Accept, Believes
      <4>. QED
        BY <3>2, <4>2 DEF Registration!Next
    <3>5. CASE n # Root
      <4>1. accepted' = accepted /\ asked' = asked /\ refused' = refused
            /\ answered' = answered
        BY <3>1, <3>5
      <4>. QED
        BY <3>3, <4>1, NothingNew
    <3>. QED
      BY <3>4, <3>5
  <2>8. CASE n = Root /\ DaoInputNonStoring(s)
    <3>1. m.type = "dao" /\ node' = node /\ asked' = asked
          /\ refused' = refused /\ answered' = answered
          /\ \/ accepted' = accepted
             \/ ~m.nopath /\ accepted' = accepted \union {<<m.target, m.reg>>}
      BY <2>8 DEF DaoInputNonStoring, Arrives
    <3>. HIDE DEF m
    <3>2. CASE accepted' = accepted
      BY <3>1, <3>2, NothingNew
    <3>3. CASE ~m.nopath /\ accepted' = accepted \union {<<m.target, m.reg>>}
      <4>1. <<m.target, m.reg>> \in asked /\ m.target \in Node /\ m.reg \in Seqs
        BY <2>3, <3>1, <3>3 DEF About
      <4>2. Believes' = Believes
        BY <3>1 DEF Believes
      <4>3. Registration!Accept(m.target, m.reg)
        BY <3>1, <3>3, <4>1, <4>2 DEF Registration!Accept, Believes
      <4>. QED
        BY <4>1, <4>3 DEF Registration!Next
    <3>. QED
      BY <3>1, <3>2, <3>3
  <2>9. CASE OwnAck(s, n)
    <3>1. /\ m.type = "ack" /\ m.seq = node[n].my_dao_seqno
          /\ asked' = asked /\ accepted' = accepted /\ refused' = refused
          /\ answered' = answered \union {<<n, m.seq>>}
          /\ node' = [node EXCEPT ![n] = [node[n] EXCEPT !.downward = m.ok,
                                                         !.timer = NoNode]]
      BY <1>0, <2>9 DEF OwnAck, Arrives
    <3>. HIDE DEF m
    <3>2. NodeOK(f, n) /\ m.seq # 0 /\ m.seq \in Seqs
      BY <2>1, <2>3, <3>1, CounterType DEF Good
    <3>3. f[n][m.seq] = <<n, m.seq>>
      BY <3>1, <3>2 DEF NodeOK
    <3>4. <<n, m.seq>> \in (IF m.ok THEN accepted ELSE refused) /\ m.ok \in BOOLEAN
      BY <2>3, <3>1, <3>3
    <3>5. node'[n].downward = m.ok /\ \A k \in Node \ {n} : node'[k] = node[k]
      BY <1>0, <3>1 DEF NodeState
    <3>7. PICK q \in Seqs : q = m.seq
      BY <3>2
    <3>8. CASE m.ok
      <4>1. <<n, q>> \in accepted
        BY <3>4, <3>7, <3>8
      <4>2. node'[n].downward = TRUE /\ \A k \in Node \ {n} : node'[k] = node[k]
        BY <3>4, <3>5, <3>8
      <4>3. Believes' = [Believes EXCEPT ![n] = TRUE]
        BY <4>2 DEF Believes
      <4>4. Registration!Answer(n, q, TRUE)
        BY <3>1, <3>7, <4>1, <4>3 DEF Registration!Answer, Believes
      <4>. QED
        BY <4>4 DEF Registration!Next
    <3>9. CASE ~m.ok
      <4>1. <<n, q>> \in refused
        BY <3>4, <3>7, <3>9
      <4>2. node'[n].downward = FALSE /\ \A k \in Node \ {n} : node'[k] = node[k]
        BY <3>4, <3>5, <3>9
      <4>3. Believes' = [Believes EXCEPT ![n] = FALSE]
        BY <4>2 DEF Believes
      <4>4. Registration!Answer(n, q, FALSE)
        BY <3>1, <3>7, <4>1, <4>3 DEF Registration!Answer, Believes
      <4>. QED
        BY <4>4 DEF Registration!Next
    <3>. QED
      BY <3>8, <3>9
  <2>10. CASE ForwardAck(s, n)
    BY <2>10, NothingNew DEF ForwardAck, history
  <2>. QED
    BY <1>8, <2>4, <2>5, <2>6, <2>7, <2>8, <2>9, <2>10 DEF Deliver
<1>9. ASSUME NEW n \in Node, Lapse(n) \/ Readdress(n) PROVE UNCHANGED Registration!vars
  BY <1>0, <1>9, AsideKeeps, NothingNew
<1>. QED
  BY <1>1, <1>2, <1>3, <1>4, <1>5, <1>6, <1>7, <1>8, <1>9 DEF Next, Progress

\* The exchange keeps the promise of RplRegistration until a counter wraps: each
\* answer is for the registration it is taken for, a node has an answer only for
\* what the root has installed or a router refused, and believes accordingly.
THEOREM RegistrationCorrect == Spec /\ [][NoWrap]_vars => ImplementsRegistration
<1>1. Init => TypeOK /\ Explained /\ Registration!Init
  BY InitType, InitExplained, InitRegistration
<1>2. TypeOK /\ Explained /\ [Next]_vars /\ [NoWrap]_vars => TypeOK' /\ Explained'
  BY NextType, NextExplained
<1>3. TypeOK /\ Explained /\ [Next]_vars => [Registration!Next]_(Registration!vars)
  BY NextRegistration
<1>. QED
  BY <1>1, <1>2, <1>3, PTL DEF Spec, ImplementsRegistration, Registration!Spec

-----------------------------------------------------------------------------
(* A node that believes in its downward route is reached, as long as       *)
(* nobody changes parents.  T are the parents the nodes have begun with, A *)
(* the nodes above each.                                                   *)

Above(T, A) ==
    /\ T \in [Node -> Node \union {NoNode}] /\ T[Root] = NoNode
    /\ \A n \in Node \ {Root} : T[n] \in Node
    /\ A \in [Node -> SUBSET Node] /\ A[Root] = {}
    /\ \A n \in Node \ {Root} : A[n] = A[T[n]] \union {T[n]}
    /\ \A n \in Node : n \notin A[n] /\ (n # Root => Root \in A[n])
    /\ \A n \in Node : \A y \in A[n] : A[y] \subseteq A[n]

\* A set that the parents do not leave; the least one with x.
Closed(T, S) == \A z \in S \ {Root} : T[z] \in S
Upwards(T, x) == {y \in Node : \A S \in SUBSET Node : x \in S /\ Closed(T, S) => y \in S}

\* It has x, and is part of every other.
LEMMA UpwardsLeast ==
    ASSUME NEW T, NEW x \in Node, \A n \in Node \ {Root} : T[n] \in Node
    PROVE  /\ Upwards(T, x) \in SUBSET Node /\ x \in Upwards(T, x)
           /\ Closed(T, Upwards(T, x))
           /\ \A S \in SUBSET Node : x \in S /\ Closed(T, S) => Upwards(T, x) \subseteq S
<1>1. \A S \in SUBSET Node : x \in S /\ Closed(T, S) => Upwards(T, x) \subseteq S
  BY DEF Upwards
<1>2. Upwards(T, x) \in SUBSET Node /\ x \in Upwards(T, x)
  BY DEF Upwards
<1>3. ASSUME NEW z \in Upwards(T, x) \ {Root} PROVE T[z] \in Upwards(T, x)
  <2>1. z \in Node /\ T[z] \in Node
    BY <1>2
  <2>2. ASSUME NEW S \in SUBSET Node, x \in S, Closed(T, S) PROVE T[z] \in S
    <3>1. z \in S
      BY <1>1, <2>2
    <3>. QED
      BY <2>2, <3>1 DEF Closed
  <2>. QED
    BY <2>1, <2>2 DEF Upwards
<1>. QED
  BY <1>1, <1>2, <1>3 DEF Closed

\* The nodes above each, when nobody is its own ancestor.
LEMMA AboveExists ==
    ASSUME NEW T \in Trees, Rooted(T)
    PROVE  \E A : Above(T, A)
<1>. DEFINE Over(x) == Upwards(T, x)
<1>1. /\ T \in [Node -> Node \union {NoNode}] /\ T[Root] = NoNode /\ Root \in Node
      /\ \A n \in Node \ {Root} : T[n] \in Node
  BY TreeAssumption
<1>2. ASSUME NEW x \in Node
      PROVE  /\ Over(x) \in SUBSET Node /\ x \in Over(x) /\ Closed(T, Over(x))
             /\ \A S \in SUBSET Node : x \in S /\ Closed(T, S) => Over(x) \subseteq S
  BY <1>1, UpwardsLeast
<1>. HIDE DEF Over
<1>3. Over(Root) = {Root}
  <2>1. Closed(T, {Root})
    BY DEF Closed
  <2>. QED
    BY <1>1, <1>2, <2>1
<1>4. ASSUME NEW x \in Node, NEW y \in Over(x) PROVE Over(y) \subseteq Over(x)
  BY <1>2
<1>5. ASSUME NEW x \in Node \ {Root} PROVE Over(x) = {x} \union Over(T[x])
  <2>1. T[x] \in Node
    BY <1>1
  <2>2. T[x] \in Over(x)
    BY <1>2 DEF Closed
  <2>3. Over(T[x]) \subseteq Over(x)
    BY <1>4, <2>2
  <2>4. Closed(T, {x} \union Over(T[x]))
    <3>1. T[x] \in Over(T[x]) /\ Closed(T, Over(T[x]))
      BY <1>2, <2>1
    <3>. QED
      BY <3>1 DEF Closed
  <2>5. {x} \union Over(T[x]) \in SUBSET Node
    BY <1>2, <2>1
  <2>6. Over(x) \subseteq {x} \union Over(T[x])
    BY <1>2, <2>4, <2>5
  <2>. QED
    BY <1>2, <2>3, <2>6
<1>6. ASSUME NEW x \in Node PROVE Root \in Over(x)
  <2>. SUFFICES ASSUME Root \notin Over(x) PROVE FALSE
    OBVIOUS
  <2>1. Over(x) \in SUBSET (Node \ {Root}) /\ Over(x) # {}
    BY <1>2
  <2>2. PICK n \in Over(x) : T[n] \notin Over(x)
    BY <2>1 DEF Rooted
  <2>3. n # Root /\ Closed(T, Over(x))
    BY <1>2
  <2>. QED
    BY <2>2, <2>3 DEF Closed
<1>7. ASSUME NEW x \in Node \ {Root} PROVE x \notin Over(T[x])
  <2>. SUFFICES ASSUME x \in Over(T[x]) PROVE FALSE
    OBVIOUS
  <2>. DEFINE S == {y \in Over(x) : x \in Over(y)}
  <2>1. S \in SUBSET (Node \ {Root}) /\ S # {}
    BY <1>2, <1>3
  <2>2. ASSUME NEW y \in S PROVE T[y] \in S
    <3>1. y \in Node \ {Root} /\ y \in Over(x) /\ x \in Over(y)
      BY <2>1
    <3>2. T[y] \in Over(x)
      BY <1>2, <3>1 DEF Closed
    <3>3. x \in Over(T[y])
      BY <1>5, <3>1
    <3>. QED
      BY <3>2, <3>3
  <2>. HIDE DEF S
  <2>. QED
    BY <2>1, <2>2 DEF Rooted
<1>. DEFINE A == [n \in Node |-> Over(n) \ {n}]
<1>8. \A n \in Node : A[n] = Over(n) \ {n}
  OBVIOUS
<1>9. A \in [Node -> SUBSET Node]
  BY <1>2
<1>. HIDE DEF A
<1>10. ASSUME NEW n \in Node \ {Root} PROVE A[n] = Over(T[n]) /\ A[n] = A[T[n]] \union {T[n]}
  <2>1. T[n] \in Node /\ T[n] \in Over(T[n])
    BY <1>1, <1>2
  <2>2. A[n] = Over(T[n])
    <3>1. Over(n) = {n} \union Over(T[n]) /\ n \notin Over(T[n]) /\ A[n] = Over(n) \ {n}
      BY <1>5, <1>7, <1>8
    <3>. QED
      BY <3>1
  <2>3. A[T[n]] = Over(T[n]) \ {T[n]}
    BY <1>8, <2>1
  <2>. QED
    BY <2>1, <2>2, <2>3
<1>11. A[Root] = {}
  BY <1>1, <1>3, <1>8
<1>12. ASSUME NEW n \in Node, NEW y \in A[n] PROVE A[y] \subseteq A[n]
  <2>1. n # Root
    BY <1>11
  <2>2. T[n] \in Node /\ A[n] = Over(T[n])
    BY <1>1, <1>10, <2>1
  <2>3. y \in Node /\ Over(y) \subseteq Over(T[n])
    BY <1>2, <1>4, <2>2
  <2>. QED
    BY <1>8, <2>2, <2>3
<1>13. \A n \in Node : n \notin A[n] /\ (n # Root => Root \in A[n])
  BY <1>6, <1>8
<1>14. Above(T, A)
  BY <1>1, <1>9, <1>10, <1>11, <1>12, <1>13 DEF Above
<1>. QED
  BY <1>14

\* What lies above a node that is not the root.
LEMMA AboveStep ==
    ASSUME NEW T, NEW A, Above(T, A), NEW n \in Node, NEW s \in Node, T[s] = n
    PROVE  /\ s # Root /\ s # n /\ n \in A[s] /\ A[s] = A[n] \union {n} /\ s \notin A[n]
           /\ \A x \in Node : s \in A[x] => n \in A[x]
<1>1. s # Root
  BY DEF Above
<1>2. A[s] = A[n] \union {n} /\ s \notin A[s] /\ n \in A[s]
  BY <1>1 DEF Above
<1>. QED
  BY <1>1, <1>2 DEF Above

\* What keeps to these parents: nodes, and the messages and routes that they make.
\* A DAO comes from its target, or from a node above it, and goes to the next one.
Path(A, t) == A[t] \union {t}
DaoFits(T, A, l, m) ==
    /\ ~m.nopath /\ m.parent = T[m.target]
    /\ Storing => T[l[1]] = l[2] /\ l[1] \in Path(A, m.target)
    /\ ~Storing => l[1] = m.target
\* Nobody asks for an answer from below, so that the root gets none.
MsgFits(T, A, l, m) == /\ m.type = "dao" => DaoFits(T, A, l, m)
                       /\ m.type = "ack" => l[2] # Root
NodeFits(T, n) == node[n].parent \in {T[n], NoNode} /\ node[n].timer \in {T[n], NoNode}
HopFits(T, A, n, t, hop) == hop # NoNode => T[hop] = n /\ hop \in Path(A, t)
RouteFits(T, A, n, t) == ~route[n][t].nopath /\ HopFits(T, A, n, t, route[n][t].nexthop)
Frame(T, A) ==
    /\ \A n \in Node : NodeFits(T, n)
    /\ \A l \in Link : \A m \in Msgs(chan, l) : MsgFits(T, A, l, m)
    /\ \A n, t \in Node : RouteFits(T, A, n, t)

\* In storing mode.  Node x waits for the answer number q about t; such an answer is on
\* its way to x.
Has(x, t)     == route[x][t].nexthop # NoNode
Owns(x, t, q) == \/ x = t /\ q = node[x].my_dao_seqno
                 \/ route[x][t].pending /\ route[x][t].seqno_out = q
Acks(l)       == {m \in Msgs(chan, l) : m.type = "ack"}
Coming(x, t, ok) == \E l \in Link :
    l[2] = x /\ \E m \in Acks(l) : m.ok = ok /\ Owns(x, t, m.seq)

\* All nodes above x have a route for t, and none is about to lose it.
Ready(x, t)   == Has(x, t) /\ ~Coming(x, t, FALSE)
Up(A, x, t)   == \A y \in A[x] : Ready(y, t)
\* The route of x has been acknowledged.
Settled(x, t) == Has(x, t) /\ ~route[x][t].pending /\ route[x][t].seqno_in # 0
Est(A) == /\ \A x, t \in Node : Coming(x, t, TRUE) \/ Settled(x, t) => Up(A, x, t)
          /\ \A t \in Node : node[t].downward => Up(A, t, t)

\* In non-storing mode what has been acknowledged is the link at the root.
Told(T) == \A t \in Node :
    /\ link[t] \in {T[t], NoNode}
    /\ node[t].downward => t # Root /\ link[t] = T[t]
    /\ \A l \in Link : l[2] = t /\ Acks(l) # {} => link[t] = T[t]

Still(T, A) == Frame(T, A) /\ (Storing => Est(A)) /\ (~Storing => Told(T))

-----------------------------------------------------------------------------
(* Nothing is undone.                                                      *)

\* An answer that somebody waits for after a step was one before.
OldOnes == \A l \in Link : \A m \in Acks(l) : \A t \in Node :
                Owns(l[2], t, m.seq)' => Owns(l[2], t, m.seq)
\* A route is lost only by an answer that says so.
Kept == \A x, t \in Node : Has(x, t) => Has(x, t)' \/ Coming(x, t, FALSE)
\* A new answer that says yes comes from a node that is ready, and so are all above;
\* one that says no from one that is not.
NewYes(T, A, l, m) == \A t \in Node : Owns(l[2], t, m.seq)' =>
    LET n == T[l[2]] IN n \in Node /\ Ready(n, t)' /\ Up(A, n, t)
NewNo(T, A, l, m) == \A t \in Node : Owns(l[2], t, m.seq)' =>
    LET n == T[l[2]] IN n \in Node /\ ~Ready(n, t)
NewOnes(T, A) == \A l \in Link : \A m \in Acks(l)' : m \in Acks(l)
    \/ IF m.ok THEN NewYes(T, A, l, m) ELSE NewNo(T, A, l, m)

\* The nodes above stay ready.
LEMMA UpKept ==
    ASSUME TypeOK, TypeOK', NEW T, NEW A, Above(T, A), OldOnes, Kept, NewOnes(T, A),
           NEW x \in Node, NEW t \in Node, Up(A, x, t)
    PROVE  Up(A, x, t)'
<1>. SUFFICES ASSUME NEW y \in A[x] PROVE Ready(y, t)'
  BY DEF Up
<1>1. y \in Node /\ Ready(y, t)
  BY DEF Up, Above
<1>2. Has(y, t)'
  BY <1>1 DEF Kept, Ready
<1>3. ASSUME Coming(y, t, FALSE)' PROVE FALSE
  <2>1. PICK l \in Link : l[2] = y /\ \E m \in Acks(l)' : m.ok = FALSE /\ Owns(y, t, m.seq)'
    BY <1>3 DEF Coming
  <2>2. PICK m \in Acks(l)' : m.ok = FALSE /\ Owns(y, t, m.seq)'
    BY <2>1
  <2>3. CASE m \in Acks(l)
    <3>1. Owns(y, t, m.seq)
      BY <1>1, <2>1, <2>2, <2>3 DEF OldOnes
    <3>2. Coming(y, t, FALSE)
      BY <2>1, <2>2, <2>3, <3>1 DEF Coming
    <3>. QED
      BY <1>1, <3>2 DEF Ready
  <2>4. CASE m \notin Acks(l)
    <3>1. NewNo(T, A, l, m)
      BY <2>2, <2>4 DEF NewOnes
    <3>2. PICK n \in Node : n = T[y] /\ ~Ready(n, t)
      BY <2>1, <2>2, <3>1 DEF NewNo
    <3>3. n \in A[x]
      BY <1>1, <3>2, AboveStep
    <3>. QED
      BY <3>2, <3>3 DEF Up
  <2>. QED
    BY <2>3, <2>4
<1>. QED
  BY <1>2, <1>3 DEF Ready

\* So a step has to answer for what it adds.
LEMMA EstKept ==
    ASSUME TypeOK, TypeOK', NEW T, NEW A, Above(T, A), Est(A), OldOnes, Kept, NewOnes(T, A),
           \A x, t \in Node : Settled(x, t)' => Settled(x, t) \/ Up(A, x, t),
           \A t \in Node : node'[t].downward => node[t].downward \/ Up(A, t, t)
    PROVE  Est(A)'
<1>1. ASSUME NEW x \in Node, NEW t \in Node, Up(A, x, t) PROVE Up(A, x, t)'
  BY <1>1, UpKept
<1>2. ASSUME NEW x \in Node, NEW t \in Node, Settled(x, t)' PROVE Up(A, x, t)'
  BY <1>1, <1>2 DEF Est
<1>3. ASSUME NEW t \in Node, node'[t].downward PROVE Up(A, t, t)'
  BY <1>1, <1>3 DEF Est
<1>4. ASSUME NEW x \in Node, NEW t \in Node, Coming(x, t, TRUE)' PROVE Up(A, x, t)'
  <2>1. PICK l \in Link : l[2] = x /\ \E m \in Acks(l)' : m.ok = TRUE /\ Owns(x, t, m.seq)'
    BY <1>4 DEF Coming
  <2>2. PICK m \in Acks(l)' : m.ok = TRUE /\ Owns(x, t, m.seq)'
    BY <2>1
  <2>3. CASE m \in Acks(l)
    <3>1. Owns(x, t, m.seq)
      BY <2>1, <2>2, <2>3 DEF OldOnes
    <3>2. Coming(x, t, TRUE)
      BY <2>1, <2>2, <2>3, <3>1 DEF Coming
    <3>. QED
      BY <1>1, <3>2 DEF Est
  <2>4. CASE m \notin Acks(l)
    <3>1. NewYes(T, A, l, m)
      BY <2>2, <2>4 DEF NewOnes
    <3>2. PICK n \in Node : n = T[x] /\ Ready(n, t)' /\ Up(A, n, t)
      BY <2>1, <2>2, <3>1 DEF NewYes
    <3>3. A[x] = A[n] \union {n}
      BY <3>2, AboveStep
    <3>4. Up(A, n, t)'
      BY <1>1, <3>2
    <3>. QED
      BY <3>2, <3>3, <3>4 DEF Up
  <2>. QED
    BY <2>3, <2>4
<1>. QED
  BY <1>2, <1>3, <1>4 DEF Est

\* A step has to answer for the messages and routes that it adds.
LEMMA StillKept ==
    ASSUME TypeOK, NEW T, NEW A, Still(T, A), mode' = mode,
           \A n \in Node : NodeFits(T, n) => NodeFits(T, n)',
           \A l \in Link : \A m \in Msgs(chan', l) :
                m \in Msgs(chan, l) \/ MsgFits(T, A, l, m),
           \A n, t \in Node : RouteFits(T, A, n, t) => RouteFits(T, A, n, t)',
           Storing => Est(A)', ~Storing => Told(T)'
    PROVE  Still(T, A)'
<1>1. Frame(T, A) /\ Storing' = Storing
  BY DEF Still, Storing
<1>2. \A n \in Node : NodeFits(T, n)'
  BY <1>1 DEF Frame
<1>3. \A n, t \in Node : RouteFits(T, A, n, t)'
  BY <1>1 DEF Frame
<1>4. ASSUME NEW l \in Link, NEW m \in Msgs(chan', l) PROVE MsgFits(T, A, l, m)'
  <2>1. MsgFits(T, A, l, m)
    BY <1>1 DEF Frame
  <2>. QED
    BY <1>1, <2>1 DEF MsgFits, DaoFits
<1>. QED
  BY <1>1, <1>2, <1>3, <1>4 DEF Still, Frame

\* A step after which there are no more messages than before, and the routes are
\* those of before, unless a node takes an answer to its own DAO.
Answered(k) == \E l \in Link : l[2] = k /\ \E m \in Acks(l) :
    m.ok = TRUE /\ m.seq = node[k].my_dao_seqno

\* Such a step undoes nothing, and the nodes above a node that is answered are ready.
LEMMA QuietStill ==
    ASSUME TypeOK, TypeOK', NEW T, NEW A, Above(T, A), Still(T, A),
           mode' = mode, route' = route, link' = link,
           \A l \in Link : Msgs(chan', l) \subseteq Msgs(chan, l),
           \A k \in Node : /\ node'[k].my_dao_seqno = node[k].my_dao_seqno
                           /\ node'[k].parent \in {node[k].parent, NoNode}
                           /\ node'[k].timer \in {node[k].timer, NoNode}
                           /\ node'[k].downward => node[k].downward \/ Answered(k)
    PROVE  Still(T, A)'
<1>1. \A n \in Node : NodeFits(T, n) => NodeFits(T, n)'
  BY DEF NodeFits
<1>2. \A n, t \in Node : RouteFits(T, A, n, t) => RouteFits(T, A, n, t)'
  BY DEF RouteFits
<1>3. \A l \in Link : Acks(l)' \subseteq Acks(l)
  BY DEF Acks
<1>4. ASSUME Storing PROVE Est(A)'
  <2>1. Est(A)
    BY <1>4 DEF Still
  <2>2. \A x, t \in Node : \A q : Owns(x, t, q)' <=> Owns(x, t, q)
    BY DEF Owns
  <2>3. OldOnes
    <3>1. \A l \in Link : l[2] \in Node
      BY DEF Link
    <3>. QED
      BY <2>2, <3>1 DEF OldOnes
  <2>4. Kept /\ NewOnes(T, A)
    BY <1>3 DEF Kept, Has, NewOnes
  <2>5. \A x, t \in Node : Settled(x, t)' => Settled(x, t) \/ Up(A, x, t)
    BY DEF Settled, Has
  <2>6. ASSUME NEW t \in Node, Answered(t) PROVE Up(A, t, t)
    <3>1. Coming(t, t, TRUE)
      BY <2>6 DEF Answered, Coming, Owns
    <3>. QED
      BY <2>1, <3>1 DEF Est
  <2>7. \A t \in Node : node'[t].downward => node[t].downward \/ Up(A, t, t)
    BY <2>6
  <2>. QED
    BY <2>1, <2>3, <2>4, <2>5, <2>7, EstKept
<1>5. ASSUME ~Storing PROVE Told(T)'
  <2>1. Told(T) /\ Frame(T, A)
    BY <1>5 DEF Still
  <2>2. ASSUME NEW t \in Node, Answered(t) PROVE t # Root /\ link[t] = T[t]
    <3>1. PICK l \in Link : l[2] = t /\ Acks(l) # {}
      BY <2>2 DEF Answered
    <3>2. PICK m \in Msgs(chan, l) : m.type = "ack"
      BY <3>1 DEF Acks
    <3>3. l[2] # Root
      BY <2>1, <3>2 DEF Frame, MsgFits
    <3>. QED
      BY <2>1, <3>1, <3>3 DEF Told
  <2>. QED
    BY <1>3, <2>1, <2>2 DEF Told
<1>. QED
  BY <1>1, <1>2, <1>4, <1>5, StillKept

\* Messages that are dropped, and timers that run out.
LEMMA DroppedStill ==
    ASSUME TypeOK, TypeOK', NEW T, NEW A, Above(T, A), Still(T, A),
           NEW s \in Node, NEW n \in Node, s # n,
           DaoLoop(s, n) \/ StrayAck(s, n) \/ Lose(s, n)
    PROVE  Still(T, A)'
<1>1. /\ chan[<<s, n>>] # <<>> /\ chan' = Received(s, n)
      /\ mode' = mode /\ node' = node /\ route' = route /\ link' = link
  BY DEF DaoLoop, StrayAck, Lose, Arrives
<1>2. \A l \in Link : Msgs(chan', l) \subseteq Msgs(chan, l)
  BY <1>1, ArrivalType
<1>. QED
  BY <1>1, <1>2, QuietStill

\* Giving up, a node at most leaves its parent and stops to believe in its route.
LEMMA GiveUpStill ==
    ASSUME TypeOK, TypeOK', NEW T, NEW A, Above(T, A), Still(T, A),
           NEW n \in Node, GiveUp(n)
    PROVE  Still(T, A)'
<1>. DEFINE me == [node[n] EXCEPT !.timer = NoNode]
<1>1. /\ node' = [node EXCEPT ![n] = IF mode.infinite THEN me ELSE LocalRepair(me)]
      /\ mode' = mode /\ route' = route /\ link' = link /\ chan' = chan
  BY DEF GiveUp
<1>2. node[n] \in NodeState /\ node \in [Node -> NodeState]
  BY DEF TypeOK
<1>3. /\ node'[n] = IF mode.infinite THEN me ELSE LocalRepair(me)
      /\ \A k \in Node \ {n} : node'[k] = node[k]
  BY <1>1, <1>2
<1>4. /\ me.my_dao_seqno = node[n].my_dao_seqno /\ me.parent = node[n].parent
      /\ me.timer = NoNode /\ me.downward = node[n].downward
      /\ LocalRepair(me).my_dao_seqno = node[n].my_dao_seqno
      /\ LocalRepair(me).parent = NoNode /\ LocalRepair(me).timer = NoNode
      /\ LocalRepair(me).downward = FALSE
  BY <1>2 DEF LocalRepair, NodeState
<1>. HIDE DEF me
<1>5. \A k \in Node : /\ node'[k].my_dao_seqno = node[k].my_dao_seqno
                      /\ node'[k].parent \in {node[k].parent, NoNode}
                      /\ node'[k].timer \in {node[k].timer, NoNode}
                      /\ node'[k].downward => node[k].downward
  BY <1>3, <1>4
<1>. QED
  BY <1>1, <1>5, QuietStill

\* The answer to a node's own DAO: the nodes above are ready.
LEMMA OwnAckStill ==
    ASSUME TypeOK, TypeOK', NEW T, NEW A, Above(T, A), Still(T, A),
           NEW s \in Node, NEW n \in Node, s # n, OwnAck(s, n)
    PROVE  Still(T, A)'
<1>. DEFINE m == Head(chan[<<s, n>>])
<1>1. /\ chan[<<s, n>>] # <<>> /\ m.type = "ack" /\ m.seq = node[n].my_dao_seqno
      /\ node' = [node EXCEPT ![n].downward = m.ok, ![n].timer = NoNode]
      /\ chan' = Received(s, n) /\ mode' = mode /\ route' = route /\ link' = link
  BY DEF OwnAck, Arrives
<1>2. /\ <<s, n>> \in Link /\ m \in Messages /\ m \in Msgs(chan, <<s, n>>)
      /\ \A l \in Link : Msgs(chan', l) \subseteq Msgs(chan, l)
  BY <1>1, ArrivalType
<1>. HIDE DEF m
<1>3. m.ok \in BOOLEAN
  BY <1>1, <1>2, MessageTypes
<1>4. node[n] \in NodeState /\ node \in [Node -> NodeState]
  BY DEF TypeOK
<1>5. /\ node'[n] = [node[n] EXCEPT !.downward = m.ok, !.timer = NoNode]
      /\ \A k \in Node \ {n} : node'[k] = node[k]
  BY <1>1, <1>4
<1>6. /\ node'[n].my_dao_seqno = node[n].my_dao_seqno
      /\ node'[n].parent = node[n].parent
      /\ node'[n].timer = NoNode /\ node'[n].downward = m.ok
  BY <1>4, <1>5 DEF NodeState
<1>7. m.ok => Answered(n)
  <2>1. <<s, n>>[2] = n /\ m \in Acks(<<s, n>>)
    BY <1>1, <1>2 DEF Acks
  <2>2. \E l \in Link : l[2] = n /\ m \in Acks(l)
    BY <1>2, <2>1
  <2>. QED
    BY <1>1, <1>3, <2>2 DEF Answered
<1>8. \A k \in Node : /\ node'[k].my_dao_seqno = node[k].my_dao_seqno
                      /\ node'[k].parent \in {node[k].parent, NoNode}
                      /\ node'[k].timer \in {node[k].timer, NoNode}
                      /\ node'[k].downward => node[k].downward \/ Answered(k)
  BY <1>5, <1>6, <1>7, ZenonT(60)
<1>. QED
  BY <1>1, <1>2, <1>8, QuietStill

\* A DAO that its target sends: with a number it has had, or a new one, that no
\* answer on the way can have.
Sending(n, seq, p) ==
    /\ chan' = Sent(chan, n, Destination(p), Dao(n, seq, FALSE, p, seq))
    /\ mode' = mode /\ route' = route /\ link' = link
    /\ \A k \in Node \ {n} : node'[k] = node[k]
    /\ node'[n].parent = node[n].parent /\ node'[n].timer \in {p, NoNode}
    /\ node'[n].downward = node[n].downward /\ node'[n].my_dao_seqno = seq
    /\ \/ seq = node[n].my_dao_seqno
       \/ \A l \in Link : l[2] = n => \A m \in Acks(l) : m.seq # seq

\* Neither the routes nor the answers change by it.
LEMMA SendingStill ==
    ASSUME TypeOK, TypeOK', NEW T, NEW A, Above(T, A), Still(T, A),
           NEW n \in Node, NEW seq \in Seqs, NEW p, p = T[n], p \in Node,
           Sending(n, seq, p)
    PROVE  Still(T, A)'
<1>. DEFINE dao == Dao(n, seq, FALSE, p, seq)
<1>0. mode' = mode /\ route' = route /\ link' = link
  BY DEF Sending
<1>1. /\ dao.type = "dao" /\ dao.target = n /\ ~dao.nopath /\ dao.parent = p
      /\ dao \in Messages /\ chan \in [Link -> Seq(Messages)]
  <2>1. dao \in Messages
    BY MessageTypes
  <2>. QED
    BY <2>1 DEF Dao, TypeOK
<1>2. chan' = Sent(chan, n, Destination(p), dao)
  BY DEF Sending
<1>. HIDE DEF dao
<1>3. \A l \in Link : \A m \in Msgs(chan', l) :
        m \in Msgs(chan, l) \/ (l[1] = n /\ l[2] = Destination(p) /\ m = dao)
  BY <1>1, <1>2, SentNew
<1>4. ASSUME NEW l \in Link, l[1] = n, l[2] = Destination(p) PROVE MsgFits(T, A, l, dao)
  <2>1. DaoFits(T, A, l, dao)
    BY <1>1, <1>4 DEF DaoFits, Destination, Path
  <2>. QED
    BY <1>1, <2>1 DEF MsgFits
<1>5. ASSUME NEW l \in Link, NEW m \in Msgs(chan', l)
      PROVE  m \in Msgs(chan, l) \/ MsgFits(T, A, l, m)
  <2>1. m \in Msgs(chan, l) \/ (l[1] = n /\ l[2] = Destination(p) /\ m = dao)
    BY <1>3
  <2>. QED
    BY <1>4, <2>1
<1>6. \A l \in Link : Acks(l)' \subseteq Acks(l)
  BY <1>1, <1>3 DEF Acks
<1>7. \A k \in Node : NodeFits(T, k) => NodeFits(T, k)'
  <2>1. NodeFits(T, n) => NodeFits(T, n)'
    BY DEF NodeFits, Sending
  <2>2. ASSUME NEW k \in Node, k # n, NodeFits(T, k) PROVE NodeFits(T, k)'
    BY <2>2 DEF NodeFits, Sending
  <2>. QED
    BY <2>1, <2>2
<1>8. \A k, t \in Node : RouteFits(T, A, k, t) => RouteFits(T, A, k, t)'
  BY <1>0 DEF RouteFits
<1>9. ASSUME Storing PROVE Est(A)'
  <2>1. Est(A)
    BY <1>9 DEF Still
  <2>2. OldOnes
    <3>. SUFFICES ASSUME NEW l \in Link, NEW m \in Acks(l), NEW t \in Node,
                         Owns(l[2], t, m.seq)'
                  PROVE  Owns(l[2], t, m.seq)
      BY DEF OldOnes
    <3>1. l[2] \in Node
      BY DEF Link
    <3>2. CASE l[2] # n
      BY <1>0, <3>1, <3>2 DEF Owns, Sending
    <3>3. CASE l[2] = n
      BY <1>0, <3>1, <3>3 DEF Owns, Sending
    <3>. QED
      BY <3>2, <3>3
  <2>3. Kept /\ NewOnes(T, A)
    BY <1>0, <1>6 DEF Kept, Has, NewOnes
  <2>4. \A x, t \in Node : Settled(x, t)' => Settled(x, t) \/ Up(A, x, t)
    BY <1>0 DEF Settled, Has
  <2>5. \A t \in Node : node'[t].downward => node[t].downward \/ Up(A, t, t)
    BY DEF Sending
  <2>. QED
    BY <2>1, <2>2, <2>3, <2>4, <2>5, EstKept
<1>10. ASSUME ~Storing PROVE Told(T)'
  <2>1. Told(T)
    BY <1>10 DEF Still
  <2>2. \A t \in Node : node'[t].downward => node[t].downward
    BY DEF Sending
  <2>. QED
    BY <1>0, <1>6, <2>1, <2>2 DEF Told
<1>. QED
  BY <1>0, <1>5, <1>7, <1>8, <1>9, <1>10, StillKept

\* A repetition has the number it had.
LEMMA RetransmitStill ==
    ASSUME TypeOK, TypeOK', NEW T, NEW A, Above(T, A), Still(T, A),
           NEW n \in Node, Retransmit(n)
    PROVE  Still(T, A)'
<1>1. PICK p, seq : p = node[n].timer /\ seq = node[n].my_dao_seqno
  OBVIOUS
<1>2. node[n] \in NodeState /\ node \in [Node -> NodeState]
  BY DEF TypeOK
<1>3. /\ node'[n] = [node[n] EXCEPT !.my_dao_transmissions = @ + 1]
      /\ \A k \in Node \ {n} : node'[k] = node[k]
      /\ chan' = Sent(chan, n, Destination(p), Dao(n, seq, FALSE, p, seq))
      /\ mode' = mode /\ route' = route /\ link' = link /\ p # NoNode
  BY <1>1, <1>2 DEF Retransmit
<1>4. p \in Node /\ seq \in Seqs
  BY <1>1, <1>2, <1>3, NodeType
<1>5. p = T[n]
  BY <1>1, <1>3 DEF Still, Frame, NodeFits
<1>6. /\ node'[n].parent = node[n].parent /\ node'[n].timer = p
      /\ node'[n].downward = node[n].downward /\ node'[n].my_dao_seqno = seq
  BY <1>1, <1>2, <1>3 DEF NodeState
<1>7. Sending(n, seq, p)
  BY <1>1, <1>3, <1>6 DEF Sending
<1>. QED
  BY <1>4, <1>5, <1>7, SendingStill

\* A registration has the next number, which is no acknowledgement's on the way.
LEMMA DaoOutputStill ==
    ASSUME TypeOK, TypeOK', NoWrap, NEW f \in Tables, Good(f),
           NEW T, NEW A, Above(T, A), Still(T, A), NEW n \in Node, DaoOutput(n)
    PROVE  Still(T, A)'
<1>1. PICK p, seq : p = node[n].parent /\ seq = Incremented(node[n].dao_sequence)
  OBVIOUS
<1>2. node[n] \in NodeState /\ node \in [Node -> NodeState]
  BY DEF TypeOK
<1>3. /\ node'[n] = [node[n] EXCEPT !.dao_sequence = seq, !.my_dao_seqno = seq,
                                    !.my_dao_transmissions = 1, !.timer = p]
      /\ \A k \in Node \ {n} : node'[k] = node[k]
      /\ mode' = mode /\ route' = route /\ link' = link /\ p # NoNode
      /\ chan' = Sent(chan, n, Destination(p), Dao(n, node'[n].my_dao_seqno, FALSE, p,
                                                   node'[n].my_dao_seqno))
  BY <1>1, <1>2 DEF DaoOutput, Registering
<1>4. /\ node'[n].parent = node[n].parent /\ node'[n].timer = p
      /\ node'[n].downward = node[n].downward /\ node'[n].my_dao_seqno = seq
      /\ node'[n].dao_sequence = seq
  BY <1>2, <1>3 DEF NodeState
<1>5. p \in Node /\ seq \in Seqs
  BY <1>1, <1>2, <1>3, NodeType, SeqType
<1>6. p = T[n]
  BY <1>1, <1>3 DEF Still, Frame, NodeFits
<1>7. seq = node[n].dao_sequence + 1
  <2>1. seq >= node[n].dao_sequence
    BY <1>4 DEF NoWrap
  <2>. QED
    BY <1>1, <2>1, CounterType DEF Incremented
<1>8. ASSUME NEW l \in Link, l[2] = n, NEW m \in Acks(l) PROVE m.seq # seq
  <2>1. m.seq \in Numbers(n)
    BY <1>8 DEF Acks, Good, MessageOK, AckOK
  <2>. QED
    BY <1>7, <2>1, CounterType DEF Numbers
<1>9. Sending(n, seq, p)
  BY <1>3, <1>4, <1>8 DEF Sending
<1>. QED
  BY <1>5, <1>6, <1>9, SendingStill

-----------------------------------------------------------------------------
(* The routers.                                                            *)

\* A number that a node waits for is about the target it waits for.
LEMMA OwnedAbout ==
    ASSUME TypeOK, NEW f, Good(f), NEW x \in Node, NEW t \in Node, NEW q, q # 0, Owns(x, t, q)
    PROVE  f[x][q][1] = t
<1>1. CASE x = t /\ q = node[x].my_dao_seqno
  <2>1. NodeOK(f, x)
    BY DEF Good
  <2>2. f[x][q] = <<x, q>>
    BY <1>1, <2>1 DEF NodeOK
  <2>. QED
    BY <1>1, <2>2
<1>2. CASE route[x][t].pending /\ route[x][t].seqno_out = q
  BY <1>2 DEF Good, RouteOK
<1>. QED
  BY <1>1, <1>2 DEF Owns

\* A DAO reaches a node that is above its target from the node below.
LEMMA DaoArrival ==
    ASSUME TypeOK, NEW f, Good(f), NEW T, NEW A, Above(T, A), Still(T, A), Storing,
           NEW s \in Node, NEW n \in Node, s # n, Arrives(s, n, "dao"),
           NEW m, m = Head(chan[<<s, n>>])
    PROVE  /\ m \in Messages /\ m.target \in Node /\ ~m.nopath /\ m.seq # 0
           /\ m.seq \in Seqs /\ f[s][m.seq][1] = m.target
           /\ \A t \in Node : Owns(s, t, m.seq) => t = m.target
           /\ Received(s, n) \in [Link -> Seq(Messages)]
           /\ \A l \in Link : Msgs(Received(s, n), l) \subseteq Msgs(chan, l)
           /\ T[s] = n /\ s # Root /\ n # m.target
           /\ s \in Path(A, m.target) /\ n \in Path(A, m.target)
<1>1. chan[<<s, n>>] # <<>> /\ m.type = "dao"
  BY DEF Arrives
<1>2. /\ <<s, n>> \in Link /\ m \in Messages /\ m \in Msgs(chan, <<s, n>>)
      /\ Received(s, n) \in [Link -> Seq(Messages)]
      /\ \A l \in Link : Msgs(Received(s, n), l) \subseteq Msgs(chan, l)
  BY <1>1, ArrivalType
<1>3. m.target \in Node /\ m.seq \in Numbers(s) /\ f[s][m.seq] = About(m)
  <2>1. DaoOK(f, <<s, n>>, m)
    BY <1>1, <1>2 DEF Good, MessageOK
  <2>. QED
    BY <1>1, <1>2, <2>1, MessageTypes DEF DaoOK
<1>4. m.seq # 0 /\ m.seq \in Seqs /\ f[s][m.seq][1] = m.target
  BY <1>3, CounterType DEF About
<1>5. \A t \in Node : Owns(s, t, m.seq) => t = m.target
  BY <1>4, OwnedAbout
<1>6. DaoFits(T, A, <<s, n>>, m)
  BY <1>1, <1>2 DEF Still, Frame, MsgFits
<1>7. ~m.nopath /\ T[s] = n /\ s \in Path(A, m.target)
  BY <1>6 DEF DaoFits
<1>8. s # Root /\ n \in A[s]
  BY <1>7, AboveStep
<1>9. n \in A[m.target] /\ m.target \notin A[m.target]
  BY <1>3, <1>7, <1>8 DEF Path, Above
<1>10. n # m.target /\ n \in Path(A, m.target)
  BY <1>9 DEF Path
<1>. QED
  BY <1>2, <1>3, <1>4, <1>5, <1>7, <1>8, <1>10

\* A full table says no to the node below, which has no route here.
LEMMA DaoRefusedStill ==
    ASSUME TypeOK, TypeOK', NEW f, Good(f), NEW T, NEW A, Above(T, A), Still(T, A),
           NEW s \in Node, NEW n \in Node, s # n, DaoRefused(s, n)
    PROVE  Still(T, A)'
<1>1. PICK m : m = Head(chan[<<s, n>>])
  OBVIOUS
<1>. DEFINE ack == Ack(m.seq, FALSE)
<1>2. /\ Storing /\ Arrives(s, n, "dao") /\ ~Fits(n, m.target)
      /\ chan' = Sent(Received(s, n), n, s, ack)
      /\ mode' = mode /\ node' = node /\ route' = route /\ link' = link
  BY <1>1 DEF DaoRefused
<1>3. /\ m \in Messages /\ m.target \in Node /\ m.seq \in Seqs
      /\ \A t \in Node : Owns(s, t, m.seq) => t = m.target
      /\ Received(s, n) \in [Link -> Seq(Messages)]
      /\ \A l \in Link : Msgs(Received(s, n), l) \subseteq Msgs(chan, l)
      /\ T[s] = n /\ s # Root
  BY <1>1, <1>2, DaoArrival
<1>4. ack \in Messages /\ ack.type = "ack" /\ ack.seq = m.seq /\ ack.ok = FALSE
  BY <1>3, MessageTypes DEF Ack
<1>. HIDE DEF ack
<1>5. \A l \in Link : \A x \in Msgs(chan', l) :
        x \in Msgs(Received(s, n), l) \/ (l[1] = n /\ l[2] = s /\ x = ack)
  BY <1>2, <1>3, <1>4, SentNew
<1>6. \A l \in Link : \A x \in Msgs(chan', l) :
        x \in Msgs(chan, l) \/ (l[1] = n /\ l[2] = s /\ x = ack)
  BY <1>3, <1>5
<1>7. ASSUME NEW l \in Link, NEW x \in Msgs(chan', l)
      PROVE  x \in Msgs(chan, l) \/ MsgFits(T, A, l, x)
  BY <1>3, <1>4, <1>6 DEF MsgFits
<1>8. ~Has(n, m.target)
  BY <1>2 DEF Fits, Has, NoRoute
<1>9. \A x, t \in Node : \A q : Owns(x, t, q)' <=> Owns(x, t, q)
  BY <1>2 DEF Owns
<1>10. OldOnes /\ Kept
  <2>1. \A l \in Link : l[2] \in Node
    BY DEF Link
  <2>. QED
    BY <1>2, <1>9, <2>1 DEF OldOnes, Kept, Has
<1>11. NewOnes(T, A)
  <2>. SUFFICES ASSUME NEW l \in Link, NEW x \in Acks(l)', x \notin Acks(l)
                PROVE  ~x.ok /\ NewNo(T, A, l, x)
    BY DEF NewOnes
  <2>1. l[2] = s /\ x = ack
    BY <1>6 DEF Acks
  <2>2. ASSUME NEW t \in Node, Owns(l[2], t, x.seq)'
        PROVE  T[l[2]] \in Node /\ ~Ready(T[l[2]], t)
    <3>1. t = m.target
      BY <1>3, <1>4, <1>9, <2>1, <2>2
    <3>. QED
      BY <1>3, <1>8, <2>1, <3>1 DEF Ready
  <2>. QED
    BY <1>4, <2>1, <2>2 DEF NewNo
<1>12. Est(A)
  BY <1>2 DEF Still
<1>13. /\ \A x, t \in Node : Settled(x, t)' => Settled(x, t)
       /\ \A t \in Node : node'[t].downward => node[t].downward
  BY <1>2 DEF Settled, Has
<1>14. Est(A)'
  BY <1>10, <1>11, <1>12, <1>13, EstKept
<1>15. /\ \A k \in Node : NodeFits(T, k) => NodeFits(T, k)'
       /\ \A k, t \in Node : RouteFits(T, A, k, t) => RouteFits(T, A, k, t)'
  BY <1>2 DEF NodeFits, RouteFits
<1>. QED
  BY <1>2, <1>7, <1>14, <1>15, StillKept

\* What comes from above is passed on to the node below, and the route is kept
\* or taken away accordingly.
LEMMA ForwardAckStill ==
    ASSUME TypeOK, TypeOK', NEW f, Good(f), NEW T, NEW A, Above(T, A), Still(T, A),
           NEW s \in Node, NEW n \in Node, s # n, ForwardAck(s, n)
    PROVE  Still(T, A)'
<1>1. PICK m : m = Head(chan[<<s, n>>])
  OBVIOUS
<1>2. /\ Storing /\ Arrives(s, n, "ack")
      /\ mode' = mode /\ node' = node /\ link' = link
  BY DEF ForwardAck
<1>3. PICK t \in AckFor(n, m.seq) :
        /\ chan' = Sent(Received(s, n), n, route[n][t].nexthop, NumberBelow(route[n][t], m))
        /\ route' = [route EXCEPT ![n][t] = IF m.ok THEN [route[n][t] EXCEPT !.pending = FALSE]
                                             ELSE NoRoute]
  BY <1>1 DEF ForwardAck
<1>4. t \in Node /\ route[n][t].pending /\ route[n][t].seqno_out = m.seq
  BY <1>3 DEF AckFor
<1>5. PICK hop, in : hop = route[n][t].nexthop /\ in = route[n][t].seqno_in
  OBVIOUS
<1>6. route[n][t] \in Entries /\ route \in [Node -> [Node -> Entries]] /\ in \in Seqs
  BY <1>4, <1>5, EntryType DEF TypeOK
<1>7. /\ chan[<<s, n>>] # <<>> /\ m.type = "ack" /\ <<s, n>> \in Link
      /\ m \in Messages /\ m \in Msgs(chan, <<s, n>>)
      /\ Received(s, n) \in [Link -> Seq(Messages)]
      /\ \A l \in Link : Msgs(Received(s, n), l) \subseteq Msgs(chan, l)
      /\ m.ok \in BOOLEAN /\ m.seq \in Numbers(n)
  <2>1. chan[<<s, n>>] # <<>> /\ m.type = "ack"
    BY <1>1, <1>2 DEF Arrives
  <2>2. /\ <<s, n>> \in Link /\ m \in Messages /\ m \in Msgs(chan, <<s, n>>)
        /\ Received(s, n) \in [Link -> Seq(Messages)]
        /\ \A l \in Link : Msgs(Received(s, n), l) \subseteq Msgs(chan, l)
    BY <1>1, <2>1, ArrivalType
  <2>3. MessageOK(f, <<s, n>>, m)
    BY <2>2 DEF Good
  <2>4. m.seq \in Numbers(n)
    BY <2>1, <2>3, SMTT(30) DEF MessageOK, AckOK
  <2>. QED
    BY <2>1, <2>2, <2>4, MessageTypes
<1>8. /\ hop \in Node /\ in \in Numbers(hop) /\ f[n][m.seq] = f[hop][in] /\ f[n][m.seq][1] = t
  BY <1>4, <1>5 DEF Good, RouteOK
<1>9. in # 0 /\ f[hop][in][1] = t
  BY <1>8, CounterType
<1>10. T[hop] = n /\ hop \in Path(A, t)
  BY <1>4, <1>5, <1>8 DEF Still, Frame, RouteFits, HopFits
<1>11. hop # Root /\ hop # n /\ n # t
  <2>1. hop # Root /\ hop # n /\ n \in A[hop]
    BY <1>8, <1>10, AboveStep
  <2>2. n \in A[t] /\ t \notin A[t]
    BY <1>4, <1>10, <2>1 DEF Path, Above
  <2>. QED
    BY <2>1, <2>2
<1>. DEFINE ack == NumberBelow(route[n][t], m)
<1>12. ack \in Messages /\ ack.type = "ack" /\ ack.seq = in /\ ack.ok = m.ok
  <2>1. m \in AckMessages /\ ack = [m EXCEPT !.seq = in]
    BY <1>5, <1>7, MessageKinds DEF NumberBelow
  <2>2. ack \in AckMessages /\ ack.type = "ack" /\ ack.seq = in /\ ack.ok = m.ok
    BY <1>6, <2>1 DEF AckMessages
  <2>. QED
    BY <2>2, MessageKinds
<1>13. chan' = Sent(Received(s, n), n, hop, ack)
  BY <1>3, <1>5
<1>. HIDE DEF ack
<1>14. \A l \in Link : \A x \in Msgs(chan', l) :
         x \in Msgs(Received(s, n), l) \/ (l[1] = n /\ l[2] = hop /\ x = ack)
  BY <1>7, <1>12, <1>13, SentNew
<1>15. \A l \in Link : \A x \in Msgs(chan', l) :
         x \in Msgs(chan, l) \/ (l[1] = n /\ l[2] = hop /\ x = ack)
  BY <1>7, <1>14
<1>16. ASSUME NEW l \in Link, NEW x \in Msgs(chan', l)
       PROVE  x \in Msgs(chan, l) \/ MsgFits(T, A, l, x)
  BY <1>11, <1>12, <1>15 DEF MsgFits
<1>17. /\ route'[n][t] = IF m.ok THEN [route[n][t] EXCEPT !.pending = FALSE] ELSE NoRoute
       /\ \A k, u \in Node : ~(k = n /\ u = t) => route'[k][u] = route[k][u]
  BY <1>3, <1>4, <1>6, ZenonT(60)
<1>18. /\ m.ok => /\ route'[n][t].nexthop = hop /\ ~route'[n][t].pending
                  /\ route'[n][t].nopath = route[n][t].nopath
       /\ ~m.ok => /\ route'[n][t].nexthop = NoNode /\ ~route'[n][t].pending
                   /\ ~route'[n][t].nopath
  <2>1. m.ok => route'[n][t] = [route[n][t] EXCEPT !.pending = FALSE]
    BY <1>17
  <2>2. ASSUME m.ok
        PROVE  /\ route'[n][t].nexthop = hop /\ ~route'[n][t].pending
               /\ route'[n][t].nopath = route[n][t].nopath
    BY <1>5, <1>6, <2>1, <2>2, SMTT(30) DEF Entries
  <2>3. ~m.ok => route'[n][t] = NoRoute
    BY <1>17
  <2>4. NoRoute.nexthop = NoNode /\ NoRoute.pending = FALSE /\ NoRoute.nopath = FALSE
    BY DEF NoRoute
  <2>. QED
    BY <2>2, <2>3, <2>4
<1>19. ASSUME NEW x \in Node, NEW u \in Node, NEW q, Owns(x, u, q)' PROVE Owns(x, u, q)
  <2>1. node' = node
    BY <1>2
  <2>2. CASE x = u /\ q = node'[x].my_dao_seqno
    BY <2>1, <2>2 DEF Owns
  <2>3. CASE route'[x][u].pending /\ route'[x][u].seqno_out = q
    <3>1. ~(x = n /\ u = t)
      BY <1>18, <2>3
    <3>2. route'[x][u] = route[x][u]
      BY <1>17, <3>1
    <3>. QED
      BY <2>3, <3>2 DEF Owns
  <2>. QED
    BY <1>19, <2>2, <2>3 DEF Owns
<1>20. Coming(n, t, m.ok)
  <2>1. <<s, n>>[2] = n /\ m \in Acks(<<s, n>>) /\ Owns(n, t, m.seq)
    BY <1>4, <1>7 DEF Acks, Owns
  <2>. QED
    BY <1>7, <2>1 DEF Coming
<1>21. OldOnes
  <2>1. \A l \in Link : l[2] \in Node
    BY DEF Link
  <2>. QED
    BY <1>19, <2>1 DEF OldOnes
<1>22. ASSUME NEW x \in Node, NEW u \in Node, Has(x, u) PROVE Has(x, u)' \/ Coming(x, u, FALSE)
  <2>1. CASE ~(x = n /\ u = t)
    BY <1>17, <1>22, <2>1, ZenonT(60) DEF Has
  <2>2. CASE x = n /\ u = t /\ ~m.ok
    BY <1>7, <1>20, <2>2
  <2>3. CASE x = n /\ u = t /\ m.ok
    BY <1>8, <1>18, <2>3, ZenonT(60) DEF Has
  <2>. QED
    BY <2>1, <2>2, <2>3
<1>23. Est(A)
  BY <1>2 DEF Still
<1>24. m.ok => Up(A, n, t) /\ Ready(n, t)'
  <2>. SUFFICES ASSUME m.ok PROVE Up(A, n, t) /\ Ready(n, t)'
    OBVIOUS
  <2>1. Up(A, n, t)
    <3>1. Coming(n, t, TRUE)
      <4>1. m.ok = TRUE
        BY <1>7
      <4>. QED
        BY <1>20, <4>1
    <3>2. t \in Node
      BY <1>4
    <3>3. \A k, u \in Node : Coming(k, u, TRUE) => Up(A, k, u)
      BY <1>23 DEF Est
    <3>. QED
      BY <3>1, <3>2, <3>3
  <2>2. \A q : ~Owns(n, t, q)'
    BY <1>11, <1>18 DEF Owns
  <2>3. Ready(n, t)'
    BY <1>8, <1>18, <2>2 DEF Ready, Has, Coming
  <2>. QED
    BY <2>1, <2>3
<1>25. NewOnes(T, A)
  <2>. SUFFICES ASSUME NEW l \in Link, NEW x \in Acks(l)', x \notin Acks(l)
                PROVE  IF x.ok THEN NewYes(T, A, l, x) ELSE NewNo(T, A, l, x)
    BY DEF NewOnes
  <2>1. l[2] = hop /\ x = ack
    BY <1>15 DEF Acks
  <2>2. ASSUME NEW u \in Node, Owns(l[2], u, x.seq)' PROVE u = t
    <3>1. Owns(hop, u, in)
      BY <1>8, <1>12, <1>19, <2>1, <2>2
    <3>. QED
      BY <1>8, <1>9, <3>1, OwnedAbout
  <2>3. CASE m.ok
    <3>1. T[l[2]] = n /\ Up(A, n, t) /\ Ready(n, t)'
      BY <1>10, <1>24, <2>1, <2>3
    <3>2. ASSUME NEW u \in Node, Owns(l[2], u, x.seq)'
          PROVE  Ready(n, u)' /\ Up(A, n, u)
      BY <2>2, <3>1, <3>2
    <3>3. NewYes(T, A, l, x)
      BY <3>1, <3>2 DEF NewYes
    <3>. QED
      BY <1>12, <2>1, <2>3, <3>3
  <2>4. CASE ~m.ok
    <3>1. ~Ready(n, t)
      BY <1>7, <1>20, <2>4 DEF Ready
    <3>. QED
      BY <1>10, <1>12, <2>1, <2>2, <2>4, <3>1 DEF NewNo
  <2>. QED
    BY <2>3, <2>4
<1>26. ASSUME NEW x \in Node, NEW u \in Node, Settled(x, u)'
       PROVE  Settled(x, u) \/ Up(A, x, u)
  <2>1. CASE ~(x = n /\ u = t)
    BY <1>17, <1>26, <2>1 DEF Settled, Has
  <2>2. CASE x = n /\ u = t
    BY <1>18, <1>24, <1>26, <2>2 DEF Settled, Has
  <2>. QED
    BY <2>1, <2>2
<1>27. Est(A)'
  <2>1. Kept
    BY <1>22 DEF Kept
  <2>2. \A u \in Node : node'[u].downward => node[u].downward
    BY <1>2
  <2>. QED
    BY <1>21, <1>23, <1>25, <1>26, <2>1, <2>2, EstKept
<1>28. \A k \in Node : NodeFits(T, k) => NodeFits(T, k)'
  BY <1>2 DEF NodeFits
<1>29. ASSUME NEW k \in Node, NEW u \in Node, RouteFits(T, A, k, u)
       PROVE  RouteFits(T, A, k, u)'
  <2>1. CASE ~(k = n /\ u = t)
    BY <1>17, <1>29, <2>1 DEF RouteFits
  <2>2. CASE k = n /\ u = t
    BY <1>5, <1>18, <1>29, <2>2 DEF RouteFits, HopFits
  <2>. QED
    BY <2>1, <2>2
<1>. QED
  BY <1>2, <1>16, <1>27, <1>28, <1>29, StillKept

\* What DaoInput makes of the route: it is as settled and as pending as before, or
\* it waits for an answer to a number that nobody can have answered yet.
EntryKept(n, t) ==
    /\ route'[n][t].pending => /\ route[n][t].pending
                               /\ route'[n][t].seqno_out = route[n][t].seqno_out
    /\ Settled(n, t)' => Settled(n, t)
EntryFresh(n, t) ==
    /\ route'[n][t].pending
    /\ \A l \in Link : l[2] = n => \A a \in Acks(l) : a.seq # route'[n][t].seqno_out

\* The entry has the sender as its hop, whether it was there or not.
LEMMA DaoInputRoute ==
    ASSUME TypeOK, TypeOK', NoWrap, NEW f \in Tables, Good(f),
           NEW s \in Node, NEW n \in Node, DaoInput(s, n),
           NEW m, m = Head(chan[<<s, n>>]), NEW t \in Node, t = m.target, m.seq \in Seqs
    PROVE  /\ route'[n][t].nexthop = s /\ ~route'[n][t].nopath
           /\ \A k, u \in Node : ~(k = n /\ u = t) => route'[k][u] = route[k][u]
           /\ EntryKept(n, t) \/ EntryFresh(n, t)
<1>. DEFINE rep  == Entry(n, t, s)
            p    == node[n].parent
            same == IsRetransmission(rep, m.seq)
            seq  == Incremented(node[n].dao_sequence)
<1>1. /\ route' = [route EXCEPT ![n][t] =
                       IF p = NoNode \/ same THEN rep ELSE Prepared(rep, m.seq, seq)]
      /\ node' = [node EXCEPT ![n].dao_sequence = IF p = NoNode \/ same THEN @ ELSE seq]
  BY DEF DaoInput
<1>2. /\ rep \in Entries /\ rep.nexthop = s
      /\ \/ /\ rep.pending = route[n][t].pending
            /\ rep.nexthop = route[n][t].nexthop
            /\ rep.seqno_in = route[n][t].seqno_in
            /\ rep.seqno_out = route[n][t].seqno_out
         \/ rep.pending = FALSE /\ rep.seqno_in = 0
  <2>. HIDE DEF rep
  <2>1. rep = Entry(n, t, s)
    BY DEF rep
  <2>2. EntryFacts(f, s, n, t, rep)
    BY <2>1, EntryGood
  <2>. QED
    BY <2>2 DEF EntryFacts
<1>3. rep.nopath = FALSE
  <2>1. route[n][t] \in Entries
    BY EntryType
  <2>. QED
    BY <2>1 DEF Entry, NoRoute, Entries
<1>4. seq \in Seqs
  BY CounterType, SeqType
<1>5. route \in [Node -> [Node -> Entries]] /\ node \in [Node -> NodeState] /\ s # NoNode
  BY DEF TypeOK
<1>. HIDE DEF rep, p, same, seq
<1>6. /\ route'[n][t] = IF p = NoNode \/ same THEN rep ELSE Prepared(rep, m.seq, seq)
      /\ \A k, u \in Node : ~(k = n /\ u = t) => route'[k][u] = route[k][u]
  BY <1>1, <1>5
<1>7. CASE p = NoNode \/ same
  <2>1. route'[n][t] = rep
    BY <1>6, <1>7
  <2>2. Settled(n, t)' => Settled(n, t)
    BY <1>2, <1>5, <2>1 DEF Settled, Has
  <2>3. EntryKept(n, t)
    BY <1>2, <2>1, <2>2 DEF EntryKept
  <2>. QED
    BY <1>2, <1>3, <1>6, <2>1, <2>3
<1>8. CASE ~(p = NoNode \/ same)
  <2>1. route'[n][t] = Prepared(rep, m.seq, seq)
    BY <1>6, <1>8
  <2>2. /\ route'[n][t].nexthop = s /\ route'[n][t].nopath = FALSE
        /\ route'[n][t].pending = TRUE /\ route'[n][t].seqno_out = seq
    BY <1>2, <1>3, <2>1 DEF Prepared, Entries
  <2>3. node'[n].dao_sequence = seq
    <3>1. node'[n] = [node[n] EXCEPT !.dao_sequence = seq]
      BY <1>1, <1>5, <1>8
    <3>. QED
      BY <1>5, <3>1 DEF NodeState
  <2>4. seq = node[n].dao_sequence + 1
    <3>1. seq >= node[n].dao_sequence
      BY <2>3 DEF NoWrap
    <3>. QED
      BY <3>1, CounterType DEF Incremented, seq
  <2>5. ASSUME NEW l \in Link, l[2] = n, NEW a \in Acks(l) PROVE a.seq # seq
    <3>1. a.seq \in Numbers(n)
      BY <2>5 DEF Acks, Good, MessageOK, AckOK
    <3>. QED
      BY <2>4, <3>1, CounterType DEF Numbers
  <2>6. EntryFresh(n, t)
    BY <2>2, <2>5 DEF EntryFresh
  <2>. QED
    BY <1>6, <2>2, <2>6
<1>. QED
  BY <1>7, <1>8, ZenonT(60)

\* What it sends: the DAO, upwards, and an answer to the node below, if the route
\* was settled or if this is the root.
Sends(s, n, m) == \A l \in Link : \A x \in Msgs(chan', l) :
    \/ x \in Msgs(chan, l)
    \/ /\ l[1] = n /\ l[2] = node[n].parent /\ l[2] # NoNode
       /\ x.type = "dao" /\ x.target = m.target /\ x.nopath = m.nopath
       /\ x.parent = m.parent
    \/ /\ l[1] = n /\ l[2] = s /\ x = Ack(m.seq, TRUE)
       /\ n = Root \/ Settled(n, m.target)

\* There is nothing else that it sends.
LEMMA DaoInputSends ==
    ASSUME TypeOK, NEW f, Good(f), NEW s \in Node, NEW n \in Node, s # n, DaoInput(s, n),
           NEW m, m = Head(chan[<<s, n>>]), m.target \in Node, m.seq \in Seqs, m.seq # 0
    PROVE  Sends(s, n, m)
<1>. DEFINE t    == m.target
            rep  == Entry(n, t, s)
            p    == node[n].parent
            same == IsRetransmission(rep, m.seq)
            out  == IF same THEN rep.seqno_out ELSE Incremented(node[n].dao_sequence)
            dao  == [m EXCEPT !.seq = out]
            ack  == Ack(m.seq, TRUE)
            fwd  == IF PassedOn(n, same) THEN Sent(Received(s, n), n, p, dao)
                    ELSE Received(s, n)
<1>0. /\ m \in Messages /\ m.type = "dao" /\ Received(s, n) \in [Link -> Seq(Messages)]
      /\ \A l \in Link : Msgs(Received(s, n), l) \subseteq Msgs(chan, l)
  <2>1. chan[<<s, n>>] # <<>> /\ m.type = "dao"
    BY DEF DaoInput, Arrives
  <2>. QED
    BY <2>1, ArrivalType
<1>1. chan' = IF AckNow(n, rep, m.seq) THEN Sent(fwd, n, s, ack) ELSE fwd
  BY DEF DaoInput
<1>2. /\ rep \in Entries /\ rep.nexthop = s
      /\ \/ /\ rep.pending = route[n][t].pending
            /\ rep.nexthop = route[n][t].nexthop
            /\ rep.seqno_in = route[n][t].seqno_in
            /\ rep.seqno_out = route[n][t].seqno_out
         \/ rep.pending = FALSE /\ rep.seqno_in = 0
  <2>1. t \in Node /\ rep = Entry(n, t, s)
    OBVIOUS
  <2>. HIDE DEF rep, t
  <2>2. EntryFacts(f, s, n, t, rep)
    BY <2>1, EntryGood
  <2>. QED
    BY <2>2 DEF EntryFacts
<1>. HIDE DEF rep
<1>3. out \in Seqs
  <2>1. rep.seqno_out \in Seqs
    BY <1>2 DEF Entries
  <2>. QED
    BY <2>1, CounterType, SeqType
<1>. HIDE DEF out, same
<1>4. /\ dao \in Messages /\ dao.type = "dao" /\ dao.target = m.target
      /\ dao.nopath = m.nopath /\ dao.parent = m.parent
  <2>1. m \in DaoMessages
    BY <1>0, MessageKinds
  <2>2. /\ dao \in DaoMessages /\ dao.type = "dao" /\ dao.target = m.target
        /\ dao.nopath = m.nopath /\ dao.parent = m.parent
    BY <1>3, <2>1 DEF DaoMessages
  <2>. QED
    BY <2>2, MessageKinds
<1>5. ack \in Messages
  BY MessageTypes
<1>6. AckNow(n, rep, m.seq) => n = Root \/ Settled(n, t)
  BY <1>2 DEF AckNow, Settled, Has
<1>. HIDE DEF dao, ack, t
<1>7. /\ fwd \in [Link -> Seq(Messages)]
      /\ \A l \in Link : \A x \in Msgs(fwd, l) :
            x \in Msgs(chan, l) \/ (l[1] = n /\ l[2] = p /\ p # NoNode /\ x = dao)
  <2>1. CASE PassedOn(n, same)
    <3>1. fwd = Sent(Received(s, n), n, p, dao) /\ p # NoNode
      BY <2>1 DEF PassedOn
    <3>. HIDE DEF fwd, p
    <3>2. fwd \in [Link -> Seq(Messages)]
      BY <1>0, <1>4, <3>1, SentIn
    <3>3. \A l \in Link : \A x \in Msgs(fwd, l) :
             x \in Msgs(Received(s, n), l) \/ (l[1] = n /\ l[2] = p /\ x = dao)
      <4>1. dao \in Messages /\ Received(s, n) \in [Link -> Seq(Messages)]
        BY <1>0, <1>4
      <4>2. fwd = Sent(Received(s, n), n, p, dao)
        BY <3>1
      <4>. HIDE DEF dao
      <4>3. ASSUME NEW l \in Link, NEW x \in Msgs(fwd, l)
            PROVE  x \in Msgs(Received(s, n), l) \/ (l[1] = n /\ l[2] = p /\ x = dao)
        <5>. HIDE NodeAssumption, BoundAssumption
        <5>. QED
          BY <4>1, <4>2, SentMsgs
      <4>. QED
        BY <4>3
    <3>. QED
      BY <1>0, <3>1, <3>2, <3>3
  <2>2. CASE ~PassedOn(n, same)
    <3>1. fwd = Received(s, n)
      BY <2>2
    <3>. HIDE DEF fwd
    <3>. QED
      BY <1>0, <3>1
  <2>. QED
    BY <2>1, <2>2
<1>. HIDE DEF fwd
<1>8. \A l \in Link : \A x \in Msgs(chan', l) :
        \/ x \in Msgs(fwd, l)
        \/ l[1] = n /\ l[2] = s /\ x = ack /\ (n = Root \/ Settled(n, t))
  <2>1. CASE AckNow(n, rep, m.seq)
    <3>1. chan' = Sent(fwd, n, s, ack)
      BY <1>1, <2>1
    <3>2. \A l \in Link : \A x \in Msgs(chan', l) :
             x \in Msgs(fwd, l) \/ (l[1] = n /\ l[2] = s /\ x = ack)
      <4>1. fwd \in [Link -> Seq(Messages)]
        BY <1>7
      <4>2. ack \in Messages
        BY <1>5
      <4>. HIDE DEF ack
      <4>3. PICK c : c = chan'
        OBVIOUS
      <4>4. c = Sent(fwd, n, s, ack)
        BY <3>1, <4>3
      <4>5. \A l \in Link : \A x \in Msgs(c, l) :
               x \in Msgs(fwd, l) \/ (l[1] = n /\ l[2] = s /\ x = ack)
        BY <4>1, <4>2, <4>4, SentNew, SMTT(30)
      <4>. QED
        BY <4>3, <4>5
    <3>. QED
      BY <1>6, <2>1, <3>2
  <2>2. CASE ~AckNow(n, rep, m.seq)
    <3>1. chan' = fwd
      BY <1>1, <2>2
    <3>. QED
      BY <3>1
  <2>. QED
    BY <2>1, <2>2
<1>. QED
  BY <1>4, <1>7, <1>8, ZenonT(60) DEF ack, t, Sends

\* A router that answers at once is ready, and so are all above, for its route was
\* settled; one that passes the DAO on has a number nobody has answered.
LEMMA DaoInputStill ==
    ASSUME TypeOK, TypeOK', NoWrap, NEW f \in Tables, Good(f),
           NEW T, NEW A, Above(T, A), Still(T, A),
           NEW s \in Node, NEW n \in Node, s # n, DaoInput(s, n)
    PROVE  Still(T, A)'
<1>1. PICK m : m = Head(chan[<<s, n>>])
  OBVIOUS
<1>2. PICK t : t = m.target
  OBVIOUS
<1>3. /\ Storing /\ Arrives(s, n, "dao") /\ mode' = mode /\ link' = link
  BY DEF DaoInput
<1>4. /\ m \in Messages /\ t \in Node /\ ~m.nopath /\ m.seq # 0 /\ m.seq \in Seqs
      /\ \A u \in Node : Owns(s, u, m.seq) => u = t
      /\ Received(s, n) \in [Link -> Seq(Messages)]
      /\ \A l \in Link : Msgs(Received(s, n), l) \subseteq Msgs(chan, l)
      /\ T[s] = n /\ s # Root /\ n # t /\ s \in Path(A, t) /\ n \in Path(A, t)
  BY <1>1, <1>2, <1>3, DaoArrival, SMTT(30)
<1>5. m.type = "dao" /\ m.parent = T[t]
  <2>1. chan[<<s, n>>] # <<>> /\ m.type = "dao"
    BY <1>1, <1>3 DEF Arrives
  <2>2. <<s, n>> \in Link /\ m \in Msgs(chan, <<s, n>>)
    BY <1>1, <2>1, ArrivalType
  <2>3. DaoFits(T, A, <<s, n>>, m)
    BY <2>1, <2>2 DEF Still, Frame, MsgFits
  <2>. QED
    BY <1>2, <2>1, <2>3 DEF DaoFits
<1>6. /\ \A k \in Node \ {n} : node'[k] = node[k]
      /\ node'[n].my_dao_seqno = node[n].my_dao_seqno
      /\ node'[n].parent = node[n].parent /\ node'[n].timer = node[n].timer
      /\ node'[n].downward = node[n].downward
  <2>1. \E x : node' = [node EXCEPT ![n] = [node[n] EXCEPT !.dao_sequence = x]]
    BY DEF DaoInput, TypeOK
  <2>2. node \in [Node -> NodeState]
    BY DEF TypeOK
  <2>. QED
    BY <2>1, <2>2, SMTT(30) DEF NodeState
<1>7. /\ route'[n][t].nexthop = s /\ ~route'[n][t].nopath
      /\ \A k, u \in Node : ~(k = n /\ u = t) => route'[k][u] = route[k][u]
      /\ EntryKept(n, t) \/ EntryFresh(n, t)
  <2>1. t \in Node /\ m.seq \in Seqs
    BY <1>4
  <2>. QED
    BY <1>1, <1>2, <2>1, DaoInputRoute, SMTT(30)
<1>8. \A l \in Link : \A x \in Msgs(chan', l) :
        \/ x \in Msgs(chan, l)
        \/ /\ l[1] = n /\ l[2] = node[n].parent /\ l[2] # NoNode
           /\ x.type = "dao" /\ x.target = t /\ x.nopath = m.nopath
           /\ x.parent = m.parent
        \/ /\ l[1] = n /\ l[2] = s /\ x = Ack(m.seq, TRUE)
           /\ n = Root \/ Settled(n, t)
  <2>1. m.target \in Node /\ m.seq \in Seqs /\ m.seq # 0
    BY <1>2, <1>4
  <2>2. Sends(s, n, m)
    BY <1>1, <2>1, DaoInputSends
  <2>. QED
    BY <1>2, <2>2, ZenonT(60) DEF Sends
<1>9. \A q : Ack(q, TRUE).type = "ack" /\ Ack(q, TRUE).seq = q /\ Ack(q, TRUE).ok = TRUE
  BY DEF Ack
<1>10. ASSUME NEW l \in Link, NEW x \in Msgs(chan', l), x \notin Msgs(chan, l)
       PROVE  MsgFits(T, A, l, x)
  <2>1. CASE x = Ack(m.seq, TRUE) /\ l[2] = s
    BY <1>4, <1>9, <2>1 DEF MsgFits
  <2>2. CASE /\ l[1] = n /\ l[2] = node[n].parent /\ l[2] # NoNode
             /\ x.type = "dao" /\ x.target = t /\ x.nopath = m.nopath
             /\ x.parent = m.parent
    <3>1. T[n] = l[2]
      BY <2>2 DEF Still, Frame, NodeFits
    <3>2. DaoFits(T, A, l, x)
      BY <1>3, <1>4, <1>5, <2>2, <3>1 DEF DaoFits
    <3>. QED
      BY <2>2, <3>2 DEF MsgFits
  <2>. QED
    BY <1>8, <1>10, <2>1, <2>2, ZenonT(60)
<1>11. ASSUME NEW l \in Link, NEW x \in Acks(l)', x \notin Acks(l)
       PROVE  l[2] = s /\ x = Ack(m.seq, TRUE) /\ (n = Root \/ Settled(n, t))
  <2>1. x \in Msgs(chan', l) /\ x \notin Msgs(chan, l) /\ x.type = "ack"
    BY <1>11 DEF Acks
  <2>. QED
    BY <1>8, <2>1
<1>12. ASSUME NEW x \in Node, NEW u \in Node, ~(x = n /\ u = t), NEW q
       PROVE  Owns(x, u, q)' <=> Owns(x, u, q)
  <2>1. route'[x][u] = route[x][u] /\ node'[x].my_dao_seqno = node[x].my_dao_seqno
    BY <1>6, <1>7, <1>12
  <2>. QED
    BY <2>1 DEF Owns
<1>13. OldOnes
  <2>. SUFFICES ASSUME NEW l \in Link, NEW a \in Acks(l), NEW u \in Node,
                       Owns(l[2], u, a.seq)'
                PROVE  Owns(l[2], u, a.seq)
    BY DEF OldOnes
  <2>1. l[2] \in Node
    BY DEF Link
  <2>2. CASE ~(l[2] = n /\ u = t)
    BY <1>12, <2>1, <2>2
  <2>3. CASE l[2] = n /\ u = t
    <3>1. route'[n][t].pending /\ route'[n][t].seqno_out = a.seq
      BY <1>4, <2>3 DEF Owns
    <3>2. ~EntryFresh(n, t)
      BY <2>3, <3>1 DEF EntryFresh
    <3>3. route[n][t].pending /\ route[n][t].seqno_out = a.seq
      BY <1>7, <3>1, <3>2 DEF EntryKept
    <3>. QED
      BY <2>3, <3>3 DEF Owns
  <2>. QED
    BY <2>2, <2>3
<1>14. Has(n, t)'
  BY <1>7 DEF Has
<1>15. ASSUME NEW x \in Node, NEW u \in Node, Has(x, u) PROVE Has(x, u)'
  <2>1. CASE x = n /\ u = t
    BY <1>14, <2>1
  <2>2. CASE ~(x = n /\ u = t)
    BY <1>7, <1>15, <2>2 DEF Has
  <2>. QED
    BY <2>1, <2>2
<1>16. Est(A)
  BY <1>3 DEF Still
<1>17. n = Root \/ Settled(n, t) => Up(A, n, t)
  <2>1. n = Root => A[n] = {}
    BY DEF Above
  <2>. QED
    BY <1>4, <1>16, <2>1 DEF Est, Up
<1>18. n = Root \/ Settled(n, t) => Ready(n, t)'
  <2>. SUFFICES ASSUME n = Root \/ Settled(n, t), Coming(n, t, FALSE)' PROVE FALSE
    BY <1>14 DEF Ready
  <2>1. PICK l \in Link : l[2] = n /\ \E a \in Acks(l)' : a.ok = FALSE /\ Owns(n, t, a.seq)'
    BY DEF Coming
  <2>2. PICK a \in Acks(l)' : a.ok = FALSE /\ Owns(n, t, a.seq)'
    BY <2>1
  <2>3. a \in Acks(l)
    BY <1>9, <1>11, <2>2, ZenonT(60)
  <2>4. n # Root
    BY <2>1, <2>3 DEF Acks, Still, Frame, MsgFits
  <2>5. Owns(n, t, a.seq)
    BY <1>4, <1>13, <2>1, <2>2, <2>3 DEF OldOnes
  <2>6. route[n][t].pending
    BY <1>4, <2>5 DEF Owns
  <2>. QED
    BY <2>4, <2>6 DEF Settled
<1>19. NewOnes(T, A)
  <2>. SUFFICES ASSUME NEW l \in Link, NEW x \in Acks(l)', x \notin Acks(l)
                PROVE  IF x.ok THEN NewYes(T, A, l, x) ELSE NewNo(T, A, l, x)
    BY DEF NewOnes
  <2>1. l[2] = s /\ x = Ack(m.seq, TRUE) /\ (n = Root \/ Settled(n, t))
    BY <1>11
  <2>2. x.seq = m.seq /\ x.ok = TRUE
    BY <1>9, <2>1
  <2>3. ASSUME NEW u \in Node, Owns(l[2], u, x.seq)' PROVE Ready(n, u)' /\ Up(A, n, u)
    <3>1. Owns(s, u, m.seq)
      BY <1>12, <2>1, <2>2, <2>3
    <3>2. u = t
      BY <1>4, <3>1
    <3>. QED
      BY <1>17, <1>18, <2>1, <3>2
  <2>4. NewYes(T, A, l, x)
    BY <1>4, <2>1, <2>3 DEF NewYes
  <2>. QED
    BY <2>2, <2>4
<1>20. ASSUME NEW x \in Node, NEW u \in Node, Settled(x, u)'
       PROVE  Settled(x, u) \/ Up(A, x, u)
  <2>1. CASE ~(x = n /\ u = t)
    BY <1>7, <1>20, <2>1 DEF Settled, Has
  <2>2. CASE x = n /\ u = t
    BY <1>7, <1>20, <2>2 DEF Settled, EntryKept, EntryFresh
  <2>. QED
    BY <2>1, <2>2
<1>21. \A u \in Node : node'[u].downward => node[u].downward
  BY <1>6
<1>22. Est(A)'
  <2>1. Kept
    BY <1>15 DEF Kept
  <2>. QED
    BY <1>13, <1>16, <1>19, <1>20, <1>21, <2>1, EstKept
<1>23. ASSUME NEW k \in Node, NodeFits(T, k) PROVE NodeFits(T, k)'
  <2>1. node'[k].parent = node[k].parent /\ node'[k].timer = node[k].timer
    BY <1>6
  <2>. QED
    BY <1>23, <2>1 DEF NodeFits
<1>24. ASSUME NEW k \in Node, NEW u \in Node, RouteFits(T, A, k, u)
       PROVE  RouteFits(T, A, k, u)'
  <2>1. CASE ~(k = n /\ u = t)
    BY <1>7, <1>24, <2>1 DEF RouteFits
  <2>2. CASE k = n /\ u = t
    BY <1>4, <1>7, <2>2 DEF RouteFits, HopFits
  <2>. QED
    BY <2>1, <2>2
<1>. QED
  BY <1>3, <1>10, <1>22, <1>23, <1>24, StillKept

\* The root in non-storing mode answers when it has stored the parent.
LEMMA DaoInputNonStoringStill ==
    ASSUME TypeOK, TypeOK', NEW T, NEW A, Above(T, A), Still(T, A),
           NEW s \in Node, s # Root, DaoInputNonStoring(s)
    PROVE  Still(T, A)'
<1>1. PICK m : m = Head(chan[<<s, Root>>])
  OBVIOUS
<1>2. /\ ~Storing /\ Arrives(s, Root, "dao")
      /\ mode' = mode /\ node' = node /\ route' = route
  BY DEF DaoInputNonStoring
<1>3. chan[<<s, Root>>] # <<>> /\ m.type = "dao"
  BY <1>1, <1>2 DEF Arrives
<1>4. /\ <<s, Root>> \in Link /\ m \in Messages /\ m \in Msgs(chan, <<s, Root>>)
      /\ Received(s, Root) \in [Link -> Seq(Messages)]
      /\ \A l \in Link : Msgs(Received(s, Root), l) \subseteq Msgs(chan, l)
  BY <1>1, <1>3, ArrivalType
<1>5. /\ DaoFits(T, A, <<s, Root>>, m)
  BY <1>3, <1>4 DEF Still, Frame, MsgFits
<1>6. ~m.nopath /\ m.target = s /\ m.parent = T[s]
  BY <1>2, <1>5 DEF DaoFits
<1>18. CASE ~LinkFits(m.target)
  <2>1. chan' = Received(s, Root) /\ link' = link
    BY <1>1, <1>6, <1>18 DEF DaoInputNonStoring
  <2>. QED
    BY <1>2, <1>4, <2>1, QuietStill
<1>. SUFFICES ASSUME LinkFits(m.target) PROVE Still(T, A)'
  BY <1>18
<1>. DEFINE ack == Ack(m.seq, TRUE)
<1>7. /\ link' = [link EXCEPT ![s] = T[s]]
      /\ chan' = Sent(Received(s, Root), Root, s, ack)
  BY <1>1, <1>6 DEF DaoInputNonStoring
<1>8. ack \in Messages /\ ack.type = "ack"
  BY <1>4, MessageTypes DEF Ack
<1>. HIDE DEF ack
<1>9. \A l \in Link : \A x \in Msgs(chan', l) :
        x \in Msgs(Received(s, Root), l) \/ (l[1] = Root /\ l[2] = s /\ x = ack)
  <2>1. Received(s, Root) \in [Link -> Seq(Messages)] /\ ack \in Messages
    BY <1>4, <1>8
  <2>2. chan' = Sent(Received(s, Root), Root, s, ack)
    BY <1>7
  <2>. QED
    BY <2>1, <2>2, SentNew
<1>10. \A l \in Link : \A x \in Msgs(chan', l) :
         x \in Msgs(chan, l) \/ (l[1] = Root /\ l[2] = s /\ x = ack)
  BY <1>4, <1>9
<1>11. ASSUME NEW l \in Link, NEW x \in Msgs(chan', l)
       PROVE  x \in Msgs(chan, l) \/ MsgFits(T, A, l, x)
  BY <1>8, <1>10 DEF MsgFits
<1>12. \A l \in Link : l[2] # s => Acks(l)' \subseteq Acks(l)
  BY <1>10 DEF Acks
<1>13. Told(T)
  BY <1>2 DEF Still
<1>14. link \in [Node -> Node \union {NoNode}]
  BY DEF TypeOK
<1>15. link'[s] = T[s] /\ \A t \in Node \ {s} : link'[t] = link[t]
  BY <1>7, <1>14
<1>16. Told(T)'
  <2>. SUFFICES ASSUME NEW t \in Node
                PROVE  /\ link'[t] \in {T[t], NoNode}
                       /\ node'[t].downward => t # Root /\ link'[t] = T[t]
                       /\ \A l \in Link : l[2] = t /\ Acks(l)' # {} => link'[t] = T[t]
    BY DEF Told
  <2>1. CASE t = s
    BY <1>15, <2>1
  <2>2. CASE t # s
    <3>1. link'[t] = link[t] /\ node'[t] = node[t]
      BY <1>2, <1>15, <2>2
    <3>2. ASSUME NEW l \in Link, l[2] = t, Acks(l)' # {} PROVE link'[t] = T[t]
      <4>1. Acks(l) # {}
        BY <1>12, <2>2, <3>2
      <4>. QED
        BY <1>13, <3>1, <3>2, <4>1 DEF Told
    <3>. QED
      BY <1>13, <3>1, <3>2 DEF Told
  <2>. QED
    BY <2>1, <2>2
<1>17. /\ \A k \in Node : NodeFits(T, k) => NodeFits(T, k)'
       /\ \A k, t \in Node : RouteFits(T, A, k, t) => RouteFits(T, A, k, t)'
  BY <1>2 DEF NodeFits, RouteFits
<1>. QED
  BY <1>2, <1>11, <1>16, <1>17, StillKept

-----------------------------------------------------------------------------
(* The invariant.                                                          *)

\* Until somebody moves, there are such parents.
StillInv == ~moved =>
    \E T \in Trees : \E A \in [Node -> SUBSET Node] : Above(T, A) /\ Still(T, A)

\* The parents the nodes begin with have no circles, and nothing is under way.
LEMMA InitStill == Init => StillInv
<1>. SUFFICES ASSUME Init PROVE StillInv
  OBVIOUS
<1>1. PICK T \in Trees :
        /\ Rooted(T)
        /\ node = [n \in Node |->
              [parent |-> T[n], dao_sequence |-> 0, my_dao_seqno |-> 0,
               my_dao_transmissions |-> 0, timer |-> NoNode, downward |-> FALSE,
               addressed |-> TRUE]]
  BY DEF Init
<1>2. PICK A : Above(T, A)
  BY <1>1, AboveExists
<1>3. \A n \in Node : node[n].parent = T[n] /\ node[n].timer = NoNode /\ ~node[n].downward
  BY <1>1
<1>4. \A n, t \in Node : /\ route[n][t].nexthop = NoNode /\ ~route[n][t].nopath
                         /\ ~route[n][t].pending
  BY DEF Init, NoRoute
<1>5. \A l \in Link : Msgs(chan, l) = {}
  BY DEF Init, Msgs
<1>6. Frame(T, A)
  BY <1>3, <1>4, <1>5 DEF Frame, NodeFits, RouteFits, HopFits
<1>7. Est(A)
  BY <1>3, <1>4, <1>5 DEF Est, Coming, Acks, Settled, Has
<1>8. Told(T)
  <2>1. \A t \in Node : link[t] = NoNode
    BY DEF Init
  <2>. QED
    BY <1>3, <1>5, <2>1 DEF Told, Acks
<1>9. Still(T, A) /\ A \in [Node -> SUBSET Node]
  BY <1>2, <1>6, <1>7, <1>8 DEF Still, Above
<1>. QED
  BY <1>2, <1>9 DEF StillInv

\* As long as nobody changes parents, nothing of this changes.
LEMMA StepStill ==
    ASSUME TypeOK, TypeOK', NoWrap, NEW f \in Tables, Good(f),
           NEW T, NEW A, Above(T, A), Still(T, A), Next, ~moved'
    PROVE  Still(T, A)'
<1>1. ASSUME NEW n \in Node, DaoOutput(n) PROVE Still(T, A)'
  BY <1>1, DaoOutputStill
<1>2. ASSUME NEW n \in Node, Retransmit(n) PROVE Still(T, A)'
  BY <1>2, RetransmitStill
<1>3. ASSUME NEW n \in Node, GiveUp(n) PROVE Still(T, A)'
  BY <1>3, GiveUpStill
<1>4. ASSUME NEW n \in Node, NEW p \in Node, Move(n, p) PROVE FALSE
  BY <1>4 DEF Move
<1>5. ASSUME NEW n \in Node, NEW s \in Node \ {n}, Lose(s, n) PROVE Still(T, A)'
  BY <1>5, DroppedStill
<1>6. ASSUME NEW n \in Node, NEW t \in Node, Expire(n, t) PROVE FALSE
  BY <1>6 DEF Expire, Still, Frame, RouteFits
<1>7. ASSUME NEW n \in Node, NEW s \in Node \ {n}, Deliver(s, n) PROVE Still(T, A)'
  <2>0. s \in Node /\ s # n
    OBVIOUS
  <2>1. CASE DaoLoop(s, n) \/ StrayAck(s, n)
    BY <2>0, <2>1, DroppedStill
  <2>2. CASE NoPathInput(s, n)
    <3>1. Storing /\ Arrives(s, n, "dao") /\ Head(chan[<<s, n>>]).nopath
      BY <2>2 DEF NoPathInput
    <3>2. ~Head(chan[<<s, n>>]).nopath
      BY <2>0, <3>1, DaoArrival
    <3>. QED
      BY <3>1, <3>2, SMTT(30)
  <2>3. CASE DaoRefused(s, n)
    BY <2>0, <2>3, DaoRefusedStill
  <2>4. CASE DaoInput(s, n)
    BY <2>0, <2>4, DaoInputStill
  <2>5. CASE n = Root /\ DaoInputNonStoring(s)
    BY <2>0, <2>5, DaoInputNonStoringStill
  <2>6. CASE OwnAck(s, n)
    BY <2>0, <2>6, OwnAckStill
  <2>7. CASE ForwardAck(s, n)
    BY <2>0, <2>7, ForwardAckStill
  <2>. QED
    BY <1>7, <2>1, <2>2, <2>3, <2>4, <2>5, <2>6, <2>7 DEF Deliver
<1>8. ASSUME NEW n \in Node, Lapse(n) \/ Readdress(n) PROVE Still(T, A)'
  <2>1. /\ mode' = mode /\ route' = route /\ link' = link /\ chan' = chan
        /\ \A k \in Node : SameNode(k) /\ node'[k].parent = node[k].parent
                           /\ node'[k].downward = node[k].downward
    BY <1>8, AsideKeeps DEF TypeOK
  <2>. QED
    BY <2>1, QuietStill DEF SameNode
<1>. QED
  BY <1>1, <1>2, <1>3, <1>4, <1>5, <1>6, <1>7, <1>8 DEF Next, Progress

\* Somebody who has moved has moved for good.
LEMMA MovedStays == [Next]_vars => moved' = moved \/ moved' = TRUE
<1>. SUFFICES ASSUME [Next]_vars PROVE moved' = moved \/ moved' = TRUE
  OBVIOUS
<1>1. CASE UNCHANGED vars
  BY <1>1 DEF vars, history
<1>2. ASSUME NEW n \in Node,
             DaoOutput(n) \/ Retransmit(n) \/ Lapse(n) \/ GiveUp(n) \/ Readdress(n)
      PROVE  moved' = moved
  BY <1>2 DEF DaoOutput, Retransmit, Lapse, GiveUp, Readdress, history
<1>3. ASSUME NEW n \in Node, NEW p \in Node, Move(n, p) PROVE moved' = TRUE
  BY <1>3 DEF Move
<1>4. ASSUME NEW n \in Node, NEW s \in Node, Lose(s, n) PROVE moved' = moved
  BY <1>4 DEF Lose, history
<1>5. ASSUME NEW n \in Node, NEW t \in Node, Expire(n, t) PROVE moved' = moved
  BY <1>5 DEF Expire, history
<1>6. ASSUME NEW n \in Node, NEW s \in Node, Deliver(s, n) PROVE moved' = moved
  <2>1. CASE DaoLoop(s, n) \/ NoPathInput(s, n) \/ DaoRefused(s, n) \/ DaoInput(s, n)
    BY <2>1 DEF DaoLoop, NoPathInput, DaoRefused, DaoInput, history
  <2>2. CASE \/ DaoInputNonStoring(s) \/ OwnAck(s, n) \/ ForwardAck(s, n) \/ StrayAck(s, n)
    BY <2>2 DEF DaoInputNonStoring, OwnAck, ForwardAck, StrayAck, history
  <2>. QED
    BY <1>6, <2>1, <2>2, SMTT(30) DEF Deliver
<1>. QED
  BY <1>1, <1>2, <1>3, <1>4, <1>5, <1>6 DEF Next, Progress

\* So the invariant is kept, as long as the numbers can be told apart.
LEMMA NextStill ==
    TypeOK /\ Explained /\ StillInv /\ [Next]_vars /\ [NoWrap]_vars => StillInv'
<1>. SUFFICES ASSUME TypeOK, Explained, StillInv, [Next]_vars, [NoWrap]_vars, ~moved'
              PROVE  \E T \in Trees : \E A \in [Node -> SUBSET Node] :
                        Above(T, A) /\ Still(T, A)'
  BY DEF StillInv, Above
<1>1. TypeOK' /\ ~moved
  BY NextType, MovedStays
<1>2. PICK T \in Trees, A \in [Node -> SUBSET Node] : Above(T, A) /\ Still(T, A)
  BY <1>1 DEF StillInv
<1>3. Still(T, A)'
  <2>1. CASE UNCHANGED vars
    <3>1. /\ mode' = mode /\ node' = node /\ route' = route /\ link' = link
          /\ chan' = chan
      BY <2>1 DEF vars
    <3>. QED
      BY <1>1, <1>2, <3>1, QuietStill
  <2>2. CASE Next /\ NoWrap
    <3>1. PICK f \in Tables : Good(f)
      BY DEF Explained
    <3>. QED
      BY <1>1, <1>2, <2>2, <3>1, StepStill
  <2>. QED
    BY <2>1, <2>2
<1>. QED
  BY <1>2, <1>3

-----------------------------------------------------------------------------
(* The way down.                                                           *)

\* A set of numbers has a least one.
LEMMA Least ==
    ASSUME NEW T, T \subseteq Nat, T # {}
    PROVE  \E m \in T : \A k \in T : m <= k
<1>. DEFINE W == {S \in SUBSET Nat : \E k \in T : S = 0 .. k}
<1>1. W \subseteq FiniteSubsetsOf(Nat)
  <2>1. ASSUME NEW S \in W PROVE IsFiniteSet(S) /\ S \subseteq Nat
    <3>1. PICK k \in T : S = 0 .. k
      OBVIOUS
    <3>2. IsFiniteSet(0 .. k)
      BY FS_Interval
    <3>. QED
      BY <3>1, <3>2
  <2>. HIDE DEF W
  <2>. QED
    BY <2>1 DEF FiniteSubsetsOf
<1>2. W # {}
  <2>1. PICK k \in T : TRUE
    OBVIOUS
  <2>2. 0 .. k \in W
    BY <2>1
  <2>. QED
    BY <2>2
<1>3. PICK S \in W : \A R \in W : <<R, S>> \notin StrictSubsetOrdering(Nat)
  <2>. HIDE DEF W
  <2>. QED
    BY <1>1, <1>2, FS_StrictSubsetOrderingWellFounded, WFMin
<1>4. PICK m \in T : S = 0 .. m
  OBVIOUS
<1>5. ASSUME NEW k \in T, ~ (m <= k) PROVE FALSE
  <2>1. 0 .. k \in W /\ 0 .. k \subseteq 0 .. m /\ 0 .. k # 0 .. m
    <3>1. k < m /\ m \in 0 .. m /\ m \notin 0 .. k
      BY <1>5
    <3>. QED
      BY <3>1
  <2>. QED
    BY <1>3, <1>4, <2>1 DEF StrictSubsetOrdering
<1>. QED
  BY <1>5

\* What the recursive function in At is, as far as n.
Down(g, t, n) == g = [k \in 0 .. n |->
    IF k = 0 THEN Root ELSE IF g[k - 1] \in {t, NoNode} THEN g[k - 1]
                            ELSE route[g[k - 1]][t].nexthop]

\* There is one: At is not an empty choice.
LEMMA DownExists ==
    ASSUME NEW t, NEW n \in Nat
    PROVE  \E g : Down(g, t, n)
<1>. DEFINE K == {k \in Nat : ~ \E g : Down(g, t, k)}
<1>. SUFFICES ASSUME K # {} PROVE FALSE
  OBVIOUS
<1>1. PICK m \in K : \A k \in K : m <= k
  <2>1. K \subseteq Nat
    OBVIOUS
  <2>. HIDE DEF K
  <2>. QED
    BY <2>1, Least
<1>2. m # 0
  <2>1. Down([k \in 0 .. 0 |-> Root], t, 0)
    BY DEF Down
  <2>. QED
    BY <2>1
<1>3. PICK g : Down(g, t, m - 1)
  <2>1. m - 1 \in Nat /\ ~ (m <= m - 1)
    BY <1>2
  <2>. QED
    BY <1>1, <2>1
<1>. DEFINE Step(h, k) == IF k = 0 THEN Root
                          ELSE IF h[k - 1] \in {t, NoNode} THEN h[k - 1]
                               ELSE route[h[k - 1]][t].nexthop
<1>4. \A k \in 0 .. m - 1 : g[k] = Step(g, k)
  BY <1>3, ZenonT(60) DEF Down
<1>. DEFINE h == [k \in 0 .. m |-> IF k < m THEN g[k] ELSE Step(g, m)]
<1>5. ASSUME NEW k \in 0 .. m PROVE h[k] = Step(h, k)
  <2>1. CASE k = 0
    BY <1>2, <1>4, <2>1
  <2>2. CASE k # 0
    <3>1. k - 1 \in 0 .. m /\ k - 1 < m /\ h[k - 1] = g[k - 1]
      BY <2>2
    <3>. QED
      BY <1>4, <2>2, <3>1
  <2>. QED
    BY <2>1, <2>2
<1>6. Down(h, t, m)
  <2>1. h = [k \in 0 .. m |-> h[k]]
    OBVIOUS
  <2>. HIDE DEF h
  <2>. QED
    BY <1>5, <2>1 DEF Down
<1>. QED
  BY <1>6

\* A packet goes from hop to hop.
LEMMA AtGoes ==
    ASSUME NEW t
    PROVE  /\ At(t)[0] = Root
           /\ \A k, l \in 0 .. Cardinality(Node) : l = k + 1 =>
                At(t)[l] = IF At(t)[k] \in {t, NoNode} THEN At(t)[k]
                           ELSE route[At(t)[k]][t].nexthop
<1>. DEFINE C == Cardinality(Node)
            g == CHOOSE g : Down(g, t, C)
<1>1. C \in Nat
  BY FS_CardinalityType
<1>2. Down(g, t, C)
  BY <1>1, DownExists
<1>3. At(t) = g
  BY Zenon DEF At, Down
<1>4. \A k \in 0 .. C : g[k] =
         IF k = 0 THEN Root ELSE IF g[k - 1] \in {t, NoNode} THEN g[k - 1]
                                 ELSE route[g[k - 1]][t].nexthop
  BY <1>2, ZenonT(60) DEF Down
<1>. HIDE DEF g, C
<1>5. g[0] = Root
  BY <1>1, <1>4
<1>6. ASSUME NEW k \in 0 .. C, NEW l \in 0 .. C, l = k + 1
      PROVE  g[l] = IF g[k] \in {t, NoNode} THEN g[k] ELSE route[g[k]][t].nexthop
  <2>1. l # 0 /\ l - 1 = k
    BY <1>1, <1>6
  <2>. QED
    BY <1>4, <2>1
<1>. QED
  BY <1>3, <1>5, <1>6 DEF C

\* Each step comes nearer to a target above which all nodes are ready: the node
\* has more and more nodes above it.
LEMMA UpReaches ==
    ASSUME TypeOK, NEW T, NEW A, Above(T, A), Frame(T, A), NEW t \in Node, Up(A, t, t)
    PROVE  At(t)[Cardinality(Node)] = t
<1>. DEFINE C == Cardinality(Node)
            Near(k) == At(t)[k] = t \/ (At(t)[k] \in A[t] /\ Cardinality(A[At(t)[k]]) >= k)
            K == {k \in 0 .. C : ~Near(k)}
<1>1. C \in Nat
  BY FS_CardinalityType
<1>2. \A y \in Node : /\ A[y] \subseteq Node \ {y} /\ IsFiniteSet(A[y])
                      /\ Cardinality(A[y]) \in Nat /\ Cardinality(A[y]) < C
  <2>. SUFFICES ASSUME NEW y \in Node
                PROVE  /\ A[y] \subseteq Node \ {y} /\ IsFiniteSet(A[y])
                       /\ Cardinality(A[y]) \in Nat /\ Cardinality(A[y]) < C
    OBVIOUS
  <2>1. A[y] \subseteq Node \ {y}
    BY DEF Above
  <2>2. IsFiniteSet(Node \ {y}) /\ Cardinality(Node \ {y}) = C - 1
    BY FS_RemoveElement
  <2>3. IsFiniteSet(A[y]) /\ Cardinality(A[y]) <= C - 1
    BY <2>1, <2>2, FS_Subset
  <2>4. Cardinality(A[y]) \in Nat
    BY <2>3, FS_CardinalityType
  <2>. QED
    BY <1>1, <2>1, <2>3, <2>4
<1>3. Near(0)
  <2>1. At(t)[0] = Root
    BY AtGoes
  <2>2. t = Root \/ Root \in A[t]
    BY DEF Above
  <2>3. Cardinality(A[Root]) >= 0
    BY <1>2
  <2>. QED
    BY <2>1, <2>2, <2>3
<1>4. ASSUME NEW k \in 0 .. C, NEW l \in 0 .. C, l = k + 1, Near(k) PROVE Near(l)
  <2>1. PICK y : y = At(t)[k]
    OBVIOUS
  <2>2. At(t)[l] = IF y \in {t, NoNode} THEN y ELSE route[y][t].nexthop
    BY <1>4, <2>1, AtGoes
  <2>3. CASE y = t
    BY <2>2, <2>3
  <2>4. CASE y # t
    <3>1. y \in A[t] /\ Cardinality(A[y]) >= k
      BY <1>4, <2>1, <2>4
    <3>2. y \in Node /\ y # NoNode
      BY <3>1 DEF Above
    <3>3. PICK x : x = route[y][t].nexthop
      OBVIOUS
    <3>4. x = At(t)[l] /\ x # NoNode
      BY <2>2, <2>4, <3>1, <3>2, <3>3 DEF Up, Ready, Has
    <3>5. x \in Path(A, t) /\ T[x] = y
      <4>1. HopFits(T, A, y, t, x)
        BY <3>2, <3>3 DEF Frame, RouteFits
      <4>. QED
        BY <3>4, <4>1 DEF HopFits
    <3>6. x \in Node
      BY <3>5 DEF Path, Above
    <3>7. A[x] = A[y] \union {y} /\ y \notin A[y]
      BY <3>2, <3>5, <3>6, AboveStep DEF Above
    <3>8. Cardinality(A[x]) = Cardinality(A[y]) + 1
      BY <1>2, <3>2, <3>7, FS_AddElement
    <3>9. Cardinality(A[x]) >= l
      BY <1>2, <1>4, <3>1, <3>2, <3>8
    <3>. QED
      BY <3>4, <3>5, <3>9 DEF Path
  <2>. QED
    BY <2>3, <2>4
<1>. HIDE DEF Near
<1>5. K = {}
  <2>. SUFFICES ASSUME K # {} PROVE FALSE
    OBVIOUS
  <2>1. PICK m \in K : \A k \in K : m <= k
    <3>1. K \subseteq Nat
      BY <1>1
    <3>. HIDE DEF K
    <3>. QED
      BY <3>1, Least
  <2>2. m # 0
    BY <1>3, <2>1
  <2>3. m - 1 \in 0 .. C /\ m \in 0 .. C /\ m = (m - 1) + 1 /\ ~(m <= m - 1)
    BY <1>1, <2>1, <2>2
  <2>4. Near(m - 1)
    BY <2>1, <2>3
  <2>5. Near(m)
    BY <1>4, <2>3, <2>4
  <2>. QED
    BY <2>1, <2>5
<1>6. Near(C)
  BY <1>1, <1>5
<1>7. ASSUME At(t)[C] \in A[t], Cardinality(A[At(t)[C]]) >= C PROVE FALSE
  <2>1. PICK y : y = At(t)[C]
    OBVIOUS
  <2>2. y \in Node
    BY <1>7, <2>1 DEF Above
  <2>. QED
    BY <1>1, <1>2, <1>7, <2>1, <2>2
<1>. QED
  BY <1>6, <1>7 DEF Near

\* What the invariant is for: in storing mode the routes of the nodes above lead to
\* the node, in non-storing mode the root knows its parent.
LEMMA StillReaches == TypeOK /\ StillInv => AckedReaches
<1>. SUFFICES ASSUME TypeOK, StillInv, ~moved, NEW n \in Node, node[n].downward
              PROVE  Reaches(n)
  BY DEF AckedReaches
<1>1. PICK T \in Trees, A \in [Node -> SUBSET Node] : Above(T, A) /\ Still(T, A)
  BY DEF StillInv
<1>2. CASE Storing
  <2>1. Frame(T, A) /\ Up(A, n, n)
    BY <1>1, <1>2 DEF Still, Est
  <2>. QED
    BY <1>1, <1>2, <2>1, UpReaches DEF Reaches
<1>3. CASE ~Storing
  <2>1. n # Root /\ link[n] = T[n] /\ node[n].parent \in {T[n], NoNode}
    BY <1>1, <1>3 DEF Still, Told, Frame, NodeFits
  <2>2. T[n] \in Parents[n]
    BY <2>1, TreeAssumption
  <2>. QED
    BY <1>3, <2>1, <2>2 DEF Reaches
<1>. QED
  BY <1>2, <1>3

\* In a tree of any depth in which nobody changes parents, and until a counter wraps,
\* a node that believes in its downward route is reached by the routes that
\* are installed, whatever was lost, repeated, refused or given up.
THEOREM ReachesCorrect == Spec /\ [][NoWrap]_vars => []AckedReaches
<1>1. Init => TypeOK /\ Explained /\ StillInv
  BY InitType, InitExplained, InitStill
<1>2. TypeOK /\ Explained /\ StillInv /\ [Next]_vars /\ [NoWrap]_vars
        => TypeOK' /\ Explained' /\ StillInv'
  BY NextType, NextExplained, NextStill
<1>3. TypeOK /\ StillInv => AckedReaches
  BY StillReaches
<1>. QED
  BY <1>1, <1>2, <1>3, PTL DEF Spec
=============================================================================
