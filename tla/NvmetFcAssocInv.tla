-------------------------- MODULE NvmetFcAssocInv --------------------------
(***************************************************************************)
(* The inductive invariants of NvmetFcAssoc: what is true of its threads,  *)
(* its table of queues and its counts between any two steps, and what its  *)
(* properties follow from.  NvmetFcAssoc_proofs shows that they hold.      *)
(***************************************************************************)
EXTENDS NvmetFcAssoc

-----------------------------------------------------------------------------
(* The types, the locals of a thread, and the port.                        *)

\* What a thread knows of its own locals, by the place it is at.
QueueUsers == {"publish", "use_queue", "delete", "drop", "put_queue", "command"}
AssocUsers == {"alloc_queue", "publish", "find_queue", "put_found", "delete", "drop",
               "put_queue", "begin", "scan", "put_assoc", "done"}
NewQids    == {"alloc_assoc", "alloc_queue", "publish"}
ThreadOK(t, me) ==
    /\ me.pc \in QueueUsers => me.queue \in Queue
    /\ me.pc \in AssocUsers => me.assoc \in Assoc
    /\ me.pc \in NewQids => me.i \in Qids
    /\ me.pc = "find_assoc" /\ me.rqst.kind = "connect" => me.i \in Qids
    /\ me.duty \in {"put_assoc", "unlist"} => me.owed \in Assoc
    /\ t \in Cmd => me.pc \in {"idle", "command", "gone", "past_table"}
ThreadsOK == \A t \in Thread : ThreadOK(t, thread[t])

\* An object that was never allocated has no references; a queue that has some
\* knows its association; and what is about to be freed was once allocated.
ObjectsOK ==
    /\ \A a \in Assoc : assoc[a].st = "none" => assoc[a].ref = 0
    /\ \A q \in Queue : queue[q].ref > 0 => queue[q].assoc \in Assoc
    /\ \A t \in Thread : thread[t].duty = "unlist" => assoc[thread[t].owed].st # "none"

\* The user has the port bound, or not yet; who bound it too late holds nothing.
UserOK ==
    /\ thread[Conf].pc = "idle" => ~tgt.port /\ "bound" \notin races
    /\ thread[Conf].pc = "bound" => tgt.port
    /\ "bound" \in races => tgt.ref = 0

\* The inductive invariant.
Inv == TypeOK /\ ThreadsOK /\ ObjectsOK /\ UserOK /\ TgtRefsExact

Rec == [pc : Pcs, rqst : Requests \union {NoRequest},
        assoc : Assoc \union {None}, queue : Queue \union {None},
        i : 0 .. MaxQid + 1, all : BOOLEAN, next : Assoc \union {None},
        duty : {"none", "put_assoc", "unlist", "free_port"},
        owed : Assoc \union {None}]
AssocRec == [st : {"none", "live", "dying", "freed"}, ref : Nat]
QueueRec == [st : {"none", "live", "freed"}, ref : Nat, qid : Qids,
             assoc : Assoc \union {None}, connected : BOOLEAN]

\* Who holds the target port.
Held == {a \in Assoc : assoc[a].st \in {"live", "dying"}}
Serving == {i \in Iod : thread[i].pc # "idle"}
Registered == {t \in {Unreg} : thread[t].pc # "gone"}
User == IF tgt.port /\ "bound" \notin races THEN 1 ELSE 0
LookPcs == {"find_ctrl", "put_port"}
Looking == {t \in {Ctrl} : thread[t].pc \in LookPcs}

-----------------------------------------------------------------------------
(* The table of queues.                                                    *)

\* What the table names is a queue of that number of that association.
TableLive == \A a \in Assoc, k \in Qids : queues[a][k] # None =>
    /\ queue[queues[a][k]].st = "live"
    /\ queue[queues[a][k]].assoc = a /\ queue[queues[a][k]].qid = k

\* What a thread names was allocated, also if it has been freed since.
NamesKnown == \A t \in Thread : thread[t].queue # None => queue[thread[t].queue].st # "none"

\* A queue that is about to be published is known to its creator alone.
Unpublished == \A t \in Thread : thread[t].pc = "publish" =>
    /\ queue[thread[t].queue].st = "live"
    /\ queue[thread[t].queue].assoc = thread[t].assoc
    /\ queue[thread[t].queue].qid = thread[t].i
    /\ \A x \in Thread \ {t} : thread[x].queue # thread[t].queue
    /\ \A a \in Assoc, k \in Qids : queues[a][k] # thread[t].queue

Owned == \A q \in Queue : queue[q].st = "live" => queue[q].assoc \in Assoc

NoneMissing == "same_qid" \notin races =>
    \A q \in Queue : queue[q].st = "live" =>
        \/ queues[queue[q].assoc][queue[q].qid] = q
        \/ \E i \in Iod : thread[i].pc = "publish" /\ thread[i].queue = q

\* The inductive invariant, beside Inv.
TableInv == TableLive /\ NamesKnown /\ Unpublished /\ Owned /\ NoneMissing

-----------------------------------------------------------------------------
(* Which thread is where, and what is live.                                *)

\* Which thread is where, and for which request.
IodPcs   == {"idle", "alloc_assoc", "find_assoc", "alloc_queue", "publish", "use_queue",
             "find_queue", "put_found", "respond", "delete", "drop", "put_queue", "begin",
             "scan", "put_assoc", "past_table"}
DeletePcs == {"idle", "begin", "scan", "delete", "drop", "put_queue", "put_assoc", "done", "gone"}
CtrlPcs  == DeletePcs \union {"find_ctrl", "put_port"}
UnregPcs == DeletePcs \union {"next", "unregister"}
Finding  == {"connect", "disconnect", "disconnect_association"}
PlaceOK(t, me) ==
    /\ t \in Iod => me.pc \in IodPcs
    /\ t = Unreg => me.pc \in UnregPcs
    /\ t = Ctrl => me.pc \in CtrlPcs
    /\ t = Conf => me.pc \in {"idle", "bound", "gone"}
    /\ t \notin Iod => me.rqst.kind = "none"
    /\ me.pc = "alloc_assoc" => me.rqst.kind = "create"
    /\ me.pc = "find_assoc" => me.rqst.kind \in Finding
    /\ me.pc \in {"alloc_queue", "publish", "use_queue"} => me.rqst.kind \in {"create", "connect"}
    /\ me.pc = "find_queue" => me.rqst.kind = "disconnect"
    /\ t \in Iod /\ me.pc = "past_table" => me.rqst.kind = "disconnect"
    /\ me.pc = "put_found" => me.rqst.kind \in Finding
    /\ me.pc \in {"delete", "drop", "put_queue"} => me.rqst.kind = "disconnect" \/ me.all = TRUE
    /\ me.pc \in {"scan", "put_assoc"} => me.all = TRUE
    /\ me.pc \in {"idle", "alloc_assoc", "find_assoc", "alloc_queue", "publish", "use_queue",
                  "find_queue", "put_found", "past_table", "find_ctrl", "put_port", "begin", "next"}
         => me.all = FALSE
    /\ t \in Iod /\ (me.all = TRUE \/ me.pc = "begin") => me.rqst.kind = "disconnect"
    /\ me.pc \in {"idle", "alloc_assoc", "find_assoc", "alloc_queue", "find_queue", "find_ctrl",
                  "put_port"}
         => me.queue = None
    /\ me.pc = "idle" => me.assoc = None /\ me.next = None
    /\ me.pc = "find_ctrl" => me.assoc = None
    /\ me.next # None => t = Unreg
    /\ me.duty \in {"none", "free_port"} => me.owed = None
Places == \A t \in Thread : PlaceOK(t, thread[t])

\* What is named was allocated, also if it has been freed since.
KnownAssoc(a) == a # None => assoc[a].st # "none"
KnownThreads == \A t \in Thread :
    /\ KnownAssoc(thread[t].assoc) /\ KnownAssoc(thread[t].owed) /\ KnownAssoc(thread[t].next)
KnownQueues == \A q \in Queue :
    IF queue[q].st = "none" THEN queue[q].assoc = None
    ELSE queue[q].assoc \in Assoc /\ KnownAssoc(queue[q].assoc)
KnownDeleted ==
    /\ \A a \in Assoc : a \in deleted => assoc[a].st # "none"
    /\ \A q \in Queue : q \in deleted => queue[q].st # "none"
\* Live is what has references; dying, and on the list for a while yet, is what a
\* thread has to free.
Alive == /\ \A a \in Assoc : assoc[a].st = "live" <=> assoc[a].ref > 0
         /\ \A q \in Queue : queue[q].st = "live" <=> queue[q].ref > 0
OnList == /\ \A i, j \in DOMAIN assoc_list : assoc_list[i] = assoc_list[j] => i = j
          /\ \A a \in Assoc : Listed(a) <=> assoc[a].st \in {"live", "dying"}
Unlisting ==
    /\ \A t \in Thread : thread[t].duty = "unlist" =>
        /\ assoc[thread[t].owed].st = "dying"
        /\ \A u \in Thread : thread[u].duty = "unlist" /\ thread[u].owed = thread[t].owed => u = t
    /\ \A a \in Assoc : assoc[a].st = "dying" =>
        \E t \in Thread : thread[t].duty = "unlist" /\ thread[t].owed = a
Known == KnownThreads /\ KnownQueues /\ KnownDeleted
Base == Inv /\ TableInv /\ Places /\ Known /\ Alive /\ OnList /\ Unlisting

-----------------------------------------------------------------------------
(* The deletion of an object is one thread's.                              *)

\* A thread that drops the reference of the creation of a, or will.
Ending(me, a) == /\ me.all = TRUE /\ me.assoc = a
                 /\ me.pc \in {"scan", "delete", "drop", "put_queue", "put_assoc"}
DropsQueue(me, q) == me.pc = "drop" /\ me.queue = q
OneDeleter == "twice" \notin races => \A t \in Thread :
    /\ \A a \in Assoc : Ending(thread[t], a) =>
        a \in deleted /\ \A u \in Thread : Ending(thread[u], a) => u = t
    /\ \A q \in Queue : DropsQueue(thread[t], q) =>
        q \in deleted /\ \A u \in Thread : DropsQueue(thread[u], q) => u = t

-----------------------------------------------------------------------------
(* Who holds an association, and who a queue.                              *)

One(P) == IF P THEN 1 ELSE 0
\* A thread that has found a; one that has to put it for a queue it has freed.
Finder(t, me, a) ==
    /\ me.assoc = a
    /\ \/ /\ t \in Iod /\ me.all = FALSE
          /\ \/ /\ me.rqst.kind = "connect"
                /\ me.pc \in {"alloc_queue", "publish", "put_found"}
             \/ /\ me.rqst.kind \notin {"create", "connect"}
                /\ me.pc \in {"find_queue", "delete", "drop", "put_queue", "put_found",
                             "past_table"}
       \/ /\ t \in {Unreg, Ctrl}
          /\ me.pc \in {"put_port", "begin", "scan", "delete", "drop", "put_queue", "put_assoc",
                       "done"}
Owes(me, a) == me.duty = "put_assoc" /\ me.owed = a
Weight(t, me, a) == One(Finder(t, me, a)) + One(Owes(me, a)) + One(Ending(me, a))
Find(a) == {t \in Thread : Finder(t, thread[t], a)}
Owe(a)  == {t \in Thread : Owes(thread[t], a)}
End(a)  == {t \in Thread : Ending(thread[t], a)}
Live(a) == {q \in Queue : queue[q].st = "live" /\ queue[q].assoc = a}
\* Nobody holds what was never allocated but the creation to come.
Grown(a) == assoc[a].ref + One(assoc[a].st = "none")
AssocCounted == races \intersect {"twice", "dying"} = {} => \A a \in Assoc :
    Grown(a) = Cardinality(Find(a)) + Cardinality(Owe(a)) + Cardinality(End(a))
               + Cardinality(Live(a)) + One(a \notin deleted)

Holds(me, q) == me.pc \in {"delete", "drop", "put_queue", "command"} /\ me.queue = q
QueueWeight(me, q) == One(Holds(me, q)) + One(DropsQueue(me, q))
Hold(q) == {t \in Thread : Holds(thread[t], q)}
Drop(q) == {t \in Thread : DropsQueue(thread[t], q)}
QueueGrown(q) == queue[q].ref + One(queue[q].st = "none")
QueueCounted == "twice" \notin races => \A q \in Queue :
    QueueGrown(q) = Cardinality(Hold(q)) + Cardinality(Drop(q)) + One(q \notin deleted)

-----------------------------------------------------------------------------
(* What is being created, and the loop of __nvmet_fc_free_assocs.          *)

\* The queue of a creator is of its association, and what it has made itself has
\* not been deleted, unless that race has happened.
Creates(me) == /\ me.rqst.kind \in {"create", "connect"}
               /\ me.pc \in {"alloc_queue", "publish", "put_found", "use_queue"}
Fresh(me) == Creates(me) =>
    /\ me.queue # None => queue[me.queue].assoc = me.assoc
    /\ "young" \notin races => /\ me.rqst.kind = "create" => me.assoc \notin deleted
                               /\ me.queue \notin deleted
AllFresh == \A i \in Iod : Fresh(thread[i])

\* The next association of the loop stays on the list, unless the race has happened.
Neighbour == "neighbour" \notin races /\ thread[Unreg].next # None =>
    assoc[thread[Unreg].next].st \in {"live", "dying"}

\* All of it together.
Exact == Base /\ OneDeleter /\ AssocCounted /\ QueueCounted /\ AllFresh /\ Neighbour

-----------------------------------------------------------------------------
(* Everything is freed.                                                    *)

\* The loop misses no association but those that come late: what is not yet deleted is
\* its turn, or comes after the next one on the list.
Ahead(list, n, a) == \E i, j \in DOMAIN list : i <= j /\ list[i] = n /\ list[j] = a
FreeLoop ==
    races \intersect {"late", "neighbour"} = {} /\ thread[Unreg].pc # "idle" =>
    \A a \in Assoc : a \notin deleted /\ assoc[a].st = "live" =>
        \/ thread[Unreg].pc = "begin" /\ thread[Unreg].assoc = a
        \/ thread[Unreg].pc \notin {"unregister", "gone"}
           /\ Ahead(assoc_list, thread[Unreg].next, a)

\* Without references the port is about to be freed, or has been.
PortEnds == /\ tgt.port => thread[Conf].pc = "bound"
            /\ tgt.ref = 0 => tgt.st # "live"
            /\ tgt.st = "dying" => \E t \in Thread : thread[t].duty = "free_port"

\* The deletion of an association misses none of its queues: a live queue q of it, with
\* these fields, that has not been deleted is still being published, or t has
\* not come to it in the table.
Covers(t, me, rec, q) ==
    \/ t \in Iod /\ me.pc = "publish" /\ me.queue = q
    \/ /\ me.all = TRUE /\ me.assoc = rec.assoc
       /\ \/ me.pc \in {"scan", "delete", "drop", "put_queue"} /\ rec.qid < me.i
          \/ me.pc = "delete" /\ me.queue = q
NoneMissed == races = {} => \A q \in Queue :
    q \notin deleted /\ queue[q].st = "live" /\ queue[q].assoc \in deleted =>
        \E t \in Thread : Covers(t, thread[t], queue[q], q)

Ends == FreeLoop /\ PortEnds /\ NoneMissed
=============================================================================
