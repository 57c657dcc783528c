---------------------------- MODULE NvmetFcAssoc ----------------------------
(***************************************************************************)
(* A target port of nvmet_fc, its associations and their queues.  A queue  *)
(* holds a reference of its association, an association one of the port;  *)
(* whoever finds an object on a list takes a reference of it first.  LS    *)
(* requests of the host create and delete them, each in a work item of its *)
(* own; commands hold a queue; a controller may be deleted and the port be *)
(* unregistered at any time.                                               *)
(*                                                                         *)
(* A step is a critical section of tgtport->lock or one atomic operation   *)
(* on a reference count, with the private work around it.  A thread that   *)
(* is about to use memory that has been freed, or that has read past the   *)
(* end of a table of queues, stops there (Stale).                          *)
(***************************************************************************)
EXTENDS Naturals, Sequences, FiniteSets, SequencesExt

CONSTANTS
    Assoc, Queue,       \* what kzalloc can give
    Iod,                \* the LS request blocks, NVMET_LS_CTX_COUNT
    Cmd,                \* commands that use a queue for a while
    Unreg, Ctrl, Conf,  \* nvmet_fc_unregister_targetport, nvmet_fc_delete_ctrl
                        \* and the user who binds the port
    MaxQid,             \* NVMET_NR_QUEUES
    Casts,              \* the threads that take part, for each run of the system
    MaxLs,              \* bound: LS requests
    None

Thread == Iod \union Cmd \union {Unreg, Ctrl, Conf}
Qids   == 0 .. MaxQid

ASSUME ObjectAssumption == /\ IsFiniteSet(Assoc) /\ IsFiniteSet(Queue)
                           /\ None \notin Assoc \union Queue
                           /\ Assoc \intersect Queue = {}
ASSUME ThreadAssumption == /\ IsFiniteSet(Thread) /\ Casts \subseteq SUBSET Thread
                           /\ Iod \intersect Cmd = {}
                           /\ {Unreg, Ctrl, Conf} \intersect (Iod \union Cmd) = {}
                           /\ Unreg # Ctrl /\ Unreg # Conf /\ Ctrl # Conf
ASSUME BoundAssumption  == MaxQid \in Nat /\ MaxLs \in Nat

VARIABLES
    tgt,            \* the target port: state, reference count, bound to a port
    assoc_list,     \* tgtport->assoc_list
    assoc,          \* Assoc -> its state and reference count
    queues,         \* assoc->queues[qid]
    queue,          \* Queue -> its fields
    thread,         \* Thread -> where it is, and its locals
    cast, left,     \* who takes part; LS requests that may still come
    deleted,        \* history: what a deletion has begun for
    races           \* history: which of the races named below have happened

vars == <<tgt, assoc_list, assoc, queues, queue, thread, cast, left, deleted, races>>

\* assoc is the association a request names, associd; of and qid are those in the
\* connection id of a disconnect, discon_cmd.id.  Nobody has looked whether they
\* agree, nor whether the number is one of the table: Beyond is one that is not.
Beyond == MaxQid + 1
Requests == [kind : {"create", "other"}, assoc : {None}, of : {None}, qid : {0}]
    \union [kind : {"connect"}, assoc : Assoc, of : {None}, qid : Qids]
    \union [kind : {"disconnect"}, assoc : Assoc, of : Assoc, qid : Qids \union {Beyond}]
    \union [kind : {"disconnect_association"}, assoc : Assoc, of : {None}, qid : {0}]
NoRequest == [kind |-> "none", assoc |-> None, of |-> None, qid |-> 0]

Resting(pc) == [pc |-> pc, rqst |-> NoRequest, assoc |-> None, queue |-> None,
                i |-> 0, all |-> FALSE, next |-> None, duty |-> "none", owed |-> None]

Init ==
    /\ tgt = [st |-> "live", ref |-> 1, port |-> FALSE]
    /\ assoc_list = <<>>
    /\ assoc = [a \in Assoc |-> [st |-> "none", ref |-> 0]]
    /\ queues = [a \in Assoc |-> [k \in Qids |-> None]]
    /\ queue = [q \in Queue |-> [st |-> "none", ref |-> 0, assoc |-> None, qid |-> 0,
                                 connected |-> FALSE]]
    /\ thread = [t \in Thread |-> Resting("idle")]
    /\ cast \in Casts /\ left = MaxLs
    /\ deleted = {} /\ races = {}

-----------------------------------------------------------------------------
(* Who uses what.                                                          *)

\* A queue is being created, or its creator has still to set it up.
Creating(t) == /\ thread[t].rqst.kind \in {"create", "connect"}
               /\ thread[t].pc \in {"alloc_queue", "publish", "put_found", "use_queue"}

\* What a thread is about to dereference.
Uses(t) ==
    LET me == thread[t] IN
    IF me.duty # "none" THEN {me.owed} \ {None}
    ELSE CASE me.pc \in {"alloc_queue", "find_queue", "publish", "put_found", "begin",
                         "scan", "put_assoc", "done"} -> {me.assoc}
           [] me.pc = "use_queue" -> {me.assoc, me.queue}
           [] me.pc \in {"delete", "drop", "put_queue", "command"} -> {me.queue}
           [] me.pc = "next" -> {me.next} \ {None}
           [] OTHER -> {}

\* The object whose count it is about to drop.
Drops(t) ==
    LET me == thread[t] IN
    IF me.duty = "put_assoc" THEN {me.owed}
    ELSE IF me.duty # "none" THEN {}
    ELSE IF me.pc \in {"put_found", "put_assoc", "done"} THEN {me.assoc}
    ELSE IF me.pc \in {"drop", "put_queue", "command"} THEN {me.queue}
    ELSE {}

Gone(x)    == IF x \in Assoc THEN assoc[x].st = "freed" ELSE queue[x].st = "freed"
Dropped(x) == IF x \in Assoc THEN assoc[x].ref = 0 ELSE queue[x].ref = 0
Stale(t)   == \/ \E x \in Uses(t) : Gone(x)
              \/ \E x \in Drops(t) : Dropped(x)
              \/ thread[t].pc = "bound" /\ tgt.ref = 0
              \/ thread[t].pc = "past_table"

\* t is at pc, and what it is about to do is defined.
Ready(t, pc) ==
    t \in cast /\ thread[t].pc = pc /\ thread[t].duty = "none" /\ ~Stale(t)
\* A thread that is done with something forgets its locals.
Goes(t, pc) == [thread EXCEPT ![t] =
    IF pc = "gone" THEN Resting(pc)
    ELSE IF pc = "next" THEN [Resting(pc) EXCEPT !.next = thread[t].next]
    ELSE [@ EXCEPT !.pc = pc]]

Listed(a) == \E i \in DOMAIN assoc_list : assoc_list[i] = a
Unlisted(a) == IF Listed(a) THEN RemoveAt(assoc_list, CHOOSE i \in DOMAIN assoc_list : assoc_list[i] = a)
               ELSE assoc_list

\* Putting a reference; the thread that drops the last one frees the object.
AssocPut(th, t, a) ==
    IF assoc[a].ref = 1 THEN [th EXCEPT ![t].duty = "unlist", ![t].owed = a] ELSE th
PutOf(a) == [assoc EXCEPT ![a] = [st |-> IF @.ref = 1 THEN "dying" ELSE @.st, ref |-> @.ref - 1]]
TgtPut(th, t) == IF tgt.ref = 1 THEN [th EXCEPT ![t].duty = "free_port"] ELSE th
TgtLess == [tgt EXCEPT !.ref = @ - 1, !.st = IF tgt.ref = 1 THEN "dying" ELSE @]

Race(cond, name) == IF cond THEN {name} ELSE {}

-----------------------------------------------------------------------------
(* Freeing.                                                                *)

\* nvmet_fc_tgt_queue_free clears the queue's entry in the table, whoever is in it
\* by now.  (Mutant: it does not.)
Uncleared(q) == queues
Cleared(q)   == [queues EXCEPT ![queue[q].assoc][queue[q].qid] = None]

\* nvmet_fc_tgt_q_put; the last one frees the queue and goes on to put the
\* association.
QueuePut(t, pc) ==
    LET q == thread[t].queue  a == queue[q].assoc IN
    IF queue[q].ref = 1
    THEN /\ queue' = [queue EXCEPT ![q].ref = 0, ![q].st = "freed"]
         /\ queues' = Cleared(q)
         /\ thread' = [Goes(t, pc) EXCEPT ![t].duty = "put_assoc", ![t].owed = a]
    ELSE /\ queue' = [queue EXCEPT ![q].ref = @ - 1]
         /\ thread' = Goes(t, pc)
         /\ UNCHANGED queues

\* The a_put of nvmet_fc_tgt_queue_free.
FreedQueuePuts(t) ==
    LET a == thread[t].owed IN
    /\ thread[t].duty = "put_assoc" /\ ~Stale(t)
    /\ assoc' = PutOf(a)
    /\ thread' = AssocPut([thread EXCEPT ![t].duty = "none", ![t].owed = None], t, a)
    /\ UNCHANGED <<tgt, assoc_list, queues, queue, cast, left, deleted, races>>

\* nvmet_fc_target_assoc_free: until here the association could still be found.
AssocFree(t) ==
    LET a == thread[t].owed IN
    /\ thread[t].duty = "unlist" /\ ~Stale(t)
    /\ assoc_list' = Unlisted(a)
    /\ assoc' = [assoc EXCEPT ![a].st = "freed"]
    /\ tgt' = TgtLess
    /\ thread' = TgtPut([thread EXCEPT ![t].duty = "none", ![t].owed = None], t)
    /\ races' = races \union Race(thread[Unreg].next = a, "neighbour")
    /\ UNCHANGED <<queues, queue, cast, left, deleted>>

\* nvmet_fc_free_tgtport, which calls targetport_delete.
FreeTgtport(t) ==
    /\ thread[t].duty = "free_port"
    /\ tgt' = [tgt EXCEPT !.st = "deleted"]
    /\ thread' = [thread EXCEPT ![t].duty = "none"]
    /\ UNCHANGED <<assoc_list, assoc, queues, queue, cast, left, deleted, races>>

-----------------------------------------------------------------------------
(* LS requests.                                                            *)

\* nvmet_fc_rcv_ls_req takes a block and a reference of the port.
\* (Mutant: no reference.)
NoGet  == tgt
TgtGet == [tgt EXCEPT !.ref = @ + 1]
RcvLsReq(i) ==
    /\ Ready(i, "idle") /\ left > 0 /\ tgt.ref > 0
    /\ left' = left - 1 /\ tgt' = TgtGet
    /\ \E r \in Requests :
        /\ \A a \in {r.assoc, r.of} \ {None} : assoc[a].st # "none"
        /\ thread' = [thread EXCEPT
            ![i].rqst = r, ![i].i = r.qid,
            ![i].pc = CASE r.kind = "create" -> "alloc_assoc"
                        [] r.kind = "other" -> "respond"
                        [] OTHER -> "find_assoc"]
    /\ UNCHANGED <<assoc_list, assoc, queues, queue, cast, deleted, races>>

\* nvmet_fc_alloc_target_assoc, or it fails.
AllocAssoc(i) ==
    /\ Ready(i, "alloc_assoc")
    /\ \/ \E a \in Assoc :
            /\ assoc[a].st = "none"
            /\ assoc' = [assoc EXCEPT ![a] = [st |-> "live", ref |-> 1]]
            /\ assoc_list' = Append(assoc_list, a)
            /\ tgt' = TgtGet
            /\ thread' = [Goes(i, "alloc_queue") EXCEPT ![i].assoc = a]
            /\ races' = races \union Race(thread[Unreg].pc # "idle", "late")
       \/ /\ thread' = Goes(i, "respond")
          /\ UNCHANGED <<tgt, assoc_list, assoc, races>>
    /\ UNCHANGED <<queues, queue, cast, left, deleted>>

\* nvmet_fc_tgt_a_get, which fails when the count is zero.  (Mutant: not called.)
NoAssocGet(a) == assoc
AssocGet(a)   == IF assoc[a].ref > 0 THEN [assoc EXCEPT ![a].ref = @ + 1] ELSE assoc

\* nvmet_fc_find_target_assoc returns what is on the list also when it could not
\* get it.
FindAssoc(i) ==
    LET a == thread[i].rqst.assoc IN
    /\ Ready(i, "find_assoc")
    /\ IF Listed(a)
       THEN /\ assoc' = AssocGet(a)
            /\ races' = races \union Race(assoc[a].ref = 0, "dying")
            /\ thread' = [thread EXCEPT
                ![i].assoc = a,
                ![i].pc = CASE thread[i].rqst.kind = "connect" -> "alloc_queue"
                            [] thread[i].rqst.kind = "disconnect" -> "find_queue"
                            [] OTHER -> "put_found"]
       ELSE /\ thread' = Goes(i, "respond")
            /\ UNCHANGED <<assoc, races>>
    /\ UNCHANGED <<tgt, assoc_list, queues, queue, cast, left, deleted>>

\* nvmet_fc_alloc_target_queue up to nvmet_sq_init; it may fail.  After a failure
\* create_connection puts the association it has found.
AfterFailure(i) == IF thread[i].rqst.kind = "create" THEN "respond" ELSE "put_found"
\* (Mutant: the queue takes no reference of its association.)
NotCounted(a) == assoc[a]
Counted(a)    == [assoc[a] EXCEPT !.ref = @ + 1]
AllocQueue(i) ==
    LET a == thread[i].assoc IN
    /\ Ready(i, "alloc_queue")
    /\ \/ \E q \in Queue :
            /\ assoc[a].ref > 0 /\ queue[q].st = "none"
            /\ queue' = [queue EXCEPT ![q] = [st |-> "live", ref |-> 1, assoc |-> a,
                                              qid |-> thread[i].i, connected |-> FALSE]]
            /\ assoc' = [assoc EXCEPT ![a] = Counted(a)]
            /\ thread' = [Goes(i, "publish") EXCEPT ![i].queue = q]
       \/ /\ thread' = Goes(i, AfterFailure(i))
          /\ UNCHANGED <<queue, assoc>>
    /\ UNCHANGED <<tgt, assoc_list, queues, cast, left, deleted, races>>

\* The queue can be found from here on, and its creator holds no reference.
Publish(i) ==
    LET a == thread[i].assoc  k == thread[i].i IN
    /\ Ready(i, "publish")
    /\ queues' = [queues EXCEPT ![a][k] = thread[i].queue]
    /\ races' = races \union Race(queues[a][k] # None, "same_qid")
                      \union Race(a \in deleted, "young")
    /\ thread' = Goes(i, IF thread[i].rqst.kind = "create" THEN "use_queue" ELSE "put_found")
    /\ UNCHANGED <<tgt, assoc_list, assoc, queue, cast, left, deleted>>

\* The end of nvmet_fc_ls_create_association and _create_connection.
UseQueue(i) ==
    /\ Ready(i, "use_queue")
    /\ queue' = [queue EXCEPT ![thread[i].queue].connected = TRUE]
    /\ thread' = Goes(i, "respond")
    /\ UNCHANGED <<tgt, assoc_list, assoc, queues, cast, left, deleted, races>>

\* nvmet_fc_find_target_queue, for nvmet_fc_ls_disconnect.  The association it
\* looks in need not be the one that nvmet_fc_find_target_assoc has found.
Found(a, k) == IF Listed(a) /\ k \in Qids
               THEN {q \in {queues[a][k]} \ {None} : queue[q].connected /\ queue[q].ref > 0}
               ELSE {}
PastTable(a, k) == Listed(a) /\ k = Beyond
FindQueue(i) ==
    LET a == thread[i].rqst.of  k == thread[i].i IN
    /\ Ready(i, "find_queue")
    /\ \/ \E q \in Found(a, k) :
            /\ queue' = [queue EXCEPT ![q].ref = @ + 1]
            /\ thread' = [Goes(i, "delete") EXCEPT ![i].queue = q]
       \/ /\ Found(a, k) = {} /\ ~PastTable(a, k)
          /\ thread' = Goes(i, "put_found")
          /\ UNCHANGED queue
       \/ /\ PastTable(a, k)
          /\ thread' = Goes(i, "past_table")
          /\ UNCHANGED queue
    /\ UNCHANGED <<tgt, assoc_list, assoc, queues, cast, left, deleted, races>>

\* The put of what nvmet_fc_find_target_assoc has found; then the association goes
\* too, if its queue 0 has been deleted.
PutFound(i) ==
    LET me == thread[i]  a == me.assoc
        pc == IF me.rqst.kind = "connect" /\ me.queue # None THEN "use_queue"
              ELSE IF me.rqst.kind = "disconnect" /\ me.queue # None /\ me.rqst.qid = 0
              THEN "begin" ELSE "respond" IN
    /\ Ready(i, "put_found")
    /\ assoc' = PutOf(a)
    /\ thread' = AssocPut(Goes(i, pc), i, a)
    /\ UNCHANGED <<tgt, assoc_list, queues, queue, cast, left, deleted, races>>

\* nvmet_fc_xmt_ls_rsp and, when the driver is done, nvmet_fc_xmt_ls_rsp_done.
Respond(i) ==
    /\ Ready(i, "respond")
    /\ tgt' = TgtLess
    /\ thread' = TgtPut([thread EXCEPT ![i] = Resting("idle")], i)
    /\ UNCHANGED <<assoc_list, assoc, queues, queue, cast, left, deleted, races>>

-----------------------------------------------------------------------------
(* Deletion.                                                               *)

\* nvmet_fc_delete_target_queue up to the put.  Waiting for commands, which may
\* end before or after, is left out.
DeleteQueue(t) ==
    LET q == thread[t].queue IN
    /\ Ready(t, "delete")
    /\ queue' = [queue EXCEPT ![q].connected = FALSE]
    /\ deleted' = deleted \union {q}
    /\ races' = races \union Race(q \in deleted, "twice")
         \union Race(\E i \in Iod : Creating(i) /\ thread[i].queue = q, "young")
    /\ thread' = Goes(t, "drop")
    /\ UNCHANGED <<tgt, assoc_list, assoc, queues, cast, left>>

\* It puts the reference of the queue's creation.
DropQueue(t) ==
    /\ Ready(t, "drop")
    /\ QueuePut(t, "put_queue")
    /\ UNCHANGED <<tgt, assoc_list, assoc, cast, left, deleted, races>>

\* The caller puts its own.
PutQueue(t) ==
    /\ Ready(t, "put_queue")
    /\ QueuePut(t, IF thread[t].all THEN "scan" ELSE "put_found")
    /\ UNCHANGED <<tgt, assoc_list, assoc, cast, left, deleted, races>>

\* nvmet_fc_delete_target_assoc: the queues, from the last to the first.
BeginAssoc(t) ==
    LET a == thread[t].assoc IN
    /\ Ready(t, "begin")
    /\ deleted' = deleted \union {a}
    /\ races' = races \union Race(a \in deleted, "twice")
         \union Race(\E i \in Iod : Creating(i) /\ thread[i].assoc = a, "young")
    /\ thread' = [Goes(t, "scan") EXCEPT ![t].i = MaxQid + 1, ![t].all = TRUE]
    /\ UNCHANGED <<tgt, assoc_list, assoc, queues, queue, cast, left>>

\* The queues below the index that are there and can be got.
\* (Mutant: queue 0 is forgotten.)
IoQueues(t) == {k \in 1 .. thread[t].i - 1 : queues[thread[t].assoc][k] # None
                                       /\ queue[queues[thread[t].assoc][k]].ref > 0}
Left(t) == {k \in 0 .. thread[t].i - 1 : queues[thread[t].assoc][k] # None
                                       /\ queue[queues[thread[t].assoc][k]].ref > 0}
ScanQueues(t) ==
    /\ Ready(t, "scan")
    /\ \/ \E k \in Left(t) :
            LET q == queues[thread[t].assoc][k] IN
            /\ \A j \in Left(t) : j <= k
            /\ queue' = [queue EXCEPT ![q].ref = @ + 1]
            /\ thread' = [Goes(t, "delete") EXCEPT ![t].queue = q, ![t].i = k]
       \/ /\ Left(t) = {}
          /\ thread' = Goes(t, "put_assoc")
          /\ UNCHANGED queue
    /\ UNCHANGED <<tgt, assoc_list, assoc, queues, cast, left, deleted, races>>

\* The put of the reference of the association's creation.
PutAssoc(t) ==
    LET a == thread[t].assoc IN
    /\ Ready(t, "put_assoc")
    /\ assoc' = PutOf(a)
    /\ thread' = AssocPut(Goes(t, IF t \in Iod THEN "respond" ELSE "done"), t, a)
    /\ UNCHANGED <<tgt, assoc_list, queues, queue, cast, left, deleted, races>>

\* nvmet_fc_unregister_targetport: the loop of __nvmet_fc_free_assocs takes the
\* next association it can get.  It has read the one after that when it drops the
\* lock to delete the first.
First == IF assoc_list = <<>> THEN None ELSE Head(assoc_list)
After(j) == IF j < Len(assoc_list) THEN assoc_list[j + 1] ELSE None
FreeAssocs ==
    LET cursor == IF thread[Unreg].pc = "idle" THEN First ELSE thread[Unreg].next
        on     == {j \in DOMAIN assoc_list :
                    /\ \E k \in 1 .. j : assoc_list[k] = cursor
                    /\ assoc[assoc_list[j]].ref > 0} IN
    /\ Ready(Unreg, "idle") \/ Ready(Unreg, "next")
    /\ \/ \E j \in on :
            LET a == assoc_list[j] IN
            /\ \A k \in on : j <= k
            /\ assoc' = [assoc EXCEPT ![a].ref = @ + 1]
            /\ thread' = [Goes(Unreg, "begin") EXCEPT ![Unreg].assoc = a, ![Unreg].next = After(j)]
       \/ /\ on = {}
          /\ thread' = Goes(Unreg, "unregister")
          /\ UNCHANGED assoc
    /\ UNCHANGED <<tgt, assoc_list, queues, queue, cast, left, deleted, races>>

\* The puts of __nvmet_fc_free_assocs and of nvmet_fc_delete_ctrl.
PutDone(t) ==
    /\ Ready(t, "done")
    /\ assoc' = PutOf(thread[t].assoc)
    /\ thread' = AssocPut(Goes(t, IF t = Unreg THEN "next" ELSE "gone"), t, thread[t].assoc)
    /\ UNCHANGED <<tgt, assoc_list, queues, queue, cast, left, deleted, races>>

Unregister ==
    /\ Ready(Unreg, "unregister")
    /\ tgt' = TgtLess
    /\ thread' = TgtPut(Goes(Unreg, "gone"), Unreg)
    /\ UNCHANGED <<assoc_list, assoc, queues, queue, cast, left, deleted, races>>

\* nvmet_fc_delete_ctrl holds a reference of the port while it looks for the
\* association of the controller, and gives up if it cannot get either.
DeleteCtrl ==
    /\ Ready(Ctrl, "idle")
    /\ \/ tgt.ref > 0 /\ tgt' = TgtGet /\ thread' = Goes(Ctrl, "find_ctrl")
       \/ tgt.ref = 0 /\ thread' = Goes(Ctrl, "gone") /\ UNCHANGED tgt
    /\ UNCHANGED <<assoc_list, assoc, queues, queue, cast, left, deleted, races>>
FindCtrl ==
    /\ Ready(Ctrl, "find_ctrl")
    /\ \/ \E a \in Assoc :
            /\ Listed(a) /\ queues[a][0] # None /\ assoc[a].ref > 0
            /\ assoc' = AssocGet(a)
            /\ thread' = [Goes(Ctrl, "put_port") EXCEPT ![Ctrl].assoc = a]
       \/ thread' = Goes(Ctrl, "put_port") /\ UNCHANGED assoc
    /\ UNCHANGED <<tgt, assoc_list, queues, queue, cast, left, deleted, races>>
CtrlPut ==
    /\ Ready(Ctrl, "put_port")
    /\ tgt' = TgtLess
    /\ thread' = TgtPut(Goes(Ctrl, IF thread[Ctrl].assoc = None THEN "gone" ELSE "begin"), Ctrl)
    /\ UNCHANGED <<assoc_list, assoc, queues, queue, cast, left, deleted, races>>

-----------------------------------------------------------------------------
(* Commands and the user.                                                  *)

\* nvmet_fc_rcv_fcp_req finds the queue of a command ...
CmdArrive(c) ==
    /\ Ready(c, "idle")
    /\ \/ \E a \in Assoc, k \in Qids : \E q \in Found(a, k) :
            /\ queue' = [queue EXCEPT ![q].ref = @ + 1]
            /\ thread' = [Goes(c, "command") EXCEPT ![c].queue = q]
       \/ /\ \E a \in Assoc : PastTable(a, Beyond)
          /\ thread' = Goes(c, "past_table")
          /\ UNCHANGED queue
    /\ UNCHANGED <<tgt, assoc_list, assoc, queues, cast, left, deleted, races>>

\* ... and nvmet_fc_free_fcp_iod puts it.
CmdEnd(c) ==
    /\ Ready(c, "command")
    /\ QueuePut(c, "gone")
    /\ UNCHANGED <<tgt, assoc_list, assoc, cast, left, deleted, races>>

\* nvmet_fc_add_port finds the target port on its list until it is freed, and does
\* not look whether it could get it.
AddPort ==
    /\ Ready(Conf, "idle") /\ tgt.st # "deleted"
    /\ tgt' = [tgt EXCEPT !.port = TRUE, !.ref = IF tgt.ref > 0 THEN @ + 1 ELSE @]
    /\ races' = races \union Race(tgt.ref = 0, "bound")
    /\ thread' = Goes(Conf, "bound")
    /\ UNCHANGED <<assoc_list, assoc, queues, queue, cast, left, deleted>>

\* nvmet_fc_remove_port
RemovePort ==
    /\ Ready(Conf, "bound")
    /\ tgt' = [TgtLess EXCEPT !.port = FALSE]
    /\ thread' = TgtPut(Goes(Conf, "gone"), Conf)
    /\ UNCHANGED <<assoc_list, assoc, queues, queue, cast, left, deleted, races>>

LsRequest(i) ==
    \/ RcvLsReq(i) \/ AllocAssoc(i) \/ FindAssoc(i) \/ AllocQueue(i) \/ Publish(i)
    \/ UseQueue(i) \/ FindQueue(i) \/ PutFound(i) \/ Respond(i)
Deletion(t) ==
    \/ DeleteQueue(t) \/ DropQueue(t) \/ PutQueue(t)
    \/ BeginAssoc(t) \/ ScanQueues(t) \/ PutAssoc(t)
Freeing(t) == FreedQueuePuts(t) \/ AssocFree(t) \/ FreeTgtport(t)

Next ==
    \/ \E i \in Iod : LsRequest(i)
    \/ \E t \in Thread : Deletion(t) \/ Freeing(t)
    \/ FreeAssocs \/ Unregister
    \/ DeleteCtrl \/ FindCtrl \/ CtrlPut
    \/ \E t \in {Unreg, Ctrl} : PutDone(t)
    \/ \E c \in Cmd : CmdArrive(c) \/ CmdEnd(c)
    \/ AddPort \/ RemovePort

Spec == Init /\ [][Next]_vars

-----------------------------------------------------------------------------
(* What must hold.                                                         *)

Pcs == {"idle", "alloc_assoc", "find_assoc", "alloc_queue", "publish", "use_queue",
        "find_queue", "put_found", "respond", "delete", "drop", "put_queue", "begin",
        "scan", "put_assoc", "next", "done", "unregister", "gone", "command", "bound",
        "find_ctrl", "put_port", "past_table"}

\* The variables keep their types; no count goes below zero.
TypeOK ==
    /\ tgt \in [st : {"live", "dying", "deleted"}, ref : Nat, port : BOOLEAN]
    /\ assoc_list \in Seq(Assoc)
    /\ assoc \in [Assoc -> [st : {"none", "live", "dying", "freed"}, ref : Nat]]
    /\ queues \in [Assoc -> [Qids -> Queue \union {None}]]
    /\ queue \in [Queue -> [st : {"none", "live", "freed"}, ref : Nat, qid : Qids,
                            assoc : Assoc \union {None}, connected : BOOLEAN]]
    /\ thread \in [Thread -> [pc : Pcs, rqst : Requests \union {NoRequest},
                              assoc : Assoc \union {None}, queue : Queue \union {None},
                              i : 0 .. MaxQid + 1, all : BOOLEAN,
                              next : Assoc \union {None},
                              duty : {"none", "put_assoc", "unlist", "free_port"},
                              owed : Assoc \union {None}]]
    /\ cast \in Casts /\ left \in 0 .. MaxLs
    /\ deleted \subseteq Assoc \union Queue
    /\ races \subseteq {"late", "dying", "same_qid", "young", "twice", "neighbour", "bound"}

\* The port is held by its registration, by the user who bound it, by each
\* association until it is freed, by each LS request until it is answered and by
\* whoever looks for a controller, and by nothing else: targetport_delete comes when
\* all of them are gone, and then it does come.
TgtRefsExact ==
    tgt.ref = Cardinality({t \in {Unreg} : thread[t].pc # "gone"})
              + (IF tgt.port /\ "bound" \notin races THEN 1 ELSE 0)
              + Cardinality({a \in Assoc : assoc[a].st \in {"live", "dying"}})
              + Cardinality({i \in Iod : thread[i].pc # "idle"})
              + Cardinality({t \in {Ctrl} : thread[t].pc \in {"find_ctrl", "put_port"}})

\* Who holds an association, beside its queues: the reference of its creation, as
\* long as its deletion has not dropped it, and whoever has found it.
Deleting(t, a) == /\ thread[t].all /\ thread[t].assoc = a
                  /\ thread[t].pc \in {"scan", "delete", "drop", "put_queue", "put_assoc"}
Finders(a) ==
    {i \in Iod : /\ thread[i].assoc = a /\ ~thread[i].all
                 /\ \/ thread[i].rqst.kind = "connect"
                       /\ thread[i].pc \in {"alloc_queue", "publish", "put_found"}
                    \/ thread[i].rqst.kind \notin {"create", "connect"}
                       /\ thread[i].pc \in {"find_queue", "delete", "drop", "put_queue",
                                            "put_found", "past_table"}}
    \union {t \in {Unreg, Ctrl} : /\ thread[t].assoc = a
                                  /\ thread[t].pc \in {"put_port", "begin", "scan", "delete",
                                                       "drop", "put_queue", "put_assoc", "done"}}
Holders(a) ==
    Cardinality(Finders(a))
    + Cardinality({q \in Queue : queue[q].st = "live" /\ queue[q].assoc = a})
    + Cardinality({t \in Thread : thread[t].duty = "put_assoc" /\ thread[t].owed = a})
    + (IF a \notin deleted \/ \E t \in Thread : Deleting(t, a) THEN 1 ELSE 0)

\* The count of an association is that of its holders, unless it was deleted twice
\* or found when its count was zero.
AssocRefsExact == races \intersect {"twice", "dying"} = {} =>
    \A a \in Assoc : assoc[a].st = "live" => assoc[a].ref = Holders(a)

\* What the table of an association names can be used by whoever holds the port's
\* lock: it is a queue of that number of this association, not freed; and a queue
\* is missing from it only while it is created or if its number was given again.
TableSound ==
    /\ \A a \in Assoc, k \in Qids : queues[a][k] # None =>
        /\ queue[queues[a][k]].st = "live"
        /\ queue[queues[a][k]].assoc = a /\ queue[queues[a][k]].qid = k
    /\ "same_qid" \notin races =>
        \A q \in Queue : queue[q].st = "live" =>
            \/ queues[queue[q].assoc][queue[q].qid] = q
            \/ \E i \in Iod : thread[i].pc = "publish" /\ thread[i].queue = q

\* Bad memory is used, or a count dropped below zero, only by a thread that looks up
\* a queue number past the end of the table (019:14), or after one of these: an
\* object was deleted twice; deleted while it was being created; an association
\* was found when its count was zero (458:13); a disconnect goes on to delete one
\* that has been deleted meanwhile (481:100); the one that __nvmet_fc_free_assocs
\* wanted next was freed while it had dropped the lock (416:12); or the port was
\* bound when its count was zero (447:30).
StaleExplained == \A t \in cast : Stale(t) =>
    \/ races \intersect {"twice", "young", "dying", "neighbour", "bound"} # {}
    \/ thread[t].pc = "begin" /\ thread[t].assoc \in deleted
    \/ thread[t].pc = "past_table"

\* If nothing of that kind happened, no association was created behind the back of
\* the unregistration and no queue number given twice, then everything has been
\* freed and the driver told when the last thread comes to rest.
AtRest == /\ thread[Unreg].pc = "gone" /\ thread[Conf].pc # "bound"
          /\ \A t \in Thread : thread[t].pc \in {"idle", "gone"} /\ thread[t].duty = "none"
AllFreed == AtRest /\ races = {} =>
    /\ tgt.st = "deleted"
    /\ \A x \in Assoc : assoc[x].st \in {"none", "freed"}
    /\ \A x \in Queue : queue[x].st \in {"none", "freed"}

\* Nobody ever uses a queue or an association that has been freed.
NeverStale == \A t \in cast : thread[t].pc = "past_table" \/ ~Stale(t)
=============================================================================
