---------------------------- MODULE NvmetFcQueue ----------------------------
(***************************************************************************)
(* One queue of the NVMe over Fibre Channel target.  The driver (LLDD)     *)
(* delivers commands to it; each gets one of the queue's request blocks    *)
(* (fod), or waits in pending_cmd_list for one.  A fod moves the data,     *)
(* has the NVMe layer execute the command, sends the response and is       *)
(* freed.  Meanwhile the driver may report an abort (ABTS) and the queue   *)
(* may be deleted.                                                         *)
(*                                                                         *)
(* A fod in use is worked on by one thread at a time, wherever it comes    *)
(* from; `at' says how far it is.  Commands that arrive, ABTS and          *)
(* deletions are threads of their own.  A step ends where the lock state   *)
(* changes or where another thread may see the difference.  Drivers that   *)
(* ask for work queue contexts (CMD_IN_ISR, OPDONE_IN_ISR) are left out:   *)
(* with them flush_workqueue has something to wait for.                    *)
(***************************************************************************)
EXTENDS Naturals, Sequences, FiniteSets

CONSTANTS
    Cmd,        \* the commands the driver delivers (its fcpreqs)
    Fod,        \* the request blocks, sqsize of them
    Deleter,    \* the threads that will delete the queue
    Abts,       \* the commands the driver may report an ABTS for
    Chunks,     \* into how many transfers the data of a command is cut
    Dirs,       \* the kinds of commands that arrive
    DeferRcv,   \* the driver has a defer_rcv operation
    ReadRsp,    \* it can send the response with the last data
    NoCmd, NoFod, Nobody

ASSUME CmdAssumption     == IsFiniteSet(Cmd) /\ NoCmd \notin Cmd /\ Abts \subseteq Cmd
ASSUME FodAssumption     == IsFiniteSet(Fod) /\ NoFod \notin Fod
ASSUME DeleterAssumption == IsFiniteSet(Deleter) /\ Deleter \intersect Cmd = {}
                            /\ Nobody \notin Deleter \union Cmd
ASSUME ChunksAssumption  == Chunks \in Nat \ {0}
ASSUME DirsAssumption    == Dirs \subseteq {"read", "write", "nodata", "bad"}
ASSUME DriverAssumption  == DeferRcv \in BOOLEAN /\ ReadRsp \in BOOLEAN

VARIABLES
    \* the commands
    dir,        \* Cmd -> what the command IU asks for
    stage,      \* Cmd -> how far nvmet_fc_rcv_fcp_req and what follows has come
    private,    \* Cmd -> fcpreq->nvmet_fc_private
    op,         \* Cmd -> fcpreq->op
    \* what the driver has been asked to do with them
    answers,    \* Cmd -> the responses it was given
    aborts,     \* the commands fcp_abort was called for; NoCmd: with no command
    \* the request blocks
    fod,        \* Fod -> its fields
    at,         \* Fod -> where the thread working on it is
    cmd,        \* Fod -> that thread's local fcpreq
    fod_list,   \* the free ones
    \* the queue
    connected, ref, freed,
    sq,         \* the NVMe layer's submission queue exists
    qlock,      \* who holds it between two steps
    pending,    \* pending_cmd_list
    avail,      \* length of avail_defer_list
    deferred,   \* history: the commands that ever were in pending_cmd_list
    \* the other threads
    abts,       \* Cmd -> nvmet_fc_rcv_fcp_abort: where it is, and the fod it read
    del         \* Deleter -> where it is and its locals; doomed is history: the
                \* command whose data was being fetched when it looked

cmdVars   == <<dir, stage, private, op>>
lldd      == <<answers, aborts>>
fodVars   == <<fod, at, cmd, fod_list>>
deferVars == <<pending, avail, deferred>>
refVars   == <<ref, freed>>
queueVars == <<connected, refVars, sq, qlock, deferVars>>
vars      == <<cmdVars, lldd, fodVars, queueVars, abts, del>>

Fields == [active : BOOLEAN, abort : BOOLEAN, aborted : BOOLEAN,
           writedataactive : BOOLEAN, fcpreq : Cmd \union {NoCmd},
           offset : 0 .. Chunks, data : BOOLEAN, req : BOOLEAN]

\* nvmet_fc_prep_fcp_iodlist.  data: data_sg is there; req: the NVMe layer
\* holds the request.
Blank == [active |-> FALSE, abort |-> FALSE, aborted |-> FALSE,
          writedataactive |-> FALSE, fcpreq |-> NoCmd, offset |-> 0,
          data |-> FALSE, req |-> FALSE]

\* The queue once it is connected.
Init ==
    /\ dir \in [Cmd -> Dirs]
    /\ stage = [c \in Cmd |-> "new"]
    /\ private = [c \in Cmd |-> NoFod]
    /\ op = [c \in Cmd |-> "none"]
    /\ answers = [c \in Cmd |-> 0] /\ aborts = {}
    /\ fod = [f \in Fod |-> Blank]
    /\ at = [f \in Fod |-> "idle"]
    /\ cmd = [f \in Fod |-> NoCmd]
    /\ fod_list = Fod
    /\ connected = TRUE /\ ref = 1 /\ freed = FALSE /\ sq = TRUE
    /\ qlock = Nobody
    /\ pending = <<>> /\ avail = 0 /\ deferred = {}
    /\ abts = [c \in Cmd |-> [pc |-> "none", fod |-> NoFod]]
    /\ del = [d \in Deleter |-> [pc |-> "none", todo |-> {}, fod |-> NoFod,
                                 disconnect |-> FALSE, cmd |-> NoCmd,
                                 doomed |-> NoCmd, fcpreq |-> NoCmd]]

\* nvmet_fc_tgt_q_get, nvmet_fc_tgt_q_put and nvmet_fc_tgt_queue_free.  What a
\* put on a freed queue does is undefined and not modelled.
\* (Mutants: the reference is not taken; that of the lookup is not dropped.)
NoGet == ref > 0 /\ UNCHANGED refVars
KeptRef == ref > 0 /\ UNCHANGED refVars
QGet == ref > 0 /\ ref' = ref + 1 /\ UNCHANGED freed
QPut == ref > 0 /\ ref' = ref - 1 /\ freed' = (ref = 1)
LookupPut == QPut

-----------------------------------------------------------------------------
(* A command arrives: nvmet_fc_rcv_fcp_req.                                *)

Stage(c, s) == stage' = [stage EXCEPT ![c] = s]
Refuse(c) == Stage(c, "refused")

\* nvmet_fc_find_target_queue.
FindTargetQueue(c) ==
    /\ stage[c] = "new"
    /\ \/ connected /\ QGet /\ Stage(c, "found")
       \/ ~ (connected /\ ref > 0) /\ Refuse(c) /\ UNCHANGED refVars
    /\ UNCHANGED <<dir, private, op, lldd, fodVars, connected, sq, qlock, deferVars, abts, del>>

\* nvmet_fc_alloc_fcp_iod under qlock; the fod inherits the reference.
AllocFod(c) ==
    /\ stage[c] = "found" /\ qlock = Nobody
    /\ \E f \in fod_list :
         /\ fod_list' = fod_list \ {f}
         /\ fod' = [fod EXCEPT ![f].active = TRUE]
         /\ at' = [at EXCEPT ![f] = "submit"]
         /\ cmd' = [cmd EXCEPT ![f] = c]
    /\ Stage(c, "running")
    /\ UNCHANGED <<dir, private, op, lldd, queueVars, abts, del>>

Defer(c) ==
    /\ pending' = Append(pending, c)
    /\ deferred' = deferred \union {c}
    /\ Stage(c, "pending")

\* No fod is free: the command is refused, or waits if there is a spare list
\* element, or one has to be allocated with qlock dropped.
NoFodFree(c) ==
    /\ stage[c] = "found" /\ qlock = Nobody /\ fod_list = {}
    /\ \/ ~ DeferRcv /\ LookupPut /\ Refuse(c) /\ UNCHANGED deferVars
       \/ DeferRcv /\ avail > 0 /\ Defer(c) /\ avail' = avail - 1 /\ UNCHANGED refVars
       \/ DeferRcv /\ avail = 0 /\ Stage(c, "kmalloc") /\ UNCHANGED <<refVars, deferVars>>
    /\ UNCHANGED <<dir, private, op, lldd, fodVars, connected, sq, qlock, abts, del>>

Kmalloc(c) ==
    /\ stage[c] = "kmalloc"
    /\ \/ LookupPut /\ Refuse(c) /\ UNCHANGED <<pending, deferred>>
       \/ qlock = Nobody /\ Defer(c) /\ UNCHANGED refVars
    /\ UNCHANGED <<dir, private, op, lldd, fodVars, connected, sq, qlock, avail, abts, del>>

-----------------------------------------------------------------------------
(* The thread working on a fod.                                            *)

Goto(f, pc) == at' = [at EXCEPT ![f] = pc]

\* The command gets the fod, and nvmet_fc_queue_fcp_req hands it on.
Bind(f, active) ==
    /\ private' = [private EXCEPT ![cmd[f]] = f]
    /\ fod' = [fod EXCEPT ![f].fcpreq = cmd[f], ![f].active = active]
    /\ Goto(f, "handle")

Submit(f) ==
    /\ at[f] = "submit" /\ Bind(f, fod[f].active)
    /\ UNCHANGED <<dir, stage, op, lldd, cmd, fod_list, queueVars, abts, del>>

\* nvmet_fc_handle_fcp_rqst: a malformed command is aborted; the NVMe layer may
\* refuse a request, and does so when its queue is gone; there may be no memory
\* for the data; data to be written is fetched first.
Handle(f) ==
    LET dr == dir[cmd[f]] IN
    /\ at[f] = "handle"
    /\ \/ dr = "bad" /\ Goto(f, "abort") /\ UNCHANGED fod
       \/ /\ dr # "bad" /\ Goto(f, "complete")
          /\ fod' = [fod EXCEPT ![f].data = FALSE]
       \/ /\ dr \in {"read", "write"} /\ sq /\ Goto(f, "complete")
          /\ fod' = [fod EXCEPT ![f].data = FALSE, ![f].req = TRUE]
       \/ /\ dr # "bad" /\ sq
          /\ Goto(f, IF dr = "write" THEN "transfer" ELSE "execute")
          /\ fod' = [fod EXCEPT ![f].data = (dr # "nodata"), ![f].req = TRUE,
                                ![f].offset = 0]
    /\ UNCHANGED <<cmdVars, lldd, cmd, fod_list, queueVars, abts, del>>

\* The NVMe layer is done, or never began: nvmet_fc_fcp_nvme_cmd_done.
CmdDone(f) ==
    /\ at[f] \in {"execute", "complete"}
    /\ \/ fod[f].abort /\ Goto(f, "abort") /\ fod' = [fod EXCEPT ![f].req = FALSE]
       \/ /\ ~ fod[f].abort /\ dir[cmd[f]] = "read" /\ fod[f].data
          /\ Goto(f, "transfer") /\ fod' = [fod EXCEPT ![f].req = FALSE]
       \/ /\ ~ fod[f].abort /\ ~ (dir[cmd[f]] = "read" /\ fod[f].data)
          /\ Goto(f, "respond")
          /\ fod' = [fod EXCEPT ![f].data = FALSE, ![f].req = FALSE]
    /\ UNCHANGED <<cmdVars, lldd, cmd, fod_list, queueVars, abts, del>>

Answered(c) == answers' = [answers EXCEPT ![c] = @ + 1]

\* nvmet_fc_transfer_fcp_data.  A transfer that the driver does not take ends
\* in nvmet_req_complete or in nvmet_fc_xmt_fcp_op_done.
LastChunk(f) == fod[f].offset + 1 = Chunks
TransferOp(f) ==
    IF dir[cmd[f]] = "write" THEN "WRITEDATA"
    ELSE IF LastChunk(f) /\ ReadRsp THEN "READDATA_RSP" ELSE "READDATA"
Transfer(f) ==
    /\ at[f] = "transfer"
    /\ op' = [op EXCEPT ![cmd[f]] = TransferOp(f)]
    /\ \/ /\ Goto(f, "lldd") /\ UNCHANGED fod
          /\ IF TransferOp(f) = "READDATA_RSP" THEN Answered(cmd[f]) ELSE UNCHANGED answers
       \/ /\ UNCHANGED answers
          /\ \/ /\ TransferOp(f) = "WRITEDATA" /\ Goto(f, "complete")
                /\ fod' = [fod EXCEPT ![f].abort = TRUE, ![f].writedataactive = FALSE]
             \/ /\ TransferOp(f) # "WRITEDATA" /\ Goto(f, "failed")
                /\ fod' = [fod EXCEPT ![f].abort = TRUE]
    /\ UNCHANGED <<dir, stage, private, aborts, cmd, fod_list, queueVars, abts, del>>

\* The driver has done the operation, or failed.
LlddDone(f) ==
    /\ at[f] = "lldd" /\ (Goto(f, "done") \/ Goto(f, "failed"))
    /\ UNCHANGED <<cmdVars, lldd, fod, cmd, fod_list, queueVars, abts, del>>

\* nvmet_fc_fod_op_done, by fcpreq->op.
\* (Mutants: a response with the data is taken for data, and another follows;
\* a write is executed after its first transfer.)
NeverLast(f) == FALSE
AnyChunk(f) == TRUE
CarriedResponse(f) == op[cmd[f]] = "READDATA_RSP"
AllMoved(f) == fod[f].offset + 1 = Chunks

WriteDone(f) ==
    /\ at[f] \in {"done", "failed"} /\ op[cmd[f]] = "WRITEDATA"
    /\ \/ /\ fod[f].abort \/ at[f] = "failed"
          /\ Goto(f, "complete")
          /\ fod' = [fod EXCEPT ![f].writedataactive = FALSE, ![f].abort = TRUE]
       \/ /\ ~ fod[f].abort /\ at[f] = "done"
          /\ Goto(f, IF AllMoved(f) THEN "execute" ELSE "chunk")
          /\ fod' = [fod EXCEPT ![f].writedataactive = FALSE, ![f].offset = @ + 1]
    /\ UNCHANGED <<cmdVars, lldd, cmd, fod_list, queueVars, abts, del>>

\* Its next chunk is announced under flock.
NextChunk(f) ==
    /\ at[f] = "chunk" /\ Goto(f, "transfer")
    /\ fod' = [fod EXCEPT ![f].writedataactive = TRUE]
    /\ UNCHANGED <<cmdVars, lldd, cmd, fod_list, queueVars, abts, del>>

ReadDone(f) ==
    /\ at[f] \in {"done", "failed"} /\ op[cmd[f]] \in {"READDATA", "READDATA_RSP"}
    /\ \/ /\ fod[f].abort \/ at[f] = "failed"
          /\ Goto(f, "abort") /\ fod' = [fod EXCEPT ![f].writedataactive = FALSE]
       \/ /\ ~ fod[f].abort /\ at[f] = "done" /\ CarriedResponse(f)
          /\ Goto(f, "free")
          /\ fod' = [fod EXCEPT ![f].writedataactive = FALSE, ![f].data = FALSE]
       \/ /\ ~ fod[f].abort /\ at[f] = "done" /\ ~ CarriedResponse(f)
          /\ Goto(f, IF AllMoved(f) THEN "respond" ELSE "transfer")
          /\ fod' = [fod EXCEPT ![f].writedataactive = FALSE, ![f].offset = @ + 1,
                                ![f].data = ~ AllMoved(f)]
    /\ UNCHANGED <<cmdVars, lldd, cmd, fod_list, queueVars, abts, del>>

RspDone(f) ==
    /\ at[f] \in {"done", "failed"} /\ op[cmd[f]] = "RSP"
    /\ Goto(f, IF fod[f].abort THEN "abort" ELSE "free")
    /\ fod' = [fod EXCEPT ![f].writedataactive = FALSE]
    /\ UNCHANGED <<cmdVars, lldd, cmd, fod_list, queueVars, abts, del>>

\* nvmet_fc_xmt_fcp_rsp.
XmtRsp(f) ==
    /\ at[f] = "respond"
    /\ op' = [op EXCEPT ![cmd[f]] = "RSP"]
    /\ \/ Goto(f, "lldd") /\ Answered(cmd[f])
       \/ Goto(f, "abort") /\ UNCHANGED answers
    /\ UNCHANGED <<dir, stage, private, aborts, fod, cmd, fod_list, queueVars, abts, del>>

\* nvmet_fc_abort_op.
\* (Mutant: the wrong flag is tested.)
ToBeAborted(f) == fod[f].abort
Told(f) == fod[f].aborted
AbortOp(f) ==
    /\ at[f] = "abort" /\ Goto(f, "free")
    /\ fod' = [fod EXCEPT ![f].data = FALSE]
    /\ aborts' = IF Told(f) THEN aborts ELSE aborts \union {cmd[f]}
    /\ UNCHANGED <<cmdVars, answers, cmd, fod_list, queueVars, abts, del>>

\* nvmet_fc_free_fcp_iod: its fields are cleared, without a lock ...
FreeFod(f) ==
    /\ at[f] = "free" /\ Goto(f, "release")
    /\ private' = [private EXCEPT ![cmd[f]] = NoFod]
    /\ fod' = [fod EXCEPT ![f].active = FALSE, ![f].abort = FALSE, ![f].aborted = FALSE,
                          ![f].writedataactive = FALSE, ![f].fcpreq = NoCmd]
    /\ Stage(cmd[f], "closing")
    /\ UNCHANGED <<dir, op, lldd, cmd, fod_list, queueVars, abts, del>>

\* ... and the driver gets its command back ...
Release(f) ==
    /\ at[f] = "release" /\ Goto(f, "next")
    /\ Stage(cmd[f], "released")
    /\ cmd' = [cmd EXCEPT ![f] = NoCmd]
    /\ UNCHANGED <<dir, private, op, lldd, fod, fod_list, queueVars, abts, del>>

\* ... then, under qlock, it is free, and its reference is dropped ...
FodFree(f) ==
    /\ at[f] = "next" /\ qlock = Nobody /\ pending = <<>>
    /\ fod_list' = fod_list \union {f} /\ Goto(f, "idle")
    /\ QPut
    /\ UNCHANGED <<cmdVars, lldd, fod, cmd, connected, sq, qlock, deferVars, abts, del>>

\* ... or it takes the first command that waits ...
\* (Mutant: which stays in the list.)
Same(s) == s
Rest(s) == Tail(s)
FodNext(f) ==
    /\ at[f] = "next" /\ qlock = Nobody /\ pending # <<>>
    /\ cmd' = [cmd EXCEPT ![f] = Head(pending)]
    /\ pending' = Rest(pending)
    /\ avail' = avail + 1
    /\ Stage(Head(pending), "running")
    /\ Goto(f, "reuse")
    /\ UNCHANGED <<dir, private, op, lldd, fod, fod_list, connected, refVars, sq, qlock,
                   deferred, abts, del>>

\* ... and keeps its reference, though that command came with one of its own.
Reuse(f) ==
    /\ at[f] = "reuse" /\ Bind(f, TRUE)
    /\ UNCHANGED <<dir, stage, op, lldd, cmd, fod_list, queueVars, abts, del>>

-----------------------------------------------------------------------------
(* The driver reports an ABTS: nvmet_fc_rcv_fcp_abort.                     *)

\* (Mutant: qlock is not released.)
StillHeld(h) == h
Unlocked(h) == Nobody

AbtsGoto(c, pc, f) == abts' = [abts EXCEPT ![c] = [pc |-> pc, fod |-> f]]

\* The fod is looked up without a lock.
AbtsLook(c) ==
    /\ c \in Abts /\ abts[c].pc = "none"
    /\ stage[c] \in {"pending", "running", "closing"}
    /\ LET f == private[c] IN
       IF f # NoFod /\ fod[f].fcpreq = c THEN AbtsGoto(c, "lock", f)
       ELSE AbtsGoto(c, "ignored", NoFod)
    /\ UNCHANGED <<cmdVars, lldd, fodVars, queueVars, del>>
AbtsLock(c) ==
    /\ abts[c].pc = "lock" /\ qlock = Nobody
    /\ \/ /\ fod[abts[c].fod].active
          /\ AbtsGoto(c, "mark", abts[c].fod) /\ qlock' = c
       \/ /\ ~ fod[abts[c].fod].active
          /\ AbtsGoto(c, "ignored", NoFod) /\ UNCHANGED qlock
    /\ UNCHANGED <<cmdVars, lldd, fodVars, connected, refVars, sq, deferVars, del>>
AbtsMark(c) ==
    /\ abts[c].pc = "mark"
    /\ fod' = [fod EXCEPT ![abts[c].fod].abort = TRUE, ![abts[c].fod].aborted = TRUE]
    /\ AbtsGoto(c, "marked", NoFod) /\ qlock' = Unlocked(c)
    /\ UNCHANGED <<cmdVars, lldd, at, cmd, fod_list, connected, refVars, sq, deferVars, del>>

-----------------------------------------------------------------------------
(* The queue is deleted: nvmet_fc_delete_target_queue, between the get and  *)
(* the put of its callers.                                                 *)

DelGoto(d, pc) == del' = [del EXCEPT ![d].pc = pc]

DelGet(d) ==
    /\ del[d].pc = "none" /\ QGet /\ DelGoto(d, "begin")
    /\ UNCHANGED <<cmdVars, lldd, fodVars, connected, sq, qlock, deferVars, abts>>

DelDisconnect(d) ==
    /\ del[d].pc = "begin"
    /\ connected' = FALSE
    /\ del' = [del EXCEPT ![d].pc = "lock", ![d].disconnect = connected]
    /\ UNCHANGED <<cmdVars, lldd, fodVars, refVars, sq, qlock, deferVars, abts>>
DelLock(d) ==
    /\ del[d].pc = "lock" /\ qlock = Nobody
    /\ qlock' = d
    /\ del' = [del EXCEPT ![d].pc = "scan", ![d].todo = Fod]
    /\ UNCHANGED <<cmdVars, lldd, fodVars, connected, refVars, sq, deferVars, abts>>

\* Every fod in use is to be aborted; the driver is told of those that fetch
\* data to be written.
DelScan(d, f) ==
    /\ del[d].pc = "scan" /\ f \in del[d].todo
    /\ del' = [del EXCEPT ![d].todo = @ \ {f},
                          ![d].pc = IF fod[f].active THEN "mark" ELSE "scan",
                          ![d].fod = IF fod[f].active THEN f ELSE NoFod]
    /\ UNCHANGED <<cmdVars, lldd, fodVars, queueVars, abts>>
DelMark(d) ==
    LET f == del[d].fod IN
    /\ del[d].pc = "mark"
    /\ fod' = [fod EXCEPT ![f].abort = TRUE]
    /\ \/ fod[f].writedataactive
          /\ del' = [del EXCEPT ![d].pc = "waiting", ![d].doomed = cmd[f]]
       \/ ~ fod[f].writedataactive /\ DelGoto(d, "scan")
    /\ UNCHANGED <<cmdVars, lldd, at, cmd, fod_list, queueVars, abts>>
DelAborted(d) ==
    /\ del[d].pc = "waiting"
    /\ fod' = [fod EXCEPT ![del[d].fod].aborted = TRUE]
    /\ DelGoto(d, "call")
    /\ UNCHANGED <<cmdVars, lldd, at, cmd, fod_list, queueVars, abts>>

\* fod->fcpreq is loaded when flock is no longer held: meanwhile the thread of
\* the fod may have cleared it, and by the time of the call given the command back.
DelLoad(d) ==
    /\ del[d].pc = "call"
    /\ del' = [del EXCEPT ![d].pc = "fcp_abort", ![d].fcpreq = fod[del[d].fod].fcpreq]
    /\ UNCHANGED <<cmdVars, lldd, fodVars, queueVars, abts>>
DelCall(d) ==
    /\ del[d].pc = "fcp_abort"
    /\ aborts' = aborts \union {del[d].fcpreq}
    /\ del' = [del EXCEPT ![d].pc = "scan", ![d].doomed = NoCmd, ![d].fcpreq = NoCmd]
    /\ UNCHANGED <<cmdVars, answers, fodVars, queueVars, abts>>

\* The spare list elements go.
DelAvail(d) ==
    /\ del[d].pc = "scan" /\ del[d].todo = {}
    /\ avail' = 0
    /\ DelGoto(d, "drain")
    /\ UNCHANGED <<cmdVars, lldd, fodVars, connected, refVars, sq, qlock, pending, deferred, abts>>

\* The commands that wait are aborted one by one, with qlock dropped.
DelDrain(d) ==
    /\ del[d].pc = "drain"
    /\ qlock' = Unlocked(d)
    /\ \/ /\ pending # <<>>
          /\ pending' = Tail(pending)
          /\ del' = [del EXCEPT ![d].pc = "drop", ![d].cmd = Head(pending)]
       \/ /\ pending = <<>>
          /\ DelGoto(d, "destroy") /\ UNCHANGED pending
    /\ UNCHANGED <<cmdVars, lldd, fodVars, connected, refVars, sq, avail, deferred, abts>>
DelDrop(d) ==
    /\ del[d].pc = "drop" /\ qlock = Nobody
    /\ aborts' = aborts \union {del[d].cmd}
    /\ Stage(del[d].cmd, "released")
    /\ qlock' = d
    /\ del' = [del EXCEPT ![d].pc = "drain", ![d].cmd = NoCmd]
    /\ UNCHANGED <<dir, private, op, answers, fodVars, connected, refVars, sq, deferVars, abts>>

\* The one that disconnected the queue destroys the NVMe layer's part, which
\* waits for the requests that layer holds.
DelDestroy(d) ==
    /\ del[d].pc = "destroy"
    /\ \/ /\ del[d].disconnect /\ \A f \in Fod : ~ fod[f].req
          /\ sq' = FALSE
       \/ ~ del[d].disconnect /\ UNCHANGED sq
    /\ DelGoto(d, "put")
    /\ UNCHANGED <<cmdVars, lldd, fodVars, connected, refVars, qlock, deferVars, abts>>

\* The reference the queue was created with, then the caller's.
DelPut(d) ==
    /\ del[d].pc \in {"put", "return"}
    /\ QPut
    /\ DelGoto(d, IF del[d].pc = "put" THEN "return" ELSE "over")
    /\ UNCHANGED <<cmdVars, lldd, fodVars, connected, sq, qlock, deferVars, abts>>

-----------------------------------------------------------------------------
Arrival(c) == AllocFod(c) \/ NoFodFree(c) \/ Kmalloc(c)

Work(f) == \/ Submit(f) \/ Handle(f) \/ CmdDone(f) \/ Transfer(f) \/ LlddDone(f)
           \/ WriteDone(f) \/ NextChunk(f) \/ ReadDone(f) \/ RspDone(f) \/ XmtRsp(f)
           \/ AbortOp(f) \/ FreeFod(f) \/ Release(f) \/ FodFree(f) \/ FodNext(f)
           \/ Reuse(f)

Abort(c) == AbtsLock(c) \/ AbtsMark(c)

Delete(d) == \/ DelDisconnect(d) \/ DelLock(d) \/ (\E f \in Fod : DelScan(d, f))
             \/ DelMark(d) \/ DelAborted(d) \/ DelLoad(d) \/ DelCall(d) \/ DelAvail(d)
             \/ DelDrain(d) \/ DelDrop(d) \/ DelDestroy(d) \/ DelPut(d)

Next == \/ \E c \in Cmd : FindTargetQueue(c) \/ Arrival(c) \/ AbtsLook(c) \/ Abort(c)
        \/ \E f \in Fod : Work(f)
        \/ \E d \in Deleter : DelGet(d) \/ Delete(d)

\* A thread that has begun runs on when it can; the driver ends the operations
\* it took (each has a timeout), the NVMe layer the requests.  No command need
\* arrive, and nobody need delete the queue.
Fairness == /\ \A c \in Cmd : WF_vars(Arrival(c)) /\ WF_vars(Abort(c))
            /\ \A f \in Fod : WF_vars(Work(f))
            /\ \A d \in Deleter : WF_vars(Delete(d))

Spec == Init /\ [][Next]_vars /\ Fairness

-----------------------------------------------------------------------------
(* What must hold.                                                         *)

Stages == {"new", "found", "kmalloc", "pending", "running", "closing", "refused",
           "released"}
Ops    == {"none", "WRITEDATA", "READDATA", "READDATA_RSP", "RSP"}
Places == {"idle", "submit", "handle", "execute", "complete", "transfer", "lldd", "done",
           "failed", "chunk", "respond", "abort", "free", "release", "next", "reuse"}
AbtsPc == {"none", "lock", "mark", "marked", "ignored"}
DelPc  == {"none", "begin", "lock", "scan", "mark", "waiting", "call", "fcp_abort", "drain",
           "drop", "destroy", "put", "return", "over"}

\* Type invariant.
TypeOK ==
    /\ dir \in [Cmd -> Dirs]
    /\ stage \in [Cmd -> Stages]
    /\ private \in [Cmd -> Fod \union {NoFod}]
    /\ op \in [Cmd -> Ops]
    /\ answers \in [Cmd -> Nat] /\ aborts \subseteq Cmd \union {NoCmd}
    /\ fod \in [Fod -> Fields]
    /\ at \in [Fod -> Places]
    /\ cmd \in [Fod -> Cmd \union {NoCmd}]
    /\ fod_list \subseteq Fod
    /\ connected \in BOOLEAN /\ ref \in Nat /\ freed \in BOOLEAN /\ sq \in BOOLEAN
    /\ qlock \in Deleter \union Cmd \union {Nobody}
    /\ pending \in Seq(Cmd) /\ avail \in Nat /\ deferred \subseteq Cmd
    /\ abts \in [Cmd -> [pc : AbtsPc, fod : Fod \union {NoFod}]]
    /\ del \in [Deleter -> [pc : DelPc, todo : SUBSET Fod, fod : Fod \union {NoFod},
                            disconnect : BOOLEAN, cmd : Cmd \union {NoCmd},
                            doomed : Cmd \union {NoCmd}, fcpreq : Cmd \union {NoCmd}]]

Busy == {f \in Fod : at[f] # "idle"}
Waiting == {pending[i] : i \in 1 .. Len(pending)}

\* A command that was taken has one place: a fod, and only one, or the list of
\* those that wait, once, or a thread that drops it.  A fod is free or in use.
FodsOwn == \A f \in Fod : cmd[f] # NoCmd =>
    /\ stage[cmd[f]] \in {"running", "closing"}
    /\ \A g \in Fod : cmd[g] = cmd[f] => g = f
ListOwns == \A i \in 1 .. Len(pending) :
    /\ stage[pending[i]] = "pending"
    /\ \A j \in 1 .. Len(pending) : pending[j] = pending[i] => j = i
DropOwns == \A d \in Deleter : del[d].cmd # NoCmd =>
    /\ stage[del[d].cmd] = "pending" /\ del[d].cmd \notin Waiting
    /\ \A e \in Deleter : del[e].cmd = del[d].cmd => e = d
NoneLost == \A c \in Cmd :
    /\ stage[c] \in {"running", "closing"} => \E f \in Fod : cmd[f] = c
    /\ stage[c] = "pending" => c \in Waiting \/ \E d \in Deleter : del[d].cmd = c
OneOwner == fod_list = Fod \ Busy /\ FodsOwn /\ ListOwns /\ DropOwns /\ NoneLost

\* The references are exactly those of: the queue's creation, until a deletion
\* drops it; the arriving commands; the fods in use; the deletions; and, for
\* good, every command that ever waited.
Arriving == {c \in Cmd : stage[c] \in {"found", "kmalloc"}}
Deleting == {d \in Deleter : del[d].pc \notin {"none", "over"}}
Dropped  == {d \in Deleter : del[d].pc \in {"return", "over"}}
RefsExact ==
    ref + Cardinality(Dropped) = 1 + Cardinality(Arriving) + Cardinality(Busy)
                                   + Cardinality(Deleting) + Cardinality(deferred)

\* The queue exists as long as a command or a thread that deletes it uses it
\* ("the fod will inherit the ownership of that reference").
QueueOutlives == freed => Arriving = {} /\ Busy = {} /\ Waiting = {} /\ Deleting = {}

\* A write is executed only when all its data is there.
WriteAfterData == \A f \in Fod :
    at[f] = "execute" /\ dir[cmd[f]] = "write" => fod[f].offset = Chunks

\* While the queue is connected and no ABTS has come, each released command was
\* answered or the driver told to abort it, whatever the driver and the NVMe
\* layer refuse (nvmet_fc_xmt_fcp_rsp, nvmet_fc_transfer_fcp_data).
HeardOf == (connected /\ \A c \in Cmd : abts[c].pc = "none") =>
    \A c \in Cmd : stage[c] = "released" => answers[c] > 0 \/ c \in aborts

\* When all is quiet after a deletion, the queue has been freed: every path of a
\* command drops what it holds, also the refused, aborted and failing ones.  Not if
\* a command was deferred: its own reference (441:81) or that of the request block
\* it gets (449:62) is left behind.
FreedAtRest ==
    (/\ deferred = {} /\ \E d \in Deleter : del[d].pc = "over"
     /\ Deleting = {} /\ Arriving = {} /\ Busy = {} /\ Waiting = {}) => freed

\* A deleted queue is freed in time: not before its last command and deletion have
\* let go of it, nor left behind when they all have.
FreedInTime == QueueOutlives /\ FreedAtRest

\* What the driver sees: every command it delivers is refused, or opened and
\* closed once, and answered at most once.  Nothing is heard of it afterwards, but
\* that a deletion may tell the driver too late to abort the one command whose data
\* it saw being fetched, and then perhaps without naming it (464:26-31).
Seen(c) == IF answers[c] > 1 THEN "twice"
           ELSE CASE stage[c] \in {"new", "found", "kmalloc"} -> "new"
                  [] stage[c] \in {"refused", "closing"} -> stage[c]
                  [] stage[c] = "released" -> "closed"
                  [] OTHER -> IF answers[c] = 0 THEN "open" ELSE "answered"
Doomed == {del[d].doomed : d \in Deleter} \ {NoCmd}
Exchange == INSTANCE NvmetFcExchange WITH
    state <- [c \in Cmd |-> Seen(c)], aborted <- aborts, doomed <- Doomed
ImplementsExchange == Exchange!Spec

\* Every command that arrives is refused or given back, and a deleted queue is
\* freed (drivers without defer_rcv).
CommandsEnd == \A c \in Cmd : stage[c] = "found" ~> stage[c] \in {"refused", "released"}
QueueFreed == \A d \in Deleter : del[d].pc = "begin" ~> freed

\* Neither a command nor the deletion of the queue is left hanging.
NoneHangs == CommandsEnd /\ QueueFreed
=============================================================================
