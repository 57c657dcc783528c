------------------------------ MODULE FuseDev ------------------------------
(***************************************************************************)
(* The request side of the FUSE device: fuse_conn's queues, the callers    *)
(* that send requests and wait for answers, the daemon threads that read   *)
(* requests from the device and write answers to it, and the thread that   *)
(* aborts the connection.                                                  *)
(*                                                                         *)
(* fc->lock is taken and released inside one action, except by             *)
(* fuse_abort_conn, which keeps it over several loop iterations: LockFree  *)
(* guards everybody else.                                                  *)
(* What the code does after unlocking (request_end's wake-up, end callback *)
(* and fuse_put_request; the copying of data) is a step of its own.        *)
(*                                                                         *)
(* A freed request may be allocated again (Req is the slab).  io and       *)
(* processing are sets: the code looks them up by unique or drains them,   *)
(* so their order decides nothing.                                         *)
(***************************************************************************)
EXTENDS Integers, SequencesExt

CONSTANTS
    Req,            \* request objects the slab can hand out
    Daemon,         \* threads of the file system daemon on /dev/fuse
    MaxBackground,  \* fc->max_background until the connection is aborted
    UintMax,        \* UINT_MAX, what end_queued_requests sets it to
    MaxUnique,      \* bound: no new request or EAGAIN answer past this unique
    NoReq           \* no request

ASSUME ReqAssumption  == NoReq \notin Req /\ IsFiniteSet(Req)
ASSUME MaxAssumption  == /\ MaxBackground \in Nat \ {0}
                         /\ UintMax \in Nat
                         /\ UintMax >= MaxBackground
                         /\ MaxUnique \in Nat
\* UINT_MAX is out of reach: so many requests do not fit into memory.  (Only what
\* fuse_abort_conn leaves behind, AbortComplete, depends on it.)
ASSUME RoomAssumption == Cardinality(Req) <= UintMax

VARIABLES
    req,                \* Req -> struct fuse_req
    caller,             \* Req -> where the request's caller stands
    asleep,             \* requests whose req->waitq has a sleeper
    thread,             \* Daemon -> the system call a daemon thread is in
    pending, bg_queue, interrupts,      \* lists of fuse_conn in FIFO order
    io, processing,                     \* lists of fuse_conn, as sets
    reqctr, num_background, active_background, max_background,
    num_waiting, blocked, connected, no_interrupt,
    aborter             \* the thread in fuse_abort_conn

lists  == <<pending, bg_queue, interrupts, io, processing>>
counts == <<num_background, active_background, max_background, blocked>>
flags  == <<connected, no_interrupt>>
vars == <<req, caller, asleep, thread, lists, reqctr, counts,
          num_waiting, flags, aborter>>

-----------------------------------------------------------------------------
(* The request object.                                                     *)

\* out.h.error.  "EIO" stands for -E2BIG too; "answer" is what the daemon says.
Errors == {"none", "EINTR", "ENOTCONN", "ECONNREFUSED", "EIO", "ECONNABORTED", "answer"}

\* A slab object nobody holds.  "released" records that the end callback ran
\* (for a background request it gives the pages back to their owner).
FreeReq == [state |-> "INIT", count |-> 0, unique |-> 0, intr_unique |-> 0,
            isreply |-> FALSE, force |-> FALSE, background |-> FALSE,
            waiting |-> FALSE, locked |-> FALSE, aborted |-> FALSE,
            interrupted |-> FALSE, end |-> FALSE, released |-> FALSE,
            error |-> "none"]

\* fuse_request_init: everything zero, one reference.
fuse_request_init == [FreeReq EXCEPT !.count = 1]

\* __fuse_get_request.
\* (Mutant: the reference is not taken.)
NoGet(q) == q
get_request(q) == [q EXCEPT !.count = @ + 1]

\* list_del: unlink r from the list s, wherever it stands in it.
Unlink(s, r) ==
    IF \E i \in DOMAIN s : s[i] = r
      THEN RemoveAt(s, CHOOSE i \in DOMAIN s : s[i] = r)
      ELSE s

\* fuse_put_request on the object q: the last reference frees it.
Put(q) == IF q.count = 1 THEN FreeReq ELSE [q EXCEPT !.count = @ - 1]

\* ... and gives its share of num_waiting back.
PutWaiting(q) == IF q.count = 1 /\ q.waiting THEN 1 ELSE 0

LockFree == aborter.pc \notin {"io", "queued"}

\* A thread outside the system calls.
Idle == [pc |-> "idle", op |-> "none", r |-> NoReq, failed |-> FALSE, end |-> FALSE]

Init ==
    /\ req = [r \in Req |-> FreeReq]
    /\ caller = [r \in Req |-> "none"]
    /\ asleep = {}
    /\ thread = [t \in Daemon |-> Idle]
    /\ pending = <<>> /\ bg_queue = <<>> /\ interrupts = <<>>
    /\ io = {} /\ processing = {}
    /\ reqctr = 0
    /\ num_background = 0 /\ active_background = 0
    /\ max_background = MaxBackground /\ blocked = FALSE
    /\ num_waiting = 0
    /\ connected = TRUE /\ no_interrupt = FALSE
    /\ aborter = [pc |-> "no", r |-> NoReq, end |-> FALSE]

-----------------------------------------------------------------------------
(* Steps of the code that run with fc->lock held and are shared by several *)
(* system calls.  rq stands for req with the assignments made so far.      *)

\* queue_request: r goes to the end of pending; a request that came without
\* its share of num_waiting gets one.
Queued(q, u, reply) == [q EXCEPT !.state = "PENDING", !.unique = u,
                                 !.isreply = reply, !.waiting = TRUE]
NewWaiting(q) == IF q.waiting THEN 0 ELSE 1

\* flush_bg_queue: while fewer than max are active, number the oldest
\* background request and queue it.
flush_bg_queue(rq, bgq, active, pend, max) ==
    LET room == IF max > active THEN max - active ELSE 0
        n    == IF room < Len(bgq) THEN room ELSE Len(bgq)
        out  == SubSeq(bgq, 1, n)
        Pos(r) == CHOOSE i \in 1 .. n : out[i] = r
    IN  /\ bg_queue' = SubSeq(bgq, n + 1, Len(bgq))
        /\ pending' = pend \o out
        /\ active_background' = active + n
        /\ reqctr' = reqctr + n
        /\ req' = [r \in Req |-> IF r \in ToSet(out)
                                  THEN Queued(rq[r], reqctr + Pos(r), rq[r].isreply)
                                  ELSE rq[r]]
        /\ num_waiting' = num_waiting
                            + Cardinality({r \in ToSet(out) : ~ rq[r].waiting})

\* What request_end of a background request leaves of blocked.
\* (Mutant: unblocks one slot early after an overshoot.)
BlockedUntilBelow == blocked /\ num_background < max_background
StillBlocked == blocked /\ num_background # max_background

\* request_end takes the end callback out of the request.
\* (Mutant: req->end is not cleared.)
KeepsEnd(q) == [q EXCEPT !.state = "FINISHED"]
Finished(q) == [q EXCEPT !.state = "FINISHED", !.end = FALSE]

\* request_end up to spin_unlock: off its list (pending, io, processing or
\* none), finished, and a background request gives its slot to the next one.
request_end(r, rq) ==
    LET ended == [rq EXCEPT ![r] = Finished(@)]
        pend  == Unlink(pending, r)
    IN  /\ io' = io \ {r}
        /\ processing' = processing \ {r}
        /\ interrupts' = Unlink(interrupts, r)
        /\ \/ /\ rq[r].background
              /\ blocked' = StillBlocked
              /\ num_background' = num_background - 1
              /\ flush_bg_queue(ended, bg_queue, active_background - 1, pend, max_background)
           \/ /\ ~ rq[r].background
              /\ req' = ended
              /\ pending' = pend
              /\ UNCHANGED <<bg_queue, blocked, num_background, active_background,
                             reqctr, num_waiting>>
        /\ UNCHANGED max_background

\* request_end after spin_unlock: wake the waiter, run the end callback taken
\* under the lock, drop the reference of the queues.
\* (Mutant: no wake-up.)
EndUnwoken(r, end) ==
    LET q == IF end THEN [req[r] EXCEPT !.released = TRUE] ELSE req[r]
    IN  /\ req' = [req EXCEPT ![r] = Put(q)]
        /\ num_waiting' = num_waiting - PutWaiting(q)
        /\ caller' = [caller EXCEPT ![r] = IF q.count = 1 THEN "none" ELSE @]
        /\ UNCHANGED asleep
request_end_unlocked(r, end) ==
    LET q == IF end THEN [req[r] EXCEPT !.released = TRUE] ELSE req[r]
    IN  /\ asleep' = asleep \ {r}
        /\ req' = [req EXCEPT ![r] = Put(q)]
        /\ num_waiting' = num_waiting - PutWaiting(q)
        /\ caller' = [caller EXCEPT ![r] = IF q.count = 1 THEN "none" ELSE @]

-----------------------------------------------------------------------------
(* Callers: file system operations in the kernel.                          *)

\* fuse_get_req, up to the wait for background requests to drain.
GetReq(r) ==
    /\ caller[r] = "none" /\ reqctr < MaxUnique
    /\ num_waiting' = num_waiting + 1
    /\ caller' = [caller EXCEPT ![r] = "blocked"]
    /\ UNCHANGED <<req, asleep, thread, lists, reqctr, counts, flags, aborter>>

\* ... the wait is over and the connection is up.  The flags blocked and
\* connected are read without the lock and not looked at again by
\* fuse_request_send_background.
GetReqDone(r) ==
    /\ caller[r] = "blocked" /\ ~ blocked /\ connected
    /\ \E force \in BOOLEAN :
          req' = [req EXCEPT ![r] = [fuse_request_init EXCEPT !.waiting = TRUE,
                                                             !.force = force]]
    /\ caller' = [caller EXCEPT ![r] = "alloc"]
    /\ UNCHANGED <<asleep, thread, lists, reqctr, counts, num_waiting, flags, aborter>>

\* ... -EINTR, -ENOTCONN or -ENOMEM.
GetReqFail(r) ==
    /\ caller[r] = "blocked"
    /\ num_waiting' = num_waiting - 1
    /\ caller' = [caller EXCEPT ![r] = "none"]
    /\ UNCHANGED <<req, asleep, thread, lists, reqctr, counts, flags, aborter>>

\* fuse_request_alloc: no wait, no share of num_waiting.
RequestAlloc(r) ==
    /\ caller[r] = "none" /\ reqctr < MaxUnique
    /\ req' = [req EXCEPT ![r] = fuse_request_init]
    /\ caller' = [caller EXCEPT ![r] = "alloc"]
    /\ UNCHANGED <<asleep, thread, lists, reqctr, counts, num_waiting, flags, aborter>>

\* The first wait request_wait_answer enters, and the one after it.
FatalWait(r) == IF req[r].force THEN "answer" ELSE "fatal"
FirstWait(r) == IF no_interrupt THEN FatalWait(r) ELSE "intr"

\* fuse_request_send, no connection.  (fc->conn_error, which only code that is
\* not here sets, may be set at any time.)
RequestRefused(r) ==
    /\ caller[r] = "alloc" /\ LockFree
    /\ req' = [req EXCEPT ![r].isreply = TRUE,
                          ![r].error = IF connected THEN "ECONNREFUSED" ELSE "ENOTCONN"]
    /\ caller' = [caller EXCEPT ![r] = "done"]
    /\ UNCHANGED <<asleep, thread, lists, reqctr, counts, num_waiting, flags, aborter>>

\* ... up to the first wait.
RequestSend(r) ==
    /\ caller[r] = "alloc" /\ LockFree /\ connected
    /\ reqctr' = reqctr + 1
    /\ req' = [req EXCEPT ![r] = get_request(Queued(@, reqctr + 1, TRUE))]
    /\ num_waiting' = num_waiting + NewWaiting(req[r])
    /\ pending' = Append(pending, r)
    /\ caller' = [caller EXCEPT ![r] = FirstWait(r)]
    /\ UNCHANGED <<asleep, thread, bg_queue, interrupts, io, processing,
                   counts, flags, aborter>>

\* fuse_request_send_nowait_locked marks the request.
\* (Mutant: req->background is not set.)
NotMarked(q) == q
Background(q) == [q EXCEPT !.background = TRUE]

\* fuse_request_send_nowait_locked, of r with the contents q.
send_nowait_locked(r, q) ==
    /\ num_background' = num_background + 1
    /\ blocked' = (blocked \/ num_background + 1 = max_background)
    /\ flush_bg_queue([req EXCEPT ![r] = Background(q)], Append(bg_queue, r),
                      active_background, pending, max_background)
    /\ UNCHANGED <<interrupts, io, processing, max_background>>

\* fuse_request_send_background, with or without an end callback.
RequestSendBackground(r) ==
    /\ caller[r] = "alloc" /\ LockFree
    /\ \E end \in BOOLEAN :
         LET q == [req[r] EXCEPT !.isreply = TRUE, !.end = end]
         IN \/ /\ connected
               /\ send_nowait_locked(r, q)
               /\ caller' = [caller EXCEPT ![r] = "async"]
            \/ /\ ~ connected
               /\ request_end(r, [req EXCEPT ![r] = [q EXCEPT !.error = "ENOTCONN"]])
               /\ caller' = [caller EXCEPT ![r] = IF end THEN "ending_cb" ELSE "ending"]
    /\ UNCHANGED <<asleep, thread, flags, aborter>>

\* ... its request_end after the lock is dropped.
SendEndUnlocked(r) ==
    /\ caller[r] \in {"ending", "ending_cb"}
    /\ request_end_unlocked(r, caller[r] = "ending_cb")
    /\ UNCHANGED <<thread, lists, reqctr, counts, flags, aborter>>

\* wait_event on req->waitq: the condition is false, the caller sleeps.
Waits(r) == caller[r] \in {"intr", "fatal", "answer"}
WaitOver(r) == \/ Waits(r) /\ req[r].state = "FINISHED"
               \/ caller[r] = "unlocked" /\ ~ req[r].locked
Sleep(r) ==
    /\ Waits(r) \/ caller[r] = "unlocked"
    /\ ~ WaitOver(r) /\ r \notin asleep
    /\ asleep' = asleep \union {r}
    /\ UNCHANGED <<req, caller, thread, lists, reqctr, counts, num_waiting,
                   flags, aborter>>

\* request_wait_answer: woken and finished.  An aborted request whose data is
\* being copied is waited for once more.  (A signal may wake a sleeper that
\* nobody woke, except in the last wait.)
\* (Mutant: does not wait for req->locked.)
WaitDoneAtOnce(r) ==
    /\ Waits(r) /\ WaitOver(r) /\ LockFree
    /\ r \notin asleep \/ caller[r] # "answer"
    /\ caller' = [caller EXCEPT ![r] = "done"]
    /\ asleep' = asleep \ {r}
    /\ UNCHANGED <<req, thread, lists, reqctr, counts, num_waiting, flags, aborter>>
WaitDone(r) ==
    /\ Waits(r) /\ WaitOver(r) /\ LockFree
    /\ r \notin asleep \/ caller[r] # "answer"
    /\ caller' = [caller EXCEPT ![r] =
                     IF req[r].aborted /\ req[r].locked THEN "unlocked" ELSE "done"]
    /\ asleep' = asleep \ {r}
    /\ UNCHANGED <<req, thread, lists, reqctr, counts, num_waiting, flags, aborter>>

\* ... any signal ends the first wait: ask the daemon to interrupt, at once if
\* it has the request, else when it has read it (ReadEnd).
WaitInterrupted(r) ==
    /\ caller[r] = "intr" /\ ~ WaitOver(r) /\ LockFree
    /\ req' = [req EXCEPT ![r].interrupted = TRUE]
    /\ interrupts' = IF req[r].state = "SENT" THEN Append(interrupts, r) ELSE interrupts
    /\ caller' = [caller EXCEPT ![r] = FatalWait(r)]
    /\ asleep' = asleep \ {r}
    /\ UNCHANGED <<thread, pending, bg_queue, io, processing, reqctr, counts,
                   num_waiting, flags, aborter>>

\* ... a fatal signal ends the second: a request not yet read is taken back.
\* (Mutant: takes back what is being read.)
BeforeSent(r) == req[r].state \in {"PENDING", "READING"}
NotRead(r) == req[r].state = "PENDING"
WaitKilled(r) ==
    /\ caller[r] = "fatal" /\ ~ WaitOver(r) /\ LockFree
    /\ \/ /\ NotRead(r)
          /\ pending' = Unlink(pending, r)
          /\ req' = [req EXCEPT ![r].count = @ - 1, ![r].error = "EINTR"]
          /\ caller' = [caller EXCEPT ![r] = "done"]
       \/ /\ ~ NotRead(r)
          /\ caller' = [caller EXCEPT ![r] = "answer"]
          /\ UNCHANGED <<pending, req>>
    /\ asleep' = asleep \ {r}
    /\ UNCHANGED <<thread, bg_queue, interrupts, io, processing, reqctr, counts,
                   num_waiting, flags, aborter>>

\* ... the copying thread has let go of the aborted request's buffers.
WaitUnlocked(r) ==
    /\ caller[r] = "unlocked" /\ WaitOver(r) /\ r \notin asleep /\ LockFree
    /\ caller' = [caller EXCEPT ![r] = "done"]
    /\ UNCHANGED <<req, asleep, thread, lists, reqctr, counts, num_waiting,
                   flags, aborter>>

\* The caller is done with the request: fuse_put_request.
CallerPut(r) ==
    /\ caller[r] = "done"
    /\ req' = [req EXCEPT ![r] = Put(@)]
    /\ num_waiting' = num_waiting - PutWaiting(req[r])
    /\ caller' = [caller EXCEPT ![r] = IF req[r].count = 1 THEN "none" ELSE "async"]
    /\ UNCHANGED <<asleep, thread, lists, reqctr, counts, flags, aborter>>

-----------------------------------------------------------------------------
(* Threads of the daemon: read and write on /dev/fuse.                     *)

\* The thread leaves its system call through request_end of its request.
Ending(t, r) == thread' = [thread EXCEPT ![t] = [Idle EXCEPT !.pc = "end", !.r = r,
                                                            !.end = req[r].end]]

\* fuse_dev_do_read, an interrupt first: fuse_read_interrupt.  The message is
\* lost if it does not fit or its copy fails; the code then does nothing.
ReadInterrupt(t) ==
    /\ thread[t].pc = "idle" /\ LockFree /\ connected
    /\ interrupts # <<>>
    /\ interrupts' = Tail(interrupts)
    /\ reqctr' = reqctr + 1
    /\ req' = [req EXCEPT ![Head(interrupts)].intr_unique = reqctr + 1]
    /\ UNCHANGED <<caller, asleep, thread, pending, bg_queue, io, processing, counts,
                   num_waiting, flags, aborter>>

\* ... else the oldest pending request, up to the copying of its data.
ReadRequest(t) ==
    /\ thread[t].pc = "idle" /\ LockFree /\ connected
    /\ interrupts = <<>> /\ pending # <<>>
    /\ LET r == Head(pending)
       IN  /\ pending' = Tail(pending)
           /\ io' = io \union {r}
           /\ req' = [req EXCEPT ![r].state = "READING"]
           /\ thread' = [thread EXCEPT ![t] = [Idle EXCEPT !.pc = "open",
                                                !.op = "read", !.r = r]]
    /\ UNCHANGED <<caller, asleep, bg_queue, interrupts, processing, reqctr, counts,
                   num_waiting, flags, aborter>>

\* ... a request the daemon's buffer cannot hold fails, and the read restarts.
ReadTooBig(t) ==
    /\ thread[t].pc = "idle" /\ LockFree /\ connected
    /\ interrupts = <<>> /\ pending # <<>>
    /\ request_end(Head(pending), [req EXCEPT ![Head(pending)].error = "EIO"])
    /\ Ending(t, Head(pending))
    /\ UNCHANGED <<caller, asleep, flags, aborter>>

\* The data is copied a piece at a time.  A thread is "open" while it looks for
\* the next piece of the daemon's memory with the request unlocked, "locked"
\* while it copies, "paging" while it gives a page of the request away, unlocked,
\* "paged" when it has, "clearing" while it zeroes the next page, still unlocked,
\* "fin" when the copy is over.
Between == {"locked", "paged", "clearing"}  \* fuse_copy_page may go on here

\* lock_request at the end of fuse_copy_fill, or of fuse_try_move_page when
\* the page has to be copied after all.
LockCopy(t) ==
    /\ thread[t].pc \in {"open", "paging"} /\ LockFree
    /\ thread[t].pc = "paging" => thread[t].op = "write"
    /\ IF req[thread[t].r].aborted
         THEN /\ thread' = [thread EXCEPT ![t].pc = "fin", ![t].failed = TRUE]
              /\ UNCHANGED req
         ELSE /\ thread' = [thread EXCEPT ![t].pc = "locked"]
              /\ req' = [req EXCEPT ![thread[t].r].locked = TRUE]
    /\ UNCHANGED <<caller, asleep, lists, reqctr, counts, num_waiting, flags, aborter>>

\* fuse_copy_fill or fuse_try_move_page fails before it locks again.
CopyFault(t) ==
    /\ thread[t].pc \in {"open", "paging"}
    /\ thread[t].pc = "paging" => thread[t].op = "write"
    /\ thread' = [thread EXCEPT ![t].pc = "fin", ![t].failed = TRUE]
    /\ UNCHANGED <<req, caller, asleep, lists, reqctr, counts, num_waiting, flags, aborter>>

\* req->locked = 0.
Unlocked(r) == [req EXCEPT ![r].locked = FALSE]

\* unlock_request: the waiter of an aborted request may have its buffers back.
unlock_request(r) ==
    /\ LockFree
    /\ req' = Unlocked(r)
    /\ asleep' = IF req[r].aborted THEN asleep \ {r} ELSE asleep

\* fuse_copy_fill begins.
UnlockCopy(t) ==
    /\ thread[t].pc \in Between
    /\ unlock_request(thread[t].r)
    /\ thread' = [thread EXCEPT ![t].pc = "open"]
    /\ UNCHANGED <<caller, lists, reqctr, counts, num_waiting, flags, aborter>>

\* fuse_ref_page or fuse_try_move_page begins.
HandPage(t) ==
    /\ thread[t].pc \in Between
    /\ unlock_request(thread[t].r)
    /\ thread' = [thread EXCEPT ![t].pc = "paging"]
    /\ UNCHANGED <<caller, lists, reqctr, counts, num_waiting, flags, aborter>>

\* ... and has given the page away.  fuse_try_move_page looks whether the
\* request was aborted, fuse_ref_page does not; neither locks it again.
PageHanded(t) ==
    /\ thread[t].pc = "paging" /\ LockFree
    /\ LET lost == thread[t].op = "write" /\ req[thread[t].r].aborted
       IN  thread' = [thread EXCEPT ![t].pc = IF lost THEN "fin" ELSE "paged",
                                    ![t].failed = lost]
    /\ UNCHANGED <<req, caller, asleep, lists, reqctr, counts, num_waiting, flags, aborter>>

\* fuse_copy_page clears the next page when the answer does not fill it; after
\* fuse_try_move_page the request is still unlocked here.
ClearPage(t) ==
    /\ thread[t].pc = "paged" /\ thread[t].op = "write"
    /\ thread' = [thread EXCEPT ![t].pc = "clearing"]
    /\ UNCHANGED <<req, caller, asleep, lists, reqctr, counts, num_waiting, flags, aborter>>

\* All copied, or the answer has the wrong length (copy_out_args).
CopyEnd(t) ==
    /\ thread[t].pc \in Between
    /\ \E failed \in BOOLEAN :
          thread' = [thread EXCEPT ![t].pc = "fin", ![t].failed = failed]
    /\ UNCHANGED <<req, caller, asleep, lists, reqctr, counts, num_waiting, flags, aborter>>

\* A signal that came before the daemon had the request is passed on now.
\* (Mutant: req->interrupted is not looked at.)
SignalLost(r) == interrupts
AfterRead(r)  == IF req[r].interrupted THEN Append(interrupts, r) ELSE interrupts

\* fuse_dev_do_read after the copy.  A request that was aborted or that could
\* not be copied ends here; one that wants no answer too.
ReadEnd(t) ==
    LET r    == thread[t].r
        over == req[r].aborted \/ thread[t].failed \/ ~ req[r].isreply
    IN  /\ thread[t].pc = "fin" /\ thread[t].op = "read" /\ LockFree
        /\ \/ /\ over
              /\ request_end(r, IF thread[t].failed /\ ~ req[r].aborted
                                  THEN [Unlocked(r) EXCEPT ![r].error = "EIO"]
                                  ELSE Unlocked(r))
              /\ Ending(t, r)
           \/ /\ ~ over
              /\ req' = [Unlocked(r) EXCEPT ![r].state = "SENT"]
              /\ io' = io \ {r}
              /\ processing' = processing \union {r}
              /\ interrupts' = AfterRead(r)
              /\ thread' = [thread EXCEPT ![t] = Idle]
              /\ UNCHANGED <<pending, bg_queue, reqctr, counts, num_waiting>>
        /\ UNCHANGED <<caller, asleep, flags, aborter>>

\* fuse_dev_do_write, the answer to a request the daemon has read.  (The code's
\* test of req->aborted is never true here: OnOneList.)
WriteReply(t, r) ==
    /\ thread[t].pc = "idle" /\ LockFree /\ connected
    /\ r \in processing
    /\ req' = [req EXCEPT ![r].state = "WRITING", ![r].locked = TRUE, ![r].error = "answer"]
    /\ processing' = processing \ {r}
    /\ io' = io \union {r}
    /\ thread' = [thread EXCEPT ![t] = [Idle EXCEPT !.pc = "locked", !.op = "write",
                                                    !.r = r]]
    /\ UNCHANGED <<caller, asleep, pending, bg_queue, interrupts, reqctr, counts,
                   num_waiting, flags, aborter>>

\* ... the answer to an interrupt: -ENOSYS, or -EAGAIN to get it once more.
\* queue_interrupt does not look whether the request is queued already, so the
\* daemon must not say -EAGAIN twice to one message; this one does not.
WriteInterruptReply(t, r) ==
    /\ thread[t].pc = "idle" /\ LockFree /\ connected
    /\ r \in processing /\ req[r].intr_unique # 0
    /\ \/ no_interrupt' = TRUE /\ UNCHANGED interrupts
       \/ /\ r \notin ToSet(interrupts) /\ reqctr < MaxUnique
          /\ interrupts' = Append(interrupts, r)
          /\ UNCHANGED no_interrupt
    /\ UNCHANGED <<req, caller, asleep, thread, pending, bg_queue, io, processing, reqctr,
                   counts, num_waiting, connected, aborter>>

\* fuse_dev_do_write after the copy.
WriteEnd(t) ==
    LET r == thread[t].r
    IN  /\ thread[t].pc = "fin" /\ thread[t].op = "write" /\ LockFree
        /\ request_end(r, IF thread[t].failed /\ ~ req[r].aborted
                            THEN [Unlocked(r) EXCEPT ![r].error = "EIO"]
                            ELSE Unlocked(r))
        /\ Ending(t, r)
        /\ UNCHANGED <<caller, asleep, flags, aborter>>

\* request_end after the lock is dropped; the system call returns.
EndUnlocked(t) ==
    /\ thread[t].pc = "end"
    /\ request_end_unlocked(thread[t].r, thread[t].end)
    /\ thread' = [thread EXCEPT ![t] = Idle]
    /\ UNCHANGED <<lists, reqctr, counts, flags, aborter>>

\* A FUSE_NOTIFY_RETRIEVE message: the daemon thread itself waits in
\* fuse_get_req, then queues a request that wants no answer.
Retrieve(t) ==
    /\ thread[t].pc = "idle" /\ reqctr < MaxUnique
    /\ num_waiting' = num_waiting + 1
    /\ thread' = [thread EXCEPT ![t] = [Idle EXCEPT !.pc = "getreq"]]
    /\ UNCHANGED <<req, caller, asleep, lists, reqctr, counts, flags, aborter>>

RetrieveGet(t, r) ==
    /\ thread[t].pc = "getreq" /\ ~ blocked /\ connected
    /\ caller[r] = "none"
    /\ req' = [req EXCEPT ![r] = [fuse_request_init EXCEPT !.waiting = TRUE, !.end = TRUE]]
    /\ caller' = [caller EXCEPT ![r] = "retrieve"]
    /\ thread' = [thread EXCEPT ![t].pc = "notify", ![t].r = r]
    /\ UNCHANGED <<asleep, lists, reqctr, counts, num_waiting, flags, aborter>>

RetrieveFail(t) ==
    /\ thread[t].pc = "getreq"
    /\ num_waiting' = num_waiting - 1
    /\ thread' = [thread EXCEPT ![t] = Idle]
    /\ UNCHANGED <<req, caller, asleep, lists, reqctr, counts, flags, aborter>>

\* fuse_request_send_notify_reply.  When the connection is gone fuse_retrieve
\* releases the pages and returns; nobody puts the request.
RetrieveSend(t) ==
    LET r == thread[t].r
    IN  /\ thread[t].pc = "notify" /\ LockFree
        /\ \/ /\ connected
              /\ req' = [req EXCEPT ![r] = Queued(@, 0, FALSE)]
              /\ pending' = Append(pending, r)
              /\ caller' = [caller EXCEPT ![r] = "async"]
           \/ /\ ~ connected
              /\ req' = [req EXCEPT ![r].isreply = FALSE, ![r].released = TRUE]
              /\ caller' = [caller EXCEPT ![r] = "leaked"]
              /\ UNCHANGED pending
        /\ thread' = [thread EXCEPT ![t] = Idle]
        /\ UNCHANGED <<asleep, bg_queue, interrupts, io, processing, reqctr, counts,
                       num_waiting, flags, aborter>>

-----------------------------------------------------------------------------
(* fuse_abort_conn.                                                        *)

\* The connection goes down; fc->lock is kept.
AbortConn ==
    /\ connected
    /\ connected' = FALSE /\ blocked' = FALSE
    /\ aborter' = [aborter EXCEPT !.pc = "io"]
    /\ UNCHANGED <<req, caller, asleep, thread, lists, reqctr, num_background,
                   active_background, max_background, num_waiting, no_interrupt>>

\* A request whose data is being copied is finished under the feet of the
\* copying thread; with an end callback it gets one more reference.
Aborted(q) == [q EXCEPT !.aborted = TRUE, !.error = "ECONNABORTED", !.state = "FINISHED",
                        !.end = FALSE, !.count = IF q.end THEN @ + 1 ELSE @]

\* end_io_requests.  For a request with an end callback the lock is dropped
\* until the copying thread has let go of the buffers.
AbortIo(r) ==
    /\ aborter.pc = "io" /\ r \in io
    /\ io' = io \ {r}
    /\ asleep' = asleep \ {r}
    /\ req' = [req EXCEPT ![r] = Aborted(@)]
    /\ aborter' = IF req[r].end
                    THEN [pc |-> "ioWait", r |-> r, end |-> TRUE]
                    ELSE aborter
    /\ UNCHANGED <<caller, thread, pending, bg_queue, interrupts, processing, reqctr,
                   counts, num_waiting, flags>>

AbortIoEnd ==
    /\ aborter.pc = "ioWait" /\ ~ req[aborter.r].locked
    /\ request_end_unlocked(aborter.r, TRUE)
    /\ aborter' = [pc |-> "io", r |-> NoReq, end |-> FALSE]
    /\ UNCHANGED <<thread, lists, reqctr, counts, flags>>

\* end_queued_requests: all background requests become pending ...
AbortFlush ==
    /\ aborter.pc = "io" /\ io = {}
    /\ max_background' = UintMax
    /\ flush_bg_queue(req, bg_queue, active_background, pending, UintMax)
    /\ aborter' = [aborter EXCEPT !.pc = "queued"]
    /\ UNCHANGED <<caller, asleep, thread, interrupts, io, processing, num_background,
                   blocked, flags>>

\* ... and end_requests ends the pending ones, then those being processed.
AbortQueued(r) ==
    /\ aborter.pc = "queued"
    /\ IF pending # <<>> THEN r = Head(pending) ELSE r \in processing
    /\ request_end(r, [req EXCEPT ![r].error = "ECONNABORTED"])
    /\ aborter' = [pc |-> "tail", r |-> r, end |-> req[r].end]
    /\ UNCHANGED <<caller, asleep, thread, flags>>

AbortTail ==
    /\ aborter.pc = "tail"
    /\ request_end_unlocked(aborter.r, aborter.end)
    /\ aborter' = [pc |-> "queued", r |-> NoReq, end |-> FALSE]
    /\ UNCHANGED <<thread, lists, reqctr, counts, flags>>

\* (Mutant: end_requests(processing) is missing.)
AbortDoneEarly ==
    /\ aborter.pc = "queued" /\ pending = <<>>
    /\ aborter' = [aborter EXCEPT !.pc = "done"]
    /\ UNCHANGED <<req, caller, asleep, thread, lists, reqctr, counts, num_waiting, flags>>
AbortDone ==
    /\ aborter.pc = "queued" /\ pending = <<>> /\ processing = {}
    /\ aborter' = [aborter EXCEPT !.pc = "done"]
    /\ UNCHANGED <<req, caller, asleep, thread, lists, reqctr, counts, num_waiting, flags>>

-----------------------------------------------------------------------------
Caller(r) == \/ GetReq(r) \/ GetReqDone(r) \/ GetReqFail(r) \/ RequestAlloc(r)
             \/ RequestRefused(r) \/ RequestSend(r)
             \/ RequestSendBackground(r) \/ SendEndUnlocked(r)
             \/ Sleep(r) \/ WaitDone(r) \/ WaitInterrupted(r) \/ WaitKilled(r)
             \/ WaitUnlocked(r) \/ CallerPut(r)

Copy(t) == \/ LockCopy(t) \/ CopyFault(t) \/ UnlockCopy(t) \/ HandPage(t)
           \/ PageHanded(t) \/ ClearPage(t) \/ CopyEnd(t)

DaemonThread(t) ==
    \/ ReadInterrupt(t) \/ ReadRequest(t) \/ ReadTooBig(t) \/ ReadEnd(t)
    \/ \E r \in Req : WriteReply(t, r) \/ WriteInterruptReply(t, r) \/ RetrieveGet(t, r)
    \/ WriteEnd(t) \/ EndUnlocked(t) \/ Copy(t)
    \/ Retrieve(t) \/ RetrieveFail(t) \/ RetrieveSend(t)

Abort == \/ AbortConn \/ AbortIoEnd \/ AbortFlush \/ AbortTail \/ AbortDone
         \/ \E r \in Req : AbortIo(r) \/ AbortQueued(r)

Next == \/ \E r \in Req : Caller(r)
        \/ \E t \in Daemon : DaemonThread(t)
        \/ Abort

\* A thread inside a system call runs on when it can: nothing it does there
\* waits for the daemon.  A caller runs once it is awake; it is not assumed to
\* get a signal.  The data to copy is finite, hence SF on CopyEnd.  Nobody has
\* to read, to answer or to abort.
Fairness ==
    /\ \A r \in Req : /\ WF_vars(r \notin asleep /\ WaitDone(r))
                      /\ WF_vars(WaitUnlocked(r)) /\ WF_vars(CallerPut(r))
    /\ \A t \in Daemon : /\ WF_vars(Copy(t)) /\ SF_vars(CopyEnd(t))
                         /\ WF_vars(ReadEnd(t)) /\ WF_vars(WriteEnd(t))
                         /\ WF_vars(EndUnlocked(t))
    /\ WF_vars(aborter.pc # "no" /\ Abort)

Spec == Init /\ [][Next]_vars /\ Fairness

-----------------------------------------------------------------------------
(* What must hold.                                                         *)

CallerPc == {"none", "blocked", "alloc", "intr", "fatal", "answer", "unlocked",
             "done", "ending", "ending_cb", "async", "retrieve", "leaked"}
ThreadPc == {"idle", "open", "locked", "paging", "paged", "clearing", "fin", "end",
             "getreq", "notify"}
AbortPc  == {"no", "io", "ioWait", "queued", "tail", "done"}

ReqRecord ==
    [state : {"INIT", "PENDING", "READING", "SENT", "WRITING", "FINISHED"},
     count : Int, unique : Nat, intr_unique : Nat, isreply : BOOLEAN,
     force : BOOLEAN, background : BOOLEAN, waiting : BOOLEAN, locked : BOOLEAN,
     aborted : BOOLEAN, interrupted : BOOLEAN, end : BOOLEAN, released : BOOLEAN,
     error : Errors]

ThreadRecord ==
    [pc : ThreadPc, op : {"none", "read", "write"}, r : Req \union {NoReq},
     failed : BOOLEAN, end : BOOLEAN]

\* Type invariant.  A thread in a system call, or in fuse_abort_conn, has a
\* request at hand exactly where the code uses one.  (The counters are int in
\* the code; how large they are is RefsExact, BgCounted and WaitingAccounting.)
TypeOK ==
    /\ req \in [Req -> ReqRecord]
    /\ caller \in [Req -> CallerPc]
    /\ asleep \subseteq Req
    /\ thread \in [Daemon -> ThreadRecord]
    /\ \A t \in Daemon : thread[t].r \in Req <=> thread[t].pc \notin {"idle", "getreq"}
    /\ pending \in Seq(Req) /\ bg_queue \in Seq(Req) /\ interrupts \in Seq(Req)
    /\ io \subseteq Req /\ processing \subseteq Req
    /\ reqctr \in Nat
    /\ num_background \in Int /\ active_background \in Int
    /\ max_background \in Nat /\ num_waiting \in Int
    /\ blocked \in BOOLEAN /\ connected \in BOOLEAN /\ no_interrupt \in BOOLEAN
    /\ aborter \in [pc : AbortPc, r : Req \union {NoReq}, end : BOOLEAN]
    /\ aborter.r \in Req <=> aborter.pc \in {"ioWait", "tail"}

\* The buffers and pages of r still belong to the request: its caller has not
\* returned from fuse_request_send, or its end callback has not run.
Owned(r) == IF req[r].background \/ ~ req[r].isreply
              THEN ~ req[r].released
              ELSE Waits(r) \/ caller[r] = "unlocked"

\* While data is copied to or from the buffers of a request, nobody takes them
\* back: not a caller whose wait ended, not an abort (request_wait_answer's
\* and end_io_requests' wait for req->locked).
CopySafe == \A t \in Daemon : thread[t].pc = "locked" => Owned(thread[t].r)

\* The same for the pages a thread works on after unlock_request, in
\* fuse_ref_page, fuse_try_move_page and in fuse_copy_page's clear_highpage.
PagesSafe == \A t \in Daemon :
                thread[t].pc \in {"paging", "clearing"} => Owned(thread[t].r)

\* Who holds a reference: the caller, from its allocation to its
\* fuse_put_request; the queues or whoever took the request from them, until
\* request_end; fuse_abort_conn while it waits for the buffers.
InCall(t, r) == thread[t].r = r
CallerRef(r) == Waits(r) \/ caller[r] \in {"unlocked", "done", "leaked"}
QueueRef(r)  == \/ r \in ToSet(pending) \/ r \in ToSet(bg_queue)
                \/ r \in processing \/ r \in io
                \/ \E t \in Daemon : InCall(t, r)
                \/ aborter.pc = "tail" /\ aborter.r = r
                \/ caller[r] \in {"alloc", "ending", "ending_cb"}
AbortRef(r)  == aborter.pc = "ioWait" /\ aborter.r = r
One(p) == IF p THEN 1 ELSE 0

\* The reference count is exact whoever drops the last reference: no use after
\* free, no double free, and no leak except fuse_retrieve's.
RefsExact == \A r \in Req :
    /\ req[r].count = One(CallerRef(r)) + One(QueueRef(r)) + One(AbortRef(r))
    /\ (req[r].count = 0) <=> (caller[r] \in {"none", "blocked"})
    /\ r \in ToSet(interrupts) => req[r].count > 0

\* A request stands where its state says, once, and one thread works on it.
InState(s) == {r \in Req : req[r].state = s}
OnOneList ==
    /\ IsInjective(pending) /\ IsInjective(bg_queue)
    /\ \A r \in ToSet(bg_queue) : req[r].state = "INIT" /\ req[r].background
    /\ \A r \in ToSet(pending) : req[r].state = "PENDING"
    /\ processing = InState("SENT")
    /\ io = InState("READING") \union InState("WRITING")
    /\ \A r \in io : \E t \in Daemon : InCall(t, r)
    /\ \A t1, t2 \in Daemon : thread[t1].r = thread[t2].r /\ thread[t1].r # NoReq => t1 = t2
    /\ \A r \in processing \union ToSet(pending) : ~ req[r].aborted

\* An interrupted request the daemon works on is queued for an interrupt
\* message or has had one, whether the signal came before or after the read;
\* it is queued once (its list entry is not added twice).
InterruptKept ==
    /\ IsInjective(interrupts)
    /\ \A r \in processing :
          req[r].interrupted => r \in ToSet(interrupts) \/ req[r].intr_unique # 0

\* The background counters agree with the queue, a free slot is never left
\* unused, and callers of fuse_get_req are blocked exactly when the limit is
\* reached, also when senders that had passed the wait overshoot it.
BgAccounting ==
    /\ num_background = active_background + Len(bg_queue)
    /\ active_background <= max_background
    /\ bg_queue # <<>> => active_background = max_background
    /\ connected => (blocked <=> num_background >= max_background)
    /\ ~ connected => ~ blocked

\* ... and with the requests they count.
BgCounted ==
    num_background = Cardinality({r \in Req : req[r].background
                        /\ QueueRef(r)
                        /\ caller[r] \notin {"ending", "ending_cb"}
                        /\ ~ (aborter.pc = "tail" /\ aborter.r = r)
                        /\ \A t \in Daemon : ~ (InCall(t, r) /\ thread[t].pc = "end")})

\* num_waiting counts the callers blocked in fuse_get_req and the live requests
\* that hold a share of it, a leaked one included.
WaitingAccounting ==
    num_waiting = Cardinality({r \in Req : caller[r] = "blocked"})
                  + Cardinality({t \in Daemon : thread[t].pc = "getreq"})
                  + Cardinality({r \in Req : req[r].waiting})

\* Both counters of the connection agree with the requests and callers they count,
\* whoever ends, frees, leaks or interrupts them.
CountersExact == BgCounted /\ WaitingAccounting

\* When fuse_abort_conn returns nothing is queued any more, and it stays so.
AbortComplete == aborter.pc = "done" =>
    pending = <<>> /\ bg_queue = <<>> /\ io = {} /\ processing = {}

\* An end callback runs at most once, whoever ends the request: at any time
\* it has run, is still in the request, or was taken by one of the enders.
\* (fuse_retrieve calls it itself and leaves it in the request it leaks.)
EndOnce == \A r \in Req :
    One(req[r].released) + One(req[r].end) + One(caller[r] = "ending_cb")
      + One(aborter.r = r /\ aborter.end)
      + Cardinality({t \in Daemon : InCall(t, r) /\ thread[t].end})
      <= IF caller[r] = "leaked" THEN 2 ELSE 1

\* The BUG_ONs of __fuse_put_request, request_wait_answer and put_request's
\* callers: a killed caller does not drop the last reference, and an aborted
\* request is finished.
NoBug == \A r \in Req :
    /\ caller[r] = "fatal" /\ req[r].state = "PENDING" => req[r].count >= 2
    /\ req[r].aborted => req[r].state = "FINISHED"

\* Whoever ends a request, copying threads and abort together, ends it once and
\* runs into no BUG_ON.
EndSound == EndOnce /\ NoBug

\* The device keeps the promise of FuseCall.  A request is settled when it is
\* finished, refused (its state still INIT) or killed while pending.
Refusals == {"ENOTCONN", "ECONNREFUSED", "EINTR"}
Phase(r) ==
    IF req[r].count = 0 \/ caller[r] \in {"blocked", "none"} THEN "idle"
    ELSE IF req[r].state = "FINISHED" \/ req[r].error \in Refusals THEN "settled"
    ELSE IF req[r].state \in {"READING", "SENT", "WRITING"} THEN "delivered"
    ELSE IF req[r].state = "PENDING" \/ caller[r] = "async" THEN "queued"
    ELSE "prepared"

Call == INSTANCE FuseCall WITH
    phase   <- [r \in Req |-> Phase(r)],
    outcome <- [r \in Req |-> IF Phase(r) = "settled" THEN req[r].error ELSE "none"],
    up      <- connected

\* A request is handed out at most once, -EINTR is reported only of a request
\* the daemon never got, an answer only if the daemon gave one, -ECONNABORTED
\* only after an abort; and once an outcome is there it does not change while
\* the caller may look at it, whatever the copying threads and the abort do.
KeepsPromise == Call!Spec

\* No wake-up is lost: the waiter of a finished request returns, also when it
\* was aborted in the middle of a copy, and gives the request back.
FinishedReturns == \A r \in Req :
    (req[r].state = "FINISHED" /\ CallerRef(r) /\ caller[r] # "leaked")
      ~> (caller[r] \in {"none", "async"})

\* Once the connection is aborted every caller returns, whatever the daemon
\* does or fails to do.
AbortReturns == \A r \in Req :
    (~ connected /\ Waits(r)) ~> (caller[r] \in {"none", "async"})

\* fuse_abort_conn returns.
AbortTerminates == (aborter.pc # "no") ~> (aborter.pc = "done")

\* Nobody waits for ever for a request that is over: not its caller, whether the
\* daemon or an abort ended it, nor the abort itself.
WaitsEnd == FinishedReturns /\ AbortReturns /\ AbortTerminates
=============================================================================
