# Verification of VulData

`src/` holds C functions, one per file, sorted by CWE number into `nonvuln` and
`vuln` directories; there is no build and no document. Files of a `nonvuln`
directory that follow each other are mostly the functions of one source file of
one program, so that whole subsystems can be put together again. This project
models those of them that have state worth checking. File `N` of
`Data/120/nonvuln` is written `120:N` below, with a line after a second colon.

## Inventory

| System | Files | State | Hard behaviour |
|---|---|---|---|
| Linux FUSE device | 120:255-323 | request queues, counters and flags of `fuse_conn`, the requests with their reference counts and wait queues, the forget list | callers, signals, daemon threads and an abort interleave; data is copied without the lock |
| YARA command line | 120:108-127 | ring of paths, two semaphores | producer and consumers under a deadline |
| YARA library start-up | 120:143-147 | `init_count` | a failing step |
| Contiki-NG RPL, DAOs | 120:203-210, `Data/120/vuln` 022, 023 | routes, the numbers of DAOs, a retransmission timer | lost and repeated messages, answers that come back hop by hop |
| Contiki-NG RPL, DIOs | 120:211-212, `Data/120/vuln` 024 | none of its own | |
| i2c-ismt | 120:218-232 | descriptor ring | completion against timeout |
| TinyScheme, cells | 120:329-489 | segments of cells, the free list, the list of recent allocations | a collection at every allocation; a marker that turns the heap's links around |
| TinyScheme, the rest | 120:324-495 | environment, dump stack, ports | |
| QEMU e1000 | 120:497-552 | registers, rings | guest writes against packets |
| si4713 | 120:876-919 | power state | waits for the chip |
| ACRN | 120:920-1000 | remapping table, invalidation queue | several virtual machines |
| nvmet_fc, commands | 119:414-489 | request blocks, waiting commands and references of a queue | commands, aborts and deletions interleave |
| nvmet_fc, associations | 119:414-488 | target port, associations, queues, LS request blocks; a reference count of each | objects are found while they are created and deleted, by several threads at once |
| mlx5_ib, mlx4 | 119:118-262, 119:270-277 | UAR registers, MAC and VLAN tables | lock order, duplicated tables |
| iwlwifi | 119:342-376 | station table | late answers of the firmware |
| tcm_loop | 119:278-341 | nexus, commands | task management |

The remaining clusters convert or print data, or are straight-line code; the
`vuln` directories hold single functions without their surroundings.
`PROJECT.json` lists every component, and under `hazards` what is hard to test
in the modelled ones.

### The FUSE device

A file system operation in the kernel (the *caller*) takes a request from
`fuse_get_req` (120:314), which waits while too many background requests are on
their way, or from `fuse_request_alloc` (120:321), which does not wait, and
sends it with `fuse_request_send` (120:318) or `fuse_request_send_background`
(120:306, 320, 280). A daemon thread reads it (`fuse_dev_do_read`, 120:309) and
writes the answer (`fuse_dev_do_write`, 120:279). `request_end` (120:289)
finishes it: it gives a background slot on, and after dropping the lock wakes the
caller, runs the end callback and drops the reference of the queues. Everything
is serialised by `fc->lock` except: the copying of data, the tail of
`request_end`, the wake-ups, `fuse_get_req`'s view of `blocked` and `connected`,
and `fuse_put_request`.

    caller --queue_request--> pending --read--> io --> processing --write--> io --request_end--> caller
           --bg_queue--flush_bg_queue--^             (the daemon has it)
    signal ------------------------> interrupts --read--> daemon
    fuse_queue_forget --> forget list --read--> daemon
    fuse_abort_conn ends what it finds on io, pending, processing

What makes it correct: each request gets exactly one outcome, and a true one;
the object is freed once, by whoever is last; nobody takes buffers back that a
thread is copying; the counters that throttle callers are exact; no wake-up is
lost; an abort leaves nothing behind; forgets and requests share the daemon.

### The yara command

`_tmain` (`Data/120/vuln/CWE-120_vul_009.c`) starts the scanning threads
(120:116) and walks over a directory (`scan_dir`, 120:127) or a list of files
(`populate_scan_list`, 120:115). Each path goes through a ring with
`MAX_QUEUED_FILES` slots guarded by two semaphores and a mutex. At the end
`file_queue_finish` (120:111) releases one permit per possible thread, so that
each finds the ring empty and ends. Every wait ends at the deadline.

What makes it correct: no path is lost, doubled or overwritten; the permits are
exact while the walk goes on and sufficient afterwards; nobody waits for ever;
nothing a thread needs is destroyed before the thread has ended.

### A queue of the NVMe over Fibre Channel target

The driver of the adapter (the *LLDD*) delivers commands to
`nvmet_fc_rcv_fcp_req` (119:441). It looks the queue up, which takes a reference
(`nvmet_fc_find_target_queue`, `Data/119/vuln/CWE-119_vul_019.c`), and gives the
command one of the queue's request blocks, the *fod* (119:469); when none is free
the command waits in `pending_cmd_list`. The fod fetches the data of a write
chunk by chunk (119:470), lets the NVMe layer execute the command (119:456, 485),
sends the data of a read and the response (119:473), and is freed (119:449) or
taken by the next command that waits. Meanwhile the LLDD may report an abort of
the command (119:433) and the queue may be deleted (119:464).

    LLDD --rcv_fcp_req--> fod --transfer--> LLDD --op_done--> fod --execute--> NVMe layer
                   \--> pending_cmd_list --free_fcp_iod--> fod    --response--> LLDD
    LLDD --rcv_fcp_abort--> flags of the fod <--delete_target_queue-- LS request, removal

`qlock` guards the two lists, `flock` the flags of a fod, but not everywhere; the
reference count of the queue decides when it is freed.

What makes it correct: a command has one owner; the queue outlives everybody who
uses it and is freed afterwards; a write is executed with all its data; each
command is answered at most once and none vanishes without a word to the LLDD.

### Target ports and associations of nvmet_fc

The LLDD registers a target port (119:446), a user binds it to an nvmet port
(119:447, 460), and the LLDD delivers LS requests to `nvmet_fc_rcv_ls_req` (119:478). Each
is handled by a work item (119:466): one creates an association with its queue 0
(119:463), one another queue of it, a connection (119:434), one deletes a connection
(119:481), and with queue 0 the association. `nvmet_fc_delete_ctrl` (119:424) and the
unregistration (119:444, 416) delete associations too.

    registration, user, association, LS request --hold--> target port
    queue, whoever has found it, creation       --hold--> association
    command, whoever has found it, creation     --hold--> queue

Each object has a count; the last put frees a queue (119:431), which puts its
association (119:435), which puts the port (119:454). `tgtport->lock` guards the list of
associations; it is dropped wherever something is deleted.

What makes it correct: each count is that of its holders; what a list or a table
names is there; nobody uses what has been freed; when all is over everything has
been freed and the LLDD has been told.

### Destination advertisements of RPL

A node of a low-power network asks to be routed to with a DAO to its preferred
parent (`dao_output`, 120:203) and repeats it until it is acknowledged
(`handle_dao_retransmission`, 120:206). In storing mode each router installs a
route, gives the DAO a number of its own counter and passes it on
(`dao_input_storing`, `Data/120/vuln` 023); the acknowledgement comes back by these numbers
(`dao_ack_input`, 120:208; `find_route_entry_by_dao_ack`, 120:204). A router without room
refuses. In non-storing mode the root answers at once, or drops the DAO without an
answer when its table of links is full (`dao_input_nonstoring`, `Data/120/vuln` 022,
line 95). A node without a global address sends nothing, and its timer lapses (120:206:40). A node that changes its parent sends a No-Path DAO to the old one.

What makes it correct: an answer is for the DAO it is taken for, and true; a node
that believes in its downward route can be reached; a repeated DAO repairs what a
lost message has left behind.

### The cells of TinyScheme

The interpreter works on cells of a pair of pointers. `get_cell` (120:483) and
`get_vector_object` (120:414) take them off a free list sorted by address; when it
cannot serve, `gc` (120:489) marks what the registers, the recent allocations (120:487) and
the arguments of the request lead to and sweeps the rest; then a segment may be
allocated (120:445). `mark` (120:447) uses no stack for pairs: it turns the links of
the cells around on its way down and back on its way up.

What makes it correct: a collection leaves the live cells as they were and frees
all others; nothing the evaluator may still use is reclaimed; the free list is
exact and sorted; every request is served or refused.

## Modules

* `FuseCall` is the abstract specification: the phases of a request (idle,
  prepared, queued, delivered, settled) and which outcome may be reported from
  which phase.
* `FuseDev` is the request side. A request object is a record with the fields of
  `struct fuse_req` that control depends on. `caller[r]` is where the kernel
  code that uses object `r` stands, `thread[t]` where a daemon thread stands in
  its system call, `aborter` where `fuse_abort_conn` stands. An action is one
  critical section of `fc->lock`, or one unlocked piece between two:
  * `GetReq`, `GetReqDone`, `GetReqFail`, `RequestAlloc`: allocation;
  * `RequestSend`, `RequestRefused`, `RequestSendBackground`, `SendEndUnlocked`;
  * `Sleep`, `WaitDone`, `WaitInterrupted`, `WaitKilled`, `WaitUnlocked`: the
    waits of `request_wait_answer` (120:262); `asleep` makes lost wake-ups
    visible: a caller in `asleep` stays there until somebody wakes it or a
    signal comes;
  * `ReadInterrupt`, `ReadRequest`, `ReadTooBig`, `ReadEnd`, `WriteReply`,
    `WriteInterruptReply`, `WriteEnd`, `EndUnlocked`: the system calls;
  * `LockCopy`, `UnlockCopy`, `HandPage`, `PageHanded`, `ClearPage`, `CopyFault`,
    `CopyEnd`: `fuse_copy_page`, `fuse_copy_fill`, `fuse_try_move_page` and
    `fuse_ref_page` as far as they lock and unlock the request;
  * `Retrieve`, `RetrieveGet`, `RetrieveFail`, `RetrieveSend`: the one
    notification that makes a request;
  * `AbortConn`, `AbortIo`, `AbortIoEnd`, `AbortFlush`, `AbortQueued`,
    `AbortTail`, `AbortDone`: `fuse_abort_conn` keeps the lock over several of
    these steps; `LockFree` holds up everybody who needs it.
* `FuseForgetQueue` is the abstract FIFO of forget messages.
* `FuseForget` is the list of forgets with its `next` and tail pointers, and the
  turn-taking of `fuse_dev_do_read`; of the requests only their number counts.
* `FuseDev_proofs` and `FuseForget_proofs` hold the theorems; `FuseOwner_proofs`, on top of
  the first, those about who holds a request, the counters and the end of an abort.
* `MCFuseDev`, `MCFuseForget`, `MCYaraScan`, `MCNvmetFcQueue`, `MCNvmetFcAssoc`,
  `MCRplDao`, `MCSchemeHeap` name the model values of the runs.

* `YaraFileScan` is the abstract run of the yara command: each file is scanned at
  most once, none without having been admitted before the deadline, a successful run
  has scanned them all or met the deadline.
* `YaraScan` is that run with the main thread (`main.pc`), the scanning threads
  (`thread[t]`), the ring of paths and its two semaphores. `file_queue_put`
  (120:124) and `file_queue_get` (120:118) are three steps each: the semaphore,
  what `queue_mutex` guards, the other semaphore. A thread looks at the clock (`Look`,
  120:116:16-18) and then scans (`ScanFile`, 120:116:23): the deadline may pass in between, and the
  scan then runs for the time that was left, which is its timeout. `live` is what `_tmain` has set
  up; the label `_exit` destroys it piece by piece, while other threads may run.
* `YaraScan_proofs` proves the semaphores, the end of the threads and the refinement right.

* `NvmetFcExchange` is the abstract exchange with the LLDD: a command is refused,
  or opened, answered at most once and closed once, and not heard of afterwards. One
  command at a time may be doomed while it is open: its abort may come when it
  is closed, or name no command when it was being closed.
* `NvmetFcQueue` is one connected queue. `stage[c]` says how far the arrival of a
  command is; `fod[f]` has the fields of a request block, `at[f]` says where the
  thread that works on it stands and `cmd[f]` is that thread's local `fcpreq`,
  which may differ from the field; `abts[c]` and `del[d]` are the threads in
  `nvmet_fc_rcv_fcp_abort` and `nvmet_fc_delete_target_queue`. The actions:
  * `FindTargetQueue`, `AllocFod`, `NoFodFree`, `Kmalloc`: a command arrives;
    `qlock` is dropped before `Kmalloc`;
  * `Submit`, `Handle`, `Transfer`, `LlddDone`, `WriteDone`, `NextChunk`, `ReadDone`,
    `RspDone`, `CmdDone`, `XmtRsp`, `AbortOp`: a fod at work; the operations of the
    LLDD and the requests of the NVMe layer may fail;
  * `FreeFod`, `Release`, `FodFree`, `FodNext`, `Reuse`: its fields are cleared and the
    command is given back, both without a lock; then, under `qlock`, it is free
    or takes the next command;
  * `AbtsLook`, `AbtsLock`, `AbtsMark`: an abort; the fod is looked up without a lock;
  * `DelGet` ... `DelPut`: a deletion. It tests `writedataactive` under the lock of the
    fod (`DelMark`), and loads `fcpreq` (`DelLoad`) and calls the LLDD (`DelCall`) when it
    has dropped that lock: three steps, between which the fod's thread goes on, also
    through `FreeFod` and `Release`. `qlock` is dropped between two waiting commands.
* `NvmetFcQueue_proofs` proves that a command has one owner, the counts, what the
  driver hears and the refinement.

* `NvmetFcAssoc` is a target port with its associations and their queues. A queue is
  here its state, count, place and the flag `connected`; a command is one
  reference of it for a while. `thread[t]` is where an LS request block, a command,
  the unregistration (`Unreg`), the deletion of a controller (`Ctrl`) or the user
  (`Conf`) stands, and its locals. A put that drops the last reference leaves its
  thread a `duty`: to put the association, to take it off the list, to free the
  port; others may come in between, as they may in the code. A thread that is
  about to use freed memory, or to drop a count that is zero, is `Stale` and
  stops: what it does is undefined. So does one that looks up a queue by a
  number past the end of the table (`Beyond`, the place `past_table`): the 16 bits of
  a connection id are not compared with its size (`Data/119/vuln` 019, line 14). A
  disconnect names an association (`assoc`) and a connection, which is an
  association (`of`) and a number (`qid`); nobody compares `of` with `assoc`
  (119:481:39-48), and they may differ. The actions:
  * `RcvLsReq`, `AllocAssoc`, `FindAssoc`, `AllocQueue`, `Publish`, `UseQueue`, `FindQueue`,
    `PutFound`, `Respond`: an LS request, cut where it takes or drops
    `tgtport->lock` or a count;
  * `BeginAssoc`, `ScanQueues`, `DeleteQueue`, `DropQueue`, `PutQueue`, `PutAssoc`: the deletion
    of an association or a queue; `FreeAssocs`, `PutDone`, `Unregister` call it, and `DeleteCtrl`, `FindCtrl`,
    `CtrlPut`, which hold the port while they look for the controller's association;
  * `FreedQueuePuts`, `AssocFree`, `FreeTgtport`: the duties;
  * `CmdArrive`, `CmdEnd`, `AddPort`, `RemovePort`.
  `races` records which of the code's races have happened (see "The races of
  nvmet_fc"), so that properties can say what holds without them. `cast` is who
  takes part in a behaviour.
* `NvmetFcAssocInv` has the inductive invariants of the proofs, `NvmetFcAssoc_proofs` proves all
  invariants: the types, the counts, that the table
  of queues is sound, what uses freed memory and that everything is freed.

* `RplRegistration` is what the DAO exchange promises a node: the answer it gets was
  given for the number it asked with, and it believes accordingly.
* `RplDao` is a network of nodes. `node[n]` is the instance of a node with its counter
  and timer, `route[n][t]` its entry for a target, `link` the parents that the root keeps in
  non-storing mode, `chan` the messages between neighbours, in order. An action is a
  whole handler, since Contiki runs one at a time: `DaoOutput`, `Retransmit`, `Lapse` (no address:
  the timer is not set again), `GiveUp`, `Move` at the node; `DaoLoop`, `NoPathInput`, `DaoRefused`, `DaoInput`, `DaoInputNonStoring` are the
  branches of the DAO input, `OwnAck`, `ForwardAck`, `StrayAck` those of the
  acknowledgement's; `Lose`, `Expire` and `Readdress` are the radio, the route timer and the addresses of a node.
* `RplDao_proofs` proves that numbers tell acknowledgements apart, the refinement, and that
  an acknowledged node is reached.

* `SchemeHeap` is the heap of TinyScheme: `cell`, `free_cell`, `fcells`, `segs`, `sink`, and `gc`,
  which is where the collector stands. The evaluator is an arbitrary sequence of
  `Request`, `Load`, `Assign` and `NextOpcode`; the rest is what serves a request: `TakeCell`,
  `TakeHolder`, `TakeVector`, `Reserved`, `Grow`, `NoMemory`, and the collector, one label of
  `mark` (`E2` to `E6`) or one cell of the sweep at a time.
* `SchemeHeap_proofs` proves the free list, the marker, what a collection frees and what
  it must not take.

External code of FUSE: `list_del`, the set-up of a connection, and `end_io_requests` and
`end_requests`, which `fuse_abort_conn` and `end_queued_requests` call and which
the repository does not have. They are modelled from their callers and from what
the rest relies on: a request on `io` is marked aborted and finished in place
(120:262:53 asserts it is finished, 120:309:62 and 120:279:79 look at the mark),
one with an end callback is waited for until it is unlocked and its callback is
run there (120:289:4 takes the callback only if it is still set).

Abstractions in `NvmetFcQueue`: the LLDD completes operations by direct calls; with
the flags `NVMET_FCTGTFEAT_CMD_IN_ISR` and `NVMET_FCTGTFEAT_OPDONE_IN_ISR` there would be work items
between the steps, and only then has `flush_workqueue` something to wait for. The
data of a command is cut into `Chunks` transfers; a READDATA_RSP carries the
response. What a put on a freed queue does is undefined: such a step is not
modelled, `QueueOutlives` is violated before it. A command for which an ABTS was
reported may still be delivered to the NVMe layer. `FindTargetQueue` finds this one queue
or none; what other queue numbers lead to is in `NvmetFcAssoc`.

Abstractions in `NvmetFcAssoc`: malformed LS requests, and those for what does not
exist, are of kind "other": answered and forgotten. `nvmet_sq_destroy` does not wait,
so that commands may end before or after. The wait of the deletion for work items
is left out for the same reason. An allocation may fail at any time. `kzalloc` never
returns an address again, which makes a use after free visible.

Abstractions in `RplDao`: external are rpl-dag, which chooses parents (`Move`, `LocalRepair`), the
route table (`Entry`, `Fits`), the links and the addresses (`Readdress`). The build has `RPL_WITH_DAO_ACK`, and neither
`RPL_WITH_MULTICAST` nor `RPL_REPAIR_ON_DAO_NACK`. Lifetimes are zero or not; the
dispatch of `dao_input`, prefixes other than a node's own and the callbacks of the
objective function are left out. The root's table of links (`LinkFits`) holds an entry per
target, which a No-Path DAO frees at once; that `uip_sr_update_node` fails also
when the parent has no entry, and that a parent may need one of its own, is left
out. What frees the timer's parent before it expires (120:206:9) is rpl-dag's affair;
that `dao_output_target_seq` gives up before it sends counts as a loss.

Abstractions in `SchemeHeap`: strings and ports, which have memory of their own
that `finalize_cell` frees, are left out, and so is the mark of `NIL`, which is no
cell. A vector's elements are in the cells behind it. After `no_memory` nothing
happens any more; the code goes on with the sink as a cell. `reserve_cells` (120:360) has
no caller in the repository and is asked for a segment.

Abstractions in FUSE: -E2BIG is EIO; the answer's contents are "answer"; `io` and
`processing` are sets, because the code looks up by number or drains; the sleep
in `request_wait` is the guard of the read; `conn_error` may be set at any time;
a daemon does not answer -EAGAIN twice to one interrupt message; polls,
congestion flags and fasync are left out.

## Runs

| Run | Instance | Shows |
|---|---|---|
| `fuse_safety` | 2 requests, 1 thread, numbers up to 2 | `RefsExact`, `OnOneList`, `InterruptKept`, `BgAccounting`, `CountersExact` (`BgCounted`, `WaitingAccounting`), `AbortComplete`; `KeepsPromise`: `FuseDev` implements `FuseCall` |
| `fuse_threads` | 2 requests, 2 threads, numbers up to 1 | `CopySafe`, `EndSound` (`EndOnce`, `NoBug`) |
| `fuse_live` | 1 request, 2 threads | `WaitsEnd` (`FinishedReturns`, `AbortReturns`, `AbortTerminates`) |
| `fuse_pages` | as `fuse_safety` | a violation, see below |
| `forget` | 2 links, 2 pending requests | `ListOK` (`TypeOK`, `ListSound`), `TakesTurns`; `ImplementsQueue`, `NoneStarves` (`ForgetsLeave`, `RequestsServed`) |
| `yara_scan` | 4 files, 2 threads, ring of 2, 2 permits at the end | `SlotsExact`, `PermitsSuffice`, `EndsInTime` (`NoEarlyEnd`, `QueueOutlives`, `RulesOutlive`); `ImplementsFileScan`, `Returns` |
| `nvmet_delete` | 2 commands of all kinds, 1 fod, 1 deletion, aborts, 2 chunks, deferral | `OneOwner`, `RefsExact`, `FreedInTime` (`QueueOutlives`, `FreedAtRest`), `WriteAfterData`, `HeardOf`; `ImplementsExchange` |
| `nvmet_live` | 2 commands, 1 fod, 1 deletion, 1 abort, 2 chunks, no deferral | `NoneHangs` (`CommandsEnd`, `QueueFreed`) |
| `nvmet_assoc` | 2 associations, 2 queues, numbers 0 and 1, 3 LS requests, five casts | `TgtRefsExact`, `AssocRefsExact`, `TableSound`, `StaleExplained`, `AllFreed` |
| `nvmet_refs` | the same, one LS request block and one command | a violation, see below |
| `rpl_dao` | 4 nodes, both modes, both kinds of lifetime, up to 2 DAOs, with a loss, a move or changes of address | `NumbersOK` (`TypeOK`, `NumberTells`), `AckedReaches`; `ImplementsRegistration`, `RepetitionHeals` |
| `scheme_gc` | 2 segments of 3 cells, 2 registers, vectors up to 2, 4 operations | `LinksRecoverable`, `GcExact`, `KnownKept`, `FreeListOK` (`TypeOK`, `FreeListSound`); `RequestsEnd` |

A name with others in brackets is the conjunction of those. `TypeOK` of `FuseDev`,
`YaraScan`, `NvmetFcQueue` and `NvmetFcAssoc` is proved (see below) and no run checks
it again; `RoundOK` is a lemma of the proof of `TakesTurns`.

Bounds. `MaxBackground = 1`, so that two requests reach and overshoot the limit,
queue in `bg_queue` and block a third caller. `MaxUnique` bounds how many
requests are numbered: no caller starts past it (those that have started go on,
so numbers exceed it a little); with 2 an object is used again while the first
request's leftovers are still around. `UintMax` stands for `UINT_MAX` and is
larger than any number of requests. `MaxPending` bounds the length of `pending`
in `FuseForget`; the turn-taking only asks whether it is empty. The history
`streak` stops at 17, one more than the property allows. Two links make
the forget list empty, short and long enough for a batch to cut it; a link is
used again once its message has left. Symmetry is used in runs without fairness
only. Deadlock is not checked: when the bound is reached, and when
the connection is aborted, the system has nothing left to do.

Fairness. A thread of the daemon inside a system call, a woken caller and a
running abort go on: each is a kernel thread the scheduler runs. The number of
pieces to copy is finite, hence strong fairness of `CopyEnd`. Nobody is assumed
to read, answer, abort or send a signal. `FuseForget` assumes in addition that
the daemon keeps reading, and that a buffer which holds a forget comes again and
again while forgets get their turn.

In `YaraScan` four files go once and a half around a ring of two (three slots);
the deadline may pass at any moment or never. `YaraScan` assumes only that each
thread runs on and that a scan ends; that time passes is not assumed.

`NvmetFcQueue` needs no bound: every command goes through once. Two chunks make a
first, a middle and a last transfer result differ (0, 1, 2); one fod and two
commands make one wait and reuse the fod of the other. More fods add no new kind
of sharing: they meet only in the queue's list, its locks and its count, and
`TypeOK` and `OneOwner` are proved for any number of them.
`HeardOf` speaks of queues without an abort or a deletion, and `FreedAtRest` of those
without a deferred command, since otherwise they do not hold (see "Seen on the
way"). `nvmet_live` has no deferral, since a deferred command may never get a fod and
keeps the queue alive. Fairness: arriving commands, fods, aborts and deletions that have
begun run on when they can, the LLDD ends each operation it took (there is a
timeout on each), the NVMe layer each request. No command need arrive and nobody
need delete the queue. Deadlock is not checked: when all commands are done there
is nothing left to do.

`nvmet_assoc`: each cast has three threads, as each race of the code needs two and
somebody who notices; the five cover every pair of kinds of threads that share an
object, but for the deletion of a controller with a command, for which the
deletion by an LS request stands. `MaxLs = 3` lets an association be created, connected to or disconnected
twice. Two associations let a disconnect name one and the connection of the other; one number
past the table stands for all. It checks safety only, and a stopped `Stale` thread is a deadlock.

`rpl_dao`: a chain of routers below the root, a node that may choose between two
parents, one without room for any route, and room for one link at the root. Two DAOs
and a lost message; two DAOs and a change of parent; one DAO with both; or one
DAO with one of them while a node loses its address and another one, or the same,
loses or gets it; each at any moment, in storing and non-storing mode, with
lifetimes infinite or not (which decides what `GiveUp` does). Eight numbers do not wrap in so few DAOs (for a wrap see
"Seen on the way"). Links and timers run on (`WF` of `Progress`); nobody has to register
and a node repeats its DAO at most `MaxTransmissions` times. So `RepetitionHeals` speaks
of a moment when nothing is under way, nothing is lost any more, and one
repetition is left. It does not speak of networks in which somebody has left a parent, of
a node without an address, and of a node for which the root, in non-storing mode, has no
room: without any one of these conditions the run finds it violated.

`scheme_gc`: four operations build every graph of up to four cells: cycles, shared
cells, a vector in the middle of a chain, and need a collection and a second
segment, below or above the first. Fairness: the one thread serves a request that
it has begun.

### The findings

`fuse_pages`: `unlock_request` lets the waiter of an aborted request, or its end callback,
have the buffers. `fuse_ref_page` (120:286:13) unlocks the request and then takes
a page of it to hand out; `fuse_try_move_page` (120:315:10) unlocks and replaces
a page; when it succeeds the request stays unlocked, and `fuse_copy_page`
(120:303:7) may clear the request's next page. An abort in one of these windows
finds the request not locked. `fuse_pages` gives the trace. The comment at
120:262:55 states the intention. `CopySafe`, the same property for the locked
phase, holds.

`nvmet_refs`: `nvmet_fc_delete_target_queue` (119:464:72) drops the reference of the
queue's creation each time it is called, and `atomic_xchg(&queue->connected, 0)`
guards only the disconnection. `nvmet_fc_delete_target_assoc` (119:429) calls it
for every queue in its table, also for one an LS disconnect (119:481) is
deleting. The second deletion drops somebody else's reference. `NeverStale` is violated
by one host, which disconnects queue 0 while a command is out: 119:481:101 deletes
the association, and in it queue 0 again, which the command still holds.

### The races of nvmet_fc

`StaleExplained` says that bad memory is used only after one of these, or by a lookup of a
queue number past the table, which needs no race; the
other properties of `nvmet_assoc` say which of them they exclude:

* "twice": an object is deleted twice (119:464:72), see above; 119:481:100 goes on to
  delete an association that has been deleted meanwhile;
* "dying": `nvmet_fc_find_target_assoc` (119:458:13) returns an association also when its
  count was zero, without a reference;
* "neighbour": `__nvmet_fc_free_assocs` (119:416:12) drops the lock to delete an
  association and holds no reference of the next one;
* "bound": `nvmet_fc_add_port` (119:447:30) binds a port whose count is zero;
* "young": a queue or association can be found and deleted as soon as it is listed
  (119:422:51), while its creator goes on to use it without a reference;
* "same_qid": a second connection of the same number takes the place of the first
  in the table (119:422:51); the first is never deleted with its association;
* "late": an association is created after the unregistration has gone over the
  list; nobody deletes it, and the port stays.

That a disconnect deletes a queue of an association other than the one it has found
(119:481:46), and with number 0 then the one it has found, makes no
difference to this: it holds both the queue and the association.

With none of them, everything is freed in the end (`AllFreed`). `TgtRefsExact` excludes none.

### Seen on the way

In the models, and left out of the properties by the conditions named there:

* When a scan list meets the deadline, `populate_scan_list` returns `ERROR_SCAN_TIMEOUT`
  and `_tmain` leaves through `exit_with_code` (`Data/120/vuln` 009, line 246): it destroys
  modules, rules and library without joining the threads, unlike the path below
  it (line 251). A thread that began its scan goes on with what is being destroyed.
  `RulesOutlive` excludes this exit.
* `nvmet_fc_find_target_queue` indexes `assoc->queues` with a number that comes with the
  command or the disconnect and may be past its end (`Data/119/vuln` 019, line 14).
  `StaleExplained` names it; `NeverStale` leaves it out, since it is about freed memory.
* When the root's table of links is full, a DAO in non-storing mode is dropped without
  an answer (`Data/120/vuln` 022, line 95-102), however often it is repeated; with an infinite lifetime
  the node then gives up and stays with its parent. A retransmission that comes when the
  node has no address is the last one (120:206:40-42). `RepetitionHeals` excludes both.
* A deferred command of nvmet_fc keeps the reference of its lookup (119:441:81), and
  the fod it gets keeps the one it had (119:449:58-62). Freeing the fod drops one of
  the two; a deletion that drops a waiting command (119:464:43-65) drops none. `FreedAtRest` and
  `QueueFreed` speak of queues without deferred commands.
* `nvmet_fc_rcv_fcp_abort` (119:433:15-27) may mark a fod that `nvmet_fc_free_fcp_iod`
  (119:449:15) has cleared, because that takes no lock; the next command of the fod
  starts as aborted and is given back unanswered. `HeardOf` excludes aborts.
* A disconnect with scope association is answered with an accept (119:481) and
  deletes nothing, although 119:466:32 says "Terminate a Queue/Connection or the
  Association".
* RPL ignores the path sequence of a DAO, and the timer keeps the parent it was
  set with. A DAO repeated to the old parent after the No-Path DAO leads the routes
  back to it; so `AckedReaches` speaks of networks in which nobody has moved.
* A fresh route has number zero and is not pending: a DAO that is numbered zero
  after the counter has wrapped is acknowledged by the first router
  (`Data/120/vuln` 023, line 237), before the root has it. And after as many DAOs as the
  counter has values two may wait under one number.
* `qlock` is dropped for `kmalloc` (119:441:61-71); by the time the command is in
  `pending_cmd_list` all fods may be free, and nobody looks at the list until
  another command's fod is freed.
* The deletion reads `writedataactive` under `flock`, drops the lock, loads `fod->fcpreq`
  and calls `fcp_abort` with it (119:464:17-31). `nvmet_fc_free_fcp_iod` takes no lock
  to clear the field and give the command back (119:449:13-21). So the LLDD may be told
  to abort a command that does not wait for write data any more (119:464:21-25: "only
  call lldd abort routine if waiting for writedata"), one that it has got back, or none
  at all (a null pointer); the model reaches all three. What remains true, and what
  `NvmetFcExchange` says, is that this concerns one command, the one seen while its
  data was fetched: the fod takes no other command before the deletion drops `qlock`.
* `nvmet_fc_rcv_fcp_abort` (119:433:5-15) uses the fod and `queue->qlock` without a
  reference to the queue. `QueueOutlives` does not count it as a user.
* An ABTS for a command that still waits in `pending_cmd_list` finds no fod and is
  ignored (119:433:9); the command runs later.

Read in the code, and not in the models: an answer of -EAGAIN to a FUSE interrupt
queues it again without a look at whether it is queued (120:279:57), the copy loop of
`fuse_retrieve` (120:291:34) never advances, and `scheme_deinit` (120:458) does not clear
the list of recent allocations, so that the last collection does not finalise the
strings of the last opcode.

## Proofs

A leaf that takes a prover more than about a second names the prover and a time limit
(`ZenonT(60)`, `SMTT(30)`), so that the proofs can be checked on a busy machine.

`FuseDev_proofs`:

* `TypeCorrect`: `Spec => []TypeOK`, for all constants. One lemma per group of
  actions; the lemmas on `Unlink`, `Put`, `flush_bg_queue` and `request_end` say
  what these helpers do to the variables they change.
* `BgCorrect`: `Spec => []BgAccounting`. `BgAccounting` is not inductive alone.
  The invariant is `TypeOK /\ Down /\ BgAccounting /\ max_background <= UintMax`,
  where `Down` says that the connection is up exactly while nobody has begun to
  abort it: the steps of an abort must know that `blocked` is already cleared,
  and `AbortFlush`, which raises the limit to `UINT_MAX`, must know that what is
  active fits below it. The heart of it is the lemma on `flush_bg_queue`: it
  leaves the queue empty or all slots taken.

`FuseOwner_proofs`, on top of it:

* `RefsCorrect`, `ListsCorrect`, `InterruptsCorrect`, `CopyCorrect` and `EndCorrect` prove
  `RefsExact`, `OnOneList`, `InterruptKept`, `CopySafe` and `EndSound`, for any number of
  requests and daemon threads. None of them is inductive, and they need each other, so
  they come from one invariant, `OwnerInv`: no request is in two system calls, no list
  names one twice, and each request is `Sound`. `Sound` has six parts: `PlaceOK` (the state
  tells the list), `HandOK` (what a thread in a system call knows of its request: it is on
  `io` unless an abort took it away; while it is locked its buffers are owned), `AborterOK`
  (what `fuse_abort_conn` knows of the one it has at hand), `CallerOK`, `FieldsOK`
  (the fields against each other: aborted is finished, a finished request has no end
  callback left, an interrupt belongs to a request that is with the daemon) and `CountOK`,
  the count. `EndFlag` adds that a thread has an end callback to run only at the end of its
  call. `Hand(thread, r)` is the record of the one thread that works on r, so that all
  of it is about one request; a step changes one request, and leaves the others as they are
  (`Same`) or moves them from `bg_queue` to `pending` (`Moved`), because any end of a background
  request may make room there. `SameSound` and `MovedSound` settle those once and for all.
* `PromiseCorrect`: `Spec => KeepsPromise`, the whole refinement to `FuseCall`. `PhaseFact` reads
  the phase off the state, the error and the caller's place. Each action then moves one
  request along one arrow of `FuseCall` or leaves it (`CallStep`), and those that leave `bg_queue`
  stay queued (`Left`). It needs `OwnerInv` to know which phase the request a list or a
  thread names is in, and `Down`: a request fails with ECONNABORTED only after an abort.
* `CountersCorrect`: `Spec => []CountersExact`. The invariant `Counts` counts for each request
  what can be read off the request: `num_background` is the number of `Live` requests
  (background, and not finished or still copied by a thread), `num_waiting` that of
  callers and threads in `fuse_get_req` and of requests with a share. A step
  about one request changes each of the sets by that request or not at all, so that
  `SetChange`, the one lemma on cardinalities, settles it; what `flush_bg_queue` makes
  pending is counted before and after.
* `AbortCorrect`: `Spec => []AbortComplete`. The invariant `Swept` says that `bg_queue` and `io`
  are empty from the flush on. That the flush empties `bg_queue` needs both accountings:
  `num_background` is `active_background` and the length of `bg_queue` (`BgCorrect`), and
  it is a number of requests (`Counts`), no more than `UINT_MAX` by `RoomAssumption`. Later nothing
  enters: a read that has copied its request well would, but then the request is on `io`
  (`HandOK`), or was aborted.

`FuseForget_proofs`:

* `TurnsTaken`: `Spec => []TakesTurns`. The streaks alone are not inductive;
  `RoundOK` ties each to `forget_batch`: a streak of n forgets has used up n of
  16, one of n requests has brought the counter to -n or has just started a new
  round.
* `ListCorrect`: `Spec => []ListOK`, and `ImplementsCorrect`: `Spec => ImplementsQueue`,
  the whole refinement. The invariant adds `Linked`: there are an n and a function s with
  `Chain(n, s)`, that is, from the head the pointers lead to s[1], ..., s[n], each once,
  and no further, the tail pointer is at s[n], and the links of s are the allocated ones.
  `ChainNth` shows that the recursive function `Nth` then is s: s with nothing behind it
  satisfies the equation that defines `Nth`, so some function does, and two that do
  are equal (`FollowingUnique`), since there is no least place where they differ.
  `Least` derives that from a library theorem on finite sets, because the induction
  theorems of the library cannot be used. `QueueStep` and
  `DequeueStep` give the chain after each operation (s with the link added, and what is
  left of s behind the first links), `Queued` and `Dequeued` say the same of `List` as a
  sequence. A read that fails to copy and an abort lose what they took, which
  `FuseForgetQueue` allows.

`YaraScan_proofs`:

* `TypeCorrect`: `Spec => []TypeOK`.
* `SlotsCorrect`, `PermitsCorrect`: the semaphores, for every size of the ring and
  number of threads. The inductive invariant is `TypeOK /\ SlotsExact /\
  PermitsSuffice /\ Begins /\ Unreleased /\ HandsFree`: nothing has begun before
  `file_queue_init`, no permit of `file_queue_finish` is out during the walk, and a
  thread that asks for a path has none. Each step of a thread is first shown to
  be one of four changes of the five quantities that count (`Wins`, `Takes`,
  `Gives`, `Rests`); the rest is arithmetic.

* `EndsCorrect`: `Spec => []EndsInTime`, and `ImplementsCorrect`: `Spec =>
  ImplementsFileScan`, the whole refinement. The invariant adds `FilesOK` (a file that
  has not been scanned is in one place: still to come, in main's hand, in one slot of
  the ring or in one thread's hand, so that a file is admitted by one thread and once;
  before the deadline it is in one of them or scanned),
  `WalkOK` (the walk ends with files left only at the deadline; the outcome is open until
  main leaves) and `EndOK` (`EndsInTime` in parts, with `Calm`: after an exit that did
  not wait for the threads nobody has a file or can get one). `SlotsExact` is what keeps
  `PutStore` from overwriting a path and `GetTake` from finding the ring empty during the
  walk, so that a thread without a path can only be one that met the end of the walk.
  The success of a run needs all of it: the threads are done, so the deadline has passed
  or the ring is empty, and then every file has been scanned.

`NvmetFcQueue_proofs`:

* `TypeCorrect`: `Spec => []TypeOK`. In particular no transfer goes past the data and
  no counter below zero.
* `OwnerCorrect`: `Spec => []OneOwner`. The inductive invariant is `TypeOK /\ OneOwner
  /\ BlocksOK /\ DelOK`. `BlocksOK` says that a thread has a command exactly
  between taking it and giving it back, and that data is left to move wherever the
  code goes on to move it, which the type of the offset needs; `DelOK` says that a
  deletion holds a command only while it drops it, and a fod while it marks it.
  Steps of a thread that keeps its command (`Within`), and steps that leave
  ownership alone (`Aside`), preserve it by one lemma each; the steps that move a
  command (`AllocFod`, `Defer`, `FreeFod`, `FodNext`, `DelDrain`, `DelDrop`) are
  proved one by one, on the lemma `HeadTail` about the list.

and, on top of this, all the properties of the run `nvmet_delete`:

* `RefsCorrect`: `Spec => []RefsExact`, with `DeferredOK` (what waits was deferred, what
  was deferred was taken): a command joins the deferred once, so that the reference it
  leaves behind is counted once.
* `FreedUnlessTwice`: `FreedInTime` in every state in which at most one deletion has dropped
  the reference of the creation (`Dropped`), for any number of threads that delete the
  queue. It follows from the count: at zero each set of holders is empty. After a second
  drop it is not true. `FreedCorrect`: hence `[]FreedInTime`, when at most one thread
  deletes the queue.
* `ImplementsCorrect`: `Spec => ImplementsExchange`, the whole refinement, and with it
  `WriteCorrect` and `HeardCorrect`. `Progress` says of each block what its thread's place
  tells about the answers to its command; a transfer that was to carry the response and
  failed may have been answered or not. `Unanswered` says the
  same of a command without a block. `Untouched` says that before a deletion and an ABTS
  nobody takes it on himself to tell the driver, so that `nvmet_fc_abort_op` does.
  For the late abort of a deletion there are two more parts. `ServeInv`: a block
  names its command exactly from its binding on until it is freed, only the data of
  a write is fetched, and a deletion at work on the blocks holds `qlock`. `DoomInv`: the
  block a deletion looks at is `Caught` meanwhile, it serves the command it served
  then or waits for `qlock`, so that the deletion loads that command or nothing, and
  nothing only when the command is being closed.

`NvmetFcAssoc_proofs`:

* `TypeCorrect`: `Spec => []TypeOK`, and `PortCorrect`: `Spec => []TgtRefsExact`, from one
  inductive invariant, `TypeOK /\ ThreadsOK /\ ObjectsOK /\ UserOK /\ TgtRefsExact`. They
  need each other: nothing in the code looks whether the port's count is zero
  before it is dropped, so that it stays a number only because it is exact, and
  whoever drops it is counted in it. (An association's and a queue's count may
  reach zero too early, but then the thread is `Stale`.) `ThreadsOK` says which locals
  a thread has at which place, `ObjectsOK` that what has a count has been allocated
  and that a queue with references knows its association, `UserOK` that who binds
  the port with a count of zero has no reference. Steps that leave the port's
  holders alone are proved by one lemma (`AsideStep`); each of the others adds or
  removes one member of one of the sets the count is made of, of which the last, who
  looks for a controller, has at most one.

* `TableCorrect`: `Spec => []TableSound`, from the invariant `TableInv`, which holds
  beside the one above. `TableSound` alone is not inductive: `Publish` puts the queue
  its thread knows into the table, and only `Unpublished` says that this queue is
  still live, of that number, and known to nobody else who could have dropped its
  reference; and `AllocQueue` makes a queue nobody knows only because what a thread or the
  table names has been allocated before (`NamesKnown`, `TableLive`). That the count of
  the queue is exact is not needed: `QueuePut` clears the entry and frees the queue in
  one step, whoever calls it. Most steps neither change the table nor make a queue
  known that the table did not name (`KeptStep`).

* `AssocCorrect`, `StaleCorrect` and `FreedCorrect` prove `AssocRefsExact`, `StaleExplained`
  and `AllFreed`. `Base` (`BaseCorrect`) says where each thread can be with its request
  (`Places`), that whatever is named has been allocated (`Known`), that an object
  is live exactly as long as it has references (`Alive`), which associations are on the list, each once (`OnList`), and that one
  without references has exactly one thread that will unlist it (`Unlisting`).
  The actions in these terms are the lemmas `...Moves`: which objects are made,
  taken, put, freed, and where the thread goes.
* `AssocRefsExact` speaks of live associations only; the invariant is `AssocCounted`, which
  counts in every state, so that a put that ends the life of one is known to be the last.
  The reference of the creation is dropped by the deletion that was first to set
  `deleted` (`OneDeleter`). `QueueCounted` is the same for queues, which only need that nothing
  is deleted twice. `Weight` is what a thread adds to the count, so that a step
  has one obligation: the count changes as the weight of its thread does (`CountedMove`,
  `QueueCountedMove`; the cardinalities move in `OneMoves`). With the two counts, whoever
  holds an object knows that it is alive (`AssocHeld`, `QueueHeld`, `PortHeld`). Who uses one
  without a reference is a creator, whose object has not been deleted unless `young` has
  happened (`AllFresh`), or the loop of `__nvmet_fc_free_assocs`, whose next one is on the list
  unless `neighbour` has (`Neighbour`). This is `StaleExplained`, place by
  place; at `past_table` there is nothing to show, and it is the only place a number past the
  table leads to. A disconnect whose connection is of another association is no special case:
  the queue and the association it holds are counted each for itself.
* `AllFreed` needs that nothing is missed. What has not been deleted is this turn of the loop
  or is on the list not before the next one (`FreeLoop`); a live queue of a deleted
  association is still being published, or the deletion has not come to its number or
  is about to delete it (`NoneMissed`): here `TableSound` says that the table names it. At rest
  each count is then zero, and `Alive`, `Unlisting` and `PortEnds` give what becomes of
  objects without references.

`RplDao_proofs`:

* `TypeCorrect`: `Spec => []TypeOK`, also when the counters wrap.
* `NumbersCorrect`: `Spec /\ [][NoWrap]_vars => []NumbersOK`, and `RegistrationCorrect`:
  `Spec /\ [][NoWrap]_vars => ImplementsRegistration`, where `NoWrap` says that no step makes
  a node's `dao_sequence` smaller. It is a condition on behaviours, not on the
  constants: the code does nothing against a wrap, and with one both are false (see
  "Seen on the way"). The invariant is `Explained`: there is a table `f` that says for
  each node and each number it has sent which target and which registration of
  that target the number stands for, and every message under way, every pending route
  and every node that waits agrees with it (`Good(f)`). The table is not part of the
  model; a step that takes a new number extends it at a place nothing refers to,
  because numbers only grow, and any other step keeps it. That an acknowledgement
  is about the pending registration follows from both having the same entry.
* `ReachesCorrect`: `Spec /\ [][NoWrap]_vars => []AckedReaches`, for trees of any depth. The
  invariant is `StillInv`: until somebody moves there are the parents `T` the nodes began with
  and the set `A[n]` of nodes above each (`AboveExists` gives it for parents in which nobody is
  its own ancestor), such that DAOs, routes and timers keep to `T` (`Frame`), and `Est` in storing
  mode: if a node has a settled route for a target, or an answer that says yes is on its
  way to it, or it is the target and believes, then every node above it is `Ready`, that is, has
  a route and is not about to be told to drop it. `AckedReaches` alone says
  nothing of routers whose own answer has not come, and so is not inductive. A node
  that is ready stays so, because it is told to drop its route only by one above that is not
  ready (`UpKept`); that the number on an answer belongs to this target, and a
  new number to no answer on its way, is what `Explained` says, hence the same condition. At the
  end `UpReaches` follows the packet down: each hop has one more node above it, so it cannot take more
  than `Cardinality(Node)` steps. In non-storing mode (`Told`) the link at the root is there as
  soon as an acknowledgement is.

`SchemeHeap_proofs`, for every number and size of segments, of registers and of elements of
a vector, and so for every graph of cells. The invariant is `Inv`, which has a part for
each phase of the collector; all properties of the run but `RequestsEnd` follow from it.

* Between collections the heap is `Sound`. A pointer leads to the first cell of an object,
  and all cells of a vector are there (`HeapOK`). There is a set H of holders, which are
  the cells of the list of recent allocations: each cell given to the opcode
  since `ok_to_freely_gc` is in one, and no register, argument or cell
  outside H leads into H (`Hidden`), so that the evaluator cannot change the list.
  `KnownCorrect` (`Spec => []KnownKept`) follows since the list is a root.
* `FreeListCorrect`: `Spec => []FreeListOK`. `ListOK(F, ...)` says that each link leads to
  the least address of F above it. Taking a row of cells off, putting a segment between
  two cells, and giving cells back from the highest to the lowest keep it (`ListWithout`,
  `ListJoin`, `SweepGoes`), and then what `FreeList` finds by following the links is F.
* While the marker runs, `Chain` describes where it is: from the root to the cell where the
  innermost call of `mark` is, a sequence of cells, each once. Of each but
  the last either one link is turned around and leads to the one before, or it is a
  vector whose call waits for an inner one; all others are as they were but for the mark.
  `lev` says which call a cell belongs to. `Colour` says what is still to be done: the
  marked cells are reachable from the roots, and each link of one leads to a marked cell or is
  one that its call, or a cell of the chain, will still follow. Going down makes the chain
  longer by one, `E6` makes it shorter (`ChainUp`), and the calls of `gc.calls` are the
  levels of the chain (`Stacked`). When the last call has returned the chain is empty and
  the marked cells are closed, so they are `Reach` of the roots, which a fixed point argument needs
  besides (`Reach` takes as many rounds as there are cells; that these
  suffice follows from the cardinalities).
* `LinksCorrect`: `Spec => []LinksRecoverable`. Turning one link back (`Back`) makes the chain
  shorter by one, as many times as there are cells undo a call (`UndoneReturns`), and
  undoing the calls one by one empties the chain.
* `ExactCorrect`: `Spec => []GcExact`. `Sweeping` splits the heap at `gc.scan`: below, cells
  are as the marker left them; above, those that were marked are as they were before
  and the others are free and on the list.

The proofs assume only the named assumptions of the modules: the constants are
of their types, the threads of `NvmetFcAssoc` are different from each other, `NoReq`,
`NoCmd`, `NoFod` and `Nobody` are not a request, a command, a fod, a thread, `UINT_MAX`
is not below the limit nor, for `AbortCorrect`, below the number of request objects
(`RoomAssumption`), there are finitely many commands, fods, threads and nodes and, of yara's,
no more than `YR_MAX_THREADS`. `FreedCorrect` assumes one deletion besides, and three theorems of `RplDao_proofs` that no
counter wraps.
The external definitions named above are part of what is proved about.

Only model-checked: all liveness, since the prover cannot reason about fairness: `WaitsEnd`, `NoneStarves`, `Returns`, `NoneHangs`, `RepetitionHeals`
and `RequestsEnd`.

## Not modelled

See the components marked `not_modelled` in `PROJECT.json`, each with its reason.
Inside the FUSE device: the bytes that are copied, SETXATTR's own error number,
splice's pipe handling except for the moves of pages, polls, the store and
invalidate notifications.

## Plan

1. Done: the FUSE device and its forget list; the yara command; the commands of an
   nvmet_fc queue; target ports and associations of nvmet_fc; DAOs of RPL; the cells
   of TinyScheme.
2. Next, in this order:
   * `FuseReserved`: `fuse_get_req_nofail` and the one reserved request of a file;
     its owner, that it is never lost, that every waiter gets it.
   * `YaraLib`: `init_count` against failing initialisation.
   * the work queue contexts of `NvmetFcQueue`; the strings of `SchemeHeap`.
   * `Mlx4Tables`, `Mlx5Bfreg`: reference-counted tables.
   * `IwlSta`, `Ismt`, `TcmLoop`, `E1000`, `Si4713`.
3. Proofs: done for every safety property of the runs that pass. What the components of 2
   add comes with its own.
