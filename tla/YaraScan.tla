------------------------------ MODULE YaraScan ------------------------------
(***************************************************************************)
(* The yara command scanning a directory or a scan list: the main thread   *)
(* walks over the files and puts their paths into a ring (file_queue_put), *)
(* the scanning threads take them out (file_queue_get).  Two semaphores    *)
(* count the slots; every wait on them ends at the deadline.  The model    *)
(* begins at file_queue_init and ends when main returns.                   *)
(*                                                                         *)
(* Between a semaphore and the mutex any other thread may run, so a put    *)
(* and a get are three steps each; what queue_mutex guards is one step.    *)
(***************************************************************************)
EXTENDS Integers, FiniteSets

CONSTANTS
    File,           \* the entries of the walk
    Thread,         \* the scanning threads asked for (option -p)
    MaxQueuedFiles, \* MAX_QUEUED_FILES
    MaxThreads,     \* YR_MAX_THREADS
    NoFile          \* a NULL path

ASSUME FileAssumption   == NoFile \notin File
ASSUME QueueAssumption  == MaxQueuedFiles \in Nat \ {0}
\* _tmain refuses more threads.  (With none at all nothing would be scanned.)
ASSUME ThreadAssumption == /\ IsFiniteSet(Thread) /\ Thread # {}
                           /\ MaxThreads \in Nat /\ Cardinality(Thread) <= MaxThreads

VARIABLES
    main,           \* where the main thread is, the path it puts, how many
                    \* permits file_queue_finish has released
    thread,         \* Thread -> where it is, and the path it has
    file_queue, queue_head, queue_tail,
    used_slots, unused_slots,
    scan_list,      \* scan_list_search: the files come from a list
    todo,           \* the files the walk has not come to
    expired,        \* time(NULL) >= deadline
    live,           \* what _tmain has set up and not yet destroyed
    outcome,        \* how the run ended, as far as _tmain has decided
    scans           \* history: how many times a file was given to scan_file

ring  == <<file_queue, queue_head, queue_tail>>
slots == <<used_slots, unused_slots>>
vars  == <<main, thread, ring, slots, scan_list, todo, expired, live, outcome, scans>>

\* What the scanning of a file needs, in the order _tmain destroys it.
Needed == {"modules", "rules", "library"}

Index == 0 .. MaxQueuedFiles

After(i) == (i + 1) % (MaxQueuedFiles + 1)

Init ==
    /\ main = [pc |-> "init", file |-> NoFile, released |-> 0]
    /\ thread = [t \in Thread |-> [pc |-> "none", file |-> NoFile]]
    /\ file_queue = [i \in Index |-> NoFile]
    /\ queue_head = 0 /\ queue_tail = 0
    /\ used_slots = 0 /\ unused_slots = 0
    /\ scan_list \in BOOLEAN
    /\ todo = File
    /\ expired = FALSE
    /\ live = Needed
    /\ outcome = "running"
    /\ scans = [f \in File |-> 0]

\* Once main has returned the process is gone, with all its threads.
Running == main.pc # "over"

\* Time passes.
Expire ==
    /\ Running /\ ~ expired /\ expired' = TRUE
    /\ UNCHANGED <<main, thread, ring, slots, scan_list, todo, live, outcome, scans>>

Goto(pc) == main' = [main EXCEPT !.pc = pc]

\* exit_with_code(EXIT_FAILURE): straight to the label _exit.
ExitWithFailure == Goto("exit") /\ outcome' = "failure"

-----------------------------------------------------------------------------
(* The main thread.                                                        *)

\* file_queue_init.
\* (Mutant: a permit too many.)
OneSlotMore == MaxQueuedFiles + 1
Capacity == MaxQueuedFiles
QueueInit ==
    /\ main.pc = "init"
    /\ \/ /\ Goto("spawn")
          /\ used_slots' = 0 /\ unused_slots' = Capacity
          /\ live' = live \union {"queue"}
          /\ UNCHANGED outcome
       \/ ExitWithFailure /\ UNCHANGED <<slots, live>>
    /\ UNCHANGED <<thread, ring, scan_list, todo, expired, scans>>

\* The next thread is created, or creating it (or its scanner) fails while the
\* ones before it are running.
Spawn(t) ==
    /\ main.pc = "spawn" /\ thread[t].pc = "none"
    /\ thread' = [thread EXCEPT ![t].pc = "wait"]
    /\ UNCHANGED <<main, ring, slots, scan_list, todo, expired, live, outcome, scans>>
SpawnFail ==
    /\ main.pc = "spawn" /\ \E t \in Thread : thread[t].pc = "none"
    /\ ExitWithFailure
    /\ UNCHANGED <<thread, ring, slots, scan_list, todo, expired, live, scans>>

\* All are there: open the directory or the list.  A list that cannot be read
\* ends the run.
Walk ==
    /\ main.pc = "spawn" /\ \A t \in Thread : thread[t].pc # "none"
    /\ \/ Goto("walk") /\ UNCHANGED outcome
       \/ scan_list /\ ExitWithFailure
    /\ UNCHANGED <<thread, ring, slots, scan_list, todo, expired, live, scans>>

\* scan_dir or populate_scan_list comes to the file f.
NextFile(f) ==
    /\ main.pc = "walk" /\ f \in todo
    /\ main' = [main EXCEPT !.pc = "put", !.file = f]
    /\ todo' = todo \ {f}
    /\ UNCHANGED <<thread, ring, slots, scan_list, expired, live, outcome, scans>>
WalkOver ==
    /\ main.pc = "walk" /\ todo = {}
    /\ Goto("finish")
    /\ UNCHANGED <<thread, ring, slots, scan_list, todo, expired, live, outcome, scans>>

\* file_queue_put: wait for an unused slot ...
PutWait ==
    /\ main.pc = "put" /\ unused_slots > 0
    /\ unused_slots' = unused_slots - 1
    /\ Goto("store")
    /\ UNCHANGED <<thread, ring, used_slots, scan_list, todo, expired, live, outcome, scans>>

\* ... till the deadline.  The walk ends; _tmain takes no notice of what
\* scan_dir returns, but does of what populate_scan_list returns.
PutTimeout ==
    /\ main.pc = "put" /\ expired
    /\ \/ ~ scan_list /\ Goto("finish") /\ UNCHANGED outcome
       \/ scan_list /\ ExitWithFailure
    /\ UNCHANGED <<thread, ring, slots, scan_list, todo, expired, live, scans>>

\* ... store the path ...
PutStore ==
    /\ main.pc = "store"
    /\ file_queue' = [file_queue EXCEPT ![queue_tail] = main.file]
    /\ queue_tail' = After(queue_tail)
    /\ Goto("post")
    /\ UNCHANGED <<thread, queue_head, slots, scan_list, todo, expired, live, outcome, scans>>

\* ... and announce it.
PutPost ==
    /\ main.pc = "post"
    /\ used_slots' = used_slots + 1
    /\ Goto("walk")
    /\ UNCHANGED <<thread, ring, unused_slots, scan_list, todo, expired, live, outcome, scans>>

\* file_queue_finish: one permit without a path for every thread there may be.
\* (Mutant: one permit too few.)
OneLess == MaxThreads - 1
Permits == MaxThreads
Finish ==
    /\ main.pc = "finish" /\ main.released < Permits
    /\ used_slots' = used_slots + 1
    /\ main' = [main EXCEPT !.released = @ + 1]
    /\ UNCHANGED <<thread, ring, unused_slots, scan_list, todo, expired, live, outcome, scans>>
FinishOver ==
    /\ main.pc = "finish" /\ main.released = Permits
    /\ Goto("join")
    /\ UNCHANGED <<thread, ring, slots, scan_list, todo, expired, live, outcome, scans>>

\* The threads are joined, then the queue goes.
\* (Mutant: one thread is joined.)
FirstJoined == \E t \in Thread : thread[t].pc = "done"
AllJoined == \A t \in Thread : thread[t].pc = "done"
Join ==
    /\ main.pc = "join" /\ AllJoined
    /\ live' = live \ {"queue"}
    /\ outcome' = "success"
    /\ Goto("exit")
    /\ UNCHANGED <<thread, ring, slots, scan_list, todo, expired, scans>>

\* _exit: unload_modules_data, yr_rules_destroy, yr_finalize, return.
Exit ==
    /\ main.pc = "exit"
    /\ \/ /\ "modules" \in live
          /\ live' = live \ {"modules"} /\ UNCHANGED main
       \/ /\ "modules" \notin live /\ "rules" \in live
          /\ live' = live \ {"rules"} /\ UNCHANGED main
       \/ /\ {"modules", "rules"} \intersect live = {} /\ "library" \in live
          /\ live' = live \ {"library"} /\ UNCHANGED main
       \/ /\ Needed \intersect live = {}
          /\ Goto("over") /\ UNCHANGED live
    /\ UNCHANGED <<thread, ring, slots, scan_list, todo, expired, outcome, scans>>

-----------------------------------------------------------------------------
(* A scanning thread.                                                      *)

ThreadGoto(t, pc) == thread' = [thread EXCEPT ![t].pc = pc]

\* file_queue_get: wait for a used slot ...
GetWait(t) ==
    /\ Running /\ thread[t].pc = "wait" /\ used_slots > 0
    /\ used_slots' = used_slots - 1
    /\ ThreadGoto(t, "take")
    /\ UNCHANGED <<main, ring, unused_slots, scan_list, todo, expired, live, outcome, scans>>

\* ... till the deadline, then the thread ends ...
GetTimeout(t) ==
    /\ Running /\ thread[t].pc = "wait" /\ expired
    /\ ThreadGoto(t, "done")
    /\ UNCHANGED <<main, ring, slots, scan_list, todo, expired, live, outcome, scans>>

\* ... take the oldest path, if there is one ...
\* (Mutant: the test is missing.)
NeverEmpty == FALSE
Empty == queue_head = queue_tail
GetTake(t) ==
    /\ Running /\ thread[t].pc = "take"
    /\ \/ /\ Empty
          /\ ThreadGoto(t, "give")
          /\ UNCHANGED queue_head
       \/ /\ ~ Empty
          /\ thread' = [thread EXCEPT ![t] = [pc |-> "give", file |-> file_queue[queue_head]]]
          /\ queue_head' = After(queue_head)
    /\ UNCHANGED <<main, file_queue, queue_tail, slots, scan_list, todo, expired, live,
                   outcome, scans>>

\* ... and give the slot back; a thread without a path ends.
GetGive(t) ==
    /\ Running /\ thread[t].pc = "give"
    /\ unused_slots' = unused_slots + 1
    /\ ThreadGoto(t, IF thread[t].file = NoFile THEN "done" ELSE "look")
    /\ UNCHANGED <<main, ring, used_slots, scan_list, todo, expired, live, outcome, scans>>

\* scanning_thread: look at the clock; when it is too late the path is dropped ...
Look(t) ==
    /\ Running /\ thread[t].pc = "look"
    /\ \/ ~ expired /\ ThreadGoto(t, "begin")
       \/ expired /\ thread' = [thread EXCEPT ![t] = [pc |-> "done", file |-> NoFile]]
    /\ UNCHANGED <<main, ring, slots, scan_list, todo, expired, live, outcome, scans>>

\* ... and else the file is scanned, for the time that was left then.
ScanFile(t) ==
    /\ Running /\ thread[t].pc = "begin"
    /\ scans' = [scans EXCEPT ![thread[t].file] = @ + 1]
    /\ ThreadGoto(t, "scan")
    /\ UNCHANGED <<main, ring, slots, scan_list, todo, expired, live, outcome>>
Scanned(t) ==
    /\ Running /\ thread[t].pc = "scan"
    /\ thread' = [thread EXCEPT ![t] = [pc |-> "wait", file |-> NoFile]]
    /\ UNCHANGED <<main, ring, slots, scan_list, todo, expired, live, outcome, scans>>

-----------------------------------------------------------------------------
Main == \/ QueueInit \/ SpawnFail \/ Walk \/ WalkOver
        \/ PutWait \/ PutTimeout \/ PutStore \/ PutPost
        \/ Finish \/ FinishOver \/ Join \/ Exit
        \/ \E t \in Thread : Spawn(t)
        \/ \E f \in File : NextFile(f)

ScanningThread(t) == \/ GetWait(t) \/ GetTimeout(t) \/ GetTake(t) \/ GetGive(t)
                     \/ Look(t) \/ ScanFile(t) \/ Scanned(t)

Next == Expire \/ Main \/ \E t \in Thread : ScanningThread(t)

\* Every thread runs on when it can, and the scan of a file ends.  The deadline
\* need not pass.
Fairness == /\ WF_vars(Main)
            /\ \A t \in Thread : WF_vars(ScanningThread(t))

Spec == Init /\ [][Next]_vars /\ Fairness

-----------------------------------------------------------------------------
(* What must hold.                                                         *)

MainPc   == {"init", "spawn", "walk", "put", "store", "post", "finish", "join",
             "exit", "over"}
ThreadPc == {"none", "wait", "take", "give", "look", "begin", "scan", "done"}

\* Type invariant.  Semaphores never go below zero.
TypeOK ==
    /\ main \in [pc : MainPc, file : File \union {NoFile}, released : 0 .. MaxThreads]
    /\ thread \in [Thread -> [pc : ThreadPc, file : File \union {NoFile}]]
    /\ file_queue \in [Index -> File \union {NoFile}]
    /\ queue_head \in Index /\ queue_tail \in Index
    /\ used_slots \in Nat /\ unused_slots \in Nat
    /\ scan_list \in BOOLEAN /\ expired \in BOOLEAN
    /\ todo \subseteq File
    /\ live \subseteq Needed \union {"queue"}
    /\ outcome \in {"running", "success", "failure"}
    /\ scans \in [File -> Nat]

\* How many paths the ring holds.
Length == IF queue_tail >= queue_head THEN queue_tail - queue_head
          ELSE queue_tail - queue_head + MaxQueuedFiles + 1

At(pc) == {t \in Thread : thread[t].pc = pc}
One(p) == IF p THEN 1 ELSE 0

\* Until file_queue_finish runs, the semaphores are exact: each stored path has
\* a permit in used_slots or a thread that took one and comes for it, and each
\* slot is free, filled, about to be filled or about to be given back.  So no
\* put overwrites a path, and no get finds the ring empty.
Filling == main.pc \in {"spawn", "walk", "put", "store", "post"}
SlotsExact == Filling =>
    /\ used_slots + Cardinality(At("take")) + One(main.pc = "post") = Length
    /\ unused_slots + Cardinality(At("give")) + One(main.pc = "store") + Length
         = MaxQueuedFiles

\* From then on there are permits enough: every stored path has one, and every
\* thread that is still running has one more, once all are released.
Ended == {t \in Thread : thread[t].pc = "done" \/ (thread[t].pc = "give" /\ thread[t].file = NoFile)}
PermitsSuffice == main.pc \in {"finish", "join"} =>
    used_slots + Cardinality(At("take")) + Cardinality(Ended) >= Length + main.released

\* A scanning thread ends before the deadline only when the walk is over and
\* every path has been taken.
NoEarlyEnd == \A t \in Ended :
    expired \/ (main.pc \notin {"init", "spawn", "walk", "put", "store", "post"} /\ Empty)

\* Nobody uses the queue after file_queue_destroy.
QueueOutlives == "queue" \notin live => \A t \in Thread : thread[t].pc \in {"none", "done"}

\* The run implements YaraFileScan: no path is lost, doubled or overwritten in
\* the ring, whatever the threads do.
Admitted == {thread[t].file : t \in At("begin")}
Scan == INSTANCE YaraFileScan WITH late <- expired, admitted <- Admitted
ImplementsFileScan == Scan!Spec

\* Nobody waits for ever: main returns, also when all threads have given up at
\* the deadline while it waits for a slot.
Returns == <>(main.pc = "over")

\* The modules, the rules and the library outlive the scans ("Wait for scan
\* threads to finish" in _tmain), however threads and main fail or run late.  Not
\* if a scan list meets the deadline: then exit_with_code (line 246) destroys them
\* without waiting for anybody.
RulesOutlive == ~ (scan_list /\ expired) =>
    \A t \in Thread : thread[t].pc \in {"begin", "scan"} => Needed \subseteq live

\* A scanning thread ends neither too early, with paths left to scan, nor too late,
\* when the queue, the modules or the rules it uses are gone.
EndsInTime == NoEarlyEnd /\ QueueOutlives /\ RulesOutlive
=============================================================================
