----------------------------- MODULE FuseForget -----------------------------
(***************************************************************************)
(* FUSE_FORGET messages: the singly linked list behind fuse_queue_forget   *)
(* and dequeue_forget, and how fuse_dev_do_read shares its turns between   *)
(* forgets and pending requests (of which only the number counts here).    *)
(* Each action is one critical section of fc->lock.  What follows it in    *)
(* the code works on links that are off the list already.                  *)
(***************************************************************************)
EXTENDS Integers, Sequences, FiniteSets

CONSTANTS
    Link,           \* the fuse_forget_links
    ListHead,           \* fc->forget_list_head
    Null,
    MaxPending      \* bound: so many requests pending at once

ASSUME LinkAssumption == /\ IsFiniteSet(Link) /\ ListHead # Null
                         /\ ListHead \notin Link /\ Null \notin Link
ASSUME PendingAssumption == MaxPending \in Nat

VARIABLES
    next,           \* the next pointers of the links and of the list head
    tail,           \* fc->forget_list_tail
    live,           \* links that are allocated
    forget_batch,   \* fc->forget_batch
    pending,        \* length of fc->pending
    minor16,        \* fc->minor >= 16: the daemon understands batches
    connected,
    drained,        \* fuse_abort_conn has emptied the list
    got,            \* history: the links the last read passed to the daemon
    streak          \* history: reads in a row that served the one kind while
                    \* the other was waiting too

list == <<next, tail, live>>
vars == <<list, forget_batch, pending, minor16, connected, drained, got, streak>>

NoStreak == [kind |-> "none", n |-> 0]

Init ==
    /\ next = [l \in Link \union {ListHead} |-> Null]
    /\ tail = ListHead
    /\ live = {}
    /\ forget_batch = 0 /\ pending = 0
    /\ minor16 \in BOOLEAN
    /\ connected = TRUE /\ drained = FALSE
    /\ got = <<>> /\ streak = NoStreak

-----------------------------------------------------------------------------
(* The list.                                                               *)

forget_pending == next[ListHead] # Null

\* The i-th element of the list, the head being the 0-th.
Nth[i \in 0 .. Cardinality(Link)] ==
    IF i = 0 THEN ListHead
    ELSE IF Nth[i - 1] = Null THEN Null ELSE next[Nth[i - 1]]

Length == Cardinality({i \in 1 .. Cardinality(Link) : Nth[i] # Null})
List   == [i \in 1 .. Length |-> Nth[i]]

\* fuse_queue_forget, with a link the caller has just allocated.  The code does
\* not ask whether the connection is still up.
\* (Mutant: the new link goes to the front.)
QueueInFront(l) ==
    /\ l \notin live
    /\ next' = [next EXCEPT ![ListHead] = l, ![l] = next[ListHead]]
    /\ tail' = IF tail = ListHead THEN l ELSE tail
    /\ live' = live \union {l}
    /\ UNCHANGED <<forget_batch, pending, minor16, connected, drained, got, streak>>
fuse_queue_forget(l) ==
    /\ l \notin live
    /\ next' = [next EXCEPT ![tail] = l, ![l] = Null]
    /\ tail' = l
    /\ live' = live \union {l}
    /\ UNCHANGED <<forget_batch, pending, minor16, connected, drained, got, streak>>

Count(max) == IF max < Length THEN max ELSE Length

\* dequeue_forget: cut off the first max links; they are freed.  (With max = 0
\* nothing changes: the code then cuts its local variable.)
\* (Mutant: the tail pointer of an emptied list stays where it was.)
TailStays(max) ==
    LET last == Nth[Count(max)] IN
        /\ next' = [next EXCEPT ![last] = Null, ![ListHead] = next[last]]
        /\ UNCHANGED tail
        /\ live' = live \ {Nth[i] : i \in 1 .. Count(max)}
dequeue_forget(max) ==
    LET last == Nth[Count(max)] IN
        /\ next' = [next EXCEPT ![last] = Null, ![ListHead] = next[last]]
        /\ tail' = IF next'[ListHead] = Null THEN ListHead ELSE tail
        /\ live' = live \ {Nth[i] : i \in 1 .. Count(max)}

\* room is how many forgets the daemon's buffer holds, -1 when it is too small
\* for the header.  A failing copy loses all that was taken.

\* A single forget is off the list and freed before its size is looked at.
fuse_read_single_forget(room) ==
    /\ dequeue_forget(1)
    /\ got' \in IF room > 0 THEN {<<>>, <<next[ListHead]>>} ELSE {<<>>}

\* A batch is not.
fuse_read_batch_forget(room) ==
    \/ /\ room < 0
       /\ got' = <<>>
       /\ UNCHANGED list
    \/ /\ room >= 0
       /\ dequeue_forget(room)
       /\ got' \in {<<>>, SubSeq(List, 1, Count(room))}

Single == ~ minor16 \/ next[next[ListHead]] = Null

fuse_read_forget(room) == \/ Single /\ fuse_read_single_forget(room)
                          \/ ~ Single /\ fuse_read_batch_forget(room)

-----------------------------------------------------------------------------
(* Taking turns.                                                           *)

\* queue_request, wherever it comes from.
QueueRequest ==
    /\ connected /\ pending < MaxPending
    /\ pending' = pending + 1
    /\ UNCHANGED <<list, forget_batch, minor16, connected, drained, got, streak>>

\* (A bound: a longer streak counts as one of 17.)
More(n) == IF n < 17 THEN n + 1 ELSE n
Longer(kind, other) ==
    streak' = IF ~ other THEN NoStreak
              ELSE [kind |-> kind, n |-> IF streak.kind = kind THEN More(streak.n) ELSE 1]

\* fuse_dev_do_read when there is no interrupt to read: the turn of a forget.
ForgetTurn == pending = 0 \/ forget_batch > 0

\* (Mutant: the turn of a forget is not counted.)
NotCounted(b)  == b
AfterForget(b) == b - 1

ReadForget(room) ==
    /\ connected /\ forget_pending /\ ForgetTurn
    /\ fuse_read_forget(room)
    /\ forget_batch' = IF pending = 0 THEN forget_batch ELSE AfterForget(forget_batch)
    /\ Longer("forget", pending > 0)
    /\ UNCHANGED <<pending, minor16, connected, drained>>

\* ... the turn of a request.  The counter goes down from 0 to -8, then a new
\* round begins.
\* (Mutant: no new round begins.)
NeverReset(b) == b - 1
AfterRequest(b) == IF b - 1 <= -8 THEN 16 ELSE b - 1

ReadRequest ==
    /\ connected /\ pending > 0
    /\ forget_pending => ~ ForgetTurn
    /\ pending' = pending - 1
    /\ forget_batch' = IF forget_pending THEN AfterRequest(forget_batch) ELSE forget_batch
    /\ Longer("request", forget_pending)
    /\ UNCHANGED <<list, minor16, connected, drained, got>>

\* A caller takes its pending request back (request_wait_answer).
Killed ==
    /\ pending > 0
    /\ pending' = pending - 1
    /\ streak' = IF pending = 1 THEN NoStreak ELSE streak
    /\ UNCHANGED <<list, forget_batch, minor16, connected, drained, got>>

\* fuse_abort_conn; end_queued_requests ends the requests and lets go of the
\* lock in between, then frees the forgets under the lock.
AbortConn ==
    /\ connected /\ connected' = FALSE
    /\ UNCHANGED <<list, forget_batch, pending, minor16, drained, got, streak>>

AbortForgets ==
    /\ ~ connected /\ ~ drained
    /\ drained' = TRUE /\ pending' = 0
    /\ dequeue_forget(Cardinality(Link))
    /\ got' = <<>> /\ streak' = NoStreak
    /\ UNCHANGED <<forget_batch, minor16, connected>>

Room == -1 .. Cardinality(Link)

Next ==
    \/ \E l \in Link : fuse_queue_forget(l)
    \/ \E room \in Room : ReadForget(room)
    \/ QueueRequest \/ ReadRequest \/ Killed \/ AbortConn \/ AbortForgets

\* The daemon keeps reading, and if forgets get their turn again and again its
\* buffer holds one at last.
Fairness == /\ WF_vars(ReadRequest \/ \E room \in Room : ReadForget(room))
            /\ SF_vars(\E room \in Room \ {-1, 0} : ReadForget(room))

Spec == Init /\ [][Next]_vars /\ Fairness

-----------------------------------------------------------------------------
(* What must hold.                                                         *)

TypeOK ==
    /\ next \in [Link \union {ListHead} -> Link \union {Null}]
    /\ tail \in Link \union {ListHead}
    /\ live \subseteq Link
    /\ forget_batch \in -7 .. 16
    /\ pending \in 0 .. MaxPending
    /\ minor16 \in BOOLEAN /\ connected \in BOOLEAN /\ drained \in BOOLEAN
    /\ got \in Seq(Link)
    /\ streak \in [kind : {"none", "forget", "request"}, n : 0 .. 17]

\* The links on the list are exactly those that are allocated (none is lost,
\* none is freed while it can be reached), each once, and the tail pointer is
\* at the last one, at the head of an empty list.
ListSound ==
    /\ live = {Nth[i] : i \in 1 .. Length}
    /\ Cardinality(live) = Length
    /\ tail = Nth[Length] /\ next[tail] = Null
\* The list is sound and so are the counters of the reader beside it, whatever
\* is queued, read in batches or drained by an abort.
ListOK == TypeOK /\ ListSound

\* The linked list implements a FIFO queue.
Queue == INSTANCE FuseForgetQueue WITH queue <- List
ImplementsQueue == Queue!Spec

\* Neither kind keeps the other waiting for long: at most 16 reads in a row go
\* to forgets while a request is pending, at most 8 to requests while a forget
\* is waiting (one round of forget_batch).
TakesTurns == /\ streak.kind = "forget"  => streak.n <= 16
              /\ streak.kind = "request" => streak.n <= 8

\* The counter says where in the round the reader is; TakesTurns follows from it.
RoundOK == /\ streak.kind = "forget"  => /\ forget_batch >= 0
                                         /\ streak.n + forget_batch <= 16
           /\ streak.kind = "request" => streak.n <= IF forget_batch = 16 THEN 8
                                                     ELSE 0 - forget_batch

\* While the daemon reads, each queued forget leaves the list.
ForgetsLeave == \A l \in Link : (connected /\ l \in live) ~> (l \notin live \/ ~ connected)

\* ... and the pending requests come to their turn, whatever is queued meanwhile.
RequestsServed ==
    (connected /\ pending = MaxPending) ~> (pending < MaxPending \/ ~ connected)

\* Neither forgets nor requests starve, however many of the other kind come.
NoneStarves == ForgetsLeave /\ RequestsServed
=============================================================================
