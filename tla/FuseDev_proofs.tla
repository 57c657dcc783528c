--------------------------- MODULE FuseDev_proofs ---------------------------
(***************************************************************************)
(* Theorems about FuseDev, for every set of requests and daemon threads    *)
(* and every limit, with their proofs.                                     *)
(***************************************************************************)
EXTENDS FuseDev, FiniteSetTheorems, SequenceTheorems, TLAPS

-----------------------------------------------------------------------------
(* What the helpers return.                                                *)

\* Unlinking leaves a list of requests.
LEMMA UnlinkType ==
    ASSUME NEW s \in Seq(Req), NEW r
    PROVE  Unlink(s, r) \in Seq(Req)
<1>1. ASSUME NEW i \in DOMAIN s
      PROVE  RemoveAt(s, i) \in Seq(Req)
  <2>1. SubSeq(s, 1, i - 1) \in Seq(Req)
    BY SubSeqProperties
  <2>2. SubSeq(s, i + 1, Len(s)) \in Seq(Req)
    BY SubSeqProperties
  <2>. QED
    BY <2>1, <2>2, ConcatProperties DEF RemoveAt
<1>. QED
  BY <1>1 DEF Unlink

\* Dropping a reference leaves a request record, or a free object.
LEMMA PutType ==
    ASSUME NEW q \in ReqRecord
    PROVE  Put(q) \in ReqRecord /\ PutWaiting(q) \in Nat
  BY DEF Put, PutWaiting, FreeReq, ReqRecord, Errors

\* flush_bg_queue moves requests from the queue to the active ones, up to the
\* limit, and stops only at the limit or at an empty queue.
LEMMA FlushCounts ==
    ASSUME NEW rq, NEW bgq \in Seq(Req), NEW active \in Int, NEW pend, NEW max \in Nat,
           flush_bg_queue(rq, bgq, active, pend, max)
    PROVE  /\ bg_queue' \in Seq(Req) /\ active_background' \in Int
           /\ active_background' + Len(bg_queue') = active + Len(bgq)
           /\ active <= max => active_background' <= max
           /\ active <= max /\ bg_queue' # <<>> => active_background' = max
<1>. DEFINE room == IF max > active THEN max - active ELSE 0
            n    == IF room < Len(bgq) THEN room ELSE Len(bgq)
            left == SubSeq(bgq, n + 1, Len(bgq))
<1>1. Len(bgq) \in Nat /\ room \in Nat
  OBVIOUS
<1>2. n \in Nat /\ n <= Len(bgq) /\ n <= room /\ (n < Len(bgq) => n = room)
  BY <1>1
<1>3. bg_queue' = left /\ active_background' = active + n
  BY DEF flush_bg_queue
<1>4. active <= max => active + n <= max /\ (n < Len(bgq) => active + n = max)
  BY <1>1, <1>2
<1>. HIDE DEF n
<1>5. \A i \in n + 1 .. Len(bgq) : bgq[i] \in Req
  BY <1>2
<1>6. left \in Seq(Req) /\ Len(left) = Len(bgq) - n
  BY <1>1, <1>2, <1>5, SubSeqProperties
<1>. HIDE DEF left
<1>7. bg_queue' # <<>> => Len(bg_queue') > 0
  BY <1>3, <1>6, EmptySeq
<1>. QED
  BY <1>1, <1>2, <1>3, <1>4, <1>6, <1>7

\* ... and it keeps the types.
LEMMA FlushType ==
    ASSUME NEW rq \in [Req -> ReqRecord], NEW bgq \in Seq(Req),
           NEW active \in Int, NEW pend \in Seq(Req),
           NEW max \in Nat, reqctr \in Nat, num_waiting \in Int,
           flush_bg_queue(rq, bgq, active, pend, max)
    PROVE  /\ bg_queue' \in Seq(Req) /\ pending' \in Seq(Req)
           /\ active_background' \in Int /\ reqctr' \in Nat /\ num_waiting' \in Int
           /\ req' \in [Req -> ReqRecord]
<1>. DEFINE room == IF max > active THEN max - active ELSE 0
            n    == IF room < Len(bgq) THEN room ELSE Len(bgq)
            out  == SubSeq(bgq, 1, n)
            Pos(r) == CHOOSE i \in 1 .. n : out[i] = r
<1>1. n \in Nat /\ n <= Len(bgq)
  OBVIOUS
<1>2. pending' = pend \o out /\ reqctr' = reqctr + n
  BY DEF flush_bg_queue
<1>3. req' = [r \in Req |-> IF r \in ToSet(out)
                              THEN Queued(rq[r], reqctr + Pos(r), rq[r].isreply)
                              ELSE rq[r]]
  BY DEF flush_bg_queue
<1>4. num_waiting' = num_waiting + Cardinality({r \in ToSet(out) : ~ rq[r].waiting})
  BY DEF flush_bg_queue
<1>. HIDE DEF n
<1>5. \A i \in 1 .. n : bgq[i] \in Req
  BY <1>1
<1>6. out \in Seq(Req) /\ Len(out) = n
  BY <1>1, <1>5, SubSeqProperties
<1>. HIDE DEF out
<1>7. req' \in [Req -> ReqRecord]
  <2>1. ASSUME NEW r \in Req, r \in ToSet(out)
        PROVE  Queued(rq[r], reqctr + Pos(r), rq[r].isreply) \in ReqRecord
    <3>1. Pos(r) \in 1 .. n
      BY <2>1, <1>6 DEF ToSet
    <3>2. reqctr + Pos(r) \in Nat
      BY <3>1, <1>1
    <3>. HIDE DEF Pos
    <3>. QED
      BY <3>2, ZenonT(60) DEF Queued, ReqRecord
  <2>. HIDE DEF Pos
  <2>. QED
    BY <2>1, <1>3
<1>8. num_waiting' \in Int
  <2>1. {r \in ToSet(out) : ~ rq[r].waiting} \in SUBSET Req
    BY <1>6 DEF ToSet
  <2>2. Cardinality({r \in ToSet(out) : ~ rq[r].waiting}) \in Nat
    BY <2>1, ReqAssumption, FS_Subset, FS_CardinalityType
  <2>. QED
    BY <1>4, <2>2
<1>9. pending' \in Seq(Req)
  BY <1>2, <1>6, ConcatProperties
<1>10. bg_queue' \in Seq(Req) /\ active_background' \in Int
  BY FlushCounts
<1>. QED
  BY <1>1, <1>2, <1>7, <1>8, <1>9, <1>10

-----------------------------------------------------------------------------
(* The background accounting, in the parts request_end keeps.              *)

\* What holds of the counters and bg_queue whenever fc->lock is free.
Balance == /\ num_background = active_background + Len(bg_queue)
           /\ active_background <= max_background
           /\ bg_queue # <<>> => active_background = max_background

\* The variables request_end and flush_bg_queue assign, with their types.
QueuesOK ==
    /\ req \in [Req -> ReqRecord]
    /\ pending \in Seq(Req) /\ bg_queue \in Seq(Req) /\ interrupts \in Seq(Req)
    /\ io \subseteq Req /\ processing \subseteq Req
    /\ reqctr \in Nat
    /\ num_background \in Int /\ active_background \in Int
    /\ max_background \in Nat /\ num_waiting \in Int
    /\ blocked \in BOOLEAN

\* The variables request_end leaves alone.
RestOK ==
    /\ caller \in [Req -> CallerPc]
    /\ asleep \subseteq Req
    /\ thread \in [Daemon -> ThreadRecord]
    /\ \A t \in Daemon : thread[t].r \in Req <=> thread[t].pc \notin {"idle", "getreq"}
    /\ connected \in BOOLEAN /\ no_interrupt \in BOOLEAN
    /\ aborter \in [pc : AbortPc, r : Req \union {NoReq}, end : BOOLEAN]
    /\ aborter.r \in Req <=> aborter.pc \in {"ioWait", "tail"}

LEMMA TypeParts == TypeOK <=> QueuesOK /\ RestOK
  BY DEF TypeOK, QueuesOK, RestOK

\* Some request is ended in this step (and the requests keep their type).
Ends      == \E r, rq : request_end(r, rq)
EndsTyped == \E r \in Req : \E rq \in [Req -> ReqRecord] : request_end(r, rq)

\* request_end keeps the balance, and unblocks the callers of fuse_get_req
\* exactly when the number of background requests falls below the limit.
LEMMA EndCounts ==
    ASSUME QueuesOK, Ends
    PROVE  /\ Balance => Balance'
           /\ (blocked <=> num_background >= max_background)
                => (blocked' <=> num_background' >= max_background')
           /\ ~ blocked => ~ blocked'
           /\ max_background' = max_background
<1>. PICK r, rq : request_end(r, rq)
  BY Zenon DEF Ends
<1>1. max_background' = max_background
  BY DEF request_end
<1>2. CASE rq[r].background
  <2>1. /\ blocked' = StillBlocked
        /\ num_background' = num_background - 1
        /\ \E rq1, pend : flush_bg_queue(rq1, bg_queue, active_background - 1, pend,
                                         max_background)
    BY <1>2, Zenon DEF request_end
  <2>2. \E rq1, pend : \E bgq \in Seq(Req), active \in Int, max \in Nat :
             /\ bgq = bg_queue /\ active = active_background - 1 /\ max = max_background
             /\ flush_bg_queue(rq1, bgq, active, pend, max)
    <3>. PICK rq1, pend : flush_bg_queue(rq1, bg_queue, active_background - 1, pend,
                                         max_background)
      BY <2>1
    <3>. /\ bg_queue \in Seq(Req) /\ max_background \in Nat
         /\ active_background - 1 \in Int
      BY DEF QueuesOK
    <3>. WITNESS rq1, pend
    <3>. WITNESS bg_queue \in Seq(Req), active_background - 1 \in Int,
                 max_background \in Nat
    <3>. QED
      OBVIOUS
  <2>3. PICK rq1, pend : \E bgq \in Seq(Req), active \in Int, max \in Nat :
               /\ bgq = bg_queue /\ active = active_background - 1 /\ max = max_background
               /\ flush_bg_queue(rq1, bgq, active, pend, max)
    BY <2>2
  <2>4. PICK bgq \in Seq(Req), active \in Int, max \in Nat :
               /\ bgq = bg_queue /\ active = active_background - 1 /\ max = max_background
               /\ flush_bg_queue(rq1, bgq, active, pend, max)
    BY <2>3
  <2>5. /\ bg_queue' \in Seq(Req) /\ active_background' \in Int
        /\ active_background' + Len(bg_queue') = active + Len(bgq)
        /\ active <= max => active_background' <= max
        /\ active <= max /\ bg_queue' # <<>> => active_background' = max
    <3>1. flush_bg_queue(rq1, bgq, active, pend, max)
      BY <2>4
    <3>. QED
      BY <3>1, FlushCounts, Zenon
  <2>6. Balance => Balance'
    BY <1>1, <2>1, <2>4, <2>5 DEF QueuesOK, Balance
  <2>7. (blocked <=> num_background >= max_background)
          => (blocked' <=> num_background' >= max_background')
    <3>1. num_background \in Int /\ max_background \in Int
      BY DEF QueuesOK
    <3>2. num_background' = num_background - 1 /\ max_background' = max_background
      BY <1>1, <2>1
    <3>3. num_background >= max_background /\ num_background # max_background
            <=> num_background' >= max_background'
      BY <3>1, <3>2
    <3>. QED
      BY <2>1, <3>3, Zenon DEF StillBlocked
  <2>. QED
    BY <1>1, <2>1, <2>6, <2>7 DEF StillBlocked
<1>3. CASE ~ rq[r].background
  BY <1>1, <1>3 DEF request_end, Balance
<1>. QED
  BY <1>2, <1>3

\* ... and keeps the types.
LEMMA EndType ==
    ASSUME QueuesOK, EndsTyped
    PROVE  QueuesOK'
<1>. PICK r \in Req, rq \in [Req -> ReqRecord] : request_end(r, rq)
  BY Zenon DEF EndsTyped
<1>. DEFINE ended == [rq EXCEPT ![r] = Finished(@)]
            pend  == Unlink(pending, r)
<1>1. ended \in [Req -> ReqRecord]
  <2>1. Finished(rq[r]) \in ReqRecord
    BY ZenonT(60) DEF ReqRecord, Finished
  <2>2. ended = [rq EXCEPT ![r] = Finished(rq[r])]
    OBVIOUS
  <2>. QED
    BY <2>1, <2>2
<1>2. pend \in Seq(Req) /\ Unlink(interrupts, r) \in Seq(Req)
  BY UnlinkType DEF QueuesOK
<1>3. io' = io \ {r} /\ processing' = processing \ {r}
      /\ interrupts' = Unlink(interrupts, r) /\ max_background' = max_background
  BY DEF request_end
<1>4. CASE rq[r].background
  <2>1. /\ blocked' = StillBlocked
        /\ num_background' = num_background - 1
        /\ flush_bg_queue(ended, bg_queue, active_background - 1, pend, max_background)
    BY <1>4 DEF request_end
  <2>. HIDE DEF ended, pend
  <2>2. \E rq1 \in [Req -> ReqRecord], bgq \in Seq(Req), active \in Int,
           pend1 \in Seq(Req), max \in Nat : flush_bg_queue(rq1, bgq, active, pend1, max)
    <3>. /\ bg_queue \in Seq(Req) /\ max_background \in Nat
         /\ active_background - 1 \in Int
      BY DEF QueuesOK
    <3>. ended \in [Req -> ReqRecord] /\ pend \in Seq(Req)
      BY <1>1, <1>2
    <3>. WITNESS ended \in [Req -> ReqRecord], bg_queue \in Seq(Req),
                 active_background - 1 \in Int, pend \in Seq(Req), max_background \in Nat
    <3>. QED
      BY <2>1
  <2>3. /\ bg_queue' \in Seq(Req) /\ pending' \in Seq(Req)
        /\ active_background' \in Int /\ reqctr' \in Nat /\ num_waiting' \in Int
        /\ req' \in [Req -> ReqRecord]
    <3>1. reqctr \in Nat /\ num_waiting \in Int
      BY DEF QueuesOK
    <3>. QED
      BY <2>2, <3>1, FlushType, Zenon
  <2>. QED
    BY <1>2, <1>3, <2>1, <2>3 DEF QueuesOK, StillBlocked
<1>5. CASE ~ rq[r].background
  <2>1. /\ req' = ended /\ pending' = pend
        /\ UNCHANGED <<bg_queue, blocked, num_background, active_background,
                       reqctr, num_waiting>>
    BY <1>5 DEF request_end
  <2>. HIDE DEF ended, pend
  <2>. QED
    BY <1>1, <1>2, <1>3, <2>1 DEF QueuesOK
<1>. QED
  BY <1>4, <1>5

-----------------------------------------------------------------------------
(* Type correctness.                                                       *)

\* What the steps assign to a request is a request again.
LEMMA RecordTypes ==
    ASSUME NEW q \in ReqRecord
    PROVE  /\ fuse_request_init \in ReqRecord
           /\ \A b \in BOOLEAN : /\ [q EXCEPT !.isreply = b] \in ReqRecord
                                 /\ [q EXCEPT !.released = b] \in ReqRecord
                                 /\ [q EXCEPT !.locked = b] \in ReqRecord
                                 /\ [q EXCEPT !.end = b] \in ReqRecord
                                 /\ [q EXCEPT !.waiting = b] \in ReqRecord
                                 /\ [q EXCEPT !.force = b] \in ReqRecord
                                 /\ [q EXCEPT !.interrupted = b] \in ReqRecord
           /\ \A e \in Errors : [q EXCEPT !.error = e] \in ReqRecord
           /\ \A u \in Nat, b \in BOOLEAN : Queued(q, u, b) \in ReqRecord
           /\ \A u \in Nat : [q EXCEPT !.intr_unique = u] \in ReqRecord
           /\ \A x \in {"READING", "SENT", "WRITING"} : [q EXCEPT !.state = x] \in ReqRecord
           /\ \A n \in Int : [q EXCEPT !.count = n] \in ReqRecord
           /\ Background(q) \in ReqRecord /\ get_request(q) \in ReqRecord
           /\ Aborted(q) \in ReqRecord
           /\ NewWaiting(q) \in Nat
<1>1. FreeReq \in ReqRecord
  BY DEF FreeReq, ReqRecord, Errors
<1>2. fuse_request_init \in ReqRecord
  BY <1>1 DEF fuse_request_init, ReqRecord
<1>3. Background(q) \in ReqRecord /\ NewWaiting(q) \in Nat
  <2>1. NewWaiting(q) \in Nat
    BY DEF NewWaiting
  <2>2. Background(q) \in ReqRecord
    BY DEF Background, ReqRecord
  <2>. QED
    BY <2>1, <2>2
<1>4. Aborted(q) \in ReqRecord
  <2>. DEFINE n == IF q.end THEN q.count + 1 ELSE q.count
  <2>1. q.count \in Int
    BY DEF ReqRecord
  <2>2. n \in Int
    BY <2>1
  <2>3. Aborted(q) = [q EXCEPT !.aborted = TRUE, !.error = "ECONNABORTED",
                              !.state = "FINISHED", !.end = FALSE, !.count = n]
    BY DEF Aborted
  <2>. HIDE DEF n
  <2>. QED
    BY <2>2, <2>3, ZenonT(60) DEF ReqRecord, Errors
<1>5. \A u \in Nat, b \in BOOLEAN : Queued(q, u, b) \in ReqRecord
  BY DEF Queued, ReqRecord
<1>6. \A b \in BOOLEAN : /\ [q EXCEPT !.isreply = b] \in ReqRecord
                         /\ [q EXCEPT !.released = b] \in ReqRecord
                         /\ [q EXCEPT !.locked = b] \in ReqRecord
                         /\ [q EXCEPT !.end = b] \in ReqRecord
                         /\ [q EXCEPT !.waiting = b] \in ReqRecord
                         /\ [q EXCEPT !.force = b] \in ReqRecord
                         /\ [q EXCEPT !.interrupted = b] \in ReqRecord
  BY DEF ReqRecord
<1>7. /\ \A e \in Errors : [q EXCEPT !.error = e] \in ReqRecord
      /\ \A u \in Nat : [q EXCEPT !.intr_unique = u] \in ReqRecord
      /\ \A x \in {"READING", "SENT", "WRITING"} : [q EXCEPT !.state = x] \in ReqRecord
      /\ \A n \in Int : [q EXCEPT !.count = n] \in ReqRecord
  BY DEF ReqRecord
<1>8. get_request(q) \in ReqRecord
  <2>1. q.count + 1 \in Int
    BY DEF ReqRecord
  <2>. QED
    BY <2>1, <1>7 DEF get_request
<1>. QED
  BY <1>2, <1>3, <1>4, <1>5, <1>6, <1>7, <1>8

LEMMA InitType == Init => TypeOK
<1>. SUFFICES ASSUME Init PROVE TypeOK
  OBVIOUS
<1>1. FreeReq \in ReqRecord
  BY DEF FreeReq, ReqRecord, Errors
<1>2. /\ req \in [Req -> ReqRecord] /\ caller \in [Req -> CallerPc] /\ asleep \subseteq Req
      /\ pending \in Seq(Req) /\ bg_queue \in Seq(Req) /\ interrupts \in Seq(Req)
      /\ io \subseteq Req /\ processing \subseteq Req
  BY <1>1 DEF Init, CallerPc
<1>3. /\ reqctr \in Nat /\ num_background \in Int /\ active_background \in Int
      /\ max_background \in Nat /\ num_waiting \in Int
  BY MaxAssumption DEF Init
<1>6. blocked \in BOOLEAN /\ connected \in BOOLEAN /\ no_interrupt \in BOOLEAN
  BY Zenon DEF Init
<1>4. /\ thread \in [Daemon -> ThreadRecord]
      /\ \A t \in Daemon : thread[t].r \in Req <=> thread[t].pc \notin {"idle", "getreq"}
  BY ReqAssumption DEF Init, Idle, ThreadRecord, ThreadPc
<1>5. /\ aborter \in [pc : AbortPc, r : Req \union {NoReq}, end : BOOLEAN]
      /\ aborter.r \in Req <=> aborter.pc \in {"ioWait", "tail"}
  BY ReqAssumption DEF Init, AbortPc
<1>. QED
  BY <1>2, <1>3, <1>4, <1>5, <1>6, Zenon DEF TypeOK

\* request_end_unlocked keeps the types of what it assigns.
LEMMA EndUnlockedType ==
    ASSUME TypeOK, NEW r \in Req, NEW end \in BOOLEAN, request_end_unlocked(r, end)
    PROVE  /\ req' \in [Req -> ReqRecord] /\ num_waiting' \in Int
           /\ asleep' \subseteq Req /\ caller' \in [Req -> CallerPc]
<1>. DEFINE q == IF end THEN [req[r] EXCEPT !.released = TRUE] ELSE req[r]
<1>1. q \in ReqRecord
  BY RecordTypes DEF TypeOK
<1>2. Put(q) \in ReqRecord /\ PutWaiting(q) \in Nat
  BY <1>1, PutType
<1>3. /\ asleep' = asleep \ {r} /\ req' = [req EXCEPT ![r] = Put(q)]
      /\ num_waiting' = num_waiting - PutWaiting(q)
      /\ caller' = [caller EXCEPT ![r] = IF q.count = 1 THEN "none" ELSE @]
  BY DEF request_end_unlocked
<1>. HIDE DEF q
<1>. QED
  BY <1>2, <1>3 DEF TypeOK, CallerPc

\* No step of a caller leaves the types.
LEMMA CallerType ==
    ASSUME TypeOK, NEW r \in Req, Caller(r)
    PROVE  TypeOK'
<1>. USE DEF lists, counts, flags
<1>0. req[r] \in ReqRecord
  BY DEF TypeOK
<1>1. CASE GetReq(r)
  BY <1>1 DEF GetReq, TypeOK, CallerPc
<1>2. CASE GetReqDone(r)
  <2>1. PICK force \in BOOLEAN :
          req' = [req EXCEPT ![r] = [fuse_request_init EXCEPT !.waiting = TRUE,
                                                             !.force = force]]
    BY <1>2 DEF GetReqDone
  <2>2. [fuse_request_init EXCEPT !.waiting = TRUE, !.force = force] \in ReqRecord
    BY <1>0, RecordTypes
  <2>. QED
    BY <1>2, <2>1, <2>2 DEF GetReqDone, TypeOK, CallerPc
<1>3. CASE GetReqFail(r)
  BY <1>3 DEF GetReqFail, TypeOK, CallerPc
<1>4. CASE RequestAlloc(r)
  BY <1>0, <1>4, RecordTypes DEF RequestAlloc, TypeOK, CallerPc
<1>14. CASE RequestRefused(r)
  <2>1. \A e \in Errors : [req[r] EXCEPT !.isreply = TRUE, !.error = e] \in ReqRecord
    BY <1>0, RecordTypes
  <2>2. PICK e \in Errors :
          req' = [req EXCEPT ![r] = [req[r] EXCEPT !.isreply = TRUE, !.error = e]]
    BY <1>14 DEF RequestRefused, Errors
  <2>3. /\ caller' = [caller EXCEPT ![r] = "done"]
        /\ UNCHANGED <<asleep, thread, lists, reqctr, counts, num_waiting, flags, aborter>>
    BY <1>14 DEF RequestRefused
  <2>. QED
    BY <2>1, <2>2, <2>3 DEF TypeOK, CallerPc
<1>5. CASE RequestSend(r)
  <2>1. get_request(Queued(req[r], reqctr + 1, TRUE)) \in ReqRecord
    <3>1. reqctr + 1 \in Nat
      BY DEF TypeOK
    <3>2. Queued(req[r], reqctr + 1, TRUE) \in ReqRecord
      BY <1>0, <3>1, RecordTypes
    <3>. QED
      BY <3>2, RecordTypes
  <2>2. NewWaiting(req[r]) \in Nat
    BY <1>0, RecordTypes
  <2>3. FirstWait(r) \in CallerPc
    BY DEF FirstWait, FatalWait, CallerPc
  <2>4. /\ reqctr' = reqctr + 1
        /\ req' = [req EXCEPT ![r] = get_request(Queued(req[r], reqctr + 1, TRUE))]
        /\ num_waiting' = num_waiting + NewWaiting(req[r])
        /\ pending' = Append(pending, r)
        /\ caller' = [caller EXCEPT ![r] = FirstWait(r)]
        /\ UNCHANGED <<asleep, thread, bg_queue, interrupts, io, processing, counts, flags,
                       aborter>>
    BY <1>5 DEF RequestSend
  <2>5. req' \in [Req -> ReqRecord] /\ caller' \in [Req -> CallerPc]
    BY <2>1, <2>3, <2>4 DEF TypeOK
  <2>6. pending' \in Seq(Req) /\ reqctr' \in Nat /\ num_waiting' \in Int
    BY <2>2, <2>4 DEF TypeOK
  <2>. QED
    BY <2>4, <2>5, <2>6 DEF TypeOK
<1>6. CASE RequestSendBackground(r)
  <2>1. PICK end \in BOOLEAN :
          LET q == [req[r] EXCEPT !.isreply = TRUE, !.end = end]
          IN \/ /\ connected
                /\ send_nowait_locked(r, q)
                /\ caller' = [caller EXCEPT ![r] = "async"]
             \/ /\ ~ connected
                /\ request_end(r, [req EXCEPT ![r] = [q EXCEPT !.error = "ENOTCONN"]])
                /\ caller' = [caller EXCEPT ![r] = IF end THEN "ending_cb" ELSE "ending"]
    BY <1>6 DEF RequestSendBackground
  <2>. DEFINE q == [req[r] EXCEPT !.isreply = TRUE, !.end = end]
  <2>2. q \in ReqRecord
    BY <1>0, RecordTypes
  <2>3. UNCHANGED <<asleep, thread, flags, aborter>>
    BY <1>6 DEF RequestSendBackground
  <2>4. CASE connected
    <3>1. /\ num_background' = num_background + 1
          /\ blocked' = (blocked \/ num_background + 1 = max_background)
          /\ flush_bg_queue([req EXCEPT ![r] = Background(q)], Append(bg_queue, r),
                            active_background, pending, max_background)
          /\ caller' = [caller EXCEPT ![r] = "async"]
          /\ UNCHANGED <<interrupts, io, processing, max_background>>
      BY <2>1, <2>4 DEF send_nowait_locked
    <3>. HIDE DEF q
    <3>2. \E rq \in [Req -> ReqRecord], bgq \in Seq(Req), active \in Int,
             pend \in Seq(Req), max \in Nat : flush_bg_queue(rq, bgq, active, pend, max)
      <4>. [req EXCEPT ![r] = Background(q)] \in [Req -> ReqRecord]
        BY <2>2, RecordTypes DEF TypeOK
      <4>. /\ Append(bg_queue, r) \in Seq(Req) /\ active_background \in Int
           /\ pending \in Seq(Req) /\ max_background \in Nat
        BY DEF TypeOK
      <4>. WITNESS [req EXCEPT ![r] = Background(q)] \in [Req -> ReqRecord],
                   Append(bg_queue, r) \in Seq(Req), active_background \in Int,
                   pending \in Seq(Req), max_background \in Nat
      <4>. QED
        BY <3>1
    <3>3. /\ bg_queue' \in Seq(Req) /\ pending' \in Seq(Req)
          /\ active_background' \in Int /\ reqctr' \in Nat /\ num_waiting' \in Int
          /\ req' \in [Req -> ReqRecord]
      <4>1. reqctr \in Nat /\ num_waiting \in Int
        BY DEF TypeOK
      <4>. QED
        BY <3>2, <4>1, FlushType, Zenon
    <3>4. num_background' \in Int /\ caller' \in [Req -> CallerPc]
      BY <3>1 DEF TypeOK, CallerPc
    <3>5. blocked' \in BOOLEAN
      BY <3>1
    <3>. QED
      BY <2>3, <3>1, <3>3, <3>4, <3>5 DEF TypeOK
  <2>5. CASE ~ connected
    <3>1. /\ request_end(r, [req EXCEPT ![r] = [q EXCEPT !.error = "ENOTCONN"]])
          /\ caller' = [caller EXCEPT ![r] = IF end THEN "ending_cb" ELSE "ending"]
      BY <2>1, <2>5
    <3>. HIDE DEF q
    <3>2. EndsTyped
      <4>. [req EXCEPT ![r] = [q EXCEPT !.error = "ENOTCONN"]] \in [Req -> ReqRecord]
        BY <2>2, RecordTypes DEF TypeOK, Errors
      <4>. USE DEF EndsTyped
      <4>. WITNESS r \in Req
      <4>. WITNESS [req EXCEPT ![r] = [q EXCEPT !.error = "ENOTCONN"]]
                     \in [Req -> ReqRecord]
      <4>. QED
        BY <3>1
    <3>3. QueuesOK'
      BY <3>2, TypeParts, EndType
    <3>4. caller' \in [Req -> CallerPc]
      BY <3>1 DEF TypeOK, CallerPc
    <3>. QED
      BY <2>3, <3>3, <3>4 DEF TypeOK, QueuesOK
  <2>. QED
    BY <2>4, <2>5, ZenonT(60)
<1>7. CASE SendEndUnlocked(r)
  <2>1. request_end_unlocked(r, caller[r] = "ending_cb")
    BY <1>7 DEF SendEndUnlocked
  <2>2. \E end \in BOOLEAN : request_end_unlocked(r, end)
    <3>. WITNESS (caller[r] = "ending_cb") \in BOOLEAN
    <3>. QED
      BY <2>1
  <2>3. /\ req' \in [Req -> ReqRecord] /\ num_waiting' \in Int
        /\ asleep' \subseteq Req /\ caller' \in [Req -> CallerPc]
    BY <2>2, EndUnlockedType, Zenon
  <2>. QED
    BY <1>7, <2>3 DEF SendEndUnlocked, TypeOK
<1>8. CASE Sleep(r)
  BY <1>8 DEF Sleep, TypeOK
<1>9. CASE WaitDone(r)
  BY <1>9 DEF WaitDone, TypeOK, CallerPc
<1>10. CASE WaitInterrupted(r)
  <2>1. [req[r] EXCEPT !.interrupted = TRUE] \in ReqRecord
    BY <1>0, RecordTypes
  <2>2. FatalWait(r) \in CallerPc
    BY DEF FatalWait, CallerPc
  <2>3. interrupts' \in Seq(Req)
    BY <1>10 DEF WaitInterrupted, TypeOK
  <2>. QED
    BY <1>10, <2>1, <2>2, <2>3 DEF WaitInterrupted, TypeOK
<1>11. CASE WaitKilled(r)
  <2>1. req[r].count - 1 \in Int
    BY <1>0 DEF ReqRecord
  <2>2. [req[r] EXCEPT !.count = @ - 1, !.error = "EINTR"] \in ReqRecord
    BY <1>0, <2>1, RecordTypes DEF Errors
  <2>3. Unlink(pending, r) \in Seq(Req)
    BY UnlinkType DEF TypeOK
  <2>4. ASSUME NotRead(r)
        PROVE  /\ req' \in [Req -> ReqRecord] /\ caller' \in [Req -> CallerPc]
               /\ pending' \in Seq(Req)
    <3>1. /\ pending' = Unlink(pending, r)
          /\ req' = [req EXCEPT ![r] = [req[r] EXCEPT !.count = @ - 1, !.error = "EINTR"]]
          /\ caller' = [caller EXCEPT ![r] = "done"]
      BY <1>11, <2>4 DEF WaitKilled
    <3>. QED
      BY <2>2, <2>3, <3>1 DEF TypeOK, CallerPc
  <2>5. ASSUME ~ NotRead(r)
        PROVE  /\ req' \in [Req -> ReqRecord] /\ caller' \in [Req -> CallerPc]
               /\ pending' \in Seq(Req)
    <3>1. /\ caller' = [caller EXCEPT ![r] = "answer"]
          /\ UNCHANGED <<pending, req>>
      BY <1>11, <2>5 DEF WaitKilled
    <3>. QED
      BY <3>1 DEF TypeOK, CallerPc
  <2>6. /\ asleep' = asleep \ {r}
        /\ UNCHANGED <<thread, bg_queue, interrupts, io, processing, reqctr, counts,
                       num_waiting, flags, aborter>>
    BY <1>11 DEF WaitKilled
  <2>7. req' \in [Req -> ReqRecord] /\ caller' \in [Req -> CallerPc] /\ pending' \in Seq(Req)
    BY <2>4, <2>5
  <2>. QED
    BY <2>6, <2>7 DEF TypeOK
<1>12. CASE WaitUnlocked(r)
  BY <1>12 DEF WaitUnlocked, TypeOK, CallerPc
<1>13. CASE CallerPut(r)
  BY <1>0, <1>13, PutType DEF CallerPut, TypeOK, CallerPc
<1>. QED
  BY <1>1, <1>2, <1>3, <1>4, <1>5, <1>6, <1>7, <1>8, <1>9, <1>10, <1>11, <1>12, <1>13,
     <1>14 DEF Caller

\* Ending a request in a system call leaves the thread with it.
LEMMA EndingType ==
    ASSUME TypeOK, NEW t \in Daemon, NEW r \in Req, Ending(t, r)
    PROVE  /\ thread' \in [Daemon -> ThreadRecord]
           /\ \A u \in Daemon : thread'[u].r \in Req <=> thread'[u].pc \notin {"idle", "getreq"}
<1>. DEFINE new == [Idle EXCEPT !.pc = "end", !.r = r, !.end = req[r].end]
<1>1. req[r].end \in BOOLEAN
  BY DEF TypeOK, ReqRecord
<1>2. new \in ThreadRecord /\ new.r = r /\ new.pc = "end"
  BY <1>1 DEF Idle, ThreadRecord, ThreadPc
<1>3. thread' = [thread EXCEPT ![t] = new]
  BY DEF Ending
<1>. HIDE DEF new
<1>. QED
  BY <1>2, <1>3 DEF TypeOK

\* A thread record whose request goes with its pc may replace another.
LEMMA ThreadType ==
    ASSUME TypeOK, NEW t \in Daemon, NEW new \in ThreadRecord,
           new.r \in Req <=> new.pc \notin {"idle", "getreq"},
           thread' = [thread EXCEPT ![t] = new]
    PROVE  /\ thread' \in [Daemon -> ThreadRecord]
           /\ \A u \in Daemon : thread'[u].r \in Req <=> thread'[u].pc \notin {"idle", "getreq"}
  BY DEF TypeOK

\* No step of a thread that copies data leaves the types.
LEMMA CopyType ==
    ASSUME TypeOK, NEW t \in Daemon, Copy(t)
    PROVE  TypeOK'
<1>. USE DEF lists, counts, flags
<1>. DEFINE r == thread[t].r
            ThreadOK == /\ thread' \in [Daemon -> ThreadRecord]
                        /\ \A u \in Daemon : thread'[u].r \in Req
                                               <=> thread'[u].pc \notin {"idle", "getreq"}
<1>1. thread[t] \in ThreadRecord /\ (r \in Req <=> thread[t].pc \notin {"idle", "getreq"})
  BY DEF TypeOK
<1>2. thread[t].pc \in {"open", "paging"} \union Between
  BY DEF Copy, LockCopy, CopyFault, UnlockCopy, HandPage, PageHanded, ClearPage, CopyEnd, Between
<1>3. r \in Req /\ req[r] \in ReqRecord
  BY <1>1, <1>2 DEF Between, TypeOK
<1>4. ASSUME NEW pc \in {"locked", "open", "paging", "paged", "clearing", "fin"},
             NEW failed \in BOOLEAN,
             thread' = [thread EXCEPT ![t].pc = pc, ![t].failed = failed]
      PROVE  ThreadOK
  BY <1>1, <1>3, <1>4, ZenonT(60) DEF TypeOK, ThreadRecord, ThreadPc
<1>5. ASSUME NEW pc \in {"locked", "open", "paging", "paged", "clearing"},
             thread' = [thread EXCEPT ![t].pc = pc]
      PROVE  ThreadOK
  BY <1>1, <1>3, <1>5 DEF TypeOK, ThreadRecord, ThreadPc
<1>6. ASSUME NEW b \in BOOLEAN, req' = [req EXCEPT ![r].locked = b]
      PROVE  req' \in [Req -> ReqRecord]
  <2>1. [req[r] EXCEPT !.locked = b] \in ReqRecord
    BY <1>3, RecordTypes
  <2>. QED
    BY <1>6, <2>1 DEF TypeOK
<1>7. UNCHANGED <<caller, lists, reqctr, counts, num_waiting, flags, aborter>>
  BY DEF Copy, LockCopy, CopyFault, UnlockCopy, HandPage, PageHanded, ClearPage, CopyEnd
<1>. HIDE DEF ThreadOK
<1>8. CASE LockCopy(t)
  <2>1. asleep' = asleep
    BY <1>8 DEF LockCopy
  <2>2. ThreadOK
    BY <1>4, <1>5, <1>8 DEF LockCopy
  <2>3. req' \in [Req -> ReqRecord]
    BY <1>6, <1>8 DEF LockCopy, TypeOK
  <2>. QED
    BY <1>7, <2>1, <2>2, <2>3 DEF TypeOK, ThreadOK
<1>9. CASE UnlockCopy(t) \/ HandPage(t)
  <2>1. asleep' \subseteq asleep
    BY <1>9 DEF UnlockCopy, HandPage, unlock_request
  <2>2. ThreadOK
    BY <1>5, <1>9 DEF UnlockCopy, HandPage
  <2>3. req' \in [Req -> ReqRecord]
    BY <1>6, <1>9 DEF UnlockCopy, HandPage, unlock_request, Unlocked
  <2>. QED
    BY <1>7, <2>1, <2>2, <2>3 DEF TypeOK, ThreadOK
<1>10. CASE CopyFault(t) \/ PageHanded(t) \/ ClearPage(t) \/ CopyEnd(t)
  <2>1. UNCHANGED <<req, asleep>>
    BY <1>10 DEF CopyFault, PageHanded, ClearPage, CopyEnd
  <2>2. ASSUME CopyFault(t) PROVE ThreadOK
    BY <1>4, <2>2 DEF CopyFault
  <2>3. ASSUME PageHanded(t) PROVE ThreadOK
    <3>. DEFINE lost == thread[t].op = "write" /\ req[r].aborted
    <3>1. thread' = [thread EXCEPT ![t].pc = IF lost THEN "fin" ELSE "paged",
                                   ![t].failed = lost]
      BY <2>3 DEF PageHanded
    <3>. HIDE DEF lost
    <3>2. CASE lost
      <4>1. thread' = [thread EXCEPT ![t].pc = "fin", ![t].failed = lost] /\ lost \in BOOLEAN
        BY <3>1, <3>2 DEF lost
      <4>. QED
        BY <1>4, <4>1
    <3>3. CASE ~ lost
      <4>1. thread' = [thread EXCEPT ![t].pc = "paged", ![t].failed = lost] /\ lost \in BOOLEAN
        BY <3>1, <3>3 DEF lost
      <4>. QED
        BY <1>4, <4>1
    <3>. QED
      BY <3>2, <3>3
  <2>4. ASSUME ClearPage(t) PROVE ThreadOK
    BY <1>5, <2>4 DEF ClearPage
  <2>5. ASSUME CopyEnd(t) PROVE ThreadOK
    BY <1>4, <2>5 DEF CopyEnd
  <2>. QED
    BY <1>7, <1>10, <2>1, <2>2, <2>3, <2>4, <2>5 DEF TypeOK, ThreadOK
<1>. QED
  BY <1>8, <1>9, <1>10 DEF Copy

\* No other step of a daemon's thread leaves the types.
LEMMA DaemonType ==
    ASSUME TypeOK, NEW t \in Daemon, DaemonThread(t)
    PROVE  TypeOK'
<1>. USE DEF lists, counts, flags
<1>. DEFINE r == thread[t].r
            ThreadOK == /\ thread' \in [Daemon -> ThreadRecord]
                        /\ \A u \in Daemon : thread'[u].r \in Req
                                               <=> thread'[u].pc \notin {"idle", "getreq"}
<1>1. thread[t] \in ThreadRecord /\ (r \in Req <=> thread[t].pc \notin {"idle", "getreq"})
  BY DEF TypeOK
<1>2. \A s \in Req : req[s] \in ReqRecord
  BY DEF TypeOK
<1>3. ASSUME NEW s \in Req, NEW pc \in {"open", "locked"}, NEW op \in {"read", "write"},
             thread' = [thread EXCEPT ![t] = [Idle EXCEPT !.pc = pc, !.op = op, !.r = s]]
      PROVE  ThreadOK
  <2>. DEFINE new == [Idle EXCEPT !.pc = pc, !.op = op, !.r = s]
  <2>1. new \in ThreadRecord /\ new.r \in Req /\ new.pc \notin {"idle", "getreq"}
    BY ReqAssumption DEF Idle, ThreadRecord, ThreadPc
  <2>2. thread' = [thread EXCEPT ![t] = new]
    BY <1>3
  <2>. HIDE DEF new
  <2>. QED
    BY <2>1, <2>2, ThreadType
<1>4. ASSUME thread' = [thread EXCEPT ![t] = Idle]
      PROVE  ThreadOK
  <2>1. Idle \in ThreadRecord /\ Idle.r \notin Req /\ Idle.pc = "idle"
    BY ReqAssumption DEF Idle, ThreadRecord, ThreadPc
  <2>. QED
    BY <1>4, <2>1, ThreadType
<1>5. ASSUME NEW s \in Req, Ending(t, s)
      PROVE  ThreadOK
  BY <1>5, EndingType
<1>6. CASE ReadInterrupt(t)
  <2>1. /\ interrupts # <<>> /\ interrupts' = Tail(interrupts)
        /\ reqctr' = reqctr + 1
        /\ req' = [req EXCEPT ![Head(interrupts)] =
                                 [req[Head(interrupts)] EXCEPT !.intr_unique = reqctr + 1]]
        /\ UNCHANGED <<caller, asleep, thread, pending, bg_queue, io, processing, counts,
                       num_waiting, flags, aborter>>
    BY <1>6 DEF ReadInterrupt
  <2>2. interrupts' \in Seq(Req) /\ Head(interrupts) \in Req
    BY <2>1 DEF TypeOK
  <2>3. reqctr' \in Nat
    BY <2>1 DEF TypeOK
  <2>4. [req[Head(interrupts)] EXCEPT !.intr_unique = reqctr + 1] \in ReqRecord
    BY <1>2, <2>1, <2>2, <2>3, RecordTypes
  <2>5. req' \in [Req -> ReqRecord]
    BY <2>1, <2>4 DEF TypeOK
  <2>. QED
    BY <2>1, <2>2, <2>3, <2>5 DEF TypeOK
<1>7. CASE ReadRequest(t)
  <2>1. /\ pending # <<>> /\ pending' = Tail(pending)
        /\ io' = io \union {Head(pending)}
        /\ req' = [req EXCEPT ![Head(pending)] = [req[Head(pending)] EXCEPT !.state = "READING"]]
        /\ thread' = [thread EXCEPT ![t] = [Idle EXCEPT !.pc = "open", !.op = "read",
                                                        !.r = Head(pending)]]
        /\ UNCHANGED <<caller, asleep, bg_queue, interrupts, processing, reqctr, counts,
                       num_waiting, flags, aborter>>
    BY <1>7 DEF ReadRequest
  <2>2. pending' \in Seq(Req) /\ Head(pending) \in Req
    BY <2>1 DEF TypeOK
  <2>3. [req[Head(pending)] EXCEPT !.state = "READING"] \in ReqRecord
    BY <1>2, <2>2, RecordTypes
  <2>4. req' \in [Req -> ReqRecord]
    BY <2>1, <2>3 DEF TypeOK
  <2>5. io' \subseteq Req
    BY <2>1, <2>2 DEF TypeOK
  <2>6. ThreadOK
    BY <1>3, <2>1, <2>2
  <2>. QED
    BY <2>1, <2>2, <2>4, <2>5, <2>6 DEF TypeOK
<1>8. CASE ReadTooBig(t)
  <2>1. /\ pending # <<>> /\ Ending(t, Head(pending))
        /\ request_end(Head(pending), [req EXCEPT ![Head(pending)] =
                                          [req[Head(pending)] EXCEPT !.error = "EIO"]])
        /\ UNCHANGED <<caller, asleep, flags, aborter>>
    BY <1>8 DEF ReadTooBig
  <2>2. Head(pending) \in Req
    BY <2>1 DEF TypeOK
  <2>3. [req[Head(pending)] EXCEPT !.error = "EIO"] \in ReqRecord
    BY <1>2, <2>2, RecordTypes DEF Errors
  <2>4. EndsTyped
    <3>. [req EXCEPT ![Head(pending)] = [req[Head(pending)] EXCEPT !.error = "EIO"]]
           \in [Req -> ReqRecord]
      BY <2>3 DEF TypeOK
    <3>. Head(pending) \in Req
      BY <2>2
    <3>. USE DEF EndsTyped
    <3>. WITNESS Head(pending) \in Req
    <3>. WITNESS [req EXCEPT ![Head(pending)] = [req[Head(pending)] EXCEPT !.error = "EIO"]]
                   \in [Req -> ReqRecord]
    <3>. QED
      BY <2>1
  <2>5. QueuesOK'
    BY <2>4, TypeParts, EndType
  <2>6. ThreadOK
    BY <1>5, <2>1, <2>2
  <2>. QED
    BY <2>1, <2>5, <2>6 DEF TypeOK, QueuesOK
<1>9. CASE thread[t].pc = "fin" /\ (ReadEnd(t) \/ WriteEnd(t))
  <2>1. r \in Req
    BY <1>1, <1>9
  <2>2. /\ [req[r] EXCEPT !.locked = FALSE] \in ReqRecord
        /\ [[req[r] EXCEPT !.locked = FALSE] EXCEPT !.error = "EIO"] \in ReqRecord
        /\ [[req[r] EXCEPT !.locked = FALSE] EXCEPT !.state = "SENT"] \in ReqRecord
    BY <1>2, <2>1, RecordTypes DEF Errors
  <2>3. /\ Unlocked(r) \in [Req -> ReqRecord]
        /\ [Unlocked(r) EXCEPT ![r].error = "EIO"] \in [Req -> ReqRecord]
        /\ [Unlocked(r) EXCEPT ![r].state = "SENT"] \in [Req -> ReqRecord]
    <3>. DEFINE q == [req[r] EXCEPT !.locked = FALSE]
    <3>1. Unlocked(r) = [req EXCEPT ![r] = q]
      BY <2>1 DEF Unlocked
    <3>0. q \in ReqRecord
      BY <2>2
    <3>. HIDE DEF q
    <3>2. Unlocked(r) \in [Req -> ReqRecord] /\ Unlocked(r)[r] = q
      BY <2>1, <3>0, <3>1 DEF TypeOK
    <3>. USE DEF q
    <3>3. [Unlocked(r) EXCEPT ![r].error = "EIO"] \in [Req -> ReqRecord]
      BY <2>1, <2>2, <3>2
    <3>4. [Unlocked(r) EXCEPT ![r].state = "SENT"] \in [Req -> ReqRecord]
      BY <2>1, <2>2, <3>2
    <3>. QED
      BY <3>2, <3>3, <3>4
  <2>. DEFINE rq == IF thread[t].failed /\ ~ req[r].aborted
                      THEN [Unlocked(r) EXCEPT ![r].error = "EIO"] ELSE Unlocked(r)
  <2>4. rq \in [Req -> ReqRecord]
    BY <2>3
  <2>5. ASSUME request_end(r, rq), Ending(t, r), UNCHANGED <<caller, asleep, flags, aborter>>
        PROVE  TypeOK'
    <3>. HIDE DEF rq
    <3>1. EndsTyped
      <4>. r \in Req /\ rq \in [Req -> ReqRecord]
        BY <2>1, <2>4
      <4>. USE DEF EndsTyped
      <4>. WITNESS r \in Req
      <4>. WITNESS rq \in [Req -> ReqRecord]
      <4>. QED
        BY <2>5
    <3>2. QueuesOK'
      BY <3>1, TypeParts, EndType
    <3>3. ThreadOK
      BY <1>5, <2>1, <2>5
    <3>. QED
      BY <2>5, <3>2, <3>3 DEF TypeOK, QueuesOK
  <2>6. CASE WriteEnd(t)
    BY <2>5, <2>6 DEF WriteEnd
  <2>7. CASE ReadEnd(t)
    <3>1. CASE request_end(r, rq) /\ Ending(t, r)
      BY <2>5, <2>7, <3>1 DEF ReadEnd
    <3>2. CASE /\ req' = [Unlocked(r) EXCEPT ![r].state = "SENT"]
               /\ io' = io \ {r} /\ processing' = processing \union {r}
               /\ interrupts' = AfterRead(r)
               /\ thread' = [thread EXCEPT ![t] = Idle]
               /\ UNCHANGED <<pending, bg_queue, reqctr, counts, num_waiting>>
      <4>1. interrupts' \in Seq(Req)
        BY <2>1, <3>2 DEF AfterRead, TypeOK
      <4>2. ThreadOK
        BY <1>4, <3>2
      <4>3. UNCHANGED <<caller, asleep, flags, aborter>>
        BY <2>7 DEF ReadEnd
      <4>. QED
        BY <2>1, <2>3, <3>2, <4>1, <4>2, <4>3 DEF TypeOK
    <3>. QED
      BY <2>7, <3>1, <3>2 DEF ReadEnd
  <2>. QED
    BY <1>9, <2>6, <2>7
<1>10. ASSUME NEW s \in Req, WriteReply(t, s)
       PROVE  TypeOK'
  <2>1. [req[s] EXCEPT !.state = "WRITING", !.locked = TRUE, !.error = "answer"] \in ReqRecord
    BY <1>2, RecordTypes DEF Errors
  <2>2. /\ req' = [req EXCEPT ![s] = [req[s] EXCEPT !.state = "WRITING", !.locked = TRUE,
                                                    !.error = "answer"]]
        /\ processing' = processing \ {s} /\ io' = io \union {s}
        /\ thread' = [thread EXCEPT ![t] = [Idle EXCEPT !.pc = "locked", !.op = "write",
                                                        !.r = s]]
        /\ UNCHANGED <<caller, asleep, pending, bg_queue, interrupts, reqctr, counts,
                       num_waiting, flags, aborter>>
    BY <1>10 DEF WriteReply
  <2>3. ThreadOK
    BY <1>3, <2>2
  <2>. QED
    BY <2>1, <2>2, <2>3 DEF TypeOK
<1>11. ASSUME NEW s \in Req, WriteInterruptReply(t, s)
       PROVE  TypeOK'
  <2>1. UNCHANGED <<req, caller, asleep, thread, pending, bg_queue, io, processing,
                   reqctr, counts, num_waiting, connected, aborter>>
    BY <1>11 DEF WriteInterruptReply
  <2>2. interrupts' = interrupts \/ interrupts' = Append(interrupts, s)
    BY <1>11 DEF WriteInterruptReply
  <2>3. interrupts' \in Seq(Req)
    <3>1. interrupts \in Seq(Req) /\ Append(interrupts, s) \in Seq(Req)
      BY DEF TypeOK
    <3>. QED
      BY <2>2, <3>1
  <2>4. no_interrupt' = no_interrupt \/ no_interrupt' = TRUE
    BY <1>11, Zenon DEF WriteInterruptReply
  <2>5. no_interrupt' \in BOOLEAN
    BY <2>4, Zenon DEF TypeOK
  <2>. QED
    BY <2>1, <2>3, <2>5 DEF TypeOK
<1>12. CASE EndUnlocked(t)
  <2>1. /\ thread[t].pc = "end" /\ request_end_unlocked(r, thread[t].end)
        /\ thread' = [thread EXCEPT ![t] = Idle]
        /\ UNCHANGED <<lists, reqctr, counts, flags, aborter>>
    BY <1>12 DEF EndUnlocked
  <2>2. \E s \in Req, end \in BOOLEAN : request_end_unlocked(s, end)
    <3>. r \in Req /\ thread[t].end \in BOOLEAN
      BY <1>1, <2>1 DEF ThreadRecord
    <3>. WITNESS r \in Req, thread[t].end \in BOOLEAN
    <3>. QED
      BY <2>1
  <2>3. /\ req' \in [Req -> ReqRecord] /\ num_waiting' \in Int
        /\ asleep' \subseteq Req /\ caller' \in [Req -> CallerPc]
    BY <2>2, EndUnlockedType, Zenon
  <2>4. ThreadOK
    BY <1>4, <2>1
  <2>. QED
    BY <2>1, <2>3, <2>4 DEF TypeOK
<1>13. CASE Retrieve(t)
  <2>1. LET new == [Idle EXCEPT !.pc = "getreq"]
        IN  new \in ThreadRecord /\ new.r \notin Req /\ new.pc = "getreq"
    BY ReqAssumption DEF Idle, ThreadRecord, ThreadPc
  <2>2. ThreadOK
    BY <1>13, <2>1, ThreadType DEF Retrieve
  <2>. QED
    BY <1>13, <2>2 DEF Retrieve, TypeOK
<1>14. ASSUME NEW s \in Req, RetrieveGet(t, s)
       PROVE  TypeOK'
  <2>1. [fuse_request_init EXCEPT !.waiting = TRUE, !.end = TRUE] \in ReqRecord
    BY <1>2, RecordTypes
  <2>2. LET new == [thread[t] EXCEPT !.pc = "notify", !.r = s]
        IN  new \in ThreadRecord /\ new.r \in Req /\ new.pc = "notify"
    BY <1>1 DEF ThreadRecord, ThreadPc
  <2>3. thread' = [thread EXCEPT ![t] = [thread[t] EXCEPT !.pc = "notify", !.r = s]]
    BY <1>14 DEF RetrieveGet
  <2>4. ThreadOK
    BY <2>2, <2>3, ThreadType
  <2>. QED
    BY <1>14, <2>1, <2>4 DEF RetrieveGet, TypeOK, CallerPc
<1>15. CASE RetrieveFail(t)
  <2>1. ThreadOK
    BY <1>4, <1>15 DEF RetrieveFail
  <2>. QED
    BY <1>15, <2>1 DEF RetrieveFail, TypeOK
<1>16. CASE RetrieveSend(t)
  <2>1. r \in Req
    BY <1>1, <1>16 DEF RetrieveSend
  <2>2. /\ Queued(req[r], 0, FALSE) \in ReqRecord
        /\ [req[r] EXCEPT !.isreply = FALSE, !.released = TRUE] \in ReqRecord
    BY <1>2, <2>1, RecordTypes
  <2>3. /\ thread' = [thread EXCEPT ![t] = Idle]
        /\ UNCHANGED <<asleep, bg_queue, interrupts, io, processing, reqctr, counts,
                       num_waiting, flags, aborter>>
    BY <1>16 DEF RetrieveSend
  <2>4. ThreadOK
    BY <1>4, <2>3
  <2>5. /\ \/ /\ req' = [req EXCEPT ![r] = Queued(req[r], 0, FALSE)]
              /\ pending' = Append(pending, r)
              /\ caller' = [caller EXCEPT ![r] = "async"]
           \/ /\ req' = [req EXCEPT ![r] = [req[r] EXCEPT !.isreply = FALSE,
                                                          !.released = TRUE]]
              /\ caller' = [caller EXCEPT ![r] = "leaked"]
              /\ UNCHANGED pending
    BY <1>16 DEF RetrieveSend
  <2>6. req' \in [Req -> ReqRecord]
    <3>1. CASE req' = [req EXCEPT ![r] = Queued(req[r], 0, FALSE)]
      BY <2>1, <2>2, <3>1 DEF TypeOK
    <3>2. CASE req' = [req EXCEPT ![r] = [req[r] EXCEPT !.isreply = FALSE, !.released = TRUE]]
      BY <2>1, <2>2, <3>2 DEF TypeOK
    <3>. QED
      BY <2>5, <3>1, <3>2
  <2>7. pending' \in Seq(Req) /\ caller' \in [Req -> CallerPc]
    <3>0. pending \in Seq(Req) /\ Append(pending, r) \in Seq(Req)
      BY <2>1 DEF TypeOK
    <3>1. pending' = pending \/ pending' = Append(pending, r)
      BY <2>5
    <3>2. caller' = [caller EXCEPT ![r] = "async"] \/ caller' = [caller EXCEPT ![r] = "leaked"]
      BY <2>5
    <3>3. caller' \in [Req -> CallerPc]
      BY <2>1, <3>2 DEF TypeOK, CallerPc
    <3>. QED
      BY <3>0, <3>1, <3>3
  <2>. QED
    BY <2>3, <2>4, <2>6, <2>7 DEF TypeOK
<1>17. ReadEnd(t) \/ WriteEnd(t) => thread[t].pc = "fin"
  BY DEF ReadEnd, WriteEnd
<1>. QED
  BY <1>6, <1>7, <1>8, <1>9, <1>10, <1>11, <1>12, <1>13, <1>14, <1>15, <1>16, <1>17, CopyType
     DEF DaemonThread

\* The connection is down from the first step of fuse_abort_conn.
Down == connected <=> aborter.pc = "no"

\* No step of fuse_abort_conn leaves the types.
LEMMA AbortType ==
    ASSUME TypeOK, Down, Abort
    PROVE  TypeOK'
<1>. USE DEF lists, counts, flags
<1>. DEFINE AborterOK == /\ aborter' \in [pc : AbortPc, r : Req \union {NoReq}, end : BOOLEAN]
                         /\ aborter'.r \in Req <=> aborter'.pc \in {"ioWait", "tail"}
<1>1. /\ aborter \in [pc : AbortPc, r : Req \union {NoReq}, end : BOOLEAN]
      /\ aborter.r \in Req <=> aborter.pc \in {"ioWait", "tail"}
  BY DEF TypeOK
<1>2. \A s \in Req : req[s] \in ReqRecord
  BY DEF TypeOK
<1>3. \A pc \in {"io", "queued", "done"} :
         aborter.pc \in {"no", "io", "queued"} /\ aborter' = [aborter EXCEPT !.pc = pc]
           => AborterOK
  BY <1>1 DEF AbortPc
<1>4. CASE AbortConn
  <2>1. aborter.pc = "no"
    BY <1>4 DEF AbortConn, Down
  <2>2. AborterOK
    BY <1>3, <1>4, <2>1 DEF AbortConn
  <2>. QED
    BY <1>4, <2>2 DEF AbortConn, TypeOK
<1>5. ASSUME NEW r \in Req, AbortIo(r)
      PROVE  TypeOK'
  <2>1. Aborted(req[r]) \in ReqRecord
    BY <1>2, RecordTypes
  <2>2. /\ io' = io \ {r} /\ asleep' = asleep \ {r}
        /\ req' = [req EXCEPT ![r] = Aborted(req[r])]
        /\ aborter' = [pc |-> "ioWait", r |-> r, end |-> TRUE] \/ aborter' = aborter
        /\ UNCHANGED <<caller, thread, pending, bg_queue, interrupts, processing, reqctr,
                       counts, num_waiting, flags>>
    BY <1>5 DEF AbortIo
  <2>3. AborterOK
    <3>1. CASE aborter' = [pc |-> "ioWait", r |-> r, end |-> TRUE]
      BY <3>1 DEF AbortPc
    <3>2. CASE aborter' = aborter
      BY <1>1, <3>2
    <3>. QED
      BY <2>2, <3>1, <3>2
  <2>. QED
    BY <2>1, <2>2, <2>3 DEF TypeOK
<1>6. CASE AbortIoEnd
  <2>1. /\ aborter.pc = "ioWait" /\ request_end_unlocked(aborter.r, TRUE)
        /\ aborter' = [pc |-> "io", r |-> NoReq, end |-> FALSE]
        /\ UNCHANGED <<thread, lists, reqctr, counts, flags>>
    BY <1>6 DEF AbortIoEnd
  <2>2. \E s \in Req, end \in BOOLEAN : request_end_unlocked(s, end)
    <3>. aborter.r \in Req /\ TRUE \in BOOLEAN
      BY <1>1, <2>1
    <3>. WITNESS aborter.r \in Req, TRUE \in BOOLEAN
    <3>. QED
      BY <2>1
  <2>3. /\ req' \in [Req -> ReqRecord] /\ num_waiting' \in Int
        /\ asleep' \subseteq Req /\ caller' \in [Req -> CallerPc]
    BY <2>2, EndUnlockedType, Zenon
  <2>4. AborterOK
    BY <2>1, ReqAssumption DEF AbortPc
  <2>. QED
    BY <2>1, <2>3, <2>4 DEF TypeOK
<1>7. CASE AbortFlush
  <2>1. /\ aborter.pc = "io" /\ max_background' = UintMax
        /\ flush_bg_queue(req, bg_queue, active_background, pending, UintMax)
        /\ aborter' = [aborter EXCEPT !.pc = "queued"]
        /\ UNCHANGED <<caller, asleep, thread, interrupts, io, processing, num_background,
                       blocked, flags>>
    BY <1>7 DEF AbortFlush
  <2>2. \E rq \in [Req -> ReqRecord], bgq \in Seq(Req), active \in Int,
           pend \in Seq(Req), max \in Nat : flush_bg_queue(rq, bgq, active, pend, max)
    <3>. /\ req \in [Req -> ReqRecord] /\ bg_queue \in Seq(Req)
         /\ active_background \in Int /\ pending \in Seq(Req) /\ UintMax \in Nat
      BY MaxAssumption DEF TypeOK
    <3>. WITNESS req \in [Req -> ReqRecord], bg_queue \in Seq(Req),
                 active_background \in Int, pending \in Seq(Req), UintMax \in Nat
    <3>. QED
      BY <2>1
  <2>3. /\ bg_queue' \in Seq(Req) /\ pending' \in Seq(Req)
        /\ active_background' \in Int /\ reqctr' \in Nat /\ num_waiting' \in Int
        /\ req' \in [Req -> ReqRecord]
    <3>1. reqctr \in Nat /\ num_waiting \in Int
      BY DEF TypeOK
    <3>. QED
      BY <2>2, <3>1, FlushType, Zenon
  <2>4. AborterOK
    BY <1>3, <2>1
  <2>. QED
    BY <2>1, <2>3, <2>4, MaxAssumption DEF TypeOK
<1>8. ASSUME NEW r \in Req, AbortQueued(r)
      PROVE  TypeOK'
  <2>1. /\ request_end(r, [req EXCEPT ![r] = [req[r] EXCEPT !.error = "ECONNABORTED"]])
        /\ aborter' = [pc |-> "tail", r |-> r, end |-> req[r].end]
        /\ UNCHANGED <<caller, asleep, thread, flags>>
    BY <1>8 DEF AbortQueued
  <2>2. [req[r] EXCEPT !.error = "ECONNABORTED"] \in ReqRecord
    BY <1>2, RecordTypes DEF Errors
  <2>3. EndsTyped
    <3>. [req EXCEPT ![r] = [req[r] EXCEPT !.error = "ECONNABORTED"]] \in [Req -> ReqRecord]
      BY <2>2 DEF TypeOK
    <3>. USE DEF EndsTyped
    <3>. WITNESS r \in Req
    <3>. WITNESS [req EXCEPT ![r] = [req[r] EXCEPT !.error = "ECONNABORTED"]]
                   \in [Req -> ReqRecord]
    <3>. QED
      BY <2>1
  <2>4. QueuesOK'
    BY <2>3, TypeParts, EndType
  <2>5. req[r].end \in BOOLEAN
    BY <1>2 DEF ReqRecord
  <2>6. AborterOK
    BY <2>1, <2>5 DEF AbortPc
  <2>. QED
    BY <2>1, <2>4, <2>6 DEF TypeOK, QueuesOK
<1>9. CASE AbortTail
  <2>1. /\ aborter.pc = "tail" /\ request_end_unlocked(aborter.r, aborter.end)
        /\ aborter' = [pc |-> "queued", r |-> NoReq, end |-> FALSE]
        /\ UNCHANGED <<thread, lists, reqctr, counts, flags>>
    BY <1>9 DEF AbortTail
  <2>2. \E s \in Req, end \in BOOLEAN : request_end_unlocked(s, end)
    <3>. aborter.r \in Req /\ aborter.end \in BOOLEAN
      BY <1>1, <2>1
    <3>. WITNESS aborter.r \in Req, aborter.end \in BOOLEAN
    <3>. QED
      BY <2>1
  <2>3. /\ req' \in [Req -> ReqRecord] /\ num_waiting' \in Int
        /\ asleep' \subseteq Req /\ caller' \in [Req -> CallerPc]
    BY <2>2, EndUnlockedType, Zenon
  <2>4. AborterOK
    BY <2>1, ReqAssumption DEF AbortPc
  <2>. QED
    BY <2>1, <2>3, <2>4 DEF TypeOK
<1>10. CASE AbortDone
  <2>1. AborterOK
    BY <1>3, <1>10 DEF AbortDone
  <2>. QED
    BY <1>10, <2>1 DEF AbortDone, TypeOK
<1>. QED
  BY <1>4, <1>5, <1>6, <1>7, <1>8, <1>9, <1>10 DEF Abort

\* Who takes the connection down, and when.
LEMMA DownStep ==
    ASSUME TypeOK, Down, [Next]_vars
    PROVE  Down'
<1>1. ASSUME NEW r \in Req, Caller(r)
      PROVE  UNCHANGED <<connected, aborter>>
  BY <1>1 DEF Caller, GetReq, GetReqDone, GetReqFail, RequestAlloc, RequestRefused, RequestSend,
              RequestSendBackground, SendEndUnlocked, Sleep, WaitDone, WaitInterrupted,
              WaitKilled, WaitUnlocked, CallerPut, flags
<1>2. ASSUME NEW t \in Daemon, DaemonThread(t)
      PROVE  UNCHANGED <<connected, aborter>>
  <2>1. CASE Copy(t)
    BY <2>1, ZenonT(60)
       DEF Copy, LockCopy, CopyFault, UnlockCopy, HandPage, PageHanded, ClearPage,
                CopyEnd, flags
  <2>2. CASE ~ Copy(t)
    BY <1>2, <2>2 DEF DaemonThread, ReadInterrupt, ReadRequest, ReadTooBig, ReadEnd,
                      WriteReply, WriteInterruptReply, RetrieveGet, WriteEnd, EndUnlocked,
                      Retrieve, RetrieveFail, RetrieveSend, flags
  <2>. QED
    BY <2>1, <2>2
<1>3. CASE AbortConn \/ AbortFlush \/ AbortDone \/ AbortIoEnd \/ AbortTail
  <2>1. \A pc \in {"io", "queued", "done"} : [aborter EXCEPT !.pc = pc].pc = pc
    BY DEF TypeOK
  <2>2. CASE AbortConn \/ AbortFlush \/ AbortDone
    <3>1. aborter'.pc \in {"io", "queued", "done"}
      BY <2>1, <2>2 DEF AbortConn, AbortFlush, AbortDone
    <3>2. ~ connected'
      BY <2>2 DEF AbortConn, AbortFlush, AbortDone, Down, flags
    <3>. QED
      BY <3>1, <3>2 DEF Down
  <2>3. CASE AbortIoEnd \/ AbortTail
    <3>0. /\ aborter.pc \in {"ioWait", "tail"}
          /\ \/ aborter' = [pc |-> "io", r |-> NoReq, end |-> FALSE]
             \/ aborter' = [pc |-> "queued", r |-> NoReq, end |-> FALSE]
      BY <2>3, Zenon DEF AbortIoEnd, AbortTail
    <3>1. aborter.pc # "no" /\ aborter'.pc # "no"
      BY <3>0
    <3>2. connected' = connected
      BY <2>3 DEF AbortIoEnd, AbortTail, flags
    <3>. QED
      BY <3>1, <3>2 DEF Down
  <2>. QED
    BY <1>3, <2>2, <2>3
<1>4. ASSUME NEW r \in Req, AbortIo(r) \/ AbortQueued(r)
      PROVE  Down'
  BY <1>4 DEF AbortIo, AbortQueued, Down, flags
<1>5. CASE UNCHANGED vars
  BY <1>5 DEF vars, flags, Down
<1>. QED
  BY <1>1, <1>2, <1>3, <1>4, <1>5, ZenonT(60) DEF Next, Abort, Down

\* Type correctness: whatever callers, daemon threads and fuse_abort_conn do, a
\* thread has a request at hand exactly where its system call works on one, and
\* the lists of fuse_conn hold requests.
THEOREM TypeCorrect == Spec => []TypeOK
<1>1. Init => TypeOK /\ Down
  BY InitType DEF Init, Down
<1>2. TypeOK /\ Down /\ [Next]_vars => TypeOK' /\ Down'
  <2>. SUFFICES ASSUME TypeOK, Down, [Next]_vars PROVE TypeOK'
    BY DownStep
  <2>1. CASE Next
    BY <2>1, CallerType, DaemonType, AbortType DEF Next
  <2>2. CASE UNCHANGED vars
    BY <2>2 DEF vars, lists, counts, flags, TypeOK
  <2>. QED
    BY <2>1, <2>2
<1>. QED
  BY <1>1, <1>2, PTL DEF Spec

-----------------------------------------------------------------------------
(* The background accounting.                                              *)

\* The inductive invariant: the accounting, and that the limit is never above
\* the one end_queued_requests sets.
BgInv == TypeOK /\ Down /\ BgAccounting /\ max_background <= UintMax

\* The steps that touch neither the counters nor the queue they count.
Quiet == UNCHANGED <<bg_queue, num_background, active_background, max_background, blocked,
                     connected>>

LEMMA CallerCounts ==
    ASSUME TypeOK, NEW r \in Req, Caller(r)
    PROVE  \/ Quiet
           \/ Ends /\ UNCHANGED connected
           \/ /\ connected /\ UNCHANGED <<connected, max_background>>
              /\ num_background' = num_background + 1
              /\ blocked' = (blocked \/ num_background + 1 = max_background)
              /\ \E rq : flush_bg_queue(rq, Append(bg_queue, r), active_background, pending,
                                        max_background)
<1>1. CASE RequestSendBackground(r)
  BY <1>1, Zenon DEF RequestSendBackground, send_nowait_locked, Ends, flags
<1>2. CASE ~ RequestSendBackground(r)
  BY <1>2 DEF Caller, GetReq, GetReqDone, GetReqFail, RequestAlloc, RequestRefused, RequestSend,
              SendEndUnlocked, Sleep, WaitDone, WaitInterrupted, WaitKilled, WaitUnlocked,
              CallerPut, Quiet, lists, counts, flags
<1>. QED
  BY <1>1, <1>2

LEMMA DaemonCounts ==
    ASSUME NEW t \in Daemon, DaemonThread(t)
    PROVE  Quiet \/ (Ends /\ UNCHANGED connected)
<1>1. CASE Copy(t)
  BY <1>1 DEF Copy, LockCopy, CopyFault, UnlockCopy, HandPage, PageHanded, ClearPage, CopyEnd,
              Quiet, lists, counts, flags
<1>2. CASE ReadTooBig(t) \/ ReadEnd(t) \/ WriteEnd(t)
  <2>1. CASE ReadTooBig(t)
    BY <2>1, Zenon DEF ReadTooBig, Ends, flags
  <2>2. CASE WriteEnd(t)
    BY <2>2, Zenon DEF WriteEnd, Ends, flags
  <2>3. CASE ReadEnd(t)
    BY <2>3, ZenonT(60) DEF ReadEnd, Ends, Quiet, counts, flags
  <2>. QED
    BY <1>2, <2>1, <2>2, <2>3
<1>3. CASE ~ (Copy(t) \/ ReadTooBig(t) \/ ReadEnd(t) \/ WriteEnd(t))
  BY <1>3, ZenonT(60)
     DEF DaemonThread, ReadInterrupt, ReadRequest, WriteReply, WriteInterruptReply,
              RetrieveGet, EndUnlocked, Retrieve, RetrieveFail, RetrieveSend,
              Quiet, lists, counts, flags
<1>. QED
  BY <1>1, <1>2, <1>3

LEMMA AbortCounts ==
    ASSUME Abort
    PROVE  \/ Quiet
           \/ Ends /\ UNCHANGED connected
           \/ /\ connected' = FALSE /\ blocked' = FALSE
              /\ UNCHANGED <<bg_queue, num_background, active_background, max_background>>
           \/ /\ aborter.pc = "io" /\ max_background' = UintMax
              /\ \E rq : flush_bg_queue(rq, bg_queue, active_background, pending, UintMax)
              /\ UNCHANGED <<num_background, blocked, connected>>
<1>1. CASE AbortFlush
  BY <1>1, Zenon DEF AbortFlush, flags
<1>2. ASSUME NEW r \in Req, AbortQueued(r)
      PROVE  Ends /\ UNCHANGED connected
  BY <1>2, Zenon DEF AbortQueued, Ends, flags
<1>3. CASE AbortConn
  BY <1>3 DEF AbortConn, lists
<1>4. CASE AbortIoEnd \/ AbortTail \/ AbortDone \/ \E r \in Req : AbortIo(r)
  BY <1>4 DEF AbortIoEnd, AbortTail, AbortDone, AbortIo, Quiet, lists, counts, flags
<1>. QED
  BY <1>1, <1>2, <1>3, <1>4 DEF Abort

\* The accounting survives each kind of step.
LEMMA CountsStep ==
    ASSUME BgInv, [Next]_vars
    PROVE  BgAccounting' /\ (max_background <= UintMax)'
<1>. USE MaxAssumption DEF BgInv
<1>1. /\ num_background \in Int /\ active_background \in Int /\ max_background \in Nat
      /\ bg_queue \in Seq(Req) /\ reqctr \in Nat /\ num_waiting \in Int
      /\ Len(bg_queue) \in Nat
  BY DEF TypeOK
<1>2. CASE Quiet \/ UNCHANGED vars
  <2>1. Quiet
    BY <1>2 DEF Quiet, vars, lists, counts, flags
  <2>. QED
    BY <2>1 DEF Quiet, BgAccounting
<1>3. CASE Ends /\ UNCHANGED connected
  <2>1. /\ Balance => Balance'
        /\ (blocked <=> num_background >= max_background)
             => (blocked' <=> num_background' >= max_background')
        /\ ~ blocked => ~ blocked'
        /\ max_background' = max_background
    BY <1>3, EndCounts, TypeParts
  <2>2. Balance
    BY DEF BgAccounting, Balance
  <2>3. connected' => (blocked' <=> num_background' >= max_background')
    BY <1>3, <2>1 DEF BgAccounting
  <2>4. ~ connected' => ~ blocked'
    BY <1>3, <2>1 DEF BgAccounting
  <2>5. max_background' <= UintMax
    BY <2>1
  <2>. QED
    BY <2>1, <2>2, <2>3, <2>4, <2>5 DEF BgAccounting, Balance
<1>4. ASSUME NEW r \in Req, connected, UNCHANGED <<connected, max_background>>,
             num_background' = num_background + 1,
             blocked' = (blocked \/ num_background + 1 = max_background),
             \E rq : flush_bg_queue(rq, Append(bg_queue, r), active_background, pending,
                                    max_background)
      PROVE  BgAccounting' /\ max_background' <= UintMax
  <2>1. \E rq, pend : \E bgq \in Seq(Req), active \in Int, max \in Nat :
           /\ bgq = Append(bg_queue, r) /\ active = active_background
           /\ max = max_background /\ flush_bg_queue(rq, bgq, active, pend, max)
    <3>. PICK rq : flush_bg_queue(rq, Append(bg_queue, r), active_background, pending,
                                  max_background)
      BY <1>4
    <3>. /\ Append(bg_queue, r) \in Seq(Req) /\ active_background \in Int
         /\ max_background \in Nat
      BY <1>1
    <3>. WITNESS rq, pending
    <3>. WITNESS Append(bg_queue, r) \in Seq(Req), active_background \in Int,
                 max_background \in Nat
    <3>. QED
      OBVIOUS
  <2>2. PICK bgq \in Seq(Req), active \in Int, max \in Nat :
           /\ bgq = Append(bg_queue, r) /\ active = active_background
           /\ max = max_background /\ \E rq, pend : flush_bg_queue(rq, bgq, active, pend, max)
    BY <2>1
  <2>3. /\ bg_queue' \in Seq(Req) /\ active_background' \in Int
        /\ active_background' + Len(bg_queue') = active + Len(bgq)
        /\ active <= max => active_background' <= max
        /\ active <= max /\ bg_queue' # <<>> => active_background' = max
    <3>1. PICK rq, pend : flush_bg_queue(rq, bgq, active, pend, max)
      BY <2>2
    <3>. QED
      BY <3>1, FlushCounts, Zenon
  <2>4. Len(bgq) = Len(bg_queue) + 1
    BY <1>1, <2>2
  <2>5. Balance'
    BY <1>1, <1>4, <2>2, <2>3, <2>4 DEF Balance, BgAccounting
  <2>6. num_background >= max_background \/ num_background + 1 = max_background
          <=> num_background + 1 >= max_background
    BY <1>1
  <2>7. num_background' >= max_background' <=> num_background + 1 >= max_background
    BY <1>4
  <2>8. blocked' <=> num_background' >= max_background'
    BY <1>4, <2>6, <2>7, Zenon DEF BgAccounting
  <2>. QED
    BY <1>4, <2>5, <2>8 DEF Balance, BgAccounting
<1>5. CASE /\ connected' = FALSE /\ blocked' = FALSE
           /\ UNCHANGED <<bg_queue, num_background, active_background, max_background>>
  BY <1>5 DEF BgAccounting
<1>6. CASE /\ aborter.pc = "io" /\ max_background' = UintMax
           /\ \E rq : flush_bg_queue(rq, bg_queue, active_background, pending, UintMax)
           /\ UNCHANGED <<num_background, blocked, connected>>
  <2>1. ~ connected
    BY <1>6 DEF Down
  <2>2. \E rq, pend : \E bgq \in Seq(Req), active \in Int, max \in Nat :
           /\ bgq = bg_queue /\ active = active_background
           /\ max = UintMax /\ flush_bg_queue(rq, bgq, active, pend, max)
    <3>. PICK rq : flush_bg_queue(rq, bg_queue, active_background, pending, UintMax)
      BY <1>6
    <3>. bg_queue \in Seq(Req) /\ active_background \in Int /\ UintMax \in Nat
      BY <1>1
    <3>. WITNESS rq, pending
    <3>. WITNESS bg_queue \in Seq(Req), active_background \in Int, UintMax \in Nat
    <3>. QED
      OBVIOUS
  <2>3. PICK bgq \in Seq(Req), active \in Int, max \in Nat :
           /\ bgq = bg_queue /\ active = active_background
           /\ max = UintMax /\ \E rq, pend : flush_bg_queue(rq, bgq, active, pend, max)
    BY <2>2
  <2>4. /\ bg_queue' \in Seq(Req) /\ active_background' \in Int
        /\ active_background' + Len(bg_queue') = active + Len(bgq)
        /\ active <= max => active_background' <= max
        /\ active <= max /\ bg_queue' # <<>> => active_background' = max
    <3>1. PICK rq, pend : flush_bg_queue(rq, bgq, active, pend, max)
      BY <2>3
    <3>. QED
      BY <3>1, FlushCounts, Zenon
  <2>5. active <= max
    BY <1>1, <2>3 DEF BgAccounting
  <2>6. Balance'
    BY <1>1, <1>6, <2>3, <2>4, <2>5 DEF Balance, BgAccounting
  <2>. QED
    BY <1>6, <2>1, <2>6 DEF Balance, BgAccounting
<1>7. TypeOK
  OBVIOUS
<1>8. CASE \E r \in Req : Caller(r)
  BY <1>2, <1>3, <1>4, <1>7, <1>8, CallerCounts
<1>9. CASE \E t \in Daemon : DaemonThread(t)
  BY <1>2, <1>3, <1>9, DaemonCounts
<1>10. CASE Abort
  BY <1>2, <1>3, <1>5, <1>6, <1>10, AbortCounts
<1>. QED
  BY <1>2, <1>8, <1>9, <1>10 DEF Next

\* num_background, active_background and bg_queue agree in every state, no slot
\* of the background limit is left free while a request waits for one, and
\* fuse_get_req blocks exactly while the limit is reached and the connection is
\* up, however many senders overshoot the limit and whenever the abort comes.
THEOREM BgCorrect == Spec => []BgAccounting
<1>1. Init => BgAccounting /\ max_background <= UintMax
  <2>. SUFFICES ASSUME Init PROVE BgAccounting /\ max_background <= UintMax
    OBVIOUS
  <2>1. /\ num_background = 0 /\ active_background = 0 /\ max_background = MaxBackground
        /\ bg_queue = <<>> /\ Len(bg_queue) = 0
    BY DEF Init
  <2>2. blocked = FALSE /\ connected = TRUE
    BY DEF Init
  <2>3. 0 <= max_background /\ max_background <= UintMax /\ ~ (0 >= max_background)
    BY <2>1, MaxAssumption
  <2>. QED
    BY <2>1, <2>2, <2>3 DEF BgAccounting
<1>2. TypeOK /\ TypeOK' /\ Down /\ BgAccounting /\ max_background <= UintMax /\ [Next]_vars
        => (BgAccounting /\ max_background <= UintMax)'
  BY CountsStep DEF BgInv
<1>3. Init => Down
  BY DEF Init, Down
<1>4. TypeOK /\ Down /\ [Next]_vars => Down'
  BY DownStep
<1>. QED
  BY <1>1, <1>2, <1>3, <1>4, TypeCorrect, PTL DEF Spec
=============================================================================
