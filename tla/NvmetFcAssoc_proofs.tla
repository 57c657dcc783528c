------------------------ MODULE NvmetFcAssoc_proofs ------------------------
(***************************************************************************)
(* Proofs about NvmetFcAssoc, for every set of objects and threads, with   *)
(* the invariants of NvmetFcAssocInv.                                      *)
(*                                                                         *)
(* Its type invariant, and that the reference count of the target port is  *)
(* exact, need each other: no count goes below zero because the port's is  *)
(* that of its holders.                                                    *)
(*                                                                         *)
(* The table of queues of an association is sound: what it names is never  *)
(* freed, and while no number is given twice a queue is missing from it    *)
(* only before it is published.  The reason is that until then nobody but  *)
(* its creator knows the queue.                                            *)
(*                                                                         *)
(* The counts of associations and queues are those of their holders: the   *)
(* sets of threads and queues that hold one change by at most one member   *)
(* in a step, and its count by as much.  So nothing that is held is freed, *)
(* and who uses freed memory does so after one of the named races.         *)
(* Without any of them, the loop of the unregistration misses no           *)
(* association, a deletion no queue, and everything is freed in the end.   *)
(***************************************************************************)
EXTENDS NvmetFcAssocInv, FiniteSetTheorems, SequenceTheorems, TLAPS

USE ObjectAssumption, ThreadAssumption, BoundAssumption

-----------------------------------------------------------------------------
(* What the helpers return.                                                *)

\* One thread gets a new record.
LEMMA Changed ==
    ASSUME NEW th \in [Thread -> Rec], NEW t \in Thread, NEW me \in Rec
    PROVE  /\ [th EXCEPT ![t] = me] \in [Thread -> Rec]
           /\ \A x \in Thread \ {t} : [th EXCEPT ![t] = me][x] = th[x]
           /\ [th EXCEPT ![t] = me][t] = me
  OBVIOUS

\* The threads, when one goes on to pc.
LEMMA GoesType ==
    ASSUME TypeOK, NEW t \in Thread, NEW pc \in Pcs
    PROVE  /\ Goes(t, pc) \in [Thread -> Rec]
           /\ \A x \in Thread \ {t} : Goes(t, pc)[x] = thread[x]
           /\ Goes(t, pc)[t].pc = pc
           /\ pc \notin {"gone", "next"} => Goes(t, pc)[t] = [thread[t] EXCEPT !.pc = pc]
           /\ pc \in {"gone", "next"} => Goes(t, pc)[t].duty = "none"
<1>1. thread \in [Thread -> Rec]
  BY DEF TypeOK, Rec
<1>2. thread[t] \in Rec
  BY <1>1
<1>3. Resting(pc) \in Rec /\ Resting(pc).pc = pc /\ Resting(pc).duty = "none"
  BY DEF Resting, Rec, Qids
<1>4. LET me == [Resting(pc) EXCEPT !.next = thread[t].next]
      IN  me \in Rec /\ me.pc = pc /\ me.duty = "none"
  BY <1>2, <1>3 DEF Rec
<1>5. [thread[t] EXCEPT !.pc = pc] \in Rec /\ [thread[t] EXCEPT !.pc = pc].pc = pc
  BY <1>2 DEF Rec
<1>6. CASE pc = "gone"
  <2>1. Goes(t, pc) = [thread EXCEPT ![t] = Resting(pc)]
    BY <1>6 DEF Goes
  <2>. QED
    BY <1>1, <1>3, <1>6, <2>1, Changed
<1>7. CASE pc = "next"
  <2>. DEFINE me == [Resting(pc) EXCEPT !.next = thread[t].next]
  <2>1. Goes(t, pc) = [thread EXCEPT ![t] = me]
    BY <1>7 DEF Goes
  <2>2. me \in Rec /\ me.pc = pc /\ me.duty = "none"
    BY <1>4
  <2>. HIDE DEF me
  <2>. QED
    BY <1>1, <1>7, <2>1, <2>2, Changed
<1>8. CASE pc \notin {"gone", "next"}
  <2>. DEFINE me == [thread[t] EXCEPT !.pc = pc]
  <2>1. Goes(t, pc) = [thread EXCEPT ![t] = me]
    BY <1>1, <1>8 DEF Goes
  <2>2. me \in Rec /\ me.pc = pc
    BY <1>5
  <2>3. Goes(t, pc)[t] = me
    BY <1>1, <1>5, <2>1, Changed, ZenonT(60)
  <2>. HIDE DEF me
  <2>4. /\ Goes(t, pc) \in [Thread -> Rec]
        /\ \A x \in Thread \ {t} : Goes(t, pc)[x] = thread[x]
    BY <1>1, <2>1, <2>2, Changed
  <2>. QED
    BY <1>8, <2>2, <2>3, <2>4 DEF me
<1>. QED
  BY <1>6, <1>7, <1>8

\* The reference of an association is dropped: it stays held until it is freed.
LEMMA PutOfType ==
    ASSUME TypeOK, ObjectsOK, NEW a \in Assoc, assoc[a].ref # 0, assoc[a].st # "freed"
    PROVE  /\ PutOf(a) \in [Assoc -> AssocRec]
           /\ \A x \in Assoc :
                /\ PutOf(a)[x].st \in {"live", "dying"} <=> assoc[x].st \in {"live", "dying"}
                /\ PutOf(a)[x].st = "none" => assoc[x].st = "none" /\ PutOf(a)[x].ref = 0
           /\ PutOf(a)[a].st # "none"
<1>1. assoc \in [Assoc -> AssocRec]
  BY DEF TypeOK, AssocRec
<1>2. assoc[a].st # "none" /\ assoc[a].ref \in Nat \ {0}
  BY <1>1 DEF ObjectsOK, AssocRec
<1>3. /\ PutOf(a)[a].ref = assoc[a].ref - 1
      /\ PutOf(a)[a].st = IF assoc[a].ref = 1 THEN "dying" ELSE assoc[a].st
      /\ \A x \in Assoc \ {a} : PutOf(a)[x] = assoc[x]
  BY <1>1 DEF PutOf, AssocRec
<1>4. PutOf(a) \in [Assoc -> AssocRec]
  BY <1>1, <1>2 DEF PutOf, AssocRec
<1>5. /\ PutOf(a)[a].st \in {"live", "dying"} <=> assoc[a].st \in {"live", "dying"}
      /\ PutOf(a)[a].st # "none"
  BY <1>1, <1>2, <1>3 DEF AssocRec
<1>6. ASSUME NEW x \in Assoc
      PROVE  /\ PutOf(a)[x].st \in {"live", "dying"} <=> assoc[x].st \in {"live", "dying"}
             /\ PutOf(a)[x].st = "none" => assoc[x].st = "none" /\ PutOf(a)[x].ref = 0
  <2>1. CASE x = a
    BY <1>5, <2>1
  <2>2. CASE x # a
    <3>1. PutOf(a)[x] = assoc[x]
      BY <1>3, <2>2
    <3>. QED
      BY <3>1 DEF ObjectsOK
  <2>. QED
    BY <2>1, <2>2
<1>. QED
  BY <1>4, <1>5, <1>6

\* The thread that drops the last reference has to free the object.
LEMMA AssocPutType ==
    ASSUME NEW th \in [Thread -> Rec], NEW t \in Thread, NEW a \in Assoc
    PROVE  /\ AssocPut(th, t, a) \in [Thread -> Rec]
           /\ \A x \in Thread \ {t} : AssocPut(th, t, a)[x] = th[x]
           /\ LET me == AssocPut(th, t, a)[t] IN
              /\ me.pc = th[t].pc /\ me.queue = th[t].queue
              /\ me.assoc = th[t].assoc /\ me.i = th[t].i /\ me.rqst = th[t].rqst
              /\ \/ me.duty = th[t].duty /\ me.owed = th[t].owed
                 \/ me.duty = "unlist" /\ me.owed = a
<1>1. th[t] \in Rec
  OBVIOUS
<1>2. [th[t] EXCEPT !.duty = "unlist", !.owed = a] \in Rec
  BY <1>1 DEF Rec
<1>3. [th EXCEPT ![t].duty = "unlist", ![t].owed = a]
        = [th EXCEPT ![t] = [th[t] EXCEPT !.duty = "unlist", !.owed = a]]
  BY <1>1 DEF Rec
<1>. DEFINE me == [th[t] EXCEPT !.duty = "unlist", !.owed = a]
<1>4. /\ me.pc = th[t].pc /\ me.queue = th[t].queue /\ me.assoc = th[t].assoc
      /\ me.i = th[t].i /\ me.rqst = th[t].rqst /\ me.duty = "unlist" /\ me.owed = a
  BY <1>1 DEF Rec
<1>5. me \in Rec
  BY <1>2
<1>6. CASE assoc[a].ref = 1
  <2>1. AssocPut(th, t, a) = [th EXCEPT ![t] = me]
    BY <1>3, <1>6 DEF AssocPut
  <2>. HIDE DEF me
  <2>. QED
    BY <1>4, <1>5, <2>1, Changed
<1>7. CASE assoc[a].ref # 1
  <2>1. AssocPut(th, t, a) = th
    BY <1>7 DEF AssocPut
  <2>. HIDE DEF me
  <2>. QED
    BY <2>1, SMT
<1>. QED
  BY <1>6, <1>7

LEMMA TgtPutType ==
    ASSUME NEW th \in [Thread -> Rec], NEW t \in Thread
    PROVE  /\ TgtPut(th, t) \in [Thread -> Rec]
           /\ \A x \in Thread \ {t} : TgtPut(th, t)[x] = th[x]
           /\ LET me == TgtPut(th, t)[t] IN
              /\ me.pc = th[t].pc /\ me.queue = th[t].queue
              /\ me.assoc = th[t].assoc /\ me.i = th[t].i /\ me.owed = th[t].owed
              /\ me.rqst = th[t].rqst /\ me.duty \in {th[t].duty, "free_port"}
<1>1. th[t] \in Rec
  OBVIOUS
<1>2. [th[t] EXCEPT !.duty = "free_port"] \in Rec
  BY <1>1 DEF Rec
<1>3. [th EXCEPT ![t].duty = "free_port"] = [th EXCEPT ![t] = [th[t] EXCEPT !.duty = "free_port"]]
  BY <1>1 DEF Rec
<1>. DEFINE me == [th[t] EXCEPT !.duty = "free_port"]
<1>4. /\ me.pc = th[t].pc /\ me.queue = th[t].queue /\ me.assoc = th[t].assoc
      /\ me.i = th[t].i /\ me.owed = th[t].owed /\ me.rqst = th[t].rqst
      /\ me.duty = "free_port"
  BY <1>1 DEF Rec
<1>5. me \in Rec
  BY <1>2
<1>6. CASE tgt.ref = 1
  <2>1. TgtPut(th, t) = [th EXCEPT ![t] = me]
    BY <1>3, <1>6 DEF TgtPut
  <2>. HIDE DEF me
  <2>2. /\ TgtPut(th, t) \in [Thread -> Rec] /\ TgtPut(th, t)[t] = me
        /\ \A x \in Thread \ {t} : TgtPut(th, t)[x] = th[x]
    BY <1>5, <2>1, Changed
  <2>. QED
    BY <1>4, <2>2
<1>7. CASE tgt.ref # 1
  <2>1. TgtPut(th, t) = th
    BY <1>7 DEF TgtPut
  <2>. HIDE DEF me
  <2>. QED
    BY <2>1, SMT
<1>. QED
  BY <1>6, <1>7

\* Taking an association off the list leaves a list.
LEMMA UnlistedType ==
    ASSUME TypeOK, NEW a
    PROVE  Unlisted(a) \in Seq(Assoc)
<1>1. ASSUME NEW i \in DOMAIN assoc_list
      PROVE  RemoveAt(assoc_list, i) \in Seq(Assoc)
  <2>1. assoc_list \in Seq(Assoc)
    BY DEF TypeOK
  <2>2. SubSeq(assoc_list, 1, i - 1) \in Seq(Assoc)
    BY <2>1, SubSeqProperties
  <2>3. SubSeq(assoc_list, i + 1, Len(assoc_list)) \in Seq(Assoc)
    BY <2>1, SubSeqProperties
  <2>. QED
    BY <2>2, <2>3, ConcatProperties DEF RemoveAt
<1>. QED
  BY <1>1 DEF TypeOK, Unlisted, Listed

\* One field of a thread is set, the others stay.
Like(r, s, field) ==
    /\ field # "pc" => r.pc = s.pc
    /\ r.rqst = s.rqst
    /\ field # "assoc" => r.assoc = s.assoc
    /\ field # "queue" => r.queue = s.queue
    /\ field # "i" => r.i = s.i
    /\ field # "duty" => r.duty = s.duty
    /\ field # "owed" => r.owed = s.owed
OnlyThread(new, th, t) ==
    new \in [Thread -> Rec] /\ \A x \in Thread \ {t} : new[x] = th[x]

LEMMA SetAssoc ==
    ASSUME NEW th \in [Thread -> Rec], NEW t \in Thread, NEW a \in Assoc
    PROVE  LET new == [th EXCEPT ![t].assoc = a] IN
           /\ OnlyThread(new, th, t)
           /\ new[t].assoc = a /\ Like(new[t], th[t], "assoc")
<1>1. th[t] \in Rec
  OBVIOUS
<1>. DEFINE me == [th[t] EXCEPT !.assoc = a]
<1>2. me \in Rec /\ me.assoc = a
  BY <1>1 DEF Rec
<1>3. Like(me, th[t], "assoc")
  BY <1>1 DEF Like, Rec
<1>4. [th EXCEPT ![t].assoc = a] = [th EXCEPT ![t] = me]
  OBVIOUS
<1>. HIDE DEF me
<1>5. OnlyThread([th EXCEPT ![t] = me], th, t) /\ [th EXCEPT ![t] = me][t] = me
  BY <1>2, Changed DEF OnlyThread
<1>. QED
  BY <1>2, <1>3, <1>4, <1>5

LEMMA SetQueue ==
    ASSUME NEW th \in [Thread -> Rec], NEW t \in Thread, NEW q \in Queue
    PROVE  LET new == [th EXCEPT ![t].queue = q] IN
           /\ OnlyThread(new, th, t)
           /\ new[t].queue = q /\ Like(new[t], th[t], "queue")
<1>1. th[t] \in Rec
  OBVIOUS
<1>. DEFINE me == [th[t] EXCEPT !.queue = q]
<1>2. me \in Rec /\ me.queue = q
  BY <1>1 DEF Rec
<1>3. Like(me, th[t], "queue")
  BY <1>1 DEF Like, Rec
<1>4. [th EXCEPT ![t].queue = q] = [th EXCEPT ![t] = me]
  OBVIOUS
<1>. HIDE DEF me
<1>5. OnlyThread([th EXCEPT ![t] = me], th, t) /\ [th EXCEPT ![t] = me][t] = me
  BY <1>2, Changed DEF OnlyThread
<1>. QED
  BY <1>2, <1>3, <1>4, <1>5

LEMMA SetPlace ==
    ASSUME NEW th \in [Thread -> Rec], NEW t \in Thread, NEW pc \in Pcs
    PROVE  LET new == [th EXCEPT ![t].pc = pc] IN
           /\ OnlyThread(new, th, t)
           /\ new[t].pc = pc /\ Like(new[t], th[t], "pc")
<1>1. th[t] \in Rec
  OBVIOUS
<1>. DEFINE me == [th[t] EXCEPT !.pc = pc]
<1>2. me \in Rec /\ me.pc = pc
  BY <1>1 DEF Rec
<1>3. Like(me, th[t], "pc")
  BY <1>1 DEF Like, Rec
<1>4. [th EXCEPT ![t].pc = pc] = [th EXCEPT ![t] = me]
  OBVIOUS
<1>. HIDE DEF me
<1>5. OnlyThread([th EXCEPT ![t] = me], th, t) /\ [th EXCEPT ![t] = me][t] = me
  BY <1>2, Changed DEF OnlyThread
<1>. QED
  BY <1>2, <1>3, <1>4, <1>5

LEMMA SetIndex ==
    ASSUME NEW th \in [Thread -> Rec], NEW t \in Thread, NEW k \in 0 .. MaxQid + 1
    PROVE  LET new == [th EXCEPT ![t].i = k] IN
           /\ OnlyThread(new, th, t)
           /\ new[t].i = k /\ Like(new[t], th[t], "i")
<1>1. th[t] \in Rec
  OBVIOUS
<1>. DEFINE me == [th[t] EXCEPT !.i = k]
<1>2. me \in Rec /\ me.i = k
  BY <1>1 DEF Rec
<1>3. Like(me, th[t], "i")
  BY <1>1 DEF Like, Rec
<1>4. [th EXCEPT ![t].i = k] = [th EXCEPT ![t] = me]
  OBVIOUS
<1>. HIDE DEF me
<1>5. OnlyThread([th EXCEPT ![t] = me], th, t) /\ [th EXCEPT ![t] = me][t] = me
  BY <1>2, Changed DEF OnlyThread
<1>. QED
  BY <1>2, <1>3, <1>4, <1>5

LEMMA SetAll ==
    ASSUME NEW th \in [Thread -> Rec], NEW t \in Thread
    PROVE  LET new == [th EXCEPT ![t].all = TRUE] IN
           /\ OnlyThread(new, th, t)
           /\ new[t].all = TRUE /\ Like(new[t], th[t], "all")
<1>1. th[t] \in Rec
  OBVIOUS
<1>. DEFINE me == [th[t] EXCEPT !.all = TRUE]
<1>2. me \in Rec /\ me.all = TRUE
  BY <1>1 DEF Rec
<1>3. Like(me, th[t], "all")
  BY <1>1 DEF Like, Rec
<1>4. [th EXCEPT ![t].all = TRUE] = [th EXCEPT ![t] = me]
  OBVIOUS
<1>. HIDE DEF me
<1>5. OnlyThread([th EXCEPT ![t] = me], th, t) /\ [th EXCEPT ![t] = me][t] = me
  BY <1>2, Changed DEF OnlyThread
<1>. QED
  BY <1>2, <1>3, <1>4, <1>5

LEMMA SetNext ==
    ASSUME NEW th \in [Thread -> Rec], NEW t \in Thread, NEW a \in Assoc \union {None}
    PROVE  LET new == [th EXCEPT ![t].next = a] IN
           /\ OnlyThread(new, th, t)
           /\ new[t].next = a /\ Like(new[t], th[t], "next")
<1>1. th[t] \in Rec
  OBVIOUS
<1>. DEFINE me == [th[t] EXCEPT !.next = a]
<1>2. me \in Rec /\ me.next = a
  BY <1>1 DEF Rec
<1>3. Like(me, th[t], "next")
  BY <1>1 DEF Like, Rec
<1>4. [th EXCEPT ![t].next = a] = [th EXCEPT ![t] = me]
  OBVIOUS
<1>. HIDE DEF me
<1>5. OnlyThread([th EXCEPT ![t] = me], th, t) /\ [th EXCEPT ![t] = me][t] = me
  BY <1>2, Changed DEF OnlyThread
<1>. QED
  BY <1>2, <1>3, <1>4, <1>5

LEMMA SetDuty ==
    ASSUME NEW th \in [Thread -> Rec], NEW t \in Thread, NEW d \in {"none", "put_assoc", "unlist", "free_port"}
    PROVE  LET new == [th EXCEPT ![t].duty = d] IN
           /\ OnlyThread(new, th, t)
           /\ new[t].duty = d /\ Like(new[t], th[t], "duty")
<1>1. th[t] \in Rec
  OBVIOUS
<1>. DEFINE me == [th[t] EXCEPT !.duty = d]
<1>2. me \in Rec /\ me.duty = d
  BY <1>1 DEF Rec
<1>3. Like(me, th[t], "duty")
  BY <1>1 DEF Like, Rec
<1>4. [th EXCEPT ![t].duty = d] = [th EXCEPT ![t] = me]
  OBVIOUS
<1>. HIDE DEF me
<1>5. OnlyThread([th EXCEPT ![t] = me], th, t) /\ [th EXCEPT ![t] = me][t] = me
  <2>1. me \in Rec
    BY <1>2
  <2>2. [th EXCEPT ![t] = me] \in [Thread -> Rec]
    BY <2>1, Changed
  <2>3. \A x \in Thread \ {t} : [th EXCEPT ![t] = me][x] = th[x]
    BY <2>1, Changed
  <2>4. [th EXCEPT ![t] = me][t] = me
    BY <2>1, Changed
  <2>. QED
    BY <2>2, <2>3, <2>4 DEF OnlyThread
<1>. QED
  BY <1>2, <1>3, <1>4, <1>5

LEMMA SetOwed ==
    ASSUME NEW th \in [Thread -> Rec], NEW t \in Thread, NEW a \in Assoc \union {None}
    PROVE  LET new == [th EXCEPT ![t].owed = a] IN
           /\ OnlyThread(new, th, t)
           /\ new[t].owed = a /\ Like(new[t], th[t], "owed")
<1>1. th[t] \in Rec
  OBVIOUS
<1>. DEFINE me == [th[t] EXCEPT !.owed = a]
<1>2. me \in Rec /\ me.owed = a
  BY <1>1 DEF Rec
<1>3. Like(me, th[t], "owed")
  BY <1>1 DEF Like, Rec
<1>4. [th EXCEPT ![t].owed = a] = [th EXCEPT ![t] = me]
  OBVIOUS
<1>. HIDE DEF me
<1>5. OnlyThread([th EXCEPT ![t] = me], th, t) /\ [th EXCEPT ![t] = me][t] = me
  BY <1>2, Changed DEF OnlyThread
<1>. QED
  BY <1>2, <1>3, <1>4, <1>5

-----------------------------------------------------------------------------
(* What a step has to show.                                                *)

\* The thread t has moved, and knows what it must.
ThreadStep(t) ==
    /\ OnlyThread(thread', thread, t)
    /\ ThreadOK(t, thread'[t])
    /\ thread'[t].duty = "unlist" => assoc'[thread'[t].owed].st # "none"
AssocStep ==
    /\ assoc' \in [Assoc -> AssocRec]
    /\ \A a \in Assoc : assoc'[a].st = "none" => assoc[a].st = "none" /\ assoc'[a].ref = 0
QueueStep ==
    /\ queue' \in [Queue -> QueueRec]
    /\ \A q \in Queue : queue'[q].ref > 0 => queue'[q].assoc \in Assoc
RaceNames == {"late", "dying", "same_qid", "young", "twice", "neighbour", "bound"}
TgtRec == [st : {"live", "dying", "deleted"}, ref : Nat, port : BOOLEAN]
RestStep ==
    /\ assoc_list' \in Seq(Assoc)
    /\ queues' \in [Assoc -> [Qids -> Queue \union {None}]]
    /\ cast' \in Casts /\ left' \in 0 .. MaxLs
    /\ deleted' \subseteq Assoc \union Queue /\ races' \subseteq RaceNames

\* What is left alone shows nothing new.
LEMMA Unchanged ==
    ASSUME Inv
    PROVE  /\ UNCHANGED assoc => AssocStep
           /\ UNCHANGED queue => QueueStep
           /\ UNCHANGED <<assoc_list, queues, cast, left, deleted, races>> => RestStep
           /\ UNCHANGED tgt => tgt' \in TgtRec
<1>1. UNCHANGED assoc => AssocStep
  BY DEF Inv, TypeOK, ObjectsOK, AssocStep, AssocRec
<1>2. UNCHANGED queue => QueueStep
  BY DEF Inv, TypeOK, ObjectsOK, QueueStep, QueueRec
<1>3. UNCHANGED <<assoc_list, queues, cast, left, deleted, races>> => RestStep
  BY DEF Inv, TypeOK, RestStep, RaceNames
<1>4. UNCHANGED tgt => tgt' \in TgtRec
  BY DEF Inv, TypeOK, TgtRec
<1>. QED
  BY <1>1, <1>2, <1>3, <1>4

LEMMA Types ==
    ASSUME Inv, NEW t \in Thread, ThreadStep(t), AssocStep, QueueStep, RestStep, tgt' \in TgtRec
    PROVE  TypeOK' /\ ThreadsOK' /\ ObjectsOK'
<1>1. thread' \in [Thread -> Rec]
  BY DEF ThreadStep, OnlyThread
<1>2. TypeOK'
  BY <1>1 DEF TypeOK, Rec, AssocStep, AssocRec, QueueStep, QueueRec, RestStep, RaceNames, TgtRec
<1>3. ThreadsOK'
  BY DEF Inv, ThreadsOK, ThreadStep, OnlyThread
<1>4. ASSUME NEW x \in Thread, thread'[x].duty = "unlist"
      PROVE  assoc'[thread'[x].owed].st # "none"
  <2>1. CASE x = t
    BY <1>4, <2>1 DEF ThreadStep
  <2>2. CASE x # t
    <3>1. thread'[x] = thread[x]
      BY <2>2 DEF ThreadStep, OnlyThread
    <3>2. thread[x].owed \in Assoc /\ assoc[thread[x].owed].st # "none"
      BY <1>4, <3>1 DEF Inv, ThreadsOK, ThreadOK, ObjectsOK
    <3>. QED
      BY <3>1, <3>2 DEF AssocStep
  <2>. QED
    BY <2>1, <2>2
<1>5. ObjectsOK'
  BY <1>4 DEF ObjectsOK, AssocStep, QueueStep
<1>. QED
  BY <1>2, <1>3, <1>5

LEMMA Sizes ==
    /\ \A S \in SUBSET Assoc : IsFiniteSet(S) /\ Cardinality(S) \in Nat
    /\ \A S \in SUBSET Iod : IsFiniteSet(S) /\ Cardinality(S) \in Nat
    /\ \A S \in SUBSET {Unreg} : IsFiniteSet(S) /\ Cardinality(S) \in Nat
    /\ \A S \in SUBSET {Ctrl} : IsFiniteSet(S) /\ Cardinality(S) \in Nat
<1>1. IsFiniteSet(Assoc) /\ IsFiniteSet(Iod) /\ IsFiniteSet({Unreg}) /\ IsFiniteSet({Ctrl})
  <2>1. Iod \in SUBSET Thread /\ {Unreg} \in SUBSET Thread /\ {Ctrl} \in SUBSET Thread
    BY DEF Thread
  <2>. QED
    BY <2>1, FS_Subset
<1>. QED
  BY <1>1, FS_Subset, FS_CardinalityType

LEMMA PortCount ==
    TgtRefsExact <=> tgt.ref = Cardinality(Registered) + User + Cardinality(Held)
                               + Cardinality(Serving) + Cardinality(Looking)
  BY DEF TgtRefsExact, Registered, User, Held, Serving, Looking, LookPcs

LEMMA PortCountNext ==
    TgtRefsExact' <=> tgt'.ref = Cardinality(Registered') + User' + Cardinality(Held')
                                 + Cardinality(Serving') + Cardinality(Looking')
  BY DEF TgtRefsExact, Registered, User, Held, Serving, Looking, LookPcs

\* Nobody's hold on the port depends on where t has gone.
Apart(t) ==
    /\ t = Unreg => (thread[t].pc = "gone" <=> thread'[t].pc = "gone")
    /\ t \in Iod => (thread[t].pc = "idle" <=> thread'[t].pc = "idle")
    /\ t = Conf => thread'[t].pc = thread[t].pc \/ thread'[t].pc \notin {"idle", "bound"}
    /\ t = Ctrl => (thread[t].pc \in LookPcs <=> thread'[t].pc \in LookPcs)
StillHeld == \A a \in Assoc :
    assoc'[a].st \in {"live", "dying"} <=> assoc[a].st \in {"live", "dying"}

LEMMA Aside ==
    ASSUME Inv, NEW t \in Thread, OnlyThread(thread', thread, t), Apart(t), StillHeld,
           tgt'.ref = tgt.ref, tgt'.port = tgt.port, "bound" \in races' <=> "bound" \in races
    PROVE  UserOK' /\ TgtRefsExact'
<1>1. Held' = Held
  BY DEF Held, StillHeld
<1>2. Serving' = Serving
  <2>1. \A i \in Iod : thread'[i].pc = "idle" <=> thread[i].pc = "idle"
    BY DEF Apart, OnlyThread, Thread
  <2>. QED
    BY <2>1 DEF Serving
<1>3. Registered' = Registered
  <2>1. thread'[Unreg].pc = "gone" <=> thread[Unreg].pc = "gone"
    BY DEF Apart, OnlyThread, Thread
  <2>. QED
    BY <2>1 DEF Registered
<1>4. User' = User
  BY DEF User
<1>0. Looking' = Looking
  <2>1. thread'[Ctrl].pc \in LookPcs <=> thread[Ctrl].pc \in LookPcs
    BY DEF Apart, OnlyThread, Thread
  <2>. QED
    BY <2>1 DEF Looking
<1>5. TgtRefsExact'
  BY <1>0, <1>1, <1>2, <1>3, <1>4, PortCount, PortCountNext DEF Inv
<1>6. UserOK'
  <2>1. Conf \in Thread
    BY DEF Thread
  <2>2. thread'[Conf].pc = thread[Conf].pc \/ thread'[Conf].pc \notin {"idle", "bound"}
    BY <2>1 DEF Apart, OnlyThread
  <2>. QED
    BY <2>2 DEF Inv, UserOK
<1>. QED
  BY <1>5, <1>6

\* The two together.
LEMMA AsideStep ==
    ASSUME Inv, NEW t \in Thread, ThreadStep(t), Apart(t), AssocStep, StillHeld, QueueStep,
           RestStep, UNCHANGED tgt, "bound" \in races' <=> "bound" \in races
    PROVE  Inv'
<1>1. TypeOK' /\ ThreadsOK' /\ ObjectsOK'
  BY Types, Unchanged
<1>2. UserOK' /\ TgtRefsExact'
  BY Aside DEF ThreadStep
<1>. QED
  BY <1>1, <1>2 DEF Inv

-----------------------------------------------------------------------------
(* Steps that leave the port alone.                                        *)

\* A thread may go on to pc with the locals it has.
Equipped(t, pc) ==
    /\ pc \in QueueUsers => thread[t].queue \in Queue
    /\ pc \in AssocUsers => thread[t].assoc \in Assoc
    /\ pc \in NewQids => thread[t].i \in Qids
    /\ pc # "find_assoc"
    /\ t \in Cmd => pc \in {"command", "gone", "past_table"}

LEMMA ReadyKnows ==
    ASSUME Inv, NEW t, NEW pc, Ready(t, pc)
    PROVE  /\ t \in Thread /\ thread[t] \in Rec /\ ThreadOK(t, thread[t])
           /\ thread[t].pc = pc /\ thread[t].duty = "none"
<1>1. t \in Thread
  BY DEF Ready, Inv, TypeOK
<1>2. thread[t] \in Rec
  BY <1>1 DEF Inv, TypeOK, Rec
<1>. QED
  BY <1>1, <1>2 DEF Ready, Inv, ThreadsOK

LEMMA Distinct ==
    /\ \A c \in Cmd : c \notin Iod /\ c # Unreg /\ c # Ctrl /\ c # Conf
    /\ \A i \in Iod : i # Unreg /\ i # Ctrl /\ i # Conf
  OBVIOUS

LEMMA GoStep ==
    ASSUME Inv, NEW t \in Thread, NEW pc \in Pcs, thread[t].duty = "none", Equipped(t, pc)
    PROVE  LET new == Goes(t, pc) IN
           /\ OnlyThread(new, thread, t) /\ ThreadOK(t, new[t])
           /\ new[t].pc = pc /\ new[t].duty = "none"
           /\ pc \notin {"gone", "next"} => Like(new[t], thread[t], "pc")
<1>. DEFINE new == Goes(t, pc)
<1>1. thread[t] \in Rec
  BY DEF Inv, TypeOK, Rec
<1>2. OnlyThread(new, thread, t) /\ new[t].pc = pc
  BY GoesType, ZenonT(60) DEF Inv, OnlyThread
<1>3. CASE pc \in {"gone", "next"}
  <2>1. new[t].duty = "none"
    BY <1>3, GoesType DEF Inv
  <2>. QED
    BY <1>2, <1>3, <2>1 DEF ThreadOK, Equipped, QueueUsers, AssocUsers, NewQids
<1>4. CASE pc \notin {"gone", "next"}
  <2>1. new[t] = [thread[t] EXCEPT !.pc = pc]
    BY <1>4, GoesType DEF Inv
  <2>2. Like(new[t], thread[t], "pc")
    BY <1>1, <2>1 DEF Like, Rec
  <2>. QED
    BY <1>2, <2>2 DEF ThreadOK, Equipped, Like
<1>. QED
  BY <1>2, <1>3, <1>4

LEMMA GoesStep ==
    ASSUME Inv, NEW t \in Thread, NEW pc \in Pcs, thread[t].duty = "none", Equipped(t, pc),
           thread' = Goes(t, pc)
    PROVE  ThreadStep(t) /\ thread'[t].pc = pc
  BY GoStep DEF ThreadStep

\* Taking a reference of a queue that has some; and its flag.
LEMMA QueueGetStep ==
    ASSUME Inv, NEW q \in Queue, queue[q].ref > 0, queue' = [queue EXCEPT ![q].ref = @ + 1]
    PROVE  QueueStep
<1>1. queue \in [Queue -> QueueRec]
  BY DEF Inv, TypeOK, QueueRec
<1>2. queue' \in [Queue -> QueueRec]
  BY <1>1 DEF QueueRec
<1>3. \A x \in Queue : queue'[x].ref > 0 => queue'[x].assoc \in Assoc
  BY <1>1 DEF Inv, ObjectsOK, QueueRec
<1>. QED
  BY <1>2, <1>3 DEF QueueStep

LEMMA ConnectedStep ==
    ASSUME Inv, NEW q \in Queue, NEW b \in BOOLEAN, queue' = [queue EXCEPT ![q].connected = b]
    PROVE  QueueStep
<1>1. queue \in [Queue -> QueueRec]
  BY DEF Inv, TypeOK, QueueRec
<1>2. queue' \in [Queue -> QueueRec]
  BY <1>1 DEF QueueRec
<1>3. \A x \in Queue : queue'[x].ref > 0 => queue'[x].assoc \in Assoc
  BY <1>1 DEF Inv, ObjectsOK, QueueRec
<1>. QED
  BY <1>2, <1>3 DEF QueueStep

LEMMA StillHeldUnchanged ==
    UNCHANGED assoc => StillHeld
  BY DEF StillHeld

LEMMA UseQueueInv ==
    ASSUME Inv, NEW i \in Iod, UseQueue(i)
    PROVE  Inv'
<1>1. /\ i \in Thread /\ thread[i].pc = "use_queue" /\ thread[i].duty = "none"
      /\ thread[i].queue \in Queue /\ i \notin Cmd
  BY ReadyKnows DEF UseQueue, ThreadOK, QueueUsers
<1>2. ThreadStep(i) /\ thread'[i].pc = "respond"
  BY <1>1, GoesStep DEF UseQueue, Equipped, Pcs, QueueUsers, AssocUsers, NewQids
<1>3. QueueStep
  BY <1>1, ConnectedStep DEF UseQueue
<1>4. Apart(i)
  BY <1>1, <1>2 DEF Apart, LookPcs
<1>. QED
  BY <1>1, <1>2, <1>3, <1>4, Unchanged, StillHeldUnchanged, AsideStep DEF UseQueue

LEMMA DeleteQueueInv ==
    ASSUME Inv, NEW t \in Thread, DeleteQueue(t)
    PROVE  Inv'
<1>1. /\ thread[t].pc = "delete" /\ thread[t].duty = "none" /\ thread[t].queue \in Queue
      /\ thread[t].assoc \in Assoc /\ t \notin Cmd
  BY ReadyKnows DEF DeleteQueue, ThreadOK, QueueUsers, AssocUsers
<1>2. ThreadStep(t) /\ thread'[t].pc = "drop"
  BY <1>1, GoesStep DEF DeleteQueue, Equipped, Pcs, QueueUsers, AssocUsers, NewQids
<1>3. QueueStep
  BY <1>1, ConnectedStep DEF DeleteQueue
<1>4. Apart(t)
  BY <1>1, <1>2 DEF Apart, LookPcs
<1>5. RestStep /\ ("bound" \in races' <=> "bound" \in races)
  BY <1>1 DEF DeleteQueue, Inv, TypeOK, RestStep, RaceNames, Race
<1>. QED
  BY <1>1, <1>2, <1>3, <1>4, <1>5, Unchanged, StillHeldUnchanged, AsideStep DEF DeleteQueue

LEMMA BeginAssocInv ==
    ASSUME Inv, NEW t \in Thread, BeginAssoc(t)
    PROVE  Inv'
<1>1. /\ thread[t].pc = "begin" /\ thread[t].duty = "none"
      /\ thread[t].assoc \in Assoc /\ t \notin Cmd
  BY ReadyKnows DEF BeginAssoc, ThreadOK, QueueUsers, AssocUsers
<1>. DEFINE new == Goes(t, "scan")  mid == [new EXCEPT ![t].i = MaxQid + 1]
<1>2. /\ OnlyThread(new, thread, t) /\ ThreadOK(t, new[t])
      /\ new[t].pc = "scan" /\ new[t].duty = "none"
  BY <1>1, GoStep DEF Equipped, Pcs, QueueUsers, AssocUsers, NewQids
<1>3. OnlyThread(mid, thread, t) /\ Like(mid[t], new[t], "i")
  BY <1>2, SetIndex DEF OnlyThread
<1>4. OnlyThread(thread', thread, t) /\ Like(thread'[t], mid[t], "all")
  BY <1>3, SetAll, ZenonT(60) DEF OnlyThread, BeginAssoc
<1>. HIDE DEF new, mid
<1>5. ThreadStep(t) /\ thread'[t].pc = "scan"
  BY <1>2, <1>3, <1>4 DEF ThreadStep, ThreadOK, Like, QueueUsers, AssocUsers, NewQids
<1>6. Apart(t)
  BY <1>1, <1>5 DEF Apart, LookPcs
<1>7. RestStep /\ ("bound" \in races' <=> "bound" \in races)
  BY <1>1 DEF BeginAssoc, Inv, TypeOK, RestStep, RaceNames, Race
<1>. QED
  BY <1>1, <1>5, <1>6, <1>7, Unchanged, StillHeldUnchanged, AsideStep DEF BeginAssoc

\* A queue is got: t goes to pc with it.
LEMMA QueueGot ==
    ASSUME Inv, NEW t \in Thread, NEW pc \in {"delete", "command", "publish"}, NEW q \in Queue,
           thread[t].duty = "none", pc # "command" => thread[t].assoc \in Assoc,
           pc = "publish" => thread[t].i \in Qids, t \in Cmd <=> pc = "command"
    PROVE  LET got == [Goes(t, pc) EXCEPT ![t].queue = q] IN
           /\ OnlyThread(got, thread, t) /\ ThreadOK(t, got[t])
           /\ got[t].pc = pc /\ got[t].duty = "none"
<1>. DEFINE new == Goes(t, pc)  got == [new EXCEPT ![t].queue = q]
<1>0. pc \in Pcs /\ pc \notin {"gone", "next"}
  BY DEF Pcs
<1>1. /\ new \in [Thread -> Rec] /\ \A x \in Thread \ {t} : new[x] = thread[x]
      /\ new[t] = [thread[t] EXCEPT !.pc = pc]
  BY <1>0, GoesType DEF Inv
<1>2. thread[t] \in Rec
  BY DEF Inv, TypeOK, Rec
<1>3. /\ new[t].pc = pc /\ new[t].assoc = thread[t].assoc /\ new[t].duty = "none"
      /\ new[t].i = thread[t].i
  BY <1>1, <1>2 DEF Rec
<1>. HIDE DEF new
<1>4. OnlyThread(got, new, t) /\ got[t].queue = q /\ Like(got[t], new[t], "queue")
  BY <1>1, SetQueue
<1>. HIDE DEF got
<1>5. OnlyThread(got, thread, t)
  BY <1>1, <1>4 DEF OnlyThread
<1>6. /\ got[t].pc = pc /\ got[t].duty = "none" /\ got[t].queue = q
      /\ got[t].assoc = thread[t].assoc /\ got[t].i = thread[t].i
  BY <1>3, <1>4 DEF Like
<1>7. ThreadOK(t, got[t])
  <2>1. CASE pc \in {"delete", "publish"}
    BY <1>6, <2>1 DEF ThreadOK, NewQids
  <2>2. CASE pc = "command"
    BY <1>6, <2>2 DEF ThreadOK, AssocUsers, NewQids
  <2>. QED
    BY <2>1, <2>2
<1>. QED
  BY <1>5, <1>6, <1>7 DEF new, got

LEMMA ListedType ==
    ASSUME Inv, NEW a, Listed(a)
    PROVE  a \in Assoc
<1>1. assoc_list \in Seq(Assoc)
  BY DEF Inv, TypeOK
<1>. QED
  BY <1>1 DEF Listed

\* What is found is a queue that has references.
LEMMA FoundType ==
    ASSUME Inv, NEW a, NEW k, NEW q \in Found(a, k)
    PROVE  /\ q \in Queue /\ queue[q].ref > 0
           /\ a \in Assoc /\ k \in Qids /\ queues[a][k] = q
<1>1. q = queues[a][k] /\ q # None /\ queue[q].ref > 0 /\ Listed(a) /\ k \in Qids
  BY DEF Found
<1>3. a \in Assoc
  BY <1>1, ListedType
<1>2. queues[a][k] \in Queue \union {None}
  <2>1. queues \in [Assoc -> [Qids -> Queue \union {None}]]
    BY DEF Inv, TypeOK
  <2>. QED
    BY <1>1, <1>3, <2>1
<1>. QED
  BY <1>1, <1>2, <1>3

LEMMA CmdArriveInv ==
    ASSUME Inv, NEW c \in Cmd, CmdArrive(c)
    PROVE  Inv'
<1>1. c \in Thread /\ thread[c].duty = "none"
  BY ReadyKnows DEF CmdArrive
<1>2. ASSUME NEW a \in Assoc, NEW k \in Qids, NEW q \in Found(a, k),
             queue' = [queue EXCEPT ![q].ref = @ + 1],
             thread' = [Goes(c, "command") EXCEPT ![c].queue = q]
      PROVE  QueueStep /\ ThreadStep(c)
  <2>1. q \in Queue /\ QueueStep
    BY <1>2, FoundType, QueueGetStep
  <2>. QED
    BY <1>1, <1>2, <2>1, QueueGot DEF ThreadStep
<1>3. ASSUME thread' = Goes(c, "past_table"), UNCHANGED queue
      PROVE  QueueStep /\ ThreadStep(c)
  BY <1>1, <1>3, GoesStep, Unchanged DEF Equipped, Pcs, QueueUsers, AssocUsers, NewQids
<1>4. QueueStep
  BY <1>2, <1>3 DEF CmdArrive
<1>5. ThreadStep(c)
  BY <1>2, <1>3 DEF CmdArrive
<1>6. Apart(c)
  BY Distinct DEF Apart, LookPcs
<1>. QED
  BY <1>1, <1>4, <1>5, <1>6, Unchanged, StillHeldUnchanged, AsideStep DEF CmdArrive

LEMMA FindQueueInv ==
    ASSUME Inv, NEW i \in Iod, FindQueue(i)
    PROVE  Inv'
<1>1. /\ i \in Thread /\ thread[i].pc = "find_queue" /\ thread[i].duty = "none"
      /\ thread[i].assoc \in Assoc /\ i \notin Cmd
  BY ReadyKnows DEF FindQueue, ThreadOK, AssocUsers
<1>2. ASSUME NEW q \in Found(thread[i].rqst.of, thread[i].i),
             queue' = [queue EXCEPT ![q].ref = @ + 1],
             thread' = [Goes(i, "delete") EXCEPT ![i].queue = q]
      PROVE  QueueStep /\ ThreadStep(i) /\ thread'[i].pc = "delete"
  <2>. DEFINE a == thread[i].rqst.of  k == thread[i].i
  <2>0. q \in Queue /\ queue[q].ref > 0
    <3>1. q \in Found(a, k)
      OBVIOUS
    <3>. HIDE DEF a, k
    <3>. QED
      BY <3>1, FoundType
  <2>1. q \in Queue /\ QueueStep
    BY <1>2, <2>0, QueueGetStep
  <2>. QED
    BY <1>1, <1>2, <2>1, QueueGot DEF ThreadStep
<1>3. ASSUME NEW pc \in {"put_found", "past_table"}, thread' = Goes(i, pc), UNCHANGED queue
      PROVE  QueueStep /\ ThreadStep(i) /\ thread'[i].pc = pc
  <2>1. Equipped(i, pc) /\ pc \in Pcs
    BY <1>1 DEF Equipped, Pcs, QueueUsers, AssocUsers, NewQids
  <2>. QED
    BY <1>1, <1>3, <2>1, GoesStep, Unchanged
<1>4. QueueStep /\ ThreadStep(i) /\ thread'[i].pc \in {"delete", "put_found", "past_table"}
  BY <1>2, <1>3 DEF FindQueue
<1>5. Apart(i)
  BY <1>1, <1>4, ZenonT(60) DEF Apart, LookPcs
<1>. QED
  BY <1>1, <1>4, <1>5, Unchanged, StillHeldUnchanged, AsideStep DEF FindQueue

LEMMA ScanQueuesInv ==
    ASSUME Inv, NEW t \in Thread, ScanQueues(t)
    PROVE  Inv'
<1>1. /\ thread[t].pc = "scan" /\ thread[t].duty = "none"
      /\ thread[t].assoc \in Assoc /\ t \notin Cmd
  BY ReadyKnows DEF ScanQueues, ThreadOK, AssocUsers
<1>. DEFINE a == thread[t].assoc
<1>2. ASSUME NEW k \in Left(t),
             queue' = [queue EXCEPT ![queues[a][k]].ref = @ + 1],
             thread' = [Goes(t, "delete") EXCEPT ![t].queue = queues[a][k], ![t].i = k]
      PROVE  QueueStep /\ ThreadStep(t) /\ thread'[t].pc = "delete"
  <2>1. k \in 0 .. MaxQid + 1 /\ k \in Qids /\ queues[a][k] # None /\ queue[queues[a][k]].ref > 0
    <3>1. thread[t].i \in 0 .. MaxQid + 1
      BY DEF Inv, TypeOK
    <3>. QED
      BY <3>1 DEF Left, Qids
  <2>2. queues[a][k] \in Queue
    <3>1. queues \in [Assoc -> [Qids -> Queue \union {None}]]
      BY DEF Inv, TypeOK
    <3>. QED
      BY <1>1, <2>1, <3>1
  <2>. DEFINE got == [Goes(t, "delete") EXCEPT ![t].queue = queues[a][k]]
  <2>3. /\ OnlyThread(got, thread, t) /\ ThreadOK(t, got[t])
        /\ got[t].pc = "delete" /\ got[t].duty = "none"
    BY <1>1, <2>2, QueueGot, SMTT(30)
  <2>4. OnlyThread(thread', got, t) /\ Like(thread'[t], got[t], "i")
    <3>1. thread' = [got EXCEPT ![t].i = k]
      BY <1>2
    <3>. QED
      BY <2>1, <2>3, <3>1, SetIndex, ZenonT(60) DEF OnlyThread
  <2>. HIDE DEF got
  <2>5. ThreadStep(t) /\ thread'[t].pc = "delete"
    BY <2>3, <2>4 DEF ThreadStep, OnlyThread, ThreadOK, Like, NewQids
  <2>6. QueueStep
    BY <1>2, <2>1, <2>2, QueueGetStep
  <2>. QED
    BY <2>5, <2>6
<1>3. ASSUME thread' = Goes(t, "put_assoc"), UNCHANGED queue
      PROVE  QueueStep /\ ThreadStep(t) /\ thread'[t].pc = "put_assoc"
  BY <1>1, <1>3, GoesStep, Unchanged DEF Equipped, Pcs, QueueUsers, AssocUsers, NewQids
<1>4. QueueStep /\ ThreadStep(t) /\ thread'[t].pc \in {"delete", "put_assoc"}
  BY <1>2, <1>3 DEF ScanQueues
<1>5. Apart(t)
  BY <1>1, <1>4 DEF Apart, LookPcs
<1>. QED
  BY <1>1, <1>4, <1>5, Unchanged, StillHeldUnchanged, AsideStep, ZenonT(60)
     DEF ScanQueues

\* A reference of a queue is put; the last one leaves its association to be put.
LEMMA QueuePutStep ==
    ASSUME Inv, NEW t \in Thread, NEW pc \in Pcs, thread[t].duty = "none", Equipped(t, pc),
           thread[t].queue \in Queue, queue[thread[t].queue].ref # 0, QueuePut(t, pc)
    PROVE  /\ QueueStep /\ ThreadStep(t) /\ thread'[t].pc = pc
           /\ queues' \in [Assoc -> [Qids -> Queue \union {None}]]
<1>. DEFINE q == thread[t].queue  a == queue[q].assoc  new == Goes(t, pc)
            mid == [new EXCEPT ![t].duty = "put_assoc"]
<1>1. queue \in [Queue -> QueueRec] /\ queue[q] \in QueueRec /\ queue[q].ref > 0 /\ a \in Assoc
  <2>1. queue \in [Queue -> QueueRec]
    BY DEF Inv, TypeOK, QueueRec
  <2>2. queue[q] \in QueueRec /\ queue[q].ref > 0
    BY <2>1 DEF QueueRec
  <2>. QED
    BY <2>1, <2>2 DEF Inv, ObjectsOK
<1>2. queues \in [Assoc -> [Qids -> Queue \union {None}]]
  BY DEF Inv, TypeOK
<1>3. /\ OnlyThread(new, thread, t) /\ ThreadOK(t, new[t]) /\ new[t].pc = pc
      /\ new[t].duty = "none"
  BY GoStep
<1>4. CASE queue[q].ref = 1
  <2>1. queue' = [queue EXCEPT ![q].ref = 0, ![q].st = "freed"] /\ queues' = Cleared(q)
        /\ thread' = [mid EXCEPT ![t].owed = a]
    BY <1>4 DEF QueuePut
  <2>2. queue' \in [Queue -> QueueRec]
    BY <1>1, <2>1 DEF QueueRec
  <2>3. \A x \in Queue : queue'[x].ref > 0 => queue'[x].assoc \in Assoc
    BY <1>1, <2>1, ZenonT(60) DEF Inv, ObjectsOK, QueueRec
  <2>4. queues' \in [Assoc -> [Qids -> Queue \union {None}]]
    BY <1>1, <1>2, <2>1 DEF Cleared
  <2>. HIDE DEF new
  <2>5. /\ OnlyThread(mid, new, t) /\ mid[t].duty = "put_assoc" /\ Like(mid[t], new[t], "duty")
    BY <1>3, SetDuty, ZenonT(60) DEF OnlyThread
  <2>. HIDE DEF mid, a, q
  <2>6. /\ OnlyThread(thread', mid, t) /\ thread'[t].owed = a /\ Like(thread'[t], mid[t], "owed")
    <3>1. mid \in [Thread -> Rec] /\ a \in Assoc \union {None}
      BY <1>1, <2>5 DEF OnlyThread
    <3>. DEFINE owing == [mid EXCEPT ![t].owed = a]
    <3>2. OnlyThread(owing, mid, t) /\ owing[t].owed = a /\ Like(owing[t], mid[t], "owed")
      BY <3>1, SetOwed
    <3>3. thread' = owing
      BY <2>1
    <3>. HIDE DEF owing
    <3>. QED
      BY <3>2, <3>3
  <2>7. OnlyThread(thread', thread, t)
    BY <1>3, <2>5, <2>6 DEF OnlyThread
  <2>8. ThreadOK(t, thread'[t]) /\ thread'[t].pc = pc /\ thread'[t].duty = "put_assoc"
    BY <1>1, <1>3, <2>5, <2>6 DEF ThreadOK, Like
  <2>. QED
    BY <2>2, <2>3, <2>4, <2>7, <2>8 DEF ThreadStep, QueueStep
<1>5. CASE queue[q].ref # 1
  <2>1. /\ queue' = [queue EXCEPT ![q].ref = @ - 1] /\ thread' = new /\ queues' = queues
    BY <1>5 DEF QueuePut
  <2>2. queue' \in [Queue -> QueueRec]
    BY <1>1, <2>1 DEF QueueRec
  <2>3. \A x \in Queue : queue'[x].ref > 0 => queue'[x].assoc \in Assoc
    BY <1>1, <2>1 DEF Inv, ObjectsOK, QueueRec
  <2>. HIDE DEF new
  <2>. QED
    BY <1>2, <1>3, <2>1, <2>2, <2>3 DEF ThreadStep, QueueStep
<1>. QED
  BY <1>4, <1>5

\* What is about to be put has references and has not been freed.
LEMMA NotStale ==
    ASSUME Inv, NEW t \in Thread, ~Stale(t)
    PROVE  /\ thread[t].duty = "none" /\ thread[t].pc \in {"drop", "put_queue", "command"}
                /\ thread[t].queue \in Queue
              => queue[thread[t].queue].ref # 0
           /\ thread[t].duty = "none" /\ thread[t].pc \in {"put_found", "put_assoc", "done"}
                /\ thread[t].assoc \in Assoc
              => assoc[thread[t].assoc].ref # 0 /\ assoc[thread[t].assoc].st # "freed"
           /\ thread[t].duty = "put_assoc" /\ thread[t].owed \in Assoc
              => assoc[thread[t].owed].ref # 0 /\ assoc[thread[t].owed].st # "freed"
           /\ thread[t].duty = "unlist" /\ thread[t].owed \in Assoc
              => assoc[thread[t].owed].st # "freed"
<1>1. (\A x \in Uses(t) : ~Gone(x)) /\ (\A x \in Drops(t) : ~Dropped(x))
  BY DEF Stale
<1>2. ASSUME thread[t].duty = "none", thread[t].pc \in {"drop", "put_queue", "command"},
             thread[t].queue \in Queue
      PROVE  queue[thread[t].queue].ref # 0
  <2>1. thread[t].queue \in Drops(t)
    BY <1>2 DEF Drops
  <2>2. thread[t].queue \notin Assoc
    BY <1>2
  <2>. QED
    BY <1>1, <2>1, <2>2 DEF Dropped
<1>3. ASSUME thread[t].duty = "none", thread[t].pc \in {"put_found", "put_assoc", "done"},
             thread[t].assoc \in Assoc
      PROVE  assoc[thread[t].assoc].ref # 0 /\ assoc[thread[t].assoc].st # "freed"
  <2>1. thread[t].assoc \in Drops(t) /\ thread[t].assoc \in Uses(t)
    BY <1>3 DEF Drops, Uses
  <2>. QED
    BY <1>1, <1>3, <2>1 DEF Dropped, Gone
<1>4. ASSUME thread[t].duty = "put_assoc", thread[t].owed \in Assoc
      PROVE  assoc[thread[t].owed].ref # 0 /\ assoc[thread[t].owed].st # "freed"
  <2>1. thread[t].owed \in Drops(t) /\ thread[t].owed \in Uses(t)
    BY <1>4 DEF Drops, Uses
  <2>. QED
    BY <1>1, <1>4, <2>1 DEF Dropped, Gone
<1>5. ASSUME thread[t].duty = "unlist", thread[t].owed \in Assoc
      PROVE  assoc[thread[t].owed].st # "freed"
  <2>1. thread[t].owed \in Uses(t)
    BY <1>5 DEF Uses
  <2>. QED
    BY <1>1, <1>5, <2>1 DEF Gone
<1>. QED
  BY <1>2, <1>3, <1>4, <1>5

LEMMA DropQueueInv ==
    ASSUME Inv, NEW t \in Thread, DropQueue(t)
    PROVE  Inv'
<1>1. /\ thread[t].pc = "drop" /\ thread[t].duty = "none" /\ thread[t].queue \in Queue
      /\ thread[t].assoc \in Assoc /\ t \notin Cmd /\ ~Stale(t)
  BY ReadyKnows DEF DropQueue, ThreadOK, QueueUsers, AssocUsers, Ready
<1>2. queue[thread[t].queue].ref # 0
  BY <1>1, NotStale
<1>3. Equipped(t, "put_queue") /\ "put_queue" \in Pcs
  BY <1>1 DEF Equipped, Pcs, NewQids
<1>4. /\ QueueStep /\ ThreadStep(t) /\ thread'[t].pc = "put_queue"
      /\ queues' \in [Assoc -> [Qids -> Queue \union {None}]]
  BY <1>1, <1>2, <1>3, QueuePutStep DEF DropQueue
<1>5. RestStep
  BY <1>4 DEF DropQueue, Inv, TypeOK, RestStep, RaceNames
<1>6. Apart(t)
  BY <1>1, <1>4 DEF Apart, LookPcs
<1>. QED
  BY <1>4, <1>5, <1>6, Unchanged, StillHeldUnchanged, AsideStep DEF DropQueue

LEMMA PutQueueInv ==
    ASSUME Inv, NEW t \in Thread, PutQueue(t)
    PROVE  Inv'
<1>. DEFINE pc == IF thread[t].all THEN "scan" ELSE "put_found"
<1>1. /\ thread[t].pc = "put_queue" /\ thread[t].duty = "none" /\ thread[t].queue \in Queue
      /\ thread[t].assoc \in Assoc /\ t \notin Cmd /\ ~Stale(t)
  BY ReadyKnows DEF PutQueue, ThreadOK, QueueUsers, AssocUsers, Ready
<1>2. queue[thread[t].queue].ref # 0
  BY <1>1, NotStale
<1>3. pc \in {"scan", "put_found"}
  OBVIOUS
<1>4. QueuePut(t, pc)
  BY DEF PutQueue
<1>. HIDE DEF pc
<1>5. Equipped(t, pc) /\ pc \in Pcs
  BY <1>1, <1>3 DEF Equipped, Pcs, QueueUsers, NewQids
<1>6. /\ QueueStep /\ ThreadStep(t) /\ thread'[t].pc = pc
      /\ queues' \in [Assoc -> [Qids -> Queue \union {None}]]
  BY <1>1, <1>2, <1>4, <1>5, QueuePutStep
<1>7. RestStep
  BY <1>6 DEF PutQueue, Inv, TypeOK, RestStep, RaceNames
<1>8. Apart(t)
  BY <1>1, <1>3, <1>6 DEF Apart, LookPcs
<1>. QED
  BY <1>6, <1>7, <1>8, Unchanged, StillHeldUnchanged, AsideStep DEF PutQueue

LEMMA CmdEndInv ==
    ASSUME Inv, NEW c \in Cmd, CmdEnd(c)
    PROVE  Inv'
<1>1. /\ c \in Thread /\ thread[c].pc = "command" /\ thread[c].duty = "none"
      /\ thread[c].queue \in Queue /\ ~Stale(c)
  BY ReadyKnows DEF CmdEnd, ThreadOK, QueueUsers, Ready
<1>2. queue[thread[c].queue].ref # 0
  BY <1>1, NotStale
<1>3. Equipped(c, "gone") /\ "gone" \in Pcs
  BY DEF Equipped, Pcs, QueueUsers, AssocUsers, NewQids
<1>4. /\ QueueStep /\ ThreadStep(c)
      /\ queues' \in [Assoc -> [Qids -> Queue \union {None}]]
  BY <1>1, <1>2, <1>3, QueuePutStep DEF CmdEnd
<1>5. RestStep
  BY <1>4 DEF CmdEnd, Inv, TypeOK, RestStep, RaceNames
<1>6. Apart(c)
  BY Distinct DEF Apart, LookPcs
<1>. QED
  BY <1>1, <1>4, <1>5, <1>6, Unchanged, StillHeldUnchanged, AsideStep DEF CmdEnd

\* A reference of an association is put by t, which has moved to th[t].
LEMMA AssocPutStep ==
    ASSUME Inv, NEW t \in Thread, NEW th, OnlyThread(th, thread, t), ThreadOK(t, th[t]),
           th[t].duty = "none", NEW a \in Assoc, assoc[a].ref # 0, assoc[a].st # "freed",
           assoc' = PutOf(a), thread' = AssocPut(th, t, a)
    PROVE  AssocStep /\ StillHeld /\ ThreadStep(t) /\ thread'[t].pc = th[t].pc
<1>1. AssocStep /\ StillHeld /\ assoc'[a].st # "none"
  BY PutOfType DEF Inv, AssocStep, StillHeld
<1>2. /\ thread' \in [Thread -> Rec]
      /\ \A x \in Thread \ {t} : thread'[x] = th[x]
      /\ LET me == thread'[t] IN
         /\ me.pc = th[t].pc /\ me.queue = th[t].queue
         /\ me.assoc = th[t].assoc /\ me.i = th[t].i /\ me.rqst = th[t].rqst
         /\ \/ me.duty = th[t].duty /\ me.owed = th[t].owed
            \/ me.duty = "unlist" /\ me.owed = a
  BY AssocPutType DEF OnlyThread
<1>3. OnlyThread(thread', thread, t)
  BY <1>2 DEF OnlyThread
<1>4. thread'[t].duty = "unlist" => thread'[t].owed = a
  BY <1>2
<1>5. ThreadOK(t, thread'[t])
  BY <1>2 DEF ThreadOK
<1>. QED
  BY <1>1, <1>2, <1>3, <1>4, <1>5 DEF ThreadStep

LEMMA PutFoundInv ==
    ASSUME Inv, NEW i \in Iod, PutFound(i)
    PROVE  Inv'
<1>. DEFINE me == thread[i]  a == me.assoc
            pc == IF me.rqst.kind = "connect" /\ me.queue # None THEN "use_queue"
                  ELSE IF me.rqst.kind = "disconnect" /\ me.queue # None /\ me.rqst.qid = 0
                  THEN "begin" ELSE "respond"
<1>1. /\ i \in Thread /\ me.pc = "put_found" /\ me.duty = "none" /\ a \in Assoc
      /\ me \in Rec /\ i \notin Cmd /\ ~Stale(i)
  BY ReadyKnows DEF PutFound, ThreadOK, AssocUsers, Ready
<1>2. assoc[a].ref # 0 /\ assoc[a].st # "freed"
  BY <1>1, NotStale
<1>3. pc \in {"use_queue", "begin", "respond"} /\ (pc = "use_queue" => me.queue \in Queue)
  BY <1>1 DEF Rec
<1>4. assoc' = PutOf(a) /\ thread' = AssocPut(Goes(i, pc), i, a)
  BY DEF PutFound
<1>. HIDE DEF pc
<1>5. Equipped(i, pc) /\ pc \in Pcs
  BY <1>1, <1>3 DEF Equipped, Pcs, QueueUsers, NewQids
<1>6. LET new == Goes(i, pc) IN
      /\ OnlyThread(new, thread, i) /\ ThreadOK(i, new[i]) /\ new[i].pc = pc
      /\ new[i].duty = "none"
  BY <1>1, <1>5, GoStep
<1>7. AssocStep /\ StillHeld /\ ThreadStep(i) /\ thread'[i].pc = pc
  BY <1>1, <1>2, <1>4, <1>6, AssocPutStep
<1>8. Apart(i)
  BY <1>1, <1>3, <1>7 DEF Apart, LookPcs
<1>. QED
  BY <1>1, <1>7, <1>8, Unchanged, AsideStep DEF PutFound

LEMMA PutAssocInv ==
    ASSUME Inv, NEW t \in Thread, PutAssoc(t)
    PROVE  Inv'
<1>. DEFINE a == thread[t].assoc  pc == IF t \in Iod THEN "respond" ELSE "done"
<1>1. /\ thread[t].pc = "put_assoc" /\ thread[t].duty = "none" /\ a \in Assoc
      /\ t \notin Cmd /\ ~Stale(t)
  BY ReadyKnows DEF PutAssoc, ThreadOK, AssocUsers, Ready
<1>2. assoc[a].ref # 0 /\ assoc[a].st # "freed"
  BY <1>1, NotStale
<1>3. assoc' = PutOf(a) /\ thread' = AssocPut(Goes(t, pc), t, a) /\ pc \in {"respond", "done"}
  BY DEF PutAssoc
<1>. HIDE DEF pc
<1>4. Equipped(t, pc) /\ pc \in Pcs
  BY <1>1, <1>3 DEF Equipped, Pcs, QueueUsers, NewQids
<1>5. LET new == Goes(t, pc) IN
      /\ OnlyThread(new, thread, t) /\ ThreadOK(t, new[t]) /\ new[t].pc = pc
      /\ new[t].duty = "none"
  BY <1>1, <1>4, GoStep
<1>6. AssocStep /\ StillHeld /\ ThreadStep(t) /\ thread'[t].pc = pc
  BY <1>1, <1>2, <1>3, <1>5, AssocPutStep
<1>7. Apart(t)
  BY <1>1, <1>3, <1>6 DEF Apart, LookPcs
<1>. QED
  BY <1>6, <1>7, Unchanged, AsideStep DEF PutAssoc

LEMMA PutDoneInv ==
    ASSUME Inv, NEW t \in {Unreg, Ctrl}, PutDone(t)
    PROVE  Inv'
<1>. DEFINE a == thread[t].assoc  pc == IF t = Unreg THEN "next" ELSE "gone"
<1>1. /\ thread[t].pc = "done" /\ thread[t].duty = "none" /\ a \in Assoc
      /\ t \in Thread /\ ~Stale(t)
  BY ReadyKnows DEF PutDone, ThreadOK, AssocUsers, Ready
<1>2. assoc[a].ref # 0 /\ assoc[a].st # "freed"
  BY <1>1, NotStale
<1>3. assoc' = PutOf(a) /\ thread' = AssocPut(Goes(t, pc), t, a)
  BY DEF PutDone
<1>4. pc \in {"next", "gone"} /\ (t = Unreg => pc = "next") /\ t \notin Iod /\ t # Conf /\ t \notin Cmd
  BY Distinct
<1>. HIDE DEF pc
<1>5. Equipped(t, pc) /\ pc \in Pcs
  BY <1>4 DEF Equipped, Pcs, QueueUsers, AssocUsers, NewQids
<1>6. LET new == Goes(t, pc) IN
      /\ OnlyThread(new, thread, t) /\ ThreadOK(t, new[t]) /\ new[t].pc = pc
      /\ new[t].duty = "none"
  BY <1>1, <1>5, GoStep
<1>7. AssocStep /\ StillHeld /\ ThreadStep(t) /\ thread'[t].pc = pc
  BY <1>1, <1>2, <1>3, <1>6, AssocPutStep
<1>8. Apart(t)
  BY <1>1, <1>4, <1>7 DEF Apart, LookPcs
<1>. QED
  BY <1>1, <1>7, <1>8, Unchanged, AsideStep DEF PutDone

LEMMA FreedQueuePutsInv ==
    ASSUME Inv, NEW t \in Thread, FreedQueuePuts(t)
    PROVE  Inv'
<1>. DEFINE a == thread[t].owed  mid == [thread EXCEPT ![t].duty = "none"]
            th == [mid EXCEPT ![t].owed = None]
<1>1. thread \in [Thread -> Rec] /\ ThreadOK(t, thread[t]) /\ thread[t].duty = "put_assoc"
  BY DEF FreedQueuePuts, Inv, TypeOK, Rec, ThreadsOK
<1>2. a \in Assoc /\ assoc[a].ref # 0 /\ assoc[a].st # "freed"
  <2>1. a \in Assoc
    BY <1>1 DEF ThreadOK
  <2>. QED
    BY <1>1, <2>1, NotStale DEF FreedQueuePuts
<1>3. OnlyThread(mid, thread, t) /\ mid[t].duty = "none" /\ Like(mid[t], thread[t], "duty")
  BY <1>1, SetDuty
<1>4. assoc' = PutOf(a) /\ thread' = AssocPut(th, t, a)
  BY DEF FreedQueuePuts
<1>. HIDE DEF mid
<1>5. OnlyThread(th, mid, t) /\ Like(th[t], mid[t], "owed")
  <2>1. mid \in [Thread -> Rec] /\ None \in Assoc \union {None}
    BY <1>3 DEF OnlyThread
  <2>. QED
    BY <2>1, SetOwed
<1>. HIDE DEF th, a
<1>6. /\ OnlyThread(th, thread, t) /\ th[t].duty = "none" /\ th[t].pc = thread[t].pc
      /\ ThreadOK(t, th[t])
  <2>1. OnlyThread(th, thread, t)
    BY <1>3, <1>5 DEF OnlyThread
  <2>2. /\ th[t].duty = "none" /\ th[t].pc = thread[t].pc /\ th[t].queue = thread[t].queue
        /\ th[t].assoc = thread[t].assoc /\ th[t].i = thread[t].i
        /\ th[t].rqst = thread[t].rqst
    BY <1>3, <1>5 DEF Like
  <2>. QED
    BY <1>1, <2>1, <2>2 DEF ThreadOK
<1>7. AssocStep /\ StillHeld /\ ThreadStep(t) /\ thread'[t].pc = thread[t].pc
  BY <1>2, <1>4, <1>6, AssocPutStep
<1>8. Apart(t)
  BY <1>7 DEF Apart, LookPcs
<1>. QED
  BY <1>7, <1>8, Unchanged, AsideStep DEF FreedQueuePuts

\* Taking a reference of an association that has some.
LEMMA AssocGetStep ==
    ASSUME Inv, NEW a \in Assoc, assoc[a].ref > 0, assoc' = [assoc EXCEPT ![a].ref = @ + 1]
    PROVE  AssocStep /\ StillHeld
<1>1. assoc \in [Assoc -> AssocRec]
  BY DEF Inv, TypeOK, AssocRec
<1>2. assoc' \in [Assoc -> AssocRec]
  BY <1>1 DEF AssocRec
<1>3. \A x \in Assoc : assoc'[x].st = assoc[x].st /\ (x # a => assoc'[x] = assoc[x])
  BY <1>1 DEF AssocRec
<1>4. assoc[a].st # "none"
  BY DEF Inv, ObjectsOK
<1>5. \A x \in Assoc : assoc'[x].st = "none" => assoc[x].st = "none" /\ assoc'[x].ref = 0
  BY <1>3, <1>4 DEF Inv, ObjectsOK
<1>. QED
  BY <1>2, <1>3, <1>5 DEF AssocStep, StillHeld

LEMMA FindAssocInv ==
    ASSUME Inv, NEW i \in Iod, FindAssoc(i)
    PROVE  Inv'
<1>. DEFINE a == thread[i].rqst.assoc
            pc == CASE thread[i].rqst.kind = "connect" -> "alloc_queue"
                    [] thread[i].rqst.kind = "disconnect" -> "find_queue"
                    [] OTHER -> "put_found"
            mid == [thread EXCEPT ![i].assoc = a]
<1>1. /\ i \in Thread /\ thread[i].pc = "find_assoc" /\ thread[i].duty = "none"
      /\ thread[i].rqst.kind = "connect" => thread[i].i \in Qids
      /\ i \notin Cmd
  BY ReadyKnows DEF FindAssoc, ThreadOK
<1>2. thread \in [Thread -> Rec] /\ assoc \in [Assoc -> AssocRec]
  BY DEF Inv, TypeOK, Rec, AssocRec
<1>3. CASE Listed(a)
  <2>1. a \in Assoc
    BY <1>3, ListedType
  <2>2. /\ pc \in {"alloc_queue", "find_queue", "put_found"}
        /\ pc = "alloc_queue" => thread[i].i \in Qids
    BY <1>1
  <2>3. /\ assoc' = AssocGet(a) /\ races' = races \union Race(assoc[a].ref = 0, "dying")
        /\ thread' = [mid EXCEPT ![i].pc = pc]
    BY <1>3 DEF FindAssoc
  <2>4. AssocStep /\ StillHeld
    <3>1. CASE assoc[a].ref > 0
      BY <2>1, <2>3, <3>1, AssocGetStep DEF AssocGet
    <3>2. CASE ~ (assoc[a].ref > 0)
      BY <2>3, <3>2, Unchanged, StillHeldUnchanged DEF AssocGet
    <3>. QED
      BY <3>1, <3>2, SMTT(30)
  <2>5. OnlyThread(mid, thread, i) /\ mid[i].assoc = a /\ Like(mid[i], thread[i], "assoc")
    <3>1. i \in Thread
      BY <1>1
    <3>. HIDE DEF a, pc
    <3>. QED
      BY <1>2, <2>1, <3>1, SetAssoc
  <2>. HIDE DEF mid, pc, a
  <2>6. OnlyThread(thread', mid, i) /\ thread'[i].pc = pc /\ Like(thread'[i], mid[i], "pc")
    <3>1. mid \in [Thread -> Rec] /\ pc \in Pcs
      BY <2>2, <2>5 DEF OnlyThread, Pcs
    <3>. QED
      BY <1>1, <2>3, <3>1, SetPlace, ZenonT(60)
  <2>7. ThreadStep(i) /\ thread'[i].pc \in {"alloc_queue", "find_queue", "put_found"}
    <3>1. /\ thread'[i].assoc = a /\ thread'[i].i = thread[i].i /\ thread'[i].duty = "none"
          /\ thread'[i].pc = pc /\ OnlyThread(thread', thread, i)
      BY <1>1, <2>5, <2>6 DEF Like, OnlyThread
    <3>. QED
      BY <1>1, <2>1, <2>2, <3>1 DEF ThreadStep, ThreadOK, QueueUsers, NewQids
  <2>8. RestStep /\ ("bound" \in races' <=> "bound" \in races)
    BY <2>3 DEF FindAssoc, Inv, TypeOK, RestStep, RaceNames, Race
  <2>9. Apart(i)
    BY <1>1, <2>7 DEF Apart, LookPcs
  <2>. QED
    BY <1>1, <2>4, <2>7, <2>8, <2>9, Unchanged, AsideStep DEF FindAssoc
<1>4. CASE ~Listed(a)
  <2>1. thread' = Goes(i, "respond") /\ UNCHANGED <<assoc, races>>
    BY <1>4 DEF FindAssoc
  <2>2. ThreadStep(i) /\ thread'[i].pc = "respond"
    BY <1>1, <2>1, GoesStep DEF Equipped, Pcs, QueueUsers, AssocUsers, NewQids
  <2>3. Apart(i)
    BY <1>1, <2>2 DEF Apart, LookPcs
  <2>. QED
    BY <1>1, <2>1, <2>2, <2>3, Unchanged, StillHeldUnchanged, AsideStep DEF FindAssoc
<1>. QED
  BY <1>3, <1>4

LEMMA AllocQueueInv ==
    ASSUME Inv, NEW i \in Iod, AllocQueue(i)
    PROVE  Inv'
<1>. DEFINE a == thread[i].assoc
<1>1. /\ i \in Thread /\ thread[i].pc = "alloc_queue" /\ thread[i].duty = "none"
      /\ a \in Assoc /\ thread[i].i \in Qids /\ i \notin Cmd
  BY ReadyKnows DEF AllocQueue, ThreadOK, AssocUsers, NewQids
<1>2. ASSUME NEW q \in Queue, assoc[a].ref > 0,
             queue' = [queue EXCEPT ![q] = [st |-> "live", ref |-> 1, assoc |-> a,
                                            qid |-> thread[i].i, connected |-> FALSE]],
             assoc' = [assoc EXCEPT ![a] = Counted(a)],
             thread' = [Goes(i, "publish") EXCEPT ![i].queue = q]
      PROVE  AssocStep /\ StillHeld /\ QueueStep /\ ThreadStep(i) /\ thread'[i].pc = "publish"
  <2>. DEFINE new == [st |-> "live", ref |-> 1, assoc |-> a,
                      qid |-> thread[i].i, connected |-> FALSE]
  <2>1. new \in QueueRec /\ new.assoc \in Assoc
    BY <1>1 DEF QueueRec
  <2>2. queue \in [Queue -> QueueRec]
    BY DEF Inv, TypeOK, QueueRec
  <2>3. queue' = [queue EXCEPT ![q] = new]
    BY <1>2
  <2>. HIDE DEF new
  <2>4. QueueStep
    BY <2>1, <2>2, <2>3 DEF QueueStep, Inv, ObjectsOK
  <2>5. assoc' = [assoc EXCEPT ![a].ref = @ + 1]
    <3>1. assoc \in [Assoc -> AssocRec]
      BY DEF Inv, TypeOK, AssocRec
    <3>. QED
      BY <1>1, <1>2, <3>1 DEF Counted, AssocRec
  <2>6. AssocStep /\ StillHeld
    BY <1>1, <1>2, <2>5, AssocGetStep
  <2>7. ThreadStep(i) /\ thread'[i].pc = "publish"
    BY <1>1, <1>2, QueueGot DEF ThreadStep
  <2>. QED
    BY <2>4, <2>6, <2>7
<1>3. ASSUME thread' = Goes(i, AfterFailure(i)), UNCHANGED <<queue, assoc>>
      PROVE  /\ AssocStep /\ StillHeld /\ QueueStep /\ ThreadStep(i)
             /\ thread'[i].pc \in {"respond", "put_found"}
  <2>1. AfterFailure(i) \in {"respond", "put_found"}
    BY DEF AfterFailure
  <2>2. Equipped(i, AfterFailure(i)) /\ AfterFailure(i) \in Pcs
    BY <1>1, <2>1 DEF Equipped, Pcs, QueueUsers, NewQids
  <2>. QED
    BY <1>1, <1>3, <2>1, <2>2, GoesStep, Unchanged, StillHeldUnchanged
<1>4. /\ AssocStep /\ StillHeld /\ QueueStep /\ ThreadStep(i)
      /\ thread'[i].pc \in {"publish", "respond", "put_found"}
  BY <1>2, <1>3 DEF AllocQueue
<1>5. Apart(i)
  BY <1>1, <1>4 DEF Apart, LookPcs
<1>. QED
  BY <1>1, <1>4, <1>5, Unchanged, AsideStep DEF AllocQueue

LEMMA PublishInv ==
    ASSUME Inv, NEW i \in Iod, Publish(i)
    PROVE  Inv'
<1>. DEFINE pc == IF thread[i].rqst.kind = "create" THEN "use_queue" ELSE "put_found"
<1>1. /\ i \in Thread /\ thread[i].pc = "publish" /\ thread[i].duty = "none"
      /\ thread[i].assoc \in Assoc /\ thread[i].queue \in Queue /\ thread[i].i \in Qids
      /\ i \notin Cmd
  BY ReadyKnows DEF Publish, ThreadOK, QueueUsers, AssocUsers, NewQids
<1>2. pc \in {"use_queue", "put_found"} /\ thread' = Goes(i, pc)
  BY DEF Publish
<1>. HIDE DEF pc
<1>3. Equipped(i, pc) /\ pc \in Pcs
  BY <1>1, <1>2 DEF Equipped, Pcs, NewQids
<1>4. ThreadStep(i) /\ thread'[i].pc = pc
  BY <1>1, <1>2, <1>3, GoesStep
<1>5. queues' \in [Assoc -> [Qids -> Queue \union {None}]]
  <2>1. queues \in [Assoc -> [Qids -> Queue \union {None}]]
    BY DEF Inv, TypeOK
  <2>. QED
    BY <1>1, <2>1 DEF Publish
<1>6. RestStep /\ ("bound" \in races' <=> "bound" \in races)
  BY <1>5 DEF Publish, Inv, TypeOK, RestStep, RaceNames, Race
<1>7. Apart(i)
  BY <1>1, <1>2, <1>4 DEF Apart, LookPcs
<1>. QED
  BY <1>1, <1>4, <1>6, <1>7, Unchanged, StillHeldUnchanged, AsideStep DEF Publish

LEMMA FreeAssocsInv ==
    ASSUME Inv, FreeAssocs
    PROVE  Inv'
<1>1. /\ Unreg \in Thread /\ thread[Unreg].pc \in {"idle", "next"}
      /\ thread[Unreg].duty = "none" /\ Unreg \notin Cmd /\ Unreg \notin Iod /\ Unreg # Conf
  BY ReadyKnows DEF FreeAssocs
<1>2. ASSUME NEW j \in DOMAIN assoc_list, assoc[assoc_list[j]].ref > 0,
             assoc' = [assoc EXCEPT ![assoc_list[j]].ref = @ + 1],
             thread' = [Goes(Unreg, "begin") EXCEPT ![Unreg].assoc = assoc_list[j],
                                                    ![Unreg].next = After(j)]
      PROVE  AssocStep /\ StillHeld /\ ThreadStep(Unreg) /\ thread'[Unreg].pc = "begin"
  <2>. DEFINE a == assoc_list[j]  new == Goes(Unreg, "begin")
              mid == [new EXCEPT ![Unreg].assoc = a]
  <2>1. a \in Assoc /\ After(j) \in Assoc \union {None}
    <3>1. assoc_list \in Seq(Assoc)
      BY DEF Inv, TypeOK
    <3>. QED
      BY <3>1 DEF After
  <2>2. AssocStep /\ StillHeld
    BY <1>2, <2>1, AssocGetStep
  <2>3. /\ OnlyThread(new, thread, Unreg) /\ new[Unreg].pc = "begin"
        /\ new[Unreg].duty = "none"
    <3>1. "begin" \in Pcs
      BY DEF Pcs
    <3>2. new \in [Thread -> Rec] /\ (\A x \in Thread \ {Unreg} : new[x] = thread[x])
          /\ new[Unreg] = [thread[Unreg] EXCEPT !.pc = "begin"]
      BY <1>1, <3>1, GoesType DEF Inv
    <3>3. thread[Unreg] \in Rec
      BY <1>1 DEF Inv, TypeOK, Rec
    <3>. QED
      BY <1>1, <3>2, <3>3 DEF OnlyThread, Rec
  <2>4. thread' = [mid EXCEPT ![Unreg].next = After(j)]
    BY <1>2
  <2>. HIDE DEF new, a
  <2>5. OnlyThread(mid, new, Unreg) /\ mid[Unreg].assoc = a /\ Like(mid[Unreg], new[Unreg], "assoc")
    BY <1>1, <2>1, <2>3, SetAssoc DEF OnlyThread
  <2>. HIDE DEF mid
  <2>6. OnlyThread(thread', mid, Unreg) /\ Like(thread'[Unreg], mid[Unreg], "next")
    BY <1>1, <2>1, <2>4, <2>5, SetNext DEF OnlyThread
  <2>7. OnlyThread(thread', thread, Unreg)
    BY <2>3, <2>5, <2>6 DEF OnlyThread
  <2>8. /\ thread'[Unreg].pc = "begin" /\ thread'[Unreg].duty = "none"
        /\ thread'[Unreg].assoc = a
    BY <2>3, <2>5, <2>6 DEF Like
  <2>9. ThreadStep(Unreg)
    BY <1>1, <2>1, <2>7, <2>8 DEF ThreadStep, ThreadOK, QueueUsers, NewQids
  <2>. QED
    BY <2>2, <2>8, <2>9
<1>3. ASSUME thread' = Goes(Unreg, "unregister"), UNCHANGED assoc
      PROVE  AssocStep /\ StillHeld /\ ThreadStep(Unreg) /\ thread'[Unreg].pc = "unregister"
  BY <1>1, <1>3, GoesStep, Unchanged, StillHeldUnchanged
     DEF Equipped, Pcs, QueueUsers, AssocUsers, NewQids
<1>4. /\ AssocStep /\ StillHeld /\ ThreadStep(Unreg)
      /\ thread'[Unreg].pc \in {"begin", "unregister"}
  BY <1>2, <1>3 DEF FreeAssocs
<1>5. Apart(Unreg)
  BY <1>1, <1>4 DEF Apart, LookPcs
<1>. QED
  BY <1>1, <1>4, <1>5, Unchanged, AsideStep DEF FreeAssocs

LEMMA FindCtrlInv ==
    ASSUME Inv, FindCtrl
    PROVE  Inv'
<1>1. /\ Ctrl \in Thread /\ thread[Ctrl].duty = "none" /\ thread[Ctrl].pc = "find_ctrl"
      /\ Ctrl \notin Cmd /\ Ctrl \notin Iod /\ Ctrl # Conf /\ Ctrl # Unreg
  BY ReadyKnows DEF FindCtrl
<1>2. ASSUME NEW a \in Assoc, assoc[a].ref > 0, assoc' = AssocGet(a),
             thread' = [Goes(Ctrl, "put_port") EXCEPT ![Ctrl].assoc = a]
      PROVE  AssocStep /\ StillHeld /\ ThreadStep(Ctrl) /\ thread'[Ctrl].pc = "put_port"
  <2>. DEFINE new == Goes(Ctrl, "put_port")
  <2>1. AssocStep /\ StillHeld
    BY <1>2, AssocGetStep DEF AssocGet
  <2>2. /\ OnlyThread(new, thread, Ctrl) /\ new[Ctrl].pc = "put_port"
        /\ new[Ctrl].duty = "none"
    <3>1. "put_port" \in Pcs
      BY DEF Pcs
    <3>2. new \in [Thread -> Rec] /\ (\A x \in Thread \ {Ctrl} : new[x] = thread[x])
          /\ new[Ctrl] = [thread[Ctrl] EXCEPT !.pc = "put_port"]
      BY <1>1, <3>1, GoesType DEF Inv
    <3>3. thread[Ctrl] \in Rec
      BY <1>1 DEF Inv, TypeOK, Rec
    <3>. QED
      BY <1>1, <3>2, <3>3 DEF OnlyThread, Rec
  <2>3. thread' = [new EXCEPT ![Ctrl].assoc = a]
    BY <1>2
  <2>. HIDE DEF new
  <2>4. /\ OnlyThread(thread', new, Ctrl) /\ thread'[Ctrl].assoc = a
        /\ Like(thread'[Ctrl], new[Ctrl], "assoc")
    BY <1>1, <2>2, <2>3, SetAssoc DEF OnlyThread
  <2>5. OnlyThread(thread', thread, Ctrl)
    BY <2>2, <2>4 DEF OnlyThread
  <2>6. ThreadStep(Ctrl) /\ thread'[Ctrl].pc = "put_port"
    BY <1>1, <2>2, <2>4, <2>5 DEF ThreadStep, ThreadOK, Like, QueueUsers, AssocUsers, NewQids
  <2>. QED
    BY <2>1, <2>6
<1>3. ASSUME thread' = Goes(Ctrl, "put_port"), UNCHANGED assoc
      PROVE  AssocStep /\ StillHeld /\ ThreadStep(Ctrl) /\ thread'[Ctrl].pc = "put_port"
  BY <1>1, <1>3, GoesStep, Unchanged, StillHeldUnchanged
     DEF Equipped, Pcs, QueueUsers, AssocUsers, NewQids
<1>4. AssocStep /\ StillHeld /\ ThreadStep(Ctrl) /\ thread'[Ctrl].pc = "put_port"
  BY <1>2, <1>3 DEF FindCtrl
<1>5. Apart(Ctrl)
  BY <1>1, <1>4 DEF Apart, LookPcs
<1>. QED
  BY <1>1, <1>4, <1>5, Unchanged, AsideStep DEF FindCtrl

-----------------------------------------------------------------------------
(* Steps of the port itself.                                               *)

LEMMA FreeTgtportInv ==
    ASSUME Inv, NEW t \in Thread, FreeTgtport(t)
    PROVE  Inv'
<1>1. thread \in [Thread -> Rec] /\ ThreadOK(t, thread[t])
  BY DEF Inv, TypeOK, Rec, ThreadsOK
<1>2. /\ OnlyThread(thread', thread, t) /\ thread'[t].duty = "none"
      /\ Like(thread'[t], thread[t], "duty")
  BY <1>1, SetDuty DEF FreeTgtport
<1>3. ThreadStep(t)
  BY <1>1, <1>2 DEF ThreadStep, ThreadOK, Like
<1>4. tgt' \in TgtRec /\ tgt'.ref = tgt.ref /\ tgt'.port = tgt.port
  <2>1. tgt \in TgtRec
    BY DEF Inv, TypeOK, TgtRec
  <2>. QED
    BY <2>1 DEF FreeTgtport, TgtRec
<1>5. Apart(t)
  BY <1>2 DEF Apart, LookPcs, Like
<1>6. TypeOK' /\ ThreadsOK' /\ ObjectsOK'
  BY <1>3, <1>4, Types, Unchanged DEF FreeTgtport
<1>7. UserOK' /\ TgtRefsExact'
  BY <1>3, <1>4, <1>5, Aside, StillHeldUnchanged DEF FreeTgtport, ThreadStep
<1>. QED
  BY <1>6, <1>7 DEF Inv

\* One more member, or one less.
LEMMA OneMore ==
    ASSUME NEW S, IsFiniteSet(S), NEW x, x \notin S
    PROVE  Cardinality(S \union {x}) = Cardinality(S) + 1
  BY FS_AddElement

LEMMA OneLess ==
    ASSUME NEW S, IsFiniteSet(S), NEW x \in S
    PROVE  Cardinality(S) \in Nat /\ Cardinality(S) > 0
           /\ Cardinality(S \ {x}) = Cardinality(S) - 1
<1>1. IsFiniteSet(S \ {x}) /\ Cardinality(S \ {x}) = Cardinality(S) - 1
  BY FS_RemoveElement
<1>2. Cardinality(S) \in Nat /\ Cardinality(S \ {x}) \in Nat
  BY <1>1, FS_CardinalityType
<1>. QED
  BY <1>1, <1>2

LEMMA TgtLessType ==
    ASSUME Inv, tgt.ref > 0
    PROVE  TgtLess \in TgtRec /\ TgtLess.ref = tgt.ref - 1 /\ TgtLess.port = tgt.port
<1>1. tgt \in TgtRec
  BY DEF Inv, TypeOK, TgtRec
<1>2. tgt.ref - 1 \in Nat
  BY <1>1 DEF TgtRec
<1>3. CASE tgt.ref = 1
  <2>1. TgtLess = [tgt EXCEPT !.ref = @ - 1, !.st = "dying"]
    BY <1>3 DEF TgtLess
  <2>. QED
    BY <1>1, <1>2, <2>1 DEF TgtRec
<1>4. CASE tgt.ref # 1
  <2>1. TgtLess = [tgt EXCEPT !.ref = @ - 1, !.st = @]
    BY <1>4 DEF TgtLess
  <2>. QED
    BY <1>1, <1>2, <2>1 DEF TgtRec
<1>. QED
  BY <1>3, <1>4

LEMMA TgtGetType ==
    ASSUME Inv
    PROVE  TgtGet \in TgtRec /\ TgtGet.ref = tgt.ref + 1 /\ TgtGet.port = tgt.port
<1>1. tgt \in TgtRec
  BY DEF Inv, TypeOK, TgtRec
<1>. QED
  BY <1>1 DEF TgtGet, TgtRec

\* Whether t holds the port does not matter to whether another thread does.
LEMMA Elsewhere ==
    ASSUME NEW t \in Thread, OnlyThread(thread', thread, t)
    PROVE  /\ (t \in Iod => (thread[t].pc = "idle" <=> thread'[t].pc = "idle"))
                => Serving' = Serving
           /\ (t = Unreg => (thread[t].pc = "gone" <=> thread'[t].pc = "gone"))
                => Registered' = Registered
           /\ (t = Ctrl => (thread[t].pc \in LookPcs <=> thread'[t].pc \in LookPcs))
                => Looking' = Looking
<1>1. ASSUME t \in Iod => (thread[t].pc = "idle" <=> thread'[t].pc = "idle")
      PROVE  Serving' = Serving
  <2>1. \A i \in Iod : thread'[i].pc = "idle" <=> thread[i].pc = "idle"
    BY <1>1 DEF OnlyThread, Thread
  <2>. QED
    BY <2>1 DEF Serving
<1>2. ASSUME t = Unreg => (thread[t].pc = "gone" <=> thread'[t].pc = "gone")
      PROVE  Registered' = Registered
  <2>1. thread'[Unreg].pc = "gone" <=> thread[Unreg].pc = "gone"
    BY <1>2 DEF OnlyThread, Thread
  <2>. QED
    BY <2>1 DEF Registered
<1>3. ASSUME t = Ctrl => (thread[t].pc \in LookPcs <=> thread'[t].pc \in LookPcs)
      PROVE  Looking' = Looking
  <2>1. thread'[Ctrl].pc \in LookPcs <=> thread[Ctrl].pc \in LookPcs
    BY <1>3 DEF OnlyThread, Thread
  <2>. QED
    BY <2>1 DEF Looking
<1>. QED
  BY <1>1, <1>2, <1>3

\* The numbers the count is made of.
LEMMA Counts ==
    ASSUME Inv
    PROVE  /\ tgt.ref \in Nat /\ User \in {0, 1}
           /\ tgt.ref = Cardinality(Registered) + User + Cardinality(Held) + Cardinality(Serving)
                        + Cardinality(Looking)
           /\ IsFiniteSet(Registered) /\ IsFiniteSet(Held) /\ IsFiniteSet(Serving)
           /\ IsFiniteSet(Looking)
           /\ Cardinality(Registered) \in Nat /\ Cardinality(Held) \in Nat
           /\ Cardinality(Serving) \in Nat /\ Cardinality(Looking) \in Nat
<1>1. /\ Registered \in SUBSET {Unreg} /\ Held \in SUBSET Assoc /\ Serving \in SUBSET Iod
      /\ Looking \in SUBSET {Ctrl}
  BY DEF Registered, Held, Serving, Looking
<1>2. tgt.ref \in Nat
  BY DEF Inv, TypeOK
<1>. QED
  BY <1>1, <1>2, Sizes, PortCount DEF Inv, User

LEMMA AssocFreeInv ==
    ASSUME Inv, NEW t \in Thread, AssocFree(t)
    PROVE  Inv'
<1>. DEFINE a == thread[t].owed  one == [thread EXCEPT ![t].duty = "none"]
            two == [one EXCEPT ![t].owed = None]
<1>1. thread \in [Thread -> Rec] /\ ThreadOK(t, thread[t]) /\ thread[t].duty = "unlist"
  BY DEF AssocFree, Inv, TypeOK, Rec, ThreadsOK
<1>2. a \in Assoc /\ assoc[a].st \notin {"none", "freed"}
  <2>1. a \in Assoc
    BY <1>1 DEF ThreadOK
  <2>. QED
    BY <1>1, <2>1, NotStale DEF AssocFree, Inv, ObjectsOK
<1>3. assoc \in [Assoc -> AssocRec] /\ a \in Held
  <2>1. assoc \in [Assoc -> AssocRec]
    BY DEF Inv, TypeOK, AssocRec
  <2>. QED
    BY <1>2, <2>1 DEF Held, AssocRec
<1>4. Cardinality(Held \ {a}) = Cardinality(Held) - 1 /\ tgt.ref > 0
  <2>1. IsFiniteSet(Held)
    BY Counts
  <2>2. Cardinality(Held \ {a}) = Cardinality(Held) - 1 /\ Cardinality(Held) > 0
    BY <1>3, <2>1, OneLess
  <2>. QED
    BY <2>2, Counts
<1>5. assoc' = [assoc EXCEPT ![a].st = "freed"] /\ tgt' = TgtLess /\ thread' = TgtPut(two, t)
  BY DEF AssocFree
<1>6. OnlyThread(one, thread, t) /\ one[t].duty = "none" /\ Like(one[t], thread[t], "duty")
  BY <1>1, SetDuty
<1>. HIDE DEF one
<1>7. OnlyThread(two, one, t) /\ Like(two[t], one[t], "owed")
  <2>1. one \in [Thread -> Rec] /\ None \in Assoc \union {None}
    BY <1>6 DEF OnlyThread
  <2>. QED
    BY <2>1, SetOwed
<1>. HIDE DEF two, a
<1>8. /\ OnlyThread(thread', two, t)
      /\ LET me == thread'[t] IN
         /\ me.pc = two[t].pc /\ me.queue = two[t].queue /\ me.assoc = two[t].assoc
         /\ me.i = two[t].i /\ me.rqst = two[t].rqst /\ me.duty \in {two[t].duty, "free_port"}
  BY <1>5, <1>7, TgtPutType DEF OnlyThread
<1>9. OnlyThread(thread', thread, t)
  BY <1>6, <1>7, <1>8 DEF OnlyThread
<1>10. /\ thread'[t].pc = thread[t].pc /\ thread'[t].queue = thread[t].queue
       /\ thread'[t].assoc = thread[t].assoc /\ thread'[t].i = thread[t].i
       /\ thread'[t].rqst = thread[t].rqst
       /\ thread'[t].duty \in {"none", "free_port"}
  BY <1>6, <1>7, <1>8 DEF Like
<1>11. ThreadStep(t)
  BY <1>1, <1>9, <1>10 DEF ThreadStep, ThreadOK
<1>12. assoc' \in [Assoc -> AssocRec] /\ assoc'[a].st = "freed"
       /\ \A x \in Assoc \ {a} : assoc'[x] = assoc[x]
  BY <1>2, <1>3, <1>5 DEF AssocRec
<1>13. AssocStep
  BY <1>12 DEF AssocStep, Inv, ObjectsOK
<1>14. Held' = Held \ {a}
  BY <1>12 DEF Held
<1>15. tgt' \in TgtRec /\ tgt'.ref = tgt.ref - 1 /\ tgt'.port = tgt.port
  BY <1>4, <1>5, TgtLessType
<1>16. RestStep /\ ("bound" \in races' <=> "bound" \in races)
  <2>1. assoc_list' \in Seq(Assoc)
    BY UnlistedType DEF AssocFree, Inv
  <2>. QED
    BY <2>1 DEF AssocFree, Inv, TypeOK, RestStep, RaceNames, Race
<1>17. TypeOK' /\ ThreadsOK' /\ ObjectsOK'
  BY <1>11, <1>13, <1>15, <1>16, Types, Unchanged DEF AssocFree
<1>18. Serving' = Serving /\ Registered' = Registered /\ Looking' = Looking
  BY <1>9, <1>10, Elsewhere DEF LookPcs
<1>19. User' = User
  BY <1>15, <1>16 DEF User
<1>20. TgtRefsExact'
  BY <1>4, <1>14, <1>15, <1>18, <1>19, Counts, PortCountNext
<1>21. UserOK'
  <2>1. "bound" \notin races'
    BY <1>4, <1>16 DEF Inv, UserOK
  <2>2. thread'[Conf].pc = thread[Conf].pc
    BY <1>9, <1>10 DEF OnlyThread, Thread
  <2>. QED
    BY <1>15, <2>1, <2>2 DEF Inv, UserOK
<1>. QED
  BY <1>17, <1>20, <1>21 DEF Inv

\* What a step of another thread than the user's leaves of UserOK.
LEMMA UserElsewhere ==
    ASSUME Inv, NEW t \in Thread, OnlyThread(thread', thread, t), t # Conf,
           tgt'.port = tgt.port, "bound" \in races' <=> "bound" \in races,
           tgt.ref > 0
    PROVE  UserOK'
<1>1. thread'[Conf].pc = thread[Conf].pc
  BY DEF OnlyThread, Thread
<1>. QED
  BY <1>1 DEF Inv, UserOK

LEMMA RcvLsReqInv ==
    ASSUME Inv, NEW i \in Iod, RcvLsReq(i)
    PROVE  Inv'
<1>1. /\ i \in Thread /\ thread[i] \in Rec /\ thread[i].pc = "idle" /\ thread[i].duty = "none"
      /\ i \notin Cmd /\ i # Unreg /\ i # Conf /\ i # Ctrl /\ tgt.ref > 0
  BY ReadyKnows DEF RcvLsReq
<1>2. PICK r \in Requests :
        thread' = [thread EXCEPT
            ![i].rqst = r, ![i].i = r.qid,
            ![i].pc = CASE r.kind = "create" -> "alloc_assoc"
                        [] r.kind = "other" -> "respond"
                        [] OTHER -> "find_assoc"]
  BY DEF RcvLsReq
<1>. DEFINE pc == CASE r.kind = "create" -> "alloc_assoc"
                    [] r.kind = "other" -> "respond"
                    [] OTHER -> "find_assoc"
            me == [thread[i] EXCEPT !.rqst = r, !.i = r.qid, !.pc = pc]
<1>3. /\ r.qid \in 0 .. MaxQid + 1
      /\ r.kind \in {"create", "connect"} => r.qid \in Qids
  <2>1. 0 \in Qids /\ Qids \subseteq 0 .. MaxQid + 1 /\ Beyond \in 0 .. MaxQid + 1
    BY DEF Qids, Beyond
  <2>2. r.qid \in Qids \union {Beyond}
    BY <2>1 DEF Requests
  <2>3. r.kind \in {"create", "connect"} => r.qid \in Qids
    BY <2>1 DEF Requests
  <2>. QED
    BY <2>1, <2>2, <2>3
<1>4. /\ pc \in {"alloc_assoc", "respond", "find_assoc"}
      /\ pc = "alloc_assoc" => r.kind = "create"
  OBVIOUS
<1>5. thread \in [Thread -> Rec]
  BY DEF Inv, TypeOK, Rec
<1>6. thread' = [thread EXCEPT ![i] = me]
  BY <1>1, <1>2, <1>5 DEF Rec
<1>. HIDE DEF pc
<1>7. /\ me \in Rec /\ me.pc = pc /\ me.i = r.qid /\ me.duty = "none"
      /\ me.rqst = r
  BY <1>1, <1>3, <1>4, ZenonT(60) DEF Rec, Pcs
<1>. HIDE DEF me
<1>8. OnlyThread(thread', thread, i) /\ thread'[i] = me
  BY <1>1, <1>5, <1>6, <1>7, Changed DEF OnlyThread
<1>9. ThreadStep(i)
  BY <1>1, <1>3, <1>4, <1>7, <1>8 DEF ThreadStep, ThreadOK, QueueUsers, AssocUsers, NewQids
<1>10. tgt' \in TgtRec /\ tgt'.ref = tgt.ref + 1 /\ tgt'.port = tgt.port
  BY TgtGetType DEF RcvLsReq
<1>11. RestStep
  <2>1. left' \in 0 .. MaxLs
    <3>1. left \in 0 .. MaxLs
      BY DEF Inv, TypeOK
    <3>2. left > 0 /\ left' = left - 1
      BY DEF RcvLsReq
    <3>. QED
      BY <3>1, <3>2
  <2>. QED
    BY <2>1 DEF RcvLsReq, Inv, TypeOK, RestStep, RaceNames
<1>12. TypeOK' /\ ThreadsOK' /\ ObjectsOK'
  BY <1>1, <1>9, <1>10, <1>11, Types, Unchanged DEF RcvLsReq
<1>13. Serving' = Serving \union {i} /\ i \notin Serving
  <2>1. \A x \in Iod \ {i} : thread'[x] = thread[x]
    BY <1>8 DEF OnlyThread, Thread
  <2>. QED
    BY <1>1, <1>4, <1>7, <1>8, <2>1 DEF Serving
<1>14. Cardinality(Serving') = Cardinality(Serving) + 1
  BY <1>13, Counts, OneMore
<1>15. Held' = Held /\ Registered' = Registered /\ User' = User /\ Looking' = Looking
  <2>1. Registered' = Registered /\ Looking' = Looking
    BY <1>1, <1>8, Elsewhere DEF LookPcs
  <2>. QED
    BY <1>10, <2>1 DEF RcvLsReq, Held, User
<1>16. TgtRefsExact'
  BY <1>10, <1>14, <1>15, Counts, PortCountNext
<1>17. UserOK'
  BY <1>1, <1>8, <1>10, UserElsewhere DEF RcvLsReq
<1>. QED
  BY <1>12, <1>16, <1>17 DEF Inv

LEMMA AllocAssocInv ==
    ASSUME Inv, NEW i \in Iod, AllocAssoc(i)
    PROVE  Inv'
<1>1. /\ i \in Thread /\ thread[i].pc = "alloc_assoc" /\ thread[i].duty = "none"
      /\ thread[i].i \in Qids /\ i \notin Cmd /\ i # Unreg /\ i # Conf /\ i # Ctrl
  BY ReadyKnows DEF AllocAssoc, ThreadOK, NewQids
<1>2. ASSUME NEW a \in Assoc, assoc[a].st = "none",
             assoc' = [assoc EXCEPT ![a] = [st |-> "live", ref |-> 1]],
             assoc_list' = Append(assoc_list, a), tgt' = TgtGet,
             thread' = [Goes(i, "alloc_queue") EXCEPT ![i].assoc = a],
             races' = races \union Race(thread[Unreg].pc # "idle", "late")
      PROVE  Inv'
  <2>. DEFINE new == Goes(i, "alloc_queue")
  <2>1. /\ OnlyThread(new, thread, i) /\ new[i].pc = "alloc_queue"
        /\ new[i].duty = "none" /\ new[i].i = thread[i].i
    <3>1. "alloc_queue" \in Pcs
      BY DEF Pcs
    <3>2. new \in [Thread -> Rec] /\ (\A x \in Thread \ {i} : new[x] = thread[x])
          /\ new[i] = [thread[i] EXCEPT !.pc = "alloc_queue"]
      BY <1>1, <3>1, GoesType DEF Inv
    <3>3. thread[i] \in Rec
      BY <1>1 DEF Inv, TypeOK, Rec
    <3>. QED
      BY <1>1, <3>2, <3>3 DEF OnlyThread, Rec
  <2>2. thread' = [new EXCEPT ![i].assoc = a]
    BY <1>2
  <2>. HIDE DEF new
  <2>3. OnlyThread(thread', new, i) /\ thread'[i].assoc = a /\ Like(thread'[i], new[i], "assoc")
    <3>1. new \in [Thread -> Rec]
      BY <2>1 DEF OnlyThread
    <3>. DEFINE got == [new EXCEPT ![i].assoc = a]
    <3>2. OnlyThread(got, new, i) /\ got[i].assoc = a /\ Like(got[i], new[i], "assoc")
      BY <1>1, <3>1, SetAssoc
    <3>3. thread' = got
      BY <2>2
    <3>. HIDE DEF got
    <3>. QED
      BY <3>2, <3>3
  <2>4. OnlyThread(thread', thread, i)
    BY <2>1, <2>3 DEF OnlyThread
  <2>5. ThreadStep(i) /\ thread'[i].pc = "alloc_queue"
    BY <1>1, <2>1, <2>3, <2>4 DEF ThreadStep, ThreadOK, Like, QueueUsers
  <2>6. assoc' \in [Assoc -> AssocRec] /\ assoc'[a].st = "live"
        /\ \A x \in Assoc \ {a} : assoc'[x] = assoc[x]
    <3>1. assoc \in [Assoc -> AssocRec]
      BY DEF Inv, TypeOK, AssocRec
    <3>. QED
      BY <1>2, <3>1 DEF AssocRec
  <2>7. AssocStep
    BY <2>6 DEF AssocStep, Inv, ObjectsOK
  <2>8. Held' = Held \union {a} /\ a \notin Held
    BY <1>2, <2>6 DEF Held
  <2>9. Cardinality(Held') = Cardinality(Held) + 1
    BY <2>8, Counts, OneMore
  <2>10. Serving' = Serving /\ Registered' = Registered /\ Looking' = Looking
    BY <1>1, <2>4, <2>5, Elsewhere DEF LookPcs
  <2>11. tgt' \in TgtRec /\ tgt'.ref = tgt.ref + 1 /\ tgt'.port = tgt.port
    BY <1>2, TgtGetType
  <2>12. "bound" \in races' <=> "bound" \in races
    BY <1>2 DEF Race
  <2>13. RestStep
    <3>1. assoc_list' \in Seq(Assoc)
      <4>1. assoc_list \in Seq(Assoc)
        BY DEF Inv, TypeOK
      <4>. QED
        BY <1>2, <4>1, AppendProperties
    <3>. QED
      BY <1>2, <3>1 DEF AllocAssoc, Inv, TypeOK, RestStep, RaceNames, Race
  <2>14. TypeOK' /\ ThreadsOK' /\ ObjectsOK'
    BY <1>1, <2>5, <2>7, <2>11, <2>13, Types, Unchanged DEF AllocAssoc
  <2>15. User' = User
    BY <2>11, <2>12 DEF User
  <2>16. TgtRefsExact'
    BY <2>9, <2>10, <2>11, <2>15, Counts, PortCountNext
  <2>17. tgt.ref > 0
    <3>1. i \in Serving /\ IsFiniteSet(Serving)
      BY <1>1, Counts DEF Serving
    <3>2. Cardinality(Serving) > 0
      BY <3>1, OneLess
    <3>. QED
      BY <3>2, Counts
  <2>18. UserOK'
    BY <1>1, <2>4, <2>11, <2>12, <2>17, UserElsewhere
  <2>. QED
    BY <2>14, <2>16, <2>18 DEF Inv
<1>3. ASSUME thread' = Goes(i, "respond"), UNCHANGED <<tgt, assoc_list, assoc, races>>
      PROVE  Inv'
  <2>1. ThreadStep(i) /\ thread'[i].pc = "respond"
    BY <1>1, <1>3, GoesStep DEF Equipped, Pcs, QueueUsers, AssocUsers, NewQids
  <2>2. Apart(i)
    BY <1>1, <2>1 DEF Apart, LookPcs
  <2>. QED
    BY <1>1, <1>3, <2>1, <2>2, Unchanged, StillHeldUnchanged, AsideStep DEF AllocAssoc
<1>. QED
  BY <1>2, <1>3 DEF AllocAssoc

\* Dropping a reference of the port: what the steps that do have in common.
LEMMA TgtPutStep ==
    ASSUME Inv, NEW t \in Thread, NEW th, OnlyThread(th, thread, t), ThreadOK(t, th[t]),
           th[t].duty = "none", thread' = TgtPut(th, t)
    PROVE  ThreadStep(t) /\ thread'[t].pc = th[t].pc
<1>1. /\ OnlyThread(thread', th, t)
      /\ LET me == thread'[t] IN
         /\ me.pc = th[t].pc /\ me.queue = th[t].queue
         /\ me.assoc = th[t].assoc /\ me.i = th[t].i /\ me.owed = th[t].owed
         /\ me.rqst = th[t].rqst /\ me.duty \in {th[t].duty, "free_port"}
  BY TgtPutType DEF OnlyThread
<1>2. OnlyThread(thread', thread, t)
  BY <1>1 DEF OnlyThread
<1>. QED
  BY <1>1, <1>2 DEF ThreadStep, ThreadOK

LEMMA RespondInv ==
    ASSUME Inv, NEW i \in Iod, Respond(i)
    PROVE  Inv'
<1>. DEFINE me == Resting("idle")  th == [thread EXCEPT ![i] = me]
<1>1. /\ i \in Thread /\ thread[i].pc = "respond" /\ i \notin Cmd /\ i # Unreg /\ i # Conf
      /\ i # Ctrl
  BY ReadyKnows DEF Respond
<1>2. me \in Rec /\ me.pc = "idle" /\ me.duty = "none"
  BY DEF Resting, Rec, Pcs, Qids
<1>3. thread \in [Thread -> Rec] /\ tgt' = TgtLess /\ thread' = TgtPut(th, i)
  BY DEF Inv, TypeOK, Rec, Respond
<1>. HIDE DEF me
<1>4. OnlyThread(th, thread, i) /\ th[i] = me
  BY <1>1, <1>2, <1>3, Changed DEF OnlyThread
<1>5. ThreadOK(i, th[i])
  BY <1>2, <1>4 DEF ThreadOK, QueueUsers, AssocUsers, NewQids
<1>6. ThreadStep(i) /\ thread'[i].pc = "idle"
  BY <1>1, <1>2, <1>3, <1>4, <1>5, TgtPutStep
<1>7. i \in Serving /\ IsFiniteSet(Serving)
  BY <1>1, Counts DEF Serving
<1>8. Serving' = Serving \ {i}
  <2>1. \A x \in Iod \ {i} : thread'[x] = thread[x]
    BY <1>6 DEF ThreadStep, OnlyThread, Thread
  <2>. QED
    BY <1>6, <2>1 DEF Serving
<1>9. Cardinality(Serving') = Cardinality(Serving) - 1 /\ Cardinality(Serving) > 0
  BY <1>7, <1>8, OneLess
<1>10. tgt.ref > 0
  BY <1>9, Counts
<1>11. tgt' \in TgtRec /\ tgt'.ref = tgt.ref - 1 /\ tgt'.port = tgt.port
  BY <1>3, <1>10, TgtLessType
<1>12. TypeOK' /\ ThreadsOK' /\ ObjectsOK'
  BY <1>1, <1>6, <1>11, Types, Unchanged DEF Respond
<1>13. Held' = Held /\ Registered' = Registered /\ User' = User /\ Looking' = Looking
  <2>1. Registered' = Registered /\ Looking' = Looking
    BY <1>1, <1>6, Elsewhere DEF ThreadStep, LookPcs
  <2>. QED
    BY <1>11, <2>1 DEF Respond, Held, User
<1>14. TgtRefsExact'
  BY <1>9, <1>11, <1>13, Counts, PortCountNext
<1>15. UserOK'
  BY <1>1, <1>6, <1>10, <1>11, UserElsewhere DEF Respond, ThreadStep
<1>. QED
  BY <1>12, <1>14, <1>15 DEF Inv

LEMMA UnregisterInv ==
    ASSUME Inv, Unregister
    PROVE  Inv'
<1>. DEFINE th == Goes(Unreg, "gone")
<1>1. /\ Unreg \in Thread /\ thread[Unreg].pc = "unregister" /\ thread[Unreg].duty = "none"
      /\ Unreg \notin Cmd /\ Unreg \notin Iod /\ Unreg # Conf
  BY ReadyKnows DEF Unregister
<1>2. /\ OnlyThread(th, thread, Unreg) /\ ThreadOK(Unreg, th[Unreg])
      /\ th[Unreg].pc = "gone" /\ th[Unreg].duty = "none"
  BY <1>1, GoStep DEF Equipped, Pcs, QueueUsers, AssocUsers, NewQids
<1>3. tgt' = TgtLess /\ thread' = TgtPut(th, Unreg)
  BY DEF Unregister
<1>. HIDE DEF th
<1>4. ThreadStep(Unreg) /\ thread'[Unreg].pc = "gone"
  BY <1>1, <1>2, <1>3, TgtPutStep
<1>5. Registered = {Unreg} /\ Registered' = {}
  BY <1>1, <1>4 DEF Registered
<1>6. Cardinality(Registered) = 1 /\ Cardinality(Registered') = 0
  BY <1>5, FS_Singleton, FS_EmptySet
<1>7. tgt.ref > 0
  BY <1>6, Counts
<1>8. tgt' \in TgtRec /\ tgt'.ref = tgt.ref - 1 /\ tgt'.port = tgt.port
  BY <1>3, <1>7, TgtLessType
<1>9. TypeOK' /\ ThreadsOK' /\ ObjectsOK'
  BY <1>1, <1>4, <1>8, Types, Unchanged DEF Unregister
<1>10. Held' = Held /\ Serving' = Serving /\ User' = User /\ Looking' = Looking
  <2>1. Serving' = Serving /\ Looking' = Looking
    BY <1>1, <1>4, Elsewhere DEF ThreadStep, LookPcs
  <2>. QED
    BY <1>8, <2>1 DEF Unregister, Held, User
<1>11. TgtRefsExact'
  BY <1>6, <1>8, <1>10, Counts, PortCountNext
<1>12. UserOK'
  BY <1>1, <1>4, <1>7, <1>8, UserElsewhere DEF Unregister, ThreadStep
<1>. QED
  BY <1>9, <1>11, <1>12 DEF Inv

LEMMA DeleteCtrlInv ==
    ASSUME Inv, DeleteCtrl
    PROVE  Inv'
<1>1. /\ Ctrl \in Thread /\ thread[Ctrl].duty = "none" /\ thread[Ctrl].pc = "idle"
      /\ Ctrl \notin Cmd /\ Ctrl \notin Iod /\ Ctrl # Conf /\ Ctrl # Unreg
  BY ReadyKnows DEF DeleteCtrl
<1>2. ASSUME tgt.ref > 0, tgt' = TgtGet, thread' = Goes(Ctrl, "find_ctrl")
      PROVE  Inv'
  <2>1. ThreadStep(Ctrl) /\ thread'[Ctrl].pc = "find_ctrl"
    BY <1>1, <1>2, GoesStep DEF Equipped, Pcs, QueueUsers, AssocUsers, NewQids
  <2>2. tgt' \in TgtRec /\ tgt'.ref = tgt.ref + 1 /\ tgt'.port = tgt.port
    BY <1>2, TgtGetType
  <2>3. TypeOK' /\ ThreadsOK' /\ ObjectsOK'
    BY <1>1, <2>1, <2>2, Types, Unchanged DEF DeleteCtrl
  <2>4. Looking = {} /\ Looking' = {Ctrl}
    BY <1>1, <2>1 DEF Looking, LookPcs
  <2>5. Cardinality(Looking) = 0 /\ Cardinality(Looking') = 1
    BY <2>4, FS_Singleton, FS_EmptySet
  <2>6. Held' = Held /\ Serving' = Serving /\ Registered' = Registered /\ User' = User
    <3>1. Serving' = Serving /\ Registered' = Registered
      BY <1>1, <2>1, Elsewhere DEF ThreadStep, LookPcs
    <3>. QED
      BY <2>2, <3>1 DEF DeleteCtrl, Held, User
  <2>7. TgtRefsExact'
    BY <2>2, <2>5, <2>6, Counts, PortCountNext
  <2>8. UserOK'
    BY <1>1, <1>2, <2>1, <2>2, UserElsewhere DEF DeleteCtrl, ThreadStep
  <2>. QED
    BY <2>3, <2>7, <2>8 DEF Inv
<1>3. ASSUME thread' = Goes(Ctrl, "gone"), UNCHANGED tgt
      PROVE  Inv'
  <2>1. ThreadStep(Ctrl) /\ thread'[Ctrl].pc = "gone"
    BY <1>1, <1>3, GoesStep DEF Equipped, Pcs, QueueUsers, AssocUsers, NewQids
  <2>2. Apart(Ctrl)
    BY <1>1, <2>1 DEF Apart, LookPcs
  <2>. QED
    BY <1>1, <1>3, <2>1, <2>2, Unchanged, StillHeldUnchanged, AsideStep DEF DeleteCtrl
<1>. QED
  BY <1>2, <1>3 DEF DeleteCtrl

LEMMA CtrlPutInv ==
    ASSUME Inv, CtrlPut
    PROVE  Inv'
<1>. DEFINE pc == IF thread[Ctrl].assoc = None THEN "gone" ELSE "begin"  th == Goes(Ctrl, pc)
<1>1. /\ Ctrl \in Thread /\ thread[Ctrl].duty = "none" /\ thread[Ctrl].pc = "put_port"
      /\ Ctrl \notin Cmd /\ Ctrl \notin Iod /\ Ctrl # Conf /\ Ctrl # Unreg
      /\ thread[Ctrl].assoc \in Assoc \union {None}
  BY ReadyKnows DEF CtrlPut, Rec
<1>2. pc \in {"gone", "begin"} /\ (pc = "begin" => thread[Ctrl].assoc \in Assoc)
  BY <1>1
<1>3. tgt' = TgtLess /\ thread' = TgtPut(th, Ctrl)
  BY DEF CtrlPut
<1>. HIDE DEF pc
<1>4. Equipped(Ctrl, pc) /\ pc \in Pcs
  BY <1>1, <1>2 DEF Equipped, Pcs, QueueUsers, AssocUsers, NewQids
<1>5. /\ OnlyThread(th, thread, Ctrl) /\ ThreadOK(Ctrl, th[Ctrl])
      /\ th[Ctrl].pc = pc /\ th[Ctrl].duty = "none"
  BY <1>1, <1>4, GoStep
<1>. HIDE DEF th
<1>6. ThreadStep(Ctrl) /\ thread'[Ctrl].pc = pc
  BY <1>1, <1>3, <1>5, TgtPutStep
<1>7. Looking = {Ctrl} /\ Looking' = {}
  BY <1>1, <1>2, <1>6 DEF Looking, LookPcs
<1>8. Cardinality(Looking) = 1 /\ Cardinality(Looking') = 0
  BY <1>7, FS_Singleton, FS_EmptySet
<1>9. tgt.ref > 0
  BY <1>8, Counts
<1>10. tgt' \in TgtRec /\ tgt'.ref = tgt.ref - 1 /\ tgt'.port = tgt.port
  BY <1>3, <1>9, TgtLessType
<1>11. TypeOK' /\ ThreadsOK' /\ ObjectsOK'
  BY <1>1, <1>6, <1>10, Types, Unchanged DEF CtrlPut
<1>12. Held' = Held /\ Serving' = Serving /\ Registered' = Registered /\ User' = User
  <2>1. Serving' = Serving /\ Registered' = Registered
    BY <1>1, <1>6, Elsewhere DEF ThreadStep, LookPcs
  <2>. QED
    BY <1>10, <2>1 DEF CtrlPut, Held, User
<1>13. TgtRefsExact'
  BY <1>8, <1>10, <1>12, Counts, PortCountNext
<1>14. UserOK'
  BY <1>1, <1>6, <1>9, <1>10, UserElsewhere DEF CtrlPut, ThreadStep
<1>. QED
  BY <1>11, <1>13, <1>14 DEF Inv

LEMMA AddPortInv ==
    ASSUME Inv, AddPort
    PROVE  Inv'
<1>1. /\ Conf \in Thread /\ thread[Conf].pc = "idle" /\ thread[Conf].duty = "none"
      /\ Conf \notin Cmd /\ Conf \notin Iod /\ Conf # Unreg
  BY ReadyKnows DEF AddPort
<1>2. ~tgt.port /\ "bound" \notin races
  BY <1>1 DEF Inv, UserOK
<1>3. ThreadStep(Conf) /\ thread'[Conf].pc = "bound"
  BY <1>1, GoesStep DEF AddPort, Equipped, Pcs, QueueUsers, AssocUsers, NewQids
<1>4. /\ tgt' \in TgtRec /\ tgt'.port = TRUE
      /\ tgt'.ref = IF tgt.ref > 0 THEN tgt.ref + 1 ELSE tgt.ref
  <2>1. tgt \in TgtRec
    BY DEF Inv, TypeOK, TgtRec
  <2>2. CASE tgt.ref > 0
    <3>1. tgt' = [tgt EXCEPT !.port = TRUE, !.ref = tgt.ref + 1]
      BY <2>1, <2>2 DEF AddPort, TgtRec
    <3>2. tgt.ref + 1 \in Nat
      BY <2>1 DEF TgtRec
    <3>. QED
      BY <2>1, <2>2, <3>1, <3>2 DEF TgtRec
  <2>3. CASE ~ (tgt.ref > 0)
    <3>1. tgt' = [tgt EXCEPT !.port = TRUE, !.ref = tgt.ref]
      BY <2>1, <2>3 DEF AddPort, TgtRec
    <3>. QED
      BY <2>1, <2>3, <3>1 DEF TgtRec
  <2>. QED
    BY <2>2, <2>3
<1>5. races' = races \union Race(tgt.ref = 0, "bound")
  BY DEF AddPort
<1>6. RestStep
  BY <1>5 DEF AddPort, Inv, TypeOK, RestStep, RaceNames, Race
<1>7. TypeOK' /\ ThreadsOK' /\ ObjectsOK'
  BY <1>1, <1>3, <1>4, <1>6, Types, Unchanged DEF AddPort
<1>8. Held' = Held /\ Serving' = Serving /\ Registered' = Registered /\ Looking' = Looking
  <2>1. Serving' = Serving /\ Registered' = Registered /\ Looking' = Looking
    BY <1>1, <1>3, Elsewhere DEF ThreadStep, LookPcs
  <2>. QED
    BY <2>1 DEF AddPort, Held
<1>9. User = 0 /\ User' = IF tgt.ref > 0 THEN 1 ELSE 0
  <2>1. "bound" \in races' <=> tgt.ref = 0
    BY <1>2, <1>5 DEF Race
  <2>. QED
    BY <1>2, <1>4, <2>1, Counts DEF User
<1>10. TgtRefsExact'
  BY <1>4, <1>8, <1>9, Counts, PortCountNext
<1>11. UserOK'
  <2>1. "bound" \in races' => tgt'.ref = 0
    BY <1>2, <1>4, <1>5 DEF Race
  <2>. QED
    BY <1>3, <1>4, <2>1 DEF UserOK
<1>. QED
  BY <1>7, <1>10, <1>11 DEF Inv

LEMMA RemovePortInv ==
    ASSUME Inv, RemovePort
    PROVE  Inv'
<1>. DEFINE th == Goes(Conf, "gone")
<1>1. /\ Conf \in Thread /\ thread[Conf].pc = "bound" /\ thread[Conf].duty = "none"
      /\ Conf \notin Cmd /\ Conf \notin Iod /\ Conf # Unreg
  BY ReadyKnows DEF RemovePort
<1>2. tgt.ref \in Nat /\ tgt.ref > 0 /\ tgt.port /\ "bound" \notin races
  <2>1. tgt.ref # 0
    BY <1>1 DEF RemovePort, Ready, Stale
  <2>. QED
    BY <1>1, <2>1, Counts DEF Inv, UserOK
<1>3. /\ OnlyThread(th, thread, Conf) /\ ThreadOK(Conf, th[Conf])
      /\ th[Conf].pc = "gone" /\ th[Conf].duty = "none"
  BY <1>1, GoStep DEF Equipped, Pcs, QueueUsers, AssocUsers, NewQids
<1>4. tgt' = [TgtLess EXCEPT !.port = FALSE] /\ thread' = TgtPut(th, Conf)
  BY DEF RemovePort
<1>. HIDE DEF th
<1>5. ThreadStep(Conf) /\ thread'[Conf].pc = "gone"
  BY <1>1, <1>3, <1>4, TgtPutStep
<1>6. tgt' \in TgtRec /\ tgt'.ref = tgt.ref - 1 /\ tgt'.port = FALSE
  <2>1. TgtLess \in TgtRec /\ TgtLess.ref = tgt.ref - 1
    BY <1>2, TgtLessType
  <2>. QED
    BY <1>4, <2>1 DEF TgtRec
<1>7. TypeOK' /\ ThreadsOK' /\ ObjectsOK'
  BY <1>1, <1>5, <1>6, Types, Unchanged DEF RemovePort
<1>8. Held' = Held /\ Serving' = Serving /\ Registered' = Registered /\ Looking' = Looking
  <2>1. Serving' = Serving /\ Registered' = Registered /\ Looking' = Looking
    BY <1>1, <1>5, Elsewhere DEF ThreadStep, LookPcs
  <2>. QED
    BY <2>1 DEF RemovePort, Held
<1>9. User = 1 /\ User' = 0
  BY <1>2, <1>6 DEF User
<1>10. TgtRefsExact'
  BY <1>6, <1>8, <1>9, Counts, PortCountNext
<1>11. UserOK'
  BY <1>2, <1>5 DEF UserOK, RemovePort
<1>. QED
  BY <1>7, <1>10, <1>11 DEF Inv

-----------------------------------------------------------------------------
(* The theorems.                                                           *)

LEMMA InitInv == Init => Inv
<1>. SUFFICES ASSUME Init PROVE Inv
  OBVIOUS
<1>1. thread = [t \in Thread |-> Resting("idle")]
  BY DEF Init
<1>2. Resting("idle") \in Rec /\ Resting("idle").pc = "idle" /\ Resting("idle").duty = "none"
  BY DEF Resting, Rec, Pcs, Qids
<1>3. \A t \in Thread : thread[t].pc = "idle" /\ thread[t].duty = "none"
  BY <1>1, <1>2
<1>4. thread \in [Thread -> Rec]
  BY <1>1, <1>2
<1>5. assoc = [a \in Assoc |-> [st |-> "none", ref |-> 0]]
  BY DEF Init
<1>6. queue \in [Queue -> QueueRec] /\ \A q \in Queue : queue[q].ref = 0
  BY DEF Init, QueueRec, Qids
<1>7. TypeOK
  <2>1. tgt \in [st : {"live", "dying", "deleted"}, ref : Nat, port : BOOLEAN]
    BY DEF Init
  <2>2. assoc \in [Assoc -> AssocRec]
    BY <1>5 DEF AssocRec
  <2>3. assoc_list \in Seq(Assoc) /\ queues \in [Assoc -> [Qids -> Queue \union {None}]]
    BY DEF Init
  <2>4. cast \in Casts /\ left \in 0 .. MaxLs /\ deleted = {} /\ races = {}
    BY DEF Init
  <2>. QED
    BY <1>4, <1>6, <2>1, <2>2, <2>3, <2>4 DEF TypeOK, Rec, AssocRec, QueueRec
<1>8. ThreadsOK /\ ObjectsOK
  <2>1. ThreadsOK
    BY <1>3 DEF ThreadsOK, ThreadOK, QueueUsers, AssocUsers, NewQids
  <2>2. \A a \in Assoc : assoc[a].ref = 0
    BY <1>5
  <2>. QED
    BY <1>3, <1>6, <2>1, <2>2 DEF ObjectsOK
<1>9. tgt.ref = 1 /\ tgt.port = FALSE /\ races = {}
  BY DEF Init
<1>10. UserOK
  <2>1. thread[Conf].pc = "idle"
    BY <1>3 DEF Thread
  <2>. QED
    BY <1>9, <2>1 DEF UserOK
<1>11. Registered = {Unreg} /\ Held = {} /\ Serving = {} /\ Looking = {}
  BY <1>3, <1>5 DEF Registered, Held, Serving, Looking, LookPcs, Thread
<1>12. TgtRefsExact
  <2>1. /\ Cardinality(Registered) = 1 /\ Cardinality(Held) = 0
        /\ Cardinality(Serving) = 0 /\ Cardinality(Looking) = 0 /\ User = 0
    BY <1>9, <1>11, FS_Singleton, FS_EmptySet DEF User
  <2>. QED
    BY <1>9, <2>1, PortCount
<1>. QED
  BY <1>7, <1>8, <1>10, <1>12 DEF Inv

LEMMA StepInv == Inv /\ [Next]_vars => Inv'
<1>. SUFFICES ASSUME Inv, [Next]_vars PROVE Inv'
  OBVIOUS
<1>1. ASSUME NEW i \in Iod, LsRequest(i) PROVE Inv'
  BY <1>1, RcvLsReqInv, AllocAssocInv, FindAssocInv, AllocQueueInv, PublishInv, UseQueueInv,
     FindQueueInv, PutFoundInv, RespondInv DEF LsRequest
<1>2. ASSUME NEW t \in Thread, Deletion(t) PROVE Inv'
  BY <1>2, DeleteQueueInv, DropQueueInv, PutQueueInv, BeginAssocInv, ScanQueuesInv,
     PutAssocInv DEF Deletion
<1>3. ASSUME NEW t \in Thread, Freeing(t) PROVE Inv'
  BY <1>3, FreedQueuePutsInv, AssocFreeInv, FreeTgtportInv DEF Freeing
<1>4. ASSUME NEW c \in Cmd, CmdArrive(c) \/ CmdEnd(c) PROVE Inv'
  BY <1>4, CmdArriveInv, CmdEndInv
<1>5. ASSUME NEW t \in {Unreg, Ctrl}, PutDone(t) PROVE Inv'
  BY <1>5, PutDoneInv
<1>6. CASE UNCHANGED vars
  <2>1. Unreg \in Thread
    BY DEF Thread
  <2>2. ThreadStep(Unreg)
    BY <1>6, <2>1 DEF vars, ThreadStep, OnlyThread, Inv, TypeOK, Rec, ThreadsOK, ObjectsOK
  <2>3. Apart(Unreg)
    BY <1>6 DEF vars, Apart
  <2>. QED
    BY <1>6, <2>1, <2>2, <2>3, Unchanged, StillHeldUnchanged, AsideStep DEF vars
<1>. QED
  BY <1>1, <1>2, <1>3, <1>4, <1>5, <1>6, FreeAssocsInv, UnregisterInv, DeleteCtrlInv,
     FindCtrlInv, CtrlPutInv, AddPortInv, RemovePortInv DEF Next

\* The invariant holds in every state the target port can reach.
THEOREM Inductive == Spec => []Inv
<1>. QED
  BY InitInv, StepInv, PTL DEF Spec

\* Whatever LS requests, commands, deletions and the unregistration do to each
\* other, the variables keep their types: no reference count of the target port, of
\* an association or of a queue goes below zero before somebody uses freed memory.
THEOREM TypeCorrect == Spec => []TypeOK
<1>1. Inv => TypeOK
  BY DEF Inv
<1>. QED
  BY <1>1, Inductive, PTL

\* The target port (nvmet_fc_tgtport_get and _put) is held exactly by its
\* registration, by the user who bound it, by each association that is not freed, by
\* each LS request that is not answered and by whoever looks for a controller, for
\* any number of them.
THEOREM PortCorrect == Spec => []TgtRefsExact
<1>1. Inv => TgtRefsExact
  BY DEF Inv
<1>. QED
  BY <1>1, Inductive, PTL

-----------------------------------------------------------------------------
(* The table of queues.                                                    *)

-----------------------------------------------------------------------------
(* Steps that leave the table alone.                                       *)

\* t publishes nothing, and if it comes to name a queue, that is one of the table.
Finds(t) ==
    /\ thread[t].pc # "publish" /\ thread'[t].pc # "publish"
    /\ \/ thread'[t].queue \in {thread[t].queue, None}
       \/ \E a \in Assoc, k \in Qids : thread'[t].queue = queues[a][k]
\* ... or it stays where it is.
Stays(t) ==
    /\ thread'[t].pc = thread[t].pc /\ thread'[t].queue = thread[t].queue
    /\ thread'[t].assoc = thread[t].assoc /\ thread'[t].i = thread[t].i
Others(t) == \A x \in Thread \ {t} : thread'[x] = thread[x]
\* The queues keep their state and their place.
SameQueues == \A q \in Queue : /\ queue'[q].st = queue[q].st
                               /\ queue'[q].assoc = queue[q].assoc
                               /\ queue'[q].qid = queue[q].qid
Kept == queues' = queues /\ SameQueues /\ ("same_qid" \in races => "same_qid" \in races')

\* What the variables are made of.
LEMMA Shapes ==
    ASSUME Inv
    PROVE  /\ queues \in [Assoc -> [Qids -> Queue \union {None}]]
           /\ queue \in [Queue -> QueueRec]
           /\ \A a \in Assoc, k \in Qids : queues[a][k] \in Queue \union {None}
           /\ \A t \in Thread : thread[t].queue \in Queue \union {None}
           /\ \A t \in Thread : thread[t].pc = "publish" =>
                /\ thread[t].queue \in Queue /\ thread[t].assoc \in Assoc
                /\ thread[t].i \in Qids
<1>1. queues \in [Assoc -> [Qids -> Queue \union {None}]]
  BY DEF Inv, TypeOK
<1>2. queue \in [Queue -> QueueRec]
  BY DEF Inv, TypeOK, QueueRec
<1>3. \A a \in Assoc, k \in Qids : queues[a][k] \in Queue \union {None}
  BY <1>1
<1>4. \A t \in Thread : thread[t].queue \in Queue \union {None}
  BY DEF Inv, TypeOK
<1>5. \A t \in Thread : thread[t].pc = "publish" =>
        thread[t].queue \in Queue /\ thread[t].assoc \in Assoc /\ thread[t].i \in Qids
  BY DEF Inv, ThreadsOK, ThreadOK, QueueUsers, AssocUsers, NewQids
<1>. QED
  BY <1>1, <1>2, <1>3, <1>4, <1>5

LEMMA KeptStep ==
    ASSUME Inv, TableInv, NEW t \in Thread, Others(t), Finds(t) \/ Stays(t), Kept
    PROVE  TableInv'
<1>1. TableLive'
  <2>1. SUFFICES ASSUME NEW a \in Assoc, NEW k \in Qids, queues'[a][k] # None
                 PROVE  /\ queue'[queues'[a][k]].st = "live"
                        /\ queue'[queues'[a][k]].assoc = a /\ queue'[queues'[a][k]].qid = k
    BY DEF TableLive
  <2>2. queues'[a][k] = queues[a][k] /\ queues[a][k] \in Queue
    BY <2>1, Shapes DEF Kept
  <2>3. /\ queue[queues[a][k]].st = "live"
        /\ queue[queues[a][k]].assoc = a /\ queue[queues[a][k]].qid = k
    BY <2>1, <2>2 DEF TableInv, TableLive
  <2>. QED
    BY <2>2, <2>3 DEF Kept, SameQueues
<1>2. \A x \in Thread : \/ thread'[x].queue \in {thread[x].queue, None}
                        \/ \E a \in Assoc, k \in Qids : thread'[x].queue = queues[a][k]
  BY DEF Others, Finds, Stays
<1>3. NamesKnown'
  <2>1. SUFFICES ASSUME NEW x \in Thread, thread'[x].queue # None
                 PROVE  queue'[thread'[x].queue].st # "none"
    BY DEF NamesKnown
  <2>2. CASE thread'[x].queue = thread[x].queue
    BY <2>1, <2>2, Shapes DEF TableInv, NamesKnown, Kept, SameQueues
  <2>3. ASSUME NEW a \in Assoc, NEW k \in Qids, thread'[x].queue = queues[a][k]
        PROVE  queue'[thread'[x].queue].st # "none"
    <3>1. queues[a][k] \in Queue
      BY <2>1, <2>3, Shapes
    <3>2. queue[queues[a][k]].st = "live"
      BY <3>1 DEF TableInv, TableLive
    <3>. QED
      BY <2>3, <3>1, <3>2 DEF Kept, SameQueues
  <2>. QED
    BY <1>2, <2>1, <2>2, <2>3
<1>4. \A x \in Thread : thread'[x].pc = "publish" =>
        /\ thread[x].pc = "publish" /\ thread'[x].queue = thread[x].queue
        /\ thread'[x].assoc = thread[x].assoc /\ thread'[x].i = thread[x].i
  BY DEF Others, Finds, Stays
<1>5. Unpublished'
  <2>1. SUFFICES ASSUME NEW x \in Thread, thread'[x].pc = "publish"
                 PROVE  /\ queue'[thread'[x].queue].st = "live"
                        /\ queue'[thread'[x].queue].assoc = thread'[x].assoc
                        /\ queue'[thread'[x].queue].qid = thread'[x].i
                        /\ \A y \in Thread \ {x} : thread'[y].queue # thread'[x].queue
                        /\ \A a \in Assoc, k \in Qids : queues'[a][k] # thread'[x].queue
    BY DEF Unpublished
  <2>2. thread[x].pc = "publish" /\ thread'[x].queue = thread[x].queue
    BY <1>4, <2>1
  <2>3. thread[x].queue \in Queue
    BY <2>2, Shapes
  <2>4. /\ queue'[thread'[x].queue].st = "live"
        /\ queue'[thread'[x].queue].assoc = thread'[x].assoc
        /\ queue'[thread'[x].queue].qid = thread'[x].i
    <3>1. /\ queue[thread[x].queue].st = "live"
          /\ queue[thread[x].queue].assoc = thread[x].assoc
          /\ queue[thread[x].queue].qid = thread[x].i
      BY <2>2 DEF TableInv, Unpublished
    <3>2. thread'[x].assoc = thread[x].assoc /\ thread'[x].i = thread[x].i
      BY <1>4, <2>1
    <3>. QED
      BY <2>2, <2>3, <3>1, <3>2 DEF Kept, SameQueues
  <2>5. \A a \in Assoc, k \in Qids : queues[a][k] # thread[x].queue
    BY <2>2 DEF TableInv, Unpublished
  <2>6. ASSUME NEW y \in Thread \ {x} PROVE thread'[y].queue # thread'[x].queue
    <3>1. thread[y].queue # thread[x].queue
      BY <2>2 DEF TableInv, Unpublished
    <3>. QED
      BY <1>2, <2>2, <2>3, <2>5, <3>1
  <2>. QED
    BY <2>2, <2>4, <2>5, <2>6 DEF Kept
<1>6. Owned'
  BY DEF TableInv, Owned, Kept, SameQueues
<1>7. NoneMissing'
  <2>1. SUFFICES ASSUME "same_qid" \notin races', NEW q \in Queue, queue'[q].st = "live"
                 PROVE  \/ queues'[queue'[q].assoc][queue'[q].qid] = q
                        \/ \E i \in Iod : thread'[i].pc = "publish" /\ thread'[i].queue = q
    BY DEF NoneMissing
  <2>2. \/ queues[queue[q].assoc][queue[q].qid] = q
        \/ \E i \in Iod : thread[i].pc = "publish" /\ thread[i].queue = q
    BY <2>1 DEF TableInv, NoneMissing, Kept, SameQueues
  <2>3. ASSUME NEW i \in Iod, thread[i].pc = "publish", thread[i].queue = q
        PROVE  thread'[i].pc = "publish" /\ thread'[i].queue = q
    BY <2>3 DEF Thread, Others, Finds, Stays
  <2>. QED
    BY <2>2, <2>3 DEF Kept, SameQueues
<1>. QED
  BY <1>1, <1>3, <1>5, <1>6, <1>7 DEF TableInv

-----------------------------------------------------------------------------
(* Steps that change it.                                                   *)

\* A queue that is freed leaves its place, and nobody was about to publish it.
LEMMA FreedStep ==
    ASSUME Inv, TableInv, NEW t \in Thread, Others(t), Finds(t),
           NEW q \in Queue, thread[t].queue = q, thread'[t].queue \in {q, None},
           queue[q].st = "live",
           queue' = [queue EXCEPT ![q].ref = 0, ![q].st = "freed"],
           queues' = Cleared(q), UNCHANGED races
    PROVE  TableInv'
<1>. DEFINE a == queue[q].assoc  k == queue[q].qid
<1>1. a \in Assoc /\ k \in Qids
  BY Shapes DEF TableInv, Owned, QueueRec
<1>2. \A b \in Assoc, j \in Qids :
        queues'[b][j] = IF b = a /\ j = k THEN None ELSE queues[b][j]
  BY <1>1, Shapes DEF Cleared
<1>3. /\ \A x \in Queue : queue'[x].assoc = queue[x].assoc /\ queue'[x].qid = queue[x].qid
      /\ \A x \in Queue \ {q} : queue'[x].st = queue[x].st
      /\ queue'[q].st = "freed"
  BY Shapes DEF QueueRec
<1>. HIDE DEF a, k
<1>4. \A b \in Assoc, j \in Qids : queues[b][j] = q => b = a /\ j = k
  BY DEF a, k, TableInv, TableLive
<1>5. \A b \in Assoc, j \in Qids : queues'[b][j] \in {None, queues[b][j]} /\ queues'[b][j] # q
  BY <1>2, <1>4
<1>6. TableLive'
  BY <1>3, <1>5, Shapes DEF TableInv, TableLive
<1>7. \A x \in Thread : thread'[x].queue \in {thread[x].queue, None}
  BY DEF Others
<1>8. NamesKnown'
  BY <1>3, <1>7, Shapes DEF TableInv, NamesKnown
<1>9. \A x \in Thread : thread[x].pc = "publish" => thread[x].queue # q
  BY DEF TableInv, Unpublished, Finds
<1>10. \A x \in Thread : thread'[x].pc = "publish" => x # t /\ thread'[x] = thread[x]
  BY DEF Others, Finds
<1>11. Unpublished'
  <2>1. SUFFICES ASSUME NEW x \in Thread, thread'[x].pc = "publish"
                 PROVE  /\ queue'[thread'[x].queue].st = "live"
                        /\ queue'[thread'[x].queue].assoc = thread'[x].assoc
                        /\ queue'[thread'[x].queue].qid = thread'[x].i
                        /\ \A y \in Thread \ {x} : thread'[y].queue # thread'[x].queue
                        /\ \A b \in Assoc, j \in Qids : queues'[b][j] # thread'[x].queue
    BY DEF Unpublished
  <2>2. /\ thread'[x] = thread[x] /\ thread[x].pc = "publish"
        /\ thread[x].queue \in Queue \ {q}
    BY <1>9, <1>10, <2>1, Shapes
  <2>3. /\ queue[thread[x].queue].st = "live"
        /\ queue[thread[x].queue].assoc = thread[x].assoc
        /\ queue[thread[x].queue].qid = thread[x].i
        /\ \A y \in Thread \ {x} : thread[y].queue # thread[x].queue
        /\ \A b \in Assoc, j \in Qids : queues[b][j] # thread[x].queue
    BY <2>2 DEF TableInv, Unpublished
  <2>4. thread[x].queue # None
    BY <2>2
  <2>5. /\ queue'[thread[x].queue].st = "live"
        /\ queue'[thread[x].queue].assoc = thread[x].assoc
        /\ queue'[thread[x].queue].qid = thread[x].i
    BY <1>3, <2>2, <2>3
  <2>6. \A y \in Thread \ {x} : thread'[y].queue # thread[x].queue
    BY <1>7, <2>3, <2>4
  <2>7. \A b \in Assoc, j \in Qids : queues'[b][j] # thread[x].queue
    BY <1>5, <2>3, <2>4
  <2>. QED
    BY <2>2, <2>5, <2>6, <2>7
<1>12. Owned'
  BY <1>3 DEF TableInv, Owned
<1>13. NoneMissing'
  <2>1. SUFFICES ASSUME "same_qid" \notin races', NEW x \in Queue, queue'[x].st = "live"
                 PROVE  \/ queues'[queue'[x].assoc][queue'[x].qid] = x
                        \/ \E i \in Iod : thread'[i].pc = "publish" /\ thread'[i].queue = x
    BY DEF NoneMissing
  <2>2. x # q /\ queue[x].st = "live" /\ queue[x].assoc \in Assoc /\ queue[x].qid \in Qids
    <3>1. x # q /\ queue[x].st = "live"
      BY <1>3, <2>1
    <3>. QED
      BY <3>1, Shapes DEF TableInv, Owned, QueueRec
  <2>3. CASE \E i \in Iod : thread[i].pc = "publish" /\ thread[i].queue = x
    BY <2>3 DEF Thread, Others, Finds
  <2>4. CASE queues[queue[x].assoc][queue[x].qid] = x
    <3>1. queues[a][k] = q
      <4>1. \A i \in Iod : ~(thread[i].pc = "publish" /\ thread[i].queue = q)
        BY <1>9 DEF Thread
      <4>. QED
        BY <2>1, <4>1 DEF a, k, TableInv, NoneMissing
    <3>2. queues'[queue[x].assoc][queue[x].qid] = x
      BY <1>2, <2>2, <2>4, <3>1
    <3>. QED
      BY <1>3, <3>2
  <2>. QED
    BY <2>1, <2>2, <2>3, <2>4 DEF TableInv, NoneMissing
<1>. QED
  BY <1>6, <1>8, <1>11, <1>12, <1>13 DEF TableInv

\* The locals after Goes.
LEMMA GoesWhere ==
    ASSUME Inv, NEW t \in Thread, NEW pc \in Pcs
    PROVE  LET new == Goes(t, pc) IN
           /\ new \in [Thread -> Rec] /\ \A x \in Thread \ {t} : new[x] = thread[x]
           /\ new[t].pc = pc /\ new[t].queue \in {thread[t].queue, None}
           /\ pc \notin {"gone", "next"} =>
                new[t].assoc = thread[t].assoc /\ new[t].i = thread[t].i
<1>. DEFINE new == Goes(t, pc)
<1>1. /\ new \in [Thread -> Rec] /\ \A x \in Thread \ {t} : new[x] = thread[x]
      /\ new[t].pc = pc
      /\ pc \notin {"gone", "next"} => new[t] = [thread[t] EXCEPT !.pc = pc]
  BY GoesType DEF Inv
<1>2. thread \in [Thread -> Rec] /\ thread[t] \in Rec
  BY DEF Inv, TypeOK, Rec
<1>3. CASE pc \notin {"gone", "next"}
  BY <1>1, <1>2, <1>3 DEF Rec
<1>4. CASE pc \in {"gone", "next"}
  <2>1. new[t].queue = None
    BY <1>2, <1>4 DEF Goes, Resting
  <2>. QED
    BY <1>1, <1>4, <2>1
<1>. QED
  BY <1>3, <1>4

LEMMA GoesFinds ==
    ASSUME Inv, NEW t \in Thread, NEW pc \in Pcs \ {"publish"}, thread[t].pc # "publish",
           thread' = Goes(t, pc)
    PROVE  Others(t) /\ Finds(t)
<1>. DEFINE new == Goes(t, pc)
<1>1. /\ \A x \in Thread \ {t} : new[x] = thread[x]
      /\ new[t].pc = pc /\ new[t].queue \in {thread[t].queue, None}
  BY GoesWhere
<1>2. thread' = new
  OBVIOUS
<1>. HIDE DEF new
<1>. QED
  BY <1>1, <1>2 DEF Others, Finds

\* A reference of a queue is put.
LEMMA QueuePutTable ==
    ASSUME Inv, TableInv, NEW t \in Thread, NEW pc \in Pcs \ {"publish"},
           thread[t].pc \in {"drop", "put_queue", "command"}, thread[t].duty = "none",
           thread[t].queue \in Queue, ~Stale(t), QueuePut(t, pc), UNCHANGED races
    PROVE  TableInv'
<1>. DEFINE q == thread[t].queue  new == Goes(t, pc)
            mid == [new EXCEPT ![t].duty = "put_assoc"]
            owing == [mid EXCEPT ![t].owed = queue[q].assoc]
<1>1. queue[q].st = "live" /\ queue[q].ref # 0 /\ queue[q].ref \in Nat
  <2>1. q \in Uses(t)
    BY DEF Uses
  <2>2. queue[q].st # "freed"
    <3>1. ~Gone(q) /\ q \notin Assoc
      BY <2>1 DEF Stale
    <3>. QED
      BY <3>1 DEF Gone
  <2>3. queue[q].st # "none"
    BY DEF TableInv, NamesKnown
  <2>4. queue[q] \in QueueRec
    BY Shapes
  <2>. QED
    BY <2>2, <2>3, <2>4, NotStale DEF QueueRec
<1>2. /\ new \in [Thread -> Rec] /\ \A x \in Thread \ {t} : new[x] = thread[x]
      /\ new[t].pc = pc /\ new[t].queue \in {q, None}
  BY GoesWhere
<1>3. CASE queue[q].ref = 1
  <2>1. /\ queue' = [queue EXCEPT ![q].ref = 0, ![q].st = "freed"] /\ queues' = Cleared(q)
        /\ thread' = owing
    BY <1>3 DEF QueuePut
  <2>2. queue[q].assoc \in Assoc
    BY <1>1 DEF TableInv, Owned
  <2>. HIDE DEF new
  <2>3. OnlyThread(mid, new, t) /\ Like(mid[t], new[t], "duty")
    BY <1>2, SetDuty
  <2>. HIDE DEF mid
  <2>4. OnlyThread(owing, mid, t) /\ Like(owing[t], mid[t], "owed")
    <3>1. mid \in [Thread -> Rec] /\ queue[q].assoc \in Assoc \union {None}
      BY <2>2, <2>3 DEF OnlyThread
    <3>. QED
      BY <3>1, SetOwed
  <2>. HIDE DEF owing
  <2>5. Others(t) /\ thread'[t].pc = pc /\ thread'[t].queue \in {q, None}
    BY <1>2, <2>1, <2>3, <2>4 DEF Others, OnlyThread, Like
  <2>6. Finds(t)
    BY <2>5 DEF Finds
  <2>. HIDE DEF q
  <2>. QED
    BY <1>1, <2>1, <2>5, <2>6, FreedStep DEF q
<1>4. CASE queue[q].ref # 1
  <2>1. queue' = [queue EXCEPT ![q].ref = @ - 1] /\ queues' = queues /\ thread' = new
    BY <1>4 DEF QueuePut
  <2>2. Kept
    <3>1. queue \in [Queue -> QueueRec]
      BY Shapes
    <3>2. SameQueues
      BY <2>1, <3>1 DEF SameQueues, QueueRec
    <3>. QED
      BY <2>1, <3>2 DEF Kept
  <2>. HIDE DEF new
  <2>3. Others(t) /\ Finds(t)
    BY <1>2, <2>1 DEF Others, Finds
  <2>. QED
    BY <2>2, <2>3, KeptStep
<1>. QED
  BY <1>3, <1>4

\* t takes a queue of the table.
LEMMA TakenWhere ==
    ASSUME Inv, NEW t \in Thread, NEW pc \in {"delete", "command", "publish"}, NEW q \in Queue
    PROVE  LET got == [Goes(t, pc) EXCEPT ![t].queue = q] IN
           /\ got \in [Thread -> Rec] /\ \A x \in Thread \ {t} : got[x] = thread[x]
           /\ got[t].pc = pc /\ got[t].queue = q
           /\ got[t].assoc = thread[t].assoc /\ got[t].i = thread[t].i
<1>. DEFINE new == Goes(t, pc)  got == [new EXCEPT ![t].queue = q]
<1>0. pc \in Pcs /\ pc \notin {"gone", "next"}
  BY DEF Pcs
<1>1. /\ new \in [Thread -> Rec] /\ \A x \in Thread \ {t} : new[x] = thread[x]
      /\ new[t].pc = pc /\ new[t].assoc = thread[t].assoc /\ new[t].i = thread[t].i
  BY <1>0, GoesWhere
<1>. HIDE DEF new
<1>2. OnlyThread(got, new, t) /\ got[t].queue = q /\ Like(got[t], new[t], "queue")
  BY <1>1, SetQueue
<1>. HIDE DEF got
<1>3. /\ got \in [Thread -> Rec] /\ \A x \in Thread \ {t} : got[x] = thread[x]
      /\ got[t].pc = pc /\ got[t].queue = q
      /\ got[t].assoc = thread[t].assoc /\ got[t].i = thread[t].i
  BY <1>1, <1>2 DEF OnlyThread, Like
<1>. QED
  BY <1>3 DEF new, got

\* The queue that AllocQueue makes was known to nobody.
LEMMA AllocQueueTable ==
    ASSUME Inv, TableInv, NEW i \in Iod, AllocQueue(i)
    PROVE  TableInv'
<1>1. /\ i \in Thread /\ thread[i].pc = "alloc_queue" /\ thread[i].duty = "none"
      /\ thread[i].assoc \in Assoc /\ thread[i].i \in Qids
  BY ReadyKnows DEF AllocQueue, ThreadOK, AssocUsers, NewQids
<1>2. queues' = queues /\ races' = races
  BY DEF AllocQueue
<1>3. ASSUME NEW q \in Queue, queue[q].st = "none",
             queue' = [queue EXCEPT ![q] = [st |-> "live", ref |-> 1, assoc |-> thread[i].assoc,
                                            qid |-> thread[i].i, connected |-> FALSE]],
             thread' = [Goes(i, "publish") EXCEPT ![i].queue = q]
      PROVE  TableInv'
  <2>1. /\ Others(i) /\ thread'[i].pc = "publish" /\ thread'[i].queue = q
        /\ thread'[i].assoc = thread[i].assoc /\ thread'[i].i = thread[i].i
    BY <1>1, <1>3, TakenWhere, ZenonT(60) DEF Others
  <2>2. /\ \A x \in Queue \ {q} : queue'[x] = queue[x]
        /\ queue'[q].st = "live" /\ queue'[q].assoc = thread[i].assoc
        /\ queue'[q].qid = thread[i].i
    BY <1>3, Shapes
  <2>3. \A a \in Assoc, k \in Qids : queues[a][k] # q
    <3>1. ASSUME NEW a \in Assoc, NEW k \in Qids, queues[a][k] = q PROVE FALSE
      BY <1>3, <3>1 DEF TableInv, TableLive
    <3>. QED
      BY <3>1
  <2>4. \A x \in Thread : thread[x].queue # q
    BY <1>3 DEF TableInv, NamesKnown
  <2>5. TableLive'
    <3>1. SUFFICES ASSUME NEW a \in Assoc, NEW k \in Qids, queues[a][k] # None
                   PROVE  /\ queue'[queues[a][k]].st = "live"
                          /\ queue'[queues[a][k]].assoc = a /\ queue'[queues[a][k]].qid = k
      BY <1>2 DEF TableLive
    <3>2. queues[a][k] \in Queue \ {q}
      BY <2>3, <3>1, Shapes
    <3>. QED
      BY <2>2, <3>1, <3>2 DEF TableInv, TableLive
  <2>6. NamesKnown'
    <3>1. SUFFICES ASSUME NEW x \in Thread, thread'[x].queue # None
                   PROVE  queue'[thread'[x].queue].st # "none"
      BY DEF NamesKnown
    <3>2. CASE x = i
      BY <2>1, <2>2, <3>2
    <3>3. CASE x # i
      <4>1. thread'[x] = thread[x] /\ thread[x].queue \in Queue \ {q}
        BY <2>1, <2>4, <3>1, <3>3, Shapes DEF Others
      <4>. QED
        BY <2>2, <3>1, <4>1 DEF TableInv, NamesKnown
    <3>. QED
      BY <3>2, <3>3
  <2>7. Unpublished'
    <3>1. SUFFICES ASSUME NEW x \in Thread, thread'[x].pc = "publish"
                   PROVE  /\ queue'[thread'[x].queue].st = "live"
                          /\ queue'[thread'[x].queue].assoc = thread'[x].assoc
                          /\ queue'[thread'[x].queue].qid = thread'[x].i
                          /\ \A y \in Thread \ {x} : thread'[y].queue # thread'[x].queue
                          /\ \A a \in Assoc, k \in Qids : queues[a][k] # thread'[x].queue
      BY <1>2 DEF Unpublished
    <3>2. CASE x = i
      BY <2>1, <2>2, <2>3, <2>4, <3>2 DEF Others
    <3>3. CASE x # i
      <4>1. thread'[x] = thread[x] /\ thread[x].pc = "publish"
        BY <2>1, <3>1, <3>3 DEF Others
      <4>2. thread[x].queue \in Queue \ {q}
        BY <2>4, <4>1, Shapes
      <4>3. /\ queue[thread[x].queue].st = "live"
            /\ queue[thread[x].queue].assoc = thread[x].assoc
            /\ queue[thread[x].queue].qid = thread[x].i
            /\ \A y \in Thread \ {x} : thread[y].queue # thread[x].queue
            /\ \A a \in Assoc, k \in Qids : queues[a][k] # thread[x].queue
        BY <4>1 DEF TableInv, Unpublished
      <4>4. \A y \in Thread \ {x} : thread'[y].queue # thread[x].queue
        BY <2>1, <4>2, <4>3 DEF Others
      <4>. QED
        BY <2>2, <4>1, <4>2, <4>3, <4>4
    <3>. QED
      BY <3>2, <3>3
  <2>8. Owned'
    BY <1>1, <2>2 DEF TableInv, Owned
  <2>9. NoneMissing'
    <3>1. SUFFICES ASSUME "same_qid" \notin races, NEW x \in Queue, queue'[x].st = "live"
                   PROVE  \/ queues[queue'[x].assoc][queue'[x].qid] = x
                          \/ \E j \in Iod : thread'[j].pc = "publish" /\ thread'[j].queue = x
      BY <1>2 DEF NoneMissing
    <3>2. CASE x = q
      BY <2>1, <3>2
    <3>3. CASE x # q
      <4>1. \/ queues[queue[x].assoc][queue[x].qid] = x
            \/ \E j \in Iod : thread[j].pc = "publish" /\ thread[j].queue = x
        BY <2>2, <3>1, <3>3 DEF TableInv, NoneMissing
      <4>2. ASSUME NEW j \in Iod, thread[j].pc = "publish"
            PROVE  thread'[j] = thread[j]
        BY <1>1, <2>1, <4>2 DEF Others, Thread
      <4>. QED
        BY <2>2, <3>3, <4>1, <4>2
    <3>. QED
      BY <3>2, <3>3
  <2>. QED
    BY <2>5, <2>6, <2>7, <2>8, <2>9 DEF TableInv
<1>4. ASSUME thread' = Goes(i, AfterFailure(i)), UNCHANGED queue PROVE TableInv'
  <2>1. AfterFailure(i) \in Pcs \ {"publish"}
    BY DEF AfterFailure, Pcs
  <2>2. Others(i) /\ Finds(i)
    BY <1>1, <1>4, <2>1, GoesFinds
  <2>3. Kept
    BY <1>2, <1>4 DEF Kept, SameQueues
  <2>. QED
    BY <1>1, <2>2, <2>3, KeptStep
<1>. QED
  BY <1>3, <1>4 DEF AllocQueue

\* Its creator puts it where its number says; if another was there, the number has
\* been given twice.
LEMMA PublishTable ==
    ASSUME Inv, TableInv, NEW i \in Iod, Publish(i)
    PROVE  TableInv'
<1>. DEFINE a == thread[i].assoc  k == thread[i].i  q == thread[i].queue
            pc == IF thread[i].rqst.kind = "create" THEN "use_queue" ELSE "put_found"
<1>1. /\ i \in Thread /\ thread[i].pc = "publish" /\ a \in Assoc /\ k \in Qids /\ q \in Queue
  BY ReadyKnows, Shapes DEF Publish
<1>2. pc \in Pcs \ {"publish"} /\ thread' = Goes(i, pc)
  BY DEF Publish, Pcs
<1>3. Others(i) /\ thread'[i].pc = pc /\ thread'[i].queue \in {q, None}
  <2>. HIDE DEF pc, q
  <2>. QED
    BY <1>1, <1>2, GoesWhere DEF Others, q
<1>4. thread'[i].pc # "publish"
  BY <1>2, <1>3
<1>. HIDE DEF pc
<1>5. \A b \in Assoc, j \in Qids :
        queues'[b][j] = IF b = a /\ j = k THEN q ELSE queues[b][j]
  BY <1>1, Shapes DEF Publish
<1>6. /\ queue' = queue
      /\ "same_qid" \in races => "same_qid" \in races'
      /\ "same_qid" \notin races' => queues[a][k] = None
  BY DEF Publish, Race
<1>7. /\ queue[q].st = "live" /\ queue[q].assoc = a /\ queue[q].qid = k
      /\ \A x \in Thread \ {i} : thread[x].queue # q
  BY <1>1 DEF TableInv, Unpublished
<1>. HIDE DEF a, k, q
<1>8. TableLive'
  <2>1. SUFFICES ASSUME NEW b \in Assoc, NEW j \in Qids, queues'[b][j] # None
                 PROVE  /\ queue'[queues'[b][j]].st = "live"
                        /\ queue'[queues'[b][j]].assoc = b /\ queue'[queues'[b][j]].qid = j
    BY DEF TableLive
  <2>2. CASE b = a /\ j = k
    BY <1>5, <1>6, <1>7, <2>2
  <2>3. CASE ~(b = a /\ j = k)
    <3>1. queues'[b][j] = queues[b][j]
      BY <1>5, <2>3
    <3>2. /\ queue[queues[b][j]].st = "live"
          /\ queue[queues[b][j]].assoc = b /\ queue[queues[b][j]].qid = j
      BY <2>1, <3>1 DEF TableInv, TableLive
    <3>. QED
      BY <1>6, <3>1, <3>2
  <2>. QED
    BY <2>2, <2>3
<1>9. \A x \in Thread : thread'[x].queue \in {thread[x].queue, None}
  BY <1>3 DEF Others, q
<1>10. NamesKnown'
  BY <1>6, <1>9 DEF TableInv, NamesKnown
<1>11. Unpublished'
  <2>1. SUFFICES ASSUME NEW x \in Thread, thread'[x].pc = "publish"
                 PROVE  /\ queue[thread'[x].queue].st = "live"
                        /\ queue[thread'[x].queue].assoc = thread'[x].assoc
                        /\ queue[thread'[x].queue].qid = thread'[x].i
                        /\ \A y \in Thread \ {x} : thread'[y].queue # thread'[x].queue
                        /\ \A b \in Assoc, j \in Qids : queues'[b][j] # thread'[x].queue
    BY <1>6 DEF Unpublished
  <2>2. x # i /\ thread'[x] = thread[x] /\ thread[x].pc = "publish"
    BY <1>3, <1>4, <2>1 DEF Others
  <2>3. /\ queue[thread[x].queue].st = "live"
        /\ queue[thread[x].queue].assoc = thread[x].assoc
        /\ queue[thread[x].queue].qid = thread[x].i
        /\ \A y \in Thread \ {x} : thread[y].queue # thread[x].queue
        /\ \A b \in Assoc, j \in Qids : queues[b][j] # thread[x].queue
    BY <2>2 DEF TableInv, Unpublished
  <2>4. thread[x].queue # None /\ thread[x].queue # q
    BY <1>7, <2>2, Shapes
  <2>5. \A y \in Thread \ {x} : thread'[y].queue # thread[x].queue
    BY <1>9, <2>3, <2>4
  <2>6. \A b \in Assoc, j \in Qids : queues'[b][j] # thread[x].queue
    BY <1>5, <2>3, <2>4
  <2>. QED
    BY <2>2, <2>3, <2>5, <2>6
<1>12. Owned'
  BY <1>6 DEF TableInv, Owned
<1>13. NoneMissing'
  <2>1. SUFFICES ASSUME "same_qid" \notin races', NEW x \in Queue, queue[x].st = "live"
                 PROVE  \/ queues'[queue[x].assoc][queue[x].qid] = x
                        \/ \E j \in Iod : thread'[j].pc = "publish" /\ thread'[j].queue = x
    BY <1>6 DEF NoneMissing
  <2>2. CASE x = q
    BY <1>1, <1>5, <1>7, <2>2
  <2>3. CASE x # q
    <3>1. \/ queues[queue[x].assoc][queue[x].qid] = x
          \/ \E j \in Iod : thread[j].pc = "publish" /\ thread[j].queue = x
      BY <1>6, <2>1 DEF TableInv, NoneMissing
    <3>2. ASSUME NEW j \in Iod, thread[j].pc = "publish", thread[j].queue = x
          PROVE  thread'[j] = thread[j]
      BY <1>3, <2>3, <3>2 DEF Others, Thread, q
    <3>3. ASSUME queues[queue[x].assoc][queue[x].qid] = x
          PROVE  queues'[queue[x].assoc][queue[x].qid] = x
      <4>1. queue[x].assoc \in Assoc /\ queue[x].qid \in Qids
        BY <2>1, Shapes DEF TableInv, Owned, QueueRec
      <4>2. queues[a][k] # x
        BY <1>6, <2>1
      <4>. QED
        BY <1>5, <3>3, <4>1, <4>2
    <3>. QED
      BY <3>1, <3>2, <3>3
  <2>. QED
    BY <2>2, <2>3
<1>. QED
  BY <1>8, <1>10, <1>11, <1>12, <1>13 DEF TableInv

-----------------------------------------------------------------------------
(* The other actions.                                                      *)

LEMMA SameQueuesStep ==
    ASSUME Inv, NEW q \in Queue,
           \/ queue' = queue
           \/ queue' = [queue EXCEPT ![q].ref = @ + 1]
           \/ queue' = [queue EXCEPT ![q].connected = TRUE]
           \/ queue' = [queue EXCEPT ![q].connected = FALSE]
    PROVE  SameQueues
<1>1. queue \in [Queue -> QueueRec]
  BY Shapes
<1>. QED
  BY <1>1 DEF SameQueues, QueueRec

LEMMA SameQueuesAlone == queue' = queue => SameQueues
  BY DEF SameQueues

\* A reference of an association, or of the port, is put by t, which has moved on.
LEMMA AssocPutFinds ==
    ASSUME Inv, NEW t \in Thread, NEW pc \in Pcs \ {"publish"}, thread[t].pc # "publish",
           NEW a \in Assoc, thread' = AssocPut(Goes(t, pc), t, a)
    PROVE  Others(t) /\ Finds(t)
<1>. DEFINE new == Goes(t, pc)  put == AssocPut(new, t, a)
<1>1. /\ new \in [Thread -> Rec] /\ \A x \in Thread \ {t} : new[x] = thread[x]
      /\ new[t].pc = pc /\ new[t].queue \in {thread[t].queue, None}
  BY GoesWhere
<1>. HIDE DEF new
<1>2. /\ \A x \in Thread \ {t} : put[x] = new[x]
      /\ put[t].pc = new[t].pc /\ put[t].queue = new[t].queue
  BY <1>1, AssocPutType
<1>3. thread' = put
  BY DEF new
<1>. HIDE DEF put
<1>. QED
  BY <1>1, <1>2, <1>3 DEF Others, Finds

LEMMA TgtPutFinds ==
    ASSUME Inv, NEW t \in Thread, NEW pc \in Pcs \ {"publish"}, thread[t].pc # "publish",
           thread' = TgtPut(Goes(t, pc), t)
    PROVE  Others(t) /\ Finds(t)
<1>. DEFINE new == Goes(t, pc)  put == TgtPut(new, t)
<1>1. /\ new \in [Thread -> Rec] /\ \A x \in Thread \ {t} : new[x] = thread[x]
      /\ new[t].pc = pc /\ new[t].queue \in {thread[t].queue, None}
  BY GoesWhere
<1>. HIDE DEF new
<1>2. /\ \A x \in Thread \ {t} : put[x] = new[x]
      /\ put[t].pc = new[t].pc /\ put[t].queue = new[t].queue
  BY <1>1, TgtPutType
<1>3. thread' = put
  BY DEF new
<1>. HIDE DEF put
<1>. QED
  BY <1>1, <1>2, <1>3 DEF Others, Finds

\* A thread that takes an association, and goes to pc.
LEMMA AssocFinds ==
    ASSUME Inv, NEW t \in Thread, NEW pc \in Pcs \ {"publish"}, thread[t].pc # "publish",
           NEW a \in Assoc, thread' = [Goes(t, pc) EXCEPT ![t].assoc = a]
    PROVE  Others(t) /\ Finds(t)
<1>. DEFINE new == Goes(t, pc)  got == [new EXCEPT ![t].assoc = a]
<1>1. /\ new \in [Thread -> Rec] /\ \A x \in Thread \ {t} : new[x] = thread[x]
      /\ new[t].pc = pc /\ new[t].queue \in {thread[t].queue, None}
  BY GoesWhere
<1>. HIDE DEF new
<1>2. OnlyThread(got, new, t) /\ Like(got[t], new[t], "assoc")
  BY <1>1, SetAssoc
<1>3. thread' = got
  BY DEF new
<1>. HIDE DEF got
<1>. QED
  BY <1>1, <1>2, <1>3 DEF Others, Finds, OnlyThread, Like

\* A thread that takes a queue of the table.
LEMMA TakenFinds ==
    ASSUME Inv, NEW t \in Thread, NEW pc \in {"delete", "command"}, thread[t].pc # "publish",
           NEW q \in Queue, \E a \in Assoc, k \in Qids : q = queues[a][k],
           thread' = [Goes(t, pc) EXCEPT ![t].queue = q]
    PROVE  Others(t) /\ Finds(t)
<1>. DEFINE new == Goes(t, pc)  got == [new EXCEPT ![t].queue = q]
<1>0. pc \in Pcs /\ pc \notin {"gone", "next", "publish"}
  BY DEF Pcs
<1>1. /\ new \in [Thread -> Rec] /\ \A x \in Thread \ {t} : new[x] = thread[x]
      /\ new[t].pc = pc
  BY <1>0, GoesWhere
<1>. HIDE DEF new
<1>2. OnlyThread(got, new, t) /\ got[t].queue = q /\ Like(got[t], new[t], "queue")
  BY <1>1, SetQueue, ZenonT(60)
<1>3. thread' = got
  BY DEF new
<1>. HIDE DEF got
<1>4. thread'[t].pc = pc /\ thread'[t].queue = q
  BY <1>2, <1>1, <1>3 DEF Like
<1>. QED
  BY <1>0, <1>1, <1>2, <1>3, <1>4 DEF Others, Finds, OnlyThread

LEMMA RcvLsReqTable ==
    ASSUME Inv, TableInv, NEW i \in Iod, RcvLsReq(i)
    PROVE  TableInv'
<1>1. i \in Thread /\ thread[i] \in Rec /\ thread[i].pc = "idle"
  BY ReadyKnows DEF RcvLsReq
<1>2. PICK r \in Requests :
        thread' = [thread EXCEPT
            ![i].rqst = r, ![i].i = r.qid,
            ![i].pc = CASE r.kind = "create" -> "alloc_assoc"
                        [] r.kind = "other" -> "respond"
                        [] OTHER -> "find_assoc"]
  BY DEF RcvLsReq
<1>. DEFINE pc == CASE r.kind = "create" -> "alloc_assoc"
                    [] r.kind = "other" -> "respond"
                    [] OTHER -> "find_assoc"
            me == [thread[i] EXCEPT !.rqst = r, !.i = r.qid, !.pc = pc]
<1>3. pc # "publish"
  OBVIOUS
<1>4. thread \in [Thread -> Rec]
  BY DEF Inv, TypeOK, Rec
<1>5. thread' = [thread EXCEPT ![i] = me]
  BY <1>1, <1>2, <1>4 DEF Rec
<1>. HIDE DEF pc
<1>6. me.pc = pc /\ me.queue = thread[i].queue
  BY <1>1 DEF Rec
<1>. HIDE DEF me
<1>7. Others(i) /\ Finds(i)
  BY <1>1, <1>3, <1>4, <1>5, <1>6 DEF Others, Finds
<1>. QED
  BY <1>1, <1>7, KeptStep, SameQueuesAlone DEF RcvLsReq, Kept

LEMMA AllocAssocTable ==
    ASSUME Inv, TableInv, NEW i \in Iod, AllocAssoc(i)
    PROVE  TableInv'
<1>1. i \in Thread /\ thread[i].pc = "alloc_assoc"
  BY ReadyKnows DEF AllocAssoc
<1>2. ASSUME NEW a \in Assoc, thread' = [Goes(i, "alloc_queue") EXCEPT ![i].assoc = a]
      PROVE  Others(i) /\ Finds(i)
  <2>1. "alloc_queue" \in Pcs \ {"publish"}
    BY DEF Pcs
  <2>. QED
    BY <1>1, <1>2, <2>1, AssocFinds
<1>3. ASSUME thread' = Goes(i, "respond") PROVE Others(i) /\ Finds(i)
  BY <1>1, <1>3, GoesFinds DEF Pcs
<1>4. Kept
  BY SameQueuesAlone DEF AllocAssoc, Kept
<1>. QED
  BY <1>1, <1>2, <1>3, <1>4, KeptStep DEF AllocAssoc

LEMMA FindAssocTable ==
    ASSUME Inv, TableInv, NEW i \in Iod, FindAssoc(i)
    PROVE  TableInv'
<1>. DEFINE a == thread[i].rqst.assoc
            pc == CASE thread[i].rqst.kind = "connect" -> "alloc_queue"
                    [] thread[i].rqst.kind = "disconnect" -> "find_queue"
                    [] OTHER -> "put_found"
            me == [thread[i] EXCEPT !.assoc = a, !.pc = pc]
<1>1. i \in Thread /\ thread[i] \in Rec /\ thread[i].pc = "find_assoc"
  BY ReadyKnows DEF FindAssoc
<1>2. thread \in [Thread -> Rec]
  BY DEF Inv, TypeOK, Rec
<1>3. pc # "publish"
  OBVIOUS
<1>4. CASE Listed(a)
  <2>1. thread' = [thread EXCEPT ![i].assoc = a, ![i].pc = pc]
    BY <1>4 DEF FindAssoc
  <2>. HIDE DEF a, pc
  <2>2. thread' = [thread EXCEPT ![i] = me]
    BY <1>1, <1>2, <2>1 DEF Rec
  <2>3. me.pc = pc /\ me.queue = thread[i].queue
    BY <1>1 DEF Rec
  <2>. HIDE DEF me
  <2>4. Others(i) /\ Finds(i)
    BY <1>1, <1>2, <1>3, <2>2, <2>3 DEF Others, Finds
  <2>5. Kept
    BY <1>4, SameQueuesAlone DEF FindAssoc, Kept, a
  <2>. QED
    BY <1>1, <2>4, <2>5, KeptStep
<1>5. CASE ~Listed(a)
  <2>1. thread' = Goes(i, "respond") /\ Kept
    BY <1>5, SameQueuesAlone DEF FindAssoc, Kept
  <2>2. Others(i) /\ Finds(i)
    BY <1>1, <2>1, GoesFinds DEF Pcs
  <2>. QED
    BY <1>1, <2>1, <2>2, KeptStep
<1>. QED
  BY <1>4, <1>5

LEMMA UseQueueTable ==
    ASSUME Inv, TableInv, NEW i \in Iod, UseQueue(i)
    PROVE  TableInv'
<1>1. i \in Thread /\ thread[i].pc = "use_queue" /\ thread[i].queue \in Queue
  BY ReadyKnows DEF UseQueue, ThreadOK, QueueUsers
<1>2. Others(i) /\ Finds(i)
  BY <1>1, GoesFinds DEF UseQueue, Pcs
<1>3. Kept
  BY <1>1, SameQueuesStep DEF UseQueue, Kept
<1>. QED
  BY <1>1, <1>2, <1>3, KeptStep

LEMMA FindQueueTable ==
    ASSUME Inv, TableInv, NEW i \in Iod, FindQueue(i)
    PROVE  TableInv'
<1>. DEFINE a == thread[i].rqst.of  k == thread[i].i
<1>1. i \in Thread /\ thread[i].pc = "find_queue"
  BY ReadyKnows, ZenonT(60) DEF FindQueue
<1>2. ASSUME NEW q \in Found(a, k),
             queue' = [queue EXCEPT ![q].ref = @ + 1],
             thread' = [Goes(i, "delete") EXCEPT ![i].queue = q]
      PROVE  Others(i) /\ Finds(i) /\ SameQueues
  <2>. HIDE DEF a, k
  <2>1. q \in Queue /\ \E b \in Assoc, j \in Qids : q = queues[b][j]
    BY FoundType
  <2>2. SameQueues
    BY <1>2, <2>1, SameQueuesStep
  <2>. QED
    BY <1>1, <1>2, <2>1, <2>2, TakenFinds
<1>3. ASSUME NEW pc \in {"put_found", "past_table"}, thread' = Goes(i, pc), UNCHANGED queue
      PROVE  Others(i) /\ Finds(i) /\ SameQueues
  <2>1. pc \in Pcs \ {"publish"}
    BY DEF Pcs
  <2>. QED
    BY <1>1, <1>3, <2>1, GoesFinds, SameQueuesAlone
<1>4. Others(i) /\ Finds(i) /\ SameQueues
  BY <1>2, <1>3 DEF FindQueue
<1>. QED
  BY <1>1, <1>4, KeptStep DEF FindQueue, Kept

LEMMA PutFoundTable ==
    ASSUME Inv, TableInv, NEW i \in Iod, PutFound(i)
    PROVE  TableInv'
<1>. DEFINE pc == IF thread[i].rqst.kind = "connect" /\ thread[i].queue # None THEN "use_queue"
                  ELSE IF thread[i].rqst.kind = "disconnect" /\ thread[i].queue # None
                          /\ thread[i].rqst.qid = 0
                  THEN "begin" ELSE "respond"
<1>1. i \in Thread /\ thread[i].pc = "put_found" /\ thread[i].assoc \in Assoc
  BY ReadyKnows DEF PutFound, ThreadOK, AssocUsers
<1>2. pc \in Pcs \ {"publish"}
  BY DEF Pcs
<1>3. thread' = AssocPut(Goes(i, pc), i, thread[i].assoc)
  BY DEF PutFound
<1>. HIDE DEF pc
<1>4. Others(i) /\ Finds(i)
  BY <1>1, <1>2, <1>3, AssocPutFinds
<1>. QED
  BY <1>1, <1>4, KeptStep, SameQueuesAlone DEF PutFound, Kept

LEMMA RespondTable ==
    ASSUME Inv, TableInv, NEW i \in Iod, Respond(i)
    PROVE  TableInv'
<1>. DEFINE new == [thread EXCEPT ![i] = Resting("idle")]
<1>1. i \in Thread /\ thread[i].pc = "respond"
  BY ReadyKnows DEF Respond
<1>2. thread \in [Thread -> Rec] /\ Resting("idle") \in Rec
  <2>1. thread \in [Thread -> Rec]
    BY DEF Inv, TypeOK, Rec
  <2>2. "idle" \in Pcs
    BY DEF Pcs
  <2>3. Resting("idle") \in Rec
    BY <2>2 DEF Rec, Resting, Qids
  <2>. QED
    BY <2>1, <2>3
<1>3. /\ new \in [Thread -> Rec] /\ \A x \in Thread \ {i} : new[x] = thread[x]
      /\ new[i] = Resting("idle")
  BY <1>1, <1>2, Changed
<1>4. new[i].pc = "idle" /\ new[i].queue = None
  BY <1>3 DEF Resting
<1>5. thread' = TgtPut(new, i)
  BY DEF Respond
<1>. HIDE DEF new
<1>6. /\ \A x \in Thread \ {i} : thread'[x] = thread[x]
      /\ thread'[i].pc = "idle" /\ thread'[i].queue = None
  BY <1>1, <1>3, <1>4, <1>5, TgtPutType
<1>7. Others(i) /\ Finds(i)
  BY <1>1, <1>6 DEF Others, Finds
<1>. QED
  BY <1>1, <1>7, KeptStep, SameQueuesAlone DEF Respond, Kept

LEMMA DeleteQueueTable ==
    ASSUME Inv, TableInv, NEW t \in Thread, DeleteQueue(t)
    PROVE  TableInv'
<1>1. thread[t].pc = "delete" /\ thread[t].queue \in Queue
  BY ReadyKnows DEF DeleteQueue, ThreadOK, QueueUsers
<1>2. Others(t) /\ Finds(t)
  BY <1>1, GoesFinds DEF DeleteQueue, Pcs
<1>3. Kept
  BY <1>1, SameQueuesStep DEF DeleteQueue, Kept
<1>. QED
  BY <1>2, <1>3, KeptStep

LEMMA PutsTable ==
    ASSUME Inv, TableInv, NEW t \in Thread, DropQueue(t) \/ PutQueue(t) \/ (t \in Cmd /\ CmdEnd(t))
    PROVE  TableInv'
<1>1. CASE DropQueue(t)
  <2>1. thread[t].pc = "drop" /\ thread[t].duty = "none" /\ thread[t].queue \in Queue /\ ~Stale(t)
    BY <1>1, ReadyKnows DEF DropQueue, ThreadOK, QueueUsers, Ready
  <2>2. "put_queue" \in Pcs \ {"publish"}
    BY DEF Pcs
  <2>. QED
    BY <1>1, <2>1, <2>2, QueuePutTable DEF DropQueue
<1>2. CASE PutQueue(t)
  <2>1. /\ thread[t].pc = "put_queue" /\ thread[t].duty = "none" /\ thread[t].queue \in Queue
        /\ ~Stale(t)
    BY <1>2, ReadyKnows DEF PutQueue, ThreadOK, QueueUsers, Ready
  <2>2. PICK pc \in Pcs \ {"publish"} : QueuePut(t, pc)
    BY <1>2 DEF PutQueue, Pcs
  <2>. QED
    BY <1>2, <2>1, <2>2, QueuePutTable DEF PutQueue
<1>3. CASE t \in Cmd /\ CmdEnd(t)
  <2>1. /\ thread[t].pc = "command" /\ thread[t].duty = "none" /\ thread[t].queue \in Queue
        /\ ~Stale(t)
    BY <1>3, ReadyKnows DEF CmdEnd, ThreadOK, QueueUsers, Ready
  <2>2. "gone" \in Pcs \ {"publish"}
    BY DEF Pcs
  <2>. QED
    BY <1>3, <2>1, <2>2, QueuePutTable DEF CmdEnd
<1>. QED
  BY <1>1, <1>2, <1>3

LEMMA BeginAssocTable ==
    ASSUME Inv, TableInv, NEW t \in Thread, BeginAssoc(t)
    PROVE  TableInv'
<1>. DEFINE new == Goes(t, "scan")  me == [new[t] EXCEPT !.i = MaxQid + 1, !.all = TRUE]
<1>1. thread[t].pc = "begin"
  BY ReadyKnows DEF BeginAssoc
<1>2. /\ new \in [Thread -> Rec] /\ \A x \in Thread \ {t} : new[x] = thread[x]
      /\ new[t].pc = "scan" /\ new[t].queue \in {thread[t].queue, None}
  BY GoesWhere DEF Pcs
<1>3. thread' = [new EXCEPT ![t].i = MaxQid + 1, ![t].all = TRUE]
  BY DEF BeginAssoc
<1>. HIDE DEF new
<1>4. thread' = [new EXCEPT ![t] = me]
  BY <1>2, <1>3 DEF Rec
<1>5. me.pc = "scan" /\ me.queue = new[t].queue
  <2>1. new[t] \in Rec
    BY <1>2
  <2>. QED
    BY <1>2, <2>1 DEF Rec
<1>. HIDE DEF me
<1>6. Others(t) /\ Finds(t)
  BY <1>1, <1>2, <1>4, <1>5 DEF Others, Finds
<1>. QED
  BY <1>6, KeptStep, SameQueuesAlone DEF BeginAssoc, Kept

LEMMA ScanQueuesTable ==
    ASSUME Inv, TableInv, NEW t \in Thread, ScanQueues(t)
    PROVE  TableInv'
<1>. DEFINE a == thread[t].assoc
<1>1. thread[t].pc = "scan" /\ a \in Assoc
  BY ReadyKnows DEF ScanQueues, ThreadOK, AssocUsers
<1>2. ASSUME NEW k \in Left(t),
             queue' = [queue EXCEPT ![queues[a][k]].ref = @ + 1],
             thread' = [Goes(t, "delete") EXCEPT ![t].queue = queues[a][k], ![t].i = k]
      PROVE  Others(t) /\ Finds(t) /\ SameQueues
  <2>1. k \in 0 .. MaxQid + 1 /\ k \in Qids /\ queues[a][k] # None
    <3>1. thread[t].i \in 0 .. MaxQid + 1
      BY DEF Inv, TypeOK
    <3>. QED
      BY <3>1 DEF Left, Qids
  <2>2. queues[a][k] \in Queue
    BY <1>1, <2>1, Shapes
  <2>. DEFINE q == queues[a][k]  got == [Goes(t, "delete") EXCEPT ![t].queue = q]
  <2>3. /\ got \in [Thread -> Rec] /\ \A x \in Thread \ {t} : got[x] = thread[x]
        /\ got[t].pc = "delete" /\ got[t].queue = q
    <3>1. q \in Queue
      BY <2>2
    <3>. HIDE DEF q
    <3>. QED
      BY <3>1, TakenWhere
  <2>4. thread' = [got EXCEPT ![t].i = k]
    BY <1>2
  <2>. HIDE DEF got
  <2>5. OnlyThread(thread', got, t) /\ Like(thread'[t], got[t], "i")
    BY <2>1, <2>3, <2>4, SetIndex
  <2>6. Others(t) /\ Finds(t)
    BY <1>1, <2>1, <2>3, <2>5 DEF Others, Finds, OnlyThread, Like
  <2>7. SameQueues
    BY <1>2, <2>2, SameQueuesStep
  <2>. QED
    BY <2>6, <2>7
<1>3. ASSUME thread' = Goes(t, "put_assoc"), UNCHANGED queue
      PROVE  Others(t) /\ Finds(t) /\ SameQueues
  BY <1>1, <1>3, GoesFinds, SameQueuesAlone DEF Pcs
<1>. QED
  BY <1>2, <1>3, KeptStep, ZenonT(60) DEF ScanQueues, Kept

LEMMA PutAssocTable ==
    ASSUME Inv, TableInv, NEW t \in Thread, PutAssoc(t)
    PROVE  TableInv'
<1>. DEFINE pc == IF t \in Iod THEN "respond" ELSE "done"
<1>1. thread[t].pc = "put_assoc" /\ thread[t].assoc \in Assoc
  BY ReadyKnows DEF PutAssoc, ThreadOK, AssocUsers
<1>2. pc \in Pcs \ {"publish"}
  BY DEF Pcs
<1>3. thread' = AssocPut(Goes(t, pc), t, thread[t].assoc)
  BY DEF PutAssoc
<1>. HIDE DEF pc
<1>4. Others(t) /\ Finds(t)
  BY <1>1, <1>2, <1>3, AssocPutFinds
<1>. QED
  BY <1>4, KeptStep, SameQueuesAlone DEF PutAssoc, Kept

LEMMA PutDoneTable ==
    ASSUME Inv, TableInv, NEW t \in {Unreg, Ctrl}, PutDone(t)
    PROVE  TableInv'
<1>. DEFINE pc == IF t = Unreg THEN "next" ELSE "gone"
<1>1. t \in Thread /\ thread[t].pc = "done" /\ thread[t].assoc \in Assoc
  BY ReadyKnows DEF PutDone, ThreadOK, AssocUsers
<1>2. pc \in Pcs \ {"publish"}
  BY DEF Pcs
<1>3. thread' = AssocPut(Goes(t, pc), t, thread[t].assoc)
  BY DEF PutDone
<1>. HIDE DEF pc
<1>4. Others(t) /\ Finds(t)
  BY <1>1, <1>2, <1>3, AssocPutFinds
<1>. QED
  BY <1>1, <1>4, KeptStep, SameQueuesAlone DEF PutDone, Kept

\* A thread that frees something stays where it is.
LEMMA FreeingTable ==
    ASSUME Inv, TableInv, NEW t \in Thread, Freeing(t)
    PROVE  TableInv'
<1>. DEFINE done == [thread EXCEPT ![t].duty = "none", ![t].owed = None]
            quit == [thread EXCEPT ![t].duty = "none"]
<1>1. thread \in [Thread -> Rec] /\ thread[t] \in Rec
  BY DEF Inv, TypeOK, Rec
<1>2. /\ done \in [Thread -> Rec] /\ \A x \in Thread \ {t} : done[x] = thread[x]
      /\ done[t].pc = thread[t].pc /\ done[t].queue = thread[t].queue
      /\ done[t].assoc = thread[t].assoc /\ done[t].i = thread[t].i
  <2>. DEFINE me == [thread[t] EXCEPT !.duty = "none", !.owed = None]
  <2>1. /\ me \in Rec /\ me.pc = thread[t].pc /\ me.queue = thread[t].queue
        /\ me.assoc = thread[t].assoc /\ me.i = thread[t].i
    BY <1>1 DEF Rec
  <2>2. done = [thread EXCEPT ![t] = me]
    BY <1>1 DEF Rec
  <2>. HIDE DEF me, done
  <2>. QED
    BY <1>1, <2>1, <2>2, Changed
<1>3. /\ quit \in [Thread -> Rec] /\ \A x \in Thread \ {t} : quit[x] = thread[x]
      /\ quit[t].pc = thread[t].pc /\ quit[t].queue = thread[t].queue
      /\ quit[t].assoc = thread[t].assoc /\ quit[t].i = thread[t].i
  <2>1. "none" \in {"none", "put_assoc", "unlist", "free_port"}
    OBVIOUS
  <2>2. OnlyThread(quit, thread, t) /\ Like(quit[t], thread[t], "duty")
    BY <1>1, <2>1, SetDuty
  <2>. HIDE DEF quit
  <2>. QED
    BY <2>2 DEF OnlyThread, Like
<1>4. Others(t) /\ Stays(t)
  <2>1. CASE FreedQueuePuts(t)
    <3>1. thread[t].owed \in Assoc
      BY <2>1 DEF FreedQueuePuts, Inv, ThreadsOK, ThreadOK
    <3>2. thread' = AssocPut(done, t, thread[t].owed)
      BY <2>1 DEF FreedQueuePuts
    <3>. HIDE DEF done
    <3>. QED
      BY <1>2, <3>1, <3>2, AssocPutType DEF Others, Stays
  <2>2. CASE AssocFree(t)
    <3>1. thread' = TgtPut(done, t)
      BY <2>2 DEF AssocFree
    <3>. HIDE DEF done
    <3>. QED
      BY <1>2, <3>1, TgtPutType DEF Others, Stays
  <2>3. CASE FreeTgtport(t)
    <3>1. thread' = quit
      BY <2>3 DEF FreeTgtport
    <3>. HIDE DEF quit
    <3>. QED
      BY <1>3, <3>1 DEF Others, Stays
  <2>. QED
    BY <2>1, <2>2, <2>3 DEF Freeing
<1>5. Kept
  BY SameQueuesAlone DEF Freeing, FreedQueuePuts, AssocFree, FreeTgtport, Kept
<1>. QED
  BY <1>4, <1>5, KeptStep

LEMMA FreeAssocsTable ==
    ASSUME Inv, TableInv, FreeAssocs
    PROVE  TableInv'
<1>1. Unreg \in Thread /\ thread[Unreg].pc \in {"idle", "next"}
  BY ReadyKnows DEF FreeAssocs
<1>2. ASSUME NEW j \in DOMAIN assoc_list,
             thread' = [Goes(Unreg, "begin") EXCEPT ![Unreg].assoc = assoc_list[j],
                                                   ![Unreg].next = After(j)]
      PROVE  Others(Unreg) /\ Finds(Unreg)
  <2>. DEFINE new == Goes(Unreg, "begin")
              me == [new[Unreg] EXCEPT !.assoc = assoc_list[j], !.next = After(j)]
  <2>1. /\ new \in [Thread -> Rec] /\ \A x \in Thread \ {Unreg} : new[x] = thread[x]
        /\ new[Unreg].pc = "begin" /\ new[Unreg].queue \in {thread[Unreg].queue, None}
    BY <1>1, GoesWhere DEF Pcs
  <2>2. thread' = [new EXCEPT ![Unreg].assoc = assoc_list[j], ![Unreg].next = After(j)]
    BY <1>2
  <2>. HIDE DEF new
  <2>3. thread' = [new EXCEPT ![Unreg] = me]
    BY <1>1, <2>1, <2>2 DEF Rec
  <2>4. me.pc = "begin" /\ me.queue = new[Unreg].queue
    <3>1. new[Unreg] \in Rec
      BY <1>1, <2>1
    <3>. QED
      BY <2>1, <3>1 DEF Rec
  <2>. HIDE DEF me
  <2>. QED
    BY <1>1, <2>1, <2>3, <2>4 DEF Others, Finds
<1>3. ASSUME thread' = Goes(Unreg, "unregister") PROVE Others(Unreg) /\ Finds(Unreg)
  BY <1>1, <1>3, GoesFinds DEF Pcs
<1>4. Others(Unreg) /\ Finds(Unreg)
  BY <1>2, <1>3 DEF FreeAssocs
<1>. QED
  BY <1>1, <1>4, KeptStep, SameQueuesAlone DEF FreeAssocs, Kept

LEMMA PortTable ==
    ASSUME Inv, TableInv, Unregister \/ AddPort \/ RemovePort
    PROVE  TableInv'
<1>1. "gone" \in Pcs \ {"publish"} /\ "bound" \in Pcs \ {"publish"}
  BY DEF Pcs
<1>2. CASE Unregister
  <2>1. Unreg \in Thread /\ thread[Unreg].pc = "unregister"
    BY <1>2, ReadyKnows DEF Unregister
  <2>2. Others(Unreg) /\ Finds(Unreg)
    BY <1>1, <1>2, <2>1, TgtPutFinds DEF Unregister
  <2>. QED
    BY <1>2, <2>1, <2>2, KeptStep, SameQueuesAlone DEF Unregister, Kept
<1>3. CASE AddPort
  <2>1. Conf \in Thread /\ thread[Conf].pc = "idle"
    BY <1>3, ReadyKnows DEF AddPort
  <2>2. Others(Conf) /\ Finds(Conf)
    BY <1>1, <1>3, <2>1, GoesFinds DEF AddPort
  <2>. QED
    BY <1>3, <2>1, <2>2, KeptStep, SameQueuesAlone DEF AddPort, Kept
<1>4. CASE RemovePort
  <2>1. Conf \in Thread /\ thread[Conf].pc = "bound"
    BY <1>4, ReadyKnows DEF RemovePort
  <2>2. Others(Conf) /\ Finds(Conf)
    BY <1>1, <1>4, <2>1, TgtPutFinds DEF RemovePort
  <2>. QED
    BY <1>4, <2>1, <2>2, KeptStep, SameQueuesAlone DEF RemovePort, Kept
<1>. QED
  BY <1>2, <1>3, <1>4

LEMMA CtrlTable ==
    ASSUME Inv, TableInv, DeleteCtrl \/ FindCtrl \/ CtrlPut
    PROVE  TableInv'
<1>1. /\ Ctrl \in Thread /\ thread[Ctrl].pc \in {"idle", "find_ctrl", "put_port"}
  BY ReadyKnows DEF DeleteCtrl, FindCtrl, CtrlPut
<1>2. {"begin", "gone", "find_ctrl", "put_port"} \subseteq Pcs \ {"publish"}
  BY DEF Pcs
<1>3. \/ \E a \in Assoc : thread' = [Goes(Ctrl, "put_port") EXCEPT ![Ctrl].assoc = a]
      \/ \E pc \in {"gone", "find_ctrl", "put_port"} : thread' = Goes(Ctrl, pc)
      \/ \E pc \in {"gone", "begin"} : thread' = TgtPut(Goes(Ctrl, pc), Ctrl)
  BY DEF DeleteCtrl, FindCtrl, CtrlPut
<1>4. Others(Ctrl) /\ Finds(Ctrl)
  BY <1>1, <1>2, <1>3, AssocFinds, GoesFinds, TgtPutFinds
<1>5. Kept
  BY SameQueuesAlone DEF DeleteCtrl, FindCtrl, CtrlPut, Kept
<1>. QED
  BY <1>1, <1>4, <1>5, KeptStep

LEMMA CmdArriveTable ==
    ASSUME Inv, TableInv, NEW c \in Cmd, CmdArrive(c)
    PROVE  TableInv'
<1>1. c \in Thread /\ thread[c].pc = "idle"
  BY ReadyKnows DEF CmdArrive
<1>2. ASSUME NEW a \in Assoc, NEW k \in Qids, NEW q \in Found(a, k),
             queue' = [queue EXCEPT ![q].ref = @ + 1],
             thread' = [Goes(c, "command") EXCEPT ![c].queue = q]
      PROVE  Others(c) /\ Finds(c) /\ SameQueues
  <2>1. q \in Queue /\ q = queues[a][k]
    BY FoundType
  <2>2. SameQueues
    BY <1>2, <2>1, SameQueuesStep
  <2>. QED
    BY <1>1, <1>2, <2>1, <2>2, TakenFinds
<1>3. ASSUME thread' = Goes(c, "past_table"), UNCHANGED queue
      PROVE  Others(c) /\ Finds(c) /\ SameQueues
  BY <1>1, <1>3, GoesFinds, SameQueuesAlone DEF Pcs
<1>4. Others(c) /\ Finds(c) /\ SameQueues
  BY <1>2, <1>3 DEF CmdArrive
<1>. QED
  BY <1>1, <1>4, KeptStep DEF CmdArrive, Kept

LEMMA InitTable == Init => TableInv
<1>. SUFFICES ASSUME Init PROVE TableInv
  OBVIOUS
<1>1. /\ \A a \in Assoc, k \in Qids : queues[a][k] = None
      /\ \A q \in Queue : queue[q].st = "none"
      /\ \A t \in Thread : thread[t].queue = None /\ thread[t].pc = "idle"
  BY DEF Init, Resting
<1>. QED
  BY <1>1 DEF TableInv, TableLive, NamesKnown, Unpublished, Owned, NoneMissing

LEMMA StepTable == Inv /\ TableInv /\ [Next]_vars => TableInv'
<1>. SUFFICES ASSUME Inv, TableInv, [Next]_vars PROVE TableInv'
  OBVIOUS
<1>1. ASSUME NEW i \in Iod, LsRequest(i) PROVE TableInv'
  BY <1>1, RcvLsReqTable, AllocAssocTable, FindAssocTable, AllocQueueTable, PublishTable,
     UseQueueTable, FindQueueTable, PutFoundTable, RespondTable DEF LsRequest
<1>2. ASSUME NEW t \in Thread, Deletion(t) PROVE TableInv'
  BY <1>2, DeleteQueueTable, PutsTable, BeginAssocTable, ScanQueuesTable,
     PutAssocTable DEF Deletion
<1>3. ASSUME NEW t \in Thread, Freeing(t) PROVE TableInv'
  BY <1>3, FreeingTable
<1>4. ASSUME NEW c \in Cmd, CmdArrive(c) \/ CmdEnd(c) PROVE TableInv'
  BY <1>4, CmdArriveTable, PutsTable DEF Thread
<1>5. ASSUME NEW t \in {Unreg, Ctrl}, PutDone(t) PROVE TableInv'
  BY <1>5, PutDoneTable
<1>6. CASE UNCHANGED vars
  <2>1. Unreg \in Thread
    BY DEF Thread
  <2>2. Others(Unreg) /\ Stays(Unreg)
    BY <1>6 DEF vars, Others, Stays
  <2>. QED
    BY <1>6, <2>1, <2>2, KeptStep, SameQueuesAlone DEF vars, Kept
<1>. QED
  BY <1>1, <1>2, <1>3, <1>4, <1>5, <1>6, FreeAssocsTable, PortTable, CtrlTable DEF Next

\* For any number of associations, queues, LS requests and commands: what the table of
\* an association names is a live queue of that number of this association, and a
\* live queue is missing only before nvmet_fc_alloc_target_queue has published it,
\* unless its number has been given twice.
THEOREM TableCorrect == Spec => []TableSound
<1>1. Spec => []TableInv
  BY InitTable, StepTable, Inductive, PTL DEF Spec
<1>2. TableInv => TableSound
  BY DEF TableInv, TableLive, NoneMissing, TableSound
<1>. QED
  BY <1>1, <1>2, PTL

-----------------------------------------------------------------------------
(* How a step moves its thread.                                            *)

\* The locals that are not in F stay.
Same(new, me, F) ==
    /\ "pc" \in F \/ new.pc = me.pc
    /\ "rqst" \in F \/ new.rqst = me.rqst
    /\ "assoc" \in F \/ new.assoc = me.assoc
    /\ "queue" \in F \/ new.queue = me.queue
    /\ "i" \in F \/ new.i = me.i
    /\ "all" \in F \/ new.all = me.all
    /\ "next" \in F \/ new.next = me.next
    /\ "duty" \in F \/ new.duty = me.duty
    /\ "owed" \in F \/ new.owed = me.owed
\* They are forgotten, all but one.
Blank(new) ==
    /\ new.rqst = NoRequest /\ new.assoc = None /\ new.queue = None /\ new.i = 0
    /\ new.all = FALSE /\ new.owed = None

\* What the new threads are, when one moves.
Moved(th, t) == th \in [Thread -> Rec] /\ \A x \in Thread \ {t} : th[x] = thread[x]

LEMMA Replaced ==
    ASSUME Inv, NEW t \in Thread, NEW me \in Rec
    PROVE  Moved([thread EXCEPT ![t] = me], t) /\ [thread EXCEPT ![t] = me][t] = me
<1>1. thread \in [Thread -> Rec]
  BY DEF Inv, TypeOK, Rec
<1>. QED
  BY <1>1, Changed DEF Moved

LEMMA RestingIs ==
    ASSUME NEW pc \in Pcs
    PROVE  Resting(pc) \in Rec /\ Blank(Resting(pc)) /\ Resting(pc).pc = pc
           /\ Resting(pc).next = None /\ Resting(pc).duty = "none"
<1>1. Resting(pc) \in Rec
  BY DEF Resting, Rec, Qids
<1>2. Blank(Resting(pc))
  BY DEF Resting, Blank
<1>3. /\ Resting(pc).pc = pc /\ Resting(pc).next = None /\ Resting(pc).duty = "none"
  BY DEF Resting
<1>. QED
  BY <1>1, <1>2, <1>3

LEMMA GoesMoves ==
    ASSUME Inv, NEW t \in Thread, NEW pc \in Pcs
    PROVE  /\ Moved(Goes(t, pc), t) /\ Goes(t, pc)[t].pc = pc
           /\ pc \notin {"gone", "next"} => Same(Goes(t, pc)[t], thread[t], {"pc"})
           /\ pc \in {"gone", "next"} => Blank(Goes(t, pc)[t]) /\ Goes(t, pc)[t].duty = "none"
           /\ pc = "gone" => Goes(t, pc)[t].next = None
           /\ pc = "next" => Goes(t, pc)[t].next = thread[t].next
<1>1. thread \in [Thread -> Rec] /\ thread[t] \in Rec
  BY DEF Inv, TypeOK, Rec
<1>2. CASE pc = "gone"
  <2>1. Goes(t, pc) = [thread EXCEPT ![t] = Resting(pc)]
    BY <1>2 DEF Goes
  <2>2. Resting(pc) \in Rec
    BY RestingIs
  <2>3. Moved(Goes(t, pc), t) /\ Goes(t, pc)[t] = Resting(pc)
    BY <2>1, <2>2, Replaced, ZenonT(60)
  <2>. QED
    BY <1>2, <2>3, RestingIs
<1>3. CASE pc = "next"
  <2>. DEFINE me == [Resting(pc) EXCEPT !.next = thread[t].next]
  <2>1. Goes(t, pc) = [thread EXCEPT ![t] = me]
    BY <1>3 DEF Goes
  <2>2. Resting(pc) \in Rec /\ Blank(Resting(pc)) /\ Resting(pc).pc = pc
        /\ Resting(pc).duty = "none"
    BY RestingIs
  <2>3. me \in Rec /\ me.pc = pc /\ me.duty = "none" /\ me.next = thread[t].next
    BY <1>1, <2>2 DEF Rec
  <2>4. Blank(me)
    BY <1>1, <2>2 DEF Rec, Blank
  <2>. HIDE DEF me
  <2>5. Moved([thread EXCEPT ![t] = me], t) /\ [thread EXCEPT ![t] = me][t] = me
    BY <2>3, Replaced
  <2>6. Moved(Goes(t, pc), t) /\ Goes(t, pc)[t] = me
    BY <2>1, <2>5
  <2>. QED
    BY <1>3, <2>3, <2>4, <2>6
<1>4. CASE pc \notin {"gone", "next"}
  <2>1. Goes(t, pc)[t] = [thread[t] EXCEPT !.pc = pc] /\ Moved(Goes(t, pc), t)
    BY <1>4, GoesType DEF Inv, Moved
  <2>. QED
    BY <1>1, <1>4, <2>1 DEF Rec, Same
<1>. QED
  BY <1>2, <1>3, <1>4

\* The thread puts an association: it may have to free it.
Puts(new, me, a) ==
    /\ Same(new, me, {"duty", "owed"})
    /\ IF assoc[a].ref = 1 THEN new.duty = "unlist" /\ new.owed = a
       ELSE new.duty = me.duty /\ new.owed = me.owed
LEMMA AssocPutMoves ==
    ASSUME NEW th, NEW t \in Thread, NEW a \in Assoc, Moved(th, t)
    PROVE  /\ Moved(AssocPut(th, t, a), t)
           /\ Puts(AssocPut(th, t, a)[t], th[t], a)
<1>1. th \in [Thread -> Rec] /\ th[t] \in Rec
  BY DEF Moved
<1>2. CASE assoc[a].ref = 1
  <2>. DEFINE me == [th[t] EXCEPT !.duty = "unlist", !.owed = a]
  <2>1. AssocPut(th, t, a) = [th EXCEPT ![t] = me]
    BY <1>1, <1>2 DEF AssocPut, Rec
  <2>2. me \in Rec /\ Same(me, th[t], {"duty", "owed"}) /\ me.duty = "unlist" /\ me.owed = a
    BY <1>1 DEF Same, Rec
  <2>. HIDE DEF me
  <2>. QED
    BY <1>1, <1>2, <2>1, <2>2, Changed DEF Moved, Puts
<1>3. CASE assoc[a].ref # 1
  <2>1. AssocPut(th, t, a) = th
    BY <1>3 DEF AssocPut
  <2>. QED
    BY <1>3, <2>1 DEF Puts, Same
<1>. QED
  BY <1>2, <1>3

\* The thread puts the port: it may have to free it.
PutsPort(new, me) ==
    /\ Same(new, me, {"duty"})
    /\ IF tgt.ref = 1 THEN new.duty = "free_port" ELSE new.duty = me.duty
LEMMA TgtPutMoves ==
    ASSUME NEW th, NEW t \in Thread, Moved(th, t)
    PROVE  Moved(TgtPut(th, t), t) /\ PutsPort(TgtPut(th, t)[t], th[t])
<1>1. th \in [Thread -> Rec] /\ th[t] \in Rec
  BY DEF Moved
<1>2. CASE tgt.ref = 1
  <2>. DEFINE me == [th[t] EXCEPT !.duty = "free_port"]
  <2>1. TgtPut(th, t) = [th EXCEPT ![t] = me]
    BY <1>1, <1>2 DEF TgtPut, Rec
  <2>2. me \in Rec
    BY <1>1 DEF Rec
  <2>3. Same(me, th[t], {"duty"}) /\ me.duty = "free_port"
    BY <1>1 DEF Same, Rec
  <2>. HIDE DEF me
  <2>4. Moved(TgtPut(th, t), t) /\ TgtPut(th, t)[t] = me
    BY <1>1, <2>1, <2>2, Changed DEF Moved
  <2>. QED
    BY <1>2, <2>3, <2>4 DEF PutsPort
<1>3. CASE tgt.ref # 1
  <2>1. TgtPut(th, t) = th
    BY <1>3 DEF TgtPut
  <2>. QED
    BY <1>3, <2>1 DEF PutsPort, Same
<1>. QED
  BY <1>2, <1>3

\* What happens to the counts.
OnlyAssoc(a) == \A x \in Assoc \ {a} : assoc'[x] = assoc[x]
AssocMade(a) ==
    /\ OnlyAssoc(a) /\ assoc[a].st = "none" /\ assoc[a].ref = 0
    /\ assoc'[a].st = "live" /\ assoc'[a].ref = 1
AssocTaken(a) ==
    /\ OnlyAssoc(a) /\ assoc[a].ref > 0
    /\ assoc'[a].st = assoc[a].st /\ assoc'[a].ref = assoc[a].ref + 1
AssocGiven(a) ==
    /\ OnlyAssoc(a) /\ assoc[a].ref > 0 /\ assoc'[a].ref = assoc[a].ref - 1
    /\ IF assoc[a].ref = 1 THEN assoc'[a].st = "dying" ELSE assoc'[a].st = assoc[a].st
AssocFreed(a) ==
    /\ OnlyAssoc(a) /\ assoc[a].st = "dying"
    /\ assoc'[a].st = "freed" /\ assoc'[a].ref = assoc[a].ref
OnlyQueue(q) == \A x \in Queue \ {q} : queue'[x] = queue[x]
QueueMade(q, a, k) ==
    /\ OnlyQueue(q) /\ queue[q].st = "none"
    /\ queue'[q].st = "live" /\ queue'[q].ref = 1 /\ queue'[q].assoc = a /\ queue'[q].qid = k
QueueTaken(q) ==
    /\ OnlyQueue(q) /\ queue[q].ref > 0 /\ queue'[q].st = queue[q].st
    /\ queue'[q].ref = queue[q].ref + 1
    /\ queue'[q].assoc = queue[q].assoc /\ queue'[q].qid = queue[q].qid
QueueGiven(q) ==
    /\ OnlyQueue(q) /\ queue[q].ref > 0 /\ queue'[q].ref = queue[q].ref - 1
    /\ IF queue[q].ref = 1 THEN queue'[q].st = "freed" ELSE queue'[q].st = queue[q].st
    /\ queue'[q].assoc = queue[q].assoc /\ queue'[q].qid = queue[q].qid
SameRefs == \A q \in Queue :
    /\ queue'[q].st = queue[q].st /\ queue'[q].ref = queue[q].ref
    /\ queue'[q].assoc = queue[q].assoc /\ queue'[q].qid = queue[q].qid

LEMMA Fields ==
    ASSUME Inv
    PROVE  /\ thread \in [Thread -> Rec] /\ assoc \in [Assoc -> AssocRec]
           /\ queue \in [Queue -> QueueRec]
           /\ \A t \in Thread : thread[t] \in Rec
           /\ \A a \in Assoc : assoc[a].ref \in Nat
           /\ \A q \in Queue : queue[q].ref \in Nat
<1>1. /\ thread \in [Thread -> Rec] /\ assoc \in [Assoc -> AssocRec]
      /\ queue \in [Queue -> QueueRec]
  BY DEF Inv, TypeOK, Rec, AssocRec, QueueRec
<1>. QED
  BY <1>1 DEF AssocRec, QueueRec

LEMMA AssocTakenIs ==
    ASSUME Inv, NEW a \in Assoc, assoc[a].ref > 0, assoc' = [assoc EXCEPT ![a].ref = @ + 1]
    PROVE  AssocTaken(a)
  BY Fields DEF AssocTaken, OnlyAssoc, AssocRec

LEMMA AssocMadeIs ==
    ASSUME Inv, NEW a \in Assoc, assoc[a].st = "none",
           assoc' = [assoc EXCEPT ![a] = [st |-> "live", ref |-> 1]]
    PROVE  AssocMade(a)
<1>1. assoc[a].ref = 0
  BY DEF Inv, ObjectsOK
<1>. QED
  BY <1>1, Fields DEF AssocMade, OnlyAssoc, AssocRec

LEMMA AssocGivenIs ==
    ASSUME Inv, NEW a \in Assoc, assoc[a].ref # 0, assoc' = PutOf(a)
    PROVE  AssocGiven(a)
<1>1. assoc[a].ref > 0
  BY Fields
<1>2. CASE assoc[a].ref = 1
  <2>1. assoc' = [assoc EXCEPT ![a] = [st |-> "dying", ref |-> assoc[a].ref - 1]]
    BY <1>2 DEF PutOf
  <2>. QED
    BY <1>1, <1>2, <2>1, Fields DEF AssocGiven, OnlyAssoc, AssocRec
<1>3. CASE assoc[a].ref # 1
  <2>1. assoc' = [assoc EXCEPT ![a] = [st |-> assoc[a].st, ref |-> assoc[a].ref - 1]]
    BY <1>3 DEF PutOf
  <2>. QED
    BY <1>1, <1>3, <2>1, Fields DEF AssocGiven, OnlyAssoc, AssocRec
<1>. QED
  BY <1>2, <1>3

LEMMA QueueTakenIs ==
    ASSUME Inv, NEW q \in Queue, queue[q].ref > 0, queue' = [queue EXCEPT ![q].ref = @ + 1]
    PROVE  QueueTaken(q)
  BY Fields DEF QueueTaken, OnlyQueue, QueueRec

LEMMA QueueMadeIs ==
    ASSUME Inv, NEW q \in Queue, NEW a, NEW k, queue[q].st = "none",
           queue' = [queue EXCEPT ![q] = [st |-> "live", ref |-> 1, assoc |-> a, qid |-> k,
                                          connected |-> FALSE]]
    PROVE  QueueMade(q, a, k)
  BY Fields DEF QueueMade, OnlyQueue, QueueRec

LEMMA ConnectedIs ==
    ASSUME Inv, NEW q \in Queue, NEW b, queue' = [queue EXCEPT ![q].connected = b]
    PROVE  SameRefs
  BY Fields DEF SameRefs, QueueRec

LEMMA UnchangedIs == UNCHANGED queue => SameRefs
  BY DEF SameRefs

\* A thread that puts a queue: new is its record, with the place it goes to.
QueuePuts(t, pc) ==
    LET q == thread[t].queue IN
    /\ QueueGiven(q) /\ q \in Queue /\ queue[q].assoc \in Assoc
    /\ \A x \in Thread \ {t} : thread'[x] = thread[x]
    /\ thread'[t].pc = pc
    /\ IF queue[q].ref = 1 THEN thread'[t].duty = "put_assoc" /\ thread'[t].owed = queue[q].assoc
       ELSE thread'[t].duty = "none" /\ (pc = "gone" \/ thread'[t].owed = thread[t].owed)
    /\ pc = "gone" => thread'[t].queue = None /\ thread'[t].assoc = None
                      /\ thread'[t].next = None /\ thread'[t].all = FALSE
                      /\ thread'[t].rqst = NoRequest
                      /\ (queue[q].ref # 1 => thread'[t].owed = None)
    /\ pc # "gone" => Same(thread'[t], thread[t], {"pc", "duty", "owed"})
LEMMA QueuePutMoves ==
    ASSUME Inv, NEW t \in Thread, NEW pc \in Pcs \ {"next"}, thread[t].duty = "none",
           thread[t].queue \in Queue, queue[thread[t].queue].ref # 0, QueuePut(t, pc)
    PROVE  QueuePuts(t, pc)
<1>. DEFINE new == Goes(t, pc)  q == thread[t].queue  a == queue[q].assoc
<1>1. Moved(new, t) /\ new[t].pc = pc
      /\ (pc # "gone" => Same(new[t], thread[t], {"pc"}))
      /\ (pc = "gone" => Blank(new[t]) /\ new[t].duty = "none" /\ new[t].next = None)
  BY GoesMoves
<1>2. queue[q].ref > 0 /\ queue[q].ref \in Nat /\ a \in Assoc
  BY Fields DEF Inv, ObjectsOK
<1>3. new[t].duty = "none"
  BY <1>1 DEF Same
<1>4. CASE queue[q].ref = 1
  <2>1. /\ queue' = [queue EXCEPT ![q].ref = 0, ![q].st = "freed"]
        /\ thread' = [new EXCEPT ![t].duty = "put_assoc", ![t].owed = a]
    BY <1>4 DEF QueuePut
  <2>2. QueueGiven(q)
    BY <1>2, <1>4, <2>1, Fields DEF QueueGiven, OnlyQueue, QueueRec
  <2>. HIDE DEF new
  <2>3. /\ \A x \in Thread \ {t} : thread'[x] = thread[x]
        /\ Same(thread'[t], new[t], {"duty", "owed"})
        /\ thread'[t].duty = "put_assoc" /\ thread'[t].owed = a
    BY <1>1, <2>1 DEF Moved, Rec, Same
  <2>. HIDE DEF a, q
  <2>4. CASE pc = "gone"
    <3>1. thread'[t].queue = None /\ thread'[t].assoc = None
          /\ thread'[t].next = None /\ thread'[t].all = FALSE /\ thread'[t].rqst = NoRequest
      BY <1>1, <2>3, <2>4 DEF Same, Blank
    <3>2. thread'[t].pc = pc
      BY <1>1, <2>3 DEF Same
    <3>. QED
      BY <1>2, <1>4, <2>2, <2>3, <2>4, <3>1, <3>2 DEF QueuePuts, a, q
  <2>5. CASE pc # "gone"
    <3>1. Same(thread'[t], thread[t], {"pc", "duty", "owed"}) /\ thread'[t].pc = pc
      BY <1>1, <2>3, <2>5 DEF Same
    <3>. QED
      BY <1>2, <1>4, <2>2, <2>3, <2>5, <3>1 DEF QueuePuts, a, q
  <2>. QED
    BY <2>4, <2>5
<1>5. CASE queue[q].ref # 1
  <2>1. queue' = [queue EXCEPT ![q].ref = @ - 1] /\ thread' = new
    BY <1>5 DEF QueuePut
  <2>2. QueueGiven(q)
    BY <1>2, <1>5, <2>1, Fields DEF QueueGiven, OnlyQueue, QueueRec
  <2>3. \A x \in Thread \ {t} : thread'[x] = thread[x]
    BY <1>1, <2>1 DEF Moved
  <2>. HIDE DEF new
  <2>4. CASE pc = "gone"
    <3>1. thread'[t].queue = None /\ thread'[t].assoc = None
          /\ thread'[t].next = None /\ thread'[t].all = FALSE /\ thread'[t].rqst = NoRequest
          /\ thread'[t].owed = None
      BY <1>1, <2>1, <2>4 DEF Blank
    <3>. QED
      BY <1>1, <1>2, <1>3, <1>5, <2>1, <2>2, <2>3, <2>4, <3>1 DEF QueuePuts
  <2>5. CASE pc # "gone"
    <3>1. Same(thread'[t], thread[t], {"pc", "duty", "owed"}) /\ thread'[t].owed = thread[t].owed
      BY <1>1, <2>1, <2>5 DEF Same
    <3>. QED
      BY <1>1, <1>2, <1>3, <1>5, <2>1, <2>2, <2>3, <2>5, <3>1 DEF QueuePuts
  <2>. QED
    BY <2>4, <2>5
<1>. QED
  BY <1>4, <1>5

-----------------------------------------------------------------------------
(* What each action does to its thread and to the counts.                  *)

At(t, pc) == /\ t \in Thread /\ thread[t] \in Rec /\ ThreadOK(t, thread[t])
             /\ thread[t].pc = pc /\ thread[t].duty = "none"
\* t goes on to pc; the other locals that are not in F stay.
Walks(t, pc, F) ==
    /\ \A x \in Thread \ {t} : thread'[x] = thread[x]
    /\ thread'[t].pc = pc /\ Same(thread'[t], thread[t], F \union {"pc"})
Rests(t, pc) ==
    /\ \A x \in Thread \ {t} : thread'[x] = thread[x]
    /\ thread'[t].pc = pc /\ Blank(thread'[t])
\* The same for a thread that puts an association and goes on.
PutsAndWalks(t, pc, a) ==
    /\ AssocGiven(a)
    /\ Walks(t, pc, {"duty", "owed"})
    /\ IF assoc[a].ref = 1 THEN thread'[t].duty = "unlist" /\ thread'[t].owed = a
       ELSE thread'[t].duty = "none" /\ thread'[t].owed = thread[t].owed

LEMMA AtIs ==
    ASSUME Inv, NEW t, NEW pc, Ready(t, pc)
    PROVE  At(t, pc)
  BY ReadyKnows DEF At

LEMMA WalksIs ==
    ASSUME Inv, NEW t \in Thread, NEW pc \in Pcs \ {"gone", "next"}, thread' = Goes(t, pc)
    PROVE  Walks(t, pc, {})
  BY GoesMoves DEF Walks, Moved, Same

\* One or two locals are set on the way.
LEMMA WalksAssoc ==
    ASSUME Inv, NEW t \in Thread, NEW pc \in Pcs \ {"gone", "next"}, NEW a,
           thread' = [Goes(t, pc) EXCEPT ![t].assoc = a]
    PROVE  Walks(t, pc, {"assoc"}) /\ thread'[t].assoc = a
<1>. DEFINE new == Goes(t, pc)
<1>1. new \in [Thread -> Rec] /\ (\A x \in Thread \ {t} : new[x] = thread[x])
      /\ new[t].pc = pc /\ Same(new[t], thread[t], {"pc"})
  BY GoesMoves DEF Moved
<1>. HIDE DEF new
<1>2. thread' = [new EXCEPT ![t].assoc = a]
  BY DEF new
<1>. QED
  BY <1>1, <1>2 DEF Walks, Same, Rec

LEMMA WalksQueue ==
    ASSUME Inv, NEW t \in Thread, NEW pc \in Pcs \ {"gone", "next"}, NEW q,
           thread' = [Goes(t, pc) EXCEPT ![t].queue = q]
    PROVE  Walks(t, pc, {"queue"}) /\ thread'[t].queue = q
<1>. DEFINE new == Goes(t, pc)
<1>1. new \in [Thread -> Rec] /\ (\A x \in Thread \ {t} : new[x] = thread[x])
      /\ new[t].pc = pc /\ Same(new[t], thread[t], {"pc"})
  BY GoesMoves DEF Moved
<1>. HIDE DEF new
<1>2. thread' = [new EXCEPT ![t].queue = q]
  BY DEF new
<1>. QED
  BY <1>1, <1>2 DEF Walks, Same, Rec

LEMMA WalksQueueAt ==
    ASSUME Inv, NEW t \in Thread, NEW pc \in Pcs \ {"gone", "next"}, NEW q, NEW k,
           thread' = [Goes(t, pc) EXCEPT ![t].queue = q, ![t].i = k]
    PROVE  Walks(t, pc, {"queue", "i"}) /\ thread'[t].queue = q /\ thread'[t].i = k
<1>. DEFINE new == Goes(t, pc)
<1>1. new \in [Thread -> Rec] /\ (\A x \in Thread \ {t} : new[x] = thread[x])
      /\ new[t].pc = pc /\ Same(new[t], thread[t], {"pc"})
  BY GoesMoves DEF Moved
<1>. HIDE DEF new
<1>2. thread' = [new EXCEPT ![t].queue = q, ![t].i = k]
  BY DEF new
<1>. QED
  BY <1>1, <1>2 DEF Walks, Same, Rec

LEMMA WalksAll ==
    ASSUME Inv, NEW t \in Thread, NEW pc \in Pcs \ {"gone", "next"}, NEW b, NEW k,
           thread' = [Goes(t, pc) EXCEPT ![t].i = k, ![t].all = b]
    PROVE  Walks(t, pc, {"i", "all"}) /\ thread'[t].i = k /\ thread'[t].all = b
<1>. DEFINE new == Goes(t, pc)
<1>1. new \in [Thread -> Rec] /\ (\A x \in Thread \ {t} : new[x] = thread[x])
      /\ new[t].pc = pc /\ Same(new[t], thread[t], {"pc"})
  BY GoesMoves DEF Moved
<1>. HIDE DEF new
<1>2. thread' = [new EXCEPT ![t].i = k, ![t].all = b]
  BY DEF new
<1>. QED
  BY <1>1, <1>2 DEF Walks, Same, Rec

LEMMA WalksNext ==
    ASSUME Inv, NEW t \in Thread, NEW pc \in Pcs \ {"gone", "next"}, NEW a, NEW n,
           thread' = [Goes(t, pc) EXCEPT ![t].assoc = a, ![t].next = n]
    PROVE  Walks(t, pc, {"assoc", "next"}) /\ thread'[t].assoc = a /\ thread'[t].next = n
<1>. DEFINE new == Goes(t, pc)
<1>1. new \in [Thread -> Rec] /\ (\A x \in Thread \ {t} : new[x] = thread[x])
      /\ new[t].pc = pc /\ Same(new[t], thread[t], {"pc"})
  BY GoesMoves DEF Moved
<1>. HIDE DEF new
<1>2. thread' = [new EXCEPT ![t].assoc = a, ![t].next = n]
  BY DEF new
<1>. QED
  BY <1>1, <1>2 DEF Walks, Same, Rec

LEMMA PutsAndWalksIs ==
    ASSUME Inv, NEW t \in Thread, NEW pc \in Pcs \ {"gone", "next"}, NEW a \in Assoc,
           thread[t].duty = "none", assoc[a].ref # 0, assoc' = PutOf(a),
           thread' = AssocPut(Goes(t, pc), t, a)
    PROVE  PutsAndWalks(t, pc, a)
<1>1. AssocGiven(a)
  BY AssocGivenIs
<1>. DEFINE new == Goes(t, pc)
<1>2. Moved(new, t) /\ new[t].pc = pc /\ Same(new[t], thread[t], {"pc"})
  BY GoesMoves
<1>. HIDE DEF new
<1>3. Moved(thread', t) /\ Puts(thread'[t], new[t], a)
  BY <1>2, AssocPutMoves DEF new
<1>. QED
  BY <1>1, <1>2, <1>3 DEF PutsAndWalks, Walks, Moved, Puts, Same

\* LS requests.
LEMMA RcvLsReqMoves ==
    ASSUME Inv, NEW i \in Iod, RcvLsReq(i)
    PROVE  /\ At(i, "idle")
           /\ \E pc \in Pcs : Walks(i, pc, {"rqst", "i"})
                /\ \/ thread'[i].rqst.kind = "create" /\ pc = "alloc_assoc"
                   \/ thread'[i].rqst.kind = "other" /\ pc = "respond"
                   \/ /\ pc = "find_assoc"
                      /\ thread'[i].rqst.kind \in {"connect", "disconnect", "disconnect_association"}
<1>1. At(i, "idle")
  BY AtIs DEF RcvLsReq
<1>2. PICK r \in Requests : thread' = [thread EXCEPT
            ![i].rqst = r, ![i].i = r.qid,
            ![i].pc = CASE r.kind = "create" -> "alloc_assoc"
                        [] r.kind = "other" -> "respond"
                        [] OTHER -> "find_assoc"]
  BY DEF RcvLsReq
<1>. DEFINE pc == CASE r.kind = "create" -> "alloc_assoc"
                    [] r.kind = "other" -> "respond"
                    [] OTHER -> "find_assoc"
<1>3. Walks(i, pc, {"rqst", "i"}) /\ thread'[i].rqst = r
  BY <1>1, <1>2, Fields DEF Walks, Same, Rec, At
<1>4. /\ pc \in Pcs
      /\ \/ r.kind = "create" /\ pc = "alloc_assoc"
         \/ r.kind = "other" /\ pc = "respond"
         \/ /\ pc = "find_assoc"
            /\ r.kind \in {"connect", "disconnect", "disconnect_association"}
  BY DEF Requests, Pcs
<1>. QED
  BY <1>1, <1>3, <1>4

LEMMA AllocAssocMoves ==
    ASSUME Inv, NEW i \in Iod, AllocAssoc(i)
    PROVE  /\ At(i, "alloc_assoc") /\ UNCHANGED <<queues, queue, cast, left, deleted>>
           /\ \/ \E a \in Assoc :
                    /\ AssocMade(a) /\ assoc_list' = Append(assoc_list, a)
                    /\ races' = races \union Race(thread[Unreg].pc # "idle", "late")
                    /\ Walks(i, "alloc_queue", {"assoc"}) /\ thread'[i].assoc = a
              \/ /\ Walks(i, "respond", {})
                 /\ UNCHANGED <<tgt, assoc_list, assoc, races>>
<1>1. At(i, "alloc_assoc") /\ UNCHANGED <<queues, queue, cast, left, deleted>>
  BY AtIs DEF AllocAssoc
<1>2. i \in Thread /\ "alloc_queue" \in Pcs \ {"gone", "next"} /\ "respond" \in Pcs \ {"gone", "next"}
  BY <1>1 DEF At, Pcs
<1>3. ASSUME NEW a \in Assoc, assoc[a].st = "none",
             assoc' = [assoc EXCEPT ![a] = [st |-> "live", ref |-> 1]],
             thread' = [Goes(i, "alloc_queue") EXCEPT ![i].assoc = a]
      PROVE  AssocMade(a) /\ Walks(i, "alloc_queue", {"assoc"}) /\ thread'[i].assoc = a
  BY <1>2, <1>3, AssocMadeIs, WalksAssoc
<1>4. thread' = Goes(i, "respond") => Walks(i, "respond", {})
  BY <1>2, WalksIs
<1>. QED
  BY <1>1, <1>3, <1>4 DEF AllocAssoc

LEMMA FindAssocMoves ==
    ASSUME Inv, NEW i \in Iod, FindAssoc(i)
    PROVE  LET a == thread[i].rqst.assoc IN
           /\ At(i, "find_assoc") /\ UNCHANGED <<tgt, assoc_list, queues, queue, cast, left, deleted>>
           /\ \/ \E pc \in Pcs :
                    /\ a \in Assoc /\ Listed(a)
                    /\ \/ AssocTaken(a) /\ races' = races
                       \/ UNCHANGED assoc /\ races' = races \union {"dying"}
                    /\ Walks(i, pc, {"assoc"}) /\ thread'[i].assoc = a
                    /\ \/ thread[i].rqst.kind = "connect" /\ pc = "alloc_queue"
                       \/ thread[i].rqst.kind = "disconnect" /\ pc = "find_queue"
                       \/ thread[i].rqst.kind \notin {"connect", "disconnect"} /\ pc = "put_found"
              \/ Walks(i, "respond", {}) /\ UNCHANGED <<assoc, races>>
<1>. DEFINE a == thread[i].rqst.assoc
<1>1. At(i, "find_assoc") /\ UNCHANGED <<tgt, assoc_list, queues, queue, cast, left, deleted>>
  BY AtIs DEF FindAssoc
<1>2. CASE Listed(a)
  <2>1. a \in Assoc
    BY <1>2 DEF Listed, Inv, TypeOK
  <2>2. \/ AssocTaken(a) /\ races' = races
        \/ UNCHANGED assoc /\ races' = races \union {"dying"}
    <3>1. CASE assoc[a].ref > 0
      <4>1. AssocTaken(a)
        BY <1>2, <2>1, <3>1, AssocTakenIs DEF FindAssoc, AssocGet
      <4>2. Race(assoc[a].ref = 0, "dying") = {}
        BY <3>1 DEF Race
      <4>3. races' = races \union Race(assoc[a].ref = 0, "dying")
        BY <1>2 DEF FindAssoc
      <4>4. races' = races
        BY <4>2, <4>3, Zenon
      <4>. QED
        BY <4>1, <4>4
    <3>2. CASE ~(assoc[a].ref > 0)
      <4>1. assoc[a].ref = 0
        BY <2>1, <3>2, Fields
      <4>. QED
        BY <1>2, <3>2, <4>1 DEF FindAssoc, AssocGet, Race
    <3>. QED
      BY <3>1, <3>2
  <2>. DEFINE pc == CASE thread[i].rqst.kind = "connect" -> "alloc_queue"
                      [] thread[i].rqst.kind = "disconnect" -> "find_queue"
                      [] OTHER -> "put_found"
  <2>3. thread' = [thread EXCEPT ![i].assoc = a, ![i].pc = pc]
    BY <1>2 DEF FindAssoc
  <2>4. Walks(i, pc, {"assoc"}) /\ thread'[i].assoc = a
    <3>. HIDE DEF pc, a
    <3>. QED
      BY <1>1, <2>3, Fields DEF Walks, Same, Rec, At
  <2>5. /\ pc \in Pcs
        /\ \/ thread[i].rqst.kind = "connect" /\ pc = "alloc_queue"
           \/ thread[i].rqst.kind = "disconnect" /\ pc = "find_queue"
           \/ thread[i].rqst.kind \notin {"connect", "disconnect"} /\ pc = "put_found"
    BY DEF Pcs
  <2>. HIDE DEF pc
  <2>. QED
    BY <1>1, <1>2, <2>1, <2>2, <2>4, <2>5
<1>3. CASE ~Listed(a)
  <2>1. thread' = Goes(i, "respond") /\ UNCHANGED <<assoc, races>>
    BY <1>3 DEF FindAssoc
  <2>2. i \in Thread /\ "respond" \in Pcs \ {"gone", "next"}
    BY <1>1 DEF At, Pcs
  <2>3. Walks(i, "respond", {})
    BY <2>1, <2>2, WalksIs
  <2>. QED
    BY <1>1, <2>1, <2>3
<1>. QED
  BY <1>2, <1>3

LEMMA AllocQueueMoves ==
    ASSUME Inv, NEW i \in Iod, AllocQueue(i)
    PROVE  LET a == thread[i].assoc IN
           /\ At(i, "alloc_queue") /\ a \in Assoc /\ thread[i].i \in Qids
           /\ UNCHANGED <<tgt, assoc_list, queues, cast, left, deleted, races>>
           /\ \/ \E q \in Queue :
                    /\ AssocTaken(a) /\ QueueMade(q, a, thread[i].i)
                    /\ Walks(i, "publish", {"queue"}) /\ thread'[i].queue = q
              \/ /\ Walks(i, IF thread[i].rqst.kind = "create" THEN "respond" ELSE "put_found", {})
                 /\ UNCHANGED <<assoc, queue>>
<1>. DEFINE a == thread[i].assoc
<1>1. /\ At(i, "alloc_queue") /\ i \in Thread /\ a \in Assoc /\ thread[i].i \in Qids
      /\ UNCHANGED <<tgt, assoc_list, queues, cast, left, deleted, races>>
  BY AtIs DEF AllocQueue, At, ThreadOK, AssocUsers, NewQids
<1>2. "publish" \in Pcs \ {"gone", "next"} /\ "respond" \in Pcs \ {"gone", "next"}
      /\ "put_found" \in Pcs \ {"gone", "next"}
  BY DEF Pcs
<1>3. ASSUME NEW q \in Queue, assoc[a].ref > 0, queue[q].st = "none",
             queue' = [queue EXCEPT ![q] = [st |-> "live", ref |-> 1, assoc |-> a,
                                            qid |-> thread[i].i, connected |-> FALSE]],
             assoc' = [assoc EXCEPT ![a] = Counted(a)],
             thread' = [Goes(i, "publish") EXCEPT ![i].queue = q]
      PROVE  /\ AssocTaken(a) /\ QueueMade(q, a, thread[i].i)
             /\ Walks(i, "publish", {"queue"}) /\ thread'[i].queue = q
  <2>1. assoc' = [assoc EXCEPT ![a].ref = @ + 1]
    BY <1>1, <1>3, Fields DEF Counted
  <2>2. AssocTaken(a)
    BY <1>1, <1>3, <2>1, AssocTakenIs
  <2>3. QueueMade(q, a, thread[i].i)
    BY <1>3, QueueMadeIs
  <2>. QED
    BY <1>1, <1>2, <1>3, <2>2, <2>3, WalksQueue
<1>4. ASSUME thread' = Goes(i, AfterFailure(i))
      PROVE  Walks(i, IF thread[i].rqst.kind = "create" THEN "respond" ELSE "put_found", {})
  BY <1>1, <1>2, <1>4, WalksIs DEF AfterFailure
<1>. QED
  BY <1>1, <1>3, <1>4 DEF AllocQueue

LEMMA PublishMoves ==
    ASSUME Inv, NEW i \in Iod, Publish(i)
    PROVE  LET a == thread[i].assoc IN
           /\ At(i, "publish") /\ a \in Assoc /\ thread[i].i \in Qids /\ thread[i].queue \in Queue
           /\ races \subseteq races' /\ (a \in deleted => "young" \in races')
           /\ Walks(i, IF thread[i].rqst.kind = "create" THEN "use_queue" ELSE "put_found", {})
           /\ UNCHANGED <<tgt, assoc_list, assoc, queue, cast, left, deleted>>
<1>1. /\ At(i, "publish") /\ i \in Thread /\ thread[i].assoc \in Assoc /\ thread[i].i \in Qids
      /\ thread[i].queue \in Queue
      /\ UNCHANGED <<tgt, assoc_list, assoc, queue, cast, left, deleted>>
  BY AtIs DEF Publish, At, ThreadOK, AssocUsers, NewQids, QueueUsers
<1>2. "use_queue" \in Pcs \ {"gone", "next"} /\ "put_found" \in Pcs \ {"gone", "next"}
  BY DEF Pcs
<1>3. Walks(i, IF thread[i].rqst.kind = "create" THEN "use_queue" ELSE "put_found", {})
  BY <1>1, <1>2, WalksIs DEF Publish
<1>4. races \subseteq races' /\ (thread[i].assoc \in deleted => "young" \in races')
  BY DEF Publish, Race
<1>. QED
  BY <1>1, <1>3, <1>4

LEMMA UseQueueMoves ==
    ASSUME Inv, NEW i \in Iod, UseQueue(i)
    PROVE  /\ At(i, "use_queue") /\ SameRefs /\ Walks(i, "respond", {})
           /\ UNCHANGED <<tgt, assoc_list, assoc, queues, cast, left, deleted, races>>
<1>1. /\ At(i, "use_queue") /\ i \in Thread /\ thread[i].queue \in Queue
      /\ UNCHANGED <<tgt, assoc_list, assoc, queues, cast, left, deleted, races>>
  BY AtIs DEF UseQueue, At, ThreadOK, QueueUsers
<1>2. SameRefs
  BY <1>1, ConnectedIs DEF UseQueue
<1>3. Walks(i, "respond", {})
  BY <1>1, WalksIs DEF UseQueue, Pcs
<1>. QED
  BY <1>1, <1>2, <1>3

LEMMA FindQueueMoves ==
    ASSUME Inv, NEW i \in Iod, FindQueue(i)
    PROVE  /\ At(i, "find_queue") /\ thread[i].assoc \in Assoc
           /\ UNCHANGED <<tgt, assoc_list, assoc, queues, cast, left, deleted, races>>
           /\ \/ \E q \in Queue :
                    /\ QueueTaken(q) /\ \E b \in Assoc, k \in Qids : q = queues[b][k]
                    /\ Walks(i, "delete", {"queue"}) /\ thread'[i].queue = q
              \/ /\ UNCHANGED queue
                 /\ \E pc \in {"put_found", "past_table"} : Walks(i, pc, {})
<1>. DEFINE a == thread[i].rqst.of  n == thread[i].i
<1>1. /\ At(i, "find_queue") /\ i \in Thread /\ thread[i].assoc \in Assoc
      /\ UNCHANGED <<tgt, assoc_list, assoc, queues, cast, left, deleted, races>>
  BY AtIs DEF FindQueue, At, ThreadOK, AssocUsers
<1>2. {"delete", "put_found", "past_table"} \subseteq Pcs \ {"gone", "next"}
  BY ZenonT(60) DEF Pcs
<1>3. ASSUME NEW q \in Found(a, n), queue' = [queue EXCEPT ![q].ref = @ + 1],
             thread' = [Goes(i, "delete") EXCEPT ![i].queue = q]
      PROVE  /\ q \in Queue /\ QueueTaken(q) /\ \E b \in Assoc, k \in Qids : q = queues[b][k]
             /\ Walks(i, "delete", {"queue"}) /\ thread'[i].queue = q
  <2>. HIDE DEF a, n
  <2>1. q \in Queue /\ queue[q].ref > 0 /\ a \in Assoc /\ n \in Qids /\ queues[a][n] = q
    BY FoundType
  <2>2. \E b \in Assoc, k \in Qids : q = queues[b][k]
    BY <2>1
  <2>3. QueueTaken(q)
    BY <1>3, <2>1, QueueTakenIs
  <2>4. Walks(i, "delete", {"queue"}) /\ thread'[i].queue = q
    BY <1>1, <1>2, <1>3, WalksQueue
  <2>. QED
    BY <2>1, <2>2, <2>3, <2>4
<1>4. \A pc \in {"put_found", "past_table"} : thread' = Goes(i, pc) => Walks(i, pc, {})
  BY <1>1, <1>2, WalksIs
<1>5. \/ \E q \in Found(a, n) :
            /\ queue' = [queue EXCEPT ![q].ref = @ + 1]
            /\ thread' = [Goes(i, "delete") EXCEPT ![i].queue = q]
      \/ UNCHANGED queue /\ \E pc \in {"put_found", "past_table"} : thread' = Goes(i, pc)
  BY DEF FindQueue
<1>. QED
  BY <1>1, <1>3, <1>4, <1>5

LEMMA PutFoundMoves ==
    ASSUME Inv, NEW i \in Iod, PutFound(i)
    PROVE  LET me == thread[i] IN
           /\ At(i, "put_found") /\ me.assoc \in Assoc
           /\ PutsAndWalks(i, IF me.rqst.kind = "connect" /\ me.queue # None THEN "use_queue"
                              ELSE IF me.rqst.kind = "disconnect" /\ me.queue # None
                                      /\ me.rqst.qid = 0 THEN "begin"
                              ELSE "respond", me.assoc)
           /\ UNCHANGED <<tgt, assoc_list, queues, queue, cast, left, deleted, races>>
<1>. DEFINE me == thread[i]
            pc == IF me.rqst.kind = "connect" /\ me.queue # None THEN "use_queue"
                  ELSE IF me.rqst.kind = "disconnect" /\ me.queue # None /\ me.rqst.qid = 0
                  THEN "begin" ELSE "respond"
<1>1. /\ At(i, "put_found") /\ i \in Thread /\ me.assoc \in Assoc /\ ~Stale(i)
      /\ thread[i].duty = "none" /\ thread[i].pc = "put_found"
      /\ UNCHANGED <<tgt, assoc_list, queues, queue, cast, left, deleted, races>>
  BY AtIs DEF PutFound, At, ThreadOK, AssocUsers, Ready
<1>2. assoc[me.assoc].ref # 0
  BY <1>1, NotStale
<1>3. pc \in Pcs \ {"gone", "next"}
  BY DEF Pcs
<1>4. assoc' = PutOf(me.assoc) /\ thread' = AssocPut(Goes(i, pc), i, me.assoc)
  BY DEF PutFound
<1>5. PutsAndWalks(i, pc, me.assoc)
  <2>. HIDE DEF pc, me
  <2>. QED
    BY <1>1, <1>2, <1>3, <1>4, PutsAndWalksIs
<1>. QED
  BY <1>1, <1>5

LEMMA TgtPutStays ==
    ASSUME NEW th, NEW t \in Thread, Moved(th, t), th[t].duty = "none", Blank(th[t])
    PROVE  LET new == TgtPut(th, t) IN
           /\ Moved(new, t) /\ new[t].pc = th[t].pc /\ Blank(new[t]) /\ new[t].next = th[t].next
           /\ IF tgt.ref = 1 THEN new[t].duty = "free_port" ELSE new[t].duty = "none"
  BY TgtPutMoves DEF PutsPort, Same, Blank

\* A thread that puts the port and forgets its locals.
PutsPortAndRests(t, pc) ==
    /\ Rests(t, pc) /\ thread'[t].next = None
    /\ IF tgt.ref = 1 THEN thread'[t].duty = "free_port" ELSE thread'[t].duty = "none"
LEMMA RespondMoves ==
    ASSUME Inv, NEW i \in Iod, Respond(i)
    PROVE  /\ At(i, "respond") /\ PutsPortAndRests(i, "idle")
           /\ UNCHANGED <<assoc_list, assoc, queues, queue, cast, left, deleted, races>>
<1>1. /\ At(i, "respond") /\ i \in Thread
      /\ UNCHANGED <<assoc_list, assoc, queues, queue, cast, left, deleted, races>>
  BY AtIs DEF Respond, At
<1>. DEFINE me == Resting("idle")  new == [thread EXCEPT ![i] = me]
<1>2. me \in Rec /\ Blank(me) /\ me.pc = "idle" /\ me.next = None /\ me.duty = "none"
  BY RestingIs DEF Pcs
<1>. HIDE DEF me
<1>3. Moved(new, i) /\ new[i] = me
  BY <1>1, <1>2, Replaced
<1>4. thread' = TgtPut(new, i)
  BY DEF Respond, me
<1>. HIDE DEF new
<1>. QED
  BY <1>1, <1>2, <1>3, <1>4, TgtPutStays DEF PutsPortAndRests, Rests, Moved

LEMMA UnregisterMoves ==
    ASSUME Inv, Unregister
    PROVE  /\ At(Unreg, "unregister") /\ PutsPortAndRests(Unreg, "gone")
           /\ UNCHANGED <<assoc_list, assoc, queues, queue, cast, left, deleted, races>>
<1>1. /\ At(Unreg, "unregister") /\ Unreg \in Thread
      /\ UNCHANGED <<assoc_list, assoc, queues, queue, cast, left, deleted, races>>
  BY AtIs DEF Unregister, At
<1>. DEFINE new == Goes(Unreg, "gone")
<1>2. /\ Moved(new, Unreg) /\ new[Unreg].pc = "gone" /\ Blank(new[Unreg])
      /\ new[Unreg].next = None /\ new[Unreg].duty = "none"
  BY <1>1, GoesMoves DEF Pcs
<1>3. thread' = TgtPut(new, Unreg)
  BY DEF Unregister
<1>. HIDE DEF new
<1>. QED
  BY <1>1, <1>2, <1>3, TgtPutStays DEF PutsPortAndRests, Rests, Moved

LEMMA RemovePortMoves ==
    ASSUME Inv, RemovePort
    PROVE  /\ At(Conf, "bound") /\ PutsPortAndRests(Conf, "gone") /\ tgt.ref # 0
           /\ UNCHANGED <<assoc_list, assoc, queues, queue, cast, left, deleted, races>>
<1>1. /\ At(Conf, "bound") /\ Conf \in Thread /\ tgt.ref # 0
      /\ UNCHANGED <<assoc_list, assoc, queues, queue, cast, left, deleted, races>>
  BY AtIs DEF RemovePort, At, Ready, Stale
<1>. DEFINE new == Goes(Conf, "gone")
<1>2. /\ Moved(new, Conf) /\ new[Conf].pc = "gone" /\ Blank(new[Conf])
      /\ new[Conf].next = None /\ new[Conf].duty = "none"
  BY <1>1, GoesMoves DEF Pcs
<1>3. thread' = TgtPut(new, Conf)
  BY DEF RemovePort
<1>. HIDE DEF new
<1>. QED
  BY <1>1, <1>2, <1>3, TgtPutStays DEF PutsPortAndRests, Rests, Moved

\* Deletion.
LEMMA DeleteQueueMoves ==
    ASSUME Inv, NEW t \in Thread, DeleteQueue(t)
    PROVE  LET q == thread[t].queue IN
           /\ At(t, "delete") /\ q \in Queue /\ SameRefs /\ Walks(t, "drop", {})
           /\ deleted' = deleted \union {q} /\ races \subseteq races'
           /\ q \in deleted => "twice" \in races'
           /\ \A i \in Iod : Creating(i) /\ thread[i].queue = q => "young" \in races'
           /\ UNCHANGED <<tgt, assoc_list, assoc, queues, cast, left>>
<1>1. /\ At(t, "delete") /\ thread[t].queue \in Queue
      /\ UNCHANGED <<tgt, assoc_list, assoc, queues, cast, left>>
  BY AtIs DEF DeleteQueue, At, ThreadOK, QueueUsers
<1>2. SameRefs
  BY <1>1, ConnectedIs DEF DeleteQueue
<1>3. Walks(t, "drop", {})
  BY <1>1, WalksIs DEF DeleteQueue, Pcs
<1>4. /\ deleted' = deleted \union {thread[t].queue} /\ races \subseteq races'
      /\ thread[t].queue \in deleted => "twice" \in races'
      /\ \A i \in Iod : Creating(i) /\ thread[i].queue = thread[t].queue => "young" \in races'
  BY DEF DeleteQueue, Race
<1>. QED
  BY <1>1, <1>2, <1>3, <1>4

LEMMA DropQueueMoves ==
    ASSUME Inv, NEW t \in Thread, DropQueue(t)
    PROVE  /\ At(t, "drop") /\ QueuePuts(t, "put_queue")
           /\ UNCHANGED <<tgt, assoc_list, assoc, cast, left, deleted, races>>
<1>1. /\ At(t, "drop") /\ thread[t].queue \in Queue /\ ~Stale(t)
      /\ thread[t].duty = "none" /\ thread[t].pc = "drop"
      /\ UNCHANGED <<tgt, assoc_list, assoc, cast, left, deleted, races>>
  BY AtIs DEF DropQueue, At, ThreadOK, QueueUsers, Ready
<1>2. queue[thread[t].queue].ref # 0
  BY <1>1, NotStale
<1>3. QueuePut(t, "put_queue") /\ "put_queue" \in Pcs \ {"next"}
  BY DEF DropQueue, Pcs
<1>. QED
  BY <1>1, <1>2, <1>3, QueuePutMoves

LEMMA PutQueueMoves ==
    ASSUME Inv, NEW t \in Thread, PutQueue(t)
    PROVE  /\ At(t, "put_queue")
           /\ QueuePuts(t, IF thread[t].all THEN "scan" ELSE "put_found")
           /\ UNCHANGED <<tgt, assoc_list, assoc, cast, left, deleted, races>>
<1>. DEFINE pc == IF thread[t].all THEN "scan" ELSE "put_found"
<1>1. /\ At(t, "put_queue") /\ thread[t].queue \in Queue /\ ~Stale(t)
      /\ thread[t].duty = "none" /\ thread[t].pc = "put_queue"
      /\ UNCHANGED <<tgt, assoc_list, assoc, cast, left, deleted, races>>
  BY AtIs DEF PutQueue, At, ThreadOK, QueueUsers, Ready
<1>2. queue[thread[t].queue].ref # 0
  BY <1>1, NotStale
<1>3. QueuePut(t, pc) /\ pc \in Pcs \ {"next"}
  BY DEF PutQueue, Pcs
<1>. HIDE DEF pc
<1>4. QueuePuts(t, pc)
  BY <1>1, <1>2, <1>3, QueuePutMoves
<1>. QED
  BY <1>1, <1>4 DEF pc

LEMMA CmdEndMoves ==
    ASSUME Inv, NEW c \in Cmd, CmdEnd(c)
    PROVE  /\ At(c, "command") /\ QueuePuts(c, "gone")
           /\ UNCHANGED <<tgt, assoc_list, assoc, cast, left, deleted, races>>
<1>1. /\ At(c, "command") /\ c \in Thread /\ thread[c].queue \in Queue /\ ~Stale(c)
      /\ thread[c].duty = "none" /\ thread[c].pc = "command"
      /\ UNCHANGED <<tgt, assoc_list, assoc, cast, left, deleted, races>>
  BY AtIs DEF CmdEnd, At, ThreadOK, QueueUsers, Ready
<1>2. queue[thread[c].queue].ref # 0
  BY <1>1, NotStale
<1>3. QueuePut(c, "gone") /\ "gone" \in Pcs \ {"next"}
  BY DEF CmdEnd, Pcs
<1>. QED
  BY <1>1, <1>2, <1>3, QueuePutMoves

YoungAssoc(a) == \A i \in Iod : Creating(i) /\ thread[i].assoc = a => "young" \in races'
LEMMA BeginAssocMoves ==
    ASSUME Inv, NEW t \in Thread, BeginAssoc(t)
    PROVE  LET a == thread[t].assoc IN
           /\ At(t, "begin") /\ a \in Assoc /\ Walks(t, "scan", {"i", "all"})
           /\ thread'[t].i = MaxQid + 1 /\ thread'[t].all = TRUE
           /\ deleted' = deleted \union {a} /\ races \subseteq races'
           /\ a \in deleted => "twice" \in races'
           /\ YoungAssoc(a)
           /\ UNCHANGED <<tgt, assoc_list, assoc, queues, queue, cast, left>>
<1>1. /\ At(t, "begin") /\ thread[t].assoc \in Assoc
      /\ UNCHANGED <<tgt, assoc_list, assoc, queues, queue, cast, left>>
  BY AtIs DEF BeginAssoc, At, ThreadOK, AssocUsers
<1>2. "scan" \in Pcs \ {"gone", "next"}
  BY DEF Pcs
<1>3. Walks(t, "scan", {"i", "all"}) /\ thread'[t].i = MaxQid + 1 /\ thread'[t].all = TRUE
  BY <1>2, WalksAll DEF BeginAssoc
<1>4. /\ deleted' = deleted \union {thread[t].assoc} /\ races \subseteq races'
      /\ thread[t].assoc \in deleted => "twice" \in races'
      /\ YoungAssoc(thread[t].assoc)
  BY DEF BeginAssoc, Race, YoungAssoc
<1>. QED
  BY <1>1, <1>3, <1>4

LEMMA ScanQueuesMoves ==
    ASSUME Inv, NEW t \in Thread, ScanQueues(t)
    PROVE  LET a == thread[t].assoc IN
           /\ At(t, "scan") /\ a \in Assoc
           /\ UNCHANGED <<tgt, assoc_list, assoc, queues, cast, left, deleted, races>>
           /\ \/ \E k \in Left(t) :
                    /\ \A j \in Left(t) : j <= k
                    /\ queues[a][k] \in Queue /\ QueueTaken(queues[a][k])
                    /\ Walks(t, "delete", {"queue", "i"})
                    /\ thread'[t].queue = queues[a][k] /\ thread'[t].i = k
              \/ Left(t) = {} /\ Walks(t, "put_assoc", {}) /\ UNCHANGED queue
<1>. DEFINE a == thread[t].assoc
<1>1. /\ At(t, "scan") /\ a \in Assoc
      /\ UNCHANGED <<tgt, assoc_list, assoc, queues, cast, left, deleted, races>>
  BY AtIs DEF ScanQueues, At, ThreadOK, AssocUsers
<1>2. "delete" \in Pcs \ {"gone", "next"} /\ "put_assoc" \in Pcs \ {"gone", "next"}
  BY DEF Pcs
<1>3. ASSUME NEW k \in Left(t), queue' = [queue EXCEPT ![queues[a][k]].ref = @ + 1],
             thread' = [Goes(t, "delete") EXCEPT ![t].queue = queues[a][k], ![t].i = k]
      PROVE  /\ queues[a][k] \in Queue /\ QueueTaken(queues[a][k])
             /\ Walks(t, "delete", {"queue", "i"})
             /\ thread'[t].queue = queues[a][k] /\ thread'[t].i = k
  <2>1. thread[t].i \in 0 .. MaxQid + 1
    BY DEF Inv, TypeOK
  <2>2. k \in Qids /\ queues[a][k] # None /\ queue[queues[a][k]].ref > 0
    BY <2>1 DEF Left, Qids
  <2>3. queues[a][k] \in Queue
    BY <1>1, <2>2, Shapes, ZenonT(60)
  <2>4. QueueTaken(queues[a][k])
    BY <1>3, <2>2, <2>3, QueueTakenIs
  <2>5. PICK q : q = queues[a][k]
    OBVIOUS
  <2>6. thread' = [Goes(t, "delete") EXCEPT ![t].queue = q, ![t].i = k]
    BY <1>3, <2>5
  <2>7. Walks(t, "delete", {"queue", "i"}) /\ thread'[t].queue = q /\ thread'[t].i = k
    BY <1>2, <2>6, WalksQueueAt
  <2>. QED
    BY <2>3, <2>4, <2>5, <2>7
<1>4. thread' = Goes(t, "put_assoc") => Walks(t, "put_assoc", {})
  BY <1>2, WalksIs
<1>. QED
  BY <1>1, <1>3, <1>4, ZenonT(60) DEF ScanQueues

LEMMA PutAssocMoves ==
    ASSUME Inv, NEW t \in Thread, PutAssoc(t)
    PROVE  /\ At(t, "put_assoc") /\ thread[t].assoc \in Assoc
           /\ PutsAndWalks(t, IF t \in Iod THEN "respond" ELSE "done", thread[t].assoc)
           /\ UNCHANGED <<tgt, assoc_list, queues, queue, cast, left, deleted, races>>
<1>. DEFINE pc == IF t \in Iod THEN "respond" ELSE "done"
<1>1. /\ At(t, "put_assoc") /\ thread[t].assoc \in Assoc /\ ~Stale(t)
      /\ thread[t].duty = "none" /\ thread[t].pc = "put_assoc"
      /\ UNCHANGED <<tgt, assoc_list, queues, queue, cast, left, deleted, races>>
  BY AtIs DEF PutAssoc, At, ThreadOK, AssocUsers, Ready
<1>2. assoc[thread[t].assoc].ref # 0
  BY <1>1, NotStale
<1>3. /\ pc \in Pcs \ {"gone", "next"}
      /\ assoc' = PutOf(thread[t].assoc) /\ thread' = AssocPut(Goes(t, pc), t, thread[t].assoc)
  BY DEF PutAssoc, Pcs
<1>. HIDE DEF pc
<1>4. PutsAndWalks(t, pc, thread[t].assoc)
  BY <1>1, <1>2, <1>3, PutsAndWalksIs
<1>. QED
  BY <1>1, <1>4 DEF pc

\* A thread that puts an association and forgets its locals.
PutsAndRests(t, pc, a) ==
    /\ AssocGiven(a)
    /\ \A x \in Thread \ {t} : thread'[x] = thread[x]
    /\ thread'[t].pc = pc /\ thread'[t].rqst = NoRequest /\ thread'[t].assoc = None
    /\ thread'[t].queue = None /\ thread'[t].i = 0 /\ thread'[t].all = FALSE
    /\ IF assoc[a].ref = 1 THEN thread'[t].duty = "unlist" /\ thread'[t].owed = a
       ELSE thread'[t].duty = "none" /\ thread'[t].owed = None
LEMMA PutDoneMoves ==
    ASSUME Inv, NEW t \in {Unreg, Ctrl}, PutDone(t)
    PROVE  /\ At(t, "done") /\ thread[t].assoc \in Assoc
           /\ PutsAndRests(t, IF t = Unreg THEN "next" ELSE "gone", thread[t].assoc)
           /\ IF t = Unreg THEN thread'[t].next = thread[t].next ELSE thread'[t].next = None
           /\ UNCHANGED <<tgt, assoc_list, queues, queue, cast, left, deleted, races>>
<1>. DEFINE pc == IF t = Unreg THEN "next" ELSE "gone"  a == thread[t].assoc
            new == Goes(t, pc)
<1>1. /\ At(t, "done") /\ t \in Thread /\ a \in Assoc /\ ~Stale(t)
      /\ thread[t].duty = "none" /\ thread[t].pc = "done"
      /\ UNCHANGED <<tgt, assoc_list, queues, queue, cast, left, deleted, races>>
  BY AtIs DEF PutDone, At, ThreadOK, AssocUsers, Ready
<1>2. assoc[a].ref # 0
  BY <1>1, NotStale
<1>3. pc \in Pcs /\ pc \in {"gone", "next"} /\ (t = Unreg <=> pc = "next")
  BY DEF Pcs
<1>4. AssocGiven(a)
  BY <1>1, <1>2, AssocGivenIs DEF PutDone
<1>5. thread' = AssocPut(new, t, a)
  BY DEF PutDone
<1>. HIDE DEF pc
<1>6. /\ Moved(new, t) /\ new[t].pc = pc /\ Blank(new[t]) /\ new[t].duty = "none"
      /\ pc = "gone" => new[t].next = None
      /\ pc = "next" => new[t].next = thread[t].next
  BY <1>1, <1>3, GoesMoves
<1>. HIDE DEF new, a
<1>7. Moved(thread', t) /\ Puts(thread'[t], new[t], a)
  BY <1>1, <1>5, <1>6, AssocPutMoves
<1>8. PutsAndRests(t, pc, a)
  BY <1>4, <1>6, <1>7 DEF PutsAndRests, Moved, Puts, Same, Blank
<1>9. IF t = Unreg THEN thread'[t].next = thread[t].next ELSE thread'[t].next = None
  BY <1>3, <1>6, <1>7 DEF Puts, Same
<1>. QED
  BY <1>1, <1>8, <1>9 DEF pc, a

\* The duties of who has dropped a last reference.
LEMMA Dutiless ==
    ASSUME Inv, NEW t \in Thread
    PROVE  LET new == [thread EXCEPT ![t].duty = "none", ![t].owed = None] IN
           /\ Moved(new, t) /\ Same(new[t], thread[t], {"duty", "owed"})
           /\ new[t].duty = "none" /\ new[t].owed = None
<1>. DEFINE me == [thread[t] EXCEPT !.duty = "none", !.owed = None]
            new == [thread EXCEPT ![t].duty = "none", ![t].owed = None]
<1>1. new = [thread EXCEPT ![t] = me]
  BY Fields DEF Rec
<1>2. thread[t] \in Rec
  BY Fields
<1>3. me \in Rec
  BY <1>2 DEF Rec
<1>4. Same(me, thread[t], {"duty", "owed"}) /\ me.duty = "none" /\ me.owed = None
  BY <1>2 DEF Same, Rec
<1>. HIDE DEF me, new
<1>5. Moved(new, t) /\ new[t] = me
  BY <1>1, <1>3, Replaced
<1>. QED
  BY <1>4, <1>5 DEF new

LEMMA FreedQueuePutsMoves ==
    ASSUME Inv, NEW t \in Thread, FreedQueuePuts(t)
    PROVE  LET a == thread[t].owed IN
           /\ thread[t].duty = "put_assoc" /\ a \in Assoc /\ AssocGiven(a)
           /\ \A x \in Thread \ {t} : thread'[x] = thread[x]
           /\ Same(thread'[t], thread[t], {"duty", "owed"})
           /\ IF assoc[a].ref = 1 THEN thread'[t].duty = "unlist" /\ thread'[t].owed = a
              ELSE thread'[t].duty = "none" /\ thread'[t].owed = None
           /\ UNCHANGED <<tgt, assoc_list, queues, queue, cast, left, deleted, races>>
<1>. DEFINE a == thread[t].owed  new == [thread EXCEPT ![t].duty = "none", ![t].owed = None]
<1>1. /\ thread[t].duty = "put_assoc" /\ a \in Assoc /\ ~Stale(t)
      /\ UNCHANGED <<tgt, assoc_list, queues, queue, cast, left, deleted, races>>
  BY DEF FreedQueuePuts, Inv, ThreadsOK, ThreadOK
<1>2. AssocGiven(a)
  BY <1>1, NotStale, AssocGivenIs DEF FreedQueuePuts
<1>3. /\ Moved(new, t) /\ Same(new[t], thread[t], {"duty", "owed"})
      /\ new[t].duty = "none" /\ new[t].owed = None
  BY Dutiless
<1>4. thread' = AssocPut(new, t, a)
  BY DEF FreedQueuePuts
<1>. HIDE DEF new, a
<1>5. Moved(thread', t) /\ Puts(thread'[t], new[t], a)
  BY <1>1, <1>3, <1>4, AssocPutMoves
<1>6. /\ \A x \in Thread \ {t} : thread'[x] = thread[x]
      /\ Same(thread'[t], thread[t], {"duty", "owed"})
      /\ IF assoc[a].ref = 1 THEN thread'[t].duty = "unlist" /\ thread'[t].owed = a
         ELSE thread'[t].duty = "none" /\ thread'[t].owed = None
  BY <1>3, <1>5 DEF Moved, Puts, Same
<1>. QED
  BY <1>1, <1>2, <1>6 DEF a

LEMMA AssocFreeMoves ==
    ASSUME Inv, NEW t \in Thread, AssocFree(t)
    PROVE  LET a == thread[t].owed IN
           /\ thread[t].duty = "unlist" /\ a \in Assoc
           /\ OnlyAssoc(a) /\ assoc'[a].st = "freed" /\ assoc'[a].ref = assoc[a].ref
           /\ \A x \in Thread \ {t} : thread'[x] = thread[x]
           /\ Same(thread'[t], thread[t], {"duty", "owed"}) /\ thread'[t].owed = None
           /\ IF tgt.ref = 1 THEN thread'[t].duty = "free_port" ELSE thread'[t].duty = "none"
           /\ assoc_list' = Unlisted(a) /\ races \subseteq races'
           /\ thread[Unreg].next = a => "neighbour" \in races'
           /\ UNCHANGED <<queues, queue, cast, left, deleted>>
<1>. DEFINE a == thread[t].owed  new == [thread EXCEPT ![t].duty = "none", ![t].owed = None]
<1>1. /\ thread[t].duty = "unlist" /\ a \in Assoc
      /\ UNCHANGED <<queues, queue, cast, left, deleted>>
  BY DEF AssocFree, Inv, ThreadsOK, ThreadOK
<1>2. OnlyAssoc(a) /\ assoc'[a].st = "freed" /\ assoc'[a].ref = assoc[a].ref
  BY <1>1, Fields DEF AssocFree, OnlyAssoc, AssocRec
<1>3. /\ Moved(new, t) /\ Same(new[t], thread[t], {"duty", "owed"})
      /\ new[t].duty = "none" /\ new[t].owed = None
  BY Dutiless
<1>4. thread' = TgtPut(new, t)
  BY DEF AssocFree
<1>5. /\ assoc_list' = Unlisted(a) /\ races \subseteq races'
      /\ thread[Unreg].next = a => "neighbour" \in races'
  BY DEF AssocFree, Race
<1>. HIDE DEF new, a
<1>6. Moved(thread', t) /\ PutsPort(thread'[t], new[t])
  BY <1>3, <1>4, TgtPutMoves
<1>7. /\ \A x \in Thread \ {t} : thread'[x] = thread[x]
      /\ Same(thread'[t], thread[t], {"duty", "owed"}) /\ thread'[t].owed = None
      /\ IF tgt.ref = 1 THEN thread'[t].duty = "free_port" ELSE thread'[t].duty = "none"
  BY <1>3, <1>6 DEF Moved, PutsPort, Same
<1>. QED
  BY <1>1, <1>2, <1>5, <1>7 DEF a

LEMMA FreeTgtportMoves ==
    ASSUME Inv, NEW t \in Thread, FreeTgtport(t)
    PROVE  /\ thread[t].duty = "free_port"
           /\ \A x \in Thread \ {t} : thread'[x] = thread[x]
           /\ Same(thread'[t], thread[t], {"duty"}) /\ thread'[t].duty = "none"
           /\ UNCHANGED <<assoc_list, assoc, queues, queue, cast, left, deleted, races>>
  BY Fields DEF FreeTgtport, Same, Rec

\* The registration, a controller's deletion, commands and the user.
FreeCursor == IF thread[Unreg].pc = "idle" THEN First ELSE thread[Unreg].next
FreeOn == {j \in DOMAIN assoc_list : /\ \E k \in 1 .. j : assoc_list[k] = FreeCursor
                                     /\ assoc[assoc_list[j]].ref > 0}
LEMMA FreeAssocsMoves ==
    ASSUME Inv, FreeAssocs
    PROVE  /\ At(Unreg, "idle") \/ At(Unreg, "next")
           /\ UNCHANGED <<tgt, assoc_list, queues, queue, cast, left, deleted, races>>
           /\ \/ \E j \in FreeOn :
                    /\ \A k \in FreeOn : j <= k
                    /\ assoc_list[j] \in Assoc /\ AssocTaken(assoc_list[j])
                    /\ Walks(Unreg, "begin", {"assoc", "next"})
                    /\ thread'[Unreg].assoc = assoc_list[j] /\ thread'[Unreg].next = After(j)
              \/ FreeOn = {} /\ Walks(Unreg, "unregister", {}) /\ UNCHANGED assoc
<1>1. /\ At(Unreg, "idle") \/ At(Unreg, "next")
      /\ UNCHANGED <<tgt, assoc_list, queues, queue, cast, left, deleted, races>>
  BY AtIs DEF FreeAssocs
<1>2. Unreg \in Thread /\ "begin" \in Pcs \ {"gone", "next"} /\ "unregister" \in Pcs \ {"gone", "next"}
  BY DEF Thread, Pcs
<1>3. ASSUME NEW j \in FreeOn, assoc' = [assoc EXCEPT ![assoc_list[j]].ref = @ + 1],
             thread' = [Goes(Unreg, "begin") EXCEPT ![Unreg].assoc = assoc_list[j],
                                                    ![Unreg].next = After(j)]
      PROVE  /\ assoc_list[j] \in Assoc /\ AssocTaken(assoc_list[j])
             /\ Walks(Unreg, "begin", {"assoc", "next"})
             /\ thread'[Unreg].assoc = assoc_list[j] /\ thread'[Unreg].next = After(j)
  <2>1. assoc_list[j] \in Assoc /\ assoc[assoc_list[j]].ref > 0
    BY DEF FreeOn, Inv, TypeOK
  <2>2. AssocTaken(assoc_list[j])
    BY <1>3, <2>1, AssocTakenIs
  <2>3. PICK a, n : a = assoc_list[j] /\ n = After(j)
    OBVIOUS
  <2>4. thread' = [Goes(Unreg, "begin") EXCEPT ![Unreg].assoc = a, ![Unreg].next = n]
    BY <1>3, <2>3
  <2>5. Walks(Unreg, "begin", {"assoc", "next"}) /\ thread'[Unreg].assoc = a /\ thread'[Unreg].next = n
    BY <1>2, <2>4, WalksNext
  <2>. QED
    BY <2>1, <2>2, <2>3, <2>5
<1>4. thread' = Goes(Unreg, "unregister") => Walks(Unreg, "unregister", {})
  BY <1>2, WalksIs
<1>5. \/ \E j \in FreeOn :
            /\ \A k \in FreeOn : j <= k
            /\ assoc' = [assoc EXCEPT ![assoc_list[j]].ref = @ + 1]
            /\ thread' = [Goes(Unreg, "begin") EXCEPT ![Unreg].assoc = assoc_list[j],
                                                      ![Unreg].next = After(j)]
      \/ FreeOn = {} /\ thread' = Goes(Unreg, "unregister") /\ UNCHANGED assoc
  BY DEF FreeAssocs, FreeOn, FreeCursor
<1>. QED
  BY <1>1, <1>3, <1>4, <1>5

LEMMA DeleteCtrlMoves ==
    ASSUME Inv, DeleteCtrl
    PROVE  /\ At(Ctrl, "idle")
           /\ UNCHANGED <<assoc_list, assoc, queues, queue, cast, left, deleted, races>>
           /\ \/ Walks(Ctrl, "find_ctrl", {}) /\ tgt.ref > 0 /\ tgt' = TgtGet
              \/ /\ Rests(Ctrl, "gone") /\ thread'[Ctrl].next = None
                 /\ thread'[Ctrl].duty = "none" /\ UNCHANGED tgt
<1>1. /\ At(Ctrl, "idle")
      /\ UNCHANGED <<assoc_list, assoc, queues, queue, cast, left, deleted, races>>
  BY AtIs DEF DeleteCtrl
<1>2. Ctrl \in Thread /\ "find_ctrl" \in Pcs \ {"gone", "next"} /\ "gone" \in Pcs
  BY DEF Thread, Pcs
<1>3. thread' = Goes(Ctrl, "find_ctrl") => Walks(Ctrl, "find_ctrl", {})
  BY <1>2, WalksIs
<1>4. thread' = Goes(Ctrl, "gone") => /\ Rests(Ctrl, "gone") /\ thread'[Ctrl].next = None
                                      /\ thread'[Ctrl].duty = "none"
  BY <1>2, GoesMoves DEF Rests, Moved
<1>. QED
  BY <1>1, <1>3, <1>4 DEF DeleteCtrl

LEMMA FindCtrlMoves ==
    ASSUME Inv, FindCtrl
    PROVE  /\ At(Ctrl, "find_ctrl")
           /\ UNCHANGED <<tgt, assoc_list, queues, queue, cast, left, deleted, races>>
           /\ \/ \E a \in Assoc :
                    /\ AssocTaken(a)
                    /\ Walks(Ctrl, "put_port", {"assoc"}) /\ thread'[Ctrl].assoc = a
              \/ Walks(Ctrl, "put_port", {}) /\ UNCHANGED assoc
<1>1. /\ At(Ctrl, "find_ctrl")
      /\ UNCHANGED <<tgt, assoc_list, queues, queue, cast, left, deleted, races>>
  BY AtIs DEF FindCtrl
<1>2. Ctrl \in Thread /\ "put_port" \in Pcs \ {"gone", "next"}
  BY DEF Thread, Pcs
<1>3. ASSUME NEW a \in Assoc, assoc[a].ref > 0, assoc' = AssocGet(a),
             thread' = [Goes(Ctrl, "put_port") EXCEPT ![Ctrl].assoc = a]
      PROVE  AssocTaken(a) /\ Walks(Ctrl, "put_port", {"assoc"}) /\ thread'[Ctrl].assoc = a
  <2>1. assoc' = [assoc EXCEPT ![a].ref = @ + 1]
    BY <1>3 DEF AssocGet
  <2>. QED
    BY <1>2, <1>3, <2>1, AssocTakenIs, WalksAssoc
<1>4. thread' = Goes(Ctrl, "put_port") => Walks(Ctrl, "put_port", {})
  BY <1>2, WalksIs
<1>. QED
  BY <1>1, <1>3, <1>4 DEF FindCtrl

LEMMA CtrlPutMoves ==
    ASSUME Inv, CtrlPut
    PROVE  /\ At(Ctrl, "put_port")
           /\ UNCHANGED <<assoc_list, assoc, queues, queue, cast, left, deleted, races>>
           /\ \/ thread[Ctrl].assoc = None /\ PutsPortAndRests(Ctrl, "gone")
              \/ /\ thread[Ctrl].assoc \in Assoc /\ Walks(Ctrl, "begin", {"duty"})
                 /\ IF tgt.ref = 1 THEN thread'[Ctrl].duty = "free_port"
                    ELSE thread'[Ctrl].duty = "none"
<1>1. /\ At(Ctrl, "put_port") /\ Ctrl \in Thread
      /\ UNCHANGED <<assoc_list, assoc, queues, queue, cast, left, deleted, races>>
  BY AtIs DEF CtrlPut, At
<1>2. thread[Ctrl].assoc \in Assoc \union {None} /\ thread[Ctrl].duty = "none"
  BY <1>1 DEF At, Rec
<1>3. CASE thread[Ctrl].assoc = None
  <2>. DEFINE new == Goes(Ctrl, "gone")
  <2>1. /\ Moved(new, Ctrl) /\ new[Ctrl].pc = "gone" /\ Blank(new[Ctrl])
        /\ new[Ctrl].next = None /\ new[Ctrl].duty = "none"
    BY <1>1, GoesMoves DEF Pcs
  <2>2. thread' = TgtPut(new, Ctrl)
    BY <1>3 DEF CtrlPut
  <2>. HIDE DEF new
  <2>3. PutsPortAndRests(Ctrl, "gone")
    BY <1>1, <2>1, <2>2, TgtPutStays DEF PutsPortAndRests, Rests, Moved
  <2>. QED
    BY <1>1, <1>3, <2>3
<1>4. CASE thread[Ctrl].assoc # None
  <2>. DEFINE new == Goes(Ctrl, "begin")
  <2>1. Moved(new, Ctrl) /\ new[Ctrl].pc = "begin" /\ Same(new[Ctrl], thread[Ctrl], {"pc"})
    BY <1>1, GoesMoves DEF Pcs
  <2>2. thread' = TgtPut(new, Ctrl)
    BY <1>4 DEF CtrlPut
  <2>. HIDE DEF new
  <2>3. Moved(thread', Ctrl) /\ PutsPort(thread'[Ctrl], new[Ctrl])
    BY <1>1, <2>1, <2>2, TgtPutMoves
  <2>4. Walks(Ctrl, "begin", {"duty"})
    BY <2>1, <2>3 DEF Walks, Moved, PutsPort, Same
  <2>5. IF tgt.ref = 1 THEN thread'[Ctrl].duty = "free_port" ELSE thread'[Ctrl].duty = "none"
    BY <1>2, <2>1, <2>3 DEF PutsPort, Same
  <2>. QED
    BY <1>1, <1>2, <1>4, <2>4, <2>5
<1>. QED
  BY <1>3, <1>4

LEMMA CmdArriveMoves ==
    ASSUME Inv, NEW c \in Cmd, CmdArrive(c)
    PROVE  /\ At(c, "idle")
           /\ \/ \E q \in Queue : /\ QueueTaken(q) /\ Walks(c, "command", {"queue"})
                                  /\ thread'[c].queue = q
              \/ Walks(c, "past_table", {}) /\ UNCHANGED queue
           /\ UNCHANGED <<tgt, assoc_list, assoc, queues, cast, left, deleted, races>>
<1>1. /\ At(c, "idle") /\ c \in Thread
      /\ UNCHANGED <<tgt, assoc_list, assoc, queues, cast, left, deleted, races>>
  BY AtIs DEF CmdArrive, At
<1>2. ASSUME NEW a \in Assoc, NEW k \in Qids, NEW q \in Found(a, k),
             queue' = [queue EXCEPT ![q].ref = @ + 1],
             thread' = [Goes(c, "command") EXCEPT ![c].queue = q]
      PROVE  q \in Queue /\ QueueTaken(q) /\ Walks(c, "command", {"queue"}) /\ thread'[c].queue = q
  <2>1. q \in Queue /\ queue[q].ref > 0
    BY FoundType
  <2>2. QueueTaken(q)
    BY <1>2, <2>1, QueueTakenIs
  <2>3. Walks(c, "command", {"queue"}) /\ thread'[c].queue = q
    BY <1>1, <1>2, WalksQueue DEF Pcs
  <2>. QED
    BY <2>1, <2>2, <2>3
<1>3. thread' = Goes(c, "past_table") => Walks(c, "past_table", {})
  BY <1>1, WalksIs DEF Pcs
<1>. QED
  BY <1>1, <1>2, <1>3 DEF CmdArrive

LEMMA AddPortMoves ==
    ASSUME Inv, AddPort
    PROVE  /\ At(Conf, "idle") /\ Walks(Conf, "bound", {}) /\ races \subseteq races'
           /\ tgt'.port = TRUE /\ tgt'.st = tgt.st
           /\ IF tgt.ref > 0 THEN tgt'.ref = tgt.ref + 1
              ELSE tgt'.ref = tgt.ref /\ "bound" \in races'
           /\ UNCHANGED <<assoc_list, assoc, queues, queue, cast, left, deleted>>
<1>1. /\ At(Conf, "idle") /\ Conf \in Thread
      /\ UNCHANGED <<assoc_list, assoc, queues, queue, cast, left, deleted>>
  BY AtIs DEF AddPort, At
<1>2. Walks(Conf, "bound", {})
  BY <1>1, WalksIs DEF AddPort, Pcs
<1>3. tgt \in TgtRec
  BY DEF Inv, TypeOK, TgtRec
<1>4. races \subseteq races' /\ (tgt.ref = 0 => "bound" \in races')
  BY DEF AddPort, Race
<1>5. /\ tgt'.port = TRUE /\ tgt'.st = tgt.st
      /\ IF tgt.ref > 0 THEN tgt'.ref = tgt.ref + 1 ELSE tgt'.ref = tgt.ref
  BY <1>3 DEF AddPort, TgtRec
<1>. QED
  BY <1>1, <1>2, <1>3, <1>4, <1>5 DEF TgtRec

-----------------------------------------------------------------------------
(* What the count of an association is made of.                            *)

\* One thread moves.
LEMMA PlacesMove ==
    ASSUME Places, NEW t \in Thread, \A x \in Thread \ {t} : thread'[x] = thread[x],
           PlaceOK(t, thread'[t])
    PROVE  Places'
  BY DEF Places

LEMMA PlacesStep ==
    ASSUME Inv, Places, Next
    PROVE  Places'
<1>0. NoRequest.kind = "none"
  BY DEF NoRequest
<1>. USE <1>0 DEF Walks, Rests, Same, Blank, At, PlaceOK, ThreadOK, IodPcs, DeletePcs, CtrlPcs,
         UnregPcs, Finding
<1>1. ASSUME NEW i \in Iod, RcvLsReq(i) PROVE Places'
  BY <1>1, RcvLsReqMoves, PlacesMove DEF Places
<1>2. ASSUME NEW i \in Iod, AllocAssoc(i) PROVE Places'
  BY <1>2, AllocAssocMoves, PlacesMove DEF Places
<1>3. ASSUME NEW i \in Iod, FindAssoc(i) PROVE Places'
  BY <1>3, FindAssocMoves, PlacesMove, SMTT(30) DEF Places
<1>4. ASSUME NEW i \in Iod, AllocQueue(i) PROVE Places'
  BY <1>4, AllocQueueMoves, PlacesMove DEF Places
<1>5. ASSUME NEW i \in Iod, Publish(i) PROVE Places'
  BY <1>5, PublishMoves, PlacesMove DEF Places
<1>6. ASSUME NEW i \in Iod, UseQueue(i) PROVE Places'
  BY <1>6, UseQueueMoves, PlacesMove DEF Places
<1>7. ASSUME NEW i \in Iod, FindQueue(i) PROVE Places'
  <2>1. /\ i \in Thread /\ i \in Iod /\ PlaceOK(i, thread[i]) /\ At(i, "find_queue")
        /\ \A x \in Thread \ {i} : thread'[x] = thread[x]
    BY <1>7, FindQueueMoves DEF Places
  <2>2. \/ Walks(i, "delete", {"queue"})
        \/ Walks(i, "put_found", {}) \/ Walks(i, "past_table", {})
    BY <1>7, FindQueueMoves
  <2>3. PlaceOK(i, thread'[i])
    BY <2>1, <2>2, Distinct
  <2>. QED
    BY <2>1, <2>3, PlacesMove
<1>8. ASSUME NEW i \in Iod, PutFound(i) PROVE Places'
  BY <1>8, PutFoundMoves, PlacesMove DEF Places, PutsAndWalks
<1>9. ASSUME NEW i \in Iod, Respond(i) PROVE Places'
  BY <1>9, RespondMoves, PlacesMove, ZenonT(60) DEF Places, PutsPortAndRests
<1>10. ASSUME NEW t \in Thread, DeleteQueue(t) PROVE Places'
  BY <1>10, DeleteQueueMoves, PlacesMove DEF Places
<1>11. ASSUME NEW t \in Thread, DropQueue(t) PROVE Places'
  BY <1>11, DropQueueMoves, PlacesMove, SMTT(30) DEF Places, QueuePuts
<1>12. ASSUME NEW t \in Thread, PutQueue(t) PROVE Places'
  BY <1>12, PutQueueMoves, PlacesMove DEF Places, QueuePuts
<1>13. ASSUME NEW t \in Thread, BeginAssoc(t) PROVE Places'
  <2>1. t \in Thread /\ PlaceOK(t, thread[t])
    BY ThreadAssumption DEF Places, Thread
  <2>2. PlaceOK(t, thread'[t])
    BY <1>13, <2>1, BeginAssocMoves, ZenonT(60)
  <2>3. \A x \in Thread \ {t} : thread'[x] = thread[x]
    BY <1>13, BeginAssocMoves
  <2>. QED
    BY <2>1, <2>2, <2>3, PlacesMove
<1>14. ASSUME NEW t \in Thread, ScanQueues(t) PROVE Places'
  BY <1>14, ScanQueuesMoves, PlacesMove, SMTT(30) DEF Places
<1>15. ASSUME NEW t \in Thread, PutAssoc(t) PROVE Places'
  BY <1>15, PutAssocMoves, PlacesMove, SMTT(30) DEF Places, PutsAndWalks
<1>16. ASSUME NEW t \in Thread, FreedQueuePuts(t) PROVE Places'
  BY <1>16, FreedQueuePutsMoves, PlacesMove, SMTT(30) DEF Places
<1>17. ASSUME NEW t \in Thread, AssocFree(t) PROVE Places'
  BY <1>17, AssocFreeMoves, PlacesMove, SMTT(30) DEF Places
<1>18. ASSUME NEW t \in Thread, FreeTgtport(t) PROVE Places'
  BY <1>18, FreeTgtportMoves, PlacesMove DEF Places
<1>19. ASSUME FreeAssocs PROVE Places'
  <2>1. Unreg \in Thread /\ PlaceOK(Unreg, thread[Unreg])
    BY ThreadAssumption DEF Places, Thread
  <2>4. Unreg \notin Iod /\ Unreg # Ctrl /\ Unreg # Conf
    BY Distinct
  <2>2. PlaceOK(Unreg, thread'[Unreg])
    BY <1>19, <2>1, <2>4, FreeAssocsMoves
  <2>3. \A x \in Thread \ {Unreg} : thread'[x] = thread[x]
    BY <1>19, FreeAssocsMoves
  <2>. QED
    BY <2>1, <2>2, <2>3, PlacesMove
<1>20. ASSUME NEW t \in {Unreg, Ctrl}, PutDone(t) PROVE Places'
  <2>1. t \in Thread /\ PlaceOK(t, thread[t])
    BY ThreadAssumption DEF Places, Thread
  <2>4. t \notin Iod /\ t # Conf /\ Unreg # Ctrl
    BY Distinct
  <2>2. PlaceOK(t, thread'[t])
    BY <1>20, <2>1, <2>4, PutDoneMoves, ZenonT(60) DEF PutsAndRests
  <2>3. \A x \in Thread \ {t} : thread'[x] = thread[x]
    BY <1>20, PutDoneMoves DEF PutsAndRests
  <2>. QED
    BY <2>1, <2>2, <2>3, PlacesMove
<1>21. ASSUME Unregister PROVE Places'
  BY <1>21, UnregisterMoves, PlacesMove DEF Places, PutsPortAndRests
<1>22. ASSUME DeleteCtrl PROVE Places'
  <2>1. Ctrl \in Thread /\ PlaceOK(Ctrl, thread[Ctrl])
    BY ThreadAssumption DEF Places, Thread
  <2>4. Ctrl \notin Iod /\ Unreg # Ctrl /\ Ctrl # Conf
    BY Distinct
  <2>2. PlaceOK(Ctrl, thread'[Ctrl])
    BY <1>22, <2>1, <2>4, DeleteCtrlMoves
  <2>3. \A x \in Thread \ {Ctrl} : thread'[x] = thread[x]
    BY <1>22, DeleteCtrlMoves
  <2>. QED
    BY <2>1, <2>2, <2>3, PlacesMove
<1>23. ASSUME NEW c \in Cmd, CmdArrive(c) PROVE Places'
  BY <1>23, CmdArriveMoves, PlacesMove DEF Places
<1>24. ASSUME NEW c \in Cmd, CmdEnd(c) PROVE Places'
  <2>1. c \in Thread /\ PlaceOK(c, thread[c])
    BY ThreadAssumption DEF Places, Thread
  <2>4. c \notin Iod /\ c # Unreg /\ c # Ctrl /\ c # Conf
    BY Distinct
  <2>2. PlaceOK(c, thread'[c])
    BY <1>24, <2>1, <2>4, CmdEndMoves DEF QueuePuts
  <2>3. \A x \in Thread \ {c} : thread'[x] = thread[x]
    BY <1>24, CmdEndMoves DEF QueuePuts
  <2>. QED
    BY <2>1, <2>2, <2>3, PlacesMove
<1>25. ASSUME AddPort PROVE Places'
  BY <1>25, AddPortMoves, PlacesMove DEF Places
<1>26. ASSUME RemovePort PROVE Places'
  BY <1>26, RemovePortMoves, PlacesMove DEF Places, PutsPortAndRests
<1>27. ASSUME FindCtrl PROVE Places'
  <2>1. Ctrl \in Thread /\ PlaceOK(Ctrl, thread[Ctrl])
    BY ThreadAssumption DEF Places, Thread
  <2>4. Ctrl \notin Iod /\ Unreg # Ctrl /\ Ctrl # Conf
    BY Distinct
  <2>2. PlaceOK(Ctrl, thread'[Ctrl])
    BY <1>27, <2>1, <2>4, FindCtrlMoves
  <2>3. \A x \in Thread \ {Ctrl} : thread'[x] = thread[x]
    BY <1>27, FindCtrlMoves
  <2>. QED
    BY <2>1, <2>2, <2>3, PlacesMove
<1>28. ASSUME CtrlPut PROVE Places'
  <2>1. Ctrl \in Thread /\ PlaceOK(Ctrl, thread[Ctrl])
    BY ThreadAssumption DEF Places, Thread
  <2>4. Ctrl \notin Iod /\ Unreg # Ctrl /\ Ctrl # Conf
    BY Distinct
  <2>2. PlaceOK(Ctrl, thread'[Ctrl])
    BY <1>28, <2>1, <2>4, CtrlPutMoves DEF PutsPortAndRests
  <2>3. \A x \in Thread \ {Ctrl} : thread'[x] = thread[x]
    BY <1>28, CtrlPutMoves DEF PutsPortAndRests
  <2>. QED
    BY <2>1, <2>2, <2>3, PlacesMove
<1>. QED
  BY <1>1, <1>2, <1>3, <1>4, <1>5, <1>6, <1>7, <1>8, <1>9, <1>10, <1>11, <1>12, <1>13, <1>14,
     <1>15, <1>16, <1>17, <1>18, <1>19, <1>20, <1>21, <1>22, <1>23, <1>24, <1>25, <1>26, <1>27, <1>28
  DEF Next, LsRequest, Deletion, Freeing

\* Nothing that was allocated is forgotten.
Ages == \A a \in Assoc : assoc[a].st # "none" => assoc'[a].st # "none"
LEMMA AgesIs ==
    ASSUME Inv
    PROVE  /\ \A a \in Assoc : AssocMade(a) \/ AssocTaken(a) \/ AssocGiven(a) \/ AssocFreed(a) => Ages
           /\ UNCHANGED assoc => Ages
<1>1. ASSUME NEW a \in Assoc, AssocMade(a) PROVE Ages
  BY <1>1 DEF Ages, AssocMade, OnlyAssoc
<1>2. ASSUME NEW a \in Assoc, AssocTaken(a) PROVE Ages
  BY <1>2 DEF Ages, AssocTaken, OnlyAssoc
<1>3. ASSUME NEW a \in Assoc, AssocGiven(a) PROVE Ages
  BY <1>3 DEF Ages, AssocGiven, OnlyAssoc
<1>4. ASSUME NEW a \in Assoc, AssocFreed(a) PROVE Ages
  BY <1>4 DEF Ages, AssocFreed, OnlyAssoc
<1>5. UNCHANGED assoc => Ages
  BY DEF Ages
<1>. QED
  BY <1>1, <1>2, <1>3, <1>4, <1>5

LEMMA KnownThreadsMove ==
    ASSUME Inv, Inv', KnownThreads, Ages, NEW t \in Thread,
           \A x \in Thread \ {t} : thread'[x] = thread[x],
           LET new == thread'[t] me == thread[t] IN
           /\ new.assoc \in {None, me.assoc} \/ assoc'[new.assoc].st # "none"
           /\ new.owed \in {None, me.owed, me.assoc} \/ assoc'[new.owed].st # "none"
           /\ new.next \in {None, me.next} \/ assoc'[new.next].st # "none"
    PROVE  KnownThreads'
<1>1. ASSUME NEW x \in Thread
      PROVE  /\ thread[x].assoc \in Assoc \union {None}
             /\ thread[x].owed \in Assoc \union {None}
             /\ thread[x].next \in Assoc \union {None}
  BY Fields DEF Rec
<1>. QED
  BY <1>1 DEF KnownThreads, KnownAssoc, Ages

\* One association takes part, at most one queue.
LEMMA QueueAges ==
    ASSUME Inv, KnownQueues, Ages
    PROVE  /\ UNCHANGED queue \/ SameRefs => KnownQueues'
           /\ \A q \in Queue : QueueTaken(q) \/ QueueGiven(q) => KnownQueues'
           /\ \A q \in Queue, a \in Assoc, k \in Qids :
                QueueMade(q, a, k) /\ assoc'[a].st # "none" => KnownQueues'
<1>1. UNCHANGED queue => SameRefs
  BY UnchangedIs
<1>2. SameRefs => KnownQueues'
  BY DEF SameRefs, KnownQueues, KnownAssoc, Ages
<1>3. ASSUME NEW q \in Queue, QueueTaken(q) PROVE KnownQueues'
  BY <1>3 DEF QueueTaken, OnlyQueue, KnownQueues, KnownAssoc, Ages
<1>4. ASSUME NEW q \in Queue, QueueGiven(q) PROVE KnownQueues'
  <2>1. queue[q].st # "none"
    BY <1>4 DEF QueueGiven, KnownQueues, Inv, ObjectsOK
  <2>. QED
    BY <1>4, <2>1 DEF QueueGiven, OnlyQueue, KnownQueues, KnownAssoc, Ages
<1>5. ASSUME NEW q \in Queue, NEW a \in Assoc, NEW k \in Qids, QueueMade(q, a, k),
             assoc'[a].st # "none"
      PROVE  KnownQueues'
  BY <1>5 DEF QueueMade, OnlyQueue, KnownQueues, KnownAssoc, Ages
<1>. QED
  BY <1>1, <1>2, <1>3, <1>4, <1>5

QueueAge == \A q \in Queue : queue[q].st # "none" => queue'[q].st # "none"
LEMMA QueueAgeIs ==
    ASSUME Inv, KnownQueues
    PROVE  /\ UNCHANGED queue \/ SameRefs => QueueAge
           /\ \A q \in Queue : QueueTaken(q) \/ QueueGiven(q) => QueueAge
           /\ \A q \in Queue : \A a, k : QueueMade(q, a, k) => QueueAge
<1>1. UNCHANGED queue \/ SameRefs => QueueAge
  BY DEF SameRefs, QueueAge
<1>2. ASSUME NEW q \in Queue, QueueTaken(q) PROVE QueueAge
  BY <1>2 DEF QueueTaken, OnlyQueue, QueueAge
<1>3. ASSUME NEW q \in Queue, QueueGiven(q) PROVE QueueAge
  BY <1>3 DEF QueueGiven, OnlyQueue, QueueAge
<1>4. ASSUME NEW q \in Queue, NEW a, NEW k, QueueMade(q, a, k) PROVE QueueAge
  BY <1>4 DEF QueueMade, OnlyQueue, QueueAge
<1>. QED
  BY <1>1, <1>2, <1>3, <1>4

LEMMA KnownDeletedMove ==
    ASSUME KnownDeleted, Ages, QueueAge,
           \/ deleted' = deleted
           \/ \E a \in Assoc : deleted' = deleted \union {a} /\ assoc[a].st # "none"
           \/ \E q \in Queue : deleted' = deleted \union {q} /\ queue[q].st # "none"
    PROVE  KnownDeleted'
<1>1. CASE deleted' = deleted
  BY <1>1 DEF KnownDeleted, Ages, QueueAge
<1>2. ASSUME NEW a \in Assoc, deleted' = deleted \union {a}, assoc[a].st # "none"
      PROVE  KnownDeleted'
  <2>1. a \notin Queue
    OBVIOUS
  <2>. QED
    BY <1>2, <2>1 DEF KnownDeleted, Ages, QueueAge
<1>3. ASSUME NEW q \in Queue, deleted' = deleted \union {q}, queue[q].st # "none"
      PROVE  KnownDeleted'
  <2>1. q \notin Assoc
    OBVIOUS
  <2>. QED
    BY <1>3, <2>1 DEF KnownDeleted, Ages, QueueAge
<1>. QED
  BY <1>1, <1>2, <1>3

LEMMA AliveMove ==
    ASSUME Inv, Alive
    PROVE  /\ (UNCHANGED assoc \/ (\E a \in Assoc : AssocMade(a) \/ AssocTaken(a) \/ AssocGiven(a) \/ AssocFreed(a)))
              => (\A a \in Assoc : assoc'[a].st = "live" <=> assoc'[a].ref > 0)
           /\ \/ UNCHANGED queue \/ SameRefs
              \/ \E q \in Queue : \/ QueueTaken(q) \/ QueueGiven(q)
                                  \/ \E a \in Assoc, k \in Qids : QueueMade(q, a, k)
              => (\A q \in Queue : queue'[q].st = "live" <=> queue'[q].ref > 0)
<1>. DEFINE G == \A a \in Assoc : assoc'[a].st = "live" <=> assoc'[a].ref > 0
            H == \A q \in Queue : queue'[q].st = "live" <=> queue'[q].ref > 0
<1>1. ASSUME NEW a \in Assoc, AssocMade(a) PROVE G
  BY <1>1 DEF AssocMade, OnlyAssoc, Alive
<1>2. ASSUME NEW a \in Assoc, AssocTaken(a) PROVE G
  BY <1>2, Fields DEF AssocTaken, OnlyAssoc, Alive
<1>3. ASSUME NEW a \in Assoc, AssocGiven(a) PROVE G
  BY <1>3, Fields DEF AssocGiven, OnlyAssoc, Alive
<1>4. UNCHANGED assoc => G
  BY DEF Alive
<1>11. ASSUME NEW a \in Assoc, AssocFreed(a) PROVE G
  BY <1>11, Fields DEF AssocFreed, OnlyAssoc, Alive
<1>5. ASSUME NEW q \in Queue, QueueTaken(q) PROVE H
  BY <1>5, Fields DEF QueueTaken, OnlyQueue, Alive
<1>6. ASSUME NEW q \in Queue, QueueGiven(q) PROVE H
  BY <1>6, Fields DEF QueueGiven, OnlyQueue, Alive
<1>7. ASSUME NEW q \in Queue, NEW a \in Assoc, NEW k \in Qids, QueueMade(q, a, k) PROVE H
  BY <1>7, Fields DEF QueueMade, OnlyQueue, Alive
<1>8. UNCHANGED queue \/ SameRefs => H
  BY DEF Alive, SameRefs
<1>. HIDE DEF G, H
<1>9. (UNCHANGED assoc \/ (\E a \in Assoc : AssocMade(a) \/ AssocTaken(a) \/ AssocGiven(a) \/ AssocFreed(a))) => G
  BY <1>1, <1>2, <1>3, <1>4, <1>11
<1>10. \/ UNCHANGED queue \/ SameRefs
       \/ \E q \in Queue : \/ QueueTaken(q) \/ QueueGiven(q)
                           \/ \E a \in Assoc, k \in Qids : QueueMade(q, a, k)
       => H
  BY <1>5, <1>6, <1>7, <1>8
<1>. QED
  BY <1>9, <1>10 DEF G, H

\* What a step does to the counts of associations, and of queues.
AssocOp == \/ UNCHANGED assoc
           \/ \E a \in Assoc : AssocMade(a) \/ AssocTaken(a) \/ AssocGiven(a) \/ AssocFreed(a)
QueueOp == \/ UNCHANGED queue \/ SameRefs
           \/ \E q \in Queue : \/ QueueTaken(q) \/ QueueGiven(q)
                               \/ \E a \in Assoc, k \in Qids :
                                    QueueMade(q, a, k) /\ assoc[a].st # "none"
\* What t names after it, and what was deleted.
Names(t) ==
    LET new == thread'[t]  me == thread[t] IN
    /\ \A x \in Thread \ {t} : thread'[x] = thread[x]
    /\ new.assoc \in {None, me.assoc} \/ assoc'[new.assoc].st # "none"
    /\ new.owed \in {None, me.owed, me.assoc} \/ assoc'[new.owed].st # "none"
    /\ new.next \in {None, me.next} \/ assoc'[new.next].st # "none"
Deletes == \/ deleted' = deleted
           \/ \E a \in Assoc : deleted' = deleted \union {a} /\ assoc[a].st # "none"
           \/ \E q \in Queue : deleted' = deleted \union {q} /\ queue[q].st # "none"

LEMMA KnownMove ==
    ASSUME Base, Inv', AssocOp, QueueOp, Deletes, NEW t \in Thread, Names(t)
    PROVE  Known' /\ Alive'
<1>. USE DEF Base, Known
<1>1. Ages
  BY AgesIs DEF AssocOp
<1>2. KnownThreads'
  BY <1>1, KnownThreadsMove DEF Names
<1>3. QueueAge /\ KnownQueues'
  <2>1. CASE UNCHANGED queue \/ SameRefs
    BY <1>1, <2>1, QueueAges, QueueAgeIs
  <2>2. ASSUME NEW q \in Queue, QueueTaken(q) \/ QueueGiven(q) PROVE QueueAge /\ KnownQueues'
    BY <1>1, <2>2, QueueAges, QueueAgeIs
  <2>3. ASSUME NEW q \in Queue, NEW a \in Assoc, NEW k \in Qids, QueueMade(q, a, k),
               assoc[a].st # "none"
        PROVE  QueueAge /\ KnownQueues'
    <3>1. assoc'[a].st # "none"
      BY <1>1, <2>3 DEF Ages
    <3>. QED
      BY <1>1, <2>3, <3>1, QueueAges, QueueAgeIs
  <2>. QED
    BY <2>1, <2>2, <2>3 DEF QueueOp
<1>4. KnownDeleted'
  BY <1>1, <1>3, KnownDeletedMove DEF Deletes
<1>5. Alive'
  BY AliveMove DEF AssocOp, QueueOp, Alive
<1>. QED
  BY <1>2, <1>3, <1>4, <1>5

LEMMA InBase ==
    ASSUME Base
    PROVE  /\ \A a \in Assoc : assoc[a].ref > 0 => assoc[a].st = "live"
           /\ \A a \in Assoc : Listed(a) => assoc[a].st # "none"
           /\ \A t \in Thread : thread[t].assoc \in Assoc => assoc[thread[t].assoc].st # "none"
           /\ \A t \in Thread : thread[t].queue \in Queue => queue[thread[t].queue].st # "none"
           /\ \A t \in Thread : PlaceOK(t, thread[t])
<1>1. None \notin Assoc /\ None \notin Queue
  OBVIOUS
<1>. QED
  BY <1>1 DEF Base, Alive, OnList, Known, KnownThreads, KnownAssoc, TableInv, NamesKnown, Places

LEMMA AfterIs ==
    ASSUME Base, NEW j \in DOMAIN assoc_list
    PROVE  After(j) # None => After(j) \in Assoc /\ assoc[After(j)].st # "none"
<1>1. CASE j < Len(assoc_list)
  <2>1. assoc_list \in Seq(Assoc)
    BY DEF Base, Inv, TypeOK
  <2>2. j + 1 \in DOMAIN assoc_list
    BY <1>1, <2>1
  <2>3. After(j) = assoc_list[j + 1] /\ Listed(After(j)) /\ After(j) \in Assoc
    BY <1>1, <2>1, <2>2 DEF After, Listed
  <2>. QED
    BY <2>3, InBase
<1>2. CASE ~(j < Len(assoc_list))
  BY <1>2 DEF After
<1>. QED
  BY <1>1, <1>2

LEMMA QueuePutsNames ==
    ASSUME Base, NEW t \in Thread, NEW pc, QueuePuts(t, pc), UNCHANGED assoc
    PROVE  QueueOp /\ Names(t)
<1>. DEFINE q == thread[t].queue
<1>1. q \in Queue /\ QueueGiven(q) /\ queue[q].assoc \in Assoc
  BY DEF QueuePuts
<1>2. queue[q].st # "none"
  BY <1>1, InBase
<1>3. assoc[queue[q].assoc].st # "none"
  BY <1>1, <1>2 DEF Base, Known, KnownQueues, KnownAssoc
<1>5. QueueOp
  BY <1>1 DEF QueueOp
<1>6. /\ thread'[t].assoc \in {None, thread[t].assoc}
      /\ thread'[t].next \in {None, thread[t].next}
      /\ thread'[t].owed \in {None, thread[t].owed, queue[q].assoc}
      /\ \A x \in Thread \ {t} : thread'[x] = thread[x]
  BY DEF QueuePuts, Same
<1>7. assoc'[queue[q].assoc].st # "none"
  BY <1>3
<1>. QED
  BY <1>5, <1>6, <1>7 DEF Names

LEMMA KnownStep ==
    ASSUME Base, Inv', Next
    PROVE  Known' /\ Alive'
<1>0. Inv
  BY DEF Base
<1>. USE <1>0 DEF Walks, Rests, Same, Blank, At, Names, Deletes, AssocOp, QueueOp
<1>1. ASSUME NEW i \in Iod, RcvLsReq(i) PROVE Known' /\ Alive'
  <2>1. AssocOp /\ QueueOp /\ Deletes
    BY <1>1 DEF RcvLsReq
  <2>. QED
    BY <1>1, <2>1, RcvLsReqMoves, KnownMove
<1>2. ASSUME NEW i \in Iod, AllocAssoc(i) PROVE Known' /\ Alive'
  BY <1>2, AllocAssocMoves, KnownMove DEF AssocMade
<1>3. ASSUME NEW i \in Iod, FindAssoc(i) PROVE Known' /\ Alive'
  <2>1. AssocOp /\ QueueOp /\ Deletes /\ i \in Thread
    BY <1>3, FindAssocMoves
  <2>2. Ages
    BY <2>1, AgesIs
  <2>3. Names(i)
    BY <1>3, <2>2, FindAssocMoves, InBase DEF Ages
  <2>. QED
    BY <2>1, <2>3, KnownMove
<1>4. ASSUME NEW i \in Iod, AllocQueue(i) PROVE Known' /\ Alive'
  <2>1. AssocOp /\ Deletes /\ i \in Thread
    BY <1>4, AllocQueueMoves
  <2>2. QueueOp
    BY <1>4, AllocQueueMoves, InBase
  <2>3. Names(i)
    BY <1>4, AllocQueueMoves
  <2>. QED
    BY <2>1, <2>2, <2>3, KnownMove
<1>5. ASSUME NEW i \in Iod, Publish(i) PROVE Known' /\ Alive'
  BY <1>5, PublishMoves, KnownMove
<1>6. ASSUME NEW i \in Iod, UseQueue(i) PROVE Known' /\ Alive'
  BY <1>6, UseQueueMoves, KnownMove
<1>7. ASSUME NEW i \in Iod, FindQueue(i) PROVE Known' /\ Alive'
  BY <1>7, FindQueueMoves, KnownMove
<1>8. ASSUME NEW i \in Iod, PutFound(i) PROVE Known' /\ Alive'
  BY <1>8, PutFoundMoves, KnownMove DEF PutsAndWalks
<1>9. ASSUME NEW i \in Iod, Respond(i) PROVE Known' /\ Alive'
  BY <1>9, RespondMoves, KnownMove DEF PutsPortAndRests
<1>10. ASSUME NEW t \in Thread, DeleteQueue(t) PROVE Known' /\ Alive'
  BY <1>10, DeleteQueueMoves, KnownMove, InBase
<1>11. ASSUME NEW t \in Thread, DropQueue(t) PROVE Known' /\ Alive'
  <2>1. PICK pc : QueuePuts(t, pc)
    BY <1>11, DropQueueMoves
  <2>2. AssocOp /\ Deletes /\ t \in Thread /\ UNCHANGED assoc
    BY <1>11, DropQueueMoves
  <2>. QED
    BY <2>1, <2>2, QueuePutsNames, KnownMove
<1>12. ASSUME NEW t \in Thread, PutQueue(t) PROVE Known' /\ Alive'
  <2>1. PICK pc : QueuePuts(t, pc)
    BY <1>12, PutQueueMoves
  <2>2. AssocOp /\ Deletes /\ t \in Thread /\ UNCHANGED assoc
    BY <1>12, PutQueueMoves
  <2>. QED
    BY <2>1, <2>2, QueuePutsNames, KnownMove
<1>13. ASSUME NEW t \in Thread, BeginAssoc(t) PROVE Known' /\ Alive'
  BY <1>13, BeginAssocMoves, KnownMove, InBase, ZenonT(60)
<1>14. ASSUME NEW t \in Thread, ScanQueues(t) PROVE Known' /\ Alive'
  BY <1>14, ScanQueuesMoves, KnownMove
<1>15. ASSUME NEW t \in Thread, PutAssoc(t) PROVE Known' /\ Alive'
  BY <1>15, PutAssocMoves, KnownMove DEF PutsAndWalks
<1>16. ASSUME NEW t \in Thread, FreedQueuePuts(t) PROVE Known' /\ Alive'
  BY <1>16, FreedQueuePutsMoves, KnownMove
<1>17. ASSUME NEW t \in Thread, AssocFree(t) PROVE Known' /\ Alive'
  <2>1. \E a \in Assoc : AssocFreed(a)
    BY <1>17, AssocFreeMoves DEF AssocFreed, Base, Unlisting
  <2>. QED
    BY <1>17, <2>1, AssocFreeMoves, KnownMove
<1>18. ASSUME NEW t \in Thread, FreeTgtport(t) PROVE Known' /\ Alive'
  BY <1>18, FreeTgtportMoves, KnownMove, SMTT(30)
<1>19. ASSUME FreeAssocs PROVE Known' /\ Alive'
  <2>1. AssocOp /\ QueueOp /\ Deletes /\ Unreg \in Thread
    BY <1>19, FreeAssocsMoves
  <2>2. Ages
    BY <2>1, AgesIs
  <2>3. Names(Unreg)
    BY <1>19, <2>2, FreeAssocsMoves, InBase, AfterIs DEF Ages, FreeOn
  <2>. QED
    BY <2>1, <2>3, KnownMove
<1>20. ASSUME NEW t \in {Unreg, Ctrl}, PutDone(t) PROVE Known' /\ Alive'
  BY <1>20, PutDoneMoves, KnownMove DEF PutsAndRests
<1>21. ASSUME Unregister PROVE Known' /\ Alive'
  BY <1>21, UnregisterMoves, KnownMove DEF PutsPortAndRests
<1>22. ASSUME DeleteCtrl PROVE Known' /\ Alive'
  BY <1>22, DeleteCtrlMoves, KnownMove
<1>23. ASSUME NEW c \in Cmd, CmdArrive(c) PROVE Known' /\ Alive'
  BY <1>23, CmdArriveMoves, KnownMove
<1>24. ASSUME NEW c \in Cmd, CmdEnd(c) PROVE Known' /\ Alive'
  <2>1. PICK pc : QueuePuts(c, pc)
    BY <1>24, CmdEndMoves
  <2>2. AssocOp /\ Deletes /\ c \in Thread /\ UNCHANGED assoc
    BY <1>24, CmdEndMoves
  <2>. QED
    BY <2>1, <2>2, QueuePutsNames, KnownMove
<1>25. ASSUME AddPort PROVE Known' /\ Alive'
  BY <1>25, AddPortMoves, KnownMove
<1>26. ASSUME RemovePort PROVE Known' /\ Alive'
  BY <1>26, RemovePortMoves, KnownMove DEF PutsPortAndRests
<1>27. ASSUME FindCtrl PROVE Known' /\ Alive'
  <2>1. AssocOp /\ QueueOp /\ Deletes /\ Ctrl \in Thread
    BY <1>27, FindCtrlMoves
  <2>2. Names(Ctrl)
    BY <1>27, FindCtrlMoves, InBase, ZenonT(60) DEF AssocTaken
  <2>. QED
    BY <2>1, <2>2, KnownMove
<1>28. ASSUME CtrlPut PROVE Known' /\ Alive'
  BY <1>28, CtrlPutMoves, KnownMove DEF PutsPortAndRests
<1>. QED
  BY <1>1, <1>2, <1>3, <1>4, <1>5, <1>6, <1>7, <1>8, <1>9, <1>10, <1>11, <1>12, <1>13, <1>14,
     <1>15, <1>16, <1>17, <1>18, <1>19, <1>20, <1>21, <1>22, <1>23, <1>24, <1>25, <1>26, <1>27, <1>28
  DEF Next, LsRequest, Deletion, Freeing

\* The list, and who takes an association off it.
LEMMA ListKept ==
    ASSUME Base, NEW t \in Thread, \A x \in Thread \ {t} : thread'[x] = thread[x],
           assoc_list' = assoc_list, thread[t].duty # "unlist", thread'[t].duty # "unlist",
           UNCHANGED assoc \/ \E a \in Assoc : AssocTaken(a)
    PROVE  OnList' /\ Unlisting'
<1>1. \A a \in Assoc : assoc'[a].st = assoc[a].st
  <2>1. CASE UNCHANGED assoc
    BY <2>1
  <2>2. ASSUME NEW a \in Assoc, AssocTaken(a)
        PROVE  \A x \in Assoc : assoc'[x].st = assoc[x].st
    BY <2>2 DEF AssocTaken, OnlyAssoc
  <2>. QED
    BY <2>1, <2>2
<1>2. OnList'
  BY <1>1 DEF Base, OnList, Listed
<1>3. \A x \in Thread : thread[x].duty = "unlist" => thread[x].owed \in Assoc
  BY DEF Base, Inv, ThreadsOK, ThreadOK
<1>4. Unlisting'
  BY <1>1, <1>3 DEF Base, Unlisting
<1>. QED
  BY <1>2, <1>4

LEMMA ListPut ==
    ASSUME Base, NEW t \in Thread, \A x \in Thread \ {t} : thread'[x] = thread[x],
           assoc_list' = assoc_list, thread[t].duty # "unlist", NEW a \in Assoc, AssocGiven(a),
           IF assoc[a].ref = 1 THEN thread'[t].duty = "unlist" /\ thread'[t].owed = a
           ELSE thread'[t].duty # "unlist"
    PROVE  OnList' /\ Unlisting'
<1>1. assoc[a].st = "live" /\ \A x \in Assoc \ {a} : assoc'[x] = assoc[x]
  BY DEF Base, Alive, AssocGiven, OnlyAssoc
<1>2. \A x \in Assoc : assoc'[x].st \in {"live", "dying"} <=> assoc[x].st \in {"live", "dying"}
  BY <1>1 DEF AssocGiven
<1>3. OnList'
  BY <1>2 DEF Base, OnList, Listed
<1>4. \A x \in Thread : thread[x].duty = "unlist" => thread[x].owed \in Assoc /\ thread[x].owed # a
  BY <1>1 DEF Base, Inv, ThreadsOK, ThreadOK, Unlisting
<1>5. CASE assoc[a].ref = 1
  <2>1. assoc'[a].st = "dying" /\ thread'[t].duty = "unlist" /\ thread'[t].owed = a
    BY <1>5 DEF AssocGiven
  <2>2. ASSUME NEW x \in Thread, thread'[x].duty = "unlist"
        PROVE  /\ assoc'[thread'[x].owed].st = "dying"
               /\ \A u \in Thread : thread'[u].duty = "unlist" /\ thread'[u].owed = thread'[x].owed
                    => u = x
    <3>1. CASE x = t
      BY <1>4, <2>1, <3>1
    <3>2. CASE x # t
      BY <1>1, <1>4, <2>1, <2>2, <3>2 DEF Base, Unlisting
    <3>. QED
      BY <3>1, <3>2
  <2>3. ASSUME NEW b \in Assoc, assoc'[b].st = "dying"
        PROVE  \E x \in Thread : thread'[x].duty = "unlist" /\ thread'[x].owed = b
    <3>1. CASE b = a
      BY <2>1, <3>1
    <3>2. CASE b # a
      <4>1. PICK x \in Thread : thread[x].duty = "unlist" /\ thread[x].owed = b
        BY <1>1, <2>3, <3>2 DEF Base, Unlisting
      <4>. QED
        BY <4>1
    <3>. QED
      BY <3>1, <3>2
  <2>. QED
    BY <1>3, <2>2, <2>3 DEF Unlisting
<1>6. CASE assoc[a].ref # 1
  <2>1. thread'[t].duty # "unlist" /\ \A x \in Assoc : assoc'[x].st = assoc[x].st
    BY <1>1, <1>6 DEF AssocGiven
  <2>2. Unlisting'
    BY <1>4, <2>1 DEF Base, Unlisting
  <2>. QED
    BY <1>3, <2>2
<1>. QED
  BY <1>5, <1>6

LEMMA ListMade ==
    ASSUME Base, NEW t \in Thread, \A x \in Thread \ {t} : thread'[x] = thread[x],
           thread[t].duty # "unlist", thread'[t].duty # "unlist",
           NEW a \in Assoc, AssocMade(a), assoc_list' = Append(assoc_list, a)
    PROVE  OnList' /\ Unlisting'
<1>1. assoc_list \in Seq(Assoc) /\ ~Listed(a)
  BY DEF Base, OnList, AssocMade, Inv, TypeOK
<1>2. /\ DOMAIN assoc_list = 1 .. Len(assoc_list) /\ Len(assoc_list) \in Nat
      /\ DOMAIN assoc_list' = 1 .. Len(assoc_list) + 1
      /\ \A j \in 1 .. Len(assoc_list) : assoc_list'[j] = assoc_list[j]
      /\ assoc_list'[Len(assoc_list) + 1] = a
  BY <1>1
<1>3. \A j \in 1 .. Len(assoc_list) : assoc_list[j] # a
  BY <1>1, <1>2 DEF Listed
<1>4. \A i, j \in DOMAIN assoc_list' : assoc_list'[i] = assoc_list'[j] => i = j
  BY <1>2, <1>3 DEF Base, OnList
<1>5. \A x \in Assoc : Listed(x)' <=> Listed(x) \/ x = a
  <2>1. ASSUME NEW x \in Assoc, Listed(x) \/ x = a PROVE Listed(x)'
    BY <1>2, <2>1 DEF Listed
  <2>2. ASSUME NEW x \in Assoc, Listed(x)' PROVE Listed(x) \/ x = a
    BY <1>2, <2>2 DEF Listed
  <2>. QED
    BY <2>1, <2>2
<1>6. \A x \in Assoc : Listed(x)' <=> assoc'[x].st \in {"live", "dying"}
  BY <1>5 DEF Base, OnList, AssocMade, OnlyAssoc
<1>7. OnList'
  BY <1>4, <1>6 DEF OnList
<1>8. \A x \in Thread : thread[x].duty = "unlist" => thread[x].owed \in Assoc
  BY DEF Base, Inv, ThreadsOK, ThreadOK
<1>9. Unlisting'
  BY <1>8 DEF Base, Unlisting, AssocMade, OnlyAssoc
<1>. QED
  BY <1>7, <1>9

\* One is taken off the list: the others keep their order.
LEMMA UnlistedIs ==
    ASSUME Base, NEW a \in Assoc, Listed(a)
    PROVE  \E n \in DOMAIN assoc_list :
            /\ assoc_list[n] = a
            /\ DOMAIN Unlisted(a) = 1 .. Len(assoc_list) - 1
            /\ \A j \in 1 .. Len(assoc_list) - 1 :
                    Unlisted(a)[j] = IF j < n THEN assoc_list[j] ELSE assoc_list[j + 1]
<1>. DEFINE n == CHOOSE i \in DOMAIN assoc_list : assoc_list[i] = a
<1>1. n \in DOMAIN assoc_list /\ assoc_list[n] = a
  BY DEF Listed
<1>2. Unlisted(a) = RemoveAt(assoc_list, n)
  BY DEF Unlisted
<1>. HIDE DEF n
<1>3. assoc_list \in Seq(Assoc) /\ n \in 1 .. Len(assoc_list)
  BY <1>1 DEF Base, Inv, TypeOK
<1>. DEFINE front == SubSeq(assoc_list, 1, n - 1)  back == SubSeq(assoc_list, n + 1, Len(assoc_list))
<1>4. /\ front \in Seq(Assoc) /\ Len(front) = n - 1
      /\ \A j \in 1 .. n - 1 : front[j] = assoc_list[j]
  BY <1>3
<1>5. /\ back \in Seq(Assoc) /\ Len(back) = Len(assoc_list) - n
      /\ \A j \in 1 .. Len(assoc_list) - n : back[j] = assoc_list[n + j]
  BY <1>3
<1>6. Unlisted(a) = front \o back
  BY <1>2 DEF RemoveAt
<1>. HIDE DEF front, back
<1>7. /\ Unlisted(a) \in Seq(Assoc) /\ Len(Unlisted(a)) = Len(assoc_list) - 1
      /\ \A j \in 1 .. Len(assoc_list) - 1 :
            Unlisted(a)[j] = IF j <= n - 1 THEN front[j] ELSE back[j - (n - 1)]
  <2>1. /\ front \o back \in Seq(Assoc) /\ Len(front \o back) = Len(front) + Len(back)
        /\ \A j \in 1 .. Len(front) + Len(back) :
             (front \o back)[j] = IF j <= Len(front) THEN front[j] ELSE back[j - Len(front)]
    BY <1>4, <1>5, ConcatProperties
  <2>2. Len(front) + Len(back) = Len(assoc_list) - 1
    BY <1>3, <1>4, <1>5
  <2>. QED
    BY <1>4, <1>6, <2>1, <2>2
<1>8. ASSUME NEW j \in 1 .. Len(assoc_list) - 1
      PROVE  Unlisted(a)[j] = IF j < n THEN assoc_list[j] ELSE assoc_list[j + 1]
  <2>1. CASE j < n
    BY <1>3, <1>4, <1>7, <2>1, SMTT(30)
  <2>2. CASE ~(j < n)
    <3>1. j - (n - 1) \in 1 .. Len(assoc_list) - n /\ n + (j - (n - 1)) = j + 1
      BY <1>3, <2>2
    <3>. QED
      BY <1>3, <1>5, <1>7, <2>2, <3>1
  <2>. QED
    BY <2>1, <2>2
<1>9. DOMAIN Unlisted(a) = 1 .. Len(assoc_list) - 1
  BY <1>7
<1>. QED
  BY <1>1, <1>8, <1>9

LEMMA ListFreed ==
    ASSUME Base, NEW t \in Thread, \A x \in Thread \ {t} : thread'[x] = thread[x],
           thread[t].duty = "unlist", thread'[t].duty # "unlist",
           NEW a \in Assoc, a = thread[t].owed, AssocFreed(a), assoc_list' = Unlisted(a)
    PROVE  OnList' /\ Unlisting'
<1>1. assoc_list \in Seq(Assoc) /\ Listed(a)
  BY DEF Base, OnList, AssocFreed, Inv, TypeOK
<1>2. PICK n \in DOMAIN assoc_list :
            /\ assoc_list[n] = a
            /\ DOMAIN assoc_list' = 1 .. Len(assoc_list) - 1
            /\ \A j \in 1 .. Len(assoc_list) - 1 :
                    assoc_list'[j] = IF j < n THEN assoc_list[j] ELSE assoc_list[j + 1]
  BY <1>1, UnlistedIs
<1>3. DOMAIN assoc_list = 1 .. Len(assoc_list) /\ Len(assoc_list) \in Nat /\ n \in 1 .. Len(assoc_list)
  BY <1>1
<1>4. \A i, j \in 1 .. Len(assoc_list) : assoc_list[i] = assoc_list[j] => i = j
  BY <1>3 DEF Base, OnList
<1>5. \A i, j \in DOMAIN assoc_list' : assoc_list'[i] = assoc_list'[j] => i = j
  BY <1>2, <1>3, <1>4, SMTT(30)
<1>6. \A x \in Assoc : Listed(x)' <=> Listed(x) /\ x # a
  <2>1. ASSUME NEW x \in Assoc, Listed(x), x # a PROVE Listed(x)'
    <3>1. PICK j \in 1 .. Len(assoc_list) : assoc_list[j] = x
      BY <1>3, <2>1 DEF Listed
    <3>2. CASE j < n
      <4>1. j \in 1 .. Len(assoc_list) - 1
        BY <1>3, <3>2
      <4>. QED
        BY <1>2, <3>1, <3>2, <4>1 DEF Listed
    <3>3. CASE ~(j < n)
      <4>1. j - 1 \in 1 .. Len(assoc_list) - 1 /\ ~(j - 1 < n) /\ j - 1 + 1 = j
        BY <1>2, <1>3, <2>1, <3>1, <3>3
      <4>. QED
        BY <1>2, <3>1, <4>1, ZenonT(60) DEF Listed
    <3>. QED
      BY <3>2, <3>3
  <2>2. ASSUME NEW x \in Assoc, Listed(x)' PROVE Listed(x) /\ x # a
    <3>1. PICK j \in 1 .. Len(assoc_list) - 1 : assoc_list'[j] = x
      BY <1>2, <2>2 DEF Listed
    <3>2. PICK k \in 1 .. Len(assoc_list) : assoc_list[k] = x /\ k # n
      <4>1. CASE j < n
        BY <1>2, <1>3, <3>1, <4>1
      <4>2. CASE ~(j < n)
        <5>1. j + 1 \in 1 .. Len(assoc_list) /\ j + 1 # n
          BY <1>3, <4>2
        <5>2. assoc_list[j + 1] = x
          BY <1>2, <3>1, <4>2
        <5>. QED
          BY <5>1, <5>2
      <4>. QED
        BY <4>1, <4>2
    <3>. QED
      BY <1>2, <1>3, <1>4, <3>2, ZenonT(60) DEF Listed
  <2>. QED
    BY <2>1, <2>2
<1>7. \A x \in Assoc : Listed(x)' <=> assoc'[x].st \in {"live", "dying"}
  BY <1>6 DEF Base, OnList, AssocFreed, OnlyAssoc
<1>8. OnList'
  BY <1>5, <1>7 DEF OnList
<1>9. \A x \in Thread : thread[x].duty = "unlist" => thread[x].owed \in Assoc
  BY DEF Base, Inv, ThreadsOK, ThreadOK
<1>10. Unlisting'
  BY <1>9 DEF Base, Unlisting, AssocFreed, OnlyAssoc
<1>. QED
  BY <1>8, <1>10

LEMMA ListStep ==
    ASSUME Base, Next
    PROVE  OnList' /\ Unlisting'
<1>0. Inv
  BY DEF Base
<1>. USE <1>0 DEF Walks, Rests, Same, At
<1>1. ASSUME NEW i \in Iod, RcvLsReq(i) PROVE OnList' /\ Unlisting'
  <2>1. UNCHANGED <<assoc, assoc_list>>
    BY <1>1 DEF RcvLsReq
  <2>. QED
    BY <1>1, <2>1, RcvLsReqMoves, ListKept
<1>2. ASSUME NEW i \in Iod, AllocAssoc(i) PROVE OnList' /\ Unlisting'
  BY <1>2, AllocAssocMoves, ListMade, ListKept
<1>3. ASSUME NEW i \in Iod, FindAssoc(i) PROVE OnList' /\ Unlisting'
  BY <1>3, FindAssocMoves, ListKept
<1>4. ASSUME NEW i \in Iod, AllocQueue(i) PROVE OnList' /\ Unlisting'
  BY <1>4, AllocQueueMoves, ListKept
<1>5. ASSUME NEW i \in Iod, Publish(i) PROVE OnList' /\ Unlisting'
  BY <1>5, PublishMoves, ListKept
<1>6. ASSUME NEW i \in Iod, UseQueue(i) PROVE OnList' /\ Unlisting'
  BY <1>6, UseQueueMoves, ListKept
<1>7. ASSUME NEW i \in Iod, FindQueue(i) PROVE OnList' /\ Unlisting'
  BY <1>7, FindQueueMoves, ListKept
<1>8. ASSUME NEW i \in Iod, PutFound(i) PROVE OnList' /\ Unlisting'
  BY <1>8, PutFoundMoves, ListPut DEF PutsAndWalks
<1>9. ASSUME NEW i \in Iod, Respond(i) PROVE OnList' /\ Unlisting'
  BY <1>9, RespondMoves, ListKept DEF PutsPortAndRests
<1>10. ASSUME NEW t \in Thread, DeleteQueue(t) PROVE OnList' /\ Unlisting'
  BY <1>10, DeleteQueueMoves, ListKept
<1>11. ASSUME NEW t \in Thread, DropQueue(t) PROVE OnList' /\ Unlisting'
  BY <1>11, DropQueueMoves, ListKept DEF QueuePuts
<1>12. ASSUME NEW t \in Thread, PutQueue(t) PROVE OnList' /\ Unlisting'
  BY <1>12, PutQueueMoves, ListKept DEF QueuePuts
<1>13. ASSUME NEW t \in Thread, BeginAssoc(t) PROVE OnList' /\ Unlisting'
  BY <1>13, BeginAssocMoves, ListKept
<1>14. ASSUME NEW t \in Thread, ScanQueues(t) PROVE OnList' /\ Unlisting'
  BY <1>14, ScanQueuesMoves, ListKept
<1>15. ASSUME NEW t \in Thread, PutAssoc(t) PROVE OnList' /\ Unlisting'
  BY <1>15, PutAssocMoves, ListPut DEF PutsAndWalks
<1>16. ASSUME NEW t \in Thread, FreedQueuePuts(t) PROVE OnList' /\ Unlisting'
  BY <1>16, FreedQueuePutsMoves, ListPut
<1>17. ASSUME NEW t \in Thread, AssocFree(t) PROVE OnList' /\ Unlisting'
  <2>1. AssocFreed(thread[t].owed)
    BY <1>17, AssocFreeMoves DEF AssocFreed, Base, Unlisting
  <2>. QED
    BY <1>17, <2>1, AssocFreeMoves, ListFreed
<1>18. ASSUME NEW t \in Thread, FreeTgtport(t) PROVE OnList' /\ Unlisting'
  BY <1>18, FreeTgtportMoves, ListKept
<1>19. ASSUME FreeAssocs PROVE OnList' /\ Unlisting'
  BY <1>19, FreeAssocsMoves, ListKept
<1>20. ASSUME NEW t \in {Unreg, Ctrl}, PutDone(t) PROVE OnList' /\ Unlisting'
  <2>1. t \in Thread
    BY DEF Thread
  <2>. QED
    BY <1>20, <2>1, PutDoneMoves, ListPut DEF PutsAndRests
<1>21. ASSUME Unregister PROVE OnList' /\ Unlisting'
  BY <1>21, UnregisterMoves, ListKept DEF PutsPortAndRests
<1>22. ASSUME DeleteCtrl PROVE OnList' /\ Unlisting'
  BY <1>22, DeleteCtrlMoves, ListKept
<1>23. ASSUME NEW c \in Cmd, CmdArrive(c) PROVE OnList' /\ Unlisting'
  BY <1>23, CmdArriveMoves, ListKept
<1>24. ASSUME NEW c \in Cmd, CmdEnd(c) PROVE OnList' /\ Unlisting'
  BY <1>24, CmdEndMoves, ListKept, ZenonT(60) DEF QueuePuts
<1>25. ASSUME AddPort PROVE OnList' /\ Unlisting'
  BY <1>25, AddPortMoves, ListKept
<1>26. ASSUME RemovePort PROVE OnList' /\ Unlisting'
  BY <1>26, RemovePortMoves, ListKept DEF PutsPortAndRests
<1>27. ASSUME FindCtrl PROVE OnList' /\ Unlisting'
  BY <1>27, FindCtrlMoves, ListKept
<1>28. ASSUME CtrlPut PROVE OnList' /\ Unlisting'
  BY <1>28, CtrlPutMoves, ListKept DEF PutsPortAndRests
<1>. QED
  BY <1>1, <1>2, <1>3, <1>4, <1>5, <1>6, <1>7, <1>8, <1>9, <1>10, <1>11, <1>12, <1>13, <1>14,
     <1>15, <1>16, <1>17, <1>18, <1>19, <1>20, <1>21, <1>22, <1>23, <1>24, <1>25, <1>26, <1>27, <1>28
  DEF Next, LsRequest, Deletion, Freeing

LEMMA InitBase == Init => Base
<1>. SUFFICES ASSUME Init PROVE Base
  OBVIOUS
<1>1. /\ \A t \in Thread : thread[t] = Resting("idle")
      /\ \A a \in Assoc : assoc[a] = [st |-> "none", ref |-> 0]
      /\ \A q \in Queue : queue[q].st = "none" /\ queue[q].ref = 0 /\ queue[q].assoc = None
      /\ assoc_list = <<>> /\ deleted = {}
  BY DEF Init
<1>2. Blank(Resting("idle")) /\ Resting("idle").pc = "idle" /\ Resting("idle").next = None
      /\ Resting("idle").duty = "none"
  BY RestingIs DEF Pcs
<1>3. NoRequest.kind = "none"
  BY DEF NoRequest
<1>4. Places
  BY <1>1, <1>2, <1>3 DEF Places, PlaceOK, Blank, IodPcs, UnregPcs, CtrlPcs, DeletePcs
<1>5. Known
  BY <1>1, <1>2 DEF Known, KnownThreads, KnownAssoc, KnownQueues, KnownDeleted, Blank
<1>6. Alive
  BY <1>1 DEF Alive
<1>7. OnList /\ Unlisting
  BY <1>1, <1>2 DEF OnList, Listed, Unlisting
<1>. QED
  BY <1>4, <1>5, <1>6, <1>7, InitInv, InitTable DEF Base

LEMMA StepBase == Base /\ [Next]_vars => Base'
<1>. SUFFICES ASSUME Base, [Next]_vars PROVE Base'
  OBVIOUS
<1>1. Inv' /\ TableInv'
  BY StepInv, StepTable DEF Base
<1>2. CASE Next
  <2>1. Places'
    BY <1>2, PlacesStep DEF Base
  <2>. QED
    BY <1>1, <1>2, <2>1, KnownStep, ListStep DEF Base
<1>3. CASE UNCHANGED vars
  <2>1. Places'
    BY <1>3 DEF vars, Base, Places
  <2>2. Known' /\ Alive'
    BY <1>3 DEF vars, Base, Known, KnownThreads, KnownAssoc, KnownQueues, KnownDeleted, Alive
  <2>3. OnList' /\ Unlisting'
    BY <1>3 DEF vars, Base, OnList, Listed, Unlisting
  <2>. QED
    BY <1>1, <2>1, <2>2, <2>3 DEF Base
<1>. QED
  BY <1>2, <1>3

\* Each thread is at a place its request leads to, what it names was once allocated,
\* an object is live as long as it has references, the list holds what is not yet
\* freed, and what has no references is freed by one thread.
THEOREM BaseCorrect == Spec => []Base
<1>. QED
  BY InitBase, StepBase, PTL DEF Spec

-----------------------------------------------------------------------------
(* The deletion of an object is one thread's.                              *)

\* A deletion begins, or none does.
Begins(t) ==
    /\ \A a \in Assoc : Ending(thread'[t], a) =>
        Ending(thread[t], a) \/ ("twice" \notin races' => a \notin deleted /\ a \in deleted')
    /\ \A q \in Queue : DropsQueue(thread'[t], q) =>
        DropsQueue(thread[t], q) \/ ("twice" \notin races' => q \notin deleted /\ q \in deleted')
LEMMA OneDeleterMove ==
    ASSUME OneDeleter, NEW t \in Thread, \A x \in Thread \ {t} : thread'[x] = thread[x],
           races \subseteq races', deleted \subseteq deleted', Begins(t)
    PROVE  OneDeleter'
<1>. SUFFICES ASSUME "twice" \notin races' PROVE OneDeleter'
  BY DEF OneDeleter
<1>1. "twice" \notin races
  OBVIOUS
<1>2. ASSUME NEW x \in Thread, NEW a \in Assoc, Ending(thread'[x], a)
      PROVE  a \in deleted' /\ \A u \in Thread : Ending(thread'[u], a) => u = x
  <2>1. CASE x # t
    BY <1>1, <1>2, <2>1 DEF OneDeleter, Begins
  <2>2. CASE x = t
    BY <1>1, <1>2, <2>2 DEF OneDeleter, Begins
  <2>. QED
    BY <2>1, <2>2
<1>3. ASSUME NEW x \in Thread, NEW q \in Queue, DropsQueue(thread'[x], q)
      PROVE  q \in deleted' /\ \A u \in Thread : DropsQueue(thread'[u], q) => u = x
  <2>1. CASE x # t
    BY <1>1, <1>3, <2>1 DEF OneDeleter, Begins
  <2>2. CASE x = t
    BY <1>1, <1>3, <2>2 DEF OneDeleter, Begins
  <2>. QED
    BY <2>1, <2>2
<1>. QED
  BY <1>2, <1>3 DEF OneDeleter

LEMMA OneDeleterStep ==
    ASSUME Base, OneDeleter, Next
    PROVE  OneDeleter'
<1>0. Inv /\ Places
  BY DEF Base
<1>. USE <1>0 DEF Walks, Rests, Same, Blank, At, Begins, Ending, DropsQueue
<1>1. ASSUME NEW i \in Iod, RcvLsReq(i) PROVE OneDeleter'
  <2>1. UNCHANGED <<races, deleted>>
    BY <1>1 DEF RcvLsReq
  <2>. QED
    BY <1>1, <2>1, RcvLsReqMoves, OneDeleterMove
<1>2. ASSUME NEW i \in Iod, AllocAssoc(i) PROVE OneDeleter'
  BY <1>2, AllocAssocMoves, OneDeleterMove
<1>3. ASSUME NEW i \in Iod, FindAssoc(i) PROVE OneDeleter'
  BY <1>3, FindAssocMoves, OneDeleterMove
<1>4. ASSUME NEW i \in Iod, AllocQueue(i) PROVE OneDeleter'
  BY <1>4, AllocQueueMoves, OneDeleterMove
<1>5. ASSUME NEW i \in Iod, Publish(i) PROVE OneDeleter'
  BY <1>5, PublishMoves, OneDeleterMove
<1>6. ASSUME NEW i \in Iod, UseQueue(i) PROVE OneDeleter'
  BY <1>6, UseQueueMoves, OneDeleterMove
<1>7. ASSUME NEW i \in Iod, FindQueue(i) PROVE OneDeleter'
  <2>1. thread[i].all = FALSE
    BY <1>7, FindQueueMoves DEF Places, PlaceOK
  <2>. QED
    BY <1>7, <2>1, FindQueueMoves, OneDeleterMove
<1>8. ASSUME NEW i \in Iod, PutFound(i) PROVE OneDeleter'
  <2>1. thread[i].all = FALSE
    BY <1>8, PutFoundMoves DEF Places, PlaceOK
  <2>. QED
    BY <1>8, <2>1, PutFoundMoves, OneDeleterMove DEF PutsAndWalks
<1>9. ASSUME NEW i \in Iod, Respond(i) PROVE OneDeleter'
  BY <1>9, RespondMoves, OneDeleterMove DEF PutsPortAndRests
<1>10. ASSUME NEW t \in Thread, DeleteQueue(t) PROVE OneDeleter'
  <2>. DEFINE q == thread[t].queue
  <2>1. /\ thread[t].pc = "delete" /\ thread'[t].pc = "drop" /\ thread'[t].all = thread[t].all
        /\ thread'[t].assoc = thread[t].assoc /\ thread'[t].queue = q
        /\ races \subseteq races' /\ deleted' = deleted \union {q}
        /\ q \in deleted => "twice" \in races'
        /\ \A x \in Thread \ {t} : thread'[x] = thread[x]
    BY <1>10, DeleteQueueMoves
  <2>2. Begins(t)
    BY <2>1
  <2>3. races \subseteq races' /\ deleted \subseteq deleted'
    BY <2>1
  <2>. QED
    BY <2>1, <2>2, <2>3, OneDeleterMove
<1>11. ASSUME NEW t \in Thread, DropQueue(t) PROVE OneDeleter'
  BY <1>11, DropQueueMoves, OneDeleterMove, ZenonT(60) DEF QueuePuts
<1>12. ASSUME NEW t \in Thread, PutQueue(t) PROVE OneDeleter'
  <2>1. /\ thread[t].pc = "put_queue" /\ thread'[t].pc \in {"scan", "put_found"}
        /\ thread'[t].all = thread[t].all /\ thread'[t].assoc = thread[t].assoc
        /\ races' = races /\ deleted' = deleted
        /\ \A x \in Thread \ {t} : thread'[x] = thread[x]
    BY <1>12, PutQueueMoves DEF QueuePuts
  <2>2. Begins(t)
    BY <2>1
  <2>. QED
    BY <2>1, <2>2, OneDeleterMove
<1>13. ASSUME NEW t \in Thread, BeginAssoc(t) PROVE OneDeleter'
  <2>. DEFINE a == thread[t].assoc
  <2>1. /\ thread'[t].pc = "scan" /\ thread'[t].assoc = a
        /\ races \subseteq races' /\ deleted' = deleted \union {a}
        /\ a \in deleted => "twice" \in races'
        /\ \A x \in Thread \ {t} : thread'[x] = thread[x]
    BY <1>13, BeginAssocMoves
  <2>2. Begins(t)
    BY <2>1
  <2>3. races \subseteq races' /\ deleted \subseteq deleted'
    BY <2>1
  <2>. QED
    BY <2>1, <2>2, <2>3, OneDeleterMove
<1>14. ASSUME NEW t \in Thread, ScanQueues(t) PROVE OneDeleter'
  BY <1>14, ScanQueuesMoves, OneDeleterMove, ZenonT(60)
<1>15. ASSUME NEW t \in Thread, PutAssoc(t) PROVE OneDeleter'
  BY <1>15, PutAssocMoves, OneDeleterMove DEF PutsAndWalks
<1>16. ASSUME NEW t \in Thread, FreedQueuePuts(t) PROVE OneDeleter'
  <2>1. /\ thread'[t].pc = thread[t].pc /\ thread'[t].all = thread[t].all
        /\ thread'[t].assoc = thread[t].assoc /\ thread'[t].queue = thread[t].queue
        /\ races \subseteq races' /\ deleted' = deleted
        /\ \A x \in Thread \ {t} : thread'[x] = thread[x]
    BY <1>16, FreedQueuePutsMoves
  <2>2. Begins(t)
    BY <2>1
  <2>. QED
    BY <2>1, <2>2, OneDeleterMove
<1>17. ASSUME NEW t \in Thread, AssocFree(t) PROVE OneDeleter'
  <2>1. /\ thread'[t].pc = thread[t].pc /\ thread'[t].all = thread[t].all
        /\ thread'[t].assoc = thread[t].assoc /\ thread'[t].queue = thread[t].queue
        /\ races \subseteq races' /\ deleted' = deleted
        /\ \A x \in Thread \ {t} : thread'[x] = thread[x]
    BY <1>17, AssocFreeMoves
  <2>2. Begins(t)
    BY <2>1
  <2>. QED
    BY <2>1, <2>2, OneDeleterMove
<1>18. ASSUME NEW t \in Thread, FreeTgtport(t) PROVE OneDeleter'
  <2>1. /\ thread'[t].pc = thread[t].pc /\ thread'[t].all = thread[t].all
        /\ thread'[t].assoc = thread[t].assoc /\ thread'[t].queue = thread[t].queue
        /\ races \subseteq races' /\ deleted' = deleted
        /\ \A x \in Thread \ {t} : thread'[x] = thread[x]
    BY <1>18, FreeTgtportMoves
  <2>2. Begins(t)
    BY <2>1
  <2>. QED
    BY <2>1, <2>2, OneDeleterMove
<1>19. ASSUME FreeAssocs PROVE OneDeleter'
  BY <1>19, FreeAssocsMoves, OneDeleterMove
<1>20. ASSUME NEW t \in {Unreg, Ctrl}, PutDone(t) PROVE OneDeleter'
  BY <1>20, PutDoneMoves, OneDeleterMove DEF PutsAndRests
<1>21. ASSUME Unregister PROVE OneDeleter'
  BY <1>21, UnregisterMoves, OneDeleterMove DEF PutsPortAndRests
<1>22. ASSUME DeleteCtrl PROVE OneDeleter'
  BY <1>22, DeleteCtrlMoves, OneDeleterMove
<1>23. ASSUME NEW c \in Cmd, CmdArrive(c) PROVE OneDeleter'
  BY <1>23, CmdArriveMoves, OneDeleterMove
<1>24. ASSUME NEW c \in Cmd, CmdEnd(c) PROVE OneDeleter'
  BY <1>24, CmdEndMoves, OneDeleterMove DEF QueuePuts
<1>25. ASSUME AddPort PROVE OneDeleter'
  BY <1>25, AddPortMoves, OneDeleterMove
<1>26. ASSUME RemovePort PROVE OneDeleter'
  BY <1>26, RemovePortMoves, OneDeleterMove DEF PutsPortAndRests
<1>27. ASSUME FindCtrl PROVE OneDeleter'
  BY <1>27, FindCtrlMoves, OneDeleterMove
<1>28. ASSUME CtrlPut PROVE OneDeleter'
  BY <1>28, CtrlPutMoves, OneDeleterMove DEF PutsPortAndRests
<1>. QED
  BY <1>1, <1>2, <1>3, <1>4, <1>5, <1>6, <1>7, <1>8, <1>9, <1>10, <1>11, <1>12, <1>13, <1>14,
     <1>15, <1>16, <1>17, <1>18, <1>19, <1>20, <1>21, <1>22, <1>23, <1>24, <1>25, <1>26, <1>27, <1>28
  DEF Next, LsRequest, Deletion, Freeing

-----------------------------------------------------------------------------
(* Who holds an association.                                               *)

LEMMA OneMoves ==
    ASSUME NEW U, IsFiniteSet(U), NEW t \in U, NEW S \in SUBSET U, NEW T \in SUBSET U,
           \A x \in U \ {t} : x \in S <=> x \in T
    PROVE  /\ Cardinality(S) \in Nat /\ Cardinality(T) \in Nat
           /\ Cardinality(T) + One(t \in S) = Cardinality(S) + One(t \in T)
<1>1. IsFiniteSet(S) /\ IsFiniteSet(T)
  BY FS_Subset
<1>2. Cardinality(S) \in Nat /\ Cardinality(T) \in Nat
  BY <1>1, FS_CardinalityType
<1>3. CASE t \in S <=> t \in T
  <2>1. \A x \in U : x \in S <=> x \in T
    BY <1>3
  <2>3. S = T
    BY <2>1
  <2>. QED
    BY <1>2, <1>3, <2>3 DEF One
<1>4. CASE t \in S /\ t \notin T
  <2>1. T = S \ {t}
    BY <1>4
  <2>2. Cardinality(T) = Cardinality(S) - 1
    BY <1>1, <1>4, <2>1, FS_RemoveElement
  <2>. QED
    BY <1>2, <1>4, <2>2 DEF One
<1>5. CASE t \notin S /\ t \in T
  <2>1. S = T \ {t}
    BY <1>5
  <2>2. Cardinality(S) = Cardinality(T) - 1
    BY <1>1, <1>5, <2>1, FS_RemoveElement
  <2>. QED
    BY <1>2, <1>5, <2>2 DEF One
<1>. QED
  BY <1>3, <1>4, <1>5

LEMMA HoldersMove ==
    ASSUME NEW a, NEW t \in Thread, \A x \in Thread \ {t} : thread'[x] = thread[x]
    PROVE  /\ Cardinality(Find(a)) \in Nat /\ Cardinality(Find(a)') \in Nat
           /\ Cardinality(Find(a)') + One(Finder(t, thread[t], a))
              = Cardinality(Find(a)) + One(Finder(t, thread'[t], a))
           /\ Cardinality(Owe(a)) \in Nat /\ Cardinality(Owe(a)') \in Nat
           /\ Cardinality(Owe(a)') + One(Owes(thread[t], a))
              = Cardinality(Owe(a)) + One(Owes(thread'[t], a))
           /\ Cardinality(End(a)) \in Nat /\ Cardinality(End(a)') \in Nat
           /\ Cardinality(End(a)') + One(Ending(thread[t], a))
              = Cardinality(End(a)) + One(Ending(thread'[t], a))
<1>1. IsFiniteSet(Thread)
  OBVIOUS
<1>2. /\ Find(a)' = {x \in Thread : Finder(x, thread'[x], a)}
      /\ Owe(a)' = {x \in Thread : Owes(thread'[x], a)}
      /\ End(a)' = {x \in Thread : Ending(thread'[x], a)}
  BY DEF Find, Owe, End, Finder, Owes, Ending
<1>3. /\ Cardinality(Find(a)) \in Nat /\ Cardinality(Find(a)') \in Nat
      /\ Cardinality(Find(a)') + One(Finder(t, thread[t], a))
         = Cardinality(Find(a)) + One(Finder(t, thread'[t], a))
  <2>1. Find(a) \in SUBSET Thread /\ Find(a)' \in SUBSET Thread
        /\ (t \in Find(a) <=> Finder(t, thread[t], a)) /\ (t \in Find(a)' <=> Finder(t, thread'[t], a))
        /\ \A x \in Thread \ {t} : x \in Find(a) <=> x \in Find(a)'
    BY <1>2 DEF Find
  <2>2. /\ Cardinality(Find(a)) \in Nat /\ Cardinality(Find(a)') \in Nat
        /\ Cardinality(Find(a)') + One(t \in Find(a)) = Cardinality(Find(a)) + One(t \in Find(a)')
    BY <1>1, <2>1, OneMoves
  <2>3. /\ One(t \in Find(a)) = One(Finder(t, thread[t], a))
        /\ One(t \in Find(a)') = One(Finder(t, thread'[t], a))
    BY <2>1 DEF One
  <2>. QED
    BY <2>2, <2>3
<1>4. /\ Cardinality(Owe(a)) \in Nat /\ Cardinality(Owe(a)') \in Nat
      /\ Cardinality(Owe(a)') + One(Owes(thread[t], a)) = Cardinality(Owe(a)) + One(Owes(thread'[t], a))
  <2>1. Owe(a) \in SUBSET Thread /\ Owe(a)' \in SUBSET Thread
        /\ (t \in Owe(a) <=> Owes(thread[t], a)) /\ (t \in Owe(a)' <=> Owes(thread'[t], a))
        /\ \A x \in Thread \ {t} : x \in Owe(a) <=> x \in Owe(a)'
    BY <1>2 DEF Owe
  <2>2. /\ Cardinality(Owe(a)) \in Nat /\ Cardinality(Owe(a)') \in Nat
        /\ Cardinality(Owe(a)') + One(t \in Owe(a)) = Cardinality(Owe(a)) + One(t \in Owe(a)')
    BY <1>1, <2>1, OneMoves
  <2>3. /\ One(t \in Owe(a)) = One(Owes(thread[t], a))
        /\ One(t \in Owe(a)') = One(Owes(thread'[t], a))
    BY <2>1 DEF One
  <2>. QED
    BY <2>2, <2>3
<1>5. /\ Cardinality(End(a)) \in Nat /\ Cardinality(End(a)') \in Nat
      /\ Cardinality(End(a)') + One(Ending(thread[t], a))
         = Cardinality(End(a)) + One(Ending(thread'[t], a))
  <2>1. End(a) \in SUBSET Thread /\ End(a)' \in SUBSET Thread
        /\ (t \in End(a) <=> Ending(thread[t], a)) /\ (t \in End(a)' <=> Ending(thread'[t], a))
        /\ \A x \in Thread \ {t} : x \in End(a) <=> x \in End(a)'
    BY <1>2 DEF End
  <2>2. /\ Cardinality(End(a)) \in Nat /\ Cardinality(End(a)') \in Nat
        /\ Cardinality(End(a)') + One(t \in End(a)) = Cardinality(End(a)) + One(t \in End(a)')
    BY <1>1, <2>1, OneMoves
  <2>3. /\ One(t \in End(a)) = One(Ending(thread[t], a))
        /\ One(t \in End(a)') = One(Ending(thread'[t], a))
    BY <2>1 DEF One
  <2>. QED
    BY <2>2, <2>3
<1>. QED
  BY <1>3, <1>4, <1>5

LEMMA CountedMove ==
    ASSUME AssocCounted, NEW t \in Thread, \A x \in Thread \ {t} : thread'[x] = thread[x],
           races \subseteq races',
           races' \intersect {"twice", "dying"} = {} => \A a \in Assoc :
             /\ Grown(a) \in Nat /\ Grown(a)' \in Nat
             /\ Cardinality(Live(a)) \in Nat /\ Cardinality(Live(a)') \in Nat
             /\ Grown(a)' + Weight(t, thread[t], a) + Cardinality(Live(a)) + One(a \notin deleted)
                = Grown(a) + Weight(t, thread'[t], a) + Cardinality(Live(a)') + One(a \notin deleted')
    PROVE  AssocCounted'
<1>. SUFFICES ASSUME races' \intersect {"twice", "dying"} = {}, NEW a \in Assoc
              PROVE  Grown(a)' = Cardinality(Find(a)') + Cardinality(Owe(a)') + Cardinality(End(a)')
                                 + Cardinality(Live(a)') + One(a \notin deleted')
  BY DEF AssocCounted
<1>1. races \intersect {"twice", "dying"} = {}
  OBVIOUS
<1>2. /\ Cardinality(Find(a)) \in Nat /\ Cardinality(Find(a)') \in Nat
      /\ Cardinality(Find(a)') + One(Finder(t, thread[t], a))
         = Cardinality(Find(a)) + One(Finder(t, thread'[t], a))
      /\ Cardinality(Owe(a)) \in Nat /\ Cardinality(Owe(a)') \in Nat
      /\ Cardinality(Owe(a)') + One(Owes(thread[t], a)) = Cardinality(Owe(a)) + One(Owes(thread'[t], a))
      /\ Cardinality(End(a)) \in Nat /\ Cardinality(End(a)') \in Nat
      /\ Cardinality(End(a)') + One(Ending(thread[t], a))
         = Cardinality(End(a)) + One(Ending(thread'[t], a))
  BY HoldersMove
<1>3. Grown(a) = Cardinality(Find(a)) + Cardinality(Owe(a)) + Cardinality(End(a))
                 + Cardinality(Live(a)) + One(a \notin deleted)
  BY <1>1 DEF AssocCounted
<1>4. /\ One(a \notin deleted) \in Nat /\ One(a \notin deleted') \in Nat
      /\ One(Finder(t, thread[t], a)) \in Nat /\ One(Finder(t, thread'[t], a)) \in Nat
      /\ One(Owes(thread[t], a)) \in Nat /\ One(Owes(thread'[t], a)) \in Nat
      /\ One(Ending(thread[t], a)) \in Nat /\ One(Ending(thread'[t], a)) \in Nat
  BY DEF One
<1>5. /\ Weight(t, thread[t], a) = One(Finder(t, thread[t], a)) + One(Owes(thread[t], a))
                                   + One(Ending(thread[t], a))
      /\ Weight(t, thread'[t], a) = One(Finder(t, thread'[t], a)) + One(Owes(thread'[t], a))
                                    + One(Ending(thread'[t], a))
  BY DEF Weight
<1>. HIDE DEF Find, Owe, End, Live, Grown, One, Weight, Finder, Owes, Ending
<1>6. /\ Grown(a) \in Nat /\ Grown(a)' \in Nat
       /\ Cardinality(Live(a)) \in Nat /\ Cardinality(Live(a)') \in Nat
       /\ Grown(a)' + Weight(t, thread[t], a) + Cardinality(Live(a)) + One(a \notin deleted)
          = Grown(a) + Weight(t, thread'[t], a) + Cardinality(Live(a)') + One(a \notin deleted')
  OBVIOUS
<1>7. PICK g, h, l, m, f, f2, o, o2, e, e2, d, d2, w1, w2, w3, v1, v2, v3 \in Nat :
        /\ g = Grown(a) /\ h = Grown(a)' /\ l = Cardinality(Live(a)) /\ m = Cardinality(Live(a)')
        /\ f = Cardinality(Find(a)) /\ f2 = Cardinality(Find(a)')
        /\ o = Cardinality(Owe(a)) /\ o2 = Cardinality(Owe(a)')
        /\ e = Cardinality(End(a)) /\ e2 = Cardinality(End(a)')
        /\ d = One(a \notin deleted) /\ d2 = One(a \notin deleted')
        /\ w1 = One(Finder(t, thread[t], a)) /\ v1 = One(Finder(t, thread'[t], a))
        /\ w2 = One(Owes(thread[t], a)) /\ v2 = One(Owes(thread'[t], a))
        /\ w3 = One(Ending(thread[t], a)) /\ v3 = One(Ending(thread'[t], a))
  BY <1>2, <1>4, <1>6
<1>8. /\ f2 + w1 = f + v1 /\ o2 + w2 = o + v2 /\ e2 + w3 = e + v3
       /\ g = f + o + e + l + d
       /\ h + (w1 + w2 + w3) + l + d = g + (v1 + v2 + v3) + m + d2
  BY <1>2, <1>3, <1>5, <1>6, <1>7
<1>9. h = f2 + o2 + e2 + m + d2
  BY <1>8
<1>. QED
  BY <1>7, <1>9

\* What happens to the queues of an association ...
LEMMA LiveSize ==
    ASSUME NEW a
    PROVE  /\ Cardinality(Live(a)) \in Nat
           /\ \A q \in Queue : q \in Live(a) <=> queue[q].st = "live" /\ queue[q].assoc = a
<1>1. Live(a) \in SUBSET Queue /\ IsFiniteSet(Queue)
  BY DEF Live
<1>. QED
  BY <1>1, FS_Subset, FS_CardinalityType DEF Live
LEMMA LiveNext ==
    ASSUME NEW a
    PROVE  /\ Live(a)' = {q \in Queue : queue'[q].st = "live" /\ queue'[q].assoc = a}
           /\ Cardinality(Live(a)') \in Nat
<1>1. Live(a)' = {q \in Queue : queue'[q].st = "live" /\ queue'[q].assoc = a}
  BY DEF Live
<1>2. Live(a)' \in SUBSET Queue /\ IsFiniteSet(Queue)
  BY <1>1
<1>. QED
  BY <1>1, <1>2, FS_Subset, FS_CardinalityType

LivesKept == \A x \in Assoc : Cardinality(Live(x)') = Cardinality(Live(x))
LivesMore(a) == \A x \in Assoc : Cardinality(Live(x)') = Cardinality(Live(x)) + One(x = a)
LivesLess(a) == \A x \in Assoc : Cardinality(Live(x)') + One(x = a) = Cardinality(Live(x))

LEMMA LivesKeptIs ==
    ASSUME Base, \/ UNCHANGED queue \/ SameRefs \/ \E q \in Queue : QueueTaken(q)
                 \/ \E q \in Queue : QueueGiven(q) /\ queue[q].ref # 1
    PROVE  LivesKept
<1>1. \A q \in Queue : queue'[q].st = queue[q].st /\ queue'[q].assoc = queue[q].assoc
  BY DEF SameRefs, QueueTaken, QueueGiven, OnlyQueue
<1>2. \A x \in Assoc : Live(x)' = Live(x)
  BY <1>1, LiveNext DEF Live
<1>. QED
  BY <1>2 DEF LivesKept

LEMMA LivesMoreIs ==
    ASSUME Base, NEW q \in Queue, NEW a \in Assoc, NEW k, QueueMade(q, a, k)
    PROVE  LivesMore(a)
<1>. SUFFICES ASSUME NEW x \in Assoc
              PROVE  Cardinality(Live(x)') = Cardinality(Live(x)) + One(x = a)
  BY DEF LivesMore
<1>1. Live(x)' \in SUBSET Queue /\ Live(x) \in SUBSET Queue
      /\ (q \in Live(x)' <=> x = a) /\ q \notin Live(x)
      /\ \A y \in Queue \ {q} : y \in Live(x) <=> y \in Live(x)'
  BY LiveNext DEF QueueMade, OnlyQueue, Live
<1>2. Cardinality(Live(x)') + One(q \in Live(x)) = Cardinality(Live(x)) + One(q \in Live(x)')
      /\ Cardinality(Live(x)') \in Nat /\ Cardinality(Live(x)) \in Nat
  <2>. HIDE DEF Live
  <2>. QED
    BY <1>1, OneMoves
<1>3. One(q \in Live(x)) = 0 /\ One(q \in Live(x)') = One(x = a)
  BY <1>1 DEF One
<1>4. One(x = a) \in Nat
  BY DEF One
<1>. QED
  BY <1>2, <1>3, <1>4

LEMMA LivesLessIs ==
    ASSUME Base, NEW q \in Queue, QueueGiven(q), queue[q].ref = 1
    PROVE  LivesLess(queue[q].assoc)
<1>. SUFFICES ASSUME NEW x \in Assoc
              PROVE  Cardinality(Live(x)') + One(x = queue[q].assoc) = Cardinality(Live(x))
  BY DEF LivesLess
<1>0. queue[q].st = "live" /\ queue'[q].st = "freed"
  BY DEF Base, Alive, QueueGiven
<1>1. Live(x)' \in SUBSET Queue /\ Live(x) \in SUBSET Queue
      /\ (q \in Live(x) <=> x = queue[q].assoc) /\ q \notin Live(x)'
      /\ \A y \in Queue \ {q} : y \in Live(x) <=> y \in Live(x)'
  BY <1>0, LiveNext DEF QueueGiven, OnlyQueue, Live
<1>2. Cardinality(Live(x)') + One(q \in Live(x)) = Cardinality(Live(x)) + One(q \in Live(x)')
      /\ Cardinality(Live(x)') \in Nat /\ Cardinality(Live(x)) \in Nat
  <2>. HIDE DEF Live
  <2>. QED
    BY <1>1, OneMoves
<1>3. One(q \in Live(x)') = 0 /\ One(q \in Live(x)) = One(x = queue[q].assoc)
  BY <1>1 DEF One
<1>4. One(x = queue[q].assoc) \in Nat
  BY DEF One
<1>. QED
  BY <1>2, <1>3, <1>4

\* ... to the count of an association ...
GrownKept == \A x \in Assoc : Grown(x)' = Grown(x)
GrownMore(a) == \A x \in Assoc : Grown(x)' = Grown(x) + One(x = a)
GrownLess(a) == \A x \in Assoc : Grown(x)' + One(x = a) = Grown(x)
LEMMA GrownNat ==
    ASSUME Base, Base'
    PROVE  \A a \in Assoc : Grown(a) \in Nat /\ Grown(a)' \in Nat
<1>1. \A a \in Assoc : assoc[a].ref \in Nat
  BY Fields DEF Base
<1>2. \A a \in Assoc : assoc'[a].ref \in Nat
  BY DEF Base, Inv, TypeOK
<1>. QED
  BY <1>1, <1>2 DEF Grown, One

LEMMA GrownKeptIs ==
    ASSUME Base, UNCHANGED assoc \/ \E a \in Assoc : AssocMade(a) \/ AssocFreed(a)
    PROVE  GrownKept
<1>1. CASE UNCHANGED assoc
  BY <1>1 DEF GrownKept, Grown
<1>2. ASSUME NEW a \in Assoc, AssocMade(a) PROVE GrownKept
  BY <1>2 DEF GrownKept, Grown, AssocMade, OnlyAssoc, One
<1>3. ASSUME NEW a \in Assoc, AssocFreed(a) PROVE GrownKept
  BY <1>3 DEF GrownKept, Grown, AssocFreed, OnlyAssoc, One
<1>. QED
  BY <1>1, <1>2, <1>3

LEMMA GrownMoreIs ==
    ASSUME Base, NEW a \in Assoc, AssocTaken(a)
    PROVE  GrownMore(a)
<1>. SUFFICES ASSUME NEW x \in Assoc PROVE Grown(x)' = Grown(x) + One(x = a)
  BY DEF GrownMore
<1>1. assoc[x].ref \in Nat
  BY Fields DEF Base
<1>2. assoc'[x].st = assoc[x].st
  BY DEF AssocTaken, OnlyAssoc
<1>3. assoc'[x].ref = assoc[x].ref + One(x = a)
  BY <1>1 DEF AssocTaken, OnlyAssoc, One
<1>4. Grown(x) = assoc[x].ref + One(assoc[x].st = "none")
      /\ Grown(x)' = assoc'[x].ref + One(assoc[x].st = "none")
  BY <1>2 DEF Grown, One
<1>5. One(x = a) \in Nat /\ One(assoc[x].st = "none") \in Nat
  BY DEF One
<1>. QED
  BY <1>1, <1>3, <1>4, <1>5

LEMMA GrownLessIs ==
    ASSUME Base, NEW a \in Assoc, AssocGiven(a)
    PROVE  GrownLess(a)
<1>. SUFFICES ASSUME NEW x \in Assoc PROVE Grown(x)' + One(x = a) = Grown(x)
  BY DEF GrownLess
<1>1. assoc[x].ref \in Nat
  BY Fields DEF Base
<1>2. assoc'[x].st = "none" <=> assoc[x].st = "none"
  BY DEF AssocGiven, OnlyAssoc, Base, Alive
<1>3. assoc'[x].ref + One(x = a) = assoc[x].ref
  BY <1>1 DEF AssocGiven, OnlyAssoc, One
<1>4. Grown(x) = assoc[x].ref + One(assoc[x].st = "none")
      /\ Grown(x)' = assoc'[x].ref + One(assoc[x].st = "none")
  BY <1>2 DEF Grown, One
<1>5. One(x = a) \in Nat /\ One(assoc[x].st = "none") \in Nat
  BY DEF One
<1>6. assoc'[x].ref \in Int
  BY <1>1 DEF AssocGiven, OnlyAssoc
<1>. QED
  BY <1>1, <1>3, <1>4, <1>5, <1>6

\* ... and to what its thread holds: these kinds of steps there are.
WeightKept(t) == \A x \in Assoc : Weight(t, thread'[t], x) = Weight(t, thread[t], x)
WeightMore(t, a) == \A x \in Assoc : Weight(t, thread'[t], x) = Weight(t, thread[t], x) + One(x = a)
WeightLess(t, a) == \A x \in Assoc : Weight(t, thread'[t], x) + One(x = a) = Weight(t, thread[t], x)
SameDeleted == \A x \in Assoc : x \in deleted' <=> x \in deleted

Kind(t) ==
    \/ GrownKept /\ LivesKept /\ SameDeleted /\ WeightKept(t)
    \/ \E a \in Assoc : GrownMore(a) /\ LivesKept /\ SameDeleted /\ WeightMore(t, a)
    \/ \E a \in Assoc : GrownMore(a) /\ LivesMore(a) /\ SameDeleted /\ WeightKept(t)
    \/ \E a \in Assoc : GrownLess(a) /\ LivesKept /\ SameDeleted /\ WeightLess(t, a)
    \/ \E a \in Assoc : GrownKept /\ LivesLess(a) /\ SameDeleted /\ WeightMore(t, a)
    \/ \E a \in Assoc : /\ GrownKept /\ LivesKept /\ WeightMore(t, a)
                        /\ a \notin deleted /\ deleted' = deleted \union {a}
LEMMA CountedKinds ==
    ASSUME Base, Base', AssocCounted, NEW t \in Thread, \A x \in Thread \ {t} : thread'[x] = thread[x],
           races \subseteq races', races' \intersect {"twice", "dying"} = {} => Kind(t)
    PROVE  AssocCounted'
<1>1. ASSUME races' \intersect {"twice", "dying"} = {}, NEW x \in Assoc
      PROVE  Grown(x)' + Weight(t, thread[t], x) + Cardinality(Live(x)) + One(x \notin deleted)
             = Grown(x) + Weight(t, thread'[t], x) + Cardinality(Live(x)') + One(x \notin deleted')
  <2>1. PICK g, h, l, m, w, v, d, c \in Nat :
           /\ g = Grown(x) /\ h = Grown(x)' /\ l = Cardinality(Live(x)) /\ m = Cardinality(Live(x)')
           /\ w = Weight(t, thread[t], x) /\ v = Weight(t, thread'[t], x)
           /\ d = One(x \notin deleted) /\ c = One(x \notin deleted')
    <3>1. Weight(t, thread[t], x) \in Nat /\ Weight(t, thread'[t], x) \in Nat
          /\ One(x \notin deleted) \in Nat /\ One(x \notin deleted') \in Nat
      BY DEF Weight, One
    <3>2. Cardinality(Live(x)) \in Nat /\ Cardinality(Live(x)') \in Nat
      BY LiveSize, LiveNext
    <3>3. Grown(x) \in Nat /\ Grown(x)' \in Nat
      BY GrownNat
    <3>. QED
      BY <3>1, <3>2, <3>3
  <2>2. SameDeleted => c = d
    BY <2>1 DEF SameDeleted, One
  <2>3. ASSUME NEW a \in Assoc PROVE One(x = a) \in Nat
    BY DEF One
  <2>4. CASE GrownKept /\ LivesKept /\ SameDeleted /\ WeightKept(t)
    <3>1. h = g /\ m = l /\ c = d /\ v = w
      BY <2>1, <2>2, <2>4 DEF GrownKept, LivesKept, WeightKept
    <3>. QED
      BY <2>1, <3>1
  <2>5. ASSUME NEW a \in Assoc, GrownMore(a), LivesKept, SameDeleted, WeightMore(t, a)
        PROVE  h + w + l + d = g + v + m + c
    <3>1. h = g + One(x = a) /\ m = l /\ c = d /\ v = w + One(x = a)
      BY <2>1, <2>2, <2>5 DEF GrownMore, LivesKept, WeightMore
    <3>. QED
      BY <2>3, <3>1
  <2>6. ASSUME NEW a \in Assoc, GrownMore(a), LivesMore(a), SameDeleted, WeightKept(t)
        PROVE  h + w + l + d = g + v + m + c
    <3>1. h = g + One(x = a) /\ m = l + One(x = a) /\ c = d /\ v = w
      BY <2>1, <2>2, <2>6 DEF GrownMore, LivesMore, WeightKept
    <3>. QED
      BY <2>3, <3>1
  <2>7. ASSUME NEW a \in Assoc, GrownLess(a), LivesKept, SameDeleted, WeightLess(t, a)
        PROVE  h + w + l + d = g + v + m + c
    <3>1. h + One(x = a) = g /\ m = l /\ c = d /\ v + One(x = a) = w
      BY <2>1, <2>2, <2>7 DEF GrownLess, LivesKept, WeightLess
    <3>. QED
      BY <2>3, <3>1
  <2>8. ASSUME NEW a \in Assoc, GrownKept, LivesLess(a), SameDeleted, WeightMore(t, a)
        PROVE  h + w + l + d = g + v + m + c
    <3>1. h = g /\ m + One(x = a) = l /\ c = d /\ v = w + One(x = a)
      BY <2>1, <2>2, <2>8 DEF GrownKept, LivesLess, WeightMore
    <3>. QED
      BY <2>3, <3>1
  <2>9. ASSUME NEW a \in Assoc, GrownKept, LivesKept, WeightMore(t, a),
               a \notin deleted, deleted' = deleted \union {a}
        PROVE  h + w + l + d = g + v + m + c
    <3>1. h = g /\ m = l /\ v = w + One(x = a)
      BY <2>1, <2>9 DEF GrownKept, LivesKept, WeightMore
    <3>2. c + One(x = a) = d
      BY <2>1, <2>9 DEF One
    <3>. QED
      BY <2>3, <3>1, <3>2
  <2>10. h + w + l + d = g + v + m + c
    <3>1. CASE GrownKept /\ LivesKept /\ SameDeleted /\ WeightKept(t)
      BY <2>1, <2>4, <3>1
    <3>. QED
      BY <1>1, <2>5, <2>6, <2>7, <2>8, <2>9, <3>1 DEF Kind
  <2>. QED
    BY <2>1, <2>10
<1>2. \A x \in Assoc : Cardinality(Live(x)) \in Nat /\ Cardinality(Live(x)') \in Nat
  BY LiveSize, LiveNext
<1>. QED
  BY <1>1, <1>2, GrownNat, CountedMove

\* What a thread holds depends on these alone.
HoldsSame(t) ==
    /\ thread'[t].assoc = thread[t].assoc /\ thread'[t].all = thread[t].all
    /\ thread'[t].pc = thread[t].pc /\ thread'[t].rqst = thread[t].rqst
LEMMA HoldsSameIs ==
    ASSUME NEW t, HoldsSame(t), NEW x
    PROVE  /\ Finder(t, thread'[t], x) <=> Finder(t, thread[t], x)
           /\ Ending(thread'[t], x) <=> Ending(thread[t], x)
  BY DEF HoldsSame, Finder, Ending
\* Nothing is held.
Free(t, me) == \A x \in Assoc : ~Finder(t, me, x) /\ ~Owes(me, x) /\ ~Ending(me, x)
LEMMA FreeIs ==
    ASSUME NEW t
    PROVE  /\ Free(t, thread[t]) /\ Free(t, thread'[t]) => WeightKept(t)
           /\ \A a : /\ Free(t, thread[t]) /\ \A x \in Assoc : /\ ~Owes(thread'[t], x)
                        /\ ~Ending(thread'[t], x) /\ (Finder(t, thread'[t], x) <=> x = a)
                     => WeightMore(t, a)
           /\ \A a : /\ Free(t, thread'[t]) /\ \A x \in Assoc : /\ ~Owes(thread[t], x)
                        /\ ~Ending(thread[t], x) /\ (Finder(t, thread[t], x) <=> x = a)
                     => WeightLess(t, a)
  BY DEF Free, Weight, WeightKept, WeightMore, WeightLess, One
LEMMA WeightKeptIs ==
    ASSUME NEW t, \A x \in Assoc : /\ Finder(t, thread'[t], x) <=> Finder(t, thread[t], x)
                                   /\ Owes(thread'[t], x) <=> Owes(thread[t], x)
                                   /\ Ending(thread'[t], x) <=> Ending(thread[t], x)
    PROVE  WeightKept(t)
  BY DEF WeightKept, Weight, One

\* A thread that puts a queue keeps what it has found, and may have to put an
\* association for it.
LEMMA QueuePutsKind ==
    ASSUME Base, Base', AssocCounted, NEW t \in Thread, NEW pc, QueuePuts(t, pc), thread[t].duty = "none",
           UNCHANGED <<assoc, deleted, races>>,
           \A x \in Assoc : /\ Finder(t, thread'[t], x) <=> Finder(t, thread[t], x)
                            /\ Ending(thread'[t], x) <=> Ending(thread[t], x)
    PROVE  AssocCounted'
<1>. DEFINE q == thread[t].queue
<1>1. q \in Queue /\ QueueGiven(q) /\ queue[q].assoc \in Assoc
      /\ \A x \in Thread \ {t} : thread'[x] = thread[x]
  BY DEF QueuePuts
<1>2. GrownKept /\ SameDeleted
  BY GrownKeptIs DEF SameDeleted
<1>3. \A x : ~Owes(thread[t], x)
  BY DEF Owes
<1>4. CASE queue[q].ref = 1
  <2>1. \A x : Owes(thread'[t], x) <=> x = queue[q].assoc
    BY <1>4 DEF QueuePuts, Owes
  <2>2. WeightMore(t, queue[q].assoc)
    BY <1>3, <2>1 DEF WeightMore, Weight, One
  <2>3. LivesLess(queue[q].assoc)
    BY <1>1, <1>4, LivesLessIs
  <2>4. Kind(t)
    BY <1>1, <1>2, <2>2, <2>3 DEF Kind
  <2>. QED
    BY <1>1, <2>4, CountedKinds
<1>5. CASE queue[q].ref # 1
  <2>1. \A x : ~Owes(thread'[t], x)
    BY <1>5 DEF QueuePuts, Owes
  <2>2. WeightKept(t)
    BY <1>3, <2>1, WeightKeptIs
  <2>3. LivesKept
    BY <1>1, <1>5, LivesKeptIs
  <2>4. Kind(t)
    BY <1>1, <1>2, <2>2, <2>3 DEF Kind
  <2>. QED
    BY <1>1, <2>4, CountedKinds
<1>. QED
  BY <1>4, <1>5

\* The other kinds of steps.
LEMMA KeepsKind ==
    ASSUME Base, Base', AssocCounted, NEW t \in Thread, \A x \in Thread \ {t} : thread'[x] = thread[x],
           races \subseteq races', SameDeleted, WeightKept(t),
           UNCHANGED assoc \/ \E a \in Assoc : AssocMade(a) \/ AssocFreed(a),
           UNCHANGED queue \/ SameRefs \/ \E q \in Queue : QueueTaken(q)
    PROVE  AssocCounted'
<1>1. GrownKept /\ LivesKept
  BY GrownKeptIs, LivesKeptIs
<1>2. Kind(t)
  BY <1>1 DEF Kind
<1>. QED
  BY <1>2, CountedKinds
LEMMA TakesKind ==
    ASSUME Base, Base', AssocCounted, NEW t \in Thread, \A x \in Thread \ {t} : thread'[x] = thread[x],
           races \subseteq races', SameDeleted, UNCHANGED queue, NEW a \in Assoc, AssocTaken(a),
           WeightMore(t, a)
    PROVE  AssocCounted'
<1>1. GrownMore(a) /\ LivesKept
  BY GrownMoreIs, LivesKeptIs
<1>2. Kind(t)
  BY <1>1 DEF Kind
<1>. QED
  BY <1>2, CountedKinds
LEMMA GivesKind ==
    ASSUME Base, Base', AssocCounted, NEW t \in Thread, \A x \in Thread \ {t} : thread'[x] = thread[x],
           races \subseteq races', SameDeleted, UNCHANGED queue, NEW a \in Assoc, AssocGiven(a),
           WeightLess(t, a)
    PROVE  AssocCounted'
<1>1. GrownLess(a) /\ LivesKept
  BY GrownLessIs, LivesKeptIs
<1>2. Kind(t)
  BY <1>1 DEF Kind
<1>. QED
  BY <1>2, CountedKinds

LEMMA CountedLs ==
    ASSUME Base, Base', AssocCounted, NEW i \in Iod, LsRequest(i)
    PROVE  AssocCounted'
<1>0. Inv /\ PlaceOK(i, thread[i]) /\ PlaceOK(i, thread'[i]) /\ i \in Thread
      /\ i \notin {Unreg, Ctrl}
  BY Distinct DEF Base, Places, Thread
<1>. USE <1>0 DEF SameDeleted
<1>1. ASSUME RcvLsReq(i) PROVE AssocCounted'
  <2>1. UNCHANGED <<assoc, queue, races, deleted>>
    BY <1>1 DEF RcvLsReq
  <2>2. Free(i, thread[i]) /\ Free(i, thread'[i])
    BY <1>1, RcvLsReqMoves DEF Free, Finder, Owes, Ending, At, Walks, Same
  <2>. QED
    BY <1>1, <2>1, <2>2, RcvLsReqMoves, FreeIs, KeepsKind DEF Walks
<1>2. ASSUME AllocAssoc(i) PROVE AssocCounted'
  <2>1. Free(i, thread[i]) /\ Free(i, thread'[i])
    BY <1>2, AllocAssocMoves DEF Free, Finder, Owes, Ending, At, Walks, Same, PlaceOK
  <2>. QED
    BY <1>2, <2>1, AllocAssocMoves, FreeIs, KeepsKind DEF Walks
<1>3. ASSUME FindAssoc(i) PROVE AssocCounted'
  <2>. DEFINE a == thread[i].rqst.assoc
  <2>1. At(i, "find_assoc") /\ UNCHANGED <<queue, deleted>>
    BY <1>3, FindAssocMoves
  <2>2. Free(i, thread[i])
    BY <2>1 DEF Free, Finder, Owes, Ending, At
  <2>3. CASE /\ a \in Assoc /\ AssocTaken(a) /\ races' = races
             /\ \E pc \in Pcs : /\ Walks(i, pc, {"assoc"}) /\ thread'[i].assoc = a
                    /\ \/ thread[i].rqst.kind = "connect" /\ pc = "alloc_queue"
                       \/ thread[i].rqst.kind = "disconnect" /\ pc = "find_queue"
                       \/ thread[i].rqst.kind \notin {"connect", "disconnect"} /\ pc = "put_found"
    <3>1. /\ thread'[i].assoc = a /\ thread'[i].all = FALSE /\ thread'[i].duty = "none"
          /\ thread'[i].rqst.kind = thread[i].rqst.kind /\ thread[i].rqst.kind \in Finding
          /\ \A x \in Thread \ {i} : thread'[x] = thread[x]
      BY <2>1, <2>3 DEF At, Walks, Same, PlaceOK
    <3>2. \/ thread[i].rqst.kind = "connect" /\ thread'[i].pc = "alloc_queue"
          \/ thread[i].rqst.kind = "disconnect" /\ thread'[i].pc = "find_queue"
          \/ thread[i].rqst.kind = "disconnect_association" /\ thread'[i].pc = "put_found"
      BY <2>3, <3>1 DEF Walks, Finding
    <3>3. \A x \in Assoc : /\ ~Owes(thread'[i], x) /\ ~Ending(thread'[i], x)
                           /\ (Finder(i, thread'[i], x) <=> x = a)
      BY <3>1, <3>2 DEF Owes, Ending, Finder
    <3>4. WeightMore(i, a)
      BY <2>2, <3>3, FreeIs
    <3>. QED
      BY <2>1, <2>3, <3>1, <3>4, TakesKind
  <2>4. CASE races' = races \union {"dying"}
    BY <2>4 DEF AssocCounted
  <2>5. CASE Walks(i, "respond", {}) /\ UNCHANGED <<assoc, races>>
    <3>1. Free(i, thread'[i])
      BY <2>1, <2>5 DEF Free, Finder, Owes, Ending, At, Walks, Same
    <3>. QED
      BY <2>1, <2>2, <2>5, <3>1, FreeIs, KeepsKind DEF Walks
  <2>. QED
    BY <1>3, <2>3, <2>4, <2>5, FindAssocMoves
<1>4. ASSUME AllocQueue(i) PROVE AssocCounted'
  <2>. DEFINE a == thread[i].assoc
  <2>1. At(i, "alloc_queue") /\ UNCHANGED <<races, deleted>> /\ a \in Assoc
        /\ thread[i].rqst.kind \in {"create", "connect"} /\ thread[i].all = FALSE
    BY <1>4, AllocQueueMoves DEF At, PlaceOK
  <2>2. \A x \in Assoc : ~Owes(thread[i], x) /\ ~Ending(thread[i], x)
    BY <2>1 DEF Owes, Ending, At
  <2>3. CASE \E q \in Queue : /\ AssocTaken(a) /\ QueueMade(q, a, thread[i].i)
                              /\ Walks(i, "publish", {"queue"})
    <3>1. \A x \in Assoc : ~Owes(thread'[i], x) /\ ~Ending(thread'[i], x)
      BY <2>1, <2>3 DEF Owes, Ending, At, Walks, Same
    <3>2. \A x \in Assoc : Finder(i, thread'[i], x) <=> Finder(i, thread[i], x)
      BY <2>1, <2>3 DEF Finder, At, Walks, Same
    <3>3. WeightKept(i)
      BY <2>2, <3>1, <3>2, WeightKeptIs
    <3>4. LivesMore(a)
      BY <2>1, <2>3, LivesMoreIs
    <3>5. GrownMore(a)
      BY <2>1, <2>3, GrownMoreIs
    <3>6. Kind(i)
      BY <2>1, <3>3, <3>4, <3>5 DEF Kind
    <3>. QED
      BY <2>1, <2>3, <3>6, CountedKinds DEF Walks
  <2>4. CASE /\ Walks(i, IF thread[i].rqst.kind = "create" THEN "respond" ELSE "put_found", {})
             /\ UNCHANGED <<assoc, queue>>
    <3>1. \A x \in Assoc : ~Owes(thread'[i], x) /\ ~Ending(thread'[i], x)
      BY <2>1, <2>4 DEF Owes, Ending, At, Walks, Same
    <3>2. \A x \in Assoc : Finder(i, thread'[i], x) <=> Finder(i, thread[i], x)
      BY <2>1, <2>4 DEF Finder, At, Walks, Same
    <3>3. WeightKept(i)
      BY <2>2, <3>1, <3>2, WeightKeptIs
    <3>. QED
      BY <2>1, <2>4, <3>3, KeepsKind DEF Walks
  <2>. QED
    BY <1>4, <2>3, <2>4, AllocQueueMoves
<1>5. ASSUME Publish(i) PROVE AssocCounted'
  <2>1. /\ At(i, "publish") /\ thread[i].rqst.kind \in {"create", "connect"} /\ thread[i].all = FALSE
        /\ Walks(i, IF thread[i].rqst.kind = "create" THEN "use_queue" ELSE "put_found", {})
    BY <1>5, PublishMoves DEF At, PlaceOK
  <2>2. \A x \in Assoc : /\ ~Owes(thread[i], x) /\ ~Ending(thread[i], x)
                         /\ ~Owes(thread'[i], x) /\ ~Ending(thread'[i], x)
    BY <2>1 DEF Owes, Ending, At, Walks, Same
  <2>3. \A x \in Assoc : Finder(i, thread'[i], x) <=> Finder(i, thread[i], x)
    BY <2>1 DEF Finder, At, Walks, Same
  <2>4. WeightKept(i)
    BY <2>2, <2>3, WeightKeptIs
  <2>. QED
    BY <1>5, <2>1, <2>4, PublishMoves, KeepsKind DEF Walks
<1>6. ASSUME UseQueue(i) PROVE AssocCounted'
  <2>1. Free(i, thread[i]) /\ Free(i, thread'[i])
    BY <1>6, UseQueueMoves DEF Free, Finder, Owes, Ending, At, Walks, Same, PlaceOK
  <2>. QED
    BY <1>6, <2>1, UseQueueMoves, FreeIs, KeepsKind DEF Walks
<1>7. ASSUME FindQueue(i) PROVE AssocCounted'
  <2>1. At(i, "find_queue") /\ thread[i].rqst.kind = "disconnect" /\ thread[i].all = FALSE
    BY <1>7, FindQueueMoves DEF At, PlaceOK
  <2>2. \/ Walks(i, "delete", {"queue"})
        \/ Walks(i, "put_found", {}) \/ Walks(i, "past_table", {})
    BY <1>7, FindQueueMoves
  <2>3. \A x \in Assoc : /\ ~Owes(thread[i], x) /\ ~Ending(thread[i], x)
                         /\ ~Owes(thread'[i], x) /\ ~Ending(thread'[i], x)
    BY <2>1, <2>2 DEF Owes, Ending, At, Walks, Same
  <2>4. \A x \in Assoc : Finder(i, thread'[i], x) <=> Finder(i, thread[i], x)
    BY <2>1, <2>2 DEF Finder, At, Walks, Same
  <2>5. WeightKept(i)
    BY <2>3, <2>4, WeightKeptIs
  <2>. QED
    BY <1>7, <2>5, FindQueueMoves, KeepsKind DEF Walks
<1>8. ASSUME PutFound(i) PROVE AssocCounted'
  <2>. DEFINE a == thread[i].assoc
  <2>1. /\ At(i, "put_found") /\ a \in Assoc /\ AssocGiven(a)
        /\ thread[i].all = FALSE /\ thread[i].rqst.kind \in Finding
        /\ UNCHANGED <<queue, deleted, races>> /\ \A x \in Thread \ {i} : thread'[x] = thread[x]
    BY <1>8, PutFoundMoves DEF At, PlaceOK, PutsAndWalks, Walks
  <2>2. /\ thread'[i].pc \in {"use_queue", "begin", "respond"} /\ thread'[i].all = FALSE
        /\ thread'[i].duty # "put_assoc"
    BY <1>8, <2>1, PutFoundMoves DEF PutsAndWalks, Walks, Same
  <2>3. Free(i, thread'[i])
    BY <2>2 DEF Free, Finder, Owes, Ending
  <2>4. \A x \in Assoc : /\ ~Owes(thread[i], x) /\ ~Ending(thread[i], x)
                         /\ (Finder(i, thread[i], x) <=> x = a)
    BY <2>1 DEF Owes, Ending, Finder, At, Finding
  <2>5. WeightLess(i, a)
    BY <2>3, <2>4, FreeIs
  <2>. QED
    BY <2>1, <2>5, GivesKind
<1>9. ASSUME Respond(i) PROVE AssocCounted'
  <2>1. Free(i, thread[i]) /\ Free(i, thread'[i])
    BY <1>9, RespondMoves DEF Free, Finder, Owes, Ending, At, Rests, PutsPortAndRests
  <2>. QED
    BY <1>9, <2>1, RespondMoves, FreeIs, KeepsKind DEF Rests, PutsPortAndRests
<1>. QED
  BY <1>1, <1>2, <1>3, <1>4, <1>5, <1>6, <1>7, <1>8, <1>9 DEF LsRequest

LEMMA CountedDeletion ==
    ASSUME Base, Base', AssocCounted, NEW t \in Thread, Deletion(t)
    PROVE  AssocCounted'
<1>0. Inv /\ PlaceOK(t, thread[t]) /\ ThreadOK(t, thread[t])
  BY DEF Base, Places, Inv, ThreadsOK
<1>. USE <1>0 DEF SameDeleted
<1>1. ASSUME DeleteQueue(t) PROVE AssocCounted'
  <2>1. /\ thread[t].pc = "delete" /\ thread'[t].pc = "drop" /\ thread[t].duty = "none"
        /\ Same(thread'[t], thread[t], {"pc"}) /\ \A x \in Thread \ {t} : thread'[x] = thread[x]
    BY <1>1, DeleteQueueMoves DEF At, Walks, Same
  <2>2. WeightKept(t)
    BY <2>1, WeightKeptIs DEF Owes, Ending, Finder, Same
  <2>3. SameDeleted /\ SameRefs /\ races \subseteq races' /\ UNCHANGED assoc
    BY <1>1, DeleteQueueMoves
  <2>. HIDE DEF SameDeleted
  <2>. QED
    BY <2>1, <2>2, <2>3, KeepsKind
<1>2. ASSUME DropQueue(t) PROVE AssocCounted'
  <2>1. /\ thread[t].pc = "drop" /\ thread'[t].pc = "put_queue" /\ thread[t].duty = "none"
        /\ thread'[t].assoc = thread[t].assoc /\ thread'[t].all = thread[t].all
        /\ thread'[t].rqst = thread[t].rqst /\ QueuePuts(t, "put_queue")
        /\ UNCHANGED <<assoc, deleted, races>>
    BY <1>2, DropQueueMoves DEF At, QueuePuts, Same
  <2>2. \A x \in Assoc : /\ Finder(t, thread'[t], x) <=> Finder(t, thread[t], x)
                         /\ Ending(thread'[t], x) <=> Ending(thread[t], x)
    BY <2>1 DEF Finder, Ending
  <2>. QED
    BY <2>1, <2>2, QueuePutsKind
<1>3. ASSUME PutQueue(t) PROVE AssocCounted'
  <2>1. PICK pc : /\ pc = IF thread[t].all THEN "scan" ELSE "put_found"
                  /\ thread[t].pc = "put_queue" /\ thread[t].duty = "none"
                  /\ QueuePuts(t, pc) /\ UNCHANGED <<assoc, deleted, races>>
    BY <1>3, PutQueueMoves DEF At
  <2>2. /\ thread'[t].assoc = thread[t].assoc /\ thread'[t].all = thread[t].all
        /\ thread'[t].rqst = thread[t].rqst
        /\ \/ thread[t].all = TRUE /\ thread'[t].pc = "scan"
           \/ thread[t].all = FALSE /\ thread'[t].pc = "put_found"
    <3>1. thread[t].all \in BOOLEAN
      BY Fields DEF Rec
    <3>. QED
      BY <2>1, <3>1 DEF QueuePuts, Same
  <2>3. \A x \in Assoc : Ending(thread'[t], x) <=> Ending(thread[t], x)
    BY <2>1, <2>2 DEF Ending
  <2>4. \A x \in Assoc : Finder(t, thread'[t], x) <=> Finder(t, thread[t], x)
    <3>1. CASE thread[t].all = TRUE
      BY <2>1, <2>2, <3>1 DEF Finder
    <3>2. CASE thread[t].all = FALSE
      <4>1. t \in Iod /\ t \notin {Unreg, Ctrl} /\ thread[t].rqst.kind = "disconnect"
        BY <2>1, <3>2, Distinct DEF PlaceOK
      <4>. QED
        BY <2>1, <2>2, <3>2, <4>1 DEF Finder
    <3>. QED
      BY <2>2, <3>1, <3>2
  <2>. QED
    BY <2>1, <2>3, <2>4, QueuePutsKind
<1>4. ASSUME BeginAssoc(t) PROVE AssocCounted'
  <2>. DEFINE a == thread[t].assoc
  <2>1. /\ thread[t].pc = "begin" /\ thread'[t].pc = "scan" /\ thread[t].duty = "none"
        /\ a \in Assoc /\ thread'[t].assoc = a /\ thread'[t].all = TRUE /\ thread[t].all = FALSE
        /\ thread'[t].rqst = thread[t].rqst /\ thread'[t].duty = "none"
        /\ deleted' = deleted \union {a} /\ races \subseteq races'
        /\ a \in deleted => "twice" \in races'
        /\ UNCHANGED <<assoc, queue>> /\ \A x \in Thread \ {t} : thread'[x] = thread[x]
    BY <1>4, BeginAssocMoves DEF At, Walks, Same, PlaceOK
  <2>2. \A x \in Assoc : Finder(t, thread'[t], x) <=> Finder(t, thread[t], x)
    <3>1. t \in Iod => thread[t].rqst.kind = "disconnect"
      BY <2>1 DEF PlaceOK
    <3>. QED
      BY <2>1, <3>1 DEF Finder
  <2>3. \A x \in Assoc : /\ ~Owes(thread[t], x) /\ ~Owes(thread'[t], x)
                         /\ ~Ending(thread[t], x) /\ (Ending(thread'[t], x) <=> x = a)
    BY <2>1 DEF Owes, Ending
  <2>4. WeightMore(t, a)
    BY <2>2, <2>3 DEF WeightMore, Weight, One
  <2>5. GrownKept /\ LivesKept
    BY <2>1, GrownKeptIs, LivesKeptIs
  <2>6. races' \intersect {"twice", "dying"} = {} => Kind(t)
    BY <2>1, <2>4, <2>5 DEF Kind
  <2>. QED
    BY <2>1, <2>6, CountedKinds
<1>5. ASSUME ScanQueues(t) PROVE AssocCounted'
  <2>1. /\ thread[t].pc = "scan" /\ thread'[t].pc \in {"delete", "put_assoc"}
        /\ thread[t].duty = "none" /\ thread[t].all = TRUE
        /\ UNCHANGED <<assoc, deleted, races>>
    BY <1>5, ScanQueuesMoves DEF At, Walks, PlaceOK
  <2>2. /\ thread'[t].assoc = thread[t].assoc /\ thread'[t].all = TRUE
        /\ thread'[t].rqst = thread[t].rqst /\ thread'[t].duty = "none"
        /\ \A x \in Thread \ {t} : thread'[x] = thread[x]
    BY <1>5, <2>1, ScanQueuesMoves DEF Walks, Same
  <2>3. UNCHANGED queue \/ \E q \in Queue : QueueTaken(q)
    BY <1>5, ScanQueuesMoves
  <2>4. \A x \in Assoc : /\ Finder(t, thread'[t], x) <=> Finder(t, thread[t], x)
                         /\ Ending(thread'[t], x) <=> Ending(thread[t], x)
                         /\ ~Owes(thread[t], x) /\ ~Owes(thread'[t], x)
    BY <2>1, <2>2 DEF Finder, Ending, Owes
  <2>5. WeightKept(t)
    BY <2>4, WeightKeptIs
  <2>. QED
    BY <2>1, <2>2, <2>3, <2>5, KeepsKind
<1>6. ASSUME PutAssoc(t) PROVE AssocCounted'
  <2>. DEFINE a == thread[t].assoc
  <2>1. /\ thread[t].pc = "put_assoc" /\ thread[t].duty = "none" /\ thread[t].all = TRUE
        /\ a \in Assoc /\ AssocGiven(a)
        /\ UNCHANGED <<queue, deleted, races>> /\ \A x \in Thread \ {t} : thread'[x] = thread[x]
    BY <1>6, PutAssocMoves DEF At, PlaceOK, PutsAndWalks, Walks
  <2>2. /\ thread'[t].assoc = a /\ thread'[t].all = TRUE /\ thread'[t].duty # "put_assoc"
        /\ thread'[t].pc = IF t \in Iod THEN "respond" ELSE "done"
    BY <1>6, <2>1, PutAssocMoves DEF PutsAndWalks, Walks, Same
  <2>3. \A x \in Assoc : Finder(t, thread'[t], x) <=> Finder(t, thread[t], x)
    BY <2>1, <2>2, Distinct DEF Finder
  <2>4. \A x \in Assoc : /\ ~Owes(thread[t], x) /\ ~Owes(thread'[t], x)
                         /\ ~Ending(thread'[t], x) /\ (Ending(thread[t], x) <=> x = a)
    BY <2>1, <2>2 DEF Owes, Ending
  <2>5. WeightLess(t, a)
    BY <2>3, <2>4 DEF WeightLess, Weight, One
  <2>. QED
    BY <2>1, <2>5, GivesKind
<1>. QED
  BY <1>1, <1>2, <1>3, <1>4, <1>5, <1>6 DEF Deletion

LEMMA CountedFreeing ==
    ASSUME Base, Base', AssocCounted, NEW t \in Thread, Freeing(t)
    PROVE  AssocCounted'
<1>0. Inv
  BY DEF Base
<1>. USE <1>0 DEF SameDeleted
<1>1. ASSUME FreedQueuePuts(t) PROVE AssocCounted'
  <2>. DEFINE a == thread[t].owed
  <2>1. /\ thread[t].duty = "put_assoc" /\ a \in Assoc /\ AssocGiven(a) /\ HoldsSame(t)
        /\ thread'[t].duty # "put_assoc"
        /\ UNCHANGED <<queue, deleted, races>> /\ \A x \in Thread \ {t} : thread'[x] = thread[x]
    BY <1>1, FreedQueuePutsMoves DEF HoldsSame, Same
  <2>2. \A x \in Assoc : ~Owes(thread'[t], x) /\ (Owes(thread[t], x) <=> x = a)
    BY <2>1 DEF Owes
  <2>3. WeightLess(t, a)
    BY <2>1, <2>2, HoldsSameIs DEF WeightLess, Weight, One
  <2>. QED
    BY <2>1, <2>3, GivesKind
<1>2. ASSUME AssocFree(t) PROVE AssocCounted'
  <2>1. /\ thread[t].duty = "unlist" /\ HoldsSame(t) /\ thread'[t].duty # "put_assoc"
        /\ UNCHANGED <<queue, deleted>> /\ races \subseteq races'
        /\ \A x \in Thread \ {t} : thread'[x] = thread[x]
    BY <1>2, AssocFreeMoves DEF HoldsSame, Same
  <2>2. \A x \in Assoc : ~Owes(thread'[t], x) /\ ~Owes(thread[t], x)
    BY <2>1 DEF Owes
  <2>3. WeightKept(t)
    BY <2>1, <2>2, HoldsSameIs, WeightKeptIs
  <2>4. \E a \in Assoc : AssocFreed(a)
    BY <1>2, AssocFreeMoves DEF AssocFreed, Base, Unlisting
  <2>. QED
    BY <2>1, <2>3, <2>4, KeepsKind
<1>3. ASSUME FreeTgtport(t) PROVE AssocCounted'
  <2>1. /\ HoldsSame(t) /\ thread[t].duty = "free_port" /\ thread'[t].duty = "none"
        /\ UNCHANGED <<assoc, queue, deleted, races>>
        /\ \A x \in Thread \ {t} : thread'[x] = thread[x]
    BY <1>3, FreeTgtportMoves DEF HoldsSame, Same
  <2>2. \A x \in Assoc : ~Owes(thread'[t], x) /\ ~Owes(thread[t], x)
    BY <2>1 DEF Owes
  <2>3. WeightKept(t)
    BY <2>1, <2>2, HoldsSameIs, WeightKeptIs
  <2>. QED
    BY <2>1, <2>3, KeepsKind
<1>. QED
  BY <1>1, <1>2, <1>3 DEF Freeing

LEMMA CountedOthers ==
    ASSUME Base, Base', AssocCounted
    PROVE  /\ FreeAssocs \/ Unregister => AssocCounted'
           /\ DeleteCtrl \/ FindCtrl \/ CtrlPut => AssocCounted'
           /\ \A t \in {Unreg, Ctrl} : PutDone(t) => AssocCounted'
           /\ \A c \in Cmd : CmdArrive(c) \/ CmdEnd(c) => AssocCounted'
           /\ AddPort \/ RemovePort => AssocCounted'
<1>0. Inv /\ Unreg \in Thread /\ Ctrl \in Thread /\ Conf \in Thread
      /\ Unreg \notin Iod /\ Ctrl \notin Iod /\ Conf \notin Iod
      /\ Conf \notin {Unreg, Ctrl} /\ \A c \in Cmd : c \in Thread /\ c \notin Iod \union {Unreg, Ctrl}
  BY Distinct DEF Base, Thread
<1>. USE <1>0 DEF SameDeleted
<1>1. ASSUME FreeAssocs PROVE AssocCounted'
  <2>1. /\ UNCHANGED <<queue, deleted, races>> /\ thread[Unreg].pc \in {"idle", "next"}
        /\ thread[Unreg].duty = "none" /\ Free(Unreg, thread[Unreg])
    BY <1>1, FreeAssocsMoves DEF At, Free, Finder, Owes, Ending
  <2>2. ASSUME NEW a \in Assoc, AssocTaken(a), Walks(Unreg, "begin", {"assoc", "next"}),
               thread'[Unreg].assoc = a
        PROVE  AssocCounted'
    <3>1. thread'[Unreg].duty = "none" /\ thread'[Unreg].pc = "begin"
          /\ \A x \in Thread \ {Unreg} : thread'[x] = thread[x]
      BY <2>1, <2>2 DEF Walks, Same
    <3>2. \A x \in Assoc : /\ ~Owes(thread'[Unreg], x) /\ ~Ending(thread'[Unreg], x)
                           /\ (Finder(Unreg, thread'[Unreg], x) <=> x = a)
      BY <2>2, <3>1 DEF Owes, Ending, Finder
    <3>3. WeightMore(Unreg, a)
      BY <2>1, <3>2, FreeIs
    <3>. QED
      BY <2>1, <2>2, <3>1, <3>3, TakesKind
  <2>3. CASE Walks(Unreg, "unregister", {}) /\ UNCHANGED assoc
    <3>1. Free(Unreg, thread'[Unreg])
      BY <2>1, <2>3 DEF Free, Finder, Owes, Ending, Walks, Same
    <3>. QED
      BY <2>1, <2>3, <3>1, FreeIs, KeepsKind DEF Walks
  <2>. QED
    BY <1>1, <2>2, <2>3, FreeAssocsMoves
<1>2. ASSUME Unregister PROVE AssocCounted'
  <2>1. Free(Unreg, thread[Unreg]) /\ Free(Unreg, thread'[Unreg])
    BY <1>2, UnregisterMoves DEF Free, Finder, Owes, Ending, At, Rests, PutsPortAndRests
  <2>. QED
    BY <1>2, <2>1, UnregisterMoves, FreeIs, KeepsKind DEF Rests, PutsPortAndRests
<1>3. ASSUME DeleteCtrl PROVE AssocCounted'
  <2>1. Free(Ctrl, thread[Ctrl]) /\ Free(Ctrl, thread'[Ctrl])
    BY <1>3, DeleteCtrlMoves DEF Free, Finder, Owes, Ending, At, Walks, Rests, Same
  <2>. QED
    BY <1>3, <2>1, DeleteCtrlMoves, FreeIs, KeepsKind DEF Walks, Rests
<1>9. ASSUME FindCtrl PROVE AssocCounted'
  <2>1. UNCHANGED <<queue, deleted, races>> /\ At(Ctrl, "find_ctrl")
    BY <1>9, FindCtrlMoves
  <2>2. Free(Ctrl, thread[Ctrl])
    BY <2>1 DEF At, Free, Finder, Owes, Ending
  <2>3. ASSUME NEW a \in Assoc, AssocTaken(a), Walks(Ctrl, "put_port", {"assoc"}),
               thread'[Ctrl].assoc = a
        PROVE  AssocCounted'
    <3>1. thread'[Ctrl].duty = "none" /\ thread'[Ctrl].pc = "put_port"
          /\ \A x \in Thread \ {Ctrl} : thread'[x] = thread[x]
      BY <2>1, <2>3 DEF Walks, Same, At
    <3>2. \A x \in Assoc : /\ ~Owes(thread'[Ctrl], x) /\ ~Ending(thread'[Ctrl], x)
                           /\ (Finder(Ctrl, thread'[Ctrl], x) <=> x = a)
      BY <2>3, <3>1 DEF Owes, Ending, Finder
    <3>3. WeightMore(Ctrl, a)
      BY <2>2, <3>2, FreeIs
    <3>. QED
      BY <2>1, <2>3, <3>1, <3>3, TakesKind
  <2>4. CASE Walks(Ctrl, "put_port", {}) /\ UNCHANGED assoc
    <3>1. thread'[Ctrl].assoc = None /\ thread'[Ctrl].duty = "none" /\ thread'[Ctrl].pc = "put_port"
      <4>1. PlaceOK(Ctrl, thread[Ctrl])
        BY DEF Base, Places
      <4>. QED
        BY <2>1, <2>4, <4>1 DEF PlaceOK, At, Walks, Same
    <3>2. Free(Ctrl, thread'[Ctrl])
      BY <3>1 DEF Free, Finder, Owes, Ending
    <3>. QED
      BY <2>1, <2>2, <2>4, <3>2, FreeIs, KeepsKind DEF Walks
  <2>. QED
    BY <1>9, <2>3, <2>4, FindCtrlMoves
<1>10. ASSUME CtrlPut PROVE AssocCounted'
  <2>1. /\ UNCHANGED <<assoc, queue, deleted, races>> /\ thread[Ctrl].pc = "put_port"
        /\ thread[Ctrl].duty = "none" /\ \A x \in Thread \ {Ctrl} : thread'[x] = thread[x]
    BY <1>10, CtrlPutMoves DEF At, Walks, Rests, PutsPortAndRests
  <2>2. /\ thread'[Ctrl].duty \in {"none", "free_port"} /\ thread'[Ctrl].pc \in {"begin", "gone"}
        /\ thread'[Ctrl].assoc = thread[Ctrl].assoc
        /\ thread'[Ctrl].pc = "gone" => thread[Ctrl].assoc = None
    BY <1>10, CtrlPutMoves DEF Walks, Rests, PutsPortAndRests, Same, Blank
  <2>3. \A x \in Assoc : /\ Finder(Ctrl, thread'[Ctrl], x) <=> Finder(Ctrl, thread[Ctrl], x)
                         /\ Owes(thread'[Ctrl], x) <=> Owes(thread[Ctrl], x)
                         /\ Ending(thread'[Ctrl], x) <=> Ending(thread[Ctrl], x)
    BY <2>1, <2>2 DEF Finder, Owes, Ending
  <2>4. WeightKept(Ctrl)
    BY <2>3, WeightKeptIs
  <2>. QED
    BY <2>1, <2>4, KeepsKind
<1>4. ASSUME NEW t \in {Unreg, Ctrl}, PutDone(t) PROVE AssocCounted'
  <2>. DEFINE a == thread[t].assoc
  <2>1. /\ At(t, "done") /\ a \in Assoc /\ AssocGiven(a) /\ t \in Thread
        /\ UNCHANGED <<queue, deleted, races>> /\ \A x \in Thread \ {t} : thread'[x] = thread[x]
        /\ thread'[t].assoc = None /\ thread'[t].duty # "put_assoc"
    BY <1>4, PutDoneMoves DEF PutsAndRests
  <2>2. Free(t, thread'[t])
    BY <2>1 DEF Free, Finder, Owes, Ending
  <2>3. \A x \in Assoc : /\ ~Owes(thread[t], x) /\ ~Ending(thread[t], x)
                         /\ (Finder(t, thread[t], x) <=> x = a)
    BY <2>1 DEF Owes, Ending, Finder, At
  <2>4. WeightLess(t, a)
    BY <2>2, <2>3, FreeIs
  <2>. QED
    BY <2>1, <2>4, GivesKind
<1>5. ASSUME NEW c \in Cmd, CmdArrive(c) PROVE AssocCounted'
  <2>1. Free(c, thread[c]) /\ Free(c, thread'[c])
    BY <1>5, CmdArriveMoves DEF Free, Finder, Owes, Ending, At, Walks, Same
  <2>. QED
    BY <1>5, <2>1, CmdArriveMoves, FreeIs, KeepsKind DEF Walks
<1>6. ASSUME NEW c \in Cmd, CmdEnd(c) PROVE AssocCounted'
  <2>1. /\ QueuePuts(c, "gone") /\ thread[c].pc = "command" /\ thread[c].duty = "none"
        /\ UNCHANGED <<assoc, deleted, races>>
    BY <1>6, CmdEndMoves DEF At
  <2>2. \A x \in Assoc : /\ Finder(c, thread'[c], x) <=> Finder(c, thread[c], x)
                         /\ Ending(thread'[c], x) <=> Ending(thread[c], x)
    BY <2>1 DEF Finder, Ending, QueuePuts
  <2>. QED
    BY <2>1, <2>2, QueuePutsKind
<1>7. ASSUME AddPort PROVE AssocCounted'
  <2>1. Free(Conf, thread[Conf]) /\ Free(Conf, thread'[Conf])
    BY <1>7, AddPortMoves DEF Free, Finder, Owes, Ending, At, Walks, Same
  <2>. QED
    BY <1>7, <2>1, AddPortMoves, FreeIs, KeepsKind DEF Walks
<1>8. ASSUME RemovePort PROVE AssocCounted'
  <2>1. Free(Conf, thread[Conf]) /\ Free(Conf, thread'[Conf])
    BY <1>8, RemovePortMoves DEF Free, Finder, Owes, Ending, At, Rests, PutsPortAndRests
  <2>. QED
    BY <1>8, <2>1, RemovePortMoves, FreeIs, KeepsKind DEF Rests, PutsPortAndRests
<1>. QED
  BY <1>1, <1>2, <1>3, <1>4, <1>5, <1>6, <1>7, <1>8, <1>9, <1>10

LEMMA InitCounted == Init => OneDeleter /\ AssocCounted
<1>. SUFFICES ASSUME Init PROVE OneDeleter /\ AssocCounted
  OBVIOUS
<1>1. /\ \A t \in Thread : thread[t] = Resting("idle")
      /\ \A a \in Assoc : assoc[a] = [st |-> "none", ref |-> 0]
      /\ \A q \in Queue : queue[q].st = "none" /\ deleted = {}
  BY DEF Init
<1>2. \A t \in Thread : thread[t].pc = "idle" /\ thread[t].duty = "none"
  BY <1>1, RestingIs DEF Pcs
<1>3. OneDeleter
  BY <1>2 DEF OneDeleter, Ending, DropsQueue
<1>4. ASSUME NEW a \in Assoc
      PROVE  /\ Find(a) = {} /\ Owe(a) = {} /\ End(a) = {} /\ Live(a) = {}
             /\ Grown(a) = 1 /\ One(a \notin deleted) = 1
  <2>1. Find(a) = {}
    BY <1>2 DEF Find, Finder
  <2>2. Owe(a) = {} /\ End(a) = {}
    BY <1>2 DEF Owe, Owes, End, Ending
  <2>3. Live(a) = {}
    BY <1>1 DEF Live
  <2>4. deleted = {}
    BY DEF Init
  <2>. QED
    BY <1>1, <2>1, <2>2, <2>3, <2>4 DEF Grown, One
<1>5. Cardinality({}) = 0
  BY FS_EmptySet
<1>6. AssocCounted
  <2>1. ASSUME NEW a \in Assoc
        PROVE  /\ Cardinality(Find(a)) = 0 /\ Cardinality(Owe(a)) = 0
               /\ Cardinality(End(a)) = 0 /\ Cardinality(Live(a)) = 0
    BY <1>4, <1>5
  <2>2. ASSUME NEW a \in Assoc
        PROVE  Grown(a) = Cardinality(Find(a)) + Cardinality(Owe(a)) + Cardinality(End(a))
                          + Cardinality(Live(a)) + One(a \notin deleted)
    <3>. HIDE DEF Find, Owe, End, Live, Grown, One
    <3>1. Grown(a) = 1 /\ One(a \notin deleted) = 1
      BY <1>4
    <3>2. 0 + 0 + 0 + 0 + 1 = 1
      OBVIOUS
    <3>. QED
      BY <2>1, <3>1, <3>2
  <2>. QED
    BY <2>2 DEF AssocCounted
<1>. QED
  BY <1>3, <1>6

LEMMA StepCounted == Base /\ Base' /\ OneDeleter /\ AssocCounted /\ [Next]_vars => OneDeleter' /\ AssocCounted'
<1>. SUFFICES ASSUME Base, Base', OneDeleter, AssocCounted, [Next]_vars PROVE OneDeleter' /\ AssocCounted'
  OBVIOUS
<1>1. CASE Next
  <2>1. AssocCounted'
    BY <1>1, CountedLs, CountedDeletion, CountedFreeing, CountedOthers DEF Next
  <2>. QED
    BY <1>1, <2>1, OneDeleterStep
<1>2. CASE UNCHANGED vars
  <2>1. OneDeleter'
    BY <1>2 DEF vars, OneDeleter, Ending, DropsQueue
  <2>2. AssocCounted'
    BY <1>2 DEF vars, AssocCounted, Grown, Find, Owe, End, Live, Finder, Owes, Ending
  <2>. QED
    BY <2>1, <2>2
<1>. QED
  BY <1>1, <1>2

\* The reference of the creation of an object is dropped by one thread only, and the
\* count of an association is that of its holders, also while it is dying, unless the
\* races AssocRefsExact names have happened.
THEOREM HoldersCorrect == Spec => [](Base /\ OneDeleter /\ AssocCounted)
<1>. QED
  BY InitBase, InitCounted, StepBase, StepCounted, PTL DEF Spec

\* What the sum is for an association that is live.
LEMMA FindersAre ==
    ASSUME Base, NEW a \in Assoc
    PROVE  Finders(a) = Find(a)
<1>1. \A t \in Thread : thread[t].all \in BOOLEAN
  BY Fields DEF Base, Rec
<1>2. Iod \subseteq Thread /\ Unreg \in Thread /\ Ctrl \in Thread
  BY DEF Thread
<1>3. Finders(a) \subseteq Find(a)
  BY <1>1, <1>2 DEF Finders, Find, Finder
<1>4. Find(a) \subseteq Finders(a)
  BY <1>1, <1>2 DEF Finders, Find, Finder
<1>. QED
  BY <1>3, <1>4

LEMMA TokenIs ==
    ASSUME Base, OneDeleter, "twice" \notin races, NEW a \in Assoc
    PROVE  Cardinality(End(a)) + One(a \notin deleted)
           = IF a \notin deleted \/ \E t \in Thread : Deleting(t, a) THEN 1 ELSE 0
<1>1. \A t \in Thread : Deleting(t, a) <=> Ending(thread[t], a)
  <2>1. \A t \in Thread : thread[t].all \in BOOLEAN
    BY Fields DEF Base, Rec
  <2>. QED
    BY <2>1 DEF Deleting, Ending
<1>2. CASE \E t \in Thread : Ending(thread[t], a)
  <2>1. PICK t \in Thread : Ending(thread[t], a)
    BY <1>2
  <2>2. End(a) = {t} /\ a \in deleted
    BY <2>1 DEF OneDeleter, End
  <2>3. Cardinality(End(a)) = 1
    BY <2>2, FS_Singleton
  <2>. QED
    BY <1>1, <2>1, <2>2, <2>3 DEF One
<1>3. CASE ~\E t \in Thread : Ending(thread[t], a)
  <2>1. End(a) = {}
    BY <1>3 DEF End
  <2>2. Cardinality(End(a)) = 0
    BY <2>1, FS_EmptySet
  <2>. QED
    BY <1>1, <1>3, <2>2 DEF One
<1>. QED
  BY <1>2, <1>3

\* The reference count of an association (nvmet_fc_tgt_a_get and _put) is that of
\* its live queues, of whoever has found it, of the freed queues that have still to
\* put it, and of its creation until its deletion has dropped that, for any number of
\* them, unless it was deleted twice or found when its count was zero.
THEOREM AssocCorrect == Spec => []AssocRefsExact
<1>1. ASSUME Base, OneDeleter, AssocCounted PROVE AssocRefsExact
  <2>. SUFFICES ASSUME races \intersect {"twice", "dying"} = {}, NEW a \in Assoc,
                       assoc[a].st = "live"
                PROVE  assoc[a].ref = Holders(a)
    BY DEF AssocRefsExact
  <2>1. Grown(a) = assoc[a].ref
    <3>1. assoc[a].ref \in Nat
      BY Fields, <1>1 DEF Base
    <3>. QED
      BY <3>1 DEF Grown, One
  <2>2. Cardinality(End(a)) + One(a \notin deleted)
        = IF a \notin deleted \/ \E t \in Thread : Deleting(t, a) THEN 1 ELSE 0
    BY <1>1, TokenIs
  <2>3. Grown(a) = Cardinality(Find(a)) + Cardinality(Owe(a)) + Cardinality(End(a))
                   + Cardinality(Live(a)) + One(a \notin deleted)
    BY <1>1 DEF AssocCounted
  <2>4. Holders(a) = Cardinality(Find(a)) + Cardinality(Live(a)) + Cardinality(Owe(a))
                     + (IF a \notin deleted \/ \E t \in Thread : Deleting(t, a) THEN 1 ELSE 0)
    BY <1>1, FindersAre DEF Holders, Live, Owe, Owes
  <2>5. PICK f, o, e, l, d, h, r, z :
            /\ f = Cardinality(Find(a)) /\ o = Cardinality(Owe(a)) /\ e = Cardinality(End(a))
            /\ l = Cardinality(Live(a)) /\ d = One(a \notin deleted) /\ h = Holders(a)
            /\ r = assoc[a].ref
            /\ z = IF a \notin deleted \/ \E t \in Thread : Deleting(t, a) THEN 1 ELSE 0
    OBVIOUS
  <2>6. f \in Nat /\ o \in Nat /\ e \in Nat /\ l \in Nat /\ d \in Nat
    <3>1. IsFiniteSet(Thread) /\ IsFiniteSet(Queue)
      OBVIOUS
    <3>2. Find(a) \in SUBSET Thread /\ Owe(a) \in SUBSET Thread /\ End(a) \in SUBSET Thread
          /\ Live(a) \in SUBSET Queue
      BY DEF Find, Owe, End, Live
    <3>3. One(a \notin deleted) \in Nat
      BY DEF One
    <3>. HIDE DEF Find, Owe, End, Live
    <3>. QED
      BY <2>5, <3>1, <3>2, <3>3, FS_Subset, FS_CardinalityType
  <2>7. r = f + o + e + l + d /\ e + d = z /\ h = f + l + o + z
    BY <2>1, <2>2, <2>3, <2>4, <2>5
  <2>. QED
    BY <2>5, <2>6, <2>7
<1>. QED
  BY <1>1, HoldersCorrect, PTL

-----------------------------------------------------------------------------
(* Who holds a queue.                                                      *)

LEMMA QueueCountedMove ==
    ASSUME QueueCounted, NEW t \in Thread, \A x \in Thread \ {t} : thread'[x] = thread[x],
           races \subseteq races',
           "twice" \notin races' => \A q \in Queue :
             /\ QueueGrown(q) \in Nat /\ QueueGrown(q)' \in Nat
             /\ QueueGrown(q)' + QueueWeight(thread[t], q) + One(q \notin deleted)
                = QueueGrown(q) + QueueWeight(thread'[t], q) + One(q \notin deleted')
    PROVE  QueueCounted'
<1>. SUFFICES ASSUME "twice" \notin races', NEW q \in Queue
              PROVE  QueueGrown(q)' = Cardinality(Hold(q)') + Cardinality(Drop(q)')
                                      + One(q \notin deleted')
  BY DEF QueueCounted
<1>1. "twice" \notin races
  OBVIOUS
<1>2. IsFiniteSet(Thread)
  OBVIOUS
<1>3. /\ Hold(q)' = {x \in Thread : Holds(thread'[x], q)}
      /\ Drop(q)' = {x \in Thread : DropsQueue(thread'[x], q)}
  BY DEF Hold, Drop, Holds, DropsQueue
<1>4. /\ Cardinality(Hold(q)) \in Nat /\ Cardinality(Hold(q)') \in Nat
      /\ Cardinality(Hold(q)') + One(Holds(thread[t], q))
         = Cardinality(Hold(q)) + One(Holds(thread'[t], q))
  <2>1. Hold(q) \in SUBSET Thread /\ Hold(q)' \in SUBSET Thread
        /\ (t \in Hold(q) <=> Holds(thread[t], q)) /\ (t \in Hold(q)' <=> Holds(thread'[t], q))
        /\ \A x \in Thread \ {t} : x \in Hold(q) <=> x \in Hold(q)'
    BY <1>3 DEF Hold
  <2>2. /\ Cardinality(Hold(q)) \in Nat /\ Cardinality(Hold(q)') \in Nat
        /\ Cardinality(Hold(q)') + One(t \in Hold(q)) = Cardinality(Hold(q)) + One(t \in Hold(q)')
    <3>. HIDE DEF Hold
    <3>. QED
      BY <1>2, <2>1, OneMoves
  <2>3. /\ One(t \in Hold(q)) = One(Holds(thread[t], q))
        /\ One(t \in Hold(q)') = One(Holds(thread'[t], q))
    BY <2>1 DEF One
  <2>. QED
    BY <2>2, <2>3
<1>5. /\ Cardinality(Drop(q)) \in Nat /\ Cardinality(Drop(q)') \in Nat
      /\ Cardinality(Drop(q)') + One(DropsQueue(thread[t], q))
         = Cardinality(Drop(q)) + One(DropsQueue(thread'[t], q))
  <2>1. Drop(q) \in SUBSET Thread /\ Drop(q)' \in SUBSET Thread
        /\ (t \in Drop(q) <=> DropsQueue(thread[t], q))
        /\ (t \in Drop(q)' <=> DropsQueue(thread'[t], q))
        /\ \A x \in Thread \ {t} : x \in Drop(q) <=> x \in Drop(q)'
    BY <1>3 DEF Drop
  <2>2. /\ Cardinality(Drop(q)) \in Nat /\ Cardinality(Drop(q)') \in Nat
        /\ Cardinality(Drop(q)') + One(t \in Drop(q)) = Cardinality(Drop(q)) + One(t \in Drop(q)')
    <3>. HIDE DEF Drop
    <3>. QED
      BY <1>2, <2>1, OneMoves
  <2>3. /\ One(t \in Drop(q)) = One(DropsQueue(thread[t], q))
        /\ One(t \in Drop(q)') = One(DropsQueue(thread'[t], q))
    BY <2>1 DEF One
  <2>. QED
    BY <2>2, <2>3
<1>6. QueueGrown(q) = Cardinality(Hold(q)) + Cardinality(Drop(q)) + One(q \notin deleted)
  BY <1>1 DEF QueueCounted
<1>7. /\ One(q \notin deleted) \in Nat /\ One(q \notin deleted') \in Nat
      /\ One(Holds(thread[t], q)) \in Nat /\ One(Holds(thread'[t], q)) \in Nat
      /\ One(DropsQueue(thread[t], q)) \in Nat /\ One(DropsQueue(thread'[t], q)) \in Nat
  BY DEF One
<1>8. /\ QueueWeight(thread[t], q) = One(Holds(thread[t], q)) + One(DropsQueue(thread[t], q))
      /\ QueueWeight(thread'[t], q) = One(Holds(thread'[t], q)) + One(DropsQueue(thread'[t], q))
  BY DEF QueueWeight
<1>. HIDE DEF Hold, Drop, QueueGrown, One, QueueWeight, Holds, DropsQueue
<1>10. /\ QueueGrown(q) \in Nat /\ QueueGrown(q)' \in Nat
       /\ QueueGrown(q)' + QueueWeight(thread[t], q) + One(q \notin deleted)
          = QueueGrown(q) + QueueWeight(thread'[t], q) + One(q \notin deleted')
  OBVIOUS
<1>11. PICK g, h, f, f2, o, o2, d, d2, w1, w2, v1, v2 \in Nat :
        /\ g = QueueGrown(q) /\ h = QueueGrown(q)'
        /\ f = Cardinality(Hold(q)) /\ f2 = Cardinality(Hold(q)')
        /\ o = Cardinality(Drop(q)) /\ o2 = Cardinality(Drop(q)')
        /\ d = One(q \notin deleted) /\ d2 = One(q \notin deleted')
        /\ w1 = One(Holds(thread[t], q)) /\ v1 = One(Holds(thread'[t], q))
        /\ w2 = One(DropsQueue(thread[t], q)) /\ v2 = One(DropsQueue(thread'[t], q))
  BY <1>4, <1>5, <1>7, <1>10
<1>12. /\ f2 + w1 = f + v1 /\ o2 + w2 = o + v2 /\ g = f + o + d
       /\ h + (w1 + w2) + d = g + (v1 + v2) + d2
  BY <1>4, <1>5, <1>6, <1>8, <1>10, <1>11
<1>13. h = f2 + o2 + d2
  BY <1>12
<1>. QED
  BY <1>11, <1>13

LEMMA QueueGrownNat ==
    ASSUME Base, Base'
    PROVE  \A q \in Queue : QueueGrown(q) \in Nat /\ QueueGrown(q)' \in Nat
<1>1. \A q \in Queue : queue[q].ref \in Nat
  BY Fields DEF Base
<1>2. \A q \in Queue : queue'[q].ref \in Nat
  BY DEF Base, Inv, TypeOK
<1>. QED
  BY <1>1, <1>2 DEF QueueGrown, One

\* The kinds of steps.
LEMMA QueueKeeps ==
    ASSUME Base, Base', QueueCounted, NEW t \in Thread, \A x \in Thread \ {t} : thread'[x] = thread[x],
           races \subseteq races', \A q \in Queue : q \in deleted' <=> q \in deleted,
           \A q \in Queue : /\ Holds(thread'[t], q) <=> Holds(thread[t], q)
                            /\ DropsQueue(thread'[t], q) <=> DropsQueue(thread[t], q),
           \/ UNCHANGED queue \/ SameRefs
           \/ \E q \in Queue, a \in Assoc, k \in Qids : QueueMade(q, a, k)
    PROVE  QueueCounted'
<1>1. \A q \in Queue : QueueGrown(q)' = QueueGrown(q)
  <2>1. CASE UNCHANGED queue
    BY <2>1 DEF QueueGrown
  <2>2. CASE SameRefs
    BY <2>2 DEF QueueGrown, SameRefs
  <2>3. ASSUME NEW q \in Queue, NEW a \in Assoc, NEW k \in Qids, QueueMade(q, a, k)
        PROVE  \A x \in Queue : QueueGrown(x)' = QueueGrown(x)
    <3>1. queue[q].ref = 0
      BY <2>3, Fields DEF Base, Alive, QueueMade
    <3>. QED
      BY <2>3, <3>1 DEF QueueGrown, QueueMade, OnlyQueue, One
  <2>. QED
    BY <2>1, <2>2, <2>3
<1>2. \A q \in Queue : /\ QueueWeight(thread'[t], q) = QueueWeight(thread[t], q)
                       /\ One(q \notin deleted') = One(q \notin deleted)
  BY DEF QueueWeight, One
<1>3. \A q \in Queue : /\ QueueWeight(thread[t], q) \in Nat /\ One(q \notin deleted) \in Nat
  BY DEF QueueWeight, One
<1>. QED
  BY <1>1, <1>2, <1>3, QueueGrownNat, QueueCountedMove

LEMMA QueueTakes ==
    ASSUME Base, Base', QueueCounted, NEW t \in Thread, \A x \in Thread \ {t} : thread'[x] = thread[x],
           UNCHANGED <<deleted, races>>, NEW q \in Queue, QueueTaken(q),
           \A x \in Queue : /\ ~Holds(thread[t], x) /\ (Holds(thread'[t], x) <=> x = q)
                            /\ ~DropsQueue(thread[t], x) /\ ~DropsQueue(thread'[t], x)
    PROVE  QueueCounted'
<1>1. \A x \in Queue : QueueGrown(x)' = QueueGrown(x) + One(x = q)
  <2>1. queue'[q].st = queue[q].st /\ queue[q].ref \in Nat /\ queue'[q].ref = queue[q].ref + 1
    BY Fields DEF Base, QueueTaken
  <2>2. QueueGrown(q)' = QueueGrown(q) + 1
    BY <2>1 DEF QueueGrown, One
  <2>3. \A x \in Queue \ {q} : QueueGrown(x)' = QueueGrown(x)
    BY DEF QueueGrown, QueueTaken, OnlyQueue
  <2>4. \A x \in Queue : QueueGrown(x) \in Nat
    BY QueueGrownNat
  <2>. QED
    BY <2>2, <2>3, <2>4 DEF One
<1>2. \A x \in Queue : /\ QueueWeight(thread[t], x) = 0
                       /\ QueueWeight(thread'[t], x) = One(x = q)
  BY DEF QueueWeight, One
<1>3. \A x \in Queue : One(x = q) \in Nat /\ One(x \notin deleted) \in Nat
  BY DEF One
<1>4. \A x \in Queue : QueueGrown(x)' + QueueWeight(thread[t], x) + One(x \notin deleted)
                       = QueueGrown(x) + QueueWeight(thread'[t], x) + One(x \notin deleted')
  BY <1>1, <1>2, <1>3, QueueGrownNat
<1>. QED
  BY <1>4, QueueGrownNat, QueueCountedMove

LEMMA QueueGives ==
    ASSUME Base, Base', QueueCounted, NEW t \in Thread, \A x \in Thread \ {t} : thread'[x] = thread[x],
           UNCHANGED <<deleted, races>>, NEW q \in Queue, QueueGiven(q),
           \A x \in Queue : QueueWeight(thread'[t], x) + One(x = q) = QueueWeight(thread[t], x)
    PROVE  QueueCounted'
<1>1. \A x \in Queue : QueueGrown(x)' + One(x = q) = QueueGrown(x)
  <2>1. /\ (queue'[q].st = "none" <=> queue[q].st = "none")
        /\ queue[q].ref \in Nat /\ queue'[q].ref = queue[q].ref - 1
    BY Fields DEF Base, QueueGiven, Alive
  <2>2. QueueGrown(q)' + 1 = QueueGrown(q)
    BY <2>1 DEF QueueGrown, One
  <2>3. \A x \in Queue \ {q} : QueueGrown(x)' = QueueGrown(x)
    BY DEF QueueGrown, QueueGiven, OnlyQueue
  <2>4. \A x \in Queue : QueueGrown(x) \in Nat
    BY QueueGrownNat
  <2>. QED
    BY <2>2, <2>3, <2>4 DEF One
<1>2. \A x \in Queue : QueueWeight(thread[t], x) \in Nat /\ QueueWeight(thread'[t], x) \in Nat
  BY DEF QueueWeight, One
<1>3. \A x \in Queue : One(x = q) \in Nat /\ One(x \notin deleted) \in Nat
  BY DEF One
<1>4. \A x \in Queue : QueueGrown(x)' + QueueWeight(thread[t], x) + One(x \notin deleted)
                       = QueueGrown(x) + QueueWeight(thread'[t], x) + One(x \notin deleted')
  BY <1>1, <1>2, <1>3, QueueGrownNat
<1>. QED
  BY <1>4, QueueGrownNat, QueueCountedMove

LEMMA QueueDeletes ==
    ASSUME Base, Base', QueueCounted, NEW t \in Thread, \A x \in Thread \ {t} : thread'[x] = thread[x],
           races \subseteq races', NEW q \in Queue, deleted' = deleted \union {q}, SameRefs,
           q \in deleted => "twice" \in races',
           \A x \in Queue : QueueWeight(thread'[t], x) = QueueWeight(thread[t], x) + One(x = q)
    PROVE  QueueCounted'
<1>1. \A x \in Queue : QueueGrown(x)' = QueueGrown(x)
  BY DEF QueueGrown, SameRefs
<1>2. "twice" \notin races' => \A x \in Queue :
        One(x \notin deleted') + One(x = q) = One(x \notin deleted)
  BY DEF One
<1>3. \A x \in Queue : /\ One(x = q) \in Nat /\ One(x \notin deleted) \in Nat
                       /\ One(x \notin deleted') \in Nat /\ QueueWeight(thread[t], x) \in Nat
  BY DEF One, QueueWeight
<1>4. "twice" \notin races' => \A x \in Queue :
        QueueGrown(x)' + QueueWeight(thread[t], x) + One(x \notin deleted)
        = QueueGrown(x) + QueueWeight(thread'[t], x) + One(x \notin deleted')
  BY <1>1, <1>2, <1>3, QueueGrownNat
<1>. QED
  BY <1>4, QueueGrownNat, QueueCountedMove

LEMMA QueuePutsGives ==
    ASSUME Base, Base', QueueCounted, NEW t \in Thread, NEW pc, QueuePuts(t, pc),
           UNCHANGED <<deleted, races>>,
           \/ thread[t].pc = "drop" /\ pc = "put_queue"
           \/ thread[t].pc \in {"put_queue", "command"} /\ pc \in {"scan", "put_found", "gone"}
    PROVE  QueueCounted'
<1>. DEFINE q == thread[t].queue
<1>1. /\ q \in Queue /\ QueueGiven(q) /\ thread'[t].pc = pc
      /\ \A x \in Thread \ {t} : thread'[x] = thread[x]
      /\ pc # "gone" => thread'[t].queue = q
  BY DEF QueuePuts, Same
<1>2. CASE thread[t].pc = "drop" /\ pc = "put_queue"
  <2>1. \A x \in Queue : /\ Holds(thread[t], x) <=> x = q
                         /\ Holds(thread'[t], x) <=> x = q
                         /\ DropsQueue(thread[t], x) <=> x = q
                         /\ ~DropsQueue(thread'[t], x)
    BY <1>1, <1>2 DEF Holds, DropsQueue
  <2>2. \A x \in Queue : QueueWeight(thread'[t], x) + One(x = q) = QueueWeight(thread[t], x)
    BY <2>1 DEF QueueWeight, One
  <2>. QED
    BY <1>1, <2>2, QueueGives
<1>3. CASE thread[t].pc \in {"put_queue", "command"} /\ pc \in {"scan", "put_found", "gone"}
  <2>1. \A x \in Queue : /\ Holds(thread[t], x) <=> x = q
                         /\ ~Holds(thread'[t], x)
                         /\ ~DropsQueue(thread[t], x) /\ ~DropsQueue(thread'[t], x)
    BY <1>1, <1>3 DEF Holds, DropsQueue
  <2>2. \A x \in Queue : QueueWeight(thread'[t], x) + One(x = q) = QueueWeight(thread[t], x)
    BY <2>1 DEF QueueWeight, One
  <2>. QED
    BY <1>1, <2>2, QueueGives
<1>. QED
  BY <1>2, <1>3

LEMMA QueueCountedStep ==
    ASSUME Base, Base', QueueCounted, Next
    PROVE  QueueCounted'
<1>0. Inv
  BY DEF Base
<1>. USE <1>0 DEF Walks, Rests, Same, At, Holds, DropsQueue
<1>1. ASSUME NEW i \in Iod, RcvLsReq(i) PROVE QueueCounted'
  <2>1. UNCHANGED <<queue, races, deleted>>
    BY <1>1 DEF RcvLsReq
  <2>. QED
    BY <1>1, <2>1, RcvLsReqMoves, QueueKeeps
<1>2. ASSUME NEW i \in Iod, AllocAssoc(i) PROVE QueueCounted'
  BY <1>2, AllocAssocMoves, QueueKeeps
<1>3. ASSUME NEW i \in Iod, FindAssoc(i) PROVE QueueCounted'
  BY <1>3, FindAssocMoves, QueueKeeps
<1>4. ASSUME NEW i \in Iod, AllocQueue(i) PROVE QueueCounted'
  BY <1>4, AllocQueueMoves, QueueKeeps
<1>5. ASSUME NEW i \in Iod, Publish(i) PROVE QueueCounted'
  BY <1>5, PublishMoves, QueueKeeps
<1>6. ASSUME NEW i \in Iod, UseQueue(i) PROVE QueueCounted'
  BY <1>6, UseQueueMoves, QueueKeeps
<1>7. ASSUME NEW i \in Iod, FindQueue(i) PROVE QueueCounted'
  <2>1. CASE UNCHANGED queue /\ \E pc \in {"put_found", "past_table"} : Walks(i, pc, {})
    BY <1>7, <2>1, FindQueueMoves, QueueKeeps
  <2>2. ASSUME NEW q \in Queue, QueueTaken(q), Walks(i, "delete", {"queue"}),
               thread'[i].queue = q
        PROVE  QueueCounted'
    BY <1>7, <2>2, FindQueueMoves, QueueTakes
  <2>. QED
    BY <1>7, <2>1, <2>2, FindQueueMoves
<1>8. ASSUME NEW i \in Iod, PutFound(i) PROVE QueueCounted'
  BY <1>8, PutFoundMoves, QueueKeeps DEF PutsAndWalks
<1>9. ASSUME NEW i \in Iod, Respond(i) PROVE QueueCounted'
  BY <1>9, RespondMoves, QueueKeeps DEF PutsPortAndRests
<1>10. ASSUME NEW t \in Thread, DeleteQueue(t) PROVE QueueCounted'
  <2>. DEFINE q == thread[t].queue
  <2>1. /\ thread[t].pc = "delete" /\ thread'[t].pc = "drop" /\ thread'[t].queue = q
        /\ q \in Queue /\ SameRefs /\ races \subseteq races' /\ deleted' = deleted \union {q}
        /\ q \in deleted => "twice" \in races'
        /\ \A x \in Thread \ {t} : thread'[x] = thread[x]
    BY <1>10, DeleteQueueMoves
  <2>2. \A x \in Queue : QueueWeight(thread'[t], x) = QueueWeight(thread[t], x) + One(x = q)
    BY <2>1 DEF QueueWeight, One
  <2>. QED
    BY <2>1, <2>2, QueueDeletes
<1>11. ASSUME NEW t \in Thread, DropQueue(t) PROVE QueueCounted'
  BY <1>11, DropQueueMoves, QueuePutsGives
<1>12. ASSUME NEW t \in Thread, PutQueue(t) PROVE QueueCounted'
  <2>1. PICK pc \in {"scan", "put_found"} : QueuePuts(t, pc)
    BY <1>12, PutQueueMoves
  <2>. QED
    BY <1>12, <2>1, PutQueueMoves, QueuePutsGives
<1>13. ASSUME NEW t \in Thread, BeginAssoc(t) PROVE QueueCounted'
  <2>1. \A x \in Queue : x \in deleted' <=> x \in deleted
    <3>1. deleted' = deleted \union {thread[t].assoc} /\ thread[t].assoc \in Assoc
      BY <1>13, BeginAssocMoves
    <3>. QED
      BY <3>1
  <2>. QED
    BY <1>13, <2>1, BeginAssocMoves, QueueKeeps
<1>14. ASSUME NEW t \in Thread, ScanQueues(t) PROVE QueueCounted'
  <2>1. CASE Walks(t, "put_assoc", {}) /\ UNCHANGED queue
    BY <1>14, <2>1, ScanQueuesMoves, QueueKeeps
  <2>2. ASSUME NEW q \in Queue, QueueTaken(q), Walks(t, "delete", {"queue", "i"}),
               thread'[t].queue = q
        PROVE  QueueCounted'
    BY <1>14, <2>2, ScanQueuesMoves, QueueTakes
  <2>. QED
    BY <1>14, <2>1, <2>2, ScanQueuesMoves
<1>15. ASSUME NEW t \in Thread, PutAssoc(t) PROVE QueueCounted'
  BY <1>15, PutAssocMoves, QueueKeeps DEF PutsAndWalks
<1>16. ASSUME NEW t \in Thread, FreedQueuePuts(t) PROVE QueueCounted'
  <2>1. /\ thread'[t].pc = thread[t].pc /\ thread'[t].queue = thread[t].queue
        /\ UNCHANGED <<queue, races, deleted>> /\ \A x \in Thread \ {t} : thread'[x] = thread[x]
    BY <1>16, FreedQueuePutsMoves
  <2>. QED
    BY <2>1, QueueKeeps
<1>17. ASSUME NEW t \in Thread, AssocFree(t) PROVE QueueCounted'
  <2>1. /\ thread'[t].pc = thread[t].pc /\ thread'[t].queue = thread[t].queue
        /\ UNCHANGED <<queue, deleted>> /\ races \subseteq races'
        /\ \A x \in Thread \ {t} : thread'[x] = thread[x]
    BY <1>17, AssocFreeMoves
  <2>. QED
    BY <2>1, QueueKeeps
<1>18. ASSUME NEW t \in Thread, FreeTgtport(t) PROVE QueueCounted'
  <2>1. /\ thread'[t].pc = thread[t].pc /\ thread'[t].queue = thread[t].queue
        /\ UNCHANGED <<queue, races, deleted>> /\ \A x \in Thread \ {t} : thread'[x] = thread[x]
    BY <1>18, FreeTgtportMoves
  <2>. QED
    BY <2>1, QueueKeeps
<1>19. ASSUME FreeAssocs PROVE QueueCounted'
  BY <1>19, FreeAssocsMoves, QueueKeeps
<1>20. ASSUME NEW t \in {Unreg, Ctrl}, PutDone(t) PROVE QueueCounted'
  BY <1>20, PutDoneMoves, QueueKeeps DEF PutsAndRests
<1>21. ASSUME Unregister PROVE QueueCounted'
  BY <1>21, UnregisterMoves, QueueKeeps DEF PutsPortAndRests
<1>22. ASSUME DeleteCtrl PROVE QueueCounted'
  BY <1>22, DeleteCtrlMoves, QueueKeeps
<1>23. ASSUME NEW c \in Cmd, CmdArrive(c) PROVE QueueCounted'
  <2>1. CASE Walks(c, "past_table", {}) /\ UNCHANGED queue
    BY <1>23, <2>1, CmdArriveMoves, QueueKeeps
  <2>2. ASSUME NEW q \in Queue, QueueTaken(q), Walks(c, "command", {"queue"}),
               thread'[c].queue = q
        PROVE  QueueCounted'
    BY <1>23, <2>2, CmdArriveMoves, QueueTakes
  <2>. QED
    BY <1>23, <2>1, <2>2, CmdArriveMoves
<1>24. ASSUME NEW c \in Cmd, CmdEnd(c) PROVE QueueCounted'
  BY <1>24, CmdEndMoves, QueuePutsGives
<1>25. ASSUME AddPort PROVE QueueCounted'
  BY <1>25, AddPortMoves, QueueKeeps
<1>26. ASSUME RemovePort PROVE QueueCounted'
  BY <1>26, RemovePortMoves, QueueKeeps DEF PutsPortAndRests
<1>27. ASSUME FindCtrl PROVE QueueCounted'
  BY <1>27, FindCtrlMoves, QueueKeeps
<1>28. ASSUME CtrlPut PROVE QueueCounted'
  BY <1>28, CtrlPutMoves, QueueKeeps DEF PutsPortAndRests
<1>. QED
  BY <1>1, <1>2, <1>3, <1>4, <1>5, <1>6, <1>7, <1>8, <1>9, <1>10, <1>11, <1>12, <1>13, <1>14,
     <1>15, <1>16, <1>17, <1>18, <1>19, <1>20, <1>21, <1>22, <1>23, <1>24, <1>25, <1>26, <1>27, <1>28
  DEF Next, LsRequest, Deletion, Freeing

LEMMA InitQueueCounted == Init => QueueCounted
<1>. SUFFICES ASSUME Init, NEW q \in Queue
              PROVE  QueueGrown(q) = Cardinality(Hold(q)) + Cardinality(Drop(q))
                                     + One(q \notin deleted)
  BY DEF QueueCounted
<1>1. /\ \A t \in Thread : thread[t] = Resting("idle")
      /\ queue[q].st = "none" /\ queue[q].ref = 0 /\ deleted = {}
  BY DEF Init
<1>2. \A t \in Thread : thread[t].pc = "idle"
  BY <1>1, RestingIs DEF Pcs
<1>3. Hold(q) = {} /\ Drop(q) = {}
  BY <1>2 DEF Hold, Holds, Drop, DropsQueue
<1>4. QueueGrown(q) = 1 /\ One(q \notin deleted) = 1
  BY <1>1 DEF QueueGrown, One
<1>5. Cardinality(Hold(q)) = 0 /\ Cardinality(Drop(q)) = 0
  BY <1>3, FS_EmptySet
<1>. HIDE DEF Hold, Drop, QueueGrown, One
<1>6. 0 + 0 + 1 = 1
  OBVIOUS
<1>. QED
  BY <1>4, <1>5, <1>6

-----------------------------------------------------------------------------
(* What is being created.                                                  *)

\* A queue keeps its association, and a deletion of what is created is a race.
Faithful == /\ \A q \in Queue : queue[q].st # "none" => queue'[q].assoc = queue[q].assoc
            /\ races \subseteq races'
Spares == \/ deleted' = deleted
          \/ \E a \in Assoc : /\ deleted' = deleted \union {a}
                              /\ \A i \in Iod : Creating(i) /\ thread[i].assoc = a => "young" \in races'
          \/ \E q \in Queue : /\ deleted' = deleted \union {q}
                              /\ \A i \in Iod : Creating(i) /\ thread[i].queue = q => "young" \in races'
LEMMA FaithfulIs ==
    ASSUME Base, races \subseteq races', QueueOp
    PROVE  Faithful
<1>1. ASSUME UNCHANGED queue \/ SameRefs PROVE Faithful
  BY <1>1 DEF Faithful, SameRefs
<1>2. ASSUME NEW q \in Queue, QueueTaken(q) \/ QueueGiven(q) PROVE Faithful
  BY <1>2 DEF Faithful, QueueTaken, QueueGiven, OnlyQueue
<1>3. ASSUME NEW q \in Queue, NEW a \in Assoc, NEW k \in Qids, QueueMade(q, a, k) PROVE Faithful
  BY <1>3 DEF Faithful, QueueMade, OnlyQueue
<1>. QED
  BY <1>1, <1>2, <1>3 DEF QueueOp

\* The creators keep what they have.
LEMMA FreshKept ==
    ASSUME Base, AllFresh, Faithful, Spares, NEW i \in Iod
    PROVE  LET me == thread[i] IN Creates(me) =>
            /\ me.queue # None => queue'[me.queue].assoc = me.assoc
            /\ "young" \notin races' => /\ me.rqst.kind = "create" => me.assoc \notin deleted'
                                        /\ me.queue \notin deleted'
<1>. DEFINE me == thread[i]
<1>. SUFFICES ASSUME Creates(me)
              PROVE  /\ me.queue # None => queue'[me.queue].assoc = me.assoc
                     /\ "young" \notin races' => /\ me.rqst.kind = "create" => me.assoc \notin deleted'
                                                 /\ me.queue \notin deleted'
  OBVIOUS
<1>1. i \in Thread /\ me \in Rec /\ me.assoc \in Assoc \union {None}
      /\ me.queue \in Queue \union {None}
  BY Fields DEF Base, Thread, Rec
<1>2. Fresh(me)
  BY DEF AllFresh
<1>3. me.queue # None => queue'[me.queue].assoc = me.assoc
  BY <1>1, <1>2, InBase DEF Fresh, Faithful
<1>4. Creating(i)
  BY DEF Creating, Creates
<1>5. ASSUME "young" \notin races'
      PROVE  (me.rqst.kind = "create" => me.assoc \notin deleted') /\ me.queue \notin deleted'
  <2>1. "young" \notin races
    BY <1>5 DEF Faithful
  <2>2. (me.rqst.kind = "create" => me.assoc \notin deleted) /\ me.queue \notin deleted
    BY <1>2, <2>1 DEF Fresh
  <2>3. ASSUME NEW a \in Assoc, deleted' = deleted \union {a}, me.assoc # a
        PROVE  (me.rqst.kind = "create" => me.assoc \notin deleted') /\ me.queue \notin deleted'
    BY <1>1, <2>2, <2>3
  <2>4. ASSUME NEW q \in Queue, deleted' = deleted \union {q}, me.queue # q
        PROVE  (me.rqst.kind = "create" => me.assoc \notin deleted') /\ me.queue \notin deleted'
    BY <1>1, <2>2, <2>4
  <2>. QED
    BY <1>4, <1>5, <2>2, <2>3, <2>4 DEF Spares
<1>. QED
  BY <1>3, <1>5

LEMMA FreshMove ==
    ASSUME Base, AllFresh, Faithful, Spares, NEW t \in Thread,
           \A x \in Thread \ {t} : thread'[x] = thread[x],
           \/ t \notin Iod
           \/ ~Creates(thread'[t])
           \/ /\ Creates(thread[t]) /\ thread'[t].rqst = thread[t].rqst
              /\ thread'[t].assoc = thread[t].assoc /\ thread'[t].queue = thread[t].queue
           \/ /\ deleted' = deleted
              /\ thread'[t].rqst.kind = "create" => thread'[t].assoc \notin deleted
              /\ thread'[t].queue \notin deleted
              /\ thread'[t].queue # None => queue'[thread'[t].queue].assoc = thread'[t].assoc
    PROVE  AllFresh'
<1>1. Iod \subseteq Thread
  BY DEF Thread
<1>2. ASSUME NEW i \in Iod PROVE Fresh(thread[i])'
  <2>1. CASE i # t
    <3>1. thread'[i] = thread[i]
      BY <1>1, <2>1
    <3>. QED
      BY <3>1, FreshKept DEF Fresh, Creates
  <2>2. CASE i = t
    <3>1. CASE ~Creates(thread'[t])
      BY <2>2, <3>1 DEF Fresh, Creates
    <3>2. CASE /\ Creates(thread[t]) /\ thread'[t].rqst = thread[t].rqst
               /\ thread'[t].assoc = thread[t].assoc /\ thread'[t].queue = thread[t].queue
      BY <2>2, <3>2, FreshKept DEF Fresh
    <3>3. CASE /\ deleted' = deleted
               /\ thread'[t].rqst.kind = "create" => thread'[t].assoc \notin deleted
               /\ thread'[t].queue \notin deleted
               /\ thread'[t].queue # None => queue'[thread'[t].queue].assoc = thread'[t].assoc
      BY <2>2, <3>3 DEF Fresh
    <3>. QED
      BY <2>2, <3>1, <3>2, <3>3
  <2>. QED
    BY <2>1, <2>2
<1>. QED
  BY <1>2 DEF AllFresh

LEMMA PutsNamesQueue ==
    ASSUME Base, NEW t \in Thread, NEW pc, QueuePuts(t, pc), UNCHANGED assoc
    PROVE  QueueOp
  BY QueuePutsNames

LEMMA FreshStep ==
    ASSUME Base, Base', AllFresh, Next
    PROVE  AllFresh'
<1>0. Inv /\ Places /\ NoRequest.kind = "none"
  BY DEF Base, NoRequest
<1>00. Iod \subseteq Thread /\ (\A c \in Cmd : c \notin Iod) /\ Unreg \notin Iod /\ Ctrl \notin Iod
       /\ Conf \notin Iod
  BY DEF Thread
<1>. USE <1>0, <1>00 DEF Walks, Rests, Same, Blank, At, Spares, Creates
<1>1. ASSUME NEW i \in Iod, RcvLsReq(i) PROVE AllFresh'
  <2>1. UNCHANGED <<queue, races, deleted>>
    BY <1>1 DEF RcvLsReq
  <2>2. Faithful
    BY <2>1, FaithfulIs DEF QueueOp
  <2>. QED
    BY <1>1, <2>1, <2>2, RcvLsReqMoves, FreshMove
<1>2. ASSUME NEW i \in Iod, AllocAssoc(i) PROVE AllFresh'
  <2>1. Faithful /\ deleted' = deleted
    BY <1>2, AllocAssocMoves, FaithfulIs DEF QueueOp
  <2>2. CASE Walks(i, "respond", {})
    BY <2>1, <2>2, FreshMove
  <2>3. ASSUME NEW a \in Assoc, AssocMade(a), Walks(i, "alloc_queue", {"assoc"}), thread'[i].assoc = a
        PROVE  AllFresh'
    <3>1. a \notin deleted
      BY <2>3 DEF Base, Known, KnownDeleted, AssocMade
    <3>2. thread'[i].queue = None
      BY <1>2, <2>3, AllocAssocMoves DEF Places, PlaceOK
    <3>3. None \notin deleted
      BY DEF Inv, TypeOK
    <3>. QED
      BY <2>1, <2>3, <3>1, <3>2, <3>3, FreshMove
  <2>. QED
    BY <1>2, <2>2, <2>3, AllocAssocMoves
<1>3. ASSUME NEW i \in Iod, FindAssoc(i) PROVE AllFresh'
  <2>1. Faithful /\ deleted' = deleted
    BY <1>3, FindAssocMoves, FaithfulIs DEF QueueOp
  <2>2. CASE Walks(i, "respond", {})
    BY <2>1, <2>2, FreshMove
  <2>3. CASE \E pc \in Pcs : Walks(i, pc, {"assoc"})
    <3>1. thread'[i].queue = None /\ thread'[i].rqst.kind # "create"
      BY <1>3, <2>3, FindAssocMoves DEF Places, PlaceOK, Finding
    <3>2. None \notin deleted
      BY DEF Inv, TypeOK
    <3>. QED
      BY <2>1, <2>3, <3>1, <3>2, FreshMove
  <2>. QED
    BY <1>3, <2>2, <2>3, FindAssocMoves
<1>4. ASSUME NEW i \in Iod, AllocQueue(i) PROVE AllFresh'
  <2>. DEFINE a == thread[i].assoc
  <2>0. a \in Assoc /\ assoc[a].st # "none" /\ thread[i].i \in Qids
        /\ UNCHANGED <<deleted, races>> /\ thread[i].pc = "alloc_queue"
        /\ thread[i].rqst.kind \in {"create", "connect"}
    BY <1>4, AllocQueueMoves, InBase DEF Places, PlaceOK
  <2>1. Faithful
    <3>1. QueueOp
      BY <1>4, <2>0, AllocQueueMoves DEF QueueOp
    <3>. QED
      BY <2>0, <3>1, FaithfulIs
  <2>2. Fresh(thread[i])
    BY DEF AllFresh
  <2>3. ASSUME NEW q \in Queue, QueueMade(q, a, thread[i].i),
               Walks(i, "publish", {"queue"}), thread'[i].queue = q
        PROVE  AllFresh'
    <3>1. queue'[q].assoc = a /\ q \notin deleted
      BY <2>3 DEF QueueMade, Base, Known, KnownDeleted
    <3>2. /\ thread'[i].assoc = a /\ thread'[i].rqst = thread[i].rqst /\ thread'[i].queue = q
          /\ \A x \in Thread \ {i} : thread'[x] = thread[x]
      BY <2>3
    <3>3. CASE "young" \in races
      <4>1. ASSUME NEW x \in Iod PROVE Fresh(thread[x])'
        <5>1. CASE x # i
          <6>1. thread'[x] = thread[x]
            BY <3>2, <5>1
          <6>. QED
            BY <2>0, <2>1, <6>1, FreshKept DEF Fresh
        <5>2. CASE x = i
          BY <2>0, <3>1, <3>2, <3>3, <5>2 DEF Fresh
        <5>. QED
          BY <5>1, <5>2
      <4>. QED
        BY <4>1 DEF AllFresh
    <3>4. CASE "young" \notin races
      <4>1. thread[i].rqst.kind = "create" => a \notin deleted
        BY <2>0, <2>2, <3>4 DEF Fresh
      <4>. QED
        BY <2>0, <2>1, <3>1, <3>2, <4>1, FreshMove
    <3>. QED
      BY <3>3, <3>4
  <2>4. CASE Walks(i, IF thread[i].rqst.kind = "create" THEN "respond" ELSE "put_found", {})
    <3>1. \/ ~Creates(thread'[i])
          \/ /\ Creates(thread[i]) /\ thread'[i].rqst = thread[i].rqst
             /\ thread'[i].assoc = thread[i].assoc /\ thread'[i].queue = thread[i].queue
      BY <2>0, <2>4
    <3>. QED
      BY <2>0, <2>1, <2>4, <3>1, FreshMove
  <2>. QED
    BY <1>4, <2>3, <2>4, AllocQueueMoves
<1>5. ASSUME NEW i \in Iod, Publish(i) PROVE AllFresh'
  <2>1. Faithful /\ deleted' = deleted
    BY <1>5, PublishMoves, FaithfulIs DEF QueueOp
  <2>2. /\ Creates(thread[i]) /\ thread'[i].rqst = thread[i].rqst
        /\ thread'[i].assoc = thread[i].assoc /\ thread'[i].queue = thread[i].queue
        /\ \A x \in Thread \ {i} : thread'[x] = thread[x]
    BY <1>5, PublishMoves DEF Places, PlaceOK
  <2>. QED
    BY <2>1, <2>2, FreshMove
<1>6. ASSUME NEW i \in Iod, UseQueue(i) PROVE AllFresh'
  <2>1. Faithful
    BY <1>6, UseQueueMoves, FaithfulIs DEF QueueOp
  <2>. QED
    BY <1>6, <2>1, UseQueueMoves, FreshMove
<1>7. ASSUME NEW i \in Iod, FindQueue(i) PROVE AllFresh'
  <2>1. Faithful
    BY <1>7, FindQueueMoves, FaithfulIs DEF QueueOp
  <2>2. thread'[i].rqst.kind = "disconnect" /\ \A x \in Thread \ {i} : thread'[x] = thread[x]
    BY <1>7, FindQueueMoves DEF Places, PlaceOK
  <2>. QED
    BY <1>7, <2>1, <2>2, FindQueueMoves, FreshMove
<1>8. ASSUME NEW i \in Iod, PutFound(i) PROVE AllFresh'
  <2>1. Faithful
    BY <1>8, PutFoundMoves, FaithfulIs DEF QueueOp
  <2>2. /\ thread'[i].rqst = thread[i].rqst /\ thread'[i].assoc = thread[i].assoc
        /\ thread'[i].queue = thread[i].queue /\ thread[i].pc = "put_found"
        /\ \A x \in Thread \ {i} : thread'[x] = thread[x]
    BY <1>8, PutFoundMoves DEF PutsAndWalks
  <2>. QED
    BY <1>8, <2>1, <2>2, PutFoundMoves, FreshMove
<1>9. ASSUME NEW i \in Iod, Respond(i) PROVE AllFresh'
  <2>1. Faithful
    BY <1>9, RespondMoves, FaithfulIs DEF QueueOp
  <2>. QED
    BY <1>9, <2>1, RespondMoves, FreshMove DEF PutsPortAndRests
<1>10. ASSUME NEW t \in Thread, DeleteQueue(t) PROVE AllFresh'
  <2>1. Faithful
    BY <1>10, DeleteQueueMoves, FaithfulIs DEF QueueOp
  <2>2. Spares
    BY <1>10, DeleteQueueMoves
  <2>3. ~Creates(thread'[t]) /\ \A x \in Thread \ {t} : thread'[x] = thread[x]
    BY <1>10, DeleteQueueMoves
  <2>. HIDE DEF Spares, Creates
  <2>. QED
    BY <2>1, <2>2, <2>3, FreshMove
<1>11. ASSUME NEW t \in Thread, DropQueue(t) PROVE AllFresh'
  <2>1. Faithful
    BY <1>11, DropQueueMoves, PutsNamesQueue, FaithfulIs
  <2>. QED
    BY <1>11, <2>1, DropQueueMoves, FreshMove DEF QueuePuts
<1>12. ASSUME NEW t \in Thread, PutQueue(t) PROVE AllFresh'
  <2>1. Faithful
    BY <1>12, PutQueueMoves, PutsNamesQueue, FaithfulIs
  <2>2. CASE t \notin Iod
    BY <1>12, <2>1, <2>2, PutQueueMoves, FreshMove DEF QueuePuts
  <2>3. CASE t \in Iod
    <3>1. thread[t].rqst.kind = "disconnect"
      BY <1>12, <2>3, PutQueueMoves DEF Places, PlaceOK
    <3>2. thread'[t].rqst = thread[t].rqst /\ \A x \in Thread \ {t} : thread'[x] = thread[x]
      BY <1>12, PutQueueMoves DEF QueuePuts
    <3>. QED
      BY <1>12, <2>1, <3>1, <3>2, PutQueueMoves, FreshMove
  <2>. QED
    BY <2>2, <2>3
<1>13. ASSUME NEW t \in Thread, BeginAssoc(t) PROVE AllFresh'
  <2>1. Faithful
    BY <1>13, BeginAssocMoves, FaithfulIs DEF QueueOp
  <2>2. Spares
    <3>1. /\ deleted' = deleted \union {thread[t].assoc} /\ thread[t].assoc \in Assoc
          /\ YoungAssoc(thread[t].assoc)
      BY <1>13, BeginAssocMoves
    <3>. QED
      BY <3>1 DEF YoungAssoc
  <2>3. ~Creates(thread'[t]) /\ \A x \in Thread \ {t} : thread'[x] = thread[x]
    BY <1>13, BeginAssocMoves
  <2>. HIDE DEF Spares, Creates
  <2>. QED
    BY <2>1, <2>2, <2>3, FreshMove
<1>14. ASSUME NEW t \in Thread, ScanQueues(t) PROVE AllFresh'
  <2>1. Faithful
    BY <1>14, ScanQueuesMoves, FaithfulIs DEF QueueOp
  <2>2. ~Creates(thread'[t]) /\ \A x \in Thread \ {t} : thread'[x] = thread[x]
    BY <1>14, ScanQueuesMoves
  <2>. QED
    BY <1>14, <2>1, <2>2, ScanQueuesMoves, FreshMove
<1>15. ASSUME NEW t \in Thread, PutAssoc(t) PROVE AllFresh'
  <2>1. Faithful
    BY <1>15, PutAssocMoves, FaithfulIs DEF QueueOp
  <2>. QED
    BY <1>15, <2>1, PutAssocMoves, FreshMove DEF PutsAndWalks
<1>16. ASSUME NEW t \in Thread, FreedQueuePuts(t) PROVE AllFresh'
  <2>1. Faithful
    BY <1>16, FreedQueuePutsMoves, FaithfulIs DEF QueueOp
  <2>. QED
    BY <1>16, <2>1, FreedQueuePutsMoves, FreshMove
<1>17. ASSUME NEW t \in Thread, AssocFree(t) PROVE AllFresh'
  <2>0. UNCHANGED <<queue, deleted>>
    BY <1>17 DEF AssocFree
  <2>1. Faithful
    BY <1>17, <2>0, AssocFreeMoves, FaithfulIs DEF QueueOp
  <2>. QED
    BY <1>17, <2>0, <2>1, AssocFreeMoves, FreshMove
<1>18. ASSUME NEW t \in Thread, FreeTgtport(t) PROVE AllFresh'
  <2>1. Faithful
    BY <1>18, FreeTgtportMoves, FaithfulIs DEF QueueOp
  <2>. QED
    BY <1>18, <2>1, FreeTgtportMoves, FreshMove
<1>19. ASSUME FreeAssocs PROVE AllFresh'
  <2>1. Faithful
    BY <1>19, FreeAssocsMoves, FaithfulIs DEF QueueOp
  <2>. QED
    BY <1>19, <2>1, FreeAssocsMoves, FreshMove
<1>20. ASSUME NEW t \in {Unreg, Ctrl}, PutDone(t) PROVE AllFresh'
  <2>1. Faithful
    BY <1>20, PutDoneMoves, FaithfulIs DEF QueueOp
  <2>. QED
    BY <1>20, <2>1, PutDoneMoves, FreshMove DEF PutsAndRests
<1>21. ASSUME Unregister PROVE AllFresh'
  <2>1. Faithful
    BY <1>21, UnregisterMoves, FaithfulIs DEF QueueOp
  <2>. QED
    BY <1>21, <2>1, UnregisterMoves, FreshMove DEF PutsPortAndRests
<1>27. ASSUME FindCtrl PROVE AllFresh'
  <2>1. Faithful
    BY <1>27, FindCtrlMoves, FaithfulIs DEF QueueOp
  <2>. QED
    BY <1>27, <2>1, FindCtrlMoves, FreshMove
<1>28. ASSUME CtrlPut PROVE AllFresh'
  <2>1. Faithful
    BY <1>28, CtrlPutMoves, FaithfulIs DEF QueueOp
  <2>. QED
    BY <1>28, <2>1, CtrlPutMoves, FreshMove DEF PutsPortAndRests
<1>22. ASSUME DeleteCtrl PROVE AllFresh'
  <2>1. Faithful
    BY <1>22, DeleteCtrlMoves, FaithfulIs DEF QueueOp
  <2>. QED
    BY <1>22, <2>1, DeleteCtrlMoves, FreshMove
<1>23. ASSUME NEW c \in Cmd, CmdArrive(c) PROVE AllFresh'
  <2>1. Faithful
    BY <1>23, CmdArriveMoves, FaithfulIs DEF QueueOp
  <2>. QED
    BY <1>23, <2>1, CmdArriveMoves, FreshMove
<1>24. ASSUME NEW c \in Cmd, CmdEnd(c) PROVE AllFresh'
  <2>1. Faithful
    BY <1>24, CmdEndMoves, PutsNamesQueue, FaithfulIs
  <2>. QED
    BY <1>24, <2>1, CmdEndMoves, FreshMove, ZenonT(60) DEF QueuePuts
<1>25. ASSUME AddPort PROVE AllFresh'
  <2>1. Faithful
    BY <1>25, AddPortMoves, FaithfulIs DEF QueueOp
  <2>. QED
    BY <1>25, <2>1, AddPortMoves, FreshMove
<1>26. ASSUME RemovePort PROVE AllFresh'
  <2>1. Faithful
    BY <1>26, RemovePortMoves, FaithfulIs DEF QueueOp
  <2>. QED
    BY <1>26, <2>1, RemovePortMoves, FreshMove DEF PutsPortAndRests
<1>. QED
  BY <1>1, <1>2, <1>3, <1>4, <1>5, <1>6, <1>7, <1>8, <1>9, <1>10, <1>11, <1>12, <1>13, <1>14,
     <1>15, <1>16, <1>17, <1>18, <1>19, <1>20, <1>21, <1>22, <1>23, <1>24, <1>25, <1>26, <1>27, <1>28
  DEF Next, LsRequest, Deletion, Freeing

LEMMA InitFresh == Init => AllFresh
<1>. SUFFICES ASSUME Init PROVE AllFresh
  OBVIOUS
<1>1. \A t \in Thread : thread[t].pc = "idle"
  BY RestingIs DEF Init, Pcs
<1>. QED
  BY <1>1 DEF AllFresh, Fresh, Creates, Thread

-----------------------------------------------------------------------------
(* The next association of the loop of __nvmet_fc_free_assocs.             *)

\* What is on the list stays, or Unreg wanted it next.
KeptListed == \A a \in Assoc : assoc[a].st \in {"live", "dying"} =>
    \/ assoc'[a].st \in {"live", "dying"}
    \/ thread[Unreg].next = a /\ "neighbour" \in races'
    \/ thread[Unreg].next # a
LEMMA KeptListedIs ==
    ASSUME UNCHANGED assoc \/ \E a \in Assoc : AssocMade(a) \/ AssocTaken(a) \/ AssocGiven(a)
    PROVE  KeptListed
  BY DEF KeptListed, AssocMade, AssocTaken, AssocGiven, OnlyAssoc

LEMMA NeighbourMove ==
    ASSUME Base, Neighbour, KeptListed, races \subseteq races', NEW t \in Thread,
           \A x \in Thread \ {t} : thread'[x] = thread[x],
           \/ t # Unreg \/ thread'[Unreg].next \in {None, thread[Unreg].next}
           \/ assoc'[thread'[Unreg].next].st \in {"live", "dying"}
    PROVE  Neighbour'
<1>. SUFFICES ASSUME "neighbour" \notin races', thread'[Unreg].next # None
              PROVE  assoc'[thread'[Unreg].next].st \in {"live", "dying"}
  BY DEF Neighbour
<1>1. CASE thread'[Unreg].next = thread[Unreg].next
  <2>1. Unreg \in Thread
    BY DEF Thread
  <2>2. thread[Unreg].next \in Assoc
    BY <1>1, <2>1, Fields DEF Base, Rec
  <2>3. assoc[thread[Unreg].next].st \in {"live", "dying"}
    BY <1>1 DEF Neighbour
  <2>. QED
    BY <1>1, <2>2, <2>3 DEF KeptListed
<1>2. CASE assoc'[thread'[Unreg].next].st \in {"live", "dying"}
  BY <1>2
<1>3. CASE t # Unreg
  <2>1. thread'[Unreg] = thread[Unreg]
    BY <1>3 DEF Thread
  <2>. QED
    BY <1>1, <2>1
<1>. QED
  BY <1>1, <1>2, <1>3

LEMMA NeighbourStep ==
    ASSUME Base, Neighbour, Next
    PROVE  Neighbour'
<1>0. Inv /\ Unreg \in Thread
  BY DEF Base, Thread
<1>. USE <1>0 DEF Walks, Rests, Same, At
<1>1. ASSUME NEW i \in Iod, LsRequest(i) PROVE Neighbour'
  <2>1. i \in Thread /\ i # Unreg
    BY DEF Thread
  <2>2. ASSUME RcvLsReq(i) PROVE Neighbour'
    <3>1. UNCHANGED <<assoc, races>>
      BY <2>2 DEF RcvLsReq
    <3>. QED
      BY <2>1, <2>2, <3>1, RcvLsReqMoves, KeptListedIs, NeighbourMove
  <2>3. ASSUME AllocAssoc(i) PROVE Neighbour'
    BY <2>1, <2>3, AllocAssocMoves, KeptListedIs, NeighbourMove
  <2>4. ASSUME FindAssoc(i) PROVE Neighbour'
    BY <2>1, <2>4, FindAssocMoves, KeptListedIs, NeighbourMove
  <2>5. ASSUME AllocQueue(i) PROVE Neighbour'
    BY <2>1, <2>5, AllocQueueMoves, KeptListedIs, NeighbourMove
  <2>6. ASSUME Publish(i) PROVE Neighbour'
    BY <2>1, <2>6, PublishMoves, KeptListedIs, NeighbourMove
  <2>7. ASSUME UseQueue(i) PROVE Neighbour'
    BY <2>1, <2>7, UseQueueMoves, KeptListedIs, NeighbourMove
  <2>8. ASSUME FindQueue(i) PROVE Neighbour'
    BY <2>1, <2>8, FindQueueMoves, KeptListedIs, NeighbourMove
  <2>9. ASSUME PutFound(i) PROVE Neighbour'
    BY <2>1, <2>9, PutFoundMoves, KeptListedIs, NeighbourMove DEF PutsAndWalks
  <2>10. ASSUME Respond(i) PROVE Neighbour'
    BY <2>1, <2>10, RespondMoves, KeptListedIs, NeighbourMove DEF PutsPortAndRests
  <2>. QED
    BY <1>1, <2>2, <2>3, <2>4, <2>5, <2>6, <2>7, <2>8, <2>9, <2>10 DEF LsRequest
<1>2. ASSUME NEW t \in Thread, Deletion(t) PROVE Neighbour'
  <2>1. ASSUME DeleteQueue(t) PROVE Neighbour'
    BY <2>1, DeleteQueueMoves, KeptListedIs, NeighbourMove
  <2>2. ASSUME DropQueue(t) PROVE Neighbour'
    BY <2>2, DropQueueMoves, KeptListedIs, NeighbourMove DEF QueuePuts
  <2>3. ASSUME PutQueue(t) PROVE Neighbour'
    BY <2>3, PutQueueMoves, KeptListedIs, NeighbourMove DEF QueuePuts
  <2>4. ASSUME BeginAssoc(t) PROVE Neighbour'
    BY <2>4, BeginAssocMoves, KeptListedIs, NeighbourMove, ZenonT(60)
  <2>5. ASSUME ScanQueues(t) PROVE Neighbour'
    BY <2>5, ScanQueuesMoves, KeptListedIs, NeighbourMove
  <2>6. ASSUME PutAssoc(t) PROVE Neighbour'
    BY <2>6, PutAssocMoves, KeptListedIs, NeighbourMove DEF PutsAndWalks
  <2>. QED
    BY <1>2, <2>1, <2>2, <2>3, <2>4, <2>5, <2>6 DEF Deletion
<1>3. ASSUME NEW t \in Thread, FreedQueuePuts(t) PROVE Neighbour'
  <2>1. KeptListed
    BY <1>3, FreedQueuePutsMoves, KeptListedIs
  <2>. QED
    BY <1>3, <2>1, FreedQueuePutsMoves, NeighbourMove
<1>4. ASSUME NEW t \in Thread, AssocFree(t) PROVE Neighbour'
  <2>1. KeptListed
    BY <1>4, AssocFreeMoves DEF KeptListed, OnlyAssoc
  <2>. QED
    BY <1>4, <2>1, AssocFreeMoves, NeighbourMove
<1>5. ASSUME NEW t \in Thread, FreeTgtport(t) PROVE Neighbour'
  BY <1>5, FreeTgtportMoves, KeptListedIs, NeighbourMove
<1>6. ASSUME FreeAssocs PROVE Neighbour'
  <2>1. CASE Walks(Unreg, "unregister", {}) /\ UNCHANGED assoc
    BY <1>6, <2>1, FreeAssocsMoves, KeptListedIs, NeighbourMove
  <2>2. ASSUME NEW j \in FreeOn, AssocTaken(assoc_list[j]), assoc_list[j] \in Assoc,
               Walks(Unreg, "begin", {"assoc", "next"}), thread'[Unreg].next = After(j)
        PROVE  Neighbour'
    <3>1. KeptListed /\ races' = races
      BY <1>6, <2>2, FreeAssocsMoves, KeptListedIs
    <3>2. CASE After(j) = None
      BY <2>2, <3>1, <3>2, NeighbourMove
    <3>3. CASE After(j) # None
      <4>1. j \in DOMAIN assoc_list /\ assoc_list \in Seq(Assoc)
        BY <2>2 DEF FreeOn, Inv, TypeOK
      <4>2. j + 1 \in DOMAIN assoc_list /\ After(j) = assoc_list[j + 1] /\ After(j) \in Assoc
        BY <3>3, <4>1 DEF After
      <4>3. assoc[After(j)].st \in {"live", "dying"}
        BY <4>2 DEF Base, OnList, Listed
      <4>4. assoc'[After(j)].st \in {"live", "dying"}
        BY <2>2, <4>2, <4>3 DEF AssocTaken, OnlyAssoc
      <4>. QED
        BY <2>2, <3>1, <4>4, NeighbourMove
    <3>. QED
      BY <3>2, <3>3
  <2>. QED
    BY <1>6, <2>1, <2>2, FreeAssocsMoves
<1>7. ASSUME NEW t \in {Unreg, Ctrl}, PutDone(t) PROVE Neighbour'
  <2>1. t \in Thread
    BY DEF Thread
  <2>2. KeptListed
    BY <1>7, PutDoneMoves, KeptListedIs DEF PutsAndRests
  <2>. QED
    BY <1>7, <2>1, <2>2, PutDoneMoves, NeighbourMove DEF PutsAndRests
<1>8. ASSUME Unregister PROVE Neighbour'
  BY <1>8, UnregisterMoves, KeptListedIs, NeighbourMove DEF PutsPortAndRests
<1>9. ASSUME DeleteCtrl PROVE Neighbour'
  BY <1>9, DeleteCtrlMoves, KeptListedIs, NeighbourMove
<1>14. ASSUME FindCtrl PROVE Neighbour'
  BY <1>14, FindCtrlMoves, KeptListedIs, NeighbourMove
<1>15. ASSUME CtrlPut PROVE Neighbour'
  BY <1>15, CtrlPutMoves, KeptListedIs, NeighbourMove DEF PutsPortAndRests
<1>10. ASSUME NEW c \in Cmd, CmdArrive(c) PROVE Neighbour'
  BY <1>10, CmdArriveMoves, KeptListedIs, NeighbourMove
<1>11. ASSUME NEW c \in Cmd, CmdEnd(c) PROVE Neighbour'
  BY <1>11, CmdEndMoves, KeptListedIs, NeighbourMove, ZenonT(60) DEF QueuePuts
<1>12. ASSUME AddPort PROVE Neighbour'
  BY <1>12, AddPortMoves, KeptListedIs, NeighbourMove
<1>13. ASSUME RemovePort PROVE Neighbour'
  BY <1>13, RemovePortMoves, KeptListedIs, NeighbourMove DEF PutsPortAndRests
<1>. QED
  BY <1>1, <1>2, <1>3, <1>4, <1>5, <1>6, <1>7, <1>8, <1>9, <1>10, <1>11, <1>12, <1>13,
     <1>14, <1>15
  DEF Next, Freeing

LEMMA InitNeighbour == Init => Neighbour
  BY RestingIs DEF Init, Neighbour, Pcs, Thread

LEMMA InitExact == Init => Exact
  BY InitBase, InitCounted, InitQueueCounted, InitFresh, InitNeighbour DEF Exact

LEMMA StepExact == Exact /\ [Next]_vars => Exact'
<1>. SUFFICES ASSUME Exact, [Next]_vars PROVE Exact'
  OBVIOUS
<1>1. Base /\ Base' /\ OneDeleter' /\ AssocCounted'
  BY StepBase, StepCounted DEF Exact
<1>2. CASE Next
  BY <1>1, <1>2, QueueCountedStep, FreshStep, NeighbourStep DEF Exact
<1>3. CASE UNCHANGED vars
  <2>1. QueueCounted'
    BY <1>3 DEF vars, Exact, QueueCounted, QueueGrown, Hold, Holds, Drop, DropsQueue
  <2>2. AllFresh'
    BY <1>3 DEF vars, Exact, AllFresh, Fresh, Creates
  <2>3. Neighbour'
    BY <1>3 DEF vars, Exact, Neighbour
  <2>. QED
    BY <1>1, <2>1, <2>2, <2>3 DEF Exact
<1>. QED
  BY <1>2, <1>3

\* The count of an association or a queue (nvmet_fc_tgt_a_get, nvmet_fc_tgt_q_get and
\* their puts) is that of its holders as long as it was not deleted twice and no
\* association found when its count was zero; and what is created is not deleted
\* meanwhile, and the neighbour of the loop not freed, unless that race has happened.
THEOREM ExactCorrect == Spec => []Exact
<1>. QED
  BY InitExact, StepExact, PTL DEF Spec

-----------------------------------------------------------------------------
(* What somebody holds has not been freed.                                 *)

LEMMA AssocHeld ==
    ASSUME Exact, races \intersect {"twice", "dying"} = {}, NEW a \in Assoc,
           assoc[a].st # "none",
           \/ \E t \in Thread : \/ Finder(t, thread[t], a) \/ Owes(thread[t], a)
                                \/ Ending(thread[t], a)
           \/ \E q \in Queue : queue[q].st = "live" /\ queue[q].assoc = a
           \/ a \notin deleted
    PROVE  assoc[a].ref > 0 /\ assoc[a].st = "live"
<1>1. /\ Find(a) \in SUBSET Thread /\ Owe(a) \in SUBSET Thread /\ End(a) \in SUBSET Thread
      /\ Live(a) \in SUBSET Queue /\ IsFiniteSet(Thread) /\ IsFiniteSet(Queue)
  BY DEF Find, Owe, End, Live
<1>2. Find(a) # {} \/ Owe(a) # {} \/ End(a) # {} \/ Live(a) # {} \/ a \notin deleted
  BY DEF Find, Owe, End, Live
<1>3. Grown(a) = assoc[a].ref
  <2>1. assoc[a].ref \in Nat
    BY Fields DEF Exact, Base
  <2>. QED
    BY <2>1 DEF Grown, One
<1>4. assoc[a].ref = Cardinality(Find(a)) + Cardinality(Owe(a)) + Cardinality(End(a))
                     + Cardinality(Live(a)) + One(a \notin deleted)
  BY <1>3 DEF Exact, AssocCounted
<1>5. a \notin deleted => One(a \notin deleted) = 1
  BY DEF One
<1>6. One(a \notin deleted) \in Nat
  BY DEF One
<1>. HIDE DEF Find, Owe, End, Live, One
<1>7. IsFiniteSet(Find(a)) /\ IsFiniteSet(Owe(a)) /\ IsFiniteSet(End(a)) /\ IsFiniteSet(Live(a))
  BY <1>1, FS_Subset
<1>8. PICK f, o, e, l, d \in Nat :
        /\ f = Cardinality(Find(a)) /\ o = Cardinality(Owe(a)) /\ e = Cardinality(End(a))
        /\ l = Cardinality(Live(a)) /\ d = One(a \notin deleted)
  BY <1>6, <1>7, FS_CardinalityType
<1>9. f # 0 \/ o # 0 \/ e # 0 \/ l # 0 \/ d # 0
  BY <1>2, <1>5, <1>7, <1>8, FS_EmptySet
<1>10. f + o + e + l + d > 0
  BY <1>9
<1>11. assoc[a].ref > 0
  BY <1>4, <1>8, <1>10
<1>. QED
  BY <1>11 DEF Exact, Base, Alive

LEMMA QueueHeld ==
    ASSUME Exact, "twice" \notin races, NEW q \in Queue, queue[q].st # "none",
           \/ \E t \in Thread : Holds(thread[t], q) \/ DropsQueue(thread[t], q)
           \/ q \notin deleted
    PROVE  queue[q].ref > 0 /\ queue[q].st = "live"
<1>1. Hold(q) \in SUBSET Thread /\ Drop(q) \in SUBSET Thread /\ IsFiniteSet(Thread)
  BY DEF Hold, Drop
<1>2. Hold(q) # {} \/ Drop(q) # {} \/ q \notin deleted
  BY DEF Hold, Drop
<1>3. QueueGrown(q) = queue[q].ref
  <2>1. queue[q].ref \in Nat
    BY Fields DEF Exact, Base
  <2>. QED
    BY <2>1 DEF QueueGrown, One
<1>4. queue[q].ref = Cardinality(Hold(q)) + Cardinality(Drop(q)) + One(q \notin deleted)
  BY <1>3 DEF Exact, QueueCounted
<1>5. (q \notin deleted => One(q \notin deleted) = 1) /\ One(q \notin deleted) \in Nat
  BY DEF One
<1>. HIDE DEF Hold, Drop, One
<1>6. IsFiniteSet(Hold(q)) /\ IsFiniteSet(Drop(q))
  BY <1>1, FS_Subset
<1>7. PICK h, o, d \in Nat :
        h = Cardinality(Hold(q)) /\ o = Cardinality(Drop(q)) /\ d = One(q \notin deleted)
  BY <1>5, <1>6, FS_CardinalityType
<1>8. h # 0 \/ o # 0 \/ d # 0
  BY <1>2, <1>5, <1>6, <1>7, FS_EmptySet
<1>9. h + o + d > 0
  BY <1>8
<1>10. queue[q].ref > 0
  BY <1>4, <1>7, <1>9
<1>. QED
  BY <1>10 DEF Exact, Base, Alive

\* Who has the port bound holds it.
LEMMA PortHeld ==
    ASSUME Inv, "bound" \notin races, thread[Conf].pc = "bound"
    PROVE  tgt.ref # 0
<1>1. tgt.port /\ User = 1
  BY DEF Inv, UserOK, User
<1>2. tgt.ref = Cardinality(Registered) + User + Cardinality(Held) + Cardinality(Serving)
                + Cardinality(Looking)
  BY PortCount DEF Inv
<1>3. /\ Registered \in SUBSET {Unreg} /\ Held \in SUBSET Assoc /\ Serving \in SUBSET Iod
      /\ Looking \in SUBSET {Ctrl}
  BY DEF Registered, Held, Serving, Looking
<1>. HIDE DEF Registered, Held, Serving, Looking, User
<1>4. PICK r, h, s, l \in Nat :
        /\ r = Cardinality(Registered) /\ h = Cardinality(Held)
        /\ s = Cardinality(Serving) /\ l = Cardinality(Looking)
  BY <1>3, Sizes
<1>5. tgt.ref = r + 1 + h + s + l
  BY <1>1, <1>2, <1>4
<1>. QED
  BY <1>4, <1>5

-----------------------------------------------------------------------------
(* Stale memory.                                                           *)

NoRaces == races \intersect {"twice", "young", "dying", "neighbour", "bound"} = {}

\* What a thread holds at its place.
LEMMA HolderUses ==
    ASSUME Exact, NoRaces, NEW t \in Thread, thread[t].duty = "none",
           thread[t].pc \in {"alloc_queue", "find_queue", "publish", "put_found", "begin",
                             "scan", "put_assoc", "done"},
           ~(thread[t].pc = "begin" /\ thread[t].assoc \in deleted)
    PROVE  LET a == thread[t].assoc IN
           a \in Assoc /\ assoc[a].ref > 0 /\ assoc[a].st = "live"
<1>. DEFINE me == thread[t]  a == me.assoc
<1>1. ThreadOK(t, me) /\ PlaceOK(t, me)
  BY DEF Exact, Base, Inv, ThreadsOK, Places
<1>2. a \in Assoc
  BY <1>1 DEF ThreadOK, AssocUsers
<1>3. assoc[a].st # "none"
  BY <1>2, InBase DEF Exact
<1>4. t \in Iod \/ t = Unreg \/ t = Ctrl
  BY <1>1 DEF PlaceOK, ThreadOK, Thread
<1>5. races \intersect {"twice", "dying"} = {} /\ "young" \notin races
  BY DEF NoRaces
<1>6. CASE me.pc \in {"scan", "put_assoc"}
  <2>1. Ending(me, a)
    BY <1>1, <1>6 DEF PlaceOK, Ending
  <2>. QED
    BY <1>2, <1>3, <1>5, <2>1, AssocHeld
<1>7. CASE me.pc \in {"begin", "done"} /\ t \in {Unreg, Ctrl}
  <2>1. Finder(t, me, a)
    BY <1>7 DEF Finder
  <2>. QED
    BY <1>2, <1>3, <1>5, <2>1, AssocHeld
<1>8. CASE me.pc = "begin" /\ t \in Iod
  BY <1>2, <1>3, <1>5, <1>8, AssocHeld
<1>9. CASE me.pc \in {"alloc_queue", "find_queue", "publish", "put_found"}
  <2>1. t \in Iod /\ me.all = FALSE
    BY <1>1, <1>4, <1>9 DEF PlaceOK, DeletePcs, UnregPcs, CtrlPcs
  <2>2. CASE me.rqst.kind = "create"
    <3>1. Fresh(me) /\ Creates(me)
      BY <1>1, <1>9, <2>1, <2>2 DEF Exact, AllFresh, Creates, PlaceOK
    <3>2. a \notin deleted
      BY <1>5, <2>2, <3>1 DEF Fresh
    <3>. QED
      BY <1>2, <1>3, <1>5, <3>2, AssocHeld
  <2>3. CASE me.rqst.kind # "create"
    <3>1. Finder(t, me, a)
      BY <1>1, <1>9, <2>1, <2>3 DEF Finder, PlaceOK
    <3>. QED
      BY <1>2, <1>3, <1>5, <3>1, AssocHeld
  <2>. QED
    BY <2>2, <2>3
<1>10. me.pc = "done" => t \in {Unreg, Ctrl}
  BY <1>1, <1>4 DEF PlaceOK, IodPcs
<1>. QED
  BY <1>4, <1>6, <1>7, <1>8, <1>9, <1>10

LEMMA CreatorUses ==
    ASSUME Exact, NoRaces, NEW t \in Thread, thread[t].pc = "use_queue"
    PROVE  /\ thread[t].queue \in Queue /\ queue[thread[t].queue].st = "live"
           /\ thread[t].assoc \in Assoc /\ assoc[thread[t].assoc].st = "live"
<1>. DEFINE me == thread[t]  q == me.queue  a == me.assoc
<1>1. ThreadOK(t, me) /\ PlaceOK(t, me)
  BY DEF Exact, Base, Inv, ThreadsOK, Places
<1>2. q \in Queue /\ q # None
  BY <1>1 DEF ThreadOK, QueueUsers
<1>3. queue[q].st # "none"
  BY <1>2, InBase DEF Exact
<1>4. t \in Iod
  BY <1>1 DEF PlaceOK, ThreadOK, DeletePcs, UnregPcs, CtrlPcs, Thread
<1>5. Fresh(me) /\ Creates(me)
  BY <1>1, <1>4 DEF Exact, AllFresh, Creates, PlaceOK
<1>6. "young" \notin races /\ "twice" \notin races /\ races \intersect {"twice", "dying"} = {}
  BY DEF NoRaces
<1>7. queue[q].assoc = a /\ q \notin deleted
  BY <1>2, <1>5, <1>6 DEF Fresh
<1>8. queue[q].st = "live"
  BY <1>2, <1>3, <1>6, <1>7, QueueHeld
<1>9. a \in Assoc /\ assoc[a].st # "none"
  BY <1>2, <1>3, <1>7 DEF Exact, Base, Known, KnownQueues, KnownAssoc
<1>10. assoc[a].st = "live"
  BY <1>2, <1>6, <1>7, <1>8, <1>9, AssocHeld
<1>. QED
  BY <1>2, <1>8, <1>9, <1>10

LEMMA QueueUses ==
    ASSUME Exact, NoRaces, NEW t \in Thread,
           thread[t].pc \in {"delete", "drop", "put_queue", "command"}
    PROVE  LET q == thread[t].queue IN
           q \in Queue /\ queue[q].ref > 0 /\ queue[q].st = "live"
<1>. DEFINE q == thread[t].queue
<1>1. q \in Queue
  BY DEF Exact, Base, Inv, ThreadsOK, ThreadOK, QueueUsers
<1>2. queue[q].st # "none"
  BY <1>1, InBase DEF Exact
<1>3. Holds(thread[t], q) /\ "twice" \notin races
  BY DEF Holds, NoRaces
<1>. QED
  BY <1>1, <1>2, <1>3, QueueHeld

LEMMA DutyUses ==
    ASSUME Exact, NoRaces, NEW t \in Thread, thread[t].duty \in {"put_assoc", "unlist"}
    PROVE  LET a == thread[t].owed IN
           a \in Assoc /\ assoc[a].st \in {"live", "dying"}
           /\ (thread[t].duty = "put_assoc" => assoc[a].ref > 0)
<1>. DEFINE a == thread[t].owed
<1>1. a \in Assoc /\ a # None
  BY DEF Exact, Base, Inv, ThreadsOK, ThreadOK
<1>2. assoc[a].st # "none"
  BY <1>1 DEF Exact, Base, Known, KnownThreads, KnownAssoc
<1>3. races \intersect {"twice", "dying"} = {}
  BY DEF NoRaces
<1>4. CASE thread[t].duty = "put_assoc"
  <2>1. Owes(thread[t], a)
    BY <1>4 DEF Owes
  <2>. QED
    BY <1>1, <1>2, <1>3, <2>1, AssocHeld
<1>5. CASE thread[t].duty = "unlist"
  BY <1>1, <1>5 DEF Exact, Base, Unlisting
<1>. QED
  BY <1>4, <1>5

LEMMA NotStaleIs ==
    ASSUME Exact, NoRaces, NEW t \in Thread,
           ~(thread[t].pc = "begin" /\ thread[t].assoc \in deleted),
           thread[t].pc # "past_table"
    PROVE  ~Stale(t)
<1>. DEFINE me == thread[t]
<1>0. /\ me \in Rec /\ Unreg \in Thread
      /\ \A a \in Assoc : a \notin Queue
      /\ PlaceOK(t, me) /\ ThreadOK(t, me)
  BY Fields DEF Exact, Base, Thread, Inv, ThreadsOK, Places
<1>1. ~(thread[t].pc = "bound" /\ tgt.ref = 0)
  <2>1. thread[t].pc = "bound" => t = Conf
    BY <1>0 DEF PlaceOK, ThreadOK, IodPcs, DeletePcs, UnregPcs, CtrlPcs, Thread
  <2>. QED
    BY <2>1, PortHeld DEF Exact, Base, NoRaces
<1>2. CASE me.duty \in {"put_assoc", "unlist"}
  <2>1. Uses(t) \subseteq {me.owed} /\ Drops(t) \subseteq {me.owed}
        /\ (me.duty = "unlist" => Drops(t) = {})
    BY <1>2 DEF Uses, Drops
  <2>. QED
    BY <1>1, <1>2, <2>1, DutyUses DEF Stale, Gone, Dropped
<1>3. CASE me.duty = "free_port"
  <2>1. Uses(t) = {} /\ Drops(t) = {}
    BY <1>0, <1>3 DEF Uses, Drops, PlaceOK
  <2>. QED
    BY <1>1, <2>1 DEF Stale
<1>4. CASE me.duty = "none"
  <2>1. CASE me.pc \in {"alloc_queue", "find_queue", "publish", "put_found", "begin",
                        "scan", "put_assoc", "done"}
    <3>1. Uses(t) = {me.assoc} /\ Drops(t) \subseteq {me.assoc}
      BY <1>4, <2>1 DEF Uses, Drops
    <3>. QED
      BY <1>1, <1>4, <2>1, <3>1, HolderUses DEF Stale, Gone, Dropped
  <2>2. CASE me.pc = "use_queue"
    <3>1. Uses(t) = {me.assoc, me.queue} /\ Drops(t) = {}
      BY <1>4, <2>2 DEF Uses, Drops
    <3>2. me.queue \notin Assoc
      BY <2>2, CreatorUses
    <3>. QED
      BY <1>1, <2>2, <3>1, <3>2, CreatorUses DEF Stale, Gone
  <2>3. CASE me.pc \in {"delete", "drop", "put_queue", "command"}
    <3>1. Uses(t) = {me.queue} /\ Drops(t) \subseteq {me.queue}
      BY <1>4, <2>3 DEF Uses, Drops
    <3>2. me.queue \notin Assoc
      BY <2>3, QueueUses
    <3>. QED
      BY <1>1, <2>3, <3>1, <3>2, QueueUses DEF Stale, Gone, Dropped
  <2>4. CASE me.pc = "next"
    <3>1. Uses(t) = {me.next} \ {None} /\ Drops(t) = {}
      BY <1>4, <2>4 DEF Uses, Drops
    <3>2. me.next # None => t = Unreg /\ me.next \in Assoc
      BY <1>0 DEF PlaceOK, Rec
    <3>3. me.next # None => assoc[me.next].st \in {"live", "dying"}
      BY <3>2 DEF Exact, Neighbour, NoRaces
    <3>. QED
      BY <1>1, <3>1, <3>2, <3>3 DEF Stale, Gone
  <2>5. CASE me.pc \in {"idle", "alloc_assoc", "find_assoc", "respond", "unregister", "gone", "bound",
                        "find_ctrl", "put_port"}
    <3>1. Uses(t) = {} /\ Drops(t) = {}
      BY <1>4, <2>5 DEF Uses, Drops
    <3>. QED
      BY <1>1, <3>1 DEF Stale
  <2>. QED
    BY <1>0, <2>1, <2>2, <2>3, <2>4, <2>5 DEF Rec, Pcs
<1>. QED
  BY <1>0, <1>2, <1>3, <1>4 DEF Rec

\* Bad memory is used, or a count dropped below zero, only by a thread that looks up a
\* queue number past the end of the table, or after one of the races that StaleExplained
\* names: a second deletion, a deletion of what is being created,
\* an association found at count zero (nvmet_fc_find_target_assoc), the freed neighbour
\* of __nvmet_fc_free_assocs, a port bound at count zero (nvmet_fc_add_port), or a
\* disconnect that goes on to delete an association deleted meanwhile; for any number
\* of associations, queues, requests and commands.
THEOREM StaleCorrect == Spec => []StaleExplained
<1>1. ASSUME Exact PROVE StaleExplained
  <2>1. cast \subseteq Thread
    BY <1>1 DEF Exact, Base, Inv, TypeOK
  <2>. SUFFICES ASSUME NEW t \in cast, Stale(t), NoRaces,
                       ~(thread[t].pc = "begin" /\ thread[t].assoc \in deleted),
                       thread[t].pc # "past_table"
                PROVE  FALSE
    BY DEF StaleExplained, NoRaces
  <2>. QED
    BY <1>1, <2>1, NotStaleIs
<1>. QED
  BY <1>1, ExactCorrect, PTL

-----------------------------------------------------------------------------
(* The loop of __nvmet_fc_free_assocs.                                     *)

LEMMA AheadKept ==
    ASSUME Base, NEW x \in Assoc, Listed(x), NEW a \in Assoc, a # x, NEW n \in Assoc, n # x,
           Ahead(assoc_list, n, a)
    PROVE  Ahead(Unlisted(x), n, a)
<1>1. PICK p \in DOMAIN assoc_list :
        /\ assoc_list[p] = x
        /\ DOMAIN Unlisted(x) = 1 .. Len(assoc_list) - 1
        /\ \A j \in 1 .. Len(assoc_list) - 1 :
                Unlisted(x)[j] = IF j < p THEN assoc_list[j] ELSE assoc_list[j + 1]
  BY UnlistedIs
<1>2. PICK i, j \in DOMAIN assoc_list : i <= j /\ assoc_list[i] = n /\ assoc_list[j] = a
  BY DEF Ahead
<1>3. DOMAIN assoc_list = 1 .. Len(assoc_list) /\ Len(assoc_list) \in Nat
  BY DEF Base, Inv, TypeOK
<1>. DEFINE Down(k) == IF k < p THEN k ELSE k - 1
<1>4. i # p /\ j # p
  BY <1>1, <1>2
<1>5. /\ Down(i) \in 1 .. Len(assoc_list) - 1 /\ Down(j) \in 1 .. Len(assoc_list) - 1
      /\ Down(i) <= Down(j)
  BY <1>2, <1>3, <1>4
<1>6. ASSUME NEW k \in DOMAIN assoc_list, k # p, Down(k) \in 1 .. Len(assoc_list) - 1
      PROVE  Unlisted(x)[Down(k)] = assoc_list[k]
  <2>1. CASE k < p
    BY <1>1, <1>6, <2>1
  <2>2. CASE k > p
    <3>1. Down(k) = k - 1 /\ ~(k - 1 < p) /\ (k - 1) + 1 = k
      BY <1>3, <2>2
    <3>. QED
      BY <1>1, <1>6, <3>1
  <2>. QED
    BY <1>3, <1>6, <2>1, <2>2
<1>7. Unlisted(x)[Down(i)] = n /\ Unlisted(x)[Down(j)] = a
  BY <1>2, <1>4, <1>5, <1>6
<1>. HIDE DEF Down
<1>. QED
  BY <1>1, <1>5, <1>7 DEF Ahead

\* Steps that do not choose the next association.
SameLoop == /\ thread'[Unreg].pc = thread[Unreg].pc /\ thread'[Unreg].assoc = thread[Unreg].assoc
            /\ thread'[Unreg].next = thread[Unreg].next
Loops == \/ SameLoop
         \/ /\ thread[Unreg].pc # "idle" /\ thread'[Unreg].pc \notin {"idle", "unregister", "gone"}
            /\ thread'[Unreg].next = thread[Unreg].next
            /\ thread[Unreg].pc = "begin" => thread[Unreg].assoc \in deleted'
         \/ thread[Unreg].pc = "unregister"
Lists == \/ assoc_list' = assoc_list
         \/ \E x \in Assoc : /\ Listed(x) /\ assoc_list' = Unlisted(x) /\ assoc'[x].st = "freed"
                             /\ thread[Unreg].next = x => "neighbour" \in races'
         \/ thread[Unreg].pc # "idle" => "late" \in races'
LEMMA FreeLoopMove ==
    ASSUME Base, FreeLoop, Loops, Lists, races \subseteq races', deleted \subseteq deleted',
           \A a \in Assoc : assoc'[a].st = "live" =>
            assoc[a].st = "live" \/ (thread[Unreg].pc # "idle" => "late" \in races')
    PROVE  FreeLoop'
<1>. SUFFICES ASSUME races' \intersect {"late", "neighbour"} = {}, thread'[Unreg].pc # "idle",
                     NEW a \in Assoc, a \notin deleted', assoc'[a].st = "live"
              PROVE  \/ thread'[Unreg].pc = "begin" /\ thread'[Unreg].assoc = a
                     \/ thread'[Unreg].pc \notin {"unregister", "gone"}
                        /\ Ahead(assoc_list', thread'[Unreg].next, a)
  BY DEF FreeLoop, Ahead
<1>1. thread[Unreg].pc # "idle"
  BY DEF Loops, SameLoop
<1>2. races \intersect {"late", "neighbour"} = {} /\ a \notin deleted /\ assoc[a].st = "live"
  BY <1>1
<1>3. \/ thread[Unreg].pc = "begin" /\ thread[Unreg].assoc = a
      \/ thread[Unreg].pc \notin {"unregister", "gone"} /\ Ahead(assoc_list, thread[Unreg].next, a)
  BY <1>1, <1>2 DEF FreeLoop
<1>4. ASSUME Ahead(assoc_list, thread[Unreg].next, a)
      PROVE  Ahead(assoc_list', thread[Unreg].next, a)
  <2>1. thread[Unreg].next \in Assoc
    <3>1. assoc_list \in Seq(Assoc)
      BY DEF Base, Inv, TypeOK
    <3>. QED
      BY <1>4, <3>1 DEF Ahead
  <2>2. ASSUME NEW x \in Assoc, Listed(x), assoc_list' = Unlisted(x), assoc'[x].st = "freed",
               thread[Unreg].next # x
        PROVE  Ahead(assoc_list', thread[Unreg].next, a)
    <3>1. a # x
      BY <2>2
    <3>. QED
      BY <1>4, <2>1, <2>2, <3>1, AheadKept
  <2>. QED
    BY <1>1, <1>4, <2>2 DEF Lists
<1>5. CASE SameLoop
  BY <1>3, <1>4, <1>5 DEF SameLoop
<1>6. CASE /\ thread'[Unreg].pc \notin {"idle", "unregister", "gone"}
           /\ thread'[Unreg].next = thread[Unreg].next
           /\ thread[Unreg].pc = "begin" => thread[Unreg].assoc \in deleted'
  BY <1>3, <1>4, <1>6
<1>7. CASE thread[Unreg].pc = "unregister"
  BY <1>3, <1>7
<1>. QED
  BY <1>5, <1>6, <1>7 DEF Loops

\* The loop takes the first that it can get.
LEMMA FreeLoopTakes ==
    ASSUME Base, FreeLoop, FreeAssocs
    PROVE  FreeLoop'
<1>0. /\ Inv
      /\ At(Unreg, "idle") \/ At(Unreg, "next")
      /\ UNCHANGED <<tgt, assoc_list, queues, queue, cast, left, deleted, races>>
  BY FreeAssocsMoves DEF Base
<1>. SUFFICES ASSUME races \intersect {"late", "neighbour"} = {},
                     NEW a \in Assoc, a \notin deleted, assoc'[a].st = "live"
              PROVE  \/ thread'[Unreg].pc = "begin" /\ thread'[Unreg].assoc = a
                     \/ thread'[Unreg].pc \notin {"unregister", "gone"}
                        /\ Ahead(assoc_list, thread'[Unreg].next, a)
  BY <1>0 DEF FreeLoop, Ahead
<1>1. assoc[a].st = "live" /\ assoc[a].ref > 0
  <2>1. assoc[a].st = "live"
    BY <1>0, FreeAssocsMoves DEF Base, AssocTaken, OnlyAssoc
  <2>. QED
    BY <2>1 DEF Base, Alive
<1>2. assoc_list \in Seq(Assoc) /\ DOMAIN assoc_list = 1 .. Len(assoc_list) /\ Len(assoc_list) \in Nat
  BY <1>0 DEF Inv, TypeOK
<1>3. PICK m \in FreeOn : assoc_list[m] = a
  <2>1. CASE At(Unreg, "idle")
    <3>1. PICK m \in DOMAIN assoc_list : assoc_list[m] = a
      BY <1>1 DEF Base, OnList, Listed
    <3>2. FreeCursor = assoc_list[1] /\ 1 \in 1 .. m
      BY <1>2, <2>1, <3>1 DEF At, FreeCursor, First
    <3>. QED
      BY <1>1, <3>1, <3>2 DEF FreeOn
  <2>2. CASE At(Unreg, "next")
    <3>1. FreeCursor = thread[Unreg].next
      BY <2>2 DEF At, FreeCursor
    <3>2. Ahead(assoc_list, thread[Unreg].next, a)
      BY <1>1, <2>2 DEF FreeLoop, At
    <3>3. PICK k, m \in DOMAIN assoc_list : k <= m /\ assoc_list[k] = FreeCursor /\ assoc_list[m] = a
      BY <3>1, <3>2 DEF Ahead
    <3>4. k \in 1 .. m
      BY <1>2, <3>3
    <3>. QED
      BY <1>1, <3>3, <3>4 DEF FreeOn
  <2>. QED
    BY <1>0, <2>1, <2>2
<1>4. PICK j \in FreeOn :
        /\ \A k \in FreeOn : j <= k
        /\ Walks(Unreg, "begin", {"assoc", "next"})
        /\ thread'[Unreg].assoc = assoc_list[j] /\ thread'[Unreg].next = After(j)
  BY <1>0, <1>3, FreeAssocsMoves
<1>5. j \in DOMAIN assoc_list /\ m \in DOMAIN assoc_list /\ j <= m
  BY <1>3, <1>4 DEF FreeOn
<1>6. thread'[Unreg].pc = "begin"
  BY <1>4 DEF Walks
<1>7. CASE j = m
  BY <1>3, <1>4, <1>6, <1>7
<1>8. CASE j # m
  <2>1. j + 1 \in DOMAIN assoc_list /\ j + 1 <= m /\ After(j) = assoc_list[j + 1]
    BY <1>2, <1>5, <1>8 DEF After
  <2>. QED
    BY <1>3, <1>4, <1>5, <1>6, <2>1 DEF Ahead
<1>. QED
  BY <1>7, <1>8

OldLive == \A a \in Assoc : assoc'[a].st = "live" => assoc[a].st = "live"
LEMMA OldLiveIs ==
    ASSUME UNCHANGED assoc \/ \E a \in Assoc : AssocTaken(a) \/ AssocGiven(a)
                              \/ (OnlyAssoc(a) /\ assoc'[a].st = "freed")
    PROVE  OldLive
  BY DEF OldLive, AssocTaken, AssocGiven, OnlyAssoc

LEMMA LoopsElsewhere ==
    ASSUME NEW t \in Thread, t # Unreg, \A x \in Thread \ {t} : thread'[x] = thread[x]
    PROVE  Loops
  BY DEF Loops, SameLoop, Thread

LEMMA FreeLoopPlain ==
    ASSUME Base, FreeLoop, Loops, OldLive, assoc_list' = assoc_list, races \subseteq races',
           deleted \subseteq deleted'
    PROVE  FreeLoop'
  BY FreeLoopMove DEF OldLive, Lists

LEMMA FreeLoopStep ==
    ASSUME Base, FreeLoop, Next
    PROVE  FreeLoop'
<1>0. Inv /\ Unreg \in Thread
  BY DEF Base, Thread
<1>. USE <1>0 DEF Walks, Rests, Same, At
<1>1. ASSUME NEW i \in Iod, LsRequest(i) PROVE FreeLoop'
  <2>0. i \in Thread /\ i # Unreg
    BY DEF Thread
  <2>1. ASSUME RcvLsReq(i) PROVE FreeLoop'
    <3>1. UNCHANGED <<assoc, assoc_list, races, deleted>> /\ OldLive
      BY <2>1, OldLiveIs DEF RcvLsReq
    <3>. QED
      BY <2>0, <2>1, <3>1, RcvLsReqMoves, LoopsElsewhere, FreeLoopPlain
  <2>2. ASSUME AllocAssoc(i) PROVE FreeLoop'
    <3>1. deleted' = deleted
      BY <2>2, AllocAssocMoves
    <3>2. CASE Walks(i, "respond", {}) /\ UNCHANGED <<tgt, assoc_list, assoc, races>>
      <4>1. OldLive
        BY <3>2, OldLiveIs
      <4>. QED
        BY <2>0, <3>1, <3>2, <4>1, LoopsElsewhere, FreeLoopPlain
    <3>3. ASSUME NEW a \in Assoc, AssocMade(a),
                 races' = races \union Race(thread[Unreg].pc # "idle", "late"),
                 Walks(i, "alloc_queue", {"assoc"})
          PROVE  FreeLoop'
      <4>1. thread[Unreg].pc # "idle" => "late" \in races'
        BY <3>3 DEF Race
      <4>2. Loops /\ Lists /\ races \subseteq races'
        BY <2>0, <3>3, <4>1, LoopsElsewhere DEF Lists
      <4>. QED
        BY <3>1, <4>1, <4>2, FreeLoopMove
    <3>. QED
      BY <2>2, <3>2, <3>3, AllocAssocMoves
  <2>3. ASSUME FindAssoc(i) PROVE FreeLoop'
    <3>1. OldLive
      BY <2>3, FindAssocMoves, OldLiveIs
    <3>. QED
      BY <2>0, <2>3, <3>1, FindAssocMoves, LoopsElsewhere, FreeLoopPlain
  <2>4. ASSUME AllocQueue(i) PROVE FreeLoop'
    <3>1. OldLive
      BY <2>4, AllocQueueMoves, OldLiveIs
    <3>. QED
      BY <2>0, <2>4, <3>1, AllocQueueMoves, LoopsElsewhere, FreeLoopPlain
  <2>5. ASSUME Publish(i) PROVE FreeLoop'
    BY <2>0, <2>5, OldLiveIs, PublishMoves, LoopsElsewhere, FreeLoopPlain
  <2>6. ASSUME UseQueue(i) PROVE FreeLoop'
    BY <2>0, <2>6, OldLiveIs, UseQueueMoves, LoopsElsewhere, FreeLoopPlain
  <2>7. ASSUME FindQueue(i) PROVE FreeLoop'
    BY <2>0, <2>7, OldLiveIs, FindQueueMoves, LoopsElsewhere, FreeLoopPlain
  <2>8. ASSUME PutFound(i) PROVE FreeLoop'
    <3>1. OldLive
      BY <2>8, PutFoundMoves, OldLiveIs DEF PutsAndWalks
    <3>. QED
      BY <2>0, <2>8, <3>1, PutFoundMoves, LoopsElsewhere, FreeLoopPlain DEF PutsAndWalks
  <2>9. ASSUME Respond(i) PROVE FreeLoop'
    BY <2>0, <2>9, OldLiveIs, RespondMoves, LoopsElsewhere, FreeLoopPlain DEF PutsPortAndRests
  <2>. QED
    BY <1>1, <2>1, <2>2, <2>3, <2>4, <2>5, <2>6, <2>7, <2>8, <2>9 DEF LsRequest
<1>2. ASSUME NEW t \in Thread, Deletion(t) PROVE FreeLoop'
  <2>0. ASSUME NEW pc \in Pcs \ {"idle", "unregister", "gone"}, thread[t].pc # "idle",
               \A x \in Thread \ {t} : thread'[x] = thread[x],
               thread'[t].pc = pc, thread'[t].next = thread[t].next,
               thread[t].pc = "begin" => thread[t].assoc \in deleted'
        PROVE  Loops
    BY <2>0, LoopsElsewhere DEF Loops
  <2>1. ASSUME DeleteQueue(t) PROVE FreeLoop'
    <3>1. Loops
      BY <2>0, <2>1, DeleteQueueMoves DEF Pcs
    <3>. QED
      BY <2>1, <3>1, DeleteQueueMoves, OldLiveIs, FreeLoopPlain
  <2>2. ASSUME DropQueue(t) PROVE FreeLoop'
    <3>1. Loops
      BY <2>0, <2>2, DropQueueMoves DEF Pcs, QueuePuts
    <3>. QED
      BY <2>2, <3>1, DropQueueMoves, OldLiveIs, FreeLoopPlain
  <2>3. ASSUME PutQueue(t) PROVE FreeLoop'
    <3>1. PICK pc \in {"scan", "put_found"} : QueuePuts(t, pc)
      BY <2>3, PutQueueMoves
    <3>2. thread[t].pc = "put_queue" /\ UNCHANGED <<assoc, assoc_list, races, deleted>>
      BY <2>3, PutQueueMoves
    <3>3. Loops
      BY <2>0, <3>1, <3>2 DEF Pcs, QueuePuts
    <3>. QED
      BY <3>2, <3>3, OldLiveIs, FreeLoopPlain
  <2>4. ASSUME BeginAssoc(t) PROVE FreeLoop'
    <3>1. Loops
      BY <2>0, <2>4, BeginAssocMoves DEF Pcs
    <3>. QED
      BY <2>4, <3>1, BeginAssocMoves, OldLiveIs, FreeLoopPlain
  <2>5. ASSUME ScanQueues(t) PROVE FreeLoop'
    <3>1. Loops
      BY <2>0, <2>5, ScanQueuesMoves DEF Pcs
    <3>. QED
      BY <2>5, <3>1, ScanQueuesMoves, OldLiveIs, FreeLoopPlain
  <2>6. ASSUME PutAssoc(t) PROVE FreeLoop'
    <3>1. PICK pc \in {"respond", "done"} : PutsAndWalks(t, pc, thread[t].assoc)
      BY <2>6, PutAssocMoves
    <3>2. thread[t].pc = "put_assoc" /\ UNCHANGED <<assoc_list, races, deleted>>
          /\ thread[t].assoc \in Assoc
      BY <2>6, PutAssocMoves
    <3>3. Loops
      BY <2>0, <3>1, <3>2 DEF Pcs, PutsAndWalks
    <3>4. OldLive
      BY <3>1, <3>2, OldLiveIs DEF PutsAndWalks
    <3>. QED
      BY <3>2, <3>3, <3>4, FreeLoopPlain
  <2>. QED
    BY <1>2, <2>1, <2>2, <2>3, <2>4, <2>5, <2>6 DEF Deletion
<1>3. ASSUME NEW t \in Thread, FreedQueuePuts(t) PROVE FreeLoop'
  <2>1. OldLive
    BY <1>3, FreedQueuePutsMoves, OldLiveIs
  <2>2. Loops
    BY <1>3, FreedQueuePutsMoves DEF Loops, SameLoop
  <2>. QED
    BY <1>3, <2>1, <2>2, FreedQueuePutsMoves, FreeLoopPlain
<1>4. ASSUME NEW t \in Thread, AssocFree(t) PROVE FreeLoop'
  <2>. DEFINE a == thread[t].owed
  <2>1. a \in Assoc /\ OnlyAssoc(a) /\ assoc'[a].st = "freed" /\ assoc_list' = Unlisted(a)
        /\ races \subseteq races' /\ (thread[Unreg].next = a => "neighbour" \in races')
        /\ thread[t].duty = "unlist"
    BY <1>4, AssocFreeMoves
  <2>2. OldLive /\ deleted' = deleted
    BY <1>4, <2>1, OldLiveIs DEF AssocFree
  <2>3. Listed(a)
    BY <2>1 DEF Base, Unlisting, OnList
  <2>4. Loops
    BY <1>4, AssocFreeMoves DEF Loops, SameLoop
  <2>5. Lists
    BY <2>1, <2>3 DEF Lists
  <2>. QED
    BY <2>1, <2>2, <2>4, <2>5, FreeLoopMove DEF OldLive
<1>5. ASSUME NEW t \in Thread, FreeTgtport(t) PROVE FreeLoop'
  <2>2. Loops
    BY <1>5, FreeTgtportMoves DEF Loops, SameLoop
  <2>. QED
    BY <1>5, <2>2, OldLiveIs, FreeTgtportMoves, FreeLoopPlain
<1>6. ASSUME FreeAssocs PROVE FreeLoop'
  BY <1>6, FreeLoopTakes
<1>7. ASSUME NEW t \in {Unreg, Ctrl}, PutDone(t) PROVE FreeLoop'
  <2>1. t \in Thread /\ thread[t].assoc \in Assoc
    BY <1>7, PutDoneMoves DEF Thread
  <2>2. OldLive
    BY <1>7, <2>1, PutDoneMoves, OldLiveIs DEF PutsAndRests
  <2>3. Loops
    <3>1. CASE t = Unreg
      BY <1>7, <3>1, PutDoneMoves DEF PutsAndRests, Loops
    <3>2. CASE t # Unreg
      BY <1>7, <2>1, <3>2, PutDoneMoves, LoopsElsewhere DEF PutsAndRests
    <3>. QED
      BY <3>1, <3>2
  <2>. QED
    BY <1>7, <2>2, <2>3, PutDoneMoves, FreeLoopPlain
<1>8. ASSUME Unregister PROVE FreeLoop'
  <2>1. Loops
    BY <1>8, UnregisterMoves DEF Loops
  <2>. QED
    BY <1>8, <2>1, OldLiveIs, UnregisterMoves, FreeLoopPlain
<1>9. ASSUME DeleteCtrl PROVE FreeLoop'
  <2>1. OldLive
    BY <1>9, DeleteCtrlMoves, OldLiveIs
  <2>. QED
    BY <1>9, <2>1, DeleteCtrlMoves, LoopsElsewhere, FreeLoopPlain
<1>13. ASSUME FindCtrl PROVE FreeLoop'
  <2>1. OldLive
    BY <1>13, FindCtrlMoves, OldLiveIs
  <2>. QED
    BY <1>13, <2>1, FindCtrlMoves, LoopsElsewhere, FreeLoopPlain
<1>14. ASSUME CtrlPut PROVE FreeLoop'
  <2>1. OldLive
    BY <1>14, CtrlPutMoves, OldLiveIs
  <2>. QED
    BY <1>14, <2>1, CtrlPutMoves, LoopsElsewhere, FreeLoopPlain DEF PutsPortAndRests
<1>10. ASSUME NEW c \in Cmd PROVE CmdArrive(c) \/ CmdEnd(c) => FreeLoop'
  <2>0. c \in Thread /\ c # Unreg
    BY DEF Thread
  <2>1. ASSUME CmdArrive(c) PROVE FreeLoop'
    BY <2>0, <2>1, CmdArriveMoves, OldLiveIs, LoopsElsewhere, FreeLoopPlain
  <2>2. ASSUME CmdEnd(c) PROVE FreeLoop'
    BY <2>0, <2>2, CmdEndMoves, OldLiveIs, LoopsElsewhere, FreeLoopPlain DEF QueuePuts
  <2>. QED
    BY <2>1, <2>2
<1>11. ASSUME AddPort PROVE FreeLoop'
  BY <1>11, AddPortMoves, OldLiveIs, LoopsElsewhere, FreeLoopPlain
<1>12. ASSUME RemovePort PROVE FreeLoop'
  BY <1>12, RemovePortMoves, OldLiveIs, LoopsElsewhere, FreeLoopPlain DEF PutsPortAndRests
<1>. QED
  BY <1>1, <1>2, <1>3, <1>4, <1>5, <1>6, <1>7, <1>8, <1>9, <1>10, <1>11, <1>12,
     <1>13, <1>14 DEF Next, Freeing

-----------------------------------------------------------------------------
(* The end of the port.                                                    *)

\* A thread puts the port, takes it, or leaves its count alone.
PortLess(t) == /\ tgt.ref > 0 /\ tgt'.ref = tgt.ref - 1
               /\ IF tgt.ref = 1 THEN tgt'.st = "dying" /\ thread'[t].duty = "free_port"
                  ELSE tgt'.st = tgt.st
PortMore == tgt'.ref > 0 /\ tgt'.st = tgt.st
LEMMA PortLessIs ==
    ASSUME Inv, Inv', NEW t \in Thread, tgt' = TgtLess \/ tgt' = [TgtLess EXCEPT !.port = FALSE],
           tgt.ref = 1 => thread'[t].duty = "free_port"
    PROVE  PortLess(t) /\ (tgt'.port => tgt.port)
<1>1. tgt \in TgtRec /\ tgt.ref \in Nat /\ tgt'.ref \in Nat
  BY DEF Inv, TypeOK, TgtRec
<1>2. /\ TgtLess.ref = tgt.ref - 1 /\ TgtLess.st = IF tgt.ref = 1 THEN "dying" ELSE tgt.st
      /\ TgtLess.port = tgt.port
  BY <1>1 DEF TgtLess, TgtRec
<1>3. /\ tgt'.ref = tgt.ref - 1 /\ tgt'.st = IF tgt.ref = 1 THEN "dying" ELSE tgt.st
      /\ tgt'.port => tgt.port
  <2>1. CASE tgt' = TgtLess
    BY <1>2, <2>1
  <2>2. CASE tgt' = [TgtLess EXCEPT !.port = FALSE]
    <3>1. TgtLess = [tgt EXCEPT !.ref = tgt.ref - 1, !.st = IF tgt.ref = 1 THEN "dying" ELSE tgt.st]
      BY <1>1 DEF TgtLess, TgtRec
    <3>2. tgt' = [tgt EXCEPT !.ref = tgt.ref - 1, !.st = IF tgt.ref = 1 THEN "dying" ELSE tgt.st,
                             !.port = FALSE]
      BY <1>1, <2>2, <3>1 DEF TgtRec
    <3>. QED
      BY <1>1, <3>2 DEF TgtRec
  <2>. QED
    BY <2>1, <2>2
<1>. QED
  BY <1>1, <1>3 DEF PortLess

LEMMA PortEndsMove ==
    ASSUME Inv, Inv', PortEnds, NEW t \in Thread, \A x \in Thread \ {t} : thread'[x] = thread[x],
           tgt'.port => thread'[Conf].pc = "bound",
           \/ PortLess(t) /\ thread[t].duty # "free_port"
           \/ /\ PortMore \/ (tgt'.ref = tgt.ref /\ tgt'.st = tgt.st)
              /\ thread[t].duty # "free_port"
           \/ tgt'.st = "deleted"
    PROVE  PortEnds'
<1>1. tgt.ref \in Nat /\ tgt'.ref \in Nat
  BY DEF Inv, TypeOK
<1>2. CASE PortLess(t) /\ thread[t].duty # "free_port"
  <2>1. tgt'.ref = 0 => tgt'.st # "live"
    BY <1>1, <1>2 DEF PortLess
  <2>2. tgt'.st = "dying" => \E x \in Thread : thread'[x].duty = "free_port"
    <3>1. CASE tgt.ref = 1
      BY <1>2, <3>1 DEF PortLess
    <3>2. CASE tgt.ref # 1
      BY <1>2, <3>2 DEF PortLess, PortEnds
    <3>. QED
      BY <3>1, <3>2
  <2>. QED
    BY <2>1, <2>2 DEF PortEnds
<1>3. CASE /\ PortMore \/ (tgt'.ref = tgt.ref /\ tgt'.st = tgt.st)
           /\ thread[t].duty # "free_port"
  BY <1>1, <1>3 DEF PortMore, PortEnds
<1>4. CASE tgt'.st = "deleted"
  BY <1>4 DEF PortEnds
<1>. QED
  BY <1>2, <1>3, <1>4

LEMMA PortEndsKept ==
    ASSUME Inv, Inv', PortEnds, NEW t \in Thread, \A x \in Thread \ {t} : thread'[x] = thread[x],
           tgt' = tgt, thread[t].duty # "free_port", t # Conf \/ thread'[t].pc = thread[t].pc
    PROVE  PortEnds'
<1>1. tgt'.port => thread'[Conf].pc = "bound"
  BY DEF PortEnds, Thread
<1>. QED
  BY <1>1, PortEndsMove

LEMMA PortEndsStep ==
    ASSUME Base, Base', PortEnds, Next
    PROVE  PortEnds'
<1>0. /\ Inv /\ Inv' /\ Places /\ Unreg \in Thread /\ Ctrl \in Thread /\ Conf \in Thread
      /\ tgt \in TgtRec /\ tgt.ref \in Nat
  BY DEF Base, Thread, Inv, TypeOK, TgtRec
<1>. USE <1>0 DEF Walks, Rests, Same, At
<1>1. ASSUME NEW i \in Iod, LsRequest(i) PROVE PortEnds'
  <2>0. i \in Thread /\ i # Conf
    BY DEF Thread
  <2>1. ASSUME RcvLsReq(i) PROVE PortEnds'
    <3>1. tgt' = [tgt EXCEPT !.ref = tgt.ref + 1]
      BY <2>1 DEF RcvLsReq, TgtGet, TgtRec
    <3>2. PortMore /\ tgt'.port = tgt.port
      BY <3>1 DEF PortMore, TgtRec
    <3>3. thread[i].duty = "none" /\ \A x \in Thread \ {i} : thread'[x] = thread[x]
      BY <2>1, RcvLsReqMoves
    <3>. QED
      BY <2>0, <3>2, <3>3, PortEndsMove DEF PortEnds
  <2>2. ASSUME AllocAssoc(i) PROVE PortEnds'
    <3>3. thread[i].duty = "none" /\ \A x \in Thread \ {i} : thread'[x] = thread[x]
      BY <2>2, AllocAssocMoves
    <3>4. CASE tgt' = tgt
      BY <2>0, <3>3, <3>4, PortEndsKept
    <3>5. CASE tgt' = TgtGet
      <4>1. tgt' = [tgt EXCEPT !.ref = tgt.ref + 1]
        BY <3>5 DEF TgtGet, TgtRec
      <4>2. PortMore /\ tgt'.port = tgt.port
        BY <4>1 DEF PortMore, TgtRec
      <4>. QED
        BY <2>0, <3>3, <4>2, PortEndsMove DEF PortEnds
    <3>. QED
      BY <2>2, <3>4, <3>5 DEF AllocAssoc
  <2>3. ASSUME FindAssoc(i) PROVE PortEnds'
    BY <2>0, <2>3, FindAssocMoves, PortEndsKept
  <2>4. ASSUME AllocQueue(i) PROVE PortEnds'
    BY <2>0, <2>4, AllocQueueMoves, PortEndsKept
  <2>5. ASSUME Publish(i) PROVE PortEnds'
    BY <2>0, <2>5, PublishMoves, PortEndsKept
  <2>6. ASSUME UseQueue(i) PROVE PortEnds'
    BY <2>0, <2>6, UseQueueMoves, PortEndsKept
  <2>7. ASSUME FindQueue(i) PROVE PortEnds'
    BY <2>0, <2>7, FindQueueMoves, PortEndsKept
  <2>8. ASSUME PutFound(i) PROVE PortEnds'
    BY <2>0, <2>8, PutFoundMoves, PortEndsKept DEF PutsAndWalks
  <2>9. ASSUME Respond(i) PROVE PortEnds'
    <3>1. /\ tgt.ref = 1 => thread'[i].duty = "free_port"
          /\ \A x \in Thread \ {i} : thread'[x] = thread[x]
      BY <2>9, RespondMoves DEF PutsPortAndRests
    <3>2. thread[i].duty = "none"
      BY <2>9, RespondMoves
    <3>3. tgt' = TgtLess
      BY <2>9 DEF Respond
    <3>4. PortLess(i) /\ (tgt'.port => tgt.port)
      BY <2>0, <3>1, <3>2, <3>3, PortLessIs
    <3>. QED
      BY <2>0, <3>1, <3>2, <3>4, PortEndsMove DEF PortEnds
  <2>. QED
    BY <1>1, <2>1, <2>2, <2>3, <2>4, <2>5, <2>6, <2>7, <2>8, <2>9 DEF LsRequest
<1>2. ASSUME NEW t \in Thread, Deletion(t) PROVE PortEnds'
  <2>0. thread[t].pc \in {"delete", "drop", "put_queue", "begin", "scan", "put_assoc"} => t # Conf
    BY DEF Places, PlaceOK
  <2>1. ASSUME DeleteQueue(t) PROVE PortEnds'
    BY <2>0, <2>1, DeleteQueueMoves, PortEndsKept
  <2>2. ASSUME DropQueue(t) PROVE PortEnds'
    BY <2>0, <2>2, DropQueueMoves, PortEndsKept DEF QueuePuts
  <2>3. ASSUME PutQueue(t) PROVE PortEnds'
    BY <2>0, <2>3, PutQueueMoves, PortEndsKept DEF QueuePuts
  <2>4. ASSUME BeginAssoc(t) PROVE PortEnds'
    BY <2>0, <2>4, BeginAssocMoves, PortEndsKept
  <2>5. ASSUME ScanQueues(t) PROVE PortEnds'
    BY <2>0, <2>5, ScanQueuesMoves, PortEndsKept
  <2>6. ASSUME PutAssoc(t) PROVE PortEnds'
    BY <2>0, <2>6, PutAssocMoves, PortEndsKept DEF PutsAndWalks
  <2>. QED
    BY <1>2, <2>1, <2>2, <2>3, <2>4, <2>5, <2>6 DEF Deletion
<1>3. ASSUME NEW t \in Thread, FreedQueuePuts(t) PROVE PortEnds'
  BY <1>3, FreedQueuePutsMoves, PortEndsKept
<1>4. ASSUME NEW t \in Thread, AssocFree(t) PROVE PortEnds'
  <2>1. /\ thread[t].duty = "unlist" /\ thread'[t].pc = thread[t].pc
        /\ \A x \in Thread \ {t} : thread'[x] = thread[x]
    BY <1>4, AssocFreeMoves
  <2>2. tgt.ref = 1 => thread'[t].duty = "free_port"
    BY <1>4, AssocFreeMoves
  <2>3. tgt' = TgtLess
    BY <1>4 DEF AssocFree
  <2>4. PortLess(t) /\ (tgt'.port => tgt.port)
    BY <2>2, <2>3, PortLessIs
  <2>. QED
    BY <2>1, <2>4, PortEndsMove DEF PortEnds
<1>5. ASSUME NEW t \in Thread, FreeTgtport(t) PROVE PortEnds'
  <2>1. tgt' = [tgt EXCEPT !.st = "deleted"]
    BY <1>5 DEF FreeTgtport
  <2>2. tgt'.st = "deleted" /\ tgt'.port = tgt.port
    BY <2>1 DEF TgtRec
  <2>3. /\ thread'[t].pc = thread[t].pc
        /\ \A x \in Thread \ {t} : thread'[x] = thread[x]
    BY <1>5, FreeTgtportMoves
  <2>. QED
    BY <2>2, <2>3, PortEndsMove DEF PortEnds
<1>6. ASSUME FreeAssocs PROVE PortEnds'
  BY <1>6, FreeAssocsMoves, PortEndsKept
<1>7. ASSUME NEW t \in {Unreg, Ctrl}, PutDone(t) PROVE PortEnds'
  BY <1>7, PutDoneMoves, PortEndsKept DEF PutsAndRests
<1>8. ASSUME Unregister PROVE PortEnds'
  <2>1. /\ thread[Unreg].duty = "none"
        /\ \A x \in Thread \ {Unreg} : thread'[x] = thread[x]
    BY <1>8, UnregisterMoves DEF PutsPortAndRests
  <2>2. tgt.ref = 1 => thread'[Unreg].duty = "free_port"
    BY <1>8, UnregisterMoves DEF PutsPortAndRests
  <2>3. tgt' = TgtLess
    BY <1>8 DEF Unregister
  <2>4. PortLess(Unreg) /\ (tgt'.port => tgt.port)
    BY <2>2, <2>3, PortLessIs
  <2>. QED
    BY <2>1, <2>4, PortEndsMove DEF PortEnds
<1>9. ASSUME DeleteCtrl PROVE PortEnds'
  <2>1. /\ thread[Ctrl].duty = "none" /\ Ctrl # Conf
        /\ \A x \in Thread \ {Ctrl} : thread'[x] = thread[x]
    BY <1>9, DeleteCtrlMoves
  <2>2. CASE tgt' = tgt
    BY <2>1, <2>2, PortEndsKept
  <2>3. CASE tgt' = TgtGet
    <3>1. tgt' = [tgt EXCEPT !.ref = tgt.ref + 1]
      BY <2>3 DEF TgtGet, TgtRec
    <3>2. PortMore /\ tgt'.port = tgt.port
      BY <3>1 DEF PortMore, TgtRec
    <3>. QED
      BY <2>1, <3>2, PortEndsMove DEF PortEnds
  <2>. QED
    BY <1>9, <2>2, <2>3 DEF DeleteCtrl
<1>13. ASSUME FindCtrl PROVE PortEnds'
  BY <1>13, FindCtrlMoves, PortEndsKept
<1>14. ASSUME CtrlPut PROVE PortEnds'
  <2>1. /\ thread[Ctrl].duty = "none" /\ Ctrl # Conf
        /\ \A x \in Thread \ {Ctrl} : thread'[x] = thread[x]
    BY <1>14, CtrlPutMoves DEF PutsPortAndRests
  <2>2. tgt.ref = 1 => thread'[Ctrl].duty = "free_port"
    BY <1>14, CtrlPutMoves DEF PutsPortAndRests
  <2>3. tgt' = TgtLess
    BY <1>14 DEF CtrlPut
  <2>4. PortLess(Ctrl) /\ (tgt'.port => tgt.port)
    BY <2>2, <2>3, PortLessIs
  <2>. QED
    BY <2>1, <2>4, PortEndsMove DEF PortEnds
<1>10. ASSUME NEW c \in Cmd PROVE CmdArrive(c) \/ CmdEnd(c) => PortEnds'
  <2>0. c \in Thread /\ c # Conf
    BY DEF Thread
  <2>1. ASSUME CmdArrive(c) PROVE PortEnds'
    BY <2>0, <2>1, CmdArriveMoves, PortEndsKept
  <2>2. ASSUME CmdEnd(c) PROVE PortEnds'
    BY <2>0, <2>2, CmdEndMoves, PortEndsKept DEF QueuePuts
  <2>. QED
    BY <2>1, <2>2
<1>11. ASSUME AddPort PROVE PortEnds'
  <2>1. /\ thread[Conf].duty = "none" /\ thread'[Conf].pc = "bound"
        /\ \A x \in Thread \ {Conf} : thread'[x] = thread[x]
    BY <1>11, AddPortMoves
  <2>2. PortMore \/ (tgt'.ref = tgt.ref /\ tgt'.st = tgt.st)
    BY <1>11, AddPortMoves DEF PortMore
  <2>. QED
    BY <2>1, <2>2, PortEndsMove
<1>12. ASSUME RemovePort PROVE PortEnds'
  <2>1. /\ thread[Conf].duty = "none"
        /\ \A x \in Thread \ {Conf} : thread'[x] = thread[x]
    BY <1>12, RemovePortMoves DEF PutsPortAndRests
  <2>2. tgt.ref = 1 => thread'[Conf].duty = "free_port"
    BY <1>12, RemovePortMoves DEF PutsPortAndRests
  <2>3. tgt' = [TgtLess EXCEPT !.port = FALSE]
    BY <1>12 DEF RemovePort
  <2>4. PortLess(Conf)
    BY <2>2, <2>3, PortLessIs
  <2>5. tgt'.port = FALSE
    <3>1. TgtLess \in TgtRec \/ TgtLess = [tgt EXCEPT !.ref = tgt.ref - 1,
                                   !.st = IF tgt.ref = 1 THEN "dying" ELSE tgt.st]
      BY DEF TgtLess, TgtRec
    <3>2. tgt' = [tgt EXCEPT !.ref = tgt.ref - 1,
                             !.st = IF tgt.ref = 1 THEN "dying" ELSE tgt.st, !.port = FALSE]
      BY <2>3 DEF TgtLess, TgtRec
    <3>. QED
      BY <3>2 DEF TgtRec
  <2>. QED
    BY <2>1, <2>4, <2>5, PortEndsMove
<1>. QED
  BY <1>1, <1>2, <1>3, <1>4, <1>5, <1>6, <1>7, <1>8, <1>9, <1>10, <1>11, <1>12,
     <1>13, <1>14 DEF Next, Freeing

-----------------------------------------------------------------------------
(* The deletion of an association misses none of its queues.               *)

\* Where queues stay the same, or t makes a new one.
SameQueue(q) == /\ queue[q].st = "live" /\ queue'[q].assoc = queue[q].assoc
                /\ queue'[q].qid = queue[q].qid
LEMMA SameQueueIs ==
    ASSUME \/ UNCHANGED queue \/ SameRefs
           \/ \E q \in Queue : QueueTaken(q) \/ QueueGiven(q)
    PROVE  \A q \in Queue : queue'[q].st = "live" => SameQueue(q)
<1>1. ASSUME NEW q \in Queue, QueueTaken(q)
      PROVE  \A x \in Queue : queue'[x].st = "live" => SameQueue(x)
  BY <1>1 DEF SameQueue, QueueTaken, OnlyQueue
<1>2. ASSUME NEW q \in Queue, QueueGiven(q)
      PROVE  \A x \in Queue : queue'[x].st = "live" => SameQueue(x)
  BY <1>2 DEF SameQueue, QueueGiven, OnlyQueue
<1>3. ASSUME UNCHANGED queue \/ SameRefs
      PROVE  \A x \in Queue : queue'[x].st = "live" => SameQueue(x)
  BY <1>3 DEF SameQueue, SameRefs
<1>. QED
  BY <1>1, <1>2, <1>3

LEMMA NoneMissedMove ==
    ASSUME NoneMissed, races \subseteq races', deleted \subseteq deleted', NEW t \in Thread,
           \A x \in Thread \ {t} : thread'[x] = thread[x],
           races' = {} => \A q \in Queue :
            q \notin deleted' /\ queue'[q].st = "live" /\ queue'[q].assoc \in deleted' =>
                \/ Covers(t, thread'[t], queue'[q], q)
                \/ SameQueue(q) /\ queue[q].assoc \in deleted /\ ~Covers(t, thread[t], queue[q], q)
    PROVE  NoneMissed'
<1>. SUFFICES ASSUME races' = {}, NEW q \in Queue, q \notin deleted', queue'[q].st = "live",
                     queue'[q].assoc \in deleted'
              PROVE  \E x \in Thread : Covers(x, thread'[x], queue'[q], q)
  BY DEF NoneMissed
<1>1. CASE Covers(t, thread'[t], queue'[q], q)
  BY <1>1 DEF Covers
<1>2. CASE SameQueue(q) /\ queue[q].assoc \in deleted /\ ~Covers(t, thread[t], queue[q], q)
  <2>1. races = {} /\ q \notin deleted /\ queue[q].st = "live"
    BY <1>2 DEF SameQueue
  <2>2. PICK x \in Thread : Covers(x, thread[x], queue[q], q)
    BY <1>2, <2>1 DEF NoneMissed
  <2>3. x # t /\ thread'[x] = thread[x]
    BY <1>2, <2>2
  <2>4. Covers(x, thread'[x], queue'[q], q)
    BY <1>2, <2>2, <2>3 DEF Covers, SameQueue
  <2>. QED
    BY <2>4
<1>. QED
  BY <1>1, <1>2

\* t keeps what it covers.
LEMMA NoneMissedKept ==
    ASSUME NoneMissed, races \subseteq races', deleted' = deleted, NEW t \in Thread,
           \A x \in Thread \ {t} : thread'[x] = thread[x],
           \A q \in Queue : queue'[q].st = "live" => SameQueue(q),
           \A q \in Queue : Covers(t, thread[t], queue[q], q) => Covers(t, thread'[t], queue[q], q)
    PROVE  NoneMissed'
<1>1. ASSUME NEW q \in Queue, queue'[q].st = "live", queue'[q].assoc \in deleted'
      PROVE  \/ Covers(t, thread'[t], queue'[q], q)
             \/ SameQueue(q) /\ queue[q].assoc \in deleted /\ ~Covers(t, thread[t], queue[q], q)
  <2>1. SameQueue(q) /\ queue[q].assoc \in deleted
    BY <1>1 DEF SameQueue
  <2>2. CASE Covers(t, thread[t], queue[q], q)
    <3>1. Covers(t, thread'[t], queue[q], q)
      BY <2>2
    <3>2. Covers(t, thread'[t], queue'[q], q)
      BY <2>1, <3>1 DEF Covers, SameQueue
    <3>. QED
      BY <3>2
  <2>. QED
    BY <2>1, <2>2
<1>. QED
  BY <1>1, NoneMissedMove

LEMMA CoversNext ==
    ASSUME NEW t, NEW q, SameQueue(q), Covers(t, thread'[t], queue[q], q)
    PROVE  Covers(t, thread'[t], queue'[q], q)
  BY DEF Covers, SameQueue

LEMMA AllocQueueNoneMissed ==
    ASSUME Exact, NoneMissed, NEW i \in Iod, AllocQueue(i)
    PROVE  NoneMissed'
<1>0. Inv /\ i \in Thread
  BY DEF Exact, Base, Thread
<1>1. /\ thread[i].pc = "alloc_queue" /\ thread[i].all = FALSE
      /\ UNCHANGED <<deleted, races>>
  BY <1>0, AllocQueueMoves DEF At, Exact, Base, Places, PlaceOK
<1>2. CASE UNCHANGED queue
           /\ Walks(i, IF thread[i].rqst.kind = "create" THEN "respond" ELSE "put_found", {})
  <2>1. \A q \in Queue : ~Covers(i, thread[i], queue[q], q)
    BY <1>1 DEF Covers
  <2>2. \A x \in Thread \ {i} : thread'[x] = thread[x]
    BY <1>2 DEF Walks
  <2>. QED
    BY <1>0, <1>1, <1>2, <2>1, <2>2, SameQueueIs, NoneMissedKept
<1>3. ASSUME NEW q \in Queue, QueueMade(q, thread[i].assoc, thread[i].i),
             Walks(i, "publish", {"queue"}), thread'[i].queue = q
      PROVE  NoneMissed'
  <2>1. \A x \in Queue : ~Covers(i, thread[i], queue[x], x)
    BY <1>1 DEF Covers
  <2>2. /\ \A x \in Thread \ {i} : thread'[x] = thread[x]
        /\ thread'[i].pc = "publish"
    BY <1>3 DEF Walks
  <2>3. Covers(i, thread'[i], queue'[q], q)
    BY <1>3, <2>2 DEF Covers
  <2>4. \A x \in Queue \ {q} : queue'[x].st = "live" => SameQueue(x)
    BY <1>3 DEF QueueMade, OnlyQueue, SameQueue
  <2>5. ASSUME NEW x \in Queue, queue'[x].st = "live", queue'[x].assoc \in deleted'
        PROVE  \/ Covers(i, thread'[i], queue'[x], x)
               \/ SameQueue(x) /\ queue[x].assoc \in deleted /\ ~Covers(i, thread[i], queue[x], x)
    <3>1. CASE x = q
      BY <2>3, <3>1
    <3>2. CASE x # q
      BY <1>1, <2>1, <2>4, <2>5, <3>2 DEF SameQueue
    <3>. QED
      BY <3>1, <3>2
  <2>. QED
    BY <1>0, <1>1, <2>2, <2>5, NoneMissedMove
<1>. QED
  BY <1>0, <1>2, <1>3, AllocQueueMoves

\* A queue that is published in a deleted association is one of the races.
LEMMA PublishNoneMissed ==
    ASSUME Exact, NoneMissed, NEW i \in Iod, Publish(i)
    PROVE  NoneMissed'
<1>0. Inv /\ i \in Thread
  BY DEF Exact, Base, Thread
<1>. DEFINE a == thread[i].assoc
<1>1. /\ thread[i].pc = "publish" /\ thread[i].all = FALSE
      /\ thread[i].rqst.kind \in {"create", "connect"} /\ thread[i].queue \in Queue
      /\ UNCHANGED <<deleted, queue>> /\ races \subseteq races'
      /\ (a \in deleted => "young" \in races')
      /\ \A x \in Thread \ {i} : thread'[x] = thread[x]
  BY <1>0, PublishMoves DEF At, Walks, Exact, Base, Places, PlaceOK
<1>2. queue[thread[i].queue].assoc = a
  BY <1>1 DEF Exact, AllFresh, Fresh, Creates
<1>3. ASSUME races' = {}, NEW q \in Queue, queue'[q].st = "live", queue'[q].assoc \in deleted'
      PROVE  SameQueue(q) /\ queue[q].assoc \in deleted /\ ~Covers(i, thread[i], queue[q], q)
  BY <1>1, <1>2, <1>3 DEF Covers, SameQueue
<1>. QED
  BY <1>0, <1>1, <1>3, NoneMissedMove

LEMMA DeleteQueueNoneMissed ==
    ASSUME Exact, NoneMissed, NEW t \in Thread, DeleteQueue(t)
    PROVE  NoneMissed'
<1>0. Inv
  BY DEF Exact, Base
<1>1. /\ thread[t].pc = "delete" /\ thread'[t].pc = "drop"
      /\ thread'[t].all = thread[t].all /\ thread'[t].assoc = thread[t].assoc
      /\ thread'[t].i = thread[t].i /\ thread[t].queue \in Queue
      /\ deleted' = deleted \union {thread[t].queue} /\ races \subseteq races' /\ SameRefs
      /\ \A x \in Thread \ {t} : thread'[x] = thread[x]
  BY <1>0, DeleteQueueMoves DEF At, Walks, Same
<1>2. \A q \in Queue : queue'[q].st = "live" => SameQueue(q)
  BY <1>1, SameQueueIs
<1>3. \A q \in Queue : queue[q].assoc \in Assoc \union {None}
  BY <1>0, Fields DEF QueueRec
<1>4. ASSUME NEW q \in Queue, q \notin deleted', queue'[q].st = "live", queue'[q].assoc \in deleted'
      PROVE  \/ Covers(t, thread'[t], queue'[q], q)
             \/ SameQueue(q) /\ queue[q].assoc \in deleted /\ ~Covers(t, thread[t], queue[q], q)
  <2>1. SameQueue(q) /\ q # thread[t].queue
    BY <1>1, <1>2, <1>4
  <2>2. queue[q].assoc \in deleted
    BY <1>1, <1>3, <1>4, <2>1 DEF SameQueue
  <2>3. CASE Covers(t, thread[t], queue[q], q)
    <3>1. Covers(t, thread'[t], queue[q], q)
      BY <1>1, <2>1, <2>3 DEF Covers
    <3>. QED
      BY <2>1, <3>1, CoversNext
  <2>. QED
    BY <2>1, <2>2, <2>3
<1>. QED
  BY <1>1, <1>4, NoneMissedMove

LEMMA BeginAssocNoneMissed ==
    ASSUME Exact, NoneMissed, NEW t \in Thread, BeginAssoc(t)
    PROVE  NoneMissed'
<1>0. Inv
  BY DEF Exact, Base
<1>. DEFINE a == thread[t].assoc
<1>1. /\ thread[t].pc = "begin" /\ thread[t].all = FALSE
      /\ thread'[t].pc = "scan" /\ thread'[t].all = TRUE /\ thread'[t].assoc = a
      /\ thread'[t].i = MaxQid + 1 /\ a \in Assoc
      /\ deleted' = deleted \union {a} /\ races \subseteq races' /\ queue' = queue
      /\ \A x \in Thread \ {t} : thread'[x] = thread[x]
  BY <1>0, BeginAssocMoves DEF At, Walks, Same, Exact, Base, Places, PlaceOK
<1>2. ASSUME NEW q \in Queue, queue'[q].st = "live", queue'[q].assoc \in deleted'
      PROVE  \/ Covers(t, thread'[t], queue'[q], q)
             \/ SameQueue(q) /\ queue[q].assoc \in deleted /\ ~Covers(t, thread[t], queue[q], q)
  <2>1. SameQueue(q) /\ ~Covers(t, thread[t], queue[q], q)
    BY <1>1, <1>2 DEF SameQueue, Covers
  <2>2. CASE queue[q].assoc = a
    <3>1. queue[q].qid \in Qids
      BY <1>0, Fields DEF QueueRec
    <3>2. queue[q].qid < MaxQid + 1
      BY <3>1 DEF Qids
    <3>3. Covers(t, thread'[t], queue[q], q)
      BY <1>1, <2>2, <3>2 DEF Covers
    <3>. QED
      BY <2>1, <3>3, CoversNext
  <2>. QED
    BY <1>1, <1>2, <2>1, <2>2
<1>. QED
  BY <1>1, <1>2, NoneMissedMove

\* The scan stops at every queue that is in the table.
LEMMA ScanNoneMissed ==
    ASSUME Exact, NoneMissed, NEW t \in Thread, ScanQueues(t)
    PROVE  NoneMissed'
<1>0. Inv /\ NoneMissing
  BY DEF Exact, Base, TableInv
<1>. DEFINE a == thread[t].assoc
<1>1. /\ thread[t].pc = "scan" /\ thread[t].all = TRUE /\ a \in Assoc
      /\ UNCHANGED <<queues, deleted, races>>
      /\ \A x \in Thread \ {t} : thread'[x] = thread[x]
  BY <1>0, ScanQueuesMoves DEF At, Walks, Exact, Base, Places, PlaceOK
<1>2. \A q \in Queue : queue'[q].st = "live" => SameQueue(q)
  BY <1>0, ScanQueuesMoves, SameQueueIs
<1>3. \A q \in Queue : /\ queue[q].qid \in Qids
                       /\ queue[q].st = "live" => queue[q].ref > 0
  BY <1>0, Fields DEF QueueRec, Exact, Base, Alive
<1>4. ASSUME races' = {}, NEW q \in Queue, q \notin deleted', queue'[q].st = "live",
             queue'[q].assoc \in deleted'
      PROVE  \/ Covers(t, thread'[t], queue'[q], q)
             \/ SameQueue(q) /\ queue[q].assoc \in deleted /\ ~Covers(t, thread[t], queue[q], q)
             \/ \E x \in Thread \ {t} : Covers(x, thread[x], queue[q], q)
  <2>1. SameQueue(q) /\ queue[q].assoc \in deleted /\ races = {}
    BY <1>1, <1>2, <1>4 DEF SameQueue
  <2>2. CASE Covers(t, thread[t], queue[q], q)
    <3>1. queue[q].assoc = a /\ queue[q].qid < thread[t].i
      BY <1>1, <2>2 DEF Covers
    <3>2. CASE queues[a][queue[q].qid] = q
      <4>1. thread[t].i \in Nat /\ queue[q].qid \in Nat /\ queue[q].qid >= 0
        <5>1. thread[t].i \in 0 .. MaxQid + 1 /\ queue[q].qid \in 0 .. MaxQid
          BY <1>0, <1>3, Fields DEF Rec, Qids
        <5>. QED
          BY <5>1
      <4>2. queue[q].qid \in Left(t)
        <5>1. queue[q].qid \in 0 .. thread[t].i - 1
          BY <3>1, <4>1
        <5>2. q # None /\ queue[q].ref > 0
          <6>1. queue[q].st = "live"
            BY <2>1 DEF SameQueue
          <6>. QED
            BY <1>3, <6>1
        <5>. QED
          BY <3>2, <5>1, <5>2 DEF Left
      <4>3. PICK k \in Left(t) : /\ \A j \in Left(t) : j <= k
                                 /\ Walks(t, "delete", {"queue", "i"})
                                 /\ thread'[t].queue = queues[a][k] /\ thread'[t].i = k
        BY <1>0, <4>2, ScanQueuesMoves
      <4>4. /\ thread'[t].pc = "delete" /\ thread'[t].all = TRUE /\ thread'[t].assoc = a
        BY <1>1, <4>3 DEF Walks, Same
      <4>5. k \in Nat /\ queue[q].qid <= k
        BY <4>1, <4>2, <4>3 DEF Left
      <4>6. CASE queue[q].qid = k
        <5>1. thread'[t].queue = q
          BY <3>2, <4>3, <4>6
        <5>2. Covers(t, thread'[t], queue[q], q)
          BY <3>1, <4>4, <5>1 DEF Covers
        <5>. QED
          BY <2>1, <5>2, CoversNext
      <4>7. CASE queue[q].qid # k
        <5>1. queue[q].qid < thread'[t].i
          BY <4>1, <4>3, <4>5, <4>7
        <5>2. Covers(t, thread'[t], queue[q], q)
          BY <3>1, <4>4, <5>1 DEF Covers
        <5>. QED
          BY <2>1, <5>2, CoversNext
      <4>. QED
        BY <4>6, <4>7
    <3>3. CASE queues[a][queue[q].qid] # q
      <4>1. PICK i \in Iod : thread[i].pc = "publish" /\ thread[i].queue = q
        BY <1>0, <2>1, <3>1, <3>3 DEF NoneMissing, SameQueue
      <4>2. i \in Thread /\ i # t /\ Covers(i, thread[i], queue[q], q)
        BY <1>1, <4>1 DEF Covers, Thread
      <4>. QED
        BY <4>2
    <3>. QED
      BY <3>2, <3>3
  <2>. QED
    BY <2>1, <2>2
<1>5. ASSUME races' = {}, NEW q \in Queue, q \notin deleted', queue'[q].st = "live",
             queue'[q].assoc \in deleted'
      PROVE  \E x \in Thread : Covers(x, thread'[x], queue'[q], q)
  <2>1. SameQueue(q) /\ races = {} /\ queue[q].assoc \in deleted
    BY <1>1, <1>2, <1>5 DEF SameQueue
  <2>2. ASSUME NEW x \in Thread \ {t}, Covers(x, thread[x], queue[q], q)
        PROVE  Covers(x, thread'[x], queue'[q], q)
    <3>1. thread'[x] = thread[x]
      BY <1>1
    <3>. QED
      BY <2>1, <2>2, <3>1 DEF Covers, SameQueue
  <2>3. CASE ~Covers(t, thread[t], queue[q], q)
    <3>1. PICK x \in Thread : Covers(x, thread[x], queue[q], q)
      BY <1>1, <1>5, <2>1 DEF NoneMissed, SameQueue
    <3>. QED
      BY <2>2, <2>3, <3>1
  <2>. QED
    BY <1>4, <1>5, <2>2, <2>3
<1>. QED
  BY <1>5 DEF NoneMissed

LEMMA NoneMissedStep ==
    ASSUME Exact, NoneMissed, Next
    PROVE  NoneMissed'
<1>0. Inv /\ Places /\ (\A t \in Thread : PlaceOK(t, thread[t]))
  BY DEF Exact, Base, Places
<1>. USE <1>0 DEF Walks, Rests, Same, At, Blank
<1>1. ASSUME NEW i \in Iod, LsRequest(i) PROVE NoneMissed'
  <2>0. i \in Thread
    BY DEF Thread
  <2>00. ASSUME \/ UNCHANGED queue \/ SameRefs
                \/ \E q \in Queue : QueueTaken(q) \/ QueueGiven(q),
                races \subseteq races', deleted' = deleted,
                \A x \in Thread \ {i} : thread'[x] = thread[x],
                thread[i].pc # "publish", thread[i].all = FALSE
         PROVE  NoneMissed'
    <3>1. \A q \in Queue : queue'[q].st = "live" => SameQueue(q)
      BY <2>00, SameQueueIs
    <3>2. \A q \in Queue : ~Covers(i, thread[i], queue[q], q)
      BY <2>00 DEF Covers
    <3>. QED
      BY <2>0, <2>00, <3>1, <3>2, NoneMissedKept
  <2>1. ASSUME RcvLsReq(i) PROVE NoneMissed'
    <3>1. UNCHANGED <<queue, races, deleted>>
      BY <2>1 DEF RcvLsReq
    <3>. QED
      BY <2>0, <2>00, <2>1, <3>1, RcvLsReqMoves, ZenonT(60) DEF PlaceOK
  <2>2. ASSUME AllocAssoc(i) PROVE NoneMissed'
    BY <2>0, <2>00, <2>2, AllocAssocMoves DEF PlaceOK
  <2>3. ASSUME FindAssoc(i) PROVE NoneMissed'
    BY <2>0, <2>00, <2>3, FindAssocMoves, ZenonT(60) DEF PlaceOK
  <2>4. ASSUME AllocQueue(i) PROVE NoneMissed'
    BY <2>4, AllocQueueNoneMissed
  <2>5. ASSUME Publish(i) PROVE NoneMissed'
    BY <2>5, PublishNoneMissed
  <2>6. ASSUME UseQueue(i) PROVE NoneMissed'
    BY <2>0, <2>00, <2>6, UseQueueMoves DEF PlaceOK
  <2>7. ASSUME FindQueue(i) PROVE NoneMissed'
    BY <2>0, <2>00, <2>7, FindQueueMoves, ZenonT(60) DEF PlaceOK
  <2>8. ASSUME PutFound(i) PROVE NoneMissed'
    BY <2>0, <2>00, <2>8, PutFoundMoves DEF PlaceOK, PutsAndWalks
  <2>9. ASSUME Respond(i) PROVE NoneMissed'
    <3>1. /\ UNCHANGED <<queue, races, deleted>> /\ thread[i].pc = "respond"
          /\ \A x \in Thread \ {i} : thread'[x] = thread[x]
      BY <2>9, RespondMoves DEF PutsPortAndRests
    <3>2. \A q \in Queue : queue'[q].st = "live" => SameQueue(q)
      BY <3>1, SameQueueIs
    <3>3. \A q \in Queue : ~Covers(i, thread[i], queue[q], q)
      BY <3>1 DEF Covers
    <3>. QED
      BY <2>0, <3>1, <3>2, <3>3, NoneMissedKept
  <2>. QED
    BY <1>1, <2>1, <2>2, <2>3, <2>4, <2>5, <2>6, <2>7, <2>8, <2>9 DEF LsRequest
<1>2. ASSUME NEW t \in Thread, Deletion(t) PROVE NoneMissed'
  <2>1. ASSUME DeleteQueue(t) PROVE NoneMissed'
    BY <2>1, DeleteQueueNoneMissed
  <2>2. ASSUME DropQueue(t) PROVE NoneMissed'
    <3>1. /\ thread[t].pc = "drop" /\ thread'[t].pc = "put_queue"
          /\ thread'[t].all = thread[t].all /\ thread'[t].assoc = thread[t].assoc
          /\ thread'[t].i = thread[t].i /\ QueueGiven(thread[t].queue)
          /\ thread[t].queue \in Queue
          /\ UNCHANGED <<races, deleted>>
          /\ \A x \in Thread \ {t} : thread'[x] = thread[x]
      BY <2>2, DropQueueMoves DEF QueuePuts
    <3>2. \A q \in Queue : queue'[q].st = "live" => SameQueue(q)
      BY <3>1, SameQueueIs
    <3>3. \A q \in Queue : Covers(t, thread[t], queue[q], q) => Covers(t, thread'[t], queue[q], q)
      BY <3>1 DEF Covers
    <3>. QED
      BY <3>1, <3>2, <3>3, NoneMissedKept
  <2>3. ASSUME PutQueue(t) PROVE NoneMissed'
    <3>0. PICK pc \in {"scan", "put_found"} :
            QueuePuts(t, pc) /\ (thread[t].all = TRUE => pc = "scan")
      BY <2>3, PutQueueMoves
    <3>1. /\ thread[t].pc = "put_queue" /\ thread'[t].pc = pc
          /\ thread'[t].all = thread[t].all /\ thread'[t].assoc = thread[t].assoc
          /\ thread'[t].i = thread[t].i /\ QueueGiven(thread[t].queue)
          /\ thread[t].queue \in Queue
          /\ UNCHANGED <<races, deleted>>
          /\ \A x \in Thread \ {t} : thread'[x] = thread[x]
      BY <2>3, <3>0, PutQueueMoves DEF QueuePuts
    <3>2. \A q \in Queue : queue'[q].st = "live" => SameQueue(q)
      BY <3>1, SameQueueIs
    <3>3. \A q \in Queue : Covers(t, thread[t], queue[q], q) => Covers(t, thread'[t], queue[q], q)
      BY <3>0, <3>1 DEF Covers
    <3>. QED
      BY <3>1, <3>2, <3>3, NoneMissedKept
  <2>4. ASSUME BeginAssoc(t) PROVE NoneMissed'
    BY <2>4, BeginAssocNoneMissed
  <2>5. ASSUME ScanQueues(t) PROVE NoneMissed'
    BY <2>5, ScanNoneMissed
  <2>6. ASSUME PutAssoc(t) PROVE NoneMissed'
    <3>1. /\ thread[t].pc = "put_assoc" /\ UNCHANGED <<queue, races, deleted>>
          /\ \A x \in Thread \ {t} : thread'[x] = thread[x]
      BY <2>6, PutAssocMoves DEF PutsAndWalks
    <3>2. \A q \in Queue : queue'[q].st = "live" => SameQueue(q)
      BY <3>1, SameQueueIs
    <3>3. \A q \in Queue : ~Covers(t, thread[t], queue[q], q)
      BY <3>1 DEF Covers
    <3>. QED
      BY <3>1, <3>2, <3>3, NoneMissedKept
  <2>. QED
    BY <1>2, <2>1, <2>2, <2>3, <2>4, <2>5, <2>6 DEF Deletion
<1>3. ASSUME NEW t \in Thread, Freeing(t) PROVE NoneMissed'
  <2>1. /\ thread'[t].pc = thread[t].pc /\ thread'[t].all = thread[t].all
        /\ thread'[t].assoc = thread[t].assoc /\ thread'[t].i = thread[t].i
        /\ thread'[t].queue = thread[t].queue /\ races \subseteq races'
        /\ \A x \in Thread \ {t} : thread'[x] = thread[x]
    BY <1>3, FreedQueuePutsMoves, AssocFreeMoves, FreeTgtportMoves DEF Freeing
  <2>2. UNCHANGED <<queue, deleted>>
    BY <1>3 DEF Freeing, FreedQueuePuts, AssocFree, FreeTgtport
  <2>3. \A q \in Queue : queue'[q].st = "live" => SameQueue(q)
    BY <2>2, SameQueueIs
  <2>4. \A q \in Queue : Covers(t, thread[t], queue[q], q) => Covers(t, thread'[t], queue[q], q)
    BY <2>1 DEF Covers
  <2>. QED
    BY <2>1, <2>2, <2>3, <2>4, NoneMissedKept
\* The others do not scan, before the step.
<1>4. ASSUME NEW t \in Thread, NEW pc \in {"idle", "next", "done", "unregister", "command", "bound",
                                   "find_ctrl", "put_port"},
             thread[t].pc = pc, \A x \in Thread \ {t} : thread'[x] = thread[x],
             races \subseteq races', deleted' = deleted,
             \A q \in Queue : queue'[q].st = "live" => SameQueue(q)
      PROVE  NoneMissed'
  <2>1. \A q \in Queue : ~Covers(t, thread[t], queue[q], q)
    BY <1>4 DEF Covers
  <2>. QED
    BY <1>4, <2>1, NoneMissedKept
<1>5. ASSUME FreeAssocs PROVE NoneMissed'
  <2>1. \A q \in Queue : queue'[q].st = "live" => SameQueue(q)
    BY <1>5, FreeAssocsMoves, SameQueueIs
  <2>. QED
    BY <1>4, <1>5, <2>1, FreeAssocsMoves DEF Thread
<1>6. ASSUME NEW t \in {Unreg, Ctrl}, PutDone(t) PROVE NoneMissed'
  <2>1. \A q \in Queue : queue'[q].st = "live" => SameQueue(q)
    BY <1>6, PutDoneMoves, SameQueueIs
  <2>. QED
    BY <1>4, <1>6, <2>1, PutDoneMoves DEF Thread, PutsAndRests
<1>7. ASSUME Unregister PROVE NoneMissed'
  <2>1. \A q \in Queue : queue'[q].st = "live" => SameQueue(q)
    BY <1>7, UnregisterMoves, SameQueueIs
  <2>. QED
    BY <1>4, <1>7, <2>1, UnregisterMoves DEF Thread, PutsPortAndRests
<1>8. ASSUME DeleteCtrl PROVE NoneMissed'
  <2>1. \A q \in Queue : queue'[q].st = "live" => SameQueue(q)
    BY <1>8, DeleteCtrlMoves, SameQueueIs
  <2>. QED
    BY <1>4, <1>8, <2>1, DeleteCtrlMoves DEF Thread
<1>13. ASSUME FindCtrl PROVE NoneMissed'
  <2>1. \A q \in Queue : queue'[q].st = "live" => SameQueue(q)
    BY <1>13, FindCtrlMoves, SameQueueIs
  <2>. QED
    BY <1>4, <1>13, <2>1, FindCtrlMoves DEF Thread
<1>14. ASSUME CtrlPut PROVE NoneMissed'
  <2>1. \A q \in Queue : queue'[q].st = "live" => SameQueue(q)
    BY <1>14, CtrlPutMoves, SameQueueIs
  <2>. QED
    BY <1>4, <1>14, <2>1, CtrlPutMoves DEF Thread, PutsPortAndRests
<1>9. ASSUME NEW c \in Cmd, CmdArrive(c) PROVE NoneMissed'
  <2>1. \A q \in Queue : queue'[q].st = "live" => SameQueue(q)
    BY <1>9, CmdArriveMoves, SameQueueIs
  <2>. QED
    BY <1>4, <1>9, <2>1, CmdArriveMoves DEF Thread
<1>10. ASSUME NEW c \in Cmd, CmdEnd(c) PROVE NoneMissed'
  <2>1. \A q \in Queue : queue'[q].st = "live" => SameQueue(q)
    BY <1>10, CmdEndMoves, SameQueueIs DEF QueuePuts
  <2>. QED
    BY <1>4, <1>10, <2>1, CmdEndMoves DEF Thread, QueuePuts
<1>11. ASSUME AddPort PROVE NoneMissed'
  <2>1. \A q \in Queue : queue'[q].st = "live" => SameQueue(q)
    BY <1>11, AddPortMoves, SameQueueIs
  <2>. QED
    BY <1>4, <1>11, <2>1, AddPortMoves DEF Thread
<1>12. ASSUME RemovePort PROVE NoneMissed'
  <2>1. \A q \in Queue : queue'[q].st = "live" => SameQueue(q)
    BY <1>12, RemovePortMoves, SameQueueIs
  <2>. QED
    BY <1>4, <1>12, <2>1, RemovePortMoves DEF Thread, PutsPortAndRests
<1>. QED
  BY <1>1, <1>2, <1>3, <1>5, <1>6, <1>7, <1>8, <1>9, <1>10, <1>11, <1>12,
     <1>13, <1>14 DEF Next

-----------------------------------------------------------------------------
(* Everything is freed.                                                    *)

LEMMA InitEnds == Init => Ends
<1>. SUFFICES ASSUME Init PROVE Ends
  OBVIOUS
<1>1. thread[Unreg].pc = "idle" /\ tgt.port = FALSE /\ tgt.ref = 1 /\ tgt.st = "live"
      /\ \A q \in Queue : queue[q].st = "none"
  BY RestingIs DEF Init, Pcs, Thread
<1>. QED
  BY <1>1 DEF Ends, FreeLoop, PortEnds, NoneMissed

LEMMA StepEnds == Exact /\ Exact' /\ Ends /\ [Next]_vars => Ends'
<1>. SUFFICES ASSUME Exact, Exact', Ends, [Next]_vars PROVE Ends'
  OBVIOUS
<1>1. CASE Next
  <2>1. Base /\ Base'
    BY DEF Exact
  <2>. QED
    BY <1>1, <2>1, FreeLoopStep, PortEndsStep, NoneMissedStep DEF Ends
<1>2. CASE UNCHANGED vars
  <2>1. FreeLoop'
    BY <1>2 DEF vars, Ends, FreeLoop, Ahead
  <2>2. PortEnds'
    BY <1>2 DEF vars, Ends, PortEnds
  <2>3. NoneMissed'
    BY <1>2 DEF vars, Ends, NoneMissed, Covers
  <2>. QED
    BY <2>1, <2>2, <2>3 DEF Ends
<1>. QED
  BY <1>1, <1>2

\* At rest nobody holds anything.
LEMMA RestsEmpty ==
    ASSUME Exact, AtRest, NEW t \in Thread
    PROVE  /\ \A a : ~Finder(t, thread[t], a) /\ ~Owes(thread[t], a) /\ ~Ending(thread[t], a)
           /\ \A q : ~Holds(thread[t], q) /\ ~DropsQueue(thread[t], q)
           /\ \A q, rec : ~Covers(t, thread[t], rec, q)
           /\ thread[t].duty = "none"
  BY DEF AtRest, Finder, Owes, Ending, Holds, DropsQueue, Covers

LEMMA NobodyHolds ==
    ASSUME Exact, AtRest, races = {}
    PROVE  /\ \A a \in Assoc : assoc[a].st # "none" =>
                assoc[a].ref = Cardinality(Live(a)) + One(a \notin deleted)
           /\ \A q \in Queue : queue[q].st # "none" => queue[q].ref = One(q \notin deleted)
<1>1. ASSUME NEW a \in Assoc, assoc[a].st # "none"
      PROVE  assoc[a].ref = Cardinality(Live(a)) + One(a \notin deleted)
  <2>1. Find(a) = {} /\ Owe(a) = {} /\ End(a) = {}
    BY RestsEmpty DEF Find, Owe, End
  <2>2. Cardinality(Find(a)) = 0 /\ Cardinality(Owe(a)) = 0 /\ Cardinality(End(a)) = 0
    BY <2>1, FS_EmptySet
  <2>3. Grown(a) = assoc[a].ref
    <3>1. assoc[a].ref \in Nat
      BY Fields DEF Exact, Base
    <3>. QED
      BY <1>1, <3>1 DEF Grown, One
  <2>4. assoc[a].ref = Cardinality(Find(a)) + Cardinality(Owe(a)) + Cardinality(End(a))
                       + Cardinality(Live(a)) + One(a \notin deleted)
    BY <2>3 DEF Exact, AssocCounted
  <2>5. Cardinality(Live(a)) \in Nat
    <3>1. IsFiniteSet(Queue) /\ Live(a) \in SUBSET Queue
      BY DEF Live
    <3>. QED
      BY <3>1, FS_Subset, FS_CardinalityType
  <2>6. One(a \notin deleted) \in Nat
    BY DEF One
  <2>. HIDE DEF Find, Owe, End, Live, One
  <2>7. PICK l, d \in Nat : l = Cardinality(Live(a)) /\ d = One(a \notin deleted)
    BY <2>5, <2>6
  <2>8. assoc[a].ref = 0 + 0 + 0 + l + d
    BY <2>2, <2>4, <2>7
  <2>. QED
    BY <2>7, <2>8
<1>2. ASSUME NEW q \in Queue, queue[q].st # "none"
      PROVE  queue[q].ref = One(q \notin deleted)
  <2>1. Hold(q) = {} /\ Drop(q) = {}
    BY RestsEmpty DEF Hold, Drop
  <2>2. Cardinality(Hold(q)) = 0 /\ Cardinality(Drop(q)) = 0
    BY <2>1, FS_EmptySet
  <2>3. QueueGrown(q) = queue[q].ref
    <3>1. queue[q].ref \in Nat
      BY Fields DEF Exact, Base
    <3>. QED
      BY <1>2, <3>1 DEF QueueGrown, One
  <2>4. queue[q].ref = Cardinality(Hold(q)) + Cardinality(Drop(q)) + One(q \notin deleted)
    BY <2>3 DEF Exact, QueueCounted
  <2>5. One(q \notin deleted) \in Nat
    BY DEF One
  <2>. HIDE DEF Hold, Drop, One
  <2>6. PICK d \in Nat : d = One(q \notin deleted)
    BY <2>5
  <2>. QED
    BY <2>2, <2>4, <2>6
<1>. QED
  BY <1>1, <1>2

LEMMA AllFreedIs ==
    ASSUME Exact, Ends, AtRest, races = {}
    PROVE  /\ tgt.st = "deleted"
           /\ \A x \in Assoc : assoc[x].st \in {"none", "freed"}
           /\ \A x \in Queue : queue[x].st \in {"none", "freed"}
<1>0. /\ \A a \in Assoc : assoc[a] \in AssocRec
      /\ \A q \in Queue : queue[q] \in QueueRec
      /\ tgt \in TgtRec /\ Unreg \in Thread /\ Conf \in Thread
  BY Fields DEF Exact, Base, Inv, TypeOK, TgtRec, Thread
<1>1. ASSUME NEW a \in Assoc, assoc[a].st = "live" PROVE FALSE
  <2>1. a \in deleted
    BY <1>1 DEF Ends, FreeLoop, AtRest
  <2>2. assoc[a].ref = Cardinality(Live(a)) + One(a \notin deleted) /\ assoc[a].ref > 0
    BY <1>1, NobodyHolds DEF Exact, Base, Alive
  <2>3. One(a \notin deleted) = 0
    BY <2>1 DEF One
  <2>4. Live(a) # {}
    <3>1. Live(a) = {} => Cardinality(Live(a)) = 0
      BY FS_EmptySet
    <3>. HIDE DEF Live, One
    <3>2. Cardinality(Live(a)) = 0 => assoc[a].ref = 0
      BY <2>2, <2>3
    <3>. QED
      BY <2>2, <3>1, <3>2
  <2>5. PICK q \in Queue : queue[q].st = "live" /\ queue[q].assoc = a
    BY <2>4 DEF Live
  <2>6. q \in deleted
    BY <2>1, <2>5, RestsEmpty DEF Ends, NoneMissed
  <2>7. queue[q].ref = 0
    BY <2>5, <2>6, NobodyHolds DEF One
  <2>. QED
    BY <2>5, <2>7 DEF Exact, Base, Alive
<1>2. ASSUME NEW q \in Queue, queue[q].st = "live" PROVE FALSE
  <2>1. queue[q].assoc \in Assoc /\ assoc[queue[q].assoc].st # "none"
    BY <1>2 DEF Exact, Base, Known, KnownQueues, KnownAssoc
  <2>2. assoc[queue[q].assoc].st = "live"
    BY <1>2, <2>1, AssocHeld
  <2>. QED
    BY <1>1, <2>1, <2>2
<1>3. ASSUME NEW a \in Assoc, assoc[a].st = "dying" PROVE FALSE
  BY <1>3, RestsEmpty DEF Exact, Base, Unlisting
<1>4. tgt.st = "deleted"
  <2>1. Registered = {} /\ Serving = {} /\ Looking = {}
    <3>1. \A i \in Iod : thread[i].pc = "idle"
      BY DEF AtRest, Exact, Base, Places, PlaceOK, IodPcs, Thread
    <3>. QED
      BY <3>1 DEF AtRest, Registered, Serving, Looking, LookPcs, Thread
  <2>2. Held = {}
    BY <1>1, <1>3 DEF Held
  <2>3. User = 0
    BY DEF Ends, PortEnds, AtRest, User
  <2>4. tgt.ref = Cardinality(Registered) + User + Cardinality(Held) + Cardinality(Serving)
                  + Cardinality(Looking)
    BY PortCount DEF Exact, Base, Inv
  <2>5. /\ Cardinality(Registered) = 0 /\ Cardinality(Held) = 0 /\ Cardinality(Serving) = 0
        /\ Cardinality(Looking) = 0
    BY <2>1, <2>2, FS_EmptySet
  <2>. HIDE DEF Registered, Held, Serving, Looking, User
  <2>6. tgt.ref = 0
    BY <2>3, <2>4, <2>5
  <2>7. tgt.st # "live" /\ tgt.st # "dying"
    BY <2>6, RestsEmpty DEF Ends, PortEnds
  <2>. QED
    BY <1>0, <2>7 DEF TgtRec
<1>. QED
  BY <1>0, <1>1, <1>2, <1>3, <1>4 DEF AssocRec, QueueRec

\* When nothing has raced, no association was created behind the back of the
\* unregistration and no queue number given twice, then at the last thread's rest
\* every association and queue has been freed and targetport_delete called, for any
\* number of them: the loop of __nvmet_fc_free_assocs misses no association,
\* nvmet_fc_delete_target_assoc none of its queues.
THEOREM FreedCorrect == Spec => []AllFreed
<1>1. ASSUME Exact, Ends PROVE AllFreed
  BY <1>1, AllFreedIs DEF AllFreed
<1>2. Spec => [](Exact /\ Ends)
  BY InitExact, InitEnds, StepExact, StepEnds, PTL DEF Spec
<1>. QED
  BY <1>1, <1>2, PTL
============================================================================
