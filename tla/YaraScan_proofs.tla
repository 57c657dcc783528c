--------------------------- MODULE YaraScan_proofs ---------------------------
(***************************************************************************)
(* Theorems about YaraScan for any number of files, threads and slots: its *)
(* type invariant, the semaphores, the order of ends and destruction, and  *)
(* that it implements YaraFileScan.                                        *)
(***************************************************************************)
EXTENDS YaraScan, FiniteSetTheorems, TLAPS

-----------------------------------------------------------------------------
(* The ring.                                                               *)

\* The index after i, without the modulo.
LEMMA AfterIndex ==
    ASSUME NEW i \in Index
    PROVE  /\ After(i) \in Index
           /\ i < MaxQueuedFiles => After(i) = i + 1
           /\ i = MaxQueuedFiles => After(i) = 0
<1>1. MaxQueuedFiles \in Nat /\ i \in Nat /\ i <= MaxQueuedFiles
  BY QueueAssumption DEF Index
<1>2. CASE i = MaxQueuedFiles
  <2>1. (MaxQueuedFiles + 1) % (MaxQueuedFiles + 1) = 0
    BY <1>1
  <2>. QED
    BY <1>1, <1>2, <2>1 DEF After, Index
<1>3. CASE i < MaxQueuedFiles
  <2>1. (i + 1) % (MaxQueuedFiles + 1) = i + 1
    BY <1>1, <1>3
  <2>. QED
    BY <1>1, <1>3, <2>1 DEF After, Index
<1>. QED
  BY <1>1, <1>2, <1>3

LEMMA LengthType ==
    ASSUME TypeOK
    PROVE  /\ Length \in Nat
           /\ Length = 0 <=> Empty
<1>. queue_head \in Index /\ queue_tail \in Index /\ MaxQueuedFiles \in Nat
  BY QueueAssumption DEF TypeOK
<1>. QED
  BY DEF Length, Empty, Index

\* A get takes one path out, a put into a ring that is not full adds one.
LEMMA LengthSteps ==
    ASSUME TypeOK
    PROVE  /\ (queue_head' = After(queue_head) /\ UNCHANGED queue_tail /\ ~ Empty)
                => Length' = Length - 1
           /\ (queue_tail' = After(queue_tail) /\ UNCHANGED queue_head
               /\ Length < MaxQueuedFiles)
                => Length' = Length + 1
<1>1. /\ queue_head \in Index /\ queue_tail \in Index
      /\ MaxQueuedFiles \in Nat /\ Index = 0 .. MaxQueuedFiles
  BY QueueAssumption DEF TypeOK, Index
<1>2. ASSUME queue_head' = After(queue_head), UNCHANGED queue_tail, ~ Empty
      PROVE  Length' = Length - 1
  <2>1. /\ queue_head' \in Index
        /\ queue_head < MaxQueuedFiles => queue_head' = queue_head + 1
        /\ queue_head = MaxQueuedFiles => queue_head' = 0
    BY <1>1, <1>2, AfterIndex
  <2>. QED
    BY <1>1, <1>2, <2>1 DEF Length, Empty
<1>3. ASSUME queue_tail' = After(queue_tail), UNCHANGED queue_head, Length < MaxQueuedFiles
      PROVE  Length' = Length + 1
  <2>1. /\ queue_tail' \in Index
        /\ queue_tail < MaxQueuedFiles => queue_tail' = queue_tail + 1
        /\ queue_tail = MaxQueuedFiles => queue_tail' = 0
    BY <1>1, <1>3, AfterIndex
  <2>. QED
    BY <1>1, <1>3, <2>1 DEF Length, Empty
<1>. QED
  BY <1>2, <1>3

-----------------------------------------------------------------------------
(* Counting threads.                                                       *)

\* Two sets that differ at most in t.
LEMMA CardinalityStep ==
    ASSUME NEW S, NEW T, NEW t, IsFiniteSet(S), T \ {t} = S \ {t}
    PROVE  /\ IsFiniteSet(T) /\ Cardinality(S) \in Nat /\ Cardinality(T) \in Nat
           /\ Cardinality(T) = Cardinality(S) + One(t \in T) - One(t \in S)
<1>1. Cardinality(S) \in Nat
  BY FS_CardinalityType
<1>2. CASE (t \in T) <=> (t \in S)
  <2>1. T = S
    BY <1>2
  <2>. QED
    BY <1>1, <1>2, <2>1 DEF One
<1>3. CASE t \in T /\ t \notin S
  <2>1. T = S \union {t}
    BY <1>3
  <2>2. IsFiniteSet(T) /\ Cardinality(T) = Cardinality(S) + 1
    BY <1>3, <2>1, FS_AddElement
  <2>. QED
    BY <1>1, <1>3, <2>2 DEF One
<1>4. CASE t \notin T /\ t \in S
  <2>1. T = S \ {t}
    BY <1>4
  <2>2. IsFiniteSet(T) /\ Cardinality(T) = Cardinality(S) - 1
    BY <1>4, <2>1, FS_RemoveElement
  <2>3. Cardinality(T) \in Nat
    BY <2>2, FS_CardinalityType
  <2>. QED
    BY <1>1, <1>4, <2>2, <2>3 DEF One
<1>. QED
  BY <1>2, <1>3, <1>4

LEMMA CountTypes ==
    /\ \A pc : IsFiniteSet(At(pc)) /\ Cardinality(At(pc)) \in Nat
    /\ IsFiniteSet(Ended) /\ Cardinality(Ended) \in Nat
<1>1. \A pc : IsFiniteSet(At(pc))
  <2>. TAKE pc
  <2>1. At(pc) \subseteq Thread
    BY DEF At
  <2>. QED
    BY <2>1, ThreadAssumption, FS_Subset
<1>2. IsFiniteSet(Ended)
  <2>1. Ended \subseteq Thread
    BY DEF Ended
  <2>. QED
    BY <2>1, ThreadAssumption, FS_Subset
<1>. QED
  BY <1>1, <1>2, FS_CardinalityType

HasEnded(e) == e.pc = "done" \/ (e.pc = "give" /\ e.file = NoFile)

\* One thread goes from one place to another.
LEMMA ThreadMoves ==
    ASSUME TypeOK, NEW t \in Thread, NEW e, thread' = [thread EXCEPT ![t] = e]
    PROVE  /\ \A pc : Cardinality(At(pc)') = Cardinality(At(pc)) + One(e.pc = pc)
                                                - One(thread[t].pc = pc)
           /\ Cardinality(Ended') = Cardinality(Ended) + One(HasEnded(e))
                                      - One(HasEnded(thread[t]))
<1>1. DOMAIN thread = Thread
  BY DEF TypeOK
<1>2. \A u \in Thread : thread'[u] = IF u = t THEN e ELSE thread[u]
  BY <1>1
<1>3. ASSUME NEW pc
      PROVE  Cardinality(At(pc)') = Cardinality(At(pc)) + One(e.pc = pc)
                                      - One(thread[t].pc = pc)
  <2>1. At(pc)' \ {t} = At(pc) \ {t}
    BY <1>2 DEF At
  <2>2. (t \in At(pc)' <=> e.pc = pc) /\ (t \in At(pc) <=> thread[t].pc = pc)
    BY <1>2 DEF At
  <2>3. Cardinality(At(pc)') = Cardinality(At(pc)) + One(t \in At(pc)') - One(t \in At(pc))
    BY <2>1, CountTypes, CardinalityStep
  <2>. QED
    BY <2>2, <2>3 DEF One
<1>4. Cardinality(Ended') = Cardinality(Ended) + One(HasEnded(e)) - One(HasEnded(thread[t]))
  <2>1. Ended' \ {t} = Ended \ {t}
    BY <1>2 DEF Ended
  <2>2. (t \in Ended' <=> HasEnded(e)) /\ (t \in Ended <=> HasEnded(thread[t]))
    BY <1>2 DEF Ended, HasEnded
  <2>3. Cardinality(Ended') = Cardinality(Ended) + One(t \in Ended') - One(t \in Ended)
    BY <2>1, CountTypes, CardinalityStep
  <2>. QED
    BY <2>2, <2>3 DEF One
<1>. QED
  BY <1>3, <1>4

LEMMA ThreadsStay ==
    ASSUME UNCHANGED thread
    PROVE  /\ \A pc : Cardinality(At(pc)') = Cardinality(At(pc))
           /\ Cardinality(Ended') = Cardinality(Ended)
<1>1. \A pc : At(pc)' = At(pc)
  BY DEF At
<1>2. Ended' = Ended
  BY DEF Ended
<1>. QED
  BY <1>1, <1>2

-----------------------------------------------------------------------------
(* Type correctness.                                                       *)

LEMMA TypeStep ==
    ASSUME TypeOK, [Next]_vars
    PROVE  TypeOK'
<1>. MaxThreads \in Nat /\ MaxQueuedFiles \in Nat
  BY ThreadAssumption, QueueAssumption
<1>1. CASE Expire
  BY <1>1 DEF Expire, TypeOK, ring, slots
<1>2. CASE Main
  <2>. USE DEF Goto, ExitWithFailure, MainPc
  <2>1. CASE QueueInit
    BY <2>1 DEF QueueInit, Capacity, TypeOK, ring, slots
  <2>2. CASE SpawnFail \/ Walk \/ WalkOver
    BY <2>2 DEF SpawnFail, Walk, WalkOver, TypeOK, ring, slots
  <2>3. CASE PutWait \/ PutTimeout \/ PutPost
    BY <2>3 DEF PutWait, PutTimeout, PutPost, TypeOK, ring, slots
  <2>4. CASE PutStore
    BY <2>4, AfterIndex DEF PutStore, TypeOK, ring, slots
  <2>5. CASE Finish \/ FinishOver
    BY <2>5 DEF Finish, FinishOver, Permits, TypeOK, ring, slots
  <2>6. CASE Join
    BY <2>6 DEF Join, TypeOK, ring, slots
  <2>7. CASE Exit
    <3>1. live' \subseteq live /\ (UNCHANGED main \/ Goto("over"))
      BY <2>7 DEF Exit
    <3>. QED
      BY <2>7, <3>1 DEF Exit, TypeOK, ring, slots
  <2>8. ASSUME NEW t \in Thread, Spawn(t)
        PROVE  TypeOK'
    BY <2>8 DEF Spawn, ThreadPc, TypeOK, ring, slots
  <2>9. ASSUME NEW f \in File, NextFile(f)
        PROVE  TypeOK'
    BY <2>9 DEF NextFile, TypeOK, ring, slots
  <2>. QED
    BY <1>2, <2>1, <2>2, <2>3, <2>4, <2>5, <2>6, <2>7, <2>8, <2>9 DEF Main
<1>3. ASSUME NEW t \in Thread, ScanningThread(t)
      PROVE  TypeOK'
  <2>. USE DEF ThreadGoto, ThreadPc
  <2>1. CASE GetWait(t)
    BY <2>1 DEF GetWait, TypeOK, ring, slots
  <2>2. CASE GetTimeout(t)
    BY <2>2 DEF GetTimeout, TypeOK, ring, slots
  <2>3. CASE GetTake(t)
    BY <2>3, AfterIndex DEF GetTake, TypeOK, ring, slots
  <2>4. CASE GetGive(t)
    BY <2>4 DEF GetGive, TypeOK, ring, slots
  <2>5. CASE ScanFile(t)
    <3>1. thread[t] \in [pc : ThreadPc, file : File \union {NoFile}] /\ scans \in [File -> Nat]
      BY DEF TypeOK
    <3>2. scans' \in [File -> Nat]
      <4>1. PICK f : scans' = [scans EXCEPT ![f] = scans[f] + 1]
        BY <2>5 DEF ScanFile
      <4>2. f \in File => scans[f] + 1 \in Nat
        BY <3>1
      <4>. QED
        BY <3>1, <4>1, <4>2
    <3>3. thread' \in [Thread -> [pc : ThreadPc, file : File \union {NoFile}]]
      BY <2>5 DEF ScanFile, TypeOK
    <3>. QED
      BY <2>5, <3>2, <3>3 DEF ScanFile, TypeOK, ring, slots
  <2>6. CASE Scanned(t)
    BY <2>6 DEF Scanned, TypeOK, ring, slots
  <2>7. CASE Look(t)
    BY <2>7 DEF Look, TypeOK, ring, slots
  <2>. QED
    BY <1>3, <2>1, <2>2, <2>3, <2>4, <2>5, <2>6, <2>7 DEF ScanningThread
<1>4. CASE UNCHANGED vars
  BY <1>4 DEF TypeOK, vars, ring, slots
<1>. QED
  BY <1>1, <1>2, <1>3, <1>4 DEF Next

\* The type invariant holds in every reachable state.
THEOREM TypeCorrect == Spec => []TypeOK
<1>1. Init => TypeOK
  <2>. MaxThreads \in Nat /\ MaxQueuedFiles \in Nat
    BY ThreadAssumption, QueueAssumption
  <2>. SUFFICES ASSUME Init
                PROVE  TypeOK
    OBVIOUS
  <2>1. main \in [pc : MainPc, file : File \union {NoFile}, released : 0 .. MaxThreads]
    BY DEF Init, MainPc
  <2>2. thread \in [Thread -> [pc : ThreadPc, file : File \union {NoFile}]]
    BY DEF Init, ThreadPc
  <2>3. /\ file_queue \in [Index -> File \union {NoFile}]
        /\ queue_head \in Index /\ queue_tail \in Index
    BY DEF Init, Index
  <2>. QED
    BY <2>1, <2>2, <2>3 DEF Init, TypeOK
<1>. QED
  BY <1>1, TypeStep, PTL DEF Spec

-----------------------------------------------------------------------------
(* The semaphores.                                                         *)

\* Before file_queue_init there is no thread and no path.
Begins == main.pc = "init" => Empty /\ \A t \in Thread : thread[t].pc = "none"

\* file_queue_finish comes after the walk.
Unreleased == main.pc = "init" \/ Filling => main.released = 0

\* A thread that asks for a path has none.
HandsFree == \A t \in Thread : thread[t].pc \in {"none", "wait", "take"} => thread[t].file = NoFile

Takers == Cardinality(At("take"))
Givers == Cardinality(At("give"))
Quits  == Cardinality(Ended)

\* What a step of a scanning thread does to the quantities in SlotsExact and
\* PermitsSuffice: it takes a permit, takes a path or finds none, gives a slot
\* back, or leaves them alone.
Wins  == /\ used_slots' = used_slots - 1 /\ Takers' = Takers + 1
         /\ UNCHANGED <<Givers, Quits, unused_slots, Length>>
Takes == /\ Takers' = Takers - 1 /\ Givers' = Givers + 1
         /\ \/ Length = 0 /\ Length' = Length /\ Quits' = Quits + 1
            \/ Length > 0 /\ Length' = Length - 1 /\ Quits' >= Quits
         /\ UNCHANGED <<used_slots, unused_slots>>
Gives == /\ Givers' = Givers - 1 /\ unused_slots' = unused_slots + 1
         /\ UNCHANGED <<Takers, Quits, used_slots, Length>>
Rests == Quits' >= Quits /\ UNCHANGED <<Takers, Givers, used_slots, unused_slots, Length>>

LEMMA CountsAreNat ==
    ASSUME TypeOK
    PROVE  /\ Takers \in Nat /\ Givers \in Nat /\ Quits \in Nat /\ Length \in Nat
           /\ used_slots \in Nat /\ unused_slots \in Nat /\ main.released \in Nat
           /\ MaxQueuedFiles \in Nat /\ MaxThreads \in Nat
<1>1. Takers \in Nat /\ Givers \in Nat /\ Quits \in Nat
  BY CountTypes DEF Takers, Givers, Quits
<1>2. MaxQueuedFiles \in Nat /\ MaxThreads \in Nat
  BY QueueAssumption, ThreadAssumption
<1>3. main.released \in 0 .. MaxThreads
  BY DEF TypeOK
<1>. QED
  BY <1>1, <1>2, <1>3, LengthType DEF TypeOK

LEMMA ThreadSteps ==
    ASSUME TypeOK, HandsFree, NEW t \in Thread, ScanningThread(t)
    PROVE  /\ UNCHANGED main
           /\ Wins \/ Takes \/ Gives \/ Rests
           /\ HandsFree'
<1>0. thread \in [Thread -> [pc : ThreadPc, file : File \union {NoFile}]]
  BY DEF TypeOK
<1>1. Takers \in Nat /\ Givers \in Nat /\ Quits \in Nat
  BY CountsAreNat
<1>2. ASSUME NEW e1, thread' = [thread EXCEPT ![t] = e1]
      PROVE  /\ Takers' = Takers + One(e1.pc = "take") - One(thread[t].pc = "take")
             /\ Givers' = Givers + One(e1.pc = "give") - One(thread[t].pc = "give")
             /\ Quits'  = Quits + One(HasEnded(e1)) - One(HasEnded(thread[t]))
  <2>1. /\ \A pc : Cardinality(At(pc)') = Cardinality(At(pc)) + One(e1.pc = pc)
                                             - One(thread[t].pc = pc)
        /\ Cardinality(Ended') = Cardinality(Ended) + One(HasEnded(e1))
                                   - One(HasEnded(thread[t]))
    BY <1>2, ThreadMoves
  <2>2. /\ Cardinality(At("take")') = Cardinality(At("take")) + One(e1.pc = "take")
                                             - One(thread[t].pc = "take")
        /\ Cardinality(At("give")') = Cardinality(At("give")) + One(e1.pc = "give")
                                             - One(thread[t].pc = "give")
    BY <2>1
  <2>. QED
    BY <2>1, <2>2 DEF Takers, Givers, Quits
<1>3. ASSUME NEW e1, thread' = [thread EXCEPT ![t] = e1],
             e1.pc \in {"none", "wait", "take"} => e1.file = NoFile
      PROVE  HandsFree'
  BY <1>0, <1>3 DEF HandsFree
<1>4. ASSUME NEW pc, ThreadGoto(t, pc)
      PROVE  thread' = [thread EXCEPT ![t] = [pc |-> pc, file |-> thread[t].file]]
  <2>1. [thread[t] EXCEPT !.pc = pc] = [pc |-> pc, file |-> thread[t].file]
    BY <1>0
  <2>. QED
    BY <1>0, <1>4, <2>1 DEF ThreadGoto
<1>5. ASSUME UNCHANGED <<queue_head, queue_tail>>
      PROVE  Length' = Length
  BY <1>5 DEF Length
<1>6. CASE GetWait(t)
  <2>. DEFINE e1 == [pc |-> "take", file |-> thread[t].file]
  <2>1. thread' = [thread EXCEPT ![t] = e1] /\ thread[t].pc = "wait"
        /\ used_slots' = used_slots - 1 /\ UNCHANGED <<main, unused_slots, queue_head, queue_tail>>
    BY <1>4, <1>6 DEF GetWait, ring
  <2>2. thread[t].file = NoFile
    BY <2>1 DEF HandsFree
  <2>3. /\ Takers' = Takers + One(e1.pc = "take") - One(thread[t].pc = "take")
        /\ Givers' = Givers + One(e1.pc = "give") - One(thread[t].pc = "give")
        /\ Quits'  = Quits + One(HasEnded(e1)) - One(HasEnded(thread[t]))
    BY <1>2, <2>1
  <2>4. Wins
    BY <1>1, <1>5, <2>1, <2>3 DEF Wins, One, HasEnded
  <2>. QED
    BY <1>3, <2>1, <2>2, <2>4
<1>7. CASE GetTimeout(t)
  <2>. DEFINE e1 == [pc |-> "done", file |-> thread[t].file]
  <2>1. thread' = [thread EXCEPT ![t] = e1] /\ thread[t].pc = "wait"
        /\ UNCHANGED <<main, used_slots, unused_slots, queue_head, queue_tail>>
    BY <1>4, <1>7 DEF GetTimeout, ring, slots
  <2>2. /\ Takers' = Takers + One(e1.pc = "take") - One(thread[t].pc = "take")
        /\ Givers' = Givers + One(e1.pc = "give") - One(thread[t].pc = "give")
        /\ Quits'  = Quits + One(HasEnded(e1)) - One(HasEnded(thread[t]))
    BY <1>2, <2>1
  <2>3. Rests
    BY <1>1, <1>5, <2>1, <2>2 DEF Rests, One, HasEnded
  <2>. QED
    BY <1>3, <2>1, <2>3
<1>8. CASE GetTake(t)
  <2>0. UNCHANGED <<main, used_slots, unused_slots, queue_tail>> /\ thread[t].pc = "take"
    BY <1>8 DEF GetTake, slots
  <2>1. CASE Empty /\ ThreadGoto(t, "give") /\ UNCHANGED queue_head
    <3>. DEFINE e1 == [pc |-> "give", file |-> thread[t].file]
    <3>1. thread' = [thread EXCEPT ![t] = e1] /\ thread[t].file = NoFile
      BY <1>4, <2>0, <2>1 DEF HandsFree
    <3>2. /\ Takers' = Takers + One(e1.pc = "take") - One(thread[t].pc = "take")
          /\ Givers' = Givers + One(e1.pc = "give") - One(thread[t].pc = "give")
          /\ Quits'  = Quits + One(HasEnded(e1)) - One(HasEnded(thread[t]))
      BY <1>2, <3>1
    <3>3. Length = 0 /\ Length' = Length
      BY <1>5, <2>0, <2>1, LengthType
    <3>4. Takes
      BY <1>1, <2>0, <3>1, <3>2, <3>3 DEF Takes, One, HasEnded
    <3>. QED
      BY <1>3, <2>0, <3>1, <3>4
  <2>2. CASE /\ ~ Empty
             /\ thread' = [thread EXCEPT ![t] = [pc |-> "give", file |-> file_queue[queue_head]]]
             /\ queue_head' = After(queue_head)
    <3>. DEFINE e1 == [pc |-> "give", file |-> file_queue[queue_head]]
    <3>1. thread' = [thread EXCEPT ![t] = e1]
      BY <2>2
    <3>2. /\ Takers' = Takers + One(e1.pc = "take") - One(thread[t].pc = "take")
          /\ Givers' = Givers + One(e1.pc = "give") - One(thread[t].pc = "give")
          /\ Quits'  = Quits + One(HasEnded(e1)) - One(HasEnded(thread[t]))
      BY <1>2, <3>1
    <3>3. Length > 0 /\ Length' = Length - 1
      BY <2>0, <2>2, LengthType, LengthSteps
    <3>4. Takes
      BY <1>1, <2>0, <3>2, <3>3 DEF Takes, One, HasEnded
    <3>. QED
      BY <1>3, <2>0, <3>1, <3>4
  <2>. QED
    BY <1>8, <2>1, <2>2 DEF GetTake
<1>9. CASE GetGive(t)
  <2>. DEFINE pc1 == IF thread[t].file = NoFile THEN "done" ELSE "look"
              e1  == [pc |-> pc1, file |-> thread[t].file]
  <2>1. thread' = [thread EXCEPT ![t] = e1] /\ thread[t].pc = "give"
        /\ unused_slots' = unused_slots + 1 /\ UNCHANGED <<main, used_slots, queue_head, queue_tail>>
    BY <1>4, <1>9 DEF GetGive, ring
  <2>2. /\ Takers' = Takers + One(e1.pc = "take") - One(thread[t].pc = "take")
        /\ Givers' = Givers + One(e1.pc = "give") - One(thread[t].pc = "give")
        /\ Quits'  = Quits + One(HasEnded(e1)) - One(HasEnded(thread[t]))
    BY <1>2, <2>1
  <2>3. Gives
    BY <1>1, <1>5, <2>1, <2>2 DEF Gives, One, HasEnded
  <2>. QED
    BY <1>3, <2>1, <2>3
<1>10. CASE Look(t) \/ ScanFile(t)
  <2>1. /\ \E e1 : /\ thread' = [thread EXCEPT ![t] = e1]
                   /\ \/ e1 = [pc |-> "begin", file |-> thread[t].file]
                      \/ e1 = [pc |-> "scan", file |-> thread[t].file]
                      \/ e1 = [pc |-> "done", file |-> NoFile]
        /\ thread[t].pc \in {"look", "begin"}
        /\ UNCHANGED <<main, used_slots, unused_slots, queue_head, queue_tail>>
    BY <1>4, <1>10 DEF Look, ScanFile, ring, slots
  <2>2. PICK e1 : /\ thread' = [thread EXCEPT ![t] = e1]
                  /\ \/ e1 = [pc |-> "begin", file |-> thread[t].file]
                     \/ e1 = [pc |-> "scan", file |-> thread[t].file]
                     \/ e1 = [pc |-> "done", file |-> NoFile]
    BY <2>1
  <2>3. /\ Takers' = Takers + One(e1.pc = "take") - One(thread[t].pc = "take")
        /\ Givers' = Givers + One(e1.pc = "give") - One(thread[t].pc = "give")
        /\ Quits'  = Quits + One(HasEnded(e1)) - One(HasEnded(thread[t]))
    BY <1>2, <2>2
  <2>4. Rests
    BY <1>1, <1>5, <2>1, <2>2, <2>3 DEF Rests, One, HasEnded
  <2>. QED
    BY <1>3, <2>1, <2>2, <2>4
<1>11. CASE Scanned(t)
  <2>. DEFINE e1 == [pc |-> "wait", file |-> NoFile]
  <2>1. thread' = [thread EXCEPT ![t] = e1] /\ thread[t].pc = "scan"
        /\ UNCHANGED <<main, used_slots, unused_slots, queue_head, queue_tail>>
    BY <1>11 DEF Scanned, ring, slots
  <2>2. /\ Takers' = Takers + One(e1.pc = "take") - One(thread[t].pc = "take")
        /\ Givers' = Givers + One(e1.pc = "give") - One(thread[t].pc = "give")
        /\ Quits'  = Quits + One(HasEnded(e1)) - One(HasEnded(thread[t]))
    BY <1>2, <2>1
  <2>3. Rests
    BY <1>1, <1>5, <2>1, <2>2 DEF Rests, One, HasEnded
  <2>. QED
    BY <1>3, <2>1, <2>3
<1>. QED
  BY <1>6, <1>7, <1>8, <1>9, <1>10, <1>11 DEF ScanningThread

\* The semaphores are sound at every step.
SlotsOK == SlotsExact /\ PermitsSuffice /\ Begins /\ Unreleased /\ HandsFree

LEMMA MainSteps ==
    ASSUME TypeOK, SlotsOK, Main
    PROVE  SlotsOK'
<1>. USE CountsAreNat
<1>. USE DEF Goto, ExitWithFailure, Filling
<1>0. /\ Filling => /\ used_slots + Takers + One(main.pc = "post") = Length
                    /\ unused_slots + Givers + One(main.pc = "store") + Length = MaxQueuedFiles
      /\ main.pc \in {"finish", "join"} => used_slots + Takers + Quits >= Length + main.released
      /\ main.pc = "init" \/ Filling => main.released = 0
  BY DEF SlotsOK, SlotsExact, PermitsSuffice, Unreleased, Takers, Givers, Quits
<1>1. ASSUME /\ Filling' => /\ used_slots' + Takers' + One(main'.pc = "post") = Length'
                            /\ unused_slots' + Givers' + One(main'.pc = "store") + Length'
                                 = MaxQueuedFiles
             /\ main'.pc \in {"finish", "join"}
                  => used_slots' + Takers' + Quits' >= Length' + main'.released
             /\ main'.pc = "init" \/ Filling' => main'.released = 0
             /\ main'.pc # "init", HandsFree'
      PROVE  SlotsOK'
  BY <1>1 DEF SlotsOK, SlotsExact, PermitsSuffice, Begins, Unreleased, Takers, Givers, Quits
<1>2. ASSUME UNCHANGED thread
      PROVE  /\ Takers' = Takers /\ Givers' = Givers /\ Quits' = Quits
             /\ HandsFree'
  <2>1. Cardinality(At("take")') = Cardinality(At("take"))
        /\ Cardinality(At("give")') = Cardinality(At("give"))
        /\ Cardinality(Ended') = Cardinality(Ended)
    BY <1>2, ThreadsStay
  <2>. QED
    BY <1>2, <2>1 DEF SlotsOK, HandsFree, Takers, Givers, Quits
<1>3. ASSUME UNCHANGED <<queue_head, queue_tail>>
      PROVE  Length' = Length
  BY <1>3 DEF Length
<1>4. main \in [pc : MainPc, file : File \union {NoFile}, released : 0 .. MaxThreads]
  BY DEF TypeOK
<1>5. CASE QueueInit
  <2>1. UNCHANGED <<thread, queue_head, queue_tail>> /\ main.pc = "init"
    BY <1>5 DEF QueueInit, ring
  <2>2. Takers = 0 /\ Givers = 0 /\ Length = 0
    <3>1. At("take") = {} /\ At("give") = {}
      BY <2>1 DEF SlotsOK, Begins, At
    <3>2. Length = 0
      BY <2>1, LengthType DEF SlotsOK, Begins
    <3>. QED
      BY <3>1, <3>2, FS_EmptySet DEF Takers, Givers
  <2>3. CASE Goto("spawn") /\ used_slots' = 0 /\ unused_slots' = MaxQueuedFiles
    BY <1>0, <1>1, <1>2, <1>3, <1>4, <2>1, <2>2, <2>3 DEF One
  <2>4. CASE ExitWithFailure
    BY <1>1, <1>2, <1>4, <2>1, <2>4
  <2>. QED
    BY <1>5, <2>3, <2>4 DEF QueueInit, Capacity
<1>6. CASE SpawnFail
  BY <1>1, <1>2, <1>4, <1>6 DEF SpawnFail
<1>7. CASE Walk
  BY <1>0, <1>1, <1>2, <1>3, <1>4, <1>7 DEF Walk, ring, slots, One
<1>8. CASE WalkOver
  BY <1>0, <1>1, <1>2, <1>3, <1>4, <1>8 DEF WalkOver, ring, slots, One
<1>9. CASE PutWait
  BY <1>0, <1>1, <1>2, <1>3, <1>4, <1>9 DEF PutWait, ring, One
<1>10. CASE PutTimeout
  BY <1>0, <1>1, <1>2, <1>3, <1>4, <1>10 DEF PutTimeout, ring, slots, One
<1>11. CASE PutStore
  <2>1. Length < MaxQueuedFiles /\ main.pc = "store"
    BY <1>0, <1>11 DEF PutStore, One
  <2>2. Length' = Length + 1
    BY <1>11, <2>1, LengthSteps DEF PutStore
  <2>. QED
    BY <1>0, <1>1, <1>2, <1>4, <1>11, <2>1, <2>2 DEF PutStore, slots, One
<1>12. CASE PutPost
  BY <1>0, <1>1, <1>2, <1>3, <1>4, <1>12 DEF PutPost, ring, One
<1>13. CASE Finish
  BY <1>0, <1>1, <1>2, <1>3, <1>4, <1>13 DEF Finish, ring
<1>14. CASE FinishOver
  BY <1>0, <1>1, <1>2, <1>3, <1>4, <1>14 DEF FinishOver, ring, slots
<1>15. CASE Join
  BY <1>1, <1>2, <1>4, <1>15 DEF Join
<1>16. CASE Exit
  <2>1. UNCHANGED thread /\ main.pc = "exit" /\ (UNCHANGED main \/ Goto("over"))
    BY <1>16 DEF Exit
  <2>. QED
    BY <1>1, <1>2, <1>4, <2>1
<1>17. ASSUME NEW t \in Thread, Spawn(t)
       PROVE  SlotsOK'
  <2>. DEFINE e == [pc |-> "wait", file |-> thread[t].file]
  <2>1. thread \in [Thread -> [pc : ThreadPc, file : File \union {NoFile}]]
    BY DEF TypeOK
  <2>2. thread' = [thread EXCEPT ![t] = e] /\ thread[t].pc = "none" /\ e.file = NoFile
    <3>1. [thread[t] EXCEPT !.pc = "wait"] = e
      BY <2>1
    <3>. QED
      BY <1>17, <2>1, <3>1 DEF Spawn, SlotsOK, HandsFree
  <2>3. /\ \A pc : Cardinality(At(pc)') = Cardinality(At(pc)) + One(e.pc = pc)
                                             - One(thread[t].pc = pc)
        /\ Cardinality(Ended') = Cardinality(Ended) + One(HasEnded(e))
                                   - One(HasEnded(thread[t]))
    BY <2>2, ThreadMoves
  <2>4. /\ Cardinality(At("take")') = Cardinality(At("take")) + One(e.pc = "take")
                                             - One(thread[t].pc = "take")
        /\ Cardinality(At("give")') = Cardinality(At("give")) + One(e.pc = "give")
                                             - One(thread[t].pc = "give")
    BY <2>3
  <2>5. Takers' = Takers /\ Givers' = Givers /\ Quits' = Quits
    BY <2>2, <2>3, <2>4 DEF Takers, Givers, Quits, One, HasEnded
  <2>6. HandsFree'
    BY <2>1, <2>2 DEF SlotsOK, HandsFree
  <2>. QED
    BY <1>0, <1>1, <1>3, <1>17, <2>5, <2>6 DEF Spawn, ring, slots
<1>18. ASSUME NEW f \in File, NextFile(f)
       PROVE  SlotsOK'
  BY <1>0, <1>1, <1>2, <1>3, <1>4, <1>18 DEF NextFile, ring, slots, One
<1>. QED
  BY <1>5, <1>6, <1>7, <1>8, <1>9, <1>10, <1>11, <1>12, <1>13, <1>14, <1>15, <1>16,
     <1>17, <1>18 DEF Main

LEMMA SlotsStep ==
    ASSUME TypeOK, SlotsOK, [Next]_vars
    PROVE  SlotsOK'
<1>. USE CountsAreNat
<1>1. CASE Expire
  <2>1. UNCHANGED <<main, thread, ring, slots>>
    BY <1>1 DEF Expire
  <2>. QED
    BY <2>1 DEF SlotsOK, SlotsExact, PermitsSuffice, Begins, Unreleased, HandsFree, Filling,
                At, Ended, Length, Empty, ring, slots
<1>2. CASE Main
  BY <1>2, MainSteps
<1>3. ASSUME NEW t \in Thread, ScanningThread(t)
      PROVE  SlotsOK'
  <2>1. UNCHANGED main /\ (Wins \/ Takes \/ Gives \/ Rests) /\ HandsFree'
    BY <1>3, ThreadSteps DEF SlotsOK
  <2>2. main.pc # "init"
    <3>1. thread[t].pc # "none"
      BY <1>3 DEF ScanningThread, GetWait, GetTimeout, GetTake, GetGive, Look, ScanFile, Scanned
    <3>. QED
      BY <3>1 DEF SlotsOK, Begins
  <2>3. /\ Filling => /\ used_slots + Takers + One(main.pc = "post") = Length
                      /\ unused_slots + Givers + One(main.pc = "store") + Length
                           = MaxQueuedFiles
        /\ main.pc \in {"finish", "join"}
             => used_slots + Takers + Quits >= Length + main.released
    BY DEF SlotsOK, SlotsExact, PermitsSuffice, Takers, Givers, Quits
  <2>4. Takers' \in Nat /\ Givers' \in Nat /\ Quits' \in Nat
    <3>1. /\ At("take")' \subseteq Thread /\ At("give")' \subseteq Thread
          /\ Ended' \subseteq Thread
      BY DEF At, Ended
    <3>2. /\ Cardinality(At("take")') \in Nat /\ Cardinality(At("give")') \in Nat
          /\ Cardinality(Ended') \in Nat
      BY <3>1, ThreadAssumption, FS_Subset, FS_CardinalityType
    <3>. QED
      BY <3>2 DEF Takers, Givers, Quits
  <2>5. /\ Filling => /\ used_slots' + Takers' + One(main.pc = "post") = Length'
                      /\ unused_slots' + Givers' + One(main.pc = "store") + Length'
                           = MaxQueuedFiles
        /\ main.pc \in {"finish", "join"}
             => used_slots' + Takers' + Quits' >= Length' + main.released
    BY <2>1, <2>3, <2>4 DEF Wins, Takes, Gives, Rests, One
  <2>. QED
    BY <2>1, <2>2, <2>5 DEF SlotsOK, SlotsExact, PermitsSuffice, Begins, Unreleased, Filling,
                            Takers, Givers, Quits
<1>4. CASE UNCHANGED vars
  BY <1>4 DEF SlotsOK, SlotsExact, PermitsSuffice, Begins, Unreleased, HandsFree, Filling,
              At, Ended, Length, Empty, vars, ring, slots
<1>. QED
  BY <1>1, <1>2, <1>3, <1>4 DEF Next

LEMMA SlotsInvariant == Spec => [](TypeOK /\ SlotsOK)
<1>1. Init => SlotsOK
  BY DEF Init, SlotsOK, SlotsExact, PermitsSuffice, Begins, Unreleased, HandsFree, Filling, Empty
<1>2. TypeOK /\ SlotsOK /\ [Next]_vars => SlotsOK'
  BY SlotsStep
<1>. QED
  BY <1>1, <1>2, TypeCorrect, PTL DEF Spec

\* file_queue_put never overwrites a path and file_queue_get never finds the ring
\* empty before file_queue_finish, for every ring size and number of threads.
THEOREM SlotsCorrect == Spec => []SlotsExact
<1>1. SlotsOK => SlotsExact
  BY DEF SlotsOK
<1>. QED
  BY <1>1, SlotsInvariant, PTL

\* The permits file_queue_finish releases are enough for the paths that are left
\* and for the end of every thread.
THEOREM PermitsCorrect == Spec => []PermitsSuffice
<1>1. SlotsOK => PermitsSuffice
  BY DEF SlotsOK
<1>. QED
  BY <1>1, SlotsInvariant, PTL

-----------------------------------------------------------------------------
(* A run of the yara command implements YaraFileScan, and its threads end  *)
(* in time, for any number of files, threads and slots.                    *)

-----------------------------------------------------------------------------
(* Where the files are.                                                    *)

\* The slots with a path nobody has taken.
Occupied == {i \in Index : IF queue_head <= queue_tail
                           THEN queue_head <= i /\ i < queue_tail
                           ELSE queue_head <= i \/ i < queue_tail}

\* Main has a path to store, a thread one to scan.
Putting == main.pc \in {"put", "store"}
Held(t) == thread[t].pc \in {"give", "look", "begin"} /\ thread[t].file # NoFile

Fresh(f) == f \in File \ todo /\ scans[f] = 0

RingFiles ==
    /\ \A i \in Occupied : Fresh(file_queue[i]) /\ (Putting => file_queue[i] # main.file)
    /\ \A i, j \in Occupied : file_queue[i] = file_queue[j] => i = j

MainFile == Putting => Fresh(main.file)

HeldFiles ==
    /\ \A t \in Thread : Held(t) =>
        /\ Fresh(thread[t].file)
        /\ Putting => thread[t].file # main.file
        /\ \A i \in Occupied : file_queue[i] # thread[t].file
    /\ \A t, u \in Thread :
        Held(t) /\ Held(u) /\ thread[t].file = thread[u].file => t = u
    /\ \A t \in Thread : thread[t].pc \in {"look", "begin"} => thread[t].file # NoFile

Once == \A f \in File : scans[f] \in {0, 1} /\ (f \in todo => scans[f] = 0)

\* Before the deadline no file is lost.
Somewhere(f) ==
    \/ f \in todo \/ scans[f] = 1
    \/ Putting /\ main.file = f
    \/ \E i \in Occupied : file_queue[i] = f
    \/ \E t \in Thread : Held(t) /\ thread[t].file = f
NoneLost == ~ expired => \A f \in File : Somewhere(f)

FilesOK == RingFiles /\ MainFile /\ HeldFiles /\ Once /\ NoneLost

\* The walk ends before the deadline only when there is nothing left; main decides
\* how the run ended when it leaves.
WalkOK == /\ ~ expired /\ main.pc \in {"finish", "join"} => todo = {}
          /\ main.pc \notin {"exit", "over"} => outcome = "running"

\* The head is occupied, a put occupies the tail, a get frees the head.
LEMMA RingSteps ==
    ASSUME TypeOK
    PROVE  /\ Empty => Occupied = {}
           /\ ~ Empty => queue_head \in Occupied
           /\ (queue_head' = After(queue_head) /\ UNCHANGED queue_tail /\ ~ Empty)
                => Occupied' = Occupied \ {queue_head}
           /\ (queue_tail' = After(queue_tail) /\ UNCHANGED queue_head
               /\ Length < MaxQueuedFiles)
                => /\ Occupied' = Occupied \union {queue_tail}
                   /\ queue_tail \in Index \ Occupied
<1>1. /\ queue_head \in Index /\ queue_tail \in Index
      /\ MaxQueuedFiles \in Nat /\ Index = 0 .. MaxQueuedFiles
  BY QueueAssumption DEF TypeOK, Index
<1>2. (Empty => Occupied = {}) /\ (~ Empty => queue_head \in Occupied)
  BY <1>1 DEF Empty, Occupied
<1>3. ASSUME queue_head' = After(queue_head), UNCHANGED queue_tail, ~ Empty
      PROVE  Occupied' = Occupied \ {queue_head}
  <2>1. /\ queue_head' \in Index
        /\ queue_head < MaxQueuedFiles => queue_head' = queue_head + 1
        /\ queue_head = MaxQueuedFiles => queue_head' = 0
    BY <1>1, <1>3, AfterIndex
  <2>2. \A i \in Index : i \in Occupied' <=> i \in Occupied /\ i # queue_head
    BY <1>1, <1>3, <2>1 DEF Occupied, Empty
  <2>. QED
    BY <2>2 DEF Occupied
<1>4. ASSUME queue_tail' = After(queue_tail), UNCHANGED queue_head, Length < MaxQueuedFiles
      PROVE  /\ Occupied' = Occupied \union {queue_tail}
             /\ queue_tail \in Index \ Occupied
  <2>1. /\ queue_tail' \in Index
        /\ queue_tail < MaxQueuedFiles => queue_tail' = queue_tail + 1
        /\ queue_tail = MaxQueuedFiles => queue_tail' = 0
    BY <1>1, <1>4, AfterIndex
  <2>2. \A i \in Index : i \in Occupied' <=> i \in Occupied \/ i = queue_tail
    BY <1>1, <1>4, <2>1 DEF Occupied, Length
  <2>3. queue_tail \notin Occupied
    BY <1>1 DEF Occupied
  <2>. QED
    BY <1>1, <2>2, <2>3 DEF Occupied
<1>. QED
  BY <1>2, <1>3, <1>4

-----------------------------------------------------------------------------
(* Steps that leave the files where they are.                              *)

\* Main keeps its path, or gives it up at the deadline.
MainKeeps ==
    /\ Putting' => Putting /\ main'.file = main.file
    /\ ~ expired' => ~ expired /\ (Putting => Putting')

\* t keeps what it has.
Keeps(t) ==
    /\ Held(t)' <=> Held(t)
    /\ Held(t) => thread'[t].file = thread[t].file
    /\ thread'[t].pc \in {"look", "begin"} => Held(t)

LEMMA FilesStay ==
    ASSUME FilesOK, MainKeeps, \A t \in Thread : Keeps(t), UNCHANGED <<todo, ring, scans>>
    PROVE  FilesOK'
<1>1. Occupied' = Occupied /\ file_queue' = file_queue /\ todo' = todo /\ scans' = scans
  BY DEF Occupied, ring
<1>2. RingFiles'
  BY <1>1 DEF FilesOK, RingFiles, Fresh, MainKeeps
<1>3. MainFile'
  BY <1>1 DEF FilesOK, MainFile, Fresh, MainKeeps
<1>4. HeldFiles'
  <2>1. ASSUME NEW t \in Thread, Held(t)'
        PROVE  Held(t) /\ thread'[t].file = thread[t].file
    BY <2>1 DEF Keeps
  <2>2. ASSUME NEW t \in Thread, thread'[t].pc \in {"look", "begin"}
        PROVE  thread'[t].file # NoFile
    BY <2>2 DEF Keeps, Held
  <2>. QED
    BY <1>1, <2>1, <2>2 DEF FilesOK, HeldFiles, Fresh, MainKeeps
<1>5. Once'
  BY <1>1 DEF FilesOK, Once
<1>6. NoneLost'
  <2>1. SUFFICES ASSUME ~ expired', NEW f \in File PROVE Somewhere(f)'
    BY DEF NoneLost
  <2>2. Somewhere(f)
    BY <2>1 DEF FilesOK, NoneLost, MainKeeps
  <2>3. (Putting /\ main.file = f) => (Putting /\ main.file = f)'
    BY <2>1 DEF MainKeeps
  <2>4. (\E t \in Thread : Held(t) /\ thread[t].file = f)
           => (\E t \in Thread : Held(t) /\ thread[t].file = f)'
    BY DEF Keeps
  <2>. QED
    BY <1>1, <2>2, <2>3, <2>4 DEF Somewhere
<1>. QED
  BY <1>2, <1>3, <1>4, <1>5, <1>6 DEF FilesOK

\* One thread moves, the others stay where they are.
LEMMA OneMoves ==
    ASSUME TypeOK, NEW t \in Thread, NEW e, thread' = [thread EXCEPT ![t] = e]
    PROVE  /\ thread'[t] = e
           /\ \A u \in Thread \ {t} : thread'[u] = thread[u] /\ (Held(u)' <=> Held(u))
<1>. QED
  BY DEF TypeOK, Held
-----------------------------------------------------------------------------
(* Steps that move a file.                                                 *)

LEMMA NextFileStep ==
    ASSUME TypeOK, FilesOK, NEW f \in File, NextFile(f)
    PROVE  FilesOK'
<1>1. /\ f \in todo /\ todo' = todo \ {f} /\ ~ Putting /\ Putting' /\ main'.file = f
      /\ file_queue' = file_queue /\ Occupied' = Occupied /\ scans' = scans
      /\ thread' = thread /\ expired' = expired
  BY DEF NextFile, TypeOK, ring, Occupied, Putting
<1>2. \A g : Fresh(g) => Fresh(g)' /\ g # f
  BY <1>1 DEF Fresh
<1>3. RingFiles'
  BY <1>1, <1>2 DEF FilesOK, RingFiles
<1>4. MainFile'
  BY <1>1 DEF FilesOK, MainFile, Fresh, Once
<1>5. HeldFiles'
  <2>1. \A t \in Thread : Held(t)' <=> Held(t)
    BY <1>1 DEF Held
  <2>. QED
    BY <1>1, <1>2, <2>1 DEF FilesOK, HeldFiles
<1>6. Once'
  BY <1>1 DEF FilesOK, Once
<1>7. NoneLost'
  BY <1>1 DEF FilesOK, NoneLost, Somewhere, Held
<1>. QED
  BY <1>3, <1>4, <1>5, <1>6, <1>7 DEF FilesOK

\* There is room: SlotsExact.
LEMMA PutStoreStep ==
    ASSUME TypeOK, SlotsOK, FilesOK, PutStore
    PROVE  FilesOK'
<1>1. /\ Putting /\ ~ Putting' /\ main'.pc = "post" /\ todo' = todo /\ scans' = scans
      /\ thread' = thread /\ expired' = expired
      /\ queue_tail' = After(queue_tail) /\ UNCHANGED queue_head
      /\ file_queue' = [file_queue EXCEPT ![queue_tail] = main.file]
  BY DEF PutStore, Goto, TypeOK, Putting
<1>2. Length < MaxQueuedFiles
  <2>1. unused_slots + Givers + One(main.pc = "store") + Length = MaxQueuedFiles
    BY DEF SlotsOK, SlotsExact, Filling, PutStore, Givers
  <2>2. One(main.pc = "store") = 1
    BY DEF PutStore, One
  <2>. QED
    BY <2>1, <2>2, CountsAreNat
<1>3. Occupied' = Occupied \union {queue_tail} /\ queue_tail \in Index \ Occupied
  BY <1>1, <1>2, RingSteps
<1>4. /\ file_queue'[queue_tail] = main.file
      /\ \A i \in Occupied : file_queue'[i] = file_queue[i]
  BY <1>1, <1>3 DEF TypeOK, Occupied
<1>5. Fresh(main.file) /\ \A g : Fresh(g)' <=> Fresh(g)
  BY <1>1 DEF FilesOK, MainFile, Fresh
<1>6. \A t \in Thread : Held(t)' <=> Held(t)
  BY <1>1 DEF Held
<1>7. RingFiles'
  <2>1. \A i \in Occupied : file_queue[i] # main.file
    BY <1>1 DEF FilesOK, RingFiles
  <2>. QED
    BY <1>1, <1>3, <1>4, <1>5, <2>1 DEF FilesOK, RingFiles
<1>8. MainFile'
  BY <1>1 DEF MainFile
<1>9. HeldFiles'
  <2>1. \A t \in Thread : Held(t) => thread[t].file # main.file
    BY <1>1 DEF FilesOK, HeldFiles
  <2>. QED
    BY <1>1, <1>3, <1>4, <1>5, <1>6, <2>1 DEF FilesOK, HeldFiles
<1>10. Once'
  BY <1>1 DEF FilesOK, Once
<1>11. NoneLost'
  <2>1. SUFFICES ASSUME ~ expired, NEW f \in File PROVE Somewhere(f)'
    BY <1>1 DEF NoneLost
  <2>2. Somewhere(f)
    BY <2>1 DEF FilesOK, NoneLost
  <2>3. (Putting /\ main.file = f) \/ (\E i \in Occupied : file_queue[i] = f)
           => \E i \in Occupied' : file_queue'[i] = f
    BY <1>3, <1>4
  <2>. QED
    BY <1>1, <1>6, <2>2, <2>3 DEF Somewhere
<1>. QED
  BY <1>7, <1>8, <1>9, <1>10, <1>11 DEF FilesOK

LEMMA GetTakeStep ==
    ASSUME TypeOK, FilesOK, NEW t \in Thread, thread[t].pc = "take", ~ Empty,
           thread' = [thread EXCEPT ![t] = [pc |-> "give", file |-> file_queue[queue_head]]],
           queue_head' = After(queue_head),
           UNCHANGED <<main, file_queue, queue_tail, todo, expired, scans>>
    PROVE  FilesOK'
<1>. DEFINE f == file_queue[queue_head]
<1>1. Occupied' = Occupied \ {queue_head} /\ queue_head \in Occupied
  BY RingSteps
<1>2. /\ Fresh(f) /\ (Putting => f # main.file)
      /\ \A i \in Occupied' : file_queue[i] # f
      /\ \A u \in Thread : Held(u) => thread[u].file # f
  BY <1>1 DEF FilesOK, RingFiles, HeldFiles
<1>3. thread'[t].pc = "give" /\ thread'[t].file = f
  BY DEF TypeOK
<1>4. \A u \in Thread \ {t} : thread'[u] = thread[u] /\ (Held(u)' <=> Held(u))
  BY OneMoves
<1>5. ~ Held(t) /\ Held(t)'
  BY <1>2, <1>3, FileAssumption DEF Held, Fresh
<1>6. (Putting' <=> Putting) /\ (\A g : Fresh(g)' <=> Fresh(g))
  BY DEF Putting, Fresh
<1>. HIDE DEF f
<1>7. RingFiles'
  BY <1>1, <1>6 DEF FilesOK, RingFiles
<1>8. MainFile'
  BY <1>6 DEF FilesOK, MainFile
<1>9. HeldFiles'
  <2>1. ASSUME NEW u \in Thread, Held(u)'
        PROVE  /\ Fresh(thread'[u].file)
               /\ Putting => thread'[u].file # main.file
               /\ \A i \in Occupied' : file_queue[i] # thread'[u].file
    BY <1>1, <1>2, <1>3, <1>4, <2>1 DEF FilesOK, HeldFiles
  <2>2. ASSUME NEW u \in Thread, NEW v \in Thread, Held(u)', Held(v)',
               thread'[u].file = thread'[v].file
        PROVE  u = v
    BY <1>2, <1>3, <1>4, <2>2 DEF FilesOK, HeldFiles
  <2>3. ASSUME NEW u \in Thread, thread'[u].pc \in {"look", "begin"}
        PROVE  thread'[u].file # NoFile
    BY <1>3, <1>4, <2>3 DEF FilesOK, HeldFiles
  <2>. QED
    BY <1>6, <2>1, <2>2, <2>3 DEF HeldFiles
<1>10. Once'
  BY DEF FilesOK, Once
<1>11. NoneLost'
  <2>1. SUFFICES ASSUME ~ expired, NEW g \in File PROVE Somewhere(g)'
    BY DEF NoneLost
  <2>2. Somewhere(g)
    BY <2>1 DEF FilesOK, NoneLost
  <2>3. CASE \E i \in Occupied : file_queue[i] = g
    <3>1. PICK i \in Occupied : file_queue[i] = g
      BY <2>3
    <3>2. CASE i = queue_head
      BY <1>3, <1>5, <3>1, <3>2 DEF Somewhere, f
    <3>3. CASE i # queue_head
      BY <1>1, <3>1, <3>3 DEF Somewhere
    <3>. QED
      BY <3>2, <3>3
  <2>4. CASE \E u \in Thread : Held(u) /\ thread[u].file = g
    <3>1. \E u \in Thread : Held(u)' /\ thread'[u].file = g
      BY <1>4, <1>5, <2>4
    <3>. QED
      BY <3>1 DEF Somewhere
  <2>5. CASE g \in todo \/ scans[g] = 1 \/ (Putting /\ main.file = g)
    BY <1>6, <2>5 DEF Somewhere
  <2>. QED
    BY <2>2, <2>3, <2>4, <2>5 DEF Somewhere
<1>. QED
  BY <1>7, <1>8, <1>9, <1>10, <1>11 DEF FilesOK

LEMMA ScanFileStep ==
    ASSUME TypeOK, FilesOK, NEW t \in Thread, ScanFile(t)
    PROVE  FilesOK' /\ Held(t) /\ Fresh(thread[t].file)
<1>. DEFINE f == thread[t].file
<1>1. thread[t].pc = "begin" /\ Held(t) /\ Fresh(f)
  BY DEF ScanFile, FilesOK, HeldFiles, Held
<1>2. UNCHANGED <<main, ring, todo, expired>> /\ Occupied' = Occupied /\ (Putting' <=> Putting)
      /\ file_queue' = file_queue
  BY DEF ScanFile, ring, Occupied, Putting
<1>3. PICK e : e.pc = "scan" /\ thread' = [thread EXCEPT ![t] = e]
  BY DEF ScanFile, ThreadGoto, TypeOK
<1>4. ~ Held(t)' /\ thread'[t].pc \notin {"look", "begin"}
  BY <1>3, OneMoves DEF Held
<1>5. \A u \in Thread \ {t} : thread'[u] = thread[u] /\ (Held(u)' <=> Held(u))
  BY <1>3, OneMoves
<1>6. scans' = [scans EXCEPT ![f] = @ + 1]
  BY DEF ScanFile
<1>7. scans \in [File -> Nat] /\ f \in File /\ scans[f] = 0
  BY <1>1 DEF TypeOK, Fresh
<1>. HIDE DEF f
<1>8. /\ \A g \in File \ {f} : scans'[g] = scans[g]
      /\ scans'[f] = 1
  BY <1>6, <1>7
<1>9. \A g : Fresh(g) /\ g # f => Fresh(g)'
  BY <1>2, <1>8 DEF Fresh
<1>10. /\ \A i \in Occupied : file_queue[i] # f
       /\ Putting => main.file # f
       /\ \A u \in Thread \ {t} : Held(u) => thread[u].file # f
  BY <1>1 DEF FilesOK, HeldFiles, f
<1>11. RingFiles'
  BY <1>2, <1>9, <1>10 DEF FilesOK, RingFiles
<1>12. MainFile'
  BY <1>2, <1>9, <1>10 DEF FilesOK, MainFile
<1>13. HeldFiles'
  <2>1. ASSUME NEW u \in Thread, Held(u)'
        PROVE  u # t /\ thread'[u] = thread[u] /\ Held(u) /\ Fresh(thread[u].file)'
    BY <1>4, <1>5, <1>9, <1>10, <2>1 DEF FilesOK, HeldFiles
  <2>2. ASSUME NEW u \in Thread, thread'[u].pc \in {"look", "begin"}
        PROVE  thread'[u].file # NoFile
    BY <1>4, <1>5, <2>2 DEF FilesOK, HeldFiles
  <2>3. ASSUME NEW u \in Thread, Held(u)'
        PROVE  /\ Fresh(thread[u].file)' /\ thread'[u].file = thread[u].file
               /\ Putting' => thread'[u].file # main'.file
               /\ \A i \in Occupied' : file_queue'[i] # thread'[u].file
    BY <1>2, <2>1, <2>3 DEF FilesOK, HeldFiles
  <2>4. ASSUME NEW u \in Thread, NEW v \in Thread, Held(u)', Held(v)',
               thread'[u].file = thread'[v].file
        PROVE  u = v
    BY <2>1, <2>4 DEF FilesOK, HeldFiles
  <2>. QED
    BY <2>2, <2>3, <2>4 DEF HeldFiles
<1>14. Once'
  BY <1>1, <1>2, <1>8 DEF FilesOK, Once, Fresh, f
<1>15. NoneLost'
  <2>1. SUFFICES ASSUME ~ expired, NEW g \in File PROVE Somewhere(g)'
    BY <1>2 DEF NoneLost
  <2>2. CASE g = f
    BY <1>8, <2>1, <2>2 DEF Somewhere
  <2>3. CASE g # f
    <3>1. Somewhere(g)
      BY <2>1 DEF FilesOK, NoneLost
    <3>2. (\E u \in Thread : Held(u) /\ thread[u].file = g)
             => (\E u \in Thread : Held(u) /\ thread[u].file = g)'
      BY <1>5, <2>3 DEF f
    <3>. QED
      BY <1>2, <1>8, <2>3, <3>1, <3>2 DEF Somewhere
  <2>. QED
    BY <2>2, <2>3
<1>. QED
  BY <1>1, <1>11, <1>12, <1>13, <1>14, <1>15 DEF FilesOK, f
\* A path that is dropped at the deadline is given up.
LEMMA DropStep ==
    ASSUME TypeOK, FilesOK, NEW t \in Thread, expired,
           thread' = [thread EXCEPT ![t] = [pc |-> "done", file |-> NoFile]],
           UNCHANGED <<main, ring, todo, expired, scans>>
    PROVE  FilesOK'
<1>1. /\ Occupied' = Occupied /\ (Putting' <=> Putting) /\ file_queue' = file_queue
      /\ \A g : Fresh(g)' <=> Fresh(g)
  BY DEF ring, Occupied, Putting, Fresh
<1>2. thread'[t] = [pc |-> "done", file |-> NoFile]
      /\ \A u \in Thread \ {t} : thread'[u] = thread[u] /\ (Held(u)' <=> Held(u))
  BY OneMoves
<1>3. \A u \in Thread : /\ Held(u)' => u # t /\ Held(u) /\ thread'[u] = thread[u]
                        /\ thread'[u].pc \in {"look", "begin"} => thread'[u] = thread[u]
  BY <1>2 DEF Held
<1>4. RingFiles' /\ MainFile'
  BY <1>1 DEF FilesOK, RingFiles, MainFile
<1>5. HeldFiles'
  BY <1>1, <1>3 DEF FilesOK, HeldFiles
<1>6. Once' /\ NoneLost'
  BY DEF FilesOK, Once, NoneLost
<1>. QED
  BY <1>4, <1>5, <1>6 DEF FilesOK

-----------------------------------------------------------------------------
(* All steps.                                                              *)

\* A thread that asks for a path, begins, ends a scan or gives a slot back.
LEMMA ThreadFiles ==
    ASSUME TypeOK, SlotsOK, FilesOK, NEW t \in Thread, ScanningThread(t)
    PROVE  FilesOK'
<1>. USE DEF ThreadGoto
<1>1. ASSUME NEW e, thread' = [thread EXCEPT ![t] = e], UNCHANGED <<main, ring, todo, expired, scans>>,
             (e.pc \in {"give", "look", "begin"} /\ e.file # NoFile) <=> Held(t),
             Held(t) => e.file = thread[t].file,
             e.pc \in {"look", "begin"} => Held(t)
      PROVE  FilesOK'
  <2>1. thread'[t] = e /\ \A u \in Thread \ {t} : thread'[u] = thread[u]
    BY <1>1 DEF TypeOK
  <2>2. Keeps(t)
    BY <1>1, <2>1 DEF Keeps, Held
  <2>3. \A u \in Thread \ {t} : Keeps(u)
    <3>1. SUFFICES ASSUME NEW u \in Thread \ {t} PROVE Keeps(u)
      OBVIOUS
    <3>2. thread[u].pc \in {"look", "begin"} => thread[u].file # NoFile
      BY DEF FilesOK, HeldFiles
    <3>. QED
      BY <2>1, <3>2 DEF Keeps, Held
  <2>4. MainKeeps
    BY <1>1 DEF MainKeeps, Putting
  <2>. QED
    BY <1>1, <2>2, <2>3, <2>4, FilesStay
<1>2. thread[t] \in [pc : ThreadPc, file : File \union {NoFile}]
  BY DEF TypeOK
<1>3. CASE GetWait(t)
  BY <1>1, <1>2, <1>3 DEF GetWait, Held, TypeOK
<1>4. CASE GetTimeout(t)
  BY <1>1, <1>2, <1>4 DEF GetTimeout, Held, TypeOK
<1>5. CASE GetTake(t)
  <2>1. CASE Empty /\ ThreadGoto(t, "give") /\ UNCHANGED queue_head
    <3>1. thread[t].file = NoFile /\ ~ Held(t)
      BY <1>5 DEF SlotsOK, HandsFree, GetTake, Held
    <3>. QED
      BY <1>1, <1>2, <1>5, <2>1, <3>1 DEF GetTake, TypeOK, ring
  <2>2. CASE /\ ~ Empty /\ queue_head' = After(queue_head)
             /\ thread' = [thread EXCEPT ![t] = [pc |-> "give", file |-> file_queue[queue_head]]]
    BY <1>5, <2>2, GetTakeStep DEF GetTake
  <2>. QED
    BY <1>5, <2>1, <2>2 DEF GetTake
<1>6. CASE GetGive(t)
  BY <1>1, <1>2, <1>6 DEF GetGive, Held, TypeOK
<1>7. CASE Look(t)
  <2>1. CASE ThreadGoto(t, "begin")
    <3>1. thread[t].pc = "look" /\ thread[t].file # NoFile /\ Held(t)
      BY <1>7 DEF Look, FilesOK, HeldFiles, Held
    <3>. QED
      BY <1>1, <1>2, <1>7, <2>1, <3>1 DEF Look, TypeOK
  <2>2. CASE expired /\ thread' = [thread EXCEPT ![t] = [pc |-> "done", file |-> NoFile]]
    BY <1>7, <2>2, DropStep DEF Look
  <2>. QED
    BY <1>7, <2>1, <2>2 DEF Look
<1>8. CASE ScanFile(t)
  BY <1>8, ScanFileStep
<1>9. CASE Scanned(t)
  BY <1>1, <1>2, <1>9 DEF Scanned, Held, TypeOK
<1>. QED
  BY <1>3, <1>4, <1>5, <1>6, <1>7, <1>8, <1>9 DEF ScanningThread

LEMMA FilesStep ==
    ASSUME TypeOK, SlotsOK, FilesOK, [Next]_vars
    PROVE  FilesOK'
<1>1. \A t \in Thread : thread[t].pc \in {"look", "begin"} => Held(t)
  BY DEF FilesOK, HeldFiles, Held
<1>2. UNCHANGED thread => \A t \in Thread : Keeps(t)
  BY <1>1 DEF Keeps, Held
<1>3. ASSUME UNCHANGED <<thread, ring, todo, scans>>, MainKeeps PROVE FilesOK'
  BY <1>2, <1>3, FilesStay
<1>4. main \in [pc : MainPc, file : File \union {NoFile}, released : 0 .. MaxThreads]
  BY DEF TypeOK
<1>5. CASE Expire \/ UNCHANGED vars
  <2>1. MainKeeps
    BY <1>5 DEF Expire, vars, MainKeeps, Putting
  <2>. QED
    BY <1>3, <1>5, <2>1 DEF Expire, vars, ring
<1>6. CASE QueueInit \/ SpawnFail \/ Walk \/ WalkOver \/ PutPost \/ Finish \/ FinishOver
  <2>1. MainKeeps
    BY <1>4, <1>6 DEF QueueInit, SpawnFail, Walk, WalkOver, PutPost, Finish, FinishOver,
                      Goto, ExitWithFailure, MainKeeps, Putting
  <2>2. UNCHANGED <<thread, ring, todo, scans>>
    BY <1>6 DEF QueueInit, SpawnFail, Walk, WalkOver, PutPost, Finish, FinishOver, slots, ring
  <2>. QED
    BY <1>3, <2>1, <2>2
<1>7. CASE PutWait \/ PutTimeout \/ Join \/ Exit
  <2>1. MainKeeps
    BY <1>4, <1>7 DEF PutWait, PutTimeout, Join, Exit, Goto, ExitWithFailure, MainKeeps, Putting
  <2>2. UNCHANGED <<thread, ring, todo, scans>>
    BY <1>7 DEF PutWait, PutTimeout, Join, Exit, slots, ring
  <2>. QED
    BY <1>3, <2>1, <2>2
<1>8. CASE PutStore
  BY <1>8, PutStoreStep
<1>9. ASSUME NEW t \in Thread, Spawn(t) PROVE FilesOK'
  <2>1. \A u \in Thread : Keeps(u)
    BY <1>1, <1>9 DEF Spawn, TypeOK, Keeps, Held
  <2>2. MainKeeps
    BY <1>9 DEF Spawn, MainKeeps, Putting
  <2>. QED
    BY <1>9, <2>1, <2>2, FilesStay DEF Spawn
<1>10. ASSUME NEW f \in File, NextFile(f) PROVE FilesOK'
  BY <1>10, NextFileStep
<1>. QED
  BY <1>5, <1>6, <1>7, <1>8, <1>9, <1>10, ThreadFiles DEF Next, Main

LEMMA WalkStep ==
    ASSUME TypeOK, WalkOK, [Next]_vars
    PROVE  WalkOK'
<1>. USE DEF WalkOK, Goto, ExitWithFailure
<1>1. main \in [pc : MainPc, file : File \union {NoFile}, released : 0 .. MaxThreads]
  BY DEF TypeOK
<1>2. CASE Expire \/ UNCHANGED vars
  BY <1>2 DEF Expire, vars
<1>3. CASE QueueInit \/ SpawnFail \/ Walk \/ WalkOver
  BY <1>1, <1>3 DEF QueueInit, SpawnFail, Walk, WalkOver
<1>4. CASE PutWait \/ PutTimeout \/ PutStore \/ PutPost
  BY <1>1, <1>4 DEF PutWait, PutTimeout, PutStore, PutPost
<1>5. CASE Finish \/ FinishOver \/ Join
  BY <1>1, <1>5 DEF Finish, FinishOver, Join
<1>6. CASE Exit
  BY <1>1, <1>6 DEF Exit
<1>7. CASE \E t \in Thread : Spawn(t)
  BY <1>7 DEF Spawn
<1>8. CASE \E f \in File : NextFile(f)
  BY <1>1, <1>8 DEF NextFile
<1>9. CASE \E t \in Thread : ScanningThread(t)
  BY <1>9 DEF ScanningThread, GetWait, GetTimeout, GetTake, GetGive, Look, ScanFile, Scanned
<1>. QED
  BY <1>2, <1>3, <1>4, <1>5, <1>6, <1>7, <1>8, <1>9 DEF Next, Main

LEMMA FilesInit == Init => FilesOK /\ WalkOK
<1>. SUFFICES ASSUME Init PROVE FilesOK /\ WalkOK
  OBVIOUS
<1>1. Occupied = {} /\ ~ Putting /\ (\A t \in Thread : ~ Held(t) /\ thread[t].pc \notin {"look", "begin"})
  BY DEF Init, Occupied, Putting, Held, Index
<1>. QED
  BY <1>1 DEF Init, FilesOK, WalkOK, RingFiles, MainFile, HeldFiles, Once, NoneLost, Somewhere
-----------------------------------------------------------------------------
(* The end of the threads.                                                 *)

\* The queue exists while main has something to do with it; nothing is destroyed
\* before main leaves.
QueueLives == main.pc \in {"spawn", "walk", "put", "store", "post", "finish", "join"}
                => "queue" \in live
NeededLives == main.pc \notin {"exit", "over"} => Needed \subseteq live

\* Nobody has a path, and nobody is given one.
Idle == \/ \A t \in Thread : thread[t].pc \in {"none", "done"}
        \/ used_slots = 0 /\ \A t \in Thread : thread[t].pc \in {"none", "wait", "done"}

\* So it is before the walk, and after it unless a scan list met the deadline.
Calm == /\ main.pc = "spawn" => Idle /\ used_slots = 0
        /\ main.pc \in {"exit", "over"} /\ ~ (scan_list /\ expired) => Idle

EndOK == NoEarlyEnd /\ QueueOutlives /\ QueueLives /\ NeededLives /\ Calm

\* Idle threads stay idle.
LEMMA IdleStays ==
    ASSUME TypeOK, Idle, NEW t \in Thread, ScanningThread(t)
    PROVE  Idle' /\ used_slots' = used_slots
<1>1. GetTimeout(t) /\ used_slots = 0 /\ \A u \in Thread : thread[u].pc \in {"none", "wait", "done"}
  BY DEF Idle, ScanningThread, GetWait, GetTimeout, GetTake, GetGive, Look, ScanFile, Scanned
<1>2. used_slots' = used_slots /\ \A u \in Thread : thread'[u].pc \in {"none", "wait", "done"}
  BY <1>1 DEF GetTimeout, ThreadGoto, slots, TypeOK
<1>. QED
  BY <1>1, <1>2 DEF Idle

\* A thread that ends has met the deadline, or has found the ring empty after the
\* walk: during it each permit stands for a path.
LEMMA ThreadEnds ==
    ASSUME TypeOK, SlotsOK, FilesOK, EndOK, NEW t \in Thread, ScanningThread(t)
    PROVE  NoEarlyEnd'
<1>1. UNCHANGED <<main, expired, queue_tail>> /\ (Empty => UNCHANGED queue_head)
  BY DEF ScanningThread, GetWait, GetTimeout, GetTake, GetGive, Look, ScanFile, Scanned, ring
<1>2. Empty => Empty'
  BY <1>1 DEF Empty
<1>3. \A u \in Thread \ {t} : thread'[u] = thread[u]
  BY DEF TypeOK, ScanningThread, GetWait, GetTimeout, GetTake, GetGive, Look, ScanFile, Scanned,
         ThreadGoto
<1>4. ASSUME t \in Ended', ~ expired, t \notin Ended
      PROVE  Empty /\ ~ Filling /\ main.pc # "init"
  <2>1. GetTake(t)
    BY <1>4 DEF TypeOK, Ended, ScanningThread, GetWait, GetTimeout, GetGive, Look, ScanFile, Scanned,
                ThreadGoto
  <2>2. Empty
    <3>1. SUFFICES ASSUME ~ Empty PROVE FALSE
      OBVIOUS
    <3>2. thread' = [thread EXCEPT ![t] = [pc |-> "give", file |-> file_queue[queue_head]]]
      BY <2>1, <3>1 DEF GetTake
    <3>3. queue_head \in Occupied
      BY <3>1, RingSteps
    <3>4. file_queue[queue_head] # NoFile
      BY <3>3, FileAssumption DEF FilesOK, RingFiles, Fresh
    <3>. QED
      BY <1>4, <3>2, <3>4 DEF Ended, TypeOK
  <2>3. Cardinality(At("take")) # 0
    <3>1. t \in At("take")
      BY <2>1 DEF At, GetTake
    <3>. QED
      BY <3>1, CountTypes, FS_EmptySet
  <2>4. ~ Filling
    <3>1. SUFFICES ASSUME Filling PROVE FALSE
      OBVIOUS
    <3>2. used_slots + Takers + One(main.pc = "post") = Length
      BY <3>1 DEF SlotsOK, SlotsExact, Takers
    <3>3. Length = 0
      BY <2>2, LengthType
    <3>. QED
      BY <2>3, <3>2, <3>3, CountsAreNat DEF One, Takers
  <2>5. main.pc # "init"
    BY <2>1 DEF SlotsOK, Begins, GetTake
  <2>. QED
    BY <2>2, <2>4, <2>5
<1>. QED
  BY <1>1, <1>2, <1>3, <1>4 DEF NoEarlyEnd, EndOK, Ended, Filling

LEMMA ThreadEnd ==
    ASSUME TypeOK, SlotsOK, FilesOK, EndOK, NEW t \in Thread, ScanningThread(t)
    PROVE  EndOK'
<1>1. UNCHANGED <<main, expired, live, scan_list>>
  BY DEF ScanningThread, GetWait, GetTimeout, GetTake, GetGive, Look, ScanFile, Scanned
<1>2. thread[t].pc \notin {"none", "done"}
  BY DEF ScanningThread, GetWait, GetTimeout, GetTake, GetGive, Look, ScanFile, Scanned
<1>3. QueueOutlives' /\ QueueLives' /\ NeededLives'
  BY <1>1, <1>2 DEF EndOK, QueueOutlives, QueueLives, NeededLives
<1>4. Calm'
  BY <1>1, IdleStays DEF EndOK, Calm
<1>. QED
  BY <1>3, <1>4, ThreadEnds DEF EndOK

LEMMA MainEnd ==
    ASSUME TypeOK, SlotsOK, EndOK, Main
    PROVE  EndOK'
<1>. USE DEF Goto, ExitWithFailure
<1>1. main \in [pc : MainPc, file : File \union {NoFile}, released : 0 .. MaxThreads]
  BY DEF TypeOK
<1>2. ASSUME UNCHANGED <<thread, queue_head, queue_tail, expired>>,
             main'.pc \in {"init", "spawn", "walk", "put", "store", "post"}
                => main.pc \in {"init", "spawn", "walk", "put", "store", "post"}
      PROVE  NoEarlyEnd'
  BY <1>2 DEF NoEarlyEnd, EndOK, Ended, Empty
<1>3. CASE QueueInit
  <2>1. \A t \in Thread : thread[t].pc = "none"
    BY <1>3 DEF QueueInit, SlotsOK, Begins
  <2>2. NoEarlyEnd'
    BY <1>1, <1>2, <1>3 DEF QueueInit, ring
  <2>3. QueueOutlives' /\ QueueLives' /\ NeededLives' /\ Calm'
    BY <1>1, <1>3, <2>1 DEF QueueInit, EndOK, QueueOutlives, QueueLives, NeededLives, Calm, Idle
  <2>. QED
    BY <2>2, <2>3 DEF EndOK
<1>4. CASE SpawnFail \/ Walk
  <2>1. NoEarlyEnd'
    BY <1>1, <1>2, <1>4 DEF SpawnFail, Walk, ring
  <2>2. QueueOutlives' /\ QueueLives' /\ NeededLives' /\ Calm'
    BY <1>1, <1>4 DEF SpawnFail, Walk, EndOK, QueueOutlives, QueueLives, NeededLives, Calm,
                      Idle, slots
  <2>. QED
    BY <2>1, <2>2 DEF EndOK
<1>5. CASE WalkOver \/ PutWait \/ PutPost \/ Finish \/ FinishOver \/ PutTimeout
  <2>1. NoEarlyEnd'
    BY <1>1, <1>2, <1>5 DEF WalkOver, PutWait, PutPost, Finish, FinishOver, PutTimeout, ring
  <2>2. QueueOutlives' /\ QueueLives' /\ NeededLives' /\ Calm'
    BY <1>1, <1>5 DEF WalkOver, PutWait, PutPost, Finish, FinishOver, PutTimeout,
                      EndOK, QueueOutlives, QueueLives, NeededLives, Calm
  <2>. QED
    BY <2>1, <2>2 DEF EndOK
<1>6. CASE PutStore
  <2>1. NoEarlyEnd'
    BY <1>1, <1>6 DEF PutStore, NoEarlyEnd, EndOK, Ended
  <2>2. QueueOutlives' /\ QueueLives' /\ NeededLives' /\ Calm'
    BY <1>1, <1>6 DEF PutStore, EndOK, QueueOutlives, QueueLives, NeededLives, Calm
  <2>. QED
    BY <2>1, <2>2 DEF EndOK
<1>7. CASE Join
  <2>1. NoEarlyEnd'
    BY <1>1, <1>2, <1>7 DEF Join, ring
  <2>2. QueueOutlives' /\ QueueLives' /\ NeededLives' /\ Calm'
    BY <1>1, <1>7 DEF Join, AllJoined, EndOK, QueueOutlives, QueueLives, NeededLives, Calm, Idle
  <2>. QED
    BY <2>1, <2>2 DEF EndOK
<1>8. CASE Exit
  <2>1. main.pc = "exit" /\ main'.pc \in {"exit", "over"}
        /\ ("queue" \in live' <=> "queue" \in live)
    BY <1>1, <1>8 DEF Exit
  <2>2. NoEarlyEnd'
    BY <1>2, <1>8, <2>1 DEF Exit, ring
  <2>3. QueueOutlives' /\ QueueLives' /\ NeededLives' /\ Calm'
    <3>1. Idle' <=> Idle
      BY <1>8 DEF Exit, Idle, slots
    <3>. QED
      BY <1>8, <2>1, <3>1 DEF Exit, EndOK, QueueOutlives, QueueLives, NeededLives, Calm
  <2>. QED
    BY <2>2, <2>3 DEF EndOK
<1>9. ASSUME NEW t \in Thread, Spawn(t) PROVE EndOK'
  <2>1. main.pc = "spawn" /\ main' = main /\ "queue" \in live
    BY <1>9 DEF Spawn, EndOK, QueueLives
  <2>2. \A u \in Thread : thread'[u].pc = thread[u].pc
            \/ (thread[u].pc = "none" /\ thread'[u].pc = "wait")
    BY <1>9 DEF Spawn, TypeOK
  <2>3. used_slots' = used_slots /\ used_slots = 0
        /\ \A u \in Thread : thread[u].pc \in {"none", "wait", "done"}
    BY <1>9, <2>1 DEF Spawn, slots, EndOK, Calm, Idle
  <2>4. NoEarlyEnd'
    BY <1>9, <2>1, <2>2, <2>3 DEF Spawn, NoEarlyEnd, EndOK, Ended
  <2>5. QueueOutlives' /\ QueueLives' /\ NeededLives' /\ Calm'
    BY <1>9, <2>1, <2>2, <2>3 DEF Spawn, EndOK, QueueOutlives, QueueLives, NeededLives, Calm,
                                  Idle
  <2>. QED
    BY <2>4, <2>5 DEF EndOK
<1>10. ASSUME NEW f \in File, NextFile(f) PROVE EndOK'
  <2>1. NoEarlyEnd'
    BY <1>1, <1>2, <1>10 DEF NextFile, ring
  <2>2. QueueOutlives' /\ QueueLives' /\ NeededLives' /\ Calm'
    BY <1>1, <1>10 DEF NextFile, EndOK, QueueOutlives, QueueLives, NeededLives, Calm
  <2>. QED
    BY <2>1, <2>2 DEF EndOK
<1>. QED
  BY <1>3, <1>4, <1>5, <1>6, <1>7, <1>8, <1>9, <1>10 DEF Main

LEMMA EndStep ==
    ASSUME TypeOK, SlotsOK, FilesOK, EndOK, [Next]_vars
    PROVE  EndOK'
<1>1. CASE Expire \/ UNCHANGED vars
  <2>1. /\ UNCHANGED <<main, thread, ring, slots, scan_list, live>>
        /\ expired => expired'
    BY <1>1 DEF Expire, vars
  <2>2. NoEarlyEnd' /\ QueueOutlives' /\ QueueLives' /\ NeededLives'
    BY <2>1 DEF EndOK, NoEarlyEnd, Ended, Empty, QueueOutlives, QueueLives, NeededLives, ring
  <2>3. Calm'
    BY <2>1 DEF EndOK, Calm, Idle, slots
  <2>. QED
    BY <2>2, <2>3 DEF EndOK
<1>. QED
  BY <1>1, MainEnd, ThreadEnd DEF Next

LEMMA FilesInvariant == Spec => [](TypeOK /\ SlotsOK /\ FilesOK /\ WalkOK /\ EndOK)
<1>1. Init => EndOK
  BY DEF Init, EndOK, NoEarlyEnd, Ended, QueueOutlives, QueueLives, NeededLives, Calm
<1>2. TypeOK /\ SlotsOK /\ FilesOK /\ WalkOK /\ EndOK /\ [Next]_vars
        => (FilesOK /\ WalkOK /\ EndOK)'
  BY FilesStep, WalkStep, EndStep
<1>. QED
  BY <1>1, <1>2, FilesInit, SlotsInvariant, PTL DEF Spec

\* A scanning thread ends only at the deadline or when the walk is over and the ring
\* empty; the queue outlives the threads, and the modules, the rules and the library
\* outlive the scans unless a scan list meets the deadline: for any number of files,
\* threads and slots, and whichever creation fails.
THEOREM EndsCorrect == Spec => []EndsInTime
<1>1. TypeOK /\ EndOK => RulesOutlive
  <2>1. SUFFICES ASSUME TypeOK, EndOK, ~ (scan_list /\ expired),
                        NEW t \in Thread, thread[t].pc \in {"begin", "scan"}
                 PROVE  Needed \subseteq live
    BY DEF RulesOutlive
  <2>2. ~ Idle
    BY <2>1 DEF Idle
  <2>. QED
    BY <2>1, <2>2 DEF EndOK, Calm, NeededLives
<1>2. TypeOK /\ EndOK => EndsInTime
  BY <1>1 DEF EndOK, EndsInTime
<1>. QED
  BY <1>2, FilesInvariant, PTL

-----------------------------------------------------------------------------
(* The refinement.                                                         *)

\* One thread moves: what it adds to the admitted files and takes from them.
LEMMA AdmittedStep ==
    ASSUME TypeOK, NEW t \in Thread, NEW e, thread' = [thread EXCEPT ![t] = e]
    PROVE  /\ (thread[t].pc = "begin" <=> e.pc = "begin") /\ e.file = thread[t].file
                => UNCHANGED Admitted
           /\ thread[t].pc # "begin" /\ e.pc # "begin" => UNCHANGED Admitted
           /\ thread[t].pc # "begin" /\ e.pc = "begin"
                => Admitted' = Admitted \union {e.file}
<1>1. thread'[t] = e /\ \A u \in Thread \ {t} : thread'[u] = thread[u]
  BY DEF TypeOK
<1>. QED
  BY <1>1 DEF Admitted, At

\* A file is admitted by one thread.
LEMMA AdmittedScan ==
    ASSUME TypeOK, FilesOK, NEW t \in Thread, ScanFile(t)
    PROVE  /\ thread[t].file \in Admitted
           /\ Admitted' = Admitted \ {thread[t].file}
<1>1. thread[t].pc = "begin" /\ thread'[t].pc = "scan"
      /\ \A u \in Thread \ {t} : thread'[u] = thread[u]
  BY DEF ScanFile, ThreadGoto, TypeOK
<1>2. \A u \in Thread : thread[u].pc = "begin" => Held(u)
  BY DEF FilesOK, HeldFiles, Held
<1>3. \A u \in Thread : thread[u].pc = "begin" /\ thread[u].file = thread[t].file => u = t
  BY <1>1, <1>2 DEF FilesOK, HeldFiles
<1>. QED
  BY <1>1, <1>3 DEF Admitted, At

LEMMA ScanStep ==
    ASSUME TypeOK, SlotsOK, FilesOK, WalkOK, EndOK, [Next]_vars
    PROVE  [Scan!Next]_(Scan!vars)
<1>. USE DEF Scan!vars
<1>1. thread' = thread => Admitted' = Admitted
  BY DEF Admitted, At
<1>. HIDE DEF Admitted
<1>2. CASE Expire
  BY <1>1, <1>2 DEF Expire, Scan!Next, Scan!Deadline
<1>3. ASSUME ExitWithFailure, main.pc \notin {"exit", "over"}, UNCHANGED <<scans, expired, thread>>
      PROVE  Scan!Next
  BY <1>1, <1>3 DEF ExitWithFailure, WalkOK, Scan!Next, Scan!Fail
<1>4. CASE QueueInit \/ SpawnFail \/ Walk \/ PutTimeout
  BY <1>1, <1>3, <1>4 DEF QueueInit, SpawnFail, Walk, PutTimeout
<1>5. CASE Join
  <2>1. /\ main.pc = "join" /\ (\A t \in Thread : thread[t].pc = "done") /\ outcome = "running"
    BY <1>5 DEF Join, AllJoined, WalkOK
  <2>2. ASSUME ~ expired, NEW f \in File PROVE scans[f] = 1
    <3>1. PICK t \in Thread : thread[t].pc = "done"
      BY <2>1, ThreadAssumption
    <3>2. Empty
      BY <2>2, <3>1 DEF EndOK, NoEarlyEnd, Ended
    <3>3. Occupied = {} /\ todo = {}
      BY <2>1, <2>2, <3>2, RingSteps DEF WalkOK
    <3>4. Somewhere(f)
      BY <2>2 DEF FilesOK, NoneLost
    <3>. QED
      BY <2>1, <3>3, <3>4 DEF Somewhere, Putting, Held
  <2>. QED
    BY <1>1, <1>5, <2>1, <2>2 DEF Join, Scan!Next, Scan!Succeed
<1>6. CASE WalkOver \/ PutWait \/ PutStore \/ PutPost \/ Finish \/ FinishOver \/ Exit
  BY <1>1, <1>6 DEF WalkOver, PutWait, PutStore, PutPost, Finish, FinishOver, Exit
<1>7. CASE (\E f \in File : NextFile(f)) \/ UNCHANGED vars
  BY <1>1, <1>7 DEF NextFile, vars
<1>8. ASSUME NEW t \in Thread, Spawn(t) PROVE UNCHANGED Scan!vars
  <2>1. thread' = [thread EXCEPT ![t] = [thread[t] EXCEPT !.pc = "wait"]] /\ thread[t].pc = "none"
    BY <1>8 DEF Spawn
  <2>2. [thread[t] EXCEPT !.pc = "wait"].pc = "wait"
    BY DEF TypeOK
  <2>3. UNCHANGED Admitted
    BY <2>1, <2>2, AdmittedStep
  <2>. QED
    BY <1>8, <2>3 DEF Spawn
<1>9. ASSUME NEW t \in Thread, Look(t) PROVE [Scan!Next]_(Scan!vars)
  <2>1. thread[t].pc = "look" /\ Held(t) /\ Fresh(thread[t].file)
    BY <1>9 DEF Look, FilesOK, HeldFiles, Held
  <2>2. CASE ~ expired /\ ThreadGoto(t, "begin")
    <3>. DEFINE e == [thread[t] EXCEPT !.pc = "begin"]
    <3>1. thread' = [thread EXCEPT ![t] = e] /\ e.pc = "begin" /\ e.file = thread[t].file
      BY <2>2 DEF ThreadGoto, TypeOK
    <3>2. Admitted' = Admitted \union {thread[t].file}
      BY <2>1, <3>1, AdmittedStep
    <3>3. thread[t].file \notin Admitted
      <4>1. ASSUME NEW u \in Thread, thread[u].pc = "begin", thread[u].file = thread[t].file
            PROVE  FALSE
        <5>1. Held(u)
          BY <4>1 DEF FilesOK, HeldFiles, Held
        <5>. QED
          BY <2>1, <4>1, <5>1 DEF FilesOK, HeldFiles
      <4>. QED
        BY <4>1 DEF Admitted, At
    <3>. QED
      BY <1>9, <2>1, <2>2, <3>2, <3>3 DEF Look, Fresh, Scan!Next, Scan!Admit
  <2>3. CASE thread' = [thread EXCEPT ![t] = [pc |-> "done", file |-> NoFile]]
    <3>1. UNCHANGED Admitted
      BY <2>1, <2>3, AdmittedStep
    <3>. QED
      BY <1>9, <3>1 DEF Look
  <2>. QED
    BY <1>9, <2>2, <2>3 DEF Look
<1>10. ASSUME NEW t \in Thread, ScanFile(t) PROVE [Scan!Next]_(Scan!vars)
  <2>1. Fresh(thread[t].file)
    BY <1>10, ScanFileStep
  <2>2. scans[thread[t].file] = 0 /\ thread[t].file \in File /\ scans \in [File -> Nat]
    BY <2>1 DEF Fresh, TypeOK
  <2>3. scans' = [scans EXCEPT ![thread[t].file] = 1]
    BY <1>10, <2>2 DEF ScanFile
  <2>. QED
    BY <1>10, <2>2, <2>3, AdmittedScan DEF ScanFile, Scan!Next, Scan!Scan
<1>11. ASSUME NEW t \in Thread, GetWait(t) \/ GetTimeout(t) \/ GetTake(t) \/ GetGive(t) \/ Scanned(t)
       PROVE  UNCHANGED Scan!vars
  <2>1. ASSUME NEW e, thread' = [thread EXCEPT ![t] = e], thread[t].pc # "begin", e.pc # "begin"
        PROVE  UNCHANGED Admitted
    BY <2>1, AdmittedStep
  <2>2. UNCHANGED Admitted
    <3>1. ASSUME NEW pc, pc # "begin", thread[t].pc # "begin", ThreadGoto(t, pc)
          PROVE  UNCHANGED Admitted
      <4>. DEFINE e == [thread[t] EXCEPT !.pc = pc]
      <4>1. e.pc = pc
        BY DEF TypeOK
      <4>2. thread' = [thread EXCEPT ![t] = e]
        BY <3>1 DEF ThreadGoto
      <4>. HIDE DEF e
      <4>. QED
        BY <2>1, <3>1, <4>1, <4>2
    <3>2. ASSUME NEW pc, NEW f, pc # "begin", thread[t].pc # "begin",
                 thread' = [thread EXCEPT ![t] = [pc |-> pc, file |-> f]]
          PROVE  UNCHANGED Admitted
      <4>. DEFINE e == [pc |-> pc, file |-> f]
      <4>1. e.pc = pc
        OBVIOUS
      <4>. HIDE DEF e
      <4>. QED
        BY <2>1, <3>2, <4>1 DEF e
    <3>3. CASE GetWait(t) \/ GetTimeout(t) \/ GetGive(t)
      BY <3>1, <3>3 DEF GetWait, GetTimeout, GetGive
    <3>4. CASE GetTake(t)
      BY <3>1, <3>2, <3>4 DEF GetTake
    <3>5. CASE Scanned(t)
      BY <3>2, <3>5 DEF Scanned
    <3>. QED
      BY <1>11, <3>3, <3>4, <3>5
  <2>. QED
    BY <1>11, <2>2 DEF GetWait, GetTimeout, GetTake, GetGive, Scanned
<1>. QED
  BY <1>2, <1>4, <1>5, <1>6, <1>7, <1>8, <1>9, <1>10, <1>11 DEF Next, Main, ScanningThread

\* A run implements YaraFileScan: no file is scanned twice, none that was not found to be
\* in time, and a run that ends well has scanned all of them unless the deadline passed; so
\* the ring, its two indices and its semaphores lose, double and overwrite no path.
THEOREM ImplementsCorrect == Spec => ImplementsFileScan
<1>1. Init => Scan!Init
  BY DEF Init, Admitted, At, Scan!Init
<1>2. TypeOK /\ SlotsOK /\ FilesOK /\ WalkOK /\ EndOK /\ [Next]_vars => [Scan!Next]_(Scan!vars)
  BY ScanStep
<1>. QED
  BY <1>1, <1>2, FilesInvariant, PTL DEF Spec, ImplementsFileScan, Scan!Spec
=============================================================================
