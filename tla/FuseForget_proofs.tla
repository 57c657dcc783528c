-------------------------- MODULE FuseForget_proofs --------------------------
(***************************************************************************)
(* How long fuse_dev_do_read lets forgets and requests wait for each       *)
(* other, for any number of links and of pending requests; and that the    *)
(* linked list of forget messages is sound and implements a FIFO queue.    *)
(***************************************************************************)
EXTENDS FuseForget, FiniteSetTheorems, SequenceTheorems, WellFoundedInduction, TLAPS

-----------------------------------------------------------------------------
(* The turns.                                                              *)

\* The part of TypeOK the argument needs: the counter stays in its round.
TurnType == /\ forget_batch \in -7 .. 16
            /\ streak \in [kind : {"none", "forget", "request"}, n : 0 .. 17]

\* The counter and the streak together are inductive; the streak alone is not.
TurnInv == TurnType /\ RoundOK

\* A round is 16 forgets and 8 requests long.
LEMMA RoundBounds == TurnInv => TakesTurns
  BY DEF TurnInv, TurnType, RoundOK, TakesTurns

\* A forget is read out of its turn only while no request is pending.
LEMMA ForgetStep ==
    ASSUME TurnInv, NEW room \in Room, ReadForget(room)
    PROVE  TurnInv'
<1>1. CASE pending = 0
  <2>1. forget_batch' = forget_batch /\ streak' = NoStreak
    BY <1>1 DEF ReadForget, Longer
  <2>. QED
    BY <2>1 DEF TurnInv, TurnType, RoundOK, NoStreak
<1>2. CASE pending # 0
  <2>1. forget_batch > 0 /\ forget_batch' = forget_batch - 1
    BY <1>2 DEF ReadForget, ForgetTurn, AfterForget
  <2>2. streak' = NoStreak
        \/ streak' = [kind |-> "forget", n |-> IF streak.kind = "forget" THEN More(streak.n)
                                                                         ELSE 1]
    BY DEF ReadForget, Longer
  <2>3. CASE streak' = NoStreak
    BY <2>1, <2>3 DEF TurnInv, TurnType, RoundOK, NoStreak
  <2>4. CASE streak' = [kind |-> "forget", n |-> IF streak.kind = "forget" THEN More(streak.n)
                                                                           ELSE 1]
    BY <2>1, <2>4 DEF TurnInv, TurnType, RoundOK, More
  <2>. QED
    BY <2>2, <2>3, <2>4
<1>. QED
  BY <1>1, <1>2

\* A request is read past a waiting forget only when the forgets' turns are
\* used up, and the last of the eight starts the next round.
LEMMA RequestStep ==
    ASSUME TurnInv, ReadRequest
    PROVE  TurnInv'
<1>1. CASE forget_pending
  <2>1. forget_batch <= 0
    BY <1>1 DEF ReadRequest, ForgetTurn, TurnInv, TurnType
  <2>2. forget_batch' = AfterRequest(forget_batch)
    BY <1>1 DEF ReadRequest
  <2>3. streak' = [kind |-> "request", n |-> IF streak.kind = "request" THEN More(streak.n)
                                                                        ELSE 1]
    BY <1>1 DEF ReadRequest, Longer
  <2>4. streak.kind = "request" => streak.n <= 0 - forget_batch
    BY <2>1 DEF TurnInv, TurnType, RoundOK
  <2>5. TurnType'
    BY <2>1, <2>2, <2>3 DEF TurnInv, TurnType, AfterRequest, More
  <2>6. RoundOK'
    BY <2>1, <2>2, <2>3, <2>4 DEF TurnInv, TurnType, RoundOK, AfterRequest, More
  <2>. QED
    BY <2>5, <2>6 DEF TurnInv
<1>2. CASE ~ forget_pending
  <2>1. forget_batch' = forget_batch /\ streak' = NoStreak
    BY <1>2 DEF ReadRequest, Longer
  <2>. QED
    BY <2>1 DEF TurnInv, TurnType, RoundOK, NoStreak
<1>. QED
  BY <1>1, <1>2

LEMMA TurnStep ==
    ASSUME TurnInv, [Next]_vars
    PROVE  TurnInv'
<1>1. ASSUME UNCHANGED forget_batch, streak' \in {streak, NoStreak}
      PROVE  TurnInv'
  BY <1>1 DEF TurnInv, TurnType, RoundOK, NoStreak
<1>2. ASSUME NEW l \in Link, fuse_queue_forget(l)
      PROVE  TurnInv'
  BY <1>1, <1>2 DEF fuse_queue_forget
<1>3. CASE QueueRequest
  BY <1>1, <1>3 DEF QueueRequest
<1>4. CASE Killed
  BY <1>1, <1>4 DEF Killed
<1>5. CASE AbortConn
  BY <1>1, <1>5 DEF AbortConn
<1>6. CASE AbortForgets
  BY <1>1, <1>6 DEF AbortForgets
<1>7. CASE UNCHANGED vars
  BY <1>1, <1>7 DEF vars
<1>. QED
  BY <1>2, <1>3, <1>4, <1>5, <1>6, <1>7, ForgetStep, RequestStep DEF Next

\* Neither kind of message waits through more than one round: at most 16 reads
\* in a row serve forgets while a request is pending, at most 8 serve requests
\* while a forget is waiting.
THEOREM TurnsTaken == Spec => []TakesTurns
<1>1. Init => TurnInv
  BY DEF Init, TurnInv, TurnType, RoundOK, NoStreak
<1>2. TurnInv /\ [Next]_vars => TurnInv'
  BY TurnStep
<1>. QED
  BY <1>1, <1>2, RoundBounds, PTL DEF Spec

-----------------------------------------------------------------------------
(* The list as a function.                                                 *)

C == Cardinality(Link)

\* From the head one comes to s[1], ..., s[n], each once, and no further.
Chain(n, s) ==
    /\ n \in 0 .. C /\ s \in [0 .. n -> Link \union {ListHead}]
    /\ s[0] = ListHead /\ \A i \in 1 .. n : s[i] \in Link
    /\ \A i, j \in 0 .. n : s[i] = s[j] => i = j
    /\ \A i \in 1 .. n : next[s[i - 1]] = s[i]
    /\ next[s[n]] = Null
    /\ tail = s[n] /\ live = {s[i] : i \in 1 .. n}

Linked == \E n \in 0 .. C : \E s \in [0 .. n -> Link \union {ListHead}] : Chain(n, s)

LEMMA LinkCount == C \in Nat
  BY LinkAssumption, FS_CardinalityType DEF C

\* A set of numbers has a least one.  (The intervals below its members are finite sets,
\* and the strict subset relation is well-founded on these.)
LEMMA Least ==
    ASSUME NEW T, T \subseteq Nat, T # {}
    PROVE  \E m \in T : \A k \in T : m <= k
<1>. DEFINE W == {S \in SUBSET Nat : \E k \in T : S = 0 .. k}
<1>1. W \subseteq FiniteSubsetsOf(Nat)
  <2>1. SUFFICES ASSUME NEW k \in T PROVE IsFiniteSet(0 .. k)
    BY DEF FiniteSubsetsOf
  <2>. QED
    BY FS_Interval
<1>2. W # {}
  <2>1. PICK k \in T : TRUE
    OBVIOUS
  <2>2. 0 .. k \in W
    BY <2>1
  <2>. QED
    BY <2>2
<1>3. PICK S \in W : \A R \in W : <<R, S>> \notin StrictSubsetOrdering(Nat)
  <2>. HIDE DEF W
  <2>. QED
    BY <1>1, <1>2, FS_StrictSubsetOrderingWellFounded, WFMin
<1>4. PICK m \in T : S = 0 .. m
  OBVIOUS
<1>5. ASSUME NEW k \in T, k < m PROVE FALSE
  <2>1. 0 .. k \in W /\ 0 .. k \subseteq 0 .. m /\ 0 .. k # 0 .. m
    <3>1. m \in 0 .. m /\ m \notin 0 .. k
      BY <1>5
    <3>. QED
      BY <1>5, <3>1
  <2>. QED
    BY <1>3, <1>4, <2>1 DEF StrictSubsetOrdering
<1>. QED
  BY <1>5

\* What Nth computes from a function g.
Following(g) == [i \in 0 .. C |->
    IF i = 0 THEN ListHead ELSE IF g[i - 1] = Null THEN Null ELSE next[g[i - 1]]]

\* Two functions that follow the pointers are the same.
LEMMA FollowingUnique ==
    ASSUME NEW f, NEW g, f = Following(f), g = Following(g)
    PROVE  \A i \in 0 .. C : f[i] = g[i]
<1>. DEFINE T == {i \in 0 .. C : f[i] # g[i]}
<1>1. SUFFICES ASSUME T # {} PROVE FALSE
  OBVIOUS
<1>2. PICK m \in T : \A k \in T : m <= k
  <2>1. T \subseteq Nat
    BY LinkCount
  <2>. HIDE DEF T
  <2>. QED
    BY <1>1, <2>1, Least
<1>3. m \in 0 .. C /\ f[m] # g[m]
  OBVIOUS
<1>4. f[m] = (IF m = 0 THEN ListHead ELSE IF f[m - 1] = Null THEN Null ELSE next[f[m - 1]])
  BY <1>3 DEF Following
<1>5. g[m] = (IF m = 0 THEN ListHead ELSE IF g[m - 1] = Null THEN Null ELSE next[g[m - 1]])
  BY <1>3 DEF Following
<1>6. CASE m = 0
  BY <1>3, <1>4, <1>5, <1>6
<1>7. CASE m # 0
  <2>1. m - 1 \in 0 .. C /\ ~ (m <= m - 1)
    BY <1>3, <1>7, LinkCount
  <2>2. f[m - 1] = g[m - 1]
    BY <1>2, <2>1
  <2>. QED
    BY <1>3, <1>4, <1>5, <1>7, <2>2
<1>. QED
  BY <1>6, <1>7

\* The recursive function Nth runs along the chain.
LEMMA ChainNth ==
    ASSUME NEW n, NEW s, Chain(n, s)
    PROVE  \A i \in 0 .. C : Nth[i] = IF i <= n THEN s[i] ELSE Null
<1>. DEFINE f == [i \in 0 .. C |-> IF i <= n THEN s[i] ELSE Null]
<1>0. n \in 0 .. C /\ C \in Nat
  BY LinkCount DEF Chain
<1>1. f = Following(f)
  <2>1. ASSUME NEW i \in 0 .. C
        PROVE  f[i] = IF i = 0 THEN ListHead
                      ELSE IF f[i - 1] = Null THEN Null ELSE next[f[i - 1]]
    <3>1. CASE i = 0
      BY <1>0, <3>1 DEF Chain
    <3>2. CASE i \in 1 .. n
      <4>1. i - 1 \in 0 .. n /\ i - 1 \in 0 .. C /\ s[i - 1] \in Link \union {ListHead}
        BY <1>0, <3>2 DEF Chain
      <4>2. f[i - 1] = s[i - 1] /\ f[i] = s[i] /\ s[i - 1] # Null
        BY <1>0, <3>2, <4>1, LinkAssumption
      <4>. QED
        BY <3>2, <4>2 DEF Chain
    <3>3. CASE i = n + 1
      <4>1. f[i - 1] = s[n] /\ f[i] = Null /\ i # 0
        BY <1>0, <3>3
      <4>. QED
        BY <4>1 DEF Chain
    <3>4. CASE i > n + 1
      <4>1. f[i - 1] = Null /\ f[i] = Null /\ i # 0
        BY <1>0, <3>4
      <4>. QED
        BY <4>1
    <3>. QED
      BY <1>0, <3>1, <3>2, <3>3, <3>4
  <2>2. Following(f) = [i \in 0 .. C |-> f[i]]
    <3>. HIDE DEF f
    <3>. QED
      BY <2>1 DEF Following
  <2>. QED
    BY <2>2
<1>2. Nth = Following(Nth)
  <2>1. Nth = CHOOSE g : g = Following(g)
    BY DEF Nth, Following, C
  <2>. QED
    BY <1>1, <2>1
<1>3. \A i \in 0 .. C : Nth[i] = f[i]
  <2>. HIDE DEF f
  <2>. QED
    BY <1>1, <1>2, FollowingUnique
<1>. QED
  BY <1>3

\* So List is the chain, and the list is sound.
LEMMA ChainList ==
    ASSUME NEW n, NEW s, Chain(n, s)
    PROVE  /\ Length = n /\ List = [i \in 1 .. n |-> s[i]] /\ List \in Seq(Link)
           /\ \A i \in 0 .. n : Nth[i] = s[i]
           /\ ListSound
<1>0. n \in 0 .. C /\ C \in Nat
  BY LinkCount DEF Chain
<1>1. \A i \in 0 .. n : Nth[i] = s[i]
  BY <1>0, ChainNth
<1>2. {i \in 1 .. C : Nth[i] # Null} = 1 .. n
  <2>1. ASSUME NEW i \in 1 .. C PROVE Nth[i] # Null <=> i <= n
    <3>1. Nth[i] = IF i <= n THEN s[i] ELSE Null
      BY <1>0, ChainNth
    <3>2. i <= n => s[i] \in Link
      BY <1>0 DEF Chain
    <3>. QED
      BY <3>1, <3>2, LinkAssumption
  <2>. QED
    BY <1>0, <2>1
<1>3. Length = n
  <2>1. Cardinality(1 .. n) = n
    BY <1>0, FS_Interval
  <2>2. Length = Cardinality(1 .. n)
    BY <1>2 DEF Length, C
  <2>. QED
    BY <2>1, <2>2
<1>4. List = [i \in 1 .. n |-> s[i]]
  BY <1>0, <1>1, <1>3 DEF List
<1>5. List \in Seq(Link)
  BY <1>0, <1>4 DEF Chain
<1>6. live = {Nth[i] : i \in 1 .. Length}
  BY <1>0, <1>1, <1>3 DEF Chain
<1>7. Cardinality(live) = Length
  <2>. DEFINE b == [i \in 1 .. n |-> s[i]]
  <2>1. b \in [1 .. n -> live] /\ (\A i, j \in 1 .. n : b[i] = b[j] => i = j)
        /\ \A l \in live : \E i \in 1 .. n : b[i] = l
    BY <1>0 DEF Chain
  <2>. HIDE DEF b
  <2>2. ExistsBijection(1 .. n, live)
    BY <2>1 DEF ExistsBijection, Bijection, Injection, Surjection, IsInjective
  <2>. QED
    BY <1>0, <1>3, <2>2, FS_Bijection, FS_Interval
<1>8. tail = Nth[Length] /\ next[tail] = Null
  BY <1>0, <1>1, <1>3 DEF Chain
<1>. QED
  BY <1>1, <1>3, <1>4, <1>5, <1>6, <1>7, <1>8 DEF ListSound
-----------------------------------------------------------------------------
(* What the operations do to it.                                           *)

Pointers == next \in [Link \union {ListHead} -> Link \union {Null}]

LEMMA QueueStep ==
    ASSUME Pointers, NEW n, NEW s, Chain(n, s), NEW l \in Link, fuse_queue_forget(l)
    PROVE  LET more == [i \in 0 .. n + 1 |-> IF i <= n THEN s[i] ELSE l] IN
           /\ Chain(n + 1, more)' /\ n + 1 \in 0 .. C
           /\ more \in [0 .. n + 1 -> Link \union {ListHead}]
<1>. DEFINE more == [i \in 0 .. n + 1 |-> IF i <= n THEN s[i] ELSE l]
<1>0. n \in 0 .. C /\ C \in Nat /\ l \notin live
  BY LinkCount DEF Chain, fuse_queue_forget
<1>1. n + 1 \in 0 .. C
  <2>1. live \subseteq Link /\ live \union {l} \subseteq Link
    BY DEF Chain
  <2>2. IsFiniteSet(live) /\ Cardinality(live) = n
    BY <2>1, ChainList, LinkAssumption, FS_Subset DEF ListSound
  <2>3. Cardinality(live \union {l}) = n + 1
    BY <1>0, <2>2, FS_AddElement
  <2>4. Cardinality(live \union {l}) <= C
    BY <2>1, LinkAssumption, FS_Subset DEF C
  <2>. QED
    BY <1>0, <2>3, <2>4
<1>2. /\ \A i \in 0 .. n : more[i] = s[i]
      /\ more[n + 1] = l
      /\ more \in [0 .. n + 1 -> Link \union {ListHead}]
  BY <1>0 DEF Chain
<1>3. /\ tail = s[n] /\ \A i \in 0 .. n : s[i] \in Link \union {ListHead} /\ s[i] # l
  BY <1>0, LinkAssumption DEF Chain
<1>4. /\ next'[s[n]] = l /\ next'[l] = Null
      /\ \A x \in (Link \union {ListHead}) \ {s[n], l} : next'[x] = next[x]
  BY <1>0, <1>3 DEF fuse_queue_forget, Pointers
<1>. HIDE DEF more
<1>5. \A i \in 1 .. n + 1 : next'[more[i - 1]] = more[i]
  <2>1. SUFFICES ASSUME NEW i \in 1 .. n + 1 PROVE next'[more[i - 1]] = more[i]
    OBVIOUS
  <2>2. CASE i = n + 1
    BY <1>0, <1>2, <1>4, <2>2
  <2>3. CASE i \in 1 .. n
    <3>1. i - 1 \in 0 .. n /\ i - 1 # n /\ n \in 0 .. n /\ i \in 0 .. n
      BY <1>0, <2>3
    <3>2. s[i - 1] # s[n] /\ next[s[i - 1]] = s[i]
      BY <2>3, <3>1 DEF Chain
    <3>. QED
      BY <1>2, <1>3, <1>4, <3>1, <3>2
  <2>. QED
    BY <1>0, <2>2, <2>3
<1>6. \A i, j \in 0 .. n + 1 : more[i] = more[j] => i = j
  <2>1. SUFFICES ASSUME NEW i \in 0 .. n + 1, NEW j \in 0 .. n + 1, more[i] = more[j]
                 PROVE  i = j
    OBVIOUS
  <2>2. (i \in 0 .. n \/ i = n + 1) /\ (j \in 0 .. n \/ j = n + 1)
    BY <1>0
  <2>. QED
    BY <1>2, <1>3, <2>1, <2>2 DEF Chain
<1>7. live' = {more[i] : i \in 1 .. n + 1}
  <2>1. live' = {s[i] : i \in 1 .. n} \union {l}
    BY DEF Chain, fuse_queue_forget
  <2>2. \A i \in 1 .. n : i \in 1 .. n + 1 /\ more[i] = s[i]
    BY <1>0, <1>2
  <2>3. \A i \in 1 .. n + 1 : i \in 1 .. n \/ i = n + 1
    BY <1>0
  <2>4. n + 1 \in 1 .. n + 1
    BY <1>0
  <2>. QED
    BY <1>2, <2>1, <2>2, <2>3, <2>4
<1>8. more[0] = ListHead /\ \A i \in 1 .. n + 1 : more[i] \in Link
  BY <1>0, <1>2 DEF Chain
<1>9. tail' = more[n + 1] /\ next'[more[n + 1]] = Null
  BY <1>2, <1>4 DEF fuse_queue_forget
<1>10. Chain(n + 1, more)'
  BY <1>1, <1>2, <1>5, <1>6, <1>7, <1>8, <1>9 DEF Chain
<1>. QED
  BY <1>1, <1>2, <1>10 DEF more

\* The rest of the list behind the first c.
Rest(n, s, c) == [i \in 0 .. n - c |-> IF i = 0 THEN ListHead ELSE s[i + c]]

LEMMA DequeueStep ==
    ASSUME Pointers, NEW n, NEW s, Chain(n, s), NEW max \in Nat, dequeue_forget(max),
           NEW c, c = IF max < n THEN max ELSE n
    PROVE  /\ c = Count(max) /\ c \in 0 .. n
           /\ Chain(n - c, Rest(n, s, c))' /\ n - c \in 0 .. C
           /\ Rest(n, s, c) \in [0 .. n - c -> Link \union {ListHead}]
<1>. DEFINE rest == Rest(n, s, c)
<1>0. n \in 0 .. C /\ C \in Nat /\ Length = n
  BY LinkCount, ChainList DEF Chain
<1>1. c = Count(max) /\ c \in 0 .. n /\ n - c \in 0 .. C
  BY <1>0 DEF Count
<1>2. Nth[c] = s[c]
  BY <1>1, ChainList
<1>3. /\ next' = [next EXCEPT ![s[c]] = Null, ![ListHead] = next[s[c]]]
      /\ tail' = IF next'[ListHead] = Null THEN ListHead ELSE tail
      /\ live' = live \ {Nth[i] : i \in 1 .. c}
  BY <1>1, <1>2 DEF dequeue_forget
<1>4. /\ rest[0] = ListHead /\ \A i \in 1 .. n - c : rest[i] = s[i + c] /\ rest[i] \in Link
      /\ rest \in [0 .. n - c -> Link \union {ListHead}]
  BY <1>0, <1>1 DEF Rest, Chain
<1>. HIDE DEF rest
<1>5. /\ next'[ListHead] = next[s[c]]
      /\ \A x \in Link \ {s[c]} : next'[x] = next[x]
  BY <1>3, LinkAssumption DEF Pointers
<1>6. \A i \in c + 1 .. n : s[i] \in Link \ {s[c]} /\ next'[s[i]] = next[s[i]]
  <2>1. SUFFICES ASSUME NEW i \in c + 1 .. n PROVE s[i] \in Link \ {s[c]}
    BY <1>5
  <2>2. i \in 0 .. n /\ i \in 1 .. n /\ i # c
    BY <1>0, <1>1
  <2>. QED
    BY <1>1, <2>2 DEF Chain
<1>7. \A i \in 1 .. n - c : next'[rest[i - 1]] = rest[i]
  <2>1. SUFFICES ASSUME NEW i \in 1 .. n - c PROVE next'[rest[i - 1]] = rest[i]
    OBVIOUS
  <2>2. i + c \in 1 .. n /\ next[s[i + c - 1]] = s[i + c] /\ rest[i] = s[i + c]
    BY <1>0, <1>1, <1>4 DEF Chain
  <2>3. CASE i = 1
    <3>1. i - 1 = 0 /\ i + c - 1 = c
      BY <1>1, <2>3
    <3>. QED
      BY <1>4, <1>5, <2>2, <3>1
  <2>4. CASE i # 1
    <3>1. i - 1 \in 1 .. n - c /\ i + c - 1 \in c + 1 .. n /\ i - 1 + c = i + c - 1
      BY <1>0, <1>1, <2>4
    <3>. QED
      BY <1>4, <1>6, <2>2, <3>1
  <2>. QED
    BY <2>3, <2>4
<1>8. next'[rest[n - c]] = Null /\ tail' = rest[n - c]
  <2>1. CASE c = n
    <3>1. n - c = 0
      BY <1>0, <2>1
    <3>. QED
      BY <1>3, <1>4, <1>5, <2>1, <3>1 DEF Chain
  <2>2. CASE c # n
    <3>1. n - c \in 1 .. n - c /\ n \in c + 1 .. n /\ n - c + c = n /\ c + 1 \in 1 .. n
          /\ c + 1 - 1 = c
      BY <1>0, <1>1, <2>2
    <3>2. rest[n - c] = s[n] /\ next'[s[n]] = Null
      BY <1>4, <1>6, <3>1 DEF Chain
    <3>3. next[s[c + 1 - 1]] = s[c + 1] /\ s[c + 1] \in Link
      BY <3>1 DEF Chain
    <3>. QED
      BY <1>3, <1>5, <3>1, <3>2, <3>3, LinkAssumption DEF Chain
  <2>. QED
    BY <2>1, <2>2
<1>9. \A i, j \in 0 .. n - c : rest[i] = rest[j] => i = j
  <2>1. SUFFICES ASSUME NEW i \in 0 .. n - c, NEW j \in 0 .. n - c, rest[i] = rest[j]
                 PROVE  i = j
    OBVIOUS
  <2>2. CASE i # 0 /\ j # 0
    <3>1. i \in 1 .. n - c /\ j \in 1 .. n - c /\ i + c \in 0 .. n /\ j + c \in 0 .. n
      BY <1>0, <1>1, <2>2
    <3>2. s[i + c] = s[j + c]
      BY <1>4, <2>1, <3>1
    <3>3. i + c = j + c
      BY <3>1, <3>2 DEF Chain
    <3>. QED
      BY <1>1, <3>3
  <2>3. CASE i = 0 \/ j = 0
    <3>1. (i # 0 => i \in 1 .. n - c) /\ (j # 0 => j \in 1 .. n - c)
      BY <1>0, <1>1
    <3>. QED
      BY <1>4, <2>1, <2>3, <3>1, LinkAssumption
  <2>. QED
    BY <2>2, <2>3
<1>10. live' = {rest[i] : i \in 1 .. n - c}
  <2>1. live' = {s[i] : i \in 1 .. n} \ {s[i] : i \in 1 .. c}
    <3>1. \A i \in 1 .. c : Nth[i] = s[i]
      BY <1>0, <1>1, ChainList
    <3>2. {Nth[i] : i \in 1 .. c} = {s[i] : i \in 1 .. c}
      BY <3>1
    <3>. QED
      BY <1>3, <3>2 DEF Chain
  <2>2. ASSUME NEW l \in live' PROVE l \in {rest[i] : i \in 1 .. n - c}
    <3>1. PICK k \in 1 .. n : l = s[k] /\ k \notin 1 .. c
      BY <2>1, <2>2
    <3>2. k - c \in 1 .. n - c /\ k - c + c = k
      BY <1>0, <1>1, <3>1
    <3>3. rest[k - c] = l
      BY <1>4, <3>1, <3>2
    <3>. QED
      BY <3>2, <3>3
  <2>3. ASSUME NEW i \in 1 .. n - c PROVE rest[i] \in live'
    <3>1. i + c \in 1 .. n /\ rest[i] = s[i + c]
      BY <1>0, <1>1, <1>4
    <3>2. ASSUME NEW j \in 1 .. c PROVE s[j] # s[i + c]
      <4>1. j \in 0 .. n /\ i + c \in 0 .. n /\ j # i + c
        BY <1>0, <1>1, <3>1
      <4>. QED
        BY <4>1 DEF Chain
    <3>. QED
      BY <2>1, <3>1, <3>2
  <2>. QED
    BY <2>2, <2>3
<1>11. Chain(n - c, rest)'
  BY <1>1, <1>4, <1>7, <1>8, <1>9, <1>10 DEF Chain
<1>. QED
  BY <1>1, <1>4, <1>11 DEF rest
-----------------------------------------------------------------------------
(* The list as a sequence.                                                 *)

ChainsAreLists == \A n, s : Chain(n, s) =>
    Length = n /\ List = [i \in 1 .. n |-> s[i]] /\ List \in Seq(Link) /\ ListSound

LEMMA ChainsPrimed == ChainsAreLists /\ ChainsAreLists'
<1>1. ChainsAreLists
  BY ChainList DEF ChainsAreLists
<1>. QED
  BY <1>1, PTL

\* A link goes to the end ...
LEMMA Queued ==
    ASSUME Pointers, Linked, NEW l \in Link, fuse_queue_forget(l)
    PROVE  Linked' /\ Pointers' /\ List' = Append(List, l)
<1>1. PICK n \in 0 .. C : \E s \in [0 .. n -> Link \union {ListHead}] : Chain(n, s)
  BY DEF Linked
<1>2. PICK s \in [0 .. n -> Link \union {ListHead}] : Chain(n, s)
  BY <1>1
<1>. DEFINE more == [i \in 0 .. n + 1 |-> IF i <= n THEN s[i] ELSE l]
<1>3. /\ Chain(n + 1, more)' /\ n + 1 \in 0 .. C
      /\ more \in [0 .. n + 1 -> Link \union {ListHead}]
  BY <1>2, QueueStep
<1>4. Linked'
  <2>. HIDE DEF more
  <2>. QED
    BY <1>3 DEF Linked
<1>5. Pointers'
  BY <1>2, LinkAssumption DEF Pointers, fuse_queue_forget, Chain
<1>6. List' = Append(List, l)
  <2>1. List = [i \in 1 .. n |-> s[i]] /\ List \in Seq(Link) /\ n \in Nat
    BY <1>2, ChainsPrimed, LinkCount DEF ChainsAreLists
  <2>2. List' = [i \in 1 .. n + 1 |-> more[i]] /\ List' \in Seq(Link)
    <3>. HIDE DEF more
    <3>. QED
      BY <1>3, ChainsPrimed DEF ChainsAreLists
  <2>3. \A i \in 1 .. n + 1 : more[i] = IF i <= n THEN s[i] ELSE l
    BY <2>1
  <2>. HIDE DEF more
  <2>4. Len(List) = n /\ Len(List') = n + 1
    BY <2>1, <2>2
  <2>5. /\ Append(List, l) \in Seq(Link) /\ Len(Append(List, l)) = n + 1
        /\ \A i \in 1 .. n : Append(List, l)[i] = List[i]
        /\ Append(List, l)[n + 1] = l
    BY <2>1, <2>4, AppendProperties
  <2>6. \A i \in 1 .. n + 1 : List'[i] = Append(List, l)[i]
    BY <2>1, <2>2, <2>3, <2>5
  <2>. QED
    BY <2>2, <2>4, <2>5, <2>6, SeqEqual
<1>. QED
  BY <1>4, <1>5, <1>6

\* ... and a number of them are cut off at the front.
LEMMA Dequeued ==
    ASSUME Pointers, Linked, NEW max \in Nat, dequeue_forget(max)
    PROVE  /\ Linked' /\ Pointers'
           /\ List \in Seq(Link) /\ Count(max) \in 0 .. Len(List)
           /\ List' = SubSeq(List, Count(max) + 1, Len(List))
           /\ SubSeq(List, 1, Count(max)) \in Seq(Link)
<1>1. PICK n \in 0 .. C : \E s \in [0 .. n -> Link \union {ListHead}] : Chain(n, s)
  BY DEF Linked
<1>2. PICK s \in [0 .. n -> Link \union {ListHead}] : Chain(n, s)
  BY <1>1
<1>. DEFINE c == IF max < n THEN max ELSE n  rest == Rest(n, s, c)
<1>3. /\ c = Count(max) /\ c \in 0 .. n
      /\ Chain(n - c, rest)' /\ n - c \in 0 .. C
      /\ rest \in [0 .. n - c -> Link \union {ListHead}]
  BY <1>2, DequeueStep
<1>. HIDE DEF c
<1>4. Linked'
  <2>. HIDE DEF rest
  <2>. QED
    BY <1>3 DEF Linked
<1>5. n \in Nat /\ List = [i \in 1 .. n |-> s[i]] /\ List \in Seq(Link) /\ Len(List) = n
  BY <1>2, ChainsPrimed, LinkCount DEF ChainsAreLists
<1>6. Pointers'
  <2>1. Nth[c] = s[c] /\ s[c] \in Link \union {ListHead}
    <3>1. Nth[c] = s[c]
      BY <1>2, <1>3, ChainList
    <3>2. s \in [0 .. n -> Link \union {ListHead}]
      BY <1>2 DEF Chain
    <3>. QED
      BY <1>3, <3>1, <3>2
  <2>2. next' = [next EXCEPT ![s[c]] = Null, ![ListHead] = next[s[c]]]
    BY <1>3, <2>1 DEF dequeue_forget
  <2>. QED
    BY <2>1, <2>2, LinkAssumption DEF Pointers
<1>7. List' = SubSeq(List, c + 1, n)
  <2>1. \A i \in 1 .. n - c : rest[i] = s[i + c]
    BY <1>3, <1>5 DEF Rest
  <2>2. List' = [i \in 1 .. n - c |-> rest[i]] /\ List' \in Seq(Link)
    <3>. HIDE DEF rest
    <3>. QED
      BY <1>3, ChainsPrimed DEF ChainsAreLists
  <2>. HIDE DEF rest
  <2>3. Len(List') = n - c
    BY <1>3, <1>5, <2>2
  <2>4. \A i \in c + 1 .. n : List[i] \in Link
    BY <1>2, <1>3, <1>5 DEF Chain
  <2>5. /\ SubSeq(List, c + 1, n) \in Seq(Link)
        /\ Len(SubSeq(List, c + 1, n)) = n - c
        /\ \A i \in 1 .. n - (c + 1) + 1 : SubSeq(List, c + 1, n)[i] = List[c + 1 + i - 1]
    BY <1>3, <1>5, <2>4, SubSeqProperties, SMTT(30)
  <2>6. \A i \in 1 .. n - c : List'[i] = SubSeq(List, c + 1, n)[i]
    <3>1. SUFFICES ASSUME NEW i \in 1 .. n - c PROVE List'[i] = SubSeq(List, c + 1, n)[i]
      OBVIOUS
    <3>2. i \in 1 .. n - (c + 1) + 1 /\ c + 1 + i - 1 = i + c /\ i + c \in 1 .. n
      BY <1>3, <1>5
    <3>. QED
      BY <1>5, <2>1, <2>2, <2>5, <3>2
  <2>. QED
    BY <2>2, <2>3, <2>5, <2>6, SeqEqual
<1>8. SubSeq(List, 1, c) \in Seq(Link)
  <2>1. \A i \in 1 .. c : List[i] \in Link
    BY <1>2, <1>3, <1>5 DEF Chain
  <2>. QED
    BY <1>3, <1>5, <2>1, SubSeqProperties
<1>. QED
  BY <1>3, <1>4, <1>5, <1>6, <1>7, <1>8
-----------------------------------------------------------------------------
(* The theorems.                                                           *)

\* What a step does to the list and to what the daemon gets.
Takes(c) == /\ c \in 0 .. Len(List)
            /\ List' = SubSeq(List, c + 1, Len(List))
            /\ got' \in {<<>>, SubSeq(List, 1, c)}

ListInv == TypeOK /\ TurnInv /\ Linked

\* Whatever reads or drains the list takes the first so many links.
LEMMA Taken ==
    ASSUME Pointers, Linked, NEW max \in Nat, dequeue_forget(max),
           got' \in {<<>>, SubSeq(List, 1, Count(max))}
    PROVE  Linked' /\ Pointers' /\ got' \in Seq(Link) /\ \E c \in 0 .. Len(List) : Takes(c)
<1>1. /\ Linked' /\ Pointers'
      /\ List \in Seq(Link) /\ Count(max) \in 0 .. Len(List)
      /\ List' = SubSeq(List, Count(max) + 1, Len(List))
      /\ SubSeq(List, 1, Count(max)) \in Seq(Link)
  BY Dequeued
<1>2. Takes(Count(max))
  BY <1>1 DEF Takes
<1>3. <<>> \in Seq(Link)
  OBVIOUS
<1>. QED
  BY <1>1, <1>2, <1>3

\* A read that takes no link.
LEMMA NoneTaken ==
    ASSUME Pointers, Linked, UNCHANGED list, got' = <<>>
    PROVE  Linked' /\ Pointers' /\ got' \in Seq(Link) /\ \E c \in 0 .. Len(List) : Takes(c)
<1>1. Linked' /\ Pointers' /\ List' = List
  BY SMTT(30) DEF Linked, Chain, Pointers, List, Length, Nth, list
<1>2. List \in Seq(Link) /\ Len(List) \in Nat
  BY ChainsPrimed DEF ChainsAreLists, Linked
<1>3. SubSeq(List, 0 + 1, Len(List)) = List
  BY <1>2, SubSeqFull
<1>. QED
  BY <1>1, <1>2, <1>3 DEF Takes

LEMMA ReadTakes ==
    ASSUME TypeOK, Linked, NEW room \in Room, ReadForget(room)
    PROVE  Linked' /\ Pointers' /\ got' \in Seq(Link) /\ \E c \in 0 .. Len(List) : Takes(c)
<1>0. Pointers
  BY DEF TypeOK, Pointers
<1>1. CASE fuse_read_single_forget(room)
  <2>1. got' \in {<<>>, <<next[ListHead]>>} /\ dequeue_forget(1)
    BY <1>1 DEF fuse_read_single_forget
  <2>2. <<next[ListHead]>> = SubSeq(List, 1, Count(1))
    <3>1. PICK n \in 0 .. C : \E s \in [0 .. n -> Link \union {ListHead}] : Chain(n, s)
      BY DEF Linked
    <3>2. PICK s \in [0 .. n -> Link \union {ListHead}] : Chain(n, s)
      BY <3>1
    <3>3. n \in Nat /\ n # 0
      BY <3>1, <3>2, LinkCount DEF Chain, ReadForget, forget_pending
    <3>4. Length = n /\ List = [i \in 1 .. n |-> s[i]] /\ List \in Seq(Link)
      BY <3>2, ChainsPrimed DEF ChainsAreLists
    <3>5. Count(1) = 1
      BY <3>3, <3>4 DEF Count
    <3>6. 1 \in 1 .. n /\ 1 - 1 = 0
      BY <3>3
    <3>7. List[1] = next[ListHead] /\ List[1] \in Link
      BY <3>2, <3>4, <3>6 DEF Chain
    <3>8. \A i \in 1 .. 1 : List[i] \in Link
      BY <3>7
    <3>9. /\ SubSeq(List, 1, 1) \in Seq(Link) /\ Len(SubSeq(List, 1, 1)) = 1
          /\ SubSeq(List, 1, 1)[1] = List[1]
      <4>1. /\ SubSeq(List, 1, 1) \in Seq(Link) /\ Len(SubSeq(List, 1, 1)) = 1 - 1 + 1
            /\ \A i \in 1 .. 1 - 1 + 1 : SubSeq(List, 1, 1)[i] = List[1 + i - 1]
        BY <3>8, SubSeqProperties
      <4>. QED
        BY <4>1
    <3>10. /\ <<next[ListHead]>> \in Seq(Link) /\ Len(<<next[ListHead]>>) = 1
           /\ <<next[ListHead]>>[1] = next[ListHead]
      BY <3>7
    <3>11. \A i \in 1 .. 1 : <<next[ListHead]>>[i] = SubSeq(List, 1, 1)[i]
      BY <3>7, <3>9, <3>10
    <3>12. <<next[ListHead]>> = SubSeq(List, 1, 1)
      BY <3>9, <3>10, <3>11, SeqEqual
    <3>. QED
      BY <3>5, <3>12
  <2>. QED
    BY <1>0, <2>1, <2>2, Taken
<1>2. CASE room < 0 /\ got' = <<>> /\ UNCHANGED list
  BY <1>0, <1>2, NoneTaken
<1>3. CASE room >= 0 /\ dequeue_forget(room) /\ got' \in {<<>>, SubSeq(List, 1, Count(room))}
  <2>1. room \in Nat
    BY <1>3, LinkCount DEF Room, C
  <2>. QED
    BY <1>0, <1>3, <2>1, Taken
<1>. QED
  BY <1>1, <1>2, <1>3 DEF ReadForget, fuse_read_forget, fuse_read_batch_forget

LEMMA AbortTakes ==
    ASSUME TypeOK, Linked, AbortForgets
    PROVE  Linked' /\ Pointers' /\ got' \in Seq(Link) /\ \E c \in 0 .. Len(List) : Takes(c)
<1>1. Pointers /\ dequeue_forget(C) /\ got' = <<>> /\ C \in Nat
  BY LinkCount DEF TypeOK, Pointers, AbortForgets, C
<1>. QED
  BY <1>1, Taken

LEMMA ListStep ==
    ASSUME ListInv, [Next]_vars
    PROVE  ListInv' /\ [Queue!Next]_(Queue!vars)
<1>0. Pointers /\ TypeOK /\ Linked /\ TurnInv
  BY DEF ListInv, TypeOK, Pointers
<1>1. TurnInv'
  BY <1>0, TurnStep
<1>2. ASSUME Linked', Pointers', got' \in Seq(Link), pending' \in 0 .. MaxPending,
             minor16' \in BOOLEAN, connected' \in BOOLEAN, drained' \in BOOLEAN
      PROVE  ListInv'
  <2>1. tail' \in Link \union {ListHead} /\ live' \subseteq Link
    <3>1. PICK n \in 0 .. C : \E s \in [0 .. n -> Link \union {ListHead}] : Chain(n, s)'
      BY <1>2 DEF Linked
    <3>2. PICK s \in [0 .. n -> Link \union {ListHead}] : Chain(n, s)'
      BY <3>1
    <3>. QED
      BY <3>1, <3>2, LinkCount DEF Chain
  <2>. QED
    BY <1>1, <1>2, <2>1 DEF ListInv, TypeOK, Pointers, TurnInv, TurnType
<1>3. ASSUME UNCHANGED <<list, got>>, pending' \in 0 .. MaxPending,
             minor16' \in BOOLEAN, connected' \in BOOLEAN, drained' \in BOOLEAN
      PROVE  ListInv' /\ UNCHANGED Queue!vars
  <2>0. next' = next /\ tail' = tail /\ live' = live /\ got' = got
    BY <1>3 DEF list
  <2>1. Linked' /\ Pointers' /\ List' = List /\ got' \in Seq(Link)
    <3>1. Linked' /\ Pointers'
      BY <1>0, <2>0 DEF Linked, Chain, Pointers
    <3>2. List' = List
      BY <2>0 DEF List, Length, Nth
    <3>3. got' \in Seq(Link)
      BY <1>0, <2>0 DEF TypeOK
    <3>. QED
      BY <3>1, <3>2, <3>3
  <2>. QED
    BY <1>2, <1>3, <2>1 DEF Queue!vars
<1>4. ASSUME NEW l \in Link, fuse_queue_forget(l)
      PROVE  ListInv' /\ Queue!Next
  <2>1. Linked' /\ Pointers' /\ List' = Append(List, l)
    BY <1>0, <1>4, Queued
  <2>2. UNCHANGED <<pending, minor16, connected, drained, got>>
    BY <1>4 DEF fuse_queue_forget
  <2>3. ListInv'
    BY <1>0, <1>2, <2>1, <2>2 DEF TypeOK
  <2>. QED
    BY <2>1, <2>2, <2>3 DEF Queue!Next, Queue!Put
<1>5. ASSUME \E c \in 0 .. Len(List) : Takes(c) PROVE Queue!Next
  BY <1>5 DEF Takes, Queue!Next, Queue!Take
<1>6. ASSUME NEW room \in Room, ReadForget(room)
      PROVE  ListInv' /\ Queue!Next
  <2>1. UNCHANGED <<pending, minor16, connected, drained>>
    BY <1>6 DEF ReadForget
  <2>. QED
    BY <1>0, <1>2, <1>5, <1>6, <2>1, ReadTakes DEF TypeOK
<1>7. CASE AbortForgets
  <2>1. pending' = 0 /\ drained' = TRUE /\ UNCHANGED <<minor16, connected>>
    BY <1>7 DEF AbortForgets
  <2>2. 0 \in 0 .. MaxPending
    BY PendingAssumption
  <2>. QED
    BY <1>0, <1>2, <1>5, <1>7, <2>1, <2>2, AbortTakes DEF TypeOK
<1>8. CASE QueueRequest \/ ReadRequest \/ Killed \/ AbortConn \/ UNCHANGED vars
  <2>1. pending' \in 0 .. MaxPending
    BY <1>0, <1>8, PendingAssumption
       DEF TypeOK, QueueRequest, ReadRequest, Killed, AbortConn, vars
  <2>2. UNCHANGED <<list, got>> /\ UNCHANGED <<minor16, drained>> /\ connected' \in BOOLEAN
    BY <1>0, <1>8 DEF TypeOK, QueueRequest, ReadRequest, Killed, AbortConn, vars
  <2>. QED
    BY <1>0, <1>3, <2>1, <2>2 DEF TypeOK
<1>. QED
  BY <1>4, <1>6, <1>7, <1>8 DEF Next

LEMMA ListBegins == Init => ListInv /\ Queue!Init
<1>. SUFFICES ASSUME Init PROVE ListInv /\ Queue!Init
  OBVIOUS
<1>. DEFINE s == [i \in 0 .. 0 |-> ListHead]
<1>1. Chain(0, s) /\ 0 \in 0 .. C /\ s \in [0 .. 0 -> Link \union {ListHead}]
  BY LinkCount DEF Init, Chain
<1>2. Linked
  <2>. HIDE DEF s
  <2>. QED
    BY <1>1 DEF Linked
<1>3. TypeOK /\ TurnInv
  <2>1. <<>> \in Seq(Link) /\ 0 \in 0 .. MaxPending
    BY PendingAssumption
  <2>2. next \in [Link \union {ListHead} -> Link \union {Null}]
    BY DEF Init
  <2>3. TurnInv /\ streak \in [kind : {"none", "forget", "request"}, n : 0 .. 17]
    BY DEF Init, TurnInv, TurnType, RoundOK, NoStreak
  <2>4. got \in Seq(Link) /\ pending \in 0 .. MaxPending /\ forget_batch \in -7 .. 16
    BY <2>1 DEF Init
  <2>5. /\ tail \in Link \union {ListHead} /\ live \subseteq Link
        /\ minor16 \in BOOLEAN /\ connected \in BOOLEAN /\ drained \in BOOLEAN
    BY DEF Init
  <2>. QED
    BY <2>2, <2>3, <2>4, <2>5 DEF TypeOK
<1>4. List = <<>>
  <2>1. List \in Seq(Link) /\ Length = 0 /\ List = [i \in 1 .. 0 |-> s[i]]
    <3>. HIDE DEF s
    <3>. QED
      BY <1>1, ChainsPrimed DEF ChainsAreLists
  <2>. HIDE DEF s
  <2>2. Len(List) = 0
    BY <2>1
  <2>. QED
    BY <2>1, <2>2, EmptySeq
<1>. QED
  BY <1>2, <1>3, <1>4 DEF ListInv, Queue!Init, Init

LEMMA ListInvariant == Spec => []ListInv
<1>1. ListInv /\ [Next]_vars => ListInv'
  BY ListStep
<1>. QED
  BY <1>1, ListBegins, PTL DEF Spec

\* fuse_queue_forget, dequeue_forget and the drain of fuse_abort_conn keep the list
\* sound for any number of links: what is on it is what is allocated, each link once,
\* and the tail pointer is at the last one.
THEOREM ListCorrect == Spec => []ListOK
<1>1. ListInv => ListOK
  BY ChainsPrimed DEF ListInv, Linked, ChainsAreLists, ListOK
<1>. QED
  BY <1>1, ListInvariant, PTL

\* The list implements the FIFO queue: a message is passed on in its turn, once, or
\* lost with the read that took it, for any number of links.
THEOREM ImplementsCorrect == Spec => ImplementsQueue
<1>1. ListInv /\ [Next]_vars => [Queue!Next]_(Queue!vars)
  BY ListStep
<1>. QED
  BY <1>1, ListBegins, ListInvariant, PTL DEF Spec, ImplementsQueue, Queue!Spec
=============================================================================
