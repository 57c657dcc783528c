--------------------------- MODULE FuseOwner_proofs ---------------------------
(***************************************************************************)
(* Who holds a request of FuseDev: its lists, the threads in system calls, *)
(* its caller and fuse_abort_conn.  From one invariant about each request  *)
(* follow the reference count, the lists, the interrupts, the safety of    *)
(* the copies, the promise of FuseCall, the counters and what              *)
(* fuse_abort_conn leaves behind.                                          *)
(***************************************************************************)
EXTENDS FuseDev_proofs

-----------------------------------------------------------------------------
(* Lists without repetition.                                               *)

LEMMA AppendSet ==
    ASSUME NEW S, NEW s \in Seq(S), NEW r \in S
    PROVE  /\ ToSet(Append(s, r)) = ToSet(s) \union {r}
           /\ IsInjective(s) /\ r \notin ToSet(s) => IsInjective(Append(s, r))
<1>1. /\ DOMAIN s = 1 .. Len(s) /\ Len(s) \in Nat
      /\ DOMAIN Append(s, r) = 1 .. Len(s) + 1
      /\ \A i \in 1 .. Len(s) : Append(s, r)[i] = s[i]
      /\ Append(s, r)[Len(s) + 1] = r
  OBVIOUS
<1>2. ToSet(Append(s, r)) = ToSet(s) \union {r}
  <2>1. ASSUME NEW x \in ToSet(Append(s, r)) PROVE x \in ToSet(s) \union {r}
    BY <1>1 DEF ToSet
  <2>2. ASSUME NEW x \in ToSet(s) PROVE x \in ToSet(Append(s, r))
    BY <1>1 DEF ToSet
  <2>3. r \in ToSet(Append(s, r))
    BY <1>1 DEF ToSet
  <2>. QED
    BY <2>1, <2>2, <2>3
<1>3. ASSUME IsInjective(s), r \notin ToSet(s) PROVE IsInjective(Append(s, r))
  BY <1>1, <1>3 DEF ToSet, IsInjective
<1>. QED
  BY <1>2, <1>3

LEMMA TailSet ==
    ASSUME NEW S, NEW s \in Seq(S), s # <<>>, IsInjective(s)
    PROVE  /\ Head(s) \in ToSet(s) /\ Head(s) \in S
           /\ ToSet(Tail(s)) = ToSet(s) \ {Head(s)}
           /\ IsInjective(Tail(s))
<1>1. /\ DOMAIN s = 1 .. Len(s) /\ Len(s) \in Nat /\ Len(s) >= 1
      /\ DOMAIN Tail(s) = 1 .. Len(s) - 1
      /\ \A i \in 1 .. Len(s) - 1 : Tail(s)[i] = s[i + 1]
      /\ Head(s) = s[1]
  <2>1. Len(s) # 0
    BY EmptySeq
  <2>. QED
    BY <2>1
<1>2. ToSet(Tail(s)) = ToSet(s) \ {Head(s)}
  <2>1. ASSUME NEW x \in ToSet(Tail(s)) PROVE x \in ToSet(s) \ {Head(s)}
    <3>1. PICK i \in 1 .. Len(s) - 1 : x = s[i + 1]
      BY <1>1 DEF ToSet
    <3>2. i + 1 \in DOMAIN s /\ 1 \in DOMAIN s /\ i + 1 # 1
      BY <1>1
    <3>. QED
      BY <1>1, <3>1, <3>2 DEF ToSet, IsInjective
  <2>2. ASSUME NEW x \in ToSet(s) \ {Head(s)} PROVE x \in ToSet(Tail(s))
    <3>1. PICK i \in 1 .. Len(s) : x = s[i]
      BY <1>1 DEF ToSet
    <3>2. i # 1
      BY <1>1, <3>1
    <3>3. i - 1 \in 1 .. Len(s) - 1 /\ Tail(s)[i - 1] = s[i]
      BY <1>1, <3>2
    <3>. QED
      BY <1>1, <3>1, <3>3 DEF ToSet
  <2>. QED
    BY <2>1, <2>2
<1>3. IsInjective(Tail(s))
  BY <1>1 DEF IsInjective
<1>. QED
  BY <1>1, <1>2, <1>3 DEF ToSet

\* A list cut in two: what the pieces hold.
LEMMA CutSet ==
    ASSUME NEW S, NEW s \in Seq(S), NEW n \in 0 .. Len(s), IsInjective(s)
    PROVE  LET a == SubSeq(s, 1, n)
               b == SubSeq(s, n + 1, Len(s))
           IN  /\ a \in Seq(S) /\ b \in Seq(S) /\ Len(a) = n
               /\ IsInjective(a) /\ IsInjective(b)
               /\ ToSet(a) \subseteq ToSet(s) /\ ToSet(b) = ToSet(s) \ ToSet(a)
<1>. DEFINE a == SubSeq(s, 1, n)
            b == SubSeq(s, n + 1, Len(s))
<1>1. /\ DOMAIN s = 1 .. Len(s) /\ Len(s) \in Nat /\ n \in Nat /\ n <= Len(s)
      /\ \A i \in 1 .. Len(s) : s[i] \in S
  OBVIOUS
<1>2. /\ a \in Seq(S) /\ Len(a) = n /\ DOMAIN a = 1 .. n
      /\ \A i \in 1 .. n : a[i] = s[i]
  <2>1. \A i \in 1 .. n : s[i] \in S
    BY <1>1
  <2>2. a \in Seq(S) /\ Len(a) = n /\ \A i \in 1 .. n : a[i] = s[i]
    BY <1>1, <2>1, SubSeqProperties
  <2>. HIDE DEF a
  <2>. QED
    BY <2>2
<1>3. /\ b \in Seq(S) /\ Len(b) = Len(s) - n /\ DOMAIN b = 1 .. Len(s) - n
      /\ \A i \in 1 .. Len(s) - n : b[i] = s[n + i]
  <2>1. \A i \in n + 1 .. Len(s) : s[i] \in S
    BY <1>1
  <2>3. /\ SubSeq(s, n + 1, Len(s)) \in Seq(S)
        /\ Len(SubSeq(s, n + 1, Len(s))) = IF n + 1 <= Len(s) THEN Len(s) - (n + 1) + 1 ELSE 0
        /\ \A i \in 1 .. Len(s) - (n + 1) + 1 :
              SubSeq(s, n + 1, Len(s))[i] = s[(n + 1) + i - 1]
    BY <1>1, <2>1, SubSeqProperties
  <2>4. ASSUME NEW i \in 1 .. Len(s) - n
        PROVE  SubSeq(s, n + 1, Len(s))[i] = s[n + i]
    <3>1. i \in 1 .. Len(s) - (n + 1) + 1 /\ (n + 1) + i - 1 = n + i
      BY <1>1
    <3>. QED
      BY <2>3, <3>1
  <2>2. b \in Seq(S) /\ Len(b) = Len(s) - n /\ \A i \in 1 .. Len(s) - n : b[i] = s[n + i]
    <3>1. Len(b) = Len(s) - n
      <4>1. CASE n + 1 <= Len(s)
        BY <1>1, <2>3, <4>1
      <4>2. CASE ~ (n + 1 <= Len(s))
        <5>1. Len(s) = n
          <6>1. \A k, l \in Nat : l <= k /\ ~ (l + 1 <= k) => k = l
            OBVIOUS
          <6>. QED
            BY <1>1, <4>2, <6>1
        <5>. QED
          BY <1>1, <2>3, <4>2, <5>1, SMTT(30)
      <4>. QED
        BY <4>1, <4>2
    <3>. QED
      BY <2>3, <2>4, <3>1
  <2>. HIDE DEF b
  <2>. QED
    BY <2>2
<1>. HIDE DEF a, b
<1>4. IsInjective(a) /\ IsInjective(b)
  <2>1. IsInjective(a)
    BY <1>1, <1>2 DEF IsInjective
  <2>2. ASSUME NEW i \in 1 .. Len(s) - n, NEW j \in 1 .. Len(s) - n, b[i] = b[j]
        PROVE  i = j
    <3>1. n + i \in DOMAIN s /\ n + j \in DOMAIN s /\ s[n + i] = s[n + j]
      BY <1>1, <1>3, <2>2
    <3>2. n + i = n + j
      BY <3>1 DEF IsInjective
    <3>. QED
      BY <1>1, <3>2
  <2>3. IsInjective(b)
    BY <1>3, <2>2 DEF IsInjective
  <2>. QED
    BY <2>1, <2>3
<1>5. ToSet(a) \subseteq ToSet(s)
  BY <1>1, <1>2 DEF ToSet
<1>6. ToSet(b) = ToSet(s) \ ToSet(a)
  <2>1. ASSUME NEW x \in ToSet(b) PROVE x \in ToSet(s) \ ToSet(a)
    <3>1. PICK i \in 1 .. Len(s) - n : x = s[n + i]
      BY <1>3 DEF ToSet
    <3>2. n + i \in 1 .. Len(s) /\ \A j \in 1 .. n : s[j] # s[n + i]
      BY <1>1 DEF IsInjective
    <3>. QED
      BY <1>1, <1>2, <3>1, <3>2 DEF ToSet
  <2>2. ASSUME NEW x \in ToSet(s) \ ToSet(a) PROVE x \in ToSet(b)
    <3>1. PICK i \in 1 .. Len(s) : x = s[i]
      BY <1>1 DEF ToSet
    <3>2. i \notin 1 .. n
      BY <1>2, <3>1 DEF ToSet
    <3>3. i - n \in 1 .. Len(s) - n /\ n + (i - n) = i
      BY <1>1, <3>2
    <3>. QED
      BY <1>3, <3>1, <3>3 DEF ToSet
  <2>. QED
    BY <2>1, <2>2
<1>. QED
  BY <1>2, <1>3, <1>4, <1>5, <1>6 DEF a, b

\* One list after another that shares nothing with it.
LEMMA ConcatSet ==
    ASSUME NEW S, NEW a \in Seq(S), NEW b \in Seq(S)
    PROVE  /\ ToSet(a \o b) = ToSet(a) \union ToSet(b)
           /\ IsInjective(a) /\ IsInjective(b) /\ ToSet(a) \cap ToSet(b) = {}
                => IsInjective(a \o b)
<1>1. /\ DOMAIN a = 1 .. Len(a) /\ Len(a) \in Nat /\ DOMAIN b = 1 .. Len(b) /\ Len(b) \in Nat
      /\ DOMAIN (a \o b) = 1 .. Len(a) + Len(b)
      /\ \A i \in 1 .. Len(a) + Len(b) :
            (a \o b)[i] = IF i <= Len(a) THEN a[i] ELSE b[i - Len(a)]
  OBVIOUS
<1>2. ToSet(a \o b) = ToSet(a) \union ToSet(b)
  <2>1. ASSUME NEW x \in ToSet(a \o b) PROVE x \in ToSet(a) \union ToSet(b)
    <3>1. PICK i \in 1 .. Len(a) + Len(b) : x = (a \o b)[i]
      BY <1>1 DEF ToSet
    <3>2. CASE i <= Len(a)
      BY <1>1, <3>1, <3>2 DEF ToSet
    <3>3. CASE ~ (i <= Len(a))
      <4>1. i - Len(a) \in 1 .. Len(b)
        BY <1>1, <3>3
      <4>. QED
        BY <1>1, <3>1, <3>3, <4>1 DEF ToSet
    <3>. QED
      BY <3>2, <3>3
  <2>2. ASSUME NEW x \in ToSet(a) PROVE x \in ToSet(a \o b)
    BY <1>1 DEF ToSet
  <2>3. ASSUME NEW x \in ToSet(b) PROVE x \in ToSet(a \o b)
    <3>1. PICK i \in 1 .. Len(b) : x = b[i]
      BY <1>1 DEF ToSet
    <3>2. Len(a) + i \in 1 .. Len(a) + Len(b) /\ (a \o b)[Len(a) + i] = b[i]
      BY <1>1
    <3>. QED
      BY <1>1, <3>1, <3>2 DEF ToSet
  <2>. QED
    BY <2>1, <2>2, <2>3
<1>3. ASSUME IsInjective(a), IsInjective(b), ToSet(a) \cap ToSet(b) = {}
      PROVE  IsInjective(a \o b)
  <2>. SUFFICES ASSUME NEW i \in DOMAIN (a \o b), NEW j \in DOMAIN (a \o b),
                       (a \o b)[i] = (a \o b)[j]
                PROVE  i = j
    BY DEF IsInjective
  <2>1. \A k \in 1 .. Len(a) : a[k] \in ToSet(a)
    BY <1>1 DEF ToSet
  <2>2. \A k \in 1 .. Len(b) : b[k] \in ToSet(b)
    BY <1>1 DEF ToSet
  <2>3. \A k \in 1 .. Len(a), l \in 1 .. Len(b) : a[k] # b[l]
    BY <1>3, <2>1, <2>2
  <2>4. CASE i <= Len(a) /\ j <= Len(a)
    BY <1>1, <1>3, <2>4 DEF IsInjective
  <2>5. CASE ~ (i <= Len(a)) /\ ~ (j <= Len(a))
    <3>1. i - Len(a) \in 1 .. Len(b) /\ j - Len(a) \in 1 .. Len(b)
      BY <1>1, <2>5
    <3>2. i - Len(a) = j - Len(a)
      BY <1>1, <1>3, <2>5, <3>1 DEF IsInjective
    <3>. QED
      BY <1>1, <3>2
  <2>6. CASE i <= Len(a) /\ ~ (j <= Len(a))
    BY <1>1, <2>3, <2>6
  <2>7. CASE ~ (i <= Len(a)) /\ j <= Len(a)
    BY <1>1, <2>3, <2>7
  <2>. QED
    BY <2>4, <2>5, <2>6, <2>7
<1>. QED
  BY <1>2, <1>3

\* list_del takes one request out.
LEMMA UnlinkSet ==
    ASSUME NEW s \in Seq(Req), NEW r, IsInjective(s)
    PROVE  ToSet(Unlink(s, r)) = ToSet(s) \ {r} /\ IsInjective(Unlink(s, r))
<1>1. CASE \E i \in DOMAIN s : s[i] = r
  <2>. DEFINE i == CHOOSE k \in DOMAIN s : s[k] = r
              a == SubSeq(s, 1, i - 1)
              b == SubSeq(s, i + 1, Len(s))
              c == SubSeq(s, i, Len(s))
  <2>1. i \in DOMAIN s /\ s[i] = r
    BY <1>1
  <2>2. Unlink(s, r) = a \o b
    BY <1>1 DEF Unlink, RemoveAt
  <2>. HIDE DEF i
  <2>3. /\ Len(s) \in Nat /\ i \in 1 .. Len(s)
        /\ i - 1 \in 0 .. Len(s) /\ i \in 0 .. Len(s) /\ (i - 1) + 1 = i
    BY <2>1
  <2>4. /\ a \in Seq(Req) /\ IsInjective(a)
        /\ ToSet(a) \subseteq ToSet(s) /\ ToSet(c) = ToSet(s) \ ToSet(a)
    BY <2>3, CutSet
  <2>5. /\ b \in Seq(Req) /\ IsInjective(b)
        /\ ToSet(b) = ToSet(s) \ ToSet(SubSeq(s, 1, i))
    BY <2>3, CutSet
  <2>6. ToSet(SubSeq(s, 1, i)) = ToSet(a) \union {r}
    <3>1. \A k \in 1 .. i : s[k] \in Req
      BY <2>3
    <3>2. \A k \in 1 .. i - 1 : s[k] \in Req
      BY <2>3
    <3>3. /\ SubSeq(s, 1, i) \in Seq(Req) /\ Len(SubSeq(s, 1, i)) = i
          /\ \A k \in 1 .. i : SubSeq(s, 1, i)[k] = s[k]
      BY <2>3, <3>1, SubSeqProperties
    <3>4. Len(a) = i - 1 /\ \A k \in 1 .. i - 1 : a[k] = s[k]
      BY <2>3, <3>2, SubSeqProperties
    <3>. HIDE DEF a
    <3>5. DOMAIN SubSeq(s, 1, i) = 1 .. i /\ DOMAIN a = 1 .. i - 1
      BY <2>4, <3>3, <3>4
    <3>6. ASSUME NEW x \in ToSet(SubSeq(s, 1, i)) PROVE x \in ToSet(a) \union {r}
      <4>1. PICK k \in 1 .. i : x = s[k]
        BY <3>3, <3>5 DEF ToSet
      <4>2. k \in 1 .. i - 1 \/ k = i
        BY <2>3
      <4>. QED
        BY <2>1, <3>4, <3>5, <4>1, <4>2 DEF ToSet
    <3>7. ASSUME NEW x \in ToSet(a) PROVE x \in ToSet(SubSeq(s, 1, i))
      BY <2>1, <2>3, <3>3, <3>4, <3>5, SMTT(30) DEF ToSet
    <3>8. r \in ToSet(SubSeq(s, 1, i))
      BY <2>1, <2>3, <3>3, <3>5, SMTT(30) DEF ToSet
    <3>. QED
      BY <3>6, <3>7, <3>8
  <2>7. r \notin ToSet(a)
    <3>1. \A k \in 1 .. i - 1 : s[k] \in Req
      BY <2>3
    <3>2. Len(a) = i - 1 /\ \A k \in 1 .. i - 1 : a[k] = s[k]
      BY <2>3, <3>1, SubSeqProperties
    <3>. HIDE DEF a
    <3>3. DOMAIN a = 1 .. i - 1
      BY <2>4, <3>2
    <3>4. \A k \in 1 .. i - 1 : k \in DOMAIN s /\ k # i
      BY <2>3
    <3>. QED
      BY <2>1, <3>2, <3>3, <3>4 DEF ToSet, IsInjective
  <2>. HIDE DEF a, b, c
  <2>8. ToSet(a) \cap ToSet(b) = {}
    BY <2>5, <2>6
  <2>9. ToSet(a \o b) = ToSet(a) \union ToSet(b) /\ IsInjective(a \o b)
    BY <2>4, <2>5, <2>8, ConcatSet
  <2>. QED
    BY <2>2, <2>4, <2>5, <2>6, <2>7, <2>9
<1>2. CASE ~ \E i \in DOMAIN s : s[i] = r
  BY <1>2 DEF Unlink, ToSet
<1>. QED
  BY <1>1, <1>2

-----------------------------------------------------------------------------
(* The thread that works on a request.                                     *)

\* The thread that works on r, or Idle.
Hand(th, r) == IF \E t \in Daemon : th[t].r = r
                 THEN th[CHOOSE t \in Daemon : th[t].r = r]
                 ELSE Idle

\* A request is in one system call at most.
OneHand(th) == \A t, u \in Daemon : th[t].r = th[u].r /\ th[t].r # NoReq => t = u

Copying == {"open", "locked", "paging", "paged", "clearing", "fin"}
InHand(r) == Hand(thread, r).r = r
Pc(r)     == Hand(thread, r).pc

LEMMA HandIs ==
    ASSUME NEW th, OneHand(th), NEW t \in Daemon, NEW r \in Req, th[t].r = r
    PROVE  Hand(th, r) = th[t]
<1>1. \A u \in Daemon : th[u].r = r => u = t
  BY ReqAssumption DEF OneHand
<1>. QED
  BY <1>1 DEF Hand

LEMMA HandNone ==
    ASSUME NEW th, NEW r \in Req, \A t \in Daemon : th[t].r # r
    PROVE  Hand(th, r) = Idle /\ Idle.r # r
  BY ReqAssumption DEF Hand, Idle

\* A thread works on r exactly if r has a hand.
LEMMA HandThere ==
    ASSUME NEW th, OneHand(th), NEW r \in Req
    PROVE  Hand(th, r).r = r <=> \E t \in Daemon : th[t].r = r
<1>1. ASSUME NEW t \in Daemon, th[t].r = r PROVE Hand(th, r).r = r
  BY <1>1, HandIs
<1>2. ASSUME \A t \in Daemon : th[t].r # r PROVE Hand(th, r).r # r
  BY <1>2, HandNone
<1>. QED
  BY <1>1, <1>2

\* A thread takes r, lets go of it or goes on with it; no other request notices.
LEMMA HandSet ==
    ASSUME NEW th \in [Daemon -> ThreadRecord], OneHand(th),
           NEW t \in Daemon, NEW r \in Req, NEW new \in ThreadRecord,
           new.r \in {NoReq, r},
           th[t].r = r \/ (th[t].r = NoReq /\ Hand(th, r).r # r)
    PROVE  LET th2 == [th EXCEPT ![t] = new]
           IN  /\ OneHand(th2)
               /\ Hand(th2, r) = IF new.r = r THEN new ELSE Idle
               /\ \A s \in Req \ {r} : Hand(th2, s) = Hand(th, s)
<1>. DEFINE th2 == [th EXCEPT ![t] = new]
<1>1. th2[t] = new /\ \A u \in Daemon \ {t} : th2[u] = th[u]
  OBVIOUS
<1>2. \A u \in Daemon \ {t} : th[u].r # r
  BY HandThere, ReqAssumption DEF OneHand
<1>. HIDE DEF th2
<1>3. OneHand(th2)
  BY <1>1, <1>2 DEF OneHand
<1>4. Hand(th2, r) = IF new.r = r THEN new ELSE Idle
  <2>1. CASE new.r = r
    BY <1>1, <1>3, <2>1, HandIs
  <2>2. CASE new.r # r
    BY <1>1, <1>2, <2>2, HandNone
  <2>. QED
    BY <2>1, <2>2
<1>5. ASSUME NEW s \in Req \ {r} PROVE Hand(th2, s) = Hand(th, s)
  <2>1. CASE \E u \in Daemon : th[u].r = s
    <3>1. PICK u \in Daemon : th[u].r = s
      BY <2>1
    <3>2. u # t
      BY <3>1, ReqAssumption
    <3>3. Hand(th, s) = th[u] /\ Hand(th2, s) = th2[u]
      BY <1>1, <1>3, <3>1, <3>2, HandIs
    <3>. QED
      BY <1>1, <3>2, <3>3
  <2>2. CASE \A u \in Daemon : th[u].r # s
    <3>1. \A u \in Daemon : th2[u].r # s
      BY <1>1, <2>2, ReqAssumption
    <3>. QED
      BY <2>2, <3>1, HandNone
  <2>. QED
    BY <2>1, <2>2
<1>. QED
  BY <1>3, <1>4, <1>5 DEF th2

\* A thread that has no request at hand goes on without one.
LEMMA HandKept ==
    ASSUME NEW th \in [Daemon -> ThreadRecord], OneHand(th),
           NEW t \in Daemon, NEW new \in ThreadRecord, new.r = NoReq, th[t].r = NoReq
    PROVE  LET th2 == [th EXCEPT ![t] = new]
           IN  OneHand(th2) /\ \A s \in Req : Hand(th2, s) = Hand(th, s)
<1>. DEFINE th2 == [th EXCEPT ![t] = new]
<1>1. th2[t] = new /\ \A u \in Daemon \ {t} : th2[u] = th[u]
  OBVIOUS
<1>. HIDE DEF th2
<1>2. OneHand(th2)
  BY <1>1 DEF OneHand
<1>3. ASSUME NEW s \in Req PROVE Hand(th2, s) = Hand(th, s)
  <2>1. CASE \E u \in Daemon : th[u].r = s
    <3>1. PICK u \in Daemon : th[u].r = s
      BY <2>1
    <3>2. u # t
      BY <3>1, ReqAssumption
    <3>3. Hand(th, s) = th[u] /\ Hand(th2, s) = th2[u]
      BY <1>1, <1>2, <3>1, <3>2, HandIs
    <3>. QED
      BY <1>1, <3>2, <3>3
  <2>2. CASE \A u \in Daemon : th[u].r # s
    <3>1. \A u \in Daemon : th2[u].r # s
      BY <1>1, <2>2, ReqAssumption
    <3>. QED
      BY <2>2, <3>1, HandNone
  <2>. QED
    BY <2>1, <2>2
<1>. QED
  BY <1>2, <1>3 DEF th2

\* A hand is in a system call that works on its request.
LEMMA HandPc ==
    ASSUME TypeOK, OneHand(thread), NEW r \in Req
    PROVE  LET h == Hand(thread, r)
           IN  /\ h \in ThreadRecord
               /\ h.r = r => h.pc \notin {"idle", "getreq"}
               /\ h.r # r => h = Idle /\ h.pc = "idle" /\ ~ h.end
<1>1. ASSUME NEW t \in Daemon, thread[t].r = r
      PROVE  Hand(thread, r) = thread[t] /\ thread[t].pc \notin {"idle", "getreq"}
  BY <1>1, HandIs DEF TypeOK
<1>2. ASSUME \A t \in Daemon : thread[t].r # r
      PROVE  Hand(thread, r) = Idle /\ Idle.r # r
  BY <1>2, HandNone
<1>3. Idle \in ThreadRecord /\ Idle.pc = "idle" /\ ~ Idle.end
  BY DEF Idle, ThreadRecord, ThreadPc
<1>. QED
  BY <1>1, <1>2, <1>3, HandThere DEF TypeOK

-----------------------------------------------------------------------------
(* The invariant about each request.                                       *)

\* The lists r is on, told by its state.
PlaceOK(r) ==
    /\ r \in ToSet(bg_queue) => req[r].state = "INIT" /\ req[r].background /\ caller[r] = "async"
    /\ r \in ToSet(pending) => req[r].state = "PENDING"
    /\ r \in processing <=> req[r].state = "SENT"
    /\ r \in io <=> req[r].state \in {"READING", "WRITING"}
    /\ req[r].state = "INIT" /\ caller[r] = "async" => r \in ToSet(bg_queue)
    /\ req[r].state = "PENDING" => r \in ToSet(pending) \/ caller[r] = "done"
    /\ req[r].state \in {"READING", "SENT", "WRITING"} => Waits(r) \/ caller[r] = "async"
    /\ r \in ToSet(pending) => Waits(r) \/ caller[r] = "async"

\* What the thread that works on r, if any, knows of it.
HandOK(r) ==
    /\ Pc(r) \in Copying => req[r].aborted \/ r \in io
    /\ r \in io => Pc(r) \in Copying
    /\ r \in io => (req[r].state = "READING" <=> Hand(thread, r).op = "read")
    /\ Pc(r) = "end" => req[r].state = "FINISHED"
    /\ Pc(r) = "notify" <=> caller[r] = "retrieve"
    /\ Pc(r) \in Copying \union {"end"} => Waits(r) \/ caller[r] \in {"unlocked", "done", "async"}
    /\ Pc(r) = "locked" => /\ req[r].locked /\ ~ req[r].released
                           /\ req[r].isreply /\ ~ req[r].background
                                => Waits(r) \/ caller[r] = "unlocked"
    /\ Hand(thread, r).end => Pc(r) = "end" /\ ~ req[r].released /\ aborter.r # r

\* What fuse_abort_conn knows of the request it has at hand.
AborterOK(r) == aborter.r = r =>
    /\ req[r].state = "FINISHED"
    /\ Waits(r) \/ caller[r] \in {"unlocked", "done", "async"}
    /\ aborter.pc = "tail" => ~ InHand(r)
    /\ aborter.pc = "ioWait" => req[r].aborted /\ caller[r] = "async"
    /\ aborter.end => ~ req[r].released

\* What the caller's place says of the request.
CallerOK(r) ==
    /\ caller[r] \in {"none", "blocked"} => req[r] = FreeReq /\ ~ InHand(r)
    /\ caller[r] \in {"alloc", "retrieve", "leaked"} =>
           /\ req[r].state = "INIT" /\ ~ req[r].background /\ ~ req[r].isreply
           /\ ~ req[r].interrupted /\ req[r].error = "none"
           /\ caller[r] = "retrieve" <=> InHand(r)
    /\ caller[r] = "alloc" => ~ req[r].end
    /\ caller[r] \in {"ending", "ending_cb"} =>
           /\ req[r].state = "FINISHED" /\ ~ req[r].released /\ ~ InHand(r)
    /\ Waits(r) => req[r].isreply /\ ~ req[r].background /\ req[r].state # "INIT"
    /\ caller[r] = "unlocked" => /\ req[r].isreply /\ ~ req[r].background
                                 /\ req[r].state = "FINISHED"
    /\ caller[r] = "done" =>
           /\ req[r].isreply /\ ~ req[r].background
           /\ req[r].state # "FINISHED" => req[r].error \in Refusals /\ r \notin ToSet(pending)
    /\ caller[r] = "async" => \/ req[r].background \/ ~ req[r].isreply
                              \/ req[r].state = "FINISHED"
    /\ caller[r] = "intr" => ~ req[r].interrupted

\* What the fields of the request say of each other.
FieldsOK(r) ==
    /\ req[r].aborted => req[r].state = "FINISHED"
    /\ req[r].state = "FINISHED" => ~ req[r].end
    /\ req[r].end => caller[r] \in {"async", "retrieve", "leaked"}
    /\ req[r].released => req[r].state = "FINISHED" \/ caller[r] = "leaked"
    /\ req[r].intr_unique # 0 => req[r].interrupted
    /\ r \in ToSet(interrupts) =>
           /\ req[r].interrupted
           /\ \/ req[r].state \in {"SENT", "WRITING"}
              \/ req[r].aborted /\ Pc(r) \in Copying
    /\ req[r].state = "SENT" /\ req[r].interrupted
           => r \in ToSet(interrupts) \/ req[r].intr_unique # 0
    /\ req[r].state = "WRITING" => req[r].error = "answer"
    /\ req[r].state \in {"INIT", "PENDING", "READING", "SENT"} /\ caller[r] # "done"
           => req[r].error = "none"

\* The reference count.
Queue(r) == \/ r \in ToSet(pending) \/ r \in ToSet(bg_queue)
            \/ r \in processing \/ r \in io \/ InHand(r)
            \/ aborter.pc = "tail" /\ aborter.r = r
            \/ caller[r] \in {"alloc", "ending", "ending_cb"}
CountOK(r) ==
    /\ req[r].count = One(CallerRef(r)) + One(Queue(r)) + One(AbortRef(r))
    /\ caller[r] = "async" => req[r].count > 0

Sound(r) == PlaceOK(r) /\ HandOK(r) /\ AborterOK(r) /\ CallerOK(r) /\ FieldsOK(r) /\ CountOK(r)

Lists == IsInjective(pending) /\ IsInjective(bg_queue) /\ IsInjective(interrupts)

OwnerInv == OneHand(thread) /\ Lists /\ \A r \in Req : Sound(r)

\* A request the step has nothing to do with, but that may leave bg_queue for
\* pending when it makes room (flush_bg_queue).
Aside(s) ==
    /\ caller'[s] = caller[s]
    /\ Hand(thread', s) = Hand(thread, s)
    /\ s \in io' <=> s \in io
    /\ s \in processing' <=> s \in processing
    /\ s \in ToSet(interrupts') <=> s \in ToSet(interrupts)
    /\ \/ aborter' = aborter
       \/ aborter.r # s /\ aborter'.r # s
Same(s) ==
    /\ Aside(s) /\ req'[s] = req[s]
    /\ s \in ToSet(pending') <=> s \in ToSet(pending)
    /\ s \in ToSet(bg_queue') <=> s \in ToSet(bg_queue)
Moved(s) ==
    /\ Aside(s) /\ s \in ToSet(bg_queue) /\ s \notin ToSet(bg_queue')
    /\ s \in ToSet(pending')
    /\ \E u \in Nat : req'[s] = Queued(req[s], u, req[s].isreply)

LEMMA SameSound ==
    ASSUME NEW s \in Req, Sound(s), Same(s)
    PROVE  Sound(s)'
<1>. USE DEF Same, Aside, Waits, Pc, InHand
<1>1. PlaceOK(s)'
  BY DEF Sound, PlaceOK
<1>2. HandOK(s)'
  BY DEF Sound, HandOK
<1>3. AborterOK(s)'
  BY DEF Sound, AborterOK
<1>4. CallerOK(s)'
  BY DEF Sound, CallerOK
<1>5. FieldsOK(s)'
  BY DEF Sound, FieldsOK
<1>6. CountOK(s)'
  BY DEF Sound, CountOK, CallerRef, Queue, AbortRef, One
<1>. QED
  BY <1>1, <1>2, <1>3, <1>4, <1>5, <1>6 DEF Sound

LEMMA MovedSound ==
    ASSUME TypeOK, NEW s \in Req, Sound(s), Moved(s)
    PROVE  Sound(s)'
<1>0. PICK u \in Nat : req'[s] = Queued(req[s], u, req[s].isreply)
  BY DEF Moved
<1>1. req[s] \in ReqRecord
  BY DEF TypeOK
<1>2. /\ req'[s].state = "PENDING" /\ req'[s].count = req[s].count
      /\ req'[s].intr_unique = req[s].intr_unique /\ req'[s].isreply = req[s].isreply
      /\ req'[s].background = req[s].background /\ req'[s].locked = req[s].locked
      /\ req'[s].aborted = req[s].aborted /\ req'[s].interrupted = req[s].interrupted
      /\ req'[s].end = req[s].end /\ req'[s].released = req[s].released
      /\ req'[s].error = req[s].error
  BY <1>0, <1>1 DEF Queued, ReqRecord
<1>3. /\ req[s].state = "INIT" /\ req[s].background /\ caller[s] = "async"
      /\ s \in ToSet(bg_queue)
  BY DEF Sound, PlaceOK, Moved
<1>. USE <1>2, <1>3 DEF Moved, Aside, Waits, Pc, InHand
<1>4. PlaceOK(s)'
  BY DEF Sound, PlaceOK
<1>5. HandOK(s)'
  BY DEF Sound, HandOK, PlaceOK
<1>6. AborterOK(s)'
  BY DEF Sound, AborterOK
<1>7. CallerOK(s)'
  BY DEF Sound, CallerOK
<1>8. FieldsOK(s)'
  BY DEF Sound, FieldsOK
<1>9. CountOK(s)'
  <2>1. Queue(s) /\ Queue(s)'
    BY DEF Queue
  <2>. QED
    BY <2>1 DEF Sound, CountOK, CallerRef, AbortRef, One
<1>. QED
  BY <1>4, <1>5, <1>6, <1>7, <1>8, <1>9 DEF Sound

\* A request with nothing left of it.
Nowhere(r) ==
    /\ r \notin ToSet(pending) /\ r \notin ToSet(bg_queue) /\ r \notin processing
    /\ r \notin io /\ r \notin ToSet(interrupts)
    /\ Hand(thread, r) = Idle /\ aborter.r # r
Freed(r) == req[r] = FreeReq /\ caller[r] \in {"none", "blocked"} /\ Nowhere(r)

LEMMA FreedSound ==
    ASSUME NEW r \in Req, Freed(r)'
    PROVE  Sound(r)'
<1>1. Idle.pc = "idle" /\ Idle.r # r /\ ~ Idle.end
  BY ReqAssumption DEF Idle
<1>. USE <1>1 DEF Freed, Nowhere, FreeReq, Waits, Pc, InHand
<1>2. PlaceOK(r)'
  BY DEF PlaceOK
<1>3. HandOK(r)' /\ AborterOK(r)'
  BY DEF HandOK, AborterOK, Copying
<1>4. CallerOK(r)'
  BY DEF CallerOK
<1>5. FieldsOK(r)'
  BY DEF FieldsOK, Refusals
<1>6. CountOK(r)'
  BY DEF CountOK, CallerRef, Queue, AbortRef, One
<1>. QED
  BY <1>2, <1>3, <1>4, <1>5, <1>6 DEF Sound

-----------------------------------------------------------------------------
(* What the steps do that may move background requests.                    *)

\* The requests O go from the lists B, bg_queue, to P, pending.
Moves(O, rq, B, P) ==
    /\ O \subseteq B
    /\ ToSet(bg_queue') = B \ O /\ IsInjective(bg_queue')
    /\ ToSet(pending') = P \union O /\ IsInjective(pending')
    /\ \A s \in Req \ O : req'[s] = rq[s]
    /\ \A s \in O : \E u \in Nat : req'[s] = Queued(rq[s], u, rq[s].isreply)

LEMMA FlushMoves ==
    ASSUME NEW rq \in [Req -> ReqRecord], NEW bgq \in Seq(Req), NEW pend \in Seq(Req),
           NEW active \in Int, NEW max \in Nat, reqctr \in Nat,
           IsInjective(bgq), IsInjective(pend), ToSet(bgq) \cap ToSet(pend) = {},
           flush_bg_queue(rq, bgq, active, pend, max)
    PROVE  \E O : Moves(O, rq, ToSet(bgq), ToSet(pend))
<1>. DEFINE room == IF max > active THEN max - active ELSE 0
            n    == IF room < Len(bgq) THEN room ELSE Len(bgq)
            out  == SubSeq(bgq, 1, n)
            Pos(r) == CHOOSE i \in 1 .. n : out[i] = r
<1>1. n \in 0 .. Len(bgq) /\ n \in Nat
  OBVIOUS
<1>2. pending' = pend \o out /\ bg_queue' = SubSeq(bgq, n + 1, Len(bgq))
  BY DEF flush_bg_queue
<1>3. req' = [r \in Req |-> IF r \in ToSet(out)
                              THEN Queued(rq[r], reqctr + Pos(r), rq[r].isreply)
                              ELSE rq[r]]
  BY DEF flush_bg_queue
<1>. HIDE DEF n
<1>4. /\ out \in Seq(Req) /\ Len(out) = n /\ IsInjective(out) /\ IsInjective(bg_queue')
      /\ ToSet(out) \subseteq ToSet(bgq) /\ ToSet(bg_queue') = ToSet(bgq) \ ToSet(out)
  BY <1>1, <1>2, CutSet
<1>. HIDE DEF out
<1>5. ToSet(pending') = ToSet(pend) \union ToSet(out) /\ IsInjective(pending')
  BY <1>2, <1>4, ConcatSet
<1>6. ASSUME NEW s \in ToSet(out)
      PROVE  \E u \in Nat : req'[s] = Queued(rq[s], u, rq[s].isreply)
  <2>1. s \in Req /\ DOMAIN out = 1 .. n
    BY <1>4 DEF ToSet
  <2>2. Pos(s) \in 1 .. n
    BY <2>1 DEF ToSet
  <2>. HIDE DEF Pos
  <2>3. reqctr + Pos(s) \in Nat
    BY <1>1, <2>2
  <2>4. req'[s] = Queued(rq[s], reqctr + Pos(s), rq[s].isreply)
    BY <1>3, <2>1
  <2>. QED
    BY <2>3, <2>4
<1>7. \A s \in Req \ ToSet(out) : req'[s] = rq[s]
  BY <1>3
<1>8. Moves(ToSet(out), rq, ToSet(bgq), ToSet(pend))
  BY <1>4, <1>5, <1>6, <1>7 DEF Moves
<1>. QED
  BY <1>8

\* The lists are what the states say: nothing is on two of them.
LEMMA Apart ==
    ASSUME TypeOK, OwnerInv
    PROVE  ToSet(bg_queue) \cap ToSet(pending) = {}
<1>. SUFFICES ASSUME NEW s, s \in ToSet(bg_queue), s \in ToSet(pending)
              PROVE  FALSE
  OBVIOUS
<1>1. s \in Req
  BY DEF TypeOK, ToSet
<1>. QED
  BY <1>1 DEF OwnerInv, Sound, PlaceOK

\* What Finished leaves in a request.
LEMMA FinishedFields ==
    ASSUME NEW q \in ReqRecord
    PROVE  LET f == Finished(q)
           IN  /\ f \in ReqRecord
               /\ f.state = "FINISHED" /\ f.count = q.count /\ f.intr_unique = q.intr_unique
               /\ f.isreply = q.isreply /\ f.background = q.background /\ f.locked = q.locked
               /\ f.aborted = q.aborted /\ f.interrupted = q.interrupted
               /\ ~ f.end /\ f.released = q.released /\ f.error = q.error
  BY DEF Finished, ReqRecord

\* request_end of r: it is on no list any more, and the others have at most moved.
LEMMA EndMoves ==
    ASSUME TypeOK, OwnerInv, NEW r \in Req, NEW rq \in [Req -> ReqRecord],
           r \notin ToSet(bg_queue), request_end(r, rq)
    PROVE  /\ io' = io \ {r} /\ processing' = processing \ {r}
           /\ ToSet(interrupts') = ToSet(interrupts) \ {r} /\ IsInjective(interrupts')
           /\ \E O : Moves(O, [rq EXCEPT ![r] = Finished(rq[r])], ToSet(bg_queue),
                           ToSet(pending) \ {r})
<1>. DEFINE ended == [rq EXCEPT ![r] = Finished(rq[r])]
            pend  == Unlink(pending, r)
<1>1. io' = io \ {r} /\ processing' = processing \ {r} /\ interrupts' = Unlink(interrupts, r)
  BY DEF request_end
<1>2. /\ ToSet(interrupts') = ToSet(interrupts) \ {r} /\ IsInjective(interrupts')
      /\ ToSet(pend) = ToSet(pending) \ {r} /\ IsInjective(pend)
  BY <1>1, UnlinkSet DEF OwnerInv, Lists, TypeOK
<1>3. pend \in Seq(Req)
  BY UnlinkType DEF TypeOK
<1>4. ended \in [Req -> ReqRecord]
  <2>1. Finished(rq[r]) \in ReqRecord
    BY FinishedFields
  <2>. QED
    BY <2>1
<1>5. ToSet(bg_queue) \cap ToSet(pend) = {}
  BY <1>2, Apart
<1>6. CASE rq[r].background
  <2>1. flush_bg_queue(ended, bg_queue, active_background - 1, pend, max_background)
    BY <1>6 DEF request_end
  <2>. HIDE DEF ended, pend
  <2>2. /\ bg_queue \in Seq(Req) /\ active_background - 1 \in Int /\ max_background \in Nat
        /\ reqctr \in Nat /\ IsInjective(bg_queue)
    BY DEF TypeOK, OwnerInv, Lists
  <2>3. \E O : Moves(O, ended, ToSet(bg_queue), ToSet(pend))
    BY <1>2, <1>3, <1>4, <1>5, <2>1, <2>2, FlushMoves
  <2>. QED
    BY <1>1, <1>2, <2>3 DEF ended
<1>7. CASE ~ rq[r].background
  <2>1. req' = ended /\ pending' = pend /\ bg_queue' = bg_queue
    BY <1>7 DEF request_end
  <2>. HIDE DEF ended
  <2>2. Moves({}, ended, ToSet(bg_queue), ToSet(pend))
    BY <1>2, <2>1 DEF Moves, OwnerInv, Lists
  <2>. QED
    BY <1>1, <1>2, <2>2 DEF ended
<1>. QED
  BY <1>6, <1>7

\* What every request but r notices of a step that moves the requests O, and what
\* r does.
LEMMA MovesOthers ==
    ASSUME TypeOK, NEW r \in Req, NEW O, NEW rq \in [Req -> ReqRecord], NEW B, NEW P,
           Moves(O, rq, B, P), B \ {r} = ToSet(bg_queue) \ {r}, P \ {r} = ToSet(pending) \ {r},
           \A s \in Req \ {r} : rq[s] = req[s] /\ Aside(s)
    PROVE  \A s \in Req \ {r} : Same(s) \/ Moved(s)
<1>. SUFFICES ASSUME NEW s \in Req \ {r} PROVE Same(s) \/ Moved(s)
  OBVIOUS
<1>1. CASE s \in O
  BY <1>1 DEF Moves, Moved
<1>2. CASE s \notin O
  BY <1>2 DEF Moves, Same
<1>. QED
  BY <1>1, <1>2

\* The invariant is kept when it is kept for the request a step is about.
LEMMA OneStep ==
    ASSUME TypeOK, OwnerInv, NEW r \in Req,
           \A s \in Req \ {r} : Same(s) \/ Moved(s),
           Sound(r)', OneHand(thread'), Lists'
    PROVE  OwnerInv'
<1>1. \A s \in Req \ {r} : Sound(s)'
  BY SameSound, MovedSound DEF OwnerInv
<1>. QED
  BY <1>1 DEF OwnerInv

\* The same for a step that ends r.
LEMMA EndOthers ==
    ASSUME TypeOK, OwnerInv, NEW r \in Req, NEW rq \in [Req -> ReqRecord],
           r \notin ToSet(bg_queue), request_end(r, rq),
           \A s \in Req \ {r} :
              /\ rq[s] = req[s] /\ caller'[s] = caller[s]
              /\ Hand(thread', s) = Hand(thread, s)
              /\ aborter' = aborter \/ (aborter.r # s /\ aborter'.r # s)
    PROVE  /\ req'[r] = Finished(rq[r])
           /\ r \notin ToSet(pending') /\ r \notin ToSet(bg_queue') /\ r \notin processing'
           /\ r \notin io' /\ r \notin ToSet(interrupts')
           /\ Lists'
           /\ \A s \in Req \ {r} : Same(s) \/ Moved(s)
<1>. DEFINE ended == [rq EXCEPT ![r] = Finished(rq[r])]
<1>1. /\ io' = io \ {r} /\ processing' = processing \ {r}
      /\ ToSet(interrupts') = ToSet(interrupts) \ {r} /\ IsInjective(interrupts')
      /\ \E O : Moves(O, ended, ToSet(bg_queue), ToSet(pending) \ {r})
  BY EndMoves
<1>2. PICK O : Moves(O, ended, ToSet(bg_queue), ToSet(pending) \ {r})
  BY <1>1
<1>3. Finished(rq[r]) \in ReqRecord
  BY FinishedFields
<1>4. /\ ended \in [Req -> ReqRecord] /\ ended[r] = Finished(rq[r])
      /\ \A s \in Req \ {r} : ended[s] = req[s] /\ Aside(s)
  BY <1>1, <1>3 DEF Aside
<1>. HIDE DEF ended
<1>5. r \notin O
  BY <1>2 DEF Moves
<1>6. req'[r] = Finished(rq[r])
  BY <1>2, <1>4, <1>5 DEF Moves
<1>7. \A s \in Req \ {r} : Same(s) \/ Moved(s)
  <2>1. (ToSet(pending) \ {r}) \ {r} = ToSet(pending) \ {r}
    OBVIOUS
  <2>. QED
    BY <1>2, <1>4, <2>1, MovesOthers
<1>8. r \notin ToSet(pending') /\ r \notin ToSet(bg_queue')
  BY <1>2, <1>5 DEF Moves
<1>9. Lists'
  BY <1>1, <1>2 DEF Lists, Moves
<1>. QED
  BY <1>1, <1>6, <1>7, <1>8, <1>9

-----------------------------------------------------------------------------
(* Steps of the callers.                                                   *)

\* A step that changes nothing but the request r and its caller.
LEMMA RecordOnly ==
    ASSUME TypeOK, OwnerInv, NEW r \in Req,
           \A s \in Req \ {r} : req'[s] = req[s] /\ caller'[s] = caller[s],
           UNCHANGED <<thread, lists, aborter>>, Sound(r)'
    PROVE  OwnerInv'
<1>. USE DEF lists
<1>1. \A s \in Req \ {r} : Same(s)
  BY DEF Same, Aside
<1>2. OneHand(thread') /\ Lists'
  BY DEF OwnerInv, Lists
<1>. QED
  BY <1>1, <1>2, OneStep

LEMMA GetReqOwner ==
    ASSUME TypeOK, OwnerInv, NEW r \in Req, GetReq(r) \/ GetReqFail(r)
    PROVE  OwnerInv'
<1>1. /\ caller[r] \in {"none", "blocked"} /\ caller'[r] \in {"none", "blocked"}
      /\ \A s \in Req \ {r} : caller'[s] = caller[s]
      /\ UNCHANGED <<req, thread, lists, aborter>>
  BY DEF GetReq, GetReqFail, TypeOK
<1>2. Sound(r)
  BY DEF OwnerInv
<1>. USE <1>1, <1>2 DEF Sound, lists, Waits, Pc, InHand
<1>3. PlaceOK(r)'
  BY DEF PlaceOK, CallerOK, FreeReq
<1>4. HandOK(r)'
  BY DEF HandOK, CallerOK, FreeReq
<1>5. AborterOK(r)'
  BY DEF AborterOK
<1>6. CallerOK(r)'
  BY DEF CallerOK
<1>7. FieldsOK(r)'
  BY DEF FieldsOK, CallerOK, FreeReq
<1>8. CountOK(r)'
  BY DEF CountOK, CallerRef, Queue, AbortRef, One
<1>9. Sound(r)'
  BY <1>3, <1>4, <1>5, <1>6, <1>7, <1>8
<1>. QED
  BY <1>9, RecordOnly

\* What fuse_request_init leaves in a request.
LEMMA NewFields ==
    LET q == fuse_request_init
    IN  /\ q \in ReqRecord
        /\ q.state = "INIT" /\ q.count = 1 /\ q.intr_unique = 0
        /\ ~ q.isreply /\ ~ q.background /\ ~ q.aborted /\ ~ q.locked
        /\ ~ q.interrupted /\ ~ q.end /\ ~ q.released /\ q.error = "none"
<1>1. FreeReq \in ReqRecord
  BY DEF FreeReq, ReqRecord, Errors
<1>2. /\ FreeReq.state = "INIT" /\ FreeReq.intr_unique = 0
      /\ ~ FreeReq.isreply /\ ~ FreeReq.background /\ ~ FreeReq.aborted
      /\ ~ FreeReq.locked /\ ~ FreeReq.interrupted /\ ~ FreeReq.end
      /\ ~ FreeReq.released /\ FreeReq.error = "none"
  BY DEF FreeReq
<1>. QED
  BY <1>1, <1>2 DEF fuse_request_init, ReqRecord

\* A new request is its caller's only.
LEMMA AllocOwner ==
    ASSUME TypeOK, OwnerInv, NEW r \in Req, GetReqDone(r) \/ RequestAlloc(r)
    PROVE  OwnerInv'
<1>1. /\ caller[r] \in {"none", "blocked"} /\ caller'[r] = "alloc"
      /\ \A s \in Req \ {r} : req'[s] = req[s] /\ caller'[s] = caller[s]
      /\ UNCHANGED <<thread, lists, aborter>>
  BY DEF GetReqDone, RequestAlloc, TypeOK
<1>2. Sound(r)
  BY DEF OwnerInv
<1>3. /\ req'[r].state = "INIT" /\ req'[r].count = 1 /\ req'[r].intr_unique = 0
      /\ ~ req'[r].isreply /\ ~ req'[r].background /\ ~ req'[r].aborted
      /\ ~ req'[r].interrupted /\ ~ req'[r].end /\ ~ req'[r].released
      /\ req'[r].error = "none"
  <2>1. CASE GetReqDone(r)
    <3>1. PICK f \in BOOLEAN :
              req'[r] = [fuse_request_init EXCEPT !.waiting = TRUE, !.force = f]
      BY <2>1 DEF GetReqDone, TypeOK
    <3>. QED
      BY <3>1, NewFields DEF ReqRecord
  <2>2. CASE RequestAlloc(r)
    BY <2>2, NewFields DEF RequestAlloc, TypeOK
  <2>. QED
    BY <2>1, <2>2
<1>4. req[r] = FreeReq /\ ~ InHand(r) /\ aborter.r # r
  BY <1>1, <1>2 DEF Sound, CallerOK, AborterOK, FreeReq, Waits
<1>. USE <1>1, <1>2, <1>3, <1>4 DEF Sound, lists, Waits, Pc, InHand
<1>5. /\ r \notin ToSet(pending) /\ r \notin ToSet(bg_queue) /\ r \notin processing
      /\ r \notin io /\ r \notin ToSet(interrupts)
      /\ Pc(r) = "idle" /\ ~ Hand(thread, r).end
  BY HandPc DEF PlaceOK, FieldsOK, FreeReq, OwnerInv
<1>6. PlaceOK(r)'
  BY <1>5 DEF PlaceOK
<1>7. HandOK(r)'
  BY <1>5 DEF HandOK
<1>8. AborterOK(r)'
  BY DEF AborterOK
<1>9. CallerOK(r)'
  BY DEF CallerOK
<1>10. FieldsOK(r)'
  BY <1>5 DEF FieldsOK, Refusals
<1>11. CountOK(r)'
  BY DEF CountOK, CallerRef, Queue, AbortRef, One
<1>12. Sound(r)'
  BY <1>6, <1>7, <1>8, <1>9, <1>10, <1>11
<1>. QED
  BY <1>12, RecordOnly

LEMMA RefusedOwner ==
    ASSUME TypeOK, OwnerInv, NEW r \in Req, RequestRefused(r)
    PROVE  OwnerInv'
<1>1. /\ caller[r] = "alloc" /\ caller'[r] = "done"
      /\ \A s \in Req \ {r} : req'[s] = req[s] /\ caller'[s] = caller[s]
      /\ UNCHANGED <<thread, lists, aborter>>
  BY DEF RequestRefused, TypeOK
<1>2. Sound(r)
  BY DEF OwnerInv
<1>3. req[r] \in ReqRecord
  BY DEF TypeOK
<1>4. /\ req'[r].state = req[r].state /\ req'[r].count = req[r].count
      /\ req'[r].intr_unique = req[r].intr_unique
      /\ req'[r].isreply /\ req'[r].background = req[r].background
      /\ req'[r].aborted = req[r].aborted /\ req'[r].interrupted = req[r].interrupted
      /\ req'[r].end = req[r].end /\ req'[r].released = req[r].released
      /\ req'[r].error \in Refusals
  <2>1. PICK e \in Refusals : req'[r] = [req[r] EXCEPT !.isreply = TRUE, !.error = e]
    BY DEF RequestRefused, TypeOK, Refusals
  <2>. QED
    BY <1>3, <2>1 DEF ReqRecord
<1>. USE <1>1, <1>2, <1>4 DEF Sound, lists, Waits, Pc, InHand
<1>5. /\ r \notin ToSet(pending) /\ r \notin ToSet(bg_queue) /\ r \notin processing
      /\ r \notin io /\ r \notin ToSet(interrupts) /\ ~ InHand(r) /\ aborter.r # r
      /\ Pc(r) = "idle" /\ ~ Hand(thread, r).end
  BY HandPc DEF PlaceOK, FieldsOK, CallerOK, AborterOK, OwnerInv
<1>6. PlaceOK(r)'
  BY <1>5 DEF PlaceOK, CallerOK
<1>7. HandOK(r)'
  BY <1>5 DEF HandOK
<1>8. AborterOK(r)'
  BY <1>5 DEF AborterOK
<1>9. CallerOK(r)'
  BY <1>5 DEF CallerOK
<1>10. FieldsOK(r)'
  BY <1>5 DEF FieldsOK, CallerOK, PlaceOK
<1>11. CountOK(r)'
  BY <1>5 DEF CountOK, CallerRef, Queue, AbortRef, One
<1>12. Sound(r)'
  BY <1>6, <1>7, <1>8, <1>9, <1>10, <1>11
<1>. QED
  BY <1>12, RecordOnly

\* A request that is sent and waited for is on pending.
LEMMA SendOwner ==
    ASSUME TypeOK, OwnerInv, NEW r \in Req, RequestSend(r)
    PROVE  OwnerInv'
<1>1. /\ caller[r] = "alloc" /\ caller'[r] \in {"intr", "fatal", "answer"}
      /\ \A s \in Req \ {r} : req'[s] = req[s] /\ caller'[s] = caller[s]
      /\ pending' = Append(pending, r)
      /\ UNCHANGED <<thread, bg_queue, interrupts, io, processing, aborter>>
  BY DEF RequestSend, FirstWait, FatalWait, TypeOK
<1>2. Sound(r)
  BY DEF OwnerInv
<1>3. req[r] \in ReqRecord
  BY DEF TypeOK
<1>4. /\ req'[r].state = "PENDING" /\ req'[r].count = req[r].count + 1
      /\ req'[r].intr_unique = req[r].intr_unique
      /\ req'[r].isreply /\ req'[r].background = req[r].background
      /\ req'[r].aborted = req[r].aborted /\ req'[r].interrupted = req[r].interrupted
      /\ req'[r].end = req[r].end /\ req'[r].released = req[r].released
      /\ req'[r].error = req[r].error
  <2>1. req'[r] = get_request(Queued(req[r], reqctr + 1, TRUE))
    BY DEF RequestSend, TypeOK
  <2>2. reqctr + 1 \in Nat
    BY DEF TypeOK
  <2>3. Queued(req[r], reqctr + 1, TRUE) \in ReqRecord
    BY <1>3, <2>2, RecordTypes
  <2>. QED
    BY <1>3, <2>1, <2>2, <2>3 DEF get_request, Queued, ReqRecord
<1>. USE <1>1, <1>2, <1>4 DEF Sound, Waits, Pc, InHand
<1>5. /\ r \notin ToSet(pending) /\ r \notin ToSet(bg_queue) /\ r \notin processing
      /\ r \notin io /\ r \notin ToSet(interrupts) /\ ~ InHand(r) /\ aborter.r # r
      /\ Pc(r) = "idle" /\ ~ Hand(thread, r).end
  BY HandPc DEF PlaceOK, FieldsOK, CallerOK, AborterOK, OwnerInv
<1>6. ToSet(pending') = ToSet(pending) \union {r} /\ IsInjective(pending')
  BY <1>5, AppendSet DEF TypeOK, OwnerInv, Lists
<1>7. PlaceOK(r)'
  BY <1>5, <1>6 DEF PlaceOK
<1>8. HandOK(r)'
  BY <1>5, <1>6 DEF HandOK
<1>9. AborterOK(r)'
  BY <1>5 DEF AborterOK
<1>10. CallerOK(r)'
  BY <1>5 DEF CallerOK
<1>11. FieldsOK(r)'
  BY <1>5, <1>6 DEF FieldsOK, CallerOK
<1>12. CountOK(r)'
  BY <1>5, <1>6 DEF CountOK, CallerRef, Queue, AbortRef, One
<1>13. Sound(r)'
  BY <1>7, <1>8, <1>9, <1>10, <1>11, <1>12
<1>14. \A s \in Req \ {r} : Same(s)
  BY <1>6 DEF Same, Aside
<1>. QED
  BY <1>6, <1>13, <1>14, OneStep DEF OwnerInv, Lists

\* A background request is queued, or ended when the connection is down.
LEMMA SendBackgroundOwner ==
    ASSUME TypeOK, TypeOK', OwnerInv, NEW r \in Req, RequestSendBackground(r)
    PROVE  OwnerInv'
<1>1. PICK end \in BOOLEAN :
        LET q == [req[r] EXCEPT !.isreply = TRUE, !.end = end]
        IN \/ /\ connected
              /\ send_nowait_locked(r, q)
              /\ caller' = [caller EXCEPT ![r] = "async"]
           \/ /\ ~ connected
              /\ request_end(r, [req EXCEPT ![r] = [q EXCEPT !.error = "ENOTCONN"]])
              /\ caller' = [caller EXCEPT ![r] = IF end THEN "ending_cb" ELSE "ending"]
  BY DEF RequestSendBackground
<1>. DEFINE q == [req[r] EXCEPT !.isreply = TRUE, !.end = end]
<1>2. caller[r] = "alloc" /\ UNCHANGED <<thread, aborter>>
  BY DEF RequestSendBackground
<1>3. Sound(r) /\ req[r] \in ReqRecord
  BY DEF OwnerInv, TypeOK
<1>4. /\ q \in ReqRecord /\ q.state = req[r].state /\ q.count = req[r].count
      /\ q.intr_unique = req[r].intr_unique /\ q.isreply /\ q.end = end
      /\ q.background = req[r].background
      /\ q.aborted = req[r].aborted /\ q.interrupted = req[r].interrupted
      /\ q.released = req[r].released /\ q.error = req[r].error
  BY <1>3 DEF ReqRecord
<1>. HIDE DEF q
<1>. USE <1>2, <1>3 DEF Sound, Waits, Pc, InHand
<1>5. /\ r \notin ToSet(pending) /\ r \notin ToSet(bg_queue) /\ r \notin processing
      /\ r \notin io /\ r \notin ToSet(interrupts) /\ ~ InHand(r) /\ aborter.r # r
      /\ Pc(r) = "idle" /\ ~ Hand(thread, r).end
  BY HandPc DEF PlaceOK, FieldsOK, CallerOK, AborterOK, OwnerInv
<1>6. req[r].count = 1
  BY <1>5 DEF CountOK, CallerRef, Queue, AbortRef, One
<1>7. CASE connected
  <2>1. /\ flush_bg_queue([req EXCEPT ![r] = Background(q)], Append(bg_queue, r),
                          active_background, pending, max_background)
        /\ caller' = [caller EXCEPT ![r] = "async"]
        /\ UNCHANGED <<interrupts, io, processing>>
    BY <1>1, <1>7 DEF send_nowait_locked, q
  <2>. DEFINE rq == [req EXCEPT ![r] = Background(q)]
  <2>2. Background(q) \in ReqRecord
    BY <1>4, RecordTypes
  <2>3. rq \in [Req -> ReqRecord] /\ rq[r] = Background(q) /\ \A s \in Req \ {r} : rq[s] = req[s]
    BY <2>2 DEF TypeOK
  <2>4. /\ Append(bg_queue, r) \in Seq(Req) /\ IsInjective(Append(bg_queue, r))
        /\ ToSet(Append(bg_queue, r)) = ToSet(bg_queue) \union {r}
    BY <1>5, AppendSet DEF TypeOK, OwnerInv, Lists
  <2>5. ToSet(Append(bg_queue, r)) \cap ToSet(pending) = {}
    BY <1>5, <2>4, Apart
  <2>. HIDE DEF rq
  <2>6. PICK O : Moves(O, rq, ToSet(Append(bg_queue, r)), ToSet(pending))
    <3>1. /\ pending \in Seq(Req) /\ active_background \in Int /\ max_background \in Nat
          /\ reqctr \in Nat /\ IsInjective(pending)
      BY DEF TypeOK, OwnerInv, Lists
    <3>. QED
      BY <2>1, <2>3, <2>4, <2>5, <3>1, FlushMoves DEF rq
  <2>7. caller'[r] = "async" /\ \A s \in Req \ {r} : caller'[s] = caller[s]
    BY <2>1 DEF TypeOK
  <2>8. \A s \in Req \ {r} : Same(s) \/ Moved(s)
    <3>1. \A s \in Req \ {r} : Aside(s)
      BY <2>1, <2>7 DEF Aside
    <3>2. /\ ToSet(Append(bg_queue, r)) \ {r} = ToSet(bg_queue) \ {r}
          /\ \A s \in Req \ {r} : rq[s] = req[s] /\ Aside(s)
      BY <2>3, <2>4, <3>1
    <3>. QED
      BY <2>3, <2>6, <3>2, MovesOthers
  <2>9. /\ req'[r].count = 1 /\ req'[r].intr_unique = req[r].intr_unique
        /\ req'[r].background /\ req'[r].isreply
        /\ req'[r].aborted = req[r].aborted /\ req'[r].interrupted = req[r].interrupted
        /\ req'[r].released = req[r].released /\ req'[r].error = req[r].error
        /\ req'[r].state = IF r \in O THEN "PENDING" ELSE "INIT"
    <3>1. /\ Background(q).background /\ Background(q).isreply
          /\ Background(q).state = "INIT" /\ Background(q).count = 1
          /\ Background(q).intr_unique = req[r].intr_unique
          /\ Background(q).aborted = req[r].aborted
          /\ Background(q).interrupted = req[r].interrupted
          /\ Background(q).released = req[r].released /\ Background(q).error = req[r].error
      BY <1>4, <1>6 DEF Background, ReqRecord, CallerOK
    <3>2. CASE r \in O
      <4>1. PICK u \in Nat : req'[r] = Queued(Background(q), u, Background(q).isreply)
        BY <2>3, <2>6, <3>2 DEF Moves
      <4>. QED
        BY <2>2, <3>1, <3>2, <4>1 DEF Queued, ReqRecord
    <3>3. CASE r \notin O
      BY <2>3, <2>6, <3>1, <3>3 DEF Moves
    <3>. QED
      BY <3>2, <3>3
  <2>10. /\ r \in ToSet(pending') <=> r \in O
         /\ r \in ToSet(bg_queue') <=> r \notin O
    BY <1>5, <2>4, <2>6 DEF Moves
  <2>. USE <1>5, <2>1, <2>7, <2>9, <2>10
  <2>11. PlaceOK(r)'
    BY DEF PlaceOK
  <2>12. HandOK(r)' /\ AborterOK(r)'
    BY DEF HandOK, AborterOK
  <2>13. CallerOK(r)'
    BY DEF CallerOK
  <2>14. FieldsOK(r)'
    BY DEF FieldsOK, CallerOK, Refusals
  <2>15. CountOK(r)'
    BY DEF CountOK, CallerRef, Queue, AbortRef, One
  <2>16. Sound(r)'
    BY <2>11, <2>12, <2>13, <2>14, <2>15
  <2>17. OneHand(thread') /\ Lists'
    BY <2>1, <2>6 DEF OwnerInv, Lists, Moves
  <2>. QED
    BY <2>8, <2>16, <2>17, OneStep
<1>8. CASE ~ connected
  <2>. DEFINE e  == [q EXCEPT !.error = "ENOTCONN"]
              rq == [req EXCEPT ![r] = e]
  <2>1. request_end(r, rq) /\ caller' = [caller EXCEPT ![r] = IF end THEN "ending_cb" ELSE "ending"]
    BY <1>1, <1>8 DEF q
  <2>2. e \in ReqRecord /\ e.count = 1
        /\ e.intr_unique = req[r].intr_unique /\ e.aborted = req[r].aborted
        /\ e.released = req[r].released /\ e.interrupted = req[r].interrupted
    BY <1>4, <1>6 DEF ReqRecord, Errors
  <2>. HIDE DEF e
  <2>3. rq \in [Req -> ReqRecord] /\ rq[r] = e /\ \A s \in Req \ {r} : rq[s] = req[s]
    BY <2>2 DEF TypeOK
  <2>. HIDE DEF rq
  <2>4. caller'[r] \in {"ending", "ending_cb"} /\ \A s \in Req \ {r} : caller'[s] = caller[s]
    BY <2>1 DEF TypeOK
  <2>5. /\ req'[r] = Finished(e)
        /\ r \notin ToSet(pending') /\ r \notin ToSet(bg_queue') /\ r \notin processing'
        /\ r \notin io' /\ r \notin ToSet(interrupts')
        /\ Lists'
        /\ \A s \in Req \ {r} : Same(s) \/ Moved(s)
    BY <1>5, <2>1, <2>3, <2>4, EndOthers
  <2>6. /\ req'[r].state = "FINISHED" /\ req'[r].count = 1
        /\ req'[r].intr_unique = req[r].intr_unique
        /\ req'[r].aborted = req[r].aborted /\ req'[r].interrupted = req[r].interrupted
        /\ ~ req'[r].end /\ req'[r].released = req[r].released
    BY <2>2, <2>5, FinishedFields
  <2>. USE <1>5, <2>4, <2>5, <2>6
  <2>7. PlaceOK(r)'
    BY DEF PlaceOK
  <2>8. HandOK(r)' /\ AborterOK(r)'
    BY DEF HandOK, AborterOK
  <2>9. CallerOK(r)'
    BY DEF CallerOK, FieldsOK
  <2>10. FieldsOK(r)'
    BY DEF FieldsOK
  <2>11. CountOK(r)'
    BY DEF CountOK, CallerRef, Queue, AbortRef, One
  <2>12. Sound(r)'
    BY <2>7, <2>8, <2>9, <2>10, <2>11
  <2>. QED
    BY <2>12, OneStep DEF OwnerInv
<1>. QED
  BY <1>7, <1>8, ZenonT(60)

\* What fuse_put_request makes of the object q: it frees it with the last
\* reference, and else only counts down.
LEMMA PutFields ==
    ASSUME NEW q \in ReqRecord
    PROVE  /\ q.count = 1 => Put(q) = FreeReq
           /\ q.count # 1 =>
                LET p == Put(q)
                IN  /\ p.state = q.state /\ p.count = q.count - 1
                    /\ p.intr_unique = q.intr_unique /\ p.isreply = q.isreply
                    /\ p.background = q.background /\ p.locked = q.locked
                    /\ p.aborted = q.aborted /\ p.interrupted = q.interrupted
                    /\ p.end = q.end /\ p.released = q.released /\ p.error = q.error
<1>1. CASE q.count = 1
  BY <1>1 DEF Put
<1>2. CASE q.count # 1
  <2>1. Put(q) = [q EXCEPT !.count = q.count - 1] /\ q.count - 1 \in Int
    BY <1>2 DEF Put, ReqRecord
  <2>. QED
    BY <1>2, <2>1 DEF ReqRecord
<1>. QED
  BY <1>1, <1>2

\* What request_end leaves to do after the lock: the reference of the queues goes,
\* and with it the request unless its caller or fuse_abort_conn holds it.
LEMMA PutEffect ==
    ASSUME TypeOK, NEW r \in Req, NEW end \in BOOLEAN, request_end_unlocked(r, end)
    PROVE  /\ \A s \in Req \ {r} : req'[s] = req[s] /\ caller'[s] = caller[s]
           /\ req[r].count = 1 => req'[r] = FreeReq /\ caller'[r] = "none"
           /\ req[r].count # 1 =>
                /\ caller'[r] = caller[r]
                /\ req'[r].count = req[r].count - 1
                /\ req'[r].released <=> req[r].released \/ end
                /\ req'[r].state = req[r].state
                /\ req'[r].intr_unique = req[r].intr_unique
                /\ req'[r].isreply = req[r].isreply
                /\ req'[r].background = req[r].background
                /\ req'[r].locked = req[r].locked /\ req'[r].aborted = req[r].aborted
                /\ req'[r].interrupted = req[r].interrupted
                /\ req'[r].end = req[r].end /\ req'[r].error = req[r].error
<1>. DEFINE q == IF end THEN [req[r] EXCEPT !.released = TRUE] ELSE req[r]
<1>1. /\ req' = [req EXCEPT ![r] = Put(q)]
      /\ caller' = [caller EXCEPT ![r] = IF q.count = 1 THEN "none" ELSE @]
  BY DEF request_end_unlocked
<1>2. req[r] \in ReqRecord
  BY DEF TypeOK
<1>3. /\ q \in ReqRecord /\ q.count = req[r].count /\ (q.released <=> req[r].released \/ end)
      /\ q.state = req[r].state /\ q.intr_unique = req[r].intr_unique
      /\ q.isreply = req[r].isreply /\ q.background = req[r].background
      /\ q.locked = req[r].locked /\ q.aborted = req[r].aborted
      /\ q.interrupted = req[r].interrupted /\ q.end = req[r].end
      /\ q.error = req[r].error
  <2>1. CASE end
    BY <1>2, <2>1 DEF ReqRecord
  <2>2. CASE ~ end
    BY <1>2, <2>2
  <2>. QED
    BY <2>1, <2>2
<1>. HIDE DEF q
<1>4. /\ req'[r] = Put(q) /\ caller'[r] = IF q.count = 1 THEN "none" ELSE caller[r]
      /\ \A s \in Req \ {r} : req'[s] = req[s] /\ caller'[s] = caller[s]
  BY <1>1 DEF TypeOK
<1>5. CASE q.count = 1
  <2>1. Put(q) = FreeReq
    BY <1>3, <1>5, PutFields
  <2>. QED
    BY <1>3, <1>4, <1>5, <2>1
<1>6. CASE q.count # 1
  <2>. DEFINE p == Put(q)
  <2>1. /\ p.state = q.state /\ p.count = q.count - 1
        /\ p.intr_unique = q.intr_unique /\ p.isreply = q.isreply
        /\ p.background = q.background /\ p.locked = q.locked
        /\ p.aborted = q.aborted /\ p.interrupted = q.interrupted
        /\ p.end = q.end /\ p.released = q.released /\ p.error = q.error
    BY <1>3, <1>6, PutFields
  <2>2. req'[r] = p /\ caller'[r] = caller[r]
    BY <1>4, <1>6
  <2>. HIDE DEF p
  <2>. QED
    BY <1>3, <1>4, <1>6, <2>1, <2>2
<1>. QED
  BY <1>5, <1>6

\* request_end after the lock, of a request that fuse_request_send_background ended.
LEMMA SendEndOwner ==
    ASSUME TypeOK, OwnerInv, NEW r \in Req, SendEndUnlocked(r)
    PROVE  OwnerInv'
<1>1. /\ caller[r] \in {"ending", "ending_cb"}
      /\ request_end_unlocked(r, caller[r] = "ending_cb")
      /\ UNCHANGED <<thread, lists, aborter>>
  BY DEF SendEndUnlocked
<1>2. Sound(r)
  BY DEF OwnerInv
<1>. USE <1>1, <1>2 DEF Sound, lists, Waits, Pc, InHand
<1>3. /\ r \notin ToSet(pending) /\ r \notin ToSet(bg_queue) /\ r \notin processing
      /\ r \notin io /\ r \notin ToSet(interrupts) /\ ~ InHand(r) /\ aborter.r # r
      /\ Pc(r) = "idle" /\ ~ Hand(thread, r).end
  BY HandPc DEF PlaceOK, FieldsOK, CallerOK, AborterOK, OwnerInv, Copying
<1>4. req[r].count = 1
  BY <1>3 DEF CountOK, CallerRef, Queue, AbortRef, One
<1>5. /\ \A s \in Req \ {r} : req'[s] = req[s] /\ caller'[s] = caller[s]
      /\ req'[r] = FreeReq /\ caller'[r] = "none"
  <2>1. (caller[r] = "ending_cb") \in BOOLEAN
    OBVIOUS
  <2>. QED
    BY <1>4, <2>1, PutEffect
<1>6. Hand(thread, r) = Idle
  BY <1>3, HandPc DEF OwnerInv
<1>7. Freed(r)'
  BY <1>3, <1>5, <1>6 DEF Freed, Nowhere
<1>8. Sound(r)'
  BY <1>7, FreedSound
<1>. QED
  BY <1>5, <1>8, RecordOnly

\* The caller sleeps, wakes up and goes on; one whose request was aborted under a
\* copy waits until the copying thread has let go of the data.
LEMMA WaitOwner ==
    ASSUME TypeOK, OwnerInv, NEW r \in Req, Sleep(r) \/ WaitDone(r) \/ WaitUnlocked(r)
    PROVE  OwnerInv'
<1>1. /\ UNCHANGED <<req, thread, lists, aborter>>
      /\ \A s \in Req \ {r} : caller'[s] = caller[s]
      /\ \/ caller'[r] = caller[r]
         \/ /\ Waits(r) /\ req[r].state = "FINISHED"
            /\ \/ caller'[r] = "unlocked" /\ req[r].aborted
               \/ caller'[r] = "done" /\ ~ (req[r].aborted /\ req[r].locked)
         \/ caller[r] = "unlocked" /\ caller'[r] = "done" /\ ~ req[r].locked
  BY DEF Sleep, WaitDone, WaitUnlocked, WaitOver, Waits, TypeOK
<1>2. Sound(r)
  BY DEF OwnerInv
<1>. USE <1>1, <1>2 DEF Sound, lists, Waits, Pc, InHand
<1>3. PlaceOK(r)'
  BY DEF PlaceOK, CallerOK
<1>4. HandOK(r)'
  BY DEF HandOK, PlaceOK, Copying
<1>5. AborterOK(r)'
  BY DEF AborterOK
<1>6. CallerOK(r)'
  BY DEF CallerOK
<1>7. FieldsOK(r)'
  BY DEF FieldsOK
<1>8. CountOK(r)'
  BY DEF CountOK, CallerRef, Queue, AbortRef, One
<1>9. Sound(r)'
  BY <1>3, <1>4, <1>5, <1>6, <1>7, <1>8
<1>. QED
  BY <1>9, RecordOnly

\* A signal before the daemon has the request, or while it has it.
LEMMA InterruptedOwner ==
    ASSUME TypeOK, OwnerInv, NEW r \in Req, WaitInterrupted(r)
    PROVE  OwnerInv'
<1>1. /\ caller[r] = "intr" /\ caller'[r] \in {"fatal", "answer"}
      /\ \A s \in Req \ {r} : req'[s] = req[s] /\ caller'[s] = caller[s]
      /\ interrupts' = IF req[r].state = "SENT" THEN Append(interrupts, r) ELSE interrupts
      /\ UNCHANGED <<thread, pending, bg_queue, io, processing, aborter>>
  BY DEF WaitInterrupted, FatalWait, TypeOK
<1>2. Sound(r)
  BY DEF OwnerInv
<1>3. req[r] \in ReqRecord
  BY DEF TypeOK
<1>4. /\ req'[r].interrupted
      /\ req'[r].state = req[r].state /\ req'[r].count = req[r].count
      /\ req'[r].intr_unique = req[r].intr_unique /\ req'[r].isreply = req[r].isreply
      /\ req'[r].background = req[r].background /\ req'[r].locked = req[r].locked
      /\ req'[r].aborted = req[r].aborted
      /\ req'[r].end = req[r].end /\ req'[r].released = req[r].released
      /\ req'[r].error = req[r].error
  <2>1. req'[r] = [req[r] EXCEPT !.interrupted = TRUE]
    BY DEF WaitInterrupted, TypeOK
  <2>. QED
    BY <1>3, <2>1 DEF ReqRecord
<1>. USE <1>1, <1>2, <1>4 DEF Sound, Waits, Pc, InHand
<1>5. r \notin ToSet(interrupts)
  BY DEF FieldsOK, CallerOK
<1>6. /\ ToSet(interrupts') = IF req[r].state = "SENT" THEN ToSet(interrupts) \union {r}
                                                     ELSE ToSet(interrupts)
      /\ IsInjective(interrupts')
  <2>1. interrupts \in Seq(Req) /\ IsInjective(interrupts)
    BY DEF TypeOK, OwnerInv, Lists
  <2>2. CASE req[r].state = "SENT"
    BY <1>5, <2>1, <2>2, AppendSet
  <2>3. CASE req[r].state # "SENT"
    BY <2>1, <2>3
  <2>. QED
    BY <2>2, <2>3
<1>7. PlaceOK(r)'
  BY DEF PlaceOK
<1>8. HandOK(r)' /\ AborterOK(r)'
  BY DEF HandOK, AborterOK
<1>9. CallerOK(r)'
  BY DEF CallerOK
<1>10. FieldsOK(r)'
  BY <1>5, <1>6 DEF FieldsOK
<1>11. CountOK(r)'
  BY DEF CountOK, CallerRef, Queue, AbortRef, One
<1>12. Sound(r)'
  BY <1>7, <1>8, <1>9, <1>10, <1>11
<1>13. \A s \in Req \ {r} : Same(s)
  BY <1>6 DEF Same, Aside
<1>. QED
  BY <1>6, <1>12, <1>13, OneStep DEF OwnerInv, Lists

\* A request that is taken back from pending is its caller's again.
LEMMA KilledOwner ==
    ASSUME TypeOK, OwnerInv, NEW r \in Req, WaitKilled(r)
    PROVE  OwnerInv'
<1>1. /\ caller[r] = "fatal"
      /\ UNCHANGED <<thread, bg_queue, interrupts, io, processing, aborter>>
  BY DEF WaitKilled
<1>2. Sound(r) /\ req[r] \in ReqRecord
  BY DEF OwnerInv, TypeOK
<1>. USE <1>1, <1>2 DEF Sound, Waits, Pc, InHand
<1>3. CASE NotRead(r)
  <2>1. /\ req[r].state = "PENDING" /\ pending' = Unlink(pending, r)
        /\ req' = [req EXCEPT ![r] = [req[r] EXCEPT !.count = req[r].count - 1,
                                                    !.error = "EINTR"]]
        /\ caller' = [caller EXCEPT ![r] = "done"]
    BY <1>3 DEF WaitKilled, NotRead
  <2>2. caller'[r] = "done" /\ \A s \in Req \ {r} : req'[s] = req[s] /\ caller'[s] = caller[s]
    BY <2>1 DEF TypeOK
  <2>3. /\ req'[r].count = req[r].count - 1 /\ req'[r].error = "EINTR"
        /\ req'[r].state = req[r].state
        /\ req'[r].intr_unique = req[r].intr_unique /\ req'[r].isreply = req[r].isreply
        /\ req'[r].background = req[r].background /\ req'[r].locked = req[r].locked
        /\ req'[r].aborted = req[r].aborted /\ req'[r].interrupted = req[r].interrupted
        /\ req'[r].end = req[r].end /\ req'[r].released = req[r].released
    BY <2>1 DEF TypeOK, ReqRecord
  <2>4. ToSet(pending') = ToSet(pending) \ {r} /\ IsInjective(pending')
    BY <2>1, UnlinkSet DEF TypeOK, OwnerInv, Lists
  <2>5. /\ r \in ToSet(pending) /\ r \notin ToSet(bg_queue) /\ r \notin processing
        /\ r \notin io /\ r \notin ToSet(interrupts) /\ ~ InHand(r) /\ aborter.r # r
        /\ Pc(r) = "idle" /\ ~ Hand(thread, r).end
    BY <2>1, HandPc DEF PlaceOK, FieldsOK, CallerOK, AborterOK, HandOK, OwnerInv,
                        Copying, ThreadRecord, ThreadPc
  <2>. USE <2>1, <2>2, <2>3, <2>4, <2>5
  <2>6. PlaceOK(r)'
    BY DEF PlaceOK
  <2>7. HandOK(r)' /\ AborterOK(r)'
    BY DEF HandOK, AborterOK
  <2>8. CallerOK(r)'
    BY DEF CallerOK, Refusals
  <2>9. FieldsOK(r)'
    BY DEF FieldsOK
  <2>10. CountOK(r)'
    BY DEF CountOK, CallerRef, Queue, AbortRef, One
  <2>11. Sound(r)'
    BY <2>6, <2>7, <2>8, <2>9, <2>10
  <2>12. \A s \in Req \ {r} : Same(s)
    BY DEF Same, Aside
  <2>. QED
    BY <2>11, <2>12, OneStep DEF OwnerInv, Lists
<1>4. CASE ~ NotRead(r)
  <2>1. /\ caller'[r] = "answer" /\ \A s \in Req \ {r} : caller'[s] = caller[s]
        /\ UNCHANGED <<req, pending>>
    BY <1>4 DEF WaitKilled, TypeOK
  <2>. USE <2>1
  <2>2. PlaceOK(r)'
    BY DEF PlaceOK
  <2>3. HandOK(r)' /\ AborterOK(r)'
    BY DEF HandOK, AborterOK
  <2>4. CallerOK(r)' /\ FieldsOK(r)'
    BY DEF CallerOK, FieldsOK
  <2>5. CountOK(r)'
    BY DEF CountOK, CallerRef, Queue, AbortRef, One
  <2>6. Sound(r)'
    BY <2>2, <2>3, <2>4, <2>5
  <2>7. UNCHANGED lists
    BY DEF lists
  <2>. QED
    BY <2>6, <2>7, RecordOnly
<1>. QED
  BY <1>3, <1>4

\* The caller's reference goes.
LEMMA CallerPutOwner ==
    ASSUME TypeOK, OwnerInv, NEW r \in Req, CallerPut(r)
    PROVE  OwnerInv'
<1>1. /\ caller[r] = "done" /\ req'[r] = Put(req[r])
      /\ caller'[r] = IF req[r].count = 1 THEN "none" ELSE "async"
      /\ \A s \in Req \ {r} : req'[s] = req[s] /\ caller'[s] = caller[s]
      /\ UNCHANGED <<thread, lists, aborter>>
  BY DEF CallerPut, TypeOK
<1>2. Sound(r) /\ req[r] \in ReqRecord
  BY DEF OwnerInv, TypeOK
<1>. USE <1>1, <1>2 DEF Sound, lists, Waits, Pc, InHand
<1>3. ~ AbortRef(r) /\ req[r].count = 1 + One(Queue(r))
  BY DEF CountOK, CallerRef, AbortRef, AborterOK, One
<1>4. CASE req[r].count = 1
  <2>1. ~ Queue(r)
    BY <1>3, <1>4 DEF One
  <2>2. /\ Hand(thread, r) = Idle /\ aborter.r # r
        /\ r \notin ToSet(interrupts)
    BY <1>3, <2>1, HandPc DEF Queue, AbortRef, FieldsOK, PlaceOK, TypeOK, OwnerInv, Copying
  <2>3. Freed(r)'
    BY <1>4, <2>1, <2>2, PutFields DEF Freed, Nowhere, Queue
  <2>4. Sound(r)'
    BY <2>3, FreedSound
  <2>. QED
    BY <2>4, RecordOnly
<1>5. CASE req[r].count # 1
  <2>1. Queue(r) /\ req[r].count = 2
    BY <1>3, <1>5 DEF One
  <2>2. req[r].state = "FINISHED"
    BY <2>1, HandPc DEF Queue, PlaceOK, CallerOK, HandOK, AborterOK, FieldsOK, OwnerInv,
                         ThreadRecord, ThreadPc, Copying
  <2>. USE <1>5, <2>1, <2>2, PutFields
  <2>3. PlaceOK(r)'
    BY DEF PlaceOK
  <2>4. HandOK(r)' /\ AborterOK(r)'
    BY DEF HandOK, AborterOK
  <2>5. CallerOK(r)'
    BY DEF CallerOK
  <2>6. FieldsOK(r)'
    BY DEF FieldsOK
  <2>7. CountOK(r)'
    <3>1. Queue(r)' /\ ~ AbortRef(r)'
      BY <1>3 DEF Queue, AbortRef
    <3>. QED
      BY <3>1 DEF CountOK, CallerRef, One
  <2>8. Sound(r)'
    BY <2>3, <2>4, <2>5, <2>6, <2>7
  <2>. QED
    BY <2>8, RecordOnly
<1>. QED
  BY <1>4, <1>5

\* Every step of a caller.
LEMMA CallerOwner ==
    ASSUME TypeOK, TypeOK', OwnerInv, NEW r \in Req, Caller(r)
    PROVE  OwnerInv'
  BY GetReqOwner, AllocOwner, RefusedOwner, SendOwner, SendBackgroundOwner, SendEndOwner,
     WaitOwner, InterruptedOwner, KilledOwner, CallerPutOwner DEF Caller

-----------------------------------------------------------------------------
(* Steps of the daemon's threads.                                          *)

\* A thread takes r, goes on with it or lets go of it.
LEMMA ThreadSet ==
    ASSUME TypeOK, OwnerInv, NEW t \in Daemon, NEW r \in Req, NEW new \in ThreadRecord,
           thread' = [thread EXCEPT ![t] = new], new.r \in {NoReq, r},
           thread[t].r = r \/ (thread[t].r = NoReq /\ ~ InHand(r))
    PROVE  /\ OneHand(thread')
           /\ Hand(thread', r) = IF new.r = r THEN new ELSE Idle
           /\ \A s \in Req \ {r} : Hand(thread', s) = Hand(thread, s)
<1>1. thread \in [Daemon -> ThreadRecord] /\ OneHand(thread)
  BY DEF TypeOK, OwnerInv
<1>2. thread[t].r = r \/ (thread[t].r = NoReq /\ Hand(thread, r).r # r)
  BY DEF InHand
<1>3. LET th2 == [thread EXCEPT ![t] = new]
      IN  /\ OneHand(th2)
          /\ Hand(th2, r) = IF new.r = r THEN new ELSE Idle
          /\ \A s \in Req \ {r} : Hand(th2, s) = Hand(thread, s)
  BY <1>1, <1>2, HandSet, ZenonT(60)
<1>. QED
  BY <1>3

\* A thread that copies has its request, and is the only one.
LEMMA InCopy ==
    ASSUME TypeOK, OwnerInv, NEW t \in Daemon, thread[t].pc \in Copying \union {"end", "notify"}
    PROVE  /\ thread[t].r \in Req /\ thread[t] \in ThreadRecord
           /\ Hand(thread, thread[t].r) = thread[t]
<1>1. thread[t].r \in Req /\ thread[t] \in ThreadRecord
  BY DEF TypeOK, Copying
<1>. QED
  BY <1>1, HandIs DEF OwnerInv

\* A thread goes on copying: it changes its place and the lock of its request.
GoesOn(t, pc) == /\ thread' = [thread EXCEPT ![t] = thread'[t]]
                 /\ thread'[t].r = thread[t].r /\ thread'[t].op = thread[t].op
                 /\ thread'[t].end = thread[t].end
                 /\ thread'[t].pc = pc
LockedAs(r, b) == [req EXCEPT ![r] = [req[r] EXCEPT !.locked = b]]

LEMMA CopyStep ==
    ASSUME TypeOK, NEW t \in Daemon, NEW r \in Req, thread[t].r = r, Copy(t)
    PROVE  /\ thread[t].pc \in Copying /\ UNCHANGED <<caller, lists, aborter>>
           /\ \E pc \in Copying :
                /\ GoesOn(t, pc)
                /\ pc = "locked" => ~ req[r].aborted /\ req' = LockedAs(r, TRUE)
           /\ req' = req \/ \E b \in BOOLEAN : req' = LockedAs(r, b)
<1>1. thread[t] \in ThreadRecord
  BY DEF TypeOK
<1>2. CASE LockCopy(t)
  <2>1. thread[t].pc \in Copying /\ UNCHANGED <<caller, lists, aborter>>
    BY <1>2 DEF LockCopy, Copying
  <2>2. CASE req[r].aborted
    <3>1. /\ thread' = [thread EXCEPT ![t] = [thread[t] EXCEPT !.pc = "fin", !.failed = TRUE]]
          /\ req' = req
      BY <1>2, <2>2 DEF LockCopy, TypeOK
    <3>2. GoesOn(t, "fin")
      BY <1>1, <3>1 DEF GoesOn, TypeOK, ThreadRecord
    <3>. QED
      BY <2>1, <3>1, <3>2 DEF Copying
  <2>3. CASE ~ req[r].aborted
    <3>1. thread' = [thread EXCEPT ![t] = [thread[t] EXCEPT !.pc = "locked"]]
      BY <1>2, <2>3 DEF LockCopy, TypeOK
    <3>2. GoesOn(t, "locked")
      BY <1>1, <3>1 DEF GoesOn, TypeOK, ThreadRecord
    <3>3. req' = LockedAs(r, TRUE)
      BY <1>2, <2>3 DEF LockCopy, TypeOK, LockedAs
    <3>. QED
      BY <2>1, <2>3, <3>2, <3>3 DEF Copying
  <2>. QED
    BY <2>2, <2>3
<1>3. CASE UnlockCopy(t) \/ HandPage(t)
  <2>1. thread[t].pc \in Copying /\ UNCHANGED <<caller, lists, aborter>>
    BY <1>3 DEF UnlockCopy, HandPage, Between, Copying
  <2>2. PICK pc \in {"open", "paging"} :
            thread' = [thread EXCEPT ![t] = [thread[t] EXCEPT !.pc = pc]]
    BY <1>3 DEF UnlockCopy, HandPage
  <2>3. GoesOn(t, pc) /\ pc \in Copying /\ pc # "locked"
    BY <1>1, <2>2 DEF GoesOn, TypeOK, ThreadRecord, Copying
  <2>4. req' = LockedAs(r, FALSE)
    BY <1>3 DEF UnlockCopy, HandPage, unlock_request, Unlocked, LockedAs
  <2>. QED
    BY <2>1, <2>3, <2>4
<1>4. CASE CopyFault(t) \/ PageHanded(t) \/ CopyEnd(t)
  <2>1. thread[t].pc \in Copying /\ UNCHANGED <<req, caller, lists, aborter>>
    BY <1>4, ZenonT(60) DEF CopyFault, PageHanded, CopyEnd, Between, Copying
  <2>2. PICK pc \in {"fin", "paged"}, failed \in BOOLEAN :
            thread' = [thread EXCEPT ![t] = [thread[t] EXCEPT !.pc = pc, !.failed = failed]]
    <3>1. CASE CopyFault(t)
      BY <3>1 DEF CopyFault
    <3>2. CASE CopyEnd(t)
      BY <3>2 DEF CopyEnd
    <3>3. CASE PageHanded(t)
      <4>. DEFINE lost == thread[t].op = "write" /\ req[thread[t].r].aborted
      <4>1. thread' = [thread EXCEPT ![t] = [thread[t] EXCEPT
                                 !.pc = IF lost THEN "fin" ELSE "paged", !.failed = lost]]
        BY <3>3 DEF PageHanded
      <4>2. lost \in BOOLEAN
        BY DEF TypeOK, ReqRecord
      <4>. QED
        BY <4>1, <4>2
    <3>. QED
      BY <1>4, <3>1, <3>2, <3>3
  <2>3. GoesOn(t, pc) /\ pc \in Copying /\ pc # "locked"
    BY <1>1, <2>2 DEF GoesOn, TypeOK, ThreadRecord, Copying
  <2>. QED
    BY <2>1, <2>3
<1>5. CASE ClearPage(t)
  <2>1. thread[t].pc \in Copying /\ UNCHANGED <<req, caller, lists, aborter>>
    BY <1>5 DEF ClearPage, Copying
  <2>2. thread' = [thread EXCEPT ![t] = [thread[t] EXCEPT !.pc = "clearing"]]
    BY <1>5 DEF ClearPage
  <2>3. GoesOn(t, "clearing") /\ "clearing" \in Copying
    BY <1>1, <2>2 DEF GoesOn, TypeOK, ThreadRecord, Copying
  <2>. QED
    BY <2>1, <2>3
<1>. QED
  BY <1>2, <1>3, <1>4, <1>5 DEF Copy

LEMMA CopyOwner ==
    ASSUME TypeOK, TypeOK', OwnerInv, NEW t \in Daemon, NEW r \in Req, thread[t].r = r, Copy(t)
    PROVE  OwnerInv'
<1>1. PICK pc \in Copying : /\ GoesOn(t, pc)
                            /\ pc = "locked" => ~ req[r].aborted /\ req' = LockedAs(r, TRUE)
  BY CopyStep
<1>2. /\ thread[t].pc \in Copying /\ UNCHANGED <<caller, lists, aborter>>
      /\ thread' = [thread EXCEPT ![t] = thread'[t]]
      /\ thread'[t].r = r /\ thread'[t].op = thread[t].op
      /\ thread'[t].end = thread[t].end /\ thread'[t].pc \in Copying
      /\ thread'[t].pc = "locked" => ~ req[r].aborted
      /\ Hand(thread, r) = thread[t] /\ thread[t] \in ThreadRecord
      /\ thread'[t] \in ThreadRecord
  BY <1>1, CopyStep, InCopy DEF GoesOn, TypeOK
<1>3. /\ \A s \in Req \ {r} : req'[s] = req[s]
      /\ thread'[t].pc = "locked" => req'[r].locked
      /\ req'[r].state = req[r].state /\ req'[r].count = req[r].count
      /\ req'[r].intr_unique = req[r].intr_unique /\ req'[r].isreply = req[r].isreply
      /\ req'[r].background = req[r].background /\ req'[r].aborted = req[r].aborted
      /\ req'[r].interrupted = req[r].interrupted /\ req'[r].end = req[r].end
      /\ req'[r].released = req[r].released /\ req'[r].error = req[r].error
  <2>1. req[r] \in ReqRecord
    BY DEF TypeOK
  <2>2. ASSUME NEW b \in BOOLEAN, req' = LockedAs(r, b)
        PROVE  /\ \A s \in Req \ {r} : req'[s] = req[s]
               /\ req'[r].locked = b
               /\ req'[r].state = req[r].state /\ req'[r].count = req[r].count
               /\ req'[r].intr_unique = req[r].intr_unique
               /\ req'[r].isreply = req[r].isreply
               /\ req'[r].background = req[r].background /\ req'[r].aborted = req[r].aborted
               /\ req'[r].interrupted = req[r].interrupted /\ req'[r].end = req[r].end
               /\ req'[r].released = req[r].released /\ req'[r].error = req[r].error
    BY <2>1, <2>2 DEF TypeOK, ReqRecord, LockedAs
  <2>3. thread'[t].pc = "locked" => req'[r].locked
    BY <1>1, <2>2 DEF GoesOn
  <2>4. req' = req \/ \E b \in BOOLEAN : req' = LockedAs(r, b)
    BY CopyStep
  <2>. QED
    BY <2>2, <2>3, <2>4
<1>4. /\ OneHand(thread') /\ Hand(thread', r) = thread'[t]
      /\ \A s \in Req \ {r} : Hand(thread', s) = Hand(thread, s)
  BY <1>2, ThreadSet
<1>5. \A s \in Req \ {r} : Same(s)
  BY <1>2, <1>3, <1>4 DEF Same, Aside, lists
<1>6. Sound(r)
  BY DEF OwnerInv
<1>. USE <1>2, <1>3, <1>4, <1>6 DEF Sound, Waits, Pc, InHand, lists
<1>7. PlaceOK(r)'
  BY DEF PlaceOK
<1>8. HandOK(r)'
  BY DEF HandOK, PlaceOK, CallerOK, FieldsOK, Copying
<1>9. AborterOK(r)'
  BY DEF AborterOK
<1>10. CallerOK(r)'
  <2>1. caller[r] \in {"none", "blocked"} => FALSE
    BY DEF CallerOK
  <2>. QED
    BY <2>1 DEF CallerOK
<1>11. FieldsOK(r)'
  BY DEF FieldsOK
<1>12. CountOK(r)'
  BY DEF CountOK, CallerRef, Queue, AbortRef, One
<1>13. Sound(r)'
  BY <1>7, <1>8, <1>9, <1>10, <1>11, <1>12
<1>14. Lists'
  BY DEF OwnerInv, Lists
<1>. QED
  BY <1>4, <1>5, <1>13, <1>14, OneStep

\* A thread ends the request it works on or has just read: request_end, the lock
\* dropped, the rest still to do.
LEMMA EndingOwner ==
    ASSUME TypeOK, TypeOK', OwnerInv, NEW t \in Daemon, NEW r \in Req,
           NEW rq \in [Req -> ReqRecord], request_end(r, rq), Ending(t, r),
           UNCHANGED <<caller, aborter>>,
           \/ thread[t].r = NoReq /\ r \in ToSet(pending)
           \/ thread[t].r = r /\ thread[t].pc = "fin",
           \A s \in Req \ {r} : rq[s] = req[s],
           rq[r].count = req[r].count, rq[r].intr_unique = req[r].intr_unique,
           rq[r].isreply = req[r].isreply, rq[r].background = req[r].background,
           rq[r].aborted = req[r].aborted, rq[r].interrupted = req[r].interrupted,
           rq[r].released = req[r].released
    PROVE  OwnerInv'
<1>. DEFINE new == [Idle EXCEPT !.pc = "end", !.r = r, !.end = req[r].end]
<1>1. Sound(r) /\ req[r] \in ReqRecord
  BY DEF OwnerInv, TypeOK
<1>2. thread[t].r = r /\ thread[t].pc = "fin" => Hand(thread, r) = thread[t]
  BY InCopy DEF Copying
<1>3. r \in ToSet(pending) => ~ InHand(r)
  BY <1>1, HandPc DEF Sound, PlaceOK, HandOK, CallerOK, FieldsOK, OwnerInv, Copying, InHand, Pc,
                      ThreadRecord, ThreadPc, Waits
<1>4. thread' = [thread EXCEPT ![t] = new]
  BY DEF Ending
<1>5. new.r = r /\ new.pc = "end" /\ new.end = req[r].end
  BY DEF Idle
<1>6. new \in ThreadRecord
  BY <1>1 DEF Idle, ThreadRecord, ThreadPc, ReqRecord
<1>. HIDE DEF new
<1>7. /\ OneHand(thread') /\ Hand(thread', r) = new
      /\ \A s \in Req \ {r} : Hand(thread', s) = Hand(thread, s)
  BY <1>3, <1>4, <1>5, <1>6, ThreadSet, ZenonT(60)
<1>8. r \notin ToSet(bg_queue)
  BY <1>1, <1>2 DEF Sound, PlaceOK, HandOK, FieldsOK, Pc, Copying
<1>9. /\ req'[r] = Finished(rq[r])
      /\ r \notin ToSet(pending') /\ r \notin ToSet(bg_queue') /\ r \notin processing'
      /\ r \notin io' /\ r \notin ToSet(interrupts')
      /\ Lists'
      /\ \A s \in Req \ {r} : Same(s) \/ Moved(s)
  BY <1>7, <1>8, EndOthers
<1>10. /\ req'[r].state = "FINISHED" /\ req'[r].count = req[r].count
       /\ req'[r].intr_unique = req[r].intr_unique /\ req'[r].isreply = req[r].isreply
       /\ req'[r].background = req[r].background /\ req'[r].aborted = req[r].aborted
       /\ req'[r].interrupted = req[r].interrupted
       /\ ~ req'[r].end /\ req'[r].released = req[r].released
  BY <1>9, FinishedFields
<1>11. /\ Waits(r) \/ caller[r] \in {"unlocked", "done", "async"}
       /\ aborter.r = r => aborter.pc # "tail"
       /\ req[r].end => ~ req[r].released /\ aborter.r # r
       /\ ~ req[r].end \/ ~ req[r].released
  <2>1. CASE thread[t].r = NoReq /\ r \in ToSet(pending)
    BY <1>1, <1>3, <2>1 DEF Sound, PlaceOK, AborterOK, FieldsOK, Waits
  <2>2. CASE thread[t].r = r /\ thread[t].pc = "fin"
    <3>1. /\ Waits(r) \/ caller[r] \in {"unlocked", "done", "async"}
          /\ aborter.r = r => aborter.pc # "tail"
      BY <1>1, <1>2, <2>2 DEF Sound, HandOK, AborterOK, Pc, InHand, Copying
    <3>2. req[r].end => ~ req[r].released /\ aborter.r # r
      BY <1>1, <3>1 DEF Sound, AborterOK, FieldsOK, Waits
    <3>. QED
      BY <3>1, <3>2
  <2>. QED
    BY <2>1, <2>2
<1>. USE <1>1, <1>2, <1>5, <1>7, <1>9, <1>10, <1>11 DEF Sound, Waits, Pc, InHand
<1>12. PlaceOK(r)'
  BY DEF PlaceOK
<1>13. HandOK(r)'
  BY DEF HandOK, Copying
<1>14. AborterOK(r)'
  BY DEF AborterOK
<1>15. CallerOK(r)'
  BY DEF CallerOK
<1>16. FieldsOK(r)'
  BY DEF FieldsOK
<1>17. CountOK(r)'
  <2>1. Queue(r) /\ Queue(r)'
    BY DEF Queue
  <2>. QED
    BY <2>1 DEF CountOK, CallerRef, AbortRef, One
<1>18. Sound(r)'
  BY <1>12, <1>13, <1>14, <1>15, <1>16, <1>17
<1>. QED
  BY <1>18, OneStep

\* A request that waits for the daemon, or for its answer, is in nobody's hands.
LEMMA Resting ==
    ASSUME TypeOK, OwnerInv, NEW r \in Req, r \in ToSet(pending) \/ r \in processing
    PROVE  /\ ~ InHand(r) /\ aborter.r # r /\ ~ req[r].aborted /\ r \notin io
           /\ r \notin ToSet(bg_queue)
           /\ Waits(r) \/ caller[r] = "async"
           /\ Pc(r) = "idle" /\ ~ Hand(thread, r).end
<1>1. Sound(r) /\ req[r].state \in {"PENDING", "SENT"}
  BY DEF OwnerInv, Sound, PlaceOK
<1>2. /\ aborter.r # r /\ ~ req[r].aborted /\ r \notin io /\ r \notin ToSet(bg_queue)
      /\ Waits(r) \/ caller[r] = "async"
  BY <1>1 DEF Sound, PlaceOK, AborterOK, FieldsOK
<1>3. Pc(r) \notin Copying /\ Pc(r) \notin {"end", "notify"}
  BY <1>1, <1>2 DEF Sound, HandOK, Waits
<1>4. ~ InHand(r)
  BY <1>3, HandPc DEF OwnerInv, ThreadRecord, ThreadPc, Copying, Pc, InHand
<1>. QED
  BY <1>2, <1>4, HandPc DEF OwnerInv, Pc, InHand

\* The oldest request of a list.
LEMMA FirstOf ==
    ASSUME TypeOK, OwnerInv
    PROVE  /\ pending # <<>> =>
                /\ Head(pending) \in Req /\ Head(pending) \in ToSet(pending)
                /\ ToSet(Tail(pending)) = ToSet(pending) \ {Head(pending)}
                /\ IsInjective(Tail(pending))
           /\ interrupts # <<>> =>
                /\ Head(interrupts) \in Req /\ Head(interrupts) \in ToSet(interrupts)
                /\ ToSet(Tail(interrupts)) = ToSet(interrupts) \ {Head(interrupts)}
                /\ IsInjective(Tail(interrupts))
  BY TailSet DEF TypeOK, OwnerInv, Lists

\* An interrupt message is read.
LEMMA ReadInterruptOwner ==
    ASSUME TypeOK, OwnerInv, NEW t \in Daemon, NEW r \in Req, r = Head(interrupts),
           ReadInterrupt(t)
    PROVE  OwnerInv'
<1>1. /\ interrupts # <<>> /\ interrupts' = Tail(interrupts)
      /\ req' = [req EXCEPT ![r] = [req[r] EXCEPT !.intr_unique = reqctr + 1]]
      /\ UNCHANGED <<caller, thread, pending, bg_queue, io, processing, aborter>>
  BY DEF ReadInterrupt
<1>2. Sound(r) /\ req[r] \in ReqRecord /\ reqctr + 1 \in Nat /\ reqctr + 1 # 0
  BY DEF OwnerInv, TypeOK
<1>3. /\ r \in ToSet(interrupts) /\ ToSet(interrupts') = ToSet(interrupts) \ {r}
      /\ IsInjective(interrupts')
  BY <1>1, FirstOf
<1>4. /\ \A s \in Req \ {r} : req'[s] = req[s]
      /\ req'[r].intr_unique # 0
      /\ req'[r].state = req[r].state /\ req'[r].count = req[r].count
      /\ req'[r].isreply = req[r].isreply
      /\ req'[r].background = req[r].background /\ req'[r].locked = req[r].locked
      /\ req'[r].aborted = req[r].aborted /\ req'[r].interrupted = req[r].interrupted
      /\ req'[r].end = req[r].end /\ req'[r].released = req[r].released
      /\ req'[r].error = req[r].error
  BY <1>1, <1>2 DEF TypeOK, ReqRecord
<1>5. UNCHANGED <<caller, thread, pending, bg_queue, io, processing, aborter>>
  BY <1>1
<1>. USE <1>2, <1>3, <1>4, <1>5 DEF Sound, Waits, Pc, InHand
<1>6. PlaceOK(r)'
  BY DEF PlaceOK
<1>7. HandOK(r)' /\ AborterOK(r)'
  BY DEF HandOK, AborterOK
<1>8. CallerOK(r)'
  BY DEF CallerOK, FieldsOK, FreeReq
<1>9. FieldsOK(r)'
  BY DEF FieldsOK
<1>10. CountOK(r)'
  BY DEF CountOK, CallerRef, Queue, AbortRef, One
<1>11. Sound(r)'
  BY <1>6, <1>7, <1>8, <1>9, <1>10
<1>12. \A s \in Req \ {r} : Same(s)
  BY DEF Same, Aside
<1>13. OneHand(thread') /\ Lists'
  BY DEF OwnerInv, Lists
<1>. QED
  BY <1>11, <1>12, <1>13, OneStep

\* A request is read.
LEMMA ReadRequestOwner ==
    ASSUME TypeOK, OwnerInv, NEW t \in Daemon, NEW r \in Req, r = Head(pending), ReadRequest(t)
    PROVE  OwnerInv'
<1>. DEFINE new == [Idle EXCEPT !.pc = "open", !.op = "read", !.r = r]
<1>1. /\ pending # <<>> /\ pending' = Tail(pending) /\ io' = io \union {r}
      /\ req' = [req EXCEPT ![r] = [req[r] EXCEPT !.state = "READING"]]
      /\ thread' = [thread EXCEPT ![t] = new]
      /\ thread[t].pc = "idle"
      /\ UNCHANGED <<caller, bg_queue, interrupts, processing, aborter>>
  BY DEF ReadRequest
<1>2. Sound(r) /\ req[r] \in ReqRecord /\ thread[t].r = NoReq
  BY <1>1, ReqAssumption DEF OwnerInv, TypeOK, ThreadRecord
<1>3. /\ r \in ToSet(pending) /\ ToSet(pending') = ToSet(pending) \ {r}
      /\ IsInjective(pending')
  BY <1>1, FirstOf
<1>4. /\ ~ InHand(r) /\ aborter.r # r /\ ~ req[r].aborted /\ r \notin io
      /\ r \notin ToSet(bg_queue)
      /\ Waits(r) \/ caller[r] = "async"
  BY <1>3, Resting
<1>5. /\ \A s \in Req \ {r} : req'[s] = req[s]
      /\ req'[r].state = "READING" /\ req'[r].count = req[r].count
      /\ req'[r].intr_unique = req[r].intr_unique /\ req'[r].isreply = req[r].isreply
      /\ req'[r].background = req[r].background
      /\ req'[r].aborted = req[r].aborted /\ req'[r].interrupted = req[r].interrupted
      /\ req'[r].end = req[r].end /\ req'[r].released = req[r].released
      /\ req'[r].error = req[r].error
  BY <1>1, <1>2 DEF TypeOK, ReqRecord
<1>6. new \in ThreadRecord /\ new.r = r /\ new.pc = "open" /\ new.op = "read" /\ ~ new.end
  BY DEF Idle, ThreadRecord, ThreadPc
<1>. HIDE DEF new
<1>7. /\ OneHand(thread') /\ Hand(thread', r) = new
      /\ \A s \in Req \ {r} : Hand(thread', s) = Hand(thread, s)
  BY <1>1, <1>2, <1>4, <1>6, ThreadSet
<1>8. /\ io' = io \union {r} /\ UNCHANGED <<caller, bg_queue, interrupts, processing, aborter>>
      /\ req[r].state = "PENDING" /\ r \notin processing
  BY <1>1, <1>2, <1>3 DEF Sound, PlaceOK
<1>9. \A s \in Req \ {r} : Same(s)
  BY <1>3, <1>5, <1>7, <1>8 DEF Same, Aside
<1>. USE <1>2, <1>3, <1>4, <1>5, <1>6, <1>7, <1>8 DEF Sound, Waits, Pc, InHand
<1>10. PlaceOK(r)'
  BY DEF PlaceOK
<1>11. HandOK(r)' /\ AborterOK(r)'
  BY DEF HandOK, AborterOK, Copying
<1>12. CallerOK(r)'
  BY DEF CallerOK
<1>13. FieldsOK(r)'
  BY DEF FieldsOK
<1>14. CountOK(r)'
  <2>1. Queue(r) /\ Queue(r)'
    BY DEF Queue
  <2>. QED
    BY <2>1 DEF CountOK, CallerRef, AbortRef, One
<1>15. Sound(r)'
  BY <1>10, <1>11, <1>12, <1>13, <1>14
<1>. QED
  BY <1>9, <1>15, OneStep DEF OwnerInv, Lists

\* A request that is too big for the daemon's buffer is ended.
LEMMA ReadTooBigOwner ==
    ASSUME TypeOK, TypeOK', OwnerInv, NEW t \in Daemon, NEW r \in Req, r = Head(pending),
           ReadTooBig(t)
    PROVE  OwnerInv'
<1>. DEFINE q  == [req[r] EXCEPT !.error = "EIO"]
            rq == [req EXCEPT ![r] = q]
<1>1. /\ pending # <<>> /\ request_end(r, rq) /\ Ending(t, r)
      /\ thread[t].pc = "idle" /\ UNCHANGED <<caller, aborter>>
  BY DEF ReadTooBig
<1>2. r \in ToSet(pending) /\ thread[t].r = NoReq /\ req[r] \in ReqRecord
  BY <1>1, FirstOf, ReqAssumption DEF TypeOK, ThreadRecord
<1>3. /\ q \in ReqRecord /\ q.count = req[r].count
      /\ q.intr_unique = req[r].intr_unique /\ q.isreply = req[r].isreply
      /\ q.background = req[r].background /\ q.aborted = req[r].aborted
      /\ q.interrupted = req[r].interrupted /\ q.released = req[r].released
  BY <1>2 DEF ReqRecord, Errors
<1>. HIDE DEF q
<1>4. rq \in [Req -> ReqRecord] /\ rq[r] = q /\ \A s \in Req \ {r} : rq[s] = req[s]
  BY <1>3 DEF TypeOK
<1>. HIDE DEF rq
<1>. QED
  BY <1>1, <1>2, <1>3, <1>4, EndingOwner

\* A copy is over and its request is ended.
LEMMA CopiedOwner ==
    ASSUME TypeOK, TypeOK', OwnerInv, NEW t \in Daemon, NEW r \in Req,
           thread[t].r = r, thread[t].pc = "fin",
           request_end(r, IF thread[t].failed /\ ~ req[r].aborted
                            THEN [Unlocked(r) EXCEPT ![r].error = "EIO"]
                            ELSE Unlocked(r)),
           Ending(t, r), UNCHANGED <<caller, aborter>>
    PROVE  OwnerInv'
<1>. DEFINE q  == IF thread[t].failed /\ ~ req[r].aborted
                    THEN [req[r] EXCEPT !.locked = FALSE, !.error = "EIO"]
                    ELSE [req[r] EXCEPT !.locked = FALSE]
            rq == [req EXCEPT ![r] = q]
<1>1. req[r] \in ReqRecord
  BY DEF TypeOK
<1>2. request_end(r, rq)
  <2>1. rq = IF thread[t].failed /\ ~ req[r].aborted
               THEN [Unlocked(r) EXCEPT ![r].error = "EIO"]
               ELSE Unlocked(r)
    BY <1>1 DEF Unlocked, TypeOK
  <2>. QED
    BY <2>1
<1>3. /\ q \in ReqRecord /\ q.count = req[r].count
      /\ q.intr_unique = req[r].intr_unique /\ q.isreply = req[r].isreply
      /\ q.background = req[r].background /\ q.aborted = req[r].aborted
      /\ q.interrupted = req[r].interrupted /\ q.released = req[r].released
  BY <1>1, ZenonT(60) DEF ReqRecord, Errors
<1>. HIDE DEF q
<1>4. rq \in [Req -> ReqRecord] /\ rq[r] = q /\ \A s \in Req \ {r} : rq[s] = req[s]
  BY <1>3 DEF TypeOK
<1>. HIDE DEF rq
<1>. QED
  BY <1>2, <1>3, <1>4, EndingOwner

\* A request has been read: it ends, or is the daemon's to answer.
LEMMA ReadEndOwner ==
    ASSUME TypeOK, TypeOK', OwnerInv, NEW t \in Daemon, NEW r \in Req, thread[t].r = r,
           ReadEnd(t)
    PROVE  OwnerInv'
<1>. DEFINE over == req[r].aborted \/ thread[t].failed \/ ~ req[r].isreply
<1>1. thread[t].pc = "fin" /\ UNCHANGED <<caller, aborter>>
  BY DEF ReadEnd
<1>2. CASE over
  BY <1>1, <1>2, CopiedOwner DEF ReadEnd
<1>3. CASE ~ over
  <2>1. /\ req' = [Unlocked(r) EXCEPT ![r].state = "SENT"]
        /\ io' = io \ {r} /\ processing' = processing \union {r}
        /\ interrupts' = AfterRead(r)
        /\ thread' = [thread EXCEPT ![t] = Idle]
        /\ UNCHANGED <<pending, bg_queue>>
    BY <1>3 DEF ReadEnd
  <2>2. Sound(r) /\ req[r] \in ReqRecord
    BY DEF OwnerInv, TypeOK
  <2>3. /\ \A s \in Req \ {r} : req'[s] = req[s]
        /\ req'[r].state = "SENT" /\ req'[r].count = req[r].count
        /\ req'[r].intr_unique = req[r].intr_unique /\ req'[r].isreply = req[r].isreply
        /\ req'[r].background = req[r].background
        /\ req'[r].aborted = req[r].aborted /\ req'[r].interrupted = req[r].interrupted
        /\ req'[r].end = req[r].end /\ req'[r].released = req[r].released
        /\ req'[r].error = req[r].error
    <3>1. req' = [req EXCEPT ![r] = [req[r] EXCEPT !.locked = FALSE, !.state = "SENT"]]
      BY <2>1, <2>2 DEF Unlocked, TypeOK
    <3>. QED
      BY <2>2, <3>1 DEF TypeOK, ReqRecord
  <2>4. Hand(thread, r) = thread[t]
    BY <1>1, InCopy DEF Copying
  <2>5. Idle \in ThreadRecord /\ Idle.r = NoReq /\ Idle.r # r /\ Idle.pc = "idle" /\ ~ Idle.end
    BY ReqAssumption DEF Idle, ThreadRecord, ThreadPc
  <2>6. /\ OneHand(thread') /\ Hand(thread', r) = Idle
        /\ \A s \in Req \ {r} : Hand(thread', s) = Hand(thread, s)
    BY <2>1, <2>5, ThreadSet
  <2>7. /\ ~ req[r].aborted /\ r \in io /\ aborter.r # r
        /\ req[r].state \in {"READING", "WRITING"}
    BY <1>1, <1>3, <2>2, <2>4 DEF Sound, HandOK, PlaceOK, AborterOK, Pc, Copying
  <2>8. /\ ToSet(interrupts') = IF req[r].interrupted THEN ToSet(interrupts) \union {r}
                                                      ELSE ToSet(interrupts)
        /\ req[r].interrupted => r \in ToSet(interrupts')
        /\ r \in ToSet(interrupts') => req[r].interrupted
        /\ req[r].state = "READING" => IsInjective(interrupts')
    <3>1. interrupts \in Seq(Req) /\ IsInjective(interrupts)
      BY DEF TypeOK, OwnerInv, Lists
    <3>2. r \in ToSet(interrupts) => req[r].interrupted /\ req[r].state # "READING"
      BY <2>2, <2>7 DEF Sound, FieldsOK
    <3>3. CASE req[r].interrupted
      <4>1. interrupts' = Append(interrupts, r)
        BY <2>1, <3>3 DEF AfterRead
      <4>2. /\ ToSet(interrupts') = ToSet(interrupts) \union {r}
            /\ r \notin ToSet(interrupts) => IsInjective(interrupts')
        BY <3>1, <4>1, AppendSet
      <4>. QED
        BY <3>2, <3>3, <4>2
    <3>4. CASE ~ req[r].interrupted
      <4>1. interrupts' = interrupts
        BY <2>1, <3>4 DEF AfterRead
      <4>. QED
        BY <3>1, <3>2, <3>4, <4>1
    <3>. QED
      BY <3>3, <3>4
  <2>9. req[r].state = "READING"
    BY <2>2, <2>4, <2>7 DEF ReadEnd, Sound, HandOK
  <2>10. UNCHANGED <<caller, pending, bg_queue, aborter>>
    BY <1>1, <2>1
  <2>11. \A s \in Req \ {r} : Same(s)
    BY <2>1, <2>3, <2>6, <2>8, <2>10 DEF Same, Aside
  <2>12. io' = io \ {r} /\ processing' = processing \union {r} /\ req[r].isreply
    BY <1>3, <2>1, <2>2 DEF ReqRecord
  <2>. USE <1>1, <2>2, <2>3, <2>4, <2>5, <2>6, <2>7, <2>8, <2>9, <2>10, <2>12
       DEF Sound, Waits, Pc, InHand
  <2>13. PlaceOK(r)'
    BY DEF PlaceOK
  <2>14. HandOK(r)' /\ AborterOK(r)'
    BY DEF HandOK, AborterOK, Copying, PlaceOK
  <2>15. CallerOK(r)'
    BY DEF CallerOK, PlaceOK
  <2>16. FieldsOK(r)'
    BY DEF FieldsOK, PlaceOK
  <2>17. CountOK(r)'
    <3>1. Queue(r) /\ Queue(r)'
      BY DEF Queue
    <3>. QED
      BY <3>1 DEF CountOK, CallerRef, AbortRef, One
  <2>18. Sound(r)'
    BY <2>13, <2>14, <2>15, <2>16, <2>17
  <2>19. Lists'
    BY DEF OwnerInv, Lists
  <2>. QED
    BY <2>6, <2>11, <2>18, <2>19, OneStep
<1>. QED
  BY <1>2, <1>3

\* An answer to a request is being copied.
LEMMA WriteReplyOwner ==
    ASSUME TypeOK, OwnerInv, NEW t \in Daemon, NEW r \in Req, WriteReply(t, r)
    PROVE  OwnerInv'
<1>. DEFINE new == [Idle EXCEPT !.pc = "locked", !.op = "write", !.r = r]
<1>1. /\ r \in processing /\ thread[t].pc = "idle"
      /\ req' = [req EXCEPT ![r] = [req[r] EXCEPT !.state = "WRITING", !.locked = TRUE,
                                                  !.error = "answer"]]
      /\ processing' = processing \ {r} /\ io' = io \union {r}
      /\ thread' = [thread EXCEPT ![t] = new]
      /\ UNCHANGED <<caller, pending, bg_queue, interrupts, aborter>>
  <2>1. req' = [req EXCEPT ![r].state = "WRITING", ![r].locked = TRUE, ![r].error = "answer"]
    BY DEF WriteReply
  <2>2. req' = [req EXCEPT ![r] = [req[r] EXCEPT !.state = "WRITING", !.locked = TRUE,
                                                 !.error = "answer"]]
    BY <2>1 DEF TypeOK, ReqRecord
  <2>. QED
    BY <2>2 DEF WriteReply
<1>2. Sound(r) /\ req[r] \in ReqRecord /\ thread[t].r = NoReq
  BY <1>1, ReqAssumption DEF OwnerInv, TypeOK, ThreadRecord
<1>3. /\ ~ InHand(r) /\ aborter.r # r /\ ~ req[r].aborted /\ r \notin io
      /\ r \notin ToSet(bg_queue)
      /\ Waits(r) \/ caller[r] = "async"
  BY <1>1, Resting
<1>4. /\ \A s \in Req \ {r} : req'[s] = req[s]
      /\ req'[r].state = "WRITING" /\ req'[r].locked /\ req'[r].error = "answer"
      /\ req'[r].count = req[r].count
      /\ req'[r].intr_unique = req[r].intr_unique /\ req'[r].isreply = req[r].isreply
      /\ req'[r].background = req[r].background
      /\ req'[r].aborted = req[r].aborted /\ req'[r].interrupted = req[r].interrupted
      /\ req'[r].end = req[r].end /\ req'[r].released = req[r].released
  BY <1>1, <1>2 DEF TypeOK, ReqRecord
<1>5. new \in ThreadRecord /\ new.r = r /\ new.pc = "locked" /\ new.op = "write" /\ ~ new.end
  BY DEF Idle, ThreadRecord, ThreadPc
<1>. HIDE DEF new
<1>6. /\ OneHand(thread') /\ Hand(thread', r) = new
      /\ \A s \in Req \ {r} : Hand(thread', s) = Hand(thread, s)
  BY <1>1, <1>2, <1>3, <1>5, ThreadSet
<1>7. /\ io' = io \union {r} /\ processing' = processing \ {r}
      /\ UNCHANGED <<caller, pending, bg_queue, interrupts, aborter>>
      /\ req[r].state = "SENT" /\ r \notin ToSet(pending) /\ ~ req[r].released
  BY <1>1, <1>2, <1>3 DEF Sound, PlaceOK, FieldsOK, Waits
<1>8. \A s \in Req \ {r} : Same(s)
  BY <1>4, <1>6, <1>7 DEF Same, Aside
<1>. USE <1>2, <1>3, <1>4, <1>5, <1>6, <1>7 DEF Sound, Waits, Pc, InHand
<1>9. PlaceOK(r)'
  BY DEF PlaceOK
<1>10. HandOK(r)' /\ AborterOK(r)'
  BY DEF HandOK, AborterOK, CallerOK, Copying
<1>11. CallerOK(r)'
  BY DEF CallerOK
<1>12. FieldsOK(r)'
  BY DEF FieldsOK
<1>13. CountOK(r)'
  <2>1. Queue(r) /\ Queue(r)'
    BY <1>1 DEF Queue
  <2>. QED
    BY <2>1 DEF CountOK, CallerRef, AbortRef, One
<1>14. Sound(r)'
  BY <1>9, <1>10, <1>11, <1>12, <1>13
<1>. QED
  BY <1>8, <1>14, OneStep DEF OwnerInv, Lists

\* The daemon asks for the interrupt message once more.
LEMMA WriteInterruptReplyOwner ==
    ASSUME TypeOK, OwnerInv, NEW t \in Daemon, NEW r \in Req, WriteInterruptReply(t, r)
    PROVE  OwnerInv'
<1>1. /\ r \in processing /\ req[r].intr_unique # 0
      /\ UNCHANGED <<req, caller, thread, pending, bg_queue, io, processing, aborter>>
      /\ \/ interrupts' = interrupts
         \/ r \notin ToSet(interrupts) /\ interrupts' = Append(interrupts, r)
  BY DEF WriteInterruptReply
<1>2. Sound(r)
  BY DEF OwnerInv
<1>3. /\ IsInjective(interrupts')
      /\ \A s \in Req \ {r} : s \in ToSet(interrupts') <=> s \in ToSet(interrupts)
  <2>1. interrupts \in Seq(Req) /\ IsInjective(interrupts)
    BY DEF TypeOK, OwnerInv, Lists
  <2>2. CASE interrupts' = interrupts
    BY <2>1, <2>2
  <2>3. CASE r \notin ToSet(interrupts) /\ interrupts' = Append(interrupts, r)
    <3>1. /\ ToSet(interrupts') = ToSet(interrupts) \union {r}
          /\ IsInjective(interrupts')
      BY <2>1, <2>3, AppendSet
    <3>. QED
      BY <3>1
  <2>. QED
    BY <1>1, <2>2, <2>3
<1>4. req[r].state = "SENT" /\ req[r].interrupted
  BY <1>1, <1>2 DEF Sound, PlaceOK, FieldsOK
<1>5. UNCHANGED <<req, caller, thread, pending, bg_queue, io, processing, aborter>>
  BY <1>1
<1>. USE <1>2, <1>4, <1>5 DEF Sound, Waits, Pc, InHand
<1>6. PlaceOK(r)'
  BY DEF PlaceOK
<1>7. HandOK(r)' /\ AborterOK(r)'
  BY DEF HandOK, AborterOK
<1>8. CallerOK(r)'
  BY DEF CallerOK
<1>9. FieldsOK(r)'
  BY <1>1 DEF FieldsOK
<1>10. CountOK(r)'
  BY DEF CountOK, CallerRef, Queue, AbortRef, One
<1>11. Sound(r)'
  BY <1>6, <1>7, <1>8, <1>9, <1>10
<1>12. \A s \in Req \ {r} : Same(s)
  BY <1>3 DEF Same, Aside
<1>13. OneHand(thread') /\ Lists'
  BY <1>3 DEF OwnerInv, Lists
<1>. QED
  BY <1>11, <1>12, <1>13, OneStep

\* A thread gives back the reference of the queues.
LEMMA EndUnlockedOwner ==
    ASSUME TypeOK, OwnerInv, NEW t \in Daemon, NEW r \in Req, thread[t].r = r,
           EndUnlocked(t)
    PROVE  OwnerInv'
<1>1. /\ thread[t].pc = "end" /\ request_end_unlocked(r, thread[t].end)
      /\ thread' = [thread EXCEPT ![t] = Idle] /\ UNCHANGED <<lists, aborter>>
  BY DEF EndUnlocked
<1>2. Sound(r) /\ thread[t].end \in BOOLEAN /\ Hand(thread, r) = thread[t]
  BY <1>1, InCopy DEF OwnerInv, TypeOK, ThreadRecord
<1>3. Idle \in ThreadRecord /\ Idle.r = NoReq /\ Idle.r # r /\ Idle.pc = "idle" /\ ~ Idle.end
  BY ReqAssumption DEF Idle, ThreadRecord, ThreadPc
<1>4. /\ OneHand(thread') /\ Hand(thread', r) = Idle
      /\ \A s \in Req \ {r} : Hand(thread', s) = Hand(thread, s)
  BY <1>1, <1>3, ThreadSet
<1>5. /\ req[r].state = "FINISHED"
      /\ Waits(r) \/ caller[r] \in {"unlocked", "done", "async"}
      /\ thread[t].end => ~ req[r].released /\ aborter.r # r
      /\ aborter.r = r => aborter.pc = "ioWait"
  BY <1>1, <1>2 DEF Sound, HandOK, AborterOK, Pc, InHand, Copying, TypeOK
<1>6. /\ r \notin ToSet(pending) /\ r \notin ToSet(bg_queue) /\ r \notin processing
      /\ r \notin io /\ r \notin ToSet(interrupts)
  BY <1>1, <1>2, <1>5 DEF Sound, PlaceOK, FieldsOK, Pc, Copying
<1>7. req[r].count = One(CallerRef(r)) + 1 + One(AbortRef(r))
  BY <1>2 DEF Sound, CountOK, Queue, InHand, One
<1>8. /\ \A s \in Req \ {r} : req'[s] = req[s] /\ caller'[s] = caller[s]
      /\ req[r].count = 1 => req'[r] = FreeReq /\ caller'[r] = "none"
      /\ req[r].count # 1 =>
           /\ caller'[r] = caller[r]
           /\ req'[r].count = req[r].count - 1
           /\ req'[r].released <=> req[r].released \/ thread[t].end
           /\ req'[r].state = req[r].state
           /\ req'[r].intr_unique = req[r].intr_unique
           /\ req'[r].isreply = req[r].isreply
           /\ req'[r].background = req[r].background
           /\ req'[r].locked = req[r].locked /\ req'[r].aborted = req[r].aborted
           /\ req'[r].interrupted = req[r].interrupted
           /\ req'[r].end = req[r].end /\ req'[r].error = req[r].error
  BY <1>1, <1>2, PutEffect
<1>9. \A s \in Req \ {r} : Same(s)
  BY <1>1, <1>4, <1>8 DEF Same, Aside, lists
<1>10. UNCHANGED <<lists, aborter>>
  BY <1>1
<1>11. Sound(r)'
  <2>1. CASE req[r].count = 1
    <3>1. ~ CallerRef(r) /\ ~ AbortRef(r)
      BY <1>7, <2>1 DEF One
    <3>2. aborter.r # r
      BY <1>5, <3>1 DEF AbortRef
    <3>3. Freed(r)'
      BY <1>4, <1>6, <1>8, <1>10, <2>1, <3>2 DEF Freed, Nowhere, lists
    <3>. QED
      BY <3>3, FreedSound
  <2>2. CASE req[r].count # 1
    <3>. USE <1>2, <1>3, <1>4, <1>5, <1>6, <1>8, <1>10, <2>2
         DEF Sound, Waits, Pc, InHand, lists
    <3>1. PlaceOK(r)'
      BY DEF PlaceOK
    <3>2. HandOK(r)' /\ AborterOK(r)'
      BY DEF HandOK, AborterOK, Copying
    <3>3. CallerOK(r)'
      BY DEF CallerOK
    <3>4. FieldsOK(r)'
      BY DEF FieldsOK
    <3>5. CountOK(r)'
      <4>1. ~ Queue(r)'
        BY DEF Queue
      <4>. QED
        BY <1>7, <4>1 DEF CountOK, CallerRef, AbortRef, One
    <3>. QED
      BY <3>1, <3>2, <3>3, <3>4, <3>5
  <2>. QED
    BY <2>1, <2>2
<1>12. Lists'
  BY <1>10 DEF OwnerInv, Lists, lists
<1>. QED
  BY <1>4, <1>9, <1>11, <1>12, OneStep

\* A thread of the daemon in a notification has not taken an end callback.
EndFlag == \A t \in Daemon : thread[t].end => thread[t].pc = "end"

LEMMA EndFlagStep ==
    ASSUME TypeOK, EndFlag, [Next]_vars
    PROVE  EndFlag'
<1>1. ASSUME UNCHANGED thread PROVE EndFlag'
  BY <1>1 DEF EndFlag
<1>2. ASSUME NEW t \in Daemon, NEW new, thread' = [thread EXCEPT ![t] = new],
             new.end => new.pc = "end"
      PROVE  EndFlag'
  BY <1>2 DEF EndFlag, TypeOK
<1>3. ~ Idle.end
  BY DEF Idle
<1>4. CASE UNCHANGED vars
  BY <1>1, <1>4 DEF vars
<1>5. CASE \E r \in Req : Caller(r)
  <2>1. UNCHANGED thread
    BY <1>5, ZenonT(60)
       DEF Caller, GetReq, GetReqDone, GetReqFail, RequestAlloc, RequestRefused,
       RequestSend, RequestSendBackground, SendEndUnlocked, Sleep, WaitDone,
       WaitInterrupted,
       WaitKilled, WaitUnlocked, CallerPut
  <2>. QED
    BY <1>1, <2>1, SMTT(30)
<1>6. CASE Abort
  <2>1. UNCHANGED thread
    BY <1>6 DEF Abort, AbortConn, AbortIo, AbortIoEnd, AbortFlush, AbortQueued, AbortTail,
       AbortDone
  <2>. QED
    BY <1>1, <2>1
<1>7. CASE \E t \in Daemon : DaemonThread(t)
  <2>1. PICK t \in Daemon : DaemonThread(t)
    BY <1>7
  <2>2. CASE Copy(t)
    <3>1. thread[t].pc \in Copying
      BY <2>2 DEF Copy, LockCopy, CopyFault, UnlockCopy, HandPage, PageHanded, ClearPage,
                  CopyEnd, Between, Copying
    <3>2. thread[t] \in ThreadRecord
      BY DEF TypeOK
    <3>3. thread[t].r \in Req
      BY <3>1 DEF TypeOK, Copying
    <3>4. PICK pc \in Copying : GoesOn(t, pc)
      BY <2>2, <3>3, CopyStep
    <3>5. ~ thread[t].end
      BY <3>1 DEF EndFlag, Copying
    <3>. QED
      BY <1>2, <3>4, <3>5 DEF GoesOn
  <2>3. CASE ReadInterrupt(t) \/ \E r \in Req : WriteInterruptReply(t, r)
    <3>1. UNCHANGED thread
      BY <2>3 DEF ReadInterrupt, WriteInterruptReply
    <3>. QED
      BY <1>1, <3>1
  <2>4. CASE EndUnlocked(t) \/ RetrieveFail(t) \/ RetrieveSend(t)
    <3>1. thread' = [thread EXCEPT ![t] = Idle]
      BY <2>4 DEF EndUnlocked, RetrieveFail, RetrieveSend
    <3>. QED
      BY <1>2, <1>3, <3>1
  <2>5. CASE ReadTooBig(t) \/ ReadEnd(t) \/ WriteEnd(t)
    <3>1. \/ \E r : Ending(t, r)
          \/ thread' = [thread EXCEPT ![t] = Idle]
      BY <2>5 DEF ReadTooBig, ReadEnd, WriteEnd
    <3>2. ASSUME NEW r, Ending(t, r) PROVE EndFlag'
      <4>. DEFINE new == [Idle EXCEPT !.pc = "end", !.r = r, !.end = req[r].end]
      <4>1. thread' = [thread EXCEPT ![t] = new] /\ new.pc = "end"
        BY <3>2 DEF Ending, Idle
      <4>. HIDE DEF new
      <4>. QED
        BY <1>2, <4>1
    <3>. QED
      BY <1>2, <1>3, <3>1, <3>2
  <2>6. CASE ReadRequest(t) \/ \E r \in Req : WriteReply(t, r)
    <3>1. PICK pc \in {"open", "locked"}, op \in {"read", "write"}, r \in Req \union {Head(pending)} :
              thread' = [thread EXCEPT ![t] = [Idle EXCEPT !.pc = pc, !.op = op, !.r = r]]
      BY <2>6 DEF ReadRequest, WriteReply
    <3>. DEFINE new == [Idle EXCEPT !.pc = pc, !.op = op, !.r = r]
    <3>2. thread' = [thread EXCEPT ![t] = new] /\ ~ new.end
      BY <3>1 DEF Idle
    <3>. HIDE DEF new
    <3>. QED
      BY <1>2, <3>2
  <2>7. CASE Retrieve(t)
    <3>. DEFINE new == [Idle EXCEPT !.pc = "getreq"]
    <3>1. thread' = [thread EXCEPT ![t] = new] /\ ~ new.end
      BY <2>7 DEF Retrieve, Idle
    <3>. HIDE DEF new
    <3>. QED
      BY <1>2, <3>1
  <2>8. CASE \E r \in Req : RetrieveGet(t, r)
    <3>1. PICK r \in Req : RetrieveGet(t, r)
      BY <2>8
    <3>. DEFINE new == [thread[t] EXCEPT !.pc = "notify", !.r = r]
    <3>2. thread[t] \in ThreadRecord /\ ~ thread[t].end
      BY <3>1 DEF RetrieveGet, EndFlag, TypeOK
    <3>3. thread' = [thread EXCEPT ![t] = new] /\ ~ new.end
      BY <3>1, <3>2 DEF RetrieveGet, TypeOK, ThreadRecord
    <3>. HIDE DEF new
    <3>. QED
      BY <1>2, <3>3
  <2>. QED
    BY <2>1, <2>2, <2>3, <2>4, <2>5, <2>6, <2>7, <2>8 DEF DaemonThread
<1>. QED
  BY <1>4, <1>5, <1>6, <1>7 DEF Next

\* A thread waits in fuse_get_req, or gives up.
LEMMA RetrieveOwner ==
    ASSUME TypeOK, OwnerInv, NEW t \in Daemon, Retrieve(t) \/ RetrieveFail(t)
    PROVE  OwnerInv'
<1>1. /\ Idle \in ThreadRecord /\ Idle.r = NoReq
      /\ [Idle EXCEPT !.pc = "getreq"] \in ThreadRecord
      /\ [Idle EXCEPT !.pc = "getreq"].r = NoReq
  BY DEF Idle, ThreadRecord, ThreadPc
<1>2. PICK new \in ThreadRecord : new.r = NoReq /\ thread' = [thread EXCEPT ![t] = new]
  <2>1. CASE Retrieve(t)
    BY <1>1, <2>1 DEF Retrieve
  <2>2. CASE RetrieveFail(t)
    BY <1>1, <2>2 DEF RetrieveFail
  <2>. QED
    BY <2>1, <2>2
<1>3. thread[t].r = NoReq /\ thread \in [Daemon -> ThreadRecord] /\ OneHand(thread)
  BY ReqAssumption DEF Retrieve, RetrieveFail, TypeOK, ThreadRecord, OwnerInv
<1>4. LET th2 == [thread EXCEPT ![t] = new]
      IN  OneHand(th2) /\ \A s \in Req : Hand(th2, s) = Hand(thread, s)
  BY <1>2, <1>3, HandKept
<1>5. OneHand(thread') /\ \A s \in Req : Hand(thread', s) = Hand(thread, s)
  BY <1>2, <1>4
<1>6. UNCHANGED <<req, caller, lists, aborter>>
  BY DEF Retrieve, RetrieveFail
<1>7. \A s \in Req : Same(s)
  BY <1>5, <1>6 DEF Same, Aside, lists
<1>8. \A s \in Req : Sound(s)'
  BY <1>7, SameSound DEF OwnerInv
<1>9. Lists'
  BY <1>6 DEF OwnerInv, Lists, lists
<1>. QED
  BY <1>5, <1>8, <1>9 DEF OwnerInv

\* A thread takes a new request to retrieve pages with.
LEMMA RetrieveGetOwner ==
    ASSUME TypeOK, OwnerInv, EndFlag, NEW t \in Daemon, NEW r \in Req, RetrieveGet(t, r)
    PROVE  OwnerInv'
<1>. DEFINE new == [thread[t] EXCEPT !.pc = "notify", !.r = r]
<1>1. /\ thread[t].pc = "getreq" /\ caller[r] = "none" /\ caller'[r] = "retrieve"
      /\ \A s \in Req \ {r} : caller'[s] = caller[s]
      /\ UNCHANGED <<lists, aborter>>
  BY DEF RetrieveGet, TypeOK
<1>2. /\ Sound(r) /\ thread[t] \in ThreadRecord /\ ~ thread[t].end
      /\ thread[t].r = NoReq
  BY <1>1, ReqAssumption DEF OwnerInv, TypeOK, EndFlag, ThreadRecord
<1>3. /\ req[r] = FreeReq /\ ~ InHand(r) /\ aborter.r # r
      /\ r \notin ToSet(pending) /\ r \notin ToSet(bg_queue) /\ r \notin processing
      /\ r \notin io /\ r \notin ToSet(interrupts)
  BY <1>1, <1>2 DEF Sound, PlaceOK, CallerOK, AborterOK, FieldsOK, FreeReq, Waits
<1>4. /\ \A s \in Req \ {r} : req'[s] = req[s]
      /\ req'[r].state = "INIT" /\ req'[r].count = 1 /\ req'[r].intr_unique = 0
      /\ ~ req'[r].isreply /\ ~ req'[r].background /\ ~ req'[r].aborted
      /\ ~ req'[r].interrupted /\ req'[r].end /\ ~ req'[r].released
      /\ req'[r].error = "none"
  <2>1. /\ req'[r] = [fuse_request_init EXCEPT !.waiting = TRUE, !.end = TRUE]
        /\ \A s \in Req \ {r} : req'[s] = req[s]
    BY DEF RetrieveGet, TypeOK
  <2>. QED
    BY <2>1, NewFields DEF ReqRecord
<1>5. /\ new \in ThreadRecord /\ new.r = r /\ new.pc = "notify" /\ ~ new.end
  BY <1>2 DEF ThreadRecord, ThreadPc
<1>6. thread' = [thread EXCEPT ![t] = new]
  <2>1. thread' = [thread EXCEPT ![t].pc = "notify", ![t].r = r]
    BY DEF RetrieveGet
  <2>. QED
    BY <1>2, <2>1 DEF TypeOK, ThreadRecord
<1>. HIDE DEF new
<1>7. /\ OneHand(thread') /\ Hand(thread', r) = new
      /\ \A s \in Req \ {r} : Hand(thread', s) = Hand(thread, s)
  BY <1>2, <1>3, <1>5, <1>6, ThreadSet
<1>8. \A s \in Req \ {r} : Same(s)
  BY <1>1, <1>4, <1>7 DEF Same, Aside, lists
<1>. USE <1>1, <1>3, <1>4, <1>5, <1>7 DEF Sound, Waits, Pc, InHand, lists
<1>9. PlaceOK(r)'
  BY DEF PlaceOK
<1>10. HandOK(r)' /\ AborterOK(r)'
  BY DEF HandOK, AborterOK, Copying
<1>11. CallerOK(r)'
  BY DEF CallerOK
<1>12. FieldsOK(r)'
  BY DEF FieldsOK
<1>13. CountOK(r)'
  BY DEF CountOK, CallerRef, Queue, AbortRef, One
<1>14. Sound(r)'
  BY <1>9, <1>10, <1>11, <1>12, <1>13
<1>15. Lists'
  BY DEF OwnerInv, Lists
<1>. QED
  BY <1>7, <1>8, <1>14, <1>15, OneStep

\* ... and queues it, or leaks it when the connection is down.
LEMMA RetrieveSendOwner ==
    ASSUME TypeOK, OwnerInv, NEW t \in Daemon, NEW r \in Req, thread[t].r = r, RetrieveSend(t)
    PROVE  OwnerInv'
<1>1. /\ thread[t].pc = "notify" /\ thread' = [thread EXCEPT ![t] = Idle]
      /\ UNCHANGED <<bg_queue, interrupts, io, processing, aborter>>
  BY DEF RetrieveSend
<1>2. Sound(r) /\ req[r] \in ReqRecord /\ Hand(thread, r) = thread[t]
  BY <1>1, InCopy DEF OwnerInv, TypeOK
<1>3. Idle \in ThreadRecord /\ Idle.r = NoReq /\ Idle.r # r /\ Idle.pc = "idle" /\ ~ Idle.end
  BY ReqAssumption DEF Idle, ThreadRecord, ThreadPc
<1>4. /\ OneHand(thread') /\ Hand(thread', r) = Idle
      /\ \A s \in Req \ {r} : Hand(thread', s) = Hand(thread, s)
  BY <1>1, <1>3, ThreadSet
<1>5. /\ caller[r] = "retrieve" /\ req[r].state = "INIT" /\ ~ req[r].background
      /\ ~ req[r].isreply /\ ~ req[r].interrupted /\ req[r].error = "none"
      /\ ~ req[r].aborted /\ req[r].intr_unique = 0 /\ ~ req[r].released
      /\ aborter.r # r
      /\ r \notin ToSet(pending) /\ r \notin ToSet(bg_queue) /\ r \notin processing
      /\ r \notin io /\ r \notin ToSet(interrupts)
  BY <1>1, <1>2 DEF Sound, PlaceOK, HandOK, CallerOK, AborterOK, FieldsOK, Pc, Waits
<1>6. req[r].count = 1
  BY <1>2, <1>5 DEF Sound, CountOK, CallerRef, Queue, AbortRef, InHand, Waits, One
<1>7. /\ UNCHANGED <<bg_queue, interrupts, io, processing, aborter>>
  BY <1>1
<1>. USE <1>2, <1>3, <1>4, <1>5, <1>6, <1>7 DEF Sound, Waits, Pc, InHand
<1>8. CASE connected
  <2>1. /\ req' = [req EXCEPT ![r] = Queued(req[r], 0, FALSE)]
        /\ pending' = Append(pending, r) /\ caller' = [caller EXCEPT ![r] = "async"]
    BY <1>8 DEF RetrieveSend
  <2>2. /\ \A s \in Req \ {r} : req'[s] = req[s] /\ caller'[s] = caller[s]
        /\ caller'[r] = "async" /\ req'[r].state = "PENDING" /\ req'[r].count = 1
        /\ ~ req'[r].isreply /\ ~ req'[r].background /\ ~ req'[r].interrupted
        /\ req'[r].error = "none" /\ ~ req'[r].aborted /\ req'[r].intr_unique = 0
        /\ ~ req'[r].released
    BY <2>1 DEF TypeOK, Queued, ReqRecord
  <2>3. ToSet(pending') = ToSet(pending) \union {r} /\ IsInjective(pending')
    BY <2>1, AppendSet DEF TypeOK, OwnerInv, Lists
  <2>. USE <2>2, <2>3
  <2>4. PlaceOK(r)'
    BY DEF PlaceOK
  <2>5. HandOK(r)' /\ AborterOK(r)'
    BY DEF HandOK, AborterOK, Copying
  <2>6. CallerOK(r)'
    BY DEF CallerOK
  <2>7. FieldsOK(r)'
    BY DEF FieldsOK
  <2>8. CountOK(r)'
    BY DEF CountOK, CallerRef, Queue, AbortRef, One
  <2>9. Sound(r)'
    BY <2>4, <2>5, <2>6, <2>7, <2>8
  <2>10. \A s \in Req \ {r} : Same(s)
    BY DEF Same, Aside
  <2>. QED
    BY <2>9, <2>10, OneStep DEF OwnerInv, Lists
<1>9. CASE ~ connected
  <2>1. /\ req' = [req EXCEPT ![r] = [req[r] EXCEPT !.isreply = FALSE, !.released = TRUE]]
        /\ pending' = pending /\ caller' = [caller EXCEPT ![r] = "leaked"]
    <3>1. /\ req' = [req EXCEPT ![r].isreply = FALSE, ![r].released = TRUE]
          /\ pending' = pending /\ caller' = [caller EXCEPT ![r] = "leaked"]
      BY <1>9 DEF RetrieveSend
    <3>. QED
      BY <3>1 DEF TypeOK, ReqRecord
  <2>2. /\ \A s \in Req \ {r} : req'[s] = req[s] /\ caller'[s] = caller[s]
        /\ caller'[r] = "leaked" /\ req'[r].state = "INIT" /\ req'[r].count = 1
        /\ ~ req'[r].isreply /\ ~ req'[r].background /\ ~ req'[r].interrupted
        /\ req'[r].error = "none" /\ ~ req'[r].aborted /\ req'[r].intr_unique = 0
    BY <2>1 DEF TypeOK, ReqRecord
  <2>3. pending' = pending
    BY <2>1
  <2>. USE <2>2, <2>3
  <2>4. PlaceOK(r)'
    BY DEF PlaceOK
  <2>5. HandOK(r)' /\ AborterOK(r)'
    BY DEF HandOK, AborterOK, Copying
  <2>6. CallerOK(r)'
    BY DEF CallerOK
  <2>7. FieldsOK(r)'
    BY DEF FieldsOK
  <2>8. CountOK(r)'
    BY DEF CountOK, CallerRef, Queue, AbortRef, One
  <2>9. Sound(r)'
    BY <2>4, <2>5, <2>6, <2>7, <2>8
  <2>10. \A s \in Req \ {r} : Same(s)
    BY DEF Same, Aside
  <2>. QED
    BY <2>9, <2>10, OneStep DEF OwnerInv, Lists
<1>. QED
  BY <1>8, <1>9

\* Every step of a thread of the daemon.
LEMMA DaemonOwner ==
    ASSUME TypeOK, TypeOK', OwnerInv, EndFlag, NEW t \in Daemon, DaemonThread(t)
    PROVE  OwnerInv'
<1>1. CASE ReadInterrupt(t) \/ ReadRequest(t) \/ ReadTooBig(t)
  <2>1. /\ ReadInterrupt(t) => Head(interrupts) \in Req
        /\ ReadRequest(t) \/ ReadTooBig(t) => Head(pending) \in Req
    BY FirstOf DEF ReadInterrupt, ReadRequest, ReadTooBig
  <2>. QED
    BY <1>1, <2>1, ReadInterruptOwner, ReadRequestOwner, ReadTooBigOwner
<1>2. CASE thread[t].r \in Req /\ (ReadEnd(t) \/ EndUnlocked(t) \/ RetrieveSend(t) \/ Copy(t))
  BY <1>2, ReadEndOwner, EndUnlockedOwner, RetrieveSendOwner, CopyOwner
<1>3. CASE WriteEnd(t)
  <2>1. thread[t].r \in Req /\ thread[t].pc = "fin"
    BY <1>3 DEF WriteEnd, TypeOK
  <2>. QED
    BY <1>3, <2>1, CopiedOwner DEF WriteEnd
<1>4. CASE \E r \in Req : WriteReply(t, r) \/ WriteInterruptReply(t, r) \/ RetrieveGet(t, r)
  BY <1>4, WriteReplyOwner, WriteInterruptReplyOwner, RetrieveGetOwner
<1>5. CASE Retrieve(t) \/ RetrieveFail(t)
  BY <1>5, RetrieveOwner
<1>6. ReadEnd(t) \/ EndUnlocked(t) \/ RetrieveSend(t) \/ Copy(t) => thread[t].r \in Req
  BY DEF ReadEnd, EndUnlocked, RetrieveSend, Copy, LockCopy, CopyFault, UnlockCopy, HandPage,
         PageHanded, ClearPage, CopyEnd, Between, TypeOK
<1>. QED
  BY <1>1, <1>2, <1>3, <1>4, <1>5, <1>6 DEF DaemonThread

-----------------------------------------------------------------------------
(* Steps of fuse_abort_conn.                                               *)

\* A step that at most moves requests from bg_queue to pending.
LEMMA NoStep ==
    ASSUME TypeOK, OwnerInv, \A s \in Req : Same(s) \/ Moved(s), UNCHANGED thread, Lists'
    PROVE  OwnerInv'
<1>1. \A s \in Req : Sound(s)'
  BY SameSound, MovedSound DEF OwnerInv
<1>. QED
  BY <1>1 DEF OwnerInv

\* The connection goes down; later fuse_abort_conn is done.
LEMMA AbortFlagsOwner ==
    ASSUME TypeOK, TypeOK', OwnerInv, AbortConn \/ AbortDone
    PROVE  OwnerInv'
<1>1. PICK pc \in {"io", "done"} : aborter' = [aborter EXCEPT !.pc = pc]
  BY DEF AbortConn, AbortDone
<1>2. aborter'.pc = pc /\ aborter'.r = aborter.r
  BY <1>1 DEF TypeOK
<1>3. aborter.r \notin Req /\ aborter'.r \notin Req
  BY <1>2 DEF TypeOK
<1>4. UNCHANGED <<req, caller, thread, lists>>
  BY DEF AbortConn, AbortDone
<1>5. \A s \in Req : Same(s)
  BY <1>3, <1>4 DEF Same, Aside, lists
<1>6. Lists'
  BY <1>4 DEF OwnerInv, Lists, lists
<1>. QED
  BY <1>4, <1>5, <1>6, NoStep

\* All background requests become pending.
LEMMA AbortFlushOwner ==
    ASSUME TypeOK, TypeOK', OwnerInv, AbortFlush
    PROVE  OwnerInv'
<1>1. /\ flush_bg_queue(req, bg_queue, active_background, pending, UintMax)
      /\ UNCHANGED <<caller, thread, interrupts, io, processing>>
      /\ aborter' = [aborter EXCEPT !.pc = "queued"]
  BY DEF AbortFlush
<1>2. aborter.r \notin Req /\ aborter'.r \notin Req
  BY <1>1 DEF TypeOK
<1>3. /\ req \in [Req -> ReqRecord] /\ bg_queue \in Seq(Req) /\ pending \in Seq(Req)
      /\ active_background \in Int /\ UintMax \in Nat /\ reqctr \in Nat
      /\ IsInjective(bg_queue) /\ IsInjective(pending)
  BY MaxAssumption DEF TypeOK, OwnerInv, Lists
<1>4. PICK O : Moves(O, req, ToSet(bg_queue), ToSet(pending))
  BY <1>1, <1>3, Apart, FlushMoves
<1>5. \A s \in Req : Aside(s)
  BY <1>1, <1>2 DEF Aside
<1>6. ASSUME NEW s \in Req PROVE Same(s) \/ Moved(s)
  <2>1. CASE s \in O
    BY <1>4, <1>5, <2>1 DEF Moves, Moved
  <2>2. CASE s \notin O
    BY <1>4, <1>5, <2>2 DEF Moves, Same
  <2>. QED
    BY <2>1, <2>2
<1>7. Lists'
  BY <1>1, <1>4 DEF OwnerInv, Lists, Moves
<1>. QED
  BY <1>1, <1>6, <1>7, NoStep

\* A request whose data is being copied is finished.
LEMMA AbortIoOwner ==
    ASSUME TypeOK, OwnerInv, NEW r \in Req, AbortIo(r)
    PROVE  OwnerInv'
<1>1. /\ aborter.pc = "io" /\ r \in io /\ io' = io \ {r}
      /\ UNCHANGED <<caller, thread, pending, bg_queue, interrupts, processing>>
      /\ aborter' = IF req[r].end THEN [pc |-> "ioWait", r |-> r, end |-> TRUE] ELSE aborter
  BY DEF AbortIo
<1>2. Sound(r) /\ req[r] \in ReqRecord /\ \A s \in Req : aborter.r # s
  BY <1>1 DEF OwnerInv, TypeOK
<1>3. /\ \A s \in Req \ {r} : req'[s] = req[s]
      /\ req'[r].state = "FINISHED" /\ req'[r].aborted /\ ~ req'[r].end
      /\ req'[r].count = IF req[r].end THEN req[r].count + 1 ELSE req[r].count
      /\ req'[r].intr_unique = req[r].intr_unique /\ req'[r].isreply = req[r].isreply
      /\ req'[r].background = req[r].background /\ req'[r].locked = req[r].locked
      /\ req'[r].interrupted = req[r].interrupted /\ req'[r].released = req[r].released
  BY <1>2 DEF AbortIo, TypeOK, Aborted, ReqRecord
<1>4. /\ Pc(r) \in Copying /\ req[r].state \in {"READING", "WRITING"} /\ ~ req[r].aborted
      /\ Waits(r) \/ caller[r] = "async"
  BY <1>1, <1>2 DEF Sound, PlaceOK, HandOK, FieldsOK
<1>5. /\ req[r].end => caller[r] = "async"
      /\ ~ req[r].released /\ ~ Hand(thread, r).end
  BY <1>2, <1>4, HandPc DEF Sound, HandOK, FieldsOK, Waits, Copying, Pc, InHand, OwnerInv
<1>6. InHand(r)
  BY <1>4, HandPc DEF Copying, Pc, InHand, OwnerInv
<1>7. \A s \in Req \ {r} : Same(s)
  BY <1>1, <1>2, <1>3 DEF Same, Aside
<1>8. /\ io' = io \ {r}
      /\ UNCHANGED <<caller, thread, pending, bg_queue, interrupts, processing>>
      /\ req[r].end => aborter'.pc = "ioWait" /\ aborter'.r = r
      /\ ~ req[r].end => aborter'.r # r
  BY <1>1, <1>2
<1>. USE <1>2, <1>3, <1>4, <1>5, <1>6, <1>8 DEF Sound, Waits, Pc, InHand
<1>9. PlaceOK(r)'
  BY DEF PlaceOK
<1>10. HandOK(r)'
  BY DEF HandOK, Copying
<1>11. AborterOK(r)'
  BY DEF AborterOK
<1>12. CallerOK(r)'
  BY DEF CallerOK
<1>13. FieldsOK(r)'
  BY DEF FieldsOK
<1>14. CountOK(r)'
  <2>1. Queue(r) /\ Queue(r)' /\ ~ AbortRef(r) /\ (AbortRef(r)' <=> req[r].end)
    BY DEF Queue, AbortRef
  <2>. QED
    BY <2>1 DEF CountOK, CallerRef, One
<1>15. Sound(r)'
  BY <1>9, <1>10, <1>11, <1>12, <1>13, <1>14
<1>. QED
  BY <1>7, <1>15, OneStep DEF OwnerInv, Lists

\* A request that is queued or with the daemon is ended.
LEMMA AbortQueuedOwner ==
    ASSUME TypeOK, OwnerInv, NEW r \in Req, AbortQueued(r)
    PROVE  OwnerInv'
<1>. DEFINE q  == [req[r] EXCEPT !.error = "ECONNABORTED"]
            rq == [req EXCEPT ![r] = q]
<1>1. /\ aborter.pc = "queued" /\ request_end(r, rq)
      /\ aborter' = [pc |-> "tail", r |-> r, end |-> req[r].end]
      /\ UNCHANGED <<caller, thread>>
  BY DEF AbortQueued
<1>2. r \in ToSet(pending) \/ r \in processing
  BY FirstOf DEF AbortQueued
<1>3. Sound(r) /\ req[r] \in ReqRecord /\ \A s \in Req : aborter.r # s
  BY <1>1 DEF OwnerInv, TypeOK
<1>4. /\ q \in ReqRecord /\ q.count = req[r].count
      /\ q.intr_unique = req[r].intr_unique /\ q.isreply = req[r].isreply
      /\ q.background = req[r].background /\ q.aborted = req[r].aborted
      /\ q.interrupted = req[r].interrupted /\ q.released = req[r].released
  BY <1>3 DEF ReqRecord, Errors
<1>. HIDE DEF q
<1>5. rq \in [Req -> ReqRecord] /\ rq[r] = q /\ \A s \in Req \ {r} : rq[s] = req[s]
  BY <1>4 DEF TypeOK
<1>. HIDE DEF rq
<1>6. /\ ~ InHand(r) /\ ~ req[r].aborted /\ r \notin ToSet(bg_queue)
      /\ Waits(r) \/ caller[r] = "async"
      /\ Pc(r) = "idle" /\ ~ Hand(thread, r).end
  BY <1>2, Resting
<1>7. aborter'.pc = "tail" /\ aborter'.r = r /\ UNCHANGED <<caller, thread>>
  BY <1>1
<1>8. /\ req'[r] = Finished(q)
      /\ r \notin ToSet(pending') /\ r \notin ToSet(bg_queue') /\ r \notin processing'
      /\ r \notin io' /\ r \notin ToSet(interrupts')
      /\ Lists'
      /\ \A s \in Req \ {r} : Same(s) \/ Moved(s)
  BY <1>1, <1>3, <1>5, <1>6, <1>7, EndOthers
<1>9. /\ req'[r].state = "FINISHED" /\ req'[r].count = req[r].count
      /\ req'[r].intr_unique = req[r].intr_unique /\ req'[r].isreply = req[r].isreply
      /\ req'[r].background = req[r].background /\ req'[r].aborted = req[r].aborted
      /\ req'[r].interrupted = req[r].interrupted
      /\ ~ req'[r].end /\ req'[r].released = req[r].released
  BY <1>4, <1>8, FinishedFields
<1>10. ~ req[r].released
  BY <1>2, <1>3, <1>6 DEF Sound, PlaceOK, FieldsOK, Waits
<1>. USE <1>3, <1>6, <1>7, <1>8, <1>9, <1>10 DEF Sound, Waits, Pc, InHand
<1>11. PlaceOK(r)'
  BY DEF PlaceOK
<1>12. HandOK(r)' /\ AborterOK(r)'
  BY DEF HandOK, AborterOK, Copying
<1>13. CallerOK(r)'
  BY DEF CallerOK
<1>14. FieldsOK(r)'
  BY DEF FieldsOK
<1>15. CountOK(r)'
  <2>1. Queue(r) /\ Queue(r)' /\ ~ AbortRef(r) /\ ~ AbortRef(r)'
    BY <1>2 DEF Queue, AbortRef
  <2>. QED
    BY <2>1 DEF CountOK, CallerRef, One
<1>16. Sound(r)'
  BY <1>11, <1>12, <1>13, <1>14, <1>15
<1>. QED
  BY <1>16, OneStep DEF OwnerInv

\* What is left of r when fuse_abort_conn gives back a reference.
LEMMA AbortPutOwner ==
    ASSUME TypeOK, TypeOK', OwnerInv, NEW r \in Req, NEW end \in BOOLEAN, aborter.r = r,
           end <=> aborter.end \/ aborter.pc = "ioWait",
           aborter.pc = "ioWait" => ~ req[r].locked,
           request_end_unlocked(r, end), aborter'.r = NoReq,
           UNCHANGED <<thread, lists>>
    PROVE  OwnerInv'
<1>1. Sound(r) /\ aborter'.r # r /\ \A s \in Req \ {r} : aborter.r # s /\ aborter'.r # s
  BY ReqAssumption DEF OwnerInv
<1>2. /\ aborter.pc \in {"ioWait", "tail"} /\ req[r].state = "FINISHED" /\ ~ req[r].end
      /\ Waits(r) \/ caller[r] \in {"unlocked", "done", "async"}
      /\ ~ Hand(thread, r).end /\ (aborter.pc = "tail" => ~ InHand(r))
      /\ Pc(r) # "locked" \/ aborter.pc = "tail"
  BY <1>1 DEF Sound, HandOK, AborterOK, FieldsOK, TypeOK, Pc
<1>3. Pc(r) # "locked"
  BY <1>2, HandPc DEF Pc, InHand, OwnerInv
<1>4. /\ r \notin ToSet(pending) /\ r \notin ToSet(bg_queue) /\ r \notin processing
      /\ r \notin io
  BY <1>1, <1>2 DEF Sound, PlaceOK
<1>5. /\ \A s \in Req \ {r} : req'[s] = req[s] /\ caller'[s] = caller[s]
      /\ req[r].count = 1 => req'[r] = FreeReq /\ caller'[r] = "none"
      /\ req[r].count # 1 =>
           /\ caller'[r] = caller[r]
           /\ req'[r].count = req[r].count - 1
           /\ req'[r].released <=> req[r].released \/ end
           /\ req'[r].state = req[r].state
           /\ req'[r].intr_unique = req[r].intr_unique
           /\ req'[r].isreply = req[r].isreply
           /\ req'[r].background = req[r].background
           /\ req'[r].locked = req[r].locked /\ req'[r].aborted = req[r].aborted
           /\ req'[r].interrupted = req[r].interrupted
           /\ req'[r].end = req[r].end /\ req'[r].error = req[r].error
  BY PutEffect
<1>6. /\ req[r].count = One(CallerRef(r)) + One(InHand(r)) + 1
      /\ aborter.pc = "ioWait" => ~ CallerRef(r)
  BY <1>1, <1>2, <1>4 DEF Sound, CountOK, Queue, AbortRef, AborterOK, CallerRef, Waits, One
<1>7. \A s \in Req \ {r} : Same(s)
  BY <1>1, <1>5 DEF Same, Aside, lists
<1>8. Sound(r)'
  <2>1. CASE req[r].count = 1
    <3>1. ~ InHand(r)
      BY <1>6, <2>1 DEF One
    <3>2. Hand(thread, r) = Idle /\ Pc(r) = "idle"
      BY <3>1, HandPc DEF InHand, Pc, OwnerInv
    <3>3. r \notin ToSet(interrupts)
      BY <1>1, <1>2, <3>2 DEF Sound, FieldsOK, Copying
    <3>4. Freed(r)'
      BY <1>1, <1>4, <1>5, <2>1, <3>2, <3>3 DEF Freed, Nowhere, lists
    <3>. QED
      BY <3>4, FreedSound
  <2>2. CASE req[r].count # 1
    <3>. USE <1>1, <1>2, <1>3, <1>4, <1>5, <2>2 DEF Sound, Waits, Pc, InHand, lists
    <3>1. PlaceOK(r)'
      BY DEF PlaceOK
    <3>2. HandOK(r)' /\ AborterOK(r)'
      BY DEF HandOK, AborterOK, Copying
    <3>3. CallerOK(r)'
      BY DEF CallerOK
    <3>4. FieldsOK(r)'
      BY DEF FieldsOK
    <3>5. CountOK(r)'
      <4>1. Queue(r)' <=> InHand(r)
        BY DEF Queue
      <4>2. ~ AbortRef(r)' /\ CallerRef(r)' = CallerRef(r)
        BY DEF AbortRef, CallerRef
      <4>3. caller[r] = "async" => One(InHand(r)) = 1
        BY <1>6 DEF CallerRef, One
      <4>. QED
        BY <1>6, <4>1, <4>2, <4>3 DEF CountOK, One
    <3>. QED
      BY <3>1, <3>2, <3>3, <3>4, <3>5
  <2>. QED
    BY <2>1, <2>2
<1>9. OneHand(thread') /\ Lists'
  BY DEF OwnerInv, Lists, lists
<1>. QED
  BY <1>7, <1>8, <1>9, OneStep

\* Every step of fuse_abort_conn.
LEMMA AbortOwner ==
    ASSUME TypeOK, TypeOK', OwnerInv, Abort
    PROVE  OwnerInv'
<1>1. CASE AbortIoEnd
  <2>1. /\ aborter.pc = "ioWait" /\ aborter.r \in Req
        /\ ~ req[aborter.r].locked /\ request_end_unlocked(aborter.r, TRUE)
        /\ UNCHANGED <<thread, lists>>
    BY <1>1 DEF AbortIoEnd, TypeOK
  <2>2. aborter'.r = NoReq
    BY <1>1 DEF AbortIoEnd
  <2>. QED
    BY <2>1, <2>2, AbortPutOwner
<1>2. CASE AbortTail
  <2>1. /\ aborter.pc = "tail" /\ aborter.r \in Req /\ aborter.end \in BOOLEAN
        /\ request_end_unlocked(aborter.r, aborter.end) /\ UNCHANGED <<thread, lists>>
    BY <1>2 DEF AbortTail, TypeOK
  <2>2. aborter'.r = NoReq
    BY <1>2 DEF AbortTail
  <2>. QED
    BY <2>1, <2>2, AbortPutOwner
<1>. QED
  BY <1>1, <1>2, AbortFlagsOwner, AbortFlushOwner, AbortIoOwner, AbortQueuedOwner DEF Abort

-----------------------------------------------------------------------------
(* The invariant, and what it says.                                        *)

LEMMA InitOwner == Init => OwnerInv /\ EndFlag
<1>. SUFFICES ASSUME Init PROVE OwnerInv /\ EndFlag
  OBVIOUS
<1>1. /\ \A r \in Req : req[r] = FreeReq /\ caller[r] = "none"
      /\ \A t \in Daemon : thread[t] = Idle
      /\ pending = <<>> /\ bg_queue = <<>> /\ interrupts = <<>>
      /\ io = {} /\ processing = {} /\ aborter.r = NoReq
  BY DEF Init
<1>2. /\ \A r : r \notin ToSet(pending) /\ r \notin ToSet(bg_queue)
                /\ r \notin ToSet(interrupts)
      /\ Lists
  BY <1>1 DEF ToSet, Lists, IsInjective
<1>3. Idle.r = NoReq /\ ~ Idle.end
  BY DEF Idle
<1>4. OneHand(thread) /\ EndFlag
  BY <1>1, <1>3 DEF OneHand, EndFlag
<1>5. ASSUME NEW r \in Req PROVE Sound(r)
  <2>1. \A t \in Daemon : thread[t].r # r
    BY <1>1, <1>3, ReqAssumption
  <2>2. Hand(thread, r) = Idle /\ Idle.r # r /\ Idle.pc = "idle" /\ aborter.r # r
    BY <1>1, <2>1, HandNone, ReqAssumption DEF Idle
  <2>. USE <1>1, <1>2, <1>3, <2>2 DEF Sound, Waits, Pc, InHand, FreeReq
  <2>3. PlaceOK(r)
    BY DEF PlaceOK
  <2>4. HandOK(r) /\ AborterOK(r)
    BY DEF HandOK, AborterOK, Copying
  <2>5. CallerOK(r)
    BY DEF CallerOK
  <2>6. FieldsOK(r)
    BY DEF FieldsOK
  <2>7. CountOK(r)
    BY DEF CountOK, CallerRef, Queue, AbortRef, One
  <2>. QED
    BY <2>3, <2>4, <2>5, <2>6, <2>7
<1>. QED
  BY <1>2, <1>4, <1>5 DEF OwnerInv

LEMMA OwnerStep ==
    ASSUME TypeOK, TypeOK', OwnerInv, EndFlag, [Next]_vars
    PROVE  OwnerInv'
<1>1. CASE UNCHANGED vars
  <2>1. UNCHANGED <<req, caller, thread, lists, aborter>>
    BY <1>1 DEF vars
  <2>2. \A s \in Req : Same(s)
    BY <2>1 DEF Same, Aside, lists
  <2>3. Lists'
    BY <2>1 DEF OwnerInv, Lists, lists
  <2>. QED
    BY <2>1, <2>2, <2>3, NoStep
<1>. QED
  BY <1>1, CallerOwner, DaemonOwner, AbortOwner DEF Next

\* Whoever holds a request, its fields, lists and references say so.
THEOREM OwnerCorrect == Spec => [](OwnerInv /\ EndFlag)
<1>1. TypeOK /\ TypeOK' /\ OwnerInv /\ EndFlag /\ [Next]_vars => (OwnerInv /\ EndFlag)'
  BY OwnerStep, EndFlagStep
<1>. QED
  BY <1>1, InitOwner, TypeCorrect, PTL DEF Spec

\* The reference count of a request is the number of its holders in every state,
\* whoever drops the last one; a request on the interrupt list is alive.
THEOREM RefsCorrect == Spec => []RefsExact
<1>1. ASSUME TypeOK, OwnerInv PROVE RefsExact
  <2>. SUFFICES ASSUME NEW r \in Req
                PROVE  /\ req[r].count = One(CallerRef(r)) + One(QueueRef(r)) + One(AbortRef(r))
                       /\ (req[r].count = 0) <=> (caller[r] \in {"none", "blocked"})
                       /\ r \in ToSet(interrupts) => req[r].count > 0
    BY DEF RefsExact
  <2>1. Sound(r)
    BY <1>1 DEF OwnerInv
  <2>2. QueueRef(r) <=> Queue(r)
    BY <1>1, HandThere DEF QueueRef, Queue, InCall, InHand, OwnerInv
  <2>3. req[r].count = One(CallerRef(r)) + One(QueueRef(r)) + One(AbortRef(r))
    BY <2>1, <2>2 DEF Sound, CountOK, One
  <2>4. caller[r] \in {"none", "blocked"} => req[r].count = 0
    BY <2>1 DEF Sound, CallerOK, FreeReq
  <2>5. caller[r] \notin {"none", "blocked"} => req[r].count > 0
    <3>1. caller[r] \in CallerPc
      BY <1>1 DEF TypeOK
    <3>2. caller[r] = "retrieve" => InHand(r)
      BY <2>1 DEF Sound, CallerOK
    <3>3. caller[r] \in CallerPc \ {"none", "blocked", "async"} => CallerRef(r) \/ Queue(r)
      BY <3>2 DEF CallerPc, CallerRef, Queue, Waits
    <3>4. CallerRef(r) \/ Queue(r) => req[r].count > 0
      BY <2>1 DEF Sound, CountOK, One
    <3>5. caller[r] = "async" => req[r].count > 0
      BY <2>1 DEF Sound, CountOK
    <3>. QED
      BY <3>1, <3>3, <3>4, <3>5
  <2>6. r \in ToSet(interrupts) => caller[r] \notin {"none", "blocked"}
    BY <2>1 DEF Sound, FieldsOK, CallerOK, FreeReq
  <2>7. req[r].count = 0 => caller[r] \in {"none", "blocked"}
    BY <2>5
  <2>. QED
    BY <2>3, <2>4, <2>5, <2>6, <2>7
<1>. QED
  BY <1>1, TypeCorrect, OwnerCorrect, PTL

\* A request is on the list its state says, once, and in one system call at most.
THEOREM ListsCorrect == Spec => []OnOneList
<1>1. ASSUME TypeOK, OwnerInv PROVE OnOneList
  <2>1. \A r \in Req : Sound(r)
    BY <1>1 DEF OwnerInv
  <2>2. ToSet(bg_queue) \subseteq Req /\ ToSet(pending) \subseteq Req
    BY <1>1 DEF TypeOK, ToSet
  <2>3. IsInjective(pending) /\ IsInjective(bg_queue)
    BY <1>1 DEF OwnerInv, Lists
  <2>4. \A r \in ToSet(bg_queue) : req[r].state = "INIT" /\ req[r].background
    BY <2>1, <2>2 DEF Sound, PlaceOK
  <2>5. \A r \in ToSet(pending) : req[r].state = "PENDING"
    BY <2>1, <2>2 DEF Sound, PlaceOK
  <2>6. processing = InState("SENT") /\ io = InState("READING") \union InState("WRITING")
    BY <1>1, <2>1 DEF Sound, PlaceOK, InState, TypeOK
  <2>7. \A r \in io : \E t \in Daemon : InCall(t, r)
    <3>. SUFFICES ASSUME NEW r \in io PROVE \E t \in Daemon : InCall(t, r)
      OBVIOUS
    <3>1. r \in Req /\ Pc(r) \in Copying
      BY <1>1, <2>1 DEF Sound, HandOK, TypeOK
    <3>2. Hand(thread, r).r = r
      BY <1>1, <3>1, HandPc DEF Copying, Pc, OwnerInv
    <3>. QED
      BY <1>1, <3>1, <3>2, HandThere DEF InCall, OwnerInv
  <2>8. \A t1, t2 \in Daemon : thread[t1].r = thread[t2].r /\ thread[t1].r # NoReq => t1 = t2
    BY <1>1 DEF OwnerInv, OneHand
  <2>9. \A r \in processing \union ToSet(pending) : ~ req[r].aborted
    BY <1>1, <2>1, <2>2 DEF Sound, PlaceOK, FieldsOK, TypeOK
  <2>. QED
    BY <2>3, <2>4, <2>5, <2>6, <2>7, <2>8, <2>9 DEF OnOneList
<1>. QED
  BY <1>1, TypeCorrect, OwnerCorrect, PTL

\* No interrupt is lost and none is queued twice, whether the signal came before,
\* while or after the daemon read the request.
THEOREM InterruptsCorrect == Spec => []InterruptKept
<1>1. ASSUME TypeOK, OwnerInv PROVE InterruptKept
  BY <1>1 DEF InterruptKept, OwnerInv, Lists, Sound, FieldsOK, PlaceOK, TypeOK
<1>. QED
  BY <1>1, TypeCorrect, OwnerCorrect, PTL

\* Nobody takes back the buffers of a request while a thread copies to or from
\* them with the request locked.
THEOREM CopyCorrect == Spec => []CopySafe
<1>1. ASSUME TypeOK, OwnerInv PROVE CopySafe
  <2>. SUFFICES ASSUME NEW t \in Daemon, thread[t].pc = "locked" PROVE Owned(thread[t].r)
    BY DEF CopySafe
  <2>1. thread[t].r \in Req /\ Hand(thread, thread[t].r) = thread[t]
    BY <1>1, InCopy DEF Copying
  <2>2. HandOK(thread[t].r)
    BY <1>1, <2>1 DEF OwnerInv, Sound
  <2>. QED
    BY <2>1, <2>2 DEF HandOK, Owned, Pc
<1>. QED
  BY <1>1, TypeCorrect, OwnerCorrect, PTL

\* An end callback is run at most once and no BUG_ON is met, whichever of the caller,
\* the threads of the daemon and fuse_abort_conn ends the request.
THEOREM EndCorrect == Spec => []EndSound
<1>1. ASSUME TypeOK, OwnerInv, EndFlag, NEW r \in Req
      PROVE  One(req[r].released) + One(req[r].end) + One(caller[r] = "ending_cb")
               + One(aborter.r = r /\ aborter.end)
               + Cardinality({t \in Daemon : InCall(t, r) /\ thread[t].end})
               <= IF caller[r] = "leaked" THEN 2 ELSE 1
  <2>. DEFINE ends == {t \in Daemon : InCall(t, r) /\ thread[t].end}
              h    == Hand(thread, r).end
  <2>1. Sound(r)
    BY <1>1 DEF OwnerInv
  <2>2. Cardinality(ends) = One(h)
    <3>1. CASE \E t \in Daemon : thread[t].r = r
      <4>1. PICK t \in Daemon : thread[t].r = r
        BY <3>1
      <4>2. \A u \in Daemon : thread[u].r = r => u = t
        BY <1>1, <4>1, ReqAssumption DEF OwnerInv, OneHand
      <4>3. Hand(thread, r) = thread[t]
        BY <1>1, <4>1, HandIs DEF OwnerInv
      <4>4. ends = IF h THEN {t} ELSE {}
        BY <4>1, <4>2, <4>3 DEF InCall
      <4>. QED
        BY <4>4, FS_EmptySet, FS_Singleton DEF One
    <3>2. CASE \A t \in Daemon : thread[t].r # r
      <4>1. Hand(thread, r) = Idle /\ ends = {}
        BY <3>2, HandNone DEF InCall
      <4>2. ~ h
        BY <4>1 DEF Idle
      <4>. HIDE DEF ends, h
      <4>3. Cardinality(ends) = 0
        BY <4>1, FS_EmptySet
      <4>. QED
        BY <4>2, <4>3 DEF One
    <3>. QED
      BY <3>1, <3>2
  <2>3. h => /\ req[r].state = "FINISHED" /\ ~ req[r].released /\ aborter.r # r
             /\ caller[r] # "ending_cb" /\ caller[r] # "leaked"
    BY <2>1 DEF Sound, HandOK, Waits
  <2>4. aborter.r = r /\ aborter.end =>
             /\ req[r].state = "FINISHED" /\ ~ req[r].released
             /\ caller[r] # "ending_cb" /\ caller[r] # "leaked"
    BY <2>1 DEF Sound, AborterOK, Waits
  <2>5. caller[r] = "ending_cb" => req[r].state = "FINISHED" /\ ~ req[r].released
    BY <2>1 DEF Sound, CallerOK
  <2>6. /\ req[r].state = "FINISHED" => ~ req[r].end
        /\ req[r].released => req[r].state = "FINISHED" \/ caller[r] = "leaked"
    BY <2>1 DEF Sound, FieldsOK
  <2>. HIDE DEF ends, h
  <2>7. One(req[r].released) + One(req[r].end) + One(caller[r] = "ending_cb")
          + One(aborter.r = r /\ aborter.end) + One(h)
          <= IF caller[r] = "leaked" THEN 2 ELSE 1
    BY <2>3, <2>4, <2>5, <2>6 DEF One
  <2>. QED
    BY <2>2, <2>7 DEF ends
<1>2. ASSUME TypeOK, OwnerInv, NEW r \in Req
      PROVE  /\ caller[r] = "fatal" /\ req[r].state = "PENDING" => req[r].count >= 2
             /\ req[r].aborted => req[r].state = "FINISHED"
  <2>1. Sound(r)
    BY <1>2 DEF OwnerInv
  <2>2. caller[r] = "fatal" /\ req[r].state = "PENDING" => Queue(r) /\ CallerRef(r)
    BY <2>1 DEF Sound, PlaceOK, Queue, CallerRef, Waits
  <2>. QED
    BY <2>1, <2>2 DEF Sound, CountOK, FieldsOK, One
<1>3. TypeOK /\ OwnerInv /\ EndFlag => EndSound
  BY <1>1, <1>2 DEF EndSound, EndOnce, NoBug
<1>. QED
  BY <1>3, TypeCorrect, OwnerCorrect, PTL

-----------------------------------------------------------------------------
(* The promise of FuseCall.                                                *)

\* What the caller's place and the request say of the phase.
PhaseOf(c, q) ==
    IF q.count = 0 \/ c \in {"blocked", "none"} THEN "idle"
    ELSE IF q.state = "FINISHED" \/ q.error \in Refusals THEN "settled"
    ELSE IF q.state \in {"READING", "SENT", "WRITING"} THEN "delivered"
    ELSE IF q.state = "PENDING" \/ c = "async" THEN "queued"
    ELSE "prepared"

LEMMA PhaseIs ==
    ASSUME NEW r
    PROVE  Phase(r) = PhaseOf(caller[r], req[r]) /\ Phase(r)' = PhaseOf(caller'[r], req'[r])
  BY DEF Phase, PhaseOf

LEMMA PhaseCases ==
    ASSUME NEW c, NEW q, q.count = 0 <=> c \in {"none", "blocked"}
    PROVE  LET p == PhaseOf(c, q)
           IN  /\ c \in {"none", "blocked"} => p = "idle"
               /\ c \notin {"none", "blocked"} =>
                     /\ q.state = "FINISHED" \/ q.error \in Refusals => p = "settled"
                     /\ q.state # "FINISHED" /\ q.error \notin Refusals =>
                          /\ q.state \in {"READING", "SENT", "WRITING"} => p = "delivered"
                          /\ q.state = "PENDING" => p = "queued"
                          /\ q.state = "INIT" =>
                               p = IF c = "async" THEN "queued" ELSE "prepared"
  BY DEF PhaseOf

\* The outcome FuseCall sees.
Outcome(r) == IF Phase(r) = "settled" THEN req[r].error ELSE "none"
Still(r)   == Phase(r)' = Phase(r) /\ Outcome(r)' = Outcome(r)

\* What a step may do to one request.
Goes(r, from, to)    == Phase(r) = from /\ Phase(r)' = to
Settles(r, from, errors) == Goes(r, from, "settled") /\ req'[r].error \in errors
CallStep(r) ==
    \/ Still(r)
    \/ Goes(r, "idle", "prepared")
    \/ connected /\ Goes(r, "prepared", "queued")
    \/ connected /\ Goes(r, "queued", "delivered")
    \/ Settles(r, "delivered", {"answer", "none", "EIO"})
    \/ connected /\ Settles(r, "queued", {"EIO"})
    \/ Settles(r, "queued", {"EINTR"})
    \/ Settles(r, "prepared", {IF connected THEN "ECONNREFUSED" ELSE "ENOTCONN"})
    \/ ~ connected /\ Settles(r, "queued", {"ECONNABORTED"})
    \/ ~ connected /\ Settles(r, "delivered", {"ECONNABORTED"})
    \/ Goes(r, "settled", "idle")

\* Such a step is one of FuseCall when the other requests are left alone.
LEMMA OneCall ==
    ASSUME NEW r \in Req, CallStep(r), \A s \in Req \ {r} : Still(s), UNCHANGED connected
    PROVE  [Call!Next]_(Call!vars)
<1>. DEFINE phase   == [s \in Req |-> Phase(s)]
            outcome == [s \in Req |-> IF Phase(s) = "settled" THEN req[s].error ELSE "none"]
<1>1. /\ \A s \in Req : phase[s] = Phase(s) /\ outcome[s] = Outcome(s)
      /\ phase' = [s \in Req |-> Phase(s)'] /\ outcome' = [s \in Req |-> Outcome(s)']
  BY DEF Outcome
<1>2. phase' = [phase EXCEPT ![r] = Phase(r)'] /\ outcome' = [outcome EXCEPT ![r] = Outcome(r)']
  BY <1>1 DEF Still
<1>3. ASSUME NEW from, NEW to, Goes(r, from, to)
      PROVE  Call!Move(r, from, to)
  BY <1>1, <1>2, <1>3 DEF Goes, Call!Move
<1>4. ASSUME NEW from, NEW to, Goes(r, from, to), from # "settled", to # "settled"
      PROVE  outcome' = outcome
  <2>1. \A s \in Req : Outcome(s)' = Outcome(s)
    BY <1>4 DEF Goes, Outcome, Still
  <2>2. outcome = [s \in Req |-> Outcome(s)]
    BY DEF Outcome
  <2>. HIDE DEF outcome
  <2>. QED
    BY <1>1, <2>1, <2>2
<1>5. ASSUME NEW from, NEW errors, Settles(r, from, errors)
      PROVE  \E error \in errors : Call!Settle(r, from, error)
  <2>1. PICK error \in errors : error = req'[r].error
    BY <1>5 DEF Settles
  <2>2. Outcome(r)' = error /\ Goes(r, from, "settled")
    BY <1>5, <2>1 DEF Settles, Goes, Outcome
  <2>3. Call!Settle(r, from, error)
    BY <1>2, <1>3, <2>2 DEF Call!Settle
  <2>. QED
    BY <2>3
<1>6. CASE Still(r)
  <2>1. phase' = phase /\ outcome' = outcome
    BY <1>1, <1>6 DEF Still
  <2>. QED
    BY <2>1 DEF Call!vars
<1>7. CASE Goes(r, "idle", "prepared")
  BY <1>3, <1>4, <1>7 DEF Call!Next, Call!Prepare
<1>8. CASE connected /\ Goes(r, "prepared", "queued")
  BY <1>3, <1>4, <1>8 DEF Call!Next, Call!Send
<1>9. CASE connected /\ Goes(r, "queued", "delivered")
  BY <1>3, <1>4, <1>9 DEF Call!Next, Call!Deliver
<1>10. CASE Settles(r, "delivered", {"answer", "none", "EIO"})
  BY <1>5, <1>10 DEF Call!Next, Call!Answer
<1>11. CASE connected /\ Settles(r, "queued", {"EIO"})
  BY <1>5, <1>11 DEF Call!Next, Call!TooBig
<1>12. CASE Settles(r, "queued", {"EINTR"})
  BY <1>5, <1>12 DEF Call!Next, Call!Kill
<1>13. CASE Settles(r, "prepared", {IF connected THEN "ECONNREFUSED" ELSE "ENOTCONN"})
  BY <1>5, <1>13 DEF Call!Next, Call!Refuse
<1>14. CASE ~ connected /\ Settles(r, "queued", {"ECONNABORTED"})
  BY <1>5, <1>14 DEF Call!Next, Call!Abort
<1>15. CASE ~ connected /\ Settles(r, "delivered", {"ECONNABORTED"})
  BY <1>5, <1>15 DEF Call!Next, Call!Abort
<1>16. CASE Goes(r, "settled", "idle")
  <2>1. Outcome(r)' = "none"
    BY <1>16 DEF Goes, Outcome
  <2>. QED
    BY <1>2, <1>3, <1>16, <2>1 DEF Call!Next, Call!Free
<1>. QED
  BY <1>6, <1>7, <1>8, <1>9, <1>10, <1>11, <1>12, <1>13, <1>14, <1>15, <1>16 DEF CallStep

\* The facts about a phase p of a request with caller's place c and contents q.
PhaseFact(p, c, q) ==
    /\ c \in {"none", "blocked"} => p = "idle"
    /\ c \notin {"none", "blocked"} =>
         /\ q.state = "FINISHED" \/ q.error \in Refusals => p = "settled"
         /\ q.state # "FINISHED" /\ q.error \notin Refusals =>
              /\ q.state \in {"READING", "SENT", "WRITING"} => p = "delivered"
              /\ q.state = "PENDING" => p = "queued"
              /\ q.state = "INIT" => p = IF c = "async" THEN "queued" ELSE "prepared"

LEMMA PhaseNow ==
    ASSUME RefsExact, NEW r \in Req
    PROVE  PhaseFact(Phase(r), caller[r], req[r])
<1>1. req[r].count = 0 <=> caller[r] \in {"none", "blocked"}
  BY DEF RefsExact
<1>. QED
  BY <1>1, PhaseIs, PhaseCases DEF PhaseFact

LEMMA PhaseThen ==
    ASSUME RefsExact', NEW r \in Req
    PROVE  PhaseFact(Phase(r)', caller'[r], req'[r])
<1>1. req'[r].count = 0 <=> caller'[r] \in {"none", "blocked"}
  BY DEF RefsExact
<1>. QED
  BY <1>1, PhaseIs, PhaseCases DEF PhaseFact

\* What is known in a state.
Known == TypeOK /\ OwnerInv /\ RefsExact

\* Errors of requests that are not over.
LEMMA NotRefused ==
    ASSUME Known, NEW r \in Req
    PROVE  /\ req[r].state = "WRITING" => req[r].error = "answer"
           /\ req[r].state \in {"INIT", "PENDING", "READING", "SENT"} /\ caller[r] # "done"
                => req[r].error = "none"
           /\ "answer" \notin Refusals /\ "none" \notin Refusals
           /\ req[r].state \in {"INIT", "PENDING", "READING", "SENT", "WRITING", "FINISHED"}
  BY DEF Known, OwnerInv, Sound, FieldsOK, Refusals, TypeOK, ReqRecord

\* A request that at most leaves bg_queue for pending stays in its phase.
LEMMA Left ==
    ASSUME Known, Known', NEW s \in Req, caller'[s] = caller[s], req'[s].error = req[s].error,
           \/ req'[s].state = req[s].state
           \/ s \in ToSet(bg_queue) /\ req'[s].state = "PENDING"
    PROVE  Still(s)
<1>1. PhaseFact(Phase(s), caller[s], req[s]) /\ PhaseFact(Phase(s)', caller'[s], req'[s])
  BY PhaseNow, PhaseThen DEF Known
<1>2. s \in ToSet(bg_queue) => req[s].state = "INIT" /\ caller[s] = "async"
  BY DEF Known, OwnerInv, Sound, PlaceOK
<1>3. Phase(s)' = Phase(s)
  BY <1>1, <1>2, NotRefused DEF PhaseFact
<1>. QED
  BY <1>3 DEF Still, Outcome

\* What flush_bg_queue does to the phases.
LEMMA FlushLeaves ==
    ASSUME NEW rq \in [Req -> ReqRecord], NEW bgq \in Seq(Req), NEW active \in Int, NEW pend,
           NEW max \in Nat, flush_bg_queue(rq, bgq, active, pend, max)
    PROVE  \A s \in Req : /\ req'[s].error = rq[s].error
                          /\ \/ req'[s].state = rq[s].state
                             \/ s \in ToSet(bgq) /\ req'[s].state = "PENDING"
<1>. DEFINE room == IF max > active THEN max - active ELSE 0
            n    == IF room < Len(bgq) THEN room ELSE Len(bgq)
            out  == SubSeq(bgq, 1, n)
            Pos(r) == CHOOSE i \in 1 .. n : out[i] = r
<1>1. n \in Nat /\ n <= Len(bgq)
  OBVIOUS
<1>2. req' = [r \in Req |-> IF r \in ToSet(out)
                              THEN Queued(rq[r], reqctr + Pos(r), rq[r].isreply)
                              ELSE rq[r]]
  BY DEF flush_bg_queue
<1>. HIDE DEF n
<1>3. ToSet(out) \subseteq ToSet(bgq)
  <2>1. \A i \in 1 .. n : bgq[i] \in Req /\ i \in DOMAIN bgq
    BY <1>1
  <2>2. out \in Seq(Req) /\ Len(out) = n /\ \A i \in 1 .. n : out[i] = bgq[i]
    BY <1>1, <2>1, SubSeqProperties
  <2>. HIDE DEF out
  <2>. QED
    BY <2>1, <2>2 DEF ToSet
<1>. HIDE DEF out, Pos
<1>4. ASSUME NEW s \in Req, s \in ToSet(out)
      PROVE  req'[s].error = rq[s].error /\ req'[s].state = "PENDING"
  <2>1. req'[s] = Queued(rq[s], reqctr + Pos(s), rq[s].isreply) /\ rq[s] \in ReqRecord
    BY <1>2, <1>4
  <2>. QED
    BY <2>1 DEF Queued, ReqRecord
<1>5. \A s \in Req : s \notin ToSet(out) => req'[s] = rq[s]
  BY <1>2
<1>. QED
  BY <1>3, <1>4, <1>5

\* ... and request_end of r.
LEMMA EndLeaves ==
    ASSUME Known, Known', NEW r \in Req, NEW rq \in [Req -> ReqRecord],
           r \notin ToSet(bg_queue), request_end(r, rq),
           \A s \in Req \ {r} : rq[s] = req[s] /\ caller'[s] = caller[s]
    PROVE  /\ req'[r].state = "FINISHED" /\ req'[r].error = rq[r].error
           /\ \A s \in Req \ {r} : Still(s)
<1>. DEFINE ended == [rq EXCEPT ![r] = Finished(rq[r])]
<1>1. Finished(rq[r]) \in ReqRecord /\ Finished(rq[r]).state = "FINISHED"
      /\ Finished(rq[r]).error = rq[r].error
  BY FinishedFields
<1>2. /\ ended \in [Req -> ReqRecord] /\ ended[r] = Finished(rq[r])
      /\ \A s \in Req \ {r} : ended[s] = req[s]
  BY <1>1
<1>3. \A s \in Req : /\ req'[s].error = ended[s].error
                     /\ \/ req'[s].state = ended[s].state
                        \/ s \in ToSet(bg_queue) /\ req'[s].state = "PENDING"
  <2>1. CASE rq[r].background
    <3>1. flush_bg_queue(ended, bg_queue, active_background - 1, Unlink(pending, r),
                         max_background)
      BY <2>1 DEF request_end
    <3>2. bg_queue \in Seq(Req) /\ active_background - 1 \in Int /\ max_background \in Nat
      BY DEF Known, TypeOK
    <3>. HIDE DEF ended
    <3>. QED
      BY <1>2, <3>1, <3>2, FlushLeaves
  <2>2. CASE ~ rq[r].background
    BY <2>2 DEF request_end
  <2>. QED
    BY <2>1, <2>2
<1>. HIDE DEF ended
<1>4. \A s \in Req \ {r} : Still(s)
  BY <1>2, <1>3, Left
<1>. QED
  BY <1>1, <1>2, <1>3, <1>4

\* A step that gives back a reference to a finished request: it is idle again or
\* stays settled.
LEMMA PutCall ==
    ASSUME Known, Known', NEW r \in Req, NEW end \in BOOLEAN, request_end_unlocked(r, end),
           req[r].state = "FINISHED", UNCHANGED connected
    PROVE  [Call!Next]_(Call!vars)
<1>1. PhaseFact(Phase(r), caller[r], req[r]) /\ PhaseFact(Phase(r)', caller'[r], req'[r])
  BY PhaseNow, PhaseThen DEF Known
<1>2. caller[r] \notin {"none", "blocked"}
  BY DEF Known, OwnerInv, Sound, CallerOK, FreeReq
<1>3. /\ \A s \in Req \ {r} : req'[s] = req[s] /\ caller'[s] = caller[s]
      /\ req[r].count = 1 => caller'[r] = "none"
      /\ req[r].count # 1 => /\ caller'[r] = caller[r] /\ req'[r].state = req[r].state
                             /\ req'[r].error = req[r].error
  BY PutEffect DEF Known
<1>4. \A s \in Req \ {r} : Still(s)
  BY <1>3, Left
<1>5. CallStep(r)
  <2>1. CASE req[r].count = 1
    BY <1>1, <1>2, <1>3, <2>1 DEF PhaseFact, CallStep, Goes
  <2>2. CASE req[r].count # 1
    BY <1>3, <2>2, Left DEF CallStep
  <2>. QED
    BY <2>1, <2>2
<1>. QED
  BY <1>4, <1>5, OneCall

-----------------------------------------------------------------------------
(* Every step is a step of FuseCall.                                       *)

\* A request keeps its phase when its state, its error and the kind of its
\* caller stay.
LEMMA SamePhase ==
    ASSUME Known, Known', NEW s \in Req,
           req'[s].state = req[s].state, req'[s].error = req[s].error,
           caller[s] \in {"none", "blocked"} <=> caller'[s] \in {"none", "blocked"},
           caller[s] = "async" <=> caller'[s] = "async"
    PROVE  Still(s)
<1>1. PhaseFact(Phase(s), caller[s], req[s]) /\ PhaseFact(Phase(s)', caller'[s], req'[s])
  BY PhaseNow, PhaseThen DEF Known
<1>2. Phase(s)' = Phase(s)
  BY <1>1, NotRefused DEF PhaseFact
<1>. QED
  BY <1>2 DEF Still, Outcome

LEMMA AllStill ==
    ASSUME \A s \in Req : Still(s), UNCHANGED connected
    PROVE  [Call!Next]_(Call!vars)
<1>. DEFINE phase   == [s \in Req |-> Phase(s)]
            outcome == [s \in Req |-> IF Phase(s) = "settled" THEN req[s].error ELSE "none"]
<1>1. phase' = [s \in Req |-> Phase(s)'] /\ outcome' = [s \in Req |-> Outcome(s)']
  BY DEF Outcome
<1>2. outcome = [s \in Req |-> Outcome(s)]
  BY DEF Outcome
<1>. HIDE DEF outcome
<1>3. phase' = phase
  BY <1>1 DEF Still
<1>4. outcome' = outcome
  BY <1>1, <1>2 DEF Still
<1>. USE DEF outcome
<1>. QED
  BY <1>3, <1>4 DEF Call!vars

\* A step that changes neither states nor errors nor callers.
LEMMA Nothing ==
    ASSUME Known, Known', UNCHANGED <<caller, connected>>,
           \A s \in Req : req'[s].state = req[s].state /\ req'[s].error = req[s].error
    PROVE  [Call!Next]_(Call!vars)
  BY SamePhase, AllStill

\* A step that is about r only.
LEMMA OneOnly ==
    ASSUME Known, Known', NEW r \in Req, CallStep(r), UNCHANGED connected,
           \A s \in Req \ {r} : req'[s] = req[s] /\ caller'[s] = caller[s]
    PROVE  [Call!Next]_(Call!vars)
<1>1. \A s \in Req \ {r} : Still(s)
  BY SamePhase
<1>. QED
  BY <1>1, OneCall

\* The waits.
LEMMA WaitCall ==
    ASSUME Known, Known', NEW r \in Req,
           \/ GetReq(r) \/ GetReqFail(r) \/ Sleep(r) \/ WaitDone(r) \/ WaitUnlocked(r)
           \/ WaitInterrupted(r)
    PROVE  [Call!Next]_(Call!vars)
<1>1. req[r] \in ReqRecord /\ caller \in [Req -> CallerPc]
  BY DEF Known, TypeOK
<1>2. /\ UNCHANGED connected
      /\ \A s \in Req \ {r} : caller'[s] = caller[s]
      /\ caller[r] \in {"none", "blocked"} <=> caller'[r] \in {"none", "blocked"}
      /\ caller[r] = "async" <=> caller'[r] = "async"
  BY <1>1 DEF GetReq, GetReqFail, Sleep, WaitDone, WaitUnlocked, WaitInterrupted, FatalWait,
              Waits, flags
<1>3. \A s \in Req : req'[s].state = req[s].state /\ req'[s].error = req[s].error
  <2>1. CASE WaitInterrupted(r)
    <3>1. req' = [req EXCEPT ![r] = [req[r] EXCEPT !.interrupted = TRUE]]
      BY <2>1 DEF WaitInterrupted
    <3>. QED
      BY <1>1, <3>1, ZenonT(60) DEF ReqRecord, Known, TypeOK
  <2>2. CASE UNCHANGED req
    BY <2>2
  <2>. QED
    BY <2>1, <2>2 DEF GetReq, GetReqFail, Sleep, WaitDone, WaitUnlocked
<1>. QED
  BY <1>2, <1>3, SamePhase, AllStill

\* A new request is prepared.
LEMMA AllocCall ==
    ASSUME Known, Known', NEW r \in Req, GetReqDone(r) \/ RequestAlloc(r)
    PROVE  [Call!Next]_(Call!vars)
<1>1. /\ caller[r] \in {"none", "blocked"} /\ caller'[r] = "alloc"
      /\ \A s \in Req \ {r} : req'[s] = req[s] /\ caller'[s] = caller[s]
      /\ UNCHANGED connected
  BY ZenonT(60) DEF GetReqDone, RequestAlloc, Known, TypeOK, flags
<1>2. req'[r].state = "INIT" /\ req'[r].error = "none"
  BY <1>1 DEF Known, OwnerInv, Sound, CallerOK
<1>3. PhaseFact(Phase(r), caller[r], req[r]) /\ PhaseFact(Phase(r)', caller'[r], req'[r])
  BY PhaseNow, PhaseThen DEF Known
<1>4. Goes(r, "idle", "prepared")
  BY <1>1, <1>2, <1>3 DEF PhaseFact, Goes, Refusals
<1>. QED
  BY <1>1, <1>4, OneOnly DEF CallStep

\* An allocated request is prepared.
LEMMA Prepared ==
    ASSUME Known, NEW r \in Req, caller[r] \in {"alloc", "retrieve"}
    PROVE  /\ Phase(r) = "prepared" /\ req[r].error = "none" /\ req[r].state = "INIT"
           /\ req[r] \in ReqRecord
           /\ r \notin ToSet(bg_queue)
<1>1. /\ req[r].error = "none" /\ req[r].state = "INIT" /\ req[r] \in ReqRecord
      /\ r \notin ToSet(bg_queue)
  BY DEF Known, OwnerInv, Sound, CallerOK, PlaceOK, TypeOK
<1>. QED
  BY <1>1, PhaseNow DEF PhaseFact, Refusals, Known

LEMMA RefusedCall ==
    ASSUME Known, Known', NEW r \in Req, RequestRefused(r)
    PROVE  [Call!Next]_(Call!vars)
<1>. DEFINE e == IF connected THEN "ECONNREFUSED" ELSE "ENOTCONN"
<1>1. /\ caller[r] = "alloc" /\ caller'[r] = "done"
      /\ \A s \in Req \ {r} : req'[s] = req[s] /\ caller'[s] = caller[s]
      /\ UNCHANGED connected
  BY DEF RequestRefused, Known, TypeOK, flags
<1>2. req'[r].error = e
  <2>1. req[r] \in ReqRecord
    BY DEF Known, TypeOK
  <2>2. req'[r] = [req[r] EXCEPT !.isreply = TRUE, !.error = e]
    BY DEF RequestRefused, Known, TypeOK
  <2>. QED
    BY <2>1, <2>2 DEF ReqRecord
<1>3. PhaseFact(Phase(r)', caller'[r], req'[r])
  BY PhaseThen DEF Known
<1>4. Settles(r, "prepared", {e})
  BY <1>1, <1>2, <1>3, Prepared DEF PhaseFact, Goes, Settles, Refusals
<1>. QED
  BY <1>1, <1>4, OneOnly DEF CallStep

LEMMA SendCall ==
    ASSUME Known, Known', NEW r \in Req, RequestSend(r)
    PROVE  [Call!Next]_(Call!vars)
<1>1. /\ caller[r] = "alloc" /\ caller'[r] \in {"intr", "fatal", "answer"}
      /\ \A s \in Req \ {r} : req'[s] = req[s] /\ caller'[s] = caller[s]
      /\ connected /\ UNCHANGED connected
  BY DEF RequestSend, FirstWait, FatalWait, Known, TypeOK, flags
<1>2. req'[r].state = "PENDING" /\ req'[r].error = "none"
  <2>1. req'[r] = get_request(Queued(req[r], reqctr + 1, TRUE)) /\ reqctr + 1 \in Nat
    BY DEF RequestSend, Known, TypeOK
  <2>. QED
    BY <1>1, <2>1, Prepared DEF get_request, Queued, ReqRecord
<1>3. PhaseFact(Phase(r)', caller'[r], req'[r])
  BY PhaseThen DEF Known
<1>4. Goes(r, "prepared", "queued")
  BY <1>1, <1>2, <1>3, Prepared DEF PhaseFact, Goes, Refusals
<1>. QED
  BY <1>1, <1>4, OneOnly DEF CallStep

\* A step that finishes r, leaving r's caller to look at an error.
LEMMA EndCall ==
    ASSUME Known, Known', NEW r \in Req, NEW rq \in [Req -> ReqRecord],
           r \notin ToSet(bg_queue), request_end(r, rq),
           \A s \in Req \ {r} : rq[s] = req[s] /\ caller'[s] = caller[s],
           caller'[r] \notin {"none", "blocked"}, UNCHANGED connected,
           \/ Phase(r) = "settled" /\ rq[r].error = req[r].error
           \/ /\ Phase(r) = "prepared"
              /\ rq[r].error = IF connected THEN "ECONNREFUSED" ELSE "ENOTCONN"
           \/ Phase(r) = "queued" /\ connected /\ rq[r].error = "EIO"
           \/ Phase(r) \in {"queued", "delivered"} /\ ~ connected /\ rq[r].error = "ECONNABORTED"
           \/ Phase(r) = "delivered" /\ rq[r].error \in {"answer", "none", "EIO"}
    PROVE  [Call!Next]_(Call!vars)
<1>1. /\ req'[r].state = "FINISHED" /\ req'[r].error = rq[r].error
      /\ \A s \in Req \ {r} : Still(s)
  BY EndLeaves
<1>2. PhaseFact(Phase(r)', caller'[r], req'[r])
  BY PhaseThen DEF Known
<1>3. Phase(r)' = "settled"
  BY <1>1, <1>2 DEF PhaseFact
<1>4. CallStep(r)
  BY <1>1, <1>3 DEF CallStep, Still, Goes, Settles, Outcome
<1>. QED
  BY <1>1, <1>4, OneCall

LEMMA SendBackgroundCall ==
    ASSUME Known, Known', NEW r \in Req, RequestSendBackground(r)
    PROVE  [Call!Next]_(Call!vars)
<1>1. PICK end \in BOOLEAN :
        LET q == [req[r] EXCEPT !.isreply = TRUE, !.end = end]
        IN \/ /\ connected
              /\ send_nowait_locked(r, q)
              /\ caller' = [caller EXCEPT ![r] = "async"]
           \/ /\ ~ connected
              /\ request_end(r, [req EXCEPT ![r] = [q EXCEPT !.error = "ENOTCONN"]])
              /\ caller' = [caller EXCEPT ![r] = IF end THEN "ending_cb" ELSE "ending"]
  BY DEF RequestSendBackground
<1>. DEFINE q == [req[r] EXCEPT !.isreply = TRUE, !.end = end]
<1>2. caller[r] = "alloc" /\ UNCHANGED connected
  BY DEF RequestSendBackground, flags
<1>3. /\ Phase(r) = "prepared" /\ req[r].error = "none" /\ req[r].state = "INIT"
      /\ req[r] \in ReqRecord /\ r \notin ToSet(bg_queue)
  BY <1>2, Prepared
<1>4. q \in ReqRecord /\ q.error = "none" /\ q.state = "INIT"
  BY <1>3 DEF ReqRecord
<1>. HIDE DEF q
<1>5. CASE connected /\ send_nowait_locked(r, q) /\ caller' = [caller EXCEPT ![r] = "async"]
  <2>. DEFINE b  == Background(q)
              rq == [req EXCEPT ![r] = b]
  <2>1. b \in ReqRecord /\ b.error = "none" /\ b.state = "INIT"
    BY <1>4 DEF Background, ReqRecord
  <2>. HIDE DEF b
  <2>2. rq \in [Req -> ReqRecord] /\ rq[r] = b /\ \A s \in Req \ {r} : rq[s] = req[s]
    BY <2>1 DEF Known, TypeOK
  <2>3. flush_bg_queue(rq, Append(bg_queue, r), active_background, pending, max_background)
    BY <1>5 DEF send_nowait_locked, b
  <2>. HIDE DEF rq
  <2>4. /\ bg_queue \in Seq(Req) /\ active_background \in Int /\ max_background \in Nat
        /\ Append(bg_queue, r) \in Seq(Req)
    BY DEF Known, TypeOK
  <2>5. \A s \in Req : /\ req'[s].error = rq[s].error
                       /\ \/ req'[s].state = rq[s].state
                          \/ s \in ToSet(Append(bg_queue, r)) /\ req'[s].state = "PENDING"
    BY <2>2, <2>3, <2>4, FlushLeaves
  <2>6. ToSet(Append(bg_queue, r)) = ToSet(bg_queue) \union {r}
    BY <2>4, AppendSet
  <2>7. caller'[r] = "async" /\ \A s \in Req \ {r} : caller'[s] = caller[s]
    BY <1>5 DEF Known, TypeOK
  <2>8. \A s \in Req \ {r} : Still(s)
    BY <2>2, <2>5, <2>6, <2>7, Left
  <2>9. PhaseFact(Phase(r)', caller'[r], req'[r])
    BY PhaseThen DEF Known
  <2>10. req'[r].error = "none" /\ req'[r].state \in {"INIT", "PENDING"}
    BY <2>1, <2>2, <2>5
  <2>11. Goes(r, "prepared", "queued")
    BY <1>3, <2>7, <2>9, <2>10 DEF PhaseFact, Goes, Refusals
  <2>. QED
    BY <1>2, <1>5, <2>8, <2>11, OneCall DEF CallStep
<1>6. CASE /\ ~ connected
           /\ request_end(r, [req EXCEPT ![r] = [q EXCEPT !.error = "ENOTCONN"]])
           /\ caller' = [caller EXCEPT ![r] = IF end THEN "ending_cb" ELSE "ending"]
  <2>. DEFINE e  == [q EXCEPT !.error = "ENOTCONN"]
              rq == [req EXCEPT ![r] = e]
  <2>1. e \in ReqRecord /\ e.error = "ENOTCONN"
    BY <1>4 DEF ReqRecord, Errors
  <2>2. request_end(r, rq)
    BY <1>6
  <2>. HIDE DEF e
  <2>3. rq \in [Req -> ReqRecord] /\ rq[r] = e /\ \A s \in Req \ {r} : rq[s] = req[s]
    BY <2>1 DEF Known, TypeOK
  <2>. HIDE DEF rq
  <2>4. caller'[r] \notin {"none", "blocked"} /\ \A s \in Req \ {r} : caller'[s] = caller[s]
    BY <1>6 DEF Known, TypeOK
  <2>. QED
    BY <1>2, <1>3, <1>6, <2>1, <2>2, <2>3, <2>4, EndCall
<1>. QED
  BY <1>1, <1>5, <1>6, ZenonT(60) DEF q

LEMMA KilledCall ==
    ASSUME Known, Known', NEW r \in Req, WaitKilled(r)
    PROVE  [Call!Next]_(Call!vars)
<1>1. /\ caller[r] = "fatal" /\ caller'[r] \in {"done", "answer"}
      /\ \A s \in Req \ {r} : req'[s] = req[s] /\ caller'[s] = caller[s]
      /\ UNCHANGED connected
  BY DEF WaitKilled, Known, TypeOK, flags
<1>2. CASE NotRead(r)
  <2>1. req[r] \in ReqRecord /\ req[r].state = "PENDING"
    BY <1>2 DEF NotRead, Known, TypeOK
  <2>2. req'[r] = [req[r] EXCEPT !.count = @ - 1, !.error = "EINTR"]
    BY <1>2 DEF WaitKilled, Known, TypeOK
  <2>3. req'[r].error = "EINTR"
    BY <2>1, <2>2 DEF ReqRecord
  <2>4. PhaseFact(Phase(r), caller[r], req[r]) /\ PhaseFact(Phase(r)', caller'[r], req'[r])
    BY PhaseNow, PhaseThen DEF Known
  <2>5. req[r].error = "none"
    BY <1>1, <2>1, NotRefused
  <2>6. Settles(r, "queued", {"EINTR"})
    BY <1>1, <2>1, <2>3, <2>4, <2>5 DEF PhaseFact, Settles, Goes, Refusals
  <2>. QED
    BY <1>1, <2>6, OneOnly DEF CallStep
<1>3. CASE ~ NotRead(r)
  <2>1. UNCHANGED req /\ caller'[r] = "answer"
    BY <1>3 DEF WaitKilled, Known, TypeOK
  <2>2. Still(r)
    BY <1>1, <2>1, SamePhase
  <2>. QED
    BY <1>1, <2>2, OneOnly DEF CallStep
<1>. QED
  BY <1>2, <1>3

LEMMA CallerPutCall ==
    ASSUME Known, Known', NEW r \in Req, CallerPut(r)
    PROVE  [Call!Next]_(Call!vars)
<1>1. /\ caller[r] = "done" /\ req'[r] = Put(req[r])
      /\ caller'[r] = IF req[r].count = 1 THEN "none" ELSE "async"
      /\ \A s \in Req \ {r} : req'[s] = req[s] /\ caller'[s] = caller[s]
      /\ UNCHANGED connected
  BY DEF CallerPut, Known, TypeOK, flags
<1>2. req[r] \in ReqRecord /\ (req[r].state # "FINISHED" => req[r].error \in Refusals)
  BY <1>1 DEF Known, TypeOK, OwnerInv, Sound, CallerOK
<1>3. PhaseFact(Phase(r), caller[r], req[r]) /\ PhaseFact(Phase(r)', caller'[r], req'[r])
  BY PhaseNow, PhaseThen DEF Known
<1>4. Phase(r) = "settled"
  BY <1>1, <1>2, <1>3 DEF PhaseFact
<1>5. CallStep(r)
  <2>1. CASE req[r].count = 1
    BY <1>1, <1>3, <1>4, <2>1 DEF PhaseFact, CallStep, Goes
  <2>2. CASE req[r].count # 1
    <3>1. req'[r].state = req[r].state /\ req'[r].error = req[r].error
      BY <1>1, <1>2, <2>2, PutFields
    <3>2. Phase(r)' = "settled"
      BY <1>1, <1>2, <1>3, <2>2, <3>1 DEF PhaseFact
    <3>. QED
      BY <1>4, <3>1, <3>2 DEF CallStep, Still, Outcome
  <2>. QED
    BY <2>1, <2>2
<1>. QED
  BY <1>1, <1>5, OneOnly

\* Every step of a caller.
LEMMA CallerCall ==
    ASSUME Known, Known', NEW r \in Req, Caller(r)
    PROVE  [Call!Next]_(Call!vars)
<1>1. CASE SendEndUnlocked(r)
  <2>1. req[r].state = "FINISHED"
    BY <1>1 DEF SendEndUnlocked, Known, OwnerInv, Sound, CallerOK
  <2>2. /\ request_end_unlocked(r, caller[r] = "ending_cb")
        /\ (caller[r] = "ending_cb") \in BOOLEAN /\ UNCHANGED connected
    BY <1>1 DEF SendEndUnlocked, flags
  <2>. QED
    BY <2>1, <2>2, PutCall
<1>. QED
  BY <1>1, WaitCall, AllocCall, RefusedCall, SendCall, SendBackgroundCall, KilledCall,
     CallerPutCall DEF Caller

\* What the list a request is on says of its phase.
LEMMA ListPhase ==
    ASSUME Known, NEW r \in Req
    PROVE  /\ r \in ToSet(pending) =>
                Phase(r) = "queued" /\ req[r].error = "none" /\ req[r].state = "PENDING"
           /\ r \in processing =>
                Phase(r) = "delivered" /\ req[r].error = "none" /\ req[r].state = "SENT"
           /\ r \in io =>
                /\ Phase(r) = "delivered" /\ req[r].error \in {"none", "answer"}
                /\ req[r].state = "READING" => req[r].error = "none"
           /\ r \in ToSet(pending) \/ r \in processing \/ r \in io =>
                caller[r] \notin {"none", "blocked"} /\ r \notin ToSet(bg_queue)
<1>1. /\ r \in ToSet(pending) \/ r \in processing \/ r \in io =>
           Waits(r) \/ caller[r] = "async"
      /\ r \in ToSet(pending) => req[r].state = "PENDING"
      /\ r \in processing => req[r].state = "SENT"
      /\ r \in io => req[r].state \in {"READING", "WRITING"}
      /\ r \in ToSet(bg_queue) => req[r].state = "INIT"
  BY DEF Known, OwnerInv, Sound, PlaceOK
<1>2. PhaseFact(Phase(r), caller[r], req[r])
  BY PhaseNow DEF Known
<1>. QED
  BY <1>1, <1>2, NotRefused DEF PhaseFact, Waits

LEMMA ReadRequestCall ==
    ASSUME Known, Known', NEW t \in Daemon, ReadRequest(t)
    PROVE  [Call!Next]_(Call!vars)
<1>1. PICK r \in Req : r = Head(pending) /\ r \in ToSet(pending)
  BY FirstOf DEF ReadRequest, Known
<1>2. /\ connected /\ UNCHANGED <<caller, connected>>
      /\ req' = [req EXCEPT ![r] = [req[r] EXCEPT !.state = "READING"]]
  BY <1>1 DEF ReadRequest, flags
<1>3. /\ req'[r].state = "READING" /\ req'[r].error = req[r].error
      /\ \A s \in Req \ {r} : req'[s] = req[s]
  BY <1>2 DEF ReqRecord, Known, TypeOK
<1>4. PhaseFact(Phase(r)', caller'[r], req'[r])
  BY PhaseThen DEF Known
<1>5. Goes(r, "queued", "delivered")
  BY <1>1, <1>2, <1>3, <1>4, ListPhase DEF PhaseFact, Goes, Refusals
<1>. QED
  BY <1>2, <1>3, <1>5, OneOnly DEF CallStep

LEMMA ReadTooBigCall ==
    ASSUME Known, Known', NEW t \in Daemon, ReadTooBig(t)
    PROVE  [Call!Next]_(Call!vars)
<1>1. PICK r \in Req : r = Head(pending) /\ r \in ToSet(pending)
  BY FirstOf DEF ReadTooBig, Known
<1>. DEFINE q  == [req[r] EXCEPT !.error = "EIO"]
            rq == [req EXCEPT ![r] = q]
<1>2. connected /\ request_end(r, rq) /\ UNCHANGED <<caller, connected>>
  BY <1>1 DEF ReadTooBig, flags
<1>3. q \in ReqRecord /\ q.error = "EIO"
  <2>1. req[r] \in ReqRecord
    BY DEF Known, TypeOK
  <2>. QED
    BY <2>1 DEF ReqRecord, Errors
<1>. HIDE DEF q
<1>4. rq \in [Req -> ReqRecord] /\ rq[r] = q /\ \A s \in Req \ {r} : rq[s] = req[s]
  BY <1>3 DEF Known, TypeOK
<1>. HIDE DEF rq
<1>. QED
  BY <1>1, <1>2, <1>3, <1>4, ListPhase, EndCall

\* The end of a copy, with the error it makes.
LEMMA CopiedCall ==
    ASSUME Known, Known', NEW t \in Daemon, NEW r \in Req,
           thread[t].r = r, thread[t].pc = "fin",
           request_end(r, IF thread[t].failed /\ ~ req[r].aborted
                            THEN [Unlocked(r) EXCEPT ![r].error = "EIO"]
                            ELSE Unlocked(r)),
           UNCHANGED <<caller, connected>>
    PROVE  [Call!Next]_(Call!vars)
<1>. DEFINE q  == IF thread[t].failed /\ ~ req[r].aborted
                    THEN [req[r] EXCEPT !.locked = FALSE, !.error = "EIO"]
                    ELSE [req[r] EXCEPT !.locked = FALSE]
            rq == [req EXCEPT ![r] = q]
<1>1. req[r] \in ReqRecord
  BY DEF Known, TypeOK
<1>2. request_end(r, rq)
  <2>1. rq = IF thread[t].failed /\ ~ req[r].aborted
               THEN [Unlocked(r) EXCEPT ![r].error = "EIO"]
               ELSE Unlocked(r)
    BY <1>1 DEF Unlocked, Known, TypeOK
  <2>. QED
    BY <2>1
<1>3. /\ q \in ReqRecord
      /\ q.error = req[r].error \/ (~ req[r].aborted /\ q.error = "EIO")
  BY <1>1, ZenonT(60) DEF ReqRecord, Errors
<1>. HIDE DEF q
<1>4. rq \in [Req -> ReqRecord] /\ rq[r] = q /\ \A s \in Req \ {r} : rq[s] = req[s]
  BY <1>3 DEF Known, TypeOK
<1>. HIDE DEF rq
<1>5. Hand(thread, r) = thread[t] /\ Sound(r)
  BY InCopy DEF Copying, Known, OwnerInv
<1>6. /\ caller[r] \notin {"none", "blocked"}
      /\ req[r].aborted \/ r \in io
      /\ req[r].aborted => req[r].state = "FINISHED"
  BY <1>5 DEF Sound, HandOK, FieldsOK, Pc, Copying, Waits
<1>7. req[r].aborted => Phase(r) = "settled" /\ r \notin ToSet(bg_queue)
  BY <1>5, <1>6, PhaseNow DEF PhaseFact, Known, Sound, PlaceOK
<1>8. CASE req[r].aborted
  BY <1>2, <1>3, <1>4, <1>6, <1>7, <1>8, EndCall
<1>9. CASE ~ req[r].aborted
  BY <1>2, <1>3, <1>4, <1>6, <1>9, ListPhase, EndCall
<1>. QED
  BY <1>8, <1>9

LEMMA ReadEndCall ==
    ASSUME Known, Known', NEW t \in Daemon, NEW r \in Req, thread[t].r = r, ReadEnd(t)
    PROVE  [Call!Next]_(Call!vars)
<1>. DEFINE over == req[r].aborted \/ thread[t].failed \/ ~ req[r].isreply
<1>1. thread[t].pc = "fin" /\ UNCHANGED <<caller, connected>>
  BY DEF ReadEnd, flags
<1>2. CASE over
  BY <1>1, <1>2, CopiedCall DEF ReadEnd
<1>3. CASE ~ over
  <2>1. req' = [Unlocked(r) EXCEPT ![r].state = "SENT"] /\ req[r] \in ReqRecord
    BY <1>3 DEF ReadEnd, Known, TypeOK
  <2>2. req' = [req EXCEPT ![r] = [req[r] EXCEPT !.locked = FALSE, !.state = "SENT"]]
    BY <2>1 DEF Unlocked, Known, TypeOK
  <2>3. /\ \A s \in Req \ {r} : req'[s] = req[s]
        /\ req'[r].state = "SENT" /\ req'[r].error = req[r].error
    <3>1. req \in [Req -> ReqRecord]
      BY DEF Known, TypeOK
    <3>2. req'[r] = [req[r] EXCEPT !.locked = FALSE, !.state = "SENT"]
      BY <2>2, <3>1
    <3>3. req'[r].state = "SENT" /\ req'[r].error = req[r].error
      BY <3>1, <3>2 DEF ReqRecord
    <3>. QED
      BY <2>2, <3>1, <3>3
  <2>4. Hand(thread, r) = thread[t] /\ Sound(r)
    BY <1>1, InCopy DEF Copying, Known, OwnerInv
  <2>5. r \in io /\ req[r].state = "READING"
    BY <1>1, <1>3, <2>4 DEF ReadEnd, Sound, HandOK, Pc, Copying
  <2>6. PhaseFact(Phase(r)', caller'[r], req'[r])
    BY PhaseThen DEF Known
  <2>7. Phase(r) = "delivered" /\ Phase(r)' = "delivered"
    BY <1>1, <2>3, <2>5, <2>6, ListPhase DEF PhaseFact, Refusals
  <2>8. Still(r)
    BY <2>7 DEF Still, Outcome
  <2>. QED
    BY <1>1, <2>3, <2>8, OneOnly DEF CallStep
<1>. QED
  BY <1>2, <1>3

LEMMA WriteReplyCall ==
    ASSUME Known, Known', NEW t \in Daemon, NEW r \in Req, WriteReply(t, r)
    PROVE  [Call!Next]_(Call!vars)
<1>1. /\ r \in processing /\ UNCHANGED <<caller, connected>>
      /\ req' = [req EXCEPT ![r] = [req[r] EXCEPT !.state = "WRITING", !.locked = TRUE,
                                                  !.error = "answer"]]
  BY DEF WriteReply, Known, TypeOK, flags
<1>2. /\ \A s \in Req \ {r} : req'[s] = req[s]
      /\ req'[r].state = "WRITING" /\ req'[r].error = "answer"
  BY <1>1 DEF Known, TypeOK, ReqRecord
<1>3. PhaseFact(Phase(r)', caller'[r], req'[r])
  BY PhaseThen DEF Known
<1>4. Phase(r) = "delivered" /\ Phase(r)' = "delivered"
  BY <1>1, <1>2, <1>3, ListPhase DEF PhaseFact, Refusals
<1>5. Still(r)
  BY <1>4 DEF Still, Outcome
<1>. QED
  BY <1>1, <1>2, <1>5, OneOnly DEF CallStep

\* Steps the callers' promise does not notice.
LEMMA UnseenCall ==
    ASSUME Known, Known', NEW t \in Daemon,
           \/ ReadInterrupt(t) \/ Copy(t) \/ Retrieve(t) \/ RetrieveFail(t)
           \/ \E r \in Req : WriteInterruptReply(t, r)
    PROVE  [Call!Next]_(Call!vars)
<1>1. CASE ReadInterrupt(t)
  <2>1. PICK r \in Req : r = Head(interrupts)
    BY <1>1, FirstOf DEF ReadInterrupt, Known
  <2>2. /\ req' = [req EXCEPT ![r] = [req[r] EXCEPT !.intr_unique = reqctr + 1]]
        /\ UNCHANGED <<caller, connected>>
    BY <1>1, <2>1 DEF ReadInterrupt, flags
  <2>3. \A s \in Req : req'[s].state = req[s].state /\ req'[s].error = req[s].error
    <3>1. req \in [Req -> ReqRecord]
      BY DEF Known, TypeOK
    <3>2. req'[r] = [req[r] EXCEPT !.intr_unique = reqctr + 1]
      BY <2>2, <3>1
    <3>3. req'[r].state = req[r].state /\ req'[r].error = req[r].error
      BY <3>1, <3>2 DEF ReqRecord
    <3>. QED
      BY <2>2, <3>1, <3>3
  <2>. QED
    BY <2>2, <2>3, Nothing
<1>2. CASE Copy(t)
  <2>1. thread[t].r \in Req
    BY <1>2 DEF Copy, LockCopy, CopyFault, UnlockCopy, HandPage, PageHanded, ClearPage, CopyEnd,
                Between, Known, TypeOK
  <2>2. PICK r \in Req : r = thread[t].r
    BY <2>1
  <2>3. /\ req' = req \/ \E b \in BOOLEAN : req' = LockedAs(r, b)
        /\ UNCHANGED caller
    BY <1>2, <2>2, CopyStep DEF Known
  <2>4. UNCHANGED connected
    BY <1>2 DEF Copy, LockCopy, CopyFault, UnlockCopy, HandPage, PageHanded, ClearPage, CopyEnd,
                flags
  <2>5. \A s \in Req : req'[s].state = req[s].state /\ req'[s].error = req[s].error
    <3>1. ASSUME NEW b \in BOOLEAN, req' = LockedAs(r, b)
          PROVE  \A s \in Req : req'[s].state = req[s].state /\ req'[s].error = req[s].error
      BY <3>1, ZenonT(60) DEF LockedAs, Known, TypeOK, ReqRecord
    <3>. QED
      BY <2>3, <3>1
  <2>. QED
    BY <2>3, <2>4, <2>5, Nothing, SMTT(30)
<1>3. CASE Retrieve(t) \/ RetrieveFail(t) \/ \E r \in Req : WriteInterruptReply(t, r)
  <2>1. UNCHANGED <<req, caller, connected>>
    BY <1>3 DEF Retrieve, RetrieveFail, WriteInterruptReply, flags
  <2>. QED
    BY <2>1, Nothing
<1>. QED
  BY <1>1, <1>2, <1>3

LEMMA EndUnlockedCall ==
    ASSUME Known, Known', NEW t \in Daemon, NEW r \in Req, thread[t].r = r, EndUnlocked(t)
    PROVE  [Call!Next]_(Call!vars)
<1>1. /\ thread[t].pc = "end" /\ request_end_unlocked(r, thread[t].end)
      /\ UNCHANGED connected
  BY DEF EndUnlocked, flags
<1>2. Sound(r) /\ thread[t].end \in BOOLEAN /\ Hand(thread, r) = thread[t]
  BY <1>1, InCopy DEF Known, OwnerInv, TypeOK, ThreadRecord
<1>3. req[r].state = "FINISHED"
  BY <1>1, <1>2 DEF Sound, HandOK, Pc
<1>. QED
  BY <1>1, <1>2, <1>3, PutCall

LEMMA RetrieveGetCall ==
    ASSUME Known, Known', NEW t \in Daemon, NEW r \in Req, RetrieveGet(t, r)
    PROVE  [Call!Next]_(Call!vars)
<1>1. /\ caller[r] = "none" /\ caller'[r] = "retrieve"
      /\ \A s \in Req \ {r} : req'[s] = req[s] /\ caller'[s] = caller[s]
      /\ UNCHANGED connected
  BY DEF RetrieveGet, Known, TypeOK, flags
<1>2. req'[r].state = "INIT" /\ req'[r].error = "none"
  BY <1>1 DEF Known, OwnerInv, Sound, CallerOK
<1>3. PhaseFact(Phase(r), caller[r], req[r]) /\ PhaseFact(Phase(r)', caller'[r], req'[r])
  BY PhaseNow, PhaseThen DEF Known
<1>4. Goes(r, "idle", "prepared")
  BY <1>1, <1>2, <1>3 DEF PhaseFact, Goes, Refusals
<1>. QED
  BY <1>1, <1>4, OneOnly DEF CallStep

LEMMA RetrieveSendCall ==
    ASSUME Known, Known', NEW t \in Daemon, NEW r \in Req, thread[t].r = r, RetrieveSend(t)
    PROVE  [Call!Next]_(Call!vars)
<1>1. thread[t].pc = "notify" /\ UNCHANGED connected
  BY DEF RetrieveSend, flags
<1>2. Hand(thread, r) = thread[t] /\ Sound(r)
  BY <1>1, InCopy DEF Known, OwnerInv
<1>3. caller[r] = "retrieve"
  BY <1>1, <1>2 DEF Sound, HandOK, Pc
<1>4. PhaseFact(Phase(r)', caller'[r], req'[r])
  BY PhaseThen DEF Known
<1>5. \A s \in Req \ {r} : req'[s] = req[s] /\ caller'[s] = caller[s]
  BY DEF RetrieveSend, Known, TypeOK
<1>6. CASE connected
  <2>1. req'[r] = Queued(req[r], 0, FALSE) /\ caller'[r] = "async"
    BY <1>6 DEF RetrieveSend, Known, TypeOK
  <2>2. req'[r].state = "PENDING" /\ req'[r].error = "none"
    BY <1>3, <2>1, Prepared DEF Queued, ReqRecord
  <2>3. Goes(r, "prepared", "queued")
    BY <1>3, <1>4, <2>1, <2>2, Prepared DEF PhaseFact, Goes, Refusals
  <2>. QED
    BY <1>1, <1>5, <1>6, <2>3, OneOnly DEF CallStep
<1>7. CASE ~ connected
  <2>1. /\ req'[r] = [req[r] EXCEPT !.isreply = FALSE, !.released = TRUE]
        /\ caller'[r] = "leaked"
    BY <1>3, <1>7, Prepared DEF RetrieveSend, Known, TypeOK
  <2>2. req'[r].state = "INIT" /\ req'[r].error = "none"
    BY <1>3, <2>1, Prepared DEF ReqRecord
  <2>3. Phase(r) = "prepared" /\ Phase(r)' = "prepared"
    BY <1>3, <1>4, <2>1, <2>2, Prepared DEF PhaseFact, Refusals
  <2>4. Still(r)
    BY <2>3 DEF Still, Outcome
  <2>. QED
    BY <1>1, <1>5, <2>4, OneOnly DEF CallStep
<1>. QED
  BY <1>6, <1>7

\* Every step of a daemon thread.
LEMMA DaemonCall ==
    ASSUME Known, Known', NEW t \in Daemon, DaemonThread(t)
    PROVE  [Call!Next]_(Call!vars)
<1>1. ReadEnd(t) \/ EndUnlocked(t) \/ RetrieveSend(t) => thread[t].r \in Req
  BY DEF ReadEnd, EndUnlocked, RetrieveSend, Known, TypeOK
<1>2. CASE WriteEnd(t)
  <2>1. thread[t].r \in Req /\ thread[t].pc = "fin" /\ UNCHANGED <<caller, connected>>
    BY <1>2 DEF WriteEnd, Known, TypeOK, flags
  <2>. QED
    BY <1>2, <2>1, CopiedCall DEF WriteEnd
<1>. QED
  BY <1>1, <1>2, ReadRequestCall, ReadTooBigCall, ReadEndCall, WriteReplyCall, UnseenCall,
     EndUnlockedCall, RetrieveGetCall, RetrieveSendCall DEF DaemonThread

\* Every step of fuse_abort_conn.
LEMMA AbortIoCall ==
    ASSUME Known, Known', Down, NEW r \in Req, AbortIo(r)
    PROVE  [Call!Next]_(Call!vars)
<1>1. /\ r \in io /\ ~ connected /\ UNCHANGED <<caller, connected>>
      /\ req' = [req EXCEPT ![r] = Aborted(req[r])]
  BY DEF AbortIo, Down, flags
<1>2. /\ \A s \in Req \ {r} : req'[s] = req[s]
      /\ req'[r].state = "FINISHED" /\ req'[r].error = "ECONNABORTED"
  BY <1>1 DEF Known, TypeOK, Aborted, ReqRecord
<1>3. PhaseFact(Phase(r)', caller'[r], req'[r])
  BY PhaseThen DEF Known
<1>4. Settles(r, "delivered", {"ECONNABORTED"})
  BY <1>1, <1>2, <1>3, ListPhase DEF PhaseFact, Settles, Goes
<1>. QED
  BY <1>1, <1>2, <1>4, OneOnly DEF CallStep

LEMMA AbortQueuedCall ==
    ASSUME Known, Known', Down, NEW r \in Req, AbortQueued(r)
    PROVE  [Call!Next]_(Call!vars)
<1>. DEFINE q  == [req[r] EXCEPT !.error = "ECONNABORTED"]
            rq == [req EXCEPT ![r] = q]
<1>1. /\ ~ connected /\ request_end(r, rq) /\ UNCHANGED <<caller, connected>>
      /\ r \in ToSet(pending) \/ r \in processing
  BY FirstOf DEF AbortQueued, Down, flags, Known
<1>2. q \in ReqRecord /\ q.error = "ECONNABORTED"
  <2>1. req[r] \in ReqRecord
    BY DEF Known, TypeOK
  <2>. QED
    BY <2>1 DEF ReqRecord, Errors
<1>. HIDE DEF q
<1>3. rq \in [Req -> ReqRecord] /\ rq[r] = q /\ \A s \in Req \ {r} : rq[s] = req[s]
  BY <1>2 DEF Known, TypeOK
<1>. HIDE DEF rq
<1>. QED
  BY <1>1, <1>2, <1>3, ListPhase, EndCall

LEMMA AbortPutCall ==
    ASSUME Known, Known', AbortIoEnd \/ AbortTail
    PROVE  [Call!Next]_(Call!vars)
<1>1. PICK r \in Req : r = aborter.r
  BY DEF AbortIoEnd, AbortTail, Known, TypeOK
<1>2. PICK end \in BOOLEAN : request_end_unlocked(r, end)
  BY <1>1 DEF AbortIoEnd, AbortTail, Known, TypeOK
<1>3. UNCHANGED connected
  BY DEF AbortIoEnd, AbortTail, flags
<1>4. req[r].state = "FINISHED"
  BY <1>1 DEF Known, OwnerInv, Sound, AborterOK
<1>. QED
  BY <1>2, <1>3, <1>4, PutCall

LEMMA AbortCall ==
    ASSUME Known, Known', Down, Abort
    PROVE  [Call!Next]_(Call!vars)
<1>1. CASE AbortConn
  <2>. DEFINE phase   == [s \in Req |-> Phase(s)]
              outcome == [s \in Req |-> IF Phase(s) = "settled" THEN req[s].error ELSE "none"]
  <2>1. connected /\ connected' = FALSE /\ UNCHANGED <<req, caller>>
    BY <1>1 DEF AbortConn
  <2>2. \A s \in Req : Phase(s)' = Phase(s)
    BY <2>1, SamePhase DEF Still
  <2>3. phase' = [s \in Req |-> Phase(s)']
        /\ outcome' = [s \in Req |-> IF Phase(s)' = "settled" THEN req'[s].error ELSE "none"]
    OBVIOUS
  <2>4. phase' = phase /\ outcome' = outcome
    BY <2>1, <2>2, <2>3
  <2>. QED
    BY <2>1, <2>4 DEF Call!Next, Call!Down
<1>2. CASE AbortFlush
  <2>1. /\ flush_bg_queue(req, bg_queue, active_background, pending, UintMax)
        /\ UNCHANGED <<caller, connected>>
    BY <1>2 DEF AbortFlush, flags
  <2>2. /\ req \in [Req -> ReqRecord] /\ bg_queue \in Seq(Req) /\ active_background \in Int
        /\ UintMax \in Nat
    BY MaxAssumption DEF Known, TypeOK
  <2>3. \A s \in Req : Still(s)
    BY <2>1, <2>2, FlushLeaves, Left
  <2>. QED
    BY <2>1, <2>3, AllStill
<1>3. CASE AbortDone
  BY <1>3, Nothing DEF AbortDone, flags
<1>. QED
  BY <1>1, <1>2, <1>3, AbortIoCall, AbortQueuedCall, AbortPutCall DEF Abort

\* The device keeps the promise of FuseCall, for any number of requests and of
\* daemon threads and whenever the connection is aborted: every step of a caller, of a
\* thread or of fuse_abort_conn is one of the promise or one it does not notice.
THEOREM PromiseCorrect == Spec => KeepsPromise
<1>1. Init => Call!Init
  <2>. SUFFICES ASSUME Init PROVE Call!Init
    OBVIOUS
  <2>1. connected = TRUE /\ \A r \in Req : Phase(r) = "idle"
    BY DEF Init, Phase
  <2>. QED
    BY <2>1 DEF Call!Init
<1>2. Known /\ Known' /\ Down /\ [Next]_vars => [Call!Next]_(Call!vars)
  <2>. SUFFICES ASSUME Known, Known', Down, [Next]_vars PROVE [Call!Next]_(Call!vars)
    OBVIOUS
  <2>1. CASE UNCHANGED vars
    <3>1. UNCHANGED <<req, caller, connected>>
      BY <2>1 DEF vars, flags
    <3>. QED
      BY <3>1, Nothing
  <2>. QED
    BY <2>1, CallerCall, DaemonCall, AbortCall DEF Next
<1>3. Init => Down
  BY DEF Init, Down
<1>4. TypeOK /\ Down /\ [Next]_vars => Down'
  BY DownStep
<1>5. Spec => []Known
  <2>1. TypeOK /\ (OwnerInv /\ EndFlag) /\ RefsExact => Known
    BY DEF Known
  <2>. QED
    BY <2>1, TypeCorrect, OwnerCorrect, RefsCorrect, PTL
<1>6. Spec => []Down
  BY <1>3, <1>4, TypeCorrect, PTL DEF Spec
<1>. QED
  BY <1>1, <1>2, <1>5, <1>6, PTL DEF Spec, KeepsPromise, Call!Spec

-----------------------------------------------------------------------------
(* Counting.                                                               *)

LEMMA SetChange ==
    ASSUME NEW S, NEW T, NEW x, IsFiniteSet(S), \A y : y # x => (y \in S <=> y \in T)
    PROVE  /\ IsFiniteSet(T) /\ Cardinality(S) \in Nat /\ Cardinality(T) \in Nat
           /\ Cardinality(T) = Cardinality(S) + One(x \in T) - One(x \in S)
<1>. DEFINE R == S \ {x}
<1>1. /\ IsFiniteSet(R) /\ Cardinality(S) \in Nat
      /\ Cardinality(R) = Cardinality(S) - One(x \in S)
  BY FS_RemoveElement, FS_CardinalityType DEF One
<1>2. IsFiniteSet(R \union {x}) /\ Cardinality(R \union {x}) = Cardinality(R) + 1
  BY <1>1, FS_AddElement
<1>3. Cardinality(R) \in Nat
  BY <1>1, FS_CardinalityType
<1>4. T = IF x \in T THEN R \union {x} ELSE R
  OBVIOUS
<1>5. IsFiniteSet(T) /\ Cardinality(T) = Cardinality(R) + One(x \in T)
  BY <1>1, <1>2, <1>3, <1>4 DEF One
<1>. QED
  BY <1>1, <1>3, <1>5 DEF One

\* A background request that is not over, or that a thread still copies.
Live(r) == req[r].background /\ (req[r].state # "FINISHED" \/ Pc(r) \in Copying)

Shares(q)  == {r \in Req : q[r].waiting}
Sleepers(c) == {r \in Req : c[r] = "blocked"}
Getters(th) == {t \in Daemon : th[t].pc = "getreq"}

\* The counters, with what else must be known of shares.
Counts ==
    /\ IsFiniteSet(Getters(thread))
    /\ num_waiting = Cardinality(Sleepers(caller)) + Cardinality(Getters(thread))
                     + Cardinality(Shares(req))
    /\ num_background = Cardinality({r \in Req : Live(r)})
    /\ \A r \in Req : caller[r] = "retrieve" => req[r].waiting

\* What BgCounted counts are the live requests.
LEMMA LiveCounted ==
    ASSUME TypeOK, OwnerInv, NEW r \in Req
    PROVE  Live(r) <=> /\ req[r].background
                       /\ QueueRef(r)
                       /\ caller[r] \notin {"ending", "ending_cb"}
                       /\ ~ (aborter.pc = "tail" /\ aborter.r = r)
                       /\ \A t \in Daemon : ~ (InCall(t, r) /\ thread[t].pc = "end")
<1>1. Sound(r) /\ req[r] \in ReqRecord /\ caller[r] \in CallerPc
  BY DEF OwnerInv, TypeOK
<1>2. QueueRef(r) <=> Queue(r)
  BY HandThere DEF QueueRef, Queue, InCall, InHand, OwnerInv
<1>3. (\E t \in Daemon : InCall(t, r) /\ thread[t].pc = "end") <=> Pc(r) = "end"
  <2>1. ASSUME NEW t \in Daemon, thread[t].r = r PROVE Pc(r) = thread[t].pc
    BY <2>1, HandIs DEF OwnerInv, Pc
  <2>2. ASSUME \A t \in Daemon : thread[t].r # r PROVE Pc(r) = "idle"
    BY <2>2, HandNone DEF Pc, Idle
  <2>. QED
    BY <2>1, <2>2 DEF InCall
<1>4. InHand(r) => Pc(r) \in Copying \union {"end", "notify"}
  BY HandPc DEF InHand, Pc, ThreadRecord, ThreadPc, Copying, OwnerInv
<1>5. Pc(r) \in Copying \union {"end", "notify"} => InHand(r)
  BY HandPc DEF InHand, Pc, Copying, OwnerInv
<1>6. req[r].background => caller[r] \in {"async", "ending", "ending_cb"}
  BY <1>1 DEF Sound, CallerOK, CallerPc, FreeReq, Waits
<1>7. ASSUME Live(r)
      PROVE  /\ Queue(r) /\ Pc(r) # "end" /\ caller[r] = "async"
             /\ ~ (aborter.pc = "tail" /\ aborter.r = r)
  <2>1. caller[r] = "async"
    BY <1>1, <1>5, <1>6, <1>7 DEF Live, Sound, CallerOK
  <2>2. Pc(r) = "end" => req[r].state = "FINISHED"
    BY <1>1 DEF Sound, HandOK
  <2>3. Pc(r) # "end"
    BY <1>7, <2>2 DEF Live, Copying
  <2>4. ~ (aborter.pc = "tail" /\ aborter.r = r)
    BY <1>1, <1>5, <1>7 DEF Live, Sound, AborterOK
  <2>5. Queue(r)
    BY <1>1, <1>5, <1>7, <2>1 DEF Live, Sound, PlaceOK, Queue, ReqRecord
  <2>. QED
    BY <2>1, <2>3, <2>4, <2>5
<1>8. ASSUME req[r].background, Queue(r), Pc(r) # "end", caller[r] \notin {"ending", "ending_cb"},
             ~ (aborter.pc = "tail" /\ aborter.r = r)
      PROVE  Live(r)
  <2>1. caller[r] = "async" /\ Pc(r) # "notify"
    BY <1>1, <1>6, <1>8 DEF Sound, HandOK
  <2>2. InHand(r) => Pc(r) \in Copying
    BY <1>4, <1>8, <2>1
  <2>. QED
    BY <1>1, <1>8, <2>1, <2>2 DEF Live, Sound, PlaceOK, Queue
<1>. QED
  BY <1>2, <1>3, <1>7, <1>8 DEF Live

\* The counters of the invariant are those of CountersExact.
LEMMA CountsSay ==
    ASSUME TypeOK, OwnerInv
    PROVE  Counts => CountersExact
<1>1. {r \in Req : Live(r)} =
        {r \in Req : req[r].background
                        /\ QueueRef(r)
                        /\ caller[r] \notin {"ending", "ending_cb"}
                        /\ ~ (aborter.pc = "tail" /\ aborter.r = r)
                        /\ \A t \in Daemon : ~ (InCall(t, r) /\ thread[t].pc = "end")}
  BY LiveCounted
<1>. QED
  BY <1>1 DEF Counts, CountersExact, BgCounted, WaitingAccounting, Sleepers, Getters, Shares

\* A step that is about r, and about a thread in fuse_get_req or none.
Owes(r) == One(caller[r] = "blocked") + One(req[r].waiting)
LEMMA CountBoth ==
    ASSUME Counts, NEW r \in Req,
           \A s \in Req \ {r} : /\ req'[s] = req[s] /\ caller'[s] = caller[s]
                                /\ Pc(s)' = Pc(s),
           IsFiniteSet(Getters(thread')),
           num_waiting' = num_waiting + Owes(r)' - Owes(r)
                            + Cardinality(Getters(thread')) - Cardinality(Getters(thread)),
           num_background' = num_background + One(Live(r)') - One(Live(r)),
           caller'[r] = "retrieve" => req'[r].waiting
    PROVE  Counts'
<1>. DEFINE L == {s \in Req : Live(s)}
<1>1. IsFiniteSet(Sleepers(caller)) /\ IsFiniteSet(Shares(req)) /\ IsFiniteSet(L)
  BY ReqAssumption, FS_Subset DEF Sleepers, Shares
<1>2. /\ \A s : s # r => (s \in Sleepers(caller) <=> s \in Sleepers(caller'))
      /\ \A s : s # r => (s \in Shares(req) <=> s \in Shares(req'))
      /\ r \in Sleepers(caller) <=> caller[r] = "blocked"
      /\ r \in Sleepers(caller') <=> caller'[r] = "blocked"
      /\ r \in Shares(req) <=> req[r].waiting
      /\ r \in Shares(req') <=> req'[r].waiting
  BY DEF Sleepers, Shares
<1>3. \A s : s # r => (s \in L <=> s \in L')
  BY DEF Live
<1>4. r \in L <=> Live(r)
  OBVIOUS
<1>5. r \in L' <=> Live(r)'
  OBVIOUS
<1>. HIDE DEF L
<1>6. /\ Cardinality(Sleepers(caller)) \in Nat /\ Cardinality(Sleepers(caller')) \in Nat
      /\ Cardinality(Sleepers(caller')) =
           Cardinality(Sleepers(caller)) + One(caller'[r] = "blocked") - One(caller[r] = "blocked")
  BY <1>1, <1>2, SetChange DEF One
<1>7. /\ Cardinality(Shares(req)) \in Nat /\ Cardinality(Shares(req')) \in Nat
      /\ Cardinality(Shares(req')) =
           Cardinality(Shares(req)) + One(req'[r].waiting) - One(req[r].waiting)
  BY <1>1, <1>2, SetChange DEF One
<1>8. Cardinality(L) \in Nat /\ Cardinality(L') = Cardinality(L) + One(Live(r)') - One(Live(r))
  BY <1>1, <1>3, <1>4, <1>5, SetChange DEF One
<1>9. Cardinality(Getters(thread)) \in Nat /\ Cardinality(Getters(thread')) \in Nat
  BY FS_CardinalityType DEF Counts
<1>10. num_background = Cardinality(L) /\ num_background' = Cardinality(L')
  BY <1>8 DEF Counts, L
<1>11. num_waiting' = Cardinality(Sleepers(caller')) + Cardinality(Getters(thread'))
                      + Cardinality(Shares(req'))
  BY <1>6, <1>7, <1>9 DEF Counts, Owes, One
<1>12. \A s \in Req : caller'[s] = "retrieve" => req'[s].waiting
  BY DEF Counts
<1>. QED
  BY <1>10, <1>11, <1>12 DEF Counts, L

LEMMA CountOne ==
    ASSUME Counts, NEW r \in Req,
           \A s \in Req \ {r} : /\ req'[s] = req[s] /\ caller'[s] = caller[s]
                                /\ Pc(s)' = Pc(s),
           Getters(thread') = Getters(thread),
           num_waiting' = num_waiting + Owes(r)' - Owes(r),
           num_background' = num_background + One(Live(r)') - One(Live(r)),
           caller'[r] = "retrieve" => req'[r].waiting
    PROVE  Counts'
<1>1. IsFiniteSet(Getters(thread')) /\ Cardinality(Getters(thread)) \in Nat
  BY FS_CardinalityType DEF Counts
<1>2. num_waiting' = num_waiting + Owes(r)' - Owes(r)
                       + Cardinality(Getters(thread')) - Cardinality(Getters(thread))
  BY <1>1
<1>. QED
  BY <1>1, <1>2, CountBoth

\* Requests leave bg_queue: what happens to the shares and the marks.
LEMMA FlushShares ==
    ASSUME NEW rq \in [Req -> ReqRecord], NEW bgq \in Seq(Req), NEW active \in Int, NEW pend,
           NEW max \in Nat, num_waiting \in Int, flush_bg_queue(rq, bgq, active, pend, max)
    PROVE  /\ num_waiting' = num_waiting + Cardinality(Shares(req')) - Cardinality(Shares(rq))
           /\ \A s \in Req : /\ req'[s].background = rq[s].background
                             /\ rq[s].waiting => req'[s].waiting
<1>. DEFINE room == IF max > active THEN max - active ELSE 0
            n    == IF room < Len(bgq) THEN room ELSE Len(bgq)
            out  == SubSeq(bgq, 1, n)
            Pos(r) == CHOOSE i \in 1 .. n : out[i] = r
            new  == {s \in ToSet(out) : ~ rq[s].waiting}
<1>1. n \in Nat /\ n <= Len(bgq)
  OBVIOUS
<1>2. /\ req' = [r \in Req |-> IF r \in ToSet(out)
                              THEN Queued(rq[r], reqctr + Pos(r), rq[r].isreply)
                              ELSE rq[r]]
      /\ num_waiting' = num_waiting + Cardinality(new)
  BY DEF flush_bg_queue
<1>. HIDE DEF n
<1>3. ToSet(out) \subseteq Req
  <2>1. \A i \in 1 .. n : bgq[i] \in Req /\ i \in DOMAIN bgq
    BY <1>1
  <2>2. out \in Seq(Req) /\ Len(out) = n /\ \A i \in 1 .. n : out[i] = bgq[i]
    BY <1>1, <2>1, SubSeqProperties
  <2>. HIDE DEF out
  <2>. QED
    BY <2>1, <2>2 DEF ToSet
<1>. HIDE DEF out, Pos
<1>4. ASSUME NEW s \in Req, s \in ToSet(out)
      PROVE  req'[s].waiting /\ req'[s].background = rq[s].background
  <2>1. req'[s] = Queued(rq[s], reqctr + Pos(s), rq[s].isreply) /\ rq[s] \in ReqRecord
    BY <1>2, <1>4
  <2>. QED
    BY <2>1 DEF Queued, ReqRecord
<1>5. \A s \in Req : s \notin ToSet(out) => req'[s] = rq[s]
  BY <1>2
<1>6. Shares(req') = Shares(rq) \union new /\ Shares(rq) \cap new = {}
  BY <1>3, <1>4, <1>5 DEF Shares
<1>7. IsFiniteSet(Shares(rq)) /\ IsFiniteSet(new)
  BY <1>3, ReqAssumption, FS_Subset DEF Shares
<1>. HIDE DEF new
<1>8. /\ Cardinality(Shares(rq)) \in Nat /\ Cardinality(new) \in Nat
      /\ Cardinality({}) = 0
  BY <1>7, FS_CardinalityType, FS_EmptySet
<1>9. Cardinality(Shares(req')) = Cardinality(Shares(rq)) + Cardinality(new)
  <2>1. Cardinality(Shares(rq) \union new) = Cardinality(Shares(rq)) + Cardinality(new)
                                               - Cardinality(Shares(rq) \cap new)
    BY <1>7, FS_Union
  <2>2. Cardinality(Shares(rq) \cap new) = 0
    BY <1>6, <1>8
  <2>3. Cardinality(Shares(req')) = Cardinality(Shares(rq) \union new)
    BY <1>6
  <2>. QED
    BY <1>8, <2>1, <2>2, <2>3
<1>. QED
  BY <1>2, <1>4, <1>5, <1>8, <1>9

\* A step with flush_bg_queue that else is about r.
LEMMA CountFlush ==
    ASSUME TypeOK, OwnerInv, Counts, NEW r \in Req,
           NEW rq \in [Req -> ReqRecord], NEW bgq \in Seq(Req), NEW active \in Int, NEW pend,
           NEW max \in Nat, flush_bg_queue(rq, bgq, active, pend, max),
           \A s \in Req \ {r} : /\ rq[s] = req[s] /\ caller'[s] = caller[s] /\ Pc(s)' = Pc(s)
                                /\ s \in ToSet(bgq) => s \in ToSet(bg_queue),
           rq[r].waiting = req[r].waiting,
           caller[r] # "blocked", caller'[r] \notin {"blocked", "retrieve"},
           Getters(thread') = Getters(thread),
           num_background' = num_background + One(Live(r)') - One(Live(r))
    PROVE  Counts'
<1>. DEFINE L == {s \in Req : Live(s)}
<1>1. /\ num_waiting' = num_waiting + Cardinality(Shares(req')) - Cardinality(Shares(rq))
      /\ \A s \in Req : /\ req'[s].background = rq[s].background
                        /\ rq[s].waiting => req'[s].waiting
      /\ num_waiting \in Int
  BY FlushShares DEF TypeOK
<1>2. Shares(rq) = Shares(req) /\ Sleepers(caller') = Sleepers(caller)
  BY DEF Shares, Sleepers
<1>3. \A s \in Req : /\ req'[s].error = rq[s].error
                     /\ \/ req'[s].state = rq[s].state
                        \/ s \in ToSet(bgq) /\ req'[s].state = "PENDING"
  BY FlushLeaves
<1>4. \A s \in Req \ {r} : Live(s)' <=> Live(s)
  <2>. SUFFICES ASSUME NEW s \in Req \ {r} PROVE Live(s)' <=> Live(s)
    OBVIOUS
  <2>1. s \in ToSet(bg_queue) => req[s].state # "FINISHED"
    BY DEF OwnerInv, Sound, PlaceOK
  <2>. QED
    BY <1>1, <1>3, <2>1 DEF Live
<1>5. \A s : s # r => (s \in L <=> s \in L')
  BY <1>4
<1>6. IsFiniteSet(L) /\ IsFiniteSet(Shares(req)) /\ IsFiniteSet(Shares(req'))
      /\ IsFiniteSet(Sleepers(caller))
  BY ReqAssumption, FS_Subset DEF Shares, Sleepers
<1>7. (r \in L <=> Live(r)) /\ (r \in L' <=> Live(r)')
  OBVIOUS
<1>. HIDE DEF L
<1>8. Cardinality(L) \in Nat /\ Cardinality(L') = Cardinality(L) + One(Live(r)') - One(Live(r))
  BY <1>5, <1>6, <1>7, SetChange DEF One
<1>9. num_background' = Cardinality(L')
  BY <1>8 DEF Counts, L
<1>10. /\ Cardinality(Shares(req)) \in Nat /\ Cardinality(Shares(req')) \in Nat
       /\ Cardinality(Sleepers(caller)) \in Nat /\ Cardinality(Getters(thread)) \in Nat
  BY <1>6, FS_CardinalityType DEF Counts
<1>11. num_waiting' = Cardinality(Sleepers(caller)) + Cardinality(Getters(thread))
                      + Cardinality(Shares(req'))
  BY <1>1, <1>2, <1>10, SMTT(30) DEF Counts
<1>12. \A s \in Req : caller'[s] = "retrieve" => req'[s].waiting
  BY <1>1 DEF Counts
<1>13. /\ IsFiniteSet(Getters(thread'))
       /\ num_waiting' = Cardinality(Sleepers(caller')) + Cardinality(Getters(thread'))
                           + Cardinality(Shares(req'))
  BY <1>2, <1>11 DEF Counts
<1>. QED
  BY <1>9, <1>12, <1>13 DEF Counts, L

\* A step with request_end of r.
LEMMA CountEnd ==
    ASSUME TypeOK, OwnerInv, Counts, NEW r \in Req, NEW rq \in [Req -> ReqRecord],
           request_end(r, rq), r \notin ToSet(bg_queue),
           \A s \in Req \ {r} : rq[s] = req[s] /\ caller'[s] = caller[s] /\ Pc(s)' = Pc(s),
           rq[r].waiting = req[r].waiting, rq[r].background = req[r].background,
           caller[r] # "blocked", caller'[r] \notin {"blocked", "retrieve"},
           Getters(thread') = Getters(thread),
           Pc(r)' \notin Copying, req[r].background => Live(r)
    PROVE  Counts'
<1>. DEFINE ended == [rq EXCEPT ![r] = Finished(rq[r])]
<1>1. /\ Finished(rq[r]) \in ReqRecord /\ Finished(rq[r]).state = "FINISHED"
      /\ Finished(rq[r]).background = rq[r].background
  BY FinishedFields
<1>2. Finished(rq[r]).waiting = rq[r].waiting
  BY DEF Finished, ReqRecord
<1>3. /\ ended \in [Req -> ReqRecord] /\ ended[r] = Finished(rq[r])
      /\ \A s \in Req \ {r} : ended[s] = req[s]
  BY <1>1
<1>4. CASE rq[r].background
  <2>1. /\ flush_bg_queue(ended, bg_queue, active_background - 1, Unlink(pending, r),
                          max_background)
        /\ num_background' = num_background - 1
    BY <1>4 DEF request_end
  <2>2. /\ bg_queue \in Seq(Req) /\ active_background - 1 \in Int /\ max_background \in Nat
        /\ num_background \in Int
    BY DEF TypeOK
  <2>. HIDE DEF ended
  <2>3. \A s \in Req : /\ req'[s].error = ended[s].error
                       /\ \/ req'[s].state = ended[s].state
                          \/ s \in ToSet(bg_queue) /\ req'[s].state = "PENDING"
    BY <1>3, <2>1, <2>2, FlushLeaves
  <2>4. ~ Live(r)'
    BY <1>1, <1>3, <2>3 DEF Live
  <2>5. num_background' = num_background + One(Live(r)') - One(Live(r))
    BY <1>4, <2>1, <2>2, <2>4 DEF One
  <2>. QED
    BY <1>2, <1>3, <2>1, <2>2, <2>5, CountFlush
<1>5. CASE ~ rq[r].background
  <2>1. req' = ended /\ UNCHANGED <<num_background, num_waiting>>
    BY <1>5 DEF request_end
  <2>. HIDE DEF ended
  <2>2. ~ Live(r) /\ ~ Live(r)'
    BY <1>1, <1>3, <1>5, <2>1 DEF Live
  <2>3. Owes(r)' = Owes(r) /\ Owes(r) \in Int
    BY <1>2, <1>3, <2>1 DEF Owes, One
  <2>4. num_waiting \in Int /\ num_background \in Int
    BY DEF TypeOK
  <2>5. /\ num_waiting' = num_waiting + Owes(r)' - Owes(r)
        /\ num_background' = num_background + One(Live(r)') - One(Live(r))
    BY <2>1, <2>2, <2>3, <2>4 DEF One
  <2>. QED
    BY <1>3, <2>1, <2>5, CountOne
<1>. QED
  BY <1>4, <1>5

\* A step that touches neither a share, a mark nor a counter.
LEMMA CountNone ==
    ASSUME Counts, UNCHANGED <<num_waiting, num_background>>,
           Getters(thread') = Getters(thread),
           \A s \in Req : /\ req'[s].waiting = req[s].waiting
                          /\ caller'[s] = "blocked" <=> caller[s] = "blocked"
                          /\ caller'[s] = "retrieve" => caller[s] = "retrieve"
                          /\ Live(s)' <=> Live(s)
    PROVE  Counts'
<1>. DEFINE L == {s \in Req : Live(s)}
<1>1. Shares(req') = Shares(req) /\ Sleepers(caller') = Sleepers(caller)
  BY DEF Shares, Sleepers
<1>2. L' = L
  OBVIOUS
<1>. HIDE DEF L
<1>3. num_background' = Cardinality(L')
  BY <1>2 DEF Counts, L
<1>4. \A s \in Req : caller'[s] = "retrieve" => req'[s].waiting
  BY DEF Counts
<1>. QED
  BY <1>1, <1>3, <1>4 DEF Counts, L

-----------------------------------------------------------------------------
(* The callers' steps count.                                               *)

LEMMA WaitCounts ==
    ASSUME TypeOK, OwnerInv, Counts, NEW r \in Req,
           Sleep(r) \/ WaitDone(r) \/ WaitUnlocked(r) \/ WaitInterrupted(r) \/ WaitKilled(r)
    PROVE  Counts'
<1>1. Sound(r) /\ req[r] \in ReqRecord
  BY DEF OwnerInv, TypeOK
<1>2. Waits(r) \/ caller[r] = "unlocked"
  BY DEF Sleep, WaitDone, WaitUnlocked, WaitInterrupted, WaitKilled, Waits
<1>3. /\ UNCHANGED <<thread, num_waiting, num_background>>
      /\ \A s \in Req \ {r} : caller'[s] = caller[s]
      /\ caller'[r] \notin {"blocked", "retrieve"}
      /\ caller[r] \notin {"blocked", "retrieve"}
  BY <1>2 DEF Sleep, WaitDone, WaitUnlocked, WaitInterrupted, WaitKilled, FatalWait, counts,
              TypeOK, Waits
<1>4. /\ \A s \in Req \ {r} : req'[s] = req[s]
      /\ req'[r].waiting = req[r].waiting /\ req'[r].background = req[r].background
  <2>1. CASE UNCHANGED req
    BY <2>1
  <2>2. CASE WaitInterrupted(r)
    <3>1. req' = [req EXCEPT ![r] = [req[r] EXCEPT !.interrupted = TRUE]]
      BY <2>2 DEF WaitInterrupted
    <3>2. req \in [Req -> ReqRecord]
      BY DEF TypeOK
    <3>3. req'[r] = [req[r] EXCEPT !.interrupted = TRUE] /\ \A s \in Req \ {r} : req'[s] = req[s]
      BY <3>1, <3>2
    <3>. QED
      BY <1>1, <3>3 DEF ReqRecord
  <2>3. CASE WaitKilled(r) /\ NotRead(r)
    <3>1. /\ req'[r] = [req[r] EXCEPT !.count = @ - 1, !.error = "EINTR"]
          /\ \A s \in Req \ {r} : req'[s] = req[s]
      BY <2>3 DEF WaitKilled, TypeOK
    <3>. QED
      BY <1>1, <3>1 DEF ReqRecord
  <2>. QED
    BY <2>1, <2>2, <2>3 DEF Sleep, WaitDone, WaitUnlocked, WaitKilled
<1>5. ~ Live(r) /\ ~ Live(r)'
  BY <1>1, <1>2, <1>4 DEF Sound, CallerOK, Live
<1>6. \A s \in Req \ {r} : Live(s)' <=> Live(s)
  BY <1>3, <1>4 DEF Live, Pc
<1>. QED
  BY <1>3, <1>4, <1>5, <1>6, CountNone

\* fuse_get_req and fuse_request_alloc.
LEMMA AllocCounts ==
    ASSUME TypeOK, OwnerInv, Counts, NEW r \in Req,
           GetReq(r) \/ GetReqDone(r) \/ GetReqFail(r) \/ RequestAlloc(r)
    PROVE  Counts'
<1>1. Sound(r) /\ caller[r] \in {"none", "blocked"} /\ num_waiting \in Int
      /\ num_background \in Int
  BY DEF OwnerInv, TypeOK, GetReq, GetReqDone, GetReqFail, RequestAlloc
<1>2. req[r] = FreeReq /\ ~ req[r].waiting /\ ~ req[r].background
  BY <1>1 DEF Sound, CallerOK, FreeReq
<1>3. /\ UNCHANGED <<thread, num_background>>
      /\ \A s \in Req \ {r} : req'[s] = req[s] /\ caller'[s] = caller[s]
      /\ caller'[r] # "retrieve"
  BY DEF GetReq, GetReqDone, GetReqFail, RequestAlloc, counts, TypeOK
<1>4. ~ fuse_request_init.waiting
  BY NewFields DEF fuse_request_init, FreeReq
<1>5. /\ num_waiting' = num_waiting + Owes(r)' - Owes(r)
      /\ ~ req'[r].background
  <2>1. CASE GetReq(r)
    BY <1>1, <1>2, <2>1 DEF GetReq, Owes, One, TypeOK
  <2>2. CASE GetReqFail(r)
    BY <1>1, <1>2, <2>2 DEF GetReqFail, Owes, One, TypeOK
  <2>3. CASE RequestAlloc(r)
    <3>1. req'[r] = fuse_request_init /\ caller[r] = "none" /\ caller'[r] = "alloc"
          /\ num_waiting' = num_waiting
      BY <2>3 DEF RequestAlloc, TypeOK
    <3>. QED
      BY <1>1, <1>2, <1>4, <3>1, NewFields DEF Owes, One
  <2>4. CASE GetReqDone(r)
    <3>1. /\ caller[r] = "blocked" /\ caller'[r] = "alloc" /\ num_waiting' = num_waiting
          /\ \E f \in BOOLEAN :
                req'[r] = [fuse_request_init EXCEPT !.waiting = TRUE, !.force = f]
      BY <2>4 DEF GetReqDone, TypeOK
    <3>2. req'[r].waiting /\ ~ req'[r].background
      BY <3>1, NewFields DEF ReqRecord
    <3>. QED
      BY <1>1, <1>2, <3>1, <3>2 DEF Owes, One
  <2>. QED
    BY <2>1, <2>2, <2>3, <2>4
<1>6. ~ Live(r) /\ ~ Live(r)'
  BY <1>2, <1>5 DEF Live
<1>7. num_background' = num_background + One(Live(r)') - One(Live(r))
  BY <1>1, <1>3, <1>6 DEF One
<1>8. Getters(thread') = Getters(thread) /\ \A s \in Req : Pc(s)' = Pc(s)
  BY <1>3 DEF Pc
<1>. QED
  BY <1>3, <1>5, <1>7, <1>8, CountOne

\* fuse_request_send.
LEMMA SendCounts ==
    ASSUME TypeOK, OwnerInv, Counts, NEW r \in Req, RequestSend(r) \/ RequestRefused(r)
    PROVE  Counts'
<1>1. Sound(r) /\ caller[r] = "alloc" /\ num_waiting \in Int /\ num_background \in Int
      /\ req[r] \in ReqRecord
  BY DEF OwnerInv, TypeOK, RequestSend, RequestRefused
<1>2. /\ UNCHANGED <<thread, num_background>>
      /\ \A s \in Req \ {r} : req'[s] = req[s] /\ caller'[s] = caller[s]
      /\ caller'[r] \notin {"retrieve", "blocked"}
  BY DEF RequestSend, RequestRefused, FirstWait, FatalWait, counts, TypeOK
<1>3. /\ num_waiting' = num_waiting + Owes(r)' - Owes(r)
      /\ req'[r].background = req[r].background
  <2>1. CASE RequestSend(r)
    <3>1. /\ req'[r] = get_request(Queued(req[r], reqctr + 1, TRUE)) /\ reqctr + 1 \in Nat
          /\ num_waiting' = num_waiting + NewWaiting(req[r])
      BY <2>1 DEF RequestSend, TypeOK
    <3>2. Queued(req[r], reqctr + 1, TRUE) \in ReqRecord
      BY <1>1, <3>1, RecordTypes
    <3>3. req'[r].waiting /\ req'[r].background = req[r].background
      BY <1>1, <3>1, <3>2 DEF get_request, Queued, ReqRecord
    <3>4. Owes(r)' = 1 /\ Owes(r) = IF req[r].waiting THEN 1 ELSE 0
      BY <1>1, <1>2, <3>3 DEF Owes, One
    <3>5. NewWaiting(req[r]) = IF req[r].waiting THEN 0 ELSE 1
      BY DEF NewWaiting
    <3>6. num_waiting' = num_waiting + Owes(r)' - Owes(r)
      <4>1. CASE req[r].waiting
        <5>1. Owes(r)' = 1 /\ Owes(r) = 1 /\ NewWaiting(req[r]) = 0
          BY <3>4, <3>5, <4>1
        <5>. QED
          BY <1>1, <3>1, <5>1
      <4>2. CASE ~ req[r].waiting
        <5>1. Owes(r)' = 1 /\ Owes(r) = 0 /\ NewWaiting(req[r]) = 1
          BY <3>4, <3>5, <4>2
        <5>. QED
          BY <1>1, <3>1, <5>1
      <4>. QED
        BY <4>1, <4>2
    <3>. QED
      BY <3>3, <3>6
  <2>2. CASE RequestRefused(r)
    <3>1. PICK e : req'[r] = [req[r] EXCEPT !.isreply = TRUE, !.error = e]
      BY <2>2 DEF RequestRefused, TypeOK
    <3>2. req'[r].waiting = req[r].waiting /\ req'[r].background = req[r].background
      BY <1>1, <3>1 DEF ReqRecord
    <3>3. num_waiting' = num_waiting
      BY <2>2 DEF RequestRefused
    <3>. QED
      BY <1>1, <1>2, <3>2, <3>3 DEF Owes, One
  <2>. QED
    BY <2>1, <2>2
<1>4. ~ Live(r) /\ ~ Live(r)'
  BY <1>1, <1>3 DEF Sound, CallerOK, Live
<1>5. num_background' = num_background + One(Live(r)') - One(Live(r))
  BY <1>1, <1>2, <1>4 DEF One
<1>6. Getters(thread') = Getters(thread) /\ \A s \in Req : Pc(s)' = Pc(s)
  BY <1>2 DEF Pc
<1>. QED
  BY <1>2, <1>3, <1>5, <1>6, CountOne

\* fuse_request_send_background.
LEMMA SendBackgroundCounts ==
    ASSUME TypeOK, OwnerInv, Counts, NEW r \in Req, RequestSendBackground(r)
    PROVE  Counts'
<1>1. PICK end \in BOOLEAN :
         LET q == [req[r] EXCEPT !.isreply = TRUE, !.end = end]
         IN \/ /\ connected
               /\ send_nowait_locked(r, q)
               /\ caller' = [caller EXCEPT ![r] = "async"]
            \/ /\ ~ connected
               /\ request_end(r, [req EXCEPT ![r] = [q EXCEPT !.error = "ENOTCONN"]])
               /\ caller' = [caller EXCEPT ![r] = IF end THEN "ending_cb" ELSE "ending"]
  BY DEF RequestSendBackground
<1>. DEFINE q == [req[r] EXCEPT !.isreply = TRUE, !.end = end]
<1>2. /\ Sound(r) /\ caller[r] = "alloc" /\ UNCHANGED thread /\ req[r] \in ReqRecord
      /\ num_background \in Int /\ bg_queue \in Seq(Req)
  BY DEF OwnerInv, TypeOK, RequestSendBackground
<1>3. /\ ~ req[r].background /\ req[r].state = "INIT" /\ r \notin ToSet(bg_queue)
      /\ Pc(r) \notin Copying /\ ~ Live(r)
  BY <1>2 DEF Sound, PlaceOK, CallerOK, HandOK, Waits, Live
<1>4. /\ \A s \in Req \ {r} : caller'[s] = caller[s]
      /\ caller'[r] \in {"async", "ending", "ending_cb"}
  BY <1>1 DEF TypeOK
<1>5. /\ Getters(thread') = Getters(thread) /\ \A s \in Req : Pc(s)' = Pc(s)
  BY <1>2 DEF Pc
<1>6. /\ q \in ReqRecord /\ q.waiting = req[r].waiting /\ q.background = req[r].background
      /\ q.state = req[r].state
  BY <1>2 DEF ReqRecord
<1>. HIDE DEF q
<1>7. CASE connected
  <2>. DEFINE rq == [req EXCEPT ![r] = Background(q)]
  <2>1. /\ num_background' = num_background + 1
        /\ flush_bg_queue(rq, Append(bg_queue, r), active_background, pending, max_background)
    BY <1>1, <1>7 DEF send_nowait_locked, q
  <2>2. /\ Background(q) \in ReqRecord /\ Background(q).background
        /\ Background(q).waiting = req[r].waiting /\ Background(q).state = "INIT"
    BY <1>3, <1>6 DEF Background, ReqRecord
  <2>3. /\ rq \in [Req -> ReqRecord] /\ rq[r] = Background(q)
        /\ \A s \in Req \ {r} : rq[s] = req[s]
    BY <2>2 DEF TypeOK
  <2>. HIDE DEF rq
  <2>4. /\ Append(bg_queue, r) \in Seq(Req)
        /\ ToSet(Append(bg_queue, r)) = ToSet(bg_queue) \union {r}
    BY <1>2, AppendSet
  <2>5. active_background \in Int /\ max_background \in Nat
    BY DEF TypeOK
  <2>6. \A s \in Req : /\ req'[s].error = rq[s].error
                       /\ \/ req'[s].state = rq[s].state
                          \/ s \in ToSet(Append(bg_queue, r)) /\ req'[s].state = "PENDING"
    BY <2>1, <2>3, <2>4, <2>5, FlushLeaves
  <2>7. num_waiting \in Int /\ \A s \in Req : req'[s].background = rq[s].background
    BY <2>1, <2>3, <2>4, <2>5, FlushShares DEF TypeOK
  <2>8. Live(r)'
    BY <2>2, <2>3, <2>6, <2>7 DEF Live
  <2>9. num_background' = num_background + One(Live(r)') - One(Live(r))
    BY <1>2, <1>3, <2>1, <2>8 DEF One
  <2>10. \A s \in Req \ {r} : /\ rq[s] = req[s] /\ caller'[s] = caller[s] /\ Pc(s)' = Pc(s)
                              /\ s \in ToSet(Append(bg_queue, r)) => s \in ToSet(bg_queue)
    BY <1>4, <1>5, <2>3, <2>4
  <2>11. /\ rq[r].waiting = req[r].waiting /\ caller[r] # "blocked"
         /\ caller'[r] \notin {"blocked", "retrieve"}
    BY <1>2, <1>4, <2>2, <2>3
  <2>. QED
    BY <1>5, <2>1, <2>3, <2>4, <2>5, <2>9, <2>10, <2>11, CountFlush
<1>8. CASE ~ connected
  <2>. DEFINE p  == [q EXCEPT !.error = "ENOTCONN"]
              rq == [req EXCEPT ![r] = p]
  <2>1. request_end(r, rq)
    BY <1>1, <1>8 DEF q
  <2>2. p \in ReqRecord /\ p.waiting = req[r].waiting /\ p.background = req[r].background
    BY <1>6 DEF ReqRecord, Errors
  <2>. HIDE DEF p
  <2>3. /\ rq \in [Req -> ReqRecord] /\ rq[r] = p
        /\ \A s \in Req \ {r} : rq[s] = req[s]
    BY <2>2 DEF TypeOK
  <2>. HIDE DEF rq
  <2>. QED
    BY <1>2, <1>3, <1>4, <1>5, <2>1, <2>2, <2>3, CountEnd
<1>. QED
  BY <1>7, <1>8, ZenonT(60)

-----------------------------------------------------------------------------
(* fuse_put_request counts.                                                *)

LEMMA PutShare ==
    ASSUME NEW q \in ReqRecord
    PROVE  PutWaiting(q) = One(q.waiting) - One(Put(q).waiting)
<1>1. CASE q.count = 1
  <2>1. ~ Put(q).waiting
    BY <1>1 DEF Put, FreeReq
  <2>. QED
    BY <1>1, <2>1 DEF PutWaiting, One
<1>2. CASE q.count # 1
  <2>1. Put(q) = [q EXCEPT !.count = q.count - 1]
    BY <1>2 DEF Put
  <2>2. Put(q).waiting = q.waiting
    BY <2>1 DEF ReqRecord
  <2>. QED
    BY <1>2, <2>2 DEF PutWaiting, One
<1>. QED
  BY <1>1, <1>2

LEMMA PutCounts ==
    ASSUME TypeOK, Counts, NEW r \in Req, NEW q \in ReqRecord, q.waiting = req[r].waiting,
           req' = [req EXCEPT ![r] = Put(q)], num_waiting' = num_waiting - PutWaiting(q),
           \A s \in Req \ {r} : caller'[s] = caller[s] /\ Pc(s)' = Pc(s),
           Getters(thread') = Getters(thread), UNCHANGED num_background,
           caller[r] # "blocked", caller'[r] \notin {"blocked", "retrieve"},
           Live(r)' <=> Live(r)
    PROVE  Counts'
<1>1. req'[r] = Put(q) /\ \A s \in Req \ {r} : req'[s] = req[s]
  BY DEF TypeOK
<1>2. num_waiting \in Int /\ num_background \in Int
  BY DEF TypeOK
<1>3. PutWaiting(q) = One(req[r].waiting) - One(req'[r].waiting)
  BY <1>1, PutShare
<1>4. /\ Owes(r)' = One(req'[r].waiting) /\ Owes(r) = One(req[r].waiting)
      /\ One(req'[r].waiting) \in Int /\ One(req[r].waiting) \in Int
  BY DEF Owes, One
<1>5. num_waiting' = num_waiting + Owes(r)' - Owes(r)
  BY <1>2, <1>3, <1>4
<1>6. num_background' = num_background + One(Live(r)') - One(Live(r))
  BY <1>2 DEF One
<1>. QED
  BY <1>1, <1>5, <1>6, CountOne

\* request_end after the lock.
LEMMA EndPutCounts ==
    ASSUME TypeOK, Counts, NEW r \in Req, NEW end \in BOOLEAN, request_end_unlocked(r, end),
           \A s \in Req \ {r} : Pc(s)' = Pc(s),
           Getters(thread') = Getters(thread), UNCHANGED num_background,
           caller[r] \notin {"blocked", "retrieve"}, req[r].state = "FINISHED",
           req[r].count = 1 => Pc(r) \notin Copying,
           Pc(r)' \in Copying <=> Pc(r) \in Copying
    PROVE  Counts'
<1>. DEFINE q == IF end THEN [req[r] EXCEPT !.released = TRUE] ELSE req[r]
<1>1. req' = [req EXCEPT ![r] = Put(q)] /\ num_waiting' = num_waiting - PutWaiting(q)
  BY DEF request_end_unlocked
<1>2. q \in ReqRecord /\ q.waiting = req[r].waiting
  <2>1. req[r] \in ReqRecord
    BY DEF TypeOK
  <2>2. CASE end
    BY <2>1, <2>2 DEF ReqRecord
  <2>3. CASE ~ end
    BY <2>1, <2>3
  <2>. QED
    BY <2>2, <2>3
<1>. HIDE DEF q
<1>3. /\ \A s \in Req \ {r} : caller'[s] = caller[s]
      /\ caller'[r] \notin {"blocked", "retrieve"}
  BY PutEffect
<1>4. Live(r)' <=> Live(r)
  <2>1. CASE req[r].count = 1
    <3>1. req'[r] = FreeReq /\ Pc(r) \notin Copying
      BY <2>1, PutEffect
    <3>. QED
      BY <3>1 DEF Live, FreeReq
  <2>2. CASE req[r].count # 1
    BY <2>2, PutEffect DEF Live
  <2>. QED
    BY <2>1, <2>2
<1>. QED
  BY <1>1, <1>2, <1>3, <1>4, PutCounts

LEMMA CallerPutCounts ==
    ASSUME TypeOK, OwnerInv, Counts, NEW r \in Req, CallerPut(r) \/ SendEndUnlocked(r)
    PROVE  Counts'
<1>1. Sound(r) /\ req[r] \in ReqRecord
  BY DEF OwnerInv, TypeOK
<1>2. UNCHANGED <<thread, num_background>>
  BY DEF CallerPut, SendEndUnlocked, counts
<1>3. Getters(thread') = Getters(thread) /\ \A s \in Req : Pc(s)' = Pc(s)
  BY <1>2 DEF Pc
<1>4. CASE CallerPut(r)
  <2>1. /\ caller[r] = "done" /\ req' = [req EXCEPT ![r] = Put(req[r])]
        /\ num_waiting' = num_waiting - PutWaiting(req[r])
        /\ \A s \in Req \ {r} : caller'[s] = caller[s]
        /\ caller'[r] \in {"none", "async"}
    BY <1>4 DEF CallerPut, TypeOK
  <2>2. req'[r] = Put(req[r])
    BY <2>1 DEF TypeOK
  <2>3. ~ req[r].background
    BY <1>1, <2>1 DEF Sound, CallerOK
  <2>4. ~ req'[r].background
    BY <1>1, <2>2, <2>3, PutFields DEF FreeReq
  <2>5. ~ Live(r) /\ ~ Live(r)'
    BY <2>3, <2>4 DEF Live
  <2>. QED
    BY <1>1, <1>2, <1>3, <2>1, <2>5, PutCounts
<1>5. CASE SendEndUnlocked(r)
  <2>1. /\ caller[r] \in {"ending", "ending_cb"}
        /\ request_end_unlocked(r, caller[r] = "ending_cb")
        /\ (caller[r] = "ending_cb") \in BOOLEAN
    BY <1>5 DEF SendEndUnlocked
  <2>2. req[r].state = "FINISHED" /\ Pc(r) \notin Copying
    BY <1>1, <2>1 DEF Sound, CallerOK, HandOK, Waits
  <2>. QED
    BY <1>2, <1>3, <2>1, <2>2, EndPutCounts
<1>. QED
  BY <1>4, <1>5

\* Every step of a caller.
LEMMA CallerStepCounts ==
    ASSUME TypeOK, OwnerInv, Counts, NEW r \in Req, Caller(r)
    PROVE  Counts'
<1>1. GetReq(r) \/ GetReqDone(r) \/ GetReqFail(r) \/ RequestAlloc(r) => Counts'
  BY AllocCounts
<1>2. RequestSend(r) \/ RequestRefused(r) => Counts'
  BY SendCounts
<1>3. RequestSendBackground(r) => Counts'
  BY SendBackgroundCounts
<1>4. Sleep(r) \/ WaitDone(r) \/ WaitUnlocked(r) \/ WaitInterrupted(r) \/ WaitKilled(r)
        => Counts'
  BY WaitCounts
<1>5. CallerPut(r) \/ SendEndUnlocked(r) => Counts'
  BY CallerPutCounts
<1>. QED
  BY <1>1, <1>2, <1>3, <1>4, <1>5 DEF Caller

-----------------------------------------------------------------------------
(* The daemon's steps count.                                               *)

\* A thread moves on, not from or to fuse_get_req.
LEMMA GettersSame ==
    ASSUME TypeOK, NEW t \in Daemon, NEW new, thread' = [thread EXCEPT ![t] = new],
           thread[t].pc # "getreq", new.pc # "getreq"
    PROVE  Getters(thread') = Getters(thread)
<1>1. thread'[t] = new /\ \A u \in Daemon \ {t} : thread'[u] = thread[u]
  BY DEF TypeOK
<1>. QED
  BY <1>1 DEF Getters

\* A step of a thread with r at hand that changes nothing that counts.
LEMMA CountQuiet ==
    ASSUME TypeOK, OwnerInv, Counts, NEW t \in Daemon, NEW r \in Req, NEW new \in ThreadRecord,
           thread' = [thread EXCEPT ![t] = new], new.r \in {NoReq, r},
           thread[t].r = r \/ (thread[t].r = NoReq /\ ~ InHand(r)),
           thread[t].pc # "getreq", new.pc # "getreq",
           \A s \in Req \ {r} : req'[s] = req[s] /\ caller'[s] = caller[s],
           UNCHANGED <<num_waiting, num_background>>,
           req'[r].waiting = req[r].waiting,
           caller[r] # "blocked", caller'[r] # "blocked",
           caller'[r] = "retrieve" => caller[r] = "retrieve",
           Live(r)' <=> Live(r)
    PROVE  Counts'
<1>1. Getters(thread') = Getters(thread)
  BY GettersSame
<1>2. \A s \in Req \ {r} : Pc(s)' = Pc(s)
  BY ThreadSet DEF Pc
<1>3. \A s \in Req \ {r} : Live(s)' <=> Live(s)
  BY <1>2 DEF Live
<1>. QED
  BY <1>1, <1>3, CountNone

\* The thread ends the request it has just read or has copied.
LEMMA EndingCounts ==
    ASSUME TypeOK, OwnerInv, Counts, NEW t \in Daemon, NEW r \in Req,
           NEW rq \in [Req -> ReqRecord], request_end(r, rq), Ending(t, r),
           UNCHANGED caller,
           \/ thread[t].r = NoReq /\ r \in ToSet(pending) /\ thread[t].pc = "idle"
           \/ thread[t].r = r /\ thread[t].pc = "fin",
           \A s \in Req \ {r} : rq[s] = req[s],
           rq[r].waiting = req[r].waiting, rq[r].background = req[r].background
    PROVE  Counts'
<1>. DEFINE new == [Idle EXCEPT !.pc = "end", !.r = r, !.end = req[r].end]
<1>1. Sound(r) /\ req[r] \in ReqRecord
  BY DEF OwnerInv, TypeOK
<1>2. thread[t].r = r /\ thread[t].pc = "fin" => Hand(thread, r) = thread[t]
  BY InCopy DEF Copying
<1>3. r \in ToSet(pending) => /\ ~ InHand(r) /\ req[r].state = "PENDING"
                              /\ Waits(r) \/ caller[r] = "async"
  BY <1>1, Resting DEF Sound, PlaceOK
<1>4. /\ thread' = [thread EXCEPT ![t] = new] /\ new.r = r /\ new.pc = "end"
      /\ new \in ThreadRecord
  BY <1>1 DEF Ending, Idle, ThreadRecord, ThreadPc, ReqRecord
<1>. HIDE DEF new
<1>5. /\ Hand(thread', r) = new
      /\ \A s \in Req \ {r} : Hand(thread', s) = Hand(thread, s)
  BY <1>3, <1>4, ThreadSet
<1>6. Getters(thread') = Getters(thread)
  BY <1>4, GettersSame
<1>7. r \notin ToSet(bg_queue)
  BY <1>1, <1>2 DEF Sound, PlaceOK, HandOK, FieldsOK, Pc, Copying
<1>8. caller[r] \notin {"blocked", "retrieve"} /\ caller'[r] \notin {"blocked", "retrieve"}
  BY <1>1, <1>2, <1>3 DEF Sound, HandOK, Pc, Copying, Waits
<1>9. req[r].background => Live(r)
  BY <1>2, <1>3 DEF Live, Pc, Copying
<1>10. Pc(r)' \notin Copying /\ \A s \in Req \ {r} : Pc(s)' = Pc(s)
  BY <1>4, <1>5 DEF Pc, Copying
<1>. QED
  BY <1>6, <1>7, <1>8, <1>9, <1>10, CountEnd

\* A thread takes or ends an interrupt or a request, or answers one.
LEMMA ReadCounts ==
    ASSUME TypeOK, OwnerInv, Counts, NEW t \in Daemon,
           ReadInterrupt(t) \/ ReadRequest(t) \/ ReadTooBig(t)
    PROVE  Counts'
<1>1. /\ ReadInterrupt(t) => Head(interrupts) \in Req /\ Head(interrupts) \in ToSet(interrupts)
      /\ ReadRequest(t) \/ ReadTooBig(t) =>
           Head(pending) \in Req /\ Head(pending) \in ToSet(pending)
  BY FirstOf DEF ReadInterrupt, ReadRequest, ReadTooBig
<1>2. thread[t].pc = "idle" /\ thread[t].r = NoReq
  BY ReqAssumption DEF ReadInterrupt, ReadRequest, ReadTooBig, TypeOK, ThreadRecord
<1>3. CASE ReadInterrupt(t)
  <2>2. PICK r \in Req : r = Head(interrupts)
    BY <1>1, <1>3
  <2>1. /\ req' = [req EXCEPT ![r] = [req[r] EXCEPT !.intr_unique = reqctr + 1]]
        /\ UNCHANGED <<caller, thread, num_waiting, num_background>>
    BY <1>3, <2>2 DEF ReadInterrupt, counts
  <2>3. req[r] \in ReqRecord
    BY <2>2 DEF TypeOK
  <2>4. /\ req'[r].waiting = req[r].waiting /\ req'[r].background = req[r].background
        /\ req'[r].state = req[r].state
        /\ \A s \in Req \ {r} : req'[s] = req[s]
    BY <2>1, <2>2, <2>3 DEF TypeOK, ReqRecord
  <2>5. \A s \in Req : Live(s)' <=> Live(s)
    BY <2>1, <2>4 DEF Live, Pc
  <2>. QED
    BY <2>1, <2>4, <2>5, CountNone
<1>4. CASE ReadRequest(t)
  <2>1. PICK r \in Req : r = Head(pending) /\ r \in ToSet(pending)
    BY <1>1, <1>4
  <2>. DEFINE new == [Idle EXCEPT !.pc = "open", !.op = "read", !.r = r]
  <2>2. /\ req' = [req EXCEPT ![r] = [req[r] EXCEPT !.state = "READING"]]
        /\ thread' = [thread EXCEPT ![t] = new]
        /\ UNCHANGED <<caller, num_waiting, num_background>>
    BY <1>4, <2>1 DEF ReadRequest, counts
  <2>3. new \in ThreadRecord /\ new.r = r /\ new.pc = "open"
    BY DEF Idle, ThreadRecord, ThreadPc
  <2>. HIDE DEF new
  <2>4. Sound(r) /\ ~ InHand(r) /\ (Waits(r) \/ caller[r] = "async") /\ req[r] \in ReqRecord
    BY <2>1, Resting DEF OwnerInv, TypeOK
  <2>5. /\ req'[r].waiting = req[r].waiting /\ req'[r].background = req[r].background
        /\ req'[r].state = "READING" /\ req[r].state = "PENDING"
        /\ \A s \in Req \ {r} : req'[s] = req[s]
    BY <2>1, <2>2, <2>4 DEF TypeOK, ReqRecord, Sound, PlaceOK
  <2>6. Live(r)' <=> Live(r)
    BY <2>5 DEF Live
  <2>7. caller[r] \notin {"blocked", "retrieve"}
    BY <2>4 DEF Waits
  <2>8. thread[t].pc # "getreq" /\ new.pc # "getreq"
    BY <1>2, <2>3
  <2>. QED
    BY <1>2, <2>2, <2>3, <2>4, <2>5, <2>6, <2>7, <2>8, CountQuiet
<1>5. CASE ReadTooBig(t)
  <2>2. PICK r \in Req : r = Head(pending) /\ r \in ToSet(pending)
    BY <1>1, <1>5
  <2>. DEFINE q  == [req[r] EXCEPT !.error = "EIO"]
              rq == [req EXCEPT ![r] = q]
  <2>1. request_end(r, rq) /\ Ending(t, r) /\ UNCHANGED caller
    BY <1>5, <2>2 DEF ReadTooBig
  <2>3. q \in ReqRecord /\ q.waiting = req[r].waiting /\ q.background = req[r].background
    <3>1. req[r] \in ReqRecord
      BY <2>2 DEF TypeOK
    <3>. QED
      BY <3>1 DEF ReqRecord, Errors
  <2>. HIDE DEF q
  <2>4. rq \in [Req -> ReqRecord] /\ rq[r] = q /\ \A s \in Req \ {r} : rq[s] = req[s]
    BY <2>2, <2>3 DEF TypeOK
  <2>. HIDE DEF rq
  <2>. QED
    BY <1>2, <2>1, <2>2, <2>3, <2>4, EndingCounts
<1>. QED
  BY <1>3, <1>4, <1>5

\* A thread goes on copying.
LEMMA CopyCounts ==
    ASSUME TypeOK, TypeOK', OwnerInv, Counts, NEW t \in Daemon, NEW r \in Req, thread[t].r = r,
           Copy(t)
    PROVE  Counts'
<1>1. PICK pc \in Copying : GoesOn(t, pc)
  BY CopyStep
<1>2. /\ thread[t].pc \in Copying /\ UNCHANGED <<caller, num_waiting, num_background>>
      /\ thread' = [thread EXCEPT ![t] = thread'[t]]
      /\ thread'[t].r = r /\ thread'[t].pc \in Copying
      /\ Hand(thread, r) = thread[t] /\ thread'[t] \in ThreadRecord
  <2>1. UNCHANGED <<num_waiting, num_background>>
    BY DEF Copy, LockCopy, CopyFault, UnlockCopy, HandPage, PageHanded, ClearPage, CopyEnd, counts
  <2>. QED
    BY <1>1, <2>1, CopyStep, InCopy DEF GoesOn, TypeOK
<1>3. /\ \A s \in Req \ {r} : req'[s] = req[s]
      /\ req'[r].state = req[r].state /\ req'[r].background = req[r].background
      /\ req'[r].waiting = req[r].waiting
  <2>1. req[r] \in ReqRecord
    BY DEF TypeOK
  <2>2. req' = req \/ \E b \in BOOLEAN : req' = LockedAs(r, b)
    BY CopyStep
  <2>3. CASE req' = req
    BY <2>3
  <2>4. ASSUME NEW b \in BOOLEAN, req' = LockedAs(r, b)
        PROVE  /\ \A s \in Req \ {r} : req'[s] = req[s]
               /\ req'[r].state = req[r].state /\ req'[r].background = req[r].background
               /\ req'[r].waiting = req[r].waiting
    BY <2>1, <2>4 DEF TypeOK, ReqRecord, LockedAs
  <2>. QED
    BY <2>2, <2>3, <2>4
<1>4. Hand(thread', r) = thread'[t]
  BY <1>2, ThreadSet
<1>5. Live(r)' <=> Live(r)
  BY <1>2, <1>3, <1>4 DEF Live, Pc
<1>6. caller[r] \notin {"blocked", "retrieve"}
  BY <1>2 DEF OwnerInv, Sound, HandOK, Pc, Waits
<1>7. thread[t].pc # "getreq" /\ thread'[t].pc # "getreq"
  BY <1>2 DEF Copying
<1>. QED
  BY <1>2, <1>3, <1>5, <1>6, <1>7, CountQuiet

\* A copy is over: the request is ended, or the daemon's to answer.
LEMMA CopiedCounts ==
    ASSUME TypeOK, OwnerInv, Counts, NEW t \in Daemon, NEW r \in Req, thread[t].r = r,
           ReadEnd(t) \/ WriteEnd(t)
    PROVE  Counts'
<1>. DEFINE over == req[r].aborted \/ thread[t].failed \/ ~ req[r].isreply
            q  == IF thread[t].failed /\ ~ req[r].aborted
                    THEN [req[r] EXCEPT !.locked = FALSE, !.error = "EIO"]
                    ELSE [req[r] EXCEPT !.locked = FALSE]
            rq == [req EXCEPT ![r] = q]
<1>1. /\ req[r] \in ReqRecord /\ thread[t].pc = "fin" /\ UNCHANGED caller
      /\ Hand(thread, r) = thread[t]
  BY InCopy DEF TypeOK, ReadEnd, WriteEnd, Copying
<1>2. CASE WriteEnd(t) \/ (ReadEnd(t) /\ over)
  <2>1. /\ request_end(r, IF thread[t].failed /\ ~ req[r].aborted
                            THEN [Unlocked(r) EXCEPT ![r].error = "EIO"]
                            ELSE Unlocked(r))
        /\ Ending(t, r)
    BY <1>2 DEF ReadEnd, WriteEnd
  <2>2. request_end(r, rq)
    <3>1. rq = IF thread[t].failed /\ ~ req[r].aborted
                 THEN [Unlocked(r) EXCEPT ![r].error = "EIO"]
                 ELSE Unlocked(r)
      BY <1>1 DEF Unlocked, TypeOK
    <3>. QED
      BY <2>1, <3>1
  <2>3. q \in ReqRecord /\ q.waiting = req[r].waiting /\ q.background = req[r].background
    BY <1>1, ZenonT(60) DEF ReqRecord, Errors
  <2>. HIDE DEF q
  <2>4. rq \in [Req -> ReqRecord] /\ rq[r] = q /\ \A s \in Req \ {r} : rq[s] = req[s]
    BY <2>3 DEF TypeOK
  <2>. HIDE DEF rq
  <2>. QED
    BY <1>1, <2>1, <2>2, <2>3, <2>4, EndingCounts
<1>3. CASE ReadEnd(t) /\ ~ over
  <2>1. /\ req' = [Unlocked(r) EXCEPT ![r].state = "SENT"]
        /\ thread' = [thread EXCEPT ![t] = Idle]
        /\ UNCHANGED <<num_waiting, num_background>>
    BY <1>3 DEF ReadEnd, counts
  <2>2. /\ \A s \in Req \ {r} : req'[s] = req[s]
        /\ req'[r].state = "SENT" /\ req'[r].background = req[r].background
        /\ req'[r].waiting = req[r].waiting
    <3>1. req' = [req EXCEPT ![r] = [req[r] EXCEPT !.locked = FALSE, !.state = "SENT"]]
      BY <1>1, <2>1 DEF Unlocked, TypeOK
    <3>. QED
      BY <1>1, <3>1 DEF TypeOK, ReqRecord
  <2>3. Live(r)' <=> Live(r)
    BY <1>1, <2>2 DEF Live, Pc, Copying
  <2>4. Idle \in ThreadRecord /\ Idle.r = NoReq /\ Idle.pc = "idle"
    BY DEF Idle, ThreadRecord, ThreadPc
  <2>5. caller[r] \notin {"blocked", "retrieve"}
    BY <1>1 DEF OwnerInv, Sound, HandOK, Pc, Waits, Copying
  <2>. QED
    BY <1>1, <2>1, <2>2, <2>3, <2>4, <2>5, CountQuiet
<1>. HIDE DEF over
<1>. QED
  BY <1>2, <1>3

\* A thread answers a request, or an interrupt.
LEMMA ReplyCounts ==
    ASSUME TypeOK, OwnerInv, Counts, NEW t \in Daemon, NEW r \in Req,
           WriteReply(t, r) \/ WriteInterruptReply(t, r)
    PROVE  Counts'
<1>1. /\ r \in processing /\ thread[t].pc = "idle" /\ req[r] \in ReqRecord
      /\ UNCHANGED <<caller, num_waiting, num_background>>
  BY DEF WriteReply, WriteInterruptReply, counts, TypeOK
<1>2. /\ Sound(r) /\ ~ InHand(r) /\ thread[t].r = NoReq /\ req[r].state = "SENT"
      /\ Waits(r) \/ caller[r] = "async"
  BY <1>1, Resting, ReqAssumption DEF OwnerInv, TypeOK, ThreadRecord, Sound, PlaceOK
<1>3. CASE WriteReply(t, r)
  <2>. DEFINE new == [Idle EXCEPT !.pc = "locked", !.op = "write", !.r = r]
  <2>1. /\ req' = [req EXCEPT ![r] = [req[r] EXCEPT !.state = "WRITING", !.locked = TRUE,
                                                  !.error = "answer"]]
        /\ thread' = [thread EXCEPT ![t] = new]
    BY <1>1, <1>3 DEF WriteReply, TypeOK, ReqRecord
  <2>2. new \in ThreadRecord /\ new.r = r /\ new.pc = "locked"
    BY DEF Idle, ThreadRecord, ThreadPc
  <2>. HIDE DEF new
  <2>3. /\ req'[r].waiting = req[r].waiting /\ req'[r].background = req[r].background
        /\ req'[r].state = "WRITING"
        /\ \A s \in Req \ {r} : req'[s] = req[s]
    BY <1>1, <2>1 DEF TypeOK, ReqRecord
  <2>4. Live(r)' <=> Live(r)
    BY <1>2, <2>3 DEF Live
  <2>5. caller[r] \notin {"blocked", "retrieve"} /\ thread[t].pc # "getreq" /\ new.pc # "getreq"
    BY <1>1, <1>2, <2>2 DEF Waits
  <2>. QED
    BY <1>1, <1>2, <2>1, <2>2, <2>3, <2>4, <2>5, CountQuiet
<1>4. CASE WriteInterruptReply(t, r)
  <2>1. UNCHANGED <<req, thread>>
    BY <1>4 DEF WriteInterruptReply
  <2>2. \A s \in Req : Live(s)' <=> Live(s)
    BY <1>1, <2>1 DEF Live, Pc
  <2>. QED
    BY <1>1, <2>1, <2>2, CountNone
<1>. QED
  BY <1>3, <1>4

\* The system call of a thread returns.
LEMMA EndUnlockedCounts ==
    ASSUME TypeOK, OwnerInv, Counts, NEW t \in Daemon, NEW r \in Req, thread[t].r = r,
           EndUnlocked(t)
    PROVE  Counts'
<1>1. /\ thread[t].pc = "end" /\ request_end_unlocked(r, thread[t].end)
      /\ thread' = [thread EXCEPT ![t] = Idle] /\ UNCHANGED num_background
  BY DEF EndUnlocked, counts
<1>2. Sound(r) /\ thread[t].end \in BOOLEAN /\ Hand(thread, r) = thread[t]
  BY <1>1, InCopy DEF OwnerInv, TypeOK, ThreadRecord
<1>3. Idle \in ThreadRecord /\ Idle.r = NoReq /\ Idle.r # r /\ Idle.pc = "idle"
  BY ReqAssumption DEF Idle, ThreadRecord, ThreadPc
<1>4. /\ Hand(thread', r) = Idle
      /\ \A s \in Req \ {r} : Hand(thread', s) = Hand(thread, s)
  BY <1>1, <1>3, ThreadSet
<1>5. Getters(thread') = Getters(thread)
  BY <1>1, <1>3, GettersSame
<1>6. /\ Pc(r) \notin Copying /\ Pc(r)' \notin Copying /\ \A s \in Req \ {r} : Pc(s)' = Pc(s)
  BY <1>1, <1>2, <1>3, <1>4 DEF Pc, Copying
<1>7. req[r].state = "FINISHED" /\ caller[r] \notin {"blocked", "retrieve"}
  BY <1>1, <1>2 DEF Sound, HandOK, Pc, Waits, Copying
<1>. QED
  BY <1>1, <1>2, <1>5, <1>6, <1>7, EndPutCounts

\* A thread enters fuse_get_req, or leaves it with no request.
LEMMA RetrieveCounts ==
    ASSUME TypeOK, OwnerInv, Counts, NEW t \in Daemon, Retrieve(t) \/ RetrieveFail(t)
    PROVE  Counts'
<1>1. /\ Idle \in ThreadRecord /\ Idle.r = NoReq /\ Idle.pc = "idle"
      /\ [Idle EXCEPT !.pc = "getreq"] \in ThreadRecord
      /\ [Idle EXCEPT !.pc = "getreq"].r = NoReq
      /\ [Idle EXCEPT !.pc = "getreq"].pc = "getreq"
  BY DEF Idle, ThreadRecord, ThreadPc
<1>2. PICK new \in ThreadRecord :
         /\ new.r = NoReq /\ thread' = [thread EXCEPT ![t] = new]
         /\ num_waiting' = num_waiting + One(new.pc = "getreq") - One(thread[t].pc = "getreq")
  <2>1. CASE Retrieve(t)
    <3>. DEFINE new == [Idle EXCEPT !.pc = "getreq"]
    <3>1. /\ thread' = [thread EXCEPT ![t] = new] /\ thread[t].pc = "idle"
          /\ num_waiting' = num_waiting + 1 /\ num_waiting \in Int
      BY <2>1 DEF Retrieve, TypeOK
    <3>2. new \in ThreadRecord /\ new.r = NoReq /\ new.pc = "getreq"
      BY <1>1
    <3>. HIDE DEF new
    <3>3. num_waiting' = num_waiting + One(new.pc = "getreq") - One(thread[t].pc = "getreq")
      BY <3>1, <3>2 DEF One
    <3>. QED
      BY <3>1, <3>2, <3>3
  <2>2. CASE RetrieveFail(t)
    <3>1. /\ thread' = [thread EXCEPT ![t] = Idle] /\ thread[t].pc = "getreq"
          /\ num_waiting' = num_waiting - 1 /\ num_waiting \in Int
      BY <2>2 DEF RetrieveFail, TypeOK
    <3>2. num_waiting' = num_waiting + One(Idle.pc = "getreq") - One(thread[t].pc = "getreq")
      BY <1>1, <3>1 DEF One
    <3>. QED
      BY <1>1, <3>1, <3>2
  <2>. QED
    BY <2>1, <2>2
<1>3. /\ thread[t].r = NoReq /\ thread \in [Daemon -> ThreadRecord] /\ OneHand(thread)
      /\ num_waiting \in Int
  BY ReqAssumption DEF Retrieve, RetrieveFail, TypeOK, ThreadRecord, OwnerInv
<1>4. LET th2 == [thread EXCEPT ![t] = new]
      IN  OneHand(th2) /\ \A s \in Req : Hand(th2, s) = Hand(thread, s)
  BY <1>2, <1>3, HandKept
<1>5. \A s \in Req : Pc(s)' = Pc(s)
  BY <1>2, <1>4 DEF Pc
<1>6. UNCHANGED <<req, caller, num_background>>
  BY DEF Retrieve, RetrieveFail, counts
<1>7. thread'[t] = new /\ \A u \in Daemon \ {t} : thread'[u] = thread[u]
  BY <1>2, <1>3
<1>8. /\ \A u : u # t => (u \in Getters(thread) <=> u \in Getters(thread'))
      /\ t \in Getters(thread) <=> thread[t].pc = "getreq"
      /\ t \in Getters(thread') <=> new.pc = "getreq"
  BY <1>7 DEF Getters
<1>9. /\ IsFiniteSet(Getters(thread'))
      /\ Cardinality(Getters(thread)) \in Nat /\ Cardinality(Getters(thread')) \in Nat
      /\ Cardinality(Getters(thread')) =
           Cardinality(Getters(thread)) + One(new.pc = "getreq") - One(thread[t].pc = "getreq")
  BY <1>8, SetChange DEF Counts, One
<1>10. IsFiniteSet(Sleepers(caller)) /\ IsFiniteSet(Shares(req))
  BY ReqAssumption, FS_Subset DEF Sleepers, Shares
<1>11. Cardinality(Sleepers(caller)) \in Nat /\ Cardinality(Shares(req)) \in Nat
  BY <1>10, FS_CardinalityType
<1>12. num_waiting' = Cardinality(Sleepers(caller)) + Cardinality(Getters(thread'))
                       + Cardinality(Shares(req))
  BY <1>2, <1>9, <1>11 DEF Counts, One
<1>13. {s \in Req : Live(s)}' = {s \in Req : Live(s)}
  BY <1>5, <1>6 DEF Live
<1>14. num_background' = Cardinality({s \in Req : Live(s)}')
  BY <1>6, <1>13 DEF Counts
<1>. QED
  BY <1>6, <1>9, <1>12, <1>14 DEF Counts

\* ... with one: its place in fuse_get_req becomes the request's share.
LEMMA RetrieveGetCounts ==
    ASSUME TypeOK, OwnerInv, Counts, NEW t \in Daemon, NEW r \in Req, RetrieveGet(t, r)
    PROVE  Counts'
<1>. DEFINE new == [thread[t] EXCEPT !.pc = "notify", !.r = r]
<1>1. /\ thread[t].pc = "getreq" /\ caller[r] = "none" /\ caller'[r] = "retrieve"
      /\ \A s \in Req \ {r} : caller'[s] = caller[s]
      /\ UNCHANGED <<num_waiting, num_background>> /\ num_waiting \in Int
      /\ num_background \in Int
  BY DEF RetrieveGet, TypeOK, counts
<1>2. Sound(r) /\ thread[t] \in ThreadRecord /\ thread[t].r = NoReq
  BY <1>1, ReqAssumption DEF OwnerInv, TypeOK, ThreadRecord
<1>3. req[r] = FreeReq /\ ~ InHand(r) /\ ~ req[r].waiting /\ ~ req[r].background
  BY <1>1, <1>2 DEF Sound, CallerOK, FreeReq
<1>4. /\ \A s \in Req \ {r} : req'[s] = req[s]
      /\ ~ req'[r].background /\ req'[r].waiting
  <2>1. /\ req'[r] = [fuse_request_init EXCEPT !.waiting = TRUE, !.end = TRUE]
        /\ \A s \in Req \ {r} : req'[s] = req[s]
    BY DEF RetrieveGet, TypeOK
  <2>. QED
    BY <2>1, NewFields DEF ReqRecord
<1>5. new \in ThreadRecord /\ new.r = r /\ new.pc = "notify"
  BY <1>2 DEF ThreadRecord, ThreadPc
<1>6. thread' = [thread EXCEPT ![t] = new]
  <2>1. thread' = [thread EXCEPT ![t].pc = "notify", ![t].r = r]
    BY DEF RetrieveGet
  <2>. QED
    BY <1>2, <2>1 DEF TypeOK, ThreadRecord
<1>. HIDE DEF new
<1>7. \A s \in Req \ {r} : Pc(s)' = Pc(s)
  BY <1>2, <1>3, <1>5, <1>6, ThreadSet DEF Pc
<1>8. thread'[t] = new /\ \A u \in Daemon \ {t} : thread'[u] = thread[u]
  BY <1>6 DEF TypeOK
<1>9. /\ \A u : u # t => (u \in Getters(thread) <=> u \in Getters(thread'))
      /\ t \in Getters(thread) /\ t \notin Getters(thread')
  BY <1>1, <1>5, <1>8 DEF Getters
<1>10. /\ IsFiniteSet(Getters(thread'))
       /\ Cardinality(Getters(thread)) \in Nat /\ Cardinality(Getters(thread')) \in Nat
       /\ Cardinality(Getters(thread')) = Cardinality(Getters(thread)) - 1
  BY <1>9, SetChange DEF Counts, One
<1>11. Owes(r) = 0 /\ Owes(r)' = 1
  BY <1>1, <1>3, <1>4 DEF Owes, One
<1>12. num_waiting' = num_waiting + Owes(r)' - Owes(r)
                        + Cardinality(Getters(thread')) - Cardinality(Getters(thread))
  BY <1>1, <1>10, <1>11
<1>13. ~ Live(r) /\ ~ Live(r)'
  BY <1>3, <1>4 DEF Live
<1>14. num_background' = num_background + One(Live(r)') - One(Live(r))
  BY <1>1, <1>13 DEF One
<1>. QED
  BY <1>1, <1>4, <1>7, <1>10, <1>12, <1>14, CountBoth

\* ... and queues it, or leaks it with its share.
LEMMA RetrieveSendCounts ==
    ASSUME TypeOK, OwnerInv, Counts, NEW t \in Daemon, NEW r \in Req, thread[t].r = r,
           RetrieveSend(t)
    PROVE  Counts'
<1>1. /\ thread[t].pc = "notify" /\ thread' = [thread EXCEPT ![t] = Idle]
      /\ UNCHANGED <<num_waiting, num_background>>
  BY DEF RetrieveSend, counts
<1>2. Sound(r) /\ req[r] \in ReqRecord /\ Hand(thread, r) = thread[t]
  BY <1>1, InCopy DEF OwnerInv, TypeOK
<1>3. Idle \in ThreadRecord /\ Idle.r = NoReq /\ Idle.pc = "idle"
  BY DEF Idle, ThreadRecord, ThreadPc
<1>4. caller[r] = "retrieve" /\ ~ req[r].background /\ req[r].waiting
  BY <1>1, <1>2 DEF Sound, HandOK, CallerOK, Pc, Counts
<1>5. /\ \A s \in Req \ {r} : req'[s] = req[s] /\ caller'[s] = caller[s]
      /\ caller'[r] \in {"async", "leaked"}
      /\ req'[r].waiting = req[r].waiting /\ ~ req'[r].background
  <2>1. CASE connected
    <3>1. /\ req' = [req EXCEPT ![r] = Queued(req[r], 0, FALSE)]
          /\ caller' = [caller EXCEPT ![r] = "async"]
      BY <2>1 DEF RetrieveSend
    <3>. QED
      BY <1>2, <1>4, <3>1 DEF TypeOK, Queued, ReqRecord
  <2>2. CASE ~ connected
    <3>1. /\ req' = [req EXCEPT ![r].isreply = FALSE, ![r].released = TRUE]
          /\ caller' = [caller EXCEPT ![r] = "leaked"]
      BY <2>2 DEF RetrieveSend
    <3>2. req' = [req EXCEPT ![r] = [req[r] EXCEPT !.isreply = FALSE, !.released = TRUE]]
      BY <3>1 DEF TypeOK, ReqRecord
    <3>3. /\ req'[r] = [req[r] EXCEPT !.isreply = FALSE, !.released = TRUE]
          /\ caller'[r] = "leaked"
          /\ \A s \in Req \ {r} : req'[s] = req[s] /\ caller'[s] = caller[s]
      BY <3>1, <3>2 DEF TypeOK
    <3>. QED
      BY <1>2, <1>4, <3>3 DEF ReqRecord
  <2>. QED
    BY <2>1, <2>2
<1>6. ~ Live(r) /\ ~ Live(r)'
  BY <1>4, <1>5 DEF Live
<1>7. thread[t].pc # "getreq" /\ Idle.pc # "getreq"
  BY <1>1, <1>3
<1>. QED
  BY <1>1, <1>3, <1>4, <1>5, <1>6, <1>7, CountQuiet

\* Every step of a thread of the daemon.
LEMMA DaemonStepCounts ==
    ASSUME TypeOK, TypeOK', OwnerInv, Counts, NEW t \in Daemon, DaemonThread(t)
    PROVE  Counts'
<1>1. ReadInterrupt(t) \/ ReadRequest(t) \/ ReadTooBig(t) => Counts'
  BY ReadCounts
<1>3. \A r \in Req : WriteReply(t, r) \/ WriteInterruptReply(t, r) => Counts'
  BY ReplyCounts
<1>4. \A r \in Req : RetrieveGet(t, r) => Counts'
  BY RetrieveGetCounts
<1>5. Retrieve(t) \/ RetrieveFail(t) => Counts'
  BY RetrieveCounts, SMTT(30)
<1>6. ReadEnd(t) \/ WriteEnd(t) \/ EndUnlocked(t) \/ RetrieveSend(t) \/ Copy(t)
        => thread[t].r \in Req
  BY DEF ReadEnd, WriteEnd, EndUnlocked, RetrieveSend, Copy, LockCopy, CopyFault, UnlockCopy,
         HandPage, PageHanded, ClearPage, CopyEnd, Between, TypeOK
<1>7. ReadEnd(t) \/ WriteEnd(t) \/ EndUnlocked(t) \/ RetrieveSend(t) \/ Copy(t) => Counts'
  <2>1. ReadEnd(t) \/ WriteEnd(t) => Counts'
    BY <1>6, CopiedCounts
  <2>2. EndUnlocked(t) \/ RetrieveSend(t) \/ Copy(t) => Counts'
    BY <1>6, EndUnlockedCounts, RetrieveSendCounts, CopyCounts
  <2>. QED
    BY <2>1, <2>2
<1>. QED
  BY <1>1, <1>3, <1>4, <1>5, <1>7 DEF DaemonThread

-----------------------------------------------------------------------------
(* The steps of fuse_abort_conn count.                                     *)

\* It takes the connection down, finishes what is being copied, and is done.
LEMMA AbortQuietCounts ==
    ASSUME TypeOK, OwnerInv, Counts, AbortConn \/ AbortDone \/ \E r \in Req : AbortIo(r)
    PROVE  Counts'
<1>1. UNCHANGED <<caller, thread, num_waiting, num_background>>
  BY DEF AbortConn, AbortDone, AbortIo, counts
<1>2. ASSUME UNCHANGED req PROVE Counts'
  <2>1. \A s \in Req : Live(s)' <=> Live(s)
    BY <1>1, <1>2 DEF Live, Pc
  <2>. QED
    BY <1>1, <1>2, <2>1, CountNone
<1>3. ASSUME NEW r \in Req, AbortIo(r) PROVE Counts'
  <2>1. r \in io /\ req' = [req EXCEPT ![r] = Aborted(req[r])] /\ req[r] \in ReqRecord
    BY <1>3 DEF AbortIo, TypeOK
  <2>2. /\ req'[r].waiting = req[r].waiting /\ req'[r].background = req[r].background
        /\ \A s \in Req \ {r} : req'[s] = req[s]
    BY <2>1 DEF TypeOK, Aborted, ReqRecord
  <2>3. Pc(r) \in Copying
    BY <2>1 DEF OwnerInv, Sound, HandOK
  <2>4. \A s \in Req : Live(s)' <=> Live(s)
    BY <1>1, <2>2, <2>3 DEF Live, Pc
  <2>. QED
    BY <1>1, <2>2, <2>4, CountNone
<1>4. AbortConn \/ AbortDone => UNCHANGED req
  BY DEF AbortConn, AbortDone
<1>. QED
  BY <1>2, <1>3, <1>4

\* All background requests become pending.
LEMMA AbortFlushCounts ==
    ASSUME TypeOK, OwnerInv, Counts, AbortFlush
    PROVE  Counts'
<1>1. /\ flush_bg_queue(req, bg_queue, active_background, pending, UintMax)
      /\ UNCHANGED <<caller, thread, num_background>>
      /\ req \in [Req -> ReqRecord] /\ bg_queue \in Seq(Req) /\ active_background \in Int
      /\ UintMax \in Nat /\ num_waiting \in Int
  BY MaxAssumption DEF AbortFlush, TypeOK
<1>2. /\ num_waiting' = num_waiting + Cardinality(Shares(req')) - Cardinality(Shares(req))
      /\ \A s \in Req : /\ req'[s].background = req[s].background
                        /\ req[s].waiting => req'[s].waiting
  BY <1>1, FlushShares
<1>3. \A s \in Req : /\ req'[s].error = req[s].error
                     /\ \/ req'[s].state = req[s].state
                        \/ s \in ToSet(bg_queue) /\ req'[s].state = "PENDING"
  BY <1>1, FlushLeaves
<1>4. \A s \in Req : Live(s)' <=> Live(s)
  <2>. SUFFICES ASSUME NEW s \in Req PROVE Live(s)' <=> Live(s)
    OBVIOUS
  <2>1. s \in ToSet(bg_queue) => req[s].state # "FINISHED"
    BY DEF OwnerInv, Sound, PlaceOK
  <2>2. Pc(s)' = Pc(s)
    BY <1>1 DEF Pc
  <2>. QED
    BY <1>2, <1>3, <2>1, <2>2 DEF Live
<1>5. {s \in Req : Live(s)}' = {s \in Req : Live(s)}
  BY <1>4
<1>6. num_background' = Cardinality({s \in Req : Live(s)}')
  BY <1>1, <1>5 DEF Counts
<1>7. /\ IsFiniteSet(Sleepers(caller)) /\ IsFiniteSet(Shares(req)) /\ IsFiniteSet(Shares(req'))
  BY ReqAssumption, FS_Subset DEF Sleepers, Shares
<1>8. /\ Cardinality(Sleepers(caller)) \in Nat /\ Cardinality(Getters(thread)) \in Nat
      /\ Cardinality(Shares(req)) \in Nat /\ Cardinality(Shares(req')) \in Nat
  BY <1>7, FS_CardinalityType DEF Counts
<1>9. num_waiting' = Cardinality(Sleepers(caller)) + Cardinality(Getters(thread))
                      + Cardinality(Shares(req'))
  BY <1>1, <1>2, <1>8, SMTT(30) DEF Counts
<1>. QED
  BY <1>1, <1>2, <1>6, <1>9 DEF Counts

\* A request that is queued or with the daemon is ended.
LEMMA AbortQueuedCounts ==
    ASSUME TypeOK, OwnerInv, Counts, NEW r \in Req, AbortQueued(r)
    PROVE  Counts'
<1>. DEFINE q  == [req[r] EXCEPT !.error = "ECONNABORTED"]
            rq == [req EXCEPT ![r] = q]
<1>1. request_end(r, rq) /\ UNCHANGED <<caller, thread>>
  BY DEF AbortQueued
<1>2. r \in ToSet(pending) \/ r \in processing
  BY FirstOf DEF AbortQueued
<1>3. Sound(r) /\ req[r] \in ReqRecord
  BY DEF OwnerInv, TypeOK
<1>4. q \in ReqRecord /\ q.waiting = req[r].waiting /\ q.background = req[r].background
  BY <1>3 DEF ReqRecord, Errors
<1>. HIDE DEF q
<1>5. rq \in [Req -> ReqRecord] /\ rq[r] = q /\ \A s \in Req \ {r} : rq[s] = req[s]
  BY <1>4 DEF TypeOK
<1>. HIDE DEF rq
<1>6. r \notin ToSet(bg_queue) /\ Pc(r) = "idle" /\ caller[r] \notin {"blocked", "retrieve"}
  BY <1>2, Resting DEF Waits
<1>7. req[r].background => Live(r)
  BY <1>2, <1>3 DEF Sound, PlaceOK, Live
<1>8. Pc(r)' \notin Copying /\ \A s \in Req : Pc(s)' = Pc(s)
  BY <1>1, <1>6 DEF Pc, Copying
<1>9. Getters(thread') = Getters(thread)
  BY <1>1
<1>. QED
  BY <1>1, <1>4, <1>5, <1>6, <1>7, <1>8, <1>9, CountEnd

\* It gives a reference back.
LEMMA AbortPutCounts ==
    ASSUME TypeOK, OwnerInv, Counts, AbortIoEnd \/ AbortTail
    PROVE  Counts'
<1>1. PICK r \in Req, end \in BOOLEAN : aborter.r = r /\ request_end_unlocked(r, end)
  BY DEF AbortIoEnd, AbortTail, TypeOK
<1>2. /\ aborter.pc \in {"ioWait", "tail"} /\ UNCHANGED <<thread, num_background>>
  BY DEF AbortIoEnd, AbortTail, counts
<1>3. Sound(r)
  BY DEF OwnerInv
<1>4. req[r].state = "FINISHED" /\ caller[r] \notin {"blocked", "retrieve"}
  BY <1>1, <1>3 DEF Sound, AborterOK, Waits
<1>5. req[r].count = 1 => Pc(r) \notin Copying
  <2>1. CASE aborter.pc = "tail"
    BY <1>1, <1>3, <2>1, HandPc DEF Sound, AborterOK, OwnerInv, Pc, InHand, Copying
  <2>2. CASE aborter.pc = "ioWait" /\ req[r].count = 1
    <3>1. AbortRef(r)
      BY <1>1, <2>2 DEF AbortRef
    <3>2. ~ Queue(r)
      BY <1>3, <2>2, <3>1 DEF Sound, CountOK, One
    <3>. QED
      BY <3>2, HandPc DEF Queue, OwnerInv, Pc, InHand, Copying
  <2>. QED
    BY <1>2, <2>1, <2>2
<1>6. Getters(thread') = Getters(thread) /\ \A s \in Req : Pc(s)' = Pc(s)
  BY <1>2 DEF Pc
<1>. QED
  BY <1>1, <1>2, <1>4, <1>5, <1>6, EndPutCounts

LEMMA CountersStep ==
    ASSUME TypeOK, TypeOK', OwnerInv, Counts, [Next]_vars
    PROVE  Counts'
<1>1. CASE UNCHANGED vars
  <2>1. UNCHANGED <<req, caller, thread, num_waiting, num_background>>
    BY <1>1 DEF vars, counts
  <2>2. \A s \in Req : Live(s)' <=> Live(s)
    BY <2>1 DEF Live, Pc
  <2>. QED
    BY <2>1, <2>2, CountNone
<1>2. \A r \in Req : Caller(r) => Counts'
  BY CallerStepCounts
<1>3. \A t \in Daemon : DaemonThread(t) => Counts'
  BY DaemonStepCounts
<1>4. Abort => Counts'
  BY AbortQuietCounts, AbortFlushCounts, AbortQueuedCounts, AbortPutCounts DEF Abort
<1>. QED
  BY <1>1, <1>2, <1>3, <1>4 DEF Next

LEMMA InitCounts == Init => Counts
<1>. SUFFICES ASSUME Init PROVE Counts
  OBVIOUS
<1>1. /\ \A r \in Req : req[r] = FreeReq /\ caller[r] = "none"
      /\ \A t \in Daemon : thread[t] = Idle
      /\ num_waiting = 0 /\ num_background = 0
  BY DEF Init
<1>2. Getters(thread) = {} /\ Sleepers(caller) = {} /\ Shares(req) = {}
  BY <1>1 DEF Getters, Sleepers, Shares, Idle, FreeReq
<1>3. {r \in Req : Live(r)} = {}
  BY <1>1 DEF Live, FreeReq
<1>4. IsFiniteSet({}) /\ Cardinality({}) = 0
  BY FS_EmptySet
<1>5. \A r \in Req : caller[r] # "retrieve"
  BY <1>1
<1>. QED
  BY <1>1, <1>2, <1>3, <1>4, <1>5 DEF Counts

\* num_background is the number of background requests that still count, and
\* num_waiting that of callers in fuse_get_req and of shares, whoever ends, frees,
\* leaks or interrupts them.
THEOREM CountersCorrect == Spec => []CountersExact
<1>1. TypeOK /\ TypeOK' /\ OwnerInv /\ Counts /\ [Next]_vars => Counts'
  BY CountersStep
<1>2. TypeOK /\ OwnerInv /\ Counts => CountersExact
  BY CountsSay
<1>. QED
  BY <1>1, <1>2, InitCounts, TypeCorrect, OwnerCorrect, PTL DEF Spec

-----------------------------------------------------------------------------
(* What fuse_abort_conn leaves behind.                                     *)

\* Once the background queue is flushed without a limit nothing enters it, or io.
Swept ==
    /\ aborter.pc \in {"queued", "tail", "done"} => bg_queue = <<>> /\ io = {}
    /\ aborter.pc = "done" => pending = <<>> /\ processing = {}

Collected == <<pending, bg_queue, io, processing, aborter>>

\* There is nothing to unlink or to flush.
LEMMA NothingLeft ==
    /\ \A r : Unlink(<<>>, r) = <<>>
    /\ \A rq, pend : \A active \in Int, max \in Nat :
          flush_bg_queue(rq, <<>>, active, pend, max)
            => /\ bg_queue' = <<>>
               /\ pend = <<>> => pending' = <<>>
<1>1. \A r : Unlink(<<>>, r) = <<>>
  BY DEF Unlink
<1>2. ASSUME NEW rq, NEW pend, NEW active \in Int, NEW max \in Nat,
             flush_bg_queue(rq, <<>>, active, pend, max)
      PROVE  bg_queue' = <<>> /\ (pend = <<>> => pending' = <<>>)
  <2>. DEFINE room == IF max > active THEN max - active ELSE 0
              n    == IF room < 0 THEN room ELSE 0
  <2>1. Len(<<>>) = 0 /\ n = 0
    OBVIOUS
  <2>2. bg_queue' = SubSeq(<<>>, n + 1, 0) /\ pending' = pend \o SubSeq(<<>>, 1, n)
    BY <1>2, <2>1 DEF flush_bg_queue
  <2>. HIDE DEF n
  <2>3. SubSeq(<<>>, 1, 0) = <<>> /\ <<>> \o <<>> = <<>>
    OBVIOUS
  <2>. QED
    BY <2>1, <2>2, <2>3
<1>. QED
  BY <1>1, <1>2

LEMMA EndSweeps ==
    ASSUME TypeOK, NEW r, NEW rq, request_end(r, rq), bg_queue = <<>>, io = {}
    PROVE  /\ bg_queue' = <<>> /\ io' = {}
           /\ pending = <<>> => pending' = <<>>
           /\ processing = {} => processing' = {}
<1>1. active_background - 1 \in Int /\ max_background \in Nat
  BY DEF TypeOK
<1>2. io' = {} /\ (processing = {} => processing' = {})
  BY DEF request_end
<1>3. CASE rq[r].background
  <2>1. flush_bg_queue([rq EXCEPT ![r] = Finished(@)], <<>>, active_background - 1,
                       Unlink(pending, r), max_background)
    BY <1>3 DEF request_end
  <2>. QED
    BY <1>1, <1>2, <2>1, NothingLeft, Zenon
<1>4. CASE ~ rq[r].background
  <2>1. UNCHANGED bg_queue /\ pending' = Unlink(pending, r)
    BY <1>4 DEF request_end
  <2>. QED
    BY <1>2, <2>1, NothingLeft
<1>. QED
  BY <1>3, <1>4

LEMMA EndSwept ==
    ASSUME TypeOK, Swept, NEW r, NEW rq, request_end(r, rq), UNCHANGED aborter
    PROVE  Swept'
  BY EndSweeps DEF Swept

LEMMA CallerSwept ==
    ASSUME TypeOK, Down, Swept, NEW r \in Req, Caller(r)
    PROVE  Swept'
<1>1. CASE connected
  <2>1. UNCHANGED aborter
    BY DEF Caller, GetReq, GetReqDone, GetReqFail, RequestAlloc, RequestRefused, RequestSend,
           RequestSendBackground, SendEndUnlocked, Sleep, WaitDone, WaitInterrupted,
           WaitKilled, WaitUnlocked, CallerPut
  <2>. QED
    BY <1>1, <2>1, ZenonT(60) DEF Down, Swept
<1>2. CASE ~ connected
  <2>1. CASE RequestSendBackground(r)
    <3>1. \E rq : request_end(r, rq)
      BY <1>2, <2>1, Zenon DEF RequestSendBackground
    <3>2. UNCHANGED aborter
      BY <2>1 DEF RequestSendBackground
    <3>. QED
      BY <3>1, <3>2, EndSwept
  <2>2. CASE WaitKilled(r)
    <3>1. /\ pending' = pending \/ pending' = Unlink(pending, r)
          /\ UNCHANGED <<bg_queue, io, processing, aborter>>
      BY <2>2 DEF WaitKilled
    <3>. QED
      BY <3>1, NothingLeft DEF Swept
  <2>3. CASE ~ RequestSendBackground(r) /\ ~ WaitKilled(r)
    <3>1. UNCHANGED Collected
      BY <1>2, <2>3 DEF Caller, GetReq, GetReqDone, GetReqFail, RequestAlloc, RequestRefused,
                        RequestSend, SendEndUnlocked, Sleep, WaitDone, WaitInterrupted,
                        WaitUnlocked, CallerPut, Collected, lists
    <3>. QED
      BY <3>1 DEF Collected, Swept
  <2>. QED
    BY <2>1, <2>2, <2>3
<1>. QED
  BY <1>1, <1>2

LEMMA DaemonSwept ==
    ASSUME Known, Down, Swept, NEW t \in Daemon, DaemonThread(t)
    PROVE  Swept'
<1>1. UNCHANGED aborter
  <2>1. CASE Copy(t)
    BY <2>1, ZenonT(60)
       DEF Copy, LockCopy, CopyFault, UnlockCopy, HandPage, PageHanded, ClearPage, CopyEnd
  <2>2. CASE ~ Copy(t)
    BY <2>2 DEF DaemonThread, ReadInterrupt, ReadRequest, ReadTooBig, ReadEnd, WriteReply,
                WriteInterruptReply, RetrieveGet, WriteEnd, EndUnlocked, Retrieve,
                RetrieveFail, RetrieveSend
  <2>. QED
    BY <2>1, <2>2
<1>2. CASE aborter.pc \notin {"queued", "tail", "done"}
  BY <1>1, <1>2 DEF Swept
<1>3. CASE aborter.pc \in {"queued", "tail", "done"}
  <2>1. ~ connected /\ io = {}
    BY <1>3 DEF Down, Swept
  <2>2. CASE ReadEnd(t)
    <3>. DEFINE r == thread[t].r
    <3>1. thread[t].pc = "fin" /\ thread[t].op = "read"
      BY <2>2 DEF ReadEnd
    <3>2. r \in Req /\ Hand(thread, r) = thread[t] /\ Sound(r)
      BY <3>1, InCopy DEF Copying, Known, OwnerInv
    <3>3. r \in io \/ req[r].aborted
      BY <3>1, <3>2 DEF Sound, HandOK, Pc, Copying
    <3>4. \E rq : request_end(r, rq)
      BY <2>1, <2>2, <3>3, Zenon DEF ReadEnd
    <3>. QED
      BY <1>1, <3>4, EndSwept DEF Known
  <2>3. CASE WriteEnd(t)
    <3>1. \E rq : request_end(thread[t].r, rq)
      BY <2>3, Zenon DEF WriteEnd
    <3>. QED
      BY <1>1, <3>1, EndSwept DEF Known
  <2>4. CASE ~ ReadEnd(t) /\ ~ WriteEnd(t)
    <3>1. CASE Copy(t)
      BY <1>1, <3>1 DEF Copy, LockCopy, CopyFault, UnlockCopy, HandPage, PageHanded, ClearPage,
                        CopyEnd, lists, Swept
    <3>2. CASE ~ Copy(t)
      <4>1. UNCHANGED Collected
        BY <2>1, <2>4, <3>2 DEF DaemonThread, ReadInterrupt, ReadRequest, ReadTooBig,
                WriteReply, WriteInterruptReply, RetrieveGet, EndUnlocked, Retrieve,
                RetrieveFail, RetrieveSend, Collected, lists
      <4>. QED
        BY <4>1, ZenonT(60) DEF Collected, Swept
    <3>. QED
      BY <3>1, <3>2
  <2>. QED
    BY <2>2, <2>3, <2>4
<1>. QED
  BY <1>2, <1>3

\* There is room for all background requests when the limit is UINT_MAX.
LEMMA AllFlushed ==
    ASSUME TypeOK, Counts, BgAccounting, max_background <= UintMax, AbortFlush
    PROVE  bg_queue' = <<>>
<1>1. /\ bg_queue \in Seq(Req) /\ active_background \in Int /\ max_background \in Nat
      /\ num_background \in Int /\ UintMax \in Nat
  BY MaxAssumption DEF TypeOK
<1>2. flush_bg_queue(req, bg_queue, active_background, pending, UintMax)
  BY DEF AbortFlush
<1>3. active_background <= UintMax
  BY <1>1 DEF BgAccounting
<1>4. /\ bg_queue' \in Seq(Req)
      /\ active_background' + Len(bg_queue') = num_background
      /\ bg_queue' # <<>> => active_background' = UintMax
  BY <1>1, <1>2, <1>3, FlushCounts DEF BgAccounting
<1>5. num_background <= UintMax
  <2>. DEFINE L == {r \in Req : Live(r)}
  <2>1. /\ Cardinality(L) <= Cardinality(Req)
        /\ Cardinality(L) \in Nat /\ Cardinality(Req) \in Nat
    BY ReqAssumption, FS_Subset, FS_CardinalityType
  <2>2. num_background = Cardinality(L)
    BY DEF Counts
  <2>. HIDE DEF L
  <2>. QED
    BY <1>1, <2>1, <2>2, RoomAssumption
<1>6. bg_queue' # <<>> => Len(bg_queue') > 0
  BY <1>4, EmptySeq
<1>. QED
  BY <1>1, <1>4, <1>5, <1>6

LEMMA AbortSwept ==
    ASSUME TypeOK, Swept, Counts, BgAccounting, max_background <= UintMax, Abort
    PROVE  Swept'
<1>1. \A pc \in AbortPc : [aborter EXCEPT !.pc = pc].pc = pc
  BY DEF TypeOK
<1>2. CASE AbortConn \/ AbortIoEnd \/ \E r \in Req : AbortIo(r)
  <2>1. aborter'.pc \in {"io", "ioWait"}
    <3>1. CASE AbortConn
      BY <1>1, <3>1 DEF AbortConn, AbortPc
    <3>2. CASE AbortIoEnd
      <4>1. aborter' = [pc |-> "io", r |-> NoReq, end |-> FALSE]
        BY <3>2 DEF AbortIoEnd
      <4>. QED
        BY <4>1
    <3>3. ASSUME NEW r \in Req, AbortIo(r) PROVE aborter'.pc \in {"io", "ioWait"}
      <4>1. /\ aborter.pc = "io"
            /\ aborter' = aborter \/ aborter' = [pc |-> "ioWait", r |-> r, end |-> TRUE]
        BY <3>3, Zenon DEF AbortIo
      <4>. QED
        BY <4>1
    <3>. QED
      BY <1>2, <3>1, <3>2, <3>3
  <2>. QED
    BY <2>1 DEF Swept
<1>3. CASE AbortFlush
  <2>1. io = {} /\ UNCHANGED io /\ aborter'.pc = "queued"
    BY <1>1, <1>3 DEF AbortFlush, AbortPc
  <2>. QED
    BY <1>3, <2>1, AllFlushed DEF Swept
<1>4. CASE \E r \in Req : AbortQueued(r)
  <2>1. PICK r \in Req : AbortQueued(r)
    BY <1>4
  <2>2. /\ aborter.pc = "queued" /\ aborter'.pc = "tail"
        /\ \E rq : request_end(r, rq)
    BY <2>1, Zenon DEF AbortQueued
  <2>. QED
    BY <2>2, EndSweeps DEF Swept
<1>5. CASE AbortTail
  <2>1. aborter.pc = "tail" /\ aborter'.pc = "queued" /\ UNCHANGED lists
    BY <1>5 DEF AbortTail
  <2>. QED
    BY <2>1 DEF Swept, lists
<1>6. CASE AbortDone
  <2>1. /\ aborter.pc = "queued" /\ pending = <<>> /\ processing = {}
        /\ UNCHANGED lists
    BY <1>6 DEF AbortDone
  <2>. QED
    BY <2>1 DEF Swept, lists
<1>. QED
  BY <1>2, <1>3, <1>4, <1>5, <1>6 DEF Abort

\* When fuse_abort_conn returns, no list of the connection but the interrupts holds a
\* request, and none ever does again: the flush without a limit leaves no background
\* request behind, because their number is that of live requests, and everything that
\* enters a list looks first whether the connection is up.
THEOREM AbortCorrect == Spec => []AbortComplete
<1>1. Init => Swept /\ Down /\ max_background <= UintMax
  <2>1. ASSUME Init PROVE Swept /\ Down
    BY <2>1 DEF Init, Swept, Down
  <2>2. ASSUME Init PROVE max_background <= UintMax
    BY <2>2, MaxAssumption DEF Init
  <2>. QED
    BY <2>1, <2>2
<1>2. Known /\ Down /\ Counts /\ BgAccounting /\ max_background <= UintMax /\ Swept /\ [Next]_vars
        => Swept'
  <2>. SUFFICES ASSUME Known, Down, Counts, BgAccounting, max_background <= UintMax, Swept,
                       [Next]_vars
                PROVE  Swept'
    OBVIOUS
  <2>1. CASE UNCHANGED vars
    BY <2>1 DEF vars, lists, Swept
  <2>2. TypeOK
    BY DEF Known
  <2>. QED
    BY <2>1, <2>2, CallerSwept, DaemonSwept, AbortSwept DEF Next
<1>3. TypeOK /\ Down /\ BgAccounting /\ max_background <= UintMax /\ [Next]_vars
        => (max_background <= UintMax)'
  BY CountsStep DEF BgInv
<1>4. TypeOK /\ Down /\ [Next]_vars => Down'
  BY DownStep
<1>5. Spec => []Counts
  <2>1. TypeOK /\ TypeOK' /\ OwnerInv /\ Counts /\ [Next]_vars => Counts'
    BY CountersStep
  <2>. QED
    BY <2>1, InitCounts, TypeCorrect, OwnerCorrect, PTL DEF Spec
<1>6. Spec => []Known
  <2>1. TypeOK /\ (OwnerInv /\ EndFlag) /\ RefsExact => Known
    BY DEF Known
  <2>. QED
    BY <2>1, TypeCorrect, OwnerCorrect, RefsCorrect, PTL
<1>7. Swept => AbortComplete
  BY DEF Swept, AbortComplete
<1>. QED
  BY <1>1, <1>2, <1>3, <1>4, <1>5, <1>6, <1>7, TypeCorrect, BgCorrect, PTL DEF Spec

=============================================================================
