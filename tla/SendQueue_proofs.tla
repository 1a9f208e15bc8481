-------------------------- MODULE SendQueue_proofs --------------------------
(***************************************************************************)
(* SendQueue implements OrderedChannel, for every size of telegrams and of *)
(* the kernel's buffer.  The queue always holds the latest telegrams, in   *)
(* order; so whatever part of it a flush takes comes after everything      *)
(* already on the wire and before everything left waiting.                 *)
(***************************************************************************)
EXTENDS SendQueue, SequenceTheorems, TLAPS

Pieces == [tgr : Nat, units : Nat \ {0}]

\* Everything on a wire w is among the first n telegrams, and in order.
WireBefore(w, n) ==
    /\ \A i \in 1..Len(w) : w[i].tgr \in 1..n
    /\ \A i, j \in 1..Len(w) : i < j => w[i].tgr < w[j].tgr

\* A queue that holds the latest of h telegrams.
Latest(q, h) ==
    /\ Len(q) <= h
    /\ \A i \in 1..Len(q) : q[i] = h - Len(q) + i

QueueOK ==
    /\ SendTypeOK
    /\ Latest(bufQueue, handed)
    /\ WireBefore(wire, handed - Len(bufQueue))

\* The next telegram, put behind the latest ones, is the latest.
LEMMA LatestAppend ==
    ASSUME NEW h \in Nat, NEW b \in Seq(Nat), Latest(b, h),
           NEW q \in Seq(Nat), Len(q) = Len(b) + 1,
           \A i \in 1..Len(b) : q[i] = b[i], q[Len(b) + 1] = h + 1
    PROVE  Latest(q, h + 1)
<1>0. Len(b) \in Nat /\ Len(b) <= h
  BY LenProperties DEF Latest
<1>1. ASSUME NEW i \in 1..Len(q)
      PROVE  q[i] = (h + 1) - Len(q) + i
  <2>1. CASE i = Len(b) + 1
    BY <1>0, <2>1
  <2>2. CASE i \in 1..Len(b)
    <3>1. b[i] = h - Len(b) + i
      BY <2>2 DEF Latest
    <3> QED
      BY <1>0, <2>2, <3>1
  <2> QED
    BY <1>0, <2>1, <2>2
<1> QED
  BY <1>0, <1>1 DEF Latest

\* Only the rest of a telegram's room is less than the telegram.
LEMMA UnitsType ==
    ASSUME room \in Nat, NEW k \in Nat, NEW i \in 1..k, (k - 1) * TgrLen < room
    PROVE  Units(i) \in Nat \ {0}
<1> DEFINE before == (i - 1) * TgrLen
<1>1. TgrLen \in Nat
  BY SendAssumption
<1>2. before \in Nat /\ (k - 1) * TgrLen \in Nat
  BY <1>1
<1>3. before <= (k - 1) * TgrLen
  BY <1>1
<1>4. before < room
  <2> HIDE DEF before
  <2> QED
    BY <1>2, <1>3
<1>5. Units(i) = IF i * TgrLen <= room THEN TgrLen ELSE room - before
  BY DEF Units
<1>6. TgrLen # 0
  BY SendAssumption
<1> HIDE DEF before
<1>7. room - before \in Nat \ {0}
  BY <1>2, <1>4
<1> QED
  BY <1>1, <1>5, <1>6, <1>7

\* What a flush of q does, if the connection is up: the first k telegrams go
\* to the wire, the others stay.
LEMMA FlushSplits ==
    ASSUME SendTypeOK, NEW q \in Seq(Nat), Flush(q), ~broken
    PROVE  /\ room' \in Nat
           /\ \E k \in 0..Len(q) :
                /\ bufQueue' \in Seq(Nat)
                /\ Len(bufQueue') = Len(q) - k
                /\ \A i \in 1..Len(q) - k : bufQueue'[i] = q[k + i]
                /\ wire' \in Seq(Pieces)
                /\ Len(wire') = Len(wire) + k
                /\ \A i \in 1..Len(wire) : wire'[i] = wire[i]
                /\ \A i \in 1..k : wire'[Len(wire) + i].tgr = q[i]
<1> PICK k \in 0..Len(q) :
        /\ StopsAfter(q, k)
        /\ bufQueue' = Waiting(q, k)
        /\ wire' = wire \o [i \in 1..k |-> [tgr |-> q[i], units |-> Units(i)]]
        /\ room' = IF k * TgrLen <= room THEN room - k * TgrLen ELSE 0
  BY DEF Flush
<1> DEFINE batch == [i \in 1..k |-> [tgr |-> q[i], units |-> Units(i)]]
<1>1. Len(q) \in Nat /\ k \in Nat /\ k <= Len(q) /\ TgrLen \in Nat /\ room \in Nat
  BY LenProperties, SendAssumption DEF SendTypeOK
<1>2. /\ bufQueue' \in Seq(Nat)
      /\ Len(bufQueue') = Len(q) - k
      /\ \A i \in 1..Len(q) - k : bufQueue'[i] = q[k + i]
  <2>1. \A i \in (k + 1)..Len(q) : q[i] \in Nat
    BY <1>1, ElementOfSeq
  <2>2. bufQueue' = SubSeq(q, k + 1, Len(q)) /\ k + 1 \in Int /\ Len(q) \in Int
    BY <1>1 DEF Waiting
  <2>3. /\ bufQueue' \in Seq(Nat)
        /\ Len(bufQueue') = IF k + 1 <= Len(q) THEN Len(q) - (k + 1) + 1 ELSE 0
        /\ \A i \in 1..Len(q) - (k + 1) + 1 : bufQueue'[i] = q[k + 1 + i - 1]
    <3> DEFINE m == k + 1
               n == Len(q)
    <3>1. m \in Int /\ n \in Int /\ \A i \in m..n : q[i] \in Nat
      BY <2>1, <2>2
    <3> HIDE DEF m, n
    <3>2. /\ SubSeq(q, m, n) \in Seq(Nat)
          /\ Len(SubSeq(q, m, n)) = IF m <= n THEN n - m + 1 ELSE 0
          /\ \A i \in 1..n - m + 1 : SubSeq(q, m, n)[i] = q[m + i - 1]
      BY <3>1, SubSeqProperties, SMTT(30)
    <3> QED
      BY <2>2, <3>2 DEF m, n
  <2>4. ASSUME NEW i \in 1..Len(q) - k
        PROVE  bufQueue'[i] = q[k + i]
    <3>1. i \in 1..Len(q) - (k + 1) + 1 /\ k + 1 + i - 1 = k + i
      BY <1>1
    <3> QED
      BY <2>3, <3>1
  <2>5. Len(bufQueue') = Len(q) - k
    BY <1>1, <2>3
  <2> QED
    BY <2>3, <2>4, <2>5
<1>3. room' \in Nat
  <2>1. k * TgrLen \in Nat
    BY <1>1
  <2> QED
    BY <1>1, <2>1
<1>4. batch \in Seq(Pieces) /\ Len(batch) = k
  <2>1. ASSUME NEW i \in 1..k
        PROVE  q[i] \in Nat /\ Units(i) \in Nat \ {0}
    <3>1. (k - 1) * TgrLen < room
      BY <1>1 DEF StopsAfter
    <3>2. Units(i) \in Nat \ {0}
      BY <1>1, <3>1, UnitsType
    <3> QED
      BY <1>1, <3>2, ElementOfSeq
  <2>2. batch \in [1..k -> Pieces]
    BY <2>1 DEF Pieces
  <2>3. batch \in Seq(Pieces)
    BY <1>1, <2>2, SeqDef
  <2>4. Len(batch) = k
    BY <1>1
  <2> QED
    BY <2>3, <2>4
<1>5. wire \in Seq(Pieces) /\ Len(wire) \in Nat
  BY LenProperties DEF SendTypeOK, Pieces
<1>6. wire' = wire \o batch /\ \A i \in 1..k : batch[i].tgr = q[i]
  OBVIOUS
<1> HIDE DEF batch
<1>7. /\ wire' \in Seq(Pieces)
      /\ Len(wire') = Len(wire) + k
      /\ \A i \in 1..(Len(wire) + k) :
            wire'[i] = IF i <= Len(wire) THEN wire[i] ELSE batch[i - Len(wire)]
  <2>1. /\ wire \o batch \in Seq(Pieces)
        /\ Len(wire \o batch) = Len(wire) + Len(batch)
        /\ \A i \in 1..(Len(wire) + Len(batch)) : (wire \o batch)[i] =
              IF i <= Len(wire) THEN wire[i] ELSE batch[i - Len(wire)]
    BY <1>4, <1>5, ConcatProperties
  <2> QED
    BY <1>4, <1>6, <2>1
<1>8. \A i \in 1..k : wire'[Len(wire) + i].tgr = q[i]
  <2> SUFFICES ASSUME NEW i \in 1..k
               PROVE  wire'[Len(wire) + i] = batch[i]
    BY <1>6
  <2> DEFINE m == Len(wire) + i
  <2>1. m \in 1..(Len(wire) + k) /\ ~(m <= Len(wire)) /\ m - Len(wire) = i
    BY <1>1, <1>5
  <2> QED
    BY <1>7, <2>1
<1>9. \A i \in 1..Len(wire) : wire'[i] = wire[i]
  BY <1>1, <1>5, <1>7
<1> QED
  BY <1>2, <1>3, <1>7, <1>8, <1>9

-----------------------------------------------------------------------------
\* A flush of the latest of h telegrams keeps wire and queue in order, and
\* only adds to the wire.
LEMMA FlushKeepsOrder ==
    ASSUME SendTypeOK, NEW h \in Nat, NEW q \in Seq(Nat), Latest(q, h),
           WireBefore(wire, h - Len(q)), Flush(q)
    PROVE  /\ bufQueue' \in Seq(Nat) /\ room' \in Nat /\ wire' \in Seq(Pieces)
           /\ Latest(bufQueue', h)
           /\ WireBefore(wire', h - Len(bufQueue'))
           /\ Len(wire) <= Len(wire')
           /\ \A i \in 1..Len(wire) : wire'[i] = wire[i]
<1>0. Len(q) \in Nat /\ wire \in Seq(Pieces) /\ Len(wire) \in Nat
  BY LenProperties DEF SendTypeOK, Pieces
<1>1. CASE broken
  <2>1. bufQueue' = <<>> /\ room' = room /\ wire' = wire /\ Len(bufQueue') = 0
    BY <1>1 DEF Flush
  <2>2. Latest(bufQueue', h)
    BY <2>1 DEF Latest
  <2>3. WireBefore(wire', h - Len(bufQueue'))
    <3>1. Len(q) <= h
      BY DEF Latest
    <3>2. \A i \in 1..Len(wire) : wire[i].tgr \in 1..h
      BY <1>0, <3>1 DEF WireBefore
    <3> QED
      BY <2>1, <3>2 DEF WireBefore
  <2> QED
    BY <1>0, <2>1, <2>2, <2>3 DEF SendTypeOK
<1>2. CASE ~broken
  <2> PICK k \in 0..Len(q) :
                /\ bufQueue' \in Seq(Nat)
                /\ Len(bufQueue') = Len(q) - k
                /\ \A i \in 1..Len(q) - k : bufQueue'[i] = q[k + i]
                /\ wire' \in Seq(Pieces)
                /\ Len(wire') = Len(wire) + k
                /\ \A i \in 1..Len(wire) : wire'[i] = wire[i]
                /\ \A i \in 1..k : wire'[Len(wire) + i].tgr = q[i]
    BY <1>2, FlushSplits
  <2>1. k \in Nat /\ k <= Len(q) /\ Len(q) <= h
    BY <1>0 DEF Latest
  <2>2. room' \in Nat
    BY <1>2, FlushSplits
  <2>3. Latest(bufQueue', h)
    <3>1. ASSUME NEW i \in 1..Len(q) - k
          PROVE  bufQueue'[i] = h - (Len(q) - k) + i
      <4>1. k + i \in 1..Len(q) /\ h - Len(q) + (k + i) = h - (Len(q) - k) + i
        BY <1>0, <2>1
      <4>2. q[k + i] = h - Len(q) + (k + i)
        BY <4>1 DEF Latest
      <4> QED
        BY <4>1, <4>2
    <3>2. Len(q) - k <= h
      BY <1>0, <2>1
    <3> QED
      BY <3>1, <3>2 DEF Latest
  <2>4. ASSUME NEW i \in 1..k
        PROVE  wire'[Len(wire) + i].tgr = h - Len(q) + i
    <3>1. i \in 1..Len(q)
      BY <1>0, <2>1
    <3> QED
      BY <3>1 DEF Latest
  <2>5. \A i \in 1..Len(wire') :
           \/ i \in 1..Len(wire) /\ wire'[i] = wire[i]
           \/ /\ i - Len(wire) \in 1..k
              /\ wire'[i].tgr = h - Len(q) + (i - Len(wire))
    <3> SUFFICES ASSUME NEW i \in 1..Len(wire'), i \notin 1..Len(wire)
                 PROVE  /\ i - Len(wire) \in 1..k
                        /\ wire'[i].tgr = h - Len(q) + (i - Len(wire))
      OBVIOUS
    <3>1. i - Len(wire) \in 1..k /\ i = Len(wire) + (i - Len(wire))
      BY <1>0, <2>1
    <3> QED
      BY <2>4, <3>1
  <2>6. WireBefore(wire', h - Len(bufQueue'))
    <3>0. Len(wire') \in Nat /\ h - Len(q) \in Nat
      BY <1>0, <2>1
    <3>1. ASSUME NEW i \in 1..Len(wire')
          PROVE  wire'[i].tgr \in 1..(h - Len(bufQueue'))
      <4>1. CASE i \in 1..Len(wire) /\ wire'[i] = wire[i]
        <5>1. wire[i].tgr \in 1..(h - Len(q))
          BY <4>1 DEF WireBefore
        <5> QED
          BY <2>1, <3>0, <4>1, <5>1
      <4>2. CASE /\ i - Len(wire) \in 1..k
                 /\ wire'[i].tgr = h - Len(q) + (i - Len(wire))
        BY <1>0, <2>1, <3>0, <4>2
      <4> QED
        BY <2>5, <4>1, <4>2
    <3>2. ASSUME NEW i \in 1..Len(wire'), NEW j \in 1..Len(wire'), i < j
          PROVE  wire'[i].tgr < wire'[j].tgr
      <4>1. CASE j \in 1..Len(wire) /\ wire'[j] = wire[j]
        <5>1. i \in 1..Len(wire)
          BY <1>0, <3>0, <3>2, <4>1
        <5>2. wire'[i] = wire[i]
          BY <5>1
        <5> QED
          BY <3>2, <4>1, <5>1, <5>2 DEF WireBefore
      <4>2. CASE /\ j - Len(wire) \in 1..k
                 /\ wire'[j].tgr = h - Len(q) + (j - Len(wire))
        <5>1. CASE i \in 1..Len(wire) /\ wire'[i] = wire[i]
          <6>1. wire[i].tgr \in 1..(h - Len(q))
            BY <5>1 DEF WireBefore
          <6> DEFINE x == wire[i].tgr
                     base == h - Len(q)
                     d == j - Len(wire)
          <6>2. x \in 1..base /\ base \in Nat /\ d \in 1..k /\ k \in Nat
            BY <2>1, <3>0, <4>2, <6>1
          <6>3. wire'[i].tgr = x /\ wire'[j].tgr = base + d
            BY <4>2, <5>1
          <6> HIDE DEF x, base, d
          <6>4. x < base + d
            BY <6>2
          <6> QED
            BY <6>3, <6>4
        <5>2. CASE /\ i - Len(wire) \in 1..k
                   /\ wire'[i].tgr = h - Len(q) + (i - Len(wire))
          BY <1>0, <2>1, <3>0, <3>2, <4>2, <5>2
        <5> QED
          BY <2>5, <5>1, <5>2
      <4> QED
        BY <2>5, <4>1, <4>2
    <3> QED
      BY <3>1, <3>2 DEF WireBefore
  <2> QED
    BY <1>0, <2>1, <2>2, <2>3, <2>6
<1> QED
  BY <1>1, <1>2

LEMMA QueueInit == SendInit => QueueOK
<1> SUFFICES ASSUME SendInit PROVE QueueOK
  OBVIOUS
<1>1. SendTypeOK
  <2>1. bufQueue \in Seq(Nat) /\ wire \in Seq([tgr : Nat, units : Nat \ {0}])
    BY EmptySeq DEF SendInit
  <2> QED
    BY <2>1, SendAssumption DEF SendInit, SendTypeOK
<1>2. Latest(bufQueue, handed) /\ WireBefore(wire, handed - Len(bufQueue))
  BY DEF SendInit, Latest, WireBefore
<1> QED
  BY <1>1, <1>2 DEF QueueOK

\* What a step does, in the terms of the channel.
Extends ==
    /\ handed' \in {handed, handed + 1}
    /\ Len(wire) <= Len(wire')
    /\ \A i \in 1..Len(wire) : wire'[i] = wire[i]

LEMMA QueueStep ==
    ASSUME QueueOK, [SendNext]_vars
    PROVE  QueueOK' /\ Extends
<1>1. /\ SendTypeOK /\ Latest(bufQueue, handed)
      /\ WireBefore(wire, handed - Len(bufQueue))
      /\ handed \in Nat /\ bufQueue \in Seq(Nat) /\ wire \in Seq(Pieces)
      /\ Len(bufQueue) \in Nat /\ Len(wire) \in Nat
  BY LenProperties DEF QueueOK, SendTypeOK, Pieces
<1>2. ASSUME UNCHANGED <<handed, bufQueue, wire>>, room' \in Nat, broken' \in BOOLEAN
      PROVE  QueueOK' /\ Extends
  <2>1. SendTypeOK'
    BY <1>1, <1>2 DEF SendTypeOK
  <2>2. Latest(bufQueue, handed)' /\ WireBefore(wire, handed - Len(bufQueue))'
    BY <1>1, <1>2 DEF Latest, WireBefore
  <2> QED
    BY <1>1, <1>2, <2>1, <2>2 DEF QueueOK, Extends
\* Both actions that flush, given the queue and the count they flush it with.
<1>3. ASSUME NEW q \in Seq(Nat), NEW h \in {handed, handed + 1},
             Latest(q, h), WireBefore(wire, h - Len(q)), Flush(q),
             handed' = h, UNCHANGED broken
      PROVE  QueueOK' /\ Extends
  <2>1. h \in Nat
    BY <1>1, <1>3
  <2>2. /\ bufQueue' \in Seq(Nat) /\ room' \in Nat /\ wire' \in Seq(Pieces)
        /\ Latest(bufQueue', h)
        /\ WireBefore(wire', h - Len(bufQueue'))
        /\ Len(wire) <= Len(wire')
        /\ \A i \in 1..Len(wire) : wire'[i] = wire[i]
    BY <1>1, <1>3, <2>1, FlushKeepsOrder
  <2>3. SendTypeOK'
    BY <1>1, <1>3, <2>1, <2>2 DEF SendTypeOK, Pieces
  <2>4. Latest(bufQueue, handed)' /\ WireBefore(wire, handed - Len(bufQueue))'
    BY <1>3, <2>2 DEF Latest, WireBefore
  <2> QED
    BY <1>3, <2>2, <2>3, <2>4 DEF QueueOK, Extends
<1>4. CASE SendData
  <2> DEFINE q == Append(bufQueue, handed + 1)
  <2>1. /\ q \in Seq(Nat) /\ Len(q) = Len(bufQueue) + 1
        /\ \A i \in 1..Len(bufQueue) : q[i] = bufQueue[i]
        /\ q[Len(bufQueue) + 1] = handed + 1
    BY <1>1, AppendProperties
  <2>2. handed' = handed + 1 /\ Flush(q) /\ UNCHANGED broken
    BY <1>4 DEF SendData
  <2> HIDE DEF q
  <2>3. Latest(q, handed + 1)
    BY <1>1, <2>1, LatestAppend
  <2>4. WireBefore(wire, (handed + 1) - Len(q))
    <3>1. (handed + 1) - Len(q) = handed - Len(bufQueue)
      BY <1>1, <2>1
    <3> QED
      BY <1>1, <3>1
  <2> DEFINE h == handed + 1
  <2>5. h \in {handed, handed + 1}
    OBVIOUS
  <2>6. Latest(q, h)
    BY <2>3
  <2>7. WireBefore(wire, h - Len(q))
    BY <2>4
  <2>8. handed' = h
    BY <2>2
  <2> HIDE DEF h
  <2> QED
    BY <1>3, <2>1, <2>2, <2>5, <2>6, <2>7, <2>8
<1>5. CASE WriteEvent
  BY <1>1, <1>3, <1>5 DEF WriteEvent
<1>6. CASE Transmit
  BY <1>1, <1>2, <1>6 DEF Transmit, SendTypeOK
<1>7. CASE Break
  BY <1>1, <1>2, <1>7 DEF Break, SendTypeOK
<1>8. CASE UNCHANGED vars
  BY <1>1, <1>2, <1>8 DEF vars, SendTypeOK
<1> QED
  BY <1>4, <1>5, <1>6, <1>7, <1>8 DEF SendNext

-----------------------------------------------------------------------------
LEMMA AlwaysQueueOK == SendSpec => []QueueOK
<1>1. QueueOK /\ [SendNext]_vars => QueueOK'
  BY QueueStep
<1> QED
  BY <1>1, QueueInit, PTL DEF SendSpec

\* The queue holds exactly the latest telegrams, in the order they were handed
\* over: nothing newer has gone out before them.
THEOREM QueueHoldsLatest == SendSpec => [](SendTypeOK /\ WaitingAreLatest)
<1>1. QueueOK => SendTypeOK /\ WaitingAreLatest
  BY DEF QueueOK, Latest, WaitingAreLatest
<1> QED
  BY <1>1, AlwaysQueueOK, PTL

\* The queue, the wire and the room in the kernel keep their types.
THEOREM SendTypes == SendSpec => []SendTypeOK
<1> QED
  BY QueueHoldsLatest, PTL

LEMMA BegunInOrder ==
    QueueOK => /\ begun \in Seq(1..handed)
               /\ Len(begun) = Len(wire)
               /\ Channel!Increasing(begun)
<1> SUFFICES ASSUME QueueOK
             PROVE  /\ begun \in Seq(1..handed)
                    /\ Len(begun) = Len(wire)
                    /\ Channel!Increasing(begun)
  OBVIOUS
<1>1. /\ Len(wire) \in Nat /\ handed \in Nat /\ Len(bufQueue) \in Nat
      /\ Len(bufQueue) <= handed
  BY LenProperties DEF QueueOK, SendTypeOK, Latest
<1>2. \A i \in 1..Len(wire) : begun[i] = wire[i].tgr /\ wire[i].tgr \in 1..handed
  BY <1>1 DEF begun, QueueOK, WireBefore
<1>3. begun \in [1..Len(wire) -> 1..handed]
  BY <1>2 DEF begun
<1>4. begun \in Seq(1..handed)
  BY <1>1, <1>3, SeqDef
<1>5. Len(begun) = Len(wire)
  BY <1>1 DEF begun
<1>6. Channel!Increasing(begun)
  BY <1>2, <1>5 DEF Channel!Increasing, QueueOK, WireBefore
<1> QED
  BY <1>4, <1>5, <1>6

\* Telegrams go out in the order senddata was called with them, whatever the
\* kernel takes, refuses or cuts, and whenever the connection breaks.
THEOREM SendsInOrder == SendSpec => InOrder
<1>1. SendInit => Channel!ChannelInit
  BY DEF SendInit, Channel!ChannelInit, begun
<1>2. QueueOK /\ QueueOK' /\ [SendNext]_vars
      => [Channel!ChannelNext]_<<handed, begun>>
  <2> SUFFICES ASSUME QueueOK, QueueOK', [SendNext]_vars
               PROVE  Channel!ChannelNext
    OBVIOUS
  <2>1. Extends
    BY QueueStep
  <2>2. /\ begun' \in Seq(1..handed') /\ Len(begun') = Len(wire')
        /\ Channel!Increasing(begun')
    <3>1. (/\ begun \in Seq(1..handed) /\ Len(begun) = Len(wire)
           /\ Channel!Increasing(begun))'
      BY BegunInOrder, PTL
    <3> QED
      BY <3>1
  <2>3. Len(begun) = Len(wire) /\ Len(wire) \in Nat /\ Len(wire') \in Nat
    BY BegunInOrder, LenProperties DEF QueueOK, SendTypeOK
  <2>4. ASSUME NEW i \in 1..Len(begun)
        PROVE  begun'[i] = begun[i]
    <3>1. i \in 1..Len(wire) /\ i \in 1..Len(wire')
      BY <2>1, <2>3 DEF Extends
    <3> QED
      BY <2>1, <3>1 DEF Extends, begun
  <2> QED
    BY <2>1, <2>2, <2>3, <2>4 DEF Channel!ChannelNext, Extends
<1> QED
  BY <1>1, <1>2, AlwaysQueueOK, PTL DEF SendSpec, InOrder, Channel!ChannelSpec

-----------------------------------------------------------------------------
\* While the connection is up a flush only moves telegrams from the queue to
\* the wire: none is left out, and each takes the next place.
LEMMA FlushMoves ==
    ASSUME SendTypeOK, NEW h \in Nat, NEW q \in Seq(Nat), Latest(q, h), Flush(q), ~broken,
           Len(wire) + Len(q) = h, \A i \in 1..Len(wire) : wire[i].tgr = i
    PROVE  /\ Len(wire') + Len(bufQueue') = h
           /\ \A i \in 1..Len(wire') : wire'[i].tgr = i
<1> PICK k \in 0..Len(q) :
        /\ bufQueue' \in Seq(Nat)
        /\ Len(bufQueue') = Len(q) - k
        /\ \A i \in 1..Len(q) - k : bufQueue'[i] = q[k + i]
        /\ wire' \in Seq(Pieces)
        /\ Len(wire') = Len(wire) + k
        /\ \A i \in 1..Len(wire) : wire'[i] = wire[i]
        /\ \A i \in 1..k : wire'[Len(wire) + i].tgr = q[i]
  BY FlushSplits
<1>1. Len(q) \in Nat /\ Len(wire) \in Nat /\ k \in Nat /\ k <= Len(q)
  BY LenProperties DEF SendTypeOK
<1>2. ASSUME NEW i \in 1..Len(wire'), i \notin 1..Len(wire)
      PROVE  wire'[i].tgr = i
  <2> DEFINE j == i - Len(wire)
  <2>1. j \in 1..k /\ j \in 1..Len(q) /\ i = Len(wire) + j
    BY <1>1, <1>2
  <2>2. q[j] = h - Len(q) + j
    BY <2>1 DEF Latest
  <2>3. h - Len(q) + j = i
    <3> DEFINE lw == Len(wire)
               lq == Len(q)
    <3>1. lw \in Nat /\ lq \in Nat /\ lw + lq = h /\ i = lw + j /\ j \in Int
      BY <1>1, <2>1
    <3> HIDE DEF lw, lq, j
    <3>2. h - lq + j = i
      BY <3>1
    <3> QED
      BY <3>2 DEF lq
  <2>4. wire'[Len(wire) + j].tgr = q[j]
    BY <2>1
  <2> QED
    BY <2>1, <2>2, <2>3, <2>4
<1>3. Len(wire') + Len(bufQueue') = Len(wire) + Len(q)
  BY <1>1
<1> QED
  BY <1>2, <1>3

LEMMA PlaceStep ==
    ASSUME QueueOK, NoneDropped, [SendNext]_vars
    PROVE  NoneDropped'
<1>1. /\ bufQueue \in Seq(Nat) /\ Len(bufQueue) \in Nat /\ Len(wire) \in Nat
      /\ handed \in Nat /\ SendTypeOK /\ Latest(bufQueue, handed)
  BY LenProperties DEF QueueOK, SendTypeOK
<1>2. CASE SendData
  <2> DEFINE q == Append(bufQueue, handed + 1)
             h == handed + 1
  <2>1. /\ q \in Seq(Nat) /\ Len(q) = Len(bufQueue) + 1
        /\ \A i \in 1..Len(bufQueue) : q[i] = bufQueue[i]
        /\ q[Len(bufQueue) + 1] = handed + 1
    BY <1>1, AppendProperties
  <2>2. handed' = h /\ Flush(q) /\ broken' = broken
    BY <1>2 DEF SendData
  <2>3. Latest(q, h)
    BY <1>1, <2>1, LatestAppend
  <2>4. h \in Nat
    BY <1>1
  <2> HIDE DEF q
  <2>5. Len(wire) + Len(bufQueue) = handed => Len(wire) + Len(q) = h
    BY <1>1, <2>1
  <2> HIDE DEF h
  <2>6. ASSUME ~broken
        PROVE  /\ Len(wire') + Len(bufQueue') = h
               /\ \A i \in 1..Len(wire') : wire'[i].tgr = i
    <3>1. /\ Len(wire) + Len(q) = h
          /\ \A i \in 1..Len(wire) : wire[i].tgr = i
      BY <2>5, <2>6 DEF NoneDropped
    <3> QED
      BY <1>1, <2>1, <2>2, <2>3, <2>4, <2>6, <3>1, FlushMoves
  <2> QED
    BY <2>2, <2>6 DEF NoneDropped
<1>3. CASE WriteEvent
  <2>1. handed' = handed /\ Flush(bufQueue) /\ broken' = broken
    BY <1>3 DEF WriteEvent
  <2>2. ASSUME ~broken
        PROVE  /\ Len(wire') + Len(bufQueue') = handed
               /\ \A i \in 1..Len(wire') : wire'[i].tgr = i
    BY <1>1, <2>1, <2>2, FlushMoves DEF NoneDropped
  <2> QED
    BY <2>1, <2>2 DEF NoneDropped
<1>4. CASE Transmit \/ Break \/ UNCHANGED vars
  BY <1>4 DEF Transmit, Break, vars, NoneDropped
<1> QED
  BY <1>2, <1>3, <1>4 DEF SendNext

\* A telegram is lost only with the connection, and on the wire each has the
\* place it was handed over in.
THEOREM NoTelegramDropped == SendSpec => []NoneDropped
<1>1. SendInit => NoneDropped
  BY DEF SendInit, NoneDropped
<1>2. QueueOK /\ NoneDropped /\ [SendNext]_vars => NoneDropped'
  BY PlaceStep
<1> QED
  BY <1>1, <1>2, AlwaysQueueOK, PTL DEF SendSpec

=============================================================================
