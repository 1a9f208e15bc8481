----------------------------- MODULE SendQueue -----------------------------
(***************************************************************************)
(* Sending to one accepted peer: cETH_ACCEPTANCE::senddata, its queue of   *)
(* telegrams the kernel would not take yet, and the write event that       *)
(* empties it.  The socket is non-blocking.  The kernel takes as much of a *)
(* telegram as it has room for: all of it, its first part, or nothing      *)
(* ("would block").  The source asks for EINPROGRESS to recognise the      *)
(* latter, which its header redefines on Windows; elsewhere a full buffer  *)
(* gives EAGAIN and the telegram would be dropped, which is not modelled.  *)
(* Once the peer has broken the connection every send fails.  Telegrams    *)
(* are numbered in the order senddata is called.                           *)
(***************************************************************************)
EXTENDS Naturals, Sequences

CONSTANTS TgrLen,   \* units of kernel room a telegram needs
          Room,     \* units of room of the kernel's send buffer
          MaxTgr    \* bound: calls of senddata

ASSUME SendAssumption == TgrLen \in Nat \ {0} /\ Room \in Nat /\ MaxTgr \in Nat

VARIABLES
    handed,     \* calls of senddata so far
    bufQueue,   \* cETH_ACCEPTANCE::bufQueue
    room,       \* free room of the send buffer
    broken,     \* the connection is broken: send fails for good
    wire        \* ghost: what the kernel took, telegram by telegram

vars == <<handed, bufQueue, room, broken, wire>>

SendInit ==
    /\ handed = 0
    /\ bufQueue = <<>>
    /\ room = Room
    /\ broken = FALSE
    /\ wire = <<>>

\* Given the queue q, the k-th send is the last one with a positive answer: the
\* kernel has room before each of the k, and none after them if q goes on.
StopsAfter(q, k) ==
    /\ k > 0 => (k - 1) * TgrLen < room
    /\ k < Len(q) => room <= k * TgrLen

\* How much the kernel takes of the i-th telegram of a queue.
Units(i) == IF i * TgrLen <= room THEN TgrLen ELSE room - (i - 1) * TgrLen

\* On "would block" the front stays in the queue.
WaitingSlip(q, k) == <<>>
Waiting(q, k) == SubSeq(q, k + 1, Len(q))

\* doWriteEvent on the queue q: send the front until the kernel would block.
\* Any positive answer counts as sent, and any other error drops the telegram.
Flush(q) ==
    IF broken
    THEN bufQueue' = <<>> /\ UNCHANGED <<room, wire>>
    ELSE \E k \in 0..Len(q) :
            /\ StopsAfter(q, k)
            /\ bufQueue' = Waiting(q, k)
            /\ wire' = wire \o [i \in 1..k |-> [tgr |-> q[i], units |-> Units(i)]]
            /\ room' = IF k * TgrLen <= room THEN room - k * TgrLen ELSE 0

\* Faulty variant: the new telegram does not wait behind the queue.
SendDataSlip ==
    /\ handed < MaxTgr
    /\ handed' = handed + 1
    /\ IF room = 0 /\ ~broken
       THEN bufQueue' = Append(bufQueue, handed') /\ UNCHANGED <<room, wire>>
       ELSE /\ wire' = Append(wire, [tgr |-> handed', units |-> Units(1)])
            /\ room' = IF TgrLen <= room THEN room - TgrLen ELSE 0
            /\ UNCHANGED bufQueue
    /\ UNCHANGED broken

\* senddata, sendBuffered: behind what is waiting, if anything is.  On an
\* empty queue the direct send and its fallback have the same effect.
SendData ==
    /\ handed < MaxTgr
    /\ handed' = handed + 1
    /\ Flush(Append(bufQueue, handed'))
    /\ UNCHANGED broken

\* Faulty variant: an error event is not taken as a chance to send.
WriteEventSlip ==
    /\ bufQueue # <<>>
    /\ room > 0 /\ ~broken
    /\ Flush(bufQueue)
    /\ UNCHANGED <<handed, broken>>

\* nEventBufferEmpty: the socket is writable (or in error)
WriteEvent ==
    /\ bufQueue # <<>>
    /\ room > 0 \/ broken
    /\ Flush(bufQueue)
    /\ UNCHANGED <<handed, broken>>

\* The kernel passes a unit on to the peer, or learns that there is no peer.
Transmit ==
    /\ room < Room /\ ~broken
    /\ room' = room + 1
    /\ UNCHANGED <<handed, bufQueue, broken, wire>>

Break ==
    /\ ~broken
    /\ broken' = TRUE
    /\ UNCHANGED <<handed, bufQueue, room, wire>>

SendNext == SendData \/ WriteEvent \/ Transmit \/ Break

SendSpec == SendInit /\ [][SendNext]_vars

\* The event loop reports a writable socket, the kernel transmits.
SendFairSpec == SendSpec /\ WF_vars(WriteEvent) /\ WF_vars(Transmit)

-----------------------------------------------------------------------------
(* Properties. *)

SendTypeOK ==
    /\ handed \in Nat
    /\ bufQueue \in Seq(Nat)
    /\ room \in Nat
    /\ broken \in BOOLEAN
    /\ wire \in Seq([tgr : Nat, units : Nat \ {0}])

\* The telegrams that wait are the last ones handed over, in their order: none
\* is waiting that newer ones have overtaken, and none waits twice.
WaitingAreLatest ==
    \A i \in 1..Len(bufQueue) : bufQueue[i] = handed - Len(bufQueue) + i

\* What an observer of the wire sees of OrderedChannel.
begun == [i \in 1..Len(wire) |-> wire[i].tgr]

\* "Sonst kommt es zu vertauschter sende Reihenfolge": whatever the kernel
\* takes and refuses, telegrams go out in the order senddata was called.
Channel == INSTANCE OrderedChannel WITH handed <- handed, begun <- begun
InOrder == Channel!ChannelSpec

\* A telegram is lost only with the connection: as long as it is not broken the
\* i-th telegram on the wire is the i-th one handed over, and all the others
\* wait; there is no gap and no telegram twice, on the wire or behind it.
NoneDropped ==
    ~broken => /\ Len(wire) + Len(bufQueue) = handed
               /\ \A i \in 1..Len(wire) : wire[i].tgr = i

\* What waits goes out, or the connection breaks and it is dropped.
QueueDrains == bufQueue # <<>> ~> bufQueue = <<>>

\* "jetzt noch das eigentliche Telegramm": a telegram the kernel has begun to
\* take goes out whole.  (The code takes any positive answer for all of it.)
WholeTelegrams == \A i \in 1..Len(wire) : wire[i].units = TgrLen

=============================================================================
