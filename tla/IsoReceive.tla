----------------------------- MODULE IsoReceive -----------------------------
(***************************************************************************)
(* ISORECEIVE: RFC 1006 telegrams read piece by piece from a TCP stream.   *)
(* A telegram is a header, which holds the length of the whole, and the    *)
(* rest.  A recv returns at most what the receiver asks for, and what the  *)
(* network has brought so far.  The receiver asks for the header, takes    *)
(* the length from it, and asks for what is missing until it has it all.   *)
(*                                                                         *)
(* A peer sends well-formed telegrams.  Their contents are left out, except *)
(* for the length in the header.  An accepted connection has a receiver of *)
(* its own; the one of the connection the module opens itself (Outlives)   *)
(* is a member of cISOTP_ETHCONN and serves one TCP connection after the   *)
(* other.                                                                  *)
(***************************************************************************)
EXTENDS Naturals, Sequences

CONSTANTS Header,    \* sizeof(rfc1006_datagram_header)
          Lens,      \* lengths of telegrams, header included
          MaxTel,    \* bound: telegrams a peer sends on one connection
          Outlives   \* the receiver is not deleted with the connection

ASSUME ReceiveAssumption ==
    /\ Header \in Nat \ {0}
    /\ Lens \subseteq Nat /\ \A l \in Lens : l >= Header
    /\ MaxTel \in Nat
    /\ Outlives \in BOOLEAN

VARIABLES
    open,           \* the receiver has a connection
    sent,           \* lengths of the telegrams the peer has sent on it
    done,           \* how many of them have been read completely
    off,            \* bytes read of the one after these
    len_received,   \* ISORECEIVE: bytes of the telegram being assembled
    len_to_receive, \* ISORECEIVE: its length, as far as known
    got             \* lengths of the telegrams passed on, of this connection

vars == <<open, sent, done, off, len_received, len_to_receive, got>>

\* The constructor, and the reset of receive and telCompleted.
ResetSlip == UNCHANGED <<len_received, len_to_receive>>
Reset     == len_received' = 0 /\ len_to_receive' = Header

Init ==
    /\ open = FALSE
    /\ sent = <<>> /\ got = <<>>
    /\ done = 0 /\ off = 0
    /\ len_received = 0
    /\ len_to_receive = Header

-----------------------------------------------------------------------------
\* accept, or the completed connect: the peer starts a new stream.
Connect ==
    /\ ~open
    /\ open' = TRUE
    /\ sent' = <<>> /\ got' = <<>>
    /\ done' = 0 /\ off' = 0
    /\ UNCHANGED <<len_received, len_to_receive>>

PeerSends(l) ==
    /\ open
    /\ Len(sent) < MaxTel
    /\ sent' = Append(sent, l)
    /\ UNCHANGED <<open, done, off, len_received, len_to_receive, got>>

\* What recv may return: part of the current telegram, not more than asked
\* for.  (One recv across the end of a telegram equals two.)
Chunk ==
    {n \in 1..(len_to_receive - len_received) :
        done < Len(sent) /\ off + n <= sent[done + 1]}

\* The length field of the header just completed.  If the receiver is not at
\* the start of a telegram of this stream it is whatever bytes are there.
LengthField(r) == IF r = off + r - len_received THEN {sent[done + 1]} ELSE Lens

\* len_to_receive, given that r bytes have been received
TargetsSlip(r) == {len_to_receive}
Targets(r) == IF r = Header THEN LengthField(r) ELSE {len_to_receive}

\* The test of telCompleted
CompletedSlip(r, target) == r > target
Completed(r, target)     == r >= target

\* receive and telCompleted, one call of doReadEvent
Receive(n) ==
    /\ open
    /\ n \in Chunk
    /\ IF off + n = sent[done + 1]
       THEN done' = done + 1 /\ off' = 0
       ELSE done' = done /\ off' = off + n
    /\ \E target \in Targets(len_received + n) :
         IF Completed(len_received + n, target)
         THEN /\ Reset
              /\ got' = Append(got, len_received + n)
         ELSE /\ len_received' = len_received + n
              /\ len_to_receive' = target
              /\ UNCHANGED got
    /\ UNCHANGED <<open, sent>>

\* receive with recv < 1: the peer has closed, or the connection is reset;
\* what the peer had sent may be lost on the way.
PeerCloses ==
    /\ open
    /\ open' = FALSE
    /\ Reset
    /\ UNCHANGED <<sent, done, off, got>>

\* iso_abbau: an acceptance is deleted, and its receiver with it.  The own
\* connection is closed, and nobody tells its receiver.
Abbau ==
    /\ open
    /\ open' = FALSE
    /\ IF Outlives THEN UNCHANGED <<len_received, len_to_receive>> ELSE Reset
    /\ UNCHANGED <<sent, done, off, got>>

Next ==
    \/ Connect
    \/ \E l \in Lens : PeerSends(l)
    \/ \E n \in Chunk : Receive(n)
    \/ PeerCloses
    \/ Abbau

Spec == Init /\ [][Next]_vars

\* The network delivers what has been sent, the event loop has it read.
FairSpec == Spec /\ WF_vars(\E n \in Chunk : Receive(n))

-----------------------------------------------------------------------------
(* Properties. *)

\* The types.  There is always something to ask recv for: it would return 0
\* for nothing asked, which receive takes for the end of the connection.
TypeOK ==
    /\ open \in BOOLEAN
    /\ sent \in Seq(Lens) /\ got \in Seq(Nat)
    /\ done \in 0..Len(sent) /\ off \in Nat
    /\ len_to_receive \in Lens \cup {Header}
    /\ len_received \in 0..(len_to_receive - 1)

\* "das Telegramm ist vollstaendig zusammengesammelt": the receiver is where
\* the stream is.  What it has assembled so far is what the peer has sent of
\* the telegram it is in the middle of, and nothing else.
InStep == open => len_received = off

\* However the network cuts the stream into pieces, the telegrams passed on
\* are those the peer has sent on this connection: whole, each once, in order.
Framed == Len(got) = done /\ \A i \in 1..done : got[i] = sent[i]

\* Every telegram sent is passed on, unless the connection ends first.
Delivered ==
    \A k \in 1..MaxTel : open /\ Len(sent) >= k ~> (~open \/ Len(got) >= k)

=============================================================================
