------------------------- MODULE IsoReceive_proofs -------------------------
(***************************************************************************)
(* A receiver that is deleted with its connection (ISORECEIVE of an        *)
(* accepted connection) passes on exactly the telegrams the peer has sent, *)
(* for every length of the header and of the telegrams, and however the    *)
(* network cuts the stream.  So does the one that outlives its connection, *)
(* as long as iso_abbau does not come in the middle of a telegram.         *)
(***************************************************************************)
EXTENDS IsoReceive, SequenceTheorems, TLAPS

\* The receiver is as far in its telegram as the stream is: it knows the
\* length as soon as, and only when, it has the header.
Aligned ==
    /\ InStep
    /\ ~open => len_received = 0
    /\ len_received < Header => len_to_receive = Header
    /\ len_received >= Header =>
         /\ done < Len(sent)
         /\ len_to_receive = sent[done + 1]

ReceiveOK == TypeOK /\ Aligned /\ Framed

\* A step that is no iso_abbau in the middle of a telegram, unless the receiver
\* is deleted by it.
Between == Abbau => ~Outlives \/ len_received = 0

LEMMA InitOK == Init => ReceiveOK
<1> SUFFICES ASSUME Init PROVE ReceiveOK
  OBVIOUS
<1>1. Header \in Nat \ {0}
  BY ReceiveAssumption
<1>2. sent \in Seq(Lens) /\ got \in Seq(Nat) /\ Len(sent) = 0 /\ Len(got) = 0
  BY EmptySeq DEF Init
<1>3. TypeOK
  <2>1. done \in 0..Len(sent) /\ off \in Nat
    BY <1>2 DEF Init
  <2>2. len_to_receive \in Lens \cup {Header} /\ len_received \in 0..(len_to_receive - 1)
    BY <1>1 DEF Init
  <2>3. open \in BOOLEAN
    BY DEF Init
  <2> QED
    BY <1>2, <2>1, <2>2, <2>3 DEF TypeOK
<1>4. Aligned /\ Framed
  BY <1>1, <1>2 DEF Init, Aligned, InStep, Framed
<1> QED
  BY <1>3, <1>4 DEF ReceiveOK

\* What a recv of n bytes and the length it finds lead to.
LEMMA ReceiveStep ==
    ASSUME TypeOK, NEW n \in Chunk, Receive(n)
    PROVE  TypeOK' /\ (Aligned /\ Framed => Aligned' /\ Framed')
<1> DEFINE r == len_received + n
           tel == sent[done + 1]
<1>0. /\ len_to_receive \in Nat /\ len_received \in Nat
      /\ len_received < len_to_receive
  <2>1. len_to_receive \in Nat
    BY ReceiveAssumption DEF TypeOK
  <2> QED
    BY <2>1 DEF TypeOK
<1>1. /\ n \in Nat \ {0} /\ n <= len_to_receive - len_received
      /\ open /\ done < Len(sent) /\ off + n <= tel
  BY <1>0 DEF Receive, Chunk
<1>2. /\ Len(sent) \in Nat /\ done \in Nat /\ off \in Nat
      /\ tel \in Lens /\ tel \in Nat /\ tel >= Header
      /\ Header \in Nat \ {0}
      /\ \A l \in Lens \cup {Header} : l \in Nat /\ l >= Header
  <2>1. sent \in Seq(Lens) /\ done \in 0..Len(sent) /\ off \in Nat
    BY DEF TypeOK
  <2>2. Len(sent) \in Nat
    BY <2>1, LenProperties
  <2>3. done \in Nat /\ done + 1 \in 1..Len(sent)
    BY <1>1, <2>1, <2>2
  <2>4. tel \in Lens
    BY <2>1, <2>3, ElementOfSeq
  <2> HIDE DEF tel
  <2> QED
    BY <2>1, <2>2, <2>3, <2>4, ReceiveAssumption
<1>3. /\ len_received \in Nat /\ len_to_receive \in Nat
      /\ r \in Nat /\ r <= len_to_receive
  BY <1>1, <1>2 DEF TypeOK
<1>4. PICK target \in Targets(r) :
        IF Completed(r, target)
        THEN Reset /\ got' = Append(got, r)
        ELSE len_received' = r /\ len_to_receive' = target /\ UNCHANGED got
  BY DEF Receive
<1>5. target \in Lens \cup {Header} /\ target \in Nat
  BY <1>2 DEF Targets, LengthField, TypeOK
<1>6. got \in Seq(Nat) /\ Len(got) \in Nat
  BY LenProperties DEF TypeOK
<1>7. /\ open' = open /\ sent' = sent
      /\ IF off + n = tel THEN done' = done + 1 /\ off' = 0
                          ELSE done' = done /\ off' = off + n
  BY DEF Receive
<1> HIDE DEF r, tel
<1>8. /\ Append(got, r) \in Seq(Nat)
      /\ Len(Append(got, r)) = Len(got) + 1
      /\ \A i \in 1..Len(got) : Append(got, r)[i] = got[i]
      /\ Append(got, r)[Len(got) + 1] = r
  BY <1>3, <1>6, AppendProperties
<1>9. TypeOK'
  <2>1. sent' \in Seq(Lens) /\ got' \in Seq(Nat) /\ open' \in BOOLEAN
    BY <1>4, <1>6, <1>7, <1>8 DEF TypeOK
  <2>2. done' \in 0..Len(sent)' /\ off' \in Nat
    BY <1>1, <1>2, <1>7
  <2>3. len_to_receive' \in Lens \cup {Header} /\ len_received' \in 0..(len_to_receive' - 1)
    BY <1>2, <1>3, <1>4, <1>5 DEF Completed, Reset
  <2> QED
    BY <2>1, <2>2, <2>3 DEF TypeOK
<1>10. ASSUME Aligned, Framed PROVE Aligned' /\ Framed'
  <2>1. r = off + n /\ len_received = off
    BY <1>1, <1>10 DEF Aligned, InStep, r
  \* The target is what it should be for the r bytes.
  <2>2. IF r < Header THEN target = Header ELSE target = tel
    <3>1. CASE r = Header
      <4>1. r = off + r - len_received
        BY <1>2, <1>3, <2>1
      <4> QED
        BY <3>1, <4>1, <1>2, <1>4 DEF Targets, LengthField, tel
    <3>2. CASE r < Header
      <4>1. len_received < Header
        BY <3>2, <1>1, <1>2, <1>3 DEF r
      <4> QED
        BY <3>2, <4>1, <1>2, <1>3, <1>4, <1>10 DEF Targets, Aligned
    <3>3. CASE r > Header
      <4>1. len_received >= Header
        BY <3>3, <1>1, <1>2, <1>3, <1>10 DEF r, Aligned
      <4> QED
        BY <3>3, <4>1, <1>2, <1>3, <1>4, <1>10 DEF Targets, Aligned, tel
    <3> QED
      BY <3>1, <3>2, <3>3, <1>2, <1>3
  <2>3. Len(got) = done /\ \A i \in 1..done : got[i] = sent[i]
    BY <1>10 DEF Framed
  <2>4. CASE off + n = tel
    <3>1. Completed(r, target) /\ r = tel
      BY <2>1, <2>2, <2>4, <1>2, <1>3 DEF Completed
    <3>2. len_received' = 0 /\ len_to_receive' = Header /\ got' = Append(got, r)
      BY <3>1, <1>4 DEF Reset
    <3>3. Aligned'
      BY <3>2, <2>4, <1>1, <1>2, <1>7 DEF Aligned, InStep
    <3>4. Framed'
      <4>1. Len(got') = done' /\ done' = done + 1
        BY <3>2, <1>2, <1>7, <1>8, <2>3, <2>4
      <4>2. \A i \in 1..(done + 1) : got'[i] = sent[i]
        <5> TAKE i \in 1..(done + 1)
        <5>1. CASE i \in 1..done
          BY <5>1, <3>2, <1>8, <2>3
        <5>2. CASE i = done + 1
          BY <5>2, <3>1, <3>2, <1>8, <2>3 DEF tel
        <5> QED
          BY <5>1, <5>2, <1>2
      <4> QED
        BY <4>1, <4>2, <1>7 DEF Framed
    <3> QED
      BY <3>3, <3>4
  <2>5. CASE off + n # tel
    <3>1. off + n < tel
      BY <2>5, <1>1, <1>2
    <3>2. ~Completed(r, target)
      BY <3>1, <2>1, <2>2, <1>2, <1>3, <1>5 DEF Completed
    <3>3. len_received' = r /\ len_to_receive' = target /\ got' = got
      BY <3>2, <1>4
    <3>4. done' = done /\ off' = off + n
      BY <2>5, <1>7
    <3>5. Aligned'
      BY <3>3, <3>4, <2>1, <2>2, <1>1, <1>2, <1>3, <1>7 DEF Aligned, InStep, tel
    <3> QED
      BY <3>3, <3>4, <3>5, <1>7, <2>3 DEF Framed
  <2> QED
    BY <2>4, <2>5
<1> QED
  BY <1>9, <1>10

\* The end of a connection.
LEMMA CloseStep ==
    ASSUME TypeOK, ~open', open' \in BOOLEAN, UNCHANGED <<sent, done, off, got>>,
           \/ Reset
           \/ UNCHANGED <<len_received, len_to_receive>>
    PROVE  /\ TypeOK'
           /\ (Reset \/ len_received = 0) /\ Aligned /\ Framed => Aligned' /\ Framed'
<1>1. Header \in Nat \ {0}
  BY ReceiveAssumption
<1>2. TypeOK'
  BY <1>1 DEF Reset, TypeOK
<1>3. ASSUME Reset \/ len_received = 0, Aligned, Framed
      PROVE  Aligned' /\ Framed'
  <2>1. len_received' = 0 /\ len_to_receive' = Header
    BY <1>1, <1>3 DEF Reset, Aligned
  <2>2. Aligned'
    BY <1>1, <2>1 DEF Aligned, InStep
  <2>3. Framed'
    BY <1>3 DEF Framed
  <2> QED
    BY <2>2, <2>3
<1> QED
  BY <1>2, <1>3

LEMMA NextStep ==
    ASSUME TypeOK, [Next]_vars
    PROVE  TypeOK' /\ (Between /\ Aligned /\ Framed => Aligned' /\ Framed')
<1> DEFINE Kept == Aligned /\ Framed => Aligned' /\ Framed'
<1>1. /\ Header \in Nat \ {0}
      /\ \A l \in Lens \cup {Header} : l \in Nat /\ l >= Header
      /\ Len(sent) \in Nat /\ Len(got) \in Nat
      /\ len_received \in Nat /\ len_to_receive \in Nat
  BY ReceiveAssumption, LenProperties DEF TypeOK
<1>2. CASE Connect
  <2>1. sent' \in Seq(Lens) /\ got' \in Seq(Nat) /\ Len(sent') = 0 /\ Len(got') = 0
    BY <1>2, EmptySeq DEF Connect
  <2>2. TypeOK'
    BY <1>1, <1>2, <2>1 DEF Connect, TypeOK
  <2>3. Kept
    BY <1>1, <1>2, <2>1 DEF Connect, Aligned, InStep, Framed
  <2> QED
    BY <2>2, <2>3
<1>3. ASSUME NEW l \in Lens, PeerSends(l) PROVE TypeOK' /\ Kept
  <2>1. /\ sent' \in Seq(Lens)
        /\ Len(sent') = Len(sent) + 1
        /\ \A i \in 1..Len(sent) : sent'[i] = sent[i]
    BY <1>3, AppendProperties DEF PeerSends, TypeOK
  <2>2. TypeOK'
    BY <1>1, <1>3, <2>1 DEF PeerSends, TypeOK
  <2>3. done \in Nat /\ done <= Len(sent)
    BY <1>1 DEF TypeOK
  <2>4. ASSUME Aligned, Framed PROVE Aligned' /\ Framed'
    <3>1. Aligned'
      BY <1>1, <1>3, <2>1, <2>3, <2>4 DEF PeerSends, Aligned, InStep
    <3>2. Framed'
      BY <1>1, <1>3, <2>1, <2>3, <2>4 DEF PeerSends, Framed
    <3> QED
      BY <3>1, <3>2
  <2> QED
    BY <2>2, <2>4
<1>4. ASSUME NEW n \in Chunk, Receive(n) PROVE TypeOK' /\ Kept
  BY <1>4, ReceiveStep
<1>5. CASE PeerCloses
  BY <1>5, CloseStep DEF PeerCloses
<1>6. CASE Abbau
  <2>1. /\ ~open' /\ open' \in BOOLEAN /\ UNCHANGED <<sent, done, off, got>>
        /\ Reset \/ UNCHANGED <<len_received, len_to_receive>>
        /\ Between => Reset \/ len_received = 0
    BY <1>6 DEF Abbau, Between
  <2> QED
    BY <2>1, CloseStep
<1>7. CASE UNCHANGED vars
  BY <1>7 DEF vars, TypeOK, Aligned, InStep, Framed
<1> QED
  BY <1>2, <1>3, <1>4, <1>5, <1>6, <1>7 DEF Next

-----------------------------------------------------------------------------
\* Whether or not the receiver survives its connection, it always knows how
\* much to ask recv for, and that is never nothing (ISORECEIVE::receive).
THEOREM ReceiverTypes == Spec => []TypeOK
<1>1. Init => TypeOK
  BY InitOK DEF ReceiveOK
<1>2. TypeOK /\ [Next]_vars => TypeOK'
  BY NextStep
<1> QED
  BY <1>1, <1>2, PTL DEF Spec

\* iso_abbau closes the own connection between two telegrams only.
TornDownBetween == [][Between]_vars

\* The receiver of the own connection, which meets the next connection in the
\* state it was left in, is in step with it, and passes on what is sent, unless
\* an iso_abbau comes in the middle of a telegram.  Nothing else, and no end the
\* peer makes, leaves it out of step.
THEOREM OwnReceiverInStep == Spec /\ TornDownBetween => [](InStep /\ Framed)
<1>1. ReceiveOK /\ [Next]_vars /\ [Between]_vars => ReceiveOK'
  <2> SUFFICES ASSUME ReceiveOK, [Next]_vars, [Between]_vars PROVE ReceiveOK'
    OBVIOUS
  <2>1. CASE Between
    BY <2>1, NextStep DEF ReceiveOK
  <2>2. CASE UNCHANGED vars
    BY <2>2 DEF vars, ReceiveOK, TypeOK, Aligned, InStep, Framed
  <2> QED
    BY <2>1, <2>2
<1>2. ReceiveOK => InStep /\ Framed
  BY DEF ReceiveOK, Aligned
<1> QED
  BY <1>1, <1>2, InitOK, PTL DEF Spec, TornDownBetween

LEMMA AlwaysBetween == ASSUME ~Outlives PROVE TornDownBetween
<1>1. [Between]_vars
  BY DEF Between
<1> QED
  BY <1>1, PTL DEF TornDownBetween

\* The receiver of an accepted connection never loses its place in the stream.
THEOREM NeverOutOfStep == ASSUME ~Outlives PROVE Spec => []InStep
<1> QED
  BY AlwaysBetween, OwnReceiverInStep, PTL

\* It passes on the telegrams that were sent: whole, once each and in order.
THEOREM TelegramsFramed == ASSUME ~Outlives PROVE Spec => []Framed
<1> QED
  BY AlwaysBetween, OwnReceiverInStep, PTL

=============================================================================
