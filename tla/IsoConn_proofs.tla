--------------------------- MODULE IsoConn_proofs ---------------------------
(***************************************************************************)
(* Proofs about IsoConn, for any number of handles and any bound of the    *)
(* buffer.  The vector of acceptances matches the objects for any number   *)
(* of peers; a stop cuts off all of them if it finds at most two.          *)
(***************************************************************************)
EXTENDS IsoConn, SequenceTheorems, TLAPS

\* Handles, registrations and the state of the connection agree, however
\* connects, their outcomes, ends and stops follow each other: no handle is
\* lost, none is watched after it is closed, none in use is unwatched.
SocketDiscipline ==
    /\ \A f \in Fds : sock[f] # "free" <=> f = fd /\ conSndState # "Closed"
    /\ reg = CASE conSndState = "Closed"     -> {}
               [] conSndState = "Connecting" -> {<<fd, "BufferEmpty">>}
               [] conSndState = "Connected"  -> {<<fd, "DataWaiting">>}

Inductive == TypeOK /\ VectorMatches /\ SocketDiscipline /\ NoneWaitsBesideOwn

\* "In der Regel solte nur eine solche Verbindung existieren"
AtMostTwo == \E x, y : Accs \subseteq {x, y}

\* A step that is no stop of the module with more than two associated peers.
StopsFew == StopData => Len(acceptance) <= 2

LEMMA ConstantTypes ==
    /\ None \notin Fds /\ MaxBuf \in Nat
    /\ FailsAtOnce \in BOOLEAN
BY IsoAssumption

-----------------------------------------------------------------------------
(* Types.  First what the pieces of the handlers leave. *)

OwnTyped ==
    /\ conSndState \in {"Closed", "Connecting", "Connected"}
    /\ fd \in Fds \cup {None}
    /\ sock \in [Fds -> SockStates]
    /\ reg \subseteq Fds \X Events
    /\ asked \subseteq Requests

BufTyped == bufQueue \in Seq(Kinds) /\ Len(bufQueue) <= MaxBuf

AccTyped ==
    /\ acceptance \in Seq(Accs)
    /\ phase \in [Accs -> {"free", "new", "ours"}]
    /\ gone \subseteq Accs

ExpTyped ==
    /\ expedited_erlaubt \in BOOLEAN
    /\ expedited_eingeschaltet \in BOOLEAN

TopTyped ==
    /\ connState \in {"Instantiated", "Paused", "Running"}
    /\ server \in BOOLEAN
    /\ told \in {"hergestellt", "beendet", "lost"}
    /\ crashed \in BOOLEAN

LEMMA TypeParts ==
    TypeOK <=> OwnTyped /\ BufTyped /\ AccTyped /\ ExpTyped /\ TopTyped
BY DEF TypeOK, OwnTyped, BufTyped, AccTyped, ExpTyped, TopTyped

LEMMA CloseSocketType ==
    ASSUME sock \in [Fds -> SockStates], CloseSocket
    PROVE  sock' \in [Fds -> SockStates]
BY DEF CloseSocket, SockStates

LEMMA SendsType ==
    ASSUME OwnTyped, NEW q \in Seq(Kinds), Sends(q)
    PROVE  asked' \subseteq Requests
BY DEF Sends, OwnTyped

LEMMA ConnectType ==
    ASSUME OwnTyped, Connect
    PROVE  OwnTyped'
<1>1. CASE UNCHANGED ownVars
  BY <1>1 DEF OwnTyped, ownVars
<1>2. CASE ~UNCHANGED ownVars
  <2>1. PICK f \in Fds :
          /\ fd' = f
          /\ conSndState' = "Connecting"
          /\ \E s \in {"connecting"} \cup IF FailsAtOnce THEN {"dead"} ELSE {} :
               sock' = [sock EXCEPT ![f] = s]
          /\ reg' = reg \cup {<<f, "BufferEmpty">>}
          /\ asked' = {}
    BY <1>2 DEF Connect, AwaitConnect
  <2>2. PICK s \in SockStates : sock' = [sock EXCEPT ![f] = s]
    BY <2>1 DEF SockStates
  <2>3. sock' \in [Fds -> SockStates]
    BY <2>2 DEF OwnTyped
  <2>4. reg' \subseteq Fds \X Events
    BY <2>1 DEF OwnTyped, Events
  <2> QED
    BY <2>1, <2>3, <2>4 DEF OwnTyped
<1> QED
  BY <1>1, <1>2

LEMMA SendDataType ==
    ASSUME OwnTyped, BufTyped, NEW k \in Kinds, SendData(k)
    PROVE  OwnTyped' /\ BufTyped'
<1>1. CASE CheckAcceptance \/ IsConnected
  <2>1. asked' \subseteq Requests
    <3>1. <<k>> \in Seq(Kinds)
      OBVIOUS
    <3>2. CASE IsConnected
      BY <1>1, <3>1, <3>2, SendsType DEF SendData
    <3>3. CASE ~IsConnected
      BY <1>1, <3>3 DEF SendData, OwnTyped
    <3> QED
      BY <3>2, <3>3
  <2> QED
    BY <1>1, <2>1 DEF SendData, OwnTyped, BufTyped
<1>2. CASE ~(CheckAcceptance \/ IsConnected)
  <2>1. Len(bufQueue) < MaxBuf /\ bufQueue' = Append(bufQueue, k)
    BY <1>2 DEF SendData, Buffered
  <2>2. BufTyped'
    BY <2>1, AppendProperties, LenProperties, ConstantTypes DEF BufTyped
  <2>3. CASE conSndState = "Closed"
    BY <1>2, <2>2, <2>3, ConnectType DEF SendData
  <2>4. CASE conSndState # "Closed"
    BY <1>2, <2>2, <2>4 DEF SendData, OwnTyped, ownVars
  <2> QED
    BY <2>3, <2>4
<1> QED
  BY <1>1, <1>2

-----------------------------------------------------------------------------
(* The vector of acceptances. *)

Distinct(q) == \A i, j \in DOMAIN q : q[i] = q[j] => i = j

\* removeAcceptance takes out a, and nothing else.
LEMMA RemoveProps ==
    ASSUME acceptance \in Seq(Accs), Distinct(acceptance),
           NEW a, RemoveAcceptance(a)
    PROVE  /\ acceptance' \in Seq(Accs)
           /\ Range(acceptance') = Range(acceptance) \ {a}
           /\ Distinct(acceptance')
<1>1. CASE a \notin Range(acceptance)
  BY <1>1 DEF RemoveAcceptance
<1>2. CASE a \in Range(acceptance)
  <2> DEFINE n == Len(acceptance)
  <2>1. n \in Nat /\ DOMAIN acceptance = 1..n
    BY LenProperties
  <2>2. PICK i \in 1..n :
          /\ acceptance[i] = a
          /\ acceptance' = SubSeq(acceptance, 1, i - 1)
                               \o SubSeq(acceptance, i + 1, Len(acceptance))
    BY <1>2, <2>1 DEF RemoveAcceptance, Range
  <2>3. \A j \in 1..n : acceptance[j] \in Accs
    BY <2>1, ElementOfSeq
  <2> DEFINE l == SubSeq(acceptance, 1, i - 1)
             r == SubSeq(acceptance, i + 1, Len(acceptance))
  <2>4. l \in Seq(Accs) /\ Len(l) = i - 1 /\ \A j \in 1..(i - 1) : l[j] = acceptance[j]
    <3>1. \A j \in 1..(i - 1) : acceptance[j] \in Accs
      BY <2>1, <2>3
    <3>2. /\ l \in Seq(Accs)
          /\ Len(l) = IF 1 <= i - 1 THEN (i - 1) - 1 + 1 ELSE 0
          /\ \A j \in 1..((i - 1) - 1 + 1) : l[j] = acceptance[1 + j - 1]
      BY <2>1, <3>1, SubSeqProperties, SMTT(30)
    <3> HIDE DEF l
    <3> QED
      BY <2>1, <3>2
  <2>5. /\ r \in Seq(Accs) /\ Len(r) = n - i
        /\ \A j \in 1..(n - i) : r[j] = acceptance[i + j]
    <3>1. \A j \in (i + 1)..n : acceptance[j] \in Accs
      BY <2>1, <2>3
    <3> DEFINE m == i + 1
    <3>2. m \in Int /\ n \in Int /\ \A j \in m..n : acceptance[j] \in Accs
      BY <2>1, <3>1
    <3>3. r = SubSeq(acceptance, m, n)
      OBVIOUS
    <3> HIDE DEF m, n, r
    <3>4. /\ r \in Seq(Accs)
          /\ Len(r) = IF m <= n THEN n - m + 1 ELSE 0
          /\ \A j \in 1..(n - m + 1) : r[j] = acceptance[m + j - 1]
      BY <3>2, <3>3, SubSeqProperties, SMTT(30)
    <3>5. \A j \in 1..(n - i) : r[j] = acceptance[i + j]
      <4> TAKE j \in 1..(n - i)
      <4>1. j \in 1..(n - m + 1) /\ m + j - 1 = i + j
        BY <3>2, <2>1 DEF m
      <4> QED
        BY <3>4, <4>1
    <3>6. Len(r) = n - i
      BY <2>1, <3>2, <3>4 DEF m
    <3> QED
      BY <3>4, <3>5, <3>6
  <2>6. acceptance' = l \o r
    BY <2>2
  <2> HIDE DEF l, r
  <2>7. /\ acceptance' \in Seq(Accs)
        /\ Len(acceptance') = n - 1
        /\ \A j \in 1..(n - 1) :
             acceptance'[j] = IF j < i THEN acceptance[j] ELSE acceptance[j + 1]
    <3>1. /\ l \o r \in Seq(Accs)
          /\ Len(l \o r) = Len(l) + Len(r)
          /\ \A j \in 1..(Len(l) + Len(r)) :
               (l \o r)[j] = IF j <= Len(l) THEN l[j] ELSE r[j - Len(l)]
      BY <2>4, <2>5, ConcatProperties
    <3> HIDE DEF n
    <3>2. ASSUME NEW j \in 1..(n - 1)
          PROVE  acceptance'[j] = IF j < i THEN acceptance[j] ELSE acceptance[j + 1]
      <4>1. CASE j < i
        BY <2>1, <2>4, <2>5, <2>6, <3>1, <4>1
      <4>2. CASE ~(j < i)
        <5>1. j - (i - 1) \in 1..(n - i) /\ i + (j - (i - 1)) = j + 1
          BY <2>1, <4>2
        <5>2. acceptance'[j] = r[j - (i - 1)]
          BY <2>1, <2>4, <2>5, <2>6, <3>1, <4>2
        <5> QED
          BY <2>5, <4>2, <5>1, <5>2
      <4> QED
        BY <4>1, <4>2
    <3> QED
      BY <2>1, <2>4, <2>5, <2>6, <3>1, <3>2
  <2>8. DOMAIN acceptance' = 1..(n - 1)
    BY <2>7, LenProperties
  <2>9. \A h, j \in 1..n : acceptance[h] = acceptance[j] => h = j
    BY <2>1 DEF Distinct
  <2> HIDE DEF n
  <2>10. Range(acceptance') = Range(acceptance) \ {a}
    <3>1. ASSUME NEW j \in 1..(n - 1)
          PROVE  acceptance'[j] \in Range(acceptance) \ {a}
      <4>1. PICK h \in 1..n : acceptance'[j] = acceptance[h] /\ h # i
        <5>1. CASE j < i
          BY <2>1, <2>7, <5>1
        <5>2. CASE ~(j < i)
          BY <2>1, <2>7, <5>2
        <5> QED
          BY <5>1, <5>2
      <4>2. acceptance[h] # a
        BY <2>2, <2>9, <4>1
      <4> QED
        BY <2>1, <4>1, <4>2 DEF Range
    <3>2. ASSUME NEW b \in Range(acceptance) \ {a} PROVE b \in Range(acceptance')
      <4>1. PICK j \in 1..n : acceptance[j] = b
        BY <2>1 DEF Range
      <4>2. j # i
        BY <2>2, <4>1
      <4>3. CASE j < i
        <5>1. j \in 1..(n - 1) /\ acceptance'[j] = b
          BY <2>1, <2>7, <4>1, <4>3
        <5> QED
          BY <2>8, <5>1 DEF Range
      <4>4. CASE j > i
        <5>1. j - 1 \in 1..(n - 1) /\ acceptance'[j - 1] = b
          BY <2>1, <2>7, <4>1, <4>4
        <5> QED
          BY <2>8, <5>1 DEF Range
      <4> QED
        BY <2>1, <4>2, <4>3, <4>4
    <3> QED
      BY <2>8, <3>1, <3>2 DEF Range
  <2>11. Distinct(acceptance')
    <3> SUFFICES ASSUME NEW h \in 1..(n - 1), NEW j \in 1..(n - 1),
                        acceptance'[h] = acceptance'[j]
                 PROVE  h = j
      BY <2>8 DEF Distinct
    <3> QED
      BY <2>1, <2>7, <2>9
  <2> QED
    BY <2>7, <2>10, <2>11
<1> QED
  BY <1>1, <1>2

LEMMA AddProps ==
    ASSUME acceptance \in Seq(Accs), Distinct(acceptance),
           NEW a \in Accs, AddAcceptance(a)
    PROVE  /\ acceptance' \in Seq(Accs)
           /\ Range(acceptance') = Range(acceptance) \cup {a}
           /\ Distinct(acceptance')
<1>1. CASE a \in Range(acceptance)
  BY <1>1 DEF AddAcceptance
<1>2. CASE a \notin Range(acceptance)
  <2>1. acceptance' = Append(acceptance, a)
    BY <1>2 DEF AddAcceptance
  <2>2. Len(acceptance) \in Nat /\ DOMAIN acceptance = 1..Len(acceptance)
    BY LenProperties
  <2>3. /\ acceptance' \in Seq(Accs)
        /\ Len(acceptance') = Len(acceptance) + 1
        /\ \A j \in 1..Len(acceptance) : acceptance'[j] = acceptance[j]
        /\ acceptance'[Len(acceptance) + 1] = a
    BY <2>1, AppendProperties
  <2>4. DOMAIN acceptance' = 1..(Len(acceptance) + 1)
    BY <2>3, LenProperties
  <2>5. Distinct(acceptance')
    <3> SUFFICES ASSUME NEW h \in 1..(Len(acceptance) + 1),
                        NEW j \in 1..(Len(acceptance) + 1),
                        acceptance'[h] = acceptance'[j]
                 PROVE  h = j
      BY <2>4 DEF Distinct
    <3> QED
      BY <1>2, <2>2, <2>3 DEF Distinct, Range
  <2>6. Range(acceptance') = Range(acceptance) \cup {a}
    BY <2>2, <2>3, <2>4 DEF Range
  <2> QED
    BY <2>3, <2>5, <2>6
<1> QED
  BY <1>1, <1>2

\* What iso_abbau passes over belongs to the vector; of two it passes over none.
LEMMA PassedOverProps ==
    ASSUME NEW q \in Seq(Accs), Distinct(q), Len(q) > 0
    PROVE  /\ PassedOver(q) \in Seq(Accs)
           /\ Range(PassedOver(q)) \subseteq Range(q)
           /\ Distinct(PassedOver(q))
           /\ Len(q) <= 2 => Range(PassedOver(q)) = {}
<1> DEFINE n == Len(q)
           m == (n - 1) \div 2
           p == [i \in 1..m |-> q[2 * i]]
<1>1. n \in Nat /\ n > 0 /\ DOMAIN q = 1..n /\ p = PassedOver(q)
  BY LenProperties DEF PassedOver
<1>2. m \in Nat /\ 2 * m <= n - 1
  BY <1>1
<1>3. n <= 2 => m = 0
  BY <1>1
<1> HIDE DEF m, n
<1>4. \A i \in 1..m : 2 * i \in 1..n
  BY <1>1, <1>2
<1>5. \A i \in 1..m : p[i] = q[2 * i] /\ q[2 * i] \in Accs
  BY <1>1, <1>4, ElementOfSeq DEF n
<1>6. p \in [1..m -> Accs]
  BY <1>5
<1>7. p \in Seq(Accs)
  BY <1>2, <1>6, SeqDef
<1>8. DOMAIN p = 1..m
  OBVIOUS
<1> HIDE DEF p
<1>9. Range(p) \subseteq Range(q)
  BY <1>1, <1>4, <1>5, <1>8 DEF Range
<1>10. Distinct(p)
  <2> SUFFICES ASSUME NEW i \in 1..m, NEW j \in 1..m, p[i] = p[j] PROVE i = j
    BY <1>8 DEF Distinct
  <2>1. q[2 * i] = q[2 * j] /\ 2 * i \in 1..n /\ 2 * j \in 1..n
    BY <1>4, <1>5
  <2>2. 2 * i = 2 * j
    BY <1>1, <2>1 DEF Distinct
  <2> QED
    BY <1>2, <2>2
<1>11. n <= 2 => Range(p) = {}
  BY <1>3, <1>8 DEF Range
<1> QED
  BY <1>1, <1>7, <1>9, <1>10, <1>11 DEF n

LEMMA AtMostTwoInVector ==
    ASSUME AtMostTwo, NEW q \in Seq(Accs), Distinct(q)
    PROVE  Len(q) <= 2
<1> SUFFICES ASSUME Len(q) > 2 PROVE FALSE
  BY LenProperties
<1>1. Len(q) \in Nat /\ DOMAIN q = 1..Len(q)
  BY LenProperties
<1>2. 1 \in DOMAIN q /\ 2 \in DOMAIN q /\ 3 \in DOMAIN q
  BY <1>1
<1>3. q[1] \in Accs /\ q[2] \in Accs /\ q[3] \in Accs
  BY <1>1, <1>2, ElementOfSeq
<1>4. q[1] # q[2] /\ q[1] # q[3] /\ q[2] # q[3]
  BY <1>2 DEF Distinct
<1> QED
  BY <1>3, <1>4 DEF AtMostTwo

\* iso_abbau leaves a vector that matches the objects; of two at most it
\* leaves none.
LEMMA AbbauAcceptances ==
    ASSUME AccTyped, VectorMatches, IsoAbbau
    PROVE  /\ AccTyped'
           /\ VectorMatches'
           /\ Len(acceptance) <= 2 => \A a \in Accs : phase'[a] # "ours"
<1> DEFINE kept == IF CheckAcceptance THEN PassedOver(acceptance) ELSE <<>>
           dead == Range(acceptance) \ Range(kept)
<1>1. /\ acceptance' = kept
      /\ phase' = [a \in Accs |-> IF a \in dead THEN "free" ELSE phase[a]]
      /\ gone' = gone \ dead
  BY DEF IsoAbbau
<1>2. acceptance \in Seq(Accs) /\ Distinct(acceptance)
  BY DEF AccTyped, VectorMatches, Distinct
<1>3. /\ kept \in Seq(Accs)
      /\ Range(kept) \subseteq Range(acceptance)
      /\ Distinct(kept)
      /\ Len(acceptance) <= 2 => Range(kept) = {}
  <2>1. CASE CheckAcceptance
    <3>1. Len(acceptance) > 0
      BY <1>2, <2>1, EmptySeq, LenProperties DEF CheckAcceptance
    <3> QED
      BY <1>2, <2>1, <3>1, PassedOverProps
  <2>2. CASE ~CheckAcceptance
    BY <2>2 DEF Range, Distinct
  <2> QED
    BY <2>1, <2>2
<1> HIDE DEF kept
<1>4. AccTyped'
  BY <1>1, <1>3 DEF AccTyped
<1>5. \A a \in Accs : phase'[a] = "ours" <=> a \in Range(kept)
  BY <1>1, <1>3 DEF VectorMatches, Associated
<1>6. Range(kept) \subseteq Accs
  BY <1>3, ElementOfSeq, LenProperties DEF Range
<1>7. VectorMatches'
  BY <1>1, <1>3, <1>5, <1>6 DEF VectorMatches, Associated, Distinct
<1>8. Len(acceptance) <= 2 => \A a \in Accs : phase'[a] # "ours"
  BY <1>3, <1>5
<1> QED
  BY <1>4, <1>7, <1>8

LEMMA DeleteProps ==
    ASSUME AccTyped, VectorMatches, NEW a \in Accs, DeleteAcceptance(a)
    PROVE  AccTyped' /\ VectorMatches'
<1>1. acceptance \in Seq(Accs) /\ Distinct(acceptance)
  BY DEF AccTyped, VectorMatches, Distinct
<1>2. /\ acceptance' \in Seq(Accs)
      /\ Range(acceptance') = Range(acceptance) \ {a}
      /\ Distinct(acceptance')
  BY <1>1, RemoveProps DEF DeleteAcceptance
<1>3. phase' = [phase EXCEPT ![a] = "free"] /\ gone' = gone \ {a}
  BY DEF DeleteAcceptance
<1>4. AccTyped'
  BY <1>2, <1>3 DEF AccTyped
<1>5. VectorMatches'
  BY <1>2, <1>3 DEF AccTyped, VectorMatches, Associated, Distinct
<1> QED
  BY <1>4, <1>5

LEMMA JoinProps ==
    ASSUME AccTyped, VectorMatches, NEW a \in Accs, AddAcceptance(a),
           phase' = [phase EXCEPT ![a] = "ours"], gone' = gone
    PROVE  AccTyped' /\ VectorMatches'
<1>1. acceptance \in Seq(Accs) /\ Distinct(acceptance)
  BY DEF AccTyped, VectorMatches, Distinct
<1>2. /\ acceptance' \in Seq(Accs)
      /\ Range(acceptance') = Range(acceptance) \cup {a}
      /\ Distinct(acceptance')
  BY <1>1, AddProps
<1>3. AccTyped'
  BY <1>2 DEF AccTyped
<1>4. VectorMatches'
  BY <1>2 DEF AccTyped, VectorMatches, Associated, Distinct
<1> QED
  BY <1>3, <1>4

-----------------------------------------------------------------------------
(* A step is one of the actions; proofs by cases start from here. *)

LEMMA Cases ==
    ASSUME [Next]_vars
    PROVE  \/ RunData
           \/ StopData
           \/ Disconnect
           \/ \E x \in BOOLEAN : Data(x)
           \/ \E x \in BOOLEAN : ConnectRequest(x)
           \/ \E x \in BOOLEAN : AkzeptiereBeschleunigt(x)
           \/ OwnWriteEvent
           \/ OwnReadEvent
           \/ \E x \in BOOLEAN : ConfirmReceived(x)
           \/ ErrorReceived
           \/ \E a \in Accs : Accept(a)
           \/ \E a \in Accs, x \in BOOLEAN : RequestReceived(a, x)
           \/ \E a \in Accs : DataRefused(a)
           \/ \E a \in Accs : ErrorFromAccepted(a)
           \/ \E a \in Accs : AcceptedReadEvent(a)
           \/ \E f \in Fds : ConnectDone(f) \/ PeerLeaves(f)
           \/ \E a \in Accs : AcceptedPeerLeaves(a)
           \/ UNCHANGED vars
BY DEF Next, TopMan, EventLoop, Environment

\* The acceptances.
LEMMA AcceptancesStep ==
    ASSUME AccTyped, VectorMatches, [Next]_vars
    PROVE  AccTyped' /\ VectorMatches'
<1>1. CASE IsoAbbau
  BY <1>1, AbbauAcceptances
<1>2. CASE UNCHANGED accVars
  BY <1>2 DEF accVars, AccTyped, VectorMatches, Associated
<1>3. ASSUME NEW a \in Accs, DeleteAcceptance(a) PROVE AccTyped' /\ VectorMatches'
  BY <1>3, DeleteProps
<1>4. ASSUME NEW a \in Accs, Accept(a) PROVE AccTyped' /\ VectorMatches'
  BY <1>4 DEF Accept, Live, AccTyped, VectorMatches, Associated
<1>5. ASSUME NEW a \in Accs, NEW x \in BOOLEAN, RequestReceived(a, x)
      PROVE  AccTyped' /\ VectorMatches'
  <2>1. CASE Confirms
    <3>1. AddAcceptance(a) /\ phase' = [phase EXCEPT ![a] = "ours"] /\ gone' = gone
      BY <1>5, <2>1 DEF RequestReceived
    <3> QED
      BY <3>1, JoinProps
  <2>2. CASE ~Confirms
    BY <1>3, <1>5, <2>2 DEF RequestReceived
  <2> QED
    BY <2>1, <2>2
<1>6. ASSUME NEW a \in Accs, AcceptedPeerLeaves(a) PROVE AccTyped' /\ VectorMatches'
  BY <1>6 DEF AcceptedPeerLeaves, AccTyped, VectorMatches, Associated
<1>7. \/ IsoAbbau
      \/ UNCHANGED accVars
      \/ \E a \in Accs : DeleteAcceptance(a) \/ Accept(a) \/ AcceptedPeerLeaves(a)
      \/ \E a \in Accs, x \in BOOLEAN : RequestReceived(a, x)
  BY Cases DEF RunData, StopData, Disconnect, Data, ConnectRequest,
     AkzeptiereBeschleunigt, OwnWriteEvent, OwnReadEvent, ConfirmReceived,
     ErrorReceived, DataRefused, ErrorFromAccepted, AcceptedReadEvent,
     ConnectDone, PeerLeaves, KernelStep, vars
<1> QED
  BY <1>1, <1>2, <1>3, <1>4, <1>5, <1>6, <1>7

\* The own connection and its queue.
LEMMA OwnCases ==
    ASSUME [Next]_vars
    PROVE  \/ IsoAbbau
           \/ \E k \in Kinds : SendData(k)
           \/ OwnWriteEvent
           \/ OwnReadEvent
           \/ /\ UNCHANGED <<conSndState, fd, reg, asked, bufQueue>>
              /\ \E f \in Fds : \E from, to \in SockStates \ {"free"} :
                   sock[f] = from /\ sock' = [sock EXCEPT ![f] = to]
           \/ UNCHANGED <<ownVars, bufQueue>>
<1>1. \A x \in BOOLEAN : Data(x) => \E k \in Kinds : SendData(k)
  BY DEF Data, DataKind, Kinds
<1>2. \A x \in BOOLEAN : ConnectRequest(x) =>
        (\E k \in Kinds : SendData(k)) \/ UNCHANGED <<ownVars, bufQueue>>
  BY DEF ConnectRequest, Kinds, Requests
<1>3. \A f \in Fds : ConnectDone(f) \/ PeerLeaves(f) =>
        /\ UNCHANGED <<conSndState, fd, reg, asked, bufQueue>>
        /\ \E from, to \in SockStates \ {"free"} :
              sock[f] = from /\ sock' = [sock EXCEPT ![f] = to]
  BY DEF ConnectDone, PeerLeaves, KernelStep, SockStates
<1> QED
  BY <1>1, <1>2, <1>3, Cases DEF RunData, StopData, Disconnect,
     AkzeptiereBeschleunigt, ConfirmReceived, ErrorReceived, Accept,
     RequestReceived, DataRefused, ErrorFromAccepted, AcceptedReadEvent,
     AcceptedPeerLeaves, vars

LEMMA OwnTypeStep ==
    ASSUME OwnTyped, BufTyped, [Next]_vars
    PROVE  OwnTyped' /\ BufTyped'
<1>1. CASE IsoAbbau
  BY <1>1, CloseSocketType DEF IsoAbbau, OwnTyped, BufTyped
<1>2. ASSUME NEW k \in Kinds, SendData(k) PROVE OwnTyped' /\ BufTyped'
  BY <1>2, SendDataType
<1>3. CASE OwnWriteEvent
  <2>1. BufTyped'
    <3>1. bufQueue' = <<>>
      BY <1>3 DEF OwnWriteEvent, Drained
    <3>2. <<>> \in Seq(Kinds) /\ Len(<<>>) = 0
      BY EmptySeq
    <3>3. Len(bufQueue') <= MaxBuf
      BY <3>1, <3>2, ConstantTypes
    <3> QED
      BY <3>1, <3>2, <3>3 DEF BufTyped
  <2>2. CASE sock[fd] = "refused"
    <3>1. sock' \in [Fds -> SockStates]
      BY <1>3, <2>2, CloseSocketType DEF OwnWriteEvent, OwnTyped
    <3> QED
      BY <1>3, <2>1, <2>2, <3>1 DEF OwnWriteEvent, OwnTyped
  <2>3. CASE sock[fd] # "refused"
    <3>1. asked' \subseteq Requests
      BY <1>3, <2>3, SendsType DEF OwnWriteEvent, BufTyped
    <3>2. reg' \subseteq Fds \X Events
      <4>1. <<fd, "BufferEmpty">> \in Fds \X Events
        BY <1>3 DEF OwnWriteEvent, OwnTyped
      <4>2. <<fd, "DataWaiting">> \in Fds \X Events
        BY <4>1 DEF Events
      <4> QED
        BY <1>3, <2>3, <4>2 DEF OwnWriteEvent, OwnTyped
    <3> QED
      BY <1>3, <2>1, <2>3, <3>1, <3>2 DEF OwnWriteEvent, OwnTyped
  <2> QED
    BY <2>2, <2>3
<1>4. CASE OwnReadEvent
  BY <1>4, CloseSocketType DEF OwnReadEvent, OwnTyped, BufTyped
<1>5. CASE /\ UNCHANGED <<conSndState, fd, reg, asked, bufQueue>>
           /\ \E f \in Fds : \E from, to \in SockStates \ {"free"} :
                sock[f] = from /\ sock' = [sock EXCEPT ![f] = to]
  BY <1>5 DEF OwnTyped, BufTyped
<1>6. CASE UNCHANGED <<ownVars, bufQueue>>
  BY <1>6 DEF OwnTyped, BufTyped, ownVars
<1> QED
  BY <1>1, <1>2, <1>3, <1>4, <1>5, <1>6, OwnCases

\* Flags and states.
LEMMA FlagsStep ==
    ASSUME ExpTyped, TopTyped, [Next]_vars
    PROVE  ExpTyped' /\ TopTyped'
<1> USE DEF ExpTyped, TopTyped, topVars, expVars, ReportUp, ReportDown, Report
<1>1. CASE RunData
  BY <1>1 DEF RunData
<1>2. ASSUME IsoAbbau PROVE told' \in {"hergestellt", "beendet", "lost"} /\ crashed' \in BOOLEAN /\ ExpTyped'
  BY <1>2 DEF IsoAbbau
<1>3. CASE StopData
  BY <1>2, <1>3 DEF StopData
<1>4. CASE Disconnect
  BY <1>2, <1>4 DEF Disconnect
<1>5. ASSUME NEW x \in BOOLEAN, Data(x) PROVE ExpTyped' /\ TopTyped'
  BY <1>5 DEF Data, ReceiveData
<1>6. ASSUME NEW x \in BOOLEAN, ConnectRequest(x) PROVE ExpTyped' /\ TopTyped'
  BY <1>6 DEF ConnectRequest, ReceiveData
<1>7. ASSUME NEW x \in BOOLEAN, AkzeptiereBeschleunigt(x) PROVE ExpTyped' /\ TopTyped'
  BY <1>7 DEF AkzeptiereBeschleunigt, ReceiveData
<1>8. CASE OwnWriteEvent
  BY <1>8 DEF OwnWriteEvent
<1>9. CASE OwnReadEvent
  BY <1>9 DEF OwnReadEvent
<1>10. ASSUME NEW x \in BOOLEAN, ConfirmReceived(x) PROVE ExpTyped' /\ TopTyped'
  BY <1>10 DEF ConfirmReceived
<1>11. CASE ErrorReceived
  BY <1>11 DEF ErrorReceived
<1>12. ASSUME NEW a \in Accs, NEW x \in BOOLEAN, RequestReceived(a, x)
       PROVE  ExpTyped' /\ TopTyped'
  BY <1>12 DEF RequestReceived
<1>13. ASSUME NEW a \in Accs,
              Accept(a) \/ DataRefused(a) \/ ErrorFromAccepted(a)
                \/ AcceptedReadEvent(a) \/ AcceptedPeerLeaves(a)
       PROVE  ExpTyped' /\ TopTyped'
  BY <1>13 DEF Accept, DataRefused, ErrorFromAccepted, AcceptedReadEvent,
     AcceptedPeerLeaves
<1>14. ASSUME NEW f \in Fds, ConnectDone(f) \/ PeerLeaves(f)
       PROVE  ExpTyped' /\ TopTyped'
  BY <1>14 DEF ConnectDone, PeerLeaves, KernelStep
<1>15. CASE UNCHANGED vars
  BY <1>15 DEF vars
<1> QED
  BY <1>1, <1>3, <1>4, <1>5, <1>6, <1>7, <1>8, <1>9, <1>10, <1>11, <1>12, <1>13,
     <1>14, <1>15, Cases

-----------------------------------------------------------------------------
(* Handles and registrations. *)

\* The same without CASE
DisciplineByState ==
    /\ \A f \in Fds : sock[f] # "free" <=> f = fd /\ conSndState # "Closed"
    /\ conSndState = "Closed" => reg = {}
    /\ conSndState = "Connecting" => reg = {<<fd, "BufferEmpty">>}
    /\ conSndState = "Connected" => reg = {<<fd, "DataWaiting">>}

LEMMA DisciplineParts ==
    ASSUME conSndState \in {"Closed", "Connecting", "Connected"}
    PROVE  SocketDiscipline <=> DisciplineByState
BY DEF SocketDiscipline, DisciplineByState

LEMMA DisciplineStep ==
    ASSUME OwnTyped, DisciplineByState, NoneWaitsBesideOwn, [Next]_vars
    PROVE  DisciplineByState' /\ NoneWaitsBesideOwn'
<1> USE ConstantTypes
<1>1. CASE IsoAbbau
  <2>1. reg \subseteq {fd} \X Events
    BY DEF DisciplineByState, OwnTyped, Events
  <2>2. reg' = {} /\ conSndState' = "Closed" /\ fd' = fd
    BY <1>1, <2>1 DEF IsoAbbau
  <2>3. \A f \in Fds : sock'[f] = "free"
    BY <1>1 DEF IsoAbbau, CloseSocket, DisciplineByState
  <2> QED
    BY <2>2, <2>3 DEF DisciplineByState, NoneWaitsBesideOwn, IsConnected
<1>2. ASSUME NEW k \in Kinds, SendData(k)
      PROVE  DisciplineByState' /\ NoneWaitsBesideOwn'
  <2>1. CASE UNCHANGED <<conSndState, fd, sock, reg>>
    <3>1. DisciplineByState'
      BY <2>1 DEF DisciplineByState
    <3>2. NoneWaitsBesideOwn'
      BY <1>2, <2>1 DEF SendData, NoneWaitsBesideOwn, IsConnected
    <3> QED
      BY <3>1, <3>2
  <2>2. CASE ~UNCHANGED <<conSndState, fd, sock, reg>>
    <3>1. conSndState = "Closed" /\ Connect
      BY <1>2, <2>2 DEF SendData, ownVars
    <3>2. PICK f \in Fds :
            /\ sock[f] = "free"
            /\ fd' = f
            /\ conSndState' = "Connecting"
            /\ \E s \in {"connecting"} \cup IF FailsAtOnce THEN {"dead"} ELSE {} :
                 sock' = [sock EXCEPT ![f] = s]
            /\ reg' = reg \cup {<<f, "BufferEmpty">>}
      BY <2>2, <3>1 DEF Connect, AwaitConnect, ownVars
    <3>3. \A g \in Fds : sock[g] = "free"
      BY <3>1 DEF DisciplineByState
    <3>4. \A g \in Fds : sock'[g] # "free" <=> g = f
      BY <3>2, <3>3 DEF OwnTyped
    <3>5. reg' = {<<f, "BufferEmpty">>}
      BY <3>1, <3>2 DEF DisciplineByState
    <3> QED
      BY <3>2, <3>4, <3>5 DEF DisciplineByState, NoneWaitsBesideOwn, IsConnected
  <2> QED
    BY <2>1, <2>2
<1>3. CASE OwnWriteEvent
  <2>1. <<fd, "BufferEmpty">> \in reg
    BY <1>3 DEF OwnWriteEvent
  <2>2. conSndState = "Connecting" /\ reg = {<<fd, "BufferEmpty">>}
    BY <2>1 DEF OwnTyped, DisciplineByState
  <2>3. CASE sock[fd] = "refused"
    <3>1. reg' = {} /\ conSndState' = "Closed" /\ fd' = fd /\ bufQueue' = <<>>
      BY <1>3, <2>2, <2>3 DEF OwnWriteEvent
    <3>2. \A f \in Fds : sock'[f] = "free"
      BY <1>3, <2>3 DEF OwnWriteEvent, CloseSocket, DisciplineByState
    <3> QED
      BY <3>1, <3>2 DEF DisciplineByState, NoneWaitsBesideOwn, IsConnected
  <2>4. CASE sock[fd] # "refused"
    <3>1. /\ reg' = {<<fd, "DataWaiting">>} /\ conSndState' = "Connected"
          /\ fd' = fd /\ sock' = sock /\ bufQueue' = <<>>
      BY <1>3, <2>2, <2>4 DEF OwnWriteEvent, Drained
    <3> QED
      BY <2>2, <3>1 DEF DisciplineByState, NoneWaitsBesideOwn, IsConnected
  <2> QED
    BY <2>3, <2>4
<1>4. CASE OwnReadEvent
  <2>1. reg \subseteq {fd} \X Events
    BY DEF DisciplineByState, OwnTyped, Events
  <2>2. reg' = {} /\ conSndState' = "Closed" /\ fd' = fd /\ bufQueue' = bufQueue
    BY <1>4, <2>1 DEF OwnReadEvent
  <2>3. \A f \in Fds : sock'[f] = "free"
    BY <1>4 DEF OwnReadEvent, CloseSocket, DisciplineByState
  <2> QED
    BY <2>2, <2>3 DEF DisciplineByState, NoneWaitsBesideOwn, IsConnected
<1>5. CASE /\ UNCHANGED <<conSndState, fd, reg, asked, bufQueue>>
           /\ \E f \in Fds : \E from, to \in SockStates \ {"free"} :
                sock[f] = from /\ sock' = [sock EXCEPT ![f] = to]
  <2>1. PICK f \in Fds, from \in SockStates \ {"free"}, to \in SockStates \ {"free"} :
          sock[f] = from /\ sock' = [sock EXCEPT ![f] = to]
    BY <1>5
  <2>2. \A g \in Fds : sock'[g] # "free" <=> sock[g] # "free"
    BY <2>1 DEF OwnTyped
  <2> QED
    BY <1>5, <2>2 DEF DisciplineByState, NoneWaitsBesideOwn, IsConnected
<1>6. CASE UNCHANGED <<ownVars, bufQueue>>
  BY <1>6 DEF DisciplineByState, NoneWaitsBesideOwn, IsConnected, ownVars
<1> QED
  BY <1>1, <1>2, <1>3, <1>4, <1>5, <1>6, OwnCases

-----------------------------------------------------------------------------
(* A stopped module. *)

LEMMA PausedStep ==
    ASSUME AccTyped, VectorMatches, OwnTyped, TopTyped, DisciplineByState, StopsFew,
           PausedIsCutOff, [Next]_vars
    PROVE  PausedIsCutOff'
<1> USE DEF PausedIsCutOff, IsRunning
<1>1. CASE StopData
  <2>0. IsoAbbau /\ Len(acceptance) <= 2
    BY <1>1 DEF StopData, StopsFew
  <2>1. \A a \in Accs : phase'[a] # "ours"
    BY <2>0, AbbauAcceptances
  <2>2. conSndState' = "Closed"
    BY <2>0 DEF IsoAbbau
  <2>3. ASSUME ~crashed PROVE told' # "hergestellt"
    BY <2>0, <2>3 DEF IsoAbbau, ReportDown, Report, TopTyped
  <2>4. ASSUME crashed PROVE PausedIsCutOff'
    <3>1. UNCHANGED vars
      BY <2>4 DEF Next
    <3> QED
      BY <2>4, <3>1 DEF vars
  <2> QED
    BY <2>1, <2>2, <2>3, <2>4 DEF Associated
<1>2. CASE IsRunning' = TRUE
  BY <1>2
<1>3. CASE UNCHANGED vars
  BY <1>3 DEF vars, topVars, ownVars, accVars, Associated
<1>4. CASE ~crashed /\ ~IsRunning /\ ~StopData /\ [Next]_vars /\ ~UNCHANGED vars
             /\ connState' = connState
  <2>1. conSndState = "Closed" /\ reg = {} /\ told # "hergestellt"
        /\ \A a \in Accs : ~Associated(a)
    BY <1>4 DEF DisciplineByState
  <2>2. ASSUME NEW a \in Accs, NEW x \in BOOLEAN, RequestReceived(a, x)
        PROVE  PausedIsCutOff'
    <3>1. DeleteAcceptance(a) /\ told' = told /\ conSndState' = conSndState
      BY <1>4, <2>2 DEF RequestReceived, Confirms, ReportUp, Report, ownVars
    <3> QED
      BY <2>1, <3>1 DEF DeleteAcceptance, AccTyped, Associated
  <2>3. ASSUME NEW a \in Accs, Accept(a) PROVE PausedIsCutOff'
    BY <2>1, <2>3 DEF Accept, AccTyped, Associated, ownVars
  <2>4. ASSUME NEW a \in Accs, DataRefused(a) \/ AcceptedReadEvent(a)
        PROVE  PausedIsCutOff'
    BY <2>1, <2>4 DEF DataRefused, AcceptedReadEvent, DeleteAcceptance, AccTyped,
       Associated, ownVars
  <2>5. ASSUME NEW a \in Accs, ErrorFromAccepted(a) PROVE PausedIsCutOff'
    BY <2>1, <2>5 DEF ErrorFromAccepted
  <2>6. ASSUME NEW a \in Accs, AcceptedPeerLeaves(a) PROVE PausedIsCutOff'
    BY <2>1, <2>6 DEF AcceptedPeerLeaves, Associated, ownVars
  <2>7. ASSUME NEW f \in Fds, ConnectDone(f) \/ PeerLeaves(f) PROVE PausedIsCutOff'
    BY <2>1, <2>7 DEF ConnectDone, PeerLeaves, KernelStep, Associated, accVars
  <2> QED
    BY <1>4, <2>1, <2>2, <2>3, <2>4, <2>5, <2>6, <2>7, Cases DEF RunData,
       Disconnect, Data, ConnectRequest, AkzeptiereBeschleunigt, ReceiveData,
       OwnWriteEvent, OwnReadEvent, ConfirmReceived, ErrorReceived
<1>5. \/ StopData \/ IsRunning' \/ UNCHANGED vars \/ connState' = connState
  BY Cases DEF RunData, Disconnect, Data, ConnectRequest,
     AkzeptiereBeschleunigt, ReceiveData, OwnWriteEvent, OwnReadEvent,
     ConfirmReceived, ErrorReceived, Accept, RequestReceived, DataRefused,
     ErrorFromAccepted, AcceptedReadEvent, ConnectDone, PeerLeaves, KernelStep,
     AcceptedPeerLeaves, topVars
<1>6. CASE crashed
  BY <1>3, <1>6 DEF Next
<1>7. CASE IsRunning /\ connState' = connState
  BY <1>7
<1> QED
  BY <1>1, <1>2, <1>3, <1>4, <1>5, <1>6, <1>7

-----------------------------------------------------------------------------
(* The own connection implements Connection. *)

Held == {f \in Fds : sock[f] # "free"}

HeldByState ==
    /\ conSndState \in {"Closed", "Connecting", "Connected"}
    /\ conSndState = "Closed" => Held = {} /\ reg = {}
    /\ conSndState = "Connecting" => Held = {fd} /\ reg = {<<fd, "BufferEmpty">>}
    /\ conSndState = "Connected" => Held = {fd} /\ reg = {<<fd, "DataWaiting">>}

\* SocketDiscipline in the terms of Connection.
LEMMA DisciplineHeld ==
    ASSUME OwnTyped, SocketDiscipline
    PROVE  HeldByState
<1>1. DisciplineByState
  BY DisciplineParts DEF OwnTyped
<1>2. conSndState # "Closed" => fd \in Fds
  <2>1. reg \subseteq Fds \X Events
    BY DEF OwnTyped
  <2>2. conSndState # "Closed" => \E e : <<fd, e>> \in reg
    BY <1>1 DEF OwnTyped, DisciplineByState
  <2> QED
    BY <2>1, <2>2
<1> QED
  BY <1>1, <1>2 DEF OwnTyped, DisciplineByState, HeldByState, Held

LEMMA OwnStep ==
    ASSUME HeldByState, HeldByState', [Next]_vars
    PROVE  \/ Own!ConnectionNext
           \/ UNCHANGED <<conSndState, fd, Held, reg>>
<1> DEFINE Step == \/ Own!ConnectionNext
                   \/ UNCHANGED <<conSndState, fd, Held, reg>>
<1> USE DEF HeldByState
<1>1. ASSUME conSndState # "Closed", conSndState' = "Closed", fd' = fd
      PROVE  Step
  <2> HIDE DEF Held
  <2>1. Own!End
    BY <1>1 DEF Own!End, Held
  <2> QED
    BY <2>1 DEF Own!ConnectionNext
<1>2. ASSUME conSndState' = conSndState, fd' = fd
      PROVE  Step
  BY <1>2
<1>3. CASE IsoAbbau
  BY <1>1, <1>2, <1>3 DEF IsoAbbau
<1>4. ASSUME NEW k \in Kinds, SendData(k) PROVE Step
  <2>1. CASE UNCHANGED <<conSndState, fd>>
    BY <1>2, <2>1
  <2>2. CASE ~UNCHANGED <<conSndState, fd>>
    <3>1. conSndState = "Closed" /\ Connect
      BY <1>4, <2>2 DEF SendData, ownVars
    <3>2. PICK f \in Fds : fd' = f /\ conSndState' = "Connecting"
      BY <2>2, <3>1 DEF Connect, ownVars
    <3>3. Own!Begin(f)
      BY <3>1, <3>2 DEF Own!Begin, Own!Opened, Held
    <3> QED
      BY <3>3 DEF Own!ConnectionNext
  <2> QED
    BY <2>1, <2>2
<1>5. CASE OwnWriteEvent
  <2>1. fd' = fd /\ conSndState = "Connecting" /\ conSndState' \in {"Closed", "Connected"}
    BY <1>5 DEF OwnWriteEvent
  <2>2. CASE conSndState' = "Connected"
    <3>1. Own!Establish
      BY <2>1, <2>2 DEF Own!Establish, Own!Opened, Own!Arrived, Held
    <3> QED
      BY <3>1 DEF Own!ConnectionNext
  <2> QED
    BY <1>1, <2>1, <2>2
<1>6. CASE OwnReadEvent
  BY <1>1, <1>2, <1>6 DEF OwnReadEvent
<1>7. CASE UNCHANGED <<conSndState, fd>>
  BY <1>2, <1>7
<1> QED
  BY OwnCases, <1>3, <1>4, <1>5, <1>6, <1>7 DEF ownVars

-----------------------------------------------------------------------------
(* No associated peer is dropped in silence. *)

\* A stopped module has reported the end of everything, or tried to.
SilentWhenPaused == ~IsRunning => told # "hergestellt"

LEMMA SilentStep ==
    ASSUME TopTyped, SilentWhenPaused, [Next]_vars
    PROVE  SilentWhenPaused'
<1> USE DEF SilentWhenPaused, IsRunning, TopTyped
<1>1. ASSUME IsoAbbau PROVE told' # "hergestellt"
  BY <1>1 DEF IsoAbbau, ReportDown, Report
<1>2. CASE RunData
  BY <1>2 DEF RunData
<1>3. CASE StopData \/ Disconnect
  BY <1>1, <1>3 DEF StopData, Disconnect
<1>4. ASSUME connState' = connState,
             \/ UNCHANGED told \/ ReportUp \/ ReportDown
      PROVE  SilentWhenPaused'
  BY <1>4 DEF ReportUp, ReportDown, Report
<1>5. \/ RunData \/ StopData \/ Disconnect
      \/ connState' = connState /\ (UNCHANGED told \/ ReportUp \/ ReportDown)
  BY Cases DEF Data, ConnectRequest, AkzeptiereBeschleunigt, ReceiveData,
     OwnWriteEvent, OwnReadEvent, ConfirmReceived, ErrorReceived, Accept,
     RequestReceived, DataRefused, ErrorFromAccepted, AcceptedReadEvent,
     ConnectDone, PeerLeaves, KernelStep, AcceptedPeerLeaves, topVars, vars
<1> QED
  BY <1>2, <1>3, <1>4, <1>5

LEMMA DropStep ==
    ASSUME AccTyped, TopTyped, SilentWhenPaused, [Next]_vars,
           NEW b \in Accs, Associated(b), phase'[b] # "ours"
    PROVE  told' # "hergestellt"
<1>1. CASE IsoAbbau
  BY <1>1 DEF IsoAbbau, ReportDown, Report, SilentWhenPaused
<1>2. ASSUME NEW a \in Accs, NEW x \in BOOLEAN, RequestReceived(a, x) PROVE told' # "hergestellt"
  <2>1. ~Confirms /\ ReportUp
    BY <1>2 DEF RequestReceived, AccTyped, Associated
  <2> QED
    BY <2>1 DEF Confirms, ReportUp, Report, SilentWhenPaused
<1>3. ASSUME NEW a \in Accs, DataRefused(a) PROVE told' # "hergestellt"
  <2>1. a = b
    BY <1>3 DEF DataRefused, DeleteAcceptance, AccTyped, Associated
  <2> QED
    BY <1>3, <2>1 DEF DataRefused, AcceptsData, SilentWhenPaused
<1>4. ASSUME NEW a \in Accs, AcceptedReadEvent(a) PROVE told' # "hergestellt"
  <2>1. a = b
    BY <1>4 DEF AcceptedReadEvent, DeleteAcceptance, AccTyped, Associated
  <2> QED
    BY <1>4, <2>1 DEF AcceptedReadEvent, ReportDown, Report, SilentWhenPaused
<1>5. ASSUME NEW a \in Accs, Accept(a) PROVE FALSE
  BY <1>5 DEF Accept, Live, AccTyped, Associated
<1>6. CASE phase' = phase
  BY <1>6 DEF Associated
<1>7. \/ IsoAbbau
      \/ \E a \in Accs, x \in BOOLEAN : RequestReceived(a, x)
      \/ \E a \in Accs : DataRefused(a) \/ AcceptedReadEvent(a) \/ Accept(a)
      \/ phase' = phase
  BY Cases DEF RunData, StopData, Disconnect, Data, ConnectRequest,
     AkzeptiereBeschleunigt, OwnWriteEvent, OwnReadEvent, ConfirmReceived,
     ErrorReceived, ErrorFromAccepted, ConnectDone, PeerLeaves, KernelStep,
     AcceptedPeerLeaves, accVars, vars
<1> QED
  BY <1>1, <1>2, <1>3, <1>4, <1>5, <1>6, <1>7

-----------------------------------------------------------------------------
LEMMA InductiveInit == Init => Inductive
<1> SUFFICES ASSUME Init PROVE Inductive
  OBVIOUS
<1> USE ConstantTypes DEF Init
<1>1. OwnTyped
  BY DEF OwnTyped, SockStates, Kinds, Requests
<1>2. BufTyped
  BY EmptySeq DEF BufTyped
<1>3. AccTyped
  BY EmptySeq DEF AccTyped
<1>4. ExpTyped /\ TopTyped
  BY DEF ExpTyped, TopTyped
<1>5. VectorMatches
  BY DEF VectorMatches, Associated, Range
<1>6. DisciplineByState /\ NoneWaitsBesideOwn
  BY DEF DisciplineByState, NoneWaitsBesideOwn
<1>7. SocketDiscipline
  BY <1>6, DisciplineParts
<1> QED
  BY <1>1, <1>2, <1>3, <1>4, <1>5, <1>6, <1>7, TypeParts DEF Inductive

LEMMA InductiveStep == Inductive /\ [Next]_vars => Inductive'
<1> SUFFICES ASSUME Inductive, [Next]_vars PROVE Inductive'
  OBVIOUS
<1>1. /\ OwnTyped /\ BufTyped /\ AccTyped /\ ExpTyped /\ TopTyped
      /\ VectorMatches /\ NoneWaitsBesideOwn /\ SocketDiscipline
  BY TypeParts DEF Inductive
<1>2. DisciplineByState
  BY <1>1, DisciplineParts DEF OwnTyped
<1>3. OwnTyped' /\ BufTyped' /\ AccTyped' /\ ExpTyped' /\ TopTyped' /\ VectorMatches'
  BY <1>1, OwnTypeStep, AcceptancesStep, FlagsStep
<1>4. DisciplineByState' /\ NoneWaitsBesideOwn'
  BY <1>1, <1>2, DisciplineStep
<1>5. TypeOK'
  BY <1>3 DEF TypeOK, OwnTyped, BufTyped, AccTyped, ExpTyped, TopTyped
<1>6. SocketDiscipline'
  BY <1>3, <1>4 DEF SocketDiscipline, DisciplineByState, OwnTyped
<1> QED
  BY <1>3, <1>4, <1>5, <1>6 DEF Inductive

LEMMA AlwaysInductive == Spec => []Inductive
BY InductiveInit, InductiveStep, PTL DEF Spec

-----------------------------------------------------------------------------
\* Every variable keeps its type, and the buffer its bound (cISOTP_ETHCONN).
THEOREM IsoTypeCorrect == Spec => []TypeOK
<1>1. Inductive => TypeOK
  BY DEF Inductive
<1> QED
  BY <1>1, AlwaysInductive, PTL

\* addAcceptance, removeAcceptance and iso_abbau keep the vector and the
\* objects together, for any number of peers: even iso_abbau's broken loop
\* leaves only objects that are alive in the vector.
THEOREM VectorKept == Spec => []VectorMatches
<1>1. Inductive => VectorMatches
  BY DEF Inductive
<1> QED
  BY <1>1, AlwaysInductive, PTL

\* connect, doWriteEvent, doReadEvent and iso_abbau never lose a handle or a
\* registration.
THEOREM HandlesKept == Spec => []SocketDiscipline
<1>1. Inductive => SocketDiscipline
  BY DEF Inductive
<1> QED
  BY <1>1, AlwaysInductive, PTL

\* When the module's own connection is open, nothing is left in bufQueue that it
\* should have sent before (senddata, doWriteEvent): whatever was remembered, and
\* kept over an iso_abbau, goes out with the outcome of the next connect.  Nothing
\* is said of a telegram that waits while only accepted peers are there.
THEOREM OwnQueueEmptied == Spec => []NoneWaitsBesideOwn
<1>1. Inductive => NoneWaitsBesideOwn
  BY DEF Inductive
<1> QED
  BY <1>1, AlwaysInductive, PTL

\* No stop finds more than two associated peers.
FewAtStops == [][StopsFew]_vars

\* stopData cuts off every peer, whatever connects, breaks and is requested
\* between the stops, provided that no stop finds more than two (and, finding two,
\* survives the stale iterator): the loop of iso_abbau is the only thing that
\* leaves a peer to a stopped module.
THEOREM PausedCutOffIfFew == Spec /\ FewAtStops => []PausedIsCutOff
<1>1. Init => PausedIsCutOff
  BY DEF Init, PausedIsCutOff, Associated
<1>2. Inductive /\ PausedIsCutOff /\ [Next]_vars /\ [StopsFew]_vars => PausedIsCutOff'
  <2> SUFFICES ASSUME Inductive, PausedIsCutOff, [Next]_vars, [StopsFew]_vars
               PROVE  PausedIsCutOff'
    OBVIOUS
  <2>1. /\ OwnTyped /\ AccTyped /\ TopTyped /\ VectorMatches /\ SocketDiscipline
    BY TypeParts DEF Inductive
  <2>2. DisciplineByState
    BY <2>1, DisciplineParts DEF OwnTyped
  <2>3. CASE StopsFew
    BY <2>1, <2>2, <2>3, PausedStep
  <2>4. CASE UNCHANGED vars
    BY <2>4 DEF vars, topVars, ownVars, accVars, PausedIsCutOff, IsRunning, Associated
  <2> QED
    BY <2>3, <2>4
<1> QED
  BY <1>1, <1>2, AlwaysInductive, PTL DEF Spec, FewAtStops

\* The same where there are never more than two.
THEOREM PausedCutOff == AtMostTwo /\ Spec => []PausedIsCutOff
<1>1. CASE ~AtMostTwo
  BY <1>1
<1>2. CASE AtMostTwo
  <2>1. Inductive => [StopsFew]_vars
    <3> SUFFICES ASSUME Inductive PROVE StopsFew
      OBVIOUS
    <3>1. acceptance \in Seq(Accs) /\ Distinct(acceptance)
      BY TypeParts DEF Inductive, AccTyped, VectorMatches, Distinct
    <3> QED
      BY <1>2, <3>1, AtMostTwoInVector DEF StopsFew
  <2>2. Spec => FewAtStops
    BY <2>1, AlwaysInductive, PTL DEF FewAtStops
  <2> QED
    BY <2>2, PausedCutOffIfFew
<1> QED
  BY <1>1, <1>2

\* For any number of handles and peers, and also where ::connect may fail at
\* once: the own connection implements a connection that holds one handle at a
\* time and gives it back with its registrations before the next one begins.
THEOREM ConnectionImplemented == Spec => OneConnectionAtATime
<1>1. Init => Own!ConnectionInit
  BY DEF Init, Own!ConnectionInit
<1>2. Inductive => HeldByState
  BY TypeParts, DisciplineHeld DEF Inductive
<1>3. HeldByState /\ HeldByState' /\ [Next]_vars
        => [Own!ConnectionNext]_<<conSndState, fd, {f \in Fds : sock[f] # "free"}, reg>>
  BY OwnStep DEF Held
<1> QED
  BY <1>1, <1>2, <1>3, AlwaysInductive, PTL
     DEF Spec, OneConnectionAtATime, Own!ConnectionSpec

\* Whatever ends an associated peer (its own leaving, a request that is not
\* confirmed, data while the module is stopped, iso_abbau), the last report to
\* TopMan is not that of a connection: it is of an end, or its send has failed.
\* For any number of peers, also those iso_abbau passes over.
THEOREM DropsTold == Spec => NoneDroppedSilently
<1>1. Init => SilentWhenPaused
  BY DEF Init, SilentWhenPaused
<1>2. Inductive => TopTyped /\ AccTyped
  BY TypeParts DEF Inductive
<1>3. TopTyped /\ SilentWhenPaused /\ [Next]_vars => SilentWhenPaused'
  BY SilentStep
<1>4. AccTyped /\ TopTyped /\ SilentWhenPaused /\ [Next]_vars
        => [(\E a \in Accs : Associated(a) /\ phase'[a] # "ours")
              => told' # "hergestellt"]_vars
  BY DropStep
<1> QED
  BY <1>1, <1>2, <1>3, <1>4, AlwaysInductive, PTL DEF Spec, NoneDroppedSilently

=============================================================================
