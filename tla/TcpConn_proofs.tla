--------------------------- MODULE TcpConn_proofs ---------------------------
(***************************************************************************)
(* Proofs about TcpConn, for any number of peers, acceptance objects and   *)
(* handles.  Inductive is the inductive invariant.  Its first part holds   *)
(* of every module; each conditional part names the assumption about       *)
(* TopMan or the peers it needs.                                           *)
(***************************************************************************)
EXTENDS TcpConn, TLAPS

\* An acceptance whose peer has left is still an object.
GoneIsLive == \A a \in gone : Live(a)

\* Before the first connect there is no handle and nothing to wait for.
NoHandleNoEvents == fd = None => reg = {}

\* Handles, registrations and the state of the connection agree: the module
\* holds at most its own handle, waits for the outcome of the connect while it
\* is under way and for data afterwards, and a closed connection keeps neither.
SocketDiscipline ==
    /\ \A f \in Fds : sock[f] # "free" => f = fd /\ conSndState # "Closed"
    /\ reg = CASE conSndState = "Closed"     -> {}
               [] conSndState = "Connecting" -> {<<fd, "BufferEmpty">>}
               [] conSndState = "Connected"  -> {<<fd, "DataWaiting">>}

Base == TypeOK /\ GoneIsLive /\ NoHandleNoEvents

Inductive ==
    /\ Base
    /\ NoDangling
    /\ OwnHandleWatched
    /\ PausedIsClosed
    /\ ~PortReuse => NoOrphan
    /\ ~Impatient => SocketDiscipline
    /\ ~PortReuse => LastReportTrue
    /\ ~Dynamic => ConfiguredIsConnected

-----------------------------------------------------------------------------
(* A step is one of the actions; proofs by cases start from here. *)

LEMMA Cases ==
    ASSUME [Next]_vars
    PROVE  \/ RunData
           \/ StopData
           \/ \E p \in Addr : SendData(p)
           \/ \E p \in Addr : Disconnect(p)
           \/ \E p \in Addr : ConnectRequest(p)
           \/ \E p \in Addr : Receive(p) /\ UNCHANGED <<ownVars, accVars, bufQueue, tellVars, crashed>>
           \/ \E f \in Fds : OwnWriteEvent(f)
           \/ \E f \in Fds : OwnReadEvent(f)
           \/ \E p \in Addr, a \in Accs : Accept(p, a)
           \/ \E a \in Accs : AcceptedReadEvent(a)
           \/ \E f \in Fds : ConnectDone(f) \/ PeerLeaves(f)
           \/ \E a \in Accs : AcceptedPeerLeaves(a)
           \/ UNCHANGED vars
BY DEF Next, TopMan, EventLoop, Environment, PartnerConnected

\* What abbau leaves, whoever calls it.
LEMMA AbbauType ==
    ASSUME TypeOK, Abbau
    PROVE  /\ conSndState' \in SndStates
           /\ fd' \in Fds \cup {None}
           /\ sock' \in [Fds -> SockStates]
           /\ reg' \subseteq Fds \X Events
           /\ addr' \in Addr \cup {None}
           /\ bufQueue' \in 0..MaxBuf
           /\ acceptance' \in
                [Addr -> Accs \cup IF Dynamic THEN {None, Null} ELSE {None}]
           /\ peer' \in [Accs -> Addr \cup {None}]
           /\ gone' \subseteq Accs
           /\ told' \subseteq Addr \cup {None} /\ lastReport' \in Reports
           /\ crashed' \in BOOLEAN
<1>1. reg' \subseteq Fds \X Events /\ sock' \in [Fds -> SockStates]
  BY DEF TypeOK, Abbau, CloseSocket, SockStates
<1>2. told' \subseteq Addr \cup {None} /\ lastReport' \in Reports
  BY DEF TypeOK, Abbau, ReportDown, tellVars, Reports
<1>3. peer' \in [Accs -> Addr \cup {None}]
  BY DEF TypeOK, Abbau
<1> QED
  BY <1>1, <1>2, <1>3 DEF TypeOK, Abbau, SndStates

LEMMA ConnectType ==
    ASSUME TypeOK, NEW to \in Addr \cup {None}, Connect(to)
    PROVE  /\ conSndState' \in SndStates
           /\ fd' \in Fds \cup {None}
           /\ sock' \in [Fds -> SockStates]
           /\ reg' \subseteq Fds \X Events
           /\ addr' \in Addr \cup {None}
           /\ told' \subseteq told /\ lastReport' \in {lastReport, "beendet"}
<1>1. CASE UNCHANGED <<ownVars, tellVars>>
  BY <1>1 DEF TypeOK, ownVars, tellVars
<1>2. CASE ~UNCHANGED <<ownVars, tellVars>>
  <2> PICK f \in Fds :
        /\ sock[f] = "free"
        /\ fd' = f
        /\ addr' = IF to # None THEN to ELSE addr
        /\ \/ /\ conSndState' = "Connecting"
              /\ sock' = [sock EXCEPT ![f] = "connecting"]
              /\ AwaitConnect(f)
              /\ UNCHANGED tellVars
           \/ /\ conSndState' = "Closed"
              /\ reg' = reg \ EventsOf(f)
              /\ UNCHANGED sock
              /\ ReportDown(Named(addr'))
    BY <1>2 DEF Connect
  <2> QED
    BY DEF TypeOK, AwaitConnect, ReportDown, tellVars, SndStates, SockStates, Events
<1> QED
  BY <1>1, <1>2

-----------------------------------------------------------------------------
LEMMA TypeStep ==
    ASSUME TypeOK, NoHandleNoEvents, [Next]_vars
    PROVE  TypeOK'
<1> USE ConstantsAssumption
<1>1. CASE RunData
  BY <1>1 DEF RunData, TypeOK, ConnStates, ownVars, accVars, tellVars
<1>2. CASE StopData
  <2>1. connState' \in ConnStates /\ server' \in BOOLEAN /\ dynamic_addr' = dynamic_addr
    BY <1>2 DEF StopData, TypeOK, ConnStates
  <2> QED
    BY <1>2, <2>1, AbbauType DEF StopData, TypeOK
<1> DEFINE Calm(p) == /\ connState' = connState /\ server' = server
                      /\ dynamic_addr' \in IF Dynamic THEN Addr \cup {None} ELSE {None}
<1>0. ASSUME NEW p \in Addr, Receive(p)
      PROVE  Calm(p)
  BY <1>0 DEF Receive, SetDynamicAddress, topVars, TypeOK
<1>3. ASSUME NEW p \in Addr, SendData(p)
      PROVE  TypeOK'
  <2>1. Calm(p)
    BY <1>3, <1>0 DEF SendData
  <2>2. bufQueue' \in 0..MaxBuf
    BY <1>3 DEF SendData, TypeOK
  <2>3. acceptance' \in [Addr -> Accs \cup IF Dynamic THEN {None, Null} ELSE {None}]
    BY <1>3 DEF SendData, TypeOK, LooksUp
  <2> QED
    BY <1>3, <2>1, <2>2, <2>3 DEF SendData, TypeOK, ownVars, tellVars
<1>4. ASSUME NEW p \in Addr, Disconnect(p)
      PROVE  TypeOK'
  <2>1. Calm(p)
    BY <1>4, <1>0 DEF Disconnect
  <2> QED
    BY <1>4, <2>1, AbbauType DEF Disconnect, TypeOK
<1>5. ASSUME NEW p \in Addr, ConnectRequest(p)
      PROVE  TypeOK'
  <2>1. Calm(p)
    BY <1>5, <1>0 DEF ConnectRequest
  <2>2. CASE UNCHANGED <<ownVars, accVars, bufQueue, tellVars, crashed>>
    BY <2>1, <2>2 DEF TypeOK, ownVars, accVars, tellVars
  <2>3. CASE Connect(dynamic_addr')
    <3>1. dynamic_addr' \in Addr \cup {None}
      BY <2>1
    <3>2. UNCHANGED <<accVars, bufQueue, crashed>>
      BY <2>3 DEF Connect
    <3> HIDE DEF Calm
    <3>3. Calm(p)
      BY <2>1
    <3>4. /\ conSndState' \in SndStates
          /\ fd' \in Fds \cup {None}
          /\ sock' \in [Fds -> SockStates]
          /\ reg' \subseteq Fds \X Events
          /\ addr' \in Addr \cup {None}
          /\ told' \subseteq told /\ lastReport' \in {lastReport, "beendet"}
      BY <2>3, <3>1, ConnectType
    <3> QED
      BY <3>2, <3>3, <3>4 DEF TypeOK, accVars, Calm, Reports
  <2> QED
    BY <1>5, <2>2, <2>3 DEF ConnectRequest
<1>6. ASSUME NEW p \in Addr, Receive(p),
             UNCHANGED <<ownVars, accVars, bufQueue, tellVars, crashed>>
      PROVE  TypeOK'
  BY <1>6, <1>0 DEF TypeOK, ownVars, accVars, tellVars
<1>7. ASSUME NEW f \in Fds, OwnWriteEvent(f)
      PROVE  TypeOK'
  <2>1. /\ reg' \subseteq Fds \X Events
        /\ sock' \in [Fds -> SockStates]
        /\ conSndState' \in SndStates
        /\ told' \subseteq Addr \cup {None} /\ lastReport' \in Reports
    <3>1. CASE sock[fd] \in {"refused", "free"}
      BY <1>7, <3>1 DEF OwnWriteEvent, CloseSocket, ReportDown, TypeOK,
         SndStates, SockStates, tellVars, Reports
    <3>2. CASE sock[fd] \notin {"refused", "free"}
      <4>1. reg' \subseteq Fds \X Events
        <5>1. reg' \subseteq reg \cup {<<fd, "DataWaiting">>}
          BY <1>7, <3>2 DEF OwnWriteEvent
        <5>2. fd \in Fds
          BY <1>7 DEF OwnWriteEvent, NoHandleNoEvents, TypeOK
        <5> QED
          BY <5>1, <5>2 DEF TypeOK, Events
      <4>2. told' \subseteq Addr \cup {None} /\ lastReport' \in Reports
        BY <1>7, <3>2 DEF OwnWriteEvent, ReportUp, Named, TypeOK, tellVars, Reports
      <4> QED
        BY <1>7, <3>2, <4>1, <4>2 DEF OwnWriteEvent, TypeOK, SndStates
    <3> QED
      BY <3>1, <3>2
  <2> QED
    BY <1>7, <2>1 DEF OwnWriteEvent, TypeOK, topVars, accVars
<1>8. ASSUME NEW f \in Fds, OwnReadEvent(f)
      PROVE  TypeOK'
  BY <1>8, AbbauType DEF OwnReadEvent, TypeOK, topVars
<1>9. ASSUME NEW p \in Addr, NEW a \in Accs, Accept(p, a)
      PROVE  TypeOK'
  <2>1. told' \subseteq Addr \cup {None} /\ lastReport' \in Reports
    BY <1>9 DEF Accept, ReportUp, TypeOK, tellVars, Reports
  <2> QED
    BY <1>9, <2>1 DEF Accept, AddAcceptance, TypeOK, topVars, ownVars
<1>10. ASSUME NEW a \in Accs, AcceptedReadEvent(a)
       PROVE  TypeOK'
  <2>1. told' \subseteq Addr \cup {None} /\ lastReport' \in Reports
    BY <1>10 DEF AcceptedReadEvent, ReportDown, TypeOK, tellVars, Reports
  <2>2. acceptance' \in [Addr -> Accs \cup IF Dynamic THEN {None, Null} ELSE {None}]
    BY <1>10 DEF AcceptedReadEvent, RemoveAcceptance, TypeOK
  <2> QED
    BY <1>10, <2>1, <2>2 DEF AcceptedReadEvent, TypeOK, topVars, ownVars
<1>11. ASSUME NEW f \in Fds, ConnectDone(f) \/ PeerLeaves(f)
       PROVE  TypeOK'
  BY <1>11 DEF ConnectDone, PeerLeaves, KernelStep, TypeOK, SockStates,
     topVars, accVars, tellVars
<1>12. ASSUME NEW a \in Accs, AcceptedPeerLeaves(a)
       PROVE  TypeOK'
  BY <1>12 DEF AcceptedPeerLeaves, TypeOK, topVars, ownVars, tellVars
<1>13. CASE UNCHANGED vars
  BY <1>13 DEF vars, TypeOK, topVars, ownVars, accVars, tellVars
<1> QED
  BY Cases, <1>1, <1>2, <1>3, <1>4, <1>5, <1>6, <1>7, <1>8, <1>9, <1>10,
     <1>11, <1>12, <1>13

\* Who the handlers leave the acceptances to: a step adds one object, removes
\* one, notes a peer's leaving, makes an empty entry, tears all down, or
\* leaves the bookkeeping alone.
LEMMA AcceptanceCases ==
    ASSUME [Next]_vars
    PROVE  \/ Abbau
           \/ \E p \in Addr : SendData(p)
           \/ \E p \in Addr, a \in Accs : Accept(p, a)
           \/ \E a \in Accs : AcceptedReadEvent(a)
           \/ \E a \in Accs : AcceptedPeerLeaves(a)
           \/ UNCHANGED accVars
<1>1. ASSUME NEW p \in Addr, ConnectRequest(p)
      PROVE  UNCHANGED accVars
  BY <1>1 DEF ConnectRequest, Connect
<1> QED
  BY Cases, <1>1 DEF RunData, StopData, Disconnect, OwnWriteEvent,
     OwnReadEvent, ConnectDone, PeerLeaves, KernelStep, vars

LEMMA GoneStep ==
    ASSUME TypeOK, GoneIsLive, [Next]_vars
    PROVE  GoneIsLive'
<1> USE ConstantsAssumption DEF Live, GoneIsLive, TypeOK
<1>1. CASE Abbau
  BY <1>1 DEF Abbau
<1>2. CASE UNCHANGED accVars
  BY <1>2 DEF accVars
<1>3. ASSUME NEW p \in Addr, SendData(p)
      PROVE  GoneIsLive'
  BY <1>3 DEF SendData
<1>4. ASSUME NEW p \in Addr, NEW a \in Accs, Accept(p, a)
      PROVE  GoneIsLive'
  BY <1>4 DEF Accept
<1>5. ASSUME NEW a \in Accs, AcceptedReadEvent(a)
      PROVE  GoneIsLive'
  BY <1>5 DEF AcceptedReadEvent
<1>6. ASSUME NEW a \in Accs, AcceptedPeerLeaves(a)
      PROVE  GoneIsLive'
  BY <1>6 DEF AcceptedPeerLeaves
<1> QED
  BY AcceptanceCases, <1>1, <1>2, <1>3, <1>4, <1>5, <1>6

LEMMA DanglingStep ==
    ASSUME TypeOK, GoneIsLive, NoDangling, [Next]_vars
    PROVE  NoDangling'
<1> USE ConstantsAssumption DEF NoDangling, TypeOK
<1>1. CASE Abbau
  BY <1>1 DEF Abbau
<1>2. CASE UNCHANGED accVars
  BY <1>2 DEF accVars
<1>3. ASSUME NEW p \in Addr, SendData(p)
      PROVE  NoDangling'
  BY <1>3 DEF SendData
<1>4. ASSUME NEW p \in Addr, NEW a \in Accs, Accept(p, a)
      PROVE  NoDangling'
  BY <1>4 DEF Accept, AddAcceptance, Live
<1>5. ASSUME NEW a \in Accs, AcceptedReadEvent(a)
      PROVE  NoDangling'
  BY <1>5 DEF AcceptedReadEvent, RemoveAcceptance, GoneIsLive, Live
<1>6. ASSUME NEW a \in Accs, AcceptedPeerLeaves(a)
      PROVE  NoDangling'
  BY <1>6 DEF AcceptedPeerLeaves
<1> QED
  BY AcceptanceCases, <1>1, <1>2, <1>3, <1>4, <1>5, <1>6

LEMMA OrphanStep ==
    ASSUME TypeOK, GoneIsLive, NoOrphan, ~PortReuse, [Next]_vars
    PROVE  NoOrphan'
<1> USE ConstantsAssumption DEF NoOrphan, TypeOK, Live
<1>1. CASE Abbau
  BY <1>1 DEF Abbau, Mapped
<1>2. CASE UNCHANGED accVars
  BY <1>2 DEF accVars
<1>3. ASSUME NEW p \in Addr, SendData(p)
      PROVE  NoOrphan'
  BY <1>3 DEF SendData
<1>4. ASSUME NEW p \in Addr, NEW a \in Accs, Accept(p, a)
      PROVE  NoOrphan'
  BY <1>4 DEF Accept, AddAcceptance
<1>5. ASSUME NEW a \in Accs, AcceptedReadEvent(a)
      PROVE  NoOrphan'
  BY <1>5 DEF AcceptedReadEvent, RemoveAcceptance, GoneIsLive
<1>6. ASSUME NEW a \in Accs, AcceptedPeerLeaves(a)
      PROVE  NoOrphan'
  BY <1>6 DEF AcceptedPeerLeaves
<1> QED
  BY AcceptanceCases, <1>1, <1>2, <1>3, <1>4, <1>5, <1>6

\* What the handlers do to the own connection: abbau, a connect, its outcome,
\* a step of the kernel, or nothing.
LEMMA OwnCases ==
    ASSUME [Next]_vars
    PROVE  \/ Abbau
           \/ /\ IsRunning /\ ~IsConnected /\ ~CheckAcceptance
              /\ Impatient \/ conSndState # "Connecting"
              /\ UNCHANGED connState
              /\ Connect(dynamic_addr')
           \/ \E f \in Fds : OwnWriteEvent(f)
           \/ \E f \in Fds : ConnectDone(f) \/ PeerLeaves(f)
           \/ UNCHANGED ownVars
<1>1. ASSUME NEW p \in Addr, ConnectRequest(p)
      PROVE  \/ /\ IsRunning /\ ~IsConnected /\ ~CheckAcceptance
                /\ Impatient \/ conSndState # "Connecting"
                /\ UNCHANGED connState
                /\ Connect(dynamic_addr')
             \/ UNCHANGED ownVars
  BY <1>1 DEF ConnectRequest, Receive, topVars
<1> QED
  BY Cases, <1>1 DEF RunData, StopData, SendData, Disconnect, OwnReadEvent,
     Accept, AcceptedReadEvent, AcceptedPeerLeaves, vars

\* The ways a connect begins.
LEMMA ConnectCases ==
    ASSUME NEW to, Connect(to)
    PROVE  \/ UNCHANGED ownVars
           \/ \E f \in Fds :
                /\ sock[f] = "free" /\ fd' = f
                /\ conSndState' = "Connecting"
                /\ sock' = [sock EXCEPT ![f] = "connecting"]
                /\ reg' = reg \cup {<<f, "BufferEmpty">>}
           \/ \E f \in Fds :
                /\ sock[f] = "free" /\ fd' = f
                /\ conSndState' = "Closed"
                /\ sock' = sock
                /\ reg' = reg \ EventsOf(f)
BY DEF Connect, AwaitConnect

LEMMA NoHandleStep ==
    ASSUME TypeOK, NoHandleNoEvents, [Next]_vars
    PROVE  NoHandleNoEvents'
<1> USE ConstantsAssumption DEF NoHandleNoEvents
<1>1. CASE Abbau
  BY <1>1 DEF Abbau
<1>2. CASE Connect(dynamic_addr')
  BY <1>2, ConnectCases DEF ownVars
<1>3. ASSUME NEW f \in Fds, OwnWriteEvent(f)
      PROVE  NoHandleNoEvents'
  BY <1>3 DEF OwnWriteEvent
<1>4. ASSUME NEW f \in Fds, ConnectDone(f) \/ PeerLeaves(f)
      PROVE  NoHandleNoEvents'
  BY <1>4 DEF ConnectDone, PeerLeaves, KernelStep
<1>5. CASE UNCHANGED ownVars
  BY <1>5 DEF ownVars
<1> QED
  BY OwnCases, <1>1, <1>2, <1>3, <1>4, <1>5

LEMMA WatchedStep ==
    ASSUME TypeOK, NoHandleNoEvents, OwnHandleWatched, [Next]_vars
    PROVE  OwnHandleWatched'
<1> USE ConstantsAssumption
<1>1. CASE Abbau
  <2>1. CASE conSndState = "Closed"
    BY <1>1, <2>1 DEF Abbau, OwnHandleWatched, FdOpen
  <2>2. CASE conSndState # "Closed"
    <3>1. fd \in Fds /\ fd' = fd /\ sock'[fd] = "free" /\ conSndState' = "Closed"
      BY <1>1, <2>2 DEF Abbau, OwnHandleWatched, FdOpen, TypeOK, SndStates, CloseSocket
    <3>2. <<fd, "BufferEmpty">> \notin reg'
      BY <1>1, <2>2 DEF Abbau, EventsOf, Events
    <3> QED
      BY <3>1, <3>2 DEF OwnHandleWatched, FdOpen
  <2> QED
    BY <2>1, <2>2
<1>2. CASE Connect(dynamic_addr')
  <2>1. CASE UNCHANGED ownVars
    BY <2>1 DEF ownVars, OwnHandleWatched, FdOpen
  <2>2. ASSUME NEW f \in Fds, sock[f] = "free", fd' = f,
               conSndState' = "Connecting",
               sock' = [sock EXCEPT ![f] = "connecting"],
               reg' = reg \cup {<<f, "BufferEmpty">>}
        PROVE  OwnHandleWatched'
    BY <2>2 DEF OwnHandleWatched, FdOpen, TypeOK
  <2>3. ASSUME NEW f \in Fds, sock[f] = "free", fd' = f,
               conSndState' = "Closed", sock' = sock, reg' = reg \ EventsOf(f)
        PROVE  OwnHandleWatched'
    BY <2>3 DEF OwnHandleWatched, FdOpen, EventsOf, Events
  <2> QED
    BY <1>2, <2>1, <2>2, <2>3, ConnectCases
<1>3. ASSUME NEW f \in Fds, OwnWriteEvent(f)
      PROVE  OwnHandleWatched'
  <2>1. fd \in Fds /\ fd' = fd
    BY <1>3 DEF OwnWriteEvent, NoHandleNoEvents, TypeOK
  <2>2. CASE sock[fd] \in {"refused", "free"}
    <3>1. conSndState' = "Closed" /\ sock'[fd] = "free" /\ <<fd, "BufferEmpty">> \notin reg'
      BY <1>3, <2>1, <2>2 DEF OwnWriteEvent, CloseSocket, TypeOK
    <3> QED
      BY <2>1, <3>1 DEF OwnHandleWatched, FdOpen
  <2>3. CASE sock[fd] \notin {"refused", "free"}
    <3>1. conSndState' = "Connected" /\ sock' = sock /\ <<fd, "DataWaiting">> \in reg'
      BY <1>3, <2>3 DEF OwnWriteEvent
    <3> QED
      BY <2>1, <2>3, <3>1 DEF OwnHandleWatched, FdOpen
  <2> QED
    BY <2>2, <2>3
<1>4. ASSUME NEW f \in Fds, ConnectDone(f) \/ PeerLeaves(f)
      PROVE  OwnHandleWatched'
  BY <1>4 DEF ConnectDone, PeerLeaves, KernelStep, OwnHandleWatched, FdOpen, TypeOK
<1>5. CASE UNCHANGED ownVars
  BY <1>5 DEF ownVars, OwnHandleWatched, FdOpen
<1> QED
  BY OwnCases, <1>1, <1>2, <1>3, <1>4, <1>5

\* The one step of a paused module that could revive its connection is the
\* event of a handle it should not have; OwnHandleWatched makes it harmless.
LEMMA PausedStep ==
    ASSUME TypeOK, NoHandleNoEvents, OwnHandleWatched, PausedIsClosed, [Next]_vars
    PROVE  PausedIsClosed'
<1> USE DEF PausedIsClosed, IsRunning
<1>1. CASE Abbau
  BY <1>1 DEF Abbau
<1>2. CASE IsRunning /\ UNCHANGED connState
  BY <1>2
<1>3. ASSUME NEW f \in Fds, OwnWriteEvent(f)
      PROVE  PausedIsClosed'
  <2>1. fd \in Fds /\ connState' = connState
    BY <1>3 DEF OwnWriteEvent, NoHandleNoEvents, TypeOK, topVars
  <2>2. ~IsRunning => sock[fd] = "free"
    BY <2>1, ConstantsAssumption DEF OwnHandleWatched, FdOpen
  <2> QED
    BY <1>3, <2>1, <2>2 DEF OwnWriteEvent
<1>4. ASSUME NEW f \in Fds, ConnectDone(f) \/ PeerLeaves(f)
      PROVE  PausedIsClosed'
  BY <1>4 DEF ConnectDone, PeerLeaves, KernelStep, topVars
<1>5. CASE UNCHANGED ownVars /\ (connState' = connState \/ RunData)
  BY <1>5 DEF ownVars, RunData
<1>6. connState' = connState \/ RunData \/ StopData
  BY Cases DEF topVars, Receive, SendData, Disconnect, ConnectRequest,
     OwnWriteEvent, OwnReadEvent, Accept, AcceptedReadEvent, ConnectDone,
     PeerLeaves, KernelStep, AcceptedPeerLeaves, vars
<1> QED
  BY OwnCases, <1>1, <1>2, <1>3, <1>4, <1>5, <1>6 DEF StopData

LEMMA SocketStep ==
    ASSUME TypeOK, SocketDiscipline, OwnHandleWatched, ~Impatient, [Next]_vars
    PROVE  SocketDiscipline'
<1> USE ConstantsAssumption
<1>1. CASE Abbau
  <2>1. CASE conSndState = "Closed"
    BY <1>1, <2>1 DEF Abbau, SocketDiscipline
  <2>2. CASE conSndState # "Closed"
    <3>1. \A f \in Fds : sock'[f] = "free"
      BY <1>1, <2>2 DEF Abbau, SocketDiscipline, CloseSocket, TypeOK
    <3>2. reg' = {}
      BY <1>1, <2>2 DEF Abbau, SocketDiscipline, EventsOf, Events, TypeOK, SndStates
    <3> QED
      BY <1>1, <3>1, <3>2 DEF Abbau, SocketDiscipline
  <2> QED
    BY <2>1, <2>2
<1>2. CASE Connect(dynamic_addr') /\ ~IsConnected /\ conSndState # "Connecting"
  <2>0. conSndState = "Closed" /\ reg = {} /\ \A f \in Fds : sock[f] = "free"
    BY <1>2 DEF IsConnected, TypeOK, SndStates, SocketDiscipline
  <2>1. CASE UNCHANGED ownVars
    BY <2>1 DEF ownVars, SocketDiscipline
  <2>2. ASSUME NEW f \in Fds, sock[f] = "free", fd' = f,
               conSndState' = "Connecting",
               sock' = [sock EXCEPT ![f] = "connecting"],
               reg' = reg \cup {<<f, "BufferEmpty">>}
        PROVE  SocketDiscipline'
    BY <2>0, <2>2 DEF SocketDiscipline, TypeOK
  <2>3. ASSUME NEW f \in Fds, sock[f] = "free", fd' = f,
               conSndState' = "Closed", sock' = sock, reg' = reg \ EventsOf(f)
        PROVE  SocketDiscipline'
    BY <2>0, <2>3 DEF SocketDiscipline
  <2> QED
    BY <1>2, <2>1, <2>2, <2>3, ConnectCases
<1>3. ASSUME NEW f \in Fds, OwnWriteEvent(f)
      PROVE  SocketDiscipline'
  <2>1. conSndState = "Connecting" /\ f = fd /\ reg = {<<fd, "BufferEmpty">>}
    BY <1>3 DEF OwnWriteEvent, SocketDiscipline, TypeOK, SndStates
  <2>2. fd' = fd /\ \A g \in Fds : g # fd => sock'[g] = "free"
    BY <1>3, <2>1 DEF OwnWriteEvent, SocketDiscipline, CloseSocket, TypeOK
  <2>3. \/ conSndState' = "Closed" /\ reg' = {} /\ sock'[fd] = "free"
        \/ conSndState' = "Connected" /\ reg' = {<<fd, "DataWaiting">>}
    BY <1>3, <2>1 DEF OwnWriteEvent, CloseSocket, TypeOK
  <2> QED
    BY <2>2, <2>3 DEF SocketDiscipline
<1>4. ASSUME NEW f \in Fds, ConnectDone(f) \/ PeerLeaves(f)
      PROVE  SocketDiscipline'
  BY <1>4 DEF ConnectDone, PeerLeaves, KernelStep, SocketDiscipline, TypeOK
<1>5. CASE UNCHANGED ownVars
  BY <1>5 DEF ownVars, SocketDiscipline
<1> QED
  BY OwnCases, <1>1, <1>2, <1>3, <1>4, <1>5

-----------------------------------------------------------------------------
(* What TopMan is told. *)

\* An acceptance that lives is one abbau deletes, and one connect looks for.
LEMMA LiveIsMapped ==
    ASSUME TypeOK, NoOrphan, NEW a \in Accs, Live(a)
    PROVE  a \in Mapped /\ CheckAcceptance
<1>1. peer[a] \in Addr /\ acceptance[peer[a]] = a
  BY DEF NoOrphan, Live, TypeOK
<1> QED
  BY <1>1, ConstantsAssumption DEF Mapped, CheckAcceptance

\* NoOrphan is what makes abbau's count of torn-down connections complete.
LEMMA AbbauTold ==
    ASSUME TypeOK, NoOrphan, LastReportTrue, Abbau
    PROVE  lastReport' = "beendet"
<1>1. lastReport = "beendet" \/ (IsRunning /\ Served)
  BY DEF TypeOK, Reports, LastReportTrue
<1>2. NothingTornDown => ~Served
  BY LiveIsMapped DEF Served, NothingTornDown, IsConnected
<1>3. CASE NothingTornDown
  BY <1>1, <1>2, <1>3 DEF Abbau, tellVars
<1>4. CASE ~NothingTornDown
  BY <1>1, <1>4 DEF Abbau, ReportDown, tellVars
<1> QED
  BY <1>3, <1>4

LEMMA LastReportStep ==
    ASSUME TypeOK, NoOrphan, LastReportTrue, [Next]_vars
    PROVE  LastReportTrue'
<1> USE ConstantsAssumption
<1>1. lastReport = "beendet" \/ (IsRunning /\ Served)
  BY DEF TypeOK, Reports, LastReportTrue
<1> SUFFICES ASSUME lastReport' = "hergestellt"
             PROVE  (IsRunning /\ Served)'
  BY DEF LastReportTrue
<1>2. ASSUME UNCHANGED <<connState, conSndState, peer, tellVars>>
      PROVE  (IsRunning /\ Served)'
  BY <1>1, <1>2 DEF IsRunning, Served, IsConnected, Live, tellVars
<1>3. CASE Abbau
  BY <1>3, AbbauTold
<1>4. CASE RunData
  BY <1>1, <1>4 DEF RunData, IsRunning, Served, IsConnected, Live, ownVars,
     accVars, tellVars
<1>5. ASSUME NEW p \in Addr, ConnectRequest(p)
      PROVE  (IsRunning /\ Served)'
  <2>1. CASE UNCHANGED <<ownVars, accVars, bufQueue, tellVars, crashed>>
    BY <1>2, <1>5, <2>1 DEF ConnectRequest, Receive, ownVars, accVars, topVars
  <2>2. CASE ~CheckAcceptance /\ ~IsConnected /\ Connect(dynamic_addr')
    <3>1. ~Served
      BY <2>2, LiveIsMapped DEF Served
    <3>2. lastReport' \in {lastReport, "beendet"}
      BY <2>2 DEF Connect, ReportDown, tellVars
    <3> QED
      BY <1>1, <3>1, <3>2
  <2> QED
    BY <1>5, <2>1, <2>2 DEF ConnectRequest
<1>6. ASSUME NEW f \in Fds, OwnWriteEvent(f)
      PROVE  (IsRunning /\ Served)'
  <2>1. CASE sock[fd] \in {"refused", "free"}
    <3>1. ~IsRunning /\ lastReport' = lastReport
      BY <1>6, <2>1 DEF OwnWriteEvent, ReportDown, tellVars
    <3> QED
      BY <1>1, <3>1
  <2>2. CASE sock[fd] \notin {"refused", "free"}
    <3>1. IsRunning
      BY <1>1, <1>6, <2>2 DEF OwnWriteEvent, ReportUp, tellVars
    <3> QED
      BY <1>6, <2>2, <3>1 DEF OwnWriteEvent, IsRunning, Served, IsConnected, topVars
  <2> QED
    BY <2>1, <2>2
<1>7. ASSUME NEW p \in Addr, NEW a \in Accs, Accept(p, a)
      PROVE  (IsRunning /\ Served)'
  <2>1. IsRunning
    BY <1>1, <1>7 DEF Accept, ReportUp, tellVars
  <2>2. peer'[a] # None
    BY <1>7 DEF Accept, TypeOK
  <2> QED
    BY <1>7, <2>1, <2>2 DEF Accept, IsRunning, Served, Live, topVars
<1>8. ASSUME NEW a \in Accs, AcceptedReadEvent(a)
      PROVE  (IsRunning /\ Served)'
  BY <1>1, <1>8 DEF AcceptedReadEvent, ReportDown, tellVars
<1>9. \/ Abbau
      \/ RunData
      \/ \E p \in Addr : ConnectRequest(p)
      \/ \E f \in Fds : OwnWriteEvent(f)
      \/ \E p \in Addr, a \in Accs : Accept(p, a)
      \/ \E a \in Accs : AcceptedReadEvent(a)
      \/ UNCHANGED <<connState, conSndState, peer, tellVars>>
  BY Cases DEF StopData, SendData, Receive, Disconnect, OwnReadEvent, ConnectDone,
     PeerLeaves, KernelStep, AcceptedPeerLeaves, vars, topVars, ownVars, accVars
<1> QED
  BY <1>2, <1>3, <1>4, <1>5, <1>6, <1>7, <1>8, <1>9

\* The report of an acceptance names its peer; only the own connection's names
\* the configured partner, and every end of that connection takes it back.  A
\* stopped module can report nothing, but has no own connection left.
LEMMA ConfiguredStep ==
    ASSUME TypeOK, PausedIsClosed, ConfiguredIsConnected, ~Dynamic, [Next]_vars
    PROVE  ConfiguredIsConnected'
<1> USE ConstantsAssumption
<1>1. /\ \A q : Named(q) = None
      /\ None \in told => IsRunning /\ IsConnected
  BY DEF Named, ConfiguredIsConnected, PausedIsClosed, IsConnected
<1> SUFFICES ASSUME None \in told'
             PROVE  IsConnected'
  BY DEF ConfiguredIsConnected
<1>2. ASSUME NEW q, ReportDown(Named(q)) PROVE FALSE
  <2>1. ~IsRunning /\ None \in told
    BY <1>1, <1>2 DEF ReportDown, tellVars
  <2> QED
    BY <1>1, <2>1
<1>3. CASE Abbau
  <2>1. NothingTornDown /\ None \in told
    BY <1>2, <1>3 DEF Abbau, tellVars
  <2> QED
    BY <1>1, <2>1 DEF NothingTornDown, IsConnected
<1>4. ASSUME NEW p \in Addr, ConnectRequest(p)
      PROVE  IsConnected'
  <2>1. CASE UNCHANGED <<ownVars, accVars, bufQueue, tellVars, crashed>>
    BY <1>1, <2>1 DEF ownVars, tellVars, IsConnected
  <2>2. CASE ~IsConnected /\ Connect(dynamic_addr')
    <3>1. told' = told
      BY <1>2, <2>2 DEF Connect, tellVars
    <3> QED
      BY <1>1, <2>2, <3>1
  <2> QED
    BY <1>4, <2>1, <2>2 DEF ConnectRequest
<1>5. ASSUME NEW f \in Fds, OwnWriteEvent(f)
      PROVE  IsConnected'
  BY <1>2, <1>5 DEF OwnWriteEvent, IsConnected
<1>6. ASSUME NEW p \in Addr, NEW a \in Accs, Accept(p, a)
      PROVE  IsConnected'
  <2>1. None \in told
    BY <1>6 DEF Accept, ReportUp, tellVars
  <2> QED
    BY <1>1, <1>6, <2>1 DEF Accept, ownVars, IsConnected
<1>7. ASSUME NEW a \in Accs, AcceptedReadEvent(a)
      PROVE  IsConnected'
  BY <1>2, <1>7 DEF AcceptedReadEvent
<1>8. CASE UNCHANGED <<conSndState, tellVars>>
  BY <1>1, <1>8 DEF IsConnected, tellVars
<1>9. \/ Abbau
      \/ \E p \in Addr : ConnectRequest(p)
      \/ \E f \in Fds : OwnWriteEvent(f)
      \/ \E p \in Addr, a \in Accs : Accept(p, a)
      \/ \E a \in Accs : AcceptedReadEvent(a)
      \/ UNCHANGED <<conSndState, tellVars>>
  BY Cases DEF RunData, StopData, SendData, Disconnect, OwnReadEvent, ConnectDone,
     PeerLeaves, KernelStep, AcceptedPeerLeaves, vars, ownVars
<1> QED
  BY <1>3, <1>4, <1>5, <1>6, <1>7, <1>8, <1>9

-----------------------------------------------------------------------------
(* Every end is reported. *)

LEMMA EndStep ==
    ASSUME TypeOK, NoOrphan, LastReportTrue, [Next]_vars,
           \/ IsConnected /\ conSndState' # "Connected"
           \/ \E a \in Accs : Live(a) /\ peer'[a] # peer[a]
    PROVE  lastReport' = "beendet"
<1> USE ConstantsAssumption
<1>1. lastReport = "beendet" \/ IsRunning
  BY DEF TypeOK, Reports, LastReportTrue
<1>2. ASSUME NEW q, ReportDown(q) PROVE lastReport' = "beendet"
  BY <1>1, <1>2 DEF ReportDown, tellVars
<1>3. CASE Abbau
  BY <1>3, AbbauTold
<1>4. ASSUME conSndState' = conSndState, peer' = peer PROVE FALSE
  BY <1>4 DEF IsConnected
<1>5. ASSUME NEW p \in Addr, ConnectRequest(p) PROVE FALSE
  <2>1. CASE UNCHANGED <<ownVars, accVars, bufQueue, tellVars, crashed>>
    BY <1>4, <2>1 DEF ownVars, accVars
  <2>2. CASE ~IsConnected /\ Connect(dynamic_addr')
    BY <2>2 DEF Connect, accVars
  <2> QED
    BY <1>5, <2>1, <2>2 DEF ConnectRequest
<1>6. ASSUME NEW f \in Fds, OwnWriteEvent(f) PROVE lastReport' = "beendet"
  <2>1. peer' = peer
    BY <1>6 DEF OwnWriteEvent, accVars
  <2>2. conSndState' # "Connected"
    BY <2>1
  <2> QED
    BY <1>2, <1>6, <2>2 DEF OwnWriteEvent
<1>7. ASSUME NEW p \in Addr, NEW a \in Accs, Accept(p, a) PROVE FALSE
  BY <1>7 DEF Accept, ownVars, IsConnected, TypeOK
<1>8. ASSUME NEW a \in Accs, AcceptedReadEvent(a) PROVE lastReport' = "beendet"
  BY <1>2, <1>8 DEF AcceptedReadEvent
<1>9. \/ Abbau
      \/ \E p \in Addr : ConnectRequest(p)
      \/ \E f \in Fds : OwnWriteEvent(f)
      \/ \E p \in Addr, a \in Accs : Accept(p, a)
      \/ \E a \in Accs : AcceptedReadEvent(a)
      \/ conSndState' = conSndState /\ peer' = peer
  BY Cases DEF RunData, StopData, SendData, Disconnect, OwnReadEvent, ConnectDone,
     PeerLeaves, KernelStep, AcceptedPeerLeaves, vars, ownVars, accVars
<1> QED
  BY <1>3, <1>4, <1>5, <1>6, <1>7, <1>8, <1>9

-----------------------------------------------------------------------------
(* The own connection implements Connection. *)

Held == {f \in Fds : sock[f] # "free"}

\* SocketDiscipline and OwnHandleWatched, in the terms of Connection.
LEMMA HeldByState ==
    ASSUME TypeOK, SocketDiscipline, OwnHandleWatched
    PROVE  /\ conSndState = "Closed" => Held = {} /\ reg = {}
           /\ conSndState = "Connecting" => Held = {fd} /\ reg = {<<fd, "BufferEmpty">>}
           /\ conSndState = "Connected" => Held = {fd} /\ reg = {<<fd, "DataWaiting">>}
<1>1. conSndState \in SndStates /\ fd \in Fds \cup {None}
  BY DEF TypeOK
<1>2. conSndState = "Closed" => Held = {} /\ reg = {}
  BY DEF SocketDiscipline, Held
<1>3. conSndState # "Closed" => Held = {fd}
  BY <1>1 DEF SocketDiscipline, OwnHandleWatched, FdOpen, Held, SndStates
<1>4. /\ conSndState = "Connecting" => reg = {<<fd, "BufferEmpty">>}
      /\ conSndState = "Connected" => reg = {<<fd, "DataWaiting">>}
  BY DEF SocketDiscipline
<1> QED
  BY <1>2, <1>3, <1>4

LEMMA OwnStep ==
    ASSUME TypeOK, TypeOK', SocketDiscipline, SocketDiscipline', OwnHandleWatched,
           OwnHandleWatched', ~Impatient, [Next]_vars
    PROVE  \/ Own!ConnectionNext
           \/ UNCHANGED <<conSndState, fd, Held, reg>>
<1> USE ConstantsAssumption
<1> DEFINE Quiet == UNCHANGED <<conSndState, fd, Held, reg>>
           Step == Own!ConnectionNext \/ Quiet
<1>1. /\ conSndState = "Closed" => Held = {} /\ reg = {}
      /\ conSndState = "Connecting" => Held = {fd} /\ reg = {<<fd, "BufferEmpty">>}
      /\ conSndState = "Connected" => Held = {fd} /\ reg = {<<fd, "DataWaiting">>}
      /\ conSndState \in SndStates
  BY HeldByState DEF TypeOK
<1>2. /\ conSndState' = "Closed" => Held' = {} /\ reg' = {}
      /\ conSndState' = "Connecting" => Held' = {fd'} /\ reg' = {<<fd', "BufferEmpty">>}
      /\ conSndState' = "Connected" => Held' = {fd'} /\ reg' = {<<fd', "DataWaiting">>}
  <2>1. (/\ conSndState = "Closed" => Held = {} /\ reg = {}
         /\ conSndState = "Connecting" => Held = {fd} /\ reg = {<<fd, "BufferEmpty">>}
         /\ conSndState = "Connected" => Held = {fd} /\ reg = {<<fd, "DataWaiting">>})'
    BY HeldByState, PTL
  <2> QED
    BY <2>1
<1> HIDE DEF Held
<1>3. ASSUME conSndState # "Closed", conSndState' = "Closed", fd' = fd
      PROVE  Step
  <2>1. Own!End
    BY <1>1, <1>2, <1>3 DEF Own!End, Held, SndStates
  <2> QED
    BY <2>1 DEF Own!ConnectionNext
<1>4. ASSUME conSndState' = conSndState, fd' = fd
      PROVE  Step
  BY <1>1, <1>2, <1>4 DEF SndStates
<1>5. CASE Abbau
  BY <1>3, <1>4, <1>5 DEF Abbau
<1>6. CASE ~IsConnected /\ conSndState # "Connecting" /\ Connect(dynamic_addr')
  <2>0. conSndState = "Closed"
    BY <1>1, <1>6 DEF IsConnected, SndStates
  <2>1. CASE UNCHANGED ownVars
    BY <2>1, <1>4 DEF ownVars
  <2>2. ASSUME NEW f \in Fds, fd' = f, conSndState' = "Connecting"
        PROVE  Step
    <3>1. Own!Begin(f)
      BY <1>1, <1>2, <2>0, <2>2 DEF Own!Begin, Own!Opened, Held
    <3> QED
      BY <2>2, <3>1 DEF Own!ConnectionNext
  <2>3. ASSUME NEW f \in Fds, fd' = f, conSndState' = "Closed"
        PROVE  Step
    <3>1. Own!FailAtOnce(f)
      BY <1>1, <1>2, <2>0, <2>3 DEF Own!FailAtOnce, Held
    <3> QED
      BY <2>3, <3>1 DEF Own!ConnectionNext
  <2> QED
    BY <1>6, <2>1, <2>2, <2>3, ConnectCases
<1>7. ASSUME NEW f \in Fds, OwnWriteEvent(f)
      PROVE  Step
  <2>1. fd' = fd /\ conSndState = "Connecting" /\ conSndState' \in {"Closed", "Connected"}
    BY <1>1, <1>7 DEF OwnWriteEvent, SndStates
  <2>2. CASE conSndState' = "Closed"
    BY <1>3, <2>1, <2>2
  <2>3. CASE conSndState' = "Connected"
    <3>1. Own!Establish
      BY <1>1, <1>2, <2>1, <2>3 DEF Own!Establish, Own!Opened, Own!Arrived, Held
    <3> QED
      BY <3>1 DEF Own!ConnectionNext
  <2> QED
    BY <2>1, <2>2, <2>3
<1>8. ASSUME NEW f \in Fds, ConnectDone(f) \/ PeerLeaves(f)
      PROVE  Step
  BY <1>4, <1>8 DEF ConnectDone, PeerLeaves, KernelStep
<1>9. CASE UNCHANGED ownVars
  BY <1>4, <1>9 DEF ownVars
<1> QED
  BY OwnCases, <1>5, <1>6, <1>7, <1>8, <1>9

-----------------------------------------------------------------------------
LEMMA InductiveInit == Init => Inductive
<1> SUFFICES ASSUME Init PROVE Inductive
  OBVIOUS
<1> USE ConstantsAssumption DEF Init
<1>1. TypeOK
  <2>1. /\ sock \in [Fds -> SockStates]
        /\ peer \in [Accs -> Addr \cup {None}]
        /\ acceptance \in
             [Addr -> Accs \cup IF Dynamic THEN {None, Null} ELSE {None}]
    BY DEF SockStates
  <2>2. /\ connState \in ConnStates
        /\ conSndState \in SndStates
        /\ bufQueue \in 0..MaxBuf
        /\ lastReport \in Reports
    BY DEF ConnStates, SndStates, Reports
  <2> QED
    BY <2>1, <2>2 DEF TypeOK
<1>2. GoneIsLive /\ NoHandleNoEvents /\ NoDangling /\ PausedIsClosed
  BY DEF GoneIsLive, NoHandleNoEvents, NoDangling, PausedIsClosed
<1>3. OwnHandleWatched /\ NoOrphan /\ SocketDiscipline
  BY DEF OwnHandleWatched, FdOpen, NoOrphan, Live, SocketDiscipline
<1>4. LastReportTrue /\ ConfiguredIsConnected
  BY DEF LastReportTrue, ConfiguredIsConnected
<1> QED
  BY <1>1, <1>2, <1>3, <1>4 DEF Inductive, Base

LEMMA InductiveStep == Inductive /\ [Next]_vars => Inductive'
<1> SUFFICES ASSUME Inductive, [Next]_vars
             PROVE  Inductive'
  OBVIOUS
<1>1. TypeOK /\ GoneIsLive /\ NoHandleNoEvents /\ NoDangling
      /\ OwnHandleWatched /\ PausedIsClosed
  BY DEF Inductive, Base
<1>2. TypeOK' /\ GoneIsLive' /\ NoHandleNoEvents' /\ NoDangling'
  BY <1>1, TypeStep, GoneStep, NoHandleStep, DanglingStep
<1>3. OwnHandleWatched' /\ PausedIsClosed'
  BY <1>1, WatchedStep, PausedStep
<1>4. ~PortReuse => NoOrphan'
  BY <1>1, OrphanStep DEF Inductive
<1>5. ~Impatient => SocketDiscipline'
  BY <1>1, SocketStep DEF Inductive
<1>6. ~PortReuse => LastReportTrue'
  BY <1>1, LastReportStep DEF Inductive
<1>7. ~Dynamic => ConfiguredIsConnected'
  BY <1>1, ConfiguredStep DEF Inductive
<1> QED
  BY <1>2, <1>3, <1>4, <1>5, <1>6, <1>7 DEF Inductive, Base

LEMMA AlwaysInductive == Spec => []Inductive
BY InductiveInit, InductiveStep, PTL DEF Spec

-----------------------------------------------------------------------------
(* What the proof is for. *)

\* Every variable keeps to its values, in every mode of the module.
THEOREM TypeCorrect == Spec => []TypeOK
<1>1. Inductive => TypeOK
  BY DEF Inductive, Base
<1> QED
  BY <1>1, AlwaysInductive, PTL

\* However often the map of acceptances is changed, by peers coming and going,
\* by lookups and by abbau, none of its entries leads to a freed object.
THEOREM NeverDangling == Spec => []NoDangling
<1>1. Inductive => NoDangling
  BY DEF Inductive
<1> QED
  BY <1>1, AlwaysInductive, PTL

\* A stopped module has no connection of its own, even if TopMan repeated its
\* connect requests and old handles still raise events.
THEOREM PausedClosed == Spec => [](PausedIsClosed /\ OwnHandleWatched)
<1>1. Inductive => PausedIsClosed /\ OwnHandleWatched
  BY DEF Inductive
<1> QED
  BY <1>1, AlwaysInductive, PTL

\* The handle in use is watched for the event its state needs (connect,
\* doWriteEvent, abbau).
THEOREM OwnHandleAlwaysWatched == Spec => []OwnHandleWatched
<1> QED
  BY PausedClosed, PTL

\* If no peer returns from a port before its old connection has been noticed
\* to be gone, then no acceptance is ever lost from the map.
THEOREM NeverOrphan == ~PortReuse /\ Spec => []NoOrphan
<1>1. Inductive /\ ~PortReuse => NoOrphan
  BY DEF Inductive
<1>2. CASE PortReuse
  BY <1>2
<1>3. CASE ~PortReuse
  <2>1. Inductive => NoOrphan
    BY <1>1, <1>3
  <2> QED
    BY <2>1, AlwaysInductive, PTL
<1> QED
  BY <1>2, <1>3

\* If TopMan waits for the outcome of a connect before it asks again, the
\* module holds its one handle only, and waits for what its state needs.
THEOREM SocketsKept == ~Impatient /\ Spec => []SocketDiscipline
<1>1. CASE Impatient
  BY <1>1
<1>2. CASE ~Impatient
  <2>1. Inductive => SocketDiscipline
    BY <1>2 DEF Inductive
  <2> QED
    BY <2>1, AlwaysInductive, PTL
<1> QED
  BY <1>1, <1>2

\* However connections of the module's own and accepted ones begin, end and are
\* torn down together, the last word TopMan has had of it is not that there is a
\* connection when there is none, or when the module is stopped.
THEOREM LastWordTrue == ~PortReuse /\ Spec => []LastReportTrue
<1>1. CASE PortReuse
  BY <1>1
<1>2. CASE ~PortReuse
  <2>1. Inductive => LastReportTrue
    BY <1>2 DEF Inductive
  <2> QED
    BY <2>1, AlwaysInductive, PTL
<1> QED
  BY <1>1, <1>2

\* TopMan is never left believing in the connection to the configured partner,
\* whatever ends it and whatever peers are accepted beside it.
THEOREM ConfiguredTold == ~Dynamic /\ Spec => []ConfiguredIsConnected
<1>1. CASE Dynamic
  BY <1>1
<1>2. CASE ~Dynamic
  <2>1. Inductive => ConfiguredIsConnected
    BY <1>2 DEF Inductive
  <2> QED
    BY <2>1, AlwaysInductive, PTL
<1> QED
  BY <1>1, <1>2

\* For any number of handles and peers: if TopMan waits for the outcome of a
\* connect before it asks again, connect, doWriteEvent, doReadEvent and abbau
\* implement a connection that holds one handle at a time, and gives it back
\* with its registrations before the next one begins.
THEOREM ConnectionImplemented == ~Impatient /\ Spec => OneConnectionAtATime
<1>1. CASE Impatient
  BY <1>1
<1>2. CASE ~Impatient
  <2>1. Init => Own!ConnectionInit
    BY DEF Init, Own!ConnectionInit
  <2>2. Inductive /\ Inductive' /\ [Next]_vars
          => [Own!ConnectionNext]_<<conSndState, fd, {f \in Fds : sock[f] # "free"}, reg>>
    BY <1>2, OwnStep DEF Inductive, Base, Held
  <2> QED
    BY <2>1, <2>2, AlwaysInductive, PTL DEF Spec, OneConnectionAtATime, Own!ConnectionSpec
<1> QED
  BY <1>1, <1>2

\* Every end, of the connection the module has opened and of each accepted one,
\* makes the report of an end the last that TopMan has, in the very step in which
\* the module learns of it, however many abbau ends at once.
THEOREM EndsTold == ~PortReuse /\ Spec => EndIsTold
<1>1. CASE PortReuse
  BY <1>1
<1>2. CASE ~PortReuse
  <2>1. Inductive /\ [Next]_vars
          => [\/ IsConnected /\ conSndState' # "Connected"
              \/ \E a \in Accs : Live(a) /\ peer'[a] # peer[a]
              => lastReport' = "beendet"]_vars
    BY <1>2, EndStep DEF Inductive, Base
  <2> QED
    BY <2>1, AlwaysInductive, PTL DEF Spec, EndIsTold
<1> QED
  BY <1>1, <1>2

=============================================================================
