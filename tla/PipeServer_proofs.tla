-------------------------- MODULE PipeServer_proofs --------------------------
(***************************************************************************)
(* Proofs about PipeServer, for every number of reads and of telegrams.    *)
(*                                                                         *)
(* The invariant follows one client from the connect to the end: which     *)
(* callback is registered for the event that can come next (Turns, Single),*)
(* where a module can be that is not in operation (Idle), and where the    *)
(* telegrams are (Accounted).                                              *)
(***************************************************************************)
EXTENDS PipeServer, TLAPS

Buffered == IF event = "data" THEN 1 ELSE 0

\* One operation at a time: who waits, for what, and who will be called.
Turns ==
    /\ connecting => pipe = "listening" /\ registered = "write"
    /\ reads > 0 => registered = "read" /\ unread = 0
    /\ event = "connect" => registered = "write" /\ connState = "Paused"
    /\ event \in {"data", "end"} => registered = "read"
    /\ event = "end" => pipe \in {"closing", "down"}
    /\ event = "data" /\ pipe = "up" => reads < MaxReads
    /\ pipe = "listening" => event = "none"

\* A module that is not in operation has no client, or one it has taken
\* nothing from.
Idle ==
    /\ pipe \in {"listening", "down"} =>
           connState = "Paused" /\ unread = 0 /\ event # "connect"
    /\ connState = "Paused" /\ pipe \in {"up", "closing"} =>
           heard = 0 /\ unread = written /\ event \in {"none", "connect"}

\* Nothing is heard that has not been written.
Accounted == connState = "Running" => heard + unread + Buffered <= written

\* Unless run is repeated there is one read at a time.
Single == ~repeated => reads + Buffered <= 1

Inv ==
    /\ TypeOK
    /\ Turns
    /\ Idle
    /\ Accounted
    /\ Single
    /\ ReadsInOperation
    /\ ClientHeard
    /\ WaitsForClients
    /\ NoneSkipped

\* TypeOK, apart for the provers.
Names ==
    /\ connState \in {"Paused", "Running"}
    /\ registered \in {"start", "write", "read"}
    /\ pipe \in {"listening", "up", "closing", "down"}
    /\ event \in {"none", "connect", "data", "end"}
Flags ==
    connecting \in BOOLEAN /\ started \in BOOLEAN /\ asked \in BOOLEAN /\ repeated \in BOOLEAN
Numbers ==
    /\ reads \in 0 .. MaxReads
    /\ unread \in 0 .. MaxTelegrams
    /\ written \in 0 .. MaxTelegrams
    /\ heard \in 0 .. MaxTelegrams

LEMMA TypeParts == TypeOK <=> Names /\ Flags /\ Numbers
BY DEF TypeOK, Names, Flags, Numbers

\* Inv, in the parts the provers take one at a time.
Parts ==
    /\ Names /\ Flags /\ Numbers
    /\ Turns /\ Idle /\ Accounted /\ NoneSkipped /\ Single
    /\ ReadsInOperation /\ ClientHeard /\ WaitsForClients

LEMMA InvParts == Inv <=> Parts
BY TypeParts DEF Inv, Parts

LEMMA ServerInit == Init => Inv
<1> SUFFICES ASSUME Init PROVE Parts
  BY InvParts
<1>1. Names /\ Flags
  BY DEF Init, Names, Flags
<1>2. Numbers
  BY PipeServerAssumption DEF Init, Numbers
<1>3. Turns /\ Idle
  BY DEF Init, Turns, Idle
<1>4. Accounted /\ NoneSkipped /\ Single
  BY DEF Init, Accounted, NoneSkipped, Single, Buffered
<1>5. ReadsInOperation /\ ClientHeard /\ WaitsForClients
  BY DEF Init, ReadsInOperation, ClientHeard, WaitsForClients
<1> QED
  BY <1>1, <1>2, <1>3, <1>4, <1>5 DEF Parts

LEMMA ServerStep == Inv /\ [Next]_vars => Inv'
<1> SUFFICES ASSUME Parts, [Next]_vars PROVE Parts'
  BY DEF Inv, Parts, TypeOK, Names, Flags, Numbers
<1> USE PipeServerAssumption DEF Names
<1>0. /\ Names /\ Flags /\ Numbers
      /\ Turns /\ Idle /\ Accounted /\ NoneSkipped /\ Single
      /\ ReadsInOperation /\ ClientHeard /\ WaitsForClients
  BY DEF Parts
<1>1. CASE RunData
  <2>1. Names'
    BY <1>0, <1>1 DEF RunData, ConnectPipe, ClientConnected, AwaitClient, StartRead, Turns, Idle
  <2>2. Flags'
    BY <1>0, <1>1 DEF RunData, ConnectPipe, ClientConnected, AwaitClient, StartRead, Flags
  <2>3. Numbers'
    BY <1>0, <1>1 DEF RunData, ConnectPipe, ClientConnected, AwaitClient, StartRead, Numbers, Turns, Idle, Accounted, ReadsInOperation, Buffered
  <2>4. Turns'
    BY <1>0, <1>1 DEF RunData, ConnectPipe, ClientConnected, AwaitClient, StartRead, Numbers, Turns, Idle, ReadsInOperation
  <2>5. Idle'
    BY <1>0, <1>1 DEF RunData, ConnectPipe, ClientConnected, AwaitClient, StartRead, Numbers, Turns, Idle, ReadsInOperation
  <2>6. Accounted' /\ NoneSkipped' /\ Single'
    <3>1. Accounted'
      BY <1>0, <1>1 DEF RunData, ConnectPipe, ClientConnected, AwaitClient, StartRead, Numbers, Turns, Idle, Accounted, ReadsInOperation, Buffered
    <3>2. NoneSkipped' /\ Single'
      <4>0. SUFFICES ASSUME ~repeated'
                     PROVE  /\ connState' = "Running" => heard' + unread' + Buffered' = written'
                            /\ reads' + Buffered' <= 1
        BY DEF NoneSkipped, Single, Buffered
      <4>1. connState # "Running"
        BY <1>0, <1>1, <4>0 DEF RunData, Flags
      <4>2. ConnectPipe(pipe, reads, unread, connState) /\ UNCHANGED <<written, heard>>
        BY <1>1, <4>0 DEF RunData
      <4> QED
        BY <1>0, <4>1, <4>2 DEF ConnectPipe, ClientConnected, AwaitClient, StartRead, Numbers, Turns, Idle, ReadsInOperation, Buffered
    <3> QED
      BY <3>1, <3>2
  <2>7. ReadsInOperation' /\ ClientHeard' /\ WaitsForClients'
    BY <1>0, <1>1 DEF RunData, ConnectPipe, ClientConnected, AwaitClient, StartRead, Numbers, Turns, Idle, ReadsInOperation, ClientHeard, WaitsForClients
  <2> QED
    BY <2>1, <2>2, <2>3, <2>4, <2>5, <2>6, <2>7 DEF Parts
<1>2. CASE StopData
  <2>1. Names'
    BY <1>0, <1>2 DEF StopData, kernel, Turns, Idle
  <2>2. Flags'
    BY <1>0, <1>2 DEF StopData, kernel, Flags
  <2>3. Numbers'
    BY <1>0, <1>2 DEF StopData, kernel, Numbers, Turns, Idle, Accounted, ReadsInOperation, Buffered
  <2>4. Turns'
    BY <1>0, <1>2 DEF StopData, kernel, Numbers, Turns, Idle, ReadsInOperation
  <2>5. Idle'
    BY <1>0, <1>2 DEF StopData, kernel, Numbers, Turns, Idle, ReadsInOperation
  <2>6. Accounted' /\ NoneSkipped' /\ Single'
    BY <1>0, <1>2 DEF StopData, kernel, Numbers, Turns, Idle, Accounted, NoneSkipped, Single, ReadsInOperation, Buffered
  <2>7. ReadsInOperation' /\ ClientHeard' /\ WaitsForClients'
    BY <1>0, <1>2 DEF StopData, kernel, Numbers, Turns, Idle, ReadsInOperation, ClientHeard, WaitsForClients
  <2> QED
    BY <2>1, <2>2, <2>3, <2>4, <2>5, <2>6, <2>7 DEF Parts
<1>3. CASE DoStartEvent
  <2>1. Names'
    BY <1>0, <1>3 DEF DoStartEvent, ConnectPipe, ClientConnected, AwaitClient, StartRead, Turns, Idle
  <2>2. Flags'
    BY <1>0, <1>3 DEF DoStartEvent, ConnectPipe, ClientConnected, AwaitClient, StartRead, Flags
  <2>3. Numbers'
    BY <1>0, <1>3 DEF DoStartEvent, ConnectPipe, ClientConnected, AwaitClient, StartRead, Numbers, Turns, Idle, Accounted, ReadsInOperation, Buffered
  <2>4. Turns'
    BY <1>0, <1>3 DEF DoStartEvent, ConnectPipe, ClientConnected, AwaitClient, StartRead, Numbers, Turns, Idle, ReadsInOperation
  <2>5. Idle'
    BY <1>0, <1>3 DEF DoStartEvent, ConnectPipe, ClientConnected, AwaitClient, StartRead, Numbers, Turns, Idle, ReadsInOperation
  <2>6. Accounted' /\ NoneSkipped' /\ Single'
    <3>1. Accounted'
      BY <1>0, <1>3 DEF DoStartEvent, ConnectPipe, ClientConnected, AwaitClient, StartRead, Numbers, Turns, Idle, Accounted, ReadsInOperation, Buffered
    <3>2. NoneSkipped' /\ Single'
      <4>0. SUFFICES ASSUME ~repeated'
                     PROVE  /\ connState' = "Running" => heard' + unread' + Buffered' = written'
                            /\ reads' + Buffered' <= 1
        BY DEF NoneSkipped, Single, Buffered
      <4>1. connState # "Running"
        BY <1>0, <1>3, <4>0 DEF DoStartEvent, Flags
      <4>2. ConnectPipe(pipe, reads, unread, connState) /\ UNCHANGED <<written, heard>>
        BY <1>3, <4>0 DEF DoStartEvent
      <4> QED
        BY <1>0, <4>1, <4>2 DEF ConnectPipe, ClientConnected, AwaitClient, StartRead, Numbers, Turns, Idle, ReadsInOperation, Buffered
    <3> QED
      BY <3>1, <3>2
  <2>7. ReadsInOperation' /\ ClientHeard' /\ WaitsForClients'
    BY <1>0, <1>3 DEF DoStartEvent, ConnectPipe, ClientConnected, AwaitClient, StartRead, Numbers, Turns, Idle, ReadsInOperation, ClientHeard, WaitsForClients
  <2> QED
    BY <2>1, <2>2, <2>3, <2>4, <2>5, <2>6, <2>7 DEF Parts
<1>4. CASE DoWriteEvent
  <2>1. Names'
    BY <1>0, <1>4 DEF DoWriteEvent, ClientConnected, StartRead, ghosts, Turns, Idle
  <2>2. Flags'
    BY <1>0, <1>4 DEF DoWriteEvent, ClientConnected, StartRead, ghosts, Flags
  <2>3. Numbers'
    BY <1>0, <1>4 DEF DoWriteEvent, ClientConnected, StartRead, ghosts, Numbers, Turns, Idle, Accounted, ReadsInOperation, Buffered
  <2>4. Turns'
    BY <1>0, <1>4 DEF DoWriteEvent, ClientConnected, StartRead, ghosts, Numbers, Turns, Idle, ReadsInOperation
  <2>5. Idle'
    BY <1>0, <1>4 DEF DoWriteEvent, ClientConnected, StartRead, ghosts, Numbers, Turns, Idle, ReadsInOperation
  <2>6. Accounted' /\ NoneSkipped' /\ Single'
    BY <1>0, <1>4 DEF DoWriteEvent, ClientConnected, StartRead, ghosts, Numbers, Turns, Idle, Accounted, NoneSkipped, Single, ReadsInOperation, Buffered
  <2>7. ReadsInOperation' /\ ClientHeard' /\ WaitsForClients'
    BY <1>0, <1>4 DEF DoWriteEvent, ClientConnected, StartRead, ghosts, Numbers, Turns, Idle, ReadsInOperation, ClientHeard, WaitsForClients
  <2> QED
    BY <2>1, <2>2, <2>3, <2>4, <2>5, <2>6, <2>7 DEF Parts
<1>5. CASE Reconnect
  <2>1. Names'
    BY <1>0, <1>5 DEF Reconnect, ConnectPipe, ClientConnected, AwaitClient, StartRead, ghosts, Turns, Idle
  <2>2. Flags'
    BY <1>0, <1>5 DEF Reconnect, ConnectPipe, ClientConnected, AwaitClient, StartRead, ghosts, Flags
  <2>3. Numbers'
    BY <1>0, <1>5 DEF Reconnect, ConnectPipe, ClientConnected, AwaitClient, StartRead, ghosts, Numbers, Turns, Idle, Accounted, ReadsInOperation, Buffered
  <2>4. Turns'
    BY <1>0, <1>5 DEF Reconnect, ConnectPipe, ClientConnected, AwaitClient, StartRead, ghosts, Numbers, Turns, Idle, ReadsInOperation
  <2>5. Idle'
    BY <1>0, <1>5 DEF Reconnect, ConnectPipe, ClientConnected, AwaitClient, StartRead, ghosts, Numbers, Turns, Idle, ReadsInOperation
  <2>6. Accounted' /\ NoneSkipped' /\ Single'
    BY <1>0, <1>5 DEF Reconnect, ConnectPipe, ClientConnected, AwaitClient, StartRead, ghosts, Numbers, Turns, Idle, Accounted, NoneSkipped, Single, ReadsInOperation, Buffered
  <2>7. ReadsInOperation' /\ ClientHeard' /\ WaitsForClients'
    BY <1>0, <1>5 DEF Reconnect, ConnectPipe, ClientConnected, AwaitClient, StartRead, ghosts, Numbers, Turns, Idle, ReadsInOperation, ClientHeard, WaitsForClients
  <2> QED
    BY <2>1, <2>2, <2>3, <2>4, <2>5, <2>6, <2>7 DEF Parts
<1>6. CASE ReadData
  <2>1. Names'
    BY <1>0, <1>6 DEF ReadData, HandUp, StartRead, Turns, Idle
  <2>2. Flags'
    BY <1>0, <1>6 DEF ReadData, HandUp, StartRead, Flags
  <2>3. Numbers'
    BY <1>0, <1>6 DEF ReadData, HandUp, StartRead, Numbers, Turns, Idle, Accounted, ReadsInOperation, Buffered
  <2>4. Turns'
    BY <1>0, <1>6 DEF ReadData, HandUp, StartRead, Numbers, Turns, Idle, ReadsInOperation
  <2>5. Idle'
    BY <1>0, <1>6 DEF ReadData, HandUp, StartRead, Numbers, Turns, Idle, ReadsInOperation
  <2>6. Accounted' /\ NoneSkipped' /\ Single'
    BY <1>0, <1>6 DEF ReadData, HandUp, StartRead, Numbers, Turns, Idle, Accounted, NoneSkipped, Single, ReadsInOperation, Buffered
  <2>7. ReadsInOperation' /\ ClientHeard' /\ WaitsForClients'
    BY <1>0, <1>6 DEF ReadData, HandUp, StartRead, Numbers, Turns, Idle, ReadsInOperation, ClientHeard, WaitsForClients
  <2> QED
    BY <2>1, <2>2, <2>3, <2>4, <2>5, <2>6, <2>7 DEF Parts
<1>7. CASE Opens
  <2>1. Names'
    BY <1>0, <1>7 DEF Opens, Turns, Idle
  <2>2. Flags'
    BY <1>0, <1>7 DEF Opens, Flags
  <2>3. Numbers'
    BY <1>0, <1>7 DEF Opens, Numbers, Turns, Idle, Accounted, ReadsInOperation, Buffered
  <2>4. Turns'
    BY <1>0, <1>7 DEF Opens, Numbers, Turns, Idle, ReadsInOperation
  <2>5. Idle'
    BY <1>0, <1>7 DEF Opens, Numbers, Turns, Idle, ReadsInOperation
  <2>6. Accounted' /\ NoneSkipped' /\ Single'
    BY <1>0, <1>7 DEF Opens, Numbers, Turns, Idle, Accounted, NoneSkipped, Single, ReadsInOperation, Buffered
  <2>7. ReadsInOperation' /\ ClientHeard' /\ WaitsForClients'
    BY <1>0, <1>7 DEF Opens, Numbers, Turns, Idle, ReadsInOperation, ClientHeard, WaitsForClients
  <2> QED
    BY <2>1, <2>2, <2>3, <2>4, <2>5, <2>6, <2>7 DEF Parts
<1>8. CASE Writes
  <2>1. Names'
    BY <1>0, <1>8 DEF Writes, Turns, Idle
  <2>2. Flags'
    BY <1>0, <1>8 DEF Writes, Flags
  <2>3. Numbers'
    BY <1>0, <1>8 DEF Writes, Numbers, Turns, Idle, Accounted, ReadsInOperation, Buffered
  <2>4. Turns'
    BY <1>0, <1>8 DEF Writes, Numbers, Turns, Idle, ReadsInOperation
  <2>5. Idle'
    BY <1>0, <1>8 DEF Writes, Numbers, Turns, Idle, ReadsInOperation
  <2>6. Accounted' /\ NoneSkipped' /\ Single'
    <3>1. Accounted'
      BY <1>0, <1>8 DEF Writes, Numbers, Turns, Idle, Accounted, ReadsInOperation, Buffered
    <3>2. NoneSkipped' /\ Single'
      <4>0. SUFFICES ASSUME ~repeated'
                     PROVE  /\ connState' = "Running" => heard' + unread' + Buffered' = written'
                            /\ reads' + Buffered' <= 1
        BY DEF NoneSkipped, Single, Buffered
      <4>1. /\ connState = "Running" => heard + unread + Buffered = written
            /\ reads + Buffered <= 1
        BY <1>0, <1>8, <4>0 DEF Writes, NoneSkipped, Single, Buffered
      <4>2. /\ pipe = "up" /\ written' = written + 1 /\ heard' = heard
            /\ connState' = connState
            /\ IF reads > 0 THEN reads' = reads - 1 /\ event' = "data" /\ unread' = unread
                            ELSE reads' = reads /\ event' = event /\ unread' = unread + 1
        BY <1>8, <4>0 DEF Writes
      <4> QED
        BY <1>0, <4>1, <4>2 DEF Numbers, Turns, Idle, ClientHeard, ReadsInOperation, Buffered
    <3> QED
      BY <3>1, <3>2
  <2>7. ReadsInOperation' /\ ClientHeard' /\ WaitsForClients'
    BY <1>0, <1>8 DEF Writes, Numbers, Turns, Idle, ReadsInOperation, ClientHeard, WaitsForClients
  <2> QED
    BY <2>1, <2>2, <2>3, <2>4, <2>5, <2>6, <2>7 DEF Parts
<1>9. CASE Leaves
  <2>1. Names'
    BY <1>0, <1>9 DEF Leaves, ghosts, Turns, Idle
  <2>2. Flags'
    BY <1>0, <1>9 DEF Leaves, ghosts, Flags
  <2>3. Numbers'
    BY <1>0, <1>9 DEF Leaves, ghosts, Numbers, Turns, Idle, Accounted, ReadsInOperation, Buffered
  <2>4. Turns'
    BY <1>0, <1>9 DEF Leaves, ghosts, Numbers, Turns, Idle, ReadsInOperation
  <2>5. Idle'
    BY <1>0, <1>9 DEF Leaves, ghosts, Numbers, Turns, Idle, ReadsInOperation
  <2>6. Accounted' /\ NoneSkipped' /\ Single'
    <3>1. Accounted'
      BY <1>0, <1>9 DEF Leaves, ghosts, Numbers, Turns, Idle, Accounted, ReadsInOperation, Buffered
    <3>2. NoneSkipped' /\ Single'
      <4>0. SUFFICES ASSUME ~repeated'
                     PROVE  /\ connState' = "Running" => heard' + unread' + Buffered' = written'
                            /\ reads' + Buffered' <= 1
        BY DEF NoneSkipped, Single, Buffered
      <4>1. /\ connState = "Running" => heard + unread + Buffered = written
            /\ reads + Buffered <= 1
        BY <1>0, <1>9, <4>0 DEF Leaves, ghosts, NoneSkipped, Single, Buffered
      <4>2. /\ event' = IF reads > 0 THEN "end" ELSE event
            /\ reads' = 0
            /\ UNCHANGED <<connState, written, heard, unread>>
        BY <1>9, <4>0 DEF Leaves, ghosts
      <4> QED
        BY <1>0, <4>1, <4>2 DEF Numbers, Turns, Idle, ClientHeard, ReadsInOperation, Buffered
    <3> QED
      BY <3>1, <3>2
  <2>7. ReadsInOperation' /\ ClientHeard' /\ WaitsForClients'
    BY <1>0, <1>9 DEF Leaves, ghosts, Numbers, Turns, Idle, ReadsInOperation, ClientHeard, WaitsForClients
  <2> QED
    BY <2>1, <2>2, <2>3, <2>4, <2>5, <2>6, <2>7 DEF Parts
<1>10. CASE UNCHANGED vars
  <2>1. Names'
    BY <1>0, <1>10 DEF vars, kernel, ghosts, Turns, Idle
  <2>2. Flags'
    BY <1>0, <1>10 DEF vars, kernel, ghosts, Flags
  <2>3. Numbers'
    BY <1>0, <1>10 DEF vars, kernel, ghosts, Numbers, Turns, Idle, Accounted, ReadsInOperation, Buffered
  <2>4. Turns'
    BY <1>0, <1>10 DEF vars, kernel, ghosts, Numbers, Turns, Idle, ReadsInOperation
  <2>5. Idle'
    BY <1>0, <1>10 DEF vars, kernel, ghosts, Numbers, Turns, Idle, ReadsInOperation
  <2>6. Accounted' /\ NoneSkipped' /\ Single'
    BY <1>0, <1>10 DEF vars, kernel, ghosts, Numbers, Turns, Idle, Accounted, NoneSkipped, Single, ReadsInOperation, Buffered
  <2>7. ReadsInOperation' /\ ClientHeard' /\ WaitsForClients'
    BY <1>0, <1>10 DEF vars, kernel, ghosts, Numbers, Turns, Idle, ReadsInOperation, ClientHeard, WaitsForClients
  <2> QED
    BY <2>1, <2>2, <2>3, <2>4, <2>5, <2>6, <2>7 DEF Parts
<1> QED
  BY <1>1, <1>2, <1>3, <1>4, <1>5, <1>6, <1>7, <1>8, <1>9, <1>10 DEF Next, DoReadEvent

\* The invariant and its parts hold in every state the program reaches.
THEOREM ServerKept == Spec => []Inv
<1> QED
  BY ServerInit, ServerStep, PTL DEF Spec

\* The state has its types: at most MaxReads reads of a client, no more heard
\* than was written.
THEOREM ServerTypes == Spec => []TypeOK
<1>1. Inv => TypeOK
  BY DEF Inv
<1> QED
  BY <1>1, ServerKept, PTL

\* A module reads from a client that is there, and only in operation.
THEOREM ReadsWhileRunning == Spec => []ReadsInOperation
<1>1. Inv => ReadsInOperation
  BY DEF Inv
<1> QED
  BY <1>1, ServerKept, PTL

\* A module in operation hears of its client as long as that stays.
THEOREM ClientAlwaysHeard == Spec => []ClientHeard
<1>1. Inv => ClientHeard
  BY DEF Inv
<1> QED
  BY <1>1, ServerKept, PTL

\* TopMan gets what a client wrote without a gap, unless run is repeated.
THEOREM NothingSkipped == Spec => []NoneSkipped
<1>1. Inv => NoneSkipped
  BY DEF Inv
<1> QED
  BY <1>1, ServerKept, PTL

\* A server that is to run and has no client waits for one, unless the last
\* one has left unnoticed.
THEOREM AlwaysWaits == Spec => []WaitsForClients
<1>1. Inv => WaitsForClients
  BY DEF Inv
<1> QED
  BY <1>1, ServerKept, PTL

=============================================================================
