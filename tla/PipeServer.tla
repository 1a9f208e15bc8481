----------------------------- MODULE PipeServer -----------------------------
(***************************************************************************)
(* cPIPE_SERVER: the server end of a named pipe (Windows), of a module or  *)
(* of the command channel.  connectPipe waits for a client, doWriteEvent   *)
(* starts to read from it, doReadEvent takes what it wrote; a read that    *)
(* ends without data means that the client is gone: the pipe is            *)
(* disconnected and connected again.  One OVERLAPPED structure, with one   *)
(* event, serves the connect and all the reads.                            *)
(*                                                                         *)
(* Nothing takes back a connect that waits, so the event loop, TopMan and  *)
(* the clients meet in every order; and a client may be gone before the    *)
(* program has noticed it.                                                 *)
(*                                                                         *)
(* External: the pipe (one instance: "listening" can be opened, "closing"  *)
(* has been left by its client, "down" cannot be opened until the next     *)
(* ConnectNamedPipe), and the event loop, for which the last registration  *)
(* counts.  Left out: the octets, receiveData, which changes no state, and *)
(* a CreateNamedPipe that fails.                                           *)
(***************************************************************************)
EXTENDS Naturals

CONSTANTS MaxReads,      \* bound: run is repeated while fewer reads are outstanding
          MaxTelegrams   \* bound: telegrams a client writes before it leaves

ASSUME PipeServerAssumption == MaxReads \in Nat \ {0} /\ MaxTelegrams \in Nat

VARIABLES
    connState,    \* TopoDataReceive::connState
    registered,   \* the callback registered last for pipeOverlapped.hEvent
    pipe,         \* kernel: the state of the pipe
    connecting,   \* kernel: a ConnectNamedPipe waits for a client
    reads,        \* kernel: the ReadFiles that wait for data
    event,        \* pipeOverlapped: event and result, if it is signalled
    unread,       \* kernel: telegrams no ReadFile has taken
    started,      \* event loop: doStartEvent has been called
    asked,        \* ghost: connectPipe has been called since the last stop
    written,      \* ghost: telegrams the latest client has written,
    heard,        \* ghost: and those of them that TopMan has got
    repeated      \* ghost: run found that client connected already

kernel == <<pipe, connecting, reads, event, unread>>
ghosts == <<asked, written, heard, repeated>>
vars == <<connState, registered, kernel, started, ghosts>>

Init ==
    /\ connState = "Paused"
    /\ registered = "start"
    /\ pipe = "listening"
    /\ connecting = FALSE
    /\ reads = 0
    /\ event = "none"
    /\ unread = 0
    /\ started = FALSE
    /\ asked = FALSE
    /\ written = 0
    /\ heard = 0
    /\ repeated = FALSE

-----------------------------------------------------------------------------
(* Pieces of the handlers, given pipe = p, reads = r and unread = u.       *)
(* ReadFile and ConnectNamedPipe reset the event.                          *)

\* ReadFile finds data, waits, or fails because the client is gone; then the
\* event is not signalled.
StartRead(p, r, u) ==
    IF u > 0
    THEN unread' = u - 1 /\ event' = "data" /\ reads' = r
    ELSE unread' = u /\ event' = "none" /\ reads' = IF p = "up" THEN r + 1 ELSE r

\* doWriteEvent
ClientConnected(p, r, u) ==
    /\ connState' = "Running"
    /\ registered' = "read"
    /\ StartRead(p, r, u)
    /\ pipe' = p
    /\ UNCHANGED connecting

\* ConnectNamedPipe waits for a client, or fails for good because the last
\* one is gone (ERROR_NO_DATA); connState = c.
AwaitClient(p, r, u, c) ==
    /\ connState' = c
    /\ registered' = "write"
    /\ event' = "none" /\ reads' = r /\ unread' = u
    /\ IF p = "closing" THEN pipe' = p /\ UNCHANGED connecting
                        ELSE pipe' = "listening" /\ connecting' = TRUE

\* Faulty variant: ERROR_PIPE_CONNECTED is not recognised, because the log
\* written in between has left another error code.
ConnectPipeSlip(p, r, u, c) ==
    IF p = "up" THEN /\ connState' = c /\ registered' = "write" /\ event' = "none"
                     /\ reads' = r /\ unread' = u /\ pipe' = p
                     /\ UNCHANGED connecting
                ELSE AwaitClient(p, r, u, c)
\* connectPipe, runData
ConnectPipe(p, r, u, c) ==
    IF p = "up" THEN ClientConnected(p, r, u) ELSE AwaitClient(p, r, u, c)

-----------------------------------------------------------------------------
(* Calls of TopMan and of the event loop. *)

\* start, run
RunData ==
    /\ reads < MaxReads
    /\ ConnectPipe(pipe, reads, unread, connState)
    /\ asked' = TRUE
    /\ repeated' = (repeated \/ connState = "Running")
    /\ UNCHANGED <<started, written, heard>>

\* Once, after the construction.
DoStartEvent ==
    /\ ~started /\ started' = TRUE
    /\ reads < MaxReads
    /\ ConnectPipe(pipe, reads, unread, connState)
    /\ asked' = TRUE
    /\ repeated' = (repeated \/ connState = "Running")
    /\ UNCHANGED <<written, heard>>

\* Faulty variant: the client is not disconnected.
StopDataSlip ==
    /\ connState' = "Paused"
    /\ asked' = FALSE
    /\ UNCHANGED <<registered, kernel, started, written, heard, repeated>>
\* stop.  DisconnectNamedPipe ends the reads, and so signals the event.
StopData ==
    /\ IF connState = "Running"
       THEN /\ pipe' = "down"
            /\ reads' = 0 /\ unread' = 0
            /\ event' = IF reads > 0 THEN "end" ELSE event
            /\ UNCHANGED connecting
       ELSE UNCHANGED kernel
    /\ connState' = "Paused"
    /\ asked' = FALSE
    /\ UNCHANGED <<registered, started, written, heard, repeated>>

\* A client has connected.
DoWriteEvent ==
    /\ event # "none" /\ registered = "write"
    /\ ClientConnected(pipe, reads, unread)
    /\ UNCHANGED <<started, ghosts>>

\* Faulty variant: the pipe is not connected again.
ReconnectSlip ==
    /\ event \in {"connect", "end"} /\ registered = "read"
    /\ connState' = "Paused"
    /\ IF connState = "Running" THEN pipe' = "down" /\ reads' = 0 /\ unread' = 0
                                ELSE UNCHANGED <<pipe, reads, unread>>
    /\ event' = "none"
    /\ UNCHANGED <<registered, connecting, started, ghosts>>
\* doReadEvent without data: stopData, runData.  The event that stopData may
\* signal is reset by runData.
Reconnect ==
    /\ event \in {"connect", "end"} /\ registered = "read"
    /\ IF connState = "Running" THEN ConnectPipe("down", 0, 0, "Paused")
                                ELSE ConnectPipe(pipe, reads, unread, "Paused")
    /\ UNCHANGED <<started, ghosts>>

\* Faulty variant: reads on before it hands up what it has.
HandUpSlip == heard' = IF connState = "Running" THEN heard + unread ELSE heard
\* writeTopoData for the telegram that has been read and for all those the
\* loop finds after it.  For a module that is not in operation they are lost.
HandUp == heard' = IF connState = "Running" THEN heard + 1 + unread ELSE heard

\* Faulty variant: the next read is started only if there were more data.
ReadDataSlip ==
    /\ event = "data" /\ registered = "read"
    /\ HandUp
    /\ IF unread > 0 THEN StartRead(pipe, reads, 0)
                     ELSE event' = "none" /\ UNCHANGED <<reads, unread>>
    /\ UNCHANGED <<connState, registered, pipe, connecting, started, asked, written, repeated>>
\* doReadEvent with data reads on until there are no more.
ReadData ==
    /\ event = "data" /\ registered = "read"
    /\ HandUp
    /\ StartRead(pipe, reads, 0)
    /\ UNCHANGED <<connState, registered, pipe, connecting, started, asked, written, repeated>>

DoReadEvent == Reconnect \/ ReadData

-----------------------------------------------------------------------------
(* The client, another program. *)

Opens ==
    /\ pipe = "listening" /\ pipe' = "up"
    /\ event' = IF connecting THEN "connect" ELSE event
    /\ connecting' = FALSE
    /\ written' = 0 /\ heard' = 0 /\ repeated' = FALSE
    /\ UNCHANGED <<connState, registered, reads, unread, started, asked>>

Writes ==
    /\ pipe = "up" /\ written < MaxTelegrams
    /\ written' = written + 1
    /\ IF reads > 0 THEN reads' = reads - 1 /\ event' = "data" /\ UNCHANGED unread
                    ELSE unread' = unread + 1 /\ UNCHANGED <<reads, event>>
    /\ UNCHANGED <<connState, registered, pipe, connecting, started, asked, heard, repeated>>

\* What it has written can be read all the same.
Leaves ==
    /\ pipe = "up" /\ pipe' = "closing"
    /\ reads' = 0
    /\ event' = IF reads > 0 THEN "end" ELSE event
    /\ UNCHANGED <<connState, registered, connecting, unread, started, ghosts>>

Next ==
    \/ RunData \/ StopData
    \/ DoStartEvent \/ DoWriteEvent \/ DoReadEvent
    \/ Opens \/ Writes \/ Leaves

Spec == Init /\ [][Next]_vars

\* The event loop reports what is signalled.
FairSpec == Spec /\ WF_vars(DoWriteEvent) /\ WF_vars(DoReadEvent)

-----------------------------------------------------------------------------
(* Properties. *)

TypeOK ==
    /\ connState \in {"Paused", "Running"}
    /\ registered \in {"start", "write", "read"}
    /\ pipe \in {"listening", "up", "closing", "down"}
    /\ connecting \in BOOLEAN
    /\ reads \in 0 .. MaxReads
    /\ event \in {"none", "connect", "data", "end"}
    /\ unread \in 0 .. MaxTelegrams
    /\ started \in BOOLEAN
    /\ asked \in BOOLEAN
    /\ written \in 0 .. MaxTelegrams
    /\ heard \in 0 .. MaxTelegrams
    /\ repeated \in BOOLEAN

\* In whatever order stop, run and the events come: a module reads only from
\* a client that is there, and only while it is in operation.  (doReadEvent
\* throws away what arrives for a module that is Paused.)
ReadsInOperation == reads > 0 => pipe = "up" /\ connState = "Running"

\* As long as the client of a module in operation stays the module will hear
\* of it: a read is outstanding, or the event for the next one on its way.
ClientHeard ==
    pipe = "up" /\ connState = "Running" =>
        reads > 0 \/ (event # "none" /\ registered = "read")

\* Whatever a client writes, and whether it stays or not, TopMan gets all of
\* it up to what still waits to be read: as long as run is not repeated for a
\* client that is connected, for then the one buffer, and the one event, are
\* used for the next read before the last one has been looked at.
NoneSkipped ==
    connState = "Running" /\ ~repeated =>
        heard + unread + (IF event = "data" THEN 1 ELSE 0) = written

\* "auf neuen Client warten": a server that is to run and has no client waits
\* for one.  The exception is a pipe that its last client has left unnoticed.
WaitsForClients == asked /\ pipe \in {"listening", "down"} => connecting

\* A client that stays is served, unless the module is stopped.
Served == asked /\ pipe = "up" ~> connState = "Running" \/ ~asked \/ pipe # "up"

=============================================================================
