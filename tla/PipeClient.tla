----------------------------- MODULE PipeClient -----------------------------
(***************************************************************************)
(* cPIPE_CLIENT: the client end of a named pipe (Windows).  runData opens  *)
(* the pipe and starts an overlapped read; if nobody serves the pipe a     *)
(* timer tries again later.  A read that ends without data means that the  *)
(* server is gone: the pipe is closed and opened again.  There is one      *)
(* OVERLAPPED structure, with one event, for all the reads of a module.    *)
(*                                                                         *)
(* Neither runData nor the timer looks at connState, stopData leaves the   *)
(* timer alone, and the event is never unregistered; so every callback may *)
(* come in every state, and the module has them come in every order.       *)
(*                                                                         *)
(* Left out: the octets, and receiveData, which writes to the pipe and     *)
(* changes no state.                                                       *)
(***************************************************************************)
CONSTANTS Handles,  \* handles the kernel has for this module
          None      \* INVALID_HANDLE_VALUE

ASSUME PipeAssumption == None \notin Handles

VARIABLES
    connState,   \* TopoDataReceive::connState
    pipeHandle,  \* cPIPE::pipeHandle
    timer,       \* the reconnect timer is running
    pipe,        \* kernel: what each handle is open on
    reading,     \* kernel: the handles with a ReadFile outstanding
    event,       \* pipeOverlapped: event and result, if it is signalled
    listening,   \* the server has an instance of the pipe nobody has opened
    wanted       \* ghost: TopMan's last word was run, not stop

vars == <<connState, pipeHandle, timer, pipe, reading, event, listening, wanted>>

Init ==
    /\ connState = "Paused"
    /\ pipeHandle = None
    /\ timer = FALSE
    /\ pipe = [h \in Handles |-> "free"]
    /\ reading = {}
    /\ event = "none"
    /\ listening \in BOOLEAN
    /\ wanted = FALSE

-----------------------------------------------------------------------------
(* Pieces of the handlers. *)

\* CloseHandle(pipeHandle): the kernel's handles afterwards, the reads, and
\* what the event may be.  Whether a read that is cancelled by the close
\* signals the event is left open.
Freed     == [h \in Handles |-> IF h = pipeHandle THEN "free" ELSE pipe[h]]
Remaining == reading \ {pipeHandle}
AfterClose(e) == IF pipeHandle \in reading THEN {e, "end"} ELSE {e}

\* ReadFile on the pipe h just opened, with p and r the other pipes and reads.
\* If the server has left already ReadFile fails, and there is no event.
StartRead(p, r, h) ==
    \/ pipe' = [p EXCEPT ![h] = "up"] /\ reading' = r \cup {h}
    \/ pipe' = [p EXCEPT ![h] = "broken"] /\ reading' = r

\* runData, given pipe = p and reading = r, if the server is there.  ReadFile
\* resets the event.
Connected(p, r) ==
    /\ listening
    /\ \E h \in Handles : p[h] = "free" /\ pipeHandle' = h /\ StartRead(p, r, h)
    /\ event' = "none"
    /\ connState' = "Running"
    /\ listening' = FALSE

\* Faulty variant: the timer is started for a module in operation only.
RetrySlip(c) == timer' = (timer \/ c = "Running")
\* pTimerInterface->StartTimer
Retry(c) == timer' = TRUE

\* runData, given also event = e and connState = c, if it is not.
NotConnected(p, r, e, c) ==
    /\ ~listening \/ \A h \in Handles : p[h] # "free"
    /\ pipeHandle' = None
    /\ Retry(c)
    /\ pipe' = p /\ reading' = r /\ event' = e /\ connState' = c
    /\ UNCHANGED listening

-----------------------------------------------------------------------------
(* Calls of TopMan, through cTOPOLOGIE. *)

\* start, run
RunData ==
    /\ wanted' = TRUE
    /\ \/ Connected(pipe, reading) /\ UNCHANGED timer
       \/ NotConnected(pipe, reading, event, connState)

\* Faulty variant: the handle is closed, and kept.
StopDataSlip ==
    /\ wanted' = FALSE
    /\ connState' = "Paused"
    /\ pipe' = Freed /\ reading' = Remaining /\ event' \in AfterClose(event)
    /\ UNCHANGED <<pipeHandle, timer, listening>>

\* stop
StopData ==
    /\ wanted' = FALSE
    /\ connState' = "Paused"
    /\ pipeHandle' = None
    /\ pipe' = Freed /\ reading' = Remaining /\ event' \in AfterClose(event)
    /\ UNCHANGED <<timer, listening>>

-----------------------------------------------------------------------------
(* Events. *)

\* Faulty variant: a stopped module is not to be revived.  But a module that
\* waits for its server is Paused, too.
TimerCallbackSlip ==
    /\ timer
    /\ \/ /\ connState = "Running"
          /\ \/ Connected(pipe, reading) /\ timer' = FALSE
             \/ NotConnected(pipe, reading, event, connState)
       \/ /\ connState = "Paused" /\ timer' = FALSE
          /\ UNCHANGED <<connState, pipeHandle, pipe, reading, event, listening>>
    /\ UNCHANGED wanted

\* The timer runs once; an attempt in vain starts it again.
TimerCallback ==
    /\ timer
    /\ \/ Connected(pipe, reading) /\ timer' = FALSE
       \/ NotConnected(pipe, reading, event, connState)
    /\ UNCHANGED wanted

\* doReadEvent without data: stopData, runData
Reconnect ==
    /\ event = "end"
    /\ \/ Connected(Freed, Remaining) /\ UNCHANGED timer
       \/ \E e \in AfterClose("none") : NotConnected(Freed, Remaining, e, "Paused")
    /\ UNCHANGED wanted

\* Faulty variant: the next read is started only if there were more data.
ReadOnSlip == UNCHANGED reading /\ event' = "none"
\* doReadEvent with data reads on until there are no more ("keine weiteren
\* Daten verfuegbar").  Without a server ReadFile may fail at once, without an
\* event, which looks the same; or the event comes.
ReadOn ==
    IF pipeHandle # None /\ pipe[pipeHandle] = "up"
    THEN reading' = reading \cup {pipeHandle} /\ event' = "none"
    ELSE /\ UNCHANGED reading
         /\ event' \in IF pipeHandle = None THEN {"none"} ELSE {"none", "end"}

ReadData ==
    /\ event = "data"
    /\ ReadOn
    /\ UNCHANGED <<connState, pipeHandle, timer, pipe, listening, wanted>>

DoReadEvent == Reconnect \/ ReadData

-----------------------------------------------------------------------------
(* The server, another program. *)

Listens ==
    /\ listening' = ~listening
    /\ UNCHANGED <<connState, pipeHandle, timer, pipe, reading, event, wanted>>

\* What it writes while no read is outstanding is found by ReadOn.
Writes(h) ==
    /\ h \in reading
    /\ reading' = reading \ {h}
    /\ event' = "data"
    /\ UNCHANGED <<connState, pipeHandle, timer, pipe, listening, wanted>>

Leaves(h) ==
    /\ pipe[h] = "up"
    /\ pipe' = [pipe EXCEPT ![h] = "broken"]
    /\ reading' = reading \ {h}
    /\ event' = IF h \in reading THEN "end" ELSE event
    /\ UNCHANGED <<connState, pipeHandle, timer, listening, wanted>>

Next ==
    \/ RunData \/ StopData
    \/ TimerCallback \/ DoReadEvent
    \/ Listens
    \/ \E h \in Handles : Writes(h) \/ Leaves(h)

Spec == Init /\ [][Next]_vars

\* The timer expires, the event loop reports what is signalled.
FairSpec == Spec /\ WF_vars(TimerCallback) /\ WF_vars(DoReadEvent)

-----------------------------------------------------------------------------
(* Properties. *)

TypeOK ==
    /\ connState \in {"Paused", "Running"}
    /\ pipeHandle \in Handles \cup {None}
    /\ timer \in BOOLEAN
    /\ pipe \in [Handles -> {"free", "up", "broken"}]
    /\ reading \subseteq Handles
    /\ event \in {"none", "data", "end"}
    /\ listening \in BOOLEAN
    /\ wanted \in BOOLEAN

\* In whatever order stop, run, timer and read event come: the module never
\* uses, or closes again, a handle that has been closed, and reads are
\* outstanding on pipes only that still are open.
HandlesValid ==
    /\ pipeHandle # None => pipe[pipeHandle] # "free"
    /\ \A h \in reading : pipe[h] = "up"

\* As long as the server is there the module will hear of it: a read is
\* outstanding on its pipe, or the event for the next one is on its way.
\* The event is shared, and reset by every ReadFile.
ServerHeard ==
    pipeHandle # None /\ pipe[pipeHandle] = "up" =>
        pipeHandle \in reading \/ event # "none"

\* "zyklisch versuchen wieder mit dem Server zu verbinden": a module that is
\* to run has a pipe, or the timer is running that will try again.
NeverGivesUp == wanted => pipeHandle # None \/ timer

\* Once somebody serves the pipe it is opened, unless all handles are lost.
Reconnects ==
    wanted /\ pipeHandle = None /\ listening /\ (\E h \in Handles : pipe[h] = "free")
        ~> pipeHandle # None \/ ~wanted \/ ~listening

=============================================================================
