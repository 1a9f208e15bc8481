----------------------------- MODULE Connection -----------------------------
(***************************************************************************)
(* What the connection a module opens itself promises to the kernel and to *)
(* the event loop: one handle at a time, held from the beginning of a      *)
(* connect to the end of the connection, and awaited for the outcome of    *)
(* the connect first and for data afterwards.  A connect begins only when  *)
(* everything of the one before is given back; no outcome arrives but that *)
(* of the connect under way, and it arrives once.                          *)
(***************************************************************************)
CONSTANTS Handles, None

VARIABLES state,     \* Closed, Connecting, Connected
          handle,    \* the handle used last
          held,      \* the handles that are not given back
          awaited    \* the events <<handle, event>> the loop is to report

Opened(h)  == <<h, "BufferEmpty">>
Arrived(h) == <<h, "DataWaiting">>

ConnectionInit ==
    /\ state = "Closed" /\ handle = None
    /\ held = {} /\ awaited = {}

\* A connect begins, and its outcome is awaited.
Begin(h) ==
    /\ state = "Closed" /\ held = {} /\ awaited = {}
    /\ state' = "Connecting" /\ handle' = h
    /\ held' = {h} /\ awaited' = {Opened(h)}

\* A connect fails before anything is awaited.
FailAtOnce(h) ==
    /\ state = "Closed" /\ held = {} /\ awaited = {}
    /\ handle' = h
    /\ UNCHANGED <<state, held, awaited>>

Establish ==
    /\ state = "Connecting" /\ held = {handle} /\ awaited = {Opened(handle)}
    /\ state' = "Connected" /\ awaited' = {Arrived(handle)}
    /\ UNCHANGED <<handle, held>>

\* The connect is refused, the other end has closed, or the module closes.
End ==
    /\ state # "Closed" /\ held = {handle}
    /\ state' = "Closed" /\ held' = {} /\ awaited' = {}
    /\ UNCHANGED handle

ConnectionNext ==
    \/ \E h \in Handles : Begin(h) \/ FailAtOnce(h)
    \/ Establish
    \/ End

ConnectionSpec ==
    ConnectionInit /\ [][ConnectionNext]_<<state, handle, held, awaited>>
=============================================================================
