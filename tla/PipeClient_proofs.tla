-------------------------- MODULE PipeClient_proofs --------------------------
(***************************************************************************)
(* The safety properties of the pipe client, for any number of handles.    *)
(* Together they are inductive.  runData is used by three handlers, each   *)
(* time on other pipes and reads; what it needs of them is that reads are  *)
(* outstanding on open pipes only.                                         *)
(***************************************************************************)
EXTENDS PipeClient, TLAPS

Pipes == [Handles -> {"free", "up", "broken"}]

ClientOK == TypeOK /\ HandlesValid /\ ServerHeard /\ NeverGivesUp

LEMMA ClientInit == Init => ClientOK
BY PipeAssumption DEF Init, ClientOK, TypeOK, HandlesValid, ServerHeard, NeverGivesUp

\* runData with a server leaves the module with a valid handle and a read.
LEMMA ConnectedOK ==
    ASSUME NEW p \in Pipes, NEW r, r \subseteq {h \in Handles : p[h] = "up"},
           Connected(p, r), timer' \in BOOLEAN, wanted' \in BOOLEAN
    PROVE  ClientOK'
<1> PICK h \in Handles : p[h] = "free" /\ pipeHandle' = h /\ StartRead(p, r, h)
  BY DEF Connected
<1>1. h # None
  BY PipeAssumption
<1>2. connState' = "Running" /\ event' = "none" /\ listening' = FALSE
  BY DEF Connected
<1>3. CASE pipe' = [p EXCEPT ![h] = "up"] /\ reading' = r \cup {h}
  <2>1. TypeOK'
    BY <1>2, <1>3 DEF TypeOK, Pipes
  <2>2. pipe'[h] = "up" /\ \A g \in Handles : g # h => pipe'[g] = p[g]
    BY <1>3 DEF Pipes
  <2>3. HandlesValid' /\ ServerHeard' /\ NeverGivesUp'
    BY <1>1, <1>3, <2>2 DEF HandlesValid, ServerHeard, NeverGivesUp
  <2> QED
    BY <2>1, <2>3 DEF ClientOK
<1>4. CASE pipe' = [p EXCEPT ![h] = "broken"] /\ reading' = r
  <2>1. TypeOK'
    BY <1>2, <1>4 DEF TypeOK, Pipes
  <2>2. pipe'[h] = "broken" /\ \A g \in Handles : g # h => pipe'[g] = p[g]
    BY <1>4 DEF Pipes
  <2>3. HandlesValid' /\ ServerHeard' /\ NeverGivesUp'
    BY <1>1, <1>4, <2>2 DEF HandlesValid, ServerHeard, NeverGivesUp
  <2> QED
    BY <2>1, <2>3 DEF ClientOK
<1> QED
  BY <1>3, <1>4 DEF StartRead

\* runData without a server leaves the module without a handle, and the timer
\* running.
LEMMA NotConnectedOK ==
    ASSUME NEW p \in Pipes, NEW r, r \subseteq {h \in Handles : p[h] = "up"},
           NEW e \in {"none", "data", "end"}, NEW c \in {"Paused", "Running"},
           NotConnected(p, r, e, c), wanted' \in BOOLEAN, listening \in BOOLEAN
    PROVE  ClientOK'
BY DEF NotConnected, Retry, ClientOK, TypeOK, HandlesValid, ServerHeard,
       NeverGivesUp, Pipes

\* Closing the handle ends the reads on it.
LEMMA ClosedOK ==
    ASSUME ClientOK
    PROVE  /\ Freed \in Pipes
           /\ Remaining \subseteq {h \in Handles : Freed[h] = "up"}
           /\ \A e \in {"none", "data", "end"} :
                AfterClose(e) \subseteq {"none", "data", "end"}
BY DEF ClientOK, TypeOK, HandlesValid, Freed, Remaining, AfterClose, Pipes

LEMMA ClientStep == ClientOK /\ [Next]_vars => ClientOK'
<1> SUFFICES ASSUME ClientOK, [Next]_vars PROVE ClientOK'
  OBVIOUS
<1> USE DEF Pipes
<1>1. /\ pipe \in Pipes /\ reading \subseteq {h \in Handles : pipe[h] = "up"}
      /\ event \in {"none", "data", "end"} /\ connState \in {"Paused", "Running"}
      /\ timer \in BOOLEAN /\ wanted \in BOOLEAN /\ listening \in BOOLEAN
  BY DEF ClientOK, TypeOK, HandlesValid
<1>2. CASE RunData
  BY <1>1, <1>2, ConnectedOK, NotConnectedOK DEF RunData
<1>3. CASE StopData
  <2>1. TypeOK'
    BY <1>1, <1>3, ClosedOK DEF StopData, TypeOK
  <2>2. pipeHandle' = None /\ ~wanted'
    BY <1>3 DEF StopData
  <2>3. \A h \in reading' : pipe'[h] = "up"
    BY <1>3, ClosedOK DEF StopData
  <2> QED
    BY <2>1, <2>2, <2>3 DEF ClientOK, HandlesValid, ServerHeard, NeverGivesUp
<1>4. CASE TimerCallback
  BY <1>1, <1>4, ConnectedOK, NotConnectedOK DEF TimerCallback
<1>5. CASE Reconnect
  <2>1. wanted' = wanted
    BY <1>5 DEF Reconnect
  <2>2. CASE Connected(Freed, Remaining) /\ UNCHANGED timer
    BY <1>1, <2>1, <2>2, ClosedOK, ConnectedOK
  <2>3. CASE \E e \in AfterClose("none") : NotConnected(Freed, Remaining, e, "Paused")
    <3> PICK e \in AfterClose("none") : NotConnected(Freed, Remaining, e, "Paused")
      BY <2>3
    <3>1. e \in {"none", "data", "end"}
      BY ClosedOK
    <3> QED
      BY <1>1, <2>1, <3>1, ClosedOK, NotConnectedOK
  <2> QED
    BY <1>5, <2>2, <2>3 DEF Reconnect
<1>6. CASE ReadData
  <2>1. CASE pipeHandle # None /\ pipe[pipeHandle] = "up"
    BY <1>6, <2>1 DEF ReadData, ReadOn, ClientOK, TypeOK, HandlesValid,
       ServerHeard, NeverGivesUp
  <2>2. CASE ~(pipeHandle # None /\ pipe[pipeHandle] = "up")
    BY <1>6, <2>2 DEF ReadData, ReadOn, ClientOK, TypeOK, HandlesValid,
       ServerHeard, NeverGivesUp
  <2> QED
    BY <2>1, <2>2
<1>7. CASE Listens
  BY <1>7 DEF Listens, ClientOK, TypeOK, HandlesValid, ServerHeard, NeverGivesUp
<1>8. ASSUME NEW h \in Handles, Writes(h) PROVE ClientOK'
  BY <1>8 DEF Writes, ClientOK, TypeOK, HandlesValid, ServerHeard, NeverGivesUp
<1>9. ASSUME NEW h \in Handles, Leaves(h) PROVE ClientOK'
  <2>1. /\ pipe' \in Pipes /\ pipe'[h] = "broken"
        /\ \A g \in Handles : g # h => pipe'[g] = pipe[g]
    BY <1>1, <1>9 DEF Leaves
  <2>2. event' \in {event, "end"} /\ reading' = reading \ {h}
    BY <1>9 DEF Leaves
  <2>3. UNCHANGED <<connState, pipeHandle, timer, listening, wanted>>
    BY <1>9 DEF Leaves
  <2>4. TypeOK'
    BY <1>1, <2>1, <2>2, <2>3 DEF ClientOK, TypeOK
  <2>5. HandlesValid'
    BY <1>1, <2>1, <2>2, <2>3 DEF ClientOK, TypeOK, HandlesValid
  <2>6. ServerHeard'
    BY <2>1, <2>2, <2>3 DEF ClientOK, TypeOK, ServerHeard
  <2>7. NeverGivesUp'
    BY <2>3 DEF ClientOK, NeverGivesUp
  <2> QED
    BY <2>4, <2>5, <2>6, <2>7 DEF ClientOK
<1>10. CASE UNCHANGED vars
  BY <1>10 DEF vars, ClientOK, TypeOK, HandlesValid, ServerHeard, NeverGivesUp
<1> QED
  BY <1>2, <1>3, <1>4, <1>5, <1>6, <1>7, <1>8, <1>9, <1>10 DEF Next, DoReadEvent

LEMMA ClientAlwaysOK == Spec => []ClientOK
BY ClientInit, ClientStep, PTL DEF Spec

\* stopData, runData, the timer and doReadEvent, in any order, never use a
\* handle that has been closed, and a close leaves no read behind.
THEOREM HandlesKept == Spec => [](TypeOK /\ HandlesValid)
<1>1. ClientOK => TypeOK /\ HandlesValid
  BY DEF ClientOK
<1> QED
  BY <1>1, ClientAlwaysOK, PTL

\* The state of a pipe client has its types, whatever the kernel reports.
THEOREM ClientTypes == Spec => []TypeOK
<1> QED
  BY HandlesKept, PTL

\* A client is never deaf to a server that is there (doReadEvent, runData).
THEOREM AlwaysListens == Spec => []ServerHeard
<1>1. ClientOK => ServerHeard
  BY DEF ClientOK
<1> QED
  BY <1>1, ClientAlwaysOK, PTL

\* A client that is to run has a pipe or a timer (runData, TimerCallback).
THEOREM RetryKept == Spec => []NeverGivesUp
<1>1. ClientOK => NeverGivesUp
  BY DEF ClientOK
<1> QED
  BY <1>1, ClientAlwaysOK, PTL

=============================================================================
