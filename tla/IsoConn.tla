------------------------------ MODULE IsoConn ------------------------------
(***************************************************************************)
(* One ISO-on-TCP module (RFC 1006) of the adapter: the connection object  *)
(* cISOTP_ETHCONN, the cETH_ACCEPTANCE objects of peers that have asked    *)
(* for it in a connection request (CR), and the calls cTOPOLOGIE makes on  *)
(* it for TopMan.  As in TcpConn every handler is one action.              *)
(*                                                                         *)
(* Of a telegram only its kind is kept.  Telegrams that are only passed on *)
(* to TopMan, and their short acknowledgements, change no state and have   *)
(* no action.  A peer names the TSAPs of this module in every CR of a      *)
(* connection; a CR with unknown TSAPs is answered and changes nothing.    *)
(* How a telegram is read and how an acceptance queues what it sends are   *)
(* the modules IsoReceive and SendQueue.                                   *)
(***************************************************************************)
EXTENDS Naturals, Sequences, Functions

CONSTANTS
    Accs,         \* cETH_ACCEPTANCE objects; bounds the peers served at once
    Fds,          \* socket handles for connections the module opens itself
    MaxBuf,       \* bound: telegrams held in bufQueue
    FailsAtOnce,  \* ::connect may fail with an error other than EINPROGRESS
    None          \* no handle

ASSUME IsoAssumption ==
    /\ None \notin Fds
    /\ MaxBuf \in Nat
    /\ FailsAtOnce \in BOOLEAN

VARIABLES
    connState,    \* TopoDataReceive::connState
    server,       \* is the module entered in the pConnISO_map of a server?
    conSndState,  \* state of the connection the module opens itself
    fd,           \* getFD(): the handle of that connection
    sock,         \* kernel state of every handle
    reg,          \* event loop registrations <<handle, event>> of the object
    bufQueue,     \* kinds of the telegrams in cISOTP_ETHCONN::bufQueue
    asked,        \* what the peer knows: the requests sent on this connection
    acceptance,   \* the vector "acceptance"
    phase,        \* of an acceptance object: no object, no CR yet, associated
    gone,         \* acceptances whose peer has closed, not yet noticed
    expedited_erlaubt,
    expedited_eingeschaltet,
    told,         \* the last report to TopMan; "lost" if its send failed
    crashed       \* undefined behaviour has ended the process

topVars  == <<connState, server>>
ownVars  == <<conSndState, fd, sock, reg, asked>>
accVars  == <<acceptance, phase, gone>>
expVars  == <<expedited_erlaubt, expedited_eingeschaltet>>
vars     == <<topVars, ownVars, bufQueue, accVars, expVars, told, crashed>>

Events     == {"BufferEmpty", "DataWaiting"}
\* "dead": an open handle on which ::connect has failed at once
SockStates == {"free", "connecting", "up", "refused", "eof", "dead"}
Requests   == {"CR", "CR expedited"}
Kinds      == Requests \cup {"DT", "ED"}

Init ==
    /\ connState = "Instantiated"
    /\ server = FALSE
    /\ conSndState = "Closed"
    /\ fd = None
    /\ sock = [f \in Fds |-> "free"]
    /\ reg = {}
    /\ bufQueue = <<>>
    /\ asked = {}
    /\ acceptance = <<>>
    /\ phase = [a \in Accs |-> "free"]
    /\ gone = {}
    /\ expedited_erlaubt = FALSE
    /\ expedited_eingeschaltet = FALSE
    /\ told = "beendet"
    /\ crashed = FALSE

-----------------------------------------------------------------------------
(* Queries and the pieces the handlers are made of. *)

IsRunning   == connState = "Running"
IsConnected == conSndState = "Connected"
CheckAcceptance == acceptance # <<>>

\* writeTopoData drops the telegram unless the module is running, and hands it
\* to the send to TopMan if it is, which may fail.  It says what became of it.
Report(r)  == told' \in IF IsRunning THEN {r, "lost"} ELSE {told}
ReportUp   == Report("hergestellt")
ReportDownSlip == UNCHANGED told
ReportDown == Report("beendet")

\* addAcceptance warns of a member that is added again, and leaves it at that.
AddAcceptanceSlip(a) == acceptance' = Append(acceptance, a)
AddAcceptance(a) ==
    acceptance' = IF a \in Range(acceptance) THEN acceptance
                                             ELSE Append(acceptance, a)

RemoveAcceptance(a) ==
    acceptance' =
        IF a \notin Range(acceptance) THEN acceptance
        ELSE LET i == CHOOSE i \in 1..Len(acceptance) : acceptance[i] = a
             IN  SubSeq(acceptance, 1, i - 1)
                     \o SubSeq(acceptance, i + 1, Len(acceptance))

\* "delete this" of an acceptance, and its destructor
DeleteAcceptance(a) ==
    /\ RemoveAcceptance(a)
    /\ phase' = [phase EXCEPT ![a] = "free"]
    /\ gone' = gone \ {a}

\* closesocket(getFD())
CloseSocketSlip == UNCHANGED sock
CloseSocket == sock' = [f \in Fds |-> IF f = fd THEN "free" ELSE sock[f]]

\* What is left of the vector q when every position is visited in turn and the
\* element found there erased: the others move up, and every second one is
\* passed over.  The last one is found again in its old place.
PassedOver(q) == [i \in 1..((Len(q) - 1) \div 2) |-> q[2 * i]]

\* iso_abbau.  From two acceptances on the loop reads the slot its last one has
\* moved out of, and from three on deletes that one twice: both go unnoticed, or
\* end the process.
IsoAbbau ==
    LET kept == IF CheckAcceptance THEN PassedOver(acceptance) ELSE <<>>
        dead == Range(acceptance) \ Range(kept)
    IN  /\ acceptance' = kept
        /\ phase' = [a \in Accs |-> IF a \in dead THEN "free" ELSE phase[a]]
        /\ gone' = gone \ dead
        /\ crashed' \in IF Len(acceptance) > 1 THEN BOOLEAN ELSE {FALSE}
        /\ reg' = reg \ ({fd} \X Events)
        /\ conSndState' = "Closed"
        /\ CloseSocket
        /\ ReportDown
        /\ UNCHANGED <<fd, asked, bufQueue, expVars>>

\* bitRegisterCallback(this,getFD(),nEventBufferEmpty)
AwaitConnectSlip(f) == reg' = reg \cup {<<f, "DataWaiting">>}
AwaitConnect(f)     == reg' = reg \cup {<<f, "BufferEmpty">>}

\* connect.  socket() may fail.  An error of ::connect is only logged.
Connect ==
    \/ UNCHANGED ownVars
    \/ \E f \in Fds :
         /\ sock[f] = "free"
         /\ fd' = f
         /\ conSndState' = "Connecting"
         /\ \E s \in {"connecting"} \cup IF FailsAtOnce THEN {"dead"} ELSE {} :
              sock' = [sock EXCEPT ![f] = s]
         /\ AwaitConnect(f)
         /\ asked' = {}

\* The telegrams q are sent on the own connection.
Sends(q) ==
    asked' = IF sock[fd] = "dead" THEN asked
                                  ELSE asked \cup (Range(q) \cap Requests)

Buffered(k) == Append(bufQueue, k)

\* senddata: to every acceptance and over the own connection; if there are
\* none, the telegram is remembered, and a connection set up.
SendData(k) ==
    IF CheckAcceptance \/ IsConnected
    THEN /\ IF IsConnected THEN Sends(<<k>>) ELSE UNCHANGED asked
         /\ UNCHANGED <<conSndState, fd, sock, reg, bufQueue>>
    ELSE /\ Len(bufQueue) < MaxBuf
         /\ bufQueue' = Buffered(k)
         /\ IF conSndState = "Closed" THEN Connect ELSE UNCHANGED ownVars

-----------------------------------------------------------------------------
(* Calls of TopMan, through cTOPOLOGIE. *)

\* start and run.  The first one enters the module in the server of its
\* address, and opens that server if need be, which may fail for good.
RunData ==
    /\ connState' = "Running"
    /\ server' \in IF connState = "Instantiated" THEN BOOLEAN ELSE {server}
    /\ UNCHANGED <<ownVars, bufQueue, accVars, expVars, told, crashed>>

StopData ==
    /\ IsoAbbau
    /\ connState' = "Paused"
    /\ UNCHANGED server

\* receiveData: telegrams reach the connection only while it is running.
ReceiveData == IsRunning /\ UNCHANGED <<topVars, crashed>>

\* iso_make_DT: expedited data, asked for with x, only if it is switched on
DataKind(x) == IF x /\ expedited_eingeschaltet THEN "ED" ELSE "DT"

\* nUnicast, nBroadcast, nUnicast_beschleunigt
Data(x) ==
    /\ ReceiveData
    /\ SendData(DataKind(x))
    /\ UNCHANGED <<accVars, expVars, told>>

\* nVerbindungsabbau
Disconnect == IsRunning /\ IsoAbbau /\ UNCHANGED topVars

\* nVerbindungsaufbau and nVerbindung_hergestellt, or (x) the same with
\* "_beschleunigt": with an acceptance there is nothing to set up.
ConnectRequest(x) ==
    /\ ReceiveData
    /\ expedited_erlaubt' = (expedited_erlaubt \/ x)
    /\ IF CheckAcceptance
       THEN ReportUp /\ UNCHANGED <<ownVars, bufQueue>>
       ELSE /\ SendData(IF x THEN "CR expedited" ELSE "CR")
            /\ UNCHANGED told
    /\ UNCHANGED <<accVars, expedited_eingeschaltet>>

\* nAkzeptiere_beschleunigt, nAkzeptiere_beschleunigt_nicht
AkzeptiereBeschleunigt(x) ==
    /\ ReceiveData
    /\ expedited_erlaubt' = x
    /\ UNCHANGED <<ownVars, bufQueue, accVars, expedited_eingeschaltet, told>>

-----------------------------------------------------------------------------
(* Callbacks of the event loop: the own connection. *)

\* What doWriteEvent leaves in bufQueue, having sent it
DrainedSlip == IF Len(bufQueue) > 1 THEN SubSeq(bufQueue, 2, Len(bufQueue))
                                    ELSE <<>>
Drained     == <<>>

\* doWriteEvent: the outcome of a connect.  A dead handle shows no error
\* either, if the event loop reports it at all.
OwnWriteEvent ==
    /\ <<fd, "BufferEmpty">> \in reg
    /\ sock[fd] \in {"up", "refused", "eof", "dead"}
    /\ IF sock[fd] = "refused"
       THEN /\ conSndState' = "Closed"
            /\ reg' = reg \ {<<fd, "BufferEmpty">>}
            /\ CloseSocket
            /\ bufQueue' = <<>>
            /\ ReportDown
            /\ UNCHANGED asked
       ELSE /\ conSndState' = "Connected"
            /\ reg' = (reg \ {<<fd, "BufferEmpty">>}) \cup {<<fd, "DataWaiting">>}
            /\ Sends(bufQueue)
            /\ bufQueue' = Drained
            /\ UNCHANGED <<sock, told>>
    /\ UNCHANGED <<topVars, fd, accVars, expVars, crashed>>

\* doReadEvent, recv < 1: the connection is closed; TopMan learns nothing.
OwnReadEvent ==
    /\ <<fd, "DataWaiting">> \in reg
    /\ sock[fd] \in {"eof", "refused", "dead"}
    /\ reg' = reg \ ({fd} \X Events)
    /\ CloseSocket
    /\ conSndState' = "Closed"
    /\ UNCHANGED <<topVars, fd, asked, bufQueue, accVars, expVars, told, crashed>>

\* iso_received, CC: the peer answers a request; x: it grants expedited data,
\* which it does only if asked.
ConfirmReceived(x) ==
    /\ <<fd, "DataWaiting">> \in reg
    /\ sock[fd] = "up"
    /\ asked # {}
    /\ x => "CR expedited" \in asked
    /\ ReportUp
    /\ expedited_eingeschaltet' = x
    /\ UNCHANGED <<topVars, ownVars, bufQueue, accVars, expedited_erlaubt, crashed>>

\* iso_received, ER
ErrorReceived ==
    /\ <<fd, "DataWaiting">> \in reg
    /\ sock[fd] = "up"
    /\ ReportDown
    /\ UNCHANGED <<topVars, ownVars, bufQueue, accVars, expVars, crashed>>

-----------------------------------------------------------------------------
(* Callbacks of the event loop: the server and the acceptances. *)

Live(a)       == phase[a] # "free"
Associated(a) == phase[a] = "ours"

\* doReadEvent of the server: a new acceptance object, for whom is not known.
Accept(a) ==
    /\ server
    /\ ~Live(a)
    /\ phase' = [phase EXCEPT ![a] = "new"]
    /\ UNCHANGED <<topVars, ownVars, bufQueue, acceptance, gone, expVars, told,
                   crashed>>

\* A request is confirmed only if writeTopoData has told TopMan of it, now.
ConfirmsSlip == TRUE
Confirms     == IsRunning /\ told' = "hergestellt"

\* iso_received of an acceptance, CR: the acceptance joins the module, and is
\* confirmed, or deleted if the module is stopped or the report is lost: also
\* when it had been confirmed before.  Only an option that is granted reaches
\* iso_make_CC (x: the request has it).
RequestReceived(a, x) ==
    /\ Live(a)
    /\ ReportUp
    /\ IF Confirms
       THEN /\ AddAcceptance(a)
            /\ phase' = [phase EXCEPT ![a] = "ours"]
            /\ expedited_eingeschaltet' =
                  (expedited_eingeschaltet \/ (x /\ expedited_erlaubt))
            /\ UNCHANGED gone
       ELSE DeleteAcceptance(a) /\ UNCHANGED expedited_eingeschaltet
    /\ UNCHANGED <<topVars, ownVars, bufQueue, expedited_erlaubt, crashed>>

\* Faulty variant: the second test the wrong way round.
AcceptsDataSlip(a) == Associated(a) /\ ~IsRunning
AcceptsData(a) == Associated(a) /\ IsRunning

\* iso_received of an acceptance, DT or ED for no module, or one not running
DataRefused(a) ==
    /\ Live(a)
    /\ ~AcceptsData(a)
    /\ DeleteAcceptance(a)
    /\ UNCHANGED <<topVars, ownVars, bufQueue, expVars, told, crashed>>

\* iso_received of an acceptance, ER
ErrorFromAccepted(a) ==
    /\ Associated(a)
    /\ ReportDown
    /\ UNCHANGED <<topVars, ownVars, bufQueue, accVars, expVars, crashed>>

\* doReadEvent of an acceptance, recv < 1: report, then "delete this".
AcceptedReadEvent(a) ==
    /\ a \in gone
    /\ IF Associated(a) THEN ReportDown ELSE UNCHANGED told
    /\ DeleteAcceptance(a)
    /\ UNCHANGED <<topVars, ownVars, bufQueue, expVars, crashed>>

-----------------------------------------------------------------------------
(* The kernel and the peers. *)

KernelStep(f, from, to) ==
    /\ sock[f] = from
    /\ sock' = [sock EXCEPT ![f] = to]
    /\ UNCHANGED <<topVars, conSndState, fd, reg, asked, bufQueue, accVars,
                   expVars, told, crashed>>

ConnectDone(f) == KernelStep(f, "connecting", "up")
                  \/ KernelStep(f, "connecting", "refused")

PeerLeaves(f) == KernelStep(f, "up", "eof")

AcceptedPeerLeaves(a) ==
    /\ Live(a)
    /\ a \notin gone
    /\ gone' = gone \cup {a}
    /\ UNCHANGED <<topVars, ownVars, bufQueue, acceptance, phase, expVars, told,
                   crashed>>

-----------------------------------------------------------------------------
TopMan ==
    \/ RunData
    \/ StopData
    \/ Disconnect
    \/ \E x \in BOOLEAN : \/ Data(x)
                          \/ ConnectRequest(x)
                          \/ AkzeptiereBeschleunigt(x)

EventLoop ==
    \/ OwnWriteEvent
    \/ OwnReadEvent
    \/ \E x \in BOOLEAN : ConfirmReceived(x)
    \/ ErrorReceived
    \/ \E a \in Accs : \/ Accept(a)
                       \/ \E x \in BOOLEAN : RequestReceived(a, x)
                       \/ DataRefused(a)
                       \/ ErrorFromAccepted(a)
                       \/ AcceptedReadEvent(a)

Environment ==
    \/ \E f \in Fds : ConnectDone(f) \/ PeerLeaves(f)
    \/ \E a \in Accs : AcceptedPeerLeaves(a)

Next ==
    \/ ~crashed /\ (TopMan \/ EventLoop \/ Environment)
    \/ crashed /\ UNCHANGED vars

Spec == Init /\ [][Next]_vars

\* The event loop serves every registered event of a handle that has one, the
\* kernel decides every connect that is under way.
FairSpec ==
    /\ Spec
    /\ \A f \in Fds :
          /\ WF_vars(~crashed /\ fd = f /\ sock[f] # "dead" /\ OwnWriteEvent)
          /\ WF_vars(~crashed /\ ConnectDone(f))
    /\ WF_vars(~crashed /\ OwnReadEvent)
    /\ \A a \in Accs : WF_vars(~crashed /\ AcceptedReadEvent(a))

-----------------------------------------------------------------------------
(* Properties. *)

TypeOK ==
    /\ connState \in {"Instantiated", "Paused", "Running"}
    /\ server \in BOOLEAN
    /\ conSndState \in {"Closed", "Connecting", "Connected"}
    /\ fd \in Fds \cup {None}
    /\ sock \in [Fds -> SockStates]
    /\ reg \subseteq Fds \X Events
    /\ bufQueue \in Seq(Kinds) /\ Len(bufQueue) <= MaxBuf
    /\ asked \subseteq Requests
    /\ acceptance \in Seq(Accs)
    /\ phase \in [Accs -> {"free", "new", "ours"}]
    /\ gone \subseteq Accs
    /\ {expedited_erlaubt, expedited_eingeschaltet} \subseteq BOOLEAN
    /\ told \in {"hergestellt", "beendet", "lost"}
    /\ crashed \in BOOLEAN

\* The vector holds the acceptances that belong to the module: each of them,
\* so that senddata and iso_abbau reach it, once, so that iso_abbau does not
\* delete it twice, and none that has been deleted.
VectorMatches ==
    /\ Range(acceptance) = {a \in Accs : Associated(a)}
    /\ \A i, j \in DOMAIN acceptance : acceptance[i] = acceptance[j] => i = j

\* connect, doWriteEvent, doReadEvent and iso_abbau implement a connection that
\* holds one handle at a time, however connects, their outcomes, ends and stops
\* follow each other: completed by the outcome of its own connect only, and with
\* handle and registrations given back before the next one begins.
Own == INSTANCE Connection
         WITH Handles <- Fds, state <- conSndState, handle <- fd,
              held <- {f \in Fds : sock[f] # "free"}, awaited <- reg
OneConnectionAtATime == Own!ConnectionSpec

\* No remembered telegram is left behind when the own connection opens, however
\* many stops, failures and requests came before: otherwise telegrams sent later
\* would overtake it there.  (Of accepted peers: NoneWaitsBesidePeer, below.)
NoneWaitsBesideOwn == bufQueue # <<>> => ~IsConnected

\* "alle verbindungen zum abbauen veranlassen": while the module is stopped it
\* has no connection and no associated peer, and TopMan's last report, unless it
\* was lost, is not of one.
PausedIsCutOff ==
    ~IsRunning /\ ~crashed =>
        /\ conSndState = "Closed"
        /\ \A a \in Accs : ~Associated(a)
        /\ told # "hergestellt"

\* No associated peer is dropped in silence, whether it leaves, is refused or
\* torn down, alone or with others: the last report to TopMan is then not that of
\* a connection.  It is of an end, or lost: a peer that repeats its request is
\* dropped just because the report of it is, and no other report is made.
NoneDroppedSilently ==
    [][(\E a \in Accs : Associated(a) /\ phase'[a] # "ours")
            => told' # "hergestellt"]_vars

\* A connect that is under way in the network comes to an end.
ConnectEnds ==
    conSndState = "Connecting" /\ sock[fd] # "dead" ~> conSndState # "Connecting"

\* When the peer of an acceptance leaves, TopMan gets the report of an end, if
\* the send does not fail.
PeerEndReported ==
    \A a \in Accs :
        (Associated(a) /\ a \in gone) ~> (told # "hergestellt" \/ crashed)

\* The comments of the source, as properties the code does not have.

\* "Abschluss der Konnektierung bzw. Timeout bearbeiten": whatever becomes of
\* ::connect, a connect that has been started comes to an end.
EveryConnectEnds == conSndState = "Connecting" ~> conSndState # "Connecting"

\* "Es wird an alle verbundenen Schnittstellen verteilt. D.H an alle Verbindungen
\* die aktzepiert wurden": once a peer has been accepted, and no connect is under
\* way any more, no telegram stays in the queue, where this peer never gets it.
NoneWaitsBesidePeer ==
    acceptance # <<>> /\ conSndState # "Connecting" => bufQueue = <<>>

=============================================================================
