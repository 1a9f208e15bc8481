------------------------------ MODULE TcpConn ------------------------------
(***************************************************************************)
(* One TCP module of the adapter: the connection object cTCP_ETHCONN, the  *)
(* cETH_ACCEPTANCE objects of the peers it has accepted, its listening     *)
(* cTCP_ETHSERVER, and the calls cTOPOLOGIE makes on it for TopMan         *)
(* (start, run, stop, receive).  The process is single threaded: every     *)
(* callback of the event loop and every call of TopMan runs to its end     *)
(* before the next one, so each handler is one action.  The kernel and the *)
(* peers act between handlers.                                             *)
(*                                                                         *)
(* Payloads are left out; of a telegram buffered during a connection       *)
(* set-up only its presence in bufQueue is kept.  The send queue of an     *)
(* accepted connection has a module of its own (SendQueue).                *)
(***************************************************************************)
EXTENDS Naturals

CONSTANTS
    Addr,         \* peer addresses (ip:port), the keys of the map "acceptance"
    Accs,         \* cETH_ACCEPTANCE objects; bounds the peers served at once
    Fds,          \* socket handles for connections the module opens itself
    MaxBuf,       \* bound: telegrams held in bufQueue
    Dynamic,      \* isDynamic(): partners are named per telegram
    AutoConnect,  \* autoconnecting, the attribute AutoConnect = "1"
    Impatient,    \* TopMan may repeat a connect request that is under way
    PortReuse,    \* a peer may return from its old port before the adapter
                  \* has noticed that the old connection is gone
    None,         \* "nothing": no entry, no handle, the configured address
    Null          \* a NULL pointer stored in the map

ASSUME ConstantsAssumption ==
    /\ None \notin Addr \cup Accs \cup Fds
    /\ Null \notin Accs \cup {None}
    /\ MaxBuf \in Nat
    /\ {Dynamic, AutoConnect, Impatient, PortReuse} \subseteq BOOLEAN

VARIABLES
    connState,    \* TopoDataReceive::connState
    server,       \* is the listening socket of the module open?
    conSndState,  \* state of the connection the module opens itself
    fd,           \* getFD(): the handle of that connection
    sock,         \* kernel state of every handle
    reg,          \* event loop registrations <<handle, event>> of the object
    addr,         \* address the own connection is made to
    dynamic_addr, \* partner named by the last telegram of TopMan
    bufQueue,     \* number of telegrams in cTCP_ETHCONN::bufQueue
    acceptance,   \* the map "acceptance", one slot per address
    peer,         \* address of every live acceptance object, None if free
    gone,         \* acceptances whose peer has closed, not yet noticed
    told,         \* addresses TopMan has been told are connected, and not since
                  \* that they are gone; None is the configured address
    lastReport,   \* the report made last, under whatever address
    crashed       \* undefined behaviour has ended the process, or led it astray

topVars  == <<connState, server>>
ownVars  == <<conSndState, fd, sock, reg, addr>>
accVars  == <<acceptance, peer, gone>>
tellVars == <<told, lastReport>>
vars     == <<topVars, ownVars, accVars, dynamic_addr, bufQueue, tellVars, crashed>>

ConnStates    == {"Instantiated", "Paused", "Running"}
SndStates     == {"Closed", "Connecting", "Connected"}
SockStates    == {"free", "connecting", "up", "refused", "eof"}
Events        == {"BufferEmpty", "DataWaiting"}
Reports       == {"hergestellt", "beendet"}
\* nEventDataWaiting|nEventBufferEmpty, as abbau unregisters them.  The
\* operators named ...Slip are faulty variants of the definition after them;
\* the project uses them to see that a property notices the fault.
EventsOfSlip(f) == {<<f, "DataWaiting">>}
EventsOf(f)     == {f} \X Events

Init ==
    /\ connState = "Instantiated"
    /\ server = FALSE
    /\ conSndState = "Closed"
    /\ fd = None
    /\ sock = [f \in Fds |-> "free"]
    /\ reg = {}
    /\ addr = None
    /\ dynamic_addr = None
    /\ bufQueue = 0
    /\ acceptance = [p \in Addr |-> None]
    /\ peer = [a \in Accs |-> None]
    /\ gone = {}
    /\ told = {}
    /\ lastReport = "beendet"
    /\ crashed = FALSE

-----------------------------------------------------------------------------
(* Queries and the pieces the handlers are made of. *)

IsRunning   == connState = "Running"
IsConnected == conSndState = "Connected"
Live(a)     == peer[a] # None
FdOpen      == fd # None /\ sock[fd] # "free"

\* size() > 0: an entry holding NULL counts
CheckAcceptance == \E p \in Addr : acceptance[p] # None

\* What doWriteEvent, abbau and the end of an acceptance write into a report:
\* the address if partners are dynamic; else writeTopoData puts in the
\* configured one.
Named(p) == IF Dynamic THEN p ELSE None

\* writeTopoData drops the telegram unless the module is running.  The result
\* of the send to TopMan is looked at nowhere; it is taken to succeed.
ReportUp(q) ==
    IF IsRunning THEN told' = told \cup {q} /\ lastReport' = "hergestellt"
                 ELSE UNCHANGED tellVars
ReportDownSlip(q) == UNCHANGED tellVars
ReportDown(q) ==
    IF IsRunning THEN told' = told \ {q} /\ lastReport' = "beendet"
                 ELSE UNCHANGED tellVars

\* setDynamicAddress, made for every telegram before it is looked at
SetDynamicAddress(p) == dynamic_addr' = IF Dynamic THEN p ELSE dynamic_addr

\* The objects "abbau" deletes: those the map still knows.
MappedSlip == {}
Mapped == {acceptance[p] : p \in Addr} \cap Accs

AddAcceptance(a, p) == acceptance' = [acceptance EXCEPT ![p] = a]

\* The entry is erased by address, whichever object it holds.
RemoveAcceptanceSlip(a) == UNCHANGED acceptance
RemoveAcceptance(a) == acceptance' = [acceptance EXCEPT ![peer[a]] = None]

\* closesocket(getFD())
CloseSocketSlip == UNCHANGED sock
CloseSocket == sock' = [sock EXCEPT ![fd] = "free"]

\* ~abbauAnTopologieMelden
NothingTornDownSlip == conSndState = "Closed"
NothingTornDown == Mapped = {} /\ conSndState = "Closed"

\* abbau: deletes the acceptances, closes the own connection, reports once.
\* Deleting an acceptance erases the map entry the loop's iterator stands on:
\* the loop then either goes on as intended, or ends the process or itself too
\* early, which leaves objects that clear() takes out of everybody's reach.  What
\* happens after the latter (crashed) is not followed.
Abbau ==
    /\ acceptance' = [p \in Addr |-> None]
    /\ peer' = [a \in Accs |-> IF a \in Mapped THEN None ELSE peer[a]]
    /\ gone' = gone \ Mapped
    /\ crashed' \in IF Mapped = {} THEN {FALSE} ELSE BOOLEAN
    /\ conSndState' = "Closed"
    /\ IF conSndState = "Closed"
       THEN UNCHANGED <<sock, reg>>
       ELSE /\ reg' = reg \ EventsOf(fd)
            /\ CloseSocket
    /\ IF NothingTornDown THEN UNCHANGED tellVars ELSE ReportDown(Named(addr))
    /\ UNCHANGED <<fd, addr, bufQueue>>

\* bitRegisterCallback(this,getFD(),nEventBufferEmpty)
AwaitConnectSlip(f) == reg' = reg \cup {<<f, "DataWaiting">>}
AwaitConnect(f)     == reg' = reg \cup {<<f, "BufferEmpty">>}

\* connect: called only when the map is empty and nothing is connected.
\* socket() may fail; ::connect may be under way or fail at once (-> abbau).
Connect(to) ==
    /\ UNCHANGED <<accVars, bufQueue, crashed>>
    /\ \/ UNCHANGED <<ownVars, tellVars>>
       \/ \E f \in Fds :
            /\ sock[f] = "free"
            /\ fd' = f
            /\ addr' = IF to # None THEN to ELSE addr
            /\ \/ /\ conSndState' = "Connecting"
                  /\ sock' = [sock EXCEPT ![f] = "connecting"]
                  /\ AwaitConnect(f)
                  /\ UNCHANGED tellVars
               \/ /\ conSndState' = "Closed"
                  /\ reg' = reg \ EventsOf(f)
                  /\ UNCHANGED sock
                  /\ ReportDown(Named(addr'))

-----------------------------------------------------------------------------
(* Calls of TopMan, through cTOPOLOGIE. *)

\* start and run.  The first one opens the server, which may fail for good.
RunData ==
    /\ connState' = "Running"
    /\ server' \in IF connState = "Instantiated" THEN BOOLEAN ELSE {server}
    /\ UNCHANGED <<ownVars, accVars, dynamic_addr, bufQueue, tellVars, crashed>>

StopDataSlip ==
    /\ connState' = "Paused"
    /\ UNCHANGED <<server, ownVars, accVars, dynamic_addr, bufQueue, tellVars, crashed>>

StopData ==
    /\ Abbau
    /\ connState' = "Paused"
    /\ UNCHANGED <<server, dynamic_addr>>

\* receive: telegrams reach the connection only while it is running.
Receive(p) == IsRunning /\ SetDynamicAddress(p) /\ UNCHANGED topVars

\* senddata consults the map for one partner only; a module with a fixed
\* partner serves every acceptance.
LooksUp == Dynamic /\ ~IsConnected

\* nUnicast, nBroadcast.  Looking up a dynamic partner with operator[] leaves
\* a NULL entry behind when there is none.
SendData(p) ==
    /\ Receive(p)
    /\ conSndState = "Connecting" => bufQueue < MaxBuf
    /\ acceptance' = IF LooksUp /\ acceptance[p] = None
                     THEN [acceptance EXCEPT ![p] = Null] ELSE acceptance
    /\ bufQueue' = IF conSndState = "Connecting" THEN bufQueue + 1 ELSE bufQueue
    /\ UNCHANGED <<ownVars, peer, gone, tellVars, crashed>>

\* nVerbindungsabbau, nVerbindung_beendet
Disconnect(p) == Receive(p) /\ Abbau

\* nVerbindungsaufbau, and nVerbindung_hergestellt with AutoConnect
ConnectRequest(p) ==
    /\ Receive(p)
    /\ Impatient \/ conSndState # "Connecting"
    /\ IF CheckAcceptance \/ IsConnected
       THEN UNCHANGED <<ownVars, accVars, bufQueue, tellVars, crashed>>
       ELSE Connect(dynamic_addr')

PartnerConnected(p) ==
    IF AutoConnect
    THEN ConnectRequest(p)
    ELSE Receive(p) /\ UNCHANGED <<ownVars, accVars, bufQueue, tellVars, crashed>>

-----------------------------------------------------------------------------
(* Callbacks of the event loop. *)

\* doWriteEvent of the connection: the outcome of a connect.  The handler
\* looks at getFD(), whichever handle the event came from; SO_ERROR of a
\* handle that is closed reads as an error, of one still connecting as none.
OwnWriteEvent(f) ==
    /\ <<f, "BufferEmpty">> \in reg
    /\ sock[f] \in {"up", "refused", "eof"}
    /\ bufQueue' = 0
    /\ IF sock[fd] \in {"refused", "free"}
       THEN /\ conSndState' = "Closed"
            /\ reg' = reg \ {<<fd, "BufferEmpty">>}
            /\ CloseSocket
            /\ ReportDown(Named(addr))
       ELSE /\ conSndState' = "Connected"
            /\ reg' = (reg \ {<<fd, "BufferEmpty">>}) \cup {<<fd, "DataWaiting">>}
            /\ UNCHANGED sock
            /\ ReportUp(Named(addr))
    /\ UNCHANGED <<topVars, fd, addr, accVars, dynamic_addr, crashed>>

\* doReadEvent of the connection, recv < 1.  (Data is only passed on.)
OwnReadEvent(f) ==
    /\ <<f, "DataWaiting">> \in reg
    /\ sock[f] \in {"eof", "refused"}
    /\ Abbau
    /\ UNCHANGED <<topVars, dynamic_addr>>

\* doReadEvent of the server: a new acceptance object for a pending peer.
\* Two established TCP connections never share the peer's address.  The report
\* names this address, whether partners are dynamic or not.
Accept(p, a) ==
    /\ server
    /\ ~Live(a)
    /\ \A b \in Accs : peer[b] = p => PortReuse /\ b \in gone
    /\ peer' = [peer EXCEPT ![a] = p]
    /\ AddAcceptance(a, p)
    /\ IF IsConnected THEN UNCHANGED tellVars ELSE ReportUp(p)
    /\ UNCHANGED <<topVars, ownVars, gone, dynamic_addr, bufQueue, crashed>>

\* Faulty variant: only the last acceptance to go is reported.
AcceptedReadEventSlip(a) ==
    /\ a \in gone
    /\ IF \E b \in Accs \ {a} : Live(b) THEN UNCHANGED tellVars ELSE ReportDown(Named(peer[a]))
    /\ RemoveAcceptance(a)
    /\ peer' = [peer EXCEPT ![a] = None]
    /\ gone' = gone \ {a}
    /\ UNCHANGED <<topVars, ownVars, dynamic_addr, bufQueue, crashed>>
\* doReadEvent of an acceptance, recv < 1: report, then "delete this".
AcceptedReadEvent(a) ==
    /\ a \in gone
    /\ ReportDown(Named(peer[a]))
    /\ RemoveAcceptance(a)
    /\ peer' = [peer EXCEPT ![a] = None]
    /\ gone' = gone \ {a}
    /\ UNCHANGED <<topVars, ownVars, dynamic_addr, bufQueue, crashed>>

-----------------------------------------------------------------------------
(* The kernel and the peers. *)

KernelStep(f, from, to) ==
    /\ sock[f] = from
    /\ sock' = [sock EXCEPT ![f] = to]
    /\ UNCHANGED <<topVars, conSndState, fd, reg, addr, accVars, dynamic_addr,
                   bufQueue, tellVars, crashed>>

ConnectDone(f) == KernelStep(f, "connecting", "up")
                  \/ KernelStep(f, "connecting", "refused")

PeerLeaves(f) == KernelStep(f, "up", "eof")

AcceptedPeerLeaves(a) ==
    /\ Live(a)
    /\ a \notin gone
    /\ gone' = gone \cup {a}
    /\ UNCHANGED <<topVars, ownVars, acceptance, peer, dynamic_addr, bufQueue,
                   tellVars, crashed>>

-----------------------------------------------------------------------------
TopMan ==
    \/ RunData
    \/ StopData
    \/ \E p \in Addr : \/ SendData(p)
                       \/ Disconnect(p)
                       \/ ConnectRequest(p)
                       \/ PartnerConnected(p)

EventLoop ==
    \/ \E f \in Fds : OwnWriteEvent(f) \/ OwnReadEvent(f)
    \/ \E p \in Addr, a \in Accs : Accept(p, a)
    \/ \E a \in Accs : AcceptedReadEvent(a)

Environment ==
    \/ \E f \in Fds : ConnectDone(f) \/ PeerLeaves(f)
    \/ \E a \in Accs : AcceptedPeerLeaves(a)

Next ==
    \/ ~crashed /\ (TopMan \/ EventLoop \/ Environment)
    \/ crashed /\ UNCHANGED vars

Spec == Init /\ [][Next]_vars

\* The event loop serves every registered event, the kernel decides every
\* connect.  Nothing obliges TopMan or a peer to act.
FairSpec ==
    /\ Spec
    /\ \A f \in Fds : /\ WF_vars(~crashed /\ OwnWriteEvent(f))
                      /\ WF_vars(~crashed /\ OwnReadEvent(f))
                      /\ WF_vars(~crashed /\ ConnectDone(f))
    /\ \A a \in Accs : WF_vars(~crashed /\ AcceptedReadEvent(a))

-----------------------------------------------------------------------------
(* Properties. *)

TypeOK ==
    /\ connState \in ConnStates
    /\ server \in BOOLEAN
    /\ conSndState \in SndStates
    /\ fd \in Fds \cup {None}
    /\ sock \in [Fds -> SockStates]
    /\ reg \subseteq Fds \X Events
    /\ addr \in Addr \cup {None}
    /\ dynamic_addr \in IF Dynamic THEN Addr \cup {None} ELSE {None}
    /\ bufQueue \in 0..MaxBuf
    /\ acceptance \in
         [Addr -> Accs \cup IF Dynamic THEN {None, Null} ELSE {None}]
    /\ peer \in [Accs -> Addr \cup {None}]
    /\ gone \subseteq Accs
    /\ told \subseteq Addr \cup {None}
    /\ lastReport \in Reports
    /\ crashed \in BOOLEAN

\* The map never leads to a freed object: an entry holds the acceptance that
\* serves this very address.  senddata and abbau follow the pointers blindly.
NoDangling ==
    \A p \in Addr : acceptance[p] \in Accs => peer[acceptance[p]] = p

\* No acceptance is lost: an object that still serves a peer is in the map,
\* where senddata and abbau can reach it.
NoOrphan ==
    \A a \in Accs : Live(a) => acceptance[peer[a]] = a

\* stop leaves no connection of the module's own making behind, in whatever
\* state of its set-up it was called.
PausedIsClosed == ~IsRunning => conSndState = "Closed"

\* The handle the connection works with is watched for as long as it is open,
\* for the event its state needs; afterwards it is closed, and its connect is
\* awaited no longer.
OwnHandleWatched ==
    CASE conSndState = "Closed"     -> ~FdOpen /\ <<fd, "BufferEmpty">> \notin reg
      [] conSndState = "Connecting" -> FdOpen /\ <<fd, "BufferEmpty">> \in reg
      [] conSndState = "Connected"  -> FdOpen /\ <<fd, "DataWaiting">> \in reg

\* connect, doWriteEvent, doReadEvent and abbau implement a connection that
\* holds one handle at a time, from the beginning of its connect to its end,
\* is completed by the outcome of that connect only, and gives back handle and
\* registrations before the next one begins.
Own == INSTANCE Connection
         WITH Handles <- Fds, state <- conSndState, handle <- fd,
              held <- {f \in Fds : sock[f] # "free"}, awaited <- reg
OneConnectionAtATime == Own!ConnectionSpec

\* The last word TopMan has had of the module is true: if it was that there is a
\* connection, then the module runs and has one, of its own or accepted.  Which
\* address the reports name is another matter (ToldIsConnected).
Served == IsConnected \/ \E a \in Accs : Live(a)
LastReportTrue == lastReport = "hergestellt" => IsRunning /\ Served

\* Every end of a connection brings the report of an end in the step in which the
\* module learns of it or brings it about: of the own connection and of any
\* acceptance, alone or with others that abbau ends with it.
EndIsTold ==
    [][\/ IsConnected /\ conSndState' # "Connected"
       \/ \E a \in Accs : Live(a) /\ peer'[a] # peer[a]
       => lastReport' = "beendet"]_vars

\* The configured partner is believed connected only while the connection made
\* to it lasts, whatever peers are accepted, leave and are torn down meanwhile.
ConfiguredIsConnected == None \in told => IsConnected

\* A connect request is always decided: the attempt ends, one way or another.
ConnectEnds == conSndState = "Connecting" ~> conSndState # "Connecting"

\* When the last peer behind the module has left, TopMan gets the report of an
\* end (or somebody connects anew).
NobodyLeft == conSndState = "Closed" /\ \A a \in Accs : Live(a) => a \in gone
EndIsReported ==
    lastReport = "hergestellt" /\ NobodyLeft
        ~> lastReport = "beendet" \/ ~NobodyLeft \/ crashed

\* The comments of the source, as properties the code does not have.

\* "send partner not reachable": it is the partner TopMan has been told of that is
\* reported gone, so that every address reported as connected, and not as gone
\* since, is reached by the own connection or by an acceptance.
ToldIsConnected ==
    \A q \in told :
        \/ IsConnected /\ Named(addr) = q
        \/ \E a \in Accs : Live(a) /\ peer[a] = q

\* "es kann nur eine Verbindung von Topologie aus aufgebaut werden. weitere
\* werden ignoriert": the module has one socket of its own at most.
OneOwnSocket ==
    \A f, g \in Fds : sock[f] # "free" /\ sock[g] # "free" => f = g

\* "nix tun. verbindung ist bereits aufgebaut und gemeldet": a connect request
\* is ignored only if there is a connection.
IgnoredIsConnected ==
    CheckAcceptance => \E a \in Accs : Live(a)

=============================================================================
