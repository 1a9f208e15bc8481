# topEthernet in TLA+

topEthernet is the adapter that joins Ethernet hardware (TCP, ISO-on-TCP, UDP),
Windows named pipes and a console to a simulation network called TopMan. This
directory holds TLA+ specifications of its protocol handling, the TLC
configurations that check them, and TLAPS proofs about them. Line numbers refer
to `src/`; the file `PROJECT.json` maps every definition to the lines it stands
for.

## 1. The system

One process, one thread. The event loop of the TopMan library calls back an
object when an event it has registered for one of its handles occurs; TopMan's
calls (`start`, `run`, `stop`, `receive`) arrive through the same loop. Every
handler runs to its end before the next one starts. The hard parts are therefore
not data races but orders: what the kernel, the peers and TopMan do between two
handlers, and what an object remembers from one handler to the next.

| Component | State it keeps | Operations | Talks to |
|---|---|---|---|
| **Module object** `cTOPOLOGIE` (Topologie.cpp) | `pConn`, the availability channel `pMessage` | `start`, `run`, `stop`, `receive`, `writeTopoData`, `writeObserver` | TopMan; its connection through `TopoDataReceive` |
| **Connection state** `TopoDataReceive` (Interfaces.hpp) | `connState`: Instantiated, Paused, Running | `runData`, `stopData`, `receiveData` | guards both directions: a telegram from or to TopMan is dropped unless Running |
| **TCP module** `cTCP_ETHCONN` | `conSndState`, handle, `addr`, `dynamic_addr`, `bufQueue`, map `acceptance` | connect, its outcome, end, `abbau`, `senddata`, all telegrams of TopMan | kernel, acceptances, TopMan |
| **ISO-TP module** `cISOTP_ETHCONN` | the same with a vector `acceptance`, `expedited_erlaubt`, `expedited_eingeschaltet`, `isoreceive` | the same, with implicit connect, CR/CC/DT/ED/ER, `iso_abbau` | the same |
| **Server** `cTCP_ETHSERVER` | listening handle, `pConnISO_map` | accept | creates acceptances |
| **Acceptance** `cETH_ACCEPTANCE` | handle, peer address, module it belongs to, `bufQueue`, `isoreceive` | read event, write event, `senddata`, `delete this` | its module, its peer |
| **ISO receiver** `ISORECEIVE` | `len_received`, `len_to_receive` | `receive`, `telCompleted` | one per acceptance, one per ISO-TP module |
| **UDP module** `cUDP_ETHCONN`, `cUDP_ETHHANDLER` | `altAddr` (last sender) | `senddata`, read event | kernel, TopMan |
| **Pipes** `cPIPE_CLIENT`, `cPIPE_SERVER` | handle, overlapped read, reconnect timer | `runData`, `stopData`, read/write/timer event | a local program, TopMan |
| **Command channel** `cCOMMAND`, `cMESSAGE` | `lastModState` | `set`, `sendMsg`, `sendCmd`, `doCommand` | TopMan, or a pipe |
| **Observer**, **Console**, **main** | two flags; none; configuration | copying telegrams; logging; start-up | TopMan |
| TopMan library | event loop, sockets, timers | external, not in the repository | |

What makes each of them correct, and what is hard:

* *TCP and ISO-TP module.* Its own connection passes through closed, connecting
  and connected while acceptances come and go beside it, and `abbau` may hit any
  combination. No handle may be lost, closed twice, or waited for after it is
  closed; the collection of acceptances must hold exactly the live objects,
  since `senddata` and `abbau` follow its pointers; what TopMan has been told
  must stay true; a connect must end; a stopped module must be cut off.
* *Acceptance.* A non-blocking socket takes all, some or nothing of a telegram:
  order must survive, nothing may be lost or stay behind for ever.
* *ISO receiver.* TCP cuts the stream anywhere, also inside a header: what is
  passed on must be the telegrams sent.
* *Server and TSAP lookup.* Several ISO-TP modules share the server of their
  address. A peer must join the module it asked for, and no other; the vectors of
  all the modules together must hold each acceptance once, or none.
* *UDP.* The answer must reach the one who asked.
* *Pipes.* Two programs that come and go, a timer, TopMan, and one event for
  several overlapped operations: no handle may be lost, no client left unread, no
  telegram skipped, and a new client must be waited for.
* *Command channel.* What was not reported while the channel was stopped must be
  reported later; nobody may be told an older state after a newer one.

The hazards, line by line, are in `PROJECT.json`.

## 2. The modules

| Module | Models | Lines of the source |
|---|---|---|
| `Connection` | abstract: the connection a module opens itself is one at a time | conduct of `connect`, `doWriteEvent`, `doReadEvent`, `abbau` and `iso_abbau` (359-508, 1162-1190, 1237-1305, 1459-1472) |
| `TcpConn` | a TCP module, its server, its acceptances, the calls of TopMan | topEthernet.cpp 18-38, 129-133, 196-244, 349-548, 862-941, 996-1026 |
| `OrderedChannel` | abstract: telegrams go out in order, each at most once | promise of the comment in line 283 |
| `SendQueue` | `cETH_ACCEPTANCE` sending to its peer | 281-331, 962-971 |
| `IsoReceive` | `ISORECEIVE` | 266-276, 589-628 |
| `PipeClient` | `cPIPE_CLIENT` and the program that serves the pipe | TopPipe.cpp 45-60, 136-224 |
| `IsoConn` | an ISO-TP module and the acceptances that have joined it | 40-70, 123-194, 630-960, 1029-1056, 1147-1472 |
| `IsoServer` | several ISO-TP modules behind one server, and which of them an acceptance belongs to | topEthernet.cpp 40-70, 734-798, 862-909, 983-992, 1459-1472; Topologie.cpp 72-88, 179-182 |
| `PipeServer` | `cPIPE_SERVER` and the programs that open its pipe | TopPipe.cpp 94-127, 185-271 |
| `Reports` | abstract: a register per module that is read with delay | purpose of the comment in Topologie.cpp 468 |
| `Availability` | `cMESSAGE`, `cCOMMAND`, and start, stop and receive of the modules | Topologie.cpp 241-289, 535-573; TopCommand.cpp 35-68 |
| `*_proofs` | theorems about the module of that name | |
| `MC_*` | instances for TLC | |

`TcpConn` and `IsoConn` are self-contained: they treat "send to an acceptance"
as one call. Both implement `Connection` with what they hold of the kernel. `SendQueue` says what such a call does inside the acceptance, and
`IsoReceive` how the telegrams `IsoConn` reacts to come about. `IsoServer` puts
several modules of `IsoConn`'s kind side by side, without their own connections.
`Availability` has every kind of module, of which it knows only whether it runs.
The operators named `...Slip` are faulty variants of the definition that follows
them; no specification uses them, they serve to check that a property would
notice the fault (`PROJECT.json`, "mutants").

### TcpConn

State: `connState`, `conSndState`, `fd`, `addr`, `dynamic_addr`, `acceptance` and
`bufQueue` are the members of those names (`bufQueue` as a number). `sock` is
what the kernel knows of a handle, `reg` the registrations in the event loop,
`peer` the live acceptance objects, `gone` those whose peer has closed, `server`
whether the listening socket could be opened. `told` is what an observer of
TopMan has been told: the addresses reported connected and not reported gone
since; `None` is the configured one, which `writeTopoData` puts into a report
that names none. `lastReport` is the report made last, whatever its address.
Which address a report carries is `Named`: only a dynamic module names one. The
report of an accepted connection is the exception, it always carries the peer's
own (877-880).

| Action | Code |
|---|---|
| `RunData`, `StopData` | `start`/`run`/`stop` and `runData`, `stopData` |
| `SendData`, `Disconnect`, `ConnectRequest`, `PartnerConnected` | `receive`, `receiveData` and what it calls |
| `OwnWriteEvent`, `OwnReadEvent` | `doWriteEvent`, `doReadEvent` of the own connection |
| `Accept`, `AcceptedReadEvent` | server and acceptance |
| `ConnectDone`, `PeerLeaves`, `AcceptedPeerLeaves` | kernel and peers |

Details that matter: the handlers look at `getFD()`, not at the handle of the
event; `abbau` erases map entries under its own iterator, which is undefined: with
acceptances it either works as intended, or goes wrong (`crashed`): the process
ends, or the loop ends early and `clear` takes the rest out of reach. What
happens after that is not followed; the map entry of an
acceptance is erased by address, whichever object it holds; looking up an unknown
dynamic partner inserts a `Null`; the server is opened by the first `runData`
only and never again if that failed.

Left out: payloads; data that arrives and is only passed on; errors of `send` on
the own connection (the telegram is lost, no state changes); a send to TopMan
that fails, since a TCP module looks at the result nowhere.

### Connection

The abstract specification of the own connection, with the mapping `state <-
conSndState`, `handle <- fd`, `held` <- the handles the kernel has not taken back,
`awaited <- reg`. `Begin` and `FailAtOnce` are `connect`, `Establish` is
`doWriteEvent` with success, `End` is every way to "Closed": `doWriteEvent` with an
error, `doReadEvent` without data, `abbau` and `iso_abbau`. All else is a stutter:
what TopMan, the acceptances and the queue do leaves the own connection alone.

### SendQueue and OrderedChannel

Telegrams are numbers, the send buffer of the kernel is counted in units. `Flush`
is the loop of `doWriteEvent`; `SendData` is `sendBuffered`, which with an empty
queue does directly what `Flush` would do. `Transmit` and `Break` are the kernel.
`wire` records which telegram the kernel took and how many units of it. "Would block" is taken to be EINPROGRESS (293, 318), which the header sees
to on Windows (topEthernet.hpp 25-30); elsewhere a full buffer gives EAGAIN, and
the code would drop the telegram.
`InOrder` states that `SendQueue` implements `OrderedChannel` with the mapping
`begun == [i |-> wire[i].tgr]`.

### IsoReceive

`sent`, `done` and `off` are the stream: lengths of the telegrams the peer has
sent, how many have been read, how far into the next. `len_received` and
`len_to_receive` are the members. A `recv` returns any part of what is asked for.
`Outlives` tells the two uses apart: the receiver of an acceptance dies with its
connection, that of the own ISO connection is a member of `cISOTP_ETHCONN` and
meets the next one in the state it was left in. If the receiver is out of step,
what it takes for a length field is any of the lengths (`LengthField`).

### IsoConn

As `TcpConn`, with these differences of the code: the acceptances form a vector;
an acceptance belongs to no module (`phase` "new") until its request names the
TSAPs; sending is what opens the own connection, and the telegram waits in
`bufQueue`; `iso_abbau` iterates over the vector while the destructors erase from
it (`PassedOver`), and closes and reports in every state; from two members on that
loop reads behind the end of the vector, and may end the process (`crashed`), with
three it deletes the last member a second time; the end of the own
connection is not reported; an error of `::connect` is only logged (`sock`
"dead"). Of a telegram the kind is kept; `asked` is what the peer of the own
connection knows of the requests. `told` is the last report: of a connection, of
an end, or "lost" if the send to TopMan failed. That counts here, because a
request is confirmed only if its report was sent (780); otherwise the acceptance
is deleted (787-790), even if it was associated before.

Left out: several modules behind one server and the search for TSAPs, which are
`IsoServer`; short acknowledgements, and data that is only passed on.

### IsoServer

`connState`, `pConnISO_map` and `pConnISO` are the members, `members` the vector
`acceptance` of each module as a set, `live` the acceptances that exist, `server`
whether `pServer_map` has an entry. `request` and `entered` are ghosts: the TSAPs
a peer has named, and the modules whose first start found a server.

| Action | Code |
|---|---|
| `RunData`, `StopData`, `Disconnect` | `runData` with `setConnISO`, `stopData`, `iso_abbau` |
| `Accept`, `AcceptedReadEvent` | the server's and an acceptance's `doReadEvent` |
| `RequestReceived` (`Join`, `Refuse`) | `iso_received` for a CR: lookup, `addAcceptance`, deletion if the module is not running or the report could not be sent, refusal |
| `DataRefused` | `iso_received` for DT and ED of an acceptance without a running module |

A TSAP is a sequence of numbers, of which `Digits` stand for digits: a module's
TSAPs pass `read_port_numerical`, which gives numbers leading zeros, and the key
of the map is one TSAP written after the other, as in the code. `iso_abbau`
deletes as many of the members as its loop reaches (of n it passes over
(n - 1) / 2, see `IsoConn`), whichever they are. `Repeats` says whether a peer that
belongs to a module may send a request again.

### PipeServer

`connState` is the member; `event` is the OVERLAPPED structure with its event, if
signalled; `pipe`, `connecting`, `reads` and `unread` are what the kernel knows.
`registered` is the callback registered last for the one event: the code
registers `doStartEvent`, `doWriteEvent` and `doReadEvent` for the same handle,
and the model takes the last one to replace the others. `asked`, `written`,
`heard` and `repeated` are ghosts.

| Action | Code |
|---|---|
| `RunData`, `DoStartEvent` | `connectPipe`, called by TopMan and once by the loop |
| `StopData` | `stopData` with `DisconnectNamedPipe` |
| `DoWriteEvent` | `doWriteEvent`: a client is there, the first read |
| `Reconnect`, `ReadData` | `doReadEvent` without and with data, its loop included |
| `Opens`, `Writes`, `Leaves` | the client |

Of Windows the model assumes: one instance of the pipe; `ReadFile` and
`ConnectNamedPipe` reset the event; a `ReadFile` that fails at once signals none;
a `ConnectNamedPipe` on a pipe that its client has left unnoticed fails with
ERROR_NO_DATA; `DisconnectNamedPipe` ends the reads that wait, not a connect; the
log that is written before the error code is looked at does not change it. Left
out: a `CreateNamedPipe` that fails, which leaves a server without a pipe;
octets; `receiveData`, which writes to the pipe and changes no state.

### Availability and Reports

`running` is the set of modules whose connection `isRunning`, `lastModState` the
member of `cMESSAGE`, `blocked` what `setBlockedByUser` has been told. `wire`
holds, per module, the reports under way, `shown` the last one the partner has
received. `said` is a ghost: all that `set` was told. `Start` and `Stop` are
`cTOPOLOGIE::start`, `run` and `stop` after the connection has done its part:
`set`, then `sendMsg` for every entry, which `writeTopoData` drops if the command
module does not run. `Receive` is `cTOPOLOGIE::receive`, which looks for commands
in the data of any module. A module with a pipe (`Late`) runs only when the pipe
is open. `Reporting` is all modules if the command interface is switched on, and otherwise
the command module alone: the others keep the dummy `pMessage`.

`Reports` is the abstract specification: a reader's view of a register is always
a value the register had, and never returns to an older one. `Availability`
implements it with the mapping `written <- said`, `view <- shown`,
`open <- Command \in running`. Its `Progress` is weak fairness of "open and
read", with ENABLED written out.

Left out: the text of the lines and the regular expression that takes them apart;
what blocking a module makes TopMan do.

### PipeClient

`connState`, `pipeHandle` are the members; `event` is the OVERLAPPED structure
with its event, if signalled; `pipe` and `reading` are what the kernel knows of
each handle and of the reads outstanding. `RunData`, `StopData`, `TimerCallback`
and `DoReadEvent` (`Reconnect` without, `ReadData` with data) are the functions;
the first, third and `Reconnect` share `runData`, split into `Connected` and
`NotConnected`. The server opens instances, writes and leaves as it likes. The
timer is taken to run once, since `runData` starts it again. Whether a read
cancelled by `CloseHandle` signals the event, and whether a `ReadFile` on a
broken pipe does, is left open. `wanted` is a ghost: TopMan's last word.

Left out: octets; `receiveData`, which writes to the pipe and changes no state.

## 3. Properties and runs

`expect: pass`

| Run | Instance | States | Properties |
|---|---|---|---|
| `tcp_static` | fixed partner, 3 addresses, 3 objects, 2 handles, AutoConnect, fair | 30 695 | `NoOrphan`, `LastReportTrue`, `ConfiguredIsConnected`, `OneConnectionAtATime`, `EndIsTold`, `ConnectEnds`, `EndIsReported` |
| `tcp_dynamic` | dynamic partners, repeated requests, address reuse, 2 addresses, 3 objects, 2 handles | 64 197 | `NoDangling`, `PausedIsClosed`, `OwnHandleWatched` |
| `send_queue` | telegrams of 2 units, room for 5, 6 telegrams | 815 | `WaitingAreLatest`, `NoneDropped`, `InOrder`, `QueueDrains` |
| `iso_receive` | header 4, telegrams of 4, 5 and 9 octets, 3 per connection | 1 304 | `InStep`, `Framed`, `Delivered` |
| `iso_safe` | 2 objects, 2 handles, buffer of 2, fair | 133 001 | `VectorMatches`, `NoneWaitsBesideOwn`, `PausedIsCutOff`, `OneConnectionAtATime`, `NoneDroppedSilently`, `ConnectEnds`, `PeerEndReported` |
| `pipe_client` | 3 handles, fair | 4 122 | `HandlesValid`, `ServerHeard`, `NeverGivesUp`, `Reconnects` |
| `iso_server` | 2 modules whose TSAPs are each other's swapped, one of them written without its leading zero; 3 peers, 3 TSAPs | 5 038 | `VectorsMatch`, `RightModule`, `ModulesApart` |
| `pipe_server` | 3 reads, 3 telegrams of a client, fair | 475 | `ReadsInOperation`, `ClientHeard`, `NoneSkipped`, `WaitsForClients`, `Served` |
| `availability` | the command module (3 calls) and one with a pipe (2 calls), 2 lines in a telegram, fair | 30 456 | `LastWordCounts`, `ReportedWhileOpen`, `ReportsInOrder`, `CatchesUp` |

The type invariants and `Reachable` (ISO-TP server: a module once entered is found
ever after) are not among the properties of the runs, as they are proved (section
4). Besides the refinements `OneConnectionAtATime`,
`InOrder` and `ReportsInOrder` three properties speak of steps:

* `EndIsTold` (TCP): the step that ends the own connection, or any acceptance,
  makes the report of an end the last one, also while other connections of the
  module last. `EndIsReported` says only that TopMan gets one some time after the
  last connection has gone. Neither speaks of the address, of
  which less is true (see "The address of a report" below).
* `NoneDroppedSilently` (ISO-TP): an acceptance may be refused, deleted, or torn
  down by `iso_abbau` with others, and TopMan's last report is then not that there
  is a connection; it may have been lost. Not every one of these handlers makes a report:
  DT and ED for a module that is not running (821, 841) delete in silence, which
  is right only because a stopped module has told TopMan already.
* `ModulesApart` (ISO-TP server): all acceptances of a server are of one kind, and
  a handler of one module reaches none of another's.

`expect: violation`: each takes one condition away under which a property above
holds, or states a comment of the source that the code does not keep.

| Run | What happens |
|---|---|
| `send_queue_cut` | a partial send counts as a whole one (292, 300, 316) |
| `iso_receive_stale` | the receiver of the own connection is not reset by `iso_abbau` (632) |
| `iso_three_peers` | `iso_abbau` passes over the second of three acceptances, and deletes the third twice (1458, 1461-1464) |

Seen in the models too, and described here instead of by a run of their own:

* *Address reuse* (TCP, 1014). With `PortReuse` a peer can come back from its old
  port before the adapter has read the end of its old connection; deleting the
  old object then erases the entry of the new one, and `NoOrphan` fails. That is
  why `NoOrphan` and `LastReportTrue` are claimed for `~PortReuse` only;
  `NoDangling` holds all the same.
* *A second request during the first* (203-204: "weitere werden ignoriert"). The
  connection is not yet "Connected" then, so a second socket is opened and the
  handle of the first is lost. `tcp_static` with `Impatient = TRUE` and the
  invariant `OneOwnSocket` shows it; `OneConnectionAtATime` is
  claimed for `~Impatient`.
* *A NULL in the map* (234, 527). Data for an unknown dynamic partner leaves an
  entry without an object; connect requests are then taken to be for an existing
  connection and ignored. `tcp_dynamic` with the invariant `IgnoredIsConnected`
  shows it.
* *A connect that fails at once* (1185-1188, 1237) leaves the ISO-TP module
  connecting for as long as nobody stops it. `iso_safe` with the property
  `EveryConnectEnds` shows it.
* *A second request of one peer* (744). With TSAPs of another module, or of none,
  it changes `pConnISO` and leaves the pointer in the first module's vector:
  later that module follows it to a freed object. `iso_server` with
  `Repeats = TRUE` shows it, by `VectorsMatch`. That property is claimed for peers
  that send their request once, as the first telegram (745).
* *A module that is never entered* (43, 65). `runData` looks for the server, and
  enters the module in its map, when the module is "Instantiated" only. One that
  finds no server then, or that is stopped before its first start, is never
  entered: peers that ask for it are refused for good. `Reachable` speaks of the
  modules that have been entered.
* *Buffered telegrams outlive their connect* (407, 1465): neither `abbau` nor
  `iso_abbau` empties `bufQueue`; the telegrams go out on a later connection of the
  module's own, and not at all if a peer connects instead: with ISO-TP they wait
  beside the accepted peer, which gets all later telegrams (1308, 1341).
  `iso_safe` with the invariant `NoneWaitsBesidePeer` shows it. Beside the own
  connection none is left behind (`NoneWaitsBesideOwn`).
* *The address of a report* (877-880, 921-925). A partner reported connected by
  an acceptance of a module with a fixed partner is never reported gone, unless it
  has connected from the configured port; and the configured partner is reported
  gone when an accepted peer leaves, even while the own connection to it lasts.
  `tcp_static` with the invariant `ToldIsConnected` shows it; the comment in line
  920 says of the report of the end "send partner not reachable".
  What does hold: the kind of the last report (`LastReportTrue`), and that the
  configured partner is not believed connected after its end
  (`ConfiguredIsConnected`).
* *A repeated request whose report is lost* (780-790): a peer that is associated
  already and sends its CR again is deleted if the send to TopMan fails, and
  TopMan is not told. Like every lost report this is the exception in
  `NoneDroppedSilently`.
* *Ignored and never told* (233): a peer accepted while the module was stopped is
  not reported, and later a connect request is ignored because of it.
* *Data before the request* (1290, 745): the end of the own ISO connection is not
  reported; TopMan goes on sending, and the connection opened for that starts
  with data instead of a CR.
* *One end for many* (386, 415): with dynamic partners `abbau` reports one end,
  under the address of the own connection, however many it cuts off. Hence
  `ConfiguredIsConnected` is about a fixed partner; `ToldIsConnected` fails here as
  well.
* *A stopped pipe client runs again* (TopPipe.cpp 175, 191): `stopData` leaves the
  timer and a signalled event alone; either of them opens the pipe after a stop.
* *Lost pipes* (TopPipe.cpp 150): `runData` has no guard. A second `run`, or the
  timer of an attempt before a stop, opens another pipe and forgets the handle of
  the first; or it finds no server, and leaves the module running without a pipe
  (the timer is started again).
* *An end that is not noticed* (TopPipe.cpp 216): data and end may come before the
  data are read. `ReadFile` then fails, which is taken for "no more data"; unless
  the failure signals the event the module stays on its broken pipe.
* *A stopped pipe server takes clients* (TopPipe.cpp 252, 233, 189). Nothing takes
  back a connect that waits, and the end of the read that `stopData` itself causes
  makes `doReadEvent` connect the pipe again: a client that opens the pipe of a
  stopped module sets it running.
* *A client that left unnoticed* (TopPipe.cpp 218, 244-252, 270). If the client has
  gone before its pipe is looked at again, neither the read that fails at once nor
  the connect (ERROR_NO_DATA) has an event: the server waits for nothing. A stop
  of a running module mends it; a server whose client has opened the pipe and
  left before the first connect stays deaf. Hence the exception "closing" in
  `WaitsForClients`.
* *run for a connected client* (TopPipe.cpp 248). A second read is started into the
  buffer of the first, and one event serves both; a telegram can be lost.
  `NoneSkipped` is claimed for `~repeated`.
* *A late command pipe* (Topologie.cpp 468). If the connection of the command
  module runs only later, when its pipe opens, nobody is told then what was not
  reported before: the next `set` is what sends it. `Availability` has a command
  module that runs at once (`Command \notin Late`).
* *Expedited data after a refusal* (1440, 761): a refused request leaves an
  earlier grant in force.

### Bounds

Two or three addresses and objects are enough for the TCP properties, which speak
of an entry and an object, or of two that share an address; the third object is
there so that a port can be reused twice. Two handles are needed to see a handle
lost or an old one still registered; with a third nothing new happens, because
the code knows one at a time. Three acceptances are where the loop of `iso_abbau`
goes wrong, two are what the comment in line 1309 expects. `MaxBuf` bounds
telegrams sent during one connect: one is enough where only "some" matters, two
where the order of emptying does. In `SendQueue` 5 units of room for telegrams of
2 give sends that fit, that are cut, and that are refused, in every order. In
`IsoReceive` the lengths are a bare header, one octet more, and more than two
headers, so that chunks end before, at and after the header of either the right
or the wrong telegram. In `IsoServer` two modules are enough for a peer in the wrong one;
swapped TSAPs are the pair that a wrong order of the key mistakes, the leading
zero is what `read_port_numerical` is for, and with three peers `iso_abbau` passes
one over. In `PipeServer` three telegrams are one that an outstanding read takes
and two that the loop must find; with three reads, run is repeated twice. In
`Availability` three calls let the command module start, stop and start again, and
two calls of another module fall before, between and after them; two lines are
enough for one to contradict the other. The theorems hold without these bounds,
`MaxBuf` aside.

### Fairness

The event loop serves a registered event for as long as it is pending: weak
fairness of the read and write events, each disabled by nothing but its own
handling or a stop. The kernel decides every connect that is under way (with
success, refusal or its own timeout) and transmits what it has accepted. A timer
that has been started expires. TopMan delivers the reports it has been given. Nothing obliges TopMan, a peer or a pipe's server
to do anything: `stop`, data, connects and departures are never fair. Not assumed: that the loop reports a handle on which `::connect`
has failed at once (`sock` "dead"), which differs between systems; hence
`ConnectEnds` of `IsoConn` is claimed for a connect under way in the network, and
`EveryConnectEnds` fails. Deadlock is checked except in `send_queue` and
`send_queue_cut`, where all telegrams may have been sent; a crashed process stutters. What the models cannot
show is a handler that blocks in the kernel: `FlushFileBuffers` (TopPipe.cpp 232)
waits for the client to read, and with it the whole process.

## 4. Proofs

All theorems hold for every value of the constants that meets the named
assumption of the module (`ConstantsAssumption`, `SendAssumption`,
`ReceiveAssumption`, `IsoAssumption`, `PipeAssumption`, `ServerAssumption`,
`PipeServerAssumption`, `AvailabilityAssumption`; TLC evaluates each). Where a theorem has a
further condition it is part of its statement.

| Module | Theorem | Condition | Shows |
|---|---|---|---|
| `TcpConn_proofs` | `TypeCorrect` | | `TypeOK` |
| | `NeverDangling` | | `NoDangling` |
| | `PausedClosed` | | `PausedIsClosed` |
| | `OwnHandleAlwaysWatched` | | `OwnHandleWatched` |
| | `NeverOrphan` | `~PortReuse` | `NoOrphan` |
| | `SocketsKept` | `~Impatient` | `SocketDiscipline` |
| | `ConnectionImplemented` | `~Impatient` | `OneConnectionAtATime` |
| | `LastWordTrue` | `~PortReuse` | `LastReportTrue` |
| | `ConfiguredTold` | `~Dynamic` | `ConfiguredIsConnected` |
| | `EndsTold` | `~PortReuse` | `EndIsTold` |
| `SendQueue_proofs` | `QueueHoldsLatest` | | `WaitingAreLatest` |
| | `SendTypes`, `NoTelegramDropped` | | `SendTypeOK`, `NoneDropped` |
| | `SendsInOrder` | | `InOrder` |
| `IsoReceive_proofs` | `ReceiverTypes` | | `TypeOK` |
| | `NeverOutOfStep`, `TelegramsFramed` | `~Outlives` | `InStep`, `Framed` |
| | `OwnReceiverInStep` | `TornDownBetween` | `InStep`, `Framed` |
| `PipeClient_proofs` | `ClientTypes`, `HandlesKept` | | `TypeOK`, `HandlesValid` |
| | `AlwaysListens` | | `ServerHeard` |
| | `RetryKept` | | `NeverGivesUp` |
| `IsoConn_proofs` | `IsoTypeCorrect` | | `TypeOK` |
| | `VectorKept` | | `VectorMatches` |
| | `HandlesKept`, `OwnQueueEmptied` | | `SocketDiscipline`, `NoneWaitsBesideOwn` |
| | `ConnectionImplemented` | | `OneConnectionAtATime` |
| | `PausedCutOff` | `AtMostTwo` | `PausedIsCutOff` |
| | `PausedCutOffIfFew` | `FewAtStops` | `PausedIsCutOff` |
| | `DropsTold` | | `NoneDroppedSilently` |
| `IsoServer_proofs` | `ServerTypes` | | `TypeOK` |
| | `VectorsKept`, `ModulesKeptApart` | `~Repeats` | `VectorsMatch`, `ModulesApart` |
| | `VectorsKeptIfSame`, `KeptApartIfSame` | `AsksTheSame` | `VectorsMatch`, `ModulesApart` |
| | `JoinedAsAsked` | `FixedLength` | `RightModule` |
| | `EnteredForGood` | `DistinctKeys` | `Reachable` |
| `PipeServer_proofs` | `ServerTypes` | | `TypeOK` |
| | `ReadsWhileRunning`, `ClientAlwaysHeard` | | `ReadsInOperation`, `ClientHeard` |
| | `NothingSkipped` | | `NoneSkipped` |
| | `AlwaysWaits` | | `WaitsForClients` |
| `Availability_proofs` | `AlwaysReported` | | `ReportedWhileOpen` |
| | `ReportsImplemented` | | `ReportsInOrder` |
| | `LastWordDecides` | | `LastWordCounts` |
| | `AvailabilityTypes` | | `TypeOK` |

Three of the conditions are formulas over steps, [][A]_vars, and say what the
surroundings may not do, where a constant would forbid more than is needed:

* `TornDownBetween`: no `iso_abbau` in the middle of a telegram. Together with
  `iso_receive_stale` it says that this is the one way in which the receiver of
  the own connection, which outlives it, gets out of step.
* `FewAtStops`: no stop finds more than two associated peers. However many come
  and go between the stops, a stopped module is then cut off.
* `AsksTheSame`: a peer that asks again asks for the module it belongs to. It may
  then repeat its request as often as it likes.

The theorems with a constant as their condition (`~Outlives`, `AtMostTwo`,
`~Repeats`) follow from these.

The arguments.

*TcpConn.* The properties need one another. An entry that leads to the right
object stays so under `AddAcceptance` because two live objects with one address
exist only under `PortReuse`, and even then the older one's entry is overwritten,
not shared. The inductive invariant is the conjunction of type correctness, the
agreement of map and objects in both directions (one of them conditional on
`~PortReuse`), the watched handle, and, conditionally, `SocketDiscipline`,
`LastReportTrue` and `ConfiguredIsConnected`. The last two need that a stopped
module has no report to take back, which `abbau` guarantees by reporting before
`setPaused`; `LastReportTrue` also that what an `abbau` leaves out of its report is
nothing: every live acceptance is in the map. `EndIsTold` needs the same of the
states before the step. `SocketDiscipline` says by state which handle
is held and which event is awaited; it is what makes every action a step of
`Connection` or a stutter (`OwnStep`), as a `Begin` needs that nothing is held and
`Establish` that the outcome awaited is the one of the present handle.

*SendQueue.* The invariant relates three things: the queue is the tail of what
was handed over, the wire is increasing, and every number on the wire is below
every number in the queue. A step of `Flush` moves a prefix of the queue to the
end of the wire, which preserves all three; that it maps to a step of
`OrderedChannel` follows. `NoneDropped` adds that, while the connection lasts, no
number is missing: what a flush moves takes the places that follow on the wire
(`FlushMoves`).

*IsoReceive.* With `~Outlives`, `InStep` says that the receiver's position is the
stream's. With the receiver that outlives its connection the argument is the same,
except for `Abbau`, where `TornDownBetween` gives a position of 0. The invariant
needs to know in addition that the receiver's target is the header
before, and the length of the current telegram from the header on, and that the
position stays below the target; `Framed` follows when the target is reached.

*IsoConn.* Removing from, adding to and passing over a vector without duplicates
are lemmas about sequences (`RemoveProps`, `AddProps`, `PassedOverProps`); from
these every handler keeps vector and associated objects in agreement. Handles and
registrations are a separate invariant, by state of the connection.
`PausedIsCutOff` needs both, and that `PassedOver` leaves nothing of a vector of
two. The refinement of `Connection` follows from the second, in the form
`HeldByState`. `NoneDroppedSilently` needs that a stopped module has told TopMan
of the end already, or tried to (`SilentWhenPaused`), an invariant that holds for any number
of peers, although with three `PausedIsCutOff` does not.

*PipeClient.* The four safety properties together are inductive. `runData` is
entered from three handlers with different pipes and reads; the lemmas
`ConnectedOK` and `NotConnectedOK` say what it makes of any of them, provided
reads are outstanding on open pipes only, and `ClosedOK` that a close leaves it
so.

*IsoServer.* The map is right: it leads from a key to a module with that key.
Hence the TSAPs a peer has asked for, put together, are the key of the module it
belongs to (`KeyAsked`), and if all TSAPs have one length a key can be taken apart
in one way only. `VectorsMatch` needs that a peer changes its module never
(`~Repeats`, or `AsksTheSame`). `ModulesApart` follows from it: whoever is deleted in one step
belongs to one module, since `iso_abbau` takes its victims from the vector of that
module (`DestroyOfOne`). `Reachable` needs that nobody else overwrites an entry (`DistinctKeys`).

*PipeServer.* The four safety properties need three facts about one client:
which callback is registered for the event that can come next (`Turns`, and
`Single`: one operation at a time unless run is repeated), that a module that is
not in operation has taken nothing from its client (`Idle`), and where its
telegrams are (`Accounted`). Each step has the same shape: the lemmas about
`ConnectPipe`, `AwaitClient` and `StartRead` say what the callee makes of any
pipe.

*Availability.* `Faithful` relates, module by module, the reports under way, the
one received, and the states so far: each report tells of a state the module was
in, none of an earlier one than the report before it. A step of one module sends
reports on all of them, so that the lemmas speak of one module's four values and
the step is their sum. With it `Deliver` maps to a `Read`, `Set` to a `Write`, and
everything else to a stutter.

`LastWordCounts` speaks of telegrams with any number of lines, and of what a fold
over them makes of `blocked`. The library's theorems on induction and folds take
operators as parameters and cannot be used; but `WFMin`, that a set of numbers has
a least member, takes none, and induction over a set given by name follows
(`NatInd`). With it the fold of the lines is shown to exist as a function
(`IterExists`), and to be what going line by line makes of the state
(`LineByLine`); that the last line on a module decides is then one more induction,
whose step is `OneMoreLine`.

Only model-checked: the liveness properties (`ConnectEnds`, `EndIsReported`,
`QueueDrains`, `Delivered`, `PeerEndReported`, `Reconnects`, `CatchesUp`,
`Served`), since the prover has neither fairness nor ENABLED. Every safety
property of a passing run is a theorem.

## 5. Not modelled

The components are modelled in the order of their importance: TCP module, sending,
receiving, ISO-TP module, pipe client, pipe server, ISO-TP server, command channel.
What is left, and why:

* *UDP module.* Its only memory is `altAddr`, which every datagram overwrites and
  every send reads; a model would restate two assignments. What follows from
  them: the answer of a module with a fixed partner goes to whoever sent last,
  also if that was while the module was stopped, or an empty datagram (1125); with
  dynamic partners the destination is taken from the data, and a telegram shorter
  than the six octets of an address makes the length wrap (573).
* *Observer.* Two flags and a copy of each telegram; nothing takes two steps.
* *Console, main.* Logging; and options, read once. Two things met on the way: in
  Topologie.cpp 358-363 the option for the command interface compares the result of
  `strcmp` the wrong way round, so that both "on" and "off" switch it off; and
  the line `{ xx }` in TopCommand.cpp 21 does not compile.
* *Command channel*, in part: a process without a module "Command", whose reports
  go to a pipe (which `PipeServer` models) or nowhere; `cMESSAGE::set` for a
  telegram, which nobody calls. A command pipe belongs to no module object and yet
  copies its messages to that object's observer (TopPipe.cpp 285), which does no
  harm while there is no observer.
* *Handles of the whole process.* `iso_abbau` closes a handle that may be closed
  already (1468). Whether another module has been given its number meanwhile is
  decided by the operating system's table, and by what the TopMan library opens.
* *Acknowledgements of the ISO-TP module.* They change no state of the adapter.
* *TopMan library.* Not part of the repository: it appears only in how its
  callbacks and sockets are used.
* For good: attributes and addresses read at start, logging, the octets of RFC
  1006 telegrams.
