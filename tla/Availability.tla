---------------------------- MODULE Availability ----------------------------
(***************************************************************************)
(* The command module: cMESSAGE remembers which modules TopMan has started *)
(* and stopped, and each change makes it report all of them, through the   *)
(* connection of the module "Command" and TopMan, to a partner elsewhere.  *)
(* cCOMMAND takes the opposite way: lines "module,off" in the data of a    *)
(* telegram block a module of this process, other words release it.        *)
(*                                                                         *)
(* The telegrams under way are kept in one queue per module they speak of: *)
(* the order of reports on different modules is left open.  Those not yet  *)
(* delivered when the command module stops may be lost, the latest first.  *)
(*                                                                         *)
(* Left out: the text of the lines and the regular expression that takes   *)
(* them apart; a process without a module "Command" (its reports go to a   *)
(* pipe, or nowhere); what blocking a module makes TopMan do.              *)
(***************************************************************************)
EXTENDS Integers, Sequences, SequencesExt

CONSTANTS Modules,     \* cTOPOLOGIE::modLocalList
          Command,     \* the one named "Command"
          Reporting,   \* those whose pMessage is the cMESSAGE: all or Command
          Late,        \* connections that run when their pipe is open
          Elsewhere,   \* a name that is not in modLocalList
          MaxCalls,    \* bound: calls of start, run and stop, per module
          MaxLines     \* bound: lines in a telegram

ASSUME AvailabilityAssumption ==
    /\ Command \in Modules \ Late
    /\ Reporting \in {Modules, {Command}}
    /\ Elsewhere \notin Modules
    /\ MaxCalls \in [Modules -> Nat] /\ MaxLines \in Nat

VARIABLES
    running,       \* the modules whose connection isRunning
    lastModState,  \* cMESSAGE::lastModState; "none" where there is no entry
    wire,          \* per module: reports sent and not yet delivered
    shown,         \* per module: the last report the partner has received
    blocked,       \* the modules for which setBlockedByUser was last told TRUE
    said           \* ghost: per module, all that was passed to cMESSAGE::set

reporting == <<lastModState, wire, shown, said>>
vars == <<running, lastModState, wire, shown, blocked, said>>

Words == {"on", "off"}
Lines == [module : Modules \cup {Elsewhere}, word : Words]

\* What the partner knows, to be compared with what was the case.
Reports == INSTANCE Reports
             WITH written <- said, view <- shown, open <- Command \in running
Unknown == Reports!Unknown

Init ==
    /\ running = {}
    /\ lastModState = [m \in Modules |-> "none"]
    /\ wire = [m \in Modules |-> <<>>]
    /\ shown = [m \in Modules |-> Unknown]
    /\ blocked = {}
    /\ said = [m \in Modules |-> <<>>]

-----------------------------------------------------------------------------
(* Reports. *)

\* Faulty variant: map::insert, which leaves an entry that is there alone.
SetSlip(m, word) ==
    /\ lastModState' = [lastModState EXCEPT ![m] = IF @ = "none" THEN word ELSE @]
    /\ said' = [said EXCEPT ![m] = Append(@, word)]
\* cMESSAGE::set
Set(m, word) ==
    /\ lastModState' = [lastModState EXCEPT ![m] = word]
    /\ said' = [said EXCEPT ![m] = Append(@, word)]

\* The report on module n, as of the values after a step.
Report(n) == [word |-> lastModState'[n], nr |-> Len(said'[n])]

\* Faulty variant: only the module that has changed is reported.
SendMsgSlip(m, up) ==
    wire' = [wire EXCEPT ![m] = IF Command \in up THEN Append(@, Report(m)) ELSE @]
\* cMESSAGE::sendMsg after a change of module m: a telegram for each entry,
\* dropped by writeTopoData if the command module is not among those running.
SendMsg(m, up) ==
    wire' = [n \in Modules |->
                IF Command \in up /\ lastModState'[n] # "none"
                THEN Append(wire[n], Report(n))
                ELSE wire[n]]

\* Through the pMessage of a module that does not report nothing happens.
SetAndSend(m, word, up) ==
    IF m \in Reporting
    THEN Len(said[m]) < MaxCalls[m] /\ Set(m, word) /\ SendMsg(m, up)
    ELSE UNCHANGED <<lastModState, said, wire>>

\* cTOPOLOGIE::start and run.  A pipe may be open at once, or later.
Started(m) == IF m \in Late THEN {running, running \cup {m}} ELSE {running \cup {m}}
\* Faulty variant: the report is sent before the connection runs.
StartSlip(m) ==
    /\ running' \in Started(m)
    /\ SetAndSend(m, "on", running)
    /\ UNCHANGED <<shown, blocked>>
Start(m) ==
    /\ running' \in Started(m)
    /\ SetAndSend(m, "on", running')
    /\ UNCHANGED <<shown, blocked>>

\* cTOPOLOGIE::stop
Stop(m) ==
    /\ running' = running \ {m}
    /\ SetAndSend(m, "off", running')
    /\ UNCHANGED <<shown, blocked>>

\* A pipe is opened by its timer or its client, or closed by its other end.
PipeChanges(m) ==
    /\ m \in Late
    /\ running' = IF m \in running THEN running \ {m} ELSE running \cup {m}
    /\ UNCHANGED <<reporting, blocked>>

\* TopMan delivers a report.
Deliver(m) ==
    /\ wire[m] # <<>>
    /\ shown' = [shown EXCEPT ![m] = Head(wire[m])]
    /\ wire' = [wire EXCEPT ![m] = Tail(@)]
    /\ UNCHANGED <<running, lastModState, said, blocked>>

\* A report under way is lost, as the command module has been stopped.
Lose(m) ==
    /\ Command \notin running
    /\ wire[m] # <<>>
    /\ wire' = [wire EXCEPT ![m] = Front(@)]
    /\ UNCHANGED <<running, lastModState, shown, said, blocked>>

-----------------------------------------------------------------------------
(* Commands. *)

\* cTOPOLOGIE::doCommand
DoCommand(b, line) ==
    IF line.module \notin Modules
    THEN b
    ELSE IF line.word = "off" THEN b \cup {line.module} ELSE b \ {line.module}

\* Faulty variant: the last line first.
RecvCmdSlip(b, lines) == FoldRight(LAMBDA line, x : DoCommand(x, line), lines, b)
\* cTOPOLOGIE::recvCmd: one line after the other.
RecvCmd(b, lines) == FoldLeft(DoCommand, b, lines)

\* cTOPOLOGIE::receive.  Whichever module the telegram is for, its data are
\* looked through for commands, provided the module runs.
Receive(m, lines) ==
    /\ m \in running
    /\ blocked' = RecvCmd(blocked, lines)
    /\ UNCHANGED <<running, reporting>>

Telegrams == UNION {[1..n -> Lines] : n \in 1..MaxLines}

Next ==
    \/ \E m \in Modules : \/ Start(m) \/ Stop(m) \/ PipeChanges(m)
                          \/ Deliver(m) \/ Lose(m)
    \/ \E m \in Modules, lines \in Telegrams : Receive(m, lines)

Spec == Init /\ [][Next]_vars

\* TopMan delivers what it has been given.
FairSpec == Spec /\ \A m \in Modules : WF_vars(Deliver(m))

-----------------------------------------------------------------------------
(* Properties. *)

\* The variables have the types the comments at their declaration say.
TypeOK ==
    /\ running \subseteq Modules
    /\ lastModState \in [Modules -> Words \cup {"none"}]
    /\ wire \in [Modules -> Seq([word : Words, nr : Nat])]
    /\ shown \in [Modules -> [word : Words \cup {"none"}, nr : Nat]]
    /\ blocked \subseteq Modules
    /\ said \in [Modules -> Seq(Words)]
    /\ \A m \in Modules : Len(said[m]) <= MaxCalls[m]

\* The last report on module m that has been sent and is not lost.
Latest(m) == IF wire[m] = <<>> THEN shown[m] ELSE Last(wire[m])

\* While the command module runs, the partner knows the state of every module
\* or is about to: whatever changed while it was stopped has been made good
\* (start, run and stop: connection, then set, then sendMsg of all entries;
\* "zustaende zwischengepuffert", Topologie.cpp 468).
ReportedWhileOpen ==
    Command \in running =>
        \A m \in Modules :
            Latest(m) = [word |-> lastModState[m], nr |-> Len(said[m])]

\* The reports implement a register read with delay: the partner never sees a
\* state that was not, nor returns to an older one, although every change
\* sends every entry again and telegrams are lost with a stop.
ReportsInOrder == Reports!ReportsSpec

\* While the command module runs, a partner that is behind catches up.
CatchesUp == Reports!Progress

\* A telegram blocks a module if the last line about it says "off", releases
\* it if that line says anything else, and otherwise leaves it as it was,
\* whatever other names and lines it contains (recvCmd, doCommand).
LastWordCounts ==
    \A n \in Modules, lines \in Telegrams :
        LET about == {i \in DOMAIN lines : lines[i].module = n}
        IN  n \in RecvCmd(blocked, lines) <=>
               IF about = {} THEN n \in blocked
               ELSE \E i \in about : /\ lines[i].word = "off"
                                     /\ \A j \in about : j <= i
=============================================================================
