------------------------------ MODULE Reports ------------------------------
(***************************************************************************)
(* What the availability reports promise to whoever reads them: a register *)
(* per module that is read with delay.  The view of a module is always a   *)
(* state the module really was in, and it never goes back to an older one. *)
(* As long as the channel is open, a view that is behind moves on.         *)
(***************************************************************************)
EXTENDS Naturals, Sequences

CONSTANTS Modules, Words

VARIABLES written,   \* per module: its states so far, in order
          view,      \* per module: the state the reader knows, and which it is
          open       \* the reports can be sent

Unknown == [word |-> "none", nr |-> 0]

ReportsInit ==
    /\ written = [m \in Modules |-> <<>>]
    /\ view = [m \in Modules |-> Unknown]

Write(m) ==
    /\ \E w \in Words : written' = [written EXCEPT ![m] = Append(@, w)]
    /\ UNCHANGED view

Read(m) ==
    /\ \E n \in (view[m].nr + 1)..Len(written[m]) :
          view' = [view EXCEPT ![m] = [word |-> written[m][n], nr |-> n]]
    /\ UNCHANGED written

ReportsNext == \E m \in Modules : Write(m) \/ Read(m)

ReportsSpec == ReportsInit /\ [][ReportsNext]_<<written, view>>

\* A view that stays behind while the channel stays open is read at last: weak
\* fairness of (open /\ Read(m)), with its ENABLED written out.
Progress ==
    \A m \in Modules :
        \/ []<>(~open \/ view[m].nr = Len(written[m]))
        \/ []<><<Read(m)>>_<<written, view>>
=============================================================================
