----------------------------- MODULE IsoServer -----------------------------
(***************************************************************************)
(* Several ISO-TP modules behind one server.  Whoever connects to the      *)
(* address of the modules gets an acceptance that belongs to none of them, *)
(* until its connection request names two TSAPs; the server looks them up  *)
(* in a map in which every module has been entered under its own two.      *)
(*                                                                         *)
(* IsoConn follows one of these modules and its own connection; here the   *)
(* question is which of them an acceptance belongs to.  The vector of a    *)
(* module is reduced to the set of its members, and what iso_abbau passes  *)
(* over to a choice of as many members as it does pass over.               *)
(*                                                                         *)
(* Left out: what the modules tell TopMan, the rest of the telegrams, and  *)
(* addresses: modules of different addresses share nothing.                *)
(***************************************************************************)
EXTENDS Integers, Sequences, FiniteSets

CONSTANTS
    Modules,
    LocalPort,    \* per module: the port of its address "Local", a text
    RemotePort,   \* and that of "Remote"; texts are sequences of numbers
    Digits,       \* those that stand for digits, 0 among them
    Width,        \* how many digits a TSAP has that is a number: 5
    Accs,         \* identities of acceptances
    Tsaps,        \* what peers may write into a request
    Repeats,      \* may a peer that belongs to a module send a request again?
    None          \* NULL

ASSUME ServerAssumption ==
    /\ None \notin Modules \cup (Tsaps \X Tsaps)
    /\ 0 \in Digits /\ Digits \subseteq Nat /\ Width \in Nat
    /\ Tsaps \subseteq Seq(Nat)
    /\ LocalPort \in [Modules -> Seq(Nat)] /\ RemotePort \in [Modules -> Seq(Nat)]
    /\ Repeats \in BOOLEAN

\* cTOPOLOGIE::read_port_numerical: numbers get leading zeros.
ReadPortNumerical(port) ==
    IF \A i \in DOMAIN port : port[i] \in Digits
    THEN [i \in 1..(Width - Len(port)) |-> 0] \o port
    ELSE port

LocalTsap(m)  == ReadPortNumerical(LocalPort[m])
RemoteTsap(m) == ReadPortNumerical(RemotePort[m])

\* Faulty variant: local and remote swapped, as they once were.
SapKennungSlip(m) == RemoteTsap(m) \o LocalTsap(m)
\* cISOTP_ETHCONN::sap_kennung
SapKennung(m) == LocalTsap(m) \o RemoteTsap(m)

Keys == {SapKennung(m) : m \in Modules} \cup {x \o y : x, y \in Tsaps}

VARIABLES
    connState,     \* per module: TopoDataReceive::connState
    server,        \* there is a server in pServer_map
    pConnISO_map,  \* cTCP_ETHSERVER: a module, or None (also for "no entry")
    members,       \* per module: who is in its vector "acceptance"
    live,          \* the acceptance objects that exist
    pConnISO,      \* cETH_ACCEPTANCE::pConnISO
    request,       \* ghost: the TSAPs, called and calling, last asked for
    entered        \* ghost: the modules whose first start found a server

vars == <<connState, server, pConnISO_map, members, live, pConnISO, request, entered>>
modVars == <<connState, server, pConnISO_map, entered>>

Init ==
    /\ connState = [m \in Modules |-> "Instantiated"]
    /\ server = FALSE
    /\ pConnISO_map = [k \in Keys |-> None]
    /\ members = [m \in Modules |-> {}]
    /\ live = {}
    /\ pConnISO = [a \in Accs |-> None]
    /\ request = [a \in Accs |-> None]
    /\ entered = {}

-----------------------------------------------------------------------------
(* The modules. *)

IsRunning(m) == connState[m] = "Running"

\* Faulty variant: one module per server.
SetConnISOSlip(m) ==
    pConnISO_map' = [k \in Keys |-> IF k = SapKennung(m) THEN m ELSE None]
\* cTCP_ETHSERVER::setConnISO
SetConnISO(m) == pConnISO_map' = [pConnISO_map EXCEPT ![SapKennung(m)] = m]

SetRunning(m) == connState' = [connState EXCEPT ![m] = "Running"]

\* start and run.  The first one enters the module in the server that is there
\* or that it opens; if it can open none the module is not entered for good.
RunData(m) ==
    /\ IF connState[m] = "Instantiated"
       THEN /\ server' \in {server, TRUE}
            /\ IF server'
               THEN SetConnISO(m) /\ entered' = entered \cup {m}
               ELSE UNCHANGED <<pConnISO_map, entered>>
       ELSE UNCHANGED <<server, pConnISO_map, entered>>
    /\ SetRunning(m)
    /\ UNCHANGED <<members, live, pConnISO, request>>

\* Faulty variant: the destructor does not tell the module.
DestroySlip(dead) ==
    /\ members' = members
    /\ live' = live \ dead
    /\ pConnISO' = [a \in Accs |-> IF a \in dead THEN None ELSE pConnISO[a]]
    /\ request' = [a \in Accs |-> IF a \in dead THEN None ELSE request[a]]
\* The acceptances in dead are deleted.  Each takes itself out of the vector of
\* the module it belongs to then.
Destroy(dead) ==
    /\ members' = [m \in Modules |-> members[m] \ {a \in dead : pConnISO[a] = m}]
    /\ live' = live \ dead
    /\ pConnISO' = [a \in Accs |-> IF a \in dead THEN None ELSE pConnISO[a]]
    /\ request' = [a \in Accs |-> IF a \in dead THEN None ELSE request[a]]

\* Faulty variant: the loop runs over all the acceptances of the server.
VisitedSlip(m) == {live}
\* The members that the loop of iso_abbau reaches: of n it passes over
\* (n - 1) / 2, if there are any.
Visited(m) ==
    {dead \in SUBSET members[m] :
        LET n == Cardinality(members[m])
        IN  n > 0 => Cardinality(dead) = n - ((n - 1) \div 2)}

\* iso_abbau
IsoAbbau(m) == \E dead \in Visited(m) : Destroy(dead)

StopData(m) ==
    /\ IsoAbbau(m)
    /\ connState' = [connState EXCEPT ![m] = "Paused"]
    /\ UNCHANGED <<server, pConnISO_map, entered>>

\* nVerbindungsabbau
Disconnect(m) == IsRunning(m) /\ IsoAbbau(m) /\ UNCHANGED modVars

-----------------------------------------------------------------------------
(* Server and acceptances. *)

\* doReadEvent of the server
Accept(a) ==
    /\ server
    /\ a \notin live
    /\ live' = live \cup {a}
    /\ UNCHANGED <<modVars, members, pConnISO, request>>

\* cTCP_ETHSERVER::getConnISO.  An unknown key gets an entry, of NULL.
GetConnISO(called, calling) == pConnISO_map[called \o calling]

\* iso_received, CR, with TSAPs of module m: addAcceptance; then "delete this"
\* if writeTopoData could not tell TopMan, because the module is not running or
\* the send fails.
Join(a, m) ==
    /\ SetConnISO(m)
    /\ \/ /\ IsRunning(m)
          /\ members' = [members EXCEPT ![m] = @ \cup {a}]
          /\ pConnISO' = [pConnISO EXCEPT ![a] = m]
          /\ UNCHANGED live
       \/ /\ members' = [members EXCEPT ![m] = @ \ {a}]
          /\ pConnISO' = [pConnISO EXCEPT ![a] = None]
          /\ live' = live \ {a}

\* iso_received, CR, with TSAPs of no module: an error is sent back, and the
\* acceptance belongs to no module, whatever it belonged to.
Refuse(a) ==
    /\ pConnISO' = [pConnISO EXCEPT ![a] = None]
    /\ UNCHANGED <<members, live, pConnISO_map>>

\* A request of a peer that belongs to a module already does not come if peers
\* send theirs "nach accept als erstes telegramm" (745), and once.
RequestReceived(a, called, calling) ==
    /\ a \in live
    /\ pConnISO[a] = None \/ Repeats
    /\ LET m == GetConnISO(called, calling)
       IN  /\ IF m # None THEN Join(a, m) ELSE Refuse(a)
           /\ request' = [request EXCEPT
                            ![a] = IF a \in live' THEN <<called, calling>> ELSE None]
    /\ UNCHANGED <<connState, server, entered>>

\* iso_received, DT or ED of an acceptance that belongs to no running module.
DataRefused(a) ==
    /\ a \in live
    /\ pConnISO[a] # None => ~IsRunning(pConnISO[a])
    /\ Destroy({a})
    /\ UNCHANGED modVars

\* doReadEvent of an acceptance, recv < 1
AcceptedReadEvent(a) ==
    /\ a \in live
    /\ Destroy({a})
    /\ UNCHANGED modVars

-----------------------------------------------------------------------------
Next ==
    \/ \E m \in Modules : RunData(m) \/ StopData(m) \/ Disconnect(m)
    \/ \E a \in Accs : \/ Accept(a) \/ DataRefused(a) \/ AcceptedReadEvent(a)
                       \/ \E x, y \in Tsaps : RequestReceived(a, x, y)

Spec == Init /\ [][Next]_vars

-----------------------------------------------------------------------------
(* Properties. *)

\* The variables have the types the comments at their declaration say.
TypeOK ==
    /\ connState \in [Modules -> {"Instantiated", "Paused", "Running"}]
    /\ server \in BOOLEAN
    /\ pConnISO_map \in [Keys -> Modules \cup {None}]
    /\ members \in [Modules -> SUBSET Accs]
    /\ live \subseteq Accs
    /\ pConnISO \in [Accs -> Modules \cup {None}]
    /\ request \in [Accs -> (Tsaps \X Tsaps) \cup {None}]
    /\ entered \subseteq Modules

\* The vectors of all the modules together hold each acceptance that belongs to
\* one of them, in the vector of that module and in no other, and none that has
\* been deleted: senddata and iso_abbau of no module reach a peer of another
\* one, nor follow a pointer to a freed object.
VectorsMatch ==
    \A m \in Modules : members[m] = {a \in live : pConnISO[a] = m}

\* One step concerns one module: whatever a module or a peer does, the peers of
\* at most one module change, and no peer passes from one module to another.  In
\* particular iso_abbau and nVerbindungsabbau of a module end no connection of
\* another one that shares its server.
ModulesApart ==
    [][ /\ \A m, n \in Modules :
              members'[m] # members[m] /\ members'[n] # members[n] => m = n
        /\ \A a \in Accs :
              pConnISO'[a] \in {None, pConnISO[a]} \/ pConnISO[a] = None ]_vars

\* TSAPs that are compared with each other have one length ("jeweils 5stellige
\* Kennungen", 1144): then two pairs with one key are one pair.
FixedLength ==
    \E n \in Nat : /\ \A x \in Tsaps : Len(x) = n
                   /\ \A m \in Modules : Len(LocalTsap(m)) = n /\ Len(RemoteTsap(m)) = n

\* A peer is joined with a module only if its request named the TSAPs of that
\* module: called its local, calling its remote one.
RightModule ==
    \A a \in live : pConnISO[a] # None =>
        request[a] = <<LocalTsap(pConnISO[a]), RemoteTsap(pConnISO[a])>>

\* No two modules have the same pair of TSAPs, nor pairs that look the same when
\* written one after the other.
DistinctKeys == \A m, n \in Modules : SapKennung(m) = SapKennung(n) => m = n

\* A module that was entered can be found ever after, whatever other modules
\* are entered, stopped, asked for or not found.
Reachable == \A m \in entered : GetConnISO(LocalTsap(m), RemoteTsap(m)) = m
=============================================================================
