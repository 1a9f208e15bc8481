-------------------------- MODULE IsoServer_proofs --------------------------
(* Theorems about IsoServer, for any modules, peers and texts. *)
EXTENDS IsoServer, SequenceTheorems, TLAPS

\* The map leads from a key to a module that has it.
MapRight == \A k \in Keys : pConnISO_map[k] # None => SapKennung(pConnISO_map[k]) = k

\* The TSAPs asked for, put together, are the key of the module that was found,
\* and only objects that exist belong to one.
KeyAsked ==
    \A a \in Accs : pConnISO[a] # None =>
        /\ a \in live
        /\ request[a] # None
        /\ request[a][1] \o request[a][2] = SapKennung(pConnISO[a])

Inv == TypeOK /\ MapRight /\ KeyAsked /\ (DistinctKeys => Reachable)

\* A step that is no request of a peer that belongs to a module already, unless
\* it leads to that module again.
SameAgain ==
    \A a \in Accs, x, y \in Tsaps :
        RequestReceived(a, x, y) /\ pConnISO[a] # None => GetConnISO(x, y) = pConnISO[a]

LEMMA KeyTypes ==
    /\ \A m \in Modules : SapKennung(m) \in Keys
    /\ \A x, y \in Tsaps : x \o y \in Keys
    /\ None \notin Modules
<1>1. \A m \in Modules : SapKennung(m) \in Keys
  BY DEF Keys
<1>2. ASSUME NEW x \in Tsaps, NEW y \in Tsaps PROVE x \o y \in Keys
  BY DEF Keys
<1> QED  BY <1>1, <1>2, ServerAssumption

\* A TSAP of a module is a text: it is one without its leading zeros.
LEMMA TsapTypes ==
    ASSUME NEW m \in Modules
    PROVE  LocalTsap(m) \in Seq(Nat) /\ RemoteTsap(m) \in Seq(Nat)
<1>1. ASSUME NEW p \in Seq(Nat) PROVE ReadPortNumerical(p) \in Seq(Nat)
  <2> DEFINE w == Width - Len(p)
             z == [i \in 1..w |-> 0]
  <2>0. w \in Int
    BY ServerAssumption
  <2> HIDE DEF w
  <2>1. CASE w > 0
    <3>1. z \in [1..w -> Nat] /\ w \in Nat
      BY <2>0, <2>1
    <3>2. z \in Seq(Nat)
      BY <3>1, SeqDef
    <3> HIDE DEF z
    <3>3. z \o p \in Seq(Nat)
      BY <3>2, ConcatProperties
    <3> QED  BY <3>3 DEF ReadPortNumerical, z, w
  <2>2. CASE ~(w > 0)
    <3>0. 1..w = {} /\ 1..0 = {}
      BY <2>0, <2>2
    <3>1. z \in [1..0 -> Nat]
      BY <3>0
    <3>2. z \in Seq(Nat)
      BY <3>1, SeqDef
    <3> HIDE DEF z
    <3>3. z \o p \in Seq(Nat)
      BY <3>2, ConcatProperties
    <3> QED  BY <3>3 DEF ReadPortNumerical, z, w
  <2> QED  BY <2>0, <2>1, <2>2
<1>2. LocalPort[m] \in Seq(Nat) /\ RemotePort[m] \in Seq(Nat)
  BY ServerAssumption
<1> QED  BY <1>1, <1>2 DEF LocalTsap, RemoteTsap

\* Of texts of one length, two pairs with the same concatenation are the same.
LEMMA SameConcat ==
    ASSUME NEW n \in Nat,
           NEW x \in Seq(Nat), NEW y \in Seq(Nat), NEW u \in Seq(Nat), NEW v \in Seq(Nat),
           Len(x) = n, Len(y) = n, Len(u) = n, Len(v) = n, x \o y = u \o v
    PROVE  x = u /\ y = v
<1>1. /\ \A i \in 1..(Len(x) + Len(y)) :
           (x \o y)[i] = IF i <= Len(x) THEN x[i] ELSE y[i - Len(x)]
      /\ \A i \in 1..(Len(u) + Len(v)) :
           (u \o v)[i] = IF i <= Len(u) THEN u[i] ELSE v[i - Len(u)]
  BY ConcatProperties
<1>2. ASSUME NEW i \in 1..n PROVE x[i] = u[i]
  <2>1. i \in 1..(n + n) /\ i <= n
    OBVIOUS
  <2> QED  BY <1>1, <2>1
<1>3. ASSUME NEW i \in 1..n PROVE y[i] = v[i]
  <2>1. n + i \in 1..(n + n) /\ ~(n + i <= n) /\ (n + i) - n = i
    OBVIOUS
  <2> QED  BY <1>1, <2>1
<1>4. x = u
  BY <1>2, SeqEqual
<1>5. y = v
  BY <1>3, SeqEqual
<1> QED  BY <1>4, <1>5

-----------------------------------------------------------------------------
(* The pieces of the handlers. *)

\* Deleting acceptances, however many and whosever they are.
LEMMA DestroyOK ==
    ASSUME Inv, NEW dead \in SUBSET Accs, Destroy(dead),
           UNCHANGED <<server, pConnISO_map, entered>>,
           connState' \in [Modules -> {"Instantiated", "Paused", "Running"}]
    PROVE  Inv'
<1>1. TypeOK'
  BY DEF Inv, TypeOK, Destroy
<1>2. MapRight' /\ (DistinctKeys => Reachable')
  BY DEF Inv, MapRight, Reachable, GetConnISO
<1>3. KeyAsked'
  BY DEF Inv, TypeOK, KeyAsked, Destroy
<1> QED  BY <1>1, <1>2, <1>3 DEF Inv

LEMMA DestroyVectors ==
    ASSUME TypeOK, VectorsMatch, NEW dead \in SUBSET Accs, Destroy(dead)
    PROVE  VectorsMatch'
<1>1. ASSUME NEW m \in Modules
      PROVE  members'[m] = {a \in live' : pConnISO'[a] = m}
  <2>1. members'[m] = members[m] \ {a \in dead : pConnISO[a] = m}
    BY DEF Destroy
  <2>2. \A a \in Accs : pConnISO'[a] = IF a \in dead THEN None ELSE pConnISO[a]
    BY DEF Destroy
  <2>3. live' = live \ dead /\ live \subseteq Accs /\ m # None
    BY KeyTypes DEF TypeOK, Destroy
  <2> QED  BY <2>1, <2>2, <2>3 DEF VectorsMatch
<1> QED  BY <1>1 DEF VectorsMatch

\* Entering a module keeps the map right, and everybody else's entry.
LEMMA SetConnOK ==
    ASSUME Inv, NEW m \in Modules, SetConnISO(m)
    PROVE  /\ pConnISO_map' \in [Keys -> Modules \cup {None}]
           /\ MapRight'
           /\ DistinctKeys =>
                \A n \in entered \cup {m} : pConnISO_map'[SapKennung(n)] = n
<1>1. SapKennung(m) \in Keys
  BY KeyTypes
<1>2. pConnISO_map' = [pConnISO_map EXCEPT ![SapKennung(m)] = m]
  BY DEF SetConnISO
<1>3. pConnISO_map' \in [Keys -> Modules \cup {None}]
  BY <1>1, <1>2 DEF Inv, TypeOK
<1>4. MapRight'
  BY <1>1, <1>2 DEF Inv, TypeOK, MapRight
<1>5. ASSUME DistinctKeys, NEW n \in entered \cup {m}
      PROVE  pConnISO_map'[SapKennung(n)] = n
  <2>1. CASE n = m
    BY <1>1, <1>2, <2>1 DEF Inv, TypeOK
  <2>2. CASE n # m
    <3>1. n \in entered /\ n \in Modules /\ SapKennung(n) \in Keys
      BY <1>5, <2>2, KeyTypes DEF Inv, TypeOK
    <3>2. SapKennung(n) # SapKennung(m)
      BY <1>5, <2>2, <3>1 DEF DistinctKeys
    <3>3. pConnISO_map[SapKennung(n)] = n
      BY <1>5, <3>1 DEF Inv, Reachable, GetConnISO, SapKennung
    <3> QED  BY <1>1, <1>2, <3>1, <3>2, <3>3 DEF Inv, TypeOK
  <2> QED  BY <2>1, <2>2
<1> QED  BY <1>3, <1>4, <1>5

-----------------------------------------------------------------------------
(* The invariant. *)

LEMMA ServerInit == Init => Inv
<1> SUFFICES ASSUME Init PROVE Inv
  OBVIOUS
<1>1. TypeOK
  BY DEF Init, TypeOK
<1>2. MapRight /\ KeyAsked /\ Reachable
  BY DEF Init, MapRight, KeyAsked, Reachable
<1> QED  BY <1>1, <1>2 DEF Inv

LEMMA RunDataStep ==
    ASSUME Inv, NEW m \in Modules, RunData(m)
    PROVE  Inv'
<1>1. connState' \in [Modules -> {"Instantiated", "Paused", "Running"}]
      /\ UNCHANGED <<members, live, pConnISO, request>> /\ server' \in BOOLEAN
  BY DEF RunData, SetRunning, Inv, TypeOK
<1>2. KeyAsked'
  BY <1>1 DEF Inv, KeyAsked
<1>3. CASE UNCHANGED <<pConnISO_map, entered>>
  BY <1>1, <1>2, <1>3 DEF Inv, TypeOK, MapRight, Reachable, GetConnISO
<1>4. CASE SetConnISO(m) /\ entered' = entered \cup {m}
  <2>1. /\ pConnISO_map' \in [Keys -> Modules \cup {None}]
        /\ MapRight' /\ (DistinctKeys => Reachable')
    BY <1>4, SetConnOK DEF Reachable, GetConnISO, SapKennung
  <2> QED  BY <1>1, <1>2, <1>4, <2>1 DEF Inv, TypeOK
<1> QED  BY <1>3, <1>4 DEF RunData

LEMMA RequestStep ==
    ASSUME Inv, NEW a \in Accs, NEW x \in Tsaps, NEW y \in Tsaps,
           RequestReceived(a, x, y)
    PROVE  Inv'
<1> DEFINE m == GetConnISO(x, y)
           r == IF a \in live' THEN <<x, y>> ELSE None
<1>1. /\ a \in live
      /\ IF m # None THEN Join(a, m) ELSE Refuse(a)
      /\ request' = [request EXCEPT ![a] = r]
      /\ UNCHANGED <<connState, server, entered>>
  BY DEF RequestReceived
<1>2. m \in Modules \cup {None} /\ (m # None => SapKennung(m) = x \o y)
  BY KeyTypes DEF Inv, TypeOK, MapRight, GetConnISO
<1>3. request' \in [Accs -> (Tsaps \X Tsaps) \cup {None}]
  BY <1>1 DEF Inv, TypeOK
<1>4. \A b \in Accs \ {a} : request'[b] = request[b]
  BY <1>1 DEF Inv, TypeOK
<1>5. a \in live' => request'[a] = <<x, y>>
  BY <1>1 DEF Inv, TypeOK
<1> HIDE DEF m, r
<1>6. CASE m # None
  <2>1. SetConnISO(m) /\ m \in Modules /\ SapKennung(m) = x \o y
    BY <1>1, <1>2, <1>6 DEF Join
  <2>2. /\ pConnISO_map' \in [Keys -> Modules \cup {None}]
        /\ MapRight' /\ (DistinctKeys => Reachable')
    BY <1>1, <2>1, SetConnOK DEF Reachable, GetConnISO, SapKennung
  <2>3. /\ members' \in [Modules -> SUBSET Accs] /\ live' \subseteq Accs
        /\ pConnISO' \in [Accs -> Modules \cup {None}]
    BY <1>1, <1>6, <2>1 DEF Join, Inv, TypeOK
  <2>4. TypeOK'
    BY <1>1, <1>3, <2>2, <2>3 DEF Inv, TypeOK
  <2>5. /\ \A b \in Accs \ {a} : pConnISO'[b] = pConnISO[b] /\ (b \in live' <=> b \in live)
        /\ pConnISO'[a] # None => pConnISO'[a] = m /\ a \in live'
    BY <1>1, <1>6, <2>1 DEF Join, Inv, TypeOK
  <2>6. KeyAsked'
    <3> SUFFICES ASSUME NEW b \in Accs, pConnISO'[b] # None
                 PROVE  /\ b \in live' /\ request'[b] # None
                        /\ request'[b][1] \o request'[b][2] = SapKennung(pConnISO'[b])
      BY DEF KeyAsked
    <3>1. CASE b = a
      <4>1. a \in live' /\ pConnISO'[a] = m /\ request'[a] = <<x, y>>
        BY <1>5, <2>5, <3>1
      <4>2. <<x, y>> # None
        BY ServerAssumption
      <4> QED  BY <2>1, <3>1, <4>1, <4>2
    <3>2. CASE b # a
      BY <1>4, <2>5, <3>2 DEF Inv, KeyAsked
    <3> QED  BY <3>1, <3>2
  <2> QED  BY <1>1, <2>2, <2>4, <2>6 DEF Inv
<1>7. CASE m = None
  <2>1. /\ pConnISO' = [pConnISO EXCEPT ![a] = None]
        /\ UNCHANGED <<members, live, pConnISO_map>>
    BY <1>1, <1>7 DEF Refuse
  <2>2. TypeOK'
    BY <1>1, <1>3, <2>1 DEF Inv, TypeOK
  <2>3. MapRight' /\ (DistinctKeys => Reachable')
    BY <1>1, <2>1 DEF Inv, MapRight, Reachable, GetConnISO
  <2>4. KeyAsked'
    BY <1>4, <2>1 DEF Inv, TypeOK, KeyAsked
  <2> QED  BY <2>2, <2>3, <2>4 DEF Inv
<1> QED  BY <1>6, <1>7

LEMMA ServerStep == Inv /\ [Next]_vars => Inv'
<1> SUFFICES ASSUME Inv, [Next]_vars PROVE Inv'
  OBVIOUS
<1>1. ASSUME NEW m \in Modules, StopData(m) \/ Disconnect(m)
      PROVE  Inv'
  <2>1. PICK dead \in Visited(m) : Destroy(dead)
    BY <1>1 DEF StopData, Disconnect, IsoAbbau
  <2>2. dead \in SUBSET Accs
    BY DEF Visited, Inv, TypeOK
  <2>3. /\ UNCHANGED <<server, pConnISO_map, entered>>
        /\ connState' \in [Modules -> {"Instantiated", "Paused", "Running"}]
    BY <1>1 DEF StopData, Disconnect, modVars, Inv, TypeOK
  <2> QED  BY <2>1, <2>2, <2>3, DestroyOK
<1>2. ASSUME NEW a \in Accs, DataRefused(a) \/ AcceptedReadEvent(a)
      PROVE  Inv'
  <2>1. /\ Destroy({a}) /\ {a} \in SUBSET Accs
        /\ UNCHANGED <<server, pConnISO_map, entered>>
        /\ connState' \in [Modules -> {"Instantiated", "Paused", "Running"}]
    BY <1>2 DEF DataRefused, AcceptedReadEvent, modVars, Inv, TypeOK
  <2> QED  BY <2>1, DestroyOK
<1>3. ASSUME NEW a \in Accs, Accept(a)
      PROVE  Inv'
  <2>1. a \notin live /\ live' = live \cup {a}
        /\ UNCHANGED <<connState, server, pConnISO_map, entered, members, pConnISO, request>>
    BY <1>3 DEF Accept, modVars
  <2>2. TypeOK' /\ MapRight' /\ (DistinctKeys => Reachable')
    BY <2>1 DEF Inv, TypeOK, MapRight, Reachable, GetConnISO
  <2>3. KeyAsked'
    BY <2>1 DEF Inv, KeyAsked
  <2> QED  BY <2>2, <2>3 DEF Inv
<1>4. CASE UNCHANGED vars
  BY <1>4 DEF vars, Inv, TypeOK, MapRight, KeyAsked, Reachable, GetConnISO
<1> QED  BY <1>1, <1>2, <1>3, <1>4, RunDataStep, RequestStep DEF Next

LEMMA ServerInvariant == Spec => []Inv
BY ServerInit, ServerStep, PTL DEF Spec

-----------------------------------------------------------------------------
(* The vectors. *)

\* A request, of a peer that belongs to no module or to the one it asks for.
LEMMA RequestVectors ==
    ASSUME Inv, VectorsMatch, SameAgain,
           NEW a \in Accs, NEW x \in Tsaps, NEW y \in Tsaps, RequestReceived(a, x, y)
    PROVE  VectorsMatch'
<1> DEFINE m == GetConnISO(x, y)
<1>1. /\ a \in live
      /\ pConnISO[a] # None => m = pConnISO[a]
      /\ IF m # None THEN Join(a, m) ELSE Refuse(a)
      /\ m \in Modules \cup {None}
  BY KeyTypes DEF RequestReceived, SameAgain, Inv, TypeOK, GetConnISO
<1> HIDE DEF m
<1>2. \A n \in Modules : n # m => a \notin members[n]
  BY <1>1, KeyTypes DEF VectorsMatch
<1>3. CASE m # None /\ a \in live'
  <2>1. /\ members' = [members EXCEPT ![m] = members[m] \cup {a}]
        /\ pConnISO' = [pConnISO EXCEPT ![a] = m] /\ live' = live
    BY <1>1, <1>3 DEF Join
  <2> QED  BY <1>1, <1>2, <1>3, <2>1 DEF Inv, TypeOK, VectorsMatch
<1>4. CASE m # None /\ a \notin live'
  <2>1. /\ members' = [members EXCEPT ![m] = members[m] \ {a}]
        /\ pConnISO' = [pConnISO EXCEPT ![a] = None] /\ live' = live \ {a}
    BY <1>1, <1>4 DEF Join
  <2> QED  BY <1>1, <1>2, <1>4, <2>1, KeyTypes DEF Inv, TypeOK, VectorsMatch
<1>5. CASE m = None
  <2>1. pConnISO' = pConnISO /\ UNCHANGED <<members, live>>
    BY <1>1, <1>5 DEF Refuse, Inv, TypeOK
  <2> QED  BY <2>1 DEF VectorsMatch
<1> QED  BY <1>3, <1>4, <1>5

LEMMA VectorsStep ==
    ASSUME Inv, VectorsMatch, SameAgain, [Next]_vars
    PROVE  VectorsMatch'
<1>0. TypeOK
  BY DEF Inv
<1>1. ASSUME UNCHANGED <<members, live, pConnISO>>
      PROVE  VectorsMatch'
  BY <1>1 DEF VectorsMatch
<1>2. ASSUME NEW m \in Modules, RunData(m)
      PROVE  VectorsMatch'
  BY <1>1, <1>2 DEF RunData
<1>3. ASSUME NEW m \in Modules, StopData(m) \/ Disconnect(m)
      PROVE  VectorsMatch'
  <2>1. PICK dead \in Visited(m) : Destroy(dead)
    BY <1>3 DEF StopData, Disconnect, IsoAbbau
  <2>2. dead \in SUBSET Accs
    BY <1>0 DEF Visited, TypeOK
  <2> QED  BY <1>0, <2>1, <2>2, DestroyVectors
<1>4. ASSUME NEW a \in Accs, DataRefused(a) \/ AcceptedReadEvent(a)
      PROVE  VectorsMatch'
  <2>1. Destroy({a}) /\ {a} \in SUBSET Accs
    BY <1>4 DEF DataRefused, AcceptedReadEvent
  <2> QED  BY <1>0, <2>1, DestroyVectors
<1>5. ASSUME NEW a \in Accs, Accept(a)
      PROVE  VectorsMatch'
  <2>1. a \notin live /\ live' = live \cup {a} /\ UNCHANGED <<members, pConnISO>>
    BY <1>5 DEF Accept
  <2>2. pConnISO[a] = None
    BY <2>1 DEF Inv, KeyAsked
  <2> QED  BY <2>1, <2>2, KeyTypes DEF VectorsMatch
<1>6. CASE UNCHANGED vars
  BY <1>1, <1>6 DEF vars
<1> QED  BY <1>2, <1>3, <1>4, <1>5, <1>6, RequestVectors DEF Next

-----------------------------------------------------------------------------
(* What one step may do to the vectors. *)

\* The modules whose peers a step changes are all m; no peer changes its module.
OnlyOf(m) ==
    /\ \A n \in Modules \ {m} : members'[n] = members[n]
    /\ \A a \in Accs : pConnISO'[a] \in {None, pConnISO[a]} \/ pConnISO[a] = None

Apart ==
    /\ \A m, n \in Modules :
          members'[m] # members[m] /\ members'[n] # members[n] => m = n
    /\ \A a \in Accs :
          pConnISO'[a] \in {None, pConnISO[a]} \/ pConnISO[a] = None

\* Deleting acceptances that all belong to one module, or to none.
LEMMA DestroyOfOne ==
    ASSUME TypeOK, VectorsMatch, NEW m \in Modules \cup {None}, NEW dead \in SUBSET Accs,
           Destroy(dead), \A a \in dead : pConnISO[a] \in {m, None}
    PROVE  OnlyOf(m)
<1>1. /\ members' = [n \in Modules |-> members[n] \ {a \in dead : pConnISO[a] = n}]
      /\ \A a \in Accs : pConnISO'[a] = IF a \in dead THEN None ELSE pConnISO[a]
  BY DEF Destroy
<1>2. ASSUME NEW n \in Modules \ {m}
      PROVE  members'[n] = members[n]
  <2>1. n # None
    BY KeyTypes
  <2>2. \A a \in dead : pConnISO[a] # n
    BY <1>2, <2>1
  <2> QED  BY <1>1, <2>2
<1> QED  BY <1>1, <1>2 DEF OnlyOf

LEMMA OnlyOfOne ==
    ASSUME NEW m, OnlyOf(m)
    PROVE  Apart
BY DEF OnlyOf, Apart

LEMMA ApartStep ==
    ASSUME Inv, VectorsMatch, SameAgain, [Next]_vars
    PROVE  Apart
<1>0. TypeOK
  BY DEF Inv
<1>1. ASSUME UNCHANGED <<members, pConnISO>>
      PROVE  Apart
  BY <1>1 DEF Apart
<1>2. ASSUME NEW m \in Modules, RunData(m)
      PROVE  Apart
  BY <1>1, <1>2 DEF RunData
\* The loop of iso_abbau reaches members of the module only.
<1>3. ASSUME NEW m \in Modules, StopData(m) \/ Disconnect(m)
      PROVE  Apart
  <2>1. PICK dead \in Visited(m) : Destroy(dead)
    BY <1>3 DEF StopData, Disconnect, IsoAbbau
  <2>2. dead \in SUBSET members[m]
    BY DEF Visited
  <2>3. \A a \in dead : pConnISO[a] = m
    BY <2>2 DEF VectorsMatch
  <2>4. dead \in SUBSET Accs
    BY <1>0, <2>2 DEF TypeOK
  <2>5. OnlyOf(m)
    BY <1>0, <2>1, <2>3, <2>4, DestroyOfOne
  <2> QED  BY <2>5, OnlyOfOne
<1>4. ASSUME NEW a \in Accs, Accept(a)
      PROVE  Apart
  BY <1>1, <1>4 DEF Accept
<1>5. ASSUME NEW a \in Accs, DataRefused(a) \/ AcceptedReadEvent(a)
      PROVE  Apart
  <2>1. Destroy({a}) /\ {a} \in SUBSET Accs
    BY <1>5 DEF DataRefused, AcceptedReadEvent
  <2>2. pConnISO[a] \in Modules \cup {None} /\ \A b \in {a} : pConnISO[b] \in {pConnISO[a], None}
    BY <1>0 DEF TypeOK
  <2>3. OnlyOf(pConnISO[a])
    BY <1>0, <2>1, <2>2, DestroyOfOne
  <2> QED  BY <2>3, OnlyOfOne
\* A peer that asks belongs to no module yet, or to the one it finds.
<1>6. ASSUME NEW a \in Accs, NEW x \in Tsaps, NEW y \in Tsaps, RequestReceived(a, x, y)
      PROVE  Apart
  <2> DEFINE m == GetConnISO(x, y)
  <2>1. /\ pConnISO[a] # None => m = pConnISO[a]
        /\ IF m # None THEN Join(a, m) ELSE Refuse(a)
    BY <1>6 DEF RequestReceived, SameAgain
  <2>2. m \in Modules \cup {None}
    BY <1>0, KeyTypes DEF TypeOK, GetConnISO
  <2> HIDE DEF m
  <2>3. \A b \in Accs \ {a} : pConnISO'[b] = pConnISO[b]
    BY <1>0, <2>1 DEF Join, Refuse, TypeOK
  <2>4. pConnISO'[a] \in {m, None}
    BY <1>0, <2>1 DEF Join, Refuse, TypeOK
  <2>5. \A n \in Modules \ {m} : members'[n] = members[n]
    BY <1>0, <2>1 DEF Join, Refuse, TypeOK
  <2>6. \A b \in Accs : pConnISO'[b] \in {None, pConnISO[b]} \/ pConnISO[b] = None
    BY <2>1, <2>3, <2>4
  <2>7. OnlyOf(m)
    BY <2>5, <2>6 DEF OnlyOf
  <2> QED  BY <2>7, OnlyOfOne
<1>7. CASE UNCHANGED vars
  BY <1>1, <1>7 DEF vars
<1> QED  BY <1>2, <1>3, <1>4, <1>5, <1>6, <1>7 DEF Next

-----------------------------------------------------------------------------
(* The theorems. *)

\* Every variable keeps its type, for any number of modules and peers.
THEOREM ServerTypes == Spec => []TypeOK
<1>1. Inv => TypeOK
  BY DEF Inv
<1> QED  BY <1>1, ServerInvariant, PTL

\* Whoever asks again asks for the module it belongs to.
AsksTheSame == [][SameAgain]_vars

LEMMA AlwaysMatch == Spec /\ AsksTheSame => []VectorsMatch
<1>1. Init => VectorsMatch
  BY DEF Init, VectorsMatch
<1>2. Inv /\ VectorsMatch /\ [Next]_vars /\ [SameAgain]_vars => VectorsMatch'
  <2> SUFFICES ASSUME Inv, VectorsMatch, [Next]_vars, [SameAgain]_vars
               PROVE  VectorsMatch'
    OBVIOUS
  <2>1. CASE SameAgain
    BY <2>1, VectorsStep
  <2>2. CASE UNCHANGED vars
    BY <2>2 DEF vars, VectorsMatch
  <2> QED  BY <2>1, <2>2
<1> QED  BY <1>1, <1>2, ServerInvariant, PTL DEF Spec, AsksTheSame

\* A peer may repeat its request: as long as it leads to the module the peer
\* belongs to, every acceptance is in the vector of that module, in no other,
\* and in none after it has been deleted.
THEOREM VectorsKeptIfSame == Spec /\ AsksTheSame => []VectorsMatch
BY AlwaysMatch

\* Nor does then a step end the connections of two modules, or a peer pass from
\* one module to another.
THEOREM KeptApartIfSame == Spec /\ AsksTheSame => ModulesApart
<1>1. Inv /\ VectorsMatch /\ [Next]_vars /\ [SameAgain]_vars => [Apart]_vars
  BY ApartStep
<1>2. Spec /\ AsksTheSame => [][Apart]_vars
  BY <1>1, AlwaysMatch, ServerInvariant, PTL DEF Spec, AsksTheSame
<1> QED  BY <1>2 DEF ModulesApart, Apart

LEMMA AsksOnce == ~Repeats /\ Spec => AsksTheSame
<1>1. CASE Repeats
  BY <1>1
<1>2. CASE ~Repeats
  <2>1. [SameAgain]_vars
    BY <1>2 DEF SameAgain, RequestReceived
  <2> QED  BY <2>1, PTL DEF AsksTheSame
<1> QED  BY <1>1, <1>2

\* If a peer that belongs to a module sends no further request, every acceptance
\* is in the vector of the module it belongs to, in no other, and in none after
\* it has been deleted.
THEOREM VectorsKept == ~Repeats /\ Spec => []VectorsMatch
BY AsksOnce, VectorsKeptIfSame

\* Nor does then a step end the connections of two modules, or a peer pass from
\* one module to another.
THEOREM ModulesKeptApart == ~Repeats /\ Spec => ModulesApart
BY AsksOnce, KeptApartIfSame

\* If TSAPs have one length, a peer is joined with the module it asked for, even
\* if it asks again.
THEOREM JoinedAsAsked == FixedLength /\ Spec => []RightModule
<1>1. FixedLength /\ Inv => RightModule
  <2> SUFFICES ASSUME FixedLength, Inv, NEW a \in live, pConnISO[a] # None
               PROVE  request[a] = <<LocalTsap(pConnISO[a]), RemoteTsap(pConnISO[a])>>
    BY DEF RightModule
  <2> DEFINE m == pConnISO[a]
  <2>1. m \in Modules /\ request[a] \in Tsaps \X Tsaps
        /\ request[a][1] \o request[a][2] = SapKennung(m)
    BY DEF Inv, TypeOK, KeyAsked
  <2>2. PICK n \in Nat : /\ \A x \in Tsaps : Len(x) = n
                         /\ \A k \in Modules : Len(LocalTsap(k)) = n /\ Len(RemoteTsap(k)) = n
    BY DEF FixedLength
  <2>3. /\ request[a][1] \in Tsaps /\ request[a][2] \in Tsaps
        /\ request[a] = <<request[a][1], request[a][2]>>
    BY <2>1
  <2>4. /\ request[a][1] \in Seq(Nat) /\ request[a][2] \in Seq(Nat)
        /\ LocalTsap(m) \in Seq(Nat) /\ RemoteTsap(m) \in Seq(Nat)
    BY <2>1, <2>3, TsapTypes, ServerAssumption
  <2>5. request[a][1] \o request[a][2] = LocalTsap(m) \o RemoteTsap(m)
    BY <2>1 DEF SapKennung
  <2>6. Len(request[a][1]) = n /\ Len(request[a][2]) = n
        /\ Len(LocalTsap(m)) = n /\ Len(RemoteTsap(m)) = n
    BY <2>1, <2>2, <2>3
  <2> HIDE DEF m
  <2> DEFINE x == request[a][1]
             y == request[a][2]
             u == LocalTsap(m)
             v == RemoteTsap(m)
  <2> HIDE DEF x, y, u, v
  <2>7. /\ x \in Seq(Nat) /\ y \in Seq(Nat) /\ u \in Seq(Nat) /\ v \in Seq(Nat)
        /\ Len(x) = n /\ Len(y) = n /\ Len(u) = n /\ Len(v) = n /\ x \o y = u \o v
    BY <2>4, <2>5, <2>6 DEF x, y, u, v
  <2>8. x = u /\ y = v
    BY <2>2, <2>7, SameConcat
  <2>9. request[a][1] = LocalTsap(m) /\ request[a][2] = RemoteTsap(m)
    BY <2>8 DEF x, y, u, v
  <2> QED  BY <2>3, <2>9 DEF m
<1>2. CASE ~FixedLength
  BY <1>2
<1>3. CASE FixedLength
  <2>1. Inv => RightModule
    BY <1>1, <1>3
  <2> QED  BY <2>1, ServerInvariant, PTL
<1> QED  BY <1>2, <1>3

\* If no two modules have the same key, a module that was entered stays in the
\* map, under its own TSAPs.
THEOREM EnteredForGood == DistinctKeys /\ Spec => []Reachable
<1>1. DistinctKeys /\ Inv => Reachable
  BY DEF Inv
<1>2. CASE ~DistinctKeys
  BY <1>2
<1>3. CASE DistinctKeys
  <2>1. Inv => Reachable
    BY <1>1, <1>3
  <2> QED  BY <2>1, ServerInvariant, PTL
<1> QED  BY <1>2, <1>3
=============================================================================
