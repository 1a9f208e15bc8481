------------------------ MODULE Availability_proofs ------------------------
(* Theorems about Availability, for every set of modules. *)
EXTENDS Availability, SequenceTheorems, WellFoundedInduction, TLAPS

Reports0 == [word : Words, nr : Nat]

ReportTypes ==
    /\ running \subseteq Modules
    /\ lastModState \in [Modules -> Words \cup {"none"}]
    /\ wire \in [Modules -> Seq(Reports0)]
    /\ shown \in [Modules -> [word : Words \cup {"none"}, nr : Nat]]
    /\ said \in [Modules -> Seq(Words)]

\* The reports w under way on a module and the one that has been received, v,
\* tell of states it was in, s being all of them and l the one remembered, and
\* from the received one to the last under way none tells of an earlier state
\* than the one before it.
Seen(r, s) == r.nr \in 1..Len(s) /\ r.word = s[r.nr]
Faithful(w, v, s, l) ==
    /\ v = Unknown \/ Seen(v, s)
    /\ \A i \in 1..Len(w) : Seen(w[i], s) /\ v.nr <= w[i].nr
    /\ \A i, j \in 1..Len(w) : i <= j => w[i].nr <= w[j].nr
    /\ l = IF s = <<>> THEN "none" ELSE s[Len(s)]

AllFaithful == \A m \in Modules : Faithful(wire[m], shown[m], said[m], lastModState[m])

Inv == ReportTypes /\ AllFaithful /\ ReportedWhileOpen

-----------------------------------------------------------------------------
(* One module at a time. *)

\* One more state (set) leaves the reports as true as they were.
LEMMA FaithfulSet ==
    ASSUME NEW w \in Seq(Reports0), NEW v \in [word : Words \cup {"none"}, nr : Nat],
           NEW s \in Seq(Words), NEW l, NEW word \in Words,
           Faithful(w, v, s, l)
    PROVE  Faithful(w, v, Append(s, word), word)
<1> DEFINE t == Append(s, word)
<1>1. /\ Len(t) = Len(s) + 1 /\ t # <<>> /\ t[Len(t)] = word
      /\ \A i \in 1..Len(s) : t[i] = s[i]
  OBVIOUS
<1>2. ASSUME NEW r, Seen(r, s)
      PROVE  Seen(r, t)
  BY <1>1, <1>2 DEF Seen
<1> QED  BY <1>1, <1>2 DEF Faithful

\* A report of the remembered state may be added.
LEMMA FaithfulSend ==
    ASSUME NEW w \in Seq(Reports0), NEW v \in [word : Words \cup {"none"}, nr : Nat],
           NEW s \in Seq(Words), NEW l \in Words,
           Faithful(w, v, s, l)
    PROVE  /\ Faithful(Append(w, [word |-> l, nr |-> Len(s)]), v, s, l)
           /\ Append(w, [word |-> l, nr |-> Len(s)]) \in Seq(Reports0)
<1> DEFINE r == [word |-> l, nr |-> Len(s)]
           x == Append(w, r)
<1>1. s # <<>> /\ l = s[Len(s)] /\ Len(s) \in Nat \ {0}
  BY DEF Faithful, Words
<1>2. r \in Reports0 /\ Seen(r, s) /\ r.nr = Len(s)
  BY <1>1 DEF Reports0, Seen
<1>3. x \in Seq(Reports0) /\ Len(x) = Len(w) + 1 /\ x[Len(x)] = r
      /\ \A i \in 1..Len(w) : x[i] = w[i]
  BY <1>2
<1>4. v.nr <= Len(s) /\ \A i \in 1..Len(w) : w[i].nr <= Len(s)
  BY DEF Faithful, Seen, Unknown, Reports!Unknown
<1>5. \A i \in 1..Len(x) : Seen(x[i], s) /\ v.nr <= x[i].nr
  BY <1>2, <1>3, <1>4 DEF Faithful
<1>6. \A i, j \in 1..Len(x) : i <= j => x[i].nr <= x[j].nr
  <2> SUFFICES ASSUME NEW i \in 1..Len(x), NEW j \in 1..Len(x), i <= j
               PROVE  x[i].nr <= x[j].nr
    OBVIOUS
  <2>1. CASE j \in 1..Len(w)
    BY <2>1, <1>3 DEF Faithful
  <2>2. CASE j = Len(x) /\ i \in 1..Len(w)
    BY <2>2, <1>2, <1>3, <1>4
  <2>3. CASE j = Len(x) /\ i = Len(x)
    BY <2>3, <1>2, <1>3
  <2> QED  BY <2>1, <2>2, <2>3, <1>3
<1> QED  BY <1>3, <1>5, <1>6 DEF Faithful

\* The oldest report may be received.
LEMMA FaithfulDeliver ==
    ASSUME NEW w \in Seq(Reports0), NEW v \in [word : Words \cup {"none"}, nr : Nat],
           NEW s \in Seq(Words), NEW l,
           Faithful(w, v, s, l), w # <<>>
    PROVE  /\ Faithful(Tail(w), Head(w), s, l)
           /\ Tail(w) \in Seq(Reports0) /\ Head(w) \in Reports0
           /\ Seen(Head(w), s) /\ v.nr <= Head(w).nr
<1>1. /\ Tail(w) \in Seq(Reports0) /\ Head(w) = w[1] /\ Head(w) \in Reports0
      /\ Len(Tail(w)) = Len(w) - 1 /\ 1 \in 1..Len(w)
      /\ \A i \in 1..Len(Tail(w)) : Tail(w)[i] = w[i + 1] /\ i + 1 \in 1..Len(w)
  OBVIOUS
<1>2. Seen(w[1], s) /\ v.nr <= w[1].nr
  BY <1>1 DEF Faithful
<1>3. \A i \in 1..Len(Tail(w)) : Seen(Tail(w)[i], s) /\ w[1].nr <= Tail(w)[i].nr
  BY <1>1 DEF Faithful
<1>4. \A i, j \in 1..Len(Tail(w)) : i <= j => Tail(w)[i].nr <= Tail(w)[j].nr
  BY <1>1 DEF Faithful
<1> QED  BY <1>1, <1>2, <1>3, <1>4 DEF Faithful

\* The youngest report may be lost.
LEMMA FaithfulLose ==
    ASSUME NEW w \in Seq(Reports0), NEW v, NEW s, NEW l,
           Faithful(w, v, s, l), w # <<>>
    PROVE  Faithful(Front(w), v, s, l) /\ Front(w) \in Seq(Reports0)
<1> DEFINE n == Len(w) - 1
<1>1. n \in Nat /\ \A i \in 1..n : i \in 1..Len(w) /\ w[i] \in Reports0
  OBVIOUS
<1>2. Front(w) = SubSeq(w, 1, n)
  BY DEF Front
<1> HIDE DEF n
<1>3. /\ SubSeq(w, 1, n) \in Seq(Reports0)
      /\ Len(SubSeq(w, 1, n)) = IF 1 <= n THEN n - 1 + 1 ELSE 0
      /\ \A i \in 1..n - 1 + 1 : SubSeq(w, 1, n)[i] = w[1 + i - 1]
  BY <1>1, SubSeqProperties, SMTT(30)
<1>4. Len(Front(w)) = n /\ \A i \in 1..n : Front(w)[i] = w[i]
  BY <1>1, <1>2, <1>3
<1> QED  BY <1>1, <1>2, <1>3, <1>4 DEF Faithful

-----------------------------------------------------------------------------
(* The steps. *)

\* The report that is sent last is the one of the remembered state.
LEMMA LatestSent ==
    ASSUME NEW w \in Seq(Reports0), NEW r
    PROVE  Append(w, r) # <<>> /\ Last(Append(w, r)) = r
BY DEF Last

\* Receiving the oldest report leaves the last one what it was.
LEMMA TailLast ==
    ASSUME NEW w \in Seq(Reports0), w # <<>>
    PROVE  Last(w) = IF Tail(w) = <<>> THEN Head(w) ELSE Last(Tail(w))
<1> DEFINE t == Tail(w)
<1>1. /\ t \in Seq(Reports0) /\ Len(w) \in Nat \ {0} /\ Len(t) = Len(w) - 1
      /\ Head(w) = w[1] /\ \A i \in 1..Len(t) : t[i] = w[i + 1]
  BY HeadTailProperties
<1>2. t = <<>> <=> Len(t) = 0
  BY <1>1, EmptySeq
<1> HIDE DEF t
<1>3. CASE Len(w) = 1
  <2>1. t = <<>>
    BY <1>1, <1>2, <1>3
  <2>2. Last(w) = w[1]
    BY <1>3 DEF Last
  <2> QED  BY <1>1, <2>1, <2>2 DEF t
<1>4. CASE Len(w) # 1
  <2>1. t # <<>> /\ Len(t) \in 1..Len(t)
    BY <1>1, <1>2, <1>4
  <2>2. t[Len(t)] = w[Len(w)]
    BY <1>1, <2>1
  <2> QED  BY <2>1, <2>2 DEF Last, t
<1> QED  BY <1>3, <1>4

\* cMESSAGE::set and sendMsg after a start, a run or a stop of module m.
LEMMA ChangeReported ==
    ASSUME Inv, NEW m \in Modules, NEW word \in Words,
           running' \subseteq Modules,
           m = Command \/ (Command \in running' <=> Command \in running),
           SetAndSend(m, word, running'), UNCHANGED shown
    PROVE  Inv'
<1>1. CASE m \in Reporting
  <2>1. /\ lastModState' = [lastModState EXCEPT ![m] = word]
        /\ said' = [said EXCEPT ![m] = Append(@, word)]
        /\ wire' = [n \in Modules |->
                      IF Command \in running' /\ lastModState'[n] # "none"
                      THEN Append(wire[n], Report(n)) ELSE wire[n]]
    BY <1>1 DEF SetAndSend, Set, SendMsg
  <2>2. lastModState' \in [Modules -> Words \cup {"none"}] /\ said' \in [Modules -> Seq(Words)]
    BY <2>1 DEF Inv, ReportTypes
  <2>3. ASSUME NEW n \in Modules
        PROVE  Faithful(wire[n], shown[n], said'[n], lastModState'[n])
    <3>1. CASE n = m
      <4>1. said'[n] = Append(said[n], word) /\ lastModState'[n] = word
        BY <2>1, <3>1 DEF Inv, ReportTypes
      <4> QED  BY <4>1, FaithfulSet DEF Inv, ReportTypes, AllFaithful
    <3>2. CASE n # m
      <4>1. said'[n] = said[n] /\ lastModState'[n] = lastModState[n]
        BY <2>1, <3>2 DEF Inv, ReportTypes
      <4> QED  BY <4>1 DEF Inv, AllFaithful
    <3> QED  BY <3>1, <3>2
  <2>4. ASSUME NEW n \in Modules
        PROVE  /\ Faithful(wire'[n], shown'[n], said'[n], lastModState'[n])
               /\ wire'[n] \in Seq(Reports0)
    <3>0. wire[n] \in Seq(Reports0) /\ said'[n] \in Seq(Words) /\ shown'[n] = shown[n]
          /\ shown[n] \in [word : Words \cup {"none"}, nr : Nat]
          /\ lastModState'[n] \in Words \cup {"none"}
      BY <2>2 DEF Inv, ReportTypes
    <3>1. CASE Command \in running' /\ lastModState'[n] # "none"
      <4>1. wire'[n] = Append(wire[n], [word |-> lastModState'[n], nr |-> Len(said'[n])])
        BY <2>1, <3>1 DEF Report
      <4> QED  BY <3>0, <3>1, <4>1, <2>3, FaithfulSend
    <3>2. CASE ~(Command \in running' /\ lastModState'[n] # "none")
      <4>1. wire'[n] = wire[n]
        BY <2>1, <3>2
      <4> QED  BY <3>0, <4>1, <2>3
    <3> QED  BY <3>1, <3>2
  <2>5. ReportTypes'
    BY <2>1, <2>2, <2>4 DEF Inv, ReportTypes
  <2>6. ReportedWhileOpen'
    <3> SUFFICES ASSUME Command \in running', NEW n \in Modules
                 PROVE  Latest(n)' = [word |-> lastModState'[n], nr |-> Len(said'[n])]
      BY DEF ReportedWhileOpen
    <3>0. wire[n] \in Seq(Reports0)
      BY DEF Inv, ReportTypes
    <3>1. CASE lastModState'[n] # "none"
      <4>1. wire'[n] = Append(wire[n], [word |-> lastModState'[n], nr |-> Len(said'[n])])
        BY <2>1, <3>1 DEF Report
      <4> QED  BY <3>0, <4>1, LatestSent DEF Latest
    <3>2. CASE lastModState'[n] = "none"
      <4>0. wire'[n] = wire[n]
        BY <2>1, <3>2
      <4>1. said'[n] = <<>>
        <5> SUFFICES ASSUME said'[n] # <<>> PROVE FALSE
          OBVIOUS
        <5>1. said'[n] \in Seq(Words)
          BY <2>2
        <5>2. said'[n][Len(said'[n])] \in Words
          BY <5>1
        <5>3. lastModState'[n] = said'[n][Len(said'[n])]
          BY <2>3 DEF Faithful
        <5> QED  BY <3>2, <5>2, <5>3 DEF Words
      <4>2. wire'[n] = <<>> /\ shown'[n] = Unknown
        BY <3>0, <4>0, <4>1, <2>4 DEF Faithful, Seen
      <4> QED  BY <3>2, <4>1, <4>2 DEF Latest, Unknown, Reports!Unknown
    <3> QED  BY <3>1, <3>2
  <2> QED  BY <2>4, <2>5, <2>6 DEF Inv, AllFaithful
<1>2. CASE m \notin Reporting
  <2>1. UNCHANGED <<lastModState, said, wire, shown>> /\ m # Command
    BY <1>2, AvailabilityAssumption DEF SetAndSend
  <2> QED  BY <2>1 DEF Inv, ReportTypes, AllFaithful, ReportedWhileOpen, Latest
<1> QED  BY <1>1, <1>2

\* What the partner has received of each module, and the reports under way,
\* tell of states it was in, in order; while the command module runs, the last
\* of them tells of the present state.
THEOREM MadeGood == Spec => []Inv
<1>1. Init => Inv
  BY DEF Init, Inv, ReportTypes, AllFaithful, Faithful, ReportedWhileOpen, Latest,
         Unknown, Reports!Unknown, Words
<1>2. Inv /\ [Next]_vars => Inv'
  <2> SUFFICES ASSUME Inv, [Next]_vars PROVE Inv'
    OBVIOUS
  <2> USE DEF Inv
  <2>1. ASSUME NEW m \in Modules, Start(m)
        PROVE  Inv'
    <3>1. running' = running \/ running' = running \cup {m}
      BY <2>1 DEF Start, Started
    <3>2. m = Command \/ (Command \in running' <=> Command \in running)
      BY <3>1
    <3>3. SetAndSend(m, "on", running') /\ UNCHANGED shown /\ running' \subseteq Modules
      BY <2>1, <3>1 DEF Start, ReportTypes
    <3> QED  BY <3>2, <3>3, ChangeReported DEF Words
  <2>2. ASSUME NEW m \in Modules, Stop(m)
        PROVE  Inv'
    <3>1. running' = running \ {m}
      BY <2>2 DEF Stop
    <3>2. m = Command \/ (Command \in running' <=> Command \in running)
      BY <3>1
    <3>3. SetAndSend(m, "off", running') /\ UNCHANGED shown /\ running' \subseteq Modules
      BY <2>2, <3>1 DEF Stop, ReportTypes
    <3> QED  BY <3>2, <3>3, ChangeReported DEF Words
  <2>3. ASSUME NEW m \in Modules, PipeChanges(m)
        PROVE  Inv'
    <3>1. Command \in running' <=> Command \in running
      BY <2>3, AvailabilityAssumption DEF PipeChanges
    <3>2. running' \subseteq Modules /\ UNCHANGED <<lastModState, wire, shown, said>>
      BY <2>3 DEF PipeChanges, reporting, ReportTypes
    <3> QED  BY <3>1, <3>2 DEF ReportTypes, AllFaithful, ReportedWhileOpen, Latest
  <2>4. ASSUME NEW m \in Modules, Deliver(m)
        PROVE  Inv'
    <3>1. /\ Faithful(Tail(wire[m]), Head(wire[m]), said[m], lastModState[m])
          /\ Tail(wire[m]) \in Seq(Reports0) /\ Head(wire[m]) \in Reports0
          /\ wire[m] # <<>> /\ wire[m] \in Seq(Reports0)
      BY <2>4, FaithfulDeliver DEF Deliver, ReportTypes, AllFaithful
    <3>2. /\ shown' = [shown EXCEPT ![m] = Head(wire[m])]
          /\ wire' = [wire EXCEPT ![m] = Tail(wire[m])]
          /\ UNCHANGED <<running, lastModState, said>>
      BY <2>4 DEF Deliver
    <3>3. Head(wire[m]) \in [word : Words \cup {"none"}, nr : Nat]
      BY <3>1 DEF Reports0
    <3>4. ReportTypes' /\ AllFaithful'
      BY <3>1, <3>2, <3>3 DEF ReportTypes, AllFaithful
    <3>5. ASSUME NEW n \in Modules
          PROVE  Latest(n)' = Latest(n)
      <4>1. CASE n = m
        <5>1. wire'[n] = Tail(wire[n]) /\ shown'[n] = Head(wire[n])
          BY <3>2, <4>1 DEF ReportTypes
        <5> QED  BY <3>1, <4>1, <5>1, TailLast DEF Latest
      <4>2. CASE n # m
        BY <3>2, <4>2 DEF Latest, ReportTypes
      <4> QED  BY <4>1, <4>2
    <3> QED  BY <3>2, <3>4, <3>5 DEF ReportedWhileOpen
  <2>5. ASSUME NEW m \in Modules, Lose(m)
        PROVE  Inv'
    <3>1. /\ Faithful(Front(wire[m]), shown[m], said[m], lastModState[m])
          /\ Front(wire[m]) \in Seq(Reports0)
      BY <2>5, FaithfulLose DEF Lose, ReportTypes, AllFaithful
    <3>2. /\ wire' = [wire EXCEPT ![m] = Front(wire[m])]
          /\ UNCHANGED <<running, lastModState, said, shown>> /\ Command \notin running'
      BY <2>5 DEF Lose
    <3> QED  BY <3>1, <3>2 DEF ReportTypes, AllFaithful, ReportedWhileOpen
  <2>6. ASSUME NEW m \in Modules, NEW lines \in Telegrams, Receive(m, lines)
        PROVE  Inv'
    BY <2>6 DEF Receive, reporting, ReportTypes, AllFaithful, ReportedWhileOpen, Latest
  <2>7. CASE UNCHANGED vars
    BY <2>7 DEF vars, ReportTypes, AllFaithful, ReportedWhileOpen, Latest
  <2> QED  BY <2>1, <2>2, <2>3, <2>4, <2>5, <2>6, <2>7 DEF Next
<1> QED  BY <1>1, <1>2, PTL DEF Spec

\* While the command module runs, the partner knows the present state of every
\* module or a report of it is under way: what changed while the command module
\* was stopped, and what was lost when it was, has been sent again.
THEOREM AlwaysReported == Spec => []ReportedWhileOpen
<1>1. Inv => ReportedWhileOpen
  BY DEF Inv
<1> QED  BY <1>1, MadeGood, PTL

\* For every number of modules and calls the reports implement a register per
\* module that is read with delay.
THEOREM ReportsImplemented == Spec => ReportsInOrder
<1>1. Init => Reports!ReportsInit
  BY DEF Init, Reports!ReportsInit, Unknown
<1>2. Inv /\ [Next]_vars => [Reports!ReportsNext]_<<said, shown>>
  <2> SUFFICES ASSUME Inv, [Next]_vars,
                      ~ UNCHANGED <<said, shown>>
               PROVE  Reports!ReportsNext
    OBVIOUS
  <2>1. ASSUME NEW m \in Modules, NEW word \in Words, NEW up, SetAndSend(m, word, up),
               UNCHANGED shown
        PROVE  Reports!ReportsNext
    <3>1. said' = [said EXCEPT ![m] = Append(@, word)]
      BY <2>1 DEF SetAndSend, Set
    <3>2. Reports!Write(m)
      BY <2>1, <3>1 DEF Reports!Write
    <3> QED  BY <3>2 DEF Reports!ReportsNext
  <2>2. ASSUME NEW m \in Modules, Start(m) \/ Stop(m)
        PROVE  Reports!ReportsNext
    BY <2>1, <2>2 DEF Start, Stop, Words
  <2>3. ASSUME NEW m \in Modules, Deliver(m)
        PROVE  Reports!ReportsNext
    <3> DEFINE r == Head(wire[m])
    <3>1. r \in Reports0 /\ Seen(r, said[m]) /\ shown[m].nr <= r.nr
      BY <2>3, FaithfulDeliver DEF Deliver, Inv, ReportTypes, AllFaithful
    <3>2. shown' = [shown EXCEPT ![m] = r] /\ said' = said
      BY <2>3 DEF Deliver
    <3>3. r = [word |-> said[m][r.nr], nr |-> r.nr]
      BY <3>1 DEF Reports0, Seen
    <3>4. r.nr # shown[m].nr
      <4> SUFFICES ASSUME r.nr = shown[m].nr PROVE FALSE
        OBVIOUS
      <4>1. shown[m] \in [word : Words \cup {"none"}, nr : Nat] /\ r.nr >= 1
        BY <3>1 DEF Inv, ReportTypes, Seen, Reports0
      <4>2. Seen(shown[m], said[m])
        BY <4>1 DEF Inv, AllFaithful, Faithful, Unknown, Reports!Unknown
      <4>3. shown[m] = r
        BY <3>3, <4>1, <4>2 DEF Seen
      <4> QED  BY <3>2, <4>3 DEF Inv, ReportTypes
    <3>5. shown[m].nr \in Nat /\ r.nr \in (shown[m].nr + 1)..Len(said[m])
      BY <3>1, <3>4 DEF Inv, ReportTypes, Seen, Reports0
    <3>6. Reports!Read(m)
      BY <3>2, <3>3, <3>5 DEF Reports!Read
    <3> QED  BY <3>6 DEF Reports!ReportsNext
  <2>4. ASSUME NEW m \in Modules, \/ PipeChanges(m) \/ Lose(m)
                                  \/ \E lines \in Telegrams : Receive(m, lines)
        PROVE  FALSE
    BY <2>4 DEF PipeChanges, Lose, Receive, reporting
  <2>5. CASE UNCHANGED vars
    BY <2>5 DEF vars
  <2> QED  BY <2>2, <2>3, <2>4, <2>5 DEF Next
<1> QED  BY <1>1, <1>2, MadeGood, PTL DEF Spec, ReportsInOrder, Reports!ReportsSpec

-----------------------------------------------------------------------------
(* Commands: what a telegram of any length does, by induction over its lines. *)

\* The natural numbers are well founded, so induction holds for a set of them.
LEMMA NatWF == IsWellFoundedOn({ss \in Nat \X Nat : ss[1] < ss[2]}, Nat)
BY NatLessThanWellFounded DEF OpToRel

\* (The library's theorem takes a predicate; this one, proved from the least
\* counterexample, takes the set of the numbers that satisfy it.)
LEMMA NatInd ==
    ASSUME NEW S, 0 \in S, \A n \in Nat : n \in S => n + 1 \in S
    PROVE  Nat \subseteq S
<1> DEFINE R == {ss \in Nat \X Nat : ss[1] < ss[2]}
           T == Nat \ S
<1>1. IsWellFoundedOn(R, Nat)
  BY NatWF
<1> HIDE DEF R
<1> SUFFICES ASSUME T # {} PROVE FALSE
  OBVIOUS
<1>2. T \subseteq Nat
  OBVIOUS
<1> HIDE DEF T
<1>3. PICK x \in T : \A y \in T : ~(<<y, x>> \in R)
  BY <1>1, <1>2, WFMin, Zenon
<1>4. x \in Nat /\ x # 0 /\ x \notin S
  BY <1>3 DEF T
<1>5. x - 1 \in Nat /\ x - 1 \notin S
  BY <1>4
<1>6. <<x - 1, x>> \in R
  BY <1>4, <1>5 DEF R
<1> QED  BY <1>3, <1>5, <1>6 DEF T

\* The function by which FoldLeft is defined, over the positions in S.
Iter(g, b, lines, S) ==
    g = [s \in SUBSET S |->
            IF s = {} THEN b ELSE DoCommand(g[s \ {Max(s)}], lines[Max(s)])]

\* recvCmd, by the definition of FoldLeft in the library.
LEMMA FoldDef ==
    ASSUME NEW b, NEW lines
    PROVE  RecvCmd(b, lines) =
              (CHOOSE g : Iter(g, b, lines, DOMAIN lines))[DOMAIN lines]
BY DEF RecvCmd, FoldLeft, MapThenFoldSet, Iter

\* The position FoldLeft takes next.
LEMMA MaxTop ==
    ASSUME NEW k \in Nat, NEW s \in SUBSET (1..k + 1), k + 1 \in s
    PROVE  Max(s) = k + 1
<1>1. \A y \in s : k + 1 >= y
  OBVIOUS
<1>2. \A x \in s : (\A y \in s : x >= y) => x = k + 1
  OBVIOUS
<1> QED  BY <1>1, <1>2 DEF Max

\* The recursion has a solution, so CHOOSE picks one.
LEMMA IterExists ==
    ASSUME NEW b, NEW lines, NEW n \in Nat
    PROVE  \E g : Iter(g, b, lines, 1..n)
<1> DEFINE S == {k \in Nat : \E g : Iter(g, b, lines, 1..k)}
<1>1. 0 \in S
  <2> DEFINE g == [s \in SUBSET (1..0) |-> b]
  <2>0. 1..0 = {} /\ SUBSET {} = {{}}
    OBVIOUS
  <2>1. Iter(g, b, lines, 1..0)
    BY <2>0 DEF Iter
  <2> HIDE DEF g
  <2> QED  BY <2>1
<1>2. ASSUME NEW k \in Nat, k \in S
      PROVE  k + 1 \in S
  <2>1. PICK g : Iter(g, b, lines, 1..k)
    BY <1>2
  <2> DEFINE h == [s \in SUBSET (1..k + 1) |->
                     IF k + 1 \in s THEN DoCommand(g[s \ {k + 1}], lines[k + 1])
                     ELSE g[s]]
  <2>2. ASSUME NEW s \in SUBSET (1..k + 1)
        PROVE  h[s] = IF s = {} THEN b ELSE DoCommand(h[s \ {Max(s)}], lines[Max(s)])
    <3>1. CASE k + 1 \in s
      <4>1. Max(s) = k + 1
        BY <3>1, MaxTop
      <4>2. s \ {k + 1} \in SUBSET (1..k + 1) /\ k + 1 \notin s \ {k + 1}
        OBVIOUS
      <4>3. h[s \ {k + 1}] = g[s \ {k + 1}]
        BY <4>2
      <4>4. h[s] = DoCommand(g[s \ {k + 1}], lines[k + 1])
        BY <3>1
      <4> HIDE DEF h
      <4> QED  BY <3>1, <4>1, <4>3, <4>4
    <3>2. CASE k + 1 \notin s
      <4>1. s \in SUBSET (1..k) 
        BY <3>2
      <4>2. g[s] = IF s = {} THEN b ELSE DoCommand(g[s \ {Max(s)}], lines[Max(s)])
        BY <2>1, <4>1 DEF Iter
      <4>3. h[s] = g[s] /\ h[s \ {Max(s)}] = g[s \ {Max(s)}]
        BY <3>2
      <4> HIDE DEF h
      <4> QED  BY <4>2, <4>3
    <3> QED  BY <3>1, <3>2
  <2>3. Iter(h, b, lines, 1..k + 1)
    BY <2>2, Zenon DEF Iter
  <2> HIDE DEF h
  <2> QED  BY <2>3
<1> HIDE DEF S
<1>3. n \in S
  BY <1>1, <1>2, NatInd
<1> QED  BY <1>3 DEF S

\* What recvCmd leaves is reached line by line.
LEMMA LineByLine ==
    ASSUME NEW b, NEW lines, Len(lines) \in Nat, DOMAIN lines = 1..Len(lines)
    PROVE  \E a : /\ a[0] = b
                  /\ \A i \in 1..Len(lines) : a[i] = DoCommand(a[i - 1], lines[i])
                  /\ RecvCmd(b, lines) = a[Len(lines)]
<1> DEFINE n == Len(lines)
           g == CHOOSE f : Iter(f, b, lines, 1..n)
           a == [i \in 0..n |-> g[1..i]]
<1>1. Iter(g, b, lines, 1..n)
  <2>1. \E f : Iter(f, b, lines, 1..n)
    BY IterExists
  <2> QED  BY <2>1, Zenon
<1>2. RecvCmd(b, lines) = g[1..n]
  BY FoldDef
<1> HIDE DEF g
<1>3. a[0] = b
  BY <1>1 DEF Iter
<1>4. ASSUME NEW i \in 1..n
      PROVE  a[i] = DoCommand(a[i - 1], lines[i])
  <2>1. i - 1 \in Nat /\ 1..i \in SUBSET (1..n) /\ 1..i # {} /\ (1..i) \ {i} = 1..(i - 1)
    OBVIOUS
  <2>2. Max(1..i) = i
    <3>1. (i - 1) + 1 = i /\ i \in 1..i
      OBVIOUS
    <3>2. 1..i \in SUBSET (1..(i - 1) + 1)
      BY <3>1
    <3> QED  BY <2>1, <3>1, <3>2, MaxTop
  <2>3. g[1..i] = DoCommand(g[(1..i) \ {Max(1..i)}], lines[Max(1..i)])
    BY <1>1, <2>1 DEF Iter
  <2>4. g[1..i] = DoCommand(g[1..(i-1)], lines[i])
    BY <2>1, <2>2, <2>3
  <2>5. a[i] = g[1..i] /\ a[i-1] = g[1..(i-1)]
    OBVIOUS
  <2> QED  BY <2>4, <2>5
<1>5. RecvCmd(b, lines) = a[n]
  BY <1>2
<1> HIDE DEF a
<1> QED  BY <1>3, <1>4, <1>5
\* recvCmd blocks and releases modules of this process only.
LEMMA OwnModulesOnly ==
    ASSUME NEW b \in SUBSET Modules, NEW lines \in Seq(Lines)
    PROVE  RecvCmd(b, lines) \subseteq Modules
<1>1. PICK a : /\ a[0] = b
               /\ \A i \in 1..Len(lines) : a[i] = DoCommand(a[i - 1], lines[i])
               /\ RecvCmd(b, lines) = a[Len(lines)]
  BY LineByLine
<1> DEFINE S == {i \in Nat : i <= Len(lines) => a[i] \subseteq Modules}
<1>2. 0 \in S
  BY <1>1
<1>3. ASSUME NEW i \in Nat, i \in S
      PROVE  i + 1 \in S
  <2> SUFFICES ASSUME i + 1 <= Len(lines) PROVE a[i + 1] \subseteq Modules
    OBVIOUS
  <2>1. a[i] \subseteq Modules /\ i + 1 \in 1..Len(lines) /\ (i + 1) - 1 = i
    BY <1>3
  <2>2. a[i + 1] = DoCommand(a[i], lines[i + 1])
    BY <1>1, <2>1
  <2> QED  BY <2>1, <2>2 DEF DoCommand
<1> HIDE DEF S
<1>4. Len(lines) \in S
  BY <1>2, <1>3, NatInd
<1> QED  BY <1>1, <1>4 DEF S

\* The verdict of the first i lines on module n.
LastWord(b, lines, n, i) ==
    LET about == {j \in 1..i : lines[j].module = n}
    IN  IF about = {} THEN n \in b
        ELSE \E j \in about : lines[j].word = "off" /\ \A k \in about : k <= j

\* One more line decides alone if it is about n, and not at all otherwise.
LEMMA OneMoreLine ==
    ASSUME NEW b, NEW c, NEW lines \in Seq(Lines), NEW n \in Modules, NEW i \in Nat,
           i + 1 \in 1..Len(lines),
           n \in c <=> LastWord(b, lines, n, i)
    PROVE  n \in DoCommand(c, lines[i + 1]) <=> LastWord(b, lines, n, i + 1)
<1> DEFINE line == lines[i + 1]
           A == {j \in 1..i : lines[j].module = n}
           B == {j \in 1..i + 1 : lines[j].module = n}
<1>0. 1..i + 1 = (1..i) \cup {i + 1}
  OBVIOUS
<1>1. CASE line.module = n
  <2>1. i + 1 \in B /\ \A k \in B : k <= i + 1
    BY <1>0, <1>1
  <2>2. \A j \in B : (\A k \in B : k <= j) => j = i + 1
    BY <2>1
  <2>3. LastWord(b, lines, n, i + 1) <=> line.word = "off"
    BY <2>1, <2>2 DEF LastWord
  <2>4. n \in DoCommand(c, line) <=> line.word = "off"
    BY <1>1 DEF DoCommand
  <2> QED  BY <2>3, <2>4
<1>2. CASE line.module # n
  <2>1. B = A
    BY <1>0, <1>2
  <2>2. LastWord(b, lines, n, i + 1) <=> LastWord(b, lines, n, i)
    BY <2>1 DEF LastWord
  <2>3. n \in DoCommand(c, line) <=> n \in c
    BY <1>2 DEF DoCommand
  <2> QED  BY <2>2, <2>3
<1> QED  BY <1>1, <1>2

\* Whatever a telegram contains, the last line about a module decides.
LEMMA LastLineDecides ==
    ASSUME NEW b, NEW lines \in Seq(Lines), NEW n \in Modules
    PROVE  n \in RecvCmd(b, lines) <=> LastWord(b, lines, n, Len(lines))
<1>1. PICK a : /\ a[0] = b
               /\ \A i \in 1..Len(lines) : a[i] = DoCommand(a[i - 1], lines[i])
               /\ RecvCmd(b, lines) = a[Len(lines)]
  BY LineByLine
<1> DEFINE S == {i \in Nat : i <= Len(lines) => (n \in a[i] <=> LastWord(b, lines, n, i))}
<1>2. 0 \in S
  <2>1. {j \in 1..0 : lines[j].module = n} = {}
    OBVIOUS
  <2> QED  BY <1>1, <2>1 DEF LastWord
<1>3. ASSUME NEW i \in Nat, i \in S
      PROVE  i + 1 \in S
  <2> SUFFICES ASSUME i + 1 <= Len(lines)
               PROVE  n \in a[i + 1] <=> LastWord(b, lines, n, i + 1)
    OBVIOUS
  <2>1. (n \in a[i] <=> LastWord(b, lines, n, i)) /\ i + 1 \in 1..Len(lines) /\ (i + 1) - 1 = i
    BY <1>3
  <2>2. a[i + 1] = DoCommand(a[i], lines[i + 1])
    BY <1>1, <2>1
  <2> QED  BY <2>1, <2>2, OneMoreLine
<1> HIDE DEF S
<1>4. Len(lines) \in S
  BY <1>2, <1>3, NatInd
<1> QED  BY <1>1, <1>4 DEF S

\* A telegram is a sequence of lines.
LEMMA TelegramLines ==
    ASSUME NEW lines \in Telegrams
    PROVE  lines \in Seq(Lines) /\ DOMAIN lines = 1..Len(lines)
<1>1. PICK k \in 1..MaxLines : lines \in [1..k -> Lines]
  BY DEF Telegrams
<1>2. k \in Nat
  BY AvailabilityAssumption
<1> QED  BY <1>1, <1>2

\* For every telegram and every set of blocked modules: the last line about a
\* module of this process decides whether it is blocked, and without a line
\* about it it stays as it was, whatever else the telegram contains.
THEOREM LastWordDecides == Spec => []LastWordCounts
<1>1. LastWordCounts
  BY TelegramLines, LastLineDecides DEF LastWordCounts, LastWord
<1> QED  BY <1>1, PTL

\* The variables have their types, for every set of modules: the reports under
\* way, and the blocked modules whatever lines a telegram contains.
THEOREM AvailabilityTypes == Spec => []TypeOK
<1> DEFINE Bounded == /\ blocked \subseteq Modules
                      /\ \A m \in Modules : Len(said[m]) <= MaxCalls[m]
<1>1. Init => Bounded
  BY AvailabilityAssumption DEF Init
<1>2. Inv /\ Bounded /\ [Next]_vars => Bounded'
  <2> SUFFICES ASSUME Inv, Bounded, [Next]_vars PROVE Bounded'
    OBVIOUS
  <2>1. ASSUME NEW m \in Modules, NEW word \in Words, NEW up, SetAndSend(m, word, up),
               UNCHANGED blocked
        PROVE  Bounded'
    <3>1. CASE m \in Reporting
      <4>1. said' = [said EXCEPT ![m] = Append(@, word)] /\ Len(said[m]) < MaxCalls[m]
        BY <2>1, <3>1 DEF SetAndSend, Set
      <4>2. ASSUME NEW n \in Modules
            PROVE  Len(said'[n]) <= MaxCalls[n]
        <5>1. said[n] \in Seq(Words) /\ MaxCalls[n] \in Nat /\ Len(said[n]) <= MaxCalls[n]
          BY AvailabilityAssumption DEF Inv, ReportTypes
        <5>2. CASE n = m
          <6>1. said'[n] = Append(said[n], word)
            BY <4>1, <5>2 DEF Inv, ReportTypes
          <6> QED  BY <4>1, <5>1, <5>2, <6>1
        <5>3. CASE n # m
          <6>1. said'[n] = said[n]
            BY <4>1, <5>3 DEF Inv, ReportTypes
          <6> QED  BY <5>1, <6>1
        <5> QED  BY <5>2, <5>3
      <4> QED  BY <2>1, <4>2
    <3>2. CASE m \notin Reporting
      BY <2>1, <3>2 DEF SetAndSend
    <3> QED  BY <3>1, <3>2
  <2>2. ASSUME NEW m \in Modules, Start(m) \/ Stop(m)
        PROVE  Bounded'
    BY <2>1, <2>2 DEF Start, Stop, Words
  <2>3. ASSUME NEW m \in Modules, PipeChanges(m) \/ Deliver(m) \/ Lose(m)
        PROVE  Bounded'
    BY <2>3 DEF PipeChanges, Deliver, Lose, reporting
  <2>4. ASSUME NEW m \in Modules, NEW lines \in Telegrams, Receive(m, lines)
        PROVE  Bounded'
    <3>1. blocked' \subseteq Modules
      BY <2>4, TelegramLines, OwnModulesOnly DEF Receive
    <3> QED  BY <2>4, <3>1 DEF Receive, reporting
  <2>5. CASE UNCHANGED vars
    BY <2>5 DEF vars
  <2> QED  BY <2>2, <2>3, <2>4, <2>5 DEF Next
<1>3. Inv /\ Bounded => TypeOK
  BY DEF Inv, ReportTypes, Reports0, TypeOK
<1> QED  BY <1>1, <1>2, <1>3, MadeGood, PTL DEF Spec
=============================================================================
