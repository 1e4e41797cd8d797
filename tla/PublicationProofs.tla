------------------------- MODULE PublicationProofs -------------------------
(***************************************************************************)
(* Proofs about what a primary cycle leaves on disk, for any number of     *)
(* cycles, runs and faults; and, in the last section, about the service    *)
(* that runs the cycles and the gate before what they publish.             *)
(***************************************************************************)
EXTENDS CyclePublication, ServiceGate, NaturalsInduction, WellFoundedInduction,
        SequenceTheorems, TLAPS

Entry == [cycle : Cycles, by : Payloads]

\* The entries of a history are in the order of their cycles, each cycle once.
Sorted(h) == \A i, j \in 1 .. Len(h) : i < j => h[i].cycle < h[j].cycle

-----------------------------------------------------------------------------
\* Every set of natural numbers has a least element.
LEMMA LeastNumber ==
    ASSUME NEW T, T \subseteq Nat, T # {}
    PROVE  \E n \in T : \A m \in T : n <= m
  <1>1. PICK n \in T : \A m \in T : ~ (<<m, n>> \in OpToRel(<, Nat))
    BY NatLessThanWellFounded, WFMin
  <1>2. ASSUME NEW m \in T, m < n PROVE FALSE
    <2>1. <<m, n>> \in OpToRel(<, Nat)
      BY <1>2 DEF OpToRel
    <2> QED BY <1>1, <2>1
  <1> QED BY <1>2

\* Induction, for a set of numbers.
LEMMA SetInduction ==
    ASSUME NEW S, 0 \in S, \A n \in Nat : n \in S => n + 1 \in S
    PROVE  Nat \subseteq S
  <1> DEFINE T == Nat \ S
  <1> SUFFICES ASSUME T # {} PROVE FALSE
    OBVIOUS
  <1>1. PICK n \in T : \A m \in T : n <= m
    BY LeastNumber
  <1>2. n - 1 \in Nat /\ n - 1 \in S
    BY <1>1
  <1> QED BY <1>2

\* The recursion of ObservedUpTo defines a function.
LEMMA ObservedUpToDef ==
    ObservedUpTo = [t \in 0 .. MaxCycle |->
        IF t = 0 THEN <<>>
        ELSE IF obs[t] = Nothing THEN ObservedUpTo[t - 1]
        ELSE Append(ObservedUpTo[t - 1], [cycle |-> t, by |-> obs[t]])]
  <1> DEFINE Step(g, t) ==
               IF t = 0 THEN <<>>
               ELSE IF obs[t] = Nothing THEN g[t - 1]
               ELSE Append(g[t - 1], [cycle |-> t, by |-> obs[t]])
             Solves(g, n) == g = [t \in 0 .. n |-> Step(g, t)]
             Solvable == {n \in Nat : \E g : Solves(g, n)}
  <1>1. 0 \in Solvable
    <2> DEFINE g == [t \in 0 .. 0 |-> <<>>]
    <2>1. Solves(g, 0)
      OBVIOUS
    <2> QED BY <2>1
  <1>2. ASSUME NEW n \in Nat, n \in Solvable PROVE n + 1 \in Solvable
    <2>1. PICK g : Solves(g, n)
      BY <1>2
    <2>2. \A t \in 0 .. n : g[t] = Step(g, t)
      BY <2>1
    <2>3. PICK h : h = [t \in 0 .. n + 1 |-> IF t <= n THEN g[t] ELSE Step(g, t)]
      OBVIOUS
    <2> HIDE DEF Solves
    <2>4. ASSUME NEW t \in 0 .. n + 1 PROVE h[t] = Step(h, t)
      <3>1. CASE t = 0
        <4>1. 0 \in 0 .. n /\ 0 \in 0 .. n + 1 /\ 0 <= n
          OBVIOUS
        <4>2. h[0] = g[0] /\ g[0] = Step(g, 0)
          BY <2>2, <2>3, <4>1
        <4>3. Step(g, 0) = <<>> /\ Step(h, 0) = <<>>
          OBVIOUS
        <4> QED BY <3>1, <4>2, <4>3
      <3>2. CASE t # 0
        <4>1. t - 1 \in 0 .. n /\ h[t - 1] = g[t - 1]
          BY <2>3, <3>2
        <4>2. h[t] = Step(g, t)
          BY <2>2, <2>3
        <4> QED BY <4>1, <4>2
      <3> QED BY <3>1, <3>2
    <2>5. h = [t \in 0 .. n + 1 |-> h[t]]
      BY <2>3
    <2> HIDE DEF Step
    <2>6. [t \in 0 .. n + 1 |-> h[t]] = [t \in 0 .. n + 1 |-> Step(h, t)]
      BY <2>4
    <2>7. Solves(h, n + 1)
      BY <2>5, <2>6 DEF Solves
    <2> QED BY <2>7
  <1>3. MaxCycle \in Solvable
    <2> HIDE DEF Solvable
    <2> QED BY <1>1, <1>2, SetInduction, PublicationConstants
  <1>4. PICK g : Solves(g, MaxCycle)
    BY <1>3
  <1> QED BY <1>4 DEF ObservedUpTo

\* The recursion, step by step.
LEMMA ObservedUpToStep ==
    /\ ObservedUpTo[0] = <<>>
    /\ \A t \in Cycles :
          ObservedUpTo[t] =
            IF obs[t] = Nothing THEN ObservedUpTo[t - 1]
            ELSE Append(ObservedUpTo[t - 1], [cycle |-> t, by |-> obs[t]])
  <1> DEFINE Step(g, t) ==
               IF t = 0 THEN <<>>
               ELSE IF obs[t] = Nothing THEN g[t - 1]
               ELSE Append(g[t - 1], [cycle |-> t, by |-> obs[t]])
  <1>1. ObservedUpTo = [t \in 0 .. MaxCycle |-> Step(ObservedUpTo, t)]
    BY ObservedUpToDef
  <1> HIDE DEF Step
  <1>2. \A t \in 0 .. MaxCycle : ObservedUpTo[t] = Step(ObservedUpTo, t)
    BY <1>1
  <1>3. 0 \in 0 .. MaxCycle /\ \A t \in Cycles : t \in 0 .. MaxCycle /\ t # 0
    BY PublicationConstants DEF Cycles
  <1> QED BY <1>2, <1>3 DEF Step

\* h holds the observations of the cycles up to t, in order.
Records(h, t) ==
    /\ h \in Seq(Entry)
    /\ \A i \in 1 .. Len(h) :
          h[i].cycle \in 1 .. t /\ obs[h[i].cycle] # Nothing /\ h[i].by = obs[h[i].cycle]
    /\ \A s \in 1 .. t : obs[s] # Nothing =>
          \E i \in 1 .. Len(h) : h[i] = [cycle |-> s, by |-> obs[s]]
    /\ Sorted(h)

\* What the database returns are the observations, oldest first.
LEMMA LegacyHistoryIsTheRecord ==
    ASSUME obs \in [Cycles -> Payloads]
    PROVE  Records(LegacyHistory, MaxCycle)
  <1> DEFINE Known == {t \in Nat : t <= MaxCycle => Records(ObservedUpTo[t], t)}
  <1>1. 0 \in Known
    <2>1. ObservedUpTo[0] = <<>>
      BY ObservedUpToStep
    <2>2. <<>> \in Seq(Entry) /\ Len(<<>>) = 0
      OBVIOUS
    <2>3. Records(<<>>, 0)
      BY <2>2 DEF Records, Sorted
    <2> QED BY <2>1, <2>3
  <1>2. ASSUME NEW n \in Nat, n \in Known PROVE n + 1 \in Known
    <2> SUFFICES ASSUME n + 1 <= MaxCycle PROVE Records(ObservedUpTo[n + 1], n + 1)
      OBVIOUS
    <2> DEFINE h == ObservedUpTo[n]
               k == ObservedUpTo[n + 1]
               e == [cycle |-> n + 1, by |-> obs[n + 1]]
    <2>1. Records(h, n)
      BY <1>2, PublicationConstants
    <2>2. n + 1 \in Cycles /\ (n + 1) - 1 = n /\ e \in Entry
      BY PublicationConstants DEF Cycles, Entry
    <2>3. k = IF obs[n + 1] = Nothing THEN h ELSE Append(h, e)
      BY <2>2, ObservedUpToStep
    <2> HIDE DEF h, k
    <2> SUFFICES Records(k, n + 1)
      BY DEF k
    <2>4. CASE obs[n + 1] = Nothing
      <3>1. k = h
        BY <2>3, <2>4
      <3>2. \A i \in 1 .. Len(h) : h[i].cycle \in 1 .. n + 1
        BY <2>1 DEF Records
      <3>3. ASSUME NEW s \in 1 .. n + 1, obs[s] # Nothing PROVE s \in 1 .. n
        <4>1. s # n + 1
          BY <2>4, <3>3
        <4> HIDE DEF Known, e
        <4> QED BY <4>1, SMT
      <3> QED BY <2>1, <3>1, <3>2, <3>3 DEF Records
    <2>5. CASE obs[n + 1] # Nothing
      <3>1. k = Append(h, e) /\ h \in Seq(Entry)
        BY <2>1, <2>3, <2>5 DEF Records
      <3>2. /\ k \in Seq(Entry) /\ Len(k) = Len(h) + 1 /\ Len(h) \in Nat
            /\ k[Len(h) + 1] = e /\ \A i \in 1 .. Len(h) : k[i] = h[i]
        BY <3>1, <2>2, AppendProperties, LenProperties
      <3>3. \A i \in 1 .. Len(h) : h[i].cycle \in 1 .. n
        BY <2>1 DEF Records
      <3>4. Sorted(k)
        <4> SUFFICES ASSUME NEW i \in 1 .. Len(k), NEW j \in 1 .. Len(k), i < j
                     PROVE  k[i].cycle < k[j].cycle
          BY DEF Sorted
        <4>1. i \in 1 .. Len(h) /\ k[i] = h[i]
          BY <3>2
        <4>2. CASE j \in 1 .. Len(h)
          BY <2>1, <3>2, <4>1, <4>2 DEF Records, Sorted
        <4>3. CASE j = Len(h) + 1
          <5>1. k[j].cycle = n + 1
            BY <3>2, <4>3
          <5> QED BY <3>3, <4>1, <5>1
        <4> QED BY <3>2, <4>2, <4>3
      <3>5. ASSUME NEW i \in 1 .. Len(k)
            PROVE  /\ k[i].cycle \in 1 .. n + 1 /\ obs[k[i].cycle] # Nothing
                   /\ k[i].by = obs[k[i].cycle]
        <4>1. CASE i \in 1 .. Len(h)
          BY <2>1, <3>2, <4>1 DEF Records
        <4>2. CASE i = Len(h) + 1
          BY <2>5, <3>2, <4>2
        <4> QED BY <3>2, <4>1, <4>2
      <3>6. ASSUME NEW s \in 1 .. n + 1, obs[s] # Nothing
            PROVE  \E i \in 1 .. Len(k) : k[i] = [cycle |-> s, by |-> obs[s]]
        <4>1. CASE s = n + 1
          BY <3>2, <4>1
        <4>2. CASE s \in 1 .. n
          <5>1. PICK i \in 1 .. Len(h) : h[i] = [cycle |-> s, by |-> obs[s]]
            BY <2>1, <3>6, <4>2 DEF Records
          <5> QED BY <3>2, <5>1
        <4> HIDE DEF Known, e
        <4>3. s = n + 1 \/ s \in 1 .. n
          OBVIOUS
        <4> QED BY <4>1, <4>2, <4>3
      <3> QED BY <3>2, <3>4, <3>5, <3>6 DEF Records
    <2> QED BY <2>4, <2>5
  <1>3. MaxCycle \in Known
    <2> HIDE DEF Known
    <2> QED BY <1>1, <1>2, SetInduction, PublicationConstants
  <1> QED BY <1>3 DEF LegacyHistory

-----------------------------------------------------------------------------
(***************************************************************************)
(* The inductive invariant.  A history is Behind a database when each of *)
(* its entries is of a cycle the database knows, and not of a later run    *)
(* than the database does; it Holds a run of a cycle when it has an entry  *)
(* of that run or of a later one.  The public history is always behind,    *)
(* and a history that is about to be published holds all that is public    *)
(* and all that is published: that is why it may replace the public one.   *)
(***************************************************************************)
Behind(h, db) ==
    \A i \in 1 .. Len(h) :
       db[h[i].cycle] # Nothing /\ h[i].by.run <= db[h[i].cycle].run

Holds(h, t, r) == \E i \in 1 .. Len(h) : h[i].cycle = t /\ h[i].by.run >= r

\* h holds every run that the history g holds.
Covers(h, g) == \A i \in 1 .. Len(g) : Holds(h, g[i].cycle, g[i].by.run)

Has(h, t, by) == \E i \in 1 .. Len(h) : h[i] = [cycle |-> t, by |-> by]

NonePrepared == \A t \in Cycles : journal[t].state # "prepared"

\* A worker works on a cycle.
Started == pc # "idle" => cycle \in Cycles

\* recover() runs, for a detection or for a publication.
Detecting == pc = "recover" /\ caller = "detection"
Publishing == pc = "recover" /\ caller = "publication"

\* Runs number what they write; the database has no cycle after the current
\* one, unless the primary went back.
Numbered ==
    /\ pc # "idle" => run >= 1
    /\ \A t \in Cycles : /\ obs[t].run <= run
                         /\ obs[t] # Nothing => obs[t].run >= 1
    /\ routes <= run
    /\ late \/ \A t \in Cycles : t > cycle => obs[t] = Nothing

\* The public history is behind the database and, unless the primary went
\* back, in order.
HistoryIsSound == Behind(history, obs) /\ (late \/ Sorted(history))

\* A row with a projection has its observation; a published one is public.
RowsAreSound ==
    \A t \in Cycles :
       /\ row[t] \in {"pending", "published"} => obs[t].stage = "final"
       /\ row[t] = "published" =>
             /\ t \in index /\ snapshot[t].run >= obs[t].run
             /\ Holds(history, t, obs[t].run)
             /\ journal[t].state # "prepared"

\* A prepared journal may still be installed, now or after a crash.
JournalsAreSafe ==
    /\ \A s, t \in Cycles :
          journal[s].state = "prepared" /\ journal[t].state = "prepared" => s = t
    /\ \A t \in Cycles : journal[t].state = "prepared" =>
          /\ routes <= journal[t].run /\ journal[t].run <= run
          /\ Behind(journal[t].history, obs) /\ (late \/ Sorted(journal[t].history))
          /\ Covers(journal[t].history, history)
          /\ \A s \in Cycles : row[s] = "published" =>
                Holds(journal[t].history, s, obs[s].run)

\* What the recovery of a detection has brought about so far.
RecoveryGoesOn ==
    /\ Detecting \/ pc \in {"restore", "reindex", "mark"} =>
          pending = {t \in Cycles : row[t] = "pending"}
    /\ pc \in {"restore", "reindex", "mark"} => NonePrepared
    /\ pc = "reindex" => \A t \in pending :
          snapshot[t] = Projection(t) /\ Has(history, t, obs[t])
    /\ pc = "mark" => \A t \in pending :
          /\ t \in index /\ snapshot[t] = Projection(t)
          /\ Holds(history, t, obs[t].run)

Planned == {"commit projection", "write parts", "write journal", "replace",
            "index", "commit journal", "mark published"}
Committed == Planned \ {"commit projection"}

\* The history a run is going to publish.
PlanIsSafe ==
    /\ pc \in Planned \/ Publishing =>
          /\ \A t \in Cycles : obs[t] # Nothing => Holds(plan, t, obs[t].run)
          /\ Has(plan, cycle, Payload(run, "final"))
          /\ late \/ Sorted(plan)
    /\ pc = "commit projection" => \A i \in 1 .. Len(plan) :
          \/ plan[i].cycle = cycle /\ plan[i].by.run <= run
          \/ /\ obs[plan[i].cycle] # Nothing
             /\ plan[i].by.run <= obs[plan[i].cycle].run
    /\ pc \in Committed \/ Publishing =>
          /\ row[cycle] = "pending" /\ obs[cycle] = Payload(run, "final")
          /\ Behind(plan, obs)

\* How far the publication has come.
PublicationGoesOn ==
    /\ pc \in {"write parts", "write journal", "mark published"} => NonePrepared
    /\ pc \in {"replace", "index", "commit journal"} =>
          /\ journal[cycle].state = "prepared"
          /\ journal[cycle].run = run /\ journal[cycle].history = plan
    /\ pc \in {"write journal", "replace"} =>
          parts[cycle].run = run /\ parts[cycle].history = plan
    /\ pc = "write journal" => parts[cycle].left = ToSet(Targets)
    /\ pc = "replace" =>
          /\ "snapshot" \notin parts[cycle].left =>
                snapshot[cycle] = Payload(run, "final")
          /\ "history" \notin parts[cycle].left => history = plan
    /\ pc \in {"index", "commit journal", "mark published"} =>
          snapshot[cycle] = Payload(run, "final") /\ history = plan
    /\ pc \in {"commit journal", "mark published"} => cycle \in index

PublicationInv ==
    /\ TypeOK /\ Started /\ Numbered /\ HistoryIsSound /\ RowsAreSound /\ JournalsAreSafe
    /\ RecoveryGoesOn /\ PlanIsSafe /\ PublicationGoesOn

-----------------------------------------------------------------------------
(***************************************************************************)
(* Types.                                                                  *)
(***************************************************************************)

\* The three payloads of a publication.
LEMMA TheTargets ==
    /\ ToSet(Targets) = {"snapshot", "history", "routes"}
    /\ DOMAIN Targets = 1 .. 3
    /\ Targets[1] = "snapshot" /\ Targets[2] = "history" /\ Targets[3] = "routes"
  <1>1. DOMAIN Targets = 1 .. 3 /\ Targets[1] = "snapshot"
        /\ Targets[2] = "history" /\ Targets[3] = "routes"
    BY DEF Targets
  <1>2. ToSet(Targets) = {Targets[1], Targets[2], Targets[3]}
    BY <1>1 DEF ToSet
  <1> QED BY <1>1, <1>2

\* The history a run prepares: what is known, the last entry being replaced if
\* it is of this cycle, and then the entry of the run.
LEMMA TheUpdate ==
    ASSUME NEW known \in Seq(Entry), cycle \in Cycles, run \in 0 .. MaxCycleRuns,
           known = IF LegacyHistory # <<>> THEN LegacyHistory ELSE history
    PROVE  \E n \in Nat :
             /\ \/ n = Len(known) /\ (n = 0 \/ known[n].cycle # cycle)
                \/ n + 1 = Len(known) /\ known[n + 1].cycle = cycle
             /\ UpdatedHistory \in Seq(Entry) /\ Len(UpdatedHistory) = n + 1
             /\ UpdatedHistory[n + 1] = [cycle |-> cycle, by |-> Payload(run, "final")]
             /\ \A i \in 1 .. n : UpdatedHistory[i] = known[i]
  <1> DEFINE entry == [cycle |-> cycle, by |-> Payload(run, "final")]
  <1>1. entry \in Entry
    BY DEF Entry, Payload, Payloads, Stages
  <1>2. Len(known) \in Nat /\ \A i \in 1 .. Len(known) : known[i] \in Entry
    BY LenProperties
  <1>3. UpdatedHistory = IF known # <<>> /\ known[Len(known)].cycle = cycle
                         THEN SubSeq(known, 1, Len(known) - 1) \o <<entry>>
                         ELSE Append(known, entry)
    BY DEF UpdatedHistory, Last, Front
  <1> HIDE DEF entry
  <1>4. CASE known # <<>> /\ known[Len(known)].cycle = cycle
    <2> DEFINE front == SubSeq(known, 1, Len(known) - 1)
    <2>1. Len(known) # 0
      BY <1>4, EmptySeq
    <2>2. \A i \in 1 .. Len(known) - 1 : known[i] \in Entry
      BY <1>2
    <2>3. /\ front \in Seq(Entry) /\ Len(front) = Len(known) - 1
          /\ \A i \in 1 .. Len(known) - 1 : front[i] = known[i]
      BY <1>2, <2>1, <2>2, SubSeqProperties
    <2>4. <<entry>> \in Seq(Entry) /\ Len(<<entry>>) = 1 /\ <<entry>>[1] = entry
      BY <1>1
    <2> HIDE DEF front
    <2>5. /\ front \o <<entry>> \in Seq(Entry)
          /\ Len(front \o <<entry>>) = Len(known)
          /\ \A i \in 1 .. Len(known) : (front \o <<entry>>)[i] =
                IF i <= Len(front) THEN front[i] ELSE <<entry>>[i - Len(front)]
      BY <2>3, <2>4, ConcatProperties, <1>2
    <2>6. UpdatedHistory = front \o <<entry>>
      BY <1>3, <1>4 DEF front
    <2>7. Len(known) - 1 \in Nat
      BY <1>2, <2>1
    <2>8. UpdatedHistory[Len(known)] = entry
      BY <2>3, <2>4, <2>5, <2>6, <2>7
    <2>9. \A i \in 1 .. Len(known) - 1 : UpdatedHistory[i] = known[i]
      BY <2>3, <2>5, <2>6, <2>7
    <2> DEFINE n == Len(known) - 1
    <2>10. n \in Nat /\ n + 1 = Len(known)
      BY <2>7
    <2> QED BY <1>4, <2>5, <2>6, <2>8, <2>9, <2>10 DEF entry
  <1>5. CASE ~ (known # <<>> /\ known[Len(known)].cycle = cycle)
    <2>1. UpdatedHistory = Append(known, entry)
      BY <1>3, <1>5, Zenon
    <2>2. Len(known) = 0 \/ known[Len(known)].cycle # cycle
      BY <1>5, EmptySeq
    <2>3. /\ UpdatedHistory \in Seq(Entry) /\ Len(UpdatedHistory) = Len(known) + 1
          /\ UpdatedHistory[Len(known) + 1] = entry
          /\ \A i \in 1 .. Len(known) : UpdatedHistory[i] = known[i]
      BY <1>1, <2>1, AppendProperties
    <2> DEFINE n == Len(known)
    <2>4. n \in Nat /\ (n = 0 \/ known[n].cycle # cycle)
      BY <1>2, <2>2
    <2> QED BY <2>3, <2>4 DEF entry
  <1> QED BY <1>4, <1>5

\* Every variable has its type at first.
LEMMA InitType == PublicationInit => TypeOK
  <1> SUFFICES ASSUME PublicationInit PROVE TypeOK
    OBVIOUS
  <1> USE PublicationConstants
  <1>1. <<>> \in Histories /\ Nothing \in Payloads
    BY DEF Histories, Payloads, Stages, Nothing
  <1>2. NoJournal \in [state : {"absent", "prepared", "committed"},
                       run : 0 .. MaxCycleRuns, history : Histories]
    BY <1>1 DEF NoJournal
  <1>3. NoParts \in [run : 0 .. MaxCycleRuns, history : Histories,
                     left : SUBSET ToSet(Targets)]
    BY <1>1, TheTargets DEF NoParts
  <1>4. 0 \in 0 .. MaxCycle /\ 0 \in 0 .. MaxCycleRuns /\ 0 \in 0 .. MaxFaults
    OBVIOUS
  <1>5. /\ obs \in [Cycles -> Payloads] /\ snapshot \in [Cycles -> Payloads]
        /\ row \in [Cycles -> {"absent", "none", "pending", "published"}]
    BY <1>1 DEF PublicationInit
  <1>6. journal \in [Cycles -> [state : {"absent", "prepared", "committed"},
                                run : 0 .. MaxCycleRuns, history : Histories]]
    BY <1>2, Zenon DEF PublicationInit
  <1>7. parts \in [Cycles -> [run : 0 .. MaxCycleRuns, history : Histories,
                              left : SUBSET ToSet(Targets)]]
    BY <1>3, Zenon DEF PublicationInit
  <1> QED BY <1>1, <1>4, <1>5, <1>6, <1>7 DEF PublicationInit, TypeOK, Labels

\* A fault counts.
LEMMA OneMoreFault ==
    ASSUME TypeOK, faults < MaxFaults, faults' = faults + 1
    PROVE  faults' \in 0 .. MaxFaults
  BY PublicationConstants DEF TypeOK

\* A history the database returns is of the type of histories.
LEMMA LegacyType == TypeOK => LegacyHistory \in Histories
  BY LegacyHistoryIsTheRecord DEF TypeOK, Records, Histories, Entry

\* Every step of one cycle's journal or row keeps the types.
LEMMA CycleStepType ==
    ASSUME TypeOK, Started, NEW t \in Cycles, CycleStep(t) PROVE TypeOK' /\ Started'
  <1> USE PublicationConstants
          DEF TypeOK, Started, Goto, workerVars, databaseVars, publicVars, journalVars, primaryVars
  <1>1. CASE BeginRun(t)
    <2>0. run \in 0 .. MaxCycleRuns /\ run < MaxCycleRuns /\ run' = run + 1 /\ cycle' = t
      BY <1>1 DEF BeginRun
    <2>1. run' \in 0 .. MaxCycleRuns /\ t \in 0 .. MaxCycle
      <3> HIDE DEF TypeOK
      <3> QED BY <2>0 DEF Cycles
    <2>2. settled' \in 0 .. MaxCycle /\ late' \in BOOLEAN
      BY <1>1 DEF BeginRun
    <2> QED BY <1>1, <2>0, <2>1, <2>2 DEF BeginRun, Labels
  <1>2. CASE JournalRecovered(t)
    BY <1>2 DEF JournalRecovered
  <1>3. CASE QuarantineJournal(t)
    <2>1. NoJournal \in [state : {"absent", "prepared", "committed"},
                         run : 0 .. MaxCycleRuns, history : Histories]
      BY DEF NoJournal, Histories
    <2> QED BY <1>3, <2>1 DEF QuarantineJournal
  <1>4. CASE QuarantineOnError(t)
    <2>1. NoJournal \in [state : {"absent", "prepared", "committed"},
                         run : 0 .. MaxCycleRuns, history : Histories]
      BY DEF NoJournal, Histories
    <2> QED BY <1>4, <2>1, OneMoreFault DEF QuarantineOnError
  <1>5. CASE RestoreSnapshot(t)
    BY <1>5 DEF RestoreSnapshot, Projection, Payload, Payloads, Stages
  <1>6. CASE MarkPending(t)
    BY <1>6 DEF MarkPending
  <1>7. CASE RecoverTarget(t)
    <2>1. PICK target \in ToSet(Targets) :
            Install(target, t, parts[t]) /\ parts' = [parts EXCEPT ![t].left = @ \ {target}]
      BY <1>7 DEF RecoverTarget
    <2>2. /\ snapshot' \in [Cycles -> Payloads] /\ history' \in Histories
          /\ routes' \in 0 .. MaxCycleRuns /\ index' \subseteq Cycles
      BY <2>1 DEF Install, Payload, Payloads, Stages
    <2>3. parts' \in [Cycles -> [run : 0 .. MaxCycleRuns, history : Histories,
                                left : SUBSET ToSet(Targets)]]
      BY <2>1
    <2> QED BY <1>7, <2>2, <2>3 DEF RecoverTarget
  <1> QED BY <1>1, <1>2, <1>3, <1>4, <1>5, <1>6, <1>7 DEF CycleStep

\* Every step keeps the types.
LEMMA NextType ==
    TypeOK /\ Started /\ [PublicationNext]_publicationVars => TypeOK' /\ Started'
  <1> SUFFICES ASSUME TypeOK, Started, [PublicationNext]_publicationVars
               PROVE  TypeOK' /\ Started'
    OBVIOUS
  <1> USE PublicationConstants
          DEF Started, Goto, workerVars, databaseVars, publicVars, journalVars, primaryVars
  <1>1. CASE \E t \in Cycles : CycleStep(t)
    BY <1>1, CycleStepType
  <1>2. CASE ReadPending
    BY <1>2 DEF TypeOK, Labels, ReadPending
  <1>3. CASE JournalsRecovered
    BY <1>3 DEF TypeOK, Labels, JournalsRecovered
  <1>4. CASE ProjectionsRecovered
    BY <1>4 DEF TypeOK, Labels, ProjectionsRecovered
  <1>5. CASE InitializeIndexes
    BY <1>5 DEF TypeOK, Labels, InitializeIndexes, IndexProjection
  <1>6. CASE AllMarked
    BY <1>6 DEF TypeOK, Labels, AllMarked
  <1>7. CASE RecoveryFails
    <2>1. faults' \in 0 .. MaxFaults
      BY <1>7, OneMoreFault DEF RecoveryFails
    <2>2. pc # "idle"
      BY <1>7 DEF RecoveryFails, Recovering
    <2> QED BY <1>7, <2>1, <2>2 DEF TypeOK, Labels, RecoveryFails
  <1>8. CASE SaveDetection
    BY <1>8 DEF TypeOK, Labels, SaveDetection, Payload, Payloads, Stages
  <1>9. CASE CommitInputs
    BY <1>9 DEF TypeOK, Labels, CommitInputs, CommitCycle, Payload, Payloads, Stages
  <1>10. CASE InputsNotCommitted
    BY <1>10, OneMoreFault DEF TypeOK, Labels, InputsNotCommitted
  <1>11. CASE CommitProjection
    BY <1>11 DEF TypeOK, Labels, CommitProjection, CommitCycle, Payload, Payloads, Stages
  <1>12. CASE WriteParts
    BY <1>12 DEF TypeOK, Labels, WriteParts
  <1>13. CASE WriteJournal
    BY <1>13 DEF TypeOK, Labels, WriteJournal
  <1>14. CASE PublishIndexes
    BY <1>14 DEF TypeOK, Labels, PublishIndexes, IndexProjection
  <1>15. CASE CommitJournal
    BY <1>15 DEF TypeOK, Labels, CommitJournal
  <1>16. CASE MarkPublished
    BY <1>16 DEF TypeOK, Labels, MarkPublished
  <1>17. CASE RecordOutcome
    BY <1>17 DEF TypeOK, Labels, RecordOutcome
  <1>18. CASE RunFails
    BY <1>18, OneMoreFault DEF TypeOK, Labels, RunFails
  <1>19. CASE KillCycle
    BY <1>19, OneMoreFault DEF TypeOK, Labels, KillCycle
  <1>20. CASE RestoreHistory
    BY <1>20, LegacyType DEF TypeOK, RestoreHistory
  <1>21. CASE PrepareHistory
    <2>1. UpdatedHistory \in Histories
      <3> DEFINE known == IF LegacyHistory # <<>> THEN LegacyHistory ELSE history
      <3>1. known \in Seq(Entry)
        BY LegacyType DEF TypeOK, Histories, Entry
      <3>2. cycle \in Cycles /\ run \in 0 .. MaxCycleRuns
        BY <1>21 DEF TypeOK, PrepareHistory
      <3> QED BY <3>1, <3>2, TheUpdate DEF Histories, Entry
    <2> QED BY <1>21, <2>1 DEF TypeOK, Labels, PrepareHistory
  <1>22. CASE ReplaceTarget
    <2>1. PICK i \in DOMAIN Targets :
            /\ Install(Targets[i], cycle, parts[cycle])
            /\ parts' = [parts EXCEPT ![cycle].left = @ \ {Targets[i]}]
      BY <1>22 DEF ReplaceTarget
    <2>2. cycle \in Cycles
      BY <1>22 DEF ReplaceTarget
    <2>3. /\ snapshot' \in [Cycles -> Payloads] /\ history' \in Histories
          /\ routes' \in 0 .. MaxCycleRuns /\ index' \subseteq Cycles
      BY <2>1, <2>2 DEF TypeOK, Install, Payload, Payloads, Stages
    <2>4. parts' \in [Cycles -> [run : 0 .. MaxCycleRuns, history : Histories,
                                left : SUBSET ToSet(Targets)]]
      BY <2>1, <2>2 DEF TypeOK
    <2> QED BY <1>22, <2>2, <2>3, <2>4 DEF TypeOK, Labels, ReplaceTarget
  <1>23. CASE UNCHANGED publicationVars
    BY <1>23 DEF TypeOK, publicationVars
  <1> QED BY <1>1, <1>2, <1>3, <1>4, <1>5, <1>6, <1>7, <1>8, <1>9, <1>10, <1>11, <1>12, <1>13, <1>14, <1>15, <1>16, <1>17, <1>18, <1>19, <1>20, <1>21, <1>22, <1>23 DEF PublicationNext

-----------------------------------------------------------------------------
(***************************************************************************)
(* Histories.                                                              *)
(***************************************************************************)

\* What an entry consists of.
LEMMA EntryTyped ==
    ASSUME NEW h \in Seq(Entry), NEW i \in 1 .. Len(h)
    PROVE  h[i].cycle \in Cycles /\ h[i].by.run \in Nat
  <1>1. h[i] \in Entry
    BY LenProperties
  <1>2. h[i].cycle \in Cycles /\ h[i].by \in Payloads
    BY <1>1 DEF Entry
  <1> QED BY <1>2, PublicationConstants DEF Payloads

\* A run that is held is held for every earlier run.
LEMMA HoldsEarlier ==
    ASSUME NEW h \in Seq(Entry), NEW t, NEW r \in Nat, NEW q \in Nat, q <= r, Holds(h, t, r)
    PROVE  Holds(h, t, q)
  <1>1. PICK i \in 1 .. Len(h) : h[i].cycle = t /\ h[i].by.run >= r
    BY DEF Holds
  <1>2. h[i].by.run \in Nat
    BY EntryTyped
  <1>3. h[i].by.run >= q
    BY <1>1, <1>2
  <1> QED BY <1>1, <1>3 DEF Holds

\* A history holds the run of each of its entries.
LEMMA HasHolds ==
    ASSUME NEW h \in Seq(Entry), NEW t, NEW by, Has(h, t, by)
    PROVE  Holds(h, t, by.run)
  <1>1. PICK i \in 1 .. Len(h) : h[i] = [cycle |-> t, by |-> by]
    BY DEF Has
  <1>2. h[i].by.run \in Nat
    BY EntryTyped
  <1>3. h[i].cycle = t /\ h[i].by = by
    BY <1>1
  <1>4. h[i].by.run >= by.run
    BY <1>2, <1>3
  <1> QED BY <1>3, <1>4 DEF Holds

\* What a history holds, a history that covers it holds.
LEMMA CoversHolds ==
    ASSUME NEW h \in Seq(Entry), NEW g \in Seq(Entry), NEW t, NEW r \in Nat,
           Covers(h, g), Holds(g, t, r)
    PROVE  Holds(h, t, r)
  <1>1. PICK i \in 1 .. Len(g) : g[i].cycle = t /\ g[i].by.run >= r
    BY DEF Holds
  <1>2. g[i].by.run \in Nat
    BY EntryTyped
  <1>3. Holds(h, t, g[i].by.run)
    BY <1>1 DEF Covers
  <1> QED BY <1>1, <1>2, <1>3, HoldsEarlier

\* A history covers itself.
LEMMA CoversItself == ASSUME NEW h \in Seq(Entry) PROVE Covers(h, h)
  <1> SUFFICES ASSUME NEW i \in 1 .. Len(h) PROVE Holds(h, h[i].cycle, h[i].by.run)
    BY DEF Covers
  <1>1. h[i].by.run \in Nat
    BY EntryTyped
  <1> QED BY <1>1 DEF Holds

\* A history that holds what the database knows covers every history that is
\* behind the database.
LEMMA CoversBehind ==
    ASSUME NEW h \in Seq(Entry), NEW g \in Seq(Entry), NEW db \in [Cycles -> Payloads],
           Behind(g, db), \A t \in Cycles : db[t] # Nothing => Holds(h, t, db[t].run)
    PROVE  Covers(h, g)
  <1> SUFFICES ASSUME NEW i \in 1 .. Len(g) PROVE Holds(h, g[i].cycle, g[i].by.run)
    BY DEF Covers
  <1>1. g[i].cycle \in Cycles /\ g[i].by.run \in Nat
    BY EntryTyped
  <1>2. db[g[i].cycle].run \in Nat
    BY <1>1, PublicationConstants DEF Payloads
  <1>3. db[g[i].cycle] # Nothing /\ g[i].by.run <= db[g[i].cycle].run
    BY DEF Behind
  <1> QED BY <1>1, <1>2, <1>3, HoldsEarlier

\* A history stays behind a database that only gets newer.
LEMMA BehindLater ==
    ASSUME NEW h \in Seq(Entry), NEW db \in [Cycles -> Payloads],
           NEW new \in [Cycles -> Payloads], Behind(h, db),
           \A t \in Cycles : db[t] # Nothing => new[t] # Nothing /\ db[t].run <= new[t].run
    PROVE  Behind(h, new)
  <1> SUFFICES ASSUME NEW i \in 1 .. Len(h)
               PROVE  new[h[i].cycle] # Nothing /\ h[i].by.run <= new[h[i].cycle].run
    BY DEF Behind
  <1>1. h[i].cycle \in Cycles /\ h[i].by.run \in Nat
    BY EntryTyped
  <1>2. db[h[i].cycle].run \in Nat /\ new[h[i].cycle].run \in Nat
    BY <1>1, PublicationConstants DEF Payloads
  <1>3. db[h[i].cycle] # Nothing /\ h[i].by.run <= db[h[i].cycle].run
    BY DEF Behind
  <1> QED BY <1>1, <1>2, <1>3

\* The history the database returns.
LEMMA LegacyFacts ==
    ASSUME TypeOK
    PROVE  /\ LegacyHistory \in Seq(Entry) /\ Behind(LegacyHistory, obs)
           /\ Sorted(LegacyHistory)
           /\ \A t \in Cycles : obs[t] # Nothing => Has(LegacyHistory, t, obs[t])
  <1>1. Records(LegacyHistory, MaxCycle)
    BY LegacyHistoryIsTheRecord DEF TypeOK
  <1>2. LegacyHistory \in Seq(Entry) /\ Sorted(LegacyHistory)
    BY <1>1 DEF Records
  <1>3. ASSUME NEW i \in 1 .. Len(LegacyHistory)
        PROVE  /\ obs[LegacyHistory[i].cycle] # Nothing
               /\ LegacyHistory[i].by.run <= obs[LegacyHistory[i].cycle].run
    <2>1. obs[LegacyHistory[i].cycle] # Nothing
          /\ LegacyHistory[i].by = obs[LegacyHistory[i].cycle]
      BY <1>1 DEF Records
    <2>2. LegacyHistory[i].by.run \in Nat
      BY <1>2, EntryTyped
    <2> QED BY <2>1, <2>2
  <1>4. ASSUME NEW t \in Cycles, obs[t] # Nothing PROVE Has(LegacyHistory, t, obs[t])
    BY <1>1, <1>4 DEF Records, Has, Cycles
  <1> QED BY <1>2, <1>3, <1>4 DEF Behind

\* The numbers and the histories of a state.
LEMMA Typed ==
    ASSUME TypeOK
    PROVE  /\ run \in Nat /\ routes \in Nat /\ cycle \in Nat
           /\ \A t \in Cycles : /\ obs[t].run \in Nat /\ snapshot[t].run \in Nat
                                /\ journal[t].run \in Nat
                                /\ journal[t].history \in Seq(Entry)
           /\ history \in Seq(Entry) /\ plan \in Seq(Entry)
  <1>1. run \in Nat /\ routes \in Nat /\ cycle \in Nat
    BY PublicationConstants DEF TypeOK
  <1>2. ASSUME NEW t \in Cycles
        PROVE  /\ obs[t].run \in Nat /\ snapshot[t].run \in Nat
               /\ journal[t].run \in Nat /\ journal[t].history \in Histories
    BY PublicationConstants DEF TypeOK, Payloads
  <1>3. history \in Histories /\ plan \in Histories
    BY DEF TypeOK
  <1> QED BY <1>1, <1>2, <1>3 DEF Histories, Entry

-----------------------------------------------------------------------------
(***************************************************************************)
(* The invariant holds at first, and every step keeps it.                  *)
(***************************************************************************)

\* The invariant holds at first: nothing is written yet.
LEMMA InitInv == PublicationInit => PublicationInv
  <1> SUFFICES ASSUME PublicationInit PROVE PublicationInv
    OBVIOUS
  <1>1. TypeOK /\ Started
    BY InitType DEF PublicationInit, Started
  <1>2. history = <<>> /\ Len(history) = 0
    BY DEF PublicationInit
  <1>3. Behind(history, obs) /\ Sorted(history)
    BY <1>2 DEF Behind, Sorted
  <1>4. Numbered
    BY DEF PublicationInit, Numbered, Nothing
  <1>5. RowsAreSound
    BY DEF PublicationInit, RowsAreSound
  <1>6. JournalsAreSafe
    BY DEF PublicationInit, JournalsAreSafe, NoJournal
  <1>7. RecoveryGoesOn /\ PlanIsSafe /\ PublicationGoesOn
    BY DEF PublicationInit, RecoveryGoesOn, PlanIsSafe, PublicationGoesOn,
           Detecting, Publishing, Planned, Committed
  <1> QED BY <1>1, <1>3, <1>4, <1>5, <1>6, <1>7 DEF PublicationInv, HistoryIsSound

\* A run begins: only its number and its cycle change, and the numbers grow.
LEMMA BeginKeepsInv ==
    ASSUME PublicationInv, NEW t \in Cycles, BeginRun(t) PROVE PublicationInv'
  <1> USE DEF PublicationInv
  <1>1. TypeOK' /\ Started'
    BY NextType DEF PublicationNext, CycleStep
  <1>2. /\ pc = "idle" /\ pc' = "read pending" /\ cycle' = t /\ run' = run + 1
        /\ UNCHANGED <<row, obs, snapshot, history, routes, index, journal, parts>>
    BY DEF BeginRun, databaseVars, publicVars, journalVars
  <1>3. ~ late' => ~ late /\ ~ (t < cycle)
    BY DEF BeginRun
  <1>4. run \in Nat /\ routes \in Nat /\ cycle \in Nat /\ t \in Nat
    BY Typed, PublicationConstants DEF Cycles
  <1>5. /\ routes <= run /\ \A s \in Cycles : obs[s].run <= run
        /\ \A s \in Cycles : obs[s] # Nothing => obs[s].run >= 1
        /\ late \/ \A s \in Cycles : s > cycle => obs[s] = Nothing
        /\ \A s \in Cycles : journal[s].state = "prepared" => journal[s].run <= run
    BY DEF Numbered, JournalsAreSafe
  <1>6. \A s \in Cycles : obs[s].run \in Nat /\ journal[s].run \in Nat /\ s \in Nat
    BY Typed, PublicationConstants DEF Cycles
  <1> HIDE DEF PublicationInv
  <1>7. (\A s \in Nat : s <= run => s <= run') /\ run' >= 1
    <2>1. run' = run + 1
      BY <1>2
    <2> QED BY <1>4, <2>1
  <1>8. \A s \in Nat : ~ late' /\ s > cycle' => s > cycle
    <2>1. cycle' = t
      BY <1>2
    <2> QED BY <1>3, <1>4, <2>1
  <1>10. Numbered'
    BY <1>2, <1>3, <1>4, <1>5, <1>6, <1>7, <1>8 DEF Numbered
  <1>11. HistoryIsSound' /\ RowsAreSound'
    BY <1>2, <1>3 DEF PublicationInv, HistoryIsSound, RowsAreSound
  <1>12. JournalsAreSafe'
    <2>1. ASSUME NEW s \in Cycles, journal[s].state = "prepared"
          PROVE  journal[s].run <= run'
      BY <1>5, <1>6, <1>7, <2>1
    <2> QED BY <1>2, <1>3, <2>1 DEF PublicationInv, JournalsAreSafe
  <1>13. RecoveryGoesOn' /\ PlanIsSafe' /\ PublicationGoesOn'
    BY <1>2 DEF RecoveryGoesOn, PlanIsSafe, PublicationGoesOn, Detecting, Publishing,
                Planned, Committed
  <1> QED BY <1>1, <1>10, <1>11, <1>12, <1>13 DEF PublicationInv

\* A target of a prepared journal is put in place, by a recovery or by the
\* publication itself: what was prepared may replace what is public.
LEMMA InstallKeepsInv ==
    ASSUME PublicationInv, NEW t \in Cycles, NEW target, journal[t].state = "prepared",
           parts[t].run = journal[t].run, parts[t].history = journal[t].history,
           Install(target, t, parts[t]), UNCHANGED <<run, row, obs, journal, late>>
    PROVE  HistoryIsSound' /\ RowsAreSound' /\ JournalsAreSafe' /\ routes' <= run'
  <1> USE DEF PublicationInv
  <1>1. /\ \/ snapshot' = snapshot
           \/ snapshot' = [snapshot EXCEPT ![t] = Payload(journal[t].run, "final")]
        /\ history' = history \/ history' = journal[t].history
        /\ routes' = routes \/ routes' = journal[t].run
        /\ index' = index
    BY DEF Install
  <1>2. \A s \in Cycles : journal[s].state = "prepared" => s = t
    BY DEF JournalsAreSafe
  <1>3. routes' <= run'
    BY <1>1 DEF Numbered, JournalsAreSafe
  <1>4. HistoryIsSound'
    BY <1>1 DEF HistoryIsSound, JournalsAreSafe
  <1>5. RowsAreSound'
    <2> SUFFICES ASSUME NEW s \in Cycles, row[s] = "published"
                 PROVE  /\ s \in index' /\ snapshot'[s].run >= obs[s].run
                        /\ Holds(history', s, obs[s].run) /\ journal[s].state # "prepared"
      BY DEF RowsAreSound
    <2>1. /\ s # t /\ s \in index /\ snapshot[s].run >= obs[s].run
          /\ Holds(history, s, obs[s].run) /\ journal[s].state # "prepared"
      BY DEF RowsAreSound
    <2>2. snapshot'[s] = snapshot[s]
      BY <1>1, <2>1 DEF TypeOK
    <2>3. Holds(journal[t].history, s, obs[s].run)
      BY DEF JournalsAreSafe
    <2> QED BY <1>1, <2>1, <2>2, <2>3
  <1>6. JournalsAreSafe'
    <2>1. Covers(journal[t].history, history')
      BY <1>1, Typed, CoversItself DEF JournalsAreSafe
    <2>2. routes' <= journal[t].run
      BY <1>1, Typed DEF JournalsAreSafe
    <2> QED BY <1>2, <2>1, <2>2 DEF JournalsAreSafe
  <1> QED BY <1>3, <1>4, <1>5, <1>6

\* A recovery puts one target of a prepared journal in place.
LEMMA RecoverTargetKeepsInv ==
    ASSUME PublicationInv, NEW t \in Cycles, RecoverTarget(t) PROVE PublicationInv'
  <1> USE DEF PublicationInv, workerVars, databaseVars, primaryVars
  <1>1. TypeOK' /\ Started'
    BY NextType DEF PublicationNext, CycleStep
  <1>2. PICK target \in ToSet(Targets) :
          NextTarget(target, t) /\ PartIsGood(target, t) /\ Install(target, t, parts[t])
    BY DEF RecoverTarget
  <1>3. UNCHANGED <<pc, cycle, run, caller, pending, plan, row, obs, journal, late>>
    BY DEF RecoverTarget
  <1>4. /\ pc = "recover" /\ journal[t].state = "prepared"
        /\ parts[t].run = journal[t].run /\ parts[t].history = journal[t].history
    BY <1>2 DEF NextTarget, PartIsGood
  <1>5. HistoryIsSound' /\ RowsAreSound' /\ JournalsAreSafe' /\ routes' <= run'
    BY <1>2, <1>3, <1>4, InstallKeepsInv
  <1>6. Numbered'
    BY <1>3, <1>5 DEF Numbered
  <1>7. RecoveryGoesOn' /\ PlanIsSafe' /\ PublicationGoesOn'
    BY <1>3, <1>4 DEF RecoveryGoesOn, PlanIsSafe, PublicationGoesOn, Detecting,
                      Publishing, Planned, Committed
  <1> QED BY <1>1, <1>5, <1>6, <1>7

\* The rest of a recovery: the history is restored from the database, the
\* indexes are rebuilt, and what was pending is marked as published.
LEMMA RestoreHistoryKeepsInv ==
    ASSUME PublicationInv, RestoreHistory PROVE PublicationInv'
  <1> USE DEF PublicationInv, RestoreHistory, databaseVars, journalVars, primaryVars
  <1>1. TypeOK' /\ Started'
    BY NextType DEF PublicationNext
  <1>2. NonePrepared
    BY DEF RecoveryGoesOn
  <1>3. Numbered'
    BY DEF Numbered
  <1>4. HistoryIsSound'
    BY LegacyFacts DEF HistoryIsSound
  <1>5. RowsAreSound'
    <2> SUFFICES ASSUME NEW s \in Cycles, row[s] = "published"
                 PROVE  Holds(history', s, obs[s].run)
      BY DEF RowsAreSound
    <2>1. obs[s] # Nothing
      BY DEF RowsAreSound, Nothing
    <2> QED BY <2>1, LegacyFacts, HasHolds
  <1>6. JournalsAreSafe'
    BY <1>2 DEF JournalsAreSafe, NonePrepared
  <1>7. RecoveryGoesOn' /\ PlanIsSafe' /\ PublicationGoesOn'
    BY DEF RecoveryGoesOn, PlanIsSafe, PublicationGoesOn, Detecting, Publishing,
           NonePrepared, Planned, Committed
  <1> QED BY <1>1, <1>3, <1>4, <1>5, <1>6, <1>7

\* The projections are recovered: a cycle that is pending has its snapshot, and
\* its entry in the history.
LEMMA ProjectionsRecoveredKeepsInv ==
    ASSUME PublicationInv, ProjectionsRecovered PROVE PublicationInv'
  <1> USE DEF PublicationInv, ProjectionsRecovered, Goto, databaseVars, publicVars,
              journalVars, primaryVars
  <1>1. TypeOK' /\ Started'
    BY NextType DEF PublicationNext
  <1>2. Numbered' /\ HistoryIsSound' /\ RowsAreSound' /\ JournalsAreSafe'
    BY DEF Numbered, HistoryIsSound, RowsAreSound, JournalsAreSafe
  <1>3. RecoveryGoesOn'
    <2>1. pending = {t \in Cycles : row[t] = "pending"} /\ NonePrepared
      BY DEF RecoveryGoesOn
    <2>2. ASSUME NEW t \in pending
          PROVE  snapshot[t] = Projection(t) /\ Has(history, t, obs[t])
      <3>1. t \in Cycles /\ row[t] = "pending"
        BY <2>1
      <3>2. snapshot[t] = Projection(t) /\ history = LegacyHistory
        BY <3>1 DEF SnapshotLags, HistoryLags
      <3>3. obs[t] # Nothing
        BY <3>1 DEF RowsAreSound, Nothing
      <3> QED BY <3>1, <3>2, <3>3, LegacyFacts
    <2> QED BY <2>1, <2>2 DEF RecoveryGoesOn, Detecting, NonePrepared, Projection
  <1>4. PlanIsSafe' /\ PublicationGoesOn'
    BY DEF PlanIsSafe, PublicationGoesOn, Publishing, Planned, Committed
  <1> QED BY <1>1, <1>2, <1>3, <1>4

\* The indexes are rebuilt: everything published or pending has a snapshot.
LEMMA InitializeIndexesKeepsInv ==
    ASSUME PublicationInv, InitializeIndexes PROVE PublicationInv'
  <1> USE DEF PublicationInv, InitializeIndexes, Goto, databaseVars, journalVars, primaryVars
  <1>1. TypeOK' /\ Started'
    BY NextType DEF PublicationNext
  <1>2. ASSUME NEW t \in Cycles,
               row[t] = "published" \/ (row[t] = "pending" /\ snapshot[t] = Projection(t))
        PROVE  t \in index'
    <2>1. obs[t].run >= 1 /\ obs[t].run \in Nat /\ snapshot[t].run \in Nat
      BY <1>2, Typed DEF RowsAreSound, Numbered, Nothing
    <2>2. snapshot[t].run >= obs[t].run
      BY <1>2, <2>1 DEF RowsAreSound, Projection, Payload
    <2>3. snapshot[t] # Nothing
      <3> HIDE DEF PublicationInv, InitializeIndexes
      <3> QED BY <2>1, <2>2 DEF Nothing
    <2> QED BY <1>2, <2>3 DEF IndexProjection
  <1>3. Numbered' /\ HistoryIsSound' /\ JournalsAreSafe'
    BY DEF Numbered, HistoryIsSound, JournalsAreSafe
  <1>4. RowsAreSound'
    BY <1>2 DEF RowsAreSound
  <1>5. RecoveryGoesOn'
    <2>1. /\ pending = {t \in Cycles : row[t] = "pending"} /\ NonePrepared
          /\ \A t \in pending : snapshot[t] = Projection(t) /\ Has(history, t, obs[t])
      BY DEF RecoveryGoesOn
    <2>2. ASSUME NEW t \in pending
          PROVE  t \in index' /\ Holds(history, t, obs[t].run)
      BY <1>2, <2>1, HasHolds, Typed
    <2> QED BY <2>1, <2>2 DEF RecoveryGoesOn, Detecting, NonePrepared, Projection
  <1>6. PlanIsSafe' /\ PublicationGoesOn'
    BY DEF PlanIsSafe, PublicationGoesOn, Publishing, Planned, Committed
  <1> QED BY <1>1, <1>3, <1>4, <1>5, <1>6

\* A pending cycle is marked: by then it is public.
LEMMA MarkPendingKeepsInv ==
    ASSUME PublicationInv, NEW t \in Cycles, MarkPending(t) PROVE PublicationInv'
  <1> USE DEF PublicationInv, MarkPending, publicVars, journalVars, primaryVars
  <1>1. TypeOK' /\ Started'
    BY NextType DEF PublicationNext, CycleStep
  <1>2. /\ pending = {s \in Cycles : row[s] = "pending"} /\ NonePrepared
        /\ t \in pending /\ t \in index /\ snapshot[t] = Projection(t)
        /\ Holds(history, t, obs[t].run)
    BY DEF RecoveryGoesOn
  <1>3. \A s \in Cycles : row'[s] = IF s = t THEN "published" ELSE row[s]
    BY DEF TypeOK
  <1>4. Numbered' /\ HistoryIsSound'
    BY DEF Numbered, HistoryIsSound
  <1>5. RowsAreSound'
    <2>1. snapshot[t].run >= obs[t].run
      BY <1>2, Typed DEF Projection, Payload
    <2> QED BY <1>2, <1>3, <2>1 DEF RowsAreSound, NonePrepared
  <1>6. JournalsAreSafe'
    BY <1>2 DEF JournalsAreSafe, NonePrepared
  <1>7. RecoveryGoesOn'
    <2>1. pending' = {s \in Cycles : row'[s] = "pending"}
      BY <1>2, <1>3
    <2> QED BY <1>2, <2>1 DEF RecoveryGoesOn, Detecting, NonePrepared, Projection
  <1>8. PlanIsSafe' /\ PublicationGoesOn'
    BY DEF PlanIsSafe, PublicationGoesOn, Publishing, Planned, Committed
  <1> QED BY <1>1, <1>4, <1>5, <1>6, <1>7, <1>8

\* The detection overwrites the snapshot of its cycle, by one of its own run.
LEMMA SaveDetectionKeepsInv ==
    ASSUME PublicationInv, SaveDetection PROVE PublicationInv'
  <1> USE DEF PublicationInv, SaveDetection, Goto, databaseVars, journalVars, primaryVars
  <1>1. TypeOK' /\ Started'
    BY NextType DEF PublicationNext
  <1>2. Numbered' /\ HistoryIsSound' /\ JournalsAreSafe'
    BY DEF Numbered, HistoryIsSound, JournalsAreSafe
  <1>3. RowsAreSound'
    <2>1. ASSUME NEW t \in Cycles, row[t] = "published"
          PROVE  snapshot'[t].run >= obs[t].run
      <3>1. snapshot[t].run >= obs[t].run /\ obs[t].run <= run
        BY <2>1 DEF RowsAreSound, Numbered
      <3>2. snapshot'[t].run = IF t = cycle THEN run ELSE snapshot[t].run
        BY DEF TypeOK, Payload
      <3> QED BY <3>1, <3>2, Typed
    <2> QED BY <2>1 DEF RowsAreSound
  <1>4. RecoveryGoesOn' /\ PlanIsSafe' /\ PublicationGoesOn'
    BY DEF RecoveryGoesOn, PlanIsSafe, PublicationGoesOn, Detecting, Publishing,
           Planned, Committed
  <1> QED BY <1>1, <1>2, <1>3, <1>4

\* A transaction of a run makes the database newer: what was behind it stays so.
LEMMA CommitMakesNewer ==
    ASSUME PublicationInv, pc # "idle", NEW p, NEW s \in {"input", "final"},
           CommitCycle(p, s), TypeOK', NEW h \in Seq(Entry), Behind(h, obs)
    PROVE  Behind(h, obs')
  <1>1. obs \in [Cycles -> Payloads] /\ obs' \in [Cycles -> Payloads] /\ cycle \in Cycles
    BY DEF PublicationInv, TypeOK, Started
  <1>2. obs' = [obs EXCEPT ![cycle] = Payload(run, s)] /\ Payload(run, s) # Nothing
    BY DEF CommitCycle, Payload, Nothing
  <1>3. \A t \in Cycles : obs[t].run <= run /\ obs[t].run \in Nat
    BY Typed DEF PublicationInv, Numbered
  <1>4. ASSUME NEW t \in Cycles, obs[t] # Nothing
        PROVE  obs'[t] # Nothing /\ obs[t].run <= obs'[t].run
    BY <1>1, <1>2, <1>3, <1>4 DEF Payload
  <1> QED BY <1>1, <1>4, BehindLater

\* The numbers, after a transaction.
LEMMA CommitIsNumbered ==
    ASSUME PublicationInv, pc # "idle", NEW p, NEW s \in {"input", "final"},
           CommitCycle(p, s), UNCHANGED <<cycle, run, routes, late>>
    PROVE  Numbered'
  <1>1. cycle \in Cycles /\ cycle \in Nat /\ run \in Nat /\ run >= 1
    BY Typed DEF PublicationInv, Started, Numbered
  <1>2. \A t \in Cycles : obs'[t] = IF t = cycle THEN Payload(run, s) ELSE obs[t]
    BY DEF PublicationInv, TypeOK, CommitCycle
  <1>3. /\ routes <= run
        /\ \A t \in Cycles : obs[t].run <= run /\ (obs[t] # Nothing => obs[t].run >= 1)
        /\ late \/ \A t \in Cycles : t > cycle => obs[t] = Nothing
    BY DEF PublicationInv, Numbered
  <1>4. \A t \in Cycles : obs'[t].run <= run' /\ (obs'[t] # Nothing => obs'[t].run >= 1)
    BY <1>1, <1>2, <1>3 DEF Payload
  <1>5. \A t \in Cycles : t > cycle => t # cycle
    BY <1>1
  <1> QED BY <1>1, <1>2, <1>3, <1>4, <1>5 DEF Numbered

\* The inputs of CTAM are committed: the row has no projection any more.
LEMMA CommitInputsKeepsInv ==
    ASSUME PublicationInv, CommitInputs PROVE PublicationInv'
  <1> USE DEF PublicationInv, CommitInputs, Goto, publicVars, journalVars, primaryVars
  <1>1. TypeOK' /\ Started'
    BY NextType DEF PublicationNext
  <1>2. Numbered'
    BY CommitIsNumbered
  <1>3. \A h \in Seq(Entry) : Behind(h, obs) => Behind(h, obs')
    BY <1>1, CommitMakesNewer
  <1>4. /\ \A t \in Cycles : row'[t] = IF t = cycle THEN "none" ELSE row[t]
        /\ \A t \in Cycles : t # cycle => obs'[t] = obs[t]
    BY DEF TypeOK, CommitCycle
  <1>5. HistoryIsSound'
    BY <1>3, Typed DEF HistoryIsSound
  <1>6. RowsAreSound'
    BY <1>4 DEF RowsAreSound
  <1>7. JournalsAreSafe'
    <2>1. ASSUME NEW t \in Cycles, journal[t].state = "prepared"
          PROVE  /\ Behind(journal[t].history, obs')
                 /\ \A s \in Cycles : row'[s] = "published" =>
                       Holds(journal[t].history, s, obs'[s].run)
      BY <1>3, <1>4, <2>1, Typed DEF JournalsAreSafe
    <2> QED BY <2>1 DEF JournalsAreSafe
  <1>8. RecoveryGoesOn' /\ PlanIsSafe' /\ PublicationGoesOn'
    BY DEF RecoveryGoesOn, PlanIsSafe, PublicationGoesOn, Detecting, Publishing,
           Planned, Committed
  <1> QED BY <1>1, <1>2, <1>5, <1>6, <1>7, <1>8

\* The history that is prepared holds everything the database knows, is in order
\* unless the primary went back, and ends with the entry of the run.
LEMMA PlanIsPrepared ==
    ASSUME PublicationInv, pc # "idle", NEW h, h = UpdatedHistory
    PROVE  /\ \A t \in Cycles : obs[t] # Nothing => Holds(h, t, obs[t].run)
           /\ Has(h, cycle, Payload(run, "final"))
           /\ late \/ Sorted(h)
           /\ \A i \in 1 .. Len(h) :
                 \/ h[i].cycle = cycle /\ h[i].by.run <= run
                 \/ /\ obs[h[i].cycle] # Nothing
                    /\ h[i].by.run <= obs[h[i].cycle].run
  <1> DEFINE known == IF LegacyHistory # <<>> THEN LegacyHistory ELSE history
  <1>1. cycle \in Cycles /\ cycle \in Nat /\ run \in Nat /\ run \in 0 .. MaxCycleRuns
    BY Typed DEF PublicationInv, Started, TypeOK
  <1>2. known \in Seq(Entry) /\ Behind(known, obs) /\ (late \/ Sorted(known))
    BY LegacyFacts, Typed DEF PublicationInv, HistoryIsSound
  <1>3. ASSUME NEW t \in Cycles, obs[t] # Nothing PROVE Holds(known, t, obs[t].run)
    <2>1. Has(LegacyHistory, t, obs[t]) /\ LegacyHistory \in Seq(Entry)
      BY <1>3, LegacyFacts DEF PublicationInv
    <2>2. LegacyHistory # <<>>
      BY <2>1 DEF Has
    <2> QED BY <2>1, <2>2, HasHolds
  <1> HIDE DEF known
  <1>4. PICK n \in Nat :
          /\ \/ n = Len(known) /\ (n = 0 \/ known[n].cycle # cycle)
             \/ n + 1 = Len(known) /\ known[n + 1].cycle = cycle
          /\ h \in Seq(Entry) /\ Len(h) = n + 1
          /\ h[n + 1] = [cycle |-> cycle, by |-> Payload(run, "final")]
          /\ \A i \in 1 .. n : h[i] = known[i]
    BY <1>1, <1>2, TheUpdate DEF known
  <1>5. h[n + 1].cycle = cycle /\ h[n + 1].by = Payload(run, "final")
        /\ h[n + 1].by.run = run
    BY <1>4 DEF Payload
  <1>6. Len(known) \in Nat /\ \A i \in 1 .. n : i \in 1 .. Len(known) /\ i \in 1 .. Len(h)
    BY <1>2, <1>4, LenProperties
  <1>7. n + 1 \in 1 .. Len(h) /\ \A i \in 1 .. Len(h) : i \in 1 .. n \/ i = n + 1
    BY <1>4
  <1>8. ASSUME NEW t \in Cycles, obs[t] # Nothing PROVE Holds(h, t, obs[t].run)
    <2>1. PICK i \in 1 .. Len(known) : known[i].cycle = t /\ known[i].by.run >= obs[t].run
      BY <1>3, <1>8 DEF Holds
    <2>2. CASE i \in 1 .. n
      BY <1>4, <1>6, <2>1, <2>2 DEF Holds
    <2>3. CASE i \notin 1 .. n
      <3>1. i = n + 1 /\ t = cycle
        BY <1>4, <1>6, <2>1, <2>3
      <3>2. run >= obs[t].run
        BY Typed DEF PublicationInv, Numbered
      <3> QED BY <1>5, <1>7, <3>1, <3>2 DEF Holds
    <2> QED BY <2>2, <2>3
  <1>9. Has(h, cycle, Payload(run, "final"))
    BY <1>4, <1>7 DEF Has
  <1>10. ASSUME NEW i \in 1 .. Len(h)
         PROVE  \/ h[i].cycle = cycle /\ h[i].by.run <= run
                \/ /\ obs[h[i].cycle] # Nothing
                   /\ h[i].by.run <= obs[h[i].cycle].run
    <2>1. CASE i \in 1 .. n
      BY <1>2, <1>4, <1>6, <2>1 DEF Behind
    <2>2. CASE i = n + 1
      BY <1>1, <1>5, <2>2
    <2> QED BY <1>7, <2>1, <2>2
  <1>11. ASSUME ~ late PROVE Sorted(h)
    <2>1. Sorted(known)
      BY <1>2, <1>11
    <2>2. ASSUME NEW i \in 1 .. Len(known) PROVE known[i].cycle \in Nat /\ known[i].cycle <= cycle
      <3>1. known[i].cycle \in Cycles /\ obs[known[i].cycle] # Nothing
        BY <1>2, EntryTyped DEF Behind
      <3>2. ~ (known[i].cycle > cycle)
        BY <1>11, <3>1 DEF PublicationInv, Numbered
      <3> QED BY <1>1, <3>1, <3>2, PublicationConstants DEF Cycles
    <2>3. ASSUME NEW i \in 1 .. n PROVE known[i].cycle < cycle
      <3>1. i \in 1 .. Len(known)
        BY <1>6
      <3>2. CASE n = Len(known) /\ known[n].cycle # cycle
        <4>1. known[n].cycle < cycle /\ n \in 1 .. Len(known)
          BY <1>1, <1>6, <2>2, <3>2
        <4>2. i = n \/ known[i].cycle < known[n].cycle
          BY <2>1, <3>1, <4>1 DEF Sorted
        <4> QED BY <1>1, <2>2, <3>1, <4>1, <4>2
      <3>3. CASE n + 1 = Len(known) /\ known[n + 1].cycle = cycle
        <4>1. i < n + 1 /\ n + 1 \in 1 .. Len(known)
          BY <3>3
        <4> QED BY <2>1, <3>1, <3>3, <4>1 DEF Sorted
      <3> QED BY <1>4, <3>2, <3>3
    <2> SUFFICES ASSUME NEW i \in 1 .. Len(h), NEW j \in 1 .. Len(h), i < j
                 PROVE  h[i].cycle < h[j].cycle
      BY DEF Sorted
    <2>4. i \in 1 .. n
      BY <1>4
    <2>5. CASE j \in 1 .. n
      BY <1>4, <1>6, <2>1, <2>4, <2>5 DEF Sorted
    <2>6. CASE j = n + 1
      BY <1>4, <1>5, <2>3, <2>4, <2>6
    <2> QED BY <1>7, <2>5, <2>6
  <1> QED BY <1>8, <1>9, <1>10, <1>11

\* A run has prepared its history.
LEMMA PrepareHistoryKeepsInv ==
    ASSUME PublicationInv, PrepareHistory PROVE PublicationInv'
  <1> USE DEF PublicationInv, PrepareHistory, Goto, databaseVars, publicVars, journalVars,
              primaryVars
  <1>1. TypeOK' /\ Started'
    BY NextType DEF PublicationNext
  <1>2. Numbered' /\ HistoryIsSound' /\ RowsAreSound' /\ JournalsAreSafe'
    BY DEF Numbered, HistoryIsSound, RowsAreSound, JournalsAreSafe
  <1>3. PlanIsSafe'
    BY PlanIsPrepared DEF PlanIsSafe, Publishing, Planned, Committed
  <1>4. RecoveryGoesOn' /\ PublicationGoesOn'
    BY DEF RecoveryGoesOn, PublicationGoesOn, Detecting
  <1> QED BY <1>1, <1>2, <1>3, <1>4

\* The payload of a publication.
LEMMA FinalPayload ==
    ASSUME NEW r
    PROVE  /\ Payload(r, "final").run = r /\ Payload(r, "final").stage = "final"
           /\ Payload(r, "final") # Nothing
  BY DEF Payload, Nothing

\* The projection is committed: the row is pending, and the planned history is
\* behind the database.
LEMMA CommitProjectionKeepsInv ==
    ASSUME PublicationInv, CommitProjection PROVE PublicationInv'
  <1> USE DEF PublicationInv, CommitProjection, Goto, publicVars, journalVars, primaryVars
  <1>1. TypeOK' /\ Started'
    BY NextType DEF PublicationNext
  <1>2. Numbered'
    BY CommitIsNumbered
  <1>3. \A h \in Seq(Entry) : Behind(h, obs) => Behind(h, obs')
    BY <1>1, CommitMakesNewer
  <1>4. /\ cycle \in Cycles
        /\ \A t \in Cycles : row'[t] = IF t = cycle THEN "pending" ELSE row[t]
        /\ \A t \in Cycles : obs'[t] = IF t = cycle THEN Payload(run, "final") ELSE obs[t]
    BY DEF TypeOK, Started, CommitCycle
  <1>5. HistoryIsSound'
    BY <1>3, Typed DEF HistoryIsSound
  <1>6. RowsAreSound'
    <2>1. obs'[cycle].stage = "final"
      BY <1>4, FinalPayload
    <2>2. \A t \in Cycles : row'[t] = "published" => t # cycle
      BY <1>4
    <2> QED BY <1>4, <2>1, <2>2 DEF RowsAreSound
  <1>7. JournalsAreSafe'
    <2>1. ASSUME NEW t \in Cycles, journal[t].state = "prepared"
          PROVE  /\ Behind(journal[t].history, obs')
                 /\ \A s \in Cycles : row'[s] = "published" =>
                       Holds(journal[t].history, s, obs'[s].run)
      BY <1>3, <1>4, <2>1, Typed DEF JournalsAreSafe
    <2> QED BY <2>1 DEF JournalsAreSafe
  <1>8. RecoveryGoesOn'
    BY DEF RecoveryGoesOn, Detecting
  <1>9. PlanIsSafe'
    <2>1. /\ \A t \in Cycles : obs[t] # Nothing => Holds(plan, t, obs[t].run)
          /\ Has(plan, cycle, Payload(run, "final")) /\ (late \/ Sorted(plan))
          /\ \A i \in 1 .. Len(plan) :
                \/ plan[i].cycle = cycle /\ plan[i].by.run <= run
                \/ /\ obs[plan[i].cycle] # Nothing
                   /\ plan[i].by.run <= obs[plan[i].cycle].run
      BY DEF PlanIsSafe, Planned
    <2>2. ASSUME NEW t \in Cycles, obs'[t] # Nothing PROVE Holds(plan, t, obs'[t].run)
      <3>1. Holds(plan, cycle, Payload(run, "final").run)
        BY <2>1, HasHolds, Typed
      <3> QED BY <1>4, <2>1, <2>2, <3>1
    <2>3. Behind(plan, obs')
      <3> SUFFICES ASSUME NEW i \in 1 .. Len(plan)
                   PROVE  /\ obs'[plan[i].cycle] # Nothing
                          /\ plan[i].by.run <= obs'[plan[i].cycle].run
        BY DEF Behind
      <3>1. /\ plan[i].cycle \in Cycles /\ plan[i].by.run \in Nat /\ run \in Nat
            /\ obs[plan[i].cycle].run \in Nat /\ obs[plan[i].cycle].run <= run
        BY EntryTyped, Typed DEF Numbered
      <3>2. plan[i].by.run <= obs[plan[i].cycle].run => plan[i].by.run <= run
        <4> HIDE DEF PublicationInv, CommitProjection
        <4> QED BY <3>1
      <3>3. plan[i].by.run <= run
        BY <2>1, <3>2
      <3>4. CASE plan[i].cycle = cycle
        <4>1. obs'[plan[i].cycle] = Payload(run, "final")
          BY <1>4, <3>4
        <4> HIDE DEF PublicationInv, CommitProjection
        <4> QED BY <3>3, <4>1, FinalPayload
      <3>5. CASE plan[i].cycle # cycle
        BY <1>4, <2>1, <3>1, <3>5
      <3> QED BY <3>4, <3>5
    <2> QED BY <1>4, <2>1, <2>2, <2>3 DEF PlanIsSafe, Publishing, Planned, Committed
  <1>10. PublicationGoesOn'
    BY DEF PublicationGoesOn
  <1> QED BY <1>1, <1>2, <1>5, <1>6, <1>7, <1>8, <1>9, <1>10

\* The journal is written: what it prepares covers all that is public.
LEMMA WriteJournalKeepsInv ==
    ASSUME PublicationInv, WriteJournal PROVE PublicationInv'
  <1> USE DEF PublicationInv
  <1>1. TypeOK' /\ Started'
    BY NextType DEF PublicationNext
  <1>2. /\ pc = "write journal" /\ pc' = "replace"
        /\ UNCHANGED <<cycle, run, caller, pending, plan, row, obs, snapshot, history,
                       routes, index, parts, late>>
    BY DEF WriteJournal, Goto, databaseVars, publicVars, primaryVars
  <1>3. /\ cycle \in Cycles /\ NonePrepared /\ row[cycle] = "pending"
        /\ parts[cycle].run = run /\ parts[cycle].history = plan
        /\ parts[cycle].left = ToSet(Targets)
        /\ Behind(plan, obs) /\ (late \/ Sorted(plan))
        /\ \A t \in Cycles : obs[t] # Nothing => Holds(plan, t, obs[t].run)
    BY <1>2 DEF Started, PublicationGoesOn, PlanIsSafe, Planned, Committed
  <1>4. \A t \in Cycles : journal'[t] =
          IF t = cycle THEN [state |-> "prepared", run |-> run, history |-> plan]
          ELSE journal[t]
    BY DEF TypeOK, WriteJournal
  <1>5. Numbered' /\ HistoryIsSound'
    BY <1>2 DEF Numbered, HistoryIsSound
  <1>6. RowsAreSound'
    BY <1>2, <1>3, <1>4 DEF RowsAreSound
  <1>7. JournalsAreSafe'
    <2>1. Covers(plan, history)
      BY <1>3, Typed, CoversBehind DEF TypeOK, HistoryIsSound
    <2>2. ASSUME NEW s \in Cycles, row[s] = "published" PROVE Holds(plan, s, obs[s].run)
      <3>1. obs[s] # Nothing
        BY <2>2 DEF RowsAreSound, Nothing
      <3> QED BY <1>3, <3>1
    <2>3. routes <= run /\ run \in Nat
      BY Typed DEF Numbered
    <2>4. run <= run
      BY <2>3
    <2>5. \A t \in Cycles : journal'[t].state = "prepared" =>
            t = cycle /\ journal'[t].run = run /\ journal'[t].history = plan
      BY <1>3, <1>4 DEF NonePrepared
    <2> QED BY <1>2, <1>3, <2>1, <2>2, <2>3, <2>4, <2>5 DEF JournalsAreSafe
  <1>8. RecoveryGoesOn' /\ PlanIsSafe'
    BY <1>2 DEF RecoveryGoesOn, PlanIsSafe, Detecting, Publishing, Planned, Committed
  <1>9. PublicationGoesOn'
    <2>1. /\ journal'[cycle].state = "prepared" /\ journal'[cycle].run = run
          /\ journal'[cycle].history = plan
      BY <1>3, <1>4
    <2>2. "snapshot" \in parts[cycle].left /\ "history" \in parts[cycle].left
      BY <1>3, TheTargets
    <2> QED BY <1>2, <1>3, <2>1, <2>2 DEF PublicationGoesOn
  <1> QED BY <1>1, <1>5, <1>6, <1>7, <1>8, <1>9

\* One file of the publication is replaced, the snapshot first.
LEMMA ReplaceTargetKeepsInv ==
    ASSUME PublicationInv, ReplaceTarget PROVE PublicationInv'
  <1> USE DEF PublicationInv, databaseVars, primaryVars
  <1>1. TypeOK' /\ Started'
    BY NextType DEF PublicationNext
  <1>2. PICK i \in DOMAIN Targets :
          /\ Install(Targets[i], cycle, parts[cycle])
          /\ parts' = [parts EXCEPT ![cycle].left = @ \ {Targets[i]}]
    BY DEF ReplaceTarget
  <1>3. /\ pc = "replace" /\ pc' = IF parts'[cycle].left = {} THEN "index" ELSE "replace"
        /\ UNCHANGED <<cycle, run, caller, pending, plan, row, obs, journal, late>>
    BY DEF ReplaceTarget, Goto
  <1>4. /\ cycle \in Cycles /\ journal[cycle].state = "prepared"
        /\ journal[cycle].run = run /\ journal[cycle].history = plan
        /\ parts[cycle].run = run /\ parts[cycle].history = plan
        /\ "snapshot" \notin parts[cycle].left => snapshot[cycle] = Payload(run, "final")
        /\ "history" \notin parts[cycle].left => history = plan
    BY <1>3 DEF Started, PublicationGoesOn
  <1>5. HistoryIsSound' /\ RowsAreSound' /\ JournalsAreSafe' /\ routes' <= run'
    BY <1>2, <1>3, <1>4, InstallKeepsInv
  <1>6. Numbered'
    BY <1>3, <1>5 DEF Numbered
  <1>7. RecoveryGoesOn' /\ PlanIsSafe'
    BY <1>3 DEF RecoveryGoesOn, PlanIsSafe, Detecting, Publishing, Planned, Committed
  <1>8. PublicationGoesOn'
    <2>1. /\ parts'[cycle].run = run /\ parts'[cycle].history = plan
          /\ parts'[cycle].left = parts[cycle].left \ {Targets[i]}
      BY <1>2, <1>4 DEF TypeOK
    <2>2. "snapshot" \notin parts'[cycle].left => snapshot'[cycle] = Payload(run, "final")
      BY <1>2, <1>4, <2>1 DEF TypeOK, Install
    <2>3. "history" \notin parts'[cycle].left => history' = plan
      BY <1>2, <1>4, <2>1 DEF Install
    <2> QED BY <1>3, <1>4, <2>1, <2>2, <2>3 DEF PublicationGoesOn
  <1> QED BY <1>1, <1>5, <1>6, <1>7, <1>8

\* A published cycle has a snapshot for the index to find.
LEMMA PublishedHasSnapshot ==
    ASSUME PublicationInv, NEW t \in Cycles, row[t] = "published"
    PROVE  snapshot[t] # Nothing
  <1>1. obs[t].run >= 1 /\ snapshot[t].run >= obs[t].run
    BY DEF PublicationInv, RowsAreSound, Numbered, Nothing
  <1>2. obs[t].run \in Nat /\ snapshot[t].run \in Nat
    BY Typed DEF PublicationInv
  <1> QED BY <1>1, <1>2 DEF Nothing

\* The cycle is listed.
LEMMA PublishIndexesKeepsInv ==
    ASSUME PublicationInv, PublishIndexes PROVE PublicationInv'
  <1> USE DEF PublicationInv, PublishIndexes, Goto, databaseVars, journalVars, primaryVars
  <1>1. TypeOK' /\ Started'
    BY NextType DEF PublicationNext
  <1>2. Numbered' /\ HistoryIsSound' /\ JournalsAreSafe'
    BY DEF Numbered, HistoryIsSound, JournalsAreSafe
  <1>3. RowsAreSound'
    BY PublishedHasSnapshot DEF RowsAreSound, IndexProjection
  <1>4. RecoveryGoesOn' /\ PlanIsSafe'
    BY DEF RecoveryGoesOn, PlanIsSafe, Detecting, Publishing, Planned, Committed
  <1>5. PublicationGoesOn'
    <2>1. snapshot[cycle] = Payload(run, "final")
      BY DEF PublicationGoesOn
    <2>2. snapshot[cycle] # Nothing
      BY <2>1, FinalPayload
    <2> QED BY <2>2 DEF PublicationGoesOn
  <1> QED BY <1>1, <1>2, <1>3, <1>4, <1>5

\* The journal is committed: there is none to recover.
LEMMA CommitJournalKeepsInv ==
    ASSUME PublicationInv, CommitJournal PROVE PublicationInv'
  <1> USE DEF PublicationInv, CommitJournal, Goto, databaseVars, publicVars, primaryVars
  <1>1. TypeOK' /\ Started'
    BY NextType DEF PublicationNext
  <1>2. /\ cycle \in Cycles
        /\ \A t \in Cycles : journal[t].state = "prepared" => t = cycle
        /\ journal'[cycle].state = "committed"
        /\ \A t \in Cycles : t # cycle => journal'[t] = journal[t]
    BY DEF Started, TypeOK, PublicationGoesOn, JournalsAreSafe
  <1>3. Numbered' /\ HistoryIsSound'
    BY DEF Numbered, HistoryIsSound
  <1>4. RowsAreSound' /\ JournalsAreSafe'
    BY <1>2 DEF RowsAreSound, JournalsAreSafe
  <1>5. RecoveryGoesOn' /\ PlanIsSafe'
    BY DEF RecoveryGoesOn, PlanIsSafe, Detecting, Publishing, Planned, Committed
  <1>6. PublicationGoesOn'
    BY <1>2 DEF PublicationGoesOn, NonePrepared
  <1> QED BY <1>1, <1>3, <1>4, <1>5, <1>6

\* The row is marked: by then the cycle is public.
LEMMA MarkPublishedKeepsInv ==
    ASSUME PublicationInv, MarkPublished PROVE PublicationInv'
  <1> USE DEF PublicationInv, MarkPublished, Goto, publicVars, journalVars, primaryVars
  <1>1. TypeOK' /\ Started'
    BY NextType DEF PublicationNext
  <1>2. /\ cycle \in Cycles /\ cycle \in index /\ NonePrepared
        /\ snapshot[cycle] = Payload(run, "final") /\ history = plan
        /\ obs[cycle] = Payload(run, "final")
        /\ \A t \in Cycles : obs[t] # Nothing => Holds(plan, t, obs[t].run)
        /\ \A t \in Cycles : row'[t] = IF t = cycle THEN "published" ELSE row[t]
    BY DEF Started, TypeOK, PublicationGoesOn, PlanIsSafe, Planned, Committed
  <1>3. Numbered' /\ HistoryIsSound'
    BY DEF Numbered, HistoryIsSound
  <1>4. RowsAreSound'
    <2>1. obs[cycle].stage = "final" /\ obs[cycle] # Nothing
      BY <1>2, FinalPayload
    <2>2. snapshot[cycle].run >= obs[cycle].run
      <3>1. obs[cycle].run \in Nat /\ snapshot[cycle] = obs[cycle]
        BY <1>2, Typed
      <3> HIDE DEF PublicationInv, MarkPublished
      <3> QED BY <3>1
    <2> QED BY <1>2, <2>1, <2>2 DEF RowsAreSound, NonePrepared
  <1>5. JournalsAreSafe'
    BY <1>2 DEF JournalsAreSafe, NonePrepared
  <1>6. RecoveryGoesOn' /\ PlanIsSafe' /\ PublicationGoesOn'
    BY DEF RecoveryGoesOn, PlanIsSafe, PublicationGoesOn, Detecting, Publishing,
           Planned, Committed
  <1> QED BY <1>1, <1>3, <1>4, <1>5, <1>6

\* The steps of a recovery that bring a journal or a snapshot to where it should be,
\* or give the journal up.
LEMMA RecoveryStepKeepsInv ==
    ASSUME PublicationInv, NEW t \in Cycles,
           \/ JournalRecovered(t) \/ QuarantineJournal(t)
           \/ QuarantineOnError(t) \/ RestoreSnapshot(t)
    PROVE  PublicationInv'
  <1> USE DEF PublicationInv, TypeOK, Started, workerVars, databaseVars, publicVars, journalVars,
              primaryVars
  <1>1. TypeOK' /\ Started'
    BY NextType DEF PublicationNext, CycleStep
  <1>2. CASE JournalRecovered(t)
    <2>1. HistoryIsSound' /\ RowsAreSound' /\ JournalsAreSafe'
      BY <1>2 DEF JournalRecovered, HistoryIsSound, RowsAreSound, JournalsAreSafe
    <2>2. Numbered' /\ RecoveryGoesOn' /\ PlanIsSafe' /\ PublicationGoesOn'
      BY <1>2 DEF JournalRecovered, Numbered, RecoveryGoesOn, PlanIsSafe,
             PublicationGoesOn, Detecting, Publishing, NonePrepared, Planned,
             Committed
    <2> QED BY <1>1, <2>1, <2>2
  <1>3. CASE QuarantineJournal(t)
    <2>1. HistoryIsSound' /\ RowsAreSound' /\ JournalsAreSafe'
      BY <1>3 DEF QuarantineJournal, NextTarget, NoJournal, HistoryIsSound,
             RowsAreSound, JournalsAreSafe
    <2>2. Numbered' /\ RecoveryGoesOn' /\ PlanIsSafe' /\ PublicationGoesOn'
      BY <1>3 DEF QuarantineJournal, NextTarget, NoJournal, Numbered, RecoveryGoesOn,
             PlanIsSafe, PublicationGoesOn, Detecting, Publishing, NonePrepared,
             Planned, Committed
    <2> QED BY <1>1, <2>1, <2>2
  <1>4. CASE QuarantineOnError(t)
    <2>1. HistoryIsSound' /\ RowsAreSound' /\ JournalsAreSafe'
      BY <1>4 DEF QuarantineOnError, NoJournal, HistoryIsSound, RowsAreSound,
             JournalsAreSafe
    <2>2. Numbered' /\ RecoveryGoesOn' /\ PlanIsSafe' /\ PublicationGoesOn'
      BY <1>4 DEF QuarantineOnError, NoJournal, Numbered, RecoveryGoesOn, PlanIsSafe,
             PublicationGoesOn, Detecting, Publishing, NonePrepared, Planned,
             Committed
    <2> QED BY <1>1, <2>1, <2>2
  <1>5. CASE RestoreSnapshot(t)
    <2>1. HistoryIsSound' /\ RowsAreSound' /\ JournalsAreSafe'
      BY <1>5 DEF RestoreSnapshot, SnapshotLags, HistoryIsSound, RowsAreSound,
             JournalsAreSafe
    <2>2. Numbered' /\ RecoveryGoesOn' /\ PlanIsSafe' /\ PublicationGoesOn'
      BY <1>5 DEF RestoreSnapshot, SnapshotLags, Numbered, RecoveryGoesOn, PlanIsSafe,
             PublicationGoesOn, Detecting, Publishing, NonePrepared, Planned,
             Committed
    <2> QED BY <1>1, <2>1, <2>2
  <1> QED BY <1>2, <1>3, <1>4, <1>5

\* The steps that touch nothing public and nothing the database holds.
LEMMA QuietStepKeepsInv ==
    ASSUME PublicationInv,
           \/ ReadPending \/ JournalsRecovered \/ AllMarked \/ RecoveryFails
           \/ InputsNotCommitted \/ WriteParts \/ RecordOutcome \/ RunFails \/ KillCycle
    PROVE  PublicationInv'
  <1> USE DEF PublicationInv, TypeOK, Started, Goto, workerVars, databaseVars, publicVars,
              journalVars, primaryVars
  <1>1. TypeOK' /\ Started'
    BY NextType DEF PublicationNext
  <1>2. CASE ReadPending
    <2>1. HistoryIsSound' /\ RowsAreSound' /\ JournalsAreSafe'
      BY <1>2 DEF ReadPending, HistoryIsSound, RowsAreSound, JournalsAreSafe
    <2>2. Numbered' /\ RecoveryGoesOn' /\ PlanIsSafe' /\ PublicationGoesOn'
      BY <1>2 DEF ReadPending, Numbered, RecoveryGoesOn, PlanIsSafe,
             PublicationGoesOn, Detecting, Publishing, NonePrepared, Planned,
             Committed
    <2> QED BY <1>1, <2>1, <2>2
  <1>3. CASE JournalsRecovered
    <2>1. HistoryIsSound' /\ RowsAreSound' /\ JournalsAreSafe'
      BY <1>3 DEF JournalsRecovered, HistoryIsSound, RowsAreSound, JournalsAreSafe
    <2>2. Numbered' /\ RecoveryGoesOn' /\ PlanIsSafe' /\ PublicationGoesOn'
      BY <1>3 DEF JournalsRecovered, Numbered, RecoveryGoesOn, PlanIsSafe,
             PublicationGoesOn, Detecting, Publishing, NonePrepared, Planned,
             Committed
    <2> QED BY <1>1, <2>1, <2>2
  <1>4. CASE AllMarked
    <2>1. HistoryIsSound' /\ RowsAreSound' /\ JournalsAreSafe'
      BY <1>4 DEF AllMarked, HistoryIsSound, RowsAreSound, JournalsAreSafe
    <2>2. Numbered' /\ RecoveryGoesOn' /\ PlanIsSafe' /\ PublicationGoesOn'
      BY <1>4 DEF AllMarked, Numbered, RecoveryGoesOn, PlanIsSafe, PublicationGoesOn,
             Detecting, Publishing, NonePrepared, Planned, Committed
    <2> QED BY <1>1, <2>1, <2>2
  <1>5. CASE RecoveryFails
    <2>1. HistoryIsSound' /\ RowsAreSound' /\ JournalsAreSafe'
      BY <1>5 DEF RecoveryFails, Recovering, HistoryIsSound, RowsAreSound,
             JournalsAreSafe
    <2>2. Numbered' /\ RecoveryGoesOn' /\ PlanIsSafe' /\ PublicationGoesOn'
      BY <1>5 DEF RecoveryFails, Recovering, Numbered, RecoveryGoesOn, PlanIsSafe,
             PublicationGoesOn, Detecting, Publishing, NonePrepared, Planned,
             Committed
    <2> QED BY <1>1, <2>1, <2>2
  <1>6. CASE InputsNotCommitted
    <2>1. HistoryIsSound' /\ RowsAreSound' /\ JournalsAreSafe'
      BY <1>6 DEF InputsNotCommitted, HistoryIsSound, RowsAreSound, JournalsAreSafe
    <2>2. Numbered' /\ RecoveryGoesOn' /\ PlanIsSafe' /\ PublicationGoesOn'
      BY <1>6 DEF InputsNotCommitted, Numbered, RecoveryGoesOn, PlanIsSafe,
             PublicationGoesOn, Detecting, Publishing, NonePrepared, Planned,
             Committed
    <2> QED BY <1>1, <2>1, <2>2
  <1>7. CASE WriteParts
    <2>1. HistoryIsSound' /\ RowsAreSound' /\ JournalsAreSafe'
      BY <1>7 DEF WriteParts, HistoryIsSound, RowsAreSound, JournalsAreSafe
    <2>2. Numbered' /\ RecoveryGoesOn' /\ PlanIsSafe' /\ PublicationGoesOn'
      BY <1>7 DEF WriteParts, Numbered, RecoveryGoesOn, PlanIsSafe, PublicationGoesOn,
             Detecting, Publishing, NonePrepared, Planned, Committed
    <2> QED BY <1>1, <2>1, <2>2
  <1>8. CASE RecordOutcome
    <2>1. HistoryIsSound' /\ RowsAreSound' /\ JournalsAreSafe'
      BY <1>8 DEF RecordOutcome, HistoryIsSound, RowsAreSound, JournalsAreSafe
    <2>2. Numbered' /\ RecoveryGoesOn' /\ PlanIsSafe' /\ PublicationGoesOn'
      BY <1>8 DEF RecordOutcome, Numbered, RecoveryGoesOn, PlanIsSafe,
             PublicationGoesOn, Detecting, Publishing, NonePrepared, Planned,
             Committed
    <2> QED BY <1>1, <2>1, <2>2
  <1>9. CASE RunFails
    <2>1. HistoryIsSound' /\ RowsAreSound' /\ JournalsAreSafe'
      BY <1>9 DEF RunFails, Recovering, HistoryIsSound, RowsAreSound, JournalsAreSafe
    <2>2. Numbered' /\ RecoveryGoesOn' /\ PlanIsSafe' /\ PublicationGoesOn'
      BY <1>9 DEF RunFails, Recovering, Numbered, RecoveryGoesOn, PlanIsSafe,
             PublicationGoesOn, Detecting, Publishing, NonePrepared, Planned,
             Committed
    <2> QED BY <1>1, <2>1, <2>2
  <1>10. CASE KillCycle
    <2>1. HistoryIsSound' /\ RowsAreSound' /\ JournalsAreSafe'
      BY <1>10 DEF KillCycle, HistoryIsSound, RowsAreSound, JournalsAreSafe
    <2>2. Numbered' /\ RecoveryGoesOn' /\ PlanIsSafe' /\ PublicationGoesOn'
      BY <1>10 DEF KillCycle, Numbered, RecoveryGoesOn, PlanIsSafe, PublicationGoesOn,
             Detecting, Publishing, NonePrepared, Planned, Committed
    <2> QED BY <1>1, <2>1, <2>2
  <1> QED BY <1>2, <1>3, <1>4, <1>5, <1>6, <1>7, <1>8, <1>9, <1>10

\* Every step keeps the invariant.
LEMMA NextInv ==
    PublicationInv /\ [PublicationNext]_publicationVars => PublicationInv'
  <1> SUFFICES ASSUME PublicationInv, [PublicationNext]_publicationVars PROVE PublicationInv'
    OBVIOUS
  <1>1. CASE \E t \in Cycles : CycleStep(t)
    BY <1>1, BeginKeepsInv, RecoverTargetKeepsInv, MarkPendingKeepsInv, RecoveryStepKeepsInv
       DEF CycleStep
  <1>2. CASE \/ ReadPending \/ JournalsRecovered \/ AllMarked \/ RecoveryFails
             \/ InputsNotCommitted \/ WriteParts \/ RecordOutcome \/ RunFails \/ KillCycle
    BY <1>2, QuietStepKeepsInv
  <1>3. CASE RestoreHistory \/ ProjectionsRecovered \/ InitializeIndexes
    BY <1>3, RestoreHistoryKeepsInv, ProjectionsRecoveredKeepsInv, InitializeIndexesKeepsInv
  <1>4. CASE SaveDetection \/ CommitInputs \/ PrepareHistory \/ CommitProjection
    BY <1>4, SaveDetectionKeepsInv, CommitInputsKeepsInv, PrepareHistoryKeepsInv,
       CommitProjectionKeepsInv
  <1>5. CASE \/ WriteJournal \/ ReplaceTarget \/ PublishIndexes \/ CommitJournal
             \/ MarkPublished
    BY <1>5, WriteJournalKeepsInv, ReplaceTargetKeepsInv, PublishIndexesKeepsInv,
       CommitJournalKeepsInv, MarkPublishedKeepsInv
  <1>6. CASE UNCHANGED publicationVars
    <2> USE <1>6 DEF PublicationInv, publicationVars, workerVars, databaseVars, publicVars,
                     journalVars, primaryVars
    <2>1. TypeOK' /\ Started'
      BY NextType
    <2>2. Numbered' /\ HistoryIsSound' /\ RowsAreSound' /\ JournalsAreSafe'
      BY DEF Numbered, HistoryIsSound, RowsAreSound, JournalsAreSafe
    <2>3. RecoveryGoesOn'
      BY DEF RecoveryGoesOn, Detecting, NonePrepared, Projection
    <2>4. PlanIsSafe' /\ PublicationGoesOn'
      BY DEF PlanIsSafe, PublicationGoesOn, Publishing, NonePrepared
    <2> QED BY <2>1, <2>2, <2>3, <2>4
  <1> QED BY <1>1, <1>2, <1>3, <1>4, <1>5, <1>6 DEF PublicationNext

\* The inductive invariant holds in every behaviour.
THEOREM PublicationInvariant == PublicationSpec => []PublicationInv
  BY InitInv, NextInv, PTL DEF PublicationSpec

\* Every variable has its type.
THEOREM PublicationTypes == PublicationSpec => []TypeOK
  <1>1. PublicationInv => TypeOK
    BY DEF PublicationInv
  <1> QED BY <1>1, PublicationInvariant, PTL

-----------------------------------------------------------------------------
(***************************************************************************)
(* What the invariant says of the files.                                   *)
(***************************************************************************)

\* The runs a history holds, as the properties name them.
LEMMA HoldsRunsOf ==
    ASSUME NEW h \in Seq(Entry), NEW t, NEW r, Holds(h, t, r)
    PROVE  \E q \in RunsOf(t, h) : q >= r
  <1>1. PICK i \in 1 .. Len(h) : h[i].cycle = t /\ h[i].by.run >= r
    BY DEF Holds
  <1>2. h[i] \in ToSet(h)
    BY LenProperties DEF ToSet
  <1> QED BY <1>1, <1>2 DEF RunsOf

\* A cycle the database counts as published is on disk, in a run as new as the
\* database's, and the history of the cell is in order: a projection that was
\* committed is pending until its files are in place, and a journal that could
\* still overwrite them holds all that is published (_publish_cycle, recover).
THEOREM PublishedStaysOnDisk == PublicationSpec => []PublishedIsOnDisk
  <1>1. PublicationInv => PublishedIsOnDisk
    <2> SUFFICES ASSUME PublicationInv PROVE PublishedIsOnDisk
      OBVIOUS
    <2>1. history \in Seq(Entry) /\ Len(history) \in Nat
      BY Typed, LenProperties DEF PublicationInv
    <2>2. ASSUME NEW t \in Cycles, row[t] = "published"
          PROVE  snapshot[t].run >= obs[t].run /\ \E r \in RunsOf(t, history) : r >= obs[t].run
      BY <2>1, <2>2, HoldsRunsOf DEF PublicationInv, RowsAreSound
    <2>3. ASSUME ~ late, NEW i \in 1 .. Len(history) - 1
          PROVE  history[i].cycle < history[i + 1].cycle
      <3>1. i \in 1 .. Len(history) /\ i + 1 \in 1 .. Len(history) /\ i < i + 1
        BY <2>1
      <3>2. Sorted(history)
        BY <2>3 DEF PublicationInv, HistoryIsSound
      <3> QED BY <3>1, <3>2 DEF Sorted
    <2> QED BY <2>2, <2>3 DEF PublishedIsOnDisk
  <1> QED BY <1>1, PublicationInvariant, PTL

\* A committed observation is what its projection says.
LEMMA FinalIsProjection ==
    ASSUME TypeOK, NEW t \in Cycles, obs[t].stage = "final" PROVE obs[t] = Projection(t)
  <1>1. obs[t] \in Payloads
    BY DEF TypeOK
  <1> QED BY <1>1 DEF Projection, Payload, Payloads

\* What a step lists is whole.
LEMMA ListedWhole ==
    ASSUME PublicationInv, [PublicationNext]_publicationVars, NEW t \in index' \ index
    PROVE  snapshot'[t].stage = "final" /\ Has(history', t, snapshot'[t])
  <1> USE DEF PublicationInv
  <1>1. CASE InitializeIndexes
    <2>1. /\ t \in Cycles /\ row[t] \in {"published", "pending"}
          /\ snapshot' = snapshot /\ history' = history /\ pc = "reindex"
      BY <1>1 DEF InitializeIndexes, IndexProjection
    <2>2. row[t] = "pending" /\ obs[t].stage = "final"
      BY <2>1 DEF RowsAreSound
    <2>3. snapshot[t] = Projection(t) /\ Has(history, t, obs[t])
      BY <2>1, <2>2 DEF RecoveryGoesOn
    <2> QED BY <2>1, <2>2, <2>3, FinalIsProjection
  <1>2. CASE PublishIndexes
    <2>1. /\ t \in IndexProjection({"published"}) \/ t = cycle
          /\ snapshot' = snapshot /\ history' = history /\ pc = "index"
      BY <1>2 DEF PublishIndexes
    <2>2. t = cycle
      BY <2>1 DEF RowsAreSound, IndexProjection
    <2>3. snapshot[t] = Payload(run, "final") /\ history = plan
          /\ Has(plan, cycle, Payload(run, "final"))
      BY <2>1, <2>2 DEF PublicationGoesOn, PlanIsSafe, Planned
    <2> QED BY <2>1, <2>2, <2>3, FinalPayload
  <1>3. CASE ~ InitializeIndexes /\ ~ PublishIndexes
    <2> USE DEF Goto, workerVars, databaseVars, publicVars, journalVars, primaryVars
    <2>1. index' = index
      <3>1. CASE \E s \in Cycles : CycleStep(s)
        BY <3>1 DEF CycleStep, BeginRun, RecoverTarget, Install, JournalRecovered,
                    QuarantineJournal, QuarantineOnError, RestoreSnapshot, MarkPending
      <3>2. CASE UNCHANGED publicationVars
        BY <3>2 DEF publicationVars
      <3>3. CASE ReplaceTarget
        BY <3>3 DEF ReplaceTarget, Install
      <3> QED
        BY <1>3, <3>1, <3>2, <3>3
           DEF PublicationNext, ReadPending, JournalsRecovered, RestoreHistory,
               ProjectionsRecovered, AllMarked, RecoveryFails, SaveDetection, CommitInputs,
               InputsNotCommitted, PrepareHistory, CommitProjection, WriteParts, WriteJournal,
               CommitJournal, MarkPublished, RecordOutcome, RunFails, KillCycle
    <2> QED BY <2>1
  <1> QED BY <1>1, <1>2, <1>3

\* What a step makes public covers what was public.
LEMMA NothingLost ==
    ASSUME PublicationInv, [PublicationNext]_publicationVars
    PROVE  Covers(history', history) /\ routes' >= routes
  <1> USE DEF PublicationInv
  <1>1. history \in Seq(Entry) /\ routes \in Nat /\ run \in Nat
    BY Typed
  <1>2. ASSUME history' = history, routes' = routes
        PROVE  Covers(history', history) /\ routes' >= routes
    <2>1. routes >= routes
      BY <1>1
    <2> QED BY <1>1, <1>2, <2>1, CoversItself
  <1>3. ASSUME NEW t \in Cycles, NEW target, journal[t].state = "prepared",
               parts[t].run = journal[t].run, parts[t].history = journal[t].history,
               Install(target, t, parts[t])
        PROVE  Covers(history', history) /\ routes' >= routes
    <2>1. /\ history' = history \/ history' = journal[t].history
          /\ routes' = routes \/ routes' = journal[t].run
      BY <1>3 DEF Install
    <2>2. /\ Covers(journal[t].history, history)
          /\ routes <= journal[t].run /\ journal[t].run \in Nat
      BY <1>3, Typed DEF JournalsAreSafe
    <2>3. Covers(history, history) /\ routes' >= routes
      BY <1>1, <2>1, <2>2, CoversItself
    <2> QED BY <2>1, <2>2, <2>3
  <1>4. CASE \E t \in Cycles : RecoverTarget(t)
    <2>1. PICK t \in Cycles, target \in ToSet(Targets) :
            NextTarget(target, t) /\ PartIsGood(target, t) /\ Install(target, t, parts[t])
      BY <1>4 DEF RecoverTarget
    <2> QED BY <1>3, <2>1 DEF NextTarget, PartIsGood
  <1>5. CASE ReplaceTarget
    <2>1. pc = "replace" /\ \E i \in DOMAIN Targets : Install(Targets[i], cycle, parts[cycle])
      BY <1>5 DEF ReplaceTarget
    <2> QED BY <1>3, <2>1 DEF Started, PublicationGoesOn
  <1>6. CASE RestoreHistory
    <2>1. history' = LegacyHistory /\ routes' = routes
      BY <1>6 DEF RestoreHistory
    <2>2. Covers(LegacyHistory, history)
      <3>1. \A t \in Cycles : obs[t] # Nothing => Holds(LegacyHistory, t, obs[t].run)
        BY LegacyFacts, HasHolds
      <3> QED BY <1>1, <3>1, LegacyFacts, CoversBehind DEF TypeOK, HistoryIsSound
    <2> QED BY <1>1, <2>1, <2>2
  <1>7. CASE ~ RestoreHistory /\ ~ ReplaceTarget /\ ~ \E t \in Cycles : RecoverTarget(t)
    <2> USE DEF Goto, workerVars, databaseVars, publicVars, journalVars, primaryVars
    <2>1. history' = history /\ routes' = routes
      <3>1. CASE \E s \in Cycles : CycleStep(s)
        BY <1>7, <3>1 DEF CycleStep, BeginRun, JournalRecovered,
                    QuarantineJournal, QuarantineOnError, RestoreSnapshot, MarkPending
      <3>2. CASE UNCHANGED publicationVars
        BY <3>2 DEF publicationVars
      <3> QED
        BY <1>7, <3>1, <3>2
           DEF PublicationNext, ReadPending, JournalsRecovered, ProjectionsRecovered,
               InitializeIndexes, AllMarked, RecoveryFails, SaveDetection, CommitInputs,
               InputsNotCommitted, PrepareHistory, CommitProjection, WriteParts, WriteJournal,
               PublishIndexes, CommitJournal, MarkPublished, RecordOutcome, RunFails, KillCycle
    <2> QED BY <1>2, <2>1
  <1> QED BY <1>4, <1>5, <1>6, <1>7

\* The public files only move forward: what becomes discoverable is whole, and
\* no recovery brings back an older publication (recover, publish_indexes,
\* initialize_indexes).
THEOREM PublicFilesMoveForward == PublicationSpec => PublicMovesForward
  <1> DEFINE Listed == \A t \in index' \ index :
                         /\ snapshot'[t].stage = "final"
                         /\ \E i \in DOMAIN history' :
                               history'[i] = [cycle |-> t, by |-> snapshot'[t]]
             Kept == /\ \A i \in DOMAIN history :
                          \E r \in RunsOf(history[i].cycle, history') :
                             r >= history[i].by.run
                     /\ routes' >= routes
  <1>1. PublicationInv /\ PublicationInv' /\ [PublicationNext]_publicationVars => Listed
    <2> SUFFICES ASSUME PublicationInv, PublicationInv', [PublicationNext]_publicationVars,
                        NEW t \in index' \ index
                 PROVE  /\ snapshot'[t].stage = "final"
                        /\ \E i \in DOMAIN history' :
                              history'[i] = [cycle |-> t, by |-> snapshot'[t]]
      OBVIOUS
    <2>1. snapshot'[t].stage = "final" /\ Has(history', t, snapshot'[t])
      BY ListedWhole
    <2>2. history' \in Seq(Entry)
      BY DEF PublicationInv, TypeOK, Histories, Entry
    <2>3. DOMAIN history' = 1 .. Len(history')
      BY <2>2, LenProperties
    <2> QED BY <2>1, <2>3 DEF Has
  <1>2. PublicationInv /\ PublicationInv' /\ [PublicationNext]_publicationVars => Kept
    <2> SUFFICES ASSUME PublicationInv, PublicationInv', [PublicationNext]_publicationVars
                 PROVE  Kept
      OBVIOUS
    <2>1. Covers(history', history) /\ routes' >= routes
      BY NothingLost
    <2>2. history \in Seq(Entry) /\ history' \in Seq(Entry)
      BY DEF PublicationInv, TypeOK, Histories, Entry
    <2>3. DOMAIN history = 1 .. Len(history)
      BY <2>2, LenProperties
    <2>4. ASSUME NEW i \in 1 .. Len(history)
          PROVE  \E r \in RunsOf(history[i].cycle, history') : r >= history[i].by.run
      BY <2>1, <2>2, HoldsRunsOf DEF Covers
    <2> QED BY <2>1, <2>3, <2>4
  <1> HIDE DEF Listed, Kept
  <1>3. PublicationSpec => [][Listed]_publicationVars
    BY <1>1, PublicationInvariant, PTL DEF PublicationSpec
  <1>4. PublicationSpec => [][Kept]_publicationVars
    BY <1>2, PublicationInvariant, PTL DEF PublicationSpec
  <1>5. PublicationSpec => NewlyListedIsWhole
    BY <1>3 DEF NewlyListedIsWhole, Listed
  <1>6. PublicationSpec => NothingRollsBack
    BY <1>4 DEF NothingRollsBack, Kept
  <1> QED BY <1>5, <1>6 DEF PublicMovesForward

\* A recovery that meets no error leaves nothing half done
\* (_recover_committed_projections, recover).
THEOREM RecoveryCompletes == PublicationSpec => RecoveryIsComplete
  <1> DEFINE Complete == Recovering /\ pc' = "detect" /\ faults' = faults =>
               \A t \in Cycles :
                  /\ journal[t].state # "prepared" /\ row[t] # "pending"
                  /\ restored /\ row[t] = "published" => t \in index
  <1>1. PublicationInv /\ [PublicationNext]_publicationVars => Complete
    <2> SUFFICES ASSUME PublicationInv, [PublicationNext]_publicationVars,
                        Recovering, pc' = "detect", faults' = faults, NEW t \in Cycles
                 PROVE  /\ journal[t].state # "prepared" /\ row[t] # "pending"
                        /\ row[t] = "published" => t \in index
      OBVIOUS
    <2>1. pc # "detect"
      BY DEF Recovering
    <2>2. pc \in {"restore", "mark"} /\ pending = {}
      <3> USE DEF Goto
      <3>1. CASE \E s \in Cycles : CycleStep(s)
        BY <2>1, <3>1 DEF CycleStep, BeginRun, RecoverTarget, JournalRecovered,
                    QuarantineJournal, QuarantineOnError, RestoreSnapshot, MarkPending, workerVars
      <3>2. CASE UNCHANGED publicationVars
        BY <2>1, <3>2 DEF publicationVars, workerVars
      <3>3. CASE RecoveryFails
        <4>1. faults' = faults + 1 /\ faults \in Nat
          BY <3>3, PublicationConstants DEF RecoveryFails, PublicationInv, TypeOK
        <4> QED BY <4>1
      <3>4. CASE RestoreHistory \/ ReplaceTarget
        BY <2>1, <3>4 DEF RestoreHistory, ReplaceTarget
      <3> QED
        BY <3>1, <3>2, <3>3, <3>4
           DEF PublicationNext, ReadPending, JournalsRecovered, ProjectionsRecovered,
               InitializeIndexes, AllMarked, SaveDetection, CommitInputs,
               InputsNotCommitted, PrepareHistory, CommitProjection, WriteParts, WriteJournal,
               PublishIndexes, CommitJournal, MarkPublished, RecordOutcome, RunFails, KillCycle,
               Recovering
    <2>3. NonePrepared /\ pending = {s \in Cycles : row[s] = "pending"}
      BY <2>2 DEF PublicationInv, RecoveryGoesOn
    <2> QED BY <2>2, <2>3 DEF NonePrepared, PublicationInv, RowsAreSound
  <1> HIDE DEF Complete
  <1>2. PublicationSpec => [][Complete]_publicationVars
    BY <1>1, PublicationInvariant, PTL DEF PublicationSpec
  <1> QED BY <1>2 DEF RecoveryIsComplete, Complete

-----------------------------------------------------------------------------
(***************************************************************************)
(* One service and one cycle worker at a time, for any number of           *)
(* incarnations and any sequence of starts, stops and kills; and a gate    *)
(* that serves requests only while the service was serving of late.        *)
(***************************************************************************)
\* Whoever works holds the flock, itself or through a forked child, and a
\* worker belongs to a serving or a killed incarnation: the shutdown path
\* releases the lock only after the worker was reaped.
WorkHoldsLock ==
    \A r \in Runs :
        /\ Alive(r) \/ worker[r] => lock = r
        /\ worker[r] => main[r] \in {"serving", "crashed"}

OwnershipInv == OwnershipTypeOK /\ WorkHoldsLock

-----------------------------------------------------------------------------
LEMMA OlderInRange ==
    ASSUME NEW age \in 0 .. MaxAge
    PROVE  Older(age) \in 0 .. MaxAge
  BY OwnershipConstants DEF Older

LEMMA InitOwnershipInv == OwnershipInit => OwnershipInv
  BY OwnershipConstants, SMT
  DEF OwnershipInit, OwnershipInv, OwnershipTypeOK, WorkHoldsLock, Alive, Owning,
      NoBeat, Free, Runs

\* The clock changes ages only.
LEMMA AgeKeepsOwnership == OwnershipInv /\ AgeAll => OwnershipInv'
  <1> SUFFICES ASSUME OwnershipInv, AgeAll PROVE OwnershipInv'
    OBVIOUS
  <1> USE DEF OwnershipInv
  <1>1. stamp' \in [Runs -> 0 .. MaxAge]
    BY OlderInRange DEF AgeAll, OwnershipTypeOK
  <1>2. waited' \in [Runs -> 0 .. JoinTimeout]
    BY OwnershipConstants DEF AgeAll, OwnershipTypeOK
  <1>3. heartbeat' \in [run : Runs \cup {Free}, age : 0 .. MaxAge]
    BY OlderInRange DEF AgeAll, OwnershipTypeOK, NoBeat
  <1>4. idle' \in 0 .. MaxAge
    BY OlderInRange, OwnershipConstants DEF AgeAll, OwnershipTypeOK
  <1>5. OwnershipTypeOK'
    BY <1>1, <1>2, <1>3, <1>4 DEF AgeAll, OwnershipTypeOK
  <1>6. WorkHoldsLock'
    BY DEF AgeAll, WorkHoldsLock, Alive
  <1> QED
    BY <1>5, <1>6

\* The steps of one incarnation keep the types.
LEMMA RunType ==
    ASSUME OwnershipInv, NEW r \in Runs, RunStep(r)
    PROVE  OwnershipTypeOK'
  <1> USE OwnershipConstants DEF OwnershipInv, OwnershipTypeOK, Owning, Free
  <1>1. CASE Acquire(r) \/ Refuse(r)
    BY <1>1 DEF Acquire, Refuse
  <1>2. CASE StartServer(r) \/ StartWorker(r)
    BY <1>2 DEF StartServer, StartWorker
  <1>3. CASE WorkerEnds(r)
    BY <1>3 DEF WorkerEnds, FreeIfLastOf
  <1>4. CASE Stop(r) \/ Join(r) \/ Release(r)
    BY <1>4 DEF Stop, Join, Release
  <1>5. CASE RemoveHeartbeat(r)
    BY <1>5 DEF RemoveHeartbeat, NoBeat
  <1>6. CASE Kill(r)
    BY <1>6 DEF Kill, FreeIfLastOf
  <1>7. CASE KillServer(r)
    BY <1>7 DEF KillServer, FreeIfLastOf
  <1>8. CASE Stamp(r) \/ Publish(r)
    BY <1>8 DEF Stamp, Publish
  <1>9. CASE PublishFails(r) \/ LeaveLoop(r)
    BY <1>9 DEF PublishFails, LeaveLoop
  <1> QED
    BY <1>1, <1>2, <1>3, <1>4, <1>5, <1>6, <1>7, <1>8, <1>9 DEF RunStep

\* The steps of one incarnation keep the lock with whoever works.
LEMMA RunLock ==
    ASSUME OwnershipInv, NEW r \in Runs, RunStep(r)
    PROVE  WorkHoldsLock'
  <1> USE DEF OwnershipInv, OwnershipTypeOK, WorkHoldsLock, Alive, Owning, Free, Runs
  <1>1. CASE Acquire(r)
    \* The lock is free, so nobody works yet.
    <2>1. \A q \in Runs : main[q] \notin Owning /\ ~worker[q]
      BY <1>1 DEF Acquire
    <2> QED
      BY <1>1, <2>1 DEF Acquire
  <1>2. CASE Refuse(r)
    BY <1>2 DEF Refuse, MayStart
  <1>3. CASE StartServer(r)
    BY <1>3 DEF StartServer
  <1>4. CASE StartWorker(r)
    BY <1>4 DEF StartWorker
  <1>5. CASE WorkerEnds(r)
    \* Nobody but r works while r's worker does, and r keeps the lock if its
    \* main thread lives.
    <2>1. \A q \in Runs \ {r} : main[q] \notin Owning /\ ~worker[q]
      BY <1>5 DEF WorkerEnds
    <2>2. main[r] \in Owning => lock' = r
      BY <1>5 DEF WorkerEnds, FreeIfLastOf
    <2> QED
      BY <1>5, <2>1, <2>2 DEF WorkerEnds
  <1>6. CASE Stop(r)
    BY <1>6 DEF Stop
  <1>7. CASE Join(r)
    BY <1>7 DEF Join
  <1>8. CASE RemoveHeartbeat(r)
    BY <1>8 DEF RemoveHeartbeat
  <1>9. CASE Release(r)
    \* r holds the lock and its worker is gone: after the release nobody works.
    <2>1. lock = r /\ ~worker[r]
      BY <1>9 DEF Release
    <2>2. \A q \in Runs \ {r} : main[q] \notin Owning /\ ~worker[q]
      BY <2>1
    <2> QED
      BY <1>9, <2>1, <2>2 DEF Release
  <1>10. CASE Kill(r)
    <2>1. CASE main[r] \in Owning
      <3>1. \A q \in Runs \ {r} : main[q] \notin Owning /\ ~worker[q]
        BY <2>1
      <3>2. worker[r] => lock' = r
        BY <1>10, <2>1 DEF Kill, FreeIfLastOf
      <3> QED
        BY <1>10, <3>1, <3>2 DEF Kill
    <2>2. CASE main[r] = "exited"
      <3>1. ~worker[r]
        BY <2>2
      <3>2. \A q \in Runs : main[q] \in Owning \/ worker[q] => lock' = lock
        BY <1>10, <2>2, <3>1 DEF Kill, FreeIfLastOf
      <3> QED
        BY <1>10, <2>2, <3>1, <3>2 DEF Kill
    <2> QED
      BY <1>10, <2>1, <2>2 DEF Kill
  <1>11. CASE KillServer(r)
    <2>1. \A q \in Runs : main[q] \in Owning \/ worker[q] => lock' = lock
      BY <1>11 DEF KillServer, FreeIfLastOf
    <2> QED
      BY <1>11, <2>1 DEF KillServer
  <1>12. CASE Stamp(r) \/ Publish(r) \/ PublishFails(r) \/ LeaveLoop(r)
    BY <1>12 DEF Stamp, Publish, PublishFails, LeaveLoop
  <1> QED
    BY <1>1, <1>2, <1>3, <1>4, <1>5, <1>6, <1>7, <1>8, <1>9, <1>10, <1>11,
       <1>12 DEF RunStep

LEMMA OwnershipHolds == OwnershipSpec => []OwnershipInv
  <1>1. OwnershipInv /\ [OwnershipNext]_ownershipVars => OwnershipInv'
    <2> SUFFICES ASSUME OwnershipInv, [OwnershipNext]_ownershipVars PROVE OwnershipInv'
      OBVIOUS
    <2>1. CASE AgeAll
      BY <2>1, AgeKeepsOwnership
    <2>2. CASE \E r \in Runs : RunStep(r)
      BY <2>2, RunType, RunLock DEF OwnershipInv
    <2>3. CASE UNCHANGED ownershipVars
      BY <2>3 DEF OwnershipInv, OwnershipTypeOK, WorkHoldsLock, Alive, ownershipVars
    <2> QED
      BY <2>1, <2>2, <2>3 DEF OwnershipNext
  <1> QED
    BY <1>1, InitOwnershipInv, PTL DEF OwnershipSpec

-----------------------------------------------------------------------------
\* Every variable keeps its type.
THEOREM OwnershipTyped == OwnershipSpec => []OwnershipTypeOK
  <1>1. OwnershipInv => OwnershipTypeOK
    BY DEF OwnershipInv
  <1> QED
    BY <1>1, OwnershipHolds, PTL

\* Two incarnations never own the service together, and the worker orphaned
\* by a killed primary never runs beside a worker of its successor
\* (handoff.py ServiceLock, run_edgewarn.py main).
THEOREM OneCycle == OwnershipSpec => []OneCycleAtATime
  <1>1. OwnershipInv => OneCycleAtATime
    BY DEF OwnershipInv, WorkHoldsLock, OneCycleAtATime
  <1> QED
    BY <1>1, OwnershipHolds, PTL

\* The heartbeat removed at shutdown is never that of a serving successor:
\* the lock is still held at that time (run_edgewarn.py main, finally).
THEOREM SuccessorKept == OwnershipSpec => NoSuccessorUnlinked
  <1> DEFINE A == heartbeat # NoBeat /\ heartbeat' = NoBeat
                  => \A r \in Runs : main[r] # "serving"
  <1>1. ASSUME OwnershipInv, [OwnershipNext]_ownershipVars,
               heartbeat # NoBeat, heartbeat' = NoBeat, NEW s \in Runs
        PROVE  main[s] # "serving"
    <2>1. CASE AgeAll
      \* Ageing never makes a heartbeat the empty one.
      <3>1. heartbeat'.age = Older(heartbeat.age)
        BY <1>1, <2>1 DEF AgeAll, OwnershipInv, OwnershipTypeOK
      <3>2. Older(heartbeat.age) # 0
        BY <1>1, OwnershipConstants DEF Older, OwnershipInv, OwnershipTypeOK
      <3> QED
        BY <1>1, <3>1, <3>2 DEF NoBeat
    <2>2. ASSUME NEW r \in Runs, RunStep(r) PROVE main[s] # "serving"
      <3>1. heartbeat' = heartbeat \/ RemoveHeartbeat(r) \/ Publish(r)
        BY <2>2 DEF RunStep, Acquire, Refuse, StartServer, StartWorker,
             WorkerEnds, Stop, Join, Release, Kill, KillServer, Stamp,
             PublishFails, LeaveLoop
      <3>2. ~Publish(r)
        BY <1>1, OwnershipConstants DEF Publish, NoBeat, Free, Runs
      <3>3. RemoveHeartbeat(r)
        BY <1>1, <3>1, <3>2
      <3> QED
        BY <1>1, <3>3
        DEF RemoveHeartbeat, OwnershipInv, WorkHoldsLock, Alive, Owning
    <2>3. CASE UNCHANGED ownershipVars
      BY <1>1, <2>3 DEF ownershipVars
    <2> QED
      BY <1>1, <2>1, <2>2, <2>3 DEF OwnershipNext
  <1>2. OwnershipInv /\ [OwnershipNext]_ownershipVars => [A]_ownershipVars
    BY <1>1
  <1> HIDE DEF A
  <1>3. OwnershipSpec => [][A]_ownershipVars
    BY <1>2, OwnershipHolds, PTL DEF OwnershipSpec
  <1> QED
    BY <1>3 DEF A, NoSuccessorUnlinked

-----------------------------------------------------------------------------
(***************************************************************************)
(* The gate (ServiceGate): no copy of the heartbeat makes the service look *)
(* alive for longer than it was.                                           *)
(***************************************************************************)
GateTypeOK ==
    /\ since \in [Requests -> Nat]
    /\ request \in [Requests -> {"idle", "reading", "read", "served", "refused"}]
    /\ seen \in [Requests -> {"disabled", "stale", "active"}]
    /\ cache \in [held: BOOLEAN, state: {"disabled", "stale", "active"}, age: Nat]

\* Wherever a sign of life is on its way, from the stamp of a thread to the answer of the
\* API, the service was serving when the sign was as young as it claims to be.
SignsAreTrue ==
    /\ (\E r \in Runs : main[r] = "serving") => idle = 0
    /\ \A r \in Runs : thread[r] = "stamped" => idle <= stamp[r]
    /\ heartbeat # NoBeat => idle <= heartbeat.age
    /\ \A q \in Requests :
        request[q] = "read" /\ seen[q] = "active" => idle <= StaleAfter + since[q]
    /\ CacheUsable /\ cache.state = "active" => idle <= StaleAfter + cache.age

GateInv == OwnershipInv /\ GateTypeOK /\ SignsAreTrue

\* The service and the gate are the service, to which requests are invisible.
THEOREM ServiceIsOwnership == ServiceSpec => OwnershipSpec
  <1>1. ServiceInit => OwnershipInit
    BY DEF ServiceInit
  <1>2. [ServiceNext]_serviceVars => [OwnershipNext]_ownershipVars
    BY DEF ServiceNext, OwnershipNext, RequestStep, AnswerFromCache, StartRead, ReadBeat,
       AnswerFromRead, NextRequest, serviceVars
  <1> QED
    BY <1>1, <1>2, PTL DEF ServiceSpec, OwnershipSpec

\* Ages that are compared grow together.
LEMMA OlderKeepsOrder ==
  ASSUME NEW a \in 0..MaxAge, NEW b \in 0..MaxAge, a <= b
  PROVE  Older(a) <= Older(b) /\ Older(a) <= a + 1 /\ Older(a) \in Nat
  BY OwnershipConstants DEF Older

\* One tick: every sign of life is a tick older, and so is the last one there was.
LEMMA TickKeepsSigns == ASSUME GateInv, AgeAll, GateAges PROVE GateInv'
  <1>1. OwnershipTypeOK /\ GateTypeOK /\ SignsAreTrue /\ OwnershipInv'
    BY AgeKeepsOwnership DEF GateInv, OwnershipInv
  <1>2. /\ UNCHANGED <<main, thread, request, seen>> /\ idle \in 0..MaxAge
        /\ idle' = IF \E r \in Runs : main[r] = "serving" THEN 0 ELSE Older(idle)
        /\ since' = [q \in Requests |-> IF Reading(q) THEN since[q] + 1 ELSE since[q]]
        /\ cache' = IF cache.held /\ cache.age < CacheTtl THEN [cache EXCEPT !.age = @ + 1] ELSE cache
    BY <1>1 DEF AgeAll, GateAges, OwnershipTypeOK
  <1>3. idle' <= Older(idle) /\ idle' <= idle + 1 /\ idle' \in Nat
    BY <1>2, OlderKeepsOrder, OwnershipConstants DEF Older
  <1>4. GateTypeOK'
    <2>1. since' \in [Requests -> Nat]
      BY <1>1, <1>2 DEF GateTypeOK
    <2>2. cache' \in [held: BOOLEAN, state: {"disabled", "stale", "active"}, age: Nat]
      BY <1>1, <1>2 DEF GateTypeOK
    <2> QED
      BY <1>1, <1>2, <2>1, <2>2 DEF GateTypeOK
  <1>5. ASSUME NEW r \in Runs, thread[r] = "stamped" PROVE idle' <= stamp'[r]
    <2>1. stamp'[r] = Older(stamp[r]) /\ stamp[r] \in 0..MaxAge /\ idle <= stamp[r]
      BY <1>1, <1>5 DEF AgeAll, OwnershipTypeOK, SignsAreTrue
    <2>2. Older(idle) <= stamp'[r] /\ Older(idle) \in Nat /\ stamp'[r] \in Nat
      BY <1>2, <2>1, OlderKeepsOrder
    <2> QED
      BY <1>3, <2>2
  <1>6. ASSUME heartbeat' # NoBeat PROVE idle' <= heartbeat'.age
    <2>1. /\ heartbeat # NoBeat /\ heartbeat.age \in 0..MaxAge
          /\ heartbeat'.age = Older(heartbeat.age)
      BY <1>1, <1>6 DEF AgeAll, OwnershipTypeOK
    <2>2. idle <= heartbeat.age
      BY <1>1, <2>1 DEF SignsAreTrue
    <2>3. Older(idle) <= heartbeat'.age /\ Older(idle) \in Nat /\ heartbeat'.age \in Nat
      BY <1>2, <2>1, <2>2, OlderKeepsOrder
    <2> QED
      BY <1>3, <2>3
  <1>7. ASSUME NEW q \in Requests, request[q] = "read", seen[q] = "active"
        PROVE  idle' <= StaleAfter + since'[q]
    <2>1. since'[q] = since[q] + 1 /\ since[q] \in Nat /\ idle <= StaleAfter + since[q]
      BY <1>1, <1>2, <1>7 DEF Reading, GateTypeOK, SignsAreTrue
    <2> QED
      BY <1>2, <1>3, <2>1, GateConstants
  <1>8. ASSUME CacheUsable', cache'.state = "active" PROVE idle' <= StaleAfter + cache'.age
    <2>1. cache.age \in Nat /\ CacheTtl \in Nat /\ StaleAfter \in Nat
      BY <1>1, GateConstants DEF GateTypeOK
    <2>2. CacheUsable
      BY <1>2, <1>8, <2>1 DEF CacheUsable
    <2>3. cache' = [cache EXCEPT !.age = @ + 1]
      BY <1>2, <2>2 DEF CacheUsable
    <2>4. cache'.age = cache.age + 1 /\ cache'.state = cache.state
      BY <1>1, <2>3 DEF GateTypeOK
    <2>5. idle <= StaleAfter + cache.age
      BY <1>1, <1>8, <2>2, <2>4 DEF SignsAreTrue
    <2> QED
      BY <1>2, <1>3, <2>1, <2>4, <2>5
  <1>9. (\E r \in Runs : main'[r] = "serving") => idle' = 0
    BY <1>2
  <1> QED
    BY <1>1, <1>2, <1>4, <1>5, <1>6, <1>7, <1>8, <1>9 DEF GateInv, SignsAreTrue

\* A step of the service: it is recent while it serves, and signs are made only then.
LEMMA RunKeepsSigns == ASSUME GateInv, NEW r \in Runs, RunStep(r), UNCHANGED gateVars PROVE GateInv'
  <1>1. OwnershipTypeOK /\ GateTypeOK /\ SignsAreTrue /\ OwnershipInv'
    BY RunType, RunLock DEF GateInv, OwnershipInv
  <1>2. UNCHANGED <<request, since, seen, cache>>
    BY DEF gateVars
  <1>3. GateTypeOK'
    BY <1>1, <1>2 DEF GateTypeOK
  <1>4. /\ idle' \in {idle, 0} /\ idle \in Nat /\ idle' <= idle
    <2>1. idle' = idle \/ idle' = 0
      BY DEF RunStep, Acquire, Refuse, StartServer, StartWorker, WorkerEnds, Stop, Join,
         RemoveHeartbeat, Release, Kill, KillServer, Stamp, Publish, PublishFails, LeaveLoop
    <2>2. idle \in Nat
      BY <1>1 DEF OwnershipTypeOK
    <2> QED
      BY <2>1, <2>2
  <1>5. (\E q \in Runs : main'[q] = "serving") => idle' = 0
    <2>1. CASE Acquire(r)
      BY <2>1 DEF Acquire
    <2>2. CASE ~Acquire(r)
      <3>1. \A q \in Runs : main'[q] = "serving" => main[q] = "serving"
        BY <1>1, <2>2 DEF RunStep, Refuse, StartServer, StartWorker, WorkerEnds, Stop, Join,
           RemoveHeartbeat, Release, Kill, KillServer, Stamp, Publish, PublishFails,
           LeaveLoop, OwnershipTypeOK
      <3> QED
        BY <1>1, <1>4, <3>1 DEF SignsAreTrue
    <2> QED
      BY <2>1, <2>2
  <1>6. ASSUME NEW q \in Runs, thread'[q] = "stamped" PROVE idle' <= stamp'[q]
    <2>1. CASE Stamp(r) /\ q = r
      <3>1. stamp'[r] = 0 /\ idle' = 0
        BY <1>1, <2>1 DEF Stamp, Stopped, OwnershipTypeOK, SignsAreTrue
      <3> QED
        BY <2>1, <3>1
    <2>2. CASE ~(Stamp(r) /\ q = r)
      <3>1. thread[q] = "stamped" /\ stamp'[q] = stamp[q]
        BY <1>1, <1>6, <2>2 DEF RunStep, Acquire, Refuse, StartServer, StartWorker, WorkerEnds,
           Stop, Join, RemoveHeartbeat, Release, Kill, KillServer, Stamp, Publish,
           PublishFails, LeaveLoop, OwnershipTypeOK
      <3>2. idle <= stamp[q] /\ stamp[q] \in Nat
        BY <1>1, <3>1 DEF SignsAreTrue, OwnershipTypeOK
      <3> QED
        BY <1>4, <3>1, <3>2
    <2> QED
      BY <2>1, <2>2
  <1>7. ASSUME heartbeat' # NoBeat PROVE idle' <= heartbeat'.age
    <2>1. CASE Publish(r)
      <3>1. heartbeat'.age = stamp[r] /\ idle <= stamp[r] /\ stamp[r] \in Nat
        BY <1>1, <2>1 DEF Publish, SignsAreTrue, OwnershipTypeOK
      <3> QED
        BY <1>4, <3>1
    <2>2. CASE ~Publish(r)
      <3>1. heartbeat' = heartbeat
        BY <1>7, <2>2 DEF RunStep, Acquire, Refuse, StartServer, StartWorker, WorkerEnds,
           Stop, Join, RemoveHeartbeat, Release, Kill, KillServer, Stamp, PublishFails,
           LeaveLoop
      <3>2. idle <= heartbeat.age /\ heartbeat.age \in Nat
        BY <1>1, <1>7, <3>1 DEF SignsAreTrue, OwnershipTypeOK
      <3> QED
        BY <1>4, <3>1, <3>2
    <2> QED
      BY <2>1, <2>2
  <1>8. ASSUME NEW q \in Requests, request'[q] = "read", seen'[q] = "active"
        PROVE  idle' <= StaleAfter + since'[q]
    <2>1. idle <= StaleAfter + since[q] /\ since[q] \in Nat
      BY <1>1, <1>2, <1>8 DEF SignsAreTrue, GateTypeOK
    <2> QED
      BY <1>2, <1>4, <2>1, GateConstants
  <1>9. ASSUME CacheUsable', cache'.state = "active" PROVE idle' <= StaleAfter + cache'.age
    <2>1. idle <= StaleAfter + cache.age /\ cache.age \in Nat
      BY <1>1, <1>2, <1>9 DEF SignsAreTrue, GateTypeOK, CacheUsable
    <2> QED
      BY <1>2, <1>4, <2>1, GateConstants
  <1> QED
    BY <1>1, <1>3, <1>5, <1>6, <1>7, <1>8, <1>9 DEF GateInv, SignsAreTrue

\* A step of a request: what it reads is as old as its own clock takes it to be.
LEMMA RequestKeepsSigns == ASSUME GateInv, NEW q \in Requests, RequestStep(q) PROVE GateInv'
  <1>1. OwnershipTypeOK /\ GateTypeOK /\ SignsAreTrue /\ OwnershipInv
    BY DEF GateInv, OwnershipInv
  <1>2. UNCHANGED ownershipVars
    BY DEF RequestStep, AnswerFromCache, StartRead, ReadBeat, AnswerFromRead, NextRequest
  <1>3. UNCHANGED <<main, thread, stamp, waited, server, worker, lock, heartbeat, idle>>
    BY <1>2 DEF ownershipVars
  <1>4. OwnershipInv'
    BY <1>1, <1>3 DEF OwnershipInv, OwnershipTypeOK, WorkHoldsLock, Alive
  <1>5. idle \in Nat /\ StaleAfter \in Nat /\ CacheTtl \in Nat
    BY <1>1, GateConstants DEF OwnershipTypeOK
  <1>6. (/\ (\E r \in Runs : main[r] = "serving") => idle = 0
         /\ \A r \in Runs : thread[r] = "stamped" => idle <= stamp[r]
         /\ heartbeat # NoBeat => idle <= heartbeat.age)'
    BY <1>1, <1>3 DEF SignsAreTrue
  <1> DEFINE ReadsAreTrue ==
               \A p \in Requests :
                 request[p] = "read" /\ seen[p] = "active" => idle <= StaleAfter + since[p]
             CacheIsTrue == CacheUsable /\ cache.state = "active" => idle <= StaleAfter + cache.age
  <1>7. GateTypeOK' /\ ReadsAreTrue' /\ CacheIsTrue'
    <2>1. CASE AnswerFromCache(q)
      <3>1. /\ request' = [request EXCEPT ![q] = Verdict(cache.state)]
            /\ UNCHANGED <<since, seen, cache>>
        BY <2>1 DEF AnswerFromCache
      <3>2. GateTypeOK'
        BY <1>1, <3>1 DEF GateTypeOK, Verdict
      <3>3. \A p \in Requests : request'[p] = "read" => request[p] = "read"
        BY <1>1, <3>1 DEF GateTypeOK, Verdict
      <3> QED
        BY <1>1, <1>3, <3>1, <3>2, <3>3 DEF SignsAreTrue, CacheUsable
    <2>2. CASE StartRead(q)
      <3>1. /\ request' = [request EXCEPT ![q] = "reading"] /\ since' = [since EXCEPT ![q] = 0]
            /\ UNCHANGED <<seen, cache>>
        BY <2>2 DEF StartRead
      <3>2. GateTypeOK'
        BY <1>1, <3>1 DEF GateTypeOK
      <3>3. \A p \in Requests : request'[p] = "read" => request[p] = "read" /\ since'[p] = since[p]
        BY <1>1, <3>1 DEF GateTypeOK
      <3> QED
        BY <1>1, <1>3, <3>1, <3>2, <3>3 DEF SignsAreTrue, CacheUsable
    <2>3. CASE ReadBeat(q)
      <3>1. /\ request' = [request EXCEPT ![q] = "read"]
            /\ seen' = [seen EXCEPT ![q] = Classify(heartbeat, since[q])]
            /\ UNCHANGED <<since, cache>>
        BY <2>3 DEF ReadBeat
      <3>2. GateTypeOK'
        BY <1>1, <3>1 DEF GateTypeOK, Classify
      <3>3. ASSUME Classify(heartbeat, since[q]) = "active" PROVE idle <= StaleAfter + since[q]
        <4>1. /\ heartbeat # NoBeat /\ ~(heartbeat.age > StaleAfter + since[q])
              /\ since[q] \in Nat /\ heartbeat.age \in Nat
          BY <1>1, <3>3 DEF Classify, GateTypeOK, OwnershipTypeOK
        <4>2. idle <= heartbeat.age
          BY <1>1, <4>1 DEF SignsAreTrue
        <4> QED
          BY <1>5, <4>1, <4>2
      <3>4. ReadsAreTrue'
        <4> SUFFICES ASSUME NEW p \in Requests, request'[p] = "read", seen'[p] = "active"
                     PROVE  idle <= StaleAfter + since[p]
          BY <1>3, <3>1
        <4>1. CASE p = q
          BY <1>1, <3>1, <3>3, <4>1 DEF GateTypeOK
        <4>2. CASE p # q
          BY <1>1, <3>1, <4>2 DEF GateTypeOK, SignsAreTrue
        <4> QED
          BY <4>1, <4>2
      <3> QED
        BY <1>1, <1>3, <3>1, <3>2, <3>4 DEF SignsAreTrue, CacheUsable
    <2>4. CASE AnswerFromRead(q)
      <3>1. /\ cache' = CacheEntry(q) /\ request[q] = "read"
            /\ request' = [request EXCEPT ![q] = Verdict(seen[q])]
            /\ UNCHANGED <<since, seen>>
        BY <2>4 DEF AnswerFromRead
      <3>2. GateTypeOK'
        BY <1>1, <3>1 DEF GateTypeOK, Verdict, CacheEntry
      <3>3. \A p \in Requests : request'[p] = "read" => request[p] = "read"
        BY <1>1, <3>1 DEF GateTypeOK, Verdict
      <3>4. cache'.state = "active" => idle <= StaleAfter + cache'.age
        BY <1>1, <3>1 DEF CacheEntry, SignsAreTrue
      <3> QED
        BY <1>1, <1>3, <3>1, <3>2, <3>3, <3>4 DEF SignsAreTrue
    <2>5. CASE NextRequest(q)
      <3>1. /\ request' = [request EXCEPT ![q] = "idle"] /\ since' = [since EXCEPT ![q] = 0]
            /\ seen' = [seen EXCEPT ![q] = "disabled"] /\ cache' = cache
        BY <2>5 DEF NextRequest
      <3>2. GateTypeOK'
        BY <1>1, <3>1 DEF GateTypeOK
      <3>3. \A p \in Requests : request'[p] = "read" =>
              request[p] = "read" /\ since'[p] = since[p] /\ seen'[p] = seen[p]
        BY <1>1, <3>1 DEF GateTypeOK
      <3> QED
        BY <1>1, <1>3, <3>1, <3>2, <3>3 DEF SignsAreTrue, CacheUsable
    <2> QED
      BY <2>1, <2>2, <2>3, <2>4, <2>5 DEF RequestStep
  <1> QED
    BY <1>4, <1>6, <1>7 DEF GateInv, SignsAreTrue

\* However slow the reads and whatever heartbeat was left behind, a request is served only
\* if the service was serving at most StaleAfter ticks before the request's own look at the
\* clock, or CacheTtl ticks more from the cache (services.js, createServiceGate).
THEOREM OnlyARecentServiceIsServed == ServiceSpec => ServedIsRecent
  <1> DEFINE Recent ==
        \A q \in Requests :
          request[q] # "served" /\ request'[q] = "served"
          => idle <= StaleAfter + IF request[q] = "idle" THEN CacheTtl ELSE since[q]
  <1>1. ServiceInit => GateInv
    <2> SUFFICES ASSUME ServiceInit PROVE GateInv
      OBVIOUS
    <2>1. OwnershipInit /\ GateInit /\ OwnershipInv
      BY InitOwnershipInv DEF ServiceInit
    <2>2. GateTypeOK
      BY <2>1 DEF GateInit, GateTypeOK
    <2>3. SignsAreTrue
      BY <2>1 DEF OwnershipInit, GateInit, SignsAreTrue, CacheUsable
    <2> QED
      BY <2>1, <2>2, <2>3 DEF GateInv
  <1>2. GateInv /\ [ServiceNext]_serviceVars => GateInv'
    <2>1. GateInv /\ UNCHANGED serviceVars => GateInv'
      BY DEF serviceVars, ownershipVars, gateVars, GateInv, GateTypeOK, SignsAreTrue, OwnershipInv,
         OwnershipTypeOK, WorkHoldsLock, Alive, CacheUsable
    <2> QED
      BY <2>1, TickKeepsSigns, RunKeepsSigns, RequestKeepsSigns DEF ServiceNext
  <1>3. ASSUME GateInv, [ServiceNext]_serviceVars PROVE [Recent]_serviceVars
    <2> SUFFICES ASSUME ServiceNext, NEW q \in Requests, request[q] # "served",
                        request'[q] = "served"
                 PROVE  idle <= StaleAfter + IF request[q] = "idle" THEN CacheTtl ELSE since[q]
      BY <1>3
    <2>1. GateTypeOK /\ SignsAreTrue /\ OwnershipTypeOK
      BY <1>3 DEF GateInv, OwnershipInv
    <2>2. RequestStep(q)
      <3>1. ~(AgeAll /\ GateAges)
        BY DEF GateAges
      <3>2. \A r \in Runs : ~UNCHANGED gateVars
        BY DEF gateVars
      <3>3. ASSUME NEW p \in Requests, RequestStep(p), p # q PROVE FALSE
        BY <2>1, <3>3 DEF RequestStep, AnswerFromCache, StartRead, ReadBeat, AnswerFromRead,
           NextRequest, GateTypeOK
      <3> QED
        BY <3>1, <3>2, <3>3 DEF ServiceNext
    <2>3. AnswerFromCache(q) \/ AnswerFromRead(q)
      BY <2>1, <2>2 DEF RequestStep, StartRead, ReadBeat, NextRequest, GateTypeOK
    <2>4. CASE AnswerFromCache(q)
      <3>1. request[q] = "idle" /\ CacheUsable /\ Verdict(cache.state) = "served"
        BY <2>1, <2>4 DEF AnswerFromCache, GateTypeOK
      <3>2. idle <= StaleAfter + cache.age /\ cache.age < CacheTtl /\ cache.age \in Nat
        BY <2>1, <3>1 DEF Verdict, SignsAreTrue, CacheUsable, GateTypeOK
      <3>3. idle \in Nat /\ StaleAfter \in Nat /\ CacheTtl \in Nat
        BY <2>1, GateConstants DEF OwnershipTypeOK
      <3>4. idle <= StaleAfter + CacheTtl
        BY <3>2, <3>3
      <3> QED
        BY <3>1, <3>4
    <2>5. CASE AnswerFromRead(q)
      <3>1. request[q] = "read" /\ Verdict(seen[q]) = "served"
        BY <2>1, <2>5 DEF AnswerFromRead, GateTypeOK
      <3> QED
        BY <2>1, <3>1 DEF Verdict, SignsAreTrue
    <2> QED
      BY <2>3, <2>4, <2>5
  <1> QED
    BY <1>1, <1>2, <1>3, PTL DEF ServiceSpec, ServedIsRecent

=============================================================================
