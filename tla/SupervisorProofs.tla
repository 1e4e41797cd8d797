-------------------------- MODULE SupervisorProofs --------------------------
(***************************************************************************)
(* Proofs about the accessory supervisor, for every set of children, every *)
(* rate limit and every number of deaths: the flag of the GOES renderer is *)
(* up whenever it renders, and no child outlives the service.              *)
(***************************************************************************)
EXTENDS AccessorySupervisor, FiniteSetTheorems, TLAPS

\* The part of the types that the arguments use.
ProcType ==
    /\ mode \in {"running", "stopping", "stopped"}
    /\ proc \in [Children -> {"up", "hung", "doomed", "dead"}]
    /\ flag \in BOOLEAN /\ rendering \in BOOLEAN

\* A restart that was admitted is of a dead child, and is over before the service is.
Admitted ==
    /\ starting # Nobody =>
          starting \in Children /\ proc[starting] = "dead" /\ mode # "stopped"
    /\ mode = "stopped" => \A c \in Children : proc[c] \in {"doomed", "dead"}

\* Only a process that has not died renders, and its flag is up.
FlagUp == rendering => flag /\ Renderer \in Children /\ proc[Renderer] # "dead"

SupervisorInv == ProcType /\ Admitted /\ FlagUp

-----------------------------------------------------------------------------
\* The service starts within the invariant.
LEMMA InitSupervisorInv == Init => SupervisorInv
  BY DEF Init, SupervisorInv, ProcType, Admitted, FlagUp

\* What one step of the children keeps.
LEMMA ChildStep ==
    ASSUME SupervisorInv, NEW c \in Children, Beat(c) \/ Die(c) \/ Hang(c)
    PROVE  SupervisorInv'
  <1> USE DEF SupervisorInv, ProcType, Admitted, FlagUp, timing, work
  <1>1. CASE Beat(c)
    BY <1>1 DEF Beat
  <1>2. CASE Die(c)
    BY <1>2 DEF Die, Alive, Lost
  <1>3. CASE Hang(c)
    BY <1>3 DEF Hang
  <1> QED
    BY <1>1, <1>2, <1>3

\* What one pass of check() over a child keeps.
LEMMA CheckStep ==
    ASSUME SupervisorInv, NEW c \in Children, Check(c)
    PROVE  SupervisorInv'
  <1> USE DEF SupervisorInv, ProcType, Admitted, FlagUp, timing, work, Checking
  <1>1. CASE NoticeDeath(c)
    <2>1. flag' = (flag /\ c # Renderer)
      BY <1>1 DEF NoticeDeath, HandleDeath
    <2> QED
      BY <1>1, <2>1 DEF NoticeDeath
  <1>2. CASE StopStale(c)
    <2>1. flag' = (flag /\ c # Renderer)
      BY <1>2 DEF StopStale, HandleDeath
    <2>2. c # Renderer
      BY <1>2, RendererHasNoHeartbeat DEF StopStale, Stale
    <2>3. rendering' => rendering
      BY <1>2 DEF StopStale, Lost
    <2>4. /\ proc' = [proc EXCEPT ![c] = "dead"] \/ proc' = [proc EXCEPT ![c] = "doomed"]
          /\ mode = "running" /\ UNCHANGED <<mode, starting>> /\ starting = Nobody
      BY <1>2 DEF StopStale
    <2>5. rendering' \in BOOLEAN
      BY <1>2 DEF StopStale, Lost
    <2> QED
      BY <2>1, <2>2, <2>3, <2>4, <2>5
  <1>3. CASE AdmitRestart(c)
    BY <1>3 DEF AdmitRestart
  <1> QED
    BY <1>1, <1>2, <1>3 DEF Check

\* What the end of the service keeps.
LEMMA ShutdownStep == SupervisorInv /\ Shutdown => SupervisorInv'
  <1> SUFFICES ASSUME SupervisorInv, Shutdown PROVE SupervisorInv'
    OBVIOUS
  <1> USE DEF SupervisorInv, ProcType, Admitted, FlagUp
  <1>1. PICK slow \in SUBSET {c \in Children : Alive(c)} :
            /\ proc' = [c \in Children |-> CASE c \in slow -> "doomed"
                                             [] c \in Children \ slow -> "dead"
                                             [] OTHER -> proc[c]]
            /\ Lost(Children \ slow)
    BY DEF Shutdown, Stopped
  <1>2. \A c \in Children : proc'[c] = IF c \in slow THEN "doomed" ELSE "dead"
    BY <1>1
  <1>3. proc' \in [Children -> {"up", "hung", "doomed", "dead"}]
    BY <1>1, <1>2
  <1>4. rendering' = (rendering /\ Renderer \notin Children \ slow)
    BY <1>1 DEF Lost
  <1>5. FlagUp' /\ rendering' \in BOOLEAN
    BY <1>2, <1>4 DEF Shutdown
  <1> QED
    BY <1>2, <1>3, <1>5 DEF Shutdown

\* Every step keeps the invariant.
LEMMA NextSupervisorInv == SupervisorInv /\ [Next]_vars => SupervisorInv'
  <1> SUFFICES ASSUME SupervisorInv, [Next]_vars PROVE SupervisorInv'
    OBVIOUS
  <1> USE DEF SupervisorInv, ProcType, Admitted, FlagUp, timing, work
  <1>1. CASE BeginRender
    BY <1>1 DEF BeginRender, Up
  <1>2. CASE EndRender
    BY <1>2 DEF EndRender, Up
  <1>3. CASE BeginFetch
    BY <1>3 DEF BeginFetch
  <1>4. CASE EndFetch
    BY <1>4 DEF EndFetch
  <1>5. ASSUME NEW c \in Children, Beat(c) \/ Die(c) \/ Hang(c) PROVE SupervisorInv'
    BY <1>5, ChildStep
  <1>6. ASSUME NEW c \in Children, Check(c) PROVE SupervisorInv'
    BY <1>6, CheckStep
  <1>7. CASE StartChild
    BY <1>7 DEF StartChild
  <1>8. CASE RequestStop
    BY <1>8 DEF RequestStop
  <1>9. CASE Shutdown
    BY <1>9, ShutdownStep
  <1>10. CASE Tick
    BY <1>10 DEF Tick
  <1>11. CASE UNCHANGED vars
    BY <1>11 DEF vars
  <1> QED
    BY <1>1, <1>2, <1>3, <1>4, <1>5, <1>6, <1>7, <1>8, <1>9, <1>10, <1>11 DEF Next

-----------------------------------------------------------------------------
\* The inductive invariant holds in every behaviour of the supervisor.
THEOREM SupervisorInvariant == Spec => []SupervisorInv
  BY InitSupervisorInv, NextSupervisorInv, PTL DEF Spec

\* The clean-up after a death never lowers the flag under a renderer that runs
\* (SupervisedChild.cleanup_event, cleared in _handle_death).
THEOREM FlagSpeaksForRenderer == Spec => []RenderingHoldsFlag
  <1>1. SupervisorInv => RenderingHoldsFlag
    BY DEF SupervisorInv, FlagUp, RenderingHoldsFlag
  <1> QED
    BY <1>1, SupervisorInvariant, PTL

\* However the stop races the deaths and the restarts, shutdown leaves no child
\* running (ProcessSupervisor.shutdown, and the stop event that _restart reads).
THEOREM NothingOutlivesService == Spec => []NoChildOutlivesService
  <1>1. SupervisorInv => NoChildOutlivesService
    BY DEF SupervisorInv, Admitted, NoChildOutlivesService
  <1> QED
    BY <1>1, SupervisorInvariant, PTL

-----------------------------------------------------------------------------
(***************************************************************************)
(* The restart rate.  Between two restarts of a child lies a death of its  *)
(* own, recorded after the first of them: so up to any age there is at     *)
(* most one restart more than there are deaths, and none more once the     *)
(* next restart is due.  And a child whose deaths number more than         *)
(* MaxRestarts is not restarted.                                           *)
(***************************************************************************)

\* The ages of A up to y.
Until(A, y) == {a \in A : a <= y}

RateType ==
    /\ deaths \in [Children -> SUBSET Ages]
    /\ restarted \in [Children -> SUBSET (0 .. Window - 1)]
    /\ uptime \in [Children -> Nat]
    /\ wait = [c \in Children |-> wait[c]] /\ enabled \subseteq Children

\* A child about to be started is one whose last death was dealt with.
Due == starting # Nobody => starting \in enabled /\ wait[starting] # NoWait

\* Nothing was restarted after the process that runs.
UptimeKnown == \A c \in Children : \A r \in restarted[c] : uptime[c] <= r

NotCrashLooping == \A c \in enabled : Cardinality(deaths[c]) <= MaxRestarts

DeathsBetween ==
    \A c \in Children : \A y \in 0 .. Window - 1 :
       /\ Cardinality(Until(restarted[c], y)) <= Cardinality(Until(deaths[c], y)) + 1
       /\ wait[c] # NoWait =>
             Cardinality(Until(restarted[c], y)) <= Cardinality(Until(deaths[c], y))

RateInv ==
    /\ RateType /\ Due /\ UptimeKnown /\ NotCrashLooping /\ DeathsBetween
    /\ RestartRateBounded

\* Ages are few.
LEMMA AgesAreFinite ==
    ASSUME NEW A \in SUBSET Ages, NEW y
    PROVE  /\ IsFiniteSet(A) /\ Cardinality(A) \in Nat
           /\ IsFiniteSet(Until(A, y)) /\ Cardinality(Until(A, y)) \in Nat
           /\ Cardinality(Until(A, y)) <= Cardinality(A)
  <1>1. IsFiniteSet(Ages)
    BY FS_Interval, SupervisorAssumption DEF Ages
  <1>2. IsFiniteSet(A)
    BY <1>1, FS_Subset
  <1>3. Until(A, y) \in SUBSET A
    BY DEF Until
  <1> QED BY <1>2, <1>3, FS_Subset, FS_CardinalityType

\* The ages of a window are ages.
LEMMA WindowAges == \A A \in SUBSET (0 .. Window - 1) : A \in SUBSET Ages
  BY SupervisorAssumption DEF Ages

\* A set that fits into another when each member is one more is not larger.
LEMMA ShiftedUp ==
    ASSUME NEW A \in SUBSET Int, NEW B, IsFiniteSet(B), \A a \in A : a + 1 \in B
    PROVE  Cardinality(A) <= Cardinality(B)
  <1> DEFINE f == [a \in A |-> a + 1]
  <1>1. f \in [A -> B]
    OBVIOUS
  <1>2. \A a, b \in A : f[a] = f[b] => a = b
    OBVIOUS
  <1>3. f \in Injection(A, B)
    BY <1>1, <1>2 DEF Injection, IsInjective
  <1> QED BY <1>3, FS_Injection

\* A set that fits into another when each member is one less is not larger.
LEMMA ShiftedDown ==
    ASSUME NEW A \in SUBSET Int, NEW B, IsFiniteSet(B), \A a \in A : a - 1 \in B
    PROVE  Cardinality(A) <= Cardinality(B)
  <1> DEFINE f == [a \in A |-> a - 1]
  <1>1. f \in [A -> B]
    OBVIOUS
  <1>2. \A a, b \in A : f[a] = f[b] => a = b
    OBVIOUS
  <1>3. f \in Injection(A, B)
    BY <1>1, <1>2 DEF Injection, IsInjective
  <1> QED BY <1>3, FS_Injection

\* The supervisor starts with no death and no restart.
LEMMA InitRateInv == Init => RateInv
  <1> SUFFICES ASSUME Init PROVE RateInv
    OBVIOUS
  <1>1. RateType
    BY DEF Init, RateType
  <1>2. \A y : Until({}, y) = {}
    BY DEF Until
  <1>3. Cardinality({}) = 0 /\ MaxRestarts \in Nat
    BY FS_EmptySet, SupervisorAssumption
  <1> QED BY <1>1, <1>2, <1>3 DEF Init, RateInv, Due, UptimeKnown, NotCrashLooping, DeathsBetween,
                                  RestartRateBounded

\* A death is recorded: it is older than no restart, and newer than all deaths.
LEMMA DeathKeepsRate ==
    ASSUME RateInv, NEW c \in Children, NEW s \in 0 .. StopTime, starting = Nobody,
           Reading(c, s), HandleDeath(c, s), UNCHANGED <<uptime, restarted, starting>>
    PROVE  RateInv'
  <1> USE DEF RateInv
  <1> DEFINE D == deaths[c]
             E == Recorded(c, s)
  <1>1. deaths' = [deaths EXCEPT ![c] = E] /\ Sentence(c, s, Cardinality(E))
    BY DEF HandleDeath
  <1>2. D \in SUBSET Ages /\ E \in SUBSET Ages /\ s \in Nat /\ Window \in Nat
    BY SupervisorAssumption DEF RateType, Recorded, Ages
  <1>3. \A d \in Children : deaths'[d] = IF d = c THEN E ELSE deaths[d]
    BY <1>1 DEF RateType
  <1>4. /\ enabled' \subseteq enabled
        /\ c \in enabled' => Cardinality(E) <= MaxRestarts
        /\ \A d \in Children : d # c => wait'[d] = wait[d]
        /\ wait' = [d \in Children |-> wait'[d]]
    <2>1. CASE Cardinality(E) > MaxRestarts /\ enabled' = enabled \ {c} /\ wait' = wait
      BY <2>1 DEF RateType
    <2>2. CASE Cardinality(E) <= MaxRestarts /\ enabled' = enabled
               /\ wait' = [wait EXCEPT ![c] = Larger(0, Backoff(Cardinality(E)) - s)]
      BY <2>2 DEF RateType
    <2> QED BY <1>1, <2>1, <2>2 DEF Sentence
  <1>5. RateType'
    BY <1>2, <1>3, <1>4, <1>1 DEF RateType
  <1>6. Due' /\ UptimeKnown'
    BY DEF Due, UptimeKnown
  <1>7. NotCrashLooping'
    BY <1>3, <1>4 DEF NotCrashLooping, RateType
  <1>8. ASSUME NEW y \in 0 .. Window - 1
        PROVE  Cardinality(Until(restarted[c], y)) <= Cardinality(Until(E, y))
    <2> DEFINE R == Until(restarted[c], y)
    <2>1. CASE y < s
      <3>1. \A r \in restarted[c] : s <= r /\ r \in Nat
        <4>1. s <= uptime[c] /\ uptime[c] \in Nat
          BY DEF Reading, RateType
        <4>2. ASSUME NEW r \in restarted[c] PROVE uptime[c] <= r /\ r \in Nat
          BY <1>2 DEF UptimeKnown, RateType
        <4> QED BY <1>2, <4>1, <4>2
      <3>2. R = {}
        BY <1>2, <2>1, <3>1 DEF Until
      <3>3. Cardinality(R) = 0 /\ Cardinality(Until(E, y)) \in Nat
        BY <1>2, <3>2, FS_EmptySet, AgesAreFinite
      <3> QED BY <3>3
    <2>2. CASE s <= y
      <3>1. Until(E, y) = Until(D, y) \cup {s}
        BY <1>2, <2>2 DEF Until, Recorded, Ages
      <3>2. s \notin Until(D, y)
        BY <1>2 DEF Until, Reading
      <3>3. Cardinality(Until(E, y)) = Cardinality(Until(D, y)) + 1
        BY <1>2, <3>1, <3>2, AgesAreFinite, FS_AddElement
      <3>4. Cardinality(R) <= Cardinality(Until(D, y)) + 1
        BY DEF DeathsBetween
      <3> QED BY <3>3, <3>4
    <2> QED BY <1>2, <2>1, <2>2
  <1>9. DeathsBetween'
    <2> SUFFICES ASSUME NEW d \in Children, NEW y \in 0 .. Window - 1
                 PROVE  /\ Cardinality(Until(restarted[d], y)) <= Cardinality(Until(deaths'[d], y)) + 1
                        /\ wait'[d] # NoWait => Cardinality(Until(restarted[d], y))
                                                <= Cardinality(Until(deaths'[d], y))
      BY DEF DeathsBetween
    <2>1. CASE d # c
      BY <1>3, <1>4, <2>1 DEF DeathsBetween
    <2>2. CASE d = c
      <3>1. Cardinality(Until(restarted[c], y)) <= Cardinality(Until(E, y))
        BY <1>8
      <3>2. Cardinality(Until(E, y)) \in Nat /\ Cardinality(Until(restarted[c], y)) \in Nat
        BY <1>2, AgesAreFinite, WindowAges DEF RateType
      <3> HIDE DEF E
      <3> QED BY <1>3, <2>2, <3>1, <3>2
    <2> QED BY <2>1, <2>2
  <1>10. RestartRateBounded'
    BY DEF RestartRateBounded
  <1> QED BY <1>5, <1>6, <1>7, <1>9, <1>10

\* A child is started: it had died, and its deaths are few.
LEMMA StartKeepsRate == ASSUME RateInv, StartChild PROVE RateInv'
  <1> USE DEF RateInv
  <1> DEFINE c == starting
             R == restarted[c]
             S == R \cup {0}
  <1>1. /\ c # Nobody /\ c \in Children /\ c \in enabled /\ wait[c] # NoWait
        /\ starting' = Nobody /\ UNCHANGED <<enabled, deaths>>
        /\ wait' = [wait EXCEPT ![c] = NoWait]
        /\ uptime' = [uptime EXCEPT ![c] = 0]
        /\ restarted' = [restarted EXCEPT ![c] = S]
    BY DEF StartChild, Due, RateType
  <1>2. Window \in Nat \ {0} /\ R \in SUBSET (0 .. Window - 1) /\ S \in SUBSET (0 .. Window - 1)
        /\ MaxRestarts \in Nat
    BY <1>1, SupervisorAssumption DEF RateType
  <1>3. \A d \in Children : /\ restarted'[d] = IF d = c THEN S ELSE restarted[d]
                            /\ wait'[d] = IF d = c THEN NoWait ELSE wait[d]
                            /\ uptime'[d] = IF d = c THEN 0 ELSE uptime[d]
    BY <1>1 DEF RateType
  <1>4. RateType'
    BY <1>1, <1>2 DEF RateType
  <1>5. Due' /\ NotCrashLooping'
    BY <1>1 DEF Due, NotCrashLooping
  <1>6. UptimeKnown'
    BY <1>2, <1>3 DEF UptimeKnown
  <1>7. ASSUME NEW y \in 0 .. Window - 1
        PROVE  Cardinality(Until(S, y)) <= Cardinality(Until(deaths[c], y)) + 1
    <2>1. Until(S, y) = Until(R, y) \cup {0}
      BY <1>2 DEF Until
    <2>2. IsFiniteSet(Until(R, y)) /\ Cardinality(Until(R, y)) \in Nat
      BY <1>2, AgesAreFinite, WindowAges
    <2>3. Cardinality(Until(S, y)) <= Cardinality(Until(R, y)) + 1
      <3>1. Cardinality(Until(R, y) \cup {0}) =
              IF 0 \in Until(R, y) THEN Cardinality(Until(R, y)) ELSE Cardinality(Until(R, y)) + 1
        BY <2>2, FS_AddElement
      <3> HIDE DEF RateInv, R, S
      <3> QED BY <2>1, <2>2, <3>1
    <2>4. Cardinality(Until(R, y)) <= Cardinality(Until(deaths[c], y))
      BY <1>1 DEF DeathsBetween
    <2>5. Cardinality(Until(deaths[c], y)) \in Nat /\ Cardinality(Until(S, y)) \in Nat
      BY <1>1, <1>2, AgesAreFinite, WindowAges DEF RateType
    <2> QED BY <2>2, <2>3, <2>4, <2>5
  <1> HIDE DEF S, R
  <1>8. DeathsBetween'
    BY <1>1, <1>3, <1>7 DEF DeathsBetween
  <1>9. RestartRateBounded'
    <2>1. Cardinality(S) <= MaxRestarts + 1
      <3>1. Window - 1 \in 0 .. Window - 1 /\ Until(S, Window - 1) = S
        <4>1. Window - 1 \in 0 .. Window - 1 /\ \A a \in S : a <= Window - 1
          BY <1>2
        <4> QED BY <4>1 DEF Until
      <3>2. Cardinality(S) <= Cardinality(Until(deaths[c], Window - 1)) + 1
        BY <1>7, <3>1
      <3>3. Cardinality(Until(deaths[c], Window - 1)) <= Cardinality(deaths[c])
            /\ Cardinality(deaths[c]) <= MaxRestarts
        BY <1>1, AgesAreFinite DEF RateType, NotCrashLooping
      <3>4. /\ Cardinality(S) \in Nat /\ Cardinality(deaths[c]) \in Nat
            /\ Cardinality(Until(deaths[c], Window - 1)) \in Nat
        BY <1>1, <1>2, AgesAreFinite, WindowAges DEF RateType
      <3> QED BY <1>2, <3>2, <3>3, <3>4
    <2> QED BY <1>3, <2>1 DEF RestartRateBounded
  <1> QED BY <1>4, <1>5, <1>6, <1>8, <1>9

\* Time passes: everything gets older together, and the oldest is forgotten.
LEMMA TickKeepsRate == ASSUME RateInv, Tick PROVE RateInv'
  <1> USE DEF RateInv
  <1>1. Window \in Nat \ {0} /\ StopTime \in Nat /\ Oldest \in Nat /\ MaxRestarts \in Nat
    BY SupervisorAssumption DEF Oldest, Larger
  <1>2. ASSUME NEW c \in Children
        PROVE  /\ deaths'[c] = {a \in Ages : a - 1 \in deaths[c]}
               /\ restarted'[c] = {a \in 0 .. Window - 1 : a - 1 \in restarted[c]}
               /\ uptime'[c] = Smaller(uptime[c] + 1, Oldest)
               /\ wait[c] = NoWait => wait'[c] = NoWait
    BY DEF Tick, NoWait
  <1>3. ASSUME NEW c \in Children
        PROVE  /\ deaths[c] \in SUBSET Ages /\ deaths'[c] \in SUBSET Ages
               /\ restarted[c] \in SUBSET (0 .. Window - 1)
               /\ restarted'[c] \in SUBSET (0 .. Window - 1)
               /\ uptime[c] \in Nat /\ uptime'[c] \in Nat
    BY <1>1, <1>2 DEF RateType, Smaller
  <1>4. RateType'
    BY <1>3 DEF Tick, RateType
  <1>5. starting' = starting /\ enabled' = enabled /\ enabled \subseteq Children
    BY DEF Tick, RateType
  <1>6. Due'
    <2>1. starting # Nobody => wait'[starting] # NoWait
      <3> SUFFICES ASSUME starting # Nobody PROVE wait'[starting] # NoWait
        OBVIOUS
      <3>1. starting \in Children /\ wait[starting] # NoWait
        BY <1>5 DEF Due
      <3>2. wait'[starting] = IF wait[starting] > 0 THEN wait[starting] - 1 ELSE wait[starting]
        BY <3>1 DEF Tick
      <3> QED BY <3>1, <3>2 DEF NoWait
    <2> QED BY <1>5, <2>1 DEF Due
  <1>7. UptimeKnown'
    <2> SUFFICES ASSUME NEW c \in Children, NEW r \in restarted'[c] PROVE uptime'[c] <= r
      BY DEF UptimeKnown
    <2>1. r \in Nat /\ r - 1 \in restarted[c]
      BY <1>2
    <2>2. uptime[c] <= r - 1
      BY <2>1 DEF UptimeKnown
    <2>3. uptime[c] + 1 <= r
      BY <1>3, <2>1, <2>2
    <2>4. uptime'[c] <= uptime[c] + 1
      BY <1>1, <1>2, <1>3 DEF Smaller
    <2> QED BY <1>3, <2>1, <2>3, <2>4
  <1>8. ASSUME NEW c \in Children
        PROVE  /\ Cardinality(deaths'[c]) <= Cardinality(deaths[c])
               /\ Cardinality(restarted'[c]) <= Cardinality(restarted[c])
    <2>1. \A a \in deaths'[c] : a - 1 \in deaths[c]
      BY <1>2, <1>3 DEF Ages
    <2>2. \A a \in restarted'[c] : a - 1 \in restarted[c]
      BY <1>2, <1>3
    <2>3. deaths'[c] \in SUBSET Int /\ restarted'[c] \in SUBSET Int
      BY <1>1, <1>3 DEF Ages
    <2>4. IsFiniteSet(deaths[c]) /\ IsFiniteSet(restarted[c])
      BY <1>3, AgesAreFinite, WindowAges
    <2> QED BY <2>1, <2>2, <2>3, <2>4, ShiftedDown
  <1>9. NotCrashLooping'
    <2> SUFFICES ASSUME NEW c \in enabled PROVE Cardinality(deaths'[c]) <= MaxRestarts
      BY <1>5 DEF NotCrashLooping
    <2>1. c \in Children /\ Cardinality(deaths[c]) <= MaxRestarts
      BY <1>5 DEF NotCrashLooping
    <2>2. Cardinality(deaths'[c]) \in Nat /\ Cardinality(deaths[c]) \in Nat
      BY <1>3, <2>1, AgesAreFinite
    <2> QED BY <1>1, <1>8, <2>1, <2>2
  <1>10. DeathsBetween'
    <2> SUFFICES ASSUME NEW c \in Children, NEW y \in 0 .. Window - 1
                 PROVE  /\ Cardinality(Until(restarted'[c], y)) <= Cardinality(Until(deaths'[c], y)) + 1
                        /\ wait'[c] # NoWait => Cardinality(Until(restarted'[c], y))
                                                <= Cardinality(Until(deaths'[c], y))
      BY DEF DeathsBetween
    <2>1. Cardinality(Until(restarted'[c], y)) \in Nat /\ Cardinality(Until(deaths'[c], y)) \in Nat
      BY <1>3, AgesAreFinite, WindowAges
    <2>2. CASE y = 0
      <3>1. Until(restarted'[c], y) = {}
        BY <1>2, <1>3, <2>2 DEF Until
      <3> QED BY <2>1, <3>1, FS_EmptySet
    <2>3. CASE y # 0
      <3>1. y - 1 \in 0 .. Window - 1
        BY <1>1, <2>3
      <3>2. /\ IsFiniteSet(Until(restarted[c], y - 1)) /\ IsFiniteSet(Until(deaths'[c], y))
            /\ Cardinality(Until(restarted[c], y - 1)) \in Nat
            /\ Cardinality(Until(deaths[c], y - 1)) \in Nat
        BY <1>3, AgesAreFinite, WindowAges
      <3>3. Cardinality(Until(restarted'[c], y)) <= Cardinality(Until(restarted[c], y - 1))
        <4>1. Until(restarted'[c], y) \in SUBSET Int
          BY <1>3 DEF Until
        <4>2. \A a \in Until(restarted'[c], y) : a - 1 \in Until(restarted[c], y - 1)
          BY <1>2, <1>3 DEF Until
        <4> QED BY <3>2, <4>1, <4>2, ShiftedDown
      <3>4. Cardinality(Until(deaths[c], y - 1)) <= Cardinality(Until(deaths'[c], y))
        <4>1. Until(deaths[c], y - 1) \in SUBSET Int
          BY <1>1, <1>3 DEF Until, Ages
        <4>2. ASSUME NEW a \in Until(deaths[c], y - 1) PROVE a + 1 \in Until(deaths'[c], y)
          <5>1. a \in deaths[c] /\ a \in Nat /\ a <= y - 1
            BY <1>1, <1>3 DEF Until, Ages
          <5>2. a + 1 \in Ages /\ (a + 1) - 1 = a /\ a + 1 <= y
            BY <1>1, <5>1 DEF Ages
          <5> QED BY <1>2, <5>1, <5>2 DEF Until
        <4> QED BY <3>2, <4>1, <4>2, ShiftedUp
      <3>5. /\ Cardinality(Until(restarted[c], y - 1)) <= Cardinality(Until(deaths[c], y - 1)) + 1
            /\ wait[c] # NoWait => Cardinality(Until(restarted[c], y - 1))
                                   <= Cardinality(Until(deaths[c], y - 1))
        BY <3>1 DEF DeathsBetween
      <3>6. wait'[c] # NoWait => wait[c] # NoWait
        BY <1>2
      <3> HIDE DEF RateInv
      <3> QED BY <2>1, <3>2, <3>3, <3>4, <3>5, <3>6
    <2> QED BY <2>2, <2>3
  <1>11. RestartRateBounded'
    <2> SUFFICES ASSUME NEW c \in Children PROVE Cardinality(restarted'[c]) <= MaxRestarts + 1
      BY DEF RestartRateBounded
    <2>1. Cardinality(restarted[c]) <= MaxRestarts + 1
      BY DEF RestartRateBounded
    <2>2. Cardinality(restarted'[c]) \in Nat /\ Cardinality(restarted[c]) \in Nat
      BY <1>3, AgesAreFinite, WindowAges
    <2> QED BY <1>1, <1>8, <2>1, <2>2
  <1> QED BY <1>4, <1>6, <1>7, <1>9, <1>10, <1>11

\* A pass of check() keeps the rate.
LEMMA CheckKeepsRate == ASSUME RateInv, NEW c \in Children, Check(c) PROVE RateInv'
  <1>1. CASE NoticeDeath(c)
    <2>1. PICK s \in 0 .. StopTime : Reading(c, s) /\ HandleDeath(c, s)
      BY <1>1 DEF NoticeDeath
    <2> QED BY <1>1, <2>1, DeathKeepsRate DEF NoticeDeath, Checking
  <1>2. CASE StopStale(c)
    <2>1. PICK s \in 0 .. StopTime : Reading(c, s) /\ HandleDeath(c, s)
      BY <1>2 DEF StopStale
    <2> QED BY <1>2, <2>1, DeathKeepsRate DEF StopStale, Checking
  <1>3. CASE AdmitRestart(c)
    <2>1. /\ c \in enabled /\ wait[c] # NoWait /\ starting' = c
          /\ UNCHANGED <<enabled, wait, deaths, uptime, restarted>>
      BY <1>3 DEF AdmitRestart, Checking, timing, NoWait
    <2> QED BY <2>1 DEF RateInv, RateType, Due, UptimeKnown, NotCrashLooping, DeathsBetween,
                        RestartRateBounded
  <1> QED BY <1>1, <1>2, <1>3 DEF Check

\* Every step keeps the rate.
LEMMA NextRateInv == RateInv /\ [Next]_vars => RateInv'
  <1> SUFFICES ASSUME RateInv, [Next]_vars PROVE RateInv'
    OBVIOUS
  <1>1. ASSUME UNCHANGED <<enabled, wait, deaths, uptime, starting, restarted>> PROVE RateInv'
    BY <1>1 DEF RateInv, RateType, Due, UptimeKnown, NotCrashLooping, DeathsBetween,
                RestartRateBounded
  <1>2. CASE BeginRender \/ EndRender \/ BeginFetch \/ EndFetch \/ RequestStop \/ Shutdown
    BY <1>1, <1>2 DEF BeginRender, EndRender, BeginFetch, EndFetch, RequestStop, Shutdown, timing
  <1>3. ASSUME NEW c \in Children, Beat(c) \/ Die(c) \/ Hang(c) PROVE RateInv'
    BY <1>1, <1>3 DEF Beat, Die, Hang, timing
  <1>4. ASSUME NEW c \in Children, Check(c) PROVE RateInv'
    BY <1>4, CheckKeepsRate
  <1>5. CASE StartChild
    BY <1>5, StartKeepsRate
  <1>6. CASE Tick
    BY <1>6, TickKeepsRate
  <1>7. CASE UNCHANGED vars
    BY <1>1, <1>7 DEF vars
  <1> QED BY <1>2, <1>3, <1>4, <1>5, <1>6, <1>7 DEF Next

\* However a child dies, hangs, outlives its kill or races the passes of check(),
\* it is restarted at most MaxRestarts + 1 times in any window (_handle_death,
\* _restart).
THEOREM RestartsAreRateLimited == Spec => []RestartRateBounded
  <1>1. RateInv => RestartRateBounded
    BY DEF RateInv
  <1> QED BY <1>1, InitRateInv, NextRateInv, PTL DEF Spec

=============================================================================
