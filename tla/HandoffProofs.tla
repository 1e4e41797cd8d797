--------------------------- MODULE HandoffProofs ---------------------------
(***************************************************************************)
(* Proofs about the handoff of phase records, for any number of cycles,    *)
(* crashes, dead passes, renderer failures and damaged records: what is    *)
(* committed is immutable, the consumer's checkpoint passes every cycle    *)
(* exactly as it claims, and a sound record is given up only when enough   *)
(* newer cycles wait.                                                      *)
(***************************************************************************)
EXTENDS PhaseHandoff, FiniteSetTheorems, TLAPS

\* The primary between cycles, in one, and while it publishes.
PrimIdle == [cursor: CycleOrNone, owned: CycleOrNone, stage: {"idle"}]
PrimCycle == [cursor: CycleOrNone, owned: Cycles, stage: {"cycle"}]
PrimPublishing == [cursor: CycleOrNone, owned: Cycles, stage: Phases, manifest: Manifests]

HandoffType ==
    /\ dirs \subseteq Cycles
    /\ file \in [Phases -> [Cycles -> File]]
    /\ prim \in PrimIdle \cup PrimCycle \cup PrimPublishing
    /\ cp \in [Phases -> CycleOrNone]
    /\ drain \in [phase: Phases \cup {"none"}, left: SUBSET Cycles,
                  excess: SUBSET Cycles, unread: SUBSET Cycles, cycle: CycleOrNone]
    /\ rendered \in [Phases -> [Cycles -> Nat]]
    /\ skipped \in [Phases -> SUBSET Cycles]
    /\ faults \in [crashes: Nat, deaths: Nat, failures: Nat, damage: Nat]

\* A primary that has not crashed makes its directories in order.
DirsInOrder ==
    /\ prim.owned # None => prim.owned > prim.cursor
    /\ faults.crashes = 0 => \A d \in dirs : d <= prim.cursor \/ d = prim.owned
    /\ faults.crashes = 0 => late = {}

\* What a drain has left lies after the checkpoint, and nothing lies between but
\* directories that came late.
DrainInOrder ==
    /\ \A p \in Phases : cp[p] # None => cp[p] \in dirs
    /\ drain.left \subseteq dirs
    /\ drain.left # {} => drain.phase \in Phases
    /\ \A d \in drain.left : d > cp[drain.phase]
    /\ \A d \in drain.left, c \in dirs \ drain.left :
          c < d => c <= cp[drain.phase] \/ c \in late

\* A cycle that was rendered and not yet recorded is the head of the drain.
InHand ==
    drain.cycle # None =>
        /\ IsHead(drain.cycle)
        /\ rendered[drain.phase][drain.cycle] > 0

\* What the checkpoint has passed.
Passed ==
    \A p \in Phases : \A c \in dirs :
        c <= cp[p] => rendered[p][c] > 0 \/ c \in skipped[p] \/ c \in late

\* What is at or below the checkpoint, or in hand, may have been rendered once
\* more than passes died.
Done(p, c) == c <= cp[p] \/ (drain.phase = p /\ drain.cycle = c)
Rendered ==
    \A p \in Phases : \A c \in Cycles :
        rendered[p][c] <= faults.deaths + (IF Done(p, c) THEN 1 ELSE 0)

HandoffInv == HandoffType /\ DirsInOrder /\ DrainInOrder /\ InHand /\ Passed /\ Rendered

-----------------------------------------------------------------------------
\* The cycles are numbers.
LEMMA CyclesAreNumbers ==
    Cycles \subseteq Nat /\ CycleOrNone \subseteq Nat /\ Cycles \subseteq CycleOrNone
    /\ None \notin Cycles /\ None \in CycleOrNone
  BY HandoffAssumption DEF Cycles, CycleOrNone, None

\* Both phases start within the invariant.
LEMMA InitHandoffInv == Init => HandoffInv
  <1> SUFFICES ASSUME Init PROVE HandoffInv
    OBVIOUS
  <1> USE CyclesAreNumbers DEF Init
  <1>1. HandoffType
    BY DEF HandoffType, PrimIdle, File, Absent, Idle, Phases
  <1>2. DirsInOrder
    BY DEF DirsInOrder
  <1>3. DrainInOrder /\ InHand
    BY DEF DrainInOrder, InHand, Idle
  <1>4. Passed /\ Rendered
    BY DEF Passed, Rendered, Done, Idle
  <1> QED
    BY <1>1, <1>2, <1>3, <1>4 DEF HandoffInv

\* What the primary is while it publishes, and after a publication.
LEMMA PublishedPrimary ==
    ASSUME HandoffType, Publishing
    PROVE  /\ prim.owned \in Cycles /\ prim.cursor \in CycleOrNone
           /\ prim.manifest \in Manifests
           /\ Published \in PrimCycle \cup PrimPublishing
           /\ Published.owned = prim.owned /\ Published.cursor = prim.cursor
  <1>1. prim \in PrimPublishing
    BY DEF HandoffType, Publishing, PrimIdle, PrimCycle, PrimPublishing, Phases
  <1>2. CASE prim.stage = "mrms"
    BY <1>1, <1>2 DEF Published, PrimPublishing, Phases
  <1>3. CASE prim.stage # "mrms"
    BY <1>1, <1>3 DEF Published, PrimPublishing, PrimCycle
  <1> QED
    BY <1>1, <1>2, <1>3 DEF PrimPublishing

\* A step that only moves the primary on within its attempt, or between attempts,
\* keeps what concerns the consumer.
LEMMA ConsumerUntouched ==
    ASSUME HandoffInv, UNCHANGED <<dirs, late, faults, consVars>>
    PROVE  DrainInOrder' /\ InHand' /\ Passed' /\ Rendered'
  BY DEF HandoffInv, DrainInOrder, InHand, Passed, Rendered, Done, IsHead, consVars

\* The steps of the primary keep the invariant.
LEMMA PrimaryStep == HandoffInv /\ Primary => HandoffInv'
  <1> SUFFICES ASSUME HandoffInv, Primary PROVE HandoffInv'
    OBVIOUS
  <1> USE CyclesAreNumbers
  <1>1. ASSUME NEW c \in Cycles, NEW m \in Manifests, BeginAttempt(c, m) PROVE HandoffInv'
    <2>1. prim' = [cursor |-> prim.cursor, owned |-> c, stage |-> "mrms", manifest |-> m]
      BY <1>1 DEF BeginAttempt
    <2>2. prim.cursor \in CycleOrNone /\ prim.owned \in {None, c} /\ c > prim.cursor
      BY <1>1 DEF BeginAttempt, HandoffInv, HandoffType, PrimIdle, PrimCycle, PrimPublishing
    <2>3. prim' \in PrimPublishing
      BY <2>1, <2>2 DEF PrimPublishing, Phases
    <2>4. HandoffType'
      BY <1>1, <2>3 DEF BeginAttempt, HandoffInv, HandoffType, consVars
    <2>5. DirsInOrder'
      BY <1>1, <2>1, <2>2 DEF BeginAttempt, HandoffInv, HandoffType, DirsInOrder, consVars
    <2> QED
      BY <1>1, <2>4, <2>5, ConsumerUntouched DEF BeginAttempt, HandoffInv
  <1>2. CASE MakeCycleDir
    <2>1. prim.owned \in Cycles /\ prim.cursor \in CycleOrNone
      BY <1>2, PublishedPrimary DEF MakeCycleDir, HandoffInv
    <2>2. /\ dirs' = dirs \cup {prim.owned} /\ prim.owned \notin dirs
          /\ UNCHANGED <<file, prim, faults, cp, drain, rendered, skipped>>
          /\ late' = late \cup {c \in {prim.owned} : \E d \in dirs : d > c}
      BY <1>2 DEF MakeCycleDir, consVars
    <2>3. (\E d \in dirs : d > prim.owned) => prim.owned \in late'
      BY <2>2
    <2>4. HandoffType'
      BY <2>1, <2>2 DEF HandoffInv, HandoffType
    <2>5. DirsInOrder'
      <3>1. ASSUME faults.crashes = 0, NEW d \in dirs PROVE ~(d > prim.owned)
        <4>1. d \in Nat /\ prim.owned \in Nat /\ prim.cursor \in Nat
          BY <2>1, <3>1 DEF HandoffInv, HandoffType
        <4>2. prim.owned > prim.cursor /\ (d <= prim.cursor \/ d = prim.owned)
          BY <2>1, <3>1 DEF HandoffInv, DirsInOrder
        <4> QED
          BY <4>1, <4>2
      <3> QED
        BY <2>1, <2>2, <3>1 DEF HandoffInv, DirsInOrder
    <2>6. DrainInOrder'
      BY <2>1, <2>2, <2>3 DEF HandoffInv, HandoffType, DrainInOrder
    <2>7. Passed'
      <3>1. ASSUME NEW p \in Phases, prim.owned <= cp[p] PROVE prim.owned \in late'
        <4>1. cp[p] \in Nat /\ prim.owned \in Nat /\ prim.owned # None /\ None \in Nat
          BY <2>1 DEF HandoffInv, HandoffType, None
        <4>2. cp[p] # None
          BY <3>1, <4>1 DEF None
        <4>3. cp[p] \in dirs
          BY <4>2 DEF HandoffInv, DrainInOrder
        <4>4. cp[p] # prim.owned
          BY <2>2, <4>3
        <4>5. cp[p] > prim.owned
          BY <3>1, <4>1, <4>4
        <4> QED
          BY <2>3, <4>3, <4>5
      <3> QED
        BY <2>2, <3>1 DEF HandoffInv, Passed
    <2>8. InHand' /\ Rendered'
      BY <2>2 DEF HandoffInv, InHand, Rendered, Done, IsHead
    <2> QED
      BY <2>4, <2>5, <2>6, <2>7, <2>8 DEF HandoffInv
  <1>3. CASE CommitRecord
    <2>1. /\ prim.owned \in Cycles /\ prim.stage \in Phases
          /\ prim' \in PrimCycle \cup PrimPublishing
          /\ prim'.owned = prim.owned /\ prim'.cursor = prim.cursor
      BY <1>3, PublishedPrimary DEF CommitRecord, HandoffInv, Publishing
    <2>2. \A f \in File : Publish(f, prim.manifest) \in File
      BY <1>3, PublishedPrimary DEF CommitRecord, HandoffInv, Publish, File, Whole
    <2>3. file' \in [Phases -> [Cycles -> File]]
      BY <1>3, <2>1, <2>2 DEF CommitRecord, HandoffInv, HandoffType
    <2>4. HandoffType'
      BY <1>3, <2>1, <2>3 DEF CommitRecord, HandoffInv, HandoffType, consVars
    <2>5. DirsInOrder'
      BY <1>3, <2>1 DEF CommitRecord, HandoffInv, DirsInOrder, consVars
    <2> QED
      BY <1>3, <2>4, <2>5, ConsumerUntouched DEF CommitRecord, HandoffInv
  <1>4. CASE SkipPublication
    <2>1. /\ prim' \in PrimCycle \cup PrimPublishing
          /\ prim'.owned = prim.owned /\ prim'.cursor = prim.cursor
      BY <1>4, PublishedPrimary DEF SkipPublication, HandoffInv
    <2>2. HandoffType' /\ DirsInOrder'
      BY <1>4, <2>1 DEF SkipPublication, HandoffInv, HandoffType, DirsInOrder, consVars
    <2> QED
      BY <1>4, <2>2, ConsumerUntouched DEF SkipPublication, HandoffInv
  <1>5. CASE SettleCycle
    <2>1. prim \in PrimCycle
      BY <1>5 DEF SettleCycle, HandoffInv, HandoffType, PrimIdle, PrimCycle,
                  PrimPublishing, Phases
    <2>2. /\ prim' = [cursor |-> prim.owned, owned |-> None, stage |-> "idle"]
          /\ prim.owned \in Cycles /\ prim.cursor \in CycleOrNone
      BY <1>5, <2>1 DEF SettleCycle, PrimCycle
    <2>3. prim' \in PrimIdle
      BY <2>2 DEF PrimIdle
    <2>4. HandoffType'
      BY <1>5, <2>3 DEF SettleCycle, HandoffInv, HandoffType, consVars
    <2>5. DirsInOrder'
      <3>1. dirs \subseteq Cycles /\ prim.owned > prim.cursor
        BY <2>2 DEF HandoffInv, HandoffType, DirsInOrder
      <3>2. prim'.cursor = prim.owned /\ prim'.owned = None
        BY <2>2
      <3>3. UNCHANGED <<dirs, late, faults>>
        BY <1>5 DEF SettleCycle
      <3>4. ASSUME faults.crashes = 0, NEW d \in dirs PROVE d <= prim.owned
        <4>1. d \in Nat /\ prim.owned \in Nat /\ prim.cursor \in Nat
          BY <2>2, <3>1
        <4>2. d <= prim.cursor \/ d = prim.owned
          BY <3>4 DEF HandoffInv, DirsInOrder
        <4> QED
          BY <3>1, <4>1, <4>2
      <3> QED
        BY <3>2, <3>3, <3>4 DEF HandoffInv, DirsInOrder
    <2> QED
      BY <1>5, <2>4, <2>5, ConsumerUntouched DEF SettleCycle, HandoffInv
  <1>6. CASE RetryCycle
    <2>1. prim \in PrimCycle
      BY <1>6 DEF RetryCycle, HandoffInv, HandoffType, PrimIdle, PrimCycle,
                  PrimPublishing, Phases
    <2>2. /\ prim' = [cursor |-> prim.cursor, owned |-> prim.owned, stage |-> "idle"]
          /\ prim.owned \in Cycles /\ prim.cursor \in CycleOrNone
      BY <1>6, <2>1 DEF RetryCycle, PrimCycle
    <2>3. prim' \in PrimIdle
      BY <2>2 DEF PrimIdle
    <2>4. HandoffType'
      BY <1>6, <2>3 DEF RetryCycle, HandoffInv, HandoffType, consVars
    <2>5. DirsInOrder'
      BY <1>6, <2>2 DEF RetryCycle, HandoffInv, DirsInOrder, consVars
    <2> QED
      BY <1>6, <2>4, <2>5, ConsumerUntouched DEF RetryCycle, HandoffInv
  <1>7. CASE PrimaryCrash
    <2>1. PICK owned \in {None, prim.owned} :
              prim' = [cursor |-> prim.cursor, owned |-> owned, stage |-> "idle"]
      BY <1>7 DEF PrimaryCrash
    <2>2. prim.owned \in CycleOrNone /\ prim.cursor \in CycleOrNone
      BY DEF HandoffInv, HandoffType, PrimIdle, PrimCycle, PrimPublishing
    <2>3. /\ faults' = [faults EXCEPT !.crashes = @ + 1]
          /\ faults' \in [crashes: Nat, deaths: Nat, failures: Nat, damage: Nat]
          /\ faults'.crashes # 0 /\ faults'.deaths = faults.deaths
          /\ UNCHANGED <<dirs, file, late, cp, drain, rendered, skipped>>
      BY <1>7 DEF PrimaryCrash, HandoffInv, HandoffType, consVars
    <2>4. HandoffType'
      BY <2>1, <2>2, <2>3 DEF HandoffInv, HandoffType, PrimIdle
    <2>5. DirsInOrder'
      BY <2>1, <2>2, <2>3 DEF HandoffInv, DirsInOrder
    <2>6. DrainInOrder' /\ InHand' /\ Passed' /\ Rendered'
      BY <2>3 DEF HandoffInv, DrainInOrder, InHand, Passed, Rendered, Done, IsHead
    <2> QED
      BY <2>4, <2>5, <2>6 DEF HandoffInv
  <1> QED
    BY <1>1, <1>2, <1>3, <1>4, <1>5, <1>6, <1>7 DEF Primary

\* A drain is begun with the snapshot of its phase.
LEMMA SnapshotStep ==
    ASSUME HandoffInv, NEW p \in Phases, drain.left = {}, drain' = Snapshot(p),
           UNCHANGED <<cp, rendered, skipped, file, faults, primVars>>
    PROVE  HandoffInv'
  <1> USE CyclesAreNumbers DEF primVars
  <1>1. /\ drain'.phase = p /\ drain'.left = {c \in dirs : c > cp[p]} /\ drain'.cycle = None
        /\ drain' \in [phase: Phases \cup {"none"}, left: SUBSET Cycles,
                       excess: SUBSET Cycles, unread: SUBSET Cycles, cycle: CycleOrNone]
    BY DEF Snapshot, Pending, Excess, Unread, HandoffInv, HandoffType
  <1>2. drain.cycle = None
    BY DEF HandoffInv, InHand, IsHead
  <1>3. HandoffType' /\ DirsInOrder'
    BY <1>1 DEF HandoffInv, HandoffType, DirsInOrder
  <1>4. DrainInOrder'
    <2>1. ASSUME NEW c \in dirs \ drain'.left PROVE c <= cp[p]
      <3>1. c \in Nat /\ cp[p] \in Nat /\ ~(c > cp[p])
        BY <1>1 DEF HandoffInv, HandoffType
      <3> QED
        BY <3>1
    <2> QED
      BY <1>1, <2>1 DEF HandoffInv, DrainInOrder
  <1>5. InHand' /\ Passed'
    BY <1>1 DEF HandoffInv, InHand, Passed
  <1>6. Rendered'
    <2> SUFFICES ASSUME NEW q \in Phases, NEW c \in Cycles
                 PROVE  rendered[q][c] <= faults.deaths + (IF Done(q, c)' THEN 1 ELSE 0)
      BY DEF Rendered
    <2>1. rendered[q][c] <= faults.deaths + (IF Done(q, c) THEN 1 ELSE 0)
      BY DEF HandoffInv, Rendered
    <2>2. Done(q, c) <=> Done(q, c)'
      BY <1>1, <1>2 DEF Done
    <2> QED
      BY <2>1, <2>2
  <1> QED
    BY <1>3, <1>4, <1>5, <1>6 DEF HandoffInv

\* The head of a drain becomes the checkpoint: nothing is left behind it.
LEMMA PassHead ==
    ASSUME HandoffInv, NEW c, IsHead(c),
           cp' = [cp EXCEPT ![drain.phase] = c],
           drain'.phase = drain.phase, drain'.left = drain.left \ {c},
           drain'.cycle = None, drain.cycle \in {None, c},
           drain' \in [phase: Phases \cup {"none"}, left: SUBSET Cycles,
                       excess: SUBSET Cycles, unread: SUBSET Cycles, cycle: CycleOrNone],
           skipped' \in [Phases -> SUBSET Cycles],
           \A p \in Phases : skipped[p] \subseteq skipped'[p],
           rendered[drain.phase][c] > 0 \/ c \in skipped'[drain.phase],
           UNCHANGED <<rendered, file, faults, primVars>>
    PROVE  HandoffInv'
  <1> USE CyclesAreNumbers DEF primVars
  <1> DEFINE p == drain.phase
  <1>1. /\ c \in dirs /\ c \in Cycles /\ p \in Phases /\ c > cp[p] /\ cp[p] \in Nat
        /\ \A d \in drain.left : c <= d
    BY DEF HandoffInv, HandoffType, DrainInOrder, IsHead
  <1>2. cp'[p] = c /\ \A q \in Phases : q # p => cp'[q] = cp[q]
    BY <1>1 DEF HandoffInv, HandoffType
  <1>3. ASSUME NEW q \in Phases PROVE cp[q] <= cp'[q]
    <2>1. cp[q] \in Nat /\ c \in Nat
      BY <1>1 DEF HandoffInv, HandoffType
    <2>2. CASE q = p
      BY <1>1, <1>2, <2>1, <2>2
    <2>3. CASE q # p
      BY <1>2, <2>1, <2>3
    <2> QED
      BY <2>2, <2>3
  <1>4. HandoffType'
    BY <1>1 DEF HandoffInv, HandoffType
  <1>5. DirsInOrder'
    BY DEF HandoffInv, DirsInOrder
  <1>6. \A d \in dirs : d < c => d <= cp[p] \/ d \in late
    <2> SUFFICES ASSUME NEW d \in dirs, d < c PROVE d <= cp[p] \/ d \in late
      OBVIOUS
    <2>1. d \in Nat /\ c \in Nat
      BY <1>1 DEF HandoffInv, HandoffType
    <2>2. d \notin drain.left
      BY <1>1, <2>1
    <2> QED
      BY <2>2 DEF HandoffInv, DrainInOrder, IsHead
  <1>7. DrainInOrder'
    <2>1. \A d \in drain'.left : d > c
      <3> SUFFICES ASSUME NEW d \in drain.left, d # c PROVE d > c
        OBVIOUS
      <3>1. d \in Nat /\ c \in Nat
        BY <1>1 DEF HandoffInv, HandoffType
      <3> QED
        BY <1>1, <3>1
    <2>2. \A d \in drain'.left, e \in dirs \ drain'.left : e < d => e <= c \/ e \in late
      <3> SUFFICES ASSUME NEW d \in drain.left, NEW e \in dirs, e \notin drain.left \/ e = c,
                          e < d
                   PROVE  e <= c \/ e \in late
        OBVIOUS
      <3>1. e \in Nat /\ c \in Nat
        BY <1>1 DEF HandoffInv, HandoffType
      <3>2. CASE e = c
        BY <3>1, <3>2
      <3>3. CASE e \notin drain.left
        <4>1. e <= cp[p] \/ e \in late
          BY <3>3 DEF HandoffInv, DrainInOrder
        <4> QED
          BY <1>1, <3>1, <4>1
      <3> QED
        BY <3>2, <3>3
    <2>3. \A q \in Phases : cp'[q] # None => cp'[q] \in dirs
      BY <1>1, <1>2 DEF HandoffInv, DrainInOrder
    <2> QED
      BY <1>1, <1>2, <2>1, <2>2, <2>3 DEF HandoffInv, DrainInOrder
  <1>8. InHand'
    BY DEF InHand
  <1>9. Passed'
    <2> SUFFICES ASSUME NEW q \in Phases, NEW d \in dirs, d <= cp'[q]
                 PROVE  rendered[q][d] > 0 \/ d \in skipped'[q] \/ d \in late
      BY DEF Passed
    <2>1. d \in Nat /\ c \in Nat
      BY <1>1 DEF HandoffInv, HandoffType
    <2>2. CASE d <= cp[q]
      BY <2>2 DEF HandoffInv, Passed
    <2>3. CASE q = p /\ d = c
      BY <2>3
    <2>4. CASE q = p /\ d < c
      BY <1>6, <2>4 DEF HandoffInv, Passed
    <2> QED
      BY <1>2, <2>1, <2>2, <2>3, <2>4
  <1>10. Rendered'
    <2> SUFFICES ASSUME NEW q \in Phases, NEW d \in Cycles
                 PROVE  rendered[q][d] <= faults.deaths + (IF Done(q, d)' THEN 1 ELSE 0)
      BY DEF Rendered
    <2>1. rendered[q][d] <= faults.deaths + (IF Done(q, d) THEN 1 ELSE 0)
      BY DEF HandoffInv, Rendered
    <2>2. Done(q, d) => Done(q, d)'
      <3>1. cp[q] \in Nat /\ cp'[q] \in Nat /\ d \in Nat /\ cp[q] <= cp'[q]
        BY <1>3, <1>4 DEF HandoffInv, HandoffType
      <3>2. CASE d <= cp[q]
        BY <3>1, <3>2 DEF Done
      <3>3. CASE q = p /\ d = drain.cycle
        BY <1>2, <3>1, <3>3 DEF Done
      <3> QED
        BY <3>2, <3>3 DEF Done
    <2>3. rendered[q][d] \in Nat /\ faults.deaths \in Nat
      BY DEF HandoffInv, HandoffType
    <2> QED
      BY <2>1, <2>2, <2>3
  <1> QED
    BY <1>4, <1>5, <1>7, <1>8, <1>9, <1>10 DEF HandoffInv

\* A drain is broken off: what is left of it waits for the next one.
LEMMA BreakOff ==
    ASSUME HandoffInv, drain'.left = {}, drain'.cycle = None,
           drain' \in [phase: Phases \cup {"none"}, left: SUBSET Cycles,
                       excess: SUBSET Cycles, unread: SUBSET Cycles, cycle: CycleOrNone],
           faults' \in [crashes: Nat, deaths: Nat, failures: Nat, damage: Nat],
           faults'.crashes = faults.crashes, faults'.deaths >= faults.deaths,
           drain.cycle # None => faults'.deaths > faults.deaths,
           UNCHANGED <<cp, rendered, skipped, file, primVars>>
    PROVE  HandoffInv'
  <1> USE CyclesAreNumbers DEF primVars
  <1>1. HandoffType' /\ DirsInOrder'
    BY DEF HandoffInv, HandoffType, DirsInOrder
  <1>2. DrainInOrder' /\ InHand' /\ Passed'
    BY DEF HandoffInv, DrainInOrder, InHand, Passed
  <1>3. Rendered'
    <2> SUFFICES ASSUME NEW q \in Phases, NEW d \in Cycles
                 PROVE  rendered[q][d] <= faults'.deaths + (IF Done(q, d)' THEN 1 ELSE 0)
      BY DEF Rendered
    <2>1. rendered[q][d] <= faults.deaths + (IF Done(q, d) THEN 1 ELSE 0)
      BY DEF HandoffInv, Rendered
    <2>2. rendered[q][d] \in Nat /\ faults.deaths \in Nat /\ faults'.deaths \in Nat
      BY DEF HandoffInv, HandoffType
    <2>3. CASE drain.cycle # None
      BY <2>1, <2>2, <2>3
    <2>4. CASE drain.cycle = None
      <3>1. Done(q, d) <=> Done(q, d)'
        BY <2>4 DEF Done
      <3> QED
        BY <2>1, <2>2, <3>1
    <2> QED
      BY <2>3, <2>4
  <1> QED
    BY <1>1, <1>2, <1>3 DEF HandoffInv

\* The head of a drain is rendered, and is in hand until it is recorded.
LEMMA RenderStep == ASSUME HandoffInv, NEW c \in Cycles, Render(c) PROVE HandoffInv'
  <1> USE CyclesAreNumbers DEF primVars
  <1> DEFINE p == drain.phase
  <1>1. /\ IsHead(c) /\ drain.cycle = None
        /\ rendered' = [rendered EXCEPT ![p][c] = @ + 1]
        /\ drain' = [drain EXCEPT !.cycle = c]
        /\ UNCHANGED <<cp, skipped, file, faults, dirs, prim, late>>
    BY DEF Render, Readable
  <1>2. p \in Phases /\ c \in dirs /\ c > cp[p]
    BY <1>1 DEF HandoffInv, DrainInOrder, IsHead
  <1>3. /\ rendered'[p][c] = rendered[p][c] + 1
        /\ rendered[p][c] \in Nat /\ faults.deaths \in Nat
        /\ \A q \in Phases, d \in Cycles : q # p \/ d # c => rendered'[q][d] = rendered[q][d]
        /\ rendered' \in [Phases -> [Cycles -> Nat]]
    BY <1>1, <1>2 DEF HandoffInv, HandoffType
  <1>4. /\ drain'.phase = p /\ drain'.left = drain.left /\ drain'.cycle = c
        /\ drain' \in [phase: Phases \cup {"none"}, left: SUBSET Cycles,
                       excess: SUBSET Cycles, unread: SUBSET Cycles, cycle: CycleOrNone]
    BY <1>1 DEF HandoffInv, HandoffType
  <1>5. HandoffType' /\ DirsInOrder' /\ DrainInOrder'
    BY <1>1, <1>3, <1>4 DEF HandoffInv, HandoffType, DirsInOrder, DrainInOrder
  <1>6. InHand'
    BY <1>1, <1>3, <1>4 DEF InHand, IsHead
  <1>7. Passed'
    <2> SUFFICES ASSUME NEW q \in Phases, NEW d \in dirs, d <= cp[q]
                 PROVE  rendered'[q][d] > 0 \/ d \in skipped[q] \/ d \in late
      BY <1>1 DEF Passed
    <2>1. rendered[q][d] > 0 \/ d \in skipped[q] \/ d \in late
      BY DEF HandoffInv, Passed
    <2>2. d \in Cycles
      BY DEF HandoffInv, HandoffType
    <2> QED
      BY <1>3, <2>1, <2>2
  <1>8. Rendered'
    <2> SUFFICES ASSUME NEW q \in Phases, NEW d \in Cycles
                 PROVE  rendered'[q][d] <= faults.deaths + (IF Done(q, d)' THEN 1 ELSE 0)
      BY <1>1 DEF Rendered
    <2>1. rendered[q][d] <= faults.deaths + (IF Done(q, d) THEN 1 ELSE 0)
      BY DEF HandoffInv, Rendered
    <2>2. CASE q = p /\ d = c
      <3>1. cp[p] \in Nat /\ c \in Nat
        BY <1>2 DEF HandoffInv, HandoffType
      <3>2. ~Done(q, d)
        BY <1>1, <1>2, <2>2, <3>1 DEF Done
      <3>3. Done(q, d)'
        BY <1>4, <2>2 DEF Done
      <3> QED
        BY <1>3, <2>1, <2>2, <3>2, <3>3
    <2>3. CASE q # p \/ d # c
      <3>1. Done(q, d) <=> Done(q, d)'
        BY <1>1, <1>4, <2>3 DEF Done
      <3> QED
        BY <1>3, <2>1, <2>3, <3>1
    <2> QED
      BY <2>2, <2>3
  <1> QED
    BY <1>5, <1>6, <1>7, <1>8 DEF HandoffInv

\* A cycle of the drain's head is marked unrecoverable.
LEMMA MarkStep ==
    ASSUME HandoffInv, NEW c \in Cycles, IsHead(c), drain.cycle = None, MarkUnrecoverable(c)
    PROVE  HandoffInv'
  <1>1. drain.phase \in Phases
    BY DEF HandoffInv, DrainInOrder, IsHead
  <1>2. /\ cp' = [cp EXCEPT ![drain.phase] = c]
        /\ skipped' = [skipped EXCEPT ![drain.phase] = @ \cup {c}]
        /\ drain' = [drain EXCEPT !.left = @ \ {c}]
        /\ UNCHANGED <<rendered, file, faults, primVars>>
    BY DEF MarkUnrecoverable
  <1>3. /\ skipped' \in [Phases -> SUBSET Cycles] /\ c \in skipped'[drain.phase]
        /\ \A p \in Phases : skipped[p] \subseteq skipped'[p]
    BY <1>1, <1>2 DEF HandoffInv, HandoffType
  <1>4. /\ drain'.phase = drain.phase /\ drain'.left = drain.left \ {c}
        /\ drain'.cycle = None
        /\ drain' \in [phase: Phases \cup {"none"}, left: SUBSET Cycles,
                       excess: SUBSET Cycles, unread: SUBSET Cycles, cycle: CycleOrNone]
    BY <1>2 DEF HandoffInv, HandoffType
  <1> QED
    BY <1>2, <1>3, <1>4, PassHead

\* A drain stops with nothing in hand.
LEMMA StopStep ==
    ASSUME HandoffInv, drain.cycle = None, StopDrain,
           faults' \in [crashes: Nat, deaths: Nat, failures: Nat, damage: Nat],
           faults'.crashes = faults.crashes, faults'.deaths = faults.deaths
    PROVE  HandoffInv'
  <1>1. /\ drain'.left = {} /\ drain'.cycle = None
        /\ drain' \in [phase: Phases \cup {"none"}, left: SUBSET Cycles,
                       excess: SUBSET Cycles, unread: SUBSET Cycles, cycle: CycleOrNone]
    BY DEF StopDrain, HandoffInv, HandoffType
  <1>2. faults'.deaths >= faults.deaths
    BY DEF HandoffInv, HandoffType
  <1> QED
    BY <1>1, <1>2, BreakOff DEF StopDrain

\* Every step of a drain keeps the invariant.
LEMMA DrainStepKeeps == ASSUME HandoffInv, DrainStep PROVE HandoffInv'
  <1> USE DEF primVars
  <1>0. faults \in [crashes: Nat, deaths: Nat, failures: Nat, damage: Nat]
    BY DEF HandoffInv, HandoffType
  <1>1. ASSUME NEW c \in Cycles, AbandonBacklog(c) PROVE HandoffInv'
    BY <1>1, MarkStep DEF AbandonBacklog
  <1>2. ASSUME NEW c \in Cycles, StopAtUnreadable(c) PROVE HandoffInv'
    BY <1>0, <1>2, StopStep DEF StopAtUnreadable
  <1>3. ASSUME NEW c \in Cycles, RejectUnsound(c) PROVE HandoffInv'
    BY <1>3, MarkStep DEF RejectUnsound, Readable
  <1>4. ASSUME NEW c \in Cycles, Render(c) PROVE HandoffInv'
    BY <1>4, RenderStep
  <1>5. ASSUME NEW c \in Cycles, FailRender(c) PROVE HandoffInv'
    <2>1. /\ faults' \in [crashes: Nat, deaths: Nat, failures: Nat, damage: Nat]
          /\ faults'.crashes = faults.crashes /\ faults'.deaths = faults.deaths
      BY <1>0, <1>5 DEF FailRender
    <2> QED
      BY <1>5, <2>1, StopStep DEF FailRender, Readable
  <1> QED
    BY <1>1, <1>2, <1>3, <1>4, <1>5 DEF DrainStep

\* Every step keeps the invariant.
LEMMA NextHandoffInv == HandoffInv /\ [Next]_vars => HandoffInv'
  <1> SUFFICES ASSUME HandoffInv, [Next]_vars PROVE HandoffInv'
    OBVIOUS
  <1>0. /\ faults \in [crashes: Nat, deaths: Nat, failures: Nat, damage: Nat]
        /\ drain \in [phase: Phases \cup {"none"}, left: SUBSET Cycles,
                      excess: SUBSET Cycles, unread: SUBSET Cycles, cycle: CycleOrNone]
    BY DEF HandoffInv, HandoffType
  <1>1. CASE Primary
    BY <1>1, PrimaryStep
  <1>2. CASE StartPass
    <2>1. drain.left = {} /\ "mrms" \in Phases
      BY <1>2 DEF StartPass, HandoffInv, DrainInOrder, Phases
    <2> QED
      BY <1>2, <2>1, SnapshotStep DEF StartPass
  <1>3. CASE DrainStep
    BY <1>3, DrainStepKeeps
  <1>4. CASE RecordRendered
    <2>1. /\ IsHead(drain.cycle) /\ drain.phase \in Phases
          /\ rendered[drain.phase][drain.cycle] > 0
      BY <1>4 DEF RecordRendered, HandoffInv, InHand, DrainInOrder, IsHead
    <2>2. /\ drain'.phase = drain.phase /\ drain'.left = drain.left \ {drain.cycle}
          /\ drain'.cycle = None
          /\ drain' \in [phase: Phases \cup {"none"}, left: SUBSET Cycles,
                         excess: SUBSET Cycles, unread: SUBSET Cycles, cycle: CycleOrNone]
      BY <1>0, <1>4, CyclesAreNumbers DEF RecordRendered
    <2>3. skipped' \in [Phases -> SUBSET Cycles] /\ \A p \in Phases : skipped[p] \subseteq skipped'[p]
      BY <1>4 DEF RecordRendered, HandoffInv, HandoffType
    <2> QED
      BY <1>4, <2>1, <2>2, <2>3, PassHead DEF RecordRendered
  <1>5. CASE EndDrain
    <2>1. drain.cycle = None /\ drain.left = {}
      BY <1>5 DEF EndDrain, HandoffInv, InHand, IsHead
    <2>2. CASE drain.phase = "mrms"
      <3>1. "rap" \in Phases
        BY DEF Phases
      <3> QED
        BY <1>5, <2>1, <2>2, <3>1, SnapshotStep DEF EndDrain
    <2>3. CASE drain.phase # "mrms"
      <3>1. /\ drain'.left = {} /\ drain'.cycle = None
            /\ drain' \in [phase: Phases \cup {"none"}, left: SUBSET Cycles,
                           excess: SUBSET Cycles, unread: SUBSET Cycles, cycle: CycleOrNone]
        BY <1>5, <2>3, CyclesAreNumbers DEF EndDrain, Idle
      <3>2. faults' = faults /\ faults.deaths >= faults.deaths
        BY <1>0, <1>5 DEF EndDrain
      <3> QED
        BY <1>0, <1>5, <2>1, <3>1, <3>2, BreakOff DEF EndDrain
    <2> QED
      BY <2>2, <2>3
  <1>6. CASE PassDies
    <2>1. /\ drain'.left = {} /\ drain'.cycle = None
          /\ drain' \in [phase: Phases \cup {"none"}, left: SUBSET Cycles,
                         excess: SUBSET Cycles, unread: SUBSET Cycles, cycle: CycleOrNone]
      BY <1>6, CyclesAreNumbers DEF PassDies, Idle
    <2>2. /\ faults' \in [crashes: Nat, deaths: Nat, failures: Nat, damage: Nat]
          /\ faults'.crashes = faults.crashes /\ faults'.deaths > faults.deaths
          /\ faults'.deaths >= faults.deaths
      BY <1>0, <1>6 DEF PassDies
    <2> QED
      BY <1>6, <2>1, <2>2, BreakOff DEF PassDies
  <1>7. ASSUME NEW p \in Phases, NEW c \in Cycles, DamageRecord(p, c) PROVE HandoffInv'
    <2>0. /\ file \in [Phases -> [Cycles -> File]]
          /\ file' = [file EXCEPT ![p][c] = Damaged] /\ Damaged \in File
          /\ faults' = [faults EXCEPT !.damage = @ + 1]
      BY <1>7 DEF DamageRecord, HandoffInv, HandoffType, File, Damaged
    <2>1. /\ file' \in [Phases -> [Cycles -> File]]
          /\ faults' \in [crashes: Nat, deaths: Nat, failures: Nat, damage: Nat]
          /\ faults'.crashes = faults.crashes /\ faults'.deaths = faults.deaths
          /\ UNCHANGED <<dirs, prim, late, cp, drain, rendered, skipped>>
      BY <1>0, <1>7, <2>0 DEF DamageRecord, primVars, consVars
    <2>2. HandoffType' /\ DirsInOrder'
      BY <2>1 DEF HandoffInv, HandoffType, DirsInOrder
    <2>3. DrainInOrder' /\ InHand' /\ Passed' /\ Rendered'
      BY <2>1 DEF HandoffInv, DrainInOrder, InHand, Passed, Rendered, Done, IsHead
    <2> QED
      BY <2>2, <2>3 DEF HandoffInv
  <1>8. CASE UNCHANGED vars
    BY <1>8 DEF vars, HandoffInv, HandoffType, DirsInOrder, DrainInOrder, InHand, Passed,
                Rendered, Done, IsHead
  <1> QED
    BY <1>1, <1>2, <1>3, <1>4, <1>5, <1>6, <1>7, <1>8 DEF Next, Consumer

-----------------------------------------------------------------------------
\* The inductive invariant holds in every behaviour of the handoff.
THEOREM HandoffInvariant == Spec => []HandoffInv
  BY InitHandoffInv, NextHandoffInv, PTL DEF Spec

\* The consumer deals with every record it passes, and renders one again only after
\* a pass that died: RenderedOncePerDeath follows from the count of what is done, and
\* NothingSilentlyDropped from the order of the directories and of the drain
\* (drain_phase_records, PhaseRecordStore.publish).
THEOREM NothingLost == Spec => []RecordsAreDealtWith
  <1>1. HandoffInv => NothingSilentlyDropped
    <2> SUFFICES ASSUME HandoffInv PROVE NothingSilentlyDropped
      OBVIOUS
    <2>1. faults.crashes \in Nat
      BY DEF HandoffInv, HandoffType
    <2>2. late # {} => faults.crashes > 0
      BY <2>1 DEF HandoffInv, DirsInOrder
    <2> QED
      BY <2>2 DEF HandoffInv, Passed, NothingSilentlyDropped
  <1>2. HandoffInv => RenderedOncePerDeath
    <2> SUFFICES ASSUME HandoffInv, NEW p \in Phases, NEW c \in Cycles
                 PROVE  rendered[p][c] <= 1 + faults.deaths
      BY DEF RenderedOncePerDeath
    <2>1. rendered[p][c] \in Nat /\ faults.deaths \in Nat
      BY DEF HandoffInv, HandoffType
    <2>2. rendered[p][c] <= faults.deaths + (IF Done(p, c) THEN 1 ELSE 0)
      BY DEF HandoffInv, Rendered
    <2> QED
      BY <2>1, <2>2
  <1> QED
    BY <1>1, <1>2, HandoffInvariant, PTL DEF RecordsAreDealtWith

\* A record once readable stays as it is, however often its cycle is attempted again,
\* until something outside the program damages it (PhaseRecordStore.publish).
THEOREM RecordsImmutable == Spec => CommittedImmutable
  <1> DEFINE Keeps == \A p \in Phases, c \in Cycles :
                         file[p][c].state = "whole" => file'[p][c] \in {file[p][c], Damaged}
  <1>1. HandoffInv /\ [Next]_vars => [Keeps]_vars
    <2> SUFFICES ASSUME HandoffInv, Next, NEW p \in Phases, NEW c \in Cycles,
                        file[p][c].state = "whole"
                 PROVE  file'[p][c] \in {file[p][c], Damaged}
      OBVIOUS
    <2>1. file \in [Phases -> [Cycles -> File]]
      BY DEF HandoffInv, HandoffType
    <2>2. CASE CommitRecord
      <3>1. prim.owned \in Cycles /\ prim.stage \in Phases
        BY <2>2, PublishedPrimary DEF CommitRecord, HandoffInv, Publishing
      <3> QED
        BY <2>1, <2>2, <3>1 DEF CommitRecord, Publish
    <2>3. ASSUME NEW q \in Phases, NEW d \in Cycles, DamageRecord(q, d)
          PROVE  file'[p][c] \in {file[p][c], Damaged}
      BY <2>1, <2>3 DEF DamageRecord
    <2>4. CASE (Primary /\ ~CommitRecord) \/ StartPass \/ DrainStep \/ RecordRendered
                 \/ EndDrain \/ PassDies
      <3>1. file' = file
        BY <2>4 DEF Primary, BeginAttempt, MakeCycleDir, SkipPublication, SettleCycle,
                    RetryCycle, PrimaryCrash, StartPass, DrainStep, AbandonBacklog,
                    StopAtUnreadable, RejectUnsound, Render, FailRender, MarkUnrecoverable,
                    StopDrain, RecordRendered, EndDrain, PassDies, consVars
      <3> QED
        BY <3>1
    <2> QED
      BY <2>2, <2>3, <2>4 DEF Next, Consumer
  <1> HIDE DEF Keeps
  <1>2. Spec => [][Keeps]_vars
    BY <1>1, HandoffInvariant, PTL DEF Spec
  <1> QED
    BY <1>2 DEF CommittedImmutable, Keeps

-----------------------------------------------------------------------------
(***************************************************************************)
(* What is given up.  A drain works from a snapshot of the directories, so *)
(* when it gives a cycle up the snapshot is old; what makes it right all   *)
(* the same is that directories are only ever added.                       *)
(***************************************************************************)
Newer(c) == {d \in dirs : d > c}
ExcessIsJustified == \A c \in drain.excess : Cardinality(Newer(c)) >= MaxBacklog

\* What is a set of cycles can be counted, and counts no more than a larger one.
LEMMA CyclesAreFinite ==
  ASSUME NEW S, NEW T, S \subseteq T, T \subseteq Cycles
  PROVE  /\ Cardinality(S) \in Nat /\ Cardinality(T) \in Nat
         /\ Cardinality(S) <= Cardinality(T)
  <1>1. IsFiniteSet(Cycles)
    BY HandoffAssumption, FS_Interval DEF Cycles
  <1>2. IsFiniteSet(T)
    BY <1>1, FS_Subset
  <1> QED
    BY <1>2, FS_Subset, FS_CardinalityType

\* What a snapshot takes for excess has so many newer directories.
LEMMA SnapshotIsJustified ==
  ASSUME HandoffInv, NEW p \in Phases, NEW c \in Snapshot(p).excess
  PROVE  Cardinality(Newer(c)) >= MaxBacklog
  <1>1. c \in Pending(p) /\ Cardinality({d \in Pending(p) : d > c}) >= MaxBacklog
    BY DEF Snapshot, Excess
  <1>2. {d \in Pending(p) : d > c} \subseteq Newer(c) /\ Newer(c) \subseteq Cycles
    BY DEF Pending, Newer, HandoffInv, HandoffType
  <1>3. /\ Cardinality({d \in Pending(p) : d > c}) \in Nat /\ Cardinality(Newer(c)) \in Nat
        /\ Cardinality({d \in Pending(p) : d > c}) <= Cardinality(Newer(c))
    BY <1>2, CyclesAreFinite
  <1> QED
    BY <1>1, <1>3, HandoffAssumption

\* The excess of a drain stays justified while the primary goes on.
LEMMA NextExcessIsJustified ==
  HandoffInv /\ ExcessIsJustified /\ [Next]_vars => ExcessIsJustified'
  <1> SUFFICES ASSUME HandoffInv, ExcessIsJustified, [Next]_vars, HandoffInv'
               PROVE  ExcessIsJustified'
    BY NextHandoffInv
  <1>0. drain \in [phase: Phases \cup {"none"}, left: SUBSET Cycles,
                   excess: SUBSET Cycles, unread: SUBSET Cycles, cycle: CycleOrNone]
    BY DEF HandoffInv, HandoffType
  <1>1. dirs \subseteq dirs' /\ dirs' \subseteq Cycles
    <2>1. dirs' \subseteq Cycles
      BY DEF HandoffInv, HandoffType
    <2> QED
      BY <2>1 DEF Next, Primary, Consumer, BeginAttempt, MakeCycleDir, CommitRecord,
                  SkipPublication, SettleCycle, RetryCycle, PrimaryCrash, StartPass, DrainStep,
                  AbandonBacklog, StopAtUnreadable, RejectUnsound, Render, FailRender,
                  MarkUnrecoverable, StopDrain, RecordRendered, EndDrain, PassDies,
                  DamageRecord, vars, primVars
  <1>2. CASE drain'.excess = drain.excess
    <2> SUFFICES ASSUME NEW c \in drain.excess
                 PROVE  Cardinality({d \in dirs' : d > c}) >= MaxBacklog
      BY <1>2 DEF ExcessIsJustified, Newer
    <2>1. Cardinality(Newer(c)) >= MaxBacklog
      BY DEF ExcessIsJustified
    <2>2. Newer(c) \subseteq {d \in dirs' : d > c} /\ {d \in dirs' : d > c} \subseteq Cycles
      BY <1>1 DEF Newer
    <2>3. /\ Cardinality(Newer(c)) \in Nat /\ Cardinality({d \in dirs' : d > c}) \in Nat
          /\ Cardinality(Newer(c)) <= Cardinality({d \in dirs' : d > c})
      BY <2>2, CyclesAreFinite
    <2> QED
      BY <2>1, <2>3, HandoffAssumption
  <1>3. ASSUME NEW p \in Phases, drain' = Snapshot(p), dirs' = dirs PROVE ExcessIsJustified'
    BY <1>3, SnapshotIsJustified DEF ExcessIsJustified, Newer
  <1>4. CASE drain' = Idle
    BY <1>4 DEF Idle, ExcessIsJustified
  <1>5. CASE StartPass \/ EndDrain
    <2>1. dirs' = dirs /\ "mrms" \in Phases /\ "rap" \in Phases
      BY <1>5 DEF StartPass, EndDrain, primVars, Phases
    <2> QED
      BY <1>3, <1>4, <1>5, <2>1 DEF StartPass, EndDrain
  <1>6. CASE PassDies
    BY <1>4, <1>6 DEF PassDies
  <1>7. CASE DrainStep \/ RecordRendered
    BY <1>0, <1>2, <1>7 DEF DrainStep, AbandonBacklog, StopAtUnreadable, RejectUnsound, Render,
                            FailRender, MarkUnrecoverable, StopDrain, RecordRendered
  <1>8. CASE Primary \/ (\E p \in Phases, c \in Cycles : DamageRecord(p, c)) \/ UNCHANGED vars
    BY <1>2, <1>8 DEF Primary, BeginAttempt, MakeCycleDir, CommitRecord, SkipPublication,
                      SettleCycle, RetryCycle, PrimaryCrash, DamageRecord, vars, consVars
  <1> QED
    BY <1>5, <1>6, <1>7, <1>8 DEF Next, Consumer

\* A record that could have been rendered is given up only when the backlog cap says so,
\* by the directories there are at that moment and not only by those of the snapshot:
\* what fails validation is not such a record, and a failed read gives nothing up
\* (drain_phase_records).
THEOREM SkipsAreJustified == Spec => SkipJustified
  <1> DEFINE Justified ==
        \A p \in Phases : \A c \in skipped'[p] \ skipped[p] :
            file[p][c].state = "whole" /\ file[p][c].manifest \in Sound =>
                Cardinality({d \in dirs : d > c}) >= MaxBacklog
  <1>1. HandoffInv /\ ExcessIsJustified /\ [Next]_vars => [Justified]_vars
    <2> SUFFICES ASSUME HandoffInv, ExcessIsJustified, Next, NEW p \in Phases,
                        NEW c \in skipped'[p] \ skipped[p],
                        file[p][c].state = "whole", file[p][c].manifest \in Sound
                 PROVE  Cardinality({d \in dirs : d > c}) >= MaxBacklog
      OBVIOUS
    <2>1. PICK d \in Cycles : AbandonBacklog(d) \/ RejectUnsound(d)
      <3>1. skipped' # skipped
        OBVIOUS
      <3> QED
        BY <3>1 DEF Next, Primary, Consumer, BeginAttempt, MakeCycleDir, CommitRecord,
                    SkipPublication, SettleCycle, RetryCycle, PrimaryCrash, StartPass, DrainStep,
                    StopAtUnreadable, Render, FailRender, StopDrain, RecordRendered, EndDrain,
                    PassDies, DamageRecord, consVars
    <2>2. c = d /\ p = drain.phase
      BY <2>1 DEF AbandonBacklog, RejectUnsound, MarkUnrecoverable, HandoffInv, HandoffType
    <2>3. CASE AbandonBacklog(d)
      BY <2>2, <2>3 DEF AbandonBacklog, ExcessIsJustified, Newer
    <2>4. CASE RejectUnsound(d)
      BY <2>2, <2>4 DEF RejectUnsound, Unsound
    <2> QED
      BY <2>1, <2>3, <2>4
  <1> HIDE DEF Justified
  <1>2. Init => ExcessIsJustified
    BY DEF Init, Idle, ExcessIsJustified
  <1>3. Spec => [][Justified]_vars
    BY <1>1, <1>2, NextExcessIsJustified, HandoffInvariant, PTL DEF Spec
  <1> QED
    BY <1>3 DEF SkipJustified, Justified

=============================================================================
