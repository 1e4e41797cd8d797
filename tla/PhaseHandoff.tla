---------------------------- MODULE PhaseHandoff ----------------------------
(***************************************************************************)
(* The durable handoff from the primary service to EWMRS.  The primary     *)
(* commits one immutable record per cycle and phase beneath                *)
(* state/realtime/cycles (src/src/util/runtime/handoff.py); the EWMRS      *)
(* consumer drains each phase in cycle order behind a durable checkpoint   *)
(* (src/src/util/runtime/ewmrs_consumer.py).                               *)
(*                                                                         *)
(* A cycle is its timestamp; cycle ids order as timestamps do.  Attempts of *)
(* the same cycle may pin different files, hence different manifests.       *)
(***************************************************************************)
EXTENDS Integers, FiniteSets

CONSTANTS
    MaxCycle,    \* newest cycle (bounds the model)
    Manifests,   \* input selections an attempt of a cycle may pin
    Sound,       \* those the consumer finds aligned and on disk when it reads
    MaxBacklog,  \* cycle.max_backlog_cycles
    MaxCrashes,  \* deaths of the primary (bounds the model)
    MaxDeaths,   \* consumer passes cut short (bounds the model)
    MaxFailures, \* renderer exceptions (bounds the model)
    MaxDamage,   \* records damaged on disk (bounds the model)
    MaxFaults    \* crashes, deaths, failures and damage in all (bounds the model)

ASSUME HandoffAssumption ==
    /\ MaxCycle \in Nat \ {0}
    /\ Sound \subseteq Manifests
    /\ MaxBacklog \in Nat
    /\ MaxCrashes \in Nat
    /\ MaxDeaths \in Nat
    /\ MaxFailures \in Nat
    /\ MaxDamage \in Nat
    /\ MaxFaults \in Nat

VARIABLES
    dirs,      \* cycle directories on disk
    file,      \* file[p][c]: the record of phase p in the directory of cycle c
    prim,      \* the primary: its cursor and the attempt under way
    cp,        \* cp[p]: the consumer's durable checkpoint of phase p, 0 for none
    drain,     \* the consumer's pass
    rendered,  \* history: rendered[p][c] counts the renders of cycle c
    skipped,   \* history: skipped[p], cycles marked unrecoverable
    late,      \* history: cycles whose directory came after a newer one
    faults     \* history: crashes, deaths, failures and damage so far

primVars == <<dirs, prim, late>>
consVars == <<cp, drain, rendered, skipped>>
vars == <<dirs, file, prim, cp, drain, rendered, skipped, late, faults>>

Cycles == 1..MaxCycle
CycleOrNone == 0..MaxCycle
None == 0
Phases == {"mrms", "rap"}

(***************************************************************************)
(* Record files.                                                           *)
(***************************************************************************)
File == [state: {"absent", "damaged"}] \cup [state: {"whole"}, manifest: Manifests]
Absent == [state |-> "absent"]
Damaged == [state |-> "damaged"]
Whole(m) == [state |-> "whole", manifest |-> m]

\* Fault variant: a republication replaces the committed record.
PublishOverwrites(f, m) == Whole(m)

\* An existing readable record stays, whether the new one is the same or not;
\* a missing or unreadable one is written in one atomic replace.
Publish(f, m) == IF f.state = "whole" THEN f ELSE Whole(m)

(***************************************************************************)
(* The consumer's selection: cycles after the checkpoint, the oldest of    *)
(* them beyond the backlog cap, and those whose record could not be read.  *)
(***************************************************************************)
Pending(p) == {c \in dirs : c > cp[p]}

\* Fault variant: off by one, the cap counts the cycle itself.
ExcessOffByOne(p) ==
    {c \in Pending(p) : Cardinality({d \in Pending(p) : d > c}) + 1 >= MaxBacklog}

Excess(p) ==
    {c \in Pending(p) : Cardinality({d \in Pending(p) : d > c}) >= MaxBacklog}

Unread(p) == {c \in Pending(p) : file[p][c].state # "whole"}

Idle == [phase |-> "none", left |-> {}, excess |-> {}, unread |-> {}, cycle |-> None]

Snapshot(p) ==
    [phase |-> p, left |-> Pending(p), excess |-> Excess(p), unread |-> Unread(p),
     cycle |-> None]

IsHead(c) == c \in drain.left /\ \A d \in drain.left : c <= d

Faults == faults.crashes + faults.deaths + faults.failures + faults.damage

Init ==
    /\ dirs = {}
    /\ file = [p \in Phases |-> [c \in Cycles |-> Absent]]
    /\ prim = [cursor |-> None, owned |-> None, stage |-> "idle"]
    /\ cp = [p \in Phases |-> None]
    /\ drain = Idle
    /\ rendered = [p \in Phases |-> [c \in Cycles |-> 0]]
    /\ skipped = [p \in Phases |-> {}]
    /\ late = {}
    /\ faults = [crashes |-> 0, deaths |-> 0, failures |-> 0, damage |-> 0]

(***************************************************************************)
(* The primary: one attempt publishes mrms-ready, then rap-ready.          *)
(***************************************************************************)
BeginAttempt(c, m) ==
    /\ prim.stage = "idle"
    /\ c > prim.cursor
    /\ prim.owned \in {None, c}
    /\ prim' = [cursor |-> prim.cursor, owned |-> c, stage |-> "mrms", manifest |-> m]
    /\ UNCHANGED <<dirs, file, late, faults, consVars>>

Publishing == prim.stage \in Phases

\* rap-ready follows mrms-ready; after both the rest of the cycle runs.
Published ==
    IF prim.stage = "mrms"
    THEN [prim EXCEPT !.stage = "rap"]
    ELSE [cursor |-> prim.cursor, owned |-> prim.owned, stage |-> "cycle"]

\* publish() makes the directory before it writes the record into it.
MakeCycleDir ==
    /\ Publishing
    /\ prim.owned \notin dirs
    /\ dirs' = dirs \cup {prim.owned}
    /\ late' = late \cup {c \in {prim.owned} : \E d \in dirs : d > c}
    /\ UNCHANGED <<file, prim, faults, consVars>>

CommitRecord ==
    /\ Publishing
    /\ prim.owned \in dirs
    /\ file' = [file EXCEPT ![prim.stage][prim.owned] = Publish(@, prim.manifest)]
    /\ prim' = Published
    /\ UNCHANGED <<dirs, late, faults, consVars>>

\* Ingest failed before the callback, RAP is not staged, or publish raised.
SkipPublication ==
    /\ Publishing
    /\ prim' = Published
    /\ UNCHANGED <<dirs, file, late, faults, consVars>>

SettleCycle ==
    /\ prim.stage = "cycle"
    /\ prim' = [cursor |-> prim.owned, owned |-> None, stage |-> "idle"]
    /\ UNCHANGED <<dirs, file, late, faults, consVars>>

RetryCycle ==
    /\ prim.stage = "cycle"
    /\ prim' = [cursor |-> prim.cursor, owned |-> prim.owned, stage |-> "idle"]
    /\ UNCHANGED <<dirs, file, late, faults, consVars>>

\* A restart resumes the interrupted scan or, when no failure of it is on
\* record, forgets it (PrimaryCycle models which).
PrimaryCrash ==
    /\ prim.stage # "idle"
    /\ faults.crashes < MaxCrashes /\ Faults < MaxFaults
    /\ \E owned \in {None, prim.owned} :
         prim' = [cursor |-> prim.cursor, owned |-> owned, stage |-> "idle"]
    /\ faults' = [faults EXCEPT !.crashes = @ + 1]
    /\ UNCHANGED <<dirs, file, late, consVars>>

\* The disk, or a foreign writer, spoils a committed record.
DamageRecord(p, c) ==
    /\ faults.damage < MaxDamage /\ Faults < MaxFaults
    /\ file[p][c].state = "whole"
    /\ file' = [file EXCEPT ![p][c] = Damaged]
    /\ faults' = [faults EXCEPT !.damage = @ + 1]
    /\ UNCHANGED <<primVars, consVars>>

(***************************************************************************)
(* The consumer: a pass drains mrms-ready, then rap-ready.                 *)
(***************************************************************************)
StartPass ==
    /\ drain.phase = "none"
    /\ drain' = Snapshot("mrms")
    /\ UNCHANGED <<cp, rendered, skipped, file, faults, primVars>>

MarkUnrecoverable(c) ==
    /\ cp' = [cp EXCEPT ![drain.phase] = c]
    /\ skipped' = [skipped EXCEPT ![drain.phase] = @ \cup {c}]
    /\ drain' = [drain EXCEPT !.left = @ \ {c}]
    /\ UNCHANGED <<rendered, file, faults, primVars>>

StopDrain ==
    /\ drain' = [drain EXCEPT !.left = {}]
    /\ UNCHANGED <<cp, rendered, skipped, file, primVars>>

\* Whatever the state of its record, a cycle beyond the cap is given up.
AbandonBacklog(c) ==
    /\ IsHead(c)
    /\ drain.cycle = None
    /\ c \in drain.excess
    /\ MarkUnrecoverable(c)

\* A cycle the drain may render: within the cap, readable in the snapshot and
\* again when it is re-read.
Readable(c) ==
    /\ IsHead(c)
    /\ drain.cycle = None
    /\ c \notin drain.excess
    /\ c \notin drain.unread
    /\ file[drain.phase][c].state = "whole"

Unsound(c) == drain.phase = "rap" /\ file["rap"][c].manifest \notin Sound
StopAtUnreadable(c) ==
    /\ IsHead(c)
    /\ drain.cycle = None
    /\ c \notin drain.excess
    /\ c \in drain.unread \/ file[drain.phase][c].state # "whole"
    /\ StopDrain
    /\ UNCHANGED faults

\* Fault variant: a record that fails validation stops the drain.
RejectUnsoundStops(c) ==
    /\ Readable(c)
    /\ Unsound(c)
    /\ StopDrain
    /\ UNCHANGED faults

RejectUnsound(c) ==
    /\ Readable(c)
    /\ Unsound(c)
    /\ MarkUnrecoverable(c)

\* The handler has run; the checkpoint is written by a step of its own.
Render(c) ==
    /\ Readable(c)
    /\ ~Unsound(c)
    /\ rendered' = [rendered EXCEPT ![drain.phase][c] = @ + 1]
    /\ drain' = [drain EXCEPT !.cycle = c]
    /\ UNCHANGED <<cp, skipped, file, faults, primVars>>

\* Fault variant: the checkpoint passes the record whose renderer raised.
FailRenderPasses(c) ==
    /\ Readable(c)
    /\ ~Unsound(c)
    /\ faults.failures < MaxFailures /\ Faults < MaxFaults
    /\ faults' = [faults EXCEPT !.failures = @ + 1]
    /\ cp' = [cp EXCEPT ![drain.phase] = c]
    /\ drain' = [drain EXCEPT !.left = @ \ {c}]
    /\ UNCHANGED <<rendered, skipped, file, primVars>>

FailRender(c) ==
    /\ Readable(c)
    /\ ~Unsound(c)
    /\ faults.failures < MaxFailures /\ Faults < MaxFaults
    /\ faults' = [faults EXCEPT !.failures = @ + 1]
    /\ StopDrain

RecordRendered ==
    /\ drain.cycle # None
    /\ cp' = [cp EXCEPT ![drain.phase] = drain.cycle]
    /\ drain' = [drain EXCEPT !.left = @ \ {drain.cycle}, !.cycle = None]
    /\ UNCHANGED <<rendered, skipped, file, faults, primVars>>

EndDrain ==
    /\ drain.phase # "none"
    /\ drain.left = {}
    /\ drain' = IF drain.phase = "mrms" THEN Snapshot("rap") ELSE Idle
    /\ UNCHANGED <<cp, rendered, skipped, file, faults, primVars>>

\* The consumer process dies, or a checkpoint write raises, anywhere in a pass.
PassDies ==
    /\ drain.phase # "none"
    /\ faults.deaths < MaxDeaths /\ Faults < MaxFaults
    /\ faults' = [faults EXCEPT !.deaths = @ + 1]
    /\ drain' = Idle
    /\ UNCHANGED <<cp, rendered, skipped, file, primVars>>

Primary ==
    \/ \E c \in Cycles, m \in Manifests : BeginAttempt(c, m)
    \/ MakeCycleDir \/ CommitRecord \/ SkipPublication
    \/ SettleCycle \/ RetryCycle \/ PrimaryCrash

DrainStep ==
    \E c \in Cycles :
        \/ AbandonBacklog(c) \/ StopAtUnreadable(c) \/ RejectUnsound(c)
        \/ Render(c) \/ FailRender(c)

Consumer == StartPass \/ DrainStep \/ RecordRendered \/ EndDrain

Next ==
    \/ Primary
    \/ Consumer
    \/ PassDies
    \/ \E p \in Phases, c \in Cycles : DamageRecord(p, c)

\* The consumer loop polls forever and its supervisor restarts it; nothing is
\* assumed of the primary.
Spec == Init /\ [][Next]_vars
FairSpec == Spec /\ WF_vars(Consumer)

-----------------------------------------------------------------------------

\* Types of the variables.
TypeOK ==
    /\ dirs \subseteq Cycles
    /\ file \in [Phases -> [Cycles -> File]]
    /\ prim \in [cursor: CycleOrNone, owned: CycleOrNone, stage: {"idle"}]
            \cup [cursor: CycleOrNone, owned: Cycles, stage: {"cycle"}]
            \cup [cursor: CycleOrNone, owned: Cycles, stage: Phases,
                  manifest: Manifests]
    /\ cp \in [Phases -> CycleOrNone]
    /\ drain \in [phase: Phases \cup {"none"}, left: SUBSET Cycles,
                  excess: SUBSET Cycles, unread: SUBSET Cycles, cycle: CycleOrNone]
    /\ rendered \in [Phases -> [Cycles -> Nat]]
    /\ skipped \in [Phases -> SUBSET Cycles]
    /\ late \subseteq dirs
    /\ faults \in [crashes: 0..MaxCrashes, deaths: 0..MaxDeaths,
                   failures: 0..MaxFailures, damage: 0..MaxDamage]

\* A committed record is immutable: no retry, restart or duplicate publication
\* replaces a readable record, whatever its attempt pinned.
CommittedImmutable ==
    [][\A p \in Phases, c \in Cycles :
         file[p][c].state = "whole" => file'[p][c] \in {file[p][c], Damaged}]_vars

\* The checkpoint passes no cycle silently: each one at or below it was
\* rendered, or marked unrecoverable, or its directory appeared after that of a
\* newer cycle, which takes a crash that makes the primary forget the newer one.
NothingSilentlyDropped ==
    /\ \A p \in Phases, c \in dirs :
          c <= cp[p] => rendered[p][c] > 0 \/ c \in skipped[p] \/ c \in late
    /\ late # {} => faults.crashes > 0

\* A record is rendered again only when a pass died between a render and its
\* checkpoint: a drain works from a snapshot, and neither repeats nor falls
\* behind its own progress.
RenderedOncePerDeath ==
    \A p \in Phases, c \in Cycles : rendered[p][c] <= 1 + faults.deaths

\* Every record the consumer has passed was dealt with, and not over and over.
RecordsAreDealtWith == NothingSilentlyDropped /\ RenderedOncePerDeath

\* A sound, readable record is given up only when at least MaxBacklog newer
\* cycles wait behind it.
SkipJustified ==
    [][\A p \in Phases : \A c \in skipped'[p] \ skipped[p] :
         file[p][c].state = "whole" /\ file[p][c].manifest \in Sound =>
             Cardinality({d \in dirs : d > c}) >= MaxBacklog]_vars

\* A cycle is eventually passed if from some time on its record and those of
\* all older cycles stay readable.
PassedWhenReadable ==
    \A p \in Phases, c \in Cycles :
        <>[](c \in dirs /\ \A d \in dirs : d <= c => file[p][d].state = "whole")
            => <>(cp[p] >= c)

\* What docs/core/ingestion.md says: malformed records are marked
\* unrecoverable.  A drain that runs to its end then leaves none behind.
MalformedIsMarked ==
    [][EndDrain => \A c \in drain.unread :
         file[drain.phase][c].state = "damaged" => c \in skipped[drain.phase]]_vars

=============================================================================
