-------------------------- MODULE CyclePublication --------------------------
(***************************************************************************)
(* What one primary cycle leaves on disk.  A run of a cycle detects the    *)
(* cells of its scan, commits them to the StormProb database, and then     *)
(* publishes a snapshot, the histories of the touched cells and the module *)
(* routes through a multi-file journal, and lists the cycle in the API     *)
(* index.  Every database transaction and every replacement of a file is   *)
(* a step, a run may fail or be killed between any two of them, and the    *)
(* next run recovers what its predecessors left behind.                    *)
(*                                                                         *)
(* One storm cell is followed: it is active in every cycle, so every run   *)
(* touches its history and its age never exceeds the retention limit.  A   *)
(* payload is identified by the run that computed it.                      *)
(***************************************************************************)
EXTENDS Integers, Sequences, SequencesExt

CONSTANTS
    MaxCycle,     \* cycles are 1 .. MaxCycle in the order of their scan times
    MaxCycleRuns, \* bound: runs of the cycle worker
    MaxFaults     \* bound: runs killed or failed, and errors that are swallowed

ASSUME PublicationConstants ==
    MaxCycle \in Nat \ {0} /\ MaxCycleRuns \in Nat /\ MaxFaults \in Nat

VARIABLES
    pc,       \* what the running cycle worker does next, "idle" without one
    cycle,    \* the cycle of the current or latest run, 0 before the first
    run,      \* its number; the runs so far
    caller,   \* who called recover(): "detection" or "publication"
    pending,  \* the cycles the detection found to be pending
    restored, \* whether its recovery restored anything
    plan,     \* the history this run is going to publish
    row,      \* cycles: the projection state of each row, or "absent"
    obs,      \* cell_observations of the cell: who wrote each, and when
    snapshot, \* stormcells_<cycle>.json
    history,  \* cells/<id>.json
    routes,   \* the run whose module routes are public
    index,    \* the cycles stormcell_index.json lists
    journal,  \* the transaction journal of each cycle
    parts,    \* the prepared files of each cycle that are not yet in place
    settled,  \* the newest cycle the primary counts as done or given up
    killed,   \* the primary was killed in the latest run
    late,     \* a run was started for a scan older than an earlier run's
    faults

workerVars == <<pc, cycle, run, caller, pending, restored, plan>>
databaseVars == <<row, obs>>
publicVars == <<snapshot, history, routes, index>>
journalVars == <<journal, parts>>
primaryVars == <<settled, killed, late, faults>>
publicationVars == <<workerVars, databaseVars, publicVars, journalVars, primaryVars>>

Cycles == 1 .. MaxCycle
Targets == <<"snapshot", "history", "routes">> \* the order of the payloads

Nothing == [run |-> 0, stage |-> "none"]
Payload(r, stage) == [run |-> r, stage |-> stage]
NoJournal == [state |-> "absent", run |-> 0, history |-> <<>>]
NoParts == [run |-> 0, history |-> <<>>, left |-> {}]

PublicationInit ==
    /\ pc = "idle" /\ cycle = 0 /\ run = 0
    /\ caller = "detection" /\ pending = {} /\ restored = FALSE /\ plan = <<>>
    /\ row = [t \in Cycles |-> "absent"]
    /\ obs = [t \in Cycles |-> Nothing]
    /\ snapshot = [t \in Cycles |-> Nothing]
    /\ history = <<>> /\ routes = 0 /\ index = {}
    /\ journal = [t \in Cycles |-> NoJournal]
    /\ parts = [t \in Cycles |-> NoParts]
    /\ settled = 0 /\ killed = FALSE /\ late = FALSE /\ faults = 0

Goto(label) == pc' = label /\ UNCHANGED <<cycle, run>>

-----------------------------------------------------------------------------
\* The database.

\* commit_cycle: one transaction upserts the row and the observation.
CommitCycle(projection, stage) ==
    /\ row' = [row EXCEPT ![cycle] = projection]
    /\ obs' = [obs EXCEPT ![cycle] = Payload(run, stage)]

\* The observations of the cell, oldest first.
ObservedUpTo[t \in 0 .. MaxCycle] ==
    IF t = 0 THEN <<>>
    ELSE IF obs[t] = Nothing THEN ObservedUpTo[t - 1]
    ELSE Append(ObservedUpTo[t - 1], [cycle |-> t, by |-> obs[t]])

LegacyHistory == ObservedUpTo[MaxCycle]

\* projection_json is written in the transaction that writes the observation.
Projection(t) == Payload(obs[t].run, "final")

\* Cycles with a committed projection in one of the given states and a file.
IndexProjection(states) ==
    {t \in Cycles : row[t] \in states /\ snapshot[t] # Nothing}

-----------------------------------------------------------------------------
\* The primary starts a run: of the cycle it retries or of a newer one, or,
\* after it was killed and lost track, of any cycle it has not settled.
BeginRun(t) ==
    /\ pc = "idle" /\ run < MaxCycleRuns
    /\ t > settled /\ (~killed => t >= cycle)
    /\ pc' = "read pending" /\ cycle' = t /\ run' = run + 1
    /\ settled' = IF ~killed /\ t > cycle THEN cycle ELSE settled
    /\ late' = (late \/ t < cycle)
    /\ killed' = FALSE /\ restored' = FALSE
    /\ UNCHANGED <<caller, pending, plan, databaseVars, publicVars,
                   journalVars, faults>>

ReadPending ==
    /\ pc = "read pending" /\ Goto("recover")
    /\ pending' = {t \in Cycles : row[t] = "pending"}
    /\ caller' = "detection"
    /\ UNCHANGED <<restored, plan, databaseVars, publicVars, journalVars,
                   primaryVars>>

-----------------------------------------------------------------------------
\* CTAMPublicationCoordinator.recover(), called by the detection and again
\* by the publication.

\* What a prepared file holds goes to where it belongs.
Install(target, t, from) ==
    /\ snapshot' = IF target = "snapshot"
                   THEN [snapshot EXCEPT ![t] = Payload(from.run, "final")]
                   ELSE snapshot
    /\ history' = IF target = "history" THEN from.history ELSE history
    /\ routes' = IF target = "routes" THEN from.run ELSE routes
    /\ UNCHANGED index

InPlace(target, t) ==
    CASE target = "snapshot" -> snapshot[t] = Payload(journal[t].run, "final")
      [] target = "history" -> history = journal[t].history
      [] target = "routes" -> routes = journal[t].run

PartIsGood(target, t) ==
    /\ target \in parts[t].left
    /\ parts[t].run = journal[t].run /\ parts[t].history = journal[t].history

\* target is the first of the journal of t that is not in place.
NextTarget(target, t) ==
    /\ pc = "recover" /\ journal[t].state = "prepared"
    /\ \E i \in DOMAIN Targets :
          /\ target = Targets[i] /\ ~InPlace(target, t)
          /\ \A j \in 1 .. i - 1 : InPlace(Targets[j], t)

RecoverTarget(t) ==
    /\ \E target \in ToSet(Targets) :
          /\ NextTarget(target, t) /\ PartIsGood(target, t)
          /\ Install(target, t, parts[t])
          /\ parts' = [parts EXCEPT ![t].left = @ \ {target}]
    /\ UNCHANGED <<workerVars, databaseVars, journal, primaryVars>>

JournalRecovered(t) ==
    /\ pc = "recover" /\ journal[t].state = "prepared"
    /\ \A target \in ToSet(Targets) : InPlace(target, t)
    /\ journal' = [journal EXCEPT ![t].state = "committed"]
    /\ restored' = TRUE
    /\ UNCHANGED <<pc, cycle, run, caller, pending, plan, databaseVars,
                   publicVars, parts, primaryVars>>

\* A prepared file is missing or is not the one the journal names.
QuarantineJournal(t) ==
    /\ \E target \in ToSet(Targets) :
          NextTarget(target, t) /\ ~PartIsGood(target, t)
    /\ journal' = [journal EXCEPT ![t] = NoJournal]
    /\ UNCHANGED <<workerVars, databaseVars, publicVars, parts, primaryVars>>

\* Any error, such as a database that stays locked, is taken for a damaged
\* journal.
QuarantineOnError(t) ==
    /\ pc = "recover" /\ journal[t].state = "prepared"
    /\ faults < MaxFaults /\ faults' = faults + 1
    /\ journal' = [journal EXCEPT ![t] = NoJournal]
    /\ UNCHANGED <<workerVars, databaseVars, publicVars, parts, settled,
                   killed, late>>

JournalsRecovered ==
    /\ pc = "recover" /\ \A t \in Cycles : journal[t].state # "prepared"
    /\ Goto(IF caller = "detection" THEN "restore" ELSE "write parts")
    /\ UNCHANGED <<caller, pending, restored, plan, databaseVars, publicVars,
                   journalVars, primaryVars>>

-----------------------------------------------------------------------------
\* The rest of the recovery at the start of a detection.

SnapshotLags(t) == row[t] = "pending" /\ snapshot[t] # Projection(t)

RestoreSnapshot(t) ==
    /\ pc = "restore" /\ SnapshotLags(t)
    /\ \A s \in 1 .. t - 1 : ~SnapshotLags(s)
    /\ snapshot' = [snapshot EXCEPT ![t] = Projection(t)]
    /\ restored' = TRUE
    /\ UNCHANGED <<pc, cycle, run, caller, pending, plan, databaseVars,
                   history, routes, index, journalVars, primaryVars>>

HistoryLags ==
    history # LegacyHistory /\ \E t \in Cycles : row[t] = "pending"

RestoreHistory ==
    /\ pc = "restore" /\ \A t \in Cycles : ~SnapshotLags(t)
    /\ HistoryLags
    /\ history' = LegacyHistory
    /\ restored' = TRUE
    /\ UNCHANGED <<pc, cycle, run, caller, pending, plan, databaseVars,
                   snapshot, routes, index, journalVars, primaryVars>>

ProjectionsRecovered ==
    /\ pc = "restore" /\ \A t \in Cycles : ~SnapshotLags(t)
    /\ ~HistoryLags
    /\ Goto(IF pending # {} \/ restored THEN "reindex" ELSE "detect")
    /\ UNCHANGED <<caller, pending, restored, plan, databaseVars, publicVars,
                   journalVars, primaryVars>>

\* Fault variant: the recovered cycles are not in the index yet.
InitializeIndexesPublishedOnly ==
    /\ pc = "reindex" /\ Goto("mark")
    /\ index' = IndexProjection({"published"})
    /\ UNCHANGED <<caller, pending, restored, plan, databaseVars, snapshot,
                   history, routes, journalVars, primaryVars>>

InitializeIndexes ==
    /\ pc = "reindex" /\ Goto("mark")
    /\ index' = IndexProjection({"published", "pending"})
    /\ UNCHANGED <<caller, pending, restored, plan, databaseVars, snapshot,
                   history, routes, journalVars, primaryVars>>

MarkPending(t) ==
    /\ pc = "mark" /\ t \in pending /\ snapshot[t] # Nothing
    /\ row' = [row EXCEPT ![t] = "published"]
    /\ pending' = pending \ {t}
    /\ UNCHANGED <<pc, cycle, run, caller, restored, plan, obs, publicVars,
                   journalVars, primaryVars>>

AllMarked ==
    /\ pc = "mark" /\ pending = {} /\ Goto("detect")
    /\ UNCHANGED <<caller, pending, restored, plan, databaseVars, publicVars,
                   journalVars, primaryVars>>

Recovering ==
    \/ pc \in {"read pending", "restore", "reindex", "mark"}
    \/ pc = "recover" /\ caller = "detection"

\* Whatever goes wrong in the recovery is logged; the detection goes on.
RecoveryFails ==
    /\ Recovering /\ faults < MaxFaults
    /\ faults' = faults + 1 /\ pending' = {}
    /\ Goto("detect")
    /\ UNCHANGED <<caller, restored, plan, databaseVars, publicVars,
                   journalVars, settled, killed, late>>

-----------------------------------------------------------------------------
\* The detection and the input side of the integration.

SaveDetection ==
    /\ pc = "detect" /\ Goto("commit inputs")
    /\ snapshot' = [snapshot EXCEPT ![cycle] = Payload(run, "detected")]
    /\ UNCHANGED <<caller, pending, restored, plan, databaseVars, history,
                   routes, index, journalVars, primaryVars>>

CommitInputs ==
    /\ pc = "commit inputs" /\ Goto("prepare")
    /\ CommitCycle("none", "input")
    /\ UNCHANGED <<caller, pending, restored, plan, publicVars, journalVars,
                   primaryVars>>

\* The failure is a warning: CTAM then works without this cycle's inputs.
InputsNotCommitted ==
    /\ pc = "commit inputs" /\ Goto("prepare")
    /\ faults < MaxFaults /\ faults' = faults + 1
    /\ UNCHANGED <<caller, pending, restored, plan, databaseVars, publicVars,
                   journalVars, settled, killed, late>>

-----------------------------------------------------------------------------
\* _publish_cycle.

\* The newest entry is refreshed if it is this cycle's, else one is added.
\* The database knows the history, or the file if the database knows none.
UpdatedHistory ==
    LET known == IF LegacyHistory # <<>> THEN LegacyHistory ELSE history
        entry == [cycle |-> cycle, by |-> Payload(run, "final")]
    IN  IF known # <<>> /\ Last(known).cycle = cycle
        THEN Front(known) \o <<entry>>
        ELSE Append(known, entry)

PrepareHistory ==
    /\ pc = "prepare" /\ Goto("commit projection")
    /\ plan' = UpdatedHistory
    /\ UNCHANGED <<caller, pending, restored, databaseVars, publicVars,
                   journalVars, primaryVars>>

\* Fault variants: no recovery before the publication, and a projection that
\* is taken for published as soon as it is committed.
CommitProjectionUnrecovered ==
    /\ pc = "commit projection" /\ Goto("write parts")
    /\ CommitCycle("pending", "final")
    /\ caller' = "publication"
    /\ UNCHANGED <<pending, restored, plan, publicVars, journalVars,
                   primaryVars>>

CommitProjectionAsPublished ==
    /\ pc = "commit projection" /\ Goto("recover")
    /\ CommitCycle("published", "final")
    /\ caller' = "publication"
    /\ UNCHANGED <<pending, restored, plan, publicVars, journalVars,
                   primaryVars>>

CommitProjection ==
    /\ pc = "commit projection" /\ Goto("recover")
    /\ CommitCycle("pending", "final")
    /\ caller' = "publication"
    /\ UNCHANGED <<pending, restored, plan, publicVars, journalVars,
                   primaryVars>>

WriteParts ==
    /\ pc = "write parts" /\ Goto("write journal")
    /\ row[cycle] # "absent"
    /\ parts' = [parts EXCEPT ![cycle] = [run |-> run, history |-> plan,
                                          left |-> ToSet(Targets)]]
    /\ UNCHANGED <<caller, pending, restored, plan, databaseVars, publicVars,
                   journal, primaryVars>>

WriteJournal ==
    /\ pc = "write journal" /\ Goto("replace")
    /\ journal' = [journal EXCEPT ![cycle] = [state |-> "prepared",
                                              run |-> run, history |-> plan]]
    /\ UNCHANGED <<caller, pending, restored, plan, databaseVars, publicVars,
                   parts, primaryVars>>

\* One os.replace, in the order of the payloads.
ReplaceTarget ==
    /\ pc = "replace"
    /\ \E i \in DOMAIN Targets :
          /\ Targets[i] \in parts[cycle].left
          /\ \A j \in 1 .. i - 1 : Targets[j] \notin parts[cycle].left
          /\ Install(Targets[i], cycle, parts[cycle])
          /\ parts' = [parts EXCEPT ![cycle].left = @ \ {Targets[i]}]
    /\ Goto(IF parts'[cycle].left = {} THEN "index" ELSE "replace")
    /\ UNCHANGED <<caller, pending, restored, plan, databaseVars, journal,
                   primaryVars>>

PublishIndexes ==
    /\ pc = "index" /\ Goto("commit journal")
    /\ index' = IndexProjection({"published"})
                \cup {t \in {cycle} : snapshot[t] # Nothing}
    /\ UNCHANGED <<caller, pending, restored, plan, databaseVars, snapshot,
                   history, routes, journalVars, primaryVars>>

CommitJournal ==
    /\ pc = "commit journal" /\ Goto("mark published")
    /\ journal' = [journal EXCEPT ![cycle].state = "committed"]
    /\ UNCHANGED <<caller, pending, restored, plan, databaseVars, publicVars,
                   parts, primaryVars>>

MarkPublished ==
    /\ pc = "mark published" /\ Goto("done")
    /\ snapshot[cycle] # Nothing
    /\ row' = [row EXCEPT ![cycle] = "published"]
    /\ UNCHANGED <<caller, pending, restored, plan, obs, publicVars,
                   journalVars, primaryVars>>

\* The primary records the outcome of a completed run.
RecordOutcome ==
    /\ pc = "done" /\ Goto("idle")
    /\ settled' = cycle
    /\ UNCHANGED <<caller, pending, restored, plan, databaseVars, publicVars,
                   journalVars, killed, late, faults>>

-----------------------------------------------------------------------------
\* An error that ends the run: the worker reports it, or just dies.
RunFails ==
    /\ pc \notin {"idle", "done"} /\ ~Recovering
    /\ faults < MaxFaults /\ faults' = faults + 1
    /\ Goto("idle")
    /\ UNCHANGED <<caller, pending, restored, plan, databaseVars, publicVars,
                   journalVars, settled, killed, late>>

\* The primary and its worker are killed.
KillCycle ==
    /\ pc # "idle"
    /\ faults < MaxFaults /\ faults' = faults + 1
    /\ Goto("idle") /\ killed' = TRUE
    /\ UNCHANGED <<caller, pending, restored, plan, databaseVars, publicVars,
                   journalVars, settled, late>>

CycleStep(t) ==
    \/ BeginRun(t)
    \/ RecoverTarget(t) \/ JournalRecovered(t)
    \/ QuarantineJournal(t) \/ QuarantineOnError(t)
    \/ RestoreSnapshot(t) \/ MarkPending(t)

PublicationNext ==
    \/ \E t \in Cycles : CycleStep(t)
    \/ ReadPending \/ JournalsRecovered \/ RestoreHistory
    \/ ProjectionsRecovered \/ InitializeIndexes \/ AllMarked
    \/ RecoveryFails
    \/ SaveDetection \/ CommitInputs \/ InputsNotCommitted
    \/ PrepareHistory \/ CommitProjection \/ WriteParts \/ WriteJournal
    \/ ReplaceTarget \/ PublishIndexes \/ CommitJournal \/ MarkPublished
    \/ RecordOutcome \/ RunFails \/ KillCycle

PublicationSpec == PublicationInit /\ [][PublicationNext]_publicationVars

-----------------------------------------------------------------------------
Labels ==
    {"idle", "read pending", "recover", "restore", "reindex", "mark",
     "detect", "commit inputs", "prepare", "commit projection",
     "write parts", "write journal", "replace", "index", "commit journal",
     "mark published", "done"}
Stages == {"none", "detected", "input", "final"}
Payloads == [run : 0 .. MaxCycleRuns, stage : Stages]
Histories == Seq([cycle : Cycles, by : Payloads])

\* Every variable has its type.
TypeOK ==
    /\ pc \in Labels /\ cycle \in 0 .. MaxCycle /\ run \in 0 .. MaxCycleRuns
    /\ caller \in {"detection", "publication"}
    /\ pending \subseteq Cycles /\ restored \in BOOLEAN /\ plan \in Histories
    /\ row \in [Cycles -> {"absent", "none", "pending", "published"}]
    /\ obs \in [Cycles -> Payloads]
    /\ snapshot \in [Cycles -> Payloads] /\ history \in Histories
    /\ routes \in 0 .. MaxCycleRuns /\ index \subseteq Cycles
    /\ journal \in [Cycles -> [state : {"absent", "prepared", "committed"},
                               run : 0 .. MaxCycleRuns, history : Histories]]
    /\ parts \in [Cycles -> [run : 0 .. MaxCycleRuns, history : Histories,
                             left : SUBSET ToSet(Targets)]]
    /\ settled \in 0 .. MaxCycle /\ killed \in BOOLEAN /\ late \in BOOLEAN
    /\ faults \in 0 .. MaxFaults

\* The runs whose entry for cycle t a history holds.
RunsOf(t, entries) == {e.by.run : e \in {e \in ToSet(entries) : e.cycle = t}}

\* The index never makes a cycle discoverable before its snapshot and its
\* entry in the history of the cell are the published ones of one run,
\* whichever path lists it: the publication, or the recovery after it.
NewlyListedIsWhole ==
    [][\A t \in index' \ index :
          /\ snapshot'[t].stage = "final"
          /\ \E i \in DOMAIN history' :
                history'[i] = [cycle |-> t, by |-> snapshot'[t]]]_publicationVars

\* No recovery brings back an older publication: the history of a cell keeps
\* every cycle it holds, each from that run or a later one, and the module
\* routes stay those of the newest run that published some.
NothingRollsBack ==
    [][/\ \A i \in DOMAIN history :
             \E r \in RunsOf(history[i].cycle, history') :
                r >= history[i].by.run
       /\ routes' >= routes]_publicationVars

\* What is public only grows, and by whole cycles (publish_cycle, recover).
PublicMovesForward == NewlyListedIsWhole /\ NothingRollsBack

\* A cycle the database counts as published has on disk what it says: the
\* snapshot and the history are of the run whose projection is committed, or
\* of a later run of the same cycle; and the history holds one entry a scan, in
\* order, whatever was retried, recovered or restored in between, unless the
\* primary went back to an older scan.
PublishedIsOnDisk ==
    /\ \A t \in Cycles : row[t] = "published" =>
          /\ snapshot[t].run >= obs[t].run
          /\ \E r \in RunsOf(t, history) : r >= obs[t].run
    /\ ~late => \A i \in 1 .. Len(history) - 1 :
                  history[i].cycle < history[i + 1].cycle

\* A recovery that meets no error leaves nothing half done: no prepared
\* journal, no pending cycle, and every committed projection is listed.
RecoveryIsComplete ==
    [][Recovering /\ pc' = "detect" /\ faults' = faults =>
          \A t \in Cycles :
             /\ journal[t].state # "prepared" /\ row[t] # "pending"
             /\ restored /\ row[t] = "published" => t \in index]_publicationVars

\* docs/core/stormprob_database.md: the intermediate snapshot of a detection
\* is not in the public index.  Here: not once a cycle has been published.
IntermediateNotListed ==
    pc = "done" => \A t \in index : snapshot[t].stage = "final"

=============================================================================
