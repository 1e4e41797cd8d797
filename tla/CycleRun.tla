------------------------------ MODULE CycleRun ------------------------------
(***************************************************************************)
(* One attempt of a primary cycle (run_primary_cycle_once in               *)
(* src/src/util/runtime/cycle.py): an asyncio thread runs the staged       *)
(* ingest (src/src/common/pipeline/coordinator.py) beside the scan-time    *)
(* GLM download, while a worker process (edgewarn_cycle_worker in          *)
(* src/src/EdgeWARN/pipeline.py) waits for two events and reads what it    *)
(* may do from a shared dictionary.                                        *)
(*                                                                         *)
(* A manifest is the set of the parts it pins: the staged ingest ("base")  *)
(* and the GLM files ("glm"); the empty set is no manifest.                *)
(***************************************************************************)
EXTENDS Naturals, FiniteSets

CONSTANT MaxKills   \* worker deaths (0 or 1)

ASSUME KillsAssumption == MaxKills \in {0, 1}

VARIABLES
    cfg,       \* goes: goes_enabled, core: mrms_core_only
    inputs,    \* the coordinator's CycleState: which inputs are ready
    coord,     \* what the coordinator does next
    loop,      \* the callback step the asyncio thread is in, or "idle"
    base,      \* base_ready of ingest_and_glm
    glmState,  \* "off", "downloading", "ready" or "unready"
    shared,    \* the manager's dictionary
    events,    \* the events set
    parent,    \* the phase of run_primary_cycle_once
    worker,    \* pc: where the worker is; code: its exit code
    used,      \* history: the manifest the integration ran with
    outcome    \* the stage results reported

runVars == <<cfg, inputs, coord, loop, base, glmState, shared, events, parent, worker,
          used, outcome>>
workerVars == <<worker, used>>
ingestVars == <<cfg, inputs, coord, loop, base, glmState>>

Unset == "none"
NoOutcome == [ingest |-> Unset, edgewarn |-> Unset]

RunInit ==
    /\ cfg \in [goes: BOOLEAN, core: BOOLEAN]
    /\ inputs = [detection |-> FALSE, mrms |-> FALSE, rap |-> FALSE]
    /\ coord = "fetch"
    /\ loop = "idle"
    /\ base = FALSE
    /\ glmState = "off"
    /\ shared = [detection |-> FALSE, integration |-> FALSE, manifest |-> {},
                 stage |-> "pending"]
    /\ events = {}
    /\ parent = "start"
    /\ worker = [pc |-> "new", code |-> Unset, killed |-> FALSE]
    /\ used = {}
    /\ outcome = NoOutcome

(***************************************************************************)
(* The parent's asyncio thread.                                            *)
(***************************************************************************)
StartWorker ==
    /\ parent = "start"
    /\ parent' = "ingest"
    /\ worker' = [worker EXCEPT !.pc = "waitDetection"]
    /\ glmState' = IF cfg.goes THEN "downloading" ELSE "off"
    /\ UNCHANGED <<cfg, inputs, coord, loop, base, shared, events, used, outcome>>

\* process.start() raises: nothing was ingested and no exit code will come.
StartFails ==
    /\ parent = "start"
    /\ parent' = "terminal"
    /\ coord' = "raised"
    /\ worker' = [worker EXCEPT !.pc = "exited"]
    /\ UNCHANGED <<cfg, inputs, loop, base, glmState, shared, events, used, outcome>>

\* Every source task has finished; without RAP its readiness is granted.
Gather ==
    /\ parent = "ingest"
    /\ coord = "fetch"
    /\ loop = "idle"
    /\ \E d, m, r \in BOOLEAN :
         inputs' = [detection |-> d, mrms |-> m, rap |-> r \/ cfg.core]
    /\ coord' = "detection"
    /\ UNCHANGED <<cfg, loop, base, glmState, shared, events, parent, workerVars, outcome>>

\* An exception of the coordinator, between its callbacks.
IngestRaises ==
    /\ parent = "ingest"
    /\ coord \in {"fetch", "detection", "render", "base", "finish"}
    /\ loop = "idle"
    /\ coord' = "raised"
    /\ UNCHANGED <<cfg, inputs, loop, base, glmState, shared, events, parent, workerVars,
                   outcome>>

\* publish(): the complete snapshot first, the event in a step of its own.
PublishDetection ==
    /\ parent = "ingest"
    /\ coord = "detection"
    /\ loop = "idle"
    /\ shared' = [shared EXCEPT !.detection = inputs.detection, !.manifest = {"base"}]
    /\ loop' = "detectionWritten"
    /\ UNCHANGED <<cfg, inputs, coord, base, glmState, events, parent, workerVars, outcome>>

ReleaseDetection ==
    /\ loop = "detectionWritten"
    /\ events' = events \cup {"detection"}
    /\ coord' = "render"
    /\ loop' = "idle"
    /\ UNCHANGED <<cfg, inputs, base, glmState, shared, parent, workerVars, outcome>>

\* The render callback publishes the same snapshot again; its event has no
\* waiter any more.
PublishRender ==
    /\ parent = "ingest"
    /\ coord = "render"
    /\ loop = "idle"
    /\ shared' = [shared EXCEPT !.detection = inputs.detection, !.manifest = {"base"}]
    /\ coord' = "base"
    /\ UNCHANGED <<cfg, inputs, loop, base, glmState, events, parent, workerVars, outcome>>

BaseInputsReady == inputs.detection /\ inputs.mrms /\ inputs.rap
GlmReady == glmState = "ready" \/ ~cfg.goes

PublishBase ==
    /\ parent = "ingest"
    /\ coord = "base"
    /\ loop = "idle"
    /\ base' = BaseInputsReady
    /\ shared' = [shared EXCEPT !.manifest = {"base"}]
    /\ loop' = "merge"
    /\ coord' = "finish"
    /\ UNCHANGED <<cfg, inputs, glmState, events, parent, workerVars, outcome>>

CoordinatorReturns ==
    /\ parent = "ingest"
    /\ coord = "finish"
    /\ loop = "idle"
    /\ coord' = "returned"
    /\ UNCHANGED <<cfg, inputs, loop, base, glmState, shared, events, parent, workerVars,
                   outcome>>

\* The download ended: with aligned files, or with none, misaligned or an error.
GlmArrives ==
    /\ parent = "ingest"
    /\ glmState = "downloading"
    /\ loop = "idle"
    /\ glmState' \in {"ready", "unready"}
    /\ loop' = "merge"
    /\ UNCHANGED <<cfg, inputs, coord, base, shared, events, parent, workerVars, outcome>>

\* publish_integration_if_ready, called by whichever of the two came.
\* Fault variant: the GLM files are left out of the manifest.
MergeInputsBaseOnly ==
    /\ loop = "merge"
    /\ shared' = IF base /\ GlmReady THEN [shared EXCEPT !.integration = TRUE] ELSE shared
    /\ loop' = IF base /\ GlmReady THEN "merged" ELSE "idle"
    /\ UNCHANGED <<cfg, inputs, coord, base, glmState, events, parent, workerVars, outcome>>

GlmPart == IF cfg.goes THEN {"glm"} ELSE {}

MergeInputs ==
    /\ loop = "merge"
    /\ shared' = IF base /\ GlmReady
                 THEN [shared EXCEPT !.manifest = @ \cup GlmPart, !.integration = TRUE]
                 ELSE shared
    /\ loop' = IF base /\ GlmReady THEN "merged" ELSE "idle"
    /\ UNCHANGED <<cfg, inputs, coord, base, glmState, events, parent, workerVars, outcome>>

ReleaseIntegration ==
    /\ loop = "merged"
    /\ events' = events \cup {"integration"}
    /\ loop' = "idle"
    /\ UNCHANGED <<cfg, inputs, coord, base, glmState, shared, parent, workerVars, outcome>>

\* The GLM task is awaited first, then the coordinator; either way every
\* asyncio step is over.
IngestOver ==
    /\ parent = "ingest"
    /\ coord \in {"returned", "raised"}
    /\ glmState # "downloading"
    /\ loop = "idle"
    /\ parent' = "terminal"
    /\ UNCHANGED <<ingestVars, shared, events, workerVars, outcome>>

IngestReady == coord = "returned" /\ BaseInputsReady

TerminalWrite ==
    /\ parent = "terminal"
    /\ shared' = [shared EXCEPT !.integration = IngestReady /\ GlmReady]
    /\ parent' = "release"
    /\ UNCHANGED <<ingestVars, events, workerVars, outcome>>

\* Fault variant: only the detection waiters are released.
TerminalReleaseDetectionOnly ==
    /\ parent = "release"
    /\ events' = events \cup {"detection"}
    /\ parent' = "drain"
    /\ UNCHANGED <<ingestVars, shared, workerVars, outcome>>

\* Failure paths may have come before any callback: release every waiter.
TerminalRelease ==
    /\ parent = "release"
    /\ events' = {"detection", "integration"}
    /\ parent' = "drain"
    /\ UNCHANGED <<ingestVars, shared, workerVars, outcome>>

StageResult(stage, code) ==
    IF \/ code \notin {Unset, "ok"}
       \/ stage \notin {"completed", "unavailable", "failed"}
    THEN "failed"
    ELSE stage

Report ==
    /\ parent = "drain"
    /\ worker.pc = "exited"
    /\ parent' = "reported"
    /\ outcome' = [ingest   |-> IF IngestReady THEN "completed" ELSE "unavailable",
                   edgewarn |-> StageResult(shared.stage, worker.code)]
    /\ UNCHANGED <<ingestVars, shared, events, workerVars>>

(***************************************************************************)
(* The worker process.                                                     *)
(***************************************************************************)
At(pc) == worker.pc = pc
Goto(pc) == worker' = [worker EXCEPT !.pc = pc]

\* Publish a terminal stage and leave with the given exit code.
Leave(stage, code) ==
    /\ shared' = [shared EXCEPT !.stage = stage]
    /\ worker' = [worker EXCEPT !.pc = "leaving", !.code = code]

WakeDetection ==
    /\ At("waitDetection")
    /\ "detection" \in events
    /\ \/ shared.detection /\ Goto("pinDetection") /\ UNCHANGED shared
       \/ ~shared.detection /\ Leave("unavailable", "ok")
    /\ UNCHANGED <<ingestVars, events, parent, used, outcome>>

PinDetection ==
    /\ At("pinDetection")
    /\ \/ shared.manifest # {} /\ Goto("detecting") /\ UNCHANGED shared
       \/ shared.manifest = {} /\ Leave("failed", "ok")
    /\ UNCHANGED <<ingestVars, events, parent, used, outcome>>

\* Detection leaves an artifact, or none, or raises.
Detect ==
    /\ At("detecting")
    /\ \/ Goto("waitIntegration") /\ UNCHANGED shared
       \/ \E code \in {"ok", "error"} : Leave("failed", code)
    /\ UNCHANGED <<ingestVars, events, parent, used, outcome>>

WakeIntegration ==
    /\ At("waitIntegration")
    /\ "integration" \in events
    /\ \/ shared.integration /\ Goto("pinIntegration") /\ UNCHANGED shared
       \/ ~shared.integration /\ Leave("unavailable", "ok")
    /\ UNCHANGED <<ingestVars, events, parent, used, outcome>>

PinIntegration ==
    /\ At("pinIntegration")
    /\ \/ /\ shared.manifest # {}
          /\ Goto("integrating")
          /\ used' = shared.manifest
          /\ UNCHANGED shared
       \/ /\ shared.manifest = {}
          /\ Leave("failed", "ok")
          /\ UNCHANGED used
    /\ UNCHANGED <<ingestVars, events, parent, outcome>>

Integrate ==
    /\ At("integrating")
    /\ \/ Leave("completed", "ok")
       \/ \E code \in {"ok", "error"} : Leave("failed", code)
    /\ UNCHANGED <<ingestVars, events, parent, used, outcome>>

Exit ==
    /\ At("leaving")
    /\ Goto("exited")
    /\ UNCHANGED <<ingestVars, shared, events, parent, used, outcome>>

\* Killed, by the kernel or a native crash, anywhere.
Killed ==
    /\ worker.pc \notin {"new", "exited"}
    /\ MaxKills = 1
    /\ worker' = [pc |-> "exited", code |-> "error", killed |-> TRUE]
    /\ UNCHANGED <<ingestVars, shared, events, parent, used, outcome>>

(***************************************************************************)
(* What the outcome tells the primary loop.                                *)
(***************************************************************************)
Completed == outcome.ingest = "completed" /\ outcome.edgewarn = "completed"

Retryable == \E s \in {outcome.ingest, outcome.edgewarn} : s \in {"unavailable", "failed"}

Parent ==
    \/ StartWorker \/ Gather \/ PublishDetection \/ ReleaseDetection
    \/ PublishRender \/ PublishBase \/ CoordinatorReturns \/ MergeInputs
    \/ ReleaseIntegration \/ IngestOver \/ TerminalWrite \/ TerminalRelease \/ Report

Worker ==
    \/ WakeDetection \/ PinDetection \/ Detect \/ WakeIntegration
    \/ PinIntegration \/ Integrate \/ Exit

RunNext == Parent \/ StartFails \/ IngestRaises \/ GlmArrives \/ Worker \/ Killed

(***************************************************************************)
(* Downloads are bounded by their timeouts and detection and integration   *)
(* by their data: each process keeps going unless it waits.                *)
(***************************************************************************)
RunFairness == WF_runVars(Parent) /\ WF_runVars(GlmArrives) /\ WF_runVars(Worker)

RunSpec == RunInit /\ [][RunNext]_runVars
RunFairSpec == RunSpec /\ RunFairness

-----------------------------------------------------------------------------

\* Types of the variables.
RunTypeOK ==
    /\ cfg \in [goes: BOOLEAN, core: BOOLEAN]
    /\ inputs \in [detection: BOOLEAN, mrms: BOOLEAN, rap: BOOLEAN]
    /\ coord \in {"fetch", "detection", "render", "base", "finish", "returned", "raised"}
    /\ loop \in {"idle", "detectionWritten", "merge", "merged"}
    /\ base \in BOOLEAN
    /\ glmState \in {"off", "downloading", "ready", "unready"}
    /\ shared \in [detection: BOOLEAN, integration: BOOLEAN,
                   manifest: SUBSET {"base", "glm"},
                   stage: {"pending", "completed", "unavailable", "failed"}]
    /\ events \subseteq {"detection", "integration"}
    /\ parent \in {"start", "ingest", "terminal", "release", "drain", "reported"}
    /\ worker \in [pc: {"new", "waitDetection", "pinDetection", "detecting",
                        "waitIntegration", "pinIntegration", "integrating",
                        "leaving", "exited"},
                   code: {Unset, "ok", "error"}, killed: BOOLEAN]
    /\ used \subseteq {"base", "glm"}
    /\ outcome \in [ingest: {Unset, "completed", "unavailable"},
                    edgewarn: {Unset, "completed", "unavailable", "failed"}]

\* Integration runs only when every required input is staged and aligned, and
\* on a manifest that pins them all, the GLM files included, in whichever order
\* GLM and the base inputs arrived (publish_integration_if_ready).
IntegrationFullyPinned ==
    used # {} => BaseInputsReady /\ GlmReady /\ used = {"base"} \cup GlmPart

\* A scan is reported complete, or reported as one that needs no retry, only if
\* its worker really integrated it and ended well: neither a stale stage nor a
\* death can pass for success, and no failure falls between the two answers.
CompletedIsEarned ==
    Completed \/ (parent = "reported" /\ ~Retryable) =>
        used = {"base"} \cup GlmPart /\ worker.code = "ok" /\ ~worker.killed

\* What integration reads and what is reported of it: both of the above, in every attempt
\* (run_realtime_cycle).
AttemptIsSound == IntegrationFullyPinned /\ CompletedIsEarned

\* Whatever fails, an attempt that has begun ends: nobody is left waiting for an event.
AttemptEnds == parent # "start" ~> parent = "reported"

=============================================================================
