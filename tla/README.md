# EdgeWARN-Core: TLA+ verification project

EdgeWARN-Core turns radar, satellite and model data into storm cells, alerts,
rasters and an HTTP API.  It is a set of long-running Python services (and one
Node server) that share nothing but a file system: they coordinate through
locks, heartbeats, durable cycle records, journals, a SQLite database and atomic
file replacement.  This project models that coordination, what each ingest leaves
on disk for the others, and the discrete part of the science: which gates become
a cell, which track goes on as which cell, which sweeps form an elevation.  The
arithmetic on grids is left out; when, how often, in which order and with which
inputs it runs, and what is on disk after any crash, is what the modules are
about.

Contents: [1 inventory](#1-inventory), [2 the modules](#2-the-modules),
[3 runs and bounds](#3-runs-and-bounds), [4 fairness](#4-fairness),
[5 proofs](#5-proofs), [6 findings](#6-findings),
[7 not modelled](#7-not-modelled), [8 plan](#8-plan).

Paths are relative to the repository's `src/` (its package root) unless they
start with `docs/`.

## 1 Inventory

| Component | State it keeps | Operations | Interacts with |
|---|---|---|---|
| Primary service loop (`util/runtime/primary_service.py`, `cycle.py`) | `cycle_state.json`; cursor, pending scan and attempt count in memory | poll, begin an attempt, record its outcome, back off, abandon, recover at startup | MRMS listings, the cycle worker, phase records |
| Cycle attempt (`cycle.py`, `common/pipeline/coordinator.py`, `EdgeWARN/pipeline.py`) | events, a shared dictionary, the staged inputs, stage results | ingest callbacks, GLM download, detection, integration, gathering | one forked worker per attempt, a `multiprocessing` manager |
| MRMS download and input manifest (`common/ingest/mrms`, `common/ingest/manifest.py`) | product directories, staged archives, the pinned manifest | look up, fetch, decompress, fall back, clean up, pin, validate | the attempt; every reader of its manifest |
| GLM and GOES (`util/runtime/goes.py`, `background.py`, `EWMRS/`) | granules, merged files, ABI frames, rendered keys, a cleanup flag | fetch, merge, delete, pin one frame a channel, render | the attempt (GLM), supervisor |
| Synoptic RAP, METAR, WPC (`common/ingest`) | one directory each; a station database | search back in time, fetch, parse, replace, retain | attempt, integration, API |
| NWS alerts and zones (`common/ingest/nws`) | a registry in memory, snapshots, one file per alert, zone files and their cache | download, fold, expire, publish, complete the zones | alert matching, API |
| NEXRAD ingest (`common/ingest/nexrad`) | a tracker of volumes, runtime files, saved stream states, a worker pool, artifacts with sidecars | discover, stream chunks, parse and trim, recycle the pool, export | supervisor heartbeat, renderer |
| NEXRAD rendering (`NEXRAD/`) | GUI files, the set of rendered artifacts | poll, render each product, prune | artifacts |
| Phase record handoff (`util/runtime/handoff.py`) | one immutable record per cycle and phase, per-phase checkpoints | publish, read, list pending, mark unrecoverable, advance | primary → EWMRS |
| EWMRS record consumer (`util/runtime/ewmrs_consumer.py`) | its checkpoints | drain both phases, render, cap the backlog | renderers |
| Service ownership (`run_edgewarn.py`, `handoff.py`, `services.py`) | a flock, a heartbeat file, a heartbeat thread | acquire, publish, stop, join, remove, release | API gate, orphaned children |
| API service gate (`api/services/serviceRegistry.js`) | a one-second cache | read heartbeats, classify, serve or refuse | every gated route |
| Accessory supervision (`util/runtime/processes.py`, `background.py`) | child processes, death histories, restart deadlines, the cleanup flag | check, restart, disable, stop stale children, shut down | METAR, NWS, WPC, GOES, NEXRAD and consumer children |
| Detection, tracking, lineage (`EdgeWARN/process/detect`) | cells carried from scan to scan, a lineage buffer in a file | flood, cut back, relate, count, match, merge, split | manifest, snapshot, database |
| Cycle publication (`EdgeWARN/ctam/publication.py`, `process/integrate/pipeline.py`, `history.py`) | journals, snapshot, histories, module routes | prepare, replace, commit, recover | StormProb database, index, API |
| StormProb database (`EdgeWARN/stormprob/database.py`) | cycles with a projection state, observations | commit a cycle, mark pending or published | detection, integration |
| API index manager (`EdgeWARN/api_integration/index_manager.py`) | `stormcell_index.json` | rebuild, list a cycle | API |
| CTAM discovery (`EdgeWARN/ctam/discovery.py`, `manifest.py`) | none (a function of the module root) | scan, reject, order, cap | CTAM stage |
| CTAM readiness (`EdgeWARN/ctam/readiness.py`, `manifest.py`) | a frozen catalogue per cycle | parse selectors, describe artifacts, judge, record | CTAM stage |
| CTAM stage (`EdgeWARN/ctam/runner.py`, `transaction.py`, `api/`, `run.py`) | module processes, transactions, the working set | launch, time out, kill; patch, stage, commit, abandon; collect | installed modules, over loopback HTTP |
| Alerts (`EdgeWARN/alerts`, `ctam/builtins/stormprob`, `alert_matcher.py`) | alert files, a snapshot cache | issue, cool down, list, clean up, match | API, integration |
| Enrichment, StormProb mathematics | none between cycles | array mathematics | integration |
| Launcher, activity lease, configuration, command line, Node routes | none that is shared and changes what others do | start and stop; advise; read | all |

`PROJECT.json` has one entry per component with its status and reason.

What is hard in this system, and what would be wrong:

* **Restarts in the middle of everything.** A process can be killed before,
  inside or after an attempt, between any two file replacements, between a fetch,
  a merge and a delete.  Correct means: no scan that was settled is run again,
  none is lost unless crashes cut every attempt short, retries stay bounded, a
  committed database row is on disk in full after recovery, recovery never brings
  an older publication back, and what a crash leaves is not in the way of the
  next attempt.
* **Orphans.** Forked children outlive a killed service and share its locked
  file description.  Correct means one cycle at a time, orphans included.
* **Concurrent snapshots.** The consumer, the API, the renderers, the alert
  matching and the CTAM handlers work from data read a moment ago.  Correct means:
  nothing skipped silently, nothing served on evidence older than the documented
  age, nothing rendered half written, no committed patch lost.
* **Order of arrival.** Inputs, GLM files, chunks of a volume, retries of a cycle
  with another manifest, older minutes after newer ones.  Correct means: the
  first published record wins, integration runs on a manifest that pins all its
  inputs, scans settle in time order, a trimmed stream yields the same sweeps.
* **Several sources for one thing.** S3, mirrors, local files and yesterday's
  file under today's name.  Correct means: the very scan or the freshest analysis
  to be had, never an older one because one source was damaged.
* **Identity over time.** Merges, splits, dropouts and retries of a scan.  Correct
  means: the same storm keeps its track, each detection has one, an event is
  believed only after enough scans, an alert is neither repeated nor missed.
* **Things that must eventually happen.** A failed scan reaches an end, an
  attempt reports, a hung child is stopped, a flag raised by a dead renderer is
  lowered, the module stage ends, an uploaded volume is shown, a thread gets its
  lock.

The hazards with their lines and the properties that cover them are listed in
`PROJECT.json`; those without a property carry the reason.

## 2 The modules

Time is never a clock.  Where it matters it is an age or a remaining delay that a
`Tick` advances, or a small number in the unit the module names; elsewhere a
timeout is a step that may happen.  Scans and cycles are their timestamps, small
naturals that order as the timestamps do, with 0 for `None`.  A manifest, a
payload or a published file is identified by the attempt or the run that made it.

### The primary and its consumers

**`PrimaryCycle`** (with **`ScanLedger`**, **`PrimaryCycleProofs`**) –
`run_primary_cycle_loop` and `CycleStateStore`.  `store` is `cycle_state.json`,
`mem` the loop's locals; `Start`, `SelectScan`, `BeginAttempt`, `FinishCycle`
(complete, retry later, abandon), `BackoffElapses` and `Crash` are its steps.
A cycle is one step with any outcome.  `ScanLedger` is the abstract promise: a
durable cursor that only advances and scans that settle once, ahead of it.

**`CycleRun`** (proofs in `PrimaryCycleProofs` too) – the inside of that one step: the
asyncio thread with the staged ingest and the scan-time GLM download, the shared
dictionary and the two events, the worker process, and how
`run_primary_cycle_once` gathers their results.

**`MrmsIngest`** – the inside of one download of `CycleRun`: one MRMS product of a
scan looked up on S3 by rounding and match window, fetched, decompressed, or
taken from the HTTPS mirror; the synchronous second try; the cleanup of the
directory beside it; the pin of the scan and its predecessor, and the validation
of the manifest.  Its proofs are a section of `IngestProofs`.

**`PhaseHandoff`** (with **`HandoffProofs`**) – the primary publishing
`mrms-ready` and `rap-ready`, and the EWMRS consumer: a pass takes a snapshot of
directories, records and checkpoint, abandons the excess of the backlog, then
renders record by record.  Records may be damaged on disk, either side may die
between any two steps.

**`AccessorySupervisor`** (with **`SupervisorProofs`**) – `check()` with its
passes over the children: notice a death, stop a stale child, admit a restart
after the backoff, start it; the sliding window that disables a child; the GOES
renderer's cleanup flag.

**`ServiceOwnership`** – incarnations of
`run_edgewarn.py`: the flock on an open file description, the heartbeat thread,
the forked manager and cycle worker, and the shutdown sequence.  **`ServiceGate`**
extends it with the API's cached reading of the heartbeat, request by request.  The
proofs about both are the last section of `PublicationProofs`.

**`CyclePublication`** (with **`PublicationProofs`**) – one cycle's way to disk: the detection's snapshot and
projection, the integration's projection, the multi-file journal, the index, and
the recovery a run performs before it works and before it publishes.

### The ingests beside it

**`ProductsProofs`** holds the proofs about `GlmIngest`, `SynopticIngest`,
`NwsAlerts`, `AlertMatching` and `ZoneAssets`, and about `CellDetection`,
`CtamReadiness` and `StormAlerts` further down.

**`GoesIngest`** – the ABI pass that stages the newest frame of each channel, and
the render loop that pins one frame per channel, draws the set and remembers its
key, while the cleanup takes files from under it.

**`GlmIngest`** – the granules of a scan listed, fetched, merged and deleted, over
crashes and retries of the attempt.

**`SynopticIngest`** – a RAP request: hour by hour back from the scan the local
file, S3 asynchronously, S3 synchronously, NOMADS; retention before and after.

**`SurfaceIngest`** – the METAR loop: hourly files whose server keeps yesterday
under the same name, threads that parse against a station database loaded once.

**`WpcAnalyses`** – a WPC pass over the present and the previous analysis.

**`NwsAlerts`** – passes over the feed: download, fold into the registry in
memory, expire, write the snapshot and the files of `ids/`; failures at every
step, restarts that read the files back.  **`AlertMatching`** extends it with the
worker that matches the alerts in force to the cells of a scan.
**`ZoneAssets`** – the zone files, the command that completes them in place, and
the ingest's cache of them.

### NEXRAD

**`IngestProofs`** holds the proofs about this section (and about `MrmsIngest`);
**`Selection`** is the one operator that pipeline, stream, parsing
and `MrmsIngest` share, the filtering of a list.

**`NexradPipeline`** – scan and pending passes over the tracker of volumes.
**`NexradStream`** – the ingest of one volume: chunks appended to a runtime file
through a handle with a position of its own, the state saved behind them, parses
that export and then rewrite the file in place, record by record, parses that fail,
die half-way or are abandoned by a timeout and finish later, and a volume header
inside a chunk, which starts the file anew.  **`NexradParsing`** – the pure code: which volume
is the newest although identifiers wrap around, which chunks may be used, which
sweeps and elevations a (trimmed) record stream holds.  **`NexradPool`** – the
generations of the shared worker pool, the threads that wait for it, its recycling
under the lock.  **`NexradArtifacts`** – writer and renderer sharing a directory
without a lock, with the sidecar between them.

### Cells and modules

**`CellDetection`** – the flood of polygons over a small graph of radar gates, the
cut back to each cell's own threshold, the size filter.  The order of flooding is
left open.

**`CellTracking`** – the cells of the last cycle against the detections of a scan:
overlaps, the buffer of merges and splits with its hysteresis and its file,
matching by identity or distance, coasting and death.  Each record carries the track
it continues, which the code never sees and the property is stated in.
**`CellTrackingProofs`** holds the proofs about it.

**`CtamDiscovery`** – discovery as operators on the contents of a module root
(`Spoiled` is the fixed point over dependencies, `Ordered` the Kahn pass,
`Admitted` the capacity cut), and beside them what they are for (`Viable`,
`IsOrderOf`, `IsExact`), stated without the algorithm.  That the one is the other is
proved in the second section of `CtamStageProofs`.

**`CtamReadiness`** – a requirement parsed, the cycle's artifacts described once,
the verdict before the launch and the verdict recorded after it, while files go
and the clock runs.

**`CtamStage`** (with **`CtamStageProofs`**) – the runner with its process per
module, descendants that hold the pipes, handler threads of the loopback server
that outlive client and server, one transaction per module under the service's
lock, the commit as copy and assignment per cell, and the collection of the result
by `run.py`, cell by cell and without the lock, after a server was closed that does
not wait for its handlers.  `out.sealed` is history: what had been sealed by then.

**`StormAlerts`** – the alerts StormProb issues batch by batch, the cooldown, the
files that are their only memory, the list and the clean-up.

### How they compose

`ServiceGate` EXTENDS `ServiceOwnership`, `CtamStage` EXTENDS `CtamDiscovery`,
`AlertMatching` EXTENDS `NwsAlerts`: one system each.  The others meet at an
interface that both sides state: a cycle of `PrimaryCycle` is an attempt of
`CycleRun`, whose `Completed`/`Retryable` are the outcomes `FinishCycle` chooses
from; a base input of `CycleRun` is a scan that `MrmsIngest` has made ready, its
GLM part what `GlmIngest` handed over; an attempt's published manifests are the
records of `PhaseHandoff`, whose cursor and crashes are those of `PrimaryCycle`;
a run of `CyclePublication` is the detection and the integration of `CycleRun`;
what `CtamReadiness` judges is what `CtamStage` calls `Supplied`, and the output
of `CtamStage` is the `routes` target of `CyclePublication`; the death of an
ingest in `NexradPool` is the stale heartbeat of `AccessorySupervisor`;
one-at-a-time (`ServiceOwnership`) is what lets `CyclePublication` have one run at
a time.

`MCPrimaryCycle`, `MCNexrad` and `MCProducts` check several components *part by
part*: a variable `part`, chosen at the start, says which component a behaviour is
about, and the others rest in a fixed state.  The parts share no variable, so this
is each component's own specification, and `MCFairness` asks each one's fairness
of the part that moves.  It shows nothing about their interplay, which is where
the compositions above come in.

A definition called *fault variant* in a comment is no part of a model: it is the
definition below it with one plausible mistake, and documents which property
notices the mistake (`PROJECT.json`, "mutants").

## 3 Runs and bounds

| Run | Checks | Bounds, and why they are enough |
|---|---|---|
| `primary_cycle` | parts `loop`, `attempt`, `mrms`, `abi`, `metar`: safety, refinement of `ScanLedger`, five liveness properties | loop: 3 scans, 2 attempts, 2 crashes (an abandonment, a retry and a restart inside each, a scan skipped over); attempt: all configurations, every arrival order, one death anywhere; mrms: files stamped 3, 6 and 8 half minutes against scans 4 and 8 (one exact, one rounded, one that only the match window of the mirror takes for either), 2 files kept, one trouble of any kind; abi: 2 channels, 2 frames, 2 keys remembered, one fault; metar: hours 0–2 with files that wrap after 3, one fault |
| `handoff` | records, checkpoints and renders under crashes; the consumer gets past readable records | 2 cycles, 2 manifests (one unsound), a backlog of 1, and one crash, death, failure or damage: a late older record needs the crash, a second render the death |
| `handoff_malformed` | finding A (violated) | one cycle |
| `supervisor` | restarts, flag and heartbeat supervision | a renderer and an ingest with a heartbeat; restart limit 1 in a window of 3 ticks, backoff 1–2, stop time 1, 3 deaths each: enough to be disabled, to restart after the window moved on, and to race the deadline |
| `service_lock_after_crash` | finding B (violated) | 2 incarnations |
| `publication_listed` | finding C (violated) | 2 cycles, 3 runs |
| `ctam_stage` | discovery, transactions and the end of the stage | 3 ids (a chain of dependencies that spoils transitively, and every cycle), capacity 2, two modules that can run, one required, one deaf to SIGTERM, one cell so that their commits collide |
| `ctam_failed` | finding D (violated) | one module |
| `nexrad` | parts `stream`, `pool`, `pipeline`, `artifacts`, `parsing`: safety and two liveness properties | stream: 4 chunks in 3 groups of 2 elevations, uploaded one by one, so that a parse sees half a group and an elevation comes back, one fault; pool: 2 threads, 3 generations, one hang, one break; pipeline: one site, 3 volumes, 2 mishaps; artifacts: 3 stamps of which 2 are kept, 2 products, one upset; parsing: every unbroken run of volume identifiers of a cycle of 7, every listing of 4 chunks, every stream of 4 records |
| `products` | parts `publication`, `service`, `rap`, `glm`, `nws`, `matching`, `zones`, `detection`, `tracking`, `readiness`, `storm alerts`: safety | publication: 3 cycles, 4 runs, 2 faults (a run that stops half-way, a recovery that is itself cut short, a run that finishes); service: 2 incarnations, a join timeout and a cache lifetime of one tick; rap: 2 requests half an hour apart, one fault of each kind, one file kept; glm: 3 granules, 2 faults; nws: 3 alerts, one never kept and one that expires at once, 2 passes, a fault; zones: 2 zones, 3 faults; detection: 4 gates in a row, 2 polygons, 5 levels around both thresholds, a seed share of one half, a crop margin of one gate, every radar image; tracking: one scan's storms per scene of one or three, 2 scans, 2 crossings, one failed attempt; readiness: manifests of up to 2 records with at most one thing wrong with each; storm alerts: one storm over several scans, of any age when they are processed, and two faults (an unreadable file, a run that dies) |
| `lineage_retry` | finding E (violated) | one failed attempt |
| `wpc_latest` | finding F (violated) | one pass |

Deadlock is not checked (`CHECK_DEADLOCK FALSE`) where a model really stops: an
attempt that has reported, a service that is down for good, a volume that is
complete, a budget of runs, crashes, faults or scans that is used up.

What the passing runs show, in words:

* `primary_cycle`, loop: the cursor a poll uses is the one a restart reads, the
  file tells the truth, every attempt is charged to the count or to a crash
  (`IInv`); no settled scan is attempted again, a recorded failure is eventually
  settled, and seen through the durable cursor the service implements the ledger.
  Attempt: integration runs only on a manifest that pins everything required, GLM
  included, whichever came last, and completion is earned by a worker that
  integrated and ended well (`AttemptIsSound`); every attempt reports.  MRMS: what
  is staged for a scan is that scan, and an offered scan is staged in the end
  whatever an earlier attempt left (`ScansAreStaged`), but for a damaged archive,
  which is found again and again.  ABI: a frame that every channel has reached is
  shown, or a newer one (`FreshestIsShown`), but for a render that raised, which
  the worker counts as rendered.  METAR: an hour's file becomes whole while the
  hour is in the lookback (`HourIsCaughtUp`), unless the process lost its station
  database.
* `handoff`: the checkpoint passes a cycle only if it was rendered, marked, or
  appeared late after a crash, and renders it again only after a death; a
  committed record is immutable; a sound record is given up only under a full
  backlog; the consumer gets past every cycle that stays readable.
* `supervisor`: at most `max_restarts + 1` restarts in any window, none left after
  a shutdown; the flag covers every render and is lowered after a death; dead and
  hung children are dealt with.
* `ctam_stage`: discovery admits exactly what can run, in the promised order; the
  working set holds exactly the sealed transactions; what had been sealed when the
  server was closed is published whole; a transaction committed after that may be
  published in part, but it is then one of a module that failed or ran out of time
  (`OnlyLateCommitsArePart` states the exception, which the code has); once a
  required module was skipped or failed nothing is published; the stage ends.
* `nexrad`: no chunk that the saved state records is lost and no torn elevation
  counts towards a complete volume, whatever parse fails and whichever worker dies
  before it rewrites the file; excepted are a rewrite that is cut half-way (see
  [6](#6-findings)), a parse that outlived its time limit, an ingest cut short before
  its state was saved, a hole in a listing or an empty chunk, and a volume header
  inside a chunk.  Nothing is rendered from a half-written artifact; trimming the
  stream of a regular scan pattern never changes the elevations found in it, the
  newest volume is the newest although identifiers wrap, and only contiguous chunks
  are used; an uploaded volume is completed and every artifact gets all its products;
  a thread that gave up on a parse gets the pool's lock.  A volume marked as started
  stays in the tracker until it is on disk, and a scan's ingest that is not cut off
  ends with its volume on disk or marked.  The mark is all there is: a pending pass
  and a scan's ingest that was cut off store chunks without setting it, and such a
  volume gives way to a newer one of its site.
* `products`: a published row has its snapshot and its history on disk, what
  becomes listed is whole, nothing rolls back, a recovery without errors leaves
  nothing half done; one cycle at a time even beside an orphan; the API serves
  only if the service was serving at most the stale age (plus the cache lifetime)
  ago; the RAP analysis is the freshest to be had and still on disk; integration
  reads all the granules listed; snapshot and alert files say the same, what the
  pass downloaded and had not expired; an attached alert was in force and not from
  the future; no polygon is lost but by a write that dies; a storm whose polygon has
  its share of strong gates, and enough gates above its own threshold, is a cell, and
  a cell takes no rain below the threshold of its storm, nor another's core, whichever
  flood came first; the same storm keeps its track and each detection has one; a
  module's verdict rests on inputs that are there and is never recorded better than it
  was acted on; the alerts of a storm are spaced and each forecast is listed under one,
  for a scan of any age, unless the earlier alert could not be read back or had expired
  by the clock.

Where an exception is written into one of these properties ("unless the render
raised", "but for as many damaged files as the limit"), it is a behaviour of the
code that TLC found when the property was first stated without it, and the comment
at the property says so.

## 4 Fairness

Assumed only where the code has a loop or a time limit behind it:

* `PrimaryCycle`: the supervisor starts a dead service, a running cycle ends (see
  `AttemptEnds`), a backoff elapses.  Not assumed: that a crash does not happen.
* `CycleRun`: the parent, the worker and the GLM download keep going unless they
  wait.  A worker that hangs in a computation is a hazard without a property: the
  code waits for it without a limit.
* `MrmsIngest`: an attempt goes on, and the primary attempts a scan again until it
  is ready or given up for a later one.
* `GoesIngest`: both loops poll for ever.  `SurfaceIngest`: the loop wakes at every
  boundary, and a started download ends (it has a timeout).
* `PhaseHandoff`: the consumer polls for ever; nothing of the primary.
* `AccessorySupervisor`: `check()` runs on every tick, per child; a killed
  process goes; time passes; a render that neither dies nor hangs ends.
* `CtamStage`: the runner and the handler threads go on; nothing of the modules,
  except, inside `StageEnds` itself, that a descendant does not hold the output
  pipes for ever, which the code could not survive.
* `NexradStream`: the pipeline asks again for an incomplete volume, a parse worker
  runs unless it is killed, the radar finishes its upload.
* `NexradPool`: threads go on, a parse that does not hang ends, and the supervisor
  kills an ingest whose heartbeat stopped because a recycle waits for a hung
  parse; without that last one `ExpiredThreadReturns` does not hold.
* `NexradArtifacts`: a writer that is not killed finishes, the renderer polls.
* `CyclePublication`, `ServiceOwnership`, the feeds, detection, tracking,
  readiness and alerts are checked for safety only and assume nothing.

## 5 Proofs

Eight modules hold proofs, for every value of the constants.  The argument is one
inductive invariant a component: it holds initially (a lemma `Init…`), each
action preserves it (a lemma per action or per group of actions), and the listed
theorems follow from it by a temporal step.

`PrimaryCycleProofs` proves for every number of scans, attempts and crashes the
type invariant and the safety statements of `PrimaryCycle`, among them that it
implements `ScanLedger`.  `AttemptBudget` alone is not inductive, because a
restart reads its count from the file while the loop counts in memory;
`RetryAgrees` ties the two together, `TriesAccounted` charges every attempt either
to the count or to a crash, and `PendingAhead` keeps whatever will be run ahead of
everything settled, which is also what makes each step a step of the ledger.

It also proves `AttemptIsSound` of `CycleRun` with `RunInv`.  The statement relates the
end of the worker to the manifest, several threads apart, so the invariant follows
the hand-over: `IngestOrder` says what the ingest thread has published at each of
its places, `GoAhead` that the integration event is only set over a manifest that
is whole, `Verdict` what the worker has used when it ends, `Reported` that the
outcome repeats the verdict.

`HandoffProofs` proves `RecordsAreDealtWith`, `CommittedImmutable` and
`SkipJustified` for any number of cycles, manifests, crashes and deaths.  The
consumer works from a snapshot, so a directory may appear behind it: `DirsInOrder`
says that without a crash the primary creates none behind its newest,
`DrainInOrder` that whatever is neither passed nor in the snapshot lies ahead of it
or is late, `InHand` that the record being rendered is the oldest left, and
`Rendered` charges every second render to a death.  `ExcessIsJustified` is what a
skip rests on: directories are only ever added, so a backlog that was full in the
snapshot is full when the cycle is given up.

`SupervisorProofs` proves `RenderingHoldsFlag`, `NoChildOutlivesService` and
`RestartRateBounded` for any children, limits and deaths.  `Admitted` says that a
restart that was admitted but not started is of a dead child and is over before
the service counts as stopped, which is the window a shutdown could slip through;
`FlagUp` ties the flag to a renderer that has not died.  It uses that the renderer
has no heartbeat (`RendererHasNoHeartbeat`, `util/runtime/ewmrs_service.py:68-74`):
the supervisor kills it for no other reason than a shutdown.  The rate is a count
over a window that slides, and only deaths are limited by the code, not restarts:
`DeathsBetween` says of *every* part of the window that it holds at most one restart
more than deaths, and none more while a restart is due, which survives both the
ageing and the new restart.

`CtamStageProofs` proves `StageIsAtomic` and `DiscoveryIsExact` for any modules, cells
and timing.  A
commit copies a cell and assigns it in two steps while other handlers wait for the
lock: `LockHeld` says that the lock belongs to the one commit under way,
`WorkKnown` that each cell of the working set holds exactly the sealed
transactions and the assigned part of that commit, `CommitOwn` that its copy is of
the present cell, `ResultsKnown` that a completed module is sealed, `CollectedKnown`
what has been collected of each module.  That a transaction which comes late is one
of a module that failed or ran out of time needs the runner's list as well
(`QueueInv`): whoever sends a request was launched, each module is launched once,
because discovery lists none twice, and no later step overwrites its result.

Discovery is two loops, and both are proved to reach what `IsExact` says without
them.  The round that spoils dependants is iterated as often as there are ids; each
round that is not the last spoils one more, so the last one changes nothing
(`Iteration`, `SpoiledSteps`), and what is left is the largest set closed under
dependencies (`RunnableIsLargest`).  The Kahn pass never stops early but in a cycle:
`Greedy` says of every prefix that each entry was the least one ready then
(`GreedyGrows`, `OrderedIsGreedy`), and a module that is viable and not in the order
would have a dependency that is viable and not in it, for ever (`OrderedIsViable`).
The cut at the capacity is a prefix, so the same holds of it (`AdmittedIsExact`).

For any number of incarnations and any timeouts, the section of `PublicationProofs`
on service and gate proves that one cycle runs at a time and that no live owner's heartbeat is removed.
`WorkHoldsLock` is the strengthening: whoever works, the orphan of a killed
service included, keeps the file description locked, and a worker belongs to a
serving or a killed incarnation only.  `ServiceIsOwnership` shows that service and
gate together implement the service, so these theorems hold with the gate; and
`ServedIsRecent` follows from `SignsAreTrue`, which bounds how long ago the service
served by each sign of it: the heartbeat's age, what each slow request has seen,
what the cache holds.

`PublicationProofs` proves `PublishedIsOnDisk`, `PublicMovesForward` and
`RecoveryIsComplete` for any cycles, runs and faults.  A run may end anywhere and
the next one recovers, so the invariant says for each place what is whose:
`JournalsAreSafe` that at most one journal is prepared and that what it can still
put in place holds all that is published, `HistoryIsSound` and `RowsAreSound` how
far the files may be ahead of the database, `RecoveryGoesOn`, `PlanIsSafe` and
`PublicationGoesOn` how far recovery and publication have come.  What the history
holds is a recursive function of the table of observations, and the facts about it
(`LegacyHistoryIsTheRecord`) are proved from the least cycle for which they would
fail.

`ProductsProofs` proves eight properties of `products`, component by component:

* *NWS* (`NwsPublishedIsUpstream`, `AttachedWasInForce`): `RegistryInPass` and
  `FilesInPass` say which part of the registry and of the files already is what the
  pass downloaded, whatever earlier passes left; `FeaturesAreListed` remembers by
  value a snapshot that may have been cleaned up since it was chosen.
* *StormProb alerts* (`AlertsAreSound`), for scans of any age in any order: files
  expire by the clock, the cooldown goes by the scan's time, and a reading passes over
  what it cannot read.  `NothingElseMatters` says of an alert that was issued that it
  is at most as new as the one loaded for its cell, was unreadable when they were
  loaded, or had expired when the attempt cleaned up; `DealtWith` what has become of a
  forecast.
* *GLM* (`GlmCoversItsWindow`): `FetchedIsListed`, over crashes between the fetch,
  the merge and the deletion.
* *CTAM readiness* (`VerdictsAreSound`): `EntriesDescribe` says what each
  descriptor was when it was described, since its file may be gone; `NoBetterLater`
  that a second verdict, later, is no better.
* *Detection* (`CellsAreTheirStorms`): on any graph of gates, with any crop, seed share
  and size filter, and in any order of flooding, a cell is what the configured
  thresholds let join its storm.  The property speaks of the rain that leads from a
  core to a gate, the code of floods that compete and are cut back:
  `FloodsStartFromCores` says that each gate of a flood is led to from the core it
  started from and a core keeps its polygon, `CutBackTakesWhatJoins` what the cut
  leaves of it, `SizedKeepsWhole` that the size filter keeps a cell whole or drops it.
* *Zones* (`ZonesAreKept`): `RowsAreHeld`, from the start of a command to its end.
* *RAP* (`RapIsFreshest`): `SearchedDownTo` says that the search leaves no eligible
  hour out, `MirrorIsAhead` and `AnyIsAhead` that what was to be had at the
  beginning still lies ahead of it and is still to be had, and `DamageIsCounted`
  that the clean-up cannot be pushed out of the good files by more damaged ones
  than there were faults.

`IngestProofs` proves the four safety properties of `nexrad`:

* *Stream* (`NothingLostOrTorn`, in `StreamLosesNothing`): an ingest appends to a
  file that a parse in another process truncates and writes anew, and each knows of
  the other only the position and the names it is handed.  `FileIsSound` says what
  that comes to: the file is the header and an *unbroken run* of chunks that begins
  with the first of a group, up to the last chunk recorded, and of every chunk cut off
  before it the elevation is exported.  During a rewrite that is said of the file with
  what is still to be written behind it (`Mended`), which is why a rewrite that stops
  is an exception and a worker that dies before or after it is not.  `IngestIsSound`
  says that the ingest's place is the end of that file and the list what follows it,
  `ParseIsOwned` that the one parse there is is the awaited one, with `StageIsSound`
  for each place it can be at, `StateIsSound` that the saved state speaks of that file.  From
  the run it follows which groups a parse sees, that they are whole
  (`VisibleInRun`), and that trimming leaves a run again (`TrimmedRun`).  Written
  for the general case, the invariant showed that a parse that outlives its time
  limit breaks it: with more chunks than a small instance has, a volume can be
  declared complete with a torn elevation.  The property excepts it (see
  [6](#6-findings)).
* *Pipeline* (`InHandIsAccountedFor`): `ListsAgree` says that the tracker says one
  thing of a volume and the list of the pending pass the same, `IngestsHaveChunks`
  that an ingest begins only with chunks that are there, `OnePassAtATime` that no
  scan runs beside a pending pass, whose list may be out of date, `NewestIsSeen` that
  no list has a volume newer than the newest found, so that what is dropped as
  superseded gives way to a newer one.  `EntryKept` and `IngestKept` say what a step
  does with an entry and with an ingest, and `KeptIsAccountedFor` that this is enough.
* *Artifacts* (`NeverRenderedTorn`): `ReadIsCommitted` says that a sidecar
  means a whole file, for the renderer that has looked and the one about to.
* *Parsing* (`ParsingIsSound`, in `ParsingIsRight`), for windows, listings and record
  streams of any length.  The invariant is only what a sample is (`SampleType`); the
  work is in what the pure code computes.  `Recursion` makes a list of intermediate
  values out of a definition by steps, and `RankedAs` says that a list with the
  members of a set in the order of a key *is* the sorted set.  *Volumes*: a run of
  identifiers wraps around at most once; `RunInOrder` and `WrappedInOrder` are the two
  cases, and `WindowInOrder` shows that the largest gap is the one between the runs.
  A single identifier left out is enough for that; with none there is no gap at all and
  the order cannot be told.  *Chunks* (`TakenIsContiguous`): after each chunk read,
  the list taken holds the numbers from 1 on, has a start chunk at its head if one was
  read, and every chunk read had one of these numbers or lies behind a hole; since the
  chunks come by number, what is missing then is missing for good.  *Records*: a
  stream whose sweeps are all whole never cuts one short (`WholeIs`), so a parse of
  its beginning finds a beginning of its sweeps and one open sweep at most
  (`PrefixReading`, `PrefixComplete`) and holds every record that is not low
  (`RecordsRead`).  What the first parse exports is then all records up to one at
  which no sweep was open (`FirstParse`, `StopsAt`); the second parse, reading the
  rest, is simulated by the parse of the whole from that record on (`RestIsRead`), with
  the records renumbered.  In a regular pattern the groups are the lone sweeps and the
  pairs (`RegularGroups`), and as no surveillance sweep waits at the cut, they are
  those before it and those after it (`ElevationsResume`).

The first two and the last, and the proof about `MrmsIngest` below, rest on what filtering a list
does.  `Selected` is a recursive function; that it keeps exactly the chosen entries,
and in which order, is proved entry by entry from the least place where it would
fail (`SelectedSteps`, `SelectionIs`, `SelectedEnds`).

Another section proves `StagedIsTheScan`, the safety half of `ScansAreStaged`
(`StagedScanIsTheScan`), for any scans, remote files, limits and failures.  A
transfer and the cleanup share a directory, and the predecessor is the newest older
file of *any* kind, so what must be known is what else than whole files is ever
there: `LeftoverIsOurs` says that, unless a crash or a damaged archive left
something, it is one file, the newest, and the one the attempt is working on, hence
nothing of the kind when a manifest is pinned.  `FromS3` says that an attempt whose
scan S3 listed never leaves S3 unless S3 fails; what could take its file away is the
cleanup, and `VictimsAreOld` says that it is after such a file for its age only,
which the file of a scan does not have (`RoundedIsNear`).  This is where it matters
that the cleanup counts the newer files only: were it to keep none, the proof, like
the code, would fail.

`CellTrackingProofs` proves `TracksFollowStorms` for any ids, scans and overlaps, and
whatever the lineage counters hold: they only choose which of the events seen are
confirmed (`MergesAreSound`, `SplitsAreSound`).  The new list is one short list after
another, one for each merge, split, match by id, assignment and new cell (`UpdatedIs`);
`HasOne` and `HasNone` count what each of them carries and are added up over the
concatenation (`JoinedHolds`, `FlattenedHolds`, `EachHolds`).  The proof was preceded
by a search with larger instances than the run's, in which TLC refuted the property as
it was first stated: see the old records in [6](#6-findings), for which it now makes an
exception.

Several proofs need the largest of some numbers, where the code takes the newest of some
files; the library's induction on finite sets is out of the prover's reach, so
`MaxOfFinite` takes a smallest counterexample by the well-founded order of subsets.

The assumptions are the named `ASSUME`s of the modules, which TLC evaluates on
every run; nothing else is assumed.  Most say that a constant is a number or a
finite set.  Those that say more:

* `RendererHasNoHeartbeat`: see above.
* `GroupsAreRuns`: the chunks of a group of sweeps are consecutive (a radar uploads
  its volume sweep by sweep).
* `ReadyAssumption` bounds the manifests to sequences of the records modelled;
  `GlmAssumption` says that granules are numbers, `DetectionAssumption` that the grid
  is finite and the rectangle about the strong gates holds them.
* `TrackingAssumption`: ids of cells are positive, and a scan shows finitely many.
* `MrmsAssumption`: scans are even minutes, and both retention limits of the cleanup
  are positive, as in the shipped configuration (`config/filesystem.yaml`).  Its
  schema admits 0 too; the cleanup then removes the file that is being fetched, the
  mirror answers with a file of another scan, and TLC refutes `StagedIsTheScan`.
* `ParsingAssumption`: volume identifiers start again after more than one, and the sizes are numbers.  What else the parsing needs is in its
  property: a bucket that holds an unbroken run of volumes and not the whole cycle, and a
  regular scan pattern.

Only model-checked is every liveness property (fairness and `ENABLED` are beyond the
prover), the second half of `ScansAreStaged` among them.

What a recursive *function* computes needs induction over data, which the library's
theorems cannot be instantiated for; where a proof above needs one, it is made by
hand, from a least counterexample or number by number.

## 6 Findings

Each is the question of a run that TLC answers with a counterexample.

* **A** (`handoff_malformed`): the documentation says a malformed record is
  marked unrecoverable; the drain stops at it instead, and the phase waits.
* **B** (`service_lock_after_crash`): `ServiceLock` promises that a crashed owner
  releases the lock automatically; the forked manager of a killed primary shares
  the locked description, outlives it and blocks every restart.
* **C** (`publication_listed`): the documentation says an intermediate snapshot is
  not in the public index; a retry of a published cycle overwrites its listed
  snapshot with the intermediate one.
* **D** (`ctam_failed`): the documentation says a failed or timed-out module
  publishes nothing; the routes (and patches) of every sealed transaction are
  published, whatever became of the module that sealed it.
* **E** (`lineage_retry`): the lineage buffer promises a minimum number of
  consecutive scans; it is saved in the middle of an attempt, and a retried scan
  counts twice.
* **F** (`wpc_latest`): the documentation says that the latest artifact is the
  latest valid analysis; the pass writes the previous one over it.

Other places where the code and what is written about it part, met while
modelling.  No run is about them, either because they are plain to see or because
the models abstract from the detail:

* A parse worker is to rewrite a runtime file only for "a caller that owns the partial
  volume" (`common/ingest/nexrad/worker.py:138`).  After the time limit
  (`service.py:755`) two own it: the pool is shut down without waiting, the ingest
  appends on, and the late parse writes its old view over the chunks appended since.
  They are lost although recorded, and an elevation without them is exported.
* The rewrite itself is in place (`worker.py:207`, opened 'wb').  A worker that is killed
  in it, or fails in it (`:220`), leaves the file cut; the parent swallows the error
  (`service.py:764`), goes on and saves the keys of all chunks, so those that were in the
  lost part are not fetched again.  A worker that dies before the rewrite does no harm,
  and `NothingLostOrTorn` excepts only a death or an error inside it ("torn").
* A pending volume whose ingest has started is to be kept when a newer one is seen
  (`tests/core/ingest/test_nexrad_pipeline.py:235`).  The mark is set only when a scan's ingest returns short of an elevation
  (`pipeline/__init__.py:299`): the ingest of a pending pass (`:401`) and a scan's that is
  cut off (`:294`) leave chunks of a volume that the next newer one drops (`:253`).
* The cooldown of a storm alert goes by the time of the scan, the life of its file by
  the clock (`alerts/manager.py:294`): a scan that is processed late, or retried after
  half an hour, may repeat an alert, and one whose file cannot be read (`:167`) is
  forgotten.  `AlertsAreSpaced` excepts both.
* The parent of a merge that dissipates keeps its id and its place in the published
  list (`track.py:319`), and the next scan looks at every record for splits
  (`lineage/detector.py:176`).  When the id is in use by a live cell as well, a split of
  the dead record can take it: the live cell's detection then begins a new track, or
  is in the list twice, once as the child of a merge.
* Selectors of RAP fields are checked against field names at discovery, while the
  coordinator pins the product under "RAP": no such requirement is ever satisfied.
* A required module that is *skipped* also drops all external changes
  (`run.py:108` raises for it; `RequiredOrNothing` says what the code does);
  `docs/ctam/module-operations.md:26` says it does not count as a required failure,
  which is true of the status record (`run.py:99`) alone.
* Expansion is commented as connected; the filter after it leaves isolated gates.
* `run.py:110` says only sealed transactions are read; a commit that is late may
  assign cells while they are collected (`CollectCell` in `CtamStage`), and the
  cells and the routes of one transaction part (`OnlyLateCommitsArePart`).
* A commit after an abandon seals an empty transaction; staged alerts are
  collected and published nowhere; `PATCH cells/{id}/entries` has no route.
* The list of cells reports the highest revision of any cell, and a patch of one
  cell is compared with that cell's own.
* `processes.py` documents `max_restarts` and disables a child at the restart
  after it.
* A GOES set whose render raised counts as rendered; zones read while they were
  torn stay empty, and stations that failed to load stay unknown, for the life of
  the process.
* A scan without the precipitation-type grid or without ProbSevere resets all
  tracks; the synchronous MRMS fallback runs on the event loop.
* `track.py:316` says a merged child is the only surviving output; where the
  dominant parent keeps the child's id, a dissipated record of each other parent
  is returned as well.
* The primary's activity lease is not refreshed within a cycle and can expire in a
  long one.

## 7 Not modelled

* Enrichment, the mathematics of StormProb and of the tracking filter, rendering
  (arrays and floating point; a choice where its result matters), the decoding of
  GRIB, NetCDF, METAR, coded fronts and Level-II bytes.
* The primary's activity lease: advisory, a reader waits for it at most
  `pause_max_wait`.  The launcher: it starts the services and stops all when one
  ends.  Configuration: constant while a service runs; its values are the
  CONSTANTS.  Command line and terminal views, the read-only routes of the API,
  file and process utilities, tests, benchmarks, examples and container files.
* Of components that are modelled in part: the intersection of several products'
  listings in the scan selection (`PrimaryCycle` lets any published minute come),
  the cell index and the glob fallback of the index manager, feature vectors and
  backups of the database, module histories, the three services that are not the
  primary (in `ServiceGate`, time that passes), malformed heartbeats.

Below the models, and taken as it is: atomic rename and flock of the operating
system, transactions of SQLite, locks inside `multiprocessing`.  A power failure
that loses unsynced data is not modelled; a kill of a process is.

Simplifications inside the models, each noted where it is made: one storm cell in
`CyclePublication`, present in every cycle; one product and its predecessor in
`MrmsIngest`; one request at a time per CTAM module; staged alerts and history
patches of CTAM, which take the paths of routes and cell patches; one site and one
elevation at a time in `NexradArtifacts`.

## 8 Plan

In this order; each module is to be provable (recursive functions instead of
RECURSIVE operators, invariants as named conjuncts).

1. `ScanSelection`: the latest common minute of several listings and its
   fallback, against a definition that does not mention the algorithm.
2. Composition: `PrimaryCycle` with `PhaseHandoff`, so that the handoff's cursor
   is the primary's; `NexradStream` with `NexradArtifacts`, so that an export is
   an artifact.
3. `PrimaryLease` and `Launcher`: the lease that pauses accessory downloads, and
   the life of the service processes.
4. The index manager's second half: cell index, inactive cells, and the fallback
   to the files when there is no database.
