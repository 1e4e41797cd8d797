---------------------------- MODULE CtamReadiness ----------------------------
(***************************************************************************)
(* Which of a module's declared inputs a cycle can serve (ctam/manifest.py *)
(* and ctam/readiness.py): the requirement is parsed at discovery, the     *)
(* cycle's artifacts are described once in a frozen catalogue, the runner  *)
(* judges the requirement against it before it launches the module, and    *)
(* the judgement is made again for the status record when all have run.    *)
(*                                                                         *)
(* Files may be cleaned away at any time, and the clock runs on.           *)
(***************************************************************************)
EXTENDS Integers, Sequences, FiniteSets

CONSTANTS
    MrmsProducts,   \* the MRMS ingest catalogue
    RapFields,      \* fields of the RAP catalogue
    Storms,         \* cells of the cycle
    Manifests,      \* the manifests a cycle may pin: sequences of Records
    HistoryWindow,  \* MAX_HISTORY_WINDOW
    LastMinute      \* bounds the model: minutes the clock may run past the cycle time

PendingGrace == 2   \* PENDING_GRACE_SECONDS, in minutes
Families == {"mrms", "rap"}
Roles == {"current", "previous"}

VARIABLES
    wants,    \* the [[requires]] block of the module, and whether it is required
    stage,    \* how far the cycle is
    minute,   \* the clock, since the cycle's analysis time
    staged,   \* the pinned manifest: its records in order, each with the state of its file
    host,     \* the snapshot and the cell histories on disk
    entries,  \* the catalogue: the descriptors it holds
    judged,   \* whether the requirement was satisfied before the launch
    recorded  \* whether the status record says it was

readyVars == <<wants, stage, minute, staged, host, entries, judged, recorded>>

\* What an input selector may be checked against; the RAP file itself is pinned as "RAP".
Known(family) == IF family = "mrms" THEN MrmsProducts ELSE RapFields
PinnedProducts == MrmsProducts \cup {"RAP"}
FamilyOf(product) == IF product = "RAP" THEN "rap" ELSE "mrms"

\* 0 stands for a key that is not in the block.
Selectors ==
    [kind: {"input"}, family: Families \cup {"other"}, product: PinnedProducts \cup RapFields,
     role: Roles \cup {"history"}] \cup
    [kind: {"stormcells", "cell_history", "other"}, family: {"none"}, product: {"none"},
     role: {"none"}]
Wants == [selector: Selectors, required: BOOLEAN, maxAge: 0..2, minHistory: 0..HistoryWindow + 1]

\* A file the coordinator staged: what it found, and how old the analysis is.
Records ==
    [product: PinnedProducts, role: Roles, validated: BOOLEAN, aligned: BOOLEAN,
     age: 0..1, file: {"there", "absent", "large"}]

ASSUME ReadyAssumption ==
    /\ Manifests \subseteq Seq(Records)
    /\ HistoryWindow \in Nat /\ LastMinute \in Nat

Snapshots == {"there", "absent", "large", "damaged", "foreign"}

\* A history holds some number of states, or is not a list that can be read.
Absent == [file |-> "absent", states |-> 0]
HistoryReadings == [file: {"there"}, states: 0..HistoryWindow + 1] \cup
             {Absent, [file |-> "large", states |-> 0], [file |-> "damaged", states |-> 0]}

ReadyInit ==
    /\ wants \in Wants /\ stage = "parsing" /\ minute = 0
    /\ staged \in Manifests
    /\ host \in [snapshot: Snapshots, history: [Storms -> HistoryReadings]]
    /\ entries = {} /\ judged = "no" /\ recorded = "no"

-----------------------------------------------------------------------------
\* parse_selector; a product is not checked when the host's own catalogue fails to load.
SelectorParses(selector, loaded) ==
    \/ selector.kind \in {"stormcells", "cell_history"}
    \/ /\ selector.kind = "input" /\ selector.family \in Families /\ selector.role \in Roles
       /\ loaded => selector.product \in Known(selector.family)

\* _require_requires: each condition belongs to one kind, and asks for what can be had.
Parses(want, loaded) ==
    /\ SelectorParses(want.selector, loaded)
    /\ want.maxAge # 0 => want.selector.kind = "input"
    /\ want.minHistory # 0 =>
        want.selector.kind = "cell_history" /\ want.minHistory <= HistoryWindow

ParseManifest ==
    /\ stage = "parsing"
    /\ \E loaded \in BOOLEAN :
        stage' = IF Parses(wants, loaded) THEN "cataloguing" ELSE "invalid"
    /\ UNCHANGED <<wants, minute, staged, host, entries, judged, recorded>>

-----------------------------------------------------------------------------
\* _describe_input: the order of the questions decides which fault is reported.
InputReadiness(record) ==
    IF record.file # "there" THEN "unavailable"
    ELSE IF ~record.validated THEN "invalid"
    ELSE IF ~record.aligned THEN "stale" ELSE "ready"

\* A file the host may still write is pending for a while.
AbsentReadiness == IF minute > PendingGrace THEN "unavailable" ELSE "pending"

SnapshotReadiness ==
    CASE host.snapshot = "absent" -> AbsentReadiness
      [] host.snapshot = "large" -> "unavailable"
      [] host.snapshot = "damaged" -> "invalid"
      [] host.snapshot = "foreign" -> "stale"
      [] OTHER -> "ready"

HistoryReadiness(cell) ==
    CASE host.history[cell].file = "absent" -> AbsentReadiness
      [] host.history[cell].file = "large" -> "unavailable"
      [] host.history[cell].file = "damaged" -> "invalid"
      [] OTHER -> "ready"

\* Of two records with one id the first is described.
Described == {i \in DOMAIN staged :
                \A j \in 1..(i - 1) :
                    <<staged[j].product, staged[j].role>> # <<staged[i].product, staged[i].role>>}

InputEntry(record) ==
    [kind |-> "input", product |-> record.product, role |-> record.role, of |-> 0,
     age |-> record.age, readiness |-> InputReadiness(record)]
HostEntry(kind, role, of, readiness) ==
    [kind |-> kind, product |-> "none", role |-> role, of |-> of, age |-> 0,
     readiness |-> readiness]

BuildCatalog ==
    /\ stage = "cataloguing"
    /\ entries' =
        {InputEntry(staged[i]) : i \in Described}
        \cup {HostEntry("stormcells", "current", 0, SnapshotReadiness)}
        \cup {HostEntry("cell_history", "history", c, HistoryReadiness(c)) : c \in Storms}
    /\ stage' = "judging"
    /\ UNCHANGED <<wants, minute, staged, host, judged, recorded>>

\* Fault variant: any role of the product will do.
ResolveAnyRole(selector) ==
    {e \in entries : e.kind = selector.kind /\ (e.kind = "input" => e.product = selector.product)}

\* resolve: the family of an entry is that of its product.
Resolve(selector) ==
    {e \in entries : /\ e.kind = selector.kind
                     /\ e.kind = "input" =>
                            /\ e.product = selector.product /\ e.role = selector.role
                            /\ FamilyOf(e.product) = selector.family}

\* The history is read anew, and no more of it counts than a read can return.
StatesOf(cell) ==
    IF host.history[cell].states > HistoryWindow THEN HistoryWindow ELSE host.history[cell].states

\* _qualify, at some minute of the clock.
Qualifies(entry, want, at) ==
    /\ entry.readiness = "ready"
    /\ want.maxAge # 0 => at + entry.age <= want.maxAge
    /\ want.minHistory # 0 => StatesOf(entry.of) >= want.minHistory

\* _evaluate_one: one qualifying entry is enough.
Satisfied(want, at) == \E e \in Resolve(want.selector) : Qualifies(e, want, at)

\* evaluate_requirements: what is optional holds up nothing.
VerdictOf(at) == IF wants.required => Satisfied(wants, at) THEN "satisfied" ELSE "unsatisfied"

\* ExternalModuleRunner.run: the module is launched, or skipped.
Judge ==
    /\ stage = "judging"
    /\ judged' = VerdictOf(minute) /\ stage' = "running"
    /\ UNCHANGED <<wants, minute, staged, host, entries, recorded>>

\* _run_external_modules: when all modules have run, the status record is written.
RecordStatus ==
    /\ stage = "running"
    /\ recorded' = VerdictOf(minute) /\ stage' = "recorded"
    /\ UNCHANGED <<wants, minute, staged, host, entries, judged>>

-----------------------------------------------------------------------------
\* The clock, and the cleanups of the downloads and of the cell files.  A file deleted
\* after it was described is "gone".
Tick ==
    /\ minute < LastMinute /\ stage \in {"cataloguing", "judging", "running"}
    /\ minute' = minute + 1
    /\ UNCHANGED <<wants, stage, staged, host, entries, judged, recorded>>

Deleted == IF stage = "cataloguing" THEN "absent" ELSE "gone"

InputDeleted(i) ==
    /\ stage \in {"cataloguing", "judging", "running"} /\ staged[i].file = "there"
    /\ staged' = [staged EXCEPT ![i].file = Deleted]
    /\ UNCHANGED <<wants, stage, minute, host, entries, judged, recorded>>

HistoryDeleted(c) ==
    /\ stage \in {"cataloguing", "judging", "running"} /\ host.history[c].file = "there"
    /\ host' = [host EXCEPT !.history[c] = [file |-> Deleted, states |-> 0]]
    /\ UNCHANGED <<wants, stage, minute, staged, entries, judged, recorded>>

ReadyNext ==
    \/ ParseManifest \/ BuildCatalog \/ Judge \/ RecordStatus \/ Tick
    \/ \E i \in DOMAIN staged : InputDeleted(i)
    \/ \E c \in Storms : HistoryDeleted(c)

ReadySpec == ReadyInit /\ [][ReadyNext]_readyVars

-----------------------------------------------------------------------------
(***************************************************************************)
(* Properties.                                                             *)
(***************************************************************************)
\* "A wrong verdict either starves a module or runs one against a file that is not there"
\* (readiness.py).  An input can be served if the first record of its product and role was
\* readable when it was described, was validated, and is of this cycle.
Servable(selector) ==
    \E i \in DOMAIN staged :
        /\ staged[i].product = selector.product /\ staged[i].role = selector.role
        /\ \A j \in DOMAIN staged :
            j < i => staged[j].product # selector.product \/ staged[j].role # selector.role
        /\ staged[i].validated /\ staged[i].aligned /\ staged[i].file \in {"there", "gone"}
        /\ FamilyOf(selector.product) = selector.family

VerdictIsEarned ==
    stage = "running" /\ wants.selector.kind = "input" /\ wants.required =>
        /\ judged = "satisfied" => Servable(wants.selector)
        /\ wants.maxAge = 0 /\ Servable(wants.selector) => judged = "satisfied"

\* The status record is judged again after the modules have run, and may call a module
\* unsatisfied that was launched; it never calls one satisfied that was skipped for want
\* of its inputs (run.py).
RecordIsNoBetter == recorded = "satisfied" => judged = "satisfied"

\* What is acted on and what is reported of it.
VerdictsAreSound == VerdictIsEarned /\ RecordIsNoBetter
=============================================================================
