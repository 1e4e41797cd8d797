---------------------------- MODULE CellTracking ----------------------------
(***************************************************************************)
(* How storm cells keep their identity from scan to scan                   *)
(* (EdgeWARN/process/detect): the cells of the last published cycle and    *)
(* the detections of this scan are related by the overlap of their         *)
(* footprints; merges and splits are believed once they were counted in    *)
(* consecutive scans (lineage/buffer.py), everything else is matched by id *)
(* or by distance (track.py).  The buffer is a file of its own, written in *)
(* place in the middle of an attempt that may fail and be repeated.        *)
(***************************************************************************)
EXTENDS Integers, Sequences, FiniteSets, SequencesExt, FiniteSetsExt, Functions

CONSTANTS
    Ids,               \* ProbSevere ids; of two cells the higher id is the stronger
    Scenes,            \* sets of ids a scan may show (bounds the model)
    MinConfirmations,  \* lineage.buffer.min_confirmations
    MaxCellScans,      \* scans (bounds the model)
    MaxCross,          \* overlaps of cells with different ids in a scan (bounds the model)
    MaxTrackFaults     \* failed or killed attempts (bounds the model)

\* Ids are positive, and a scan shows finitely many cells.
ASSUME TrackingAssumption ==
    Ids \subseteq Nat \ {0} /\ \A ids \in Scenes : ids \subseteq Ids /\ IsFiniteSet(ids)

VARIABLES
    tracks,   \* the cells of the last published cycle, in order
    buffer,   \* lineage_buffer.json: [scan, merges, splits, whole]
    frame,    \* the scan: [scan, before, seen, over, single]
    attempt,  \* [pc, merges, splits, left, out]
    believed, \* history: what was counted in the scan before: [merges, splits]
    stumbles  \* failures so far

cellVars == <<tracks, buffer, frame, attempt, believed, stumbles>>

NoEvents == [id \in {} |-> [count |-> 0, last |-> 0]]
FreshBuffer == [scan |-> 0, merges |-> NoEvents, splits |-> NoEvents, whole |-> TRUE]
NoAttempt == [pc |-> "idle", merges |-> {}, splits |-> {}, left |-> {}, out |-> <<>>]
NoFrame(scan) == [scan |-> scan, before |-> <<>>, seen |-> {}, over |-> {}, single |-> FALSE]

\* A cell: the id it has, the track it continues (the id and scan it began with), the
\* detection whose fields it carries (0: none), and how it is tracked.
Cell(id, track, data, mode) == [id |-> id, track |-> track, data |-> data, mode |-> mode]
NewCell(id, mode) == Cell(id, <<id, frame.scan>>, id, mode)

CellInit ==
    /\ tracks = <<>> /\ buffer = FreshBuffer /\ frame = NoFrame(0) /\ attempt = NoAttempt
    /\ believed = [merges |-> {}, splits |-> {}] /\ stumbles = 0

(***************************************************************************)
(* Footprints.                                                             *)
(***************************************************************************)
InOrder(ids) ==
    [n \in 1..Cardinality(ids) |-> CHOOSE id \in ids : Cardinality({x \in ids : x < id}) = n - 1]
ForEach(ids, Op(_)) == FlattenSeq([i \in 1..Cardinality(ids) |-> Op(InOrder(ids)[i])])

OldIds == {frame.before[p].id : p \in DOMAIN frame.before}
Copies(id) == {p \in DOMAIN frame.before : frame.before[p].id = id}
Entry(id) == frame.before[Min(Copies(id))]

\* The share of an old footprint that a detection covers reaches the threshold: one
\* relation for merges and for splits.
Meets(new, p) == <<p, new>> \in frame.over

\* The index keeps the attributes of the last copy of an id, and a box for each.
OverlapsOld(new, id) == Copies(id) # {} /\ Meets(new, Max(Copies(id)))
Boxes(id, new) == {p \in Copies(id) : p = Max(Copies(id)) \/ Meets(new, p)}
Others(new) == {id \in OldIds \ {new} : OverlapsOld(new, id)}
FoundBoxes(new) == UNION {Boxes(id, new) : id \in Others(new)}

Strongest(ids) == Max(ids)

(***************************************************************************)
(* The buffer.                                                             *)
(***************************************************************************)
LoadedBuffer == IF buffer.whole THEN buffer ELSE FreshBuffer

\* Counted on when the scan the counter numbers before this one had the event too.
Counted(pending, scan, id) ==
    IF id \notin DOMAIN pending THEN 1
    ELSE CASE scan = pending[id].last + 1 -> pending[id].count + 1
           [] scan = pending[id].last     -> pending[id].count
           [] OTHER                       -> 1

Record(pending, scan, ids) ==
    [id \in DOMAIN pending \cup ids |->
        IF id \in ids THEN [count |-> Counted(pending, scan, id), last |-> scan] ELSE pending[id]]

Confirmed(pending, ids) == {id \in ids : pending[id].count >= MinConfirmations}

EndScan(loaded, merges, splits) ==
    [scan |-> loaded.scan + 1, merges |-> merges, splits |-> splits, whole |-> TRUE]

ClearConfirmed ==
    [buffer EXCEPT
        !.merges = Restrict(@, DOMAIN @ \ {m.child : m \in attempt.merges}),
        !.splits = Restrict(@, DOMAIN @ \ {s.parent : s \in attempt.splits})]

(***************************************************************************)
(* LineageDetector.detect.                                                 *)
(***************************************************************************)
\* The old cells that overlap a detection, its own id among them only beside others.
Parents(new) == IF Others(new) # {} /\ OverlapsOld(new, new) THEN Others(new) \cup {new}
                ELSE Others(new)

MergesSeen ==
    {new \in frame.seen :
        Cardinality(FoundBoxes(new)) > 1 \/ Cardinality(Parents(new)) > 1}

\* Fault variant: the strongest parent goes on, whoever has the id of the child.
MergeIntoStrongest(new) ==
    [child |-> new, parents |-> Parents(new), dominant |-> Strongest(Parents(new))]

\* The parent with the id of the child goes on in it, or else the strongest.
MergeInto(new) ==
    [child |-> new, parents |-> Parents(new),
     dominant |-> IF new \in Parents(new) THEN new ELSE Strongest(Parents(new))]

Children(p) == {new \in frame.seen : Meets(new, p)}
SplitsSeen(merged) == {p \in DOMAIN frame.before : frame.before[p].id \notin merged
                                                  /\ Cardinality(Children(p)) > 1}
SplitOf(p) ==
    LET id == frame.before[p].id
    IN  [parent |-> id, children |-> Children(p),
         dominant |-> IF id \in Children(p) THEN id ELSE Strongest(Children(p))]

\* The rest, in the order of the detections: by id, or with the only other footprint.
OneToOne(matched, news) ==
    LET Match(old, new) ==
            IF new \in OldIds \ old /\ OverlapsOld(new, new) THEN old \cup {new}
            ELSE IF Cardinality(FoundBoxes(new)) = 1 THEN old \cup Others(new) ELSE old
    IN  FoldLeft(Match, matched, InOrder(news))

(***************************************************************************)
(* StormCellTracker.update_cells.                                          *)
(***************************************************************************)
\* The fields come from the detection, the id stays: _update_cell_fields.
Carry(cell, id, data) == Cell(id, cell.track, data, "live")

\* The other parents are told of only where the child kept its id.
MergedCells(m) ==
    LET Gone(id) == <<[Entry(id) EXCEPT !.mode = "dissipated", !.data = 0]>>
    IN  (IF m.dominant = m.child THEN ForEach(m.parents \ {m.dominant}, Gone) ELSE <<>>)
        \o <<Carry(Entry(m.dominant), m.child, m.child)>>

SplitCells(s) ==
    LET Child(id) == IF id = s.dominant THEN <<Carry(Entry(s.parent), id, id)>>
                     ELSE <<NewCell(id, "live")>>
    IN  ForEach(s.children, Child)

InEvents == [old |-> {s.parent : s \in attempt.splits} \cup UNION {m.parents : m \in attempt.merges},
             new |-> {m.child : m \in attempt.merges} \cup UNION {s.children : s \in attempt.splits}]

\* By id, wherever the detection is; an id in an event of either kind is not asked again.
SameId == (OldIds \cap frame.seen) \ (InEvents.old \cup InEvents.new)

\* A track that lineage left alone goes no further.
UnmatchedTracks == OldIds \ (InEvents.old \cup SameId \cup attempt.left)
UnmatchedDetections == frame.seen \ (InEvents.new \cup SameId)

LastEntry(id) == frame.before[Max(Copies(id))]

\* run_greedy_assignment: nearest pairs first, each track and detection once; which pairs
\* are within the gate is the scan's.
Assignments ==
    {pairs \in SUBSET (UnmatchedTracks \X UnmatchedDetections) :
        \A a, b \in pairs : a # b => a[1] # b[1] /\ a[2] # b[2]}

\* What no detection was found for is predicted, or reported as dissipated once.
Fates(cell) == (IF cell.mode = "bare" THEN {} ELSE {"predicted"})
               \cup (IF cell.mode = "predicted" THEN {"dropped"} ELSE {"dissipated"})

Updated(pairs, fate) ==
    LET Reacquired(id) == <<Carry(LastEntry(id), id, (CHOOSE d \in pairs : d[1] = id)[2])>>
        Left(id) == IF fate[id] = "dropped" THEN <<>>
                    ELSE <<[LastEntry(id) EXCEPT !.mode = fate[id], !.data = 0]>>
        Matched(id) == <<Carry(Entry(id), id, id)>>
        New(id) == <<NewCell(id, "live")>>
        MergeOf(child) == MergedCells(CHOOSE m \in attempt.merges : m.child = child)
        SplitsOf(parent) == SplitCells(CHOOSE s \in attempt.splits : s.parent = parent)
    IN  ForEach({m.child : m \in attempt.merges}, MergeOf)
        \o ForEach({s.parent : s \in attempt.splits}, SplitsOf)
        \o ForEach(SameId, Matched)
        \o ForEach({d[1] : d \in pairs}, Reacquired)
        \o ForEach(UnmatchedTracks \ {d[1] : d \in pairs}, Left)
        \o ForEach(UnmatchedDetections \ {d[2] : d \in pairs}, New)

(***************************************************************************)
(* A scan and its attempts.                                                *)
(***************************************************************************)
\* Without a published cell the scan before is detected again: cells no one tracked.
Before == IF tracks # <<>> THEN {tracks}
          ELSE {[i \in 1..Cardinality(ids) |->
                    Cell(InOrder(ids)[i], <<InOrder(ids)[i], frame.scan>>, 0, "bare")] : ids \in Scenes}

\* A detection over its own footprint (all but at most one), and over a few others.
Overlaps(before, seen) ==
    LET pairs == (DOMAIN before) \X seen
        own == {d \in pairs : before[d[1]].id = d[2]}
        cross == pairs \ own
    IN  {o \cup c : o \in {own} \cup {own \ {d} : d \in own},
                    c \in UNION {kSubset(k, cross) : k \in 0..MaxCross}}

\* main: which cells came before, and what this scan shows.
StartScan ==
    /\ attempt.pc = "idle" /\ frame.scan < MaxCellScans
    /\ \E before \in Before, seen \in Scenes, single \in BOOLEAN :
        \E over \in IF single THEN {{}} ELSE Overlaps(before, seen) :
            frame' = [scan |-> frame.scan + 1, before |-> before, seen |-> seen,
                      over |-> over, single |-> single]
    /\ attempt' = [NoAttempt EXCEPT !.pc = "detect"]
    /\ UNCHANGED <<tracks, buffer, believed, stumbles>>

\* A radar frame that lacks its companions is detected alone: no cell of it is tracked.
SingleFrame ==
    /\ attempt.pc = "detect" /\ frame.single
    /\ LET Fresh(id) == <<NewCell(id, "bare")>>
       IN  attempt' = [attempt EXCEPT !.pc = "saved", !.out = ForEach(frame.seen, Fresh)]
    /\ UNCHANGED <<tracks, buffer, frame, believed, stumbles>>

\* detect_lineage_events: counted in the buffer of the file, which is saved before a cell
\* is updated.
TrackLineage ==
    /\ attempt.pc = "detect" /\ ~frame.single
    /\ LET loaded == LoadedBuffer
           merges == Record(loaded.merges, loaded.scan, MergesSeen)
           merging == {MergeInto(new) : new \in Confirmed(merges, MergesSeen)}
           merged == UNION {m.parents : m \in merging}
           parents == {frame.before[p].id : p \in SplitsSeen(merged)}
           splits == Record(loaded.splits, loaded.scan, parents)
           splitting == {SplitOf(Min(Copies(id) \cap SplitsSeen(merged))) : id \in Confirmed(splits, parents)}
           matched == merged \cup {s.parent : s \in splitting}
           news == frame.seen \ ({m.child : m \in merging} \cup UNION {s.children : s \in splitting})
       IN  /\ buffer' = EndScan(loaded, merges, splits)
           /\ attempt' = [attempt EXCEPT !.pc = "tracked", !.merges = merging, !.splits = splitting,
                                         !.left = OldIds \ OneToOne(matched, news)]
    /\ UNCHANGED <<tracks, frame, believed, stumbles>>

UpdateCells ==
    /\ attempt.pc = "tracked"
    /\ \E pairs \in Assignments :
        \E fate \in [UnmatchedTracks \ {d[1] : d \in pairs} ->
                        {"predicted", "dissipated", "dropped"}] :
            /\ \A id \in DOMAIN fate : fate[id] \in Fates(LastEntry(id))
            /\ attempt' = [attempt EXCEPT !.pc = "saved", !.out = Updated(pairs, fate)]
    /\ buffer' = ClearConfirmed
    /\ UNCHANGED <<tracks, frame, believed, stumbles>>

\* The cycle is committed and published: its cells are the ones the next scan starts from.
PublishCells ==
    /\ attempt.pc = "saved"
    /\ tracks' = [p \in DOMAIN attempt.out |-> [attempt.out[p] EXCEPT !.data = 0]]
    /\ believed' = IF frame.single THEN believed
                   ELSE [merges |-> MergesSeen,
                         splits |-> {frame.before[p].id : p \in SplitsSeen({})}]
    /\ attempt' = NoAttempt /\ frame' = NoFrame(frame.scan)
    /\ UNCHANGED <<buffer, stumbles>>

\* The attempt fails after its buffer was written, or while it is written, and the scan
\* is tried again or given up.
AttemptFails ==
    /\ attempt.pc \in {"tracked", "saved"} /\ stumbles < MaxTrackFaults
    /\ stumbles' = stumbles + 1
    /\ \E whole \in BOOLEAN : buffer' = [buffer EXCEPT !.whole = ~frame.single => whole]
    /\ \/ attempt' = [NoAttempt EXCEPT !.pc = "detect"] /\ UNCHANGED <<frame, believed>>
       \/ /\ attempt' = NoAttempt /\ frame' = NoFrame(frame.scan)
          /\ believed' = IF frame.single THEN believed
                         ELSE [merges |-> MergesSeen,
                               splits |-> {frame.before[p].id : p \in SplitsSeen({})}]
    /\ UNCHANGED tracks

CellNext ==
    StartScan \/ SingleFrame \/ TrackLineage \/ UpdateCells \/ PublishCells \/ AttemptFails

CellSpec == CellInit /\ [][CellNext]_cellVars

(***************************************************************************)
(* Properties.                                                             *)
(***************************************************************************)
Live(out) == {p \in DOMAIN out : out[p].mode \notin {"dissipated", "predicted"}}

\* A storm that is seen again under its id and over its own footprint keeps its history,
\* unless it went into another cell or came out of one, or a record of it that dissipated
\* before, which keeps its id and its place, came apart into other cells
\* (LineageDetector.detect, StormCellTracker.update_cells).
SameStormSameTrack ==
    attempt.pc = "saved" /\ ~frame.single =>
        \A id \in frame.seen \cap OldIds :
            \/ ~OverlapsOld(id, id)
            \/ \E m \in attempt.merges : id \in m.parents /\ m.child # id
            \/ \E s \in attempt.splits : (s.parent = id) # (id \in s.children)
            \/ \E p \in Live(attempt.out) :
                attempt.out[p].id = id /\ attempt.out[p].track = Entry(id).track

\* The events that put a detection into the cycle.
Claims(new) ==
    {m \in attempt.merges : m.child = new} \cup {s \in attempt.splits : new \in s.children}

\* Every detection of the scan is in the cycle, and once, but for one that several events
\* claim: two splits, or a merge and the split of an old record (update_cells).
EveryDetectionIsCarried ==
    attempt.pc = "saved" =>
        \A new \in frame.seen :
            \/ Cardinality({p \in Live(attempt.out) : attempt.out[p].data = new}) = 1
            \/ Cardinality(Claims(new)) > 1

\* Identity, whatever splits, merges, dropouts and retries make of the cells.
TracksFollowStorms == SameStormSameTrack /\ EveryDetectionIsCarried

\* The buffer's promise: "min_confirmations: Minimum consecutive scans to confirm an
\* event" (lineage/buffer.py).  A confirmed event was seen in the scan before as well.
EventNeedsTwoScans ==
    attempt.pc = "tracked" =>
        /\ {m.child : m \in attempt.merges} \subseteq believed.merges
        /\ {s.parent : s \in attempt.splits} \subseteq believed.splits
=============================================================================
