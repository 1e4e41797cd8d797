--------------------------- MODULE NexradParsing ---------------------------
(***************************************************************************)
(* The pure part of the NEXRAD ingest                                      *)
(* (src/src/common/ingest/nexrad: s3_chunks.py, parser.py, grouping.py):   *)
(* which volumes of a site are recent, which of its chunks may be used,    *)
(* which sweeps a record stream holds and how they form elevations.        *)
(*                                                                         *)
(* A sample grows step by step, as the radar uploads: a window of volume   *)
(* identifiers, a listing of chunks, or a record stream.                   *)
(***************************************************************************)
EXTENDS Integers, Sequences, FiniteSets, SequencesExt, Selection

CONSTANTS
    Cycle,       \* volume identifiers run from 1 to Cycle and start again
    FirstChunks, \* min_required_volume_chunks
    MaxChunks,   \* chunks of a listing (bounds the samples)
    MaxRecords   \* records of a stream (bounds the samples)

ASSUME ParsingAssumption ==
    Cycle \in Nat \ {0, 1} /\ FirstChunks \in Nat /\ MaxChunks \in Nat

VARIABLE sample

\* A set in the order of a key: the k-th member has k - 1 before it.
Ranked(S, key) ==
    [k \in 1..Cardinality(S) |->
        CHOOSE x \in S : Cardinality({y \in S : key[y] < key[x]}) = k - 1]

(***************************************************************************)
(* order_recent_volume_ids: identifiers that wrapped around are newer than *)
(* those on the other side of the largest gap.                             *)
(***************************************************************************)
Descending(ids) == Ranked(ids, [x \in ids |-> -x])
NextId(ids, x) == CHOOSE y \in ids : y > x /\ \A z \in ids : z > x => y <= z
Biggest(ids) == CHOOSE x \in ids : \A y \in ids : y <= x
GapAfter(ids, x) == NextId(ids, x) - x

OrderRecent(ids) ==
    LET inner == ids \ {Biggest(ids)}
        wide == {x \in inner : \A y \in inner : GapAfter(ids, y) <= GapAfter(ids, x)}
        cut == CHOOSE x \in wide : \A y \in wide : x <= y
    IN  IF 1 \notin ids \/ Cardinality(ids) < 2 \/ GapAfter(ids, cut) <= 1
        THEN Descending(ids)
        ELSE Descending({x \in ids : x <= cut}) \o Descending({x \in ids : x > cut})

(***************************************************************************)
(* required_volume_chunks: one chunk of each number from 1 on, until a     *)
(* number is missing; several kinds of a chunk may be listed.              *)
(***************************************************************************)
Rank(kind) == CASE kind = "E" -> 1 [] kind = "I" -> 2 [] kind = "S" -> 3
Place(c) == 4 * c.number + Rank(c.kind)

TakeChunk(run, c) ==
    IF c.number = Len(run) + 1 THEN Append(run, c)
    ELSE IF c.number = 1 /\ c.kind = "S" THEN [run EXCEPT ![1] = c]
    ELSE run

RequiredChunks(listing) ==
    LET ordered == Ranked(listing, [c \in listing |-> Place(c)])
        taken[n \in 0..Len(ordered)] ==
            IF n = 0 THEN <<>> ELSE TakeChunk(taken[n - 1], ordered[n])
        run == taken[Len(ordered)]
    IN  IF Len(run) < FirstChunks THEN <<>> ELSE run

(***************************************************************************)
(* _walk_records: a sweep starts at a start status, or at any record when  *)
(* none is open; it is complete when its end status is read.  A record     *)
(* below the lowest angle is left out, but its start status closes a sweep.*)
(***************************************************************************)
Records == [status : {"start", "middle", "end"}, wave : {"cs", "cd", "batch"}, low : {FALSE}]
           \cup {[status |-> "start", wave |-> "cs", low |-> TRUE]}

Sweep(acc, whole) == [records |-> acc.open, wave |-> acc.wave, whole |-> whole]

Close(acc) ==
    IF acc.open = <<>> THEN acc
    ELSE [acc EXCEPT !.sweeps = Append(@, Sweep(acc, FALSE)), !.open = <<>>]

ReadRecord(stream, acc, i) ==
    LET r == stream[i]
        before == IF r.status = "start" THEN Close(acc) ELSE acc
        opened == [before EXCEPT !.wave = IF before.open = <<>> THEN r.wave ELSE @,
                                 !.open = Append(@, i)]
    IN  IF r.low THEN before
        ELSE IF r.status # "end" THEN opened
        ELSE [opened EXCEPT !.sweeps = Append(@, Sweep(opened, TRUE)), !.open = <<>>]

NothingRead == [sweeps |-> <<>>, open |-> <<>>, wave |-> "cs"]

Sweeps(stream) ==
    LET read[n \in 0..Len(stream)] ==
            IF n = 0 THEN NothingRead ELSE ReadRecord(stream, read[n - 1], n)
    IN  Close(read[Len(stream)]).sweeps

\* _extract_worker_sweep_records.
CompleteSweeps(stream) ==
    LET all == Sweeps(stream)
    IN  Selected(all, {i \in DOMAIN all : all[i].whole})

(***************************************************************************)
(* _group_by_waveform: a surveillance sweep and the doppler sweeps after   *)
(* it, or a sweep of another waveform alone; a surveillance sweep without  *)
(* its doppler mate is not a group yet.                                    *)
(***************************************************************************)
\* Fault variant: a surveillance sweep is a group before its mate has come.
FinalizeAny(acc) ==
    IF acc.open = <<>> THEN acc
    ELSE [groups |-> Append(acc.groups, acc.open), open |-> <<>>]

Finalize(acc) ==
    IF \E i \in DOMAIN acc.open : acc.open[i].wave # "cs"
    THEN [groups |-> Append(acc.groups, acc.open), open |-> <<>>]
    ELSE [acc EXCEPT !.open = <<>>]

GroupSweep(acc, s) ==
    CASE s.wave = "cs"    -> [Finalize(acc) EXCEPT !.open = <<s>>]
      [] s.wave = "cd"    -> IF acc.open = <<>> THEN acc ELSE [acc EXCEPT !.open = Append(@, s)]
      [] s.wave = "batch" -> Finalize([Finalize(acc) EXCEPT !.open = <<s>>])

NoGroups == [groups |-> <<>>, open |-> <<>>]

GroupsOf(sweeps) ==
    LET grouped[n \in 0..Len(sweeps)] ==
            IF n = 0 THEN NoGroups ELSE GroupSweep(grouped[n - 1], sweeps[n])
    IN  Finalize(grouped[Len(sweeps)]).groups

(***************************************************************************)
(* parse_and_export, twice: what is left of a stream when the groups of    *)
(* its first n records have been exported and their records dropped.       *)
(***************************************************************************)
Members(groups) == UNION {{groups[i][j] : j \in DOMAIN groups[i]} : i \in DOMAIN groups}
RecordsOf(sweeps) == UNION {{s.records[k] : k \in DOMAIN s.records} : s \in sweeps}
Seen(stream, n) == GroupsOf(CompleteSweeps(SubSeq(stream, 1, n)))

RecordSets(groups) ==
    {RecordsOf({groups[i][j] : j \in DOMAIN groups[i]}) : i \in DOMAIN groups}

\* The records it finds: those the first one has seen but not exported, and the new.
Unexported(stream, n) ==
    LET known == RecordsOf(ToSet(Sweeps(SubSeq(stream, 1, n))))
        gone == RecordsOf(Members(Seen(stream, n)))
        records == (known \ gone) \cup ((n + 1)..Len(stream))
    IN  Ranked(records, [i \in records |-> i])

\* The groups it makes of them, by the numbers the records had at first.
FoundLater(stream, n) ==
    LET kept == Unexported(stream, n)
        found == RecordSets(Seen([i \in DOMAIN kept |-> stream[kept[i]]], Len(kept)))
    IN  {{kept[k] : k \in records} : records \in found}

(***************************************************************************)
(* The samples.                                                            *)
(***************************************************************************)
ParsingInit ==
    sample \in {[kind |-> "volumes", first |-> f, count |-> 1] : f \in 1..Cycle}
               \cup {[kind |-> "chunks", listing |-> {}], [kind |-> "stream", records |-> <<>>]}

NextVolume ==
    /\ sample.kind = "volumes"
    /\ sample.count < Cycle - 1
    /\ sample' = [sample EXCEPT !.count = @ + 1]

NextChunk ==
    /\ sample.kind = "chunks"
    /\ \E n \in 1..MaxChunks, k \in {"E", "I", "S"} :
         /\ k = "S" => n = 1
         /\ k = "E" => n = MaxChunks
         /\ sample' = [sample EXCEPT !.listing = @ \cup {[number |-> n, kind |-> k]}]

NextRecord ==
    /\ sample.kind = "stream"
    /\ Len(sample.records) < MaxRecords
    /\ \E r \in Records : sample' = [sample EXCEPT !.records = Append(@, r)]

ParsingNext == NextVolume \/ NextChunk \/ NextRecord

ParsingSpec == ParsingInit /\ [][ParsingNext]_sample

-----------------------------------------------------------------------------
\* The newest volume comes first though identifiers start again at 1, as long as
\* the bucket holds an unbroken run of volumes that is not the whole cycle.
NewestVolumeFirst ==
    sample.kind = "volumes" =>
        LET id(k) == ((sample.first + k - 2) % Cycle) + 1
            n == sample.count
        IN  OrderRecent({id(k) : k \in 1..n}) = [k \in 1..n |-> id(n + 1 - k)]

\* The chunks used are exactly the numbers from 1 up to the first hole, each
\* once, the first of them the start chunk if it is there.
ChunksAreContiguous ==
    sample.kind = "chunks" =>
        LET numbers == {c.number : c \in sample.listing}
            run == {n \in numbers : 1..n \subseteq numbers}
            used == RequiredChunks(sample.listing)
        IN  /\ Len(used) = (IF Cardinality(run) < FirstChunks THEN 0 ELSE Cardinality(run))
            /\ \A i \in DOMAIN used : used[i].number = i /\ used[i] \in sample.listing
            /\ used # <<>> /\ [number |-> 1, kind |-> "S"] \in sample.listing =>
                 used[1].kind = "S"

\* The scan patterns in use: every surveillance sweep has one doppler sweep, right
\* after it, and no sweep is cut short.
Regular(sweeps) ==
    \A i \in DOMAIN sweeps :
        /\ sweeps[i].whole
        /\ sweeps[i].wave = "cd" => i > 1 /\ sweeps[i - 1].wave = "cs"
        /\ i > 1 /\ sweeps[i - 1].wave = "cs" => sweeps[i].wave = "cd"

\* A stream of such a pattern may be parsed, exported and trimmed at any record
\* and goes on as if it had been parsed at once: the same elevations of the same
\* records, none twice, none lost, none joined to a sweep it does not belong to.
TrimmingIsHarmless ==
    sample.kind = "stream" =>
        LET stream == sample.records IN
        Regular(Sweeps(stream)) =>
            \A n \in DOMAIN stream :
                RecordSets(Seen(stream, n)) \cup FoundLater(stream, n)
                    = RecordSets(GroupsOf(CompleteSweeps(stream)))

ParsingIsSound == NewestVolumeFirst /\ ChunksAreContiguous /\ TrimmingIsHarmless
=============================================================================
