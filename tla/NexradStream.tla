---------------------------- MODULE NexradStream ----------------------------
(***************************************************************************)
(* The stream ingest of one NEXRAD volume                                  *)
(* (NexradIngestService._stream_ingest_volume_async in                     *)
(* src/src/common/ingest/nexrad/service.py) and the parse workers that     *)
(* read its runtime file and trim it in place (worker.py, worker_pool.py). *)
(*                                                                         *)
(* Chunks are numbered in upload order.  A group of sweeps of one          *)
(* elevation is a run of chunks; its time is the number of its last chunk. *)
(* The runtime file is a sequence of items: the volume header, the records *)
(* of a chunk, or bytes no record walk gets past.                          *)
(***************************************************************************)
EXTENDS Integers, Sequences, FiniteSets, FiniteSetsExt, Selection

CONSTANTS
    GroupOf,     \* chunk -> the sweep group it carries
    AngleOf,     \* sweep group -> its canonical elevation
    MinChunks,   \* min_required_volume_chunks
    Interval,    \* parse_checkpoint_chunk_interval
    MaxFaults    \* faults of one behaviour

ASSUME StreamAssumption ==
    /\ Interval \in Nat \ {0}
    /\ MinChunks \in 1..Len(GroupOf)
    /\ MaxFaults \in Nat

\* A group is a run of chunks.
ASSUME GroupsAreRuns ==
    /\ GroupOf \in Seq(DOMAIN AngleOf)
    /\ \A a, b, c \in DOMAIN GroupOf :
          a <= b /\ b <= c /\ GroupOf[a] = GroupOf[c] => GroupOf[b] = GroupOf[a]

Chunks == DOMAIN GroupOf
Angles == {AngleOf[g] : g \in DOMAIN AngleOf}
ChunksOf(g) == {c \in Chunks : GroupOf[c] = g}
IsFirst(c) == c \in Chunks /\ c = Min(ChunksOf(GroupOf[c]))
IsLast(c) == c \in Chunks /\ c = Max(ChunksOf(GroupOf[c]))

Header == 0
Garbage == -1
NoFile == <<-2>>
NoState == [keys |-> {}, seen |-> {}, stamps |-> [a \in Angles |-> 0]]

VARIABLES
    remote,    \* how many chunks the radar has uploaded
    file,      \* the runtime file
    saved,     \* the runtime state file
    task,      \* the running ingest
    jobs,      \* parses the pool runs: the awaited one and abandoned ones
    exported,  \* elevation artifacts on disk: [angle, at, whole]
    done,      \* the site manifest was written and the runtime files removed
    faults     \* history: the kinds of faults so far

streamVars == <<remote, file, saved, task, jobs, exported, done, faults>>

Idle == [pc |-> "idle", todo |-> <<>>, keys |-> {}, seen |-> {},
         stamps |-> NoState.stamps, append |-> FALSE, pos |-> 0, since |-> 0,
         dirty |-> FALSE, after |-> <<>>]

StreamInit ==
    /\ remote = MinChunks
    /\ file = NoFile
    /\ saved = NoState
    /\ task = Idle
    /\ jobs = {}
    /\ exported = {}
    /\ done = FALSE
    /\ faults = <<>>

Fault(kind) == Len(faults) < MaxFaults /\ faults' = Append(faults, kind)
Had(kinds) == \E i \in DOMAIN faults : faults[i] \in kinds

\* The file after a write behind its first items.  If it has shrunk under the
\* writer there is a hole; if it has grown, what is written over may end in the
\* middle of a record.
Put(f, at, items) ==
    LET end == at + Len(items)
        put == [i \in 1..Max({Len(f), end}) |->
                    IF i \in (at + 1)..end THEN items[i - at]
                    ELSE IF i <= Len(f) THEN f[i] ELSE Garbage]
    IN  {put, IF end < Len(f) THEN [put EXCEPT ![end + 1] = Garbage] ELSE put}

(***************************************************************************)
(* What a parse sees: the groups of the clean part of the file.  A record  *)
(* opens a sweep when it carries the start status or nothing is open.      *)
(***************************************************************************)
CleanLen(f) ==
    IF f = <<>> \/ f[1] # Header THEN 0
    ELSE Max({n \in 1..Len(f) : \A i \in 1..n : f[i] # Garbage})

StartsAt(f, i) == i > 1 /\ (i = 2 \/ IsFirst(f[i]) \/ IsLast(f[i - 1]))
Begin(f, j) == Max({i \in 2..j : StartsAt(f, i)})

GroupAt(f, j) ==
    [angle |-> AngleOf[GroupOf[f[Begin(f, j)]]],
     name  |-> Cardinality({i \in 2..j : StartsAt(f, i)}),
     at    |-> f[j],
     whole |-> {f[i] : i \in Begin(f, j)..j} = ChunksOf(GroupOf[f[j]]),
     range |-> Begin(f, j)..j]

VisibleGroups(f) == {GroupAt(f, j) : j \in {i \in 2..CleanLen(f) : IsLast(f[i])}}

ShouldExport(g, seen) ==
    \A s \in seen : s.angle = g.angle /\ s.name = g.name => g.at > s.at

Exports(job) == {g \in VisibleGroups(job.view) : ShouldExport(g, job.seen)}

\* The file as the worker rewrites it: the header, the records of the groups
\* that are not finished and, unless something was exported, what followed the
\* last whole record.
\* Fault variant: the records of an unfinished group are dropped too.
TrimmedToHeader(f, exporting) == <<Header>>

Trimmed(f, exporting) ==
    LET gone == UNION {g.range : g \in VisibleGroups(f)}
    IN  Selected(f, {i \in DOMAIN f : i \notin gone /\ (i <= CleanLen(f) \/ ~exporting)})

\* Two artifacts are kept for each elevation, the newest names first.
Newest(artifacts) ==
    {x \in artifacts : Cardinality({y \in artifacts : y.angle = x.angle /\ y.at > x.at}) < 2}

WithExports(groups) ==
    LET new == {[angle |-> g.angle, at |-> g.at, whole |-> g.whole] : g \in groups}
        old == {x \in exported : \A y \in new : <<x.angle, x.at>> # <<y.angle, y.at>>}
    IN  Newest(old \cup new)

(***************************************************************************)
(* The ingest.                                                             *)
(***************************************************************************)
\* Chunk listings may have a hole where an upload is late.
Listings == {1..remote} \cup {1..m \cup {remote} : m \in MinChunks..(remote - 2)}

Todo(listed, keys) == Selected([c \in 1..remote |-> c], listed \ keys)

StartIngest ==
    /\ task.pc = "idle"
    /\ ~done
    /\ \E listed \in Listings :
         LET state == IF file = NoFile THEN NoState ELSE saved
             content == IF file = NoFile THEN <<>> ELSE file
         IN  /\ IF listed = 1..remote THEN UNCHANGED faults ELSE Fault("gap")
             /\ file' = content
             /\ task' = [Idle EXCEPT !.pc = "fetch", !.todo = Todo(listed, state.keys),
                                     !.keys = state.keys, !.seen = state.seen,
                                     !.stamps = state.stamps,
                                     !.append = content # <<>>, !.pos = Len(content)]
    /\ UNCHANGED <<remote, saved, jobs, exported, done>>

\* The records of a chunk; the first chunk alone carries the header, and only
\* at the beginning of the file is it taken off.
ItemsOf(c, empty) ==
    IF empty THEN (IF c = 1 THEN <<Header, 1>> ELSE <<Garbage>>)
    ELSE (IF c = 1 THEN <<Garbage>> ELSE <<c>>)

\* A handle opened for appending writes at the end of the file, the other one at
\* its own position.
Offset == IF task.append THEN Len(file) ELSE task.pos

Untrimmed == -1

Submit(seen) ==
    {[awaited |-> TRUE, stage |-> "queued", view |-> <<>>, seen |-> seen, groups |-> {},
      rest |-> <<>>, at |-> 0, size |-> Untrimmed]}

AppendChunk ==
    /\ task.pc = "fetch"
    /\ task.todo # <<>>
    /\ LET c == Head(task.todo)
           items == ItemsOf(c, task.pos = 0)
           checkpoint == task.since + 1 >= Interval
       IN  /\ file' \in Put(file, Offset, items)
           /\ task' = [task EXCEPT !.todo = Tail(@), !.keys = @ \cup {c},
                                   !.pos = @ + Len(items), !.since = @ + 1,
                                   !.dirty = TRUE,
                                   !.pc = IF checkpoint THEN "parse" ELSE "fetch"]
           /\ jobs' = IF checkpoint THEN jobs \cup Submit(task.seen) ELSE jobs
    /\ UNCHANGED <<remote, saved, exported, done, faults>>

\* A chunk without content is passed over and not recorded.
SkipEmpty ==
    /\ task.pc = "fetch"
    /\ task.todo # <<>>
    /\ Fault("gap")
    /\ task' = [task EXCEPT !.todo = Tail(@)]
    /\ UNCHANGED <<remote, file, saved, jobs, exported, done>>

\* The header of another volume inside a chunk: what is before it is written and
\* parsed, and what follows it starts the file, the names and the stamps anew.
\* The records of the chunk are on either side.
AppendBoundary ==
    /\ task.pc = "fetch"
    /\ task.todo # <<>>
    /\ Fault("boundary")
    /\ LET c == Head(task.todo) IN
       \E before \in {ItemsOf(c, task.pos = 0), <<Garbage>>}, after \in {<<Header>>, <<Header, c>>} :
           /\ file' \in Put(file, Offset, before)
           /\ task' = [task EXCEPT !.todo = Tail(@), !.keys = @ \cup {c},
                                   !.pos = @ + Len(before), !.after = after, !.pc = "parse"]
    /\ jobs' = jobs \cup Submit(task.seen)
    /\ UNCHANGED <<remote, saved, exported, done>>

StartOver ==
    /\ task.pc = "split"
    /\ file' = task.after
    /\ task' = [task EXCEPT !.pc = "parse", !.after = <<>>, !.pos = Len(task.after),
                            !.seen = {}, !.stamps = NoState.stamps]
    /\ jobs' = jobs \cup Submit({})
    /\ UNCHANGED <<remote, saved, exported, done, faults>>

\* Fault variant: what came after the last checkpoint is not parsed.
NoLastParse ==
    /\ task.pc = "fetch" /\ task.todo = <<>> /\ task.dirty
    /\ task' = [task EXCEPT !.dirty = FALSE]
    /\ UNCHANGED <<remote, file, saved, jobs, exported, done, faults>>

LastParse ==
    /\ task.pc = "fetch"
    /\ task.todo = <<>>
    /\ task.dirty
    /\ task' = [task EXCEPT !.pc = "parse"]
    /\ jobs' = jobs \cup Submit(task.seen)
    /\ UNCHANGED <<remote, file, saved, exported, done, faults>>

Complete ==
    \A a \in Angles : \E x \in exported : x.angle = a /\ x.at = task.stamps[a]

\* A rewrite under way goes on in a file that has no name any more.
Unlinked == {j \in jobs : j.stage # "rewriting"}

FinishIngest ==
    /\ task.pc = "fetch"
    /\ task.todo = <<>>
    /\ ~task.dirty
    /\ done' = Complete
    /\ file' = IF Complete THEN NoFile ELSE file
    /\ saved' = IF Complete THEN NoState
                ELSE [keys |-> task.keys, seen |-> task.seen, stamps |-> task.stamps]
    /\ task' = Idle
    /\ jobs' = IF Complete THEN Unlinked ELSE jobs
    /\ UNCHANGED <<remote, exported, faults>>

(***************************************************************************)
(* The parses.  A worker reads the file, writes the artifacts, truncates   *)
(* the file and writes back, record by record, what is to stay.            *)
(***************************************************************************)
Becomes(job, next) == jobs' = (jobs \ {job}) \cup {next}

ReadFile(job) ==
    /\ job.stage = "queued"
    /\ file # NoFile
    /\ Becomes(job, [job EXCEPT !.stage = "read", !.view = file])
    /\ UNCHANGED <<remote, file, saved, task, exported, done, faults>>

WriteArtifacts(job) ==
    /\ job.stage = "read"
    /\ exported' = WithExports(Exports(job))
    /\ Becomes(job, [job EXCEPT !.groups = Exports(job),
                                !.stage = IF VisibleGroups(job.view) = {} THEN "done" ELSE "written"])
    /\ UNCHANGED <<remote, file, saved, task, done, faults>>

\* An error before the rewrite: the groups before it are written and reported.
ParseFails(job) ==
    /\ job.stage = "read"
    /\ Fault("error")
    /\ \E last \in 0..Len(GroupOf) :
         LET groups == {g \in Exports(job) : g.at <= last}
         IN  /\ exported' = WithExports(groups)
             /\ Becomes(job, [job EXCEPT !.groups = groups, !.stage = "done"])
    /\ UNCHANGED <<remote, file, saved, task, done>>

StartTrim(job) ==
    /\ job.stage = "written"
    /\ file' = <<>>
    /\ Becomes(job, [job EXCEPT !.stage = "rewriting", !.view = <<>>,
                                !.rest = Trimmed(job.view, job.groups # {})])
    /\ UNCHANGED <<remote, saved, task, exported, done, faults>>

WriteBack(job) ==
    /\ job.stage = "rewriting"
    /\ job.rest # <<>>
    /\ file' \in Put(file, job.at, <<Head(job.rest)>>)
    /\ Becomes(job, [job EXCEPT !.rest = Tail(@), !.at = @ + 1])
    /\ UNCHANGED <<remote, saved, task, exported, done, faults>>

EndTrim(job) ==
    /\ job.stage = "rewriting"
    /\ job.rest = <<>>
    /\ Becomes(job, [job EXCEPT !.stage = "done", !.size = Len(file)])
    /\ UNCHANGED <<remote, file, saved, task, exported, done, faults>>

\* The file as rewrites that stop leave it, perhaps in the middle of a record.
HalfWritten(stopped) ==
    {file} \cup UNION {Put(file, j.at, <<Garbage>>) : j \in {x \in stopped : x.stage = "rewriting"}}

\* An error in the rewrite: the parent hears of the exports and not of the size.
RewriteFails(job) ==
    /\ job.stage = "rewriting"
    /\ Fault("torn")
    /\ file' \in HalfWritten({job})
    /\ Becomes(job, [job EXCEPT !.stage = "done", !.rest = <<>>])
    /\ UNCHANGED <<remote, saved, task, exported, done>>

\* The parent takes the result of the parse it waits for: what was exported,
\* and where the trimmed file now ends.
Later(old, new) == [a \in Angles |-> Max({old[a]} \cup {g.at : g \in {h \in new : h.angle = a}})]

AfterParse(groups, pos) ==
    [task EXCEPT !.pc = IF task.after = <<>> THEN "fetch" ELSE "split",
                 !.since = 0, !.dirty = FALSE, !.pos = pos,
                 !.seen = {s \in @ : \A g \in groups : <<s.angle, s.name>> # <<g.angle, g.name>>}
                          \cup {[angle |-> g.angle, name |-> g.name, at |-> g.at] : g \in groups},
                 !.stamps = Later(@, groups)]

Deliver(job) ==
    /\ job.stage = "done"
    /\ task' = IF job.awaited
               THEN AfterParse(job.groups, IF job.size = Untrimmed THEN task.pos ELSE job.size)
               ELSE task
    /\ jobs' = jobs \ {job}
    /\ UNCHANGED <<remote, file, saved, exported, done, faults>>

\* An abandoned parse whose file is gone fails.
NothingToParse(job) ==
    /\ job.stage = "queued"
    /\ file = NoFile
    /\ jobs' = jobs \ {job}
    /\ UNCHANGED <<remote, file, saved, task, exported, done, faults>>

Abandoned == {[j EXCEPT !.awaited = FALSE] : j \in jobs}

\* worker_timeout_seconds ran out.  The future is cancelled and the pool is shut
\* down without waiting: the parse goes on all the same.
ParseTimesOut ==
    /\ task.pc = "parse"
    /\ Fault("timeout")
    /\ task' = AfterParse({}, task.pos)
    /\ jobs' = Abandoned
    /\ UNCHANGED <<remote, file, saved, exported, done>>

\* The death of the worker leaves the file half rewritten, or the parent with a
\* position behind the end of the file.
Tears(job) ==
    \/ job.stage = "rewriting"
    \/ job.stage = "done" /\ job.size # Untrimmed /\ ~task.append

\* A worker died, and the pool with it, or the pool was shut down by another site
\* before the parse was submitted: the ingest goes on without a result.  Parses
\* abandoned to an earlier pool are not hit.
PoolBreaks ==
    /\ task.pc = "parse"
    /\ Fault(IF \E job \in jobs : Tears(job) THEN "torn" ELSE "broken")
    /\ task' = AfterParse({}, task.pos)
    /\ \E left \in SUBSET {j \in jobs : ~j.awaited} :
         /\ jobs' = left
         /\ file' \in HalfWritten(jobs \ left)
    /\ UNCHANGED <<remote, saved, exported, done>>

\* The pipeline's deadline, or a failed download, ends the ingest; the thread
\* that waits for a parse and the parse are not stopped.
IngestCancelled ==
    /\ task.pc # "idle"
    /\ Fault("cancel")
    /\ task' = Idle
    /\ jobs' = Abandoned
    /\ UNCHANGED <<remote, file, saved, exported, done>>

\* The service dies with its workers, perhaps in the middle of a write.
ServiceCrash ==
    /\ task.pc # "idle"
    /\ Fault("crash")
    /\ task' = Idle
    /\ jobs' = {}
    /\ file' \in HalfWritten(jobs)
               \cup IF task.pc = "fetch" THEN Put(file, Offset, <<Garbage>>) ELSE {}
    /\ UNCHANGED <<remote, saved, exported, done>>

\* The ingest of another volume of the site removes the runtime files of this one.
PrunedByAnother ==
    /\ task.pc = "idle"
    /\ file # NoFile
    /\ Fault("pruned")
    /\ file' = NoFile
    /\ saved' = NoState
    /\ jobs' = Unlinked
    /\ UNCHANGED <<remote, task, exported, done>>

Upload ==
    /\ remote < Len(GroupOf)
    /\ remote' = remote + 1
    /\ UNCHANGED <<file, saved, task, jobs, exported, done, faults>>

ParseStep == \E job \in jobs :
    \/ ReadFile(job) \/ WriteArtifacts(job) \/ StartTrim(job) \/ WriteBack(job)
    \/ EndTrim(job) \/ Deliver(job) \/ NothingToParse(job)

IngestStep == StartIngest \/ AppendChunk \/ StartOver \/ LastParse \/ FinishIngest

ParseError == \E job \in jobs : ParseFails(job) \/ RewriteFails(job)

StreamNext ==
    \/ IngestStep \/ ParseStep \/ Upload
    \/ SkipEmpty \/ AppendBoundary \/ ParseError \/ ParseTimesOut \/ PoolBreaks
    \/ IngestCancelled \/ ServiceCrash \/ PrunedByAnother

\* The pipeline asks again for a volume that is not complete, a worker process
\* runs unless it is killed, and the radar finishes its volume.
StreamFairness == WF_streamVars(IngestStep) /\ WF_streamVars(ParseStep) /\ WF_streamVars(Upload)

StreamSpec == StreamInit /\ [][StreamNext]_streamVars /\ StreamFairness

-----------------------------------------------------------------------------

\* What no guarantee survives.  A chunk listed or stored before an earlier one, a
\* volume header inside a chunk, an ingest that ended unsaved, a parse that
\* outlived its time limit, and an error or a death in the middle of a rewrite.
Unguarded == {"gap", "boundary", "cancel", "crash", "timeout", "torn"}

\* A chunk recorded in the state file is not fetched again, so its records must
\* still be where a parse of the runtime file sees them, or already be exported.
\* A worker that dies before it rewrites the file, one that dies with its result
\* when the ingest appends, a parse that fails and a removed runtime file do not
\* lose any.  A worker killed while it rewrites the file does.
RecordedChunksKept ==
    task.pc = "idle" /\ ~done /\ ~Had(Unguarded) =>
        \A c \in saved.keys :
            \/ \E i \in 1..CleanLen(file) : file[i] = c
            \/ \E g \in DOMAIN AngleOf :
                 c \in ChunksOf(g) /\ \E x \in exported :
                     x.angle = AngleOf[g] /\ x.at >= Max(ChunksOf(g))

\* A volume is declared complete only when every canonical elevation has an
\* artifact on disk made of every chunk of its group.  Neither a broken pool, a
\* failed parse nor the loss of the runtime file lets a torn one count.  The
\* other faults do: after a cut the next ingest appends the first chunk again
\* behind itself, and a late parse writes over what was appended since.
CompleteIsWhole ==
    done /\ ~Had(Unguarded) =>
        \A a \in Angles : \E x \in exported : x.angle = a /\ x.whole

\* Both: no chunk is lost between two ingests, and nothing torn counts.
NothingLostOrTorn == RecordedChunksKept /\ CompleteIsWhole

\* A volume whose chunks are all uploaded is completed, if nothing fails: the
\* trimmed file, the positions, the names of the groups seen and the time stamps
\* the parses hand back always lead there.
VolumeCompletes == (remote = Len(GroupOf) /\ faults = <<>>) ~> (done \/ faults # <<>>)

=============================================================================
