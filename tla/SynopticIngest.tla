--------------------------- MODULE SynopticIngest ---------------------------
(***************************************************************************)
(* How the RAP analysis of a cycle is chosen (common/ingest/synoptic):     *)
(* hour by hour back from the scan a local file, S3 asynchronously, S3     *)
(* synchronously, the NOMADS mirror, and a cleanup before and after.       *)
(*                                                                         *)
(* Time is counted in half hours; analyses are hourly.                     *)
(***************************************************************************)
EXTENDS Integers, FiniteSets, FiniteSetsExt, Functions

CONSTANTS
    RapRequests,  \* times the cycles ask for an analysis
    MaxRapAge,    \* rap.max_age_minutes
    RapFiles,     \* rap.max_files
    MaxRapFaults  \* what fails (bounds the model)

ASSUME RapAssumption == RapRequests \subseteq Nat /\ MaxRapAge \in Nat /\ RapFiles \in Nat \ {0}

VARIABLES
    rapRemote,  \* rapRemote[via]: the analyses on "s3" and on "nomads"
    rapDir,     \* files under their final names: [hour, valid]
    rap,        \* the request: [pc, time, hour]
    rapChosen,  \* what the last request returned: [time, hour]
    rapCould,   \* the best on offer when the request began, and the best on the mirror
    rapFaults

rapVars == <<rapRemote, rapDir, rap, rapChosen, rapCould, rapFaults>>

NoHour == -1
NoRequest == [pc |-> "idle", time |-> NoHour, hour |-> NoHour]
NotChosen == [time |-> NoHour, hour |-> NoHour]

\* _eligible_analysis_times: the hour of the request and those before it.
Eligible(time) == {h \in 0..time : h % 2 = 0 /\ time - h <= MaxRapAge}
Latest(hours) == Max({NoHour} \cup hours)
RapHours == UNION {Eligible(t) : t \in RapRequests}

RapFaultKinds == {"s3", "nomads", "content", "crash"}

RapInit ==
    /\ rapRemote = [via \in {"s3", "nomads"} |-> {}]
    /\ rapDir = {}
    /\ rap = NoRequest
    /\ rapChosen = NotChosen
    /\ rapCould = [any |-> NoHour, mirror |-> NoHour]
    /\ rapFaults = [kind \in RapFaultKinds |-> 0]

RapFault(kind) ==
    /\ SumFunction(rapFaults) < MaxRapFaults
    /\ rapFaults' = [rapFaults EXCEPT ![kind] = @ + 1]

PublishAnalysis(via, h) ==
    /\ h \notin rapRemote[via]
    /\ rapRemote' = [rapRemote EXCEPT ![via] = @ \cup {h}]
    /\ UNCHANGED <<rapDir, rap, rapChosen, rapCould, rapFaults>>

IsLocal(h) == [hour |-> h, valid |-> TRUE] \in rapDir
WithoutHour(h) == {f \in rapDir : f.hour # h}
Write(h, valid) == rapDir' = WithoutHour(h) \cup {[hour |-> h, valid |-> valid]}

\* clean_rap_cache goes by the hour in the name: what lies after the reference is
\* removed like what is too old, then all but the newest.
Retained(time, files) == {f \in files : f.hour <= time /\ time - f.hour <= MaxRapAge}
NewestFiles(files) ==
    {f \in files : Cardinality({g \in files : g.hour > f.hour}) < RapFiles}

StartRap(time) ==
    /\ rap.pc = "idle"
    /\ rapDir' = Retained(time, rapDir)
    /\ rap' = [pc |-> "local", time |-> time, hour |-> Latest(Eligible(time))]
    /\ rapCould' =
         LET best(hours) == Latest({h \in Eligible(time) : IsLocal(h) \/ h \in hours})
         IN  [any |-> best(rapRemote["s3"] \cup rapRemote["nomads"]),
              mirror |-> best(rapRemote["nomads"])]
    /\ UNCHANGED <<rapRemote, rapChosen, rapFaults>>

GoTo(pc) == rap' = [rap EXCEPT !.pc = pc]

\* A damaged file is removed, so that it can be fetched anew.
CheckLocal ==
    /\ rap.pc = "local"
    /\ IF IsLocal(rap.hour)
       THEN GoTo("chosen") /\ UNCHANGED rapDir
       ELSE GoTo("s3_async") /\ rapDir' = WithoutHour(rap.hour)
    /\ UNCHANGED <<rapRemote, rapChosen, rapCould, rapFaults>>

\* A file that is there is not fetched again, not even a damaged one.
SkipExisting ==
    /\ rap.pc \in {"s3_async", "s3_sync"}
    /\ \E f \in rapDir : f.hour = rap.hour
    /\ GoTo(IF rap.pc = "s3_async" THEN "s3_sync" ELSE "nomads")
    /\ UNCHANGED <<rapRemote, rapDir, rapChosen, rapCould, rapFaults>>

\* Fault variant: an object that is not on S3 ends the search of this hour.
NotOnS3GivesUp ==
    /\ rap.pc \in {"s3_async", "s3_sync"}
    /\ \A f \in rapDir : f.hour # rap.hour
    /\ rap.hour \notin rapRemote["s3"]
    /\ GoTo("older")
    /\ UNCHANGED <<rapRemote, rapDir, rapChosen, rapCould, rapFaults>>

\* A 404 is definitive and skips the synchronous attempt.
NotOnS3 ==
    /\ rap.pc \in {"s3_async", "s3_sync"}
    /\ \A f \in rapDir : f.hour # rap.hour
    /\ rap.hour \notin rapRemote["s3"]
    /\ GoTo("nomads")
    /\ UNCHANGED <<rapRemote, rapDir, rapChosen, rapCould, rapFaults>>

\* Renamed when its length is as announced; its content is looked at afterwards.
FetchFromS3 ==
    /\ rap.pc \in {"s3_async", "s3_sync"}
    /\ \A f \in rapDir : f.hour # rap.hour
    /\ rap.hour \in rapRemote["s3"]
    /\ \/ Write(rap.hour, TRUE) /\ GoTo("chosen") /\ UNCHANGED rapFaults
       \/ /\ RapFault("content")
          /\ Write(rap.hour, FALSE)
          /\ GoTo(IF rap.pc = "s3_async" THEN "s3_sync" ELSE "nomads")
    /\ UNCHANGED <<rapRemote, rapChosen, rapCould>>

S3Fails ==
    /\ rap.pc \in {"s3_async", "s3_sync"}
    /\ RapFault("s3")
    /\ GoTo(IF rap.pc = "s3_async" THEN "s3_sync" ELSE "nomads")
    /\ UNCHANGED <<rapRemote, rapDir, rapChosen, rapCould>>

\* The mirror's file is looked at before it replaces what is there.
FetchFromNomads ==
    /\ rap.pc = "nomads"
    /\ IF rap.hour \in rapRemote["nomads"]
       THEN Write(rap.hour, TRUE) /\ GoTo("chosen")
       ELSE GoTo("older") /\ UNCHANGED rapDir
    /\ UNCHANGED <<rapRemote, rapChosen, rapCould, rapFaults>>

NomadsFails ==
    /\ rap.pc = "nomads"
    /\ RapFault("nomads")
    /\ GoTo("older")
    /\ UNCHANGED <<rapRemote, rapDir, rapChosen, rapCould>>

\* SynopticUnavailableError once the age limit is reached.
TryOlder ==
    /\ rap.pc = "older"
    /\ LET older == {h \in Eligible(rap.time) : h < rap.hour}
       IN  rap' = IF older = {} THEN NoRequest
                  ELSE [rap EXCEPT !.pc = "local", !.hour = Latest(older)]
    /\ UNCHANGED <<rapRemote, rapDir, rapChosen, rapCould, rapFaults>>

\* The second cleanup counts every file, and the chosen one among them.
HandOverRap ==
    /\ rap.pc = "chosen"
    /\ rapDir' = NewestFiles(Retained(rap.time, rapDir))
    /\ rapChosen' = [time |-> rap.time, hour |-> rap.hour]
    /\ rap' = NoRequest
    /\ UNCHANGED <<rapRemote, rapCould, rapFaults>>

RapDies ==
    /\ rap.pc # "idle"
    /\ RapFault("crash")
    /\ rap' = NoRequest
    /\ UNCHANGED <<rapRemote, rapDir, rapChosen, rapCould>>

RapNext ==
    \/ CheckLocal \/ SkipExisting \/ NotOnS3 \/ FetchFromS3 \/ S3Fails
    \/ FetchFromNomads \/ NomadsFails \/ TryOlder \/ HandOverRap \/ RapDies
    \/ \E t \in RapRequests : StartRap(t)
    \/ \E via \in {"s3", "nomads"}, h \in RapHours : PublishAnalysis(via, h)

RapSpec == RapInit /\ [][RapNext]_rapVars

\* The analysis a request returns is whole and still on disk after the cleanup that
\* follows it, also when damaged files of newer hours count against the limit (but
\* for as many of them as the limit), and no newer one was to be had when the
\* request began, on disk, on S3 or on the mirror, unless a transfer failed: a
\* damaged local or remote file alone never makes it settle for an older one that
\* the mirror could have beaten.
RapIsFreshest ==
    [][rapChosen' # rapChosen =>
         /\ rap.time - rap.hour <= MaxRapAge
         /\ [hour |-> rap.hour, valid |-> TRUE] \in rapDir' \/ rapFaults.content >= RapFiles
         /\ \/ rapFaults.s3 + rapFaults.nomads > 0
            \/ rap.hour >= IF rapFaults.content > 0 THEN rapCould.mirror
                           ELSE rapCould.any]_rapVars

=============================================================================
