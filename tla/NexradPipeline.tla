--------------------------- MODULE NexradPipeline ---------------------------
(***************************************************************************)
(* The realtime NEXRAD pipeline                                            *)
(* (src/src/common/ingest/nexrad/pipeline): a scan pass looks for the      *)
(* newest volume of every allowed site, one task for each site under one   *)
(* deadline; a pending pass goes through the volumes that were not         *)
(* complete.  One loop runs the passes one after the other, and the ingest *)
(* process runs that loop again when it ends                               *)
(* (src/src/util/runtime/background.py).                                   *)
(*                                                                         *)
(* Volumes of a site are numbered as the radar starts them.                *)
(***************************************************************************)
EXTENDS Integers, Sequences, FiniteSets, SequencesExt, Selection

CONSTANTS
    Sites,
    MaxVolume,  \* volumes of a site (bounds the model)
    MaxMishaps  \* timeouts, failures and restarts (bounds the model)

ASSUME PipelineAssumption == MaxVolume \in Nat \ {0} /\ MaxMishaps \in Nat

VARIABLES
    upload,   \* upload[s]: how much of each volume the radar has uploaded
    local,    \* local[s]: volumes every required elevation of which is on disk
    tracker,  \* the pending volumes, in insertion order: [site, volume, started]
    lastSeen, \* lastSeen[s]: the newest volume a scan found, or 0
    pass,     \* what the loop is doing
    scanned,  \* the last turn of the loop had a scan
    siteTask, \* siteTask[s]: the scan task of the site
    todo,     \* pending volumes the pass still has to look at
    reported, \* history: completion records returned so far, in order
    mishaps   \* timeouts, failures and restarts so far

pipelineVars == <<upload, local, tracker, lastSeen, pass, scanned, siteTask,
                  todo, reported, mishaps>>

NoTask == [pc |-> "done", volume |-> 0]

PipelineInit ==
    /\ upload = [s \in Sites |-> <<>>]
    /\ local = [s \in Sites |-> {}]
    /\ tracker = <<>> /\ todo = <<>> /\ reported = <<>>
    /\ lastSeen = [s \in Sites |-> 0]
    /\ pass = "top" /\ scanned = FALSE
    /\ siteTask = [s \in Sites |-> NoTask]
    /\ mishaps = 0

Mishap == mishaps < MaxMishaps /\ mishaps' = mishaps + 1

(***************************************************************************)
(* The radar.                                                              *)
(***************************************************************************)
StartsVolume(s) ==
    /\ Len(upload[s]) < MaxVolume
    /\ upload' = [upload EXCEPT ![s] = Append(@, "few")]
    /\ UNCHANGED <<local, tracker, lastSeen, pass, scanned, siteTask, todo, reported, mishaps>>

Uploaded(s, v) ==
    /\ upload[s][v] # "all"
    /\ upload' = [upload EXCEPT ![s][v] = IF @ = "few" THEN "enough" ELSE "all"]
    /\ UNCHANGED <<local, tracker, lastSeen, pass, scanned, siteTask, todo, reported, mishaps>>

(***************************************************************************)
(* The tracker (NexradPendingVolumeTracker).                               *)
(***************************************************************************)
Removed(t, s, v) == Selected(t, {i \in DOMAIN t : t[i].site # s \/ t[i].volume # v})

Upserted(t, s, v, started) ==
    LET entry == [site |-> s, volume |-> v, started |-> started]
    IN  IF \E i \in DOMAIN t : t[i].site = s /\ t[i].volume = v
        THEN [i \in DOMAIN t |-> IF t[i].site = s /\ t[i].volume = v THEN entry ELSE t[i]]
        ELSE Append(t, entry)

\* Fault variant: a volume half of which is on disk is given up as well.
WithoutAnyOlder(t, s, v) ==
    Selected(t, {i \in DOMAIN t : t[i].site # s \/ t[i].volume = v})

\* The pending volumes of the site that a newer one makes pointless.
WithoutStale(t, s, v) ==
    Selected(t, {i \in DOMAIN t : t[i].site # s \/ t[i].volume = v \/ t[i].started})

(***************************************************************************)
(* An ingest leaves artifacts of its volume, and only the two newest of an *)
(* elevation are kept.                                                     *)
(***************************************************************************)
TwoNewest(volumes) == {v \in volumes : Cardinality({w \in volumes : w > v}) < 2}

LocalComplete(s, v) == v \in local[s]

\* What is on disk when a parse completes the volume that nobody waits for.
ParsedLate(s, v) ==
    IF upload[s][v] = "all" THEN {[local EXCEPT ![s] = TwoNewest(@ \cup {v})]} ELSE {}

(***************************************************************************)
(* A scan pass.                                                            *)
(***************************************************************************)
\* The scan is due on every other turn at the latest, the pending pass on each.
StartScan(allowed) ==
    /\ pass = "top"
    /\ pass' = "scan"
    /\ scanned' = TRUE
    /\ siteTask' = [s \in Sites |-> IF s \in allowed THEN [pc |-> "discover", volume |-> 0]
                                    ELSE NoTask]
    /\ UNCHANGED <<upload, local, tracker, lastSeen, todo, reported, mishaps>>

\* No scan on this turn: not due, no station list within its time limit, or an
\* error.
SkipScan ==
    /\ pass = "top"
    /\ IF scanned THEN UNCHANGED mishaps ELSE Mishap
    /\ scanned' = FALSE
    /\ pass' = "between"
    /\ UNCHANGED <<upload, local, tracker, lastSeen, siteTask, todo, reported>>

\* The newest volume with chunks is found, and everything up to the ingest
\* happens without giving way to another task.
Discover(s) ==
    /\ siteTask[s].pc = "discover"
    /\ upload[s] # <<>>
    /\ LET v == Len(upload[s])
           kept == WithoutStale(tracker, s, v)
       IN  /\ lastSeen' = [lastSeen EXCEPT ![s] = v]
           /\ \/ /\ LocalComplete(s, v)
                 /\ tracker' = Removed(kept, s, v)
                 /\ siteTask' = [siteTask EXCEPT ![s] = NoTask]
              \/ /\ ~LocalComplete(s, v)
                 /\ upload[s][v] = "few"
                 /\ tracker' = Upserted(kept, s, v, FALSE)
                 /\ siteTask' = [siteTask EXCEPT ![s] = NoTask]
              \/ /\ ~LocalComplete(s, v)
                 /\ upload[s][v] # "few"
                 /\ tracker' = kept
                 /\ siteTask' = [siteTask EXCEPT ![s] = [pc |-> "ingest", volume |-> v]]
    /\ UNCHANGED <<upload, local, pass, scanned, todo, reported, mishaps>>

NothingDiscovered(s) ==
    /\ siteTask[s].pc = "discover"
    /\ IF upload[s] = <<>> THEN UNCHANGED mishaps ELSE Mishap
    /\ siteTask' = [siteTask EXCEPT ![s] = NoTask]
    /\ UNCHANGED <<upload, local, tracker, lastSeen, pass, scanned, todo, reported>>

SiteIngested(s) ==
    /\ siteTask[s].pc = "ingest"
    /\ LET v == siteTask[s].volume
           whole == upload[s][v] = "all"
       IN  /\ local' = IF whole THEN [local EXCEPT ![s] = TwoNewest(@ \cup {v})] ELSE local
           /\ IF v \in local'[s]
              THEN /\ tracker' = Removed(tracker, s, v)
                   /\ siteTask' = [siteTask EXCEPT ![s].pc = "complete"]
              ELSE /\ tracker' = Upserted(tracker, s, v, TRUE)
                   /\ siteTask' = [siteTask EXCEPT ![s] = NoTask]
    /\ UNCHANGED <<upload, lastSeen, pass, scanned, todo, reported, mishaps>>

\* The time limit of the ingest, an error in it, or the deadline of the scan; a
\* parse that was under way may still complete the volume.
SiteIngestFails(s) ==
    /\ siteTask[s].pc = "ingest"
    /\ Mishap
    /\ local' \in {local} \cup ParsedLate(s, siteTask[s].volume)
    /\ siteTask' = [siteTask EXCEPT ![s] = NoTask]
    /\ UNCHANGED <<upload, tracker, lastSeen, pass, scanned, todo, reported>>

Record(s, v) == [site |-> s, volume |-> v]

\* Records come in the order of the allowed sites, not of their completion.
FinishScan ==
    /\ pass = "scan"
    /\ \A s \in Sites : siteTask[s].pc \in {"done", "complete"}
    /\ LET sites == SetToSeq({s \in Sites : siteTask[s].pc = "complete"})
       IN  reported' = reported \o [i \in DOMAIN sites |->
                                      Record(sites[i], siteTask[sites[i]].volume)]
    /\ siteTask' = [s \in Sites |-> NoTask]
    /\ pass' = "between"
    /\ UNCHANGED <<upload, local, tracker, lastSeen, scanned, todo, mishaps>>

(***************************************************************************)
(* A pending pass.                                                         *)
(***************************************************************************)
StartPending ==
    /\ pass = "between"
    /\ pass' = "pending"
    /\ todo' = tracker
    /\ UNCHANGED <<upload, local, tracker, lastSeen, scanned, siteTask, reported, mishaps>>

Superseded(p) == lastSeen[p.site] \notin {0, p.volume} /\ ~p.started

CheckPending ==
    /\ pass = "pending"
    /\ todo # <<>>
    /\ LET p == Head(todo)
           whole == upload[p.site][p.volume] = "all"
       IN  \/ /\ Superseded(p) \/ LocalComplete(p.site, p.volume)
              /\ tracker' = Removed(tracker, p.site, p.volume)
              /\ UNCHANGED <<local, reported>>
           \/ /\ ~Superseded(p) /\ ~LocalComplete(p.site, p.volume)
              /\ upload[p.site][p.volume] # "few"
              /\ local' = IF whole THEN [local EXCEPT ![p.site] = TwoNewest(@ \cup {p.volume})]
                          ELSE local
              /\ IF p.volume \in local'[p.site]
                 THEN /\ tracker' = Removed(tracker, p.site, p.volume)
                      /\ reported' = Append(reported, Record(p.site, p.volume))
                 ELSE UNCHANGED <<tracker, reported>>
           \/ /\ ~Superseded(p) /\ ~LocalComplete(p.site, p.volume)
              /\ upload[p.site][p.volume] = "few"
              /\ UNCHANGED <<local, tracker, reported>>
    /\ todo' = Tail(todo)
    /\ UNCHANGED <<upload, lastSeen, pass, scanned, siteTask, mishaps>>

\* A listing or an ingest that does not answer in time costs its volume the
\* pass; one that fails ends the pass for every volume after it.  A parse that was
\* under way may still complete the volume.
PendingFails ==
    /\ pass = "pending"
    /\ todo # <<>>
    /\ ~Superseded(Head(todo))
    /\ Mishap
    /\ local' \in {local} \cup ParsedLate(Head(todo).site, Head(todo).volume)
    /\ todo' \in {Tail(todo), <<>>}
    /\ UNCHANGED <<upload, tracker, lastSeen, pass, scanned, siteTask, reported>>

FinishPending ==
    /\ pass = "pending"
    /\ todo = <<>>
    /\ pass' = "top"
    /\ UNCHANGED <<upload, local, tracker, lastSeen, scanned, siteTask, todo, reported, mishaps>>

\* The process, or its loop, starts again with an empty tracker.
Restart ==
    /\ Mishap
    /\ tracker' = <<>> /\ todo' = <<>>
    /\ lastSeen' = [s \in Sites |-> 0]
    /\ siteTask' = [s \in Sites |-> NoTask]
    /\ pass' = "top" /\ scanned' = FALSE
    /\ UNCHANGED <<upload, local, reported>>

LoopStep ==
    \/ \E allowed \in SUBSET Sites : StartScan(allowed)
    \/ SkipScan \/ FinishScan \/ StartPending \/ CheckPending \/ FinishPending

SiteStep(s) == Discover(s) \/ NothingDiscovered(s) \/ SiteIngested(s)

PipelineNext ==
    \/ LoopStep
    \/ \E s \in Sites :
         \/ SiteStep(s) \/ SiteIngestFails(s) \/ StartsVolume(s)
         \/ \E v \in DOMAIN upload[s] : Uploaded(s, v)
    \/ PendingFails \/ Restart

PipelineSpec == PipelineInit /\ [][PipelineNext]_pipelineVars

-----------------------------------------------------------------------------
\* A volume in hand: the tracker has it, or a scan's ingest is at it.
Tracked(s, v) == \E i \in DOMAIN tracker : tracker[i].site = s /\ tracker[i].volume = v
Ingesting(s, v) == siteTask[s].pc = "ingest" /\ siteTask[s].volume = v

\* Only a scan's ingest that returns short of an elevation marks its volume as
\* started; one that is cut off does not, and neither does a pending pass.
Marked(s, v) ==
    \E i \in DOMAIN tracker :
        tracker[i].site = s /\ tracker[i].volume = v /\ tracker[i].started

AccountedFor(s, v) ==
    \/ v \in local'[s]
    \/ Marked(s, v)'
    \/ /\ ~Marked(s, v) /\ Ingesting(s, v)
       /\ Ingesting(s, v)' \/ SiteIngestFails(s)
    \/ /\ ~Marked(s, v) /\ ~Ingesting(s, v)
       /\ Tracked(s, v)' \/ lastSeen'[s] > v
    \/ Restart

\* No volume in hand is lost sight of while the process lives.  One that is marked
\* stays marked in the tracker until its elevations are on disk, whatever newer volume
\* was found, whichever pass looked at it and however its listings failed; a scan's
\* ingest ends with its volume on disk or marked, unless it is cut off.  A volume
\* without the mark may have chunks stored all the same (the ingest of a pending pass,
\* or one that was cut off, stored them): it goes from the tracker only when it is on
\* disk or a newer volume of its site was found (_scan_site, check_pending_once).
InHandIsAccountedFor ==
    [][\A s \in Sites : \A v \in DOMAIN upload[s] :
          Tracked(s, v) \/ Ingesting(s, v) => AccountedFor(s, v)]_pipelineVars

=============================================================================
