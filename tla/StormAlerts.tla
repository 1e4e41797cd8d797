----------------------------- MODULE StormAlerts -----------------------------
(***************************************************************************)
(* The alerts StormProb issues (ctam/run.py, ctam/builtins/stormprob,      *)
(* alerts/manager.py): a scan's cells are judged in batches from their     *)
(* committed observations, a cell with a forecast gets an alert unless it  *)
(* has a recent one, and the files of the alerts are the only memory from  *)
(* one scan, attempt or process to the next.  They are written at once,    *)
(* whatever becomes of the cycle.                                          *)
(***************************************************************************)
EXTENDS Integers, FiniteSets, FiniteSetsExt

CONSTANTS
    Tracked,        \* storm cells
    LastClock,      \* bounds the model: the clock, in steps of five minutes
    MaxAlertFaults  \* bounds the model: reads and writes that fail and workers that die

Cooldown == 3   \* no second alert within fifteen minutes
Lifetime == 6   \* an alert expires after thirty

ASSUME AlertAssumption == LastClock \in Nat /\ MaxAlertFaults \in Nat

VARIABLES
    clock,       \* the wall clock
    alertFiles,  \* alerts/ids: [cell, at]
    listing,     \* the alerts in the snapshot of the scan in hand
    issued,      \* every alert ever written (history)
    stormRun,    \* the attempt: what it is doing, its scan and the cells ready in it, the
                 \* alerts it loaded, its results, the cells left and those it failed to write;
                 \* and (history) when it cleaned up and the files its last reading passed over
    alertFaults

alertVars == <<clock, alertFiles, listing, issued, stormRun, alertFaults>>

Clocks == 0..LastClock
Nobodys == [c \in Tracked |-> "none"]
AtRest == [pc |-> "idle", scan |-> 0, ready |-> {}, previous |-> [c \in Tracked |-> {}],
           outcome |-> Nobodys, left |-> {}, missed |-> {}, since |-> 0, unread |-> {}]

AlertInit ==
    /\ clock = 0
    /\ alertFiles = {} /\ listing = {} /\ issued = {}
    /\ stormRun = AtRest /\ alertFaults = 0

AlertFault == alertFaults < MaxAlertFaults /\ alertFaults' = alertFaults + 1

ClockRuns ==
    /\ clock < LastClock /\ clock' = clock + 1
    /\ UNCHANGED <<alertFiles, listing, issued, stormRun, alertFaults>>

\* The observations of a scan are committed before its modules run; a retry commits them
\* again.  A scan of any age may come: late, retried after a restart, after a newer one.
TakeScan(t, ready) ==
    /\ stormRun.pc = "idle" /\ t <= clock
    /\ stormRun' = [AtRest EXCEPT !.pc = "cleaning", !.scan = t, !.ready = ready]
    /\ UNCHANGED <<clock, alertFiles, listing, issued, alertFaults>>

\* cleanup_expired, by the wall clock; a file that cannot be read or deleted stays.
Expired(a) == a.at + Lifetime < clock

CleanUpExpired ==
    /\ stormRun.pc = "cleaning"
    /\ \E stay \in SUBSET {a \in alertFiles : Expired(a)} :
        /\ alertFiles' = {a \in alertFiles : ~Expired(a)} \cup stay
        /\ IF stay = {} THEN UNCHANGED alertFaults ELSE AlertFault
    /\ stormRun' = [stormRun EXCEPT !.pc = "loading", !.since = clock]
    /\ UNCHANGED <<clock, listing, issued>>

\* Fault variant: the first file found for a cell is kept.
FirstAlert(c, files) ==
    LET times == {a.at : a \in {b \in files : b.cell = c}}
    IN  IF times = {} THEN {} ELSE {Min(times)}

\* load_latest_for_cells.
LatestAlert(c, files) ==
    LET times == {a.at : a \in {b \in files : b.cell = c}}
    IN  IF times = {} THEN {} ELSE {Max(times)}

\* One reading of the directory; a file that cannot be read is passed over.
ReadingPassesOver(unread) ==
    /\ unread \subseteq alertFiles
    /\ IF unread = {} THEN UNCHANGED alertFaults ELSE AlertFault

PreloadPrevious ==
    /\ stormRun.pc = "loading"
    /\ \E unread \in SUBSET alertFiles :
        /\ ReadingPassesOver(unread)
        /\ stormRun' = [stormRun EXCEPT
                          !.pc = "inferring", !.unread = unread,
                          !.previous = [c \in Tracked |-> LatestAlert(c, alertFiles \ unread)]]
    /\ UNCHANGED <<clock, alertFiles, listing, issued>>

\* feature_history: the newest committed observation of the cell must be the scan's own
\* and must have passed the coverage gate.
Ready(c) == c \in stormRun.ready

\* swept_envelope_0_30: without a polygon of the cell and both leads nothing is swept, and
\* a forecast has no alert.
Swept == {"success", "unswept"}

\* run_batch: a cell is skipped unless its own committed observation is ready, the
\* inference may fail for all that were prepared, and the geometry for each of them.
\* Cells and batches do not influence one another: one batch is enough.
Outcome(c) == IF Ready(c) THEN {"error"} \cup Swept ELSE {"skipped"}

RunBatch ==
    /\ stormRun.pc = "inferring"
    /\ \E outcome \in [Tracked -> {"success", "unswept", "error", "skipped"}] :
        /\ \A c \in Tracked : outcome[c] \in Outcome(c)
        /\ stormRun' = [stormRun EXCEPT !.pc = "publishing", !.outcome = outcome,
                                        !.left = Tracked]
    /\ UNCHANGED <<clock, alertFiles, listing, issued, alertFaults>>

\* Time is the scan's here, not the clock's.
Suppressed(c) == \E at \in stormRun.previous[c] : stormRun.scan < at + Cooldown

\* An id is made of the cell and the scan: a retry writes the same file.
AlertOf(c) == [cell |-> c, at |-> stormRun.scan]

\* publish: the write that fails is reported, counted as nothing and not tried again.
WriteAlert(alert) ==
    \/ /\ alertFiles' = alertFiles \cup {alert} /\ issued' = issued \cup {alert}
       /\ stormRun' = [stormRun EXCEPT !.left = @ \ {alert.cell}] /\ UNCHANGED alertFaults
    \/ /\ AlertFault /\ UNCHANGED <<alertFiles, issued>>
       /\ stormRun' = [stormRun EXCEPT !.left = @ \ {alert.cell}, !.missed = @ \cup {alert.cell}]

PublishAlert(c) ==
    /\ stormRun.pc = "publishing" /\ c \in stormRun.left
    /\ IF stormRun.outcome[c] = "success" /\ ~Suppressed(c)
       THEN WriteAlert(AlertOf(c))
       ELSE /\ stormRun' = [stormRun EXCEPT !.left = @ \ {c}]
            /\ UNCHANGED <<alertFiles, issued, alertFaults>>
    /\ UNCHANGED <<clock, listing>>

\* create_snapshot, after the other modules: the alerts in force at the time of the scan.
CreateSnapshot ==
    /\ stormRun.pc = "publishing" /\ stormRun.left = {}
    /\ \E unread \in SUBSET alertFiles :
        /\ ReadingPassesOver(unread)
        /\ listing' = {a \in alertFiles \ unread :
                        a.at <= stormRun.scan /\ stormRun.scan <= a.at + Lifetime}
        /\ stormRun' = [stormRun EXCEPT !.pc = "listed", !.unread = unread]
    /\ UNCHANGED <<clock, alertFiles, issued>>

AttemptOver ==
    /\ stormRun.pc = "listed" /\ stormRun' = AtRest /\ listing' = {}
    /\ UNCHANGED <<clock, alertFiles, issued, alertFaults>>

\* The cycle's worker dies, a later part of the cycle fails, or the snapshot of the scan
\* cannot be written.
WorkerDies ==
    /\ stormRun.pc # "idle" /\ AlertFault
    /\ stormRun' = AtRest /\ listing' = {}
    /\ UNCHANGED <<clock, alertFiles, issued>>

AlertNext ==
    \/ ClockRuns \/ CleanUpExpired \/ PreloadPrevious \/ RunBatch \/ CreateSnapshot
    \/ AttemptOver \/ WorkerDies
    \/ \E t \in Clocks, ready \in SUBSET Tracked : TakeScan(t, ready)
    \/ \E c \in Tracked : PublishAlert(c)

AlertSpec == AlertInit /\ [][AlertNext]_alertVars

-----------------------------------------------------------------------------
(***************************************************************************)
(* Properties.                                                             *)
(***************************************************************************)
\* The times of two alerts of a cell lie a cooldown apart, over retries, failed cycles,
\* restarts and scans of any age and in any order, unless the earlier one was no longer
\* known when the later one was decided: its file could not be read (manager.py:167), or
\* it had expired by the clock when the attempt cleaned up, which lets a late scan repeat
\* it although by its own time the cooldown holds (manager.py:294).
AlertsAreSpaced ==
    [][\A new \in issued' \ issued, a \in issued :
        a.cell = new.cell =>
            \/ a.at + Cooldown <= new.at
            \/ a \in stormRun.unread
            \/ a.at + Lifetime < stormRun.since]_alertVars

\* When the snapshot of a scan is written, a cell with a forecast is in it, under an alert
\* of its own or one of the last fifteen minutes, unless the alert could not be written or
\* read back or an alert of a later scan holds it back.
ForecastIsListed ==
    stormRun.pc = "listed" =>
        \A c \in Tracked :
            stormRun.outcome[c] = "success" =>
                \/ c \in stormRun.missed
                \/ \E a \in listing \cup stormRun.unread :
                    a.cell = c /\ a.at <= stormRun.scan /\ stormRun.scan < a.at + Cooldown
                \/ \E at \in stormRun.previous[c] : at > stormRun.scan

\* Neither two alerts where one is due nor none.
AlertsAreSound == AlertsAreSpaced /\ []ForecastIsListed
=============================================================================
