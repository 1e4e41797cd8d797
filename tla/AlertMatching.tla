---------------------------- MODULE AlertMatching ----------------------------
(***************************************************************************)
(* The official alerts attached to the cells of a scan                     *)
(* (process/detect/tools/alert_matcher.py), by a worker that reads the     *)
(* registry's files while the ingest of NwsAlerts writes them: the newest  *)
(* snapshot that is not after the scan says which alerts there are, and    *)
(* the files of ids/ what each one is.  What a snapshot gave is kept for   *)
(* the life of the worker.                                                 *)
(***************************************************************************)
EXTENDS NwsAlerts

CONSTANTS
    Convective,  \* alerts of the events in alert_matching.events
    Shaped,      \* alerts with a polygon that can be read or repaired
    Covers       \* alerts whose polygon meets the cells of the scan

VARIABLES
    scanAt,    \* the time of the scan being matched
    reading,   \* the snapshot in use, as a set: none, or one of snapshots
    unread,    \* its alerts that have not been looked up
    features,  \* the alerts whose file was read
    kept,      \* _ALERT_SNAPSHOT_CACHE: [snapshot, features]
    attached,  \* the alerts of the cells
    matcher    \* what the worker is doing

matchVars == <<scanAt, reading, unread, features, kept, attached, matcher>>

MatchInit ==
    /\ scanAt = 0 /\ reading = {} /\ unread = {} /\ features = {} /\ kept = {}
    /\ attached = {} /\ matcher = "idle"

\* Fault variant: with none so old, the oldest snapshot must do.
ClosestOrAny(t) ==
    LET earlier == {s \in snapshots : s.at <= t}
    IN  IF earlier = {} THEN snapshots ELSE {s \in earlier : \A u \in earlier : u.at <= s.at}

\* "Historical processing must never borrow the newest/current alert snapshot for a
\* target preceding retained history."
Closest(t) ==
    LET earlier == {s \in snapshots : s.at <= t}
    IN  {s \in earlier : \A u \in earlier : u.at <= s.at}

\* A new scan; the time of a historical one may lie anywhere before.  Without a snapshot
\* the cells have no alerts, and one seen before is not read again.
SelectSnapshot(t) ==
    /\ matcher = "idle" /\ t <= tick
    /\ scanAt' = t /\ attached' = {}
    /\ \/ Closest(t) = {} /\ reading' = {} /\ unread' = {} /\ features' = {} /\ matcher' = "matching"
       \/ \E s \in Closest(t) :
            /\ reading' = {s}
            /\ \/ \E k \in kept : /\ k.snapshot = s /\ features' = k.features
                                  /\ unread' = {} /\ matcher' = "matching"
               \/ /\ \A k \in kept : k.snapshot # s
                  /\ unread' = DOMAIN s.alerts /\ features' = {} /\ matcher' = "loading"
    /\ UNCHANGED <<nwsVars, kept>>

\* The file of an alert may be missing, and is whatever a later pass has made of it.
ReadFeature(a) ==
    /\ matcher = "loading" /\ a \in unread
    /\ unread' = unread \ {a}
    /\ features' = IF a \in DOMAIN idFiles THEN features \cup {a} ELSE features
    /\ UNCHANGED <<nwsVars, scanAt, reading, kept, attached, matcher>>

\* _store_bounded: the oldest entries make room; one is kept here.
Bounded(entry) == {entry}

KeepFeatures ==
    /\ matcher = "loading" /\ unread = {}
    /\ kept' = Bounded([snapshot |-> CHOOSE s \in reading : TRUE, features |-> features])
    /\ matcher' = "matching"
    /\ UNCHANGED <<nwsVars, scanAt, reading, unread, features, attached>>

\* filter_convective_flood_alerts, by the list of alert_matching.events.
OnTheList(alerts) == alerts \cap Convective

\* _extract_alert_id and _get_alert_polygon: polygons, parts of collections and rings that
\* close only after a repair.
Drawable(alerts) == alerts \cap Shaped

\* _prepare_alert_geometries: what cannot be drawn is left out.
Prepared(alerts) == Drawable(OnTheList(alerts))

\* An alert meets a cell when it intersects its buffered polygon, or its centroid for want
\* of one; the tree of shapes leaves nothing out that an intersection would find.
Meeting(alerts) == alerts \cap Covers

\* Every cell gets a list, if an empty one.
MatchCells ==
    /\ matcher = "matching"
    /\ attached' = Meeting(Prepared(features))
    /\ matcher' = "matched"
    /\ UNCHANGED <<nwsVars, scanAt, reading, unread, features, kept>>

NextScan ==
    /\ matcher = "matched" /\ matcher' = "idle" /\ attached' = {} /\ features' = {}
    /\ reading' = {} /\ scanAt' = 0
    /\ UNCHANGED <<nwsVars, unread, kept>>

\* A live cycle has a worker of its own.
FreshWorker ==
    /\ matcher = "idle" /\ kept # {} /\ kept' = {}
    /\ UNCHANGED <<nwsVars, scanAt, reading, unread, features, attached, matcher>>

MatchNext ==
    \/ KeepFeatures \/ MatchCells \/ NextScan \/ FreshWorker
    \/ \E t \in 0..MaxTick : SelectSnapshot(t)
    \/ \E a \in Notices : ReadFeature(a)

AlertsNext == (NwsNext /\ UNCHANGED matchVars) \/ MatchNext
AlertsSpec == NwsInit /\ MatchInit /\ [][AlertsNext]_<<nwsVars, matchVars>>

-----------------------------------------------------------------------------
\* However the ingest and the cleanups of snapshots run meanwhile, an alert attached to a
\* cell was listed in a snapshot made no later than the scan: by a pass that found it in
\* force, and not one that had seen the future.
AttachedWasInForce ==
    \A a \in attached :
        \E s \in reading : s.at <= scanAt /\ a \in DOMAIN s.alerts /\ ExpiresAt[a] >= s.at
=============================================================================
