----------------------------- MODULE NwsAlerts -----------------------------
(***************************************************************************)
(* The registry of official alerts (common/ingest/nws): one pass after the *)
(* other downloads the active alerts, folds them one by one into a         *)
(* registry in memory, and only then publishes it, as a snapshot under the *)
(* time of the pass and as one file per alert.  The registry outlives a    *)
(* pass that fails; a restarted process reads it back from the files.      *)
(***************************************************************************)
EXTENDS Integers, FiniteSets, FiniteSetsExt, Functions

CONSTANTS
    Notices,      \* alerts
    Dropped,      \* alerts of an event type that is not kept (dropped_events)
    ExpiresAt,    \* ExpiresAt[a]: the time an alert expires
    Ttl,          \* nws.registry_ttl_hours
    MaxTick,      \* time that passes (bounds the model)
    MaxNwsFaults  \* downloads, features, files and processes that fail (bounds the model)

ASSUME NwsAssumption ==
    /\ Dropped \subseteq Notices /\ ExpiresAt \in [Notices -> Nat]

VARIABLES
    tick,       \* the time
    feed,       \* what the service lists as active: alert -> version
    registry,   \* the registry in memory: alert -> version
    idFiles,    \* the files of ids/: alert -> version
    snapshots,  \* the files of timestamps/: [at, alerts]
    nws,        \* the pass: [pc, at, payload, left, flawed]
    nwsFaults

nwsVars == <<tick, feed, registry, idFiles, snapshots, nws, nwsFaults>>

Empty == [a \in {} |-> 0]
NwsIdle == [pc |-> "idle", at |-> 0, payload |-> Empty, left |-> {}, flawed |-> FALSE]

NwsInit ==
    /\ tick = 0
    /\ feed = Empty
    /\ registry = Empty /\ idFiles = Empty /\ snapshots = {}
    /\ nws = NwsIdle
    /\ nwsFaults = 0

NwsFault == nwsFaults < MaxNwsFaults /\ nwsFaults' = nwsFaults + 1
Lacking(f, a) == Restrict(f, DOMAIN f \ {a})
With(f, a, value) == [b \in DOMAIN f \cup {a} |-> IF b = a THEN value ELSE f[b]]

(***************************************************************************)
(* The service.                                                            *)
(***************************************************************************)
TimePasses ==
    /\ tick < MaxTick
    /\ tick' = tick + 1
    /\ UNCHANGED <<feed, registry, idFiles, snapshots, nws, nwsFaults>>

\* An alert is issued, or reissued with other contents, or withdrawn.
FeedChanges(a) ==
    /\ feed' \in {With(feed, a, tick), Lacking(feed, a)} /\ feed' # feed
    /\ UNCHANGED <<tick, registry, idFiles, snapshots, nws, nwsFaults>>

(***************************************************************************)
(* A pass.                                                                 *)
(***************************************************************************)
\* download_alerts_async: old snapshots go before the download, whatever its fate.
Download ==
    /\ nws.pc = "idle"
    /\ snapshots' = {s \in snapshots : s.at >= tick - Ttl}
    /\ \/ /\ nws' = [NwsIdle EXCEPT !.pc = "process", !.at = tick, !.payload = feed,
                                    !.left = DOMAIN feed \ Dropped]
          /\ UNCHANGED nwsFaults
       \/ NwsFault /\ UNCHANGED nws
    /\ UNCHANGED <<tick, feed, registry, idFiles>>

\* process_warning, then process_alert: added, or replaced in place.
ProcessAlert(a) ==
    /\ nws.pc = "process" /\ a \in nws.left
    /\ registry' = With(registry, a, nws.payload[a])
    /\ nws' = [nws EXCEPT !.left = @ \ {a}]
    /\ UNCHANGED <<tick, feed, idFiles, snapshots, nwsFaults>>

\* The file ends early or a feature cannot be read: the pass is over, and what it
\* has already put into the registry stays there.
ProcessFails ==
    /\ nws.pc = "process"
    /\ NwsFault
    /\ nws' = NwsIdle
    /\ UNCHANGED <<tick, feed, registry, idFiles, snapshots>>

\* The ids the pass has seen, once the file is read to its end.
Seen == DOMAIN nws.payload \ Dropped

\* Fault variant: what is no longer listed is left to expire.
ReconcileKeepsAll ==
    /\ nws.pc = "process" /\ nws.left = {}
    /\ registry' = Restrict(registry, {a \in DOMAIN registry : ExpiresAt[a] >= nws.at})
    /\ nws' = [nws EXCEPT !.pc = "snapshot"]
    /\ UNCHANGED <<tick, feed, idFiles, snapshots, nwsFaults>>

\* reconcile_with_active_ids and cleanup_expired.  Every alert that survives the
\* first was seen in this pass, so that only its own expiry can end it.
Reconcile ==
    /\ nws.pc = "process" /\ nws.left = {}
    /\ registry' = Restrict(registry, {a \in DOMAIN registry \cap Seen : ExpiresAt[a] >= nws.at})
    /\ nws' = [nws EXCEPT !.pc = "snapshot"]
    /\ UNCHANGED <<tick, feed, idFiles, snapshots, nwsFaults>>

\* save: the snapshot, then the files one after the other, each replaced in one
\* step; a write that fails is passed over.
SaveSnapshot ==
    /\ nws.pc = "snapshot"
    /\ \/ /\ snapshots' = {s \in snapshots : s.at # nws.at}
                          \cup {[at |-> nws.at, alerts |-> registry]}
          /\ nws' = [nws EXCEPT !.pc = "files", !.left = DOMAIN registry]
          /\ UNCHANGED nwsFaults
       \/ /\ NwsFault
          /\ nws' = [nws EXCEPT !.pc = "files", !.left = DOMAIN registry, !.flawed = TRUE]
          /\ UNCHANGED snapshots
    /\ UNCHANGED <<tick, feed, registry, idFiles>>

SaveIdFile(a) ==
    /\ nws.pc = "files" /\ a \in nws.left
    /\ \/ /\ idFiles' = With(idFiles, a, registry[a])
          /\ nws' = [nws EXCEPT !.left = @ \ {a}]
          /\ UNCHANGED nwsFaults
       \/ /\ NwsFault
          /\ nws' = [nws EXCEPT !.left = @ \ {a}, !.flawed = TRUE]
          /\ UNCHANGED idFiles
    /\ UNCHANGED <<tick, feed, registry, snapshots>>

\* A file that cannot be removed stays, and a restart reads it back.
RemoveOrphans ==
    /\ nws.pc = "files" /\ nws.left = {}
    /\ \E stay \in SUBSET (DOMAIN idFiles \ DOMAIN registry) :
        /\ idFiles' = Restrict(idFiles, (DOMAIN idFiles \cap DOMAIN registry) \cup stay)
        /\ IF stay = {} THEN UNCHANGED nwsFaults ELSE NwsFault
    /\ nws' = NwsIdle
    /\ UNCHANGED <<tick, feed, registry, snapshots>>

\* The process is killed and started again: _load_registry reads the files back.
NwsDies ==
    /\ nws.pc # "idle"
    /\ NwsFault
    /\ nws' = NwsIdle
    /\ registry' = idFiles
    /\ UNCHANGED <<tick, feed, idFiles, snapshots>>

NwsNext ==
    \/ TimePasses \/ Download \/ ProcessFails \/ Reconcile
    \/ SaveSnapshot \/ RemoveOrphans \/ NwsDies
    \/ \E a \in Notices : FeedChanges(a) \/ ProcessAlert(a) \/ SaveIdFile(a)

NwsSpec == NwsInit /\ [][NwsNext]_nwsVars

-----------------------------------------------------------------------------
\* However many passes failed half way before it, and whatever a crash left between a
\* snapshot and the files, a pass that ends without a failed write leaves the newest
\* snapshot and the files saying the same: exactly the alerts of its own download
\* that are kept and had not expired, each in the version it downloaded.
NwsPublishedIsUpstream ==
    [][nws.pc = "files" /\ nws'.pc = "idle" /\ nwsFaults' = nwsFaults /\ ~nws.flawed =>
         /\ [at |-> nws.at, alerts |-> idFiles'] \in snapshots
         /\ \A s \in snapshots : s.at <= nws.at
         /\ idFiles' = Restrict(nws.payload, {a \in Seen : ExpiresAt[a] >= nws.at})]_nwsVars

=============================================================================
