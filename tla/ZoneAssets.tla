----------------------------- MODULE ZoneAssets -----------------------------
(***************************************************************************)
(* The zone polygons that alerts without a geometry are drawn with         *)
(* (common/ingest/nws/geomapper.py, zone_sync.py): one file per state,     *)
(* completed in place by a command, and read once by a running ingest.     *)
(***************************************************************************)
EXTENDS Integers, FiniteSets

CONSTANTS
    Zones,         \* zone codes of one state in the service's catalogue
    MaxRetries,    \* nws.zone_sync.max_retries
    MaxZoneFaults  \* requests and processes that fail (bounds the model)

ASSUME ZoneAssumption == MaxRetries \in Nat \ {0} /\ MaxZoneFaults \in Nat

VARIABLES
    zoneFile,   \* the state's zones.json: [codes, whole]
    zoneCache,  \* ZoneLookup._cache of the running ingest: the codes it read, or Unread
    sync,       \* the command: [pc, rows, missing, fetched, tries]
    looked,     \* the last alert drawn: [zone, onDisk, drawn]
    zoneFaults

zoneVars == <<zoneFile, zoneCache, sync, looked, zoneFaults>>

Unread == {{}}
SyncIdle == [pc |-> "idle", rows |-> {}, missing |-> {}, fetched |-> {}, tries |-> 0]
NoLook == [onDisk |-> FALSE, drawn |-> FALSE]

ZoneInit ==
    /\ zoneFile \in [codes : SUBSET Zones, whole : {TRUE}]
    /\ zoneCache = Unread
    /\ sync = SyncIdle
    /\ looked = NoLook
    /\ zoneFaults = 0

ZoneFault == zoneFaults < MaxZoneFaults /\ zoneFaults' = zoneFaults + 1

\* What can be read of the file: nothing of a torn one.
Readable == IF zoneFile.whole THEN zoneFile.codes ELSE {}

(***************************************************************************)
(* The ingest.                                                             *)
(***************************************************************************)
\* Of the zones an alert names the first with a polygon draws it.
HasPolygon(zone, codes) == zone \in codes

\* process_warning of an alert that has no geometry of its own: the state is loaded
\* at the first lookup and never again.
DrawAlert(zone) ==
    /\ LET codes == IF zoneCache = Unread THEN Readable ELSE zoneCache
       IN  /\ zoneCache' = codes
           /\ looked' = [onDisk |-> zoneFile.whole /\ zone \in zoneFile.codes,
                         drawn |-> HasPolygon(zone, codes)]
    /\ UNCHANGED <<zoneFile, sync, zoneFaults>>

IngestRestarts ==
    /\ zoneCache # Unread
    /\ zoneCache' = Unread
    /\ UNCHANGED <<zoneFile, sync, looked, zoneFaults>>

(***************************************************************************)
(* The command.                                                            *)
(***************************************************************************)
\* load_existing_assets and fetch_zone_catalog: a file that cannot be read counts as
\* empty, so that its codes are missing like any other.
StartSync ==
    /\ sync.pc = "idle"
    /\ sync' = [SyncIdle EXCEPT !.pc = "fetch", !.rows = Readable, !.missing = Zones \ Readable]
    /\ UNCHANGED <<zoneFile, zoneCache, looked, zoneFaults>>

\* _fetch_missing_zone: with its polygon, or it has none that is valid.
FetchZone(zone) ==
    /\ sync.pc = "fetch" /\ zone \in sync.missing
    /\ \E fetched \in {sync.fetched, sync.fetched \cup {zone}} :
         sync' = [sync EXCEPT !.missing = @ \ {zone}, !.fetched = fetched, !.tries = 0]
    /\ UNCHANGED <<zoneFile, zoneCache, looked, zoneFaults>>

\* _request_json tries again; after the last attempt the code stays unresolved.
FetchZoneFails(zone) ==
    /\ sync.pc = "fetch" /\ zone \in sync.missing
    /\ ZoneFault
    /\ sync' = IF sync.tries + 1 < MaxRetries
               THEN [sync EXCEPT !.tries = @ + 1]
               ELSE [sync EXCEPT !.missing = @ \ {zone}, !.tries = 0]
    /\ UNCHANGED <<zoneFile, zoneCache, looked>>

\* A state without additions is left alone, and so is everything in a dry run.
BeginWrite ==
    /\ sync.pc = "fetch" /\ sync.missing = {}
    /\ \/ /\ sync.fetched # {}
          /\ zoneFile' = [zoneFile EXCEPT !.whole = FALSE]
          /\ sync' = [sync EXCEPT !.pc = "write"]
       \/ /\ sync' = SyncIdle
          /\ UNCHANGED zoneFile
    /\ UNCHANGED <<zoneCache, looked, zoneFaults>>

\* Fault variant: the file is written with what was fetched.
EndWriteFetched ==
    /\ sync.pc = "write"
    /\ zoneFile' = [codes |-> sync.fetched, whole |-> TRUE]
    /\ sync' = SyncIdle
    /\ UNCHANGED <<zoneCache, looked, zoneFaults>>

\* merge_zone_entries: every row there was, and the additions.
EndWrite ==
    /\ sync.pc = "write"
    /\ zoneFile' = [codes |-> sync.rows \cup sync.fetched, whole |-> TRUE]
    /\ sync' = SyncIdle
    /\ UNCHANGED <<zoneCache, looked, zoneFaults>>

\* What was in the file is lost with a write that does not end.
SyncDies ==
    /\ sync.pc # "idle"
    /\ ZoneFault
    /\ zoneFile' = IF sync.pc = "write" THEN [codes |-> {}, whole |-> FALSE] ELSE zoneFile
    /\ sync' = SyncIdle
    /\ UNCHANGED <<zoneCache, looked>>

ZoneNext ==
    \/ IngestRestarts \/ StartSync \/ BeginWrite \/ EndWrite \/ SyncDies
    \/ \E zone \in Zones : DrawAlert(zone) \/ FetchZone(zone) \/ FetchZoneFails(zone)

ZoneSpec == ZoneInit /\ [][ZoneNext]_zoneVars

-----------------------------------------------------------------------------
\* Only a write that dies loses a polygon: the codes of a whole file are in the file
\* after any number of runs of the command, whatever of the catalogue failed to come.
\* And an alert goes without a polygon that is on disk only in a process that had
\* already read the file when it was put there.
ZonesAreKept ==
    [][/\ zoneFile.codes \subseteq zoneFile'.codes \/ ~zoneFile'.whole
       /\ looked' # looked /\ looked'.onDisk /\ ~looked'.drawn => zoneCache # Unread]_zoneVars

=============================================================================
