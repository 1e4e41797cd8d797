--------------------------- MODULE ProductsProofs ---------------------------
(***************************************************************************)
(* Proofs about what the services leave on disk for one another and for    *)
(* the API, part by part and for any number of steps and faults: the       *)
(* registry of official alerts and the cells they are attached to, the     *)
(* alerts of StormProb, the merged GLM file, the verdict on a module's     *)
(* inputs, the detected cells, the zone polygons and the RAP analysis.     *)
(***************************************************************************)
EXTENDS GlmIngest, AlertMatching, StormAlerts, CtamReadiness, CellDetection,
        ZoneAssets, SynopticIngest, FiniteSetTheorems, SequenceTheorems, TLAPS

-----------------------------------------------------------------------------
(***************************************************************************)
(* The registry of official alerts (NwsAlerts).                            *)
(***************************************************************************)
Listing == UNION {[S -> Nat] : S \in SUBSET Notices}
InForce(s) == \A a \in DOMAIN s.alerts : ExpiresAt[a] >= s.at

NwsType ==
    /\ tick \in Nat /\ nwsFaults \in Nat
    /\ feed \in Listing /\ registry \in Listing /\ idFiles \in Listing
    /\ snapshots \subseteq [at: Nat, alerts: Listing]
    /\ nws \in [pc: {"idle", "process", "snapshot", "files"}, at: Nat, payload: Listing,
                left: SUBSET Notices, flawed: BOOLEAN]

\* No snapshot is newer than the clock, nor than the pass under way, and each lists
\* what was in force at its time.
SnapshotsArePast ==
    /\ \A s \in snapshots : s.at <= tick /\ InForce(s)
    /\ nws.pc # "idle" => nws.at <= tick /\ \A s \in snapshots : s.at <= nws.at

\* How far the registry in memory has come: everything folded so far, then exactly the
\* part of the download that is kept and in force.
RegistryInPass ==
    /\ nws.pc = "process" =>
        /\ nws.left \subseteq Seen
        /\ \A a \in Seen \ nws.left : a \in DOMAIN registry /\ registry[a] = nws.payload[a]
    /\ nws.pc \in {"snapshot", "files"} =>
        registry = Restrict(nws.payload, {a \in Seen : ExpiresAt[a] >= nws.at})

\* How far the files have come, unless a write failed.
FilesInPass ==
    /\ nws.pc = "files" => nws.left \subseteq DOMAIN registry
    /\ nws.pc = "files" /\ ~nws.flawed =>
        /\ [at |-> nws.at, alerts |-> registry] \in snapshots
        /\ \A a \in DOMAIN registry \ nws.left :
            a \in DOMAIN idFiles /\ idFiles[a] = registry[a]

NwsInv == NwsType /\ SnapshotsArePast /\ RegistryInPass /\ FilesInPass

\* A listing is a function of some alerts.
LEMMA ListingIsFunction ==
  ASSUME NEW f
  PROVE  f \in Listing <=> /\ f = [a \in DOMAIN f |-> f[a]] /\ DOMAIN f \subseteq Notices
                           /\ \A a \in DOMAIN f : f[a] \in Nat
  <1>1. ASSUME f \in Listing
        PROVE  /\ f = [a \in DOMAIN f |-> f[a]] /\ DOMAIN f \subseteq Notices
               /\ \A a \in DOMAIN f : f[a] \in Nat
    <2>1. PICK S \in SUBSET Notices : f \in [S -> Nat]
      BY <1>1 DEF Listing
    <2> QED
      BY <2>1
  <1>2. ASSUME f = [a \in DOMAIN f |-> f[a]], DOMAIN f \subseteq Notices,
               \A a \in DOMAIN f : f[a] \in Nat
        PROVE  f \in Listing
    <2>1. f \in [DOMAIN f -> Nat]
      BY <1>2
    <2> QED
      BY <1>2, <2>1 DEF Listing
  <1> QED
    BY <1>1, <1>2

\* An alert added or replaced.
LEMMA WithIsListing ==
  ASSUME NEW f \in Listing, NEW a \in Notices, NEW v \in Nat
  PROVE  /\ With(f, a, v) \in Listing /\ DOMAIN With(f, a, v) = DOMAIN f \cup {a}
         /\ With(f, a, v)[a] = v /\ \A b \in DOMAIN f : b # a => With(f, a, v)[b] = f[b]
  <1>1. /\ DOMAIN With(f, a, v) = DOMAIN f \cup {a} /\ With(f, a, v)[a] = v
        /\ \A b \in DOMAIN f : b # a => With(f, a, v)[b] = f[b]
        /\ With(f, a, v) = [b \in DOMAIN With(f, a, v) |-> With(f, a, v)[b]]
    BY DEF With
  <1>2. DOMAIN f \subseteq Notices /\ \A b \in DOMAIN f : f[b] \in Nat
    BY ListingIsFunction
  <1>3. \A b \in DOMAIN f \cup {a} : With(f, a, v)[b] \in Nat
    BY <1>1, <1>2
  <1> QED
    BY <1>1, <1>2, <1>3, ListingIsFunction

\* A part of a listing.
LEMMA RestrictIsListing ==
  ASSUME NEW f \in Listing, NEW S \in SUBSET DOMAIN f
  PROVE  /\ Restrict(f, S) \in Listing /\ DOMAIN Restrict(f, S) = S
         /\ \A a \in S : Restrict(f, S)[a] = f[a]
  <1>1. /\ DOMAIN Restrict(f, S) = S /\ \A a \in S : Restrict(f, S)[a] = f[a]
        /\ Restrict(f, S) = [b \in DOMAIN Restrict(f, S) |-> Restrict(f, S)[b]]
    BY DEF Restrict
  <1>2. DOMAIN f \subseteq Notices /\ \A b \in DOMAIN f : f[b] \in Nat
    BY ListingIsFunction
  <1> QED
    BY <1>1, <1>2, ListingIsFunction

\* Nothing is listed at first.
LEMMA InitNwsInv == NwsInit => NwsInv
  <1>1. Empty \in Listing
    BY ListingIsFunction DEF Empty
  <1> QED
    BY <1>1 DEF NwsInit, NwsInv, NwsType, SnapshotsArePast, RegistryInPass, FilesInPass, NwsIdle

\* The times of the alerts.
LEMMA ExpiryIsTime == \A a \in Notices : ExpiresAt[a] \in Nat
  BY NwsAssumption

\* What a step does not touch it keeps.
LEMMA NwsTypes ==
  ASSUME NwsInv
  PROVE  /\ DOMAIN feed \subseteq Notices /\ DOMAIN registry \subseteq Notices
         /\ DOMAIN idFiles \subseteq Notices /\ DOMAIN nws.payload \subseteq Notices
         /\ Seen \subseteq DOMAIN nws.payload /\ nws.at \in Nat /\ tick \in Nat
         /\ \A a \in DOMAIN nws.payload : nws.payload[a] \in Nat
         /\ \A a \in DOMAIN registry : registry[a] \in Nat
         /\ \A a \in DOMAIN idFiles : idFiles[a] \in Nat
         /\ \A s \in snapshots : s.at \in Nat /\ s.alerts \in Listing
  <1>1. /\ feed \in Listing /\ registry \in Listing /\ idFiles \in Listing
        /\ nws.payload \in Listing /\ nws.at \in Nat /\ tick \in Nat
        /\ snapshots \subseteq [at: Nat, alerts: Listing]
    BY DEF NwsInv, NwsType
  <1> QED
    BY <1>1, ListingIsFunction DEF Seen

\* The start of a pass, and a change of the feed.
LEMMA DownloadKeeps == NwsInv /\ (Download \/ TimePasses) => NwsInv'
  <1> SUFFICES ASSUME NwsInv, Download \/ TimePasses PROVE NwsInv'
    OBVIOUS
  <1>0. NwsType /\ SnapshotsArePast /\ RegistryInPass /\ FilesInPass
    BY DEF NwsInv
  <1>1. CASE TimePasses
    <2>1. NwsType'
      BY <1>0, <1>1 DEF TimePasses, NwsType
    <2>2. SnapshotsArePast'
      <3>1. \A s \in snapshots : s.at \in Nat /\ s.at <= tick /\ InForce(s)
        BY <1>0, NwsTypes DEF SnapshotsArePast
      <3>2. /\ tick' = tick + 1 /\ tick \in Nat /\ nws.at \in Nat
            /\ snapshots' = snapshots /\ nws' = nws
        BY <1>1, NwsTypes DEF TimePasses
      <3>3. \A s \in snapshots : s.at <= tick + 1 /\ InForce(s)
        BY <3>1, <3>2
      <3>4. nws.pc # "idle" => nws.at <= tick + 1 /\ \A s \in snapshots : s.at <= nws.at
        BY <1>0, <3>2 DEF SnapshotsArePast
      <3> QED
        BY <3>2, <3>3, <3>4 DEF SnapshotsArePast, InForce
    <2> QED
      BY <1>0, <1>1, <2>1, <2>2 DEF TimePasses, NwsInv, RegistryInPass, FilesInPass, Seen
  <1>2. CASE Download
    <2>1. snapshots' \subseteq snapshots /\ tick' = tick /\ feed' = feed
          /\ registry' = registry /\ idFiles' = idFiles
      BY <1>2 DEF Download
    <2>2. CASE nws' = nws
      <3>1. nwsFaults' \in Nat
        BY <1>0, <1>2, <2>2 DEF Download, NwsFault, NwsType, NwsIdle
      <3>2. nws.pc = "idle"
        BY <1>2 DEF Download
      <3> QED
        BY <1>0, <2>1, <2>2, <3>1, <3>2
           DEF NwsInv, NwsType, SnapshotsArePast, RegistryInPass, FilesInPass, InForce, Seen
    <2>3. CASE nws' # nws
      <3>1. /\ nws' = [pc |-> "process", at |-> tick, payload |-> feed,
                       left |-> DOMAIN feed \ Dropped, flawed |-> FALSE]
            /\ nwsFaults' = nwsFaults
        BY <1>2, <2>3 DEF Download, NwsIdle
      <3>2. NwsType'
        BY <1>0, <2>1, <3>1, NwsTypes DEF NwsType
      <3>3. nws'.at = tick /\ nws'.pc = "process" /\ nws'.left = Seen' /\ tick <= tick
        BY <3>1, NwsTypes DEF Seen
      <3> QED
        BY <1>0, <2>1, <3>2, <3>3
           DEF NwsInv, SnapshotsArePast, RegistryInPass, FilesInPass, InForce
    <2> QED
      BY <2>2, <2>3
  <1> QED
    BY <1>1, <1>2

\* The feed alone is not what anything here depends on.
LEMMA FeedKeeps == ASSUME NwsInv, NEW a \in Notices, FeedChanges(a) PROVE NwsInv'
  <1>1. feed \in Listing /\ tick \in Nat
    BY DEF NwsInv, NwsType
  <1>2. With(feed, a, tick) \in Listing
    BY <1>1, WithIsListing
  <1>3. DOMAIN feed \ {a} \subseteq DOMAIN feed
    OBVIOUS
  <1>4. Lacking(feed, a) \in Listing
    BY <1>1, <1>3, RestrictIsListing DEF Lacking
  <1>5. feed' \in Listing
    BY <1>2, <1>4 DEF FeedChanges
  <1> QED
    BY <1>5 DEF FeedChanges, NwsInv, NwsType, SnapshotsArePast, RegistryInPass, FilesInPass,
                InForce, Seen

\* One alert is folded in.
LEMMA ProcessKeeps == ASSUME NwsInv, NEW a \in Notices, ProcessAlert(a) PROVE NwsInv'
  <1>0. NwsType /\ SnapshotsArePast /\ RegistryInPass /\ nws.pc = "process" /\ a \in nws.left
    BY DEF NwsInv, ProcessAlert
  <1>1. /\ nws' = [nws EXCEPT !.left = @ \ {a}]
        /\ UNCHANGED <<tick, feed, idFiles, snapshots, nwsFaults>>
        /\ registry' = With(registry, a, nws.payload[a])
    BY DEF ProcessAlert
  <1>2. nws'.pc = "process" /\ nws'.at = nws.at /\ nws'.payload = nws.payload
        /\ nws'.left = nws.left \ {a}
        /\ nws' \in [pc: {"idle", "process", "snapshot", "files"}, at: Nat, payload: Listing,
                     left: SUBSET Notices, flawed: BOOLEAN]
    BY <1>0, <1>1 DEF NwsType
  <1>3. a \in Seen /\ a \in DOMAIN nws.payload /\ nws.payload[a] \in Nat
    BY <1>0, NwsTypes DEF RegistryInPass, Seen
  <1>4. registry \in Listing
    BY <1>0 DEF NwsType
  <1>5. /\ registry' \in Listing /\ DOMAIN registry' = DOMAIN registry \cup {a}
        /\ registry'[a] = nws.payload[a]
        /\ \A b \in DOMAIN registry : b # a => registry'[b] = registry[b]
    <2>1. PICK v \in Nat : v = nws.payload[a]
      BY <1>3
    <2>2. registry' = With(registry, a, v)
      BY <1>1, <2>1
    <2> QED
      BY <1>4, <2>1, <2>2, WithIsListing
  <1>6. NwsType'
    BY <1>0, <1>1, <1>2, <1>5 DEF NwsType
  <1>7. SnapshotsArePast'
    BY <1>0, <1>1, <1>2 DEF SnapshotsArePast, InForce
  <1>8. Seen' = Seen
    BY <1>2 DEF Seen
  <1>9. ASSUME NEW b \in Seen \ nws'.left
        PROVE  b \in DOMAIN registry' /\ registry'[b] = nws.payload[b]
    <2>1. CASE b = a
      BY <1>5, <2>1
    <2>2. CASE b # a
      <3>1. b \in Seen \ nws.left
        BY <1>2, <2>2
      <3> QED
        BY <1>0, <1>5, <2>2, <3>1 DEF RegistryInPass
    <2> QED
      BY <2>1, <2>2
  <1>10. nws'.left \subseteq Seen
    BY <1>0, <1>2 DEF RegistryInPass
  <1>11. RegistryInPass'
    BY <1>2, <1>8, <1>9, <1>10 DEF RegistryInPass
  <1> QED
    BY <1>2, <1>6, <1>7, <1>11 DEF NwsInv, FilesInPass

\* What is no longer listed or has expired goes: what is left is the download's.
LEMMA ReconcileKeeps == NwsInv /\ Reconcile => NwsInv'
  <1> SUFFICES ASSUME NwsInv, Reconcile PROVE NwsInv'
    OBVIOUS
  <1> DEFINE Kept == {a \in Seen : ExpiresAt[a] >= nws.at}
  <1>0. NwsType /\ SnapshotsArePast /\ RegistryInPass /\ nws.pc = "process" /\ nws.left = {}
    BY DEF NwsInv, Reconcile
  <1>1. /\ nws' = [nws EXCEPT !.pc = "snapshot"]
        /\ UNCHANGED <<tick, feed, idFiles, snapshots, nwsFaults>>
        /\ registry' = Restrict(registry, {a \in DOMAIN registry \cap Seen : ExpiresAt[a] >= nws.at})
    BY DEF Reconcile
  <1>2. nws'.pc = "snapshot" /\ nws'.at = nws.at /\ nws'.payload = nws.payload
        /\ nws' \in [pc: {"idle", "process", "snapshot", "files"}, at: Nat, payload: Listing,
                     left: SUBSET Notices, flawed: BOOLEAN]
    BY <1>0, <1>1 DEF NwsType
  <1>3. \A a \in Seen : a \in DOMAIN registry /\ registry[a] = nws.payload[a]
    BY <1>0 DEF RegistryInPass
  <1>4. {a \in DOMAIN registry \cap Seen : ExpiresAt[a] >= nws.at} = Kept
    BY <1>3
  <1>5. registry \in Listing /\ Kept \subseteq DOMAIN registry
    BY <1>0, <1>3 DEF NwsType
  <1>6. registry' \in Listing
    BY <1>1, <1>4, <1>5, RestrictIsListing
  <1>7. Restrict(registry, Kept) = Restrict(nws.payload, Kept)
    BY <1>3 DEF Restrict
  <1>8. Seen' = Seen
    BY <1>2 DEF Seen
  <1>9. NwsType'
    BY <1>0, <1>1, <1>2, <1>6 DEF NwsType
  <1>10. SnapshotsArePast'
    BY <1>0, <1>1, <1>2 DEF SnapshotsArePast, InForce
  <1>11. RegistryInPass'
    BY <1>1, <1>2, <1>4, <1>7, <1>8 DEF RegistryInPass
  <1> QED
    BY <1>2, <1>9, <1>10, <1>11 DEF NwsInv, FilesInPass

\* The snapshot, or the failure to write it.
LEMMA SaveSnapshotKeeps == NwsInv /\ SaveSnapshot => NwsInv'
  <1> SUFFICES ASSUME NwsInv, SaveSnapshot PROVE NwsInv'
    OBVIOUS
  <1> DEFINE New == [at |-> nws.at, alerts |-> registry]
  <1>0. NwsType /\ SnapshotsArePast /\ RegistryInPass /\ nws.pc = "snapshot"
    BY DEF NwsInv, SaveSnapshot
  <1>1. UNCHANGED <<tick, feed, registry, idFiles>>
    BY DEF SaveSnapshot
  <1>2. /\ nws'.pc = "files" /\ nws'.at = nws.at /\ nws'.payload = nws.payload
        /\ nws'.left = DOMAIN registry
        /\ nws' \in [pc: {"idle", "process", "snapshot", "files"}, at: Nat, payload: Listing,
                     left: SUBSET Notices, flawed: BOOLEAN]
    BY <1>0, NwsTypes DEF SaveSnapshot, NwsType
  <1>3. Seen' = Seen
    BY <1>2 DEF Seen
  <1>4. registry = Restrict(nws.payload, {a \in Seen : ExpiresAt[a] >= nws.at})
    BY <1>0 DEF RegistryInPass
  <1>5. RegistryInPass'
    BY <1>1, <1>2, <1>3, <1>4 DEF RegistryInPass
  <1>6. /\ New \in [at: Nat, alerts: Listing] /\ InForce(New) /\ New.at = nws.at
    <2>1. DOMAIN registry = {a \in Seen : ExpiresAt[a] >= nws.at}
      BY <1>4 DEF Restrict
    <2> QED
      BY <1>0, <2>1 DEF NwsType, InForce
  <1>7. \A s \in snapshots : s.at <= nws.at
    BY <1>0 DEF SnapshotsArePast
  <1>8. nws.at <= tick
    BY <1>0 DEF SnapshotsArePast
  <1>9. CASE /\ snapshots' = {s \in snapshots : s.at # nws.at} \cup {New}
             /\ UNCHANGED nwsFaults
    <2>1. SnapshotsArePast'
      BY <1>0, <1>1, <1>2, <1>6, <1>7, <1>8, <1>9, NwsTypes DEF SnapshotsArePast, InForce
    <2>2. FilesInPass'
      BY <1>1, <1>2, <1>9 DEF FilesInPass
    <2>3. NwsType'
      BY <1>0, <1>1, <1>2, <1>6, <1>9 DEF NwsType
    <2> QED
      BY <1>5, <2>1, <2>2, <2>3 DEF NwsInv
  <1>10. CASE NwsFault /\ nws'.flawed /\ UNCHANGED snapshots
    <2>1. SnapshotsArePast'
      BY <1>0, <1>1, <1>2, <1>10 DEF SnapshotsArePast, InForce
    <2>2. FilesInPass'
      BY <1>1, <1>2, <1>10 DEF FilesInPass
    <2>3. NwsType'
      BY <1>0, <1>1, <1>2, <1>10 DEF NwsType, NwsFault
    <2> QED
      BY <1>5, <2>1, <2>2, <2>3 DEF NwsInv
  <1>11. ASSUME nws' = [nws EXCEPT !.pc = "files", !.left = DOMAIN registry, !.flawed = TRUE]
         PROVE  nws'.flawed
    BY <1>0, <1>11 DEF NwsType
  <1> QED
    BY <1>9, <1>10, <1>11 DEF SaveSnapshot

\* The file of one alert, or the failure to write it.
LEMMA SaveIdFileKeeps == ASSUME NwsInv, NEW a \in Notices, SaveIdFile(a) PROVE NwsInv'
  <1>0. NwsType /\ SnapshotsArePast /\ RegistryInPass /\ FilesInPass
        /\ nws.pc = "files" /\ a \in nws.left
    BY DEF NwsInv, SaveIdFile
  <1>1. UNCHANGED <<tick, feed, registry, snapshots>>
    BY DEF SaveIdFile
  <1>2. /\ nws'.pc = "files" /\ nws'.at = nws.at /\ nws'.payload = nws.payload
        /\ nws'.left = nws.left \ {a} /\ (nws.flawed => nws'.flawed)
        /\ nws' \in [pc: {"idle", "process", "snapshot", "files"}, at: Nat, payload: Listing,
                     left: SUBSET Notices, flawed: BOOLEAN]
    BY <1>0 DEF SaveIdFile, NwsType
  <1>3. Seen' = Seen
    BY <1>2 DEF Seen
  <1>4. RegistryInPass' /\ SnapshotsArePast'
    BY <1>0, <1>1, <1>2, <1>3 DEF RegistryInPass, SnapshotsArePast, InForce
  <1>5. a \in DOMAIN registry /\ registry[a] \in Nat
    BY <1>0, NwsTypes DEF FilesInPass
  <1>6. CASE idFiles' = With(idFiles, a, registry[a]) /\ UNCHANGED nwsFaults
    <2>1. idFiles \in Listing
      BY <1>0 DEF NwsType
    <2>2. /\ idFiles' \in Listing /\ DOMAIN idFiles' = DOMAIN idFiles \cup {a}
          /\ idFiles'[a] = registry[a]
          /\ \A b \in DOMAIN idFiles : b # a => idFiles'[b] = idFiles[b]
      BY <1>5, <1>6, <2>1, WithIsListing
    <2>3. ASSUME ~nws'.flawed, NEW b \in DOMAIN registry \ nws'.left
          PROVE  b \in DOMAIN idFiles' /\ idFiles'[b] = registry[b]
      <3>1. CASE b = a
        BY <2>2, <3>1
      <3>2. CASE b # a
        <4>1. b \in DOMAIN idFiles /\ idFiles[b] = registry[b]
          BY <1>0, <1>2, <2>3, <3>2 DEF FilesInPass
        <4> QED
          BY <2>2, <3>2, <4>1
      <3> QED
        BY <3>1, <3>2
    <2>4. nws'.left \subseteq DOMAIN registry
      BY <1>0, <1>2 DEF FilesInPass
    <2>5. ~nws'.flawed => [at |-> nws.at, alerts |-> registry] \in snapshots
      BY <1>0, <1>2 DEF FilesInPass
    <2>6. FilesInPass'
      BY <1>1, <1>2, <2>3, <2>4, <2>5 DEF FilesInPass
    <2>7. NwsType'
      BY <1>0, <1>1, <1>2, <1>6, <2>2 DEF NwsType
    <2> QED
      BY <1>4, <2>6, <2>7 DEF NwsInv
  <1>7. CASE NwsFault /\ nws'.flawed /\ UNCHANGED idFiles
    <2>1. nws'.left \subseteq DOMAIN registry
      BY <1>0, <1>2 DEF FilesInPass
    <2>2. FilesInPass'
      BY <1>1, <1>2, <1>7, <2>1 DEF FilesInPass
    <2>3. NwsType'
      BY <1>0, <1>1, <1>2, <1>7 DEF NwsType, NwsFault
    <2> QED
      BY <1>4, <2>2, <2>3 DEF NwsInv
  <1>8. ASSUME nws' = [nws EXCEPT !.left = @ \ {a}, !.flawed = TRUE]
        PROVE  nws'.flawed
    BY <1>0, <1>8 DEF NwsType
  <1> QED
    BY <1>6, <1>7, <1>8 DEF SaveIdFile

\* The end of a pass, whichever way it comes.
LEMMA PassEndsKeeps == NwsInv /\ (RemoveOrphans \/ ProcessFails \/ NwsDies) => NwsInv'
  <1> SUFFICES ASSUME NwsInv, RemoveOrphans \/ ProcessFails \/ NwsDies PROVE NwsInv'
    OBVIOUS
  <1>0. NwsType /\ SnapshotsArePast
    BY DEF NwsInv
  <1>1. UNCHANGED <<tick, feed, snapshots>> /\ nws' = NwsIdle /\ nwsFaults' \in Nat
    <2>1. UNCHANGED nwsFaults \/ NwsFault
      BY DEF RemoveOrphans, ProcessFails, NwsDies
    <2> QED
      BY <1>0, <2>1 DEF RemoveOrphans, ProcessFails, NwsDies, NwsFault, NwsType
  <1>2. idFiles \in Listing /\ registry \in Listing
    BY <1>0 DEF NwsType
  <1>3. RemoveOrphans => idFiles' \in Listing
    <2> SUFFICES ASSUME RemoveOrphans PROVE idFiles' \in Listing
      OBVIOUS
    <2>1. PICK stay \in SUBSET (DOMAIN idFiles \ DOMAIN registry) :
            idFiles' = Restrict(idFiles, (DOMAIN idFiles \cap DOMAIN registry) \cup stay)
      BY DEF RemoveOrphans
    <2>2. (DOMAIN idFiles \cap DOMAIN registry) \cup stay \subseteq DOMAIN idFiles
      OBVIOUS
    <2> QED
      BY <1>2, <2>1, <2>2, RestrictIsListing
  <1>4. registry' \in Listing /\ idFiles' \in Listing
    BY <1>2, <1>3 DEF RemoveOrphans, ProcessFails, NwsDies
  <1>5. Empty \in Listing
    BY ListingIsFunction DEF Empty
  <1>6. NwsIdle \in [pc: {"idle", "process", "snapshot", "files"}, at: Nat, payload: Listing,
                     left: SUBSET Notices, flawed: BOOLEAN] /\ NwsIdle.pc = "idle"
    BY <1>5 DEF NwsIdle
  <1>7. NwsType'
    BY <1>0, <1>1, <1>4, <1>6 DEF NwsType
  <1> QED
    BY <1>0, <1>1, <1>6, <1>7
       DEF NwsInv, SnapshotsArePast, RegistryInPass, FilesInPass, InForce

\* Every step of the ingest keeps the invariant.
LEMMA NextNwsInv == NwsInv /\ [NwsNext]_nwsVars => NwsInv'
  <1> SUFFICES ASSUME NwsInv, [NwsNext]_nwsVars PROVE NwsInv'
    OBVIOUS
  <1>1. CASE UNCHANGED nwsVars
    BY <1>1 DEF nwsVars, NwsInv, NwsType, SnapshotsArePast, RegistryInPass, FilesInPass,
                InForce, Seen
  <1> QED
    BY <1>1, DownloadKeeps, FeedKeeps, ProcessKeeps, ReconcileKeeps, SaveSnapshotKeeps,
       SaveIdFileKeeps, PassEndsKeeps DEF NwsNext

\* The registry is never ahead of its pass nor a snapshot of the clock.
THEOREM NwsInvariant == NwsSpec => []NwsInv
  BY InitNwsInv, NextNwsInv, PTL DEF NwsSpec

\* However many passes failed before it, a pass that ends without a failed write leaves
\* the snapshot and the files saying the same, and both what it downloaded: what a pass
\* that failed left in the registry is overwritten or struck off before anything is
\* written (download_alerts_async, AlertRegistry.save).
THEOREM PassPublishesItsDownload == NwsSpec => NwsPublishedIsUpstream
  <1> DEFINE Sound ==
        nws.pc = "files" /\ nws'.pc = "idle" /\ nwsFaults' = nwsFaults /\ ~nws.flawed =>
         /\ [at |-> nws.at, alerts |-> idFiles'] \in snapshots
         /\ \A s \in snapshots : s.at <= nws.at
         /\ idFiles' = Restrict(nws.payload, {a \in Seen : ExpiresAt[a] >= nws.at})
  <1>1. NwsInv /\ [NwsNext]_nwsVars => [Sound]_nwsVars
    <2> SUFFICES ASSUME NwsInv, NwsNext, nws.pc = "files", nws'.pc = "idle",
                        nwsFaults' = nwsFaults, ~nws.flawed
                 PROVE  /\ [at |-> nws.at, alerts |-> idFiles'] \in snapshots
                        /\ \A s \in snapshots : s.at <= nws.at
                        /\ idFiles' = Restrict(nws.payload, {a \in Seen : ExpiresAt[a] >= nws.at})
      OBVIOUS
    <2>0. NwsType /\ SnapshotsArePast /\ RegistryInPass /\ FilesInPass
      BY DEF NwsInv
    <2>1. ~(\E a \in Notices : SaveIdFile(a))
      BY <2>0 DEF SaveIdFile, NwsType
    <2>2. ~NwsDies
      BY <2>0 DEF NwsDies, NwsFault, NwsType
    <2>3. RemoveOrphans
      BY <2>1, <2>2 DEF NwsNext, TimePasses, Download, ProcessFails, Reconcile, SaveSnapshot,
                        FeedChanges, ProcessAlert
    <2>4. /\ nws.left = {}
          /\ idFiles' = Restrict(idFiles, DOMAIN idFiles \cap DOMAIN registry)
      <3>1. PICK stay \in SUBSET (DOMAIN idFiles \ DOMAIN registry) :
              /\ idFiles' = Restrict(idFiles, (DOMAIN idFiles \cap DOMAIN registry) \cup stay)
              /\ IF stay = {} THEN UNCHANGED nwsFaults ELSE NwsFault
        BY <2>3 DEF RemoveOrphans
      <3>2. stay = {}
        BY <2>0, <3>1 DEF NwsFault, NwsType
      <3>3. (DOMAIN idFiles \cap DOMAIN registry) \cup {} = DOMAIN idFiles \cap DOMAIN registry
        OBVIOUS
      <3> QED
        BY <2>3, <3>1, <3>2, <3>3 DEF RemoveOrphans
    <2>5. \A a \in DOMAIN registry : a \in DOMAIN idFiles /\ idFiles[a] = registry[a]
      BY <2>0, <2>4 DEF FilesInPass
    <2>6. registry = [a \in DOMAIN registry |-> registry[a]]
      BY <2>0, ListingIsFunction DEF NwsType
    <2>7. idFiles' = registry
      BY <2>4, <2>5, <2>6 DEF Restrict
    <2> QED
      BY <2>0, <2>7 DEF SnapshotsArePast, RegistryInPass, FilesInPass
  <1> HIDE DEF Sound
  <1>2. NwsSpec => [][Sound]_nwsVars
    BY <1>1, NwsInvariant, PTL DEF NwsSpec
  <1> QED
    BY <1>2, PTL DEF NwsPublishedIsUpstream, Sound

-----------------------------------------------------------------------------
(***************************************************************************)
(* The alerts of the cells (AlertMatching).  The snapshot in use may have  *)
(* been cleaned up since it was chosen, so it is remembered by value; and  *)
(* the features kept from an earlier scan are good for another one because *)
(* they are found again only by their own snapshot.                        *)
(***************************************************************************)
OneSnapshot ==
    /\ \A s \in reading : s.at <= scanAt /\ InForce(s)
    /\ \A s, u \in reading : s = u
FeaturesAreListed ==
    /\ \A a \in features : \E s \in reading : a \in DOMAIN s.alerts
    /\ matcher = "loading" => \A a \in unread : \E s \in reading : a \in DOMAIN s.alerts
KeptAreListed == \A k \in kept : k.features \subseteq DOMAIN k.snapshot.alerts
MatchInv == OneSnapshot /\ FeaturesAreListed /\ KeptAreListed /\ attached \subseteq features

\* A step of the matching keeps its invariant, whatever the ingest has made of the files.
LEMMA MatchStepKeeps == NwsInv /\ MatchInv /\ MatchNext => MatchInv'
  <1> SUFFICES ASSUME NwsInv, MatchInv, MatchNext PROVE MatchInv'
    OBVIOUS
  <1>0. OneSnapshot /\ FeaturesAreListed /\ KeptAreListed /\ attached \subseteq features
    BY DEF MatchInv
  <1>1. ASSUME NEW t \in 0..MaxTick, SelectSnapshot(t) PROVE MatchInv'
    <2>1. scanAt' = t /\ attached' = {} /\ kept' = kept
      BY <1>1 DEF SelectSnapshot
    <2>2. CASE reading' = {} /\ features' = {} /\ matcher' = "matching"
      BY <1>0, <2>1, <2>2 DEF MatchInv, OneSnapshot, FeaturesAreListed, KeptAreListed
    <2>3. ASSUME NEW s \in Closest(t), reading' = {s},
                 \/ \E k \in kept : k.snapshot = s /\ features' = k.features
                                    /\ unread' = {} /\ matcher' = "matching"
                 \/ unread' = DOMAIN s.alerts /\ features' = {} /\ matcher' = "loading"
          PROVE  MatchInv'
      <3>1. s \in snapshots /\ s.at <= t /\ InForce(s)
        BY DEF Closest, NwsInv, SnapshotsArePast
      <3>2. OneSnapshot'
        BY <2>1, <2>3, <3>1 DEF OneSnapshot, InForce
      <3>3. features' \subseteq DOMAIN s.alerts
            /\ (matcher' = "loading" => unread' = DOMAIN s.alerts)
        BY <1>0, <2>3 DEF KeptAreListed
      <3>4. FeaturesAreListed'
        BY <2>3, <3>3 DEF FeaturesAreListed
      <3> QED
        BY <1>0, <2>1, <3>2, <3>4 DEF MatchInv, KeptAreListed
    <2> QED
      BY <1>1, <2>2, <2>3 DEF SelectSnapshot
  <1>2. ASSUME NEW a \in Notices, ReadFeature(a) PROVE MatchInv'
    <2>1. /\ UNCHANGED <<scanAt, reading, kept, attached, matcher>>
          /\ unread' \subseteq unread /\ features' \subseteq features \cup {a}
          /\ features \subseteq features' /\ matcher = "loading" /\ a \in unread
      BY <1>2 DEF ReadFeature
    <2>2. \E s \in reading : a \in DOMAIN s.alerts
      BY <1>0, <2>1 DEF FeaturesAreListed
    <2>3. FeaturesAreListed'
      BY <1>0, <2>1, <2>2 DEF FeaturesAreListed
    <2> QED
      BY <1>0, <2>1, <2>3 DEF MatchInv, OneSnapshot, InForce, KeptAreListed
  <1>3. CASE KeepFeatures
    <2> DEFINE chosen == CHOOSE s \in reading : TRUE
    <2>1. /\ kept' = {[snapshot |-> chosen, features |-> features]}
          /\ matcher' = "matching"
          /\ UNCHANGED <<scanAt, reading, unread, features, attached>>
      BY <1>3 DEF KeepFeatures, Bounded
    <2>2. features \subseteq DOMAIN chosen.alerts
      <3> SUFFICES ASSUME NEW a \in features PROVE a \in DOMAIN chosen.alerts
        OBVIOUS
      <3>1. PICK s \in reading : a \in DOMAIN s.alerts
        BY <1>0 DEF FeaturesAreListed
      <3>2. chosen = s
        BY <1>0, <3>1 DEF OneSnapshot
      <3> QED
        BY <3>1, <3>2
    <2> HIDE DEF chosen
    <2>3. KeptAreListed'
      BY <2>1, <2>2 DEF KeptAreListed
    <2> QED
      BY <1>0, <2>1, <2>3 DEF MatchInv, OneSnapshot, InForce, FeaturesAreListed
  <1>4. CASE MatchCells
    BY <1>0, <1>4 DEF MatchCells, Meeting, Prepared, Drawable, OnTheList, MatchInv,
                      OneSnapshot, InForce, FeaturesAreListed, KeptAreListed
  <1>5. CASE NextScan \/ FreshWorker
    BY <1>0, <1>5 DEF NextScan, FreshWorker, MatchInv, OneSnapshot, InForce, FeaturesAreListed,
                      KeptAreListed
  <1> QED
    BY <1>1, <1>2, <1>3, <1>4, <1>5 DEF MatchNext

\* The ingest and the matching together keep both invariants.
LEMMA NextMatchInv ==
  NwsInv /\ MatchInv /\ [AlertsNext]_<<nwsVars, matchVars>> => NwsInv' /\ MatchInv'
  <1> SUFFICES ASSUME NwsInv, MatchInv, [AlertsNext]_<<nwsVars, matchVars>>
               PROVE  NwsInv' /\ MatchInv'
    OBVIOUS
  <1>1. CASE MatchNext
    <2>1. UNCHANGED nwsVars
      BY <1>1 DEF MatchNext, SelectSnapshot, ReadFeature, KeepFeatures, MatchCells, NextScan,
                  FreshWorker
    <2> QED
      BY <1>1, <2>1, MatchStepKeeps, NextNwsInv
  <1>2. CASE [NwsNext]_nwsVars /\ UNCHANGED matchVars
    <2>1. MatchInv'
      BY <1>2 DEF matchVars, MatchInv, OneSnapshot, InForce, FeaturesAreListed, KeptAreListed
    <2> QED
      BY <1>2, <2>1, NextNwsInv
  <1> QED
    BY <1>1, <1>2 DEF AlertsNext

\* What is attached to a cell was in force when a pass no later than the scan listed it,
\* though the files are rewritten and the snapshots cleaned up while the worker reads
\* them, and a snapshot's features outlive their files (match_alerts_to_cells).
THEOREM AttachedAlertsWereInForce == AlertsSpec => []AttachedWasInForce
  <1>1. NwsInit /\ MatchInit => NwsInv /\ MatchInv
    BY InitNwsInv DEF MatchInit, MatchInv, OneSnapshot, FeaturesAreListed, KeptAreListed
  <1>2. NwsInv /\ MatchInv => AttachedWasInForce
    BY DEF MatchInv, OneSnapshot, FeaturesAreListed, InForce, AttachedWasInForce
  <1> QED
    BY <1>1, <1>2, NextMatchInv, PTL DEF AlertsSpec

-----------------------------------------------------------------------------
(***************************************************************************)
(* The largest of some numbers: a set of numbers without one would have a  *)
(* smallest subset without one, which is smaller still without any of its  *)
(* elements.                                                               *)
(***************************************************************************)
\* Every finite set of numbers has a maximum, and Max is it.
LEMMA MaxOfFinite ==
  ASSUME NEW S, IsFiniteSet(S), S \subseteq Int, S # {}
  PROVE  Max(S) \in S /\ \A x \in S : x <= Max(S)
  <1> DEFINE HasMax(U) == \E m \in U : \A x \in U : x <= m
             T == {U \in SUBSET S : U # {} /\ ~HasMax(U)}
  <1>1. ASSUME T # {} PROVE FALSE
    <2>1. T \subseteq FiniteSubsetsOf(S)
      BY FS_Subset DEF FiniteSubsetsOf
    <2>2. PICK U \in T : \A V \in T : ~(<<V, U>> \in StrictSubsetOrdering(S))
      BY <1>1, <2>1, FS_StrictSubsetOrderingWellFounded, WFMin
    <2>3. PICK u \in U : TRUE
      OBVIOUS
    <2> DEFINE V == U \ {u}
    <2>4. V \notin T
      BY <2>2, <2>3 DEF StrictSubsetOrdering
    <2>5. CASE V = {}
      <3>1. U = {u} /\ u \in Int
        BY <2>3, <2>5
      <3> QED
        BY <3>1
    <2>6. ASSUME NEW m \in V, \A x \in V : x <= m PROVE FALSE
      <3>1. m \in Int /\ u \in Int /\ U \subseteq Int
        BY <2>3, <2>6
      <3>2. (\A x \in U : x <= m) \/ (\A x \in U : x <= u)
        BY <2>6, <3>1
      <3> QED
        BY <2>3, <3>2
    <2> QED
      BY <2>4, <2>5, <2>6
  <1>2. PICK m \in S : \A x \in S : x <= m
    BY <1>1
  <1>3. \E x \in S : \A y \in S : x >= y
    BY <1>2
  <1>4. Max(S) \in S /\ \A y \in S : Max(S) >= y
    BY <1>3 DEF Max
  <1> QED
    BY <1>4

-----------------------------------------------------------------------------
(***************************************************************************)
(* The alerts of StormProb (StormAlerts).                                  *)
(***************************************************************************)
StormRuns ==
    [pc: {"idle", "cleaning", "loading", "inferring", "publishing", "listed"},
     scan: Nat, ready: SUBSET Tracked, previous: [Tracked -> SUBSET Nat],
     outcome: [Tracked -> {"none", "success", "unswept", "error", "skipped"}],
     left: SUBSET Tracked, missed: SUBSET Tracked, since: Nat, unread: SUBSET issued]

StormType ==
    /\ clock \in Nat /\ alertFaults \in Nat
    /\ issued \subseteq [cell: Tracked, at: 0..LastClock] /\ alertFiles \subseteq issued
    /\ stormRun \in StormRuns

\* A scan in hand is of the past, as is its clean-up.
InTime ==
    /\ stormRun.since <= clock /\ clock <= LastClock
    /\ stormRun.pc # "idle" => stormRun.scan <= LastClock

\* An alert without its file has expired, and had when the attempt cleaned up.
GoneIsExpired ==
    \A a \in issued \ alertFiles :
        /\ a.at + Lifetime < clock
        /\ stormRun.pc \notin {"idle", "cleaning"} => a.at + Lifetime < stormRun.since

Loaded == stormRun.pc \in {"inferring", "publishing", "listed"}
Undecided(c) == stormRun.pc = "inferring" \/ (stormRun.pc = "publishing" /\ c \in stormRun.left)

\* What was loaded of a cell is on disk until the attempt is over, and of an undecided
\* cell no alert was issued later than that but such as it could not know of.
LoadedIsOnDisk ==
    Loaded => \A c \in Tracked : \A at \in stormRun.previous[c] : [cell |-> c, at |-> at] \in alertFiles
NothingElseMatters ==
    \A c \in Tracked : Undecided(c) =>
        \A a \in issued : a.cell = c =>
            \/ \E at \in stormRun.previous[c] : a.at <= at
            \/ a \in stormRun.unread
            \/ a.at + Lifetime < stormRun.since

\* A cell with a forecast that was dealt with has an alert, was held back or failed.
DealtWith ==
    stormRun.pc = "publishing" =>
        \A c \in Tracked \ stormRun.left :
            stormRun.outcome[c] = "success" =>
                c \in stormRun.missed \/ Suppressed(c) \/ AlertOf(c) \in alertFiles

StormInv ==
    /\ StormType /\ InTime /\ GoneIsExpired /\ LoadedIsOnDisk /\ NothingElseMatters /\ DealtWith
    /\ ForecastIsListed

\* The numbers behind the alerts.
LEMMA AlertTimes == StormType => \A a \in issued : a.at \in Nat /\ a.at <= LastClock /\ a.cell \in Tracked
  BY AlertAssumption DEF StormType

\* The latest alert of a cell, if it has one.
LEMMA LatestIsLatest ==
  ASSUME StormType, NEW c \in Tracked, NEW files \in SUBSET alertFiles
  PROVE  /\ LatestAlert(c, files) \subseteq Nat
         /\ \A at \in LatestAlert(c, files) : [cell |-> c, at |-> at] \in files
         /\ \A a \in files : a.cell = c => \E at \in LatestAlert(c, files) : a.at <= at
  <1> DEFINE times == {a.at : a \in {b \in files : b.cell = c}}
  <1>1. files \subseteq [cell: Tracked, at: 0..LastClock]
    BY DEF StormType
  <1>2. times \subseteq 0..LastClock /\ \A at \in times : [cell |-> c, at |-> at] \in files
    BY <1>1
  <1>3. IsFiniteSet(times) /\ times \subseteq Int /\ times \subseteq Nat
    <2>1. IsFiniteSet(0..LastClock) /\ 0..LastClock \subseteq Nat
      BY AlertAssumption, FS_Interval
    <2>2. times \in SUBSET (0..LastClock)
      BY <1>2
    <2>3. IsFiniteSet(times)
      BY <2>1, <2>2, FS_Subset
    <2> QED
      BY <2>1, <2>2, <2>3
  <1>4. CASE times = {}
    BY <1>4 DEF LatestAlert
  <1>5. CASE times # {}
    <2>1. Max(times) \in times /\ \A x \in times : x <= Max(times)
      BY <1>3, <1>5, MaxOfFinite
    <2>2. LatestAlert(c, files) = {Max(times)}
      BY <1>5 DEF LatestAlert
    <2> QED
      BY <1>2, <1>3, <2>1, <2>2
  <1> QED
    BY <1>4, <1>5

\* Nothing at first.
LEMMA InitStormInv == AlertInit => StormInv
  <1> SUFFICES ASSUME AlertInit PROVE StormInv
    OBVIOUS
  <1>1. AtRest \in StormRuns /\ AtRest.pc = "idle" /\ AtRest.since = 0
    BY DEF AtRest, StormRuns, Nobodys
  <1>2. stormRun = AtRest /\ issued = {} /\ alertFiles = {} /\ clock = 0 /\ alertFaults = 0
    BY DEF AlertInit
  <1> QED
    BY <1>1, <1>2, AlertAssumption DEF StormInv, StormType, InTime, GoneIsExpired, LoadedIsOnDisk, Loaded,
       NothingElseMatters, Undecided, DealtWith, ForecastIsListed

\* An attempt that is over leaves nothing to show but its alerts.
LEMMA AtRestKeeps ==
  ASSUME StormInv, UNCHANGED <<clock, alertFiles, issued>>, alertFaults' \in Nat, stormRun' = AtRest
  PROVE  StormInv'
  <1>1. AtRest \in StormRuns /\ AtRest.pc = "idle" /\ AtRest.since = 0
    BY DEF AtRest, StormRuns, Nobodys
  <1>2. StormType' /\ clock \in Nat
    BY <1>1 DEF StormInv, StormType, StormRuns
  <1>3. InTime' /\ GoneIsExpired'
    BY <1>1, <1>2 DEF StormInv, InTime, GoneIsExpired
  <1> QED
    BY <1>1, <1>2, <1>3 DEF StormInv, LoadedIsOnDisk, Loaded, NothingElseMatters, Undecided,
       DealtWith, ForecastIsListed

\* Time passes, or a scan is taken up, or old files go.
LEMMA ClockKeeps == StormInv /\ ClockRuns => StormInv'
  <1> SUFFICES ASSUME StormInv, ClockRuns PROVE StormInv'
    OBVIOUS
  <1>1. /\ UNCHANGED <<alertFiles, listing, issued, stormRun, alertFaults>>
        /\ clock' = clock + 1 /\ clock < LastClock
    BY DEF ClockRuns
  <1>2. StormType /\ clock \in Nat /\ stormRun.scan \in Nat /\ stormRun.since \in Nat
    BY DEF StormInv, StormType, StormRuns
  <1>3. StormType'
    BY <1>1, <1>2 DEF StormType, StormRuns
  <1>4. InTime'
    BY <1>1, <1>2, AlertAssumption DEF StormInv, InTime
  <1>5. GoneIsExpired'
    BY <1>1, <1>2, AlertTimes DEF StormInv, GoneIsExpired, Lifetime
  <1> QED
    BY <1>1, <1>3, <1>4, <1>5 DEF StormInv, LoadedIsOnDisk, Loaded, NothingElseMatters,
       Undecided, DealtWith, Suppressed, AlertOf, ForecastIsListed

LEMMA TakeScanKeeps ==
  ASSUME StormInv, NEW t \in Clocks, NEW ready \in SUBSET Tracked, TakeScan(t, ready)
  PROVE  StormInv'
  <1>1. /\ UNCHANGED <<clock, alertFiles, listing, issued, alertFaults>>
        /\ stormRun' = [AtRest EXCEPT !.pc = "cleaning", !.scan = t, !.ready = ready]
    BY DEF TakeScan
  <1>2. t \in Nat /\ t <= LastClock /\ clock \in Nat
    BY AlertAssumption DEF Clocks, StormInv, StormType
  <1>3. /\ stormRun' \in StormRuns /\ stormRun'.pc = "cleaning" /\ stormRun'.scan = t
        /\ stormRun'.since = 0
    BY <1>1, <1>2 DEF AtRest, StormRuns, Nobodys
  <1>4. StormType'
    BY <1>1, <1>3 DEF StormInv, StormType, StormRuns
  <1>5. InTime' /\ GoneIsExpired'
    BY <1>1, <1>2, <1>3 DEF StormInv, InTime, GoneIsExpired
  <1> QED
    BY <1>1, <1>3, <1>4, <1>5 DEF StormInv, LoadedIsOnDisk, Loaded,
       NothingElseMatters, Undecided, DealtWith, ForecastIsListed

LEMMA CleanUpKeeps == StormInv /\ CleanUpExpired => StormInv'
  <1> SUFFICES ASSUME StormInv, CleanUpExpired PROVE StormInv'
    OBVIOUS
  <1>1. PICK stay \in SUBSET {a \in alertFiles : Expired(a)} :
          /\ alertFiles' = {a \in alertFiles : ~Expired(a)} \cup stay
          /\ IF stay = {} THEN UNCHANGED alertFaults ELSE AlertFault
    BY DEF CleanUpExpired
  <1>2. /\ UNCHANGED <<clock, listing, issued>> /\ stormRun.pc = "cleaning"
        /\ stormRun' = [stormRun EXCEPT !.pc = "loading", !.since = clock]
    BY DEF CleanUpExpired
  <1>3. StormType /\ clock \in Nat /\ stormRun \in StormRuns /\ alertFaults' \in Nat
    BY <1>1 DEF AlertFault, StormInv, StormType
  <1>4. /\ stormRun' \in StormRuns /\ stormRun'.pc = "loading" /\ stormRun'.scan = stormRun.scan
        /\ stormRun'.since = clock
    BY <1>2, <1>3 DEF StormRuns
  <1>5. alertFiles' \subseteq alertFiles
    BY <1>1
  <1>6. StormType'
    BY <1>2, <1>3, <1>4, <1>5 DEF StormType, StormRuns
  <1>7. InTime'
    BY <1>2, <1>3, <1>4 DEF StormInv, InTime
  <1>8. ASSUME NEW a \in issued \ alertFiles' PROVE a.at + Lifetime < clock
    <2>1. CASE a \in alertFiles
      BY <1>1, <1>8, <2>1 DEF Expired
    <2>2. CASE a \notin alertFiles
      BY <2>2 DEF StormInv, GoneIsExpired
    <2> QED
      BY <2>1, <2>2
  <1>9. GoneIsExpired'
    BY <1>2, <1>4, <1>8 DEF GoneIsExpired
  <1> QED
    BY <1>2, <1>4, <1>6, <1>7, <1>9 DEF StormInv, LoadedIsOnDisk, Loaded,
       NothingElseMatters, Undecided, DealtWith, ForecastIsListed

LEMMA PreloadKeeps == StormInv /\ PreloadPrevious => StormInv'
  <1> SUFFICES ASSUME StormInv, PreloadPrevious PROVE StormInv'
    OBVIOUS
  <1>1. PICK skipped \in SUBSET alertFiles :
          /\ ReadingPassesOver(skipped)
          /\ stormRun' = [stormRun EXCEPT
                            !.pc = "inferring", !.unread = skipped,
                            !.previous = [c \in Tracked |-> LatestAlert(c, alertFiles \ skipped)]]
    BY DEF PreloadPrevious
  <1>2. /\ UNCHANGED <<clock, alertFiles, listing, issued>> /\ stormRun.pc = "loading"
        /\ alertFaults' \in Nat
    BY <1>1 DEF PreloadPrevious, ReadingPassesOver, AlertFault, StormInv, StormType
  <1>3. /\ StormType /\ clock \in Nat /\ stormRun \in StormRuns /\ alertFiles \subseteq issued
        /\ alertFiles \ skipped \in SUBSET alertFiles
    BY DEF StormInv, StormType
  <1> DEFINE latest == [c \in Tracked |-> LatestAlert(c, alertFiles \ skipped)]
  <1>4. latest \in [Tracked -> SUBSET Nat]
    BY <1>3, LatestIsLatest
  <1>5. /\ stormRun' \in StormRuns /\ stormRun'.pc = "inferring" /\ stormRun'.scan = stormRun.scan
        /\ stormRun'.since = stormRun.since /\ stormRun'.unread = skipped
        /\ stormRun'.previous = latest
    <2> HIDE DEF latest
    <2>1. stormRun' = [stormRun EXCEPT !.pc = "inferring", !.unread = skipped, !.previous = latest]
      BY <1>1 DEF latest
    <2> QED
      BY <1>3, <1>4, <2>1 DEF StormRuns
  <1>6. StormType'
    BY <1>2, <1>3, <1>5 DEF StormType, StormRuns
  <1>7. ASSUME NEW a \in issued, a.cell \in Tracked
        PROVE  \/ \E at \in stormRun'.previous[a.cell] : a.at <= at
               \/ a \in skipped
               \/ a.at + Lifetime < stormRun.since
    <2>1. CASE a \in alertFiles \ skipped
      BY <1>3, <1>5, <1>7, <2>1, LatestIsLatest
    <2>2. CASE a \in issued \ alertFiles
      BY <1>2, <2>2 DEF StormInv, GoneIsExpired
    <2> QED
      BY <2>1, <2>2
  <1>8. NothingElseMatters'
    BY <1>2, <1>5, <1>7 DEF NothingElseMatters
  <1>9. LoadedIsOnDisk'
    <2>1. \A c \in Tracked : \A at \in stormRun'.previous[c] : [cell |-> c, at |-> at] \in alertFiles
      BY <1>3, <1>5, LatestIsLatest
    <2> QED
      BY <1>2, <2>1 DEF LoadedIsOnDisk
  <1>10. InTime' /\ GoneIsExpired'
    BY <1>2, <1>5 DEF StormInv, InTime, GoneIsExpired
  <1> QED
    BY <1>5, <1>6, <1>8, <1>9, <1>10 DEF StormInv, DealtWith, ForecastIsListed

LEMMA RunBatchKeeps == StormInv /\ RunBatch => StormInv'
  <1> SUFFICES ASSUME StormInv, RunBatch PROVE StormInv'
    OBVIOUS
  <1>1. PICK outcome \in [Tracked -> {"success", "unswept", "error", "skipped"}] :
          stormRun' = [stormRun EXCEPT !.pc = "publishing", !.outcome = outcome, !.left = Tracked]
    BY DEF RunBatch
  <1>2. UNCHANGED <<clock, alertFiles, listing, issued, alertFaults>> /\ stormRun.pc = "inferring"
    BY DEF RunBatch
  <1>3. StormType /\ stormRun \in StormRuns
    BY DEF StormInv, StormType
  <1>4. /\ stormRun' \in StormRuns /\ stormRun'.pc = "publishing" /\ stormRun'.scan = stormRun.scan
        /\ stormRun'.previous = stormRun.previous /\ stormRun'.left = Tracked
        /\ stormRun'.since = stormRun.since /\ stormRun'.unread = stormRun.unread
    BY <1>1, <1>3 DEF StormRuns
  <1>5. StormType'
    BY <1>2, <1>3, <1>4 DEF StormType, StormRuns
  <1>6. NothingElseMatters'
    BY <1>2, <1>4 DEF StormInv, NothingElseMatters, Undecided
  <1> QED
    BY <1>2, <1>4, <1>5, <1>6 DEF StormInv, InTime, GoneIsExpired, LoadedIsOnDisk, Loaded,
       DealtWith, ForecastIsListed

\* A cell with a forecast that is not held back gets its alert.
LEMMA WriteKeeps ==
  ASSUME StormInv, NEW c \in Tracked, PublishAlert(c), stormRun.outcome[c] = "success",
         ~Suppressed(c), UNCHANGED alertFaults,
         alertFiles' = alertFiles \cup {AlertOf(c)}, issued' = issued \cup {AlertOf(c)},
         stormRun' = [stormRun EXCEPT !.left = @ \ {c}]
  PROVE  StormInv'
  <1>1. /\ UNCHANGED <<clock, listing, alertFaults>>
        /\ stormRun.pc = "publishing" /\ c \in stormRun.left
    BY DEF PublishAlert
  <1>2. StormType /\ stormRun \in StormRuns /\ stormRun.scan \in Nat
    BY DEF StormInv, StormType, StormRuns
  <1>3. /\ stormRun' \in StormRuns /\ stormRun'.pc = "publishing" /\ stormRun'.scan = stormRun.scan
        /\ stormRun'.previous = stormRun.previous /\ stormRun'.left = stormRun.left \ {c}
        /\ stormRun'.outcome = stormRun.outcome /\ stormRun'.missed = stormRun.missed
        /\ stormRun'.since = stormRun.since /\ stormRun'.unread = stormRun.unread
    BY <1>1, <1>2 DEF StormRuns
  <1>4. AlertOf(c).cell = c /\ AlertOf(c).at = stormRun.scan
        /\ AlertOf(c) \in [cell: Tracked, at: 0..LastClock]
    BY <1>1, <1>2, AlertAssumption DEF AlertOf, StormInv, InTime
  <1>5. StormType'
    BY <1>1, <1>2, <1>3, <1>4 DEF StormType, StormRuns
  <1>6. InTime' /\ LoadedIsOnDisk'
    BY <1>1, <1>3 DEF StormInv, InTime, LoadedIsOnDisk, Loaded
  <1>7. GoneIsExpired'
    BY <1>1, <1>3 DEF StormInv, GoneIsExpired
  <1>8. NothingElseMatters'
    BY <1>1, <1>3, <1>4 DEF StormInv, NothingElseMatters, Undecided
  <1>9. ASSUME NEW d \in Tracked \ stormRun'.left, stormRun'.outcome[d] = "success"
        PROVE  d \in stormRun'.missed \/ Suppressed(d)' \/ AlertOf(d)' \in alertFiles'
    <2>1. CASE d = c
      BY <1>3, <2>1 DEF AlertOf
    <2>2. CASE d # c
      <3>1. d \in stormRun.missed \/ Suppressed(d) \/ AlertOf(d) \in alertFiles
        BY <1>1, <1>3, <1>9, <2>2 DEF StormInv, DealtWith
      <3> QED
        BY <1>3, <3>1 DEF Suppressed, AlertOf
    <2> QED
      BY <2>1, <2>2
  <1>10. DealtWith'
    BY <1>9 DEF DealtWith
  <1> QED
    BY <1>3, <1>5, <1>6, <1>7, <1>8, <1>10 DEF StormInv, ForecastIsListed

\* A cell that is held back, has no forecast, or whose write fails.
LEMMA PassOverKeeps ==
  ASSUME StormInv, NEW c \in Tracked, PublishAlert(c), alertFaults' \in Nat,
         UNCHANGED <<alertFiles, issued>>, NEW M \in SUBSET {c},
         stormRun.outcome[c] = "success" /\ ~Suppressed(c) => c \in M,
         stormRun' = [stormRun EXCEPT !.left = @ \ {c}, !.missed = @ \cup M]
  PROVE  StormInv'
  <1>1. /\ UNCHANGED <<clock, listing>> /\ stormRun.pc = "publishing" /\ c \in stormRun.left
    BY DEF PublishAlert
  <1>2. StormType /\ stormRun \in StormRuns
    BY DEF StormInv, StormType
  <1>3. /\ stormRun' \in StormRuns /\ stormRun'.pc = "publishing" /\ stormRun'.scan = stormRun.scan
        /\ stormRun'.previous = stormRun.previous /\ stormRun'.left = stormRun.left \ {c}
        /\ stormRun'.outcome = stormRun.outcome /\ stormRun'.missed = stormRun.missed \cup M
        /\ stormRun'.since = stormRun.since /\ stormRun'.unread = stormRun.unread
    <2>1. stormRun.missed \cup M \in SUBSET Tracked /\ stormRun.left \ {c} \in SUBSET Tracked
      BY <1>2 DEF StormRuns
    <2> QED
      BY <1>1, <1>2, <2>1 DEF StormRuns
  <1>4. StormType'
    BY <1>1, <1>2, <1>3 DEF StormType, StormRuns
  <1>5. InTime' /\ GoneIsExpired' /\ LoadedIsOnDisk' /\ ForecastIsListed'
    BY <1>1, <1>3 DEF StormInv, InTime, GoneIsExpired, LoadedIsOnDisk, Loaded, ForecastIsListed
  <1>6. NothingElseMatters'
    BY <1>1, <1>3 DEF StormInv, NothingElseMatters, Undecided
  <1>7. DealtWith'
    BY <1>1, <1>3 DEF StormInv, DealtWith, Suppressed, AlertOf
  <1> QED
    BY <1>4, <1>5, <1>6, <1>7 DEF StormInv

LEMMA PublishKeeps == ASSUME StormInv, NEW c \in Tracked, PublishAlert(c) PROVE StormInv'
  <1>1. alertFaults \in Nat /\ stormRun \in StormRuns
    BY DEF StormInv, StormType
  <1>2. CASE stormRun.outcome[c] = "success" /\ ~Suppressed(c)
    <2>1. WriteAlert(AlertOf(c)) /\ AlertOf(c).cell = c
      BY <1>2 DEF PublishAlert, AlertOf
    <2>2. CASE /\ alertFiles' = alertFiles \cup {AlertOf(c)} /\ issued' = issued \cup {AlertOf(c)}
               /\ stormRun' = [stormRun EXCEPT !.left = @ \ {c}] /\ UNCHANGED alertFaults
      BY <1>2, <2>2, WriteKeeps
    <2>3. CASE /\ AlertFault /\ UNCHANGED <<alertFiles, issued>>
               /\ stormRun' = [stormRun EXCEPT !.left = @ \ {c}, !.missed = @ \cup {c}]
      <3>1. alertFaults' \in Nat
        BY <1>1, <2>3 DEF AlertFault
      <3> QED
        BY <2>3, <3>1, PassOverKeeps
    <2> QED
      BY <2>1, <2>2, <2>3 DEF WriteAlert
  <1>3. CASE ~(stormRun.outcome[c] = "success" /\ ~Suppressed(c))
    <2>1. stormRun' = [stormRun EXCEPT !.left = @ \ {c}] /\ UNCHANGED <<alertFiles, issued, alertFaults>>
      BY <1>3 DEF PublishAlert
    <2>2. stormRun' = [stormRun EXCEPT !.left = @ \ {c}, !.missed = @ \cup {}]
      BY <1>1, <2>1 DEF StormRuns
    <2>3. {} \in SUBSET {c} /\ alertFaults' \in Nat /\ UNCHANGED <<alertFiles, issued>>
      BY <1>1, <2>1
    <2>4. stormRun.outcome[c] = "success" /\ ~Suppressed(c) => c \in {}
      BY <1>3
    <2> QED
      BY ONLY StormInv, c \in Tracked, PublishAlert(c), <2>2, <2>3, <2>4, PassOverKeeps
  <1> QED
    BY <1>2, <1>3

\* The snapshot of the scan lists whatever was written for it or holds it back.
LEMMA CreateSnapshotKeeps == StormInv /\ CreateSnapshot => StormInv'
  <1> SUFFICES ASSUME StormInv, CreateSnapshot PROVE StormInv'
    OBVIOUS
  <1>1. PICK skipped \in SUBSET alertFiles :
          /\ ReadingPassesOver(skipped)
          /\ listing' = {a \in alertFiles \ skipped :
                          a.at <= stormRun.scan /\ stormRun.scan <= a.at + Lifetime}
          /\ stormRun' = [stormRun EXCEPT !.pc = "listed", !.unread = skipped]
    BY DEF CreateSnapshot
  <1>2. /\ UNCHANGED <<clock, alertFiles, issued>>
        /\ stormRun.pc = "publishing" /\ stormRun.left = {} /\ alertFaults' \in Nat
    BY <1>1 DEF CreateSnapshot, ReadingPassesOver, AlertFault, StormInv, StormType
  <1>3. StormType /\ stormRun \in StormRuns /\ stormRun.scan \in Nat /\ alertFiles \subseteq issued
        /\ \A c \in Tracked : \A at \in stormRun.previous[c] : at \in Nat
    BY DEF StormInv, StormType, StormRuns
  <1>4. /\ stormRun' \in StormRuns /\ stormRun'.pc = "listed" /\ stormRun'.scan = stormRun.scan
        /\ stormRun'.previous = stormRun.previous /\ stormRun'.unread = skipped
        /\ stormRun'.outcome = stormRun.outcome /\ stormRun'.missed = stormRun.missed
        /\ stormRun'.since = stormRun.since
    BY <1>1, <1>3 DEF StormRuns
  <1>5. ASSUME NEW a \in alertFiles, a.at \in Nat, a.at <= stormRun.scan,
               stormRun.scan < a.at + Cooldown
        PROVE  a \in listing' \cup skipped
    BY <1>1, <1>3, <1>5 DEF Cooldown, Lifetime
  <1>6. ASSUME NEW c \in Tracked, stormRun.outcome[c] = "success"
        PROVE  \/ c \in stormRun.missed
               \/ \E a \in listing' \cup skipped :
                    a.cell = c /\ a.at <= stormRun.scan /\ stormRun.scan < a.at + Cooldown
               \/ \E at \in stormRun.previous[c] : at > stormRun.scan
    <2>1. c \in stormRun.missed \/ Suppressed(c) \/ AlertOf(c) \in alertFiles
      BY <1>2, <1>6 DEF StormInv, DealtWith
    <2>2. CASE AlertOf(c) \in alertFiles
      <3>1. AlertOf(c).cell = c /\ AlertOf(c).at = stormRun.scan
        BY DEF AlertOf
      <3> QED
        BY <1>3, <1>5, <2>2, <3>1 DEF Cooldown
    <2>3. ASSUME NEW at \in stormRun.previous[c], stormRun.scan < at + Cooldown, at <= stormRun.scan
          PROVE  \E a \in listing' \cup skipped :
                   a.cell = c /\ a.at <= stormRun.scan /\ stormRun.scan < a.at + Cooldown
      <3>1. PICK a \in alertFiles : a = [cell |-> c, at |-> at]
        BY <1>2 DEF StormInv, LoadedIsOnDisk, Loaded
      <3>2. a.at = at /\ a.cell = c /\ at \in Nat
        BY <1>3, <3>1
      <3> QED
        BY <1>5, <2>3, <3>2
    <2> QED
      BY <1>3, <2>1, <2>2, <2>3 DEF Suppressed
  <1>7. ForecastIsListed'
    BY <1>4, <1>6 DEF ForecastIsListed
  <1>8. StormType'
    BY <1>2, <1>3, <1>4 DEF StormType, StormRuns
  <1>9. InTime' /\ GoneIsExpired' /\ LoadedIsOnDisk'
    BY <1>2, <1>4 DEF StormInv, InTime, GoneIsExpired, LoadedIsOnDisk, Loaded
  <1> QED
    BY <1>2, <1>4, <1>7, <1>8, <1>9 DEF StormInv, NothingElseMatters, Undecided, DealtWith

\* Every step keeps the invariant of the alerts.
LEMMA NextStormInv == StormInv /\ [AlertNext]_alertVars => StormInv'
  <1> SUFFICES ASSUME StormInv, [AlertNext]_alertVars PROVE StormInv'
    OBVIOUS
  <1>0. alertFaults \in Nat
    BY DEF StormInv, StormType
  <1>1. CASE AttemptOver \/ WorkerDies
    BY <1>0, <1>1, AtRestKeeps DEF AttemptOver, WorkerDies, AlertFault
  <1>2. CASE UNCHANGED alertVars
    BY <1>2 DEF alertVars, StormInv, StormType, StormRuns, InTime, GoneIsExpired, LoadedIsOnDisk,
       Loaded, NothingElseMatters, Undecided, DealtWith, Suppressed, AlertOf, ForecastIsListed
  <1> QED
    BY <1>1, <1>2, ClockKeeps, TakeScanKeeps, CleanUpKeeps, PreloadKeeps, RunBatchKeeps,
       PublishKeeps, CreateSnapshotKeeps DEF AlertNext

\* An alert is only issued by publish, for a cell that nothing known holds back.
LEMMA IssuedIsSpaced ==
  ASSUME StormInv, AlertNext, NEW new \in issued' \ issued, NEW a \in issued, a.cell = new.cell
  PROVE  a.at + Cooldown <= new.at \/ a \in stormRun.unread \/ a.at + Lifetime < stormRun.since
  <1>1. PICK c \in Tracked : PublishAlert(c)
    BY DEF AlertNext, ClockRuns, CleanUpExpired, PreloadPrevious, RunBatch, CreateSnapshot,
           AttemptOver, WorkerDies, TakeScan
  <1>2. stormRun.outcome[c] = "success" /\ ~Suppressed(c) /\ WriteAlert(AlertOf(c))
    BY <1>1 DEF PublishAlert
  <1>3. new.cell = c /\ new.at = stormRun.scan
    BY <1>2 DEF WriteAlert, AlertOf
  <1>4. stormRun.pc = "publishing" /\ c \in stormRun.left
    BY <1>1 DEF PublishAlert
  <1>5. /\ StormType /\ a.at \in Nat /\ stormRun.scan \in Nat
        /\ \A at \in stormRun.previous[c] : at \in Nat
    BY AlertTimes DEF StormInv, StormType, StormRuns
  <1>6. \/ \E at \in stormRun.previous[c] : a.at <= at
        \/ a \in stormRun.unread
        \/ a.at + Lifetime < stormRun.since
    BY <1>3, <1>4 DEF StormInv, NothingElseMatters, Undecided
  <1> QED
    BY <1>2, <1>3, <1>5, <1>6 DEF Suppressed, Cooldown

\* A cell does not get a second alert within the cooldown while the first is known, and a
\* cell with a forecast is in the list, over retries, failed cycles, restarts and scans
\* of any age and in any order (AlertManager, run_batch).
THEOREM AlertsSpacedAndListed == AlertSpec => AlertsAreSound
  <1> DEFINE Spaced ==
        \A new \in issued' \ issued, a \in issued :
            a.cell = new.cell =>
                \/ a.at + Cooldown <= new.at
                \/ a \in stormRun.unread
                \/ a.at + Lifetime < stormRun.since
  <1>1. StormInv /\ [AlertNext]_alertVars => [Spaced]_alertVars
    BY IssuedIsSpaced
  <1>2. StormInv => ForecastIsListed
    BY DEF StormInv
  <1> HIDE DEF Spaced
  <1>3. AlertSpec => []StormInv
    BY InitStormInv, NextStormInv, PTL DEF AlertSpec
  <1>4. AlertSpec => [][Spaced]_alertVars /\ []ForecastIsListed
    BY <1>1, <1>2, <1>3, PTL DEF AlertSpec
  <1> QED
    BY <1>4 DEF AlertsAreSound, AlertsAreSpaced, Spaced

-----------------------------------------------------------------------------
(***************************************************************************)
(* The granules of a scan (GlmIngest).                                     *)
(***************************************************************************)
\* Nothing but a transfer or the merge makes an attempt do with less than was listed.
GlmClean == glmFaults \cap {"granule", "merge"} = {}

GlmType ==
    /\ glm \in [pc: {"idle", "fetch", "delete"}, todo: SUBSET Granules, got: SUBSET Granules]
    /\ listedGlm \subseteq Granules

\* What was fetched and what is left are the list; what was merged is all of it.
FetchedIsListed ==
    /\ glm.pc = "fetch" => glm.got \cup glm.todo = listedGlm
    /\ glm.pc = "delete" => glm.got = listedGlm
    /\ handed \in {NoGranules, listedGlm}
GlmInv == GlmType /\ (glm.pc = "delete" => glm.got # {}) /\ (GlmClean => FetchedIsListed)

\* What integration is given of one file is that file, and of none nothing.
LEMMA HandOverOne ==
  ASSUME NEW f, f \subseteq Granules, f # {}, HandOver({f})
  PROVE  handed' = f
  <1>1. IsFiniteSet(f) /\ f \subseteq Int
    <2>1. f \in SUBSET Granules /\ f \subseteq Int
      BY GlmAssumption
    <2> QED
      BY <2>1, GlmAssumption, FS_Subset
  <1>2. Max(f) \in Int /\ Max(f) <= Max(f)
    BY <1>1, MaxOfFinite
  <1>3. handed' = CHOOSE g \in {f} : \A e \in {f} : Max(e) <= Max(g)
    BY DEF HandOver
  <1>4. \E g \in {f} : \A e \in {f} : Max(e) <= Max(g)
    BY <1>2
  <1> QED
    BY <1>3, <1>4

\* One granule at most: it is handed over as it is.
LEMMA HandOverFetched ==
  ASSUME NEW got, got \subseteq Granules, Cardinality(got) <= 1, HandOver({{g} : g \in got})
  PROVE  handed' = got
  <1>1. IsFiniteSet(got)
    BY GlmAssumption, FS_Subset
  <1>2. CASE got = {}
    BY <1>2 DEF HandOver, NoGranules
  <1>3. CASE got # {}
    <2>1. Cardinality(got) \in Nat /\ Cardinality(got) # 0
      BY <1>1, <1>3, FS_CardinalityType, FS_EmptySet
    <2>2. PICK g : got = {g}
      BY <1>1, <2>1, FS_Singleton
    <2>3. {{h} : h \in got} = {got}
      BY <2>2
    <2> QED
      BY <1>3, <2>3, HandOverOne
  <1> QED
    BY <1>2, <1>3

\* A step of the ingest of the granules.
LEMMA NextGlmInv == GlmInv /\ [GlmNext]_glmVars => GlmInv'
  <1> SUFFICES ASSUME GlmInv, [GlmNext]_glmVars PROVE GlmInv'
    OBVIOUS
  <1>0. GlmType /\ (glm.pc = "delete" => glm.got # {}) /\ (GlmClean => FetchedIsListed)
    BY DEF GlmInv
  <1>1. ASSUME UNCHANGED glmFaults PROVE GlmClean' = GlmClean
    BY <1>1 DEF GlmClean
  <1>2. CASE StartGlm
    <2>1. /\ listedGlm' \subseteq Granules /\ handed' = NoGranules /\ UNCHANGED glmFaults
          /\ glm' = [glm EXCEPT !.pc = "fetch", !.todo = listedGlm', !.got = {}]
      BY <1>2 DEF StartGlm
    <2>2. glm'.pc = "fetch" /\ glm'.todo = listedGlm' /\ glm'.got = {} /\ GlmType'
      BY <1>0, <2>1 DEF GlmType
    <2> QED
      BY <2>1, <2>2 DEF GlmInv, FetchedIsListed
  <1>3. ASSUME NEW g \in Granules, FetchGranule(g) PROVE GlmInv'
    <2>1. /\ UNCHANGED <<listedGlm, handed, glmFaults>> /\ g \in glm.todo /\ glm.pc = "fetch"
          /\ glm' = [glm EXCEPT !.todo = @ \ {g}, !.got = @ \cup {g}]
      BY <1>3 DEF FetchGranule
    <2>2. glm'.pc = "fetch" /\ glm'.todo = glm.todo \ {g} /\ glm'.got = glm.got \cup {g} /\ GlmType'
      BY <1>0, <2>1 DEF GlmType
    <2>3. glm'.got \cup glm'.todo = glm.got \cup glm.todo
      BY <2>1, <2>2
    <2> QED
      BY <1>0, <1>1, <2>1, <2>2, <2>3 DEF GlmInv, FetchedIsListed
  <1>4. CASE GranuleFails
    <2>1. ~GlmClean' /\ UNCHANGED listedGlm /\ glm' = [glm EXCEPT !.todo = {}] /\ glm.pc = "fetch"
      BY <1>4 DEF GranuleFails, GlmFault, GlmClean
    <2>2. glm'.pc = "fetch" /\ GlmType'
      BY <1>0, <2>1 DEF GlmType
    <2> QED
      BY <2>1, <2>2 DEF GlmInv
  <1>5. CASE MergeFails
    <2>1. ~GlmClean' /\ UNCHANGED listedGlm /\ glm' = NoGlm
      BY <1>5 DEF MergeFails, GlmFault, GlmClean
    <2>2. glm'.pc = "idle" /\ GlmType'
      BY <1>0, <2>1 DEF GlmType, NoGlm
    <2> QED
      BY <2>1, <2>2 DEF GlmInv
  <1>6. CASE MergeGranules
    <2>1. /\ glm.pc = "fetch" /\ glm.todo = {} /\ UNCHANGED <<listedGlm, glmFaults>>
          /\ glm.got \subseteq Granules
      BY <1>0, <1>6 DEF MergeGranules, GlmType
    <2>2. CASE Cardinality(glm.got) <= 1
      <3>1. glm' = NoGlm /\ HandOver({{g} : g \in glm.got})
        BY <1>6, <2>2 DEF MergeGranules
      <3>2. handed' = glm.got
        BY <2>1, <2>2, <3>1, HandOverFetched
      <3>3. glm'.pc = "idle" /\ GlmType'
        BY <1>0, <2>1, <3>1 DEF GlmType, NoGlm
      <3> QED
        BY <1>0, <1>1, <2>1, <3>2, <3>3 DEF GlmInv, FetchedIsListed
    <2>3. CASE ~(Cardinality(glm.got) <= 1)
      <3>1. glm' = [glm EXCEPT !.pc = "delete", !.todo = glm.got] /\ UNCHANGED handed
        BY <1>6, <2>3 DEF MergeGranules
      <3>2. glm'.pc = "delete" /\ glm'.got = glm.got /\ GlmType'
        BY <1>0, <2>1, <3>1 DEF GlmType
      <3>3. glm.got # {}
        BY <2>3, FS_EmptySet
      <3> QED
        BY <1>0, <1>1, <2>1, <3>1, <3>2, <3>3 DEF GlmInv, FetchedIsListed
    <2> QED
      BY <2>2, <2>3
  <1>7. ASSUME NEW g \in Granules, DeleteMerged(g) PROVE GlmInv'
    <2>1. /\ UNCHANGED <<listedGlm, handed, glmFaults>> /\ glm.pc = "delete"
          /\ glm' = [glm EXCEPT !.todo = @ \ {g}]
      BY <1>7 DEF DeleteMerged
    <2>2. glm'.pc = "delete" /\ glm'.got = glm.got /\ GlmType'
      BY <1>0, <2>1 DEF GlmType
    <2> QED
      BY <1>0, <1>1, <2>1, <2>2 DEF GlmInv, FetchedIsListed
  <1>8. CASE GlmDone
    <2>1. /\ UNCHANGED <<listedGlm, glmFaults>> /\ glm.pc = "delete" /\ glm' = NoGlm
          /\ HandOver({glm.got}) /\ glm.got \subseteq Granules /\ glm.got # {}
      BY <1>0, <1>8 DEF GlmDone, GlmType
    <2>2. handed' = glm.got
      BY <2>1, HandOverOne
    <2>3. glm'.pc = "idle" /\ GlmType'
      BY <1>0, <2>1 DEF GlmType, NoGlm
    <2> QED
      BY <1>0, <1>1, <2>1, <2>2, <2>3 DEF GlmInv, FetchedIsListed
  <1>9. ASSUME NEW kind \in {"crash", "retry"}, GlmInterrupted(kind) PROVE GlmInv'
    <2>1. UNCHANGED listedGlm /\ glm' = NoGlm /\ handed' = NoGranules
      BY <1>9 DEF GlmInterrupted
    <2>2. glm'.pc = "idle" /\ GlmType'
      BY <1>0, <2>1 DEF GlmType, NoGlm
    <2> QED
      BY <2>1, <2>2 DEF GlmInv, FetchedIsListed
  <1>10. CASE UNCHANGED glmVars
    BY <1>0, <1>10 DEF glmVars, GlmInv, GlmType, GlmClean, FetchedIsListed
  <1> QED
    BY <1>2, <1>3, <1>4, <1>5, <1>6, <1>7, <1>8, <1>9, <1>10 DEF GlmNext

\* Whatever a crash between fetch, merge and delete left on disk, what integration reads
\* is every granule that was listed for the scan, unless a transfer or the merge failed
\* (download_glm_for_scan, merge of the GLM files).
THEOREM GlmIsComplete == GlmSpec => []GlmCoversItsWindow
  <1>1. GlmInit => GlmInv
    BY DEF GlmInit, NoGlm, GlmInv, GlmType, FetchedIsListed, NoGranules
  <1>2. GlmInv => GlmCoversItsWindow
    BY DEF GlmInv, FetchedIsListed, GlmClean, GlmCoversItsWindow
  <1> QED
    BY <1>1, <1>2, NextGlmInv, PTL DEF GlmSpec

-----------------------------------------------------------------------------
(***************************************************************************)
(* The verdict on a module's inputs (CtamReadiness).  The catalogue is     *)
(* frozen and the files are not: a descriptor speaks of a file that may be *)
(* gone, so the invariant speaks of what each record was when described.   *)
(***************************************************************************)
WasReady(r) == r.file \in {"there", "gone"} /\ r.validated /\ r.aligned

\* A file of the manifest; it may be gone by now.
StagedRecords ==
    [product: PinnedProducts, role: Roles, validated: BOOLEAN, aligned: BOOLEAN,
     age: 0..1, file: {"there", "absent", "large", "gone"}]

ReadyType ==
    /\ stage \in {"parsing", "invalid", "cataloguing", "judging", "running", "recorded"}
    /\ minute \in Nat
    /\ wants.maxAge \in Nat /\ wants.minHistory \in Nat
    /\ staged \in Seq(StagedRecords)
    /\ host.history \in [Storms -> [file: {"there", "absent", "large", "damaged", "gone"}, states: Nat]]
    /\ DOMAIN host = {"snapshot", "history"}

\* What was described before it could be gone, and what was parsed.
NothingGoneYet == stage \in {"parsing", "cataloguing"} => \A i \in DOMAIN staged : staged[i].file # "gone"
Parsed ==
    stage \in {"cataloguing", "judging", "running"} =>
        (wants.minHistory # 0 => wants.selector.kind = "cell_history")

Judging == stage \in {"judging", "running"}
Describes(e, i) ==
    /\ e.kind = "input" /\ e.product = staged[i].product /\ e.role = staged[i].role
    /\ e.age = staged[i].age /\ (e.readiness = "ready" <=> WasReady(staged[i]))
EntriesDescribe ==
    /\ \A e \in entries : e.kind = "input" => \E i \in Described : Describes(e, i)
    /\ \A i \in Described : \E e \in entries : Describes(e, i)
HistoriesAreOfStorms == \A e \in entries : e.kind = "cell_history" => e.of \in Storms
AgesAreMinutes == \A e \in entries : e.age \in Nat

\* No verdict to come is better than the one that was acted on.
NoBetterLater == stage = "running" => (VerdictOf(minute) = "satisfied" => judged = "satisfied")
RecordIsLast == stage # "recorded" => recorded = "no"

ReadyInv ==
    /\ ReadyType /\ NothingGoneYet /\ Parsed
    /\ Judging => EntriesDescribe /\ HistoriesAreOfStorms /\ AgesAreMinutes
    /\ NoBetterLater /\ RecordIsLast /\ VerdictIsEarned /\ RecordIsNoBetter

\* The manifest as a sequence of records.
LEMMA StagedIsSequence ==
  ASSUME ReadyType
  PROVE  /\ DOMAIN staged = 1..Len(staged) /\ Len(staged) \in Nat
         /\ \A i \in DOMAIN staged : staged[i] \in StagedRecords
  BY DEF ReadyType

\* An input is served exactly if its record was ready when it was described; only the age
\* asked for can still stand against it.
LEMMA InputVerdict ==
  ASSUME ReadyType, Parsed, EntriesDescribe, stage \in {"judging", "running"},
         wants.selector.kind = "input"
  PROVE  /\ Satisfied(wants, minute) => Servable(wants.selector)
         /\ wants.maxAge = 0 /\ Servable(wants.selector) => Satisfied(wants, minute)
  <1>0. /\ DOMAIN staged = 1..Len(staged) /\ Len(staged) \in Nat /\ wants.minHistory = 0
        /\ wants.selector.kind # "cell_history"
    BY StagedIsSequence DEF Parsed
  <1>1. ASSUME Satisfied(wants, minute) PROVE Servable(wants.selector)
    <2>1. PICK e \in Resolve(wants.selector) : Qualifies(e, wants, minute)
      BY <1>1 DEF Satisfied
    <2>2. /\ e \in entries /\ e.kind = "input" /\ e.product = wants.selector.product
          /\ e.role = wants.selector.role /\ FamilyOf(e.product) = wants.selector.family
          /\ e.readiness = "ready"
      BY <2>1 DEF Resolve, Qualifies
    <2>3. PICK i \in Described : Describes(e, i)
      BY <2>2 DEF EntriesDescribe
    <2>4. /\ i \in DOMAIN staged /\ WasReady(staged[i])
          /\ staged[i].product = wants.selector.product /\ staged[i].role = wants.selector.role
          /\ \A j \in 1..(i - 1) :
               <<staged[j].product, staged[j].role>> # <<staged[i].product, staged[i].role>>
      BY <2>2, <2>3 DEF Described, Describes
    <2>5. ASSUME NEW j \in DOMAIN staged, j < i
          PROVE  staged[j].product # wants.selector.product \/ staged[j].role # wants.selector.role
      <3>1. j \in 1..(i - 1)
        BY <1>0, <2>4, <2>5
      <3> QED
        BY <2>4, <3>1
    <2> QED
      BY <2>2, <2>4, <2>5 DEF Servable, WasReady
  <1>2. ASSUME wants.maxAge = 0, Servable(wants.selector) PROVE Satisfied(wants, minute)
    <2>1. PICK i \in DOMAIN staged :
            /\ staged[i].product = wants.selector.product /\ staged[i].role = wants.selector.role
            /\ \A j \in DOMAIN staged :
                j < i => staged[j].product # wants.selector.product
                         \/ staged[j].role # wants.selector.role
            /\ WasReady(staged[i]) /\ FamilyOf(wants.selector.product) = wants.selector.family
      BY <1>2 DEF Servable, WasReady
    <2>2. i \in Described
      <3> SUFFICES ASSUME NEW j \in 1..(i - 1)
                   PROVE  <<staged[j].product, staged[j].role>> # <<staged[i].product, staged[i].role>>
        BY DEF Described
      <3>1. j \in DOMAIN staged /\ j < i
        BY <1>0
      <3> QED
        BY <2>1, <3>1
    <2>3. PICK e \in entries : Describes(e, i)
      BY <2>2 DEF EntriesDescribe
    <2>4. e \in Resolve(wants.selector) /\ e.readiness = "ready"
      BY <2>1, <2>3 DEF Resolve, Describes
    <2> QED
      BY <1>0, <1>2, <2>4 DEF Satisfied, Qualifies
  <1> QED
    BY <1>1, <1>2

\* What satisfies a requirement later satisfied it before: time passes and files go.
LEMMA VerdictsOnlyFall ==
  ASSUME ReadyType, Parsed, HistoriesAreOfStorms, AgesAreMinutes,
         stage \in {"judging", "running"},
         UNCHANGED <<entries, wants>>, minute' \in Nat, minute <= minute',
         \A c \in Storms : host'.history[c].states \in Nat
                           /\ host'.history[c].states <= host.history[c].states,
         VerdictOf(minute)' = "satisfied"
  PROVE  VerdictOf(minute) = "satisfied"
  <1> SUFFICES ASSUME wants.required PROVE Satisfied(wants, minute)
    BY DEF VerdictOf
  <1>0. Satisfied(wants, minute)'
    BY DEF VerdictOf
  <1>1. PICK e \in Resolve(wants.selector)' : Qualifies(e, wants, minute)'
    BY <1>0 DEF Satisfied
  <1>2. e \in Resolve(wants.selector) /\ e \in entries /\ e.kind = wants.selector.kind
    BY <1>1 DEF Resolve
  <1>3. /\ e.readiness = "ready" /\ (wants.maxAge # 0 => minute' + e.age <= wants.maxAge)
        /\ (wants.minHistory # 0 => StatesOf(e.of)' >= wants.minHistory)
    BY <1>1 DEF Qualifies
  <1>4. e.age \in Nat /\ minute \in Nat /\ wants.maxAge \in Nat /\ wants.minHistory \in Nat
    BY <1>2 DEF AgesAreMinutes, ReadyType
  <1>5. wants.maxAge # 0 => minute + e.age <= wants.maxAge
    BY <1>3, <1>4
  <1>6. wants.minHistory # 0 => StatesOf(e.of) >= wants.minHistory
    <2> SUFFICES ASSUME wants.minHistory # 0 PROVE StatesOf(e.of) >= wants.minHistory
      OBVIOUS
    <2>1. e.of \in Storms
      BY <1>2 DEF Parsed, HistoriesAreOfStorms
    <2>2. /\ host'.history[e.of].states <= host.history[e.of].states
          /\ host'.history[e.of].states \in Nat /\ host.history[e.of].states \in Nat
      BY <2>1 DEF ReadyType
    <2>3. StatesOf(e.of)' >= wants.minHistory
      BY <1>3
    <2> QED
      BY <1>4, <2>2, <2>3, ReadyAssumption DEF StatesOf
  <1> QED
    BY <1>2, <1>3, <1>5, <1>6 DEF Satisfied, Qualifies

\* At the start nothing is gone and nothing has been judged.
LEMMA InitReadyInv == ReadyInit => ReadyInv
  <1> SUFFICES ASSUME ReadyInit PROVE ReadyInv
    OBVIOUS
  <1>0. /\ stage = "parsing" /\ minute = 0 /\ judged = "no" /\ recorded = "no"
        /\ wants \in Wants /\ staged \in Seq(Records)
        /\ host \in [snapshot: Snapshots, history: [Storms -> HistoryReadings]]
    BY ReadyAssumption DEF ReadyInit
  <1>1. wants.maxAge \in Nat /\ wants.minHistory \in Nat
    BY <1>0, ReadyAssumption DEF Wants
  <1>2. /\ staged \in Seq(StagedRecords)
        /\ \A i \in DOMAIN staged : staged[i].file # "gone"
    <2>1. Records \subseteq StagedRecords /\ \A r \in Records : r.file # "gone"
      BY DEF Records, StagedRecords
    <2>2. \A i \in 1..Len(staged) : staged[i] \in Records
      BY <1>0
    <2>3. staged \in [1..Len(staged) -> Records] /\ Len(staged) \in Nat
      BY <1>0
    <2>4. staged \in [1..Len(staged) -> StagedRecords]
      BY <2>1, <2>3
    <2> QED
      BY <2>1, <2>2, <2>3, <2>4
  <1>3. /\ host.history \in [Storms -> [file: {"there", "absent", "large", "damaged", "gone"}, states: Nat]]
        /\ DOMAIN host = {"snapshot", "history"}
    <2>1. HistoryReadings \subseteq [file: {"there", "absent", "large", "damaged", "gone"}, states: Nat]
      BY ReadyAssumption DEF HistoryReadings, Absent
    <2>2. host.history \in [Storms -> HistoryReadings]
      BY <1>0
    <2> QED
      BY <1>0, <2>1, <2>2
  <1> QED
    BY <1>0, <1>1, <1>2, <1>3 DEF ReadyInv, ReadyType, NothingGoneYet, Parsed, Judging,
       NoBetterLater, RecordIsLast, VerdictIsEarned, RecordIsNoBetter

\* A requirement that does not parse stops the module; one that does says what it may ask.
LEMMA ParseKeeps == ReadyInv /\ ParseManifest => ReadyInv'
  <1> SUFFICES ASSUME ReadyInv, ParseManifest PROVE ReadyInv'
    OBVIOUS
  <1>0. /\ stage = "parsing" /\ stage' \in {"cataloguing", "invalid"}
        /\ UNCHANGED <<wants, minute, staged, host, entries, judged, recorded>>
    BY DEF ParseManifest
  <1>1. stage' = "cataloguing" => (wants.minHistory # 0 => wants.selector.kind = "cell_history")
    BY DEF ParseManifest, Parses
  <1>2. (ReadyType /\ NothingGoneYet)'
    BY <1>0 DEF ReadyInv, ReadyType, NothingGoneYet
  <1> QED
    BY <1>0, <1>1, <1>2 DEF ReadyInv, Parsed, Judging, NoBetterLater, RecordIsLast,
       VerdictIsEarned, RecordIsNoBetter

\* The catalogue describes each first record as it was found.
LEMMA BuildKeeps == ReadyInv /\ BuildCatalog => ReadyInv'
  <1> SUFFICES ASSUME ReadyInv, BuildCatalog PROVE ReadyInv'
    OBVIOUS
  <1>0. /\ stage = "cataloguing" /\ stage' = "judging"
        /\ UNCHANGED <<wants, minute, staged, host, judged, recorded>>
        /\ entries' = {InputEntry(staged[i]) : i \in Described}
             \cup {HostEntry("stormcells", "current", 0, SnapshotReadiness)}
             \cup {HostEntry("cell_history", "history", c, HistoryReadiness(c)) : c \in Storms}
    BY DEF BuildCatalog
  <1>1. ReadyType /\ Parsed /\ RecordIsLast /\ RecordIsNoBetter
        /\ \A i \in DOMAIN staged : staged[i].file # "gone"
    BY <1>0 DEF ReadyInv, NothingGoneYet
  <1>2. \A i \in Described : i \in DOMAIN staged /\ staged[i] \in StagedRecords
    BY <1>1, StagedIsSequence DEF Described
  <1>3. Described' = Described
    BY <1>0 DEF Described
  <1>4. ASSUME NEW i \in Described, NEW e \in entries', e = InputEntry(staged[i])
        PROVE  Describes(e, i)'
    BY <1>0, <1>1, <1>2, <1>4 DEF Describes, InputEntry, InputReadiness, WasReady, StagedRecords
  <1>5. \A e \in entries' :
          \/ \E i \in Described : e = InputEntry(staged[i])
          \/ e = HostEntry("stormcells", "current", 0, SnapshotReadiness)
          \/ \E c \in Storms : e = HostEntry("cell_history", "history", c, HistoryReadiness(c))
    BY <1>0
  <1>6. EntriesDescribe'
    <2>1. ASSUME NEW e \in entries', e.kind = "input"
          PROVE  \E i \in Described : Describes(e, i)'
      <3>1. PICK i \in Described : e = InputEntry(staged[i])
        BY <1>5, <2>1 DEF HostEntry
      <3> QED
        BY <1>4, <3>1
    <2>2. ASSUME NEW i \in Described PROVE \E e \in entries' : Describes(e, i)'
      <3>1. InputEntry(staged[i]) \in entries'
        BY <1>0
      <3> QED
        BY <1>4, <3>1
    <2> QED
      BY <1>3, <2>1, <2>2 DEF EntriesDescribe
  <1>7. HistoriesAreOfStorms'
    BY <1>5 DEF HistoriesAreOfStorms, InputEntry, HostEntry
  <1>8. AgesAreMinutes'
    BY <1>2, <1>5 DEF AgesAreMinutes, InputEntry, HostEntry, StagedRecords
  <1>9. (ReadyType /\ NothingGoneYet /\ Parsed /\ NoBetterLater /\ RecordIsLast
         /\ VerdictIsEarned /\ RecordIsNoBetter)'
    BY <1>0, <1>1 DEF ReadyType, NothingGoneYet, Parsed, NoBetterLater, RecordIsLast,
       VerdictIsEarned, RecordIsNoBetter
  <1> QED
    BY <1>6, <1>7, <1>8, <1>9 DEF ReadyInv

\* The module is judged by what its inputs were when described.
LEMMA JudgeKeeps == ReadyInv /\ Judge => ReadyInv'
  <1> SUFFICES ASSUME ReadyInv, Judge PROVE ReadyInv'
    OBVIOUS
  <1>0. /\ stage = "judging" /\ stage' = "running" /\ judged' = VerdictOf(minute)
        /\ UNCHANGED <<wants, minute, staged, host, entries, recorded>>
    BY DEF Judge
  <1>1. /\ ReadyType /\ Parsed /\ EntriesDescribe /\ HistoriesAreOfStorms /\ AgesAreMinutes
        /\ recorded = "no"
    BY <1>0 DEF ReadyInv, Judging, RecordIsLast
  <1>2. VerdictOf(minute)' = VerdictOf(minute) /\ Described' = Described
    BY <1>0 DEF VerdictOf, Satisfied, Resolve, Qualifies, StatesOf, Described
  <1>3. VerdictIsEarned'
    <2> SUFFICES ASSUME wants.selector.kind = "input", wants.required
                 PROVE  /\ judged' = "satisfied" => Servable(wants.selector)
                        /\ wants.maxAge = 0 /\ Servable(wants.selector) => judged' = "satisfied"
      BY <1>0 DEF VerdictIsEarned, Servable
    <2>1. VerdictOf(minute) = "satisfied" <=> Satisfied(wants, minute)
      BY DEF VerdictOf
    <2> QED
      BY <1>0, <1>1, <2>1, InputVerdict
  <1>4. (EntriesDescribe /\ HistoriesAreOfStorms /\ AgesAreMinutes)'
    BY <1>0, <1>1, <1>2 DEF EntriesDescribe, Describes, HistoriesAreOfStorms, AgesAreMinutes
  <1>5. (ReadyType /\ NothingGoneYet /\ Parsed /\ NoBetterLater /\ RecordIsLast /\ RecordIsNoBetter)'
    BY <1>0, <1>1, <1>2 DEF ReadyType, NothingGoneYet, Parsed, NoBetterLater, RecordIsLast,
       RecordIsNoBetter
  <1> QED
    BY <1>3, <1>4, <1>5 DEF ReadyInv

\* The record is judged by the same catalogue, later.
LEMMA RecordKeeps == ReadyInv /\ RecordStatus => ReadyInv'
  <1> SUFFICES ASSUME ReadyInv, RecordStatus PROVE ReadyInv'
    OBVIOUS
  <1>0. /\ stage = "running" /\ stage' = "recorded" /\ recorded' = VerdictOf(minute)
        /\ UNCHANGED <<wants, minute, staged, host, entries, judged>>
    BY DEF RecordStatus
  <1>1. RecordIsNoBetter'
    BY <1>0 DEF ReadyInv, NoBetterLater, RecordIsNoBetter
  <1> QED
    BY <1>0, <1>1 DEF ReadyInv, ReadyType, NothingGoneYet, Parsed, Judging, NoBetterLater,
       RecordIsLast, VerdictIsEarned

\* Time passes: an input may become too old, none becomes young again.
LEMMA TickKeeps == ReadyInv /\ Tick => ReadyInv'
  <1> SUFFICES ASSUME ReadyInv, Tick PROVE ReadyInv'
    OBVIOUS
  <1>0. /\ minute' = minute + 1 /\ minute \in Nat
        /\ UNCHANGED <<wants, stage, staged, host, entries, judged, recorded>>
    BY DEF Tick, ReadyInv, ReadyType
  <1>1. NoBetterLater'
    <2> SUFFICES ASSUME stage = "running", VerdictOf(minute)' = "satisfied"
                 PROVE  judged = "satisfied"
      BY <1>0 DEF NoBetterLater
    <2>1. ReadyType /\ Parsed /\ HistoriesAreOfStorms /\ AgesAreMinutes /\ NoBetterLater
      BY DEF ReadyInv, Judging
    <2>2. \A c \in Storms : host'.history[c].states \in Nat
                            /\ host'.history[c].states <= host.history[c].states
      BY <1>0, <2>1 DEF ReadyType
    <2>3. minute' \in Nat /\ minute <= minute'
      BY <1>0
    <2>4. VerdictOf(minute) = "satisfied"
      BY <1>0, <2>1, <2>2, <2>3, VerdictsOnlyFall
    <2> QED
      BY <2>1, <2>4 DEF NoBetterLater
  <1>2. (ReadyType /\ NothingGoneYet /\ Parsed /\ RecordIsLast /\ VerdictIsEarned /\ RecordIsNoBetter)'
    BY <1>0 DEF ReadyInv, ReadyType, NothingGoneYet, Parsed, RecordIsLast, VerdictIsEarned,
       RecordIsNoBetter, Servable
  <1>3. (Judging => EntriesDescribe /\ HistoriesAreOfStorms /\ AgesAreMinutes)'
    BY <1>0 DEF ReadyInv, Judging, EntriesDescribe, Describes, Described, HistoriesAreOfStorms,
       AgesAreMinutes
  <1> QED
    BY <1>1, <1>2, <1>3 DEF ReadyInv

\* A history deleted: it holds no states any more.
LEMMA HistoryDeletedKeeps == ASSUME ReadyInv, NEW c \in Storms, HistoryDeleted(c) PROVE ReadyInv'
  <1>0. /\ host' = [host EXCEPT !.history[c] = [file |-> Deleted, states |-> 0]]
        /\ UNCHANGED <<wants, stage, minute, staged, entries, judged, recorded>>
    BY DEF HistoryDeleted
  <1>1. ReadyType
    BY DEF ReadyInv
  <1>2. /\ DOMAIN host' = {"snapshot", "history"}
        /\ host'.history = [host.history EXCEPT ![c] = [file |-> Deleted, states |-> 0]]
    BY <1>0, <1>1 DEF ReadyType
  <1>3. /\ host'.history \in [Storms -> [file: {"there", "absent", "large", "damaged", "gone"}, states: Nat]]
        /\ \A d \in Storms : host'.history[d].states \in Nat
                             /\ host'.history[d].states <= host.history[d].states
    BY <1>1, <1>2 DEF ReadyType, Deleted
  <1>4. NoBetterLater'
    <2> SUFFICES ASSUME stage = "running", VerdictOf(minute)' = "satisfied"
                 PROVE  judged = "satisfied"
      BY <1>0 DEF NoBetterLater
    <2>1. Parsed /\ HistoriesAreOfStorms /\ AgesAreMinutes /\ NoBetterLater
      BY DEF ReadyInv, Judging
    <2>2. minute' \in Nat /\ minute <= minute'
      BY <1>0, <1>1 DEF ReadyType
    <2>3. VerdictOf(minute) = "satisfied"
      BY <1>0, <1>1, <1>3, <2>1, <2>2, VerdictsOnlyFall
    <2> QED
      BY <2>1, <2>3 DEF NoBetterLater
  <1>5. (NothingGoneYet /\ Parsed /\ RecordIsLast /\ VerdictIsEarned /\ RecordIsNoBetter)'
    BY <1>0 DEF ReadyInv, NothingGoneYet, Parsed, RecordIsLast, VerdictIsEarned,
       RecordIsNoBetter, Servable
  <1>6. (Judging => EntriesDescribe /\ HistoriesAreOfStorms /\ AgesAreMinutes)'
    BY <1>0 DEF ReadyInv, Judging, EntriesDescribe, Describes, Described, HistoriesAreOfStorms,
       AgesAreMinutes
  <1>7. ReadyType'
    BY <1>0, <1>1, <1>2, <1>3 DEF ReadyType
  <1> QED
    BY <1>4, <1>5, <1>6, <1>7 DEF ReadyInv

\* An input deleted: once described, what its record was does not change.
LEMMA InputDeletedKeeps ==
  ASSUME ReadyInv, NEW n \in DOMAIN staged, InputDeleted(n) PROVE ReadyInv'
  <1>0. /\ staged' = [staged EXCEPT ![n].file = Deleted] /\ staged[n].file = "there"
        /\ stage \in {"cataloguing", "judging", "running"}
        /\ UNCHANGED <<wants, stage, minute, host, entries, judged, recorded>>
    BY DEF InputDeleted
  <1>1. ReadyType
    BY DEF ReadyInv
  <1>2. /\ DOMAIN staged = 1..Len(staged) /\ Len(staged) \in Nat
        /\ \A i \in DOMAIN staged : staged[i] \in StagedRecords
    BY <1>1, StagedIsSequence
  <1>3. /\ [staged[n] EXCEPT !.file = Deleted] \in StagedRecords
        /\ staged' = [staged EXCEPT ![n] = [staged[n] EXCEPT !.file = Deleted]]
    BY <1>0, <1>2 DEF StagedRecords, Deleted
  <1>4. /\ DOMAIN staged' = DOMAIN staged
        /\ staged'[n] = [staged[n] EXCEPT !.file = Deleted]
        /\ \A i \in DOMAIN staged : i # n => staged'[i] = staged[i]
        /\ staged' \in Seq(StagedRecords)
    <2>1. staged \in Seq(StagedRecords)
      BY <1>1 DEF ReadyType
    <2>2. \A i \in 1..Len(staged) : i # n => staged'[i] = staged[i]
      BY <1>2, <1>3
    <2>3. staged' \in Seq(StagedRecords) /\ Len(staged') = Len(staged) /\ staged'[n] = [staged[n] EXCEPT !.file = Deleted]
      BY <1>2, <1>3, <2>1, ExceptSeq
    <2> QED
      BY <1>2, <2>2, <2>3
  <1>5. \A i \in DOMAIN staged :
          /\ staged'[i].product = staged[i].product /\ staged'[i].role = staged[i].role
          /\ staged'[i].age = staged[i].age
          /\ staged'[i].validated = staged[i].validated /\ staged'[i].aligned = staged[i].aligned
          /\ staged'[i].file = IF i = n THEN Deleted ELSE staged[i].file
    BY <1>2, <1>4 DEF StagedRecords
  <1>6. stage # "cataloguing" =>
          \A i \in DOMAIN staged :
            staged'[i].file \in {"there", "gone"} <=> staged[i].file \in {"there", "gone"}
    BY <1>0, <1>5 DEF Deleted
  <1>7. Described' = Described /\ Described \subseteq DOMAIN staged
    <2>1. \A i \in DOMAIN staged : \A j \in 1..(i - 1) : j \in DOMAIN staged
      BY <1>2
    <2> QED
      BY <1>4, <1>5, <2>1 DEF Described
  <1>8. NothingGoneYet'
    BY <1>0, <1>4, <1>5 DEF NothingGoneYet, ReadyInv, Deleted
  <1>9. (Judging => EntriesDescribe /\ HistoriesAreOfStorms /\ AgesAreMinutes)'
    <2> SUFFICES ASSUME Judging PROVE (EntriesDescribe /\ HistoriesAreOfStorms /\ AgesAreMinutes)'
      BY <1>0 DEF Judging
    <2>1. EntriesDescribe /\ HistoriesAreOfStorms /\ AgesAreMinutes
      BY DEF ReadyInv
    <2>2. \A e \in entries : \A i \in Described : Describes(e, i) => Describes(e, i)'
      BY <1>0, <1>5, <1>6, <1>7 DEF Describes, WasReady, Judging
    <2> QED
      BY <1>0, <1>7, <2>1, <2>2 DEF EntriesDescribe, HistoriesAreOfStorms, AgesAreMinutes
  <1>10. VerdictIsEarned'
    <2>1. stage = "running" => (Servable(wants.selector) <=> Servable(wants.selector)')
      BY <1>0, <1>4, <1>5, <1>6 DEF Servable
    <2> QED
      BY <1>0, <2>1 DEF ReadyInv, VerdictIsEarned
  <1>11. NoBetterLater'
    <2>1. VerdictOf(minute)' = VerdictOf(minute)
      BY <1>0 DEF VerdictOf, Satisfied, Resolve, Qualifies, StatesOf
    <2> QED
      BY <1>0, <2>1 DEF ReadyInv, NoBetterLater
  <1>12. (ReadyType /\ Parsed /\ RecordIsLast /\ RecordIsNoBetter)'
    BY <1>0, <1>1, <1>4 DEF ReadyInv, ReadyType, Parsed, RecordIsLast, RecordIsNoBetter
  <1> QED
    BY <1>8, <1>9, <1>10, <1>11, <1>12 DEF ReadyInv

\* One step, of the cycle, the clock or a cleanup.
LEMMA NextReadyInv == ReadyInv /\ [ReadyNext]_readyVars => ReadyInv'
  <1>1. ReadyInv /\ UNCHANGED readyVars => ReadyInv'
    BY DEF readyVars, ReadyInv, ReadyType, NothingGoneYet, Parsed, Judging, EntriesDescribe,
       Describes, Described, WasReady, HistoriesAreOfStorms, AgesAreMinutes, NoBetterLater, RecordIsLast,
       VerdictIsEarned, RecordIsNoBetter, Servable, VerdictOf, Satisfied, Resolve, Qualifies,
       StatesOf
  <1> QED
    BY <1>1, ParseKeeps, BuildKeeps, JudgeKeeps, RecordKeeps, TickKeeps, InputDeletedKeeps,
       HistoryDeletedKeeps DEF ReadyNext

\* Whatever is deleted and however late it gets: a required input satisfies a module
\* exactly if its first record was readable, validated and of this cycle when described
\* (age permitting), and the status record never says better of a module than the verdict
\* that was acted on (readiness.py).
THEOREM VerdictsAreEarned == ReadySpec => []VerdictsAreSound
  <1>1. ReadyInv => VerdictsAreSound
    BY DEF ReadyInv, VerdictsAreSound
  <1> QED
    BY <1>1, InitReadyInv, NextReadyInv, PTL DEF ReadySpec


-----------------------------------------------------------------------------
(***************************************************************************)
(* The cells of a scan (CellDetection).  Nothing is assumed of the order   *)
(* of flooding, nor of which gates are adjacent: a flood starts only from  *)
(* cores, each core keeps its polygon, and what a flood reaches rain leads *)
(* to from the core it started from.                                       *)
(***************************************************************************)
DetectionType ==
    /\ radar \in [Gates -> Levels] /\ drawn \in [Gates -> Polygons \cup {0}]
    /\ detected \in BOOLEAN

DetectionInv == DetectionType /\ CellsAreTheirStorms

\* The maximum of some numbers and 0.
LEMMA MaxOfNumbers ==
  ASSUME NEW S, IsFiniteSet(S), S \subseteq Int
  PROVE  MaxOf(S) \in Int /\ MaxOf(S) \in S \cup {0} /\ (\A x \in S : x <= MaxOf(S)) /\ 0 <= MaxOf(S)
  <1>1. IsFiniteSet(S \cup {0}) /\ S \cup {0} \subseteq Int /\ S \cup {0} # {}
    BY FS_AddElement
  <1>2. Max(S \cup {0}) \in S \cup {0} /\ \A x \in S \cup {0} : x <= Max(S \cup {0})
    BY <1>1, MaxOfFinite
  <1> QED
    BY <1>1, <1>2 DEF MaxOf

\* What the radar shows is a number.
LEMMA RadarIsNumbers == DetectionType => \A g \in Gates : radar[g] \in Nat
  <1> SUFFICES ASSUME DetectionType, NEW g \in Gates PROVE radar[g] \in Nat
    OBVIOUS
  <1>1. radar[g] \in Levels
    BY DEF DetectionType
  <1> QED
    BY <1>1, DetectionAssumption

LEMMA SomeGates == ASSUME NEW S \in SUBSET Gates PROVE IsFiniteSet(S) /\ Cardinality(S) \in Nat
  BY FS_Subset, FS_CardinalityType, DetectionAssumption

\* The share of a polygon in the crop is that of the configuration.
LEMMA ValidIsSeeded ==
  ASSUME DetectionType, NEW id \in Polygons
  PROVE  id \in Valid <=> Seeded(id)
  <1> DEFINE seeds == {h \in Inside(id) : radar[h] >= BaselineFloor}
             area == Inside(id) \cap Crop[StrongGates]
  <1>1. StrongGates \in SUBSET Gates /\ StrongGates \subseteq Crop[StrongGates]
    BY DetectionAssumption DEF StrongGates
  <1>2. Inside(id) \in SUBSET Gates /\ area = Cropped(id)
    BY DEF Inside, Cropped
  <1>3. seeds = Cropped(id) \cap StrongGates
    BY <1>1, <1>2 DEF StrongGates
  <1>4. seeds \in SUBSET Gates /\ area \in SUBSET Gates /\ seeds \subseteq area
    BY <1>2, <1>3
  <1>5. /\ IsFiniteSet(seeds) /\ Cardinality(seeds) \in Nat
        /\ IsFiniteSet(area) /\ Cardinality(area) \in Nat /\ SeedShare \in Nat
    BY <1>4, SomeGates, DetectionAssumption
  <1>6. ASSUME area # {}, Cardinality(seeds) * SeedShare >= Cardinality(area) PROVE seeds # {}
    <2>1. Cardinality(area) # 0
      BY <1>5, <1>6, FS_EmptySet
    <2>2. Cardinality(seeds) # 0
      <3> SUFFICES ASSUME Cardinality(seeds) = 0 PROVE FALSE
        OBVIOUS
      <3>1. Cardinality(seeds) * SeedShare = 0
        BY <1>5
      <3> QED
        BY <1>5, <1>6, <2>1, <3>1
    <2> QED
      BY <2>2, FS_EmptySet
  <1>7. id \in Valid <=> area # {} /\ Cardinality(seeds) * SeedShare >= Cardinality(area)
    BY <1>2, <1>3 DEF Valid
  <1>8. Seeded(id) <=> seeds # {} /\ Cardinality(seeds) * SeedShare >= Cardinality(area)
    BY DEF Seeded
  <1> HIDE DEF seeds, area
  <1> QED
    BY <1>4, <1>6, <1>7, <1>8

\* The strongest gate of a polygon that has any.
LEMMA StrongestIsThere ==
  ASSUME DetectionType, NEW id \in Polygons, Inside(id) # {}
  PROVE  /\ StrongestIn(id) \in Int
         /\ \E h \in Inside(id) : radar[h] = StrongestIn(id)
         /\ \A h \in Inside(id) : radar[h] <= StrongestIn(id)
  <1> DEFINE R == {radar[g] : g \in Inside(id)}
             f == [g \in Inside(id) |-> radar[g]]
  <1>1. Inside(id) \in SUBSET Gates /\ IsFiniteSet(Inside(id))
    BY SomeGates DEF Inside
  <1>2. IsFiniteSet(R)
    <2>1. f \in Surjection(Inside(id), R)
      BY DEF Surjection
    <2> QED
      BY <1>1, <2>1, FS_Surjection
  <1>3. R \subseteq Nat
    BY <1>1, RadarIsNumbers
  <1>4. /\ MaxOf(R) \in Int /\ MaxOf(R) \in R \cup {0} /\ (\A x \in R : x <= MaxOf(R))
    <2>1. R \subseteq Int
      BY <1>3
    <2> HIDE DEF R
    <2> QED
      BY <1>2, <2>1, MaxOfNumbers
  <1>5. StrongestIn(id) = MaxOf(R)
    BY DEF StrongestIn
  <1>6. MaxOf(R) \in R
    <2>1. PICK g \in Inside(id) : TRUE
      OBVIOUS
    <2>2. radar[g] \in R /\ radar[g] \in Nat /\ radar[g] <= MaxOf(R)
      BY <1>3, <1>4, <2>1
    <2> HIDE DEF R
    <2> QED
      BY <1>4, <2>2
  <1> QED
    BY <1>4, <1>5, <1>6

\* The threshold of a polygon is what the configuration says.
LEMMA ThresholdIsConfigured ==
  ASSUME DetectionType, NEW id \in Polygons, Inside(id) # {}
  PROVE  /\ Threshold(id) \in Int /\ Threshold(id) >= LowThreshold
         /\ \A r \in Int :
              r >= Threshold(id) <=>
                /\ r >= LowThreshold
                /\ StrongestIn(id) >= SwitchRefl =>
                    /\ r >= HighThreshold
                    /\ r + DropOffset >= StrongestIn(id) \/ r + DropOffset >= Clamp
  <1> DEFINE a == IF StrongestIn(id) < SwitchRefl THEN LowThreshold ELSE HighThreshold
             b == SmallerOf(StrongestIn(id), Clamp) - DropOffset
  <1>1. StrongestIn(id) \in Int
    BY StrongestIsThere
  <1>2. a \in Int /\ b \in Int /\ a >= LowThreshold
    BY <1>1 DEF LowThreshold, HighThreshold, SmallerOf, Clamp, DropOffset
  <1>3. IsFiniteSet({a, b}) /\ {a, b} \subseteq Int
    <2> HIDE DEF a, b
    <2>1. {a, b} = {a} \cup {b} /\ IsFiniteSet({a})
      BY FS_Singleton
    <2>2. IsFiniteSet({a} \cup {b})
      BY <2>1, FS_AddElement
    <2> QED
      BY <1>2, <2>1, <2>2
  <1>4. Threshold(id) = MaxOf({a, b})
    BY DEF Threshold
  <1>5. /\ Threshold(id) \in Int /\ Threshold(id) \in {a, b, 0}
        /\ a <= Threshold(id) /\ b <= Threshold(id)
    <2> HIDE DEF a, b
    <2> QED
      BY <1>3, <1>4, MaxOfNumbers
  <1>6. Threshold(id) \in {a, b}
    <2> HIDE DEF a, b
    <2> QED
      BY <1>2, <1>5 DEF LowThreshold
  <1>7. ASSUME NEW r \in Int
        PROVE  r >= Threshold(id) <=> r >= a /\ r >= b
    <2> HIDE DEF a, b
    <2> QED
      BY <1>2, <1>5, <1>6
  <1>8. ASSUME NEW r \in Int
        PROVE  r >= a /\ r >= b <=>
                /\ r >= LowThreshold
                /\ StrongestIn(id) >= SwitchRefl =>
                    /\ r >= HighThreshold
                    /\ r + DropOffset >= StrongestIn(id) \/ r + DropOffset >= Clamp
    BY <1>1 DEF LowThreshold, HighThreshold, SmallerOf, Clamp, DropOffset, SwitchRefl
  <1> HIDE DEF a, b
  <1>9. Threshold(id) >= LowThreshold
    BY <1>2, <1>5 DEF LowThreshold
  <1> QED
    BY <1>5, <1>7, <1>8, <1>9

\* A gate joins a storm when it is above the threshold of its polygon.
LEMMA JoinsAboveThreshold ==
  ASSUME DetectionType, NEW id \in Polygons, NEW g \in Gates
  PROVE  Joins(g, id) <=> id \in Valid /\ radar[g] >= Threshold(id)
  <1>1. CASE ~Seeded(id)
    BY <1>1, ValidIsSeeded DEF Joins
  <1>2. CASE Seeded(id)
    <2>1. Inside(id) # {} /\ id \in Valid
      BY <1>2, ValidIsSeeded DEF Seeded
    <2>2. radar[g] \in Nat /\ \A h \in Inside(id) : radar[h] \in Nat
      BY RadarIsNumbers DEF Inside
    <2> DEFINE Configured(s) ==
                 s >= SwitchRefl =>
                    /\ radar[g] >= HighThreshold
                    /\ radar[g] + DropOffset >= s \/ radar[g] + DropOffset >= Clamp
    <2>3. radar[g] >= Threshold(id) <=> radar[g] >= LowThreshold /\ Configured(StrongestIn(id))
      BY <2>1, <2>2, ThresholdIsConfigured
    <2>4. Joins(g, id) <=>
            /\ radar[g] >= LowThreshold
            /\ \E h \in Inside(id) :
                (\A other \in Inside(id) : radar[other] <= radar[h]) /\ Configured(radar[h])
      BY <1>2 DEF Joins
    <2>5. \A h \in Inside(id) :
            (\A other \in Inside(id) : radar[other] <= radar[h]) <=> radar[h] = StrongestIn(id)
      BY <2>1, <2>2, StrongestIsThere
    <2>6. \E h \in Inside(id) : radar[h] = StrongestIn(id)
      BY <2>1, StrongestIsThere
    <2> HIDE DEF Configured
    <2> QED
      BY <2>1, <2>3, <2>4, <2>5, <2>6
  <1> QED
    BY <1>1, <1>2

\* The gates that seed the floods are the cores, and a flood enters what joins some storm.
LEMMA CoresAreMarkers ==
  ASSUME DetectionType
  PROVE  /\ Rain = Floodable
         /\ \A id \in Polygons, g \in Gates :
              g \in Core(id) <=> g \in Markers \cap Floodable /\ drawn[g] = id
         /\ \A g \in Markers \cap Floodable : g \in Gates /\ drawn[g] \in Polygons
  <1>1. Valid \subseteq Polygons
    BY DEF Valid
  <1>2. ASSUME NEW g \in Gates PROVE g \in Rain <=> g \in Floodable
    <2>1. \A id \in Polygons : Joins(g, id) <=> id \in Valid /\ radar[g] >= Threshold(id)
      BY JoinsAboveThreshold
    <2> QED
      BY <1>1, <2>1 DEF Rain, Floodable
  <1>3. Rain = Floodable
    BY <1>2 DEF Rain, Floodable
  <1>4. ASSUME NEW id \in Polygons, NEW g \in Gates
        PROVE  g \in Core(id) <=> g \in Markers \cap Floodable /\ drawn[g] = id
    <2>1. Joins(g, id) <=> id \in Valid /\ radar[g] >= Threshold(id)
      BY JoinsAboveThreshold
    <2> QED
      BY <2>1 DEF Core, Inside, Markers, Floodable
  <1>5. \A g \in Markers \cap Floodable : g \in Gates /\ drawn[g] \in Polygons
    BY <1>1 DEF Markers
  <1> QED
    BY <1>3, <1>4, <1>5

\* A flood holds the gates it starts from, and more gates and more rain lead further.
LEMMA ReachHoldsItsStart == ASSUME NEW F, NEW W PROVE F \subseteq Reach(F, W)
  BY DEF Reach

LEMMA ReachGrows ==
  ASSUME NEW F1, NEW F2, NEW W1, NEW W2, F1 \subseteq F2, W1 \subseteq W2
  PROVE  Reach(F1, W1) \subseteq Reach(F2, W2)
  <1> SUFFICES ASSUME NEW g \in Reach(F1, W1) PROVE g \in Reach(F2, W2)
    OBVIOUS
  <1>1. g \in F2 \cup W2
    BY DEF Reach
  <1>2. ASSUME NEW S \in SUBSET (F2 \cup W2), F2 \subseteq S, Touching(S, W2) \subseteq S
        PROVE  g \in S
    <2> DEFINE T == S \cap (F1 \cup W1)
    <2>1. T \in SUBSET (F1 \cup W1) /\ F1 \subseteq T
      BY <1>2
    <2>2. Touching(T, W1) \subseteq T
      BY <1>2 DEF Touching
    <2> HIDE DEF T
    <2>3. g \in T
      BY <2>1, <2>2 DEF Reach
    <2> QED
      BY <2>3 DEF T
  <1> QED
    BY <1>1, <1>2 DEF Reach

\* Each gate of a flood is led to from the core it started from, and a core keeps its
\* polygon.
LEMMA FloodsStartFromCores ==
  ASSUME DetectionType, NEW f \in Floods
  PROVE  /\ \A g \in DOMAIN f : g \in Gates /\ f[g] \in Valid /\ LedTo(g, f[g])
         /\ \A id \in Polygons : \A g \in Core(id) : g \in DOMAIN f /\ f[g] = id
         /\ \A id \in Polygons, g \in Gates : LedTo(g, id) => g \in DOMAIN f
  <1> DEFINE markers == Markers \cap Floodable
             Own(id) == {h \in Reach(markers, Floodable) : f[h] = id}
             From(id) == {h \in markers : drawn[h] = id}
  <1>1. /\ DOMAIN f = Reach(markers, Floodable)
        /\ \A h \in DOMAIN f : f[h] \in {drawn[m] : m \in markers}
        /\ \A h \in markers : f[h] = drawn[h]
        /\ \A id \in {drawn[m] : m \in markers} : Own(id) \subseteq Reach(From(id), Own(id))
    BY DEF Floods
  <1>2. \A id \in Polygons : From(id) \subseteq Core(id) /\ Core(id) \subseteq markers
    BY CoresAreMarkers DEF Core, Inside
  <1>3. markers \subseteq Floodable /\ Floodable \subseteq Gates /\ Rain = Floodable
    BY CoresAreMarkers DEF Floodable
  <1>4. Reach(markers, Floodable) \subseteq Floodable
    BY <1>3 DEF Reach
  <1>5. ASSUME NEW g \in DOMAIN f PROVE g \in Gates /\ f[g] \in Valid /\ LedTo(g, f[g])
    <2>1. PICK m \in markers : f[g] = drawn[m]
      BY <1>1
    <2>2. drawn[m] \in Valid /\ drawn[m] \in Polygons
      BY <2>1 DEF Markers, Valid
    <2> DEFINE id == f[g]
    <2>3. g \in Own(id) /\ Own(id) \subseteq Reach(From(id), Own(id)) /\ Own(id) \subseteq Floodable
      BY <1>1, <1>4, <2>1
    <2>4. Reach(From(id), Own(id)) \subseteq Reach(Core(id), Rain)
      <3>1. From(id) \subseteq Core(id) /\ Own(id) \subseteq Rain
        BY <1>2, <1>3, <2>1, <2>2, <2>3
      <3> HIDE DEF Own, From
      <3> QED
        BY <3>1, ReachGrows
    <2> HIDE DEF Own, From
    <2> QED
      BY <1>1, <1>3, <1>4, <2>1, <2>2, <2>3, <2>4 DEF LedTo
  <1>6. ASSUME NEW id \in Polygons, NEW g \in Core(id) PROVE g \in DOMAIN f /\ f[g] = id
    <2>1. g \in Gates
      BY DEF Core, Inside
    <2>2. g \in markers /\ drawn[g] = id
      BY <2>1, CoresAreMarkers
    <2> HIDE DEF markers
    <2> QED
      BY <1>1, <2>2, ReachHoldsItsStart
  <1>7. ASSUME NEW id \in Polygons, NEW g \in Gates, LedTo(g, id) PROVE g \in DOMAIN f
    <2>1. Reach(Core(id), Rain) \subseteq Reach(markers, Floodable)
      <3>1. Core(id) \subseteq markers /\ Rain \subseteq Floodable
        BY <1>2, <1>3
      <3> HIDE DEF markers
      <3> QED
        BY <3>1, ReachGrows
    <2> QED
      BY <1>1, <1>7, <2>1 DEF LedTo
  <1> QED
    BY <1>5, <1>6, <1>7

\* What a flood leaves to a storm once cut back.
LEMMA CutBackTakesWhatJoins ==
  ASSUME DetectionType, NEW id \in Polygons, NEW f \in Floods
  PROVE  Sure(id) \subseteq GatesOf(CutBack(f), id) /\ GatesOf(CutBack(f), id) \subseteq May(id)
  <1>0. Valid \subseteq Polygons /\ id # 0
    BY DetectionAssumption DEF Valid
  <1>1. ASSUME NEW g \in GatesOf(CutBack(f), id) PROVE g \in May(id)
    <2>1. g \in Gates /\ g \in DOMAIN f /\ f[g] = id /\ radar[g] >= Threshold(id)
      BY <1>0 DEF GatesOf, CutBack
    <2>2. id \in Valid /\ LedTo(g, id)
      BY <2>1, FloodsStartFromCores
    <2>3. Joins(g, id)
      BY <2>1, <2>2, JoinsAboveThreshold
    <2>4. \A other \in Polygons \ {id} : g \notin Core(other)
      BY <2>1, FloodsStartFromCores
    <2> QED
      BY <2>1, <2>2, <2>3, <2>4 DEF May
  <1>2. ASSUME NEW g \in Sure(id) PROVE g \in GatesOf(CutBack(f), id)
    <2>1. g \in Gates /\ Joins(g, id)
      BY DEF Sure, Core, Inside
    <2>2. radar[g] >= Threshold(id)
      BY <2>1, JoinsAboveThreshold
    <2>3. g \in DOMAIN f /\ f[g] = id
      <3>1. CASE g \in Core(id)
        BY <3>1, FloodsStartFromCores
      <3>2. CASE g \notin Core(id)
        <4>1. LedTo(g, id) /\ \A other \in Polygons \ {id} : ~LedTo(g, other)
          BY <3>2 DEF Sure
        <4>2. g \in DOMAIN f
          BY <2>1, <4>1, FloodsStartFromCores
        <4>3. f[g] \in Polygons /\ LedTo(g, f[g])
          BY <1>0, <4>2, FloodsStartFromCores
        <4> QED
          BY <4>1, <4>2, <4>3
      <3> QED
        BY <3>1, <3>2
    <2> QED
      BY <2>1, <2>2, <2>3 DEF GatesOf, CutBack
  <1> QED
    BY <1>1, <1>2

\* The size filter keeps a cell whole or drops it.
LEMMA SizedKeepsWhole ==
  ASSUME DetectionType, NEW id \in Polygons, NEW f
  PROVE  GatesOf(Sized(f), id) =
           IF Cardinality(GatesOf(f, id)) > MinGates THEN GatesOf(f, id) ELSE {}
  <1>1. id # 0
    BY DetectionAssumption
  <1>2. \A g \in Gates :
          Sized(f)[g] = IF f[g] # 0 /\ Cardinality(GatesOf(f, f[g])) > MinGates THEN f[g] ELSE 0
    BY DEF Sized
  <1>3. ASSUME NEW g \in Gates
        PROVE  Sized(f)[g] = id <=> f[g] = id /\ Cardinality(GatesOf(f, id)) > MinGates
    BY <1>1, <1>2
  <1> QED
    BY <1>3 DEF GatesOf

LEMMA CellIsItsStorm ==
  ASSUME DetectionType, NEW id \in Polygons, NEW f \in Floods, NEW cell,
         cell = GatesOf(Sized(CutBack(f)), id)
  PROVE  IF cell = {} THEN Cardinality(Sure(id)) <= MinGates
         ELSE Cardinality(cell) > MinGates /\ Sure(id) \subseteq cell /\ cell \subseteq May(id)
  <1> DEFINE cut == GatesOf(CutBack(f), id)
  <1>1. Sure(id) \subseteq cut /\ cut \subseteq May(id)
    BY CutBackTakesWhatJoins
  <1>2. cell = IF Cardinality(cut) > MinGates THEN cut ELSE {}
    BY SizedKeepsWhole
  <1>3. cut \in SUBSET Gates
    BY DEF GatesOf
  <1> HIDE DEF cut
  <1>4. /\ IsFiniteSet(cut) /\ Cardinality(cut) \in Nat
        /\ Cardinality(Sure(id)) \in Nat /\ MinGates \in Nat
        /\ Cardinality(Sure(id)) <= Cardinality(cut)
    BY <1>1, <1>3, SomeGates, FS_Subset, DetectionAssumption
  <1>5. Cardinality(cut) > MinGates => cut # {}
    <2> SUFFICES ASSUME cut = {} PROVE Cardinality(cut) <= MinGates
      BY <1>4
    <2>1. Cardinality(cut) = 0
      BY FS_EmptySet
    <2> QED
      BY <1>4, <2>1
  <1> QED
    BY <1>1, <1>2, <1>4, <1>5

\* What may and must join does not change once the polygons are drawn.
LEMMA StormsStay ==
  ASSUME UNCHANGED <<radar, drawn>>
  PROVE  \A id \in Polygons : Sure(id)' = Sure(id) /\ May(id)' = May(id)
  <1>1. \A id : Inside(id)' = Inside(id)
    BY DEF Inside
  <1>2. StrongGates' = StrongGates
    BY DEF StrongGates
  <1>3. \A id : Seeded(id)' <=> Seeded(id)
    BY <1>1, <1>2 DEF Seeded
  <1>4. \A g, id : Joins(g, id)' <=> Joins(g, id)
    BY <1>1, <1>3 DEF Joins
  <1>5. Rain' = Rain /\ \A id : Core(id)' = Core(id)
    BY <1>1, <1>4 DEF Rain, Core
  <1>6. \A g, id : LedTo(g, id)' <=> LedTo(g, id)
    BY <1>5 DEF LedTo
  <1> QED
    BY <1>4, <1>5, <1>6 DEF Sure, May

\* A scan is detected once.
LEMMA NextDetectionInv == DetectionInv /\ [DetectionNext]_detectionVars => DetectionInv'
  <1> SUFFICES ASSUME DetectionInv, [DetectionNext]_detectionVars PROVE DetectionInv'
    OBVIOUS
  <1>1. CASE ExpandGates
    <2>1. PICK f \in Floods : found' = Sized(CutBack(f))
      BY <1>1 DEF ExpandGates
    <2>2. UNCHANGED <<radar, drawn, expansion>> /\ detected' = TRUE /\ DetectionType
      BY <1>1 DEF ExpandGates, DetectionInv
    <2>3. \A id \in Polygons : GatesOf(found, id)' = GatesOf(Sized(CutBack(f)), id)
      BY <2>1 DEF GatesOf
    <2>4. CellsAreTheirStorms'
      <3> SUFFICES ASSUME NEW id \in Polygons
                   PROVE  IF GatesOf(found, id)' = {} THEN Cardinality(Sure(id)') <= MinGates
                          ELSE /\ Cardinality(GatesOf(found, id)') > MinGates
                               /\ Sure(id)' \subseteq GatesOf(found, id)'
                               /\ GatesOf(found, id)' \subseteq May(id)'
        BY DEF CellsAreTheirStorms
      <3>1. Sure(id)' = Sure(id) /\ May(id)' = May(id)
        BY <2>2, StormsStay
      <3>2. PICK cell : cell = GatesOf(Sized(CutBack(f)), id)
        OBVIOUS
      <3>3. IF cell = {} THEN Cardinality(Sure(id)) <= MinGates
            ELSE Cardinality(cell) > MinGates /\ Sure(id) \subseteq cell /\ cell \subseteq May(id)
        BY <2>2, <3>2, CellIsItsStorm
      <3> QED
        BY <2>3, <3>1, <3>2, <3>3
    <2> QED
      BY <2>2, <2>4 DEF DetectionInv, DetectionType
  <1>2. CASE UsePolygons
    BY <1>2 DEF UsePolygons, DetectionInv, DetectionType, CellsAreTheirStorms
  <1>3. CASE UNCHANGED detectionVars
    <2>1. UNCHANGED <<radar, drawn, expansion, found, detected>>
      BY <1>3 DEF detectionVars
    <2>2. \A id \in Polygons :
            GatesOf(found, id)' = GatesOf(found, id) /\ Sure(id)' = Sure(id) /\ May(id)' = May(id)
      BY <2>1, StormsStay DEF GatesOf
    <2> QED
      BY <2>1, <2>2 DEF DetectionInv, DetectionType, CellsAreTheirStorms
  <1> QED
    BY <1>1, <1>2, <1>3 DEF DetectionNext

\* On any radar grid and with any polygons, in whatever order the floods of neighbouring
\* storms run, a cell is what the configured thresholds let join its storm, and a storm
\* that is seeded and large enough is a cell (expand_gates).
THEOREM CellsFollowTheirStorms == DetectionSpec => []CellsAreTheirStorms
  <1>1. DetectionInit => DetectionInv
    BY DEF DetectionInit, DetectionInv, DetectionType, CellsAreTheirStorms
  <1>2. DetectionInv => CellsAreTheirStorms
    BY DEF DetectionInv
  <1> QED
    BY <1>1, <1>2, NextDetectionInv, PTL DEF DetectionSpec

-----------------------------------------------------------------------------
(***************************************************************************)
(* The zone polygons (ZoneAssets).                                         *)
(***************************************************************************)
ZoneType ==
    /\ zoneFile \in [codes: SUBSET Zones, whole: BOOLEAN]
    /\ sync \in [pc: {"idle", "fetch", "write"}, rows: SUBSET Zones, missing: SUBSET Zones,
                 fetched: SUBSET Zones, tries: Nat]

\* A torn file has nothing left in it unless its writer is still at work, and the command
\* holds every row of the file it is about to replace.
RowsAreHeld ==
    /\ sync.pc # "write" => zoneFile.whole \/ zoneFile.codes = {}
    /\ sync.pc \in {"fetch", "write"} => zoneFile.codes \subseteq sync.rows

ZoneInv == ZoneType /\ RowsAreHeld

\* The rows are held from the start of the command to its end.
LEMMA NextZoneInv == ZoneInv /\ [ZoneNext]_zoneVars => ZoneInv'
  <1> SUFFICES ASSUME ZoneInv, [ZoneNext]_zoneVars PROVE ZoneInv'
    OBVIOUS
  <1>0. ZoneType /\ RowsAreHeld
    BY DEF ZoneInv
  <1>1. CASE UNCHANGED <<zoneFile, sync>>
    BY <1>0, <1>1 DEF ZoneInv, ZoneType, RowsAreHeld
  <1>2. CASE StartSync
    BY <1>0, <1>2 DEF StartSync, SyncIdle, Readable, ZoneInv, ZoneType, RowsAreHeld
  <1>3. ASSUME NEW zone \in Zones, FetchZone(zone) PROVE ZoneInv'
    <2>1. PICK fetched \in {sync.fetched, sync.fetched \cup {zone}} :
            sync' = [sync EXCEPT !.missing = @ \ {zone}, !.fetched = fetched, !.tries = 0]
      BY <1>3 DEF FetchZone
    <2>2. fetched \in SUBSET Zones /\ zoneFile' = zoneFile
      BY <1>0, <1>3 DEF FetchZone, ZoneType
    <2>3. /\ sync'.pc = sync.pc /\ sync'.rows = sync.rows
          /\ sync' \in [pc: {"idle", "fetch", "write"}, rows: SUBSET Zones, missing: SUBSET Zones,
                        fetched: SUBSET Zones, tries: Nat]
      BY <1>0, <2>1, <2>2 DEF ZoneType
    <2> QED
      BY <1>0, <2>2, <2>3 DEF ZoneInv, ZoneType, RowsAreHeld
  <1>4. ASSUME NEW zone \in Zones, FetchZoneFails(zone) PROVE ZoneInv'
    <2>1. zoneFile' = zoneFile /\ sync' = IF sync.tries + 1 < MaxRetries
                                          THEN [sync EXCEPT !.tries = @ + 1]
                                          ELSE [sync EXCEPT !.missing = @ \ {zone}, !.tries = 0]
      BY <1>4 DEF FetchZoneFails
    <2>2. /\ sync'.pc = sync.pc /\ sync'.rows = sync.rows
          /\ sync' \in [pc: {"idle", "fetch", "write"}, rows: SUBSET Zones, missing: SUBSET Zones,
                        fetched: SUBSET Zones, tries: Nat]
      <3>1. sync.tries + 1 \in Nat
        BY <1>0 DEF ZoneType
      <3>2. CASE sync' = [sync EXCEPT !.tries = @ + 1]
        BY <1>0, <3>1, <3>2 DEF ZoneType
      <3>3. CASE sync' = [sync EXCEPT !.missing = @ \ {zone}, !.tries = 0]
        BY <1>0, <3>3 DEF ZoneType
      <3> QED
        BY <2>1, <3>2, <3>3
    <2> QED
      BY <1>0, <2>1, <2>2 DEF ZoneInv, ZoneType, RowsAreHeld
  <1>5. CASE BeginWrite
    <2>1. CASE zoneFile' = [zoneFile EXCEPT !.whole = FALSE] /\ sync' = [sync EXCEPT !.pc = "write"]
      <3>1. zoneFile'.codes = zoneFile.codes /\ sync'.rows = sync.rows /\ sync'.pc = "write"
        BY <1>0, <2>1 DEF ZoneType
      <3>2. ZoneType'
        BY <1>0, <2>1 DEF ZoneType
      <3> QED
        BY <1>0, <1>5, <3>1, <3>2 DEF BeginWrite, ZoneInv, RowsAreHeld
    <2>2. CASE zoneFile' = zoneFile /\ sync' = SyncIdle
      BY <1>0, <1>5, <2>2 DEF BeginWrite, SyncIdle, ZoneInv, ZoneType, RowsAreHeld
    <2> QED
      BY <1>5, <2>1, <2>2 DEF BeginWrite
  <1>6. CASE EndWrite
    BY <1>0, <1>6 DEF EndWrite, SyncIdle, ZoneInv, ZoneType, RowsAreHeld
  <1>7. CASE SyncDies
    BY <1>0, <1>7 DEF SyncDies, SyncIdle, ZoneInv, ZoneType, RowsAreHeld
  <1>8. UNCHANGED zoneVars => UNCHANGED <<zoneFile, sync>>
    BY DEF zoneVars
  <1>9. IngestRestarts => UNCHANGED <<zoneFile, sync>>
    BY DEF IngestRestarts
  <1>10. \A zone \in Zones : DrawAlert(zone) => UNCHANGED <<zoneFile, sync>>
    BY DEF DrawAlert
  <1> QED
    BY <1>1, <1>2, <1>3, <1>4, <1>5, <1>6, <1>7, <1>8, <1>9, <1>10 DEF ZoneNext

\* Whichever zones there are and whatever fails, only a write that dies loses a polygon,
\* and an alert goes without one that is on disk only in a process that had read the file
\* before (merge_zone_entries, ZoneLookup).
THEOREM PolygonsAreKept == ZoneSpec => ZonesAreKept
  <1> DEFINE Kept == zoneFile.codes \subseteq zoneFile'.codes \/ ~zoneFile'.whole
             Drawn == looked' # looked /\ looked'.onDisk /\ ~looked'.drawn => zoneCache # Unread
  <1>1. ZoneInit => ZoneInv
    <2> SUFFICES ASSUME ZoneInit PROVE ZoneInv
      OBVIOUS
    <2>1. zoneFile \in [codes: SUBSET Zones, whole: {TRUE}] /\ sync = SyncIdle
      BY DEF ZoneInit
    <2>2. zoneFile \in [codes: SUBSET Zones, whole: BOOLEAN] /\ zoneFile.whole
      BY <2>1
    <2> QED
      BY <2>1, <2>2 DEF ZoneInv, ZoneType, RowsAreHeld, SyncIdle
  <1>2. ASSUME ZoneInv, [ZoneNext]_zoneVars PROVE [Kept /\ Drawn]_zoneVars
    <2> SUFFICES ASSUME ZoneNext PROVE Kept /\ Drawn
      BY <1>2
    <2>0. ZoneType /\ RowsAreHeld
      BY <1>2 DEF ZoneInv
    <2>1. zoneFile' = zoneFile => Kept
      OBVIOUS
    <2>2. looked' = looked => Drawn
      OBVIOUS
    <2>3. ASSUME NEW zone \in Zones, DrawAlert(zone) PROVE Kept /\ Drawn
      BY <2>1, <2>3 DEF DrawAlert, HasPolygon, Readable
    <2>4. CASE EndWrite
      BY <2>0, <2>2, <2>4 DEF EndWrite, RowsAreHeld
    <2>5. CASE BeginWrite
      BY <2>0, <2>2, <2>5 DEF BeginWrite, ZoneType
    <2>6. CASE SyncDies
      BY <2>0, <2>2, <2>6 DEF SyncDies
    <2>7. IngestRestarts \/ StartSync => UNCHANGED <<zoneFile, looked>>
      BY DEF IngestRestarts, StartSync
    <2>8. \A zone \in Zones : FetchZone(zone) \/ FetchZoneFails(zone) => UNCHANGED <<zoneFile, looked>>
      BY DEF FetchZone, FetchZoneFails
    <2> QED
      BY <2>1, <2>2, <2>3, <2>4, <2>5, <2>6, <2>7, <2>8 DEF ZoneNext
  <1> QED
    BY <1>1, <1>2, NextZoneInv, PTL DEF ZoneSpec, ZonesAreKept

-----------------------------------------------------------------------------
(***************************************************************************)
(* The RAP analysis (SynopticIngest).                                      *)
(***************************************************************************)
RapPcs == {"idle", "local", "s3_async", "s3_sync", "nomads", "older", "chosen"}
Fetching == rap.pc \in {"s3_async", "s3_sync", "nomads"}
AnalysisHours == {h \in Nat : h % 2 = 0}
Damaged == {f \in rapDir : ~f.valid}

RapType ==
    /\ rapRemote \in [{"s3", "nomads"} -> SUBSET AnalysisHours]
    /\ rapDir \subseteq [hour: AnalysisHours, valid: BOOLEAN] /\ IsFiniteSet(rapDir)
    /\ rap \in [pc: RapPcs, time: Nat \cup {NoHour}, hour: AnalysisHours \cup {NoHour}]
    /\ rapCould \in [any: AnalysisHours \cup {NoHour}, mirror: AnalysisHours \cup {NoHour}]
    /\ rapFaults \in [RapFaultKinds -> Nat]

\* Each damaged file was a fault of its content.
DamageIsCounted == Cardinality(Damaged) <= rapFaults.content

\* The search goes down through the eligible hours and leaves none out: of the later
\* ones no whole file is there, and what is on disk is eligible.
SearchedDownTo ==
    rap.pc # "idle" =>
        /\ rap.time \in Nat
        /\ rap.hour = NoHour \/ rap.hour \in Eligible(rap.time)
        /\ \A f \in rapDir : /\ f.hour \in Eligible(rap.time)
                             /\ f.hour > rap.hour => ~f.valid
                             /\ f.hour = rap.hour /\ (Fetching \/ rap.pc = "older") => ~f.valid
        /\ rap.pc = "chosen" => IsLocal(rap.hour) /\ rap.hour # NoHour

\* What was to be had at the beginning is still ahead of the search, and still to be had.
Ahead(best, offered) ==
    /\ best <= rap.hour /\ (rap.pc = "older" /\ rap.hour # NoHour => best < rap.hour)
    /\ best = NoHour \/ best \in Eligible(rap.time)
    /\ best # NoHour /\ (best < rap.hour \/ rap.pc = "local") => IsLocal(best) \/ best \in offered
    /\ best = rap.hour /\ best # NoHour /\ Fetching => best \in offered
MirrorIsAhead ==
    rap.pc # "idle" => rapFaults.s3 + rapFaults.nomads > 0 \/ Ahead(rapCould.mirror, rapRemote["nomads"])
AnyIsAhead ==
    rap.pc # "idle" =>
        \/ rapFaults.s3 + rapFaults.nomads > 0 \/ rapFaults.content > 0
        \/ /\ Ahead(rapCould.any, rapRemote["s3"] \cup rapRemote["nomads"])
           /\ rap.pc = "nomads" /\ rapCould.any = rap.hour /\ rap.hour # NoHour =>
                rap.hour \in rapRemote["nomads"]

RapInv == RapType /\ DamageIsCounted /\ SearchedDownTo /\ MirrorIsAhead /\ AnyIsAhead

\* The latest of some hours.
LEMMA LatestHour ==
  ASSUME NEW H, H \subseteq AnalysisHours, IsFiniteSet(H)
  PROVE  /\ Latest(H) \in H \cup {NoHour} /\ \A h \in H : h <= Latest(H)
         /\ H # {} => Latest(H) \in H
  <1> DEFINE S == {NoHour} \cup H
  <1>1. IsFiniteSet(H \cup {NoHour}) /\ S = H \cup {NoHour}
    BY FS_AddElement
  <1>2. S \subseteq Int /\ S # {}
    BY DEF NoHour, AnalysisHours
  <1>3. Max(S) \in S /\ \A x \in S : x <= Max(S)
    BY <1>1, <1>2, MaxOfFinite
  <1>4. ASSUME NEW h \in H PROVE h > NoHour
    BY <1>4 DEF NoHour, AnalysisHours
  <1>5. H # {} => Max(S) # NoHour
    <2> SUFFICES ASSUME NEW h \in H, Max(S) = NoHour PROVE FALSE
      OBVIOUS
    <2>1. h > NoHour /\ h <= NoHour /\ h \in Int /\ NoHour \in Int
      BY <1>2, <1>3, <1>4
    <2> QED
      BY <2>1
  <1> QED
    BY <1>3, <1>5 DEF Latest

\* The hours a request may use.
LEMMA EligibleHours ==
  ASSUME NEW t \in Nat
  PROVE  /\ Eligible(t) \subseteq AnalysisHours /\ IsFiniteSet(Eligible(t))
         /\ \A h : h \in Eligible(t) <=> h \in AnalysisHours /\ h <= t /\ t - h <= MaxRapAge
  <1>1. \A h : h \in Eligible(t) <=> h \in AnalysisHours /\ h <= t /\ t - h <= MaxRapAge
    BY DEF Eligible, AnalysisHours
  <1>2. Eligible(t) \in SUBSET (0..t) /\ IsFiniteSet(0..t)
    BY FS_Interval DEF Eligible
  <1> QED
    BY <1>1, <1>2, FS_Subset

\* Removing files leaves no more damage than there was.
LEMMA SmallerDirectory ==
  ASSUME RapInv, rapDir' \subseteq rapDir, rapFaults.content <= rapFaults'.content,
         rapFaults' \in [RapFaultKinds -> Nat]
  PROVE  /\ rapDir' \subseteq [hour: AnalysisHours, valid: BOOLEAN] /\ IsFiniteSet(rapDir')
         /\ DamageIsCounted'
  <1>1. RapType /\ DamageIsCounted
    BY DEF RapInv
  <1>2. rapDir' \in SUBSET rapDir /\ Damaged' \in SUBSET Damaged /\ Damaged \in SUBSET rapDir
    BY DEF Damaged
  <1>3. IsFiniteSet(rapDir') /\ IsFiniteSet(Damaged)
    BY <1>1, <1>2, FS_Subset DEF RapType
  <1>4. IsFiniteSet(Damaged') /\ Cardinality(Damaged') <= Cardinality(Damaged)
    BY <1>2, <1>3, FS_Subset
  <1>5. /\ Cardinality(Damaged') \in Nat /\ Cardinality(Damaged) \in Nat
        /\ rapFaults.content \in Nat /\ rapFaults'.content \in Nat
        /\ Cardinality(Damaged) <= rapFaults.content
    <2>1. rapFaults.content \in Nat /\ rapFaults'.content \in Nat
      BY <1>1 DEF RapType, RapFaultKinds
    <2> QED
      BY <1>1, <1>3, <1>4, <2>1, FS_CardinalityType DEF DamageIsCounted
  <1>6. Cardinality(Damaged') <= rapFaults'.content
    BY <1>4, <1>5
  <1> QED
    BY <1>1, <1>3, <1>6 DEF RapType, DamageIsCounted

\* A fault is counted, and none is forgotten.
LEMMA RapFaultCounts ==
  ASSUME RapType, NEW kind \in RapFaultKinds, RapFault(kind)
  PROVE  /\ rapFaults' \in [RapFaultKinds -> Nat] /\ rapFaults'[kind] = rapFaults[kind] + 1
         /\ \A k \in RapFaultKinds :
             /\ rapFaults'[k] \in Nat /\ rapFaults[k] \in Nat /\ rapFaults[k] <= rapFaults'[k]
             /\ k # kind => rapFaults'[k] = rapFaults[k]
  <1>1. rapFaults' = [rapFaults EXCEPT ![kind] = @ + 1] /\ rapFaults \in [RapFaultKinds -> Nat]
    BY DEF RapFault, RapType
  <1> QED
    BY <1>1

\* With no request under way only the files and the counts matter.
LEMMA RestKeeps ==
  ASSUME RapInv, rapDir' \subseteq rapDir, rap' = NoRequest, rapFaults' \in [RapFaultKinds -> Nat],
         rapFaults.content <= rapFaults'.content, UNCHANGED <<rapRemote, rapCould>>
  PROVE  RapInv'
  <1>1. /\ rapDir' \subseteq [hour: AnalysisHours, valid: BOOLEAN] /\ IsFiniteSet(rapDir')
        /\ DamageIsCounted'
    BY SmallerDirectory
  <1>2. RapType'
    BY <1>1 DEF RapInv, RapType, NoRequest, RapPcs
  <1> QED
    BY <1>1, <1>2 DEF RapInv, SearchedDownTo, MirrorIsAhead, AnyIsAhead, NoRequest

\* What is offered only grows.
LEMMA PublishAnalysisKeeps ==
  ASSUME RapInv, NEW via \in {"s3", "nomads"}, NEW h \in RapHours, PublishAnalysis(via, h)
  PROVE  RapInv'
  <1>0. /\ rapRemote' = [rapRemote EXCEPT ![via] = @ \cup {h}]
        /\ UNCHANGED <<rapDir, rap, rapChosen, rapCould, rapFaults>>
    BY DEF PublishAnalysis
  <1>1. RapType /\ DamageIsCounted /\ SearchedDownTo /\ MirrorIsAhead /\ AnyIsAhead
    BY DEF RapInv
  <1>2. h \in AnalysisHours
    BY RapAssumption, EligibleHours DEF RapHours
  <1>3. /\ rapRemote' \in [{"s3", "nomads"} -> SUBSET AnalysisHours]
        /\ rapRemote["s3"] \subseteq rapRemote'["s3"]
        /\ rapRemote["nomads"] \subseteq rapRemote'["nomads"]
    BY <1>0, <1>1, <1>2 DEF RapType
  <1>4. (RapType /\ DamageIsCounted)'
    BY <1>0, <1>1, <1>3 DEF RapType, DamageIsCounted, Damaged
  <1>5. (SearchedDownTo)'
    BY <1>0, <1>1 DEF SearchedDownTo, Fetching, IsLocal
  <1>6. (MirrorIsAhead /\ AnyIsAhead)'
    BY <1>0, <1>1, <1>3 DEF MirrorIsAhead, AnyIsAhead, Ahead, Fetching, IsLocal
  <1> QED
    BY <1>4, <1>5, <1>6 DEF RapInv

\* A request begins at the latest hour it may use, after a first cleanup.
LEMMA StartRapKeeps == ASSUME RapInv, NEW time \in RapRequests, StartRap(time) PROVE RapInv'
  <1> DEFINE best(hours) == Latest({h \in Eligible(time) : IsLocal(h) \/ h \in hours})
             S3 == rapRemote["s3"]
             N == rapRemote["nomads"]
  <1>0. /\ rapDir' = Retained(time, rapDir)
        /\ rap' = [pc |-> "local", time |-> time, hour |-> Latest(Eligible(time))]
        /\ rapCould' = [any |-> best(S3 \cup N), mirror |-> best(N)]
        /\ UNCHANGED <<rapRemote, rapChosen, rapFaults>>
    BY DEF StartRap
  <1>1. RapType /\ DamageIsCounted
    BY DEF RapInv
  <1>2. /\ time \in Nat /\ Eligible(time) \subseteq AnalysisHours /\ IsFiniteSet(Eligible(time))
        /\ \A h : h \in Eligible(time) <=> h \in AnalysisHours /\ h <= time /\ time - h <= MaxRapAge
    <2>1. time \in Nat
      BY RapAssumption
    <2> QED
      BY <2>1, EligibleHours
  <1>3. /\ Latest(Eligible(time)) \in Eligible(time) \cup {NoHour}
        /\ \A h \in Eligible(time) : h <= Latest(Eligible(time))
    BY <1>2, LatestHour
  <1>4. rapDir' \subseteq rapDir /\ \A f \in rapDir' : f.hour \in Eligible(time)
    <2>1. \A f \in rapDir : f.hour \in AnalysisHours
      BY <1>1 DEF RapType
    <2> QED
      BY <1>0, <1>2, <2>1 DEF Retained
  <1>5. ASSUME NEW offered
        PROVE  /\ best(offered) \in Eligible(time) \cup {NoHour}
               /\ best(offered) # NoHour => IsLocal(best(offered)) \/ best(offered) \in offered
               /\ best(offered) <= Latest(Eligible(time))
    <2> DEFINE B == {h \in Eligible(time) : IsLocal(h) \/ h \in offered}
    <2>1. B \in SUBSET Eligible(time)
      OBVIOUS
    <2>2. IsFiniteSet(B) /\ B \subseteq AnalysisHours
      BY <1>2, <2>1, FS_Subset
    <2>3. Latest(B) \in B \cup {NoHour}
      BY <2>2, LatestHour
    <2>4. Latest(B) <= Latest(Eligible(time))
      <3>1. CASE Latest(B) \in B
        BY <1>3, <2>1, <3>1
      <3>2. CASE Latest(B) = NoHour
        BY <1>2, <1>3, <3>2 DEF NoHour, AnalysisHours
      <3> QED
        BY <2>3, <3>1, <3>2
    <2> QED
      BY <2>1, <2>3, <2>4
  <1> HIDE DEF best
  <1>6. \A h \in Eligible(time) : IsLocal(h) => IsLocal(h)'
    <2> SUFFICES ASSUME NEW h \in Eligible(time), IsLocal(h) PROVE IsLocal(h)'
      OBVIOUS
    <2>1. h <= time /\ time - h <= MaxRapAge /\ [hour |-> h, valid |-> TRUE] \in rapDir
      BY <1>2 DEF IsLocal
    <2> QED
      BY <1>0, <2>1 DEF IsLocal, Retained
  <1>7. /\ rap'.pc = "local" /\ rap'.time = time /\ rap'.hour = Latest(Eligible(time))
        /\ rapCould'.any = best(S3 \cup N) /\ rapCould'.mirror = best(N)
    BY <1>0
  <1>8. /\ rapDir' \subseteq [hour: AnalysisHours, valid: BOOLEAN] /\ IsFiniteSet(rapDir')
        /\ DamageIsCounted'
    <2>1. rapFaults' \in [RapFaultKinds -> Nat] /\ rapFaults.content <= rapFaults'.content
      BY <1>0, <1>1 DEF RapType, RapFaultKinds
    <2> QED
      BY <1>4, <2>1, SmallerDirectory
  <1>9. RapType'
    <2>1. rap' \in [pc: RapPcs, time: Nat \cup {NoHour}, hour: AnalysisHours \cup {NoHour}]
      BY <1>0, <1>2, <1>3 DEF RapPcs
    <2>2. rapCould' \in [any: AnalysisHours \cup {NoHour}, mirror: AnalysisHours \cup {NoHour}]
      BY <1>0, <1>2, <1>5
    <2> QED
      BY <1>0, <1>1, <1>8, <2>1, <2>2 DEF RapType
  <1>10. SearchedDownTo'
    <2>1. \A f \in rapDir' : f.hour \in AnalysisHours /\ f.hour <= rap'.hour
      BY <1>2, <1>3, <1>4, <1>7
    <2>2. rap'.hour \in Int
      BY <1>2, <1>3, <1>7 DEF AnalysisHours, NoHour
    <2>3. \A f \in rapDir' : ~(f.hour > rap'.hour)
      BY <2>1, <2>2 DEF AnalysisHours
    <2> QED
      BY <1>2, <1>3, <1>4, <1>7, <2>3 DEF SearchedDownTo, Fetching
  <1>11. Ahead(rapCould.mirror, rapRemote["nomads"])'
    BY <1>0, <1>5, <1>6, <1>7 DEF Ahead, Fetching
  <1>12. Ahead(rapCould.any, rapRemote["s3"] \cup rapRemote["nomads"])'
    BY <1>0, <1>5, <1>6, <1>7 DEF Ahead, Fetching
  <1> QED
    BY <1>7, <1>8, <1>9, <1>10, <1>11, <1>12 DEF RapInv, MirrorIsAhead, AnyIsAhead

\* A file that is whole is chosen; a damaged one is removed, so that it can be fetched anew.
LEMMA CheckLocalKeeps == ASSUME RapInv, CheckLocal PROVE RapInv'
  <1>0. rap.pc = "local" /\ UNCHANGED <<rapRemote, rapChosen, rapCould, rapFaults>>
    BY DEF CheckLocal
  <1>1. RapType /\ DamageIsCounted /\ SearchedDownTo /\ MirrorIsAhead /\ AnyIsAhead
    BY DEF RapInv
  <1>2. /\ rapFaults' \in [RapFaultKinds -> Nat] /\ rapFaults.content <= rapFaults'.content
        /\ rap \in [pc: RapPcs, time: Nat \cup {NoHour}, hour: AnalysisHours \cup {NoHour}]
    BY <1>0, <1>1 DEF RapType, RapFaultKinds
  <1>3. CASE IsLocal(rap.hour)
    <2>1. /\ rap' = [rap EXCEPT !.pc = "chosen"] /\ rapDir' = rapDir
      BY <1>3 DEF CheckLocal, GoTo
    <2>2. /\ rap'.pc = "chosen" /\ rap'.time = rap.time /\ rap'.hour = rap.hour
          /\ rap' \in [pc: RapPcs, time: Nat \cup {NoHour}, hour: AnalysisHours \cup {NoHour}]
      BY <1>2, <2>1 DEF RapPcs
    <2>3. rap.hour \in AnalysisHours
      BY <1>1, <1>3 DEF IsLocal, RapType
    <2>4. (RapType /\ DamageIsCounted)'
      BY <1>0, <1>1, <2>1, <2>2 DEF RapType, DamageIsCounted, Damaged
    <2>5. SearchedDownTo'
      BY <1>0, <1>1, <1>3, <2>1, <2>2, <2>3 DEF SearchedDownTo, Fetching, IsLocal, NoHour, AnalysisHours
    <2>6. (MirrorIsAhead /\ AnyIsAhead)'
      BY <1>0, <1>1, <2>1, <2>2 DEF MirrorIsAhead, AnyIsAhead, Ahead, Fetching, IsLocal
    <2> QED
      BY <2>4, <2>5, <2>6 DEF RapInv
  <1>4. CASE ~IsLocal(rap.hour)
    <2>1. rap' = [rap EXCEPT !.pc = "s3_async"] /\ rapDir' = WithoutHour(rap.hour)
      BY <1>4 DEF CheckLocal, GoTo
    <2>2. /\ rap'.pc = "s3_async" /\ rap'.time = rap.time /\ rap'.hour = rap.hour
          /\ rap' \in [pc: RapPcs, time: Nat \cup {NoHour}, hour: AnalysisHours \cup {NoHour}]
      BY <1>2, <2>1 DEF RapPcs
    <2>3. /\ rapDir' \subseteq rapDir /\ \A f \in rapDir' : f.hour # rap.hour
          /\ \A h : h # rap.hour /\ IsLocal(h) => IsLocal(h)'
      BY <2>1 DEF WithoutHour, IsLocal
    <2>4. /\ rapDir' \subseteq [hour: AnalysisHours, valid: BOOLEAN] /\ IsFiniteSet(rapDir')
          /\ DamageIsCounted'
      BY <1>2, <2>3, SmallerDirectory
    <2>5. RapType'
      BY <1>0, <1>1, <2>2, <2>4 DEF RapType
    <2>6. SearchedDownTo'
      BY <1>0, <1>1, <2>2, <2>3 DEF SearchedDownTo, Fetching
    <2>7. ASSUME NEW b, NEW o, Ahead(b, o), b \in AnalysisHours \cup {NoHour}
          PROVE  /\ b <= rap.hour /\ (b = NoHour \/ b \in Eligible(rap.time))
                 /\ b # NoHour /\ b < rap.hour => IsLocal(b)' \/ b \in o
                 /\ b # NoHour /\ b = rap.hour => b \in o
      <3>1. b < rap.hour => b # rap.hour
        BY <1>2, <2>7 DEF AnalysisHours, NoHour
      <3> QED
        BY <1>0, <1>4, <2>3, <2>7, <3>1 DEF Ahead
    <2>8. /\ rapCould.mirror \in AnalysisHours \cup {NoHour}
          /\ rapCould.any \in AnalysisHours \cup {NoHour}
      BY <1>1 DEF RapType
    <2>9. (MirrorIsAhead /\ AnyIsAhead)'
      <3>1. Ahead(rapCould.mirror, rapRemote["nomads"]) => Ahead(rapCould.mirror, rapRemote["nomads"])'
        BY <1>0, <2>2, <2>7, <2>8 DEF Ahead, Fetching
      <3>2. Ahead(rapCould.any, rapRemote["s3"] \cup rapRemote["nomads"])
              => Ahead(rapCould.any, rapRemote["s3"] \cup rapRemote["nomads"])'
        BY <1>0, <2>2, <2>7, <2>8 DEF Ahead, Fetching
      <3> QED
        BY <1>0, <1>1, <2>2, <3>1, <3>2 DEF MirrorIsAhead, AnyIsAhead
    <2> QED
      BY <2>4, <2>5, <2>6, <2>9 DEF RapInv
  <1> QED
    BY <1>3, <1>4

\* The search goes on, with the same files and for the same hour, to another source.
LEMMA NextSourceKeeps ==
  ASSUME RapInv, Fetching, NEW pc \in {"s3_sync", "nomads", "older"}, rap' = [rap EXCEPT !.pc = pc],
         UNCHANGED <<rapRemote, rapDir, rapCould>>, rapFaults' \in [RapFaultKinds -> Nat],
         rapFaults.content = rapFaults'.content, rapFaults.s3 <= rapFaults'.s3,
         rapFaults.nomads <= rapFaults'.nomads,
         rapFaults'.s3 + rapFaults'.nomads > 0
         \/ /\ pc = "older" => rap.pc = "nomads" /\ rap.hour \notin rapRemote["nomads"]
            /\ pc = "nomads" => rap.hour \notin rapRemote["s3"] \/ \E f \in rapDir : f.hour = rap.hour
  PROVE  RapInv'
  <1>1. RapType /\ DamageIsCounted /\ SearchedDownTo /\ MirrorIsAhead /\ AnyIsAhead
    BY DEF RapInv
  <1>2. /\ rap'.pc = pc /\ rap'.time = rap.time /\ rap'.hour = rap.hour
        /\ rap' \in [pc: RapPcs, time: Nat \cup {NoHour}, hour: AnalysisHours \cup {NoHour}]
        /\ rap.hour \in AnalysisHours \cup {NoHour} /\ rap.pc # "idle"
    BY <1>1 DEF RapType, RapPcs, Fetching
  <1>3. (RapType /\ DamageIsCounted)'
    BY <1>1, <1>2 DEF RapType, DamageIsCounted, Damaged
  <1>4. SearchedDownTo'
    BY <1>1, <1>2 DEF SearchedDownTo, Fetching
  <1>5. /\ rapFaults.s3 \in Nat /\ rapFaults.nomads \in Nat /\ rapFaults'.s3 \in Nat
        /\ rapFaults'.nomads \in Nat /\ rapFaults.content \in Nat
    BY <1>1 DEF RapType, RapFaultKinds
  <1>6. CASE rapFaults'.s3 + rapFaults'.nomads > 0
    BY <1>3, <1>4, <1>6 DEF RapInv, MirrorIsAhead, AnyIsAhead
  <1>7. CASE ~(rapFaults'.s3 + rapFaults'.nomads > 0)
    <2>1. ~(rapFaults.s3 + rapFaults.nomads > 0)
      BY <1>5, <1>7
    <2>2. /\ rapCould.mirror \in AnalysisHours \cup {NoHour}
          /\ rapCould.any \in AnalysisHours \cup {NoHour}
      BY <1>1 DEF RapType
    <2>3. MirrorIsAhead'
      <3>1. Ahead(rapCould.mirror, rapRemote["nomads"])
        BY <1>1, <1>2, <2>1 DEF MirrorIsAhead
      <3>2. pc = "older" /\ rap.hour # NoHour => rapCould.mirror < rap.hour
        <4>1. pc = "older" => rap.hour \notin rapRemote["nomads"]
          BY <1>7
        <4>2. rapCould.mirror = rap.hour /\ rap.hour # NoHour => rap.hour \in rapRemote["nomads"]
          BY <3>1 DEF Ahead
        <4>3. rapCould.mirror <= rap.hour
          BY <3>1 DEF Ahead
        <4> QED
          BY <1>2, <2>2, <4>1, <4>2, <4>3 DEF AnalysisHours, NoHour
      <3> QED
        BY <1>2, <3>1, <3>2 DEF MirrorIsAhead, Ahead, Fetching, IsLocal
    <2>4. AnyIsAhead'
      <3> SUFFICES ASSUME ~(rapFaults.content > 0) PROVE AnyIsAhead'
        BY DEF AnyIsAhead
      <3>1. /\ Ahead(rapCould.any, rapRemote["s3"] \cup rapRemote["nomads"])
            /\ rap.pc = "nomads" /\ rapCould.any = rap.hour /\ rap.hour # NoHour =>
                 rap.hour \in rapRemote["nomads"]
        BY <1>1, <1>2, <2>1 DEF AnyIsAhead
      <3>2. \A f \in rapDir : f.hour # rap.hour
        <4> SUFFICES ASSUME NEW f \in rapDir, f.hour = rap.hour PROVE FALSE
          OBVIOUS
        <4>1. f \in Damaged
          BY <1>1, <1>2 DEF SearchedDownTo, Damaged
        <4>2. IsFiniteSet(Damaged)
          <5>1. Damaged \in SUBSET rapDir
            BY DEF Damaged
          <5> QED
            BY <1>1, <5>1, FS_Subset DEF RapType
        <4>3. Cardinality(Damaged) # 0 /\ Cardinality(Damaged) \in Nat
          BY <4>1, <4>2, FS_EmptySet, FS_CardinalityType
        <4> QED
          BY <1>1, <1>5, <4>3 DEF DamageIsCounted
      <3>3. pc = "nomads" /\ rapCould.any = rap.hour /\ rap.hour # NoHour =>
              rap.hour \in rapRemote["nomads"]
        BY <1>7, <3>1, <3>2 DEF Ahead
      <3>4. pc = "older" /\ rap.hour # NoHour => rapCould.any < rap.hour
        <4>1. pc = "older" => rap.pc = "nomads" /\ rap.hour \notin rapRemote["nomads"]
          BY <1>7
        <4>2. rapCould.any <= rap.hour
          BY <3>1 DEF Ahead
        <4> QED
          BY <1>2, <2>2, <3>1, <4>1, <4>2 DEF AnalysisHours, NoHour
      <3>5. Ahead(rapCould.any, rapRemote["s3"] \cup rapRemote["nomads"])'
        BY <1>2, <3>1, <3>4 DEF Ahead, Fetching, IsLocal
      <3> QED
        BY <1>2, <3>3, <3>5 DEF AnyIsAhead
    <2> QED
      BY <1>3, <1>4, <2>3, <2>4 DEF RapInv
  <1> QED
    BY <1>6, <1>7

\* A file arrives whole, and ends the search.
LEMMA WholeFileKeeps ==
  ASSUME RapInv, Fetching, rap.hour \in AnalysisHours, Write(rap.hour, TRUE), GoTo("chosen"),
         UNCHANGED <<rapRemote, rapCould, rapFaults>>
  PROVE  RapInv'
  <1>1. RapType /\ DamageIsCounted /\ SearchedDownTo /\ MirrorIsAhead /\ AnyIsAhead
    BY DEF RapInv
  <1>2. /\ rap'.pc = "chosen" /\ rap'.time = rap.time /\ rap'.hour = rap.hour
        /\ rap' \in [pc: RapPcs, time: Nat \cup {NoHour}, hour: AnalysisHours \cup {NoHour}]
        /\ rap.pc # "idle" /\ rap.hour # NoHour
    BY <1>1 DEF RapType, RapPcs, GoTo, Fetching, NoHour, AnalysisHours
  <1>3. rapDir' = WithoutHour(rap.hour) \cup {[hour |-> rap.hour, valid |-> TRUE]}
    BY DEF Write
  <1>4. Damaged' \in SUBSET Damaged /\ Damaged \in SUBSET rapDir /\ WithoutHour(rap.hour) \in SUBSET rapDir
    BY <1>3 DEF Damaged, WithoutHour
  <1>5. /\ IsFiniteSet(rapDir') /\ rapDir' \subseteq [hour: AnalysisHours, valid: BOOLEAN]
    <2>1. IsFiniteSet(WithoutHour(rap.hour))
      BY <1>1, <1>4, FS_Subset DEF RapType
    <2>2. IsFiniteSet(WithoutHour(rap.hour) \cup {[hour |-> rap.hour, valid |-> TRUE]})
      BY <2>1, FS_AddElement
    <2>3. [hour |-> rap.hour, valid |-> TRUE] \in [hour: AnalysisHours, valid: BOOLEAN]
      OBVIOUS
    <2>4. IsFiniteSet(rapDir')
      BY <1>3, <2>2
    <2> QED
      BY <1>1, <1>3, <1>4, <2>3, <2>4 DEF RapType
  <1>6. DamageIsCounted'
    <2>1. IsFiniteSet(Damaged)
      BY <1>1, <1>4, FS_Subset DEF RapType
    <2>2. IsFiniteSet(Damaged') /\ Cardinality(Damaged') <= Cardinality(Damaged)
      BY <1>4, <2>1, FS_Subset
    <2>3. /\ Cardinality(Damaged') \in Nat /\ Cardinality(Damaged) \in Nat
          /\ rapFaults.content \in Nat
      BY <1>1, <2>1, <2>2, FS_CardinalityType DEF RapType, RapFaultKinds
    <2> QED
      BY <1>1, <2>2, <2>3 DEF DamageIsCounted
  <1>7. RapType'
    BY <1>1, <1>2, <1>5 DEF RapType
  <1>8. SearchedDownTo'
    <2>1. IsLocal(rap.hour)'
      BY <1>2, <1>3 DEF IsLocal
    <2>2. rap.hour \in Int /\ ~(rap.hour > rap.hour)
      BY DEF AnalysisHours
    <2> QED
      BY <1>1, <1>2, <1>3, <2>1, <2>2 DEF SearchedDownTo, Fetching, WithoutHour, IsLocal
  <1>9. ASSUME NEW b, NEW o, Ahead(b, o), b \in AnalysisHours \cup {NoHour}
        PROVE  /\ b <= rap.hour /\ (b = NoHour \/ b \in Eligible(rap.time))
               /\ b # NoHour /\ b < rap.hour => IsLocal(b)' \/ b \in o
    <2>1. b < rap.hour => b # rap.hour
      BY <1>9 DEF AnalysisHours, NoHour
    <2> QED
      BY <1>3, <1>9, <2>1 DEF Ahead, IsLocal, WithoutHour
  <1>10. /\ rapCould.mirror \in AnalysisHours \cup {NoHour}
         /\ rapCould.any \in AnalysisHours \cup {NoHour}
    BY <1>1 DEF RapType
  <1>11. (MirrorIsAhead /\ AnyIsAhead)'
    <2>1. Ahead(rapCould.mirror, rapRemote["nomads"]) => Ahead(rapCould.mirror, rapRemote["nomads"])'
      BY <1>2, <1>9, <1>10 DEF Ahead, Fetching
    <2>2. Ahead(rapCould.any, rapRemote["s3"] \cup rapRemote["nomads"])
            => Ahead(rapCould.any, rapRemote["s3"] \cup rapRemote["nomads"])'
      BY <1>2, <1>9, <1>10 DEF Ahead, Fetching
    <2> QED
      BY <1>1, <1>2, <2>1, <2>2 DEF MirrorIsAhead, AnyIsAhead
  <1> QED
    BY <1>6, <1>7, <1>8, <1>11 DEF RapInv

\* A file arrives damaged: a fault of its content, and the search goes on.
LEMMA DamagedFileKeeps ==
  ASSUME RapInv, Fetching, rap.hour \in AnalysisHours, RapFault("content"), Write(rap.hour, FALSE),
         NEW pc \in {"s3_sync", "nomads"}, GoTo(pc), UNCHANGED <<rapRemote, rapCould>>
  PROVE  RapInv'
  <1>1. RapType /\ DamageIsCounted /\ SearchedDownTo /\ MirrorIsAhead /\ AnyIsAhead
    BY DEF RapInv
  <1>2. /\ rap'.pc = pc /\ rap'.time = rap.time /\ rap'.hour = rap.hour
        /\ rap' \in [pc: RapPcs, time: Nat \cup {NoHour}, hour: AnalysisHours \cup {NoHour}]
        /\ rap.pc # "idle" /\ rap.hour # NoHour
    BY <1>1 DEF RapType, RapPcs, GoTo, Fetching, NoHour, AnalysisHours
  <1>3. /\ rapFaults' \in [RapFaultKinds -> Nat] /\ rapFaults'.content = rapFaults.content + 1
        /\ rapFaults'.s3 = rapFaults.s3 /\ rapFaults'.nomads = rapFaults.nomads
        /\ rapFaults.content \in Nat
    <2>1. "content" \in RapFaultKinds /\ "s3" \in RapFaultKinds /\ "nomads" \in RapFaultKinds
      BY DEF RapFaultKinds
    <2>2. /\ rapFaults' \in [RapFaultKinds -> Nat] /\ rapFaults'["content"] = rapFaults["content"] + 1
          /\ \A k \in RapFaultKinds : k # "content" => rapFaults'[k] = rapFaults[k]
      BY <1>1, <2>1, RapFaultCounts
    <2>3. rapFaults["content"] \in Nat
      BY <1>1, <2>1 DEF RapType
    <2> QED
      BY <1>1, <2>1, <2>2, <2>3 DEF RapType
  <1> DEFINE torn == [hour |-> rap.hour, valid |-> FALSE]
  <1>4. rapDir' = WithoutHour(rap.hour) \cup {torn}
    BY DEF Write
  <1>5. /\ Damaged' \in SUBSET (Damaged \cup {torn})
        /\ Damaged \in SUBSET rapDir /\ WithoutHour(rap.hour) \in SUBSET rapDir
    BY <1>4 DEF Damaged, WithoutHour
  <1>6. /\ IsFiniteSet(rapDir') /\ rapDir' \subseteq [hour: AnalysisHours, valid: BOOLEAN]
    <2>1. IsFiniteSet(WithoutHour(rap.hour))
      BY <1>1, <1>5, FS_Subset DEF RapType
    <2>2. IsFiniteSet(WithoutHour(rap.hour) \cup {torn})
      BY <2>1, FS_AddElement
    <2>3. torn \in [hour: AnalysisHours, valid: BOOLEAN]
      OBVIOUS
    <2>4. IsFiniteSet(rapDir')
      BY <1>4, <2>2
    <2> HIDE DEF torn
    <2> QED
      BY <1>1, <1>4, <1>5, <2>3, <2>4 DEF RapType
  <1>7. DamageIsCounted'
    <2> HIDE DEF torn
    <2>1. IsFiniteSet(Damaged)
      BY <1>1, <1>5, FS_Subset DEF RapType
    <2>2. /\ IsFiniteSet(Damaged \cup {torn}) /\ Cardinality(Damaged) \in Nat
          /\ Cardinality(Damaged \cup {torn}) <= Cardinality(Damaged) + 1
          /\ Cardinality(Damaged \cup {torn}) \in Nat
      <3>1. Cardinality(Damaged) \in Nat
        BY <2>1, FS_CardinalityType
      <3>2. /\ IsFiniteSet(Damaged \cup {torn})
            /\ Cardinality(Damaged \cup {torn}) =
                 IF torn \in Damaged THEN Cardinality(Damaged) ELSE Cardinality(Damaged) + 1
        BY <2>1, FS_AddElement
      <3> QED
        BY <3>1, <3>2
    <2>3. IsFiniteSet(Damaged') /\ Cardinality(Damaged') <= Cardinality(Damaged \cup {torn})
      BY <1>5, <2>2, FS_Subset
    <2>4. Cardinality(Damaged') \in Nat
      BY <2>3, FS_CardinalityType
    <2> QED
      BY <1>1, <1>3, <2>2, <2>3, <2>4 DEF DamageIsCounted
  <1>8. RapType'
    BY <1>1, <1>2, <1>3, <1>6 DEF RapType
  <1>9. SearchedDownTo'
    <2>1. rap.hour \in Int /\ ~(rap.hour > rap.hour)
      BY DEF AnalysisHours
    <2> QED
      BY <1>1, <1>2, <1>4, <2>1 DEF SearchedDownTo, Fetching, WithoutHour, IsLocal
  <1>10. MirrorIsAhead'
    <2> SUFFICES ASSUME Ahead(rapCould.mirror, rapRemote["nomads"])
                 PROVE  Ahead(rapCould.mirror, rapRemote["nomads"])'
      BY <1>1, <1>2, <1>3 DEF MirrorIsAhead
    <2>1. rapCould.mirror \in AnalysisHours \cup {NoHour}
      BY <1>1 DEF RapType
    <2>2. rapCould.mirror < rap.hour => rapCould.mirror # rap.hour
      BY <2>1 DEF AnalysisHours, NoHour
    <2>3. rapCould.mirror # NoHour /\ rapCould.mirror < rap.hour =>
            IsLocal(rapCould.mirror)' \/ rapCould.mirror \in rapRemote["nomads"]
      BY <1>4, <2>2 DEF Ahead, IsLocal, WithoutHour
    <2> QED
      BY <1>2, <2>3 DEF Ahead, Fetching
  <1>11. AnyIsAhead'
    BY <1>3 DEF AnyIsAhead
  <1> QED
    BY <1>7, <1>8, <1>9, <1>10, <1>11 DEF RapInv

\* The next older hour, of those that are left; none is passed over.
LEMMA TryOlderKeeps == ASSUME RapInv, TryOlder PROVE RapInv'
  <1> DEFINE older == {h \in Eligible(rap.time) : h < rap.hour}
  <1>0. /\ rap.pc = "older" /\ UNCHANGED <<rapRemote, rapDir, rapChosen, rapCould, rapFaults>>
        /\ rap' = IF older = {} THEN NoRequest ELSE [rap EXCEPT !.pc = "local", !.hour = Latest(older)]
    BY DEF TryOlder
  <1>1. RapType /\ DamageIsCounted /\ SearchedDownTo /\ MirrorIsAhead /\ AnyIsAhead
    BY DEF RapInv
  <1>2. CASE older = {}
    <2>1. /\ rapFaults' \in [RapFaultKinds -> Nat] /\ rapFaults.content <= rapFaults'.content
          /\ rapDir' \subseteq rapDir
      BY <1>0, <1>1 DEF RapType, RapFaultKinds
    <2> QED
      BY <1>0, <1>2, <2>1, RestKeeps
  <1>3. CASE older # {}
    <2>1. rap.time \in Nat
      BY <1>0, <1>1 DEF SearchedDownTo
    <2>2. /\ Eligible(rap.time) \subseteq AnalysisHours /\ IsFiniteSet(Eligible(rap.time))
      BY <2>1, EligibleHours
    <2>3. older \in SUBSET Eligible(rap.time)
      OBVIOUS
    <2>4. older \subseteq AnalysisHours /\ IsFiniteSet(older)
      BY <2>2, <2>3, FS_Subset
    <2>5. Latest(older) \in older /\ \A h \in older : h <= Latest(older)
      BY <1>3, <2>4, LatestHour
    <2>6. /\ Latest(older) \in Eligible(rap.time) /\ Latest(older) \in AnalysisHours
          /\ Latest(older) < rap.hour
          /\ \A h \in Eligible(rap.time) : h < rap.hour => h <= Latest(older)
      BY <2>2, <2>5
    <2>7. rap' = [rap EXCEPT !.pc = "local", !.hour = Latest(older)]
      BY <1>0, <1>3
    <2> HIDE DEF older
    <2>8. rap.hour \in AnalysisHours /\ rap.hour # NoHour
      <3>1. rap.hour \in AnalysisHours \cup {NoHour}
        BY <1>1 DEF RapType
      <3> QED
        BY <2>6, <3>1 DEF NoHour, AnalysisHours
    <2>9. /\ rap'.pc = "local" /\ rap'.time = rap.time /\ rap'.hour = Latest(older)
          /\ rap' \in [pc: RapPcs, time: Nat \cup {NoHour}, hour: AnalysisHours \cup {NoHour}]
      BY <1>1, <2>6, <2>7 DEF RapType, RapPcs
    <2>10. (RapType /\ DamageIsCounted)'
      BY <1>0, <1>1, <2>9 DEF RapType, DamageIsCounted, Damaged
    <2>11. SearchedDownTo'
      <3>1. ASSUME NEW f \in rapDir, f.hour > Latest(older) PROVE ~f.valid
        <4>1. f.hour \in Eligible(rap.time) /\ f.hour \in AnalysisHours
          BY <1>0, <1>1, <2>2 DEF SearchedDownTo
        <4>2. f.hour \in Nat /\ rap.hour \in Nat /\ Latest(older) \in Nat
          BY <2>6, <2>8, <4>1 DEF AnalysisHours
        <4>3. ~(f.hour < rap.hour)
          BY <2>6, <3>1, <4>1, <4>2
        <4>4. f.hour = rap.hour \/ f.hour > rap.hour
          BY <4>2, <4>3
        <4> QED
          BY <1>0, <1>1, <4>4 DEF SearchedDownTo
      <3> QED
        BY <1>0, <1>1, <2>6, <2>9, <3>1 DEF SearchedDownTo, Fetching
    <2>12. ASSUME NEW b, NEW o, Ahead(b, o), b \in AnalysisHours \cup {NoHour}
           PROVE  /\ b <= Latest(older) /\ (b = NoHour \/ b \in Eligible(rap.time))
                  /\ b # NoHour => IsLocal(b) \/ b \in o
      <3>1. b < rap.hour /\ (b = NoHour \/ b \in Eligible(rap.time))
        BY <1>0, <2>8, <2>12 DEF Ahead
      <3>2. b <= Latest(older)
        BY <2>6, <2>12, <3>1 DEF NoHour, AnalysisHours
      <3> QED
        BY <2>12, <3>1, <3>2 DEF Ahead
    <2>13. /\ rapCould.mirror \in AnalysisHours \cup {NoHour}
           /\ rapCould.any \in AnalysisHours \cup {NoHour}
      BY <1>1 DEF RapType
    <2>14. (MirrorIsAhead /\ AnyIsAhead)'
      <3>1. Ahead(rapCould.mirror, rapRemote["nomads"]) => Ahead(rapCould.mirror, rapRemote["nomads"])'
        BY <1>0, <2>9, <2>12, <2>13 DEF Ahead, Fetching, IsLocal
      <3>2. Ahead(rapCould.any, rapRemote["s3"] \cup rapRemote["nomads"])
              => Ahead(rapCould.any, rapRemote["s3"] \cup rapRemote["nomads"])'
        BY <1>0, <2>9, <2>12, <2>13 DEF Ahead, Fetching, IsLocal
      <3> QED
        BY <1>0, <1>1, <2>9, <3>1, <3>2 DEF MirrorIsAhead, AnyIsAhead
    <2> QED
      BY <2>10, <2>11, <2>14 DEF RapInv
  <1> QED
    BY <1>2, <1>3

\* What was chosen is handed over, or the process dies.
LEMMA RequestEndsKeeps == ASSUME RapInv, HandOverRap \/ RapDies PROVE RapInv'
  <1>1. RapType
    BY DEF RapInv
  <1>2. CASE HandOverRap
    <2>1. /\ rapDir' \subseteq rapDir /\ rap' = NoRequest
          /\ UNCHANGED <<rapRemote, rapCould, rapFaults>>
      BY <1>2 DEF HandOverRap, NewestFiles, Retained
    <2>2. rapFaults' \in [RapFaultKinds -> Nat] /\ rapFaults.content <= rapFaults'.content
      BY <1>1, <2>1 DEF RapType, RapFaultKinds
    <2> QED
      BY <2>1, <2>2, RestKeeps
  <1>3. CASE RapDies
    <2>1. /\ RapFault("crash") /\ rap' = NoRequest /\ rapDir' \subseteq rapDir
          /\ UNCHANGED <<rapRemote, rapCould>>
      BY <1>3 DEF RapDies
    <2>2. "crash" \in RapFaultKinds /\ "content" \in RapFaultKinds
      BY DEF RapFaultKinds
    <2>3. rapFaults' \in [RapFaultKinds -> Nat] /\ rapFaults["content"] <= rapFaults'["content"]
      BY <1>1, <2>1, <2>2, RapFaultCounts
    <2> QED
      BY <2>1, <2>3, RestKeeps
  <1> QED
    BY <1>2, <1>3

\* A source that fails, or has nothing, is followed by the next.
LEMMA SourcesKeep ==
  ASSUME RapInv, SkipExisting \/ NotOnS3 \/ FetchFromS3 \/ S3Fails \/ FetchFromNomads \/ NomadsFails
  PROVE  RapInv'
  <1>1. RapType
    BY DEF RapInv
  <1>2. /\ "content" \in RapFaultKinds /\ "s3" \in RapFaultKinds /\ "nomads" \in RapFaultKinds
        /\ \A k \in RapFaultKinds : rapFaults[k] \in Nat
    BY <1>1 DEF RapType, RapFaultKinds
  <1>3. UNCHANGED rapFaults =>
          /\ rapFaults' \in [RapFaultKinds -> Nat] /\ rapFaults.content = rapFaults'.content
          /\ rapFaults.s3 <= rapFaults'.s3 /\ rapFaults.nomads <= rapFaults'.nomads
    BY <1>1, <1>2 DEF RapType
  <1>4. \A h \in AnalysisHours \cup {NoHour}, via \in {"s3", "nomads"} :
          h \in rapRemote[via] => h \in AnalysisHours
    BY <1>1 DEF RapType
  <1>5. rap.hour \in AnalysisHours \cup {NoHour}
    BY <1>1 DEF RapType
  <1>6. CASE SkipExisting
    <2>1. PICK pc \in {"s3_sync", "nomads"} : rap' = [rap EXCEPT !.pc = pc]
      BY <1>6 DEF SkipExisting, GoTo
    <2>2. /\ Fetching /\ (\E f \in rapDir : f.hour = rap.hour)
          /\ UNCHANGED <<rapRemote, rapDir, rapCould, rapFaults>>
      BY <1>6 DEF SkipExisting, Fetching
    <2> QED
      BY <1>3, <2>1, <2>2, NextSourceKeeps
  <1>7. CASE NotOnS3
    <2>1. /\ Fetching /\ rap.hour \notin rapRemote["s3"] /\ rap' = [rap EXCEPT !.pc = "nomads"]
          /\ UNCHANGED <<rapRemote, rapDir, rapCould, rapFaults>>
      BY <1>7 DEF NotOnS3, Fetching, GoTo
    <2> QED
      BY <1>3, <2>1, NextSourceKeeps
  <1>8. CASE FetchFromS3
    <2>1. /\ Fetching /\ rap.hour \in AnalysisHours /\ UNCHANGED <<rapRemote, rapCould>>
      BY <1>4, <1>5, <1>8 DEF FetchFromS3, Fetching
    <2>2. CASE Write(rap.hour, TRUE) /\ GoTo("chosen") /\ UNCHANGED rapFaults
      BY <2>1, <2>2, WholeFileKeeps
    <2>3. CASE /\ RapFault("content") /\ Write(rap.hour, FALSE)
               /\ GoTo(IF rap.pc = "s3_async" THEN "s3_sync" ELSE "nomads")
      <3>1. PICK pc \in {"s3_sync", "nomads"} : GoTo(pc)
        BY <2>3
      <3> QED
        BY <2>1, <2>3, <3>1, DamagedFileKeeps
    <2> QED
      BY <1>8, <2>2, <2>3 DEF FetchFromS3
  <1>9. CASE S3Fails
    <2>1. PICK pc \in {"s3_sync", "nomads"} : rap' = [rap EXCEPT !.pc = pc]
      BY <1>9 DEF S3Fails, GoTo
    <2>2. Fetching /\ RapFault("s3") /\ UNCHANGED <<rapRemote, rapDir, rapCould>>
      BY <1>9 DEF S3Fails, Fetching
    <2>3. /\ rapFaults' \in [RapFaultKinds -> Nat] /\ rapFaults'["s3"] = rapFaults["s3"] + 1
          /\ rapFaults'["content"] = rapFaults["content"] /\ rapFaults'["nomads"] = rapFaults["nomads"]
      BY <1>1, <1>2, <2>2, RapFaultCounts
    <2>4. /\ rapFaults.s3 <= rapFaults'.s3 /\ rapFaults.nomads <= rapFaults'.nomads
          /\ rapFaults'.s3 + rapFaults'.nomads > 0
      BY <1>2, <2>3
    <2> QED
      BY <2>1, <2>2, <2>3, <2>4, NextSourceKeeps
  <1>10. CASE FetchFromNomads
    <2>1. Fetching /\ rap.pc = "nomads" /\ UNCHANGED <<rapRemote, rapCould, rapFaults>>
      BY <1>10 DEF FetchFromNomads, Fetching
    <2>2. CASE rap.hour \in rapRemote["nomads"]
      <3>1. rap.hour \in AnalysisHours
        BY <1>4, <1>5, <2>2
      <3>2. Write(rap.hour, TRUE) /\ GoTo("chosen")
        BY <1>10, <2>2 DEF FetchFromNomads
      <3> QED
        BY <2>1, <3>1, <3>2, WholeFileKeeps
    <2>3. CASE rap.hour \notin rapRemote["nomads"]
      <3>1. rap' = [rap EXCEPT !.pc = "older"] /\ UNCHANGED rapDir
        BY <1>10, <2>3 DEF FetchFromNomads, GoTo
      <3> QED
        BY <1>3, <2>1, <2>3, <3>1, NextSourceKeeps
    <2> QED
      BY <2>2, <2>3
  <1>11. CASE NomadsFails
    <2>1. /\ Fetching /\ RapFault("nomads") /\ UNCHANGED <<rapRemote, rapDir, rapCould>>
          /\ rap' = [rap EXCEPT !.pc = "older"]
      BY <1>11 DEF NomadsFails, Fetching, GoTo
    <2>3. /\ rapFaults' \in [RapFaultKinds -> Nat] /\ rapFaults'["nomads"] = rapFaults["nomads"] + 1
          /\ rapFaults'["content"] = rapFaults["content"] /\ rapFaults'["s3"] = rapFaults["s3"]
      BY <1>1, <1>2, <2>1, RapFaultCounts
    <2>4. /\ rapFaults.s3 <= rapFaults'.s3 /\ rapFaults.nomads <= rapFaults'.nomads
          /\ rapFaults'.s3 + rapFaults'.nomads > 0
      BY <1>2, <2>3
    <2> QED
      BY <2>1, <2>3, <2>4, NextSourceKeeps
  <1> QED
    BY <1>6, <1>7, <1>8, <1>9, <1>10, <1>11

\* One step, of a request or of those who publish analyses.
LEMMA NextRapInv == RapInv /\ [RapNext]_rapVars => RapInv'
  <1>1. RapInv /\ UNCHANGED rapVars => RapInv'
    BY DEF rapVars, RapInv, RapType, DamageIsCounted, Damaged, SearchedDownTo, MirrorIsAhead,
       AnyIsAhead, Ahead, Fetching, IsLocal
  <1> QED
    BY <1>1, CheckLocalKeeps, SourcesKeep, TryOlderKeeps, RequestEndsKeeps, StartRapKeeps,
       PublishAnalysisKeeps DEF RapNext

\* The second cleanup keeps what was chosen, unless as many damaged files of later hours
\* are there as files may stay.
LEMMA ChosenIsKept ==
  ASSUME RapInv, HandOverRap
  PROVE  [hour |-> rap.hour, valid |-> TRUE] \in rapDir' \/ rapFaults.content >= RapFiles
  <1> SUFFICES ASSUME ~(rapFaults.content >= RapFiles)
               PROVE  [hour |-> rap.hour, valid |-> TRUE] \in rapDir'
    OBVIOUS
  <1> DEFINE chosen == [hour |-> rap.hour, valid |-> TRUE]
             remaining == Retained(rap.time, rapDir)
             ahead == {g \in remaining : g.hour > rap.hour}
  <1>1. RapType /\ DamageIsCounted /\ SearchedDownTo /\ rap.pc = "chosen"
    BY DEF RapInv, HandOverRap
  <1>2. /\ rap.time \in Nat /\ chosen \in rapDir /\ rap.hour \in Eligible(rap.time)
    BY <1>1 DEF SearchedDownTo, IsLocal
  <1>3. chosen \in remaining
    BY <1>2, EligibleHours DEF Retained
  <1>4. ahead \in SUBSET Damaged /\ Damaged \in SUBSET rapDir
    BY <1>1 DEF Retained, SearchedDownTo, Damaged
  <1>5. IsFiniteSet(Damaged)
    BY <1>1, <1>4, FS_Subset DEF RapType
  <1>6. IsFiniteSet(ahead) /\ Cardinality(ahead) <= Cardinality(Damaged)
    BY <1>4, <1>5, FS_Subset
  <1>7. /\ Cardinality(ahead) \in Nat /\ Cardinality(Damaged) \in Nat
        /\ rapFaults.content \in Nat /\ RapFiles \in Nat
    BY <1>1, <1>5, <1>6, FS_CardinalityType, RapAssumption DEF RapType, RapFaultKinds
  <1>8. Cardinality(ahead) < RapFiles
    BY <1>1, <1>6, <1>7 DEF DamageIsCounted
  <1>9. ahead = {g \in remaining : g.hour > chosen.hour} /\ rapDir' = NewestFiles(remaining)
    BY DEF HandOverRap
  <1> HIDE DEF chosen, remaining, ahead
  <1> QED
    BY <1>3, <1>8, <1>9 DEF NewestFiles, chosen

\* Whatever is published and whatever fails, the analysis a request returns is young
\* enough, whole and still on disk, and no fresher one was to be had, unless a transfer
\* failed (the fallback chain and the cleanups of common/ingest/synoptic).
THEOREM FreshestAnalysisIsChosen == RapSpec => RapIsFreshest
  <1> DEFINE Fresh ==
         rapChosen' # rapChosen =>
           /\ rap.time - rap.hour <= MaxRapAge
           /\ [hour |-> rap.hour, valid |-> TRUE] \in rapDir' \/ rapFaults.content >= RapFiles
           /\ \/ rapFaults.s3 + rapFaults.nomads > 0
              \/ rap.hour >= IF rapFaults.content > 0 THEN rapCould.mirror ELSE rapCould.any
  <1>1. RapInit => RapInv
    <2> SUFFICES ASSUME RapInit PROVE RapInv
      OBVIOUS
    <2>1. /\ rapDir = {} /\ rap = NoRequest /\ rapFaults = [kind \in RapFaultKinds |-> 0]
          /\ rapRemote = [via \in {"s3", "nomads"} |-> {}]
          /\ rapCould = [any |-> NoHour, mirror |-> NoHour]
      BY DEF RapInit
    <2>2. Damaged = {} /\ IsFiniteSet({}) /\ Cardinality({}) = 0 /\ rapFaults.content = 0
      BY <2>1, FS_EmptySet DEF Damaged, RapFaultKinds
    <2>3. RapType
      BY <2>1, <2>2 DEF RapType, NoRequest, RapPcs
    <2> QED
      BY <2>1, <2>2, <2>3 DEF RapInv, DamageIsCounted, SearchedDownTo, MirrorIsAhead,
         AnyIsAhead, NoRequest
  <1>2. ASSUME RapInv, [RapNext]_rapVars PROVE [Fresh]_rapVars
    <2> SUFFICES ASSUME RapNext, rapChosen' # rapChosen PROVE Fresh
      BY <1>2
    <2>1. HandOverRap
      BY DEF RapNext, CheckLocal, SkipExisting, NotOnS3, FetchFromS3, S3Fails, FetchFromNomads,
         NomadsFails, TryOlder, RapDies, StartRap, PublishAnalysis
    <2>2. /\ RapType /\ SearchedDownTo /\ MirrorIsAhead /\ AnyIsAhead /\ rap.pc = "chosen"
      BY <1>2, <2>1 DEF RapInv, HandOverRap
    <2>3. rap.time - rap.hour <= MaxRapAge
      BY <2>2, EligibleHours DEF SearchedDownTo
    <2>4. /\ rap.hour \in Int /\ rapCould.mirror \in Int /\ rapCould.any \in Int
          /\ rapFaults.content \in Nat
      BY <2>2 DEF RapType, RapFaultKinds, AnalysisHours, NoHour
    <2>5. \/ rapFaults.s3 + rapFaults.nomads > 0
          \/ /\ rapCould.mirror <= rap.hour
             /\ rapFaults.content > 0 \/ rapCould.any <= rap.hour
      BY <2>2 DEF MirrorIsAhead, AnyIsAhead, Ahead
    <2>6. [hour |-> rap.hour, valid |-> TRUE] \in rapDir' \/ rapFaults.content >= RapFiles
      BY <1>2, <2>1, ChosenIsKept
    <2> QED
      BY <2>3, <2>4, <2>5, <2>6
  <1> QED
    BY <1>1, <1>2, NextRapInv, PTL DEF RapSpec, RapIsFreshest

=============================================================================
