--------------------------- MODULE SurfaceIngest ---------------------------
(***************************************************************************)
(* The METAR loop (common/ingest/metar.py): hourly cycle files fetched and *)
(* parsed concurrently against a station database that one process loads   *)
(* once.  The server keeps one file per hour of the day, which holds       *)
(* yesterday's hour until today's replaces it.                             *)
(***************************************************************************)
EXTENDS Integers, FiniteSets

CONSTANTS
    LastHour,       \* hours that pass (bounds the model)
    Day,            \* hours of a day: the server's files
    Lookback,       \* metar.lookback_hours
    MaxMetarFaults  \* downloads and processes that fail (bounds the model)

ASSUME MetarAssumption ==
    /\ LastHour \in Nat /\ Day \in Nat /\ Lookback \in Nat \ {0} /\ Lookback < Day

VARIABLES
    hour,         \* the present hour
    server,       \* server[slot]: the hour whose observations a file holds
    stations,     \* _station_cache: "unset", "empty" or "full"
    stationFile,  \* whether its copy is on disk
    threads,      \* threads[h]: [pc, content, seen] of an hour of the pass
    metarDir,     \* metarDir[h]: the file of an hour, [content, whole]
    metarFaults

metarVars == <<hour, server, stations, stationFile, threads, metarDir, metarFaults>>

Hours == 0..LastHour
Slots == 0..(Day - 1)
SlotOf(h) == h % Day
NoFile == [content |-> -1 - Day, whole |-> FALSE]
Idle == [pc |-> "idle", content |-> -1 - Day, seen |-> {}]
InWindow(h) == h <= hour /\ h > hour - Lookback

MetarInit ==
    /\ hour = 0
    /\ server = [s \in Slots |-> s - Day]
    /\ stations = "unset"
    /\ stationFile = FALSE
    /\ threads = [h \in Hours |-> Idle]
    /\ metarDir = [h \in Hours |-> NoFile]
    /\ metarFaults = 0

MetarFault == metarFaults < MaxMetarFaults /\ metarFaults' = metarFaults + 1
Resting == \A h \in Hours : threads[h].pc = "idle"
Step(h, pc) == threads' = [threads EXCEPT ![h].pc = pc]

HourPasses ==
    /\ hour < LastHour
    /\ hour' = hour + 1
    /\ UNCHANGED <<server, stations, stationFile, threads, metarDir, metarFaults>>

ServerReplaces(h) ==
    /\ h <= hour /\ server[SlotOf(h)] < h
    /\ server' = [server EXCEPT ![SlotOf(h)] = h]
    /\ UNCHANGED <<hour, stations, stationFile, threads, metarDir, metarFaults>>

\* ensure_station_database, then one task per hour.  With a copy on disk the first
\* lookup loads it; a failed download leaves the cache unset.
StartMetarPass ==
    /\ Resting
    /\ threads' = [h \in Hours |-> IF InWindow(h) THEN [Idle EXCEPT !.pc = "fetch"] ELSE Idle]
    /\ \/ /\ stations # "unset" \/ stationFile
          /\ UNCHANGED <<stations, stationFile, metarFaults>>
       \/ /\ stations = "unset" /\ ~stationFile
          /\ \/ stations' = "full" /\ stationFile' = TRUE /\ UNCHANGED metarFaults
             \/ MetarFault /\ UNCHANGED <<stations, stationFile>>
    /\ UNCHANGED <<hour, server, metarDir>>

\* The URL names the hour of the day only.
FetchCycle(h) ==
    /\ threads[h].pc = "fetch"
    /\ \/ /\ threads' = [threads EXCEPT ![h] = [@ EXCEPT !.pc = "parse", !.content = server[SlotOf(h)]]]
          /\ UNCHANGED metarFaults
       \/ MetarFault /\ Step(h, "idle")
    /\ UNCHANGED <<hour, server, stations, stationFile, metarDir>>

\* _load_station_database: without a copy the cache is emptied before the download,
\* and a thread that looks meanwhile finds it empty, not unset.
LoadStations(h) ==
    /\ threads[h].pc = "parse" /\ stations = "unset"
    /\ stations' = IF stationFile THEN "full" ELSE "empty"
    /\ IF stationFile THEN UNCHANGED threads ELSE Step(h, "load")
    /\ UNCHANGED <<hour, server, stationFile, metarDir, metarFaults>>

DownloadStations(h) ==
    /\ threads[h].pc = "load"
    /\ \/ stations' = "full" /\ stationFile' = TRUE /\ UNCHANGED metarFaults
       \/ MetarFault /\ UNCHANGED <<stations, stationFile>>
    /\ Step(h, "parse")
    /\ UNCHANGED <<hour, server, metarDir>>

\* process_content looks one station up after the other: the database may fill
\* between the first and the last.
ParseCycle(h) ==
    /\ threads[h].pc \in {"parse", "parse_on"} /\ stations # "unset"
    /\ threads' = [threads EXCEPT ![h] = [@ EXCEPT
                     !.pc = IF @ = "parse" THEN "parse_on" ELSE "save",
                     !.seen = @ \cup {stations}]]
    /\ UNCHANGED <<hour, server, stations, stationFile, metarDir, metarFaults>>

\* Fault variant: the file of an hour that exists is left as it is.
SaveCycleOnce(h) ==
    /\ threads[h].pc = "save"
    /\ IF "full" \in threads[h].seen /\ metarDir[h] = NoFile
       THEN metarDir' = [metarDir EXCEPT ![h] =
                [content |-> threads[h].content, whole |-> threads[h].seen = {"full"}]]
       ELSE UNCHANGED metarDir
    /\ threads' = [threads EXCEPT ![h] = Idle]
    /\ UNCHANGED <<hour, server, stations, stationFile, metarFaults>>

\* Without a single located station nothing is saved and nothing is cleaned;
\* otherwise the file of the hour is replaced and what is too old goes.
SaveCycle(h) ==
    /\ threads[h].pc = "save"
    /\ IF "full" \in threads[h].seen
       THEN \E gone \in SUBSET {g \in Hours : g <= hour - Lookback} :
              metarDir' = [g \in Hours |->
                  IF g = h THEN [content |-> threads[h].content, whole |-> threads[h].seen = {"full"}]
                  ELSE IF g \in gone THEN NoFile ELSE metarDir[g]]
       ELSE UNCHANGED metarDir
    /\ threads' = [threads EXCEPT ![h] = Idle]
    /\ UNCHANGED <<hour, server, stations, stationFile, metarFaults>>

\* The process is killed and started again: its cache is gone, the copy is not.
MetarDies ==
    /\ stations # "unset" \/ ~Resting
    /\ MetarFault
    /\ stations' = "unset"
    /\ threads' = [h \in Hours |-> Idle]
    /\ UNCHANGED <<hour, server, stationFile, metarDir>>

MetarStep ==
    \/ StartMetarPass
    \/ \E h \in Hours : \/ FetchCycle(h) \/ LoadStations(h) \/ DownloadStations(h)
                        \/ ParseCycle(h) \/ SaveCycle(h)

MetarNext == MetarStep \/ HourPasses \/ MetarDies \/ \E h \in Hours : ServerReplaces(h)

\* The loop runs at every boundary, for ever.
MetarFairness == WF_metarVars(MetarStep)
MetarSpec == MetarInit /\ [][MetarNext]_metarVars /\ MetarFairness

\* The cache a failed download leaves behind is never filled again in this process.
StationsLost == stations = "empty" /\ \A h \in Hours : threads[h].pc # "load"

\* Once the server has the observations of an hour they reach that hour's file,
\* complete, while the hour is within the lookback: yesterday's file under the same
\* name, a file parsed against a database that was still being loaded and a failed
\* fetch are all made good by a later pass, unless the station database was lost for
\* the life of the process.
HourIsCaughtUp ==
    \A h \in Hours :
        server[SlotOf(h)] = h /\ InWindow(h)
            ~> \/ metarDir[h] = [content |-> h, whole |-> TRUE]
               \/ ~InWindow(h) \/ StationsLost

=============================================================================
