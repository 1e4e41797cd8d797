---------------------------- MODULE WpcAnalyses ----------------------------
(***************************************************************************)
(* The WPC loop (common/ingest/wpc): the surface analysis of the present   *)
(* and of the previous slot, each saved under its time and as the latest.  *)
(* A slot is one update interval of three hours.                           *)
(***************************************************************************)
EXTENDS Integers, FiniteSets, FiniteSetsExt

CONSTANTS
    LastSlot,     \* slots that pass (bounds the model)
    RetainSlots,  \* cleanup_max_age_minutes, in slots
    MaxWpcFaults  \* downloads that fail (bounds the model)

VARIABLES
    slot,       \* the present slot
    onServer,   \* analyses the server has
    wpcPass,    \* the pass: [pc, now], now the slot it began in
    saved,      \* saved[s]: when the file of an analysis was last written, or Never
    latestFile, \* the analysis in latest.geojson
    wpcFaults

wpcVars == <<slot, onServer, wpcPass, saved, latestFile, wpcFaults>>

Never == -1
SlotsPassed == 0..LastSlot

WpcInit ==
    /\ slot = 0
    /\ onServer \in SUBSET {0}
    /\ wpcPass = [pc |-> "idle", now |-> 0]
    /\ saved = [s \in SlotsPassed |-> Never]
    /\ latestFile = Never
    /\ wpcFaults = 0

SlotPasses ==
    /\ slot < LastSlot
    /\ slot' = slot + 1
    /\ UNCHANGED <<onServer, wpcPass, saved, latestFile, wpcFaults>>

PublishAnalysisOf(s) ==
    /\ s <= slot /\ s \notin onServer
    /\ onServer' = onServer \cup {s}
    /\ UNCHANGED <<slot, wpcPass, saved, latestFile, wpcFaults>>

StartWpc ==
    /\ wpcPass.pc = "idle"
    /\ wpcPass' = [pc |-> "present", now |-> slot]
    /\ UNCHANGED <<slot, onServer, saved, latestFile, wpcFaults>>

\* download_coded_surface: an HTTP error makes it ask for the slot before, once.
Obtained(s) ==
    IF s \in onServer THEN s ELSE IF s - 1 \in onServer THEN s - 1 ELSE Never

\* fetch_surface_analysis: the latest file first, then the one named for its time.
FetchAnalysis(s) ==
    \/ /\ Obtained(s) # Never
       /\ latestFile' = Obtained(s)
       /\ saved' = [saved EXCEPT ![Obtained(s)] = slot]
       /\ UNCHANGED wpcFaults
    \/ /\ \/ Obtained(s) = Never /\ UNCHANGED wpcFaults
          \/ wpcFaults < MaxWpcFaults /\ wpcFaults' = wpcFaults + 1
       /\ UNCHANGED <<saved, latestFile>>

FetchPresent ==
    /\ wpcPass.pc = "present"
    /\ FetchAnalysis(wpcPass.now)
    /\ wpcPass' = [wpcPass EXCEPT !.pc = "previous"]
    /\ UNCHANGED <<slot, onServer>>

FetchPrevious ==
    /\ wpcPass.pc = "previous"
    /\ FetchAnalysis(wpcPass.now - 1)
    /\ wpcPass' = [wpcPass EXCEPT !.pc = "clean"]
    /\ UNCHANGED <<slot, onServer>>

\* By modification time, the latest file excepted.
CleanOldAnalyses ==
    /\ wpcPass.pc = "clean"
    /\ saved' = [s \in SlotsPassed |-> IF slot - saved[s] > RetainSlots THEN Never ELSE saved[s]]
    /\ wpcPass' = [wpcPass EXCEPT !.pc = "idle"]
    /\ UNCHANGED <<slot, onServer, latestFile, wpcFaults>>

WpcNext ==
    \/ SlotPasses \/ StartWpc \/ FetchPresent \/ FetchPrevious \/ CleanOldAnalyses
    \/ \E s \in SlotsPassed : PublishAnalysisOf(s)

WpcSpec == WpcInit /\ [][WpcNext]_wpcVars

\* Between passes latest.geojson is the newest of the analyses that are listed.
\* What the code does: the pass saves the previous analysis after the present one,
\* and each save overwrites the file.
LatestIsNewest ==
    wpcPass.pc = "idle" =>
        \A s \in SlotsPassed : saved[s] # Never => latestFile >= s

=============================================================================
