------------------------------ MODULE MCProducts ------------------------------
(***************************************************************************)
(* What the services leave on disk for one another and for the API, part   *)
(* by part: one behaviour exercises the publication of cycles, the primary *)
(* and the gate that reads its heartbeat, one of the feeds (RAP, GLM, NWS  *)
(* alerts, zones), the detection or the tracking of cells, the readiness   *)
(* of a module's inputs, or the alerts of StormProb.  Only safety is       *)
(* checked here.                                                           *)
(***************************************************************************)
EXTENDS CyclePublication, ServiceGate, SynopticIngest, GlmIngest, AlertMatching,
        ZoneAssets, CellDetection, CellTracking, CtamReadiness, StormAlerts

CONSTANTS a1, a2, a3  \* alerts of the weather service

VARIABLE part  \* the part this behaviour is about

Parts == {"publication", "service", "rap", "glm", "nws", "matching", "zones",
          "detection", "tracking", "readiness", "storm alerts"}

\* One alert expires at once.
MCExpiresAt == [a \in Notices |-> IF a = a1 THEN 0 ELSE MaxTick]

\* Four gates in a row.
MCAdjacent == {<<1, 2>>, <<2, 3>>, <<3, 4>>}

\* A margin of one gate.
MCCrop ==
    [strong \in SUBSET (1..4) |->
        {g \in 1..4 : \E a, b \in strong : a - 1 <= g /\ g <= b + 1}]

\* Manifests of up to two records with at most one thing wrong with each; RAP is an hour old.
MCRecords ==
    {r \in Records :
        /\ r.age = (IF r.product = "RAP" THEN 1 ELSE 0) /\ r.file # "large"
        /\ ~r.validated => r.aligned /\ r.file = "there" /\ r.role = "current"
        /\ ~r.aligned => r.validated /\ r.file = "there" /\ r.role = "current"
        /\ r.role = "previous" => r.file = "there" /\ r.product # "RAP"}
MCManifests == UNION {[1..n -> MCRecords] : n \in 0..2}

allVars ==
    <<part, publicationVars, serviceVars, rapVars, glmVars, nwsVars, matchVars, zoneVars,
      detectionVars, cellVars, readyVars, alertVars>>

\* The others rest, in one state each.
MCInit ==
    /\ part \in Parts
    /\ PublicationInit /\ ServiceInit /\ RapInit /\ GlmInit /\ NwsInit /\ MatchInit
    /\ CellInit /\ AlertInit
    /\ ZoneInit /\ (part = "zones" \/ zoneFile.codes = {})
    /\ IF part = "detection" THEN DetectionInit
       ELSE /\ radar = NoCells /\ drawn = NoCells /\ expansion = TRUE
            /\ found = NoCells /\ detected = FALSE
    /\ IF part = "readiness"
       THEN /\ ReadyInit
            /\ IF wants.selector.kind = "input"
               THEN host = [snapshot |-> "there", history |-> [c \in Storms |-> Absent]]
               ELSE staged = <<>>
       ELSE /\ wants = "none" /\ stage = "none" /\ minute = 0 /\ staged = <<>> /\ host = "none"
            /\ entries = {} /\ judged = "none" /\ recorded = "none"

\* The matching is exercised on sound passes over one alert at a time.
SoundPasses == nwsFaults' = 0 /\ DOMAIN feed' \cap Dropped = {} /\ Cardinality(DOMAIN feed') <= 1

MCNext ==
    \/ /\ part = "publication" /\ PublicationNext
       /\ UNCHANGED <<part, serviceVars, rapVars, glmVars, nwsVars, matchVars, zoneVars,
                      detectionVars, cellVars, readyVars, alertVars>>
    \/ /\ part = "service" /\ ServiceNext
       /\ UNCHANGED <<part, publicationVars, rapVars, glmVars, nwsVars, matchVars, zoneVars,
                      detectionVars, cellVars, readyVars, alertVars>>
    \/ /\ part = "rap" /\ RapNext
       /\ UNCHANGED <<part, publicationVars, serviceVars, glmVars, nwsVars, matchVars, zoneVars,
                      detectionVars, cellVars, readyVars, alertVars>>
    \/ /\ part = "glm" /\ GlmNext
       /\ UNCHANGED <<part, publicationVars, serviceVars, rapVars, nwsVars, matchVars, zoneVars,
                      detectionVars, cellVars, readyVars, alertVars>>
    \/ /\ part = "nws" /\ NwsNext
       /\ UNCHANGED <<part, publicationVars, serviceVars, rapVars, glmVars, matchVars, zoneVars,
                      detectionVars, cellVars, readyVars, alertVars>>
    \/ /\ part = "matching" /\ AlertsNext /\ SoundPasses
       /\ UNCHANGED <<part, publicationVars, serviceVars, rapVars, glmVars, zoneVars,
                      detectionVars, cellVars, readyVars, alertVars>>
    \/ /\ part = "zones" /\ ZoneNext
       /\ UNCHANGED <<part, publicationVars, serviceVars, rapVars, glmVars, nwsVars, matchVars,
                      detectionVars, cellVars, readyVars, alertVars>>
    \/ /\ part = "detection" /\ DetectionNext
       /\ UNCHANGED <<part, publicationVars, serviceVars, rapVars, glmVars, nwsVars, matchVars,
                      zoneVars, cellVars, readyVars, alertVars>>
    \/ /\ part = "tracking" /\ CellNext
       /\ UNCHANGED <<part, publicationVars, serviceVars, rapVars, glmVars, nwsVars, matchVars,
                      zoneVars, detectionVars, readyVars, alertVars>>
    \/ /\ part = "readiness" /\ ReadyNext
       /\ UNCHANGED <<part, publicationVars, serviceVars, rapVars, glmVars, nwsVars, matchVars,
                      zoneVars, detectionVars, cellVars, alertVars>>
    \/ /\ part = "storm alerts" /\ AlertNext
       /\ UNCHANGED <<part, publicationVars, serviceVars, rapVars, glmVars, nwsVars, matchVars,
                      zoneVars, detectionVars, cellVars, readyVars>>

MCSpec == MCInit /\ [][MCNext]_allVars
=============================================================================
