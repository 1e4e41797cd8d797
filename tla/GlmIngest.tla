----------------------------- MODULE GlmIngest -----------------------------
(***************************************************************************)
(* The GLM granules of a scan, fetched and merged for integration          *)
(* (util/runtime/goes.py download_glm_for_scan, common/ingest/mrms).       *)
(***************************************************************************)
EXTENDS Integers, FiniteSets, FiniteSetsExt

CONSTANTS
    Granules,     \* the granules in the minute before the scan
    MaxGlmFaults  \* what fails (bounds the model)

\* A granule is its time.
ASSUME GlmAssumption == Granules \subseteq Nat /\ IsFiniteSet(Granules)

VARIABLES
    listedGlm,  \* those on S3 when the attempt looked
    glmDir,     \* files: the set of granules each holds, one by one or merged
    glm,        \* the attempt: [pc, todo, got]
    handed,     \* granules in the file integration reads
    glmFaults

glmVars == <<listedGlm, glmDir, glm, handed, glmFaults>>

NoGlm == [pc |-> "idle", todo |-> {}, got |-> {}]
NoGranules == {}

GlmInit ==
    /\ listedGlm = {}
    /\ glmDir = {}
    /\ glm = NoGlm
    /\ handed = NoGranules
    /\ glmFaults = {}

GlmFault(kind) ==
    /\ kind \notin glmFaults /\ Cardinality(glmFaults) < MaxGlmFaults
    /\ glmFaults' = glmFaults \cup {kind}

\* The listing filtered by the window; more of it appears for a retry.
StartGlm ==
    /\ glm.pc = "idle" /\ handed = NoGranules
    /\ \E now \in SUBSET Granules :
         /\ listedGlm \subseteq now
         /\ listedGlm' = now
         /\ glm' = [glm EXCEPT !.pc = "fetch", !.todo = now, !.got = {}]
    /\ UNCHANGED <<glmDir, handed, glmFaults>>

\* Fault variant: a file that is there is skipped and not counted as fetched.
FetchGranuleForgets(g) ==
    /\ glm.pc = "fetch" /\ g \in glm.todo
    /\ glm' = [glm EXCEPT !.todo = @ \ {g}, !.got = IF {g} \in glmDir THEN @ ELSE @ \cup {g}]
    /\ glmDir' = glmDir \cup {{g}}
    /\ UNCHANGED <<listedGlm, handed, glmFaults>>

\* download_all_matching: one after the other, those on disk already are taken.
FetchGranule(g) ==
    /\ glm.pc = "fetch" /\ g \in glm.todo
    /\ glm' = [glm EXCEPT !.todo = @ \ {g}, !.got = @ \cup {g}]
    /\ glmDir' = glmDir \cup {{g}}
    /\ UNCHANGED <<listedGlm, handed, glmFaults>>

\* The rest of the list is given up, what was fetched is returned.
GranuleFails ==
    /\ glm.pc = "fetch" /\ glm.todo # {}
    /\ GlmFault("granule")
    /\ glm' = [glm EXCEPT !.todo = {}]
    /\ UNCHANGED <<listedGlm, glmDir, handed>>

\* The latest of the files is what integration opens.
HandOver(files) == handed' = IF files = {} THEN NoGranules ELSE CHOOSE f \in files :
                                 \A e \in files : Max(e) <= Max(f)

\* One file is handed over as it is; several are merged under the name of the newest.
MergeGranules ==
    /\ glm.pc = "fetch" /\ glm.todo = {}
    /\ IF Cardinality(glm.got) <= 1
       THEN /\ glm' = NoGlm
            /\ HandOver({{g} : g \in glm.got})
            /\ UNCHANGED glmDir
       ELSE /\ glm' = [glm EXCEPT !.pc = "delete", !.todo = glm.got]
            /\ glmDir' = glmDir \cup {glm.got}
            /\ UNCHANGED handed
    /\ UNCHANGED <<listedGlm, glmFaults>>

\* An unreadable granule or a full disk: the granules go out one by one.
MergeFails ==
    /\ glm.pc = "fetch" /\ glm.todo = {} /\ Cardinality(glm.got) > 1
    /\ GlmFault("merge")
    /\ HandOver({{g} : g \in glm.got})
    /\ glm' = NoGlm
    /\ UNCHANGED <<listedGlm, glmDir>>

DeleteMerged(g) ==
    /\ glm.pc = "delete" /\ g \in glm.todo
    /\ glmDir' = glmDir \ {{g}}
    /\ glm' = [glm EXCEPT !.todo = @ \ {g}]
    /\ UNCHANGED <<listedGlm, handed, glmFaults>>

GlmDone ==
    /\ glm.pc = "delete" /\ glm.todo = {}
    /\ HandOver({glm.got})
    /\ glm' = NoGlm
    /\ UNCHANGED <<listedGlm, glmDir, glmFaults>>

\* The attempt dies, or the cycle is tried again after other inputs failed.
GlmInterrupted(kind) ==
    /\ GlmFault(kind)
    /\ IF kind = "crash" THEN glm.pc # "idle" ELSE glm.pc = "idle" /\ handed # NoGranules
    /\ glm' = NoGlm
    /\ handed' = NoGranules
    /\ UNCHANGED <<listedGlm, glmDir>>

GlmNext ==
    \/ StartGlm \/ GranuleFails \/ MergeGranules \/ MergeFails \/ GlmDone
    \/ \E g \in Granules : FetchGranule(g) \/ DeleteMerged(g)
    \/ \E kind \in {"crash", "retry"} : GlmInterrupted(kind)

GlmSpec == GlmInit /\ [][GlmNext]_glmVars

\* Integration reads every granule that was listed for the scan, also in an attempt
\* that starts from what a crash between fetch, merge and delete left behind, unless
\* a transfer or the merge itself failed.
GlmCoversItsWindow ==
    handed = NoGranules \/ handed = listedGlm \/ glmFaults \cap {"granule", "merge"} # {}

=============================================================================
