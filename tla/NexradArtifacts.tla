-------------------------- MODULE NexradArtifacts --------------------------
(***************************************************************************)
(* The elevation artifacts of one site and elevation                       *)
(* (src/src/common/ingest/nexrad/writer.py) and the NEXRAD render loop     *)
(* that turns them into GUI files (src/src/NEXRAD/gui_pipeline.py and      *)
(* render.py).  A parse worker writes and the renderer reads the same      *)
(* directory in different processes, with no lock; the sidecar of an       *)
(* artifact tells the renderer that it may be read.                        *)
(*                                                                         *)
(* An artifact is named by its elevation timestamp, a number.              *)
(***************************************************************************)
EXTENDS Integers, FiniteSets

CONSTANTS
    Stamps,     \* timestamps of the elevation
    Products,   \* variables rendered from an artifact
    MaxKept,    \* elevation_dirs_to_keep
    MaxUpsets   \* re-exports and killed renderers (bounds the model)

ASSUME ArtifactAssumption == Stamps \subseteq Nat /\ MaxKept \in Nat \ {0}

VARIABLES
    source,   \* source[t]: the artifact file: "none", "torn" or "whole"
    sidecar,  \* artifacts that have a sidecar
    writer,   \* what the parse worker is doing: [pc, at]
    bin,      \* bin[t]: the products on disk, with what they were made from
    batch,    \* batch[t]: how far the renderer is with an artifact of its poll
    aged,     \* artifacts too old to be rendered, whose products may be removed
    upsets    \* history: the kinds of upsets so far

artifactVars == <<source, sidecar, writer, bin, batch, aged, upsets>>

Resting == [pc |-> "idle", at |-> 0]
NotPending == [pc |-> "out", saw |-> "none"]
Upset(kind) == Cardinality(upsets) < MaxUpsets /\ upsets' = upsets \cup {kind}

ArtifactInit ==
    /\ source = [t \in Stamps |-> "none"] /\ sidecar = {} /\ writer = Resting
    /\ bin = [t \in Stamps |-> {}]
    /\ batch = [t \in Stamps |-> NotPending]
    /\ aged = {} /\ upsets = {}

OnDisk == {t \in Stamps : source[t] # "none"}
ProductsOf(t) == {b.product : b \in bin[t]}

(***************************************************************************)
(* write_elevation_artifacts: the file in place, the sidecar, the pruning. *)
(***************************************************************************)
\* A new artifact; or one that was exported before, by an ingest that ended
\* without saving what it had exported.
BeginArtifact(t) ==
    /\ writer = Resting
    /\ \/ \A u \in OnDisk : u < t
       \/ t \in OnDisk
    /\ IF t \in OnDisk THEN Upset("again") ELSE UNCHANGED upsets
    /\ source' = [source EXCEPT ![t] = "torn"]
    /\ writer' = [pc |-> "file", at |-> t]
    /\ UNCHANGED <<sidecar, bin, batch, aged>>

CompleteArtifact ==
    /\ writer.pc = "file"
    /\ source' = [source EXCEPT ![writer.at] = "whole"]
    /\ writer' = [writer EXCEPT !.pc = "sidecar"]
    /\ UNCHANGED <<sidecar, bin, batch, aged, upsets>>

WriteSidecar ==
    /\ writer.pc = "sidecar"
    /\ sidecar' = sidecar \cup {writer.at}
    /\ writer' = [writer EXCEPT !.pc = "prune"]
    /\ UNCHANGED <<source, bin, batch, aged, upsets>>

NewestOnDisk == {t \in OnDisk : Cardinality({u \in OnDisk : u > t}) < MaxKept}

\* The files beyond the newest ones go one at a time, each before its sidecar.
PruneArtifact ==
    /\ writer.pc = "prune"
    /\ \/ \E t \in OnDisk \ NewestOnDisk :
            /\ source' = [source EXCEPT ![t] = "none"]
            /\ writer' = [pc |-> "unlink", at |-> t]
       \/ /\ OnDisk \subseteq NewestOnDisk
          /\ writer' = Resting
          /\ UNCHANGED source
    /\ UNCHANGED <<sidecar, bin, batch, aged, upsets>>

PruneSidecar ==
    /\ writer.pc = "unlink"
    /\ sidecar' = sidecar \ {writer.at}
    /\ writer' = [writer EXCEPT !.pc = "prune"]
    /\ UNCHANGED <<source, bin, batch, aged, upsets>>

(***************************************************************************)
(* The render loop.                                                        *)
(***************************************************************************)
Polling == \E t \in Stamps : batch[t].pc # "out"

\* render_pending_nexrad_gui_files: fresh artifacts with no product yet.
PollArtifacts ==
    /\ ~Polling
    /\ LET pending == {t \in OnDisk : t \notin aged /\ bin[t] = {}}
       IN  /\ pending # {}
           /\ batch' = [t \in Stamps |-> IF t \in pending
                                         THEN [pc |-> "check", saw |-> "none"] ELSE NotPending]
    /\ UNCHANGED <<source, sidecar, writer, bin, aged, upsets>>

\* Fault variant: the sidecar is not waited for.
NoCommitMarker(t) ==
    /\ batch[t].pc = "check"
    /\ batch' = [batch EXCEPT ![t].pc = "open"]
    /\ UNCHANGED <<source, sidecar, writer, bin, aged, upsets>>

\* The sidecar is the commit marker.
CheckSidecar(t) ==
    /\ batch[t].pc = "check"
    /\ batch' = [batch EXCEPT ![t] = IF t \in sidecar THEN [@ EXCEPT !.pc = "open"]
                                     ELSE NotPending]
    /\ UNCHANGED <<source, sidecar, writer, bin, aged, upsets>>

OpenArtifact(t) ==
    /\ batch[t].pc = "open"
    /\ batch' = [batch EXCEPT ![t] = IF source[t] = "none" THEN NotPending
                                     ELSE [pc |-> "decode", saw |-> source[t]]]
    /\ UNCHANGED <<source, sidecar, writer, bin, aged, upsets>>

\* Each product appears whole under its name, if it is not there.
WriteProduct(t, p) ==
    /\ batch[t].pc = "decode"
    /\ p \notin ProductsOf(t)
    /\ bin' = [bin EXCEPT ![t] = @ \cup {[product |-> p, from |-> batch[t].saw]}]
    /\ UNCHANGED <<source, sidecar, writer, batch, aged, upsets>>

\* The render manifest is written, and the artifact is no longer in flight.  Of
\* a torn artifact only the products found in it are rendered.
FinishRender(t) ==
    /\ batch[t].pc = "decode"
    /\ ProductsOf(t) = Products \/ batch[t].saw = "torn"
    /\ batch' = [batch EXCEPT ![t] = NotPending]
    /\ UNCHANGED <<source, sidecar, writer, bin, aged, upsets>>

\* The render process is killed, or its service crashes: nothing in memory stays.
RendererKilled ==
    /\ Polling
    /\ Upset("killed")
    /\ batch' = [t \in Stamps |-> NotPending]
    /\ UNCHANGED <<source, sidecar, writer, bin, aged>>

\* nexrad_source_max_age_minutes passes for the oldest artifact of interest.
GrowOld(t) ==
    /\ t \in OnDisk \ aged
    /\ \A u \in OnDisk \ aged : t <= u
    /\ \E u \in OnDisk : u > t
    /\ aged' = aged \cup {t}
    /\ UNCHANGED <<source, sidecar, writer, bin, batch, upsets>>

\* cleanup_old_nexrad_gui_files, between two polls, file by file.
RemoveOldProduct(t, b) ==
    /\ ~Polling
    /\ t \in aged /\ b \in bin[t]
    /\ bin' = [bin EXCEPT ![t] = @ \ {b}]
    /\ UNCHANGED <<source, sidecar, writer, batch, aged, upsets>>

WriterStep == CompleteArtifact \/ WriteSidecar \/ PruneArtifact \/ PruneSidecar

RenderStep ==
    \/ PollArtifacts
    \/ \E t \in Stamps :
         \/ CheckSidecar(t) \/ OpenArtifact(t) \/ FinishRender(t)
         \/ \E p \in Products : WriteProduct(t, p)

ArtifactNext ==
    \/ \E t \in Stamps : BeginArtifact(t) \/ GrowOld(t)
    \/ WriterStep \/ RenderStep \/ RendererKilled
    \/ \E t \in Stamps : \E b \in bin[t] : RemoveOldProduct(t, b)

\* A worker that began an artifact finishes it, and the loop polls for ever.
ArtifactFairness == WF_artifactVars(WriterStep) /\ WF_artifactVars(RenderStep)

ArtifactSpec == ArtifactInit /\ [][ArtifactNext]_artifactVars /\ ArtifactFairness

-----------------------------------------------------------------------------
\* Nothing is ever rendered from a half-written artifact, though writer and
\* renderer share no lock: only an artifact exported a second time, in place
\* behind its old sidecar, is read while it is being written.
NeverRenderedTorn ==
    "again" \notin upsets => \A t \in Stamps : \A b \in bin[t] : b.from = "whole"

\* An artifact with its sidecar gets every product, unless it is pruned or grows
\* old first.  A renderer killed between two products leaves the others out for
\* good: the artifact then counts as rendered.
EveryProductRendered ==
    \A t \in Stamps :
        t \in sidecar ~>
            ProductsOf(t) = Products \/ source[t] = "none" \/ t \in aged \/ upsets # {}

=============================================================================
