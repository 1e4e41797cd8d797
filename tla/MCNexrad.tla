------------------------------ MODULE MCNexrad ------------------------------
(***************************************************************************)
(* The NEXRAD service, part by part: one behaviour exercises the ingest of *)
(* a volume, the pool of parse workers, the pipeline, the directory the    *)
(* workers and the renderer share, or the pure parsing code.               *)
(***************************************************************************)
EXTENDS NexradStream, NexradPool, NexradPipeline, NexradArtifacts, NexradParsing

VARIABLE part  \* the part this behaviour is about

\* Chunk -> group and group -> elevation: a parse after two chunks sees half of
\* the second group; the third is the first elevation again.
MCGroupOf == <<1, 2, 2, 3>>
MCAngleOf == <<1, 2, 1>>

mcVars == <<part, streamVars, poolVars, pipelineVars, artifactVars, sample>>

MCInit ==
    /\ part \in {"stream", "pool", "pipeline", "artifacts", "parsing"}
    /\ StreamInit /\ PoolInit /\ PipelineInit /\ ArtifactInit /\ ParsingInit
    /\ part # "parsing" => sample.kind = "chunks"

MCNext ==
    \/ /\ part = "stream" /\ StreamNext
       /\ UNCHANGED <<part, poolVars, pipelineVars, artifactVars, sample>>
    \/ /\ part = "pool" /\ PoolNext
       /\ UNCHANGED <<part, streamVars, pipelineVars, artifactVars, sample>>
    \/ /\ part = "pipeline" /\ PipelineNext
       /\ UNCHANGED <<part, streamVars, poolVars, artifactVars, sample>>
    \/ /\ part = "artifacts" /\ ArtifactNext
       /\ UNCHANGED <<part, streamVars, poolVars, pipelineVars, sample>>
    \/ /\ part = "parsing" /\ ParsingNext
       /\ UNCHANGED <<part, streamVars, poolVars, pipelineVars, artifactVars>>

\* Each component's own fairness, asked only of the part that moves.
MCFairness ==
    /\ WF_streamVars(part = "stream" /\ IngestStep)
    /\ WF_streamVars(part = "stream" /\ ParseStep)
    /\ WF_streamVars(part = "stream" /\ Upload)
    /\ \A t \in Threads : /\ WF_poolVars(part = "pool" /\ ThreadStep(t))
                         /\ WF_poolVars(part = "pool" /\ WorkerEnds(t))
    /\ WF_poolVars(part = "pool" /\ FinishRecycle)
    /\ WF_poolVars(part = "pool" /\ IngestKilled)
    /\ WF_artifactVars(part = "artifacts" /\ WriterStep)
    /\ WF_artifactVars(part = "artifacts" /\ RenderStep)

\* A volume that keeps arriving becomes elevations and layers in the end: the stream
\* completes it (process_volume) and each artifact gets every product (gui_pipeline).
VolumeIsShown == VolumeCompletes /\ EveryProductRendered

MCSpec == MCInit /\ [][MCNext]_mcVars /\ MCFairness
=============================================================================
