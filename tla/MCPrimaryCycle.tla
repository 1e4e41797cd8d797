--------------------------- MODULE MCPrimaryCycle ---------------------------
(***************************************************************************)
(* The primary cycle, part by part: one behaviour exercises the polling    *)
(* loop, an attempt of a cycle, the MRMS download an attempt rests on, or  *)
(* one of the ingests that run beside it (GOES ABI, METAR).                *)
(***************************************************************************)
EXTENDS PrimaryCycle, CycleRun, MrmsIngest, GoesIngest, SurfaceIngest

VARIABLE part  \* the part this behaviour is about

loopVars == vars
mcVars == <<part, loopVars, runVars, mrmsVars, abiVars, metarVars>>

MCInit ==
    /\ part \in {"loop", "attempt", "mrms", "abi", "metar"}
    /\ Init /\ RunInit /\ MrmsInit /\ AbiInit /\ MetarInit
    /\ part # "loop" => watermark = 0
    /\ part # "attempt" => cfg = [goes |-> TRUE, core |-> FALSE]

MCNext ==
    \/ /\ part = "loop" /\ Next
       /\ UNCHANGED <<part, runVars, mrmsVars, abiVars, metarVars>>
    \/ /\ part = "attempt" /\ RunNext
       /\ UNCHANGED <<part, loopVars, mrmsVars, abiVars, metarVars>>
    \/ /\ part = "mrms" /\ MrmsNext
       /\ UNCHANGED <<part, loopVars, runVars, abiVars, metarVars>>
    \/ /\ part = "abi" /\ AbiNext
       /\ UNCHANGED <<part, loopVars, runVars, mrmsVars, metarVars>>
    \/ /\ part = "metar" /\ MetarNext
       /\ UNCHANGED <<part, loopVars, runVars, mrmsVars, abiVars>>

\* Each component's own fairness, asked only of the part that moves.
MCFairness ==
    /\ WF_vars(part = "loop" /\ Start)
    /\ WF_vars(part = "loop" /\ BeginAttempt)
    /\ WF_vars(part = "loop" /\ FinishCycle)
    /\ WF_vars(part = "loop" /\ BackoffElapses)
    /\ WF_runVars(part = "attempt" /\ Parent)
    /\ WF_runVars(part = "attempt" /\ GlmArrives)
    /\ WF_runVars(part = "attempt" /\ Worker)
    /\ WF_mrmsVars(part = "mrms" /\ AttemptStep)
    /\ \A scan \in MrmsScans : WF_mrmsVars(part = "mrms" /\ StartAttempt(scan))
    /\ WF_abiVars(part = "abi" /\ PassStep)
    /\ WF_abiVars(part = "abi" /\ DrawStep)
    /\ WF_metarVars(part = "metar" /\ MetarStep)

MCSpec == MCInit /\ [][MCNext]_mcVars /\ MCFairness
=============================================================================
