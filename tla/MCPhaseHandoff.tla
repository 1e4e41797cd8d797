--------------------------- MODULE MCPhaseHandoff ---------------------------
(* PhaseHandoff on small constants; the .cfg files give the values. *)
EXTENDS PhaseHandoff
=============================================================================
