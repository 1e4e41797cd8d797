----------------------------- MODULE MCCtamStage -----------------------------
(* CtamStage on small constants; the .cfg files give the values. *)
EXTENDS CtamStage
=============================================================================
