---- MODULE MCCyclePublication ----
(* Model-checking instance of CyclePublication: the cfg gives the constants. *)
EXTENDS CyclePublication
====
