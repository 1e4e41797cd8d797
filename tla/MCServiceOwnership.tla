---- MODULE MCServiceOwnership ----
(* Model-checking instance of ServiceOwnership: the cfgs give the constants. *)
EXTENDS ServiceOwnership
====
