---------------------- MODULE MCAccessorySupervisor ----------------------
(* AccessorySupervisor on small constants; the .cfg file gives the values: *)
(* a renderer that shares its cleanup flag with the ingest, and an ingest  *)
(* that writes a heartbeat.                                                *)
EXTENDS AccessorySupervisor
==========================================================================
