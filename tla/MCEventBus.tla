----------------------------- MODULE MCEventBus -----------------------------
(* EventBus on small instances: model values for goroutines and event kinds. *)
(* No symmetry: the runs check liveness, and the bus hands out identifiers.  *)
EXTENDS EventBus
=============================================================================
