------------------------- MODULE MCCircuitBreaker -------------------------
(* Small instances of CircuitBreaker for TLC.  There is no symmetry: the   *)
(* run checks liveness.                                                    *)
EXTENDS CircuitBreaker
===========================================================================
