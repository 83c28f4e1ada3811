--------------------------- MODULE MCIdempotency ---------------------------
(* Small instances of Idempotency for TLC.                                 *)
EXTENDS Idempotency, TLC

Symmetry == Permutations(Keys) \cup Permutations(Callers) \cup Permutations(Responses)
===========================================================================
