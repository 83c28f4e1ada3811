--------------------------- MODULE MCNonceGuard ---------------------------
(* Small instances of NonceGuard for TLC.                                  *)
EXTENDS NonceGuard, TLC

Symmetry == Permutations(Keys) \cup Permutations(Ops) \cup Permutations(Generations)
===========================================================================
