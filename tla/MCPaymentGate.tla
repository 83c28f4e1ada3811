--------------------------- MODULE MCPaymentGate ---------------------------
(* Small instances of PaymentGate for TLC.                                 *)
EXTENDS PaymentGate, TLC

Symmetry == Permutations(Keys) \cup Permutations(Ops) \cup Permutations(Generations)
===========================================================================
