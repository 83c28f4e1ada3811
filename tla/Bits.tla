-------------------------------- MODULE Bits --------------------------------
(***************************************************************************)
(* Addresses as numbers of a width: the shifts of firewall.rs and          *)
(* rate_limit.rs.                                                          *)
(***************************************************************************)
EXTENDS Integers

(* 1 << n                                                                  *)
Pow2[n \in Nat] == IF n = 0 THEN 1 ELSE 2 * Pow2[n - 1]

(* Bit i of a number of a width, from the left.                            *)
Bit(bits, width, i) == (bits \div Pow2[width - i]) % 2
=============================================================================
