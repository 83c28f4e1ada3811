------------------------- MODULE MCSettlementLedger -------------------------
(* A small instance of SettlementLedger for TLC.                           *)
EXTENDS SettlementLedger
=============================================================================
