---------------------------- MODULE MCAdsValues ----------------------------
(* Instances of AdsValues for TLC. *)
EXTENDS AdsValues

CONSTANTS a1, d1

=============================================================================
