--------------------------- MODULE MCAdsLifecycle ---------------------------
(* An instance of AdsLifecycle for TLC. *)
EXTENDS AdsLifecycle
=============================================================================
