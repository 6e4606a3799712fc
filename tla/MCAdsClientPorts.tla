-------------------------- MODULE MCAdsClientPorts --------------------------
(* Small instances of AdsClientPorts: "cyclic" never leaves its guard,     *)
(* "symbols" is AdsLib's notification thread, "scan" a record's thread.    *)
EXTENDS AdsClientPorts
=============================================================================
