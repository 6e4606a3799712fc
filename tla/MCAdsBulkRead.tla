--------------------------- MODULE MCAdsBulkRead ---------------------------
(* Small instances of AdsBulkRead. *)
EXTENDS AdsBulkRead

OnePort   == <<851, 851>>
TwoPorts  == <<851, 852, 851, 851>>
=============================================================================
