-------------------------- MODULE MCAdsSupervision --------------------------
(* Small instances of AdsSupervision. *)
EXTENDS AdsSupervision

(* One AMS port: two or three parameters. *)
TwoOnPort   == <<1, 1>>
ThreeOnPort == <<1, 1, 1>>

NameName      == <<"name", "name">>
NameDictState == <<"name", "dict", "state">>

NotifyPoll     == <<"notify", "poll">>
NotifyBulkPoll == <<"notify", "bulk", "poll">>
=============================================================================
