----------------------------- MODULE MCAdsOctet -----------------------------
(* A small instance of AdsOctet for TLC. *)
EXTENDS AdsOctet

C(op, type, size) == [op |-> op, type |-> type, size |-> size]

MCCommands ==
    {C("features", "other", 0), C("bad", "other", 0), C("badPort", "other", 0),
     C("badAdr", "other", 0), C("read", "scalar", 2), C("adrRead", "string", 2),
     C("read", "axis", 1), C("read", "struct", 1), C("adrRead", "other", 1),
     C("write", "scalar", 1), C("adrWrite", "scalar", 2)}

\* The text of a STRING is longer than the temporary buffer has room for.
MCLength == [t \in Texts |-> CASE t \in {"message", "messageNl"} -> 2
                              [] t = "string" -> 3
                              [] OTHER -> 1]
=============================================================================
