--------------------------- MODULE MCAdsRecordIO ---------------------------
(* Instances of AdsRecordIO for TLC: bytes of two bits. *)
EXTENDS AdsRecordIO

Span  == [t \in PlcTypes |-> 2 ^ (2 * width[t])]
Exact == [t \in RealTypes |-> IF t = "REAL32" THEN 2 ELSE 2 ^ 13]

Kind(s, p, a, n) == [source |-> s, plcType |-> p, asynType |-> a, plcSize |-> n]

Scalars == {Kind("symbol", "INT8", "Int32", 1), Kind("symbol", "UINT8", "Int32", 1),
            Kind("symbol", "UINT32", "Int32", 4), Kind("adr", "INT32", "Float64", 4),
            Kind("adr", "UINT16", "Int32", 1), Kind("adr", "UINT64", "Int64", 8),
            Kind("adr", "REAL32", "Float64", 4), Kind("symbol", "BIT", "Int32", 1),
            Kind("symbol", "UINT16", "Int64", 2)}
Arrays  == {Kind("adr", "INT8", "Int8Array", 2), Kind("symbol", "INT64", "Int64Array", 16),
            Kind("adr", "REAL64", "Float64Array", 24)}
Special == {Kind("ecat", "UINT16", "Int32", 2), Kind("ecat", "UINT16", "Float64", 2),
            Kind("ecat", "UINT16", "Int32", 4),
            Kind("state", "UINT16", "Int32", 2)}

(* EtherCAT states as records of a database load them. *)
StateKinds   == {k \in Special : k.source = "ecat" /\ k.plcSize = 2}

AllKinds     == Scalars \cup Arrays \cup Special
Values       == {-2, 1, 3}
OneElement   == {1}
SomePlc      == {5}
SomeJunk     == {5}
=============================================================================
