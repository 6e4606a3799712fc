----------------------------- MODULE AdsRecordIO -----------------------------
(***************************************************************************)
(* What adsAsynPortDriver.cpp does when a record reads or writes a         *)
(* parameter directly: readInt32 ... writeFloat64Array, adsReadParam and   *)
(* adsWriteParam below them, the type tables of adsUpdateParameter and     *)
(* fireCallbacksForArrayParam, the alarms, and the EtherCAT state          *)
(* requests.                                                               *)
(*                                                                         *)
(* Parameters do not influence each other here, so there is one, of a kind *)
(* that Init chooses among Kinds.  asyn calls every operation with the     *)
(* port locked: each is one step.  A drvInfo may be shared by records of   *)
(* several interfaces, so any interface may be used on any kind.           *)
(*                                                                         *)
(* Values are integers.  A type t has span[t] values; REAL types hold the  *)
(* integers up to exact[t] and then every second one.                      *)
(***************************************************************************)
EXTENDS Integers, Sequences

CONSTANTS
    Kinds,        \* kinds of parameters, see KindType
    Written,      \* values that records write
    Elements,     \* values of the elements of arrays that records write
    PlcValues,    \* values that the PLC program gives a variable
    Junk,         \* what undefined behaviour gives, as behind the end of a record's data
    MaxElements,  \* elements that a record asks for or writes
    MaxQueued,    \* bound: samples that are taken and not applied yet
    span, exact

SignedTypes   == {"INT8", "INT16", "INT32", "INT64"}
UnsignedTypes == {"UINT8", "UINT16", "UINT32", "UINT64"}
RealTypes     == {"REAL32", "REAL64"}
PlcTypes == SignedTypes \cup UnsignedTypes \cup RealTypes \cup {"BIT", "STRING", "VOID"}

ScalarTypes == {"Int32", "Int64", "Float64"}
ArrayTypes  == {"Int8Array", "Int16Array", "Int32Array", "Int64Array", "Float32Array", "Float64Array"}

(* adsTypeSize, in bytes. *)
width == [t \in PlcTypes |->
    IF t \in {"INT16", "UINT16"} THEN 2
    ELSE IF t \in {"INT32", "UINT32", "REAL32"} THEN 4
    ELSE IF t \in {"INT64", "UINT64", "REAL64"} THEN 8
    ELSE IF t = "VOID" THEN 0 ELSE 1]

(* symbol: by name; adr: .ADR. command; ecat: .ADR. command of the index   *)
(* group of EtherCAT slave states; state: the state of an AMS port.        *)
(* asynType is that of the record that created the parameter.              *)
KindType == [source : {"symbol", "adr", "ecat", "state"}, plcType : PlcTypes \ {"VOID"},
             asynType : ScalarTypes \cup ArrayTypes, plcSize : Nat \ {0}]

ASSUME RecordAssumption ==
    /\ Kinds \subseteq KindType
    /\ Written \subseteq Int /\ Elements \subseteq Int
    /\ PlcValues \subseteq Int /\ Junk \subseteq Int
    /\ PlcValues # {} /\ Junk # {}
    /\ MaxElements \in Nat /\ MaxQueued \in Nat
    /\ span \in [PlcTypes -> Nat \ {0}] /\ exact \in [RealTypes -> Nat]
    /\ \A t, u \in SignedTypes \cup UnsignedTypes : width[t] = width[u] => span[t] = span[u]

VARIABLES
    kind,      \* chosen once
    plc,       \* the elements of the variable in the PLC
    known,     \* "type": plcDataType, plcSize; "info": plcAbsAdrValid; "handle": bSymbolicHandleValid
    value,     \* value in asyn's parameter library
    alarm,     \* alarmStatus
    buf,       \* arrayDataBuffer, <<>> if there is none (plcDataIsArray is not set either)
    lastCb,    \* lastCallbackSize
    pending,   \* the parameter is in arrayParamsToCallCallbacksFor_
    queued,    \* samples of the variable that are not applied yet, in datacbqueue
    master,    \* the EtherCAT master: "unresolved", "none" or "found"
    call,      \* history: the last call of a record and its result
    sent,      \* history: the last state request that was sent to a master
    wrote,     \* history: what a record has written, <<>> if the PLC may have another value
    overtaken, \* history: arrayDataBuffer has a sample from before the last array write
    failing    \* history: the operations whose last call has failed

sampleVars == <<queued, overtaken>>
vars == <<kind, plc, known, value, alarm, buf, lastCb, pending, master, call, sent, wrote, failing,
          sampleVars>>

NoCall == [op |-> "none", status |-> "success", outcome |-> "done", val |-> <<>>, n |-> 0]
Calls == [op : {"none", "read", "write", "arrayRead", "arrayWrite", "callback"},
          status : {"success", "error"}, outcome : {"done", "failed"},
          val : Seq(Int), n : Nat]
Requests == [value : Int, via : ScalarTypes \cup ArrayTypes]
(* "old": taken before the last array write of a record. *)
Samples == [data : Seq(Int), age : {"old", "new"}]

(* The variables keep their types. *)
TypeOK ==
    /\ kind \in Kinds
    /\ plc \in Seq(Int) /\ Len(plc) > 0
    /\ known \subseteq {"type", "info", "handle"}
    /\ value \in Int
    /\ alarm \in {"NO_ALARM", "COMM_ALARM", "READ_ALARM", "WRITE_ALARM"}
    /\ buf \in Seq(Int) /\ lastCb \in Nat
    /\ pending \in {"yes", "no"}
    /\ master \in {"unresolved", "none", "found"}
    /\ call \in Calls /\ sent \subseteq Requests
    /\ wrote \in Seq(Int) /\ failing \subseteq {"read", "write"}
    /\ queued \in Seq(Samples) /\ overtaken \in {"yes", "no"}

ByName == kind.source \in {"symbol", "state"}
elems  == kind.plcSize \div width[kind.plcType]

(* isArray of updateParamInfoWithPLCInfo. *)
isArray == kind.plcType = "STRING" \/ kind.plcSize > width[kind.plcType]

(* What is known of a parameter whose symbol has not been looked up: all   *)
(* is in the drvInfo of the commands, nothing of a symbol.                 *)
parsed(k) == IF k.source \in {"adr", "ecat"} THEN {"type", "info"}
             ELSE IF k.source = "state" THEN {"type"} ELSE {}

Init ==
    /\ kind \in Kinds
    /\ \E v \in PlcValues :
         plc = [i \in 1..(IF elems = 0 THEN 1 ELSE elems) |-> v]
    /\ known = parsed(kind)
    /\ value = 0 /\ alarm = "NO_ALARM"
    /\ buf = <<>> /\ lastCb = 0 /\ pending = "no"
    /\ master \in IF kind.source = "ecat" THEN {"unresolved", "none", "found"} ELSE {"none"}
    /\ call = NoCall /\ sent = {} /\ wrote = <<>> /\ failing = {}
    /\ queued = <<>> /\ overtaken = "no"

-----------------------------------------------------------------------------
(* Conversions.                                                            *)

(* Mutant: the lowest negative value is taken for a positive one. *)
MutWrap(t, v) ==
    LET u == v % span[t] IN IF t \in SignedTypes /\ 2 * u > span[t] THEN u - span[t] ELSE u

(* Conversion between integers: modulo the number of values of the type.   *)
Wrap(t, v) ==
    LET u == v % span[t] IN IF t \in SignedTypes /\ 2 * u >= span[t] THEN u - span[t] ELSE u

(* Conversion to a REAL type: to the nearest value, the even one of two.   *)
Round(t, v) ==
    IF (-exact[t] <= v /\ v <= exact[t]) \/ v % 2 = 0 THEN v
    ELSE IF v % 4 = 1 THEN v - 1 ELSE v + 1

(* v is a value of type t. *)
InRange(t, v) ==
    IF t \in SignedTypes THEN -span[t] <= 2 * v /\ 2 * v < span[t]
    ELSE IF t \in UnsignedTypes THEN 0 <= v /\ v < span[t]
    ELSE IF t \in RealTypes THEN Round(t, v) = v ELSE v \in {0, 1}

(* The values that v of type f may have as type t.  A REAL value out of    *)
(* the range of an integer type has no defined result: any of Junk.        *)
Cast(f, t, v) ==
    IF t \in RealTypes THEN {Round(t, v)}
    ELSE IF t \notin SignedTypes \cup UnsignedTypes THEN {v}
    ELSE IF f \in RealTypes /\ ~InRange(t, v) THEN {Wrap(t, j) : j \in Junk}
    ELSE {Wrap(t, v)}

(* The type of an asyn interface, or of its elements, as a type of the PLC. *)
TypeOf(i) ==
    IF i \in {"Int32", "Int32Array"} THEN "INT32"
    ELSE IF i \in {"Int64", "Int64Array"} THEN "INT64"
    ELSE IF i = "Int16Array" THEN "INT16"
    ELSE IF i = "Int8Array" THEN "INT8"
    ELSE IF i = "Float32Array" THEN "REAL32" ELSE "REAL64"

(* The switch of a scalar write: the values that may reach the PLC.        *)
ToPlc(i, t, v) == IF t = "BIT" THEN {IF v > 0 THEN 1 ELSE 0} ELSE Cast(TypeOf(i), t, v)

(* The PLC types that writeInt32, writeInt64 and writeFloat64 convert to.  *)
Writable(i) ==
    IF i = "Int64" THEN {"INT64", "UINT64"}
    ELSE IF i = "Int32" THEN (PlcTypes \ {"INT64", "UINT64", "STRING", "VOID"})
    ELSE PlcTypes \ {"STRING", "VOID"}

(* The array type of a PLC type, if it has one. *)
ArrayOf(t) ==
    IF t \in {"INT8", "BIT", "STRING"} THEN {"Int8Array"}
    ELSE IF t = "INT16" THEN {"Int16Array"}
    ELSE IF t = "INT32" THEN {"Int32Array"}
    ELSE IF t \in {"INT64", "UINT64"} THEN {"Int64Array"}
    ELSE IF t = "REAL32" THEN {"Float32Array"}
    ELSE IF t = "REAL64" THEN {"Float64Array"} ELSE {}

(* The asyn types that adsUpdateParameter accepts for a PLC type. *)
Accepts(t) ==
    ArrayOf(t) \cup (IF t \in {"STRING", "VOID"} THEN {} ELSE {"Int32", "Float64"})
               \cup (IF t \in {"INT64", "UINT64"} THEN {"Int64"} ELSE {})

plcDataType == IF "type" \in known THEN kind.plcType ELSE "VOID"

-----------------------------------------------------------------------------
(* A request for an EtherCAT state looks for the master, once. *)
checkEthercatMasterForParam ==
    \/ kind.source = "ecat" /\ master = "unresolved" /\ master' \in {"none", "found"}
    \/ ~(kind.source = "ecat" /\ master = "unresolved") /\ UNCHANGED master

NoMaster == kind.source = "ecat" /\ master' = "none"

(* adsReadParam and adsWriteParam: the master, then the information and    *)
(* the handle of the symbol if they are not known, then the request.  o    *)
(* says how far it gets; the name of an AMS port state is no symbol.       *)
Access(o) ==
    /\ checkEthercatMasterForParam
    /\ \/ o = "refused" /\ NoMaster /\ UNCHANGED known
       \/ o = "noInfo" /\ ByName /\ "info" \notin known /\ UNCHANGED known
       \/ /\ o = "noHandle" /\ kind.source = "symbol" /\ "handle" \notin known
          /\ known' = known \cup {"type", "info"}
       \/ /\ o \in {"failed", "done"} /\ kind.source # "state" /\ ~NoMaster
          /\ known' = IF ByName THEN {"type", "info", "handle"} ELSE known

Outcomes == {"refused", "noInfo", "noHandle", "failed", "done"}

(* Mutants: the first alarm stays; a success clears no alarm. *)
MutRaised(a) == alarm' = IF alarm = "NO_ALARM" THEN a ELSE alarm

MutCleared(a) == UNCHANGED alarm

(* setAlarmParam, and its use after a success. *)
Raised(a) == alarm' = a

Cleared(a) == alarm' = IF alarm = a THEN "NO_ALARM" ELSE alarm

Result(op, status, outcome, val) ==
    /\ call' = [op |-> op, status |-> status, outcome |-> outcome, val |-> val, n |-> 0]
    /\ LET o == IF op \in {"read", "arrayRead"} THEN "read" ELSE "write" IN
       failing' = IF outcome = "failed" THEN failing \cup {o} ELSE failing \ {o}

(* adsUpdateParameter with the elements s: arrays copy lastCallbackSize    *)
(* bytes; then the asyn type decides.                                      *)
Copied(s, bytes) ==
    [j \in 1..Len(buf) |->
       IF j <= bytes \div width[kind.plcType] /\ j <= Len(s) THEN s[j] ELSE buf[j]]

adsUpdateParameter(s, bytes) ==
    /\ buf' = Copied(s, bytes)
    /\ Raised("NO_ALARM")
    /\ \/ /\ kind.asynType \in ArrayTypes /\ pending' = "yes" /\ UNCHANGED value
       \/ /\ kind.asynType \in ScalarTypes /\ UNCHANGED pending
          /\ value' \in Cast(kind.plcType, TypeOf(kind.asynType), s[1])

-----------------------------------------------------------------------------
(* readInt32, readInt64, readFloat64: a failure is reported as success,    *)
(* with an alarm.  Less data than the type needs is read with what follows *)
(* it in memory.                                                           *)
readFailed(i) ==
    /\ \/ \E o \in Outcomes \ {"done"} : Access(o)
       \/ Access("done") /\ kind.asynType \notin Accepts(kind.plcType)
    /\ Raised("READ_ALARM") /\ Result("read", "success", "failed", <<>>)
    /\ UNCHANGED <<plc, value, buf, lastCb, pending, sent, wrote>>

readDone(i) ==
    /\ Access("done") /\ kind.asynType \in Accepts(kind.plcType)
    /\ \E j \in Junk : adsUpdateParameter(IF elems = 0 THEN <<j>> ELSE plc, lastCb)
    /\ \/ i = kind.asynType /\ Result("read", "success", "done", <<value'>>)
       \/ i # kind.asynType /\ Result("read", "error", "done", <<>>)
    /\ UNCHANGED <<plc, lastCb, sent, wrote>>

read(i) == (readFailed(i) \/ readDone(i)) /\ UNCHANGED <<kind, sampleVars>>

States == {1, 2, 3, 4, 8}

adsIsValidEthercatStateRequest(v) ==
    kind.source = "ecat" => kind.plcSize = 2 /\ kind.plcType = "UINT16" /\ v \in States

(* writeInt32, writeInt64, writeFloat64: refused before anything is sent.  *)
writeRefused(i, v) ==
    /\ UNCHANGED <<plc, known, value, buf, lastCb, pending, master, sent, wrote>>
    /\ \/ /\ i = "Int32" /\ ~adsIsValidEthercatStateRequest(v)
          /\ Raised("WRITE_ALARM") /\ Result("write", "success", "failed", <<>>)
       \/ /\ i = "Int32" => adsIsValidEthercatStateRequest(v)
          /\ kind.source # "state"
          /\ \/ /\ plcDataType \notin Writable(i)
                /\ UNCHANGED alarm /\ Result("write", "error", "failed", <<>>)
             \/ /\ plcDataType \in Writable(i) /\ width[plcDataType] # kind.plcSize
                /\ Raised("WRITE_ALARM") /\ Result("write", "error", "failed", <<>>)

(* adsWriteState. *)
writeState(i, v) ==
    /\ kind.source = "state"
    /\ \/ /\ \E w \in Cast(TypeOf(i), "UINT16", v) : plc' = <<w>>
          /\ Cleared("WRITE_ALARM") /\ Result("write", "success", "done", <<>>)
          /\ wrote' = <<>>
       \/ /\ UNCHANGED <<plc, wrote>>
          /\ Raised("WRITE_ALARM") /\ Result("write", "success", "failed", <<>>)
    /\ UNCHANGED <<known, value, buf, lastCb, pending, master, sent>>

Sendable(i, v) ==
    /\ i = "Int32" => adsIsValidEthercatStateRequest(v)
    /\ kind.source # "state"
    /\ plcDataType \in Writable(i) /\ width[plcDataType] = kind.plcSize

(* What reaches an EtherCAT master, whether it answers or not. *)
Traffic(i, o, w) ==
    sent' = IF kind.source = "ecat" /\ o \in {"failed", "done"}
              THEN {[value |-> w, via |-> i]} ELSE {}

writeFailed(i, v) ==
    /\ Sendable(i, v)
    /\ \E o \in Outcomes \ {"done"}, w \in ToPlc(i, plcDataType, v) : Access(o) /\ Traffic(i, o, w)
    /\ Raised("WRITE_ALARM") /\ Result("write", "error", "failed", <<>>)
    /\ UNCHANGED <<plc, value, buf, lastCb, pending, wrote>>

(* asynPortDriver's own write stores v, if the parameter has the type of   *)
(* the interface; otherwise the record is told that it has failed.         *)
writeDone(i, v) ==
    /\ Sendable(i, v) /\ Access("done")
    /\ \E w \in ToPlc(i, plcDataType, v) : plc' = <<w>> /\ Traffic(i, "done", w)
    /\ Cleared("WRITE_ALARM")
    /\ wrote' = IF i = "Float64" /\ ~InRange(plcDataType, v) THEN <<>> ELSE <<v>>
    /\ \/ i = kind.asynType /\ value' = v /\ Result("write", "success", "done", <<>>)
       \/ i # kind.asynType /\ UNCHANGED value /\ Result("write", "error", "done", <<>>)
    /\ UNCHANGED <<buf, lastCb, pending>>

write(i, v) ==
    /\ writeRefused(i, v) \/ writeState(i, v) \/ writeFailed(i, v) \/ writeDone(i, v)
    /\ UNCHANGED <<kind, sampleVars>>

-----------------------------------------------------------------------------
MinOf(a, b) == IF a < b THEN a ELSE b

(* adsGenericArrayRead for one of the array types and n elements: a copy   *)
(* of arrayDataBuffer.                                                     *)
adsGenericArrayRead(i, n) ==
    /\ \/ /\ i \notin ArrayOf(plcDataType) \/ buf = <<>>
          /\ Raised("READ_ALARM") /\ Result("arrayRead", "error", "failed", <<>>)
       \/ /\ i \in ArrayOf(plcDataType) /\ buf # <<>>
          /\ Cleared("READ_ALARM")
          /\ Result("arrayRead", "success", "done", SubSeq(buf, 1, MinOf(n, Len(buf))))
    /\ UNCHANGED <<kind, plc, known, value, buf, lastCb, pending, master, sent, wrote, sampleVars>>

(* The PLC gets plcSize bytes, whatever the record has given. *)
Padded(s, j) == [k \in 1..Len(plc) |-> IF k <= Len(s) THEN s[k] ELSE j]

(* Mutant: arrayDataBuffer is left as it is. *)
MutStored(i, s, j) == buf

(* The bytes of the record, as writeFloat64Array counts them, go into      *)
(* arrayDataBuffer.                                                        *)
Stored(i, s, j) ==
    LET n == IF i = "Float64Array" THEN Len(s) * Len(s) ELSE Len(s) IN
    [k \in 1..Len(buf) |-> IF k <= Len(s) THEN s[k] ELSE IF k <= n THEN j ELSE buf[k]]

Aged(q) == [k \in 1..Len(q) |-> [data |-> q[k].data, age |-> "old"]]

(* adsGenericArrayWrite, which does not check a request for an EtherCAT    *)
(* state.  The state that it sends is the first element.                   *)
arrayWriteFailed(i, s) ==
    /\ \/ i \notin ArrayOf(plcDataType) /\ UNCHANGED <<known, master, sent>>
       \/ /\ i \in ArrayOf(plcDataType)
          /\ \E o \in Outcomes \ {"done"}, j \in Junk : Access(o) /\ Traffic(i, o, Padded(s, j)[1])
    /\ Raised("WRITE_ALARM") /\ Result("arrayWrite", "error", "failed", <<>>)
    /\ UNCHANGED <<plc, value, buf, lastCb, pending, wrote, sampleVars>>

arrayWriteDone(i, s) ==
    /\ i \in ArrayOf(plcDataType) /\ Access("done")
    /\ \E j, l \in Junk : /\ plc' = Padded(s, j) /\ buf' = Stored(i, s, l)
                           /\ Traffic(i, "done", Padded(s, j)[1])
    /\ Cleared("WRITE_ALARM") /\ Result("arrayWrite", "success", "done", <<>>)
    /\ wrote' = IF buf = <<>> THEN <<>> ELSE s
    /\ queued' = Aged(queued) /\ overtaken' = "no"
    /\ UNCHANGED <<value, lastCb, pending>>

adsGenericArrayWrite(i, s) == (arrayWriteFailed(i, s) \/ arrayWriteDone(i, s)) /\ UNCHANGED kind

-----------------------------------------------------------------------------
(* updateParamInfoWithPLCInfo, at creation and in a refresh; the look-up   *)
(* of information or handle may fail.                                      *)
updateParamInfoWithPLCInfo ==
    /\ kind.source # "state"
    /\ \/ ByName /\ UNCHANGED <<known, buf>>
       \/ /\ buf' = IF isArray /\ buf = <<>> THEN [k \in 1..elems |-> 0] ELSE buf
          /\ \/ ~ByName /\ UNCHANGED known
             \/ ByName /\ known' = known \cup {"type", "handle"}    \* from the dictionary
             \/ ByName /\ known' = {"type", "info", "handle"}
             \/ ByName /\ known' = {"type", "info"}                 \* no handle
    /\ call' = NoCall
    /\ UNCHANGED <<kind, plc, value, alarm, lastCb, pending, master, sent, wrote, failing, sampleVars>>

(* A notification brings the PLC's value: adsDataCallback queues it.  (A   *)
(* bulk read, too, is answered before its thread has the lock.)            *)
adsDataCallback ==
    /\ kind.source \in {"symbol", "adr"} /\ "type" \in known /\ elems > 0 /\ (isArray => buf # <<>>)
    /\ Len(queued) < MaxQueued
    /\ queued' = Append(queued, [data |-> plc, age |-> "new"])
    /\ call' = NoCall
    /\ UNCHANGED <<kind, plc, known, value, alarm, buf, lastCb, pending, master, sent, wrote,
                   failing, overtaken>>

(* dataCallbackThread applies the oldest sample. *)
dataCallbackThread ==
    /\ queued # <<>> /\ queued' = Tail(queued)
    /\ lastCb' = kind.plcSize
    /\ LET s == Head(queued) IN
       /\ \/ kind.asynType \in Accepts(kind.plcType) /\ adsUpdateParameter(s.data, kind.plcSize)
          \/ /\ kind.asynType \notin Accepts(kind.plcType)
             /\ buf' = Copied(s.data, kind.plcSize) /\ UNCHANGED <<value, alarm, pending>>
       /\ overtaken' = IF s.age = "old" THEN "yes" ELSE "no"
    /\ call' = NoCall
    /\ UNCHANGED <<kind, plc, known, master, sent, wrote, failing>>

(* Mutant: bytes for elements of every type. *)
MutCallbackBytes == lastCb

(* fireCallbacksForArrayParam: the number of elements that are called      *)
(* back is lastCallbackSize, divided for the 64-bit integers only.         *)
callbackElements == IF kind.plcType \in {"INT64", "UINT64"} THEN lastCb \div 8 ELSE lastCb

fireCallbacksForArrayParam ==
    /\ pending = "yes" /\ pending' = "no"
    /\ call' = IF buf # <<>> /\ lastCb > 0
                 THEN [NoCall EXCEPT !.op = "callback", !.n = callbackElements] ELSE NoCall
    /\ UNCHANGED <<kind, plc, known, value, alarm, buf, lastCb, master, sent, wrote, failing, sampleVars>>

(* setAlarmPort, when the connection is lost. *)
setAlarmPort ==
    /\ Raised("COMM_ALARM") /\ call' = NoCall
    /\ UNCHANGED <<kind, plc, known, value, buf, lastCb, pending, master, sent, wrote, failing, sampleVars>>

(* The PLC program changes the variable. *)
PlcChange ==
    /\ \E v \in PlcValues, k \in DOMAIN plc : plc' = [plc EXCEPT ![k] = v]
    /\ call' = NoCall /\ wrote' = <<>>
    /\ UNCHANGED <<kind, known, value, alarm, buf, lastCb, pending, master, sent, failing, sampleVars>>

-----------------------------------------------------------------------------
Given(s, i) == {v \in s : InRange(TypeOf(i), v)}

RecordCall ==
    \/ \E i \in ScalarTypes : read(i) \/ \E v \in Given(Written, i) : write(i, v)
    \/ \E i \in ArrayTypes, n \in 0..MaxElements :
         \/ adsGenericArrayRead(i, n)
         \/ \E v \in Given(Elements, i) : adsGenericArrayWrite(i, [k \in 1..n |-> v])

Next ==
    \/ RecordCall \/ updateParamInfoWithPLCInfo \/ adsDataCallback \/ dataCallbackThread
    \/ fireCallbacksForArrayParam \/ setAlarmPort \/ PlcChange

Spec == Init /\ [][Next]_vars

-----------------------------------------------------------------------------
(* No call fails unnoticed: readInt32 and its like report success even     *)
(* when nothing was read, but then the parameter has an alarm; a write     *)
(* without an alarm (types that do not match) returns asynError.           *)
NoSilentFailure ==
    call.outcome = "failed" => call.status = "error" \/ alarm \in {"READ_ALARM", "WRITE_ALARM"}

(* A READ_ALARM or WRITE_ALARM stands for the last read or write of the    *)
(* parameter, never for an earlier one that a later success has made good, *)
(* although a success clears only the alarm of its own direction.          *)
AlarmHasCause ==
    /\ alarm = "READ_ALARM" => "read" \in failing
    /\ alarm = "WRITE_ALARM" => "write" \in failing

(* A record that reads what was last written, while the PLC has left the   *)
(* variable alone, gets the value back if the PLC's type can hold it or is *)
(* as wide as the record's: through two conversions, and whatever failed   *)
(* in between.                                                             *)
Holds(t, i, v) ==
    InRange(t, v) \/ (i # "Float64" /\ t \notin RealTypes /\ width[t] = width[TypeOf(i)])

ReadsBack ==
    call.op = "read" /\ call.outcome = "done" /\ call.status = "success"
        /\ wrote # <<>> /\ ~isArray /\ InRange(TypeOf(kind.asynType), wrote[1])
        /\ Holds(kind.plcType, kind.asynType, wrote[1])
      => call.val = <<wrote[1]>>

(* The elements that a record has written are the first ones that array    *)
(* reads return, until the PLC changes the variable, although the reads    *)
(* return arrayDataBuffer and samples overwrite it.  The exception is a    *)
(* sample that was queued before the write and applied after it: it brings *)
(* the older array back, until one that was taken later is applied.        *)
ArrayReadsBack ==
    call.op = "arrayRead" /\ call.outcome = "done" /\ overtaken = "no" =>
        \A k \in DOMAIN call.val : k \in DOMAIN wrote => call.val[k] = wrote[k]

(* The elements called back lie within arrayDataBuffer, for the types of   *)
(* one byte and the 64-bit integers.                                       *)
CallbackInBuffer ==
    call.op = "callback" /\ kind.plcType \in {"INT8", "BIT", "STRING", "INT64", "UINT64"} =>
        call.n <= Len(buf)

(* README.md says that the driver "accepts" the five states for the index  *)
(* group of EtherCAT slave states and "rejects unsupported values": every  *)
(* request that is sent, by whichever interface, is for one of them.       *)
StateValuesChecked == \A r \in sent : r.value \in States
=============================================================================
