-------------------------- MODULE AdsRecordIOProofs --------------------------
(***************************************************************************)
(* Proofs about AdsRecordIO, for any kinds of parameters, any values and   *)
(* any ranges of the types.                                                *)
(***************************************************************************)
EXTENDS AdsRecordIO, TLAPS

LEMMA WidthFacts ==
  \A t \in PlcTypes \ {"VOID"} : t \in PlcTypes /\ width[t] \in {1, 2, 4, 8}
<1> SUFFICES ASSUME NEW t \in PlcTypes \ {"VOID"} PROVE width[t] \in {1, 2, 4, 8}
    OBVIOUS
<1>1. width[t] = IF t \in {"INT16", "UINT16"} THEN 2
                 ELSE IF t \in {"INT32", "UINT32", "REAL32"} THEN 4
                 ELSE IF t \in {"INT64", "UINT64", "REAL64"} THEN 8
                 ELSE IF t = "VOID" THEN 0 ELSE 1
      BY DEF width
<1> QED BY <1>1

(* The number of elements; an array has at least one. *)
LEMMA ElemFacts ==
  ASSUME kind \in KindType
  PROVE  elems \in Nat /\ (isArray => elems > 0)
<1>1. /\ kind.plcType \in PlcTypes \ {"VOID"} /\ kind.plcSize \in Nat /\ kind.plcSize > 0
      BY DEF KindType
<1> DEFINE w == width[kind.plcType]
<1>2. w \in {1, 2, 4, 8}
      BY <1>1, WidthFacts
<1>3. kind.plcType = "STRING" => w = 1
      BY <1>1 DEF width, PlcTypes
<1>4. elems = kind.plcSize \div w /\ (isArray <=> kind.plcType = "STRING" \/ kind.plcSize > w)
      BY DEF elems, isArray
<1> HIDE DEF w
<1>5. CASE w = 1
      BY <1>1, <1>4, <1>5
<1>6. CASE w = 2
      BY <1>1, <1>3, <1>4, <1>6
<1>7. CASE w = 4
      BY <1>1, <1>3, <1>4, <1>7
<1>8. CASE w = 8
      BY <1>1, <1>3, <1>4, <1>8
<1> QED BY <1>2, <1>5, <1>6, <1>7, <1>8

(* Conversions give integers. *)
LEMMA CastFacts ==
  ASSUME NEW f, NEW t \in PlcTypes, NEW v \in Int
  PROVE  Cast(f, t, v) \subseteq Int
<1>1. span[t] \in Nat \ {0} /\ Junk \subseteq Int
      BY RecordAssumption
<1>2. ASSUME NEW u \in Int PROVE Wrap(t, u) \in Int
  <2>1. u % span[t] \in Int
        BY <1>1
  <2> QED BY <1>1, <2>1 DEF Wrap
<1>3. Round(t, v) \in Int
      BY DEF Round
<1> QED BY <1>1, <1>2, <1>3 DEF Cast

LEMMA ToPlcFacts ==
  ASSUME NEW i, NEW t \in PlcTypes, NEW v \in Int
  PROVE  ToPlc(i, t, v) \subseteq Int
<1>1. Cast(TypeOf(i), t, v) \subseteq Int
      BY CastFacts
<1> QED BY <1>1 DEF ToPlc

LEMMA TypeOfFacts == \A i : TypeOf(i) \in PlcTypes
BY DEF TypeOf, PlcTypes, SignedTypes, UnsignedTypes, RealTypes

LEMMA CopiedFacts ==
  ASSUME buf \in Seq(Int), NEW s \in Seq(Int), NEW b
  PROVE  Copied(s, b) \in Seq(Int) /\ Len(Copied(s, b)) = Len(buf)
<1>1. Len(buf) \in Nat
      OBVIOUS
<1>2. \A j \in 1..Len(buf) :
        (IF j <= b \div width[kind.plcType] /\ j <= Len(s) THEN s[j] ELSE buf[j]) \in Int
      OBVIOUS
<1> QED BY <1>1, <1>2 DEF Copied

-----------------------------------------------------------------------------
LEMMA KindFacts == TypeOK => kind \in KindType
BY RecordAssumption DEF TypeOK

LEMMA AccessFacts ==
  ASSUME TypeOK, NEW o, Access(o)
  PROVE  /\ known' \subseteq {"type", "info", "handle"}
         /\ master' \in {"unresolved", "none", "found"}
         /\ kind.source = "ecat" /\ o \in {"failed", "done"} => master' = "found"
<1>1. known \subseteq {"type", "info", "handle"} /\ master \in {"unresolved", "none", "found"}
      BY DEF TypeOK
<1>2. master' \in {"unresolved", "none", "found"} /\ (kind.source = "ecat" => master' # "unresolved")
      BY <1>1 DEF Access, checkEthercatMasterForParam
<1>3. known' \subseteq {"type", "info", "handle"}
      BY <1>1 DEF Access
<1>4. o \in {"failed", "done"} => ~NoMaster
      BY DEF Access
<1> QED BY <1>2, <1>3, <1>4 DEF NoMaster

LEMMA ResultFacts ==
  ASSUME TypeOK, NEW op \in {"read", "write", "arrayRead", "arrayWrite"},
         NEW st \in {"success", "error"}, NEW oc \in {"done", "failed"}, NEW val \in Seq(Int),
         Result(op, st, oc, val)
  PROVE  /\ call' \in Calls /\ failing' \subseteq {"read", "write"}
         /\ call'.op = op /\ call'.status = st /\ call'.outcome = oc /\ call'.val = val
<1>1. call' = [op |-> op, status |-> st, outcome |-> oc, val |-> val, n |-> 0]
      BY DEF Result
<1>2. failing \subseteq {"read", "write"}
      BY DEF TypeOK
<1>3. failing' \subseteq {"read", "write"}
      BY <1>2 DEF Result
<1> QED BY <1>1, <1>3 DEF Calls

LEMMA NoCallFacts ==
  /\ NoCall \in Calls /\ NoCall.op = "none" /\ NoCall.outcome = "done"
BY DEF NoCall, Calls

(* The first element of a sample, and what it makes of the value. *)
LEMMA UpdateFacts ==
  ASSUME TypeOK, NEW s \in Seq(Int), Len(s) > 0, NEW b, adsUpdateParameter(s, b)
  PROVE  /\ buf' \in Seq(Int) /\ Len(buf') = Len(buf) /\ value' \in Int
         /\ pending' \in {"yes", "no"} /\ alarm' = "NO_ALARM"
<1>1. buf' \in Seq(Int) /\ Len(buf') = Len(buf)
      BY CopiedFacts DEF adsUpdateParameter, TypeOK
<1>2. s[1] \in Int
      OBVIOUS
<1>3. Cast(kind.plcType, TypeOf(kind.asynType), s[1]) \subseteq Int
      BY <1>2, CastFacts, TypeOfFacts
<1>4. value' \in Int /\ pending' \in {"yes", "no"}
      BY <1>3 DEF adsUpdateParameter, TypeOK
<1> QED BY <1>1, <1>4 DEF adsUpdateParameter, Raised

LEMMA PlcDataTypeFacts == TypeOK => plcDataType \in PlcTypes
<1> SUFFICES ASSUME TypeOK PROVE plcDataType \in PlcTypes
    OBVIOUS
<1>1. kind.plcType \in PlcTypes
      BY KindFacts DEF KindType
<1> QED BY <1>1 DEF plcDataType, PlcTypes

(* What is sent is a request. *)
LEMMA TrafficFacts ==
  ASSUME NEW i \in ScalarTypes \cup ArrayTypes, NEW o, NEW w \in Int, Traffic(i, o, w)
  PROVE  sent' \subseteq Requests
BY DEF Traffic, Requests

-----------------------------------------------------------------------------
(* The inductive invariant.  A buffer belongs to an array and holds all of *)
(* it; what was last copied is nothing or the whole variable.              *)
BufferWhole ==
    /\ lastCb \in {0, kind.plcSize}
    /\ buf = <<>> \/ (isArray /\ Len(buf) = elems)

(* What a record has written into an array is in the PLC, in the samples   *)
(* that were taken since and, unless an older one was applied, in the      *)
(* buffer.  Samples hold the whole array.                                  *)
Mirrors ==
    isArray =>
      /\ buf = <<>> => wrote = <<>>
      /\ kind.source # "state" => Len(plc) = elems
      /\ \A q \in 1..Len(queued) : Len(queued[q].data) = elems
      /\ \A k \in 1..Len(wrote) :
           /\ k \in 1..Len(plc) => plc[k] = wrote[k]
           /\ overtaken = "no" /\ k \in 1..Len(buf) => buf[k] = wrote[k]
           /\ \A q \in 1..Len(queued) :
                queued[q].age = "new" /\ k \in 1..elems => queued[q].data[k] = wrote[k]

SamplesFilled == \A q \in 1..Len(queued) : Len(queued[q].data) > 0

Kept ==
    /\ AlarmHasCause /\ NoSilentFailure
    /\ BufferWhole /\ Mirrors /\ SamplesFilled /\ CallbackInBuffer /\ ArrayReadsBack

(* A step that leaves the arrays alone. *)
LEMMA FrameArrays ==
  ASSUME Kept, UNCHANGED <<kind, plc, buf, lastCb, wrote, queued, overtaken>>
  PROVE  BufferWhole' /\ Mirrors' /\ SamplesFilled'
<1>1. isArray' = isArray /\ elems' = elems
      BY DEF isArray, elems
<1> QED BY <1>1 DEF Kept, BufferWhole, Mirrors, SamplesFilled

(* Every call but an array read and a callback says nothing of the buffer. *)
LEMMA OtherCall ==
  ASSUME call'.op \notin {"callback", "arrayRead"}
  PROVE  CallbackInBuffer' /\ ArrayReadsBack'
BY DEF CallbackInBuffer, ArrayReadsBack

LEMMA readFailedStep ==
  ASSUME TypeOK, Kept, NEW i \in ScalarTypes, readFailed(i), UNCHANGED <<kind, queued, overtaken>>
  PROVE  TypeOK' /\ Kept'
<1>1. /\ alarm' = "READ_ALARM" /\ Result("read", "success", "failed", <<>>)
      /\ UNCHANGED <<kind, plc, value, buf, lastCb, pending, sent, wrote, queued, overtaken>>
      BY DEF readFailed, Raised
<1>2. known' \subseteq {"type", "info", "handle"} /\ master' \in {"unresolved", "none", "found"}
      BY AccessFacts DEF readFailed
<1>3. <<>> \in Seq(Int)
      OBVIOUS
<1>4. call' \in Calls /\ failing' \subseteq {"read", "write"} /\ call'.op = "read"
      BY <1>1, <1>3, ResultFacts
<1>5. "read" \in failing'
      BY <1>1 DEF Result
<1>6. TypeOK'
      BY <1>1, <1>2, <1>4 DEF TypeOK
<1>7. AlarmHasCause' /\ NoSilentFailure'
      BY <1>1, <1>5 DEF Kept, AlarmHasCause, NoSilentFailure
<1> QED BY <1>1, <1>4, <1>6, <1>7, FrameArrays, OtherCall DEF Kept

LEMMA readDoneStep ==
  ASSUME TypeOK, Kept, NEW i \in ScalarTypes, readDone(i), UNCHANGED <<kind, queued, overtaken>>
  PROVE  TypeOK' /\ Kept'
<1>1. PICK j \in Junk : adsUpdateParameter(IF elems = 0 THEN <<j>> ELSE plc, lastCb)
      BY DEF readDone
<1> DEFINE s == IF elems = 0 THEN <<j>> ELSE plc
<1>2. s \in Seq(Int) /\ Len(s) > 0
      BY RecordAssumption DEF TypeOK
<1>3. /\ buf' \in Seq(Int) /\ Len(buf') = Len(buf) /\ value' \in Int
      /\ pending' \in {"yes", "no"} /\ alarm' = "NO_ALARM"
      BY <1>1, <1>2, UpdateFacts
<1>4. UNCHANGED <<kind, plc, lastCb, sent, wrote, queued, overtaken>> /\ Access("done")
      BY DEF readDone
<1>5. known' \subseteq {"type", "info", "handle"} /\ master' \in {"unresolved", "none", "found"}
      BY <1>4, AccessFacts
<1>6. call' \in Calls /\ failing' \subseteq {"read", "write"} /\ call'.op = "read" /\ call'.outcome = "done"
  <2>1. <<>> \in Seq(Int) /\ <<value'>> \in Seq(Int)
        BY <1>3
  <2>2. \/ Result("read", "success", "done", <<value'>>)
        \/ Result("read", "error", "done", <<>>)
        BY DEF readDone
  <2>3. CASE Result("read", "success", "done", <<value'>>)
        BY <2>1, <2>3, ResultFacts
  <2>4. CASE Result("read", "error", "done", <<>>)
        BY <2>1, <2>4, ResultFacts
  <2> QED BY <2>2, <2>3, <2>4
<1>7. TypeOK'
      BY <1>3, <1>4, <1>5, <1>6 DEF TypeOK
<1>8. AlarmHasCause' /\ NoSilentFailure'
      BY <1>3, <1>4, <1>6 DEF Kept, AlarmHasCause, NoSilentFailure
<1>9. isArray' = isArray /\ elems' = elems
      BY <1>4 DEF isArray, elems
<1>10. BufferWhole'
      BY <1>3, <1>4, <1>9 DEF Kept, BufferWhole, TypeOK
<1>f. SamplesFilled'
      BY <1>4 DEF Kept, SamplesFilled
<1>11. Mirrors'
  <2> SUFFICES ASSUME isArray PROVE
        /\ buf' = <<>> => wrote = <<>>
        /\ overtaken = "no" => \A k \in 1..Len(wrote) : k \in 1..Len(buf') => buf'[k] = wrote[k]
      BY <1>4, <1>9 DEF Kept, Mirrors
  <2>1. s = plc
        BY ElemFacts, KindFacts
  <2>2. buf' = Copied(plc, lastCb)
        BY <1>1, <2>1 DEF adsUpdateParameter
  <2>3. \A k \in 1..Len(buf) : buf'[k] = buf[k] \/ (k \in 1..Len(plc) /\ buf'[k] = plc[k])
        BY <2>2 DEF Copied, TypeOK
  <2>4. buf' = <<>> => buf = <<>>
        BY <1>3 DEF TypeOK
  <2> QED BY <1>3, <2>3, <2>4 DEF Kept, Mirrors
<1> QED BY <1>6, <1>7, <1>8, <1>10, <1>11, <1>f, OtherCall DEF Kept

LEMMA writeRefusedStep ==
  ASSUME TypeOK, Kept, NEW i \in ScalarTypes, NEW v \in Int, writeRefused(i, v), UNCHANGED <<kind, queued, overtaken>>
  PROVE  TypeOK' /\ Kept'
<1>1. UNCHANGED <<kind, plc, known, value, buf, lastCb, pending, master, sent, wrote, queued, overtaken>>
      BY DEF writeRefused
<1>2. \/ alarm' = "WRITE_ALARM" /\ Result("write", "success", "failed", <<>>)
      \/ alarm' = alarm /\ Result("write", "error", "failed", <<>>)
      \/ alarm' = "WRITE_ALARM" /\ Result("write", "error", "failed", <<>>)
      BY DEF writeRefused, Raised
<1>3. <<>> \in Seq(Int)
      OBVIOUS
<1>4. /\ call' \in Calls /\ failing' \subseteq {"read", "write"} /\ call'.op = "write"
      /\ call'.status = "error" \/ alarm' = "WRITE_ALARM"
  <2>1. CASE alarm' = "WRITE_ALARM" /\ Result("write", "success", "failed", <<>>)
        BY <1>3, <2>1, ResultFacts
  <2>2. CASE Result("write", "error", "failed", <<>>)
        BY <1>3, <2>2, ResultFacts
  <2> QED BY <1>2, <2>1, <2>2
<1>5. failing' = failing \cup {"write"}
      BY <1>2 DEF Result
<1>6. TypeOK'
      BY <1>1, <1>2, <1>4 DEF TypeOK
<1>7. AlarmHasCause' /\ NoSilentFailure'
      BY <1>1, <1>2, <1>4, <1>5 DEF Kept, AlarmHasCause, NoSilentFailure
<1> QED BY <1>1, <1>4, <1>6, <1>7, FrameArrays, OtherCall DEF Kept

LEMMA writeStateStep ==
  ASSUME TypeOK, Kept, NEW i \in ScalarTypes, NEW v \in Int, writeState(i, v), UNCHANGED <<kind, queued, overtaken>>
  PROVE  TypeOK' /\ Kept'
<1>1. /\ UNCHANGED <<kind, known, value, buf, lastCb, pending, master, sent, queued, overtaken>>
      /\ kind.source = "state"
      BY DEF writeState
<1>2. <<>> \in Seq(Int)
      OBVIOUS
<1>3. CASE UNCHANGED <<plc, wrote>> /\ alarm' = "WRITE_ALARM"
           /\ Result("write", "success", "failed", <<>>)
  <2>1. call' \in Calls /\ failing' \subseteq {"read", "write"} /\ call'.op = "write"
        BY <1>2, <1>3, ResultFacts
  <2>2. "write" \in failing'
        BY <1>3 DEF Result
  <2>3. TypeOK'
        BY <1>1, <1>3, <2>1 DEF TypeOK
  <2>4. AlarmHasCause' /\ NoSilentFailure'
        BY <1>1, <1>3, <2>2 DEF Kept, AlarmHasCause, NoSilentFailure
  <2> QED BY <1>1, <1>3, <2>1, <2>3, <2>4, FrameArrays, OtherCall DEF Kept
<1>4. CASE /\ \E w \in Cast(TypeOf(i), "UINT16", v) : plc' = <<w>>
           /\ Cleared("WRITE_ALARM") /\ Result("write", "success", "done", <<>>)
           /\ wrote' = <<>>
  <2>1. /\ call' \in Calls /\ failing' \subseteq {"read", "write"} /\ call'.op = "write"
        /\ call'.outcome = "done"
        BY <1>2, <1>4, ResultFacts
  <2>2. plc' \in Seq(Int) /\ Len(plc') > 0
    <3>1. "UINT16" \in PlcTypes
          BY DEF PlcTypes, UnsignedTypes
    <3>2. Cast(TypeOf(i), "UINT16", v) \subseteq Int
          BY <3>1, CastFacts
    <3> QED BY <1>4, <3>2
  <2>3. /\ alarm' = "NO_ALARM" \/ (alarm' = alarm /\ alarm # "WRITE_ALARM")
        /\ failing' = failing \ {"write"}
        BY <1>4 DEF Cleared, Result
  <2>4. TypeOK'
        BY <1>1, <1>2, <1>4, <2>1, <2>2, <2>3 DEF TypeOK
  <2>5. AlarmHasCause' /\ NoSilentFailure'
        BY <1>1, <2>1, <2>3 DEF Kept, AlarmHasCause, NoSilentFailure
  <2>6. isArray' = isArray /\ elems' = elems /\ Len(wrote') = 0
        BY <1>1, <1>4 DEF isArray, elems
  <2>7. BufferWhole' /\ Mirrors' /\ SamplesFilled'
        BY <1>1, <1>4, <2>6 DEF Kept, BufferWhole, Mirrors, SamplesFilled
  <2> QED BY <2>1, <2>4, <2>5, <2>7, OtherCall DEF Kept
<1> QED BY <1>3, <1>4 DEF writeState, Raised

LEMMA writeFailedStep ==
  ASSUME TypeOK, Kept, NEW i \in ScalarTypes, NEW v \in Int, writeFailed(i, v), UNCHANGED <<kind, queued, overtaken>>
  PROVE  TypeOK' /\ Kept'
<1>1. /\ alarm' = "WRITE_ALARM" /\ Result("write", "error", "failed", <<>>)
      /\ UNCHANGED <<kind, plc, value, buf, lastCb, pending, wrote, queued, overtaken>>
      BY DEF writeFailed, Raised
<1>2. PICK o \in Outcomes, w \in ToPlc(i, plcDataType, v) : Access(o) /\ Traffic(i, o, w)
      BY DEF writeFailed
<1>3. known' \subseteq {"type", "info", "handle"} /\ master' \in {"unresolved", "none", "found"}
      BY <1>2, AccessFacts
<1>4. sent' \subseteq Requests
      BY <1>2, TrafficFacts, ToPlcFacts, PlcDataTypeFacts
<1>5. <<>> \in Seq(Int)
      OBVIOUS
<1>6. call' \in Calls /\ failing' \subseteq {"read", "write"} /\ call'.op = "write"
      BY <1>1, <1>5, ResultFacts
<1>7. "write" \in failing'
      BY <1>1 DEF Result
<1>8. TypeOK'
      BY <1>1, <1>3, <1>4, <1>6 DEF TypeOK
<1>9. AlarmHasCause' /\ NoSilentFailure'
      BY <1>1, <1>7 DEF AlarmHasCause, NoSilentFailure
<1> QED BY <1>1, <1>4, <1>6, <1>8, <1>9, FrameArrays, OtherCall DEF Kept

LEMMA writeDoneStep ==
  ASSUME TypeOK, Kept, NEW i \in ScalarTypes, NEW v \in Int, writeDone(i, v), UNCHANGED <<kind, queued, overtaken>>
  PROVE  TypeOK' /\ Kept'
<1>1. /\ Sendable(i, v) /\ Access("done") /\ Cleared("WRITE_ALARM")
      /\ UNCHANGED <<kind, buf, lastCb, pending, queued, overtaken>> /\ wrote' \in {<<>>, <<v>>}
      BY DEF writeDone
<1>2. PICK w \in ToPlc(i, plcDataType, v) : plc' = <<w>> /\ Traffic(i, "done", w)
      BY DEF writeDone
<1>3. known' \subseteq {"type", "info", "handle"} /\ master' \in {"unresolved", "none", "found"}
      BY <1>1, AccessFacts
<1>4. sent' \subseteq Requests
      BY <1>2, TrafficFacts, ToPlcFacts, PlcDataTypeFacts
<1>5. plc' \in Seq(Int) /\ Len(plc') > 0 /\ wrote' \in Seq(Int) /\ value' \in Int
  <2>1. w \in Int
        BY ToPlcFacts, PlcDataTypeFacts
  <2> QED BY <1>1, <1>2, <2>1 DEF TypeOK, writeDone
<1>6. /\ call' \in Calls /\ failing' \subseteq {"read", "write"} /\ call'.op = "write"
      /\ call'.outcome = "done"
  <2>1. <<>> \in Seq(Int)
        OBVIOUS
  <2>2. Result("write", "success", "done", <<>>) \/ Result("write", "error", "done", <<>>)
        BY DEF writeDone
  <2>3. CASE Result("write", "success", "done", <<>>)
        BY <2>1, <2>3, ResultFacts
  <2>4. CASE Result("write", "error", "done", <<>>)
        BY <2>1, <2>4, ResultFacts
  <2> QED BY <2>2, <2>3, <2>4
<1>7. /\ alarm' = "NO_ALARM" \/ (alarm' = alarm /\ alarm # "WRITE_ALARM")
      /\ failing' = failing \ {"write"}
      BY <1>1 DEF Cleared, writeDone, Result
<1>8. TypeOK'
      BY <1>1, <1>3, <1>4, <1>5, <1>6, <1>7 DEF TypeOK
<1>9. AlarmHasCause' /\ NoSilentFailure'
      BY <1>6, <1>7 DEF Kept, AlarmHasCause, NoSilentFailure
<1>10. isArray' = isArray /\ elems' = elems
      BY <1>1 DEF isArray, elems
<1>11. ~isArray
  <2>1. plcDataType \notin {"STRING", "VOID"} /\ width[plcDataType] = kind.plcSize
        BY <1>1 DEF Sendable, Writable, ScalarTypes
  <2>2. plcDataType = kind.plcType
        BY <2>1 DEF plcDataType
  <2>3. kind.plcSize \in Nat
        BY KindFacts DEF KindType
  <2> QED BY <2>1, <2>2, <2>3 DEF isArray
<1>12. BufferWhole' /\ Mirrors' /\ SamplesFilled'
      BY <1>1, <1>10, <1>11 DEF Kept, BufferWhole, Mirrors, SamplesFilled
<1> QED BY <1>4, <1>6, <1>8, <1>9, <1>12, OtherCall DEF Kept

LEMMA arrayReadStep ==
  ASSUME TypeOK, Kept, NEW i \in ArrayTypes, NEW n \in Nat, adsGenericArrayRead(i, n)
  PROVE  TypeOK' /\ Kept'
<1>1. UNCHANGED <<kind, plc, known, value, buf, lastCb, pending, master, sent, wrote,
                  queued, overtaken>>
      BY DEF adsGenericArrayRead, sampleVars
<1>2. CASE alarm' = "READ_ALARM" /\ Result("arrayRead", "error", "failed", <<>>)
  <2>1. <<>> \in Seq(Int)
        OBVIOUS
  <2>2. /\ call' \in Calls /\ failing' \subseteq {"read", "write"} /\ call'.op = "arrayRead"
        /\ call'.outcome = "failed" /\ call'.status = "error"
        BY <1>2, <2>1, ResultFacts
  <2>3. failing' = failing \cup {"read"}
        BY <1>2 DEF Result
  <2>4. TypeOK'
        BY <1>1, <1>2, <2>2 DEF TypeOK
  <2>5. AlarmHasCause' /\ NoSilentFailure'
        BY <1>1, <1>2, <2>2, <2>3 DEF Kept, AlarmHasCause, NoSilentFailure
  <2>6. CallbackInBuffer' /\ ArrayReadsBack'
        BY <2>2 DEF CallbackInBuffer, ArrayReadsBack
  <2> QED BY <1>1, <2>4, <2>5, <2>6, FrameArrays DEF Kept
<1>3. CASE /\ buf # <<>> /\ Cleared("READ_ALARM")
           /\ Result("arrayRead", "success", "done", SubSeq(buf, 1, MinOf(n, Len(buf))))
  <2> DEFINE m == MinOf(n, Len(buf))
             r == SubSeq(buf, 1, m)
  <2>1. buf \in Seq(Int) /\ m \in 0..Len(buf)
        BY DEF TypeOK, MinOf
  <2> HIDE DEF m
  <2>2. r \in Seq(Int) /\ Len(r) = m /\ \A k \in 1..m : r[k] = buf[k]
        BY <2>1
  <2> HIDE DEF r
  <2>3. Result("arrayRead", "success", "done", r)
        BY <1>3 DEF r, m
  <2>4. /\ call' \in Calls /\ failing' \subseteq {"read", "write"} /\ call'.op = "arrayRead"
        /\ call'.outcome = "done" /\ call'.val = r
        BY <2>2, <2>3, ResultFacts
  <2>5. /\ failing' = failing \ {"read"}
        /\ alarm' = "NO_ALARM" \/ (alarm' = alarm /\ alarm # "READ_ALARM")
        BY <1>3 DEF Result, Cleared
  <2>6. TypeOK'
        BY <1>1, <2>4, <2>5 DEF TypeOK
  <2>7. AlarmHasCause' /\ NoSilentFailure'
        BY <1>1, <2>4, <2>5 DEF Kept, AlarmHasCause, NoSilentFailure
  <2>8. CallbackInBuffer'
        BY <2>4 DEF CallbackInBuffer
  <2>9. ArrayReadsBack'
    <3>1. wrote \in Seq(Int)
          BY DEF TypeOK
    <3>2. isArray
          BY <1>3 DEF Kept, BufferWhole
    <3> SUFFICES ASSUME overtaken = "no"
                 PROVE  \A k \in DOMAIN r : k \in DOMAIN wrote => r[k] = wrote[k]
        BY <1>1, <2>4 DEF ArrayReadsBack
    <3>3. \A k \in 1..Len(wrote) : k \in 1..Len(buf) => buf[k] = wrote[k]
          BY <3>2 DEF Kept, Mirrors
    <3>4. DOMAIN r = 1..m /\ DOMAIN wrote = 1..Len(wrote)
          BY <2>2, <3>1
    <3>5. ASSUME NEW k \in 1..m, k \in 1..Len(wrote) PROVE r[k] = wrote[k]
      <4>1. k \in 1..Len(buf)
            BY <2>1
      <4> QED BY <2>2, <3>3, <3>5, <4>1
    <3> QED BY <3>4, <3>5
  <2> QED BY <1>1, <2>6, <2>7, <2>8, <2>9, FrameArrays DEF Kept
<1> QED BY <1>2, <1>3 DEF adsGenericArrayRead, Raised

LEMMA PaddedFacts ==
  ASSUME TypeOK, NEW s \in Seq(Int), NEW j \in Junk
  PROVE  /\ Padded(s, j) \in Seq(Int) /\ Len(Padded(s, j)) = Len(plc) /\ Padded(s, j)[1] \in Int
         /\ \A k \in 1..Len(plc) : k <= Len(s) => Padded(s, j)[k] = s[k]
<1>1. j \in Int /\ Len(s) \in Nat /\ Len(plc) \in Nat /\ Len(plc) > 0
      BY RecordAssumption DEF TypeOK
<1>2. \A k \in 1..Len(plc) : (IF k <= Len(s) THEN s[k] ELSE j) \in Int
      BY <1>1
<1> QED BY <1>1, <1>2 DEF Padded

LEMMA arrayWriteFailedStep ==
  ASSUME TypeOK, Kept, NEW i \in ArrayTypes, NEW s \in Seq(Int), arrayWriteFailed(i, s),
         UNCHANGED kind
  PROVE  TypeOK' /\ Kept'
<1>1. /\ alarm' = "WRITE_ALARM" /\ Result("arrayWrite", "error", "failed", <<>>)
      /\ UNCHANGED <<kind, plc, value, buf, lastCb, pending, wrote, queued, overtaken>>
      BY DEF arrayWriteFailed, Raised, sampleVars
<1>2. known' \subseteq {"type", "info", "handle"} /\ master' \in {"unresolved", "none", "found"}
  <2>1. CASE UNCHANGED <<known, master>>
        BY <2>1 DEF TypeOK
  <2>2. ASSUME NEW o, Access(o)
        PROVE  known' \subseteq {"type", "info", "handle"}
               /\ master' \in {"unresolved", "none", "found"}
        BY <2>2, AccessFacts
  <2> QED BY <2>1, <2>2 DEF arrayWriteFailed
<1>s. sent' \subseteq Requests
  <2>1. CASE UNCHANGED sent
        BY <2>1 DEF TypeOK
  <2>2. ASSUME NEW o, NEW j \in Junk, Traffic(i, o, Padded(s, j)[1]) PROVE sent' \subseteq Requests
        BY <2>2, PaddedFacts, TrafficFacts
  <2> QED BY <2>1, <2>2 DEF arrayWriteFailed
<1>3. <<>> \in Seq(Int)
      OBVIOUS
<1>4. call' \in Calls /\ failing' \subseteq {"read", "write"} /\ call'.op = "arrayWrite"
      BY <1>1, <1>3, ResultFacts
<1>5. "write" \in failing'
      BY <1>1 DEF Result
<1>6. TypeOK'
      BY <1>1, <1>2, <1>4, <1>s DEF TypeOK
<1>7. AlarmHasCause' /\ NoSilentFailure'
      BY <1>1, <1>5 DEF Kept, AlarmHasCause, NoSilentFailure
<1> QED BY <1>1, <1>4, <1>6, <1>7, FrameArrays, OtherCall DEF Kept

LEMMA arrayWriteDoneStep ==
  ASSUME TypeOK, Kept, NEW i \in ArrayTypes, NEW s \in Seq(Int), arrayWriteDone(i, s),
         UNCHANGED kind
  PROVE  TypeOK' /\ Kept'
<1>1. /\ Access("done") /\ Cleared("WRITE_ALARM") /\ Result("arrayWrite", "success", "done", <<>>)
      /\ UNCHANGED <<kind, value, lastCb, pending>>
      /\ wrote' = (IF buf = <<>> THEN <<>> ELSE s)
      /\ queued' = Aged(queued) /\ overtaken' = "no"
      BY DEF arrayWriteDone
<1>2. PICK j \in Junk, l \in Junk : /\ plc' = Padded(s, j) /\ buf' = Stored(i, s, l)
                                     /\ Traffic(i, "done", Padded(s, j)[1])
      BY DEF arrayWriteDone
<1>3. j \in Int /\ l \in Int /\ Len(s) \in Nat /\ Len(plc) \in Nat /\ Len(buf) \in Nat
      BY RecordAssumption DEF TypeOK
<1>4. /\ plc' \in Seq(Int) /\ Len(plc') = Len(plc)
      /\ \A k \in 1..Len(plc) : k <= Len(s) => plc'[k] = s[k]
      BY <1>2, PaddedFacts
<1>s. sent' \subseteq Requests
      BY <1>2, PaddedFacts, TrafficFacts
<1>q. /\ queued' \in Seq(Samples) /\ Len(queued') = Len(queued)
      /\ \A q \in 1..Len(queued) : queued'[q].data = queued[q].data /\ queued'[q].age = "old"
  <2>1. Len(queued) \in Nat /\ \A q \in 1..Len(queued) : queued[q] \in Samples
        BY DEF TypeOK
  <2>2. \A q \in 1..Len(queued) : [data |-> queued[q].data, age |-> "old"] \in Samples
        BY <2>1 DEF Samples
  <2>3. queued' = [q \in 1..Len(queued) |-> [data |-> queued[q].data, age |-> "old"]]
        BY <1>1 DEF Aged
  <2>4. queued' \in Seq(Samples) /\ Len(queued') = Len(queued)
        BY <2>1, <2>2, <2>3
  <2>5. \A q \in 1..Len(queued) : queued'[q] = [data |-> queued[q].data, age |-> "old"]
        BY <2>3
  <2>6. ASSUME NEW q \in 1..Len(queued)
        PROVE  queued'[q].data = queued[q].data /\ queued'[q].age = "old"
    <3>1. queued'[q] = [data |-> queued[q].data, age |-> "old"]
          BY <2>5
    <3>2. \A d, r : r = [data |-> d, age |-> "old"] => r.data = d /\ r.age = "old"
          OBVIOUS
    <3> QED BY <3>1, <3>2
  <2> QED BY <2>4, <2>6
<1>5. /\ buf' \in Seq(Int) /\ Len(buf') = Len(buf)
      /\ \A k \in 1..Len(buf) : k <= Len(s) => buf'[k] = s[k]
  <2> DEFINE n == IF i = "Float64Array" THEN Len(s) * Len(s) ELSE Len(s)
  <2>1. buf' = [k \in 1..Len(buf) |-> IF k <= Len(s) THEN s[k] ELSE IF k <= n THEN l ELSE buf[k]]
        BY <1>2 DEF Stored
  <2> HIDE DEF n
  <2>2. \A k \in 1..Len(buf) :
           (IF k <= Len(s) THEN s[k] ELSE IF k <= n THEN l ELSE buf[k]) \in Int
        BY <1>3 DEF TypeOK
  <2> QED BY <1>3, <2>1, <2>2
<1>6. known' \subseteq {"type", "info", "handle"} /\ master' \in {"unresolved", "none", "found"}
      BY <1>1, AccessFacts
<1>7. <<>> \in Seq(Int)
      OBVIOUS
<1>8. /\ call' \in Calls /\ failing' \subseteq {"read", "write"} /\ call'.op = "arrayWrite"
      /\ call'.outcome = "done"
      BY <1>1, <1>7, ResultFacts
<1>9. /\ alarm' = "NO_ALARM" \/ (alarm' = alarm /\ alarm # "WRITE_ALARM")
      /\ failing' = failing \ {"write"}
      BY <1>1 DEF Cleared, Result
<1>10. TypeOK'
      BY <1>1, <1>4, <1>5, <1>6, <1>7, <1>8, <1>9, <1>s, <1>q DEF TypeOK
<1>11. AlarmHasCause' /\ NoSilentFailure'
      BY <1>1, <1>8, <1>9 DEF Kept, AlarmHasCause, NoSilentFailure
<1>12. isArray' = isArray /\ elems' = elems
      BY <1>1 DEF isArray, elems
<1>13. buf' = <<>> <=> buf = <<>>
      BY <1>5 DEF TypeOK
<1>14. BufferWhole'
      BY <1>1, <1>5, <1>12, <1>13 DEF Kept, BufferWhole
<1>15. Mirrors' /\ SamplesFilled'
  <2>1. SamplesFilled'
        BY <1>q DEF Kept, SamplesFilled
  <2>2. isArray => /\ kind.source # "state" => Len(plc') = elems
                   /\ \A q \in 1..Len(queued') : Len(queued'[q].data) = elems /\ queued'[q].age # "new"
    <3> SUFFICES ASSUME isArray
                 PROVE  /\ kind.source # "state" => Len(plc') = elems
                        /\ \A q \in 1..Len(queued') :
                             Len(queued'[q].data) = elems /\ queued'[q].age # "new"
        OBVIOUS
    <3>1. /\ kind.source # "state" => Len(plc) = elems
          /\ \A q \in 1..Len(queued) : Len(queued[q].data) = elems
          BY DEF Kept, Mirrors
    <3> QED BY <1>4, <1>q, <3>1
  <2>3. CASE buf = <<>>
    <3>1. wrote' = <<>> /\ Len(wrote') = 0
          BY <1>1, <2>3
    <3> QED BY <1>1, <1>12, <2>1, <2>2, <3>1 DEF Mirrors
  <2>4. CASE buf # <<>>
        BY <1>1, <1>3, <1>4, <1>5, <1>12, <1>13, <2>1, <2>2, <2>4 DEF Mirrors
  <2> QED BY <2>3, <2>4
<1> QED BY <1>8, <1>10, <1>11, <1>14, <1>15, OtherCall DEF Kept

LEMMA updateParamStep ==
  ASSUME TypeOK, Kept, updateParamInfoWithPLCInfo
  PROVE  TypeOK' /\ Kept'
<1>1. /\ UNCHANGED <<kind, plc, value, alarm, lastCb, pending, master, sent, wrote, failing>>
      /\ call' = NoCall /\ UNCHANGED <<queued, overtaken>>
      BY DEF updateParamInfoWithPLCInfo, sampleVars
<1>2. known' \subseteq {"type", "info", "handle"}
      BY DEF updateParamInfoWithPLCInfo, TypeOK
<1>3. buf' = buf \/ (isArray /\ buf = <<>> /\ buf' = [k \in 1..elems |-> 0])
      BY DEF updateParamInfoWithPLCInfo
<1>4. elems \in Nat /\ isArray' = isArray /\ elems' = elems
      BY <1>1, ElemFacts, KindFacts DEF isArray, elems
<1>5. buf' \in Seq(Int) /\ (buf' = buf \/ (isArray /\ Len(buf') = elems))
      BY <1>3, <1>4 DEF TypeOK
<1>6. TypeOK'
      BY <1>1, <1>2, <1>5, NoCallFacts DEF TypeOK
<1>7. AlarmHasCause' /\ NoSilentFailure'
      BY <1>1, NoCallFacts DEF Kept, AlarmHasCause, NoSilentFailure
<1>8. BufferWhole'
      BY <1>1, <1>4, <1>5 DEF Kept, BufferWhole
<1>9. Mirrors'
  <2>1. CASE buf' = buf
        BY <1>1, <1>4, <2>1 DEF Kept, Mirrors
  <2>2. CASE isArray /\ buf = <<>>
    <3>1. wrote' = <<>> /\ Len(wrote') = 0
          BY <1>1, <2>2 DEF Kept, Mirrors
    <3> QED BY <1>1, <1>4, <2>2, <3>1 DEF Kept, Mirrors
  <2> QED BY <1>3, <2>1, <2>2
<1>10. SamplesFilled'
      BY <1>1 DEF Kept, SamplesFilled
<1> QED BY <1>1, <1>6, <1>7, <1>8, <1>9, <1>10, NoCallFacts, OtherCall DEF Kept

LEMMA adsDataCallbackStep ==
  ASSUME TypeOK, Kept, adsDataCallback
  PROVE  TypeOK' /\ Kept'
<1> DEFINE n == [data |-> plc, age |-> "new"]
<1>1. /\ UNCHANGED <<kind, plc, known, value, alarm, buf, lastCb, pending, master, sent, wrote,
                     failing, overtaken>>
      /\ call' = NoCall /\ queued' = Append(queued, n) /\ kind.source # "state"
      BY DEF adsDataCallback
<1>2. n \in Samples /\ n.data = plc /\ Len(plc) > 0
      BY DEF Samples, TypeOK
<1>3. queued \in Seq(Samples)
      BY DEF TypeOK
<1> HIDE DEF n
<1>4. /\ queued' \in Seq(Samples) /\ Len(queued') = Len(queued) + 1 /\ Len(queued) \in Nat
      /\ queued'[Len(queued) + 1] = n /\ \A q \in 1..Len(queued) : queued'[q] = queued[q]
      BY <1>1, <1>2, <1>3
<1>5. \A q \in 1..Len(queued') : q \in 1..Len(queued) \/ q = Len(queued) + 1
      BY <1>4
<1>6. TypeOK'
      BY <1>1, <1>4, NoCallFacts DEF TypeOK
<1>7. AlarmHasCause' /\ NoSilentFailure'
      BY <1>1, NoCallFacts DEF Kept, AlarmHasCause, NoSilentFailure
<1>8. isArray' = isArray /\ elems' = elems
      BY <1>1 DEF isArray, elems
<1>9. BufferWhole'
      BY <1>1, <1>8 DEF Kept, BufferWhole
<1>10. SamplesFilled'
      BY <1>2, <1>4, <1>5 DEF Kept, SamplesFilled
<1>11. Mirrors'
  <2> SUFFICES ASSUME isArray
               PROVE  \A q \in 1..Len(queued') :
                        /\ Len(queued'[q].data) = elems
                        /\ \A k \in 1..Len(wrote) : queued'[q].age = "new" /\ k \in 1..elems =>
                             queued'[q].data[k] = wrote[k]
      BY <1>1, <1>8 DEF Kept, Mirrors
  <2>1. Len(plc) = elems /\ \A k \in 1..Len(wrote) : k \in 1..elems => plc[k] = wrote[k]
        BY <1>1 DEF Kept, Mirrors
  <2>2. \A q \in 1..Len(queued) :
          /\ Len(queued[q].data) = elems
          /\ \A k \in 1..Len(wrote) : queued[q].age = "new" /\ k \in 1..elems =>
               queued[q].data[k] = wrote[k]
        BY DEF Kept, Mirrors
  <2> QED BY <1>2, <1>4, <1>5, <2>1, <2>2
<1> QED BY <1>1, <1>6, <1>7, <1>9, <1>10, <1>11, NoCallFacts, OtherCall DEF Kept

LEMMA dataCallbackThreadStep ==
  ASSUME TypeOK, Kept, dataCallbackThread
  PROVE  TypeOK' /\ Kept'
<1> DEFINE s == Head(queued)
<1>1. /\ UNCHANGED <<kind, plc, known, master, sent, wrote, failing>>
      /\ call' = NoCall /\ lastCb' = kind.plcSize /\ queued # <<>> /\ queued' = Tail(queued)
      /\ overtaken' = IF s.age = "old" THEN "yes" ELSE "no"
      BY DEF dataCallbackThread
<1>2. /\ queued \in Seq(Samples) /\ queued' \in Seq(Samples) /\ Len(queued') = Len(queued) - 1
      /\ Len(queued) \in Nat /\ Len(queued) > 0 /\ s = queued[1]
      /\ \A q \in 1..Len(queued') : queued'[q] = queued[q + 1] /\ q + 1 \in 1..Len(queued)
      BY <1>1 DEF TypeOK
<1>3. s \in Samples /\ s.data \in Seq(Int) /\ s.age \in {"old", "new"} /\ Len(s.data) > 0
  <2>1. 1 \in 1..Len(queued) /\ queued[1] \in Samples
        BY <1>2
  <2> QED BY <1>2, <2>1 DEF Kept, SamplesFilled, Samples
<1>u. \/ adsUpdateParameter(s.data, kind.plcSize)
      \/ buf' = Copied(s.data, kind.plcSize) /\ UNCHANGED <<value, alarm, pending>>
      BY DEF dataCallbackThread
<1> HIDE DEF s
<1>4. buf' = Copied(s.data, kind.plcSize)
      BY <1>u DEF adsUpdateParameter
<1>5. buf' \in Seq(Int) /\ Len(buf') = Len(buf)
      BY <1>3, <1>4, CopiedFacts DEF TypeOK
<1>6. /\ value' \in Int /\ pending' \in {"yes", "no"} /\ alarm' \in {"NO_ALARM", alarm}
  <2>1. CASE adsUpdateParameter(s.data, kind.plcSize)
        BY <1>3, <2>1, UpdateFacts DEF TypeOK
  <2>2. CASE UNCHANGED <<value, alarm, pending>>
        BY <2>2 DEF TypeOK
  <2> QED BY <1>u, <2>1, <2>2
<1>7. kind.plcSize \in Nat
      BY KindFacts DEF KindType
<1>8. TypeOK'
      BY <1>1, <1>2, <1>5, <1>6, <1>7, NoCallFacts DEF TypeOK
<1>9. AlarmHasCause' /\ NoSilentFailure'
      BY <1>1, <1>6, NoCallFacts DEF Kept, AlarmHasCause, NoSilentFailure
<1>10. isArray' = isArray /\ elems' = elems
      BY <1>1 DEF isArray, elems
<1>11. buf' = <<>> <=> buf = <<>>
      BY <1>5 DEF TypeOK
<1>12. BufferWhole'
      BY <1>1, <1>5, <1>10, <1>11 DEF Kept, BufferWhole
<1>13. SamplesFilled'
      BY <1>2 DEF Kept, SamplesFilled
<1>14. Mirrors'
  <2> SUFFICES ASSUME isArray PROVE Mirrors'
      BY <1>10 DEF Mirrors
  <2>1. \A q \in 1..Len(queued) :
          /\ Len(queued[q].data) = elems
          /\ \A k \in 1..Len(wrote) : queued[q].age = "new" /\ k \in 1..elems =>
               queued[q].data[k] = wrote[k]
        BY DEF Kept, Mirrors
  <2>2. 1 \in 1..Len(queued)
        BY <1>2
  <2>3. /\ Len(s.data) = elems
        /\ s.age = "new" => \A k \in 1..Len(wrote) : k \in 1..elems => s.data[k] = wrote[k]
        BY <1>2, <2>1, <2>2
  <2>4. \A k \in 1..Len(buf) : buf'[k] = s.data[k] /\ k \in 1..elems
    <3>1. Len(buf) \in Nat /\ (Len(buf) = 0 \/ Len(buf) = elems)
          BY DEF Kept, BufferWhole, TypeOK
    <3>2. \A k \in 1..Len(buf) : k <= elems
          BY <3>1
    <3>3. \A k \in 1..Len(buf) : buf'[k] = IF k <= elems /\ k <= Len(s.data) THEN s.data[k] ELSE buf[k]
          BY <1>4 DEF Copied, elems
    <3> QED BY <2>3, <3>1, <3>2, <3>3
  <2>5. overtaken' = "no" => \A k \in 1..Len(wrote) : k \in 1..Len(buf') => buf'[k] = wrote[k]
        BY <1>1, <1>3, <1>5, <2>3, <2>4
  <2>6. \A q \in 1..Len(queued') :
          /\ Len(queued'[q].data) = elems
          /\ \A k \in 1..Len(wrote) : queued'[q].age = "new" /\ k \in 1..elems =>
               queued'[q].data[k] = wrote[k]
        BY <1>2, <2>1
  <2>7. /\ buf' = <<>> => wrote = <<>>
        /\ kind.source # "state" => Len(plc) = elems
        /\ \A k \in 1..Len(wrote) : k \in 1..Len(plc) => plc[k] = wrote[k]
        BY <1>11 DEF Kept, Mirrors
  <2> QED BY <1>1, <1>10, <2>5, <2>6, <2>7 DEF Mirrors
<1> QED BY <1>1, <1>8, <1>9, <1>12, <1>13, <1>14, NoCallFacts, OtherCall DEF Kept

LEMMA callbackStep ==
  ASSUME TypeOK, Kept, fireCallbacksForArrayParam
  PROVE  TypeOK' /\ Kept'
<1>1. /\ UNCHANGED <<kind, plc, known, value, alarm, buf, lastCb, master, sent, wrote, failing,
                     queued, overtaken>>
      /\ pending' = "no"
      BY DEF fireCallbacksForArrayParam, sampleVars
<1>2. \/ call' = NoCall
      \/ /\ buf # <<>> /\ lastCb > 0
         /\ call' = [NoCall EXCEPT !.op = "callback", !.n = callbackElements]
      BY DEF fireCallbacksForArrayParam
<1>3. callbackElements \in Nat
      BY DEF callbackElements, TypeOK
<1>4. call' \in Calls /\ call'.outcome = "done" /\ call'.op # "arrayRead"
      /\ (call'.op = "callback" => buf # <<>> /\ lastCb > 0 /\ call'.n = callbackElements)
  <2>1. CASE call' = NoCall
        BY <2>1, NoCallFacts
  <2>2. CASE /\ buf # <<>> /\ lastCb > 0
             /\ call' = [NoCall EXCEPT !.op = "callback", !.n = callbackElements]
    <3>1. call' = [op |-> "callback", status |-> "success", outcome |-> "done", val |-> <<>>,
                   n |-> callbackElements]
          BY <2>2 DEF NoCall
    <3>2. <<>> \in Seq(Int)
          OBVIOUS
    <3>3. call' \in Calls
          BY <1>3, <3>1, <3>2 DEF Calls
    <3>4. call'.op = "callback" /\ call'.outcome = "done" /\ call'.n = callbackElements
          BY <3>1
    <3> QED BY <2>2, <3>3, <3>4
  <2> QED BY <1>2, <2>1, <2>2
<1>5. TypeOK'
      BY <1>1, <1>4 DEF TypeOK
<1>6. AlarmHasCause' /\ NoSilentFailure'
      BY <1>1, <1>4 DEF Kept, AlarmHasCause, NoSilentFailure
<1>7. ArrayReadsBack'
      BY <1>4 DEF ArrayReadsBack
<1>8. CallbackInBuffer'
  <2> SUFFICES ASSUME buf # <<>>, lastCb > 0,
                      kind.plcType \in {"INT8", "BIT", "STRING", "INT64", "UINT64"}
               PROVE  callbackElements <= Len(buf)
      BY <1>1, <1>4 DEF CallbackInBuffer
  <2>1. lastCb = kind.plcSize /\ Len(buf) = elems /\ kind.plcSize \in Nat
        BY KindFacts DEF Kept, BufferWhole, KindType
  <2>2. CASE kind.plcType \in {"INT64", "UINT64"}
    <3>1. width[kind.plcType] = 8
          BY <2>2 DEF width, PlcTypes, SignedTypes, UnsignedTypes
    <3> QED BY <2>1, <2>2, <3>1 DEF callbackElements, elems
  <2>3. CASE kind.plcType \in {"INT8", "BIT", "STRING"}
    <3>1. width[kind.plcType] = 1
          BY <2>3 DEF width, PlcTypes, SignedTypes, UnsignedTypes
    <3> QED BY <2>1, <2>3, <3>1 DEF callbackElements, elems
  <2> QED BY <2>2, <2>3
<1> QED BY <1>1, <1>5, <1>6, <1>7, <1>8, FrameArrays DEF Kept

LEMMA PlcChangeStep ==
  ASSUME TypeOK, Kept, PlcChange
  PROVE  TypeOK' /\ Kept'
<1>1. /\ UNCHANGED <<kind, known, value, alarm, buf, lastCb, pending, master, sent, failing,
                     queued, overtaken>>
      /\ call' = NoCall /\ wrote' = <<>>
      BY DEF PlcChange, sampleVars
<1>2. PICK v \in PlcValues, k \in DOMAIN plc : plc' = [plc EXCEPT ![k] = v]
      BY DEF PlcChange
<1>3. plc' \in Seq(Int) /\ Len(plc') > 0 /\ Len(plc') = Len(plc)
      BY <1>2, RecordAssumption DEF TypeOK
<1>4. TypeOK'
      BY <1>1, <1>3, NoCallFacts DEF TypeOK
<1>5. AlarmHasCause' /\ NoSilentFailure'
      BY <1>1, NoCallFacts DEF Kept, AlarmHasCause, NoSilentFailure
<1>6. isArray' = isArray /\ elems' = elems /\ Len(wrote') = 0
      BY <1>1 DEF isArray, elems
<1>7. BufferWhole' /\ Mirrors' /\ SamplesFilled'
      BY <1>1, <1>3, <1>6 DEF Kept, BufferWhole, Mirrors, SamplesFilled
<1> QED BY <1>1, <1>4, <1>5, <1>7, NoCallFacts, OtherCall DEF Kept

LEMMA KeptStep == TypeOK /\ Kept /\ [Next]_vars => TypeOK' /\ Kept'
<1> SUFFICES ASSUME TypeOK, Kept, [Next]_vars PROVE TypeOK' /\ Kept'
    OBVIOUS
<1>1. ASSUME NEW i \in ScalarTypes, read(i) PROVE TypeOK' /\ Kept'
      BY <1>1, readFailedStep, readDoneStep DEF read, sampleVars
<1>2. ASSUME NEW i \in ScalarTypes, NEW v \in Given(Written, i), write(i, v) PROVE TypeOK' /\ Kept'
  <2>1. v \in Int
        BY RecordAssumption DEF Given
  <2> QED BY <1>2, <2>1, writeRefusedStep, writeStateStep, writeFailedStep, writeDoneStep DEF write,
         sampleVars
<1>3. ASSUME NEW i \in ArrayTypes, NEW n \in 0..MaxElements, adsGenericArrayRead(i, n)
      PROVE  TypeOK' /\ Kept'
  <2>1. n \in Nat
        BY RecordAssumption
  <2> QED BY <1>3, <2>1, arrayReadStep
<1>4. ASSUME NEW i \in ArrayTypes, NEW n \in 0..MaxElements, NEW v \in Given(Elements, i),
             adsGenericArrayWrite(i, [k \in 1..n |-> v])
      PROVE  TypeOK' /\ Kept'
  <2> DEFINE s == [k \in 1..n |-> v]
  <2>1. n \in Nat /\ v \in Int
        BY RecordAssumption DEF Given
  <2>2. s \in Seq(Int)
        BY <2>1
  <2>3. adsGenericArrayWrite(i, s)
        BY <1>4
  <2> HIDE DEF s
  <2> QED BY <2>2, <2>3, arrayWriteFailedStep, arrayWriteDoneStep DEF adsGenericArrayWrite
<1>5. CASE updateParamInfoWithPLCInfo
      BY <1>5, updateParamStep
<1>6. CASE adsDataCallback \/ dataCallbackThread
      BY <1>6, adsDataCallbackStep, dataCallbackThreadStep
<1>7. CASE fireCallbacksForArrayParam
      BY <1>7, callbackStep
<1>8. CASE setAlarmPort
  <2>1. /\ UNCHANGED <<kind, plc, known, value, buf, lastCb, pending, master, sent, wrote, failing,
                       queued, overtaken>>
        /\ call' = NoCall /\ alarm' = "COMM_ALARM"
        BY <1>8 DEF setAlarmPort, Raised, sampleVars
  <2>2. TypeOK'
        BY <2>1, NoCallFacts DEF TypeOK
  <2>3. AlarmHasCause' /\ NoSilentFailure'
        BY <2>1, NoCallFacts DEF Kept, AlarmHasCause, NoSilentFailure
  <2> QED BY <2>1, <2>2, <2>3, NoCallFacts, FrameArrays, OtherCall DEF Kept
<1>9. CASE PlcChange
      BY <1>9, PlcChangeStep
<1>10. CASE UNCHANGED vars
  <2>1. UNCHANGED <<kind, plc, known, value, alarm, buf, lastCb, pending, master, call, sent,
                    wrote, failing, queued, overtaken>>
        BY <1>10 DEF vars, sampleVars
  <2>2. TypeOK'
        BY <2>1 DEF TypeOK
  <2>3. AlarmHasCause' /\ NoSilentFailure'
        BY <2>1 DEF Kept, AlarmHasCause, NoSilentFailure
  <2>4. CallbackInBuffer' /\ ArrayReadsBack'
        BY <2>1 DEF Kept, CallbackInBuffer, ArrayReadsBack
  <2> QED BY <2>1, <2>2, <2>3, <2>4, FrameArrays DEF Kept
<1> QED BY <1>1, <1>2, <1>3, <1>4, <1>5, <1>6, <1>7, <1>8, <1>9, <1>10 DEF Next, RecordCall

LEMMA KeptInit == Init => TypeOK /\ Kept
<1> SUFFICES ASSUME Init PROVE TypeOK /\ Kept
    OBVIOUS
<1>1. kind \in KindType
      BY RecordAssumption DEF Init
<1>2. elems \in Nat
      BY <1>1, ElemFacts
<1>3. plc \in Seq(Int) /\ Len(plc) > 0
  <2>1. PICK v \in PlcValues : plc = [i \in 1..(IF elems = 0 THEN 1 ELSE elems) |-> v]
        BY DEF Init
  <2>2. v \in Int
        BY RecordAssumption
  <2> DEFINE m == IF elems = 0 THEN 1 ELSE elems
  <2>3. m \in Nat /\ m > 0
        BY <1>2
  <2>4. plc = [i \in 1..m |-> v]
        BY <2>1
  <2> HIDE DEF m
  <2> QED BY <2>2, <2>3, <2>4
<1>4. known \subseteq {"type", "info", "handle"} /\ master \in {"unresolved", "none", "found"}
      BY DEF Init, parsed
<1>5. Len(wrote) = 0 /\ wrote \in Seq(Int) /\ buf \in Seq(Int)
      BY DEF Init
<1>6. TypeOK
  <2>1. /\ kind \in Kinds /\ value = 0 /\ alarm = "NO_ALARM" /\ lastCb = 0 /\ pending = "no"
        /\ call = NoCall /\ sent = {} /\ failing = {} /\ queued = <<>> /\ overtaken = "no"
        BY DEF Init
  <2>2. call \in Calls
        BY <2>1, NoCallFacts
  <2> QED BY <1>3, <1>4, <1>5, <2>1, <2>2 DEF TypeOK
<1>7. AlarmHasCause /\ NoSilentFailure /\ CallbackInBuffer /\ ArrayReadsBack
      BY NoCallFacts DEF Init, AlarmHasCause, NoSilentFailure,
         CallbackInBuffer, ArrayReadsBack
<1>8. BufferWhole /\ Mirrors /\ SamplesFilled
  <2>1. queued = <<>> /\ Len(queued) = 0
        BY DEF Init
  <2>2. isArray => Len(plc) = elems
    <3> SUFFICES ASSUME isArray PROVE Len(plc) = elems
        OBVIOUS
    <3>1. elems > 0
          BY <1>1, ElemFacts
    <3>2. PICK v \in PlcValues : plc = [i \in 1..elems |-> v]
          BY <1>2, <3>1 DEF Init
    <3> QED BY <1>2, <3>2
  <2>3. BufferWhole
        BY DEF Init, BufferWhole
  <2>4. buf = <<>> /\ wrote = <<>>
        BY DEF Init
  <2>5. Mirrors
        BY <1>5, <2>1, <2>2, <2>4 DEF Mirrors
  <2> QED BY <2>1, <2>3, <2>5 DEF SamplesFilled
<1> QED BY <1>6, <1>7, <1>8 DEF Kept

LEMMA KeptAlways == Spec => [](TypeOK /\ Kept)
<1>1. Init => TypeOK /\ Kept
      BY KeptInit
<1>2. TypeOK /\ Kept /\ [Next]_vars => TypeOK' /\ Kept'
      BY KeptStep
<1> QED BY <1>1, <1>2, PTL DEF Spec

-----------------------------------------------------------------------------
(* The variables keep their types, whatever records read and write. *)
THEOREM TypeCorrect == Spec => []TypeOK
<1> QED BY KeptAlways, PTL

(* No read or write of a record fails without an alarm or an error. *)
THEOREM FailuresShown == Spec => []NoSilentFailure
<1>1. Kept => NoSilentFailure
      BY DEF Kept
<1> QED BY <1>1, KeptAlways, PTL

(* A READ_ALARM or WRITE_ALARM always stands for the last access. *)
THEOREM AlarmsCorrect == Spec => []AlarmHasCause
<1>1. Kept => AlarmHasCause
      BY DEF Kept
<1> QED BY <1>1, KeptAlways, PTL

(* An array read returns what was written, from a copy that queued samples *)
(* overwrite, unless the last one was taken before the write.              *)
THEOREM ArrayCorrect == Spec => []ArrayReadsBack
<1>1. Kept => ArrayReadsBack
      BY DEF Kept
<1> QED BY <1>1, KeptAlways, PTL

(* The callbacks of arrays of bytes and of 64-bit integers stay within     *)
(* arrayDataBuffer, whatever the sizes of the arrays are.                  *)
THEOREM CallbackCorrect == Spec => []CallbackInBuffer
<1>1. Kept => CallbackInBuffer
      BY DEF Kept
<1> QED BY <1>1, KeptAlways, PTL

-----------------------------------------------------------------------------
(* What a record has written into a scalar is what the PLC has, converted  *)
(* once.                                                                   *)
Stands ==
    ~isArray /\ wrote # <<>> =>
      /\ width[kind.plcType] = kind.plcSize
      /\ \E i \in ScalarTypes :
           /\ kind.plcType \in Writable(i) /\ plc[1] \in ToPlc(i, kind.plcType, wrote[1])
           /\ i = "Float64" => InRange(kind.plcType, wrote[1])

LEMMA ModSmall ==
  ASSUME NEW s \in Nat, s > 0, NEW v \in Int
  PROVE  /\ 0 <= v /\ v < s => v % s = v
         /\ -s <= v /\ v < 0 => v % s = v + s
<1>1. ASSUME 0 <= v, v < s PROVE v % s = v
      BY <1>1
<1>2. ASSUME -s <= v, v < 0 PROVE v % s = v + s
      BY <1>2
<1> QED BY <1>1, <1>2

(* A value in the range of a type is not changed by the conversion to it. *)
LEMMA CastInRange ==
  ASSUME NEW f \in PlcTypes, NEW t \in PlcTypes, NEW v \in Int, InRange(t, v)
  PROVE  Cast(f, t, v) = {v}
<1>1. span[t] \in Nat /\ span[t] > 0
      BY RecordAssumption
<1>2. CASE t \in RealTypes
      BY <1>2 DEF InRange, Cast, RealTypes, SignedTypes, UnsignedTypes
<1>3. CASE t \in SignedTypes
  <2>1. -span[t] <= 2 * v /\ 2 * v < span[t]
        BY <1>3 DEF InRange
  <2>2. CASE v >= 0
    <3>1. v % span[t] = v
          BY <1>1, <2>1, <2>2, ModSmall
    <3>2. Wrap(t, v) = v
          BY <1>1, <2>1, <3>1 DEF Wrap
    <3> QED BY <1>3, <3>2 DEF Cast, RealTypes, SignedTypes
  <2>3. CASE v < 0
    <3>1. v % span[t] = v + span[t]
          BY <1>1, <2>1, <2>3, ModSmall
    <3>2. Wrap(t, v) = v
          BY <1>1, <1>3, <2>1, <3>1 DEF Wrap
    <3> QED BY <1>3, <3>2 DEF Cast, RealTypes, SignedTypes
  <2> QED BY <2>2, <2>3
<1>4. CASE t \in UnsignedTypes
  <2>1. 0 <= v /\ v < span[t] /\ t \notin SignedTypes
        BY <1>4 DEF InRange, SignedTypes, UnsignedTypes
  <2>2. v % span[t] = v
        BY <1>1, <2>1, ModSmall
  <2>3. Wrap(t, v) = v
        BY <2>1, <2>2 DEF Wrap
  <2> QED BY <1>4, <2>3 DEF Cast, RealTypes, UnsignedTypes
<1>5. CASE t \notin RealTypes \cup SignedTypes \cup UnsignedTypes
      BY <1>5 DEF Cast
<1> QED BY <1>2, <1>3, <1>4, <1>5

(* There and back through a type of the same width. *)
LEMMA CastSameWidth ==
  ASSUME NEW t \in UnsignedTypes, NEW u \in SignedTypes, width[t] = width[u],
         NEW f \in SignedTypes, NEW v \in Int, InRange(u, v), NEW w \in Cast(f, t, v)
  PROVE  Cast(t, u, w) = {v}
<1> DEFINE s == span[u]
<1>1. /\ t \in PlcTypes /\ u \in PlcTypes /\ t \notin SignedTypes /\ t \notin RealTypes
      /\ u \notin RealTypes /\ f \notin RealTypes
      BY DEF PlcTypes, SignedTypes, UnsignedTypes, RealTypes
<1>2. s \in Nat /\ s > 0 /\ span[t] = s
      BY <1>1, RecordAssumption
<1>3. -s <= 2 * v /\ 2 * v < s
      BY DEF InRange
<1> HIDE DEF s
<1>4. w = v % s
      BY <1>1, <1>2 DEF Cast, Wrap
<1>5. Cast(t, u, w) = {Wrap(u, w)}
      BY <1>1 DEF Cast
<1>6. Wrap(u, w) = IF 2 * (w % s) >= s THEN (w % s) - s ELSE w % s
      BY DEF Wrap, s
<1>7. CASE v >= 0
  <2>1. w = v
        BY <1>2, <1>3, <1>4, <1>7, ModSmall
  <2>2. w % s = v
        BY <1>2, <1>3, <1>7, <2>1, ModSmall
  <2> QED BY <1>2, <1>3, <1>5, <1>6, <2>2
<1>8. CASE v < 0
  <2>1. w = v + s
        BY <1>2, <1>3, <1>4, <1>8, ModSmall
  <2>2. 0 <= w /\ w < s /\ w \in Int
        BY <1>2, <1>3, <1>8, <2>1
  <2>3. w % s = w
        BY <1>2, <2>2, ModSmall
  <2> QED BY <1>2, <1>3, <1>5, <1>6, <2>1, <2>3
<1> QED BY <1>7, <1>8

(* The two conversions of a value that the PLC's type can hold. *)
LEMMA ThereAndBack ==
  ASSUME kind \in KindType, NEW v \in Int, NEW i \in ScalarTypes,
         NEW w \in ToPlc(i, kind.plcType, v), i = "Float64" => InRange(kind.plcType, v),
         kind.asynType \in ScalarTypes, InRange(TypeOf(kind.asynType), v),
         Holds(kind.plcType, kind.asynType, v)
  PROVE  Cast(kind.plcType, TypeOf(kind.asynType), w) = {v}
<1> DEFINE t == kind.plcType
           u == TypeOf(kind.asynType)
<1>1. t \in PlcTypes /\ u \in PlcTypes /\ TypeOf(i) \in PlcTypes
      BY TypeOfFacts DEF KindType
<1>2. CASE InRange(t, v)
  <2>1. w = v
    <3>1. CASE t = "BIT"
      <4>1. v \in {0, 1}
            BY <1>2, <3>1 DEF InRange, SignedTypes, UnsignedTypes, RealTypes
      <4> QED BY <3>1, <4>1 DEF ToPlc
    <3>2. CASE t # "BIT"
      <4>1. Cast(TypeOf(i), t, v) = {v}
            BY <1>1, <1>2, CastInRange
      <4> QED BY <3>2, <4>1 DEF ToPlc
    <3> QED BY <3>1, <3>2
  <2> QED BY <1>1, <2>1, CastInRange
<1>3. CASE ~InRange(t, v)
  <2>1. /\ i # "Float64" /\ kind.asynType \in {"Int32", "Int64"} /\ t \notin RealTypes
        /\ width[t] = width[u]
        BY <1>3 DEF Holds, ScalarTypes
  <2>2. u \in {"INT32", "INT64"} /\ TypeOf(i) \in {"INT32", "INT64"}
        BY <2>1 DEF TypeOf, ScalarTypes
  <2>3. width[u] \in {4, 8}
        BY <1>1, <2>2 DEF width
  <2>4. t \in SignedTypes \cup UnsignedTypes
    <3>1. t \notin {"BIT", "STRING", "VOID"}
          BY <1>1, <2>1, <2>3 DEF width
    <3> QED BY <1>1, <2>1, <3>1 DEF PlcTypes
  <2>5. t \notin SignedTypes
    <3> SUFFICES ASSUME t \in SignedTypes PROVE FALSE
        OBVIOUS
    <3>1. span[t] = span[u] /\ u \in SignedTypes
          BY <2>1, <2>2, RecordAssumption DEF SignedTypes
    <3> QED BY <1>3, <3>1 DEF InRange
  <2>6. u \in SignedTypes /\ TypeOf(i) \in SignedTypes /\ t \in UnsignedTypes /\ t # "BIT"
        BY <2>2, <2>4, <2>5 DEF SignedTypes, UnsignedTypes
  <2>7. w \in Cast(TypeOf(i), t, v)
        BY <2>6 DEF ToPlc
  <2> HIDE DEF t, u
  <2>8. InRange(u, v)
        BY DEF u
  <2>9. Cast(t, u, w) = {v}
        BY <2>1, <2>6, <2>7, <2>8, CastSameWidth
  <2> QED BY <2>9 DEF t, u
<1> QED BY <1>2, <1>3

LEMMA FrameStands ==
  ASSUME Stands, UNCHANGED <<kind, plc, wrote>>
  PROVE  Stands'
<1>1. isArray' = isArray
      BY DEF isArray
<1> QED BY <1>1 DEF Stands

LEMMA NothingStands ==
  ASSUME wrote' = <<>>
  PROVE  Stands'
BY DEF Stands

LEMMA writeDoneStands ==
  ASSUME TypeOK, NEW i \in ScalarTypes, NEW v \in Int, writeDone(i, v), UNCHANGED kind
  PROVE  Stands'
<1>1. CASE wrote' = <<>>
      BY <1>1, NothingStands
<1>2. CASE wrote' # <<>>
  <2>1. wrote' = <<v>> /\ (i = "Float64" => InRange(plcDataType, v))
        BY <1>2 DEF writeDone
  <2>2. plcDataType = kind.plcType /\ kind.plcType \in Writable(i)
        /\ width[kind.plcType] = kind.plcSize
    <3>1. plcDataType \in Writable(i) /\ plcDataType # "VOID" /\ width[plcDataType] = kind.plcSize
          BY DEF writeDone, Sendable, Writable, ScalarTypes
    <3> QED BY <3>1 DEF plcDataType
  <2>3. PICK w \in ToPlc(i, plcDataType, v) : plc' = <<w>>
        BY DEF writeDone
  <2>4. wrote'[1] = v /\ plc'[1] = w /\ kind' = kind
        BY <2>1, <2>3
  <2>5. /\ width[kind'.plcType] = kind'.plcSize
        /\ kind'.plcType \in Writable(i) /\ plc'[1] \in ToPlc(i, kind'.plcType, wrote'[1])
        /\ i = "Float64" => InRange(kind'.plcType, wrote'[1])
        BY <2>1, <2>2, <2>3, <2>4
  <2> QED BY <2>5 DEF Stands
<1> QED BY <1>1, <1>2

LEMMA readDoneBack ==
  ASSUME TypeOK, Stands, NEW i \in ScalarTypes, readDone(i), UNCHANGED kind
  PROVE  ReadsBack'
<1>1. UNCHANGED <<kind, plc, wrote>>
      BY DEF readDone
<1>2. isArray' = isArray
      BY <1>1 DEF isArray
<1> SUFFICES ASSUME call'.status = "success", wrote # <<>>, ~isArray,
                    InRange(TypeOf(kind.asynType), wrote[1]),
                    Holds(kind.plcType, kind.asynType, wrote[1])
             PROVE  call'.val = <<wrote[1]>>
    BY <1>1, <1>2 DEF ReadsBack
<1>3. i = kind.asynType /\ call'.val = <<value'>>
  <2>1. \/ i = kind.asynType /\ Result("read", "success", "done", <<value'>>)
        \/ Result("read", "error", "done", <<>>)
        BY DEF readDone
  <2>2. Result("read", "error", "done", <<>>) => call'.status = "error"
        BY DEF Result
  <2>3. Result("read", "success", "done", <<value'>>) => call'.val = <<value'>>
        BY DEF Result
  <2> QED BY <2>1, <2>2, <2>3
<1>4. PICK k \in ScalarTypes :
        /\ kind.plcType \in Writable(k) /\ plc[1] \in ToPlc(k, kind.plcType, wrote[1])
        /\ k = "Float64" => InRange(kind.plcType, wrote[1])
      BY DEF Stands
<1>5. kind \in KindType /\ wrote[1] \in Int
      BY KindFacts DEF TypeOK
<1>6. Cast(kind.plcType, TypeOf(kind.asynType), plc[1]) = {wrote[1]}
      BY <1>3, <1>4, <1>5, ThereAndBack
<1>7. elems # 0
  <2>1. /\ kind.plcType \in PlcTypes \ {"VOID"} /\ kind.plcSize \in Nat
        BY <1>5 DEF KindType
  <2>2. width[kind.plcType] \in {1, 2, 4, 8}
        BY <2>1, WidthFacts
  <2>3. width[kind.plcType] = kind.plcSize
        BY DEF Stands
  <2>4. elems = kind.plcSize \div kind.plcSize /\ kind.plcSize \in {1, 2, 4, 8}
        BY <2>2, <2>3 DEF elems
  <2> QED BY <2>4
<1>8. value' \in Cast(kind.plcType, TypeOf(kind.asynType), plc[1])
  <2>1. kind.asynType \notin ArrayTypes
        BY <1>3 DEF ScalarTypes, ArrayTypes
  <2>2. \E j \in Junk : adsUpdateParameter(plc, lastCb)
        BY <1>7 DEF readDone
  <2> QED BY <2>1, <2>2 DEF adsUpdateParameter
<1> QED BY <1>3, <1>6, <1>8

LEMMA StandsStep == TypeOK /\ Kept /\ Stands /\ ReadsBack /\ [Next]_vars => Stands' /\ ReadsBack'
<1> SUFFICES ASSUME TypeOK, Kept, Stands, ReadsBack, [Next]_vars PROVE Stands' /\ ReadsBack'
    OBVIOUS
<1>0. ASSUME call'.op # "read" \/ call'.outcome = "failed" PROVE ReadsBack'
      BY <1>0 DEF ReadsBack
<1>1. ASSUME NEW i \in ScalarTypes, read(i) PROVE Stands' /\ ReadsBack'
  <2>1. CASE readFailed(i)
    <3>1. UNCHANGED <<kind, plc, wrote>> /\ call'.outcome = "failed"
          BY <1>1, <2>1 DEF read, readFailed, Result
    <3> QED BY <1>0, <3>1, FrameStands
  <2>2. CASE readDone(i)
    <3>1. UNCHANGED <<kind, plc, wrote>>
          BY <1>1, <2>2 DEF read, readDone
    <3> QED BY <2>2, <3>1, FrameStands, readDoneBack
  <2> QED BY <1>1, <2>1, <2>2 DEF read
<1>2. ASSUME NEW i \in ScalarTypes, NEW v \in Given(Written, i), write(i, v)
      PROVE  Stands' /\ ReadsBack'
  <2>1. v \in Int /\ kind' = kind
        BY <1>2, RecordAssumption DEF Given, write
  <2>2. call'.op = "write"
        BY <1>2 DEF write, writeRefused, writeState, writeFailed, writeDone, Result
  <2>r. ReadsBack'
        BY <1>0, <2>2
  <2>3. CASE writeRefused(i, v) \/ writeFailed(i, v)
    <3>1. UNCHANGED <<kind, plc, wrote>>
          BY <2>1, <2>3 DEF writeRefused, writeFailed
    <3> QED BY <2>r, <3>1, FrameStands
  <2>4. CASE writeState(i, v)
    <3>1. wrote' = <<>> \/ UNCHANGED <<kind, plc, wrote>>
          BY <2>1, <2>4 DEF writeState
    <3> QED BY <2>r, <3>1, FrameStands, NothingStands
  <2>5. CASE writeDone(i, v)
        BY <2>r, <2>1, <2>5, writeDoneStands
  <2> QED BY <1>2, <2>3, <2>4, <2>5 DEF write
<1>3. ASSUME NEW i \in ArrayTypes, NEW n \in 0..MaxElements, adsGenericArrayRead(i, n)
      PROVE  Stands' /\ ReadsBack'
  <2>1. UNCHANGED <<kind, plc, wrote>> /\ call'.op = "arrayRead"
        BY <1>3 DEF adsGenericArrayRead, Result
  <2> QED BY <1>0, <2>1, FrameStands
<1>4. ASSUME NEW i \in ArrayTypes, NEW s, adsGenericArrayWrite(i, s) PROVE Stands' /\ ReadsBack'
  <2>1. call'.op = "arrayWrite" /\ kind' = kind
        BY <1>4 DEF adsGenericArrayWrite, arrayWriteFailed, arrayWriteDone, Result
  <2>r. ReadsBack'
        BY <1>0, <2>1
  <2>2. CASE arrayWriteFailed(i, s)
        BY <2>r, <2>1, <2>2, FrameStands DEF arrayWriteFailed
  <2>3. CASE arrayWriteDone(i, s)
    <3>1. CASE buf = <<>>
          BY <2>r, <2>3, <3>1, NothingStands DEF arrayWriteDone
    <3>2. CASE buf # <<>>
      <4>1. isArray /\ isArray' = isArray
            BY <2>1, <3>2 DEF Kept, BufferWhole, isArray
      <4> QED BY <2>r, <4>1 DEF Stands
    <3> QED BY <3>1, <3>2
  <2> QED BY <1>4, <2>2, <2>3 DEF adsGenericArrayWrite
<1>5. CASE updateParamInfoWithPLCInfo \/ adsDataCallback \/ dataCallbackThread \/ setAlarmPort
  <2>1. UNCHANGED <<kind, plc, wrote>> /\ call' = NoCall
        BY <1>5 DEF updateParamInfoWithPLCInfo, adsDataCallback, dataCallbackThread, setAlarmPort
  <2> QED BY <1>0, <2>1, FrameStands, NoCallFacts
<1>6. CASE fireCallbacksForArrayParam
  <2>1. UNCHANGED <<kind, plc, wrote>> /\ call'.op \in {"callback", "none"}
        BY <1>6 DEF fireCallbacksForArrayParam, NoCall
  <2> QED BY <1>0, <2>1, FrameStands
<1>7. CASE PlcChange
  <2>1. wrote' = <<>> /\ call' = NoCall
        BY <1>7 DEF PlcChange
  <2> QED BY <1>0, <2>1, NothingStands, NoCallFacts
<1>8. CASE UNCHANGED vars
  <2>1. UNCHANGED <<kind, plc, wrote, call>>
        BY <1>8 DEF vars
  <2>2. isArray' = isArray
        BY <2>1 DEF isArray
  <2>3. ReadsBack'
        BY <2>1, <2>2 DEF ReadsBack
  <2> QED BY <2>1, <2>3, FrameStands
<1> QED BY <1>1, <1>2, <1>3, <1>4, <1>5, <1>6, <1>7, <1>8 DEF Next, RecordCall

(* A value that the PLC's type can hold, or that is as wide as the         *)
(* record's, survives the way to the PLC and back, for any ranges of the   *)
(* types in which equally wide ones have as many values.                   *)
THEOREM ReadBackCorrect == Spec => []ReadsBack
<1>1. Init => Stands /\ ReadsBack
      BY NoCallFacts DEF Init, Stands, ReadsBack
<1>2. TypeOK /\ Kept /\ Stands /\ ReadsBack /\ [Next]_vars => Stands' /\ ReadsBack'
      BY StandsStep
<1> QED BY <1>1, <1>2, KeptAlways, PTL DEF Spec
=============================================================================
