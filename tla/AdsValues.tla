------------------------------ MODULE AdsValues ------------------------------
(***************************************************************************)
(* The value path of adsAsynPortDriver.cpp for the variables of one AMS    *)
(* port: on-change notifications go from AdsLib's thread (adsDataCallback) *)
(* through datacbqueue to dataCallbackThread, into the parameters and      *)
(* array buffers, and from there, in batches, to the I/O Intr records.     *)
(* Records may also read and write a parameter directly.                   *)
(*                                                                         *)
(* A value is its version: how often the variable has changed in the PLC.  *)
(* 0 is the value before the first sample, and the zeroed array buffer.    *)
(* The asyn port lock makes every action that the code runs under lock()   *)
(* one step; dataCallbackThread's accesses outside the lock are steps of   *)
(* their own.  AdsLib runs one notification thread per AMS port, so a push *)
(* is never concurrent with another.                                       *)
(***************************************************************************)
EXTENDS Integers, Sequences

CONSTANTS
    Params,         \* subscribed parameters
    ArrayParams,    \* those with plcDataIsArray
    Direct,         \* scalar ones that records also read and write directly
    Sizes,          \* bytes of an array in the PLC
    MAXCBQSIZE,
    MallocMayFail,  \* whether the driver may find no memory
    MaxVersion, MaxFaults    \* bounds

ASSUME ValuesAssumption ==
    /\ ArrayParams \subseteq Params /\ Direct \subseteq Params \ ArrayParams
    /\ Sizes \subseteq Nat \ {0} /\ Sizes # {}
    /\ MAXCBQSIZE \in Nat
    /\ MallocMayFail \in BOOLEAN
    /\ MaxVersion \in Nat /\ MaxFaults \in Nat

VARIABLES
    cur, size,       \* PLC: version and bytes of the variable
    link,            \* "up"; "down": not noticed yet; "lost": cyclicThread has noticed
    due,             \* parameters that a refresh under way will still register
    sub,             \* bytes of the variable's device notification; 0: none
    owed,            \* variables that AdsLib has a sample of to deliver
    queue,           \* datacbqueue
    dcb,             \* what dataCallbackThread does next with the queue's front
    lastCb,          \* lastCallbackSize
    bufSize,         \* arrayDataBufferSize; 0: no arrayDataBuffer
    value,           \* the parameter's value, or what arrayDataBuffer holds
    alarm,           \* alarmStatus
    pending,         \* arrayParamsToCallCallbacksFor_
    shown,           \* value the I/O Intr records were given last
    allow,           \* allowCallbackEpicsState
    lost,            \* history: variables whose latest sample was skipped
    faults           \* outages and program loads so far, against MaxFaults

plcVars == <<cur, size, faults>>
vars == <<plcVars, link, due, sub, owed, queue, dcb, lastCb, bufSize, value, alarm,
          pending, shown, allow, lost>>

Samples == [param : Params, size : Nat, version : Nat]
Alarms  == {"NO_ALARM", "COMM_ALARM", "READ_ALARM", "WRITE_ALARM"}

(* The variables keep their types. *)
TypeOK ==
    /\ cur \in [Params -> Nat] /\ size \in [Params -> Nat]
    /\ link \in {"up", "down", "lost"}
    /\ due \subseteq Params /\ sub \in [Params -> Nat] /\ owed \subseteq Params
    /\ queue \in Seq(Samples)
    /\ dcb \in {"take", "update", "pop"} /\ (dcb # "take" => queue # <<>>)
    /\ lastCb \in [Params -> Nat] /\ bufSize \in [Params -> Nat]
    /\ value \in [Params -> Nat] /\ shown \in [Params -> Nat]
    /\ alarm \in [Params -> Alarms]
    /\ pending \in Seq(ArrayParams)
    /\ allow \in {"yes", "no"}
    /\ lost \subseteq Params
    /\ faults \in Nat

Init ==
    /\ cur = [p \in Params |-> 1]
    /\ size \in [Params -> Sizes]
    /\ \A p \in Params, n \in Sizes : size[p] <= n
    /\ link = "up" /\ due = Params
    /\ sub = [p \in Params |-> 0] /\ owed = {}
    /\ queue = <<>> /\ dcb = "take"
    /\ lastCb = [p \in Params |-> 0] /\ bufSize = [p \in Params |-> 0]
    /\ value = [p \in Params |-> 0] /\ shown = [p \in Params |-> 0]
    /\ alarm = [p \in Params |-> "NO_ALARM"]
    /\ pending = <<>> /\ allow = "no" /\ lost = {}
    /\ faults = 0

-----------------------------------------------------------------------------
(* The PLC and the connection.                                             *)

(* A variable changes; a subscribed one is sampled with its latest value.  *)
PlcChange(p) ==
    /\ cur[p] < MaxVersion
    /\ cur' = [cur EXCEPT ![p] = cur[p] + 1]
    /\ owed' = IF sub[p] # 0 THEN owed \cup {p} ELSE owed
    /\ UNCHANGED <<size, faults, link, due, sub, queue, dcb, lastCb, bufSize, value, alarm,
                   pending, shown, allow, lost>>

(* A new PLC program, which may resize an array, ends the notifications.   *)
(* adsSymbolsChangedCallback registers all parameters again, if the driver *)
(* has the symbol-version notification and connectedAds_.                  *)
SymbolsChange(p) ==
    /\ link = "up" /\ p \in ArrayParams /\ faults < MaxFaults
    /\ \E n \in Sizes : size' = [size EXCEPT ![p] = n]
    /\ faults' = faults + 1
    /\ due' \in {due, Params}
    /\ sub' = [q \in Params |-> 0] /\ owed' = {}
    /\ UNCHANGED <<cur, link, queue, dcb, lastCb, bufSize, value, alarm,
                   pending, shown, allow, lost>>

LinkDown ==
    /\ link = "up" /\ faults < MaxFaults
    /\ link' = "down" /\ faults' = faults + 1
    /\ sub' = [p \in Params |-> 0] /\ owed' = {}
    /\ UNCHANGED <<cur, size, due, queue, dcb, lastCb, bufSize, value, alarm,
                   pending, shown, allow, lost>>

(* cyclicThread finds the port running and refreshes its parameters, if    *)
(* connectedAds_ was not dropped.  An outage that is shorter than a poll   *)
(* is not modelled here.                                                   *)
LinkUp ==
    /\ link = "lost" /\ link' = "up"
    /\ due' \in {due, Params}
    /\ UNCHANGED <<plcVars, sub, owed, queue, dcb, lastCb, bufSize, value, alarm,
                   pending, shown, allow, lost>>

-----------------------------------------------------------------------------
(* cyclicThread: invalidateParamsLock and setAlarmPortLock.                *)
setAlarmPort ==
    /\ link = "down" /\ link' = "lost"
    /\ alarm' = [p \in Params |-> "COMM_ALARM"]
    /\ UNCHANGED <<plcVars, due, sub, owed, queue, dcb, lastCb, bufSize, value,
                   pending, shown, allow, lost>>

(* The array buffer follows the size that the look-up found. *)
BufferFollows(p) ==
    \/ /\ p \in ArrayParams /\ size[p] # bufSize[p]
       /\ bufSize' = [bufSize EXCEPT ![p] = size[p]]
       /\ value' = [value EXCEPT ![p] = 0]
    \/ /\ p \notin ArrayParams \/ size[p] = bufSize[p]
       /\ UNCHANGED <<bufSize, value>>

(* updateParamInfoWithPLCInfo, once for each parameter that is due: at     *)
(* creation and in a refresh.  In this order it may fail for want of an    *)
(* answer to the look-up, of memory for the array (the old buffer is free  *)
(* by then), of a handle or of the notification, and it is not tried again *)
(* before the next refresh.  The PLC samples a new notification at once.   *)
updateParamInfoWithPLCInfo(p) ==
    /\ p \in due /\ due' = due \ {p}
    /\ \/ UNCHANGED <<bufSize, value, sub, owed>>
       \/ /\ link = "up" /\ MallocMayFail /\ p \in ArrayParams /\ size[p] # bufSize[p]
          /\ bufSize' = [bufSize EXCEPT ![p] = 0]
          /\ value' = [value EXCEPT ![p] = 0]
          /\ UNCHANGED <<sub, owed>>
       \/ link = "up" /\ BufferFollows(p) /\ UNCHANGED <<sub, owed>>
       \/ /\ link = "up" /\ BufferFollows(p)
          /\ sub' = [sub EXCEPT ![p] = size[p]] /\ owed' = owed \cup {p}
    /\ UNCHANGED <<plcVars, link, queue, dcb, lastCb, alarm, pending, shown, allow, lost>>

-----------------------------------------------------------------------------
(* Mutant: the queue is a stack. *)
MutCallbackStack(p) ==
    /\ p \in owed /\ owed' = owed \ {p} /\ Len(queue) <= MAXCBQSIZE
    /\ queue' = <<[param |-> p, size |-> sub[p], version |-> cur[p]]>> \o queue
    /\ lost' = lost \ {p}
    /\ UNCHANGED <<plcVars, link, due, sub, dcb, lastCb, bufSize, value, alarm, pending, shown, allow>>

(* adsDataCallback, in AdsLib's thread.  hUser is the paramIndex that      *)
(* adsAddDataCallback passed, so its checks of hUser never fail.           *)
adsDataCallback(p) ==
    /\ p \in owed /\ owed' = owed \ {p}
    /\ \/ /\ Len(queue) <= MAXCBQSIZE
          /\ queue' = Append(queue, [param |-> p, size |-> sub[p], version |-> cur[p]])
          /\ lost' = lost \ {p}
       \/ /\ Len(queue) > MAXCBQSIZE \/ MallocMayFail
          /\ lost' = lost \cup {p}
          /\ UNCHANGED queue
    /\ UNCHANGED <<plcVars, link, due, sub, dcb, lastCb, bufSize, value, alarm, pending, shown, allow>>

-----------------------------------------------------------------------------
(* dataCallbackThread: lastCallbackSize is set before the lock is taken.   *)
DcbTake ==
    /\ dcb = "take" /\ queue # <<>> /\ allow = "yes"
    /\ lastCb' = [lastCb EXCEPT ![Head(queue).param] = Head(queue).size]
    /\ dcb' = "update"
    /\ UNCHANGED <<plcVars, link, due, sub, owed, queue, bufSize, value, alarm, pending, shown, allow, lost>>

(* adsUpdateParameterLock with a sample: the value, the array's callback   *)
(* and no alarm any more, whatever the alarm was; an array without a       *)
(* buffer is refused.  A sample longer than a buffer that has shrunk since *)
(* it was taken overruns it: the model keeps the part inside.              *)
adsUpdateParameter(s) ==
    \/ /\ s.param \in ArrayParams /\ bufSize[s.param] = 0
       /\ UNCHANGED <<value, alarm, pending>>
    \/ /\ s.param \notin ArrayParams \/ bufSize[s.param] # 0
       /\ value' = [value EXCEPT ![s.param] = s.version]
       /\ alarm' = [alarm EXCEPT ![s.param] = "NO_ALARM"]
       /\ pending' = IF s.param \in ArrayParams THEN Append(pending, s.param) ELSE pending

(* Mutant: an update leaves the alarm. *)
MutUpdateKeepsAlarm ==
    /\ dcb = "update" /\ dcb' = "pop"
    /\ value' = [value EXCEPT ![Head(queue).param] = Head(queue).version]
    /\ pending' = IF Head(queue).param \in ArrayParams THEN Append(pending, Head(queue).param) ELSE pending
    /\ UNCHANGED <<plcVars, link, due, sub, owed, queue, lastCb, bufSize, alarm, shown, allow, lost>>

DcbUpdate ==
    /\ dcb = "update" /\ dcb' = "pop"
    /\ adsUpdateParameter(Head(queue))
    /\ UNCHANGED <<plcVars, link, due, sub, owed, queue, lastCb, bufSize, shown, allow, lost>>

(* Mutant: everything that is queued is thrown away. *)
MutPopAll ==
    /\ dcb = "pop" /\ dcb' = "take" /\ queue' = <<>>
    /\ UNCHANGED <<plcVars, link, due, sub, owed, lastCb, bufSize, value, alarm, pending, shown, allow, lost>>

DcbPop ==
    /\ dcb = "pop" /\ dcb' = "take" /\ queue' = Tail(queue)
    /\ UNCHANGED <<plcVars, link, due, sub, owed, lastCb, bufSize, value, alarm, pending, shown, allow, lost>>

(* getEpicsState, when the records are scanned. *)
getEpicsState ==
    /\ allow = "no" /\ allow' = "yes"
    /\ UNCHANGED <<plcVars, link, due, sub, owed, queue, dcb, lastCb, bufSize, value, alarm, pending, shown, lost>>

-----------------------------------------------------------------------------
Fired(p) == \E i \in 1..Len(pending) : pending[i] = p

(* Mutant: the list is cleared, arrays that wait are left for the next pass. *)
MutFireScalars ==
    /\ allow = "yes"
    /\ shown' = [p \in Params |-> IF p \notin ArrayParams THEN value[p] ELSE shown[p]]
    /\ pending' = <<>>
    /\ UNCHANGED <<plcVars, link, due, sub, owed, queue, dcb, lastCb, bufSize, value, alarm, allow, lost>>

(* triggerEpicsIoIntrCallbacksThread: callParamCallbacks, and every array  *)
(* of the list.                                                            *)
fireAllCallbacksLock ==
    /\ allow = "yes"
    /\ shown' = [p \in Params |->
                   IF p \notin ArrayParams \/ (Fired(p) /\ lastCb[p] > 0)
                     THEN value[p] ELSE shown[p]]
    /\ pending' = <<>>
    /\ UNCHANGED <<plcVars, link, due, sub, owed, queue, dcb, lastCb, bufSize, value, alarm, allow, lost>>

-----------------------------------------------------------------------------
(* A record reads: adsReadParam, then adsUpdateParameterLock.  The call    *)
(* may fail on any link.                                                   *)
readParam(p) ==
    /\ p \in Direct
    /\ \/ /\ link = "up"
          /\ value' = [value EXCEPT ![p] = cur[p]]
          /\ alarm' = [alarm EXCEPT ![p] = "NO_ALARM"]
       \/ /\ alarm' = [alarm EXCEPT ![p] = "READ_ALARM"]
          /\ UNCHANGED value
    /\ UNCHANGED <<plcVars, link, due, sub, owed, queue, dcb, lastCb, bufSize, pending, shown, allow, lost>>

(* A record writes: adsWriteParam, which may fail on any link, then asyn's *)
(* write sets the parameter and calls the scalar callbacks.                *)
writeParam(p) ==
    /\ p \in Direct
    /\ \/ /\ link = "up" /\ cur[p] < MaxVersion
          /\ cur' = [cur EXCEPT ![p] = cur[p] + 1]
          /\ owed' = IF sub[p] # 0 THEN owed \cup {p} ELSE owed
          /\ value' = [value EXCEPT ![p] = cur[p] + 1]
          /\ alarm' = IF alarm[p] = "WRITE_ALARM" THEN [alarm EXCEPT ![p] = "NO_ALARM"] ELSE alarm
          /\ shown' = [q \in Params |->
                         IF q = p THEN cur[p] + 1
                         ELSE IF q \in ArrayParams THEN shown[q] ELSE value[q]]
       \/ /\ alarm' = [alarm EXCEPT ![p] = "WRITE_ALARM"]
          /\ UNCHANGED <<cur, owed, value, shown>>
    /\ UNCHANGED <<size, faults, link, due, sub, queue, dcb, lastCb, bufSize, pending, allow, lost>>

-----------------------------------------------------------------------------
Next ==
    \/ LinkDown \/ LinkUp \/ setAlarmPort \/ getEpicsState
    \/ DcbTake \/ DcbUpdate \/ DcbPop \/ fireAllCallbacksLock
    \/ \E p \in Params :
         \/ PlcChange(p) \/ SymbolsChange(p) \/ updateParamInfoWithPLCInfo(p)
         \/ adsDataCallback(p) \/ readParam(p) \/ writeParam(p)

Spec == Init /\ [][Next]_vars

(* The threads keep running, AdsLib delivers what it has received, and a   *)
(* refresh gets to every parameter that is due, with whatever outcome.     *)
Fairness ==
    /\ WF_vars(setAlarmPort) /\ WF_vars(DcbTake) /\ WF_vars(DcbUpdate) /\ WF_vars(DcbPop)
    /\ WF_vars(fireAllCallbacksLock)
    /\ \A p \in Params : /\ WF_vars(updateParamInfoWithPLCInfo(p))
                         /\ WF_vars(adsDataCallback(p))

FairSpec == Spec /\ Fairness

-----------------------------------------------------------------------------
Queued(p) == {i \in 1..Len(queue) : queue[i].param = p}

(* datacbqueue holds at most MAXCBQSIZE + 1 samples: the check lets one in *)
(* when the queue already has MAXCBQSIZE.                                  *)
QueueBounded == Len(queue) <= MAXCBQSIZE + 1

(* Samples of a variable that is only followed are applied in the order in *)
(* which they were taken: none queued is older than the value applied, or  *)
(* than one queued before it, or from the future.                          *)
InOrder ==
    \A p \in Params \ Direct :
        /\ value[p] <= cur[p]
        /\ \A i \in Queued(p) : value[p] <= queue[i].version /\ queue[i].version <= cur[p]
        /\ \A i, j \in Queued(p) : i <= j => queue[i].version <= queue[j].version

(* When nothing of a subscribed variable is on its way and its last sample *)
(* was not skipped at the limit, the parameter has the PLC's value, even   *)
(* if direct reads and writes were mixed with older queued samples.        *)
Settled ==
    \A p \in Params :
        sub[p] # 0 /\ p \notin owed /\ p \notin lost /\ Queued(p) = {} => value[p] = cur[p]

(* An array whose records have not seen the applied value is in the list   *)
(* of callbacks to make: no applied array update is forgotten.             *)
ArrayPending == \A p \in ArrayParams : value[p] \in {0, shown[p]} \/ Fired(p)

(* The variables that EPICS only follows. *)
Streamed == Params \ Direct

Stream == INSTANCE AdsSampleStream WITH
    Vars <- Streamed, Arrays <- ArrayParams,
    cur <- [p \in Streamed |-> cur[p]],
    shown <- [p \in Streamed |-> shown[p]]

(* The value path implements a stream of samples in order, for scalars and *)
(* arrays, through the queue, its limit, outages and resizes.              *)
StreamSpec == Stream!Spec

(* If the link stays up while the IOC runs, every record ends up with the  *)
(* PLC's value and without the alarm of the outage, unless its last sample *)
(* was skipped or the refresh that had to register it again failed.        *)
Converges ==
    <>[](link = "up" /\ allow = "yes") =>
        <>[](\A p \in Params :
               \/ p \in lost
               \/ sub[p] = 0 /\ p \notin due
               \/ shown[p] = cur[p] /\ alarm[p] # "COMM_ALARM")
=============================================================================
