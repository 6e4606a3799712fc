-------------------------- MODULE AdsValuesProofs --------------------------
(***************************************************************************)
(* Proofs about AdsValues for any parameters, any limit of the queue and   *)
(* any number of changes, outages and resizes.                             *)
(***************************************************************************)
EXTENDS AdsValues, TLAPS

(* The records never see more of a variable than the driver has, unless an *)
(* array has been blanked, nor more than what is still to come.            *)
Behind(p) ==
    /\ shown[p] <= value[p] \/ (p \in ArrayParams /\ value[p] = 0)
    /\ shown[p] <= cur[p]
    /\ \A i \in 1..Len(queue) : queue[i].param = p => shown[p] <= queue[i].version

ShownBehind == \A p \in Streamed : Behind(p)

-----------------------------------------------------------------------------
(* What Append and Tail do to a sequence. *)
LEMMA AppendFacts ==
  ASSUME NEW S, NEW q \in Seq(S), NEW s \in S
  PROVE  /\ Append(q, s) \in Seq(S) /\ Len(Append(q, s)) = Len(q) + 1 /\ Append(q, s) # <<>>
         /\ \A i \in 1..Len(q) : Append(q, s)[i] = q[i]
         /\ Append(q, s)[Len(q) + 1] = s
  OBVIOUS

LEMMA TailFacts ==
  ASSUME NEW S, NEW q \in Seq(S), q # <<>>
  PROVE  /\ Tail(q) \in Seq(S) /\ Len(Tail(q)) = Len(q) - 1 /\ Len(q) >= 1
         /\ \A i \in 1..(Len(q) - 1) : Tail(q)[i] = q[i + 1]
         /\ Head(q) = q[1] /\ Head(q) \in S
  OBVIOUS

(* The sample at the front while dataCallbackThread works on it. *)
LEMMA FrontSample ==
  ASSUME TypeOK, queue # <<>>
  PROVE  /\ Head(queue) \in Samples /\ Head(queue) = queue[1] /\ Len(queue) >= 1
         /\ Head(queue).param \in Params /\ Head(queue).size \in Nat /\ Head(queue).version \in Nat
<1>1. queue \in Seq(Samples)
  BY DEF TypeOK
<1>2. Head(queue) \in Samples /\ Head(queue) = queue[1] /\ Len(queue) >= 1
  BY <1>1, TailFacts
<1> QED
  BY <1>2 DEF Samples

-----------------------------------------------------------------------------
LEMMA InitTypeOK == Init => TypeOK
<1> SUFFICES ASSUME Init PROVE TypeOK
  OBVIOUS
<1> USE ValuesAssumption DEF ValuesAssumption
<1>1. /\ cur \in [Params -> Nat] /\ size \in [Params -> Nat] /\ sub \in [Params -> Nat]
      /\ lastCb \in [Params -> Nat] /\ bufSize \in [Params -> Nat]
      /\ value \in [Params -> Nat] /\ shown \in [Params -> Nat]
  BY DEF Init
<1>2. queue \in Seq(Samples) /\ pending \in Seq(ArrayParams) /\ owed \subseteq Params /\ lost \subseteq Params
  BY DEF Init
<1>a. due \subseteq Params
  BY DEF Init
<1>3. link \in {"up", "down", "lost"} /\ dcb \in {"take", "update", "pop"} /\ dcb = "take" /\ allow \in {"yes", "no"}
  BY DEF Init
<1>4. alarm \in [Params -> Alarms] /\ faults \in Nat
  BY DEF Init, Alarms
<1> QED
  BY <1>1, <1>2, <1>3, <1>4, <1>a DEF TypeOK

(* A sample that adsDataCallback queues. *)
LEMMA NewSample ==
  ASSUME TypeOK, NEW p \in Params
  PROVE  [param |-> p, size |-> sub[p], version |-> cur[p]] \in Samples
<1>1. sub[p] \in Nat /\ cur[p] \in Nat
  BY DEF TypeOK
<1> QED
  BY <1>1 DEF Samples

(* What updateParamInfoWithPLCInfo leaves, however far it gets. *)
LEMMA RegisterStep ==
  ASSUME NEW p \in Params, updateParamInfoWithPLCInfo(p)
  PROVE  /\ p \in due /\ due' = due \ {p}
         /\ UNCHANGED <<cur, size, faults, link, queue, dcb, lastCb, alarm, pending, shown, allow, lost>>
         /\ \/ UNCHANGED <<value, bufSize>>
            \/ /\ p \in ArrayParams /\ value' = [value EXCEPT ![p] = 0]
               /\ \/ bufSize' = [bufSize EXCEPT ![p] = 0]
                  \/ bufSize' = [bufSize EXCEPT ![p] = size[p]]
         /\ \/ UNCHANGED <<sub, owed>>
            \/ /\ link = "up"
               /\ sub' = [sub EXCEPT ![p] = size[p]] /\ owed' = owed \cup {p}
               /\ p \in ArrayParams => \/ bufSize' = [bufSize EXCEPT ![p] = size[p]]
                                       \/ bufSize' = bufSize /\ size[p] = bufSize[p]
  BY DEF updateParamInfoWithPLCInfo, BufferFollows, plcVars

(* A value stays, or is blanked, which only happens to arrays. *)
LEMMA RegisterValue ==
  ASSUME TypeOK, NEW p \in Params, updateParamInfoWithPLCInfo(p), NEW r \in Params
  PROVE  value'[r] = value[r] \/ (r \in ArrayParams /\ value'[r] = 0)
<1>1. value' = value \/ (p \in ArrayParams /\ value' = [value EXCEPT ![p] = 0])
  BY RegisterStep
<1>2. value \in [Params -> Nat]
  BY DEF TypeOK
<1> QED
  BY <1>1, <1>2

(* A sample is applied, or refused because its array has no buffer. *)
LEMMA UpdateStep ==
  ASSUME TypeOK, DcbUpdate
  PROVE  LET h == queue[1].param IN
         /\ queue # <<>> /\ Head(queue) = queue[1]
         /\ 1 \in 1..Len(queue) /\ Len(queue) \in Nat /\ Len(queue) >= 1
         /\ h \in Params /\ queue[1].version \in Nat
         /\ \/ /\ h \in ArrayParams /\ bufSize[h] = 0
               /\ UNCHANGED <<value, alarm, pending>>
            \/ /\ value' = [value EXCEPT ![h] = queue[1].version]
               /\ alarm' = [alarm EXCEPT ![h] = "NO_ALARM"]
               /\ pending' = IF h \in ArrayParams THEN Append(pending, h) ELSE pending
<1>1. queue # <<>> /\ queue \in Seq(Samples)
  BY DEF TypeOK, DcbUpdate
<1>2. Head(queue) = queue[1] /\ Len(queue) >= 1 /\ queue[1].param \in Params /\ queue[1].version \in Nat
  BY <1>1, FrontSample
<1>3. Len(queue) \in Nat /\ 1 \in 1..Len(queue)
  BY <1>1, <1>2
<1> QED
  BY <1>1, <1>2, <1>3 DEF DcbUpdate, adsUpdateParameter

LEMMA NextTypeOK == TypeOK /\ [Next]_vars => TypeOK'
<1> SUFFICES ASSUME TypeOK, [Next]_vars PROVE TypeOK'
  OBVIOUS
<1> USE ValuesAssumption DEF ValuesAssumption
<1>a. CASE UNCHANGED vars
  BY <1>a DEF TypeOK, vars, plcVars
<1>b. ASSUME NEW p \in Params, PlcChange(p) PROVE TypeOK'
  BY <1>b DEF TypeOK, PlcChange
<1>c. ASSUME NEW p \in Params, SymbolsChange(p) PROVE TypeOK'
  <2>1. size' \in [Params -> Nat]
    BY <1>c DEF TypeOK, SymbolsChange
  <2>2. sub' \in [Params -> Nat] /\ owed' \subseteq Params /\ faults' \in Nat
    BY <1>c DEF TypeOK, SymbolsChange
  <2> QED
    BY <1>c, <2>1, <2>2 DEF TypeOK, SymbolsChange
<1>d. CASE LinkDown
  BY <1>d DEF TypeOK, LinkDown
<1>e. CASE LinkUp
  BY <1>e DEF TypeOK, LinkUp, plcVars
<1>f. CASE setAlarmPort
  BY <1>f DEF TypeOK, setAlarmPort, plcVars, Alarms
<1>g. ASSUME NEW p \in Params, updateParamInfoWithPLCInfo(p) PROVE TypeOK'
  <2>1. size[p] \in Nat /\ size \in [Params -> Nat]
    BY DEF TypeOK
  <2>2. bufSize' \in [Params -> Nat] /\ value' \in [Params -> Nat]
    <3>1. /\ value' = value \/ value' = [value EXCEPT ![p] = 0]
          /\ \/ bufSize' = bufSize \/ bufSize' = [bufSize EXCEPT ![p] = 0]
             \/ bufSize' = [bufSize EXCEPT ![p] = size[p]]
      BY <1>g, RegisterStep
    <3>2. value \in [Params -> Nat] /\ bufSize \in [Params -> Nat] /\ 0 \in Nat
      BY DEF TypeOK
    <3>3. value' \in [Params -> Nat]
      BY <3>1, <3>2
    <3>4. bufSize' \in [Params -> Nat]
      BY <2>1, <3>1, <3>2
    <3> QED
      BY <3>3, <3>4
  <2>3. sub' \in [Params -> Nat] /\ owed' \subseteq Params
    <3>1. \/ UNCHANGED <<sub, owed>>
          \/ sub' = [sub EXCEPT ![p] = size[p]] /\ owed' = owed \cup {p}
      BY <1>g, RegisterStep
    <3>2. sub \in [Params -> Nat] /\ owed \subseteq Params
      BY DEF TypeOK
    <3> QED
      BY <2>1, <3>1, <3>2
  <2> QED
    BY <1>g, <2>2, <2>3, RegisterStep DEF TypeOK
<1>h. ASSUME NEW p \in Params, adsDataCallback(p) PROVE TypeOK'
  <2>1. queue' \in Seq(Samples) /\ (dcb # "take" => queue' # <<>>)
    <3> DEFINE s == [param |-> p, size |-> sub[p], version |-> cur[p]]
    <3>1. s \in Samples /\ queue \in Seq(Samples) /\ (dcb # "take" => queue # <<>>)
      BY NewSample DEF TypeOK
    <3>2. queue' = queue \/ queue' = Append(queue, s)
      BY <1>h DEF adsDataCallback
    <3> HIDE DEF s
    <3> QED
      BY <3>1, <3>2, AppendFacts
  <2>2. owed' \subseteq Params /\ lost' \subseteq Params
    BY <1>h DEF TypeOK, adsDataCallback
  <2> QED
    BY <1>h, <2>1, <2>2 DEF TypeOK, adsDataCallback, plcVars
<1>i. CASE DcbTake
  BY <1>i, FrontSample DEF TypeOK, DcbTake, plcVars
<1>j. CASE DcbUpdate
  <2>1. queue # <<>>
    BY <1>j, UpdateStep
  <2>2. value' \in [Params -> Nat]
    BY <1>j, UpdateStep DEF TypeOK
  <2>3. alarm' \in [Params -> Alarms]
    BY <1>j, UpdateStep DEF TypeOK, Alarms
  <2>4. pending' \in Seq(ArrayParams)
    <3>1. \/ pending' = pending
          \/ queue[1].param \in ArrayParams /\ pending' = Append(pending, queue[1].param)
      BY <1>j, UpdateStep
    <3>2. pending \in Seq(ArrayParams)
      BY DEF TypeOK
    <3> QED
      BY <3>1, <3>2, AppendFacts
  <2> QED
    BY <1>j, <2>1, <2>2, <2>3, <2>4 DEF TypeOK, DcbUpdate, plcVars
<1>k. CASE DcbPop
  <2>1. queue' \in Seq(Samples)
    BY <1>k, TailFacts DEF TypeOK, DcbPop
  <2> QED
    BY <1>k, <2>1 DEF TypeOK, DcbPop, plcVars
<1>l. CASE getEpicsState
  BY <1>l DEF TypeOK, getEpicsState, plcVars
<1>m. CASE fireAllCallbacksLock
  <2>1. shown' \in [Params -> Nat]
    BY <1>m DEF TypeOK, fireAllCallbacksLock
  <2>2. pending' \in Seq(ArrayParams)
    BY <1>m DEF fireAllCallbacksLock
  <2> QED
    BY <1>m, <2>1, <2>2 DEF TypeOK, fireAllCallbacksLock, plcVars
<1>n. ASSUME NEW p \in Params, readParam(p) PROVE TypeOK'
  <2>1. value' \in [Params -> Nat]
    BY <1>n DEF TypeOK, readParam
  <2>2. alarm' \in [Params -> Alarms]
    BY <1>n DEF TypeOK, readParam, Alarms
  <2> QED
    BY <1>n, <2>1, <2>2 DEF TypeOK, readParam, plcVars
<1>o. ASSUME NEW p \in Params, writeParam(p) PROVE TypeOK'
  <2>0. cur[p] + 1 \in Nat
    BY DEF TypeOK
  <2>a. cur' \in [Params -> Nat] /\ value' \in [Params -> Nat]
    <3>1. \/ UNCHANGED <<cur, value>>
          \/ cur' = [cur EXCEPT ![p] = cur[p] + 1] /\ value' = [value EXCEPT ![p] = cur[p] + 1]
      BY <1>o DEF writeParam
    <3>2. cur \in [Params -> Nat] /\ value \in [Params -> Nat]
      BY DEF TypeOK
    <3>3. CASE UNCHANGED <<cur, value>>
      BY <3>2, <3>3
    <3>4. [cur EXCEPT ![p] = cur[p] + 1] \in [Params -> Nat]
      BY <2>0, <3>2
    <3>5. [value EXCEPT ![p] = cur[p] + 1] \in [Params -> Nat]
      BY <2>0, <3>2
    <3> QED
      BY <3>1, <3>3, <3>4, <3>5
  <2>b. owed' \subseteq Params
    BY <1>o DEF TypeOK, writeParam
  <2>1. cur' \in [Params -> Nat] /\ value' \in [Params -> Nat] /\ owed' \subseteq Params
    BY <2>a, <2>b
  <2>2. alarm' \in [Params -> Alarms]
    BY <1>o DEF TypeOK, writeParam, Alarms
  <2>3. shown' \in [Params -> Nat]
    <3>1. \/ shown' = shown
          \/ shown' = [q \in Params |-> IF q = p THEN cur[p] + 1
                                       ELSE IF q \in ArrayParams THEN shown[q] ELSE value[q]]
      BY <1>o DEF writeParam
    <3>2. \A q \in Params : shown[q] \in Nat /\ value[q] \in Nat
      BY DEF TypeOK
    <3> QED
      BY <2>0, <3>1, <3>2 DEF TypeOK
  <2> QED
    BY <1>o, <2>1, <2>2, <2>3 DEF TypeOK, writeParam
<1> QED
  BY <1>a, <1>b, <1>c, <1>d, <1>e, <1>f, <1>g, <1>h, <1>i, <1>j, <1>k, <1>l, <1>m, <1>n, <1>o DEF Next

-----------------------------------------------------------------------------
LEMMA NextQueueBounded == TypeOK /\ QueueBounded /\ [Next]_vars => QueueBounded'
<1> SUFFICES ASSUME TypeOK, QueueBounded, [Next]_vars PROVE QueueBounded'
  OBVIOUS
<1> USE ValuesAssumption DEF ValuesAssumption
<1>1. queue \in Seq(Samples) /\ Len(queue) \in Nat
  BY DEF TypeOK
<1>2. ASSUME NEW p \in Params, adsDataCallback(p) PROVE QueueBounded'
  <2> DEFINE s == [param |-> p, size |-> sub[p], version |-> cur[p]]
  <2>1. s \in Samples
    BY NewSample
  <2>2. queue' = queue \/ (Len(queue) <= MAXCBQSIZE /\ queue' = Append(queue, s))
    BY <1>2 DEF adsDataCallback
  <2> HIDE DEF s
  <2> QED
    BY <1>1, <2>1, <2>2, AppendFacts DEF QueueBounded
<1>3. CASE DcbPop
  <2>1. queue # <<>> /\ queue' = Tail(queue)
    BY <1>3 DEF TypeOK, DcbPop
  <2> QED
    BY <1>1, <2>1, TailFacts DEF QueueBounded
<1>4. CASE UNCHANGED queue
  BY <1>4 DEF QueueBounded
<1> QED
  BY <1>2, <1>3, <1>4 DEF Next, vars, plcVars, LinkDown, LinkUp, setAlarmPort, getEpicsState,
     DcbTake, DcbUpdate, fireAllCallbacksLock, PlcChange, SymbolsChange,
     updateParamInfoWithPLCInfo, readParam, writeParam

-----------------------------------------------------------------------------
(* InOrder for one variable, without the set of positions. *)
Ordered(p) ==
    /\ value[p] <= cur[p]
    /\ \A i \in 1..Len(queue) : queue[i].param = p =>
         value[p] <= queue[i].version /\ queue[i].version <= cur[p]
    /\ \A i, j \in 1..Len(queue) :
         queue[i].param = p /\ queue[j].param = p /\ i <= j => queue[i].version <= queue[j].version

LEMMA InOrderIsOrdered == InOrder <=> \A p \in Params \ Direct : Ordered(p)
  BY DEF InOrder, Ordered, Queued

(* The versions and sizes in the queue are numbers. *)
LEMMA QueueTypes ==
  ASSUME TypeOK
  PROVE  /\ Len(queue) \in Nat
         /\ \A i \in 1..Len(queue) : /\ queue[i] \in Samples /\ queue[i].param \in Params
                                     /\ queue[i].size \in Nat /\ queue[i].version \in Nat
<1>1. queue \in Seq(Samples)
  BY DEF TypeOK
<1>2. Len(queue) \in Nat /\ \A i \in 1..Len(queue) : queue[i] \in Samples
  BY <1>1
<1> QED
  BY <1>2 DEF Samples

LEMMA CallbackOrdered ==
  ASSUME TypeOK, NEW p \in Params, adsDataCallback(p), NEW r \in Params, Ordered(r)
  PROVE  Ordered(r)'
<1> DEFINE s == [param |-> p, size |-> sub[p], version |-> cur[p]]
<1>1. s \in Samples /\ queue \in Seq(Samples) /\ s.param = p /\ s.version = cur[p]
  BY NewSample DEF TypeOK
<1>2. queue' = queue \/ queue' = Append(queue, s)
  BY DEF adsDataCallback
<1>3. value' = value /\ cur' = cur /\ value[r] \in Nat /\ cur[r] \in Nat
  BY DEF adsDataCallback, TypeOK, plcVars
<1> HIDE DEF s
<1>4. CASE queue' = queue
  BY <1>3, <1>4 DEF Ordered
<1>5. CASE queue' = Append(queue, s)
  <2> DEFINE n == Len(queue)
  <2>1. n \in Nat /\ Len(queue') = n + 1 /\ queue'[n + 1] = s /\ \A i \in 1..n : queue'[i] = queue[i]
    BY <1>1, <1>5, AppendFacts
  <2>2. \A i \in 1..n : queue[i].version \in Nat
    BY QueueTypes
  <2>3. \A i \in 1..n : queue[i].param = r =>
           value[r] <= queue[i].version /\ queue[i].version <= cur[r]
    BY DEF Ordered
  <2>4. value[r] <= cur[r]
    BY DEF Ordered
  <2>5. \A i, j \in 1..n :
         queue[i].param = r /\ queue[j].param = r /\ i <= j => queue[i].version <= queue[j].version
    BY DEF Ordered
  <2> HIDE DEF n
  <2>6. ASSUME NEW i \in 1..(n + 1), queue'[i].param = r
        PROVE  value[r] <= queue'[i].version /\ queue'[i].version <= cur[r]
    <3>1. CASE i = n + 1
      BY <1>1, <1>3, <2>1, <2>4, <2>6, <3>1
    <3>2. CASE i # n + 1
      <4>1. i \in 1..n
        BY <2>1, <3>2
      <4> QED
        BY <2>1, <2>3, <2>6, <4>1
    <3> QED
      BY <3>1, <3>2
  <2>7. ASSUME NEW i \in 1..(n + 1), NEW j \in 1..(n + 1), i <= j,
               queue'[i].param = r, queue'[j].param = r
        PROVE  queue'[i].version <= queue'[j].version
    <3>1. CASE j = n + 1
      <4>1. queue'[j].version = cur[r]
        BY <1>1, <2>1, <2>7, <3>1
      <4> QED
        BY <2>6, <2>7, <4>1
    <3>2. CASE j # n + 1
      <4>1. i \in 1..n /\ j \in 1..n
        BY <2>1, <2>7, <3>2
      <4> QED
        BY <2>1, <2>5, <2>7, <4>1
    <3> QED
      BY <3>1, <3>2
  <2> QED
    BY <1>3, <2>1, <2>4, <2>6, <2>7 DEF Ordered
<1> QED
  BY <1>2, <1>4, <1>5

LEMMA PopOrdered ==
  ASSUME TypeOK, DcbPop, NEW r \in Params, Ordered(r)
  PROVE  Ordered(r)'
<1> DEFINE n == Len(queue)
<1>1. queue # <<>> /\ queue' = Tail(queue) /\ queue \in Seq(Samples) /\ value' = value /\ cur' = cur
  BY DEF TypeOK, DcbPop, plcVars
<1>2. n \in Nat /\ n >= 1 /\ Len(queue') = n - 1 /\ \A i \in 1..(n - 1) : queue'[i] = queue[i + 1]
  BY <1>1, TailFacts
<1>3. \A i \in 1..n : queue[i].param = r =>
         value[r] <= queue[i].version /\ queue[i].version <= cur[r]
  BY DEF Ordered
<1>4. \A i, j \in 1..n :
       queue[i].param = r /\ queue[j].param = r /\ i <= j => queue[i].version <= queue[j].version
  BY DEF Ordered
<1> HIDE DEF n
<1>5. \A i \in 1..(n - 1) : i + 1 \in 1..n
  BY <1>2
<1>6. ASSUME NEW i \in 1..(n - 1), NEW j \in 1..(n - 1), i <= j,
             queue'[i].param = r, queue'[j].param = r
      PROVE  queue'[i].version <= queue'[j].version
  <2>1. i + 1 \in 1..n /\ j + 1 \in 1..n /\ i + 1 <= j + 1
    BY <1>5, <1>6
  <2> QED
    BY <1>2, <1>4, <1>6, <2>1
<1>7. ASSUME NEW i \in 1..(n - 1), queue'[i].param = r
      PROVE  value[r] <= queue'[i].version /\ queue'[i].version <= cur[r]
  BY <1>2, <1>3, <1>5, <1>7
<1> QED
  BY <1>1, <1>2, <1>6, <1>7 DEF Ordered

(* A step that neither touches the queue nor the value of r, and only      *)
(* makes r newer in the PLC.                                               *)
LEMMA NewerOrdered ==
  ASSUME TypeOK, TypeOK', UNCHANGED queue, NEW r \in Params, value'[r] <= value[r], cur[r] <= cur'[r],
         Ordered(r)
  PROVE  Ordered(r)'
<1>1. value[r] \in Nat /\ value'[r] \in Nat /\ cur[r] \in Nat /\ cur'[r] \in Nat
  BY DEF TypeOK
<1>2. \A i \in 1..Len(queue) : queue[i].version \in Nat
  BY QueueTypes
<1> QED
  BY <1>1, <1>2 DEF Ordered

LEMMA NextInOrder == TypeOK /\ InOrder /\ [Next]_vars => InOrder'
<1> SUFFICES ASSUME TypeOK, InOrder, [Next]_vars, NEW r \in Params \ Direct PROVE Ordered(r)'
  BY InOrderIsOrdered DEF InOrder, Ordered, Queued
<1> USE ValuesAssumption DEF ValuesAssumption
<1>1. Ordered(r) /\ r \in Params
  BY InOrderIsOrdered
<1>2. TypeOK' /\ value[r] \in Nat /\ cur[r] \in Nat
  BY NextTypeOK DEF TypeOK
<1>3. ASSUME UNCHANGED queue, value'[r] <= value[r], cur[r] <= cur'[r] PROVE Ordered(r)'
  BY <1>1, <1>2, <1>3, NewerOrdered
<1>4. ASSUME UNCHANGED <<queue, cur, value>> PROVE Ordered(r)'
  BY <1>1, <1>4 DEF Ordered
<1>5. ASSUME NEW p \in Params, PlcChange(p) PROVE Ordered(r)'
  <2>1. cur'[r] = cur[r] \/ cur'[r] = cur[r] + 1
    BY <1>5 DEF PlcChange, TypeOK
  <2>2. UNCHANGED <<queue, value>>
    BY <1>5 DEF PlcChange
  <2> QED
    BY <1>2, <1>3, <2>1, <2>2
<1>6. ASSUME NEW p \in Params, updateParamInfoWithPLCInfo(p) PROVE Ordered(r)'
  <2>1. value'[r] = value[r] \/ value'[r] = 0
    BY <1>1, <1>6, RegisterValue
  <2>2. UNCHANGED <<queue, cur>>
    BY <1>6, RegisterStep
  <2> QED
    BY <1>2, <1>3, <2>1, <2>2
<1>7. ASSUME NEW p \in Params, adsDataCallback(p) PROVE Ordered(r)'
  BY <1>1, <1>7, CallbackOrdered
<1>8. CASE DcbPop
  BY <1>1, <1>8, PopOrdered
<1>9. CASE DcbUpdate
  <2>1. queue # <<>> /\ queue' = queue /\ cur' = cur
    BY <1>9 DEF TypeOK, DcbUpdate, plcVars
  <2>2. Head(queue) = queue[1] /\ Len(queue) >= 1 /\ Len(queue) \in Nat
    BY <2>1, FrontSample, QueueTypes
  <2>3. 1 \in 1..Len(queue) /\ queue[1].param \in Params /\ queue[1].version \in Nat
    BY <2>2, QueueTypes
  <2>4. value' = value \/ value' = [value EXCEPT ![queue[1].param] = queue[1].version]
    BY <1>9, UpdateStep
  <2>5. CASE queue[1].param = r /\ value' # value
    <3>1. value'[r] = queue[1].version
      BY <1>1, <2>3, <2>4, <2>5 DEF TypeOK
    <3>2. \A i \in 1..Len(queue) : 1 <= i
      BY <2>2
    <3> QED
      BY <1>1, <2>1, <2>3, <2>5, <3>1, <3>2 DEF Ordered
  <2>6. CASE queue[1].param # r \/ value' = value
    <3>1. value'[r] = value[r]
      BY <1>1, <2>4, <2>6 DEF TypeOK
    <3> QED
      BY <1>1, <2>1, <3>1 DEF Ordered
  <2> QED
    BY <2>5, <2>6
<1>10. ASSUME NEW p \in Params, readParam(p) PROVE Ordered(r)'
  <2>1. value'[r] = value[r] /\ UNCHANGED <<queue, cur>>
    BY <1>10 DEF readParam, TypeOK, plcVars
  <2> QED
    BY <1>2, <1>3, <2>1
<1>11. ASSUME NEW p \in Params, writeParam(p) PROVE Ordered(r)'
  <2>1. value'[r] = value[r] /\ cur'[r] = cur[r] /\ UNCHANGED queue
    BY <1>11 DEF writeParam, TypeOK
  <2> QED
    BY <1>2, <1>3, <2>1
<1> QED
  BY <1>4, <1>5, <1>6, <1>7, <1>8, <1>9, <1>10, <1>11 DEF Next, vars, plcVars, LinkDown, LinkUp,
     setAlarmPort, getEpicsState, DcbTake, fireAllCallbacksLock, SymbolsChange

-----------------------------------------------------------------------------
LEMMA NextShownBehind == TypeOK /\ InOrder /\ ShownBehind /\ [Next]_vars => ShownBehind'
<1> SUFFICES ASSUME TypeOK, InOrder, ShownBehind, [Next]_vars, NEW v \in Streamed
             PROVE  Behind(v)'
  BY DEF ShownBehind, Streamed
<1> USE ValuesAssumption DEF ValuesAssumption
<1>1. /\ v \in Params /\ v \notin Direct /\ Behind(v) /\ Ordered(v)
      /\ value[v] \in Nat /\ shown[v] \in Nat /\ cur[v] \in Nat
  BY InOrderIsOrdered DEF ShownBehind, Streamed, TypeOK
<1>a. \A i \in 1..Len(queue) : queue[i].version \in Nat
  BY QueueTypes
<1>2. ASSUME UNCHANGED <<shown, value, queue, cur>> PROVE Behind(v)'
  BY <1>1, <1>2 DEF Behind
<1>3. ASSUME NEW p \in Params, updateParamInfoWithPLCInfo(p) PROVE Behind(v)'
  <2>1. UNCHANGED <<shown, queue, cur>>
    BY <1>3, RegisterStep
  <2>2. value'[v] = value[v] \/ (v \in ArrayParams /\ value'[v] = 0)
    BY <1>1, <1>3, RegisterValue
  <2> QED
    BY <1>1, <2>1, <2>2 DEF Behind
<1>4. CASE DcbUpdate
  <2>1. queue # <<>> /\ UNCHANGED <<shown, queue, cur>>
    BY <1>4 DEF TypeOK, DcbUpdate, plcVars
  <2>2. Head(queue) = queue[1] /\ 1 \in 1..Len(queue) /\ queue[1].param \in Params
    BY <2>1, FrontSample, QueueTypes
  <2>3. value' = value \/ value' = [value EXCEPT ![queue[1].param] = queue[1].version]
    BY <1>4, UpdateStep
  <2>4. \/ queue[1].param = v /\ value'[v] = queue[1].version
        \/ value'[v] = value[v]
    BY <1>1, <2>2, <2>3 DEF TypeOK
  <2>5. shown[v] <= value'[v] \/ (v \in ArrayParams /\ value'[v] = 0)
    BY <1>1, <2>2, <2>4 DEF Behind
  <2> QED
    BY <1>1, <2>1, <2>5 DEF Behind
<1>5. CASE fireAllCallbacksLock
  <2>1. (shown'[v] = value[v] \/ shown'[v] = shown[v]) /\ UNCHANGED <<value, queue, cur>>
    BY <1>1, <1>5 DEF fireAllCallbacksLock, plcVars, TypeOK
  <2> QED
    BY <1>1, <2>1 DEF Behind, Ordered
<1>6. ASSUME NEW p \in Params, readParam(p) PROVE Behind(v)'
  <2>1. value'[v] = value[v] /\ UNCHANGED <<shown, queue, cur>>
    BY <1>1, <1>6 DEF readParam, TypeOK, plcVars
  <2> QED
    BY <1>1, <2>1 DEF Behind
<1>7. ASSUME NEW p \in Params, writeParam(p) PROVE Behind(v)'
  <2>1. /\ value'[v] = value[v] /\ (shown'[v] = shown[v] \/ shown'[v] = value[v])
        /\ cur'[v] = cur[v] /\ queue' = queue
    BY <1>1, <1>7 DEF writeParam, TypeOK
  <2> QED
    BY <1>1, <2>1 DEF Behind, Ordered
<1>8. ASSUME NEW p \in Params, PlcChange(p) PROVE Behind(v)'
  <2>1. (cur'[v] = cur[v] \/ cur'[v] = cur[v] + 1) /\ UNCHANGED <<shown, queue, value>>
    BY <1>1, <1>8 DEF PlcChange, TypeOK
  <2> QED
    BY <1>1, <2>1 DEF Behind
<1>9. ASSUME NEW p \in Params, adsDataCallback(p) PROVE Behind(v)'
  <2> DEFINE s == [param |-> p, size |-> sub[p], version |-> cur[p]]
  <2>1. s \in Samples /\ queue \in Seq(Samples) /\ s.param = p /\ s.version = cur[p]
    BY NewSample, <1>9 DEF TypeOK
  <2>2. (queue' = queue \/ queue' = Append(queue, s)) /\ UNCHANGED <<shown, value, cur>>
    BY <1>9 DEF adsDataCallback, plcVars
  <2> HIDE DEF s
  <2>3. CASE queue' = queue
    BY <1>2, <2>2, <2>3
  <2>4. CASE queue' = Append(queue, s)
    <3> DEFINE n == Len(queue)
    <3>1. n \in Nat /\ Len(queue') = n + 1 /\ queue'[n + 1] = s
          /\ \A i \in 1..n : queue'[i] = queue[i]
      BY <2>1, <2>4, AppendFacts
    <3>2. \A i \in 1..n : queue[i].param = v => shown[v] <= queue[i].version
      BY <1>1 DEF Behind
    <3> HIDE DEF n
    <3>3. ASSUME NEW i \in 1..(n + 1), queue'[i].param = v PROVE shown[v] <= queue'[i].version
      <4>1. CASE i = n + 1
        BY <1>1, <2>1, <3>1, <3>3, <4>1 DEF Behind
      <4>2. CASE i # n + 1
        <5>1. i \in 1..n
          BY <3>1, <4>2
        <5> QED
          BY <3>1, <3>2, <3>3, <5>1
      <4> QED
        BY <4>1, <4>2
    <3> QED
      BY <1>1, <2>2, <3>1, <3>3 DEF Behind
  <2> QED
    BY <2>2, <2>3, <2>4
<1>10. CASE DcbPop
  <2> DEFINE n == Len(queue)
  <2>1. queue # <<>> /\ queue' = Tail(queue) /\ queue \in Seq(Samples) /\ UNCHANGED <<shown, value, cur>>
    BY <1>10 DEF TypeOK, DcbPop, plcVars
  <2>2. n \in Nat /\ Len(queue') = n - 1 /\ \A i \in 1..(n - 1) : queue'[i] = queue[i + 1]
    BY <2>1, TailFacts
  <2>3. \A i \in 1..n : queue[i].param = v => shown[v] <= queue[i].version
    BY <1>1 DEF Behind
  <2> HIDE DEF n
  <2>4. \A i \in 1..(n - 1) : i + 1 \in 1..n
    BY <2>2
  <2>5. \A i \in 1..(n - 1) : queue'[i].param = v => shown[v] <= queue'[i].version
    BY <2>2, <2>3, <2>4
  <2> QED
    BY <1>1, <2>1, <2>2, <2>5 DEF Behind
<1> QED
  BY <1>2, <1>3, <1>4, <1>5, <1>6, <1>7, <1>8, <1>9, <1>10 DEF Next, vars, plcVars, LinkDown, LinkUp,
     setAlarmPort, getEpicsState, DcbTake, SymbolsChange

-----------------------------------------------------------------------------
(* Every step is a step of the abstract stream, or leaves it unchanged. *)
LEMMA StepRefines ==
  TypeOK /\ InOrder /\ ShownBehind /\ [Next]_vars => [Stream!Next]_(Stream!vars)
<1> SUFFICES ASSUME TypeOK, InOrder, ShownBehind, [Next]_vars PROVE [Stream!Next]_(Stream!vars)
  OBVIOUS
<1> DEFINE c == [p \in Streamed |-> cur[p]]
           s == [p \in Streamed |-> shown[p]]
<1>1. \A v \in Streamed : /\ v \in Params /\ v \notin Direct
                          /\ shown[v] <= value[v] \/ (v \in ArrayParams /\ value[v] = 0)
                          /\ value[v] <= cur[v] /\ shown[v] <= cur[v]
                          /\ value[v] \in Nat /\ shown[v] \in Nat /\ cur[v] \in Nat
  BY InOrderIsOrdered DEF ShownBehind, Behind, Streamed, TypeOK, Ordered
<1>2. ASSUME c' = c, s' = s PROVE UNCHANGED Stream!vars
  BY <1>2 DEF Stream!vars
<1>3. ASSUME c' = c, \A v \in Streamed : shown'[v] = shown[v] \/ shown'[v] = value[v]
      PROVE  Stream!Publish
  <2>1. s' = [v \in Streamed |-> shown'[v]]
    OBVIOUS
  <2>2. \A v \in Streamed : /\ shown'[v] \in Nat
                            /\ \/ shown[v] <= shown'[v] /\ shown'[v] <= cur[v]
                               \/ v \in ArrayParams /\ shown'[v] = 0
    BY <1>1, <1>3
  <2>3. /\ s' \in [Streamed -> Nat]
        /\ \A v \in Streamed : \/ s[v] <= s'[v] /\ s'[v] <= c[v]
                               \/ v \in ArrayParams /\ s'[v] = 0
    BY <2>1, <2>2
  <2> QED
    BY <1>3, <2>3 DEF Stream!Publish
<1>4. ASSUME UNCHANGED <<cur, shown>> PROVE UNCHANGED Stream!vars
  BY <1>2, <1>4
<1>5. ASSUME NEW p \in Params, PlcChange(p)
      PROVE  (Stream!Change(p) /\ p \in Streamed) \/ UNCHANGED Stream!vars
  <2>1. cur' = [cur EXCEPT ![p] = cur[p] + 1] /\ shown' = shown
    BY <1>5 DEF PlcChange
  <2>2. CASE p \in Streamed
    <3>1. c' = [c EXCEPT ![p] = c[p] + 1] /\ s' = s
      BY <1>1, <2>1, <2>2 DEF TypeOK
    <3> QED
      BY <2>2, <3>1 DEF Stream!Change
  <2>3. CASE p \notin Streamed
    <3>1. c' = c /\ s' = s
      BY <1>1, <2>1, <2>3 DEF TypeOK
    <3> QED
      BY <1>2, <3>1
  <2> QED
    BY <2>2, <2>3
<1>6. CASE fireAllCallbacksLock
  <2>1. c' = c /\ \A v \in Streamed : shown'[v] = shown[v] \/ shown'[v] = value[v]
    BY <1>1, <1>6 DEF fireAllCallbacksLock, plcVars, TypeOK
  <2> QED
    BY <1>3, <2>1 DEF Stream!Next
<1>7. ASSUME NEW p \in Params, writeParam(p) PROVE Stream!Publish
  <2>1. c' = c
    BY <1>1, <1>7 DEF writeParam, TypeOK
  <2>2. \A v \in Streamed : shown'[v] = shown[v] \/ shown'[v] = value[v]
    BY <1>1, <1>7 DEF writeParam, TypeOK
  <2> QED
    BY <1>3, <2>1, <2>2
<1>8. (\E p \in Params : PlcChange(p)) => [Stream!Next]_(Stream!vars)
  BY <1>5 DEF Stream!Next
<1>9. (\E p \in Params : writeParam(p)) => [Stream!Next]_(Stream!vars)
  BY <1>7 DEF Stream!Next
<1>10. CASE UNCHANGED <<cur, shown>>
  BY <1>4, <1>10
<1> QED
  BY <1>6, <1>8, <1>9, <1>10 DEF Next, vars, plcVars, LinkDown, LinkUp, setAlarmPort,
     getEpicsState, DcbTake, DcbUpdate, DcbPop, SymbolsChange, updateParamInfoWithPLCInfo,
     adsDataCallback, readParam

LEMMA InitRefines == Init => Stream!Init
  BY DEF Init, Stream!Init, Streamed

-----------------------------------------------------------------------------
(* What the order of samples rests on. *)
ValuesInv == TypeOK /\ QueueBounded /\ InOrder /\ ShownBehind

LEMMA InitValuesInv == Init => ValuesInv
<1> SUFFICES ASSUME Init PROVE ValuesInv
  OBVIOUS
<1>1. TypeOK
  BY InitTypeOK
<1>2. Len(queue) = 0
  BY DEF Init
<1>3. QueueBounded
  BY <1>2, ValuesAssumption DEF QueueBounded, ValuesAssumption
<1>4. \A p \in Params : value[p] = 0 /\ cur[p] = 1 /\ shown[p] = 0
  BY DEF Init
<1>a. 1..0 = {}
  OBVIOUS
<1>5. InOrder
  <2> SUFFICES ASSUME NEW p \in Params \ Direct PROVE Ordered(p)
    BY InOrderIsOrdered
  <2>1. value[p] = 0 /\ cur[p] = 1
    BY <1>4
  <2>2. value[p] <= cur[p]
    BY <2>1
  <2> QED
    BY <1>2, <1>a, <2>2 DEF Ordered
<1>6. ShownBehind
  <2> SUFFICES ASSUME NEW p \in Streamed PROVE Behind(p)
    BY DEF ShownBehind
  <2>1. value[p] = 0 /\ shown[p] = 0 /\ cur[p] = 1
    BY <1>4 DEF Streamed
  <2> QED
    BY <1>2, <1>a, <2>1 DEF Behind
<1> QED
  BY <1>1, <1>3, <1>5, <1>6 DEF ValuesInv

(* The conjunction is an invariant of the value path. *)
THEOREM ValuesInvariant == Spec => []ValuesInv
<1>1. Init => ValuesInv
  BY InitValuesInv
<1>2. ValuesInv /\ [Next]_vars => ValuesInv'
  BY NextTypeOK, NextQueueBounded, NextInOrder, NextShownBehind DEF ValuesInv
<1> QED
  BY <1>1, <1>2, PTL DEF Spec

(* The queue, the parameters and the lists keep their types. *)
THEOREM ValuesTypeOK == Spec => []TypeOK
<1>1. ValuesInv => TypeOK
  BY DEF ValuesInv
<1> QED
  BY <1>1, ValuesInvariant, PTL

(* datacbqueue never has more than MAXCBQSIZE + 1 samples, for any limit:  *)
(* the check in adsDataCallback is one off and no more.                    *)
THEOREM QueueIsBounded == Spec => []QueueBounded
<1>1. ValuesInv => QueueBounded
  BY DEF ValuesInv
<1> QED
  BY <1>1, ValuesInvariant, PTL

(* dataCallbackThread applies the samples of a followed variable in the    *)
(* order in which AdsLib delivered them, through skips and outages.        *)
THEOREM SamplesInOrder == Spec => []InOrder
<1>1. ValuesInv => InOrder
  BY DEF ValuesInv
<1> QED
  BY <1>1, ValuesInvariant, PTL

(* The value path implements the abstract stream: records of a followed    *)
(* variable never go back to an older value nor see one from the future,   *)
(* but for an array that is blank after a resize.                          *)
THEOREM StreamIsImplemented == Spec => StreamSpec
<1>1. ValuesInv /\ [Next]_vars => [Stream!Next]_(Stream!vars)
  BY StepRefines DEF ValuesInv
<1> QED
  BY <1>1, InitRefines, ValuesInvariant, PTL DEF Spec, StreamSpec, Stream!Spec

-----------------------------------------------------------------------------
(* No sample on the way is empty, so that no array waits in the list of    *)
(* callbacks with nothing to call back.                                    *)
NoEmptySample ==
    /\ \A p \in Params : size[p] > 0
    /\ \A p \in owed : sub[p] > 0
    /\ \A i \in 1..Len(queue) : queue[i].size > 0
    /\ dcb = "update" => lastCb[Head(queue).param] > 0
    /\ \A i \in 1..Len(pending) : lastCb[pending[i]] > 0

(* A sample of p that dataCallbackThread has not applied yet. *)
Waits(p, i) == /\ i \in 1..Len(queue) /\ queue[i].param = p
               /\ ~(i = 1 /\ dcb = "pop")

(* The newest of what waits, or else the parameter, has the PLC's value.   *)
Newest(p) ==
    /\ (\A i \in 1..Len(queue) : ~Waits(p, i)) => value[p] = cur[p]
    /\ \A i \in 1..Len(queue) :
         Waits(p, i) /\ (\A j \in 1..Len(queue) : Waits(p, j) => j <= i)
           => queue[i].version = cur[p]

NewestKnown == \A p \in Params : sub[p] # 0 /\ p \notin owed /\ p \notin lost => Newest(p)

(* What adsDataCallback and DcbPop do to the samples of the queue. *)
LEMMA CallbackQueue ==
  ASSUME TypeOK, NEW p \in Params, adsDataCallback(p)
  PROVE  \/ queue' = queue /\ lost' = lost \cup {p}
         \/ /\ Len(queue) \in Nat /\ Len(queue') = Len(queue) + 1 /\ lost' = lost \ {p}
            /\ queue'[Len(queue) + 1].param = p
            /\ queue'[Len(queue) + 1].size = sub[p]
            /\ queue'[Len(queue) + 1].version = cur[p]
            /\ \A i \in 1..Len(queue) : queue'[i] = queue[i]
            /\ queue # <<>> => Head(queue') = Head(queue)
<1> DEFINE s == [param |-> p, size |-> sub[p], version |-> cur[p]]
<1>1. s \in Samples /\ queue \in Seq(Samples) /\ s.param = p /\ s.size = sub[p] /\ s.version = cur[p]
  BY NewSample DEF TypeOK
<1>2. \/ queue' = queue /\ lost' = lost \cup {p}
      \/ queue' = Append(queue, s) /\ lost' = lost \ {p}
  BY DEF adsDataCallback
<1> HIDE DEF s
<1>3. ASSUME queue' = Append(queue, s), queue # <<>> PROVE Head(queue') = Head(queue)
  BY <1>1, <1>3
<1> QED
  BY <1>1, <1>2, <1>3, AppendFacts

LEMMA PopQueue ==
  ASSUME TypeOK, DcbPop
  PROVE  /\ Len(queue) \in Nat /\ Len(queue) >= 1 /\ Len(queue') = Len(queue) - 1
         /\ \A i \in 1..Len(queue') : i + 1 \in 1..Len(queue) /\ queue'[i] = queue[i + 1]
<1>1. queue # <<>> /\ queue' = Tail(queue) /\ queue \in Seq(Samples)
  BY DEF TypeOK, DcbPop
<1> QED
  BY <1>1, TailFacts

-----------------------------------------------------------------------------
(* A sample that arrives or is popped leaves none that is empty. *)
LEMMA CallbackNotEmpty ==
  ASSUME TypeOK, NoEmptySample, NEW p \in Params, adsDataCallback(p)
  PROVE  NoEmptySample'
<1>1. /\ UNCHANGED <<size, sub, lastCb, dcb, pending>> /\ owed' = owed \ {p} /\ p \in owed
      /\ dcb # "take" => queue # <<>>
  BY DEF adsDataCallback, plcVars, TypeOK
<1>2. CASE queue' = queue
  BY <1>1, <1>2 DEF NoEmptySample
<1>3. CASE queue' # queue
  <2> DEFINE n == Len(queue)
  <2>1. /\ n \in Nat /\ Len(queue') = n + 1 /\ \A i \in 1..n : queue'[i] = queue[i]
        /\ queue'[n + 1].size = sub[p]
        /\ queue # <<>> => Head(queue') = Head(queue)
    BY <1>3, CallbackQueue
  <2>2. sub[p] > 0 /\ \A i \in 1..n : queue[i].size > 0
    BY <1>1 DEF NoEmptySample
  <2> HIDE DEF n
  <2>3. \A i \in 1..(n + 1) : i = n + 1 \/ i \in 1..n
    BY <2>1
  <2>4. \A i \in 1..(n + 1) : queue'[i].size > 0
    BY <2>1, <2>2, <2>3
  <2>5. dcb' = "update" => lastCb'[Head(queue').param] > 0
    BY <1>1, <2>1 DEF NoEmptySample
  <2> QED
    BY <1>1, <2>1, <2>4, <2>5 DEF NoEmptySample
<1> QED
  BY <1>2, <1>3

LEMMA PopNotEmpty ==
  ASSUME TypeOK, NoEmptySample, DcbPop
  PROVE  NoEmptySample'
<1>1. UNCHANGED <<size, sub, lastCb, pending, owed>> /\ dcb' = "take"
  BY DEF DcbPop, plcVars
<1>2. \A i \in 1..Len(queue') : queue'[i].size > 0
  BY PopQueue DEF NoEmptySample
<1> QED
  BY <1>1, <1>2 DEF NoEmptySample

LEMMA NextNoEmptySample == TypeOK /\ NoEmptySample /\ [Next]_vars => NoEmptySample'
<1> SUFFICES ASSUME TypeOK, NoEmptySample, [Next]_vars PROVE NoEmptySample'
  OBVIOUS
<1> USE ValuesAssumption DEF ValuesAssumption
<1>1. ASSUME UNCHANGED <<size, sub, lastCb, dcb, pending, owed, queue>> PROVE NoEmptySample'
  BY <1>1 DEF NoEmptySample
<1>2. ASSUME NEW p \in Params, UNCHANGED <<size, sub, lastCb, dcb, pending, queue>>,
             owed' = IF sub[p] # 0 THEN owed \cup {p} ELSE owed
      PROVE  NoEmptySample'
  <2>1. sub[p] \in Nat
    BY DEF TypeOK
  <2>2. \A r \in owed' : sub'[r] > 0
    BY <1>2, <2>1 DEF NoEmptySample
  <2> QED
    BY <1>2, <2>2 DEF NoEmptySample
<1>3. ASSUME NEW p \in Params, PlcChange(p) PROVE NoEmptySample'
  <2>1. /\ UNCHANGED <<size, sub, lastCb, dcb, pending, queue>>
        /\ owed' = IF sub[p] # 0 THEN owed \cup {p} ELSE owed
    BY <1>3 DEF PlcChange
  <2> QED
    BY <1>2, <2>1
<1>4. ASSUME NEW p \in Params, writeParam(p) PROVE NoEmptySample'
  <2>1. /\ UNCHANGED <<size, sub, lastCb, dcb, pending, queue>>
        /\ owed' = owed \/ owed' = IF sub[p] # 0 THEN owed \cup {p} ELSE owed
    BY <1>4 DEF writeParam
  <2> QED
    BY <1>1, <1>2, <2>1
<1>5. ASSUME NEW p \in Params, SymbolsChange(p) PROVE NoEmptySample'
  <2>1. PICK n \in Sizes : size' = [size EXCEPT ![p] = n]
    BY <1>5 DEF SymbolsChange
  <2>2. n \in Nat /\ n > 0
    BY <2>1
  <2>3. \A r \in Params : size'[r] = IF r = p THEN n ELSE size[r]
    BY <2>1 DEF TypeOK
  <2>4. \A r \in Params : size'[r] > 0
    BY <2>2, <2>3 DEF NoEmptySample
  <2>5. \A r \in owed' : sub'[r] > 0
    BY <1>5 DEF SymbolsChange, NoEmptySample, TypeOK
  <2>6. UNCHANGED <<lastCb, dcb, pending, queue>>
    BY <1>5 DEF SymbolsChange
  <2> QED
    BY <2>4, <2>5, <2>6 DEF NoEmptySample
<1>6. CASE LinkDown
  <2>1. owed' = {} /\ UNCHANGED <<size, lastCb, dcb, pending, queue>>
    BY <1>6 DEF LinkDown
  <2> QED
    BY <2>1 DEF NoEmptySample
<1>7. ASSUME NEW p \in Params, updateParamInfoWithPLCInfo(p) PROVE NoEmptySample'
  <2>1. UNCHANGED <<size, lastCb, dcb, pending, queue>>
    BY <1>7, RegisterStep
  <2>2. \/ UNCHANGED <<sub, owed>>
        \/ sub' = [sub EXCEPT ![p] = size[p]] /\ owed' = owed \cup {p}
    BY <1>7, RegisterStep
  <2>3. CASE UNCHANGED <<sub, owed>>
    BY <2>1, <2>3 DEF NoEmptySample
  <2>4. ASSUME sub' = [sub EXCEPT ![p] = size[p]], owed' = owed \cup {p}, NEW r \in owed'
        PROVE  sub'[r] > 0
    <3>1. r \in Params /\ sub'[r] = IF r = p THEN size[p] ELSE sub[r]
      BY <2>4 DEF TypeOK
    <3> QED
      BY <2>4, <3>1 DEF NoEmptySample
  <2> QED
    BY <2>1, <2>2, <2>3, <2>4 DEF NoEmptySample
<1>8. ASSUME NEW p \in Params, adsDataCallback(p) PROVE NoEmptySample'
  BY <1>8, CallbackNotEmpty
<1>9. CASE DcbPop
  BY <1>9, PopNotEmpty
<1>10. CASE DcbTake
  <2>1. queue # <<>> /\ UNCHANGED <<size, sub, owed, pending, queue>>
    BY <1>10 DEF DcbTake, plcVars
  <2>2. Head(queue) = queue[1] /\ 1 \in 1..Len(queue) /\ Head(queue).param \in Params
    BY <2>1, FrontSample, QueueTypes
  <2>3. \A r \in Params : lastCb'[r] = IF r = queue[1].param THEN queue[1].size ELSE lastCb[r]
    BY <1>10, <2>2 DEF DcbTake, TypeOK
  <2>4. lastCb'[Head(queue').param] > 0
    BY <2>1, <2>2, <2>3 DEF NoEmptySample
  <2>5. \A i \in 1..Len(pending) : pending[i] \in Params
    BY DEF TypeOK
  <2>6. \A i \in 1..Len(pending) : lastCb'[pending[i]] > 0
    BY <2>2, <2>3, <2>5 DEF NoEmptySample
  <2> QED
    BY <2>1, <2>4, <2>6 DEF NoEmptySample
<1>11. CASE DcbUpdate
  <2>1. queue # <<>> /\ dcb = "update" /\ dcb' = "pop" /\ UNCHANGED <<size, sub, owed, lastCb, queue>>
    BY <1>11 DEF DcbUpdate, TypeOK, plcVars
  <2>2. lastCb[Head(queue).param] > 0
    BY <2>1 DEF NoEmptySample
  <2>3. \A i \in 1..Len(pending') : lastCb[pending'[i]] > 0
    <3>1. CASE pending' = pending
      BY <3>1 DEF NoEmptySample
    <3>2. CASE pending' # pending
      <4> DEFINE n == Len(pending)
                 h == Head(queue).param
      <4>1. h \in ArrayParams /\ pending' = Append(pending, h) /\ pending \in Seq(ArrayParams)
        BY <1>11, <3>2, UpdateStep DEF TypeOK
      <4>2. \A i \in 1..n : lastCb[pending[i]] > 0
        BY DEF NoEmptySample
      <4>3. lastCb[h] > 0
        BY <2>2
      <4> HIDE DEF h
      <4>4. n \in Nat /\ Len(pending') = n + 1 /\ pending'[n + 1] = h /\ \A i \in 1..n : pending'[i] = pending[i]
        BY <4>1, AppendFacts
      <4> HIDE DEF n
      <4>5. \A i \in 1..(n + 1) : i = n + 1 \/ i \in 1..n
        BY <4>4
      <4> QED
        BY <4>2, <4>3, <4>4, <4>5
    <3> QED
      BY <3>1, <3>2
  <2> QED
    BY <2>1, <2>3 DEF NoEmptySample
<1>12. CASE fireAllCallbacksLock
  <2>1. pending' = <<>> /\ UNCHANGED <<size, sub, owed, lastCb, dcb, queue>>
    BY <1>12 DEF fireAllCallbacksLock, plcVars
  <2>2. Len(pending') = 0
    BY <2>1
  <2> QED
    BY <2>1, <2>2 DEF NoEmptySample
<1> QED
  BY <1>1, <1>3, <1>4, <1>5, <1>6, <1>7, <1>8, <1>9, <1>10, <1>11, <1>12
     DEF Next, vars, plcVars, LinkUp, setAlarmPort, getEpicsState, readParam

LEMMA InitNoEmptySample == Init => NoEmptySample
<1> SUFFICES ASSUME Init PROVE NoEmptySample
  OBVIOUS
<1>a. \A n \in Sizes : n \in Nat /\ n # 0
  BY ValuesAssumption DEF ValuesAssumption
<1>b. \A p \in Params : size[p] \in Sizes
  BY DEF Init
<1>1. ASSUME NEW p \in Params PROVE size[p] > 0
  <2>1. size[p] \in Nat /\ size[p] # 0
    BY <1>a, <1>b
  <2> QED
    BY <2>1
<1>2. Len(queue) = 0 /\ Len(pending) = 0 /\ owed = {} /\ dcb = "take"
  BY DEF Init
<1> QED
  BY <1>1, <1>2 DEF NoEmptySample

(* A step forgets no array update. *)
LEMMA NextArrayPending ==
  TypeOK /\ NoEmptySample /\ ArrayPending /\ [Next]_vars => ArrayPending'
<1> SUFFICES ASSUME TypeOK, NoEmptySample, ArrayPending, [Next]_vars, NEW r \in ArrayParams
             PROVE  (value[r] \in {0, shown[r]} \/ Fired(r))'
  BY DEF ArrayPending
<1> USE ValuesAssumption DEF ValuesAssumption
<1>1. (value[r] \in {0, shown[r]} \/ Fired(r)) /\ r \in Params /\ r \notin Direct
  BY DEF ArrayPending
<1>2. ASSUME value'[r] = value[r], shown'[r] = shown[r], pending' = pending
      PROVE  (value[r] \in {0, shown[r]} \/ Fired(r))'
  BY <1>1, <1>2 DEF Fired
<1>3. ASSUME NEW p \in Params, updateParamInfoWithPLCInfo(p)
      PROVE  (value[r] \in {0, shown[r]} \/ Fired(r))'
  <2>1. value'[r] \in {0, value[r]} /\ UNCHANGED <<shown, pending>>
    BY <1>1, <1>3, RegisterStep, RegisterValue
  <2> QED
    BY <1>1, <2>1 DEF Fired
<1>4. ASSUME NEW p \in Params, readParam(p) PROVE (value[r] \in {0, shown[r]} \/ Fired(r))'
  <2>1. value'[r] = value[r] /\ UNCHANGED <<shown, pending>>
    BY <1>1, <1>4 DEF readParam, TypeOK
  <2> QED
    BY <1>2, <2>1
<1>5. ASSUME NEW p \in Params, writeParam(p) PROVE (value[r] \in {0, shown[r]} \/ Fired(r))'
  <2>1. value'[r] = value[r] /\ shown'[r] = shown[r] /\ pending' = pending
    BY <1>1, <1>5 DEF writeParam, TypeOK
  <2> QED
    BY <1>2, <2>1
<1>6. CASE DcbUpdate
  <2> DEFINE h == queue[1].param
             n == Len(pending)
  <2>1. queue # <<>> /\ shown' = shown /\ pending \in Seq(ArrayParams)
    BY <1>6 DEF DcbUpdate, TypeOK
  <2>0. CASE UNCHANGED <<value, pending>>
    BY <1>2, <2>0, <2>1
  <2> SUFFICES ASSUME ~UNCHANGED <<value, pending>>
               PROVE  (value[r] \in {0, shown[r]} \/ Fired(r))'
    BY <2>0
  <2>2. /\ value' = [value EXCEPT ![h] = queue[1].version]
        /\ pending' = IF h \in ArrayParams THEN Append(pending, h) ELSE pending
    BY <1>6, UpdateStep
  <2>3. h \in Params /\ queue[1].version \in Nat
    BY <1>6, UpdateStep
  <2> HIDE DEF h
  <2>4. CASE h = r
    <3>1. pending' = Append(pending, r)
      BY <2>2, <2>4
    <3>2. n \in Nat /\ Len(pending') = n + 1 /\ pending'[n + 1] = r
      BY <2>1, <3>1, AppendFacts
    <3>3. n + 1 \in 1..Len(pending')
      BY <3>2
    <3> QED
      BY <3>2, <3>3 DEF Fired
  <2>5. CASE h # r
    <3>1. value'[r] = value[r]
      BY <1>1, <2>2, <2>5 DEF TypeOK
    <3>2. CASE h \notin ArrayParams
      BY <1>2, <2>1, <2>2, <3>1, <3>2
    <3>3. CASE h \in ArrayParams
      <4>1. n \in Nat /\ Len(pending') = n + 1 /\ \A i \in 1..n : pending'[i] = pending[i]
        BY <2>1, <2>2, <3>3, AppendFacts
      <4>2. \A i \in 1..n : i \in 1..Len(pending')
        BY <4>1
      <4>3. Fired(r) => Fired(r)'
        BY <4>1, <4>2 DEF Fired
      <4> QED
        BY <1>1, <2>1, <3>1, <4>3
    <3> QED
      BY <3>2, <3>3
  <2> QED
    BY <2>4, <2>5
<1>7. CASE fireAllCallbacksLock
  <2>1. Fired(r) => lastCb[r] > 0
    BY DEF Fired, NoEmptySample
  <2>2. shown'[r] = (IF Fired(r) /\ lastCb[r] > 0 THEN value[r] ELSE shown[r]) /\ value' = value
    BY <1>1, <1>7 DEF fireAllCallbacksLock
  <2>3. value'[r] \in {0, shown'[r]}
    BY <1>1, <2>1, <2>2
  <2> QED
    BY <2>3
<1> QED
  BY <1>2, <1>3, <1>4, <1>5, <1>6, <1>7 DEF Next, vars, plcVars, LinkDown, LinkUp, setAlarmPort,
     getEpicsState, DcbTake, DcbPop, PlcChange, SymbolsChange, adsDataCallback

(* No array update that dataCallbackThread has applied is forgotten: until *)
(* the records have seen it the array is in arrayParamsToCallCallbacksFor_ *)
(* and its next callback is not the one that is skipped for being empty.   *)
THEOREM NoArrayForgotten == Spec => []ArrayPending
<1>1. Init => NoEmptySample /\ ArrayPending
  <2>1. Init => ArrayPending
    BY ValuesAssumption DEF Init, ArrayPending, ValuesAssumption
  <2> QED
    BY <2>1, InitNoEmptySample
<1>2. TypeOK /\ NoEmptySample /\ ArrayPending /\ [Next]_vars => NoEmptySample' /\ ArrayPending'
  BY NextNoEmptySample, NextArrayPending
<1> QED
  BY <1>1, <1>2, ValuesTypeOK, PTL DEF Spec

-----------------------------------------------------------------------------
(* A sample that AdsLib delivers is the newest that waits. *)
LEMMA CallbackNewest ==
  ASSUME TypeOK, NEW p \in Params, adsDataCallback(p), NEW r \in Params,
         r \notin lost', r # p => Newest(r)
  PROVE  Newest(r)'
<1>1. UNCHANGED <<value, cur, dcb>> /\ (dcb # "take" => queue # <<>>)
  BY DEF adsDataCallback, plcVars, TypeOK
<1>2. CASE queue' = queue /\ lost' = lost \cup {p}
  BY <1>1, <1>2 DEF Newest, Waits
<1>3. CASE ~(queue' = queue /\ lost' = lost \cup {p})
  <2>0. PICK n \in Nat : n = Len(queue)
    BY QueueTypes
  <2>1. /\ n \in Nat /\ Len(queue') = n + 1 /\ \A i \in 1..n : queue'[i] = queue[i]
        /\ queue'[n + 1].param = p /\ queue'[n + 1].version = cur[p]
    BY <1>3, <2>0, CallbackQueue
  <2>2. dcb = "pop" => n # 0
    BY <1>1, <2>0 DEF TypeOK
  <2>3. \A i \in 1..n : Waits(r, i)' <=> Waits(r, i)
    <3>1. \A i \in 1..n : i \in 1..(n + 1)
      BY <2>1
    <3> QED
      BY <1>1, <2>0, <2>1, <3>1 DEF Waits
  <2>4. Waits(r, n + 1)' <=> r = p
    <3>1. n + 1 \in 1..Len(queue') /\ (dcb = "pop" => n + 1 # 1)
      BY <2>1, <2>2
    <3> QED
      BY <1>1, <2>0, <2>1, <3>1 DEF Waits
  <2>5. /\ r # p => ((\A i \in 1..n : ~Waits(r, i)) => value[r] = cur[r])
        /\ r # p => \A i \in 1..n : Waits(r, i) /\ (\A j \in 1..n : Waits(r, j) => j <= i)
                                     => queue[i].version = cur[r]
    BY <2>0 DEF Newest
  <2>6. n + 1 \in 1..(n + 1) /\ \A i \in 1..n : i \in 1..(n + 1) /\ ~(n + 1 <= i)
    BY <2>1
  <2>7. \A i \in 1..(n + 1) : i = n + 1 \/ i \in 1..n
    BY <2>1
  <2>8. CASE r = p
    <3>1. ASSUME NEW i \in 1..(n + 1), \A j \in 1..(n + 1) : Waits(r, j)' => j <= i
          PROVE  queue'[i].version = cur[r]
      BY <2>1, <2>4, <2>6, <2>7, <2>8, <3>1
    <3> QED
      BY <1>1, <2>1, <2>4, <2>6, <2>8, <3>1 DEF Newest
  <2>9. CASE r # p
    <3>1. (\A i \in 1..(n + 1) : ~Waits(r, i)') => value[r] = cur[r]
      BY <2>3, <2>5, <2>6, <2>9
    <3>2. ASSUME NEW i \in 1..(n + 1), Waits(r, i)', \A j \in 1..(n + 1) : Waits(r, j)' => j <= i
          PROVE  queue'[i].version = cur[r]
      <4>1. i \in 1..n
        BY <2>4, <2>7, <2>9, <3>2
      <4>2. Waits(r, i) /\ \A j \in 1..n : Waits(r, j) => j <= i
        BY <2>3, <2>6, <3>2, <4>1
      <4> QED
        BY <2>1, <2>5, <2>9, <4>1, <4>2
    <3> QED
      BY <1>1, <2>1, <3>1, <3>2 DEF Newest
  <2> QED
    BY <2>8, <2>9
<1> QED
  BY <1>2, <1>3

(* Popping the sample that has been applied leaves what waits. *)
LEMMA PopNewest ==
  ASSUME TypeOK, DcbPop, NEW r \in Params, Newest(r)
  PROVE  Newest(r)'
<1> DEFINE n == Len(queue)
<1>1. UNCHANGED <<value, cur>> /\ dcb = "pop" /\ dcb' = "take"
  BY DEF DcbPop, plcVars
<1>2. /\ n \in Nat /\ n >= 1 /\ Len(queue') = n - 1
      /\ \A i \in 1..(n - 1) : i + 1 \in 1..n /\ queue'[i] = queue[i + 1]
  BY PopQueue
<1>3. \A i \in 1..(n - 1) : Waits(r, i)' <=> Waits(r, i + 1)
  <2>1. \A i \in 1..(n - 1) : i + 1 # 1
    BY <1>2
  <2> QED
    BY <1>1, <1>2, <2>1 DEF Waits
<1>4. ~Waits(r, 1)
  BY <1>1 DEF Waits
<1>5. /\ (\A i \in 1..n : ~Waits(r, i)) => value[r] = cur[r]
      /\ \A i \in 1..n : Waits(r, i) /\ (\A j \in 1..n : Waits(r, j) => j <= i)
                         => queue[i].version = cur[r]
  BY DEF Newest
<1> HIDE DEF n
<1>6. \A i \in 1..n : i = 1 \/ (i - 1 \in 1..(n - 1) /\ (i - 1) + 1 = i)
  BY <1>2
<1>7. (\A i \in 1..(n - 1) : ~Waits(r, i)') => value[r] = cur[r]
  <2> SUFFICES ASSUME \A i \in 1..(n - 1) : ~Waits(r, i)', NEW j \in 1..n PROVE ~Waits(r, j)
    BY <1>5
  <2>1. CASE j = 1
    BY <1>4, <2>1
  <2>2. CASE j # 1
    BY <1>3, <1>6, <2>2
  <2> QED
    BY <2>1, <2>2
<1>8. ASSUME NEW i \in 1..(n - 1), Waits(r, i)', \A j \in 1..(n - 1) : Waits(r, j)' => j <= i
      PROVE  queue'[i].version = cur[r]
  <2>1. i + 1 \in 1..n /\ Waits(r, i + 1) /\ queue'[i] = queue[i + 1]
    BY <1>2, <1>3, <1>8
  <2>2. ASSUME NEW j \in 1..n, Waits(r, j) PROVE j <= i + 1
    <3>1. j # 1
      BY <1>4, <2>2
    <3>2. j - 1 \in 1..(n - 1) /\ (j - 1) + 1 = j
      BY <1>6, <3>1
    <3>3. Waits(r, j - 1)'
      BY <1>3, <2>2, <3>2
    <3>4. j - 1 <= i
      BY <1>8, <3>2, <3>3
    <3> QED
      BY <1>2, <1>8, <3>2, <3>4
  <2> QED
    BY <1>5, <2>1, <2>2
<1> QED
  BY <1>1, <1>2, <1>7, <1>8 DEF Newest

(* Applying the front sample makes the parameter as new as that sample. *)
LEMMA UpdateNewest ==
  ASSUME TypeOK, DcbUpdate, NEW r \in Params, Newest(r),
         r \in ArrayParams => bufSize[r] # 0
  PROVE  Newest(r)'
<1> DEFINE n == Len(queue)
<1>1. queue # <<>> /\ UNCHANGED <<queue, cur>> /\ dcb = "update" /\ dcb' = "pop"
  BY DEF TypeOK, DcbUpdate, plcVars
<1>2. Head(queue) = queue[1] /\ n \in Nat /\ n >= 1 /\ queue[1].param \in Params
  BY <1>1, FrontSample, QueueTypes
<1>3. \/ queue[1].param # r /\ value' = value
      \/ value' = [value EXCEPT ![queue[1].param] = queue[1].version]
  BY UpdateStep
<1>4. value'[r] = IF queue[1].param = r THEN queue[1].version ELSE value[r]
  BY <1>3 DEF TypeOK
<1>5. \A i \in 1..n : Waits(r, i)' <=> Waits(r, i) /\ i # 1
  BY <1>1 DEF Waits
<1>6. Waits(r, 1) <=> queue[1].param = r
  BY <1>1, <1>2 DEF Waits
<1>7. /\ (\A i \in 1..n : ~Waits(r, i)) => value[r] = cur[r]
      /\ \A i \in 1..n : Waits(r, i) /\ (\A j \in 1..n : Waits(r, j) => j <= i)
                         => queue[i].version = cur[r]
  BY DEF Newest
<1> HIDE DEF n
<1>8. 1 \in 1..n /\ \A i \in 1..n : 1 <= i
  BY <1>2
<1>9. ASSUME \A i \in 1..n : ~Waits(r, i)' PROVE value'[r] = cur[r]
  <2>1. \A i \in 1..n : Waits(r, i) => i = 1
    BY <1>5, <1>9
  <2>2. CASE queue[1].param = r
    <3>1. queue[1].version = cur[r]
      BY <1>6, <1>7, <1>8, <2>1, <2>2
    <3> QED
      BY <1>4, <2>2, <3>1
  <2>3. CASE queue[1].param # r
    BY <1>4, <1>6, <1>7, <2>1, <2>3
  <2> QED
    BY <2>2, <2>3
<1>10. ASSUME NEW i \in 1..n, Waits(r, i)', \A j \in 1..n : Waits(r, j)' => j <= i
       PROVE  queue[i].version = cur[r]
  <2>1. Waits(r, i)
    BY <1>5, <1>10
  <2>2. ASSUME NEW j \in 1..n, Waits(r, j) PROVE j <= i
    BY <1>5, <1>8, <1>10, <2>2
  <2> QED
    BY <1>7, <2>1, <2>2
<1> QED
  BY <1>1, <1>9, <1>10 DEF Newest, n

(* There is no notification on a lost link and none of a parameter that is *)
(* due, and a subscribed array has a buffer: a sample that is refused is   *)
(* one of a parameter that is not subscribed.                              *)
Registered ==
    /\ link # "up" => \A p \in Params : sub[p] = 0
    /\ \A p \in due : sub[p] = 0
    /\ \A p \in ArrayParams : sub[p] # 0 => bufSize[p] # 0

LEMMA NextRegistered ==
  TypeOK /\ NoEmptySample /\ Registered /\ [Next]_vars => Registered'
<1> SUFFICES ASSUME TypeOK, NoEmptySample, Registered, [Next]_vars PROVE Registered'
  OBVIOUS
<1> USE ValuesAssumption DEF ValuesAssumption
<1>1. ASSUME UNCHANGED <<due, sub, bufSize>>, link' = link \/ link # "up" PROVE Registered'
  BY <1>1 DEF Registered
<1>2. ASSUME \A p \in Params : sub'[p] = 0, due' \subseteq Params PROVE Registered'
  BY <1>2 DEF Registered
<1>3. ASSUME NEW p \in Params, SymbolsChange(p) PROVE Registered'
  BY <1>2, <1>3 DEF SymbolsChange, TypeOK
<1>4. CASE LinkDown
  BY <1>2, <1>4 DEF LinkDown, TypeOK
<1>5. CASE LinkUp
  <2>1. link = "lost" /\ UNCHANGED sub /\ due' \subseteq Params
    BY <1>5 DEF LinkUp, TypeOK
  <2> QED
    BY <1>2, <2>1 DEF Registered
<1>6. ASSUME NEW p \in Params, updateParamInfoWithPLCInfo(p) PROVE Registered'
  <2>1. p \in due /\ due' = due \ {p} /\ sub[p] = 0 /\ due \subseteq Params
    BY <1>6, RegisterStep DEF Registered, TypeOK
  <2>2. \A q \in Params : q # p => sub'[q] = sub[q] /\ bufSize'[q] = bufSize[q]
    <3>1. /\ sub' = sub \/ sub' = [sub EXCEPT ![p] = size[p]]
          /\ \/ bufSize' = bufSize \/ bufSize' = [bufSize EXCEPT ![p] = 0]
             \/ bufSize' = [bufSize EXCEPT ![p] = size[p]]
      BY <1>6, RegisterStep
    <3>2. sub \in [Params -> Nat] /\ bufSize \in [Params -> Nat]
      BY DEF TypeOK
    <3> QED
      BY <3>1, <3>2
  <2>3. p \in ArrayParams /\ sub'[p] # 0 => bufSize'[p] # 0
    <3>1. size[p] > 0 /\ size[p] \in Nat
      BY DEF NoEmptySample, TypeOK
    <3>2. ASSUME p \in ArrayParams, sub'[p] # 0
          PROVE  \/ bufSize' = [bufSize EXCEPT ![p] = size[p]]
                 \/ bufSize' = bufSize /\ size[p] = bufSize[p]
      BY <1>6, <2>1, <3>2, RegisterStep
    <3>3. bufSize \in [Params -> Nat]
      BY DEF TypeOK
    <3> QED
      BY <3>1, <3>2, <3>3
  <2>4. link' # "up" => sub' = sub /\ link # "up"
    BY <1>6, RegisterStep
  <2> QED
    BY <2>1, <2>2, <2>3, <2>4 DEF Registered
<1> QED
  BY <1>1, <1>3, <1>4, <1>5, <1>6 DEF Next, vars, plcVars, setAlarmPort, getEpicsState, DcbTake,
     DcbUpdate, DcbPop, fireAllCallbacksLock, PlcChange, adsDataCallback, readParam, writeParam

LEMMA NextNewestKnown ==
  TypeOK /\ Registered /\ NewestKnown /\ [Next]_vars => NewestKnown'
<1> SUFFICES ASSUME TypeOK, Registered, NewestKnown, [Next]_vars, NEW r \in Params,
                    sub'[r] # 0, r \notin owed', r \notin lost'
             PROVE  Newest(r)'
  BY DEF NewestKnown
<1> USE ValuesAssumption DEF ValuesAssumption
<1>1. sub[r] # 0 /\ r \notin owed /\ r \notin lost => Newest(r)
  BY DEF NewestKnown
<1>2. ASSUME UNCHANGED <<queue, lost>>, value'[r] = value[r], cur'[r] = cur[r],
             dcb' = dcb \/ (dcb = "take" /\ dcb' = "update"), sub[r] # 0, r \notin owed
      PROVE  Newest(r)'
  <2>1. \A i : Waits(r, i)' <=> Waits(r, i)
    BY <1>2 DEF Waits
  <2> QED
    BY <1>1, <1>2, <2>1 DEF Newest
<1>3. ASSUME NEW p \in Params, PlcChange(p) PROVE Newest(r)'
  <2>1. /\ UNCHANGED <<queue, lost, value, dcb, sub>> /\ cur' = [cur EXCEPT ![p] = cur[p] + 1]
        /\ owed' = IF sub[p] # 0 THEN owed \cup {p} ELSE owed
    BY <1>3 DEF PlcChange
  <2>2. p # r /\ r \notin owed /\ sub[r] # 0
    BY <2>1
  <2>3. cur'[r] = cur[r]
    BY <2>1, <2>2 DEF TypeOK
  <2> QED
    BY <1>2, <2>1, <2>2, <2>3
<1>4. ASSUME NEW p \in Params, SymbolsChange(p) PROVE Newest(r)'
  BY <1>4 DEF SymbolsChange
<1>5. ASSUME NEW p \in Params, updateParamInfoWithPLCInfo(p) PROVE Newest(r)'
  <2>1. UNCHANGED <<queue, lost, dcb, cur>> /\ sub[p] = 0
    BY <1>5, RegisterStep DEF Registered
  <2>2. p # r /\ r \notin owed
    BY <1>5, <2>1, RegisterStep
  <2>3. sub[r] # 0 /\ value'[r] = value[r]
    BY <1>5, <2>2, RegisterStep DEF TypeOK
  <2> QED
    BY <1>2, <2>1, <2>2, <2>3
<1>6. CASE LinkDown
  BY <1>6 DEF LinkDown
<1>7. ASSUME NEW p \in Params, adsDataCallback(p) PROVE Newest(r)'
  <2>1. owed' = owed \ {p} /\ sub' = sub /\ (lost' = lost \ {p} \/ lost' = lost \cup {p})
    BY <1>7 DEF adsDataCallback
  <2>2. r # p => Newest(r)
    BY <1>1, <2>1
  <2> QED
    BY <1>7, <2>2, CallbackNewest
<1>8. CASE DcbPop
  <2>1. UNCHANGED <<sub, owed, lost>>
    BY <1>8 DEF DcbPop
  <2> QED
    BY <1>1, <1>8, <2>1, PopNewest
<1>9. CASE DcbUpdate
  <2>1. UNCHANGED <<sub, owed, lost>>
    BY <1>9 DEF DcbUpdate
  <2> QED
    BY <1>1, <1>9, <2>1, UpdateNewest DEF Registered
<1>10. CASE DcbTake
  BY <1>2, <1>10 DEF DcbTake, plcVars
<1>11. ASSUME NEW p \in Params, readParam(p) PROVE Newest(r)'
  <2>1. UNCHANGED <<queue, lost, dcb, cur, sub, owed>>
    BY <1>11 DEF readParam, plcVars
  <2>2. value'[r] = value[r] \/ value'[r] = cur[r]
    BY <1>11 DEF readParam, TypeOK
  <2>3. Newest(r)
    BY <1>1, <2>1
  <2>4. \A i : Waits(r, i)' <=> Waits(r, i)
    BY <2>1 DEF Waits
  <2> QED
    BY <2>1, <2>2, <2>3, <2>4 DEF Newest
<1>12. ASSUME NEW p \in Params, writeParam(p) PROVE Newest(r)'
  <2>1. UNCHANGED <<queue, lost, dcb, sub>>
    BY <1>12 DEF writeParam
  <2>2. \/ UNCHANGED <<cur, owed, value>>
        \/ /\ cur' = [cur EXCEPT ![p] = cur[p] + 1] /\ value' = [value EXCEPT ![p] = cur[p] + 1]
           /\ owed' = IF sub[p] # 0 THEN owed \cup {p} ELSE owed
    BY <1>12 DEF writeParam
  <2>3. r \notin owed /\ cur'[r] = cur[r] /\ value'[r] = value[r]
    BY <2>1, <2>2 DEF TypeOK
  <2> QED
    BY <1>2, <2>1, <2>3
<1> QED
  BY <1>2, <1>3, <1>4, <1>5, <1>6, <1>7, <1>8, <1>9, <1>10, <1>11, <1>12
     DEF Next, vars, plcVars, LinkUp, setAlarmPort, getEpicsState, fireAllCallbacksLock

(* Once nothing of a subscribed variable is on its way, and its last       *)
(* sample was not skipped, the parameter has the PLC's value, whatever     *)
(* direct reads, writes, outages and resizes came between.                 *)
THEOREM ValuesSettle == Spec => []Settled
<1> DEFINE SettledInv == NoEmptySample /\ Registered /\ NewestKnown
<1>1. Init => SettledInv
  <2>1. Init => Registered
    BY ValuesAssumption DEF ValuesAssumption, Init, Registered
  <2>2. Init => NewestKnown
    BY DEF Init, NewestKnown
  <2> QED
    BY <2>1, <2>2, InitNoEmptySample
<1>2. TypeOK /\ SettledInv /\ [Next]_vars => SettledInv'
  BY NextNoEmptySample, NextRegistered, NextNewestKnown
<1>3. SettledInv => Settled
  BY DEF NewestKnown, Newest, Waits, Settled, Queued
<1> HIDE DEF SettledInv
<1> QED
  BY <1>1, <1>2, <1>3, ValuesTypeOK, PTL DEF Spec
=============================================================================
