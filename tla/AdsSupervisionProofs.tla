------------------------ MODULE AdsSupervisionProofs ------------------------
(***************************************************************************)
(* Proofs about AdsSupervision for any number of AMS ports and parameters, *)
(* any mix of access paths and feeds, and any bound on generations.        *)
(***************************************************************************)
EXTENDS AdsSupervision, TLAPS

(* The generation known to the driver is never ahead of the PLC's.         *)
SeenBehind == \A a \in Ports : seenGen[a] <= gen[a]

(* What Init establishes and every step preserves.                         *)
IInv == TypeOK /\ SeenBehind /\ RefreshedMeansCurrent /\ DeadPollsCounted
             /\ ExitNeedsTwoDeadPolls

(* The initial state satisfies the inductive invariant. *)
LEMMA InitIInv == Init => IInv
<1> SUFFICES ASSUME Init PROVE IInv
  OBVIOUS
<1> USE SupervisionAssumption DEF SupervisionAssumption
<1>1. 1 \in Ports /\ 1 \in Gens /\ 0 \in Gens /\ 1 \in 1..MaxGen
  BY DEF Ports, Gens
<1>2. PlcTypeOK
  BY <1>1 DEF Init, PlcTypeOK
<1>3. PortTypeOK
  BY DEF Init, PortTypeOK, AdsStates
<1>4. ParamTypeOK
  BY <1>1 DEF Init, ParamTypeOK
<1>5. DriverTypeOK
  <2>1. cyc \in [pc : CycPcs, port : Ports] /\ sym \in [pc : SymPcs, port : Ports]
    BY <1>1 DEF Init, CycPcs, SymPcs
  <2>2. next \in 1..(NParams + 1) /\ notConnectedCounter \in 0..2
    BY DEF Init
  <2>3. lock \in Threads \cup {None}
    BY DEF Init
  <2> QED
    BY <2>1, <2>2, <2>3 DEF Init, DriverTypeOK
<1>6. SeenBehind
  BY DEF Init, SeenBehind
<1>7. RefreshedMeansCurrent
  <2> SUFFICES ASSUME NEW p \in Params, access[p] = "name", ~pRefresh[p]
               PROVE  /\ hSymbolicHandle[p] >= seenGen[portOf[p]]
                      /\ feed[p] # "poll" => source[p] = hSymbolicHandle[p]
    BY DEF RefreshedMeansCurrent
  <2>1. p \notin InitFailed /\ portOf[p] \in Ports
    BY DEF Init
  <2>2. hSymbolicHandle[p] = 1 /\ seenGen[portOf[p]] = 1
    BY <2>1 DEF Init
  <2>3. feed[p] # "poll" => source[p] = 1
    BY <2>1 DEF Init
  <2> QED
    BY <2>2, <2>3
<1>8. DeadPollsCounted /\ ExitNeedsTwoDeadPolls
  BY DEF Init, DeadPollsCounted, ExitNeedsTwoDeadPolls, Polled
<1> QED
  BY <1>2, <1>3, <1>4, <1>5, <1>6, <1>7, <1>8 DEF IInv, TypeOK

-----------------------------------------------------------------------------
(***************************************************************************)
(* Lemmas about updateParamInfoWithPLCInfo.                                *)
(***************************************************************************)

(* A look-up returns a handle of the right type, and one made by name      *)
(* returns a handle of the PLC's current generation when it succeeds.      *)
LEMMA LookupResult ==
  ASSUME NEW p \in Params, NEW l \in Lookups(p)
  PROVE  /\ l.ok \in BOOLEAN
         /\ l.handle \in Gens
         /\ access[p] = "name" /\ l.ok => l.handle = gen[portOf[p]]
  BY DEF Lookups

(* A subscription leaves a source of the right type, and for a named       *)
(* parameter with a feed a successful one uses the handle it was given.    *)
LEMMA SubscriptionResult ==
  ASSUME NEW p \in Params, NEW h \in Gens, NEW s \in Subscriptions(p, h)
  PROVE  /\ s.ok \in BOOLEAN
         /\ s.source \in Gens
         /\ access[p] = "name" /\ feed[p] # "poll" /\ s.ok => s.source = h
  BY DEF Subscriptions

(* Updating a parameter keeps the types, and never certifies a handle from *)
(* before the last invalidation.                                           *)
LEMMA UpdateKeeps ==
  ASSUME IInv, NEW p \in Params, pRefresh[p], updateParamInfoWithPLCInfo(p),
         UNCHANGED <<gen, seenGen>>
  PROVE  ParamTypeOK' /\ RefreshedMeansCurrent'
<1> USE SupervisionAssumption DEF SupervisionAssumption
<1>0. TypeOK /\ ParamTypeOK /\ RefreshedMeansCurrent
  BY DEF IInv, TypeOK
<1>a. /\ portOf[p] \in Ports /\ gen[portOf[p]] \in 1..MaxGen
      /\ seenGen[portOf[p]] \in Gens /\ seenGen[portOf[p]] <= gen[portOf[p]]
  BY DEF IInv, TypeOK, PlcTypeOK, SeenBehind
<1>1. CASE access[p] = "state" /\ pRefresh' = [pRefresh EXCEPT ![p] = FALSE]
           /\ UNCHANGED <<hSymbolicHandle, source>>
  BY <1>0, <1>1 DEF ParamTypeOK, RefreshedMeansCurrent
<1>2. ASSUME NEW l \in Lookups(p),
             hSymbolicHandle' = [hSymbolicHandle EXCEPT ![p] = l.handle],
             ~l.ok, UNCHANGED <<pRefresh, source>>
      PROVE  ParamTypeOK' /\ RefreshedMeansCurrent'
  <2>1. l.handle \in Gens
    BY <1>0, LookupResult
  <2> QED
    BY <1>0, <1>2, <2>1 DEF ParamTypeOK, RefreshedMeansCurrent
<1>3. ASSUME NEW l \in Lookups(p),
             hSymbolicHandle' = [hSymbolicHandle EXCEPT ![p] = l.handle],
             l.ok,
             NEW s \in Subscriptions(p, l.handle),
             source' = [source EXCEPT ![p] = s.source],
             pRefresh' = [pRefresh EXCEPT ![p] = ~s.ok]
      PROVE  ParamTypeOK' /\ RefreshedMeansCurrent'
  <2>1. /\ l.handle \in Gens
        /\ access[p] = "name" => l.handle = gen[portOf[p]]
    BY <1>0, <1>3, LookupResult
  <2>2. /\ s.ok \in BOOLEAN /\ s.source \in Gens
        /\ access[p] = "name" /\ feed[p] # "poll" /\ s.ok => s.source = l.handle
    BY <1>0, <2>1, SubscriptionResult
  <2>3. ParamTypeOK'
    BY <1>0, <1>3, <2>1, <2>2 DEF ParamTypeOK
  <2>4. ASSUME NEW q \in Params, access[q] = "name", ~pRefresh'[q]
        PROVE  /\ hSymbolicHandle'[q] >= seenGen'[portOf[q]]
               /\ feed[q] # "poll" => source'[q] = hSymbolicHandle'[q]
    <3>1. CASE q = p
      <4>1. s.ok /\ hSymbolicHandle'[q] = l.handle /\ source'[q] = s.source
        BY <1>0, <1>3, <2>2, <2>4, <3>1 DEF ParamTypeOK
      <4> QED
        BY <1>a, <2>1, <2>2, <2>4, <3>1, <4>1 DEF Gens
    <3>2. CASE q # p
      <4>1. /\ pRefresh'[q] = pRefresh[q] /\ source'[q] = source[q]
            /\ hSymbolicHandle'[q] = hSymbolicHandle[q]
        BY <1>0, <1>3, <3>2 DEF ParamTypeOK
      <4> QED
        BY <1>0, <2>4, <4>1 DEF RefreshedMeansCurrent
    <3> QED
      BY <3>1, <3>2
  <2> QED
    BY <2>3, <2>4 DEF RefreshedMeansCurrent
<1> QED
  BY <1>1, <1>2, <1>3 DEF updateParamInfoWithPLCInfo

-----------------------------------------------------------------------------
(***************************************************************************)
(* One lemma per group of actions: each preserves the inductive invariant. *)
(***************************************************************************)

(* The counting part of the invariant only looks at these variables.       *)
LEMMA CountingFrame ==
  ASSUME DeadPollsCounted, ExitNeedsTwoDeadPolls,
         UNCHANGED <<connected, connectedOld, exited, notConnectedCounter, oneOK, cyc>>
  PROVE  DeadPollsCounted' /\ ExitNeedsTwoDeadPolls'
  BY DEF DeadPollsCounted, ExitNeedsTwoDeadPolls, Polled

(* A step of the PLC keeps the invariant: generations only grow.           *)
LEMMA PlcKeeps == ASSUME IInv, Plc PROVE IInv'
<1> USE SupervisionAssumption DEF SupervisionAssumption
<1>0. TypeOK /\ PlcTypeOK /\ SeenBehind
  BY DEF IInv, TypeOK
<1>1. PICK a \in Ports : LinkChange(a) \/ ConnectionDropped(a) \/ SymbolsChange(a)
  BY DEF Plc
<1>2. UNCHANGED <<pollVars, portVars, paramVars, published, driverVars,
                  bulkOK, cyc, sym, oneOK, lock, next, seenGen>>
  BY DEF Plc
<1>3. PlcTypeOK' /\ SeenBehind'
  <2>1. CASE LinkChange(a)
    BY <1>0, <1>2, <2>1 DEF LinkChange, PlcTypeOK, SeenBehind, Links
  <2>2. CASE ConnectionDropped(a)
    BY <1>0, <1>2, <2>2 DEF ConnectionDropped, PlcTypeOK, SeenBehind, Links, Gens
  <2>3. CASE SymbolsChange(a)
    BY <1>0, <1>2, <2>3 DEF SymbolsChange, PlcTypeOK, SeenBehind, Gens
  <2> QED
    BY <1>1, <2>1, <2>2, <2>3
<1>4. PortTypeOK' /\ ParamTypeOK' /\ DriverTypeOK'
  BY <1>0, <1>2 DEF TypeOK, PortTypeOK, ParamTypeOK, DriverTypeOK, pollVars, portVars,
                    paramVars, driverVars
<1>5. RefreshedMeansCurrent'
  BY <1>2 DEF IInv, RefreshedMeansCurrent, paramVars
<1>6. DeadPollsCounted' /\ ExitNeedsTwoDeadPolls'
  BY <1>2, CountingFrame DEF IInv, pollVars, driverVars
<1> QED
  BY <1>3, <1>4, <1>5, <1>6 DEF IInv, TypeOK

(* bulkReadThread only raises the flag of a parameter.                     *)
LEMMA BulkKeeps == ASSUME IInv, bulkReadThread PROVE IInv'
<1>0. TypeOK /\ ParamTypeOK /\ RefreshedMeansCurrent
  BY DEF IInv, TypeOK
<1>1. PICK p \in Params : pRefresh' = [pRefresh EXCEPT ![p] = TRUE]
  BY DEF bulkReadThread, BulkStatusBad
<1>2. UNCHANGED <<plcVars, pollVars, portVars, hSymbolicHandle, source, published,
                  driverVars, bulkOK, cyc, sym, oneOK, lock, next, seenGen>>
  BY DEF bulkReadThread
<1>3. ParamTypeOK' /\ RefreshedMeansCurrent'
  BY <1>0, <1>1, <1>2 DEF ParamTypeOK, RefreshedMeansCurrent
<1>4. PlcTypeOK' /\ PortTypeOK' /\ DriverTypeOK' /\ SeenBehind'
  BY <1>0, <1>2 DEF IInv, TypeOK, PlcTypeOK, PortTypeOK, DriverTypeOK, SeenBehind,
                    plcVars, pollVars, portVars, driverVars
<1>5. DeadPollsCounted' /\ ExitNeedsTwoDeadPolls'
  BY <1>2, CountingFrame DEF IInv, pollVars, driverVars
<1> QED
  BY <1>3, <1>4, <1>5 DEF IInv, TypeOK

(* invalidateParams raises flags and moves seenGen up to the generation.   *)
LEMMA InvalidateKeeps ==
  ASSUME IInv, NEW a \in Ports, invalidateParams(a),
         UNCHANGED <<plcVars, pollVars, portVars, hSymbolicHandle, source, published>>
  PROVE  /\ PlcTypeOK' /\ PortTypeOK' /\ ParamTypeOK' /\ bulkOK' \in BOOLEAN
         /\ SeenBehind' /\ RefreshedMeansCurrent'
<1> USE SupervisionAssumption DEF SupervisionAssumption
<1>0. TypeOK /\ PlcTypeOK /\ ParamTypeOK /\ RefreshedMeansCurrent /\ SeenBehind
  BY DEF IInv, TypeOK
<1>1. PlcTypeOK' /\ SeenBehind' /\ bulkOK' \in BOOLEAN
  <2>1. gen' = gen /\ seenGen' = [seenGen EXCEPT ![a] = gen[a]] /\ gen[a] \in Gens
    BY <1>0 DEF invalidateParams, PlcTypeOK, plcVars, Gens
  <2>2. SeenBehind'
    BY <1>0, <2>1 DEF PlcTypeOK, SeenBehind, Gens
  <2>3. PlcTypeOK'
    BY <1>0, <2>1 DEF PlcTypeOK, plcVars
  <2>4. bulkOK' \in BOOLEAN
    BY DEF invalidateParams
  <2> QED
    BY <2>2, <2>3, <2>4
<1>2. PortTypeOK'
  BY <1>0 DEF TypeOK, PortTypeOK, pollVars, portVars
<1>3. ParamTypeOK'
  BY <1>0 DEF invalidateParams, ParamTypeOK
<1>4. ASSUME NEW p \in Params, access[p] = "name", ~pRefresh'[p]
      PROVE  /\ hSymbolicHandle'[p] >= seenGen'[portOf[p]]
             /\ feed[p] # "poll" => source'[p] = hSymbolicHandle'[p]
  <2>1. ~pRefresh[p] /\ portOf[p] # a
    BY <1>0, <1>4 DEF invalidateParams, ParamTypeOK
  <2>2. seenGen'[portOf[p]] = seenGen[portOf[p]]
    BY <1>0, <2>1 DEF invalidateParams, PlcTypeOK
  <2> QED
    BY <1>0, <1>4, <2>1, <2>2 DEF RefreshedMeansCurrent
<1> QED
  BY <1>1, <1>2, <1>3, <1>4 DEF RefreshedMeansCurrent

(* The three parts of refreshParams, run by either thread.                 *)
LEMMA RefreshLockKeeps ==
  ASSUME IInv, NEW t \in Threads, RefreshLock(t) PROVE IInv'
<1> USE SupervisionAssumption DEF SupervisionAssumption
<1>1. /\ lock' = t /\ next' = 1
      /\ UNCHANGED <<plcVars, pollVars, portVars, paramVars, published, driverVars,
                      bulkOK, cyc, sym, oneOK, seenGen>>
  BY DEF RefreshLock
<1>2. TypeOK'
  BY <1>1 DEF IInv, TypeOK, PlcTypeOK, PortTypeOK, ParamTypeOK, DriverTypeOK,
              plcVars, pollVars, portVars, paramVars, driverVars
<1>3. SeenBehind' /\ RefreshedMeansCurrent'
  BY <1>1 DEF IInv, SeenBehind, RefreshedMeansCurrent, plcVars, paramVars
<1>4. DeadPollsCounted' /\ ExitNeedsTwoDeadPolls'
  BY <1>1, CountingFrame DEF IInv, pollVars, driverVars
<1> QED
  BY <1>2, <1>3, <1>4 DEF IInv

LEMMA RefreshParamKeeps ==
  ASSUME IInv, NEW t \in Threads, NEW a \in Ports, RefreshParam(t, a) PROVE IInv'
<1> USE SupervisionAssumption DEF SupervisionAssumption
<1>1. /\ next <= NParams /\ next' = next + 1
      /\ UNCHANGED <<plcVars, pollVars, portVars, published, driverVars,
                      bulkOK, cyc, sym, oneOK, lock, seenGen>>
  BY DEF RefreshParam
<1>2. next \in Params /\ next' \in 1..(NParams + 1)
  BY <1>1 DEF IInv, TypeOK, DriverTypeOK, Params
<1>3. ParamTypeOK' /\ RefreshedMeansCurrent'
  <2>1. CASE portOf[next] = a /\ pRefresh[next]
    BY <1>1, <1>2, <2>1, UpdateKeeps DEF RefreshParam, plcVars
  <2>2. CASE ~(portOf[next] = a /\ pRefresh[next])
    BY <1>1, <2>2 DEF RefreshParam, IInv, TypeOK, ParamTypeOK, RefreshedMeansCurrent, paramVars
  <2> QED
    BY <2>1, <2>2
<1>4. PlcTypeOK' /\ PortTypeOK' /\ SeenBehind'
  BY <1>1 DEF IInv, TypeOK, PlcTypeOK, PortTypeOK, SeenBehind, plcVars, pollVars, portVars
<1>5. DriverTypeOK'
  BY <1>1, <1>2 DEF IInv, TypeOK, DriverTypeOK, driverVars
<1>6. DeadPollsCounted' /\ ExitNeedsTwoDeadPolls'
  BY <1>1, CountingFrame DEF IInv, pollVars, driverVars
<1> QED
  BY <1>3, <1>4, <1>5, <1>6 DEF IInv, TypeOK

LEMMA RefreshDoneKeeps ==
  ASSUME IInv, NEW t \in Threads, NEW a \in Ports, RefreshDone(t, a)
  PROVE  /\ PlcTypeOK' /\ PortTypeOK' /\ ParamTypeOK'
         /\ SeenBehind' /\ RefreshedMeansCurrent'
<1> USE SupervisionAssumption DEF SupervisionAssumption
<1>0. TypeOK /\ PlcTypeOK /\ PortTypeOK
  BY DEF IInv, TypeOK
<1>1. UNCHANGED <<pollVars, paramVars, published, driverVars, oneOK, seenGen>>
  BY DEF RefreshDone
<1>2. CASE connectedAds /\ refreshNeeded[a]
  <2>1. PICK ok \in CallOutcomes(a),
             reg \in IF bCallbackNotifyValid[a] THEN adsDelSymbolsChangedCallback(a)
                     ELSE {symReg[a]} :
           /\ bCallbackNotifyValid' = [bCallbackNotifyValid EXCEPT ![a] = ok]
           /\ refreshNeeded' = [refreshNeeded EXCEPT ![a] = ~ok]
           /\ symReg' = [symReg EXCEPT ![a] = ok \/ reg]
           /\ symEvent' = [symEvent EXCEPT ![a] = @ \/ ok]
           /\ UNCHANGED <<link, gen>>
    BY <1>2 DEF RefreshDone, adsAddSymbolsChangedCallback
  <2>2. ok \in BOOLEAN /\ reg \in BOOLEAN
    BY <1>0, <2>1 DEF CallOutcomes, adsDelSymbolsChangedCallback, PlcTypeOK
  <2>3. PlcTypeOK' /\ gen' = gen
    BY <1>0, <1>1, <2>1, <2>2 DEF PlcTypeOK
  <2>4. PortTypeOK'
    BY <1>0, <1>1, <2>1, <2>2 DEF PortTypeOK, pollVars
  <2> QED
    BY <1>0, <1>1, <2>3, <2>4 DEF IInv, TypeOK, ParamTypeOK, SeenBehind, RefreshedMeansCurrent,
                                  paramVars
<1>3. CASE ~(connectedAds /\ refreshNeeded[a])
  BY <1>0, <1>1, <1>3 DEF RefreshDone, IInv, TypeOK, PlcTypeOK, PortTypeOK, ParamTypeOK,
                          SeenBehind, RefreshedMeansCurrent, plcVars, pollVars, portVars, paramVars
<1> QED
  BY <1>2, <1>3

(* adsSymbolsChangedCallback keeps the invariant. *)
LEMMA SymbolsKeeps == ASSUME IInv, adsSymbolsChangedCallback PROVE IInv'
<1> USE SupervisionAssumption DEF SupervisionAssumption
<1>0. TypeOK /\ PlcTypeOK /\ PortTypeOK /\ ParamTypeOK /\ DriverTypeOK /\ sym.port \in Ports
  BY DEF IInv, TypeOK, DriverTypeOK
<1>1. CASE SymbolsNotified
  <2>1. PICK a \in Ports : /\ sym' = [pc |-> "invalidate", port |-> a]
                           /\ symEvent' = [symEvent EXCEPT ![a] = FALSE]
    BY <1>1 DEF SymbolsNotified
  <2>2. UNCHANGED <<link, gen, symReg, pollVars, portVars, paramVars, published,
                    driverVars, bulkOK, cyc, oneOK, lock, next, seenGen>>
    BY <1>1 DEF SymbolsNotified
  <2>3. PlcTypeOK' /\ SeenBehind'
    BY <1>0, <2>1, <2>2 DEF IInv, PlcTypeOK, SeenBehind
  <2>4. PortTypeOK' /\ ParamTypeOK' /\ RefreshedMeansCurrent'
    BY <1>0, <2>2 DEF IInv, PortTypeOK, ParamTypeOK, RefreshedMeansCurrent, pollVars,
                      portVars, paramVars
  <2>5. DriverTypeOK'
    BY <1>0, <2>1, <2>2 DEF DriverTypeOK, SymPcs, driverVars
  <2>6. DeadPollsCounted' /\ ExitNeedsTwoDeadPolls'
    BY <2>2, CountingFrame DEF IInv, pollVars, driverVars
  <2> QED
    BY <2>3, <2>4, <2>5, <2>6 DEF IInv, TypeOK
<1>2. CASE SymbolsInvalidate
  <2>1. /\ invalidateParams(sym.port)
        /\ sym' = [sym EXCEPT !.pc = "refresh"]
        /\ UNCHANGED <<plcVars, pollVars, portVars, hSymbolicHandle, source, published,
                        driverVars, cyc, oneOK, lock, next>>
    BY <1>2 DEF SymbolsInvalidate
  <2>2. /\ PlcTypeOK' /\ PortTypeOK' /\ ParamTypeOK' /\ bulkOK' \in BOOLEAN
        /\ SeenBehind' /\ RefreshedMeansCurrent'
    BY <1>0, <2>1, InvalidateKeeps
  <2>3. DriverTypeOK'
    BY <1>0, <2>1, <2>2 DEF DriverTypeOK, SymPcs, driverVars
  <2>4. DeadPollsCounted' /\ ExitNeedsTwoDeadPolls'
    BY <2>1, CountingFrame DEF IInv, pollVars, driverVars
  <2> QED
    BY <2>2, <2>3, <2>4 DEF IInv, TypeOK
<1>3. CASE SymbolsRefresh
  <2>0. "symbols" \in Threads
    BY DEF Threads
  <2>1. CASE RefreshLock("symbols")
    BY <2>0, <2>1, RefreshLockKeeps
  <2>2. CASE RefreshParam("symbols", sym.port)
    BY <1>0, <2>0, <2>2, RefreshParamKeeps
  <2>3. CASE /\ RefreshDone("symbols", sym.port)
             /\ sym' = [sym EXCEPT !.pc = "idle"] /\ UNCHANGED cyc
    <3>1. /\ PlcTypeOK' /\ PortTypeOK' /\ ParamTypeOK'
          /\ SeenBehind' /\ RefreshedMeansCurrent'
      BY <1>0, <2>0, <2>3, RefreshDoneKeeps
    <3>2. /\ bulkOK' = TRUE /\ lock' = None /\ next' = 1
          /\ UNCHANGED <<pollVars, driverVars, oneOK>>
      BY <2>3 DEF RefreshDone
    <3>3. DriverTypeOK'
      BY <1>0, <2>3, <3>2 DEF DriverTypeOK, SymPcs, driverVars
    <3>4. DeadPollsCounted' /\ ExitNeedsTwoDeadPolls'
      BY <2>3, <3>2, CountingFrame DEF IInv, pollVars, driverVars
    <3> QED
      BY <3>1, <3>3, <3>4 DEF IInv, TypeOK
  <2> QED
    BY <1>3, <2>1, <2>2, <2>3 DEF SymbolsRefresh
<1> QED
  BY <1>1, <1>2, <1>3 DEF adsSymbolsChangedCallback

-----------------------------------------------------------------------------
(***************************************************************************)
(* The cyclic thread.                                                      *)
(***************************************************************************)

(* What a step that touches neither PLC nor parameters keeps. *)
LEMMA ParamFrame ==
  ASSUME IInv, UNCHANGED <<plcVars, paramVars, seenGen>>
  PROVE  PlcTypeOK' /\ ParamTypeOK' /\ SeenBehind' /\ RefreshedMeansCurrent'
  BY DEF IInv, TypeOK, PlcTypeOK, ParamTypeOK, SeenBehind, RefreshedMeansCurrent,
         plcVars, paramVars

(* Going on to the next port makes exactly the ports up to this one polled.*)
LEMMA NextPortPolled ==
  ASSUME NEW a \in Ports, cyc' = NextPort(a)
  PROVE  /\ cyc' \in [pc : CycPcs, port : Ports]
         /\ cyc'.pc # "sleep"
         /\ \A b \in Ports : Polled(b)' <=> b <= a
<1> USE SupervisionAssumption DEF SupervisionAssumption, Ports
<1>1. CASE a < NPorts
  <2>1. cyc' = [pc |-> "poll", port |-> a + 1]
    BY <1>1 DEF NextPort
  <2> QED
    BY <1>1, <2>1 DEF Polled, CycPcs
<1>2. CASE ~(a < NPorts)
  <2>1. cyc' = [pc |-> "publish", port |-> 1] /\ a = NPorts
    BY <1>2 DEF NextPort
  <2> QED
    BY <2>1 DEF Polled, CycPcs
<1> QED
  BY <1>1, <1>2

(* Moving on after the current port was handled keeps the counting.        *)
LEMMA MoveOnCounts ==
  ASSUME DeadPollsCounted, ExitNeedsTwoDeadPolls, DriverTypeOK,
         cyc.pc \in {"refresh", "lost", "mark"}, cyc' = NextPort(cyc.port),
         UNCHANGED <<connected, connectedOld, exited, notConnectedCounter, oneOK>>
  PROVE  DeadPollsCounted' /\ ExitNeedsTwoDeadPolls'
<1>1. cyc.port \in Ports
  BY DEF DriverTypeOK
<1>2. ~exited
  BY DEF DeadPollsCounted
<1>3. \A b \in Ports : Polled(b) <=> b <= cyc.port
  BY DEF Polled
<1>4. \A b \in Ports : Polled(b)' <=> Polled(b)
  BY <1>1, <1>3, NextPortPolled
<1> QED
  BY <1>2, <1>4 DEF DeadPollsCounted, ExitNeedsTwoDeadPolls

LEMMA CycWakeKeeps == ASSUME IInv, CycWake PROVE IInv'
<1> USE SupervisionAssumption DEF SupervisionAssumption
<1>1. /\ ~exited /\ cyc.pc = "sleep" /\ cyc' = [pc |-> "poll", port |-> 1]
      /\ UNCHANGED <<plcVars, pollVars, portVars, paramVars, published, driverVars,
                      bulkOK, sym, oneOK, lock, next, seenGen>>
  BY DEF CycWake
<1>2. PlcTypeOK' /\ ParamTypeOK' /\ SeenBehind' /\ RefreshedMeansCurrent'
  BY <1>1, ParamFrame
<1>3. PortTypeOK'
  BY <1>1 DEF IInv, TypeOK, PortTypeOK, pollVars, portVars
<1>4. 1 \in Ports
  BY DEF Ports
<1>5. DriverTypeOK'
  BY <1>1, <1>4 DEF IInv, TypeOK, DriverTypeOK, CycPcs, driverVars
<1>6. \A b \in Ports : ~Polled(b) /\ ~Polled(b)'
  BY <1>1 DEF Polled, Ports
<1>7. DeadPollsCounted' /\ ExitNeedsTwoDeadPolls'
  BY <1>1, <1>6 DEF IInv, DeadPollsCounted, ExitNeedsTwoDeadPolls, pollVars, driverVars
<1> QED
  BY <1>2, <1>3, <1>5, <1>7 DEF IInv, TypeOK

LEMMA CycPollKeeps == ASSUME IInv, CycPoll PROVE IInv'
<1> USE SupervisionAssumption DEF SupervisionAssumption
<1> DEFINE a == cyc.port
<1>0. TypeOK /\ PortTypeOK /\ DriverTypeOK /\ DeadPollsCounted /\ a \in Ports
  BY DEF IInv, TypeOK, DriverTypeOK
<1>1. PICK s \in adsReadState(a) :
         /\ adsStateOld' = [adsStateOld EXCEPT ![a] = adsState[a]]
         /\ adsState' = [adsState EXCEPT ![a] = s]
         /\ connectedOld' = [connectedOld EXCEPT ![a] = connected[a]]
         /\ connected' = [connected EXCEPT ![a] = (s = "run")]
         /\ oneOK' = (oneOK \/ s = "run")
         /\ cyc' = IF s = "run" /\ refreshNeeded[a] THEN [cyc EXCEPT !.pc = "refresh"]
                   ELSE IF connected[a] /\ ~(s = "run") THEN [cyc EXCEPT !.pc = "lost"]
                   ELSE NextPort(a)
  BY DEF CycPoll
<1>2. /\ cyc.pc = "poll"
      /\ UNCHANGED <<plcVars, portVars, paramVars, published, driverVars,
                      bulkOK, sym, lock, next, seenGen>>
  BY DEF CycPoll
<1>3. PlcTypeOK' /\ ParamTypeOK' /\ SeenBehind' /\ RefreshedMeansCurrent'
  BY <1>2, ParamFrame
<1>4. s \in AdsStates
  BY <1>1 DEF adsReadState, AdsStates
<1>5. PortTypeOK'
  BY <1>0, <1>1, <1>2, <1>4 DEF PortTypeOK, portVars
<1>6. /\ cyc' \in [pc : CycPcs, port : Ports] /\ cyc'.pc # "sleep"
      /\ \A b \in Ports : Polled(b)' <=> b <= a
  <2>1. CASE cyc' = NextPort(a)
    BY <1>0, <2>1, NextPortPolled
  <2>2. CASE cyc' = [cyc EXCEPT !.pc = "refresh"] \/ cyc' = [cyc EXCEPT !.pc = "lost"]
    <3>1. cyc'.pc \in {"refresh", "lost"} /\ cyc'.port = a
          /\ cyc' \in [pc : CycPcs, port : Ports]
      BY <1>0, <2>2 DEF DriverTypeOK, CycPcs
    <3> QED
      BY <3>1 DEF Polled
  <2> QED
    BY <1>1, <2>1, <2>2
<1>7. DriverTypeOK'
  BY <1>0, <1>1, <1>2, <1>6 DEF DriverTypeOK, driverVars
<1>8. ~exited
  BY <1>0, <1>2 DEF DeadPollsCounted
<1>9. \A b \in Ports : Polled(b) <=> b < a
  BY <1>2 DEF Polled
<1>10. ASSUME NEW b \in Ports, ~exited /\ notConnectedCounter = 1
       PROVE  IF Polled(b)' THEN ~connectedOld'[b] ELSE ~connected'[b]
  <2>1. IF b < a THEN ~connectedOld[b] ELSE ~connected[b]
    BY <1>0, <1>9, <1>10 DEF DeadPollsCounted
  <2>2. CASE b = a
    BY <1>0, <1>1, <1>6, <2>1, <2>2 DEF PortTypeOK, Ports
  <2>3. CASE b # a
    <3>1. connected'[b] = connected[b] /\ connectedOld'[b] = connectedOld[b]
      BY <1>0, <1>1, <2>3 DEF PortTypeOK
    <3>2. b < a <=> b <= a
      BY <1>0, <2>3 DEF Ports
    <3> QED
      BY <1>6, <2>1, <3>1, <3>2
  <2> QED
    BY <2>2, <2>3
<1>11. ASSUME NEW b \in Ports, ~oneOK', Polled(b)'
       PROVE  ~connected'[b]
  <2>1. b <= a /\ ~oneOK /\ s # "run"
    BY <1>0, <1>1, <1>6, <1>11 DEF DriverTypeOK
  <2>2. CASE b = a
    BY <1>0, <1>1, <2>1, <2>2 DEF PortTypeOK
  <2>3. CASE b # a
    <3>1. b < a
      BY <1>0, <2>1, <2>3 DEF Ports
    <3> QED
      BY <1>0, <1>1, <1>9, <2>1, <2>3, <3>1 DEF PortTypeOK, DeadPollsCounted
  <2> QED
    BY <2>2, <2>3
<1>12. DeadPollsCounted' /\ ExitNeedsTwoDeadPolls'
  BY <1>0, <1>2, <1>8, <1>10, <1>11 DEF DeadPollsCounted, ExitNeedsTwoDeadPolls, driverVars
<1> QED
  BY <1>3, <1>5, <1>7, <1>12 DEF IInv, TypeOK

LEMMA CycRefreshKeeps == ASSUME IInv, CycRefresh PROVE IInv'
<1> USE SupervisionAssumption DEF SupervisionAssumption
<1>0. DriverTypeOK /\ cyc.port \in Ports /\ "cyclic" \in Threads /\ cyc.pc = "refresh"
  BY DEF IInv, TypeOK, DriverTypeOK, Threads, CycRefresh
<1>1. CASE RefreshLock("cyclic")
  BY <1>0, <1>1, RefreshLockKeeps
<1>2. CASE RefreshParam("cyclic", cyc.port)
  BY <1>0, <1>2, RefreshParamKeeps
<1>3. CASE RefreshDone("cyclic", cyc.port) /\ cyc' = NextPort(cyc.port) /\ UNCHANGED sym
  <2>1. /\ PlcTypeOK' /\ PortTypeOK' /\ ParamTypeOK'
        /\ SeenBehind' /\ RefreshedMeansCurrent'
    BY <1>0, <1>3, RefreshDoneKeeps
  <2>2. /\ bulkOK' = TRUE /\ lock' = None /\ next' = 1
        /\ UNCHANGED <<pollVars, driverVars, oneOK>>
    BY <1>3 DEF RefreshDone
  <2>3. DriverTypeOK'
    BY <1>0, <1>3, <2>2, NextPortPolled DEF DriverTypeOK, driverVars
  <2>4. DeadPollsCounted' /\ ExitNeedsTwoDeadPolls'
    BY <1>0, <1>3, <2>2, MoveOnCounts DEF IInv, pollVars, driverVars
  <2> QED
    BY <2>1, <2>3, <2>4 DEF IInv, TypeOK
<1> QED
  BY <1>1, <1>2, <1>3 DEF CycRefresh

LEMMA CycInvalidateKeeps == ASSUME IInv, CycInvalidate PROVE IInv'
<1>0. DriverTypeOK /\ cyc.port \in Ports
  BY DEF IInv, TypeOK, DriverTypeOK
<1>1. /\ cyc.pc = "lost" /\ invalidateParams(cyc.port)
      /\ cyc' = [cyc EXCEPT !.pc = "mark"]
      /\ UNCHANGED <<plcVars, pollVars, portVars, hSymbolicHandle, source, published,
                      driverVars, sym, oneOK, lock, next>>
  BY DEF CycInvalidate
<1>2. /\ PlcTypeOK' /\ PortTypeOK' /\ ParamTypeOK' /\ bulkOK' \in BOOLEAN
      /\ SeenBehind' /\ RefreshedMeansCurrent'
  BY <1>0, <1>1, InvalidateKeeps
<1>3. DriverTypeOK'
  BY <1>0, <1>1, <1>2 DEF DriverTypeOK, CycPcs, driverVars
<1>4. cyc'.pc = "mark" /\ cyc'.port = cyc.port
  BY <1>0, <1>1 DEF DriverTypeOK
<1>5. ~exited /\ \A b \in Ports : Polled(b)' <=> Polled(b)
  BY <1>1, <1>4 DEF IInv, DeadPollsCounted, Polled
<1>6. DeadPollsCounted' /\ ExitNeedsTwoDeadPolls'
  BY <1>1, <1>5 DEF IInv, DeadPollsCounted, ExitNeedsTwoDeadPolls, pollVars, driverVars
<1> QED
  BY <1>2, <1>3, <1>6 DEF IInv, TypeOK

LEMMA CycMarkKeeps == ASSUME IInv, CycMark PROVE IInv'
<1>0. PortTypeOK /\ DriverTypeOK /\ cyc.port \in Ports
  BY DEF IInv, TypeOK, DriverTypeOK
<1>1. /\ cyc.pc = "mark" /\ cyc' = NextPort(cyc.port)
      /\ refreshNeeded' = [refreshNeeded EXCEPT ![cyc.port] = TRUE]
      /\ UNCHANGED <<plcVars, pollVars, bCallbackNotifyValid, paramVars, published,
                      driverVars, bulkOK, sym, oneOK, lock, next, seenGen>>
  BY DEF CycMark
<1>2. PlcTypeOK' /\ ParamTypeOK' /\ SeenBehind' /\ RefreshedMeansCurrent'
  BY <1>1, ParamFrame
<1>3. PortTypeOK'
  BY <1>0, <1>1 DEF PortTypeOK, pollVars
<1>4. DriverTypeOK'
  BY <1>0, <1>1, NextPortPolled DEF DriverTypeOK, driverVars
<1>5. DeadPollsCounted' /\ ExitNeedsTwoDeadPolls'
  BY <1>0, <1>1, MoveOnCounts DEF IInv, pollVars, driverVars
<1> QED
  BY <1>2, <1>3, <1>4, <1>5 DEF IInv, TypeOK

LEMMA CycPublishKeeps == ASSUME IInv, CycPublish PROVE IInv'
<1> USE SupervisionAssumption DEF SupervisionAssumption
<1>0. PortTypeOK /\ DriverTypeOK /\ cyc.port \in Ports
  BY DEF IInv, TypeOK, DriverTypeOK
<1>1. /\ cyc.pc = "publish"
      /\ \/ published' = [published EXCEPT ![cyc.port] = adsState[cyc.port]]
         \/ UNCHANGED published
      /\ cyc' = IF cyc.port < NPorts THEN [cyc EXCEPT !.port = cyc.port + 1]
                ELSE [pc |-> "end", port |-> 1]
      /\ UNCHANGED <<plcVars, pollVars, portVars, paramVars, driverVars,
                      bulkOK, sym, oneOK, lock, next, seenGen>>
  BY DEF CycPublish
<1>2. PlcTypeOK' /\ ParamTypeOK' /\ SeenBehind' /\ RefreshedMeansCurrent'
  BY <1>1, ParamFrame
<1>3. PortTypeOK'
  BY <1>0, <1>1 DEF PortTypeOK, pollVars, portVars
<1>4. cyc' \in [pc : CycPcs, port : Ports] /\ cyc'.pc \in {"publish", "end"}
  BY <1>0, <1>1 DEF DriverTypeOK, CycPcs, Ports
<1>5. DriverTypeOK'
  BY <1>0, <1>1, <1>4 DEF DriverTypeOK, driverVars
<1>6. ~exited /\ \A b \in Ports : Polled(b)' /\ Polled(b)
  BY <1>1, <1>4 DEF IInv, DeadPollsCounted, Polled
<1>7. DeadPollsCounted' /\ ExitNeedsTwoDeadPolls'
  BY <1>1, <1>6 DEF IInv, DeadPollsCounted, ExitNeedsTwoDeadPolls, pollVars, driverVars
<1> QED
  BY <1>2, <1>3, <1>5, <1>7 DEF IInv, TypeOK

(* The end of the cycle: with no success in this cycle every port is down, *)
(* and if the counter was 1 every port was down before it as well.         *)
LEMMA CycEndKeeps == ASSUME IInv, CycEnd PROVE IInv'
<1> USE SupervisionAssumption DEF SupervisionAssumption
<1> DEFINE counter == IF oneOK THEN 0 ELSE notConnectedCounter + 1
<1>0. PortTypeOK /\ DriverTypeOK /\ DeadPollsCounted
  BY DEF IInv, TypeOK
<1>1. /\ cyc.pc = "end" /\ notConnectedCounter' = counter
      /\ cyc' = [pc |-> "sleep", port |-> 1] /\ oneOK' = FALSE
      /\ UNCHANGED <<plcVars, pollVars, portVars, paramVars, published,
                      bulkOK, sym, lock, next, seenGen>>
  BY DEF CycEnd
<1>2. ~exited /\ notConnectedCounter \in {0, 1} /\ \A b \in Ports : Polled(b)
  BY <1>0, <1>1 DEF DeadPollsCounted, DriverTypeOK, Polled
<1>3. /\ counter > 1 => exited' = TRUE /\ connectedAds' = connectedAds
      /\ ~(counter > 1) => exited' = exited
      /\ connectedAds' \in BOOLEAN
  BY <1>0 DEF CycEnd, DriverTypeOK
<1>4. PlcTypeOK' /\ ParamTypeOK' /\ SeenBehind' /\ RefreshedMeansCurrent'
  BY <1>1, ParamFrame
<1>5. PortTypeOK'
  BY <1>0, <1>1 DEF PortTypeOK, pollVars, portVars
<1>6. counter \in 0..2 /\ 1 \in Ports
  BY <1>0, <1>2 DEF DriverTypeOK, Ports
<1>7. DriverTypeOK'
  BY <1>0, <1>1, <1>2, <1>3, <1>6 DEF DriverTypeOK, CycPcs
<1>8. counter >= 1 => \A b \in Ports : ~connected[b]
  BY <1>0, <1>2 DEF DeadPollsCounted, DriverTypeOK
<1>9. counter > 1 => \A b \in Ports : ~connectedOld[b]
  BY <1>0, <1>2 DEF DeadPollsCounted, DriverTypeOK
<1>10. \A b \in Ports : ~Polled(b)'
  BY <1>1 DEF Polled
<1>11. DeadPollsCounted'
  BY <1>1, <1>2, <1>3, <1>6, <1>8, <1>10 DEF DeadPollsCounted, pollVars
<1>12. ExitNeedsTwoDeadPolls'
  <2>1. exited' => counter > 1
    BY <1>2, <1>3
  <2>2. counter > 1 => \A b \in Ports : ~connected[b] /\ ~connectedOld[b]
    BY <1>6, <1>8, <1>9
  <2> QED
    BY <1>1, <2>1, <2>2 DEF ExitNeedsTwoDeadPolls, pollVars
<1> QED
  BY <1>4, <1>5, <1>7, <1>11, <1>12 DEF IInv, TypeOK

-----------------------------------------------------------------------------
(* The invariant is inductive. *)
LEMMA NextIInv == IInv /\ [Next]_vars => IInv'
<1> SUFFICES ASSUME IInv, [Next]_vars PROVE IInv'
  OBVIOUS
<1>1. CASE cyclicThread
  BY <1>1, CycWakeKeeps, CycPollKeeps, CycRefreshKeeps, CycInvalidateKeeps, CycMarkKeeps,
     CycPublishKeeps, CycEndKeeps DEF cyclicThread
<1>2. CASE adsSymbolsChangedCallback
  BY <1>2, SymbolsKeeps
<1>3. CASE bulkReadThread
  BY <1>3, BulkKeeps
<1>4. CASE Plc
  BY <1>4, PlcKeeps
<1>5. CASE Terminated \/ UNCHANGED vars
  <2>1. UNCHANGED vars
    BY <1>5 DEF Terminated
  <2>2. PlcTypeOK' /\ ParamTypeOK' /\ SeenBehind' /\ RefreshedMeansCurrent'
    BY <2>1, ParamFrame DEF vars
  <2>3. PortTypeOK' /\ DriverTypeOK'
    BY <2>1 DEF IInv, TypeOK, PortTypeOK, DriverTypeOK, vars, pollVars, portVars, driverVars
  <2>4. DeadPollsCounted' /\ ExitNeedsTwoDeadPolls'
    BY <2>1, CountingFrame DEF IInv, vars, pollVars, driverVars
  <2> QED
    BY <2>2, <2>3, <2>4 DEF IInv, TypeOK
<1> QED
  BY <1>1, <1>2, <1>3, <1>4, <1>5 DEF Next

(* The inductive invariant holds in every reachable state. *)
THEOREM SupervisionInvariant == Spec => []IInv
  BY InitIInv, NextIInv, PTL DEF Spec

(* Type correctness: the counter of dead cycles stops at 2, and the loop   *)
(* of refreshParams never leaves the parameter table.                      *)
THEOREM SupervisionTypeOK == Spec => []TypeOK
<1>1. IInv => TypeOK
  BY DEF IInv
<1> QED
  BY <1>1, SupervisionInvariant, PTL

(* refreshParams never certifies a handle looked up by name before the     *)
(* last invalidation of its port, however the two threads and the PLC      *)
(* interleave.                                                             *)
THEOREM RefreshedMeansCurrentHolds == Spec => []RefreshedMeansCurrent
<1>1. IInv => RefreshedMeansCurrent
  BY DEF IInv
<1> QED
  BY <1>1, SupervisionInvariant, PTL

(* cyclicThread calls exit(-1) only after two polls of every port failed.  *)
THEOREM ExitIsJustified == Spec => []ExitNeedsTwoDeadPolls
<1>1. IInv => ExitNeedsTwoDeadPolls
  BY DEF IInv
<1> QED
  BY <1>1, SupervisionInvariant, PTL

-----------------------------------------------------------------------------
(* Port a has been polled in this cycle and its turn in the second loop    *)
(* has not come: adsStateOld holds what its state parameter shows.         *)
Unpublished(a) == Polled(a) /\ cyc.pc # "end" /\ ~(cyc.pc = "publish" /\ a < cyc.port)

Published(a) == published[a] = IF Unpublished(a) THEN adsStateOld[a] ELSE adsState[a]

StatesPublished == \A a \in Ports : HasStateParam(a) => Published(a)

(* After NextPort exactly the ports up to this one are unpublished. *)
LEMMA NextPortUnpublished ==
  ASSUME NEW a \in Ports, cyc' = NextPort(a), NEW b \in Ports
  PROVE  Unpublished(b)' <=> b <= a
<1> USE SupervisionAssumption DEF SupervisionAssumption, Ports
<1>1. Polled(b)' <=> b <= a
  BY NextPortPolled
<1>2. cyc'.pc = "poll" \/ (cyc'.pc = "publish" /\ cyc'.port = 1)
  BY DEF NextPort
<1> QED
  BY <1>1, <1>2 DEF Unpublished

(* A step of another thread, or of refreshParams, leaves what is shown. *)
LEMMA PublishedFrame ==
  ASSUME NEW b \in Ports, Published(b), UNCHANGED <<published, adsState, adsStateOld, cyc>>
  PROVE  Published(b)'
  BY DEF Published, Unpublished, Polled

LEMMA PollPublished ==
  ASSUME TypeOK, CycPoll, NEW b \in Ports, Published(b)
  PROVE  Published(b)'
<1> USE SupervisionAssumption DEF SupervisionAssumption
<1> DEFINE a == cyc.port
<1>1. PortTypeOK /\ DriverTypeOK /\ a \in Ports
  BY DEF TypeOK, DriverTypeOK
<1>2. /\ cyc.pc = "poll" /\ published' = published
      /\ adsStateOld' = [adsStateOld EXCEPT ![a] = adsState[a]]
      /\ \E s \in adsReadState(a) : adsState' = [adsState EXCEPT ![a] = s]
      /\ \/ cyc' = NextPort(a)
         \/ cyc' = [cyc EXCEPT !.pc = "refresh"]
         \/ cyc' = [cyc EXCEPT !.pc = "lost"]
  BY DEF CycPoll
<1>3. Unpublished(b) <=> b < a
  BY <1>2 DEF Unpublished, Polled
<1>4. Unpublished(b)' <=> b <= a
  <2>1. CASE cyc' = NextPort(a)
    BY <1>1, <2>1, NextPortUnpublished
  <2>2. CASE cyc' # NextPort(a)
    <3>1. cyc'.pc \in {"refresh", "lost"} /\ cyc'.port = a
      BY <1>1, <1>2, <2>2 DEF DriverTypeOK
    <3> QED
      BY <3>1 DEF Unpublished, Polled
  <2> QED
    BY <2>1, <2>2
<1>5. CASE b = a
  <2>1. ~(b < a) /\ b <= a /\ adsStateOld'[b] = adsState[b]
    BY <1>1, <1>2, <1>5 DEF PortTypeOK, Ports
  <2> QED
    BY <1>2, <1>3, <1>4, <2>1 DEF Published
<1>6. CASE b # a
  <2>1. adsStateOld'[b] = adsStateOld[b] /\ adsState'[b] = adsState[b]
    BY <1>1, <1>2, <1>6 DEF PortTypeOK
  <2>2. b < a <=> b <= a
    BY <1>1, <1>6 DEF Ports
  <2> QED
    BY <1>2, <1>3, <1>4, <2>1, <2>2 DEF Published
<1> QED
  BY <1>5, <1>6

(* The second loop: the port whose turn it is, if it has a state parameter,*)
(* is brought up to date; the others are as they were.                     *)
LEMMA PublishPublished ==
  ASSUME TypeOK, CycPublish, NEW b \in Ports, HasStateParam(b), Published(b)
  PROVE  Published(b)'
<1> USE SupervisionAssumption DEF SupervisionAssumption
<1> DEFINE a == cyc.port
<1>1. PortTypeOK /\ DriverTypeOK /\ a \in Ports
  BY DEF TypeOK, DriverTypeOK
<1>2. /\ cyc.pc = "publish" /\ UNCHANGED <<adsState, adsStateOld>>
      /\ IF adsStateOld[a] # adsState[a] /\ HasStateParam(a)
         THEN published' = [published EXCEPT ![a] = adsState[a]]
         ELSE published' = published
      /\ cyc' = IF a < NPorts THEN [cyc EXCEPT !.port = a + 1] ELSE [pc |-> "end", port |-> 1]
  BY DEF CycPublish, HasStateParam, pollVars
<1>3. Unpublished(b) <=> a <= b
  <2>1. ~(b < a) <=> a <= b
    BY <1>1 DEF Ports
  <2> QED
    BY <1>2, <2>1 DEF Unpublished, Polled
<1>4. Unpublished(b)' <=> a < b
  <2>1. CASE a < NPorts
    <3>1. cyc'.pc = "publish" /\ cyc'.port = a + 1
      BY <1>1, <1>2, <2>1 DEF DriverTypeOK
    <3>2. ~(b < a + 1) <=> a < b
      BY <1>1 DEF Ports
    <3> QED
      BY <3>1, <3>2 DEF Unpublished, Polled
  <2>2. CASE ~(a < NPorts)
    <3>1. cyc'.pc = "end" /\ ~(a < b)
      BY <1>1, <1>2, <2>2 DEF Ports
    <3> QED
      BY <3>1 DEF Unpublished
  <2> QED
    BY <2>1, <2>2
<1>5. CASE b = a
  <2>1. a <= b /\ ~(a < b)
    BY <1>1, <1>5 DEF Ports
  <2>2. published[b] = adsStateOld[b]
    BY <1>3, <2>1 DEF Published
  <2>3. published'[b] = adsState[b]
    BY <1>1, <1>2, <1>5, <2>2 DEF PortTypeOK
  <2> QED
    BY <1>2, <1>4, <2>1, <2>3 DEF Published
<1>6. CASE b # a
  <2>1. a <= b <=> a < b
    BY <1>1, <1>6 DEF Ports
  <2>2. published'[b] = published[b]
    BY <1>1, <1>2, <1>6 DEF PortTypeOK
  <2> QED
    BY <1>2, <1>3, <1>4, <2>1, <2>2 DEF Published
<1> QED
  BY <1>5, <1>6

(* Moving on to the next port, or within the handling of one, keeps what   *)
(* is unpublished.                                                         *)
LEMMA MoveOnPublished ==
  ASSUME TypeOK, cyc.pc \in {"refresh", "lost", "mark"},
         cyc' = NextPort(cyc.port) \/ cyc' = [cyc EXCEPT !.pc = "mark"],
         UNCHANGED <<published, adsState, adsStateOld>>, NEW b \in Ports, Published(b)
  PROVE  Published(b)'
<1>1. cyc \in [pc : CycPcs, port : Ports] /\ cyc.port \in Ports
  BY DEF TypeOK, DriverTypeOK
<1>2. Unpublished(b) <=> b <= cyc.port
  BY DEF Unpublished, Polled
<1>3. Unpublished(b)' <=> b <= cyc.port
  <2>1. CASE cyc' = NextPort(cyc.port)
    BY <1>1, <2>1, NextPortUnpublished
  <2>2. CASE cyc' = [cyc EXCEPT !.pc = "mark"]
    <3>1. cyc'.pc = "mark" /\ cyc'.port = cyc.port
      BY <1>1, <2>2
    <3> QED
      BY <3>1 DEF Unpublished, Polled
  <2> QED
    BY <2>1, <2>2
<1> QED
  BY <1>2, <1>3 DEF Published

LEMMA NextStatesPublished == TypeOK /\ StatesPublished /\ [Next]_vars => StatesPublished'
<1> SUFFICES ASSUME TypeOK, StatesPublished, [Next]_vars, NEW b \in Ports, HasStateParam(b)
             PROVE  Published(b)'
  BY DEF StatesPublished, HasStateParam
<1>1. Published(b)
  BY DEF StatesPublished
<1>2. ASSUME UNCHANGED <<published, pollVars, cyc>> PROVE Published(b)'
  BY <1>1, <1>2, PublishedFrame DEF pollVars
<1>3. CASE CycWake
  <2>1. /\ cyc.pc = "sleep" /\ cyc'.pc = "poll" /\ cyc'.port = 1
        /\ UNCHANGED <<published, adsState, adsStateOld>>
    BY <1>3 DEF CycWake, pollVars
  <2>2. ~Unpublished(b) /\ ~Unpublished(b)'
    BY <2>1 DEF Unpublished, Polled, Ports
  <2> QED
    BY <1>1, <2>1, <2>2 DEF Published
<1>4. CASE CycPoll
  BY <1>1, <1>4, PollPublished
<1>5. CASE CycRefresh
  <2>1. UNCHANGED <<published, pollVars>> /\ cyc.pc = "refresh"
    BY <1>5 DEF CycRefresh, RefreshLock, RefreshParam, RefreshDone
  <2>2. cyc' = cyc \/ cyc' = NextPort(cyc.port)
    BY <1>5 DEF CycRefresh, RefreshLock, RefreshParam
  <2> QED
    BY <1>1, <1>2, <2>1, <2>2, MoveOnPublished DEF pollVars
<1>6. CASE CycInvalidate
  BY <1>1, <1>6, MoveOnPublished DEF CycInvalidate, pollVars
<1>7. CASE CycMark
  BY <1>1, <1>7, MoveOnPublished DEF CycMark, pollVars
<1>8. CASE CycPublish
  BY <1>1, <1>8, PublishPublished
<1>9. CASE CycEnd
  <2>1. /\ cyc.pc = "end" /\ cyc'.pc = "sleep"
        /\ UNCHANGED <<published, adsState, adsStateOld>>
    BY <1>9 DEF CycEnd, pollVars
  <2>2. ~Unpublished(b) /\ ~Unpublished(b)'
    BY <2>1 DEF Unpublished, Polled
  <2> QED
    BY <1>1, <2>1, <2>2 DEF Published
<1>10. CASE adsSymbolsChangedCallback
  <2>1. UNCHANGED <<published, pollVars, cyc>>
    BY <1>10 DEF adsSymbolsChangedCallback, SymbolsNotified, SymbolsInvalidate, SymbolsRefresh,
       RefreshLock, RefreshParam, RefreshDone
  <2> QED
    BY <1>2, <2>1
<1>11. CASE bulkReadThread \/ Plc \/ Terminated \/ UNCHANGED vars
  BY <1>2, <1>11 DEF bulkReadThread, Plc, Terminated, vars
<1> QED
  BY <1>3, <1>4, <1>5, <1>6, <1>7, <1>8, <1>9, <1>10, <1>11 DEF Next, cyclicThread

(* Between two cycles the .AMSPORTSTATE. parameter that port->paramInfo    *)
(* names shows the ADS state of the last poll, for any number of ports and *)
(* however long refreshes hold the lock.                                   *)
THEOREM StatesArePublished == Spec => []PublishedStateCurrent
<1>1. Init => StatesPublished
  BY DEF Init, StatesPublished, Published, Unpublished, Polled
<1>2. TypeOK /\ StatesPublished /\ [Next]_vars => StatesPublished'
  BY NextStatesPublished
<1>3. StatesPublished => PublishedStateCurrent
  <2> SUFFICES ASSUME StatesPublished, cyc.pc = "sleep", NEW a \in Ports, HasStateParam(a)
               PROVE  published[a] = adsState[a]
    BY DEF PublishedStateCurrent
  <2>1. ~Unpublished(a)
    BY DEF Unpublished, Polled
  <2> QED
    BY <2>1 DEF StatesPublished, Published
<1> QED
  BY <1>1, <1>2, <1>3, SupervisionTypeOK, PTL DEF Spec
=============================================================================
