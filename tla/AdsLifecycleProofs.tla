------------------------- MODULE AdsLifecycleProofs -------------------------
(***************************************************************************)
(* Proofs about AdsLifecycle, for any number of parameters and any set of  *)
(* device counts.                                                          *)
(***************************************************************************)
EXTENDS AdsLifecycle, TLAPS

(* Every step keeps the types. *)
LEMMA TypeStep == TypeOK /\ [Next]_vars => TypeOK'
<1> USE LifecycleAssumption
<1> SUFFICES ASSUME TypeOK, [Next]_vars PROVE TypeOK'
    OBVIOUS
<1> USE DEF TypeOK, Workers
<1>1. CASE CreateThreads
      BY <1>1 DEF CreateThreads, ctor, dtor, Refusable
<1>2. CASE connect \/ asynConnect
  <2>1. PICK no, ok : Connects(no, ok)
        BY <1>2 DEF connect, asynConnect
  <2>2. routes' \subseteq {"remote", "master"}
        BY <2>1 DEF Connects, AfterAdd, adsAddEthercatRoute
  <2>3. /\ routeAdded' \in {"yes", "no"} /\ ethercatRouteAdded' \in {"yes", "no"}
        /\ connectedAds' \in {"yes", "no"}
        BY <2>1 DEF Connects, FlagsAfter, adsAddEthercatRoute
  <2>4. main' \in {main, "connect", "state"} /\ UNCHANGED <<thread, master, dtor, allow, world>>
        BY <1>2 DEF connect, asynConnect
  <2> QED BY <2>2, <2>3, <2>4 DEF dtor, world
<1>3. CASE readState
      BY <1>3 DEF readState, ctor, dtor, world
<1>4. CASE established
  <2> USE <1>4 DEF established, resolveEthercatMasterAmsNetId, adsAddEthercatRoute, dtor, Refusable
  <2>1. master' \in {"unresolved", "override", "none", "derived", "discovered"}
        OBVIOUS
  <2>2. routes' \subseteq {"remote", "master"} /\ ethercatRouteAdded' \in {"yes", "no"}
        OBVIOUS
  <2> QED BY <2>1, <2>2
<1>5. CASE getEpicsState
      BY <1>5 DEF getEpicsState, ctor, dtor, world
<1>6. CASE CircularWait
      BY <1>6 DEF CircularWait, ctor, dtor, world
<1>7. ASSUME NEW w \in Workers, WorkerStart(w) \/ WorkerDone(w) \/ WorkerExit(w) PROVE TypeOK'
  <2>1. CASE WorkerStart(w)
        BY <2>1 DEF WorkerStart, ctor, dtor, world
  <2>2. CASE WorkerDone(w)
        BY <2>2 DEF WorkerDone, dtor, world
  <2>3. CASE WorkerExit(w)
        BY <2>3 DEF WorkerExit, ctor, dtor, world
  <2> QED BY <1>7, <2>1, <2>2, <2>3
<1>8. CASE Destroy
      BY <1>8 DEF Destroy, ctor, world
<1>9. ASSUME NEW w \in Workers, Join(w) PROVE TypeOK'
      BY <1>9 DEF Join, ctor, world
<1>10. CASE Joined
      BY <1>10 DEF Joined, ctor, dtor, world
<1>11. CASE FreeParam
      BY <1>11 DEF FreeParam, ctor, world
<1>12. CASE ClosePort
      BY <1>12 DEF ClosePort, ctor, world
<1>13. CASE PlcChange
      BY <1>13 DEF PlcChange, ctor, dtor
<1>14. CASE AdsLibChange
      BY <1>14 DEF AdsLibChange, ctor, dtor
<1>15. CASE UNCHANGED vars
      BY <1>15 DEF vars, ctor, dtor, world
<1> QED BY <1>1, <1>2, <1>3, <1>4, <1>5, <1>6, <1>7, <1>8, <1>9, <1>10, <1>11, <1>12,
           <1>13, <1>14, <1>15 DEF Next, Constructor, Destructor, Terminated

LEMMA TypeInit == Init => TypeOK
BY LifecycleAssumption DEF Init, TypeOK

(* The variables keep their types, whatever the PLC and AdsLib do. *)
THEOREM TypeCorrect == Spec => []TypeOK
<1>1. Init => TypeOK
      BY TypeInit
<1>2. TypeOK /\ [Next]_vars => TypeOK'
      BY TypeStep
<1> QED BY <1>1, <1>2, PTL DEF Spec

-----------------------------------------------------------------------------
(* Where the destructor is, and what it has joined.  A worker that has     *)
(* been joined does not run again; nothing is joined or freed before the   *)
(* destructor gets there.                                                  *)
Stages ==
    /\ \A w \in joined : thread[w] \in {"none", "exited"}
    /\ main \in {"free", "closed"} => joined = Workers
    /\ main \notin {"join", "free", "closed"} => joined = {}
    /\ main \notin {"free", "closed"} => freed = 0

LEMMA StagesStep == TypeOK /\ Stages /\ [Next]_vars => Stages'
<1> SUFFICES ASSUME TypeOK, Stages, [Next]_vars PROVE Stages'
    OBVIOUS
<1> USE DEF Stages
<1>1. CASE CreateThreads
      BY <1>1 DEF CreateThreads, dtor
<1>2. CASE connect \/ asynConnect
      BY <1>2 DEF connect, asynConnect, dtor
<1>3. CASE readState
      BY <1>3 DEF readState, dtor
<1>4. CASE established
      BY <1>4 DEF established, dtor
<1>5. CASE getEpicsState
      BY <1>5 DEF getEpicsState, dtor
<1>6. CASE CircularWait
  <2>1. /\ UNCHANGED <<main, joined, freed>> /\ thread["cyclic"] = "busy" /\ thread["bulk"] = "busy"
        /\ thread' = [thread EXCEPT !["cyclic"] = "stuck", !["bulk"] = "stuck"]
        BY <1>6 DEF CircularWait, dtor
  <2>2. "cyclic" \notin joined /\ "bulk" \notin joined
        BY <2>1
  <2>3. \A v \in joined : thread'[v] \in {"none", "exited"}
        BY <2>1, <2>2 DEF TypeOK
  <2> QED BY <2>1, <2>3
<1>7. ASSUME NEW w \in Workers, WorkerStart(w) \/ WorkerDone(w) \/ WorkerExit(w) PROVE Stages'
  <2>1. w \notin joined \/ thread[w] = "exited"
        BY <1>7 DEF WorkerStart, WorkerDone, WorkerExit
  <2>2. UNCHANGED <<main, joined, freed>>
        BY <1>7 DEF WorkerStart, WorkerDone, WorkerExit, dtor
  <2>3. \A v \in joined : thread'[v] \in {"none", "exited"}
        BY <1>7, <2>1 DEF WorkerStart, WorkerDone, WorkerExit, TypeOK
  <2> QED BY <2>2, <2>3
<1>8. CASE Destroy
      BY <1>8 DEF Destroy, Running
<1>9. ASSUME NEW w \in Workers, Join(w) PROVE Stages'
      BY <1>9 DEF Join
<1>10. CASE Joined
      BY <1>10 DEF Joined, NotJoined, dtor, TypeOK
<1>11. CASE FreeParam
      BY <1>11 DEF FreeParam
<1>12. CASE ClosePort
      BY <1>12 DEF ClosePort
<1>13. CASE PlcChange
      BY <1>13 DEF PlcChange, dtor
<1>14. CASE AdsLibChange
      BY <1>14 DEF AdsLibChange, dtor
<1>15. CASE UNCHANGED vars
      BY <1>15 DEF vars, dtor
<1> QED BY <1>1, <1>2, <1>3, <1>4, <1>5, <1>6, <1>7, <1>8, <1>9, <1>10, <1>11, <1>12,
           <1>13, <1>14, <1>15 DEF Next, Constructor, Destructor, Terminated

LEMMA StagesWorkers == TypeOK /\ Stages => WorkersUseLive
BY DEF Stages, WorkersUseLive

LEMMA StagesCorrect == Spec => [](TypeOK /\ Stages)
<1>1. Init => TypeOK /\ Stages
      BY TypeInit DEF Init, Stages
<1>2. TypeOK /\ Stages /\ [Next]_vars => (TypeOK /\ Stages)'
      BY TypeStep, StagesStep
<1> QED BY <1>1, <1>2, PTL DEF Spec

(* Nothing that a worker's pass uses is freed under it: the joins of the   *)
(* destructor come before the frees, and a joined worker does not come     *)
(* back.                                                                   *)
THEOREM WorkersSafe == Spec => []WorkersUseLive
BY StagesCorrect, StagesWorkers, PTL

-----------------------------------------------------------------------------
LEMMA MasterStep == TypeOK /\ MasterTrue /\ [Next]_vars => MasterTrue'
<1> SUFFICES ASSUME TypeOK, MasterTrue, [Next]_vars PROVE MasterTrue'
    OBVIOUS
<1>1. CASE established
      BY <1>1 DEF MasterTrue, established, resolveEthercatMasterAmsNetId
<1>2. CASE ~established
  <2>1. UNCHANGED <<master, override, devices>>
        BY <1>2 DEF Next, Constructor, Destructor, CreateThreads, connect, asynConnect, readState,
                    getEpicsState, CircularWait, WorkerStart, WorkerDone, WorkerExit, Destroy, Join, Joined, FreeParam,
                    ClosePort, PlcChange, AdsLibChange, Terminated, vars, ctor, dtor, world
  <2> QED BY <2>1 DEF MasterTrue
<1> QED BY <1>1, <1>2

(* What is known of the EtherCAT master is true: an override stays, and    *)
(* access is refused for good only if the project has no device.           *)
THEOREM MasterCorrect == Spec => []MasterTrue
<1>1. Init => TypeOK /\ MasterTrue
      BY TypeInit DEF Init, MasterTrue
<1>2. TypeOK /\ MasterTrue /\ [Next]_vars => (TypeOK /\ MasterTrue)'
      BY TypeStep, MasterStep
<1> QED BY <1>1, <1>2, PTL DEF Spec

-----------------------------------------------------------------------------
(* Only connect and established change the routes and their flags.         *)
LEMMA RoutesElsewhere ==
    ASSUME [Next]_vars, ~connect, ~asynConnect, ~established
    PROVE  UNCHANGED <<routes, routeAdded, ethercatRouteAdded, foreign>>
BY DEF Next, Constructor, Destructor, CreateThreads, readState, getEpicsState,
       CircularWait, WorkerStart, WorkerDone, WorkerExit, Destroy, Join, Joined, FreeParam,
       ClosePort, PlcChange, AdsLibChange, Terminated, vars, ctor, dtor, world

(* The routes and flags that adsAddEthercatRoute is given agree; so do the *)
(* ones it leaves.                                                         *)
Agree(r, a, e) ==
    /\ a = "yes" => "remote" \in r
    /\ "remote" \in r => a = "yes" \/ "remote" \in foreign
    /\ e = "yes" => "master" \in r /\ "master" \notin foreign
    /\ "master" \in r <=> e = "yes" \/ "master" \in foreign

LEMMA AddKeeps ==
    ASSUME TypeOK, NEW no, NEW m, NEW r, NEW a, NEW e, Agree(r, a, e),
           adsAddEthercatRoute(no, m, r, e)
    PROVE  Agree(routes', a, ethercatRouteAdded')
BY DEF TypeOK, Agree, adsAddEthercatRoute

LEMMA RoutesStep == TypeOK /\ RoutesTrue /\ [Next]_vars => RoutesTrue'
<1> SUFFICES ASSUME TypeOK, RoutesTrue, [Next]_vars PROVE RoutesTrue'
    OBVIOUS
<1>1. CASE connect \/ asynConnect
  <2>1. PICK no, ok : Connects(no, ok)
        BY <1>1 DEF connect, asynConnect
  <2>2. Agree(AfterAdd(no), routeAdded', FlagsAfter(no))
        BY <2>1 DEF Connects, RoutesTrue, TypeOK, Agree, AfterAdd, FlagsAfter, AddFails
  <2>3. Agree(routes', routeAdded', ethercatRouteAdded')
    <3>1. CASE adsAddEthercatRoute(no, master, AfterAdd(no), FlagsAfter(no))
          BY <2>2, <3>1, AddKeeps
    <3>2. CASE routes' = AfterAdd(no) /\ ethercatRouteAdded' = FlagsAfter(no)
          BY <2>2, <3>2
    <3> QED BY <2>1, <3>1, <3>2 DEF Connects
  <2>4. foreign' = foreign
        BY <1>1 DEF connect, asynConnect, world
  <2> QED BY <2>3, <2>4 DEF Agree, RoutesTrue
<1>2. CASE established
  <2>1. Agree(routes, routeAdded, ethercatRouteAdded)
        BY DEF RoutesTrue, Agree
  <2>2. Agree(routes', routeAdded, ethercatRouteAdded')
    <3>1. CASE adsAddEthercatRoute(refused, master', routes, ethercatRouteAdded)
          BY <2>1, <3>1, AddKeeps
    <3>2. CASE UNCHANGED <<routes, ethercatRouteAdded>>
          BY <2>1, <3>2
    <3> QED BY <1>2, <3>1, <3>2 DEF established
  <2>3. foreign' = foreign /\ routeAdded' = routeAdded
        BY <1>2 DEF established
  <2> QED BY <2>2, <2>3 DEF Agree, RoutesTrue
<1>3. CASE ~connect /\ ~asynConnect /\ ~established
      BY <1>3, RoutesElsewhere DEF RoutesTrue
<1> QED BY <1>1, <1>2, <1>3

(* The driver's flags agree with AdsLib's routes and no route is left      *)
(* without an owner, whichever thread connects and whatever is refused;    *)
(* another driver's route to the EtherCAT master survives.                 *)
THEOREM RoutesCorrect == Spec => []RoutesTrue
<1>1. Init => TypeOK /\ RoutesTrue
      BY TypeInit DEF Init, RoutesTrue
<1>2. TypeOK /\ RoutesTrue /\ [Next]_vars => (TypeOK /\ RoutesTrue)'
      BY TypeStep, RoutesStep
<1> QED BY <1>1, <1>2, PTL DEF Spec

-----------------------------------------------------------------------------
(* The route to the PLC exists before the constructor can return, and is   *)
(* the driver's own: the first connect has added it or deleted it.         *)
Ready ==
    /\ main = "state" /\ "remote" \in routes => routeAdded = "yes"
    /\ main \in {"resolve", "up"} => routeAdded = "yes" /\ "remote" \in routes
    /\ main = "up" => master # "unresolved"

LEMMA ConnectsReady ==
    ASSUME TypeOK, NEW no, NEW ok, Connects(no, ok)
    PROVE  /\ "remote" \in routes' => routeAdded' = "yes"
           /\ routeAdded = "yes" => routeAdded' = "yes" /\ "remote" \in routes'
<1>1. "remote" \in routes' <=> "remote" \in AfterAdd(no)
      BY DEF Connects, adsAddEthercatRoute
<1>2. "remote" \in AfterAdd(no) <=> ~AddFails(no)
      BY DEF AfterAdd
<1> QED BY <1>1, <1>2 DEF Connects, AddFails

LEMMA ReadyStep == TypeOK /\ Ready /\ [Next]_vars => Ready'
<1> SUFFICES ASSUME TypeOK, Ready, [Next]_vars PROVE Ready'
    OBVIOUS
<1> USE DEF Ready
<1>1. CASE connect \/ asynConnect
  <2>1. PICK no, ok : Connects(no, ok)
        BY <1>1 DEF connect, asynConnect
  <2>2. main' = main \/ main' \in {"connect", "state"}
        BY <1>1 DEF connect, asynConnect
  <2>3. master' = master
        BY <1>1 DEF connect, asynConnect
  <2> QED BY <2>1, <2>2, <2>3, ConnectsReady
<1>2. CASE established
  <2>1. "remote" \in routes' /\ routeAdded' = "yes"
        BY <1>2 DEF established, adsAddEthercatRoute
  <2>2. master' # "unresolved"
        BY <1>2 DEF established, resolveEthercatMasterAmsNetId
  <2> QED BY <1>2, <2>1, <2>2 DEF established
<1>3. CASE readState
      BY <1>3 DEF readState, ctor
<1>4. CASE CreateThreads
      BY <1>4 DEF CreateThreads, ctor
<1>5. CASE getEpicsState \/ CircularWait \/ PlcChange \/ AdsLibChange
      BY <1>5 DEF getEpicsState, CircularWait, PlcChange, AdsLibChange, ctor
<1>6. CASE \E w \in Workers : WorkerStart(w) \/ WorkerDone(w) \/ WorkerExit(w)
      BY <1>6 DEF WorkerStart, WorkerDone, WorkerExit, ctor
<1>7. CASE Destroy \/ Destructor
      BY <1>7 DEF Destroy, Destructor, Join, Joined, FreeParam, ClosePort, ctor
<1>8. CASE UNCHANGED vars
      BY <1>8 DEF vars, ctor
<1> QED BY <1>1, <1>2, <1>3, <1>4, <1>5, <1>6, <1>7, <1>8 DEF Next, Constructor, Terminated

(* A constructor that has connected leaves nothing to be resolved later,   *)
(* and its route to the PLC stays.                                         *)
THEOREM ReadyCorrect == Spec => []ReadyWhenUp
<1>1. Init => TypeOK /\ Ready
      BY TypeInit DEF Init, Ready
<1>2. TypeOK /\ Ready /\ [Next]_vars => (TypeOK /\ Ready)'
      BY TypeStep, ReadyStep
<1>3. Ready => ReadyWhenUp
      BY DEF Ready, ReadyWhenUp
<1> QED BY <1>1, <1>2, <1>3, PTL DEF Spec

-----------------------------------------------------------------------------
(* The way to the end of the destructor: what each worker has to do until  *)
(* it has left its loop, and what the destructor itself has to do.         *)
Pace(w) == CASE thread[w] = "busy" -> 3
             [] thread[w] = "stuck" -> 2
             [] thread[w] = "idle" -> 1
             [] OTHER -> 0
Ahead   == CASE main = "join" -> 2
             [] main = "free" -> 1
             [] OTHER -> 0

(* Nothing is undone, and something is done. *)
TeardownNearer ==
    /\ \A w \in Workers : Pace(w)' <= Pace(w)
    /\ joined \subseteq joined' /\ freed <= freed' /\ Ahead' <= Ahead
    /\ \/ \E w \in Workers : Pace(w)' < Pace(w)
       \/ joined' # joined \/ freed < freed' \/ Ahead' < Ahead

(* Once stopThreads_ is set, every step of the workers and the destructor  *)
(* brings the end nearer: no worker starts another pass, none is joined    *)
(* twice and no parameter is freed twice.                                  *)
TeardownShrinks == stopThreads = "yes" => TeardownNearer \/ asynConnect

(* stopThreads_ is set exactly in the destructor. *)
Stopping == stopThreads = "yes" <=> main \in {"join", "free", "closed"}

LEMMA StoppingStep == Stopping /\ [Next]_vars => Stopping'
<1> SUFFICES ASSUME Stopping, [Next]_vars PROVE Stopping'
    OBVIOUS
<1> USE DEF Stopping
<1>1. CASE Constructor
      BY <1>1 DEF Constructor, CreateThreads, connect, readState, established, dtor
<1>2. CASE getEpicsState
      BY <1>2 DEF getEpicsState, dtor
<1>3. CASE asynConnect \/ CircularWait
      BY <1>3 DEF asynConnect, CircularWait, dtor
<1>4. ASSUME NEW w \in Workers, WorkerStart(w) \/ WorkerDone(w) \/ WorkerExit(w) PROVE Stopping'
      BY <1>4 DEF WorkerStart, WorkerDone, WorkerExit, dtor
<1>5. CASE Destroy
      BY <1>5 DEF Destroy
<1>6. CASE Destructor
      BY <1>6 DEF Destructor, Join, Joined, FreeParam, ClosePort, dtor
<1>7. CASE PlcChange \/ AdsLibChange
      BY <1>7 DEF PlcChange, AdsLibChange, dtor
<1>8. CASE UNCHANGED vars
      BY <1>8 DEF vars, dtor
<1> QED BY <1>1, <1>2, <1>3, <1>4, <1>5, <1>6, <1>7, <1>8 DEF Next, Terminated

LEMMA TeardownStep == TypeOK /\ Stages /\ Stopping /\ [Next]_vars => [TeardownShrinks]_vars
<1> SUFFICES ASSUME TypeOK, Stages, Stopping, Next, stopThreads = "yes", ~UNCHANGED vars
             PROVE  TeardownNearer \/ asynConnect
    BY DEF TeardownShrinks
<1>1. main \in {"join", "free", "closed"}
      BY DEF Stopping
<1>2. \A w : Pace(w) \in 0..3 /\ (thread' = thread => Pace(w)' = Pace(w))
      BY DEF Pace
<1>3. Ahead \in 0..2 /\ (main' = main => Ahead' = Ahead) /\ freed \in Nat
      BY DEF Ahead, TypeOK
<1>4. ~Constructor /\ ~getEpicsState /\ ~Destroy /\ ~AdsLibChange /\ ~PlcChange
      /\ ~(\E w \in Workers : WorkerStart(w)) /\ ~Terminated
      BY <1>1 DEF Constructor, CreateThreads, connect, readState, established, getEpicsState,
                  Running, Destroy, AdsLibChange, PlcChange, Constructing, WorkerStart, Terminated
<1>5. ASSUME NEW w \in Workers, WorkerDone(w) \/ WorkerExit(w) PROVE TeardownNearer
  <2>1. UNCHANGED <<main, joined, freed>>
        BY <1>5 DEF WorkerDone, WorkerExit, dtor
  <2>2. Pace(w)' < Pace(w) /\ \A v \in Workers \ {w} : Pace(v)' = Pace(v)
        BY <1>5 DEF WorkerDone, WorkerExit, Pace, TypeOK
  <2>3. \A v \in Workers : Pace(v)' <= Pace(v)
    <3> SUFFICES ASSUME NEW v \in Workers PROVE Pace(v)' <= Pace(v) OBVIOUS
    <3>1. CASE v = w
      <4>1. Pace(w) \in 0..3 /\ Pace(w)' \in 0..3 BY DEF Pace
      <4> QED BY <2>2, <3>1, <4>1
    <3>2. CASE v # w
      <4>1. Pace(v)' = Pace(v) /\ Pace(v) \in 0..3 BY <1>2, <2>2, <3>2
      <4> QED BY <4>1
    <3> QED BY <3>1, <3>2
  <2> HIDE DEF Pace, Ahead
  <2>4. joined \subseteq joined' /\ freed <= freed' /\ Ahead' <= Ahead
        BY <1>3, <2>1
  <2> QED BY <2>2, <2>3, <2>4 DEF TeardownNearer
<1>6. CASE Destructor
  <2>1. thread' = thread
        BY <1>6 DEF Destructor, Join, Joined, FreeParam, ClosePort
  <2>2. \A v \in Workers : Pace(v)' <= Pace(v)
    <3> SUFFICES ASSUME NEW v \in Workers PROVE Pace(v)' <= Pace(v) OBVIOUS
    <3>1. Pace(v)' = Pace(v) /\ Pace(v) \in 0..3 BY <1>2, <2>1
    <3> QED BY <3>1
  <2>3. joined \subseteq joined' /\ freed <= freed' /\ Ahead' <= Ahead
        BY <1>3, <1>6 DEF Destructor, Join, Joined, FreeParam, ClosePort, dtor, Ahead
  <2>4. joined' # joined \/ freed < freed' \/ Ahead' < Ahead
        BY <1>3, <1>6 DEF Destructor, Join, Joined, FreeParam, ClosePort, NotJoined, Ahead
  <2> QED BY <2>2, <2>3, <2>4 DEF TeardownNearer
<1>7. CASE CircularWait
  <2>1. UNCHANGED <<main, joined, freed>>
        BY <1>7 DEF CircularWait, dtor
  <2>2. /\ Pace("cyclic")' = 2 /\ Pace("cyclic") = 3 /\ Pace("bulk")' = 2 /\ Pace("bulk") = 3
        /\ \A v \in Workers \ {"cyclic", "bulk"} : Pace(v)' = Pace(v)
        BY <1>7 DEF CircularWait, Pace, TypeOK, Workers
  <2>3. \A v \in Workers : Pace(v)' <= Pace(v)
    <3> SUFFICES ASSUME NEW v \in Workers PROVE Pace(v)' <= Pace(v) OBVIOUS
    <3>1. CASE v \in {"cyclic", "bulk"}
          BY <2>2, <3>1
    <3>2. CASE v \notin {"cyclic", "bulk"}
      <4>1. Pace(v)' = Pace(v) /\ Pace(v) \in 0..3 BY <1>2, <2>2, <3>2
      <4> QED BY <4>1
    <3> QED BY <3>1, <3>2
  <2>4. "cyclic" \in Workers /\ Pace("cyclic")' < Pace("cyclic")
        BY <2>2 DEF Workers
  <2> HIDE DEF Pace, Ahead
  <2>5. joined \subseteq joined' /\ freed <= freed' /\ Ahead' <= Ahead
        BY <1>3, <2>1
  <2> QED BY <2>3, <2>4, <2>5 DEF TeardownNearer
<1> QED BY <1>4, <1>5, <1>6, <1>7 DEF Next

LEMMA StoppingCorrect == Spec => [](TypeOK /\ Stages /\ Stopping)
<1>1. Init => Stopping
      BY DEF Init, Stopping
<1>2. Stopping /\ [Next]_vars => Stopping'
      BY StoppingStep
<1> QED BY <1>1, <1>2, StagesCorrect, PTL DEF Spec

(* The termination argument of the destructor, for any number of           *)
(* parameters: nothing that it has done or a worker has done for it is     *)
(* undone, and every step of theirs does something.  (It may end in the    *)
(* circular wait of two workers, which is such a step.)                    *)
THEOREM TeardownProgress == Spec => [][TeardownShrinks]_vars
<1>1. TypeOK /\ Stages /\ Stopping /\ [Next]_vars => [TeardownShrinks]_vars
      BY TeardownStep
<1> QED BY <1>1, StoppingCorrect, PTL DEF Spec
=============================================================================
