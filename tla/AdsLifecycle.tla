---------------------------- MODULE AdsLifecycle ----------------------------
(***************************************************************************)
(* Beginning and end of an adsAsynPortDriver: the constructor starts the   *)
(* four worker threads and then tries to connect until the PLC runs; it    *)
(* resolves the AMS net id of the EtherCAT master and adds the routes.     *)
(* The destructor stops and joins the workers, frees the parameters and    *)
(* closes the ADS port.                                                    *)
(*                                                                         *)
(* A worker is idle at the head of its loop, where it looks at             *)
(* stopThreads_, or busy with one pass, in which it uses parameters, port  *)
(* infos and ADS.  What a pass does is in AdsSupervision, AdsBulkRead and  *)
(* AdsValues.  Here it ends, or is stuck in the circular wait of           *)
(* cyclicThread and bulkReadThread that AdsBulkRead describes.             *)
(***************************************************************************)
EXTENDS Naturals

CONSTANTS
    NParams,     \* parameters of the driver
    Devices      \* I/O devices that the PLC project may have

ASSUME LifecycleAssumption ==
    NParams \in Nat /\ Devices \subseteq Nat

Workers == {"cyclic", "bulk", "dataCallback", "trigger"}

(* The order in which they are created and joined. *)
Place(w) == IF w = "cyclic" THEN 1 ELSE IF w = "bulk" THEN 2
            ELSE IF w = "dataCallback" THEN 3 ELSE 4

VARIABLES
    main,           \* where the constructor or destructor is
    thread,         \* of each worker
    stopThreads,    \* stopThreads_
    connectedAds,   \* connectedAds_
    master,         \* ethercatMasterAmsNetIdSource_; "unresolved" at first
    routeAdded, ethercatRouteAdded,
    joined,         \* workers the destructor has joined
    freed,          \* parameters the destructor has freed; they are freed in order
    gone,           \* "yes" once the port infos are deleted and the ADS port is closed
    allow,          \* allowCallbackEpicsState; bulkOK is first set together with it
    plc,            \* the PLC: "run", "stop" or "gone"
    override,       \* "yes": an AMS net id of the EtherCAT master is configured
    devices, same,  \* I/O devices of the project; whether the master has the PLC's net id
    refused,        \* calls of the constructor that fail at present
    routes,         \* AdsLib's routes
    foreign         \* routes that another driver of the IOC had added

ctor  == <<connectedAds, master, routeAdded, ethercatRouteAdded, routes>>
dtor  == <<stopThreads, joined, freed, gone>>
world == <<plc, override, devices, same, refused, foreign>>
vars  == <<main, thread, ctor, dtor, allow, world>>

Refusable == {"remote", "master", "timeout", "asyn"}

(* The variables keep their types. *)
TypeOK ==
    /\ main \in {"threads", "connect", "state", "resolve", "up", "offline", "join", "free", "closed"}
    /\ thread \in [Workers -> {"none", "idle", "busy", "stuck", "exited"}]
    /\ stopThreads \in {"yes", "no"} /\ connectedAds \in {"yes", "no"}
    /\ master \in {"unresolved", "override", "none", "derived", "discovered"}
    /\ routeAdded \in {"yes", "no"} /\ ethercatRouteAdded \in {"yes", "no"}
    /\ joined \subseteq Workers /\ freed \in 0..NParams /\ gone \in {"yes", "no"}
    /\ allow \in {"yes", "no"}
    /\ plc \in {"run", "stop", "gone"} /\ devices \in Devices
    /\ override \in {"yes", "no"} /\ same \in {"yes", "no"}
    /\ foreign \subseteq {"remote", "master"}
    /\ refused \subseteq Refusable /\ routes \subseteq {"remote", "master"}

Init ==
    /\ main = "threads" /\ thread = [w \in Workers |-> "none"]
    /\ stopThreads = "no" /\ connectedAds = "no"
    /\ routeAdded = "no" /\ ethercatRouteAdded = "no"
    /\ joined = {} /\ freed = 0 /\ gone = "no" /\ allow = "no"
    /\ plc \in {"run", "stop", "gone"} /\ devices \in Devices
    /\ override \in {"yes", "no"} /\ same \in {"yes", "no"}
    /\ foreign \in SUBSET {"remote", "master"} /\ (same = "yes" => "master" \notin foreign)
    /\ master = IF override = "yes" THEN "override" ELSE "unresolved"
    /\ refused \in SUBSET Refusable
    /\ routes = foreign

-----------------------------------------------------------------------------
(* The constructor creates its workers; when one cannot be created it      *)
(* returns without having connected.                                       *)
CreateThreads ==
    /\ main = "threads"
    /\ \E k \in {0, 1, 2, 4} :
         /\ thread' = [w \in Workers |-> IF Place(w) <= k THEN "idle" ELSE "none"]
         /\ main' = IF k = 4 THEN "connect" ELSE "offline"
         /\ refused' = IF k = 4 THEN refused ELSE {}
    /\ UNCHANGED <<ctor, dtor, allow, plc, override, devices, same, foreign>>

(* adsAddEthercatRoute calls AdsLib, given the resolution and its flag.    *)
Needed(m, e) == m \in {"override", "derived", "discovered"} /\ same = "no" /\ e = "no"

(* Mutant: an existing route is taken for the driver's own. *)
MutAddEthercatRoute(no, m, r, e) ==
    \/ ~Needed(m, e) /\ routes' = r /\ ethercatRouteAdded' = e
    \/ /\ Needed(m, e) /\ ("master" \in r \/ "master" \notin no)
       /\ routes' = r \cup {"master"} /\ ethercatRouteAdded' = "yes"

(* It succeeds, with the routes r so far and the refusals no: nothing to   *)
(* do, a route that exists already, or a new one.                          *)
adsAddEthercatRoute(no, m, r, e) ==
    \/ /\ ~Needed(m, e) \/ "master" \in r
       /\ routes' = r /\ ethercatRouteAdded' = e
    \/ /\ Needed(m, e) /\ "master" \notin r /\ "master" \notin no
       /\ routes' = r \cup {"master"} /\ ethercatRouteAdded' = "yes"

(* It fails. *)
EthercatRouteRefused(no, m, r, e) == Needed(m, e) /\ "master" \notin r /\ "master" \in no

(* Mutant: the route is added again although routeAdded_ is set. *)
MutAddFails(no) == "remote" \in no

(* Routes and flags after adsAddRoute.  If it fails, adsDelRoute(1)        *)
(* deletes the route to the PLC whoever has added it.                      *)
AddFails(no) == routeAdded = "no" /\ "remote" \in no

AfterAdd(no) ==
    IF ~AddFails(no) THEN routes \cup {"remote"}
    ELSE routes \ ({"remote"} \cup IF ethercatRouteAdded = "yes" THEN {"master"} ELSE {})

FlagsAfter(no) == IF AddFails(no) THEN "no" ELSE ethercatRouteAdded

(* connect goes on without a route to the PLC, but not without the timeout *)
(* or the route to a known EtherCAT master; asynPortDriver::connect may    *)
(* still fail after that.  ok says whether it returns asynSuccess.         *)
Connects(no, ok) ==
    /\ routeAdded' = IF AddFails(no) THEN "no" ELSE "yes"
    /\ \/ /\ "timeout" \in no \/ EthercatRouteRefused(no, master, AfterAdd(no), FlagsAfter(no))
          /\ routes' = AfterAdd(no) /\ ethercatRouteAdded' = FlagsAfter(no)
          /\ ok = "no"
       \/ /\ "timeout" \notin no /\ adsAddEthercatRoute(no, master, AfterAdd(no), FlagsAfter(no))
          /\ ok = IF "asyn" \in no THEN "no" ELSE "yes"
    /\ connectedAds' = IF ok = "yes" THEN "yes" ELSE connectedAds

connect ==
    /\ main = "connect"
    /\ \E ok \in {"yes", "no"} :
         Connects(refused, ok) /\ main' = IF ok = "yes" THEN "state" ELSE "connect"
    /\ UNCHANGED <<thread, master, dtor, allow, world>>

Deadlocked == thread["cyclic"] = "stuck"

(* asyn's own thread, or drvUserCreate, calls the same method, and any of  *)
(* its calls may be refused.                                               *)
asynConnect ==
    /\ main \notin {"threads", "closed"} /\ ~Deadlocked
    /\ \E no \in SUBSET Refusable, ok \in {"yes", "no"} : Connects(no, ok)
    /\ UNCHANGED <<main, thread, master, dtor, allow, world>>

(* The constructor reads the state of the PLC.  disconnect is asyn's, so   *)
(* connectedAds_ stays.                                                    *)
readState ==
    /\ main = "state"
    /\ main' = IF plc = "run" /\ "remote" \in routes THEN "resolve" ELSE "connect"
    /\ UNCHANGED <<thread, ctor, dtor, allow, world>>

(* Mutant: a failed read leaves deviceCount at 0. *)
MutResolve(m) ==
    \/ m = "none"
    \/ m = "derived" /\ devices # 0
    \/ m = "discovered" /\ devices = 1 /\ plc # "gone"

(* resolveEthercatMasterAmsNetId: three reads, each of which may fail.     *)
resolveEthercatMasterAmsNetId(m) ==
    \/ m = "none" /\ devices = 0 /\ plc # "gone"
    \/ m = "derived"
    \/ m = "discovered" /\ devices = 1 /\ plc # "gone"

(* Mutant: the constructor starts again without the route to the master. *)
MutEstablished ==
    /\ main = "resolve"
    /\ \/ master = "unresolved" /\ resolveEthercatMasterAmsNetId(master')
       \/ master # "unresolved" /\ UNCHANGED master
    /\ \/ adsAddEthercatRoute(refused, master', routes, ethercatRouteAdded) /\ main' = "up"
       \/ /\ EthercatRouteRefused(refused, master', routes, ethercatRouteAdded) /\ main' = "connect"
          /\ UNCHANGED <<routes, ethercatRouteAdded>>
    /\ UNCHANGED <<thread, connectedAds, routeAdded, dtor, allow, world>>

(* The PLC runs: the constructor returns, with or without the route.       *)
established ==
    /\ main = "resolve" /\ main' = "up" /\ refused' = {}
    /\ \/ master = "unresolved" /\ resolveEthercatMasterAmsNetId(master')
       \/ master # "unresolved" /\ UNCHANGED master
    /\ \/ adsAddEthercatRoute(refused, master', routes, ethercatRouteAdded)
       \/ /\ EthercatRouteRefused(refused, master', routes, ethercatRouteAdded)
          /\ UNCHANGED <<routes, ethercatRouteAdded>>
    /\ UNCHANGED <<thread, connectedAds, routeAdded, dtor, allow, plc, override, devices, same,
                   foreign>>

-----------------------------------------------------------------------------
Running == main \in {"up", "offline"}

(* The records are scanned. *)
getEpicsState ==
    /\ Running /\ allow = "no" /\ allow' = "yes"
    /\ UNCHANGED <<main, thread, ctor, dtor, world>>

(* A worker makes a pass through its loop. *)
WorkerStart(w) ==
    /\ thread[w] = "idle" /\ stopThreads = "no"
    /\ allow = "yes"
    /\ thread' = [thread EXCEPT ![w] = "busy"]
    /\ UNCHANGED <<main, ctor, dtor, allow, world>>

(* cyclicThread waits for the mutex of the bulk table with the asyn lock,  *)
(* and bulkReadThread for the asyn lock with the mutex: for ever.          *)
CircularWait ==
    /\ thread["cyclic"] = "busy" /\ thread["bulk"] = "busy"
    /\ thread' = [thread EXCEPT !["cyclic"] = "stuck", !["bulk"] = "stuck"]
    /\ UNCHANGED <<main, ctor, dtor, allow, world>>

(* The end of a pass.  cyclicThread has noted whether the PLC answered.    *)
WorkerDone(w) ==
    /\ thread[w] = "busy" /\ thread' = [thread EXCEPT ![w] = "idle"]
    /\ \/ w = "cyclic" /\ connectedAds' \in {"yes", "no"}
       \/ w # "cyclic" /\ UNCHANGED connectedAds
    /\ UNCHANGED <<main, master, routeAdded, ethercatRouteAdded, routes, dtor, allow, world>>

(* Mutant: bulkReadThread does not look at stopThreads_ before bulkOK is set. *)
MutWorkerExit(w) ==
    /\ thread[w] = "idle" /\ stopThreads = "yes" /\ (w = "bulk" => allow = "yes")
    /\ thread' = [thread EXCEPT ![w] = "exited"]
    /\ UNCHANGED <<main, ctor, dtor, allow, world>>

WorkerExit(w) ==
    /\ thread[w] = "idle" /\ stopThreads = "yes"
    /\ thread' = [thread EXCEPT ![w] = "exited"]
    /\ UNCHANGED <<main, ctor, dtor, allow, world>>

-----------------------------------------------------------------------------
(* The destructor. *)
Destroy ==
    /\ Running /\ main' = "join" /\ stopThreads' = "yes"
    /\ UNCHANGED <<thread, ctor, joined, freed, gone, allow, world>>

(* Mutant: cyclicThread is not joined. *)
MutNotJoined == {"bulk", "dataCallback", "trigger"} \ joined

NotJoined == Workers \ joined

(* epicsThreadMustJoin, in order, of the workers that were created. *)
Join(w) ==
    /\ main = "join" /\ w \in NotJoined
    /\ \A v \in NotJoined : Place(w) <= Place(v)
    /\ thread[w] \in {"none", "exited"}
    /\ joined' = joined \cup {w}
    /\ UNCHANGED <<main, thread, ctor, stopThreads, freed, gone, allow, world>>

Joined ==
    /\ main = "join" /\ NotJoined = {} /\ main' = "free"
    /\ UNCHANGED <<thread, ctor, dtor, allow, world>>

(* The handle and the notification are deleted, while connected; whether   *)
(* that succeeds is ignored.                                               *)
FreeParam ==
    /\ main = "free" /\ freed < NParams
    /\ freed' = freed + 1
    /\ UNCHANGED <<main, thread, ctor, stopThreads, joined, gone, allow, world>>

ClosePort ==
    /\ main = "free" /\ freed = NParams
    /\ gone' = "yes" /\ main' = "closed"
    /\ UNCHANGED <<thread, ctor, stopThreads, joined, freed, allow, world>>

-----------------------------------------------------------------------------
(* The PLC, and AdsLib and asyn, as the constructor meets them. *)
Constructing == main \in {"threads", "connect", "state", "resolve"}

PlcChange ==
    /\ Constructing /\ plc' \in {"run", "stop", "gone"} /\ plc' # plc
    /\ UNCHANGED <<main, thread, ctor, dtor, allow, override, devices, same, refused, foreign>>

AdsLibChange ==
    /\ Constructing /\ refused' \in SUBSET Refusable
    /\ UNCHANGED <<main, thread, ctor, dtor, allow, plc, override, devices, same, foreign>>

(* The destructor is done, or waits for threads that wait for each other. *)
Terminated == (main = "closed" \/ Deadlocked) /\ UNCHANGED vars

Constructor == CreateThreads \/ connect \/ readState \/ established
Destructor  == (\E w \in Workers : Join(w)) \/ Joined \/ FreeParam \/ ClosePort

Next ==
    \/ Constructor \/ asynConnect \/ getEpicsState \/ CircularWait
    \/ \E w \in Workers : WorkerStart(w) \/ WorkerDone(w) \/ WorkerExit(w)
    \/ Destroy \/ Destructor \/ PlcChange \/ AdsLibChange \/ Terminated

Spec == Init /\ [][Next]_vars

(* Threads run; a pass ends, since every ADS call has a timeout, unless    *)
(* the threads that hold the asyn lock and the mutex are stuck.            *)
Fairness ==
    /\ WF_vars(Constructor) /\ WF_vars(Destructor)
    /\ \A w \in Workers : WF_vars(~Deadlocked /\ WorkerDone(w)) /\ WF_vars(WorkerExit(w))

FairSpec == Spec /\ Fairness

-----------------------------------------------------------------------------
(* No worker is inside a pass once the destructor frees what passes use:   *)
(* parameters, port infos and the ADS port.                                *)
WorkersUseLive ==
    main \in {"free", "closed"} => \A w \in Workers : thread[w] \in {"none", "exited"}

(* What is known of the EtherCAT master is true and lasts: a configured    *)
(* net id is never replaced, and access is refused for good only for a     *)
(* project without devices, never because a read has failed.               *)
MasterTrue ==
    /\ override = "yes" => master = "override"
    /\ master = "none" => devices = 0
    /\ master = "discovered" => devices = 1

(* A constructor that returns normally leaves nothing to be resolved by    *)
(* the records and has a route to the PLC, which no later connect of       *)
(* asyn's takes away, whatever is refused then.                            *)
ReadyWhenUp == main = "up" => master # "unresolved" /\ "remote" \in routes

(* Every route of AdsLib has an owner, although a failed route to the PLC  *)
(* takes the one to the master with it and asyn's thread may connect at    *)
(* any time: what the driver's flags claim exists, nothing else is left,   *)
(* and another driver's route to the EtherCAT master stays.  (Another      *)
(* driver's route to the PLC may be deleted, by adsDelRoute(1).)           *)
RoutesTrue ==
    /\ routeAdded = "yes" => "remote" \in routes
    /\ "remote" \in routes => routeAdded = "yes" \/ "remote" \in foreign
    /\ ethercatRouteAdded = "yes" => "master" \in routes /\ "master" \notin foreign
    /\ "master" \in routes <=> ethercatRouteAdded = "yes" \/ "master" \in foreign

(* The constructor returns once the PLC runs and its calls are accepted;   *)
(* the route to the EtherCAT master is needed only if it is configured.    *)
ConstructorReturns ==
    <>[](plc = "run" /\ refused \cap {"remote", "timeout", "asyn"} = {}
         /\ (override = "yes" => "master" \notin refused))
      => <>~Constructing

(* The destructor hangs in a join only if cyclicThread and bulkReadThread  *)
(* wait for each other.                                                    *)
TeardownEnds == (stopThreads = "yes") ~> (main = "closed" \/ Deadlocked)
=============================================================================
