--------------------------- MODULE AdsClientPorts ---------------------------
(***************************************************************************)
(* The client ports of adsAsynPortDriver.cpp: one AdsLib port per thread   *)
(* that talks to the PLC, counted in threadIdToAmsClientPortMap_, opened   *)
(* by the thread's first AdsClientPortGuard and closed by its last, with   *)
(* the default port (thread id 0) as fallback.                             *)
(*                                                                         *)
(* Guards are objects on a thread's stack, so they are destroyed in        *)
(* reverse order.  A guard that finds an entry always gets its port, hence *)
(* the guards without a port of their own are below the others, and two    *)
(* numbers per thread say all about its stack.                             *)
(***************************************************************************)
EXTENDS Integers

CONSTANTS
    Threads,       \* threads that make ADS calls
    Workers,       \* cyclicThread and bulkReadThread: their guard is never left
    Connecting,    \* threads that run connect()
    Registering,   \* threads that run refreshParams
    Default,       \* thread id 0
    MaxPorts,      \* client ports of AdsLib
    MaxDepth       \* bound: nested guards of a thread

ASSUME PortsAssumption ==
    /\ Default \notin Threads
    /\ Workers \subseteq Threads /\ Connecting \subseteq Threads /\ Registering \subseteq Threads
    /\ MaxPorts \in Nat \ {0} /\ MaxDepth \in Nat

VARIABLES
    opened,           \* AdsLib: open client ports
    timeout,          \* AdsLib: whether adsTimeoutMS_ was set on the port
    port, liveCount,  \* threadIdToAmsClientPortMap_; port 0: not in the map
    own, fallback,    \* guards of the thread with its own and with the default port
    connected,        \* connect() has succeeded
    failed,           \* history: some AdsPortCloseEx has returned an error
    regPort           \* port the symbols-changed callback was registered through; 0: none

vars == <<opened, timeout, port, liveCount, own, fallback, connected, failed, regPort>>

Keys     == Threads \cup {Default}
PortNums == 1..MaxPorts

(* The variables keep their types. *)
TypeOK ==
    /\ opened \subseteq PortNums
    /\ timeout \in [PortNums -> BOOLEAN]
    /\ port \in [Keys -> 0..MaxPorts]
    /\ liveCount \in [Keys -> Int]
    /\ own \in [Keys -> Nat]
    /\ fallback \in [Keys -> Nat]
    /\ connected \in BOOLEAN /\ failed \in BOOLEAN
    /\ regPort \in 0..MaxPorts

(* The constructor has opened the default port. *)
Init ==
    /\ opened = {1}
    /\ timeout = [p \in PortNums |-> FALSE]
    /\ port = [t \in Keys |-> IF t = Default THEN 1 ELSE 0]
    /\ liveCount = [t \in Keys |-> IF t = Default THEN 1 ELSE 0]
    /\ own = [t \in Keys |-> IF t = Default THEN 1 ELSE 0]
    /\ fallback = [t \in Keys |-> 0]
    /\ connected = FALSE /\ failed = FALSE
    /\ regPort = 0

-----------------------------------------------------------------------------
(* getAdsClientPortNumberForThreadId; map.at throws for a missing key.     *)
Throws == -1

getAdsClientPortNumberForThreadId(t) ==
    IF port[t] # 0 THEN port[Default] ELSE Throws

(* AdsPortOpenEx takes the lowest free port. *)
Lowest(p) == p \notin opened /\ \A q \in 1..(p - 1) : q \in opened

Counted(t) ==
    /\ port[t] # 0
    /\ liveCount' = [liveCount EXCEPT ![t] = @ + 1]
    /\ own' = [own EXCEPT ![t] = @ + 1]
    /\ UNCHANGED <<opened, timeout, port, fallback>>

Opened(t) ==
    /\ port[t] = 0
    /\ \E p \in PortNums :
         /\ Lowest(p)
         /\ opened' = opened \cup {p}
         /\ timeout' = [timeout EXCEPT ![p] = FALSE]
         /\ port' = [port EXCEPT ![t] = p]
    /\ liveCount' = [liveCount EXCEPT ![t] = 1]
    /\ own' = [own EXCEPT ![t] = @ + 1]
    /\ UNCHANGED fallback

(* No port is free: the caller goes on with the default port.              *)
FellBack(t) ==
    /\ port[t] = 0 /\ opened = PortNums
    /\ fallback' = [fallback EXCEPT ![t] = @ + 1]
    /\ UNCHANGED <<opened, timeout, port, liveCount, own>>

(* AdsClientPortGuard::AdsClientPortGuard, addAdsClientPortNumberForThreadId *)
EnterGuard(t) ==
    /\ own[t] + fallback[t] < MaxDepth
    /\ Counted(t) \/ Opened(t) \/ FellBack(t)
    /\ UNCHANGED <<connected, failed, regPort>>

(* Mutants of delAdsClientPortNumberForThreadId: the port is closed while  *)
(* the thread still has guards; the entry of a closed port stays.          *)
MutDelCloses(t) ==
    /\ opened' = opened \ {port[t]}
    /\ port' = [port EXCEPT ![t] = 0]
    /\ liveCount' = [liveCount EXCEPT ![t] = 0]
    /\ UNCHANGED failed

MutDelKeepsEntry(t) ==
    /\ liveCount' = [liveCount EXCEPT ![t] = @ - 1]
    /\ opened' = IF liveCount[t] > 1 THEN opened ELSE opened \ {port[t]}
    /\ UNCHANGED <<port, failed>>

MutDelNeverCloses(t) ==
    /\ port' = [port EXCEPT ![t] = IF liveCount[t] > 1 THEN @ ELSE 0]
    /\ liveCount' = [liveCount EXCEPT ![t] = @ - 1]
    /\ UNCHANGED <<opened, failed>>

delAdsClientPortNumberForThreadId(t) ==
    \/ port[t] = 0 /\ UNCHANGED <<opened, port, liveCount, failed>>
    \/ /\ port[t] # 0 /\ liveCount[t] - 1 > 0
       /\ liveCount' = [liveCount EXCEPT ![t] = @ - 1]
       /\ UNCHANGED <<opened, port, failed>>
    \/ /\ port[t] # 0 /\ liveCount[t] - 1 <= 0    \* AdsPortCloseEx succeeds
       /\ opened' = opened \ {port[t]}
       /\ port' = [port EXCEPT ![t] = 0]
       /\ liveCount' = [liveCount EXCEPT ![t] = 0]
       /\ UNCHANGED failed
    \/ /\ port[t] # 0 /\ liveCount[t] - 1 <= 0    \* AdsPortCloseEx fails
       /\ liveCount' = [liveCount EXCEPT ![t] = @ - 1]
       /\ failed' = TRUE
       /\ UNCHANGED <<opened, port>>

(* AdsClientPortGuard::~AdsClientPortGuard *)
LeaveGuard(t) ==
    /\ t \notin Workers
    /\ \/ own[t] > 0 /\ own' = [own EXCEPT ![t] = @ - 1] /\ UNCHANGED fallback
       \/ own[t] = 0 /\ fallback[t] > 0 /\ fallback' = [fallback EXCEPT ![t] = @ - 1] /\ UNCHANGED own
    /\ delAdsClientPortNumberForThreadId(t)
    /\ UNCHANGED <<timeout, connected, regPort>>

(* The client port that thread t, in a guard, makes its calls through.     *)
InGuard(t)    == own[t] + fallback[t] > 0
ClientPort(t) == IF own[t] > 0 THEN port[t] ELSE getAdsClientPortNumberForThreadId(Default)

(* adsConnect sets the timeout of the port it was given. *)
adsConnect(t) ==
    /\ t \in Connecting /\ InGuard(t)
    /\ timeout' = [timeout EXCEPT ![ClientPort(t)] = TRUE]
    /\ connected' = TRUE
    /\ UNCHANGED <<opened, port, liveCount, own, fallback, failed, regPort>>

(* refreshParams registers the symbols-changed callback, if refreshNeeded  *)
(* of the AMS port says so.                                                *)
adsAddSymbolsChangedCallback(t) ==
    /\ t \in Registering /\ InGuard(t)
    /\ regPort' = ClientPort(t)
    /\ UNCHANGED <<opened, timeout, port, liveCount, own, fallback, connected, failed>>

Next ==
    \E t \in Threads :
        EnterGuard(t) \/ LeaveGuard(t) \/ adsConnect(t) \/ adsAddSymbolsChangedCallback(t)

Spec == Init /\ [][Next]_vars

-----------------------------------------------------------------------------
CountExact ==
    \A t \in Keys : /\ liveCount[t] = own[t]
                    /\ port[t] # 0 <=> own[t] > 0

(* Until a close has failed, liveCount is the number of guards that use    *)
(* the entry, and an entry goes with its last guard.                       *)
LiveCountExact == ~failed => CountExact

(* Until a close has failed, a thread's client port stays open for as long *)
(* as any guard of the thread lives, and so does the default port.         *)
GuardedPortOpen == ~failed => \A t \in Keys : own[t] > 0 => port[t] \in opened

(* "Each thread will get its own port number".                             *)
OwnPorts == \A t, u \in Keys : t # u /\ port[t] # 0 => port[t] # port[u]

(* Every open client port belongs to an entry of the map: none is leaked.  *)
NoPortLeak == \A p \in opened : \E t \in Keys : port[t] = p

(* "will be called by the ADS lib": the client port through which the      *)
(* symbols-changed callback was registered is still open.                  *)
RegistrationOpen == regPort # 0 => regPort \in opened
=============================================================================
