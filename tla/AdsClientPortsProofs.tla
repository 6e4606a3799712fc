------------------------ MODULE AdsClientPortsProofs ------------------------
(***************************************************************************)
(* Proofs about AdsClientPorts for any threads, any number of AdsLib ports *)
(* and any nesting of guards.                                              *)
(***************************************************************************)
EXTENDS AdsClientPorts, TLAPS

(* The port of an entry is open. *)
EntryOpen == \A t \in Keys : port[t] # 0 => port[t] \in opened

(* The default port is never given back. *)
DefaultMapped == port[Default] # 0

(* Holds whether or not AdsPortCloseEx fails. *)
MapInv == TypeOK /\ EntryOpen /\ OwnPorts /\ NoPortLeak /\ DefaultMapped

(* The constructor's state. *)
LEMMA InitMapInv == Init => MapInv /\ CountExact
<1> SUFFICES ASSUME Init PROVE MapInv /\ CountExact
  OBVIOUS
<1> USE PortsAssumption DEF PortsAssumption
<1>1. Default \in Keys /\ \A t \in Keys : t # Default => port[t] = 0 /\ own[t] = 0 /\ liveCount[t] = 0
  BY DEF Init, Keys
<1>2. port[Default] = 1 /\ own[Default] = 1 /\ liveCount[Default] = 1
  BY <1>1 DEF Init
<1>3. TypeOK
  <2>1. opened \subseteq PortNums /\ timeout \in [PortNums -> BOOLEAN]
    BY DEF Init, PortNums
  <2>2. port \in [Keys -> 0..MaxPorts] /\ liveCount \in [Keys -> Int] /\ own \in [Keys -> Nat]
    BY DEF Init
  <2>3. fallback \in [Keys -> Nat] /\ regPort \in 0..MaxPorts
    BY DEF Init
  <2>4. connected \in BOOLEAN /\ failed \in BOOLEAN
    BY Zenon DEF Init
  <2> QED
    BY <2>1, <2>2, <2>3, <2>4 DEF TypeOK
<1>4. EntryOpen
  BY <1>1, <1>2 DEF Init, EntryOpen
<1>5. OwnPorts
  BY <1>1, <1>2 DEF OwnPorts
<1>6. NoPortLeak
  BY <1>1, <1>2 DEF Init, NoPortLeak
<1>7. CountExact
  BY <1>1, <1>2 DEF CountExact
<1> QED
  BY <1>2, <1>3, <1>4, <1>5, <1>6, <1>7 DEF MapInv, DefaultMapped

(* A thread's own entry is not the default one. *)
LEMMA DefaultKept ==
  ASSUME MapInv, NEW t \in Threads, NEW v,
         port' = port \/ port' = [port EXCEPT ![t] = v]
  PROVE  DefaultMapped'
<1>1. Default \in Keys /\ t # Default /\ DefaultMapped /\ port \in [Keys -> 0..MaxPorts]
  BY PortsAssumption DEF PortsAssumption, Keys, MapInv, TypeOK
<1>2. CASE port' = port
  BY <1>1, <1>2 DEF DefaultMapped
<1>3. CASE port' = [port EXCEPT ![t] = v]
  BY <1>1, <1>3 DEF DefaultMapped
<1> QED
  BY <1>2, <1>3

(* Opening a port for a thread that has none. *)
LEMMA OpenedMap ==
  ASSUME MapInv, NEW t \in Keys, port[t] = 0, NEW p \in PortNums, p \notin opened,
         opened' = opened \cup {p}, port' = [port EXCEPT ![t] = p]
  PROVE  /\ opened' \subseteq PortNums /\ port' \in [Keys -> 0..MaxPorts]
         /\ EntryOpen' /\ OwnPorts' /\ NoPortLeak'
<1> USE PortsAssumption DEF PortsAssumption
<1>0. opened \subseteq PortNums /\ port \in [Keys -> 0..MaxPorts] /\ EntryOpen /\ OwnPorts /\ NoPortLeak
  BY DEF MapInv, TypeOK
<1>1. port'[t] = p /\ \A u \in Keys : u # t => port'[u] = port[u]
  BY <1>0
<1>2. opened' \subseteq PortNums /\ port' \in [Keys -> 0..MaxPorts] /\ p # 0
  BY <1>0 DEF PortNums
<1>3. EntryOpen'
  BY <1>0, <1>1 DEF EntryOpen
<1>4. \A u \in Keys : port[u] # p
  BY <1>0, <1>2 DEF EntryOpen
<1>5. OwnPorts'
  BY <1>0, <1>1, <1>2, <1>4 DEF OwnPorts
<1>6. NoPortLeak'
  <2> SUFFICES ASSUME NEW q \in opened' PROVE \E u \in Keys : port'[u] = q
    BY DEF NoPortLeak
  <2>1. CASE q = p
    BY <1>1, <2>1
  <2>2. CASE q # p
    <3>1. PICK u \in Keys : port[u] = q
      BY <1>0, <2>2 DEF NoPortLeak
    <3>2. u # t
      BY <1>0, <2>2, <3>1 DEF PortNums
    <3> QED
      BY <1>1, <3>1, <3>2
  <2> QED
    BY <2>1, <2>2
<1> QED
  BY <1>2, <1>3, <1>5, <1>6

(* Closing the port of an entry and erasing the entry. *)
LEMMA ClosedMap ==
  ASSUME MapInv, NEW t \in Keys, port[t] # 0,
         opened' = opened \ {port[t]}, port' = [port EXCEPT ![t] = 0]
  PROVE  /\ opened' \subseteq PortNums /\ port' \in [Keys -> 0..MaxPorts]
         /\ EntryOpen' /\ OwnPorts' /\ NoPortLeak'
<1> USE PortsAssumption DEF PortsAssumption
<1>0. opened \subseteq PortNums /\ port \in [Keys -> 0..MaxPorts] /\ EntryOpen /\ OwnPorts /\ NoPortLeak
  BY DEF MapInv, TypeOK
<1>1. port'[t] = 0 /\ \A u \in Keys : u # t => port'[u] = port[u]
  BY <1>0
<1>2. opened' \subseteq PortNums /\ port' \in [Keys -> 0..MaxPorts]
  BY <1>0
<1>3. EntryOpen'
  BY <1>0, <1>1 DEF EntryOpen, OwnPorts
<1>4. OwnPorts'
  BY <1>0, <1>1 DEF OwnPorts
<1>5. NoPortLeak'
  BY <1>0, <1>1 DEF NoPortLeak
<1> QED
  BY <1>2, <1>3, <1>4, <1>5

(* Nothing about the map changes. *)
LEMMA MapFrame ==
  ASSUME MapInv, UNCHANGED <<opened, port>>
  PROVE  /\ opened' \subseteq PortNums /\ port' \in [Keys -> 0..MaxPorts]
         /\ EntryOpen' /\ OwnPorts' /\ NoPortLeak'
  BY DEF MapInv, TypeOK, EntryOpen, OwnPorts, NoPortLeak

(* A guard's constructor. *)
LEMMA EnterKeeps ==
  ASSUME MapInv, NEW t \in Threads, EnterGuard(t)
  PROVE  MapInv' /\ (CountExact => CountExact')
<1> USE PortsAssumption DEF PortsAssumption
<1>0. TypeOK /\ t \in Keys
  BY DEF MapInv, Keys
<1>1. UNCHANGED <<connected, failed, regPort>>
  BY DEF EnterGuard
<1>2. ASSUME Counted(t) PROVE MapInv' /\ (CountExact => CountExact')
  <2>1. /\ opened' \subseteq PortNums /\ port' \in [Keys -> 0..MaxPorts]
        /\ EntryOpen' /\ OwnPorts' /\ NoPortLeak'
    BY <1>2, MapFrame DEF Counted
  <2>2. TypeOK'
    BY <1>0, <1>1, <1>2, <2>1 DEF TypeOK, Counted
  <2>3. CountExact => CountExact'
    BY <1>0, <1>2 DEF TypeOK, Counted, CountExact
  <2> QED
    BY <1>2, <2>1, <2>2, <2>3, DefaultKept DEF MapInv, Counted
<1>3. ASSUME Opened(t) PROVE MapInv' /\ (CountExact => CountExact')
  <2>1. PICK p \in PortNums : /\ Lowest(p) /\ opened' = opened \cup {p}
                              /\ timeout' = [timeout EXCEPT ![p] = FALSE]
                              /\ port' = [port EXCEPT ![t] = p]
    BY <1>3 DEF Opened
  <2>2. /\ opened' \subseteq PortNums /\ port' \in [Keys -> 0..MaxPorts]
        /\ EntryOpen' /\ OwnPorts' /\ NoPortLeak'
    BY <1>0, <1>3, <2>1, OpenedMap DEF Opened, Lowest
  <2>3. TypeOK'
    BY <1>0, <1>1, <1>3, <2>1, <2>2 DEF TypeOK, Opened
  <2>4. CountExact => CountExact'
    <3>1. port'[t] # 0 /\ \A u \in Keys : u # t => port'[u] = port[u]
      BY <1>0, <2>1 DEF TypeOK, PortNums
    <3> QED
      BY <1>0, <1>3, <3>1 DEF TypeOK, Opened, CountExact
  <2> QED
    BY <2>1, <2>2, <2>3, <2>4, DefaultKept DEF MapInv
<1>4. ASSUME FellBack(t) PROVE MapInv' /\ (CountExact => CountExact')
  <2>1. /\ opened' \subseteq PortNums /\ port' \in [Keys -> 0..MaxPorts]
        /\ EntryOpen' /\ OwnPorts' /\ NoPortLeak'
    BY <1>4, MapFrame DEF FellBack
  <2>2. TypeOK'
    BY <1>0, <1>1, <1>4, <2>1 DEF TypeOK, FellBack
  <2>3. CountExact => CountExact'
    BY <1>4 DEF FellBack, CountExact
  <2> QED
    BY <1>4, <2>1, <2>2, <2>3, DefaultKept DEF MapInv, FellBack
<1> QED
  BY <1>2, <1>3, <1>4 DEF EnterGuard

(* A guard's destructor: the count stays exact if closing succeeds.        *)
LEMMA LeaveKeeps ==
  ASSUME MapInv, NEW t \in Threads, LeaveGuard(t)
  PROVE  MapInv' /\ (CountExact /\ ~failed' => CountExact')
<1> USE PortsAssumption DEF PortsAssumption
<1>0. TypeOK /\ t \in Keys
  BY DEF MapInv, Keys
<1>1. /\ opened' \subseteq PortNums /\ port' \in [Keys -> 0..MaxPorts]
      /\ EntryOpen' /\ OwnPorts' /\ NoPortLeak' /\ liveCount' \in [Keys -> Int]
  <2>0. liveCount \in [Keys -> Int]
    BY <1>0 DEF TypeOK
  <2>1. CASE UNCHANGED <<opened, port>>
    <3>1. liveCount' \in [Keys -> Int]
      BY <1>0, <2>0, <2>1 DEF LeaveGuard, delAdsClientPortNumberForThreadId
    <3> QED
      BY <2>1, <3>1, MapFrame
  <2>2. CASE /\ port[t] # 0 /\ opened' = opened \ {port[t]} /\ port' = [port EXCEPT ![t] = 0]
             /\ liveCount' = [liveCount EXCEPT ![t] = 0]
    <3>1. liveCount' \in [Keys -> Int]
      <4>1. liveCount' = [liveCount EXCEPT ![t] = 0] /\ 0 \in Int
        BY <2>2
      <4> QED
        BY <2>0, <4>1
    <3> QED
      BY <1>0, <2>2, <3>1, ClosedMap
  <2> QED
    BY <2>1, <2>2 DEF LeaveGuard, delAdsClientPortNumberForThreadId
<1>2. own' \in [Keys -> Nat] /\ fallback' \in [Keys -> Nat]
  BY <1>0 DEF TypeOK, LeaveGuard
<1>a. failed' \in BOOLEAN
  <2>1. failed' = failed \/ failed' = TRUE
    BY DEF LeaveGuard, delAdsClientPortNumberForThreadId
  <2> QED
    BY <1>0, <2>1, Zenon DEF TypeOK
<1>3. TypeOK'
  <2>1. UNCHANGED <<timeout, connected, regPort>>
    BY DEF LeaveGuard
  <2> QED
    BY <1>0, <1>1, <1>2, <1>a, <2>1 DEF TypeOK
<1>4. ASSUME CountExact, ~failed' PROVE CountExact'
  <2>1. liveCount[t] = own[t] /\ (port[t] # 0 <=> own[t] > 0) /\ own[t] \in Nat
    BY <1>0, <1>4 DEF CountExact, TypeOK
  <2>2. CASE own[t] = 0
    <3>1. port[t] = 0 /\ own' = own
      BY <2>1, <2>2 DEF LeaveGuard
    <3>2. UNCHANGED <<port, liveCount>>
      BY <3>1 DEF LeaveGuard, delAdsClientPortNumberForThreadId
    <3> QED
      BY <1>4, <3>1, <3>2 DEF CountExact
  <2>3. CASE own[t] > 0
    <3>1. own' = [own EXCEPT ![t] = own[t] - 1] /\ port[t] # 0
      BY <2>1, <2>3 DEF LeaveGuard
    <3>2. CASE own[t] > 1
      <4>1. liveCount' = [liveCount EXCEPT ![t] = liveCount[t] - 1] /\ port' = port
        BY <1>4, <2>1, <3>1, <3>2 DEF LeaveGuard, delAdsClientPortNumberForThreadId
      <4>2. liveCount'[t] = own'[t] /\ (port'[t] # 0 <=> own'[t] > 0)
        BY <1>0, <2>1, <3>1, <3>2, <4>1 DEF TypeOK
      <4>3. \A u \in Keys : u # t =>
              liveCount'[u] = liveCount[u] /\ own'[u] = own[u] /\ port'[u] = port[u]
        BY <1>0, <3>1, <4>1 DEF TypeOK
      <4> QED
        BY <1>4, <4>2, <4>3 DEF CountExact
    <3>3. CASE own[t] = 1
      <4>1. liveCount' = [liveCount EXCEPT ![t] = 0] /\ port' = [port EXCEPT ![t] = 0]
        BY <1>4, <2>1, <3>1, <3>3 DEF LeaveGuard, delAdsClientPortNumberForThreadId
      <4>2. liveCount'[t] = 0 /\ own'[t] = 0 /\ port'[t] = 0
        BY <1>0, <3>1, <3>3, <4>1 DEF TypeOK
      <4>3. \A u \in Keys : u # t =>
              liveCount'[u] = liveCount[u] /\ own'[u] = own[u] /\ port'[u] = port[u]
        BY <1>0, <3>1, <4>1 DEF TypeOK
      <4> QED
        BY <1>4, <4>2, <4>3 DEF CountExact
    <3> QED
      BY <2>1, <2>3, <3>2, <3>3
  <2> QED
    BY <2>1, <2>2, <2>3
<1>5. DefaultMapped'
  BY DefaultKept DEF LeaveGuard, delAdsClientPortNumberForThreadId
<1> QED
  BY <1>1, <1>3, <1>4, <1>5 DEF MapInv

(* Calls made through a guard's port leave the map alone. *)
LEMMA CallKeeps ==
  ASSUME MapInv, NEW t \in Threads, adsConnect(t) \/ adsAddSymbolsChangedCallback(t)
  PROVE  MapInv' /\ (CountExact => CountExact')
<1> USE PortsAssumption DEF PortsAssumption
<1>0. TypeOK /\ Default \in Keys /\ t \in Keys
  BY DEF MapInv, Keys
<1>1. UNCHANGED <<opened, port, liveCount, own, fallback>>
  BY DEF adsConnect, adsAddSymbolsChangedCallback
<1>2. /\ opened' \subseteq PortNums /\ port' \in [Keys -> 0..MaxPorts]
      /\ EntryOpen' /\ OwnPorts' /\ NoPortLeak'
  BY <1>1, MapFrame
<1>3. adsAddSymbolsChangedCallback(t) => regPort' \in 0..MaxPorts /\ UNCHANGED <<timeout, connected, failed>>
  <2>1. port[t] \in 0..MaxPorts /\ port[Default] \in 0..MaxPorts
    BY <1>0 DEF TypeOK
  <2>2. ClientPort(t) \in 0..MaxPorts
    BY <2>1 DEF MapInv, DefaultMapped, ClientPort, getAdsClientPortNumberForThreadId
  <2> QED
    BY <2>2 DEF adsAddSymbolsChangedCallback
<1>4. TypeOK'
  BY <1>0, <1>1, <1>2, <1>3 DEF TypeOK, adsConnect, adsAddSymbolsChangedCallback
<1>5. CountExact => CountExact'
  BY <1>1 DEF CountExact
<1> QED
  BY <1>1, <1>2, <1>4, <1>5 DEF MapInv, DefaultMapped

(* Every step keeps the map consistent. *)
LEMMA NextMapInv ==
  ASSUME MapInv, [Next]_vars
  PROVE  MapInv' /\ (CountExact /\ ~failed' => CountExact')
<1>1. CASE UNCHANGED vars
  <2>1. UNCHANGED <<opened, timeout, port, liveCount, own, fallback, connected, failed, regPort>>
    BY <1>1 DEF vars
  <2>2. TypeOK'
    BY <2>1 DEF MapInv, TypeOK
  <2>3. EntryOpen' /\ OwnPorts' /\ NoPortLeak'
    BY <2>1, MapFrame
  <2> QED
    BY <2>1, <2>2, <2>3 DEF MapInv, DefaultMapped, CountExact
<1>2. CASE Next
  <2> PICK t \in Threads :
        EnterGuard(t) \/ LeaveGuard(t) \/ adsConnect(t) \/ adsAddSymbolsChangedCallback(t)
    BY <1>2 DEF Next
  <2> QED
    BY EnterKeeps, LeaveKeeps, CallKeeps
<1> QED
  BY <1>1, <1>2

(* A failed close is remembered. *)
LEMMA FailedStays == failed /\ [Next]_vars => failed'
  BY DEF Next, vars, EnterGuard, LeaveGuard, delAdsClientPortNumberForThreadId, adsConnect,
     adsAddSymbolsChangedCallback

(* The inductive invariant, closing failures included. *)
THEOREM MapInvariant == Spec => []MapInv
<1>1. Init => MapInv
  BY InitMapInv
<1>2. MapInv /\ [Next]_vars => MapInv'
  BY NextMapInv
<1> QED
  BY <1>1, <1>2, PTL DEF Spec

(* The variables of the client-port map keep their types. *)
THEOREM PortsTypeOK == Spec => []TypeOK
<1>1. MapInv => TypeOK
  BY DEF MapInv
<1> QED
  BY <1>1, MapInvariant, PTL

(* No two threads ever share an entry's port, even if AdsPortCloseEx fails. *)
THEOREM PortsAreOwn == Spec => []OwnPorts
<1>1. MapInv => OwnPorts
  BY DEF MapInv
<1> QED
  BY <1>1, MapInvariant, PTL

(* No open client port is lost, even if AdsPortCloseEx fails. *)
THEOREM PortsAreNotLeaked == Spec => []NoPortLeak
<1>1. MapInv => NoPortLeak
  BY DEF MapInv
<1> QED
  BY <1>1, MapInvariant, PTL

(* Until a close has failed, liveCount counts the guards of the thread.    *)
THEOREM CountsAreExact == Spec => []LiveCountExact
<1>1. Init => MapInv /\ LiveCountExact
  BY InitMapInv DEF LiveCountExact
<1>2. MapInv /\ LiveCountExact /\ [Next]_vars => MapInv' /\ LiveCountExact'
  BY NextMapInv, FailedStays DEF LiveCountExact
<1> QED
  BY <1>1, <1>2, PTL DEF Spec

(* Until a close has failed, a guard's port is open for the guard's life.  *)
THEOREM GuardsKeepPortsOpen == Spec => []GuardedPortOpen
<1>1. MapInv /\ LiveCountExact => GuardedPortOpen
  BY DEF MapInv, EntryOpen, LiveCountExact, CountExact, GuardedPortOpen
<1> QED
  BY <1>1, MapInvariant, CountsAreExact, PTL
=============================================================================
