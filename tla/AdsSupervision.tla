--------------------------- MODULE AdsSupervision ---------------------------
(***************************************************************************)
(* Supervision of the connection in adsAsynPortDriver.cpp: the cyclic      *)
(* thread that polls the ADS state of every AMS port, the symbols-changed  *)
(* callback that runs in AdsLib's notification thread, and the two things  *)
(* both of them do under the asyn lock: invalidateParams and refreshParams.*)
(* The PLC and its link are the environment.  The model starts when        *)
(* initHookAfterScanInit has allowed callbacks; teardown is left out.      *)
(*                                                                         *)
(* A symbolic handle is represented by the generation of the PLC's symbol  *)
(* table it was issued in: it is good for as long as the PLC keeps that    *)
(* generation.  Generation 0 stands for "no handle" (-1 in the code).      *)
(***************************************************************************)
EXTENDS Integers, FiniteSets

CONSTANTS
    NPorts,       \* length of amsPortList_; a port is its position in it
    NParams,      \* adsParamArrayCount_ - 1; a parameter is its table index
    portOf,       \* paramInfo->amsPort
    access,       \* how a parameter reaches the PLC, see Accesses
    feed,         \* how its value reaches the record, see Feeds
    InitFailed,   \* parameters whose drvUserCreate could not reach the PLC
    AutoConnect,  \* autoConnect_
    LinkStates,   \* link states that the PLC ports take, see Links
    MaxGen        \* bound: symbol-table generations of a PLC port

Ports  == 1..NPorts
Params == 1..NParams

(* "dict": found in symbolDict_ at iocInit; "name": looked up by name one  *)
(* by one; "adr": .ADR. command; "state": .AMSPORTSTATE. (local variable). *)
Accesses == {"dict", "name", "adr", "state"}
(* "poll": not an I/O Intr record; "notify": ADS notification; "bulk": sum *)
(* read by bulkReadThread.                                                 *)
Feeds == {"poll", "notify", "bulk"}

(* "lossy": answers RUN or times out, call by call; "stop": answers, with  *)
(* an ADS state other than RUN; "gone": nothing answers.                   *)
Links == {"run", "lossy", "stop", "gone"}

ASSUME SupervisionAssumption ==
    /\ NPorts \in Nat \ {0}
    /\ NParams \in Nat
    /\ portOf \in [Params -> Ports]
    /\ access \in [Params -> Accesses]
    /\ feed \in [Params -> Feeds]
    /\ InitFailed \subseteq Params
    /\ AutoConnect \in BOOLEAN
    /\ LinkStates \subseteq Links
    /\ MaxGen \in Nat \ {0}

AdsStates == {"run", "stop", "invalid", "unknown"}
Gens      == 0..MaxGen
Threads   == {"cyclic", "symbols"}
CycPcs    == {"sleep", "poll", "refresh", "lost", "mark", "publish", "end"}
SymPcs    == {"idle", "invalidate", "refresh"}

VARIABLES
    link, gen,            \* PLC: link and symbol-table generation of each port
    symReg, symEvent,     \* symbol-version notification: registered, undelivered
    connected, connectedOld, adsState, adsStateOld,     \* amsPortInfo
    refreshNeeded, bCallbackNotifyValid,                \* amsPortInfo
    pRefresh,             \* adsParamInfo.refreshNeeded
    hSymbolicHandle,      \* adsParamInfo.hSymbolicHandle
    source,               \* handle its notification or bulk entry was made with
    published,            \* value of the state parameter port->paramInfo names
    connectedAds, bulkOK, notConnectedCounter, exited,
    cyc, sym,             \* program counters, with the AMS port being handled
    oneOK,                \* oneAmsConnectionOK of the current cycle
    lock, next,           \* owner of the asyn lock; refreshParams' loop index
    seenGen               \* history: generation at the port's last invalidation

plcVars    == <<link, gen, symReg, symEvent>>
pollVars   == <<connected, connectedOld, adsState, adsStateOld>>
portVars   == <<refreshNeeded, bCallbackNotifyValid>>
paramVars  == <<pRefresh, hSymbolicHandle, source>>
driverVars == <<connectedAds, notConnectedCounter, exited>>
vars == <<plcVars, pollVars, portVars, paramVars, published, driverVars,
          bulkOK, cyc, sym, oneOK, lock, next, seenGen>>

None == "none"

PlcTypeOK ==
    /\ link \in [Ports -> Links]
    /\ gen \in [Ports -> 1..MaxGen]
    /\ symReg \in [Ports -> BOOLEAN]
    /\ symEvent \in [Ports -> BOOLEAN]
    /\ seenGen \in [Ports -> Gens]

PortTypeOK ==
    /\ connected \in [Ports -> BOOLEAN]
    /\ connectedOld \in [Ports -> BOOLEAN]
    /\ adsState \in [Ports -> AdsStates]
    /\ adsStateOld \in [Ports -> AdsStates]
    /\ refreshNeeded \in [Ports -> BOOLEAN]
    /\ bCallbackNotifyValid \in [Ports -> BOOLEAN]
    /\ published \in [Ports -> AdsStates]

ParamTypeOK ==
    /\ pRefresh \in [Params -> BOOLEAN]
    /\ hSymbolicHandle \in [Params -> Gens]
    /\ source \in [Params -> Gens]

DriverTypeOK ==
    /\ connectedAds \in BOOLEAN
    /\ bulkOK \in BOOLEAN
    /\ notConnectedCounter \in 0..2
    /\ exited \in BOOLEAN
    /\ oneOK \in BOOLEAN
    /\ cyc \in [pc : CycPcs, port : Ports]
    /\ sym \in [pc : SymPcs, port : Ports]
    /\ lock \in Threads \cup {None}
    /\ next \in 1..(NParams + 1)

(* The variables keep their types; in particular the counter of cycles     *)
(* without a connection stops at 2, where the IOC exits, and refreshParams *)
(* never runs past the end of the parameter table.                         *)
TypeOK == PlcTypeOK /\ PortTypeOK /\ ParamTypeOK /\ DriverTypeOK

(***************************************************************************)
(* After iocInit: drvUserCreate has run for every parameter, on a driver   *)
(* whose constructor returned once connect() had succeeded.  A parameter   *)
(* whose PLC look-up failed then keeps refreshNeeded; its port entry does  *)
(* not (addNewAmsPortToList).                                              *)
(***************************************************************************)
Init ==
    /\ link \in [Ports -> LinkStates]
    /\ gen = [a \in Ports |-> 1]
    /\ symReg = [a \in Ports |-> FALSE]
    /\ symEvent = [a \in Ports |-> FALSE]
    /\ connected = [a \in Ports |-> FALSE]
    /\ connectedOld = [a \in Ports |-> FALSE]
    /\ adsState = [a \in Ports |-> "unknown"]
    /\ adsStateOld = [a \in Ports |-> "unknown"]
    /\ refreshNeeded = [a \in Ports |-> FALSE]
    /\ bCallbackNotifyValid = [a \in Ports |-> FALSE]
    /\ pRefresh = [p \in Params |-> p \in InitFailed \/ access[p] = "state"]
    /\ hSymbolicHandle = [p \in Params |-> 
                    IF access[p] = "dict" \/ (access[p] = "name" /\ p \notin InitFailed)
                    THEN 1 ELSE 0]
    /\ source = [p \in Params |->
                    IF access[p] # "state" /\ feed[p] # "poll" /\ p \notin InitFailed
                    THEN 1 ELSE 0]
    /\ published = [a \in Ports |-> "unknown"]
    /\ connectedAds = TRUE
    /\ bulkOK = TRUE
    /\ notConnectedCounter = 0
    /\ exited = FALSE
    /\ cyc = [pc |-> "sleep", port |-> 1]
    /\ sym = [pc |-> "idle", port |-> 1]
    /\ oneOK = FALSE
    /\ lock = None
    /\ next = 1
    /\ seenGen = [a \in Ports |-> 1]

-----------------------------------------------------------------------------
(***************************************************************************)
(* The PLC (external).                                                     *)
(***************************************************************************)
CanAnswer(a) == link[a] # "gone"
CanFail(a)   == link[a] # "run"

(* Outcomes of one ADS call on port a. *)
CallOutcomes(a) == {ok \in BOOLEAN : IF ok THEN CanAnswer(a) ELSE CanFail(a)}

(* The link or the run state of a port changes; nothing on the PLC is lost.*)
LinkChange(a) ==
    /\ \E l \in LinkStates \ {link[a]} : link' = [link EXCEPT ![a] = l]
    /\ UNCHANGED <<gen, symReg, symEvent>>

(* The connection is dropped: the PLC discards its handles and             *)
(* notifications.                                                          *)
ConnectionDropped(a) ==
    /\ gen[a] < MaxGen /\ "gone" \in LinkStates
    /\ link' = [link EXCEPT ![a] = "gone"]
    /\ gen' = [gen EXCEPT ![a] = @ + 1]
    /\ symReg' = [symReg EXCEPT ![a] = FALSE]
    /\ UNCHANGED symEvent

(* A new program is loaded while the port keeps running.                   *)
SymbolsChange(a) ==
    /\ gen[a] < MaxGen
    /\ link[a] = "run"
    /\ gen' = [gen EXCEPT ![a] = @ + 1]
    /\ symEvent' = [symEvent EXCEPT ![a] = @ \/ symReg[a]]
    /\ UNCHANGED <<link, symReg>>

Plc ==
    /\ ~exited
    /\ \E a \in Ports : LinkChange(a) \/ ConnectionDropped(a) \/ SymbolsChange(a)
    /\ UNCHANGED <<pollVars, portVars, paramVars, published, driverVars,
                   bulkOK, cyc, sym, oneOK, lock, next, seenGen>>

(***************************************************************************)
(* bulkReadThread: an entry whose handle the PLC no longer knows comes     *)
(* back with a status, and the flag of its parameter is raised, without    *)
(* the asyn lock.                                                          *)
(***************************************************************************)
BulkStatusBad(p) ==
    /\ feed[p] = "bulk" /\ bulkOK /\ ~pRefresh[p]
    /\ source[p] \notin {0, gen[portOf[p]]} /\ CanAnswer(portOf[p])
    /\ pRefresh' = [pRefresh EXCEPT ![p] = TRUE]

bulkReadThread ==
    /\ ~exited
    /\ \E p \in Params : BulkStatusBad(p)
    /\ UNCHANGED <<plcVars, pollVars, portVars, hSymbolicHandle, source, published,
                   driverVars, bulkOK, cyc, sym, oneOK, lock, next, seenGen>>

-----------------------------------------------------------------------------
(***************************************************************************)
(* invalidateParams(amsPort).                                              *)
(***************************************************************************)
invalidateParams(a) ==
    /\ lock = None
    /\ bulkOK' = FALSE
    /\ pRefresh' = [p \in Params |-> pRefresh[p] \/ portOf[p] = a]
    /\ seenGen' = [seenGen EXCEPT ![a] = gen[a]]

(***************************************************************************)
(* updateParamInfoWithPLCInfo.  Names: the look-up by name of type, size   *)
(* and handle; the old handle is released before the new one is asked for. *)
(* A dictionary entry is injected as resolved at iocInit (generation 1).   *)
(***************************************************************************)
Lookups(p) ==
    LET a == portOf[p] IN
    {l \in [ok : BOOLEAN, handle : Gens] :
        \/ access[p] = "dict" /\ l.ok /\ l.handle = 1
        \/ access[p] = "adr"  /\ l.ok /\ l.handle = hSymbolicHandle[p]
        \/ access[p] = "name" /\ l.ok /\ CanAnswer(a) /\ l.handle = gen[a]
        \/ access[p] = "name" /\ ~l.ok /\ CanFail(a) /\ l.handle \in {hSymbolicHandle[p], 0}}

(* adsDelDataCallback and adsAddDataCallback for a notification;           *)
(* adsAddToBulkRead only writes the driver's own table.  The PLC may       *)
(* reject a handle it no longer knows, or serve what now has its number.   *)
Subscriptions(p, handle) ==
    LET a    == portOf[p]
        made == IF access[p] = "adr" THEN gen[a] ELSE handle
    IN {s \in [ok : BOOLEAN, source : Gens] :
          \/ feed[p] = "poll" /\ s.ok /\ s.source = source[p]
          \/ feed[p] = "bulk" /\ s.ok /\ s.source = made
          \/ feed[p] = "notify" /\ s.ok /\ CanAnswer(a) /\ s.source = made
          \/ feed[p] = "notify" /\ ~s.ok /\ (CanFail(a) \/ made # gen[a]) /\ s.source = 0}

(* Mutant: refreshNeeded is cleared although the subscription failed.      *)
MutUpdateIgnoresSubscription(p) ==
    \/ /\ access[p] = "state"
       /\ pRefresh' = [pRefresh EXCEPT ![p] = FALSE]
       /\ UNCHANGED <<hSymbolicHandle, source>>
    \/ \E l \in Lookups(p) :
         /\ hSymbolicHandle' = [hSymbolicHandle EXCEPT ![p] = l.handle]
         /\ \/ ~l.ok /\ UNCHANGED <<pRefresh, source>>
            \/ /\ l.ok
               /\ \E s \in Subscriptions(p, l.handle) :
                    source' = [source EXCEPT ![p] = s.source]
               /\ pRefresh' = [pRefresh EXCEPT ![p] = FALSE]

updateParamInfoWithPLCInfo(p) ==
    \/ /\ access[p] = "state"
       /\ pRefresh' = [pRefresh EXCEPT ![p] = FALSE]
       /\ UNCHANGED <<hSymbolicHandle, source>>
    \/ \E l \in Lookups(p) :
         /\ hSymbolicHandle' = [hSymbolicHandle EXCEPT ![p] = l.handle]
         /\ \/ ~l.ok /\ UNCHANGED <<pRefresh, source>>
            \/ /\ l.ok
               /\ \E s \in Subscriptions(p, l.handle) :
                    /\ source' = [source EXCEPT ![p] = s.source]
                    /\ pRefresh' = [pRefresh EXCEPT ![p] = ~s.ok]

(***************************************************************************)
(* refreshParams(amsPort), run by thread t under the asyn lock: the        *)
(* parameters of the port one by one, then its symbol-version notification.*)
(***************************************************************************)
RefreshLock(t) ==
    /\ lock = None
    /\ lock' = t
    /\ next' = 1
    /\ UNCHANGED <<plcVars, pollVars, portVars, paramVars, published, driverVars,
                   bulkOK, cyc, sym, oneOK, seenGen>>

RefreshParam(t, a) ==
    /\ lock = t /\ connectedAds /\ next <= NParams
    /\ IF portOf[next] = a /\ pRefresh[next]
       THEN updateParamInfoWithPLCInfo(next)
       ELSE UNCHANGED paramVars
    /\ next' = next + 1
    /\ UNCHANGED <<plcVars, pollVars, portVars, published, driverVars,
                   bulkOK, cyc, sym, oneOK, lock, seenGen>>

(* Whether the PLC still holds the old registration after the deletion.    *)
adsDelSymbolsChangedCallback(a) == {symReg[a] /\ ~ok : ok \in CallOutcomes(a)}

(* Mutant: the port keeps refreshNeeded after a successful registration.   *)
MutAddKeepsRefreshNeeded(a) ==
    \E ok \in CallOutcomes(a) :
         /\ bCallbackNotifyValid' = [bCallbackNotifyValid EXCEPT ![a] = ok]
         /\ symReg' = [symReg EXCEPT ![a] = ok]
         /\ symEvent' = [symEvent EXCEPT ![a] = @ \/ ok]
         /\ UNCHANGED <<link, gen, refreshNeeded>>

(* Delete the old registration if there is one, then add.  A successful    *)
(* registration is answered with an initial sample.                        *)
adsAddSymbolsChangedCallback(a) ==
    \E ok \in CallOutcomes(a),
       reg \in IF bCallbackNotifyValid[a] THEN adsDelSymbolsChangedCallback(a)
               ELSE {symReg[a]} :
         /\ bCallbackNotifyValid' = [bCallbackNotifyValid EXCEPT ![a] = ok]
         /\ refreshNeeded' = [refreshNeeded EXCEPT ![a] = ~ok]
         /\ symReg' = [symReg EXCEPT ![a] = ok \/ reg]
         /\ symEvent' = [symEvent EXCEPT ![a] = @ \/ ok]
         /\ UNCHANGED <<link, gen>>

(* The end of refreshParams: bulk reads are allowed again, always.         *)
RefreshDone(t, a) ==
    /\ lock = t
    /\ ~connectedAds \/ next > NParams
    /\ IF connectedAds /\ refreshNeeded[a]
       THEN adsAddSymbolsChangedCallback(a)
       ELSE UNCHANGED <<plcVars, portVars>>
    /\ bulkOK' = TRUE
    /\ lock' = None
    /\ next' = 1
    /\ UNCHANGED <<pollVars, paramVars, published, driverVars, oneOK, seenGen>>

-----------------------------------------------------------------------------
(***************************************************************************)
(* adsSymbolsChangedCallback, in AdsLib's notification thread: two lock    *)
(* regions, one to invalidate and one to refresh.                          *)
(***************************************************************************)
SymbolsNotified ==
    /\ ~exited /\ sym.pc = "idle"
    /\ \E a \in Ports :
         /\ symEvent[a]
         /\ sym' = [pc |-> "invalidate", port |-> a]
         /\ symEvent' = [symEvent EXCEPT ![a] = FALSE]
    /\ UNCHANGED <<link, gen, symReg, pollVars, portVars, paramVars, published,
                   driverVars, bulkOK, cyc, oneOK, lock, next, seenGen>>

SymbolsInvalidate ==
    /\ ~exited /\ sym.pc = "invalidate"
    /\ invalidateParams(sym.port)
    /\ sym' = [sym EXCEPT !.pc = "refresh"]
    /\ UNCHANGED <<plcVars, pollVars, portVars, hSymbolicHandle, source, published,
                   driverVars, cyc, oneOK, lock, next>>

SymbolsRefresh ==
    /\ ~exited /\ sym.pc = "refresh"
    /\ \/ RefreshLock("symbols")
       \/ RefreshParam("symbols", sym.port)
       \/ RefreshDone("symbols", sym.port) /\ sym' = [sym EXCEPT !.pc = "idle"] /\ UNCHANGED cyc

adsSymbolsChangedCallback == SymbolsNotified \/ SymbolsInvalidate \/ SymbolsRefresh

-----------------------------------------------------------------------------
(***************************************************************************)
(* cyclicThread.                                                           *)
(***************************************************************************)
NextPort(a) == IF a < NPorts THEN [pc |-> "poll", port |-> a + 1]
                             ELSE [pc |-> "publish", port |-> 1]

CycWake ==
    /\ ~exited /\ cyc.pc = "sleep"
    /\ cyc' = [pc |-> "poll", port |-> 1]
    /\ UNCHANGED <<plcVars, pollVars, portVars, paramVars, published, driverVars,
                   bulkOK, sym, oneOK, lock, next, seenGen>>

(* adsReadState: what a poll of port a can report. *)
adsReadState(a) ==
    { IF ~ok THEN "invalid" ELSE IF link[a] = "stop" THEN "stop" ELSE "run" :
        ok \in IF link[a] = "stop" THEN {TRUE} ELSE CallOutcomes(a) }

CycPoll ==
    LET a == cyc.port IN
    /\ cyc.pc = "poll"
    /\ \E s \in adsReadState(a) :
         LET up == s = "run" IN
         /\ adsStateOld' = [adsStateOld EXCEPT ![a] = adsState[a]]
         /\ adsState' = [adsState EXCEPT ![a] = s]
         /\ connectedOld' = [connectedOld EXCEPT ![a] = connected[a]]
         /\ connected' = [connected EXCEPT ![a] = up]
         /\ oneOK' = (oneOK \/ up)
         /\ cyc' = IF up /\ refreshNeeded[a] THEN [cyc EXCEPT !.pc = "refresh"]
                   ELSE IF connected[a] /\ ~up THEN [cyc EXCEPT !.pc = "lost"]
                   ELSE NextPort(a)
    /\ UNCHANGED <<plcVars, portVars, paramVars, published, driverVars,
                   bulkOK, sym, lock, next, seenGen>>

CycRefresh ==
    /\ cyc.pc = "refresh"
    /\ \/ RefreshLock("cyclic")
       \/ RefreshParam("cyclic", cyc.port)
       \/ RefreshDone("cyclic", cyc.port) /\ cyc' = NextPort(cyc.port) /\ UNCHANGED sym

CycInvalidate ==
    /\ cyc.pc = "lost"
    /\ invalidateParams(cyc.port)
    /\ cyc' = [cyc EXCEPT !.pc = "mark"]
    /\ UNCHANGED <<plcVars, pollVars, portVars, hSymbolicHandle, source, published,
                   driverVars, sym, oneOK, lock, next>>

(* port->refreshNeeded = true, outside of any lock.  The alarm that is     *)
(* then set on the parameters of the port is modelled in AdsValues.        *)
CycMark ==
    /\ cyc.pc = "mark"
    /\ refreshNeeded' = [refreshNeeded EXCEPT ![cyc.port] = TRUE]
    /\ cyc' = NextPort(cyc.port)
    /\ UNCHANGED <<plcVars, pollVars, bCallbackNotifyValid, paramVars, published,
                   driverVars, bulkOK, sym, oneOK, lock, next, seenGen>>

(* Mutant: only the state of a connected port is published.                *)
MutPublishOnlyConnected ==
    LET a == cyc.port IN
    /\ cyc.pc = "publish"
    /\ published' = [published EXCEPT ![a] = IF connected[a] THEN adsState[a] ELSE @]
    /\ cyc' = IF a < NPorts THEN [cyc EXCEPT !.port = a + 1] ELSE [pc |-> "end", port |-> 1]
    /\ UNCHANGED <<plcVars, pollVars, portVars, paramVars, driverVars,
                   bulkOK, sym, oneOK, lock, next, seenGen>>

(* port->paramInfo: set by every .AMSPORTSTATE. record of the port that is *)
(* parsed, so it names the last one; only that parameter is published.     *)
HasStateParam(a) == \E p \in Params : access[p] = "state" /\ portOf[p] = a

(* The second loop over the ports: a changed ADS state is written to the   *)
(* port's state parameter, if a record has one.                            *)
CycPublish ==
    LET a       == cyc.port
        changed == adsStateOld[a] # adsState[a]
    IN
    /\ cyc.pc = "publish"
    /\ IF changed /\ HasStateParam(a)
       THEN /\ lock = None
            /\ published' = [published EXCEPT ![a] = adsState[a]]
       ELSE UNCHANGED published
    /\ cyc' = IF a < NPorts THEN [cyc EXCEPT !.port = a + 1] ELSE [pc |-> "end", port |-> 1]
    /\ UNCHANGED <<plcVars, pollVars, portVars, paramVars, driverVars,
                   bulkOK, sym, oneOK, lock, next, seenGen>>

(* The end of a cycle with a given counter, and with oneOK after it. *)
EndWith(counter, ok) ==
    /\ cyc.pc = "end"
    /\ notConnectedCounter' = counter
    /\ exited' = (exited \/ counter > 1)
    /\ cyc' = [pc |-> "sleep", port |-> 1]
    /\ oneOK' = ok
    /\ UNCHANGED <<plcVars, pollVars, portVars, paramVars, published, connectedAds,
                   bulkOK, sym, lock, next, seenGen>>

(* Mutants: the counter is not reset by a good cycle; oneAmsConnectionOK   *)
(* is not reset for the next cycle.                                        *)
MutEndNoReset == EndWith(IF oneOK THEN notConnectedCounter ELSE notConnectedCounter + 1, FALSE)
MutEndKeepsOK == EndWith(IF oneOK THEN 0 ELSE notConnectedCounter + 1, oneOK)

(* The end of a cycle: count cycles without any connection, exit(-1) after *)
(* the second one, otherwise drop connectedAds_; disconnect and connect    *)
(* again only when bit 1 of the counter is set.                            *)
CycEnd ==
    LET counter == IF oneOK THEN 0 ELSE notConnectedCounter + 1 IN
    /\ cyc.pc = "end"
    /\ notConnectedCounter' = counter
    /\ IF counter > 1
       THEN exited' = TRUE /\ UNCHANGED connectedAds
       ELSE /\ UNCHANGED exited
            /\ connectedAds' \in IF ~oneOK /\ AutoConnect
                                 THEN IF counter % 4 \in {2, 3} THEN BOOLEAN ELSE {FALSE}
                                 ELSE {connectedAds}
    /\ cyc' = [pc |-> "sleep", port |-> 1]
    /\ oneOK' = FALSE
    /\ UNCHANGED <<plcVars, pollVars, portVars, paramVars, published,
                   bulkOK, sym, lock, next, seenGen>>

cyclicThread ==
    \/ CycWake \/ CycPoll \/ CycRefresh \/ CycInvalidate \/ CycMark
    \/ CycPublish \/ CycEnd

-----------------------------------------------------------------------------
(* exit(-1) ends every thread. *)
Terminated == exited /\ UNCHANGED vars

Next == cyclicThread \/ adsSymbolsChangedCallback \/ bulkReadThread \/ Plc \/ Terminated

Spec == Init /\ [][Next]_vars

(***************************************************************************)
(* Every driver thread that can go on eventually does: each loop sleeps a  *)
(* bounded time, every ADS call returns within adsTimeoutMS, and the asyn  *)
(* lock is released on every path.  Nothing is assumed of the PLC.         *)
(***************************************************************************)
Fairness ==
    /\ WF_vars(cyclicThread)
    /\ WF_vars(adsSymbolsChangedCallback)

FairSpec == Spec /\ Fairness

-----------------------------------------------------------------------------
(***************************************************************************)
(* Safety.                                                                 *)
(***************************************************************************)

(* A parameter looked up by name whose refreshNeeded is clear holds a      *)
(* handle, and feeds its record from a handle, that was obtained after the *)
(* last invalidation of its AMS port: no interleaving of the cyclic thread *)
(* and the symbols-changed callback lets refreshParams certify a handle    *)
(* from before the invalidation.                                           *)
RefreshedMeansCurrent ==
    \A p \in Params :
        access[p] = "name" /\ ~pRefresh[p] =>
            /\ hSymbolicHandle[p] >= seenGen[portOf[p]]
            /\ feed[p] # "poll" => source[p] = hSymbolicHandle[p]

(* exit(-1) is reached only when no AMS port was connected in either of    *)
(* the last two polls: a port that recovers in between keeps the IOC alive.*)
ExitNeedsTwoDeadPolls ==
    exited => \A a \in Ports : ~connected[a] /\ ~connectedOld[a]

(* The cycle's bookkeeping on which the exit rests: Polled ports are those *)
(* the running cycle has asked.  While the counter is 1, a port not yet    *)
(* polled was down in the last cycle and a polled one was down before its  *)
(* poll; without a success so far every polled port is down.               *)
Polled(a) ==
    \/ cyc.pc = "poll" /\ a < cyc.port
    \/ cyc.pc \in {"refresh", "lost", "mark"} /\ a <= cyc.port
    \/ cyc.pc \in {"publish", "end"}

DeadPollsCounted ==
    /\ exited => cyc.pc = "sleep"
    /\ ~exited => notConnectedCounter < 2
    /\ ~exited /\ notConnectedCounter = 1 =>
          \A a \in Ports : IF Polled(a) THEN ~connectedOld[a] ELSE ~connected[a]
    /\ ~oneOK => \A a \in Ports : Polled(a) => ~connected[a]

(* Between two cycles the .AMSPORTSTATE. parameter that port->paramInfo     *)
(* names shows the ADS state of the last poll: the cyclic thread publishes *)
(* every change it saw.  Nothing is said of a second state record of the   *)
(* same port: parsing it moves port->paramInfo, and the first is never     *)
(* updated again.                                                          *)
PublishedStateCurrent ==
    cyc.pc = "sleep" =>
        \A a \in Ports : HasStateParam(a) => published[a] = adsState[a]

(***************************************************************************)
(* Liveness.                                                               *)
(***************************************************************************)
AllRun  == \A a \in Ports : link[a] = "run"
AllGone == \A a \in Ports : link[a] = "gone"

(* If the PLC answers for good, the port level of the recovery completes:  *)
(* every lost port gets its symbol-version notification back, unless       *)
(* connectedAds_ was dropped or the IOC exited.                            *)
PortsReregister ==
    <>[]AllRun => <>[](exited \/ ~connectedAds \/ \A a \in Ports : ~refreshNeeded[a])

(* If the PLC stays away for good, the IOC exits (to be restarted).        *)
DeadPlcExits == <>[]AllGone => <>exited

(* "At reconnect all symbolic handles and callbacks will be reregistered": *)
(* if the PLC answers for good, no parameter keeps refreshNeeded.          *)
AllParamsReregister ==
    <>[]AllRun => <>[](exited \/ \A p \in Params : ~pRefresh[p])
=============================================================================
