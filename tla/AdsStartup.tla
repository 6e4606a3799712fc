----------------------------- MODULE AdsStartup -----------------------------
(***************************************************************************)
(* How adsAsynPortDriver.cpp gets its parameters at iocInit: asyn calls    *)
(* drvUserCreate for one record after the other.  The first call with a    *)
(* connection resolves the symbols of all records in blocks of one ADS sum *)
(* request (resolveSymbolInfo, resolveSymbolHandles); each call then makes *)
(* a parameter of the record's drvInfo, or fails at one of many points,    *)
(* some of which leave something behind.                                   *)
(*                                                                         *)
(* All calls come from the thread that runs iocInit, so a call is a        *)
(* sequence of steps that no other call interrupts.  The handle of a       *)
(* symbol is represented by the symbol's name.                             *)
(***************************************************************************)
EXTENDS Integers, Sequences, FiniteSets

CONSTANTS
    DrvInfos,     \* the drvInfo strings of the records of this asyn port
    info,         \* what is written in each of them, see Infos
    Names,        \* symbol names, in lower case
    DefaultPort,  \* amsportDefault_
    paramTableSize,
    CHUNK_SIZE,
    None          \* no handle, no parameter

(* ok: ends with ? or = (validateDrvInfo); parses: the options are well    *)
(* formed; cached: buildDrvInfoCache has understood the record's link;     *)
(* addrOK: asyn accepts the link's address.                                *)
Kinds == {"symbol", "adr", "state"}
Infos == [ok : BOOLEAN, parses : BOOLEAN, cached : BOOLEAN, addrOK : BOOLEAN,
          kind : Kinds, name : Names, amsPort : Nat]

ASSUME StartupAssumption ==
    /\ info \in [DrvInfos -> Infos] /\ None \notin Names /\ None \notin DrvInfos
    /\ IsFiniteSet(Names)
    /\ DefaultPort \in Nat
    /\ paramTableSize \in Nat \ {0} /\ CHUNK_SIZE \in Nat \ {0}

VARIABLES
    pc, job,                         \* step of the running call, and its drvInfo
    connectedAds, symInfoResolved,
    todo, chunk,                     \* symbols or entries of the sum requests; block index
    dict, handle,                    \* symbolDict_: its keys; handle of a resolved entry
    table,                           \* adsParamArray_[0 .. adsParamArrayCount_ - 1], from 1
    asynParams,                      \* asyn's parameter list, from 1
    createdParamsMap,                \* drvInfo to index of the parameter
    amsPortList,                     \* AMS ports in use, with the index of port->paramInfo
    reason,                          \* pasynUser->reason of the record, when its call succeeded
    unasked, short,                  \* history: symbols the PLC refused; a reply without some data
    misplaced, forgotten             \* history: refused by getAddress; refused state records

resolveVars == <<todo, chunk, dict, handle, unasked, short>>
tableVars   == <<table, asynParams, createdParamsMap, amsPortList, reason, misplaced, forgotten>>
vars == <<pc, job, connectedAds, symInfoResolved, resolveVars, tableVars>>

Slots == [drvInfo : DrvInfos \cup {None}, paramIndex : Nat, handle : Names \cup {None}]
AmsPorts == [amsPort : Nat, paramInfo : Nat]

(* The variables keep their types, and the last element of adsParamArray_  *)
(* is never used.                                                          *)
TypeOK ==
    /\ pc \in {"idle", "info", "handles", "create"} /\ job \in DrvInfos \cup {None}
    /\ pc # "idle" => job \in DrvInfos
    /\ connectedAds \in {"yes", "no"} /\ symInfoResolved \in {"yes", "no"}
    /\ todo \in Seq(Names) /\ chunk \in Nat
    /\ dict \subseteq Names /\ handle \in [Names -> Names \cup {None}]
    /\ table \in Seq(Slots) /\ Len(table) >= 1 /\ Len(table) <= paramTableSize
    /\ Len(table) > 1 => Len(table) < paramTableSize
    /\ asynParams \in Seq(DrvInfos \cup {None})
    /\ createdParamsMap \in [DrvInfos -> Nat]
    /\ amsPortList \in Seq(AmsPorts)
    /\ reason \in [DrvInfos -> Nat]
    /\ unasked \subseteq Names /\ short \in {"yes", "no"}
    /\ misplaced \subseteq DrvInfos /\ forgotten \subseteq DrvInfos

(* The constructor has made "Default access", parameter 0. *)
Init ==
    /\ pc = "idle" /\ job = None
    /\ connectedAds \in {"yes", "no"} /\ symInfoResolved = "no"
    /\ todo = <<>> /\ chunk = 0 /\ dict = {} /\ handle = [n \in Names |-> None]
    /\ table = <<[drvInfo |-> None, paramIndex |-> 0, handle |-> None]>>
    /\ asynParams = <<None>>
    /\ createdParamsMap = [d \in DrvInfos |-> 0]
    /\ amsPortList = <<>>
    /\ reason = [d \in DrvInfos |-> 0]
    /\ unasked = {} /\ short = "no" /\ misplaced = {} /\ forgotten = {}

-----------------------------------------------------------------------------
(* The symbols that resolveSymbolInfo collects: those of buildDrvInfoCache *)
(* without the .ADR. and .AMSPORTSTATE. commands, each once.               *)
Symbols == {info[d].name : d \in {e \in DrvInfos : info[e].cached /\ info[e].kind = "symbol"}}

(* The order of an unordered_map is any order. *)
Orders(S) == {s \in [1..Cardinality(S) -> S] : \A i, j \in DOMAIN s : s[i] = s[j] => i = j}

(* Mutant: a last block that is not full is left out. *)
MutChunks == Len(todo) \div CHUNK_SIZE

nChunks == (Len(todo) + CHUNK_SIZE - 1) \div CHUNK_SIZE

chunkStart == chunk * CHUNK_SIZE
chunkN ==
    IF chunkStart + CHUNK_SIZE <= Len(todo) THEN CHUNK_SIZE ELSE Len(todo) - chunkStart

(* The i-th entry of the block, from 1. *)
Entry(i) == todo[chunkStart + i]
Block == {Entry(i) : i \in 1..chunkN}

(* drvUserCreate is called for a record. *)
Call(d) ==
    /\ pc = "idle" /\ job' = d
    /\ \/ /\ symInfoResolved = "no" /\ connectedAds = "yes"
          /\ symInfoResolved' = "yes" /\ pc' = "info"
          /\ todo' \in Orders(Symbols) /\ chunk' = 0 /\ dict' = {}
          /\ UNCHANGED <<handle, unasked, short>>
       \/ /\ symInfoResolved = "yes" \/ connectedAds = "no"
          /\ pc' = "create"
          /\ UNCHANGED <<symInfoResolved, resolveVars>>
    /\ UNCHANGED <<connectedAds, tableVars>>

(* The end of resolveSymbolInfo: handles are resolved, if there is an      *)
(* entry to resolve.                                                       *)
InfoDone ==
    \/ /\ dict # {} /\ pc' = "handles" /\ todo' \in Orders(dict) /\ chunk' = 0
    \/ /\ dict = {} /\ pc' = "create" /\ todo' = <<>> /\ chunk' = 0

(* The symbols that the PLC describes become entries of the dictionary. *)
Described(bad) == dict' = dict \cup (Block \ bad) /\ unasked' = unasked \cup bad

(* resolveSymbolInfo, one block: the request fails as a whole, or for some *)
(* of the symbols, or the reply is longer than asked for.                  *)
resolveSymbolInfo ==
    /\ pc = "info"
    /\ \/ /\ chunk < nChunks /\ chunk' = chunk + 1
          /\ \E bad \in SUBSET Block : Described(bad)
          /\ UNCHANGED <<pc, todo>>
       \/ /\ chunk < nChunks    \* bytesRead > readBytes
          /\ unasked' = unasked \cup {todo[i] : i \in (chunkStart + 1)..Len(todo)}
          /\ InfoDone /\ UNCHANGED dict
       \/ chunk >= nChunks /\ InfoDone /\ UNCHANGED <<dict, unasked>>
    /\ UNCHANGED <<job, connectedAds, symInfoResolved, handle, short, tableVars>>

(* External: the k-th handle in the data of a sum reply, if there is one.  *)
(* A failed request contributes no data or an empty handle;                *)
(* resolveSymbolInfo relies on the same layout.                            *)
Reply(k, bad, silent) ==
    {Entry(i) : i \in {j \in (1..chunkN) \ bad : Cardinality((1..j) \ silent) = k}}

(* The k-th handle of the reply is given to the k-th entry of the block,   *)
(* unless its request failed.                                              *)
Given(n, bad, silent) ==
    UNION {Reply(k, bad, silent) : k \in {j \in (1..chunkN) \ bad : Entry(j) = n}}

(* resolveSymbolHandles, one block. *)
resolveSymbolHandles ==
    /\ pc = "handles"
    /\ \/ /\ chunk < nChunks /\ chunk' = chunk + 1 /\ UNCHANGED <<pc, todo, dict>>
          /\ \/ UNCHANGED <<handle, short>> /\ unasked' = unasked \cup Block    \* rc # 0
             \/ \E bad \in SUBSET (1..chunkN) : \E silent \in SUBSET bad :
                  /\ handle' = [n \in Names |->
                       IF Given(n, bad, silent) = {} THEN handle[n]
                       ELSE CHOOSE h \in Given(n, bad, silent) : TRUE]
                  /\ unasked' = unasked \cup {Entry(k) : k \in bad}
                  /\ short' = IF silent = {} THEN short ELSE "yes"
       \/ /\ chunk >= nChunks /\ pc' = "create" /\ todo' = <<>> /\ chunk' = 0
          /\ UNCHANGED <<dict, handle, unasked, short>>
    /\ UNCHANGED <<job, connectedAds, symInfoResolved, tableVars>>

-----------------------------------------------------------------------------
(* addNewAmsPortToList, and what a state command does with the port: the   *)
(* element after the last parameter becomes its paramInfo.                 *)
addNewAmsPortToList(list, a) ==
    IF \E i \in 1..Len(list) : list[i].amsPort = a THEN list
    ELSE Append(list, [amsPort |-> a, paramInfo |-> 0])

(* Mutant: the state command is looked at before the ADSPORT option. *)
MutParseStateFirst(d) ==
    LET list == addNewAmsPortToList(addNewAmsPortToList(amsPortList, DefaultPort), info[d].amsPort) IN
    IF info[d].kind # "state" THEN list
    ELSE [i \in 1..Len(list) |-> IF list[i].amsPort = DefaultPort
                                   THEN [list[i] EXCEPT !.paramInfo = Len(table)] ELSE list[i]]

parsePlcInfofromDrvInfo(d) ==
    LET list == addNewAmsPortToList(amsPortList, info[d].amsPort) IN
    IF info[d].kind # "state" THEN list
    ELSE [i \in 1..Len(list) |-> IF list[i].amsPort = info[d].amsPort
                                   THEN [list[i] EXCEPT !.paramInfo = Len(table)] ELSE list[i]]

(* updateParamInfoWithPLCInfo: the handle is taken from the dictionary, or *)
(* asked for by name, in which case the PLC may refuse.                    *)
FoundHandles(d) ==
    IF info[d].kind # "symbol" THEN {None}
    ELSE IF info[d].name \in dict /\ handle[info[d].name] # None THEN {handle[info[d].name]}
    ELSE {info[d].name}

Reject == pc' = "idle" /\ job' = None /\ UNCHANGED <<connectedAds, symInfoResolved, resolveVars>>

(* The drvInfo is not valid, the table is full, an option is not well      *)
(* formed: nothing is left behind.                                         *)
CreateRefused ==
    LET d == job IN
    /\ pc = "create"
    /\ \/ ~info[d].ok
       \/ createdParamsMap[d] = 0 /\ (Len(table) >= paramTableSize - 1 \/ ~info[d].parses)
    /\ Reject /\ UNCHANGED tableVars

(* The record uses a parameter that exists. *)
CreateKnown ==
    LET d == job IN
    /\ pc = "create" /\ info[d].ok /\ createdParamsMap[d] # 0
    /\ reason' = [reason EXCEPT ![d] = createdParamsMap[d]]
    /\ Reject
    /\ UNCHANGED <<table, asynParams, createdParamsMap, amsPortList, misplaced, forgotten>>

CanCreate(d) ==
    /\ pc = "create" /\ info[d].ok /\ createdParamsMap[d] = 0
    /\ Len(table) < paramTableSize - 1 /\ info[d].parses

(* Mutant: createParam comes before the search for the record. *)
MutCreateUnknownRecord ==
    LET d == job IN
    /\ CanCreate(d) /\ ~info[d].cached
    /\ amsPortList' = parsePlcInfofromDrvInfo(d)
    /\ asynParams' = Append(asynParams, d)
    /\ forgotten' = IF info[d].kind = "state" THEN forgotten \cup {d} ELSE forgotten
    /\ Reject
    /\ UNCHANGED <<table, createdParamsMap, reason, misplaced>>

(* getRecordInfoFromDrvInfo does not find the record: the AMS port stays.  *)
CreateUnknownRecord ==
    LET d == job IN
    /\ CanCreate(d) /\ ~info[d].cached
    /\ amsPortList' = parsePlcInfofromDrvInfo(d)
    /\ forgotten' = IF info[d].kind = "state" THEN forgotten \cup {d} ELSE forgotten
    /\ Reject
    /\ UNCHANGED <<table, asynParams, createdParamsMap, reason, misplaced>>

Listed(d) == \E i \in 1..Len(asynParams) : asynParams[i] = d

(* createParam fails for a name that asyn has; getAddress fails when asyn  *)
(* has the parameter already and the table has not.                        *)
CreateMisplaced ==
    LET d == job IN
    /\ CanCreate(d) /\ info[d].cached /\ (Listed(d) \/ ~info[d].addrOK)
    /\ amsPortList' = parsePlcInfofromDrvInfo(d)
    /\ asynParams' = IF Listed(d) THEN asynParams ELSE Append(asynParams, d)
    /\ misplaced' = misplaced \cup {d}
    /\ Reject
    /\ UNCHANGED <<table, createdParamsMap, reason, forgotten>>

(* The parameter is made; connect may succeed now.  The call still fails,  *)
(* with the parameter in the table, if the PLC refuses the symbol.         *)
Created(found) ==
    LET d == job IN
    /\ CanCreate(d) /\ info[d].cached /\ ~Listed(d) /\ info[d].addrOK
    /\ amsPortList' = parsePlcInfofromDrvInfo(d)
    /\ asynParams' = Append(asynParams, d)
    /\ table' = Append(table, [drvInfo |-> d, paramIndex |-> Len(asynParams), handle |-> found])
    /\ createdParamsMap' = [createdParamsMap EXCEPT ![d] = Len(asynParams)]
    /\ pc' = "idle" /\ job' = None
    /\ UNCHANGED <<symInfoResolved, resolveVars, misplaced, forgotten>>

CreateConnected ==
    /\ pc = "create" /\ connectedAds' = "yes"
    /\ \E found \in FoundHandles(job) : Created(found)
    /\ reason' = [reason EXCEPT ![job] = Len(asynParams)]

CreateFailed ==
    /\ pc = "create" /\ connectedAds' = "yes" /\ info[job].kind # "state"
    /\ \E found \in FoundHandles(job) \cup {None} : Created(found)
    /\ UNCHANGED reason

CreateOffline ==
    /\ pc = "create" /\ connectedAds = "no" /\ connectedAds' = "no"
    /\ Created(None)
    /\ reason' = [reason EXCEPT ![job] = Len(asynParams)]

drvUserCreate ==
    \/ CreateRefused \/ CreateKnown \/ CreateUnknownRecord \/ CreateMisplaced
    \/ CreateConnected \/ CreateFailed \/ CreateOffline

Next == (\E d \in DrvInfos : Call(d)) \/ resolveSymbolInfo \/ resolveSymbolHandles \/ drvUserCreate

Spec == Init /\ [][Next]_vars

-----------------------------------------------------------------------------
(* Until getAddress has refused a record, the reason that asyn gives to a  *)
(* record finds the parameter of the record's drvInfo in adsParamArray_:   *)
(* asyn's list and the table are filled in step by drvUserCreate, whatever *)
(* else fails.                                                             *)
ReasonFindsParam ==
    misplaced = {} =>
        \A d \in DrvInfos : reason[d] # 0 =>
            reason[d] < Len(table) /\ table[reason[d] + 1].drvInfo = d

(* Until a state record has been refused, the parameter in which a port's  *)
(* state is published is the state parameter of that port.                 *)
StatePublishedOwn ==
    misplaced = {} /\ forgotten = {} =>
        \A i \in 1..Len(amsPortList) :
            LET p == amsPortList[i].paramInfo IN
            p # 0 => /\ p < Len(table)
                     /\ table[p + 1].drvInfo \in DrvInfos
                     /\ info[table[p + 1].drvInfo].kind = "state"
                     /\ info[table[p + 1].drvInfo].amsPort = amsPortList[i].amsPort

(* Once the blocks of resolveSymbolInfo and resolveSymbolHandles are done, *)
(* every symbol of the records has its handle in the dictionary or was     *)
(* refused by the PLC, if no reply lacked data.                            *)
ResolvedOrRefused ==
    pc \in {"idle", "create"} /\ symInfoResolved = "yes" /\ short = "no" =>
        \A n \in Symbols : n \in unasked \/ (n \in dict /\ handle[n] = n)
=============================================================================
