-------------------------- MODULE AdsStartupProofs --------------------------
(* Proofs about AdsStartup, for any records, symbols and block size. *)
EXTENDS AdsStartup, FiniteSetTheorems, TLAPS

USE StartupAssumption DEF StartupAssumption

(* asyn's list and adsParamArray_ have the same length while getAddress    *)
(* has refused no record, so a new parameter gets the index of its slot.   *)
Aligned == misplaced = {} => Len(asynParams) = Len(table)

(* The index stored in createdParamsMap_ is that of the drvInfo's slot. *)
MapFindsParam ==
    misplaced = {} =>
        \A d \in DrvInfos : createdParamsMap[d] # 0 =>
            createdParamsMap[d] < Len(table) /\ table[createdParamsMap[d] + 1].drvInfo = d

IInv == TypeOK /\ Aligned /\ MapFindsParam /\ ReasonFindsParam /\ StatePublishedOwn

(* A collection of the symbols in some order is a sequence of names. *)
LEMMA OrdersAreSequences ==
    ASSUME NEW S \in SUBSET Names
    PROVE  Orders(S) \subseteq Seq(Names)
<1>1. IsFiniteSet(S) BY FS_Subset
<1>2. Cardinality(S) \in Nat BY <1>1, FS_CardinalityType
<1>3. SUFFICES ASSUME NEW s \in Orders(S) PROVE s \in Seq(Names) OBVIOUS
<1>4. s \in [1..Cardinality(S) -> S] BY <1>3 DEF Orders
<1> QED BY <1>2, <1>4

(* The symbols of the records are names. *)
LEMMA SymbolsAreNames == Symbols \subseteq Names
BY DEF Symbols, Infos

(* An entry of the current block is an element of the collected sequence. *)
LEMMA EntriesAreNames ==
    ASSUME TypeOK
    PROVE  /\ chunkN \in Int
           /\ \A i \in 1..chunkN : Entry(i) \in Names
           /\ \A i \in (chunkStart + 1)..Len(todo) : todo[i] \in Names
<1>1. chunkStart \in Nat BY DEF TypeOK, chunkStart
<1>2. Len(todo) \in Nat /\ todo \in [1..Len(todo) -> Names] BY DEF TypeOK
<1>3. chunkN \in Int /\ \A i \in 1..chunkN : chunkStart + i \in 1..Len(todo)
  BY <1>1, <1>2 DEF chunkN
<1>4. \A i \in 1..chunkN : Entry(i) \in Names
  <2> SUFFICES ASSUME NEW i \in 1..chunkN PROVE todo[chunkStart + i] \in Names BY DEF Entry
  <2>1. chunkStart + i \in 1..Len(todo) BY <1>3
  <2> QED BY <1>2, <2>1
<1>5. \A i \in (chunkStart + 1)..Len(todo) : todo[i] \in Names
  <2> SUFFICES ASSUME NEW i \in (chunkStart + 1)..Len(todo) PROVE todo[i] \in Names OBVIOUS
  <2>1. i \in 1..Len(todo) BY <1>1, <1>2
  <2> QED BY <1>2, <2>1
<1> QED BY <1>3, <1>4, <1>5

(* A reply to the requests of the current block holds handles of symbols. *)
LEMMA RepliesAreNames ==
    ASSUME TypeOK, NEW k, NEW bad, NEW silent
    PROVE  Reply(k, bad, silent) \subseteq Names
BY EntriesAreNames DEF Reply

(* The list of AMS ports stays one, and a port that is added has no state  *)
(* parameter; a state command gives its own port the slot after the last   *)
(* parameter and leaves the other ports alone.                             *)
LEMMA PortsParsed ==
    ASSUME TypeOK, NEW d \in DrvInfos
    PROVE  LET list == parsePlcInfofromDrvInfo(d) IN
           /\ list \in Seq(AmsPorts)
           /\ \A i \in 1..Len(list) :
                \/ list[i].paramInfo = 0
                \/ i \in 1..Len(amsPortList) /\ list[i] = amsPortList[i]
                \/ /\ info[d].kind = "state" /\ list[i].amsPort = info[d].amsPort
                   /\ list[i].paramInfo = Len(table)
<1> DEFINE a == info[d].amsPort
           new == addNewAmsPortToList(amsPortList, a)
           list == parsePlcInfofromDrvInfo(d)
<1>1. a \in Nat /\ Len(table) \in Nat BY DEF TypeOK, Infos
<1>2. new \in Seq(AmsPorts) /\ \A i \in 1..Len(new) :
        \/ new[i].paramInfo = 0
        \/ i \in 1..Len(amsPortList) /\ new[i] = amsPortList[i]
  <2> DEFINE entry == [amsPort |-> a, paramInfo |-> 0]
  <2>1. entry \in AmsPorts /\ entry.paramInfo = 0 BY <1>1 DEF AmsPorts
  <2>2. CASE new = amsPortList BY <2>2 DEF TypeOK
  <2>3. CASE new = Append(amsPortList, entry)
    <3> HIDE DEF entry, new
    <3>1. amsPortList \in Seq(AmsPorts) BY DEF TypeOK
    <3>2. Len(new) = Len(amsPortList) + 1 /\ new \in Seq(AmsPorts) BY <2>1, <2>3, <3>1
    <3>3. \A i \in 1..Len(amsPortList) : new[i] = amsPortList[i] BY <2>1, <2>3, <3>1
    <3>4. new[Len(amsPortList) + 1] = entry BY <2>1, <2>3, <3>1
    <3> QED BY <2>1, <3>1, <3>2, <3>3, <3>4
  <2> QED BY <2>2, <2>3 DEF addNewAmsPortToList
<1>3. CASE info[d].kind # "state"
  <2>1. list = new BY <1>3 DEF parsePlcInfofromDrvInfo
  <2> HIDE DEF new, list
  <2> QED BY <1>2, <2>1 DEF list
<1>4. CASE info[d].kind = "state"
  <2>1. list = [i \in 1..Len(new) |-> IF new[i].amsPort = a
                 THEN [new[i] EXCEPT !.paramInfo = Len(table)] ELSE new[i]]
    BY <1>4 DEF parsePlcInfofromDrvInfo
  <2> HIDE DEF new, list, a
  <2>2. Len(new) \in Nat BY <1>2
  <2>3. \A i \in 1..Len(new) : new[i] \in AmsPorts BY <1>2
  <2>4. \A i \in 1..Len(new) :
          /\ list[i] \in AmsPorts
          /\ list[i] = new[i] \/ (list[i].amsPort = a /\ list[i].paramInfo = Len(table))
    BY <1>1, <2>1, <2>3 DEF AmsPorts
  <2>5. list \in Seq(AmsPorts) /\ Len(list) = Len(new) BY <2>1, <2>2, <2>4
  <2> QED BY <1>2, <1>4, <2>4, <2>5 DEF a, list
<1> QED BY <1>3, <1>4

(* The initial state: only "Default access" in the table. *)
LEMMA InitIInv == Init => IInv
<1> SUFFICES ASSUME Init PROVE IInv OBVIOUS
<1> DEFINE slot == [drvInfo |-> None, paramIndex |-> 0, handle |-> None]
<1>1. slot \in Slots /\ <<slot>> \in Seq(Slots) /\ Len(<<slot>>) = 1 BY DEF Slots
<1>2. <<None>> \in Seq(DrvInfos \cup {None}) /\ Len(<<None>>) = 1 OBVIOUS
<1>3. table = <<slot>> /\ asynParams = <<None>> BY DEF Init
<1> HIDE DEF slot
<1>4. TypeOK BY <1>1, <1>2, <1>3 DEF Init, TypeOK
<1>5. Aligned BY <1>1, <1>2, <1>3 DEF Aligned
<1>6. MapFindsParam /\ ReasonFindsParam /\ StatePublishedOwn
  BY DEF Init, MapFindsParam, ReasonFindsParam, StatePublishedOwn
<1> QED BY <1>4, <1>5, <1>6 DEF IInv

(* A step that leaves the table alone keeps everything but the types. *)
LEMMA TableUntouched ==
    ASSUME IInv, TypeOK', UNCHANGED tableVars
    PROVE  IInv'
BY DEF IInv, Aligned, MapFindsParam, ReasonFindsParam, StatePublishedOwn, tableVars

(* The call of a record collects names only. *)
LEMMA CallStep ==
    ASSUME IInv, NEW d \in DrvInfos, Call(d)
    PROVE  IInv'
<1>1. TypeOK BY DEF IInv
<1>2. todo' \in Seq(Names) /\ chunk' \in Nat /\ dict' \subseteq Names
  <2>1. Orders(Symbols) \subseteq Seq(Names) BY SymbolsAreNames, OrdersAreSequences
  <2> QED BY <1>1, <2>1 DEF Call, TypeOK, resolveVars
<1>3. TypeOK' BY <1>1, <1>2 DEF Call, TypeOK, resolveVars, tableVars
<1> QED BY <1>3, TableUntouched DEF Call

(* A block of resolveSymbolInfo adds names to the dictionary. *)
LEMMA InfoStep ==
    ASSUME IInv, resolveSymbolInfo
    PROVE  IInv'
<1>1. TypeOK /\ job \in DrvInfos BY DEF IInv, TypeOK, resolveSymbolInfo
<1>2. Block \subseteq Names BY <1>1, EntriesAreNames DEF Block
<1>3. dict' \subseteq Names /\ unasked' \subseteq Names
  <2>0. dict \subseteq Names /\ unasked \subseteq Names BY <1>1 DEF TypeOK
  <2>1. {todo[i] : i \in (chunkStart + 1)..Len(todo)} \subseteq Names
    BY <1>1, EntriesAreNames
  <2>2. \/ \E bad \in SUBSET Block : Described(bad)
        \/ dict' = dict /\ unasked' = unasked \cup {todo[i] : i \in (chunkStart + 1)..Len(todo)}
        \/ dict' = dict /\ unasked' = unasked
    BY DEF resolveSymbolInfo
  <2>3. CASE \E bad \in SUBSET Block : Described(bad)
    BY <1>2, <2>0, <2>3 DEF Described
  <2> HIDE DEF chunkStart
  <2> QED BY <2>0, <2>1, <2>2, <2>3
<1>4. todo' \in Seq(Names) /\ chunk' \in Nat /\ pc' \in {"info", "handles", "create"}
  <2>1. Orders(dict) \subseteq Seq(Names) BY <1>1, OrdersAreSequences DEF TypeOK
  <2>2. InfoDone => todo' \in Seq(Names) /\ chunk' \in Nat /\ pc' \in {"handles", "create"}
    <3>1. dict # {} /\ todo' \in Orders(dict) => todo' \in Seq(Names) BY <2>1
    <3>2. todo' = <<>> => todo' \in Seq(Names) OBVIOUS
    <3> HIDE DEF Orders
    <3> QED BY <3>1, <3>2 DEF InfoDone
  <2> QED BY <1>1, <2>2 DEF resolveSymbolInfo, TypeOK
<1>5. TypeOK' BY <1>1, <1>3, <1>4 DEF resolveSymbolInfo, TypeOK, tableVars
<1> QED BY <1>5, TableUntouched DEF resolveSymbolInfo

(* A block of resolveSymbolHandles gives out handles of symbols. *)
LEMMA HandlesStep ==
    ASSUME IInv, resolveSymbolHandles
    PROVE  IInv'
<1>1. TypeOK /\ job \in DrvInfos BY DEF IInv, TypeOK, resolveSymbolHandles
<1>2. Block \subseteq Names BY <1>1, EntriesAreNames DEF Block
<1>3. CASE chunk >= nChunks /\ pc' = "create" /\ todo' = <<>> /\ chunk' = 0
           /\ UNCHANGED <<dict, handle, unasked, short>>
  <2>1. TypeOK' BY <1>1, <1>3 DEF resolveSymbolHandles, TypeOK, tableVars
  <2> QED BY <2>1, TableUntouched DEF resolveSymbolHandles
<1>4. CASE chunk' = chunk + 1 /\ UNCHANGED <<pc, todo, dict, handle, short>>
           /\ unasked' = unasked \cup Block
  <2>1. TypeOK' BY <1>1, <1>2, <1>4 DEF resolveSymbolHandles, TypeOK, tableVars
  <2> QED BY <2>1, TableUntouched DEF resolveSymbolHandles
<1>5. ASSUME NEW bad \in SUBSET (1..chunkN), NEW silent \in SUBSET bad,
             chunk' = chunk + 1, UNCHANGED <<pc, todo, dict>>,
             handle' = [n \in Names |-> IF Given(n, bad, silent) = {} THEN handle[n]
                                        ELSE CHOOSE h \in Given(n, bad, silent) : TRUE],
             unasked' = unasked \cup {Entry(k) : k \in bad},
             short' = IF silent = {} THEN short ELSE "yes"
      PROVE  IInv'
  <2>1. \A n : Given(n, bad, silent) \subseteq Names BY <1>1, RepliesAreNames DEF Given
  <2>2. handle' \in [Names -> Names \cup {None}] BY <1>1, <1>5, <2>1 DEF TypeOK
  <2>3. unasked' \subseteq Names BY <1>1, <1>5, EntriesAreNames DEF TypeOK
  <2>4. TypeOK' BY <1>1, <1>5, <2>2, <2>3 DEF resolveSymbolHandles, TypeOK, tableVars
  <2> QED BY <2>4, TableUntouched DEF resolveSymbolHandles
<1> QED BY <1>3, <1>4, <1>5 DEF resolveSymbolHandles

(* What a list with one more element looks like. *)
LEMMA Appended ==
    ASSUME NEW S, NEW s \in Seq(S), NEW e \in S, NEW t, t = Append(s, e)
    PROVE  /\ t \in Seq(S) /\ Len(t) = Len(s) + 1 /\ Len(s) \in Nat
           /\ t[Len(s) + 1] = e
           /\ \A i \in 1..Len(s) : t[i] = s[i]
OBVIOUS

(* The table grows by the slot of the record's drvInfo, asyn's list grows  *)
(* by the same drvInfo, and older indices are not disturbed.               *)
LEMMA CreatedStep ==
    ASSUME IInv, NEW found \in Names \cup {None}, Created(found),
           connectedAds' \in {"yes", "no"},
           \/ reason' = [reason EXCEPT ![job] = Len(asynParams)]
           \/ UNCHANGED reason
    PROVE  IInv'
<1> DEFINE d == job
           slot == [drvInfo |-> d, paramIndex |-> Len(asynParams), handle |-> found]
           list == parsePlcInfofromDrvInfo(d)
<1>1. TypeOK /\ d \in DrvInfos BY DEF IInv, TypeOK, Created, CanCreate
<1>2. Len(asynParams) \in Nat /\ Len(table) \in Nat BY <1>1 DEF TypeOK
<1>3. slot \in Slots /\ slot.drvInfo = d BY <1>1, <1>2 DEF Slots
<1>4. table' = Append(table, slot) /\ asynParams' = Append(asynParams, d)
      /\ createdParamsMap' = [createdParamsMap EXCEPT ![d] = Len(asynParams)]
      /\ amsPortList' = list /\ Len(table) < paramTableSize - 1
      /\ misplaced' = misplaced /\ forgotten' = forgotten
  BY DEF Created, CanCreate
<1>5. /\ list \in Seq(AmsPorts)
      /\ \A i \in 1..Len(list) :
           \/ list[i].paramInfo = 0
           \/ i \in 1..Len(amsPortList) /\ list[i] = amsPortList[i]
           \/ /\ info[d].kind = "state" /\ list[i].amsPort = info[d].amsPort
              /\ list[i].paramInfo = Len(table)
  BY <1>1, PortsParsed
<1> HIDE DEF slot, list
<1>6. /\ table' \in Seq(Slots) /\ Len(table') = Len(table) + 1
      /\ table'[Len(table) + 1] = slot
      /\ \A i \in 1..Len(table) : table'[i] = table[i]
  BY <1>1, <1>3, <1>4, Appended DEF TypeOK
<1>7. asynParams' \in Seq(DrvInfos \cup {None}) /\ Len(asynParams') = Len(asynParams) + 1
  BY <1>1, <1>4, Appended DEF TypeOK
<1>8. TypeOK'
  <2>1. createdParamsMap' \in [DrvInfos -> Nat] /\ reason' \in [DrvInfos -> Nat]
    BY <1>1, <1>2, <1>4 DEF TypeOK
  <2>2. Len(table') >= 1 /\ Len(table') <= paramTableSize /\ Len(table') < paramTableSize
    BY <1>2, <1>4, <1>6
  <2> QED BY <1>1, <1>4, <1>5, <1>6, <1>7, <2>1, <2>2 DEF Created, TypeOK, resolveVars
<1>9. Aligned' BY <1>4, <1>6, <1>7 DEF IInv, Aligned
<1>10. MapFindsParam' /\ ReasonFindsParam'
  <2>1. SUFFICES ASSUME misplaced = {} PROVE MapFindsParam' /\ ReasonFindsParam'
    BY <1>4 DEF MapFindsParam, ReasonFindsParam
  <2>2. Len(asynParams) = Len(table) BY <2>1 DEF IInv, Aligned
  <2>3. ASSUME NEW e \in DrvInfos, NEW k \in Nat, k # 0,
               (k = Len(table) /\ e = d) \/ (k < Len(table) /\ table[k + 1].drvInfo = e)
        PROVE  k < Len(table') /\ table'[k + 1].drvInfo = e
    BY <1>2, <1>3, <1>6, <2>3
  <2>4. \A e \in DrvInfos : createdParamsMap'[e] # 0 =>
          \/ createdParamsMap'[e] = Len(table) /\ e = d
          \/ createdParamsMap'[e] < Len(table) /\ table[createdParamsMap'[e] + 1].drvInfo = e
    BY <1>1, <1>4, <2>1, <2>2 DEF IInv, MapFindsParam, TypeOK
  <2>5. \A e \in DrvInfos : reason'[e] # 0 =>
          \/ reason'[e] = Len(table) /\ e = d
          \/ reason'[e] < Len(table) /\ table[reason'[e] + 1].drvInfo = e
    BY <1>1, <1>4, <2>1, <2>2 DEF IInv, ReasonFindsParam, TypeOK
  <2>6. \A e \in DrvInfos : createdParamsMap'[e] \in Nat /\ reason'[e] \in Nat
    BY <1>8 DEF TypeOK
  <2>7. MapFindsParam'
    <3> SUFFICES ASSUME NEW e \in DrvInfos, createdParamsMap'[e] # 0
                 PROVE  /\ createdParamsMap'[e] < Len(table')
                        /\ table'[createdParamsMap'[e] + 1].drvInfo = e
      BY DEF MapFindsParam
    <3> DEFINE k == createdParamsMap'[e]
    <3>1. k \in Nat /\ k # 0 BY <2>6
    <3>2. (k = Len(table) /\ e = d) \/ (k < Len(table) /\ table[k + 1].drvInfo = e) BY <2>4
    <3> HIDE DEF k
    <3>3. k < Len(table') /\ table'[k + 1].drvInfo = e BY <2>3, <3>1, <3>2
    <3> QED BY <3>3 DEF k
  <2>8. ReasonFindsParam'
    <3> SUFFICES ASSUME NEW e \in DrvInfos, reason'[e] # 0
                 PROVE  reason'[e] < Len(table') /\ table'[reason'[e] + 1].drvInfo = e
      BY DEF ReasonFindsParam
    <3> DEFINE k == reason'[e]
    <3>1. k \in Nat /\ k # 0 BY <2>6
    <3>2. (k = Len(table) /\ e = d) \/ (k < Len(table) /\ table[k + 1].drvInfo = e) BY <2>5
    <3> HIDE DEF k
    <3>3. k < Len(table') /\ table'[k + 1].drvInfo = e BY <2>3, <3>1, <3>2
    <3> QED BY <3>3 DEF k
  <2> QED BY <2>7, <2>8
<1>11. StatePublishedOwn'
  <2>1. SUFFICES ASSUME misplaced = {}, forgotten = {}, NEW i \in 1..Len(list),
                        list[i].paramInfo # 0
                 PROVE  LET p == list[i].paramInfo IN
                        /\ p < Len(table') /\ table'[p + 1].drvInfo \in DrvInfos
                        /\ info[table'[p + 1].drvInfo].kind = "state"
                        /\ info[table'[p + 1].drvInfo].amsPort = list[i].amsPort
    BY <1>4 DEF StatePublishedOwn
  <2>2. CASE i \in 1..Len(amsPortList) /\ list[i] = amsPortList[i]
    <3> DEFINE p == amsPortList[i].paramInfo
    <3>1. /\ p < Len(table) /\ table[p + 1].drvInfo \in DrvInfos
          /\ info[table[p + 1].drvInfo].kind = "state"
          /\ info[table[p + 1].drvInfo].amsPort = amsPortList[i].amsPort
      BY <2>1, <2>2 DEF IInv, StatePublishedOwn
    <3>2. p \in Nat
      <4>1. amsPortList[i] \in AmsPorts BY <1>1, <2>2 DEF TypeOK
      <4> QED BY <4>1 DEF AmsPorts
    <3>3. table'[p + 1] = table[p + 1] /\ p < Len(table') BY <1>2, <1>6, <3>1, <3>2
    <3> QED BY <2>2, <3>1, <3>3
  <2>3. CASE /\ info[d].kind = "state" /\ list[i].amsPort = info[d].amsPort
             /\ list[i].paramInfo = Len(table)
    BY <1>1, <1>2, <1>3, <1>6, <2>3
  <2> QED BY <1>5, <2>1, <2>2, <2>3
<1> QED BY <1>8, <1>9, <1>10, <1>11 DEF IInv

(* A call that is refused after the options were parsed may add a port to  *)
(* the list, or leave a state port with a slot that is not used; then the  *)
(* record is in the history of refused ones.                               *)
LEMMA RefusedStep ==
    ASSUME IInv, CreateRefused \/ CreateUnknownRecord \/ CreateMisplaced
    PROVE  IInv'
<1>1. TypeOK /\ job \in DrvInfos
  BY DEF IInv, TypeOK, CreateRefused, CreateUnknownRecord, CreateMisplaced, CanCreate
<1>2. CASE CreateRefused
  <2>1. TypeOK' BY <1>1, <1>2 DEF CreateRefused, Reject, TypeOK, tableVars, resolveVars
  <2> QED BY <1>2, <2>1, TableUntouched DEF CreateRefused
<1>3. CASE CreateUnknownRecord
  <2> DEFINE list == parsePlcInfofromDrvInfo(job)
  <2>1. /\ list \in Seq(AmsPorts)
        /\ \A i \in 1..Len(list) :
             \/ list[i].paramInfo = 0
             \/ i \in 1..Len(amsPortList) /\ list[i] = amsPortList[i]
             \/ info[job].kind = "state"
    BY <1>1, PortsParsed
  <2>2. amsPortList' = list /\ (info[job].kind = "state" => job \in forgotten')
        /\ (info[job].kind # "state" => forgotten' = forgotten)
        /\ forgotten' \subseteq forgotten \cup {job}
    BY <1>3 DEF CreateUnknownRecord
  <2> HIDE DEF list
  <2>3. TypeOK' BY <1>1, <1>3, <2>1, <2>2 DEF CreateUnknownRecord, Reject, TypeOK, resolveVars
  <2>4. (Aligned /\ MapFindsParam /\ ReasonFindsParam)'
    BY <1>3 DEF CreateUnknownRecord, IInv, Aligned, MapFindsParam, ReasonFindsParam
  <2>5. StatePublishedOwn'
    <3>1. CASE info[job].kind = "state" BY <2>2, <3>1 DEF StatePublishedOwn
    <3>2. CASE info[job].kind # "state"
      BY <1>3, <2>1, <2>2, <3>2 DEF CreateUnknownRecord, IInv, StatePublishedOwn
    <3> QED BY <3>1, <3>2
  <2> QED BY <2>3, <2>4, <2>5 DEF IInv
<1>4. CASE CreateMisplaced
  <2>1. parsePlcInfofromDrvInfo(job) \in Seq(AmsPorts) BY <1>1, PortsParsed
  <2>2. asynParams' \in Seq(DrvInfos \cup {None})
    <3>1. asynParams \in Seq(DrvInfos \cup {None}) BY <1>1 DEF TypeOK
    <3>2. asynParams' = asynParams \/ asynParams' = Append(asynParams, job)
      BY <1>4 DEF CreateMisplaced
    <3> QED BY <1>1, <3>1, <3>2, Appended
  <2>3. TypeOK' BY <1>1, <1>4, <2>1, <2>2 DEF CreateMisplaced, Reject, TypeOK, resolveVars
  <2>4. job \in misplaced' BY <1>4 DEF CreateMisplaced
  <2> QED BY <2>3, <2>4 DEF IInv, Aligned, MapFindsParam, ReasonFindsParam, StatePublishedOwn
<1> QED BY <1>2, <1>3, <1>4

(* A record that shares a parameter gets the index of createdParamsMap_. *)
LEMMA KnownStep ==
    ASSUME IInv, CreateKnown
    PROVE  IInv'
<1>1. TypeOK /\ job \in DrvInfos BY DEF IInv, TypeOK, CreateKnown
<1>2. TypeOK' BY <1>1 DEF CreateKnown, Reject, TypeOK, resolveVars
<1>3. ReasonFindsParam'
  BY <1>1 DEF CreateKnown, IInv, MapFindsParam, ReasonFindsParam, TypeOK
<1>4. (Aligned /\ MapFindsParam /\ StatePublishedOwn)'
  BY DEF CreateKnown, IInv, Aligned, MapFindsParam, StatePublishedOwn
<1> QED BY <1>2, <1>3, <1>4 DEF IInv

(* The handles that a new parameter can get are names. *)
LEMMA FoundAreNames ==
    ASSUME TypeOK, NEW d \in DrvInfos
    PROVE  FoundHandles(d) \subseteq Names \cup {None}
BY DEF FoundHandles, TypeOK, Infos

(* Every step keeps the invariant. *)
LEMMA NextIInv == IInv /\ [Next]_vars => IInv'
<1> SUFFICES ASSUME IInv, [Next]_vars PROVE IInv' OBVIOUS
<1>1. CASE UNCHANGED vars
  <2>1. TypeOK' BY <1>1 DEF IInv, TypeOK, vars, resolveVars, tableVars
  <2> QED BY <1>1, <2>1, TableUntouched DEF vars
<1>2. ASSUME NEW d \in DrvInfos, Call(d) PROVE IInv' BY <1>2, CallStep
<1>3. CASE resolveSymbolInfo BY <1>3, InfoStep
<1>4. CASE resolveSymbolHandles BY <1>4, HandlesStep
<1>5. CASE CreateRefused \/ CreateUnknownRecord \/ CreateMisplaced BY <1>5, RefusedStep
<1>6. CASE CreateKnown BY <1>6, KnownStep
<1>7. ASSUME CreateConnected \/ CreateFailed \/ CreateOffline PROVE IInv'
  <2>1. TypeOK /\ job \in DrvInfos
    BY <1>7 DEF IInv, TypeOK, CreateConnected, CreateFailed, CreateOffline
  <2>2. FoundHandles(job) \subseteq Names \cup {None} BY <2>1, FoundAreNames
  <2>3. CASE CreateConnected BY <2>2, <2>3, CreatedStep DEF CreateConnected
  <2>4. CASE CreateFailed BY <2>2, <2>4, CreatedStep DEF CreateFailed
  <2>5. CASE CreateOffline BY <2>5, CreatedStep DEF CreateOffline
  <2> QED BY <1>7, <2>3, <2>4, <2>5
<1> QED BY <1>1, <1>2, <1>3, <1>4, <1>5, <1>6, <1>7 DEF Next, drvUserCreate

(* The inductive invariant holds in every reachable state. *)
THEOREM StartupInvariant == Spec => []IInv
BY InitIInv, NextIInv, PTL DEF Spec

(* Types, and the margin of adsParamArray_, for any size of the table. *)
THEOREM StartupTypeOK == Spec => []TypeOK
<1>1. IInv => TypeOK BY DEF IInv
<1> QED BY <1>1, StartupInvariant, PTL

(* The reason that asyn gives to a record finds the record's parameter in  *)
(* adsParamArray_ (getAdsParamInfo), as long as getAddress refuses none.   *)
THEOREM ReasonsFindParams == Spec => []ReasonFindsParam
<1>1. IInv => ReasonFindsParam BY DEF IInv
<1> QED BY <1>1, StartupInvariant, PTL

(* A port's state is published in a state parameter of that port, as long  *)
(* as no state record is refused.                                          *)
THEOREM StatesPublishedOwn == Spec => []StatePublishedOwn
<1>1. IInv => StatePublishedOwn BY DEF IInv
<1> QED BY <1>1, StartupInvariant, PTL

-----------------------------------------------------------------------------
(* The rest of the symbols: n is in a block that has not been asked for.   *)
Rest(n) == \E i \in (chunkStart + 1)..Len(todo) : todo[i] = n

(* Between the blocks no symbol is lost: it is refused, or done, or in one *)
(* of the blocks to come.                                                  *)
InfoPending ==
    pc = "info" => \A n \in Symbols : n \in unasked \/ n \in dict \/ Rest(n)
HandlesPending ==
    pc = "handles" /\ short = "no" =>
        \A n \in Symbols : n \in unasked \/ (n \in dict /\ (handle[n] = n \/ Rest(n)))

Resolving == InfoPending /\ HandlesPending /\ ResolvedOrRefused

(* Every element of a set is somewhere in any order of it. *)
LEMMA OrdersCover ==
    ASSUME NEW S \in SUBSET Names, NEW s \in Orders(S), NEW n \in S
    PROVE  \E i \in 1..Len(s) : s[i] = n
<1> DEFINE c == Cardinality(S)
<1>1. IsFiniteSet(S) /\ c \in Nat BY FS_Subset, FS_CardinalityType
<1>2. s \in [1..c -> S] /\ \A i, j \in 1..c : s[i] = s[j] => i = j BY DEF Orders
<1>3. Len(s) = c BY <1>1, <1>2
<1>4. SUFFICES ASSUME \A i \in 1..c : s[i] # n PROVE FALSE BY <1>3
<1>5. IsFiniteSet(S \ {n}) /\ Cardinality(S \ {n}) = c - 1 BY <1>1, FS_RemoveElement
<1>6. IsFiniteSet(1..c) /\ Cardinality(1..c) = c BY <1>1, FS_Interval
<1> HIDE DEF c
<1>7. s \in [1..c -> S \ {n}] BY <1>2, <1>4
<1>8. Cardinality(S \ {n}) < Cardinality(1..c) BY <1>1, <1>5, <1>6
<1>9. \E i, j \in 1..c : i # j /\ s[i] = s[j]
  <2> DEFINE A == 1..c
             B == S \ {n}
  <2>1. IsFiniteSet(A) /\ IsFiniteSet(B) /\ Cardinality(B) < Cardinality(A) /\ s \in [A -> B]
    BY <1>5, <1>6, <1>7, <1>8
  <2> HIDE DEF A, B
  <2>2. \E i, j \in A : i # j /\ s[i] = s[j] BY ONLY <2>1, FS_PigeonHole, Zenon
  <2> QED BY <2>2 DEF A
<1> QED BY <1>2, <1>9

(* Blocks of C that are as many as nChunks counts hold all L elements, and *)
(* the next block starts C elements further on.                            *)
LEMMA BlocksHold ==
    ASSUME NEW L \in Nat, NEW C \in Nat \ {0}
    PROVE  LET q == (L + C - 1) \div C IN q \in Int /\ q * C >= L
OBVIOUS

LEMMA MoreBlocks ==
    ASSUME NEW k \in Nat, NEW q \in Int, NEW C \in Nat \ {0}, k >= q
    PROVE  k * C >= q * C
OBVIOUS

LEMMA NextBlock ==
    ASSUME NEW k \in Nat, NEW C \in Nat \ {0}
    PROVE  (k + 1) * C = k * C + C /\ k * C \in Nat
OBVIOUS

(* When the loop over the blocks ends, no symbol is left. *)
LEMMA ChunksCover ==
    ASSUME TypeOK, chunk >= nChunks, NEW n
    PROVE  ~Rest(n)
<1>1. Len(todo) \in Nat /\ chunk \in Nat BY DEF TypeOK
<1>2. nChunks \in Int /\ nChunks * CHUNK_SIZE >= Len(todo) BY <1>1, BlocksHold DEF nChunks
<1>3. chunkStart >= nChunks * CHUNK_SIZE BY <1>1, <1>2, MoreBlocks DEF chunkStart
<1>4. chunkStart \in Nat BY <1>1 DEF chunkStart
<1>5. nChunks * CHUNK_SIZE \in Int BY <1>2
<1> HIDE DEF chunkStart, nChunks
<1>6. chunkStart >= Len(todo) BY <1>1, <1>2, <1>3, <1>4, <1>5
<1> QED BY <1>1, <1>4, <1>6 DEF Rest

(* A symbol that is left is an entry of the current block, or is left when *)
(* the block is done.                                                      *)
LEMMA BlockCovers ==
    ASSUME TypeOK, NEW n, Rest(n), chunk' = chunk + 1, todo' = todo
    PROVE  Rest(n)' \/ \E k \in 1..chunkN : Entry(k) = n
<1>1. Len(todo) \in Nat /\ chunk \in Nat BY DEF TypeOK
<1>2. chunkStart \in Nat /\ chunkStart' = chunkStart + CHUNK_SIZE
  BY <1>1, NextBlock DEF chunkStart
<1>3. PICK i \in (chunkStart + 1)..Len(todo) : todo[i] = n BY DEF Rest
<1> HIDE DEF chunkStart
<1>4. CASE i > chunkStart + CHUNK_SIZE
  <2>1. i \in (chunkStart' + 1)..Len(todo') BY <1>1, <1>2, <1>3, <1>4
  <2> QED BY <1>3, <2>1 DEF Rest
<1>5. CASE i <= chunkStart + CHUNK_SIZE
  <2>1. i - chunkStart \in 1..chunkN /\ chunkStart + (i - chunkStart) = i
    BY <1>1, <1>2, <1>3, <1>5 DEF chunkN
  <2> QED BY <1>3, <2>1 DEF Entry
<1> QED BY <1>1, <1>2, <1>3, <1>4, <1>5

(* In a reply that lacks no data the k-th handle is that of the k-th       *)
(* entry, so that a symbol is given its own handle or none.                *)
LEMMA GivenOwn ==
    ASSUME TypeOK, NEW n, NEW bad \in SUBSET (1..chunkN)
    PROVE  /\ Given(n, bad, {}) \subseteq {n}
           /\ \A k \in (1..chunkN) \ bad : Entry(k) = n => Given(n, bad, {}) = {n}
<1>1. chunkN \in Int BY EntriesAreNames
<1>2. ASSUME NEW j \in 1..chunkN PROVE Cardinality((1..j) \ {}) = j
  <2>1. j \in Int /\ j >= 1 BY <1>1
  <2>2. (1..j) \ {} = 1..j OBVIOUS
  <2> QED BY <2>1, <2>2, FS_Interval
<1>3. ASSUME NEW k \in (1..chunkN) \ bad PROVE Reply(k, bad, {}) = {Entry(k)}
  <2>1. {j \in (1..chunkN) \ bad : Cardinality((1..j) \ {}) = k} = {k} BY <1>2
  <2> QED BY <2>1 DEF Reply
<1>4. Given(n, bad, {}) \subseteq {n} BY <1>3 DEF Given
<1>5. ASSUME NEW k \in (1..chunkN) \ bad, Entry(k) = n PROVE n \in Given(n, bad, {})
  BY <1>3, <1>5 DEF Given
<1> QED BY <1>4, <1>5

(* No symbol has been collected yet. *)
LEMMA InitResolving == Init => Resolving
BY DEF Init, Resolving, InfoPending, HandlesPending, ResolvedOrRefused

(* A step outside resolveSymbolInfo and resolveSymbolHandles. *)
LEMMA ResolvingFrame ==
    ASSUME Resolving, UNCHANGED <<symInfoResolved, resolveVars>>,
           pc' = pc \/ (pc \in {"idle", "create"} /\ pc' \in {"idle", "create"})
    PROVE  Resolving'
BY DEF Resolving, InfoPending, HandlesPending, ResolvedOrRefused, resolveVars, Rest, chunkStart

(* A new collection of symbols starts with its first block. *)
LEMMA CollectedRest ==
    ASSUME NEW S \in SUBSET Names, todo' \in Orders(S), chunk' = 0, NEW n \in S
    PROVE  Rest(n)'
<1>1. \E i \in 1..Len(todo') : todo'[i] = n BY OrdersCover
<1>2. (chunkStart + 1)' = 1 BY DEF chunkStart
<1> QED BY <1>1, <1>2 DEF Rest

(* The first call with a connection collects every symbol. *)
LEMMA CallResolving ==
    ASSUME IInv, Resolving, NEW d \in DrvInfos, Call(d)
    PROVE  Resolving'
<1>1. CASE pc' = "create"
  <2>1. UNCHANGED <<symInfoResolved, resolveVars>> /\ pc = "idle" BY <1>1 DEF Call
  <2> QED BY <1>1, <2>1, ResolvingFrame
<1>2. CASE pc' = "info"
  <2>1. todo' \in Orders(Symbols) /\ chunk' = 0 BY <1>2 DEF Call
  <2>2. \A n \in Symbols : Rest(n)' BY <2>1, SymbolsAreNames, CollectedRest
  <2> QED BY <1>2, <2>2 DEF Resolving, InfoPending, HandlesPending, ResolvedOrRefused
<1> QED BY <1>1, <1>2 DEF Call

(* The end of resolveSymbolInfo: the entries of the dictionary are         *)
(* collected again, for their handles.                                     *)
LEMMA InfoDoneResolving ==
    ASSUME TypeOK, InfoDone, dict' = dict,
           \A n \in Symbols : n \in unasked' \/ n \in dict
    PROVE  Resolving'
<1>1. CASE pc' = "handles" /\ todo' \in Orders(dict) /\ chunk' = 0
  <2>1. \A n \in dict : Rest(n)' BY <1>1, CollectedRest DEF TypeOK
  <2> QED BY <1>1, <2>1 DEF Resolving, InfoPending, HandlesPending, ResolvedOrRefused
<1>2. CASE pc' = "create" /\ dict = {}
  BY <1>2 DEF Resolving, InfoPending, HandlesPending, ResolvedOrRefused
<1> QED BY <1>1, <1>2 DEF InfoDone

(* A block of resolveSymbolInfo, answered, too long or past the last one.  *)
LEMMA InfoResolving ==
    ASSUME IInv, Resolving, resolveSymbolInfo
    PROVE  Resolving'
<1>1. TypeOK BY DEF IInv
<1>2. \A n \in Symbols : n \in unasked \/ n \in dict \/ Rest(n)
  BY DEF Resolving, InfoPending, resolveSymbolInfo
<1>3. ASSUME chunk' = chunk + 1, UNCHANGED <<pc, todo>>,
             NEW bad \in SUBSET Block, Described(bad)
      PROVE  Resolving'
  <2>1. pc' = "info" BY <1>3 DEF resolveSymbolInfo
  <2>2. ASSUME NEW n \in Symbols PROVE n \in unasked' \/ n \in dict' \/ Rest(n)'
    <3>1. CASE n \in unasked \/ n \in dict BY <1>3, <3>1 DEF Described
    <3>2. CASE Rest(n)
      <4>1. Rest(n)' \/ n \in Block BY <1>1, <1>3, <3>2, BlockCovers DEF Block
      <4> QED BY <1>3, <4>1 DEF Described
    <3> QED BY <1>2, <3>1, <3>2
  <2> QED BY <2>1, <2>2 DEF Resolving, InfoPending, HandlesPending, ResolvedOrRefused
<1>4. ASSUME unasked' = unasked \cup {todo[i] : i \in (chunkStart + 1)..Len(todo)},
             InfoDone, UNCHANGED dict
      PROVE  Resolving'
  <2>1. \A n : Rest(n) => n \in unasked' BY <1>4 DEF Rest
  <2>2. \A n : n \in unasked => n \in unasked' BY <1>4
  <2>3. \A n \in Symbols : n \in unasked' \/ n \in dict BY <1>2, <2>1, <2>2
  <2> QED BY <1>1, <1>4, <2>3, InfoDoneResolving
<1>5. ASSUME chunk >= nChunks, InfoDone, UNCHANGED <<dict, unasked>>
      PROVE  Resolving'
  <2>1. \A n \in Symbols : n \in unasked' \/ n \in dict BY <1>1, <1>2, <1>5, ChunksCover
  <2> QED BY <1>1, <1>5, <2>1, InfoDoneResolving
<1> QED BY <1>3, <1>4, <1>5 DEF resolveSymbolInfo

(* A block of resolveSymbolHandles: refused as a whole, answered, or past  *)
(* the last one.                                                           *)
LEMMA HandlesResolving ==
    ASSUME IInv, Resolving, resolveSymbolHandles
    PROVE  Resolving'
<1>1. TypeOK BY DEF IInv
<1>2. short = "no" =>
        \A n \in Symbols : n \in unasked \/ (n \in dict /\ (handle[n] = n \/ Rest(n)))
  BY DEF Resolving, HandlesPending, resolveSymbolHandles
<1>3. ASSUME chunk' = chunk + 1, UNCHANGED <<pc, todo, dict, handle, short>>,
             unasked' = unasked \cup Block
      PROVE  Resolving'
  <2>1. pc' = "handles" BY <1>3 DEF resolveSymbolHandles
  <2>2. ASSUME short = "no", NEW n \in Symbols
        PROVE  n \in unasked' \/ (n \in dict' /\ (handle'[n] = n \/ Rest(n)'))
    <3>1. CASE n \in unasked \/ (n \in dict /\ handle[n] = n) BY <1>3, <3>1
    <3>2. CASE n \in dict /\ Rest(n)
      <4>1. Rest(n)' \/ n \in Block BY <1>1, <1>3, <3>2, BlockCovers DEF Block
      <4> QED BY <1>3, <3>2, <4>1
    <3> QED BY <1>2, <2>2, <3>1, <3>2
  <2> QED BY <1>3, <2>1, <2>2 DEF Resolving, InfoPending, HandlesPending, ResolvedOrRefused
<1>4. ASSUME NEW bad \in SUBSET (1..chunkN), NEW silent \in SUBSET bad,
             chunk' = chunk + 1, UNCHANGED <<pc, todo, dict>>,
             handle' = [n \in Names |-> IF Given(n, bad, silent) = {} THEN handle[n]
                                        ELSE CHOOSE h \in Given(n, bad, silent) : TRUE],
             unasked' = unasked \cup {Entry(k) : k \in bad},
             short' = IF silent = {} THEN short ELSE "yes"
      PROVE  Resolving'
  <2>1. pc' = "handles" BY <1>4 DEF resolveSymbolHandles
  <2>2. ASSUME short' = "no", NEW n \in Symbols
        PROVE  n \in unasked' \/ (n \in dict' /\ (handle'[n] = n \/ Rest(n)'))
    <3>1. silent = {} /\ short = "no" BY <1>4, <2>2
    <3>2. n \in Names BY SymbolsAreNames
    <3>3. /\ Given(n, bad, {}) \subseteq {n}
          /\ \A k \in (1..chunkN) \ bad : Entry(k) = n => Given(n, bad, {}) = {n}
      BY <1>1, GivenOwn
    <3>4. handle'[n] = IF Given(n, bad, {}) = {} THEN handle[n]
                       ELSE CHOOSE h \in Given(n, bad, {}) : TRUE
      BY <1>4, <3>1, <3>2
    <3>5. Given(n, bad, {}) = {} => handle'[n] = handle[n] BY <3>4
    <3>6. Given(n, bad, {}) = {n} => handle'[n] = n BY <3>4
    <3>7. CASE n \in unasked BY <1>4, <3>7
    <3>8. CASE n \in dict /\ handle[n] = n BY <1>4, <3>3, <3>5, <3>6, <3>8
    <3>9. CASE n \in dict /\ Rest(n)
      <4>1. Rest(n)' \/ \E k \in 1..chunkN : Entry(k) = n BY <1>1, <1>4, <3>9, BlockCovers
      <4>2. ASSUME NEW k \in 1..chunkN, Entry(k) = n PROVE n \in unasked' \/ handle'[n] = n
        <5>1. CASE k \in bad BY <1>4, <4>2, <5>1
        <5>2. CASE k \notin bad BY <3>3, <3>6, <4>2, <5>2
        <5> QED BY <5>1, <5>2
      <4> QED BY <1>4, <3>9, <4>1, <4>2
    <3> QED BY <1>2, <3>1, <3>7, <3>8, <3>9
  <2> QED BY <2>1, <2>2 DEF Resolving, InfoPending, HandlesPending, ResolvedOrRefused
<1>5. ASSUME chunk >= nChunks, pc' = "create", UNCHANGED <<dict, handle, unasked, short>>
      PROVE  Resolving'
  <2>1. short = "no" => \A n \in Symbols : n \in unasked \/ (n \in dict /\ handle[n] = n)
    BY <1>1, <1>2, <1>5, ChunksCover
  <2> QED BY <1>5, <2>1 DEF Resolving, InfoPending, HandlesPending, ResolvedOrRefused
<1> QED BY <1>3, <1>4, <1>5 DEF resolveSymbolHandles

(* Making a parameter does not touch what was resolved. *)
LEMMA CreateResolving ==
    ASSUME Resolving, drvUserCreate
    PROVE  Resolving'
<1>1. pc = "create" /\ pc' = "idle" /\ UNCHANGED <<symInfoResolved, resolveVars>>
  BY DEF drvUserCreate, CreateRefused, CreateKnown, CreateUnknownRecord, CreateMisplaced,
         CreateConnected, CreateFailed, CreateOffline, Created, CanCreate, Reject
<1> QED BY <1>1, ResolvingFrame

(* Every step keeps each symbol refused, done or pending. *)
LEMMA NextResolving == IInv /\ Resolving /\ [Next]_vars => Resolving'
<1> SUFFICES ASSUME IInv, Resolving, [Next]_vars PROVE Resolving' OBVIOUS
<1>1. CASE UNCHANGED vars
  <2>1. UNCHANGED <<symInfoResolved, resolveVars>> /\ pc' = pc BY <1>1 DEF vars
  <2> QED BY <2>1, ResolvingFrame
<1>2. ASSUME NEW d \in DrvInfos, Call(d) PROVE Resolving' BY <1>2, CallResolving
<1> QED BY <1>1, <1>2, InfoResolving, HandlesResolving, CreateResolving DEF Next

(* However the PLC answers the sum requests of resolveSymbolInfo and       *)
(* resolveSymbolHandles, and however the symbols fall into blocks, no      *)
(* symbol of a record is passed over: it was refused, or it is in the      *)
(* dictionary with its own handle, if no reply lacked data.                *)
THEOREM SymbolsResolved == Spec => []ResolvedOrRefused
<1>1. Resolving => ResolvedOrRefused BY DEF Resolving
<1> QED BY <1>1, InitResolving, NextResolving, StartupInvariant, PTL DEF Spec
=============================================================================
