---------------------------- MODULE AdsBulkRead ----------------------------
(***************************************************************************)
(* The sum reads of adsAsynPortDriver.cpp.  Parameters are packed into     *)
(* chunks (bulk[]), one AMS port per chunk; bulkReadThread sends one       *)
(* ADSIGRP_SUMUP_READ per chunk and walks through the reply.  The table is *)
(* guarded by bulkReadInfoMutex_, everything else of a parameter by the    *)
(* asyn lock, and the two threads take them in opposite orders.            *)
(*                                                                         *)
(* The other thread is "updater": whoever holds the asyn lock to create a  *)
(* parameter, invalidate or refresh (iocInit, then cyclicThread and        *)
(* adsSymbolsChangedCallback; AdsSupervision says when).  Parameters are   *)
(* the I/O Intr, bulk-read ones.  A chunk holds its request entries from   *)
(* slot 2 on, so that cnt is Len(sum) + 2 and the two timestamp slots are  *)
(* implicit; unused chunks of the array are not in the sequence.           *)
(***************************************************************************)
EXTENDS Integers, Sequences

CONSTANTS
    NParams,       \* parameters, in the order of their creation
    portOf,        \* paramInfo->amsPort
    Fixed,         \* parameters that need no look-up: .ADR. or in symbolDict_
    Sizes,         \* sizes of PLC variables, in bytes
    BULKSIZ,       \* entries of a chunk, two of them for timestamps (500)
    MAXBULK,       \* chunks (2000)
    AutoConnect,   \* autoConnect_
    MaxEntry,      \* a larger variable is subscribed to (1024 * 1024)
    MaxChanges,    \* bound: new PLC programs that change the size of a variable
    MaxRounds      \* bound: calls of refreshParams after iocInit

Params == 1..NParams
Ports  == {portOf[p] : p \in Params}

ASSUME BulkAssumption ==
    /\ NParams \in Nat
    /\ portOf \in [Params -> Nat]
    /\ Fixed \subseteq Params
    /\ Sizes \subseteq Nat /\ Sizes # {}
    /\ BULKSIZ \in Nat /\ BULKSIZ >= 3
    /\ MAXBULK \in Nat /\ MaxEntry \in Nat
    /\ AutoConnect \in BOOLEAN
    /\ MaxChanges \in Nat /\ MaxRounds \in Nat

VARIABLES
    symbolSize,            \* PLC: size of each variable in the running program
    changes, rounds,       \* number of size changes, of refreshes so far
    plcSize, refreshNeeded, bulkIndex, bulkOffset,   \* adsParamInfo; 0 for -1
    bulk,                  \* the chunks in use, see Chunks
    bulkOK, connectedAds,
    lock, mutex,           \* owners of the asyn lock and of bulkReadInfoMutex_
    upd,                   \* updater: pc, AMS port (0: all), loop index
    bth,                   \* bulkReadThread: pc, chunk, slot, srd
    sent,                  \* history: the entries of the request last sent
    pos                    \* history: where the slot's data is in the reply

infoVars == <<plcSize, refreshNeeded>>
slotVars == <<bulkIndex, bulkOffset, bulk>>
bthVars  == <<bth, sent, pos>>
vars == <<symbolSize, changes, rounds, infoVars, slotVars, bulkOK, connectedAds,
          lock, mutex, upd, bthVars>>

None    == "none"
Entries == [param : Params, iSize : Nat]
Chunks  == [amsPort : Nat, readSize : Nat, sum : Seq(Entries)]
UpdPcs  == {"idle", "loop", "handle", "add"}
BthPcs  == {"wait", "idle", "chunk", "slot", "apply", "beyond"}
Bths    == [pc : BthPcs, chunk : Nat, slot : Nat, srd : Nat, size : Nat]

StateTypeOK ==
    /\ symbolSize \in [Params -> Sizes]
    /\ changes \in 0..MaxChanges
    /\ rounds \in 0..MaxRounds
    /\ plcSize \in [Params -> Nat]
    /\ refreshNeeded \in [Params -> BOOLEAN]
    /\ bulkIndex \in [Params -> Nat]
    /\ bulkOffset \in [Params -> Nat]
    /\ bulkOK \in BOOLEAN
    /\ connectedAds \in BOOLEAN
    /\ lock \in {None, "updater"}
    /\ mutex \in {None, "bulk"}
    /\ upd \in [pc : UpdPcs, port : Nat, next : 1..(NParams + 1)]
    /\ bth \in Bths
    /\ sent \in Seq(Entries)
    /\ pos \in Nat

(* The variables keep their types, and adsAddToBulkRead never writes       *)
(* beyond the chunk table.                                                 *)
TypeOK == StateTypeOK /\ bulk \in Seq(Chunks) /\ Len(bulk) <= MAXBULK

(***************************************************************************)
(* Before the records are created; the updater first runs updateParamInfo- *)
(* WithPLCInfo for every parameter (drvUserCreate), until getEpicsState    *)
(* sets bulkOK after scanInit.                                             *)
(***************************************************************************)
Init ==
    /\ symbolSize \in [Params -> Sizes]
    /\ changes = 0
    /\ rounds = 0
    /\ plcSize = [p \in Params |-> IF p \in Fixed THEN symbolSize[p] ELSE 0]
    /\ refreshNeeded = [p \in Params |-> TRUE]
    /\ bulkIndex = [p \in Params |-> 0]
    /\ bulkOffset = [p \in Params |-> 0]
    /\ bulk = <<>>
    /\ bulkOK = FALSE
    /\ connectedAds = TRUE
    /\ lock = "updater"
    /\ mutex = None
    /\ upd = [pc |-> "loop", port |-> 0, next |-> 1]
    /\ bth = [pc |-> "wait", chunk |-> 1, slot |-> 1, srd |-> 0, size |-> 0]
    /\ sent = <<>>
    /\ pos = 0

-----------------------------------------------------------------------------
(***************************************************************************)
(* Environment: a new PLC program gives a variable another size; the       *)
(* cyclic thread drops connectedAds_.                                      *)
(***************************************************************************)
SizeChange ==
    /\ changes < MaxChanges
    /\ \E p \in Params \ Fixed, z \in Sizes :
         /\ z # symbolSize[p]
         /\ symbolSize' = [symbolSize EXCEPT ![p] = z]
    /\ changes' = changes + 1
    /\ UNCHANGED <<rounds, infoVars, slotVars, bulkOK, connectedAds, lock, mutex, upd, bthVars>>

DropConnectedAds ==
    /\ AutoConnect /\ bulkOK /\ connectedAds
    /\ connectedAds' = FALSE
    /\ UNCHANGED <<symbolSize, changes, rounds, infoVars, slotVars, bulkOK, lock, mutex, upd, bthVars>>

-----------------------------------------------------------------------------
(***************************************************************************)
(* The updater.                                                            *)
(***************************************************************************)
OfPort(a, p) == a = 0 \/ portOf[p] = a

(* Under the asyn lock only: readSize is reset without the mutex.          *)
invalidateParams(a) ==
    /\ upd.pc = "idle" /\ lock = None
    /\ bulkOK' = FALSE
    /\ refreshNeeded' = [p \in Params |-> refreshNeeded[p] \/ OfPort(a, p)]
    /\ bulk' = [i \in 1..Len(bulk) |->
                  IF bulk[i].amsPort = a THEN [bulk[i] EXCEPT !.readSize = 16] ELSE bulk[i]]
    /\ UNCHANGED <<symbolSize, changes, rounds, plcSize, bulkIndex, bulkOffset, connectedAds,
                   lock, mutex, upd, bthVars>>

refreshParamsLock(a) ==
    /\ upd.pc = "idle" /\ lock = None /\ rounds < MaxRounds
    /\ rounds' = rounds + 1
    /\ lock' = "updater"
    /\ upd' = [pc |-> "loop", port |-> a, next |-> IF connectedAds THEN 1 ELSE NParams + 1]
    /\ UNCHANGED <<symbolSize, changes, infoVars, slotVars, bulkOK, connectedAds,
                   mutex, bthVars>>

RefreshDone ==
    /\ upd.pc = "loop" /\ upd.next > NParams
    /\ bulkOK' = TRUE
    /\ lock' = None
    /\ upd' = [upd EXCEPT !.pc = "idle"]
    /\ UNCHANGED <<symbolSize, changes, rounds, infoVars, slotVars, connectedAds, mutex, bthVars>>

NextParam == [pc |-> "loop", port |-> upd.port, next |-> upd.next + 1]

RefreshSkip ==
    LET p == upd.next IN
    /\ upd.pc = "loop" /\ p <= NParams
    /\ ~(OfPort(upd.port, p) /\ refreshNeeded[p])
    /\ upd' = NextParam
    /\ UNCHANGED <<symbolSize, changes, rounds, infoVars, slotVars, bulkOK, connectedAds,
                   lock, mutex, bthVars>>

(* updateParamInfoWithPLCInfo up to the handle: type and size are stored   *)
(* in the parameter as soon as they are known.                             *)
adsGetSymInfoByName ==
    LET p == upd.next IN
    /\ upd.pc = "loop" /\ p <= NParams
    /\ OfPort(upd.port, p) /\ refreshNeeded[p]
    /\ \/ p \in Fixed /\ upd' = [upd EXCEPT !.pc = "add"] /\ UNCHANGED plcSize
       \/ /\ p \notin Fixed
          /\ upd' = [upd EXCEPT !.pc = "handle"]
          /\ plcSize' = [plcSize EXCEPT ![p] = symbolSize[p]]
       \/ p \notin Fixed /\ upd' = NextParam /\ UNCHANGED plcSize
    /\ UNCHANGED <<symbolSize, changes, rounds, refreshNeeded, slotVars, bulkOK, connectedAds,
                   lock, mutex, bthVars>>

adsGetSymHandleByName ==
    /\ upd.pc = "handle"
    /\ upd' \in {NextParam, [upd EXCEPT !.pc = "add"]}
    /\ UNCHANGED <<symbolSize, changes, rounds, infoVars, slotVars, bulkOK, connectedAds,
                   lock, mutex, bthVars>>

(* "really big": a notification instead; a slot of the table that the      *)
(* parameter already has stays as it is.                                   *)
Subscribe ==
    LET p == upd.next IN
    /\ upd.pc = "add" /\ plcSize[p] > MaxEntry
    /\ \E ok \in BOOLEAN : refreshNeeded' = [refreshNeeded EXCEPT ![p] = ~ok]
    /\ upd' = NextParam
    /\ UNCHANGED <<symbolSize, changes, rounds, plcSize, slotVars, bulkOK, connectedAds,
                   lock, mutex, bthVars>>

(* adsAddToBulkRead.  Room(p): the chunks of p's AMS port that are not     *)
(* full; the first one is taken, or the next unused one.  Mutants: the AMS *)
(* port is not compared; a full chunk is not recognised.                   *)
MutRoomAnyPort(p) == {i \in 1..Len(bulk) : Len(bulk[i].sum) + 2 # BULKSIZ}
MutRoomOneMore(p) ==
    {i \in 1..Len(bulk) : bulk[i].amsPort = portOf[p] /\ Len(bulk[i].sum) + 2 <= BULKSIZ}

Room(p) == {i \in 1..Len(bulk) : bulk[i].amsPort = portOf[p] /\ Len(bulk[i].sum) + 2 # BULKSIZ}

NewChunk(p) == [amsPort |-> portOf[p], readSize |-> 16, sum |-> <<>>]

(* The chunk table b once p is entered in chunk i. *)
Entered(b, i, p) ==
    [b EXCEPT ![i] = [amsPort  |-> b[i].amsPort,
                      readSize |-> b[i].readSize + plcSize[p] + 4,
                      sum      |-> Append(b[i].sum, [param |-> p, iSize |-> plcSize[p]])]]

(* Mutant: the end of the chunk table is not checked. *)
MutAllocateUnbounded(p) ==
    /\ bulkIndex[p] = 0
    /\ bulk' = Entered(Append(bulk, NewChunk(p)), Len(bulk) + 1, p)
    /\ bulkIndex' = [bulkIndex EXCEPT ![p] = Len(bulk) + 1]
    /\ bulkOffset' = [bulkOffset EXCEPT ![p] = 1]
    /\ refreshNeeded' = [refreshNeeded EXCEPT ![p] = FALSE]

Allocate(p) ==
    /\ bulkIndex[p] = 0
    /\ \/ \E i \in Room(p) :
            /\ \A k \in Room(p) : i <= k
            /\ bulk' = Entered(bulk, i, p)
            /\ bulkIndex' = [bulkIndex EXCEPT ![p] = i]
            /\ bulkOffset' = [bulkOffset EXCEPT ![p] = Len(bulk[i].sum) + 1]
       \/ /\ Room(p) = {} /\ Len(bulk) < MAXBULK
          /\ bulk' = Entered(Append(bulk, NewChunk(p)), Len(bulk) + 1, p)
          /\ bulkIndex' = [bulkIndex EXCEPT ![p] = Len(bulk) + 1]
          /\ bulkOffset' = [bulkOffset EXCEPT ![p] = 1]
    /\ refreshNeeded' = [refreshNeeded EXCEPT ![p] = FALSE]

Reuse(p) ==
    LET b == bulkIndex[p]
        o == bulkOffset[p] IN
    /\ b # 0
    /\ bulk' = [bulk EXCEPT ![b] =
                    [amsPort  |-> bulk[b].amsPort,
                     readSize |-> bulk[b].readSize + plcSize[p] + 4,
                     sum      |-> [bulk[b].sum EXCEPT ![o] =
                                       [bulk[b].sum[o] EXCEPT !.iSize = plcSize[p]]]]]
    /\ refreshNeeded' = [refreshNeeded EXCEPT ![p] = FALSE]
    /\ UNCHANGED <<bulkIndex, bulkOffset>>

NoRoom(p) ==
    /\ bulkIndex[p] = 0 /\ Room(p) = {} /\ Len(bulk) = MAXBULK
    /\ UNCHANGED <<slotVars, refreshNeeded>>

(* Mutant: bulkReadInfoMutex_ is not taken. *)
MutAddWithoutMutex ==
    LET p == upd.next IN
    /\ upd.pc = "add" /\ plcSize[p] <= MaxEntry
    /\ Allocate(p) \/ Reuse(p) \/ NoRoom(p)
    /\ upd' = NextParam
    /\ UNCHANGED <<symbolSize, changes, rounds, plcSize, bulkOK, connectedAds, lock, mutex,
                   bthVars>>

adsAddToBulkRead ==
    LET p == upd.next IN
    /\ upd.pc = "add" /\ plcSize[p] <= MaxEntry
    /\ mutex = None
    /\ Allocate(p) \/ Reuse(p) \/ NoRoom(p)
    /\ upd' = NextParam
    /\ UNCHANGED <<symbolSize, changes, rounds, plcSize, bulkOK, connectedAds, lock, mutex, bthVars>>

updater ==
    \/ \E a \in Ports : invalidateParams(a) \/ refreshParamsLock(a)
    \/ RefreshDone \/ RefreshSkip \/ adsGetSymInfoByName \/ adsGetSymHandleByName
    \/ Subscribe \/ adsAddToBulkRead

-----------------------------------------------------------------------------
(***************************************************************************)
(* bulkReadThread.                                                         *)
(***************************************************************************)
BulkStart ==
    /\ bth.pc = "wait" /\ bulkOK
    /\ bth' = [bth EXCEPT !.pc = "idle"]
    /\ UNCHANGED <<symbolSize, changes, rounds, infoVars, slotVars, bulkOK, connectedAds, lock,
                   mutex, upd, sent, pos>>

BulkPass ==
    /\ bth.pc = "idle" /\ mutex = None
    /\ mutex' = "bulk"
    /\ bth' = [bth EXCEPT !.pc = "chunk", !.chunk = 1]
    /\ UNCHANGED <<symbolSize, changes, rounds, infoVars, slotVars, bulkOK, connectedAds, lock, upd,
                   sent, pos>>

(* The loop stops at a chunk that is not in use (cnt is 0), or because     *)
(* bulkOK is cleared.                                                      *)
BulkPassDone ==
    /\ \/ bth.pc = "chunk" /\ (bth.chunk > Len(bulk) \/ ~bulkOK)
       \/ bth.pc = "beyond"
    /\ mutex' = None
    /\ bth' = [bth EXCEPT !.pc = "idle"]
    /\ UNCHANGED <<symbolSize, changes, rounds, infoVars, slotVars, bulkOK, connectedAds, lock, upd,
                   sent, pos>>

(* Nothing else stops it: when all MAXBULK chunks are in use it goes on    *)
(* with what lies behind the table.  If the integer found there            *)
(* (bulk_delay_us) is taken for a cnt, the thread sends requests made of   *)
(* other members, with the mutex held, until it happens on a zero, if      *)
(* ever.  What it does to the members of the class meanwhile is not        *)
(* followed any further.                                                   *)
BulkBeyond ==
    /\ bth.pc = "chunk" /\ bth.chunk > MAXBULK /\ bulkOK
    /\ bth' = [bth EXCEPT !.pc = "beyond"]
    /\ UNCHANGED <<symbolSize, changes, rounds, infoVars, slotVars, bulkOK, connectedAds, lock, mutex,
                   upd, sent, pos>>

(* The sum read of a chunk fails, or its reply is there.                   *)
SumRead ==
    /\ bth.pc = "chunk" /\ bth.chunk <= Len(bulk) /\ bulkOK
    /\ sent' = bulk[bth.chunk].sum
    /\ \/ bth' = [bth EXCEPT !.chunk = bth.chunk + 1] /\ UNCHANGED pos
       \/ bth' = [bth EXCEPT !.pc = "slot", !.slot = 1, !.srd = 0] /\ pos' = 0
    /\ UNCHANGED <<symbolSize, changes, rounds, infoVars, slotVars, bulkOK, connectedAds, lock, mutex,
                   upd>>

(* Mutant: the data of a slot with a bad status is not skipped over.       *)
MutSlotStatusSkipsBad ==
    LET p == bulk[bth.chunk].sum[bth.slot].param IN
    /\ bth.pc = "slot" /\ bth.slot <= Len(bulk[bth.chunk].sum)
    /\ \E bad \in BOOLEAN :
         /\ refreshNeeded' = [refreshNeeded EXCEPT ![p] = @ \/ bad]
         /\ bth' = [bth EXCEPT !.pc = "apply", !.size = IF bad THEN 0 ELSE plcSize[p]]
    /\ UNCHANGED <<symbolSize, changes, rounds, plcSize, slotVars, bulkOK, connectedAds, lock,
                   mutex, upd, sent, pos>>

(* One slot, before the asyn lock is taken: the status raises the flag,    *)
(* and the size of the parameter (not of the request) is read.             *)
SlotStatus ==
    LET p == bulk[bth.chunk].sum[bth.slot].param IN
    /\ bth.pc = "slot" /\ bth.slot <= Len(bulk[bth.chunk].sum)
    /\ \E bad \in BOOLEAN : refreshNeeded' = [refreshNeeded EXCEPT ![p] = @ \/ bad]
    /\ bth' = [bth EXCEPT !.pc = "apply", !.size = plcSize[p]]
    /\ UNCHANGED <<symbolSize, changes, rounds, plcSize, slotVars, bulkOK, connectedAds, lock, mutex,
                   upd, sent, pos>>

(* adsUpdateParameterLock with the bytes at srd, good status or bad; the   *)
(* bytes of the slot are at pos.                                           *)
SlotApply ==
    /\ bth.pc = "apply" /\ lock = None
    /\ bth' = [bth EXCEPT !.pc = "slot", !.slot = bth.slot + 1, !.srd = bth.srd + bth.size]
    /\ pos' = pos + sent[bth.slot].iSize
    /\ UNCHANGED <<symbolSize, changes, rounds, infoVars, slotVars, bulkOK, connectedAds, lock, mutex,
                   upd, sent>>

ChunkDone ==
    /\ bth.pc = "slot" /\ bth.slot > Len(bulk[bth.chunk].sum)
    /\ bth' = [bth EXCEPT !.pc = "chunk", !.chunk = bth.chunk + 1]
    /\ UNCHANGED <<symbolSize, changes, rounds, infoVars, slotVars, bulkOK, connectedAds, lock, mutex,
                   upd, sent, pos>>

bulkReadThread ==
    \/ BulkStart \/ BulkPass \/ BulkPassDone \/ BulkBeyond \/ SumRead
    \/ SlotStatus \/ SlotApply \/ ChunkDone

-----------------------------------------------------------------------------
Next == updater \/ bulkReadThread \/ SizeChange \/ DropConnectedAds

Spec == Init /\ [][Next]_vars

-----------------------------------------------------------------------------
(* A parameter that has a slot is the parameter of that slot, in a chunk   *)
(* of its own AMS port, and every slot belongs to its parameter: no two    *)
(* parameters share a slot and no sum read asks the wrong port.            *)
SlotOwned ==
    /\ \A p \in Params : bulkIndex[p] # 0 =>
          /\ bulkIndex[p] \in 1..Len(bulk)
          /\ bulkOffset[p] \in 1..Len(bulk[bulkIndex[p]].sum)
          /\ bulk[bulkIndex[p]].sum[bulkOffset[p]].param = p
          /\ bulk[bulkIndex[p]].amsPort = portOf[p]
    /\ \A i \in 1..Len(bulk) : \A j \in 1..Len(bulk[i].sum) :
          LET p == bulk[i].sum[j].param IN bulkIndex[p] = i /\ bulkOffset[p] = j

(* A chunk never exceeds BULKSIZ, and is only followed by another chunk of *)
(* the same port once it is full: the table wastes no chunk.               *)
PackedChunks ==
    /\ \A i \in 1..Len(bulk) : Len(bulk[i].sum) + 2 <= BULKSIZ
    /\ \A i, k \in 1..Len(bulk) :
          i < k /\ bulk[i].amsPort = bulk[k].amsPort => Len(bulk[i].sum) + 2 = BULKSIZ

(* While bulkReadThread walks through a reply, the chunk is the one it     *)
(* sent: no other thread adds or changes an entry under its feet.          *)
RequestStable ==
    bth.pc \in {"slot", "apply"} =>
        mutex = "bulk" /\ bth.chunk \in 1..Len(bulk) /\ sent = bulk[bth.chunk].sum

(* "so srd stays aligned": as long as the PLC's variables keep their       *)
(* sizes, a parameter is updated from its own bytes of the reply, not from *)
(* its neighbour's, whatever the status of the slots before it.            *)
SrdAligned == bth.pc = "apply" /\ changes = 0 => bth.srd = pos

(* The two threads never wait for each other: bulkReadThread, with the     *)
(* mutex, for the asyn lock, and the updater, with the asyn lock, for the  *)
(* mutex.                                                                  *)
NoCircularWait ==
    ~(/\ bth.pc = "apply" /\ mutex = "bulk"
      /\ lock = "updater" /\ upd.pc = "add" /\ plcSize[upd.next] <= MaxEntry)
=============================================================================
