------------------------- MODULE AdsBulkReadProofs -------------------------
(***************************************************************************)
(* Proofs about AdsBulkRead for any number of parameters and AMS ports,    *)
(* any sizes, and any limits BULKSIZ and MAXBULK.                          *)
(***************************************************************************)
EXTENDS AdsBulkRead, TLAPS

(* Who holds which lock, and where the two loops are.                      *)
Control ==
    /\ mutex = "bulk" <=> bth.pc \in {"chunk", "slot", "apply", "beyond"}
    /\ lock = "updater" <=> upd.pc # "idle"
    /\ upd.pc \in {"handle", "add"} => upd.next \in Params
    /\ bth.chunk >= 1 /\ bth.slot >= 1
    /\ bth.pc = "apply" => bth.slot <= Len(sent)

IInv == TypeOK /\ Control /\ SlotOwned /\ PackedChunks /\ RequestStable

-----------------------------------------------------------------------------
(***************************************************************************)
(* Lemmas about the chunk table.                                           *)
(***************************************************************************)

(* Replacing one element of a sequence.                                    *)
LEMMA Replaced ==
  ASSUME NEW S, NEW s \in Seq(S), NEW n \in 1..Len(s), NEW v \in S,
         NEW r, r = [s EXCEPT ![n] = v]
  PROVE  /\ r \in Seq(S) /\ Len(r) = Len(s)
         /\ r[n] = v
         /\ \A k \in 1..Len(s) : k # n => r[k] = s[k]
  OBVIOUS

(* The parts of a chunk have their types.                                  *)
LEMMA ChunkParts ==
  ASSUME NEW t \in Seq(Chunks), NEW i \in 1..Len(t)
  PROVE  /\ t[i] \in Chunks /\ t[i].amsPort \in Nat /\ t[i].readSize \in Nat
         /\ t[i].sum \in Seq(Entries) /\ Len(t[i].sum) \in Nat
         /\ \A j \in 1..Len(t[i].sum) : t[i].sum[j] \in Entries
<1>1. t[i] \in Chunks
  OBVIOUS
<1>2. t[i].amsPort \in Nat /\ t[i].readSize \in Nat /\ t[i].sum \in Seq(Entries)
  BY <1>1 DEF Chunks
<1>3. Len(t[i].sum) \in Nat /\ \A j \in 1..Len(t[i].sum) : t[i].sum[j] \in Entries
  BY <1>2
<1> QED
  BY <1>1, <1>2, <1>3

(* A table in which only readSize and iSize differ has the same owners and *)
(* is as packed as before.                                                 *)
LEMMA SameShape ==
  ASSUME SlotOwned, PackedChunks,
         Len(bulk') = Len(bulk),
         \A i \in 1..Len(bulk) :
            /\ bulk'[i].amsPort = bulk[i].amsPort
            /\ Len(bulk'[i].sum) = Len(bulk[i].sum)
            /\ \A j \in 1..Len(bulk[i].sum) : bulk'[i].sum[j].param = bulk[i].sum[j].param,
         UNCHANGED <<bulkIndex, bulkOffset>>
  PROVE  SlotOwned' /\ PackedChunks'
<1>1. ASSUME NEW p \in Params, bulkIndex'[p] # 0
      PROVE  /\ bulkIndex'[p] \in 1..Len(bulk')
             /\ bulkOffset'[p] \in 1..Len(bulk'[bulkIndex'[p]].sum)
             /\ bulk'[bulkIndex'[p]].sum[bulkOffset'[p]].param = p
             /\ bulk'[bulkIndex'[p]].amsPort = portOf[p]
  <2>1. /\ bulkIndex[p] \in 1..Len(bulk)
        /\ bulkOffset[p] \in 1..Len(bulk[bulkIndex[p]].sum)
        /\ bulk[bulkIndex[p]].sum[bulkOffset[p]].param = p
        /\ bulk[bulkIndex[p]].amsPort = portOf[p]
    BY <1>1 DEF SlotOwned
  <2> QED
    BY <2>1
<1>2. ASSUME NEW i \in 1..Len(bulk'), NEW j \in 1..Len(bulk'[i].sum)
      PROVE  /\ bulkIndex'[bulk'[i].sum[j].param] = i
             /\ bulkOffset'[bulk'[i].sum[j].param] = j
  <2>1. i \in 1..Len(bulk) /\ j \in 1..Len(bulk[i].sum)
    OBVIOUS
  <2>2. bulkIndex[bulk[i].sum[j].param] = i /\ bulkOffset[bulk[i].sum[j].param] = j
    BY <2>1 DEF SlotOwned
  <2> QED
    BY <2>1, <2>2
<1>3. SlotOwned'
  BY <1>1, <1>2 DEF SlotOwned
<1>4. PackedChunks'
  BY DEF PackedChunks
<1> QED
  BY <1>3, <1>4

(* Nothing changes for the table when its variables do not.                *)
LEMMA TableFrame ==
  ASSUME IInv, UNCHANGED slotVars
  PROVE  /\ SlotOwned' /\ PackedChunks' /\ bulk' \in Seq(Chunks) /\ Len(bulk') <= MAXBULK
         /\ bulkIndex' \in [Params -> Nat] /\ bulkOffset' \in [Params -> Nat]
  BY DEF IInv, TypeOK, StateTypeOK, SlotOwned, PackedChunks, slotVars

(* Resetting readSize.                                                     *)
LEMMA InvalidatedTable ==
  ASSUME IInv, NEW a \in Nat, UNCHANGED <<bulkIndex, bulkOffset>>,
         bulk' = [i \in 1..Len(bulk) |->
                    IF bulk[i].amsPort = a THEN [bulk[i] EXCEPT !.readSize = 16] ELSE bulk[i]]
  PROVE  /\ bulk' \in Seq(Chunks) /\ Len(bulk') = Len(bulk)
         /\ \A i \in 1..Len(bulk) : bulk'[i].sum = bulk[i].sum
         /\ SlotOwned' /\ PackedChunks'
<1>0. bulk \in Seq(Chunks) /\ SlotOwned /\ PackedChunks /\ Len(bulk) \in Nat
  BY DEF IInv, TypeOK
<1>1. \A i \in 1..Len(bulk) : bulk[i] \in Chunks
  BY <1>0
<1>2. \A i \in 1..Len(bulk) : bulk'[i] \in Chunks /\ bulk'[i].sum = bulk[i].sum
                              /\ bulk'[i].amsPort = bulk[i].amsPort
  BY <1>1 DEF Chunks
<1>3. bulk' \in Seq(Chunks) /\ Len(bulk') = Len(bulk)
  BY <1>0, <1>2
<1>4. SlotOwned' /\ PackedChunks'
  BY <1>0, <1>2, <1>3, SameShape
<1> QED
  BY <1>2, <1>3, <1>4

(* A parameter that has a slot gets its size and handle renewed in place.  *)
LEMMA ReusedTable ==
  ASSUME IInv, NEW p \in Params, Reuse(p)
  PROVE  /\ bulk' \in Seq(Chunks) /\ Len(bulk') = Len(bulk)
         /\ SlotOwned' /\ PackedChunks'
         /\ \A i \in 1..Len(bulk) : Len(bulk'[i].sum) = Len(bulk[i].sum)
         /\ \A i \in 1..Len(bulk) : \A j \in 1..Len(bulk[i].sum) :
              \/ bulk'[i].sum[j] = bulk[i].sum[j]
              \/ bulk'[i].sum[j].param = p /\ bulk'[i].sum[j].iSize = plcSize[p]
<1> DEFINE b == bulkIndex[p]
           o == bulkOffset[p]
<1>0. bulk \in Seq(Chunks) /\ SlotOwned /\ PackedChunks /\ Len(bulk) \in Nat
  BY DEF IInv, TypeOK
<1>1. b \in 1..Len(bulk) /\ o \in 1..Len(bulk[b].sum)
  BY <1>0 DEF Reuse, SlotOwned
<1>a. bulk[b] \in Chunks
  BY <1>0, <1>1
<1>b. bulk[b].sum \in Seq(Entries) /\ bulk[b].readSize \in Nat
  BY <1>a DEF Chunks
<1>c. bulk[b].sum[o] \in Entries
  BY <1>1, <1>b
<1>d. plcSize[p] \in Nat
  BY DEF IInv, TypeOK, StateTypeOK
<1>2. bulk[b] \in Chunks /\ bulk[b].sum \in Seq(Entries) /\ bulk[b].readSize \in Nat
      /\ bulk[b].sum[o] \in Entries /\ plcSize[p] \in Nat
  BY <1>a, <1>b, <1>c, <1>d
<1> DEFINE e == [bulk[b].sum[o] EXCEPT !.iSize = plcSize[p]]
           c == [amsPort |-> bulk[b].amsPort, readSize |-> bulk[b].readSize + plcSize[p] + 4,
                 sum |-> [bulk[b].sum EXCEPT ![o] = e]]
<1>3. e \in Entries /\ e.param = bulk[b].sum[o].param
  BY <1>2 DEF Entries
<1>4. [bulk[b].sum EXCEPT ![o] = e] \in Seq(Entries)
      /\ Len([bulk[b].sum EXCEPT ![o] = e]) = Len(bulk[b].sum)
  BY <1>1, <1>2, <1>3
<1>5. c \in Chunks
  <2>1. bulk[b].amsPort \in Nat
    BY <1>a DEF Chunks
  <2>2. bulk[b].readSize + plcSize[p] + 4 \in Nat
    BY <1>b, <1>d
  <2> HIDE DEF e
  <2> QED
    BY <1>4, <2>1, <2>2 DEF Chunks
<1>6. bulk' = [bulk EXCEPT ![b] = c]
  BY DEF Reuse
<1> HIDE DEF c
<1>7. /\ bulk' \in Seq(Chunks) /\ Len(bulk') = Len(bulk)
      /\ bulk'[b] = c
      /\ \A i \in 1..Len(bulk) : i # b => bulk'[i] = bulk[i]
  BY <1>0, <1>1, <1>5, <1>6, Replaced
<1>8. c.amsPort = bulk[b].amsPort /\ c.sum = [bulk[b].sum EXCEPT ![o] = e]
  BY DEF c
<1>10. \A j \in 1..Len(bulk[b].sum) : c.sum[j].param = bulk[b].sum[j].param
  BY <1>1, <1>2, <1>3, <1>8
<1>11. \A i \in 1..Len(bulk) :
            /\ bulk'[i].amsPort = bulk[i].amsPort
            /\ Len(bulk'[i].sum) = Len(bulk[i].sum)
            /\ \A j \in 1..Len(bulk[i].sum) : bulk'[i].sum[j].param = bulk[i].sum[j].param
  BY <1>4, <1>7, <1>8, <1>10
<1>12. bulk[b].sum[o].param = p /\ e.iSize = plcSize[p]
  BY <1>0, <1>2 DEF Reuse, SlotOwned, Entries
<1>13. \A j \in 1..Len(bulk[b].sum) :
         \/ c.sum[j] = bulk[b].sum[j]
         \/ c.sum[j].param = p /\ c.sum[j].iSize = plcSize[p]
  BY <1>1, <1>2, <1>3, <1>8, <1>12
<1>14. \A i \in 1..Len(bulk) : \A j \in 1..Len(bulk[i].sum) :
         \/ bulk'[i].sum[j] = bulk[i].sum[j]
         \/ bulk'[i].sum[j].param = p /\ bulk'[i].sum[j].iSize = plcSize[p]
  BY <1>7, <1>13
<1> QED
  BY <1>0, <1>7, <1>11, <1>14, SameShape DEF Reuse

(* A chunk b that gets one more entry, of a parameter p that had no slot:  *)
(* the shape of the table after both ways to allocate.                     *)
Gains(b, p) ==
    /\ b \in 1..Len(bulk') /\ Len(bulk) <= Len(bulk')
    /\ \A i \in 1..Len(bulk') : i # b => i \in 1..Len(bulk) /\ bulk'[i] = bulk[i]
    /\ bulk'[b].amsPort = portOf[p]
    /\ b \in 1..Len(bulk) => bulk[b].amsPort = portOf[p] /\ Len(bulk'[b].sum) = Len(bulk[b].sum) + 1
                          /\ \A j \in 1..Len(bulk[b].sum) : bulk'[b].sum[j] = bulk[b].sum[j]
    /\ b \notin 1..Len(bulk) => Len(bulk'[b].sum) = 1 /\ b = Len(bulk) + 1
    /\ bulk'[b].sum[Len(bulk'[b].sum)].param = p
    /\ bulk'[b].sum[Len(bulk'[b].sum)].iSize = plcSize[p]
    /\ bulkIndex' = [bulkIndex EXCEPT ![p] = b]
    /\ bulkOffset' = [bulkOffset EXCEPT ![p] = Len(bulk'[b].sum)]

(* An entry gained by a chunk keeps the slots owned.                       *)
LEMMA GainKeepsOwners ==
  ASSUME IInv, NEW p \in Params, NEW b \in Nat, bulkIndex[p] = 0, Gains(b, p),
         bulk' \in Seq(Chunks)
  PROVE  SlotOwned'
<1>0. /\ bulk \in Seq(Chunks) /\ SlotOwned /\ Len(bulk) \in Nat /\ Len(bulk') \in Nat
      /\ bulkIndex \in [Params -> Nat] /\ bulkOffset \in [Params -> Nat]
  BY DEF IInv, TypeOK, StateTypeOK
<1>a. /\ \A i \in 1..Len(bulk) : Len(bulk[i].sum) \in Nat
      /\ \A i \in 1..Len(bulk) : \A j \in 1..Len(bulk[i].sum) : bulk[i].sum[j].param \in Params
  <2> SUFFICES ASSUME NEW i \in 1..Len(bulk)
               PROVE  /\ Len(bulk[i].sum) \in Nat
                      /\ \A j \in 1..Len(bulk[i].sum) : bulk[i].sum[j].param \in Params
    OBVIOUS
  <2>1. Len(bulk[i].sum) \in Nat /\ \A j \in 1..Len(bulk[i].sum) : bulk[i].sum[j] \in Entries
    BY <1>0, ChunkParts
  <2> QED
    BY <2>1 DEF Entries
<1>b. Len(bulk'[b].sum) \in Nat /\ Len(bulk'[b].sum) >= 1
  <2>1. CASE b \in 1..Len(bulk)
    BY <1>a, <2>1 DEF Gains
  <2>2. CASE b \notin 1..Len(bulk)
    <3>1. Len(bulk'[b].sum) = 1
      BY <2>2 DEF Gains
    <3> QED
      BY <3>1
  <2> QED
    BY <2>1, <2>2
<1>c. bulkIndex'[p] = b /\ bulkOffset'[p] = Len(bulk'[b].sum)
      /\ \A q \in Params \ {p} : bulkIndex'[q] = bulkIndex[q] /\ bulkOffset'[q] = bulkOffset[q]
  BY <1>0 DEF Gains
<1>1. ASSUME NEW q \in Params, bulkIndex'[q] # 0
      PROVE  /\ bulkIndex'[q] \in 1..Len(bulk')
             /\ bulkOffset'[q] \in 1..Len(bulk'[bulkIndex'[q]].sum)
             /\ bulk'[bulkIndex'[q]].sum[bulkOffset'[q]].param = q
             /\ bulk'[bulkIndex'[q]].amsPort = portOf[q]
  <2>1. CASE q = p
    BY <1>b, <1>c, <2>1 DEF Gains
  <2>2. CASE q # p
    <3> DEFINE i == bulkIndex[q]
               j == bulkOffset[q]
    <3>1. bulkIndex'[q] = i /\ bulkOffset'[q] = j
      BY <1>c, <2>2
    <3>2. /\ i \in 1..Len(bulk) /\ j \in 1..Len(bulk[i].sum)
          /\ bulk[i].sum[j].param = q /\ bulk[i].amsPort = portOf[q]
      BY <1>0, <1>1, <3>1 DEF SlotOwned
    <3>3. i \in 1..Len(bulk')
      BY <1>0, <3>2 DEF Gains
    <3>4. CASE i # b
      BY <3>1, <3>2, <3>3, <3>4 DEF Gains
    <3>5. CASE i = b
      <4>1. /\ bulk'[b].amsPort = portOf[q]
            /\ Len(bulk'[b].sum) = Len(bulk[b].sum) + 1
            /\ bulk'[b].sum[j] = bulk[b].sum[j]
        BY <3>2, <3>5 DEF Gains
      <4>2. j \in 1..Len(bulk'[b].sum)
        BY <1>a, <3>2, <3>5, <4>1
      <4> QED
        BY <3>1, <3>2, <3>3, <3>5, <4>1, <4>2
    <3> QED
      BY <3>4, <3>5
  <2> QED
    BY <2>1, <2>2
<1>2. ASSUME NEW i \in 1..Len(bulk'), NEW j \in 1..Len(bulk'[i].sum)
      PROVE  /\ bulkIndex'[bulk'[i].sum[j].param] = i
             /\ bulkOffset'[bulk'[i].sum[j].param] = j
  <2>1. CASE i = b /\ j = Len(bulk'[b].sum)
    <3>1. bulk'[i].sum[j].param = p
      BY <2>1 DEF Gains
    <3> QED
      BY <1>c, <2>1, <3>1
  <2>2. CASE ~(i = b /\ j = Len(bulk'[b].sum))
    <3>1. i \in 1..Len(bulk) /\ j \in 1..Len(bulk[i].sum) /\ bulk'[i].sum[j] = bulk[i].sum[j]
      <4>1. CASE i # b
        BY <4>1 DEF Gains
      <4>2. CASE i = b /\ j # Len(bulk'[b].sum)
        <5>1. b \in 1..Len(bulk)
          BY <1>b, <4>2 DEF Gains
        <5>2. j \in 1..Len(bulk[b].sum)
          BY <1>a, <4>2, <5>1 DEF Gains
        <5> QED
          BY <4>2, <5>1, <5>2 DEF Gains
      <4> QED
        BY <2>2, <4>1, <4>2
    <3>2. bulkIndex[bulk[i].sum[j].param] = i /\ bulkOffset[bulk[i].sum[j].param] = j
      BY <1>0, <3>1 DEF SlotOwned
    <3>3. bulk[i].sum[j].param \in Params \ {p}
      BY <1>a, <3>1, <3>2
    <3> QED
      BY <1>c, <3>1, <3>2, <3>3
  <2> QED
    BY <2>1, <2>2
<1> QED
  BY <1>1, <1>2 DEF SlotOwned

(* It keeps the chunks packed if the chunk is the first one of its port    *)
(* with room, or a new one when there is none.                             *)
LEMMA GainKeepsPacked ==
  ASSUME IInv, NEW p \in Params, NEW b \in Nat, Gains(b, p), bulk' \in Seq(Chunks),
         b \in Room(p) \/ (b \notin 1..Len(bulk) /\ Room(p) = {})
  PROVE  PackedChunks'
<1> USE BulkAssumption DEF BulkAssumption
<1>0. /\ bulk \in Seq(Chunks) /\ PackedChunks /\ Len(bulk) \in Nat /\ Len(bulk') \in Nat
  BY DEF IInv, TypeOK
<1>1. \A i \in 1..Len(bulk) : Len(bulk[i].sum) \in Nat /\ Len(bulk[i].sum) + 2 <= BULKSIZ
  BY <1>0, ChunkParts DEF PackedChunks
<1>2. CASE b \in Room(p)
  <2>1. b \in 1..Len(bulk) /\ Len(bulk[b].sum) + 2 # BULKSIZ /\ bulk[b].amsPort = portOf[p]
    BY <1>2 DEF Room
  <2>2. /\ \A i \in 1..Len(bulk') : i \in 1..Len(bulk) /\ bulk'[i].amsPort = bulk[i].amsPort
        /\ \A i \in 1..Len(bulk') : i # b => bulk'[i].sum = bulk[i].sum
        /\ Len(bulk'[b].sum) = Len(bulk[b].sum) + 1
    BY <2>1 DEF Gains
  <2>3. \A i \in 1..Len(bulk') : Len(bulk'[i].sum) + 2 <= BULKSIZ
    <3>1. ASSUME NEW i \in 1..Len(bulk'), i # b PROVE Len(bulk'[i].sum) + 2 <= BULKSIZ
      BY <1>1, <2>2, <3>1
    <3>2. Len(bulk'[b].sum) + 2 <= BULKSIZ
      BY <1>1, <2>1, <2>2
    <3> QED
      BY <3>1, <3>2
  <2>4. ASSUME NEW i \in 1..Len(bulk'), NEW k \in 1..Len(bulk'), i < k,
               bulk'[i].amsPort = bulk'[k].amsPort
        PROVE  Len(bulk'[i].sum) + 2 = BULKSIZ
    <3>1. Len(bulk[i].sum) + 2 = BULKSIZ
      BY <1>0, <2>2, <2>4 DEF PackedChunks
    <3>2. i # b
      BY <2>1, <3>1
    <3> QED
      BY <2>2, <3>1, <3>2
  <2> QED
    BY <2>3, <2>4 DEF PackedChunks
<1>3. CASE b \notin 1..Len(bulk) /\ Room(p) = {}
  <2>1. /\ b = Len(bulk) + 1 /\ Len(bulk'[b].sum) = 1 /\ bulk'[b].amsPort = portOf[p]
        /\ \A i \in 1..Len(bulk') : i # b => i \in 1..Len(bulk) /\ bulk'[i] = bulk[i]
    BY <1>3 DEF Gains
  <2>2. \A i \in 1..Len(bulk') : Len(bulk'[i].sum) + 2 <= BULKSIZ
    <3>1. ASSUME NEW i \in 1..Len(bulk'), i # b PROVE Len(bulk'[i].sum) + 2 <= BULKSIZ
      BY <1>1, <2>1, <3>1
    <3>2. Len(bulk'[b].sum) + 2 <= BULKSIZ
      BY <2>1
    <3> QED
      BY <3>1, <3>2
  <2>3. ASSUME NEW i \in 1..Len(bulk'), NEW k \in 1..Len(bulk'), i < k,
               bulk'[i].amsPort = bulk'[k].amsPort
        PROVE  Len(bulk'[i].sum) + 2 = BULKSIZ
    <3>0. i \in 1..Len(bulk) /\ bulk'[i] = bulk[i]
      BY <1>0, <2>1, <2>3
    <3>1. CASE k # b
      BY <1>0, <2>1, <2>3, <3>0, <3>1 DEF PackedChunks
    <3>2. CASE k = b
      <4>1. bulk[i].amsPort = portOf[p] /\ i \notin Room(p)
        BY <1>3, <2>1, <2>3, <3>0, <3>2
      <4> QED
        BY <3>0, <4>1 DEF Room
    <3> QED
      BY <3>1, <3>2
  <2> QED
    BY <2>2, <2>3 DEF PackedChunks
<1> QED
  BY <1>2, <1>3

(* Entering p in chunk b of table t.                                       *)
LEMMA EnteredTable ==
  ASSUME IInv, NEW p \in Params, NEW t \in Seq(Chunks), NEW b \in 1..Len(t)
  PROVE  /\ Entered(t, b, p) \in Seq(Chunks) /\ Len(Entered(t, b, p)) = Len(t)
         /\ \A i \in 1..Len(t) : i # b => Entered(t, b, p)[i] = t[i]
         /\ Entered(t, b, p)[b].amsPort = t[b].amsPort
         /\ Entered(t, b, p)[b].sum = Append(t[b].sum, [param |-> p, iSize |-> plcSize[p]])
<1>1. plcSize[p] \in Nat
  BY DEF IInv, TypeOK, StateTypeOK
<1>2. t[b] \in Chunks /\ t[b].amsPort \in Nat /\ t[b].readSize \in Nat /\ t[b].sum \in Seq(Entries)
  BY ChunkParts
<1> DEFINE e == [param |-> p, iSize |-> plcSize[p]]
           c == [amsPort |-> t[b].amsPort, readSize |-> t[b].readSize + plcSize[p] + 4,
                 sum |-> Append(t[b].sum, e)]
<1>3. e \in Entries
  BY <1>1 DEF Entries
<1>4. Append(t[b].sum, e) \in Seq(Entries)
  BY <1>2, <1>3
<1>5. c \in Chunks
  <2>1. t[b].readSize + plcSize[p] + 4 \in Nat
    BY <1>1, <1>2
  <2> HIDE DEF e
  <2> QED
    BY <1>2, <1>4, <2>1 DEF Chunks
<1>6. Entered(t, b, p) = [t EXCEPT ![b] = c]
  BY DEF Entered
<1>7. c.amsPort = t[b].amsPort /\ c.sum = Append(t[b].sum, e)
  OBVIOUS
<1> HIDE DEF c
<1> QED
  BY <1>5, <1>6, <1>7, Replaced

(* Allocating a slot for a parameter that has none.                        *)
LEMMA AllocatedTable ==
  ASSUME IInv, NEW p \in Params, Allocate(p)
  PROVE  /\ bulk' \in Seq(Chunks) /\ Len(bulk') <= MAXBULK
         /\ bulkIndex' \in [Params -> Nat] /\ bulkOffset' \in [Params -> Nat]
         /\ SlotOwned' /\ PackedChunks'
         /\ \E b \in Nat : Gains(b, p)
<1> USE BulkAssumption DEF BulkAssumption
<1> DEFINE e == [param |-> p, iSize |-> plcSize[p]]
<1>0. /\ bulk \in Seq(Chunks) /\ Len(bulk) \in Nat /\ Len(bulk) <= MAXBULK
      /\ bulkIndex \in [Params -> Nat] /\ bulkOffset \in [Params -> Nat] /\ bulkIndex[p] = 0
  BY DEF IInv, TypeOK, StateTypeOK, Allocate
<1>1. ASSUME NEW b \in Room(p), bulk' = Entered(bulk, b, p),
             bulkIndex' = [bulkIndex EXCEPT ![p] = b],
             bulkOffset' = [bulkOffset EXCEPT ![p] = Len(bulk[b].sum) + 1]
      PROVE  bulk' \in Seq(Chunks) /\ Len(bulk') = Len(bulk) /\ b \in Nat /\ Gains(b, p)
  <2>1. b \in 1..Len(bulk) /\ bulk[b].amsPort = portOf[p]
    BY DEF Room
  <2>2. bulk[b].sum \in Seq(Entries) /\ Len(bulk[b].sum) \in Nat
    BY <1>0, <2>1, ChunkParts
  <2>3. /\ bulk' \in Seq(Chunks) /\ Len(bulk') = Len(bulk)
        /\ \A i \in 1..Len(bulk) : i # b => bulk'[i] = bulk[i]
        /\ bulk'[b].amsPort = bulk[b].amsPort /\ bulk'[b].sum = Append(bulk[b].sum, e)
    BY <1>0, <1>1, <2>1, EnteredTable
  <2>4. /\ Len(bulk'[b].sum) = Len(bulk[b].sum) + 1
        /\ \A j \in 1..Len(bulk[b].sum) : bulk'[b].sum[j] = bulk[b].sum[j]
        /\ bulk'[b].sum[Len(bulk[b].sum) + 1] = e
    BY <2>2, <2>3
  <2> QED
    BY <1>0, <1>1, <2>1, <2>3, <2>4 DEF Gains
<1>2. ASSUME Len(bulk) < MAXBULK, bulk' = Entered(Append(bulk, NewChunk(p)), Len(bulk) + 1, p),
             bulkIndex' = [bulkIndex EXCEPT ![p] = Len(bulk) + 1],
             bulkOffset' = [bulkOffset EXCEPT ![p] = 1]
      PROVE  bulk' \in Seq(Chunks) /\ Len(bulk') = Len(bulk) + 1 /\ Gains(Len(bulk) + 1, p)
  <2> DEFINE t == Append(bulk, NewChunk(p))
             b == Len(bulk) + 1
  <2>1. NewChunk(p) \in Chunks
    BY DEF NewChunk, Chunks
  <2>2. /\ t \in Seq(Chunks) /\ Len(t) = b /\ b \in 1..Len(t) /\ t[b] = NewChunk(p)
        /\ \A i \in 1..Len(bulk) : t[i] = bulk[i]
    BY <1>0, <2>1
  <2> HIDE DEF t
  <2>3. /\ Entered(t, b, p) \in Seq(Chunks) /\ Len(Entered(t, b, p)) = Len(t)
        /\ \A i \in 1..Len(t) : i # b => Entered(t, b, p)[i] = t[i]
        /\ Entered(t, b, p)[b].amsPort = t[b].amsPort
        /\ Entered(t, b, p)[b].sum = Append(t[b].sum, e)
    BY <2>2, EnteredTable
  <2>4. bulk' = Entered(t, b, p)
    BY <1>2 DEF t
  <2>5. t[b].amsPort = portOf[p] /\ t[b].sum = <<>>
    BY <2>2 DEF NewChunk
  <2>6. bulk'[b].sum = <<e>> /\ bulk'[b].amsPort = portOf[p]
    BY <2>3, <2>4, <2>5
  <2>7. Len(bulk'[b].sum) = 1 /\ bulk'[b].sum[1].param = p /\ bulk'[b].sum[1].iSize = plcSize[p]
    BY <2>6
  <2>8. \A i \in 1..Len(bulk') : i # b => i \in 1..Len(bulk) /\ bulk'[i] = bulk[i]
    <3>1. Len(bulk) \in Nat /\ Len(bulk') = Len(bulk) + 1 /\ Len(t) = Len(bulk) + 1
      BY <1>0, <2>2, <2>3, <2>4
    <3>2. ASSUME NEW i \in 1..Len(bulk'), i # b PROVE i \in 1..Len(bulk) /\ bulk'[i] = bulk[i]
      <4>1. i \in 1..Len(bulk) /\ i \in 1..Len(t)
        BY <3>1, <3>2
      <4>2. bulk'[i] = t[i]
        BY <2>3, <2>4, <3>2, <4>1
      <4>3. t[i] = bulk[i]
        BY <2>2, <4>1
      <4> QED
        BY <4>1, <4>2, <4>3
    <3> QED
      BY <3>2
  <2>9. b \in 1..Len(bulk') /\ Len(bulk) <= Len(bulk') /\ b \notin 1..Len(bulk)
    BY <1>0, <2>2, <2>3, <2>4
  <2> QED
    BY <1>2, <2>2, <2>3, <2>4, <2>6, <2>7, <2>8, <2>9 DEF Gains
<1>3. CASE Room(p) # {}
  <2>1. PICK b \in Room(p) : /\ bulk' = Entered(bulk, b, p)
                             /\ bulkIndex' = [bulkIndex EXCEPT ![p] = b]
                             /\ bulkOffset' = [bulkOffset EXCEPT ![p] = Len(bulk[b].sum) + 1]
    BY <1>3 DEF Allocate
  <2>2. bulk' \in Seq(Chunks) /\ Len(bulk') = Len(bulk) /\ b \in Nat /\ Gains(b, p)
    BY <1>1, <2>1
  <2>3. SlotOwned' /\ PackedChunks'
    BY <1>0, <2>2, GainKeepsOwners, GainKeepsPacked
  <2>4. bulkIndex' \in [Params -> Nat] /\ bulkOffset' \in [Params -> Nat]
    <3>1. b \in 1..Len(bulk)
      BY DEF Room
    <3>2. Len(bulk[b].sum) \in Nat
      BY <1>0, <3>1, ChunkParts
    <3> QED
      BY <1>0, <2>1, <2>2, <3>2
  <2> QED
    BY <1>0, <2>2, <2>3, <2>4
<1>4. CASE Room(p) = {}
  <2> DEFINE b == Len(bulk) + 1
  <2>1. /\ Len(bulk) < MAXBULK
        /\ bulk' = Entered(Append(bulk, NewChunk(p)), Len(bulk) + 1, p)
        /\ bulkIndex' = [bulkIndex EXCEPT ![p] = Len(bulk) + 1]
        /\ bulkOffset' = [bulkOffset EXCEPT ![p] = 1]
    BY <1>4 DEF Allocate
  <2>2. bulk' \in Seq(Chunks) /\ Len(bulk') = Len(bulk) + 1 /\ Gains(b, p)
    BY <1>2, <2>1
  <2>3. b \in Nat /\ b \notin 1..Len(bulk)
    BY <1>0
  <2>4. SlotOwned' /\ PackedChunks'
    BY <1>0, <1>4, <2>2, <2>3, GainKeepsOwners, GainKeepsPacked
  <2> QED
    BY <1>0, <2>1, <2>2, <2>3, <2>4
<1> QED
  BY <1>3, <1>4

-----------------------------------------------------------------------------
(***************************************************************************)
(* The invariant is inductive.                                             *)
(***************************************************************************)

(* The records are about to be created: the table is empty.                *)
LEMMA InitIInv == Init => IInv
<1> SUFFICES ASSUME Init PROVE IInv
  OBVIOUS
<1> USE BulkAssumption DEF BulkAssumption
<1>1. plcSize \in [Params -> Nat]
  BY DEF Init
<1>2. upd \in [pc : UpdPcs, port : Nat, next : 1..(NParams + 1)]
  BY DEF Init, UpdPcs
<1>3. bth \in Bths
  BY DEF Init, Bths, BthPcs
<1>4. sent \in Seq(Entries) /\ bulk \in Seq(Chunks) /\ Len(bulk) = 0
  BY DEF Init
<1>a. /\ changes \in 0..MaxChanges /\ rounds \in 0..MaxRounds
      /\ bulkIndex \in [Params -> Nat] /\ bulkOffset \in [Params -> Nat]
  BY DEF Init
<1>b. /\ symbolSize \in [Params -> Sizes] /\ refreshNeeded \in [Params -> BOOLEAN]
      /\ bulkOK \in BOOLEAN /\ connectedAds \in BOOLEAN
      /\ lock \in {None, "updater"} /\ mutex \in {None, "bulk"} /\ pos \in Nat
  BY DEF Init
<1>5. TypeOK
  BY <1>1, <1>2, <1>3, <1>4, <1>a, <1>b DEF TypeOK, StateTypeOK
<1>6. Control
  BY DEF Init, Control, None
<1>7. SlotOwned /\ PackedChunks /\ RequestStable
  BY <1>4 DEF Init, SlotOwned, PackedChunks, RequestStable
<1> QED
  BY <1>5, <1>6, <1>7 DEF IInv

(* The environment. *)
LEMMA EnvKeeps == ASSUME IInv, SizeChange \/ DropConnectedAds PROVE IInv'
<1> USE BulkAssumption DEF BulkAssumption
<1>1. UNCHANGED <<infoVars, slotVars, bulkOK, lock, mutex, upd, bthVars, rounds>>
  BY DEF SizeChange, DropConnectedAds
<1>2. /\ SlotOwned' /\ PackedChunks' /\ bulk' \in Seq(Chunks) /\ Len(bulk') <= MAXBULK
      /\ bulkIndex' \in [Params -> Nat] /\ bulkOffset' \in [Params -> Nat]
  BY <1>1, TableFrame
<1>3. symbolSize' \in [Params -> Sizes] /\ changes' \in 0..MaxChanges /\ connectedAds' \in BOOLEAN
  <2>0. symbolSize \in [Params -> Sizes] /\ changes \in 0..MaxChanges /\ connectedAds \in BOOLEAN
    BY DEF IInv, TypeOK, StateTypeOK
  <2>1. CASE SizeChange
    BY <2>0, <2>1 DEF SizeChange
  <2>2. CASE DropConnectedAds
    BY <2>0, <2>2 DEF DropConnectedAds
  <2> QED
    BY <2>1, <2>2
<1>4. StateTypeOK'
  BY <1>1, <1>2, <1>3 DEF IInv, TypeOK, StateTypeOK, infoVars, bthVars
<1>5. Control' /\ RequestStable'
  BY <1>1 DEF IInv, Control, RequestStable, bthVars, slotVars
<1> QED
  BY <1>2, <1>4, <1>5 DEF IInv, TypeOK

(* invalidateParams changes no entry, so it may run without the mutex.     *)
LEMMA InvalidateKeeps == ASSUME IInv, NEW a \in Nat, invalidateParams(a) PROVE IInv'
<1> USE BulkAssumption DEF BulkAssumption
<1>1. /\ UNCHANGED <<symbolSize, changes, rounds, plcSize, bulkIndex, bulkOffset, connectedAds,
                     lock, mutex, upd, bthVars>>
      /\ bulkOK' = FALSE
      /\ refreshNeeded' = [p \in Params |-> refreshNeeded[p] \/ OfPort(a, p)]
  BY DEF invalidateParams
<1>2. /\ bulk' \in Seq(Chunks) /\ Len(bulk') = Len(bulk)
      /\ \A i \in 1..Len(bulk) : bulk'[i].sum = bulk[i].sum
      /\ SlotOwned' /\ PackedChunks'
  BY <1>1, InvalidatedTable DEF invalidateParams
<1>3. refreshNeeded' \in [Params -> BOOLEAN]
  BY <1>1 DEF IInv, TypeOK, StateTypeOK, OfPort
<1>4. TypeOK'
  BY <1>1, <1>2, <1>3 DEF IInv, TypeOK, StateTypeOK, bthVars
<1>5. Control'
  BY <1>1 DEF IInv, Control, bthVars
<1>6. RequestStable'
  BY <1>1, <1>2 DEF IInv, RequestStable, bthVars
<1> QED
  BY <1>2, <1>4, <1>5, <1>6 DEF IInv

(* The steps of the updater that leave the table alone. *)
LEMMA UpdaterKeeps ==
  ASSUME IInv,
         \/ \E a \in Ports : refreshParamsLock(a)
         \/ RefreshDone \/ RefreshSkip \/ adsGetSymInfoByName \/ adsGetSymHandleByName
         \/ Subscribe
  PROVE  IInv'
<1> USE BulkAssumption DEF BulkAssumption
<1>0. StateTypeOK /\ Control /\ RequestStable
  BY DEF IInv, TypeOK
<1>1. UNCHANGED <<symbolSize, changes, slotVars, connectedAds, mutex, bthVars>>
  BY DEF refreshParamsLock, RefreshDone, RefreshSkip, adsGetSymInfoByName,
         adsGetSymHandleByName, Subscribe
<1>2. /\ SlotOwned' /\ PackedChunks' /\ bulk' \in Seq(Chunks) /\ Len(bulk') <= MAXBULK
      /\ bulkIndex' \in [Params -> Nat] /\ bulkOffset' \in [Params -> Nat]
  BY <1>1, TableFrame
<1>3. RequestStable'
  BY <1>0, <1>1 DEF RequestStable, bthVars, slotVars
<1>4. Ports \subseteq Nat
  BY DEF Ports
<1>5. rounds' \in 0..MaxRounds /\ bulkOK' \in BOOLEAN
  <2>0. rounds \in 0..MaxRounds /\ bulkOK \in BOOLEAN
    BY <1>0 DEF StateTypeOK
  <2>1. CASE \E a \in Ports : refreshParamsLock(a)
    BY <2>0, <2>1 DEF refreshParamsLock
  <2>2. CASE RefreshDone
    BY <2>0, <2>2 DEF RefreshDone
  <2>3. CASE RefreshSkip \/ adsGetSymInfoByName \/ adsGetSymHandleByName \/ Subscribe
    BY <2>0, <2>3 DEF RefreshSkip, adsGetSymInfoByName, adsGetSymHandleByName, Subscribe
  <2> QED
    BY <2>1, <2>2, <2>3
<1>6. plcSize' \in [Params -> Nat] /\ refreshNeeded' \in [Params -> BOOLEAN]
  <2>0. /\ plcSize \in [Params -> Nat] /\ refreshNeeded \in [Params -> BOOLEAN]
        /\ symbolSize \in [Params -> Sizes] /\ Sizes \subseteq Nat
    BY <1>0 DEF StateTypeOK
  <2>1. CASE (\E a \in Ports : refreshParamsLock(a)) \/ RefreshDone \/ RefreshSkip
             \/ adsGetSymHandleByName
    BY <2>0, <2>1 DEF refreshParamsLock, RefreshDone, RefreshSkip, adsGetSymHandleByName, infoVars
  <2>2. CASE adsGetSymInfoByName
    <3>1. refreshNeeded' = refreshNeeded
      BY <2>2 DEF adsGetSymInfoByName
    <3>2. plcSize' = plcSize \/ plcSize' = [plcSize EXCEPT ![upd.next] = symbolSize[upd.next]]
      BY <2>2 DEF adsGetSymInfoByName
    <3>3. \A q \in Params : symbolSize[q] \in Nat
      BY <2>0
    <3> QED
      BY <2>0, <3>1, <3>2, <3>3
  <2>3. CASE Subscribe
    BY <2>0, <2>3 DEF Subscribe
  <2> QED
    BY <2>1, <2>2, <2>3
<1>7. /\ upd' \in [pc : UpdPcs, port : Nat, next : 1..(NParams + 1)]
      /\ lock' \in {None, "updater"} /\ (lock' = "updater" <=> upd'.pc # "idle")
      /\ upd'.pc \in {"handle", "add"} => upd'.next \in Params
  <2>0. upd \in [pc : UpdPcs, port : Nat, next : 1..(NParams + 1)] /\ lock \in {None, "updater"}
    BY <1>0 DEF StateTypeOK
  <2>1. CASE \E a \in Ports : refreshParamsLock(a)
    BY <1>4, <2>0, <2>1 DEF refreshParamsLock, UpdPcs
  <2>2. CASE RefreshDone
    BY <1>0, <2>0, <2>2 DEF RefreshDone, UpdPcs, None
  <2>3. ASSUME upd.next \in Params, upd.pc # "idle", lock' = lock,
               upd' \in {NextParam, [upd EXCEPT !.pc = "handle"], [upd EXCEPT !.pc = "add"]}
        PROVE  /\ upd' \in [pc : UpdPcs, port : Nat, next : 1..(NParams + 1)]
               /\ lock' \in {None, "updater"} /\ (lock' = "updater" <=> upd'.pc # "idle")
               /\ upd'.pc \in {"handle", "add"} => upd'.next \in Params
    <3>1. lock = "updater"
      BY <1>0, <2>3 DEF Control
    <3>2. CASE upd' = NextParam
      BY <2>0, <2>3, <3>1, <3>2 DEF NextParam, UpdPcs, Params
    <3>3. CASE upd' \in {[upd EXCEPT !.pc = "handle"], [upd EXCEPT !.pc = "add"]}
      BY <2>0, <2>3, <3>1, <3>3 DEF UpdPcs
    <3> QED
      BY <2>3, <3>2, <3>3
  <2>4. CASE RefreshSkip \/ adsGetSymInfoByName
    <3>1. upd.pc = "loop" /\ upd.next \in Params /\ lock' = lock
      BY <2>0, <2>4 DEF RefreshSkip, adsGetSymInfoByName, Params
    <3>2. upd' \in {NextParam, [upd EXCEPT !.pc = "handle"], [upd EXCEPT !.pc = "add"]}
      BY <2>4 DEF RefreshSkip, adsGetSymInfoByName
    <3> QED
      BY <2>3, <3>1, <3>2
  <2>5. CASE adsGetSymHandleByName \/ Subscribe
    <3>1. upd.pc \in {"handle", "add"} /\ upd.next \in Params /\ lock' = lock
      BY <1>0, <2>5 DEF adsGetSymHandleByName, Subscribe, Control
    <3>2. upd' \in {NextParam, [upd EXCEPT !.pc = "handle"], [upd EXCEPT !.pc = "add"]}
      BY <2>5 DEF adsGetSymHandleByName, Subscribe
    <3> QED
      BY <2>3, <3>1, <3>2
  <2> QED
    BY <2>1, <2>2, <2>4, <2>5
<1>8. TypeOK'
  BY <1>0, <1>1, <1>2, <1>5, <1>6, <1>7 DEF TypeOK, StateTypeOK, bthVars
<1>9. Control'
  BY <1>0, <1>1, <1>7 DEF Control, bthVars
<1> QED
  BY <1>2, <1>3, <1>8, <1>9 DEF IInv

(* adsAddToBulkRead: the mutex it needs is not with bulkReadThread, so no  *)
(* reply is being walked through.                                          *)
LEMMA AddKeeps == ASSUME IInv, adsAddToBulkRead PROVE IInv'
<1> USE BulkAssumption DEF BulkAssumption
<1>0. StateTypeOK /\ Control
  BY DEF IInv, TypeOK
<1> DEFINE p == upd.next
<1>1. /\ upd.pc = "add" /\ mutex = None /\ p \in Params
      /\ Allocate(p) \/ Reuse(p) \/ NoRoom(p)
      /\ upd' = NextParam
      /\ UNCHANGED <<symbolSize, changes, rounds, plcSize, bulkOK, connectedAds, lock, mutex,
                     bthVars>>
  BY <1>0 DEF adsAddToBulkRead, Control
<1>2. /\ SlotOwned' /\ PackedChunks' /\ bulk' \in Seq(Chunks) /\ Len(bulk') <= MAXBULK
      /\ bulkIndex' \in [Params -> Nat] /\ bulkOffset' \in [Params -> Nat]
  <2>1. CASE Allocate(p)
    BY <1>1, <2>1, AllocatedTable
  <2>2. CASE Reuse(p)
    <3>1. bulk' \in Seq(Chunks) /\ Len(bulk') = Len(bulk) /\ SlotOwned' /\ PackedChunks'
      BY <1>1, <2>2, ReusedTable
    <3> QED
      BY <1>0, <2>2, <3>1 DEF Reuse, IInv, TypeOK, StateTypeOK
  <2>3. CASE NoRoom(p)
    BY <2>3, TableFrame DEF NoRoom
  <2> QED
    BY <1>1, <2>1, <2>2, <2>3
<1>3. refreshNeeded' \in [Params -> BOOLEAN]
  BY <1>0, <1>1 DEF StateTypeOK, Allocate, Reuse, NoRoom
<1>4. /\ upd' \in [pc : UpdPcs, port : Nat, next : 1..(NParams + 1)]
      /\ upd'.pc = "loop"
  <2>1. upd \in [pc : UpdPcs, port : Nat, next : 1..(NParams + 1)] /\ upd.next \in 1..NParams
    BY <1>0, <1>1 DEF StateTypeOK, Params
  <2> QED
    BY <1>1, <2>1 DEF NextParam, UpdPcs
<1>5. TypeOK'
  BY <1>0, <1>1, <1>2, <1>3, <1>4 DEF TypeOK, StateTypeOK, bthVars
<1>6. Control'
  BY <1>0, <1>1, <1>4 DEF Control, bthVars
<1>7. RequestStable'
  BY <1>0, <1>1 DEF RequestStable, Control, bthVars, None
<1> QED
  BY <1>2, <1>5, <1>6, <1>7 DEF IInv

(* The updates of bulkReadThread's own variables. *)
LEMMA BthUpdates ==
  ASSUME NEW b \in Bths, NEW x \in BthPcs, NEW c \in Nat, NEW s \in Nat, NEW r \in Nat
  PROVE  /\ [b EXCEPT !.pc = x] \in Bths
         /\ [b EXCEPT !.chunk = c] \in Bths
         /\ [b EXCEPT !.pc = x, !.chunk = c] \in Bths
         /\ [b EXCEPT !.pc = x, !.slot = s, !.srd = r] \in Bths
         /\ [b EXCEPT !.pc = x, !.size = r] \in Bths
  BY DEF Bths

(* bulkReadThread: it holds the mutex from the request to the last slot.   *)
LEMMA BulkKeeps == ASSUME IInv, bulkReadThread PROVE IInv'
<1> USE BulkAssumption DEF BulkAssumption
<1>0. StateTypeOK /\ Control /\ RequestStable /\ bulk \in Seq(Chunks) /\ Len(bulk) \in Nat
  BY DEF IInv, TypeOK
<1>1. UNCHANGED <<symbolSize, changes, rounds, plcSize, slotVars, bulkOK, connectedAds, lock, upd>>
  BY DEF bulkReadThread, BulkStart, BulkPass, BulkPassDone, BulkBeyond, SumRead, SlotStatus, SlotApply,
         ChunkDone, infoVars
<1>2. /\ SlotOwned' /\ PackedChunks' /\ bulk' \in Seq(Chunks) /\ Len(bulk') <= MAXBULK
      /\ bulkIndex' \in [Params -> Nat] /\ bulkOffset' \in [Params -> Nat]
  BY <1>1, TableFrame
<1>a. bth \in Bths
      /\ sent \in Seq(Entries) /\ pos \in Nat /\ plcSize \in [Params -> Nat]
      /\ refreshNeeded \in [Params -> BOOLEAN] /\ mutex \in {None, "bulk"}
  BY <1>0 DEF StateTypeOK
<1> DEFINE BthTypeOK == /\ bth' \in Bths
                        /\ sent' \in Seq(Entries) /\ pos' \in Nat
                        /\ refreshNeeded' \in [Params -> BOOLEAN]
           BthControl == /\ mutex' \in {None, "bulk"}
                         /\ mutex' = "bulk" <=> bth'.pc \in {"chunk", "slot", "apply", "beyond"}
                         /\ bth'.chunk >= 1 /\ bth'.slot >= 1
                         /\ bth'.pc = "apply" => bth'.slot <= Len(sent')
<1>d. bth.chunk \in Nat /\ bth.slot \in Nat
  BY <1>a DEF Bths
<1>b. bth.chunk >= 1 /\ bth.slot >= 1
      /\ (mutex = "bulk" <=> bth.pc \in {"chunk", "slot", "apply", "beyond"})
      /\ (bth.pc = "apply" => bth.slot <= Len(sent))
  BY <1>0 DEF Control
<1>c. bth.pc \in {"slot", "apply"} =>
        mutex = "bulk" /\ bth.chunk \in 1..Len(bulk) /\ sent = bulk[bth.chunk].sum
  BY <1>0 DEF RequestStable
<1>3. ASSUME BulkStart \/ BulkPass \/ BulkPassDone PROVE BthTypeOK /\ BthControl /\ RequestStable'
  <2>1. UNCHANGED <<sent, pos, refreshNeeded>>
    BY <1>3 DEF BulkStart, BulkPass, BulkPassDone, infoVars
  <2>a. \/ bth' = [bth EXCEPT !.pc = "idle"] /\ mutex' = mutex /\ bth.pc = "wait"
        \/ bth' = [bth EXCEPT !.pc = "idle"] /\ mutex' = None
        \/ bth' = [bth EXCEPT !.pc = "chunk", !.chunk = 1] /\ mutex' = "bulk"
    BY <1>3 DEF BulkStart, BulkPass, BulkPassDone
  <2>b. bth' \in Bths
    <3>1. "idle" \in BthPcs /\ "chunk" \in BthPcs /\ 1 \in Nat
      BY DEF BthPcs
    <3>2. [bth EXCEPT !.pc = "idle"] \in Bths
      BY <1>a, <3>1, BthUpdates
    <3>3. [bth EXCEPT !.pc = "chunk", !.chunk = 1] \in Bths
      BY <1>a, <3>1, BthUpdates
    <3> QED
      BY <2>a, <3>2, <3>3
  <2>2. BthTypeOK
    BY <1>a, <2>1, <2>b
  <2>c. /\ bth'.slot = bth.slot /\ bth'.pc \in {"idle", "chunk"}
        /\ bth'.chunk = bth.chunk \/ bth'.chunk = 1
        /\ bth'.pc = "chunk" <=> mutex' = "bulk"
        /\ mutex' \in {None, "bulk"}
    BY <1>a, <1>b, <2>a DEF Bths, None
  <2>3. BthControl
    BY <1>a, <1>b, <2>c
  <2>4. RequestStable'
    BY <2>c DEF RequestStable
  <2> QED
    BY <2>2, <2>3, <2>4
<1>3a. ASSUME BulkBeyond PROVE BthTypeOK /\ BthControl /\ RequestStable'
  <2>1. /\ bth.pc = "chunk" /\ bth' = [bth EXCEPT !.pc = "beyond"]
        /\ UNCHANGED <<sent, pos, refreshNeeded, mutex>>
    BY <1>3a DEF BulkBeyond, infoVars
  <2>2. [bth EXCEPT !.pc = "beyond"] \in Bths
    <3>1. "beyond" \in BthPcs
      BY DEF BthPcs
    <3> QED
      BY <1>a, <3>1, BthUpdates
  <2>3. BthTypeOK
    BY <1>a, <2>1, <2>2
  <2>4. bth'.pc = "beyond" /\ bth'.chunk = bth.chunk /\ bth'.slot = bth.slot
    BY <1>a, <2>1 DEF Bths
  <2>5. BthControl
    BY <1>a, <1>b, <2>1, <2>4 DEF None
  <2>6. RequestStable'
    BY <2>4 DEF RequestStable
  <2> QED
    BY <2>3, <2>5, <2>6
<1>4. ASSUME SumRead PROVE BthTypeOK /\ BthControl /\ RequestStable'
  <2>1. bth.pc = "chunk" /\ bth.chunk \in 1..Len(bulk) /\ sent' = bulk[bth.chunk].sum
        /\ UNCHANGED <<mutex, refreshNeeded>>
    BY <1>0, <1>4, <1>b, <1>d DEF SumRead, infoVars
  <2>2. bulk[bth.chunk].sum \in Seq(Entries)
    BY <1>0, <2>1, ChunkParts
  <2>3. \/ bth' = [bth EXCEPT !.chunk = bth.chunk + 1] /\ pos' = pos
        \/ bth' = [bth EXCEPT !.pc = "slot", !.slot = 1, !.srd = 0] /\ pos' = 0
    BY <1>4 DEF SumRead
  <2>c. bth.chunk \in Nat /\ bth.chunk + 1 \in Nat /\ "slot" \in BthPcs /\ 0 \in Nat /\ 1 \in Nat
    BY <1>a DEF Bths, BthPcs
  <2>a. bth' \in Bths
    <3>1. [bth EXCEPT !.chunk = bth.chunk + 1] \in Bths
      BY <1>a, <2>c, BthUpdates
    <3>2. [bth EXCEPT !.pc = "slot", !.slot = 1, !.srd = 0] \in Bths
      BY <1>a, <2>c, BthUpdates
    <3> QED
      BY <2>3, <3>1, <3>2
  <2>4. BthTypeOK
    BY <1>a, <2>1, <2>2, <2>3, <2>a
  <2>d. \/ bth'.pc = bth.pc /\ bth'.chunk = bth.chunk + 1 /\ bth'.slot = bth.slot
        \/ bth'.pc = "slot" /\ bth'.chunk = bth.chunk /\ bth'.slot = 1
    BY <1>a, <2>3 DEF Bths
  <2>b. /\ bth'.pc \in {"chunk", "slot"} /\ bth'.chunk >= 1 /\ bth'.slot >= 1
    BY <1>b, <2>1, <2>c, <2>d
  <2>5. BthControl
    BY <1>a, <1>b, <2>1, <2>b
  <2>6. RequestStable'
    BY <1>1, <1>a, <1>b, <2>1, <2>d DEF RequestStable, slotVars
  <2> QED
    BY <2>4, <2>5, <2>6
<1>5. ASSUME SlotStatus PROVE BthTypeOK /\ BthControl /\ RequestStable'
  <2> DEFINE p == bulk[bth.chunk].sum[bth.slot].param
  <2>1. /\ bth.pc = "slot" /\ bth.slot \in 1..Len(sent) /\ UNCHANGED <<mutex, sent, pos>>
        /\ bth' = [bth EXCEPT !.pc = "apply", !.size = plcSize[p]]
    <3>1. /\ bth.pc = "slot" /\ bth.slot <= Len(bulk[bth.chunk].sum) /\ UNCHANGED <<mutex, sent, pos>>
          /\ bth' = [bth EXCEPT !.pc = "apply", !.size = plcSize[p]]
      BY <1>5 DEF SlotStatus
    <3>2. bth.slot <= Len(sent)
      BY <1>c, <3>1
    <3>3. Len(sent) \in Nat
      BY <1>a
    <3>4. bth.slot \in 1..Len(sent)
      BY <1>b, <1>d, <3>2, <3>3
    <3> QED
      BY <3>1, <3>4
  <2>2. p \in Params
    <3>a. sent \in Seq(Entries) /\ bth.slot \in 1..Len(sent)
      BY <1>a, <2>1
    <3>b. sent[bth.slot] \in Entries
      BY <3>a
    <3>c. sent = bulk[bth.chunk].sum
      BY <1>c, <2>1
    <3>1. sent[bth.slot] \in Entries /\ bulk[bth.chunk].sum[bth.slot] = sent[bth.slot]
      BY <3>b, <3>c
    <3> QED
      BY <3>1 DEF Entries
  <2>3. refreshNeeded' \in [Params -> BOOLEAN]
    BY <1>5, <1>a, <2>2 DEF SlotStatus
  <2>a. plcSize[p] \in Nat /\ "apply" \in BthPcs
    BY <1>a, <2>2 DEF BthPcs
  <2>b. bth' \in Bths
    BY <1>a, <2>1, <2>a, BthUpdates
  <2>4. BthTypeOK
    BY <1>a, <2>1, <2>3, <2>b
  <2>c. bth'.pc = "apply" /\ bth'.chunk = bth.chunk /\ bth'.slot = bth.slot
    BY <1>a, <2>1 DEF Bths
  <2>5. BthControl
    BY <1>a, <1>b, <2>1, <2>c
  <2>6. RequestStable'
    BY <1>1, <1>c, <2>1, <2>c DEF RequestStable, slotVars
  <2> QED
    BY <2>4, <2>5, <2>6
<1>6. ASSUME SlotApply PROVE BthTypeOK /\ BthControl /\ RequestStable'
  <2>1. /\ bth.pc = "apply" /\ UNCHANGED <<mutex, sent, refreshNeeded>>
        /\ bth' = [bth EXCEPT !.pc = "slot", !.slot = bth.slot + 1, !.srd = bth.srd + bth.size]
        /\ pos' = pos + sent[bth.slot].iSize
    BY <1>6 DEF SlotApply, infoVars
  <2>2. sent[bth.slot].iSize \in Nat
    <3>1. bth.slot \in 1..Len(sent)
      BY <1>a, <1>b, <1>d, <2>1
    <3>2. sent[bth.slot] \in Entries
      BY <1>a, <3>1
    <3> QED
      BY <3>2 DEF Entries
  <2>b. bth.slot + 1 \in Nat /\ bth.srd + bth.size \in Nat /\ "slot" \in BthPcs
        /\ pos + sent[bth.slot].iSize \in Nat
    <3>1. bth.srd \in Nat /\ bth.size \in Nat
      BY <1>a DEF Bths
    <3>2. pos + sent[bth.slot].iSize \in Nat
      BY <1>a, <2>2
    <3>3. bth.slot + 1 \in Nat /\ bth.srd + bth.size \in Nat
      BY <1>d, <3>1
    <3>4. "slot" \in BthPcs
      BY DEF BthPcs
    <3> QED
      BY <3>2, <3>3, <3>4
  <2>a. bth' \in Bths
    BY <1>a, <2>1, <2>b, BthUpdates
  <2>3. BthTypeOK
    BY <1>a, <2>1, <2>a, <2>b
  <2>c. bth'.pc = "slot" /\ bth'.chunk = bth.chunk /\ bth'.slot = bth.slot + 1
    BY <1>a, <2>1 DEF Bths
  <2>4. BthControl
    <3>1. bth'.slot >= 1
      BY <1>b, <1>d, <2>c
    <3>2. bth'.chunk >= 1
      BY <1>b, <2>c
    <3> QED
      BY <1>a, <1>b, <2>1, <2>c, <3>1, <3>2
  <2>5. RequestStable'
    BY <1>1, <1>c, <2>1, <2>c DEF RequestStable, slotVars
  <2> QED
    BY <2>3, <2>4, <2>5
<1>7. ASSUME ChunkDone PROVE BthTypeOK /\ BthControl /\ RequestStable'
  <2>1. /\ bth.pc = "slot" /\ UNCHANGED <<mutex, sent, pos, refreshNeeded>>
        /\ bth' = [bth EXCEPT !.pc = "chunk", !.chunk = bth.chunk + 1]
    BY <1>7 DEF ChunkDone, infoVars
  <2>b. bth.chunk + 1 \in Nat /\ "chunk" \in BthPcs
    BY <1>a DEF Bths, BthPcs
  <2>a. bth' \in Bths
    BY <1>a, <2>1, <2>b, BthUpdates
  <2>2. BthTypeOK
    BY <1>a, <2>1, <2>a
  <2>c. bth'.pc = "chunk" /\ bth'.chunk = bth.chunk + 1 /\ bth'.slot = bth.slot
    BY <1>a, <2>1 DEF Bths
  <2>3. BthControl
    BY <1>a, <1>b, <2>1, <2>c DEF Bths
  <2>4. RequestStable'
    BY <2>c DEF RequestStable
  <2> QED
    BY <2>2, <2>3, <2>4
<1>8. BthTypeOK /\ BthControl /\ RequestStable'
  BY <1>3, <1>3a, <1>4, <1>5, <1>6, <1>7 DEF bulkReadThread
<1>9. TypeOK'
  BY <1>0, <1>1, <1>2, <1>8 DEF TypeOK, StateTypeOK
<1>10. Control'
  BY <1>0, <1>1, <1>8 DEF Control
<1> QED
  BY <1>2, <1>8, <1>9, <1>10 DEF IInv

(* Every step keeps the invariant. *)
LEMMA NextIInv == IInv /\ [Next]_vars => IInv'
<1> SUFFICES ASSUME IInv, [Next]_vars PROVE IInv'
  OBVIOUS
<1>1. CASE \E a \in Ports : invalidateParams(a)
  <2>1. Ports \subseteq Nat
    BY BulkAssumption DEF BulkAssumption, Ports
  <2> QED
    BY <1>1, <2>1, InvalidateKeeps
<1>2. CASE updater /\ ~\E a \in Ports : invalidateParams(a)
  BY <1>2, UpdaterKeeps, AddKeeps DEF updater
<1>3. CASE bulkReadThread
  BY <1>3, BulkKeeps
<1>4. CASE SizeChange \/ DropConnectedAds
  BY <1>4, EnvKeeps
<1>5. CASE UNCHANGED vars
  <2>1. UNCHANGED <<symbolSize, changes, rounds, infoVars, slotVars, bulkOK, connectedAds, lock,
                    mutex, upd, bthVars>>
    BY <1>5 DEF vars
  <2>2. /\ SlotOwned' /\ PackedChunks' /\ bulk' \in Seq(Chunks) /\ Len(bulk') <= MAXBULK
        /\ bulkIndex' \in [Params -> Nat] /\ bulkOffset' \in [Params -> Nat]
    BY <2>1, TableFrame
  <2>3. StateTypeOK'
    BY <2>1, <2>2 DEF IInv, TypeOK, StateTypeOK, infoVars, bthVars
  <2>4. Control' /\ RequestStable'
    BY <2>1 DEF IInv, Control, RequestStable, bthVars, slotVars
  <2> QED
    BY <2>2, <2>3, <2>4 DEF IInv, TypeOK
<1> QED
  BY <1>1, <1>2, <1>3, <1>4, <1>5 DEF Next

(* The inductive invariant holds in every reachable state. *)
THEOREM BulkInvariant == Spec => []IInv
  BY InitIInv, NextIInv, PTL DEF Spec

(* Type correctness; the chunk table never grows beyond MAXBULK.           *)
THEOREM BulkTypeOK == Spec => []TypeOK
<1>1. IInv => TypeOK
  BY DEF IInv
<1> QED
  BY <1>1, BulkInvariant, PTL

(* Slots and parameters are in one-to-one correspondence, and a parameter  *)
(* is read from its own AMS port, whatever is invalidated and refreshed.   *)
THEOREM SlotsAreOwned == Spec => []SlotOwned
<1>1. IInv => SlotOwned
  BY DEF IInv
<1> QED
  BY <1>1, BulkInvariant, PTL

(* A chunk holds at most BULKSIZ entries and only the last chunk of an AMS *)
(* port has room.                                                          *)
THEOREM ChunksArePacked == Spec => []PackedChunks
<1>1. IInv => PackedChunks
  BY DEF IInv
<1> QED
  BY <1>1, BulkInvariant, PTL

(* The table does not change between a sum read and the last slot of its   *)
(* reply.                                                                  *)
THEOREM RequestIsStable == Spec => []RequestStable
<1>1. IInv => RequestStable
  BY DEF IInv
<1> QED
  BY <1>1, BulkInvariant, PTL

-----------------------------------------------------------------------------
(* While the PLC's variables keep their sizes: an entry of the table has   *)
(* the size its parameter has, and bulkReadThread's two positions in the   *)
(* reply, by the parameters' sizes and by the request's, agree.            *)
EntryKnown(e) == e.iSize = symbolSize[e.param] /\ plcSize[e.param] = symbolSize[e.param]

SizesKnown ==
    /\ \A p \in Fixed : plcSize[p] = symbolSize[p]
    /\ upd.pc \in {"handle", "add"} => plcSize[upd.next] = symbolSize[upd.next]
    /\ \A i \in 1..Len(bulk) : \A j \in 1..Len(bulk[i].sum) : EntryKnown(bulk[i].sum[j])
    /\ bth.pc = "apply" => bth.size = sent[bth.slot].iSize
    /\ bth.pc \in {"slot", "apply"} => bth.srd = pos

Aligned == changes = 0 => SizesKnown

(* What adsAddToBulkRead does to the entries: they stay, or are those of p *)
(* with the size of p.                                                     *)
LEMMA AddedEntries ==
  ASSUME IInv, NEW p \in Params, Allocate(p) \/ Reuse(p) \/ NoRoom(p),
         NEW i \in 1..Len(bulk'), NEW j \in 1..Len(bulk'[i].sum)
  PROVE  \/ bulk'[i].sum[j].param = p /\ bulk'[i].sum[j].iSize = plcSize[p]
         \/ i \in 1..Len(bulk) /\ j \in 1..Len(bulk[i].sum) /\ bulk'[i].sum[j] = bulk[i].sum[j]
<1>1. CASE NoRoom(p)
  BY <1>1 DEF NoRoom, slotVars
<1>2. CASE Reuse(p)
  <2>1. /\ Len(bulk') = Len(bulk)
        /\ \A k \in 1..Len(bulk) : Len(bulk'[k].sum) = Len(bulk[k].sum)
        /\ \A k \in 1..Len(bulk) : \A l \in 1..Len(bulk[k].sum) :
              \/ bulk'[k].sum[l] = bulk[k].sum[l]
              \/ bulk'[k].sum[l].param = p /\ bulk'[k].sum[l].iSize = plcSize[p]
    BY <1>2, ReusedTable
  <2> QED
    BY <2>1
<1>3. CASE Allocate(p)
  <2>1. PICK b \in Nat : Gains(b, p)
    BY <1>3, AllocatedTable
  <2>2. CASE i # b
    BY <2>1, <2>2 DEF Gains
  <2>3. CASE i = b /\ j = Len(bulk'[b].sum)
    BY <2>1, <2>3 DEF Gains
  <2>4. CASE i = b /\ j # Len(bulk'[b].sum)
    <3>1. CASE b \in 1..Len(bulk)
      <4>1. Len(bulk[b].sum) \in Nat
        BY <3>1, ChunkParts DEF IInv, TypeOK
      <4>2. /\ Len(bulk'[b].sum) = Len(bulk[b].sum) + 1
            /\ \A k \in 1..Len(bulk[b].sum) : bulk'[b].sum[k] = bulk[b].sum[k]
        BY <2>1, <3>1 DEF Gains
      <4>3. j \in 1..Len(bulk[b].sum)
        BY <2>4, <4>1, <4>2
      <4> QED
        BY <2>4, <3>1, <4>2, <4>3
    <3>2. CASE b \notin 1..Len(bulk)
      <4>1. Len(bulk'[b].sum) = 1
        BY <2>1, <3>2 DEF Gains
      <4> QED
        BY <2>4, <4>1
    <3> QED
      BY <3>1, <3>2
  <2> QED
    BY <2>2, <2>3, <2>4
<1> QED
  BY <1>1, <1>2, <1>3

(* The parameter of an entry is a parameter. *)
LEMMA EntryParams ==
  ASSUME IInv, NEW i \in 1..Len(bulk), NEW j \in 1..Len(bulk[i].sum)
  PROVE  bulk[i].sum[j].param \in Params /\ bulk[i].sum[j].iSize \in Nat
<1>1. bulk[i].sum[j] \in Entries
  BY ChunkParts DEF IInv, TypeOK
<1> QED
  BY <1>1 DEF Entries

LEMMA AddAligned ==
  ASSUME IInv, SizesKnown, adsAddToBulkRead PROVE SizesKnown'
<1> DEFINE p == upd.next
<1>1. /\ upd.pc = "add" /\ mutex = None /\ p \in Params /\ (Allocate(p) \/ Reuse(p) \/ NoRoom(p))
      /\ upd'.pc = "loop" /\ UNCHANGED <<symbolSize, plcSize, bthVars>>
  BY DEF adsAddToBulkRead, IInv, Control, NextParam
<1>2. bth.pc \notin {"slot", "apply"}
  BY <1>1 DEF IInv, Control, None
<1>3. plcSize[p] = symbolSize[p]
  BY <1>1 DEF SizesKnown
<1>4. ASSUME NEW i \in 1..Len(bulk'), NEW j \in 1..Len(bulk'[i].sum) PROVE EntryKnown(bulk'[i].sum[j])
  <2>1. CASE bulk'[i].sum[j].param = p /\ bulk'[i].sum[j].iSize = plcSize[p]
    BY <1>3, <2>1 DEF EntryKnown
  <2>2. CASE i \in 1..Len(bulk) /\ j \in 1..Len(bulk[i].sum) /\ bulk'[i].sum[j] = bulk[i].sum[j]
    BY <2>2 DEF SizesKnown
  <2> QED
    BY <1>1, <2>1, <2>2, AddedEntries
<1>5. \A i \in 1..Len(bulk') : \A j \in 1..Len(bulk'[i].sum) : EntryKnown(bulk[i].sum[j])'
  BY <1>1, <1>4 DEF EntryKnown
<1> QED
  BY <1>1, <1>2, <1>5 DEF SizesKnown, bthVars

(* A look-up that finds the size of a parameter finds the one its entry    *)
(* has.                                                                    *)
LEMMA InfoAligned ==
  ASSUME IInv, SizesKnown, adsGetSymInfoByName PROVE SizesKnown'
<1> DEFINE p == upd.next
<1>0. /\ upd \in [pc : UpdPcs, port : Nat, next : 1..(NParams + 1)]
      /\ plcSize \in [Params -> Nat]
  BY DEF IInv, TypeOK, StateTypeOK
<1>1. upd.pc = "loop" /\ p \in Params /\ UNCHANGED <<symbolSize, slotVars, bthVars>>
  BY <1>0, BulkAssumption DEF adsGetSymInfoByName, Params, BulkAssumption
<1>2. \/ p \in Fixed /\ upd' = [upd EXCEPT !.pc = "add"] /\ plcSize' = plcSize
      \/ upd' = [upd EXCEPT !.pc = "handle"] /\ plcSize' = [plcSize EXCEPT ![p] = symbolSize[p]]
      \/ upd' = NextParam /\ plcSize' = plcSize
  BY DEF adsGetSymInfoByName
<1>3. \A q \in Params : plcSize[q] = symbolSize[q] => plcSize'[q] = symbolSize[q]
  BY <1>0, <1>1, <1>2
<1>4. upd'.pc \in {"handle", "add"} => upd'.next = p /\ plcSize'[p] = symbolSize[p]
  <2>1. CASE p \in Fixed /\ upd' = [upd EXCEPT !.pc = "add"] /\ plcSize' = plcSize
    BY <1>0, <2>1 DEF SizesKnown
  <2>2. CASE upd' = [upd EXCEPT !.pc = "handle"] /\ plcSize' = [plcSize EXCEPT ![p] = symbolSize[p]]
    BY <1>0, <1>1, <2>2
  <2>3. CASE upd' = NextParam
    BY <2>3 DEF NextParam
  <2> QED
    BY <1>2, <2>1, <2>2, <2>3
<1>5. \A i \in 1..Len(bulk) : \A j \in 1..Len(bulk[i].sum) : EntryKnown(bulk[i].sum[j])'
  BY <1>1, <1>3, EntryParams DEF SizesKnown, EntryKnown, slotVars
<1>6. \A q \in Fixed : plcSize'[q] = symbolSize[q]
  BY <1>3, BulkAssumption DEF SizesKnown, BulkAssumption
<1> QED
  BY <1>1, <1>4, <1>5, <1>6 DEF SizesKnown, slotVars, bthVars

(* invalidateParams changes no entry. *)
LEMMA InvalidateAligned ==
  ASSUME IInv, SizesKnown, NEW a \in Nat, invalidateParams(a) PROVE SizesKnown'
<1>1. UNCHANGED <<symbolSize, plcSize, bulkIndex, bulkOffset, upd, bthVars>>
  BY DEF invalidateParams
<1>2. Len(bulk') = Len(bulk) /\ \A i \in 1..Len(bulk) : bulk'[i].sum = bulk[i].sum
  BY <1>1, InvalidatedTable DEF invalidateParams
<1>3. \A i \in 1..Len(bulk') : \A j \in 1..Len(bulk'[i].sum) : EntryKnown(bulk[i].sum[j])'
  BY <1>1, <1>2 DEF SizesKnown, EntryKnown
<1> QED
  BY <1>1, <1>3 DEF SizesKnown, bthVars

(* bulkReadThread goes on by the size of the parameter, which is the size  *)
(* of the entry it sent.                                                   *)
LEMMA BulkAligned ==
  ASSUME IInv, SizesKnown, bulkReadThread PROVE SizesKnown'
<1>0. /\ bth \in Bths /\ sent \in Seq(Entries) /\ pos \in Nat /\ Control /\ RequestStable
      /\ bth.slot \in Nat /\ bth.srd \in Nat
  BY DEF IInv, TypeOK, StateTypeOK, Bths
<1>1. UNCHANGED <<symbolSize, plcSize, slotVars, upd>>
  BY DEF bulkReadThread, BulkStart, BulkPass, BulkPassDone, BulkBeyond, SumRead, SlotStatus, SlotApply,
         ChunkDone, infoVars
<1>2. /\ \A p \in Fixed : plcSize'[p] = symbolSize'[p]
      /\ upd'.pc \in {"handle", "add"} => plcSize'[upd'.next] = symbolSize'[upd'.next]
      /\ \A i \in 1..Len(bulk') : \A j \in 1..Len(bulk'[i].sum) : EntryKnown(bulk[i].sum[j])'
  BY <1>1 DEF SizesKnown, EntryKnown, slotVars
<1>3. CASE BulkStart \/ BulkPass \/ BulkPassDone \/ BulkBeyond \/ ChunkDone
  <2>1. bth'.pc \in {"idle", "chunk", "beyond"}
    BY <1>0, <1>3 DEF BulkStart, BulkPass, BulkPassDone, BulkBeyond, ChunkDone, Bths
  <2> QED
    BY <1>2, <2>1 DEF SizesKnown
<1>4. CASE SumRead
  <2>1. \/ bth'.pc = "chunk"
        \/ bth'.pc = "slot" /\ bth'.srd = 0 /\ pos' = 0
    BY <1>0, <1>4 DEF SumRead, Bths
  <2> QED
    BY <1>2, <2>1 DEF SizesKnown
<1>5. CASE SlotStatus
  <2> DEFINE e == bulk[bth.chunk].sum[bth.slot]
  <2>1. /\ bth.pc = "slot" /\ bth.slot <= Len(bulk[bth.chunk].sum) /\ UNCHANGED <<sent, pos>>
        /\ bth' = [bth EXCEPT !.pc = "apply", !.size = plcSize[e.param]]
    BY <1>5 DEF SlotStatus
  <2>2. bth.chunk \in 1..Len(bulk) /\ sent = bulk[bth.chunk].sum /\ bth.srd = pos
    BY <1>0, <2>1 DEF RequestStable, SizesKnown
  <2>3. bth.slot \in 1..Len(bulk[bth.chunk].sum)
    <3>1. bth.slot \in Nat /\ bth.slot >= 1 /\ Len(sent) \in Nat
      BY <1>0 DEF Control
    <3> QED
      BY <2>1, <2>2, <3>1
  <2>4. EntryKnown(e)
    BY <2>2, <2>3 DEF SizesKnown
  <2>5. /\ bth'.pc = "apply" /\ bth'.slot = bth.slot /\ bth'.srd = bth.srd
        /\ bth'.size = plcSize[e.param]
    BY <1>0, <2>1 DEF Bths
  <2>6. bth'.size = sent'[bth'.slot].iSize
    BY <2>1, <2>2, <2>4, <2>5 DEF EntryKnown
  <2> QED
    BY <1>2, <2>1, <2>2, <2>5, <2>6 DEF SizesKnown
<1>6. CASE SlotApply
  <2>1. /\ bth.pc = "apply" /\ pos' = pos + sent[bth.slot].iSize
        /\ bth' = [bth EXCEPT !.pc = "slot", !.slot = bth.slot + 1, !.srd = bth.srd + bth.size]
    BY <1>6 DEF SlotApply
  <2>2. bth'.pc = "slot" /\ bth'.srd = bth.srd + bth.size
    BY <1>0, <2>1 DEF Bths
  <2>3. bth.size = sent[bth.slot].iSize /\ bth.srd = pos
    BY <2>1 DEF SizesKnown
  <2>4. bth'.srd = pos'
    BY <2>1, <2>2, <2>3
  <2> QED
    BY <1>2, <2>2, <2>4 DEF SizesKnown
<1> QED
  BY <1>3, <1>4, <1>5, <1>6 DEF bulkReadThread

LEMMA NextAligned == IInv /\ Aligned /\ [Next]_vars => Aligned'
<1> SUFFICES ASSUME IInv, Aligned, [Next]_vars, changes' = 0 PROVE SizesKnown'
  BY DEF Aligned
<1>0. changes \in Nat /\ upd \in [pc : UpdPcs, port : Nat, next : 1..(NParams + 1)] /\ Control
  BY BulkAssumption DEF IInv, TypeOK, StateTypeOK, BulkAssumption
<1>1. ~SizeChange
  BY <1>0 DEF SizeChange
<1>2. changes = 0 /\ UNCHANGED symbolSize
  BY <1>1 DEF Next, updater, bulkReadThread, DropConnectedAds, vars, invalidateParams,
     refreshParamsLock, RefreshDone, RefreshSkip, adsGetSymInfoByName, adsGetSymHandleByName,
     Subscribe, adsAddToBulkRead, BulkStart, BulkPass, BulkPassDone, BulkBeyond, SumRead, SlotStatus,
     SlotApply, ChunkDone
<1>3. SizesKnown
  BY <1>2 DEF Aligned
<1>4. ASSUME UNCHANGED <<plcSize, slotVars, bthVars>>,
             upd'.pc \in {"handle", "add"} => upd.pc \in {"handle", "add"} /\ upd'.next = upd.next
      PROVE  SizesKnown'
  BY <1>2, <1>3, <1>4 DEF SizesKnown, EntryKnown, slotVars, bthVars
<1>5. ASSUME NEW a \in Ports, invalidateParams(a) PROVE SizesKnown'
  <2>1. a \in Nat
    BY BulkAssumption DEF BulkAssumption, Ports
  <2> QED
    BY <1>3, <1>5, <2>1, InvalidateAligned
<1>6. ASSUME NEW a \in Ports, refreshParamsLock(a) PROVE SizesKnown'
  <2>1. upd'.pc = "loop" /\ UNCHANGED <<plcSize, slotVars, bthVars>>
    BY <1>6 DEF refreshParamsLock, infoVars
  <2> QED
    BY <1>4, <2>1
<1>7. CASE RefreshDone \/ RefreshSkip \/ Subscribe
  <2>1. upd'.pc \in {"idle", "loop"} /\ UNCHANGED <<plcSize, slotVars, bthVars>>
    BY <1>0, <1>7 DEF RefreshDone, RefreshSkip, Subscribe, NextParam, infoVars
  <2> QED
    BY <1>4, <2>1
<1>8. CASE adsGetSymHandleByName
  <2>1. /\ upd.pc = "handle" /\ UNCHANGED <<plcSize, slotVars, bthVars>>
        /\ upd'.pc = "loop" \/ upd'.next = upd.next
    BY <1>0, <1>8 DEF adsGetSymHandleByName, NextParam, infoVars
  <2> QED
    BY <1>4, <2>1
<1>9. CASE adsGetSymInfoByName
  BY <1>3, <1>9, InfoAligned
<1>10. CASE adsAddToBulkRead
  BY <1>3, <1>10, AddAligned
<1>11. CASE bulkReadThread
  BY <1>3, <1>11, BulkAligned
<1>12. CASE DropConnectedAds \/ UNCHANGED vars
  BY <1>4, <1>12 DEF DropConnectedAds, vars, infoVars
<1> QED
  BY <1>1, <1>5, <1>6, <1>7, <1>8, <1>9, <1>10, <1>11, <1>12 DEF Next, updater

(* srd stays aligned: as long as no variable of the PLC has changed its    *)
(* size, bulkReadThread updates each parameter from the bytes that were    *)
(* read for it, for any chunks and through any refreshes.                  *)
THEOREM RepliesAreAligned == Spec => []SrdAligned
<1>1. Init => Aligned
  <2> SUFFICES ASSUME Init PROVE SizesKnown
    BY DEF Aligned
  <2>1. Len(bulk) = 0 /\ upd.pc = "loop" /\ bth.pc = "wait"
    BY DEF Init
  <2>2. \A p \in Fixed : plcSize[p] = symbolSize[p]
    BY BulkAssumption DEF Init, BulkAssumption
  <2> QED
    BY <2>1, <2>2 DEF SizesKnown
<1>2. IInv /\ Aligned /\ [Next]_vars => Aligned'
  BY NextAligned
<1>3. Aligned => SrdAligned
  BY DEF Aligned, SizesKnown, SrdAligned
<1> QED
  BY <1>1, <1>2, <1>3, BulkInvariant, PTL DEF Spec
=============================================================================
