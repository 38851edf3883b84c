------------------------- MODULE SyncedMemoryProofs -------------------------
(***************************************************************************)
(* SyncedMemory implements Register, leaks nothing and gives every block   *)
(* back where it came from.  The argument is the inductive invariant SyncedInv: *)
(* head_ names copies that exist and agree, and each side's pointer is     *)
(* either a block of the heap it owns or a buffer of a user.               *)
(***************************************************************************)
EXTENDS SyncedMemory, TLAPS

USE DEF Side, OtherSide, Heap, Buffer, AnyOrigin

LEMMA CurrentIsValue == ASSUME SyncedInv PROVE Current \in Value
  BY SyncedMemoryAssumption DEF SyncedInv, SyncedTypeOK, HeadInv, Current

LEMMA InitInv == SyncedInit => SyncedInv
<1> SUFFICES ASSUME SyncedInit PROVE SyncedInv
  OBVIOUS
<1>1. SyncedTypeOK
  BY SyncedMemoryAssumption DEF SyncedInit, SyncedTypeOK, Access
<1>2. HeadInv /\ PtrInv
  BY DEF SyncedInit, HeadInv, PtrInv
<1>3. HeapIsOwned /\ FreedAsAllocated
  BY SyncedMemoryAssumption DEF SyncedInit, HeapIsOwned, FreedAsAllocated
<1>4. QED
  BY <1>1, <1>2, <1>3 DEF SyncedInv

-----------------------------------------------------------------------------
(* Allocating and freeing *)

\* What a buffer brought into place does to the parts of the invariant it
\* touches: it is there, it holds val, and the other side is as it was.
PlaceTypes ==
  /\ ptr' \in [Side -> Buffer \union {NoBlock}]
  /\ own' \in [Side -> BOOLEAN]
  /\ origin' \in [Side -> AnyOrigin \union {NoBlock}]
  /\ from' \in [Heap -> AnyOrigin \union {NoBlock}]
  /\ content' \in [Buffer -> Value \union {Garbage}]

LEMMA PlaceInv ==
  ASSUME SyncedInv, NEW s \in Side, NEW val \in Value \union {Garbage}, Place(s, val)
  PROVE  /\ PlaceTypes
         /\ PtrInv' /\ HeapIsOwned' /\ FreedAsAllocated'
         /\ ptr'[s] # NoBlock /\ content'[ptr'[s]] = val
         /\ ptr'[OtherSide(s)] = ptr[OtherSide(s)]
         /\ ptr[OtherSide(s)] # NoBlock => content'[ptr[OtherSide(s)]] = content[ptr[OtherSide(s)]]
<1> USE SyncedMemoryAssumption
<1>1. CASE ptr[s] = NoBlock
  <2>1. PICK b \in {c \in Block[s] : from[c] = NoBlock} :
          /\ ptr' = [ptr EXCEPT ![s] = b]
          /\ own' = [own EXCEPT ![s] = TRUE]
          /\ origin' = [origin EXCEPT ![s] = now[s]]
          /\ from' = [from EXCEPT ![b] = now[s]]
          /\ content' = [content EXCEPT ![b] = val]
    BY <1>1 DEF Place
  <2>2. b \in Block[s] /\ b \in Heap /\ b \in Buffer /\ from[b] = NoBlock /\ now[s] \in AnyOrigin
    BY <2>1 DEF SyncedInv, SyncedTypeOK
  <2>3. PlaceTypes
    BY <2>1, <2>2 DEF PlaceTypes, SyncedInv, SyncedTypeOK
  <2>4. PtrInv'
    BY <2>1, <2>2 DEF PtrInv, SyncedInv, SyncedTypeOK
  <2>5. ptr[OtherSide(s)] # b
    BY <2>2 DEF SyncedInv, SyncedTypeOK, PtrInv
  <2>6. HeapIsOwned'
    <3> SUFFICES ASSUME NEW t \in Side, NEW c \in Block[t]
                 PROVE  from'[c] # NoBlock <=> own'[t] /\ ptr'[t] = c
      BY DEF HeapIsOwned
    <3>1. from[c] # NoBlock <=> own[t] /\ ptr[t] = c
      BY DEF SyncedInv, HeapIsOwned
    <3>2. CASE t = s
      BY <1>1, <2>1, <2>2, <3>1, <3>2 DEF SyncedInv, SyncedTypeOK
    <3>3. CASE t # s
      <4>1. c # b
        BY <2>2, <3>3
      <4>2. from'[c] = from[c] /\ own'[t] = own[t] /\ ptr'[t] = ptr[t]
        BY <2>1, <2>2, <3>3, <4>1 DEF SyncedInv, SyncedTypeOK
      <4>3. QED
        BY <3>1, <4>2
    <3>4. QED
      BY <3>2, <3>3
  <2>7. FreedAsAllocated'
    <3> SUFFICES ASSUME NEW t \in Side, own'[t] PROVE from'[ptr'[t]] = origin'[t]
      BY DEF FreedAsAllocated
    <3>1. CASE t = s
      BY <2>1, <2>2, <3>1 DEF SyncedInv, SyncedTypeOK
    <3>2. CASE t # s
      <4>1. own[t] /\ ptr'[t] = ptr[t] /\ origin'[t] = origin[t] /\ ptr[t] \in Block[t]
        BY <2>1, <3>2 DEF SyncedInv, SyncedTypeOK, PtrInv
      <4>2. ptr[t] # b /\ from'[ptr[t]] = from[ptr[t]]
        BY <2>1, <2>2, <3>2, <4>1 DEF SyncedInv, SyncedTypeOK
      <4>3. QED
        BY <4>1, <4>2 DEF SyncedInv, FreedAsAllocated
    <3>3. QED
      BY <3>1, <3>2
  <2>8. ptr'[s] # NoBlock /\ content'[ptr'[s]] = val /\ ptr'[OtherSide(s)] = ptr[OtherSide(s)]
    BY <2>1, <2>2 DEF SyncedInv, SyncedTypeOK
  <2>9. ptr[OtherSide(s)] # NoBlock => content'[ptr[OtherSide(s)]] = content[ptr[OtherSide(s)]]
    BY <2>1, <2>2, <2>5 DEF SyncedInv, SyncedTypeOK
  <2>10. QED
    BY <2>3, <2>4, <2>6, <2>7, <2>8, <2>9
<1>2. CASE ptr[s] # NoBlock
  <2>1. content' = [content EXCEPT ![ptr[s]] = val] /\ UNCHANGED << ptr, own, origin, from >>
    BY <1>2 DEF Place
  <2>2. PlaceTypes
    BY <2>1 DEF PlaceTypes, SyncedInv, SyncedTypeOK
  <2>3. PtrInv' /\ HeapIsOwned' /\ FreedAsAllocated'
    BY <2>1 DEF SyncedInv, PtrInv, HeapIsOwned, FreedAsAllocated
  <2>4. ptr[s] \in Buffer /\ ptr[s] # ptr[OtherSide(s)]
    BY <1>2 DEF SyncedInv, SyncedTypeOK, PtrInv
  <2>5. QED
    BY <1>2, <2>1, <2>2, <2>3, <2>4 DEF SyncedInv, SyncedTypeOK
<1>3. QED
  BY <1>1, <1>2

\* The same for an accessor, which leaves a side that is current alone
LEMMA BringInv ==
  ASSUME SyncedInv, NEW s \in Side, Bring(s)
  PROVE  /\ PlaceTypes
         /\ PtrInv' /\ HeapIsOwned' /\ FreedAsAllocated'
         /\ ptr'[s] # NoBlock
         /\ ~pushing \/ s = "cpu" => content'[ptr'[s]] = Current
         /\ head_ # "none" => ptr'[OtherSide(s)] = ptr[OtherSide(s)]
         /\ head_ = OtherSide(s) => content'[ptr[OtherSide(s)]] = content[ptr[OtherSide(s)]]
<1>1. CASE head_ \in {s, "synced"}
  <2>1. UNCHANGED << ptr, own, origin, content, from >>
    BY <1>1 DEF Bring
  <2>2. PlaceTypes
    BY <2>1 DEF PlaceTypes, SyncedInv, SyncedTypeOK
  <2>3. PtrInv' /\ HeapIsOwned' /\ FreedAsAllocated'
    BY <2>1 DEF SyncedInv, PtrInv, HeapIsOwned, FreedAsAllocated
  <2>4. ptr[s] # NoBlock
    BY <1>1 DEF SyncedInv, HeadInv
  <2>5. ~pushing \/ s = "cpu" => content[ptr[s]] = Current
    BY <1>1 DEF SyncedInv, HeadInv, Current
  <2>6. QED
    BY <1>1, <2>1, <2>2, <2>3, <2>4, <2>5
<1>2. CASE head_ \notin {s, "synced"}
  <2>1. Place(s, Current)
    BY <1>2 DEF Bring
  <2>2. Current \in Value
    BY CurrentIsValue
  <2>3. head_ = OtherSide(s) => ptr[OtherSide(s)] # NoBlock
    BY DEF SyncedInv, HeadInv
  <2>4. QED
    BY <2>1, <2>2, <2>3, PlaceInv
<1>3. QED
  BY <1>1, <1>2

\* Freeing sides whose pointer then changes to a user's buffer or to nothing
LEMMA WithoutInv ==
  ASSUME SyncedInv, NEW R \in SUBSET Side, from' = HeapWithout(R),
         ptr' \in [Side -> Buffer \union {NoBlock}], own' \in [Side -> BOOLEAN],
         \A s \in R : own'[s] = FALSE,
         \A s \in Side \ R : own'[s] = own[s] /\ ptr'[s] = ptr[s] /\ origin'[s] = origin[s]
  PROVE  /\ from' \in [Heap -> AnyOrigin \union {NoBlock}]
         /\ HeapIsOwned' /\ FreedAsAllocated'
<1> USE SyncedMemoryAssumption
<1>1. from' \in [Heap -> AnyOrigin \union {NoBlock}]
  BY DEF HeapWithout, SyncedInv, SyncedTypeOK
<1>2. ASSUME NEW t \in Side, NEW c \in Block[t]
      PROVE  from'[c] = IF t \in R /\ own[t] /\ ptr[t] = c THEN NoBlock ELSE from[c]
  <2>1. c \in Heap
    BY <1>2
  <2>2. \A s \in Side : own[s] /\ ptr[s] = c => s = t
    BY <1>2 DEF SyncedInv, PtrInv
  <2>3. own[t] /\ ptr[t] = c => from[c] = origin[t]
    BY DEF SyncedInv, FreedAsAllocated
  <2>4. QED
    BY <2>1, <2>2, <2>3 DEF HeapWithout
<1>3. HeapIsOwned'
  <2> SUFFICES ASSUME NEW t \in Side, NEW c \in Block[t]
               PROVE  from'[c] # NoBlock <=> own'[t] /\ ptr'[t] = c
    BY DEF HeapIsOwned
  <2>1. from[c] # NoBlock <=> own[t] /\ ptr[t] = c
    BY DEF SyncedInv, HeapIsOwned
  <2>2. QED
    BY <1>2, <2>1
<1>4. FreedAsAllocated'
  <2> SUFFICES ASSUME NEW t \in Side, own'[t] PROVE from'[ptr'[t]] = origin'[t]
    BY DEF FreedAsAllocated
  <2>1. t \notin R /\ own[t] /\ ptr'[t] = ptr[t] /\ origin'[t] = origin[t] /\ ptr[t] \in Block[t]
    BY DEF SyncedInv, PtrInv
  <2>2. from'[ptr[t]] = from[ptr[t]]
    BY <1>2, <2>1
  <2>3. QED
    BY <2>1, <2>2 DEF SyncedInv, FreedAsAllocated
<1>5. QED
  BY <1>1, <1>3, <1>4

-----------------------------------------------------------------------------
(* The actions *)

LEMMA DataInv == ASSUME SyncedInv, NEW s \in Side, Data(s) PROVE SyncedInv'
<1> USE SyncedMemoryAssumption
<1>1. Bring(s) /\ UNCHANGED << now, pushing >>
  BY DEF Data
<1>2. Current \in Value
  BY CurrentIsValue
<1>3. content'[ptr'[s]] = Current
  BY <1>1, BringInv DEF Data
<1>4. SyncedTypeOK'
  BY <1>1, <1>2, <1>3, BringInv DEF Data, PlaceTypes, SyncedInv, SyncedTypeOK, Access
<1>5. HeadInv'
  <2>1. CASE head_ \in {s, "synced"}
    BY <1>1, <2>1 DEF Data, Bring, SyncedInv, HeadInv
  <2>2. CASE head_ = "none"
    BY <1>1, <1>2, <1>3, <2>2, BringInv DEF Data, SyncedInv, HeadInv
  <2>3. CASE head_ = OtherSide(s)
    <3>1. /\ ptr'[s] # NoBlock /\ ptr'[OtherSide(s)] = ptr[OtherSide(s)] /\ ptr[OtherSide(s)] # NoBlock
          /\ content'[ptr'[OtherSide(s)]] = Current
      BY <1>1, <2>3, BringInv DEF SyncedInv, HeadInv, Current
    <3>2. head_' = "synced" /\ ~pushing /\ held' = "none"
      BY <2>3 DEF Data, SyncedInv, HeadInv
    <3>3. QED
      BY <1>1, <1>2, <1>3, <3>1, <3>2 DEF HeadInv
  <2>4. QED
    BY <2>1, <2>2, <2>3 DEF SyncedInv, SyncedTypeOK
<1>6. QED
  BY <1>1, <1>4, <1>5, BringInv DEF SyncedInv

LEMMA MutableDataInv == ASSUME SyncedInv, NEW s \in Side, MutableData(s) PROVE SyncedInv'
<1> USE SyncedMemoryAssumption
<1>1. Bring(s) /\ ~pushing /\ head_' = s /\ held' = s /\ UNCHANGED << now, pushing, access >>
  BY DEF MutableData
<1>2. Current \in Value
  BY CurrentIsValue
<1>3. SyncedTypeOK'
  BY <1>1, BringInv DEF PlaceTypes, SyncedInv, SyncedTypeOK
<1>4. HeadInv'
  BY <1>1, <1>2, BringInv DEF HeadInv
<1>5. QED
  BY <1>1, <1>3, <1>4, BringInv DEF SyncedInv

LEMMA WriteInv == ASSUME SyncedInv, NEW v \in Value, Write(v) PROVE SyncedInv'
<1> USE SyncedMemoryAssumption
<1>1. /\ held \in Side /\ head_ = held /\ ~pushing
      /\ ptr[held] \in Buffer /\ content' = [content EXCEPT ![ptr[held]] = v]
      /\ access' = Access("write", v)
      /\ UNCHANGED << head_, ptr, own, origin, from, now, held, pushing >>
  BY DEF Write, SyncedInv, SyncedTypeOK, HeadInv
<1>2. SyncedTypeOK'
  BY <1>1 DEF SyncedInv, SyncedTypeOK, Access
<1>3. HeadInv'
  BY <1>1 DEF SyncedInv, SyncedTypeOK, HeadInv
<1>4. PtrInv' /\ HeapIsOwned' /\ FreedAsAllocated'
  BY <1>1 DEF SyncedInv, PtrInv, HeapIsOwned, FreedAsAllocated
<1>5. QED
  BY <1>2, <1>3, <1>4 DEF SyncedInv

LEMMA SetDataInv == ASSUME SyncedInv, NEW s \in Side, NEW d \in Foreign[s], SetData(s, d) PROVE SyncedInv'
<1> USE SyncedMemoryAssumption
<1>1. /\ ~pushing /\ content[d] # Garbage /\ d \in Buffer
      /\ from' = HeapWithout({s})
      /\ ptr' = [ptr EXCEPT ![s] = d] /\ own' = [own EXCEPT ![s] = FALSE]
      /\ head_' = s /\ held' = "none" /\ access' = Access("write", content[d])
      /\ UNCHANGED << origin, content, now, pushing >>
  BY DEF SetData
<1>2. /\ ptr' \in [Side -> Buffer \union {NoBlock}] /\ own' \in [Side -> BOOLEAN]
      /\ ptr'[s] = d /\ own'[s] = FALSE
      /\ \A t \in Side \ {s} : own'[t] = own[t] /\ ptr'[t] = ptr[t] /\ origin'[t] = origin[t]
  BY <1>1 DEF SyncedInv, SyncedTypeOK
<1>3. from' \in [Heap -> AnyOrigin \union {NoBlock}] /\ HeapIsOwned' /\ FreedAsAllocated'
  <2>1. {s} \in SUBSET Side /\ (\A t \in {s} : own'[t] = FALSE)
    BY <1>2
  <2>2. ptr' \in [Side -> Buffer \union {NoBlock}] /\ own' \in [Side -> BOOLEAN] /\ from' = HeapWithout({s})
    BY <1>1, <1>2
  <2>3. QED
    BY <1>2, <2>1, <2>2, WithoutInv, Zenon
<1>4. content[d] \in Value
  BY <1>1 DEF SyncedInv, SyncedTypeOK
<1>5. SyncedTypeOK'
  BY <1>1, <1>2, <1>3, <1>4 DEF SyncedInv, SyncedTypeOK, Access
<1>6. HeadInv'
  BY <1>1, <1>2, <1>4 DEF HeadInv
<1>7. PtrInv'
  BY <1>1, <1>2 DEF SyncedInv, PtrInv
<1>8. QED
  BY <1>3, <1>5, <1>6, <1>7 DEF SyncedInv

LEMMA AsyncGpuPushInv == ASSUME SyncedInv, AsyncGpuPush PROVE SyncedInv'
<1> USE SyncedMemoryAssumption
<1>1. /\ head_ = "cpu" /\ ~pushing /\ Place("gpu", Garbage)
      /\ head_' = "synced" /\ held' = "none" /\ pushing' = TRUE
      /\ UNCHANGED << now, access >>
  BY DEF AsyncGpuPush
<1>2. ptr["cpu"] # NoBlock /\ content[ptr["cpu"]] \in Value
  BY <1>1 DEF SyncedInv, HeadInv
<1>3. SyncedTypeOK'
  BY <1>1, PlaceInv DEF PlaceTypes, SyncedInv, SyncedTypeOK
<1>4. HeadInv'
  BY <1>1, <1>2, PlaceInv DEF HeadInv
<1>5. QED
  BY <1>1, <1>3, <1>4, PlaceInv DEF SyncedInv

LEMMA StreamSynchronizeInv == ASSUME SyncedInv, StreamSynchronize PROVE SyncedInv'
<1> USE SyncedMemoryAssumption
<1>1. /\ pushing /\ head_ = "synced" /\ held = "none" /\ pushing' = FALSE
      /\ content' = [content EXCEPT ![ptr["gpu"]] = content[ptr["cpu"]]]
      /\ ptr["cpu"] \in Buffer /\ ptr["gpu"] \in Buffer /\ content[ptr["cpu"]] \in Value
      /\ UNCHANGED << head_, ptr, own, origin, from, now, held, access >>
  BY DEF StreamSynchronize, SyncedInv, SyncedTypeOK, HeadInv
<1>2. SyncedTypeOK' /\ HeadInv'
  BY <1>1 DEF SyncedInv, SyncedTypeOK, HeadInv
<1>3. PtrInv' /\ HeapIsOwned' /\ FreedAsAllocated'
  BY <1>1 DEF SyncedInv, PtrInv, HeapIsOwned, FreedAsAllocated
<1>4. QED
  BY <1>2, <1>3 DEF SyncedInv

LEMMA RenewInv == ASSUME SyncedInv, Renew PROVE SyncedInv'
<1> USE SyncedMemoryAssumption
<1>1. /\ ~pushing /\ from' = HeapWithout(Side) /\ head_' = "none" /\ held' = "none"
      /\ ptr' = [s \in Side |-> NoBlock] /\ own' = [s \in Side |-> FALSE]
      /\ origin' = [s \in Side |-> NoBlock]
      /\ access' = Access("write", Zero)
      /\ UNCHANGED << content, now, pushing >>
  BY DEF Renew
<1>2. from' \in [Heap -> AnyOrigin \union {NoBlock}] /\ HeapIsOwned' /\ FreedAsAllocated'
  BY <1>1, WithoutInv
<1>3. SyncedTypeOK'
  BY <1>1, <1>2 DEF SyncedInv, SyncedTypeOK, Access
<1>4. HeadInv' /\ PtrInv'
  BY <1>1 DEF HeadInv, PtrInv
<1>5. QED
  BY <1>2, <1>3, <1>4 DEF SyncedInv

LEMMA FillInv == ASSUME SyncedInv, NEW s \in Side, NEW d \in Foreign[s], NEW v \in Value, Fill(d, v) PROVE SyncedInv'
<1> USE SyncedMemoryAssumption
<1>1. /\ ptr["cpu"] # d /\ ptr["gpu"] # d /\ d \in Buffer
      /\ content' = [content EXCEPT ![d] = v]
      /\ UNCHANGED << head_, ptr, own, origin, from, now, held, pushing, access >>
  BY DEF Fill
<1>2. SyncedTypeOK' /\ HeadInv'
  BY <1>1 DEF SyncedInv, SyncedTypeOK, HeadInv
<1>3. PtrInv' /\ HeapIsOwned' /\ FreedAsAllocated'
  BY <1>1 DEF SyncedInv, PtrInv, HeapIsOwned, FreedAsAllocated
<1>4. QED
  BY <1>2, <1>3 DEF SyncedInv

LEMMA SwitchInv == ASSUME SyncedInv, NEW s \in Side, NEW o \in Origin[s], Switch(s, o) PROVE SyncedInv'
<1>1. SyncedTypeOK'
  BY DEF Switch, SyncedInv, SyncedTypeOK
<1>2. QED
  BY <1>1 DEF Switch, SyncedInv, HeadInv, PtrInv, HeapIsOwned, FreedAsAllocated

LEMMA NextInv == SyncedInv /\ [SyncedNext]_syncedVars => SyncedInv'
<1> SUFFICES ASSUME SyncedInv, [SyncedNext]_syncedVars PROVE SyncedInv'
  OBVIOUS
<1>1. ASSUME NEW s \in Side, Data(s) PROVE SyncedInv'
  BY <1>1, DataInv
<1>2. ASSUME NEW s \in Side, MutableData(s) PROVE SyncedInv'
  BY <1>2, MutableDataInv
<1>3. ASSUME NEW s \in Side, NEW d \in Foreign[s], SetData(s, d) PROVE SyncedInv'
  BY <1>3, SetDataInv
<1>4. ASSUME NEW s \in Side, NEW d \in Foreign[s], NEW v \in Value, Fill(d, v) PROVE SyncedInv'
  BY <1>4, FillInv
<1>5. ASSUME NEW s \in Side, NEW o \in Origin[s], Switch(s, o) PROVE SyncedInv'
  BY <1>5, SwitchInv
<1>6. ASSUME NEW v \in Value, Write(v) PROVE SyncedInv'
  BY <1>6, WriteInv
<1>7. CASE UNCHANGED syncedVars
  BY <1>7 DEF syncedVars, SyncedInv, SyncedTypeOK, HeadInv, PtrInv, HeapIsOwned, FreedAsAllocated
<1>8. QED
  BY <1>1, <1>2, <1>3, <1>4, <1>5, <1>6, <1>7,
     AsyncGpuPushInv, StreamSynchronizeInv, RenewInv DEF SyncedNext

-----------------------------------------------------------------------------
(* The theorems *)

LEMMA InvHolds == SyncedSpec => []SyncedInv
  BY InitInv, NextInv, PTL DEF SyncedSpec

\* Every reachable state is well typed, whatever the buffers and the values.
THEOREM SyncedTypeCorrect == SyncedSpec => []SyncedTypeOK
<1>1. SyncedInv => SyncedTypeOK
  BY DEF SyncedInv
<1>2. QED
  BY InvHolds, <1>1, PTL

\* The heap holds exactly the blocks the object owns: none leaks, and none is
\* freed that the object still points to (syncedmem.cpp:7-23, 84-122).
THEOREM NothingLeaks == SyncedSpec => []HeapIsOwned
<1>1. SyncedInv => HeapIsOwned
  BY DEF SyncedInv
<1>2. QED
  BY InvHolds, <1>1, PTL

\* The recorded origin of an owned block is the true one, however the mode
\* and the device change (syncedmem.hpp:15-36).
THEOREM OriginIsKept == SyncedSpec => []FreedAsAllocated
<1>1. SyncedInv => FreedAsAllocated
  BY DEF SyncedInv
<1>2. QED
  BY InvHolds, <1>1, PTL

-----------------------------------------------------------------------------
(* The refinement *)

LEMMA StepRefines == SyncedInv /\ SyncedInv' /\ [SyncedNext]_syncedVars => [Memory!Next]_(Memory!vars)
<1> SUFFICES ASSUME SyncedInv, SyncedInv', [SyncedNext]_syncedVars PROVE [Memory!Next]_(Memory!vars)
  OBVIOUS
<1> USE SyncedMemoryAssumption
<1>v. Current \in Value
  BY CurrentIsValue
<1>1. ASSUME NEW s \in Side, Data(s) PROVE [Memory!Next]_(Memory!vars)
  <2>1. Bring(s) /\ content'[ptr'[s]] = Current /\ access' = Access("read", Current)
    BY <1>1, BringInv DEF Data
  <2>2. Current' = Current
    <3>1. CASE head_ \in {s, "synced"}
      BY <1>1, <2>1, <3>1 DEF Data, Bring, Current
    <3>2. CASE head_ = "none"
      BY <1>1, <2>1, <3>2 DEF Data, Current
    <3>3. CASE head_ = OtherSide(s)
      <4>1. head_' = "synced" /\ ~pushing'
        BY <1>1, <3>3 DEF Data, SyncedInv, HeadInv
      <4>2. Current' = content'[ptr'["cpu"]] /\ content'[ptr'["cpu"]] = content'[ptr'["gpu"]]
        BY <4>1 DEF Current, SyncedInv, HeadInv
      <4>3. QED
        BY <2>1, <4>2
    <3>4. QED
      BY <3>1, <3>2, <3>3 DEF SyncedInv, SyncedTypeOK
  <2>3. QED
    BY <2>1, <2>2 DEF Memory!Next, Memory!Read, Memory!Access, Access
<1>2. ASSUME NEW s \in Side, MutableData(s) PROVE [Memory!Next]_(Memory!vars)
  <2>1. Bring(s) /\ content'[ptr'[s]] = Current /\ head_' = s /\ access' = access
    BY <1>2, BringInv DEF MutableData
  <2>2. Current' = Current
    BY <2>1 DEF Current
  <2>3. QED
    BY <2>1, <2>2 DEF Memory!vars
<1>3. ASSUME NEW s \in Side, NEW d \in Foreign[s], SetData(s, d) PROVE [Memory!Next]_(Memory!vars)
  <2>1. /\ content[d] \in Value /\ ptr'[s] = d /\ content' = content /\ head_' = s
        /\ access' = Access("write", content[d])
    BY <1>3 DEF SetData, SyncedInv, SyncedTypeOK
  <2>2. Current' = content[d]
    BY <2>1 DEF Current
  <2>3. QED
    BY <2>1, <2>2 DEF Memory!Next, Memory!Write, Memory!Access, Access
<1>4. ASSUME NEW s \in Side, NEW d \in Foreign[s], NEW v \in Value, Fill(d, v)
      PROVE  [Memory!Next]_(Memory!vars)
  <2>1. Current' = Current /\ access' = access
    BY <1>4 DEF Fill, Current, SyncedInv, SyncedTypeOK, HeadInv
  <2>2. QED
    BY <2>1 DEF Memory!vars
<1>5. ASSUME NEW s \in Side, NEW o \in Origin[s], Switch(s, o) PROVE [Memory!Next]_(Memory!vars)
  BY <1>5 DEF Switch, Current, Memory!vars
<1>6. ASSUME NEW v \in Value, Write(v) PROVE [Memory!Next]_(Memory!vars)
  <2>1. Current' = v /\ access' = Access("write", v)
    BY <1>6 DEF Write, Current, SyncedInv, SyncedTypeOK, HeadInv
  <2>2. QED
    BY <2>1 DEF Memory!Next, Memory!Write, Memory!Access, Access
<1>7. ASSUME AsyncGpuPush PROVE [Memory!Next]_(Memory!vars)
  <2>1. Place("gpu", Garbage) /\ head_ = "cpu" /\ head_' = "synced" /\ access' = access
    BY <1>7 DEF AsyncGpuPush
  <2>2. ptr'["cpu"] = ptr["cpu"] /\ content'[ptr["cpu"]] = content[ptr["cpu"]]
    BY <2>1, PlaceInv DEF SyncedInv, HeadInv
  <2>3. QED
    BY <2>1, <2>2 DEF Current, Memory!vars
<1>8. ASSUME StreamSynchronize PROVE [Memory!Next]_(Memory!vars)
  <2>1. Current' = Current /\ access' = access
    BY <1>8 DEF StreamSynchronize, Current, SyncedInv, SyncedTypeOK, HeadInv
  <2>2. QED
    BY <2>1 DEF Memory!vars
<1>9. ASSUME Renew PROVE [Memory!Next]_(Memory!vars)
  <2>1. Current' = Zero /\ access' = Access("write", Zero)
    BY <1>9 DEF Renew, Current
  <2>2. QED
    BY <2>1 DEF Memory!Next, Memory!Write, Memory!Access, Access
<1>10. CASE UNCHANGED syncedVars
  BY <1>10 DEF syncedVars, Current, Memory!vars
<1>11. QED
  BY <1>1, <1>2, <1>3, <1>4, <1>5, <1>6, <1>7, <1>8, <1>9, <1>10 DEF SyncedNext

\* Whichever side is asked for, and whatever was allocated, copied, put in or
\* pushed in between, a read returns what was written last.
THEOREM SyncedRefinement == SyncedSpec => ImplementsRegister
<1>1. SyncedInit => Memory!Init
  BY DEF SyncedInit, Current, Memory!Init, Memory!Access, Access
<1>2. QED
  BY InvHolds, StepRefines, <1>1, PTL DEF SyncedSpec, ImplementsRegister, Memory!Spec
=============================================================================
