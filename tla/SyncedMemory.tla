---------------------------- MODULE SyncedMemory ----------------------------
(***************************************************************************)
(* SyncedMemory (9.caffe-ssd/src/caffe/syncedmem.cpp): memory with a host  *)
(* copy and a device copy, of which head_ names the current one.  A copy   *)
(* is allocated when it is first asked for and brought up to date when it  *)
(* is asked for and stale; a user may put a buffer of its own in the place *)
(* of either.  The two sides are handled alike, so the pairs of members    *)
(* (cpu_ptr_, gpu_ptr_), (own_cpu_data_, own_gpu_data_) and                *)
(* (cpu_malloc_use_cuda_, gpu_device_) are functions of the side.          *)
(*                                                                         *)
(* The users keep to what the class expects of them: they write through a  *)
(* pointer of mutable_cpu_data or mutable_gpu_data until they ask for the  *)
(* other side, hand over buffers that are not the object's own, and        *)
(* synchronise on the stream of an async_gpu_push before they use it.      *)
(***************************************************************************)
CONSTANTS
  Value,      \* the contents of a buffer
  Zero,       \* what caffe_memset leaves
  Garbage,    \* what malloc, cudaMalloc and a copy under way leave
  Block,      \* Block[s]: the heap of side s
  Foreign,    \* Foreign[s]: buffers of the users on side s
  Origin,     \* Origin[s]: the host's two allocators, the devices
  NoBlock     \* the pointer NULL; also the origin of what is not allocated

Side == {"cpu", "gpu"}
OtherSide(s) == IF s = "cpu" THEN "gpu" ELSE "cpu"

Heap == Block["cpu"] \union Block["gpu"]
AnyOrigin == Origin["cpu"] \union Origin["gpu"]
Buffer == Heap \union Foreign["cpu"] \union Foreign["gpu"]

ASSUME SyncedMemoryAssumption ==
  /\ Zero \in Value /\ Garbage \notin Value
  /\ NoBlock \notin Buffer
  /\ NoBlock \notin AnyOrigin
  /\ Block["cpu"] \intersect Block["gpu"] = {}
  /\ Heap \intersect (Foreign["cpu"] \union Foreign["gpu"]) = {}
  /\ Foreign["cpu"] \intersect Foreign["gpu"] = {}

VARIABLES
  head_,     \* "none": UNINITIALIZED; "cpu", "gpu", "synced"
  ptr,       \* ptr[s]: cpu_ptr_, gpu_ptr_
  own,       \* own[s]: own_cpu_data_, own_gpu_data_
  origin,    \* origin[s]: cpu_malloc_use_cuda_, gpu_device_; NoBlock: not set
  content,   \* content[b]: what buffer b holds
  from,      \* from[b]: the allocator or device heap block b came from; NoBlock: free
  now,       \* now[s]: Caffe::mode() and the current device
  held,      \* the side a user holds a pointer to write through, or "none"
  pushing,   \* an async_gpu_push is under way on its stream
  access     \* the last read or write of a user

syncedVars == << head_, ptr, own, origin, content, from, now, held, pushing, access >>

Access(op, v) == [ op |-> op, v |-> v ]

SyncedInit ==
  /\ head_ = "none"
  /\ ptr = [s \in Side |-> NoBlock]
  /\ own = [s \in Side |-> FALSE]
  /\ origin = [s \in Side |-> NoBlock]
  /\ content \in [Buffer -> {Garbage}]
  /\ from = [b \in Heap |-> NoBlock]
  /\ now \in {o \in [Side -> AnyOrigin] : \A s \in Side : o[s] \in Origin[s]}
  /\ held = "none"
  /\ pushing = FALSE
  /\ access = Access("write", Zero)

\* What the memory holds
Current ==
  CASE head_ = "none" -> Zero
    [] head_ = "gpu" -> content[ptr["gpu"]]
    [] OTHER -> content[ptr["cpu"]]

-----------------------------------------------------------------------------
(* Allocation *)

\* Slip: nobody notes where the block came from
PlaceUnrecorded(s, val) ==
  IF ptr[s] = NoBlock
  THEN \E b \in {c \in Block[s] : from[c] = NoBlock} :
         /\ ptr' = [ptr EXCEPT ![s] = b]
         /\ own' = [own EXCEPT ![s] = TRUE]
         /\ from' = [from EXCEPT ![b] = now[s]]
         /\ content' = [content EXCEPT ![b] = val]
         /\ UNCHANGED origin
  ELSE /\ content' = [content EXCEPT ![ptr[s]] = val]
       /\ UNCHANGED << ptr, own, origin, from >>

\* Side s gets a buffer if it has none, and val into its buffer
Place(s, val) ==
  IF ptr[s] = NoBlock
  THEN \E b \in {c \in Block[s] : from[c] = NoBlock} :
         /\ ptr' = [ptr EXCEPT ![s] = b]
         /\ own' = [own EXCEPT ![s] = TRUE]
         /\ origin' = [origin EXCEPT ![s] = now[s]]
         /\ from' = [from EXCEPT ![b] = now[s]]
         /\ content' = [content EXCEPT ![b] = val]
  ELSE /\ content' = [content EXCEPT ![ptr[s]] = val]
       /\ UNCHANGED << ptr, own, origin, from >>

\* Slip: a block is given back to the allocator of the moment
HeapWithoutNow(released) ==
  [b \in Heap |-> IF \E s \in released : own[s] /\ ptr[s] = b /\ from[b] = now[s]
                  THEN NoBlock ELSE from[b]]

\* The heap once the object has freed its own blocks of the sides released;
\* a block given back where it did not come from stays allocated
HeapWithout(released) ==
  [b \in Heap |-> IF \E s \in released : own[s] /\ ptr[s] = b /\ from[b] = origin[s]
                  THEN NoBlock ELSE from[b]]

-----------------------------------------------------------------------------
(* to_cpu, to_gpu, and what the accessors make of them *)

Bring(s) ==
  IF head_ \in {s, "synced"}
  THEN UNCHANGED << ptr, own, origin, content, from >>
  ELSE Place(s, Current)

\* cpu_data, gpu_data, and the user reading
Data(s) ==
  /\ ~pushing \/ s = "cpu"
  /\ Bring(s)
  /\ head_' = IF head_ = "none" THEN s ELSE IF head_ = OtherSide(s) THEN "synced" ELSE head_
  /\ held' = IF held = s THEN s ELSE "none"
  /\ access' = Access("read", content'[ptr'[s]])
  /\ UNCHANGED << now, pushing >>

\* Slip: the other side is not declared stale
MutableDataSynced(s) ==
  /\ ~pushing
  /\ Bring(s)
  /\ head_' = IF head_ = "none" THEN s ELSE IF head_ = OtherSide(s) THEN "synced" ELSE head_
  /\ held' = s
  /\ UNCHANGED << now, pushing, access >>

\* mutable_cpu_data, mutable_gpu_data
MutableData(s) ==
  /\ ~pushing
  /\ Bring(s)
  /\ head_' = s
  /\ held' = s
  /\ UNCHANGED << now, pushing, access >>

\* The user writes through the pointer it holds
Write(v) ==
  /\ held # "none"
  /\ content' = [content EXCEPT ![ptr[held]] = v]
  /\ access' = Access("write", v)
  /\ UNCHANGED << head_, ptr, own, origin, from, now, held, pushing >>

\* set_cpu_data, set_gpu_data: a buffer the user has filled
SetData(s, d) ==
  /\ ~pushing /\ content[d] # Garbage
  /\ from' = HeapWithout({s})
  /\ ptr' = [ptr EXCEPT ![s] = d]
  /\ own' = [own EXCEPT ![s] = FALSE]
  /\ head_' = s
  /\ held' = "none"
  /\ access' = Access("write", content[d])
  /\ UNCHANGED << origin, content, now, pushing >>

\* The copy runs on the stream; the object counts it as done
AsyncGpuPush ==
  /\ head_ = "cpu" /\ ~pushing
  /\ Place("gpu", Garbage)
  /\ head_' = "synced"
  /\ held' = "none"
  /\ pushing' = TRUE
  /\ UNCHANGED << now, access >>

StreamSynchronize ==
  /\ pushing
  /\ content' = [content EXCEPT ![ptr["gpu"]] = content[ptr["cpu"]]]
  /\ pushing' = FALSE
  /\ UNCHANGED << head_, ptr, own, origin, from, now, held, access >>

\* Blob::Reshape puts a new object in the place of the old one
Renew ==
  /\ ~pushing
  /\ from' = HeapWithout(Side)
  /\ head_' = "none"
  /\ ptr' = [s \in Side |-> NoBlock]
  /\ own' = [s \in Side |-> FALSE]
  /\ origin' = [s \in Side |-> NoBlock]
  /\ held' = "none"
  /\ access' = Access("write", Zero)
  /\ UNCHANGED << content, now, pushing >>

-----------------------------------------------------------------------------
(* The surroundings *)

\* A user fills a buffer that it has not put in
Fill(d, v) ==
  /\ d \notin {ptr[s] : s \in Side}
  /\ content' = [content EXCEPT ![d] = v]
  /\ UNCHANGED << head_, ptr, own, origin, from, now, held, pushing, access >>

\* Caffe::set_mode, cudaSetDevice
Switch(s, o) ==
  /\ now' = [now EXCEPT ![s] = o]
  /\ UNCHANGED << head_, ptr, own, origin, content, from, held, pushing, access >>

SyncedNext ==
  \/ \E s \in Side :
       \/ Data(s) \/ MutableData(s)
       \/ \E d \in Foreign[s] : SetData(s, d) \/ \E v \in Value : Fill(d, v)
       \/ \E o \in Origin[s] : Switch(s, o)
  \/ \E v \in Value : Write(v)
  \/ AsyncGpuPush \/ StreamSynchronize
  \/ Renew

SyncedSpec == SyncedInit /\ [][SyncedNext]_syncedVars

-----------------------------------------------------------------------------
SyncedTypeOK ==
  /\ head_ \in Side \union {"none", "synced"}
  /\ ptr \in [Side -> Buffer \union {NoBlock}]
  /\ own \in [Side -> BOOLEAN]
  /\ origin \in [Side -> AnyOrigin \union {NoBlock}]
  /\ from \in [Heap -> AnyOrigin \union {NoBlock}]
  /\ now \in [Side -> AnyOrigin]
  /\ content \in [Buffer -> Value \union {Garbage}]
  /\ held \in Side \union {"none"}
  /\ pushing \in BOOLEAN
  /\ access \in [ op : {"read", "write"}, v : Value ]

\* Nothing leaks and nothing is freed under the object's feet
\* (syncedmem.cpp:7-23, 84-92, 104-122): the blocks of the heap are exactly
\* those the object points to and owns, and each came from where the object
\* will give it back.
HeapIsOwned ==
  \A s \in Side : \A b \in Block[s] :
     from[b] # NoBlock <=> own[s] /\ ptr[s] = b

\* Whatever the mode and the device are by then, a block goes back to the
\* allocator or the device it came from (syncedmem.hpp:15-36, cpp:16-20).
FreedAsAllocated ==
  \A s \in Side : own[s] => from[ptr[s]] = origin[s]

\* The inductive invariant: the current copies hold the contents, a user
\* writes to the current copy only, and a side's buffer is its own block or a
\* user's.
HeadInv ==
  /\ head_ = "none" => \A s \in Side : ptr[s] = NoBlock
  /\ head_ \in {"cpu", "synced"} => ptr["cpu"] # NoBlock /\ content[ptr["cpu"]] \in Value
  /\ head_ \in {"gpu", "synced"} => ptr["gpu"] # NoBlock
  /\ head_ = "gpu" => content[ptr["gpu"]] \in Value
  /\ head_ = "synced" /\ ~pushing => content[ptr["gpu"]] = content[ptr["cpu"]]
  /\ pushing => head_ = "synced"
  /\ held # "none" => head_ = held

PtrInv ==
  \A s \in Side : ptr[s] \in IF own[s] THEN Block[s] ELSE Foreign[s] \union {NoBlock}

SyncedInv == SyncedTypeOK /\ HeadInv /\ PtrInv /\ HeapIsOwned /\ FreedAsAllocated

\* Whichever copy a user asks for, it reads what was written last.
Memory == INSTANCE Register WITH reg <- Current, last <- access

ImplementsRegister == Memory!Spec
=============================================================================
