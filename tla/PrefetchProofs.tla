--------------------------- MODULE PrefetchProofs ---------------------------
(***************************************************************************)
(* For any readers, bodies, solvers, queue sizes, batches and records: the *)
(* layers use their readers as DataReader wants it, so that what is proved *)
(* there holds under them; no batch is lost, doubled, or copied while it   *)
(* is being filled; and each Forward shows the next records of its         *)
(* solver's share.                                                         *)
(***************************************************************************)
EXTENDS Prefetch, DataReaderProofs

\* Every step of a layer, its thread or the reading thread is a step of
\* DataReader, or one it does not see (data_layer.cpp, base_data_layer.cpp
\* against data_reader.cpp).
THEOREM LayersUseReaders == LayerSpec => Spec
<1>1. LayerInit => Init
  BY DEF LayerInit
<1>2. ASSUME [LayerNext]_allVars PROVE [Next]_vars
  <2>1. CASE UNCHANGED allVars
    BY <2>1 DEF allVars
  <2>2. CASE \E b \in Bodies : BodyStep(b) /\ UNCHANGED layerVars
    BY <2>2 DEF Next
  <2>3. ASSUME NEW r \in Readers, Construct(r) \/ LayerSetUp(r) PROVE [Next]_vars
    BY <2>3 DEF Construct, LayerSetUp, Next, Use
  <2>4. ASSUME NEW r \in Readers, Forward(r) PROVE UNCHANGED vars
    BY <2>4 DEF Forward, PopFull, Copy
  <2>5. ASSUME NEW r \in Readers, Leave(r) PROVE [Next]_vars
    BY <2>5 DEF Leave, StopThread, JoinThread, ReaderGone, Next
  <2>6. ASSUME NEW r \in Readers, ThreadStep(r) PROVE [Next]_vars
    BY <2>6 DEF ThreadStep, MustStop, PopFree, PopDatum, Transform, PushFull, StopWaiting, Next, Use
  <2>7. QED
    BY <1>2, <2>1, <2>2, <2>3, <2>4, <2>5, <2>6 DEF LayerNext
<1>3. QED
  BY <1>1, <1>2, PTL DEF LayerSpec, Spec

\* So the Datum objects go round under the layers, whenever they come and go
\* (data_layer.cpp:85 and :98).
THEOREM NoDatumLostInLayers == LayerSpec => []DataGoRound
BY LayersUseReaders, NoDatumLost, PTL

-----------------------------------------------------------------------------
LEMMA HeadIn == ASSUME NEW S, NEW q \in Seq(S), q # << >> PROVE Head(q) \in S
OBVIOUS

LEMMA TakenFrom ==
  ASSUME NEW q \in Seq(Batches), q # << >>, Unique(q)
  PROVE  /\ Tail(q) \in Seq(Batches) /\ Head(q) \in Batches /\ Unique(Tail(q))
         /\ Elements(Tail(q)) = Elements(q) \ {Head(q)} /\ Head(q) \in Elements(q)
<1>1. Len(q) \in Nat /\ Len(q) > 0 /\ DOMAIN q = 1..Len(q)
  OBVIOUS
<1>2. DOMAIN Tail(q) = 1..Len(q) - 1 /\ \A i \in 1..Len(q) - 1 : Tail(q)[i] = q[i + 1]
  BY <1>1
<1>3. Head(q) = q[1] /\ Head(q) \in Batches /\ Tail(q) \in Seq(Batches)
  BY <1>1
<1>4. Unique(Tail(q))
  BY <1>1, <1>2 DEF Unique
<1>5. ASSUME NEW i \in DOMAIN Tail(q) PROVE Tail(q)[i] \in Elements(q) \ {Head(q)}
  BY <1>1, <1>2, <1>3 DEF Elements, Unique
<1>6. ASSUME NEW i \in DOMAIN q, q[i] # Head(q) PROVE q[i] \in Elements(Tail(q))
  <2>1. i - 1 \in DOMAIN Tail(q) /\ Tail(q)[i - 1] = q[i]
    BY <1>1, <1>2, <1>3, <1>6
  <2>2. QED
    BY <2>1 DEF Elements
<1>7. QED
  BY <1>1, <1>3, <1>4, <1>5, <1>6 DEF Elements

LEMMA PutTo ==
  ASSUME NEW q \in Seq(Batches), NEW x \in Batches, Unique(q), x \notin Elements(q)
  PROVE  /\ Append(q, x) \in Seq(Batches) /\ Unique(Append(q, x))
         /\ Elements(Append(q, x)) = Elements(q) \union {x}
<1>1. Len(q) \in Nat /\ DOMAIN q = 1..Len(q) /\ DOMAIN Append(q, x) = 1..Len(q) + 1
  OBVIOUS
<1>2. /\ \A i \in 1..Len(q) : Append(q, x)[i] = q[i]
      /\ Append(q, x)[Len(q) + 1] = x
  OBVIOUS
<1>3. Elements(Append(q, x)) = Elements(q) \union {x}
  <2>1. ASSUME NEW i \in DOMAIN Append(q, x) PROVE Append(q, x)[i] \in Elements(q) \union {x}
    <3>1. CASE i \in 1..Len(q)
      BY <3>1, <1>1, <1>2 DEF Elements
    <3>2. CASE i = Len(q) + 1
      BY <3>2, <1>2
    <3>3. QED
      BY <3>1, <3>2, <1>1
  <2>2. ASSUME NEW i \in DOMAIN q PROVE q[i] \in Elements(Append(q, x))
    <3>1. i \in DOMAIN Append(q, x) /\ Append(q, x)[i] = q[i]
      BY <1>1, <1>2
    <3>2. QED
      BY <3>1 DEF Elements
  <2>3. x \in Elements(Append(q, x))
    <3>1. Len(q) + 1 \in DOMAIN Append(q, x)
      BY <1>1
    <3>2. QED
      BY <3>1, <1>2 DEF Elements
  <2>4. QED
    BY <2>1, <2>2, <2>3 DEF Elements
<1>4. Unique(Append(q, x))
  <2>1. \A i \in 1..Len(q) : q[i] # x
    BY <1>1 DEF Elements
  <2>2. QED
    BY <1>1, <1>2, <2>1 DEF Unique
<1>5. QED
  BY <1>3, <1>4

LEMMA NoBatchZero == 0 \notin Batches /\ \A q \in Seq(Batches) : 0 \notin Elements(q)
<1>1. 0 \notin Batches
  BY DEF Batches
<1>2. ASSUME NEW q \in Seq(Batches), NEW i \in DOMAIN q PROVE q[i] \in Batches
  OBVIOUS
<1>3. QED
  BY <1>1, <1>2 DEF Elements

\* The four ways a batch goes: from free to the thread, from the thread to
\* full, from full to the solver, from the solver to free
LEMMA ToThread ==
  ASSUME NEW free \in Seq(Batches), NEW full \in Seq(Batches), NEW y \in 0..PREFETCH_COUNT,
         OnePlaceEach(free, full, 0, y), free # << >>
  PROVE  OnePlaceEach(Tail(free), full, Head(free), y)
<1>1. Unique(free)
  BY DEF OnePlaceEach
<1>2. /\ Unique(Tail(free)) /\ Head(free) \in Elements(free) /\ Head(free) \in Batches
      /\ Elements(Tail(free)) = Elements(free) \ {Head(free)}
  BY <1>1, TakenFrom
<1>3. Head(free) # 0
  BY <1>2, NoBatchZero
<1>4. Batches \subseteq Elements(Tail(free)) \union Elements(full) \union {y, Head(free)}
  BY <1>2, NoBatchZero DEF OnePlaceEach
<1>5. Unique(Tail(free)) /\ Unique(full) /\ Elements(Tail(free)) \intersect Elements(full) = {}
  BY <1>2 DEF OnePlaceEach
<1>6. y # Head(free) /\ y \notin Elements(Tail(free)) \union Elements(full)
  BY <1>2 DEF OnePlaceEach
<1>7. Head(free) \notin Elements(Tail(free)) \union Elements(full)
  BY <1>2 DEF OnePlaceEach
<1>8. QED
  BY <1>3, <1>4, <1>5, <1>6, <1>7 DEF OnePlaceEach

LEMMA ToFull ==
  ASSUME NEW free \in Seq(Batches), NEW full \in Seq(Batches), NEW x \in Batches,
         NEW y \in 0..PREFETCH_COUNT, OnePlaceEach(free, full, x, y)
  PROVE  OnePlaceEach(free, Append(full, x), 0, y)
<1>1. 0 \notin Batches /\ \A q \in Seq(Batches) : 0 \notin Elements(q)
  BY NoBatchZero
<1>2. Unique(full) /\ x \notin Elements(full)
  BY DEF OnePlaceEach
<1>3. Unique(Append(full, x)) /\ Elements(Append(full, x)) = Elements(full) \union {x}
  BY <1>2, PutTo
<1>4. x # 0 /\ x # y /\ x \notin Elements(free)
  BY <1>1 DEF OnePlaceEach
<1>5. QED
  BY <1>1, <1>3, <1>4 DEF OnePlaceEach

LEMMA ToSolver ==
  ASSUME NEW free \in Seq(Batches), NEW full \in Seq(Batches), NEW x \in 0..PREFETCH_COUNT,
         OnePlaceEach(free, full, x, 0), full # << >>
  PROVE  OnePlaceEach(free, Tail(full), x, Head(full))
<1>1. Unique(full)
  BY DEF OnePlaceEach
<1>2. /\ Unique(Tail(full)) /\ Head(full) \in Elements(full) /\ Head(full) \in Batches
      /\ Elements(Tail(full)) = Elements(full) \ {Head(full)}
  BY <1>1, TakenFrom
<1>3. Head(full) # 0
  BY <1>2, NoBatchZero
<1>4. Batches \subseteq Elements(free) \union Elements(Tail(full)) \union {x, Head(full)}
  BY <1>2, NoBatchZero DEF OnePlaceEach
<1>5. Unique(free) /\ Unique(Tail(full)) /\ Elements(free) \intersect Elements(Tail(full)) = {}
  BY <1>2 DEF OnePlaceEach
<1>6. x # Head(full) /\ x \notin Elements(free) \union Elements(Tail(full))
  BY <1>2 DEF OnePlaceEach
<1>7. Head(full) \notin Elements(free) \union Elements(Tail(full))
  BY <1>2 DEF OnePlaceEach
<1>8. QED
  BY <1>3, <1>4, <1>5, <1>6, <1>7 DEF OnePlaceEach

LEMMA ToFree ==
  ASSUME NEW free \in Seq(Batches), NEW full \in Seq(Batches), NEW x \in 0..PREFETCH_COUNT,
         NEW y \in Batches, OnePlaceEach(free, full, x, y)
  PROVE  OnePlaceEach(Append(free, y), full, x, 0)
<1>1. 0 \notin Batches /\ \A q \in Seq(Batches) : 0 \notin Elements(q)
  BY NoBatchZero
<1>2. Unique(free) /\ y \notin Elements(free)
  BY DEF OnePlaceEach
<1>3. Unique(Append(free, y)) /\ Elements(Append(free, y)) = Elements(free) \union {y}
  BY <1>2, PutTo
<1>4. y # 0 /\ x # y /\ y \notin Elements(full)
  BY <1>1 DEF OnePlaceEach
<1>5. QED
  BY <1>1, <1>3, <1>4 DEF OnePlaceEach

-----------------------------------------------------------------------------
(* Layer by layer *)

HandOk(r) ==
  /\ thread[r].pc \in {"none", "loop"} => thread[r].batch = 0
  /\ thread[r].pc \in {"pop", "transform", "push"} => thread[r].batch # 0
  /\ main[r].batch # 0 <=> main[r].pc = "copy"
  /\ state[r] \notin {"use", "hold"} => thread[r] = NoPrefetch /\ main[r] = Out

Round(r) ==
  state[r] \in Alive =>
    OnePlaceEach(prefetch_free_[r], prefetch_full_[r], thread[r].batch, main[r].batch)

LayerFrame(r) ==
  \A s \in Readers \ {r} :
    /\ state'[s] = state[s] /\ thread'[s] = thread[s] /\ main'[s] = main[s]
    /\ prefetch_free_'[s] = prefetch_free_[s] /\ prefetch_full_'[s] = prefetch_full_[s]

LEMMA OneLayer ==
  ASSUME LayerInv, NEW r \in Readers, LayerTypeOK', LayerFrame(r), HandOk(r)', Round(r)'
  PROVE  LayerInv'
<1>1. ASSUME NEW s \in Readers \ {r} PROVE HandOk(s)' /\ Round(s)'
  <2>1. HandOk(s) /\ Round(s)
    BY DEF LayerInv, HandsOk, HandOk, BatchesGoRound, Round
  <2>2. /\ state'[s] = state[s] /\ thread'[s] = thread[s] /\ main'[s] = main[s]
        /\ prefetch_free_'[s] = prefetch_free_[s] /\ prefetch_full_'[s] = prefetch_full_[s]
    BY DEF LayerFrame
  <2>3. HandOk(s)'
    BY <2>1, <2>2 DEF HandOk, NoPrefetch, Out
  <2>4. Round(s)'
    BY <2>1, <2>2 DEF Round, OnePlaceEach, Elements, Unique, Batches, Alive
  <2>5. QED
    BY <2>3, <2>4
<1>2. HandsOk'
  BY <1>1 DEF HandsOk, HandOk
<1>3. BatchesGoRound'
  BY <1>1 DEF BatchesGoRound, Round
<1>4. QED
  BY <1>2, <1>3 DEF LayerInv

LEMMA OfOne ==
  ASSUME LayerInv, NEW r \in Readers
  PROVE  /\ HandOk(r) /\ Round(r)
         /\ prefetch_free_[r] \in Seq(Batches) /\ prefetch_full_[r] \in Seq(Batches)
         /\ thread[r] \in Prefetcher /\ thread[r].batch \in 0..PREFETCH_COUNT
         /\ main[r].batch \in 0..PREFETCH_COUNT
         /\ thread[r].batch # 0 => thread[r].batch \in Batches
         /\ main[r].batch # 0 => main[r].batch \in Batches
BY PrefetchAssumption DEF LayerInv, LayerTypeOK, HandsOk, HandOk, BatchesGoRound, Round, Prefetcher, Batches

LEMMA LayerInitInv == LayerInit => LayerInv
BY PrefetchAssumption, DataReaderAssumption
  DEF LayerInit, Init, LayerInv, LayerTypeOK, HandsOk, BatchesGoRound, Prefetcher, NoPrefetch, Out, Alive

LEMMA LayerStutter == ASSUME LayerInv, UNCHANGED << state, layerVars >> PROVE LayerInv'
<1>1. UNCHANGED << state, prefetch_free_, prefetch_full_, thread, main >>
  BY DEF layerVars
<1>2. LayerTypeOK'
  BY <1>1 DEF LayerInv, LayerTypeOK, Prefetcher, Batches
<1>3. HandsOk'
  BY <1>1 DEF LayerInv, HandsOk, NoPrefetch, Out
<1>4. BatchesGoRound'
  BY <1>1 DEF LayerInv, BatchesGoRound
<1>5. QED
  BY <1>2, <1>3, <1>4 DEF LayerInv

LEMMA BodyKeeps ==
  ASSUME LayerInv, NEW b \in Bodies, BodyStep(b), UNCHANGED layerVars
  PROVE  LayerInv'
BY LayerStutter DEF BodyStep, Accept, Take, Fill, Loop, Interrupted

LEMMA AllFree ==
  LET all == [i \in Batches |-> i]
  IN  all \in Seq(Batches) /\ OnePlaceEach(all, << >>, 0, 0)
<1>1. PREFETCH_COUNT \in Nat /\ Batches = 1..PREFETCH_COUNT /\ 0 \notin Batches
  BY PrefetchAssumption DEF Batches
<1>2. [i \in Batches |-> i] \in Seq(Batches)
  BY <1>1
<1>3. Elements([i \in Batches |-> i]) = Batches /\ Unique([i \in Batches |-> i])
  BY DEF Elements, Unique
<1>4. Elements(<< >>) = {} /\ Unique(<< >>)
  BY DEF Elements, Unique
<1>5. QED
  BY <1>1, <1>2, <1>3, <1>4 DEF OnePlaceEach

LEMMA ConstructInv == ASSUME LayerInv, TypeOK, NEW r \in Readers, Construct(r) PROVE LayerInv'
<1>1. /\ state[r] = "none" /\ state' = [state EXCEPT ![r] = "setup"]
      /\ prefetch_free_' = [prefetch_free_ EXCEPT ![r] = [i \in Batches |-> i]]
      /\ prefetch_full_' = [prefetch_full_ EXCEPT ![r] = << >>]
      /\ UNCHANGED << thread, main >>
  BY DEF Construct, New
<1>2. state'[r] = "setup" /\ \A s \in Readers \ {r} : state'[s] = state[s]
  BY <1>1 DEF TypeOK
<1>3. LayerTypeOK'
  BY <1>1, AllFree DEF LayerInv, LayerTypeOK, Prefetcher
<1>4. thread'[r] = NoPrefetch /\ main'[r] = Out
  BY <1>1, OfOne DEF HandOk
<1>5. HandOk(r)'
  BY <1>4 DEF HandOk, NoPrefetch, Out
<1>6. prefetch_free_'[r] = [i \in Batches |-> i] /\ prefetch_full_'[r] = << >>
  BY <1>1 DEF LayerInv, LayerTypeOK
<1>7. thread'[r].batch = 0 /\ main'[r].batch = 0
  BY <1>4 DEF NoPrefetch, Out
<1>8. Round(r)'
  BY <1>6, <1>7, AllFree DEF Round
<1>9. LayerFrame(r)
  BY <1>1, <1>2 DEF LayerInv, LayerTypeOK, LayerFrame
<1>10. QED
  BY <1>3, <1>5, <1>8, <1>9, OneLayer

LEMMA LayerSetUpInv == ASSUME LayerInv, TypeOK, NEW r \in Readers, LayerSetUp(r) PROVE LayerInv'
<1>1. /\ state[r] = "setup" /\ state' = [state EXCEPT ![r] = "use"]
      /\ thread' = [thread EXCEPT ![r].pc = "loop"]
      /\ UNCHANGED << prefetch_free_, prefetch_full_ >>
  BY DEF LayerSetUp, SetUp
<1>2. PICK next \in {"forward", "destroy"} : main' = [main EXCEPT ![r] = [pc |-> next, batch |-> 0]]
  BY DEF LayerSetUp, Then
<1>3. thread[r] = NoPrefetch /\ main[r] = Out /\ Round(r)
  BY <1>1, OfOne DEF HandOk
<1>4. LayerTypeOK'
  <2>1. main' \in [Readers -> [ pc : {"out", "forward", "copy", "destroy", "stop"}, batch : 0..PREFETCH_COUNT ]]
    <3>1. [pc |-> next, batch |-> 0] \in
             [ pc : {"out", "forward", "copy", "destroy", "stop"}, batch : 0..PREFETCH_COUNT ]
      BY <1>2, PrefetchAssumption
    <3>2. QED
      BY <3>1, <1>2 DEF LayerInv, LayerTypeOK
  <2>2. thread' \in [Readers -> Prefetcher]
    BY <1>1 DEF LayerInv, LayerTypeOK, Prefetcher
  <2>3. QED
    BY <1>1, <2>1, <2>2 DEF LayerInv, LayerTypeOK
<1>5. thread'[r].pc = "loop" /\ thread'[r].batch = 0 /\ main'[r] = [pc |-> next, batch |-> 0] /\ state'[r] = "use"
  BY <1>1, <1>2, <1>3 DEF LayerInv, LayerTypeOK, NoPrefetch, Prefetcher, TypeOK
<1>6. HandOk(r)'
  BY <1>5, <1>2 DEF HandOk
<1>7. OnePlaceEach(prefetch_free_[r], prefetch_full_[r], 0, 0)
  BY <1>1, <1>3 DEF Round, Alive, NoPrefetch, Out
<1>8. main'[r].batch = 0
  BY <1>5
<1>9. Round(r)'
  BY <1>1, <1>5, <1>7, <1>8 DEF Round
<1>10. LayerFrame(r)
  BY <1>1, <1>2 DEF LayerInv, LayerTypeOK, LayerFrame, TypeOK
<1>11. QED
  BY <1>4, <1>6, <1>9, <1>10, OneLayer

\* A step that leaves every batch where it is
LEMMA SamePlaces ==
  ASSUME LayerInv, NEW r \in Readers, LayerTypeOK', LayerFrame(r), HandOk(r)',
         UNCHANGED << prefetch_free_, prefetch_full_ >>,
         thread'[r].batch = thread[r].batch, main'[r].batch = main[r].batch,
         state'[r] \in Alive => state[r] \in Alive
  PROVE  LayerInv'
<1>1. Round(r)'
  BY OfOne DEF Round
<1>2. QED
  BY <1>1, OneLayer

LEMMA ThreadKeepsBatch ==
  ASSUME LayerInv, TypeOK, NEW r \in Readers,
         MustStop(r) \/ PopDatum(r) \/ Transform(r) \/ StopWaiting(r)
  PROVE  LayerInv'
<1> DEFINE next == thread'[r]
<1>1. UNCHANGED << prefetch_free_, prefetch_full_, main >>
  BY DEF MustStop, PopDatum, Transform, StopWaiting
<1>2. /\ next \in Prefetcher /\ next.batch = thread[r].batch
      /\ next.pc \in {"pop", "transform", "push", "ended"}
      /\ thread' = [thread EXCEPT ![r] = next]
      /\ next.pc # "ended" => thread[r].pc \in {"pop", "transform"}
  <2>1. CASE MustStop(r)
    BY <2>1 DEF MustStop, LayerInv, LayerTypeOK, Prefetcher
  <2>2. CASE PopDatum(r)
    <3>1. Head(full_[r]) \in 0..Records - 1
      <4>1. PICK q \in Seq(0..Records - 1) : q = full_[r]
        BY DEF TypeOK
      <4>2. q # << >>
        BY <2>2, <4>1 DEF PopDatum, Get
      <4>3. QED
        BY <4>1, <4>2, HeadIn
    <3>2. QED
      BY <2>2, <3>1 DEF PopDatum, LayerInv, LayerTypeOK, Prefetcher
  <2>3. CASE Transform(r)
    <3>1. PICK pc \in {"push", "pop"}, item \in Nat :
            /\ thread[r].pc = "transform"
            /\ thread' = [thread EXCEPT ![r].pc = pc, ![r].item = item, ![r].datum = 0]
      <4>1. thread[r].item + 1 \in Nat
        BY OfOne DEF Prefetcher
      <4>2. QED
        BY <2>3, <4>1 DEF Transform
    <3>2. 0 \in 0..Records - 1
      BY DataReaderAssumption
    <3>3. QED
      BY <3>1, <3>2 DEF LayerInv, LayerTypeOK, Prefetcher
  <2>4. CASE StopWaiting(r)
    BY <2>4 DEF StopWaiting, LayerInv, LayerTypeOK, Prefetcher
  <2>5. QED
    BY <2>1, <2>2, <2>3, <2>4
<1>3. /\ state[r] \in {"use", "hold"} /\ state'[r] \in {"use", "hold"}
      /\ \A s \in Readers \ {r} : state'[s] = state[s]
  <2>1. state[r] \in {"use", "hold"}
    BY OfOne DEF HandOk, NoPrefetch, MustStop, PopDatum, Transform, StopWaiting
  <2>2. CASE MustStop(r) \/ StopWaiting(r)
    BY <2>1, <2>2 DEF MustStop, StopWaiting, vars
  <2>3. CASE PopDatum(r) \/ Transform(r)
    BY <2>3, <2>1 DEF PopDatum, Get, Transform, GiveBack, TypeOK
  <2>4. QED
    BY <2>2, <2>3
<1>4. LayerTypeOK'
  BY <1>1, <1>2 DEF LayerInv, LayerTypeOK
<1>5. LayerFrame(r)
  BY <1>1, <1>2, <1>3 DEF LayerInv, LayerTypeOK, LayerFrame
<1>6. HandOk(r)'
  BY <1>1, <1>2, <1>3, OfOne DEF HandOk
<1>7. QED
  BY <1>1, <1>2, <1>3, <1>4, <1>5, <1>6, SamePlaces DEF Alive

LEMMA PopFreeInv == ASSUME LayerInv, NEW r \in Readers, PopFree(r) PROVE LayerInv'
<1>1. PICK free \in Seq(Batches) : free = prefetch_free_[r]
  BY OfOne
<1>2. /\ thread[r].pc = "loop" /\ free # << >>
      /\ thread' = [thread EXCEPT ![r].pc = "pop", ![r].batch = Head(free), ![r].item = 1]
      /\ prefetch_free_' = [prefetch_free_ EXCEPT ![r] = Tail(free)]
      /\ UNCHANGED << state, prefetch_full_, main >>
  BY <1>1 DEF PopFree, vars, LayerInv, LayerTypeOK
<1>3. Head(free) \in Batches /\ Tail(free) \in Seq(Batches)
  BY <1>2
<1>4. LayerTypeOK'
  <2>1. thread' \in [Readers -> Prefetcher]
    <3>1. PICK x \in 0..PREFETCH_COUNT : x = Head(free)
      BY <1>3, PrefetchAssumption DEF Batches
    <3>2. PICK was \in Prefetcher : was = thread[r]
      BY OfOne
    <3>3. thread' = [thread EXCEPT ![r] = [was EXCEPT !.pc = "pop", !.batch = x, !.item = 1]]
      BY <1>2, <3>1, <3>2
    <3>4. [was EXCEPT !.pc = "pop", !.batch = x, !.item = 1] \in Prefetcher
      BY DEF Prefetcher
    <3>5. QED
      BY <3>3, <3>4 DEF LayerInv, LayerTypeOK
  <2>2. QED
    BY <1>2, <1>3, <2>1 DEF LayerInv, LayerTypeOK
<1>5. thread'[r].pc = "pop" /\ thread'[r].batch = Head(free) /\ prefetch_free_'[r] = Tail(free)
  BY <1>2 DEF LayerInv, LayerTypeOK, Prefetcher
<1>6. LayerFrame(r)
  BY <1>2 DEF LayerInv, LayerTypeOK, LayerFrame
<1>7. HandOk(r)'
  BY <1>2, <1>3, <1>5, OfOne, NoBatchZero DEF HandOk, NoPrefetch
<1>8. Round(r)'
  <2>1. thread[r].batch = 0
    BY <1>2, OfOne DEF HandOk
  <2>2. state[r] \in Alive => OnePlaceEach(free, prefetch_full_[r], 0, main[r].batch)
    BY <1>1, <2>1, OfOne DEF Round
  <2>3. state[r] \in Alive => OnePlaceEach(Tail(free), prefetch_full_[r], Head(free), main[r].batch)
    BY <1>2, <2>2, OfOne, ToThread
  <2>4. QED
    BY <1>2, <1>5, <2>3 DEF Round
<1>9. QED
  BY <1>4, <1>6, <1>7, <1>8, OneLayer

LEMMA PushFullInv == ASSUME LayerInv, NEW r \in Readers, PushFull(r) PROVE LayerInv'
<1>1. PICK x \in 0..PREFETCH_COUNT, stop \in BOOLEAN : x = thread[r].batch /\ stop = thread[r].stop
  BY OfOne DEF Prefetcher
<1>2. PICK full \in Seq(Batches) : full = prefetch_full_[r]
  BY OfOne
<1>3. /\ thread[r].pc = "push"
      /\ thread' = [thread EXCEPT ![r] = [NoPrefetch EXCEPT !.pc = "loop", !.stop = stop]]
      /\ prefetch_full_' = [prefetch_full_ EXCEPT ![r] = Append(full, x)]
      /\ UNCHANGED << state, prefetch_free_, main >>
  BY <1>1, <1>2 DEF PushFull, vars, LayerInv, LayerTypeOK
<1>4. x \in Batches /\ Append(full, x) \in Seq(Batches)
  BY <1>1, <1>3, OfOne DEF HandOk
<1>5. LayerTypeOK'
  <2>1. [NoPrefetch EXCEPT !.pc = "loop", !.stop = stop] \in Prefetcher
    <3>1. 0 \in 0..PREFETCH_COUNT /\ 0 \in 0..Records - 1 /\ 0 \in Nat
      BY PrefetchAssumption, DataReaderAssumption
    <3>2. NoPrefetch \in Prefetcher
      BY <3>1 DEF NoPrefetch, Prefetcher
    <3>3. QED
      BY <3>2 DEF Prefetcher
  <2>2. thread' \in [Readers -> Prefetcher]
    BY <1>3, <2>1 DEF LayerInv, LayerTypeOK
  <2>3. QED
    BY <1>3, <1>4, <2>2 DEF LayerInv, LayerTypeOK
<1>6. thread'[r].pc = "loop" /\ thread'[r].batch = 0 /\ prefetch_full_'[r] = Append(full, x)
  BY <1>3 DEF LayerInv, LayerTypeOK, NoPrefetch
<1>7. LayerFrame(r)
  BY <1>3 DEF LayerInv, LayerTypeOK, LayerFrame
<1>8. state[r] \in {"use", "hold"} /\ HandOk(r)'
  BY <1>3, <1>6, OfOne DEF HandOk, NoPrefetch
<1>9. Round(r)'
  <2>1. OnePlaceEach(prefetch_free_[r], full, x, main[r].batch)
    BY <1>1, <1>2, <1>8, OfOne DEF Round, Alive
  <2>2. OnePlaceEach(prefetch_free_[r], Append(full, x), 0, main[r].batch)
    BY <1>4, <2>1, OfOne, ToFull
  <2>3. QED
    BY <1>3, <1>6, <2>2 DEF Round
<1>10. QED
  BY <1>5, <1>7, <1>8, <1>9, OneLayer

LEMMA PopFullInv == ASSUME LayerInv, NEW r \in Readers, PopFull(r) PROVE LayerInv'
<1>1. PICK full \in Seq(Batches) : full = prefetch_full_[r]
  BY OfOne
<1>2. /\ main[r].pc = "forward" /\ full # << >>
      /\ main' = [main EXCEPT ![r] = [pc |-> "copy", batch |-> Head(full)]]
      /\ prefetch_full_' = [prefetch_full_ EXCEPT ![r] = Tail(full)]
      /\ UNCHANGED << state, prefetch_free_, thread >>
  BY <1>1 DEF PopFull, vars, LayerInv, LayerTypeOK
<1>3. Head(full) \in Batches /\ Tail(full) \in Seq(Batches)
  BY <1>2
<1>4. LayerTypeOK'
  <2>1. PICK x \in 0..PREFETCH_COUNT : x = Head(full)
    BY <1>3, PrefetchAssumption DEF Batches
  <2>2. main' \in [Readers -> [ pc : {"out", "forward", "copy", "destroy", "stop"}, batch : 0..PREFETCH_COUNT ]]
    BY <1>2, <2>1 DEF LayerInv, LayerTypeOK
  <2>3. QED
    BY <1>2, <1>3, <2>2 DEF LayerInv, LayerTypeOK
<1>5. main'[r] = [pc |-> "copy", batch |-> Head(full)] /\ prefetch_full_'[r] = Tail(full)
  BY <1>2 DEF LayerInv, LayerTypeOK
<1>6. main'[r].pc = "copy" /\ main'[r].batch = Head(full) /\ Head(full) # 0
  BY <1>3, <1>5, NoBatchZero
<1>7. LayerFrame(r)
  BY <1>2 DEF LayerInv, LayerTypeOK, LayerFrame
<1>8. state[r] \in {"use", "hold"} /\ HandOk(r)'
  BY <1>2, <1>6, OfOne DEF HandOk, Out
<1>9. Round(r)'
  <2>1. OnePlaceEach(prefetch_free_[r], full, thread[r].batch, 0)
    BY <1>1, <1>2, <1>8, OfOne DEF Round, Alive, HandOk
  <2>2. OnePlaceEach(prefetch_free_[r], Tail(full), thread[r].batch, Head(full))
    BY <1>2, <2>1, OfOne, ToSolver
  <2>3. QED
    BY <1>2, <1>5, <1>6, <2>2 DEF Round
<1>10. QED
  BY <1>4, <1>7, <1>8, <1>9, OneLayer

LEMMA CopyInv == ASSUME LayerInv, NEW r \in Readers, Copy(r) PROVE LayerInv'
<1>1. PICK y \in 0..PREFETCH_COUNT : y = main[r].batch
  BY OfOne
<1>2. PICK free \in Seq(Batches) : free = prefetch_free_[r]
  BY OfOne
<1>3. PICK next \in {"forward", "destroy"} : main' = [main EXCEPT ![r] = [pc |-> next, batch |-> 0]]
  BY DEF Copy, Then
<1>4. /\ main[r].pc = "copy"
      /\ prefetch_free_' = [prefetch_free_ EXCEPT ![r] = Append(free, y)]
      /\ UNCHANGED << state, prefetch_full_, thread >>
  BY <1>1, <1>2 DEF Copy, vars, LayerInv, LayerTypeOK
<1>5. y \in Batches /\ Append(free, y) \in Seq(Batches)
  BY <1>1, <1>4, OfOne DEF HandOk
<1>6. LayerTypeOK'
  <2>1. [pc |-> next, batch |-> 0] \in
           [ pc : {"out", "forward", "copy", "destroy", "stop"}, batch : 0..PREFETCH_COUNT ]
    BY <1>3, PrefetchAssumption
  <2>2. main' \in [Readers -> [ pc : {"out", "forward", "copy", "destroy", "stop"}, batch : 0..PREFETCH_COUNT ]]
    BY <1>3, <2>1 DEF LayerInv, LayerTypeOK
  <2>3. QED
    BY <1>4, <1>5, <2>2 DEF LayerInv, LayerTypeOK
<1>7. main'[r] = [pc |-> next, batch |-> 0] /\ prefetch_free_'[r] = Append(free, y)
  BY <1>3, <1>4 DEF LayerInv, LayerTypeOK
<1>8. main'[r].pc # "copy" /\ main'[r].batch = 0
  BY <1>3, <1>7
<1>9. LayerFrame(r)
  BY <1>3, <1>4 DEF LayerInv, LayerTypeOK, LayerFrame
<1>10. state[r] \in {"use", "hold"} /\ HandOk(r)'
  BY <1>4, <1>8, OfOne DEF HandOk, Out
<1>11. Round(r)'
  <2>1. OnePlaceEach(free, prefetch_full_[r], thread[r].batch, y)
    BY <1>1, <1>2, <1>10, OfOne DEF Round, Alive
  <2>2. OnePlaceEach(Append(free, y), prefetch_full_[r], thread[r].batch, 0)
    BY <1>5, <2>1, OfOne, ToFree
  <2>3. QED
    BY <1>4, <1>7, <1>8, <2>2 DEF Round
<1>12. QED
  BY <1>6, <1>9, <1>10, <1>11, OneLayer

LEMMA StopThreadInv == ASSUME LayerInv, NEW r \in Readers, StopThread(r) PROVE LayerInv'
<1>1. /\ main[r].pc = "destroy" /\ main' = [main EXCEPT ![r].pc = "stop"]
      /\ thread' = [thread EXCEPT ![r].stop = TRUE]
      /\ UNCHANGED << state, prefetch_free_, prefetch_full_ >>
  BY DEF StopThread, vars
<1>2. LayerTypeOK'
  BY <1>1 DEF LayerInv, LayerTypeOK, Prefetcher
<1>3. /\ thread'[r].pc = thread[r].pc /\ thread'[r].batch = thread[r].batch
      /\ main'[r].pc = "stop" /\ main'[r].batch = main[r].batch
  BY <1>1 DEF LayerInv, LayerTypeOK, Prefetcher
<1>4. state[r] \in {"use", "hold"} /\ HandOk(r)'
  BY <1>1, <1>3, OfOne DEF HandOk, Out
<1>5. LayerFrame(r)
  BY <1>1 DEF LayerInv, LayerTypeOK, LayerFrame
<1>6. QED
  BY <1>1, <1>2, <1>3, <1>4, <1>5, SamePlaces

LEMMA JoinThreadInv == ASSUME LayerInv, TypeOK, NEW r \in Readers, JoinThread(r) PROVE LayerInv'
<1>1. /\ state'[r] \in {"join", "erase"} /\ \A s \in Readers \ {r} : state'[s] = state[s]
  BY DEF JoinThread, Reset, TypeOK
<1>2. /\ main' = [main EXCEPT ![r] = Out] /\ thread' = [thread EXCEPT ![r] = NoPrefetch]
      /\ prefetch_free_' = [prefetch_free_ EXCEPT ![r] = << >>]
      /\ prefetch_full_' = [prefetch_full_ EXCEPT ![r] = << >>]
  BY DEF JoinThread
<1>3. LayerTypeOK'
  <2>1. 0 \in 0..PREFETCH_COUNT /\ 0 \in 0..Records - 1 /\ 0 \in Nat
    BY PrefetchAssumption, DataReaderAssumption
  <2>2. NoPrefetch \in Prefetcher
    BY <2>1 DEF NoPrefetch, Prefetcher
  <2>3. Out \in [ pc : {"out", "forward", "copy", "destroy", "stop"}, batch : 0..PREFETCH_COUNT ]
    BY <2>1 DEF Out
  <2>4. QED
    BY <1>2, <2>2, <2>3 DEF LayerInv, LayerTypeOK
<1>4. thread'[r] = NoPrefetch /\ main'[r] = Out
  BY <1>2 DEF LayerInv, LayerTypeOK
<1>5. HandOk(r)'
  BY <1>4 DEF HandOk, NoPrefetch, Out
<1>6. Round(r)'
  BY <1>1 DEF Round, Alive
<1>7. LayerFrame(r)
  BY <1>1, <1>2 DEF LayerInv, LayerTypeOK, LayerFrame
<1>8. QED
  BY <1>3, <1>5, <1>6, <1>7, OneLayer

LEMMA ReaderGoneInv == ASSUME LayerInv, TypeOK, NEW r \in Readers, ReaderGone(r) PROVE LayerInv'
<1>1. /\ state[r] \in {"join", "erase"} /\ state'[r] \in {"none", "erase"}
      /\ \A s \in Readers \ {r} : state'[s] = state[s]
  BY DEF ReaderGone, Destroy, Join, Erase, TypeOK
<1>2. UNCHANGED << prefetch_free_, prefetch_full_, thread, main >>
  BY DEF ReaderGone, layerVars
<1>3. LayerTypeOK'
  BY <1>2 DEF LayerInv, LayerTypeOK, Prefetcher, Batches
<1>4. HandOk(r)'
  BY <1>1, <1>2, OfOne DEF HandOk, NoPrefetch, Out
<1>5. LayerFrame(r)
  BY <1>1, <1>2 DEF LayerFrame
<1>6. QED
  BY <1>1, <1>2, <1>3, <1>4, <1>5, SamePlaces DEF Alive

LEMMA LayerNextInv == ASSUME LayerInv, TypeOK, [LayerNext]_allVars PROVE LayerInv'
<1>1. CASE UNCHANGED allVars
  BY <1>1, LayerStutter DEF allVars, vars
<1>2. ASSUME NEW b \in Bodies, BodyStep(b) /\ UNCHANGED layerVars PROVE LayerInv'
  BY <1>2, BodyKeeps
<1>3. ASSUME NEW r \in Readers, Construct(r) \/ LayerSetUp(r) \/ Forward(r) \/ Leave(r) PROVE LayerInv'
  BY <1>3, ConstructInv, LayerSetUpInv, PopFullInv, CopyInv, StopThreadInv, JoinThreadInv, ReaderGoneInv
    DEF Forward, Leave
<1>4. ASSUME NEW r \in Readers, ThreadStep(r) PROVE LayerInv'
  BY <1>4, ThreadKeepsBatch, PopFreeInv, PushFullInv DEF ThreadStep
<1>5. QED
  BY <1>1, <1>2, <1>3, <1>4 DEF LayerNext

LEMMA LayerHolds == LayerSpec => []LayerInv
<1>1. LayerSpec => []TypeOK
  BY LayersUseReaders, DataReaderTypeCorrect, PTL
<1>2. LayerInit => LayerInv
  BY LayerInitInv
<1>3. LayerInv /\ TypeOK /\ [LayerNext]_allVars => LayerInv'
  BY LayerNextInv
<1>4. QED
  BY <1>1, <1>2, <1>3, PTL DEF LayerSpec

\* Every batch of a living layer is in one place: so the Forward that copies a
\* batch and the thread that fills one never meet on it, and none is lost
\* (base_data_layer.cpp:84-94 and :109-124).
THEOREM NoBatchLost == LayerSpec => []BatchesGoRound
<1>1. LayerInv => BatchesGoRound
  BY DEF LayerInv
<1>2. QED
  BY <1>1, LayerHolds, PTL

-----------------------------------------------------------------------------
(* The records on their way to the top blob *)

ItemOk(r) ==
  /\ thread[r].pc \in {"none", "loop"} => thread[r].item = 0
  /\ thread[r].pc \in {"pop", "transform"} => thread[r].item \in 1..batch_size
  /\ thread[r].pc = "push" => thread[r].item = batch_size + 1
  /\ thread[r].pc = "ended" => thread[r].item \in 0..batch_size
  /\ thread[r].item # 0 => thread[r].batch # 0
  /\ state[r] \notin {"use", "hold"} => top[r] = << >> /\ prefetch_full_[r] = << >>

\* What a row depends on, but for the queue of the reader and the body
SameLayer(q) ==
  /\ prefetch_'[q] = prefetch_[q] /\ prefetch_full_'[q] = prefetch_full_[q] /\ top'[q] = top[q]
  /\ main'[q].batch = main[q].batch /\ (main'[q].pc = "copy" <=> main[q].pc = "copy")
  /\ thread'[q].batch = thread[q].batch /\ thread'[q].item = thread[q].item
  /\ thread'[q].datum = thread[q].datum
  /\ (thread'[q].pc = "transform" <=> thread[q].pc = "transform")

LEMMA LayerSame ==
  ASSUME NEW q, NEW i, SameLayer(q)
  PROVE  /\ Seen(q, i)' = Seen(q, i) /\ Popped(q, i)' = Popped(q, i) /\ Pushed(q, i)' = Pushed(q, i)
         /\ Loaded(q, i)' = Loaded(q, i) /\ Taken(q, i)' = Taken(q, i)
         /\ CopyOk(q, i) => CopyOk(q, i)'
         /\ QueueOk(q, i) => QueueOk(q, i)'
         /\ LoadOk(q, i) => LoadOk(q, i)'
<1>1. Seen(q, i)' = Seen(q, i)
  BY DEF Seen, SameLayer
<1>2. Popped(q, i)' = Popped(q, i)
  BY <1>1 DEF Popped, SameLayer
<1>3. Pushed(q, i)' = Pushed(q, i)
  BY <1>2 DEF Pushed, SameLayer
<1>4. Loaded(q, i)' = Loaded(q, i)
  BY <1>3 DEF Loaded, SameLayer
<1>5. Taken(q, i)' = Taken(q, i)
  BY <1>4 DEF Taken, SameLayer
<1>6. CopyOk(q, i) => CopyOk(q, i)'
  BY <1>1 DEF CopyOk, SameLayer, Whole
<1>7. QueueOk(q, i) => QueueOk(q, i)'
  BY <1>2 DEF QueueOk, SameLayer
<1>8. LoadOk(q, i) => LoadOk(q, i)'
  BY <1>3, <1>4 DEF LoadOk, SameLayer
<1>9. QED
  BY <1>1, <1>2, <1>3, <1>4, <1>5, <1>6, <1>7, <1>8

\* Nothing is read for a reader in place i
SameTurn(q, i) ==
  body'[body_'[q]].pc # "ended" =>
    /\ body[body_[q]].pc # "ended" /\ body'[body_'[q]].at = body[body_[q]].at
    /\ Ago(body'[body_'[q]], i) = Ago(body[body_[q]], i)

LEMMA ReadSame ==
  ASSUME NEW q, NEW i, Taken(q, i)' = Taken(q, i), full_'[q] = full_[q], SameTurn(q, i), ReadOk(q, i)
  PROVE  ReadOk(q, i)'
<1>1. Given(q, i)' = Given(q, i)
  BY DEF Given
<1>2. QED
  BY <1>1 DEF ReadOk, SameTurn

\* Which rows there are after a step
RowBefore(q, i) ==
  state'[q] \in Alive /\ PlaceOf(q, i)' => state[q] \in Alive /\ PlaceOf(q, i) /\ SameTurn(q, i)

LEMMA OneRow ==
  ASSUME OrderInv, NEW r \in Readers, LoadType', ItemOk(r)',
         \A q \in Readers \ {r} : /\ SameLayer(q) /\ thread'[q] = thread[q] /\ full_'[q] = full_[q]
                                  /\ state'[q] = state[q],
         \A q \in Readers, i \in 1..solver_count : RowBefore(q, i),
         \A i \in 1..solver_count :
            /\ state[r] \in Alive /\ state'[r] \in Alive
            /\ PlaceOf(r, i) /\ SameTurn(r, i) /\ RowOk(r, i)
            => RowOk(r, i)'
  PROVE  OrderInv'
<1>1. ItemsOk'
  <2>1. ASSUME NEW q \in Readers \ {r} PROVE ItemOk(q)'
    BY DEF OrderInv, ItemsOk, ItemOk, SameLayer
  <2>2. QED
    BY <2>1 DEF ItemsOk, ItemOk
<1>2. RowInv'
  <2>1. ASSUME NEW q \in Readers, NEW i \in 1..solver_count, state'[q] \in Alive, PlaceOf(q, i)'
        PROVE  RowOk(q, i)'
    <3>1. state[q] \in Alive /\ PlaceOf(q, i) /\ SameTurn(q, i)
      BY <2>1 DEF RowBefore
    <3>2. RowOk(q, i)
      BY <3>1 DEF OrderInv, RowInv
    <3>3. CASE q = r
      BY <2>1, <3>1, <3>2, <3>3
    <3>4. CASE q # r
      BY <3>1, <3>2, <3>4, LayerSame, ReadSame DEF RowOk
    <3>5. QED
      BY <3>3, <3>4
  <2>2. QED
    BY <2>1 DEF RowInv
<1>3. QED
  BY <1>1, <1>2 DEF OrderInv

LEMMA SameRows ==
  ASSUME UNCHANGED << body_, body >>, \A q \in Readers : state'[q] \in Alive => state[q] \in Alive
  PROVE  \A q \in Readers, i \in 1..solver_count : RowBefore(q, i)
BY DEF RowBefore, PlaceOf, SameTurn

\* A layer all by itself
LEMMA RowTypes ==
  ASSUME OrderInv, LayerInv, NEW r \in Readers
  PROVE  /\ prefetch_full_[r] \in Seq(Batches) /\ thread[r] \in Prefetcher /\ thread[r].item \in Nat
         /\ prefetch_[r] \in [Batches -> Loads]
         /\ thread[r].batch # 0 => thread[r].batch \in Batches
         /\ main[r].pc = "copy" => main[r].batch \in Batches
         /\ ItemOk(r)
BY OfOne DEF OrderInv, LoadType, ItemsOk, ItemOk, HandOk, Prefetcher

LEMMA QuietRow ==
  ASSUME OrderInv, NEW r \in Readers, LoadType', ItemOk(r)', \A q \in Readers : SameLayer(q),
         \A q \in Readers \ {r} : thread'[q] = thread[q] /\ state'[q] = state[q],
         UNCHANGED full_, \A q \in Readers, i \in 1..solver_count : RowBefore(q, i)
  PROVE  OrderInv'
<1>1. ASSUME NEW i \in 1..solver_count, RowOk(r, i), SameTurn(r, i) PROVE RowOk(r, i)'
  BY <1>1, LayerSame, ReadSame DEF RowOk
<1>2. QED
  BY <1>1, OneRow

LEMMA StopThreadOrder == ASSUME OrderInv, LayerInv, NEW r \in Readers, StopThread(r) PROVE OrderInv'
<1>1. /\ main[r].pc = "destroy" /\ main' = [main EXCEPT ![r].pc = "stop"]
      /\ thread' = [thread EXCEPT ![r].stop = TRUE]
      /\ UNCHANGED << state, body_, body, full_, prefetch_, prefetch_full_, top >>
  BY DEF StopThread, vars
<1>2. /\ \A q \in Readers \ {r} : main'[q] = main[q] /\ thread'[q] = thread[q]
      /\ main'[r].pc = "stop" /\ main'[r].batch = main[r].batch
      /\ thread'[r].pc = thread[r].pc /\ thread'[r].batch = thread[r].batch
      /\ thread'[r].item = thread[r].item /\ thread'[r].datum = thread[r].datum
  BY <1>1 DEF LayerInv, LayerTypeOK, Prefetcher
<1>3. \A q \in Readers : SameLayer(q)
  BY <1>1, <1>2 DEF SameLayer
<1>4. LoadType' /\ ItemOk(r)'
  BY <1>1, <1>2, RowTypes DEF OrderInv, LoadType, ItemOk
<1>5. \A q \in Readers, i \in 1..solver_count : RowBefore(q, i)
  BY <1>1, SameRows
<1>6. QED
  BY <1>1, <1>2, <1>3, <1>4, <1>5, QuietRow

LEMMA StopsOrder ==
  ASSUME OrderInv, LayerInv, NEW r \in Readers, MustStop(r) \/ StopWaiting(r)
  PROVE  OrderInv'
<1>1. /\ thread[r].pc \in {"loop", "pop"} /\ thread' = [thread EXCEPT ![r].pc = "ended"]
      /\ UNCHANGED << state, body_, body, full_, prefetch_, prefetch_full_, top, main >>
  BY DEF MustStop, StopWaiting, vars
<1>2. /\ \A q \in Readers \ {r} : thread'[q] = thread[q]
      /\ thread'[r].pc = "ended" /\ thread'[r].batch = thread[r].batch
      /\ thread'[r].item = thread[r].item /\ thread'[r].datum = thread[r].datum
  BY <1>1 DEF LayerInv, LayerTypeOK, Prefetcher
<1>3. \A q \in Readers : SameLayer(q)
  BY <1>1, <1>2 DEF SameLayer
<1>4. LoadType' /\ ItemOk(r)'
  <2>1. thread[r].item \in 0..batch_size
    <3>1. 0 \in 0..batch_size /\ 1..batch_size \subseteq 0..batch_size
      BY PrefetchAssumption
    <3>2. QED
      BY <1>1, <3>1, RowTypes DEF ItemOk
  <2>2. QED
    BY <1>1, <1>2, <2>1, RowTypes DEF OrderInv, LoadType, ItemOk
<1>5. \A q \in Readers, i \in 1..solver_count : RowBefore(q, i)
  BY <1>1, SameRows
<1>6. QED
  BY <1>1, <1>2, <1>3, <1>4, <1>5, QuietRow

LEMMA LayerSetUpOrder ==
  ASSUME OrderInv, LayerInv, TypeOK, NEW r \in Readers, LayerSetUp(r)
  PROVE  OrderInv'
<1>1. /\ state[r] = "setup" /\ state' = [state EXCEPT ![r] = "use"]
      /\ thread' = [thread EXCEPT ![r].pc = "loop"]
      /\ UNCHANGED << body_, body, full_, prefetch_, prefetch_full_, top >>
      /\ \E next \in {"forward", "destroy"} : main' = [main EXCEPT ![r] = [pc |-> next, batch |-> 0]]
  BY DEF LayerSetUp, SetUp, Then
<1>2. thread[r] = NoPrefetch /\ main[r] = Out
  BY <1>1, OfOne DEF HandOk
<1>3. /\ \A q \in Readers \ {r} : thread'[q] = thread[q] /\ main'[q] = main[q] /\ state'[q] = state[q]
      /\ state'[r] = "use" /\ main'[r].pc # "copy" /\ main'[r].batch = 0
      /\ thread'[r].pc = "loop" /\ thread'[r].batch = 0
      /\ thread'[r].item = 0 /\ thread'[r].datum = thread[r].datum
  BY <1>1, <1>2 DEF LayerInv, LayerTypeOK, TypeOK, NoPrefetch
<1>4. \A q \in Readers : SameLayer(q)
  BY <1>1, <1>2, <1>3 DEF SameLayer, NoPrefetch, Out
<1>5. LoadType' /\ ItemOk(r)'
  BY <1>1, <1>3 DEF OrderInv, LoadType, ItemOk
<1>6. \A q \in Readers, i \in 1..solver_count : RowBefore(q, i)
  BY <1>1, <1>3, SameRows DEF Alive
<1>7. QED
  BY <1>1, <1>3, <1>4, <1>5, <1>6, QuietRow

\* The rows of the others when a reader goes, or its body does
LEMMA ReaderGoneOrder ==
  ASSUME OrderInv, LayerInv, IInv, ShareInv, NEW r \in Readers, ReaderGone(r)
  PROVE  OrderInv'
<1>1. UNCHANGED << full_, prefetch_, prefetch_full_, top, main, thread >>
  BY DEF ReaderGone, Destroy, Join, Erase, layerVars
<1>2. /\ state[r] \in {"join", "erase"} /\ state'[r] \in {"erase", "none"}
      /\ \A q \in Readers \ {r} : state'[q] = state[q] /\ body_'[q] = body_[q]
  BY DEF ReaderGone, Destroy, Join, Erase, IInv, TypeOK
<1>3. \A q \in Readers : SameLayer(q)
  BY <1>1 DEF SameLayer
<1>4. LoadType' /\ ItemOk(r)'
  BY <1>1, <1>2, RowTypes DEF OrderInv, LoadType, ItemOk
<1>5. ASSUME NEW q \in Readers, NEW i \in 1..solver_count PROVE RowBefore(q, i)
  <2>1. CASE q = r
    BY <1>2, <2>1 DEF RowBefore, Alive
  <2>2. CASE q # r /\ UNCHANGED body
    BY <1>2, <2>2 DEF RowBefore, PlaceOf, SameTurn
  <2>3. CASE q # r /\ Join(r)
    <3>1. ASSUME state[q] \in Alive PROVE body'[body_[q]] = body[body_[q]]
      <4>1. body_[r] \in Bodies /\ body_[q] \in Bodies /\ body_[q] # body_[r]
        BY <2>3, <3>1 DEF Join, ShareInv, JoinsAlone, Sharing, IInv, KeptInv
      <4>2. QED
        BY <2>3, <4>1 DEF Join, IInv, TypeOK
    <3>2. QED
      BY <1>2, <2>3, <3>1 DEF RowBefore, PlaceOf, SameTurn
  <2>4. QED
    BY <2>1, <2>2, <2>3 DEF ReaderGone, Destroy, Erase
<1>6. QED
  BY <1>1, <1>2, <1>3, <1>4, <1>5, QuietRow

LEMMA ConstructOrder ==
  ASSUME OrderInv, LayerInv, IInv, NEW r \in Readers, Construct(r)
  PROVE  OrderInv'
<1>1. /\ New(r) /\ UNCHANGED << prefetch_, main, thread, top >>
      /\ prefetch_full_' = [prefetch_full_ EXCEPT ![r] = << >>]
  BY DEF Construct
<1>2. PICK b \in IF Expired THEN {c \in Bodies : body[c] = NoThread} ELSE {bodies_} :
        /\ body' = [body EXCEPT ![b].new = Append(@, r),
                                ![b].pc = IF Expired THEN "accept" ELSE @]
        /\ body_' = [body_ EXCEPT ![r] = b]
  BY <1>1 DEF New
<1>3. b \in Bodies /\ (Expired => body[b] = NoThread)
  BY <1>2 DEF Expired, IInv, TypeOK
<1>4. /\ state[r] = "none" /\ body_'[r] = b /\ \A c \in Bodies : r \notin Known(c)
      /\ \A q \in Readers \ {r} : /\ state'[q] = state[q] /\ body_'[q] = body_[q]
                                  /\ full_'[q] = full_[q] /\ prefetch_full_'[q] = prefetch_full_[q]
      /\ prefetch_full_'[r] = << >> /\ state'[r] = "setup"
  BY <1>1, <1>2 DEF New, IInv, TypeOK, Known, LayerInv, LayerTypeOK
<1>5. /\ \A c \in Bodies \ {b} : body'[c] = body[c]
      /\ body'[b].qps = body[b].qps /\ body'[b].at = body[b].at /\ body'[b].turn = body[b].turn
      /\ body'[b].pc = (IF Expired THEN "accept" ELSE body[b].pc)
  BY <1>2, <1>3 DEF IInv, TypeOK, Thread
<1>6. \A q \in Readers \ {r} : SameLayer(q)
  BY <1>1, <1>4 DEF SameLayer
<1>7. LoadType' /\ ItemOk(r)'
  BY <1>1, <1>4, RowTypes DEF OrderInv, LoadType, ItemOk
<1>8. ASSUME NEW q \in Readers, NEW i \in 1..solver_count PROVE q # r => RowBefore(q, i)
  <2>1. ASSUME q # r, state[q] \in Alive, PlaceOf(q, i)' PROVE PlaceOf(q, i) /\ SameTurn(q, i)
    <3>1. CASE body_[q] = b
      <4>1. Expired => body'[b].qps = << >>
        BY <1>3, <1>5 DEF NoThread
      <4>2. ~Expired
        BY <1>4, <2>1, <3>1, <4>1 DEF PlaceOf
      <4>3. QED
        BY <1>4, <1>5, <2>1, <3>1, <4>2 DEF PlaceOf, SameTurn, Ago, Turn
    <3>2. CASE body_[q] # b
      BY <1>4, <1>5, <2>1, <3>2 DEF PlaceOf, SameTurn, IInv, KeptInv
    <3>3. QED
      BY <3>1, <3>2
  <2>2. QED
    BY <1>4, <2>1 DEF RowBefore
<1>9. \A i \in 1..solver_count : ~PlaceOf(r, i)'
  <2>1. r \notin Elements(body[b].qps)
    BY <1>3, <1>4 DEF Known
  <2>2. body'[body_'[r]].qps = body[b].qps
    BY <1>4, <1>5
  <2>3. QED
    BY <2>1, <2>2 DEF PlaceOf, Elements
<1>10. \A q \in Readers, i \in 1..solver_count : RowBefore(q, i)
  BY <1>8, <1>9 DEF RowBefore
<1>11. QED
  BY <1>1, <1>4, <1>6, <1>7, <1>10, OneRow DEF Alive

LEMMA JoinThreadOrder ==
  ASSUME OrderInv, LayerInv, IInv, NEW r \in Readers, JoinThread(r)
  PROVE  OrderInv'
<1>1. /\ Reset(r) /\ main' = [main EXCEPT ![r] = Out] /\ thread' = [thread EXCEPT ![r] = NoPrefetch]
      /\ prefetch_' = [prefetch_ EXCEPT ![r] = [j \in Batches |-> Blank]]
      /\ prefetch_full_' = [prefetch_full_ EXCEPT ![r] = << >>]
      /\ top' = [top EXCEPT ![r] = << >>]
  BY DEF JoinThread
<1>2. /\ state[r] = "use" /\ state'[r] \in {"join", "erase"} /\ UNCHANGED << body_, full_ >>
      /\ \A q \in Readers \ {r} : state'[q] = state[q]
  BY <1>1 DEF Reset, IInv, TypeOK
<1>3. /\ \A q \in Readers \ {r} : /\ main'[q] = main[q] /\ thread'[q] = thread[q]
                                  /\ prefetch_'[q] = prefetch_[q] /\ top'[q] = top[q]
                                  /\ prefetch_full_'[q] = prefetch_full_[q]
      /\ thread'[r] = NoPrefetch /\ top'[r] = << >> /\ prefetch_full_'[r] = << >>
  BY <1>1 DEF LayerInv, LayerTypeOK, OrderInv, LoadType
<1>4. \A q \in Readers \ {r} : SameLayer(q)
  BY <1>3 DEF SameLayer
<1>5. LoadType'
  <2>1. [j \in Batches |-> Blank] \in [Batches -> Loads]
    BY DataReaderAssumption DEF Blank, Loads
  <2>2. QED
    BY <1>1, <2>1 DEF OrderInv, LoadType
<1>6. ItemOk(r)'
  BY <1>3 DEF ItemOk, NoPrefetch
<1>7. \A c \in Bodies : /\ body'[c].qps = body[c].qps /\ body'[c].at = body[c].at
                        /\ body'[c].pc = body[c].pc /\ body'[c].turn = body[c].turn
  <2>1. CASE UNCHANGED body
    BY <2>1
  <2>2. CASE body' = [body EXCEPT ![body_[r]].stop = TRUE]
    BY <2>2 DEF IInv, TypeOK, Thread
  <2>3. QED
    BY <1>1, <2>1, <2>2 DEF Reset
<1>8. \A q \in Readers, i \in 1..solver_count : RowBefore(q, i)
  <2>1. ASSUME NEW q \in Readers, NEW i \in 1..solver_count, state'[q] \in Alive, PlaceOf(q, i)'
        PROVE  state[q] \in Alive /\ PlaceOf(q, i) /\ SameTurn(q, i)
    <3>1. q # r /\ state[q] \in Alive
      BY <1>2, <2>1 DEF Alive
    <3>2. body_[q] \in Bodies
      BY <3>1 DEF IInv, KeptInv
    <3>3. QED
      BY <1>2, <1>7, <2>1, <3>1, <3>2 DEF PlaceOf, SameTurn, Ago, Turn
  <2>2. QED
    BY <2>1 DEF RowBefore
<1>9. state'[r] \notin Alive
  BY <1>2 DEF Alive
<1>10. QED
  BY <1>2, <1>3, <1>4, <1>5, <1>6, <1>8, <1>9, OneRow

\* The queue and what is taken from it, while the thread fills another batch
SameQueue(r) ==
  /\ prefetch_full_'[r] = prefetch_full_[r] /\ top'[r] = top[r]
  /\ main'[r].batch = main[r].batch /\ (main'[r].pc = "copy" <=> main[r].pc = "copy")
  /\ main[r].pc = "copy" => prefetch_'[r][main[r].batch] = prefetch_[r][main[r].batch]
  /\ \A j \in DOMAIN prefetch_full_[r] : prefetch_'[r][prefetch_full_[r][j]] = prefetch_[r][prefetch_full_[r][j]]

LEMMA QueueSame ==
  ASSUME NEW r, NEW i, SameQueue(r), prefetch_full_[r] \in Seq(Batches)
  PROVE  /\ Seen(r, i)' = Seen(r, i) /\ Popped(r, i)' = Popped(r, i) /\ Pushed(r, i)' = Pushed(r, i)
         /\ CopyOk(r, i) => CopyOk(r, i)'
         /\ QueueOk(r, i) => QueueOk(r, i)'
<1>1. Seen(r, i)' = Seen(r, i)
  BY DEF Seen, SameQueue
<1>2. Popped(r, i)' = Popped(r, i)
  BY <1>1 DEF Popped, SameQueue
<1>3. PICK q \in Seq(Batches) : q = prefetch_full_[r]
  OBVIOUS
<1>4. /\ q # << >> => Len(q) \in DOMAIN q /\ 1 \in DOMAIN q
      /\ \A j \in 1..Len(q) - 1 : j \in DOMAIN q /\ j + 1 \in DOMAIN q
  OBVIOUS
<1>5. /\ prefetch_full_[r] = q /\ prefetch_full_'[r] = q
      /\ \A j \in DOMAIN q : prefetch_'[r][q[j]] = prefetch_[r][q[j]]
  BY <1>3 DEF SameQueue
<1>6. Pushed(r, i)' = Pushed(r, i)
  BY <1>2, <1>4, <1>5 DEF Pushed
<1>7. CopyOk(r, i) => CopyOk(r, i)'
  BY <1>1 DEF CopyOk, SameQueue
<1>8. ASSUME QueueOk(r, i) PROVE QueueOk(r, i)'
  <2>1. /\ \A j \in DOMAIN q : Whole(prefetch_[r][q[j]])
        /\ q # << >> => Follows(Popped(r, i), prefetch_[r][q[1]][1])
        /\ \A j \in 1..Len(q) - 1 : Follows(prefetch_[r][q[j]][batch_size], prefetch_[r][q[j + 1]][1])
    BY <1>5, <1>8 DEF QueueOk
  <2>2. /\ \A j \in DOMAIN q : Whole(prefetch_'[r][q[j]])
        /\ q # << >> => Follows(Popped(r, i)', prefetch_'[r][q[1]][1])
        /\ \A j \in 1..Len(q) - 1 : Follows(prefetch_'[r][q[j]][batch_size], prefetch_'[r][q[j + 1]][1])
    BY <1>2, <1>4, <1>5, <2>1
  <2>3. QED
    BY <1>5, <2>2 DEF QueueOk
<1>9. QED
  BY <1>1, <1>2, <1>6, <1>7, <1>8

LEMMA PopFreeOrder == ASSUME OrderInv, LayerInv, NEW r \in Readers, PopFree(r) PROVE OrderInv'
<1>1. /\ thread[r].pc = "loop"
      /\ thread' = [thread EXCEPT ![r].pc = "pop", ![r].batch = Head(prefetch_free_[r]), ![r].item = 1]
      /\ prefetch_free_[r] # << >>
      /\ UNCHANGED << state, body_, body, full_, prefetch_, prefetch_full_, top, main >>
  BY DEF PopFree, vars
<1>2. /\ \A q \in Readers \ {r} : thread'[q] = thread[q]
      /\ thread'[r].pc = "pop" /\ thread'[r].batch = Head(prefetch_free_[r]) /\ thread'[r].item = 1
  BY <1>1 DEF LayerInv, LayerTypeOK, Prefetcher
<1>3. \A q \in Readers \ {r} : SameLayer(q)
  BY <1>1, <1>2 DEF SameLayer
<1>4. LoadType'
  BY <1>1 DEF OrderInv, LoadType
<1>5. ItemOk(r)'
  <2>1. thread'[r].batch # 0
    <3>1. Head(prefetch_free_[r]) \in Batches
      BY <1>1, OfOne, HeadIn
    <3>2. QED
      BY <1>2, <3>1, NoBatchZero
  <2>2. 1 \in 1..batch_size /\ 1 # 0
    BY PrefetchAssumption
  <2>3. QED
    BY <1>1, <1>2, <2>1, <2>2, RowTypes DEF ItemOk
<1>6. \A q \in Readers, i \in 1..solver_count : RowBefore(q, i)
  BY <1>1, SameRows
<1>7. ASSUME NEW i \in 1..solver_count, SameTurn(r, i), RowOk(r, i) PROVE RowOk(r, i)'
  <2>1. /\ Pushed(r, i)' = Pushed(r, i) /\ CopyOk(r, i)' /\ QueueOk(r, i)'
    BY <1>1, <1>7, RowTypes, QueueSame DEF SameQueue, RowOk
  <2>2. Loaded(r, i)' = Loaded(r, i) /\ Taken(r, i)' = Taken(r, i)
    BY <1>1, <1>2, <2>1, RowTypes DEF Loaded, Taken, ItemOk
  <2>3. LoadOk(r, i)'
    BY <1>2 DEF LoadOk
  <2>4. ReadOk(r, i)'
    BY <1>1, <1>7, <2>2, ReadSame DEF RowOk
  <2>5. QED
    BY <2>1, <2>3, <2>4 DEF RowOk
<1>8. QED
  BY <1>1, <1>2, <1>3, <1>4, <1>5, <1>6, <1>7, OneRow

LEMMA BeforeLast ==
  ASSUME NEW n \in Nat, NEW j \in 1..n, j # n
  PROVE  j \in 1..n - 1 /\ j + 1 \in 1..n
OBVIOUS

LEMMA PushFullOrder == ASSUME OrderInv, LayerInv, NEW r \in Readers, PushFull(r) PROVE OrderInv'
<1>1. PICK q \in Seq(Batches), n \in Batches : q = prefetch_full_[r] /\ n = thread[r].batch
  BY RowTypes, OfOne DEF PushFull, HandOk
<1>2. /\ thread[r].pc = "push" /\ prefetch_full_' = [prefetch_full_ EXCEPT ![r] = Append(q, n)]
      /\ thread' = [thread EXCEPT ![r] = [NoPrefetch EXCEPT !.pc = "loop", !.stop = thread[r].stop]]
      /\ UNCHANGED << state, body_, body, full_, prefetch_, top, main >>
  BY <1>1 DEF PushFull, vars
<1>3. /\ \A s \in Readers \ {r} : thread'[s] = thread[s] /\ prefetch_full_'[s] = prefetch_full_[s]
      /\ thread'[r].pc = "loop" /\ thread'[r].batch = 0 /\ thread'[r].item = 0
      /\ prefetch_full_'[r] = Append(q, n)
  BY <1>2 DEF LayerInv, LayerTypeOK, NoPrefetch
<1>4. \A s \in Readers \ {r} : SameLayer(s)
  BY <1>2, <1>3 DEF SameLayer
<1>5. LoadType'
  BY <1>2 DEF OrderInv, LoadType
<1>6. state[r] \in {"use", "hold"} /\ thread[r].item = batch_size + 1
  BY <1>2, OfOne, RowTypes DEF HandOk, NoPrefetch, ItemOk
<1>7. ItemOk(r)'
  BY <1>2, <1>3, <1>6 DEF ItemOk
<1>8. \A s \in Readers, i \in 1..solver_count : RowBefore(s, i)
  BY <1>2, SameRows
<1>9. ASSUME NEW i \in 1..solver_count, SameTurn(r, i), RowOk(r, i) PROVE RowOk(r, i)'
  <2> DEFINE x(j) == prefetch_[r][j]
  <2>1. /\ \A j \in DOMAIN q : Whole(x(q[j]))
        /\ q # << >> => Follows(Popped(r, i), x(q[1])[1])
        /\ \A j \in 1..Len(q) - 1 : Follows(x(q[j])[batch_size], x(q[j + 1])[1])
    BY <1>1, <1>9 DEF RowOk, QueueOk
  <2>2. Whole(x(n)) /\ Follows(Pushed(r, i), x(n)[1])
    <3>1. batch_size + 1 > 1 /\ 1..(batch_size + 1) - 2 = 1..batch_size - 1
      BY PrefetchAssumption
    <3>2. QED
      BY <1>1, <1>6, <1>9, <3>1 DEF RowOk, LoadOk, Whole
  <2>3. Pushed(r, i) = (IF q = << >> THEN Popped(r, i) ELSE x(q[Len(q)])[batch_size])
    BY <1>1 DEF Pushed
  <2> DEFINE p == Append(q, n)
  <2>4. /\ Len(q) \in Nat /\ Len(p) = Len(q) + 1 /\ DOMAIN p = 1..Len(q) + 1 /\ DOMAIN q = 1..Len(q)
        /\ p[Len(q) + 1] = n /\ p # << >> /\ \A j \in 1..Len(q) : p[j] = q[j]
    OBVIOUS
  <2>5. Seen(r, i)' = Seen(r, i) /\ Popped(r, i)' = Popped(r, i)
    BY <1>2 DEF Seen, Popped
  <2>6. CopyOk(r, i)'
    BY <1>2, <1>9, <2>5 DEF RowOk, CopyOk
  <2>7. QueueOk(r, i)'
    <3>1. \A j \in DOMAIN p : Whole(x(p[j]))
      BY <2>1, <2>2, <2>4
    <3>2. Follows(Popped(r, i), x(p[1])[1])
      <4>1. CASE q = << >>
        BY <2>2, <2>3, <2>4, <4>1
      <4>2. CASE q # << >>
        <5>1. 1 \in 1..Len(q)
          BY <4>2
        <5>2. QED
          BY <2>1, <2>4, <4>2, <5>1
      <4>3. QED
        BY <4>1, <4>2
    <3>3. \A j \in 1..Len(p) - 1 : Follows(x(p[j])[batch_size], x(p[j + 1])[1])
      <4>1. ASSUME NEW j \in 1..Len(q) PROVE Follows(x(p[j])[batch_size], x(p[j + 1])[1])
        <5>1. CASE j = Len(q)
          <6>1. q # << >>
            BY <2>4, <5>1
          <6>2. QED
            BY <2>2, <2>3, <2>4, <5>1, <6>1
        <5>2. CASE j # Len(q)
          <6>1. j \in 1..Len(q) - 1 /\ j + 1 \in 1..Len(q)
            BY <2>4, <5>2, BeforeLast
          <6>2. QED
            BY <2>1, <2>4, <6>1
        <5>3. QED
          BY <5>1, <5>2
      <4>2. QED
        BY <2>4, <4>1
    <3> HIDE DEF p
    <3>4. prefetch_full_'[r] = p
      BY <1>3 DEF p
    <3>5. QED
      BY <1>2, <2>5, <3>1, <3>2, <3>3, <3>4 DEF QueueOk
  <2>8. Pushed(r, i)' = x(n)[batch_size]
    BY <1>2, <1>3, <2>4 DEF Pushed
  <2>9. Loaded(r, i) = x(n)[batch_size]
    <3>1. ~(batch_size + 1 <= 1) /\ (batch_size + 1) - 1 = batch_size
      BY PrefetchAssumption
    <3>2. QED
      BY <1>1, <1>6, <3>1 DEF Loaded
  <2>10. Taken(r, i)' = Taken(r, i)
    BY <1>2, <1>3, <2>8, <2>9 DEF Taken, Loaded
  <2>11. LoadOk(r, i)'
    BY <1>3 DEF LoadOk
  <2>12. ReadOk(r, i)'
    BY <1>2, <1>9, <2>10, ReadSame DEF RowOk
  <2>13. QED
    BY <2>6, <2>7, <2>11, <2>12 DEF RowOk
<1>10. QED
  BY <1>2, <1>3, <1>4, <1>5, <1>7, <1>8, <1>9, OneRow

LEMMA NoneLeft == ASSUME NEW S, NEW q \in Seq(S) PROVE q = << >> <=> Len(q) = 0
OBVIOUS

LEMMA TailIs ==
  ASSUME NEW S, NEW q \in Seq(S), q # << >>
  PROVE  /\ Len(q) \in Nat \ {0} /\ Head(q) = q[1] /\ Tail(q) \in Seq(S) /\ Len(Tail(q)) = Len(q) - 1
         /\ \A j \in 1..Len(q) - 1 : Tail(q)[j] = q[j + 1]
         /\ Tail(q) = << >> <=> Len(q) = 1
         /\ Tail(q) # << >> => Tail(q)[Len(Tail(q))] = q[Len(q)]
<1>1. Len(q) \in Nat \ {0} /\ Tail(q) \in Seq(S) /\ Len(Tail(q)) = Len(q) - 1
  OBVIOUS
<1>2. Head(q) = q[1] /\ \A j \in 1..Len(q) - 1 : Tail(q)[j] = q[j + 1]
  OBVIOUS
<1>3. Tail(q) = << >> <=> Len(q) = 1
  <2>1. PICK p \in Seq(S) : p = Tail(q)
    BY <1>1
  <2>2. Len(p) = Len(q) - 1
    BY <1>1, <2>1
  <2>3. p = << >> <=> Len(p) = 0
    BY <2>1, NoneLeft
  <2>4. p = << >> <=> Len(q) = 1
    BY ONLY <1>1, <2>2, <2>3
  <2>5. QED
    BY <2>1, <2>4
<1>4. ASSUME Tail(q) # << >> PROVE Tail(q)[Len(Tail(q))] = q[Len(q)]
  <2>1. Len(Tail(q)) \in 1..Len(q) - 1 /\ Len(Tail(q)) + 1 = Len(q)
    BY ONLY <1>1, <1>3, <1>4
  <2>2. QED
    BY <1>2, <2>1
<1>5. QED
  BY <1>1, <1>2, <1>3, <1>4

LEMMA PopFullOrder == ASSUME OrderInv, LayerInv, NEW r \in Readers, PopFull(r) PROVE OrderInv'
<1>1. PICK q \in Seq(Batches) : q = prefetch_full_[r] /\ q # << >>
  BY RowTypes DEF PopFull
<1>2. /\ main[r].pc = "forward" /\ prefetch_full_' = [prefetch_full_ EXCEPT ![r] = Tail(q)]
      /\ main' = [main EXCEPT ![r] = [pc |-> "copy", batch |-> Head(q)]]
      /\ UNCHANGED << state, body_, body, full_, prefetch_, top, thread >>
  BY <1>1 DEF PopFull, vars
<1>3. /\ \A s \in Readers \ {r} : main'[s] = main[s] /\ prefetch_full_'[s] = prefetch_full_[s]
      /\ main'[r].pc = "copy" /\ main'[r].batch = Head(q) /\ prefetch_full_'[r] = Tail(q)
  BY <1>2 DEF LayerInv, LayerTypeOK
<1>4. \A s \in Readers \ {r} : SameLayer(s)
  BY <1>2, <1>3 DEF SameLayer
<1>5. LoadType'
  BY <1>2 DEF OrderInv, LoadType
<1>6. ItemOk(r)'
  <2>1. main[r] # Out
    BY <1>2 DEF Out
  <2>2. state[r] \in {"use", "hold"}
    BY <2>1, OfOne DEF HandOk
  <2>3. QED
    BY <1>2, <2>2, RowTypes DEF ItemOk
<1>7. \A s \in Readers, i \in 1..solver_count : RowBefore(s, i)
  BY <1>2, SameRows
<1>8. ASSUME NEW i \in 1..solver_count, SameTurn(r, i), RowOk(r, i) PROVE RowOk(r, i)'
  <2> DEFINE x(j) == prefetch_[r][j]
             p == Tail(q)
  <2>1. /\ \A j \in DOMAIN q : Whole(x(q[j]))
        /\ Follows(Popped(r, i), x(q[1])[1])
        /\ \A j \in 1..Len(q) - 1 : Follows(x(q[j])[batch_size], x(q[j + 1])[1])
    BY <1>1, <1>8 DEF RowOk, QueueOk
  <2>2. /\ Len(q) \in Nat \ {0} /\ Len(p) = Len(q) - 1 /\ DOMAIN p = 1..Len(q) - 1
        /\ DOMAIN q = 1..Len(q) /\ Head(q) = q[1] /\ \A j \in 1..Len(q) - 1 : p[j] = q[j + 1]
        /\ (p = << >> <=> Len(q) = 1)
    <3>1. DOMAIN p = 1..Len(p) /\ DOMAIN q = 1..Len(q)
      BY <1>1, TailIs
    <3>2. QED
      BY <1>1, <3>1, TailIs
  <2> HIDE DEF p
  <2>3. prefetch_full_'[r] = p /\ prefetch_' = prefetch_ /\ main'[r].batch = q[1]
    BY <1>2, <1>3, <2>2 DEF p
  <2>4. Seen(r, i)' = Seen(r, i) /\ Popped(r, i) = Seen(r, i) /\ Popped(r, i)' = x(q[1])[batch_size]
    BY <1>2, <1>3, <2>3 DEF Seen, Popped
  <2>5. CopyOk(r, i)'
    <3>1. 1 \in DOMAIN q
      BY <2>2
    <3>2. QED
      BY <2>1, <2>3, <2>4, <3>1 DEF CopyOk
  <2>6. QueueOk(r, i)'
    <3>1. \A j \in DOMAIN p : Whole(x(p[j]))
      BY <2>1, <2>2
    <3>2. p # << >> => Follows(x(q[1])[batch_size], x(p[1])[1])
      <4>1. ASSUME p # << >> PROVE 1 \in 1..Len(q) - 1 /\ 1 + 1 = 2
        BY <2>2, <4>1
      <4>2. QED
        BY <2>1, <2>2, <4>1
    <3>3. \A j \in 1..Len(p) - 1 : Follows(x(p[j])[batch_size], x(p[j + 1])[1])
      <4>1. ASSUME NEW j \in 1..Len(p) - 1
            PROVE  j \in 1..Len(q) - 1 /\ j + 1 \in 1..Len(q) - 1
        BY <2>2
      <4>2. QED
        BY <2>1, <2>2, <4>1
    <3>4. QED
      BY <2>3, <2>4, <3>1, <3>2, <3>3 DEF QueueOk
  <2>7. Pushed(r, i)' = Pushed(r, i)
    <3>1. Pushed(r, i) = x(q[Len(q)])[batch_size]
      BY <1>1 DEF Pushed
    <3>2. Pushed(r, i)' = (IF p = << >> THEN x(q[1])[batch_size] ELSE x(p[Len(p)])[batch_size])
      BY <2>3, <2>4 DEF Pushed
    <3>3. p # << >> => p[Len(p)] = q[Len(q)]
      <4>1. ASSUME p # << >> PROVE Len(p) \in 1..Len(q) - 1 /\ Len(p) + 1 = Len(q)
        BY <2>2, <4>1
      <4>2. QED
        BY <2>2, <4>1
    <3>4. QED
      BY <2>2, <3>1, <3>2, <3>3
  <2>8. Loaded(r, i)' = Loaded(r, i) /\ Taken(r, i)' = Taken(r, i) /\ LoadOk(r, i)'
    <3>1. Loaded(r, i)' = Loaded(r, i)
      BY <1>2, <2>7 DEF Loaded
    <3>2. Taken(r, i)' = Taken(r, i)
      BY <1>2, <3>1 DEF Taken
    <3>3. QED
      BY <1>2, <1>8, <2>7, <3>1, <3>2 DEF RowOk, LoadOk
  <2>9. ReadOk(r, i)'
    BY <1>2, <1>8, <2>8, ReadSame DEF RowOk
  <2>10. QED
    BY <2>5, <2>6, <2>8, <2>9 DEF RowOk
<1>9. QED
  BY <1>2, <1>3, <1>4, <1>5, <1>6, <1>7, <1>8, OneRow

LEMMA CopyOrder == ASSUME OrderInv, LayerInv, NEW r \in Readers, Copy(r) PROVE OrderInv'
<1>1. /\ main[r].pc = "copy" /\ top' = [top EXCEPT ![r] = prefetch_[r][main[r].batch]]
      /\ \E next \in {"forward", "destroy"} : main' = [main EXCEPT ![r] = [pc |-> next, batch |-> 0]]
      /\ UNCHANGED << state, body_, body, full_, prefetch_, prefetch_full_, thread >>
  BY DEF Copy, Then, vars
<1>2. /\ \A s \in Readers \ {r} : main'[s] = main[s] /\ top'[s] = top[s]
      /\ main'[r].pc # "copy" /\ top'[r] = prefetch_[r][main[r].batch]
  BY <1>1 DEF LayerInv, LayerTypeOK, OrderInv, LoadType
<1>3. \A s \in Readers \ {r} : SameLayer(s)
  BY <1>1, <1>2 DEF SameLayer
<1>4. top'[r] \in Loads /\ top'[r] # << >>
  <2>1. top'[r] \in Loads
    BY <1>1, <1>2, RowTypes
  <2>2. 1 \in 1..batch_size
    BY PrefetchAssumption
  <2>3. DOMAIN top'[r] = 1..batch_size
    BY <2>1 DEF Loads
  <2>4. DOMAIN << >> = 1..0
    OBVIOUS
  <2>5. 1 \notin 1..0
    OBVIOUS
  <2>6. QED
    BY <2>1, <2>2, <2>3, <2>4, <2>5
<1>5. LoadType'
  BY <1>1, <1>2, <1>4 DEF OrderInv, LoadType
<1>6. ItemOk(r)'
  <2>1. main[r] # Out
    BY <1>1 DEF Out
  <2>2. state[r] \in {"use", "hold"}
    BY <2>1, OfOne DEF HandOk
  <2>3. QED
    BY <1>1, <2>2, RowTypes DEF ItemOk
<1>7. \A s \in Readers, i \in 1..solver_count : RowBefore(s, i)
  BY <1>1, SameRows
<1>8. ASSUME NEW i \in 1..solver_count, SameTurn(r, i), RowOk(r, i) PROVE RowOk(r, i)'
  <2>1. Popped(r, i)' = Popped(r, i)
    BY <1>1, <1>2, <1>4 DEF Popped, Seen
  <2>2. Pushed(r, i)' = Pushed(r, i)
    BY <1>1, <2>1 DEF Pushed
  <2>3. Loaded(r, i)' = Loaded(r, i)
    BY <1>1, <2>2 DEF Loaded
  <2>4. Taken(r, i)' = Taken(r, i)
    BY <1>1, <2>3 DEF Taken
  <2>5. CopyOk(r, i)'
    BY <1>2 DEF CopyOk
  <2>6. QueueOk(r, i)'
    BY <1>1, <1>8, <2>1 DEF RowOk, QueueOk
  <2>7. LoadOk(r, i)'
    BY <1>1, <1>8, <2>2, <2>3 DEF RowOk, LoadOk
  <2>8. ReadOk(r, i)'
    BY <1>1, <1>8, <2>4, ReadSame DEF RowOk
  <2>9. QED
    BY <2>5, <2>6, <2>7, <2>8 DEF RowOk
<1>9. QED
  BY <1>1, <1>2, <1>3, <1>5, <1>6, <1>7, <1>8, OneRow

\* The layer takes the datum in front and leaves the queue a record further
LEMMA PopDatumOrder ==
  ASSUME OrderInv, LayerInv, IInv, DealInv, ShareInv, NEW r \in Readers, PopDatum(r)
  PROVE  OrderInv'
<1>1. PICK q \in Seq(0..Records - 1) : q = full_[r] /\ q # << >>
  BY DEF PopDatum, Get, IInv, TypeOK
<1>2. /\ thread[r].pc = "pop" /\ state[r] = "use" /\ state' = [state EXCEPT ![r] = "hold"]
      /\ full_' = [full_ EXCEPT ![r] = Tail(q)]
      /\ thread' = [thread EXCEPT ![r].pc = "transform", ![r].datum = Head(q)]
      /\ UNCHANGED << body_, body, prefetch_, prefetch_full_, top, main >>
  BY <1>1 DEF PopDatum, Get
<1>3. /\ \A s \in Readers \ {r} : thread'[s] = thread[s] /\ full_'[s] = full_[s] /\ state'[s] = state[s]
      /\ thread'[r].pc = "transform" /\ thread'[r].datum = Head(q) /\ full_'[r] = Tail(q)
      /\ thread'[r].batch = thread[r].batch /\ thread'[r].item = thread[r].item /\ state'[r] = "hold"
  BY <1>2 DEF LayerInv, LayerTypeOK, Prefetcher, IInv, TypeOK
<1>4. \A s \in Readers \ {r} : SameLayer(s)
  BY <1>2, <1>3 DEF SameLayer
<1>5. LoadType'
  BY <1>2 DEF OrderInv, LoadType
<1>6. ItemOk(r)'
  BY <1>2, <1>3, RowTypes DEF ItemOk
<1>7. \A s \in Readers, i \in 1..solver_count : RowBefore(s, i)
  BY <1>2, <1>3, SameRows DEF Alive
<1>8. ASSUME NEW i \in 1..solver_count, PlaceOf(r, i), SameTurn(r, i), RowOk(r, i) PROVE RowOk(r, i)'
  <2>1. /\ Seen(r, i)' = Seen(r, i) /\ Popped(r, i)' = Popped(r, i) /\ Pushed(r, i)' = Pushed(r, i)
        /\ Loaded(r, i)' = Loaded(r, i)
    <3>1. Seen(r, i)' = Seen(r, i) /\ Popped(r, i)' = Popped(r, i)
      BY <1>2 DEF Seen, Popped
    <3>2. Pushed(r, i)' = Pushed(r, i)
      BY <1>2, <3>1 DEF Pushed
    <3>3. QED
      BY <1>2, <1>3, <3>1, <3>2 DEF Loaded
  <2>2. Taken(r, i) = Loaded(r, i) /\ Taken(r, i)' = Head(q)
    BY <1>2, <1>3 DEF Taken
  <2>3. CopyOk(r, i)' /\ QueueOk(r, i)'
    BY <1>2, <1>8, <2>1 DEF RowOk, CopyOk, QueueOk
  <2>4. Head(q) = q[1] /\ Follows(Loaded(r, i), q[1])
    BY <1>1, <1>8, <2>2 DEF RowOk, ReadOk
  <2>5. LoadOk(r, i)'
    BY <1>2, <1>3, <1>8, <2>1, <2>4 DEF RowOk, LoadOk
  <2>6. ReadOk(r, i)'
    <3> DEFINE p == Tail(q)
    <3>1. /\ Len(q) \in Nat \ {0} /\ Len(p) = Len(q) - 1
          /\ \A j \in 1..Len(q) - 1 : p[j] = q[j + 1]
      BY <1>1, TailIs
    <3>2. /\ p = << >> <=> Len(q) = 1
          /\ p # << >> => p[Len(p)] = q[Len(q)]
      BY <1>1, TailIs
    <3>3. \A j \in 1..Len(q) - 1 : q[j + 1] = (q[j] + solver_count) % Records
      <4>1. body_[r] \in Bodies
        BY <1>2 DEF IInv, KeptInv, Alive
      <4>2. InTurn(body[body_[r]], i, full_[r])
        BY <1>8, <4>1 DEF PlaceOf, DealInv, Dealing
      <4>3. QED
        BY <1>1, <4>2 DEF InTurn
    <3> HIDE DEF p
    <3>4. p # << >> => Follows(q[1], p[1])
      <4>1. ASSUME p # << >> PROVE 1 \in 1..Len(q) - 1 /\ 1 + 1 = 2
        BY <3>1, <3>2, <4>1
      <4>2. QED
        BY <3>1, <3>3, <4>1 DEF Follows
    <3>5. Given(r, i)' = Given(r, i)
      <4>1. Given(r, i) = q[Len(q)]
        BY <1>1 DEF Given
      <4>2. Given(r, i)' = IF p = << >> THEN q[1] ELSE p[Len(p)]
        BY <1>3, <2>2, <2>4 DEF Given, p
      <4>3. QED
        BY <3>2, <4>1, <4>2
    <3>6. full_'[r] # << >> => Follows(Taken(r, i)', full_'[r][1])
      BY <1>3, <2>2, <2>4, <3>4 DEF p
    <3>7. QED
      BY <1>2, <1>8, <3>5, <3>6 DEF RowOk, ReadOk
  <2>7. QED
    BY <2>3, <2>5, <2>6 DEF RowOk
<1>9. QED
  BY <1>2, <1>3, <1>4, <1>5, <1>6, <1>7, <1>8, OneRow

LEMMA TransformOrder ==
  ASSUME OrderInv, LayerInv, IInv, NEW r \in Readers, Transform(r)
  PROVE  OrderInv'
<1>1. PICK b \in Batches, n \in 1..batch_size, d \in 0..Records - 1 :
         b = thread[r].batch /\ n = thread[r].item /\ d = thread[r].datum
  BY RowTypes, OfOne DEF Transform, ItemOk, HandOk, Prefetcher
<1>2. PICK x \in Loads : x = prefetch_[r][b]
  BY RowTypes, <1>1
<1>3. /\ thread[r].pc = "transform" /\ state[r] = "hold" /\ state' = [state EXCEPT ![r] = "use"]
      /\ prefetch_' = [prefetch_ EXCEPT ![r][b][n] = d]
      /\ thread' = [thread EXCEPT ![r].pc = IF n = batch_size THEN "push" ELSE "pop",
                                  ![r].item = @ + 1, ![r].datum = 0]
      /\ UNCHANGED << body_, body, full_, prefetch_full_, top, main >>
  BY <1>1 DEF Transform, GiveBack
<1>4. /\ \A s \in Readers \ {r} : thread'[s] = thread[s] /\ state'[s] = state[s]
      /\ thread'[r].pc = (IF n = batch_size THEN "push" ELSE "pop")
      /\ thread'[r].batch = b /\ thread'[r].item = n + 1 /\ state'[r] = "use"
  BY <1>1, <1>3 DEF LayerInv, LayerTypeOK, Prefetcher, IInv, TypeOK
<1>5. /\ \A s \in Readers \ {r} : prefetch_'[s] = prefetch_[s]
      /\ \A c \in Batches \ {b} : prefetch_'[r][c] = prefetch_[r][c]
      /\ prefetch_'[r][b] = [x EXCEPT ![n] = d]
  BY <1>2, <1>3 DEF OrderInv, LoadType
<1>6. \A s \in Readers \ {r} : SameLayer(s)
  BY <1>3, <1>4, <1>5 DEF SameLayer
<1>7. LoadType'
  <2>1. [x EXCEPT ![n] = d] \in Loads
    BY DEF Loads
  <2>2. prefetch_' = [prefetch_ EXCEPT ![r] = [@ EXCEPT ![b] = [x EXCEPT ![n] = d]]]
    BY <1>2, <1>3 DEF OrderInv, LoadType
  <2>3. QED
    BY <1>3, <2>1, <2>2 DEF OrderInv, LoadType
<1>8. ItemOk(r)'
  <2>1. n + 1 # 0 /\ (n # batch_size => n + 1 \in 1..batch_size)
    BY PrefetchAssumption
  <2>2. QED
    BY <1>4, <2>1, NoBatchZero DEF ItemOk
<1>9. \A s \in Readers, i \in 1..solver_count : RowBefore(s, i)
  BY <1>3, <1>4, SameRows DEF Alive
<1>10. SameQueue(r)
  <2>1. OnePlaceEach(prefetch_free_[r], prefetch_full_[r], b, main[r].batch)
    BY <1>1, <1>3, OfOne DEF Round, Alive
  <2>2. main[r].pc = "copy" => main[r].batch \in Batches \ {b}
    BY <2>1, RowTypes, NoBatchZero DEF OnePlaceEach
  <2>3. PICK q \in Seq(Batches) : q = prefetch_full_[r]
    BY RowTypes
  <2>4. \A j \in DOMAIN q : q[j] \in Batches
    OBVIOUS
  <2>5. \A j \in DOMAIN q : q[j] # b
    BY <2>1, <2>3 DEF OnePlaceEach, Elements
  <2>6. QED
    BY <1>3, <1>5, <2>2, <2>3, <2>4, <2>5 DEF SameQueue
<1>11. ASSUME NEW i \in 1..solver_count, SameTurn(r, i), RowOk(r, i) PROVE RowOk(r, i)'
  <2>1. Pushed(r, i)' = Pushed(r, i) /\ CopyOk(r, i)' /\ QueueOk(r, i)'
    BY <1>10, <1>11, RowTypes, QueueSame DEF RowOk
  <2> DEFINE y == [x EXCEPT ![n] = d]
  <2>2. y[n] = d /\ \A j \in 1..n - 1 : y[j] = x[j]
    BY PrefetchAssumption DEF Loads
  <2> HIDE DEF y
  <2>3. prefetch_'[r][b] = y
    BY <1>5 DEF y
  <2>4. Loaded(r, i)' = d /\ Taken(r, i)' = d /\ Taken(r, i) = d
    <3>1. ~(n + 1 <= 1) /\ (n + 1) - 1 = n
      OBVIOUS
    <3>2. Loaded(r, i)' = d
      BY <1>4, <2>2, <2>3, <3>1 DEF Loaded
    <3>3. QED
      BY <1>1, <1>3, <1>4, <3>2 DEF Taken
  <2>5. /\ n > 1 => Follows(Pushed(r, i), x[1])
        /\ \A j \in 1..n - 2 : Follows(x[j], x[j + 1])
        /\ Follows(Loaded(r, i), d)
        /\ Loaded(r, i) = (IF n <= 1 THEN Pushed(r, i) ELSE x[n - 1])
    BY <1>1, <1>2, <1>3, <1>11 DEF RowOk, LoadOk, Loaded
  <2>6. Follows(Pushed(r, i), y[1])
    <3>1. CASE n = 1
      BY <2>2, <2>5, <3>1
    <3>2. CASE n # 1
      <4>1. n > 1 /\ 1 \in 1..n - 1
        BY <3>2
      <4>2. QED
        BY <2>2, <2>5, <4>1
    <3>3. QED
      BY <3>1, <3>2
  <2>7. ASSUME NEW j \in 1..n - 1 PROVE Follows(y[j], y[j + 1])
    <3>1. CASE j = n - 1
      <4>1. ~(n <= 1) /\ j + 1 = n
        BY <3>1
      <4>2. QED
        BY <2>2, <2>5, <3>1, <4>1
    <3>2. CASE j # n - 1
      <4>1. j \in 1..n - 2 /\ j + 1 \in 1..n - 1
        BY <3>2
      <4>2. QED
        BY <2>2, <2>5, <4>1
    <3>3. QED
      BY <3>1, <3>2
  <2>8. LoadOk(r, i)'
    <3>1. (n + 1) - 2 = n - 1
      OBVIOUS
    <3>2. thread'[r].pc # "transform"
      BY <1>4
    <3>3. QED
      BY <1>4, <2>1, <2>3, <2>6, <2>7, <3>1, <3>2 DEF LoadOk
  <2>9. ReadOk(r, i)'
    BY <1>3, <1>11, <2>4, ReadSame DEF RowOk
  <2>10. QED
    BY <2>1, <2>8, <2>9 DEF RowOk
<1>12. QED
  BY <1>3, <1>4, <1>6, <1>7, <1>8, <1>9, <1>11, OneRow

-----------------------------------------------------------------------------
(* What the body reads for a layer *)

LEMMA BodyRows ==
  ASSUME OrderInv, UNCHANGED << layerVars, state >>,
         \A q \in Readers, i \in 1..solver_count : state[q] \in Alive /\ PlaceOf(q, i)' => RowOk(q, i)'
  PROVE  OrderInv'
<1>1. UNCHANGED << prefetch_, prefetch_free_, prefetch_full_, thread, main, top >>
  BY DEF layerVars
<1>2. LoadType' /\ ItemsOk'
  BY <1>1 DEF OrderInv, LoadType, ItemsOk
<1>3. RowInv'
  BY DEF RowInv
<1>4. QED
  BY <1>2, <1>3 DEF OrderInv

LEMMA AllSame == ASSUME UNCHANGED layerVars PROVE \A q \in Readers : SameLayer(q)
BY DEF layerVars, SameLayer

LEMMA QuietRead ==
  ASSUME OrderInv, UNCHANGED << layerVars, state >>, NEW q \in Readers, NEW i \in 1..solver_count,
         state[q] \in Alive, PlaceOf(q, i), SameTurn(q, i), full_'[q] = full_[q]
  PROVE  RowOk(q, i)'
<1>1. RowOk(q, i)
  BY DEF OrderInv, RowInv
<1>2. SameLayer(q)
  BY AllSame
<1>3. CopyOk(q, i)' /\ QueueOk(q, i)' /\ LoadOk(q, i)' /\ Taken(q, i)' = Taken(q, i)
  BY <1>1, <1>2, LayerSame DEF RowOk
<1>4. QED
  BY <1>1, <1>3, ReadSame DEF RowOk

LEMMA RestOrder ==
  ASSUME OrderInv, IInv, DealInv, NEW b \in Bodies, Take(b) \/ Loop(b) \/ Interrupted(b),
         UNCHANGED layerVars
  PROVE  OrderInv'
<1>1. PICK t \in Thread : GoesOn(b, t)
  BY TakeGoesOn, LoopGoesOn, InterruptedGoesOn
<1>2. UNCHANGED << state, body_, full_ >>
  BY DEF Take, Loop, Interrupted
<1>3. /\ body'[b] = t /\ \A c \in Bodies \ {b} : body'[c] = body[c]
      /\ t.qps = body[b].qps
      /\ t.pc # "ended" => /\ body[b].pc # "ended" /\ t.at = body[b].at
                           /\ \A i \in 1..solver_count : Ago(t, i) = Ago(body[b], i)
  BY <1>1 DEF GoesOn, IInv, TypeOK
<1>4. ASSUME NEW q \in Readers, NEW i \in 1..solver_count, state[q] \in Alive, PlaceOf(q, i)'
      PROVE  RowOk(q, i)'
  <2>1. body_[q] \in Bodies
    BY <1>4 DEF IInv, KeptInv
  <2>2. PlaceOf(q, i)
    BY <1>2, <1>3, <1>4, <2>1 DEF PlaceOf
  <2>3. SameTurn(q, i)
    BY <1>2, <1>3, <2>1 DEF SameTurn
  <2>4. QED
    BY <1>2, <1>4, <2>2, <2>3, QuietRead
<1>5. QED
  BY <1>2, <1>4, BodyRows

\* A layer that is in the row now has the first record of its place ahead
LEMMA FirstRow ==
  ASSUME OrderInv, LayerInv, NEW r \in Readers, NEW i \in 1..solver_count, state[r] = "setup",
         UNCHANGED << layerVars, state >>, full_'[r] = << >>,
         body'[body_'[r]].at = (i - 1) % Records, Ago(body'[body_'[r]], i) = solver_count
  PROVE  RowOk(r, i)'
<1>1. UNCHANGED << prefetch_, prefetch_free_, prefetch_full_, thread, main, top >>
  BY DEF layerVars
<1>2. thread[r] = NoPrefetch /\ main[r] = Out /\ top[r] = << >> /\ prefetch_full_[r] = << >>
  BY OfOne DEF HandOk, OrderInv, ItemsOk
<1>3. CopyOk(r, i)'
  BY <1>1, <1>2 DEF CopyOk, Out
<1>4. QueueOk(r, i)'
  <2>1. Len(<< >>) = 0 /\ DOMAIN << >> = {} /\ 1..0 - 1 = {}
    OBVIOUS
  <2>2. QED
    BY <1>1, <1>2, <2>1 DEF QueueOk
<1>5. LoadOk(r, i)'
  BY <1>1, <1>2 DEF LoadOk, NoPrefetch
<1>6. Given(r, i)' = i - 1 - solver_count
  <2>1. Pushed(r, i)' = i - 1 - solver_count
    BY <1>1, <1>2 DEF Pushed, Popped, Seen, Out
  <2>2. Taken(r, i)' = i - 1 - solver_count
    BY <1>1, <1>2, <2>1 DEF Taken, Loaded, NoPrefetch
  <2>3. QED
    BY <2>2 DEF Given
<1>7. (i - 1 - solver_count) + solver_count = i - 1
  BY DataReaderAssumption
<1>8. ReadOk(r, i)'
  BY <1>6, <1>7 DEF ReadOk
<1>9. QED
  BY <1>3, <1>4, <1>5, <1>8 DEF RowOk

LEMMA AcceptOrder ==
  ASSUME OrderInv, LayerInv, IInv, DealInv, ShareInv, NEW b \in Bodies, Accept(b), UNCHANGED layerVars
  PROVE  OrderInv'
<1> DEFINE r == Head(body[b].new)
<1>1. PICK n \in Nat : n = Len(body[b].qps)
  BY ThreadIs
<1>2. /\ body[b].pc = "accept" /\ body[b].new # << >> /\ n < solver_count /\ body[b].turn = n
      /\ r \in Readers /\ r \in Elements(body[b].new)
      /\ body[b] \in Thread /\ body[b].qps \in Seq(Readers)
  BY <1>1, ThreadIs, ElementsOfTail DEF Accept, RoundOk
<1>3. UNCHANGED << state, body_, full_ >>
  BY DEF Accept
<1>4. /\ \A c \in Bodies \ {b} : body'[c] = body[c]
      /\ body'[b].qps = Append(body[b].qps, r) /\ body'[b].at = body[b].at
      /\ body'[b].pc = "take" /\ body'[b].turn = n + 1
  BY <1>2 DEF Accept, IInv, TypeOK, Thread
<1>5. Turn(body'[b]) = n + 1 /\ Turn(body[b]) = n + 1
  BY <1>2, <1>4 DEF Turn
<1>6. /\ DOMAIN Append(body[b].qps, r) = DOMAIN body[b].qps \union {n + 1}
      /\ Append(body[b].qps, r)[n + 1] = r
      /\ \A i \in DOMAIN body[b].qps : Append(body[b].qps, r)[i] = body[b].qps[i]
  BY <1>1, <1>2
<1>7. state[r] = "setup" /\ body_[r] = b /\ full_[r] = << >>
  BY <1>2 DEF ShareInv, NewAreSetUp, DealInv, NewEmpty
<1>8. body[b].at = n % Records
  <2>1. body[b].at = (n + 1 - 1) % Records
    BY <1>1, <1>2, <1>5 DEF ShareInv, FirstRound
  <2>2. n + 1 - 1 = n
    OBVIOUS
  <2>3. QED
    BY <2>1, <2>2
<1> HIDE DEF r
<1>9. ASSUME NEW q \in Readers, NEW i \in 1..solver_count, state[q] \in Alive, PlaceOf(q, i)'
      PROVE  RowOk(q, i)'
  <2>1. body_[q] \in Bodies
    BY <1>9 DEF IInv, KeptInv
  <2>2. CASE body_[q] # b
    BY <1>3, <1>4, <1>9, <2>1, <2>2, QuietRead DEF PlaceOf, SameTurn
  <2>3. CASE body_[q] = b /\ i \in DOMAIN body[b].qps
    <3>1. PlaceOf(q, i)
      BY <1>3, <1>4, <1>6, <1>9, <2>3 DEF PlaceOf
    <3>2. SameTurn(q, i)
      BY <1>2, <1>3, <1>4, <1>5, <2>3 DEF SameTurn, Ago
    <3>3. QED
      BY <1>3, <1>9, <3>1, <3>2, QuietRead
  <2>4. CASE body_[q] = b /\ i \notin DOMAIN body[b].qps
    <3>1. i = n + 1 /\ q = r
      BY <1>3, <1>4, <1>6, <1>9, <2>4 DEF PlaceOf
    <3>2. i - 1 = n /\ Ago(body'[b], i) = solver_count
      <4>1. ~(n + 1 < n + 1) /\ (n + 1) - (n + 1) + solver_count = solver_count /\ n + 1 - 1 = n
        BY DataReaderAssumption
      <4>2. QED
        BY <1>5, <3>1, <4>1 DEF Ago
    <3>3. QED
      BY <1>3, <1>4, <1>7, <1>8, <3>1, <3>2, FirstRow
  <2>5. QED
    BY <2>2, <2>3, <2>4
<1>10. QED
  BY <1>3, <1>9, BodyRows

LEMMA GivenType ==
  ASSUME OrderInv, LayerInv, TypeOK, NEW r \in Readers, NEW i \in 1..solver_count
  PROVE  Taken(r, i) \in Int /\ Given(r, i) \in Int
<1>1. batch_size \in 1..batch_size /\ solver_count \in Int
  BY PrefetchAssumption, DataReaderAssumption
<1>2. \A x \in Loads, j \in 1..batch_size : x[j] \in Int
  BY DEF Loads
<1>3. \A c \in Batches : prefetch_[r][c] \in Loads
  BY RowTypes
<1>4. Seen(r, i) \in Int
  BY <1>1, <1>2 DEF Seen, OrderInv, LoadType
<1>5. Popped(r, i) \in Int
  BY <1>1, <1>2, <1>3, <1>4, RowTypes DEF Popped
<1>6. Pushed(r, i) \in Int
  <2>1. PICK q \in Seq(Batches) : q = prefetch_full_[r]
    BY RowTypes
  <2>2. q # << >> => q[Len(q)] \in Batches
    BY LastIn
  <2>3. QED
    BY <1>1, <1>2, <1>3, <1>5, <2>1, <2>2 DEF Pushed
<1>7. Loaded(r, i) \in Int
  <2>1. thread[r].pc \in {"none", "loop", "pop", "transform", "push", "ended"} /\ thread[r].item \in Nat
    BY RowTypes DEF Prefetcher
  <2>2. thread[r].item \in 0..batch_size + 1
    BY <2>1, RowTypes, PrefetchAssumption DEF ItemOk
  <2>3. ~(thread[r].item <= 1) => thread[r].item - 1 \in 1..batch_size /\ thread[r].item # 0
    BY <2>2, PrefetchAssumption
  <2>4. thread[r].item # 0 => thread[r].batch \in Batches
    BY RowTypes DEF ItemOk
  <2>5. QED
    BY <1>2, <1>3, <1>6, <2>3, <2>4 DEF Loaded
<1>8. Taken(r, i) \in Int
  BY <1>7, RowTypes DEF Taken, Prefetcher
<1>9. Given(r, i) \in Int
  <2>1. PICK q \in Seq(0..Records - 1) : q = full_[r]
    BY DEF TypeOK
  <2>2. q # << >> => q[Len(q)] \in 0..Records - 1
    BY LastIn
  <2>3. QED
    BY <1>8, <2>1, <2>2 DEF Given
<1>10. QED
  BY <1>8, <1>9

\* The row of the reader that gets the record at the cursor
LEMMA FilledRow ==
  ASSUME NEW r, NEW k \in 1..solver_count, NEW q \in Seq(0..Records - 1), NEW at \in 0..Records - 1,
         full_[r] = q, full_'[r] = Append(q, at), ReadOk(r, k), Taken(r, k)' = Taken(r, k),
         body[body_[r]].at = at, body[body_[r]].pc # "ended", Turn(body[body_[r]]) = k,
         body'[body_'[r]].at = (at + 1) % Records, Turn(body'[body_'[r]]) = k + 1
  PROVE  ReadOk(r, k)'
<1> DEFINE p == Append(q, at)
<1>1. /\ Len(p) = Len(q) + 1 /\ p # << >> /\ p[Len(q) + 1] = at
      /\ q # << >> => 1 \in 1..Len(q)
      /\ \A j \in 1..Len(q) : p[j] = q[j]
  OBVIOUS
<1>2. q = << >> => p[1] = at
  OBVIOUS
<1> HIDE DEF p
<1>3. full_'[r] = p
  BY DEF p
<1>4. Ago(body[body_[r]], k) = solver_count /\ Ago(body'[body_'[r]], k) = 1
  BY DataReaderAssumption DEF Ago
<1>5. Given(r, k)' = at
  BY <1>1, <1>3 DEF Given
<1>6. q = << >> => Follows(Taken(r, k), at)
  BY <1>4 DEF ReadOk, Given, Follows
<1>7. Follows(Taken(r, k), p[1])
  BY <1>1, <1>2, <1>6 DEF ReadOk
<1>8. QED
  BY <1>3, <1>4, <1>5, <1>7 DEF ReadOk

\* The row of another one, for which the cursor is a record further
LEMMA PassedRow ==
  ASSUME NEW r, NEW k \in 1..solver_count, NEW i \in 1..solver_count, i # k, Given(r, i) \in Int,
         full_'[r] = full_[r], ReadOk(r, i), Taken(r, i)' = Taken(r, i),
         body[body_[r]].pc # "ended", Turn(body[body_[r]]) = k,
         body'[body_'[r]].at = (body[body_[r]].at + 1) % Records, Turn(body'[body_'[r]]) = k + 1
  PROVE  ReadOk(r, i)'
<1>1. Given(r, i)' = Given(r, i)
  BY DEF Given
<1>2. PICK g \in Int, ago \in Int : g = Given(r, i) /\ ago = Ago(body[body_[r]], i)
  BY DataReaderAssumption DEF Ago
<1>3. Ago(body'[body_'[r]], i) = ago + 1
  BY <1>2, DataReaderAssumption DEF Ago
<1>4. body[body_[r]].at = (g + ago) % Records
  BY <1>2 DEF ReadOk
<1>5. body'[body_'[r]].at = (g + (ago + 1)) % Records
  <2>1. (((g + ago) % Records) + 1) % Records = ((g + ago) + 1) % Records
    <3>1. PICK a \in Int : a = g + ago
      BY <1>2
    <3>2. QED
      BY <3>1, ModNext, DataReaderAssumption
  <2>2. (g + ago) + 1 = g + (ago + 1)
    BY <1>2
  <2>3. QED
    BY <1>4, <2>1, <2>2
<1>6. QED
  BY <1>1, <1>2, <1>3, <1>5 DEF ReadOk

LEMMA FillOrder ==
  ASSUME OrderInv, LayerInv, IInv, DealInv, NEW b \in Bodies, Fill(b), UNCHANGED layerVars
  PROVE  OrderInv'
<1>1. PICK k \in 1..solver_count, me \in Readers, t \in Thread :
        /\ k \in DOMAIN body[b].qps /\ me = body[b].qps[k] /\ me \in Known(b)
        /\ t.qps = body[b].qps /\ t.at = (body[b].at + 1) % Records
        /\ body'[b] = t /\ \A c \in Bodies \ {b} : body'[c] = body[c]
        /\ full_'[me] = Append(full_[me], body[b].at)
        /\ \A q \in Readers \ {me} : full_'[q] = full_[q]
        /\ Turn(body[b]) = k /\ Turn(t) = k + 1 /\ body[b].pc = "fill"
  BY FillIs
<1>2. UNCHANGED << state, body_ >>
  BY DEF Fill
<1>3. ASSUME NEW q \in Readers, NEW i \in 1..solver_count, state[q] \in Alive, PlaceOf(q, i)'
      PROVE  RowOk(q, i)'
  <2>1. body_[q] \in Bodies
    BY <1>3 DEF IInv, KeptInv
  <2>2. PlaceOf(q, i)
    BY <1>1, <1>2, <1>3, <2>1 DEF PlaceOf
  <2>3. CASE body_[q] # b
    <3>1. q # me
      BY <1>1, <2>1, <2>2, <2>3, InRow DEF PlaceOf, IInv, KnownApart
    <3>2. SameTurn(q, i)
      BY <1>1, <1>2, <2>1, <2>3 DEF SameTurn
    <3>3. QED
      BY <1>1, <1>2, <1>3, <2>2, <3>1, <3>2, QuietRead
  <2>4. CASE body_[q] = b
    <3>1. RowOk(q, i) /\ SameLayer(q)
      BY <1>3, <2>2, AllSame DEF OrderInv, RowInv
    <3>2. CopyOk(q, i)' /\ QueueOk(q, i)' /\ LoadOk(q, i)' /\ Taken(q, i)' = Taken(q, i) /\ ReadOk(q, i)
      BY <3>1, LayerSame DEF RowOk
    <3>3. CASE i = k
      <4>1. q = me
        BY <1>1, <2>2, <2>4, <3>3 DEF PlaceOf
      <4>2. PICK p \in Seq(0..Records - 1), at \in 0..Records - 1 : p = full_[q] /\ at = body[b].at
        BY ThreadIs DEF IInv, TypeOK
      <4>3. /\ full_[q] = p /\ full_'[q] = Append(p, at) /\ body[body_[q]].at = at
            /\ body[body_[q]].pc # "ended" /\ Turn(body[body_[q]]) = k
            /\ body'[body_'[q]].at = (at + 1) % Records /\ Turn(body'[body_'[q]]) = k + 1
        BY <1>1, <1>2, <2>4, <4>1, <4>2
      <4>4. ReadOk(q, k)'
        BY <3>2, <3>3, <4>3, FilledRow
      <4>5. QED
        BY <3>2, <3>3, <4>4 DEF RowOk
    <3>4. CASE i # k
      <4>1. q # me
        BY <1>1, <2>2, <2>4, <3>4 DEF PlaceOf, DealInv, KnownOnce, OneByOne
      <4>2. ReadOk(q, i)'
        BY <1>1, <1>2, <2>4, <3>2, <3>4, <4>1, PassedRow, GivenType DEF IInv
      <4>3. QED
        BY <3>2, <4>2 DEF RowOk
    <3>5. QED
      BY <3>3, <3>4
  <2>5. QED
    BY <2>3, <2>4
<1>4. QED
  BY <1>2, <1>3, BodyRows

-----------------------------------------------------------------------------
LEMMA InitOrder == LayerInit => OrderInv
<1>1. SUFFICES ASSUME LayerInit PROVE OrderInv
  OBVIOUS
<1>2. LoadType
  <2>1. [j \in Batches |-> Blank] \in [Batches -> Loads]
    BY DataReaderAssumption DEF Blank, Loads
  <2>2. QED
    BY <1>1, <2>1 DEF LayerInit, LoadType
<1>3. ItemsOk
  BY <1>1 DEF LayerInit, ItemsOk, NoPrefetch
<1>4. RowInv
  BY <1>1 DEF LayerInit, Init, RowInv, Alive
<1>5. QED
  BY <1>2, <1>3, <1>4 DEF OrderInv

LEMMA StutterOrder == ASSUME OrderInv, UNCHANGED allVars PROVE OrderInv'
<1>1. UNCHANGED << layerVars, state, body_, body, full_ >>
  BY DEF allVars, vars
<1>2. ASSUME NEW q \in Readers, NEW i \in 1..solver_count, state[q] \in Alive, PlaceOf(q, i)'
      PROVE  RowOk(q, i)'
  BY <1>1, <1>2, QuietRead DEF PlaceOf, SameTurn
<1>3. QED
  BY <1>1, <1>2, BodyRows

LEMMA NextOrder ==
  ASSUME OrderInv, LayerInv, IInv, DealInv, ShareInv, [LayerNext]_allVars
  PROVE  OrderInv'
<1>1. TypeOK
  BY DEF IInv
<1>2. ASSUME NEW r \in Readers, Construct(r) \/ LayerSetUp(r) \/ Forward(r) \/ Leave(r) PROVE OrderInv'
  BY <1>1, <1>2, ConstructOrder, LayerSetUpOrder, PopFullOrder, CopyOrder, StopThreadOrder,
     JoinThreadOrder, ReaderGoneOrder DEF Forward, Leave
<1>3. ASSUME NEW r \in Readers, ThreadStep(r) PROVE OrderInv'
  BY <1>3, StopsOrder, PopFreeOrder, PopDatumOrder, TransformOrder, PushFullOrder DEF ThreadStep
<1>4. ASSUME NEW b \in Bodies, BodyStep(b), UNCHANGED layerVars PROVE OrderInv'
  BY <1>4, AcceptOrder, FillOrder, RestOrder DEF BodyStep
<1>5. QED
  BY <1>2, <1>3, <1>4, StutterOrder DEF LayerNext

LEMMA OrderHolds == LayerSpec => []OrderInv
<1>1. LayerSpec => [](LayerInv /\ IInv /\ DealInv /\ ShareInv)
  BY LayerHolds, LayersUseReaders, InvHolds, DealHolds, ShareHolds, PTL
<1>2. OrderInv /\ (LayerInv /\ IInv /\ DealInv /\ ShareInv) /\ [LayerNext]_allVars => OrderInv'
  BY NextOrder
<1>3. QED
  BY <1>1, <1>2, InitOrder, PTL DEF LayerSpec

\* One layer's step from copying to what is next
Sees(r) ==
  main[r].pc = "copy" /\ main'[r].pc # "copy" =>
    /\ \A i \in 1..batch_size - 1 : Follows(top'[r][i], top'[r][i + 1])
    /\ IF top[r] = << >> THEN top'[r][1] = (Place(r) - 1) % Records
                         ELSE Follows(top[r][batch_size], top'[r][1])

\* Only the layer itself ends its copying
LEMMA CopyEnds ==
  ASSUME LayerInv, TypeOK, [LayerNext]_allVars, NEW r \in Readers,
         main[r].pc = "copy", main'[r].pc # "copy"
  PROVE  Copy(r)
<1>1. main' # main
  OBVIOUS
<1>2. ASSUME NEW s \in Readers, Construct(s) \/ Leave(s) \/ LayerSetUp(s) \/ PopFull(s) PROVE FALSE
  <2>1. main \in [Readers -> [ pc : {"out", "forward", "copy", "destroy", "stop"}, batch : 0..PREFETCH_COUNT ]]
    BY DEF LayerInv, LayerTypeOK
  <2>2. \A q \in Readers \ {s} : main'[q] = main[q]
    BY <1>2, <2>1 DEF Construct, Leave, StopThread, JoinThread, ReaderGone, layerVars, LayerSetUp, Then, PopFull
  <2>3. s = r
    BY <2>2
  <2>4. PopFull(r) => main'[r].pc = "copy"
    BY <2>1 DEF PopFull
  <2>5. state[r] \notin {"join", "erase", "setup"}
    BY OfOne DEF HandOk, Out
  <2>6. QED
    BY <1>1, <1>2, <2>3, <2>4, <2>5
       DEF Construct, Leave, StopThread, JoinThread, ReaderGone, layerVars, LayerSetUp, SetUp
<1>3. ~\E s \in Readers : ThreadStep(s)
  BY <1>1 DEF ThreadStep, MustStop, PopFree, PopDatum, Transform, PushFull, StopWaiting
<1>4. ~(\E b \in Bodies : BodyStep(b) /\ UNCHANGED layerVars) /\ ~UNCHANGED allVars
  BY <1>1 DEF layerVars, allVars
<1>5. PICK s \in Readers : Copy(s)
  BY <1>2, <1>3, <1>4 DEF LayerNext, Forward
<1>6. \A q \in Readers \ {s} : main'[q] = main[q]
  BY <1>5 DEF Copy, Then, LayerInv, LayerTypeOK
<1>7. QED
  BY <1>5, <1>6

\* A layer in use has one place in the row of its body
LEMMA PlaceIs ==
  ASSUME IInv, DealInv, ShareInv, NEW r \in Readers, state[r] \in {"use", "hold"}
  PROVE  PlaceOf(r, Place(r)) /\ Place(r) \in 1..solver_count
<1>1. body_[r] \in Bodies /\ r \in Known(body_[r])
  BY DEF IInv, KeptInv, ShareInv, KnownToItsBody, Alive
<1>2. r \notin Elements(body[body_[r]].new)
  BY <1>1 DEF ShareInv, NewAreSetUp
<1>3. \E i \in DOMAIN body[body_[r]].qps : body[body_[r]].qps[i] = r
  BY <1>1, <1>2 DEF Known, Elements
<1>4. PlaceOf(r, Place(r))
  BY <1>3 DEF Place, PlaceOf
<1>5. QED
  BY <1>1, <1>4, InRow DEF PlaceOf

\* "Data is distributed to solvers in a round-robin way to keep parallel
\* training deterministic" (data_reader.hpp:20): whatever the timing of the
\* solvers, their prefetch threads and the reading thread, and whatever layers
\* of the source come and go, each Forward shows the next records of the
\* solver's share, from the record of its place in the row on.
THEOREM SharesInOrder == LayerSpec => ForwardInOrder
<1>1. LayerSpec => [](OrderInv /\ LayerInv /\ IInv /\ DealInv /\ ShareInv)
  BY OrderHolds, LayerHolds, LayersUseReaders, InvHolds, DealHolds, ShareHolds, PTL
<1>2. ASSUME OrderInv, LayerInv, IInv, DealInv, ShareInv, [LayerNext]_allVars, NEW r \in Readers
      PROVE  Sees(r)
  <2>1. SUFFICES ASSUME main[r].pc = "copy", main'[r].pc # "copy"
                 PROVE  /\ \A i \in 1..batch_size - 1 : Follows(top'[r][i], top'[r][i + 1])
                        /\ IF top[r] = << >> THEN top'[r][1] = (Place(r) - 1) % Records
                                             ELSE Follows(top[r][batch_size], top'[r][1])
    BY DEF Sees
  <2>2. Copy(r)
    BY <1>2, <2>1, CopyEnds DEF IInv
  <2>3. top'[r] = prefetch_[r][main[r].batch]
    BY <1>2, <2>2 DEF Copy, OrderInv, LoadType
  <2>4. main[r] # Out
    BY <2>1 DEF Out
  <2>5. state[r] \in {"use", "hold"}
    BY <1>2, <2>4, OfOne DEF HandOk
  <2>6. PICK i \in 1..solver_count : i = Place(r) /\ PlaceOf(r, i)
    BY <1>2, <2>5, PlaceIs
  <2>7. CopyOk(r, i)
    BY <1>2, <2>5, <2>6 DEF OrderInv, RowInv, RowOk, Alive
  <2>8. Whole(top'[r]) /\ Follows(Seen(r, i), top'[r][1])
    BY <2>1, <2>3, <2>7 DEF CopyOk
  <2>9. (i - 1 - solver_count) + solver_count = i - 1
    BY DataReaderAssumption
  <2>10. QED
    BY <2>6, <2>8, <2>9 DEF Whole, Seen, Follows
<1>3. OrderInv /\ LayerInv /\ IInv /\ DealInv /\ ShareInv /\ [LayerNext]_allVars
      => [\A r \in Readers : Sees(r)]_allVars
  BY <1>2
<1>4. LayerSpec => [][\A r \in Readers : Sees(r)]_allVars
  BY <1>1, <1>3, PTL DEF LayerSpec
<1>5. [][\A r \in Readers : Sees(r)]_allVars => ForwardInOrder
  BY DEF Sees, ForwardInOrder
<1>6. QED
  BY <1>4, <1>5
=============================================================================
