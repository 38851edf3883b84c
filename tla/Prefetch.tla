------------------------------ MODULE Prefetch ------------------------------
(***************************************************************************)
(* The prefetching data layers (base_data_layer.cpp, data_layer.cpp of     *)
(* 9.caffe-ssd/src/caffe/layers) on top of DataReader: each layer owns a   *)
(* reader and a thread.  The thread pops an empty batch, fills it with     *)
(* the reader's data, one record at a time, and pushes it to               *)
(* prefetch_full_; the solver's Forward pops it there, copies it to the    *)
(* top blob and gives it back to prefetch_free_.  Destroying the layer     *)
(* interrupts the thread wherever it waits, joins it, and then destroys    *)
(* the reader.                                                             *)
(*                                                                         *)
(* The actions of DataReader's owner are taken over: each one is what the  *)
(* layer or its thread does to the reader at that point.                   *)
(***************************************************************************)
EXTENDS DataReader

CONSTANTS
  PREFETCH_COUNT,   \* the batches of a layer
  batch_size

ASSUME PrefetchAssumption == PREFETCH_COUNT \in Nat \ {0} /\ batch_size \in Nat \ {0}

VARIABLES
  prefetch_,        \* prefetch_[r][i]: the records in batch i of layer r
  prefetch_free_,   \* prefetch_free_[r]: the batches to be filled
  prefetch_full_,   \* prefetch_full_[r]: the batches to be used
  thread,           \* thread[r]: the prefetch thread
  main,             \* main[r]: what the solver is doing with the layer
  top               \* top[r]: the records in the top blob, << >> before the first Forward

layerVars == << prefetch_, prefetch_free_, prefetch_full_, thread, main, top >>
allVars == << vars, layerVars >>

Batches == 1..PREFETCH_COUNT
Blank == [i \in 1..batch_size |-> 0]

\* batch: the one in hand, or 0; item: item_id of load_batch; stop: the
\* interruption
NoPrefetch == [ pc |-> "none", batch |-> 0, item |-> 0, datum |-> 0, stop |-> FALSE ]
Out == [ pc |-> "out", batch |-> 0 ]

LayerInit ==
  /\ Init
  /\ prefetch_ = [r \in Readers |-> [i \in Batches |-> Blank]]
  /\ prefetch_free_ = [r \in Readers |-> << >>]
  /\ prefetch_full_ = [r \in Readers |-> << >>]
  /\ thread = [r \in Readers |-> NoPrefetch]
  /\ main = [r \in Readers |-> Out]
  /\ top = [r \in Readers |-> << >>]

-----------------------------------------------------------------------------
(* The solver's thread *)

\* The constructors: all batches are free, the reader is made
Construct(r) ==
  /\ main[r] = Out /\ New(r)
  /\ prefetch_free_' = [prefetch_free_ EXCEPT ![r] = [i \in Batches |-> i]]
  /\ prefetch_full_' = [prefetch_full_ EXCEPT ![r] = << >>]
  /\ UNCHANGED << prefetch_, thread, main, top >>

\* What the solver does next with the layer: another Forward, or its end
Then(r) == \E next \in {"forward", "destroy"} : main' = [main EXCEPT ![r] = [pc |-> next, batch |-> 0]]

\* LayerSetUp: the first datum gives the shapes, then the thread is started
LayerSetUp(r) ==
  /\ SetUp(r)
  /\ Then(r)
  /\ thread' = [thread EXCEPT ![r].pc = "loop"]
  /\ UNCHANGED << prefetch_, prefetch_free_, prefetch_full_, top >>

\* Forward is called: it waits for a batch ...
PopFull(r) ==
  /\ main[r].pc = "forward" /\ prefetch_full_[r] # << >>
  /\ main' = [main EXCEPT ![r] = [pc |-> "copy", batch |-> Head(prefetch_full_[r])]]
  /\ prefetch_full_' = [prefetch_full_ EXCEPT ![r] = Tail(@)]
  /\ UNCHANGED << vars, prefetch_, prefetch_free_, thread, top >>

\* ... copies it and gives it back
Copy(r) ==
  /\ main[r].pc = "copy"
  /\ top' = [top EXCEPT ![r] = prefetch_[r][main[r].batch]]
  /\ prefetch_free_' = [prefetch_free_ EXCEPT ![r] = Append(@, main[r].batch)]
  /\ Then(r)
  /\ UNCHANGED << vars, prefetch_, prefetch_full_, thread >>

\* The destructor of DataLayer: StopInternalThread ...
StopThread(r) ==
  /\ main[r].pc = "destroy"
  /\ main' = [main EXCEPT ![r].pc = "stop"]
  /\ thread' = [thread EXCEPT ![r].stop = TRUE]
  /\ UNCHANGED << vars, prefetch_, prefetch_free_, prefetch_full_, top >>

\* ... waits for the thread; then the members go, the reader among them, its
\* body first
JoinThread(r) ==
  /\ main[r].pc = "stop" /\ thread[r].pc = "ended"
  /\ Reset(r)
  /\ main' = [main EXCEPT ![r] = Out]
  /\ thread' = [thread EXCEPT ![r] = NoPrefetch]
  /\ prefetch_' = [prefetch_ EXCEPT ![r] = [i \in Batches |-> Blank]]
  /\ prefetch_free_' = [prefetch_free_ EXCEPT ![r] = << >>]
  /\ prefetch_full_' = [prefetch_full_ EXCEPT ![r] = << >>]
  /\ top' = [top EXCEPT ![r] = << >>]

ReaderGone(r) == Destroy(r) /\ UNCHANGED layerVars

-----------------------------------------------------------------------------
(* The prefetch thread: InternalThreadEntry and load_batch *)

\* must_stop, with the wait in the pop after it, which an interruption ends
MustStop(r) ==
  /\ thread[r].pc = "loop" /\ thread[r].stop
  /\ thread' = [thread EXCEPT ![r].pc = "ended"]
  /\ UNCHANGED << vars, prefetch_, prefetch_free_, prefetch_full_, main, top >>

\* Slip: the batch in front is taken and stays in the queue
PeekFree(r) ==
  /\ thread[r].pc = "loop" /\ ~thread[r].stop /\ prefetch_free_[r] # << >>
  /\ thread' = [thread EXCEPT ![r].pc = "pop", ![r].batch = Head(prefetch_free_[r]), ![r].item = 1]
  /\ UNCHANGED << vars, prefetch_, prefetch_free_, prefetch_full_, main, top >>

\* An interruption between must_stop and the pop is as good as one after both
PopFree(r) ==
  /\ thread[r].pc = "loop" /\ ~thread[r].stop /\ prefetch_free_[r] # << >>
  /\ thread' = [thread EXCEPT ![r].pc = "pop", ![r].batch = Head(prefetch_free_[r]), ![r].item = 1]
  /\ prefetch_free_' = [prefetch_free_ EXCEPT ![r] = Tail(@)]
  /\ UNCHANGED << vars, prefetch_, prefetch_full_, main, top >>

\* The peek that shapes the batch waits for what the first pop then takes:
\* nobody else pops from the reader
PopDatum(r) ==
  /\ thread[r].pc = "pop" /\ Get(r)
  /\ thread' = [thread EXCEPT ![r].pc = "transform", ![r].datum = Head(full_[r])]
  /\ UNCHANGED << prefetch_, prefetch_free_, prefetch_full_, main, top >>

\* Slip: the datum is kept
TransformKeep(r) ==
  /\ thread[r].pc = "transform" /\ GiveNotBack(r)
  /\ prefetch_' = [prefetch_ EXCEPT ![r][thread[r].batch][thread[r].item] = thread[r].datum]
  /\ thread' = [thread EXCEPT ![r].pc = IF thread[r].item = batch_size THEN "push" ELSE "pop",
                              ![r].item = @ + 1, ![r].datum = 0]
  /\ UNCHANGED << prefetch_free_, prefetch_full_, main, top >>

\* Transform and the label, then the datum goes back
Transform(r) ==
  /\ thread[r].pc = "transform" /\ GiveBack(r)
  /\ prefetch_' = [prefetch_ EXCEPT ![r][thread[r].batch][thread[r].item] = thread[r].datum]
  /\ thread' = [thread EXCEPT ![r].pc = IF thread[r].item = batch_size THEN "push" ELSE "pop",
                              ![r].item = @ + 1, ![r].datum = 0]
  /\ UNCHANGED << prefetch_free_, prefetch_full_, main, top >>

\* Slip: a batch that is already there is overtaken
PushFront(r) ==
  /\ thread[r].pc = "push"
  /\ prefetch_full_' = [prefetch_full_ EXCEPT ![r] = << thread[r].batch >> \o @]
  /\ thread' = [thread EXCEPT ![r] = [NoPrefetch EXCEPT !.pc = "loop", !.stop = thread[r].stop]]
  /\ UNCHANGED << vars, prefetch_, prefetch_free_, main, top >>

PushFull(r) ==
  /\ thread[r].pc = "push"
  /\ prefetch_full_' = [prefetch_full_ EXCEPT ![r] = Append(@, thread[r].batch)]
  /\ thread' = [thread EXCEPT ![r] = [NoPrefetch EXCEPT !.pc = "loop", !.stop = thread[r].stop]]
  /\ UNCHANGED << vars, prefetch_, prefetch_free_, main, top >>

\* Slip: only the peek at the start of a batch can be interrupted
StopAtPeek(r) ==
  /\ thread[r].stop /\ thread[r].pc = "pop" /\ thread[r].item = 1 /\ full_[r] = << >>
  /\ thread' = [thread EXCEPT ![r].pc = "ended"]
  /\ UNCHANGED << vars, prefetch_, prefetch_free_, prefetch_full_, main, top >>

\* A pop or peek that waits for a datum is interrupted; what was loaded so far
\* goes with the layer
StopWaiting(r) ==
  /\ thread[r].stop /\ thread[r].pc = "pop" /\ full_[r] = << >>
  /\ thread' = [thread EXCEPT ![r].pc = "ended"]
  /\ UNCHANGED << vars, prefetch_, prefetch_free_, prefetch_full_, main, top >>

ThreadStep(r) ==
  \/ MustStop(r) \/ PopFree(r) \/ PopDatum(r)
  \/ Transform(r) \/ PushFull(r) \/ StopWaiting(r)

Forward(r) == PopFull(r) \/ Copy(r)
Leave(r) == StopThread(r) \/ JoinThread(r) \/ ReaderGone(r)

LayerNext ==
  \/ \E r \in Readers :
        Construct(r) \/ LayerSetUp(r) \/ Forward(r) \/ Leave(r) \/ ThreadStep(r)
  \/ \E b \in Bodies : BodyStep(b) /\ UNCHANGED layerVars

LayerSpec == LayerInit /\ [][LayerNext]_allVars

\* Every thread that can take a step is run; nobody has to make a layer
LayerFairness ==
  /\ \A r \in Readers : WF_allVars(LayerSetUp(r) \/ Forward(r) \/ Leave(r)) /\ WF_allVars(ThreadStep(r))
  /\ \A b \in Bodies : WF_allVars(BodyStep(b) /\ UNCHANGED layerVars)

FairLayerSpec == LayerSpec /\ LayerFairness

-----------------------------------------------------------------------------
Prefetcher ==
  [ pc : {"none", "loop", "pop", "transform", "push", "ended"}, batch : 0..PREFETCH_COUNT,
    item : Nat, datum : 0..Records - 1, stop : BOOLEAN ]

LayerTypeOK ==
  /\ prefetch_free_ \in [Readers -> Seq(Batches)]
  /\ prefetch_full_ \in [Readers -> Seq(Batches)]
  /\ thread \in [Readers -> Prefetcher]
  /\ main \in [Readers -> [ pc : {"out", "forward", "copy", "destroy", "stop"}, batch : 0..PREFETCH_COUNT ]]

Unique(q) == \A i, j \in DOMAIN q : q[i] = q[j] => i = j

\* Every batch is in one of two queues or one of two hands, and nowhere twice
OnePlaceEach(free, full, x, y) ==
  /\ Batches \subseteq Elements(free) \union Elements(full) \union {x, y}
  /\ Unique(free) /\ Unique(full) /\ Elements(free) \intersect Elements(full) = {}
  /\ {x, y} \intersect (Elements(free) \union Elements(full)) = {}
  /\ x # 0 => x # y

\* While a layer lives, every batch is in exactly one place: a queue, the
\* hands of the thread that fills it, or those of the Forward that copies it
\* (base_data_layer.cpp:84-94 and :109-124).  So nobody copies a batch that is
\* being filled, and none is lost.
BatchesGoRound ==
  \A r \in Readers : state[r] \in Alive =>
     OnePlaceEach(prefetch_free_[r], prefetch_full_[r], thread[r].batch, main[r].batch)

\* When thread and solver have a batch in hand, and when there is neither
HandsOk ==
  \A r \in Readers :
     /\ thread[r].pc \in {"none", "loop"} => thread[r].batch = 0
     /\ thread[r].pc \in {"pop", "transform", "push"} => thread[r].batch # 0
     /\ main[r].batch # 0 <=> main[r].pc = "copy"
     /\ state[r] \notin {"use", "hold"} => thread[r] = NoPrefetch /\ main[r] = Out

LayerInv == LayerTypeOK /\ HandsOk /\ BatchesGoRound

\* Where in the row the body serves reader r
Place(r) == CHOOSE i \in DOMAIN body[body_[r]].qps : body[body_[r]].qps[i] = r

Follows(x, y) == y = (x + solver_count) % Records

\* "Data is distributed to solvers in a round-robin way to keep parallel
\* training deterministic" (data_reader.hpp:20): from one Forward to the next a
\* solver sees exactly the next records of its share, whatever the timing of
\* its thread, the reading thread and the other solvers; its first record is
\* that of its place in the row.
ForwardInOrder ==
  [][\A r \in Readers : main[r].pc = "copy" /\ main'[r].pc # "copy" =>
       /\ \A i \in 1..batch_size - 1 : Follows(top'[r][i], top'[r][i + 1])
       /\ IF top[r] = << >> THEN top'[r][1] = (Place(r) - 1) % Records
                            ELSE Follows(top[r][batch_size], top'[r][1])]_allVars

\* The inductive invariant behind ForwardInOrder.  A layer whose place is i has
\* its records on the way from the cursor of the body to the top blob: the
\* last one that went past each stage, counted back from the first record when
\* there was none.
Seen(r, i) == IF top[r] = << >> THEN i - 1 - solver_count ELSE top[r][batch_size]
Popped(r, i) ==
  IF main[r].pc = "copy" THEN prefetch_[r][main[r].batch][batch_size] ELSE Seen(r, i)
Pushed(r, i) ==
  LET q == prefetch_full_[r]
  IN  IF q = << >> THEN Popped(r, i) ELSE prefetch_[r][q[Len(q)]][batch_size]
Loaded(r, i) ==
  IF thread[r].item <= 1 THEN Pushed(r, i) ELSE prefetch_[r][thread[r].batch][thread[r].item - 1]
Taken(r, i) == IF thread[r].pc = "transform" THEN thread[r].datum ELSE Loaded(r, i)
Given(r, i) == IF full_[r] = << >> THEN Taken(r, i) ELSE full_[r][Len(full_[r])]

\* A batch with the next records of its layer
Whole(x) == \A j \in 1..batch_size - 1 : Follows(x[j], x[j + 1])

CopyOk(r, i) ==
  main[r].pc = "copy" =>
     LET x == prefetch_[r][main[r].batch] IN Whole(x) /\ Follows(Seen(r, i), x[1])

QueueOk(r, i) ==
  LET q == prefetch_full_[r]
      x(j) == prefetch_[r][q[j]]
  IN  /\ \A j \in DOMAIN q : Whole(x(j))
      /\ q # << >> => Follows(Popped(r, i), x(1)[1])
      /\ \A j \in 1..Len(q) - 1 : Follows(x(j)[batch_size], x(j + 1)[1])

LoadOk(r, i) ==
  LET t == thread[r]
      x == prefetch_[r][t.batch]
  IN  /\ t.item > 1 => Follows(Pushed(r, i), x[1])
      /\ \A j \in 1..t.item - 2 : Follows(x[j], x[j + 1])
      /\ t.pc = "transform" => Follows(Loaded(r, i), t.datum)

ReadOk(r, i) ==
  /\ full_[r] # << >> => Follows(Taken(r, i), full_[r][1])
  /\ body[body_[r]].pc # "ended" =>
       body[body_[r]].at = (Given(r, i) + Ago(body[body_[r]], i)) % Records

PlaceOf(r, i) == i \in DOMAIN body[body_[r]].qps /\ body[body_[r]].qps[i] = r

RowOk(r, i) == CopyOk(r, i) /\ QueueOk(r, i) /\ LoadOk(r, i) /\ ReadOk(r, i)

RowInv ==
  \A r \in Readers, i \in 1..solver_count :
     state[r] \in Alive /\ PlaceOf(r, i) => RowOk(r, i)

\* What there is in a layer that has just been made, and how far a batch is
ItemsOk ==
  \A r \in Readers :
     /\ thread[r].pc \in {"none", "loop"} => thread[r].item = 0
     /\ thread[r].pc \in {"pop", "transform"} => thread[r].item \in 1..batch_size
     /\ thread[r].pc = "push" => thread[r].item = batch_size + 1
     /\ thread[r].pc = "ended" => thread[r].item \in 0..batch_size
     /\ thread[r].item # 0 => thread[r].batch # 0
     /\ state[r] \notin {"use", "hold"} => top[r] = << >> /\ prefetch_full_[r] = << >>

Loads == [1..batch_size -> 0..Records - 1]
LoadType ==
  /\ prefetch_ \in [Readers -> [Batches -> Loads]]
  /\ top \in [Readers -> Loads \union {<< >>}]

OrderInv == LoadType /\ ItemsOk /\ RowInv

\* The destructor of a layer comes back, wherever its thread waits
\* (data_layer.cpp:20-23, internal_thread.cpp:54-64).
LayerDestroyed == \A r \in Readers : main[r].pc = "destroy" ~> state[r] = "none"

\* As long as all solvers are at it, a Forward gets its batch: the thread, the
\* reading thread and the solvers do not end up waiting on each other.  (A
\* solver that leaves may stall the others: the body goes on serving the queue
\* pair it left, data_reader.cpp:105-108.)
AllAtIt == Cardinality({r \in Readers : main[r].pc \in {"forward", "copy"}}) = solver_count
ForwardReturns == \A r \in Readers : main[r].pc = "forward" ~> (main[r].pc # "forward" \/ ~AllAtIt)
=============================================================================
