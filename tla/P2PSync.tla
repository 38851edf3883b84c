------------------------------ MODULE P2PSync -------------------------------
(***************************************************************************)
(* Training on several GPUs: P2PSync (9.caffe-ssd/src/caffe/parallel.cpp)  *)
(* with the training loop of Solver (solver.cpp) that calls it back, and   *)
(* the signals and snapshots of the root solver.                           *)
(*                                                                         *)
(* The solvers form a tree.  In every iteration the weights go down it and *)
(* the gradients come up: a solver waits on its queue for its parent,      *)
(* copies the weights to its children and tells them, computes, waits for  *)
(* each child, adds what it left, and leaves the sum to its parent.  Each  *)
(* solver is a thread; a queue is a BlockingQueue one thread pops.         *)
(*                                                                         *)
(* Weights are the number of proper updates they went through, a gradient  *)
(* is who computed it at which weights, and diff_ counts gradients.        *)
(***************************************************************************)
EXTENDS Integers, Sequences, FiniteSets

CONSTANTS
  Solvers,               \* by their devices: those of any tree
  Trees,                 \* the trees Prepare may build: see DevicePairs
  max_iter, iter_size, test_interval, test_iter, snapshot_interval,
  test_initialization, snapshot_after_train,    \* SolverParameter
  SIGHUP_action_, SIGINT_action_, MaxSignals,   \* see SignalHandler
  MaxCrashes                                    \* bound: ends of the process

ASSUME P2PSyncAssumption ==
  /\ max_iter \in Nat /\ iter_size \in Nat \ {0} /\ test_iter \in Nat \ {0}
  /\ test_interval \in Nat /\ snapshot_interval \in Nat /\ MaxCrashes \in Nat
  /\ test_initialization \in BOOLEAN /\ snapshot_after_train \in BOOLEAN
  /\ {SIGHUP_action_, SIGINT_action_} \subseteq {"NONE", "STOP", "SNAPSHOT"} /\ MaxSignals \in Nat

VARIABLES
  tree,             \* syncs: the solvers, root first; children_: of each, a sequence
  pc,               \* pc[n]: where the thread of solver n is
  at,               \* at[n]: its loop index
  iter_,            \* iter_[n]
  initial_iter_,    \* the iteration the process started at
  data_,            \* data_[n]: its weights
  diff_,            \* diff_[n]: its gradients
  parent_grads_,    \* parent_grads_[n]: those it left on its parent
  queue_,           \* queue_[n]
  hand,             \* hand[n]: the child whose gradients n is adding
  interrupted,      \* interrupted[n]: StopInternalThread was called
  requested_early_exit_,
  writing,          \* where the root's Snapshot is, or "no"
  model, state,     \* the files of each iteration: the weights they hold
  crashes,
  got, since, signals, check, result, request   \* see SignalHandler

sync == << at, diff_, parent_grads_, queue_, hand >>
files == << model, state >>
signal == << got, since, signals, check, result, request >>
vars == << tree, pc, at, iter_, initial_iter_, data_, diff_, parent_grads_, queue_, hand,
           interrupted, requested_early_exit_, writing, model, state, crashes,
           got, since, signals, check, result, request >>

SH == INSTANCE SignalHandler

Bad == -1        \* weights after an update with other gradients
NoFile == -2
Torn == -3
Iterations == 0..max_iter
Weights == Iterations \union {Bad}

root == tree.syncs[1]
Members == {tree.syncs[i] : i \in DOMAIN tree.syncs}
Children(n) == tree.children_[n]
parent_(n) == CHOOSE p \in Members : \E i \in DOMAIN Children(p) : Children(p)[i] = n

\* Gradients: how many by which solver at which weights
Zero == [g \in Solvers \X Weights |-> 0]
Plus(a, b) == [g \in Solvers \X Weights |-> a[g] + b[g]]
One(n) == [g \in Solvers \X Weights |-> IF g = << n, data_[n] >> THEN 1 ELSE 0]
Proper == [g \in Solvers \X Weights |-> IF g[1] \in Members /\ g[2] = data_[root] THEN iter_size ELSE 0]

All(x) == [n \in Solvers |-> x]
AtTop == [n \in Solvers |-> IF n \in Members THEN "top" ELSE "ended"]

\* Slip: a resumed process counts from 0 again
FirstIterZero(i) == All(0)

\* A worker counts its iterations from 0
FirstIter(i) == [n \in Solvers |-> IF n = root THEN i ELSE 0]

Init ==
  /\ tree \in Trees
  /\ pc = AtTop /\ at = All(0)
  /\ initial_iter_ = 0 /\ iter_ = All(0) /\ data_ = All(0)
  /\ diff_ = All(Zero) /\ parent_grads_ = All(Zero)
  /\ queue_ = All(<< >>) /\ hand = All(root)
  /\ interrupted = All(FALSE) /\ requested_early_exit_ = FALSE
  /\ writing = "no" /\ model = [i \in Iterations |-> NoFile] /\ state = model
  /\ crashes = 0
  /\ SH!Init

Goto(n, l) == pc' = [pc EXCEPT ![n] = l]

\* The root is in CheckForSignals or in Snapshot
Busy(n) == n = root /\ (check # "idle" \/ writing # "no")

control == << tree, initial_iter_, interrupted, requested_early_exit_, crashes >>
saving == << writing, model, state >>

-----------------------------------------------------------------------------
(* Solver::Step *)

stop_iter(n) == IF n = root THEN max_iter ELSE max_iter - initial_iter_

TestDue ==
  /\ test_interval > 0 /\ iter_[root] % test_interval = 0
  /\ iter_[root] > 0 \/ test_initialization

Begin(n) ==
  /\ pc[n] = "top" /\ ~Busy(n) /\ iter_[n] < stop_iter(n)
  /\ diff_' = [diff_ EXCEPT ![n] = Zero]
  /\ at' = [at EXCEPT ![n] = 0]
  /\ Goto(n, IF n = root /\ TestDue THEN "test" ELSE "start")
  /\ UNCHANGED << control, iter_, data_, parent_grads_, queue_, hand, saving, signal >>

Return(n) ==
  /\ pc[n] = "top" /\ ~Busy(n) /\ iter_[n] >= stop_iter(n)
  /\ Goto(n, IF n = root THEN "solved" ELSE "ended")
  /\ UNCHANGED << control, iter_, data_, sync, saving, signal >>

\* on_start: the root does not wait
Down(k) == IF k = 0 THEN "compute" ELSE "copy"

\* Slip: a worker goes on without the word of its parent
OnStartAhead(n) ==
  /\ pc[n] = "start"
  /\ at' = [at EXCEPT ![n] = Len(Children(n))]
  /\ Goto(n, Down(Len(Children(n))))
  /\ UNCHANGED << control, iter_, data_, diff_, parent_grads_, queue_, hand, saving, signal >>

OnStart(n) ==
  /\ pc[n] = "start"
  /\ \/ n = root /\ UNCHANGED queue_
     \/ n # root /\ queue_[n] # << >> /\ queue_' = [queue_ EXCEPT ![n] = Tail(@)]
  /\ at' = [at EXCEPT ![n] = Len(Children(n))]
  /\ Goto(n, Down(Len(Children(n))))
  /\ UNCHANGED << control, iter_, data_, diff_, parent_grads_, hand, saving, signal >>

Copy(n) ==
  /\ pc[n] = "copy"
  /\ data_' = [data_ EXCEPT ![Children(n)[at[n]]] = data_[n]]
  /\ Goto(n, "tell")
  /\ UNCHANGED << control, iter_, sync, saving, signal >>

Tell(n) ==
  /\ pc[n] = "tell"
  /\ queue_' = [queue_ EXCEPT ![Children(n)[at[n]]] = Append(@, n)]
  /\ at' = [at EXCEPT ![n] = @ - 1]
  /\ Goto(n, Down(at[n] - 1))
  /\ UNCHANGED << control, iter_, data_, diff_, parent_grads_, hand, saving, signal >>

\* Slip: the last child is not waited for
UpShort(n, k) ==
  IF k + 1 < Len(Children(n)) THEN "gather" ELSE IF n = root THEN "apply" ELSE "leave"

Up(n, k) == IF k < Len(Children(n)) THEN "gather" ELSE IF n = root THEN "apply" ELSE "leave"

\* iter_size times, what it computes is added to diff_
ForwardBackward(n) ==
  /\ pc[n] = "compute"
  /\ diff_' = [diff_ EXCEPT ![n] = Plus(@, One(n))]
  /\ IF at[n] + 1 < iter_size
     THEN at' = [at EXCEPT ![n] = @ + 1] /\ UNCHANGED pc
     ELSE at' = [at EXCEPT ![n] = 0] /\ Goto(n, Up(n, 0))
  /\ UNCHANGED << control, iter_, data_, parent_grads_, queue_, hand, saving, signal >>

\* on_gradients_ready
Gather(n) ==
  /\ pc[n] = "gather" /\ queue_[n] # << >>
  /\ hand' = [hand EXCEPT ![n] = Head(queue_[n])]
  /\ queue_' = [queue_ EXCEPT ![n] = Tail(@)]
  /\ Goto(n, "add")
  /\ UNCHANGED << control, at, iter_, data_, diff_, parent_grads_, saving, signal >>

Add(n) ==
  /\ pc[n] = "add"
  /\ diff_' = [diff_ EXCEPT ![n] = Plus(@, parent_grads_[hand[n]])]
  /\ at' = [at EXCEPT ![n] = @ + 1]
  /\ Goto(n, Up(n, at[n] + 1))
  /\ UNCHANGED << control, iter_, data_, parent_grads_, queue_, hand, saving, signal >>

Leave(n) ==
  /\ pc[n] = "leave"
  /\ parent_grads_' = [parent_grads_ EXCEPT ![n] = diff_[n]]
  /\ Goto(n, "report")
  /\ UNCHANGED << control, at, iter_, data_, diff_, queue_, hand, saving, signal >>

Report(n) ==
  /\ pc[n] = "report"
  /\ queue_' = [queue_ EXCEPT ![parent_(n)] = Append(@, n)]
  /\ Goto(n, "apply")
  /\ UNCHANGED << control, at, iter_, data_, diff_, parent_grads_, hand, saving, signal >>

\* ApplyUpdate, of a WorkerSolver nothing, and ++iter_.  The root divides by
\* the number of solvers, so that the proper sum gives the mean.
Apply(n) ==
  /\ pc[n] = "apply"
  /\ data_' = IF n # root THEN data_
              ELSE [data_ EXCEPT ![n] = IF diff_[n] = Proper /\ @ # Bad THEN @ + 1 ELSE Bad]
  /\ iter_' = [iter_ EXCEPT ![n] = @ + 1]
  /\ Goto(n, IF n = root THEN "ask" ELSE "top")
  /\ UNCHANGED << control, sync, saving, signal >>

SnapshotDue == snapshot_interval > 0 /\ iter_[root] % snapshot_interval = 0

\* Slip: the loop is not left
DecideGoesOn ==
  /\ pc[root] = "ask" /\ ~Busy(root) /\ request # "unasked"
  /\ request' = "unasked"
  /\ writing' = IF SnapshotDue \/ request = "SNAPSHOT" THEN "model" ELSE "no"
  /\ requested_early_exit_' = (requested_early_exit_ \/ request = "STOP")
  /\ Goto(root, "top")
  /\ UNCHANGED << tree, initial_iter_, interrupted, crashes, iter_, data_, sync, files,
                  got, since, signals, check, result >>

\* What the root does when it knows what is requested
Decide ==
  /\ pc[root] = "ask" /\ ~Busy(root) /\ request # "unasked"
  /\ request' = "unasked"
  /\ writing' = IF SnapshotDue \/ request = "SNAPSHOT" THEN "model" ELSE "no"
  /\ requested_early_exit_' = (requested_early_exit_ \/ request = "STOP")
  /\ Goto(root, IF request = "STOP" THEN "solved" ELSE "top")
  /\ UNCHANGED << tree, initial_iter_, interrupted, crashes, iter_, data_, sync, files,
                  got, since, signals, check, result >>

-----------------------------------------------------------------------------
(* The root solver: tests, Snapshot, the rest of Solve and of Run *)

Testing == pc[root] \in {"test", "finaltest"}

CheckForSignals ==
  /\ \/ /\ Testing \/ pc[root] = "ask"
        /\ ~Busy(root) /\ SH!Ask
     \/ SH!Check
  /\ UNCHANGED << control, pc, iter_, data_, sync, saving >>

\* Slip: the loop over requests does not ask for the next one
TestAskedOnce ==
  /\ Testing /\ ~Busy(root) /\ request # "unasked"
  /\ request' = IF request = "SNAPSHOT" THEN request ELSE "unasked"
  /\ writing' = IF request = "SNAPSHOT" THEN "model" ELSE "no"
  /\ requested_early_exit_' = (requested_early_exit_ \/ request = "STOP")
  /\ IF request = "NONE" /\ (requested_early_exit_ \/ at[root] + 1 = test_iter)
     THEN Goto(root, IF pc[root] = "finaltest" THEN "stop"
                     ELSE IF requested_early_exit_ THEN "solved" ELSE "start")
     ELSE UNCHANGED pc
  /\ at' = IF request = "NONE" THEN [at EXCEPT ![root] = @ + 1] ELSE at
  /\ UNCHANGED << tree, initial_iter_, interrupted, crashes, iter_, data_, diff_, parent_grads_,
                  queue_, hand, files, got, since, signals, check, result >>

\* One turn of the loop of TestClassification or TestDetection
Test ==
  /\ Testing /\ ~Busy(root) /\ request # "unasked"
  /\ request' = "unasked"
  /\ writing' = IF request = "SNAPSHOT" THEN "model" ELSE "no"
  /\ requested_early_exit_' = (requested_early_exit_ \/ request = "STOP")
  /\ IF request = "NONE" /\ (requested_early_exit_ \/ at[root] + 1 = test_iter)
     THEN Goto(root, IF pc[root] = "finaltest" THEN "stop"
                     ELSE IF requested_early_exit_ THEN "solved" ELSE "start")
     ELSE UNCHANGED pc
  /\ at' = IF request = "NONE" THEN [at EXCEPT ![root] = @ + 1] ELSE at
  /\ UNCHANGED << tree, initial_iter_, interrupted, crashes, iter_, data_, diff_, parent_grads_,
                  queue_, hand, files, got, since, signals, check, result >>

\* Snapshot: the model, then the solver state that names it
Snapshot ==
  LET i == iter_[root]
  IN  \/ /\ writing = "model"
         /\ model' = [model EXCEPT ![i] = Torn]
         /\ writing' = "model written" /\ UNCHANGED state
      \/ /\ writing = "model written"
         /\ model' = [model EXCEPT ![i] = data_[root]]
         /\ state' = [state EXCEPT ![i] = Torn]
         /\ writing' = "state written"
      \/ /\ writing = "state written"
         /\ state' = [state EXCEPT ![i] = data_[root]]
         /\ writing' = "no" /\ UNCHANGED model

Save == Snapshot /\ UNCHANGED << control, pc, iter_, data_, sync, signal >>

\* Slip: no snapshot when training was stopped
SolvedUnsaved ==
  /\ pc[root] = "solved" /\ ~Busy(root)
  /\ writing' = IF snapshot_after_train /\ ~SnapshotDue /\ ~requested_early_exit_
                THEN "model" ELSE "no"
  /\ Goto(root, IF /\ ~requested_early_exit_
                   /\ test_interval > 0 /\ iter_[root] % test_interval = 0
                THEN "finaltest" ELSE "stop")
  /\ at' = [at EXCEPT ![root] = 0]
  /\ UNCHANGED << control, iter_, data_, diff_, parent_grads_, queue_, hand, files, signal >>

\* Solve, after Step
Solved ==
  /\ pc[root] = "solved" /\ ~Busy(root)
  /\ writing' = IF snapshot_after_train /\ ~SnapshotDue THEN "model" ELSE "no"
  /\ Goto(root, IF /\ ~requested_early_exit_
                   /\ test_interval > 0 /\ iter_[root] % test_interval = 0
                THEN "finaltest" ELSE "stop")
  /\ at' = [at EXCEPT ![root] = 0]
  /\ UNCHANGED << control, iter_, data_, diff_, parent_grads_, queue_, hand, files, signal >>

\* Run stops the threads one after the other: interrupt, then join
Stop(i) ==
  /\ pc[root] = "stop" /\ ~Busy(root)
  /\ i > 1 /\ \A j \in 2..i - 1 : pc[tree.syncs[j]] = "ended" /\ interrupted[tree.syncs[j]]
  /\ ~interrupted[tree.syncs[i]]
  /\ interrupted' = [interrupted EXCEPT ![tree.syncs[i]] = TRUE]
  /\ UNCHANGED << tree, initial_iter_, requested_early_exit_, crashes, pc, iter_, data_, sync, saving, signal >>

Finish ==
  /\ pc[root] = "stop" /\ ~Busy(root)
  /\ \A n \in Members \ {root} : interrupted[n] /\ pc[n] = "ended"
  /\ Goto(root, "done")
  /\ UNCHANGED << control, iter_, data_, sync, saving, signal >>

\* A thread that waits in pop is interrupted
Interrupted(n) ==
  /\ interrupted[n] /\ n # root
  /\ pc[n] \in {"start", "gather"} /\ queue_[n] = << >>
  /\ Goto(n, "ended")
  /\ UNCHANGED << control, iter_, data_, sync, saving, signal >>

-----------------------------------------------------------------------------
(* The process and its surroundings *)

Signalled ==
  /\ pc[root] # "done"
  /\ \E s \in SH!Signal : SH!Deliver(s)
  /\ UNCHANGED << control, pc, iter_, data_, sync, saving >>

\* Both files are there and whole
Usable(i) == model[i] \in Weights /\ state[i] \in Weights

\* The process ends, finished or not, and another one is started, anew or
\* from a snapshot (tools/caffe.cpp)
Restart ==
  /\ crashes < MaxCrashes /\ crashes' = crashes + 1
  /\ \/ initial_iter_' = 0 /\ data_' = All(0)
     \/ \E i \in Iterations :
          Usable(i) /\ initial_iter_' = i /\ data_' = All(model[i])
  /\ iter_' = FirstIter(initial_iter_')
  /\ pc' = AtTop /\ at' = All(0)
  /\ diff_' = All(Zero) /\ parent_grads_' = All(Zero)
  /\ queue_' = All(<< >>) /\ hand' = All(root)
  /\ interrupted' = All(FALSE) /\ requested_early_exit_' = FALSE
  /\ writing' = "no"
  /\ got' = SH!Quiet /\ since' = SH!Quiet /\ signals' = 0
  /\ check' = "idle" /\ result' = "unread" /\ request' = "unasked"
  /\ UNCHANGED << tree, files >>

Done == pc[root] = "done" /\ UNCHANGED vars

Step(n) ==
  \/ Begin(n) \/ Return(n) \/ OnStart(n) \/ Copy(n) \/ Tell(n) \/ ForwardBackward(n) \/ Gather(n)
  \/ Add(n) \/ Leave(n) \/ Report(n) \/ Apply(n) \/ Interrupted(n)

Root == Decide \/ CheckForSignals \/ Test \/ Save \/ Solved \/ Finish \/ \E i \in DOMAIN tree.syncs : Stop(i)

Threads == (\E n \in Members : Step(n)) \/ Root

Next == Threads \/ Signalled \/ Restart \/ Done

Spec == Init /\ [][Next]_vars

\* As long as a thread can take a step, one of them does: every step but a
\* signal or a new process brings training nearer to its end.
FairSpec == Spec /\ WF_vars(Threads)

-----------------------------------------------------------------------------
Gradients == [Solvers \X Weights -> 0..iter_size]

TypeOK ==
  /\ tree.syncs \in Seq(Solvers) /\ tree.children_ \in [Members -> Seq(Members)]
  /\ pc \in [Solvers -> {"top", "test", "start", "copy", "tell", "compute", "gather", "add", "leave",
                         "report", "apply", "ask", "solved", "finaltest", "stop", "ended", "done"}]
  /\ \A n \in Members : at[n] \in 0..(Len(Children(n)) + iter_size + test_iter)
  /\ iter_ \in [Solvers -> Iterations] /\ initial_iter_ \in Iterations
  /\ data_ \in [Solvers -> Weights]
  /\ diff_ \in [Solvers -> Gradients] /\ parent_grads_ \in [Solvers -> Gradients]
  /\ queue_ \in [Solvers -> Seq(Solvers)] /\ hand \in [Solvers -> Solvers]
  /\ interrupted \in [Solvers -> BOOLEAN] /\ requested_early_exit_ \in BOOLEAN
  /\ writing \in {"no", "model", "model written", "state written"}
  /\ model \in [Iterations -> Weights \union {NoFile, Torn}]
  /\ state \in [Iterations -> Weights \union {NoFile, Torn}]
  /\ crashes \in 0..MaxCrashes
  /\ SH!TypeOK

\* The root is nobody's child, every other solver one in one place, and no
\* solvers are cut off from the root: each set has one with a parent outside.
Spans(t) ==
  LET members == {t.syncs[i] : i \in DOMAIN t.syncs}
      below == members \ {t.syncs[1]}
  IN  /\ t.syncs \in Seq(Solvers) \ {<< >>} /\ t.children_ \in [members -> Seq(below)]
      /\ \A i, j \in DOMAIN t.syncs : t.syncs[i] = t.syncs[j] => i = j
      /\ \A p, q \in members : \A i \in DOMAIN t.children_[p], j \in DOMAIN t.children_[q] :
            t.children_[p][i] = t.children_[q][j] => p = q /\ i = j
      /\ \A S \in SUBSET below : S # {} =>
            \E p \in members \ S : \E i \in DOMAIN t.children_[p] : t.children_[p][i] \in S

\* What Prepare builds of the pairs has every solver in it, once, below the
\* root (parallel.cpp:396-417, and the CHECKs at :182-193).
TreeSpans == Spans(tree)

\* One queue serves for the word of the parent and that of the children: what
\* a solver finds is from whom it waits for (CHECK at parallel.cpp:300, :346).
QueueOrder ==
  \A n \in Members : queue_[n] # << >> =>
     /\ pc[n] = "start" => n # root /\ Head(queue_[n]) = parent_(n)
     /\ pc[n] = "gather" => \E i \in DOMAIN Children(n) : Children(n)[i] = Head(queue_[n])

\* iter_ of the root "should always indicate the number of times the weights
\* have been updated" (solver.cpp:270), also after a resume, and whoever
\* computes is at the same iteration, with the same weights.
InStep ==
  /\ iter_[root] = data_[root]
  /\ \A n \in Members : pc[n] = "compute" =>
        /\ data_[n] = data_[root]
        /\ n # root => iter_[n] + initial_iter_ = iter_[root]

\* "If we haven't already, save a snapshot after optimization" (solver.cpp:309):
\* when training returns, stopped early or not, the weights it has reached can
\* be resumed.
SavedAtEnd ==
  pc[root] = "done" /\ snapshot_after_train /\ iter_[root] > initial_iter_ =>
     Usable(iter_[root]) /\ model[iter_[root]] = data_[root] /\ state[iter_[root]] = data_[root]

\* Once an early exit is requested the weights are not touched any more
\* (solver.cpp:223-226, :283-287).
EarlyExitIsFinal ==
  [][requested_early_exit_ /\ requested_early_exit_' => data_[root]' = data_[root]]_vars

\* All of it, whatever the tree and the order of the threads, is gradient
\* descent in one place: "Synchronous data parallelism" (parallel.hpp:83).
T == INSTANCE Training WITH
       weights <- data_[root],
       snapshots <- {model[i] : i \in {j \in Iterations : Usable(j)}}
ImplementsTraining == T!Spec

\* Run returns: the solver gets through, or stops when it is told to, and none
\* of its threads is left behind (parallel.cpp:434-436).
RunReturns == []<>(pc[root] = "done")

\* The flags of signals: see SignalHandler
SignalsNoticed == SH!SignalsNoticed
=============================================================================
