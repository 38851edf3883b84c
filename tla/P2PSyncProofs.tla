--------------------------- MODULE P2PSyncProofs ----------------------------
(***************************************************************************)
(* Parallel training (P2PSync), for any trees that span their solvers, any *)
(* numbers of iterations, signals and new processes: every solver finds in *)
(* its queue whom it waits for, training is in step, its end is saved, and *)
(* it implements Training.                                                 *)
(*                                                                         *)
(* The invariant, TrainingInv, in the order of the proof: what the         *)
(* variables hold (Types); where each solver is in the iteration of the    *)
(* root, and what its queue holds (RoundsInv); what the gradients are of   *)
(* (GradInv); what the files hold (FilesInv).                              *)
(***************************************************************************)
EXTENDS P2PSync, DevicePairs, FiniteSetTheorems, SequenceTheorems, WellFoundedInduction, TLAPS

\* The hypothesis on the trees: see BuiltTreesSpan, which proves it of those
\* Prepare builds
TreesSpan == \A t \in Trees : Spans(t)

\* What the variables hold, as far as it does not depend on the rest
Places ==
  {"top", "test", "start", "copy", "tell", "compute", "gather", "add", "leave", "report", "apply",
   "ask", "solved", "finaltest", "stop", "ended", "done"}

ThreadTypes ==
  /\ pc \in [Solvers -> Places]
  /\ at \in [Solvers -> Int]
  /\ iter_ \in [Solvers -> Nat] /\ data_ \in [Solvers -> Int]
  /\ diff_ \in [Solvers -> [Solvers \X Weights -> Int]]
  /\ parent_grads_ \in [Solvers -> [Solvers \X Weights -> Int]]
  /\ queue_ \in [Solvers -> Seq(Members)] /\ hand \in [Solvers -> Members]
ProcessTypes ==
  /\ initial_iter_ \in Iterations /\ crashes \in 0..MaxCrashes
  /\ interrupted \in [Solvers -> BOOLEAN] /\ requested_early_exit_ \in BOOLEAN
  /\ writing \in {"no", "model", "model written", "state written"}
  /\ model \in [Iterations -> Int] /\ state \in [Iterations -> Int]
Types == Spans(tree) /\ ThreadTypes /\ ProcessTypes /\ SH!TypeOK

-----------------------------------------------------------------------------
(* Where a solver is in the iteration of the root *)

Workers == Members \ {root}
Elements(q) == {q[i] : i \in DOMAIN q}
Kids(p) == Elements(Children(p))

Active == {"copy", "tell", "compute", "gather", "add", "leave", "report"}

\* How many iterations it left its gradients in
Round(n) == IF pc[n] = "apply" THEN iter_[n] + initial_iter_ + 1 ELSE iter_[n] + initial_iter_

Waiting(n) ==
  Round(n) = iter_[root] /\ pc[n] \in {"apply", "top", "start", "ended"} /\ queue_[n] = << >>
Called(n, p) ==
  Round(n) = iter_[root] /\ pc[n] \in {"apply", "top", "start"} /\ queue_[n] = << p >>
Working(n) == Round(n) = iter_[root] /\ pc[n] \in Active
Reported(n) ==
  Round(n) = iter_[root] + 1 /\ pc[n] \in {"apply", "top", "start", "ended"} /\ queue_[n] = << >>

\* It has the gradients of all its children, and has told them before
Through(p) ==
  \/ pc[p] \in {"leave", "report"}
  \/ p = root /\ pc[p] = "apply"
  \/ p # root /\ Reported(p)
Told(p, i) ==
  \/ pc[p] \in {"copy", "tell"} /\ i > at[p]
  \/ pc[p] \in {"compute", "gather", "add"}
  \/ Through(p)

\* The children whose gradients it has added
Gathered(p) ==
  {c \in Kids(p) : Reported(c) /\ c \notin Elements(queue_[p]) /\ ~(pc[p] = "add" /\ c = hand[p])}

Edge(p, i) ==
  LET c == Children(p)[i]
  IN  /\ ~Told(p, i) => Waiting(c)
      /\ Told(p, i) => Called(c, p) \/ Working(c) \/ Reported(c)
      /\ Through(p) => Reported(c)
      /\ Told(p, i) \/ (pc[p] = "tell" /\ i = at[p]) => data_[c] = data_[root]

EdgeInv == \A p \in Members : \A i \in DOMAIN Children(p) : Edge(p, i)

\* What is in the queue of a solver that works, and what it has added
Collecting(p) ==
  /\ \A i \in DOMAIN queue_[p] : queue_[p][i] \in Kids(p) /\ Reported(queue_[p][i])
  /\ \A i, j \in DOMAIN queue_[p] : queue_[p][i] = queue_[p][j] => i = j
  /\ pc[p] \in {"copy", "tell", "compute"} => Gathered(p) = {}
  /\ pc[p] \in {"gather", "add"} => at[p] = Cardinality(Gathered(p)) /\ at[p] < Len(Children(p))
  /\ pc[p] = "add" =>
       hand[p] \in Kids(p) /\ Reported(hand[p]) /\ hand[p] \notin Elements(queue_[p])
  /\ pc[p] \in {"leave", "report"} => queue_[p] = << >>

QueueInv ==
  /\ \A p \in Members : pc[p] \in Active => Collecting(p)
  /\ pc[root] \notin Active => queue_[root] = << >>

\* What the thread of a worker does, and that of the root
PlaceOf(n) ==
  /\ n # root =>
       /\ pc[n] \notin {"test", "ask", "solved", "finaltest", "stop", "done"}
       /\ pc[n] = "ended" => iter_[n] + initial_iter_ >= max_iter \/ interrupted[n]
  /\ n = root =>
       /\ pc[n] \notin {"leave", "report", "ended"}
       /\ pc[n] \in Active \union {"test", "start", "apply"} => iter_[n] < max_iter
       /\ pc[n] \in {"test", "finaltest"} => at[n] \in 0..test_iter - 1
  /\ pc[n] \in {"copy", "tell"} => at[n] \in 1..Len(Children(n))
  /\ pc[n] = "compute" => at[n] \in 0..iter_size - 1

PlaceInv ==
  /\ \A n \in Members : PlaceOf(n)
  /\ \A n \in Workers : interrupted[n] => pc[root] \in {"stop", "done"}

RoundsInv == EdgeInv /\ QueueInv /\ PlaceInv

-----------------------------------------------------------------------------
(* What the gradients are of *)

Below(n) == {m \in Members : \A S \in SUBSET Members :
               n \in S /\ (\A x \in S : Kids(x) \subseteq S) => m \in S}

\* Those whose gradients n has, its own and those it added
Has(n) == {n} \union UNION {Below(c) : c \in Gathered(n)}

Whole(S) ==
  [g \in Solvers \X Weights |-> IF g[1] \in S /\ g[2] = data_[root] THEN iter_size ELSE 0]
Own(n, k) == [g \in Solvers \X Weights |-> IF g = << n, data_[root] >> THEN k ELSE 0]

GradOf(n) ==
  /\ pc[n] \in {"test", "start", "copy", "tell"} => diff_[n] = Zero
  /\ pc[n] = "compute" => diff_[n] = Own(n, at[n])
  /\ pc[n] \in {"gather", "add"} => diff_[n] = Whole(Has(n))
  /\ pc[n] = "leave" \/ (n = root /\ pc[n] = "apply") => diff_[n] = Whole(Below(n))
  /\ n # root /\ (pc[n] = "report" \/ Reported(n)) => parent_grads_[n] = Whole(Below(n))

GradInv ==
  /\ \A n \in Members : GradOf(n)
  /\ diff_ \in [Solvers -> Gradients] /\ parent_grads_ \in [Solvers -> Gradients]
  /\ iter_[root] = data_[root] /\ data_ \in [Solvers -> Iterations]

-----------------------------------------------------------------------------
(* What the files hold *)

Saved(i) == model[i] = i /\ state[i] = i

FilesInv ==
  /\ \A i \in Iterations : model[i] \in {NoFile, Torn, i} /\ state[i] \in {NoFile, Torn, i}
  /\ writing = "state written" => model[iter_[root]] = iter_[root]
  /\ check # "idle" => pc[root] \in {"test", "finaltest", "ask"} /\ writing = "no"
  /\ writing # "no" => pc[root] \in {"top", "test", "solved", "finaltest", "stop"}
  /\ requested_early_exit_ => pc[root] \in {"test", "solved", "finaltest", "stop", "done"}
  /\ /\ iter_[root] > initial_iter_ /\ writing = "no"
     /\ \/ SnapshotDue /\ pc[root] # "ask"
        \/ pc[root] \in {"finaltest", "stop", "done"} /\ snapshot_after_train
     => Saved(iter_[root])
-----------------------------------------------------------------------------
(* The tree *)

LEMMA TreeFacts ==
  ASSUME Spans(tree)
  PROVE  /\ root \in Members /\ Members \subseteq Solvers
         /\ \A p \in Members : Children(p) \in Seq(Workers)
         /\ \A p, q \in Members : \A i \in DOMAIN Children(p), j \in DOMAIN Children(q) :
               Children(p)[i] = Children(q)[j] => p = q /\ i = j
BY DEF Spans, Members, Workers, Children, root

LEMMA SameTree ==
  ASSUME tree' = tree
  PROVE  /\ root' = root /\ Members' = Members /\ Workers' = Workers
         /\ \A p : Children(p)' = Children(p)
         /\ \A p : Kids(p)' = Kids(p)
BY DEF root, Members, Workers, Children, Kids, Elements

LEMMA ParentIs ==
  ASSUME Spans(tree), NEW p \in Members, NEW i \in DOMAIN Children(p)
  PROVE  parent_(Children(p)[i]) = p
<1>1. \E q \in Members : \E j \in DOMAIN Children(q) : Children(q)[j] = Children(p)[i]
  OBVIOUS
<1>2. \A q \in Members : (\E j \in DOMAIN Children(q) : Children(q)[j] = Children(p)[i]) => q = p
  BY TreeFacts
<1>3. QED
  BY <1>1, <1>2 DEF parent_

\* Every set of workers has one whose parent is outside of it
LEMMA Reaches ==
  ASSUME Spans(tree), NEW S \in SUBSET Workers, S # {}
  PROVE  \E p \in Members \ S : \E i \in DOMAIN Children(p) : Children(p)[i] \in S
BY DEF Spans, Members, Workers, Children, root

LEMMA HasParent ==
  ASSUME Spans(tree), NEW n \in Workers
  PROVE  \E p \in Members : \E i \in DOMAIN Children(p) : Children(p)[i] = n /\ parent_(n) = p
<1>1. PICK p \in Members : \E i \in DOMAIN Children(p) : Children(p)[i] = n
  BY Reaches, {n} \in SUBSET Workers, {n} # {}
<1>2. QED
  BY <1>1, ParentIs

-----------------------------------------------------------------------------
(* Types *)

LEMMA SpansStays == ASSUME Spans(tree), tree' = tree PROVE Spans(tree)'
OBVIOUS

LEMMA SignalsStay == ASSUME SH!TypeOK, UNCHANGED signal PROVE SH!TypeOK'
BY DEF signal, SH!TypeOK

LEMMA ProcessStays ==
  ASSUME ProcessTypes, UNCHANGED << initial_iter_, crashes, interrupted, requested_early_exit_, saving >>
  PROVE  ProcessTypes'
BY DEF ProcessTypes, saving, Iterations

LEMMA PlusType ==
  ASSUME NEW a \in [Solvers \X Weights -> Int], NEW b \in [Solvers \X Weights -> Int]
  PROVE  Plus(a, b) \in [Solvers \X Weights -> Int]
BY DEF Plus

LEMMA InitTypes == TreesSpan /\ Init => Types
<1> SUFFICES ASSUME TreesSpan, Init PROVE Types
  OBVIOUS
<1>1. Spans(tree)
  BY DEF TreesSpan, Init
<1>2. root \in Members /\ Members \subseteq Solvers
  BY <1>1, TreeFacts
<1>3. SH!TypeOK
  BY P2PSyncAssumption DEF Init, SH!Init, SH!TypeOK, SH!Quiet
<1>4. ThreadTypes
  BY <1>2 DEF Init, ThreadTypes, Places, All, AtTop, Zero
<1>5. ProcessTypes
  <2>1. 0 \in Iterations /\ 0 \in 0..MaxCrashes
    BY P2PSyncAssumption DEF Iterations
  <2>2. interrupted \in [Solvers -> BOOLEAN] /\ requested_early_exit_ \in BOOLEAN
    BY DEF Init, All
  <2>3. model \in [Iterations -> Int] /\ state \in [Iterations -> Int]
    BY DEF Init, NoFile
  <2>4. QED
    BY <2>1, <2>2, <2>3 DEF Init, ProcessTypes
<1>6. QED
  BY <1>1, <1>3, <1>4, <1>5 DEF Types

LEMMA Changed ==
  ASSUME NEW S, NEW R, NEW f \in [S -> R], NEW x \in S, NEW y \in R
  PROVE  [f EXCEPT ![x] = y] \in [S -> R]
OBVIOUS

LEMMA QueueTypes ==
  ASSUME NEW S, NEW q \in Seq(S)
  PROVE  /\ \A x \in S : Append(q, x) \in Seq(S)
         /\ q # << >> => Head(q) \in S /\ Tail(q) \in Seq(S)
OBVIOUS

LEMMA StepTypes == ASSUME Types, NEW n \in Members, Step(n) PROVE Types'
<1> USE DEF control, sync, Goto
<1>1. root \in Members /\ n \in Solvers /\ Members \subseteq Solvers
  BY TreeFacts DEF Types
<1>2. UNCHANGED << tree, initial_iter_, crashes, signal, interrupted, requested_early_exit_, saving >>
  BY DEF Step, Begin, Return, OnStart, Copy, Tell, ForwardBackward, Gather, Add, Leave, Report,
         Apply, Interrupted
<1>3. Spans(tree)' /\ ProcessTypes' /\ SH!TypeOK' /\ Members' = Members
  BY <1>2, SpansStays, ProcessStays, SignalsStay, SameTree DEF Types
<1>4. /\ pc \in [Solvers -> Places] /\ at \in [Solvers -> Int]
      /\ iter_ \in [Solvers -> Nat] /\ data_ \in [Solvers -> Int]
  BY DEF Types, ThreadTypes
<1>5. Len(Children(n)) \in Nat
  <2>1. Children(n) \in Seq(Workers)
    BY TreeFacts DEF Types
  <2>2. QED
    BY <2>1
<1>6. pc' \in [Solvers -> Places]
  <2>1. pc' = pc \/ \E l \in Places : pc' = [pc EXCEPT ![n] = l]
    BY DEF Step, Begin, Return, OnStart, Copy, Tell, ForwardBackward, Gather, Add, Leave, Report,
           Apply, Interrupted, Up, Down, Places
  <2>2. QED
    BY <1>1, <1>4, <2>1, Changed
<1>7. at' \in [Solvers -> Int]
  <2>1. at[n] \in Int /\ 0 \in Int /\ at[n] + 1 \in Int /\ at[n] - 1 \in Int
    BY <1>1, <1>4
  <2>2. at' = at \/ \E k \in {0, Len(Children(n)), at[n] + 1, at[n] - 1} : at' = [at EXCEPT ![n] = k]
    BY DEF Step, Begin, Return, OnStart, Copy, Tell, ForwardBackward, Gather, Add, Leave,
           Report, Apply, Interrupted
  <2>3. QED
    BY <1>1, <1>4, <1>5, <2>1, <2>2, Changed
<1>8. iter_' \in [Solvers -> Nat] /\ data_' \in [Solvers -> Int]
  <2>1. iter_[n] + 1 \in Nat /\ data_[n] \in Int /\ data_[n] + 1 \in Int /\ Bad \in Int
    BY <1>1, <1>4 DEF Bad
  <2>2. iter_' = iter_ \/ iter_' = [iter_ EXCEPT ![n] = iter_[n] + 1]
    BY DEF Step, Begin, Return, OnStart, Copy, Tell, ForwardBackward, Gather, Add, Leave, Report,
           Apply, Interrupted
  <2>3. data_' = data_ \/ \E m : \E w \in {data_[n], data_[n] + 1, Bad} : data_' = [data_ EXCEPT ![m] = w]
    BY DEF Step, Begin, Return, OnStart, Copy, Tell, ForwardBackward, Gather, Add, Leave,
           Report, Apply, Interrupted
  <2>4. iter_' \in [Solvers -> Nat]
    BY <1>1, <1>4, <2>1, <2>2, Changed
  <2>5. data_' \in [Solvers -> Int]
    BY <1>1, <1>4, <2>1, <2>3
  <2>6. QED
    BY <2>4, <2>5
<1>9. diff_' \in [Solvers -> [Solvers \X Weights -> Int]]
  <2>1. Zero \in [Solvers \X Weights -> Int] /\ One(n) \in [Solvers \X Weights -> Int]
    BY DEF Zero, One
  <2>2. /\ diff_ \in [Solvers -> [Solvers \X Weights -> Int]]
        /\ parent_grads_ \in [Solvers -> [Solvers \X Weights -> Int]]
        /\ hand \in [Solvers -> Members]
    BY DEF Types, ThreadTypes
  <2>3. /\ Plus(diff_[n], One(n)) \in [Solvers \X Weights -> Int]
        /\ Plus(diff_[n], parent_grads_[hand[n]]) \in [Solvers \X Weights -> Int]
    <3>1. diff_[n] \in [Solvers \X Weights -> Int] /\ parent_grads_[hand[n]] \in [Solvers \X Weights -> Int]
      BY <1>1, <2>2
    <3>2. QED
      BY <2>1, <3>1, PlusType
  <2>4. PICK d \in {Zero, Plus(diff_[n], One(n)), Plus(diff_[n], parent_grads_[hand[n]]), diff_[n]} :
          diff_' = diff_ \/ diff_' = [diff_ EXCEPT ![n] = d]
    BY DEF Step, Begin, Return, OnStart, Copy, Tell, ForwardBackward, Gather, Add, Leave, Report,
           Apply, Interrupted
  <2>5. d \in [Solvers \X Weights -> Int]
    BY <1>1, <2>1, <2>2, <2>3
  <2>6. [diff_ EXCEPT ![n] = d] \in [Solvers -> [Solvers \X Weights -> Int]]
    BY <1>1, <2>2, <2>5, Changed
  <2>7. QED
    BY <2>2, <2>4, <2>6
<1>10. parent_grads_' \in [Solvers -> [Solvers \X Weights -> Int]]
  <2>1. parent_grads_' = parent_grads_ \/ parent_grads_' = [parent_grads_ EXCEPT ![n] = diff_[n]]
    BY DEF Step, Begin, Return, OnStart, Copy, Tell, ForwardBackward, Gather, Add, Leave, Report,
           Apply, Interrupted
  <2>2. /\ parent_grads_ \in [Solvers -> [Solvers \X Weights -> Int]]
        /\ diff_[n] \in [Solvers \X Weights -> Int]
    BY <1>1 DEF Types, ThreadTypes
  <2>3. QED
    BY <1>1, <2>1, <2>2, Changed
<1>11. queue_' \in [Solvers -> Seq(Members)] /\ hand' \in [Solvers -> Members]
  <2>1. queue_ \in [Solvers -> Seq(Members)] /\ hand \in [Solvers -> Members]
    BY DEF Types, ThreadTypes
  <2>2. \A m \in Solvers :
          /\ Append(queue_[m], n) \in Seq(Members)
          /\ queue_[m] # << >> => Head(queue_[m]) \in Members /\ Tail(queue_[m]) \in Seq(Members)
    BY <2>1, QueueTypes
  <2>3. \/ queue_' = queue_
        \/ queue_' = [queue_ EXCEPT ![n] = Tail(queue_[n])] /\ queue_[n] # << >>
        \/ \E m : queue_' = [queue_ EXCEPT ![m] = Append(queue_[m], n)]
    BY DEF Step, Begin, Return, OnStart, Copy, Tell, ForwardBackward, Gather, Add, Leave, Report,
           Apply, Interrupted
  <2>4. \/ hand' = hand
        \/ hand' = [hand EXCEPT ![n] = Head(queue_[n])] /\ queue_[n] # << >>
    BY DEF Step, Begin, Return, OnStart, Copy, Tell, ForwardBackward, Gather, Add, Leave, Report,
           Apply, Interrupted
  <2>5. ASSUME queue_' = queue_ PROVE queue_' \in [Solvers -> Seq(Members)]
    BY <2>1, <2>5
  <2>6. ASSUME queue_' = [queue_ EXCEPT ![n] = Tail(queue_[n])], queue_[n] # << >>
        PROVE  queue_' \in [Solvers -> Seq(Members)]
    <3>1. Tail(queue_[n]) \in Seq(Members)
      BY <1>1, <2>2, <2>6
    <3>2. QED
      BY <1>1, <2>1, <2>6, <3>1, Changed
  <2>7. ASSUME NEW m, queue_' = [queue_ EXCEPT ![m] = Append(queue_[m], n)]
        PROVE  queue_' \in [Solvers -> Seq(Members)]
    <3>1. CASE m \in Solvers
      BY <2>1, <2>2, <2>7, <3>1, Changed
    <3>2. CASE m \notin Solvers
      BY <2>1, <2>7, <3>2
    <3>3. QED
      BY <3>1, <3>2
  <2>8. hand' \in [Solvers -> Members]
    BY <1>1, <2>1, <2>2, <2>4, Changed
  <2>9. queue_' \in [Solvers -> Seq(Members)]
    BY <2>3, <2>5, <2>6, <2>7
  <2>10. QED
    BY <2>8, <2>9
<1>12. ThreadTypes'
  BY <1>3, <1>6, <1>7, <1>8, <1>9, <1>10, <1>11 DEF ThreadTypes
<1>13. QED
  BY <1>3, <1>12 DEF Types

\* A step of the root that leaves the training data alone
LEMMA RootTypes ==
  ASSUME Types, UNCHANGED << tree, iter_, data_, diff_, parent_grads_, queue_, hand >>,
         pc' = pc \/ \E l \in Places : pc' = [pc EXCEPT ![root] = l],
         at' = at \/ \E k \in {0, at[root] + 1} : at' = [at EXCEPT ![root] = k]
  PROVE  Spans(tree)' /\ ThreadTypes'
<1>1. root \in Solvers
  BY TreeFacts DEF Types
<1>2. Spans(tree)' /\ Members' = Members
  BY SpansStays, SameTree DEF Types
<1>3. pc \in [Solvers -> Places] /\ at \in [Solvers -> Int] /\ at[root] + 1 \in Int
  BY <1>1 DEF Types, ThreadTypes
<1>4. pc' \in [Solvers -> Places]
  BY <1>1, <1>3, Changed
<1>5. at' \in [Solvers -> Int]
  BY <1>1, <1>3, Changed
<1>6. ThreadTypes'
  BY <1>2, <1>4, <1>5 DEF Types, ThreadTypes
<1>7. QED
  BY <1>2, <1>6

LEMMA SaveTypes == ASSUME Types, Save PROVE Types'
<1>1. root \in Solvers
  BY TreeFacts DEF Types
<1>2. UNCHANGED << tree, pc, at, iter_, data_, diff_, parent_grads_, queue_, hand, initial_iter_, crashes,
                   interrupted, requested_early_exit_, signal >>
  BY DEF Save, control, sync
<1>3. Spans(tree)' /\ ThreadTypes' /\ SH!TypeOK'
  BY <1>2, RootTypes, SignalsStay DEF Types
<1>4. ProcessTypes'
  <2>1. model \in [Iterations -> Int] /\ state \in [Iterations -> Int] /\ data_[root] \in Int /\ Torn \in Int
    <3>1. data_ \in [Solvers -> Int] /\ model \in [Iterations -> Int] /\ state \in [Iterations -> Int]
      BY DEF Types, ThreadTypes, ProcessTypes
    <3>2. QED
      BY <1>1, <3>1 DEF Torn
  <2>2. model' \in [Iterations -> Int] /\ state' \in [Iterations -> Int]
    BY <2>1 DEF Save, Snapshot
  <2>3. writing' \in {"no", "model", "model written", "state written"}
    BY DEF Save, Snapshot
  <2>4. QED
    BY <1>2, <2>2, <2>3 DEF Types, ProcessTypes, Iterations
<1>5. QED
  BY <1>3, <1>4 DEF Types

LEMMA SignalTypes ==
  /\ SH!TypeOK /\ SH!Check => SH!TypeOK'
  /\ SH!TypeOK /\ SH!Ask => SH!TypeOK'
  /\ \A s \in SH!Signal : SH!TypeOK /\ SH!Deliver(s) => SH!TypeOK'
<1> USE P2PSyncAssumption DEF SH!TypeOK
<1>1. SH!TypeOK /\ SH!Ask => SH!TypeOK'
  BY DEF SH!Ask, SH!Signal
<1>2. ASSUME SH!TypeOK, NEW s \in SH!Signal, SH!Deliver(s) PROVE SH!TypeOK'
  <2>1. got' \in [SH!Signal -> BOOLEAN] /\ since' \in [SH!Signal -> BOOLEAN]
    BY <1>2 DEF SH!Deliver
  <2>2. signals' \in 0..MaxSignals
    BY <1>2 DEF SH!Deliver
  <2>3. QED
    BY <1>2, <2>1, <2>2 DEF SH!Deliver
<1>3. ASSUME SH!TypeOK, NEW s \in SH!Signal, SH!Read(s) PROVE SH!TypeOK'
  <2>1. since' \in [SH!Signal -> BOOLEAN]
    BY <1>3 DEF SH!Read
  <2>2. QED
    BY <1>3, <2>1 DEF SH!Read
<1>4. ASSUME SH!TypeOK, NEW s \in SH!Signal, SH!Clear(s) PROVE SH!TypeOK'
  <2>1. got' \in [SH!Signal -> BOOLEAN]
    BY <1>4 DEF SH!Clear
  <2>2. SH!Action(s) \in SH!SolverAction
    BY DEF SH!Action, SH!SolverAction
  <2>3. check' \in SH!Signal \union {"idle"} /\ request' \in SH!SolverAction \union {"unasked"}
    BY <1>4, <2>2 DEF SH!Clear, SH!Signal, SH!SolverAction
  <2>4. QED
    BY <1>4, <2>1, <2>3 DEF SH!Clear
<1>5. QED
  BY <1>1, <1>2, <1>3, <1>4 DEF SH!Check

LEMMA RootStepTypes == ASSUME Types, Root PROVE Types'
<1> USE DEF control, saving, sync, files, Goto
<1>1. CASE Save
  BY <1>1, SaveTypes
<1>2. CASE CheckForSignals
  <2>1. UNCHANGED << tree, pc, at, iter_, data_, diff_, parent_grads_, queue_, hand, initial_iter_, crashes,
                     interrupted, requested_early_exit_, saving >>
    BY <1>2 DEF CheckForSignals
  <2>2. SH!TypeOK'
    BY <1>2, SignalTypes DEF CheckForSignals, Types
  <2>3. QED
    BY <2>1, <2>2, RootTypes, ProcessStays DEF Types
<1>3. CASE Finish \/ \E i \in DOMAIN tree.syncs : Stop(i)
  <2>1. UNCHANGED << tree, at, iter_, data_, diff_, parent_grads_, queue_, hand, initial_iter_, crashes,
                     requested_early_exit_, saving, signal >>
    BY <1>3 DEF Finish, Stop
  <2>2. pc' = pc \/ \E l \in Places : pc' = [pc EXCEPT ![root] = l]
    BY <1>3 DEF Finish, Stop, Places
  <2>3. interrupted' \in [Solvers -> BOOLEAN]
    <3>1. interrupted \in [Solvers -> BOOLEAN]
      BY DEF Types, ProcessTypes
    <3>2. QED
      BY <1>3, <3>1 DEF Finish, Stop
  <2>4. ProcessTypes'
    BY <2>1, <2>3 DEF Types, ProcessTypes, Iterations
  <2>5. QED
    BY <2>1, <2>2, <2>4, RootTypes, SignalsStay DEF Types
<1>4. CASE Solved
  <2>1. UNCHANGED << tree, iter_, data_, diff_, parent_grads_, queue_, hand, initial_iter_, crashes,
                     interrupted, requested_early_exit_, model, state, signal >>
    BY <1>4 DEF Solved
  <2>2. \E l \in Places : pc' = [pc EXCEPT ![root] = l]
    BY <1>4 DEF Solved, Places
  <2>3. at' = [at EXCEPT ![root] = 0] /\ writing' \in {"no", "model"}
    BY <1>4 DEF Solved
  <2>4. ProcessTypes'
    BY <2>1, <2>3 DEF Types, ProcessTypes, Iterations
  <2>5. QED
    BY <2>1, <2>2, <2>3, <2>4, RootTypes, SignalsStay DEF Types
<1>5. CASE Decide \/ Test
  <2>1. UNCHANGED << tree, iter_, data_, diff_, parent_grads_, queue_, hand, initial_iter_, crashes,
                     interrupted, model, state, got, since, signals, check, result >>
    BY <1>5 DEF Decide, Test
  <2>2. pc' = pc \/ \E l \in Places : pc' = [pc EXCEPT ![root] = l]
    BY <1>5 DEF Decide, Test, Places
  <2>3. at' = at \/ at' = [at EXCEPT ![root] = at[root] + 1]
    BY <1>5 DEF Decide, Test
  <2>4. writing' \in {"no", "model"} /\ request' = "unasked"
    BY <1>5 DEF Decide, Test
  <2>5. requested_early_exit_' \in BOOLEAN
    BY <1>5 DEF Decide, Test, Types, ProcessTypes
  <2>6. ProcessTypes'
    BY <2>1, <2>4, <2>5 DEF Types, ProcessTypes, Iterations
  <2>7. SH!TypeOK'
    BY <2>1, <2>4 DEF Types, SH!TypeOK
  <2>8. QED
    BY <2>1, <2>2, <2>3, <2>6, <2>7, RootTypes DEF Types
<1>6. QED
  BY <1>1, <1>2, <1>3, <1>4, <1>5 DEF Root

LEMMA RestartTypes == ASSUME Types, Restart PROVE Types'
<1>1. tree' = tree /\ root \in Members /\ Members \subseteq Solvers
  BY TreeFacts DEF Types, Restart
<1>2. Spans(tree)' /\ Members' = Members /\ root' = root
  BY <1>1, SpansStays, SameTree DEF Types
<1>3. initial_iter_' \in Iterations
  BY P2PSyncAssumption DEF Restart, Iterations
<1>4. data_' \in [Solvers -> Int]
  <2>1. \A i \in Iterations : model[i] \in Int
    BY DEF Types, ProcessTypes
  <2>2. QED
    BY <2>1 DEF Restart, All
<1>5. iter_' \in [Solvers -> Nat]
  BY <1>3 DEF Restart, FirstIter, Iterations
<1>6. ThreadTypes'
  BY <1>1, <1>2, <1>4, <1>5 DEF Restart, ThreadTypes, Places, All, AtTop, Zero
<1>7. ProcessTypes'
  <2>1. crashes' \in 0..MaxCrashes
    <3>1. crashes \in 0..MaxCrashes /\ crashes < MaxCrashes /\ crashes' = crashes + 1
      BY DEF Restart, Types, ProcessTypes
    <3>2. QED
      BY <3>1, P2PSyncAssumption
  <2>2. interrupted' \in [Solvers -> BOOLEAN] /\ requested_early_exit_' \in BOOLEAN
    BY DEF Restart, All
  <2>3. QED
    BY <1>3, <2>1, <2>2 DEF Restart, Types, ProcessTypes, files, Iterations
<1>8. SH!TypeOK'
  BY P2PSyncAssumption DEF Restart, SH!TypeOK, SH!Quiet
<1>9. QED
  BY <1>2, <1>6, <1>7, <1>8 DEF Types

LEMMA NextTypes == Types /\ [Next]_vars => Types'
<1> SUFFICES ASSUME Types, [Next]_vars PROVE Types'
  OBVIOUS
<1>1. CASE UNCHANGED vars
  BY <1>1, RootTypes, ProcessStays, SignalsStay DEF vars, saving, signal, Types
<1>2. CASE Signalled
  <2>1. UNCHANGED << tree, pc, at, iter_, data_, diff_, parent_grads_, queue_, hand, initial_iter_, crashes,
                     interrupted, requested_early_exit_, saving >>
    BY <1>2 DEF Signalled, control, sync
  <2>2. SH!TypeOK'
    BY <1>2, SignalTypes DEF Signalled, Types
  <2>3. QED
    BY <2>1, <2>2, RootTypes, ProcessStays DEF Types
<1>3. QED
  BY <1>1, <1>2, StepTypes, RootStepTypes, RestartTypes DEF Next, Threads, Done

LEMMA TypesHold == ASSUME TreesSpan PROVE Spec => []Types
BY InitTypes, NextTypes, PTL DEF Spec

-----------------------------------------------------------------------------
(* Where a solver is tells where its parent and its children are *)

LEMMA ChildFacts ==
  ASSUME Spans(tree), NEW p \in Members, NEW i \in DOMAIN Children(p)
  PROVE  /\ Children(p)[i] \in Workers /\ Children(p)[i] \in Members /\ Children(p)[i] # root
         /\ Children(p)[i] # p /\ Children(p)[i] \in Kids(p)
         /\ i \in 1..Len(Children(p)) /\ Len(Children(p)) \in Nat
<1>1. Children(p) \in Seq(Workers)
  BY TreeFacts
<1>2. Children(p)[i] \in Workers
  BY <1>1
<1>3. Children(p)[i] # p
  <2> SUFFICES ASSUME Children(p)[i] = p PROVE FALSE
    OBVIOUS
  <2>1. PICK q \in Members \ {p} : \E j \in DOMAIN Children(q) : Children(q)[j] \in {p}
    BY <1>2, Reaches, {p} \in SUBSET Workers, {p} # {}
  <2>2. QED
    BY <2>1, TreeFacts
<1>4. QED
  BY <1>1, <1>2, <1>3 DEF Workers, Kids, Elements

LEMMA Apart ==
  ASSUME Types, NEW n \in Members
  PROVE  /\ ~(Waiting(n) /\ Working(n)) /\ ~(Waiting(n) /\ Reported(n)) /\ ~(Working(n) /\ Reported(n))
         /\ \A p : ~(Called(n, p) /\ (Waiting(n) \/ Working(n) \/ Reported(n)))
         /\ Round(n) \in Nat /\ iter_[root] \in Nat
<1>1. iter_ \in [Solvers -> Nat] /\ initial_iter_ \in Nat
  <2>1. iter_ \in [Solvers -> Nat] /\ initial_iter_ \in Iterations
    BY DEF Types, ThreadTypes, ProcessTypes
  <2>2. QED
    BY <2>1, P2PSyncAssumption DEF Iterations
<1>2. n \in Solvers /\ root \in Solvers
  BY TreeFacts DEF Types
<1>3. Round(n) \in Nat /\ iter_[root] \in Nat
  BY <1>1, <1>2 DEF Round
<1>4. \A p : << p >> # << >>
  OBVIOUS
<1>5. iter_[root] + 1 # iter_[root]
  BY <1>3
<1>6. ~(Waiting(n) /\ Working(n))
  BY DEF Waiting, Working, Active
<1>7. ~(Waiting(n) /\ Reported(n)) /\ ~(Working(n) /\ Reported(n))
  BY <1>5 DEF Waiting, Working, Reported
<1>8. \A p : ~(Called(n, p) /\ Waiting(n)) /\ ~(Called(n, p) /\ Reported(n))
  BY <1>4 DEF Called, Waiting, Reported
<1>9. \A p : ~(Called(n, p) /\ Working(n))
  BY DEF Called, Working, Active
<1>10. QED
  BY <1>3, <1>6, <1>7, <1>8, <1>9

\* A worker that is active was told by its parent, which waits for it
LEMMA ActiveWorks ==
  ASSUME Types, EdgeInv, NEW n \in Workers, pc[n] \in Active
  PROVE  /\ Working(n) /\ data_[n] = data_[root]
         /\ \E p \in Members : \E i \in DOMAIN Children(p) :
              Children(p)[i] = n /\ Told(p, i) /\ ~Through(p) /\ parent_(n) = p
<1>1. PICK p \in Members : \E i \in DOMAIN Children(p) : Children(p)[i] = n /\ parent_(n) = p
  BY HasParent DEF Types
<1>2. PICK i \in DOMAIN Children(p) : Children(p)[i] = n /\ parent_(n) = p
  BY <1>1
<1>3. Edge(p, i)
  BY <1>2 DEF EdgeInv
<1>4. Told(p, i) /\ Working(n)
  BY <1>2, <1>3 DEF Edge, Waiting, Called, Reported, Active
<1>5. ~Reported(n)
  BY <1>4, Apart DEF Workers
<1>6. QED
  BY <1>2, <1>3, <1>4, <1>5 DEF Edge

\* What is in the queue of a worker that waits is the word of its parent
LEMMA WordFromParent ==
  ASSUME Types, EdgeInv, NEW n \in Workers, pc[n] \notin Active, queue_[n] # << >>
  PROVE  /\ Called(n, parent_(n)) /\ data_[n] = data_[root]
         /\ \E p \in Members : \E i \in DOMAIN Children(p) :
              Children(p)[i] = n /\ Told(p, i) /\ ~Through(p) /\ parent_(n) = p
<1>1. PICK p \in Members : \E i \in DOMAIN Children(p) : Children(p)[i] = n /\ parent_(n) = p
  BY HasParent DEF Types
<1>2. PICK i \in DOMAIN Children(p) : Children(p)[i] = n /\ parent_(n) = p
  BY <1>1
<1>3. Edge(p, i)
  BY <1>2 DEF EdgeInv
<1>4. Told(p, i) /\ Called(n, p)
  BY <1>2, <1>3 DEF Edge, Waiting, Working, Reported
<1>5. ~Reported(n)
  BY <1>4, Apart DEF Workers
<1>6. QED
  BY <1>2, <1>3, <1>4, <1>5 DEF Edge

\* Between two iterations of the root all workers wait
LEMMA AllWait ==
  ASSUME Types, EdgeInv, pc[root] \notin Active, pc[root] # "apply", NEW n \in Workers
  PROVE  Waiting(n)
<1> DEFINE S == {m \in Workers : ~Waiting(m)}
<1> SUFFICES ASSUME S # {} PROVE FALSE
  OBVIOUS
<1>1. PICK p \in Members \ S : \E i \in DOMAIN Children(p) : Children(p)[i] \in S
  BY Reaches, S \in SUBSET Workers DEF Types
<1>2. PICK i \in DOMAIN Children(p) : Children(p)[i] \in S
  BY <1>1
<1>3. ~Told(p, i)
  <2>1. CASE p = root
    BY <2>1 DEF Told, Through, Active
  <2>2. CASE p # root
    <3>1. Waiting(p)
      BY <1>1, <2>2 DEF Workers
    <3>2. ~Reported(p)
      BY <3>1, Apart
    <3>3. QED
      BY <2>2, <3>1, <3>2 DEF Told, Through, Waiting
  <2>3. QED
    BY <2>1, <2>2
<1>4. Edge(p, i)
  BY <1>1 DEF EdgeInv
<1>5. QED
  BY <1>2, <1>3, <1>4 DEF Edge

\* When the root has all gradients, so has everybody
LEMMA AllReported ==
  ASSUME Types, EdgeInv, pc[root] = "apply", NEW n \in Workers
  PROVE  Reported(n)
<1> DEFINE S == {m \in Workers : ~Reported(m)}
<1> SUFFICES ASSUME S # {} PROVE FALSE
  OBVIOUS
<1>1. PICK p \in Members \ S : \E i \in DOMAIN Children(p) : Children(p)[i] \in S
  BY Reaches, S \in SUBSET Workers DEF Types
<1>2. PICK i \in DOMAIN Children(p) : Children(p)[i] \in S
  BY <1>1
<1>3. Through(p)
  BY <1>1 DEF Workers, Through
<1>4. Edge(p, i)
  BY <1>1 DEF EdgeInv
<1>5. QED
  BY <1>2, <1>3, <1>4 DEF Edge

\* A worker that does not wait is in an iteration of the root
LEMMA InIteration ==
  ASSUME Types, EdgeInv, PlaceInv, NEW n \in Workers, ~Waiting(n)
  PROVE  /\ pc[root] \in Active \union {"apply"} /\ iter_[root] < max_iter
         /\ \A m \in Workers : ~interrupted[m]
<1>1. pc[root] \in Active \union {"apply"}
  BY AllWait
<1>2. QED
  BY <1>1, TreeFacts DEF PlaceInv, PlaceOf, Active, Types

-----------------------------------------------------------------------------
(* The process starts *)

Fresh ==
  /\ Spans(tree) /\ initial_iter_ \in Nat
  /\ pc = AtTop /\ queue_ = All(<< >>) /\ iter_ = FirstIter(initial_iter_) /\ interrupted = All(FALSE)

LEMMA FreshRounds == Fresh => RoundsInv
<1> SUFFICES ASSUME Fresh PROVE RoundsInv
  OBVIOUS
<1>1. /\ Spans(tree) /\ root \in Members /\ Members \subseteq Solvers
  BY TreeFacts DEF Fresh
<1>2. \A n \in Members : pc[n] = "top" /\ queue_[n] = << >> /\ interrupted[n] = FALSE
  BY <1>1 DEF Fresh, AtTop, All
<1>3. initial_iter_ \in Nat /\ iter_[root] = initial_iter_ /\ \A n \in Workers : iter_[n] = 0
  BY <1>1 DEF Fresh, FirstIter, Workers
<1>4. \A n \in Workers : Round(n) = initial_iter_
  BY <1>2, <1>3 DEF Round, Workers
<1>5. \A n \in Workers : Waiting(n) /\ ~Reported(n)
  BY <1>2, <1>3, <1>4 DEF Waiting, Reported, Workers
<1>6. \A p \in Members : \A i \in DOMAIN Children(p) : ~Told(p, i) /\ ~Through(p)
  BY <1>2, <1>5 DEF Told, Through, Workers
<1>7. EdgeInv
  BY <1>1, <1>2, <1>5, <1>6, ChildFacts DEF EdgeInv, Edge
<1>8. QueueInv
  BY <1>1, <1>2 DEF QueueInv, Active
<1>9. PlaceInv
  BY <1>1, <1>2 DEF PlaceInv, PlaceOf, Active, Workers
<1>10. QED
  BY <1>7, <1>8, <1>9 DEF RoundsInv

LEMMA InitRounds == TreesSpan /\ Init => RoundsInv
<1>1. ASSUME TreesSpan, Init PROVE Fresh
  BY <1>1 DEF Init, TreesSpan, Fresh, FirstIter, All
<1>2. QED
  BY <1>1, FreshRounds

LEMMA RestartRounds == ASSUME Types, Restart PROVE RoundsInv'
<1>1. Fresh'
  <2>1. Types' /\ tree' = tree
    BY RestartTypes DEF Restart
  <2>2. Spans(tree)' /\ initial_iter_' \in Nat
    <3>1. Spans(tree)' /\ initial_iter_' \in Iterations
      BY <2>1 DEF Types, ProcessTypes, Iterations
    <3>2. QED
      BY <3>1, P2PSyncAssumption DEF Iterations
  <2>3. Members' = Members /\ root' = root
    BY <2>1, SameTree
  <2>4. pc' = AtTop' /\ iter_' = FirstIter(initial_iter_)'
    BY <2>3 DEF Restart, AtTop, FirstIter
  <2>5. QED
    BY <2>2, <2>4 DEF Restart, Fresh, All
<1>2. Fresh' => RoundsInv'
  BY FreshRounds, PTL
<1>3. QED
  BY <1>1, <1>2

-----------------------------------------------------------------------------
(* Steps that tell nobody *)

\* A worker stays where it is in the iteration, or gets on
Keeps(m) ==
  /\ Waiting(m) => Waiting(m)'
  /\ \A p \in Members : Called(m, p) => Called(m, p)' \/ Working(m)'
  /\ Working(m) => Working(m)' \/ Reported(m)'
  /\ Reported(m) => Reported(m)'

\* So does it with its children
KeepsChild(p, i) ==
  /\ Told(p, i)' <=> Told(p, i)
  /\ Through(p)' => Through(p) \/ Reported(Children(p)[i])
  /\ (pc[p] = "tell" /\ i = at[p])' => (pc[p] = "tell" /\ i = at[p])

LEMMA EdgeKept ==
  ASSUME Types, tree' = tree, data_' = data_, NEW p \in Members, NEW i \in DOMAIN Children(p),
         Edge(p, i), \A m \in Workers : m = Children(p)[i] => Keeps(m), KeepsChild(p, i)
  PROVE  Edge(p, i)'
<1> DEFINE c == Children(p)[i]
<1>1. root' = root /\ c' = c
  BY SameTree
<1>2. c \in Workers /\ Keeps(c)
  BY ChildFacts DEF Types
<1> HIDE DEF c
<1>3. (~Told(p, i) => Waiting(c))'
  BY <1>2 DEF Edge, Keeps, KeepsChild, c
<1>4. (Told(p, i) => Called(c, p) \/ Working(c) \/ Reported(c))'
  BY <1>2 DEF Edge, Keeps, KeepsChild, c
<1>5. (Through(p) => Reported(c))'
  BY <1>2 DEF Edge, Keeps, KeepsChild, c
<1>6. (Told(p, i) \/ (pc[p] = "tell" /\ i = at[p]))' => data_'[c] = data_'[root]
  BY <1>2 DEF Edge, KeepsChild, c
<1>7. QED
  BY <1>1, <1>3, <1>4, <1>5, <1>6 DEF Edge, c

LEMMA EdgesKept ==
  ASSUME Types, EdgeInv, tree' = tree, data_' = data_,
         \A m \in Workers : Keeps(m),
         \A p \in Members : \A i \in DOMAIN Children(p) : KeepsChild(p, i)
  PROVE  EdgeInv'
<1>1. Members' = Members /\ \A p : Children(p)' = Children(p)
  BY SameTree
<1>2. \A p \in Members : \A i \in DOMAIN Children(p) : Edge(p, i)'
  BY EdgeKept DEF EdgeInv
<1>3. QED
  BY <1>1, <1>2 DEF EdgeInv

\* What is not touched stays
LEMMA Untouched ==
  ASSUME tree' = tree, initial_iter_' = initial_iter_, iter_'[root] = iter_[root],
         NEW m, pc'[m] = pc[m], iter_'[m] = iter_[m], queue_'[m] = queue_[m]
  PROVE  /\ Waiting(m)' <=> Waiting(m)
         /\ \A p : Called(m, p)' <=> Called(m, p)
         /\ Working(m)' <=> Working(m)
         /\ Reported(m)' <=> Reported(m)
         /\ Through(m)' <=> Through(m)
         /\ \A i : at'[m] = at[m] => (Told(m, i)' <=> Told(m, i))
<1>1. root' = root
  BY SameTree
<1>2. iter_'[root'] = iter_[root]
  BY <1>1
<1>3. Round(m)' = Round(m)
  BY DEF Round
<1>4. Waiting(m)' <=> Waiting(m)
  BY <1>2, <1>3 DEF Waiting
<1>5. \A p : Called(m, p)' <=> Called(m, p)
  BY <1>2, <1>3 DEF Called
<1>6. (Working(m)' <=> Working(m)) /\ (Reported(m)' <=> Reported(m))
  BY <1>2, <1>3 DEF Working, Reported
<1>7. Through(m)' <=> Through(m)
  BY <1>1, <1>6 DEF Through
<1>8. \A i : at'[m] = at[m] => (Told(m, i)' <=> Told(m, i))
  BY <1>7 DEF Told
<1>9. QED
  BY <1>4, <1>5, <1>6, <1>7, <1>8

\* Only solver n moves, and only its queue
Alone(n) ==
  /\ UNCHANGED << tree, initial_iter_, data_, interrupted >> /\ iter_'[root] = iter_[root]
  /\ \A m \in Members \ {n} :
       /\ pc'[m] = pc[m] /\ at'[m] = at[m] /\ iter_'[m] = iter_[m] /\ queue_'[m] = queue_[m]
       /\ hand'[m] = hand[m]

LEMMA EdgesAlone ==
  ASSUME Types, EdgeInv, NEW n \in Members, Alone(n), n # root => Keeps(n),
         \A i \in DOMAIN Children(n) : KeepsChild(n, i)
  PROVE  EdgeInv'
<1>1. \A m \in Workers : Keeps(m)
  <2> TAKE m \in Workers
  <2>1. CASE m = n
    BY <2>1 DEF Workers
  <2>2. CASE m # n
    BY <2>2, Untouched DEF Alone, Workers, Keeps
  <2>3. QED
    BY <2>1, <2>2
<1>2. \A p \in Members : \A i \in DOMAIN Children(p) : KeepsChild(p, i)
  <2> TAKE p \in Members
  <2>1. CASE p = n
    BY <2>1
  <2>2. CASE p # n
    BY <2>2, Untouched DEF Alone, KeepsChild
  <2>3. QED
    BY <2>1, <2>2
<1>3. QED
  BY <1>1, <1>2, EdgesKept DEF Alone

\* What a solver collects
LEMMA CollectingKept ==
  ASSUME tree' = tree, NEW p \in Members, Collecting(p),
         \A c \in Kids(p) : Reported(c)' <=> Reported(c),
         pc'[p] = pc[p], at'[p] = at[p], queue_'[p] = queue_[p], hand'[p] = hand[p]
  PROVE  Collecting(p)' /\ Gathered(p)' = Gathered(p)
<1>1. Kids(p)' = Kids(p) /\ Children(p)' = Children(p)
  BY SameTree
<1>2. Elements(queue_[p])' = Elements(queue_[p]) /\ Elements(queue_'[p]) = Elements(queue_[p])
  BY DEF Elements
<1>3. Gathered(p)' = Gathered(p)
  BY <1>1, <1>2 DEF Gathered
<1>4. QED
  BY <1>1, <1>2, <1>3 DEF Collecting

LEMMA QueuesAlone ==
  ASSUME Types, QueueInv, NEW n \in Members, Alone(n), n # root => (Reported(n)' <=> Reported(n)),
         pc'[n] \in Active => Collecting(n)',
         n = root => (pc'[root] \notin Active => queue_'[root] = << >>)
  PROVE  QueueInv'
<1>1. Members' = Members /\ root' = root /\ root \in Members /\ tree' = tree
  BY SameTree, TreeFacts DEF Types, Alone
<1>2. \A c \in Workers : Reported(c)' <=> Reported(c)
  <2> TAKE c \in Workers
  <2>1. CASE c = n
    BY <2>1 DEF Workers
  <2>2. CASE c # n
    BY <2>2, Untouched DEF Alone, Workers
  <2>3. QED
    BY <2>1, <2>2
<1>3. ASSUME NEW p \in Members, pc'[p] \in Active PROVE Collecting(p)'
  <2>1. CASE p = n
    BY <1>3, <2>1
  <2>2. CASE p # n
    <3>1. pc'[p] = pc[p] /\ at'[p] = at[p] /\ queue_'[p] = queue_[p] /\ hand'[p] = hand[p]
      BY <2>2 DEF Alone
    <3>2. Collecting(p)
      BY <1>3, <3>1 DEF QueueInv
    <3>3. Kids(p) \subseteq Workers
      BY ChildFacts DEF Kids, Elements, Types
    <3>4. QED
      BY <1>1, <1>2, <3>1, <3>2, <3>3, CollectingKept
  <2>3. QED
    BY <2>1, <2>2
<1>4. pc'[root] \notin Active => queue_'[root] = << >>
  BY <1>1 DEF Alone, QueueInv
<1>5. QED
  BY <1>1, <1>3, <1>4 DEF QueueInv

LEMMA PlacesAlone ==
  ASSUME Types, PlaceInv, NEW n \in Members, Alone(n), PlaceOf(n)',
         n = root => (pc[root] \in {"stop", "done"} => pc'[root] \in {"stop", "done"})
  PROVE  PlaceInv'
<1>1. Members' = Members /\ root' = root /\ Workers' = Workers /\ \A p : Children(p)' = Children(p)
  BY SameTree DEF Alone
<1>2. ASSUME NEW m \in Members PROVE PlaceOf(m)'
  <2>1. CASE m = n
    BY <2>1
  <2>2. CASE m # n
    <3>1. PlaceOf(m)
      BY DEF PlaceInv
    <3>2. QED
      BY <1>1, <2>2, <3>1 DEF Alone, PlaceOf
  <2>3. QED
    BY <2>1, <2>2
<1>3. ASSUME NEW m \in Workers, interrupted'[m] PROVE pc'[root] \in {"stop", "done"}
  <2>1. interrupted[m] /\ pc[root] \in {"stop", "done"}
    BY <1>3 DEF Alone, PlaceInv
  <2>2. root \in Members
    BY TreeFacts DEF Types
  <2>3. QED
    BY <2>1, <2>2 DEF Alone
<1>4. QED
  BY <1>1, <1>2, <1>3 DEF PlaceInv

-----------------------------------------------------------------------------
(* The steps of a solver *)

LEMMA SolverTypes ==
  ASSUME Types, NEW n \in Members
  PROVE  /\ n \in Solvers /\ root \in Members /\ root \in Solvers
         /\ pc[n] \in Places /\ at[n] \in Int /\ iter_[n] \in Nat /\ initial_iter_ \in Nat
         /\ data_[n] \in Int /\ queue_[n] \in Seq(Members) /\ hand[n] \in Members
<1>1. n \in Solvers /\ root \in Members /\ root \in Solvers
  BY TreeFacts DEF Types
<1>2. initial_iter_ \in Iterations
  BY DEF Types, ProcessTypes
<1>3. pc \in [Solvers -> Places] /\ at \in [Solvers -> Int] /\ iter_ \in [Solvers -> Nat]
  BY DEF Types, ThreadTypes
<1>4. data_ \in [Solvers -> Int] /\ queue_ \in [Solvers -> Seq(Members)] /\ hand \in [Solvers -> Members]
  BY DEF Types, ThreadTypes
<1>5. initial_iter_ \in Nat
  BY <1>2, P2PSyncAssumption DEF Iterations
<1>6. QED
  BY <1>1, <1>3, <1>4, <1>5

\* A step that moves the thread of n only, within what its parent and its
\* children can see
LEMMA AloneKeeps ==
  ASSUME Types, RoundsInv, NEW n \in Members, Alone(n), PlaceOf(n)',
         n # root => Keeps(n) /\ (Reported(n)' <=> Reported(n)),
         \A i \in DOMAIN Children(n) : KeepsChild(n, i),
         pc'[n] \in Active => Collecting(n)',
         n = root => (pc[root] \in {"stop", "done"} => pc'[root] \in {"stop", "done"}),
         n = root => (pc'[root] \notin Active => queue_'[root] = << >>)
  PROVE  RoundsInv'
BY EdgesAlone, QueuesAlone, PlacesAlone DEF RoundsInv

LEMMA BeginRounds == ASSUME Types, RoundsInv, NEW n \in Members, Begin(n) PROVE RoundsInv'
<1> DEFINE l == IF n = root /\ TestDue THEN "test" ELSE "start"
<1>1. /\ n \in Solvers /\ root \in Members /\ pc \in [Solvers -> Places] /\ at \in [Solvers -> Int]
      /\ iter_[n] < stop_iter(n) /\ pc[n] = "top"
  BY SolverTypes DEF Begin, Types, ThreadTypes
<1>2. /\ UNCHANGED << tree, initial_iter_, data_, interrupted, iter_, queue_, hand >>
      /\ pc' = [pc EXCEPT ![n] = l] /\ at' = [at EXCEPT ![n] = 0]
  BY DEF Begin, control, Goto
<1> HIDE DEF l
<1>3. l \in {"test", "start"} /\ (n # root => l = "start") /\ (n = root => n \notin Workers)
  BY DEF l, Workers
<1>4. Alone(n)
  BY <1>1, <1>2 DEF Alone
<1>5. root' = root /\ pc'[n] = l /\ at'[n] = 0
  BY <1>1, <1>2, SameTree
<1>6. Round(n)' = Round(n) /\ iter_'[root'] = iter_[root]
  BY <1>1, <1>2, <1>3, <1>5 DEF Round
<1>7. ASSUME n # root PROVE Keeps(n) /\ (Reported(n)' <=> Reported(n))
  BY <1>1, <1>2, <1>3, <1>5, <1>6, <1>7 DEF Keeps, Waiting, Called, Working, Reported, Active
<1>8. ASSUME NEW i \in DOMAIN Children(n) PROVE KeepsChild(n, i)
  BY <1>1, <1>3, <1>5, <1>7 DEF KeepsChild, Told, Through
<1>9. PlaceOf(n)'
  <2>1. n = root => iter_[n] < max_iter
    BY <1>1 DEF stop_iter
  <2>2. QED
    BY <1>2, <1>3, <1>5, <2>1, P2PSyncAssumption DEF PlaceOf, Active
<1>10. pc'[n] \notin Active
  BY <1>3, <1>5 DEF Active
<1>11. n = root => queue_'[root] = << >>
  BY <1>1, <1>2 DEF RoundsInv, QueueInv, Active
<1>12. QED
  BY <1>1, <1>4, <1>7, <1>8, <1>9, <1>10, <1>11, AloneKeeps

LEMMA ReturnRounds == ASSUME Types, RoundsInv, NEW n \in Members, Return(n) PROVE RoundsInv'
<1> DEFINE l == IF n = root THEN "solved" ELSE "ended"
<1>1. /\ n \in Solvers /\ root \in Members /\ pc \in [Solvers -> Places]
      /\ pc[n] = "top" /\ iter_[n] >= stop_iter(n)
      /\ iter_[n] \in Nat /\ initial_iter_ \in Nat /\ iter_[root] \in Nat
  BY SolverTypes DEF Return, Types, ThreadTypes
<1>2. /\ UNCHANGED << tree, initial_iter_, data_, interrupted, iter_, queue_, hand, at >>
      /\ pc' = [pc EXCEPT ![n] = l]
  BY DEF Return, control, sync, Goto
<1> HIDE DEF l
<1>3. (n # root => l = "ended") /\ (n = root => l = "solved")
  BY DEF l
<1>4. Alone(n)
  BY <1>1, <1>2 DEF Alone
<1>5. root' = root /\ pc'[n] = l
  BY <1>1, <1>2, SameTree
<1>6. Round(n)' = Round(n) /\ Round(n) = iter_[n] + initial_iter_ /\ iter_'[root'] = iter_[root]
  BY <1>1, <1>2, <1>3, <1>5 DEF Round
<1>7. ASSUME n # root, NEW p, Called(n, p) PROVE FALSE
  <2>1. n \in Workers /\ ~Waiting(n)
    BY <1>7, Apart DEF Workers
  <2>2. iter_[root] < max_iter
    BY <2>1, InIteration DEF RoundsInv
  <2>3. Round(n) = iter_[root]
    BY <1>7 DEF Called
  <2>4. iter_[n] >= max_iter - initial_iter_
    BY <1>1, <1>7 DEF stop_iter
  <2>5. QED
    BY <1>1, <1>6, <2>2, <2>3, <2>4, P2PSyncAssumption
<1>8. ASSUME n # root PROVE Keeps(n) /\ (Reported(n)' <=> Reported(n))
  BY <1>1, <1>2, <1>3, <1>5, <1>6, <1>7, <1>8 DEF Keeps, Waiting, Working, Reported, Active
<1>9. ASSUME NEW i \in DOMAIN Children(n) PROVE KeepsChild(n, i)
  BY <1>1, <1>3, <1>5, <1>8 DEF KeepsChild, Told, Through
<1>10. PlaceOf(n)'
  <2>1. n # root => iter_[n] + initial_iter_ >= max_iter
    BY <1>1, P2PSyncAssumption DEF stop_iter
  <2>2. QED
    BY <1>2, <1>3, <1>5, <2>1 DEF PlaceOf, Active
<1>11. pc'[n] \notin Active
  BY <1>3, <1>5 DEF Active
<1>12. n = root => queue_'[root] = << >>
  BY <1>1, <1>2 DEF RoundsInv, QueueInv, Active
<1>13. QED
  BY <1>1, <1>4, <1>8, <1>9, <1>10, <1>11, <1>12, AloneKeeps

LEMMA OneWord == ASSUME NEW p PROVE Tail(<< p >>) = << >>
OBVIOUS

LEMMA OnStartRounds == ASSUME Types, RoundsInv, NEW n \in Members, OnStart(n) PROVE RoundsInv'
<1> DEFINE k == Len(Children(n))
           l == Down(k)
<1>1. /\ n \in Solvers /\ root \in Members /\ pc \in [Solvers -> Places] /\ at \in [Solvers -> Int]
      /\ queue_ \in [Solvers -> Seq(Members)] /\ pc[n] = "start"
  BY SolverTypes DEF OnStart, Types, ThreadTypes
<1>2. /\ UNCHANGED << tree, initial_iter_, data_, interrupted, iter_, hand >>
      /\ pc' = [pc EXCEPT ![n] = l] /\ at' = [at EXCEPT ![n] = k]
      /\ \/ n = root /\ queue_' = queue_
         \/ n # root /\ queue_[n] # << >> /\ queue_' = [queue_ EXCEPT ![n] = Tail(queue_[n])]
  BY DEF OnStart, control, Goto
<1>3. k \in Nat /\ DOMAIN Children(n) = 1..k
  <2>1. Children(n) \in Seq(Workers)
    BY TreeFacts DEF Types
  <2>2. QED
    BY <2>1
<1>4. l \in {"copy", "compute"} /\ (l = "compute" <=> k = 0)
  BY DEF Down
<1> HIDE DEF k, l
<1>5. Alone(n)
  <2>1. \A m \in Members \ {n} : queue_'[m] = queue_[m]
    <3>1. CASE n = root
      BY <1>2, <3>1
    <3>2. CASE n # root
      BY <1>1, <1>2, <3>2, TreeFacts DEF Types
    <3>3. QED
      BY <3>1, <3>2
  <2>2. QED
    BY <1>1, <1>2, <2>1 DEF Alone
<1>6. root' = root /\ pc'[n] = l /\ at'[n] = k /\ \A p : Children(p)' = Children(p)
  BY <1>1, <1>2, SameTree
<1>7. Round(n)' = Round(n) /\ iter_'[root'] = iter_[root]
  BY <1>1, <1>2, <1>4, <1>6 DEF Round
<1>8. queue_'[n] = << >>
  <2>1. CASE n = root
    BY <1>1, <1>2, <2>1 DEF RoundsInv, QueueInv, Active
  <2>2. CASE n # root
    <3>1. Called(n, parent_(n))
      BY <1>1, <1>2, <2>2, WordFromParent DEF RoundsInv, Workers, Active
    <3>2. queue_[n] = << parent_(n) >>
      BY <3>1 DEF Called
    <3>3. QED
      BY <1>1, <1>2, <2>2, <3>2, OneWord
  <2>3. QED
    BY <2>1, <2>2
<1>9. ASSUME n # root PROVE ~Reported(n) /\ ~Waiting(n) /\ Working(n)'
  <2>1. Called(n, parent_(n))
    BY <1>1, <1>2, <1>9, WordFromParent DEF RoundsInv, Workers, Active
  <2>2. QED
    BY <1>4, <1>6, <1>7, <2>1, Apart DEF Working, Active, Called
<1>10. ASSUME n # root PROVE Keeps(n) /\ ~Reported(n)'
  BY <1>1, <1>4, <1>6, <1>9, <1>10 DEF Keeps, Working, Reported, Active
<1>11. ASSUME NEW i \in DOMAIN Children(n) PROVE KeepsChild(n, i) /\ ~Told(n, i)
  <2>1. ~Told(n, i)
    BY <1>1, <1>9 DEF Told, Through
  <2>2. ~Told(n, i)' /\ ~Through(n)'
    BY <1>1, <1>3, <1>4, <1>6, <1>10, <1>11 DEF Told, Through
  <2>3. QED
    BY <1>4, <1>6, <2>1, <2>2 DEF KeepsChild
<1>12. PlaceOf(n)'
  <2>1. PlaceOf(n)
    BY DEF RoundsInv, PlaceInv
  <2>2. k # 0 => k \in 1..k
    BY <1>3
  <2>3. 0 \in 0..iter_size - 1
    BY P2PSyncAssumption
  <2>4. Len(Children(n)') = k
    BY <1>6 DEF k
  <2>5. QED
    BY <1>1, <1>2, <1>4, <1>6, <2>1, <2>2, <2>3, <2>4 DEF PlaceOf, Active
<1>13. Collecting(n)'
  <2>0. \A c \in Members \ {n} : Reported(c)' <=> Reported(c)
    BY <1>5, Untouched DEF Alone
  <2>1. ASSUME NEW c \in Kids(n) PROVE ~Reported(c)'
    <3>1. Waiting(c) /\ c \in Members \ {n}
      BY <1>11, ChildFacts DEF RoundsInv, EdgeInv, Edge, Types, Kids, Elements
    <3>2. ~Reported(c)
      BY <3>1, Apart
    <3>3. QED
      BY <2>0, <3>1, <3>2
  <2>2. Gathered(n)' = {}
    BY <1>2, <2>1, SameTree DEF Gathered
  <2>3. QED
    BY <1>4, <1>6, <1>8, <2>2 DEF Collecting
<1>14. n = root => pc'[root] \in Active
  BY <1>4, <1>6 DEF Active
<1>15. QED
  BY <1>1, <1>5, <1>9, <1>10, <1>11, <1>12, <1>13, <1>14, AloneKeeps

-----------------------------------------------------------------------------
(* Queues and the children they hold *)

LEMMA QueueEnds ==
  ASSUME NEW S, NEW q \in Seq(S)
  PROVE  /\ Elements(q) = {} => q = << >>
         /\ DOMAIN q = 1..Len(q) /\ Len(q) \in Nat
<1>1. DOMAIN q = 1..Len(q) /\ Len(q) \in Nat
  OBVIOUS
<1>2. ASSUME q # << >> PROVE q[1] \in Elements(q)
  <2>1. 1 \in DOMAIN q
    BY <1>1, <1>2
  <2>2. QED
    BY <2>1 DEF Elements
<1>3. QED
  BY <1>1, <1>2

LEMMA QueueTail ==
  ASSUME NEW S, NEW q \in Seq(S), q # << >>, \A i, j \in DOMAIN q : q[i] = q[j] => i = j
  PROVE  /\ Head(q) \in Elements(q) /\ Elements(q) \subseteq S
         /\ Elements(Tail(q)) = Elements(q) \ {Head(q)}
         /\ \A i, j \in DOMAIN Tail(q) : Tail(q)[i] = Tail(q)[j] => i = j
<1>1. Len(q) \in Nat /\ Len(q) > 0 /\ DOMAIN q = 1..Len(q)
  OBVIOUS
<1>2. DOMAIN Tail(q) = 1..Len(q) - 1 /\ \A i \in 1..Len(q) - 1 : Tail(q)[i] = q[i + 1]
  BY <1>1
<1>3. Head(q) = q[1] /\ 1 \in DOMAIN q
  BY <1>1
<1>4. ASSUME NEW i \in DOMAIN Tail(q) PROVE Tail(q)[i] \in Elements(q) \ {Head(q)}
  <2>1. i + 1 \in DOMAIN q /\ i + 1 # 1
    BY <1>1, <1>2
  <2>2. QED
    BY <1>2, <1>3, <2>1 DEF Elements
<1>5. ASSUME NEW i \in DOMAIN q, q[i] # Head(q) PROVE q[i] \in Elements(Tail(q))
  <2>1. i - 1 \in DOMAIN Tail(q) /\ Tail(q)[i - 1] = q[i]
    BY <1>1, <1>2, <1>3, <1>5
  <2>2. QED
    BY <2>1 DEF Elements
<1>6. Elements(Tail(q)) = Elements(q) \ {Head(q)}
  BY <1>4, <1>5 DEF Elements
<1>7. \A i, j \in DOMAIN Tail(q) : Tail(q)[i] = Tail(q)[j] => i = j
  BY <1>1, <1>2
<1>8. Head(q) \in Elements(q) /\ Elements(q) \subseteq S
  BY <1>3 DEF Elements
<1>9. QED
  BY <1>6, <1>7, <1>8

LEMMA QueueAppend ==
  ASSUME NEW S, NEW q \in Seq(S), NEW x \in S
  PROVE  /\ Elements(Append(q, x)) = Elements(q) \union {x}
         /\ x \notin Elements(q) /\ (\A i, j \in DOMAIN q : q[i] = q[j] => i = j) =>
              \A i, j \in DOMAIN Append(q, x) : Append(q, x)[i] = Append(q, x)[j] => i = j
<1>1. Len(q) \in Nat /\ DOMAIN q = 1..Len(q) /\ DOMAIN Append(q, x) = 1..Len(q) + 1
  OBVIOUS
<1>2. Append(q, x)[Len(q) + 1] = x /\ \A i \in 1..Len(q) : Append(q, x)[i] = q[i]
  OBVIOUS
<1>3. ASSUME NEW i \in DOMAIN Append(q, x) PROVE Append(q, x)[i] \in Elements(q) \union {x}
  <2>1. i \in DOMAIN q \/ i = Len(q) + 1
    BY <1>1
  <2>2. QED
    BY <1>1, <1>2, <2>1 DEF Elements
<1>4. ASSUME NEW i \in DOMAIN q PROVE q[i] \in Elements(Append(q, x))
  <2>1. i \in DOMAIN Append(q, x) /\ Append(q, x)[i] = q[i]
    BY <1>1, <1>2
  <2>2. QED
    BY <2>1 DEF Elements
<1>5. x \in Elements(Append(q, x))
  <2>1. Len(q) + 1 \in DOMAIN Append(q, x)
    BY <1>1
  <2>2. QED
    BY <1>2, <2>1 DEF Elements
<1>6. Elements(Append(q, x)) = Elements(q) \union {x}
  BY <1>3, <1>4, <1>5 DEF Elements
<1>7. ASSUME x \notin Elements(q), \A i, j \in DOMAIN q : q[i] = q[j] => i = j,
             NEW i \in DOMAIN Append(q, x), NEW j \in DOMAIN Append(q, x),
             Append(q, x)[i] = Append(q, x)[j]
      PROVE  i = j
  <2>1. (i \in DOMAIN q \/ i = Len(q) + 1) /\ (j \in DOMAIN q \/ j = Len(q) + 1)
    BY <1>1
  <2>2. \A k \in DOMAIN q : q[k] # x
    BY <1>7 DEF Elements
  <2>3. QED
    BY <1>1, <1>2, <1>7, <2>1, <2>2
<1>8. QED
  BY <1>6, <1>7

LEMMA KidsCount ==
  ASSUME Types, NEW n \in Members
  PROVE  /\ IsFiniteSet(Kids(n)) /\ Cardinality(Kids(n)) = Len(Children(n))
         /\ Len(Children(n)) \in Nat /\ Kids(n) \subseteq Workers /\ n \notin Kids(n)
         /\ DOMAIN Children(n) = 1..Len(Children(n))
<1>1. Children(n) \in Seq(Workers)
  BY TreeFacts DEF Types
<1>2. Len(Children(n)) \in Nat /\ DOMAIN Children(n) = 1..Len(Children(n))
  BY <1>1
<1>3. Kids(n) \subseteq Workers /\ n \notin Kids(n)
  BY ChildFacts DEF Kids, Elements, Types
<1>4. Children(n) \in Bijection(1..Len(Children(n)), Kids(n))
  <2>1. Children(n) \in [1..Len(Children(n)) -> Kids(n)]
    BY <1>1, <1>2 DEF Kids, Elements
  <2>2. \A i, j \in 1..Len(Children(n)) : Children(n)[i] = Children(n)[j] => i = j
    BY <1>2, TreeFacts DEF Types
  <2>3. \A c \in Kids(n) : \E i \in 1..Len(Children(n)) : Children(n)[i] = c
    BY <1>2 DEF Kids, Elements
  <2>4. QED
    BY <2>1, <2>2, <2>3 DEF Bijection, Injection, Surjection, IsInjective
<1>5. IsFiniteSet(1..Len(Children(n))) /\ Cardinality(1..Len(Children(n))) = Len(Children(n))
  <2>1. \A k \in Nat : IsFiniteSet(1..k) /\ Cardinality(1..k) = IF 1 > k THEN 0 ELSE k - 1 + 1
    BY FS_Interval
  <2>2. \A k \in Nat : (IF 1 > k THEN 0 ELSE k - 1 + 1) = k
    OBVIOUS
  <2>3. QED
    BY <1>2, <2>1, <2>2
<1>6. ExistsBijection(1..Len(Children(n)), Kids(n))
  BY <1>4 DEF ExistsBijection
<1>7. IsFiniteSet(Kids(n)) /\ Cardinality(Kids(n)) = Len(Children(n))
  BY <1>5, <1>6, FS_Bijection
<1>8. QED
  BY <1>2, <1>3, <1>7

-----------------------------------------------------------------------------
(* The steps of a solver, again *)

\* n is not among the workers that see a difference: it is active, and stays so
LEMMA StaysActive ==
  ASSUME Types, RoundsInv, NEW n \in Members, tree' = tree, initial_iter_' = initial_iter_,
         iter_' = iter_, pc[n] \in Active, pc'[n] \in Active, n # root
  PROVE  Keeps(n) /\ ~Reported(n) /\ ~Reported(n)' /\ Working(n)
<1>1. Working(n)
  BY ActiveWorks DEF RoundsInv, Workers
<1>2. root' = root
  BY SameTree
<1>3. Working(n)' /\ ~Reported(n)'
  BY <1>1, <1>2 DEF Working, Reported, Round, Active
<1>4. QED
  BY <1>1, <1>3, Apart DEF Keeps

LEMMA ForwardBackwardRounds ==
  ASSUME Types, RoundsInv, NEW n \in Members, ForwardBackward(n)
  PROVE  RoundsInv' /\ Gathered(n)' = {} /\ (pc'[n] \in {"apply", "leave"} => Kids(n) = {})
<1> DEFINE k == Len(Children(n))
<1>1. /\ n \in Solvers /\ root \in Members /\ pc \in [Solvers -> Places] /\ at \in [Solvers -> Int]
      /\ pc[n] = "compute" /\ queue_[n] \in Seq(Members)
  BY SolverTypes DEF ForwardBackward, Types, ThreadTypes
<1>2. UNCHANGED << tree, initial_iter_, data_, interrupted, iter_, queue_, hand >>
  BY DEF ForwardBackward, control
<1>3. \/ at[n] + 1 < iter_size /\ at' = [at EXCEPT ![n] = at[n] + 1] /\ pc' = pc
      \/ at' = [at EXCEPT ![n] = 0] /\ pc' = [pc EXCEPT ![n] = Up(n, 0)]
  BY DEF ForwardBackward, Goto
<1>4. /\ k \in Nat /\ DOMAIN Children(n) = 1..k /\ IsFiniteSet(Kids(n)) /\ Cardinality(Kids(n)) = k
      /\ Kids(n) \subseteq Workers /\ n \notin Kids(n)
  BY KidsCount
<1> HIDE DEF k
<1>5. Alone(n)
  <2>1. \A m \in Members \ {n} : pc'[m] = pc[m] /\ at'[m] = at[m]
    BY <1>1, <1>3, TreeFacts DEF Types
  <2>2. QED
    BY <1>1, <1>2, <2>1 DEF Alone
<1>6. root' = root /\ Kids(n)' = Kids(n) /\ Children(n)' = Children(n)
  BY <1>2, SameTree
<1>7. \/ pc'[n] = "compute" /\ at'[n] = at[n] + 1 /\ at[n] + 1 < iter_size
      \/ pc'[n] = "gather" /\ at'[n] = 0 /\ 0 < k
      \/ pc'[n] = "apply" /\ at'[n] = 0 /\ n = root /\ k = 0
      \/ pc'[n] = "leave" /\ at'[n] = 0 /\ n # root /\ k = 0
  BY <1>1, <1>3, <1>4 DEF Up, k
<1>8. ASSUME n # root PROVE Keeps(n) /\ ~Reported(n) /\ ~Reported(n)'
  BY <1>1, <1>2, <1>7, <1>8, StaysActive DEF Active
<1>9. ASSUME NEW i \in DOMAIN Children(n) PROVE KeepsChild(n, i)
  <2>1. k # 0
    BY <1>4, <1>9
  <2>2. QED
    BY <1>1, <1>6, <1>7, <1>8, <2>1 DEF KeepsChild, Told, Through
<1>10. PlaceOf(n)'
  <2>1. PlaceOf(n)
    BY DEF RoundsInv, PlaceInv
  <2>2. at[n] \in 0..iter_size - 1
    BY <1>1, <2>1 DEF PlaceOf
  <2>3. pc'[n] = "compute" => at'[n] \in 0..iter_size - 1
    BY <1>7, <2>2, P2PSyncAssumption
  <2>4. QED
    BY <1>1, <1>2, <1>6, <1>7, <2>1, <2>3 DEF PlaceOf, Active
<1>11. Collecting(n)
  BY <1>1 DEF RoundsInv, QueueInv, Active
<1>12. \A c \in Kids(n) : Reported(c)' <=> Reported(c)
  <2>1. \A c \in Members \ {n} : Reported(c)' <=> Reported(c)
    BY <1>5, Untouched DEF Alone
  <2>2. QED
    BY <1>4, <2>1 DEF Workers
<1>13. Gathered(n)' = {}
  BY <1>1, <1>2, <1>6, <1>11, <1>12 DEF Collecting, Gathered, Elements
<1>14. k = 0 => queue_[n] = << >>
  <2>1. k = 0 => Kids(n) = {}
    BY <1>4, FS_EmptySet
  <2>2. Elements(queue_[n]) \subseteq Kids(n)
    BY <1>11 DEF Collecting, Elements
  <2>3. QED
    BY <1>1, <2>1, <2>2, QueueEnds
<1>15. ASSUME pc'[n] \in Active PROVE Collecting(n)'
  <2>1. Cardinality({}) = 0
    BY FS_EmptySet
  <2>2. Len(Children(n)') = k
    BY <1>6 DEF k
  <2>3. \A i \in DOMAIN queue_'[n] : queue_'[n][i] \in Kids(n)' /\ Reported(queue_[n][i])'
    BY <1>2, <1>6, <1>11, <1>12 DEF Collecting
  <2>4. QED
    BY <1>1, <1>2, <1>7, <1>11, <1>13, <1>14, <2>1, <2>2, <2>3 DEF Collecting
<1>16. n = root => (pc'[root] \notin Active => queue_'[root] = << >>)
  BY <1>2, <1>7, <1>14 DEF Active
<1>17. RoundsInv'
  BY <1>1, <1>5, <1>8, <1>9, <1>10, <1>15, <1>16, AloneKeeps
<1>18. pc'[n] \in {"apply", "leave"} => Kids(n) = {}
  BY <1>4, <1>7, FS_EmptySet
<1>19. QED
  BY <1>13, <1>17, <1>18

LEMMA GatherRounds ==
  ASSUME Types, RoundsInv, NEW n \in Members, Gather(n) PROVE RoundsInv' /\ Gathered(n)' = Gathered(n)
<1> DEFINE h == Head(queue_[n])
<1>1. /\ n \in Solvers /\ root \in Members /\ Members \subseteq Solvers /\ pc \in [Solvers -> Places]
      /\ pc[n] = "gather" /\ queue_[n] \in Seq(Members) /\ queue_[n] # << >>
  BY SolverTypes, TreeFacts DEF Gather, Types, ThreadTypes
<1>2. /\ UNCHANGED << tree, initial_iter_, data_, interrupted, iter_, at >>
      /\ pc' = [pc EXCEPT ![n] = "add"] /\ hand' = [hand EXCEPT ![n] = h]
      /\ queue_' = [queue_ EXCEPT ![n] = Tail(queue_[n])]
  BY DEF Gather, control, Goto
<1>3. hand \in [Solvers -> Members] /\ queue_ \in [Solvers -> Seq(Members)]
  BY DEF Types, ThreadTypes
<1>4. /\ pc'[n] = "add" /\ hand'[n] = h /\ queue_'[n] = Tail(queue_[n]) /\ at'[n] = at[n]
      /\ \A m \in Members \ {n} : pc'[m] = pc[m] /\ hand'[m] = hand[m] /\ queue_'[m] = queue_[m]
  BY <1>1, <1>2, <1>3
<1>5. Alone(n)
  BY <1>2, <1>4 DEF Alone
<1>6. root' = root /\ Kids(n)' = Kids(n) /\ Children(n)' = Children(n)
  BY <1>2, SameTree
<1>7. ASSUME n # root PROVE Keeps(n) /\ ~Reported(n) /\ ~Reported(n)'
  BY <1>1, <1>2, <1>4, <1>7, StaysActive DEF Active
<1>8. ASSUME NEW i \in DOMAIN Children(n) PROVE KeepsChild(n, i)
  BY <1>1, <1>4, <1>6, <1>7 DEF KeepsChild, Told, Through
<1>9. PlaceOf(n)'
  BY <1>1, <1>2, <1>4, <1>6 DEF RoundsInv, PlaceInv, PlaceOf, Active
<1>10. Collecting(n)
  BY <1>1 DEF RoundsInv, QueueInv, Active
<1>11. /\ h \in Elements(queue_[n]) /\ Elements(Tail(queue_[n])) = Elements(queue_[n]) \ {h}
       /\ \A i, j \in DOMAIN Tail(queue_[n]) : Tail(queue_[n])[i] = Tail(queue_[n])[j] => i = j
  BY <1>1, <1>10, QueueTail DEF Collecting
<1> HIDE DEF h
<1>12. \A c \in Kids(n) : Reported(c)' <=> Reported(c)
  <2>1. \A c \in Members \ {n} : Reported(c)' <=> Reported(c)
    BY <1>5, Untouched DEF Alone
  <2>2. QED
    BY <2>1, KidsCount DEF Workers
<1>13. h \in Kids(n) /\ Reported(h)
  BY <1>10, <1>11 DEF Collecting, Elements
<1>14. Elements(queue_[n])' = Elements(queue_[n]) \ {h}
  <2>1. Elements(queue_[n])' = Elements(queue_'[n])
    BY DEF Elements
  <2>2. QED
    BY <1>4, <1>11, <2>1
<1>15. Gathered(n)' = Gathered(n)
  BY <1>1, <1>4, <1>6, <1>11, <1>12, <1>14 DEF Gathered
<1>16. Collecting(n)'
  <2>1. \A i \in DOMAIN Tail(queue_[n]) : Tail(queue_[n])[i] \in Kids(n) /\ Reported(Tail(queue_[n])[i])
    <3>1. \A x \in Elements(queue_[n]) : x \in Kids(n) /\ Reported(x)
      BY <1>10 DEF Collecting, Elements
    <3>2. \A i \in DOMAIN Tail(queue_[n]) : Tail(queue_[n])[i] \in Elements(Tail(queue_[n]))
      BY DEF Elements
    <3>3. QED
      BY <1>11, <3>1, <3>2
  <2>2. \A i \in DOMAIN queue_'[n] : queue_'[n][i] \in Kids(n)' /\ Reported(queue_[n][i])'
    BY <1>4, <1>6, <1>12, <2>1
  <2>3. hand'[n] \in Kids(n)' /\ Reported(hand[n])' /\ hand'[n] \notin Elements(queue_[n])'
    BY <1>4, <1>6, <1>12, <1>13, <1>14
  <2>4. QED
    BY <1>1, <1>4, <1>6, <1>10, <1>11, <1>15, <2>2, <2>3 DEF Collecting
<1>17. n = root => pc'[root] \in Active
  BY <1>4 DEF Active
<1>18. QED
  BY <1>1, <1>5, <1>7, <1>8, <1>9, <1>15, <1>16, <1>17, AloneKeeps

LEMMA AddRounds ==
  ASSUME Types, RoundsInv, NEW n \in Members, Add(n)
  PROVE  /\ RoundsInv' /\ Gathered(n)' = Gathered(n) \union {hand[n]}
         /\ hand[n] \in Kids(n) \ Gathered(n) /\ Reported(hand[n])
         /\ pc'[n] \in {"apply", "leave"} => Gathered(n)' = Kids(n)
<1> DEFINE k == Len(Children(n))
           G == Gathered(n) \union {hand[n]}
<1>1. /\ n \in Solvers /\ root \in Members /\ Members \subseteq Solvers /\ pc \in [Solvers -> Places]
      /\ pc[n] = "add" /\ queue_[n] \in Seq(Members) /\ at \in [Solvers -> Int] /\ at[n] \in Int
  BY SolverTypes, TreeFacts DEF Add, Types, ThreadTypes
<1>2. /\ UNCHANGED << tree, initial_iter_, data_, interrupted, iter_, queue_, hand >>
      /\ at' = [at EXCEPT ![n] = at[n] + 1] /\ pc' = [pc EXCEPT ![n] = Up(n, at[n] + 1)]
  BY DEF Add, control, Goto
<1>3. /\ k \in Nat /\ DOMAIN Children(n) = 1..k /\ IsFiniteSet(Kids(n)) /\ Cardinality(Kids(n)) = k
      /\ Kids(n) \subseteq Workers /\ n \notin Kids(n)
  BY KidsCount
<1>4. pc'[n] = Up(n, at[n] + 1) /\ at'[n] = at[n] + 1
  BY <1>1, <1>2
<1>5. Alone(n)
  <2>1. \A m \in Members \ {n} : pc'[m] = pc[m] /\ at'[m] = at[m]
    BY <1>1, <1>2
  <2>2. QED
    BY <1>1, <1>2, <2>1 DEF Alone
<1>6. root' = root /\ Kids(n)' = Kids(n) /\ Children(n)' = Children(n)
  BY <1>2, SameTree
<1>7. Collecting(n)
  BY <1>1 DEF RoundsInv, QueueInv, Active
<1>8. /\ at[n] = Cardinality(Gathered(n)) /\ at[n] < k
      /\ hand[n] \in Kids(n) /\ Reported(hand[n]) /\ hand[n] \notin Elements(queue_[n])
  BY <1>1, <1>7 DEF Collecting, k
<1> HIDE DEF k
<1>9. \A c \in Kids(n) : Reported(c)' <=> Reported(c)
  <2>1. \A c \in Members \ {n} : Reported(c)' <=> Reported(c)
    BY <1>5, Untouched DEF Alone
  <2>2. QED
    BY <1>3, <2>1 DEF Workers
<1>10. pc'[n] \in {"gather", "apply", "leave"} /\ (pc'[n] = "gather" <=> at[n] + 1 < k)
       /\ (pc'[n] = "apply" => n = root) /\ (pc'[n] = "leave" => n # root)
  BY <1>4 DEF Up, k
<1>11. G = {c \in Kids(n) : Reported(c) /\ c \notin Elements(queue_[n])}
  BY <1>1, <1>8 DEF Gathered
<1>12. Gathered(n)' = G
  <2>1. Elements(queue_[n])' = Elements(queue_[n])
    BY <1>2 DEF Elements
  <2>2. QED
    BY <1>6, <1>9, <1>10, <1>11, <2>1 DEF Gathered
<1>13. IsFiniteSet(Gathered(n)) /\ G \in SUBSET Kids(n) /\ hand[n] \notin Gathered(n)
  <2>1. Gathered(n) \in SUBSET Kids(n) /\ hand[n] \notin Gathered(n)
    BY <1>1 DEF Gathered
  <2>2. QED
    BY <1>3, <1>8, <2>1, FS_Subset
<1> HIDE DEF G
<1>14. Cardinality(G) = at[n] + 1
  BY <1>8, <1>13, FS_AddElement DEF G
<1>15. ASSUME ~(at[n] + 1 < k) PROVE G = Kids(n) /\ queue_[n] = << >>
  <2>1. G = Kids(n)
    BY <1>1, <1>3, <1>8, <1>13, <1>14, <1>15, FS_Subset
  <2>2. Elements(queue_[n]) \subseteq Kids(n)
    BY <1>7 DEF Collecting, Elements
  <2>3. Elements(queue_[n]) = {}
    BY <1>11, <2>1, <2>2
  <2>4. QED
    BY <1>1, <2>1, <2>3, QueueEnds
<1>16. ASSUME n # root PROVE Keeps(n) /\ ~Reported(n) /\ ~Reported(n)'
  BY <1>1, <1>2, <1>10, <1>16, StaysActive DEF Active
<1>17. ASSUME NEW i \in DOMAIN Children(n) PROVE KeepsChild(n, i)
  <2>1. Children(n)[i] \in Kids(n)
    BY DEF Kids, Elements
  <2>2. Through(n)' => Reported(Children(n)[i])
    <3>1. ASSUME Through(n)' PROVE ~(at[n] + 1 < k)
      BY <1>6, <1>10, <1>16, <3>1 DEF Through
    <3>2. QED
      BY <1>11, <1>15, <2>1, <3>1
  <2>3. Told(n, i) /\ Told(n, i)'
    BY <1>1, <1>6, <1>10 DEF Told, Through
  <2>4. QED
    BY <1>10, <2>2, <2>3 DEF KeepsChild
<1>18. PlaceOf(n)'
  <2>1. PlaceOf(n)
    BY DEF RoundsInv, PlaceInv
  <2>2. QED
    BY <1>1, <1>2, <1>6, <1>10, <2>1 DEF PlaceOf, Active
<1>19. Collecting(n)'
  <2>1. \A i \in DOMAIN queue_'[n] : queue_'[n][i] \in Kids(n)' /\ Reported(queue_[n][i])'
    BY <1>2, <1>6, <1>7, <1>9 DEF Collecting
  <2>2. Len(Children(n)') = k
    BY <1>6 DEF k
  <2>3. QED
    BY <1>2, <1>4, <1>7, <1>10, <1>12, <1>14, <1>15, <2>1, <2>2 DEF Collecting
<1>20. n = root => (pc'[root] \notin Active => queue_'[root] = << >>)
  BY <1>2, <1>10, <1>15 DEF Active
<1>21. RoundsInv'
  BY <1>1, <1>5, <1>16, <1>17, <1>18, <1>19, <1>20, AloneKeeps
<1>22. pc'[n] \in {"apply", "leave"} => Gathered(n)' = Kids(n)
  BY <1>10, <1>12, <1>15
<1>23. QED
  BY <1>8, <1>12, <1>13, <1>21, <1>22 DEF G

LEMMA LeaveRounds == ASSUME Types, RoundsInv, NEW n \in Members, Leave(n) PROVE RoundsInv'
<1>1. /\ n \in Solvers /\ root \in Members /\ Members \subseteq Solvers /\ pc \in [Solvers -> Places]
      /\ pc[n] = "leave"
  BY SolverTypes, TreeFacts DEF Leave, Types, ThreadTypes
<1>2. /\ UNCHANGED << tree, initial_iter_, data_, interrupted, iter_, queue_, hand, at >>
      /\ pc' = [pc EXCEPT ![n] = "report"]
  BY DEF Leave, control, Goto
<1>3. pc'[n] = "report" /\ \A m \in Members \ {n} : pc'[m] = pc[m]
  BY <1>1, <1>2
<1>4. Alone(n)
  BY <1>2, <1>3 DEF Alone
<1>5. root' = root /\ Kids(n)' = Kids(n) /\ Children(n)' = Children(n)
  BY <1>2, SameTree
<1>6. n # root /\ PlaceOf(n)
  BY <1>1 DEF RoundsInv, PlaceInv, PlaceOf
<1>7. Keeps(n) /\ ~Reported(n) /\ ~Reported(n)'
  BY <1>1, <1>2, <1>3, <1>6, StaysActive DEF Active
<1>8. ASSUME NEW i \in DOMAIN Children(n) PROVE KeepsChild(n, i)
  BY <1>1, <1>3, <1>5, <1>7 DEF KeepsChild, Told, Through
<1>9. PlaceOf(n)'
  BY <1>1, <1>2, <1>3, <1>5, <1>6 DEF PlaceOf, Active
<1>10. Collecting(n)'
  <2>1. Collecting(n)
    BY <1>1 DEF RoundsInv, QueueInv, Active
  <2>2. queue_'[n] = << >>
    BY <1>1, <1>2, <2>1 DEF Collecting
  <2>3. QED
    BY <1>3, <2>2 DEF Collecting
<1>11. QED
  BY <1>4, <1>6, <1>7, <1>8, <1>9, <1>10, AloneKeeps

LEMMA WorkerApplyRounds ==
  ASSUME Types, RoundsInv, NEW n \in Workers, Apply(n) PROVE RoundsInv'
<1>1. /\ n \in Members /\ n \in Solvers /\ root \in Members /\ Members \subseteq Solvers /\ n # root
      /\ pc \in [Solvers -> Places] /\ iter_ \in [Solvers -> Nat]
      /\ iter_[n] \in Nat /\ initial_iter_ \in Nat /\ pc[n] = "apply"
  BY SolverTypes, TreeFacts DEF Apply, Types, ThreadTypes, Workers
<1>2. /\ UNCHANGED << tree, initial_iter_, data_, interrupted, queue_, hand, at >>
      /\ pc' = [pc EXCEPT ![n] = "top"] /\ iter_' = [iter_ EXCEPT ![n] = iter_[n] + 1]
  BY <1>1 DEF Apply, control, sync, Goto
<1>3. /\ pc'[n] = "top" /\ iter_'[n] = iter_[n] + 1 /\ iter_'[root] = iter_[root]
      /\ \A m \in Members \ {n} : pc'[m] = pc[m] /\ iter_'[m] = iter_[m]
  BY <1>1, <1>2
<1>4. Alone(n)
  BY <1>2, <1>3 DEF Alone
<1>5. root' = root /\ iter_'[root'] = iter_[root]
  BY <1>2, <1>3, SameTree
<1>6. Round(n)' = Round(n)
  <2>1. iter_[n] + initial_iter_ + 1 = iter_[n] + 1 + initial_iter_
    BY <1>1
  <2>2. QED
    BY <1>1, <1>2, <1>3, <2>1 DEF Round
<1>7. Keeps(n) /\ (Reported(n)' <=> Reported(n))
  BY <1>1, <1>2, <1>3, <1>5, <1>6 DEF Keeps, Waiting, Called, Working, Reported, Active
<1>8. ASSUME NEW i \in DOMAIN Children(n) PROVE KeepsChild(n, i)
  BY <1>1, <1>3, <1>5, <1>7 DEF KeepsChild, Told, Through
<1>9. PlaceOf(n)' /\ pc'[n] \notin Active
  BY <1>1, <1>3, <1>5 DEF PlaceOf, Active
<1>10. QED
  BY <1>1, <1>4, <1>7, <1>8, <1>9, AloneKeeps

LEMMA InterruptedRounds == ASSUME Types, RoundsInv, NEW n \in Members, Interrupted(n) PROVE RoundsInv'
<1>1. /\ n \in Solvers /\ root \in Members /\ Members \subseteq Solvers /\ n # root /\ n \in Workers
      /\ pc \in [Solvers -> Places] /\ interrupted[n] /\ pc[n] \in {"start", "gather"}
  BY SolverTypes, TreeFacts DEF Interrupted, Types, ThreadTypes, Workers
<1>2. /\ UNCHANGED << tree, initial_iter_, data_, interrupted, iter_, queue_, hand, at >>
      /\ pc' = [pc EXCEPT ![n] = "ended"]
  BY DEF Interrupted, control, sync, Goto
<1>3. pc'[n] = "ended" /\ \A m \in Members \ {n} : pc'[m] = pc[m]
  BY <1>1, <1>2
<1>4. Waiting(n) /\ ~Reported(n) /\ ~Working(n) /\ (\A p : ~Called(n, p)) /\ pc[n] = "start"
  <2>1. Waiting(n)
    BY <1>1, AllWait DEF RoundsInv, PlaceInv, Active
  <2>2. QED
    BY <1>1, <2>1, Apart DEF Waiting
<1>5. Alone(n)
  BY <1>2, <1>3 DEF Alone
<1>6. root' = root /\ Round(n)' = Round(n)
  BY <1>2, <1>3, <1>4, SameTree DEF Round
<1>7. Waiting(n)' /\ ~Reported(n)'
  BY <1>2, <1>3, <1>4, <1>6 DEF Waiting, Reported
<1>8. Keeps(n)
  BY <1>4, <1>7 DEF Keeps
<1>9. ASSUME NEW i \in DOMAIN Children(n) PROVE KeepsChild(n, i)
  BY <1>3, <1>4, <1>6, <1>7 DEF KeepsChild, Told, Through
<1>10. PlaceOf(n)' /\ pc'[n] \notin Active
  BY <1>1, <1>2, <1>3, <1>6 DEF PlaceOf, Active
<1>11. QED
  BY <1>1, <1>4, <1>5, <1>7, <1>8, <1>9, <1>10, AloneKeeps

-----------------------------------------------------------------------------
(* The steps two solvers take part in *)

LEMMA CopyRounds == ASSUME Types, RoundsInv, NEW n \in Members, Copy(n) PROVE RoundsInv'
<1> DEFINE a == at[n]
           c == Children(n)[a]
<1>1. /\ n \in Solvers /\ root \in Members /\ Members \subseteq Solvers /\ pc \in [Solvers -> Places]
      /\ data_ \in [Solvers -> Int] /\ pc[n] = "copy" /\ PlaceOf(n)
  BY SolverTypes, TreeFacts DEF Copy, Types, ThreadTypes, RoundsInv, PlaceInv
<1>2. /\ UNCHANGED << tree, initial_iter_, interrupted, iter_, queue_, hand, at >>
      /\ pc' = [pc EXCEPT ![n] = "tell"] /\ data_' = [data_ EXCEPT ![c] = data_[n]]
  BY DEF Copy, control, sync, Goto
<1>3. pc'[n] = "tell" /\ \A m \in Members \ {n} : pc'[m] = pc[m]
  BY <1>1, <1>2
<1>4. a \in DOMAIN Children(n)
  BY <1>1, KidsCount DEF PlaceOf
<1>5. c \in Workers /\ c \in Members /\ c # root
  BY <1>4, ChildFacts DEF Types
<1>6. /\ root' = root /\ Kids(n)' = Kids(n) /\ (\A p : Children(p)' = Children(p))
      /\ Members' = Members /\ Workers' = Workers
  BY <1>2, SameTree
<1>7. data_[n] = data_[root]
  BY <1>1, ActiveWorks DEF RoundsInv, Workers, Active
<1>8. /\ data_'[c] = data_[root] /\ data_'[root] = data_[root]
      /\ \A m \in Members \ {c} : data_'[m] = data_[m]
  BY <1>1, <1>2, <1>5, <1>7
<1>9. n # root => Keeps(n) /\ ~Reported(n) /\ ~Reported(n)' /\ Working(n)
  BY <1>1, <1>2, <1>3, StaysActive DEF Active
<1>10. \A m \in Members \ {n} :
         /\ Waiting(m)' <=> Waiting(m)
         /\ \A p : Called(m, p)' <=> Called(m, p)
         /\ Working(m)' <=> Working(m)
         /\ Reported(m)' <=> Reported(m)
         /\ Through(m)' <=> Through(m)
         /\ \A i : Told(m, i)' <=> Told(m, i)
  BY <1>2, <1>3, Untouched
<1>11. \A i : (Told(n, i)' <=> Told(n, i)) /\ ~Through(n) /\ ~Through(n)'
  BY <1>1, <1>2, <1>3, <1>6, <1>9 DEF Told, Through
<1>12. \A m \in Workers : Keeps(m)
  <2> TAKE m \in Workers
  <2>1. CASE m = n
    BY <1>9, <2>1 DEF Workers
  <2>2. CASE m # n
    BY <1>10, <2>2 DEF Keeps, Workers
  <2>3. QED
    BY <2>1, <2>2
<1>13. ASSUME NEW p \in Members, NEW i \in DOMAIN Children(p) PROVE Edge(p, i)'
  <2> DEFINE d == Children(p)[i]
  <2>1. d \in Workers /\ d \in Members /\ Edge(p, i)
    BY ChildFacts DEF Types, RoundsInv, EdgeInv
  <2>2. (p = n /\ i = a) \/ d # c
    BY <1>4, TreeFacts DEF Types
  <2>3. d' = d
    BY <1>6
  <2> HIDE DEF d
  <2>4. Keeps(d)
    BY <1>12, <2>1
  <2>5. (Told(p, i)' <=> Told(p, i)) /\ (Through(p)' <=> Through(p))
    BY <1>10, <1>11
  <2>6. ASSUME Told(p, i)' \/ (pc'[p] = "tell" /\ i = at'[p]) PROVE data_'[d] = data_'[root]
    <3>1. CASE p = n /\ i = a
      BY <1>8, <3>1 DEF d
    <3>2. CASE d # c
      <4>1. Told(p, i) \/ (pc[p] = "tell" /\ i = at[p])
        BY <1>2, <1>3, <2>2, <2>5, <2>6, <3>2 DEF d
      <4>2. data_[d] = data_[root]
        BY <2>1, <4>1 DEF Edge, d
      <4>3. QED
        BY <1>8, <2>1, <3>2, <4>2
    <3>3. QED
      BY <2>2, <3>1, <3>2
  <2>7. (~Told(p, i) => Waiting(d))' /\ (Through(p) => Reported(d))'
    BY <2>1, <2>3, <2>4, <2>5 DEF Edge, Keeps, d
  <2>8. (Told(p, i) => Called(d, p) \/ Working(d) \/ Reported(d))'
    BY <2>1, <2>3, <2>4, <2>5 DEF Edge, Keeps, d
  <2>9. QED
    BY <1>6, <2>3, <2>6, <2>7, <2>8 DEF Edge, d
<1>14. EdgeInv'
  BY <1>6, <1>13 DEF EdgeInv
<1>15. \A m \in Workers : Reported(m)' <=> Reported(m)
  BY <1>9, <1>10 DEF Workers
<1>16. ASSUME NEW p \in Members, pc'[p] \in Active PROVE Collecting(p)'
  <2>1. Kids(p) \subseteq Workers
    BY KidsCount
  <2>2. Collecting(p)
    BY <1>1, <1>3, <1>16 DEF RoundsInv, QueueInv, Active
  <2>3. CASE p # n
    BY <1>2, <1>3, <1>15, <2>1, <2>2, <2>3, CollectingKept
  <2>4. CASE p = n
    <3>1. Gathered(n)' = Gathered(n)
      <4>1. Elements(queue_[n])' = Elements(queue_[n])
        BY <1>2 DEF Elements
      <4>2. QED
        BY <1>1, <1>3, <1>6, <1>15, <2>1, <2>4, <4>1 DEF Gathered
    <3>2. \A i \in DOMAIN queue_'[n] : queue_'[n][i] \in Kids(n)' /\ Reported(queue_[n][i])'
      BY <1>2, <1>6, <1>15, <2>1, <2>2, <2>4 DEF Collecting
    <3>3. QED
      BY <1>1, <1>2, <1>3, <2>2, <2>4, <3>1, <3>2 DEF Collecting
  <2>5. QED
    BY <2>3, <2>4
<1>17. QueueInv'
  BY <1>1, <1>2, <1>3, <1>6, <1>16 DEF QueueInv, RoundsInv, Active
<1>18. PlaceInv'
  <2>1. ASSUME NEW m \in Members PROVE PlaceOf(m)'
    <3>1. PlaceOf(m)
      BY DEF RoundsInv, PlaceInv
    <3>2. QED
      BY <1>1, <1>2, <1>3, <1>6, <3>1 DEF PlaceOf, Active
  <2>2. ASSUME NEW m \in Workers, interrupted'[m] PROVE pc'[root] \in {"stop", "done"}
    BY <1>1, <1>2, <1>3, <2>2 DEF RoundsInv, PlaceInv
  <2>3. QED
    BY <1>6, <2>1, <2>2 DEF PlaceInv
<1>19. QED
  BY <1>14, <1>17, <1>18 DEF RoundsInv

LEMMA RootApplyRounds == ASSUME Types, RoundsInv, Apply(root) PROVE RoundsInv'
<1>1. /\ root \in Solvers /\ root \in Members /\ Members \subseteq Solvers /\ pc \in [Solvers -> Places]
      /\ iter_ \in [Solvers -> Nat] /\ pc[root] = "apply" /\ iter_[root] \in Nat
  BY SolverTypes, TreeFacts DEF Apply, Types, ThreadTypes
<1>2. /\ UNCHANGED << tree, initial_iter_, interrupted, queue_, hand, at >>
      /\ pc' = [pc EXCEPT ![root] = "ask"] /\ iter_' = [iter_ EXCEPT ![root] = iter_[root] + 1]
  BY DEF Apply, control, sync, Goto
<1>3. /\ root' = root /\ Members' = Members /\ Workers' = Workers
      /\ \A p : Children(p)' = Children(p)
  BY <1>2, SameTree
<1>4. /\ pc'[root] = "ask" /\ iter_'[root'] = iter_[root] + 1
      /\ \A m \in Workers : pc'[m] = pc[m] /\ iter_'[m] = iter_[m]
  BY <1>1, <1>2, <1>3 DEF Workers
<1>5. ASSUME NEW m \in Workers PROVE Waiting(m)' /\ ~Reported(m)'
  <2>1. Reported(m)
    BY <1>1, AllReported DEF RoundsInv
  <2>2. Round(m)' = Round(m)
    BY <1>2, <1>4 DEF Round
  <2>3. QED
    BY <1>1, <1>2, <1>4, <2>1, <2>2 DEF Reported, Waiting
<1>6. ASSUME NEW p \in Members, NEW i \in DOMAIN Children(p) PROVE ~Told(p, i)' /\ ~Through(p)'
  <2>1. CASE p = root
    BY <1>3, <1>4, <2>1 DEF Told, Through
  <2>2. CASE p # root
    BY <1>3, <1>5, <2>2 DEF Told, Through, Waiting, Workers
  <2>3. QED
    BY <2>1, <2>2
<1>7. EdgeInv'
  <2>1. ASSUME NEW p \in Members, NEW i \in DOMAIN Children(p) PROVE Edge(p, i)'
    <3> DEFINE c == Children(p)[i]
    <3>1. c \in Workers /\ c' = c
      BY <1>3, ChildFacts DEF Types
    <3> HIDE DEF c
    <3>2. Waiting(c)'
      BY <1>5, <3>1
    <3>3. ~(pc'[p] = "tell")
      BY <1>4, <1>5 DEF Waiting, Workers
    <3>4. QED
      BY <1>3, <1>6, <3>1, <3>2, <3>3 DEF Edge, c
  <2>2. QED
    BY <1>3, <2>1 DEF EdgeInv
<1>8. \A m \in Members : pc'[m] \notin Active
  BY <1>4, <1>5 DEF Waiting, Workers, Active
<1>9. QueueInv'
  BY <1>1, <1>2, <1>3, <1>8 DEF QueueInv, RoundsInv, Active
<1>10. PlaceInv'
  <2>1. ASSUME NEW m \in Members PROVE PlaceOf(m)'
    <3>1. PlaceOf(m)
      BY DEF RoundsInv, PlaceInv
    <3>2. CASE m = root
      BY <1>3, <1>4, <3>2 DEF PlaceOf, Active
    <3>3. CASE m # root
      BY <1>2, <1>3, <1>4, <3>1, <3>3 DEF PlaceOf, Workers
    <3>4. QED
      BY <3>2, <3>3
  <2>2. ASSUME NEW m \in Workers PROVE ~interrupted'[m]
    BY <1>1, <1>2 DEF RoundsInv, PlaceInv
  <2>3. QED
    BY <1>3, <2>1, <2>2 DEF PlaceInv
<1>11. QED
  BY <1>7, <1>9, <1>10 DEF RoundsInv

\* The child whose turn it is waits
LEMMA ToldWaits ==
  ASSUME Types, RoundsInv, NEW n \in Members, pc[n] \in {"copy", "tell"}
  PROVE  /\ at[n] \in DOMAIN Children(n)
         /\ \A c \in Workers : c = Children(n)[at[n]] => Waiting(c)
<1>1. at[n] \in DOMAIN Children(n) /\ at[n] \in Int
  BY KidsCount, SolverTypes DEF RoundsInv, PlaceInv, PlaceOf
<1>2. ~Through(n)
  <2>1. n # root => Working(n)
    BY ActiveWorks DEF RoundsInv, Workers, Active
  <2>2. QED
    BY <2>1, Apart DEF Through
<1>3. ~Told(n, at[n])
  BY <1>1, <1>2 DEF Told
<1>4. QED
  BY <1>1, <1>3 DEF RoundsInv, EdgeInv, Edge

LEMMA TellRounds == ASSUME Types, RoundsInv, NEW n \in Members, Tell(n) PROVE RoundsInv'
<1>1. /\ n \in Solvers /\ root \in Members /\ Members \subseteq Solvers /\ pc \in [Solvers -> Places]
      /\ at \in [Solvers -> Int] /\ queue_ \in [Solvers -> Seq(Members)]
      /\ pc[n] = "tell" /\ PlaceOf(n) /\ Edge(n, at[n])
  <2>1. pc[n] = "tell" /\ PlaceOf(n)
    BY DEF Tell, RoundsInv, PlaceInv
  <2>2. at[n] \in DOMAIN Children(n)
    BY <2>1, KidsCount DEF PlaceOf
  <2>3. Edge(n, at[n])
    BY <2>2 DEF RoundsInv, EdgeInv
  <2>4. QED
    BY <2>1, <2>3, SolverTypes, TreeFacts DEF Types, ThreadTypes
<1>2. PICK a \in DOMAIN Children(n) : a = at[n]
  BY <1>1, KidsCount DEF PlaceOf
<1>3. PICK c \in Workers : c = Children(n)[a] /\ c # root /\ c # n /\ c \in Members
  BY ChildFacts DEF Types
<1>4. /\ UNCHANGED << tree, initial_iter_, interrupted, iter_, data_, hand >>
      /\ pc' = [pc EXCEPT ![n] = Down(a - 1)] /\ at' = [at EXCEPT ![n] = a - 1]
      /\ queue_' = [queue_ EXCEPT ![c] = Append(queue_[c], n)]
  BY <1>2, <1>3 DEF Tell, control, Goto
<1>5. a \in 1..Len(Children(n)) /\ Len(Children(n)) \in Nat
  BY KidsCount
<1>6. /\ pc'[n] = Down(a - 1) /\ at'[n] = a - 1 /\ queue_'[c] = Append(queue_[c], n)
      /\ \A m \in Members \ {n} : pc'[m] = pc[m] /\ at'[m] = at[m]
      /\ \A m \in Members \ {c} : queue_'[m] = queue_[m]
  BY <1>1, <1>3, <1>4
<1>7. pc'[n] \in {"copy", "compute"} /\ (pc'[n] = "compute" <=> a = 1)
  BY <1>5, <1>6 DEF Down
<1>8. /\ root' = root /\ Kids(n)' = Kids(n) /\ (\A p : Children(p)' = Children(p))
      /\ Members' = Members /\ Workers' = Workers
  BY <1>4, SameTree
<1>9. n # root => Keeps(n) /\ ~Reported(n) /\ ~Reported(n)' /\ Working(n)
  BY <1>1, <1>4, <1>7, StaysActive DEF Active
<1>10. Waiting(c) /\ data_[c] = data_[root]
  BY <1>1, <1>2, <1>3, ToldWaits DEF Edge
<1>11. iter_[root] < max_iter /\ \A m \in Workers : ~interrupted[m]
  <2>1. CASE n = root
    BY <1>1, <2>1 DEF RoundsInv, PlaceInv, PlaceOf, Active
  <2>2. CASE n # root
    BY <1>9, <2>2, Apart, InIteration DEF RoundsInv, Workers
  <2>3. QED
    BY <2>1, <2>2
<1>12. Called(c, n)'
  <2>1. pc[c] # "ended"
    <3> SUFFICES ASSUME pc[c] = "ended" PROVE FALSE
      OBVIOUS
    <3>1. PlaceOf(c)
      BY <1>3 DEF RoundsInv, PlaceInv
    <3>2. iter_[c] + initial_iter_ >= max_iter
      BY <1>3, <1>11, <3>1 DEF PlaceOf
    <3>3. iter_[c] + initial_iter_ = iter_[root]
      BY <1>10 DEF Waiting, Round
    <3>4. iter_[root] \in Nat
      BY SolverTypes, <1>1
    <3>5. QED
      BY <1>11, <3>2, <3>3, <3>4, P2PSyncAssumption
  <2>2. queue_'[c] = << n >>
    <3>1. Append(<< >>, n) = << n >>
      OBVIOUS
    <3>2. QED
      BY <1>6, <1>10, <3>1 DEF Waiting
  <2>3. Round(c)' = Round(c) /\ pc'[c] = pc[c]
    BY <1>3, <1>4, <1>6 DEF Round
  <2>4. QED
    BY <1>4, <1>8, <1>10, <2>1, <2>2, <2>3 DEF Waiting, Called
<1>13. ~Reported(c) /\ ~Reported(c)'
  <2>1. << n >> # << >>
    OBVIOUS
  <2>2. QED
    BY <1>3, <1>10, <1>12, <2>1, Apart DEF Called, Reported
<1>14. \A m \in Members \ {n, c} :
         /\ Waiting(m)' <=> Waiting(m)
         /\ \A p : Called(m, p)' <=> Called(m, p)
         /\ Working(m)' <=> Working(m)
         /\ Reported(m)' <=> Reported(m)
         /\ Through(m)' <=> Through(m)
         /\ \A i : Told(m, i)' <=> Told(m, i)
  BY <1>4, <1>6, Untouched
<1>15. \A m \in Workers \ {c} : Keeps(m)
  <2> TAKE m \in Workers \ {c}
  <2>1. CASE m = n
    BY <1>9, <2>1 DEF Workers
  <2>2. CASE m # n
    BY <1>14, <2>2 DEF Keeps, Workers
  <2>3. QED
    BY <2>1, <2>2
<1>16. /\ ~Through(n) /\ ~Through(n)'
       /\ \A i \in DOMAIN Children(n) : Told(n, i)' <=> Told(n, i) \/ i = a
  <2>1. ~Through(n) /\ ~Through(n)'
    BY <1>1, <1>7, <1>8, <1>9 DEF Through
  <2>2. \A i \in DOMAIN Children(n) : i \in 1..Len(Children(n))
    BY KidsCount
  <2>3. \A i \in DOMAIN Children(n) : Told(n, i) <=> i > a
    BY <1>1, <1>2, <2>1 DEF Told
  <2>4. \A i \in DOMAIN Children(n) : Told(n, i)' <=> pc'[n] = "compute" \/ i > a - 1
    BY <1>6, <1>7, <2>1 DEF Told
  <2>5. QED
    BY <1>5, <1>7, <2>1, <2>2, <2>3, <2>4
<1>17. ~Through(c) /\ ~Through(c)' /\ \A i : ~Told(c, i) /\ ~Told(c, i)'
  <2>1. ~Through(c) /\ ~Through(c)'
    BY <1>3, <1>8, <1>10, <1>12, <1>13 DEF Waiting, Called, Through
  <2>2. QED
    BY <1>10, <1>12, <2>1 DEF Waiting, Called, Told
<1>18. ASSUME NEW p \in Members, NEW i \in DOMAIN Children(p) PROVE Edge(p, i)'
  <2>1. Edge(p, i)
    BY DEF RoundsInv, EdgeInv
  <2>2. CASE p = n /\ i = a
    <3>1. Told(n, a)' /\ ~Through(n)' /\ data_'[c] = data_'[root']
      BY <1>4, <1>8, <1>10, <1>16
    <3>2. (Children(n)[a])' = c
      BY <1>3, <1>8
    <3>3. Edge(n, a)'
      BY <1>12, <3>1, <3>2 DEF Edge
    <3>4. QED
      BY <2>2, <3>3
  <2>3. CASE ~(p = n /\ i = a)
    <3>1. Children(p)[i] # c
      BY <1>3, <2>3, TreeFacts DEF Types
    <3>2. KeepsChild(p, i)
      <4>1. CASE p = n
        BY <1>7, <1>16, <2>3, <4>1 DEF KeepsChild
      <4>2. CASE p = c
        BY <1>10, <1>12, <1>17, <4>2 DEF KeepsChild, Waiting, Called
      <4>3. CASE p \notin {n, c}
        BY <1>6, <1>14, <4>3 DEF KeepsChild
      <4>4. QED
        BY <4>1, <4>2, <4>3
    <3>3. QED
      BY <1>4, <1>15, <2>1, <3>1, <3>2, EdgeKept
  <2>4. QED
    BY <2>2, <2>3
<1>19. EdgeInv'
  BY <1>8, <1>18 DEF EdgeInv
<1>20. \A m \in Workers : Reported(m)' <=> Reported(m)
  BY <1>9, <1>13, <1>14 DEF Workers
<1>21. ASSUME NEW p \in Members, pc'[p] \in Active PROVE Collecting(p)'
  <2>1. Kids(p) \subseteq Workers
    BY KidsCount
  <2>2. Collecting(p) /\ p # c
    BY <1>1, <1>6, <1>10, <1>12, <1>21 DEF RoundsInv, QueueInv, Active, Called
  <2>3. CASE p # n
    BY <1>4, <1>6, <1>20, <2>1, <2>2, <2>3, CollectingKept
  <2>4. CASE p = n
    <3>1. queue_'[n] = queue_[n]
      BY <1>3, <1>6
    <3>2. Gathered(n)' = {}
      <4>1. Elements(queue_[n])' = Elements(queue_[n])
        BY <3>1 DEF Elements
      <4>2. QED
        BY <1>1, <1>7, <1>8, <1>20, <2>1, <2>2, <2>4, <4>1 DEF Gathered, Collecting
    <3>3. \A i \in DOMAIN queue_'[n] : queue_'[n][i] \in Kids(n)' /\ Reported(queue_[n][i])'
      BY <1>8, <1>20, <2>1, <2>2, <2>4, <3>1 DEF Collecting
    <3>4. QED
      BY <1>7, <2>2, <2>4, <3>1, <3>2, <3>3 DEF Collecting
  <2>5. QED
    BY <2>3, <2>4
<1>22. QueueInv'
  <2>1. pc'[root] \notin Active => queue_'[root] = << >>
    BY <1>1, <1>3, <1>6, <1>7 DEF QueueInv, RoundsInv, Active
  <2>2. QED
    BY <1>8, <1>21, <2>1 DEF QueueInv
<1>23. PlaceInv'
  <2>1. ASSUME NEW m \in Members PROVE PlaceOf(m)'
    <3>1. PlaceOf(m)
      BY DEF RoundsInv, PlaceInv
    <3>2. CASE m = n
      <4>1. n = root => iter_'[n] < max_iter
        BY <1>4, <1>11
      <4>2. pc'[n] = "copy" => at'[n] \in 1..Len(Children(n))
        BY <1>5, <1>6, <1>7
      <4>3. pc'[n] = "compute" => at'[n] \in 0..iter_size - 1
        BY <1>6, <1>7, P2PSyncAssumption
      <4>4. QED
        BY <1>7, <1>8, <3>2, <4>1, <4>2, <4>3 DEF PlaceOf, Active
    <3>3. CASE m # n
      BY <1>4, <1>6, <1>8, <3>1, <3>3 DEF PlaceOf
    <3>4. QED
      BY <3>2, <3>3
  <2>2. \A m \in Workers : ~interrupted'[m]
    BY <1>4, <1>11
  <2>3. QED
    BY <1>8, <2>1, <2>2 DEF PlaceInv
<1>24. QED
  BY <1>19, <1>22, <1>23 DEF RoundsInv

LEMMA ReportRounds ==
  ASSUME Types, RoundsInv, NEW n \in Members, Report(n)
  PROVE  RoundsInv' /\ \A q \in Members : pc'[q] \in Active => Gathered(q)' = Gathered(q)
<1>1. /\ n \in Solvers /\ root \in Members /\ Members \subseteq Solvers /\ pc \in [Solvers -> Places]
      /\ queue_ \in [Solvers -> Seq(Members)] /\ pc[n] = "report" /\ n # root /\ n \in Workers
  BY SolverTypes, TreeFacts DEF Report, Types, ThreadTypes, RoundsInv, PlaceInv, PlaceOf, Workers
<1>2. PICK p \in Members : \E i \in DOMAIN Children(p) :
        Children(p)[i] = n /\ Told(p, i) /\ ~Through(p) /\ parent_(n) = p
  BY <1>1, ActiveWorks DEF RoundsInv, Active
<1>3. p # n /\ n \in Kids(p) /\ pc[p] \in Active /\ pc[p] \notin {"leave", "report"}
  BY <1>2, ChildFacts DEF Told, Through, Active, Types
<1>4. /\ UNCHANGED << tree, initial_iter_, interrupted, iter_, data_, hand, at >>
      /\ pc' = [pc EXCEPT ![n] = "apply"] /\ queue_' = [queue_ EXCEPT ![p] = Append(queue_[p], n)]
  BY <1>2 DEF Report, control, Goto
<1>5. /\ pc'[n] = "apply" /\ queue_'[p] = Append(queue_[p], n)
      /\ \A m \in Members \ {n} : pc'[m] = pc[m]
      /\ \A m \in Members \ {p} : queue_'[m] = queue_[m]
  BY <1>1, <1>4
<1>6. /\ root' = root /\ (\A q : Kids(q)' = Kids(q) /\ Children(q)' = Children(q))
      /\ Members' = Members /\ Workers' = Workers
  BY <1>4, SameTree
<1>7. Working(n) /\ ~Waiting(n) /\ ~Reported(n) /\ \A q : ~Called(n, q)
  BY <1>1, ActiveWorks, Apart DEF RoundsInv, Active
<1>8. Reported(n)'
  <2>1. Round(n)' = iter_[root] + 1
    <3>1. iter_[n] + initial_iter_ = iter_[root]
      BY <1>1, <1>7 DEF Working, Round
    <3>2. QED
      BY <1>4, <1>5, <3>1 DEF Round
  <2>2. queue_'[n] = << >>
    <3>1. queue_[n] = << >>
      BY <1>1 DEF RoundsInv, QueueInv, Collecting, Active
    <3>2. QED
      BY <1>3, <1>5, <3>1
  <2>3. QED
    BY <1>4, <1>5, <1>6, <2>1, <2>2 DEF Reported
<1>9. p # root => Keeps(p) /\ ~Reported(p) /\ ~Reported(p)'
  BY <1>3, <1>4, <1>5, StaysActive
<1>10. \A m \in Members \ {n, p} :
         /\ Waiting(m)' <=> Waiting(m)
         /\ \A q : Called(m, q)' <=> Called(m, q)
         /\ Working(m)' <=> Working(m)
         /\ Reported(m)' <=> Reported(m)
         /\ Through(m)' <=> Through(m)
         /\ \A i : Told(m, i)' <=> Told(m, i)
  BY <1>4, <1>5, Untouched
<1>11. \A m \in Workers : Keeps(m)
  <2> TAKE m \in Workers
  <2>1. CASE m = n
    BY <1>7, <1>8, <2>1 DEF Keeps
  <2>2. CASE m = p
    BY <1>9, <2>2 DEF Workers
  <2>3. CASE m \notin {n, p}
    BY <1>10, <2>3 DEF Keeps, Workers
  <2>4. QED
    BY <2>1, <2>2, <2>3
<1>12. ASSUME NEW q \in Members, NEW i \in DOMAIN Children(q) PROVE KeepsChild(q, i)
  <2>1. CASE q = n
    BY <1>1, <1>5, <1>6, <1>8, <2>1 DEF KeepsChild, Told, Through
  <2>2. CASE q = p
    <3>1. ~Through(p) /\ ~Through(p)'
      BY <1>2, <1>3, <1>5, <1>6, <1>9 DEF Through, Active
    <3>2. QED
      BY <1>3, <1>4, <1>5, <2>2, <3>1 DEF KeepsChild, Told
  <2>3. CASE q \notin {n, p}
    BY <1>4, <1>5, <1>10, <2>3 DEF KeepsChild
  <2>4. QED
    BY <2>1, <2>2, <2>3
<1>13. EdgeInv'
  BY <1>4, <1>11, <1>12, EdgesKept DEF RoundsInv
<1>14. \A m \in Workers \ {n} : Reported(m)' <=> Reported(m)
  BY <1>9, <1>10 DEF Workers
<1>15. ASSUME NEW q \in Members, pc'[q] \in Active
      PROVE  Collecting(q)' /\ Gathered(q)' = Gathered(q)
  <2>1. Kids(q) \subseteq Workers /\ q # n
    BY <1>5, <1>15, KidsCount DEF Active
  <2>2. Collecting(q) /\ pc'[q] = pc[q]
    BY <1>5, <1>15, <2>1 DEF RoundsInv, QueueInv
  <2>3. CASE q # p
    <3>1. n \notin Kids(q)
      BY <1>2, <2>3, TreeFacts DEF Kids, Elements, Types
    <3>2. \A m \in Kids(q) : Reported(m)' <=> Reported(m)
      BY <1>14, <2>1, <3>1
    <3>3. at'[q] = at[q] /\ queue_'[q] = queue_[q] /\ hand'[q] = hand[q] /\ tree' = tree
      BY <1>4, <1>5, <2>3
    <3>4. QED
      BY <2>2, <3>2, <3>3, CollectingKept
  <2>4. CASE q = p
    <3>1. queue_[p] \in Seq(Members)
      BY <1>1
    <3>2. n \notin Elements(queue_[p])
      BY <1>7, <2>2, <2>4 DEF Collecting, Elements
    <3>3. /\ Elements(Append(queue_[p], n)) = Elements(queue_[p]) \union {n}
          /\ \A i, j \in DOMAIN Append(queue_[p], n) :
                Append(queue_[p], n)[i] = Append(queue_[p], n)[j] => i = j
      BY <2>2, <2>4, <3>1, <3>2, QueueAppend DEF Collecting
    <3>4. Elements(queue_[p])' = Elements(queue_[p]) \union {n}
      <4>1. Elements(queue_[p])' = Elements(queue_'[p])
        BY DEF Elements
      <4>2. QED
        BY <1>5, <3>3, <4>1
    <3>5. Gathered(p)' = Gathered(p)
      BY <1>4, <1>6, <1>7, <1>14, <2>1, <2>2, <2>4, <3>4 DEF Gathered
    <3>6. \A m \in Elements(queue_[p]) \union {n} : m \in Kids(p) /\ Reported(m)'
      <4>1. \A m \in Elements(queue_[p]) : m \in Kids(p) /\ Reported(m) /\ m \in Workers /\ m # n
        BY <2>1, <2>2, <2>4, <3>2 DEF Collecting, Elements
      <4>2. QED
        BY <1>3, <1>8, <1>14, <4>1
    <3>7. \A i \in DOMAIN queue_'[p] : queue_'[p][i] \in Kids(p)' /\ Reported(queue_[p][i])'
      <4>1. \A i \in DOMAIN queue_'[p] : queue_'[p][i] \in Elements(queue_[p]) \union {n}
        BY <1>5, <3>3 DEF Elements
      <4>2. QED
        BY <1>6, <3>6, <4>1
    <3>8. pc[p] = "add" => hand'[p] \in Kids(p)' /\ Reported(hand[p])' /\ hand'[p] \notin Elements(queue_[p])'
      BY <1>4, <1>6, <1>7, <1>14, <2>1, <2>2, <2>4, <3>4 DEF Collecting
    <3>9. \A i, j \in DOMAIN queue_'[p] : queue_'[p][i] = queue_'[p][j] => i = j
      BY <1>5, <3>3
    <3>10. Collecting(p)'
      BY <1>3, <1>4, <1>6, <2>2, <2>4, <3>5, <3>7, <3>8, <3>9 DEF Collecting
    <3>11. QED
      BY <2>4, <3>5, <3>10
  <2>5. QED
    BY <2>3, <2>4
<1>16. QueueInv'
  <2>1. pc'[root] \notin Active => queue_'[root] = << >>
    BY <1>1, <1>3, <1>5 DEF QueueInv, RoundsInv
  <2>2. QED
    BY <1>6, <1>15, <2>1 DEF QueueInv
<1>17. PlaceInv'
  <2>1. ASSUME NEW m \in Members PROVE PlaceOf(m)'
    <3>1. PlaceOf(m)
      BY DEF RoundsInv, PlaceInv
    <3>2. CASE m = n
      BY <1>1, <1>5, <1>6, <3>2 DEF PlaceOf, Active
    <3>3. CASE m # n
      BY <1>4, <1>5, <1>6, <3>1, <3>3 DEF PlaceOf
    <3>4. QED
      BY <3>2, <3>3
  <2>2. ASSUME NEW m \in Workers, interrupted'[m] PROVE pc'[root] \in {"stop", "done"}
    BY <1>1, <1>4, <1>5, <2>2 DEF RoundsInv, PlaceInv
  <2>3. QED
    BY <1>6, <2>1, <2>2 DEF PlaceInv
<1>18. QED
  BY <1>13, <1>15, <1>16, <1>17 DEF RoundsInv

-----------------------------------------------------------------------------
(* The steps of the root *)

\* The threads stay where they are
LEMMA RoundsStay ==
  ASSUME Types, RoundsInv,
         UNCHANGED << tree, initial_iter_, data_, iter_, queue_, hand, pc, at >>,
         \A m \in Members : interrupted[m] => interrupted'[m],
         \A m \in Workers : interrupted'[m] => interrupted[m] \/ pc[root] = "stop"
  PROVE  RoundsInv'
<1>1. /\ root' = root /\ Members' = Members /\ Workers' = Workers
      /\ \A p : Children(p)' = Children(p) /\ Kids(p)' = Kids(p)
  BY SameTree
<1>2. \A m : /\ Waiting(m)' <=> Waiting(m)
             /\ \A p : Called(m, p)' <=> Called(m, p)
             /\ Working(m)' <=> Working(m)
             /\ Reported(m)' <=> Reported(m)
             /\ Through(m)' <=> Through(m)
             /\ \A i : Told(m, i)' <=> Told(m, i)
  BY Untouched
<1>3. EdgeInv'
  <2>1. \A m \in Workers : Keeps(m)
    BY <1>2 DEF Keeps
  <2>2. \A p \in Members : \A i \in DOMAIN Children(p) : KeepsChild(p, i)
    BY <1>2 DEF KeepsChild
  <2>3. QED
    BY <2>1, <2>2, EdgesKept DEF RoundsInv
<1>4. QueueInv'
  <2>1. ASSUME NEW p \in Members, pc'[p] \in Active PROVE Collecting(p)'
    <3>1. Collecting(p)
      BY <2>1 DEF RoundsInv, QueueInv
    <3>2. \A c \in Kids(p) : Reported(c)' <=> Reported(c)
      BY <1>2
    <3>3. QED
      BY <3>1, <3>2, CollectingKept
  <2>2. QED
    BY <1>1, <2>1 DEF RoundsInv, QueueInv
<1>5. PlaceInv'
  <2>1. ASSUME NEW m \in Members PROVE PlaceOf(m)'
    <3>1. PlaceOf(m)
      BY DEF RoundsInv, PlaceInv
    <3>2. QED
      BY <1>1, <3>1 DEF PlaceOf
  <2>2. ASSUME NEW m \in Workers, interrupted'[m] PROVE pc'[root'] \in {"stop", "done"}
    BY <1>1, <2>2 DEF RoundsInv, PlaceInv
  <2>3. QED
    BY <1>1, <2>1, <2>2 DEF PlaceInv
<1>6. QED
  BY <1>3, <1>4, <1>5 DEF RoundsInv

\* The root goes on, outside of an iteration
LEMMA RootAlone ==
  ASSUME Types, RoundsInv,
         UNCHANGED << tree, initial_iter_, data_, iter_, queue_, hand, interrupted >>,
         pc[root] \notin Active \union {"apply"}, pc'[root] \notin Active \union {"apply"},
         \A m \in Members \ {root} : pc'[m] = pc[m] /\ at'[m] = at[m],
         PlaceOf(root)', pc[root] \in {"stop", "done"} => pc'[root] \in {"stop", "done"}
  PROVE  RoundsInv'
<1>1. PICK r \in Members : r = root
  BY TreeFacts DEF Types
<1>2. root' = r
  BY <1>1, SameTree
<1>3. Alone(r)
  BY <1>1 DEF Alone
<1>4. ~Through(r) /\ ~Through(r)' /\ \A i : ~Told(r, i) /\ ~Told(r, i)'
  BY <1>1, <1>2 DEF Through, Told, Active
<1>5. \A i \in DOMAIN Children(r) : KeepsChild(r, i)
  BY <1>1, <1>4 DEF KeepsChild, Active
<1>6. queue_'[r] = << >> /\ pc'[r] \notin Active /\ PlaceOf(r)'
  BY <1>1, <1>2 DEF RoundsInv, QueueInv, PlaceOf
<1>7. QED
  BY <1>1, <1>3, <1>5, <1>6, AloneKeeps

LEMMA DecideRounds == ASSUME Types, RoundsInv, Decide PROVE RoundsInv'
<1> DEFINE l == IF request = "STOP" THEN "solved" ELSE "top"
<1>1. /\ root \in Solvers /\ root \in Members /\ Members \subseteq Solvers /\ pc \in [Solvers -> Places]
      /\ pc[root] = "ask"
  BY SolverTypes, TreeFacts DEF Decide, Types, ThreadTypes
<1>2. /\ UNCHANGED << tree, initial_iter_, data_, iter_, queue_, hand, interrupted, at >>
      /\ pc' = [pc EXCEPT ![root] = l]
  BY DEF Decide, sync, Goto
<1>3. pc'[root] = l /\ l \in {"solved", "top"} /\ \A m \in Members \ {root} : pc'[m] = pc[m]
  BY <1>1, <1>2
<1>4. root' = root
  BY <1>2, SameTree
<1>5. PlaceOf(root)'
  BY <1>3, <1>4 DEF PlaceOf, Active
<1>6. QED
  BY <1>1, <1>2, <1>3, <1>5, RootAlone DEF Active

LEMMA TestRounds == ASSUME Types, RoundsInv, Test PROVE RoundsInv'
<1>1. /\ root \in Solvers /\ root \in Members /\ Members \subseteq Solvers /\ pc \in [Solvers -> Places]
      /\ at \in [Solvers -> Int] /\ pc[root] \in {"test", "finaltest"} /\ PlaceOf(root)
  BY SolverTypes, TreeFacts DEF Test, Testing, Types, ThreadTypes, RoundsInv, PlaceInv
<1>2. /\ UNCHANGED << tree, initial_iter_, data_, iter_, queue_, hand, interrupted >>
      /\ \/ pc' = pc
         \/ pc[root] = "finaltest" /\ pc' = [pc EXCEPT ![root] = "stop"]
         \/ pc[root] = "test" /\ \E l \in {"solved", "start"} : pc' = [pc EXCEPT ![root] = l]
      /\ \/ at' = at
         \/ /\ at' = [at EXCEPT ![root] = at[root] + 1]
            /\ pc' = pc => at[root] + 1 # test_iter
  <2>1. \E l \in {"stop", "solved", "start"} :
          /\ request = "NONE" /\ (requested_early_exit_ \/ at[root] + 1 = test_iter) =>
               pc' = [pc EXCEPT ![root] = l]
          /\ l = "stop" <=> pc[root] = "finaltest"
    BY DEF Test, Goto
  <2>2. \A l \in {"stop", "solved", "start"} : [pc EXCEPT ![root] = l] # pc
    BY <1>1
  <2>3. QED
    BY <1>1, <2>1, <2>2 DEF Test, Goto
<1>3. \A m \in Members \ {root} : pc'[m] = pc[m] /\ at'[m] = at[m]
  BY <1>1, <1>2
<1>4. /\ pc'[root] \in {"test", "finaltest", "stop", "solved", "start"}
      /\ pc'[root] \in {"test", "finaltest"} => pc' = pc
      /\ pc'[root] = "start" => pc[root] = "test"
  BY <1>1, <1>2
<1>5. root' = root /\ iter_'[root] = iter_[root]
  BY <1>2, SameTree
<1>6. PlaceOf(root)'
  <2>1. pc'[root] \in {"test", "start"} => iter_'[root] < max_iter
    BY <1>1, <1>4, <1>5 DEF PlaceOf
  <2>2. ASSUME pc'[root] \in {"test", "finaltest"} PROVE at'[root] \in 0..test_iter - 1
    <3>1. at[root] \in 0..test_iter - 1
      BY <1>1 DEF PlaceOf
    <3>2. at'[root] = at[root] \/ (at'[root] = at[root] + 1 /\ at[root] + 1 # test_iter)
      BY <1>1, <1>2, <1>4, <2>2
    <3>3. QED
      BY <3>1, <3>2, P2PSyncAssumption
  <2>3. QED
    BY <1>4, <1>5, <2>1, <2>2 DEF PlaceOf, Active
<1>7. QED
  BY <1>1, <1>2, <1>3, <1>4, <1>6, RootAlone DEF Active

LEMMA SolvedRounds == ASSUME Types, RoundsInv, Solved PROVE RoundsInv'
<1>1. /\ root \in Solvers /\ root \in Members /\ Members \subseteq Solvers /\ pc \in [Solvers -> Places]
      /\ at \in [Solvers -> Int] /\ pc[root] = "solved"
  BY SolverTypes, TreeFacts DEF Solved, Types, ThreadTypes
<1>2. /\ UNCHANGED << tree, initial_iter_, data_, iter_, queue_, hand, interrupted >>
      /\ at' = [at EXCEPT ![root] = 0] /\ \E l \in {"finaltest", "stop"} : pc' = [pc EXCEPT ![root] = l]
  BY DEF Solved, control, Goto
<1>3. /\ pc'[root] \in {"finaltest", "stop"} /\ at'[root] = 0
      /\ \A m \in Members \ {root} : pc'[m] = pc[m] /\ at'[m] = at[m]
  BY <1>1, <1>2
<1>4. root' = root
  BY <1>2, SameTree
<1>5. PlaceOf(root)'
  <2>1. 0 \in 0..test_iter - 1
    BY P2PSyncAssumption
  <2>2. QED
    BY <1>3, <1>4, <2>1 DEF PlaceOf, Active
<1>6. QED
  BY <1>1, <1>2, <1>3, <1>5, RootAlone DEF Active

LEMMA FinishRounds == ASSUME Types, RoundsInv, Finish PROVE RoundsInv'
<1>1. /\ root \in Solvers /\ root \in Members /\ Members \subseteq Solvers /\ pc \in [Solvers -> Places]
      /\ pc[root] = "stop"
  BY SolverTypes, TreeFacts DEF Finish, Types, ThreadTypes
<1>2. /\ UNCHANGED << tree, initial_iter_, data_, iter_, queue_, hand, interrupted, at >>
      /\ pc' = [pc EXCEPT ![root] = "done"]
  BY DEF Finish, control, sync, Goto
<1>3. pc'[root] = "done" /\ \A m \in Members \ {root} : pc'[m] = pc[m]
  BY <1>1, <1>2
<1>4. root' = root
  BY <1>2, SameTree
<1>5. PlaceOf(root)'
  BY <1>3, <1>4 DEF PlaceOf, Active
<1>6. QED
  BY <1>1, <1>2, <1>3, <1>5, RootAlone DEF Active

LEMMA StopRounds == ASSUME Types, RoundsInv, NEW i \in DOMAIN tree.syncs, Stop(i) PROVE RoundsInv'
<1>1. pc[root] = "stop" /\ interrupted' = [interrupted EXCEPT ![tree.syncs[i]] = TRUE]
  BY DEF Stop
<1>2. UNCHANGED << tree, initial_iter_, data_, iter_, queue_, hand, pc, at >>
  BY DEF Stop, sync
<1>3. \A m \in Members : interrupted[m] => interrupted'[m]
  <2>1. interrupted \in [Solvers -> BOOLEAN] /\ Members \subseteq Solvers
    BY TreeFacts DEF Types, ProcessTypes
  <2>2. QED
    BY <1>1, <2>1
<1>4. QED
  BY <1>1, <1>2, <1>3, RoundsStay

LEMMA NextRounds == Types /\ RoundsInv /\ [Next]_vars => RoundsInv'
<1> SUFFICES ASSUME Types, RoundsInv, [Next]_vars PROVE RoundsInv'
  OBVIOUS
<1>1. ASSUME NEW n \in Members, Step(n) PROVE RoundsInv'
  <2>1. CASE Apply(n)
    BY <2>1, WorkerApplyRounds, RootApplyRounds DEF Workers
  <2>2. QED
    BY <1>1, <2>1, BeginRounds, ReturnRounds, OnStartRounds, CopyRounds, TellRounds, ForwardBackwardRounds,
       GatherRounds, AddRounds, LeaveRounds, ReportRounds, InterruptedRounds DEF Step
<1>2. CASE \/ CheckForSignals \/ Save \/ Signalled \/ UNCHANGED vars
  <2>1. UNCHANGED << tree, initial_iter_, data_, iter_, queue_, hand, pc, at, interrupted >>
    BY <1>2 DEF CheckForSignals, Save, Signalled, vars, control, sync
  <2>2. QED
    BY <2>1, RoundsStay
<1>3. QED
  BY <1>1, <1>2, DecideRounds, TestRounds, SolvedRounds, FinishRounds, StopRounds, RestartRounds
     DEF Next, Threads, Root, Done

LEMMA RoundsHold == ASSUME TreesSpan PROVE Spec => []RoundsInv
BY InitRounds, NextRounds, TypesHold, PTL DEF Spec

\* What a solver finds in its one queue is from whom it waits for: the word of
\* its parent at the start of an iteration, the gradients of a child later,
\* whatever the order of the threads (CHECKs at parallel.cpp:300 and :346).
THEOREM FoundAsExpected == ASSUME TreesSpan PROVE Spec => []QueueOrder
<1>1. Types /\ RoundsInv => QueueOrder
  <2> SUFFICES ASSUME Types, RoundsInv, NEW n \in Members, queue_[n] # << >>
               PROVE  /\ pc[n] = "start" => n # root /\ Head(queue_[n]) = parent_(n)
                      /\ pc[n] = "gather" => \E i \in DOMAIN Children(n) : Children(n)[i] = Head(queue_[n])
    BY DEF QueueOrder
  <2>1. ASSUME pc[n] = "start" PROVE n # root /\ Head(queue_[n]) = parent_(n)
    <3>1. n # root
      BY <2>1 DEF RoundsInv, QueueInv, Active
    <3>2. queue_[n] = << parent_(n) >>
      BY <2>1, <3>1, WordFromParent DEF RoundsInv, Workers, Active, Called
    <3>3. QED
      BY <3>1, <3>2
  <2>2. ASSUME pc[n] = "gather" PROVE Head(queue_[n]) \in Kids(n)
    <3>1. queue_[n] \in Seq(Members) /\ Collecting(n)
      BY <2>2, SolverTypes DEF RoundsInv, QueueInv, Active
    <3>2. Head(queue_[n]) \in Elements(queue_[n])
      BY <3>1, QueueTail DEF Collecting
    <3>3. QED
      BY <3>1, <3>2 DEF Collecting, Elements
  <2>3. QED
    BY <2>1, <2>2 DEF Kids, Elements
<1>2. QED
  BY <1>1, TypesHold, RoundsHold, PTL

-----------------------------------------------------------------------------
(* The solvers below one *)

LEMMA BelowHolds ==
  ASSUME NEW n \in Members
  PROVE  n \in Below(n) /\ Below(n) \subseteq Members /\ \A x \in Below(n) : Kids(x) \cap Members \subseteq Below(n)
BY DEF Below

LEMMA BelowLeast ==
  ASSUME NEW n \in Members, NEW S \in SUBSET Members, n \in S, \A x \in S : Kids(x) \subseteq S
  PROVE  Below(n) \subseteq S
BY DEF Below

LEMMA BelowCloses ==
  ASSUME Types, NEW n \in Members, NEW x \in Below(n) PROVE Kids(x) \subseteq Below(n)
<1>1. x \in Members
  BY BelowHolds
<1>2. Kids(x) \subseteq Members
  BY <1>1, KidsCount DEF Workers
<1>3. QED
  BY <1>2, BelowHolds

LEMMA BelowRoot == ASSUME Types PROVE Below(root) = Members
<1> DEFINE S == Members \ Below(root)
<1>1. root \in Members /\ root \in Below(root) /\ Below(root) \subseteq Members
  BY TreeFacts, BelowHolds DEF Types
<1>2. ASSUME S # {} PROVE FALSE
  <2>1. S \in SUBSET Workers
    BY <1>1 DEF Workers
  <2>2. PICK p \in Members \ S : \E i \in DOMAIN Children(p) : Children(p)[i] \in S
    BY <1>2, <2>1, Reaches DEF Types
  <2>3. Kids(p) \subseteq Below(root)
    BY <1>1, <2>2, BelowCloses
  <2>4. QED
    BY <2>2, <2>3 DEF Kids, Elements
<1>3. QED
  BY <1>1, <1>2

LEMMA BelowKids ==
  ASSUME Types, NEW n \in Members
  PROVE  Below(n) = {n} \union UNION {Below(c) : c \in Kids(n)}
<1> DEFINE S == {n} \union UNION {Below(c) : c \in Kids(n)}
<1>1. Kids(n) \subseteq Members /\ n \in Below(n) /\ Kids(n) \subseteq Below(n) /\ Below(n) \subseteq Members
  BY KidsCount, BelowHolds, BelowCloses DEF Workers
<1>2. \A c \in Kids(n) : Below(c) \subseteq Below(n)
  BY <1>1, BelowLeast, BelowCloses
<1>3. S \in SUBSET Members
  BY <1>1, <1>2
<1>4. ASSUME NEW x \in S PROVE Kids(x) \subseteq S
  <2>1. CASE x = n
    BY <1>1, <2>1, BelowHolds
  <2>2. CASE \E c \in Kids(n) : x \in Below(c)
    BY <1>1, <2>2, BelowCloses
  <2>3. QED
    BY <2>1, <2>2
<1>5. Below(n) \subseteq S
  BY <1>3, <1>4, BelowLeast
<1>6. QED
  BY <1>1, <1>2, <1>5

\* Whoever is below c, but c, has its parent there
LEMMA BelowParent ==
  ASSUME Types, NEW c \in Members, NEW p \in Members, NEW x \in Kids(p), x \in Below(c), x # c
  PROVE  p \in Below(c)
<1> DEFINE S == {y \in Below(c) : y # c => \E q \in Below(c) : y \in Kids(q)}
<1>1. c \in S /\ S \subseteq Below(c) /\ Below(c) \subseteq Members
  BY BelowHolds
<1>2. \A y \in S : Kids(y) \subseteq S
  BY <1>1, BelowCloses
<1>3. PICK q \in Below(c) : x \in Kids(q)
  <2>1. S \in SUBSET Members
    BY <1>1
  <2> HIDE DEF S
  <2>2. x \in S
    BY <1>1, <1>2, <2>1, BelowLeast
  <2>3. QED
    BY <2>2 DEF S
<1>4. q = p
  BY <1>1, <1>3, TreeFacts DEF Types, Kids, Elements
<1>5. QED
  BY <1>3, <1>4

LEMMA BelowWorks == ASSUME Types, NEW c \in Workers PROVE Below(c) \subseteq Workers
<1>1. \A x \in Workers : Kids(x) \subseteq Workers
  BY KidsCount DEF Workers
<1>2. c \in Members /\ Workers \subseteq Members
  BY DEF Workers
<1>3. QED
  BY <1>1, <1>2, BelowLeast

LEMMA NotBelow == ASSUME Types, NEW n \in Members, NEW c \in Kids(n) PROVE n \notin Below(c)
<1>1. c \in Workers /\ c \in Members
  BY KidsCount DEF Workers
<1>2. Below(c) \in SUBSET Workers /\ c \in Below(c)
  BY <1>1, BelowWorks, BelowHolds
<1>3. PICK p \in Members \ Below(c) : \E i \in DOMAIN Children(p) : Children(p)[i] \in Below(c)
  BY <1>2, Reaches DEF Types
<1>4. PICK x \in Kids(p) : x \in Below(c)
  BY <1>3 DEF Kids, Elements
<1>5. x = c
  BY <1>1, <1>3, <1>4, BelowParent
<1>6. p = n
  BY <1>4, <1>5, TreeFacts DEF Types, Kids, Elements
<1>7. QED
  BY <1>3, <1>6

LEMMA BelowApart ==
  ASSUME Types, NEW n \in Members, NEW c \in Kids(n), NEW d \in Kids(n), c # d
  PROVE  Below(c) \cap Below(d) = {}
<1> DEFINE S == Below(c) \cap Below(d)
<1> SUFFICES ASSUME S # {} PROVE FALSE
  OBVIOUS
<1>1. c \in Workers /\ d \in Workers /\ c \in Members /\ d \in Members
  BY KidsCount DEF Workers
<1>2. S \in SUBSET Workers
  BY <1>1, BelowWorks
<1>3. PICK p \in Members \ S : \E i \in DOMAIN Children(p) : Children(p)[i] \in S
  BY <1>2, Reaches DEF Types
<1>4. PICK x \in Kids(p) : x \in S
  BY <1>3 DEF Kids, Elements
<1>5. x # c /\ x # d => p \in S
  BY <1>1, <1>4, BelowParent
<1>6. ASSUME x = c PROVE FALSE
  <2>1. n \in Below(d)
    BY <1>1, <1>4, <1>6, BelowParent
  <2>2. QED
    BY <2>1, NotBelow
<1>7. ASSUME x = d PROVE FALSE
  <2>1. n \in Below(c)
    BY <1>1, <1>4, <1>7, BelowParent
  <2>2. QED
    BY <2>1, NotBelow
<1>8. QED
  BY <1>3, <1>5, <1>6, <1>7

-----------------------------------------------------------------------------
(* Sums of gradients *)

LEMMA WholeType ==
  /\ \A S : Whole(S) \in Gradients
  /\ Zero \in Gradients
  /\ \A n : \A k \in 0..iter_size : Own(n, k) \in Gradients
BY P2PSyncAssumption DEF Whole, Own, Zero, Gradients

LEMMA WholeSum ==
  ASSUME NEW S, NEW R, S \cap R = {} PROVE Plus(Whole(S), Whole(R)) = Whole(S \union R)
<1>1. ASSUME NEW g \in Solvers \X Weights
      PROVE  Plus(Whole(S), Whole(R))[g] = Whole(S \union R)[g]
  BY P2PSyncAssumption DEF Plus, Whole
<1>2. QED
  BY <1>1 DEF Plus, Whole

LEMMA OwnSum ==
  ASSUME NEW n, data_[n] = data_[root], NEW k \in Nat PROVE Plus(Own(n, k), One(n)) = Own(n, k + 1)
<1>1. ASSUME NEW g \in Solvers \X Weights PROVE Plus(Own(n, k), One(n))[g] = Own(n, k + 1)[g]
  BY DEF Plus, Own, One
<1>2. QED
  BY <1>1 DEF Plus, Own

LEMMA OwnEnds ==
  /\ \A n : Own(n, 0) = Zero
  /\ \A n : Own(n, iter_size) = Whole({n})
<1>1. \A n : Own(n, 0) = Zero
  BY DEF Own, Zero
<1>2. ASSUME NEW n PROVE Own(n, iter_size) = Whole({n})
  <2>1. ASSUME NEW g \in Solvers \X Weights
        PROVE  g = << n, data_[root] >> <=> g[1] \in {n} /\ g[2] = data_[root]
    OBVIOUS
  <2>2. QED
    BY <2>1 DEF Own, Whole
<1>3. QED
  BY <1>1, <1>2

LEMMA ProperIs == ASSUME Types PROVE Proper = Whole(Below(root))
BY BelowRoot DEF Proper, Whole

-----------------------------------------------------------------------------
(* The gradients of those that do not take part in a step *)

ReportedByRound == \A m \in Workers : Reported(m) <=> Round(m) = iter_[root] + 1

LEMMA ReportedIs == Types /\ RoundsInv => ReportedByRound
<1> SUFFICES ASSUME Types, RoundsInv, NEW m \in Workers PROVE Reported(m) <=> Round(m) = iter_[root] + 1
  BY DEF ReportedByRound
<1>1. PICK p \in Members : \E i \in DOMAIN Children(p) : Children(p)[i] = m
  BY HasParent DEF Types
<1>2. Waiting(m) \/ Called(m, p) \/ Working(m) \/ Reported(m)
  BY <1>1 DEF RoundsInv, EdgeInv, Edge
<1>3. iter_[root] \in Nat
  BY SolverTypes, TreeFacts DEF Types
<1>4. QED
  BY <1>2, <1>3 DEF Waiting, Called, Working, Reported

LEMMA ReportedStays ==
  ASSUME Types, RoundsInv, Types', RoundsInv', tree' = tree, iter_'[root] = iter_[root],
         NEW m \in Workers, Round(m)' = Round(m)
  PROVE  Reported(m)' <=> Reported(m)
<1>1. Types' /\ RoundsInv' => ReportedByRound'
  BY ReportedIs, PTL
<1>2. root' = root /\ Workers' = Workers
  BY SameTree
<1>3. QED
  BY <1>1, <1>2, ReportedIs DEF ReportedByRound

LEMMA GatheredStays ==
  ASSUME tree' = tree, NEW m, \A c \in Kids(m) : Reported(c)' <=> Reported(c),
         pc'[m] = pc[m], queue_'[m] = queue_[m], hand'[m] = hand[m]
  PROVE  Gathered(m)' = Gathered(m)
<1>1. Elements(queue_[m])' = Elements(queue_[m])
  BY DEF Elements
<1>2. QED
  BY <1>1, SameTree DEF Gathered

LEMMA SameBelow ==
  ASSUME tree' = tree PROVE \A n : Below(n)' = Below(n)
BY SameTree DEF Below

LEMMA SameWhole ==
  ASSUME tree' = tree, data_'[root] = data_[root]
  PROVE  /\ \A S : Whole(S)' = Whole(S)
         /\ \A n, k : Own(n, k)' = Own(n, k)
BY SameTree DEF Whole, Own

\* A solver that does not move has the gradients it had
LEMMA GradKept ==
  ASSUME Types, NEW m \in Members, GradOf(m), tree' = tree, data_'[root] = data_[root],
         pc'[m] = pc[m], at'[m] = at[m], diff_'[m] = diff_[m], parent_grads_'[m] = parent_grads_[m],
         m # root => (Reported(m)' => Reported(m)),
         pc[m] \in {"gather", "add"} => Gathered(m)' = Gathered(m)
  PROVE  GradOf(m)'
<1>1. root' = root /\ Kids(m)' = Kids(m) /\ \A c : Below(c)' = Below(c)
  BY SameTree, SameBelow
<1>2. Zero' = Zero /\ Whole(Below(m))' = Whole(Below(m)) /\ Own(m, at[m])' = Own(m, at[m])
  BY <1>1, SameWhole DEF Zero
<1>3. ASSUME pc[m] \in {"gather", "add"}
      PROVE  Whole(Has(m))' = Whole(Has(m))
  BY <1>1, <1>3, SameWhole DEF Has
<1>4. (pc[m] \in {"test", "start", "copy", "tell"} => diff_[m] = Zero)'
  BY <1>2 DEF GradOf
<1>5. (pc[m] = "compute" => diff_[m] = Own(m, at[m]))'
  BY <1>2 DEF GradOf
<1>6. (pc[m] \in {"gather", "add"} => diff_[m] = Whole(Has(m)))'
  BY <1>3 DEF GradOf
<1>7. (pc[m] = "leave" \/ (m = root /\ pc[m] = "apply") => diff_[m] = Whole(Below(m)))'
  BY <1>1, <1>2 DEF GradOf
<1>8. (m # root /\ (pc[m] = "report" \/ Reported(m)) => parent_grads_[m] = Whole(Below(m)))'
  BY <1>1, <1>2 DEF GradOf
<1>9. QED
  BY <1>4, <1>5, <1>6, <1>7, <1>8 DEF GradOf

-----------------------------------------------------------------------------
(* The gradients of the one that does *)

\* Only solver n moves
Moves(n) ==
  /\ UNCHANGED << tree, initial_iter_ >> /\ iter_'[root] = iter_[root] /\ data_'[root] = data_[root]
  /\ n # root => Round(n)' = Round(n)
  /\ \A m \in Members \ {n} :
       /\ pc'[m] = pc[m] /\ at'[m] = at[m] /\ iter_'[m] = iter_[m]
       /\ diff_'[m] = diff_[m] /\ parent_grads_'[m] = parent_grads_[m] /\ hand'[m] = hand[m]

LEMMA ReportedAlone ==
  ASSUME Types, RoundsInv, Types', RoundsInv', NEW n \in Members, Moves(n)
  PROVE  \A m \in Workers : Reported(m)' <=> Reported(m)
<1> TAKE m \in Workers
<1>1. Round(m)' = Round(m)
  <2>1. CASE m = n
    BY <2>1 DEF Moves, Workers
  <2>2. CASE m # n
    BY <2>2 DEF Moves, Workers, Round
  <2>3. QED
    BY <2>1, <2>2
<1>2. QED
  BY <1>1, ReportedStays DEF Moves

LEMMA GradsAlone ==
  ASSUME Types, RoundsInv, Types', RoundsInv', GradInv, NEW n \in Members, Moves(n), GradOf(n)',
         \A m \in Members \ {n} : queue_'[m] = queue_[m] \/ pc[m] \notin {"gather", "add"},
         diff_' \in [Solvers -> Gradients], parent_grads_' \in [Solvers -> Gradients],
         data_' \in [Solvers -> Iterations]
  PROVE  GradInv'
<1>1. root' = root /\ Members' = Members
  BY SameTree DEF Moves
<1>2. \A m \in Workers : Reported(m)' <=> Reported(m)
  BY ReportedAlone
<1>3. ASSUME NEW m \in Members PROVE GradOf(m)'
  <2>1. CASE m = n
    BY <2>1
  <2>2. CASE m # n
    <3>1. /\ pc'[m] = pc[m] /\ at'[m] = at[m] /\ diff_'[m] = diff_[m] /\ hand'[m] = hand[m]
          /\ parent_grads_'[m] = parent_grads_[m] /\ tree' = tree /\ data_'[root] = data_[root]
      BY <2>2 DEF Moves
    <3>2. pc[m] \in {"gather", "add"} => Gathered(m)' = Gathered(m)
      BY <1>2, <2>2, <3>1, KidsCount, GatheredStays
    <3>3. m # root => (Reported(m)' => Reported(m))
      BY <1>2 DEF Workers
    <3>4. GradOf(m)
      BY DEF GradInv
    <3>5. QED
      BY <3>1, <3>2, <3>3, <3>4, GradKept
  <2>3. QED
    BY <2>1, <2>2
<1>4. iter_'[root'] = data_'[root']
  BY <1>1 DEF Moves, GradInv
<1>5. Gradients' = Gradients
  BY DEF Gradients
<1>6. QED
  BY <1>1, <1>3, <1>4, <1>5 DEF GradInv

LEMMA SolverGrads ==
  ASSUME Types, GradInv, NEW n \in Members
  PROVE  /\ n \in Solvers /\ GradOf(n) /\ diff_[n] \in Gradients /\ parent_grads_[n] \in Gradients
         /\ diff_ \in [Solvers -> Gradients] /\ parent_grads_ \in [Solvers -> Gradients]
         /\ data_ \in [Solvers -> Iterations]
BY SolverTypes DEF GradInv

\* From one iteration to the next, and before it
LEMMA OutsideGrads ==
  ASSUME Types, RoundsInv, Types', RoundsInv', GradInv, NEW n \in Members,
         Return(n) \/ Interrupted(n) \/ (n # root /\ Apply(n))
  PROVE  GradInv'
<1>1. /\ pc \in [Solvers -> Places] /\ iter_ \in [Solvers -> Nat] /\ Members \subseteq Solvers
      /\ initial_iter_ \in Nat /\ n \in Solvers /\ root \in Solvers /\ iter_[n] \in Nat
  BY TreeFacts, SolverTypes DEF Types, ThreadTypes
<1>2. /\ UNCHANGED << tree, initial_iter_, data_, at, diff_, parent_grads_, hand, queue_ >>
      /\ \/ iter_' = iter_ /\ pc[n] # "apply" /\ \E l \in {"solved", "ended"} : pc' = [pc EXCEPT ![n] = l]
         \/ /\ n # root /\ iter_' = [iter_ EXCEPT ![n] = iter_[n] + 1] /\ pc[n] = "apply"
            /\ pc' = [pc EXCEPT ![n] = "top"]
  BY DEF Return, Interrupted, Apply, control, sync, Goto
<1>3. Round(n)' = Round(n) /\ pc'[n] \in {"solved", "ended", "top"} /\ iter_'[root] = iter_[root]
  <2>1. CASE iter_' = iter_ /\ pc[n] # "apply" /\ \E l \in {"solved", "ended"} : pc' = [pc EXCEPT ![n] = l]
    BY <1>1, <1>2, <2>1 DEF Round
  <2>2. CASE /\ n # root /\ iter_' = [iter_ EXCEPT ![n] = iter_[n] + 1] /\ pc[n] = "apply"
             /\ pc' = [pc EXCEPT ![n] = "top"]
    BY <1>1, <1>2, <2>2 DEF Round
  <2>3. QED
    BY <1>2, <2>1, <2>2
<1>4. Moves(n)
  BY <1>1, <1>2, <1>3 DEF Moves
<1>5. GradOf(n)'
  <2>1. n # root => (Reported(n)' <=> Reported(n))
    BY <1>4, ReportedAlone DEF Workers
  <2>2. root' = root /\ Below(n)' = Below(n) /\ Whole(Below(n))' = Whole(Below(n))
    BY <1>2, SameTree, SameBelow, SameWhole
  <2>3. GradOf(n)
    BY SolverGrads
  <2>4. QED
    BY <1>2, <1>3, <2>1, <2>2, <2>3 DEF GradOf
<1>6. QED
  BY <1>2, <1>4, <1>5, SolverGrads, GradsAlone

LEMMA BeginGrads ==
  ASSUME Types, RoundsInv, Types', RoundsInv', GradInv, NEW n \in Members, Begin(n) PROVE GradInv'
<1>1. /\ pc \in [Solvers -> Places] /\ at \in [Solvers -> Int] /\ Members \subseteq Solvers /\ n \in Solvers
      /\ diff_ \in [Solvers -> Gradients]
  BY TreeFacts, SolverTypes, SolverGrads DEF Types, ThreadTypes
<1>2. /\ UNCHANGED << tree, initial_iter_, data_, iter_, parent_grads_, hand, queue_ >>
      /\ diff_' = [diff_ EXCEPT ![n] = Zero] /\ at' = [at EXCEPT ![n] = 0] /\ pc[n] = "top"
      /\ \E l \in {"test", "start"} : pc' = [pc EXCEPT ![n] = l]
  BY DEF Begin, control, Goto
<1>3. /\ diff_'[n] = Zero /\ at'[n] = 0 /\ pc'[n] \in {"test", "start"}
      /\ \A m \in Members \ {n} : diff_'[m] = diff_[m] /\ at'[m] = at[m] /\ pc'[m] = pc[m]
  BY <1>1, <1>2
<1>4. Moves(n)
  BY <1>2, <1>3 DEF Moves, Round
<1>5. GradOf(n)'
  <2>1. n # root => (Reported(n)' <=> Reported(n))
    BY <1>4, ReportedAlone DEF Workers
  <2>2. root' = root /\ Whole(Below(n))' = Whole(Below(n)) /\ Zero' = Zero
    BY <1>2, SameTree, SameBelow, SameWhole DEF Zero
  <2>3. GradOf(n)
    BY SolverGrads
  <2>4. QED
    BY <1>2, <1>3, <2>1, <2>2, <2>3 DEF GradOf
<1>6. diff_' \in [Solvers -> Gradients]
  BY <1>1, <1>2, WholeType, Changed
<1>7. QED
  BY <1>2, <1>4, <1>5, <1>6, SolverGrads, GradsAlone

\* On the way down no gradients are touched
LEMMA DownGrads ==
  ASSUME Types, RoundsInv, Types', RoundsInv', GradInv, NEW n \in Members,
         OnStart(n) \/ Copy(n) \/ Tell(n)
  PROVE  GradInv'
<1>1. /\ pc \in [Solvers -> Places] /\ at \in [Solvers -> Int] /\ Members \subseteq Solvers /\ n \in Solvers
      /\ at[n] \in Int /\ queue_ \in [Solvers -> Seq(Members)] /\ Len(Children(n)) \in Nat
  BY TreeFacts, SolverTypes, KidsCount DEF Types, ThreadTypes
<1>2. /\ UNCHANGED << tree, initial_iter_, iter_, diff_, parent_grads_, hand >>
      /\ pc[n] \in {"start", "copy", "tell"}
      /\ \E k \in {Len(Children(n)), at[n], at[n] - 1} : at' = [at EXCEPT ![n] = k] \/ (k = at[n] /\ at' = at)
      /\ \E l \in {"copy", "tell", "compute"} : pc' = [pc EXCEPT ![n] = l]
      /\ data_' = data_ \/ (pc[n] = "copy" /\ data_' = [data_ EXCEPT ![Children(n)[at[n]]] = data_[n]])
      /\ \/ queue_' = queue_
         \/ queue_' = [queue_ EXCEPT ![n] = Tail(queue_[n])]
         \/ pc[n] = "tell" /\ queue_' = [queue_ EXCEPT ![Children(n)[at[n]]] = Append(queue_[Children(n)[at[n]]], n)]
      /\ pc'[n] = "compute" => at'[n] = 0
  <2>1. CASE OnStart(n)
    BY <1>1, <2>1 DEF OnStart, control, Goto, Down
  <2>2. CASE Copy(n)
    BY <1>1, <2>2 DEF Copy, control, sync, Goto
  <2>3. CASE Tell(n)
    BY <1>1, <2>3 DEF Tell, control, Goto, Down
  <2>4. QED
    BY <2>1, <2>2, <2>3
<1>3. /\ pc'[n] \in {"copy", "tell", "compute"}
      /\ \A m \in Members \ {n} : pc'[m] = pc[m] /\ at'[m] = at[m]
  BY <1>1, <1>2
<1>4. ASSUME pc[n] \in {"copy", "tell"} PROVE Children(n)[at[n]] \in Workers /\ pc[Children(n)[at[n]]] \notin {"gather", "add"}
  <2>1. at[n] \in DOMAIN Children(n)
    BY <1>4, ToldWaits
  <2>2. Children(n)[at[n]] \in Workers
    BY <2>1, ChildFacts DEF Types
  <2>3. QED
    BY <1>4, <2>2, ToldWaits DEF Waiting
<1>5. data_'[root] = data_[root] /\ data_' \in [Solvers -> Iterations]
  <2>1. data_ \in [Solvers -> Iterations] /\ data_[n] \in Iterations
    BY <1>1, SolverGrads
  <2>2. ASSUME NEW c, c # root, data_' = [data_ EXCEPT ![c] = data_[n]]
        PROVE  data_'[root] = data_[root] /\ data_' \in [Solvers -> Iterations]
    <3>1. root \in Solvers
      BY SolverTypes
    <3>2. QED
      BY <2>1, <2>2, <3>1
  <2>3. QED
    BY <1>2, <1>4, <2>1, <2>2 DEF Workers
<1>6. \A m \in Members \ {n} : queue_'[m] = queue_[m] \/ pc[m] \notin {"gather", "add"}
  BY <1>1, <1>2, <1>4
<1>7. Moves(n)
  BY <1>2, <1>3, <1>5 DEF Moves, Round
<1>8. GradOf(n)'
  <2>1. n # root => (Reported(n)' <=> Reported(n))
    BY <1>7, ReportedAlone DEF Workers
  <2>2. /\ root' = root /\ Whole(Below(n))' = Whole(Below(n)) /\ Zero' = Zero
        /\ at'[n] = 0 => Own(n, at[n])' = Zero
    <3>1. Zero' = Zero
      BY DEF Zero
    <3>2. at'[n] = 0 => Own(n, at[n])' = Own(n, 0)'
      BY DEF Own
    <3>3. QED
      BY <1>2, <1>5, <3>1, <3>2, SameTree, SameBelow, SameWhole, OwnEnds
  <2>3. GradOf(n)
    BY SolverGrads
  <2>4. QED
    BY <1>2, <1>3, <2>1, <2>2, <2>3 DEF GradOf
<1>9. QED
  BY <1>2, <1>5, <1>6, <1>7, <1>8, SolverGrads, GradsAlone

LEMMA ForwardBackwardGrads ==
  ASSUME Types, RoundsInv, Types', RoundsInv', GradInv, NEW n \in Members, ForwardBackward(n)
  PROVE  GradInv'
<1>1. /\ pc \in [Solvers -> Places] /\ at \in [Solvers -> Int] /\ Members \subseteq Solvers /\ n \in Solvers
      /\ diff_ \in [Solvers -> Gradients]
  BY TreeFacts, SolverTypes, SolverGrads DEF Types, ThreadTypes
<1>2. /\ UNCHANGED << tree, initial_iter_, data_, iter_, parent_grads_, hand, queue_ >>
      /\ diff_' = [diff_ EXCEPT ![n] = Plus(diff_[n], One(n))] /\ pc[n] = "compute"
      /\ \/ at[n] + 1 < iter_size /\ at' = [at EXCEPT ![n] = at[n] + 1] /\ pc' = pc
         \/ /\ ~(at[n] + 1 < iter_size) /\ at' = [at EXCEPT ![n] = 0]
            /\ \E l \in {"gather", "apply", "leave"} : pc' = [pc EXCEPT ![n] = l] /\ (l = "apply" => n = root)
  BY DEF ForwardBackward, control, Goto, Up
<1>3. /\ diff_'[n] = Plus(diff_[n], One(n))
      /\ \/ at[n] + 1 < iter_size /\ at'[n] = at[n] + 1 /\ pc'[n] = "compute"
         \/ ~(at[n] + 1 < iter_size) /\ pc'[n] \in {"gather", "apply", "leave"}
      /\ pc'[n] = "apply" => n = root
      /\ \A m \in Members \ {n} : diff_'[m] = diff_[m] /\ at'[m] = at[m] /\ pc'[m] = pc[m]
  BY <1>1, <1>2
<1>4. Moves(n)
  BY <1>2, <1>3 DEF Moves, Round
<1>5. at[n] \in 0..iter_size - 1 /\ data_[n] = data_[root]
  <2>1. PlaceOf(n) /\ (n # root => data_[n] = data_[root])
    BY <1>2, ActiveWorks DEF RoundsInv, PlaceInv, Workers, Active
  <2>2. QED
    BY <1>2, <2>1 DEF PlaceOf
<1>6. diff_'[n] = Own(n, at[n] + 1)
  <2>1. diff_[n] = Own(n, at[n])
    BY <1>2, SolverGrads DEF GradOf
  <2>2. QED
    BY <1>3, <1>5, <2>1, OwnSum
<1>7. /\ root' = root /\ Whole(Below(n))' = Whole(Below(n)) /\ (\A S : Whole(S)' = Whole(S))
      /\ \A c : Below(c)' = Below(c)
  BY <1>2, SameTree, SameBelow, SameWhole
<1>8. /\ pc'[n] = "compute" => diff_'[n] = Own(n, at[n])'
      /\ pc'[n] # "compute" => diff_'[n] = Whole({n})
  <2>1. ASSUME pc'[n] = "compute" PROVE diff_'[n] = Own(n, at[n])'
    <3>1. Own(n, at[n])' = Own(n, at'[n])
      BY <1>2, SameWhole, SameTree DEF Own
    <3>2. QED
      BY <1>3, <1>6, <2>1, <3>1
  <2>2. ASSUME pc'[n] # "compute" PROVE at[n] + 1 = iter_size
    BY <1>3, <1>5, <2>2, P2PSyncAssumption
  <2>3. QED
    BY <1>6, <2>1, <2>2, OwnEnds
<1>9. pc'[n] = "gather" => diff_'[n] = Whole(Has(n))'
  <2>1. Gathered(n)' = {}
    BY ForwardBackwardRounds
  <2>2. Has(n)' = {n}
    BY <2>1 DEF Has
  <2>3. Whole(Has(n))' = Whole({n})
    BY <1>7, <2>2
  <2>4. QED
    BY <1>8, <2>3
<1>10. pc'[n] \in {"apply", "leave"} => diff_'[n] = Whole(Below(n))'
  <2>1. ASSUME pc'[n] \in {"apply", "leave"} PROVE Below(n) = {n}
    BY <2>1, ForwardBackwardRounds, BelowKids
  <2>2. QED
    BY <1>7, <1>8, <2>1
<1>11. GradOf(n)'
  <2>1. n # root => (Reported(n)' <=> Reported(n))
    BY <1>4, ReportedAlone DEF Workers
  <2>2. GradOf(n)
    BY SolverGrads
  <2>3. n # root /\ Reported(n)' => parent_grads_'[n] = Whole(Below(n))'
    BY <1>2, <1>7, <2>1, <2>2 DEF GradOf
  <2>4. QED
    BY <1>3, <1>7, <1>8, <1>9, <1>10, <2>3 DEF GradOf
<1>12. diff_' \in [Solvers -> Gradients]
  <2>1. at[n] + 1 \in 0..iter_size
    BY <1>5, P2PSyncAssumption
  <2>2. Own(n, at[n] + 1) \in Gradients
    BY <2>1, WholeType
  <2>3. Plus(diff_[n], One(n)) \in Gradients
    BY <1>3, <1>6, <2>2
  <2>4. QED
    BY <1>1, <1>2, <2>3, Changed
<1>13. QED
  BY <1>2, <1>4, <1>11, <1>12, SolverGrads, GradsAlone

LEMMA GatherGrads ==
  ASSUME Types, RoundsInv, Types', RoundsInv', GradInv, NEW n \in Members, Gather(n)
  PROVE  GradInv'
<1>1. /\ pc \in [Solvers -> Places] /\ hand \in [Solvers -> Members] /\ Members \subseteq Solvers
      /\ n \in Solvers /\ queue_ \in [Solvers -> Seq(Members)]
  BY TreeFacts, SolverTypes DEF Types, ThreadTypes
<1>2. /\ UNCHANGED << tree, initial_iter_, data_, iter_, at, parent_grads_, diff_ >>
      /\ hand' = [hand EXCEPT ![n] = Head(queue_[n])] /\ queue_' = [queue_ EXCEPT ![n] = Tail(queue_[n])]
      /\ pc[n] = "gather" /\ pc' = [pc EXCEPT ![n] = "add"]
  BY DEF Gather, control, Goto
<1>3. /\ pc'[n] = "add"
      /\ \A m \in Members \ {n} : pc'[m] = pc[m] /\ hand'[m] = hand[m] /\ queue_'[m] = queue_[m]
  BY <1>1, <1>2
<1>4. Moves(n)
  BY <1>2, <1>3 DEF Moves, Round
<1>5. /\ root' = root /\ Whole(Below(n))' = Whole(Below(n)) /\ (\A S : Whole(S)' = Whole(S))
      /\ \A c : Below(c)' = Below(c)
  BY <1>2, SameTree, SameBelow, SameWhole
<1>6. GradOf(n)
  BY SolverGrads
<1>7. diff_'[n] = Whole(Has(n))'
  <2>1. Gathered(n)' = Gathered(n)
    BY GatherRounds
  <2>2. Has(n)' = Has(n)
    BY <1>5, <2>1 DEF Has
  <2>3. Whole(Has(n))' = Whole(Has(n))
    BY <1>5, <2>2
  <2>4. QED
    BY <1>2, <1>6, <2>3 DEF GradOf
<1>8. n # root /\ Reported(n)' => parent_grads_'[n] = Whole(Below(n))'
  BY <1>2, <1>4, <1>5, <1>6, ReportedAlone DEF GradOf, Workers
<1>9. GradOf(n)'
  BY <1>3, <1>5, <1>7, <1>8 DEF GradOf
<1>10. QED
  BY <1>2, <1>3, <1>4, <1>9, SolverGrads, GradsAlone

LEMMA AddGrads ==
  ASSUME Types, RoundsInv, Types', RoundsInv', GradInv, NEW n \in Members, Add(n)
  PROVE  GradInv'
<1> DEFINE h == hand[n]
           G == Gathered(n)
           S == {n} \union UNION {Below(c) : c \in G}
<1>1. /\ pc \in [Solvers -> Places] /\ at \in [Solvers -> Int] /\ Members \subseteq Solvers /\ n \in Solvers
      /\ diff_ \in [Solvers -> Gradients]
  BY TreeFacts, SolverTypes, SolverGrads DEF Types, ThreadTypes
<1>2. /\ UNCHANGED << tree, initial_iter_, data_, iter_, parent_grads_, hand, queue_ >>
      /\ diff_' = [diff_ EXCEPT ![n] = Plus(diff_[n], parent_grads_[h])] /\ pc[n] = "add"
      /\ \E k : at' = [at EXCEPT ![n] = k]
      /\ \E l \in {"gather", "apply", "leave"} : pc' = [pc EXCEPT ![n] = l] /\ (l = "apply" => n = root)
  BY DEF Add, control, Goto, Up
<1>3. /\ diff_'[n] = Plus(diff_[n], parent_grads_[h]) /\ pc'[n] \in {"gather", "apply", "leave"}
      /\ pc'[n] = "apply" => n = root
      /\ \A m \in Members \ {n} : diff_'[m] = diff_[m] /\ at'[m] = at[m] /\ pc'[m] = pc[m]
  BY <1>1, <1>2
<1>4. Moves(n)
  BY <1>2, <1>3 DEF Moves, Round
<1>5. /\ Gathered(n)' = G \union {h} /\ h \in Kids(n) \ G /\ Reported(h) /\ G \subseteq Kids(n)
      /\ pc'[n] \in {"apply", "leave"} => Gathered(n)' = Kids(n)
  BY AddRounds DEF Gathered
<1>6. h \in Workers
  BY <1>5, KidsCount
<1>7. /\ root' = root /\ Whole(Below(n))' = Whole(Below(n)) /\ (\A R : Whole(R)' = Whole(R))
      /\ \A c : Below(c)' = Below(c)
  BY <1>2, SameTree, SameBelow, SameWhole
<1>8. GradOf(n)
  BY SolverGrads
<1> HIDE DEF h, G
<1>9. diff_'[n] = Whole(S \union Below(h))
  <2>1. diff_[n] = Whole(S)
    BY <1>2, <1>8 DEF GradOf, Has, G
  <2>2. parent_grads_[h] = Whole(Below(h))
    <3>1. GradOf(h) /\ h # root
      BY <1>6 DEF GradInv, Workers
    <3>2. QED
      BY <1>5, <3>1 DEF GradOf
  <2>3. S \cap Below(h) = {}
    <3>1. n \notin Below(h)
      BY <1>5, NotBelow
    <3>2. \A c \in G : Below(c) \cap Below(h) = {}
      BY <1>5, BelowApart
    <3>3. QED
      BY <3>1, <3>2
  <2> HIDE DEF S
  <2>4. QED
    BY <1>3, <2>1, <2>2, <2>3, WholeSum
<1>10. diff_'[n] = Whole(Has(n))'
  <2>1. Has(n)' = {n} \union UNION {Below(c) : c \in G \union {h}}
    BY <1>5, <1>7 DEF Has
  <2>2. {n} \union UNION {Below(c) : c \in G \union {h}} = S \union Below(h)
    OBVIOUS
  <2>3. Whole(Has(n))' = Whole(S \union Below(h))
    BY <1>7, <2>1, <2>2
  <2>4. QED
    BY <1>9, <2>3
<1>11. pc'[n] \in {"apply", "leave"} => diff_'[n] = Whole(Below(n))'
  <2>1. ASSUME pc'[n] \in {"apply", "leave"} PROVE Below(n) = S \union Below(h)
    <3>1. G \union {h} = Kids(n)
      BY <1>5, <2>1
    <3>2. Below(n) = {n} \union UNION {Below(c) : c \in Kids(n)}
      BY BelowKids
    <3>3. QED
      BY <3>1, <3>2
  <2>2. QED
    BY <1>7, <1>9, <2>1
<1>12. n # root /\ Reported(n)' => parent_grads_'[n] = Whole(Below(n))'
  BY <1>2, <1>4, <1>7, <1>8, ReportedAlone DEF GradOf, Workers
<1>13. GradOf(n)'
  BY <1>3, <1>7, <1>10, <1>11, <1>12 DEF GradOf
<1>14. diff_' \in [Solvers -> Gradients]
  BY <1>1, <1>2, <1>3, <1>9, WholeType, Changed
<1>15. QED
  BY <1>2, <1>4, <1>13, <1>14, SolverGrads, GradsAlone

LEMMA LeaveGrads ==
  ASSUME Types, RoundsInv, Types', RoundsInv', GradInv, NEW n \in Members, Leave(n)
  PROVE  GradInv'
<1>1. /\ pc \in [Solvers -> Places] /\ Members \subseteq Solvers /\ n \in Solvers
      /\ parent_grads_ \in [Solvers -> Gradients] /\ diff_[n] \in Gradients
  BY TreeFacts, SolverTypes, SolverGrads DEF Types, ThreadTypes
<1>2. /\ UNCHANGED << tree, initial_iter_, data_, iter_, at, hand, queue_, diff_ >>
      /\ parent_grads_' = [parent_grads_ EXCEPT ![n] = diff_[n]]
      /\ pc[n] = "leave" /\ pc' = [pc EXCEPT ![n] = "report"]
  BY DEF Leave, control, Goto
<1>3. /\ pc'[n] = "report" /\ parent_grads_'[n] = diff_[n]
      /\ \A m \in Members \ {n} : pc'[m] = pc[m] /\ parent_grads_'[m] = parent_grads_[m]
  BY <1>1, <1>2
<1>4. Moves(n)
  BY <1>2, <1>3 DEF Moves, Round
<1>5. diff_[n] = Whole(Below(n)) /\ Whole(Below(n))' = Whole(Below(n))
  BY <1>2, SolverGrads, SameBelow, SameWhole DEF GradOf
<1>6. GradOf(n)'
  <2>1. (n # root /\ (pc[n] = "report" \/ Reported(n)) => parent_grads_[n] = Whole(Below(n)))'
    BY <1>3, <1>5
  <2>2. QED
    BY <1>3, <2>1 DEF GradOf
<1>7. parent_grads_' \in [Solvers -> Gradients]
  BY <1>1, <1>2, Changed
<1>8. QED
  BY <1>2, <1>4, <1>6, <1>7, SolverGrads, GradsAlone

LEMMA ReportGrads ==
  ASSUME Types, RoundsInv, Types', RoundsInv', GradInv, NEW n \in Members, Report(n)
  PROVE  GradInv'
<1>1. pc \in [Solvers -> Places] /\ Members \subseteq Solvers /\ n \in Solvers
  BY TreeFacts, SolverTypes DEF Types, ThreadTypes
<1>2. /\ UNCHANGED << tree, initial_iter_, data_, iter_, at, hand, diff_, parent_grads_ >>
      /\ pc[n] = "report" /\ pc' = [pc EXCEPT ![n] = "apply"]
  BY DEF Report, control, Goto
<1>3. pc'[n] = "apply" /\ \A m \in Members \ {n} : pc'[m] = pc[m]
  BY <1>1, <1>2
<1>4. root' = root /\ Members' = Members /\ n # root
  BY <1>2, SameTree DEF RoundsInv, PlaceInv, PlaceOf
<1>5. ASSUME NEW m \in Members PROVE GradOf(m)'
  <2>1. GradOf(m)
    BY DEF GradInv
  <2>2. CASE m = n
    <3>1. parent_grads_[n] = Whole(Below(n)) /\ Whole(Below(n))' = Whole(Below(n))
      BY <1>2, <1>4, <2>1, <2>2, SameBelow, SameWhole DEF GradOf
    <3>2. QED
      BY <1>2, <1>3, <1>4, <2>2, <3>1 DEF GradOf
  <2>3. CASE m # n
    <3>1. m # root => (Reported(m)' => Reported(m))
      BY <1>2, <1>3, <2>3, ReportedStays DEF Round, Workers
    <3>2. pc[m] \in {"gather", "add"} => Gathered(m)' = Gathered(m)
      BY <1>3, <2>3, ReportRounds DEF Active
    <3>3. QED
      BY <1>2, <1>3, <2>1, <2>3, <3>1, <3>2, GradKept
  <2>4. QED
    BY <2>2, <2>3
<1>6. iter_'[root'] = data_'[root']
  BY <1>2, <1>4 DEF GradInv
<1>7. QED
  BY <1>2, <1>4, <1>5, <1>6 DEF GradInv, Gradients

\* The root has the gradients of all solvers, at its weights
LEMMA RootApplyGrads ==
  ASSUME Types, RoundsInv, Types', RoundsInv', GradInv, Apply(root)
  PROVE  GradInv' /\ data_'[root] = data_[root] + 1
<1>1. /\ pc \in [Solvers -> Places] /\ Members \subseteq Solvers /\ root \in Solvers /\ root \in Members
      /\ iter_ \in [Solvers -> Nat] /\ iter_[root] \in Nat /\ pc[root] = "apply" /\ PlaceOf(root)
  BY TreeFacts, SolverTypes DEF Types, ThreadTypes, Apply, RoundsInv, PlaceInv
<1>2. data_ \in [Solvers -> Iterations] /\ iter_[root] = data_[root] /\ data_[root] \in 0..max_iter
  BY <1>1 DEF GradInv, Iterations
<1>3. diff_[root] = Proper
  BY <1>1, ProperIs DEF GradInv, GradOf
<1>4. /\ UNCHANGED << tree, initial_iter_, at, hand, queue_, diff_, parent_grads_ >>
      /\ pc' = [pc EXCEPT ![root] = "ask"] /\ iter_' = [iter_ EXCEPT ![root] = iter_[root] + 1]
      /\ data_' = [data_ EXCEPT ![root] = data_[root] + 1]
  <2>1. data_[root] # Bad
    BY <1>2, P2PSyncAssumption DEF Bad
  <2>2. data_' = [data_ EXCEPT ![root] = data_[root] + 1]
    BY <1>3, <2>1 DEF Apply
  <2>3. QED
    BY <2>2 DEF Apply, control, sync, Goto
<1>5. /\ root' = root /\ Members' = Members /\ Workers' = Workers
      /\ pc'[root] = "ask" /\ iter_'[root] = iter_[root] + 1 /\ data_'[root] = data_[root] + 1
      /\ \A m \in Workers : pc'[m] = pc[m] /\ iter_'[m] = iter_[m]
  BY <1>1, <1>2, <1>4, SameTree DEF Workers
<1>6. data_' \in [Solvers -> Iterations]
  <2>1. data_[root] + 1 \in Iterations
    BY <1>1, <1>2, P2PSyncAssumption DEF PlaceOf, Iterations
  <2>2. QED
    BY <1>1, <1>2, <1>4, <2>1, Changed
<1>7. ASSUME NEW m \in Members PROVE GradOf(m)'
  <2>1. CASE m = root
    BY <1>5, <2>1 DEF GradOf
  <2>2. CASE m # root
    <3>1. m \in Workers /\ Reported(m) /\ GradOf(m)
      BY <1>1, <2>2, AllReported DEF Workers, RoundsInv, GradInv
    <3>2. Round(m)' = iter_[root] + 1
      BY <1>4, <1>5, <3>1 DEF Reported, Round
    <3>3. ~Reported(m)'
      <4>1. ReportedByRound'
        <5>1. Types' /\ RoundsInv' => ReportedByRound'
          BY ReportedIs, PTL
        <5>2. QED
          BY <5>1
      <4>2. QED
        BY <1>1, <1>5, <3>1, <3>2, <4>1 DEF ReportedByRound
    <3>4. pc'[m] \in {"apply", "top", "start", "ended"} /\ (pc'[m] = "start" => diff_'[m] = Zero)
      BY <1>4, <1>5, <3>1 DEF Reported, GradOf
    <3>5. Zero' = Zero
      BY DEF Zero
    <3>6. QED
      BY <1>5, <2>2, <3>3, <3>4, <3>5 DEF GradOf
  <2>3. QED
    BY <2>1, <2>2
<1>8. QED
  BY <1>2, <1>4, <1>5, <1>6, <1>7 DEF GradInv, Gradients

\* The root outside of an iteration
LEMMA RootGrads ==
  ASSUME Types, RoundsInv, Types', RoundsInv', GradInv,
         UNCHANGED << tree, initial_iter_, iter_, data_, diff_, parent_grads_, queue_, hand >>,
         \A m \in Members \ {root} : pc'[m] = pc[m] /\ at'[m] = at[m],
         \/ pc'[root] = pc[root] /\ at'[root] = at[root]
         \/ /\ pc'[root] \in {"top", "test", "start", "solved", "finaltest", "stop", "done"}
            /\ pc'[root] \in {"test", "start"} => pc[root] = "test"
  PROVE  GradInv'
<1>1. PICK r \in Members : r = root
  BY TreeFacts DEF Types
<1>2. root' = r
  BY <1>1, SameTree
<1>3. Moves(r)
  BY <1>1 DEF Moves
<1>4. GradOf(r)
  BY SolverGrads
<1>5. GradOf(r)'
  <2>1. CASE pc'[root] = pc[root] /\ at'[root] = at[root]
    <3>1. Gathered(r)' = Gathered(r)
      BY <1>1, <1>3, <2>1, KidsCount, ReportedAlone, GatheredStays
    <3>2. QED
      BY <1>1, <1>4, <2>1, <3>1, GradKept
  <2>2. CASE /\ pc'[root] \in {"top", "test", "start", "solved", "finaltest", "stop", "done"}
             /\ pc'[root] \in {"test", "start"} => pc[root] = "test"
    <3>1. Zero' = Zero
      BY DEF Zero
    <3>2. QED
      BY <1>1, <1>2, <1>4, <2>2, <3>1 DEF GradOf
  <2>3. QED
    BY <2>1, <2>2
<1>6. QED
  BY <1>1, <1>3, <1>5, SolverGrads, GradsAlone

LEMMA RootStepGrads ==
  ASSUME Types, RoundsInv, Types', RoundsInv', GradInv, Root \/ Signalled \/ UNCHANGED vars
  PROVE  GradInv'
<1>1. /\ pc \in [Solvers -> Places] /\ at \in [Solvers -> Int] /\ Members \subseteq Solvers /\ root \in Solvers
  BY TreeFacts, SolverTypes DEF Types, ThreadTypes
<1>2. UNCHANGED << tree, initial_iter_, iter_, data_, diff_, parent_grads_, queue_, hand >>
  BY DEF Root, Decide, CheckForSignals, Test, Save, Solved, Finish, Stop, Signalled, vars, control, sync
<1>3. at' = at \/ \E k : at' = [at EXCEPT ![root] = k]
  BY DEF Root, Decide, CheckForSignals, Test, Save, Solved, Finish, Stop, Signalled, vars, control, sync
<1>4. \/ pc' = pc /\ (at' = at \/ pc[root] \in {"test", "finaltest"})
      \/ \E l \in {"top", "start", "solved", "finaltest", "stop", "done"} :
           pc' = [pc EXCEPT ![root] = l] /\ (l = "start" => pc[root] = "test")
  <2>1. CASE Test
    BY <2>1 DEF Test, Testing, Goto
  <2>2. CASE Decide \/ Solved \/ Finish
    BY <2>2 DEF Decide, Solved, Finish, Goto
  <2>3. CASE CheckForSignals \/ Save \/ (\E i \in DOMAIN tree.syncs : Stop(i)) \/ Signalled \/ UNCHANGED vars
    BY <2>3 DEF CheckForSignals, Save, Stop, Signalled, vars, control, sync
  <2>4. QED
    BY <2>1, <2>2, <2>3 DEF Root
<1>5. \A m \in Members \ {root} : pc'[m] = pc[m] /\ at'[m] = at[m]
  BY <1>1, <1>3, <1>4
<1>6. \/ pc'[root] = pc[root] /\ at'[root] = at[root]
      \/ /\ pc'[root] \in {"top", "test", "start", "solved", "finaltest", "stop", "done"}
         /\ pc'[root] \in {"test", "start"} => pc[root] = "test"
  BY <1>1, <1>4
<1>7. QED
  BY <1>2, <1>5, <1>6, RootGrads

LEMMA UsableIs ==
  ASSUME FilesInv, NEW i \in Iterations, Usable(i) PROVE model[i] = i /\ state[i] = i
<1>1. model[i] \in {NoFile, Torn, i} /\ state[i] \in {NoFile, Torn, i}
  BY DEF FilesInv
<1>2. QED
  BY <1>1, P2PSyncAssumption DEF Usable, Weights, Iterations, Bad, NoFile, Torn

FreshWeights ==
  /\ pc = AtTop /\ diff_ = All(Zero) /\ parent_grads_ = All(Zero) /\ iter_ = FirstIter(initial_iter_)
  /\ data_ = All(initial_iter_) /\ initial_iter_ \in Iterations

LEMMA FreshGrads == Types /\ RoundsInv /\ FreshWeights => GradInv
<1> SUFFICES ASSUME Types, RoundsInv, FreshWeights PROVE GradInv
  OBVIOUS
<1> USE DEF FreshWeights
<1>1. root \in Members /\ Members \subseteq Solvers /\ initial_iter_ \in Nat
  BY TreeFacts, SolverTypes DEF Types
<1>2. ASSUME NEW n \in Members PROVE GradOf(n)
  <2>1. pc[n] = "top" /\ n \in Solvers
    BY <1>1 DEF AtTop
  <2>2. n # root => ~Reported(n)
    <3>1. n # root => Round(n) = initial_iter_ /\ iter_[root] = initial_iter_
      BY <1>1, <2>1 DEF Round, FirstIter
    <3>2. QED
      BY <1>1, <3>1 DEF Reported
  <2>3. QED
    BY <2>1, <2>2 DEF GradOf
<1>3. diff_ \in [Solvers -> Gradients] /\ parent_grads_ \in [Solvers -> Gradients]
  BY WholeType DEF All
<1>4. iter_[root] = data_[root] /\ data_ \in [Solvers -> Iterations]
  BY <1>1 DEF FirstIter, All
<1>5. QED
  BY <1>2, <1>3, <1>4 DEF GradInv

LEMMA RestartGrads ==
  ASSUME Types, Types', RoundsInv', FilesInv, Restart PROVE GradInv'
<1>1. root' = root /\ Members' = Members
  BY SameTree DEF Restart
<1>2. data_' = All(initial_iter_')
  BY UsableIs DEF Restart
<1>3. FreshWeights'
  <2>1. pc' = AtTop' /\ iter_' = FirstIter(initial_iter_)'
    BY <1>1 DEF Restart, AtTop, FirstIter
  <2>2. diff_' = All(Zero)' /\ parent_grads_' = All(Zero)' /\ data_' = All(initial_iter_)'
    BY <1>2 DEF Restart, All, Zero
  <2>3. initial_iter_' \in Iterations'
    BY DEF Types, ProcessTypes
  <2>4. QED
    BY <2>1, <2>2, <2>3 DEF FreshWeights
<1>4. Types' /\ RoundsInv' /\ FreshWeights' => GradInv'
  BY FreshGrads, PTL
<1>5. QED
  BY <1>3, <1>4

LEMMA StepGrads ==
  ASSUME Types, RoundsInv, Types', RoundsInv', GradInv, NEW n \in Members, Step(n) PROVE GradInv'
<1>1. CASE Apply(n)
  BY <1>1, OutsideGrads, RootApplyGrads
<1>2. QED
  BY <1>1, OutsideGrads, BeginGrads, DownGrads, ForwardBackwardGrads, GatherGrads, AddGrads, LeaveGrads,
     ReportGrads DEF Step

-----------------------------------------------------------------------------
(* The files *)

FilesOf(i) == model[i] \in {NoFile, Torn, i} /\ state[i] \in {NoFile, Torn, i}

LEMMA FilesAre == FilesInv => \A i \in Iterations : FilesOf(i)
BY DEF FilesInv, FilesOf

\* The root is where it was, or goes on when no snapshot is being taken
LEMMA FilesKept ==
  ASSUME FilesInv, tree' = tree, initial_iter_' = initial_iter_, UNCHANGED files,
         writing' = writing, requested_early_exit_' = requested_early_exit_,
         iter_'[root] = iter_[root], pc'[root] = pc[root], check' = "idle" \/ check' = check \/
           (pc[root] \in {"test", "finaltest", "ask"} /\ writing = "no")
  PROVE  FilesInv'
<1>1. root' = root /\ Iterations' = Iterations
  BY SameTree DEF Iterations
<1>2. model' = model /\ state' = state
  BY DEF files
<1>3. (\A i \in Iterations : model[i] \in {NoFile, Torn, i} /\ state[i] \in {NoFile, Torn, i})'
  BY <1>1, <1>2 DEF FilesInv, NoFile, Torn
<1>4. (writing = "state written" => model[iter_[root]] = iter_[root])'
  BY <1>1, <1>2 DEF FilesInv
<1>5. /\ check' # "idle" => pc'[root] \in {"test", "finaltest", "ask"} /\ writing' = "no"
      /\ writing' # "no" => pc'[root] \in {"top", "test", "solved", "finaltest", "stop"}
      /\ requested_early_exit_' => pc'[root] \in {"test", "solved", "finaltest", "stop", "done"}
  BY DEF FilesInv
<1>6. SnapshotDue' <=> SnapshotDue
  BY <1>1 DEF SnapshotDue
<1>7. Saved(iter_'[root]) => Saved(iter_[root])'
  BY <1>1, <1>2 DEF Saved
<1>8. QED
  BY <1>1, <1>3, <1>4, <1>5, <1>6, <1>7 DEF FilesInv

LEMMA FilesMoved ==
  ASSUME FilesInv, tree' = tree, initial_iter_' = initial_iter_, UNCHANGED files, check' = "idle",
         writing' = "no" \/ (writing' = "model" /\ pc'[root] \in {"top", "test", "solved", "finaltest", "stop"}),
         requested_early_exit_' => pc'[root] \in {"test", "solved", "finaltest", "stop", "done"},
         \/ pc'[root] \notin {"finaltest", "stop", "done"} /\ (pc'[root] = "ask" \/ ~SnapshotDue')
         \/ /\ writing = "no" /\ iter_'[root] = iter_[root]
            /\ \/ writing' = "model"
               \/ /\ pc[root] # "ask"
                  /\ pc'[root] \in {"finaltest", "stop", "done"} =>
                       SnapshotDue \/ ~snapshot_after_train \/ pc[root] \in {"finaltest", "stop", "done"}
  PROVE  FilesInv'
<1>1. root' = root /\ Iterations' = Iterations
  BY SameTree DEF Iterations
<1>2. model' = model /\ state' = state
  BY DEF files
<1>3. (\A i \in Iterations : model[i] \in {NoFile, Torn, i} /\ state[i] \in {NoFile, Torn, i})'
  BY <1>1, <1>2 DEF FilesInv, NoFile, Torn
<1>4. iter_'[root] = iter_[root] => (SnapshotDue' <=> SnapshotDue)
  BY <1>1 DEF SnapshotDue
<1>5. ASSUME iter_'[root] > initial_iter_', writing' = "no",
             \/ SnapshotDue' /\ pc'[root] # "ask"
             \/ pc'[root] \in {"finaltest", "stop", "done"} /\ snapshot_after_train
      PROVE  Saved(iter_[root])'
  <2>1. writing = "no" /\ iter_'[root] = iter_[root] /\ iter_[root] > initial_iter_
    BY <1>5
  <2>2. \/ SnapshotDue /\ pc[root] # "ask"
        \/ pc[root] \in {"finaltest", "stop", "done"} /\ snapshot_after_train
    <3>1. /\ pc[root] # "ask"
          /\ pc'[root] \in {"finaltest", "stop", "done"} =>
                 SnapshotDue \/ ~snapshot_after_train \/ pc[root] \in {"finaltest", "stop", "done"}
      BY <1>5
    <3>2. CASE SnapshotDue' /\ pc'[root] # "ask"
      BY <1>4, <2>1, <3>1, <3>2
    <3>3. CASE pc'[root] \in {"finaltest", "stop", "done"} /\ snapshot_after_train
      BY <3>1, <3>3
    <3>4. QED
      BY <1>5, <3>2, <3>3
  <2>3. Saved(iter_[root])
    BY <2>1, <2>2 DEF FilesInv
  <2>4. QED
    BY <1>1, <1>2, <2>1, <2>3 DEF Saved
<1>6. QED
  BY <1>1, <1>3, <1>5 DEF FilesInv

LEMMA StepFiles ==
  ASSUME Types, RoundsInv, FilesInv, NEW n \in Members, Step(n) PROVE FilesInv'
<1>1. /\ pc \in [Solvers -> Places] /\ iter_ \in [Solvers -> Nat] /\ n \in Solvers /\ root \in Solvers
  BY SolverTypes DEF Types, ThreadTypes
<1>2. UNCHANGED << tree, initial_iter_, files, writing, requested_early_exit_, check >>
  BY DEF Step, Begin, Return, OnStart, Copy, Tell, ForwardBackward, Gather, Add, Leave, Report, Apply,
         Interrupted, control, saving, files, signal
<1>3. /\ iter_' = iter_ \/ \E k : iter_' = [iter_ EXCEPT ![n] = k]
      /\ pc' = pc \/ \E l \in Places : pc' = [pc EXCEPT ![n] = l]
  BY DEF Step, Begin, Return, OnStart, Copy, Tell, ForwardBackward, Gather, Add, Leave, Report, Apply,
         Interrupted, Goto, Up, Down, Places
<1>4. CASE n # root
  <2>1. iter_'[root] = iter_[root] /\ pc'[root] = pc[root]
    BY <1>1, <1>3, <1>4
  <2>2. QED
    BY <1>2, <2>1, FilesKept
<1>5. CASE n = root
  <2>1. /\ pc[root] \in {"top", "start", "apply"} \union Active /\ (pc[root] = "top" => ~Busy(root))
        /\ \/ pc[root] = "apply" /\ pc' = [pc EXCEPT ![root] = "ask"]
           \/ /\ iter_' = iter_
              /\ \/ pc' = pc
                 \/ \E l \in {"test", "start", "solved", "apply"} \union Active : pc' = [pc EXCEPT ![root] = l]
    BY <1>5 DEF Step, Begin, Return, OnStart, Copy, Tell, ForwardBackward, Gather, Add, Leave, Report,
                Apply, Interrupted, control, sync, Goto, Up, Down, Active
  <2>2. writing = "no" /\ check = "idle" /\ ~requested_early_exit_
    BY <2>1 DEF FilesInv, Busy, Active
  <2>3. \/ pc'[root] = "ask"
        \/ /\ iter_'[root] = iter_[root] /\ pc[root] # "ask"
           /\ pc'[root] \notin {"finaltest", "stop", "done"}
    BY <1>1, <2>1 DEF Active
  <2>4. QED
    BY <1>2, <2>2, <2>3, FilesMoved
<1>6. QED
  BY <1>4, <1>5

LEMMA RootFiles ==
  ASSUME Types, RoundsInv, FilesInv, Decide \/ Test \/ Solved \/ Finish PROVE FilesInv'
<1>1. pc \in [Solvers -> Places] /\ root \in Solvers
  BY SolverTypes, TreeFacts DEF Types, ThreadTypes
<1>2. /\ UNCHANGED << tree, initial_iter_, files, check, iter_ >> /\ ~Busy(root)
      /\ writing' \in {"no", "model"}
  BY DEF Decide, Test, Solved, Finish, control, saving, files, signal, Busy
<1>3. writing = "no" /\ check = "idle"
  BY <1>2 DEF Busy
<1>4. CASE Decide
  <2>1. /\ pc[root] = "ask" /\ (writing' = "no" => ~SnapshotDue)
        /\ requested_early_exit_' = (requested_early_exit_ \/ request = "STOP")
        /\ pc' = [pc EXCEPT ![root] = IF request = "STOP" THEN "solved" ELSE "top"]
    BY <1>4 DEF Decide, Goto
  <2>2. SnapshotDue' <=> SnapshotDue
    BY <1>2, SameTree DEF SnapshotDue
  <2>3. pc'[root] \in {"solved", "top"} /\ (requested_early_exit_' => pc'[root] = "solved")
    BY <1>1, <2>1 DEF FilesInv
  <2>4. QED
    BY <1>2, <1>3, <2>1, <2>2, <2>3, FilesMoved
<1>5. CASE Test
  <2>1. /\ pc[root] \in {"test", "finaltest"}
        /\ requested_early_exit_' = (requested_early_exit_ \/ request = "STOP")
        /\ \/ pc' = pc
           \/ /\ request = "NONE"
              /\ \E l \in {"stop", "solved", "start"} :
                   /\ pc' = [pc EXCEPT ![root] = l] /\ (l = "stop" <=> pc[root] = "finaltest")
                   /\ l = "start" => ~requested_early_exit_
        /\ writing' = "model" => request = "SNAPSHOT"
    BY <1>5 DEF Test, Testing, Goto
  <2>2. /\ pc'[root] \in {"test", "finaltest", "stop", "solved", "start"}
        /\ pc'[root] \in {"finaltest", "stop", "done"} => pc[root] = "finaltest"
        /\ requested_early_exit_' => pc'[root] # "start"
        /\ writing' = "model" => pc'[root] \in {"test", "finaltest"}
    BY <1>1, <2>1
  <2>3. QED
    BY <1>2, <1>3, <2>1, <2>2, FilesMoved
<1>6. CASE Solved
  <2>1. /\ pc[root] = "solved" /\ requested_early_exit_' = requested_early_exit_
        /\ \E l \in {"finaltest", "stop"} : pc' = [pc EXCEPT ![root] = l]
        /\ writing' = "no" => ~snapshot_after_train \/ SnapshotDue
    BY <1>6 DEF Solved, Goto, control
  <2>2. pc'[root] \in {"finaltest", "stop"}
    BY <1>1, <2>1
  <2>3. QED
    BY <1>2, <1>3, <2>1, <2>2, FilesMoved
<1>7. CASE Finish
  <2>1. pc[root] = "stop" /\ pc'[root] = "done" /\ writing' = "no"
    BY <1>1, <1>3, <1>7 DEF Finish, Goto, saving
  <2>2. QED
    BY <1>2, <1>3, <2>1, FilesMoved
<1>8. QED
  BY <1>4, <1>5, <1>6, <1>7

LEMMA SaveFiles ==
  ASSUME Types, GradInv, FilesInv, Save PROVE FilesInv'
<1> DEFINE i == iter_[root]
<1>1. root \in Solvers /\ i = data_[root] /\ i \in Iterations /\ i' = i
  <2>1. root \in Solvers /\ iter_[root] = data_[root] /\ data_[root] \in Iterations
    BY SolverTypes, TreeFacts DEF GradInv, Types
  <2>2. root' = root
    BY SameTree DEF Save, control
  <2>3. QED
    BY <2>1, <2>2 DEF Save
<1>2. /\ UNCHANGED << tree, initial_iter_, requested_early_exit_, check, pc >> /\ root' = root
      /\ Iterations' = Iterations /\ writing \in {"model", "model written", "state written"}
  BY SameTree DEF Save, Snapshot, control, signal, Iterations
<1>3. /\ model \in [Iterations -> Int] /\ state \in [Iterations -> Int]
  BY DEF Types, ProcessTypes
<1> HIDE DEF i
<1>4. \/ /\ writing = "model" /\ writing' = "model written"
         /\ model' = [model EXCEPT ![i] = Torn] /\ state' = state
      \/ /\ writing = "model written" /\ writing' = "state written"
         /\ model' = [model EXCEPT ![i] = i] /\ state' = [state EXCEPT ![i] = Torn]
      \/ /\ writing = "state written" /\ writing' = "no"
         /\ model' = model /\ state' = [state EXCEPT ![i] = i]
  BY <1>1 DEF Save, Snapshot, i
<1>5. /\ \A j \in Iterations \ {i} : model'[j] = model[j] /\ state'[j] = state[j]
      /\ model'[i] \in {model[i], Torn, i} /\ state'[i] \in {state[i], Torn, i}
      /\ writing' = "state written" => model'[i] = i
  BY <1>1, <1>3, <1>4
<1>6. ASSUME NEW j \in Iterations PROVE FilesOf(j)'
  <2>1. FilesOf(j)
    BY FilesAre
  <2>2. QED
    BY <1>5, <2>1 DEF FilesOf, NoFile, Torn
<1>7. ASSUME writing' = "no" PROVE Saved(i)'
  <2>1. writing = "state written" /\ model'[i] = model[i] /\ state'[i] = i
    BY <1>1, <1>3, <1>4, <1>7
  <2>2. model[i] = i
    BY <2>1 DEF FilesInv, i
  <2>3. QED
    BY <1>1, <2>1, <2>2 DEF Saved
<1>8. (\A j \in Iterations : model[j] \in {NoFile, Torn, j} /\ state[j] \in {NoFile, Torn, j})'
  BY <1>2, <1>6 DEF FilesOf
<1>9. (writing = "state written" => model[iter_[root]] = iter_[root])'
  BY <1>1, <1>5 DEF i
<1>10. /\ check' # "idle" => pc'[root] \in {"test", "finaltest", "ask"} /\ writing' = "no"
       /\ writing' # "no" => pc'[root] \in {"top", "test", "solved", "finaltest", "stop"}
       /\ requested_early_exit_' => pc'[root] \in {"test", "solved", "finaltest", "stop", "done"}
  BY <1>2 DEF FilesInv
<1>11. QED
  BY <1>2, <1>7, <1>8, <1>9, <1>10 DEF FilesInv, i

LEMMA NextFiles ==
  ASSUME Types, RoundsInv, GradInv, FilesInv, [Next]_vars PROVE FilesInv'
<1>1. CASE CheckForSignals \/ Signalled \/ UNCHANGED vars
  <2>1. /\ UNCHANGED << tree, initial_iter_, files, writing, requested_early_exit_, pc, iter_ >>
        /\ check' = "idle" \/ check' = check \/ check # "idle" \/
             (pc[root] \in {"test", "finaltest", "ask"} /\ writing = "no")
    BY <1>1 DEF CheckForSignals, Signalled, Testing, Busy, vars, control, saving, files, SH!Deliver, SH!Check,
                SH!Read, SH!Clear, SH!Ask
  <2>2. check # "idle" => pc[root] \in {"test", "finaltest", "ask"} /\ writing = "no"
    BY DEF FilesInv
  <2>3. iter_'[root] = iter_[root] /\ pc'[root] = pc[root]
    BY <2>1
  <2>4. QED
    BY <2>1, <2>2, <2>3, FilesKept
<1>2. ASSUME NEW i \in DOMAIN tree.syncs, Stop(i) PROVE FilesInv'
  <2>1. UNCHANGED << tree, initial_iter_, files, writing, requested_early_exit_, pc, iter_, check >>
    BY <1>2 DEF Stop, saving, files, signal
  <2>2. iter_'[root] = iter_[root] /\ pc'[root] = pc[root]
    BY <2>1
  <2>3. QED
    BY <2>1, <2>2, FilesKept
<1>3. CASE Restart
  <2>1. Types' /\ tree' = tree /\ model' = model /\ state' = state
    BY <1>3, RestartTypes DEF Restart, files
  <2>2. Iterations' = Iterations /\ root' = root
    BY <2>1, SameTree DEF Iterations
  <2>3. (\A j \in Iterations : model[j] \in {NoFile, Torn, j} /\ state[j] \in {NoFile, Torn, j})'
    BY <2>1, <2>2 DEF FilesInv, NoFile, Torn
  <2>4. ~(iter_'[root] > initial_iter_')
    <3>1. root \in Solvers /\ initial_iter_' \in Nat
      <4>1. initial_iter_' \in Iterations
        BY <2>1, <2>2 DEF Types, ProcessTypes
      <4>2. QED
        BY <4>1, TreeFacts, P2PSyncAssumption DEF Types, Iterations
    <3>2. iter_'[root] = initial_iter_'
      BY <1>3, <3>1 DEF Restart, FirstIter
    <3>3. QED
      BY <3>1, <3>2
  <2>5. writing' = "no" /\ check' = "idle" /\ requested_early_exit_' = FALSE
    BY <1>3 DEF Restart
  <2>6. QED
    BY <2>2, <2>3, <2>4, <2>5 DEF FilesInv
<1>4. QED
  BY <1>1, <1>2, <1>3, StepFiles, RootFiles, SaveFiles DEF Next, Threads, Root, Done

-----------------------------------------------------------------------------
(* Bounds *)

Bounds ==
  /\ \A n \in Members : at[n] \in 0..(Len(Children(n)) + iter_size + test_iter)
  /\ \A n \in Solvers \ Members : iter_[n] = 0

LEMMA NextBounds ==
  ASSUME Types, RoundsInv, Bounds, [Next]_vars PROVE Bounds'
<1> DEFINE B(n) == 0..(Len(Children(n)) + iter_size + test_iter)
<1>1. /\ at \in [Solvers -> Int] /\ iter_ \in [Solvers -> Nat] /\ Members \subseteq Solvers
      /\ root \in Members
  BY TreeFacts DEF Types, ThreadTypes
<1>2. tree' = tree
  BY DEF Next, Threads, Step, Root, Begin, Return, OnStart, Copy, Tell, ForwardBackward, Gather, Add, Leave,
         Report, Apply, Interrupted, Decide, CheckForSignals, Test, Save, Solved, Finish, Stop, Signalled,
         Restart, Done, vars, control
<1>3. Members' = Members /\ \A n : Children(n)' = Children(n)
  BY <1>2, SameTree
<1>4. \A n \in Members : Len(Children(n)) \in Nat
  BY KidsCount
<1>5. ASSUME NEW n \in Members, NEW k \in B(n), at' = [at EXCEPT ![n] = k], iter_' = iter_ PROVE Bounds'
  <2>1. \A m \in Members : at'[m] = IF m = n THEN k ELSE at[m]
    BY <1>1, <1>5
  <2>2. \A m \in Members : at'[m] \in B(m)
    BY <1>5, <2>1 DEF Bounds
  <2>3. QED
    BY <1>3, <1>5, <2>2 DEF Bounds
<1>6. ASSUME NEW n \in Members, at' = at,
             iter_' = iter_ \/ iter_' = [iter_ EXCEPT ![n] = iter_[n] + 1]
      PROVE  Bounds'
  <2>1. \A m \in Solvers \ Members : iter_'[m] = iter_[m]
    BY <1>1, <1>6
  <2>2. QED
    BY <1>3, <1>6, <2>1 DEF Bounds
<1>7. \A n \in Members : 0 \in B(n) /\ Len(Children(n)) \in B(n)
  BY <1>4, P2PSyncAssumption
<1>8. ASSUME NEW n \in Members, Step(n) PROVE Bounds'
  <2>1. CASE Begin(n)
    BY <1>5, <1>7, <2>1 DEF Begin
  <2>2. CASE OnStart(n)
    BY <1>5, <1>7, <2>2 DEF OnStart
  <2>3. CASE Tell(n)
    <3>1. at[n] \in 1..Len(Children(n))
      BY <2>3 DEF Tell, RoundsInv, PlaceInv, PlaceOf
    <3>2. at[n] - 1 \in B(n)
      BY <1>4, <3>1, P2PSyncAssumption
    <3>3. QED
      BY <1>5, <2>3, <3>2 DEF Tell
  <2>4. CASE ForwardBackward(n)
    <3>1. at[n] \in 0..iter_size - 1
      BY <2>4 DEF ForwardBackward, RoundsInv, PlaceInv, PlaceOf
    <3>2. at[n] + 1 \in B(n)
      BY <1>4, <3>1, P2PSyncAssumption
    <3>3. QED
      BY <1>5, <1>7, <2>4, <3>2 DEF ForwardBackward
  <2>5. CASE Add(n)
    <3>1. at[n] < Len(Children(n)) /\ at[n] \in B(n)
      BY <2>5 DEF Add, RoundsInv, QueueInv, Collecting, Active, Bounds
    <3>2. at[n] + 1 \in B(n)
      BY <1>4, <3>1, P2PSyncAssumption
    <3>3. QED
      BY <1>5, <2>5, <3>2 DEF Add
  <2>6. CASE Return(n) \/ Copy(n) \/ Gather(n) \/ Leave(n) \/ Report(n) \/ Apply(n) \/ Interrupted(n)
    BY <1>6, <2>6 DEF Return, Copy, Gather, Leave, Report, Apply, Interrupted, sync
  <2>7. QED
    BY <1>8, <2>1, <2>2, <2>3, <2>4, <2>5, <2>6 DEF Step
<1>9. CASE Test
  <2>1. PICK r \in Members : r = root
    BY <1>1
  <2>2. at[r] \in 0..test_iter - 1
    BY <1>9, <2>1 DEF Test, Testing, RoundsInv, PlaceInv, PlaceOf
  <2>3. at[r] + 1 \in B(r)
    BY <1>4, <2>2, P2PSyncAssumption
  <2>4. QED
    BY <1>5, <1>6, <1>9, <2>1, <2>3 DEF Test
<1>10. CASE Solved
  BY <1>1, <1>5, <1>7, <1>10 DEF Solved
<1>11. CASE Restart
  <2>1. at' = All(0) /\ iter_' = FirstIter(initial_iter_')
    BY <1>11 DEF Restart
  <2>2. \A n \in Solvers \ Members : iter_'[n] = 0
    BY <1>1, <2>1 DEF FirstIter
  <2>3. \A n \in Members : at'[n] \in B(n)
    BY <1>1, <1>7, <2>1 DEF All
  <2>4. QED
    BY <1>3, <2>2, <2>3 DEF Bounds
<1>12. CASE Decide \/ CheckForSignals \/ Save \/ Finish \/ (\E i \in DOMAIN tree.syncs : Stop(i)) \/ Signalled
            \/ UNCHANGED vars
  BY <1>1, <1>6, <1>12 DEF Decide, CheckForSignals, Save, Finish, Stop, Signalled, sync, vars
<1>13. QED
  BY <1>8, <1>9, <1>10, <1>11, <1>12 DEF Next, Threads, Root, Done

-----------------------------------------------------------------------------
(* The theorems *)

TrainingInv == Types /\ RoundsInv /\ GradInv /\ FilesInv /\ Bounds

LEMMA InitTraining == TreesSpan /\ Init => TrainingInv
<1> SUFFICES ASSUME TreesSpan, Init PROVE TrainingInv
  OBVIOUS
<1>1. Types /\ RoundsInv
  BY InitTypes, InitRounds
<1>2. 0 \in Iterations
  BY P2PSyncAssumption DEF Iterations
<1>3. root \in Members /\ Members \subseteq Solvers
  BY <1>1, TreeFacts DEF Types
<1>4. GradInv
  BY <1>1, <1>2, FreshGrads DEF Init, FreshWeights, FirstIter, All
<1>5. FilesInv
  <2>1. iter_[root] = 0 /\ initial_iter_ = 0 /\ ~(iter_[root] > initial_iter_)
    BY <1>3 DEF Init, All
  <2>2. writing = "no" /\ check = "idle" /\ requested_early_exit_ = FALSE
    BY DEF Init, SH!Init
  <2>3. \A i \in Iterations : model[i] = NoFile /\ state[i] = NoFile
    BY DEF Init
  <2>4. QED
    BY <2>1, <2>2, <2>3 DEF FilesInv
<1>6. Bounds
  <2>1. \A n \in Members : Len(Children(n)) \in Nat
    BY <1>1, KidsCount
  <2>2. \A n \in Solvers : at[n] = 0 /\ iter_[n] = 0
    BY DEF Init, All
  <2>3. QED
    BY <1>3, <2>1, <2>2, P2PSyncAssumption DEF Bounds
<1>7. QED
  BY <1>1, <1>4, <1>5, <1>6 DEF TrainingInv

LEMMA NextTraining == TrainingInv /\ [Next]_vars => TrainingInv'
<1> SUFFICES ASSUME TrainingInv, [Next]_vars PROVE TrainingInv'
  OBVIOUS
<1>1. Types /\ RoundsInv /\ GradInv /\ FilesInv /\ Bounds
  BY DEF TrainingInv
<1>2. Types' /\ RoundsInv'
  BY <1>1, NextTypes, NextRounds
<1>3. GradInv'
  BY <1>1, <1>2, StepGrads, RootStepGrads, RestartGrads DEF Next, Threads, Done
<1>4. FilesInv' /\ Bounds'
  BY <1>1, NextFiles, NextBounds
<1>5. QED
  BY <1>2, <1>3, <1>4 DEF TrainingInv

LEMMA TrainingHolds == ASSUME TreesSpan PROVE Spec => []TrainingInv
BY InitTraining, NextTraining, PTL DEF Spec

\* The variables of training hold what they may, whatever the tree, the numbers
\* of iterations and the order of the threads: no counter of Step or of
\* P2PSync leaves its range (solver.cpp:193-297, parallel.cpp:272-369).
THEOREM TrainingTypeCorrect == ASSUME TreesSpan PROVE Spec => []TypeOK
<1>1. TrainingInv => TypeOK
  <2> SUFFICES ASSUME TrainingInv PROVE TypeOK
    OBVIOUS
  <2>1. /\ Types /\ RoundsInv /\ GradInv /\ FilesInv /\ Bounds
        /\ Spans(tree) /\ ThreadTypes /\ ProcessTypes /\ SH!TypeOK
    BY DEF TrainingInv, Types
  <2>2. root \in Members /\ Members \subseteq Solvers
    BY <2>1, TreeFacts
  <2>3. tree.syncs \in Seq(Solvers) /\ tree.children_ \in [Members -> Seq(Members)]
    <3>1. tree.syncs \in Seq(Solvers) /\ tree.children_ \in [Members -> Seq(Members \ {root})]
      BY <2>1 DEF Spans, Members, root
    <3>2. \A q \in Seq(Members \ {root}) : q \in Seq(Members)
      OBVIOUS
    <3>3. QED
      BY <3>1, <3>2
  <2>4. iter_ \in [Solvers -> Iterations]
    <3>1. iter_ \in [Solvers -> Nat] /\ initial_iter_ \in Nat /\ 0 \in Iterations
      BY <2>1, <2>2, SolverTypes, P2PSyncAssumption DEF ThreadTypes, Iterations
    <3>2. iter_[root] \in Iterations
      BY <2>1, <2>2 DEF GradInv
    <3>3. ASSUME NEW n \in Workers PROVE iter_[n] <= max_iter
      <4>1. n \in Members /\ iter_[n] \in Nat /\ iter_[root] \in Nat /\ iter_[root] <= max_iter
        BY <2>2, <3>1, <3>2, P2PSyncAssumption DEF Workers, Iterations
      <4>2. PICK p \in Members : \E i \in DOMAIN Children(p) : Children(p)[i] = n
        BY <2>1, HasParent
      <4>3. Waiting(n) \/ Called(n, p) \/ Working(n) \/ Reported(n)
        BY <2>1, <4>2 DEF RoundsInv, EdgeInv, Edge
      <4>4. CASE Round(n) = iter_[root]
        BY <3>1, <4>1, <4>4, P2PSyncAssumption DEF Round
      <4>5. CASE Reported(n)
        <5>1. ~Waiting(n)
          BY <2>1, <4>1, <4>5, Apart
        <5>2. iter_[root] < max_iter
          BY <2>1, <5>1, InIteration DEF RoundsInv
        <5>3. QED
          BY <3>1, <4>1, <4>5, <5>2, P2PSyncAssumption DEF Round, Reported
      <4>6. QED
        BY <4>3, <4>4, <4>5 DEF Waiting, Called, Working
    <3>4. \A n \in Solvers : iter_[n] \in Iterations
      BY <2>1, <2>2, <3>1, <3>2, <3>3, P2PSyncAssumption DEF Bounds, Workers, Iterations
    <3>5. QED
      BY <3>1, <3>4
  <2>5. data_ \in [Solvers -> Weights]
    <3>1. data_ \in [Solvers -> Iterations]
      BY <2>1 DEF GradInv
    <3>2. QED
      BY <3>1 DEF Weights
  <2>6. queue_ \in [Solvers -> Seq(Solvers)] /\ hand \in [Solvers -> Solvers]
    <3>1. queue_ \in [Solvers -> Seq(Members)] /\ hand \in [Solvers -> Members]
      BY <2>1 DEF ThreadTypes
    <3>2. \A q \in Seq(Members) : q \in Seq(Solvers)
      BY <2>2
    <3>3. QED
      BY <2>2, <3>1, <3>2
  <2>7. /\ model \in [Iterations -> Weights \union {NoFile, Torn}]
        /\ state \in [Iterations -> Weights \union {NoFile, Torn}]
    <3>1. model \in [Iterations -> Int] /\ state \in [Iterations -> Int]
      BY <2>1 DEF ProcessTypes
    <3>2. \A i \in Iterations : FilesOf(i)
      BY <2>1, FilesAre
    <3>3. QED
      BY <3>1, <3>2 DEF FilesOf, Weights
  <2>8. pc \in [Solvers -> Places]
    BY <2>1 DEF ThreadTypes
  <2>9. \A n \in Members : at[n] \in 0..(Len(Children(n)) + iter_size + test_iter)
    BY <2>1 DEF Bounds
  <2>10. /\ initial_iter_ \in Iterations /\ crashes \in 0..MaxCrashes
         /\ interrupted \in [Solvers -> BOOLEAN] /\ requested_early_exit_ \in BOOLEAN
         /\ writing \in {"no", "model", "model written", "state written"}
    BY <2>1 DEF ProcessTypes
  <2>11. diff_ \in [Solvers -> Gradients] /\ parent_grads_ \in [Solvers -> Gradients]
    BY <2>1 DEF GradInv
  <2>12. QED
    BY <2>1, <2>3, <2>4, <2>5, <2>6, <2>7, <2>8, <2>9, <2>10, <2>11 DEF TypeOK, Places
<1>2. QED
  BY <1>1, TrainingHolds, PTL

\* iter_ of the root is the number of updates its weights went through, also
\* after a resume, and whoever computes is at its iteration, with its weights
\* (solver.cpp:270, P2PSync::on_start).
THEOREM TrainsInStep == ASSUME TreesSpan PROVE Spec => []InStep
<1>1. TrainingInv => InStep
  <2> SUFFICES ASSUME TrainingInv, NEW n \in Members, pc[n] = "compute"
               PROVE  data_[n] = data_[root] /\ (n # root => iter_[n] + initial_iter_ = iter_[root])
    BY DEF InStep, TrainingInv, GradInv
  <2>1. CASE n # root
    <3>1. Working(n) /\ data_[n] = data_[root]
      BY <2>1, ActiveWorks DEF TrainingInv, RoundsInv, Workers, Active
    <3>2. QED
      BY <3>1 DEF Working, Round
  <2>2. QED
    BY <2>1
<1>2. QED
  BY <1>1, TrainingHolds, PTL

\* When Solve has returned and the threads are stopped, the weights reached can
\* be resumed: both files of the last iteration are whole, and are of these
\* weights, also after an early exit (solver.cpp:309-315).
THEOREM EndIsSaved == ASSUME TreesSpan PROVE Spec => []SavedAtEnd
<1>1. TrainingInv => SavedAtEnd
  <2> SUFFICES ASSUME TrainingInv, pc[root] = "done", snapshot_after_train, iter_[root] > initial_iter_
               PROVE  /\ Usable(iter_[root]) /\ model[iter_[root]] = data_[root]
                      /\ state[iter_[root]] = data_[root]
    BY DEF SavedAtEnd
  <2>1. iter_[root] = data_[root] /\ iter_[root] \in Iterations
    BY SolverTypes, TreeFacts DEF TrainingInv, Types, GradInv
  <2>2. writing = "no"
    BY DEF TrainingInv, FilesInv
  <2>3. Saved(iter_[root])
    BY <2>2 DEF TrainingInv, FilesInv
  <2>4. QED
    BY <2>1, <2>3 DEF Saved, Usable, Weights
<1>2. QED
  BY <1>1, TrainingHolds, PTL

\* Once an early exit is requested, by a signal while the solver asks for one,
\* no step of any thread moves the weights again (solver.cpp:223-226, :283-287).
THEOREM NothingAfterEarlyExit == ASSUME TreesSpan PROVE Spec => EarlyExitIsFinal
<1>1. TrainingInv /\ [Next]_vars
        => [requested_early_exit_ /\ requested_early_exit_' => data_[root]' = data_[root]]_vars
  <2> SUFFICES ASSUME TrainingInv, Next, requested_early_exit_, requested_early_exit_'
               PROVE  data_'[root'] = data_[root]
    BY DEF vars, root
  <2>1. /\ Types /\ RoundsInv /\ root \in Members
        /\ pc[root] \in {"test", "solved", "finaltest", "stop", "done"}
    BY TreeFacts DEF TrainingInv, FilesInv, Types
  <2>2. ASSUME NEW n \in Members, Step(n) PROVE data_'[root] = data_[root] /\ tree' = tree
    <3>1. CASE Copy(n)
      <4>1. Children(n)[at[n]] # root
        BY <2>1, <3>1, ToldWaits, ChildFacts DEF Copy, Types
      <4>2. QED
        BY <2>1, <3>1, <4>1 DEF Copy, control
    <3>2. CASE Apply(n)
      BY <2>1, <3>2 DEF Apply, control
    <3>3. QED
      BY <2>2, <3>1, <3>2 DEF Step, Begin, Return, OnStart, Tell, ForwardBackward, Gather, Add, Leave, Report,
         Interrupted, control
  <2>3. ASSUME Root \/ Signalled \/ Done PROVE data_'[root] = data_[root] /\ tree' = tree
    BY <2>3 DEF Root, Decide, CheckForSignals, Test, Save, Solved, Finish, Stop, Signalled, Done, vars, control
  <2>4. ~Restart
    BY DEF Restart
  <2>5. data_'[root] = data_[root] /\ tree' = tree
    BY <2>2, <2>3, <2>4 DEF Next, Threads
  <2>6. QED
    BY <2>5, SameTree
<1>2. QED
  BY <1>1, TrainingHolds, PTL DEF Spec, EarlyExitIsFinal

-----------------------------------------------------------------------------
(* Training on several GPUs is training in one place *)

Kept == {model[i] : i \in {j \in Iterations : Usable(j)}}

KeptSaved == Kept = {i \in Iterations : Saved(i)}

LEMMA KeptIs == FilesInv => KeptSaved
<1> SUFFICES ASSUME FilesInv PROVE Kept = {i \in Iterations : Saved(i)}
  BY DEF KeptSaved
<1>1. \A i \in Iterations : Usable(i) <=> Saved(i)
  BY UsableIs DEF Usable, Saved, Weights
<1>2. QED
  BY <1>1 DEF Kept, Saved

LEMMA SameKept == ASSUME UNCHANGED files PROVE Kept' = Kept
BY DEF Kept, files, Usable, Weights, Iterations

LEMMA SaveIsSnapshot ==
  ASSUME TrainingInv, FilesInv', Save
  PROVE  Kept' \in {Kept \union {data_[root]}, Kept \ {data_[root]}} /\ data_'[root'] = data_[root]
<1>1. root' = root /\ data_' = data_ /\ iter_' = iter_
  BY SameTree DEF Save, control
<1>2. PICK i \in Iterations : i = iter_[root] /\ i = data_[root]
  BY SolverTypes, TreeFacts DEF TrainingInv, Types, GradInv
<1>3. model \in [Iterations -> Int] /\ state \in [Iterations -> Int] /\ FilesInv
  BY DEF TrainingInv, Types, ProcessTypes
<1>4. /\ \A j \in Iterations \ {i} : model'[j] = model[j] /\ state'[j] = state[j]
      /\ \/ model'[i] = Torn
         \/ state'[i] = Torn
         \/ writing = "state written" /\ model'[i] = model[i] /\ state'[i] = i
  BY <1>2, <1>3 DEF Save, Snapshot
<1>5. \A j \in Iterations \ {i} : Saved(j)' <=> Saved(j)
  BY <1>4 DEF Saved
<1>6. Iterations' = Iterations
  BY DEF Iterations
<1>7. Kept = {j \in Iterations : Saved(j)}
  BY <1>3, KeptIs DEF KeptSaved
<1>8. Kept' = {j \in Iterations : Saved(j)'}
  <2>1. FilesInv' => KeptSaved'
    BY KeptIs, PTL
  <2>2. QED
    BY <1>6, <2>1 DEF KeptSaved
<1>9. CASE Saved(i)'
  BY <1>2, <1>5, <1>7, <1>8, <1>9, <1>1
<1>10. CASE ~Saved(i)'
  BY <1>2, <1>5, <1>7, <1>8, <1>10, <1>1
<1>11. QED
  BY <1>9, <1>10

\* All that the threads, the snapshots and the signals do to the weights and the
\* files is what one machine would do: the weights move by the gradients of
\* all solvers at the weights they are at, a snapshot keeps these weights, and
\* a new process goes on from weights that were kept ("Synchronous data
\* parallelism", parallel.hpp:83; Solver::Snapshot, Solver::Restore).
THEOREM TrainingRefinement == ASSUME TreesSpan PROVE Spec => ImplementsTraining
<1>1. TreesSpan /\ Init => T!Init
  <2> SUFFICES ASSUME TreesSpan, Init PROVE data_[root] = 0 /\ Kept = {}
    BY DEF T!Init, Kept
  <2>1. root \in Solvers
    BY InitTypes, TreeFacts DEF Types
  <2>2. \A i \in Iterations : ~Usable(i)
    BY P2PSyncAssumption DEF Init, Usable, NoFile, Weights, Bad, Iterations
  <2>3. QED
    BY <2>1, <2>2 DEF Init, All, Kept
<1>2. TrainingInv /\ [Next]_vars => [T!Next]_(T!vars)
  <2> SUFFICES ASSUME TrainingInv, [Next]_vars PROVE T!Next \/ (data_'[root'] = data_[root] /\ Kept' = Kept)
    BY DEF T!vars, Kept
  <2>1. /\ Types /\ RoundsInv /\ GradInv /\ FilesInv /\ root \in Members
        /\ Types' /\ RoundsInv' /\ FilesInv'
    BY NextTraining, TreeFacts DEF TrainingInv, Types
  <2>2. ASSUME NEW n \in Members, Step(n), ~(n = root /\ Apply(n))
        PROVE  data_'[root'] = data_[root] /\ Kept' = Kept
    <3>1. CASE Copy(n)
      <4>1. Children(n)[at[n]] # root
        BY <2>1, <3>1, ToldWaits, ChildFacts DEF Copy, Types
      <4>2. QED
        BY <2>1, <3>1, <4>1, SameTree, SameKept DEF Copy, control, saving, files
    <3>2. CASE Apply(n)
      BY <2>2, <3>2, SameTree, SameKept DEF Apply, control, saving, files
    <3>3. CASE ~Copy(n) /\ ~Apply(n)
      <4>1. UNCHANGED << tree, data_, files >>
        BY <2>2, <3>3 DEF Step, Begin, Return, OnStart, Tell, ForwardBackward, Gather, Add, Leave, Report,
           Interrupted, control, saving, files
      <4>2. QED
        BY <4>1, SameTree, SameKept
    <3>4. QED
      BY <3>1, <3>2, <3>3
  <2>3. ASSUME Apply(root) PROVE T!Next
    <3>1. data_'[root] = data_[root] + 1 /\ root' = root
      BY <2>1, <2>3, RootApplyGrads, SameTree DEF Apply, control
    <3>2. data_[root] < max_iter
      BY <2>1, <2>3 DEF Apply, RoundsInv, PlaceInv, PlaceOf, GradInv
    <3>3. Kept' = Kept
      BY <2>3, SameKept DEF Apply, saving, files
    <3>4. T!Update
      BY <3>1, <3>2, <3>3 DEF T!Update, Kept
    <3>5. QED
      BY <3>4 DEF T!Next
  <2>4. ASSUME Save PROVE T!Next
    BY <2>1, <2>4, SaveIsSnapshot DEF T!Next, T!Snapshot, Kept
  <2>5. ASSUME Restart PROVE T!Next
    <3>1. Kept' = Kept
      BY <2>5, SameKept DEF Restart, files
    <3>2. data_'[root'] \in Kept \union {0}
      <4>1. root \in Solvers /\ root' = root
        BY <2>1, <2>5, TreeFacts, SameTree DEF Restart, Types
      <4>2. data_' = All(0) \/ \E i \in Iterations : Usable(i) /\ data_' = All(model[i])
        BY <2>5 DEF Restart
      <4>3. QED
        BY <4>1, <4>2 DEF All, Kept
    <3>3. T!Resume
      BY <3>1, <3>2 DEF T!Resume, Kept
    <3>4. QED
      BY <3>3 DEF T!Next
  <2>6. ASSUME \/ Decide \/ CheckForSignals \/ Test \/ Solved \/ Finish \/ Signalled \/ UNCHANGED vars
               \/ \E i \in DOMAIN tree.syncs : Stop(i)
        PROVE  data_'[root'] = data_[root] /\ Kept' = Kept
    <3>1. UNCHANGED << tree, data_, files >>
      BY <2>6 DEF Decide, CheckForSignals, Test, Solved, Finish, Stop, Signalled, vars, control, saving, files
    <3>2. QED
      BY <3>1, SameTree, SameKept
  <2>7. QED
    BY <2>2, <2>3, <2>4, <2>5, <2>6 DEF Next, Threads, Root, Done
<1>3. QED
  BY <1>1, <1>2, TrainingHolds, PTL DEF Spec, ImplementsTraining, T!Spec


LEMMA Inductive ==
  ASSUME NEW S, 0 \in S, \A n \in Nat : n \in S => n + 1 \in S
  PROVE  \A n \in Nat : n \in S
<1> DEFINE R == OpToRel(<, Nat)
<1>1. IsWellFoundedOn(R, Nat)
  BY NatLessThanWellFounded, Zenon
<1>2. \A m, n \in Nat : << m, n >> \in R <=> m < n
  BY DEF OpToRel
<1> HIDE DEF R
<1>3. SUFFICES ASSUME Nat \ S # {} PROVE FALSE
  OBVIOUS
<1>4. PICK x \in Nat \ S : \A y \in Nat \ S : << y, x >> \notin R
  BY <1>1, <1>3, WFMin
<1>5. x # 0 /\ x - 1 \in Nat
  BY <1>4
<1>6. x - 1 \in S
  <2>1. x - 1 < x
    BY <1>5
  <2>2. << x - 1, x >> \in R
    BY <1>2, <1>5, <2>1
  <2>3. QED
    BY <1>4, <1>5, <2>2
<1>7. QED
  BY <1>4, <1>5, <1>6

LEMMA Smallest ==
  ASSUME NEW S, S \subseteq Nat, S # {}
  PROVE  \E x \in S : \A y \in S : x <= y
<1> DEFINE R == OpToRel(<, Nat)
<1>1. IsWellFoundedOn(R, Nat)
  BY NatLessThanWellFounded, Zenon
<1>2. \A m, n \in Nat : << m, n >> \in R <=> m < n
  BY DEF OpToRel
<1> HIDE DEF R
<1>3. PICK x \in S : \A y \in S : << y, x >> \notin R
  BY <1>1, WFMin
<1>4. \A y \in S : x \in Nat /\ y \in Nat /\ ~(y < x)
  BY <1>2, <1>3
<1>5. QED
  BY <1>3, <1>4

\* A loop of n rounds, whose body is F[k] in round k, that stays in X
LEMMA LoopIs ==
  ASSUME NEW X, NEW x \in X, NEW n \in Nat, NEW F \in [1..n -> [X -> X]]
  PROVE  \E f : f \in [0..n -> X] /\ f[0] = x /\ \A k \in 1..n : f[k] = F[k][f[k - 1]]
<1> DEFINE Is(f, m) == f \in [0..m -> X] /\ \A k \in 0..m : f[k] = IF k = 0 THEN x ELSE F[k][f[k - 1]]
           S == {m \in Nat : m <= n => \E f : Is(f, m)}
<1>1. 0 \in S
  <2>1. Is([k \in 0..0 |-> x], 0)
    OBVIOUS
  <2>2. QED
    BY <2>1
<1>2. ASSUME NEW m \in Nat, m \in S PROVE m + 1 \in S
  <2>1. SUFFICES ASSUME m + 1 <= n PROVE \E f : Is(f, m + 1)
    OBVIOUS
  <2>2. PICK f : Is(f, m)
    BY <1>2, <2>1
  <2>3. F[m + 1][f[m]] \in X
    <3>1. m + 1 \in 1..n /\ f[m] \in X
      BY <2>1, <2>2
    <3>2. QED
      BY <3>1
  <2> DEFINE g == [k \in 0..m + 1 |-> IF k = m + 1 THEN F[m + 1][f[m]] ELSE f[k]]
  <2>4. g \in [0..m + 1 -> X]
    BY <2>2, <2>3
  <2>5. ASSUME NEW k \in 0..m + 1 PROVE g[k] = IF k = 0 THEN x ELSE F[k][g[k - 1]]
    <3>1. CASE k = m + 1
      BY <3>1
    <3>2. CASE k # m + 1
      <4>1. k \in 0..m /\ (k # 0 => k - 1 \in 0..m + 1 /\ k - 1 # m + 1)
        BY <3>2
      <4>2. g[k] = f[k] /\ (k # 0 => g[k - 1] = f[k - 1])
        BY <3>2, <4>1
      <4>3. QED
        BY <2>2, <4>1, <4>2
    <3>3. QED
      BY <3>1, <3>2
  <2> HIDE DEF g
  <2>6. QED
    BY <2>4, <2>5
<1>3. PICK f : Is(f, n)
  <2>1. n \in S
    <3> HIDE DEF S
    <3>1. QED
      BY <1>1, <1>2, Inductive
  <2>2. QED
    BY <2>1
<1>4. QED
  BY <1>3

-----------------------------------------------------------------------------
(* The pairs *)

\* Groups of the devices D
Groups(D) == [remaining : Seq(D), pairs : Seq([parent : D, device : D]), defined : BOOLEAN]

\* Groups of n devices: each device remains, or is in one pair; a parent has not
\* been paired before
Paired(D, n, r, q) ==
  /\ Len(r) >= 1 /\ Len(r) + Len(q) = n
  /\ \A i, j \in DOMAIN r : r[i] = r[j] => i = j
  /\ \A k, l \in DOMAIN q : q[k].device = q[l].device => k = l
  /\ \A i \in DOMAIN r, k \in DOMAIN q : r[i] # q[k].device
  /\ \A d \in D : (\E i \in DOMAIN r : r[i] = d) \/ \E k \in DOMAIN q : q[k].device = d
  /\ \A k, l \in DOMAIN q : l <= k => q[l].device # q[k].parent

Grouped(D, n, g) == g \in Groups(D) /\ Paired(D, n, g.remaining, g.pairs)

LEMMA RemoveIs ==
  ASSUME NEW D, NEW s \in Seq(D), NEW j \in 1..Len(s)
  PROVE  /\ RemoveAt(s, j) \in Seq(D) /\ Len(RemoveAt(s, j)) = Len(s) - 1
         /\ \A k \in 1..Len(s) - 1 : RemoveAt(s, j)[k] = IF k < j THEN s[k] ELSE s[k + 1]
<1>1. RemoveAt(s, j) = SubSeq(s, 1, j - 1) \o SubSeq(s, j + 1, Len(s))
  BY DEF RemoveAt
<1> DEFINE a == SubSeq(s, 1, j - 1)
           b == SubSeq(s, j + 1, Len(s))
<1>2. a \in Seq(D) /\ Len(a) = j - 1 /\ \A k \in 1..j - 1 : a[k] = s[k]
  OBVIOUS
<1>3. b \in Seq(D) /\ Len(b) = Len(s) - j /\ \A k \in 1..Len(s) - j : b[k] = s[k + j]
  OBVIOUS
<1> HIDE DEF a, b
<1>4. /\ a \o b \in Seq(D) /\ Len(a \o b) = Len(s) - 1
      /\ \A k \in 1..Len(s) - 1 : (a \o b)[k] = IF k < j THEN a[k] ELSE b[k - (j - 1)]
  <2>1. /\ a \o b \in Seq(D) /\ Len(a \o b) = Len(a) + Len(b)
        /\ \A k \in 1..Len(a) + Len(b) : (a \o b)[k] = IF k <= Len(a) THEN a[k] ELSE b[k - Len(a)]
    BY <1>2, <1>3, ConcatProperties
  <2>2. j - 1 \in Nat /\ Len(s) \in Nat /\ Len(a) = j - 1 /\ Len(b) = Len(s) - j
    BY <1>2, <1>3
  <2> HIDE DEF a, b
  <2>3. Len(a) + Len(b) = Len(s) - 1 /\ \A k \in 1..Len(s) - 1 : (k <= Len(a)) <=> k < j
    BY <2>2
  <2>4. QED
    BY <2>1, <2>2, <2>3
<1>5. \A k \in 1..Len(s) - 1 : (a \o b)[k] = IF k < j THEN s[k] ELSE s[k + 1]
  <2>1. ASSUME NEW k \in 1..Len(s) - 1, k < j PROVE (a \o b)[k] = s[k]
    BY <1>2, <1>4, <2>1
  <2>2. ASSUME NEW k \in 1..Len(s) - 1, ~(k < j) PROVE (a \o b)[k] = s[k + 1]
    <3>1. k - (j - 1) \in 1..Len(s) - j /\ (k - (j - 1)) + j = k + 1
      BY <2>2
    <3>2. b[k - (j - 1)] = s[k + 1]
      BY <1>3, <3>1
    <3>3. QED
      BY <1>4, <2>2, <3>2
  <2>3. QED
    BY <2>1, <2>2
<1>6. QED
  BY <1>1, <1>4, <1>5 DEF a, b

LEMMA JoinKeeps ==
  ASSUME NEW D, NEW n, NEW g, Grouped(D, n, g),
         NEW i \in 1..Len(g.remaining), NEW j \in i + 1..Len(g.remaining)
  PROVE  /\ Grouped(D, n, Join(g, i, j))
         /\ Len(Join(g, i, j).remaining) = Len(g.remaining) - 1 /\ Join(g, i, j).defined = g.defined
<1> DEFINE r == g.remaining
           q == g.pairs
           h == Join(g, i, j)
<1>1. r \in Seq(D) /\ q \in Seq([parent : D, device : D]) /\ g.defined \in BOOLEAN /\ Len(r) \in Nat /\ Len(q) \in Nat
      /\ g = [remaining |-> r, pairs |-> q, defined |-> g.defined]
  BY DEF Grouped, Groups, Paired
<1>2. j \in 1..Len(r) /\ i \in DOMAIN r /\ j \in DOMAIN r /\ r[i] \in D /\ r[j] \in D
  BY <1>1
<1>3. h = [remaining |-> RemoveAt(r, j), pairs |-> Append(q, Pair(r[i], r[j])), defined |-> g.defined]
  BY DEF Join
<1> DEFINE s == h.remaining
           p == h.pairs
<1>4. h = [remaining |-> s, pairs |-> p, defined |-> g.defined]
      /\ s = RemoveAt(r, j) /\ p = Append(q, Pair(r[i], r[j])) /\ h.defined = g.defined
  BY <1>3
<1> HIDE DEF h
<1>5. s \in Seq(D) /\ Len(s) = Len(r) - 1 /\ \A k \in 1..Len(r) - 1 : s[k] = IF k < j THEN r[k] ELSE r[k + 1]
  BY <1>1, <1>2, <1>4, RemoveIs
<1>6. /\ p \in Seq([parent : D, device : D]) /\ Len(p) = Len(q) + 1
      /\ \A k \in 1..Len(q) : p[k] = q[k]
      /\ p[Len(q) + 1].parent = r[i] /\ p[Len(q) + 1].device = r[j]
  BY <1>1, <1>2, <1>4 DEF Pair
<1> HIDE DEF s, p
<1>7. \A k \in DOMAIN s : \E l \in DOMAIN r : l # j /\ s[k] = r[l] /\ (l < j => k = l) /\ (l > j => k = l - 1)
  <2>1. SUFFICES ASSUME NEW k \in 1..Len(r) - 1
                 PROVE  \E l \in DOMAIN r : l # j /\ s[k] = r[l] /\ (l < j => k = l) /\ (l > j => k = l - 1)
    <3>1. DOMAIN s = 1..Len(r) - 1
      BY <1>1, <1>5
    <3>2. QED
      BY <3>1
  <2>2. CASE k < j
    <3>1. k \in DOMAIN r /\ s[k] = r[k] /\ k # j /\ ~(k > j)
      BY <1>1, <1>2, <1>5, <2>2
    <3>2. QED
      BY <3>1
  <2>3. CASE ~(k < j)
    <3>1. k + 1 \in DOMAIN r /\ s[k] = r[k + 1]
      BY <1>1, <1>5, <2>3
    <3>2. k + 1 # j /\ ~(k + 1 < j) /\ k = (k + 1) - 1
      BY <1>1, <1>2, <2>3
    <3>3. QED
      BY <3>1, <3>2
  <2>4. QED
    BY <2>2, <2>3
<1>8. \A l \in DOMAIN r : l # j => \E k \in DOMAIN s : s[k] = r[l]
  <2>1. SUFFICES ASSUME NEW l \in 1..Len(r), l # j PROVE \E k \in DOMAIN s : s[k] = r[l]
    BY <1>1
  <2>2. CASE l < j
    <3>1. l \in 1..Len(r) - 1 /\ s[l] = r[l]
      BY <1>1, <1>2, <1>5, <2>2
    <3>2. l \in DOMAIN s
      BY <1>5, <3>1
    <3>3. QED
      BY <3>1, <3>2
  <2>3. CASE l > j
    <3>1. l - 1 \in 1..Len(r) - 1 /\ s[l - 1] = r[l]
      BY <1>1, <1>2, <1>5, <2>3
    <3>2. QED
      BY <1>5, <3>1
  <2>4. QED
    BY <1>2, <2>1, <2>2, <2>3
<1>9. \A k \in DOMAIN p : k \in 1..Len(q) + 1 /\ (k \in DOMAIN q \/ k = Len(q) + 1)
  BY <1>1, <1>6
<1>10. \A k \in DOMAIN q : k \in DOMAIN p /\ p[k] = q[k] /\ k < Len(q) + 1
  <2>1. DOMAIN q = 1..Len(q) /\ DOMAIN p = 1..Len(q) + 1
    BY <1>1, <1>6
  <2>2. QED
    BY <1>1, <1>6, <2>1
<1>11. Len(q) + 1 \in DOMAIN p
  BY <1>1, <1>6
<1> DEFINE new == Len(q) + 1
<1>12. new \notin DOMAIN q /\ new \in DOMAIN p /\ p[new].parent = r[i] /\ p[new].device = r[j]
       /\ \A k \in DOMAIN p : k # new => k \in DOMAIN q /\ p[k] = q[k] /\ ~(new <= k)
  BY <1>1, <1>6, <1>9, <1>10, <1>11
<1>13. i # j
  BY <1>1
<1> HIDE DEF new
<1>14. h \in Groups(D) /\ Len(s) >= 1 /\ Len(s) + Len(p) = n
  BY <1>1, <1>2, <1>4, <1>5, <1>6 DEF Grouped, Groups, Paired
<1>15. \A a, b \in DOMAIN s : s[a] = s[b] => a = b
  <2>1. SUFFICES ASSUME NEW a \in DOMAIN s, NEW b \in DOMAIN s, s[a] = s[b] PROVE a = b
    OBVIOUS
  <2>2. PICK c \in DOMAIN r : c # j /\ s[a] = r[c] /\ (c < j => a = c) /\ (c > j => a = c - 1)
    BY <1>7
  <2>3. PICK d \in DOMAIN r : d # j /\ s[b] = r[d] /\ (d < j => b = d) /\ (d > j => b = d - 1)
    BY <1>7
  <2>4. c = d
    BY <2>1, <2>2, <2>3 DEF Grouped, Paired
  <2>5. c \in Nat /\ j \in Nat
    BY <1>1, <1>2
  <2>6. QED
    BY <2>2, <2>3, <2>4, <2>5
<1>16. \A k, l \in DOMAIN p : p[k].device = p[l].device => k = l
  BY <1>2, <1>12 DEF Grouped, Paired
<1>17. \A a \in DOMAIN s, k \in DOMAIN p : s[a] # p[k].device
  BY <1>2, <1>7, <1>12 DEF Grouped, Paired
<1>18. ASSUME NEW d \in D
       PROVE  (\E a \in DOMAIN s : s[a] = d) \/ \E k \in DOMAIN p : p[k].device = d
  <2>1. CASE \E a \in DOMAIN r : r[a] = d
    BY <1>8, <1>12, <2>1
  <2>2. CASE \E k \in DOMAIN q : q[k].device = d
    BY <1>10, <2>2
  <2>3. QED
    BY <2>1, <2>2 DEF Grouped, Paired
<1>19. \A k, l \in DOMAIN p : l <= k => p[l].device # p[k].parent
  BY <1>2, <1>12, <1>13 DEF Grouped, Paired
<1>20. Grouped(D, n, h)
  BY <1>14, <1>15, <1>16, <1>17, <1>18, <1>19 DEF Grouped, Paired, s, p
<1>21. QED
  BY <1>4, <1>5, <1>20 DEF h, s

\* One device of a pass
LEMMA TakeKeeps ==
  ASSUME NEW D, NEW n, NEW g, Grouped(D, n, g), NEW i \in Nat \ {0}, NEW near, NEW blind \in BOOLEAN
  PROVE  LET h == Take(g, i, near, blind)
         IN  /\ Grouped(D, n, h) /\ (h.defined => g.defined) /\ (~blind => h.defined = g.defined)
             /\ blind /\ h.defined =>
                  IF i < Len(g.remaining) THEN Len(h.remaining) = Len(g.remaining) - 1
                  ELSE i # Len(g.remaining) /\ Len(h.remaining) = Len(g.remaining)
<1> DEFINE js == {j \in i + 1..Len(g.remaining) : blind \/ {g.remaining[i], g.remaining[j]} \in near}
           h == Take(g, i, near, blind)
<1>1. Len(g.remaining) \in Nat /\ g.defined \in BOOLEAN
  BY DEF Grouped, Groups
<1>2. h = IF js # {} THEN Join(g, i, Min(js)) ELSE [g EXCEPT !.defined = @ /\ ~(blind /\ i = Len(g.remaining))]
  BY DEF Take
<1>3. js \subseteq i + 1..Len(g.remaining) /\ (blind /\ i < Len(g.remaining) => js # {})
  <2>1. i < Len(g.remaining) => i + 1 \in i + 1..Len(g.remaining)
    BY <1>1
  <2>2. QED
    BY <2>1
<1> HIDE DEF js, h
<1>4. CASE js # {}
  <2>1. js \subseteq Nat
    BY <1>3
  <2>2. \E x \in js : \A y \in js : x <= y
    BY <1>4, <2>1, Smallest
  <2>3. PICK j \in js : j = Min(js)
    BY <2>2 DEF Min
  <2>4. j \in i + 1..Len(g.remaining) /\ i \in 1..Len(g.remaining) /\ i < Len(g.remaining)
    BY <1>1, <1>3, <2>3
  <2>5. h = Join(g, i, j)
    BY <1>2, <1>4, <2>3
  <2>6. Grouped(D, n, h) /\ Len(h.remaining) = Len(g.remaining) - 1 /\ h.defined = g.defined
    BY <2>4, <2>5, JoinKeeps
  <2>7. QED
    BY <2>4, <2>6 DEF h
<1>5. CASE js = {}
  <2>1. h = [g EXCEPT !.defined = @ /\ ~(blind /\ i = Len(g.remaining))]
    BY <1>2, <1>5
  <2>2. g = [remaining |-> g.remaining, pairs |-> g.pairs, defined |-> g.defined]
    BY DEF Grouped, Groups
  <2> DEFINE to == g.defined /\ ~(blind /\ i = Len(g.remaining))
  <2>3. to \in BOOLEAN
    OBVIOUS
  <2>4. h = [remaining |-> g.remaining, pairs |-> g.pairs, defined |-> to]
    BY <2>1, <2>2
  <2>5. h.remaining = g.remaining /\ h.pairs = g.pairs /\ h.defined = to
    BY <2>4
  <2>6. (to => g.defined) /\ (~blind => to = g.defined) /\ (blind /\ to => i # Len(g.remaining))
    BY <1>1
  <2> HIDE DEF to
  <2>7. g.remaining \in Seq(D) /\ g.pairs \in Seq([parent : D, device : D])
    BY DEF Grouped, Groups
  <2>8. h \in Groups(D)
    BY <2>3, <2>4, <2>7 DEF Groups
  <2>9. Grouped(D, n, h)
    <3>1. Grouped(D, n, g) /\ h.remaining = g.remaining /\ h.pairs = g.pairs /\ h \in Groups(D)
      BY <2>5, <2>8
    <3> HIDE DEF h
    <3>2. QED
      BY <3>1 DEF Grouped
  <2>10. blind => ~(i < Len(g.remaining))
    BY <1>3, <1>5
  <2>11. QED
    BY <2>5, <2>6, <2>9, <2>10 DEF h
<1>6. QED
  BY <1>4, <1>5

\* A pass, device by device
LEMMA PassIs ==
  ASSUME NEW D, NEW n, NEW g, Grouped(D, n, g), NEW near, NEW blind \in BOOLEAN
  PROVE  \E f : /\ f[0] = g /\ f[Len(g.remaining)] = Pass(g, near, blind)
                /\ \A i \in 1..Len(g.remaining) : f[i] = Take(f[i - 1], i, near, blind)
<1> DEFINE X == {h \in Groups(D) : Grouped(D, n, h)}
           last == Len(g.remaining)
           F == [i \in 1..last |-> [h \in X |-> Take(h, i, near, blind)]]
           Is(f) == f = [i \in 0..last |-> IF i = 0 THEN g ELSE Take(f[i - 1], i, near, blind)]
<1>1. last \in Nat /\ g \in X
  BY DEF Grouped, Groups
<1>2. \A i \in 1..last, h \in X : Take(h, i, near, blind) \in X
  <2>1. SUFFICES ASSUME NEW i \in 1..last, NEW h \in X PROVE Take(h, i, near, blind) \in X
    OBVIOUS
  <2>2. Grouped(D, n, h) /\ i \in Nat \ {0}
    OBVIOUS
  <2>3. Grouped(D, n, Take(h, i, near, blind))
    BY <2>2, TakeKeeps
  <2>4. QED
    BY <2>3 DEF Grouped
<1> HIDE DEF X, last
<1>3. F \in [1..last -> [X -> X]]
  BY <1>2
<1>4. PICK f : f \in [0..last -> X] /\ f[0] = g /\ \A i \in 1..last : f[i] = F[i][f[i - 1]]
  <2> HIDE DEF F
  <2>1. QED
    BY <1>1, <1>3, LoopIs
<1>5. \A i \in 1..last : f[i] = Take(f[i - 1], i, near, blind)
  <2>1. SUFFICES ASSUME NEW i \in 1..last PROVE f[i] = Take(f[i - 1], i, near, blind)
    OBVIOUS
  <2>2. i - 1 \in 0..last
    BY <1>1
  <2>3. f[i - 1] \in X
    BY <1>4, <2>2
  <2>4. QED
    BY <1>4, <2>3
<1>6. Is(f)
  BY <1>1, <1>4, <1>5
<1> DEFINE after == CHOOSE f_1 : Is(f_1)
<1>7. Is(after)
  BY <1>6
<1>8. Pass(g, near, blind) = after[last]
  BY DEF Pass, last
<1> HIDE DEF after
<1>9. after[0] = g /\ \A i \in 1..last : after[i] = Take(after[i - 1], i, near, blind)
  BY <1>1, <1>7
<1>10. QED
  BY <1>8, <1>9 DEF last

\* A pass without regard to proximity halves the devices, or leaves the vector
LEMMA PassKeeps ==
  ASSUME NEW D, NEW n, NEW g, Grouped(D, n, g), NEW near, NEW blind \in BOOLEAN
  PROVE  LET h == Pass(g, near, blind)
         IN  /\ Grouped(D, n, h) /\ (h.defined => g.defined) /\ (~blind => h.defined = g.defined)
             /\ blind /\ h.defined => 2 * Len(h.remaining) = Len(g.remaining)
<1> DEFINE last == Len(g.remaining)
<1>1. last \in Nat /\ last >= 1
  BY DEF Grouped, Groups, Paired
<1>2. PICK f : /\ f[0] = g /\ f[last] = Pass(g, near, blind)
               /\ \A i \in 1..last : f[i] = Take(f[i - 1], i, near, blind)
  BY PassIs
<1> DEFINE Ok(i) == /\ Grouped(D, n, f[i]) /\ (f[i].defined => g.defined) /\ (~blind => f[i].defined = g.defined)
                    /\ blind /\ f[i].defined => \/ Len(f[i].remaining) = last - i /\ Len(f[i].remaining) >= i
                                                \/ 2 * Len(f[i].remaining) = last /\ Len(f[i].remaining) <= i
           S == {i \in Nat : i <= last => Ok(i)}
<1> HIDE DEF last
<1>3. 0 \in S
  <2>1. g.defined \in BOOLEAN /\ Len(g.remaining) = last - 0 /\ last >= 0
    BY <1>1 DEF Grouped, Groups, last
  <2>2. QED
    BY <1>2, <2>1
<1>4. ASSUME NEW i \in Nat, i \in S PROVE i + 1 \in S
  <2>1. SUFFICES ASSUME i + 1 <= last PROVE Ok(i + 1)
    OBVIOUS
  <2>2. Ok(i) /\ i + 1 \in 1..last /\ i + 1 \in Nat \ {0} /\ (i + 1) - 1 = i
    BY <1>1, <1>4, <2>1
  <2>3. f[i + 1] = Take(f[i], i + 1, near, blind)
    BY <1>2, <2>2
  <2>4. /\ Grouped(D, n, f[i + 1]) /\ (f[i + 1].defined => f[i].defined) /\ (~blind => f[i + 1].defined = f[i].defined)
        /\ blind /\ f[i + 1].defined =>
             IF i + 1 < Len(f[i].remaining) THEN Len(f[i + 1].remaining) = Len(f[i].remaining) - 1
             ELSE i + 1 # Len(f[i].remaining) /\ Len(f[i + 1].remaining) = Len(f[i].remaining)
    BY <2>2, <2>3, TakeKeeps
  <2>5. Len(f[i].remaining) \in Nat /\ Len(f[i + 1].remaining) \in Nat
    BY <2>2, <2>4 DEF Grouped, Groups
  <2>6. ASSUME blind, f[i + 1].defined
        PROVE  \/ Len(f[i + 1].remaining) = last - (i + 1) /\ Len(f[i + 1].remaining) >= i + 1
               \/ 2 * Len(f[i + 1].remaining) = last /\ Len(f[i + 1].remaining) <= i + 1
    <3> DEFINE m == Len(f[i].remaining)
               l == Len(f[i + 1].remaining)
    <3>1. m \in Nat /\ l \in Nat /\ ((m = last - i /\ m >= i) \/ (2 * m = last /\ m <= i))
      BY <2>2, <2>4, <2>5, <2>6
    <3>2. IF i + 1 < m THEN l = m - 1 ELSE i + 1 # m /\ l = m
      BY <2>4, <2>6
    <3> HIDE DEF m, l
    <3>3. (l = last - (i + 1) /\ l >= i + 1) \/ (2 * l = last /\ l <= i + 1)
      <4>1. CASE i + 1 < m
        BY <1>1, <3>1, <3>2, <4>1
      <4>2. CASE ~(i + 1 < m)
        BY <1>1, <3>1, <3>2, <4>2
      <4>3. QED
        BY <4>1, <4>2
    <3>4. QED
      BY <3>3 DEF l
  <2>7. QED
    BY <2>2, <2>4, <2>6
<1>5. last \in S
  <2> HIDE DEF S
  <2>1. QED
    BY <1>1, <1>3, <1>4, Inductive
<1>6. Ok(last)
  BY <1>1, <1>5
<1>7. Len(f[last].remaining) \in Nat /\ Len(f[last].remaining) >= 1
  BY <1>6 DEF Grouped, Groups, Paired
<1>8. blind /\ f[last].defined => 2 * Len(f[last].remaining) = last
  BY <1>1, <1>6, <1>7
<1>9. QED
  BY <1>2, <1>6, <1>8 DEF last

\* The depth is enough: two to it is at least n
LEMMA DepthIs ==
  ASSUME NEW n \in Nat
  PROVE  /\ Depth(n) \in 0..n
         /\ \E power : /\ power \in [0..n -> Nat] /\ power[0] = 1 /\ power[Depth(n)] >= n
                       /\ \A d \in 1..n : power[d] = 2 * power[d - 1]
<1> DEFINE F == [d \in 1..n |-> [x \in Nat |-> 2 * x]]
           Is(f) == f = [d \in 0..n |-> IF d = 0 THEN 1 ELSE 2 * f[d - 1]]
<1>1. F \in [1..n -> [Nat -> Nat]]
  OBVIOUS
<1>2. PICK f : f \in [0..n -> Nat] /\ f[0] = 1 /\ \A d \in 1..n : f[d] = F[d][f[d - 1]]
  <2> DEFINE X == Nat
  <2>1. F \in [1..n -> [X -> X]] /\ 1 \in X
    BY <1>1
  <2> HIDE DEF F, X
  <2>2. \E f : f \in [0..n -> X] /\ f[0] = 1 /\ \A d \in 1..n : f[d] = F[d][f[d - 1]]
    BY <2>1, LoopIs
  <2>3. QED
    BY <2>2 DEF X
<1>3. \A d \in 1..n : f[d] = 2 * f[d - 1]
  <2>1. SUFFICES ASSUME NEW d \in 1..n PROVE f[d] = 2 * f[d - 1]
    OBVIOUS
  <2>2. d - 1 \in 0..n
    OBVIOUS
  <2>3. f[d - 1] \in Nat
    BY <1>2, <2>2
  <2>4. QED
    BY <1>2, <2>3
<1>4. Is(f)
  BY <1>2, <1>3
<1> DEFINE power == CHOOSE f_1 : Is(f_1)
           enough == {d \in 0..n : power[d] >= n}
<1>5. Is(power)
  BY <1>4
<1>6. Depth(n) = Min(enough)
  BY DEF Depth
<1> HIDE DEF power
<1>7. power[0] = 1 /\ \A d \in 1..n : power[d] = 2 * power[d - 1]
  BY <1>5
<1> DEFINE S == {d \in Nat : d <= n => power[d] \in Nat /\ power[d] >= d /\ power[d] >= 1}
<1>8. \A d \in Nat : d \in S
  <2>1. 0 \in S
    BY <1>7
  <2>2. ASSUME NEW d \in Nat, d \in S PROVE d + 1 \in S
    <3>1. SUFFICES ASSUME d + 1 <= n PROVE power[d + 1] \in Nat /\ power[d + 1] >= d + 1 /\ power[d + 1] >= 1
      OBVIOUS
    <3>2. d + 1 \in 1..n /\ (d + 1) - 1 = d /\ power[d] \in Nat /\ power[d] >= d /\ power[d] >= 1
      BY <2>2, <3>1
    <3>3. power[d + 1] = 2 * power[d]
      BY <1>7, <3>2
    <3>4. QED
      BY <3>2, <3>3
  <2> HIDE DEF S
  <2>3. QED
    BY <2>1, <2>2, Inductive
<1>9. \A d \in 0..n : power[d] \in Nat
  BY <1>8
<1>10. power \in [0..n -> Nat]
  BY <1>5, <1>9
<1>11. n \in enough /\ enough \subseteq Nat
  BY <1>8
<1>12. Min(enough) \in enough
  <2> HIDE DEF enough
  <2>1. \E x \in enough : \A y \in enough : x <= y
    BY <1>11, Smallest
  <2>2. QED
    BY <2>1 DEF Min
<1>13. Depth(n) \in 0..n /\ power[Depth(n)] >= n
  BY <1>6, <1>12
<1>14. QED
  BY <1>7, <1>10, <1>13

\* All passes of one kind; those without regard to proximity leave one device
LEMMA PassesKeep ==
  ASSUME NEW D, NEW n, NEW g, Grouped(D, n, g), NEW near, NEW blind \in BOOLEAN
  PROVE  LET h == Passes(g, near, blind)
         IN  /\ Grouped(D, n, h) /\ (h.defined => g.defined)
             /\ blind /\ h.defined => Len(h.remaining) = 1
<1> DEFINE first == Len(g.remaining)
           depth == Depth(first)
           X == {h \in Groups(D) : Grouped(D, n, h)}
           F == [d \in 1..depth |-> [h \in X |-> Pass(h, near, blind)]]
           Is(f) == f = [d \in 0..depth |-> IF d = 0 THEN g ELSE Pass(f[d - 1], near, blind)]
<1>1. first \in Nat /\ first >= 1 /\ g \in X
  BY DEF Grouped, Groups, Paired
<1>2. \A h \in X : Pass(h, near, blind) \in X
  <2>1. SUFFICES ASSUME NEW h \in X PROVE Pass(h, near, blind) \in X
    OBVIOUS
  <2>2. Grouped(D, n, Pass(h, near, blind))
    BY PassKeeps
  <2>3. QED
    BY <2>2 DEF Grouped
<1>3. depth \in 0..first
  <2> HIDE DEF first
  <2>1. QED
    BY <1>1, DepthIs
<1>4. depth \in Nat
  BY <1>1, <1>3
<1>5. Passes(g, near, blind) = (CHOOSE f : Is(f))[depth]
  BY DEF Passes
<1>6. \A h : h \in X => Grouped(D, n, h)
  OBVIOUS
<1>7. PICK power : /\ power \in [0..first -> Nat] /\ power[0] = 1 /\ power[depth] >= first
                   /\ \A d \in 1..first : power[d] = 2 * power[d - 1]
  <2> HIDE DEF first
  <2>1. QED
    BY <1>1, DepthIs
<1> HIDE DEF X, first, depth
<1>8. F \in [1..depth -> [X -> X]]
  BY <1>2
<1>9. PICK f : f \in [0..depth -> X] /\ f[0] = g /\ \A d \in 1..depth : f[d] = F[d][f[d - 1]]
  <2>1. g \in X
    BY <1>1
  <2> HIDE DEF F
  <2>2. QED
    BY <1>4, <1>8, <2>1, LoopIs, Z3T(30)
<1>10. \A d \in 1..depth : f[d] = Pass(f[d - 1], near, blind)
  <2>1. SUFFICES ASSUME NEW d \in 1..depth PROVE f[d] = Pass(f[d - 1], near, blind)
    OBVIOUS
  <2>2. d - 1 \in 0..depth
    BY <1>4
  <2>3. f[d - 1] \in X
    BY <1>9, <2>2
  <2>4. QED
    BY <1>9, <2>3
<1>11. Is(f)
  BY <1>4, <1>9, <1>10
<1> DEFINE after == CHOOSE f_1 : Is(f_1)
<1>12. Is(after)
  BY <1>11
<1> HIDE DEF after
<1>13. after[0] = g /\ \A d \in 1..depth : after[d] = Pass(after[d - 1], near, blind)
  BY <1>4, <1>12
<1> DEFINE Ok(d) == /\ Grouped(D, n, after[d]) /\ (after[d].defined => g.defined)
                    /\ blind /\ after[d].defined => power[d] * Len(after[d].remaining) = first
           S == {d \in Nat : d <= depth => Ok(d)}
<1>14. 0 \in S
  BY <1>1, <1>7, <1>13 DEF first
<1>15. ASSUME NEW d \in Nat, d \in S PROVE d + 1 \in S
  <2>1. SUFFICES ASSUME d + 1 <= depth PROVE Ok(d + 1)
    OBVIOUS
  <2>2. Ok(d) /\ d + 1 \in 1..depth /\ d + 1 \in 1..first /\ d \in 0..first /\ (d + 1) - 1 = d
    BY <1>1, <1>3, <1>4, <1>15, <2>1
  <2>3. after[d + 1] = Pass(after[d], near, blind) /\ power[d + 1] = 2 * power[d] /\ power[d] \in Nat
    BY <1>7, <1>13, <2>2
  <2>4. /\ Grouped(D, n, after[d + 1]) /\ (after[d + 1].defined => after[d].defined)
        /\ blind /\ after[d + 1].defined => 2 * Len(after[d + 1].remaining) = Len(after[d].remaining)
    BY <2>2, <2>3, PassKeeps
  <2>5. Len(after[d].remaining) \in Nat /\ Len(after[d + 1].remaining) \in Nat
    BY <2>2, <2>4 DEF Grouped, Groups
  <2>6. ASSUME blind, after[d + 1].defined PROVE power[d + 1] * Len(after[d + 1].remaining) = first
    <3> DEFINE m == Len(after[d].remaining)
               l == Len(after[d + 1].remaining)
               p == power[d]
    <3>1. p \in Nat /\ m \in Nat /\ l \in Nat /\ p * m = first /\ 2 * l = m /\ power[d + 1] = 2 * p
      BY <2>2, <2>3, <2>4, <2>5, <2>6
    <3> HIDE DEF m, l, p
    <3>2. (2 * p) * l = p * (2 * l)
      BY <3>1
    <3>3. QED
      BY <3>1, <3>2 DEF l
  <2>7. QED
    BY <2>2, <2>4, <2>6
<1>16. depth \in S
  <2> HIDE DEF S
  <2>1. QED
    BY <1>4, <1>14, <1>15, Inductive
<1>17. Ok(depth)
  BY <1>4, <1>16
<1>18. ASSUME blind, after[depth].defined PROVE Len(after[depth].remaining) = 1
  <2> DEFINE l == Len(after[depth].remaining)
             p == power[depth]
  <2>1. p \in Nat /\ p * l = first /\ p >= first /\ l \in Nat /\ l >= 1
    <3>1. depth \in 0..first /\ power[depth] \in Nat /\ power[depth] >= first
      BY <1>1, <1>3, <1>7
    <3>2. Grouped(D, n, after[depth]) /\ power[depth] * Len(after[depth].remaining) = first
      BY <1>17, <1>18
    <3>3. Len(after[depth].remaining) \in Nat /\ Len(after[depth].remaining) >= 1
      BY <3>2 DEF Grouped, Groups, Paired
    <3>4. QED
      BY <3>1, <3>2, <3>3
  <2> HIDE DEF l, p
  <2>2. l >= 2 => p * l >= p * 2
    BY <2>1
  <2>3. l = 1
    BY <1>1, <2>1, <2>2
  <2>4. QED
    BY <2>3 DEF l
<1>19. Passes(g, near, blind) = after[depth]
  BY <1>5 DEF after
<1>20. QED
  BY <1>17, <1>18, <1>19

\* The pairs P of the devices D: the first is the root; the parent of another is
\* the root or a device that is paired later
Rooted(D, P) ==
  /\ P \in Seq([parent : D \union {-1}, device : D]) /\ Len(P) >= 1
  /\ \A k, l \in DOMAIN P : P[k].device = P[l].device => k = l
  /\ \A d \in D : \E k \in DOMAIN P : P[k].device = d
  /\ \A i \in DOMAIN P : i # 1 => P[i].parent \in D
  /\ \A i \in DOMAIN P : i # 1 => \E k \in DOMAIN P : P[k].device = P[i].parent /\ (k = 1 \/ k > i)

LEMMA RootedIs ==
  ASSUME NEW D, NEW P, Rooted(D, P)
  PROVE  /\ Len(P) \in Nat /\ DOMAIN P = 1..Len(P) /\ 1 \in DOMAIN P
         /\ \A i \in DOMAIN P : P[i].device \in D
<1> DEFINE Q == [parent : D \union {-1}, device : D]
<1>1. P \in Seq(Q) /\ Len(P) >= 1 /\ \A x \in Q : x.device \in D
  BY DEF Rooted
<1> HIDE DEF Q
<1>2. \A i \in DOMAIN P : P[i] \in Q
  BY <1>1
<1>3. QED
  BY <1>1, <1>2

\* What DevicePair::compute finds when its loops stay inside the vector
LEMMA ComputeIs ==
  ASSUME NEW S, NEW devices \in Seq(S), devices # << >>, \A i, j \in DOMAIN devices : devices[i] = devices[j] => i = j,
         NEW boards, NEW access, Compute(devices, boards, access).defined
  PROVE  Rooted({devices[i] : i \in DOMAIN devices}, Compute(devices, boards, access).pairs)
<1> DEFINE D == {devices[i] : i \in DOMAIN devices}
           n == Len(devices)
           none == [remaining |-> devices, pairs |-> << >>, defined |-> TRUE]
           a == Passes(none, boards, FALSE)
           b == Passes(a, access, FALSE)
           g == Passes(b, {}, TRUE)
           P == << Pair(-1, g.remaining[1]) >> \o g.pairs
<1>1. Grouped(D, n, none)
  <2>1. devices \in Seq(D) /\ Len(devices) \in Nat /\ Len(devices) >= 1 /\ none.pairs \in Seq([parent : D, device : D])
        /\ Len(none.pairs) = 0 /\ DOMAIN none.pairs = {}
    OBVIOUS
  <2>2. none \in Groups(D)
    BY <2>1 DEF Groups
  <2>3. none.remaining = devices
    OBVIOUS
  <2>4. Paired(D, n, none.remaining, none.pairs)
    <3> HIDE DEF none
    <3>1. QED
      BY <2>1, <2>3 DEF Paired
  <2>5. QED
    BY <2>2, <2>4 DEF Grouped
<1>2. Grouped(D, n, a)
  <2> HIDE DEF none, D, n
  <2>1. QED
    BY <1>1, PassesKeep
<1>3. Grouped(D, n, b)
  <2> HIDE DEF a, D, n
  <2>1. QED
    BY <1>2, PassesKeep
<1>4. Grouped(D, n, g) /\ (g.defined => Len(g.remaining) = 1)
  <2> HIDE DEF b, D, n
  <2>1. QED
    BY <1>3, PassesKeep
<1>5. Compute(devices, boards, access) = [g EXCEPT !.pairs = << Pair(-1, g.remaining[1]) >> \o @]
  BY DEF Compute
<1> HIDE DEF g, D, n
<1>6. g = [remaining |-> g.remaining, pairs |-> g.pairs, defined |-> g.defined]
  BY <1>4 DEF Grouped, Groups
<1>7. Compute(devices, boards, access) = [remaining |-> g.remaining, pairs |-> P, defined |-> g.defined]
  BY <1>5, <1>6
<1>8. g.defined /\ Len(g.remaining) = 1 /\ Compute(devices, boards, access).pairs = P
  BY <1>4, <1>7
<1> DEFINE r == g.remaining
           q == g.pairs
           top == Pair(-1, r[1])
<1>9. r \in Seq(D) /\ q \in Seq([parent : D, device : D]) /\ Paired(D, n, r, q) /\ DOMAIN r = {1} /\ r[1] \in D
  BY <1>4, <1>8 DEF Grouped, Groups
<1>10. top \in [parent : D \union {-1}, device : D] /\ top.device = r[1]
  BY <1>9 DEF Pair
<1>11. P = << top >> \o q
  OBVIOUS
<1> HIDE DEF P, top, r, q
<1>12. /\ P \in Seq([parent : D \union {-1}, device : D]) /\ Len(P) = Len(q) + 1 /\ Len(q) \in Nat
       /\ P[1] = top /\ \A k \in 1..Len(q) : P[k + 1] = q[k]
  <2> DEFINE Made == [parent : D \union {-1}, device : D]
  <2>1. q \in Seq(Made)
    <3> DEFINE Q == [parent : D, device : D]
    <3>1. q \in Seq(Q) /\ Q \subseteq Made
      BY <1>9
    <3> HIDE DEF Q, Made
    <3>2. QED
      BY <3>1
  <2>2. << top >> \in Seq(Made) /\ Len(<< top >>) = 1
    BY <1>10
  <2> HIDE DEF Made
  <2>3. QED
    BY <1>11, <2>1, <2>2, ConcatProperties DEF Made
<1>13. DOMAIN q = 1..Len(q) /\ DOMAIN P = 1..Len(q) + 1
  BY <1>9, <1>12
<1>14. \A k \in DOMAIN P : k = 1 \/ (k - 1 \in DOMAIN q /\ P[k] = q[k - 1])
  <2>1. SUFFICES ASSUME NEW k \in 1..Len(q) + 1, k # 1 PROVE k - 1 \in DOMAIN q /\ P[k] = q[k - 1]
    BY <1>13
  <2>2. k - 1 \in 1..Len(q) /\ (k - 1) + 1 = k
    BY <1>12, <2>1
  <2>3. QED
    BY <1>12, <1>13, <2>2
<1>15. \A k \in DOMAIN q : k + 1 \in DOMAIN P /\ P[k + 1] = q[k]
  BY <1>12, <1>13
<1>16. 1 \in DOMAIN P
  BY <1>12, <1>13
<1>17. \A k, l \in DOMAIN P : P[k].device = P[l].device => k = l
  <2>1. SUFFICES ASSUME NEW k \in DOMAIN P, NEW l \in DOMAIN P, P[k].device = P[l].device PROVE k = l
    OBVIOUS
  <2>2. k \in Int /\ l \in Int
    BY <1>12, <1>13
  <2>3. CASE k = 1 /\ l # 1
    BY <1>9, <1>10, <1>12, <1>14, <2>1, <2>3 DEF Paired
  <2>4. CASE k # 1 /\ l = 1
    BY <1>9, <1>10, <1>12, <1>14, <2>1, <2>4 DEF Paired
  <2>5. CASE k # 1 /\ l # 1
    <3>1. k - 1 = l - 1
      BY <1>9, <1>14, <2>1, <2>5 DEF Paired
    <3>2. QED
      BY <2>2, <3>1
  <2>6. QED
    BY <2>3, <2>4, <2>5
<1>18. ASSUME NEW d \in D PROVE \E k \in DOMAIN P : P[k].device = d
  <2>1. CASE \E i \in DOMAIN r : r[i] = d
    BY <1>9, <1>10, <1>12, <1>16, <2>1
  <2>2. CASE \E k \in DOMAIN q : q[k].device = d
    BY <1>15, <2>2
  <2>3. QED
    BY <1>9, <2>1, <2>2 DEF Paired
<1>19. ASSUME NEW i \in DOMAIN P, i # 1
       PROVE  P[i].parent \in D /\ \E k \in DOMAIN P : P[k].device = P[i].parent /\ (k = 1 \/ k > i)
  <2>1. i - 1 \in DOMAIN q /\ P[i] = q[i - 1] /\ i \in Int
    BY <1>12, <1>13, <1>14, <1>19
  <2>2. P[i].parent \in D
    <3> DEFINE Q == [parent : D, device : D]
    <3>1. q \in Seq(Q)
      BY <1>9
    <3> HIDE DEF Q
    <3>2. q[i - 1] \in Q
      BY <2>1, <3>1
    <3>3. QED
      BY <2>1, <3>2 DEF Q
  <2>3. CASE \E j \in DOMAIN r : r[j] = P[i].parent
    BY <1>9, <1>10, <1>12, <1>16, <2>2, <2>3
  <2>4. CASE \E k \in DOMAIN q : q[k].device = P[i].parent
    <3>1. PICK k \in DOMAIN q : q[k].device = P[i].parent
      BY <2>4
    <3>2. ~(k <= i - 1)
      BY <1>9, <2>1, <3>1 DEF Paired
    <3>3. k \in Int /\ k + 1 > i
      BY <1>12, <1>13, <2>1, <3>2
    <3>4. QED
      BY <1>15, <2>2, <3>1, <3>3
  <2>5. QED
    BY <1>9, <2>2, <2>3, <2>4 DEF Paired
<1>20. Len(P) >= 1
  BY <1>12
<1>21. Rooted(D, P)
  BY <1>12, <1>17, <1>18, <1>19, <1>20 DEF Rooted
<1>22. QED
  BY <1>8, <1>21 DEF D

-----------------------------------------------------------------------------
(* The solvers of the pairs *)

\* Whose children are those of made pairs, each in one place
Growing(D, P, m) ==
  /\ m \in [made : SUBSET DOMAIN P, children_ : [D -> Seq(D \ {P[1].device})]] /\ 1 \in m.made
  /\ \A i \in m.made : i # 1 =>
       \E a \in DOMAIN m.children_[P[i].parent] : m.children_[P[i].parent][a] = P[i].device
  /\ \A p \in D : \A a \in DOMAIN m.children_[p] :
       \E i \in m.made : i # 1 /\ P[i].device = m.children_[p][a] /\ P[i].parent = p
  /\ \A p \in D : \A a, b \in DOMAIN m.children_[p] : m.children_[p][a] = m.children_[p][b] => a = b

LEMMA OnlyRootGrows ==
  ASSUME NEW D, NEW P, Rooted(D, P)
  PROVE  Growing(D, P, OnlyRoot(P))
<1> DEFINE m == OnlyRoot(P)
           C == [n \in {P[i].device : i \in DOMAIN P} |-> << >>]
<1>1. 1 \in DOMAIN P /\ {P[i].device : i \in DOMAIN P} = D
  <2>1. 1 \in DOMAIN P /\ \A i \in DOMAIN P : P[i].device \in D
    BY RootedIs
  <2>2. \A d \in D : \E i \in DOMAIN P : P[i].device = d
    BY DEF Rooted
  <2>3. QED
    BY <2>1, <2>2
<1>2. m = [made |-> {1}, children_ |-> C] /\ C = [n \in D |-> << >>]
  BY <1>1 DEF OnlyRoot
<1> HIDE DEF m, C
<1>3. m.made = {1} /\ m.children_ = C /\ \A p \in D : C[p] = << >> /\ DOMAIN C[p] = {}
  BY <1>2
<1>4. C \in [D -> Seq(D \ {P[1].device})]
  BY <1>2
<1>5. m \in [made : SUBSET DOMAIN P, children_ : [D -> Seq(D \ {P[1].device})]]
  BY <1>1, <1>2, <1>4
<1>6. QED
  BY <1>3, <1>5 DEF Growing, m

LEMMA MakeGrows ==
  ASSUME NEW D, NEW P, Rooted(D, P), NEW m, Growing(D, P, m), NEW i \in DOMAIN P, i # 1
  PROVE  /\ Growing(D, P, Make(m, P, i)) /\ m.made \subseteq Make(m, P, i).made
         /\ (\E k \in m.made : P[k].device = P[i].parent) => i \in Make(m, P, i).made
<1> DEFINE h == Make(m, P, i)
           p == P[i].parent
           c == P[i].device
           old == m.children_
           new == h.children_
           B == D \ {P[1].device}
<1>1. CASE i \in m.made \/ \A k \in m.made : P[k].device # p
  BY <1>1 DEF Make
<1>2. CASE ~(i \in m.made \/ \A k \in m.made : P[k].device # p)
  <2>1. h = [m EXCEPT !.made = @ \union {i}, !.children_[P[i].parent] = Append(@, P[i].device)]
    BY <1>2 DEF Make
  <2>2. m = [made |-> m.made, children_ |-> old] /\ m.made \subseteq DOMAIN P /\ old \in [D -> Seq(B)] /\ 1 \in m.made
    BY DEF Growing
  <2>3. h = [made |-> m.made \union {i}, children_ |-> [old EXCEPT ![p] = Append(@, c)]]
    BY <2>1, <2>2
  <2> HIDE DEF h
  <2>4. h = [made |-> h.made, children_ |-> new] /\ h.made = m.made \union {i} /\ new = [old EXCEPT ![p] = Append(@, c)]
    BY <2>3
  <2>5. p \in D /\ c \in B /\ i \notin m.made
    <3>1. P[i].device \in D /\ 1 \in DOMAIN P
      BY RootedIs
    <3>2. QED
      BY <1>2, <3>1 DEF Rooted
  <2>6. old[p] \in Seq(B)
    BY <2>2, <2>5
  <2> HIDE DEF old, new, p, c, B
  <2> DEFINE s == old[p]
             t == Append(s, c)
  <2>7. t \in Seq(B) /\ Len(t) = Len(s) + 1 /\ t[Len(s) + 1] = c /\ DOMAIN t = 1..Len(s) + 1 /\ DOMAIN s = 1..Len(s)
        /\ (\A a \in 1..Len(s) : t[a] = s[a]) /\ Len(s) \in Nat
    BY <2>5, <2>6
  <2> DEFINE last == Len(s) + 1
  <2>8. last \in DOMAIN t /\ t[last] = c /\ (\A a \in DOMAIN s : a \in DOMAIN t /\ t[a] = s[a])
        /\ \A a \in DOMAIN t : a = last \/ a \in DOMAIN s
    BY <2>7
  <2>9. new \in [D -> Seq(B)] /\ new[p] = t /\ \A q \in D : q # p => new[q] = old[q]
    BY <2>2, <2>4, <2>5, <2>7
  <2>10. \A a \in DOMAIN s : s[a] # c
    <3>1. SUFFICES ASSUME NEW a \in DOMAIN s, s[a] = c PROVE FALSE
      OBVIOUS
    <3>2. PICK k \in m.made : P[k].device = s[a]
      BY <2>5 DEF Growing, old
    <3>3. k = i
      BY <2>2, <3>1, <3>2 DEF Rooted, c
    <3>4. QED
      BY <2>5, <3>2, <3>3
  <2> HIDE DEF s, t, last
  <2>11. h \in [made : SUBSET DOMAIN P, children_ : [D -> Seq(B)]] /\ 1 \in h.made
    <3>1. h.made \in SUBSET DOMAIN P /\ 1 \in h.made
      BY <2>2, <2>4
    <3>2. QED
      BY <2>4, <2>9, <3>1
  <2>12. ASSUME NEW k \in h.made, k # 1
         PROVE  \E a \in DOMAIN new[P[k].parent] : new[P[k].parent][a] = P[k].device
    <3>1. CASE k = i
      BY <2>8, <2>9, <3>1 DEF p, c
    <3>2. CASE k # i
      <4>1. k \in m.made /\ k \in DOMAIN P
        BY <2>2, <2>4, <3>2
      <4>2. PICK a \in DOMAIN old[P[k].parent] : old[P[k].parent][a] = P[k].device
        BY <2>12, <4>1 DEF Growing, old
      <4>3. P[k].parent \in D
        BY <2>12, <4>1 DEF Rooted
      <4>4. CASE P[k].parent = p
        BY <2>8, <2>9, <4>2, <4>4 DEF s
      <4>5. CASE P[k].parent # p
        BY <2>9, <4>2, <4>3, <4>5
      <4>6. QED
        BY <4>4, <4>5
    <3>3. QED
      BY <3>1, <3>2
  <2>13. ASSUME NEW q \in D, NEW a \in DOMAIN new[q]
         PROVE  \E k \in h.made : k # 1 /\ P[k].device = new[q][a] /\ P[k].parent = q
    <3>1. CASE q = p /\ a = last
      BY <2>4, <2>8, <2>9, <3>1 DEF p, c
    <3>2. CASE ~(q = p /\ a = last)
      <4>1. a \in DOMAIN old[q] /\ new[q][a] = old[q][a]
        BY <2>8, <2>9, <2>13, <3>2 DEF s
      <4>2. QED
        BY <2>4, <4>1 DEF Growing, old
    <3>3. QED
      BY <3>1, <3>2
  <2>14. ASSUME NEW q \in D, NEW a \in DOMAIN new[q], NEW b \in DOMAIN new[q], new[q][a] = new[q][b]
         PROVE  a = b
    <3>1. CASE q # p
      BY <2>9, <2>14, <3>1 DEF Growing, old
    <3>2. CASE q = p
      <4>1. \A e, f \in DOMAIN s : s[e] = s[f] => e = f
        BY <2>5 DEF Growing, old, s
      <4>2. QED
        BY <2>8, <2>9, <2>10, <2>14, <3>2, <4>1
    <3>3. QED
      BY <3>1, <3>2
  <2>15. Growing(D, P, h)
    BY <2>11, <2>12, <2>13, <2>14 DEF Growing, new, B
  <2>16. QED
    BY <2>4, <2>15 DEF h
<1>3. QED
  BY <1>1, <1>2

\* f goes through the rounds of an attempt
IsAttempt(f, m, P) ==
  /\ f[0] = m /\ f[Len(P) - 1] = Attempt(m, P)
  /\ \A i \in 1..Len(P) - 1 : f[i] = Make(f[i - 1], P, i + 1)

\* A round of Prepare, pair by pair
LEMMA AttemptIs ==
  ASSUME NEW D, NEW P, Rooted(D, P), NEW m, Growing(D, P, m)
  PROVE  \E f : IsAttempt(f, m, P)
<1> DEFINE X == {h \in [made : SUBSET DOMAIN P, children_ : [D -> Seq(D \ {P[1].device})]] : Growing(D, P, h)}
           last == Len(P) - 1
           F == [i \in 1..last |-> [h \in X |-> Make(h, P, i + 1)]]
           Is(f) == f = [i \in 0..last |-> IF i = 0 THEN m ELSE Make(f[i - 1], P, i + 1)]
<1>1. last \in Nat /\ m \in X
  <2>1. Len(P) \in Nat /\ Len(P) >= 1
    BY RootedIs DEF Rooted
  <2>2. QED
    BY <2>1 DEF Growing
<1>2. \A i \in 1..last, h \in X : Make(h, P, i + 1) \in X
  <2>1. SUFFICES ASSUME NEW i \in 1..last, NEW h \in X PROVE Make(h, P, i + 1) \in X
    OBVIOUS
  <2>2. i + 1 \in DOMAIN P /\ i + 1 # 1 /\ Growing(D, P, h)
    BY RootedIs
  <2>3. Growing(D, P, Make(h, P, i + 1))
    BY <2>2, MakeGrows
  <2>4. QED
    BY <2>3 DEF Growing
<1> HIDE DEF X
<1>3. Attempt(m, P) = (CHOOSE f : Is(f))[last]
  BY DEF Attempt
<1> HIDE DEF last
<1>4. F \in [1..last -> [X -> X]]
  BY <1>2
<1>5. PICK f : f \in [0..last -> X] /\ f[0] = m /\ \A i \in 1..last : f[i] = F[i][f[i - 1]]
  <2> HIDE DEF F
  <2>1. QED
    BY <1>1, <1>4, LoopIs, Z3T(30)
<1>6. \A i \in 1..last : f[i] = Make(f[i - 1], P, i + 1)
  <2>1. SUFFICES ASSUME NEW i \in 1..last PROVE f[i] = Make(f[i - 1], P, i + 1)
    OBVIOUS
  <2>2. i - 1 \in 0..last
    BY <1>1
  <2>3. f[i - 1] \in X
    BY <1>5, <2>2
  <2>4. QED
    BY <1>5, <2>3
<1>7. Is(f)
  BY <1>1, <1>5, <1>6
<1> DEFINE after == CHOOSE f_1 : Is(f_1)
<1>8. Is(after)
  BY <1>7
<1>9. Attempt(m, P) = after[last]
  BY <1>3
<1> HIDE DEF after
<1>10. after[0] = m /\ \A i \in 1..last : after[i] = Make(after[i - 1], P, i + 1)
  BY <1>1, <1>8
<1>11. QED
  BY <1>9, <1>10 DEF last, IsAttempt

\* When all pairs behind the k-th have a solver, a round makes that of the k-th
LEMMA AttemptGrows ==
  ASSUME NEW D, NEW P, Rooted(D, P), NEW m, Growing(D, P, m)
  PROVE  /\ Growing(D, P, Attempt(m, P)) /\ m.made \subseteq Attempt(m, P).made
         /\ \A k \in DOMAIN P : {i \in DOMAIN P : i > k} \subseteq m.made => k \in Attempt(m, P).made
<1> DEFINE last == Len(P) - 1
<1>1. last \in Nat /\ DOMAIN P = 1..last + 1
  <2>1. Len(P) \in Nat /\ Len(P) >= 1 /\ DOMAIN P = 1..Len(P)
    BY RootedIs DEF Rooted
  <2>2. QED
    BY <2>1
<1>2. PICK f : /\ f[0] = m /\ f[last] = Attempt(m, P)
               /\ \A i \in 1..last : f[i] = Make(f[i - 1], P, i + 1)
  <2>1. \E f : IsAttempt(f, m, P)
    BY AttemptIs
  <2>2. PICK f : IsAttempt(f, m, P)
    BY <2>1
  <2>3. QED
    BY <2>2 DEF IsAttempt
<1> HIDE DEF last
<1> DEFINE Ok(i) == /\ Growing(D, P, f[i]) /\ m.made \subseteq f[i].made
                    /\ \A k \in DOMAIN P : k <= i + 1 /\ {j \in DOMAIN P : j > k} \subseteq m.made => k \in f[i].made
           S == {i \in Nat : i <= last => Ok(i)}
<1>3. 0 \in S
  <2>1. \A k \in DOMAIN P : k <= 0 + 1 => k = 1
    BY <1>1
  <2>2. 1 \in m.made
    BY DEF Growing
  <2>3. QED
    BY <1>2, <2>1, <2>2
<1>4. ASSUME NEW i \in Nat, i \in S PROVE i + 1 \in S
  <2>1. SUFFICES ASSUME i + 1 <= last PROVE Ok(i + 1)
    OBVIOUS
  <2> DEFINE t == i + 2
  <2>2. Ok(i) /\ i + 1 \in 1..last /\ (i + 1) - 1 = i /\ t \in DOMAIN P /\ t # 1 /\ (i + 1) + 1 = t
    BY <1>1, <1>4, <2>1
  <2>3. f[i + 1] = Make(f[i], P, t)
    BY <1>2, <2>2
  <2>4. \A k \in DOMAIN P : k <= (i + 1) + 1 => k <= i + 1 \/ k = t
    BY <1>1
  <2> HIDE DEF t
  <2>5. /\ Growing(D, P, f[i + 1]) /\ f[i].made \subseteq f[i + 1].made
        /\ (\E k \in f[i].made : P[k].device = P[t].parent) => t \in f[i + 1].made
    BY <2>2, <2>3, MakeGrows
  <2>6. ASSUME {j \in DOMAIN P : j > t} \subseteq m.made PROVE t \in f[i + 1].made
    <3>1. PICK k \in DOMAIN P : P[k].device = P[t].parent /\ (k = 1 \/ k > t)
      BY <2>2 DEF Rooted
    <3>2. k \in f[i].made
      BY <2>2, <2>6, <3>1 DEF Growing
    <3>3. QED
      BY <2>5, <3>1, <3>2
  <2>7. QED
    BY <2>2, <2>4, <2>5, <2>6
<1>5. last \in S
  <2> HIDE DEF S
  <2>1. QED
    BY <1>1, <1>3, <1>4, Inductive
<1>6. Ok(last) /\ \A k \in DOMAIN P : k <= last + 1
  BY <1>1, <1>5
<1>7. QED
  BY <1>2, <1>6

\* Prepare, round by round
LEMMA PrepareIs ==
  ASSUME NEW D, NEW P, Rooted(D, P)
  PROVE  \E m : Growing(D, P, m) /\ m.made = DOMAIN P /\ Prepare(P) = Tree(P, m)
<1> DEFINE X == {h \in [made : SUBSET DOMAIN P, children_ : [D -> Seq(D \ {P[1].device})]] : Growing(D, P, h)}
           last == Len(P)
           F == [k \in 1..last |-> [h \in X |-> Attempt(h, P)]]
           Is(f) == f = [k \in 0..last |-> IF k = 0 THEN OnlyRoot(P) ELSE Attempt(f[k - 1], P)]
<1>1. last \in Nat /\ DOMAIN P = 1..last /\ Growing(D, P, OnlyRoot(P))
  BY RootedIs, OnlyRootGrows
<1>2. \A h \in X : Attempt(h, P) \in X
  <2>1. SUFFICES ASSUME NEW h \in X PROVE Attempt(h, P) \in X
    OBVIOUS
  <2>2. Growing(D, P, Attempt(h, P))
    BY AttemptGrows
  <2>3. QED
    BY <2>2 DEF Growing
<1>3. OnlyRoot(P) \in X
  BY <1>1 DEF Growing
<1> HIDE DEF X
<1>4. Prepare(P) = Tree(P, (CHOOSE f : Is(f))[last])
  BY DEF Prepare
<1> HIDE DEF last
<1>5. F \in [1..last -> [X -> X]]
  BY <1>2
<1>6. PICK f : f \in [0..last -> X] /\ f[0] = OnlyRoot(P) /\ \A k \in 1..last : f[k] = F[k][f[k - 1]]
  <2> HIDE DEF F
  <2>1. QED
    BY <1>1, <1>3, <1>5, LoopIs, Z3T(30)
<1>7. \A k \in 1..last : f[k] = Attempt(f[k - 1], P)
  <2>1. SUFFICES ASSUME NEW k \in 1..last PROVE f[k] = Attempt(f[k - 1], P)
    OBVIOUS
  <2>2. k - 1 \in 0..last
    BY <1>1
  <2>3. f[k - 1] \in X
    BY <1>6, <2>2
  <2>4. QED
    BY <1>6, <2>3
<1>8. Is(f)
  BY <1>1, <1>6, <1>7
<1> DEFINE after == CHOOSE f_1 : Is(f_1)
<1>9. Is(after)
  BY <1>8
<1>10. Prepare(P) = Tree(P, after[last])
  BY <1>4
<1> HIDE DEF after
<1>11. after[0] = OnlyRoot(P) /\ \A k \in 1..last : after[k] = Attempt(after[k - 1], P)
  BY <1>1, <1>9
<1> DEFINE Ok(k) == Growing(D, P, after[k]) /\ \A i \in DOMAIN P : i > last - k => i \in after[k].made
           S == {k \in Nat : k <= last => Ok(k)}
<1>12. 0 \in S
  BY <1>1, <1>11
<1>13. ASSUME NEW k \in Nat, k \in S PROVE k + 1 \in S
  <2>1. SUFFICES ASSUME k + 1 <= last PROVE Ok(k + 1)
    OBVIOUS
  <2>2. Ok(k) /\ k + 1 \in 1..last /\ (k + 1) - 1 = k
    BY <1>1, <1>13, <2>1
  <2>3. after[k + 1] = Attempt(after[k], P)
    BY <1>11, <2>2
  <2> DEFINE t == last - k
  <2>4. t \in DOMAIN P /\ \A i \in DOMAIN P : i > last - (k + 1) => i > t \/ i = t
    BY <1>1, <2>2
  <2>5. {i \in DOMAIN P : i > t} \subseteq after[k].made
    BY <2>2
  <2> HIDE DEF t
  <2>6. /\ Growing(D, P, after[k + 1]) /\ after[k].made \subseteq after[k + 1].made
        /\ t \in after[k + 1].made
    BY <2>2, <2>3, <2>4, <2>5, AttemptGrows
  <2>7. QED
    BY <2>4, <2>5, <2>6
<1>14. last \in S
  <2> HIDE DEF S
  <2>1. QED
    BY <1>1, <1>12, <1>13, Inductive
<1>15. Growing(D, P, after[last]) /\ \A i \in DOMAIN P : i \in after[last].made
  BY <1>1, <1>14
<1>16. after[last].made = DOMAIN P
  BY <1>15 DEF Growing
<1>17. QED
  BY <1>10, <1>15, <1>16

\* Of the devices of a set below the root, the one that was paired last has its
\* parent outside
LEMMA PreparedSpans ==
  ASSUME NEW D, D \subseteq Solvers, NEW P, Rooted(D, P)
  PROVE  Spans(Prepare(P))
<1>1. PICK m : Growing(D, P, m) /\ m.made = DOMAIN P /\ Prepare(P) = Tree(P, m)
  BY PrepareIs
<1> DEFINE t == Prepare(P)
           n == Len(P)
           below == D \ {P[1].device}
<1>2. n \in Nat /\ DOMAIN P = 1..n /\ 1 \in DOMAIN P /\ \A i \in DOMAIN P : P[i].device \in D
  BY RootedIs
<1>3. t = [syncs |-> [i \in DOMAIN P |-> P[i].device], children_ |-> m.children_]
  BY <1>1 DEF Tree
<1> HIDE DEF t
<1>4. t.syncs = [i \in DOMAIN P |-> P[i].device] /\ t.children_ = m.children_
  BY <1>3
<1>5. t.syncs \in Seq(Solvers) \ {<< >>}
  <2>1. t.syncs \in [1..n -> Solvers] /\ DOMAIN t.syncs # {}
    BY <1>2, <1>4
  <2>2. QED
    BY <1>2, <2>1
<1>6. DOMAIN t.syncs = DOMAIN P /\ \A i \in DOMAIN P : t.syncs[i] = P[i].device
  BY <1>4
<1>7. {t.syncs[i] : i \in DOMAIN t.syncs} = D
  <2>1. \A d \in D : \E i \in DOMAIN P : P[i].device = d
    BY DEF Rooted
  <2>2. QED
    BY <1>2, <1>6, <2>1
<1>8. t.children_ \in [D -> Seq(below)]
  BY <1>1, <1>4 DEF Growing
<1>9. \A i, j \in DOMAIN t.syncs : t.syncs[i] = t.syncs[j] => i = j
  BY <1>6 DEF Rooted
<1>10. ASSUME NEW p \in D, NEW q \in D, NEW i \in DOMAIN t.children_[p], NEW j \in DOMAIN t.children_[q],
              t.children_[p][i] = t.children_[q][j]
       PROVE  p = q /\ i = j
  <2>1. PICK k \in DOMAIN P : P[k].device = t.children_[p][i] /\ P[k].parent = p
    BY <1>1, <1>4 DEF Growing
  <2>2. PICK l \in DOMAIN P : P[l].device = t.children_[q][j] /\ P[l].parent = q
    BY <1>1, <1>4 DEF Growing
  <2>3. k = l
    BY <1>10, <2>1, <2>2 DEF Rooted
  <2>4. p = q
    BY <2>1, <2>2, <2>3
  <2>5. QED
    BY <1>1, <1>4, <1>10, <2>4 DEF Growing
<1>11. ASSUME NEW S \in SUBSET below, S # {}
       PROVE  \E p \in D \ S : \E i \in DOMAIN t.children_[p] : t.children_[p][i] \in S
  <2> DEFINE K == {k \in Nat : k < n /\ P[n - k].device \in S}
  <2>1. K \subseteq Nat /\ K # {}
    <3>1. PICK d \in S : TRUE
      BY <1>11
    <3>2. PICK i \in DOMAIN P : P[i].device = d
      BY DEF Rooted
    <3>3. n - i \in Nat /\ n - i < n /\ n - (n - i) = i
      BY <1>2
    <3>4. n - i \in K
      BY <3>2, <3>3
    <3>5. QED
      BY <3>4
  <2>2. PICK k \in K : \A j \in K : k <= j
    <3> HIDE DEF K
    <3>1. QED
      BY <2>1, Smallest
  <2> DEFINE i == n - k
  <2>3. i \in DOMAIN P /\ P[i].device \in S /\ i # 1
    <3>1. k \in Nat /\ k < n /\ P[n - k].device \in S
      BY <2>2
    <3>2. i \in DOMAIN P /\ P[i].device \in S
      BY <1>2, <3>1
    <3>3. \A d \in S : d # P[1].device
      OBVIOUS
    <3> HIDE DEF i
    <3>4. QED
      BY <3>2, <3>3
  <2>4. \A j \in DOMAIN P : j > i => P[j].device \notin S
    <3>1. SUFFICES ASSUME NEW j \in DOMAIN P, j > i, P[j].device \in S PROVE FALSE
      OBVIOUS
    <3>2. n - j \in Nat /\ n - j < n /\ n - (n - j) = j /\ k \in Nat /\ ~(k <= n - j)
      BY <1>2, <2>2, <3>1
    <3>3. n - j \in K
      BY <3>1, <3>2
    <3>4. QED
      BY <2>2, <3>2, <3>3
  <2> HIDE DEF i
  <2>5. PICK j \in DOMAIN P : P[j].device = P[i].parent /\ (j = 1 \/ j > i)
    BY <2>3 DEF Rooted
  <2>6. P[i].parent \in D \ S
    BY <1>2, <2>4, <2>5
  <2>7. \E a \in DOMAIN t.children_[P[i].parent] : t.children_[P[i].parent][a] = P[i].device
    <3> HIDE DEF K
    <3>1. \A l \in DOMAIN P : l # 1 =>
            \E a \in DOMAIN m.children_[P[l].parent] : m.children_[P[l].parent][a] = P[l].device
      BY <1>1 DEF Growing
    <3>2. QED
      BY <1>4, <2>3, <3>1
  <2>8. QED
    BY <2>3, <2>6, <2>7
<1>12. t.syncs[1] = P[1].device
  BY <1>2, <1>6
<1>13. Spans(t)
  BY <1>5, <1>7, <1>8, <1>9, <1>10, <1>11, <1>12 DEF Spans
<1>14. QED
  BY <1>13 DEF t

-----------------------------------------------------------------------------
(* The trees span their solvers *)

\* The devices a run is told to use are different ones; the loops of compute
\* stay inside the vector
Built(t) ==
  \E devices \in Seq(Solvers), boards \in SUBSET SUBSET Solvers, access \in SUBSET SUBSET Solvers :
    /\ devices # << >> /\ \A i, j \in DOMAIN devices : devices[i] = devices[j] => i = j
    /\ Compute(devices, boards, access).defined
    /\ t = Prepare(Compute(devices, boards, access).pairs)

\* All trees are such as DevicePair::compute and Prepare build
TreesBuilt == \A t \in Trees : Built(t)

\* Whatever the devices, and which are on a board or can reach each other, the
\* hypothesis of the theorems above is met: what Prepare builds of the pairs that
\* compute finds has every solver once, below the root (parallel.cpp:117-197,
\* :383-418).
THEOREM BuiltTreesSpan == TreesBuilt => TreesSpan
<1> SUFFICES ASSUME TreesBuilt, NEW t \in Trees PROVE Spans(t)
  BY DEF TreesSpan
<1>1. PICK devices \in Seq(Solvers), boards \in SUBSET SUBSET Solvers, access \in SUBSET SUBSET Solvers :
        /\ devices # << >> /\ \A i, j \in DOMAIN devices : devices[i] = devices[j] => i = j
        /\ Compute(devices, boards, access).defined
        /\ t = Prepare(Compute(devices, boards, access).pairs)
  BY DEF TreesBuilt, Built
<1> DEFINE D == {devices[i] : i \in DOMAIN devices}
           P == Compute(devices, boards, access).pairs
<1>2. Rooted(D, P)
  BY <1>1, ComputeIs
<1>3. D \subseteq Solvers
  OBVIOUS
<1> HIDE DEF D, P
<1>4. Spans(Prepare(P))
  BY <1>2, <1>3, PreparedSpans
<1>5. QED
  BY <1>1, <1>4 DEF P

\* TreeSpans, of training in the trees the code builds.
THEOREM TrainsInATree == ASSUME TreesBuilt PROVE Spec => []TreeSpans
<1>1. TreesSpan
  BY BuiltTreesSpan
<1>2. Types => TreeSpans
  BY DEF Types, TreeSpans
<1>3. QED
  BY <1>1, <1>2, TypesHold, PTL
=============================================================================
