--------------------------- MODULE BlockingQueue ---------------------------
(***************************************************************************)
(* BlockingQueue (9.caffe-ssd/src/caffe/util/blocking_queue.cpp), the      *)
(* queue between the threads of Caffe: a mutex, a condition variable, and  *)
(* a pop that waits.  What is done under the mutex is one step; a push     *)
(* notifies in a step of its own, when it has unlocked, and a thread that  *)
(* was woken looks at the queue in a step of its own, after others may     *)
(* have.                                                                   *)
(*                                                                         *)
(* Who calls what is the program's choice: a crew of several threads that  *)
(* pop, or one thread that peeks and pops.  (All queues of Caffe have one  *)
(* thread popping.)                                                        *)
(***************************************************************************)
EXTENDS Naturals, Sequences, FiniteSets

CONSTANTS
  Pushers,
  Crews,      \* the sets of threads that may pop
  Nothing,    \* what front() of an empty queue returns
  MaxPushes   \* bound: the pushes of a thread

VARIABLES
  crew,       \* the threads that pop
  queue_,
  waiting,    \* the threads in condition_.wait
  doing,      \* doing[t]: where thread t is
  pushes,     \* pushes[t]: how often t has pushed
  got         \* everything popped, in the order of the pops

qvars == << crew, queue_, waiting, doing, pushes, got >>

Callers == Pushers \union UNION Crews

QueueInit ==
  /\ crew \in Crews
  /\ queue_ = << >>
  /\ waiting = {}
  /\ doing = [t \in Callers |-> "idle"]
  /\ pushes = [t \in Pushers |-> 0]
  /\ got = << >>

MayPeek == Cardinality(crew) = 1

\* push: the lock is given up ...
Push(t) ==
  /\ doing[t] = "idle" /\ pushes[t] < MaxPushes
  /\ pushes' = [pushes EXCEPT ![t] = @ + 1]
  /\ queue_' = Append(queue_, << t, pushes[t] + 1 >>)
  /\ doing' = [doing EXCEPT ![t] = "notify"]
  /\ UNCHANGED << crew, waiting, got >>

\* Slip: one is notified only when the queue was empty before
NotifyFirst(t) ==
  /\ doing[t] = "notify"
  /\ IF waiting = {} \/ Len(queue_) > 1 THEN UNCHANGED waiting ELSE \E c \in waiting : waiting' = waiting \ {c}
  /\ doing' = [doing EXCEPT ![t] = "idle"]
  /\ UNCHANGED << crew, queue_, pushes, got >>

\* ... before one of those who wait is notified
Notify(t) ==
  /\ doing[t] = "notify"
  /\ IF waiting = {} THEN UNCHANGED waiting ELSE \E c \in waiting : waiting' = waiting \ {c}
  /\ doing' = [doing EXCEPT ![t] = "idle"]
  /\ UNCHANGED << crew, queue_, pushes, got >>

\* wait may also return for no reason
WakeUp(c) ==
  /\ c \in waiting
  /\ waiting' = waiting \ {c}
  /\ UNCHANGED << crew, queue_, doing, pushes, got >>

\* pop and peek wait while the queue is empty, and look again when woken
Wait(c) ==
  /\ doing[c] \in {"pop", "peek"} /\ c \notin waiting /\ queue_ = << >>
  /\ waiting' = waiting \union {c}
  /\ UNCHANGED << crew, queue_, doing, pushes, got >>

CallPop(c) ==
  /\ doing[c] = "idle"
  /\ doing' = [doing EXCEPT ![c] = "pop"]
  /\ UNCHANGED << crew, queue_, waiting, pushes, got >>

CallPeek(c) ==
  /\ MayPeek /\ doing[c] = "idle"
  /\ doing' = [doing EXCEPT ![c] = "peek"]
  /\ UNCHANGED << crew, queue_, waiting, pushes, got >>

Popped == IF queue_ = << >> THEN Nothing ELSE Head(queue_)

\* Slip: the queue is not looked at again after the wait
PopUnchecked(c) ==
  /\ doing[c] = "pop" /\ c \notin waiting
  /\ got' = Append(got, Popped)
  /\ queue_' = IF queue_ = << >> THEN queue_ ELSE Tail(queue_)
  /\ doing' = [doing EXCEPT ![c] = "idle"]
  /\ UNCHANGED << crew, waiting, pushes >>

Pop(c) ==
  /\ doing[c] = "pop" /\ c \notin waiting /\ queue_ # << >>
  /\ got' = Append(got, Popped)
  /\ queue_' = Tail(queue_)
  /\ doing' = [doing EXCEPT ![c] = "idle"]
  /\ UNCHANGED << crew, waiting, pushes >>

Look(c) ==
  /\ doing[c] = "peek" /\ c \notin waiting /\ queue_ # << >>
  /\ doing' = [doing EXCEPT ![c] = "idle"]
  /\ UNCHANGED << crew, queue_, waiting, pushes, got >>

\* try_pop, and try_peek with it: no waiting
TryPop(c) ==
  /\ doing[c] = "idle" /\ queue_ # << >>
  /\ got' = Append(got, Popped)
  /\ queue_' = Tail(queue_)
  /\ UNCHANGED << crew, waiting, doing, pushes >>

InCall(c) == Wait(c) \/ Pop(c) \/ Look(c)

QueueNext ==
  \/ \E t \in Pushers : Push(t) \/ Notify(t)
  \/ \E c \in crew : CallPop(c) \/ CallPeek(c) \/ TryPop(c) \/ WakeUp(c) \/ InCall(c)

QueueSpec == QueueInit /\ [][QueueNext]_qvars

\* A thread in a call is run; nobody has to call, nor is anyone woken for nothing
QueueFairness ==
  /\ \A t \in Pushers : WF_qvars(Notify(t))
  /\ \A c \in UNION Crews : WF_qvars(c \in crew /\ InCall(c))

-----------------------------------------------------------------------------
\* The pushes so far, each by its thread and its number, and how they come out
Pushed == UNION { {t} \X (1..pushes[t]) : t \in Pushers }
Passed == got \o queue_

\* However many threads push and pop, every element comes out once, in the
\* order in which its thread pushed it, and no pop returns the front of an
\* empty queue: a thread that was woken may find that another took what it was
\* woken for (blocking_queue.cpp:48-57).
TakenInOrder ==
  /\ {Passed[i] : i \in DOMAIN Passed} = Pushed
  /\ \A i, j \in DOMAIN Passed :
        i < j /\ Passed[i][1] = Passed[j][1] => Passed[i][2] < Passed[j][2]

\* No wake-up is lost: nobody waits for ever on a queue that has something
\* (blocking_queue.cpp:24-28 notifies after unlocking, once for each push).
PopReturns ==
  \A c \in UNION Crews : (doing[c] \in {"pop", "peek"} /\ queue_ # << >>) ~> (doing[c] = "idle" \/ queue_ = << >>)
=============================================================================
