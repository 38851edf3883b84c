----------------------------- MODULE DataReader -----------------------------
(***************************************************************************)
(* DataReader (9.caffe-ssd/src/caffe/data_reader.cpp): the data layers of  *)
(* several solvers read one source.  The first reader of the source makes  *)
(* the Body, a thread that reads the records one after the other and deals *)
(* them out; the last one to go stops it.  A weak pointer in bodies_ is    *)
(* where readers find each other.  Each reader has a QueuePair, through    *)
(* which a fixed number of Datum objects go round.                         *)
(*                                                                         *)
(* A reader stands for its owner: the layer that sets it up, takes a datum *)
(* from full, gives it back to free, and destroys it between two data.     *)
(* The queues are those of BlockingQueue with one thread popping: a pop    *)
(* waits until there is something.                                         *)
(***************************************************************************)
EXTENDS Integers, Sequences, FiniteSets

CONSTANTS
  Readers,        \* the readers of this source
  Bodies,         \* names for the bodies that exist at a time
  NoBody,
  solver_count,   \* Caffe::solver_count()
  Capacity,       \* the size of a QueuePair: prefetch * batch_size
  Records         \* the records of the database

ASSUME DataReaderAssumption ==
  /\ NoBody \notin Bodies
  /\ solver_count \in Nat \ {0} /\ Capacity \in Nat \ {0} /\ Records \in Nat \ {0}

VARIABLES
  state,     \* state[r]: where the owner of reader r is
  body_,     \* body_[r]: its body
  free_,     \* free_[r]: how many Datum objects wait to be filled
  full_,     \* full_[r]: the records in those that wait to be used
  bodies_,   \* the body the weak pointer of the source names, or NoBody
  body       \* body[b]: the thread of body b

vars == << state, body_, free_, full_, bodies_, body >>

\* A reader owns a share of its body until it resets body_
Alive == {"setup", "use", "hold"}
Sharing(b) == {r \in Readers : state[r] \in Alive /\ body_[r] = b}

\* No thread; qps: the queue pairs accepted; new: new_queue_pairs_; turn: the
\* position in qps being served; at: the cursor; stop: the interruption
NoThread == [ pc |-> "none", qps |-> << >>, new |-> << >>, turn |-> 0, at |-> 0, stop |-> FALSE ]

Elements(q) == {q[i] : i \in DOMAIN q}

Served(b) == body[b].qps[body[b].turn]

Init ==
  /\ state = [r \in Readers |-> "none"]
  /\ body_ = [r \in Readers |-> NoBody]
  /\ free_ = [r \in Readers |-> 0]
  /\ full_ = [r \in Readers |-> << >>]
  /\ bodies_ = NoBody
  /\ body = [b \in Bodies |-> NoThread]

-----------------------------------------------------------------------------
(* The reader *)

Expired == bodies_ = NoBody \/ Sharing(bodies_) = {}

\* The constructor, under bodies_mutex_.  A net is set up once for each
\* solver, so no body gets more readers than that.
New(r) ==
  /\ state[r] = "none"
  /\ \A b \in Bodies : r \notin Elements(body[b].qps) \union Elements(body[b].new)
  /\ \E b \in IF Expired THEN {c \in Bodies : body[c] = NoThread} ELSE {bodies_} :
       /\ Len(body[b].qps) + Len(body[b].new) < solver_count
       /\ body' = [body EXCEPT ![b].new = Append(@, r),
                               ![b].pc = IF Expired THEN "accept" ELSE @]
       /\ bodies_' = b
       /\ body_' = [body_ EXCEPT ![r] = b]
  /\ state' = [state EXCEPT ![r] = "setup"]
  /\ free_' = [free_ EXCEPT ![r] = Capacity]
  /\ full_' = [full_ EXCEPT ![r] = << >>]

\* The layer peeks at a datum to shape its blobs
SetUp(r) ==
  /\ state[r] = "setup" /\ full_[r] # << >>
  /\ state' = [state EXCEPT ![r] = "use"]
  /\ UNCHANGED << body_, free_, full_, bodies_, body >>

Get(r) ==
  /\ state[r] = "use" /\ full_[r] # << >>
  /\ state' = [state EXCEPT ![r] = "hold"]
  /\ full_' = [full_ EXCEPT ![r] = Tail(@)]
  /\ UNCHANGED << body_, free_, bodies_, body >>

\* Slip: the datum is not given back
GiveNotBack(r) ==
  /\ state[r] = "hold"
  /\ state' = [state EXCEPT ![r] = "use"]
  /\ UNCHANGED << body_, free_, full_, bodies_, body >>

GiveBack(r) ==
  /\ state[r] = "hold"
  /\ state' = [state EXCEPT ![r] = "use"]
  /\ free_' = [free_ EXCEPT ![r] = @ + 1]
  /\ UNCHANGED << body_, full_, bodies_, body >>

\* body_.reset() in the destructor: the last one destroys the body, which
\* interrupts its thread and waits for it
Reset(r) ==
  /\ state[r] = "use"
  /\ IF Sharing(body_[r]) = {r}
     THEN /\ body' = [body EXCEPT ![body_[r]].stop = TRUE]
          /\ state' = [state EXCEPT ![r] = "join"]
     ELSE /\ state' = [state EXCEPT ![r] = "erase"]
          /\ UNCHANGED body
  /\ UNCHANGED << body_, free_, full_, bodies_ >>

Join(r) ==
  /\ state[r] = "join" /\ body[body_[r]].pc = "ended"
  /\ body' = [body EXCEPT ![body_[r]] = NoThread]
  /\ state' = [state EXCEPT ![r] = "erase"]
  /\ UNCHANGED << body_, free_, full_, bodies_ >>

\* Slip: the entry is erased whoever it names by now
EraseAlways(r) ==
  /\ state[r] = "erase"
  /\ bodies_' = NoBody
  /\ state' = [state EXCEPT ![r] = "none"]
  /\ body_' = [body_ EXCEPT ![r] = NoBody]
  /\ UNCHANGED << free_, full_, body >>

\* The rest of the destructor, under bodies_mutex_
Erase(r) ==
  /\ state[r] = "erase"
  /\ bodies_' = IF Expired THEN NoBody ELSE bodies_
  /\ state' = [state EXCEPT ![r] = "none"]
  /\ body_' = [body_ EXCEPT ![r] = NoBody]
  /\ UNCHANGED << free_, full_, body >>

\* What an owner does of its own accord, and what it does once begun
Use(r) == SetUp(r) \/ Get(r) \/ GiveBack(r)
Destroy(r) == Join(r) \/ Erase(r)

-----------------------------------------------------------------------------
(* The thread of the body *)

\* Slip: no record is read until every solver is there
AcceptWhenAll(b) ==
  /\ body[b].pc = "accept" /\ body[b].new # << >>
  /\ Len(body[b].qps) + Len(body[b].new) = solver_count
  /\ body' = [body EXCEPT ![b].qps = Append(@, Head(body[b].new)), ![b].new = Tail(@),
                          ![b].turn = @ + 1, ![b].pc = "take"]
  /\ UNCHANGED << state, body_, free_, full_, bodies_ >>

\* Before all solvers are there: the next queue pair, for one record
Accept(b) ==
  /\ body[b].pc = "accept" /\ body[b].new # << >>
  /\ body' = [body EXCEPT ![b].qps = Append(@, Head(body[b].new)), ![b].new = Tail(@),
                          ![b].turn = @ + 1, ![b].pc = "take"]
  /\ UNCHANGED << state, body_, free_, full_, bodies_ >>

\* read_one: a free datum ...
Take(b) ==
  /\ body[b].pc = "take" /\ free_[Served(b)] > 0
  /\ free_' = [free_ EXCEPT ![Served(b)] = @ - 1]
  /\ body' = [body EXCEPT ![b].pc = "fill"]
  /\ UNCHANGED << state, body_, full_, bodies_ >>

\* Where the thread goes after a record
AfterRecord(t) ==
  IF t.turn = solver_count THEN "loop" ELSE IF Len(t.qps) = solver_count THEN "take" ELSE "accept"

\* Slip: the cursor is not moved on before the next solver is served
FillStill(b) ==
  /\ body[b].pc = "fill"
  /\ full_' = [full_ EXCEPT ![Served(b)] = Append(@, body[b].at)]
  /\ body' = [body EXCEPT ![b].pc = AfterRecord(body[b]),
                          ![b].at = IF body[b].turn = 1 THEN @ ELSE (@ + 1) % Records,
                          ![b].turn = IF AfterRecord(body[b]) = "take" THEN @ + 1 ELSE @]
  /\ UNCHANGED << state, body_, free_, bodies_ >>

\* ... is filled and handed over; the cursor goes on, past the end to the first
Fill(b) ==
  /\ body[b].pc = "fill"
  /\ full_' = [full_ EXCEPT ![Served(b)] = Append(@, body[b].at)]
  /\ body' = [body EXCEPT ![b].pc = AfterRecord(body[b]), ![b].at = (@ + 1) % Records,
                          ![b].turn = IF AfterRecord(body[b]) = "take" THEN @ + 1 ELSE @]
  /\ UNCHANGED << state, body_, free_, bodies_ >>

\* The round is over: no reader may have come since; must_stop is asked
Loop(b) ==
  /\ body[b].pc = "loop" /\ body[b].new = << >>
  /\ body' = [body EXCEPT ![b].turn = 1, ![b].pc = IF body[b].stop THEN "ended" ELSE "take"]
  /\ UNCHANGED << state, body_, free_, full_, bodies_ >>

\* A pop that waits is interrupted
Interrupted(b) ==
  /\ body[b].stop
  /\ \/ body[b].pc = "accept" /\ body[b].new = << >>
     \/ body[b].pc = "take" /\ free_[Served(b)] = 0
  /\ body' = [body EXCEPT ![b].pc = "ended"]
  /\ UNCHANGED << state, body_, free_, full_, bodies_ >>

BodyStep(b) == Accept(b) \/ Take(b) \/ Fill(b) \/ Loop(b) \/ Interrupted(b)

Next ==
  \/ \E r \in Readers : New(r) \/ Reset(r) \/ Use(r) \/ Destroy(r)
  \/ \E b \in Bodies : BodyStep(b)

Spec == Init /\ [][Next]_vars

\* Every thread that can take a step is run; nobody has to make or destroy a
\* reader, and an owner that has one need not use it
Fairness ==
  /\ \A r \in Readers : WF_vars(SetUp(r)) /\ WF_vars(Destroy(r))
  /\ \A b \in Bodies : WF_vars(BodyStep(b))

-----------------------------------------------------------------------------
Thread ==
  [ pc : {"none", "accept", "take", "fill", "loop", "ended"},
    qps : Seq(Readers), new : Seq(Readers), turn : 0..solver_count,
    at : 0..Records - 1, stop : BOOLEAN ]

TypeOK ==
  /\ state \in [Readers -> Alive \union {"none", "join", "erase"}]
  /\ body_ \in [Readers -> Bodies \union {NoBody}]
  /\ free_ \in [Readers -> 0..Capacity]
  /\ full_ \in [Readers -> Seq(0..Records - 1)]
  /\ bodies_ \in Bodies \union {NoBody}
  /\ body \in [Bodies -> Thread]

\* The datum in the hands of the thread or of the owner
InHand(r) ==
  (IF state[r] = "hold" THEN 1 ELSE 0)
  + (IF \E b \in Bodies : body[b].pc = "fill" /\ Served(b) = r THEN 1 ELSE 0)

\* The Datum objects of a queue pair are neither lost nor doubled, and the
\* destructor of the pair, which comes after reader and thread have let go of
\* it, finds all of them in its two queues (data_reader.cpp:64-72).
DataGoRound ==
  \A r \in Readers :
     state[r] # "none" => free_[r] + Len(full_[r]) + InHand(r) = Capacity

\* "Data is distributed to solvers in a round-robin way to keep parallel
\* training deterministic" (data_reader.hpp:20): what a solver finds in its
\* queue is every solver_count-th record, and when the records can be divided
\* evenly, those of its place in the row only.
RoundRobin ==
  \A b \in Bodies : \A i \in DOMAIN body[b].qps :
     LET q == full_[body[b].qps[i]]
     IN  /\ \A j \in 1..Len(q) - 1 : q[j + 1] = (q[j] + solver_count) % Records
         /\ Records % solver_count = 0 => \A j \in DOMAIN q : q[j] % solver_count = i - 1

\* Readers of one source that are alive together share the body the registry
\* names, and when none is left the registry is empty (data_reader.cpp:36-52).
RegistryExact ==
  /\ \A r \in Readers : state[r] \in Alive => body_[r] = bodies_
  /\ (\A r \in Readers : state[r] = "none") => bodies_ = NoBody /\ body = [b \in Bodies |-> NoThread]

\* The inductive invariant behind TypeOK, DataGoRound and RegistryExact:
\* where a thread is in its rounds, whom it serves, and who keeps it
Known(b) == Elements(body[b].qps) \union Elements(body[b].new)

RoundOk(t) ==
  /\ t.turn <= Len(t.qps) /\ Len(t.qps) + Len(t.new) <= solver_count
  /\ Len(t.qps) < solver_count => t.turn = Len(t.qps)
  /\ t.pc = "accept" => Len(t.qps) < solver_count
  /\ t.pc = "take" \/ t.pc = "fill" => t.turn > 0
  /\ t.pc = "loop" => Len(t.qps) = solver_count

RoundInv == \A b \in Bodies : RoundOk(body[b])

KnownApart == \A b, c \in Bodies : b # c => Known(b) \intersect Known(c) = {}

NoneDoubled == \A r \in Readers : free_[r] + Len(full_[r]) + InHand(r) <= Capacity

KeptInv ==
  /\ \A r \in Readers : state[r] \in Alive \union {"join"} => body_[r] \in Bodies
  /\ \A r \in Readers : state[r] \in Alive => body_[r] = bodies_
  /\ bodies_ # NoBody => \E r \in Readers : state[r] # "none"
  /\ \A b \in Bodies : body[b] # NoThread =>
        \E r \in Readers : state[r] \in Alive \union {"join"} /\ body_[r] = b

IInv == TypeOK /\ RoundInv /\ KnownApart /\ NoneDoubled /\ DataGoRound /\ KeptInv

\* The inductive invariant behind RoundRobin: which position a thread serves
\* next, and how many records ago position i got one
Turn(t) == IF t.pc \in {"take", "fill"} THEN t.turn ELSE t.turn + 1
Ago(t, i) == Turn(t) - i + (IF i < Turn(t) THEN 0 ELSE solver_count)

\* The queue of position i goes up to the cursor
InTurn(t, i, q) ==
  /\ \A j \in 1..Len(q) - 1 : q[j + 1] = (q[j] + solver_count) % Records
  /\ Records % solver_count = 0 => \A j \in DOMAIN q : q[j] % solver_count = i - 1
  /\ q # << >> /\ t.pc # "ended" => t.at = (q[Len(q)] + Ago(t, i)) % Records

Dealing == \A b \in Bodies : \A i \in DOMAIN body[b].qps : InTurn(body[b], i, full_[body[b].qps[i]])

\* Rounds are as long as there are solvers: the cursor tells whose turn it is
AtTurn(t) ==
  /\ t.pc = "loop" => t.turn = solver_count
  /\ t.pc # "ended" /\ Records % solver_count = 0 => t.at % solver_count = (Turn(t) - 1) % solver_count

CursorInTurn == \A b \in Bodies : AtTurn(body[b])

NewEmpty == \A b \in Bodies : \A r \in Elements(body[b].new) : full_[r] = << >>

\* A queue pair is in the rows of a thread once
OneByOne(q) == \A i, j \in DOMAIN q : q[i] = q[j] => i = j
KnownOnce ==
  \A b \in Bodies : /\ OneByOne(body[b].qps) /\ OneByOne(body[b].new)
                    /\ Elements(body[b].qps) \intersect Elements(body[b].new) = {}

DealInv == Dealing /\ CursorInTurn /\ NewEmpty /\ KnownOnce

\* Who is known to which body, and who waits for the end of one: what a reader
\* in use can rely on
KnownToItsBody == \A r \in Readers : state[r] \in Alive => r \in Known(body_[r])
NewAreSetUp == \A b \in Bodies : \A r \in Elements(body[b].new) : state[r] = "setup" /\ body_[r] = b
JoinsAlone ==
  \A r \in Readers : state[r] = "join" =>
     /\ body[body_[r]].stop /\ Sharing(body_[r]) = {}
     /\ \A q \in Readers : state[q] = "join" /\ body_[q] = body_[r] => q = r

\* In its first round a body deals the first records, one for each position
FirstRound ==
  \A b \in Bodies : body[b].pc # "ended" /\ Len(body[b].qps) < solver_count =>
     body[b].at = (Turn(body[b]) - 1) % Records

ShareInv == KnownToItsBody /\ NewAreSetUp /\ JoinsAlone /\ FirstRound

\* A layer that is set up gets its first datum, whether the others have come
\* yet or not (data_reader.cpp:95-102).
SetUpReturns == \A r \in Readers : state[r] = "setup" ~> state[r] = "use"
=============================================================================
