-------------------------- MODULE StandaloneProofs --------------------------
(***************************************************************************)
(* Four components that stand alone.                                       *)
(*                                                                         *)
(* BlockingQueue: however many threads push and pop, and however often     *)
(* they are woken for nothing, what was pushed comes out once and in the   *)
(* order in which its thread pushed it.                                    *)
(*                                                                         *)
(* Serialize: whatever arrays a caller encodes and decodes, and whether it *)
(* frees what it decoded or not: a block is freed twice exactly when it    *)
(* goes on without, none is left behind until then, and what comes out is  *)
(* what went in, all of it when its size in bytes is an int.               *)
(*                                                                         *)
(* TrimTS: whatever files are chosen, whichever rows are recalled, saved   *)
(* over and chosen again, the document to be saved has the messages that   *)
(* stay, with the translations recalled last, and the window shows it.     *)
(*                                                                         *)
(* LinkRuleStore: whatever calls are made with whatever arguments, the     *)
(* tables stay tables, a rule key stays unique, a call of SetRuleInfo      *)
(* writes one rule and a query returns what it asks for.                   *)
(***************************************************************************)
EXTENDS BlockingQueue, Serialize, TrimTS, LinkRuleStore, LinkRuleTablesProofs, SequenceTheorems,
        FiniteSetTheorems, TLAPS

-----------------------------------------------------------------------------
(* The queue *)

Elements == Pushers \X Nat

\* A sequence in which every push of every thread comes once, in its order
InOrder(all, n) ==
  /\ {all[i] : i \in DOMAIN all} = UNION { {t} \X (1..n[t]) : t \in Pushers }
  /\ \A i, j \in DOMAIN all : i < j /\ all[i][1] = all[j][1] => all[i][2] < all[j][2]

QueueInv ==
  /\ queue_ \in Seq(Elements) /\ got \in Seq(Elements)
  /\ pushes \in [Pushers -> Nat]
  /\ InOrder(got \o queue_, pushes)

LEMMA TakenIsInOrder == TakenInOrder <=> InOrder(got \o queue_, pushes)
BY DEF TakenInOrder, Passed, Pushed, InOrder

LEMMA InitQueue == QueueInit => QueueInv
<1> SUFFICES ASSUME QueueInit PROVE QueueInv
  OBVIOUS
<1>1. queue_ = << >> /\ got = << >> /\ pushes = [t \in Pushers |-> 0]
  BY DEF QueueInit
<1>2. << >> \in Seq(Elements) /\ << >> \o << >> = << >>
  BY ConcatEmptySeq
<1>3. InOrder(<< >>, pushes)
  BY <1>1 DEF InOrder
<1>4. QED
  BY <1>1, <1>2, <1>3 DEF QueueInv

\* One more push of thread t at the end of what there was
LEMMA OneMore ==
  ASSUME NEW all \in Seq(Elements), NEW n \in [Pushers -> Nat], NEW t \in Pushers, InOrder(all, n)
  PROVE  InOrder(Append(all, << t, n[t] + 1 >>), [n EXCEPT ![t] = @ + 1])
<1> DEFINE x == << t, n[t] + 1 >>
           p == Append(all, x)
           m == [n EXCEPT ![t] = @ + 1]
<1>1. /\ Len(all) \in Nat /\ Len(p) = Len(all) + 1 /\ p[Len(all) + 1] = x
      /\ \A i \in 1..Len(all) : p[i] = all[i]
      /\ DOMAIN all = 1..Len(all) /\ DOMAIN p = 1..Len(all) + 1
  <2>1. x \in Elements
    BY DEF Elements
  <2>2. QED
    BY <2>1, AppendProperties
<1>2. /\ m \in [Pushers -> Nat] /\ m[t] = n[t] + 1 /\ \A s \in Pushers \ {t} : m[s] = n[s]
  OBVIOUS
<1> HIDE DEF p, m
<1>3. {p[i] : i \in DOMAIN p} = {all[i] : i \in DOMAIN all} \union {x}
  <2>1. DOMAIN p = DOMAIN all \union {Len(all) + 1} /\ \A i \in DOMAIN all : p[i] = all[i]
    BY <1>1
  <2>2. p[Len(all) + 1] = x
    BY <1>1
  <2> HIDE DEF x
  <2>3. \A i \in DOMAIN p : p[i] \in {all[j] : j \in DOMAIN all} \union {x}
    BY <2>1, <2>2
  <2>4. \A i \in DOMAIN all : i \in DOMAIN p /\ p[i] = all[i]
    BY <2>1
  <2>5. Len(all) + 1 \in DOMAIN p
    BY <2>1
  <2>6. QED
    BY <2>2, <2>3, <2>4, <2>5
<1>4. UNION { {s} \X (1..m[s]) : s \in Pushers } = (UNION { {s} \X (1..n[s]) : s \in Pushers }) \union {x}
  <2>1. 1..m[t] = (1..n[t]) \union {n[t] + 1}
    BY <1>2
  <2>2. {t} \X (1..m[t]) = ({t} \X (1..n[t])) \union {x}
    BY <2>1
  <2>3. \A s \in Pushers \ {t} : {s} \X (1..m[s]) = {s} \X (1..n[s])
    BY <1>2
  <2>4. QED
    BY <2>2, <2>3
<1>5. \A i \in 1..Len(all) : all[i][1] = t => all[i][2] < n[t] + 1
  <2>1. ASSUME NEW i \in 1..Len(all), all[i][1] = t PROVE all[i][2] < n[t] + 1
    <3>1. all[i] \in UNION { {s} \X (1..n[s]) : s \in Pushers }
      BY <1>1 DEF InOrder
    <3>2. all[i][2] \in 1..n[t]
      BY <2>1, <3>1
    <3>3. QED
      BY <3>2
  <2>2. QED
    BY <2>1
<1>6. ASSUME NEW i \in DOMAIN p, NEW j \in DOMAIN p, i < j, p[i][1] = p[j][1] PROVE p[i][2] < p[j][2]
  <2>1. CASE j = Len(all) + 1
    <3>1. i \in 1..Len(all)
      BY <1>1, <1>6, <2>1
    <3>2. QED
      BY <1>1, <1>5, <1>6, <2>1, <3>1
  <2>2. CASE j # Len(all) + 1
    <3>1. i \in 1..Len(all) /\ j \in 1..Len(all)
      BY <1>1, <1>6, <2>2
    <3>2. QED
      BY <1>1, <1>6, <3>1 DEF InOrder
  <2>3. QED
    BY <2>1, <2>2
<1>7. InOrder(p, m)
  <2>1. {p[i] : i \in DOMAIN p} = UNION { {s} \X (1..m[s]) : s \in Pushers }
    BY <1>3, <1>4 DEF InOrder
  <2>2. QED
    BY <1>6, <2>1 DEF InOrder
<1>8. QED
  BY <1>7 DEF p, m

\* A pop leaves what has passed as it was
LEMMA PopPasses ==
  ASSUME NEW g \in Seq(Elements), NEW q \in Seq(Elements), q # << >>
  PROVE  /\ Append(g, Head(q)) \in Seq(Elements) /\ Tail(q) \in Seq(Elements)
         /\ Append(g, Head(q)) \o Tail(q) = g \o q
<1> DEFINE a == Append(g, Head(q))
           b == Tail(q)
<1>1. /\ Head(q) \in Elements /\ Head(q) = q[1] /\ b \in Seq(Elements) /\ Len(b) = Len(q) - 1
      /\ \A i \in 1..Len(b) : b[i] = q[i + 1]
  BY HeadTailProperties
<1>2. /\ a \in Seq(Elements) /\ Len(a) = Len(g) + 1 /\ a[Len(g) + 1] = q[1]
      /\ \A i \in 1..Len(g) : a[i] = g[i]
  BY <1>1, AppendProperties
<1>3. Len(g) \in Nat /\ Len(q) \in Nat \ {0}
  OBVIOUS
<1> HIDE DEF a, b
<1>4. /\ a \o b \in Seq(Elements) /\ g \o q \in Seq(Elements)
      /\ Len(a \o b) = Len(g) + Len(q) /\ Len(g \o q) = Len(g) + Len(q)
  <2>1. a \o b \in Seq(Elements) /\ Len(a \o b) = Len(a) + Len(b)
    BY <1>1, <1>2, ConcatProperties
  <2>2. g \o q \in Seq(Elements) /\ Len(g \o q) = Len(g) + Len(q)
    BY ConcatProperties
  <2>3. Len(a) + Len(b) = Len(g) + Len(q)
    BY <1>1, <1>2, <1>3
  <2>4. QED
    BY <2>1, <2>2, <2>3
<1>5. ASSUME NEW i \in 1..Len(g) + Len(q) PROVE (a \o b)[i] = (g \o q)[i]
  <2>1. /\ (a \o b)[i] = IF i <= Len(a) THEN a[i] ELSE b[i - Len(a)]
        /\ (g \o q)[i] = IF i <= Len(g) THEN g[i] ELSE q[i - Len(g)]
    <3>1. Len(a) + Len(b) = Len(g) + Len(q)
      BY <1>1, <1>2, <1>3
    <3>2. QED
      BY <1>1, <1>2, <3>1, ConcatProperties
  <2>2. CASE i <= Len(g)
    <3>1. i \in 1..Len(g) /\ i <= Len(a)
      BY <1>2, <1>3, <2>2
    <3>2. QED
      BY <1>2, <2>1, <2>2, <3>1
  <2>3. CASE i = Len(g) + 1
    <3>1. ~(i <= Len(g)) /\ i - Len(g) = 1 /\ i <= Len(a)
      BY <1>2, <1>3, <2>3
    <3>2. QED
      BY <1>2, <2>1, <2>3, <3>1
  <2>4. CASE i > Len(g) + 1
    <3>1. /\ ~(i <= Len(g)) /\ ~(i <= Len(a)) /\ i - Len(a) \in 1..Len(b)
          /\ (i - Len(a)) + 1 = i - Len(g)
      BY <1>1, <1>2, <1>3, <2>4
    <3>2. QED
      BY <1>1, <2>1, <3>1
  <2>5. i <= Len(g) \/ i = Len(g) + 1 \/ i > Len(g) + 1
    BY <1>3
  <2>6. QED
    BY <2>2, <2>3, <2>4, <2>5
<1>6. a \o b = g \o q
  BY <1>4, <1>5, SeqEqual
<1>7. QED
  BY <1>1, <1>2, <1>6 DEF a, b

LEMMA PushKeeps == ASSUME QueueInv, NEW t \in Pushers, Push(t) PROVE QueueInv'
<1> DEFINE x == << t, pushes[t] + 1 >>
<1>1. /\ pushes' = [pushes EXCEPT ![t] = @ + 1] /\ queue_' = Append(queue_, x) /\ got' = got
  BY DEF Push
<1>2. x \in Elements
  BY DEF QueueInv, Elements
<1> HIDE DEF x
<1>3. queue_' \in Seq(Elements) /\ queue_' = queue_ \o << x >> /\ << x >> \in Seq(Elements)
  BY <1>1, <1>2, AppendProperties, AppendIsConcat DEF QueueInv
<1>4. got' \o queue_' = Append(got \o queue_, x)
  <2>1. got \o queue_ \in Seq(Elements)
    BY ConcatProperties DEF QueueInv
  <2>2. Append(got \o queue_, x) = (got \o queue_) \o << x >>
    BY <1>2, <2>1, AppendIsConcat
  <2>3. (got \o queue_) \o << x >> = got \o (queue_ \o << x >>)
    BY <1>3, ConcatAssociative DEF QueueInv
  <2>4. QED
    BY <1>1, <1>3, <2>2, <2>3
<1>5. pushes' \in [Pushers -> Nat]
  BY <1>1 DEF QueueInv
<1>6. InOrder(Append(got \o queue_, x), pushes')
  <2>1. got \o queue_ \in Seq(Elements)
    BY ConcatProperties DEF QueueInv
  <2>2. QED
    BY <1>1, <2>1, OneMore DEF QueueInv, x
<1>7. InOrder(got' \o queue_', pushes')
  BY <1>4, <1>6
<1>8. QED
  BY <1>1, <1>3, <1>5, <1>7 DEF QueueInv, InOrder

LEMMA PopKeeps ==
  ASSUME QueueInv, queue_ # << >>, got' = Append(got, Popped), queue_' = Tail(queue_), UNCHANGED pushes
  PROVE  QueueInv'
<1>1. got' = Append(got, Head(queue_))
  BY DEF Popped
<1>2. /\ got' \in Seq(Elements) /\ queue_' \in Seq(Elements)
      /\ got' \o queue_' = got \o queue_
  BY <1>1, PopPasses DEF QueueInv
<1>3. InOrder(got' \o queue_', pushes')
  BY <1>2 DEF QueueInv
<1>4. QED
  BY <1>2, <1>3 DEF QueueInv, InOrder

LEMMA StepQueue == QueueInv /\ [QueueNext]_qvars => QueueInv'
<1> SUFFICES ASSUME QueueInv, [QueueNext]_qvars PROVE QueueInv'
  OBVIOUS
<1>1. ASSUME NEW t \in Pushers, Push(t) PROVE QueueInv'
  BY <1>1, PushKeeps
<1>2. ASSUME NEW c, Pop(c) \/ TryPop(c) PROVE QueueInv'
  BY <1>2, PopKeeps DEF Pop, TryPop
<1>3. ASSUME UNCHANGED << queue_, got, pushes >> PROVE QueueInv'
  <2>1. queue_' = queue_ /\ got' = got /\ pushes' = pushes
    BY <1>3
  <2>2. InOrder(got' \o queue_', pushes')
    BY <2>1 DEF QueueInv
  <2>3. QED
    BY <2>1, <2>2 DEF QueueInv, InOrder
<1>4. CASE QueueNext
  <2>1. ASSUME NEW t \in Pushers, Notify(t) PROVE QueueInv'
    BY <1>3, <2>1 DEF Notify
  <2>2. ASSUME NEW c, CallPop(c) \/ CallPeek(c) \/ WakeUp(c) \/ Wait(c) \/ Look(c) PROVE QueueInv'
    BY <1>3, <2>2 DEF CallPop, CallPeek, WakeUp, Wait, Look
  <2>3. QED
    BY <1>1, <1>2, <1>4, <2>1, <2>2 DEF QueueNext, InCall
<1>5. CASE UNCHANGED qvars
  BY <1>3, <1>5 DEF qvars
<1>6. QED
  BY <1>4, <1>5

\* However many threads push and pop, and whoever is woken when: every element
\* comes out once and in the order in which its thread pushed it, and no pop
\* returns what the front of an empty queue holds (blocking_queue.cpp:23-58).
THEOREM QueueIsInOrder == QueueSpec => []TakenInOrder
<1>1. QueueInv => TakenInOrder
  BY TakenIsInOrder DEF QueueInv
<1>2. QED
  BY <1>1, InitQueue, StepQueue, PTL DEF QueueSpec

-----------------------------------------------------------------------------
(* The coder *)

LEMMA InitCoder == CoderInit => CoderInv
BY DEF CoderInit, CoderInv, FreedAsPaired, PointersOk, EncodedOk

\* What there is while nothing has gone wrong
LEMMA NothingWrong ==
  ASSUME CoderInv, ~fault
  PROVE  /\ ~skipped /\ PointersOk /\ EncodedOk
         /\ DOMAIN heap = ({m_data} \union owed) \ {NULL} /\ m_data \notin owed
         /\ Deletes(heap, m_data) /\ DOMAIN Without(heap, m_data) = owed
<1>1. /\ ~skipped /\ PointersOk /\ EncodedOk
      /\ DOMAIN heap = ({m_data} \union owed) \ {NULL} /\ m_data \notin owed
  BY DEF CoderInv, FreedAsPaired
<1>2. NULL \notin owed
  BY <1>1, CoderAssumption DEF PointersOk
<1>3. QED
  BY <1>1, <1>2 DEF Deletes, Without

\* After a step that goes wrong all that counts is whose fault it is
LEMMA Wrong == ASSUME fault', skipped' PROVE CoderInv'
BY DEF CoderInv, FreedAsPaired

LEMMA EncodeKeeps ==
  ASSUME CoderInv, ~fault, NEW what \in Contents, NEW num \in Counts, encode(what, num)
  PROVE  CoderInv'
<1> DEFINE size == ToInt(num * 4)
           rest == Without(heap, m_data)
<1>1. /\ alive /\ fault' = ~Deletes(heap, m_data)
      /\ m_size' = size /\ given' = << what, num >>
      /\ UNCHANGED << alive, intelptr, buff, owed, skipped >>
      /\ \/ m_data' = NULL /\ heap' = rest
         \/ \E b \in Blocks \ DOMAIN rest :
               m_data' = b /\ heap' = Put(rest, b, << what, size \div 4 >>)
  BY DEF encode
<1>2. /\ ~fault' /\ ~skipped' /\ DOMAIN rest = owed /\ PointersOk /\ NULL \notin owed
  BY <1>1, NothingWrong, CoderAssumption DEF PointersOk
<1> HIDE DEF size, rest
<1>3. PointersOk'
  BY <1>1, <1>2 DEF PointersOk
<1>4. CASE m_data' = NULL /\ heap' = rest
  BY <1>1, <1>2, <1>3, <1>4 DEF CoderInv, FreedAsPaired, EncodedOk
<1>5. ASSUME NEW b \in Blocks \ DOMAIN rest, m_data' = b, heap' = Put(rest, b, << what, size \div 4 >>)
      PROVE  CoderInv'
  <2>1. b # NULL /\ b \notin owed
    BY <1>2, CoderAssumption
  <2>2. DOMAIN heap' = owed \union {b} /\ heap'[b] = << what, size \div 4 >>
    BY <1>2, <1>5 DEF Put
  <2>3. FreedAsPaired'
    BY <1>1, <1>2, <1>5, <2>1, <2>2 DEF FreedAsPaired
  <2>4. EncodedOk'
    <3>1. << what, num >>[2] = num /\ << what, num >>[1] = what /\ << what, num >> \in Contents \X Counts
      OBVIOUS
    <3>2. m_size' = ToInt(given'[2] * 4)
      BY <1>1, <3>1 DEF size
    <3>3. QED
      BY <1>1, <1>5, <2>1, <2>2, <3>1, <3>2 DEF EncodedOk, ToInt
  <2>5. QED
    BY <1>3, <2>3, <2>4 DEF CoderInv
<1>6. QED
  BY <1>1, <1>4, <1>5

\* What decode finds and what it leaves, when the caller owes nothing
LEMMA DecodeIs ==
  ASSUME CoderInv, ~fault, decode, owed = {}
  PROVE  \E b \in Blocks :
           /\ b # m_data /\ b # NULL /\ buff' = b /\ ~fault' /\ ~skipped' /\ owed' = {b}
           /\ alive /\ m_data # NULL /\ m_size > 0
           /\ DOMAIN heap' = {m_data, b} /\ heap'[m_data] = heap[m_data]
           /\ heap'[b] = << heap[m_data][1], m_size \div 4 >>
           /\ intelptr' = m_data /\ UNCHANGED << alive, m_data, m_size, given >>
<1> DEFINE rest == Without(heap, intelptr)
<1>1. /\ alive /\ m_data # NULL /\ m_size > 0 /\ skipped' = (owed # {})
      /\ fault' = (~Deletes(heap, intelptr) \/ m_data \notin DOMAIN rest)
      /\ \E b \in Blocks \ DOMAIN rest, what \in Contents :
            /\ m_data \in DOMAIN rest => what = rest[m_data][1]
            /\ buff' = b /\ heap' = Put(rest, b, << what, m_size \div 4 >>)
            /\ owed' = owed \union {b}
      /\ intelptr' = m_data /\ UNCHANGED << alive, m_data, m_size, given >>
  BY DEF decode, Decodes
<1>2. DOMAIN heap = {m_data} /\ intelptr = NULL
  BY <1>1, NothingWrong DEF PointersOk
<1>3. DOMAIN rest = {m_data} /\ rest[m_data] = heap[m_data] /\ Deletes(heap, intelptr)
  BY <1>1, <1>2 DEF Without, Deletes
<1> HIDE DEF rest
<1>4. PICK b \in Blocks \ {m_data} :
         buff' = b /\ owed' = {b} /\ heap' = Put(rest, b, << heap[m_data][1], m_size \div 4 >>)
  BY <1>1, <1>3
<1>5. /\ DOMAIN heap' = {m_data, b} /\ heap'[m_data] = heap[m_data]
      /\ heap'[b] = << heap[m_data][1], m_size \div 4 >>
  BY <1>3, <1>4 DEF Put
<1>6. b # NULL
  BY CoderAssumption
<1>7. QED
  BY <1>1, <1>3, <1>4, <1>5, <1>6

\* What intelptr names when the caller owes a block is not its block, and is
\* the buffer of the object or free already
LEMMA SecondPointer ==
  ASSUME CoderInv, ~fault, owed # {}
  PROVE  intelptr # NULL /\ (intelptr = m_data \/ ~Deletes(heap, intelptr))
BY NothingWrong DEF PointersOk, Deletes

LEMMA DecodeKeeps ==
  ASSUME CoderInv, ~fault, decode
  PROVE  CoderInv'
<1>1. CASE owed = {}
  <2>1. PICK b \in Blocks :
          /\ b # m_data /\ b # NULL /\ buff' = b /\ ~fault' /\ ~skipped' /\ owed' = {b}
          /\ alive /\ m_data # NULL
          /\ DOMAIN heap' = {m_data, b} /\ heap'[m_data] = heap[m_data]
          /\ intelptr' = m_data /\ UNCHANGED << alive, m_data, m_size, given >>
    BY <1>1, DecodeIs
  <2>2. FreedAsPaired' /\ PointersOk'
    BY <2>1 DEF FreedAsPaired, PointersOk
  <2>3. EncodedOk'
    BY <2>1, NothingWrong DEF EncodedOk, ToInt
  <2>4. QED
    BY <2>2, <2>3 DEF CoderInv
<1>2. CASE owed # {}
  <2>1. /\ fault' = (~Deletes(heap, intelptr) \/ m_data \notin DOMAIN Without(heap, intelptr))
        /\ skipped'
    BY <1>2 DEF decode
  <2>2. intelptr = m_data => m_data \notin DOMAIN Without(heap, intelptr)
    BY DEF Without
  <2>3. fault'
    BY <1>2, <2>1, <2>2, SecondPointer
  <2>4. QED
    BY <2>1, <2>3, Wrong
<1>3. QED
  BY <1>1, <1>2

LEMMA FreeSpaceKeeps == ASSUME CoderInv, ~fault, NEW b \in owed, freeSpace(b) PROVE CoderInv'
<1>1. /\ alive /\ heap' = Without(heap, b) /\ owed' = owed \ {b} /\ intelptr' = NULL
      /\ UNCHANGED << alive, m_data, m_size, buff, given, skipped, fault >>
  BY DEF freeSpace
<1>2. owed = {b} /\ m_data # b /\ DOMAIN heap = ({m_data} \union owed) \ {NULL} /\ ~skipped
  BY NothingWrong DEF PointersOk
<1>3. /\ DOMAIN heap' = {m_data} \ {NULL} /\ owed' = {}
      /\ m_data # NULL => heap'[m_data] = heap[m_data]
  BY <1>1, <1>2 DEF Without
<1>4. FreedAsPaired' /\ PointersOk'
  BY <1>1, <1>2, <1>3 DEF FreedAsPaired, PointersOk
<1>5. EncodedOk'
  BY <1>1, <1>3, NothingWrong DEF EncodedOk, ToInt
<1>6. QED
  BY <1>4, <1>5 DEF CoderInv

LEMMA DestroyKeeps == ASSUME CoderInv, ~fault, Destroy PROVE CoderInv'
<1> DEFINE rest == Without(heap, m_data)
<1>1. /\ fault' = (~Deletes(heap, m_data) \/ ~Deletes(rest, intelptr))
      /\ heap' = Without(rest, intelptr) /\ m_data' = NULL /\ intelptr' = NULL /\ ~alive'
      /\ skipped' = (owed # {}) /\ UNCHANGED << m_size, buff, owed, given >>
  BY DEF Destroy
<1>2. DOMAIN rest = owed /\ Deletes(heap, m_data) /\ PointersOk
  BY NothingWrong
<1> HIDE DEF rest
<1>3. CASE owed = {}
  <2>1. intelptr = NULL
    BY <1>2, <1>3 DEF PointersOk
  <2>2. ~fault' /\ ~skipped' /\ DOMAIN heap' = {}
    BY <1>1, <1>2, <1>3, <2>1 DEF Without, Deletes
  <2>3. FreedAsPaired' /\ PointersOk' /\ EncodedOk'
    BY <1>1, <1>3, <2>2 DEF FreedAsPaired, PointersOk, EncodedOk
  <2>4. QED
    BY <2>3 DEF CoderInv
<1>4. CASE owed # {}
  <2>1. intelptr # NULL /\ intelptr \notin owed
    BY <1>2, <1>4 DEF PointersOk
  <2>2. ~Deletes(rest, intelptr)
    BY <1>2, <2>1 DEF Deletes
  <2>3. fault' /\ skipped'
    BY <1>1, <1>4, <2>2
  <2>4. QED
    BY <2>3, Wrong
<1>5. QED
  BY <1>3, <1>4

LEMMA StepCoder == CoderInv /\ [CoderNext]_serVars => CoderInv'
<1> SUFFICES ASSUME CoderInv, [CoderNext]_serVars PROVE CoderInv'
  OBVIOUS
<1>1. ASSUME ~fault, SerializeData PROVE CoderInv'
  <2>1. /\ ~alive /\ m_data' = NULL /\ intelptr' = NULL
        /\ UNCHANGED << heap, buff, owed, skipped, fault >>
    BY <1>1 DEF SerializeData
  <2>2. /\ m_data = NULL /\ owed = {} /\ ~skipped /\ PointersOk
        /\ DOMAIN heap = ({m_data} \union owed) \ {NULL}
    BY <1>1, <2>1, NothingWrong DEF PointersOk
  <2>3. QED
    BY <1>1, <2>1, <2>2 DEF CoderInv, FreedAsPaired, PointersOk, EncodedOk
<1>2. ASSUME Forget PROVE CoderInv'
  <2>1. UNCHANGED << heap, alive, m_data, m_size, intelptr, owed, given, skipped, fault >>
    BY <1>2 DEF Forget, coder
  <2>2. QED
    BY <2>1 DEF CoderInv, FreedAsPaired, PointersOk, EncodedOk, ToInt
<1>3. ASSUME UNCHANGED serVars PROVE CoderInv'
  BY <1>3 DEF serVars, coder, CoderInv, FreedAsPaired, PointersOk, EncodedOk, ToInt
<1>4. QED
  BY <1>1, <1>2, <1>3, EncodeKeeps, DecodeKeeps, FreeSpaceKeeps, DestroyKeeps DEF CoderNext

LEMMA CoderHolds == CoderSpec => []CoderInv
BY InitCoder, StepCoder, PTL DEF CoderSpec

\* freeSpace is what keeps m_data and intelptr, which are both deleted, from
\* being one block when they are.  A block is freed twice, or read when it is
\* free, exactly when the caller decodes again or lets the object go without
\* having given back what it decoded, whatever it encodes in between and
\* whichever addresses are given out again; until then none is left behind
\* (serializeTool.cpp:12-25, :35-39, :62-96).
THEOREM BlocksAreFreedOnce == CoderSpec => []FreedAsPaired
<1>1. CoderInv => FreedAsPaired
  BY DEF CoderInv
<1>2. QED
  BY <1>1, CoderHolds, PTL

LEMMA Small == ASSUME NEW n \in Nat \ {0}, NEW a \in 0..n - 1 PROVE a % n = a
OBVIOUS

LEMMA FitsAnInt ==
  ASSUME INT_MAX \in Nat, NEW num \in Nat, num * 4 <= INT_MAX
  PROVE  ToInt(num * 4) \div 4 = num
<1>1. PICK n \in Nat, half \in Nat \ {0} : n = num * 4 /\ half = INT_MAX + 1
  OBVIOUS
<1>2. (n + half) % (2 * half) = n + half
  <2>1. n + half \in 0..(2 * half) - 1 /\ 2 * half \in Nat \ {0}
    BY <1>1
  <2>2. QED
    BY <2>1, Small
<1>3. ToInt(num * 4) = n
  BY <1>1, <1>2 DEF ToInt
<1>4. (num * 4) \div 4 = num
  OBVIOUS
<1>5. QED
  BY <1>1, <1>3, <1>4

LEMMA Divides ==
  ASSUME NEW n \in Nat \ {0}, NEW a \in Nat
  PROVE  \E d \in Nat : a = n * d + (a % n)
<1>1. a = n * (a \div n) + (a % n) /\ a \div n \in Nat
  OBVIOUS
<1>2. QED
  BY <1>1

\* The range of an int is a multiple of the size of a float, so that what is
\* left of a size in bytes is one, too, and no more than the size
LEMMA WrappedCount ==
  ASSUME INT_MAX \in Nat, (INT_MAX + 1) % 4 = 0, NEW num \in Nat, ToInt(num * 4) > 0
  PROVE  ToInt(num * 4) \div 4 \in 1..num
<1>1. PICK k \in Nat \ {0} : INT_MAX + 1 = 4 * k
  <2>1. INT_MAX + 1 \in Nat /\ 4 \in Nat \ {0}
    OBVIOUS
  <2>2. PICK d \in Nat : INT_MAX + 1 = 4 * d + ((INT_MAX + 1) % 4)
    BY <2>1, Divides
  <2>3. INT_MAX + 1 = 4 * d
    BY <2>2
  <2>4. QED
    BY <2>3
<1>2. ToInt(num * 4) = ((num * 4 + 4 * k) % (8 * k)) - 4 * k
  BY <1>1 DEF ToInt
<1>3. PICK d \in Nat : num * 4 + 4 * k = (8 * k) * d + ((num * 4 + 4 * k) % (8 * k))
  <2>1. num * 4 + 4 * k \in Nat /\ 8 * k \in Nat \ {0}
    OBVIOUS
  <2>2. QED
    BY <2>1, Divides
<1>4. PICK e \in Nat : e = k * d
  OBVIOUS
<1>5. (8 * k) * d = 8 * e
  BY <1>4
<1>6. ToInt(num * 4) = 4 * (num - 2 * e)
  BY <1>2, <1>3, <1>5
<1>7. num - 2 * e \in 1..num
  BY <1>6
<1>8. QED
  BY <1>6, <1>7

\* What decode gives the caller is what went into the last encode: nothing
\* else and no more, and all of it when its size in bytes is an int
\* (serializeTool.cpp:41, :68-73).
THEOREM WhatWentInComesOut == CoderSpec => RoundTrip
<1> DEFINE Comes ==
      buff = NULL /\ buff' # NULL /\ ~fault' =>
        /\ heap'[buff'][1] = given[1] /\ heap'[buff'][2] \in 1..given[2]
        /\ given[2] * 4 <= INT_MAX => heap'[buff'] = given
<1>1. ASSUME CoderInv, CoderNext PROVE Comes
  <2>1. SUFFICES ASSUME buff = NULL, buff' # NULL, ~fault'
                 PROVE  /\ heap'[buff'][1] = given[1] /\ heap'[buff'][2] \in 1..given[2]
                        /\ given[2] * 4 <= INT_MAX => heap'[buff'] = given
    OBVIOUS
  <2>2. ~fault /\ decode
    BY <1>1, <2>1 DEF CoderNext, SerializeData, freeSpace, Forget, Destroy, encode
  <2>3. owed = {}
    <3>1. CoderInv'
      BY <1>1, <2>2, DecodeKeeps
    <3>2. ~skipped'
      BY <2>1, <3>1 DEF CoderInv, FreedAsPaired
    <3>3. QED
      BY <2>2, <3>2 DEF decode
  <2>4. heap'[buff'] = << heap[m_data][1], m_size \div 4 >> /\ m_data # NULL /\ m_size > 0
    BY <1>1, <2>2, <2>3, DecodeIs
  <2>5. EncodedOk
    BY <1>1, <2>2, NothingWrong
  <2>6. PICK what \in Contents, num \in Counts : given = << what, num >>
    BY <2>4, <2>5 DEF EncodedOk
  <2>7. heap[m_data][1] = what /\ m_size = ToInt(num * 4) /\ given[1] = what /\ given[2] = num
    BY <2>4, <2>5, <2>6 DEF EncodedOk
  <2>8. heap'[buff'] = << what, m_size \div 4 >>
    BY <2>4, <2>7
  <2>9. m_size \div 4 \in 1..num
    BY <2>4, <2>7, WrappedCount, CoderAssumption
  <2>10. num * 4 <= INT_MAX => m_size \div 4 = num
    BY <2>7, FitsAnInt, CoderAssumption
  <2>11. QED
    BY <2>6, <2>7, <2>8, <2>9, <2>10
<1>2. CoderInv /\ [CoderNext]_serVars => [Comes]_serVars
  BY <1>1
<1> HIDE DEF Comes
<1>3. CoderSpec => [][Comes]_serVars
  BY <1>2, CoderHolds, PTL DEF CoderSpec
<1>4. [][Comes]_serVars => RoundTrip
  BY DEF RoundTrip, Comes
<1>5. QED
  BY <1>3, <1>4

-----------------------------------------------------------------------------
(* The window *)

\* A document has its messages at numbers
LEMMA DocFacts ==
  ASSUME NEW doc, IsDocument(doc)
  PROVE  /\ doc # NoDoc /\ DOMAIN doc \subseteq Nat
         /\ doc = [k \in DOMAIN doc |-> doc[k]] /\ \A k \in DOMAIN doc : doc[k] \in Message
BY TrimAssumption DEF IsDocument, NoDoc

LEMMA DocIs ==
  ASSUME NEW doc, DOMAIN doc \subseteq Positions, doc \in [DOMAIN doc -> Message]
  PROVE  IsDocument(doc)
BY DEF IsDocument

\* What recalling one row does to a document
LEMMA WrittenIs ==
  ASSUME NEW doc, IsDocument(doc), NEW row \in TreeRow
  PROVE  /\ IsDocument(Written(doc, row)) /\ DOMAIN Written(doc, row) = DOMAIN doc
         /\ HasTexts(doc) /\ row[3] # "" => HasTexts(Written(doc, row))
<1> DEFINE new == Written(doc, row)
<1>1. PICK S \in SUBSET Positions : doc \in [S -> Message]
  BY DEF IsDocument
<1>2. new = [k \in S |-> IF Fits(doc[k], row) THEN [doc[k] EXCEPT !.translation = << row[3] >>] ELSE doc[k]]
  BY <1>1 DEF Written
<1>3. row[3] \in Strings /\ << row[3] >> \in Translations /\ << row[3] >>[1] = row[3]
  BY DEF TreeRow, Translations
<1>4. ASSUME NEW m \in Message
      PROVE  /\ [m EXCEPT !.translation = << row[3] >>] \in Message
             /\ [m EXCEPT !.translation = << row[3] >>].translation = << row[3] >>
  BY <1>3 DEF Message
<1>5. new \in [S -> Message]
  BY <1>1, <1>2, <1>4
<1>6. IsDocument(new)
  BY <1>5 DEF IsDocument
<1>7. ASSUME HasTexts(doc), row[3] # "" PROVE HasTexts(new)
  <2>1. ASSUME NEW k \in S PROVE new[k].translation = << >> \/ new[k].translation[1] # ""
    <3>1. doc[k] \in Message /\ (doc[k].translation = << >> \/ doc[k].translation[1] # "")
      BY <1>1, <1>7 DEF HasTexts
    <3>2. CASE Fits(doc[k], row)
      <4>1. new[k].translation = << row[3] >>
        BY <1>2, <1>4, <3>1, <3>2
      <4>2. QED
        BY <1>3, <1>7, <4>1
    <3>3. CASE ~Fits(doc[k], row)
      BY <1>2, <3>1, <3>3
    <3>4. QED
      BY <3>2, <3>3
  <2>2. DOMAIN new = S
    BY <1>2
  <2> HIDE DEF new
  <2>3. QED
    BY <2>1, <2>2 DEF HasTexts
<1>8. QED
  BY <1>1, <1>2, <1>6, <1>7

LEMMA ShownIs ==
  ASSUME NEW rows, rows \in [DOMAIN rows -> TreeRow], NEW row \in TreeRow
  PROVE  /\ Shown(rows, row) \in [DOMAIN rows -> TreeRow]
         /\ \A k \in DOMAIN rows : SameKey(Shown(rows, row)[k], rows[k])
BY DEF Shown, First, SameKey

LEMMA AppendIs ==
  ASSUME NEW s \in Seq(TreeRow), NEW row \in TreeRow
  PROVE  /\ Append(s, row) \in Seq(TreeRow)
         /\ DOMAIN Append(s, row) = DOMAIN s \union {Len(s) + 1} /\ DOMAIN s = 1..Len(s) /\ Len(s) \in Nat
         /\ Append(s, row)[Len(s) + 1] = row
         /\ \A k \in DOMAIN s : Append(s, row)[k] = s[k]
<1>1. /\ Append(s, row) \in Seq(TreeRow) /\ Len(Append(s, row)) = Len(s) + 1 /\ Len(s) \in Nat
      /\ Append(s, row)[Len(s) + 1] = row
      /\ \A k \in 1..Len(s) : Append(s, row)[k] = s[k]
  BY AppendProperties
<1>2. DOMAIN s = 1..Len(s) /\ DOMAIN Append(s, row) = 1..Len(s) + 1
  BY <1>1
<1>3. 1..Len(s) + 1 = 1..Len(s) \union {Len(s) + 1}
  BY <1>1
<1>4. QED
  BY <1>1, <1>2, <1>3

\* The rows of the trees
LEMMA RowIs ==
  ASSUME NEW m \in Message
  PROVE  Row(m) \in TreeRow
<1>1. m.name \in Strings /\ m.source \in Strings /\ m.translation \in Translations
  BY DEF Message
<1>2. Text(m.translation) \in Strings
  <2>1. m.translation = << >> \/ \E t \in Strings : m.translation = << t >> /\ << t >>[1] = t
    BY <1>1 DEF Translations
  <2>2. "" \in Strings
    BY TrimAssumption
  <2>3. QED
    BY <2>1, <2>2 DEF Text
<1>3. QED
  BY <1>1, <1>2 DEF Row, TreeRow

-----------------------------------------------------------------------------
(* A row is recalled *)

LEMMA RowWindow ==
  ASSUME TrimInv, NEW k \in DOMAIN repeat, RecallRow(k)
  PROVE  /\ repeat[k] \in TreeRow
         /\ disk' \in [Urls -> {disk'[u] : u \in Urls}] /\ \A u \in Urls : IsFile(disk'[u])
         /\ url' \in Urls \union {<< >>}
         /\ repeat' = repeat /\ output' \in [DOMAIN output' -> TreeRow]
         /\ recalled' \in Seq(TreeRow)
         /\ DocsOk' /\ NoBlanks'
<1> DEFINE row == repeat[k]
<1>1. /\ output' = Shown(output, row) /\ recalled' = Append(recalled, row)
      /\ output_doc' = IF output_doc = NoDoc THEN NoDoc ELSE Written(output_doc, row)
      /\ UNCHANGED << disk, url, repeat, loaded >>
  BY DEF RecallRow
<1>2. row \in TreeRow
  BY DEF TrimInv, WindowOk
<1> HIDE DEF row
<1>3. output' \in [DOMAIN output' -> TreeRow]
  <2>1. output \in [DOMAIN output -> TreeRow]
    BY DEF TrimInv, WindowOk
  <2>2. Shown(output, row) \in [DOMAIN output -> TreeRow]
    BY <1>2, <2>1, ShownIs
  <2>3. QED
    BY <1>1, <2>2
<1>4. /\ recalled' \in Seq(TreeRow)
      /\ AllTexts' => AllTexts /\ row[3] # ""
  <2>1. recalled \in Seq(TreeRow)
    BY DEF TrimInv, WindowOk
  <2>2. /\ recalled' \in Seq(TreeRow) /\ DOMAIN recalled' = DOMAIN recalled \union {Len(recalled) + 1}
        /\ recalled'[Len(recalled) + 1] = row
        /\ \A n \in DOMAIN recalled : recalled'[n] = recalled[n]
    BY <1>1, <1>2, <2>1, AppendIs
  <2>3. QED
    BY <2>2 DEF AllTexts
<1>5. DocsOk'
  <2>1. CASE loaded = NoDoc
    BY <1>1, <2>1 DEF TrimInv, DocsOk
  <2>2. CASE loaded # NoDoc
    <3>1. IsDocument(output_doc)
      BY <2>2 DEF TrimInv, DocsOk
    <3>2. output_doc' = Written(output_doc, row)
      BY <1>1, <3>1, DocFacts
    <3>3. IsDocument(output_doc')
      BY <1>2, <3>1, <3>2, WrittenIs
    <3>4. QED
      BY <1>1, <2>2, <3>3 DEF TrimInv, DocsOk
  <2>3. QED
    BY <2>1, <2>2
<1>6. NoBlanks'
  <2>1. SUFFICES ASSUME loaded # NoDoc, AllTexts' PROVE HasTexts(output_doc')
    BY <1>1 DEF NoBlanks, HasTexts
  <2>2. IsDocument(output_doc) /\ HasTexts(output_doc)
    BY <1>4, <2>1 DEF TrimInv, DocsOk, NoBlanks
  <2>3. output_doc' = Written(output_doc, row)
    BY <1>1, <2>2, DocFacts
  <2>4. QED
    BY <1>2, <1>4, <2>1, <2>2, <2>3, WrittenIs
<1>7. QED
  BY <1>1, <1>2, <1>3, <1>4, <1>5, <1>6 DEF TrimInv, WindowOk, row

\* Whatever the row: the message gets it, if it fits, and those that were
\* recalled before are the same for all others
LEMMA SavedNext ==
  ASSUME NEW rows \in Seq(TreeRow), NEW row \in TreeRow, NEW m \in Message, NEW now,
         ToSave(m, rows, now)
  PROVE  ToSave(m, Append(rows, row),
                IF Fits(now, row) THEN [now EXCEPT !.translation = << row[3] >>] ELSE now)
<1> DEFINE end == Len(rows) + 1
           more == Append(rows, row)
           next == IF Fits(now, row) THEN [now EXCEPT !.translation = << row[3] >>] ELSE now
<1>1. /\ DOMAIN more = DOMAIN rows \union {end} /\ DOMAIN rows = 1..Len(rows) /\ Len(rows) \in Nat
      /\ more[end] = row /\ \A n \in DOMAIN rows : more[n] = rows[n]
  BY AppendIs
<1> HIDE DEF more, end
<1>2. PICK old : now = IF m.translation = << >> \/ Came(m, rows) = {} THEN m
                       ELSE [m EXCEPT !.translation = << old >>]
  BY DEF ToSave
<1>3. Fits(now, row) <=> m.translation # << >> /\ SameKey(row, Row(m))
  <2>1. /\ now.name = m.name /\ now.source = m.source
        /\ now.translation = << >> <=> m.translation = << >>
    BY <1>2 DEF Message
  <2>2. QED
    BY <2>1 DEF Fits, SameKey, Row
<1>4. CASE ~SameKey(row, Row(m))
  <2>1. Came(m, more) = Came(m, rows)
    BY <1>1, <1>4 DEF Came
  <2>2. next = now /\ \A c \in Came(m, rows) : more[c] = rows[c]
    BY <1>1, <1>3, <1>4 DEF Came
  <2>3. QED
    BY <2>1, <2>2 DEF ToSave, more
<1>5. CASE SameKey(row, Row(m))
  <2>1. Came(m, more) = Came(m, rows) \union {end}
    BY <1>1, <1>5 DEF Came
  <2>2. \A n \in Came(m, more) : n <= end
    BY <1>1, <2>1 DEF Came, end
  <2>3. [[m EXCEPT !.translation = << old >>] EXCEPT !.translation = << row[3] >>]
        = [m EXCEPT !.translation = << row[3] >>]
    BY DEF Message
  <2>4. m.translation # << >> => next = [m EXCEPT !.translation = << row[3] >>]
    BY <1>2, <1>3, <1>5, <2>3
  <2>5. m.translation = << >> => next = m
    BY <1>2, <1>3
  <2> HIDE DEF next
  <2>6. ToSave(m, more, next)
    BY <1>1, <2>1, <2>2, <2>4, <2>5 DEF ToSave
  <2>7. QED
    BY <2>6 DEF more, next
<1>6. QED
  BY <1>4, <1>5

LEMMA RowExact ==
  ASSUME TrimInv, NEW k \in DOMAIN repeat, RecallRow(k)
  PROVE  RecalledExact'
<1> DEFINE row == repeat[k]
           was == Located(loaded, TRUE)
<1>1. /\ recalled' = Append(recalled, row)
      /\ output_doc' = IF output_doc = NoDoc THEN NoDoc ELSE Written(output_doc, row)
      /\ loaded' = loaded
  BY DEF RecallRow
<1>2. row \in TreeRow /\ recalled \in Seq(TreeRow)
  BY DEF TrimInv, WindowOk
<1> HIDE DEF row
<1>3. CASE loaded = NoDoc
  BY <1>1, <1>3 DEF TrimInv, RecalledExact
<1>4. CASE loaded # NoDoc
  <2>1. /\ IsDocument(loaded) /\ IsDocument(output_doc) /\ DOMAIN output_doc = was
        /\ \A j \in was : ToSave(loaded[j], recalled, output_doc[j])
    BY <1>4 DEF TrimInv, RecalledExact, DocsOk, IsFile, NoDoc
  <2>2. output_doc' = [j \in was |-> IF Fits(output_doc[j], row)
                                     THEN [output_doc[j] EXCEPT !.translation = << row[3] >>] ELSE output_doc[j]]
    BY <1>1, <2>1, DocFacts DEF Written
  <2>3. ASSUME NEW j \in was PROVE ToSave(loaded[j], recalled', output_doc'[j])
    <3>1. loaded[j] \in Message
      BY <2>1, DocFacts DEF Located
    <3>2. ToSave(loaded[j], Append(recalled, row),
                 IF Fits(output_doc[j], row)
                 THEN [output_doc[j] EXCEPT !.translation = << row[3] >>] ELSE output_doc[j])
      BY <1>2, <2>1, <3>1, SavedNext
    <3>3. QED
      BY <1>1, <2>2, <3>2
  <2>4. DOMAIN output_doc' = was
    BY <2>2
  <2>5. QED
    BY <1>1, <1>4, <2>3, <2>4 DEF RecalledExact
<1>5. QED
  BY <1>3, <1>4

\* All that is kept of a file has a location, also what a translation came to
LEMMA KeptAreLocated ==
  ASSUME TrimInv, loaded # NoDoc
  PROVE  /\ IsDocument(output_doc) /\ Located(output_doc, TRUE) = DOMAIN output_doc
         /\ \A j \in DOMAIN output_doc : output_doc[j] \in Message
<1>1. /\ IsDocument(loaded) /\ IsDocument(output_doc)
      /\ \A j \in DOMAIN output_doc : j \in Located(loaded, TRUE) /\ ToSave(loaded[j], recalled, output_doc[j])
  BY DEF TrimInv, RecalledExact, DocsOk, IsFile, NoDoc
<1>2. ASSUME NEW j \in DOMAIN output_doc PROVE output_doc[j].located = TRUE
  <2>1. loaded[j] \in Message /\ loaded[j].located = TRUE
    BY <1>1, DocFacts DEF Located
  <2>2. PICK old : output_doc[j] = loaded[j] \/ output_doc[j] = [loaded[j] EXCEPT !.translation = << old >>]
    BY <1>1 DEF ToSave
  <2>3. QED
    BY <2>1, <2>2 DEF Message
<1>3. QED
  BY <1>1, <1>2, DocFacts DEF Located

\* Of rows with keys of their own at most one fits, so the first one in the tree
\* is every one in the document
LEMMA ShownIsWritten ==
  ASSUME NEW doc, IsDocument(doc), HasTexts(doc), Located(doc, TRUE) = DOMAIN doc,
         NEW row \in TreeRow,
         NEW rows, rows = Rows(doc, TRUE),
         \A j, k \in DOMAIN rows : j # k => ~SameKey(rows[j], rows[k])
  PROVE  Shown(rows, row) = Rows(Written(doc, row), TRUE)
<1> DEFINE D == DOMAIN doc
           fit == {k \in DOMAIN rows : SameKey(rows[k], row) /\ rows[k][3] # ""}
           new == Written(doc, row)
<1>1. /\ rows = [k \in D |-> Row(doc[k])] /\ D \subseteq Nat /\ DOMAIN rows = D
      /\ \A k \in D : doc[k] \in Message
  BY DocFacts DEF Rows
<1>2. Shown(rows, row) = [k \in D |-> IF First(k, fit) THEN row ELSE rows[k]]
  BY <1>1 DEF Shown
<1>3. new = [k \in D |-> IF Fits(doc[k], row) THEN [doc[k] EXCEPT !.translation = << row[3] >>] ELSE doc[k]]
  BY DEF Written
<1>4. ASSUME NEW k \in D PROVE Fits(doc[k], row) <=> First(k, fit)
  <2>1. rows[k] = Row(doc[k]) /\ Row(doc[k])[3] = Text(doc[k].translation)
    <3>1. rows[k] = Row(doc[k])
      BY <1>1
    <3>2. Row(doc[k])[3] = Text(doc[k].translation)
      BY DEF Row
    <3>3. QED
      BY <3>1, <3>2
  <2>2. Text(doc[k].translation) # "" <=> doc[k].translation # << >>
    BY DEF HasTexts, Text
  <2>3. Fits(doc[k], row) <=> k \in fit
    <3>1. k \in fit <=> SameKey(Row(doc[k]), row) /\ Text(doc[k].translation) # ""
      BY <1>1, <2>1
    <3>2. QED
      BY <2>2, <3>1 DEF Fits
  <2>4. k \in fit => \A n \in fit : k <= n
    <3>1. ASSUME k \in fit, NEW n \in fit PROVE n = k
      <4>1. SameKey(rows[n], rows[k]) /\ n \in DOMAIN rows /\ k \in DOMAIN rows
        BY <3>1 DEF SameKey
      <4>2. QED
        BY <4>1
    <3>2. k \in Nat
      BY <1>1
    <3> HIDE DEF fit
    <3>3. QED
      BY <3>1, <3>2
  <2> HIDE DEF fit
  <2>5. QED
    BY <2>3, <2>4 DEF First
<1>5. ASSUME NEW k \in D
      PROVE  /\ new[k].located = TRUE
             /\ Row(new[k]) = IF First(k, fit) THEN row ELSE rows[k]
  <2>1. doc[k] \in Message /\ doc[k].located = TRUE
    BY <1>1 DEF Located
  <2>2. CASE Fits(doc[k], row)
    <3>1. new[k] = [doc[k] EXCEPT !.translation = << row[3] >>]
      BY <1>3, <2>2
    <3>2. /\ new[k].located = TRUE /\ new[k].name = row[1] /\ new[k].source = row[2]
          /\ new[k].translation = << row[3] >>
      BY <2>1, <2>2, <3>1 DEF Message, Fits, SameKey, Row
    <3>3. Row(new[k]) = << row[1], row[2], row[3] >>
      BY <3>2 DEF Row, Text
    <3>4. row = << row[1], row[2], row[3] >>
      BY DEF TreeRow
    <3> HIDE DEF fit, new
    <3>5. QED
      BY <1>4, <2>2, <3>2, <3>3, <3>4
  <2>3. CASE ~Fits(doc[k], row)
    <3>1. new[k] = doc[k] /\ rows[k] = Row(doc[k])
      BY <1>1, <1>3, <2>3
    <3> HIDE DEF fit, new
    <3>2. QED
      BY <1>4, <2>1, <2>3, <3>1
  <2>4. QED
    BY <2>2, <2>3
<1>6. DOMAIN new = D
  BY <1>3
<1> HIDE DEF new, fit, D
<1>7. Located(new, TRUE) = D
  BY <1>5, <1>6 DEF Located
<1>8. QED
  BY <1>2, <1>5, <1>7 DEF Rows, new

LEMMA RowShown ==
  ASSUME TrimInv, NEW k \in DOMAIN repeat, RecallRow(k)
  PROVE  ShownIsSaved'
<1> DEFINE row == repeat[k]
<1>1. /\ output' = Shown(output, row) /\ recalled' = Append(recalled, row)
      /\ output_doc' = IF output_doc = NoDoc THEN NoDoc ELSE Written(output_doc, row)
      /\ UNCHANGED << disk, url, repeat, loaded >>
  BY DEF RecallRow
<1>2. row \in TreeRow /\ recalled \in Seq(TreeRow) /\ output \in [DOMAIN output -> TreeRow]
  BY DEF TrimInv, WindowOk
<1> HIDE DEF row
<1>3. SUFFICES ASSUME url # << >>, disk[url] # Unreadable, AllTexts',
                      \A i, j \in DOMAIN output' : i # j => ~SameKey(output'[i], output'[j])
               PROVE  output' = Rows(output_doc', TRUE)
  BY <1>1 DEF ShownIsSaved
<1>4. AllTexts
  <2>1. /\ DOMAIN recalled' = DOMAIN recalled \union {Len(recalled) + 1}
        /\ \A n \in DOMAIN recalled : recalled'[n] = recalled[n]
    BY <1>1, <1>2, AppendIs
  <2>2. QED
    BY <1>3, <2>1 DEF AllTexts
<1>5. \A i, j \in DOMAIN output : i # j => ~SameKey(output[i], output[j])
  <2>1. /\ output' \in [DOMAIN output -> TreeRow]
        /\ \A i \in DOMAIN output : SameKey(output'[i], output[i])
    BY <1>1, <1>2, ShownIs
  <2>2. DOMAIN output' = DOMAIN output
    BY <2>1
  <2>3. QED
    BY <1>3, <2>1, <2>2 DEF SameKey
<1>6. output = Rows(output_doc, TRUE) /\ loaded # NoDoc
  BY <1>3, <1>4, <1>5 DEF TrimInv, ShownIsSaved, DocsOk
<1>7. IsDocument(output_doc) /\ Located(output_doc, TRUE) = DOMAIN output_doc
  BY <1>6, KeptAreLocated
<1>8. HasTexts(output_doc)
  BY <1>4, <1>6 DEF TrimInv, NoBlanks
<1>9. Shown(output, row) = Rows(Written(output_doc, row), TRUE)
  BY <1>2, <1>5, <1>6, <1>7, <1>8, ShownIsWritten
<1>10. QED
  BY <1>1, <1>7, <1>9, DocFacts

-----------------------------------------------------------------------------
(* Every step *)

LEMMA RecallKeeps ==
  ASSUME TrimInv, NEW k \in DOMAIN repeat, RecallRow(k), todo' \subseteq todo
  PROVE  TrimInv'
BY RowWindow, RowExact, RowShown DEF TrimInv, WindowOk

LEMMA UrlFacts ==
  ASSUME NEW u \in Urls
  PROVE  u # << >> /\ u[1] \in FileNames /\ u[2] \in 0..MaxMods
<1>1. u = << u[1], u[2] >> /\ u[1] \in FileNames /\ u[2] \in 0..MaxMods
  BY DEF Urls
<1>2. << u[1], u[2] >> # << >>
  <2>1. Len(<< u[1], u[2] >>) = 2 /\ Len(<< >>) = 0
    OBVIOUS
  <2>2. QED
    BY <2>1
<1>3. QED
  BY <1>1, <1>2

\* Nothing was recalled yet: the document has what stays of the file
LEMMA ChooseKeeps ==
  ASSUME TrimInv, NEW name \in Urls, Choose(name)
  PROVE  TrimInv'
<1> DEFINE doc == disk[name]
<1>1. /\ disk' = disk /\ url' = name /\ todo' = {} /\ name # << >>
      /\ disk \in [Urls -> {disk[u] : u \in Urls}] /\ \A u \in Urls : IsFile(disk[u])
  BY UrlFacts DEF Choose, TrimInv, WindowOk
<1>2. CASE doc = Unreadable
  <2>1. /\ repeat' = << >> /\ output' = << >>
        /\ UNCHANGED << output_doc, loaded, recalled >>
    BY <1>2 DEF Choose
  <2>2. << >> \in [DOMAIN << >> -> TreeRow]
    OBVIOUS
  <2>3. WindowOk'
    BY <1>1, <2>1, <2>2 DEF TrimInv, WindowOk
  <2>4. DocsOk' /\ NoBlanks' /\ RecalledExact' /\ ShownIsSaved'
    BY <1>1, <1>2, <2>1 DEF TrimInv, DocsOk, NoBlanks, AllTexts, RecalledExact, ShownIsSaved
  <2>5. QED
    BY <2>3, <2>4 DEF TrimInv
<1>3. CASE doc # Unreadable
  <2>1. /\ repeat' = Rows(doc, FALSE) /\ output' = Rows(doc, TRUE)
        /\ output_doc' = Trimmed(doc) /\ loaded' = doc /\ recalled' = << >>
    BY <1>3 DEF Choose
  <2>2. IsDocument(doc) /\ HasTexts(doc)
    BY <1>1, <1>3 DEF IsFile
  <2> HIDE DEF doc
  <2>3. /\ doc # NoDoc /\ DOMAIN doc \subseteq Positions
        /\ \A j \in DOMAIN doc : doc[j] \in Message
    BY <2>2, DocFacts DEF IsDocument
  <2>4. ASSUME NEW located \in BOOLEAN PROVE Rows(doc, located) \in [DOMAIN Rows(doc, located) -> TreeRow]
    BY <2>3, RowIs DEF Rows, Located
  <2>5. << >> \in Seq(TreeRow) /\ DOMAIN << >> = {}
    OBVIOUS
  <2>6. WindowOk'
    BY <1>1, <2>1, <2>4, <2>5 DEF WindowOk
  <2>7. /\ Trimmed(doc) = [j \in Located(doc, TRUE) |-> doc[j]]
        /\ Located(doc, TRUE) \subseteq DOMAIN doc
    BY DEF Trimmed, Located
  <2>8. IsDocument(Trimmed(doc)) /\ HasTexts(Trimmed(doc))
    <3>1. Trimmed(doc) \in [Located(doc, TRUE) -> Message]
      BY <2>3, <2>7
    <3>2. IsDocument(Trimmed(doc))
      BY <2>3, <2>7, <3>1 DEF IsDocument
    <3>3. QED
      BY <2>2, <2>7, <3>2 DEF HasTexts
  <2>9. DocsOk' /\ NoBlanks'
    BY <1>1, <2>1, <2>2, <2>3, <2>8 DEF DocsOk, NoBlanks, IsFile
  <2>10. RecalledExact'
    <3>1. ASSUME NEW j \in Located(doc, TRUE) PROVE ToSave(doc[j], << >>, Trimmed(doc)[j])
      BY <2>5, <2>7 DEF ToSave, Came
    <3>2. QED
      BY <2>1, <2>3, <2>7, <3>1 DEF RecalledExact
  <2>11. ShownIsSaved'
    <3>1. Located(Trimmed(doc), TRUE) = Located(doc, TRUE)
      BY <2>7 DEF Located
    <3>2. Rows(Trimmed(doc), TRUE) = Rows(doc, TRUE)
      BY <2>7, <3>1 DEF Rows
    <3>3. QED
      BY <2>1, <3>2 DEF ShownIsSaved
  <2>12. QED
    BY <2>6, <2>9, <2>10, <2>11 DEF TrimInv
<1>4. QED
  BY <1>2, <1>3

\* The new file is not the one that is shown
LEMMA SaveKeeps ==
  ASSUME TrimInv, Save
  PROVE  TrimInv'
<1> DEFINE new == << url[1], url[2] + 1 >>
<1>1. /\ url # << >> /\ disk' = [disk EXCEPT ![new] = AsFile(output_doc)]
      /\ UNCHANGED << url, repeat, output, current, output_doc, todo, loaded, recalled >>
  BY DEF Save
<1>2. /\ url \in Urls /\ url[2] < MaxMods
      /\ disk \in [Urls -> {disk[u] : u \in Urls}] /\ \A u \in Urls : IsFile(disk[u])
  BY <1>1 DEF TrimInv, WindowOk, Save
<1>3. new \in Urls /\ new # url
  <2>1. /\ url[1] \in FileNames /\ url[2] \in 0..MaxMods /\ url[2] + 1 \in 0..MaxMods
    <3>1. MaxMods \in Nat
      BY TrimAssumption
    <3>2. /\ url[1] \in FileNames /\ url[2] \in 0..MaxMods
      BY <1>2, UrlFacts
    <3>3. QED
      BY <1>2, <3>1, <3>2
  <2>2. new[2] # url[2]
    BY <2>1
  <2>3. QED
    BY <2>1, <2>2 DEF Urls
<1>4. IsFile(AsFile(output_doc))
  <2>1. CASE output_doc = NoDoc
    BY <2>1 DEF AsFile, IsFile, NoDoc
  <2>2. CASE output_doc # NoDoc
    <3>1. IsDocument(output_doc)
      BY <2>2 DEF TrimInv, DocsOk
    <3>2. PICK S \in SUBSET Positions : output_doc \in [S -> Message]
      BY <3>1 DEF IsDocument
    <3>3. AsFile(output_doc) =
            [k \in S |-> IF output_doc[k].translation = << "" >> THEN [output_doc[k] EXCEPT !.translation = << >>]
                         ELSE output_doc[k]]
      BY <2>2, <3>2 DEF AsFile
    <3>4. ASSUME NEW m \in Message
          PROVE  /\ [m EXCEPT !.translation = << >>] \in Message
                 /\ [m EXCEPT !.translation = << >>].translation = << >>
      <4>1. << >> \in Translations
        BY DEF Translations
      <4>2. QED
        BY <4>1 DEF Message
    <3>5. AsFile(output_doc) \in [S -> Message]
      BY <3>2, <3>3, <3>4
    <3>6. ASSUME NEW k \in S
          PROVE  AsFile(output_doc)[k].translation = << >> \/ AsFile(output_doc)[k].translation[1] # ""
      <4>1. output_doc[k] \in Message
        BY <3>2
      <4>2. CASE output_doc[k].translation = << "" >>
        BY <3>3, <3>4, <4>1, <4>2
      <4>3. CASE output_doc[k].translation # << "" >>
        <5>1. AsFile(output_doc)[k] = output_doc[k] /\ output_doc[k].translation \in Translations
          BY <3>3, <4>1, <4>3 DEF Message
        <5>2. output_doc[k].translation = << >>
              \/ \E t \in Strings : output_doc[k].translation = << t >> /\ << t >>[1] = t
          BY <5>1 DEF Translations
        <5>3. QED
          BY <4>3, <5>1, <5>2
      <4>4. QED
        BY <4>2, <4>3
    <3>7. QED
      BY <3>5, <3>6 DEF IsFile, IsDocument, HasTexts
  <2>3. QED
    BY <2>1, <2>2
<1> HIDE DEF new
<1>5. /\ disk' \in [Urls -> {disk'[u] : u \in Urls}] /\ \A u \in Urls : IsFile(disk'[u])
      /\ disk'[url] = disk[url]
  BY <1>1, <1>2, <1>3, <1>4
<1>6. WindowOk'
  BY <1>1, <1>5 DEF TrimInv, WindowOk
<1>7. DocsOk' /\ NoBlanks' /\ RecalledExact' /\ ShownIsSaved'
  BY <1>1, <1>5 DEF TrimInv, DocsOk, NoBlanks, AllTexts, RecalledExact, ShownIsSaved
<1>8. QED
  BY <1>6, <1>7 DEF TrimInv

LEMMA TrimInvInit == TrimInit => TrimInv
<1> SUFFICES ASSUME TrimInit PROVE TrimInv
  OBVIOUS
<1>1. /\ disk \in [Urls -> {disk[u] : u \in Urls}] /\ \A u \in Urls : IsFile(disk[u])
  BY TrimAssumption DEF TrimInit
<1>2. << >> \in Seq(TreeRow) /\ << >> \in [DOMAIN << >> -> TreeRow]
  OBVIOUS
<1>3. WindowOk
  BY <1>1, <1>2 DEF TrimInit, WindowOk
<1>4. DocsOk /\ NoBlanks /\ RecalledExact /\ ShownIsSaved
  BY DEF TrimInit, DocsOk, NoBlanks, RecalledExact, ShownIsSaved, IsFile, NoDoc
<1>5. QED
  BY <1>3, <1>4 DEF TrimInv

LEMMA TrimInvNext == TrimInv /\ [TrimNext]_trimVars => TrimInv'
<1> SUFFICES ASSUME TrimInv, [TrimNext]_trimVars PROVE TrimInv'
  OBVIOUS
<1>1. ASSUME UNCHANGED << disk, url, repeat, output, output_doc, loaded, recalled >>, todo' \subseteq DOMAIN repeat
      PROVE  TrimInv'
  BY <1>1 DEF TrimInv, WindowOk, DocsOk, NoBlanks, AllTexts, RecalledExact, ShownIsSaved
<1>2. todo \subseteq DOMAIN repeat
  BY DEF TrimInv, WindowOk
<1>3. ASSUME NEW name \in Urls, Choose(name) PROVE TrimInv'
  BY <1>3, ChooseKeeps
<1>4. ASSUME NEW row \in DOMAIN repeat \union {Other}, Click(row) PROVE TrimInv'
  BY <1>1, <1>2, <1>4 DEF Click
<1>5. CASE Recall
  BY <1>5, RecallKeeps DEF Recall
<1>6. CASE RecallAll
  BY <1>1, <1>6 DEF RecallAll
<1>7. CASE RecallNext
  BY <1>2, <1>7, RecallKeeps DEF RecallNext
<1>8. CASE Save
  BY <1>8, SaveKeeps
<1>9. CASE UNCHANGED trimVars
  BY <1>1, <1>2, <1>9 DEF trimVars
<1>10. QED
  BY <1>3, <1>4, <1>5, <1>6, <1>7, <1>8, <1>9 DEF TrimNext

LEMMA TrimInvariant == TrimSpec => []TrimInv
BY TrimInvInit, TrimInvNext, PTL DEF TrimSpec

\* "The messages without a location go": the document that a trimming window
\* would save has the located messages of its file in their places, each with
\* its own translation or with the last one recalled for it, whatever files are
\* chosen, saved over and chosen again (mainwindow.cpp:270-313, :571-580).
THEOREM TrimmedIsSaved == TrimSpec => []RecalledExact
<1>1. TrimInv => RecalledExact
  BY DEF TrimInv
<1>2. QED
  BY <1>1, TrimInvariant, PTL

\* The right-hand tree shows what would be saved, as long as no message comes
\* twice and no empty text was recalled (mainwindow.cpp:207-223, :283-313).
THEOREM TreeIsSaved == TrimSpec => []ShownIsSaved
<1>1. TrimInv => ShownIsSaved
  BY DEF TrimInv
<1>2. QED
  BY <1>1, TrimInvariant, PTL

-----------------------------------------------------------------------------
(* The tables *)

\* What the two invariants rest on
StoreInv == db \in Tables /\ lastId \in Nat /\ UniqueKeys(db)

LEMMA StoreInit == Init => StoreInv
BY DEF Init, StoreInv, NoTables, Tables, UniqueKeys

\* A statement with a good result keeps the invariant
LEMMA StoreStatement ==
  ASSUME StoreInv, NEW stmt \in StmtResult, UniqueKeys(stmt.tables),
         db' = stmt.tables, lastId' = stmt.lastId
  PROVE  StoreInv'
<1>1. db' \in Tables /\ lastId' \in Nat
  BY DEF StmtResult
<1>2. UniqueKeys(db)'
  BY DEF UniqueKeys
<1>3. QED
  BY <1>1, <1>2 DEF StoreInv

LEMMA LinkCallKeeps == ASSUME StoreInv, LinkCall PROVE StoreInv'
<1> USE StoreAssumption DEF StoreInv
<1>1. PICK p \in LinkArgs :
         \/ AddLinkInfo(p) \/ DelLinkInfo(p) \/ GetLinkInfo(p)
         \/ \E n \in DevIds : SetLinkInfo(n, p) \/ RejectSet(n, p)
  BY DEF LinkCall
<1>2. p \in LinkData
  OBVIOUS
<1>3. CASE AddLinkInfo(p)
  <2>1. UniqueKeys(AddLinkStmt(db, lastId, p).tables)
    BY <1>2, OtherStatementsKeepKeys
  <2>2. QED
    BY <1>2, <1>3, <2>1, AddLinkType, StoreStatement DEF AddLinkInfo, Inserts
<1>4. CASE DelLinkInfo(p)
  <2>1. UniqueKeys(DelLinkStmt(db, lastId, p).tables)
    BY <1>2, OtherStatementsKeepKeys
  <2>2. QED
    BY <1>2, <1>4, <2>1, DelLinkType, StoreStatement DEF DelLinkInfo, Writes
<1>5. CASE GetLinkInfo(p)
  BY <1>5 DEF GetLinkInfo, Reads, UniqueKeys
<1>6. ASSUME NEW n \in DevIds, SetLinkInfo(n, p) PROVE StoreInv'
  <2>1. n \in Int
    OBVIOUS
  <2>2. UniqueKeys(SetLinkStmt(db, lastId, n, p).tables)
    BY <1>2, <2>1, OtherStatementsKeepKeys
  <2>3. QED
    BY <1>2, <1>6, <2>1, <2>2, SetLinkType, StoreStatement DEF SetLinkInfo, Writes
<1>7. ASSUME NEW n \in DevIds, RejectSet(n, p) PROVE StoreInv'
  BY <1>7 DEF RejectSet, UniqueKeys
<1>8. QED
  BY <1>1, <1>3, <1>4, <1>5, <1>6, <1>7

LEMMA RuleCallKeeps == ASSUME StoreInv, RuleCall PROVE StoreInv'
<1> USE StoreAssumption DEF StoreInv
<1>1. PICK p \in RuleArgs :
         \/ AddRuleInfo(p) \/ DelRuleInfo(p) \/ GetRuleInfo(p)
         \/ \E n \in DevIds : SetRuleInfo(n, p) \/ RejectSet(n, p)
  BY DEF RuleCall
<1>2. p \in LinkData
  OBVIOUS
<1>3. CASE AddRuleInfo(p)
  <2>1. UniqueKeys(AddRuleStmt(db, lastId, p).tables)
    BY <1>2, OtherStatementsKeepKeys
  <2>2. QED
    BY <1>2, <1>3, <2>1, AddRuleType, StoreStatement DEF AddRuleInfo, Inserts
<1>4. CASE DelRuleInfo(p)
  BY <1>2, <1>4, DelRuleKeepsKeys, DelRuleType, StoreStatement DEF DelRuleInfo, Writes
<1>5. CASE GetRuleInfo(p)
  BY <1>5 DEF GetRuleInfo, Reads, UniqueKeys
<1>6. ASSUME NEW n \in DevIds, SetRuleInfo(n, p) PROVE StoreInv'
  <2>1. n \in Int
    OBVIOUS
  <2>2. QED
    BY <1>2, <1>6, <2>1, SetRuleKeepsKeys, SetRuleType, StoreStatement DEF SetRuleInfo, Writes
<1>7. ASSUME NEW n \in DevIds, RejectSet(n, p) PROVE StoreInv'
  BY <1>7 DEF RejectSet, UniqueKeys
<1>8. QED
  BY <1>1, <1>3, <1>4, <1>5, <1>6, <1>7

LEMMA TableCallKeeps == ASSUME StoreInv, CreateTable \/ DropTable PROVE StoreInv'
<1> USE DEF StoreInv
<1>1. CASE CreateTable
  <2>1. UniqueKeys(CreateTableStmt(db, lastId).tables)
    BY DEF CreateTableStmt, Done, Failed, UniqueKeys, Tables
  <2>2. QED
    BY <1>1, <2>1, CreateTableType, StoreStatement DEF CreateTable, Writes
<1>2. CASE DropTable
  <2>1. UniqueKeys(DropLinksStmt(db, lastId).tables) /\ UniqueKeys(DropRulesStmt(db, lastId).tables)
    BY DEF DropLinksStmt, DropRulesStmt, Done, Failed, UniqueKeys, Tables
  <2>2. QED
    BY <1>2, <2>1, DropTableType, StoreStatement DEF DropTable, Writes
<1>3. QED
  BY <1>1, <1>2

LEMMA StoreStep == StoreInv /\ [Next]_vars => StoreInv'
<1> SUFFICES ASSUME StoreInv, [Next]_vars PROVE StoreInv'
  OBVIOUS
<1>1. CASE Next
  BY <1>1, LinkCallKeeps, RuleCallKeeps, TableCallKeeps DEF Next
<1>2. CASE UNCHANGED vars
  BY <1>2 DEF vars, StoreInv, UniqueKeys
<1>3. QED
  BY <1>1, <1>2

\* A channel never has two rules of the same types, after any sequence of
\* calls: SetRuleInfo looks before it inserts and AddRuleInfo stores nothing.
THEOREM RuleKeysAreUnique == Spec => []RuleKeysUnique
<1>1. StoreInv => RuleKeysUnique
  BY DEF StoreInv, UniqueKeys, RuleKeysUnique
<1>2. QED
  BY <1>1, StoreInit, StoreStep, PTL DEF Spec

-----------------------------------------------------------------------------
(* What one call does *)

\* A call of SetRuleInfo and no other says so
LEMMA CalledSetRule ==
  ASSUME Next, Called("SetRuleInfo")
  PROVE  \E p \in RuleArgs, n \in DevIds :
           /\ last'.n = n /\ last'.p = p /\ db' = SetRuleStmt(db, lastId, n, p).tables
<1>1. ~CreateTable /\ ~DropTable
  BY DEF Called, CreateTable, DropTable, Writes
<1>2. ~LinkCall
  BY DEF Called, LinkCall, AddLinkInfo, DelLinkInfo, GetLinkInfo, SetLinkInfo, RejectSet, Writes, Inserts, Reads
<1>3. PICK p \in RuleArgs :
         \/ AddRuleInfo(p) \/ DelRuleInfo(p) \/ GetRuleInfo(p)
         \/ \E n \in DevIds : SetRuleInfo(n, p) \/ RejectSet(n, p)
  BY <1>1, <1>2 DEF Next, RuleCall
<1>4. PICK n \in DevIds : SetRuleInfo(n, p)
  BY <1>3 DEF Called, AddRuleInfo, DelRuleInfo, GetRuleInfo, RejectSet, Writes, Inserts, Reads
<1>5. last'.n = n /\ last'.p = p /\ db' = SetRuleStmt(db, lastId, n, p).tables
  BY <1>4 DEF SetRuleInfo, Writes
<1>6. QED
  BY <1>5

\* SetRuleInfo updates the rule of the key or inserts one, and leaves every
\* other rule as it was, whatever the tables and the arguments
\* (DBManage.cpp:993-1040).
THEOREM SetRuleUpdatesOne == Spec => SetRuleIsUpsert
<1> DEFINE Upsert ==
      Called("SetRuleInfo") /\ db.hasRules =>
        LET key == << last'.n, last'.p.nAnaMainType, last'.p.nAnaSubType >>
        IN  /\ \E r \in db'.rules : RuleKey(r) = key /\ r.line1 = last'.p.szLine
            /\ {r \in db'.rules : RuleKey(r) # key} = {r \in db.rules : RuleKey(r) # key}
<1>1. ASSUME StoreInv, Next PROVE Upsert
  <2>1. SUFFICES ASSUME Called("SetRuleInfo"), db.hasRules
                 PROVE  LET key == << last'.n, last'.p.nAnaMainType, last'.p.nAnaSubType >>
                        IN  /\ \E r \in db'.rules : RuleKey(r) = key /\ r.line1 = last'.p.szLine
                            /\ {r \in db'.rules : RuleKey(r) # key} = {r \in db.rules : RuleKey(r) # key}
    OBVIOUS
  <2>2. PICK p \in RuleArgs, n \in DevIds :
           last'.n = n /\ last'.p = p /\ db' = SetRuleStmt(db, lastId, n, p).tables
    BY <1>1, <2>1, CalledSetRule
  <2>3. n \in Int /\ p \in LinkData /\ db \in Tables
    BY <1>1, StoreAssumption DEF StoreInv
  <2>4. PICK after : after = SetRuleStmt(db, lastId, n, p).tables
    OBVIOUS
  <2>5. /\ \E r \in after.rules : RuleKey(r) = << n, p.nAnaMainType, p.nAnaSubType >> /\ r.line1 = p.szLine
        /\ {r \in after.rules : RuleKey(r) # << n, p.nAnaMainType, p.nAnaSubType >>}
           = {r \in db.rules : RuleKey(r) # << n, p.nAnaMainType, p.nAnaSubType >>}
    BY <1>1, <2>1, <2>3, <2>4, SetRuleUpserts DEF StoreInv
  <2>6. QED
    BY <2>2, <2>4, <2>5
<1>2. StoreInv /\ [Next]_vars => [Upsert]_vars
  BY <1>1
<1> HIDE DEF Upsert
<1>3. Spec => [][Upsert]_vars
  BY <1>2, StoreInit, StoreStep, PTL DEF Spec
<1>4. [][Upsert]_vars => SetRuleIsUpsert
  BY DEF SetRuleIsUpsert, Upsert
<1>5. QED
  BY <1>3, <1>4

\* Whose step is a step that ends with the name of a query or of a deletion
LEMMA CalledByName ==
  ASSUME Next
  PROVE  /\ Called("GetLinkInfo") => \E p \in LinkArgs : GetLinkInfo(p)
         /\ Called("DelLinkInfo") => \E p \in LinkArgs : DelLinkInfo(p)
         /\ Called("GetRuleInfo") => \E p \in RuleArgs : GetRuleInfo(p)
         /\ Called("DelRuleInfo") => \E p \in RuleArgs : DelRuleInfo(p)
<1>1. CASE CreateTable \/ DropTable
  BY <1>1 DEF Called, CreateTable, DropTable, Writes
<1>2. CASE LinkCall
  BY <1>2 DEF Called, LinkCall, AddLinkInfo, DelLinkInfo, GetLinkInfo, SetLinkInfo, RejectSet,
              Writes, Inserts, Reads
<1>3. CASE RuleCall
  BY <1>3 DEF Called, RuleCall, AddRuleInfo, DelRuleInfo, GetRuleInfo, SetRuleInfo, RejectSet,
              Writes, Inserts, Reads
<1>4. QED
  BY <1>1, <1>2, <1>3 DEF Next

\* Whatever rows there are and whichever fields of the argument are given, a
\* query returns the rows that meet each of them: the chaining of conditions
\* with bMulti loses none and always yields a statement (DBManage.cpp:652-671,
\* 867-916).
THEOREM QueriesAreExact == Spec => QueryExact
<1> DEFINE asked(p) == IF p.id > 0 \/ p.nAnaChannel > 0 THEN p.nAnaMainType ELSE p.nAnaSubType
           LinkRows(p) == {r \in db.links : Agrees(p.id, r.id) /\ Agrees(p.nAnaChannel, r.anachannel)}
           RuleRows(p) == {r \in db.rules :
                             /\ Agrees(p.id, r.id)
                             /\ Agrees(p.nAnaChannel, r.anachannel)
                             /\ p.nAnaMainType > 0 => r.anamaintype = asked(p)
                             /\ Agrees(p.nAnaSubType, r.anasubtype)}
           Exact == /\ Called("GetLinkInfo") => last'.rows = LinkRows(last'.p)
                    /\ Called("GetRuleInfo") => last'.rows = RuleRows(last'.p)
<1>1. ASSUME Next PROVE Exact
  <2>1. ASSUME Called("GetLinkInfo") PROVE last'.rows = LinkRows(last'.p)
    <3>1. PICK p \in LinkArgs : GetLinkInfo(p)
      BY <1>1, <2>1, CalledByName
    <3>2. p \in LinkData
      BY StoreAssumption
    <3>3. last'.p = p /\ last'.rows = GetLinkRows(db, p)
      BY <3>1 DEF GetLinkInfo, Reads
    <3>4. GetLinkRows(db, p) = LinkRows(p)
      BY <3>2, LinkQuerySelects DEF Agrees
    <3>5. QED
      BY <3>3, <3>4
  <2>2. ASSUME Called("GetRuleInfo") PROVE last'.rows = RuleRows(last'.p)
    <3>1. PICK p \in RuleArgs : GetRuleInfo(p)
      BY <1>1, <2>2, CalledByName
    <3>2. p \in LinkData
      BY StoreAssumption
    <3>3. last'.p = p /\ last'.rows = GetRuleRows(db, p)
      BY <3>1 DEF GetRuleInfo, Reads
    <3>4. GetRuleRows(db, p) = RuleRows(p)
      BY <3>2, RuleQuerySelects DEF Agrees
    <3>5. QED
      BY <3>3, <3>4
  <2>3. QED
    BY <2>1, <2>2
<1>2. [Next]_vars => [Exact]_vars
  BY <1>1
<1> HIDE DEF Exact
<1>3. Spec => [][Exact]_vars
  BY <1>2, PTL DEF Spec
<1>4. [][Exact]_vars => QueryExact
  BY DEF QueryExact, Exact
<1>5. QED
  BY <1>3, <1>4

\* Whatever rows there are and whichever fields of the argument are given, a
\* deletion takes the rows that meet each condition it writes and no other
\* (DBManage.cpp:362-379, 1061-1091).
THEOREM DeletesAreExact == Spec => DeleteExact
<1> DEFINE typed(p) == p.nAnaMainType > 0 /\ p.nAnaSubType > 0
           Links(p) == {r \in db.links : \A field \in {p.id, p.nAnaChannel} : Agrees(field, r.anachannel)}
           Rules(p) == {r \in db.rules :
                          /\ Agrees(p.id, r.id)
                          /\ Agrees(p.nAnaChannel, r.anachannel)
                          /\ typed(p) => r.anamaintype = p.nAnaMainType /\ r.anasubtype = p.nAnaSubType}
           Exact == /\ Called("DelLinkInfo") /\ db.hasLinks =>
                         {r \in db.links : r \notin db'.links} = Links(last'.p)
                    /\ Called("DelRuleInfo") /\ db.hasRules =>
                         {r \in db.rules : r \notin db'.rules} = Rules(last'.p)
                    /\ Called("DelLinkInfo") \/ Called("DelRuleInfo") =>
                         db'.links \subseteq db.links /\ db'.rules \subseteq db.rules
<1>1. ASSUME StoreInv, Next PROVE Exact
  <2>0. db \in Tables
    BY <1>1 DEF StoreInv
  <2>1. ASSUME Called("DelLinkInfo")
        PROVE  /\ db.hasLinks => {r \in db.links : r \notin db'.links} = Links(last'.p)
               /\ db'.links \subseteq db.links /\ db'.rules \subseteq db.rules
    <3>1. PICK p \in LinkArgs : DelLinkInfo(p)
      BY <1>1, <2>1, CalledByName
    <3>2. p \in LinkData
      BY StoreAssumption
    <3>3. last'.p = p /\ db' = DelLinkStmt(db, lastId, p).tables
      BY <3>1 DEF DelLinkInfo, Writes
    <3>4. Compiles(DelLinkQuery(p)) /\ Selected(db.links, DelLinkQuery(p)) = Links(p)
      BY <3>2, DelLinkSelects DEF Agrees
    <3> HIDE DEF Links
    <3>5. Links(p) \subseteq db.links
      BY DEF Links
    <3>6. db'.rules = db.rules /\ db'.links = IF db.hasLinks THEN db.links \ Links(p) ELSE db.links
      BY <2>0, <3>3, <3>4 DEF DelLinkStmt, Done, Failed, Tables
    <3>7. QED
      BY <3>3, <3>5, <3>6
  <2>2. ASSUME Called("DelRuleInfo")
        PROVE  /\ db.hasRules => {r \in db.rules : r \notin db'.rules} = Rules(last'.p)
               /\ db'.links \subseteq db.links /\ db'.rules \subseteq db.rules
    <3>1. PICK p \in RuleArgs : DelRuleInfo(p)
      BY <1>1, <2>2, CalledByName
    <3>2. p \in LinkData
      BY StoreAssumption
    <3>3. last'.p = p /\ db' = DelRuleStmt(db, lastId, p).tables
      BY <3>1 DEF DelRuleInfo, Writes
    <3>4. Compiles(DelRuleQuery(p)) /\ Selected(db.rules, DelRuleQuery(p)) = Rules(p)
      BY <3>2, DelRuleSelects DEF Agrees
    <3> HIDE DEF Rules
    <3>5. Rules(p) \subseteq db.rules
      BY DEF Rules
    <3>6. db'.links = db.links /\ db'.rules = IF db.hasRules THEN db.rules \ Rules(p) ELSE db.rules
      BY <2>0, <3>3, <3>4 DEF DelRuleStmt, Done, Failed, Tables
    <3>7. QED
      BY <3>3, <3>5, <3>6
  <2>3. QED
    BY <2>1, <2>2
<1>2. StoreInv /\ [Next]_vars => [Exact]_vars
  BY <1>1
<1> HIDE DEF Exact
<1>3. Spec => [][Exact]_vars
  BY <1>2, StoreInit, StoreStep, PTL DEF Spec
<1>4. [][Exact]_vars => DeleteExact
  BY DEF DeleteExact, Exact
<1>5. QED
  BY <1>3, <1>4
=============================================================================
