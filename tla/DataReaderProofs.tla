-------------------------- MODULE DataReaderProofs --------------------------
(***************************************************************************)
(* For any readers, bodies, number of solvers, size of the queue pairs and *)
(* number of records: DataReader is well typed, no Datum is lost or        *)
(* doubled, the registry is exact, and the records are dealt in turn.      *)
(***************************************************************************)
EXTENDS DataReader, TLAPS

\* Some thread is filling a datum of r
Fills(r) == \E b \in Bodies : body[b].pc = "fill" /\ Served(b) = r

\* InHand as a function
Hand == [r \in Readers |-> InHand(r)]

LEMMA HandIs ==
  \A r \in Readers :
     /\ InHand(r) = Hand[r] /\ InHand(r)' = Hand'[r]
     /\ Hand[r] = (IF state[r] = "hold" THEN 1 ELSE 0) + (IF Fills(r) THEN 1 ELSE 0)
     /\ Hand'[r] = (IF state'[r] = "hold" THEN 1 ELSE 0) + (IF Fills(r)' THEN 1 ELSE 0)
BY DEF Hand, InHand, Fills

LEMMA HandType == Hand \in [Readers -> 0..2] /\ Hand' \in [Readers -> 0..2]
<1>1. \A r \in Readers : Hand[r] \in 0..2 /\ Hand'[r] \in 0..2
  BY HandIs
<1>2. QED
  BY <1>1 DEF Hand

\* Who holds what depends on the readers' states and on who is being filled for
LEMMA HandFrame ==
  ASSUME UNCHANGED state, \A r : Fills(r)' <=> Fills(r)
  PROVE  Hand' = Hand
<1>1. \A r \in Readers : Hand'[r] = Hand[r]
  BY HandIs
<1>2. QED
  BY <1>1, HandType

\* The Datum objects of each queue pair are as many as before
SameSum ==
  \A r \in Readers : /\ free_'[r] + Len(full_'[r]) + Hand'[r] = free_[r] + Len(full_[r]) + Hand[r]
                     /\ state'[r] # "none" => state[r] # "none"

LEMMA SameSumKeeps ==
  ASSUME NoneDoubled, DataGoRound, SameSum
  PROVE  NoneDoubled' /\ DataGoRound'
<1>1. NoneDoubled'
  BY HandIs DEF NoneDoubled, SameSum
<1>2. DataGoRound'
  BY HandIs DEF DataGoRound, SameSum
<1>3. QED
  BY <1>1, <1>2

LEMMA NothingMoves ==
  ASSUME NoneDoubled, DataGoRound, UNCHANGED << free_, full_, state >>, Hand' = Hand
  PROVE  NoneDoubled' /\ DataGoRound'
BY SameSumKeeps DEF SameSum

\* A datum goes from a full queue to a hand or back
LEMMA HandedOver ==
  ASSUME NoneDoubled, DataGoRound, UNCHANGED free_, free_ \in [Readers -> 0..Capacity],
         full_ \in [Readers -> Seq(0..Records - 1)], full_' \in [Readers -> Seq(0..Records - 1)],
         \A q \in Readers : Len(full_'[q]) + Hand'[q] = Len(full_[q]) + Hand[q],
         \A q \in Readers : state'[q] # "none" => state[q] # "none"
  PROVE  NoneDoubled' /\ DataGoRound'
<1>1. ASSUME NEW q \in Readers
      PROVE  free_'[q] + Len(full_'[q]) + Hand'[q] = free_[q] + Len(full_[q]) + Hand[q]
  <2>1. free_[q] \in Int /\ free_'[q] = free_[q]
    BY DataReaderAssumption
  <2>2. PICK f \in Int : free_[q] = f /\ free_'[q] = f
    BY <2>1
  <2>3. Len(full_[q]) \in Int /\ Len(full_'[q]) \in Int
    OBVIOUS
  <2>4. PICK n \in Int, m \in Int : Len(full_'[q]) = n /\ Len(full_[q]) = m
    BY <2>3
  <2>5. Hand[q] \in Int /\ Hand'[q] \in Int
    BY HandType
  <2>6. PICK h \in Int, i \in Int : Hand'[q] = h /\ Hand[q] = i
    BY <2>5
  <2>7. n + h = m + i
    BY <2>4, <2>6
  <2>8. QED
    BY <2>2, <2>4, <2>6, <2>7
<1>2. SameSum
  BY <1>1 DEF SameSum
<1>3. QED
  BY <1>2, SameSumKeeps

-----------------------------------------------------------------------------
(* Sequences *)

LEMMA ElementsOfAppend ==
  ASSUME NEW S, NEW q \in Seq(S), NEW x \in S
  PROVE  Append(q, x) \in Seq(S) /\ Len(Append(q, x)) = Len(q) + 1
         /\ Elements(Append(q, x)) = Elements(q) \union {x}
<1>1. Append(q, x) \in Seq(S) /\ Len(Append(q, x)) = Len(q) + 1
  OBVIOUS
<1>2. DOMAIN Append(q, x) = DOMAIN q \union {Len(q) + 1}
  OBVIOUS
<1>3. \A i \in DOMAIN q : Append(q, x)[i] = q[i]
  OBVIOUS
<1>4. Append(q, x)[Len(q) + 1] = x
  OBVIOUS
<1>5. QED
  BY <1>1, <1>2, <1>3, <1>4 DEF Elements

LEMMA ElementsOfTail ==
  ASSUME NEW S, NEW q \in Seq(S), q # << >>
  PROVE  Head(q) \in S /\ Tail(q) \in Seq(S) /\ Len(Tail(q)) = Len(q) - 1
         /\ Head(q) \in Elements(q) /\ Elements(Tail(q)) \subseteq Elements(q)
<1>1. Head(q) \in S /\ Tail(q) \in Seq(S) /\ Len(Tail(q)) = Len(q) - 1 /\ Len(q) \in Nat \ {0}
  OBVIOUS
<1>2. Head(q) \in Elements(q)
  BY <1>1 DEF Elements
<1>3. ASSUME NEW i \in DOMAIN Tail(q) PROVE Tail(q)[i] \in Elements(q)
  <2>1. i + 1 \in DOMAIN q /\ Tail(q)[i] = q[i + 1]
    BY <1>1
  <2>2. QED
    BY <2>1 DEF Elements
<1>4. QED
  BY <1>1, <1>2, <1>3 DEF Elements

LEMMA EmptyElements == Elements(<< >>) = {}
BY DEF Elements

-----------------------------------------------------------------------------
(* The thread of a body *)

\* A thread serves one of the queue pairs it accepted
LEMMA ServedIsKnown ==
  ASSUME TypeOK, RoundInv, NEW b \in Bodies, body[b].pc \in {"take", "fill"}
  PROVE  Served(b) \in Known(b) /\ Served(b) \in Readers
<1>1. body[b].qps \in Seq(Readers) /\ body[b].turn \in Nat
  BY DataReaderAssumption DEF TypeOK, Thread
<1>2. body[b].turn > 0 /\ body[b].turn <= Len(body[b].qps)
  BY DEF RoundInv, RoundOk
<1>3. body[b].turn \in DOMAIN body[b].qps
  BY <1>1, <1>2
<1>4. QED
  BY <1>1, <1>3 DEF Served, Known, Elements

\* A thread that is not filling before and after changes nobody's datum
LEMMA FillsFrame ==
  ASSUME NEW b \in Bodies, NEW t, body \in [Bodies -> Thread],
         body' = [body EXCEPT ![b] = t], body[b].pc # "fill", t.pc # "fill"
  PROVE  \A r : Fills(r)' <=> Fills(r)
<1>1. \A c \in Bodies : (body'[c].pc = "fill") <=> (body[c].pc = "fill")
  OBVIOUS
<1>2. \A c \in Bodies : body[c].pc = "fill" => body'[c] = body[c]
  OBVIOUS
<1>3. QED
  BY <1>1, <1>2 DEF Fills, Served

\* Two threads never fill for the same reader
LEMMA OneFills ==
  ASSUME TypeOK, RoundInv, KnownApart, NEW b \in Bodies, NEW c \in Bodies, b # c,
         body[b].pc \in {"take", "fill"}, body[c].pc = "fill"
  PROVE  Served(b) # Served(c)
BY ServedIsKnown DEF KnownApart

-----------------------------------------------------------------------------
LEMMA InitInv == Init => IInv
<1> SUFFICES ASSUME Init PROVE IInv
  OBVIOUS
<1>1. TypeOK
  BY DataReaderAssumption DEF Init, TypeOK, Thread, NoThread
<1>2. RoundInv
  BY DataReaderAssumption DEF Init, RoundInv, RoundOk, NoThread
<1>3. KnownApart
  BY EmptyElements DEF Init, KnownApart, Known, NoThread
<1>4. \A r \in Readers : InHand(r) = 0 /\ Len(full_[r]) = 0
  BY DEF Init, InHand, NoThread
<1>5. NoneDoubled /\ DataGoRound
  BY <1>4, DataReaderAssumption DEF Init, NoneDoubled, DataGoRound
<1>6. KeptInv
  BY DEF Init, KeptInv, Alive
<1>7. QED
  BY <1>1, <1>2, <1>3, <1>5, <1>6 DEF IInv

-----------------------------------------------------------------------------
(* The steps of a thread *)

\* One thread moves on, with the queue pairs it knew: what is left to show is
\* that it stays in its rounds
LEMMA ThreadMoves ==
  ASSUME IInv, NEW b \in Bodies, NEW t \in Thread, body' = [body EXCEPT ![b] = t],
         RoundOk(t), Elements(t.qps) \union Elements(t.new) \subseteq Known(b),
         body[b].pc # "none", UNCHANGED << state, body_, bodies_ >>
  PROVE  RoundInv' /\ KnownApart' /\ KeptInv' /\ body' \in [Bodies -> Thread]
<1>1. body \in [Bodies -> Thread]
  BY DEF IInv, TypeOK
<1>2. body' \in [Bodies -> Thread] /\ body'[b] = t /\ \A c \in Bodies \ {b} : body'[c] = body[c]
  BY <1>1
<1>3. RoundInv'
  <2>1. \A c \in Bodies : RoundOk(body'[c])
    BY <1>2 DEF IInv, RoundInv
  <2>2. QED
    BY <2>1 DEF RoundInv, RoundOk
<1>4. KnownApart'
  <2>1. \A c \in Bodies : Known(c)' \subseteq Known(c)
    BY <1>2 DEF Known, Elements
  <2>2. QED
    BY <2>1 DEF IInv, KnownApart
<1>5. KeptInv'
  <2>1. body[b] # NoThread
    BY DEF NoThread
  <2>2. QED
    BY <1>2, <2>1 DEF IInv, KeptInv
<1>6. QED
  BY <1>2, <1>3, <1>4, <1>5

LEMMA AcceptInv == ASSUME IInv, NEW b \in Bodies, Accept(b) PROVE IInv'
<1> DEFINE old == body[b]
           t == [old EXCEPT !.qps = Append(@, Head(old.new)), !.new = Tail(@),
                            !.turn = @ + 1, !.pc = "take"]
<1>1. old \in Thread /\ body \in [Bodies -> Thread] /\ RoundOk(old) /\ old.pc = "accept" /\ old.new # << >>
  BY DEF IInv, TypeOK, RoundInv, Accept
<1>2. /\ Head(old.new) \in Readers /\ Tail(old.new) \in Seq(Readers)
      /\ Len(Tail(old.new)) = Len(old.new) - 1
      /\ Head(old.new) \in Elements(old.new) /\ Elements(Tail(old.new)) \subseteq Elements(old.new)
  BY <1>1, ElementsOfTail DEF Thread
<1>3. /\ t.qps \in Seq(Readers) /\ Len(t.qps) = Len(old.qps) + 1
      /\ Elements(t.qps) = Elements(old.qps) \union {Head(old.new)}
  BY <1>1, <1>2, ElementsOfAppend DEF Thread
<1>4. t.turn = Len(t.qps) /\ t.turn \in 0..solver_count /\ Len(t.qps) + Len(t.new) <= solver_count
  BY <1>1, <1>2, <1>3, DataReaderAssumption DEF Thread, RoundOk
<1>5. t \in Thread
  BY <1>1, <1>2, <1>3, <1>4 DEF Thread
<1>6. RoundOk(t)
  BY <1>1, <1>3, <1>4, DataReaderAssumption DEF RoundOk, Thread
<1>7. body' = [body EXCEPT ![b] = t]
  BY <1>1 DEF Accept, Thread
<1>8. RoundInv' /\ KnownApart' /\ KeptInv' /\ body' \in [Bodies -> Thread]
  <2>1. Elements(t.qps) \union Elements(t.new) \subseteq Known(b)
    BY <1>1, <1>2, <1>3 DEF Known, Thread
  <2>2. QED
    BY <1>1, <1>5, <1>6, <1>7, <2>1, ThreadMoves DEF Accept
<1>9. Hand' = Hand
  <2>1. old.pc # "fill" /\ t.pc # "fill"
    BY <1>1
  <2>2. QED
    BY <1>1, <1>7, <2>1, FillsFrame, HandFrame DEF Accept
<1>10. NoneDoubled' /\ DataGoRound'
  BY <1>9, NothingMoves DEF Accept, IInv
<1>11. QED
  BY <1>8, <1>10 DEF Accept, IInv, TypeOK

LEMMA TakeInv == ASSUME IInv, NEW b \in Bodies, Take(b) PROVE IInv'
<1> DEFINE old == body[b]
           t == [old EXCEPT !.pc = "fill"]
<1>1. old \in Thread /\ body \in [Bodies -> Thread] /\ RoundOk(old) /\ old.pc = "take"
  BY DEF IInv, TypeOK, RoundInv, Take
<1>2. t \in Thread
  BY <1>1 DEF Thread
<1>3. RoundOk(t)
  BY <1>1 DEF RoundOk, Thread
<1>4. body' = [body EXCEPT ![b] = t]
  BY <1>1 DEF Take, Thread
<1>5. RoundInv' /\ KnownApart' /\ KeptInv' /\ body' \in [Bodies -> Thread]
  <2>1. Elements(t.qps) \union Elements(t.new) \subseteq Known(b)
    BY <1>1 DEF Known, Thread
  <2>2. QED
    BY <1>1, <1>2, <1>3, <1>4, <2>1, ThreadMoves DEF Take
<1>6. PICK me \in Readers : me = Served(b)
  BY <1>1, ServedIsKnown DEF IInv
<1>7. ~Fills(me) /\ Fills(me)' /\ \A r : r # me => (Fills(r)' <=> Fills(r))
  <2>1. body'[b].pc = "fill" /\ Served(b)' = me /\ old.pc # "fill"
    BY <1>1, <1>4, <1>6 DEF Served, Thread
  <2>2. \A c \in Bodies \ {b} : body'[c] = body[c] /\ Served(c)' = Served(c)
    BY <1>1, <1>4 DEF Served
  <2>3. \A c \in Bodies \ {b} : body[c].pc = "fill" => Served(c) # me
    BY <1>1, <1>6, OneFills DEF IInv
  <2>4. QED
    BY <2>1, <2>2, <2>3 DEF Fills
<1>8. Hand'[me] = Hand[me] + 1 /\ \A r \in Readers : r # me => Hand'[r] = Hand[r]
  BY <1>7, HandIs DEF Take
<1>9. /\ free_' = [free_ EXCEPT ![me] = @ - 1] /\ free_[me] > 0
      /\ UNCHANGED << full_, state >>
  BY <1>6 DEF Take
<1>10. free_ \in [Readers -> 0..Capacity] /\ \A r \in Readers : Len(full_[r]) \in Nat
  BY DEF IInv, TypeOK
<1>11. free_' \in [Readers -> 0..Capacity]
  BY <1>9, <1>10, DataReaderAssumption
<1>12. TypeOK'
  BY <1>5, <1>11 DEF Take, IInv, TypeOK
<1>13. SameSum
  BY <1>8, <1>9, <1>10, HandType DEF SameSum
<1>14. QED
  BY <1>5, <1>12, <1>13, SameSumKeeps DEF IInv

\* A round that is not over has accepted fewer queue pairs than there are solvers
LEMMA RoundEnds ==
  ASSUME NEW turn \in Nat, NEW taken \in Nat, NEW new \in Nat,
         turn <= taken, taken + new <= solver_count
  PROVE  /\ taken # solver_count => taken < solver_count
         /\ turn = solver_count => taken = solver_count
BY DataReaderAssumption

\* Where Fill leaves the thread
LEMMA FillMoves ==
  ASSUME IInv, NEW b \in Bodies, Fill(b)
  PROVE  \E t \in Thread :
           /\ body' = [body EXCEPT ![b] = t] /\ t.pc # "fill" /\ RoundOk(t)
           /\ Elements(t.qps) \union Elements(t.new) \subseteq Known(b)
<1> DEFINE old == body[b]
           next == AfterRecord(old)
           at == (old.at + 1) % Records
           turn == IF next = "take" THEN old.turn + 1 ELSE old.turn
           t == [old EXCEPT !.pc = next, !.at = at, !.turn = turn]
<1>1. old \in Thread /\ body \in [Bodies -> Thread] /\ RoundOk(old) /\ old.pc = "fill"
  BY DEF IInv, TypeOK, RoundInv, Fill
<1>2. body' = [body EXCEPT ![b] = t]
  BY <1>1 DEF Fill, Thread
<1>3. /\ next = "loop" => old.turn = solver_count
      /\ next = "take" => old.turn # solver_count /\ Len(old.qps) = solver_count
      /\ next = "accept" => old.turn # solver_count /\ Len(old.qps) # solver_count
      /\ next \in {"loop", "take", "accept"}
  BY DEF AfterRecord
<1>4. at \in 0..Records - 1
  BY <1>1, DataReaderAssumption DEF Thread
<1>5. /\ old.turn \in 0..solver_count /\ Len(old.qps) \in Nat /\ Len(old.new) \in Nat
      /\ old.turn <= Len(old.qps) /\ Len(old.qps) + Len(old.new) <= solver_count
      /\ Len(old.qps) < solver_count => old.turn = Len(old.qps)
  BY <1>1 DEF Thread, RoundOk
<1>6. turn \in 0..solver_count /\ turn <= Len(old.qps) /\ (next = "take" => turn > 0)
      /\ (Len(old.qps) < solver_count => turn = Len(old.qps))
  BY <1>3, <1>5, DataReaderAssumption
<1>7. t.qps = old.qps /\ t.new = old.new /\ t.turn = turn /\ t.pc = next
  BY <1>1 DEF Thread
<1>8. t \in Thread
  BY <1>1, <1>3, <1>4, <1>6 DEF Thread
<1>9. RoundOk(t)
  <2>1. old.turn \in Nat
    BY <1>5, DataReaderAssumption
  <2>2. /\ Len(old.qps) # solver_count => Len(old.qps) < solver_count
        /\ old.turn = solver_count => Len(old.qps) = solver_count
    BY <1>5, <2>1, RoundEnds
  <2>3. next # "fill"
    BY <1>3
  <2>4. QED
    BY <1>3, <1>5, <1>6, <1>7, <2>1, <2>2, <2>3 DEF RoundOk
<1>10. t.pc # "fill"
  BY <1>3, <1>7
<1>11. Elements(t.qps) \union Elements(t.new) \subseteq Known(b)
  BY <1>7 DEF Known
<1>12. QED
  BY <1>2, <1>8, <1>9, <1>10, <1>11

LEMMA FillInv == ASSUME IInv, NEW b \in Bodies, Fill(b) PROVE IInv'
<1> DEFINE old == body[b]
<1>1. PICK t \in Thread :
        /\ body' = [body EXCEPT ![b] = t] /\ t.pc # "fill" /\ RoundOk(t)
        /\ Elements(t.qps) \union Elements(t.new) \subseteq Known(b)
  BY FillMoves
<1>2. old \in Thread /\ body \in [Bodies -> Thread] /\ old.pc = "fill" /\ old.at \in 0..Records - 1
  BY DEF IInv, TypeOK, Fill, Thread
<1>3. RoundInv' /\ KnownApart' /\ KeptInv' /\ body' \in [Bodies -> Thread]
  BY <1>1, <1>2, ThreadMoves DEF Fill
<1>4. PICK me \in Readers : me = Served(b)
  BY <1>2, ServedIsKnown DEF IInv
<1>5. Fills(me) /\ ~Fills(me)' /\ \A r : r # me => (Fills(r)' <=> Fills(r))
  <2>1. body'[b].pc # "fill" /\ old.pc = "fill"
    BY <1>1, <1>2
  <2>2. \A c \in Bodies \ {b} : body'[c] = body[c] /\ Served(c)' = Served(c)
    BY <1>1, <1>2 DEF Served
  <2>3. \A c \in Bodies \ {b} : body[c].pc = "fill" => Served(c) # me
    BY <1>2, <1>4, OneFills DEF IInv
  <2>4. QED
    BY <1>4, <2>1, <2>2, <2>3 DEF Fills
<1>6. Hand[me] = Hand'[me] + 1 /\ \A r \in Readers : r # me => Hand'[r] = Hand[r]
  BY <1>5, HandIs DEF Fill
<1>7. full_' = [full_ EXCEPT ![me] = Append(@, old.at)] /\ UNCHANGED << free_, state >>
  BY <1>4 DEF Fill
<1>8. full_ \in [Readers -> Seq(0..Records - 1)] /\ free_ \in [Readers -> Nat]
  BY DataReaderAssumption DEF IInv, TypeOK
<1>9. full_' \in [Readers -> Seq(0..Records - 1)] /\ Len(full_'[me]) = Len(full_[me]) + 1
      /\ \A r \in Readers : Len(full_[r]) \in Nat /\ (r # me => full_'[r] = full_[r])
  BY <1>2, <1>7, <1>8
<1>10. TypeOK'
  BY <1>3, <1>9 DEF Fill, IInv, TypeOK
<1>11. ASSUME NEW q \in Readers PROVE Len(full_'[q]) + Hand'[q] = Len(full_[q]) + Hand[q]
  <2>1. CASE q = me
    BY <1>6, <1>9, <2>1, HandType
  <2>2. CASE q # me
    BY <1>6, <1>9, <2>2
  <2>3. QED
    BY <2>1, <2>2
<1>12. NoneDoubled' /\ DataGoRound'
  BY <1>7, <1>8, <1>9, <1>11, HandedOver DEF IInv, TypeOK
<1>13. QED
  BY <1>3, <1>10, <1>12 DEF IInv

LEMMA LoopInv == ASSUME IInv, NEW b \in Bodies, Loop(b) PROVE IInv'
<1> DEFINE old == body[b]
           next == IF old.stop THEN "ended" ELSE "take"
           t == [old EXCEPT !.turn = 1, !.pc = next]
<1>1. old \in Thread /\ body \in [Bodies -> Thread] /\ RoundOk(old) /\ old.pc = "loop"
  BY DEF IInv, TypeOK, RoundInv, Loop
<1>2. t \in Thread
  <2>1. 1 \in 0..solver_count
    BY DataReaderAssumption
  <2>2. next = "ended" \/ next = "take"
    OBVIOUS
  <2>3. QED
    BY <1>1, <2>1, <2>2 DEF Thread
<1>3. RoundOk(t)
  <2>1. Len(old.qps) = solver_count /\ Len(old.qps) + Len(old.new) <= solver_count
    BY <1>1 DEF RoundOk
  <2>2. t.turn = 1 /\ t.qps = old.qps /\ t.new = old.new /\ t.pc # "accept" /\ t.pc # "loop"
    BY <1>1 DEF Thread
  <2>3. 1 <= solver_count /\ ~(solver_count < solver_count)
    BY DataReaderAssumption
  <2>4. 1 > 0
    OBVIOUS
  <2>5. QED
    BY <2>1, <2>2, <2>3, <2>4 DEF RoundOk
<1>4. body' = [body EXCEPT ![b] = t]
  BY <1>1 DEF Loop, Thread
<1>5. RoundInv' /\ KnownApart' /\ KeptInv' /\ body' \in [Bodies -> Thread]
  <2>1. Elements(t.qps) \union Elements(t.new) \subseteq Known(b)
    BY <1>1 DEF Known, Thread
  <2>2. QED
    BY <1>1, <1>2, <1>3, <1>4, <2>1, ThreadMoves DEF Loop
<1>6. Hand' = Hand
  <2>1. old.pc # "fill" /\ t.pc # "fill"
    BY <1>1 DEF Thread
  <2>2. QED
    BY <1>1, <1>4, <2>1, FillsFrame, HandFrame DEF Loop
<1>7. NoneDoubled' /\ DataGoRound'
  BY <1>6, NothingMoves DEF Loop, IInv
<1>8. QED
  BY <1>5, <1>7 DEF Loop, IInv, TypeOK

LEMMA InterruptedInv == ASSUME IInv, NEW b \in Bodies, Interrupted(b) PROVE IInv'
<1> DEFINE old == body[b]
           t == [old EXCEPT !.pc = "ended"]
<1>1. /\ old \in Thread /\ body \in [Bodies -> Thread] /\ RoundOk(old)
      /\ old.pc = "accept" \/ old.pc = "take"
  BY DEF IInv, TypeOK, RoundInv, Interrupted
<1>2. t \in Thread
  BY <1>1 DEF Thread
<1>3. RoundOk(t)
  BY <1>1 DEF RoundOk, Thread
<1>4. body' = [body EXCEPT ![b] = t]
  BY <1>1 DEF Interrupted, Thread
<1>5. RoundInv' /\ KnownApart' /\ KeptInv' /\ body' \in [Bodies -> Thread]
  <2>1. Elements(t.qps) \union Elements(t.new) \subseteq Known(b)
    BY <1>1 DEF Known, Thread
  <2>2. QED
    BY <1>1, <1>2, <1>3, <1>4, <2>1, ThreadMoves DEF Interrupted
<1>6. Hand' = Hand
  <2>1. old.pc # "fill" /\ t.pc # "fill"
    BY <1>1 DEF Thread
  <2>2. QED
    BY <1>1, <1>4, <2>1, FillsFrame, HandFrame DEF Interrupted
<1>7. NoneDoubled' /\ DataGoRound'
  BY <1>6, NothingMoves DEF Interrupted, IInv
<1>8. QED
  BY <1>5, <1>7 DEF Interrupted, IInv, TypeOK

-----------------------------------------------------------------------------
(* The steps of a reader *)

\* A step that leaves every thread where it is, with the queue pairs it has
SameThreads ==
  \A c \in Bodies : body'[c].pc = body[c].pc /\ body'[c].qps = body[c].qps
                    /\ body'[c].turn = body[c].turn

LEMMA SameFills == ASSUME SameThreads PROVE \A r : Fills(r)' <=> Fills(r)
BY DEF SameThreads, Fills, Served

LEMMA BodiesKept ==
  ASSUME IInv, UNCHANGED body
  PROVE  RoundInv' /\ KnownApart' /\ (\A r : Fills(r)' <=> Fills(r)) /\ body' \in [Bodies -> Thread]
<1>1. RoundInv'
  BY DEF IInv, RoundInv, RoundOk
<1>2. KnownApart'
  <2>1. \A c \in Bodies : Known(c)' = Known(c)
    BY DEF Known, Elements
  <2>2. QED
    BY <2>1 DEF IInv, KnownApart
<1>3. body' \in [Bodies -> Thread]
  BY DEF IInv, TypeOK
<1>4. QED
  BY <1>1, <1>2, <1>3, SameFills DEF SameThreads

LEMMA SetUpInv == ASSUME IInv, NEW r \in Readers, SetUp(r) PROVE IInv'
<1>1. RoundInv' /\ KnownApart' /\ (\A q : Fills(q)' <=> Fills(q)) /\ body' \in [Bodies -> Thread]
  BY BodiesKept DEF SetUp
<1>2. state' \in [Readers -> Alive \union {"none", "join", "erase"}] /\ state'[r] = "use" /\ state[r] = "setup"
      /\ \A q \in Readers \ {r} : state'[q] = state[q]
  BY DEF SetUp, IInv, TypeOK, Alive
<1>3. \A q \in Readers : Hand'[q] = Hand[q]
  BY <1>1, <1>2, HandIs
<1>4. NoneDoubled' /\ DataGoRound'
  BY <1>2, <1>3, SameSumKeeps DEF SetUp, SameSum, IInv
<1>5. KeptInv'
  BY <1>2 DEF SetUp, IInv, KeptInv, Alive
<1>6. QED
  BY <1>1, <1>2, <1>4, <1>5 DEF SetUp, IInv, TypeOK

LEMMA GetInv == ASSUME IInv, NEW r \in Readers, Get(r) PROVE IInv'
<1>1. RoundInv' /\ KnownApart' /\ (\A q : Fills(q)' <=> Fills(q)) /\ body' \in [Bodies -> Thread]
  BY BodiesKept DEF Get
<1>2. state' \in [Readers -> Alive \union {"none", "join", "erase"}] /\ state'[r] = "hold" /\ state[r] = "use"
      /\ \A q \in Readers \ {r} : state'[q] = state[q]
  BY DEF Get, IInv, TypeOK, Alive
<1>3. Hand'[r] = Hand[r] + 1 /\ \A q \in Readers \ {r} : Hand'[q] = Hand[q]
  BY <1>1, <1>2, HandIs
<1>4. full_ \in [Readers -> Seq(0..Records - 1)] /\ free_ \in [Readers -> 0..Capacity]
  BY DEF IInv, TypeOK
<1>5. /\ full_' \in [Readers -> Seq(0..Records - 1)] /\ Len(full_'[r]) = Len(full_[r]) - 1
      /\ \A q \in Readers \ {r} : full_'[q] = full_[q]
      /\ \A q \in Readers : Len(full_[q]) \in Nat /\ Len(full_'[q]) \in Nat
  BY <1>4 DEF Get
<1>6. ASSUME NEW q \in Readers PROVE Len(full_'[q]) + Hand'[q] = Len(full_[q]) + Hand[q]
  <2>1. CASE q = r
    <3>1. PICK n \in Int, h \in Int : Len(full_[r]) = n /\ Hand[r] = h
      BY <1>5, HandType
    <3>2. Len(full_'[r]) = n - 1 /\ Hand'[r] = h + 1
      BY <1>3, <1>5, <3>1
    <3>3. QED
      BY <2>1, <3>1, <3>2
  <2>2. CASE q # r
    BY <1>3, <1>5, <2>2
  <2>3. QED
    BY <2>1, <2>2
<1>7. NoneDoubled' /\ DataGoRound'
  BY <1>2, <1>4, <1>5, <1>6, HandedOver DEF Get, IInv
<1>8. KeptInv'
  BY <1>2 DEF Get, IInv, KeptInv, Alive
<1>9. TypeOK'
  BY <1>1, <1>2, <1>5 DEF Get, IInv, TypeOK
<1>10. QED
  BY <1>1, <1>7, <1>8, <1>9 DEF IInv

LEMMA GiveBackInv == ASSUME IInv, NEW r \in Readers, GiveBack(r) PROVE IInv'
<1>1. RoundInv' /\ KnownApart' /\ (\A q : Fills(q)' <=> Fills(q)) /\ body' \in [Bodies -> Thread]
  BY BodiesKept DEF GiveBack
<1>2. state' \in [Readers -> Alive \union {"none", "join", "erase"}] /\ state'[r] = "use" /\ state[r] = "hold"
      /\ \A q \in Readers \ {r} : state'[q] = state[q]
  BY DEF GiveBack, IInv, TypeOK, Alive
<1>3. Hand[r] = Hand'[r] + 1 /\ \A q \in Readers \ {r} : Hand'[q] = Hand[q]
  BY <1>1, <1>2, HandIs
<1>4. free_' = [free_ EXCEPT ![r] = @ + 1] /\ UNCHANGED full_
  BY DEF GiveBack
<1>5. free_ \in [Readers -> 0..Capacity] /\ \A q \in Readers : Len(full_[q]) \in Nat
  BY DEF IInv, TypeOK
<1>6. free_[r] + 1 <= Capacity
  <2>1. free_[r] + Len(full_[r]) + Hand[r] <= Capacity
    BY HandIs DEF IInv, NoneDoubled
  <2>2. Hand[r] >= 1
    BY <1>3, HandType
  <2>3. QED
    BY <1>5, <2>1, <2>2, HandType, DataReaderAssumption
<1>7. free_' \in [Readers -> 0..Capacity]
  BY <1>4, <1>5, <1>6, DataReaderAssumption
<1>8. TypeOK'
  BY <1>1, <1>2, <1>7 DEF GiveBack, IInv, TypeOK
<1>9. SameSum
  <2>1. \A q \in Readers : state'[q] # "none" => state[q] # "none"
    BY <1>2
  <2>2. ASSUME NEW q \in Readers
        PROVE  free_'[q] + Len(full_'[q]) + Hand'[q] = free_[q] + Len(full_[q]) + Hand[q]
    <3>1. PICK n \in Nat : Len(full_[q]) = n
      BY <1>5
    <3>2. Len(full_'[q]) = n
      BY <1>4, <3>1
    <3>3. free_'[q] + Hand'[q] = free_[q] + Hand[q]
      <4>1. CASE q = r
        BY <1>3, <1>4, <1>5, <4>1, HandType, DataReaderAssumption
      <4>2. CASE q # r
        BY <1>3, <1>4, <1>5, <4>2
      <4>3. QED
        BY <4>1, <4>2
    <3>4. free_[q] \in Int /\ free_'[q] \in Int /\ Hand[q] \in Int /\ Hand'[q] \in Int
      BY <1>5, <1>7, HandType, DataReaderAssumption
    <3>5. PICK f \in Int, g \in Int, h \in Int, i \in Int :
            free_[q] = f /\ free_'[q] = g /\ Hand[q] = h /\ Hand'[q] = i
      BY <3>4
    <3>6. g + i = f + h
      BY <3>3, <3>5
    <3>7. g + n + i = f + n + h
      BY <3>6
    <3>8. QED
      BY <3>1, <3>2, <3>5, <3>7
  <2>3. QED
    BY <2>1, <2>2 DEF SameSum
<1>10. KeptInv'
  BY <1>2 DEF GiveBack, IInv, KeptInv, Alive
<1>11. QED
  BY <1>1, <1>8, <1>9, <1>10, SameSumKeeps DEF IInv

\* A reader that goes holds nothing before and after
LEMMA LetGo ==
  ASSUME IInv, NEW r \in Readers, UNCHANGED << free_, full_ >>, \A q : Fills(q)' <=> Fills(q),
         \A q \in Readers \ {r} : state'[q] = state[q],
         state[r] \in {"use", "join", "erase"}, state'[r] \in {"join", "erase", "none"}
  PROVE  NoneDoubled' /\ DataGoRound'
<1>1. state[r] # "hold" /\ state'[r] # "hold" /\ state[r] # "none"
  OBVIOUS
<1>2. \A q \in Readers : Hand'[q] = Hand[q]
  BY <1>1, HandIs
<1>3. SameSum
  BY <1>1, <1>2 DEF SameSum
<1>4. QED
  BY <1>3, SameSumKeeps DEF IInv

LEMMA ResetInv == ASSUME IInv, NEW r \in Readers, Reset(r) PROVE IInv'
<1> DEFINE last == Sharing(body_[r]) = {r}
           b == body_[r]
<1>1. /\ state \in [Readers -> Alive \union {"none", "join", "erase"}] /\ state[r] = "use"
      /\ body \in [Bodies -> Thread] /\ body_ \in [Readers -> Bodies \union {NoBody}] /\ b \in Bodies
  BY DEF Reset, IInv, TypeOK, KeptInv, Alive
<1>2. /\ state' = [state EXCEPT ![r] = IF last THEN "join" ELSE "erase"]
      /\ UNCHANGED << body_, free_, full_, bodies_ >>
      /\ body' = IF last THEN [body EXCEPT ![b].stop = TRUE] ELSE body
  BY DEF Reset
<1>3. \A c \in Bodies : /\ body'[c].pc = body[c].pc /\ body'[c].qps = body[c].qps
                        /\ body'[c].new = body[c].new /\ body'[c].turn = body[c].turn
  BY <1>1, <1>2 DEF Thread
<1>4. body' \in [Bodies -> Thread]
  BY <1>1, <1>2 DEF Thread
<1>5. state' \in [Readers -> Alive \union {"none", "join", "erase"}]
      /\ state'[r] = (IF last THEN "join" ELSE "erase")
      /\ \A q \in Readers \ {r} : state'[q] = state[q]
  BY <1>1, <1>2
<1>6. TypeOK'
  BY <1>2, <1>4, <1>5 DEF IInv, TypeOK
<1>7. RoundInv'
  BY <1>3 DEF IInv, RoundInv, RoundOk
<1>8. KnownApart'
  <2>1. \A c \in Bodies : Known(c)' = Known(c)
    BY <1>3 DEF Known, Elements
  <2>2. QED
    BY <2>1 DEF IInv, KnownApart
<1>9. NoneDoubled' /\ DataGoRound'
  <2>1. \A q : Fills(q)' <=> Fills(q)
    BY <1>3, SameFills DEF SameThreads
  <2>2. QED
    BY <1>1, <1>2, <1>5, <2>1, LetGo
<1>10. KeptInv'
  <2>1. ASSUME NEW c \in Bodies, body'[c] # NoThread
        PROVE  \E q \in Readers : state'[q] \in Alive \union {"join"} /\ body_'[q] = c
    <3>1. CASE c # b
      <4>1. body[c] # NoThread
        BY <1>1, <1>2, <2>1, <3>1
      <4>2. PICK q \in Readers : state[q] \in Alive \union {"join"} /\ body_[q] = c
        BY <4>1 DEF IInv, KeptInv
      <4>3. QED
        BY <1>2, <1>5, <3>1, <4>2
    <3>2. CASE c = b /\ last
      BY <1>2, <1>5, <3>2
    <3>3. CASE c = b /\ ~last
      <4>1. PICK q \in Readers \ {r} : state[q] \in Alive /\ body_[q] = b
        BY <1>1, <3>3 DEF Sharing, Alive
      <4>2. QED
        BY <1>2, <1>5, <3>3, <4>1
    <3>4. QED
      BY <3>1, <3>2, <3>3
  <2>2. \A q \in Readers : state'[q] \in Alive => state[q] \in Alive
    BY <1>1, <1>5 DEF Alive
  <2>3. \A q \in Readers : state'[q] \in Alive \union {"join"} => state[q] \in Alive \union {"join"}
    BY <1>1, <1>5 DEF Alive
  <2>4. state'[r] # "none"
    BY <1>5
  <2>5. QED
    BY <1>2, <2>1, <2>2, <2>3, <2>4 DEF IInv, KeptInv
<1>11. QED
  BY <1>6, <1>7, <1>8, <1>9, <1>10 DEF IInv

LEMMA JoinInv == ASSUME IInv, NEW r \in Readers, Join(r) PROVE IInv'
<1> DEFINE b == body_[r]
<1>1. /\ state \in [Readers -> Alive \union {"none", "join", "erase"}] /\ state[r] = "join"
      /\ body \in [Bodies -> Thread] /\ b \in Bodies /\ body[b].pc = "ended"
  BY DEF Join, IInv, TypeOK, KeptInv
<1>2. /\ state' = [state EXCEPT ![r] = "erase"] /\ UNCHANGED << body_, free_, full_, bodies_ >>
      /\ body' = [body EXCEPT ![b] = NoThread]
  BY DEF Join
<1>3. state' \in [Readers -> Alive \union {"none", "join", "erase"}] /\ state'[r] = "erase"
      /\ \A q \in Readers \ {r} : state'[q] = state[q]
  BY <1>1, <1>2
<1>4. NoThread \in Thread /\ RoundOk(NoThread) /\ NoThread.pc = "none"
  BY DataReaderAssumption DEF NoThread, Thread, RoundOk
<1>5. body' \in [Bodies -> Thread] /\ body'[b] = NoThread
      /\ \A c \in Bodies \ {b} : body'[c] = body[c]
  BY <1>1, <1>2, <1>4
<1>6. TypeOK'
  BY <1>2, <1>3, <1>5 DEF IInv, TypeOK
<1>7. RoundInv'
  <2>1. \A c \in Bodies : RoundOk(body'[c])
    BY <1>4, <1>5 DEF IInv, RoundInv
  <2>2. QED
    BY <2>1 DEF RoundInv, RoundOk
<1>8. KnownApart'
  <2>1. Elements(NoThread.qps) = {} /\ Elements(NoThread.new) = {}
    BY EmptyElements DEF NoThread
  <2>2. \A c \in Bodies : Known(c)' \subseteq Known(c)
    BY <1>5, <2>1 DEF Known, Elements
  <2>3. QED
    BY <2>2 DEF IInv, KnownApart
<1>9. NoneDoubled' /\ DataGoRound'
  <2>1. body[b].pc # "fill" /\ NoThread.pc # "fill"
    BY <1>1, <1>4
  <2>2. \A q : Fills(q)' <=> Fills(q)
    BY <1>1, <1>2, <2>1, FillsFrame
  <2>3. QED
    BY <1>1, <1>2, <1>3, <2>2, LetGo
<1>10. KeptInv'
  <2>1. ASSUME NEW c \in Bodies, body'[c] # NoThread
        PROVE  \E q \in Readers : state'[q] \in Alive \union {"join"} /\ body_'[q] = c
    <3>1. c # b /\ body[c] # NoThread
      BY <1>5, <2>1
    <3>2. PICK q \in Readers : state[q] \in Alive \union {"join"} /\ body_[q] = c
      BY <3>1 DEF IInv, KeptInv
    <3>3. QED
      BY <1>2, <1>3, <3>1, <3>2
  <2>2. \A q \in Readers : state'[q] \in Alive \union {"join"} => state'[q] = state[q]
    BY <1>3 DEF Alive
  <2>3. state'[r] # "none"
    BY <1>3
  <2>4. QED
    BY <1>2, <2>1, <2>2, <2>3 DEF IInv, KeptInv
<1>11. QED
  BY <1>6, <1>7, <1>8, <1>9, <1>10 DEF IInv

LEMMA EraseInv == ASSUME IInv, NEW r \in Readers, Erase(r) PROVE IInv'
<1>1. state \in [Readers -> Alive \union {"none", "join", "erase"}] /\ state[r] = "erase"
      /\ body_ \in [Readers -> Bodies \union {NoBody}]
  BY DEF Erase, IInv, TypeOK
<1>2. /\ state' = [state EXCEPT ![r] = "none"] /\ body_' = [body_ EXCEPT ![r] = NoBody]
      /\ bodies_' = (IF Expired THEN NoBody ELSE bodies_) /\ UNCHANGED << free_, full_, body >>
  BY DEF Erase
<1>3. state' \in [Readers -> Alive \union {"none", "join", "erase"}] /\ state'[r] = "none"
      /\ body_' \in [Readers -> Bodies \union {NoBody}]
      /\ \A q \in Readers \ {r} : state'[q] = state[q] /\ body_'[q] = body_[q]
  BY <1>1, <1>2
<1>4. RoundInv' /\ KnownApart' /\ (\A q : Fills(q)' <=> Fills(q)) /\ body' \in [Bodies -> Thread]
  BY <1>2, BodiesKept
<1>5. TypeOK'
  BY <1>2, <1>3, <1>4 DEF IInv, TypeOK
<1>6. NoneDoubled' /\ DataGoRound'
  BY <1>1, <1>2, <1>3, <1>4, LetGo
<1>7. KeptInv'
  <2>1. \A q \in Readers : state'[q] \in Alive \union {"join"} =>
           q # r /\ state'[q] = state[q] /\ body_'[q] = body_[q]
    BY <1>3 DEF Alive
  <2>2. ASSUME NEW q \in Readers, state'[q] \in Alive PROVE body_'[q] = bodies_'
    <3>1. state[q] \in Alive /\ body_'[q] = bodies_ /\ body_[q] = bodies_ /\ bodies_ \in Bodies
      BY <2>1, <2>2 DEF IInv, KeptInv
    <3>2. ~Expired
      BY <3>1, DataReaderAssumption DEF Expired, Sharing
    <3>3. QED
      BY <1>2, <3>1, <3>2
  <2>3. ASSUME bodies_' # NoBody PROVE \E q \in Readers : state'[q] # "none"
    <3>1. PICK q \in Readers : state[q] \in Alive
      BY <1>2, <2>3 DEF Expired, Sharing
    <3>2. q # r /\ state[q] # "none"
      BY <1>1, <3>1 DEF Alive
    <3>3. QED
      BY <1>3, <3>2
  <2>4. ASSUME NEW c \in Bodies, body'[c] # NoThread
        PROVE  \E q \in Readers : state'[q] \in Alive \union {"join"} /\ body_'[q] = c
    <3>1. PICK q \in Readers : state[q] \in Alive \union {"join"} /\ body_[q] = c
      BY <1>2, <2>4 DEF IInv, KeptInv
    <3>2. q # r
      BY <1>1, <3>1 DEF Alive
    <3>3. QED
      BY <1>3, <3>1, <3>2
  <2>5. QED
    BY <2>1, <2>2, <2>3, <2>4 DEF IInv, KeptInv
<1>8. QED
  BY <1>4, <1>5, <1>6, <1>7 DEF IInv

LEMMA RoomForOne ==
  ASSUME NEW taken \in Nat, NEW new \in Nat, NEW more, more = new + 1, taken + new < solver_count
  PROVE  taken + more <= solver_count /\ taken < solver_count
BY DataReaderAssumption

LEMMA NewInv == ASSUME IInv, NEW r \in Readers, New(r) PROVE IInv'
<1>1. PICK b \in IF Expired THEN {c \in Bodies : body[c] = NoThread} ELSE {bodies_} :
        /\ Len(body[b].qps) + Len(body[b].new) < solver_count
        /\ body' = [body EXCEPT ![b].new = Append(@, r),
                                ![b].pc = IF Expired THEN "accept" ELSE @]
        /\ bodies_' = b
        /\ body_' = [body_ EXCEPT ![r] = b]
  BY DEF New
<1>2. /\ state \in [Readers -> Alive \union {"none", "join", "erase"}] /\ state[r] = "none"
      /\ body \in [Bodies -> Thread] /\ body_ \in [Readers -> Bodies \union {NoBody}]
      /\ free_ \in [Readers -> 0..Capacity] /\ full_ \in [Readers -> Seq(0..Records - 1)]
      /\ \A c \in Bodies : r \notin Known(c)
  BY DEF New, IInv, TypeOK, Known
<1>3. /\ state' = [state EXCEPT ![r] = "setup"] /\ free_' = [free_ EXCEPT ![r] = Capacity]
      /\ full_' = [full_ EXCEPT ![r] = << >>]
  BY DEF New
<1>4. b \in Bodies /\ (Expired => body[b] = NoThread) /\ (~Expired => b = bodies_)
  BY <1>1 DEF Expired, IInv, TypeOK
<1> DEFINE old == body[b]
           t == [old EXCEPT !.new = Append(@, r), !.pc = IF Expired THEN "accept" ELSE @]
<1>5. old \in Thread /\ RoundOk(old)
  BY <1>2, <1>4 DEF IInv, RoundInv
<1>6. /\ Append(old.new, r) \in Seq(Readers) /\ Len(Append(old.new, r)) = Len(old.new) + 1
      /\ Elements(Append(old.new, r)) = Elements(old.new) \union {r}
  BY <1>5, ElementsOfAppend DEF Thread
<1>7. /\ t.new = Append(old.new, r) /\ t.qps = old.qps /\ t.turn = old.turn
      /\ t.pc = (IF Expired THEN "accept" ELSE old.pc)
  BY <1>5 DEF Thread
<1>8. t \in Thread
  BY <1>5, <1>6 DEF Thread
<1>9. body' = [body EXCEPT ![b] = t]
  BY <1>1, <1>4, <1>5 DEF Thread
<1>10. body' \in [Bodies -> Thread] /\ body'[b] = t /\ \A c \in Bodies \ {b} : body'[c] = body[c]
  BY <1>2, <1>4, <1>8, <1>9
<1>11. RoundOk(t)
  <2>1. Len(old.qps) \in Nat /\ Len(old.new) \in Nat /\ Len(t.new) = Len(old.new) + 1
    BY <1>5, <1>6, <1>7 DEF Thread
  <2>2. Len(old.qps) + Len(old.new) < solver_count
    BY <1>1
  <2>3. Len(old.qps) + Len(t.new) <= solver_count /\ Len(old.qps) < solver_count
    BY <2>1, <2>2, RoomForOne
  <2>4. Len(t.qps) + Len(t.new) <= solver_count /\ Len(t.qps) < solver_count
    BY <1>7, <2>3
  <2>5. t.turn <= Len(t.qps) /\ (Len(t.qps) < solver_count => t.turn = Len(t.qps))
    BY <1>5, <1>7 DEF RoundOk
  <2>6. t.pc = "take" \/ t.pc = "fill" => t.turn > 0
    <3>1. t.pc = "take" \/ t.pc = "fill" => old.pc = "take" \/ old.pc = "fill"
      BY <1>7
    <3>2. QED
      BY <1>5, <1>7, <3>1 DEF RoundOk
  <2>7. t.pc = "loop" => Len(t.qps) = solver_count
    <3>1. t.pc = "loop" => old.pc = "loop"
      BY <1>7
    <3>2. QED
      BY <1>5, <1>7, <3>1 DEF RoundOk
  <2>8. QED
    BY <2>4, <2>5, <2>6, <2>7 DEF RoundOk
<1>12. RoundInv'
  <2>1. \A c \in Bodies : RoundOk(body'[c])
    BY <1>10, <1>11 DEF IInv, RoundInv
  <2>2. QED
    BY <2>1 DEF RoundInv, RoundOk
<1>13. \A c \in Bodies : Known(c)' = (IF c = b THEN Known(c) \union {r} ELSE Known(c))
  <2>1. Known(b)' = Elements(t.qps) \union Elements(t.new)
    BY <1>10 DEF Known, Elements
  <2>2. Known(b)' = Known(b) \union {r}
    BY <1>6, <1>7, <2>1 DEF Known
  <2>3. \A c \in Bodies \ {b} : Known(c)' = Known(c)
    BY <1>10 DEF Known, Elements
  <2>4. QED
    BY <2>2, <2>3
<1>14. KnownApart'
  <2>1. \A c, d \in Bodies : c # d => Known(c)' \intersect Known(d)' = {}
    BY <1>2, <1>13 DEF IInv, KnownApart
  <2>2. QED
    BY <2>1 DEF KnownApart
<1>15. \A q : Fills(q)' <=> Fills(q)
  <2>1. (t.pc = "fill") <=> (old.pc = "fill")
    BY <1>4, <1>7 DEF NoThread
  <2>2. \A c \in Bodies : /\ (body'[c].pc = "fill") <=> (body[c].pc = "fill")
                          /\ body'[c].qps = body[c].qps /\ body'[c].turn = body[c].turn
    BY <1>7, <1>10, <2>1
  <2>3. QED
    BY <2>2 DEF Fills, Served
<1>16. ~Fills(r)
  <2>1. \A c \in Bodies : body[c].pc = "fill" => Served(c) \in Known(c)
    BY ServedIsKnown DEF IInv
  <2>2. QED
    BY <1>2, <2>1 DEF Fills
<1>17. /\ state' \in [Readers -> Alive \union {"none", "join", "erase"}] /\ state'[r] = "setup"
       /\ body_' \in [Readers -> Bodies \union {NoBody}] /\ body_'[r] = b
       /\ \A q \in Readers \ {r} :
            /\ state'[q] = state[q] /\ body_'[q] = body_[q]
            /\ free_'[q] = free_[q] /\ full_'[q] = full_[q]
  BY <1>1, <1>2, <1>3, <1>4 DEF Alive
<1>18. /\ free_' \in [Readers -> 0..Capacity] /\ free_'[r] = Capacity
       /\ full_' \in [Readers -> Seq(0..Records - 1)] /\ full_'[r] = << >>
  <2>1. Capacity \in 0..Capacity
    BY DataReaderAssumption
  <2>2. << >> \in Seq(0..Records - 1)
    OBVIOUS
  <2>3. QED
    BY <1>2, <1>3, <2>1, <2>2
<1>19. TypeOK'
  BY <1>1, <1>4, <1>10, <1>17, <1>18 DEF IInv, TypeOK
<1>20. Hand'[r] = 0 /\ \A q \in Readers \ {r} : Hand'[q] = Hand[q]
  BY <1>15, <1>16, <1>17, HandIs
<1>21. free_'[r] + Len(full_'[r]) + Hand'[r] = Capacity
  <2>1. Len(full_'[r]) = 0
    BY <1>18
  <2>2. QED
    BY <1>18, <1>20, <2>1, DataReaderAssumption
<1>22. NoneDoubled'
  <2>1. ASSUME NEW q \in Readers PROVE free_'[q] + Len(full_'[q]) + Hand'[q] <= Capacity
    <3>1. CASE q = r
      BY <1>21, <3>1, DataReaderAssumption
    <3>2. CASE q # r
      BY <1>17, <1>20, <3>2, HandIs DEF IInv, NoneDoubled
    <3>3. QED
      BY <3>1, <3>2
  <2>2. QED
    BY <2>1, HandIs DEF NoneDoubled
<1>23. DataGoRound'
  <2>1. ASSUME NEW q \in Readers, state'[q] # "none"
        PROVE  free_'[q] + Len(full_'[q]) + Hand'[q] = Capacity
    <3>1. CASE q = r
      BY <1>21, <3>1
    <3>2. CASE q # r
      BY <1>17, <1>20, <2>1, <3>2, HandIs DEF IInv, DataGoRound
    <3>3. QED
      BY <3>1, <3>2
  <2>2. QED
    BY <2>1, HandIs DEF DataGoRound
<1>24. KeptInv'
  <2>1. \A q \in Readers : state'[q] \in Alive \union {"join"} => body_'[q] \in Bodies
    BY <1>4, <1>17 DEF IInv, KeptInv
  <2>2. ASSUME NEW q \in Readers, state'[q] \in Alive PROVE body_'[q] = bodies_'
    <3>1. CASE q = r
      BY <1>1, <1>17, <3>1
    <3>2. CASE q # r
      <4>1. state[q] \in Alive /\ body_[q] = bodies_ /\ bodies_ \in Bodies
        BY <1>17, <2>2, <3>2 DEF IInv, KeptInv
      <4>2. ~Expired
        BY <4>1, DataReaderAssumption DEF Expired, Sharing
      <4>3. QED
        BY <1>1, <1>4, <1>17, <3>2, <4>1, <4>2
    <3>3. QED
      BY <3>1, <3>2
  <2>3. ASSUME NEW c \in Bodies, body'[c] # NoThread
        PROVE  \E q \in Readers : state'[q] \in Alive \union {"join"} /\ body_'[q] = c
    <3>1. CASE c = b
      BY <1>17, <3>1 DEF Alive
    <3>2. CASE c # b
      <4>1. PICK q \in Readers : state[q] \in Alive \union {"join"} /\ body_[q] = c
        BY <1>10, <2>3, <3>2 DEF IInv, KeptInv
      <4>2. q # r
        BY <1>2, <4>1 DEF Alive
      <4>3. QED
        BY <1>17, <4>1, <4>2
    <3>3. QED
      BY <3>1, <3>2
  <2>4. state'[r] # "none"
    BY <1>17
  <2>5. QED
    BY <2>1, <2>2, <2>3, <2>4 DEF KeptInv
<1>25. QED
  BY <1>12, <1>14, <1>19, <1>22, <1>23, <1>24 DEF IInv

-----------------------------------------------------------------------------
LEMMA StutterInv == ASSUME IInv, UNCHANGED vars PROVE IInv'
<1>1. UNCHANGED << state, body_, free_, full_, bodies_, body >>
  BY DEF vars
<1>2. RoundInv' /\ KnownApart' /\ (\A r : Fills(r)' <=> Fills(r))
  BY <1>1, BodiesKept
<1>3. NoneDoubled' /\ DataGoRound'
  BY <1>1, <1>2, HandFrame, NothingMoves DEF IInv
<1>4. TypeOK' /\ KeptInv'
  BY <1>1 DEF IInv, TypeOK, KeptInv
<1>5. QED
  BY <1>2, <1>3, <1>4 DEF IInv

LEMMA NextInv == IInv /\ [Next]_vars => IInv'
<1> SUFFICES ASSUME IInv, [Next]_vars PROVE IInv'
  OBVIOUS
<1>1. CASE \E r \in Readers : New(r) \/ Reset(r) \/ Use(r) \/ Destroy(r)
  BY <1>1, NewInv, ResetInv, SetUpInv, GetInv, GiveBackInv, JoinInv, EraseInv DEF Use, Destroy
<1>2. CASE \E b \in Bodies : BodyStep(b)
  BY <1>2, AcceptInv, TakeInv, FillInv, LoopInv, InterruptedInv DEF BodyStep
<1>3. CASE UNCHANGED vars
  BY <1>3, StutterInv
<1>4. QED
  BY <1>1, <1>2, <1>3 DEF Next

LEMMA InvHolds == Spec => []IInv
BY InitInv, NextInv, PTL DEF Spec

\* Every variable keeps its type: above all a thread serves a position that
\* exists in its row of queue pairs, the cursor stays among the records, and a
\* queue pair is never given more than it was made with.
THEOREM DataReaderTypeCorrect == Spec => []TypeOK
<1>1. IInv => TypeOK
  BY DEF IInv
<1>2. QED
  BY <1>1, InvHolds, PTL

\* However readers come and go, and whatever the thread is doing when its last
\* reader interrupts it, each queue pair keeps the Datum objects it was made
\* with: its destructor finds all of them (data_reader.cpp:64-72).
THEOREM NoDatumLost == Spec => []DataGoRound
<1>1. IInv => DataGoRound
  BY DEF IInv
<1>2. QED
  BY <1>1, InvHolds, PTL

\* Readers of a source that are alive together share the body the registry
\* names, a new one that comes while an old body is being joined included, and
\* the last one to go leaves neither entry nor thread (data_reader.cpp:36-52).
THEOREM RegistryIsExact == Spec => []RegistryExact
<1>1. ASSUME IInv PROVE RegistryExact
  <2>1. ASSUME \A r \in Readers : state[r] = "none"
        PROVE  bodies_ = NoBody /\ body = [b \in Bodies |-> NoThread]
    <3>1. bodies_ = NoBody
      BY <1>1, <2>1 DEF IInv, KeptInv
    <3>2. \A b \in Bodies : body[b] = NoThread
      BY <1>1, <2>1 DEF IInv, KeptInv, Alive
    <3>3. QED
      BY <1>1, <3>1, <3>2 DEF IInv, TypeOK
  <2>2. QED
    BY <1>1, <2>1 DEF IInv, KeptInv, RegistryExact
<1>2. QED
  BY <1>1, InvHolds, PTL
-----------------------------------------------------------------------------
(* Records in turn *)

LEMMA DivMod ==
  ASSUME NEW n \in Nat \ {0}, NEW a \in Int
  PROVE  a = n * (a \div n) + (a % n) /\ a \div n \in Int /\ a % n \in 0..n - 1
OBVIOUS

LEMMA ModIs ==
  ASSUME NEW n \in Nat \ {0}, NEW d \in Int, NEW m \in 0..n - 1
  PROVE  (n * d + m) % n = m
OBVIOUS

LEMMA ModSmall == ASSUME NEW n \in Nat \ {0}, NEW a \in 0..n - 1 PROVE a % n = a
OBVIOUS

LEMMA ModNext ==
  ASSUME NEW n \in Nat \ {0}, NEW a \in Int
  PROVE  ((a % n) + 1) % n = (a + 1) % n
<1>1. PICK d \in Int, m \in 0..n - 1 : a = n * d + m /\ a % n = m
  BY DivMod
<1>2. CASE m + 1 < n
  <2>1. (a + 1) % n = m + 1
    <3>1. a + 1 = n * d + (m + 1) /\ m + 1 \in 0..n - 1
      BY <1>1, <1>2
    <3>2. QED
      BY <3>1, ModIs
  <2>2. (m + 1) % n = m + 1
    BY <1>2
  <2>3. QED
    BY <1>1, <2>1, <2>2
<1>3. CASE m + 1 = n
  <2>1. n * (d + 1) = n * d + n
    OBVIOUS
  <2>2. (a + 1) % n = 0
    <3>1. a + 1 = n * (d + 1) + 0 /\ d + 1 \in Int /\ 0 \in 0..n - 1
      BY <1>1, <1>3, <2>1
    <3>2. (n * (d + 1) + 0) % n = 0
      BY <3>1, ModIs
    <3>3. QED
      BY <3>1, <3>2
  <2>3. n % n = 0
    <3>1. n = n * 1 + 0
      OBVIOUS
    <3>2. QED
      BY <3>1, ModIs
  <2>4. QED
    BY <1>1, <1>3, <2>2, <2>3
<1>4. QED
  BY <1>2, <1>3

\* When the records can be divided evenly, the end of the database is no break
\* in the row of the solvers
LEMMA NextTurn ==
  ASSUME Records % solver_count = 0, NEW at \in 0..Records - 1, NEW k \in 1..solver_count,
         at % solver_count = k - 1
  PROVE  ((at + 1) % Records) % solver_count = k % solver_count
<1>1. (at + 1) % solver_count = k % solver_count
  <2>1. at \in Int
    BY DataReaderAssumption
  <2>2. ((at % solver_count) + 1) % solver_count = (at + 1) % solver_count
    BY <2>1, ModNext, DataReaderAssumption
  <2>3. QED
    BY <2>2
<1>2. CASE at + 1 < Records
  <2>1. at + 1 \in 0..Records - 1
    BY <1>2, DataReaderAssumption
  <2>2. (at + 1) % Records = at + 1
    BY ONLY <2>1, ModSmall, DataReaderAssumption
  <2>3. QED
    BY <1>1, <2>2
<1>3. CASE at + 1 = Records
  <2>1. Records % Records = 0 /\ 0 % solver_count = 0
    <3>1. Records = Records * 1 + 0 /\ 0 = solver_count * 0 + 0
      BY DataReaderAssumption
    <3>2. QED
      BY <3>1, ModIs, DataReaderAssumption
  <2>2. QED
    BY <1>1, <1>3, <2>1
<1>4. QED
  BY <1>2, <1>3, DataReaderAssumption

LEMMA LastIn == ASSUME NEW S, NEW q \in Seq(S), q # << >> PROVE q[Len(q)] \in S
<1>1. Len(q) \in DOMAIN q
  OBVIOUS
<1>2. QED
  BY <1>1

\* A datum taken from a queue leaves the rest as it was
LEMMA InTurnTail ==
  ASSUME NEW t, NEW i, NEW q \in Seq(0..Records - 1), q # << >>, InTurn(t, i, q)
  PROVE  InTurn(t, i, Tail(q))
<1>1. /\ Len(q) \in Nat \ {0} /\ Tail(q) \in Seq(0..Records - 1) /\ Len(Tail(q)) = Len(q) - 1
      /\ \A j \in 1..Len(q) - 1 : Tail(q)[j] = q[j + 1]
  OBVIOUS
<1>2. \A j \in 1..Len(Tail(q)) - 1 : Tail(q)[j + 1] = (Tail(q)[j] + solver_count) % Records
  <2>1. ASSUME NEW j \in 1..Len(Tail(q)) - 1
        PROVE  Tail(q)[j + 1] = (Tail(q)[j] + solver_count) % Records
    <3>1. j + 1 \in 1..Len(q) - 1 /\ j \in 1..Len(q) - 1
      BY <1>1
    <3>2. q[(j + 1) + 1] = (q[j + 1] + solver_count) % Records
      BY <3>1 DEF InTurn
    <3>3. QED
      BY <1>1, <3>1, <3>2
  <2>2. QED
    BY <2>1
<1>3. ASSUME Records % solver_count = 0, NEW j \in DOMAIN Tail(q) PROVE Tail(q)[j] % solver_count = i - 1
  <2>1. j \in 1..Len(q) - 1 /\ j + 1 \in DOMAIN q
    BY <1>1
  <2>2. QED
    BY <1>1, <1>3, <2>1 DEF InTurn
<1>4. ASSUME Tail(q) # << >> PROVE Tail(q)[Len(Tail(q))] = q[Len(q)]
  <2>1. Len(Tail(q)) \in 1..Len(q) - 1
    BY <1>1, <1>4
  <2>2. QED
    BY <1>1, <2>1
<1>5. QED
  BY <1>2, <1>3, <1>4 DEF InTurn

\* The record at the cursor goes to the position whose turn it is
LEMMA InTurnAppend ==
  ASSUME NEW t, NEW u, NEW k \in 1..solver_count, NEW q \in Seq(0..Records - 1), InTurn(t, k, q),
         t.pc # "ended", t.at \in 0..Records - 1, Turn(t) = k, Turn(u) = k + 1,
         AtTurn(t), u.at = (t.at + 1) % Records
  PROVE  InTurn(u, k, Append(q, t.at))
<1> DEFINE p == Append(q, t.at)
<1>1. /\ Len(q) \in Nat /\ Len(p) = Len(q) + 1 /\ p \in Seq(0..Records - 1) /\ p[Len(q) + 1] = t.at
      /\ \A j \in 1..Len(q) : p[j] = q[j]
  OBVIOUS
<1>2. Ago(t, k) = solver_count /\ Ago(u, k) = 1
  BY DataReaderAssumption DEF Ago
<1>3. \A j \in 1..Len(p) - 1 : p[j + 1] = (p[j] + solver_count) % Records
  <2>1. ASSUME NEW j \in 1..Len(p) - 1 PROVE p[j + 1] = (p[j] + solver_count) % Records
    <3>1. CASE j < Len(q)
      <4>1. j \in 1..Len(q) - 1 /\ j + 1 \in 1..Len(q)
        BY <1>1, <3>1
      <4>2. QED
        BY <1>1, <4>1 DEF InTurn
    <3>2. CASE j = Len(q)
      <4>1. q # << >>
        BY <1>1, <3>2
      <4>2. t.at = (q[Len(q)] + solver_count) % Records
        BY <1>2, <4>1 DEF InTurn
      <4>3. QED
        BY <1>1, <3>2, <4>2
    <3>3. QED
      BY <1>1, <3>1, <3>2
  <2>2. QED
    BY <2>1
<1>4. ASSUME Records % solver_count = 0, NEW j \in DOMAIN p PROVE p[j] % solver_count = k - 1
  <2>1. CASE j = Len(q) + 1
    <3>1. t.at % solver_count = (k - 1) % solver_count
      BY <1>4 DEF AtTurn
    <3>2. (k - 1) % solver_count = k - 1
      <4>1. k - 1 \in 0..solver_count - 1 /\ solver_count \in Nat \ {0}
        BY DataReaderAssumption
      <4>2. QED
        BY ONLY <4>1, ModSmall
    <3>3. QED
      BY <1>1, <2>1, <3>1, <3>2
  <2>2. CASE j # Len(q) + 1
    <3>1. j \in 1..Len(q) /\ j \in DOMAIN q
      BY <1>1, <2>2
    <3>2. QED
      BY <1>1, <1>4, <3>1 DEF InTurn
  <2>3. QED
    BY <2>1, <2>2
<1>5. u.at = (p[Len(p)] + Ago(u, k)) % Records
  BY <1>1, <1>2
<1> HIDE DEF p
<1>6. InTurn(u, k, p)
  BY <1>3, <1>4, <1>5 DEF InTurn
<1>7. QED
  BY <1>6 DEF p

\* ... and is one record further away for the others
LEMMA InTurnOther ==
  ASSUME NEW t, NEW u, NEW k \in 1..solver_count, NEW i \in 1..solver_count, i # k,
         NEW q \in Seq(0..Records - 1), InTurn(t, i, q),
         t.pc # "ended", Turn(t) = k, Turn(u) = k + 1, u.at = (t.at + 1) % Records
  PROVE  InTurn(u, i, q)
<1>1. Ago(t, i) \in Int /\ Ago(u, i) = Ago(t, i) + 1
  BY DataReaderAssumption DEF Ago
<1>2. ASSUME q # << >> PROVE u.at = (q[Len(q)] + Ago(u, i)) % Records
  <2>1. t.at = (q[Len(q)] + Ago(t, i)) % Records
    BY <1>2 DEF InTurn
  <2>2. q[Len(q)] \in 0..Records - 1
    BY <1>2, LastIn, DataReaderAssumption
  <2>3. PICK x \in Int : x = q[Len(q)]
    BY <2>2
  <2>4. (t.at + 1) % Records = ((x + Ago(t, i)) + 1) % Records
    <3>1. x + Ago(t, i) \in Int /\ t.at = (x + Ago(t, i)) % Records
      BY <1>1, <2>1, <2>3
    <3>2. (((x + Ago(t, i)) % Records) + 1) % Records = ((x + Ago(t, i)) + 1) % Records
      BY <3>1, ModNext, DataReaderAssumption
    <3>3. QED
      BY <3>1, <3>2
  <2>5. (x + Ago(t, i)) + 1 = x + Ago(u, i)
    BY <1>1, <2>3
  <2>6. QED
    BY <2>3, <2>4, <2>5
<1>3. QED
  BY <1>2 DEF InTurn

-----------------------------------------------------------------------------
(* The steps, as far as the deal goes *)

LEMMA InitDeal == Init => DealInv
BY EmptyElements, DataReaderAssumption
   DEF Init, NoThread, DealInv, Dealing, CursorInTurn, AtTurn, Turn, NewEmpty, KnownOnce, OneByOne

LEMMA DealKept == ASSUME DealInv, UNCHANGED << full_, body >> PROVE DealInv'
<1>1. Dealing' /\ CursorInTurn'
  BY DEF DealInv, Dealing, CursorInTurn
<1>2. NewEmpty' /\ KnownOnce'
  BY DEF DealInv, NewEmpty, KnownOnce
<1>3. QED
  BY <1>1, <1>2 DEF DealInv

\* What a body knows before and after
LEMMA ThreadIs ==
  ASSUME IInv, NEW b \in Bodies
  PROVE  /\ body[b] \in Thread /\ body[b].qps \in Seq(Readers) /\ body[b].new \in Seq(Readers)
         /\ body[b].turn \in 0..solver_count /\ body[b].at \in 0..Records - 1
         /\ RoundOk(body[b]) /\ DOMAIN body[b].qps = 1..Len(body[b].qps)
         /\ Len(body[b].qps) \in 0..solver_count
<1>1. body[b] \in Thread /\ RoundOk(body[b])
  BY DEF IInv, TypeOK, RoundInv
<1>2. body[b].qps \in Seq(Readers) /\ body[b].new \in Seq(Readers)
      /\ body[b].turn \in 0..solver_count /\ body[b].at \in 0..Records - 1
  BY <1>1 DEF Thread
<1>3. DOMAIN body[b].qps = 1..Len(body[b].qps) /\ Len(body[b].qps) \in Nat /\ Len(body[b].new) \in Nat
  BY <1>2
<1>4. Len(body[b].qps) + Len(body[b].new) <= solver_count
  BY <1>1 DEF RoundOk
<1>5. Len(body[b].qps) \in 0..solver_count
  <2>1. PICK k \in Nat, m \in Nat : Len(body[b].qps) = k /\ Len(body[b].new) = m
    BY <1>3
  <2>2. k + m <= solver_count
    BY <1>4, <2>1
  <2>3. k \in 0..solver_count
    BY <2>2, DataReaderAssumption
  <2>4. QED
    BY <2>1, <2>3
<1>6. QED
  BY <1>1, <1>2, <1>3, <1>5

\* A thread that neither reads a record nor meets a new queue pair
GoesOn(b, t) ==
  /\ body' = [body EXCEPT ![b] = t]
  /\ t.qps = body[b].qps /\ t.new = body[b].new /\ AtTurn(t)
  /\ t.pc # "ended" => /\ body[b].pc # "ended" /\ t.at = body[b].at
                       /\ \A i \in 1..solver_count : Ago(t, i) = Ago(body[b], i)

LEMMA ThreadDeals ==
  ASSUME IInv, DealInv, NEW b \in Bodies, NEW t \in Thread, GoesOn(b, t), UNCHANGED full_
  PROVE  DealInv'
<1> USE DEF GoesOn
<1>1. body \in [Bodies -> Thread]
  BY DEF IInv, TypeOK
<1>2. body' \in [Bodies -> Thread] /\ body'[b] = t /\ \A c \in Bodies \ {b} : body'[c] = body[c]
  BY <1>1
<1>3. \A c \in Bodies : body'[c].qps = body[c].qps /\ body'[c].new = body[c].new
  BY <1>2
<1>4. Dealing'
  <2>1. ASSUME NEW c \in Bodies, NEW i \in DOMAIN body[c].qps
        PROVE  InTurn(body'[c], i, full_[body[c].qps[i]])
    <3>1. InTurn(body[c], i, full_[body[c].qps[i]])
      BY DEF DealInv, Dealing
    <3>2. CASE c # b
      BY <1>2, <3>1, <3>2
    <3>3. CASE c = b
      <4>1. i \in 1..solver_count
        <5>1. i \in 1..Len(body[b].qps) /\ Len(body[b].qps) \in 0..solver_count
          BY <3>3, ThreadIs
        <5>2. QED
          BY <5>1, DataReaderAssumption
      <4>2. InTurn(t, i, full_[body[c].qps[i]])
        BY <3>1, <3>3, <4>1 DEF InTurn
      <4>3. QED
        BY <1>2, <3>3, <4>2
    <3>4. QED
      BY <3>2, <3>3
  <2>2. QED
    BY <1>3, <2>1 DEF Dealing
<1>5. CursorInTurn'
  <2>1. \A c \in Bodies : AtTurn(body'[c])
    BY <1>2 DEF DealInv, CursorInTurn
  <2>2. QED
    BY <2>1 DEF CursorInTurn
<1>6. NewEmpty' /\ KnownOnce'
  BY <1>3 DEF DealInv, NewEmpty, KnownOnce
<1>7. QED
  BY <1>4, <1>5, <1>6 DEF DealInv

LEMMA TakeGoesOn ==
  ASSUME IInv, DealInv, NEW b \in Bodies, Take(b)
  PROVE  \E t \in Thread : GoesOn(b, t)
<1> DEFINE t == [body[b] EXCEPT !.pc = "fill"]
<1>1. body[b] \in Thread /\ body[b].pc = "take"
  BY ThreadIs DEF Take
<1>2. /\ t \in Thread /\ t.qps = body[b].qps /\ t.new = body[b].new
      /\ t.at = body[b].at /\ t.turn = body[b].turn /\ t.pc = "fill"
  BY <1>1 DEF Thread
<1>3. body' = [body EXCEPT ![b] = t]
  BY <1>1 DEF Take, IInv, TypeOK
<1> HIDE DEF t
<1>4. Turn(t) = Turn(body[b])
  BY <1>1, <1>2 DEF Turn
<1>5. AtTurn(t)
  <2>1. AtTurn(body[b])
    BY DEF DealInv, CursorInTurn
  <2>2. QED
    BY <1>1, <1>2, <1>4, <2>1 DEF AtTurn
<1>6. \A i \in 1..solver_count : Ago(t, i) = Ago(body[b], i)
  BY <1>4 DEF Ago
<1>7. QED
  BY <1>1, <1>2, <1>3, <1>5, <1>6 DEF GoesOn

LEMMA LoopGoesOn ==
  ASSUME IInv, DealInv, NEW b \in Bodies, Loop(b)
  PROVE  \E t \in Thread : GoesOn(b, t)
<1> DEFINE t == [body[b] EXCEPT !.turn = 1, !.pc = IF body[b].stop THEN "ended" ELSE "take"]
<1>1. body[b] \in Thread /\ body[b].pc = "loop" /\ body[b].turn = solver_count
  BY ThreadIs DEF Loop, DealInv, CursorInTurn, AtTurn
<1>2. /\ t \in Thread /\ t.qps = body[b].qps /\ t.new = body[b].new
      /\ t.at = body[b].at /\ t.turn = 1 /\ t.pc \in {"ended", "take"}
  <2>1. 1 \in 0..solver_count
    BY DataReaderAssumption
  <2>2. QED
    BY <1>1, <2>1 DEF Thread
<1>3. body' = [body EXCEPT ![b] = t]
  BY <1>1 DEF Loop, IInv, TypeOK
<1> HIDE DEF t
<1>4. t.pc # "ended" => Turn(t) = 1 /\ Turn(body[b]) = solver_count + 1
  BY <1>1, <1>2 DEF Turn
<1>5. AtTurn(t)
  <2>1. AtTurn(body[b])
    BY DEF DealInv, CursorInTurn
  <2>2. solver_count % solver_count = 0 /\ 0 % solver_count = 0
    <3>1. solver_count = solver_count * 1 + 0 /\ 0 = solver_count * 0 + 0
      BY DataReaderAssumption
    <3>2. QED
      BY <3>1, ModIs, DataReaderAssumption
  <2>3. QED
    BY <1>1, <1>2, <1>4, <2>1, <2>2, DataReaderAssumption DEF AtTurn
<1>6. t.pc # "ended" => \A i \in 1..solver_count : Ago(t, i) = Ago(body[b], i)
  BY <1>4, DataReaderAssumption DEF Ago
<1>7. QED
  BY <1>1, <1>2, <1>3, <1>5, <1>6 DEF GoesOn

LEMMA InterruptedGoesOn ==
  ASSUME IInv, DealInv, NEW b \in Bodies, Interrupted(b)
  PROVE  \E t \in Thread : GoesOn(b, t)
<1> DEFINE t == [body[b] EXCEPT !.pc = "ended"]
<1>1. body[b] \in Thread
  BY ThreadIs
<1>2. t \in Thread /\ t.qps = body[b].qps /\ t.new = body[b].new /\ t.pc = "ended"
  BY <1>1 DEF Thread
<1>3. body' = [body EXCEPT ![b] = t]
  BY <1>1 DEF Interrupted, IInv, TypeOK
<1> HIDE DEF t
<1>4. AtTurn(t)
  BY <1>2 DEF AtTurn
<1>5. QED
  BY <1>2, <1>3, <1>4 DEF GoesOn

\* ... deals as before
LEMMA RestDeals ==
  ASSUME IInv, DealInv, NEW b \in Bodies, Take(b) \/ Loop(b) \/ Interrupted(b)
  PROVE  DealInv'
<1>1. PICK t \in Thread : GoesOn(b, t)
  BY TakeGoesOn, LoopGoesOn, InterruptedGoesOn
<1>2. UNCHANGED full_
  BY DEF Take, Loop, Interrupted
<1>3. QED
  BY <1>1, <1>2, ThreadDeals

LEMMA ResetDeals == ASSUME IInv, DealInv, NEW r \in Readers, Reset(r) PROVE DealInv'
<1>1. CASE UNCHANGED body
  BY <1>1, DealKept DEF Reset
<1>2. CASE body' = [body EXCEPT ![body_[r]].stop = TRUE]
  <2>1. body_[r] \in Bodies
    BY DEF Reset, IInv, KeptInv, Alive
  <2>2. PICK b \in Bodies : b = body_[r]
    BY <2>1
  <2> DEFINE t == [body[b] EXCEPT !.stop = TRUE]
  <2>3. body[b] \in Thread
    BY ThreadIs
  <2>4. /\ t \in Thread /\ t.qps = body[b].qps /\ t.new = body[b].new
        /\ t.at = body[b].at /\ t.turn = body[b].turn /\ t.pc = body[b].pc
    BY <2>3 DEF Thread
  <2>5. body' = [body EXCEPT ![b] = t] /\ UNCHANGED full_
    BY <1>2, <2>2, <2>3 DEF Reset, IInv, TypeOK
  <2> HIDE DEF t
  <2>6. Turn(t) = Turn(body[b])
    BY <2>4 DEF Turn
  <2>7. AtTurn(t)
    <3>1. AtTurn(body[b])
      BY DEF DealInv, CursorInTurn
    <3>2. QED
      BY <2>4, <2>6, <3>1 DEF AtTurn
  <2>8. \A i \in 1..solver_count : Ago(t, i) = Ago(body[b], i)
    BY <2>6 DEF Ago
  <2>9. QED
    BY <2>4, <2>5, <2>7, <2>8, ThreadDeals DEF GoesOn
<1>3. QED
  BY <1>1, <1>2 DEF Reset
\* Rows in which nobody is twice
LEMMA OneAppend ==
  ASSUME NEW S, NEW q \in Seq(S), NEW x \in S, x \notin Elements(q), OneByOne(q)
  PROVE  OneByOne(Append(q, x))
<1>1. /\ DOMAIN Append(q, x) = DOMAIN q \union {Len(q) + 1} /\ Append(q, x)[Len(q) + 1] = x
      /\ \A i \in DOMAIN q : Append(q, x)[i] = q[i]
  OBVIOUS
<1>2. \A i \in DOMAIN q : q[i] # x
  BY DEF Elements
<1>3. QED
  BY <1>1, <1>2 DEF OneByOne

LEMMA OneTail ==
  ASSUME NEW S, NEW q \in Seq(S), q # << >>, OneByOne(q)
  PROVE  OneByOne(Tail(q)) /\ Head(q) \notin Elements(Tail(q))
<1>1. /\ Len(q) \in Nat \ {0} /\ DOMAIN q = 1..Len(q) /\ DOMAIN Tail(q) = 1..Len(q) - 1
      /\ Head(q) = q[1] /\ \A i \in 1..Len(q) - 1 : Tail(q)[i] = q[i + 1]
  OBVIOUS
<1>2. PICK n \in Nat \ {0} : n = Len(q)
  BY <1>1
<1>3. \A i \in 1..n - 1 : i + 1 \in 1..n /\ i + 1 # 1
  OBVIOUS
<1>4. OneByOne(Tail(q))
  <2>1. ASSUME NEW i \in 1..n - 1, NEW j \in 1..n - 1, Tail(q)[i] = Tail(q)[j] PROVE i = j
    <3>1. q[i + 1] = q[j + 1]
      BY <1>1, <1>2, <2>1
    <3>2. i + 1 = j + 1
      BY <1>1, <1>2, <1>3, <3>1 DEF OneByOne
    <3>3. QED
      BY <3>2
  <2>2. QED
    BY <1>1, <1>2, <2>1 DEF OneByOne
<1>5. \A i \in 1..n - 1 : Tail(q)[i] # q[1]
  <2>1. 1 \in 1..n
    OBVIOUS
  <2>2. QED
    BY <1>1, <1>2, <1>3, <2>1 DEF OneByOne
<1>6. QED
  BY <1>1, <1>2, <1>4, <1>5 DEF Elements

\* Who is in a row at a position is known to the thread, and to no other one
LEMMA InRow ==
  ASSUME IInv, NEW b \in Bodies, NEW i \in DOMAIN body[b].qps
  PROVE  /\ body[b].qps[i] \in Known(b) /\ body[b].qps[i] \in Elements(body[b].qps)
         /\ body[b].qps[i] \in Readers /\ i \in 1..solver_count
         /\ full_[body[b].qps[i]] \in Seq(0..Records - 1)
<1>1. body[b].qps \in Seq(Readers) /\ Len(body[b].qps) \in 0..solver_count /\ i \in 1..Len(body[b].qps)
  BY ThreadIs
<1>2. i \in 1..solver_count
  BY <1>1, DataReaderAssumption
<1>3. body[b].qps[i] \in Readers
  BY <1>1
<1>4. QED
  BY <1>2, <1>3 DEF IInv, TypeOK, Known, Elements

LEMMA GetDeals == ASSUME IInv, DealInv, NEW r \in Readers, Get(r) PROVE DealInv'
<1>1. /\ full_[r] # << >> /\ full_' = [full_ EXCEPT ![r] = Tail(@)] /\ UNCHANGED body
      /\ full_ \in [Readers -> Seq(0..Records - 1)]
  BY DEF Get, IInv, TypeOK
<1>2. full_'[r] = Tail(full_[r]) /\ \A q \in Readers \ {r} : full_'[q] = full_[q]
  BY <1>1
<1>3. Dealing'
  <2>1. ASSUME NEW c \in Bodies, NEW i \in DOMAIN body[c].qps
        PROVE  InTurn(body[c], i, full_'[body[c].qps[i]])
    <3>1. InTurn(body[c], i, full_[body[c].qps[i]]) /\ body[c].qps[i] \in Readers
      BY InRow DEF DealInv, Dealing
    <3>2. CASE body[c].qps[i] # r
      BY <1>2, <3>1, <3>2
    <3>3. CASE body[c].qps[i] = r
      <4>1. full_[r] \in Seq(0..Records - 1) /\ InTurn(body[c], i, full_[r])
        BY <1>1, <3>1, <3>3
      <4>2. QED
        BY <1>1, <1>2, <3>3, <4>1, InTurnTail
    <3>4. QED
      BY <3>2, <3>3
  <2>2. QED
    BY <1>1, <2>1 DEF Dealing
<1>4. CursorInTurn' /\ KnownOnce'
  BY <1>1 DEF DealInv, CursorInTurn, KnownOnce
<1>5. NewEmpty'
  <2>1. ASSUME NEW c \in Bodies, NEW q \in Elements(body[c].new) PROVE full_'[q] = << >>
    <3>1. full_[q] = << >>
      BY DEF DealInv, NewEmpty
    <3>2. q \in Readers
      BY ThreadIs DEF Elements
    <3>3. QED
      BY <1>1, <1>2, <3>1, <3>2
  <2>2. QED
    BY <1>1, <2>1 DEF NewEmpty
<1>6. QED
  BY <1>3, <1>4, <1>5 DEF DealInv

LEMMA JoinDeals == ASSUME IInv, DealInv, NEW r \in Readers, Join(r) PROVE DealInv'
<1>1. body_[r] \in Bodies
  BY DEF Join, IInv, KeptInv
<1>2. PICK b \in Bodies : b = body_[r]
  BY <1>1
<1>3. /\ body' = [body EXCEPT ![b] = NoThread] /\ UNCHANGED full_ /\ body \in [Bodies -> Thread]
  BY <1>2 DEF Join, IInv, TypeOK
<1>4. body'[b] = NoThread /\ \A c \in Bodies \ {b} : body'[c] = body[c]
  BY <1>3
<1>5. /\ NoThread.qps = << >> /\ NoThread.new = << >> /\ OneByOne(<< >>) /\ AtTurn(NoThread)
  BY DataReaderAssumption DEF NoThread, OneByOne, AtTurn, Turn
<1>6. Dealing'
  <2>1. ASSUME NEW c \in Bodies, NEW i \in DOMAIN body'[c].qps
        PROVE  InTurn(body'[c], i, full_'[body'[c].qps[i]])
    <3>1. c # b
      BY <1>4, <1>5
    <3>2. QED
      BY <1>3, <1>4, <3>1 DEF DealInv, Dealing
  <2>2. QED
    BY <2>1 DEF Dealing
<1>7. CursorInTurn'
  <2>1. \A c \in Bodies : AtTurn(body'[c])
    BY <1>4, <1>5 DEF DealInv, CursorInTurn
  <2>2. QED
    BY <2>1 DEF CursorInTurn
<1>8. NewEmpty'
  <2>1. \A c \in Bodies : \A q \in Elements(body'[c].new) : full_'[q] = << >>
    BY <1>3, <1>4, <1>5, EmptyElements DEF DealInv, NewEmpty
  <2>2. QED
    BY <2>1 DEF NewEmpty
<1>9. KnownOnce'
  <2>1. \A c \in Bodies : /\ OneByOne(body'[c].qps) /\ OneByOne(body'[c].new)
                          /\ Elements(body'[c].qps) \intersect Elements(body'[c].new) = {}
    BY <1>4, <1>5, EmptyElements DEF DealInv, KnownOnce
  <2>2. QED
    BY <2>1 DEF KnownOnce
<1>10. QED
  BY <1>6, <1>7, <1>8, <1>9 DEF DealInv

LEMMA AcceptDeals == ASSUME IInv, DealInv, NEW b \in Bodies, Accept(b) PROVE DealInv'
<1> DEFINE old == body[b]
           r == Head(old.new)
           t == [old EXCEPT !.qps = Append(@, r), !.new = Tail(@), !.turn = @ + 1, !.pc = "take"]
<1>1. /\ old \in Thread /\ body \in [Bodies -> Thread] /\ RoundOk(old) /\ old.pc = "accept"
      /\ old.new # << >> /\ old.new \in Seq(Readers) /\ old.qps \in Seq(Readers)
      /\ old.turn \in 0..solver_count
  BY ThreadIs DEF Accept, IInv, TypeOK
<1>2. r \in Readers /\ r \in Elements(old.new) /\ Elements(Tail(old.new)) \subseteq Elements(old.new)
  BY <1>1, ElementsOfTail
<1>3. OneByOne(Tail(old.new)) /\ r \notin Elements(Tail(old.new))
  BY <1>1, OneTail DEF DealInv, KnownOnce
<1>4. r \notin Elements(old.qps)
  BY <1>2 DEF DealInv, KnownOnce
<1>5. OneByOne(Append(old.qps, r)) /\ Elements(Append(old.qps, r)) = Elements(old.qps) \union {r}
  BY <1>1, <1>2, <1>4, OneAppend, ElementsOfAppend DEF DealInv, KnownOnce
<1>6. /\ DOMAIN Append(old.qps, r) = DOMAIN old.qps \union {Len(old.qps) + 1}
      /\ Append(old.qps, r)[Len(old.qps) + 1] = r
      /\ \A i \in DOMAIN old.qps : Append(old.qps, r)[i] = old.qps[i]
  BY <1>1, <1>2
<1>7. /\ t.qps = Append(old.qps, r) /\ t.new = Tail(old.new) /\ t.pc = "take"
      /\ t.turn = old.turn + 1 /\ t.at = old.at
  BY <1>1 DEF Thread
<1>8. body' = [body EXCEPT ![b] = t] /\ UNCHANGED full_
  BY <1>1 DEF Accept, Thread
<1> HIDE DEF t
<1>9. body'[b] = t /\ \A c \in Bodies \ {b} : body'[c] = body[c]
  BY <1>1, <1>8
<1>10. Turn(t) = Turn(old)
  BY <1>1, <1>7 DEF Turn
<1>11. full_[r] = << >>
  BY <1>2 DEF DealInv, NewEmpty
<1>12. Dealing'
  <2>1. ASSUME NEW c \in Bodies, NEW i \in DOMAIN body'[c].qps
        PROVE  InTurn(body'[c], i, full_[body'[c].qps[i]])
    <3>1. CASE c # b
      BY <1>9, <3>1 DEF DealInv, Dealing
    <3>2. CASE c = b /\ i \in DOMAIN old.qps
      <4>1. InTurn(old, i, full_[old.qps[i]])
        BY <3>2 DEF DealInv, Dealing
      <4>2. InTurn(t, i, full_[old.qps[i]])
        BY <1>1, <1>7, <1>10, <4>1 DEF InTurn, Ago
      <4>3. QED
        BY <1>6, <1>7, <1>9, <3>2, <4>2
    <3>3. CASE c = b /\ i \notin DOMAIN old.qps
      <4>1. full_[body'[c].qps[i]] = << >>
        BY <1>6, <1>7, <1>9, <1>11, <3>3
      <4>2. InTurn(t, i, << >>)
        BY DEF InTurn
      <4>3. QED
        BY <1>9, <3>3, <4>1, <4>2
    <3>4. QED
      BY <3>1, <3>2, <3>3
  <2>2. QED
    BY <1>8, <2>1 DEF Dealing
<1>13. CursorInTurn'
  <2>1. AtTurn(t)
    <3>1. AtTurn(old)
      BY DEF DealInv, CursorInTurn
    <3>2. QED
      BY <1>1, <1>7, <1>10, <3>1 DEF AtTurn
  <2>2. \A c \in Bodies : AtTurn(body'[c])
    BY <1>9, <2>1 DEF DealInv, CursorInTurn
  <2>3. QED
    BY <2>2 DEF CursorInTurn
<1>14. NewEmpty'
  <2>1. \A c \in Bodies : \A q \in Elements(body'[c].new) : full_[q] = << >>
    BY <1>2, <1>7, <1>9 DEF DealInv, NewEmpty
  <2>2. QED
    BY <1>8, <2>1 DEF NewEmpty
<1>15. KnownOnce'
  <2>1. Elements(t.qps) \intersect Elements(t.new) = {}
    BY <1>2, <1>3, <1>5, <1>7 DEF DealInv, KnownOnce
  <2>2. \A c \in Bodies : /\ OneByOne(body'[c].qps) /\ OneByOne(body'[c].new)
                          /\ Elements(body'[c].qps) \intersect Elements(body'[c].new) = {}
    BY <1>3, <1>5, <1>7, <1>9, <2>1 DEF DealInv, KnownOnce
  <2>3. QED
    BY <2>2 DEF KnownOnce
<1>16. QED
  BY <1>12, <1>13, <1>14, <1>15 DEF DealInv

\* The record at the cursor goes to the reader whose turn it is
LEMMA FillIs ==
  ASSUME IInv, DealInv, NEW b \in Bodies, Fill(b)
  PROVE  \E k \in 1..solver_count, me \in Readers, t \in Thread :
           /\ k \in DOMAIN body[b].qps /\ me = body[b].qps[k] /\ me \in Known(b)
           /\ t.qps = body[b].qps /\ t.new = body[b].new /\ t.at = (body[b].at + 1) % Records
           /\ body'[b] = t /\ \A c \in Bodies \ {b} : body'[c] = body[c]
           /\ full_'[me] = Append(full_[me], body[b].at)
           /\ \A q \in Readers \ {me} : full_'[q] = full_[q]
           /\ Turn(body[b]) = k /\ Turn(t) = k + 1 /\ AtTurn(body[b]) /\ body[b].pc = "fill"
           /\ t.pc \in {"loop", "take", "accept"} /\ (t.pc = "loop" => t.turn = solver_count)
<1> DEFINE old == body[b]
           next == AfterRecord(old)
           t == [old EXCEPT !.pc = next, !.at = (@ + 1) % Records,
                            !.turn = IF next = "take" THEN @ + 1 ELSE @]
<1>1. /\ old \in Thread /\ body \in [Bodies -> Thread] /\ RoundOk(old) /\ old.pc = "fill"
      /\ old.turn \in 0..solver_count /\ old.at \in 0..Records - 1
      /\ full_ \in [Readers -> Seq(0..Records - 1)]
  BY ThreadIs DEF Fill, IInv, TypeOK
<1>2. PICK k \in 1..solver_count : k = old.turn
  BY <1>1, DataReaderAssumption DEF RoundOk
<1>3. k \in DOMAIN old.qps
  <2>1. Len(old.qps) \in 0..solver_count /\ DOMAIN old.qps = 1..Len(old.qps) /\ k <= Len(old.qps)
    BY <1>1, <1>2, ThreadIs DEF RoundOk
  <2>2. QED
    BY <2>1, DataReaderAssumption
<1>4. PICK me \in Readers : me = old.qps[k] /\ me = Served(b)
  BY <1>2, <1>3, InRow DEF Served
<1>5. next \in {"loop", "take", "accept"} /\ (next = "loop" => k = solver_count)
  BY <1>2 DEF AfterRecord
<1>6. /\ t.qps = old.qps /\ t.new = old.new /\ t.pc = next /\ t.at = (old.at + 1) % Records
      /\ t.turn = (IF next = "take" THEN old.turn + 1 ELSE old.turn)
  BY <1>1 DEF Thread
<1>7. body' = [body EXCEPT ![b] = t] /\ full_' = [full_ EXCEPT ![me] = Append(@, old.at)]
  BY <1>1, <1>4 DEF Fill, Thread
<1> HIDE DEF t, next
<1>8. body'[b] = t /\ \A c \in Bodies \ {b} : body'[c] = body[c]
  BY <1>1, <1>7
<1>9. full_'[me] = Append(full_[me], old.at) /\ \A q \in Readers \ {me} : full_'[q] = full_[q]
  BY <1>1, <1>7
<1>10. Turn(old) = k /\ Turn(t) = k + 1
  BY <1>1, <1>2, <1>5, <1>6 DEF Turn
<1>11. AtTurn(old) /\ old.pc # "ended"
  BY <1>1 DEF DealInv, CursorInTurn
<1>12. me \in Known(b)
  BY <1>3, <1>4, InRow
<1>13. t \in Thread
  <2>1. PICK u \in Thread : body' = [body EXCEPT ![b] = u]
    BY FillMoves
  <2>2. body'[b] = u
    BY <1>1, <2>1
  <2>3. QED
    BY <1>8, <2>2
<1>14. t.pc = "loop" => t.turn = solver_count
  BY <1>2, <1>5, <1>6
<1>15. QED
  BY <1>1, <1>3, <1>4, <1>5, <1>6, <1>8, <1>9, <1>10, <1>11, <1>12, <1>13, <1>14

LEMMA FillDeals == ASSUME IInv, DealInv, NEW b \in Bodies, Fill(b) PROVE DealInv'
<1> DEFINE old == body[b]
<1>1. old.at \in 0..Records - 1
  BY ThreadIs
<1>2. PICK k \in 1..solver_count, me \in Readers, t \in Thread :
        /\ k \in DOMAIN old.qps /\ me = old.qps[k] /\ me \in Known(b)
        /\ t.qps = old.qps /\ t.new = old.new /\ t.at = (old.at + 1) % Records
        /\ body'[b] = t /\ \A c \in Bodies \ {b} : body'[c] = body[c]
        /\ full_'[me] = Append(full_[me], old.at)
        /\ \A q \in Readers \ {me} : full_'[q] = full_[q]
        /\ Turn(old) = k /\ Turn(t) = k + 1 /\ AtTurn(old) /\ old.pc = "fill"
        /\ t.pc \in {"loop", "take", "accept"} /\ (t.pc = "loop" => t.turn = solver_count)
  BY FillIs
<1>3. Dealing'
  <2>1. ASSUME NEW c \in Bodies, NEW i \in DOMAIN body[c].qps
        PROVE  InTurn(body'[c], i, full_'[body[c].qps[i]])
    <3>1. /\ InTurn(body[c], i, full_[body[c].qps[i]]) /\ body[c].qps[i] \in Readers
          /\ body[c].qps[i] \in Known(c) /\ i \in 1..solver_count
          /\ full_[body[c].qps[i]] \in Seq(0..Records - 1)
      BY InRow DEF DealInv, Dealing
    <3>2. CASE c # b
      <4>1. body[c].qps[i] # me
        BY <1>2, <3>1, <3>2 DEF IInv, KnownApart
      <4>2. QED
        BY <1>2, <3>1, <3>2, <4>1
    <3>3. CASE c = b /\ i = k
      <4>1. full_[me] \in Seq(0..Records - 1) /\ InTurn(old, k, full_[me])
        BY <1>2, <3>1, <3>3
      <4>2. InTurn(t, k, Append(full_[me], old.at))
        BY <1>1, <1>2, <4>1, InTurnAppend
      <4>3. QED
        BY <1>2, <3>3, <4>2
    <3>4. CASE c = b /\ i # k
      <4>1. body[c].qps[i] # me
        BY <1>2, <3>4 DEF DealInv, KnownOnce, OneByOne
      <4>2. InTurn(t, i, full_[body[c].qps[i]])
        BY <1>2, <3>1, <3>4, InTurnOther
      <4>3. QED
        BY <1>2, <3>1, <3>4, <4>1, <4>2
    <3>5. QED
      BY <3>2, <3>3, <3>4
  <2>2. \A c \in Bodies : body'[c].qps = body[c].qps
    BY <1>2
  <2>3. QED
    BY <2>1, <2>2 DEF Dealing
<1>4. CursorInTurn'
  <2>1. AtTurn(t)
    <3>1. t.pc = "loop" => t.turn = solver_count
      BY <1>2
    <3>2. ASSUME Records % solver_count = 0
          PROVE  t.at % solver_count = (Turn(t) - 1) % solver_count
      <4>1. old.at % solver_count = (k - 1) % solver_count
        BY <1>2, <3>2 DEF AtTurn
      <4>2. (k - 1) % solver_count = k - 1
        <5>1. k - 1 \in 0..solver_count - 1 /\ solver_count \in Nat \ {0}
          BY DataReaderAssumption
        <5>2. QED
          BY ONLY <5>1, ModSmall
      <4>3. ((old.at + 1) % Records) % solver_count = k % solver_count
        <5>1. PICK at \in 0..Records - 1 : at = old.at
          BY <1>1
        <5>2. at % solver_count = k - 1
          BY <4>1, <4>2, <5>1
        <5>3. ((at + 1) % Records) % solver_count = k % solver_count
          BY <3>2, <5>2, NextTurn
        <5>4. QED
          BY <5>1, <5>3
      <4>4. (k + 1) - 1 = k
        OBVIOUS
      <4>5. QED
        BY <1>2, <4>3, <4>4
    <3>3. QED
      BY <3>1, <3>2 DEF AtTurn
  <2>2. \A c \in Bodies : AtTurn(body'[c])
    BY <1>2, <2>1 DEF DealInv, CursorInTurn
  <2>3. QED
    BY <2>2 DEF CursorInTurn
<1>5. \A c \in Bodies : body'[c].qps = body[c].qps /\ body'[c].new = body[c].new
  BY <1>2
<1>6. NewEmpty'
  <2>1. ASSUME NEW c \in Bodies, NEW q \in Elements(body[c].new) PROVE full_'[q] = << >>
    <3>1. full_[q] = << >> /\ q \in Readers /\ q \in Known(c)
      BY ThreadIs DEF DealInv, NewEmpty, Known, Elements
    <3>2. q # me
      <4>1. CASE c = b
        <5>1. me \in Elements(body[b].qps)
          BY <1>2, InRow
        <5>2. QED
          BY <4>1, <5>1 DEF DealInv, KnownOnce
      <4>2. CASE c # b
        BY <1>2, <3>1, <4>2 DEF IInv, KnownApart
      <4>3. QED
        BY <4>1, <4>2
    <3>3. QED
      BY <1>2, <3>1, <3>2
  <2>2. QED
    BY <1>5, <2>1 DEF NewEmpty
<1>7. KnownOnce'
  BY <1>5 DEF DealInv, KnownOnce
<1>8. QED
  BY <1>3, <1>4, <1>6, <1>7 DEF DealInv

LEMMA NewDeals == ASSUME IInv, DealInv, NEW r \in Readers, New(r) PROVE DealInv'
<1>1. PICK b \in IF Expired THEN {c \in Bodies : body[c] = NoThread} ELSE {bodies_} :
        body' = [body EXCEPT ![b].new = Append(@, r),
                             ![b].pc = IF Expired THEN "accept" ELSE @]
  BY DEF New
<1>2. b \in Bodies /\ (Expired => body[b] = NoThread)
  BY <1>1 DEF Expired, IInv, TypeOK
<1>3. /\ body \in [Bodies -> Thread] /\ full_ \in [Readers -> Seq(0..Records - 1)]
      /\ full_' = [full_ EXCEPT ![r] = << >>] /\ \A c \in Bodies : r \notin Known(c)
  BY DEF New, IInv, TypeOK, Known
<1> DEFINE old == body[b]
           t == [old EXCEPT !.new = Append(@, r), !.pc = IF Expired THEN "accept" ELSE @]
<1>4. old \in Thread /\ old.new \in Seq(Readers) /\ old.turn \in 0..solver_count
  BY <1>2, ThreadIs
<1>5. /\ t.new = Append(old.new, r) /\ t.qps = old.qps /\ t.turn = old.turn /\ t.at = old.at
      /\ t.pc = (IF Expired THEN "accept" ELSE old.pc)
  BY <1>4 DEF Thread
<1>6. body' = [body EXCEPT ![b] = t]
  BY <1>1, <1>2, <1>4 DEF Thread
<1> HIDE DEF t
<1>7. body'[b] = t /\ \A c \in Bodies \ {b} : body'[c] = body[c]
  BY <1>2, <1>3, <1>6
<1>8. full_'[r] = << >> /\ \A q \in Readers \ {r} : full_'[q] = full_[q]
  BY <1>3
<1>9. Turn(t) = Turn(old) /\ ((t.pc = "ended") <=> (old.pc = "ended")) /\ (t.pc = "loop" => old.pc = "loop")
  BY <1>2, <1>5 DEF Turn, NoThread
<1>10. \A c \in Bodies : body'[c].qps = body[c].qps
  BY <1>5, <1>7
<1>11. Dealing'
  <2>1. ASSUME NEW c \in Bodies, NEW i \in DOMAIN body[c].qps
        PROVE  InTurn(body'[c], i, full_'[body[c].qps[i]])
    <3>1. /\ InTurn(body[c], i, full_[body[c].qps[i]]) /\ body[c].qps[i] \in Readers
          /\ body[c].qps[i] \in Known(c)
      BY InRow DEF DealInv, Dealing
    <3>2. full_'[body[c].qps[i]] = full_[body[c].qps[i]]
      BY <1>3, <1>8, <3>1
    <3>3. CASE c # b
      BY <1>7, <3>1, <3>2, <3>3
    <3>4. CASE c = b
      <4>1. InTurn(t, i, full_[body[c].qps[i]])
        BY <1>5, <1>9, <3>1, <3>4 DEF InTurn, Ago
      <4>2. QED
        BY <1>7, <3>2, <3>4, <4>1
    <3>5. QED
      BY <3>3, <3>4
  <2>2. QED
    BY <1>10, <2>1 DEF Dealing
<1>12. CursorInTurn'
  <2>1. AtTurn(t)
    <3>1. AtTurn(old)
      BY <1>2 DEF DealInv, CursorInTurn
    <3>2. QED
      BY <1>5, <1>9, <3>1 DEF AtTurn
  <2>2. \A c \in Bodies : AtTurn(body'[c])
    BY <1>7, <2>1 DEF DealInv, CursorInTurn
  <2>3. QED
    BY <2>2 DEF CursorInTurn
<1>13. Elements(t.new) = Elements(old.new) \union {r} /\ OneByOne(t.new)
  <2>1. r \notin Elements(old.new) /\ OneByOne(old.new)
    BY <1>2, <1>3 DEF Known, DealInv, KnownOnce
  <2>2. QED
    BY <1>4, <1>5, <2>1, ElementsOfAppend, OneAppend
<1>14. NewEmpty'
  <2>1. ASSUME NEW c \in Bodies, NEW q \in Elements(body'[c].new) PROVE full_'[q] = << >>
    <3>1. CASE q = r
      BY <1>8, <3>1
    <3>2. CASE q # r
      <4>1. q \in Elements(body[c].new)
        BY <1>7, <1>13, <2>1, <3>2
      <4>2. q \in Readers /\ full_[q] = << >>
        BY <4>1, ThreadIs DEF Elements, DealInv, NewEmpty
      <4>3. QED
        BY <1>8, <3>2, <4>2
    <3>3. QED
      BY <3>1, <3>2
  <2>2. QED
    BY <2>1 DEF NewEmpty
<1>15. KnownOnce'
  <2>1. Elements(t.qps) \intersect Elements(t.new) = {}
    BY <1>2, <1>3, <1>5, <1>13 DEF Known, DealInv, KnownOnce
  <2>2. OneByOne(t.qps)
    BY <1>2, <1>5 DEF DealInv, KnownOnce
  <2>3. \A c \in Bodies : /\ OneByOne(body'[c].qps) /\ OneByOne(body'[c].new)
                          /\ Elements(body'[c].qps) \intersect Elements(body'[c].new) = {}
    BY <1>7, <1>13, <2>1, <2>2 DEF DealInv, KnownOnce
  <2>4. QED
    BY <2>3 DEF KnownOnce
<1>16. QED
  BY <1>11, <1>12, <1>14, <1>15 DEF DealInv

LEMMA NextDeals == IInv /\ DealInv /\ [Next]_vars => DealInv'
<1> SUFFICES ASSUME IInv, DealInv, [Next]_vars PROVE DealInv'
  OBVIOUS
<1>1. CASE \E r \in Readers : SetUp(r) \/ GiveBack(r) \/ Erase(r)
  BY <1>1, DealKept DEF SetUp, GiveBack, Erase
<1>2. CASE \E r \in Readers : New(r) \/ Reset(r) \/ Get(r) \/ Join(r)
  BY <1>2, NewDeals, ResetDeals, GetDeals, JoinDeals
<1>3. CASE \E b \in Bodies : BodyStep(b)
  BY <1>3, AcceptDeals, FillDeals, RestDeals DEF BodyStep
<1>4. CASE UNCHANGED vars
  BY <1>4, DealKept DEF vars
<1>5. QED
  BY <1>1, <1>2, <1>3, <1>4 DEF Next, Use, Destroy

LEMMA DealHolds == Spec => []DealInv
BY InitDeal, NextDeals, InvHolds, PTL DEF Spec

\* Whenever readers come and go, and at whatever pace they take their data, what
\* a solver finds in its queue is every solver_count-th record, and always those
\* of its place in the row when the records can be divided evenly
\* (data_reader.hpp:20, data_reader.cpp:90-114).
THEOREM DealtInTurn == Spec => []RoundRobin
<1>1. ASSUME DealInv PROVE RoundRobin
  BY <1>1 DEF DealInv, Dealing, InTurn, RoundRobin
<1>2. QED
  BY <1>1, DealHolds, PTL
-----------------------------------------------------------------------------
(* Who is known to which body *)

LEMMA HeadAndTail ==
  ASSUME NEW S, NEW q \in Seq(S), q # << >>
  PROVE  Elements(q) = {Head(q)} \union Elements(Tail(q))
<1>1. /\ Len(q) \in Nat \ {0} /\ DOMAIN q = 1..Len(q) /\ DOMAIN Tail(q) = 1..Len(q) - 1
      /\ Head(q) = q[1] /\ \A i \in 1..Len(q) - 1 : Tail(q)[i] = q[i + 1]
  OBVIOUS
<1>2. ASSUME NEW i \in DOMAIN q PROVE q[i] \in {Head(q)} \union Elements(Tail(q))
  <2>1. CASE i = 1
    BY <1>1, <2>1
  <2>2. CASE i # 1
    <3>1. i - 1 \in 1..Len(q) - 1 /\ (i - 1) + 1 = i
      BY <1>1, <2>2
    <3>2. Tail(q)[i - 1] = q[i]
      BY <1>1, <3>1
    <3>3. QED
      BY <1>1, <3>1, <3>2 DEF Elements
  <2>3. QED
    BY <2>1, <2>2
<1>3. Elements(Tail(q)) \subseteq Elements(q) /\ Head(q) \in Elements(q)
  BY ElementsOfTail
<1>4. QED
  BY <1>2, <1>3 DEF Elements

\* A thread knows the same readers after a step, and none of them is new again
LEMMA ThreadKnows ==
  ASSUME IInv, NEW b \in Bodies, BodyStep(b)
  PROVE  /\ UNCHANGED << state, body_, bodies_ >>
         /\ \A c \in Bodies : /\ Known(c)' = Known(c) /\ Elements(body'[c].new) \subseteq Elements(body[c].new)
                              /\ body'[c].stop = body[c].stop
<1>1. body \in [Bodies -> Thread] /\ body[b].qps \in Seq(Readers) /\ body[b].new \in Seq(Readers)
  BY ThreadIs DEF IInv, TypeOK
<1>2. CASE Accept(b)
  <2> DEFINE r == Head(body[b].new)
             t == [body[b] EXCEPT !.qps = Append(@, r), !.new = Tail(@), !.turn = @ + 1, !.pc = "take"]
  <2>1. body[b].new # << >> /\ body' = [body EXCEPT ![b] = t] /\ body[b] \in Thread
    BY <1>1, <1>2 DEF Accept, Thread
  <2>2. t.qps = Append(body[b].qps, r) /\ t.new = Tail(body[b].new) /\ t.stop = body[b].stop
    BY <2>1 DEF Thread
  <2> HIDE DEF t
  <2>3. r \in Readers /\ Elements(t.qps) = Elements(body[b].qps) \union {r}
    BY <1>1, <2>1, <2>2, ElementsOfTail, ElementsOfAppend
  <2>4. Elements(body[b].new) = {r} \union Elements(t.new)
    BY <1>1, <2>1, <2>2, HeadAndTail
  <2>5. body'[b] = t /\ \A c \in Bodies \ {b} : body'[c] = body[c]
    BY <1>1, <2>1
  <2>6. Known(b)' = Elements(t.qps) \union Elements(t.new)
    BY <2>5 DEF Known, Elements
  <2>7. \A c \in Bodies \ {b} : Known(c)' = Known(c)
    BY <2>5 DEF Known, Elements
  <2>8. Known(b)' = Known(b)
    BY <2>3, <2>4, <2>6 DEF Known
  <2>9. QED
    BY <1>2, <2>2, <2>4, <2>5, <2>7, <2>8 DEF Accept
<1>3. CASE Take(b) \/ Fill(b) \/ Loop(b) \/ Interrupted(b)
  <2>1. \E t \in Thread : /\ body' = [body EXCEPT ![b] = t] /\ t.qps = body[b].qps
                          /\ t.new = body[b].new /\ t.stop = body[b].stop
    <3>1. CASE Take(b)
      <4> DEFINE t == [body[b] EXCEPT !.pc = "fill"]
      <4>1. body' = [body EXCEPT ![b] = t]
        BY <1>1, <3>1 DEF Take, Thread
      <4>2. t \in Thread /\ t.qps = body[b].qps /\ t.new = body[b].new /\ t.stop = body[b].stop
        BY <1>1 DEF Thread
      <4> HIDE DEF t
      <4>3. QED
        BY <4>1, <4>2
    <3>2. CASE Fill(b)
      <4>1. PICK t \in Thread : body' = [body EXCEPT ![b] = t]
        BY <3>2, FillMoves
      <4>2. body'[b] = t
        BY <1>1, <4>1
      <4>3. body'[b].qps = body[b].qps /\ body'[b].new = body[b].new /\ body'[b].stop = body[b].stop
        BY <1>1, <3>2 DEF Fill, Thread
      <4>4. QED
        BY <4>1, <4>2, <4>3
    <3>3. CASE Loop(b)
      <4> DEFINE t == [body[b] EXCEPT !.turn = 1, !.pc = IF body[b].stop THEN "ended" ELSE "take"]
      <4>1. body' = [body EXCEPT ![b] = t]
        BY <1>1, <3>3 DEF Loop, Thread
      <4>2. 1 \in 0..solver_count
        BY DataReaderAssumption
      <4>3. t \in Thread /\ t.qps = body[b].qps /\ t.new = body[b].new /\ t.stop = body[b].stop
        BY <1>1, <4>2 DEF Thread
      <4> HIDE DEF t
      <4>4. QED
        BY <4>1, <4>3
    <3>4. CASE Interrupted(b)
      <4> DEFINE t == [body[b] EXCEPT !.pc = "ended"]
      <4>1. body' = [body EXCEPT ![b] = t]
        BY <1>1, <3>4 DEF Interrupted, Thread
      <4>2. t \in Thread /\ t.qps = body[b].qps /\ t.new = body[b].new /\ t.stop = body[b].stop
        BY <1>1 DEF Thread
      <4> HIDE DEF t
      <4>3. QED
        BY <4>1, <4>2
    <3>5. QED
      BY <1>3, <3>1, <3>2, <3>3, <3>4
  <2>2. PICK t \in Thread : /\ body' = [body EXCEPT ![b] = t] /\ t.qps = body[b].qps
                            /\ t.new = body[b].new /\ t.stop = body[b].stop
    BY <2>1
  <2>3. body'[b] = t /\ \A c \in Bodies \ {b} : body'[c] = body[c]
    BY <1>1, <2>2
  <2>4. \A c \in Bodies : body'[c].qps = body[c].qps /\ body'[c].new = body[c].new /\ body'[c].stop = body[c].stop
    BY <2>2, <2>3
  <2>5. QED
    BY <1>3, <2>4 DEF Take, Fill, Loop, Interrupted, Known, Elements
<1>4. QED
  BY <1>2, <1>3 DEF BodyStep

LEMMA InitShares == Init => ShareInv
<1> SUFFICES ASSUME Init PROVE ShareInv
  OBVIOUS
<1>1. KnownToItsBody /\ NewAreSetUp /\ JoinsAlone
  BY EmptyElements DEF Init, KnownToItsBody, NewAreSetUp, JoinsAlone, NoThread, Alive
<1>2. 0 % Records = 0
  BY ModSmall, DataReaderAssumption
<1>3. FirstRound
  BY <1>2 DEF Init, FirstRound, NoThread, Turn
<1>4. QED
  BY <1>1, <1>3 DEF ShareInv

LEMMA ShareKept ==
  ASSUME ShareInv, UNCHANGED << body_, body >>,
         \A r \in Readers : /\ state'[r] \in Alive <=> state[r] \in Alive
                            /\ state'[r] = "join" <=> state[r] = "join",
         \A b \in Bodies : \A r \in Elements(body[b].new) : state'[r] = "setup"
  PROVE  ShareInv'
<1>1. \A b \in Bodies : Known(b)' = Known(b)
  BY DEF Known
<1>2. \A b : Sharing(b)' = Sharing(b)
  BY DEF Sharing
<1>3. KnownToItsBody'
  BY DEF ShareInv, KnownToItsBody, Known
<1>4. NewAreSetUp' /\ FirstRound'
  BY DEF ShareInv, NewAreSetUp, FirstRound
<1>5. JoinsAlone'
  BY <1>2 DEF ShareInv, JoinsAlone, Sharing
<1>6. QED
  BY <1>3, <1>4, <1>5 DEF ShareInv

\* The owners' steps that leave the bodies alone
LEMMA UseShares ==
  ASSUME IInv, DealInv, ShareInv, NEW r \in Readers, Use(r)
  PROVE  ShareInv'
<1>1. /\ UNCHANGED << body_, body >> /\ state[r] \in Alive /\ state'[r] \in {"use", "hold"}
      /\ \A q \in Readers \ {r} : state'[q] = state[q]
      /\ state[r] = "setup" => full_[r] # << >>
  BY DEF Use, SetUp, Get, GiveBack, IInv, TypeOK, Alive
<1>2. \A b \in Bodies : r \notin Elements(body[b].new)
  BY <1>1 DEF ShareInv, NewAreSetUp, DealInv, NewEmpty
<1>3. \A b \in Bodies : Elements(body[b].new) \subseteq Readers
  BY ThreadIs DEF Elements
<1>4. \A b \in Bodies : \A q \in Elements(body[b].new) : state'[q] = "setup"
  BY <1>1, <1>2, <1>3 DEF ShareInv, NewAreSetUp
<1>5. QED
  BY <1>1, <1>4, ShareKept DEF Alive

LEMMA EraseShares == ASSUME IInv, ShareInv, NEW r \in Readers, Erase(r) PROVE ShareInv'
<1>1. /\ state[r] = "erase" /\ state'[r] = "none" /\ UNCHANGED body
      /\ \A q \in Readers \ {r} : state'[q] = state[q] /\ body_'[q] = body_[q]
  BY DEF Erase, IInv, TypeOK
<1>2. KnownToItsBody' /\ FirstRound'
  BY <1>1 DEF ShareInv, KnownToItsBody, FirstRound, Known, Alive
<1>3. NewAreSetUp'
  <2>1. \A b \in Bodies : Elements(body[b].new) \subseteq Readers
    BY ThreadIs DEF Elements
  <2>2. QED
    BY <1>1, <2>1 DEF ShareInv, NewAreSetUp
<1>4. \A b : Sharing(b)' = Sharing(b)
  BY <1>1 DEF Sharing, Alive
<1>5. JoinsAlone'
  <2>1. ASSUME NEW q \in Readers, state'[q] = "join"
        PROVE  /\ body'[body_'[q]].stop /\ Sharing(body_[q])' = {} /\ body_'[q] = body_[q]
               /\ \A p \in Readers : state'[p] = "join" /\ body_'[p] = body_'[q] => p = q
    BY <1>1, <1>4, <2>1 DEF ShareInv, JoinsAlone
  <2>2. QED
    BY <2>1 DEF JoinsAlone, Sharing
<1>6. QED
  BY <1>2, <1>3, <1>5 DEF ShareInv

LEMMA ResetShares == ASSUME IInv, ShareInv, NEW r \in Readers, Reset(r) PROVE ShareInv'
<1>1. /\ state[r] = "use" /\ body_[r] \in Bodies /\ UNCHANGED body_
      /\ \A q \in Readers \ {r} : state'[q] = state[q]
      /\ state \in [Readers -> Alive \union {"none", "join", "erase"}] /\ body \in [Bodies -> Thread]
  BY DEF Reset, IInv, TypeOK, KeptInv, Alive
<1>2. PICK b \in Bodies : b = body_[r]
  BY <1>1
<1>3. \/ /\ Sharing(b) = {r} /\ state'[r] = "join" /\ body' = [body EXCEPT ![b].stop = TRUE]
      \/ Sharing(b) # {r} /\ state'[r] = "erase" /\ UNCHANGED body
  BY <1>1, <1>2 DEF Reset
<1>4. \A c \in Bodies : /\ body'[c].qps = body[c].qps /\ body'[c].new = body[c].new
                        /\ body'[c].pc = body[c].pc /\ body'[c].turn = body[c].turn
                        /\ body'[c].at = body[c].at /\ (body[c].stop => body'[c].stop)
  <2>1. CASE UNCHANGED body
    BY <2>1
  <2>2. CASE body' = [body EXCEPT ![b].stop = TRUE]
    <3> DEFINE t == [body[b] EXCEPT !.stop = TRUE]
    <3>1. body' = [body EXCEPT ![b] = t]
      BY <1>1, <2>2
    <3>2. /\ t.qps = body[b].qps /\ t.new = body[b].new /\ t.stop
          /\ t.at = body[b].at /\ t.turn = body[b].turn /\ t.pc = body[b].pc
      BY <1>1 DEF Thread
    <3> HIDE DEF t
    <3>3. body'[b] = t /\ \A c \in Bodies \ {b} : body'[c] = body[c]
      BY <1>1, <3>1
    <3>4. QED
      BY <3>2, <3>3
  <2>3. QED
    BY <1>3, <2>1, <2>2
<1>5. \A c \in Bodies : Known(c)' = Known(c) /\ Turn(body'[c]) = Turn(body[c])
  BY <1>4 DEF Known, Elements, Turn
<1>6. \A q \in Readers : state'[q] \in Alive <=> (state[q] \in Alive /\ q # r)
  BY <1>1, <1>3 DEF Alive
<1>7. KnownToItsBody'
  BY <1>1, <1>5, <1>6 DEF ShareInv, KnownToItsBody, IInv, KeptInv
<1>8. NewAreSetUp'
  <2>1. ASSUME NEW c \in Bodies, NEW q \in Elements(body'[c].new)
        PROVE  state'[q] = "setup" /\ body_'[q] = c
    <3>1. q \in Readers /\ state[q] = "setup" /\ body_[q] = c
      BY <1>4, ThreadIs DEF ShareInv, NewAreSetUp, Elements
    <3>2. QED
      BY <1>1, <3>1
  <2>2. QED
    BY <2>1 DEF NewAreSetUp
<1>9. FirstRound'
  <2>1. \A c \in Bodies : body'[c].pc # "ended" /\ Len(body'[c].qps) < solver_count =>
           body'[c].at = (Turn(body'[c]) - 1) % Records
    BY <1>4, <1>5 DEF ShareInv, FirstRound
  <2>2. QED
    BY <2>1 DEF FirstRound
<1>10. \A c : Sharing(c)' = Sharing(c) \ {r}
  BY <1>1, <1>6 DEF Sharing
<1>11. JoinsAlone'
  <2>1. ASSUME NEW q \in Readers, state'[q] = "join"
        PROVE  /\ body'[body_[q]].stop
               /\ \A p \in Readers : state'[p] \in Alive => body_[p] # body_[q]
               /\ \A p \in Readers : state'[p] = "join" /\ body_[p] = body_[q] => p = q
    <3>1. CASE q = r
      <4>1. Sharing(b) = {r} /\ body'[b].stop
        BY <1>1, <1>3, <2>1, <3>1 DEF Thread
      <4>2. \A p \in Readers : p # r /\ state'[p] = "join" => body_[p] # b
        BY <1>1, <4>1 DEF ShareInv, JoinsAlone
      <4>3. QED
        BY <1>2, <1>6, <3>1, <4>1, <4>2 DEF Sharing
    <3>2. CASE q # r
      <4>1. /\ state[q] = "join" /\ body_[q] \in Bodies /\ body[body_[q]].stop /\ Sharing(body_[q]) = {}
            /\ \A p \in Readers : state[p] = "join" /\ body_[p] = body_[q] => p = q
        BY <1>1, <2>1, <3>2 DEF ShareInv, JoinsAlone, IInv, KeptInv
      <4>2. body_[q] # b
        BY <1>1, <1>2, <4>1 DEF Sharing, Alive
      <4>3. QED
        BY <1>1, <1>2, <1>3, <1>4, <1>6, <4>1, <4>2 DEF Sharing
    <3>3. QED
      BY <3>1, <3>2
  <2>2. QED
    BY <1>1, <2>1 DEF JoinsAlone, Sharing
<1>12. QED
  BY <1>7, <1>8, <1>9, <1>11 DEF ShareInv

LEMMA JoinShares == ASSUME IInv, ShareInv, NEW r \in Readers, Join(r) PROVE ShareInv'
<1>1. /\ state[r] = "join" /\ body_[r] \in Bodies /\ UNCHANGED body_
      /\ \A q \in Readers \ {r} : state'[q] = state[q]
      /\ state'[r] = "erase" /\ body \in [Bodies -> Thread]
  BY DEF Join, IInv, TypeOK, KeptInv
<1>2. PICK b \in Bodies : b = body_[r]
  BY <1>1
<1>3. body'[b] = NoThread /\ \A c \in Bodies \ {b} : body'[c] = body[c]
  BY <1>1, <1>2 DEF Join
<1>4. Sharing(b) = {} /\ \A p \in Readers : state[p] = "join" /\ body_[p] = b => p = r
  BY <1>1, <1>2 DEF ShareInv, JoinsAlone
<1>5. \A q \in Readers : state'[q] \in Alive <=> state[q] \in Alive
  BY <1>1 DEF Alive
<1>6. \A c : Sharing(c)' = Sharing(c)
  BY <1>1, <1>5 DEF Sharing
<1>7. KnownToItsBody'
  <2>1. ASSUME NEW q \in Readers, state[q] \in Alive
        PROVE  q \in Elements(body'[body_[q]].qps) \union Elements(body'[body_[q]].new)
    <3>1. body_[q] \in Bodies \ {b} /\ q \in Known(body_[q])
      BY <1>4, <2>1 DEF Sharing, IInv, KeptInv, ShareInv, KnownToItsBody
    <3>2. QED
      BY <1>3, <3>1 DEF Known
  <2>2. QED
    BY <1>1, <1>5, <2>1 DEF KnownToItsBody, Known
<1>8. NoThread.new = << >> /\ NoThread.at = 0 /\ Turn(NoThread) - 1 = 0 /\ 0 % Records = 0
  <2>1. 0 % Records = 0
    BY ModSmall, DataReaderAssumption
  <2>2. QED
    BY <2>1 DEF NoThread, Turn
<1>9. NewAreSetUp'
  <2>1. ASSUME NEW c \in Bodies, NEW q \in Elements(body'[c].new)
        PROVE  state'[q] = "setup" /\ body_'[q] = c
    <3>1. c # b
      BY <1>3, <1>8, EmptyElements
    <3>2. q \in Readers /\ state[q] = "setup" /\ body_[q] = c
      BY <1>3, <3>1, ThreadIs DEF ShareInv, NewAreSetUp, Elements
    <3>3. QED
      BY <1>1, <3>2
  <2>2. QED
    BY <2>1 DEF NewAreSetUp
<1>10. FirstRound'
  <2>1. \A c \in Bodies : body'[c].pc # "ended" /\ Len(body'[c].qps) < solver_count =>
           body'[c].at = (Turn(body'[c]) - 1) % Records
    BY <1>3, <1>8 DEF ShareInv, FirstRound
  <2>2. QED
    BY <2>1 DEF FirstRound
<1>11. JoinsAlone'
  <2>1. ASSUME NEW q \in Readers, state'[q] = "join"
        PROVE  /\ body'[body_[q]].stop
               /\ \A p \in Readers : state'[p] \in Alive => body_[p] # body_[q]
               /\ \A p \in Readers : state'[p] = "join" /\ body_[p] = body_[q] => p = q
    <3>1. q # r /\ state[q] = "join" /\ body_[q] \in Bodies
      BY <1>1, <2>1 DEF IInv, KeptInv
    <3>2. body_[q] # b
      BY <1>4, <3>1
    <3>3. QED
      BY <1>1, <1>3, <1>5, <3>1, <3>2 DEF ShareInv, JoinsAlone, Sharing
  <2>2. QED
    BY <1>1, <2>1 DEF JoinsAlone, Sharing
<1>12. QED
  BY <1>7, <1>9, <1>10, <1>11 DEF ShareInv

LEMMA NewShares == ASSUME IInv, ShareInv, NEW r \in Readers, New(r) PROVE ShareInv'
<1>1. PICK b \in IF Expired THEN {c \in Bodies : body[c] = NoThread} ELSE {bodies_} :
        /\ body' = [body EXCEPT ![b].new = Append(@, r),
                                ![b].pc = IF Expired THEN "accept" ELSE @]
        /\ bodies_' = b
        /\ body_' = [body_ EXCEPT ![r] = b]
  BY DEF New
<1>2. b \in Bodies /\ (Expired => body[b] = NoThread) /\ (~Expired => b = bodies_ /\ Sharing(b) # {})
  BY <1>1 DEF Expired, IInv, TypeOK
<1>3. /\ body \in [Bodies -> Thread] /\ \A c \in Bodies : r \notin Known(c)
      /\ state[r] = "none" /\ state'[r] = "setup" /\ body_'[r] = b
      /\ \A q \in Readers \ {r} : state'[q] = state[q] /\ body_'[q] = body_[q]
  BY <1>1 DEF New, IInv, TypeOK, Known
<1> DEFINE old == body[b]
           t == [old EXCEPT !.new = Append(@, r), !.pc = IF Expired THEN "accept" ELSE @]
<1>4. old \in Thread /\ old.new \in Seq(Readers)
  BY <1>2, ThreadIs
<1>5. /\ t.new = Append(old.new, r) /\ t.qps = old.qps /\ t.turn = old.turn /\ t.at = old.at
      /\ t.stop = old.stop /\ t.pc = (IF Expired THEN "accept" ELSE old.pc)
  BY <1>4 DEF Thread
<1>6. body' = [body EXCEPT ![b] = t]
  BY <1>1, <1>2, <1>4 DEF Thread
<1> HIDE DEF t
<1>7. body'[b] = t /\ \A c \in Bodies \ {b} : body'[c] = body[c]
  BY <1>2, <1>3, <1>6
<1>8. Elements(t.new) = Elements(old.new) \union {r}
  BY <1>4, <1>5, ElementsOfAppend
<1>9. KnownToItsBody'
  <2>1. ASSUME NEW q \in Readers, state'[q] \in Alive
        PROVE  q \in Elements(body'[body_'[q]].qps) \union Elements(body'[body_'[q]].new)
    <3>1. CASE q = r
      BY <1>3, <1>7, <1>8, <3>1
    <3>2. CASE q # r
      <4>1. PICK c \in Bodies : c = body_[q] /\ q \in Elements(body[c].qps) \union Elements(body[c].new)
        BY <1>3, <2>1, <3>2 DEF ShareInv, KnownToItsBody, IInv, KeptInv, Known
      <4>2. Elements(body[c].qps) \union Elements(body[c].new)
              \subseteq Elements(body'[c].qps) \union Elements(body'[c].new)
        BY <1>5, <1>7, <1>8
      <4>3. body_'[q] = c
        BY <1>3, <3>2, <4>1
      <4>4. QED
        BY <4>1, <4>2, <4>3
    <3>3. QED
      BY <3>1, <3>2
  <2>2. QED
    BY <2>1 DEF KnownToItsBody, Known
<1>10. NewAreSetUp'
  <2>1. ASSUME NEW c \in Bodies, NEW q \in Elements(body'[c].new)
        PROVE  state'[q] = "setup" /\ body_'[q] = c
    <3>1. CASE q = r /\ c = b
      BY <1>3, <3>1
    <3>2. CASE q = r /\ c # b
      BY <1>3, <1>7, <3>2 DEF Known
    <3>3. CASE q # r
      <4>1. q \in Elements(body[c].new)
        BY <1>7, <1>8, <3>3
      <4>2. q \in Readers /\ state[q] = "setup" /\ body_[q] = c
        BY <4>1, ThreadIs DEF ShareInv, NewAreSetUp, Elements
      <4>3. QED
        BY <1>3, <3>3, <4>2
    <3>4. QED
      BY <3>1, <3>2, <3>3
  <2>2. QED
    BY <2>1 DEF NewAreSetUp
<1>11. JoinsAlone'
  <2>1. ASSUME NEW q \in Readers, state'[q] = "join"
        PROVE  /\ body'[body_'[q]].stop
               /\ \A p \in Readers : state'[p] \in Alive => body_'[p] # body_'[q]
               /\ \A p \in Readers : state'[p] = "join" /\ body_'[p] = body_'[q] => p = q
    <3>1. /\ q # r /\ state[q] = "join" /\ body_[q] \in Bodies /\ body[body_[q]].stop
          /\ Sharing(body_[q]) = {} /\ body_'[q] = body_[q]
          /\ \A p \in Readers : state[p] = "join" /\ body_[p] = body_[q] => p = q
      BY <1>3, <2>1 DEF IInv, KeptInv, ShareInv, JoinsAlone
    <3>2. body_[q] # b
      BY <1>2, <3>1 DEF NoThread
    <3>3. QED
      BY <1>3, <1>7, <3>1, <3>2 DEF Sharing
  <2>2. QED
    BY <2>1 DEF JoinsAlone, Sharing
<1>12. FirstRound'
  <2>1. Turn(t) = Turn(old) /\ ((t.pc = "ended") <=> (old.pc = "ended"))
    BY <1>2, <1>5 DEF Turn, NoThread
  <2>2. \A c \in Bodies : body'[c].pc # "ended" /\ Len(body'[c].qps) < solver_count =>
           body'[c].at = (Turn(body'[c]) - 1) % Records
    BY <1>2, <1>5, <1>7, <2>1 DEF ShareInv, FirstRound
  <2>3. QED
    BY <2>2 DEF FirstRound
<1>13. QED
  BY <1>9, <1>10, <1>11, <1>12 DEF ShareInv

\* Until all solvers are there, each record goes to the next position
LEMMA FirstRoundGoesOn ==
  ASSUME IInv, ShareInv, NEW b \in Bodies, BodyStep(b)
  PROVE  FirstRound'
<1>1. /\ body[b] \in Thread /\ body \in [Bodies -> Thread] /\ RoundOk(body[b])
      /\ body[b].turn \in 0..solver_count /\ body[b].at \in 0..Records - 1
      /\ Len(body[b].qps) \in 0..solver_count
  BY ThreadIs DEF IInv, TypeOK
<1>2. PICK t : body' = [body EXCEPT ![b] = t]
  <2>1. CASE Fill(b)
    BY <2>1, FillMoves
  <2>2. CASE ~Fill(b)
    BY <2>2 DEF BodyStep, Accept, Take, Loop, Interrupted
  <2>3. QED
    BY <2>1, <2>2
<1>3. body'[b] = t /\ \A c \in Bodies \ {b} : body'[c] = body[c]
  BY <1>1, <1>2
<1>4. ASSUME body'[b].pc # "ended", Len(body'[b].qps) < solver_count
      PROVE  body'[b].at = (Turn(body'[b]) - 1) % Records
  <2>1. ASSUME body[b].pc # "ended", Len(body[b].qps) < solver_count
        PROVE  body[b].at = (Turn(body[b]) - 1) % Records
    BY <2>1 DEF ShareInv, FirstRound
  <2>2. CASE Accept(b)
    <3>1. /\ body[b].pc = "accept" /\ body'[b].pc = "take" /\ body'[b].turn = body[b].turn + 1
          /\ body'[b].at = body[b].at /\ Len(body[b].qps) < solver_count
      BY <1>1, <2>2 DEF Accept, Thread, RoundOk
    <3>2. Turn(body'[b]) = Turn(body[b])
      BY <3>1 DEF Turn
    <3>3. QED
      BY <2>1, <3>1, <3>2
  <2>3. CASE Take(b)
    <3>1. /\ body[b].pc = "take" /\ body'[b].pc = "fill" /\ body'[b].turn = body[b].turn
          /\ body'[b].at = body[b].at /\ body'[b].qps = body[b].qps
      BY <1>1, <2>3 DEF Take, Thread
    <3>2. Turn(body'[b]) = Turn(body[b])
      BY <3>1 DEF Turn
    <3>3. QED
      BY <1>4, <2>1, <3>1, <3>2
  <2>4. CASE Fill(b)
    <3>1. /\ body[b].pc = "fill" /\ body'[b].pc = AfterRecord(body[b])
          /\ body'[b].at = (body[b].at + 1) % Records /\ body'[b].qps = body[b].qps
          /\ body'[b].turn = IF AfterRecord(body[b]) = "take" THEN body[b].turn + 1 ELSE body[b].turn
      BY <1>1, <2>4 DEF Fill, Thread
    <3>2. body[b].turn = Len(body[b].qps) /\ body[b].turn # solver_count
      BY <1>1, <1>4, <3>1, DataReaderAssumption DEF RoundOk
    <3>3. AfterRecord(body[b]) = "accept"
      BY <1>1, <1>4, <3>1, <3>2, DataReaderAssumption DEF AfterRecord
    <3>4. PICK k \in Int : k = body[b].turn /\ Turn(body[b]) = k /\ Turn(body'[b]) = k + 1
      BY <1>1, <3>1, <3>3 DEF Turn
    <3>5. body[b].at = (k - 1) % Records
      BY <1>4, <2>1, <3>1, <3>4
    <3>6. (body[b].at + 1) % Records = ((k - 1) + 1) % Records
      <4>1. PICK m \in Int : m = k - 1
        OBVIOUS
      <4>2. ((m % Records) + 1) % Records = (m + 1) % Records
        BY ModNext, DataReaderAssumption
      <4>3. QED
        BY <3>5, <4>1, <4>2
    <3>7. (k - 1) + 1 = (k + 1) - 1
      OBVIOUS
    <3>8. QED
      BY <3>1, <3>4, <3>6, <3>7
  <2>5. CASE Loop(b)
    <3>1. body[b].pc = "loop" /\ body'[b].qps = body[b].qps
      BY <1>1, <2>5 DEF Loop, Thread
    <3>2. QED
      BY <1>1, <1>4, <3>1, DataReaderAssumption DEF RoundOk
  <2>6. CASE Interrupted(b)
    BY <1>1, <1>4, <2>6 DEF Interrupted, Thread
  <2>7. QED
    BY <2>2, <2>3, <2>4, <2>5, <2>6 DEF BodyStep
<1>5. \A c \in Bodies : body'[c].pc # "ended" /\ Len(body'[c].qps) < solver_count =>
         body'[c].at = (Turn(body'[c]) - 1) % Records
  BY <1>3, <1>4 DEF ShareInv, FirstRound
<1>6. QED
  BY <1>5 DEF FirstRound

LEMMA ThreadShares == ASSUME IInv, ShareInv, NEW b \in Bodies, BodyStep(b) PROVE ShareInv'
<1>1. /\ UNCHANGED << state, body_, bodies_ >>
      /\ \A c \in Bodies : /\ Known(c)' = Known(c) /\ Elements(body'[c].new) \subseteq Elements(body[c].new)
                           /\ body'[c].stop = body[c].stop
  BY ThreadKnows
<1>2. KnownToItsBody'
  <2>1. \A c \in Bodies : Elements(body'[c].qps) \union Elements(body'[c].new) = Known(c)
    BY <1>1 DEF Known
  <2>2. \A q \in Readers : state[q] \in Alive => body_[q] \in Bodies /\ q \in Known(body_[q])
    BY DEF IInv, KeptInv, ShareInv, KnownToItsBody
  <2>3. \A q \in Readers : state'[q] \in Alive =>
           q \in Elements(body'[body_'[q]].qps) \union Elements(body'[body_'[q]].new)
    BY <1>1, <2>1, <2>2
  <2>4. QED
    BY <2>3 DEF KnownToItsBody, Known
<1>3. NewAreSetUp'
  <2>1. \A c \in Bodies : \A q \in Elements(body'[c].new) : state[q] = "setup" /\ body_[q] = c
    BY <1>1 DEF ShareInv, NewAreSetUp
  <2>2. QED
    BY <1>1, <2>1 DEF NewAreSetUp
<1>4. JoinsAlone'
  <2>1. ASSUME NEW q \in Readers, state[q] = "join"
        PROVE  /\ body'[body_[q]].stop /\ Sharing(body_[q]) = {}
               /\ \A p \in Readers : state[p] = "join" /\ body_[p] = body_[q] => p = q
    BY <1>1, <2>1 DEF ShareInv, JoinsAlone, IInv, KeptInv
  <2>2. QED
    BY <1>1, <2>1 DEF JoinsAlone, Sharing
<1>5. QED
  BY <1>2, <1>3, <1>4, FirstRoundGoesOn DEF ShareInv

LEMMA NextShares == IInv /\ DealInv /\ ShareInv /\ [Next]_vars => ShareInv'
<1> SUFFICES ASSUME IInv, DealInv, ShareInv, [Next]_vars PROVE ShareInv'
  OBVIOUS
<1>1. CASE \E r \in Readers : New(r) \/ Reset(r) \/ Use(r) \/ Destroy(r)
  BY <1>1, NewShares, ResetShares, UseShares, JoinShares, EraseShares DEF Destroy
<1>2. CASE \E b \in Bodies : BodyStep(b)
  BY <1>2, ThreadShares
<1>3. CASE UNCHANGED vars
  <2>1. UNCHANGED << state, body_, body >>
    BY <1>3 DEF vars
  <2>2. \A b \in Bodies : \A r \in Elements(body[b].new) : state'[r] = "setup"
    BY <2>1 DEF ShareInv, NewAreSetUp
  <2>3. QED
    BY <2>1, <2>2, ShareKept
<1>4. QED
  BY <1>1, <1>2, <1>3 DEF Next

LEMMA ShareHolds == Spec => []ShareInv
BY InitShares, NextShares, InvHolds, DealHolds, PTL DEF Spec
=============================================================================
