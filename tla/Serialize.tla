----------------------------- MODULE Serialize -----------------------------
(***************************************************************************)
(* SerializeData (1.Serialize/serializeTool.cpp): numbers go into a buffer *)
(* of bytes that the object keeps, and out of it into one that the caller  *)
(* gives back with freeSpace, "to be paired with decoding" as the header   *)
(* says, or, as the driver says, does not.  The object remembers the       *)
(* encoded buffer a second time, in intelptr, from decode to freeSpace.    *)
(*                                                                         *)
(* A block of the heap holds a number of floats of some content; its       *)
(* address may be given out again once it is freed.  What follows a block  *)
(* freed twice, or read when it is free, is undefined: nothing is modelled *)
(* after that.                                                             *)
(***************************************************************************)
EXTENDS Integers

CONSTANTS
  Blocks,     \* the addresses of the heap
  NULL,
  Contents,   \* what an array may hold
  Counts,     \* how many numbers it may have
  INT_MAX     \* the largest int

ASSUME CoderAssumption ==
  /\ NULL \notin Blocks /\ Counts \subseteq Nat \ {0}
  /\ INT_MAX \in Nat /\ (INT_MAX + 1) % 4 = 0

VARIABLES
  heap,       \* the blocks in use -> what they hold: << content, floats >>
  alive,      \* the object is there
  m_data, m_size, intelptr,
  buff,       \* the pointer that the caller decodes into
  owed,       \* the decoded blocks that the caller has yet to free
  given,      \* what was encoded last
  skipped,    \* the caller decoded, or let the object go, while it owed one
  fault       \* a block was freed, or read, that was not in use

coder == << alive, m_data, m_size, intelptr >>
serVars == << heap, coder, buff, owed, given, skipped, fault >>

CoderInit ==
  /\ heap = << >> /\ fault = FALSE /\ skipped = FALSE
  /\ alive = FALSE
  /\ m_data = NULL /\ m_size = 0 /\ intelptr = NULL
  /\ buff = NULL /\ owed = {} /\ given = << >>

\* What is left of a number in an int
ToInt(n) == ((n + (INT_MAX + 1)) % (2 * (INT_MAX + 1))) - (INT_MAX + 1)

Put(h, b, what) == [x \in DOMAIN h \union {b} |-> IF x = b THEN what ELSE h[x]]
Without(h, b) == [x \in DOMAIN h \ {b} |-> h[x]]

\* delete[]; of NULL it does nothing
Deletes(h, b) == b = NULL \/ b \in DOMAIN h

SerializeData ==
  /\ ~alive /\ alive' = TRUE
  /\ m_data' = NULL /\ m_size' = 0 /\ intelptr' = NULL
  /\ given' = << >>
  /\ UNCHANGED << heap, buff, owed, skipped, fault >>

\* Slip: the size is set with the first buffer only
encodeOfOneSize(what, num) ==
  LET size == IF m_data = NULL THEN ToInt(num * 4) ELSE m_size
      rest == Without(heap, m_data)
  IN  /\ alive /\ fault' = ~Deletes(heap, m_data)
      /\ m_size' = size /\ given' = << what, num >>
      /\ IF size < 0 THEN m_data' = NULL /\ heap' = rest
         ELSE \E b \in Blocks \ DOMAIN rest : m_data' = b /\ heap' = Put(rest, b, << what, size \div 4 >>)
      /\ UNCHANGED << alive, intelptr, buff, owed, skipped >>

\* The old buffer goes before the new one comes; a size below zero throws
encode(what, num) ==
  LET size == ToInt(num * 4)
      rest == Without(heap, m_data)
  IN  /\ alive /\ fault' = ~Deletes(heap, m_data)
      /\ m_size' = size /\ given' = << what, num >>
      /\ IF size < 0 THEN m_data' = NULL /\ heap' = rest
         ELSE \E b \in Blocks \ DOMAIN rest : m_data' = b /\ heap' = Put(rest, b, << what, size \div 4 >>)
      /\ UNCHANGED << alive, intelptr, buff, owed, skipped >>

\* Nothing is decoded when there is nothing or the caller's pointer is in use
Decodes == m_data # NULL /\ m_size > 0 /\ buff = NULL

decode ==
  LET rest == Without(heap, intelptr)
  IN  /\ alive /\ Decodes
      /\ fault' = (~Deletes(heap, intelptr) \/ m_data \notin DOMAIN rest)
      /\ \E b \in Blocks \ DOMAIN rest, what \in Contents :
            /\ m_data \in DOMAIN rest => what = rest[m_data][1]
            /\ buff' = b /\ heap' = Put(rest, b, << what, m_size \div 4 >>)
            /\ owed' = owed \union {b}
      /\ intelptr' = m_data
      /\ skipped' = (owed # {})
      /\ UNCHANGED << alive, m_data, m_size, given >>

\* Slip: the second pointer to the encoded buffer is kept
freeSpaceOnly(b) ==
  /\ alive /\ heap' = Without(heap, b) /\ owed' = owed \ {b}
  /\ UNCHANGED << coder, buff, given, skipped, fault >>

freeSpace(b) ==
  /\ alive /\ heap' = Without(heap, b) /\ owed' = owed \ {b}
  /\ intelptr' = NULL
  /\ UNCHANGED << alive, m_data, m_size, buff, given, skipped, fault >>

\* freeSpace does not reach the caller's pointer: the caller sets it to NULL,
\* or takes another for the next decode, whether it has freed or not
Forget ==
  /\ buff # NULL /\ buff' = NULL
  /\ UNCHANGED << heap, coder, owed, given, skipped, fault >>

Destroy ==
  LET rest == Without(heap, m_data)
  IN  /\ alive /\ alive' = FALSE
      /\ fault' = (~Deletes(heap, m_data) \/ ~Deletes(rest, intelptr))
      /\ heap' = Without(rest, intelptr)
      /\ m_data' = NULL /\ intelptr' = NULL
      /\ skipped' = (owed # {})
      /\ UNCHANGED << m_size, buff, owed, given >>

CoderNext ==
  /\ ~fault
  /\ \/ SerializeData \/ decode \/ Forget \/ Destroy
     \/ \E b \in owed : freeSpace(b)
     \/ \E what \in Contents, num \in Counts : encode(what, num)

CoderSpec == CoderInit /\ [][CoderNext]_serVars

-----------------------------------------------------------------------------
\* freeSpace is what keeps the two pointers apart.  A block is freed twice, or
\* read when it is free, exactly when the caller decodes again or lets the
\* object go while it has not given back what it decoded, whatever it encoded
\* in between and whichever addresses were given out again.  Until then
\* nothing is left behind: what is in use are the buffer of the object and the
\* one the caller owes, and they are not the same (serializeTool.cpp:12-25,
\* :35-39, :62-73, :79-96: m_data and intelptr are both deleted).
FreedAsPaired ==
  /\ fault <=> skipped
  /\ ~fault => /\ DOMAIN heap = ({m_data} \union owed) \ {NULL}
               /\ m_data \notin owed

\* "//" and, in Chinese, "or comment it out and let it be reclaimed by itself",
\* says the driver of its call of freeSpace (serializeTool.cpp:127-129); the
\* destructor says "space reclaimed by itself" (:21).  So no block is freed
\* twice, or read when it is free, whether freeSpace is called or not.
FreedOnce == ~fault

\* What comes out of decode is what went into the last encode: nothing else
\* and no more, and all of it as long as its size in bytes is an int
\* (serializeTool.cpp:41, :68-73).
RoundTrip ==
  [][ buff = NULL /\ buff' # NULL /\ ~fault' =>
        /\ heap'[buff'][1] = given[1] /\ heap'[buff'][2] \in 1..given[2]
        /\ given[2] * 4 <= INT_MAX => heap'[buff'] = given ]_serVars

\* The inductive invariant behind the two: the second pointer is there exactly
\* while the caller owes a block, of which there is one, and names the buffer
\* of the object or nothing that is in use; what is encoded stays as it was
\* given
PointersOk ==
  /\ owed \subseteq Blocks /\ \A b, c \in owed : b = c
  /\ intelptr = NULL <=> owed = {}
  /\ intelptr \notin owed
  /\ ~alive => m_data = NULL /\ owed = {}

EncodedOk ==
  m_data # NULL =>
    /\ m_data \in Blocks /\ given \in Contents \X Counts
    /\ m_size = ToInt(given[2] * 4) /\ heap[m_data] = << given[1], m_size \div 4 >>

CoderInv == FreedAsPaired /\ (~fault => PointersOk /\ EncodedOk)
=============================================================================
