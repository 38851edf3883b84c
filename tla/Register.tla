------------------------------ MODULE Register ------------------------------
(***************************************************************************)
(* What the users of a piece of caffe memory rely on, wherever its two     *)
(* copies are: a read returns what was written last.                       *)
(***************************************************************************)
CONSTANTS Value, Zero

VARIABLES
  reg,    \* the contents
  last    \* the last read or write

vars == << reg, last >>

Access(op, v) == [ op |-> op, v |-> v ]

Init == reg = Zero /\ last = Access("write", Zero)

Read == last' = Access("read", reg) /\ UNCHANGED reg

Write(v) == reg' = v /\ last' = Access("write", v)

Next == Read \/ \E v \in Value : Write(v)

Spec == Init /\ [][Next]_vars
=============================================================================
