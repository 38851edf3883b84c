------------------------------ MODULE Training ------------------------------
(***************************************************************************)
(* What parallel training promises: gradient descent as one machine would  *)
(* do it.  The weights go through a sequence of versions; version k + 1 is *)
(* version k moved by the gradients that all solvers computed at version   *)
(* k, all of them and nothing else.  A snapshot keeps a version, and       *)
(* training can only be resumed at a version that was kept.                *)
(***************************************************************************)
EXTENDS Naturals

CONSTANT max_iter   \* SolverParameter.max_iter

VARIABLES
  weights,     \* the version of the weights
  snapshots    \* the versions that can be resumed

vars == << weights, snapshots >>

Init == weights = 0 /\ snapshots = {}

Update ==
  /\ weights < max_iter
  /\ weights' = weights + 1
  /\ UNCHANGED snapshots

\* The files of the present version are written, over older ones of the same
\* version if there are any: these cannot be used before that is done.
Snapshot ==
  /\ snapshots' \in {snapshots \union {weights}, snapshots \ {weights}}
  /\ UNCHANGED weights

Resume ==
  /\ weights' \in snapshots \union {0}
  /\ UNCHANGED snapshots

Next == Update \/ Snapshot \/ Resume

Spec == Init /\ [][Next]_vars
=============================================================================
