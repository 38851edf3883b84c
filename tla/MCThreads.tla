----------------------------- MODULE MCThreads -----------------------------
(***************************************************************************)
(* Three components whose threads wait for each other, side by side:       *)
(* family is chosen at the start.                                          *)
(*                                                                         *)
(* readers: DataReader with two readers for two solvers: they share a      *)
(* body, or one goes before the other comes, or the second comes while the *)
(* first one's body is being stopped.  queue: the queue its threads talk   *)
(* through, BlockingQueue with two threads that push and one or two that   *)
(* pop.  database: DBManage with two clients, which may stop at the bounds *)
(* of its calls.                                                           *)
(***************************************************************************)
EXTENDS MCDBManage, DataReader, BlockingQueue

CONSTANTS r1, r2, b1, b2, p1, p2

MCReaders == {r1, r2}
MCBodies == {b1, b2}

MCCrews == {{p1}, {p1, p2}}

VARIABLE family     \* "readers", "queue" or "database"

MCInit == DBInit /\ Init /\ QueueInit /\ family \in {"readers", "queue", "database"}

MCNext ==
  /\ \/ family = "readers" /\ Next /\ UNCHANGED << manageVars, qvars >>
     \/ family = "queue" /\ QueueNext /\ UNCHANGED << manageVars, vars >>
     \/ family = "database" /\ DBNext /\ UNCHANGED << vars, qvars >>
     \/ family = "database" /\ UNCHANGED << manageVars, vars, qvars >>
  /\ UNCHANGED family

\* In the initial states no thread has anything to do, so that fairness asks
\* nothing of the families that were not chosen
MCSpec ==
  /\ MCInit /\ [][MCNext]_<< manageVars, vars, qvars, family >>
  /\ Fairness /\ QueueFairness /\ DBFairness
=============================================================================
