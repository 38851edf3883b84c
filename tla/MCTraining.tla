----------------------------- MODULE MCTraining -----------------------------
(***************************************************************************)
(* Training on up to four GPUs, in every tree DevicePair::compute and      *)
(* Prepare make of them; the fewer, the more signals and new processes.    *)
(***************************************************************************)
EXTENDS P2PSync, DevicePairs

TwoSets == {{a, b} : a, b \in Solvers} \ {{a} : a \in Solvers}

\* A board with several GPUs holds two (four devices are on four boards), and
\* any two devices may have peer access
Boards(n) == IF n = 4 THEN {{}} ELSE {b \in SUBSET TwoSets : \A x, y \in b : x = y \/ x \cap y = {}}

\* Training on two, three and four of the devices
Groups ==
  UNION {{Compute([i \in 1..n |-> i - 1], boards, access) :
            boards \in Boards(n), access \in SUBSET TwoSets} : n \in 2..4}
MCTrees == {Prepare(g.pairs) : g \in {h \in Groups : h.defined}}

\* Two solvers see a signal and a new process, three one of these, four none
MCNext == Next /\ Cardinality(Members) + signals' + crashes' <= 4
MCSpec == Init /\ [][MCNext]_vars /\ WF_vars(Threads)
=============================================================================
