---------------------------- MODULE DevicePairs -----------------------------
(***************************************************************************)
(* How the tree of solvers comes about (9.caffe-ssd/src/caffe/parallel.cpp *)
(* again): DevicePair::compute pairs the devices by their proximity, and   *)
(* P2PSync::Prepare makes a solver for a pair when its parent has one.  A  *)
(* loop is a function of the rounds that have passed.                      *)
(***************************************************************************)
EXTENDS Integers, Sequences, FiniteSetsExt, SequencesExt

Pair(parent, device) == [parent |-> parent, device |-> device]

\* ceil(log2(n)), the depth of the reduction tree
Depth(n) ==
  LET power[d \in 0..n] == IF d = 0 THEN 1 ELSE 2 * power[d - 1]
  IN  Min({d \in 0..n : power[d] >= n})

\* In the groups g: the devices that remain, the pairs found, and whether the
\* loops stayed inside the vector
Join(g, i, j) ==
  [ remaining |-> RemoveAt(g.remaining, j),
    pairs |-> Append(g.pairs, Pair(g.remaining[i], g.remaining[j])),
    defined |-> g.defined ]

\* The i-th device takes the next one that is near to it; without regard to
\* proximity its neighbour, which the last of an odd number does not have
Take(g, i, near, blind) ==
  LET js == {j \in i + 1..Len(g.remaining) : blind \/ {g.remaining[i], g.remaining[j]} \in near}
  IN  IF js # {} THEN Join(g, i, Min(js))
      ELSE [g EXCEPT !.defined = @ /\ ~(blind /\ i = Len(g.remaining))]

\* One pass over the devices
Pass(g, near, blind) ==
  LET after[i \in 0..Len(g.remaining)] == IF i = 0 THEN g ELSE Take(after[i - 1], i, near, blind)
  IN  after[Len(g.remaining)]

\* As many passes as the tree is to be deep
Passes(g, near, blind) ==
  LET depth == Depth(Len(g.remaining))
      after[d \in 0..depth] == IF d = 0 THEN g ELSE Pass(after[d - 1], near, blind)
  IN  after[depth]

\* The groups after DevicePair::compute.  boards, access: the pairs of devices
\* that share a board, and that can reach each other's memory.
Compute(devices, boards, access) ==
  LET none == [remaining |-> devices, pairs |-> << >>, defined |-> TRUE]
      g == Passes(Passes(Passes(none, boards, FALSE), access, FALSE), {}, TRUE)
  IN  [g EXCEPT !.pairs = << Pair(-1, g.remaining[1]) >> \o @]

\* The i-th pair gets a solver if a solver has its parent.  made: the pairs that
\* have one
Make(m, pairs, i) ==
  IF i \in m.made \/ \A k \in m.made : pairs[k].device # pairs[i].parent THEN m
  ELSE [m EXCEPT !.made = @ \union {i}, !.children_[pairs[i].parent] = Append(@, pairs[i].device)]

Attempt(m, pairs) ==
  LET after[i \in 0..Len(pairs) - 1] == IF i = 0 THEN m ELSE Make(after[i - 1], pairs, i + 1)
  IN  after[Len(pairs) - 1]

\* The root has a solver before Prepare
OnlyRoot(pairs) == [made |-> {1}, children_ |-> [n \in {pairs[i].device : i \in DOMAIN pairs} |-> << >>]]

Tree(pairs, m) == [syncs |-> [i \in DOMAIN pairs |-> pairs[i].device], children_ |-> m.children_]

\* Slip: one attempt only
PrepareOnce(pairs) == Tree(pairs, Attempt(OnlyRoot(pairs), pairs))

\* The tree: solvers in the order of the pairs, children in that of making
Prepare(pairs) ==
  LET after[k \in 0..Len(pairs)] == IF k = 0 THEN OnlyRoot(pairs) ELSE Attempt(after[k - 1], pairs)
  IN  Tree(pairs, after[Len(pairs)])
=============================================================================
