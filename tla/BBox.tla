-------------------------------- MODULE BBox --------------------------------
(***************************************************************************)
(* Boxes of the SSD detector (9.caffe-ssd/src/caffe/util/bbox_util.cpp):   *)
(* which prior box is matched to which ground truth, which boxes survive   *)
(* the suppression of their like, and which examples are mined.            *)
(*                                                                         *)
(* Priors and ground truths go by number, from 1.  An image is given by    *)
(*   gt       the labels of its ground truths, in their order,             *)
(*   overlap  the Jaccard overlap of each prior and ground truth, where 0  *)
(*            is what the code takes for none (up to 1e-6),                *)
(*   cross    the priors that cross the boundary and are to be ignored,    *)
(*   loss     the loss of each prior, no two alike (bbox_util.cpp:1006     *)
(*            leaves equal ones in any order),                             *)
(*   near     the pairs of priors whose overlap exceeds nms_threshold,     *)
(*   small    the priors too small for the suppression.                    *)
(* Predictions of all labels overlap alike.  p holds the parameters of     *)
(* MultiBoxLossParameter under their names.                                *)
(***************************************************************************)
EXTENDS Integers, Sequences, FiniteSets, SequencesExt

\* The members of S up to n, in the order in which a loop meets them
Ascending(S, n) ==
  LET upto[k \in 0..n] == IF k = 0 THEN << >> ELSE IF k \in S THEN Append(upto[k - 1], k) ELSE upto[k - 1]
  IN  upto[n]

Unmatched == -1
Ignored == -2
Shared == -1  \* the label of a match that all labels share

-----------------------------------------------------------------------------
(* MatchBBox *)

\* The pair that overlaps most, the first of those
BestPair(overlap, pairs) ==
  CHOOSE p \in pairs : \A q \in pairs \ {p} :
    LET o == overlap[p[1]][p[2]]
        u == overlap[q[1]][q[2]]
    IN  o > u \/ (o = u /\ (p[1] < q[1] \/ (p[1] = q[1] /\ p[2] < q[2])))

Assign(overlap, m, p) ==
  [m EXCEPT !.indices[p[1]] = p[2], !.overlaps[p[1]] = overlap[p[1]][p[2]], !.pool = @ \ {p[2]}]

\* Slip: the ground truth stays in the pool
MatchOneAgain(overlap, m) ==
  LET pairs == {p \in (DOMAIN overlap) \X m.pool : m.indices[p[1]] = Unmatched /\ overlap[p[1]][p[2]] > 0}
  IN  IF pairs = {} THEN m ELSE [Assign(overlap, m, BestPair(overlap, pairs)) EXCEPT !.pool = m.pool]

\* One round of the bipartite matching: a ground truth of the pool goes to a
\* free prior
MatchOne(overlap, m) ==
  LET pairs == {p \in (DOMAIN overlap) \X m.pool : m.indices[p[1]] = Unmatched /\ overlap[p[1]][p[2]] > 0}
  IN  IF pairs = {} THEN m ELSE Assign(overlap, m, BestPair(overlap, pairs))

\* As many rounds as there are ground truths
Bipartite(overlap, start) ==
  LET after[k \in 0..Cardinality(start.pool)] == IF k = 0 THEN start ELSE MatchOne(overlap, after[k - 1])
  IN  after[Cardinality(start.pool)]

\* What a free prior may take, whoever has it already
Options(overlap, gts, threshold, i) == {i} \X {g \in gts : overlap[i][g] > 0 /\ overlap[i][g] >= threshold}

MatchRest(overlap, gts, threshold, m) ==
  LET rest == {i \in DOMAIN overlap : m.indices[i] = Unmatched /\ Options(overlap, gts, threshold, i) # {}}
      best == [i \in rest |-> BestPair(overlap, Options(overlap, gts, threshold, i))[2]]
  IN  [m EXCEPT !.indices = [i \in DOMAIN overlap |-> IF i \in rest THEN best[i] ELSE @[i]],
                !.overlaps = [i \in DOMAIN overlap |-> IF i \in rest THEN overlap[i][best[i]] ELSE @[i]]]

Desired(image, label) == {g \in DOMAIN image.gt : label = Shared \/ image.gt[g] = label}

StartOf(image, gts) ==
  [ indices |-> [i \in DOMAIN image.overlap |-> IF gts # {} /\ i \in image.cross THEN Ignored ELSE Unmatched],
    overlaps |-> [i \in DOMAIN image.overlap |->
                    IF i \in image.cross THEN 0 ELSE Max({0} \union {image.overlap[i][g] : g \in gts})],
    pool |-> gts ]

MatchBBox(p, image, label) ==
  LET gts == Desired(image, label)
      bipartite == Bipartite(image.overlap, StartOf(image, gts))
  IN  IF p.match_type = "PER_PREDICTION" THEN MatchRest(image.overlap, gts, p.overlap_threshold, bipartite)
      ELSE bipartite

\* By label: one match for all of them, or the match of the priors dealt out to
\* the labels, or one match for each.  An image without ground truth has none.
FindMatches(p, image) ==
  LET all == MatchBBox(p, image, Shared)
      own(c) == IF p.use_prior_for_matching
                THEN [ indices |-> [i \in DOMAIN all.indices |->
                                      IF all.indices[i] > -1 /\ image.gt[all.indices[i]] = c
                                      THEN all.indices[i] ELSE Unmatched],
                       overlaps |-> all.overlaps ]
                ELSE MatchBBox(p, image, c)
      labels == IF image.gt = << >> THEN {} ELSE IF p.share_location THEN {Shared} ELSE p.labels
      found == [c \in labels |-> IF p.share_location THEN all ELSE own(c)]
  IN  [ indices |-> [c \in labels |-> found[c].indices], overlaps |-> [c \in labels |-> found[c].overlaps] ]

-----------------------------------------------------------------------------
(* ApplyNMS *)

\* The n boxes with the highest losses, or all of them
Hardest(loss, boxes, n) ==
  CHOOSE best \in SUBSET boxes :
    /\ Cardinality(best) = Min({n, Cardinality(boxes)})
    /\ \A b \in best, c \in boxes \ best : loss[b] > loss[c]

\* The hardest box left is too small, or it is kept and suppresses what overlaps it
NMSOne(image, m) ==
  LET b == CHOOSE b \in m.left : \A c \in m.left \ {b} : image.loss[b] > image.loss[c]
  IN  IF m.left = {} THEN m
      ELSE IF b \in image.small THEN [m EXCEPT !.left = @ \ {b}]
      ELSE [ left |-> {c \in m.left \ {b} : c \notin image.small /\ {b, c} \notin image.near},
             kept |-> m.kept \union {b} ]

\* The boxes kept of the top_k, in as many rounds as there are
ApplyNMS(p, image, boxes) ==
  LET top == IF p.top_k > -1 THEN Hardest(image.loss, boxes, p.top_k) ELSE boxes
      after[k \in 0..Cardinality(top)] == IF k = 0 THEN [left |-> top, kept |-> {}] ELSE NMSOne(image, after[k - 1])
  IN  after[Cardinality(top)].kept

-----------------------------------------------------------------------------
(* MineHardExamples *)

\* Slip: a matched prior of little overlap passes for a negative
IsEligibleMiningAny(p, index, overlap) ==
  p.mining_type = "HARD_EXAMPLE" \/ (index # Ignored /\ overlap < p.neg_overlap)

IsEligibleMining(p, index, overlap) ==
  p.mining_type = "HARD_EXAMPLE" \/ (index = Unmatched /\ overlap < p.neg_overlap)

Eligible(p, indices, overlaps) == {i \in DOMAIN indices : IsEligibleMining(p, indices[i], overlaps[i])}

Positive(indices) == {i \in DOMAIN indices : indices[i] > -1}

\* How many are wanted, of those there are
Wanted(p, indices, overlaps) ==
  LET most == IF p.mining_type = "MAX_NEGATIVE" THEN Cardinality(Positive(indices)) * p.neg_pos_ratio ELSE p.sample_size
  IN  Min({most, Cardinality(Eligible(p, indices, overlaps))})

\* The suppression goes before the choice
Selected(p, image, indices, overlaps) ==
  LET eligible == Eligible(p, indices, overlaps)
  IN  Hardest(image.loss, IF p.nms THEN ApplyNMS(p, image, eligible) ELSE eligible, Wanted(p, indices, overlaps))

\* Mining goes with a location all labels share, so with one label or none
Mine(p, image, indices, overlaps) ==
  IF p.mining_type = "NONE" \/ DOMAIN indices = {} THEN [indices |-> indices, negs |-> << >>, dropped |-> 0]
  ELSE LET now == indices[Shared]
           sel == Selected(p, image, now, overlaps[Shared])
           out == IF p.mining_type = "HARD_EXAMPLE" THEN Positive(now) \ sel ELSE {}
       IN  [ indices |-> [c \in {Shared} |-> [i \in DOMAIN now |-> IF i \in out THEN Unmatched ELSE now[i]]],
             negs |-> Ascending({i \in sel : now[i] = Unmatched}, Len(now)),
             dropped |-> Cardinality(out) ]

-----------------------------------------------------------------------------
(* What a match is for, and what mining is for *)

\* No pair would rather have each other: for every prior and ground truth that
\* overlap, the prior has a match as good or the ground truth a prior as good.
\* A prior that is not the best of its ground truth came after the bipartite
\* matching, which PER_PREDICTION allows it from overlap_threshold on; it then
\* has the best ground truth there is for it, and none that could have one is
\* left without.
IsMatch(p, image, label, indices) ==
  LET gts == Desired(image, label)
      matched == Positive(indices)
      of(i) == image.overlap[i][indices[i]]
      free == DOMAIN image.overlap \ image.cross
      Later(i) == \E k \in matched : k # i /\ indices[k] = indices[i] /\ of(k) > of(i)
  IN  /\ matched \subseteq free
      /\ \A i \in matched : indices[i] \in gts /\ of(i) > 0
      /\ \A i \in DOMAIN indices \ matched : (indices[i] = Ignored) <=> (gts # {} /\ i \in image.cross)
      /\ \A i \in free, g \in gts : image.overlap[i][g] > 0 =>
            \/ i \in matched /\ of(i) >= image.overlap[i][g]
            \/ \E k \in matched : indices[k] = g /\ of(k) >= image.overlap[i][g]
      /\ \A i, k \in matched : i # k /\ indices[i] = indices[k] =>
            p.match_type = "PER_PREDICTION" /\ (of(i) >= p.overlap_threshold \/ of(k) >= p.overlap_threshold)
      /\ \A i \in matched : Later(i) =>
            of(i) >= p.overlap_threshold /\ \A g \in gts : image.overlap[i][g] <= of(i)
      /\ p.match_type = "PER_PREDICTION" =>
            \A i \in free \ matched, g \in gts : image.overlap[i][g] = 0 \/ image.overlap[i][g] < p.overlap_threshold

\* chosen are the hardest of the eligible: one left out that is harder than one
\* taken, or for which there was room, is too small, suppressed by one taken
\* that is harder still, or not among the top_k.
IsHardest(p, image, eligible, wanted, chosen) ==
  LET loss == image.loss
      Harder(e) == {x \in eligible : loss[x] > loss[e]}
      Excused(e) == p.nms /\ \/ e \in image.small
                             \/ \E c \in chosen : {c, e} \in image.near /\ loss[c] > loss[e]
                             \/ p.top_k > -1 /\ Cardinality(Harder(e)) >= p.top_k
  IN  /\ chosen \subseteq eligible
      /\ Cardinality(chosen) <= wanted
      /\ p.nms => \A c, d \in chosen : c # d => {c, d} \notin image.near
      /\ \A e \in eligible \ chosen :
            (Cardinality(chosen) < wanted \/ \E c \in chosen : loss[c] < loss[e]) => Excused(e)
=============================================================================
