---------------------------- MODULE MultiBoxLoss ----------------------------
(***************************************************************************)
(* The layer MultiBoxLoss of the SSD detector                              *)
(* (9.caffe-ssd/src/caffe/layers/multibox_loss_layer.cpp).  Forward        *)
(* matches the priors of a batch to its ground truths, mines the hard ones *)
(* and packs the predictions that count, a row each, for the two losses    *)
(* inside; Backward takes the gradients of those rows back to the places   *)
(* they came from, by counting once more.  In between the layer keeps the  *)
(* matches, and Backward forgets them.                                     *)
(***************************************************************************)
EXTENDS BBox

CONSTANTS Parameters,  \* the configurations of the layer
          Batches,     \* Batches[k]: what the k-th pass may be given, a sequence of images each
          MayRepeat    \* whether a Forward may follow a Forward

IsImage(image) ==
  /\ image.gt \in Seq(Nat)
  /\ image.overlap \in Seq([DOMAIN image.gt -> Nat])
  /\ image.loss \in [DOMAIN image.overlap -> Nat]
  /\ \A i, j \in DOMAIN image.overlap : image.loss[i] = image.loss[j] => i = j

\* Labels go by number, from 1, without the background.  Mining needs a location
\* all labels share (multibox_loss_layer.cpp:54).
IsParameter(p) ==
  /\ p.overlap_threshold \in Nat
  /\ p.labels \subseteq Nat \ {0} /\ IsFiniteSet(p.labels)
  /\ p.num_classes \in Nat \ {0} /\ p.conf_loss_type \in {"SOFTMAX", "LOGISTIC"}
  /\ p.mining_type \in {"NONE", "MAX_NEGATIVE", "HARD_EXAMPLE"} /\ (p.mining_type # "NONE" => p.share_location)
  /\ p.neg_pos_ratio \in Nat /\ p.sample_size \in Nat /\ p.top_k \in Int /\ p.nms \in BOOLEAN

ASSUME MultiBoxAssumption ==
  /\ Batches \in Seq(ToSet(Batches))
  /\ \A p \in Parameters : IsParameter(p)
  /\ \A k \in DOMAIN Batches : \A images \in Batches[k] :
        images \in Seq(ToSet(images)) /\ \A i \in DOMAIN images : IsImage(images[i])

VARIABLES param,              \* the configuration
          passes,             \* how many passes there were
          batch,              \* the images of the last one
          all_match_indices_, \* of each image: label -> the match of each prior
          all_neg_indices_,   \* of each image: the negatives mined
          num_matches_, num_conf_,
          loc_pred_,          \* the rows of loc_pred_ and loc_gt_: << image, label, prior, ground truth >>
          conf_pred_,         \* those of conf_pred_ and conf_gt_: << image, prior, labels set >>; 0: background
          diff                \* bottom[0] and bottom[1]: place -> the row whose gradient it got, or 0

vars == << param, passes, batch, all_match_indices_, all_neg_indices_, num_matches_, num_conf_,
           loc_pred_, conf_pred_, diff >>

NoGradients == [loc |-> << >>, conf |-> << >>]

Init ==
  /\ param \in Parameters
  /\ passes = 0 /\ batch = << >>
  /\ all_match_indices_ = << >> /\ all_neg_indices_ = << >>
  /\ num_matches_ = 0 /\ num_conf_ = 0
  /\ loc_pred_ = << >> /\ conf_pred_ = << >>
  /\ diff = NoGradients

DoNegMining == param.mining_type # "NONE"

\* The labels of a match as they are gone through
LabelsOf(labels) == IF Shared \in labels THEN << Shared >> ELSE Ascending(labels, Max({0} \union labels))

MatchedTo(index, i, label) ==
  LET hit == Ascending(Positive(index), Len(index))
  IN  [k \in DOMAIN hit |-> << i, label, hit[k], index[hit[k]] >>]

\* The matches of one image: by label, then by prior
Matched(matches, i) ==
  LET labels == LabelsOf(DOMAIN matches[i])
  IN  FlattenSeq([c \in DOMAIN labels |-> MatchedTo(matches[i][labels[c]], i, labels[c])])

AllMatched(matches, num) == FlattenSeq([i \in 1..num |-> Matched(matches, i)])

CountNumMatches(matches, num) == Len(AllMatched(matches, num))

\* The label that a match stands for, and the last one of a prior
LabelOf(images, hit) == images[hit[1]].gt[hit[4]]

LastLabel(images, hits, j) ==
  LET Of == {k \in DOMAIN hits : hits[k][3] = j}
  IN  IF Of = {} THEN 0 ELSE LabelOf(images, hits[Max(Of)])

\* The elements of conf_gt_ that are set when there is no mining: the part of
\* an image begins num_priors after the one before, as wide as the rows are
LogisticSet(p, images, matches) ==
  UNION { LET num_priors == Len(images[a].overlap)
          IN  {(a - 1) * num_priors + (hit[3] - 1) * p.num_classes + LabelOf(images, hit) :
                 hit \in ToSet(Matched(matches, a))}
        : a \in {a \in DOMAIN images : images[a].gt # << >>} }

\* What is found in the row of conf_gt_ for prior j of image i
Target(p, images, matches, i, j) ==
  LET row == (i - 1) * Len(images[i].overlap) + j - 1
  IN  IF p.conf_loss_type = "LOGISTIC"
      THEN {c \in 0..p.num_classes - 1 : row * p.num_classes + c \in LogisticSet(p, images, matches)}
      ELSE {IF images[i].gt = << >> THEN 0 ELSE LastLabel(images, Matched(matches, i), j)}

\* The rows of one image: with mining the matched and then the negatives;
\* without it every prior
EncodeConfPrediction(p, images, matches, negs, i) ==
  LET hits == Matched(matches, i)
  IN  IF p.mining_type # "NONE"
      THEN IF images[i].gt = << >> THEN << >>
           ELSE [k \in DOMAIN hits |-> << i, hits[k][3], {LabelOf(images, hits[k])} >>]
                \o [k \in DOMAIN negs[i] |-> << i, negs[i][k], {0} >>]
      ELSE [j \in DOMAIN images[i].overlap |-> << i, j, Target(p, images, matches, i, j) >>]

\* What the first elements of s add up to
Sums(s) ==
  LET sum[k \in 0..Len(s)] == IF k = 0 THEN 0 ELSE sum[k - 1] + s[k]
  IN  sum
Total(s) == Sums(s)[Len(s)]

\* The second half of Forward: what was mined replaces the matches of the
\* batch, and the rows are filled
Pack(images, kept, mined) ==
  LET num == Len(images)
      matches == [k \in DOMAIN kept |-> IF k <= num THEN mined[k].indices ELSE kept[k]]
      negs == IF DoNegMining THEN all_neg_indices_ \o [i \in 1..num |-> mined[i].negs] ELSE all_neg_indices_
  IN  /\ all_match_indices_' = matches /\ all_neg_indices_' = negs
      /\ num_matches_' = CountNumMatches(kept, num) - Total([i \in 1..num |-> mined[i].dropped])
      /\ num_conf_' = IF DoNegMining THEN num_matches_' + Total([i \in 1..num |-> Len(mined[i].negs)])
                      ELSE Total([i \in 1..num |-> Len(images[i].overlap)])
      /\ loc_pred_' = IF num_matches_' >= 1 THEN AllMatched(matches, num) ELSE loc_pred_
      /\ conf_pred_' = IF num_conf_' >= 1
                       THEN FlattenSeq([i \in 1..num |-> EncodeConfPrediction(param, images, matches, negs, i)])
                       ELSE conf_pred_

MineAndPack(images, kept, found) ==
  Pack(images, kept, [i \in DOMAIN images |-> Mine(param, images[i], kept[i], found[i].overlaps)])

MatchMineAndPack(images, found) ==
  MineAndPack(images, all_match_indices_ \o [i \in DOMAIN images |-> found[i].indices], found)

\* Only the first matches are read, one for each image: those of this batch
\* when the layer has forgotten the others
Forward(images) ==
  /\ MayRepeat \/ all_match_indices_ = << >>
  /\ MatchMineAndPack(images, [i \in DOMAIN images |-> FindMatches(param, images[i])])
  /\ passes' = passes + 1
  /\ batch' = images
  /\ diff' = NoGradients
  /\ UNCHANGED param

\* Slip: the negatives of an image are taken to come first
ConfOrderNegFirst(i) ==
  LET hits == Matched(all_match_indices_, i)
  IN  all_neg_indices_[i] \o [k \in DOMAIN hits |-> hits[k][3]]

\* The priors of one image in the order in which Backward counts them
ConfOrder(i) ==
  LET hits == Matched(all_match_indices_, i)
  IN  [k \in DOMAIN hits |-> hits[k][3]] \o all_neg_indices_[i]

LocDiff(num) ==
  LET order == AllMatched(all_match_indices_, num)
  IN  [q \in {<< r[1], r[2], r[3] >> : r \in ToSet(order)} |->
         CHOOSE k \in DOMAIN order : << order[k][1], order[k][2], order[k][3] >> = q]

ConfDiff(num) ==
  LET order == FlattenSeq([i \in 1..num |->
                 LET js == IF DoNegMining THEN ConfOrder(i) ELSE [j \in DOMAIN batch[i].overlap |-> j]
                 IN  [k \in DOMAIN js |-> << i, js[k] >>]])
  IN  [q \in ToSet(order) |-> CHOOSE k \in DOMAIN order : order[k] = q]

\* The net goes back after it went forward; places not in diff are zero
Backward ==
  /\ all_match_indices_ # << >>
  /\ diff' = [ loc |-> IF num_matches_ >= 1 THEN LocDiff(Len(batch)) ELSE << >>,
               conf |-> IF num_conf_ >= 1 THEN ConfDiff(Len(batch)) ELSE << >> ]
  /\ all_match_indices_' = << >> /\ all_neg_indices_' = << >>
  /\ UNCHANGED << param, passes, batch, num_matches_, num_conf_, loc_pred_, conf_pred_ >>

Next ==
  \/ passes < Len(Batches) /\ \E images \in Batches[passes + 1] : Forward(images)
  \/ Backward

Spec == Init /\ [][Next]_vars

-----------------------------------------------------------------------------
(* Properties *)

\* The matching is stable, label by label: no prior and ground truth overlap
\* more than what either has, and what PER_PREDICTION adds is the best there is
\* (MatchBBox and FindMatches, bbox_util.cpp:583-817).
MatchesStable ==
  \A i \in DOMAIN batch :
    LET found == FindMatches(param, batch[i]).indices
        dealt == param.use_prior_for_matching /\ ~param.share_location
    IN  \A c \in DOMAIN found :
          IF dealt THEN \A j \in Positive(found[c]) :
                           batch[i].gt[found[c][j]] = c /\ MatchBBox(param, batch[i], Shared).indices[j] = found[c][j]
          ELSE IsMatch(param, batch[i], c, found[c])

\* new and negs are the matches and the negatives that mining leaves of found
IsMined(image, found, new, negs) ==
  LET old == found.indices[Shared]
      hard == param.mining_type = "HARD_EXAMPLE"
      eligible == IF hard THEN DOMAIN old
                  ELSE {j \in DOMAIN old : old[j] = Unmatched /\ found.overlaps[Shared][j] < param.neg_overlap}
      wanted == Min({Cardinality(eligible),
                     IF hard THEN param.sample_size ELSE Cardinality(Positive(old)) * param.neg_pos_ratio})
      skipped == {j \in DOMAIN old : old[j] = Ignored}
  IN  /\ \A j \in DOMAIN old : new[j] = old[j] \/ (hard /\ j \in Positive(old) /\ new[j] = Unmatched)
      /\ \A j \in negs : old[j] = Unmatched
      /\ \E ignored \in SUBSET (IF hard THEN skipped ELSE {}) :
            IsHardest(param, image, eligible, wanted, (IF hard THEN Positive(new) ELSE {}) \union negs \union ignored)

\* Mining takes the hardest: among the negatives as many as the ratio allows,
\* or of all examples sample_size, minus what the suppression takes out; it
\* leaves every other match as it was (MineHardExamples, bbox_util.cpp:848-1029).
HardestMined ==
  DoNegMining /\ all_match_indices_ # << >> =>
    \A i \in DOMAIN batch :
      IF batch[i].gt = << >> THEN all_neg_indices_[i] = << >>
      ELSE IsMined(batch[i], FindMatches(param, batch[i]), all_match_indices_[i][Shared], ToSet(all_neg_indices_[i]))

\* Every row that Forward made room for is filled, and its gradient goes back
\* to the place it came from and to no other (multibox_loss_layer.cpp:182-239,
\* :270-365).
GradientsGoHome ==
  [][ Backward =>
        /\ num_matches_ >= 1 =>
              /\ Len(loc_pred_) = num_matches_
              /\ {diff'.loc[q] : q \in DOMAIN diff'.loc} = DOMAIN loc_pred_
              /\ \A q \in DOMAIN diff'.loc : LET r == loc_pred_[diff'.loc[q]] IN q = << r[1], r[2], r[3] >>
        /\ num_conf_ >= 1 =>
              /\ Len(conf_pred_) = num_conf_
              /\ {diff'.conf[q] : q \in DOMAIN diff'.conf} = DOMAIN conf_pred_
              /\ \A q \in DOMAIN diff'.conf : LET r == conf_pred_[diff'.conf[q]] IN q = << r[1], r[2] >> ]_vars

\* "Given the bottom blobs, compute the top blobs and the loss" (layer.hpp:135):
\* the matches that are packed for the loss are those of this batch.
LossOfThisBatch ==
  num_matches_ >= 1 =>
    \A r \in ToSet(loc_pred_) :
      LET found == FindMatches(param, batch[r[1]]).indices IN r[2] \in DOMAIN found /\ found[r[2]][r[3]] = r[4]
=============================================================================
