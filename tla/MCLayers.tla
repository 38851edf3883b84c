------------------------------ MODULE MCLayers ------------------------------
(***************************************************************************)
(* The layer MultiBoxLoss on batches of two images with three priors and   *)
(* two ground truths each, and beside it, chosen at the start, the nets of *)
(* NetCases.  The first pass is given every overlap of two priors with the *)
(* ground truths, the second one few batches: they show what the layer     *)
(* still knows of the first.  And DetectionOutput, three images of three   *)
(* priors and two labels, two in a batch, where the boxes of the first     *)
(* image overlap in every way and the last has next to none.               *)
(***************************************************************************)
EXTENDS MultiBoxLoss, DetectionOutput, NetCases

Configuration(type, mining, nms) ==
  [ share_location |-> TRUE, use_prior_for_matching |-> TRUE, match_type |-> type,
    overlap_threshold |-> 2, labels |-> {1, 2}, num_classes |-> 3, conf_loss_type |-> "SOFTMAX", mining_type |-> mining, neg_pos_ratio |-> 1,
    neg_overlap |-> 2, sample_size |-> 2, nms |-> nms, top_k |-> 2 ]

Types == {"BIPARTITE", "PER_PREDICTION"}

\* Without mining also with locations of their own for the labels, matched by
\* priors or by predictions
MCParameters ==
  LET apart(type, prior) == [Configuration(type, "NONE", FALSE) EXCEPT
                               !.share_location = FALSE, !.use_prior_for_matching = prior]
  IN  {Configuration(type, "NONE", FALSE) : type \in Types}
      \union {Configuration(type, mining, nms) :
                type \in Types, mining \in {"MAX_NEGATIVE", "HARD_EXAMPLE"}, nms \in BOOLEAN}
      \union {apart(type, prior) : type \in Types, prior \in BOOLEAN}
      \union {[apart("PER_PREDICTION", FALSE) EXCEPT !.conf_loss_type = "LOGISTIC"]}

\* Priors 1 and 2 suppress each other
Image(gt, overlap, cross, loss, small) ==
  [gt |-> gt, overlap |-> overlap, cross |-> cross, loss |-> loss, near |-> {{1, 2}}, small |-> small]

Blank == Image(<< >>, << << >>, << >>, << >> >>, {}, << 1, 2, 3 >>, {})
Plain == Image(<< 1, 2 >>, << << 1, 2 >>, << 2, 1 >>, << 0, 1 >> >>, {}, << 3, 2, 1 >>, {3})

\* The third prior overlaps one ground truth, both alike, or one below the threshold
Tests ==
  { Image(<< 1, 2 >>, << a, b, c >>, cross, loss, {}) :
      a \in (0..2) \X (0..2), b \in (0..2) \X (0..2), c \in {<< 0, 1 >>, << 2, 2 >>},
      cross \in {{}, {2}}, loss \in {<< 3, 2, 1 >>, << 1, 3, 2 >>} }

MCBatches == << {<< test, other >> : test \in Tests, other \in {Plain, Blank}},
                {<< Plain, Blank >>, << Blank, Plain >>} >>

\* Batches of images that all have ground truths
FullBatches == << {<< test, Plain >> : test \in Tests}, {<< Plain, Plain >>} >>

CONSTANT MaxLayers  \* how many layers a net may have, the data layer with them

Bare == [ bottom |-> << >>, top |-> << >>, loss |-> << >>, lossLayer |-> FALSE, propagate |-> << >>, param |-> << >> ]
Data == [ Bare EXCEPT !.top = << << "d" >> >> ]
Fresh(i) == << << "a" >>, << "b" >>, << "c" >>, << "e" >>, << "f" >> >>[i]
Made(layers) == UNION {ToSet(layers[i].top) : i \in DOMAIN layers}

Learn(name, lr) == << [name |-> name, lr |-> lr] >>

Between(bs, ts) == [ Bare EXCEPT !.bottom = bs, !.top = ts ]

\* A loss layer over what is known: with or without a weight, with or without labels
Losses(known, new) ==
  LET l(bs, w) == [ Between(bs, << new >>) EXCEPT !.lossLayer = TRUE, !.loss = w ]
  IN  {l(<< x >>, w) : x \in known, w \in {<< >>, << 2 >>}} \union {l(<< x, y >>, << >>) : x, y \in known}

\* A layer of one bottom: with a parameter of its own or a shared one, that
\* learns or does not; with propagate_down off; in place; with a weight on its
\* top; with two tops, which may both be losses.  The name g comes twice when
\* two layers have two tops.
OneInput(known, new) ==
  LET to(x) == Between(<< x >>, << new >>)
      over(x) == Between(<< x >>, << x >>)
  IN  UNION { {[to(x) EXCEPT !.param = p] : p \in {<< >>, Learn("", << >>), Learn("w", << >>), Learn("w", << 0 >>)}}
              \union {[to(x) EXCEPT !.propagate = << FALSE >>, !.param = p] : p \in {<< >>, Learn("", << >>)}}
              \union {[over(x) EXCEPT !.param = p] : p \in {<< >>, Learn("", << >>)}}
              \union {[to(x) EXCEPT !.loss = << 1 >>, !.param = Learn("", << >>)]}
              \union {[Between(<< x >>, << new, << "g" >> >>) EXCEPT !.loss = w] : w \in {<< >>, << 1, 2 >>}}
            : x \in known }

\* A layer of two bottoms, one of them perhaps cut off, or in place over one
TwoInputs(known, new) ==
  {[Between(<< x, y >>, << new >>) EXCEPT !.propagate = p] : x, y \in known, p \in {<< >>, << FALSE, TRUE >>}}
  \union {Between(<< x, y >>, << x >>) : x, y \in known}

\* On the data layer come others, at the end a loss, so that there is a way
\* back; or, at the end, a layer that reads its own top
MCCases(layers) ==
  LET known == Made(layers)
      new == Fresh(Len(layers))
  IN  IF layers = << >> THEN {Data}
      ELSE IF Len(layers) < MaxLayers - 1 THEN Losses(known, new) \union OneInput(known, new) \union TwoInputs(known, new)
      ELSE IF Len(layers) < MaxLayers THEN Losses(known, new) \union {Between(<< new >>, << new >>)}
      ELSE {}

MCLabels == << 1, 2 >>

MCSettings ==
  [ nms_threshold : {<< 1, 1, 1 >>, << 1, 0, 0 >>}, top_k : {-1, 2}, keep_top_k : {-1, 2}, output_format_ : {"VOC", "COCO"} ]

\* Overlaps of priors 1 and 2, 1 and 3, 2 and 3; those of label 2 are others
\* when the labels share no locations
Scored(one, two, near, apart) ==
  LET overlap(o) == << << 2, o[1], o[2] >>, << o[1], 2, o[3] >>, << o[2], o[3], 2 >> >>
  IN  [ scores |-> << one, two >>, overlap |-> << overlap(near), overlap(apart) >> ]

MCSources ==
  { << Scored(one, << 5, 3, 1 >>, near, IF shared THEN near ELSE << 0, 2, 1 >>),
       Scored(<< 2, 4, 6 >>, << 1, 3, 0 >>, << 2, 1, 2 >>, << 2, 1, 2 >>),
       Scored(<< 0, 0, 0 >>, last, << 0, 0, 0 >>, << 0, 0, 0 >>) >> :
      one \in {<< 2, 4, 6 >>, << 4, 6, 2 >>, << 6, 0, 4 >>}, near \in (0..2) \X (0..2) \X (0..2),
      last \in {<< 0, 0, 0 >>, << 0, 1, 0 >>}, shared \in BOOLEAN }
  \union {<< Scored(<< 0, 0, 0 >>, << 0, 0, 0 >>, << 0, 0, 0 >>, << 0, 0, 0 >>) >>}

VARIABLE family     \* "multibox", "nets" or "detections"

MCInit ==
  /\ family \in {"multibox", "nets", "detections"}
  /\ Init /\ (family # "multibox" => param = Configuration("BIPARTITE", "NONE", FALSE))
  /\ Start /\ (family # "nets" => ~forced)
  /\ DetectInit
  /\ family # "detections" =>
       layer = (CHOOSE p \in MCSettings : TRUE) /\ source = (CHOOSE s \in MCSources : TRUE)

MCNext ==
  /\ \/ family = "multibox" /\ Next /\ UNCHANGED << netVars, detectVars >>
     \/ family = "nets" /\ Grow /\ UNCHANGED << vars, detectVars >>
     \/ family = "detections" /\ Detect /\ UNCHANGED << vars, netVars >>
  /\ UNCHANGED family

MCSpec == MCInit /\ [][MCNext]_<< vars, netVars, detectVars, family >>
=============================================================================
