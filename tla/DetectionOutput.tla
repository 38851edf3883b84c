-------------------------- MODULE DetectionOutput --------------------------
(***************************************************************************)
(* The layer that turns predictions into detections                        *)
(* (9.caffe-ssd/src/caffe/layers/detection_output_layer.cpp), and that     *)
(* saves those of num_test_image_ images at a time under the names of a    *)
(* list.  The images come from a source that is read round and round, as   *)
(* many as the list names and in its order; a batch may hold the end of    *)
(* one round and the beginning of the next.                                *)
(*                                                                         *)
(* An image is given by the scores of its priors for each label but the    *)
(* background, where no two are alike and 0 is what confidence_threshold   *)
(* turns away, and by the overlap of the decoded boxes of each label.  The *)
(* threshold shrinks with every box kept while eta is below 1 and it is    *)
(* above one half: nms_threshold[n] is what it is after n boxes.           *)
(***************************************************************************)
EXTENDS Integers, Sequences, FiniteSets, SequencesExt

CONSTANTS
  Labels,      \* the labels but the background, in the order of the maps
  Settings,    \* records of nms_threshold, top_k, keep_top_k and output_format_
  Sources,     \* sequences of images
  BatchSize

VARIABLES
  layer,       \* its parameters
  source, cursor,
  name_count_, \* the place in the list of names
  detections_, \* what is to be saved: << name, label, prior >>
  files,       \* the file of each label with VOC, and one file otherwise
  top          \* the rows: << place in the batch, label, prior >>

detectVars == << layer, source, cursor, name_count_, detections_, files, top >>

Fake == -1
One == 0
num_test_image_ == Len(source)

Score(image, e) == image.scores[e[1]][e[2]]
Overlap(image, d, e) == image.overlap[d[1]][d[2]][e[2]]

\* What may be detected with a label: the priors whose score passes
Found(image, l) == {e \in {l} \X DOMAIN image.scores[l] : Score(image, e) > 0}
FoundIn(image) == UNION {Found(image, l) : l \in ToSet(Labels)}

IsSource(images) ==
  /\ images \in Seq(ToSet(images)) /\ images # << >>
  /\ \A k \in DOMAIN images :
       /\ \A l \in ToSet(Labels) :
            images[k].scores[l] \in Seq(Nat) /\ Len(images[k].scores[l]) = Len(images[1].scores[l])
       /\ \A d, e \in FoundIn(images[k]) : Score(images[k], d) = Score(images[k], e) => d = e

ASSUME DetectionAssumption ==
  /\ Labels \in Seq(Nat \ {One}) /\ \A k, l \in DOMAIN Labels : Labels[k] = Labels[l] => k = l
  /\ \A p \in Settings : p.top_k \in Int /\ p.keep_top_k \in Int
  /\ \A images \in Sources : IsSource(images)
  /\ BatchSize \in Nat \ {0}

Files(p) == IF p.output_format_ = "VOC" THEN ToSet(Labels) ELSE {One}

DetectInit ==
  /\ layer \in Settings
  /\ source \in Sources /\ cursor = 0
  /\ name_count_ = 0 /\ detections_ = << >>
  /\ files = [f \in Files(layer) |-> << >>]
  /\ top = << >>

-----------------------------------------------------------------------------
(* Detecting *)

\* From the best to the worst
ByScore(image, es) ==
  [k \in 1..Cardinality(es) |->
     CHOOSE e \in es : Cardinality({d \in es : Score(image, d) > Score(image, e)}) = k - 1]

First(s, n) == IF n > -1 /\ n < Len(s) THEN SubSeq(s, 1, n) ELSE s

\* Slip: only the box kept last is asked
MayStayLast(p, image, kept, e) ==
  kept = << >> \/ Overlap(image, kept[Len(kept)], e) <= p.nms_threshold[Len(kept)]

\* A box is kept unless one that is kept overlaps it too much
MayStay(p, image, kept, e) == \A k \in DOMAIN kept : Overlap(image, kept[k], e) <= p.nms_threshold[Len(kept)]

\* The top_k of a label, from the best on
ApplyNMSFast(p, image, l) ==
  LET ahead == First(ByScore(image, Found(image, l)), p.top_k)
      kept[k \in 0..Len(ahead)] ==
        IF k = 0 THEN << >>
        ELSE LET now == kept[k - 1] IN IF MayStay(p, image, now, ahead[k]) THEN Append(now, ahead[k]) ELSE now
  IN  kept[Len(ahead)]

\* The elements of s that are in S
Only(s, S) ==
  LET only[k \in 0..Len(s)] ==
        IF k = 0 THEN << >> ELSE IF s[k] \in S THEN Append(only[k - 1], s[k]) ELSE only[k - 1]
  IN  only[Len(s)]

\* The keep_top_k best of all labels, label by label
Kept(p, image) ==
  LET all == FlattenSeq([k \in 1..Len(Labels) |-> ApplyNMSFast(p, image, Labels[k])])
  IN  Only(all, ToSet(First(ByScore(image, ToSet(all)), p.keep_top_k)))

Batch == [i \in 1..BatchSize |-> source[((cursor + i - 1) % Len(source)) + 1]]

Named(name, kept) == [k \in DOMAIN kept |-> << name, kept[k][1], kept[k][2] >>]

\* Without any detection there is one row for each image that says so
Rows(p, batch) ==
  LET rows == FlattenSeq([i \in 1..BatchSize |-> Named(i, Kept(p, batch[i]))])
  IN  IF rows = << >> THEN [i \in 1..BatchSize |-> << i, Fake >>] ELSE rows

-----------------------------------------------------------------------------
(* Saving *)

\* Results of the round before are cleaned away when a batch begins a round
Reshape ==
  IF name_count_ % num_test_image_ = 0 /\ layer.output_format_ = "VOC" THEN [f \in DOMAIN files |-> << >>]
  ELSE files

Write(p, found) ==
  [f \in Files(p) |-> IF f = One THEN found ELSE Only(found, {d \in ToSet(found) : d[2] = f})]

\* Slip: what was saved is kept
SaveUncleared(saved, kept) ==
  LET found == saved.found \o Named(saved.count + 1, kept)
      count == saved.count + 1
  IN  IF count % num_test_image_ = 0 THEN [count |-> 0, found |-> found, files |-> Write(layer, found)]
      ELSE [count |-> count, found |-> found, files |-> saved.files]

\* One image of the batch; the last one of the list writes the files
Save(saved, kept) ==
  LET found == saved.found \o Named(saved.count + 1, kept)
      count == saved.count + 1
  IN  IF count % num_test_image_ = 0 THEN [count |-> 0, found |-> << >>, files |-> Write(layer, found)]
      ELSE [count |-> count, found |-> found, files |-> saved.files]

Detect ==
  LET images == Batch
      saved[k \in 0..BatchSize] ==
        IF k = 0 THEN [count |-> name_count_, found |-> detections_, files |-> Reshape]
        ELSE Save(saved[k - 1], Kept(layer, images[k]))
      end == saved[BatchSize]
  IN  /\ top' = Rows(layer, images)
      /\ name_count_' = end.count /\ detections_' = end.found /\ files' = end.files
      /\ cursor' = (cursor + BatchSize) % Len(source)
      /\ UNCHANGED << layer, source >>

DetectSpec == DetectInit /\ [][Detect]_detectVars

-----------------------------------------------------------------------------
(* Properties *)

\* rows are the best detections of an image: none that is suppressed by a better
\* one of its label, and one left out that is better than one taken, or for
\* which there was room, is suppressed, below the threshold, or not among the
\* top_k of its label.
IsBest(p, image, rows) ==
  LET Better(e) == {d \in Found(image, e[1]) : Score(image, d) > Score(image, e)}
      candidates == {e \in FoundIn(image) : p.top_k > -1 => Cardinality(Better(e)) < p.top_k}
      Stays(e) == \A d \in rows \intersect Better(e) :
                    Overlap(image, d, e) <= p.nms_threshold[Cardinality(rows \intersect Better(e))]
      room == p.keep_top_k > -1 => Cardinality(rows) < p.keep_top_k
  IN  /\ rows \subseteq candidates
      /\ p.keep_top_k > -1 => Cardinality(rows) <= p.keep_top_k
      /\ \A e \in rows : Stays(e)
      /\ \A e \in candidates \ rows :
            room \/ (\E d \in rows : Score(image, d) < Score(image, e)) => ~Stays(e)

\* What a batch put out are the best detections of each of its images, once
\* each (detection_output_layer.cpp:211-275, :297-370, bbox_util.cpp:1900-1935);
\* when no image has any, each says so (:282-291).
DetectionsBest ==
  top # << >> =>
    LET Seen(i) == source[((cursor - BatchSize + i - 1) % Len(source)) + 1]
        found == Only(top, {r \in ToSet(top) : r[2] # Fake})
        Of(i) == {<< r[2], r[3] >> : r \in {s \in ToSet(found) : s[1] = i}}
    IN  /\ \A i \in 1..BatchSize : IsBest(layer, Seen(i), Of(i))
        /\ Cardinality(ToSet(found)) = Len(found)
        /\ IF found = << >> THEN {r[1] : r \in ToSet(top)} = 1..BatchSize ELSE found = top

\* The detections of the first n images, each under its own name
Detected(n) == UNION {{<< k, e[1], e[2] >> : e \in ToSet(Kept(layer, source[k]))} : k \in 1..n}

Once(s, set) == ToSet(s) = set /\ Len(s) = Cardinality(set)

\* The files hold the detections of one whole round, each image under its own
\* name and each once, or nothing yet; what waits to be saved are those of the
\* images since, however rounds and batches lie to each other
\* (detection_output_layer.cpp:130-149, :371-457).
SavedExact ==
  /\ name_count_ = cursor
  /\ Once(detections_, Detected(name_count_))
  /\ \/ \A f \in DOMAIN files : files[f] = << >>
     \/ LET all == Detected(num_test_image_)
        IN  \A f \in DOMAIN files : Once(files[f], {d \in all : f = One \/ d[2] = f})
=============================================================================
