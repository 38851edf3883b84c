-------------------------------- MODULE Net --------------------------------
(***************************************************************************)
(* How a net of Caffe is put together (9.caffe-ssd/src/caffe/net.cpp and   *)
(* util/insert_splits.cpp) and how gradients then run back through it.     *)
(*                                                                         *)
(* A net is a sequence of layers: the blobs it reads (bottom) and makes    *)
(* (top) by name, the loss weights of its tops (none, or one for each      *)
(* top), whether it is a loss layer, propagate_down (none, or one for each *)
(* bottom), and its parameters with their names ("" for none) and learning *)
(* rates (<< >> for an lr_mult that is not set).  A layer is named by its  *)
(* place.  A blob that has several uses is given a split layer, whose tops *)
(* are named by blob, layer, place and number; names of the net's own are  *)
(* tuples of one string, so none is like those.                            *)
(*                                                                         *)
(* Gradients are counted: every layer passes on the sum of what its tops   *)
(* have got, so a gradient is the number of ways to a loss, each taken     *)
(* with the weight of that loss.                                           *)
(***************************************************************************)
EXTENDS Naturals, Sequences, FiniteSets, SequencesExt

Name == [{1} -> STRING]

\* A layer as it is written; the counts of loss weights and of propagate_down
\* are checked where they are read (layer.hpp:417, net.cpp:83)
Layer ==
  { l \in [ bottom : Seq(Name), top : Seq(Name), loss : Seq(Nat), lossLayer : BOOLEAN, propagate : Seq(BOOLEAN),
            param : Seq([name : STRING, lr : Seq(Nat)]) ] :
      /\ l.loss # << >> => Len(l.loss) = Len(l.top)
      /\ l.propagate # << >> => Len(l.propagate) = Len(l.bottom) }

Places(l) == [i \in DOMAIN l |-> i]

Before(p, q) == p[1] < q[1] \/ (p[1] = q[1] /\ p[2] < q[2])

Tops(net) == UNION {{i} \X DOMAIN net[i].top : i \in DOMAIN net}
Bottoms(net) == UNION {{i} \X DOMAIN net[i].bottom : i \in DOMAIN net}
TopName(net, t) == net[t[1]].top[t[2]]
BottomName(net, b) == net[b[1]].bottom[b[2]]

-----------------------------------------------------------------------------
(* InsertSplits *)

\* The tops that a bottom may mean: those of its name in the layers before it
Makers(net, b) == {t \in Tops(net) : t[1] < b[1] /\ TopName(net, t) = BottomName(net, b)}

\* A bottom that nothing before it makes is fatal
Known(net) == \A b \in Bottoms(net) : Makers(net, b) # {}

\* ... and the one it does mean
Source(net, b) == LET made == Makers(net, b) IN CHOOSE t \in made : \A u \in made : u = t \/ Before(u, t)

Uses(net, t) == {b \in Bottoms(net) : t[1] < b[1] /\ TopName(net, t) = BottomName(net, b) /\ Source(net, b) = t}

LossWeight(l, j) == IF j \in DOMAIN l.loss THEN l.loss[j] ELSE 0
InLoss(net, t) == LossWeight(net[t[1]], t[2]) # 0

SplitCount(net, t) == Cardinality(Uses(net, t)) + IF InLoss(net, t) THEN 1 ELSE 0

IsSplit(net, t) == SplitCount(net, t) > 1

SplitBlobName(net, t, k) == << TopName(net, t), t[1], t[2], k >>

\* The first of the split's tops is kept for the loss
SplitIndex(net, b) ==
  LET t == Source(net, b)
  IN  Cardinality({c \in Uses(net, t) : Before(c, b)}) + IF InLoss(net, t) THEN 1 ELSE 0

NewBottom(net, b) ==
  LET t == Source(net, b)
  IN  IF IsSplit(net, t) THEN SplitBlobName(net, t, SplitIndex(net, b)) ELSE BottomName(net, b)

ConfigureSplitLayer(net, t) ==
  LET n == SplitCount(net, t)
  IN  [ bottom |-> << TopName(net, t) >>,
        top |-> [k \in 1..n |-> SplitBlobName(net, t, k - 1)],
        loss |-> IF InLoss(net, t) THEN [k \in 1..n |-> IF k = 1 THEN LossWeight(net[t[1]], t[2]) ELSE 0]
                                   ELSE << >>,
        lossLayer |-> FALSE, propagate |-> << >>, param |-> << >> ]

\* A layer loses its loss weights, all of them, when one has gone to a split
Rewired(net, i) ==
  [ net[i] EXCEPT
      !.bottom = [j \in DOMAIN @ |-> NewBottom(net, << i, j >>)],
      !.loss = IF \E j \in DOMAIN net[i].top : IsSplit(net, << i, j >>) /\ InLoss(net, << i, j >>) THEN << >> ELSE @ ]

SplitOf(net, t) == IF IsSplit(net, t) THEN << ConfigureSplitLayer(net, t) >> ELSE << >>

\* A layer and the splits of its tops
WithSplits(net, i) ==
  << Rewired(net, i) >> \o FlattenSeq([j \in DOMAIN net[i].top |-> SplitOf(net, << i, j >>)])

InsertSplits(net) == FlattenSeq([i \in DOMAIN net |-> WithSplits(net, i)])

-----------------------------------------------------------------------------
(* Net::Init: the layers one after the other *)

\* The blobs by number, with what is known of them, and for each layer the
\* numbers of its bottoms and tops.  ok: nothing fatal so far.
NoBlobs ==
  [ names |-> << >>, need |-> << >>, available |-> {}, bottom |-> << >>, top |-> << >>,
    bottomNeed |-> << >>, layerNeed |-> << >>, ok |-> TRUE ]

Id(b, name) == CHOOSE x \in DOMAIN b.names : b.names[x] = name

AppendBottom(b, l, j) ==
  IF l.bottom[j] \notin b.available THEN [b EXCEPT !.ok = FALSE]
  ELSE LET n == Len(b.bottom)
           x == Id(b, l.bottom[j])
       IN  [ b EXCEPT !.bottom[n] = Append(@, x),
                      !.available = @ \ {l.bottom[j]},
                      !.bottomNeed[n] = Append(@, IF l.propagate # << >> THEN l.propagate[j] ELSE b.need[x]) ]

InPlace(l, j) == j \in DOMAIN l.bottom /\ l.top[j] = l.bottom[j]

\* Slip: only the blobs that nobody has read yet are known
TakenUnread(b, name) == name \in b.available

Taken(b, name) == name \in ToSet(b.names)

AppendTop(b, l, j) ==
  LET n == Len(b.top)
      more == [ b EXCEPT !.available = @ \union {l.top[j]} ]
  IN  IF InPlace(l, j) THEN [ more EXCEPT !.top[n] = Append(@, Id(b, l.top[j])) ]
      ELSE IF Taken(b, l.top[j]) THEN [ b EXCEPT !.ok = FALSE ]
      ELSE [ more EXCEPT !.top[n] = Append(@, Len(b.names) + 1),
                         !.names = Append(@, l.top[j]),
                         !.need = Append(@, FALSE) ]

Rate(p) == IF p.lr = << >> THEN 1 ELSE p.lr[1]

\* need_backward of a layer: that of its bottoms or that of its parameters
AddNeed(b, l) ==
  LET n == Len(b.bottom)
      need == \/ \E x \in ToSet(b.bottom[n]) : b.need[x]
              \/ \E p \in ToSet(l.param) : Rate(p) # 0
  IN  [ b EXCEPT !.layerNeed = Append(@, need),
                 !.need = [x \in DOMAIN @ |-> @[x] \/ (need /\ x \in ToSet(b.top[n]))] ]

\* The bottoms of a layer in their order, up to the first that is fatal
Reads(b, l) ==
  LET after[j \in 0..Len(l.bottom)] ==
        IF j = 0 THEN b ELSE LET c == after[j - 1] IN IF c.ok THEN AppendBottom(c, l, j) ELSE c
  IN  after[Len(l.bottom)]

\* ... and its tops
Makes(b, l) ==
  LET after[j \in 0..Len(l.top)] ==
        IF j = 0 THEN b ELSE LET c == after[j - 1] IN IF c.ok THEN AppendTop(c, l, j) ELSE c
  IN  after[Len(l.top)]

NewRow(b) == [b EXCEPT !.bottom = Append(@, << >>), !.top = Append(@, << >>), !.bottomNeed = Append(@, << >>)]

AddLayer(b, l) == LET c == Makes(Reads(NewRow(b), l), l) IN IF c.ok THEN AddNeed(c, l) ELSE c

Connect(net) ==
  LET after[k \in 0..Len(net)] ==
        IF k = 0 THEN NoBlobs ELSE LET b == after[k - 1] IN IF b.ok THEN AddLayer(b, net[k]) ELSE b
  IN  after[Len(net)]

-----------------------------------------------------------------------------
(* Net::Init: which layers need backward computation *)

\* A loss layer that is given no weight has one
Loss(l, j) == IF l.lossLayer /\ l.loss = << >> /\ j = 1 THEN 1 ELSE LossWeight(l, j)

\* A loss is made here, or what is made here reaches one
Contributes(net, m, i) ==
  \/ \E j \in DOMAIN net[i].top : Loss(net[i], j) # 0
  \/ ToSet(m.top[i]) \intersect m.underLoss # {}

\* Nothing comes back through any of its tops
Skips(m, i) == m.layerNeed[i] /\ ToSet(m.top[i]) \subseteq m.skip

\* From the last layer to the first: underLoss and skip are the blobs_under_loss
\* and blobs_skip_backp
Mark(net, m, i) ==
  LET contributes == Contributes(net, m, i)
      skips == Skips(m, i)
      bottoms == [j \in DOMAIN m.bottom[i] |-> contributes /\ ~skips /\ m.bottomNeed[i][j]]
  IN  [ m EXCEPT
          !.layerNeed[i] = @ /\ ~skips /\ contributes,
          !.bottomNeed[i] = bottoms,
          !.underLoss = IF contributes THEN @ \union ToSet(m.bottom[i]) ELSE @,
          !.skip = @ \union {m.bottom[i][j] : j \in {k \in DOMAIN bottoms : ~bottoms[k]}} ]

MarkAll(net, b) ==
  FoldLeft(LAMBDA m, i : Mark(net, m, i), [underLoss |-> {}, skip |-> {}] @@ b, Reverse(Places(net)))

\* A loss layer does not go back to its labels, its second bottom
AllowForceBackward(l, j) == ~(l.lossLayer /\ j = 2)

ForceBackward(net, m) ==
  LET open == [i \in DOMAIN net |->
                 [j \in DOMAIN m.bottomNeed[i] |-> m.bottomNeed[i][j] \/ AllowForceBackward(net[i], j)]]
      Back(x) == \E i \in DOMAIN net : \E j \in DOMAIN open[i] : m.bottom[i][j] = x /\ open[i][j]
  IN  [ m EXCEPT
          !.layerNeed = [i \in DOMAIN @ |-> TRUE],
          !.bottomNeed = open,
          !.need = [x \in DOMAIN @ |-> @[x] \/ Back(x)] ]

-----------------------------------------------------------------------------
(* Net::AppendParam: the parameters in their order, shared by name *)

Params(net) ==
  FlattenSeq([i \in DOMAIN net |-> [k \in DOMAIN net[i].param |-> << i, net[i].param[k] >>]])

\* Slip: two parameters without a name are one
OwnerByName(ps, k) == CHOOSE m \in 1..k : ps[m][2].name = ps[k][2].name /\ \A n \in 1..m - 1 : ps[n][2].name # ps[k][2].name

\* The parameter that k uses: its own, or the first of its name
Owner(ps, k) ==
  IF ps[k][2].name = "" THEN k
  ELSE CHOOSE m \in 1..k : ps[m][2].name = ps[k][2].name /\ \A n \in 1..m - 1 : ps[n][2].name # ps[k][2].name

\* The rates set for the parameters that share with o, in their order
RatesSet(ps, o) ==
  FlattenSeq([k \in DOMAIN ps |-> IF Owner(ps, k) = o THEN ps[k][2].lr ELSE << >>])

\* The first rate that is set counts; a rate that differs from it is fatal
LearnableRate(ps, o) == IF RatesSet(ps, o) = << >> THEN 1 ELSE RatesSet(ps, o)[1]
RatesAgree(ps) == \A o \in DOMAIN ps : Cardinality(ToSet(RatesSet(ps, o))) < 2

\* Net::Init
NetInit(in_param, force_backward) ==
  LET net == InsertSplits(in_param)
      b == Connect(net)
      m == IF force_backward THEN ForceBackward(net, MarkAll(net, b)) ELSE MarkAll(net, b)
  IN  IF ~Known(in_param) \/ ~b.ok \/ ~RatesAgree(Params(net)) THEN [ok |-> FALSE]
      ELSE [ ok |-> TRUE, net |-> net, forced |-> force_backward, names |-> m.names, bottom |-> m.bottom, top |-> m.top,
             bottomNeed |-> m.bottomNeed, layerNeed |-> m.layerNeed ]

-----------------------------------------------------------------------------
(* Net::Backward on a net built so *)

AddedUp(s) == FoldLeft(+, 0, s)

\* SetLossWeights: the diff of a loss is its weight; all else is zero
FirstDiff(n) ==
  [x \in DOMAIN n.names |->
     LET Has(i, j) == n.top[i][j] = x /\ Loss(n.net[i], j) # 0
         ls == {t \in Tops(n.net) : Has(t[1], t[2])}
     IN  IF ls = {} THEN 0 ELSE LET t == CHOOSE t \in ls : \A u \in ls : u = t \/ Before(u, t)
                                IN  Loss(n.net[t[1]], t[2])]

TopDiff(n, diff, i) == AddedUp([j \in DOMAIN n.top[i] |-> diff[n.top[i][j]]])

\* A layer that needs it hands the gradient of its tops to its parameters,
\* where it is added, and to its bottoms, where it replaces what was there
LayerBackward(n, g, i) ==
  IF ~n.layerNeed[i] THEN g
  ELSE LET d == TopDiff(n, g.diff, i)
           Open(x) == \E j \in DOMAIN n.bottom[i] : n.bottom[i][j] = x /\ n.bottomNeed[i][j]
       IN  [ diff |-> [x \in DOMAIN g.diff |-> IF Open(x) THEN d ELSE g.diff[x]],
             grad |-> [g.grad EXCEPT ![i] = d] ]

NetBackward(n) ==
  FoldLeft(LAMBDA g, i : LayerBackward(n, g, i),
           [diff |-> FirstDiff(n), grad |-> [i \in DOMAIN n.net |-> 0]], Reverse(Places(n.net)))

\* param_propagate_down: what has no rate of its own gets no gradient
Learns(n, p) == n.forced \/ Rate(p) # 0

\* The gradient of a learnable parameter, summed over those that share it
ParamDiff(n, o) ==
  LET ps == Params(n.net)
      g == NetBackward(n).grad
  IN  AddedUp([k \in DOMAIN ps |-> IF Owner(ps, k) = o /\ Learns(n, ps[k][2]) THEN g[ps[k][1]] ELSE 0])

-----------------------------------------------------------------------------
(* What a net is for, said without splits, numbers and flags *)

\* The way back through bottom b is open
IsOpen(net, forced, b) ==
  LET l == net[b[1]] IN l.propagate = << >> \/ l.propagate[b[2]] \/ (forced /\ AllowForceBackward(l, b[2]))

\* What reaches layer i: the losses it makes, and what comes back through the
\* bottoms that use its tops
Gradient(net, forced) ==
  LET f[i \in DOMAIN net] ==
        AddedUp([j \in DOMAIN net[i].top |->
                 LET used == {b \in Uses(net, << i, j >>) : IsOpen(net, forced, b)}
                 IN  Loss(net[i], j) + FoldSet(LAMBDA b, sum : sum + f[b[1]], 0, used)])
  IN  f

\* The losses that Rewired leaves alone, and that nobody reads unless they are
\* given a weight
LossesApart(net) ==
  \A i \in DOMAIN net :
     /\ \A j, k \in DOMAIN net[i].top :
           InLoss(net, << i, j >>) /\ SplitCount(net, << i, j >>) > 1 /\ InLoss(net, << i, k >>) => j = k
     /\ net[i].lossLayer /\ net[i].loss = << >> => \A j \in DOMAIN net[i].top : Uses(net, << i, j >>) = {}

-----------------------------------------------------------------------------
(* Properties of a net and of what Init makes of it *)

\* Init turns away exactly those nets in which a layer reads what nobody made
\* before it, one writes in place over a blob that has other uses, a name is
\* given to two blobs, or rates of one parameter differ (insert_splits.cpp:27-31,
\* net.cpp:391-404, :521-525).
RefusalExact(net, n) ==
  n.ok <=> /\ Known(net)
           /\ \A t \in Tops(net) :
                 IF InPlace(net[t[1]], t[2]) THEN SplitCount(net, Source(net, t)) = 1
                 ELSE \A u \in Tops(net) : Before(u, t) => TopName(net, u) # TopName(net, t)
           /\ RatesAgree(Params(net))

\* Every learnable parameter gets its whole gradient, once: with splits, shared
\* parameters, layers in place and layers that are skipped, the backward pass
\* gives what the chain rule gives on the net as it was written
\* (net.cpp:191-266, :590-600, split_layer.cpp:33-49).
GradientExact(net, n) ==
  n.ok /\ LossesApart(net) =>
    LET ps == Params(net)
        way == Gradient(net, n.forced)
        Sharing(o) == {k \in DOMAIN ps : k = o \/ (ps[k][2].name # "" /\ ps[k][2].name = ps[o][2].name)}
        Whole(o) == FoldSet(LAMBDA k, sum : sum + way[ps[k][1]], 0, Sharing(o))
    IN  \A o \in DOMAIN ps :
           (\A k \in Sharing(o) : o <= k) /\ LearnableRate(ps, o) # 0 => ParamDiff(n, o) = Whole(o)
=============================================================================
