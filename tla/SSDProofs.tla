----------------------------- MODULE SSDProofs -----------------------------
(***************************************************************************)
(* The layers of the SSD detector, and the nets they are put into.         *)
(*                                                                         *)
(* MultiBoxLoss: whatever priors and ground truths overlap how much, the   *)
(* matching of FindMatches is stable, and what MineHardExamples takes is   *)
(* the hardest there is.  That the matching ends with no free pair and the *)
(* suppression with no box left is shown by induction over their rounds,   *)
(* and that there is a best pair and a hardest box by induction over the   *)
(* size of sets.  And the gradient of every row that Forward packs goes    *)
(* back to the place the row was taken from: the sums that number the rows *)
(* are defined by recursive functions, and are again shown by induction.   *)
(*                                                                         *)
(* DetectionOutput: whatever scores and overlaps the boxes have, a batch   *)
(* puts out the best detections of each of its images, and what is saved   *)
(* is one whole round, each image once.                                    *)
(*                                                                         *)
(* Net: whatever layers a net is made of, Init refuses exactly the wrong   *)
(* ones.  It sees the net with its splits in it: that this net holds       *)
(* together just when the one that was written does is shown by induction  *)
(* over the layers and, in each, over the splits of its tops.              *)
(***************************************************************************)
EXTENDS MultiBoxLoss, DetectionOutput, NetCases, SequenceTheorems, FiniteSetTheorems, WellFoundedInduction, TLAPS

-----------------------------------------------------------------------------
(* Induction, with sets for predicates *)

LEMMA Inductive ==
  ASSUME NEW S, 0 \in S, \A n \in Nat : n \in S => n + 1 \in S
  PROVE  \A n \in Nat : n \in S
<1> DEFINE R == OpToRel(<, Nat)
<1>1. IsWellFoundedOn(R, Nat)
  BY NatLessThanWellFounded, Zenon
<1>2. \A m, n \in Nat : << m, n >> \in R <=> m < n
  BY DEF OpToRel
<1> HIDE DEF R
<1>3. SUFFICES ASSUME Nat \ S # {} PROVE FALSE
  OBVIOUS
<1>4. PICK x \in Nat \ S : \A y \in Nat \ S : << y, x >> \notin R
  BY <1>1, <1>3, WFMin
<1>5. x # 0 /\ x - 1 \in Nat
  BY <1>4
<1>6. x - 1 \in S
  <2>1. x - 1 < x
    BY <1>5
  <2>2. << x - 1, x >> \in R
    BY <1>2, <1>5, <2>1
  <2>3. QED
    BY <1>4, <1>5, <2>2
<1>7. QED
  BY <1>4, <1>5, <1>6

LEMMA Smallest ==
  ASSUME NEW S, S \subseteq Nat, S # {}
  PROVE  \E x \in S : \A y \in S : x <= y
<1> DEFINE R == OpToRel(<, Nat)
<1>1. IsWellFoundedOn(R, Nat)
  BY NatLessThanWellFounded, Zenon
<1>2. \A m, n \in Nat : << m, n >> \in R <=> m < n
  BY DEF OpToRel
<1> HIDE DEF R
<1>3. PICK x \in S : \A y \in S : << y, x >> \notin R
  BY <1>1, WFMin
<1>4. \A y \in S : x \in Nat /\ y \in Nat /\ ~(y < x)
  BY <1>2, <1>3
<1>5. QED
  BY <1>3, <1>4

\* Of finitely many things one has the largest number
LEMMA Largest ==
  ASSUME NEW S, S # {}, IsFiniteSet(S), NEW f \in [S -> Nat]
  PROVE  \E x \in S : \A y \in S : f[y] <= f[x]
<1> DEFINE Have == {n \in Nat : \A A \in SUBSET S : Cardinality(A) = n + 1 => \E x \in A : \A y \in A : f[y] <= f[x]}
<1>1. 0 \in Have
  <2>1. SUFFICES ASSUME NEW A \in SUBSET S, Cardinality(A) = 1 PROVE \E x \in A : \A y \in A : f[y] <= f[x]
    OBVIOUS
  <2>2. IsFiniteSet(A)
    BY FS_Subset
  <2>3. PICK x : A = {x}
    BY <2>1, <2>2, FS_Singleton
  <2>4. QED
    BY <2>3
<1>2. ASSUME NEW n \in Nat, n \in Have PROVE n + 1 \in Have
  <2>1. SUFFICES ASSUME NEW A \in SUBSET S, Cardinality(A) = n + 2 PROVE \E x \in A : \A y \in A : f[y] <= f[x]
    OBVIOUS
  <2>2. IsFiniteSet(A)
    BY FS_Subset
  <2>3. A # {}
    BY <2>1, FS_EmptySet
  <2>4. PICK a \in A : TRUE
    BY <2>3
  <2>5. Cardinality(A \ {a}) = n + 1
    <3>1. Cardinality(A \ {a}) = Cardinality(A) - 1
      BY <2>2, <2>4, FS_RemoveElement
    <3>2. QED
      BY <2>1, <3>1
  <2>6. PICK x \in A \ {a} : \A y \in A \ {a} : f[y] <= f[x]
    BY <1>2, <2>5
  <2>7. f[a] \in Nat /\ f[x] \in Nat /\ \A y \in A : f[y] \in Nat
    BY <2>4, <2>6
  <2>8. CASE f[a] <= f[x]
    BY <2>6, <2>8
  <2>9. CASE ~(f[a] <= f[x])
    <3>1. \A y \in A : f[y] <= f[a]
      BY <2>6, <2>7, <2>9
    <3>2. QED
      BY <3>1
  <2>10. QED
    BY <2>8, <2>9
<1>3. Cardinality(S) \in Nat /\ Cardinality(S) # 0
  BY FS_CardinalityType, FS_EmptySet
<1>4. Cardinality(S) - 1 \in Nat /\ Cardinality(S) = (Cardinality(S) - 1) + 1
  BY <1>3
<1>5. Cardinality(S) - 1 \in Have
  <2> HIDE DEF Have
  <2>1. QED
    BY <1>1, <1>2, <1>4, Inductive
<1>6. QED
  BY <1>4, <1>5

\* A loop of n rounds, whose body is F[k] in round k, that stays in X
LEMMA LoopIs ==
  ASSUME NEW X, NEW x \in X, NEW n \in Nat, NEW F \in [1..n -> [X -> X]]
  PROVE  \E f : f \in [0..n -> X] /\ f[0] = x /\ \A k \in 1..n : f[k] = F[k][f[k - 1]]
<1> DEFINE Is(f, m) == f \in [0..m -> X] /\ \A k \in 0..m : f[k] = IF k = 0 THEN x ELSE F[k][f[k - 1]]
           S == {m \in Nat : m <= n => \E f : Is(f, m)}
<1>1. 0 \in S
  <2>1. Is([k \in 0..0 |-> x], 0)
    OBVIOUS
  <2>2. QED
    BY <2>1
<1>2. ASSUME NEW m \in Nat, m \in S PROVE m + 1 \in S
  <2>1. SUFFICES ASSUME m + 1 <= n PROVE \E f : Is(f, m + 1)
    OBVIOUS
  <2>2. PICK f : Is(f, m)
    BY <1>2, <2>1
  <2>3. F[m + 1][f[m]] \in X
    <3>1. m + 1 \in 1..n /\ f[m] \in X
      BY <2>1, <2>2
    <3>2. QED
      BY <3>1
  <2> DEFINE g == [k \in 0..m + 1 |-> IF k = m + 1 THEN F[m + 1][f[m]] ELSE f[k]]
  <2>4. g \in [0..m + 1 -> X]
    BY <2>2, <2>3
  <2>5. ASSUME NEW k \in 0..m + 1 PROVE g[k] = IF k = 0 THEN x ELSE F[k][g[k - 1]]
    <3>1. CASE k = m + 1
      BY <3>1
    <3>2. CASE k # m + 1
      <4>1. k \in 0..m /\ (k # 0 => k - 1 \in 0..m + 1 /\ k - 1 # m + 1)
        BY <3>2
      <4>2. g[k] = f[k] /\ (k # 0 => g[k - 1] = f[k - 1])
        BY <3>2, <4>1
      <4>3. QED
        BY <2>2, <4>1, <4>2
    <3>3. QED
      BY <3>1, <3>2
  <2> HIDE DEF g
  <2>6. QED
    BY <2>4, <2>5
<1>3. PICK f : Is(f, n)
  <2>1. n \in S
    <3> HIDE DEF S
    <3>1. QED
      BY <1>1, <1>2, Inductive
  <2>2. QED
    BY <2>1
<1>4. QED
  BY <1>3

-----------------------------------------------------------------------------
(* The matching *)

\* There is a best pair, and only the first of the best is it
LEMMA BestIs ==
  ASSUME NEW overlap, NEW pairs, pairs \subseteq Nat \X Nat, pairs # {}, IsFiniteSet(pairs),
         \A p \in pairs : overlap[p[1]][p[2]] \in Nat
  PROVE  /\ BestPair(overlap, pairs) \in pairs
         /\ LET b == BestPair(overlap, pairs)
            IN  \A p \in pairs : overlap[p[1]][p[2]] <= overlap[b[1]][b[2]]
<1> DEFINE value == [p \in pairs |-> overlap[p[1]][p[2]]]
           Beats(p, q) == LET o == overlap[p[1]][p[2]]
                              u == overlap[q[1]][q[2]]
                          IN  o > u \/ (o = u /\ (p[1] < q[1] \/ (p[1] = q[1] /\ p[2] < q[2])))
<1>1. value \in [pairs -> Nat]
  OBVIOUS
<1>2. PICK t \in pairs : \A p \in pairs : value[p] <= value[t]
  <2> HIDE DEF value
  <2>1. QED
    BY <1>1, Largest
<1> DEFINE Ties == {p \in pairs : value[p] = value[t]}
           Firsts == {n \in Nat : \E p \in Ties : p[1] = n}
<1>3. Firsts \subseteq Nat /\ t[1] \in Firsts
  BY <1>2
<1>4. PICK a \in Firsts : \A n \in Firsts : a <= n
  <2> HIDE DEF Firsts
  <2>1. QED
    BY <1>3, Smallest
<1> DEFINE Seconds == {n \in Nat : \E p \in Ties : p[1] = a /\ p[2] = n}
<1>5. Seconds \subseteq Nat /\ Seconds # {}
  <2>1. PICK p \in Ties : p[1] = a
    BY <1>4
  <2>2. p[2] \in Nat
    BY <2>1
  <2>3. QED
    BY <2>1, <2>2
<1>6. PICK b \in Seconds : \A n \in Seconds : b <= n
  <2> HIDE DEF Seconds
  <2>1. QED
    BY <1>5, Smallest
<1>7. PICK best \in Ties : best[1] = a /\ best[2] = b
  BY <1>6
<1>8. ASSUME NEW q \in pairs \ {best} PROVE Beats(best, q)
  <2>1. value[q] <= value[best] /\ value[q] \in Nat /\ value[best] \in Nat
    BY <1>1, <1>2
  <2>2. CASE value[q] = value[best]
    <3>1. q \in Ties /\ q[1] \in Nat /\ q[2] \in Nat /\ a \in Nat /\ b \in Nat
      BY <2>2, <1>4, <1>6
    <3>2. a <= q[1]
      BY <1>4, <3>1
    <3>3. q[1] = a => b <= q[2]
      BY <1>6, <3>1
    <3>4. q[1] = a => q[2] # b
      <4>1. q = << q[1], q[2] >> /\ best = << best[1], best[2] >>
        OBVIOUS
      <4>2. QED
        BY <1>7, <1>8, <4>1
    <3>5. overlap[best[1]][best[2]] = overlap[q[1]][q[2]]
      BY <2>2
    <3>6. QED
      BY <1>7, <3>1, <3>2, <3>3, <3>4, <3>5
  <2>3. CASE value[q] # value[best]
    BY <2>1, <2>3
  <2>4. QED
    BY <2>2, <2>3
<1>9. BestPair(overlap, pairs) = CHOOSE p \in pairs : \A q \in pairs \ {p} : Beats(p, q)
  BY DEF BestPair
<1>10. PICK c \in pairs : c = BestPair(overlap, pairs) /\ \A q \in pairs \ {c} : Beats(c, q)
  <2> HIDE DEF Beats
  <2>1. best \in pairs
    OBVIOUS
  <2>2. QED
    BY <1>8, <1>9, <2>1
<1>11. ASSUME NEW p \in pairs PROVE overlap[p[1]][p[2]] <= overlap[c[1]][c[2]]
  <2>1. overlap[p[1]][p[2]] \in Nat /\ overlap[c[1]][c[2]] \in Nat
    BY <1>10
  <2>2. p = c \/ Beats(c, p)
    BY <1>10
  <2>3. QED
    BY <2>1, <2>2
<1>12. QED
  BY <1>10, <1>11

\* The rounds, one after the other
LEMMA RoundsAre ==
  ASSUME NEW overlap, NEW start, IsFiniteSet(start.pool)
  PROVE  \E f : /\ f[0] = start /\ f[Cardinality(start.pool)] = Bipartite(overlap, start)
                /\ \A k \in 1..Cardinality(start.pool) : f[k] = MatchOne(overlap, f[k - 1])
<1> DEFINE Is(f, n) == f = [k \in 0..n |-> IF k = 0 THEN start ELSE MatchOne(overlap, f[k - 1])]
           S == {n \in Nat : \E f : Is(f, n)}
           last == Cardinality(start.pool)
<1>1. last \in Nat
  BY FS_CardinalityType
<1>2. 0 \in S
  <2>1. Is([k \in 0..0 |-> start], 0)
    OBVIOUS
  <2>2. QED
    BY <2>1
<1>3. ASSUME NEW n \in Nat, n \in S PROVE n + 1 \in S
  <2>1. PICK f : Is(f, n)
    BY <1>3
  <2> DEFINE g == [k \in 0..n + 1 |-> IF k = n + 1 THEN MatchOne(overlap, f[n]) ELSE f[k]]
  <2>2. ASSUME NEW k \in 0..n + 1 PROVE g[k] = IF k = 0 THEN start ELSE MatchOne(overlap, g[k - 1])
    <3>1. CASE k = n + 1
      BY <3>1
    <3>2. CASE k # n + 1
      <4>1. k \in 0..n /\ k \in 0..n + 1 /\ (k # 0 => k - 1 \in 0..n + 1 /\ k - 1 # n + 1)
        BY <3>2
      <4>2. g[k] = f[k] /\ (k # 0 => g[k - 1] = f[k - 1])
        BY <3>2, <4>1
      <4>3. QED
        BY <2>1, <4>1, <4>2
    <3>3. QED
      BY <3>1, <3>2
  <2>3. Is(g, n + 1)
    <3> HIDE DEF g
    <3>1. g = [k \in 0..n + 1 |-> g[k]]
      BY DEF g
    <3>2. QED
      BY <2>2, <3>1
  <2> HIDE DEF Is, g
  <2>4. QED
    BY <2>3
<1>4. PICK f : Is(f, last)
  <2>1. last \in S
    <3> HIDE DEF S, last
    <3>1. QED
      BY <1>1, <1>2, <1>3, Inductive
  <2>2. QED
    BY <2>1
<1> DEFINE after == CHOOSE g : Is(g, last)
<1>5. Is(after, last)
  BY <1>4
<1>6. Bipartite(overlap, start) = after[last]
  BY DEF Bipartite
<1> HIDE DEF after, last
<1>7. after[0] = start /\ \A k \in 1..last : after[k] = MatchOne(overlap, after[k - 1])
  BY <1>1, <1>5
<1>8. QED
  BY <1>6, <1>7 DEF last

\* What the rounds keep: nothing is matched twice, and for every prior and ground
\* truth that overlap, both are free or one of them has a match as good
FreePairs(image, m) ==
  {p \in (DOMAIN image.overlap) \X m.pool : m.indices[p[1]] = Unmatched /\ image.overlap[p[1]][p[2]] > 0}

Fit(image, gts, m) ==
  /\ m = [indices |-> m.indices, overlaps |-> m.overlaps, pool |-> m.pool]
  /\ m.pool \subseteq gts
  /\ m.indices \in [DOMAIN image.overlap -> Int]
  /\ \A i \in DOMAIN image.overlap :
        IF gts # {} /\ i \in image.cross THEN m.indices[i] = Ignored
        ELSE m.indices[i] = Unmatched \/ m.indices[i] \in gts \ m.pool
  /\ \A i \in DOMAIN image.overlap : m.indices[i] \in gts =>
        /\ image.overlap[i][m.indices[i]] > 0
        /\ \A k \in DOMAIN image.overlap : m.indices[k] = m.indices[i] => k = i
  /\ \A i \in DOMAIN image.overlap \ image.cross, g \in gts : image.overlap[i][g] > 0 =>
        \/ m.indices[i] = Unmatched /\ g \in m.pool
        \/ m.indices[i] \in gts /\ image.overlap[i][m.indices[i]] >= image.overlap[i][g]
        \/ \E k \in DOMAIN image.overlap : m.indices[k] = g /\ image.overlap[k][g] >= image.overlap[i][g]

LEMMA ImageFacts ==
  ASSUME NEW image, IsImage(image), NEW gts, gts \subseteq DOMAIN image.gt
  PROVE  /\ IsFiniteSet(gts) /\ gts \subseteq Nat \ {0}
         /\ IsFiniteSet(DOMAIN image.overlap) /\ DOMAIN image.overlap \subseteq Nat
         /\ \A i \in DOMAIN image.overlap, g \in gts : image.overlap[i][g] \in Nat
<1>1. DOMAIN image.gt = 1..Len(image.gt) /\ Len(image.gt) \in Nat
  BY DEF IsImage
<1>2. /\ DOMAIN image.overlap = 1..Len(image.overlap) /\ Len(image.overlap) \in Nat
      /\ \A i \in DOMAIN image.overlap : image.overlap[i] \in [DOMAIN image.gt -> Nat]
  BY DEF IsImage
<1>3. IsFiniteSet(DOMAIN image.gt) /\ IsFiniteSet(DOMAIN image.overlap)
  <2>1. \A n \in Nat : IsFiniteSet(1..n)
    BY FS_Interval
  <2>2. QED
    BY <1>1, <1>2, <2>1
<1>4. IsFiniteSet(gts)
  BY <1>3, FS_Subset
<1>5. QED
  BY <1>1, <1>2, <1>3, <1>4

LEMMA FreePairsFacts ==
  ASSUME NEW image, IsImage(image), NEW gts, gts \subseteq DOMAIN image.gt, NEW m, m.pool \subseteq gts
  PROVE  /\ IsFiniteSet(FreePairs(image, m)) /\ FreePairs(image, m) \subseteq Nat \X Nat
         /\ \A p \in FreePairs(image, m) :
               /\ p[1] \in DOMAIN image.overlap /\ p[2] \in m.pool /\ p = << p[1], p[2] >>
               /\ image.overlap[p[1]][p[2]] \in Nat
<1> DEFINE D == DOMAIN image.overlap
<1>1. /\ IsFiniteSet(gts) /\ gts \subseteq Nat \ {0} /\ IsFiniteSet(D) /\ D \subseteq Nat
      /\ \A i \in D, g \in gts : image.overlap[i][g] \in Nat
  BY ImageFacts
<1>2. IsFiniteSet(m.pool)
  BY <1>1, FS_Subset
<1>3. IsFiniteSet(D \X m.pool)
  BY <1>1, <1>2, FS_Product
<1>4. FreePairs(image, m) \subseteq D \X m.pool
  BY DEF FreePairs
<1>5. IsFiniteSet(FreePairs(image, m))
  BY <1>3, <1>4, FS_Subset
<1>6. QED
  BY <1>1, <1>4, <1>5

LEMMA StartFits ==
  ASSUME NEW image, IsImage(image), NEW gts, gts \subseteq DOMAIN image.gt
  PROVE  Fit(image, gts, StartOf(image, gts))
<1> DEFINE m == StartOf(image, gts)
<1>1. gts \subseteq Nat \ {0}
  BY ImageFacts
<1>2. /\ m = [indices |-> m.indices, overlaps |-> m.overlaps, pool |-> m.pool] /\ m.pool = gts
      /\ m.indices = [i \in DOMAIN image.overlap |-> IF gts # {} /\ i \in image.cross THEN Ignored ELSE Unmatched]
  BY DEF StartOf
<1>3. Unmatched = -1 /\ Ignored = -2
  BY DEF Unmatched, Ignored
<1> HIDE DEF m
<1>4. m.indices \in [DOMAIN image.overlap -> Int]
  BY <1>2, <1>3
<1>5. \A i \in DOMAIN image.overlap : m.indices[i] \notin gts
  BY <1>1, <1>2, <1>3
<1>6. \A i \in DOMAIN image.overlap \ image.cross : m.indices[i] = Unmatched
  BY <1>2
<1>7. /\ m.pool \subseteq gts
      /\ \A i \in DOMAIN image.overlap :
            IF gts # {} /\ i \in image.cross THEN m.indices[i] = Ignored
            ELSE m.indices[i] = Unmatched \/ m.indices[i] \in gts \ m.pool
  BY <1>2
<1>8. \A i \in DOMAIN image.overlap \ image.cross, g \in gts : m.indices[i] = Unmatched /\ g \in m.pool
  BY <1>2, <1>6
<1>9. \A i \in DOMAIN image.overlap : m.indices[i] \in gts =>
         /\ image.overlap[i][m.indices[i]] > 0
         /\ \A k \in DOMAIN image.overlap : m.indices[k] = m.indices[i] => k = i
  BY <1>5
<1>10. m = [indices |-> m.indices, overlaps |-> m.overlaps, pool |-> m.pool]
  BY <1>2
<1>11. Fit(image, gts, m)
  BY <1>4, <1>7, <1>8, <1>9, <1>10 DEF Fit
<1>12. QED
  BY <1>11 DEF m

\* One round
LEMMA RoundFits ==
  ASSUME NEW image, IsImage(image), NEW gts, gts \subseteq DOMAIN image.gt, NEW m, Fit(image, gts, m)
  PROVE  LET new == MatchOne(image.overlap, m)
         IN  /\ Fit(image, gts, new)
             /\ IF FreePairs(image, m) = {} THEN new = m ELSE Cardinality(new.pool) = Cardinality(m.pool) - 1
<1> DEFINE D == DOMAIN image.overlap
           b == BestPair(image.overlap, FreePairs(image, m))
           new == MatchOne(image.overlap, m)
<1>1. new = IF FreePairs(image, m) = {} THEN m ELSE Assign(image.overlap, m, b)
  BY DEF MatchOne, FreePairs
<1>2. CASE FreePairs(image, m) = {}
  BY <1>1, <1>2
<1>3. CASE FreePairs(image, m) # {}
  <2>1. m.pool \subseteq gts
    BY DEF Fit
  <2>2. /\ b \in FreePairs(image, m) /\ b[1] \in D /\ b[2] \in m.pool
        /\ \A p \in FreePairs(image, m) : image.overlap[p[1]][p[2]] <= image.overlap[b[1]][b[2]]
    BY <1>3, <2>1, FreePairsFacts, BestIs
  <2>3. m.indices[b[1]] = Unmatched /\ image.overlap[b[1]][b[2]] > 0
    BY <2>2 DEF FreePairs
  <2> HIDE DEF b
  <2>4. /\ new = [indices |-> new.indices, overlaps |-> new.overlaps, pool |-> new.pool]
        /\ new.indices = [m.indices EXCEPT ![b[1]] = b[2]] /\ new.pool = m.pool \ {b[2]}
    <3>1. m = [indices |-> m.indices, overlaps |-> m.overlaps, pool |-> m.pool]
      BY DEF Fit
    <3>2. new = [indices |-> [m.indices EXCEPT ![b[1]] = b[2]],
                 overlaps |-> [m.overlaps EXCEPT ![b[1]] = image.overlap[b[1]][b[2]]],
                 pool |-> m.pool \ {b[2]}]
      BY <1>1, <1>3, <3>1 DEF Assign
    <3> HIDE DEF new
    <3>3. QED
      BY <3>2
  <2> HIDE DEF new
  <2>5. /\ gts \subseteq Nat \ {0} /\ IsFiniteSet(gts) /\ Unmatched = -1 /\ Ignored = -2
        /\ \A i \in D, g \in gts : image.overlap[i][g] \in Nat
    BY ImageFacts DEF Unmatched, Ignored
  <2>6. m.indices \in [D -> Int] /\ new.indices \in [D -> Int]
        /\ \A i \in D : new.indices[i] = IF i = b[1] THEN b[2] ELSE m.indices[i]
    BY <2>1, <2>2, <2>4, <2>5 DEF Fit
  <2>7. \A i \in D : IF gts # {} /\ i \in image.cross THEN new.indices[i] = Ignored
                     ELSE new.indices[i] = Unmatched \/ new.indices[i] \in gts \ new.pool
    BY <2>1, <2>2, <2>3, <2>4, <2>5, <2>6 DEF Fit
  <2>8. ASSUME NEW i \in D, new.indices[i] \in gts
        PROVE  /\ image.overlap[i][new.indices[i]] > 0
               /\ \A k \in D : new.indices[k] = new.indices[i] => k = i
    <3>1. \A k \in D : m.indices[k] # b[2]
      BY <2>1, <2>2, <2>5 DEF Fit
    <3>2. QED
      BY <2>3, <2>6, <2>8, <3>1 DEF Fit
  <2>9. ASSUME NEW i \in D \ image.cross, NEW g \in gts, image.overlap[i][g] > 0
        PROVE  \/ new.indices[i] = Unmatched /\ g \in new.pool
               \/ new.indices[i] \in gts /\ image.overlap[i][new.indices[i]] >= image.overlap[i][g]
               \/ \E k \in D : new.indices[k] = g /\ image.overlap[k][g] >= image.overlap[i][g]
    <3>1. CASE m.indices[i] = Unmatched /\ g \in m.pool
      <4>1. << i, g >> \in FreePairs(image, m)
        BY <2>9, <3>1 DEF FreePairs
      <4>2. image.overlap[i][g] <= image.overlap[b[1]][b[2]]
        BY <2>2, <4>1
      <4>3. QED
        BY <2>1, <2>2, <2>4, <2>5, <2>6, <3>1, <4>2
    <3>2. CASE m.indices[i] \in gts /\ image.overlap[i][m.indices[i]] >= image.overlap[i][g]
      BY <2>3, <2>5, <2>6, <3>2
    <3>3. CASE \E k \in D : m.indices[k] = g /\ image.overlap[k][g] >= image.overlap[i][g]
      BY <2>3, <2>5, <2>6, <3>3
    <3>4. QED
      BY <2>9, <3>1, <3>2, <3>3 DEF Fit
  <2>10. Fit(image, gts, new)
    BY <2>1, <2>4, <2>6, <2>7, <2>8, <2>9 DEF Fit
  <2>11. Cardinality(new.pool) = Cardinality(m.pool) - 1
    <3>1. IsFiniteSet(m.pool)
      BY <2>1, <2>5, FS_Subset
    <3>2. Cardinality(m.pool \ {b[2]}) = Cardinality(m.pool) - 1
      BY <2>2, <3>1, FS_RemoveElement
    <3>3. QED
      BY <2>4, <3>2
  <2>12. QED
    BY <1>3, <2>10, <2>11 DEF new
<1>4. QED
  BY <1>2, <1>3

\* After as many rounds as there are ground truths no pair is free
LEMMA BipartiteFits ==
  ASSUME NEW image, IsImage(image), NEW gts, gts \subseteq DOMAIN image.gt
  PROVE  LET end == Bipartite(image.overlap, StartOf(image, gts))
         IN  Fit(image, gts, end) /\ FreePairs(image, end) = {}
<1> DEFINE start == StartOf(image, gts)
           n == Cardinality(gts)
<1>1. start.pool = gts /\ IsFiniteSet(gts) /\ n \in Nat
  BY ImageFacts, FS_CardinalityType DEF StartOf
<1>2. PICK f : /\ f[0] = start /\ f[n] = Bipartite(image.overlap, start)
               /\ \A k \in 1..n : f[k] = MatchOne(image.overlap, f[k - 1])
  <2> HIDE DEF start
  <2>1. QED
    BY <1>1, RoundsAre
<1> DEFINE S == {k \in Nat : k <= n => /\ Fit(image, gts, f[k])
                                       /\ FreePairs(image, f[k]) = {} \/ Cardinality(f[k].pool) = n - k}
<1>3. 0 \in S
  <2>1. Fit(image, gts, start)
    BY StartFits
  <2> HIDE DEF start
  <2>2. QED
    BY <1>1, <1>2, <2>1
<1>4. ASSUME NEW k \in Nat, k \in S PROVE k + 1 \in S
  <2>1. SUFFICES ASSUME k + 1 <= n
                 PROVE  /\ Fit(image, gts, f[k + 1])
                        /\ FreePairs(image, f[k + 1]) = {} \/ Cardinality(f[k + 1].pool) = n - (k + 1)
    OBVIOUS
  <2>2. k <= n /\ k + 1 \in 1..n /\ (k + 1) - 1 = k
    BY <1>1, <2>1
  <2>3. Fit(image, gts, f[k]) /\ (FreePairs(image, f[k]) = {} \/ Cardinality(f[k].pool) = n - k)
    BY <1>4, <2>2
  <2>4. f[k + 1] = MatchOne(image.overlap, f[k])
    BY <1>2, <2>2
  <2> HIDE DEF n
  <2>5. QED
    BY <1>1, <2>2, <2>3, <2>4, RoundFits
<1>5. n \in S
  <2> HIDE DEF S, n
  <2>1. QED
    BY <1>1, <1>3, <1>4, Inductive
<1>6. Fit(image, gts, f[n]) /\ (FreePairs(image, f[n]) = {} \/ Cardinality(f[n].pool) = 0)
  BY <1>1, <1>5
<1>7. Cardinality(f[n].pool) = 0 => FreePairs(image, f[n]) = {}
  <2>1. f[n].pool \subseteq gts
    BY <1>6 DEF Fit
  <2>2. IsFiniteSet(f[n].pool)
    BY <1>1, <2>1, FS_Subset
  <2>3. Cardinality(f[n].pool) = 0 => f[n].pool = {}
    BY <2>2, FS_EmptySet
  <2>4. QED
    BY <2>3 DEF FreePairs
<1>8. QED
  BY <1>2, <1>6, <1>7

\* What is added afterwards is the best there is
LEMMA RestIs ==
  ASSUME NEW image, IsImage(image), NEW gts, gts \subseteq DOMAIN image.gt,
         NEW threshold \in Nat, NEW m, Fit(image, gts, m)
  PROVE  LET D == DOMAIN image.overlap
             new == MatchRest(image.overlap, gts, threshold, m).indices
             Lacks(i) == \A g \in gts : image.overlap[i][g] = 0 \/ image.overlap[i][g] < threshold
         IN  /\ new \in [D -> Int]
             /\ \A i \in D : m.indices[i] # Unmatched => new[i] = m.indices[i]
             /\ \A i \in D : m.indices[i] = Unmatched /\ Lacks(i) => new[i] = Unmatched
             /\ \A i \in D : m.indices[i] = Unmatched /\ ~Lacks(i) =>
                   /\ new[i] \in gts /\ image.overlap[i][new[i]] > 0 /\ image.overlap[i][new[i]] >= threshold
                   /\ \A g \in gts : image.overlap[i][g] <= image.overlap[i][new[i]]
<1> DEFINE D == DOMAIN image.overlap
           Opt(i) == Options(image.overlap, gts, threshold, i)
           Lacks(i) == \A g \in gts : image.overlap[i][g] = 0 \/ image.overlap[i][g] < threshold
           rest == {i \in D : m.indices[i] = Unmatched /\ Opt(i) # {}}
           best == [i \in rest |-> BestPair(image.overlap, Opt(i))[2]]
           new == MatchRest(image.overlap, gts, threshold, m).indices
<1>1. /\ gts \subseteq Nat \ {0} /\ IsFiniteSet(gts) /\ D \subseteq Nat /\ Unmatched = -1
      /\ \A i \in D, g \in gts : image.overlap[i][g] \in Nat
  BY ImageFacts DEF Unmatched
<1>2. new = [i \in D |-> IF i \in rest THEN best[i] ELSE m.indices[i]]
  <2>1. m = [indices |-> m.indices, overlaps |-> m.overlaps, pool |-> m.pool]
    BY DEF Fit
  <2>2. MatchRest(image.overlap, gts, threshold, m) =
          [m EXCEPT !.indices = [i \in D |-> IF i \in rest THEN best[i] ELSE m.indices[i]],
                    !.overlaps = [i \in D |-> IF i \in rest THEN image.overlap[i][best[i]] ELSE m.overlaps[i]]]
    BY DEF MatchRest
  <2> HIDE DEF rest, best
  <2>3. QED
    BY <2>1, <2>2
<1>3. ASSUME NEW i \in D
      PROVE  /\ Opt(i) = {} <=> Lacks(i)
             /\ Opt(i) # {} =>
                  LET g == BestPair(image.overlap, Opt(i))[2]
                  IN  /\ g \in gts /\ image.overlap[i][g] > 0 /\ image.overlap[i][g] >= threshold
                      /\ \A h \in gts : image.overlap[i][h] <= image.overlap[i][g]
  <2> DEFINE able == {g \in gts : image.overlap[i][g] > 0 /\ image.overlap[i][g] >= threshold}
  <2>1. Opt(i) = {i} \X able /\ able \subseteq gts
    BY DEF Options
  <2>2. Opt(i) = {} <=> Lacks(i)
    <3>1. \A g \in gts : image.overlap[i][g] \in Nat
      BY <1>1
    <3>2. able = {} <=> Lacks(i)
      BY <3>1
    <3>3. Opt(i) = {} <=> able = {}
      <4>1. ASSUME NEW g \in able PROVE << i, g >> \in Opt(i)
        BY <2>1
      <4>2. ASSUME NEW q \in Opt(i) PROVE q[2] \in able
        BY <2>1
      <4> HIDE DEF able, Opt
      <4>3. QED
        BY <4>1, <4>2
    <3> HIDE DEF Opt, able, Lacks
    <3>4. QED
      BY <3>2, <3>3
  <2>3. IsFiniteSet(Opt(i)) /\ Opt(i) \subseteq Nat \X Nat
        /\ \A p \in Opt(i) : image.overlap[p[1]][p[2]] \in Nat
    <3>1. IsFiniteSet(able) /\ IsFiniteSet({i})
      BY <1>1, <2>1, FS_Subset, FS_Singleton
    <3>2. IsFiniteSet({i} \X able)
      BY <3>1, FS_Product
    <3>3. QED
      BY <1>1, <2>1, <3>2
  <2>4. ASSUME Opt(i) # {}
        PROVE  LET g == BestPair(image.overlap, Opt(i))[2]
               IN  /\ g \in able
                   /\ \A h \in able : image.overlap[i][h] <= image.overlap[i][g]
    <3> DEFINE b == BestPair(image.overlap, Opt(i))
    <3>1. b \in Opt(i) /\ \A p \in Opt(i) : image.overlap[p[1]][p[2]] <= image.overlap[b[1]][b[2]]
      <4> HIDE DEF Opt
      <4>1. QED
        BY <2>3, <2>4, BestIs
    <3> HIDE DEF b
    <3>2. b[1] = i /\ b[2] \in able
      BY <2>1, <3>1
    <3>3. ASSUME NEW h \in able PROVE image.overlap[i][h] <= image.overlap[i][b[2]]
      <4>1. << i, h >> \in Opt(i)
        BY <2>1
      <4>2. QED
        BY <3>1, <3>2, <4>1
    <3>4. QED
      BY <3>2, <3>3 DEF b
  <2>5. QED
    <3> HIDE DEF Opt
    <3>1. SUFFICES ASSUME Opt(i) # {}
                   PROVE  LET g == BestPair(image.overlap, Opt(i))[2]
                          IN  /\ g \in gts /\ image.overlap[i][g] > 0 /\ image.overlap[i][g] >= threshold
                              /\ \A h \in gts : image.overlap[i][h] <= image.overlap[i][g]
      BY <2>2
    <3> DEFINE g == BestPair(image.overlap, Opt(i))[2]
    <3>2. g \in able /\ \A h \in able : image.overlap[i][h] <= image.overlap[i][g]
      BY <2>4, <3>1
    <3> HIDE DEF g
    <3>3. \A h \in gts \ able : image.overlap[i][h] <= image.overlap[i][g]
      BY <1>1, <3>2
    <3>4. QED
      BY <3>2, <3>3 DEF g
<1> HIDE DEF Opt
<1>4. \A i \in D : i \in rest <=> m.indices[i] = Unmatched /\ ~Lacks(i)
  BY <1>3
<1>5. m.indices \in [D -> Int]
  BY DEF Fit
<1>6. ASSUME NEW i \in D
      PROVE  /\ new[i] \in Int
             /\ m.indices[i] # Unmatched => new[i] = m.indices[i]
             /\ m.indices[i] = Unmatched /\ Lacks(i) => new[i] = Unmatched
             /\ m.indices[i] = Unmatched /\ ~Lacks(i) =>
                   /\ new[i] \in gts /\ image.overlap[i][new[i]] > 0 /\ image.overlap[i][new[i]] >= threshold
                   /\ \A g \in gts : image.overlap[i][g] <= image.overlap[i][new[i]]
  <2>1. CASE i \in rest
    <3>1. new[i] = BestPair(image.overlap, Opt(i))[2] /\ Opt(i) # {} /\ m.indices[i] = Unmatched
      BY <1>2, <2>1
    <3> HIDE DEF new, rest, best, Lacks
    <3>2. QED
      BY <1>1, <1>3, <1>4, <2>1, <3>1
  <2>2. CASE i \notin rest
    <3>1. new[i] = m.indices[i]
      BY <1>2, <2>2
    <3> HIDE DEF new, rest, best, Lacks
    <3>2. QED
      BY <1>4, <1>5, <2>2, <3>1
  <2>3. QED
    BY <2>1, <2>2
<1>7. new = [i \in D |-> new[i]]
  BY <1>2
<1> HIDE DEF new
<1>8. QED
  BY <1>6, <1>7 DEF new

\* The matching of one image is stable
LEMMA MatchIs ==
  ASSUME NEW image, IsImage(image), NEW p \in Parameters, NEW label
  PROVE  /\ MatchBBox(p, image, label).indices \in [DOMAIN image.overlap -> Int]
         /\ \A i \in DOMAIN image.overlap :
               MatchBBox(p, image, label).indices[i] \in DOMAIN image.gt \union {Unmatched, Ignored}
         /\ IsMatch(p, image, label, MatchBBox(p, image, label).indices)
<1> DEFINE gts == Desired(image, label)
           D == DOMAIN image.overlap
           m == Bipartite(image.overlap, StartOf(image, gts))
           all == MatchBBox(p, image, label).indices
           threshold == p.overlap_threshold
           of(i) == image.overlap[i][all[i]]
           per == p.match_type = "PER_PREDICTION"
           Lacks(i) == \A g \in gts : image.overlap[i][g] = 0 \/ image.overlap[i][g] < threshold
<1>1. /\ gts \subseteq DOMAIN image.gt /\ gts \subseteq Nat \ {0}
      /\ \A i \in D, g \in gts : image.overlap[i][g] \in Nat
  <2>1. gts \subseteq DOMAIN image.gt
    BY DEF Desired
  <2>2. QED
    BY <2>1, ImageFacts
<1>2. threshold \in Nat
  BY MultiBoxAssumption DEF IsParameter
<1>3. Fit(image, gts, m) /\ FreePairs(image, m) = {}
  <2> HIDE DEF gts
  <2>1. QED
    BY <1>1, BipartiteFits
<1>4. Unmatched = -1 /\ Ignored = -2
  BY DEF Unmatched, Ignored
<1>5. all = IF per THEN MatchRest(image.overlap, gts, threshold, m).indices ELSE m.indices
  BY DEF MatchBBox
<1> HIDE DEF gts, m, all, threshold, per
\* What all is, and how it comes from m
<1>6. m.indices \in [D -> Int]
  BY <1>3 DEF Fit
<1>7. /\ all \in [D -> Int]
      /\ \A i \in D : m.indices[i] # Unmatched => all[i] = m.indices[i]
      /\ \A i \in D : m.indices[i] = Unmatched /\ (~per \/ Lacks(i)) => all[i] = Unmatched
      /\ \A i \in D : m.indices[i] = Unmatched /\ per /\ ~Lacks(i) =>
            /\ all[i] \in gts /\ of(i) > 0 /\ of(i) >= threshold
            /\ \A g \in gts : image.overlap[i][g] <= of(i)
  <2>1. CASE ~per
    BY <1>5, <1>6, <2>1
  <2>2. CASE per
    <3>1. all = MatchRest(image.overlap, gts, threshold, m).indices
      BY <1>5, <2>2
    <3> DEFINE rest == MatchRest(image.overlap, gts, threshold, m).indices
    <3>2. /\ rest \in [D -> Int]
          /\ \A i \in D : m.indices[i] # Unmatched => rest[i] = m.indices[i]
          /\ \A i \in D : m.indices[i] = Unmatched /\ Lacks(i) => rest[i] = Unmatched
          /\ \A i \in D : m.indices[i] = Unmatched /\ ~Lacks(i) =>
                /\ rest[i] \in gts /\ image.overlap[i][rest[i]] > 0 /\ image.overlap[i][rest[i]] >= threshold
                /\ \A g \in gts : image.overlap[i][g] <= image.overlap[i][rest[i]]
      BY <1>1, <1>2, <1>3, RestIs
    <3>3. all = rest
      BY <3>1
    <3> HIDE DEF rest, Lacks
    <3>4. QED
      BY <2>2, <3>2, <3>3
  <2>3. QED
    BY <2>1, <2>2
<1> HIDE DEF Lacks
<1>8. ASSUME NEW i \in D
      PROVE  \/ /\ m.indices[i] \in gts /\ all[i] = m.indices[i] /\ of(i) > 0
                /\ \A k \in D : m.indices[k] = all[i] => k = i
             \/ /\ m.indices[i] = Unmatched /\ all[i] \in gts /\ per /\ of(i) > 0 /\ of(i) >= threshold
                /\ \A g \in gts : image.overlap[i][g] <= of(i)
             \/ m.indices[i] = Unmatched /\ all[i] = Unmatched /\ (per => Lacks(i))
             \/ m.indices[i] = Ignored /\ all[i] = Ignored
  BY <1>3, <1>4, <1>6, <1>7 DEF Fit
<1>9. \A i \in D : IF gts # {} /\ i \in image.cross THEN m.indices[i] = Ignored /\ all[i] = Ignored
                   ELSE m.indices[i] # Ignored
  BY <1>1, <1>3, <1>4, <1>7 DEF Fit
<1>10. ASSUME NEW i \in D \ image.cross, NEW g \in gts, image.overlap[i][g] > 0
       PROVE  \/ m.indices[i] \in gts /\ of(i) >= image.overlap[i][g]
              \/ \E k \in D : m.indices[k] = g /\ all[k] = g /\ of(k) >= image.overlap[i][g]
  <2>1. ~(m.indices[i] = Unmatched /\ g \in m.pool)
    <3>1. << i, g >> \notin FreePairs(image, m) /\ i \in D
      BY <1>3, <1>10
    <3>2. m.indices[i] = Unmatched /\ g \in m.pool => << i, g >> \in FreePairs(image, m)
      BY <1>10, <3>1 DEF FreePairs
    <3>3. QED
      BY <3>1, <3>2
  <2>2. \/ m.indices[i] \in gts /\ image.overlap[i][m.indices[i]] >= image.overlap[i][g]
        \/ \E k \in D : m.indices[k] = g /\ image.overlap[k][g] >= image.overlap[i][g]
    BY <1>3, <1>10, <2>1 DEF Fit
  <2>3. QED
    BY <1>1, <1>4, <1>7, <2>2
<1> DEFINE matched == {i \in D : all[i] \in gts}
           Later(i) == \E k \in matched : k # i /\ all[k] = all[i] /\ of(k) > of(i)
<1>11. Positive(all) = matched
  BY <1>1, <1>4, <1>7, <1>8 DEF Positive
<1>12. matched \subseteq D \ image.cross
  BY <1>1, <1>4, <1>9
<1>13. \A i \in matched : of(i) > 0 /\ of(i) \in Nat
  BY <1>1, <1>4, <1>8
<1>14. \A i \in D \ matched : (all[i] = Ignored) <=> (gts # {} /\ i \in image.cross)
  BY <1>4, <1>8, <1>9
<1>15. \A i \in D \ image.cross, g \in gts : image.overlap[i][g] > 0 =>
          \/ i \in matched /\ of(i) >= image.overlap[i][g]
          \/ \E k \in matched : all[k] = g /\ of(k) >= image.overlap[i][g]
  BY <1>1, <1>4, <1>7, <1>10
<1>16. ASSUME NEW i \in matched, NEW k \in matched, i # k, all[i] = all[k]
       PROVE  per /\ (of(i) >= threshold \/ of(k) >= threshold)
  BY <1>1, <1>4, <1>8, <1>16
<1>17. ASSUME NEW i \in matched, Later(i)
       PROVE  of(i) >= threshold /\ \A g \in gts : image.overlap[i][g] <= of(i)
  <2>1. CASE m.indices[i] = Unmatched
    BY <1>1, <1>4, <1>8, <2>1
  <2>2. CASE m.indices[i] # Unmatched
    <3>1. m.indices[i] \in gts /\ all[i] = m.indices[i] /\ \A k \in D : m.indices[k] = all[i] => k = i
      BY <1>1, <1>4, <1>8, <2>2
    <3>2. PICK k \in matched : k # i /\ all[k] = all[i] /\ of(k) > of(i)
      BY <1>17
    <3>3. m.indices[k] \notin gts
      BY <1>1, <1>4, <1>7, <3>1, <3>2
    <3>4. image.overlap[k][all[i]] > 0 /\ k \in D \ image.cross
      BY <1>12, <1>13, <3>2
    <3>5. PICK j \in D : m.indices[j] = all[i] /\ all[j] = all[i] /\ of(j) >= image.overlap[k][all[i]]
      BY <1>10, <3>1, <3>3, <3>4
    <3>6. j = i
      BY <3>1, <3>5
    <3>7. QED
      BY <1>13, <3>2, <3>5, <3>6
  <2>3. QED
    BY <2>1, <2>2
<1>18. per => \A i \in (D \ image.cross) \ matched, g \in gts : image.overlap[i][g] = 0 \/ image.overlap[i][g] < threshold
  BY <1>4, <1>8, <1>9 DEF Lacks
<1> HIDE DEF matched
<1>19. /\ matched \subseteq D \ image.cross
       /\ \A i \in matched : all[i] \in gts /\ of(i) > 0
       /\ DOMAIN all = D
  BY <1>7, <1>12, <1>13 DEF matched
<1>20. IsMatch(p, image, label, all)
  BY <1>11, <1>14, <1>15, <1>16, <1>17, <1>18, <1>19 DEF IsMatch, gts, threshold, per, all
<1>21. \A i \in D : all[i] \in DOMAIN image.gt \union {Unmatched, Ignored}
  BY <1>1, <1>8
<1>22. QED
  BY <1>7, <1>20, <1>21 DEF all

\* What FindMatches finds, label by label
LEMMA FoundIs ==
  ASSUME NEW p \in Parameters, NEW image, IsImage(image)
  PROVE  LET found == FindMatches(p, image).indices
             all == MatchBBox(p, image, Shared).indices
         IN  \A c \in DOMAIN found :
               IF p.use_prior_for_matching /\ ~p.share_location
               THEN \A j \in Positive(found[c]) : image.gt[found[c][j]] = c /\ all[j] = found[c][j]
               ELSE IsMatch(p, image, c, found[c])
<1> DEFINE found == FindMatches(p, image).indices
           all == MatchBBox(p, image, Shared)
           dealt(c) == [i \in DOMAIN all.indices |->
                          IF all.indices[i] > -1 /\ image.gt[all.indices[i]] = c THEN all.indices[i] ELSE Unmatched]
<1>1. /\ p.share_location => DOMAIN found \subseteq {Shared}
      /\ \A c \in DOMAIN found :
            found[c] = IF p.share_location THEN all.indices
                       ELSE IF p.use_prior_for_matching THEN dealt(c) ELSE MatchBBox(p, image, c).indices
  <2> HIDE DEF all
  <2>1. QED
    BY DEF FindMatches, all
<1>2. ASSUME NEW c \in DOMAIN found, p.use_prior_for_matching, ~p.share_location, NEW j \in Positive(found[c])
      PROVE  image.gt[found[c][j]] = c /\ all.indices[j] = found[c][j]
  <2>1. found[c] = dealt(c)
    BY <1>1, <1>2
  <2> HIDE DEF found, all
  <2>2. QED
    BY <1>2, <2>1 DEF Positive, Unmatched
<1>3. ASSUME NEW c \in DOMAIN found, ~(p.use_prior_for_matching /\ ~p.share_location)
      PROVE  IsMatch(p, image, c, found[c])
  <2>1. found[c] = MatchBBox(p, image, c).indices
    BY <1>1, <1>3
  <2> HIDE DEF found
  <2>2. QED
    BY <2>1, MatchIs
<1> HIDE DEF found
<1>4. QED
  BY <1>2, <1>3 DEF found

\* A pass is given images, and one of the configurations
PassesInv == passes \in Nat /\ param \in Parameters /\ \A i \in DOMAIN batch : IsImage(batch[i])

LEMMA PassesNext == PassesInv /\ [Next]_vars => PassesInv'
<1> SUFFICES ASSUME PassesInv, [Next]_vars PROVE PassesInv'
  OBVIOUS
<1>1. ASSUME passes < Len(Batches), NEW images \in Batches[passes + 1], Forward(images) PROVE PassesInv'
  <2>1. passes + 1 \in DOMAIN Batches
    BY <1>1, MultiBoxAssumption DEF PassesInv
  <2>2. \A i \in DOMAIN images : IsImage(images[i])
    BY <1>1, <2>1, MultiBoxAssumption
  <2>3. passes' = passes + 1 /\ param' = param /\ batch' = images
    BY <1>1 DEF Forward
  <2>4. QED
    BY <2>2, <2>3 DEF PassesInv
<1>2. CASE Backward
  BY <1>2 DEF Backward, PassesInv
<1>3. CASE UNCHANGED vars
  BY <1>3 DEF vars, PassesInv
<1>4. QED
  BY <1>1, <1>2, <1>3 DEF Next

\* The matching is stable: for any numbers of priors, ground truths and labels,
\* any overlaps, configurations and passes, no prior and ground truth that
\* overlap are left with less than each other, and what PER_PREDICTION adds is
\* the best there is (MatchBBox and FindMatches, bbox_util.cpp:583-817).
THEOREM MatchingIsStable == Spec => []MatchesStable
<1>1. Init => PassesInv
  BY DEF Init, PassesInv
<1>2. PassesInv => MatchesStable
  BY FoundIs DEF PassesInv, MatchesStable
<1>3. QED
  BY <1>1, <1>2, PassesNext, PTL DEF Spec
-----------------------------------------------------------------------------
(* Mining *)

LEMMA MinIs ==
  ASSUME NEW a \in Nat, NEW b \in Nat
  PROVE  Min({a, b}) = IF a <= b THEN a ELSE b
<1> DEFINE least == IF a <= b THEN a ELSE b
<1>1. least \in {a, b} /\ \A y \in {a, b} : least <= y
  OBVIOUS
<1>2. \A x \in {a, b} : (\A y \in {a, b} : x <= y) => x = least
  OBVIOUS
<1> HIDE DEF least
<1>3. Min({a, b}) = least
  BY <1>1, <1>2 DEF Min
<1>4. QED
  BY <1>3 DEF least

\* When no two losses are alike there are n that are the hardest
LEMMA HardestIs ==
  ASSUME NEW D, NEW loss \in [D -> Nat], \A x, y \in D : loss[x] = loss[y] => x = y,
         NEW boxes \in SUBSET D, IsFiniteSet(boxes), NEW n \in Nat
  PROVE  LET best == Hardest(loss, boxes, n)
         IN  /\ best \subseteq boxes /\ IsFiniteSet(best)
             /\ Cardinality(best) = IF n <= Cardinality(boxes) THEN n ELSE Cardinality(boxes)
             /\ \A b \in best, c \in boxes \ best : loss[b] > loss[c]
<1> DEFINE Good(A, k) == /\ A \in SUBSET boxes /\ Cardinality(A) = k
                         /\ \A b \in A, c \in boxes \ A : loss[b] > loss[c]
           Have == {k \in Nat : k <= Cardinality(boxes) => \E A : Good(A, k)}
           many == IF n <= Cardinality(boxes) THEN n ELSE Cardinality(boxes)
<1>1. Cardinality(boxes) \in Nat
  BY FS_CardinalityType
<1>2. many \in Nat /\ many <= Cardinality(boxes)
  BY <1>1
<1>3. 0 \in Have
  <2>1. Good({}, 0)
    BY FS_EmptySet
  <2>2. QED
    BY <2>1
<1>4. ASSUME NEW k \in Nat, k \in Have PROVE k + 1 \in Have
  <2>1. SUFFICES ASSUME k + 1 <= Cardinality(boxes) PROVE \E A : Good(A, k + 1)
    OBVIOUS
  <2>2. PICK A : Good(A, k)
    BY <1>1, <1>4, <2>1
  <2>3. IsFiniteSet(A)
    BY <2>2, FS_Subset
  <2> DEFINE rest == boxes \ A
             f == [x \in rest |-> loss[x]]
  <2>4. rest # {} /\ IsFiniteSet(rest) /\ f \in [rest -> Nat]
    <3>1. rest # {}
      <4>1. SUFFICES ASSUME rest = {} PROVE FALSE
        OBVIOUS
      <4>2. A = boxes
        BY <2>2, <4>1
      <4>3. QED
        BY <1>1, <2>1, <2>2, <4>2
    <3>2. IsFiniteSet(rest)
      BY FS_Subset
    <3>3. QED
      BY <3>1, <3>2
  <2>5. PICK x \in rest : \A y \in rest : f[y] <= f[x]
    <3> HIDE DEF rest, f
    <3>1. QED
      BY <2>4, Largest
  <2>6. Cardinality(A \union {x}) = k + 1
    BY <2>2, <2>3, <2>5, FS_AddElement
  <2>7. \A y \in rest : y # x => loss[x] > loss[y]
    <3>1. SUFFICES ASSUME NEW y \in rest, y # x PROVE loss[x] > loss[y]
      OBVIOUS
    <3>2. f[y] <= f[x] /\ f[y] = loss[y] /\ f[x] = loss[x]
      BY <2>5
    <3>3. x \in D /\ y \in D /\ loss[x] \in Nat /\ loss[y] \in Nat
      BY <2>5
    <3>4. QED
      BY <3>1, <3>2, <3>3
  <2>8. Good(A \union {x}, k + 1)
    BY <2>2, <2>5, <2>6, <2>7
  <2>9. QED
    BY <2>8
<1>5. PICK A : Good(A, many)
  <2>1. many \in Have
    <3> HIDE DEF Have, many
    <3>1. QED
      BY <1>2, <1>3, <1>4, Inductive
  <2>2. QED
    BY <1>2, <2>1
<1>6. Min({n, Cardinality(boxes)}) = many
  BY <1>1, MinIs
<1> HIDE DEF many
<1>7. Hardest(loss, boxes, n) =
        CHOOSE best \in SUBSET boxes :
          Cardinality(best) = many /\ \A b \in best, c \in boxes \ best : loss[b] > loss[c]
  BY <1>6 DEF Hardest
<1>8. Good(Hardest(loss, boxes, n), many)
  BY <1>5, <1>7
<1>9. IsFiniteSet(Hardest(loss, boxes, n))
  BY <1>8, FS_Subset
<1>10. QED
  BY <1>8, <1>9 DEF many

\* What the rounds of the suppression keep, of a pool of boxes
Sifted(image, pool, m) ==
  /\ m \in [left : SUBSET pool, kept : SUBSET pool]
  /\ \A b, c \in m.kept : b # c => {b, c} \notin image.near
  /\ \A b \in m.kept, c \in m.left : image.loss[b] > image.loss[c] /\ {b, c} \notin image.near
  /\ \A e \in pool \ (m.left \union m.kept) :
        e \in image.small \/ \E c \in m.kept : {c, e} \in image.near /\ image.loss[c] > image.loss[e]

LEMMA NMSOneSifts ==
  ASSUME NEW image, IsImage(image), NEW pool \in SUBSET DOMAIN image.overlap, IsFiniteSet(pool),
         NEW m, Sifted(image, pool, m)
  PROVE  LET new == NMSOne(image, m)
         IN  /\ Sifted(image, pool, new)
             /\ m.left = {} => new.left = {}
             /\ m.left # {} => Cardinality(new.left) < Cardinality(m.left)
<1> DEFINE loss == image.loss
           new == NMSOne(image, m)
           Wins(b) == \A c \in m.left \ {b} : loss[b] > loss[c]
<1>1. m = [left |-> m.left, kept |-> m.kept] /\ m.left \subseteq pool /\ m.kept \subseteq pool /\ IsFiniteSet(m.left)
  <2>1. m.left \subseteq pool
    BY DEF Sifted
  <2>2. IsFiniteSet(m.left)
    BY <2>1, FS_Subset
  <2>3. QED
    BY <2>2 DEF Sifted
<1>2. loss \in [DOMAIN image.overlap -> Nat] /\ \A x, y \in DOMAIN image.overlap : loss[x] = loss[y] => x = y
  BY DEF IsImage
<1>3. CASE m.left = {}
  BY <1>3 DEF NMSOne
<1>4. CASE m.left # {}
  <2> DEFINE f == [x \in m.left |-> loss[x]]
  <2>1. f \in [m.left -> Nat]
    BY <1>1, <1>2
  <2>2. PICK x \in m.left : \A y \in m.left : f[y] <= f[x]
    <3> HIDE DEF f
    <3>1. QED
      BY <1>1, <1>4, <2>1, Largest
  <2>3. Wins(x)
    <3>1. SUFFICES ASSUME NEW y \in m.left, y # x PROVE loss[x] > loss[y]
      OBVIOUS
    <3>2. loss[y] <= loss[x]
      BY <2>2
    <3>3. loss[x] \in Nat /\ loss[y] \in Nat /\ loss[x] # loss[y]
      BY <1>1, <1>2, <3>1
    <3>4. QED
      BY <3>2, <3>3
  <2> DEFINE b == CHOOSE c \in m.left : Wins(c)
  <2>4. b \in m.left /\ Wins(b)
    <3> HIDE DEF Wins
    <3>1. QED
      BY <2>3
  <2>5. new = IF b \in image.small THEN [m EXCEPT !.left = @ \ {b}]
              ELSE [ left |-> {c \in m.left \ {b} : c \notin image.small /\ {b, c} \notin image.near},
                     kept |-> m.kept \union {b} ]
    BY <1>4 DEF NMSOne
  <2> HIDE DEF new, b
  <2>6. new.left \subseteq m.left \ {b} /\ new = [left |-> new.left, kept |-> new.kept]
        /\ new.kept = (IF b \in image.small THEN m.kept ELSE m.kept \union {b})
        /\ (b \in image.small => new.left = m.left \ {b})
        /\ (b \notin image.small =>
              new.left = {c \in m.left \ {b} : c \notin image.small /\ {b, c} \notin image.near})
    <3>1. CASE b \in image.small
      <4>1. new = [left |-> m.left \ {b}, kept |-> m.kept]
        BY <1>1, <2>5, <3>1
      <4>2. QED
        BY <3>1, <4>1
    <3>2. CASE b \notin image.small
      BY <2>5, <3>2
    <3>3. QED
      BY <3>1, <3>2
  <2>7. Cardinality(new.left) < Cardinality(m.left)
    <3>1. IsFiniteSet(m.left \ {b}) /\ Cardinality(m.left \ {b}) = Cardinality(m.left) - 1
      BY <1>1, <2>4, FS_RemoveElement
    <3>2. IsFiniteSet(new.left) /\ Cardinality(new.left) <= Cardinality(m.left \ {b})
      BY <2>6, <3>1, FS_Subset
    <3>3. Cardinality(m.left) \in Nat /\ Cardinality(new.left) \in Nat
      BY <1>1, <3>2, FS_CardinalityType
    <3>4. QED
      BY <3>1, <3>2, <3>3
  <2>8. new \in [left : SUBSET pool, kept : SUBSET pool]
    BY <1>1, <2>4, <2>6
  <2>9. \A c, d \in new.kept : c # d => {c, d} \notin image.near
    <3>1. \A c \in m.kept : {c, b} \notin image.near /\ {b, c} = {c, b}
      BY <2>4 DEF Sifted
    <3>2. QED
      BY <2>6, <3>1 DEF Sifted
  <2>10. ASSUME NEW c \in new.kept, NEW d \in new.left PROVE loss[c] > loss[d] /\ {c, d} \notin image.near
    <3>1. d \in m.left /\ d # b
      BY <2>6
    <3>2. CASE c \in m.kept
      BY <3>1, <3>2 DEF Sifted
    <3>3. CASE c \notin m.kept
      <4>1. b \notin image.small /\ c = b
        BY <2>6, <3>3
      <4>2. {b, d} \notin image.near
        BY <2>6, <4>1
      <4>3. loss[b] > loss[d]
        BY <2>4, <3>1
      <4>4. QED
        BY <4>1, <4>2, <4>3
    <3>4. QED
      BY <3>2, <3>3
  <2>11. ASSUME NEW e \in pool \ (new.left \union new.kept)
         PROVE  e \in image.small \/ \E c \in new.kept : {c, e} \in image.near /\ loss[c] > loss[e]
    <3>1. m.kept \subseteq new.kept
      BY <2>6
    <3>2. CASE e \notin m.left
      BY <2>11, <3>1, <3>2 DEF Sifted
    <3>3. CASE e \in m.left
      BY <2>4, <2>6, <2>11, <3>3
    <3>4. QED
      BY <3>2, <3>3
  <2>12. Sifted(image, pool, new)
    BY <2>8, <2>9, <2>10, <2>11 DEF Sifted
  <2>13. QED
    BY <1>4, <2>7, <2>12 DEF new
<1>5. QED
  BY <1>3, <1>4

\* What the suppression keeps: no two that are near, and what it takes out is
\* too small, near a harder one that is kept, or below the top_k hardest
LEMMA ApplyNMSIs ==
  ASSUME NEW image, IsImage(image), NEW p, IsParameter(p),
         NEW boxes \in SUBSET DOMAIN image.overlap, IsFiniteSet(boxes)
  PROVE  LET K == ApplyNMS(p, image, boxes)
             loss == image.loss
         IN  /\ K \subseteq boxes
             /\ \A b, c \in K : b # c => {b, c} \notin image.near
             /\ \A e \in boxes \ K :
                   \/ e \in image.small
                   \/ \E c \in K : {c, e} \in image.near /\ loss[c] > loss[e]
                   \/ p.top_k > -1 /\ Cardinality({x \in boxes : loss[x] > loss[e]}) >= p.top_k
<1> DEFINE loss == image.loss
           D == DOMAIN image.overlap
           pool == IF p.top_k > -1 THEN Hardest(loss, boxes, p.top_k) ELSE boxes
           Beyond(e) == p.top_k > -1 /\ Cardinality({x \in boxes : loss[x] > loss[e]}) >= p.top_k
           start == [left |-> pool, kept |-> {}]
           n == Cardinality(pool)
           X == {m \in [left : SUBSET pool, kept : SUBSET pool] : Sifted(image, pool, m)}
           G == [m \in X |-> NMSOne(image, m)]
           F == [k \in 1..n |-> G]
           Is(f) == f = [k \in 0..n |-> IF k = 0 THEN start ELSE NMSOne(image, f[k - 1])]
<1>1. loss \in [D -> Nat] /\ (\A x, y \in D : loss[x] = loss[y] => x = y) /\ p.top_k \in Int
  BY DEF IsImage, IsParameter
<1>2. pool \subseteq boxes /\ IsFiniteSet(pool) /\ \A e \in boxes \ pool : Beyond(e)
  <2>1. CASE ~(p.top_k > -1)
    BY <2>1
  <2>2. CASE p.top_k > -1
    <3>1. p.top_k \in Nat
      BY <1>1, <2>2
    <3> DEFINE best == Hardest(loss, boxes, p.top_k)
    <3>2. /\ best \subseteq boxes /\ IsFiniteSet(best)
          /\ Cardinality(best) = IF p.top_k <= Cardinality(boxes) THEN p.top_k ELSE Cardinality(boxes)
          /\ \A b \in best, c \in boxes \ best : loss[b] > loss[c]
      <4> HIDE DEF loss, D
      <4>1. QED
        BY <1>1, <3>1, HardestIs DEF D
    <3> HIDE DEF best
    <3>3. ASSUME NEW e \in boxes \ best PROVE Cardinality({x \in boxes : loss[x] > loss[e]}) >= p.top_k
      <4> DEFINE H == {x \in boxes : loss[x] > loss[e]}
      <4>1. best \subseteq H
        BY <3>2
      <4>2. IsFiniteSet(H) /\ H \subseteq boxes
        BY FS_Subset
      <4>3. Cardinality(best) <= Cardinality(H) /\ Cardinality(H) \in Nat /\ Cardinality(boxes) \in Nat
        <5> HIDE DEF H
        <5>1. QED
          BY <4>1, <4>2, FS_Subset, FS_CardinalityType
      <4>4. p.top_k <= Cardinality(boxes)
        <5>1. SUFFICES ASSUME ~(p.top_k <= Cardinality(boxes)) PROVE FALSE
          OBVIOUS
        <5>2. Cardinality(best) = Cardinality(boxes)
          BY <3>2, <5>1
        <5>3. best = boxes
          BY <3>2, <5>2, FS_Subset
        <5>4. QED
          BY <3>3, <5>3
      <4>5. QED
        BY <3>1, <3>2, <4>3, <4>4
    <3>4. pool = best
      BY <2>2 DEF best
    <3> HIDE DEF pool
    <3>5. QED
      BY <2>2, <3>2, <3>3, <3>4
  <2>3. QED
    BY <2>1, <2>2
<1> HIDE DEF pool, Beyond
<1>3. pool \in SUBSET D /\ n \in Nat
  BY <1>2, FS_CardinalityType
<1>4. start \in X
  BY DEF Sifted
<1>5. \A m \in X : NMSOne(image, m) \in X
  <2>1. SUFFICES ASSUME NEW m \in X PROVE NMSOne(image, m) \in X
    OBVIOUS
  <2>2. Sifted(image, pool, m)
    OBVIOUS
  <2>3. Sifted(image, pool, NMSOne(image, m))
    BY <1>2, <1>3, <2>2, NMSOneSifts
  <2>4. QED
    BY <2>3 DEF Sifted
<1>6. \E f : f \in [0..n -> X] /\ Is(f)
  <2>1. F \in [1..n -> [X -> X]]
    BY <1>5
  <2> HIDE DEF X, F, start, n
  <2>2. PICK f : f \in [0..n -> X] /\ f[0] = start /\ \A k \in 1..n : f[k] = F[k][f[k - 1]]
    BY <1>3, <1>4, <2>1, LoopIs, Z3T(30)
  <2>3. \A k \in 1..n : f[k] = NMSOne(image, f[k - 1])
    <3>1. SUFFICES ASSUME NEW k \in 1..n PROVE f[k] = NMSOne(image, f[k - 1])
      OBVIOUS
    <3>2. k - 1 \in 0..n
      BY <1>3
    <3>3. F[k][f[k - 1]] = NMSOne(image, f[k - 1])
      BY <2>2, <3>2 DEF F
    <3>4. QED
      BY <2>2, <3>3
  <2>4. Is(f)
    <3>1. \A k \in 0..n : f[k] = IF k = 0 THEN start ELSE NMSOne(image, f[k - 1])
      BY <1>3, <2>2, <2>3
    <3>2. QED
      BY <2>2, <3>1
  <2>5. QED
    BY <2>2, <2>4
<1> DEFINE after == CHOOSE f : Is(f)
<1>7. Is(after)
  BY <1>6
<1>8. ApplyNMS(p, image, boxes) = after[n].kept
  BY DEF ApplyNMS, pool
<1> HIDE DEF after
<1>9. after[0] = start /\ \A k \in 1..n : after[k] = NMSOne(image, after[k - 1])
  <2> HIDE DEF start, n
  <2>1. QED
    BY <1>3, <1>7
<1> DEFINE Ok == {k \in Nat : k <= n => Sifted(image, pool, after[k]) /\ Cardinality(after[k].left) <= n - k}
<1>10. 0 \in Ok
  <2>1. start.left = pool /\ Sifted(image, pool, start)
    BY <1>4
  <2>2. QED
    BY <1>3, <1>9, <2>1
<1>11. ASSUME NEW k \in Nat, k \in Ok PROVE k + 1 \in Ok
  <2>1. SUFFICES ASSUME k + 1 <= n
                 PROVE  Sifted(image, pool, after[k + 1]) /\ Cardinality(after[k + 1].left) <= n - (k + 1)
    OBVIOUS
  <2> DEFINE m == after[k]
             new == after[k + 1]
  <2>2. Sifted(image, pool, m) /\ Cardinality(m.left) <= n - k
    BY <1>3, <1>11, <2>1
  <2>3. new = NMSOne(image, m)
    <3>1. k + 1 \in 1..n /\ (k + 1) - 1 = k
      BY <1>3, <2>1
    <3>2. QED
      BY <1>9, <3>1
  <2> HIDE DEF m, new, n
  <2>4. /\ Sifted(image, pool, new)
        /\ m.left = {} => new.left = {}
        /\ m.left # {} => Cardinality(new.left) < Cardinality(m.left)
    BY <1>2, <1>3, <2>2, <2>3, NMSOneSifts
  <2>5. Cardinality(m.left) \in Nat /\ Cardinality(new.left) \in Nat
    <3>1. m.left \subseteq pool /\ new.left \subseteq pool
      BY <2>2, <2>4 DEF Sifted
    <3>2. IsFiniteSet(m.left) /\ IsFiniteSet(new.left)
      BY <1>2, <3>1, FS_Subset
    <3>3. QED
      BY <3>2, FS_CardinalityType
  <2>6. Cardinality(new.left) <= n - (k + 1)
    <3>1. CASE m.left = {}
      <4>1. Cardinality(new.left) = 0
        BY <2>4, <3>1, FS_EmptySet
      <4>2. QED
        BY <1>3, <2>1, <4>1
    <3>2. CASE m.left # {}
      BY <1>3, <2>2, <2>4, <2>5, <3>2
    <3>3. QED
      BY <3>1, <3>2
  <2>7. QED
    BY <2>4, <2>6 DEF new
<1>12. Sifted(image, pool, after[n]) /\ Cardinality(after[n].left) <= 0
  <2>1. n \in Ok
    <3> HIDE DEF Ok, n
    <3>1. QED
      BY <1>3, <1>10, <1>11, Inductive
  <2>2. QED
    BY <1>3, <2>1
<1> DEFINE last == after[n]
           K == last.kept
<1>13. Sifted(image, pool, last) /\ last.left = {}
  <2>1. last.left \subseteq pool /\ IsFiniteSet(last.left)
    <3>1. last.left \subseteq pool
      BY <1>12 DEF Sifted
    <3>2. QED
      BY <1>2, <3>1, FS_Subset
  <2>2. Cardinality(last.left) = 0
    BY <1>12, <2>1, FS_CardinalityType
  <2>3. QED
    BY <1>12, <2>1, <2>2, FS_EmptySet
<1> HIDE DEF last
<1>14. /\ K \subseteq pool
       /\ \A b, c \in K : b # c => {b, c} \notin image.near
       /\ \A e \in pool \ K : e \in image.small \/ \E c \in K : {c, e} \in image.near /\ loss[c] > loss[e]
  BY <1>13 DEF Sifted
<1>15. K = ApplyNMS(p, image, boxes)
  BY <1>8 DEF last
<1> HIDE DEF K
<1>16. QED
  BY <1>2, <1>14, <1>15 DEF Beyond

\* The examples selected are the hardest of the eligible
LEMMA SelectedIs ==
  ASSUME NEW image, IsImage(image), NEW p, IsParameter(p), NEW indices, DOMAIN indices = DOMAIN image.overlap,
         NEW overlaps
  PROVE  /\ Wanted(p, indices, overlaps) \in Nat
         /\ IsHardest(p, image, Eligible(p, indices, overlaps), Wanted(p, indices, overlaps),
                      Selected(p, image, indices, overlaps))
<1> DEFINE loss == image.loss
           D == DOMAIN image.overlap
           eligible == Eligible(p, indices, overlaps)
           wanted == Wanted(p, indices, overlaps)
           pool == IF p.nms THEN ApplyNMS(p, image, eligible) ELSE eligible
           chosen == Hardest(loss, pool, wanted)
           Harder(e) == {x \in eligible : loss[x] > loss[e]}
           Excused(e) == p.nms /\ \/ e \in image.small
                                  \/ \E c \in chosen : {c, e} \in image.near /\ loss[c] > loss[e]
                                  \/ p.top_k > -1 /\ Cardinality(Harder(e)) >= p.top_k
<1>1. /\ loss \in [D -> Nat] /\ (\A x, y \in D : loss[x] = loss[y] => x = y)
      /\ p.neg_pos_ratio \in Nat /\ p.sample_size \in Nat
  BY DEF IsImage, IsParameter
<1>2. IsFiniteSet(D)
  BY ImageFacts, {} \subseteq DOMAIN image.gt
<1>3. eligible \subseteq D /\ IsFiniteSet(eligible) /\ Cardinality(eligible) \in Nat
  <2>1. eligible \subseteq D
    BY DEF Eligible
  <2>2. QED
    BY <1>2, <2>1, FS_Subset, FS_CardinalityType
<1>4. wanted \in Nat
  <2> DEFINE most == IF p.mining_type = "MAX_NEGATIVE" THEN Cardinality(Positive(indices)) * p.neg_pos_ratio
                     ELSE p.sample_size
  <2>1. Positive(indices) \subseteq D
    BY DEF Positive
  <2>2. Cardinality(Positive(indices)) \in Nat
    BY <1>2, <2>1, FS_Subset, FS_CardinalityType
  <2>3. most \in Nat
    BY <1>1, <2>2
  <2>4. wanted = Min({most, Cardinality(eligible)})
    BY DEF Wanted
  <2> HIDE DEF most, wanted, eligible
  <2>5. QED
    BY <1>3, <2>3, <2>4, MinIs
<1> HIDE DEF wanted, eligible
<1>5. /\ pool \subseteq eligible
      /\ p.nms => \A b, c \in pool : b # c => {b, c} \notin image.near
      /\ \A e \in eligible \ pool : p.nms /\
            \/ e \in image.small
            \/ \E c \in pool : {c, e} \in image.near /\ loss[c] > loss[e]
            \/ p.top_k > -1 /\ Cardinality(Harder(e)) >= p.top_k
  <2>1. CASE p.nms
    <3>1. pool = ApplyNMS(p, image, eligible)
      BY <2>1
    <3> HIDE DEF pool
    <3>2. QED
      BY <1>3, <2>1, <3>1, ApplyNMSIs
  <2>2. CASE ~p.nms
    BY <2>2
  <2>3. QED
    BY <2>1, <2>2
<1> HIDE DEF pool
<1>6. IsFiniteSet(pool) /\ Cardinality(pool) \in Nat /\ pool \in SUBSET D
  BY <1>3, <1>5, FS_Subset, FS_CardinalityType
<1>7. /\ chosen \subseteq pool /\ IsFiniteSet(chosen)
      /\ Cardinality(chosen) = IF wanted <= Cardinality(pool) THEN wanted ELSE Cardinality(pool)
      /\ \A b \in chosen, c \in pool \ chosen : loss[b] > loss[c]
  <2> HIDE DEF loss, D
  <2>1. QED
    BY <1>1, <1>4, <1>6, HardestIs
<1> HIDE DEF chosen
<1>8. chosen \subseteq eligible /\ Cardinality(chosen) <= wanted
  BY <1>4, <1>5, <1>6, <1>7
<1>9. ASSUME NEW e \in pool \ chosen PROVE ~(Cardinality(chosen) < wanted)
  <2>1. SUFFICES ASSUME Cardinality(chosen) < wanted PROVE FALSE
    OBVIOUS
  <2>2. Cardinality(chosen) = Cardinality(pool)
    BY <1>4, <1>6, <1>7, <2>1
  <2>3. chosen = pool
    BY <1>6, <1>7, <2>2, FS_Subset
  <2>4. QED
    BY <1>9, <2>3
<1>10. \A x \in eligible : loss[x] \in Nat
  BY <1>1, <1>3
<1>11. ASSUME NEW e \in eligible \ chosen,
              Cardinality(chosen) < wanted \/ \E c \in chosen : loss[c] < loss[e]
       PROVE  Excused(e)
  <2>1. CASE e \in pool
    <3>1. PICK c \in chosen : loss[c] < loss[e]
      BY <1>9, <1>11, <2>1
    <3>2. loss[c] > loss[e] /\ loss[c] \in Nat /\ loss[e] \in Nat
      BY <1>7, <1>8, <1>10, <2>1
    <3>3. QED
      BY <3>1, <3>2
  <2>2. CASE e \notin pool
    <3>1. SUFFICES ASSUME NEW k \in pool, {k, e} \in image.near, loss[k] > loss[e], k \notin chosen PROVE FALSE
      BY <1>5, <2>2
    <3>2. PICK c \in chosen : loss[c] < loss[e]
      BY <1>9, <1>11, <3>1
    <3>3. loss[c] > loss[k]
      BY <1>7, <3>1
    <3>4. loss[c] \in Nat /\ loss[e] \in Nat /\ loss[k] \in Nat
      BY <1>5, <1>8, <1>10
    <3>5. QED
      BY <3>1, <3>2, <3>3, <3>4
  <2>3. QED
    BY <2>1, <2>2
<1>12. p.nms => \A c, d \in chosen : c # d => {c, d} \notin image.near
  BY <1>5, <1>7
<1>13. IsHardest(p, image, eligible, wanted, chosen)
  BY <1>8, <1>11, <1>12 DEF IsHardest
<1>14. chosen = Selected(p, image, indices, overlaps)
  BY DEF Selected, chosen, pool, eligible, wanted
<1>15. QED
  BY <1>4, <1>13, <1>14 DEF wanted, eligible

\* The members of S from 1 to n, in order
LEMMA AscendingIs ==
  ASSUME NEW S, NEW n \in Nat
  PROVE  LET s == Ascending(S, n)
         IN  /\ s \in Seq(1..n) /\ \A x : (\E k \in 1..Len(s) : s[k] = x) <=> x \in S /\ x \in 1..n
             /\ \A j, k \in 1..Len(s) : j < k => s[j] < s[k]
             /\ Len(s) = Cardinality(S \cap (1..n))
<1> DEFINE X == Seq(1..n)
           step(s, k) == IF k \in S THEN Append(s, k) ELSE s
           F == [k \in 1..n |-> [s \in X |-> step(s, k)]]
           empty == << >>
           Is(f) == f = [k \in 0..n |-> IF k = 0 THEN << >> ELSE IF k \in S THEN Append(f[k - 1], k) ELSE f[k - 1]]
<1>1. empty \in X /\ F \in [1..n -> [X -> X]]
  <2>1. ASSUME NEW k \in 1..n, NEW s \in X PROVE step(s, k) \in X
    <3>1. Append(s, k) \in X
      BY AppendProperties
    <3>2. QED
      BY <3>1
  <2>2. QED
    BY <2>1
<1>2. \E f : f \in [0..n -> X] /\ Is(f)
  <2> HIDE DEF X, F, empty
  <2>2. PICK f : f \in [0..n -> X] /\ f[0] = empty /\ \A k \in 1..n : f[k] = F[k][f[k - 1]]
    BY <1>1, LoopIs, Z3T(30)
  <2>3. \A k \in 1..n : f[k] = step(f[k - 1], k)
    <3>1. SUFFICES ASSUME NEW k \in 1..n PROVE f[k] = step(f[k - 1], k)
      OBVIOUS
    <3>2. k - 1 \in 0..n
      OBVIOUS
    <3>3. F[k][f[k - 1]] = step(f[k - 1], k)
      BY <2>2, <3>2 DEF F
    <3>4. QED
      BY <2>2, <3>3
  <2>4. Is(f)
    <3>1. ASSUME NEW k \in 0..n
          PROVE  f[k] = IF k = 0 THEN << >> ELSE IF k \in S THEN Append(f[k - 1], k) ELSE f[k - 1]
      <4>1. CASE k = 0
        BY <2>2, <4>1 DEF empty
      <4>2. CASE k # 0
        <5>1. f[k] = step(f[k - 1], k)
          BY <2>3, <4>2
        <5>2. QED
          BY <4>2, <5>1
      <4>3. QED
        BY <4>1, <4>2
    <3>2. QED
      BY <2>2, <3>1
  <2>5. QED
    BY <2>2, <2>4
<1> DEFINE upto == CHOOSE f : Is(f)
<1>3. Is(upto)
  BY <1>2
<1>4. Ascending(S, n) = upto[n]
  BY DEF Ascending
<1> HIDE DEF upto
<1>5. upto[0] = << >> /\ \A k \in 1..n : upto[k] = step(upto[k - 1], k)
  <2> DEFINE g(k) == IF k = 0 THEN << >> ELSE step(upto[k - 1], k)
  <2>1. upto = [k \in 0..n |-> g(k)]
    BY <1>3
  <2>2. g(0) = << >> /\ \A k \in 1..n : g(k) = step(upto[k - 1], k)
    OBVIOUS
  <2> HIDE DEF g
  <2>3. \A k \in 0..n : upto[k] = g(k)
    BY <2>1
  <2>4. 0 \in 0..n /\ 1..n \subseteq 0..n
    OBVIOUS
  <2> HIDE DEF step
  <2>5. QED
    BY <2>2, <2>3, <2>4, Zenon
<1> DEFINE Good(s, m) == /\ s \in Seq(1..m) /\ (\A x : (\E k \in 1..Len(s) : s[k] = x) <=> x \in S /\ x \in 1..m)
                         /\ \A j, k \in 1..Len(s) : j < k => s[j] < s[k]
                         /\ Len(s) = Cardinality(S \cap (1..m))
           Ok == {m \in Nat : m <= n => Good(upto[m], m)}
<1>6. 0 \in Ok
  <2>1. Len(<< >>) = 0 /\ << >> \in Seq(1..0) /\ \A k \in 1..0 : FALSE
    OBVIOUS
  <2>2. Good(<< >>, 0)
    <3>1. S \cap (1..0) = {}
      OBVIOUS
    <3>2. QED
      BY <2>1, <3>1, FS_EmptySet
  <2>3. QED
    BY <1>5, <2>2
<1>7. ASSUME NEW m \in Nat, m \in Ok PROVE m + 1 \in Ok
  <2>1. SUFFICES ASSUME m + 1 <= n PROVE Good(upto[m + 1], m + 1)
    OBVIOUS
  <2> DEFINE s == upto[m]
             new == upto[m + 1]
  <2>2. /\ s \in Seq(1..m) /\ (\A x : (\E k \in 1..Len(s) : s[k] = x) <=> x \in S /\ x \in 1..m)
        /\ \A j, k \in 1..Len(s) : j < k => s[j] < s[k]
        /\ Len(s) = Cardinality(S \cap (1..m))
    BY <1>7, <2>1
  <2>3. new = IF m + 1 \in S THEN Append(s, m + 1) ELSE s
    <3>1. m + 1 \in 1..n /\ (m + 1) - 1 = m
      BY <2>1
    <3>2. QED
      BY <1>5, <3>1
  <2> HIDE DEF s, new
  <2>4. Good(new, m + 1)
    <3>1. s \in Seq(1..m + 1) /\ Len(s) \in Nat
      <4>1. \A k \in 1..Len(s) : s[k] \in 1..m
        BY <2>2
      <4>2. QED
        BY <2>2, <4>1
    <3>2. \A k \in 1..Len(s) : s[k] \in 1..m
      BY <2>2
    <3>3. CASE m + 1 \notin S
      <4>0. S \cap (1..m + 1) = S \cap (1..m)
        <5>1. 1..m + 1 = (1..m) \union {m + 1}
          OBVIOUS
        <5>2. QED
          BY <3>3, <5>1
      <4>1. \A x : x \in S /\ x \in 1..m + 1 <=> x \in S /\ x \in 1..m
        <5>1. 1..m + 1 = (1..m) \union {m + 1}
          OBVIOUS
        <5>2. QED
          BY <3>3, <5>1
      <4>2. QED
        BY <2>2, <2>3, <3>1, <3>3, <4>0, <4>1
    <3>4. CASE m + 1 \in S
      <4>1. /\ new \in Seq(1..m + 1) /\ Len(new) = Len(s) + 1 /\ new[Len(s) + 1] = m + 1
            /\ \A k \in 1..Len(s) : new[k] = s[k]
        BY <2>3, <3>1, <3>4
      <4>2. ASSUME NEW x PROVE (\E k \in 1..Len(new) : new[k] = x) <=> x \in S /\ x \in 1..m + 1
        <5>1. (\E k \in 1..Len(new) : new[k] = x) <=> x = m + 1 \/ \E k \in 1..Len(s) : s[k] = x
          <6>1. 1..Len(new) = (1..Len(s)) \union {Len(s) + 1}
            BY <3>1, <4>1
          <6>2. QED
            BY <4>1, <6>1
        <5>2. 1..m + 1 = (1..m) \union {m + 1}
          OBVIOUS
        <5>3. (\E k \in 1..Len(s) : s[k] = x) <=> x \in S /\ x \in 1..m
          BY <2>2
        <5>4. QED
          BY <3>4, <5>1, <5>2, <5>3
      <4>3. ASSUME NEW j \in 1..Len(new), NEW k \in 1..Len(new), j < k PROVE new[j] < new[k]
        <5>1. j \in 1..Len(s) /\ new[j] = s[j]
          BY <3>1, <4>1, <4>3
        <5>2. CASE k \in 1..Len(s)
          BY <2>2, <4>1, <4>3, <5>1, <5>2
        <5>3. CASE k \notin 1..Len(s)
          <6>1. k = Len(s) + 1
            BY <3>1, <4>1, <5>3
          <6>2. s[j] \in 1..m
            BY <3>2, <5>1
          <6>3. QED
            BY <4>1, <5>1, <6>1, <6>2
        <5>4. QED
          BY <5>2, <5>3
      <4>4. Len(new) = Cardinality(S \cap (1..m + 1))
        <5> DEFINE A == S \cap (1..m)
        <5>1. S \cap (1..m + 1) = A \union {m + 1} /\ m + 1 \notin A
          <6>1. 1..m + 1 = (1..m) \union {m + 1}
            OBVIOUS
          <6>2. QED
            BY <3>4, <6>1
        <5>2. IsFiniteSet(A)
          <6>1. IsFiniteSet(1..m)
            BY FS_Interval
          <6>2. QED
            BY <6>1, FS_Subset
        <5> HIDE DEF A
        <5>3. Cardinality(A \union {m + 1}) = Cardinality(A) + 1
          BY <5>1, <5>2, FS_AddElement
        <5>4. QED
          BY <2>2, <4>1, <5>1, <5>3 DEF A
      <4>5. QED
        BY <4>1, <4>2, <4>3, <4>4
    <3>5. QED
      BY <3>3, <3>4
  <2>5. QED
    BY <2>4 DEF new
<1>8. Good(upto[n], n)
  <2>1. n \in Ok
    <3> HIDE DEF Ok
    <3>1. QED
      BY <1>6, <1>7, Inductive
  <2>2. QED
    BY <2>1
<1>9. QED
  BY <1>4, <1>8

\* What FindMatches finds when the labels share a location, as with mining
LEMMA FoundShared ==
  ASSUME NEW p \in Parameters, NEW image, IsImage(image), p.share_location
  PROVE  LET found == FindMatches(p, image)
         IN  /\ DOMAIN found.indices = IF image.gt = << >> THEN {} ELSE {Shared}
             /\ image.gt # << >> =>
                   /\ found.indices[Shared] \in [DOMAIN image.overlap -> Int]
                   /\ \A i \in DOMAIN image.overlap :
                         found.indices[Shared][i] \in (Nat \ {0}) \union {Unmatched, Ignored}
<1> DEFINE all == MatchBBox(p, image, Shared)
           labels == IF image.gt = << >> THEN {} ELSE {Shared}
           found == FindMatches(p, image)
<1>1. found.indices = [c \in labels |-> all.indices]
  <2> HIDE DEF all
  <2>1. QED
    BY DEF FindMatches, all
<1>2. DOMAIN image.gt \subseteq Nat \ {0}
  BY DEF IsImage
<1>3. /\ all.indices \in [DOMAIN image.overlap -> Int]
      /\ \A i \in DOMAIN image.overlap : all.indices[i] \in (Nat \ {0}) \union {Unmatched, Ignored}
  <2>1. /\ all.indices \in [DOMAIN image.overlap -> Int]
        /\ \A i \in DOMAIN image.overlap : all.indices[i] \in DOMAIN image.gt \union {Unmatched, Ignored}
    BY MatchIs
  <2> HIDE DEF all
  <2>2. QED
    BY <1>2, <2>1
<1> HIDE DEF all, found
<1>4. DOMAIN found.indices = labels /\ (image.gt # << >> => found.indices[Shared] = all.indices)
  BY <1>1
<1>5. QED
  BY <1>3, <1>4 DEF found

\* What MineHardExamples leaves of a match
LEMMA MineIs ==
  ASSUME param \in Parameters, DoNegMining, NEW image, IsImage(image)
  PROVE  LET found == FindMatches(param, image)
             mined == Mine(param, image, found.indices, found.overlaps)
         IN  IF image.gt = << >> THEN mined.negs = << >>
             ELSE IsMined(image, found, mined.indices[Shared], ToSet(mined.negs))
<1> DEFINE found == FindMatches(param, image)
           mined == Mine(param, image, found.indices, found.overlaps)
           hard == param.mining_type = "HARD_EXAMPLE"
           D == DOMAIN image.overlap
           n == Len(image.overlap)
<1>1. /\ IsParameter(param) /\ param.share_location /\ param.mining_type # "NONE"
      /\ hard \/ param.mining_type = "MAX_NEGATIVE"
      /\ param.neg_pos_ratio \in Nat /\ param.sample_size \in Nat
  BY MultiBoxAssumption DEF IsParameter, DoNegMining
<1>2. /\ DOMAIN found.indices = IF image.gt = << >> THEN {} ELSE {Shared}
      /\ image.gt # << >> =>
            /\ found.indices[Shared] \in [D -> Int]
            /\ \A i \in D : found.indices[Shared][i] \in (Nat \ {0}) \union {Unmatched, Ignored}
  BY <1>1, FoundShared
<1> HIDE DEF found
<1>3. CASE image.gt = << >>
  BY <1>1, <1>2, <1>3 DEF Mine, found
<1>4. CASE image.gt # << >>
  <2> DEFINE old == found.indices[Shared]
             over == found.overlaps[Shared]
             sel == Selected(param, image, old, over)
             out == IF hard THEN Positive(old) \ sel ELSE {}
             new == [i \in DOMAIN old |-> IF i \in out THEN Unmatched ELSE old[i]]
             negs == {i \in sel : old[i] = Unmatched}
             eligible == Eligible(param, old, over)
             wanted == Wanted(param, old, over)
             skipped == {j \in DOMAIN old : old[j] = Ignored}
  <2>1. old \in [D -> Int] /\ DOMAIN old = D /\ \A i \in D : old[i] \in (Nat \ {0}) \union {Unmatched, Ignored}
    BY <1>2, <1>4
  <2>2. mined.indices = [c \in {Shared} |-> new] /\ mined.negs = Ascending(negs, Len(old))
    <3> HIDE DEF old, over
    <3>1. QED
      BY <1>1, <1>2, <1>4 DEF Mine, old, over
  <2>3. mined.indices[Shared] = new
    <3> HIDE DEF new, mined
    <3>1. QED
      BY <2>2
  <2> HIDE DEF old, over, mined
  <2>4. D = 1..n /\ n \in Nat
    BY DEF IsImage
  <2>5. Len(old) = n
    <3>1. old \in Seq(Int) /\ DOMAIN old = 1..n
      BY <2>1, <2>4, IsASeq
    <3>2. QED
      BY <2>4, <3>1, LenProperties
  <2>6. IsHardest(param, image, eligible, wanted, sel)
    <3> HIDE DEF eligible, wanted, sel
    <3>1. QED
      BY <1>1, <2>1, SelectedIs DEF eligible, wanted, sel
  <2>7. sel \subseteq eligible /\ eligible \subseteq D
    <3>1. eligible \subseteq D
      BY <2>1 DEF Eligible
    <3>2. QED
      BY <2>6, <3>1 DEF IsHardest
  <2>8. eligible = IF hard THEN D ELSE {j \in D : old[j] = Unmatched /\ over[j] < param.neg_overlap}
    BY <1>1, <2>1 DEF Eligible, IsEligibleMining
  <2>9. wanted = Min({Cardinality(eligible),
                      IF hard THEN param.sample_size ELSE Cardinality(Positive(old)) * param.neg_pos_ratio})
    <3> DEFINE most == IF param.mining_type = "MAX_NEGATIVE" THEN Cardinality(Positive(old)) * param.neg_pos_ratio
                       ELSE param.sample_size
    <3>1. wanted = Min({most, Cardinality(eligible)})
      BY DEF Wanted
    <3>2. most = IF hard THEN param.sample_size ELSE Cardinality(Positive(old)) * param.neg_pos_ratio
      BY <1>1
    <3> HIDE DEF wanted, eligible, most
    <3>3. {most, Cardinality(eligible)} = {Cardinality(eligible), most}
      OBVIOUS
    <3>4. QED
      BY <3>1, <3>2, <3>3
  <2>10. ToSet(mined.negs) = negs
    <3> DEFINE s == Ascending(negs, n)
    <3>1. s \in Seq(1..n) /\ \A x : (\E k \in 1..Len(s) : s[k] = x) <=> x \in negs /\ x \in 1..n
      <4> HIDE DEF negs
      <4>1. QED
        BY <2>4, AscendingIs
    <3>2. negs \subseteq 1..n
      BY <2>4, <2>7
    <3>3. mined.negs = s
      BY <2>2, <2>5
    <3> HIDE DEF s, negs
    <3>4. ToSet(s) = {s[k] : k \in 1..Len(s)}
      BY <3>1 DEF ToSet
    <3>5. QED
      BY <3>1, <3>2, <3>3, <3>4
  <2> HIDE DEF sel, eligible, wanted
  <2>11. Unmatched = -1 /\ Ignored = -2
    BY DEF Unmatched, Ignored
  <2>12. \A j \in D : new[j] = old[j] \/ (hard /\ j \in Positive(old) /\ new[j] = Unmatched)
    BY <2>1
  <2> DEFINE ignored == IF hard THEN sel \cap skipped ELSE {}
  <2>13. (IF hard THEN Positive(new) ELSE {}) \union negs \union ignored = sel
    <3>1. CASE hard
      <4>1. Positive(old) = {j \in D : old[j] > -1}
        BY <2>1 DEF Positive
      <4>2. Positive(new) = Positive(old) \cap sel
        <5>1. Positive(new) = {j \in D : new[j] > -1}
          BY <2>1 DEF Positive
        <5>2. \A j \in D : new[j] > -1 <=> old[j] > -1 /\ j \in sel
          BY <2>1, <2>11, <3>1, <4>1
        <5> HIDE DEF new
        <5>3. QED
          BY <4>1, <5>1, <5>2
      <4>3. \A j \in sel : j \in D /\ (old[j] > -1 \/ old[j] = Unmatched \/ old[j] = Ignored)
        BY <2>1, <2>7, <2>11
      <4>4. ignored = {j \in sel : old[j] = Ignored}
        BY <2>1, <2>7, <3>1
      <4> HIDE DEF new, ignored
      <4>5. Positive(new) \union negs \union ignored = sel
        BY <4>1, <4>2, <4>3, <4>4
      <4>6. QED
        BY <3>1, <4>5
    <3>2. CASE ~hard
      <4>1. negs = sel
        BY <2>7, <2>8, <3>2
      <4>2. QED
        BY <3>2, <4>1
    <3>3. QED
      BY <3>1, <3>2
  <2>14. ignored \in SUBSET (IF hard THEN skipped ELSE {})
    OBVIOUS
  <2> DEFINE all == (IF hard THEN Positive(new) ELSE {}) \union negs
  <2>15. \E w \in SUBSET (IF hard THEN skipped ELSE {}) : IsHardest(param, image, eligible, wanted, all \union w)
    <3>1. all \union ignored = sel
      BY <2>13
    <3> HIDE DEF all, ignored, skipped
    <3>2. QED
      BY <2>6, <2>14, <3>1
  <2>16. \A j \in negs : old[j] = Unmatched
    OBVIOUS
  <2> HIDE DEF new, negs
  <2>17. IsMined(image, found, new, negs)
    BY <2>1, <2>8, <2>9, <2>12, <2>15, <2>16 DEF IsMined, old, over
  <2>18. IsMined(image, found, mined.indices[Shared], ToSet(mined.negs))
    BY <2>3, <2>10, <2>17
  <2>19. QED
    BY <1>4, <2>18 DEF mined, found
<1>5. QED
  BY <1>3, <1>4

\* Between a Forward and the Backward that follows it the layer has what mining
\* leaves of the matches of its batch; otherwise it has nothing.
MinedOf(p, image) == LET found == FindMatches(p, image) IN Mine(p, image, found.indices, found.overlaps)

LossInv ==
  /\ PassesInv
  /\ IF all_match_indices_ = << >> THEN all_neg_indices_ = << >>
     ELSE /\ batch \in Seq(ToSet(batch))
          /\ all_match_indices_ = [i \in 1..Len(batch) |-> MinedOf(param, batch[i]).indices]
          /\ all_neg_indices_ = IF DoNegMining THEN [i \in 1..Len(batch) |-> MinedOf(param, batch[i]).negs] ELSE << >>

\* Forward, when nothing is kept from before, packs what mining leaves of this batch
LEMMA ForwardPacks ==
  ASSUME MayRepeat = FALSE, LossInv, NEW images, images \in Seq(ToSet(images)), Forward(images)
  PROVE  \E kept, mined :
           /\ kept = [i \in 1..Len(images) |-> FindMatches(param, images[i]).indices]
           /\ mined = [i \in 1..Len(images) |-> MinedOf(param, images[i])]
           /\ Pack(images, kept, mined)
           /\ all_neg_indices_ = << >> /\ batch' = images /\ param' = param
<1> DEFINE found == [i \in DOMAIN images |-> FindMatches(param, images[i])]
           kept == all_match_indices_ \o [i \in DOMAIN images |-> found[i].indices]
           mined == [i \in DOMAIN images |-> Mine(param, images[i], kept[i], found[i].overlaps)]
           num == Len(images)
<1>1. all_match_indices_ = << >> /\ all_neg_indices_ = << >>
  BY DEF Forward, LossInv
<1>2. DOMAIN images = 1..num /\ num \in Nat
  OBVIOUS
<1>3. Pack(images, kept, mined) /\ batch' = images /\ param' = param
  BY DEF Forward, MatchMineAndPack, MineAndPack
<1>4. kept = [i \in 1..num |-> FindMatches(param, images[i]).indices]
  <2> DEFINE one(i) == FindMatches(param, images[i]).indices
             s == [i \in 1..num |-> one(i)]
  <2>1. [i \in DOMAIN images |-> found[i].indices] = s
    BY <1>2
  <2>2. s \in Seq({one(i) : i \in 1..num})
    <3> HIDE DEF one
    <3>1. QED
      BY <1>2, IsASeq
  <2>3. kept = << >> \o s
    BY <1>1, <2>1
  <2> HIDE DEF s, kept
  <2>4. kept = s
    BY <2>2, <2>3, ConcatEmptySeq
  <2>5. QED
    BY <2>4 DEF s
<1>5. mined = [i \in 1..num |-> MinedOf(param, images[i])]
  <2> HIDE DEF kept
  <2>1. \A i \in 1..num : Mine(param, images[i], kept[i], found[i].overlaps) = MinedOf(param, images[i])
    BY <1>2, <1>4 DEF MinedOf
  <2>2. QED
    BY <1>2, <2>1
<1> HIDE DEF kept, mined
<1>6. QED
  BY <1>1, <1>3, <1>4, <1>5

LEMMA ForwardKeeps ==
  ASSUME MayRepeat = FALSE, LossInv, NEW images, images \in Seq(ToSet(images)), Forward(images), PassesInv'
  PROVE  LossInv'
<1> DEFINE num == Len(images)
           matches == all_match_indices_'
           negs == all_neg_indices_'
<1>1. PICK kept, mined :
        /\ kept = [i \in 1..num |-> FindMatches(param, images[i]).indices]
        /\ mined = [i \in 1..num |-> MinedOf(param, images[i])]
        /\ Pack(images, kept, mined)
        /\ all_neg_indices_ = << >> /\ batch' = images /\ param' = param
  BY ForwardPacks
<1>2. DOMAIN images = 1..num /\ num \in Nat
  OBVIOUS
<1>3. /\ matches = [k \in DOMAIN kept |-> IF k <= num THEN mined[k].indices ELSE kept[k]]
      /\ negs = IF DoNegMining THEN all_neg_indices_ \o [i \in 1..num |-> mined[i].negs] ELSE all_neg_indices_
  BY <1>1 DEF Pack
<1>4. matches = [i \in 1..num |-> MinedOf(param, images[i]).indices]
  <2>1. DOMAIN kept = 1..num /\ \A i \in 1..num : i <= num /\ mined[i] = MinedOf(param, images[i])
    BY <1>1, <1>2
  <2> HIDE DEF matches
  <2>2. QED
    BY <1>3, <2>1
<1>5. negs = IF DoNegMining THEN [i \in 1..num |-> MinedOf(param, images[i]).negs] ELSE << >>
  <2>1. CASE DoNegMining
    <3> DEFINE one(i) == MinedOf(param, images[i]).negs
               s == [i \in 1..num |-> one(i)]
    <3>1. negs = << >> \o s
      <4> HIDE DEF negs
      <4>1. [i \in 1..num |-> mined[i].negs] = s
        BY <1>1
      <4>2. QED
        BY <1>1, <1>3, <2>1, <4>1
    <3>2. s \in Seq({one(i) : i \in 1..num})
      <4> HIDE DEF one
      <4>1. QED
        BY <1>2, IsASeq
    <3> HIDE DEF s, negs
    <3>3. negs = s
      BY <3>1, <3>2, ConcatEmptySeq
    <3>4. QED
      BY <2>1, <3>3 DEF s
  <2>2. CASE ~DoNegMining
    BY <1>1, <1>3, <2>2
  <2>3. QED
    BY <2>1, <2>2
<1>6. batch' = images /\ param' = param /\ DoNegMining' = DoNegMining
  BY <1>1 DEF DoNegMining
<1> HIDE DEF matches, negs
<1>7. ASSUME matches = << >> PROVE negs = << >>
  <2>1. num = 0
    <3>1. DOMAIN matches = 1..num
      BY <1>4
    <3>2. DOMAIN << >> = 1..0
      OBVIOUS
    <3>3. 1 \notin 1..num
      BY <1>7, <3>1, <3>2
    <3>4. QED
      BY <1>2, <3>3
  <2>2. \A f : f = [i \in 1..num |-> f[i]] => f = << >>
    BY <2>1
  <2>3. CASE DoNegMining
    <3> DEFINE s == [i \in 1..num |-> MinedOf(param, images[i]).negs]
    <3>1. s = [i \in 1..num |-> s[i]]
      OBVIOUS
    <3>2. negs = s
      BY <1>5, <2>3
    <3> HIDE DEF s
    <3>3. QED
      BY <2>2, <3>1, <3>2
  <2>4. CASE ~DoNegMining
    BY <1>5, <2>4
  <2>5. QED
    BY <2>3, <2>4
<1>8. all_match_indices_' = matches /\ all_neg_indices_' = negs
  BY DEF matches, negs
<1>9. QED
  BY <1>4, <1>5, <1>6, <1>7, <1>8 DEF LossInv

LEMMA LossNext == ASSUME MayRepeat = FALSE PROVE LossInv /\ [Next]_vars => LossInv'
<1> SUFFICES ASSUME LossInv, [Next]_vars PROVE LossInv'
  OBVIOUS
<1>1. PassesInv'
  BY PassesNext DEF LossInv
<1>2. ASSUME passes < Len(Batches), NEW images \in Batches[passes + 1], Forward(images) PROVE LossInv'
  <2>1. passes + 1 \in DOMAIN Batches
    BY <1>2, MultiBoxAssumption DEF LossInv, PassesInv
  <2>2. images \in Seq(ToSet(images))
    BY <1>2, <2>1, MultiBoxAssumption
  <2>3. QED
    BY <1>1, <1>2, <2>2, ForwardKeeps
<1>3. CASE Backward
  BY <1>1, <1>3 DEF Backward, LossInv
<1>4. CASE UNCHANGED vars
  BY <1>4 DEF vars, LossInv, PassesInv, DoNegMining
<1>5. QED
  BY <1>2, <1>3, <1>4 DEF Next

LEMMA LossInvariant == ASSUME MayRepeat = FALSE PROVE Spec => []LossInv
<1>1. Init => LossInv
  BY DEF Init, LossInv, PassesInv
<1>2. QED
  BY <1>1, LossNext, PTL DEF Spec

\* Mining takes the hardest: for any numbers of priors and ground truths, any
\* losses, overlaps, ratios and sizes, the negatives kept for the loss are as
\* many as the ratio allows and none left out is harder than one taken, but for
\* what the suppression takes out, and every other match stays what it was
\* (MineHardExamples, bbox_util.cpp:848-1029).  A Backward comes between two
\* Forwards: the layer keeps its matches otherwise.
THEOREM HardestAreMined == ASSUME MayRepeat = FALSE PROVE Spec => []HardestMined
<1>1. LossInv => HardestMined
  <2>1. SUFFICES ASSUME LossInv, DoNegMining, all_match_indices_ # << >>, NEW i \in DOMAIN batch
                 PROVE  IF batch[i].gt = << >> THEN all_neg_indices_[i] = << >>
                        ELSE IsMined(batch[i], FindMatches(param, batch[i]), all_match_indices_[i][Shared],
                                     ToSet(all_neg_indices_[i]))
    BY DEF HardestMined
  <2>2. /\ batch \in Seq(ToSet(batch)) /\ param \in Parameters /\ IsImage(batch[i])
        /\ all_match_indices_ = [k \in 1..Len(batch) |-> MinedOf(param, batch[k]).indices]
        /\ all_neg_indices_ = [k \in 1..Len(batch) |-> MinedOf(param, batch[k]).negs]
    BY <2>1 DEF LossInv, PassesInv
  <2>3. i \in 1..Len(batch)
    BY <2>2
  <2> DEFINE mined == MinedOf(param, batch[i])
  <2>4. all_match_indices_[i] = mined.indices /\ all_neg_indices_[i] = mined.negs
    BY <2>2, <2>3
  <2>5. IF batch[i].gt = << >> THEN mined.negs = << >>
        ELSE IsMined(batch[i], FindMatches(param, batch[i]), mined.indices[Shared], ToSet(mined.negs))
    BY <2>1, <2>2, MineIs DEF MinedOf
  <2> HIDE DEF mined
  <2>6. QED
    BY <2>4, <2>5
<1>2. QED
  BY <1>1, LossInvariant, PTL

-----------------------------------------------------------------------------
(* The rows of MultiBoxLoss *)

Loop(f, X, x, n, F) == f \in [0..n -> X] /\ f[0] = x /\ \A k \in 1..n : f[k] = F[k][f[k - 1]]

LEMMA LoopExists ==
  ASSUME NEW X, NEW x \in X, NEW n \in Nat, NEW F \in [1..n -> [X -> X]]
  PROVE  \E f : Loop(f, X, x, n, F)
BY LoopIs, Z3T(30) DEF Loop

-----------------------------------------------------------------------------
(* Sums, and sequences of sequences *)

\* A loop whose rounds are the elements of s, each added to what came before
LEMMA SumsAre ==
  ASSUME NEW n \in Nat, NEW s \in [1..n -> Nat]
  PROVE  LET sum == Sums(s)
         IN  /\ Len(s) = n /\ sum \in [0..n -> Nat] /\ sum[0] = 0
             /\ (\A k \in 1..n : sum[k] = sum[k - 1] + s[k]) /\ Total(s) = sum[n]
<1> DEFINE X == Nat
           zero == 0
           F == [k \in 1..n |-> [x \in X |-> x + s[k]]]
           Is(f) == f = [k \in 0..n |-> IF k = 0 THEN 0 ELSE f[k - 1] + s[k]]
<1>1. Len(s) = n
  <2>1. s \in Seq(Nat) /\ DOMAIN s = 1..n
    BY IsASeq
  <2>2. QED
    BY <2>1, LenProperties
<1>2. zero \in X /\ F \in [1..n -> [X -> X]]
  OBVIOUS
<1>3. \E f : f \in [0..n -> X] /\ Is(f)
  <2> HIDE DEF X, F, zero
  <2>0. PICK f : Loop(f, X, zero, n, F)
    BY <1>2, LoopExists, Zenon
  <2>1. f \in [0..n -> X] /\ f[0] = zero /\ \A k \in 1..n : f[k] = F[k][f[k - 1]]
    BY <2>0 DEF Loop
  <2>2. \A k \in 1..n : f[k] = f[k - 1] + s[k]
    <3>1. SUFFICES ASSUME NEW k \in 1..n PROVE f[k] = f[k - 1] + s[k]
      OBVIOUS
    <3>2. k - 1 \in 0..n
      OBVIOUS
    <3>3. F[k][f[k - 1]] = f[k - 1] + s[k]
      BY <2>1, <3>2 DEF F
    <3>4. QED
      BY <2>1, <3>3
  <2>3. \A k \in 0..n : f[k] = IF k = 0 THEN 0 ELSE f[k - 1] + s[k]
    BY <2>1, <2>2 DEF zero
  <2>4. QED
    BY <2>1, <2>3
<1> DEFINE sum == CHOOSE f : Is(f)
<1>4. Is(sum)
  BY <1>3
<1>5. sum \in [0..n -> Nat]
  <2>1. PICK f : f \in [0..n -> X] /\ Is(f)
    BY <1>3
  <2> DEFINE Ok == {k \in Nat : k <= n => sum[k] \in Nat}
  <2> HIDE DEF sum
  <2>2. 0 \in Ok
    BY <1>4
  <2>3. ASSUME NEW k \in Nat, k \in Ok PROVE k + 1 \in Ok
    <3>1. SUFFICES ASSUME k + 1 <= n PROVE sum[k + 1] \in Nat
      OBVIOUS
    <3>2. sum[k + 1] = sum[k] + s[k + 1]
      BY <1>4, <3>1
    <3>3. sum[k] \in Nat /\ s[k + 1] \in Nat
      BY <2>3, <3>1
    <3>4. QED
      BY <3>2, <3>3
  <2>4. \A k \in Nat : k \in Ok
    <3> HIDE DEF Ok
    <3>1. QED
      BY <2>2, <2>3, Inductive
  <2>5. \A k \in 0..n : sum[k] \in Nat
    BY <2>4
  <2>6. DOMAIN sum = 0..n
    BY <1>4
  <2>7. sum = [k \in 0..n |-> sum[k]]
    BY <1>4
  <2>8. QED
    BY <2>5, <2>7
<1>6. Sums(s) = sum
  BY <1>1 DEF Sums
<1> HIDE DEF sum
<1>7. sum[0] = 0 /\ \A k \in 1..n : sum[k] = sum[k - 1] + s[k]
  BY <1>4
<1>8. QED
  BY <1>1, <1>5, <1>6, <1>7 DEF Total

LEMMA SumsAdd ==
  ASSUME NEW n \in Nat, NEW a \in [1..n -> Nat], NEW b \in [1..n -> Nat], NEW c \in [1..n -> Nat],
         \A k \in 1..n : c[k] = a[k] + b[k]
  PROVE  Total(a) \in Nat /\ Total(b) \in Nat /\ Total(c) = Total(a) + Total(b)
<1> DEFINE A == Sums(a)
           B == Sums(b)
           C == Sums(c)
           Ok == {k \in Nat : k <= n => C[k] = A[k] + B[k]}
<1>1. /\ A \in [0..n -> Nat] /\ A[0] = 0 /\ (\A k \in 1..n : A[k] = A[k - 1] + a[k]) /\ Total(a) = A[n]
  BY SumsAre
<1>2. /\ B \in [0..n -> Nat] /\ B[0] = 0 /\ (\A k \in 1..n : B[k] = B[k - 1] + b[k]) /\ Total(b) = B[n]
  BY SumsAre
<1>3. /\ C \in [0..n -> Nat] /\ C[0] = 0 /\ (\A k \in 1..n : C[k] = C[k - 1] + c[k]) /\ Total(c) = C[n]
  BY SumsAre
<1> HIDE DEF A, B, C
<1>4. 0 \in Ok
  BY <1>1, <1>2, <1>3
<1>5. ASSUME NEW k \in Nat, k \in Ok PROVE k + 1 \in Ok
  <2>1. SUFFICES ASSUME k + 1 <= n PROVE C[k + 1] = A[k + 1] + B[k + 1]
    OBVIOUS
  <2>2. k + 1 \in 1..n /\ (k + 1) - 1 = k /\ k \in 0..n
    BY <2>1
  <2>3. A[k + 1] = A[k] + a[k + 1] /\ B[k + 1] = B[k] + b[k + 1] /\ C[k + 1] = C[k] + c[k + 1]
    BY <1>1, <1>2, <1>3, <2>2
  <2>4. C[k] = A[k] + B[k]
    BY <1>5, <2>1
  <2>5. c[k + 1] = a[k + 1] + b[k + 1]
    BY <2>2
  <2>6. A[k] \in Nat /\ B[k] \in Nat /\ a[k + 1] \in Nat /\ b[k + 1] \in Nat
    BY <1>1, <1>2, <2>2
  <2>7. \A v, w, x, y \in Nat : (v + w) + (x + y) = (v + x) + (w + y)
    OBVIOUS
  <2>8. C[k + 1] = (A[k] + B[k]) + (a[k + 1] + b[k + 1])
    BY <2>3, <2>4, <2>5, Zenon
  <2>9. (A[k] + B[k]) + (a[k + 1] + b[k + 1]) = (A[k] + a[k + 1]) + (B[k] + b[k + 1])
    BY <2>6, <2>7, Z3T(30)
  <2>10. QED
    BY <2>3, <2>8, <2>9, Zenon
<1>6. n \in Ok
  <2> HIDE DEF Ok
  <2>1. QED
    BY <1>4, <1>5, Inductive
<1>7. QED
  BY <1>1, <1>2, <1>3, <1>6

\* In the whole the elements of the k-th sequence come after those of the ones
\* before it, and there are no others
Lens(n, seqs) == [k \in 1..n |-> Len(seqs[k])]

IsWhole(S, n, seqs, flat) ==
  LET sum == Sums(Lens(n, seqs))
  IN  /\ flat \in Seq(S) /\ Len(flat) = Total(Lens(n, seqs)) /\ sum \in [0..n -> Nat]
      /\ \A k \in 1..n : \A i \in 1..Len(seqs[k]) :
            sum[k - 1] + i \in 1..Len(flat) /\ flat[sum[k - 1] + i] = seqs[k][i]
      /\ \A q \in 1..Len(flat) : \E k \in 1..n : \E i \in 1..Len(seqs[k]) : q = sum[k - 1] + i

LEMMA FlatIs ==
  ASSUME NEW S, NEW n \in Nat, NEW seqs \in [1..n -> Seq(S)]
  PROVE  IsWhole(S, n, seqs, FlattenSeq(seqs))
<1> DEFINE lens == [k \in 1..n |-> Len(seqs[k])]
           sum == Sums(lens)
           empty == << >>
           X == Seq(S)
           F == [k \in 1..n |-> [s \in X |-> s \o seqs[k]]]
           Is(f) == f = [k \in 1..n |-> IF k = 1 THEN seqs[k] ELSE f[k - 1] \o seqs[k]]
           Good(s, m) ==
             /\ s \in Seq(S) /\ Len(s) = sum[m]
             /\ \A k \in 1..m : \A i \in 1..Len(seqs[k]) : sum[k - 1] + i \in 1..Len(s) /\ s[sum[k - 1] + i] = seqs[k][i]
             /\ \A q \in 1..Len(s) : \E k \in 1..m : \E i \in 1..Len(seqs[k]) : q = sum[k - 1] + i
<1>1. /\ \A k \in 1..n : seqs[k] \in Seq(S) /\ Len(seqs[k]) \in Nat /\ lens[k] = Len(seqs[k])
      /\ lens \in [1..n -> Nat]
  OBVIOUS
<1>2. /\ sum \in [0..n -> Nat] /\ sum[0] = 0 /\ \A k \in 1..n : sum[k] = sum[k - 1] + Len(seqs[k])
      /\ Total(lens) = sum[n]
  <2>1. /\ sum \in [0..n -> Nat] /\ sum[0] = 0 /\ (\A k \in 1..n : sum[k] = sum[k - 1] + lens[k])
        /\ Total(lens) = sum[n]
    <3> HIDE DEF lens
    <3>1. QED
      BY <1>1, SumsAre
  <2> HIDE DEF lens, sum
  <2>2. QED
    BY <1>1, <2>1
<1> HIDE DEF sum, lens
<1>3. empty \in X /\ F \in [1..n -> [X -> X]]
  <2>1. \A k \in 1..n, s \in X : s \o seqs[k] \in X
    BY ConcatProperties
  <2>2. QED
    BY <2>1
<1>4. PICK f : f \in [0..n -> X] /\ f[0] = empty /\ \A k \in 1..n : f[k] = f[k - 1] \o seqs[k]
  <2> HIDE DEF X, F, empty
  <2>0. PICK f : Loop(f, X, empty, n, F)
    BY <1>3, LoopExists, Zenon
  <2>1. f \in [0..n -> X] /\ f[0] = empty /\ \A k \in 1..n : f[k] = F[k][f[k - 1]]
    BY <2>0 DEF Loop
  <2>2. \A k \in 1..n : f[k] = f[k - 1] \o seqs[k]
    <3>1. SUFFICES ASSUME NEW k \in 1..n PROVE f[k] = f[k - 1] \o seqs[k]
      OBVIOUS
    <3>2. k - 1 \in 0..n
      OBVIOUS
    <3>3. F[k][f[k - 1]] = f[k - 1] \o seqs[k]
      BY <2>1, <3>2 DEF F
    <3>4. QED
      BY <2>1, <3>3
  <2>3. QED
    BY <2>1, <2>2
<1> HIDE DEF F
\* What f has after m rounds
<1> DEFINE Ok == {m \in Nat : m <= n => Good(f[m], m)}
<1>5. 0 \in Ok
  <2>1. f[0] = << >> /\ Len(<< >>) = 0 /\ << >> \in Seq(S) /\ (\A k \in 1..0 : FALSE)
    BY <1>4
  <2>2. Good(f[0], 0)
    BY <1>2, <2>1
  <2>3. QED
    BY <2>2
<1>6. ASSUME NEW m \in Nat, m \in Ok PROVE m + 1 \in Ok
  <2> HIDE DEF Good
  <2>1. SUFFICES ASSUME m + 1 <= n PROVE Good(f[m + 1], m + 1)
    OBVIOUS
  <2> USE DEF Good
  <2> DEFINE s == f[m]
             t == seqs[m + 1]
             new == f[m + 1]
             Old(k, i) == sum[k - 1] + i \in 1..Len(s) /\ s[sum[k - 1] + i] = seqs[k][i]
  <2>2. /\ s \in Seq(S) /\ Len(s) = sum[m] /\ \A k \in 1..m : \A i \in 1..Len(seqs[k]) : Old(k, i)
        /\ \A q \in 1..Len(s) : \E k \in 1..m : \E i \in 1..Len(seqs[k]) : q = sum[k - 1] + i
    BY <1>6, <2>1
  <2>3. m + 1 \in 1..n /\ (m + 1) - 1 = m /\ m \in 0..n
    BY <2>1
  <2>4. new = s \o t /\ t \in Seq(S) /\ sum[m + 1] = sum[m] + Len(t) /\ Len(t) \in Nat /\ sum[m] \in Nat
    BY <1>1, <1>2, <1>4, <2>3
  <2> HIDE DEF s, new
  <2>5. /\ new \in Seq(S) /\ Len(new) = Len(s) + Len(t)
        /\ \A q \in 1..Len(s) + Len(t) : new[q] = IF q <= Len(s) THEN s[q] ELSE t[q - Len(s)]
    <3> HIDE DEF t
    <3>1. QED
      BY <2>2, <2>4, ConcatProperties
  <2>6. Len(s) \in Nat /\ Len(s) = sum[m]
    BY <2>2, <2>4
  <2>7. ASSUME NEW k \in 1..m + 1, NEW i \in 1..Len(seqs[k])
        PROVE  sum[k - 1] + i \in 1..Len(new) /\ new[sum[k - 1] + i] = seqs[k][i]
    <3>1. CASE k = m + 1
      <4>1. sum[k - 1] = Len(s) /\ i \in 1..Len(t) /\ seqs[k] = t
        BY <2>3, <2>6, <3>1
      <4>2. Len(s) + i \in 1..Len(s) + Len(t) /\ ~(Len(s) + i <= Len(s)) /\ (Len(s) + i) - Len(s) = i
        <5>1. \A x, y \in Nat : \A z \in 1..y : x + z \in 1..x + y /\ ~(x + z <= x) /\ (x + z) - x = z
          OBVIOUS
        <5> HIDE DEF t
        <5>2. QED
          BY <2>4, <2>6, <4>1, <5>1
      <4>3. QED
        BY <2>5, <4>1, <4>2
    <3>2. CASE k # m + 1
      <4>1. k \in 1..m
        BY <3>2
      <4>2. Old(k, i)
        BY <2>2, <4>1
      <4>3. sum[k - 1] + i \in 1..Len(s) + Len(t) /\ sum[k - 1] + i <= Len(s)
        BY <2>4, <2>6, <4>2
      <4>4. QED
        BY <2>5, <4>2, <4>3
    <3>3. QED
      BY <3>1, <3>2
  <2>8. ASSUME NEW q \in 1..Len(new) PROVE \E k \in 1..m + 1 : \E i \in 1..Len(seqs[k]) : q = sum[k - 1] + i
    <3>1. CASE q <= Len(s)
      <4>1. PICK k \in 1..m : \E i \in 1..Len(seqs[k]) : q = sum[k - 1] + i
        <5>1. q \in 1..Len(s)
          BY <2>4, <2>5, <2>6, <3>1
        <5>2. QED
          BY <2>2, <5>1
      <4>2. k \in 1..m + 1
        OBVIOUS
      <4>3. QED
        BY <4>1, <4>2
    <3>2. CASE ~(q <= Len(s))
      <4>1. q - Len(s) \in 1..Len(t) /\ q = sum[m] + (q - Len(s))
        BY <2>4, <2>5, <2>6, <3>2
      <4>2. m + 1 \in 1..m + 1
        OBVIOUS
      <4>3. QED
        BY <2>3, <4>1, <4>2
    <3>3. QED
      BY <3>1, <3>2
  <2>9. Len(new) = sum[m + 1]
    BY <2>4, <2>5, <2>6
  <2>10. Good(new, m + 1)
    BY <2>5, <2>7, <2>8, <2>9
  <2>11. QED
    BY <2>10 DEF new
<1>7. Good(f[n], n)
  <2>1. n \in Ok
    <3> HIDE DEF Ok
    <3>1. QED
      BY <1>5, <1>6, Inductive
  <2>2. QED
    BY <2>1
\* It is FlattenSeq(seqs)
<1>8. seqs \in Seq(Seq(S)) /\ Len(seqs) = n
  <2>1. seqs \in Seq(Seq(S)) /\ DOMAIN seqs = 1..n
    BY IsASeq
  <2>2. QED
    BY <2>1, LenProperties
<1>9. FlattenSeq(seqs) = f[n]
  <2>1. CASE n = 0
    <3>1. seqs = << >>
      BY <1>8, <2>1, EmptySeq
    <3>2. QED
      BY <1>4, <1>8, <2>1, <3>1 DEF FlattenSeq
  <2>2. CASE n # 0
    <3> DEFINE g == [k \in 1..n |-> f[k]]
               flatten == CHOOSE h : Is(h)
    <3>1. Is(g)
      <4>1. ASSUME NEW k \in 1..n PROVE g[k] = IF k = 1 THEN seqs[k] ELSE g[k - 1] \o seqs[k]
        <5>1. CASE k = 1
          <6>1. f[1] = << >> \o seqs[1] /\ seqs[1] \in Seq(S)
            <7>1. 1 \in 1..n /\ 1 - 1 = 0
              BY <2>2
            <7>2. f[1] = f[0] \o seqs[1]
              BY <1>4, <7>1
            <7>3. QED
              BY <1>1, <1>4, <7>1, <7>2
          <6>2. QED
            BY <5>1, <6>1, ConcatEmptySeq
        <5>2. CASE k # 1
          <6>1. k - 1 \in 1..n
            BY <5>2
          <6>2. QED
            BY <1>4, <5>2, <6>1
        <5>3. QED
          BY <5>1, <5>2
      <4> HIDE DEF g
      <4>2. g = [k \in 1..n |-> g[k]]
        BY DEF g
      <4>3. QED
        BY <4>1, <4>2
    <3>2. Is(flatten)
      <4> HIDE DEF g
      <4>1. QED
        BY <3>1
    <3>3. FlattenSeq(seqs) = flatten[n]
      BY <1>8, <2>2 DEF FlattenSeq
    <3> HIDE DEF flatten
    <3> DEFINE Same == {m \in Nat : m + 1 <= n => flatten[m + 1] = f[m + 1]}
    <3>4. 0 \in Same
      <4>1. 1 \in 1..n /\ flatten[1] = seqs[1]
        BY <2>2, <3>2
      <4>2. g[1] = seqs[1] /\ g[1] = f[1]
        BY <3>1, <4>1
      <4>3. QED
        BY <4>1, <4>2
    <3>5. ASSUME NEW m \in Nat, m \in Same PROVE m + 1 \in Same
      <4>1. SUFFICES ASSUME (m + 1) + 1 <= n PROVE flatten[(m + 1) + 1] = f[(m + 1) + 1]
        OBVIOUS
      <4>2. m + 2 \in 1..n /\ (m + 2) - 1 = m + 1 /\ m + 2 # 1 /\ m + 1 \in 1..n /\ (m + 1) + 1 = m + 2
        BY <4>1
      <4>3. flatten[m + 2] = flatten[m + 1] \o seqs[m + 2]
        BY <3>2, <4>2
      <4>4. f[m + 2] = f[m + 1] \o seqs[m + 2]
        BY <1>4, <4>2
      <4>5. flatten[m + 1] = f[m + 1]
        BY <3>5, <4>1
      <4>6. flatten[m + 2] = f[m + 2]
        BY <4>3, <4>4, <4>5
      <4>7. QED
        BY <4>2, <4>6
    <3>6. n - 1 \in Same
      <4>1. n - 1 \in Nat
        BY <2>2
      <4> HIDE DEF Same
      <4>2. QED
        BY <3>4, <3>5, <4>1, Inductive
    <3>7. QED
      BY <2>2, <3>3, <3>6
  <2>3. QED
    BY <2>1, <2>2
<1>10. QED
  BY <1>2, <1>7, <1>9 DEF sum, lens, IsWhole, Lens

Apart(key, s) == \A p, q \in 1..Len(s) : key[s[p]] = key[s[q]] => p = q

PartsApart(key, n, seqs) ==
  \A i, j \in 1..n : \A k \in 1..Len(seqs[i]), l \in 1..Len(seqs[j]) :
    key[seqs[i][k]] = key[seqs[j][l]] => i = j /\ k = l

\* Two places of the whole hold different things when any two places of its parts do
LEMMA FlatApart ==
  ASSUME NEW S, NEW n \in Nat, NEW seqs \in [1..n -> Seq(S)], NEW key, PartsApart(key, n, seqs)
  PROVE  Apart(key, FlattenSeq(seqs))
<1> DEFINE flat == FlattenSeq(seqs)
           sum == Sums(Lens(n, seqs))
<1>0. IsWhole(S, n, seqs, flat)
  BY FlatIs, Zenon
<1>1. /\ \A k \in 1..n : \A i \in 1..Len(seqs[k]) : flat[sum[k - 1] + i] = seqs[k][i]
      /\ \A q \in 1..Len(flat) : \E k \in 1..n : \E i \in 1..Len(seqs[k]) : q = sum[k - 1] + i
  <2> HIDE DEF flat
  <2>1. QED
    BY <1>0 DEF IsWhole
<1> HIDE DEF flat, sum
<1>2. SUFFICES ASSUME NEW p \in 1..Len(flat), NEW q \in 1..Len(flat), key[flat[p]] = key[flat[q]] PROVE p = q
  BY DEF flat, Apart
<1>3. PICK i \in 1..n : \E k \in 1..Len(seqs[i]) : p = sum[i - 1] + k
  BY <1>1
<1>4. PICK k \in 1..Len(seqs[i]) : p = sum[i - 1] + k
  BY <1>3
<1>5. PICK j \in 1..n : \E l \in 1..Len(seqs[j]) : q = sum[j - 1] + l
  BY <1>1
<1>6. PICK l \in 1..Len(seqs[j]) : q = sum[j - 1] + l
  BY <1>5
<1>7. flat[p] = seqs[i][k] /\ flat[q] = seqs[j][l]
  BY <1>1, <1>4, <1>6
<1>8. i = j /\ k = l
  BY <1>2, <1>7 DEF PartsApart
<1>9. QED
  BY <1>4, <1>6, <1>8

-----------------------------------------------------------------------------
(* The rows *)

MatchRow == Nat \X Int \X Nat \X Int
KeyOf == [r \in MatchRow |-> << r[1], r[2], r[3] >>]

LEMMA MatchedToIs ==
  ASSUME NEW n \in Nat, NEW index \in [1..n -> Int], NEW i \in Nat, NEW label \in Int
  PROVE  LET M == MatchedTo(index, i, label)
         IN  /\ M \in Seq(MatchRow) /\ Len(M) = Cardinality(Positive(index))
             /\ \A k \in 1..Len(M) : M[k][1] = i /\ M[k][2] = label /\ M[k][3] \in Positive(index)
             /\ \A k, l \in 1..Len(M) : M[k][3] = M[l][3] => k = l
<1> DEFINE hit == Ascending(Positive(index), n)
           row(k) == << i, label, hit[k], index[hit[k]] >>
           M == [k \in 1..Len(hit) |-> row(k)]
<1>1. Len(index) = n
  <2>1. index \in Seq(Int) /\ DOMAIN index = 1..n
    BY IsASeq
  <2>2. QED
    BY <2>1, LenProperties
<1>2. Positive(index) \subseteq 1..n
  BY DEF Positive
<1>3. /\ hit \in Seq(1..n) /\ (\A x : (\E k \in 1..Len(hit) : hit[k] = x) <=> x \in Positive(index) /\ x \in 1..n)
      /\ (\A j, k \in 1..Len(hit) : j < k => hit[j] < hit[k])
      /\ Len(hit) = Cardinality(Positive(index) \cap (1..n))
  <2> DEFINE P == Positive(index)
  <2> HIDE DEF P
  <2>1. /\ Ascending(P, n) \in Seq(1..n)
        /\ (\A x : (\E k \in 1..Len(Ascending(P, n)) : Ascending(P, n)[k] = x) <=> x \in P /\ x \in 1..n)
        /\ (\A j, k \in 1..Len(Ascending(P, n)) : j < k => Ascending(P, n)[j] < Ascending(P, n)[k])
        /\ Len(Ascending(P, n)) = Cardinality(P \cap (1..n))
    BY AscendingIs
  <2>2. QED
    BY <2>1 DEF P
<1> HIDE DEF hit
<1>4. Len(hit) \in Nat /\ DOMAIN hit = 1..Len(hit) /\ Len(hit) = Cardinality(Positive(index))
  <2>1. Positive(index) \cap (1..n) = Positive(index)
    BY <1>2
  <2>2. Len(hit) \in Nat /\ DOMAIN hit = 1..Len(hit)
    BY <1>3, LenProperties
  <2>3. QED
    BY <1>3, <2>1, <2>2, Zenon
<1>5. \A k \in 1..Len(hit) : hit[k] \in 1..n /\ hit[k] \in Positive(index) /\ index[hit[k]] \in Int
  <2>1. \A k \in 1..Len(hit) : hit[k] \in 1..n
    BY <1>3
  <2>2. QED
    BY <1>3, <2>1
<1>6. \A k \in 1..Len(hit) : row(k) \in MatchRow
  BY <1>5 DEF MatchRow
<1>7. M \in Seq(MatchRow) /\ Len(M) = Len(hit)
  <2> HIDE DEF row
  <2>1. M \in Seq(MatchRow) /\ DOMAIN M = 1..Len(hit)
    BY <1>4, <1>6, IsASeq
  <2>2. QED
    BY <1>4, <2>1, LenProperties
<1>8. M = MatchedTo(index, i, label)
  BY <1>1, <1>4 DEF MatchedTo, hit
<1>9. \A k \in 1..Len(hit) : M[k][1] = i /\ M[k][2] = label /\ M[k][3] = hit[k]
  OBVIOUS
<1>10. \A k, l \in 1..Len(hit) : hit[k] = hit[l] => k = l
  <2>1. SUFFICES ASSUME NEW k \in 1..Len(hit), NEW l \in 1..Len(hit), hit[k] = hit[l], k # l PROVE FALSE
    OBVIOUS
  <2>2. hit[k] \in Nat /\ hit[l] \in Nat /\ (k < l \/ l < k)
    BY <1>4, <1>5, <2>1
  <2>3. k < l => hit[k] < hit[l]
    BY <1>3
  <2>4. l < k => hit[l] < hit[k]
    BY <1>3
  <2>5. QED
    BY <2>1, <2>2, <2>3, <2>4
<1> HIDE DEF M
<1>11. QED
  BY <1>4, <1>5, <1>7, <1>8, <1>9, <1>10

\* The matches of an image of n priors
AreMatches(ms, n) ==
  /\ DOMAIN ms \subseteq {Shared} \/ (DOMAIN ms \subseteq Nat \ {0} /\ IsFiniteSet(DOMAIN ms))
  /\ \A c \in DOMAIN ms : ms[c] \in [1..n -> Int]

LEMMA LabelsAre ==
  ASSUME NEW labels, labels \subseteq {Shared} \/ (labels \subseteq Nat \ {0} /\ IsFiniteSet(labels))
  PROVE  LET L == LabelsOf(labels)
         IN  /\ L \in Seq(labels) /\ \A j, k \in 1..Len(L) : L[j] = L[k] => j = k
             /\ labels = {Shared} => L = << Shared >>
             /\ labels = {} => Len(L) = 0
<1>1. CASE Shared \in labels
  <2>1. LabelsOf(labels) = << Shared >>
    BY <1>1 DEF LabelsOf
  <2>2. << Shared >> \in Seq(labels) /\ Len(<< Shared >>) = 1
    BY <1>1
  <2>3. QED
    BY <1>1, <2>1, <2>2
<1>2. CASE Shared \notin labels
  <2> DEFINE S == {0} \union labels
             most == Max(S)
             L == Ascending(labels, most)
  <2>1. labels \subseteq Nat \ {0} /\ IsFiniteSet(labels)
    BY <1>2, FS_EmptySet
  <2>2. most \in Nat
    <3> DEFINE f == [x \in S |-> x]
    <3>1. S # {} /\ S \subseteq Nat /\ f \in [S -> Nat]
      BY <2>1
    <3>2. IsFiniteSet(S)
      BY <2>1, FS_Singleton, FS_Union
    <3> HIDE DEF S
    <3>3. \E x \in S : \A y \in S : f[y] <= f[x]
      <4> HIDE DEF f
      <4>1. QED
        BY <3>1, <3>2, Largest
    <3>4. PICK x \in S : \A y \in S : y <= x
      BY <3>3
    <3>5. \A y \in S : x >= y
      BY <3>1, <3>4
    <3>6. most \in S
      BY <3>5 DEF Max
    <3>7. QED
      BY <3>1, <3>6
  <2> HIDE DEF most
  <2>3. /\ L \in Seq(1..most) /\ (\A x : (\E k \in 1..Len(L) : L[k] = x) <=> x \in labels /\ x \in 1..most)
        /\ \A j, k \in 1..Len(L) : j < k => L[j] < L[k]
    BY <2>2, AscendingIs
  <2> HIDE DEF L
  <2>4. Len(L) \in Nat /\ L \in [1..Len(L) -> 1..most] /\ \A k \in 1..Len(L) : L[k] \in labels /\ L[k] \in Nat
    <3>1. Len(L) \in Nat /\ L \in [1..Len(L) -> 1..most]
      BY <2>3, LenProperties
    <3>2. \A k \in 1..Len(L) : L[k] \in labels
      BY <2>3
    <3>3. QED
      BY <2>1, <3>1, <3>2
  <2>5. L \in Seq(labels)
    <3>1. L = [k \in 1..Len(L) |-> L[k]]
      BY <2>4
    <3>2. L \in [1..Len(L) -> labels]
      BY <2>4, <3>1
    <3>3. QED
      BY <2>4, <3>2
  <2>6. \A j, k \in 1..Len(L) : L[j] = L[k] => j = k
    <3>1. SUFFICES ASSUME NEW j \in 1..Len(L), NEW k \in 1..Len(L), L[j] = L[k], j # k PROVE FALSE
      OBVIOUS
    <3>2. j < k \/ k < j
      BY <2>4, <3>1
    <3>3. QED
      BY <2>3, <2>4, <3>1, <3>2
  <2>7. labels = {} => Len(L) = 0
    <3>1. SUFFICES ASSUME labels = {}, Len(L) # 0 PROVE FALSE
      OBVIOUS
    <3>2. 1 \in 1..Len(L)
      BY <2>4, <3>1
    <3>3. QED
      BY <2>4, <3>1, <3>2
  <2>8. LabelsOf(labels) = L
    BY <1>2 DEF LabelsOf, L, most
  <2>9. QED
    BY <1>2, <2>5, <2>6, <2>7, <2>8
<1>3. QED
  BY <1>1, <1>2

\* The rows of one image come from different places
LEMMA MatchedIs ==
  ASSUME NEW matches, NEW i \in Nat, NEW n \in Nat, AreMatches(matches[i], n)
  PROVE  LET M == Matched(matches, i)
             ms == matches[i]
         IN  /\ M \in Seq(MatchRow)
             /\ \A k \in 1..Len(M) : M[k][1] = i /\ M[k][2] \in DOMAIN ms /\ M[k][3] \in Positive(ms[M[k][2]])
             /\ Apart(KeyOf, M)
             /\ DOMAIN ms = {Shared} => Len(M) = Cardinality(Positive(ms[Shared]))
             /\ DOMAIN ms = {} => Len(M) = 0
<1> DEFINE ms == matches[i]
           L == LabelsOf(DOMAIN ms)
           m == Len(L)
           part(c) == MatchedTo(ms[L[c]], i, L[c])
           seqs == [c \in 1..m |-> part(c)]
           lens == Lens(m, seqs)
           sum == Sums(lens)
           M == FlattenSeq(seqs)
<1>1. /\ L \in Seq(DOMAIN ms) /\ (\A j, k \in 1..Len(L) : L[j] = L[k] => j = k)
      /\ DOMAIN ms = {Shared} => L = << Shared >>
      /\ DOMAIN ms = {} => Len(L) = 0
  <2> DEFINE labels == DOMAIN ms
  <2>1. labels \subseteq {Shared} \/ (labels \subseteq Nat \ {0} /\ IsFiniteSet(labels))
    BY DEF AreMatches
  <2> HIDE DEF labels
  <2>2. /\ LabelsOf(labels) \in Seq(labels)
        /\ \A j, k \in 1..Len(LabelsOf(labels)) : LabelsOf(labels)[j] = LabelsOf(labels)[k] => j = k
        /\ labels = {Shared} => LabelsOf(labels) = << Shared >>
        /\ labels = {} => Len(LabelsOf(labels)) = 0
    BY <2>1, LabelsAre
  <2>3. QED
    BY <2>2 DEF labels
<1> HIDE DEF L
<1>2. m \in Nat /\ DOMAIN L = 1..m /\ \A c \in 1..m : L[c] \in DOMAIN ms /\ L[c] \in Int /\ ms[L[c]] \in [1..n -> Int]
  <2>1. m \in Nat /\ DOMAIN L = 1..m /\ \A c \in 1..m : L[c] \in DOMAIN ms
    BY <1>1
  <2>2. \A c \in DOMAIN ms : c \in Int /\ ms[c] \in [1..n -> Int]
    BY DEF AreMatches, Shared
  <2>3. QED
    BY <2>1, <2>2
<1> HIDE DEF m
<1>3. ASSUME NEW c \in 1..m
      PROVE  /\ part(c) \in Seq(MatchRow) /\ Len(part(c)) = Cardinality(Positive(ms[L[c]]))
             /\ \A k \in 1..Len(part(c)) :
                   part(c)[k][1] = i /\ part(c)[k][2] = L[c] /\ part(c)[k][3] \in Positive(ms[L[c]])
             /\ \A k, l \in 1..Len(part(c)) : part(c)[k][3] = part(c)[l][3] => k = l
  <2> DEFINE index == ms[L[c]]
             label == L[c]
  <2>1. index \in [1..n -> Int] /\ label \in Int
    BY <1>2
  <2> HIDE DEF index, label
  <2> DEFINE N == MatchedTo(index, i, label)
  <2>2. /\ N \in Seq(MatchRow) /\ Len(N) = Cardinality(Positive(index))
        /\ \A k \in 1..Len(N) : N[k][1] = i /\ N[k][2] = label /\ N[k][3] \in Positive(index)
        /\ \A k, l \in 1..Len(N) : N[k][3] = N[l][3] => k = l
    BY <2>1, MatchedToIs
  <2>3. part(c) = N
    BY DEF index, label
  <2> HIDE DEF part, N
  <2>4. QED
    BY <2>2, <2>3 DEF index, label
<1> HIDE DEF part
<1>4. seqs \in [1..m -> Seq(MatchRow)] /\ \A c \in 1..m : seqs[c] = part(c)
  BY <1>3
<1>5. M = Matched(matches, i)
  BY <1>2 DEF Matched, L, m, part
<1> HIDE DEF seqs
<1>6. /\ M \in Seq(MatchRow) /\ Len(M) = Total(lens)
      /\ \A k \in 1..m : \A j \in 1..Len(seqs[k]) : sum[k - 1] + j \in 1..Len(M) /\ M[sum[k - 1] + j] = seqs[k][j]
      /\ \A q \in 1..Len(M) : \E k \in 1..m : \E j \in 1..Len(seqs[k]) : q = sum[k - 1] + j
  <2>1. IsWhole(MatchRow, m, seqs, M)
    BY <1>2, <1>4, FlatIs, Zenon
  <2> HIDE DEF M
  <2>2. QED
    BY <2>1 DEF IsWhole
<1>7. \A r \in MatchRow : KeyOf[r] = << r[1], r[2], r[3] >>
  BY DEF KeyOf
<1>8. \A c \in 1..m : \A k \in 1..Len(seqs[c]) : seqs[c][k] \in MatchRow
  BY <1>4, ElementOfSeq
<1>9. ASSUME NEW c \in 1..m, NEW d \in 1..m, NEW k \in 1..Len(seqs[c]), NEW l \in 1..Len(seqs[d]),
             KeyOf[seqs[c][k]] = KeyOf[seqs[d][l]]
      PROVE  c = d /\ k = l
  <2> DEFINE r == seqs[c][k]
             s == seqs[d][l]
  <2>1. r[2] = s[2] /\ r[3] = s[3]
    <3>1. r \in MatchRow /\ s \in MatchRow /\ KeyOf[r] = KeyOf[s]
      BY <1>8, <1>9
    <3> HIDE DEF r, s
    <3>2. QED
      BY <1>7, <3>1
  <2>2. r[2] = L[c] /\ s[2] = L[d]
    BY <1>3, <1>4
  <2>3. c = d
    BY <1>1, <2>1, <2>2 DEF m
  <2>4. seqs[c] = part(c) /\ k \in 1..Len(part(c)) /\ l \in 1..Len(part(c))
    BY <1>4, <2>3
  <2>5. part(c)[k][3] = part(c)[l][3]
    BY <2>1, <2>3, <2>4
  <2>6. \A a, b \in 1..Len(part(c)) : part(c)[a][3] = part(c)[b][3] => a = b
    BY <1>3
  <2>7. k = l
    BY <2>4, <2>5, <2>6
  <2>8. QED
    BY <2>3, <2>7
<1>10. Apart(KeyOf, M)
  <2>1. PartsApart(KeyOf, m, seqs)
    BY <1>9 DEF PartsApart
  <2>2. QED
    BY <1>2, <1>4, <2>1, FlatApart, Zenon
<1>11. ASSUME NEW q \in 1..Len(M)
       PROVE  M[q][1] = i /\ M[q][2] \in DOMAIN ms /\ M[q][3] \in Positive(ms[M[q][2]])
  <2>1. PICK c \in 1..m : \E k \in 1..Len(seqs[c]) : q = sum[c - 1] + k
    BY <1>6
  <2>2. PICK k \in 1..Len(seqs[c]) : q = sum[c - 1] + k
    BY <2>1
  <2>3. M[q] = part(c)[k] /\ k \in 1..Len(part(c))
    BY <1>4, <1>6, <2>2
  <2> HIDE DEF M
  <2>4. QED
    BY <1>2, <1>3, <2>3
<1>12. lens \in [1..m -> Nat] /\ \A c \in 1..m : lens[c] = Len(seqs[c])
  BY <1>4 DEF Lens
<1>13. sum[0] = 0 /\ (\A k \in 1..m : sum[k] = sum[k - 1] + lens[k]) /\ Total(lens) = sum[m] /\ sum \in [0..m -> Nat]
  <2> HIDE DEF lens
  <2>1. QED
    BY <1>2, <1>12, SumsAre
<1>14. ASSUME DOMAIN ms = {Shared} PROVE Len(M) = Cardinality(Positive(ms[Shared]))
  <2>1. L = << Shared >> /\ m = 1
    BY <1>1, <1>14 DEF m
  <2>2. 1 \in 1..m /\ L[1] = Shared /\ 1 - 1 = 0
    BY <2>1
  <2>3. lens[1] = Cardinality(Positive(ms[Shared]))
    BY <1>3, <1>4, <1>12, <2>2
  <2>4. sum[1] = sum[0] + lens[1] /\ lens[1] \in Nat
    BY <1>12, <1>13, <2>2
  <2>5. QED
    BY <1>6, <1>13, <2>1, <2>3, <2>4
<1>15. DOMAIN ms = {} => Len(M) = 0
  BY <1>1, <1>6, <1>13 DEF m
<1> HIDE DEF M
<1>16. QED
  BY <1>5, <1>6, <1>10, <1>11, <1>14, <1>15

LEMMA AllMatchedIs ==
  ASSUME NEW num \in Nat, NEW matches, NEW size \in [1..num -> Nat],
         \A i \in 1..num : AreMatches(matches[i], size[i])
  PROVE  LET A == AllMatched(matches, num)
             lens == [i \in 1..num |-> Len(Matched(matches, i))]
         IN  /\ A \in Seq(MatchRow) /\ Len(A) = Total(lens) /\ lens \in [1..num -> Nat]
             /\ Apart(KeyOf, A)
<1> DEFINE part(i) == Matched(matches, i)
           seqs == [i \in 1..num |-> part(i)]
           A == FlattenSeq(seqs)
           lens == Lens(num, seqs)
<1>1. ASSUME NEW i \in 1..num
      PROVE  /\ part(i) \in Seq(MatchRow)
             /\ \A k \in 1..Len(part(i)) : part(i)[k][1] = i
             /\ Apart(KeyOf, part(i))
  <2>1. i \in Nat /\ size[i] \in Nat /\ AreMatches(matches[i], size[i])
    OBVIOUS
  <2>2. QED
    BY <2>1, MatchedIs
<1> HIDE DEF part
<1>2. seqs \in [1..num -> Seq(MatchRow)] /\ \A i \in 1..num : seqs[i] = part(i)
  BY <1>1
<1> HIDE DEF seqs
<1>3. A \in Seq(MatchRow) /\ Len(A) = Total(lens)
  <2>1. IsWhole(MatchRow, num, seqs, A)
    BY <1>2, FlatIs, Zenon
  <2> HIDE DEF A
  <2>2. QED
    BY <2>1 DEF IsWhole
<1>4. ASSUME NEW i \in 1..num, NEW j \in 1..num, NEW k \in 1..Len(seqs[i]), NEW l \in 1..Len(seqs[j]),
             KeyOf[seqs[i][k]] = KeyOf[seqs[j][l]]
      PROVE  i = j /\ k = l
  <2> DEFINE r == seqs[i][k]
             s == seqs[j][l]
  <2>1. r[1] = s[1]
    <3>1. r \in MatchRow /\ s \in MatchRow /\ KeyOf[r] = KeyOf[s]
      BY <1>2, <1>4, ElementOfSeq
    <3> HIDE DEF r, s
    <3>2. \A x \in MatchRow : KeyOf[x] = << x[1], x[2], x[3] >>
      BY DEF KeyOf
    <3>3. QED
      BY <3>1, <3>2
  <2>2. i = j
    BY <1>1, <1>2, <2>1
  <2>3. QED
    BY <1>1, <1>2, <1>4, <2>2 DEF Apart
<1>5. Apart(KeyOf, A)
  <2>1. PartsApart(KeyOf, num, seqs)
    BY <1>4 DEF PartsApart
  <2>2. QED
    BY <1>2, <2>1, FlatApart, Zenon
<1>6. lens \in [1..num -> Nat] /\ lens = [i \in 1..num |-> Len(Matched(matches, i))]
  BY <1>2 DEF part, Lens
<1>7. A = AllMatched(matches, num)
  BY DEF AllMatched, seqs, part
<1> HIDE DEF A, lens
<1>8. QED
  BY <1>3, <1>5, <1>6, <1>7

LEMMA FoundAre ==
  ASSUME NEW p \in Parameters, NEW image, IsImage(image)
  PROVE  /\ AreMatches(FindMatches(p, image).indices, Len(image.overlap))
         /\ DOMAIN image.overlap = 1..Len(image.overlap) /\ Len(image.overlap) \in Nat
<1> DEFINE found == FindMatches(p, image).indices
           all == MatchBBox(p, image, Shared)
           n == Len(image.overlap)
           dealt(c) == [i \in DOMAIN all.indices |->
                          IF all.indices[i] > -1 /\ image.gt[all.indices[i]] = c THEN all.indices[i] ELSE Unmatched]
<1>1. /\ DOMAIN found \subseteq (IF p.share_location THEN {Shared} ELSE p.labels)
      /\ \A c \in DOMAIN found :
            found[c] = IF p.share_location THEN all.indices
                       ELSE IF p.use_prior_for_matching THEN dealt(c) ELSE MatchBBox(p, image, c).indices
  <2> HIDE DEF all
  <2>1. QED
    BY DEF FindMatches, all
<1>2. p.labels \subseteq Nat \ {0} /\ IsFiniteSet(p.labels)
  BY MultiBoxAssumption DEF IsParameter
<1>3. DOMAIN image.overlap = 1..n /\ n \in Nat
  BY DEF IsImage
<1>4. \A c : MatchBBox(p, image, c).indices \in [1..n -> Int]
  <2>1. SUFFICES ASSUME NEW c PROVE MatchBBox(p, image, c).indices \in [1..n -> Int]
    OBVIOUS
  <2>2. MatchBBox(p, image, c).indices \in [DOMAIN image.overlap -> Int]
    BY MatchIs
  <2> HIDE DEF n
  <2>3. QED
    BY <1>3, <2>2
<1>5. all.indices \in [1..n -> Int]
  BY <1>4
<1> HIDE DEF all, n, found
<1>6. \A c : dealt(c) \in [1..n -> Int]
  <2>1. SUFFICES ASSUME NEW c PROVE dealt(c) \in [1..n -> Int]
    OBVIOUS
  <2> DEFINE index == all.indices
  <2>2. index \in [1..n -> Int] /\ Unmatched = -1
    BY <1>5 DEF Unmatched
  <2> HIDE DEF index
  <2>3. [i \in DOMAIN index |-> IF index[i] > -1 /\ image.gt[index[i]] = c THEN index[i] ELSE Unmatched] \in [1..n -> Int]
    BY <2>2
  <2>4. QED
    BY <2>3 DEF index
<1> HIDE DEF dealt
<1>7. \A c \in DOMAIN found : found[c] \in [1..n -> Int]
  BY <1>1, <1>4, <1>5, <1>6
<1>8. DOMAIN found \subseteq {Shared} \/ (DOMAIN found \subseteq Nat \ {0} /\ IsFiniteSet(DOMAIN found))
  <2>1. CASE p.share_location
    BY <1>1, <2>1
  <2>2. CASE ~p.share_location
    <3>1. DOMAIN found \subseteq p.labels
      BY <1>1, <2>2
    <3>2. IsFiniteSet(DOMAIN found)
      BY <1>2, <3>1, FS_Subset
    <3>3. QED
      BY <1>2, <3>1, <3>2
  <2>3. QED
    BY <2>1, <2>2
<1>9. QED
  BY <1>3, <1>7, <1>8 DEF AreMatches, found, n

\* What mining leaves are matches again, fewer by the number dropped, and
\* negatives that none of them has
LEMMA MinedAre ==
  ASSUME param \in Parameters, NEW image, IsImage(image)
  PROVE  LET n == Len(image.overlap)
             ms == FindMatches(param, image).indices
             mined == MinedOf(param, image)
             new == mined.indices
         IN  /\ AreMatches(new, n)
             /\ ~DoNegMining => new = ms /\ mined.dropped = 0
             /\ DoNegMining /\ image.gt = << >> => new = ms /\ mined.dropped = 0 /\ mined.negs = << >> /\ DOMAIN ms = {}
             /\ DoNegMining /\ image.gt # << >> =>
                   /\ DOMAIN ms = {Shared} /\ DOMAIN new = {Shared} /\ mined.dropped \in Nat
                   /\ Cardinality(Positive(ms[Shared])) = Cardinality(Positive(new[Shared])) + mined.dropped
                   /\ mined.negs \in Seq(1..n)
                   /\ \A k, l \in 1..Len(mined.negs) : mined.negs[k] = mined.negs[l] => k = l
                   /\ \A k \in 1..Len(mined.negs) : new[Shared][mined.negs[k]] = Unmatched
<1> DEFINE n == Len(image.overlap)
           found == FindMatches(param, image)
           ms == found.indices
           mined == MinedOf(param, image)
<1>1. AreMatches(ms, n) /\ DOMAIN image.overlap = 1..n /\ n \in Nat
  BY FoundAre
<1>2. DoNegMining => DOMAIN ms = IF image.gt = << >> THEN {} ELSE {Shared}
  <2>1. SUFFICES ASSUME DoNegMining PROVE DOMAIN ms = IF image.gt = << >> THEN {} ELSE {Shared}
    OBVIOUS
  <2>2. param.share_location
    BY <2>1, MultiBoxAssumption DEF IsParameter, DoNegMining
  <2>3. QED
    BY <2>2, FoundShared
<1>3. mined = Mine(param, image, ms, found.overlaps)
  BY DEF MinedOf
<1> HIDE DEF found, mined, n
<1>4. CASE ~DoNegMining
  <2>1. mined.indices = ms /\ mined.dropped = 0
    BY <1>3, <1>4 DEF Mine, DoNegMining
  <2>2. QED
    BY <1>1, <1>4, <2>1 DEF mined, found, n
<1>5. CASE DoNegMining /\ image.gt = << >>
  <2>1. DOMAIN ms = {}
    BY <1>2, <1>5
  <2>2. mined.indices = ms /\ mined.dropped = 0 /\ mined.negs = << >>
    BY <1>3, <2>1 DEF Mine
  <2>3. QED
    BY <1>1, <1>5, <2>1, <2>2 DEF mined, found, n
<1>6. CASE DoNegMining /\ image.gt # << >>
  <2> DEFINE now == ms[Shared]
             sel == Selected(param, image, now, found.overlaps[Shared])
             out == IF param.mining_type = "HARD_EXAMPLE" THEN Positive(now) \ sel ELSE {}
             new == [i \in DOMAIN now |-> IF i \in out THEN Unmatched ELSE now[i]]
             chosen == {i \in sel : now[i] = Unmatched}
             negs == mined.negs
  <2>1. DOMAIN ms = {Shared}
    BY <1>2, <1>6
  <2>2. now \in [1..n -> Int] /\ Unmatched = -1
    BY <1>1, <2>1 DEF AreMatches, Unmatched
  <2>3. /\ mined.indices = [c \in {Shared} |-> new] /\ mined.negs = Ascending(chosen, Len(now))
        /\ mined.dropped = Cardinality(out)
    <3> HIDE DEF now, sel
    <3>1. QED
      BY <1>3, <1>6, <2>1 DEF Mine, DoNegMining, now, sel
  <2> HIDE DEF now, sel
  <2>4. Len(now) = n
    <3>1. now \in Seq(Int) /\ DOMAIN now = 1..n
      BY <1>1, <2>2, IsASeq
    <3>2. QED
      BY <1>1, <3>1, LenProperties
  <2>5. new \in [1..n -> Int]
    BY <2>2
  <2>6. Positive(now) \subseteq 1..n /\ out \subseteq Positive(now) /\ IsFiniteSet(Positive(now))
    <3>1. Positive(now) \subseteq 1..n
      BY <2>2 DEF Positive
    <3>2. IsFiniteSet(1..n)
      BY <1>1, FS_Interval
    <3>3. QED
      BY <3>1, <3>2, FS_Subset
  <2>7. Positive(new) = Positive(now) \ out
    <3>1. Positive(now) = {i \in 1..n : now[i] > -1}
      BY <2>2 DEF Positive
    <3>2. Positive(new) = {i \in 1..n : new[i] > -1}
      BY <2>2 DEF Positive
    <3>3. \A i \in 1..n : new[i] > -1 <=> now[i] > -1 /\ i \notin out
      BY <2>2
    <3> HIDE DEF new, out
    <3>4. QED
      BY <3>1, <3>2, <3>3
  <2> HIDE DEF out
  <2>8. Cardinality(out) \in Nat /\ Cardinality(Positive(now)) = Cardinality(Positive(new)) + Cardinality(out)
    <3>1. Positive(now) \cap out = out
      BY <2>6
    <3>2. Cardinality(Positive(now) \ out) = Cardinality(Positive(now)) - Cardinality(Positive(now) \cap out)
      BY <2>6, FS_Difference
    <3>3. IsFiniteSet(out) /\ IsFiniteSet(Positive(now) \ out)
      BY <2>6, FS_Subset
    <3>4. Cardinality(out) \in Nat /\ Cardinality(Positive(now)) \in Nat /\ Cardinality(Positive(now) \ out) \in Nat
      BY <2>6, <3>3, FS_CardinalityType
    <3> HIDE DEF new
    <3>5. Cardinality(Positive(new)) = Cardinality(Positive(now)) - Cardinality(out)
      BY <2>7, <3>1, <3>2, Zenon
    <3>6. \A x, y \in Nat : \A z : z = x - y => x = z + y
      OBVIOUS
    <3>7. QED
      BY <3>4, <3>5, <3>6
  <2>9. /\ negs \in Seq(1..n) /\ (\A k, l \in 1..Len(negs) : negs[k] = negs[l] => k = l)
        /\ \A k \in 1..Len(negs) : negs[k] \in chosen /\ negs[k] \in 1..n
    <3> HIDE DEF chosen
    <3> DEFINE s == Ascending(chosen, n)
    <3>1. /\ s \in Seq(1..n) /\ (\A x : (\E k \in 1..Len(s) : s[k] = x) <=> x \in chosen /\ x \in 1..n)
          /\ \A j, k \in 1..Len(s) : j < k => s[j] < s[k]
      BY <1>1, AscendingIs
    <3>2. negs = s
      BY <2>3, <2>4
    <3> HIDE DEF s, negs
    <3>3. \A k \in 1..Len(s) : s[k] \in chosen /\ s[k] \in 1..n
      BY <3>1
    <3>4. \A k, l \in 1..Len(s) : s[k] = s[l] => k = l
      <4>1. SUFFICES ASSUME NEW k \in 1..Len(s), NEW l \in 1..Len(s), s[k] = s[l], k # l PROVE FALSE
        OBVIOUS
      <4>2. s[k] \in Nat /\ s[l] \in Nat /\ (k < l \/ l < k)
        BY <3>1, <3>3, <4>1
      <4>3. k < l => s[k] < s[l]
        BY <3>1
      <4>4. l < k => s[l] < s[k]
        BY <3>1
      <4>5. QED
        BY <4>1, <4>2, <4>3, <4>4
    <3>5. QED
      BY <3>1, <3>2, <3>3, <3>4
  <2>10. \A k \in 1..Len(negs) : new[negs[k]] = Unmatched
    <3> HIDE DEF negs
    <3>1. QED
      BY <2>2, <2>9
  <2> HIDE DEF new
  <2>11. DOMAIN mined.indices = {Shared} /\ mined.indices[Shared] = new
    BY <2>3
  <2>12. AreMatches(mined.indices, n)
    BY <2>5, <2>11 DEF AreMatches
  <2>13. QED
    BY <1>6, <2>1, <2>3, <2>8, <2>9, <2>10, <2>11, <2>12 DEF mined, found, n, now
<1>7. QED
  BY <1>4, <1>5, <1>6

\* What is matched in an image before mining is what is matched after it, and
\* what was dropped
LEMMA CountIs ==
  ASSUME param \in Parameters, NEW image, IsImage(image), NEW i \in Nat,
         NEW kept, kept[i] = FindMatches(param, image).indices,
         NEW matches, matches[i] = MinedOf(param, image).indices
  PROVE  /\ Len(Matched(kept, i)) \in Nat /\ Len(Matched(matches, i)) \in Nat /\ MinedOf(param, image).dropped \in Nat
         /\ Len(Matched(kept, i)) = Len(Matched(matches, i)) + MinedOf(param, image).dropped
<1> DEFINE n == Len(image.overlap)
           ms == FindMatches(param, image).indices
           mined == MinedOf(param, image)
           new == mined.indices
<1>1. AreMatches(ms, n) /\ n \in Nat
  BY FoundAre
<1>2. /\ AreMatches(new, n)
      /\ ~DoNegMining => new = ms /\ mined.dropped = 0
      /\ DoNegMining /\ image.gt = << >> => new = ms /\ mined.dropped = 0
      /\ DoNegMining /\ image.gt # << >> =>
            /\ DOMAIN ms = {Shared} /\ DOMAIN new = {Shared} /\ mined.dropped \in Nat
            /\ Cardinality(Positive(ms[Shared])) = Cardinality(Positive(new[Shared])) + mined.dropped
  BY MinedAre
<1> HIDE DEF n, ms, mined
<1>3. AreMatches(kept[i], n) /\ AreMatches(matches[i], n)
  BY <1>1, <1>2 DEF ms, mined
<1>4. /\ Matched(kept, i) \in Seq(MatchRow)
      /\ DOMAIN kept[i] = {Shared} => Len(Matched(kept, i)) = Cardinality(Positive(kept[i][Shared]))
  BY <1>1, <1>3, MatchedIs
<1>5. /\ Matched(matches, i) \in Seq(MatchRow)
      /\ DOMAIN matches[i] = {Shared} => Len(Matched(matches, i)) = Cardinality(Positive(matches[i][Shared]))
  BY <1>1, <1>3, MatchedIs
<1>6. Len(Matched(kept, i)) \in Nat /\ Len(Matched(matches, i)) \in Nat
  BY <1>4, <1>5, LenProperties
<1>7. CASE DoNegMining /\ image.gt # << >>
  BY <1>2, <1>4, <1>5, <1>6, <1>7 DEF ms, mined
<1>8. CASE ~(DoNegMining /\ image.gt # << >>)
  <2>1. new = ms /\ mined.dropped = 0
    BY <1>2, <1>8
  <2>2. kept[i] = matches[i]
    BY <2>1 DEF ms, mined
  <2>3. Matched(kept, i) = Matched(matches, i)
    BY <2>2 DEF Matched
  <2>4. QED
    BY <1>6, <2>1, <2>3 DEF mined
<1>9. QED
  BY <1>7, <1>8

\* The priors of one image that count for the confidences, in their order
Counted(p, images, matches, negs, i) ==
  IF p.mining_type # "NONE"
  THEN [k \in DOMAIN Matched(matches, i) |-> Matched(matches, i)[k][3]] \o negs[i]
  ELSE [j \in DOMAIN images[i].overlap |-> j]

\* The batch images with what mining leaves of its matches
AreMined(images, matches, negs) ==
  \A i \in 1..Len(images) :
    /\ IsImage(images[i])
    /\ matches[i] = MinedOf(param, images[i]).indices
    /\ DoNegMining => negs[i] = MinedOf(param, images[i]).negs

ConfIs(images, matches, negs, i, rows, js) ==
  /\ js \in Seq(Nat) /\ rows \in Seq(ToSet(rows)) /\ Len(rows) = Len(js)
  /\ \A k \in 1..Len(js) : rows[k][1] = i /\ rows[k][2] = js[k]
  /\ \A k, l \in 1..Len(js) : js[k] = js[l] => k = l
  /\ Len(js) = IF DoNegMining THEN Len(Matched(matches, i)) + Len(negs[i]) ELSE Len(images[i].overlap)

LEMMA EncodeIs ==
  ASSUME param \in Parameters, NEW images, NEW matches, NEW negs, AreMined(images, matches, negs),
         Len(images) \in Nat, NEW i \in 1..Len(images)
  PROVE  ConfIs(images, matches, negs, i, EncodeConfPrediction(param, images, matches, negs, i),
                Counted(param, images, matches, negs, i))
<1> DEFINE image == images[i]
           n == Len(image.overlap)
           rows == EncodeConfPrediction(param, images, matches, negs, i)
           js == Counted(param, images, matches, negs, i)
           hits == Matched(matches, i)
           ms == matches[i]
           neg == negs[i]
<1>1. /\ i \in Nat /\ IsImage(image) /\ ms = MinedOf(param, image).indices
      /\ DoNegMining => neg = MinedOf(param, image).negs
  BY DEF AreMined
<1>2. DOMAIN image.overlap = 1..n /\ n \in Nat
  BY <1>1, FoundAre
<1>3. /\ AreMatches(ms, n)
      /\ DoNegMining /\ image.gt = << >> => neg = << >> /\ DOMAIN ms = {}
      /\ DoNegMining /\ image.gt # << >> =>
            /\ DOMAIN ms = {Shared}
            /\ neg \in Seq(1..n) /\ \A k, l \in 1..Len(neg) : neg[k] = neg[l] => k = l
            /\ \A k \in 1..Len(neg) : ms[Shared][neg[k]] = Unmatched
  <2> DEFINE mined == MinedOf(param, image)
             found == FindMatches(param, image).indices
  <2>1. /\ AreMatches(mined.indices, n)
        /\ DoNegMining /\ image.gt = << >> => mined.indices = found /\ mined.negs = << >> /\ DOMAIN found = {}
        /\ DoNegMining /\ image.gt # << >> =>
              /\ DOMAIN mined.indices = {Shared}
              /\ mined.negs \in Seq(1..n)
              /\ \A k, l \in 1..Len(mined.negs) : mined.negs[k] = mined.negs[l] => k = l
              /\ \A k \in 1..Len(mined.negs) : mined.indices[Shared][mined.negs[k]] = Unmatched
    BY <1>1, MinedAre
  <2> HIDE DEF mined, found
  <2>2. ms = mined.indices /\ (DoNegMining => neg = mined.negs)
    BY <1>1 DEF mined
  <2> HIDE DEF ms, neg, image, n
  <2>3. QED
    BY <2>1, <2>2
<1>4. /\ hits \in Seq(MatchRow)
      /\ \A k \in 1..Len(hits) : hits[k][1] = i /\ hits[k][2] \in DOMAIN ms /\ hits[k][3] \in Positive(ms[hits[k][2]])
      /\ Apart(KeyOf, hits)
      /\ DOMAIN ms = {} => Len(hits) = 0
  BY <1>1, <1>2, <1>3, MatchedIs
<1> HIDE DEF hits, image, ms, neg, n
<1>5. Len(hits) \in Nat /\ DOMAIN hits = 1..Len(hits)
  BY <1>4, LenProperties
<1>6. CASE ~DoNegMining
  <2> DEFINE third(j) == Target(param, images, matches, i, j)
             all == [j \in 1..n |-> << i, j, third(j) >>]
             ids == [j \in 1..n |-> j]
  <2>1. rows = all
    BY <1>2, <1>6 DEF EncodeConfPrediction, DoNegMining, hits, image
  <2>2. js = ids
    BY <1>2, <1>6 DEF Counted, DoNegMining, image
  <2> HIDE DEF third
  <2>3. ids \in Seq(Nat) /\ Len(ids) = n
    <3>1. ids \in Seq(Nat) /\ DOMAIN ids = 1..n
      BY <1>2, IsASeq
    <3>2. QED
      BY <1>2, <3>1, LenProperties
  <2>4. all \in Seq(ToSet(all)) /\ Len(all) = n
    <3> DEFINE S == {<< i, j, third(j) >> : j \in 1..n}
    <3>1. all \in Seq(S) /\ DOMAIN all = 1..n
      BY <1>2, IsASeq
    <3>2. Len(all) = n
      BY <1>2, <3>1, LenProperties
    <3>3. ToSet(all) = {all[k] : k \in 1..n}
      BY <3>1 DEF ToSet
    <3>4. all = [k \in 1..n |-> all[k]]
      OBVIOUS
    <3> HIDE DEF all
    <3>5. all \in [1..n -> ToSet(all)]
      BY <3>3, <3>4
    <3>6. QED
      BY <1>2, <3>2, <3>5
  <2>5. \A k \in 1..n : all[k][1] = i /\ all[k][2] = ids[k]
    OBVIOUS
  <2>6. \A k, l \in 1..n : ids[k] = ids[l] => k = l
    OBVIOUS
  <2> HIDE DEF all, ids, rows, js
  <2>7. ConfIs(images, matches, negs, i, rows, js)
    BY <1>6, <2>1, <2>2, <2>3, <2>4, <2>5, <2>6 DEF ConfIs, n, image
  <2>8. QED
    BY <2>7 DEF rows, js
<1>7. CASE DoNegMining /\ image.gt = << >>
  <2>1. hits = << >>
    BY <1>3, <1>4, <1>7, EmptySeq
  <2>2. rows = << >>
    BY <1>7 DEF EncodeConfPrediction, DoNegMining, image
  <2>3. js = << >>
    <3>1. js = [k \in DOMAIN hits |-> hits[k][3]] \o neg
      BY <1>7 DEF Counted, DoNegMining, hits, neg
    <3>2. [k \in DOMAIN hits |-> hits[k][3]] = << >>
      BY <2>1
    <3>3. neg = << >>
      BY <1>3, <1>7
    <3>4. << >> \o << >> = << >>
      BY << >> \in Seq({}), ConcatEmptySeq
    <3>5. QED
      BY <3>1, <3>2, <3>3, <3>4
  <2> HIDE DEF rows, js
  <2>4. rows \in Seq(ToSet(rows)) /\ js \in Seq(Nat) /\ Len(rows) = 0 /\ Len(js) = 0
    BY <2>2, <2>3
  <2>5. Len(hits) = 0 /\ Len(neg) = 0
    BY <1>3, <1>7, <2>1
  <2>6. ConfIs(images, matches, negs, i, rows, js)
    BY <1>7, <2>4, <2>5 DEF ConfIs, hits, neg
  <2>7. QED
    BY <2>6 DEF rows, js
<1>8. CASE DoNegMining /\ image.gt # << >>
  <2> DEFINE m == Len(hits)
             label(k) == LabelOf(images, hits[k])
             one == [k \in 1..m |-> hits[k][3]]
             oneRows == [k \in 1..m |-> << i, hits[k][3], {label(k)} >>]
             twoRows == [k \in 1..Len(neg) |-> << i, neg[k], {0} >>]
             T == {<< i, hits[k][3], {label(k)} >> : k \in 1..m} \union {<< i, neg[k], {0} >> : k \in 1..Len(neg)}
  <2> HIDE DEF label
  <2>1. /\ DOMAIN ms = {Shared} /\ ms[Shared] \in [1..n -> Int]
        /\ neg \in Seq(1..n) /\ (\A k, l \in 1..Len(neg) : neg[k] = neg[l] => k = l)
        /\ \A k \in 1..Len(neg) : ms[Shared][neg[k]] = Unmatched
    BY <1>3, <1>8 DEF AreMatches
  <2>2. Len(neg) \in Nat /\ DOMAIN neg = 1..Len(neg) /\ \A k \in 1..Len(neg) : neg[k] \in 1..n
    <3> DEFINE R == 1..n
    <3>1. neg \in Seq(R)
      BY <2>1
    <3> HIDE DEF R
    <3>2. Len(neg) \in Nat /\ DOMAIN neg = 1..Len(neg)
      BY <3>1, LenProperties
    <3>3. \A k \in 1..Len(neg) : neg[k] \in R
      BY <3>1, ElementOfSeq
    <3>4. QED
      BY <3>2, <3>3 DEF R
  <2>3. \A k \in 1..m : hits[k] \in MatchRow /\ hits[k][1] = i /\ hits[k][2] = Shared
                        /\ hits[k][3] \in 1..n /\ hits[k][3] \in Nat /\ ms[Shared][hits[k][3]] > -1
    <3>1. SUFFICES ASSUME NEW k \in 1..m
                   PROVE  hits[k] \in MatchRow /\ hits[k][1] = i /\ hits[k][2] = Shared
                          /\ hits[k][3] \in 1..n /\ hits[k][3] \in Nat /\ ms[Shared][hits[k][3]] > -1
      OBVIOUS
    <3>2. hits[k] \in MatchRow
      BY <1>4, ElementOfSeq
    <3>3. hits[k][1] = i /\ hits[k][2] = Shared /\ hits[k][3] \in Positive(ms[Shared])
      BY <1>4, <2>1
    <3>4. hits[k][3] \in 1..n /\ ms[Shared][hits[k][3]] > -1
      BY <2>1, <3>3 DEF Positive
    <3>5. QED
      BY <1>2, <3>2, <3>3, <3>4
  <2>4. \A k, l \in 1..m : hits[k][3] = hits[l][3] => k = l
    <3>1. SUFFICES ASSUME NEW k \in 1..m, NEW l \in 1..m, hits[k][3] = hits[l][3] PROVE k = l
      OBVIOUS
    <3>2. \A x \in MatchRow : KeyOf[x] = << x[1], x[2], x[3] >>
      BY DEF KeyOf
    <3>3. KeyOf[hits[k]] = KeyOf[hits[l]]
      BY <2>3, <3>1, <3>2
    <3>4. QED
      BY <1>4, <3>3 DEF Apart
  <2>6. rows = oneRows \o twoRows
    <3>1. rows = [k \in DOMAIN hits |-> << i, hits[k][3], {label(k)} >>] \o [k \in DOMAIN neg |-> << i, neg[k], {0} >>]
      BY <1>8 DEF EncodeConfPrediction, DoNegMining, hits, neg, image, label
    <3>2. QED
      BY <1>5, <2>2, <3>1
  <2>7. js = one \o neg
    <3>1. js = [k \in DOMAIN hits |-> hits[k][3]] \o neg
      BY <1>8 DEF Counted, DoNegMining, hits, neg
    <3>2. QED
      BY <1>5, <3>1
  <2>8. one \in Seq(Nat) /\ Len(one) = m
    <3>1. one \in Seq(Nat) /\ DOMAIN one = 1..m
      BY <1>5, <2>3, IsASeq
    <3>2. QED
      BY <1>5, <3>1, LenProperties
  <2>9. neg \in Seq(Nat)
    BY <1>2, <2>1, SeqMonotonic
  <2>10. oneRows \in Seq(T) /\ Len(oneRows) = m
    <3>1. \A k \in 1..m : << i, hits[k][3], {label(k)} >> \in T
      OBVIOUS
    <3>2. oneRows \in Seq(T) /\ DOMAIN oneRows = 1..m
      <4> HIDE DEF T
      <4>1. QED
        BY <1>5, <3>1, IsASeq
    <3>3. QED
      BY <1>5, <3>2, LenProperties
  <2>11. twoRows \in Seq(T) /\ Len(twoRows) = Len(neg)
    <3>1. \A k \in 1..Len(neg) : << i, neg[k], {0} >> \in T
      OBVIOUS
    <3>2. twoRows \in Seq(T) /\ DOMAIN twoRows = 1..Len(neg)
      <4> HIDE DEF T
      <4>1. QED
        BY <2>2, <3>1, IsASeq
    <3>3. QED
      BY <2>2, <3>2, LenProperties
  <2>12. \A k \in 1..m : one[k] = hits[k][3] /\ oneRows[k][1] = i /\ oneRows[k][2] = hits[k][3]
    OBVIOUS
  <2>13. \A k \in 1..Len(neg) : twoRows[k][1] = i /\ twoRows[k][2] = neg[k]
    OBVIOUS
  <2> HIDE DEF m, one, oneRows, twoRows, rows, js, T
  <2>14. /\ js \in Seq(Nat) /\ Len(js) = m + Len(neg)
         /\ \A k \in 1..m + Len(neg) : js[k] = IF k <= m THEN one[k] ELSE neg[k - m]
    BY <2>7, <2>8, <2>9, ConcatProperties
  <2>15. /\ rows \in Seq(T) /\ Len(rows) = m + Len(neg)
         /\ \A k \in 1..m + Len(neg) : rows[k] = IF k <= m THEN oneRows[k] ELSE twoRows[k - m]
    BY <2>6, <2>10, <2>11, ConcatProperties
  <2>16. rows \in Seq(ToSet(rows))
    <3>1. DOMAIN rows = 1..Len(rows) /\ Len(rows) \in Nat /\ rows = [k \in 1..Len(rows) |-> rows[k]]
      BY <2>15, LenProperties
    <3>2. ToSet(rows) = {rows[k] : k \in 1..Len(rows)}
      BY <3>1 DEF ToSet
    <3>3. rows \in [1..Len(rows) -> ToSet(rows)]
      BY <3>1, <3>2
    <3>4. QED
      BY <3>1, <3>3
  <2>17. m \in Nat
    BY <1>5 DEF m
  <2>18. ASSUME NEW k \in 1..m + Len(neg) PROVE (k <= m /\ k \in 1..m) \/ (~(k <= m) /\ k - m \in 1..Len(neg))
    BY <2>2, <2>17
  <2>19. ASSUME NEW k \in 1..m + Len(neg) PROVE rows[k][1] = i /\ rows[k][2] = js[k]
    <3>1. CASE k <= m /\ k \in 1..m
      <4>1. rows[k] = oneRows[k] /\ js[k] = one[k]
        BY <2>14, <2>15, <2>19, <3>1
      <4>2. QED
        BY <2>12, <3>1, <4>1
    <3>2. CASE ~(k <= m) /\ k - m \in 1..Len(neg)
      <4>1. rows[k] = twoRows[k - m] /\ js[k] = neg[k - m]
        BY <2>14, <2>15, <2>19, <3>2
      <4>2. QED
        BY <2>13, <3>2, <4>1
    <3>3. QED
      BY <2>18, <2>19, <3>1, <3>2
  <2>20. ASSUME NEW k \in 1..m + Len(neg), NEW l \in 1..m + Len(neg), js[k] = js[l] PROVE k = l
    <3>1. CASE k <= m /\ l <= m
      BY <2>4, <2>12, <2>14, <2>18, <2>20, <3>1
    <3>2. CASE ~(k <= m) /\ ~(l <= m)
      <4>1. k - m \in 1..Len(neg) /\ l - m \in 1..Len(neg) /\ neg[k - m] = neg[l - m]
        BY <2>14, <2>18, <2>20, <3>2
      <4>2. k - m = l - m
        BY <2>1, <4>1
      <4>3. QED
        BY <2>2, <2>17, <4>2
    <3>3. \A a \in 1..m, b \in 1..Len(neg) : hits[a][3] # neg[b]
      BY <2>1, <2>3 DEF Unmatched, m
    <3>4. CASE k <= m /\ ~(l <= m)
      <4>1. k \in 1..m /\ l - m \in 1..Len(neg)
        BY <2>18, <3>4
      <4>2. js[k] = one[k] /\ js[l] = neg[l - m]
        BY <2>14, <3>4
      <4>3. one[k] = hits[k][3]
        BY <2>12, <4>1
      <4>4. hits[k][3] # neg[l - m]
        BY <3>3, <4>1
      <4>5. QED
        BY <2>20, <4>2, <4>3, <4>4
    <3>5. CASE l <= m /\ ~(k <= m)
      <4>1. l \in 1..m /\ k - m \in 1..Len(neg)
        BY <2>18, <3>5
      <4>2. js[l] = one[l] /\ js[k] = neg[k - m]
        BY <2>14, <3>5
      <4>3. one[l] = hits[l][3]
        BY <2>12, <4>1
      <4>4. hits[l][3] # neg[k - m]
        BY <3>3, <4>1
      <4>5. QED
        BY <2>20, <4>2, <4>3, <4>4
    <3>6. QED
      BY <3>1, <3>2, <3>4, <3>5
  <2>21. ConfIs(images, matches, negs, i, rows, js)
    BY <1>8, <2>14, <2>15, <2>16, <2>19, <2>20 DEF ConfIs, m, hits, neg
  <2>22. QED
    BY <2>21 DEF rows, js
<1>9. QED
  BY <1>6, <1>7, <1>8

\* The rows of all the images, and the places counted for them
ConfRows(p, images, matches, negs) ==
  FlattenSeq([i \in 1..Len(images) |-> EncodeConfPrediction(p, images, matches, negs, i)])

CountedRow(p, images, matches, negs, i) ==
  LET js == Counted(p, images, matches, negs, i) IN [k \in DOMAIN js |-> << i, js[k] >>]

CountedAll(p, images, matches, negs) ==
  FlattenSeq([i \in 1..Len(images) |-> CountedRow(p, images, matches, negs, i)])

\* The places counted are those of the rows, in their order, and no two are the same
CountsRows(rows, order) ==
  /\ Len(rows) \in Nat /\ DOMAIN rows = 1..Len(rows) /\ Len(order) = Len(rows) /\ DOMAIN order = 1..Len(rows)
  /\ \A q \in 1..Len(rows) : order[q] = << rows[q][1], rows[q][2] >>
  /\ \A q, r \in 1..Len(rows) : order[q] = order[r] => q = r

Place == Nat \X Nat
PlaceKey == [x \in Place |-> x]

LEMMA ConfAllIs ==
  ASSUME param \in Parameters, NEW images, NEW matches, NEW negs, AreMined(images, matches, negs),
         Len(images) \in Nat
  PROVE  /\ CountsRows(ConfRows(param, images, matches, negs), CountedAll(param, images, matches, negs))
         /\ Len(ConfRows(param, images, matches, negs)) =
               Total([i \in 1..Len(images) |-> Len(Counted(param, images, matches, negs, i))])
<1> DEFINE num == Len(images)
           part(i) == EncodeConfPrediction(param, images, matches, negs, i)
           js(i) == Counted(param, images, matches, negs, i)
           count(i) == CountedRow(param, images, matches, negs, i)
           S == UNION {ToSet(part(i)) : i \in 1..num}
           rows == [i \in 1..num |-> part(i)]
           counts == [i \in 1..num |-> count(i)]
           all == FlattenSeq(rows)
           order == FlattenSeq(counts)
<1>1. ASSUME NEW i \in 1..num
      PROVE  /\ js(i) \in Seq(Nat) /\ part(i) \in Seq(ToSet(part(i))) /\ Len(part(i)) = Len(js(i))
             /\ \A k \in 1..Len(js(i)) : part(i)[k][1] = i /\ part(i)[k][2] = js(i)[k]
             /\ \A k, l \in 1..Len(js(i)) : js(i)[k] = js(i)[l] => k = l
  <2>1. ConfIs(images, matches, negs, i, part(i), js(i))
    BY EncodeIs
  <2> HIDE DEF part, js
  <2>2. QED
    BY <2>1 DEF ConfIs
<1>2. \A i \in 1..num : count(i) = [k \in DOMAIN js(i) |-> << i, js(i)[k] >>]
  BY DEF CountedRow
<1> HIDE DEF part, js, count
<1>3. ASSUME NEW i \in 1..num
      PROVE  /\ DOMAIN js(i) = 1..Len(js(i)) /\ Len(js(i)) \in Nat
             /\ count(i) \in Seq(Place) /\ Len(count(i)) = Len(js(i))
             /\ \A k \in 1..Len(js(i)) : count(i)[k] = << i, js(i)[k] >>
  <2>1. DOMAIN js(i) = 1..Len(js(i)) /\ Len(js(i)) \in Nat
    BY <1>1, LenProperties
  <2>2. \A k \in 1..Len(js(i)) : js(i)[k] \in Nat
    BY <1>1, ElementOfSeq
  <2>3. \A k \in 1..Len(js(i)) : << i, js(i)[k] >> \in Place
    BY <2>2 DEF Place
  <2>4. count(i) = [k \in 1..Len(js(i)) |-> << i, js(i)[k] >>]
    BY <1>2, <2>1
  <2>5. count(i) \in Seq(Place) /\ DOMAIN count(i) = 1..Len(js(i))
    BY <2>1, <2>3, <2>4, IsASeq
  <2>6. Len(count(i)) = Len(js(i))
    BY <2>1, <2>5, LenProperties
  <2>7. QED
    BY <2>1, <2>4, <2>5, <2>6
<1>4. rows \in [1..num -> Seq(S)] /\ \A i \in 1..num : rows[i] = part(i)
  <2>1. ASSUME NEW i \in 1..num PROVE part(i) \in Seq(S)
    <3>1. ToSet(part(i)) \subseteq S
      OBVIOUS
    <3> HIDE DEF S
    <3>2. QED
      BY <1>1, <3>1, SeqMonotonic
  <2> HIDE DEF S
  <2>2. QED
    BY <2>1
<1>5. counts \in [1..num -> Seq(Place)] /\ \A i \in 1..num : counts[i] = count(i)
  BY <1>3
<1> HIDE DEF S, rows, counts
<1> DEFINE lens == [i \in 1..num |-> Len(js(i))]
           sum == Sums(lens)
<1>6. Lens(num, rows) = lens /\ Lens(num, counts) = lens
  BY <1>1, <1>3, <1>4, <1>5 DEF Lens
<1> HIDE DEF lens
<1>7. /\ all \in Seq(S) /\ Len(all) = Total(lens)
      /\ \A k \in 1..num : \A i \in 1..Len(rows[k]) :
            sum[k - 1] + i \in 1..Len(all) /\ all[sum[k - 1] + i] = rows[k][i]
      /\ \A q \in 1..Len(all) : \E k \in 1..num : \E i \in 1..Len(rows[k]) : q = sum[k - 1] + i
  <2>1. IsWhole(S, num, rows, all)
    BY <1>4, FlatIs, Zenon
  <2> HIDE DEF all
  <2>2. QED
    BY <1>6, <2>1 DEF IsWhole
<1>8. /\ order \in Seq(Place) /\ Len(order) = Total(lens)
      /\ \A k \in 1..num : \A i \in 1..Len(counts[k]) : order[sum[k - 1] + i] = counts[k][i]
  <2>1. IsWhole(Place, num, counts, order)
    BY <1>5, FlatIs, Zenon
  <2> HIDE DEF order
  <2>2. QED
    BY <1>6, <2>1 DEF IsWhole
<1>9. PartsApart(PlaceKey, num, counts)
  <2>1. SUFFICES ASSUME NEW i \in 1..num, NEW j \in 1..num, NEW k \in 1..Len(counts[i]), NEW l \in 1..Len(counts[j]),
                        PlaceKey[counts[i][k]] = PlaceKey[counts[j][l]]
                 PROVE  i = j /\ k = l
    BY DEF PartsApart
  <2>2. /\ counts[i][k] = << i, js(i)[k] >> /\ counts[j][l] = << j, js(j)[l] >>
        /\ k \in 1..Len(js(i)) /\ l \in 1..Len(js(j))
    BY <1>3, <1>5
  <2>3. counts[i][k] \in Place /\ counts[j][l] \in Place
    BY <1>3, <1>5, ElementOfSeq
  <2>4. counts[i][k] = counts[j][l]
    BY <2>1, <2>3 DEF PlaceKey
  <2>5. i = j /\ js(i)[k] = js(j)[l]
    BY <2>2, <2>4
  <2>6. QED
    BY <1>1, <2>2, <2>5
<1>10. Apart(PlaceKey, order)
  BY <1>5, <1>9, FlatApart, Zenon
<1> HIDE DEF all, order, sum
<1>11. Len(all) \in Nat /\ DOMAIN all = 1..Len(all) /\ Len(order) = Len(all) /\ DOMAIN order = 1..Len(all)
  BY <1>7, <1>8, LenProperties
<1>12. ASSUME NEW q \in 1..Len(all) PROVE order[q] = << all[q][1], all[q][2] >>
  <2>1. PICK k \in 1..num : \E i \in 1..Len(rows[k]) : q = sum[k - 1] + i
    BY <1>7
  <2>2. PICK i \in 1..Len(rows[k]) : q = sum[k - 1] + i
    BY <2>1
  <2>3. i \in 1..Len(js(k)) /\ i \in 1..Len(counts[k])
    BY <1>1, <1>3, <1>4, <1>5, <2>2
  <2>4. all[q] = part(k)[i] /\ order[q] = count(k)[i]
    BY <1>4, <1>5, <1>7, <1>8, <2>2, <2>3
  <2>5. QED
    BY <1>1, <1>3, <2>3, <2>4
<1>13. ASSUME NEW q \in 1..Len(all), NEW r \in 1..Len(all), order[q] = order[r] PROVE q = r
  BY <1>10, <1>11, <1>13 DEF Apart
<1>14. CountsRows(all, order)
  BY <1>11, <1>12, <1>13 DEF CountsRows
<1>15. all = ConfRows(param, images, matches, negs) /\ order = CountedAll(param, images, matches, negs)
  BY DEF all, order, rows, counts, part, count, ConfRows, CountedAll
<1>16. lens = [i \in 1..num |-> Len(Counted(param, images, matches, negs, i))]
  BY DEF lens, js
<1>17. QED
  BY <1>7, <1>14, <1>15, <1>16

\* What Forward leaves: a row for each match and each place that counts
Filled(p, images, matches, negs, num_matches, loc_pred, num_conf, conf_pred) ==
  /\ num_matches = Len(AllMatched(matches, Len(images)))
  /\ num_matches >= 1 => loc_pred = AllMatched(matches, Len(images))
  /\ num_conf = Len(ConfRows(p, images, matches, negs))
  /\ num_conf >= 1 => conf_pred = ConfRows(p, images, matches, negs)

\* The numbers of rows, as Forward adds them up
RowsCount(images, kept, matches, negs) ==
  LET num == Len(images)
      matched == Len(AllMatched(matches, num))
  IN  /\ matched \in Nat
      /\ matched = Len(AllMatched(kept, num)) - Total([i \in 1..num |-> MinedOf(param, images[i]).dropped])
      /\ Len(ConfRows(param, images, matches, negs)) =
           IF DoNegMining THEN matched + Total([i \in 1..num |-> Len(MinedOf(param, images[i]).negs)])
           ELSE Total([i \in 1..num |-> Len(images[i].overlap)])

LEMMA RowsAre ==
  ASSUME param \in Parameters, NEW images, Len(images) \in Nat, \A i \in 1..Len(images) : IsImage(images[i]),
         NEW kept, \A i \in 1..Len(images) : kept[i] = FindMatches(param, images[i]).indices,
         NEW matches, \A i \in 1..Len(images) : matches[i] = MinedOf(param, images[i]).indices,
         NEW negs, DoNegMining => \A i \in 1..Len(images) : negs[i] = MinedOf(param, images[i]).negs
  PROVE  RowsCount(images, kept, matches, negs)
<1> DEFINE num == Len(images)
           size == [i \in 1..num |-> Len(images[i].overlap)]
           before == [i \in 1..num |-> Len(Matched(kept, i))]
           after == [i \in 1..num |-> Len(Matched(matches, i))]
           dropped == [i \in 1..num |-> MinedOf(param, images[i]).dropped]
           taken == [i \in 1..num |-> Len(MinedOf(param, images[i]).negs)]
           count == [i \in 1..num |-> Len(Counted(param, images, matches, negs, i))]
           rows == ConfRows(param, images, matches, negs)
<1>1. ASSUME NEW i \in 1..num
      PROVE  /\ Len(images[i].overlap) \in Nat
             /\ AreMatches(kept[i], Len(images[i].overlap)) /\ AreMatches(matches[i], Len(images[i].overlap))
  <2>1. /\ AreMatches(FindMatches(param, images[i]).indices, Len(images[i].overlap))
        /\ Len(images[i].overlap) \in Nat
    BY FoundAre
  <2>2. AreMatches(MinedOf(param, images[i]).indices, Len(images[i].overlap))
    BY MinedAre
  <2>3. QED
    BY <2>1, <2>2
<1>2. size \in [1..num -> Nat] /\ \A i \in 1..num : AreMatches(kept[i], size[i]) /\ AreMatches(matches[i], size[i])
  BY <1>1
<1>3. Len(AllMatched(kept, num)) = Total(before) /\ before \in [1..num -> Nat]
  <2> HIDE DEF size
  <2>1. QED
    BY <1>2, AllMatchedIs
<1>4. Len(AllMatched(matches, num)) = Total(after) /\ after \in [1..num -> Nat]
  <2> HIDE DEF size
  <2>1. QED
    BY <1>2, AllMatchedIs
<1>5. ASSUME NEW i \in 1..num PROVE dropped[i] \in Nat /\ before[i] = after[i] + dropped[i]
  <2>1. /\ MinedOf(param, images[i]).dropped \in Nat
        /\ Len(Matched(kept, i)) = Len(Matched(matches, i)) + MinedOf(param, images[i]).dropped
    BY CountIs
  <2>2. QED
    BY <2>1
<1>6. dropped \in [1..num -> Nat]
  <2>1. \A i \in 1..num : MinedOf(param, images[i]).dropped \in Nat
    BY <1>5
  <2>2. QED
    BY <2>1
<1>7. AreMined(images, matches, negs)
  BY DEF AreMined
<1>8. CountsRows(rows, CountedAll(param, images, matches, negs)) /\ Len(rows) = Total(count)
  BY <1>7, ConfAllIs
<1>9. ASSUME NEW i \in 1..num
      PROVE  count[i] \in Nat /\ count[i] = IF DoNegMining THEN after[i] + taken[i] ELSE size[i]
  <2>1. ConfIs(images, matches, negs, i, EncodeConfPrediction(param, images, matches, negs, i),
               Counted(param, images, matches, negs, i))
    BY <1>7, EncodeIs
  <2>2. Counted(param, images, matches, negs, i) \in Seq(Nat)
    BY <2>1 DEF ConfIs
  <2>3. Len(Counted(param, images, matches, negs, i)) \in Nat
    BY <2>2, LenProperties
  <2>4. Len(Counted(param, images, matches, negs, i)) =
          IF DoNegMining THEN Len(Matched(matches, i)) + Len(negs[i]) ELSE Len(images[i].overlap)
    BY <2>1 DEF ConfIs
  <2>5. QED
    BY <2>3, <2>4
<1>10. count \in [1..num -> Nat]
  <2>1. \A i \in 1..num : Len(Counted(param, images, matches, negs, i)) \in Nat
    BY <1>9
  <2>2. QED
    BY <2>1
<1>11. ASSUME DoNegMining PROVE taken \in [1..num -> Nat]
  <2>1. ASSUME NEW i \in 1..num PROVE Len(MinedOf(param, images[i]).negs) \in Nat
    <3>1. /\ images[i].gt = << >> => MinedOf(param, images[i]).negs = << >>
          /\ images[i].gt # << >> => MinedOf(param, images[i]).negs \in Seq(1..Len(images[i].overlap))
      BY <1>11, MinedAre
    <3>2. CASE images[i].gt = << >>
      BY <3>1, <3>2
    <3>3. CASE images[i].gt # << >>
      BY <3>1, <3>3, LenProperties
    <3>4. QED
      BY <3>2, <3>3
  <2>2. QED
    BY <2>1
<1> HIDE DEF size, before, after, dropped, taken, count, rows
<1>12. Total(after) \in Nat /\ Total(dropped) \in Nat /\ Total(before) = Total(after) + Total(dropped)
  BY <1>3, <1>4, <1>5, <1>6, SumsAdd
<1>13. Len(rows) = IF DoNegMining THEN Total(after) + Total(taken) ELSE Total(size)
  <2>1. CASE DoNegMining
    <3>1. \A i \in 1..num : count[i] = after[i] + taken[i]
      BY <1>9, <2>1
    <3>2. Total(count) = Total(after) + Total(taken)
      BY <1>4, <1>10, <1>11, <2>1, <3>1, SumsAdd
    <3>3. QED
      BY <1>8, <2>1, <3>2
  <2>2. CASE ~DoNegMining
    <3>1. \A i \in 1..num : count[i] = size[i]
      BY <1>9, <2>2
    <3>2. count = size
      BY <1>2, <1>10, <3>1
    <3>3. QED
      BY <1>8, <2>2, <3>2
  <2>3. QED
    BY <2>1, <2>2
<1>14. Total(after) = Total(before) - Total(dropped)
  BY <1>12
<1>15. QED
  BY <1>3, <1>4, <1>12, <1>13, <1>14 DEF RowsCount, rows, size, dropped, taken

\* Between a Forward and the Backward that follows it the rows are those of the
\* matches and the negatives the layer has.
RowsInv ==
  /\ LossInv
  /\ all_match_indices_ # << >> =>
        Filled(param, batch, all_match_indices_, all_neg_indices_, num_matches_, loc_pred_, num_conf_, conf_pred_)

LEMMA RowsForward ==
  ASSUME MayRepeat = FALSE, LossInv, NEW images, images \in Seq(ToSet(images)), Forward(images), LossInv'
  PROVE  all_match_indices_' # << >> =>
           Filled(param', batch', all_match_indices_', all_neg_indices_', num_matches_', loc_pred_', num_conf_', conf_pred_')
<1> DEFINE num == Len(images)
           matches == all_match_indices_'
           negs == all_neg_indices_'
<1>1. SUFFICES ASSUME matches # << >>
               PROVE  Filled(param, images, matches, negs, num_matches_', loc_pred_', num_conf_', conf_pred_')
  BY ForwardPacks
<1>2. PICK kept, mined :
        /\ kept = [i \in 1..num |-> FindMatches(param, images[i]).indices]
        /\ mined = [i \in 1..num |-> MinedOf(param, images[i])]
        /\ Pack(images, kept, mined)
        /\ all_neg_indices_ = << >> /\ batch' = images /\ param' = param
  BY ForwardPacks
<1>3. /\ matches = [i \in 1..num |-> MinedOf(param, images[i]).indices]
      /\ DoNegMining => negs = [i \in 1..num |-> MinedOf(param, images[i]).negs]
      /\ \A i \in 1..num : IsImage(images[i])
      /\ param \in Parameters /\ num \in Nat
  <2>1. DoNegMining' = DoNegMining
    BY <1>2 DEF DoNegMining
  <2>2. DOMAIN images = 1..num
    OBVIOUS
  <2>3. /\ all_match_indices_' = [i \in 1..Len(batch') |-> MinedOf(param', batch'[i]).indices]
        /\ DoNegMining' => all_neg_indices_' = [i \in 1..Len(batch') |-> MinedOf(param', batch'[i]).negs]
    <3> HIDE DEF negs
    <3>1. QED
      BY <1>1 DEF LossInv
  <2>4. batch' = images /\ param' = param
    BY <1>2
  <2>5. (\A i \in DOMAIN batch' : IsImage(batch'[i])) /\ param' \in Parameters
    BY DEF LossInv, PassesInv
  <2>6. matches = [i \in 1..num |-> MinedOf(param, images[i]).indices]
    BY <2>3, <2>4
  <2>7. DoNegMining => negs = [i \in 1..num |-> MinedOf(param, images[i]).negs]
    BY <2>1, <2>3, <2>4
  <2>8. QED
    BY <2>2, <2>4, <2>5, <2>6, <2>7
<1> DEFINE dropped == [i \in 1..num |-> MinedOf(param, images[i]).dropped]
           taken == [i \in 1..num |-> Len(MinedOf(param, images[i]).negs)]
           size == [i \in 1..num |-> Len(images[i].overlap)]
           all == AllMatched(matches, num)
           rows == ConfRows(param, images, matches, negs)
<1>4. \A i \in 1..num : /\ mined[i] = MinedOf(param, images[i])
                        /\ kept[i] = FindMatches(param, images[i]).indices
                        /\ matches[i] = MinedOf(param, images[i]).indices
                        /\ DoNegMining => negs[i] = MinedOf(param, images[i]).negs
  BY <1>2, <1>3
<1>5. /\ Len(all) \in Nat /\ Len(all) = Len(AllMatched(kept, num)) - Total(dropped)
      /\ Len(rows) = IF DoNegMining THEN Len(all) + Total(taken) ELSE Total(size)
  <2> HIDE DEF matches, negs
  <2>1. \A i \in 1..num : kept[i] = FindMatches(param, images[i]).indices
    BY <1>4
  <2>2. \A i \in 1..num : matches[i] = MinedOf(param, images[i]).indices
    BY <1>4
  <2>3. DoNegMining => \A i \in 1..num : negs[i] = MinedOf(param, images[i]).negs
    BY <1>4
  <2>4. RowsCount(images, kept, matches, negs)
    <3>1. num \in Nat /\ param \in Parameters /\ \A i \in 1..num : IsImage(images[i])
      BY <1>3
    <3>2. QED
      BY <2>1, <2>2, <2>3, <3>1, RowsAre, Zenon
  <2>5. QED
    BY <2>4 DEF RowsCount
<1>6. [i \in 1..num |-> mined[i].dropped] = dropped /\ [i \in 1..num |-> Len(mined[i].negs)] = taken
  BY <1>4
<1>7. /\ num_matches_' = Len(AllMatched(kept, num)) - Total(dropped)
      /\ num_conf_' = IF DoNegMining THEN num_matches_' + Total(taken) ELSE Total(size)
      /\ loc_pred_' = IF num_matches_' >= 1 THEN all ELSE loc_pred_
      /\ conf_pred_' = IF num_conf_' >= 1 THEN rows ELSE conf_pred_
  <2> HIDE DEF dropped, taken
  <2>1. Pack(images, kept, mined)
    BY <1>2
  <2>2. QED
    BY <1>6, <2>1 DEF Pack, CountNumMatches, ConfRows
<1> HIDE DEF dropped, taken, size, all, rows, matches, negs
<1>8. num_matches_' = Len(all) /\ num_conf_' = Len(rows)
  BY <1>5, <1>7
<1>9. QED
  BY <1>7, <1>8 DEF Filled, all, rows

LEMMA RowsNext == ASSUME MayRepeat = FALSE PROVE RowsInv /\ [Next]_vars => RowsInv'
<1> SUFFICES ASSUME RowsInv, [Next]_vars PROVE RowsInv'
  OBVIOUS
<1>1. LossInv /\ LossInv'
  BY LossNext DEF RowsInv
<1>2. ASSUME passes < Len(Batches), NEW images \in Batches[passes + 1], Forward(images) PROVE RowsInv'
  <2>1. passes + 1 \in DOMAIN Batches
    BY <1>1, <1>2, MultiBoxAssumption DEF LossInv, PassesInv
  <2>2. images \in Seq(ToSet(images))
    BY <1>2, <2>1, MultiBoxAssumption
  <2>3. QED
    BY <1>1, <1>2, <2>2, RowsForward DEF RowsInv
<1>3. CASE Backward
  BY <1>1, <1>3 DEF Backward, RowsInv
<1>4. CASE UNCHANGED vars
  BY <1>1, <1>4 DEF vars, RowsInv
<1>5. QED
  BY <1>2, <1>3, <1>4 DEF Next

LEMMA RowsInvariant == ASSUME MayRepeat = FALSE PROVE Spec => []RowsInv
<1>1. Init => RowsInv
  BY DEF Init, RowsInv, LossInv, PassesInv
<1>2. QED
  BY <1>1, RowsNext, PTL DEF Spec

\* Where each of n different places is found
Home(n, place) == [q \in {place[k] : k \in 1..n} |-> CHOOSE k \in 1..n : place[k] = q]

LEMMA HomeIs ==
  ASSUME NEW n \in Nat, NEW place, \A k, l \in 1..n : place[k] = place[l] => k = l
  PROVE  /\ {Home(n, place)[q] : q \in DOMAIN Home(n, place)} = 1..n
         /\ \A q \in DOMAIN Home(n, place) : Home(n, place)[q] \in 1..n /\ place[Home(n, place)[q]] = q
<1> DEFINE home == Home(n, place)
           Q == {place[k] : k \in 1..n}
<1>1. DOMAIN home = Q /\ \A q \in Q : home[q] = CHOOSE k \in 1..n : place[k] = q
  BY DEF Home
<1> HIDE DEF home
<1>2. ASSUME NEW q \in Q PROVE home[q] \in 1..n /\ place[home[q]] = q
  <2>1. \E k \in 1..n : place[k] = q
    OBVIOUS
  <2>2. QED
    BY <1>1, <2>1
<1>3. \A k \in 1..n : place[k] \in Q /\ home[place[k]] = k
  <2>1. SUFFICES ASSUME NEW k \in 1..n PROVE place[k] \in Q /\ home[place[k]] = k
    OBVIOUS
  <2>2. place[k] \in Q
    OBVIOUS
  <2>3. home[place[k]] \in 1..n /\ place[home[place[k]]] = place[k]
    BY <1>2, <2>2
  <2>4. QED
    BY <2>2, <2>3
<1> HIDE DEF Q
<1>4. \A k \in 1..n : k \in {home[q] : q \in DOMAIN home}
  BY <1>1, <1>3
<1>5. QED
  BY <1>1, <1>2, <1>4 DEF home

LEMMA LocHome ==
  ASSUME NEW num \in Nat, NEW size \in [1..num -> Nat],
         \A i \in 1..num : AreMatches(all_match_indices_[i], size[i])
  PROVE  LET order == AllMatched(all_match_indices_, num)
         IN  /\ {LocDiff(num)[q] : q \in DOMAIN LocDiff(num)} = DOMAIN order
             /\ \A q \in DOMAIN LocDiff(num) :
                   LET r == order[LocDiff(num)[q]] IN q = << r[1], r[2], r[3] >>
<1> DEFINE order == AllMatched(all_match_indices_, num)
           n == Len(order)
           place == [k \in 1..n |-> << order[k][1], order[k][2], order[k][3] >>]
           home == Home(n, place)
<1>1. order \in Seq(MatchRow) /\ Apart(KeyOf, order)
  BY AllMatchedIs
<1> HIDE DEF order
<1>2. n \in Nat /\ DOMAIN order = 1..n /\ \A k \in 1..n : order[k] \in MatchRow
  <2>1. n \in Nat /\ DOMAIN order = 1..n
    BY <1>1, LenProperties
  <2>2. \A k \in 1..n : order[k] \in MatchRow
    BY <1>1, ElementOfSeq
  <2>3. QED
    BY <2>1, <2>2
<1>3. \A k \in 1..n : KeyOf[order[k]] = place[k]
  BY <1>2 DEF KeyOf
<1>4. \A k, l \in 1..n : place[k] = place[l] => k = l
  <2> HIDE DEF place, n
  <2>1. \A k, l \in 1..n : KeyOf[order[k]] = KeyOf[order[l]] => k = l
    BY <1>1 DEF Apart, n
  <2>2. QED
    BY <1>3, <2>1
<1>5. LocDiff(num) = home
  <2>1. {<< r[1], r[2], r[3] >> : r \in ToSet(order)} = {place[k] : k \in 1..n}
    BY <1>2 DEF ToSet
  <2>2. \A q : (CHOOSE k \in DOMAIN order : << order[k][1], order[k][2], order[k][3] >> = q)
                 = (CHOOSE k \in 1..n : place[k] = q)
    BY <1>2
  <2>3. LocDiff(num) = [q \in {<< r[1], r[2], r[3] >> : r \in ToSet(order)} |->
                          CHOOSE k \in DOMAIN order : << order[k][1], order[k][2], order[k][3] >> = q]
    BY DEF LocDiff, order
  <2> DEFINE first(q) == CHOOSE k \in DOMAIN order : << order[k][1], order[k][2], order[k][3] >> = q
             found(q) == CHOOSE k \in 1..n : place[k] = q
             Q == {place[k] : k \in 1..n}
  <2>4. home = [q \in Q |-> found(q)]
    BY DEF Home
  <2>5. LocDiff(num) = [q \in Q |-> first(q)]
    <3> HIDE DEF first, Q
    <3>1. QED
      BY <2>1, <2>3 DEF first, Q
  <2>6. \A q : first(q) = found(q)
    BY <2>2
  <2> HIDE DEF first, found, Q, home
  <2>7. QED
    BY <2>4, <2>5, <2>6
<1>6. /\ {home[q] : q \in DOMAIN home} = 1..n
      /\ \A q \in DOMAIN home : home[q] \in 1..n /\ place[home[q]] = q
  <2> HIDE DEF place, n
  <2>1. QED
    BY <1>2, <1>4, HomeIs
<1> HIDE DEF home
<1>7. \A q \in DOMAIN home : q = << order[home[q]][1], order[home[q]][2], order[home[q]][3] >>
  BY <1>6
<1>8. QED
  BY <1>2, <1>5, <1>6, <1>7 DEF order

LEMMA ConfHome ==
  ASSUME NEW rows, CountsRows(rows, CountedAll(param, batch, all_match_indices_, all_neg_indices_))
  PROVE  /\ {ConfDiff(Len(batch))[q] : q \in DOMAIN ConfDiff(Len(batch))} = DOMAIN rows
         /\ \A q \in DOMAIN ConfDiff(Len(batch)) :
               LET r == rows[ConfDiff(Len(batch))[q]] IN q = << r[1], r[2] >>
<1> DEFINE num == Len(batch)
           order == CountedAll(param, batch, all_match_indices_, all_neg_indices_)
           n == Len(rows)
           home == Home(n, order)
<1>1. /\ n \in Nat /\ DOMAIN rows = 1..n /\ Len(order) = n /\ DOMAIN order = 1..n
      /\ \A q \in 1..n : order[q] = << rows[q][1], rows[q][2] >>
      /\ \A q, r \in 1..n : order[q] = order[r] => q = r
  <2> HIDE DEF order
  <2>1. CountsRows(rows, order)
    BY DEF order
  <2>2. QED
    BY <2>1 DEF CountsRows
<1>2. ConfDiff(num) = [q \in ToSet(order) |-> CHOOSE k \in DOMAIN order : order[k] = q]
  BY DEF ConfDiff, CountedAll, CountedRow, Counted, ConfOrder, DoNegMining
<1> HIDE DEF order, n
<1>3. ConfDiff(num) = home
  <2>1. ToSet(order) = {order[k] : k \in 1..n}
    BY <1>1 DEF ToSet
  <2>2. QED
    BY <1>1, <1>2, <2>1 DEF Home
<1>4. /\ {home[q] : q \in DOMAIN home} = 1..n
      /\ \A q \in DOMAIN home : home[q] \in 1..n /\ order[home[q]] = q
  BY <1>1, HomeIs
<1> HIDE DEF home
<1>5. \A q \in DOMAIN home : q = << rows[home[q]][1], rows[home[q]][2] >>
  BY <1>1, <1>4
<1>6. {home[q] : q \in DOMAIN home} = DOMAIN rows
  BY <1>1, <1>4
<1>7. QED
  BY <1>3, <1>5, <1>6

\* The gradients go home: for any batches, any matches of any labels and any
\* mining, Forward fills as many rows as it made room for, Backward, which counts
\* once more, gives every one of them to a place, no two to the same, and each to
\* the image, the label and the prior it was taken from
\* (multibox_loss_layer.cpp:182-239, :270-365).  A Backward comes between two
\* Forwards: the rows are those of older matches otherwise.
THEOREM GradientsReturn == ASSUME MayRepeat = FALSE PROVE Spec => GradientsGoHome
<1>1. ASSUME RowsInv, Backward
      PROVE  /\ num_matches_ >= 1 =>
                   /\ Len(loc_pred_) = num_matches_
                   /\ {diff'.loc[q] : q \in DOMAIN diff'.loc} = DOMAIN loc_pred_
                   /\ \A q \in DOMAIN diff'.loc : LET r == loc_pred_[diff'.loc[q]] IN q = << r[1], r[2], r[3] >>
             /\ num_conf_ >= 1 =>
                   /\ Len(conf_pred_) = num_conf_
                   /\ {diff'.conf[q] : q \in DOMAIN diff'.conf} = DOMAIN conf_pred_
                   /\ \A q \in DOMAIN diff'.conf : LET r == conf_pred_[diff'.conf[q]] IN q = << r[1], r[2] >>
  <2> DEFINE num == Len(batch)
             matches == all_match_indices_
             negs == all_neg_indices_
             all == AllMatched(matches, num)
             rows == ConfRows(param, batch, matches, negs)
  <2>1. /\ num_matches_ = Len(all) /\ (num_matches_ >= 1 => loc_pred_ = all)
        /\ num_conf_ = Len(rows) /\ (num_conf_ >= 1 => conf_pred_ = rows)
    BY <1>1 DEF RowsInv, Filled, Backward
  <2>2. /\ param \in Parameters /\ num \in Nat /\ \A i \in 1..num : IsImage(batch[i])
        /\ \A i \in 1..num : matches[i] = MinedOf(param, batch[i]).indices
        /\ DoNegMining => \A i \in 1..num : negs[i] = MinedOf(param, batch[i]).negs
    <3>1. /\ batch \in Seq(ToSet(batch)) /\ matches = [i \in 1..num |-> MinedOf(param, batch[i]).indices]
          /\ negs = IF DoNegMining THEN [i \in 1..num |-> MinedOf(param, batch[i]).negs] ELSE << >>
      BY <1>1 DEF RowsInv, LossInv, Backward
    <3>2. param \in Parameters /\ \A i \in DOMAIN batch : IsImage(batch[i])
      BY <1>1 DEF RowsInv, LossInv, PassesInv
    <3>3. DOMAIN batch = 1..num /\ num \in Nat
      BY <3>1, LenProperties
    <3>4. QED
      BY <3>1, <3>2, <3>3
  <2>3. AreMined(batch, matches, negs)
    BY <2>2 DEF AreMined
  <2>4. CountsRows(rows, CountedAll(param, batch, matches, negs))
    BY <2>2, <2>3, ConfAllIs
  <2>5. /\ {LocDiff(num)[q] : q \in DOMAIN LocDiff(num)} = DOMAIN all
        /\ \A q \in DOMAIN LocDiff(num) : LET r == all[LocDiff(num)[q]] IN q = << r[1], r[2], r[3] >>
    <3> DEFINE size == [i \in 1..num |-> Len(batch[i].overlap)]
    <3>1. ASSUME NEW i \in 1..num PROVE AreMatches(matches[i], Len(batch[i].overlap)) /\ Len(batch[i].overlap) \in Nat
      BY <2>2, FoundAre, MinedAre
    <3>2. size \in [1..num -> Nat] /\ \A i \in 1..num : AreMatches(matches[i], size[i])
      BY <3>1
    <3> HIDE DEF size
    <3>3. QED
      BY <2>2, <3>2, LocHome
  <2>6. /\ {ConfDiff(num)[q] : q \in DOMAIN ConfDiff(num)} = DOMAIN rows
        /\ \A q \in DOMAIN ConfDiff(num) : LET r == rows[ConfDiff(num)[q]] IN q = << r[1], r[2] >>
    <3> HIDE DEF rows
    <3>1. QED
      BY <2>4, ConfHome
  <2> HIDE DEF num, matches, negs, all, rows
  <2>7. /\ num_matches_ >= 1 => diff'.loc = LocDiff(num)
        /\ num_conf_ >= 1 => diff'.conf = ConfDiff(num)
    BY <1>1 DEF Backward, num
  <2> DEFINE loc == diff'.loc
             conf == diff'.conf
  <2> HIDE DEF loc, conf
  <2>8. ASSUME num_matches_ >= 1
        PROVE  /\ Len(loc_pred_) = num_matches_
               /\ {loc[q] : q \in DOMAIN loc} = DOMAIN loc_pred_
               /\ \A q \in DOMAIN loc : LET r == loc_pred_[loc[q]] IN q = << r[1], r[2], r[3] >>
    <3>1. loc = LocDiff(num) /\ loc_pred_ = all /\ num_matches_ = Len(all)
      BY <2>1, <2>7, <2>8 DEF loc
    <3>2. QED
      BY <2>5, <3>1, Zenon
  <2>9. ASSUME num_conf_ >= 1
        PROVE  /\ Len(conf_pred_) = num_conf_
               /\ {conf[q] : q \in DOMAIN conf} = DOMAIN conf_pred_
               /\ \A q \in DOMAIN conf : LET r == conf_pred_[conf[q]] IN q = << r[1], r[2] >>
    <3>1. conf = ConfDiff(num) /\ conf_pred_ = rows /\ num_conf_ = Len(rows)
      BY <2>1, <2>7, <2>9 DEF conf
    <3>2. QED
      BY <2>6, <3>1, Zenon
  <2>10. QED
    BY <2>8, <2>9 DEF loc, conf
<1>2. RowsInv /\ [Next]_vars =>
        [ Backward =>
            /\ num_matches_ >= 1 =>
                  /\ Len(loc_pred_) = num_matches_
                  /\ {diff'.loc[q] : q \in DOMAIN diff'.loc} = DOMAIN loc_pred_
                  /\ \A q \in DOMAIN diff'.loc : LET r == loc_pred_[diff'.loc[q]] IN q = << r[1], r[2], r[3] >>
            /\ num_conf_ >= 1 =>
                  /\ Len(conf_pred_) = num_conf_
                  /\ {diff'.conf[q] : q \in DOMAIN diff'.conf} = DOMAIN conf_pred_
                  /\ \A q \in DOMAIN diff'.conf : LET r == conf_pred_[diff'.conf[q]] IN q = << r[1], r[2] >> ]_vars
  BY <1>1
<1>3. QED
  BY <1>2, RowsInvariant, PTL DEF Spec, GradientsGoHome

-----------------------------------------------------------------------------
(* Remainders *)

\* A number has one remainder
LEMMA RemainderIs ==
  ASSUME NEW n \in Nat \ {0}, NEW x \in Int, NEW q \in Int, NEW r \in 0..n - 1, x = n * q + r
  PROVE  x % n = r
<1> DEFINE a == x \div n
           b == x % n
<1>1. a \in Int /\ b \in 0..n - 1 /\ x = n * a + b
  BY Z3T(20)
<1> HIDE DEF a, b
<1>2. n * (a - q) = r - b
  <2>1. n * (a - q) = n * a - n * q
    BY <1>1, Z3T(20)
  <2>2. \A u, v \in Int : x = u + b /\ x = v + r => u - v = r - b
    BY <1>1
  <2>3. n * a \in Int /\ n * q \in Int
    BY <1>1, Z3T(20)
  <2>4. QED
    BY <1>1, <2>1, <2>2, <2>3
<1>3. \A d \in Int : d >= 1 => n * d >= n
  BY Z3T(20)
<1>4. \A d \in Int : d <= -1 => n * d <= -n
  BY Z3T(20)
<1>5. a - q \in Int /\ r - b < n /\ r - b > -n
  BY <1>1
<1>6. a - q = 0
  BY <1>2, <1>3, <1>4, <1>5
<1>7. r = b
  <2>1. n * 0 = 0
    BY Z3
  <2>2. QED
    BY <1>1, <1>2, <1>6, <2>1
<1>8. QED
  BY <1>7 DEF b

LEMMA RemainderOfLess ==
  ASSUME NEW n \in Nat \ {0}, NEW x \in 0..n - 1
  PROVE  x % n = x
<1>1. x = n * 0 + x /\ x \in Int
  OBVIOUS
<1>2. QED
  BY <1>1, RemainderIs

LEMMA RemainderOfSum ==
  ASSUME NEW n \in Nat \ {0}, NEW x \in Int, NEW y \in Int
  PROVE  ((x % n) + y) % n = (x + y) % n
<1> DEFINE a == x \div n
           b == x % n
           c == (b + y) \div n
           d == (b + y) % n
<1>1. a \in Int /\ b \in 0..n - 1 /\ x = n * a + b
  BY Z3T(20)
<1>2. c \in Int /\ d \in 0..n - 1 /\ b + y = n * c + d
  <2> HIDE DEF b
  <2>1. b + y \in Int
    BY <1>1
  <2>2. QED
    BY <2>1, Z3T(20)
<1> HIDE DEF a, b, c, d
<1>3. x + y = n * (a + c) + d
  <2>1. n * (a + c) = n * a + n * c
    BY <1>1, <1>2, Z3T(20)
  <2>2. n * a \in Int /\ n * c \in Int
    BY <1>1, <1>2, Z3T(20)
  <2>3. QED
    BY <1>1, <1>2, <2>1, <2>2
<1>4. (x + y) % n = d
  <2>1. a + c \in Int /\ x + y \in Int
    BY <1>1, <1>2
  <2>2. QED
    BY <1>2, <1>3, <2>1, RemainderIs
<1>5. QED
  BY <1>4 DEF d, b

-----------------------------------------------------------------------------
(* Detections from the best on *)

Above(image, es, e) == {d \in es : Score(image, d) > Score(image, e)}

\* es are finitely many with scores of their own
AreScored(image, es) ==
  /\ IsFiniteSet(es)
  /\ \A e \in es : Score(image, e) \in Nat
  /\ \A d, e \in es : Score(image, d) = Score(image, e) => d = e

LEMMA AboveIs ==
  ASSUME NEW image, NEW es, AreScored(image, es)
  PROVE  \A d, e \in es :
           /\ IsFiniteSet(Above(image, es, e)) /\ Cardinality(Above(image, es, e)) \in 0..Cardinality(es) - 1
           /\ Cardinality(Above(image, es, d)) < Cardinality(Above(image, es, e)) <=> Score(image, d) > Score(image, e)
<1>1. /\ \A e \in es : Score(image, e) \in Nat
      /\ \A d, e \in es : Score(image, d) = Score(image, e) => d = e
      /\ IsFiniteSet(es) /\ Cardinality(es) \in Nat
  BY FS_CardinalityType DEF AreScored
<1>2. ASSUME NEW e \in es
      PROVE  /\ IsFiniteSet(Above(image, es, e)) /\ Cardinality(Above(image, es, e)) \in Nat
             /\ Cardinality(Above(image, es, e)) <= Cardinality(es) - 1
  <2>1. Above(image, es, e) \subseteq es \ {e}
    BY <1>1 DEF Above
  <2>2. IsFiniteSet(es \ {e}) /\ Cardinality(es \ {e}) = Cardinality(es) - 1
    BY <1>1, FS_RemoveElement
  <2>3. QED
    BY <1>1, <2>1, <2>2, FS_Subset, FS_CardinalityType
<1>3. ASSUME NEW d \in es, NEW e \in es, Score(image, d) > Score(image, e)
      PROVE  Cardinality(Above(image, es, d)) < Cardinality(Above(image, es, e))
  <2> DEFINE A == Above(image, es, d)
             B == Above(image, es, e)
  <2>1. A \subseteq B \ {d} /\ d \in B
    BY <1>1, <1>3 DEF Above
  <2>2. IsFiniteSet(B) /\ Cardinality(B) \in Nat
    BY <1>2
  <2>3. IsFiniteSet(B \ {d}) /\ Cardinality(B \ {d}) = Cardinality(B) - 1
    BY <2>1, <2>2, FS_RemoveElement
  <2>4. Cardinality(A) <= Cardinality(B) - 1
    BY <2>1, <2>3, FS_Subset
  <2>5. Cardinality(A) \in Nat
    BY <1>2
  <2> HIDE DEF A, B
  <2>6. Cardinality(A) < Cardinality(B)
    BY <2>2, <2>4, <2>5
  <2>7. QED
    BY <2>6 DEF A, B
<1>4. ASSUME NEW d \in es, NEW e \in es
      PROVE  /\ Cardinality(Above(image, es, e)) \in 0..Cardinality(es) - 1
             /\ Cardinality(Above(image, es, d)) < Cardinality(Above(image, es, e)) <=> Score(image, d) > Score(image, e)
  <2> DEFINE x == Cardinality(Above(image, es, d))
             y == Cardinality(Above(image, es, e))
             u == Score(image, d)
             v == Score(image, e)
  <2>1. x \in Nat /\ y \in Nat /\ y <= Cardinality(es) - 1 /\ Cardinality(es) \in Nat /\ u \in Nat /\ v \in Nat
    BY <1>1, <1>2
  <2>2. (u > v => x < y) /\ (v > u => y < x)
    BY <1>3
  <2>3. u = v => x = y
    BY <1>1
  <2> HIDE DEF x, y, u, v
  <2>4. y \in 0..Cardinality(es) - 1 /\ (x < y <=> u > v)
    BY <2>1, <2>2, <2>3
  <2>5. QED
    BY <2>4 DEF x, y, u, v
<1>5. QED
  BY <1>2, <1>4

\* The k-th has k - 1 above it
LEMMA ByScoreIs ==
  ASSUME NEW image, NEW es, AreScored(image, es)
  PROVE  LET s == ByScore(image, es)
         IN  /\ s \in Seq(es) /\ Len(s) = Cardinality(es) /\ Cardinality(es) \in Nat
             /\ \A k \in 1..Len(s) : s[k] \in es /\ Cardinality(Above(image, es, s[k])) = k - 1
             /\ \A e \in es : \E k \in 1..Len(s) : s[k] = e
<1> DEFINE n == Cardinality(es)
           rank == [e \in es |-> Cardinality(Above(image, es, e))]
           s == ByScore(image, es)
<1>1. IsFiniteSet(es) /\ n \in Nat
  BY FS_CardinalityType DEF AreScored
<1>2. \A e \in es : rank[e] \in 0..n - 1
  BY AboveIs
<1>3. \A d, e \in es : rank[d] = rank[e] => d = e
  <2>1. SUFFICES ASSUME NEW d \in es, NEW e \in es, rank[d] = rank[e] PROVE d = e
    OBVIOUS
  <2>2. rank[d] \in Nat /\ rank[e] \in Nat /\ (rank[d] < rank[e] <=> Score(image, d) > Score(image, e))
        /\ (rank[e] < rank[d] <=> Score(image, e) > Score(image, d))
    BY <1>2, AboveIs
  <2>3. Score(image, d) \in Nat /\ Score(image, e) \in Nat
    BY DEF AreScored
  <2>4. Score(image, d) = Score(image, e)
    <3> HIDE DEF rank
    <3>1. QED
      BY <2>1, <2>2, <2>3
  <2>5. QED
    BY <2>4 DEF AreScored
<1>4. \A k \in 0..n - 1 : \E e \in es : rank[e] = k
  <2> DEFINE R == 0..n - 1
  <2>1. rank \in Injection(es, R)
    BY <1>2, <1>3 DEF Injection, IsInjective
  <2>2. IsFiniteSet(R) /\ Cardinality(R) = n
    BY <1>1, FS_Interval
  <2>3. rank \in Surjection(es, R)
    <3> HIDE DEF R, n, rank
    <3>1. QED
      BY <2>1, <2>2, FS_Injection DEF n
  <2>4. QED
    BY <2>3 DEF Surjection
<1>5. \A k \in 1..n : s[k] = CHOOSE e \in es : rank[e] = k - 1
  <2>1. \A k \in 1..n : s[k] = CHOOSE e \in es : Cardinality(Above(image, es, e)) = k - 1
    BY DEF ByScore, Above
  <2>2. ASSUME NEW k \in 1..n
        PROVE  (CHOOSE e \in es : Cardinality(Above(image, es, e)) = k - 1) = CHOOSE e \in es : rank[e] = k - 1
    OBVIOUS
  <2>3. QED
    BY <2>1, <2>2
<1>6. \A k \in 1..n : s[k] \in es /\ rank[s[k]] = k - 1
  <2>1. SUFFICES ASSUME NEW k \in 1..n PROVE s[k] \in es /\ rank[s[k]] = k - 1
    OBVIOUS
  <2>2. k - 1 \in 0..n - 1
    BY <1>1
  <2>3. \E e \in es : rank[e] = k - 1
    BY <1>4, <2>2
  <2> HIDE DEF rank, s
  <2>4. QED
    BY <1>5, <2>3
<1>7. s \in Seq(es) /\ Len(s) = n
  <2> DEFINE nth(k) == CHOOSE e \in es : Cardinality({d \in es : Score(image, d) > Score(image, e)}) = k - 1
  <2>0. s = [k \in 1..n |-> nth(k)]
    BY Zenon DEF ByScore
  <2> HIDE DEF s, n, nth
  <2>1. \A k \in 1..n : nth(k) \in es
    BY <1>6, <2>0
  <2>2. [k \in 1..n |-> nth(k)] \in Seq(es)
    BY <1>1, <2>1, IsASeq
  <2>3. s \in Seq(es) /\ DOMAIN s = 1..n
    BY <2>0, <2>2
  <2>4. QED
    BY <1>1, <2>3, LenProperties
<1>8. \A e \in es : \E k \in 1..n : s[k] = e
  <2>1. SUFFICES ASSUME NEW e \in es PROVE \E k \in 1..n : s[k] = e
    OBVIOUS
  <2> DEFINE k == rank[e] + 1
  <2>2. k \in 1..n /\ k - 1 = rank[e]
    BY <1>1, <1>2
  <2> HIDE DEF k, s
  <2>3. s[k] \in es /\ rank[s[k]] = rank[e]
    BY <1>6, <2>2
  <2>4. s[k] = e
    BY <1>3, <2>3
  <2>5. QED
    BY <2>2, <2>4
<1>9. QED
  BY <1>1, <1>6, <1>7, <1>8

\* No two places hold the same
Alone(s) == \A i, j \in 1..Len(s) : s[i] = s[j] => i = j

LEMMA ToSetIs ==
  ASSUME NEW S, NEW s \in Seq(S)
  PROVE  /\ ToSet(s) = {s[k] : k \in 1..Len(s)} /\ ToSet(s) \subseteq S /\ IsFiniteSet(ToSet(s))
         /\ s \in Seq(ToSet(s)) /\ Cardinality(ToSet(s)) <= Len(s)
         /\ Alone(s) => Cardinality(ToSet(s)) = Len(s)
<1>1. /\ Len(s) \in Nat /\ DOMAIN s = 1..Len(s) /\ s \in [1..Len(s) -> S]
  BY LenProperties
<1>2. ToSet(s) = {s[k] : k \in 1..Len(s)} /\ ToSet(s) \subseteq S
  BY <1>1 DEF ToSet
<1> DEFINE n == Len(s)
           I == 1..n
           T == ToSet(s)
<1>3. IsFiniteSet(I) /\ Cardinality(I) = n
  BY <1>1, FS_Interval
<1>4. s \in Surjection(I, T)
  BY <1>1, <1>2 DEF Surjection
<1>5. Alone(s) => s \in Injection(I, T)
  BY <1>1, <1>2 DEF Alone, Injection, IsInjective
<1>6. /\ IsFiniteSet(T) /\ Cardinality(T) <= n
      /\ s \in Injection(I, T) => Cardinality(T) = n
  <2> HIDE DEF I, T, n
  <2>1. QED
    BY <1>3, <1>4, FS_Surjection
<1>7. s \in Seq(T)
  <2>1. s \in [I -> T]
    BY <1>1, <1>2
  <2> HIDE DEF T
  <2>2. QED
    BY <1>1, <2>1
<1>8. QED
  BY <1>2, <1>5, <1>6, <1>7

LEMMA FirstIs ==
  ASSUME NEW S, NEW s \in Seq(S), NEW n \in Int
  PROVE  /\ First(s, n) \in Seq(S) /\ Len(s) \in Nat
         /\ Len(First(s, n)) = IF n > -1 /\ n < Len(s) THEN n ELSE Len(s)
         /\ \A k \in 1..Len(First(s, n)) : First(s, n)[k] = s[k]
<1>1. Len(s) \in Nat
  BY LenProperties
<1>2. CASE n > -1 /\ n < Len(s)
  <2>1. First(s, n) = SubSeq(s, 1, n)
    BY <1>2 DEF First
  <2>2. \A k \in 1..n : s[k] \in S
    BY <1>1, <1>2, ElementOfSeq
  <2>3. /\ SubSeq(s, 1, n) \in Seq(S) /\ Len(SubSeq(s, 1, n)) = (IF 1 <= n THEN n - 1 + 1 ELSE 0)
        /\ \A k \in 1..n - 1 + 1 : SubSeq(s, 1, n)[k] = s[1 + k - 1]
    BY <2>2, SubSeqProperties
  <2> DEFINE t == SubSeq(s, 1, n)
  <2> HIDE DEF t
  <2>4. t \in Seq(S) /\ Len(t) = n /\ \A k \in 1..n : t[k] = s[k]
    <3>1. Len(t) = n
      BY <1>2, <2>3 DEF t
    <3>2. \A k \in 1..n : 1 + k - 1 = k /\ k \in 1..n - 1 + 1
      OBVIOUS
    <3>3. \A k \in 1..n : t[k] = s[k]
      BY <2>3, <3>2 DEF t
    <3>4. QED
      BY <2>3, <3>1, <3>3 DEF t
  <2>5. QED
    BY <1>1, <1>2, <2>1, <2>4 DEF t
<1>3. CASE ~(n > -1 /\ n < Len(s))
  BY <1>1, <1>3 DEF First
<1>4. QED
  BY <1>2, <1>3

\* From the best down
Falls(image, s) == \A i, j \in 1..Len(s) : i < j => Score(image, s[i]) > Score(image, s[j])

\* Those that less than n are above
Foremost(image, es, n) == {e \in es : n > -1 => Cardinality(Above(image, es, e)) < n}

LEMMA TopIs ==
  ASSUME NEW image, NEW es, AreScored(image, es), NEW n \in Int
  PROVE  LET t == First(ByScore(image, es), n)
         IN  /\ t \in Seq(es) /\ Falls(image, t) /\ Alone(t)
             /\ Cardinality(es) \in Nat
             /\ Len(t) = IF n > -1 /\ n < Cardinality(es) THEN n ELSE Cardinality(es)
             /\ ToSet(t) = Foremost(image, es, n)
<1> DEFINE s == ByScore(image, es)
           t == First(s, n)
           at(e) == Cardinality(Above(image, es, e))
<1>1. /\ s \in Seq(es) /\ Len(s) = Cardinality(es) /\ Cardinality(es) \in Nat
      /\ \A k \in 1..Len(s) : s[k] \in es /\ at(s[k]) = k - 1
      /\ \A e \in es : \E k \in 1..Len(s) : s[k] = e
  <2> HIDE DEF s
  <2>1. QED
    BY ByScoreIs DEF s
<1> HIDE DEF s
<1>2. /\ t \in Seq(es) /\ Len(t) = (IF n > -1 /\ n < Len(s) THEN n ELSE Len(s))
      /\ \A k \in 1..Len(t) : t[k] = s[k]
  BY <1>1, FirstIs
<1> HIDE DEF t
<1>3. \A k \in 1..Len(t) : k \in 1..Len(s) /\ t[k] \in es /\ at(t[k]) = k - 1
  <2>1. SUFFICES ASSUME NEW k \in 1..Len(t) PROVE k \in 1..Len(s) /\ t[k] \in es /\ at(t[k]) = k - 1
    OBVIOUS
  <2>2. k \in 1..Len(s)
    <3>1. Len(s) \in Nat /\ k \in Int /\ 1 <= k /\ k <= Len(t)
      BY <1>1
    <3>2. QED
      BY <1>2, <3>1
  <2>3. t[k] = s[k]
    BY <1>2
  <2>4. QED
    BY <1>1, <2>2, <2>3
<1>4. Falls(image, t)
  <2>1. SUFFICES ASSUME NEW i \in 1..Len(t), NEW j \in 1..Len(t), i < j PROVE Score(image, t[i]) > Score(image, t[j])
    BY DEF Falls
  <2>2. at(t[i]) < at(t[j])
    BY <1>3, <2>1
  <2>3. QED
    BY <1>3, <2>2, AboveIs
<1>5. Alone(t)
  <2>1. SUFFICES ASSUME NEW i \in 1..Len(t), NEW j \in 1..Len(t), t[i] = t[j] PROVE i = j
    BY DEF Alone
  <2>2. at(t[i]) = i - 1 /\ at(t[j]) = j - 1
    BY <1>3
  <2> HIDE DEF at
  <2>3. i - 1 = j - 1
    BY <2>1, <2>2
  <2>4. QED
    BY <2>3
<1>6. ToSet(t) = {t[k] : k \in 1..Len(t)}
  BY <1>2, ToSetIs
<1>7. ASSUME NEW k \in 1..Len(t) PROVE t[k] \in Foremost(image, es, n)
  <2>1. t[k] \in es /\ at(t[k]) = k - 1 /\ k \in Int /\ k <= Len(t)
    BY <1>3
  <2> HIDE DEF at
  <2>2. n > -1 => at(t[k]) < n
    BY <1>1, <1>2, <2>1
  <2>3. QED
    BY <2>1, <2>2 DEF at, Foremost
<1>8. ASSUME NEW e \in Foremost(image, es, n) PROVE \E k \in 1..Len(t) : t[k] = e
  <2>1. e \in es /\ (n > -1 => at(e) < n)
    BY DEF Foremost
  <2>2. PICK k \in 1..Len(s) : s[k] = e
    BY <1>1, <2>1
  <2>3. at(e) = k - 1
    BY <1>1, <2>2
  <2>4. k \in 1..Len(t)
    <3> HIDE DEF at
    <3>1. QED
      BY <1>1, <1>2, <2>1, <2>3
  <2>5. QED
    BY <1>2, <2>2, <2>4
<1>9. ToSet(t) = Foremost(image, es, n)
  BY <1>6, <1>7, <1>8
<1>10. QED
  BY <1>1, <1>2, <1>4, <1>5, <1>9 DEF t, s

-----------------------------------------------------------------------------
(* What a loop over a sequence leaves *)

\* A loop has one outcome
StartAlike(f, g, n) == f[0] = g[0] /\ \A k \in 1..n : f[k - 1] = g[k - 1] => f[k] = g[k]
Alike(f, g, n) == \A k \in 0..n : f[k] = g[k]

LEMMA SameLoop == ASSUME NEW n \in Nat, NEW f, NEW g, StartAlike(f, g, n) PROVE Alike(f, g, n)
<1> DEFINE Ok == {k \in Nat : k <= n => f[k] = g[k]}
<1>1. 0 \in Ok
  BY DEF StartAlike
<1>2. ASSUME NEW k \in Nat, k \in Ok PROVE k + 1 \in Ok
  <2>1. k + 1 <= n => k + 1 \in 1..n /\ k + 1 - 1 = k /\ k <= n
    OBVIOUS
  <2>2. QED
    BY <1>2, <2>1 DEF StartAlike
<1>3. \A k \in Nat : k \in Ok
  <2> HIDE DEF Ok
  <2>1. QED
    BY <1>1, <1>2, Inductive
<1>4. QED
  BY <1>3 DEF Alike

\* f[k] holds those of the first k of t that may be added to what holds the ones
\* before them
Sieve(f, n, t, May) ==
  /\ f[0] = << >>
  /\ \A k \in 1..n : f[k] = IF << f[k - 1], t[k] >> \in May THEN Append(f[k - 1], t[k]) ELSE f[k - 1]

LEMMA SieveExists ==
  ASSUME NEW S, NEW n \in Nat, NEW t \in [1..n -> S], NEW May
  PROVE  \E f \in [0..n -> Seq(S)] : Sieve(f, n, t, May)
<1> DEFINE X == Seq(S)
           empty == << >>
           F == [k \in 1..n |-> [s \in X |-> IF << s, t[k] >> \in May THEN Append(s, t[k]) ELSE s]]
<1>1. empty \in X /\ F \in [1..n -> [X -> X]]
  <2>1. \A k \in 1..n, s \in X : Append(s, t[k]) \in X
    BY AppendProperties
  <2>2. \A k \in 1..n : F[k] \in [X -> X]
    BY <2>1
  <2>3. QED
    BY <2>2
<1> HIDE DEF X, empty, F
<1>2. PICK f : Loop(f, X, empty, n, F)
  BY <1>1, LoopExists, Zenon
<1>3. f \in [0..n -> X] /\ f[0] = empty /\ \A k \in 1..n : f[k] = F[k][f[k - 1]]
  BY <1>2 DEF Loop
<1>4. \A k \in 1..n : f[k] = IF << f[k - 1], t[k] >> \in May THEN Append(f[k - 1], t[k]) ELSE f[k - 1]
  <2>1. SUFFICES ASSUME NEW k \in 1..n
                 PROVE  f[k] = IF << f[k - 1], t[k] >> \in May THEN Append(f[k - 1], t[k]) ELSE f[k - 1]
    OBVIOUS
  <2>2. f[k - 1] \in X
    <3>1. k - 1 \in 0..n
      OBVIOUS
    <3>2. QED
      BY <1>3, <3>1
  <2>3. F[k][f[k - 1]] = IF << f[k - 1], t[k] >> \in May THEN Append(f[k - 1], t[k]) ELSE f[k - 1]
    BY <2>2 DEF F
  <2>4. QED
    BY <1>3, <2>3
<1>5. QED
  BY <1>3, <1>4 DEF Sieve, X, empty

Passed(f, t, k, May) == {i \in 1..k : << f[i - 1], t[i] >> \in May}

InOrder(s, R) == \A i, j \in 1..Len(s) : i < j => << s[i], s[j] >> \in R

LEMMA AddedIs ==
  ASSUME NEW S, NEW s \in Seq(S), NEW e \in S
  PROVE  /\ Append(s, e) \in Seq(S) /\ ToSet(Append(s, e)) = ToSet(s) \union {e}
         /\ \A R : InOrder(s, R) /\ (\A d \in ToSet(s) : << d, e >> \in R) => InOrder(Append(s, e), R)
<1> DEFINE n == Len(s)
           new == Append(s, e)
<1>1. /\ n \in Nat /\ new \in Seq(S) /\ Len(new) = n + 1 /\ new[n + 1] = e
      /\ \A i \in 1..n : new[i] = s[i]
  BY AppendProperties, LenProperties
<1>2. ToSet(s) = {s[k] : k \in 1..n}
  BY ToSetIs
<1>3. ToSet(new) = {new[k] : k \in 1..n + 1}
  <2> HIDE DEF new
  <2>1. QED
    BY <1>1, ToSetIs
<1> HIDE DEF new, n
<1>4. 1..n + 1 = 1..n \union {n + 1}
  BY <1>1
<1>5. ToSet(new) = ToSet(s) \union {e}
  BY <1>1, <1>2, <1>3, <1>4
<1>6. ASSUME NEW R, InOrder(s, R), \A d \in ToSet(s) : << d, e >> \in R
      PROVE  InOrder(new, R)
  <2>1. SUFFICES ASSUME NEW i \in 1..Len(new), NEW j \in 1..Len(new), i < j PROVE << new[i], new[j] >> \in R
    BY DEF InOrder
  <2>2. i \in 1..n /\ new[i] = s[i]
    BY <1>1, <2>1
  <2>3. CASE j = n + 1
    BY <1>1, <1>2, <1>6, <2>2, <2>3
  <2>4. CASE j # n + 1
    <3>1. j \in 1..n /\ new[j] = s[j]
      BY <1>1, <2>4
    <3>2. QED
      BY <1>6, <2>1, <2>2, <3>1 DEF InOrder, n
  <2>5. QED
    BY <2>3, <2>4
<1>7. QED
  BY <1>1, <1>5, <1>6 DEF new

LEMMA SieveIs ==
  ASSUME NEW S, NEW n \in Nat, NEW t \in [1..n -> S], NEW May, NEW f, Sieve(f, n, t, May),
         NEW R, \A i, j \in 1..n : i < j => << t[i], t[j] >> \in R
  PROVE  \A k \in 0..n :
           f[k] \in Seq(S) /\ ToSet(f[k]) = {t[i] : i \in Passed(f, t, k, May)} /\ InOrder(f[k], R)
<1> DEFINE Good(k) == f[k] \in Seq(S) /\ ToSet(f[k]) = {t[i] : i \in Passed(f, t, k, May)} /\ InOrder(f[k], R)
           Ok == {k \in Nat : k <= n => Good(k)}
<1>1. 0 \in Ok
  <2>1. f[0] = << >> /\ << >> \in Seq(S) /\ Len(<< >>) = 0
    BY EmptySeq DEF Sieve
  <2>2. ToSet(<< >>) = {} /\ Passed(f, t, 0, May) = {}
    BY DEF ToSet, Passed
  <2>3. {t[i] : i \in Passed(f, t, 0, May)} = {}
    BY <2>2
  <2>4. InOrder(<< >>, R)
    BY <2>1 DEF InOrder
  <2>5. Good(0)
    BY <2>1, <2>2, <2>3, <2>4
  <2>6. QED
    BY <2>5
<1>2. ASSUME NEW k \in Nat, k \in Ok PROVE k + 1 \in Ok
  <2>1. SUFFICES ASSUME k + 1 <= n PROVE Good(k + 1)
    OBVIOUS
  <2> DEFINE e == t[k + 1]
             s == f[k]
             new == f[k + 1]
             Takes == << s, e >> \in May
  <2>2. k \in 0..n /\ k + 1 \in 1..n /\ k + 1 - 1 = k /\ 1..k + 1 = 1..k \union {k + 1} /\ e \in S /\ 1..k \subseteq 1..n
    BY <2>1
  <2>3. s \in Seq(S) /\ ToSet(s) = {t[i] : i \in Passed(f, t, k, May)} /\ InOrder(s, R)
    BY <1>2, <2>1
  <2>4. new = IF Takes THEN Append(s, e) ELSE s
    BY <2>2 DEF Sieve
  <2>5. Passed(f, t, k + 1, May) = Passed(f, t, k, May) \union (IF Takes THEN {k + 1} ELSE {})
    BY <2>2 DEF Passed
  <2>6. \A d \in ToSet(s) : << d, e >> \in R
    <3>1. Passed(f, t, k, May) \subseteq 1..k
      BY DEF Passed
    <3>2. SUFFICES ASSUME NEW i \in 1..k PROVE << t[i], e >> \in R
      BY <2>3, <3>1
    <3>3. i \in 1..n /\ i < k + 1
      BY <2>2
    <3>4. QED
      BY <2>2, <3>3
  <2> HIDE DEF new, s, e
  <2>7. CASE Takes
    <3>1. /\ new \in Seq(S) /\ ToSet(new) = ToSet(s) \union {e} /\ InOrder(new, R)
      BY <2>2, <2>3, <2>4, <2>6, <2>7, AddedIs
    <3>2. ToSet(new) = {t[i] : i \in Passed(f, t, k + 1, May)}
      BY <2>3, <2>5, <2>7, <3>1 DEF e
    <3>3. QED
      BY <3>1, <3>2 DEF new
  <2>8. CASE ~Takes
    <3>1. new = s /\ Passed(f, t, k + 1, May) = Passed(f, t, k, May)
      BY <2>4, <2>5, <2>8
    <3>2. QED
      BY <2>3, <3>1 DEF new
  <2>9. QED
    BY <2>7, <2>8
<1>3. \A k \in Nat : k \in Ok
  <2> HIDE DEF Ok
  <2>1. QED
    BY <1>1, <1>2, Inductive
<1>4. \A k \in 0..n : Good(k)
  <2> HIDE DEF Good
  <2>1. QED
    BY <1>3
<1>5. QED
  BY <1>4

LEMMA OnlyIs ==
  ASSUME NEW S, NEW s \in Seq(S), NEW T
  PROVE  LET only == Only(s, T)
         IN  /\ only \in Seq(S) /\ ToSet(only) = ToSet(s) \intersect T
             /\ (Alone(s) => Alone(only)) /\ (ToSet(s) \subseteq T => only = s)
<1> DEFINE n == Len(s)
           May == Seq(S) \X T
           Is(f) == f = [k \in 0..n |-> IF k = 0 THEN << >> ELSE IF s[k] \in T THEN Append(f[k - 1], s[k]) ELSE f[k - 1]]
           only == CHOOSE f : Is(f)
           R == {x \in S \X S : Alone(s) => x[1] # x[2]}
<1>1. n \in Nat /\ s \in [1..n -> S]
  BY LenProperties
<1>2. PICK f \in [0..n -> Seq(S)] : Sieve(f, n, s, May)
  <2> HIDE DEF May, n
  <2>1. QED
    BY <1>1, SieveExists
<1>3. f[0] = << >> /\ \A k \in 1..n : f[k] = IF s[k] \in T THEN Append(f[k - 1], s[k]) ELSE f[k - 1]
  <2>1. \A k \in 1..n : k - 1 \in 0..n
    BY <1>1
  <2>2. \A k \in 1..n : << f[k - 1], s[k] >> \in May <=> s[k] \in T
    BY <1>1, <2>1
  <2> HIDE DEF May
  <2>3. QED
    BY <1>2, <2>2 DEF Sieve
<1>4. Is(only)
  <2>1. \A k \in 0..n : f[k] = IF k = 0 THEN << >> ELSE IF s[k] \in T THEN Append(f[k - 1], s[k]) ELSE f[k - 1]
    <3>1. \A k \in 0..n : k = 0 \/ k \in 1..n
      BY <1>1
    <3> HIDE DEF n
    <3>2. QED
      BY <1>3, <3>1
  <2>2. Is(f)
    BY <2>1
  <2>3. QED
    BY <2>2
<1>5. Only(s, T) = only[n]
  BY DEF Only
<1> HIDE DEF only
<1>6. only[0] = << >> /\ \A k \in 1..n : only[k] = IF s[k] \in T THEN Append(only[k - 1], s[k]) ELSE only[k - 1]
  <2>1. 0 \in 0..n /\ \A k \in 1..n : k \in 0..n /\ k # 0
    BY <1>1
  <2>2. \A k \in 0..n : only[k] = IF k = 0 THEN << >> ELSE IF s[k] \in T THEN Append(only[k - 1], s[k]) ELSE only[k - 1]
    <3> HIDE DEF n
    <3>1. QED
      BY <1>4
  <2> HIDE DEF n
  <2>3. QED
    BY <2>1, <2>2
<1>7. \A k \in 0..n : only[k] = f[k]
  <2>1. \A k \in 1..n : only[k - 1] = f[k - 1] => only[k] = f[k]
    BY <1>3, <1>6
  <2>2. n \in Nat /\ StartAlike(only, f, n)
    BY <1>1, <1>3, <1>6, <2>1 DEF StartAlike
  <2> HIDE DEF n
  <2>3. Alike(only, f, n)
    BY <2>2, SameLoop, Zenon
  <2>4. QED
    BY <2>3 DEF Alike
<1>8. Only(s, T) = f[n]
  BY <1>1, <1>5, <1>7
<1>9. \A i, j \in 1..n : i < j => << s[i], s[j] >> \in R
  BY <1>1 DEF Alone
<1>10. f[n] \in Seq(S) /\ ToSet(f[n]) = {s[i] : i \in Passed(f, s, n, May)} /\ InOrder(f[n], R)
  <2>1. n \in 0..n
    BY <1>1
  <2> HIDE DEF n, R, May
  <2>2. QED
    BY <1>1, <1>2, <1>9, <2>1, SieveIs
<1>11. ToSet(s) = {s[k] : k \in 1..n}
  BY ToSetIs
<1>12. Passed(f, s, n, May) = {i \in 1..n : s[i] \in T}
  <2>1. \A i \in 1..n : f[i - 1] \in Seq(S)
    BY <1>1, <1>2
  <2>2. QED
    BY <2>1 DEF Passed
<1>13. ToSet(f[n]) = ToSet(s) \intersect T
  BY <1>10, <1>11, <1>12
<1>14. ASSUME Alone(s) PROVE Alone(f[n])
  <2> DEFINE r == f[n]
  <2>1. \A i, j \in 1..Len(r) : i < j => r[i] # r[j]
    BY <1>10, <1>14 DEF InOrder
  <2>2. Len(r) \in Nat
    BY <1>10, LenProperties
  <2> HIDE DEF r
  <2>3. Alone(r)
    BY <2>1, <2>2 DEF Alone
  <2>4. QED
    BY <2>3 DEF r
<1>15. ASSUME ToSet(s) \subseteq T PROVE f[n] = s
  <2> DEFINE g == [k \in 0..n |-> SubSeq(s, 1, k)]
  <2>1. ASSUME NEW k \in 0..n
        PROVE  /\ g[k] \in Seq(S) /\ Len(g[k]) = k
               /\ \A i \in 1..k : g[k][i] = s[i]
    <3>1. \A i \in 1..k : s[i] \in S
      BY <1>1
    <3>2. /\ SubSeq(s, 1, k) \in Seq(S) /\ Len(SubSeq(s, 1, k)) = (IF 1 <= k THEN k - 1 + 1 ELSE 0)
          /\ \A i \in 1..k - 1 + 1 : SubSeq(s, 1, k)[i] = s[1 + i - 1]
      BY <3>1, SubSeqProperties
    <3>3. (IF 1 <= k THEN k - 1 + 1 ELSE 0) = k /\ k - 1 + 1 = k /\ \A i \in 1..k : 1 + i - 1 = i
      BY <1>1
    <3> DEFINE r == SubSeq(s, 1, k)
    <3> HIDE DEF r
    <3>4. r \in Seq(S) /\ Len(r) = k /\ \A i \in 1..k : r[i] = s[i]
      BY <3>2, <3>3 DEF r
    <3>5. g[k] = r
      BY DEF r
    <3>6. QED
      BY <3>4, <3>5
  <2>2. \A k \in 1..n : g[k] = Append(g[k - 1], s[k])
    <3>1. SUFFICES ASSUME NEW k \in 1..n PROVE g[k] = Append(g[k - 1], s[k])
      OBVIOUS
    <3> DEFINE a == g[k]
               b == g[k - 1]
               c == Append(b, s[k])
    <3>2. k \in 0..n /\ k - 1 \in 0..n /\ s[k] \in S /\ k - 1 + 1 = k
      BY <1>1
    <3>3. a \in Seq(S) /\ Len(a) = k /\ \A i \in 1..k : a[i] = s[i]
      BY <2>1, <3>2
    <3>4. b \in Seq(S) /\ Len(b) = k - 1 /\ \A i \in 1..k - 1 : b[i] = s[i]
      BY <2>1, <3>2
    <3> HIDE DEF a, b, g
    <3>5. /\ c \in Seq(S) /\ Len(c) = Len(b) + 1 /\ (\A i \in 1..Len(b) : c[i] = b[i]) /\ c[Len(b) + 1] = s[k]
      BY <3>2, <3>4, AppendProperties
    <3> HIDE DEF c
    <3>6. Len(c) = k /\ \A i \in 1..Len(c) : c[i] = a[i]
      <4>1. Len(c) = k
        BY <3>2, <3>4, <3>5
      <4>2. \A i \in 1..k : i = k \/ i \in 1..k - 1
        BY <3>2
      <4>3. c[k] = s[k] /\ \A i \in 1..k - 1 : c[i] = s[i]
        BY <3>2, <3>4, <3>5
      <4>4. \A i \in 1..k : c[i] = s[i]
        BY <4>2, <4>3
      <4>5. QED
        BY <3>3, <4>1, <4>4
    <3>7. a = c
      BY <3>3, <3>5, <3>6, SeqEqual
    <3>8. QED
      BY <3>7 DEF a, b, c
  <2>3. \A k \in 1..n : f[k] = Append(f[k - 1], s[k])
    BY <1>3, <1>11, <1>15
  <2>4. g[0] = << >>
    <3>1. g[0] \in Seq(S) /\ Len(g[0]) = 0
      BY <1>1, <2>1
    <3> HIDE DEF g
    <3>2. QED
      BY <3>1, EmptySeq
  <2>5. g[n] = s
    <3>1. g[n] = SubSeq(s, 1, n)
      BY <1>1
    <3>2. QED
      BY <3>1, SubSeqFull
  <2> HIDE DEF g
  <2>6. n \in Nat /\ StartAlike(f, g, n)
    BY <1>1, <1>3, <2>2, <2>3, <2>4 DEF StartAlike
  <2>7. \A k \in 0..n : f[k] = g[k]
    <3> HIDE DEF n
    <3>1. Alike(f, g, n)
      BY <2>6, SameLoop, Zenon
    <3>2. QED
      BY <3>1 DEF Alike
  <2>8. QED
    BY <1>1, <2>5, <2>7
<1>16. QED
  BY <1>8, <1>10, <1>13, <1>14, <1>15

\* The whole holds what its parts hold, and holds it once when they share nothing
AllAlone(n, seqs) ==
  /\ \A k \in 1..n : Alone(seqs[k])
  /\ \A i, j \in 1..n : \A e \in ToSet(seqs[i]) : e \in ToSet(seqs[j]) => i = j

IsUnion(S, n, seqs, flat) ==
  flat \in Seq(S) /\ Alone(flat) /\ \A e : e \in ToSet(flat) <=> \E k \in 1..n : e \in ToSet(seqs[k])

LEMMA FlatSet ==
  ASSUME NEW S, NEW n \in Nat, NEW seqs \in [1..n -> Seq(S)], AllAlone(n, seqs)
  PROVE  IsUnion(S, n, seqs, FlattenSeq(seqs))
<1> DEFINE flat == FlattenSeq(seqs)
           key == [x \in S |-> x]
           sum == Sums(Lens(n, seqs))
<1>1. ASSUME NEW k \in 1..n
      PROVE  /\ seqs[k] \in Seq(S) /\ ToSet(seqs[k]) = {seqs[k][i] : i \in 1..Len(seqs[k])}
             /\ ToSet(seqs[k]) \subseteq S
  <2> DEFINE s == seqs[k]
  <2>1. s \in Seq(S)
    OBVIOUS
  <2> HIDE DEF s
  <2>2. ToSet(s) = {s[i] : i \in 1..Len(s)} /\ ToSet(s) \subseteq S
    BY <2>1, ToSetIs
  <2>3. QED
    BY <2>1, <2>2 DEF s
<1>2. \A k \in 1..n : \A i \in 1..Len(seqs[k]) : seqs[k][i] \in ToSet(seqs[k]) /\ seqs[k][i] \in S
  BY <1>1
<1>3. IsWhole(S, n, seqs, flat)
  BY FlatIs, Zenon
<1>4. /\ flat \in Seq(S)
      /\ \A k \in 1..n : \A i \in 1..Len(seqs[k]) : sum[k - 1] + i \in 1..Len(flat) /\ flat[sum[k - 1] + i] = seqs[k][i]
      /\ \A q \in 1..Len(flat) : \E k \in 1..n : \E i \in 1..Len(seqs[k]) : q = sum[k - 1] + i
  <2> HIDE DEF flat
  <2>1. QED
    BY <1>3 DEF IsWhole
<1> HIDE DEF sum
<1>5. Alone(flat)
  <2>1. PartsApart(key, n, seqs)
    <3>1. SUFFICES ASSUME NEW i \in 1..n, NEW j \in 1..n,
                          NEW x \in 1..Len(seqs[i]), NEW y \in 1..Len(seqs[j]), key[seqs[i][x]] = key[seqs[j][y]]
                   PROVE  i = j /\ x = y
      BY DEF PartsApart
    <3>2. seqs[i][x] = seqs[j][y] /\ seqs[i][x] \in ToSet(seqs[i]) /\ seqs[j][y] \in ToSet(seqs[j])
      BY <1>2, <3>1
    <3>3. i = j
      BY <3>2 DEF AllAlone
    <3>4. QED
      BY <3>2, <3>3 DEF Alone, AllAlone
  <2> HIDE DEF key
  <2>2. Apart(key, flat)
    BY <2>1, FlatApart, Zenon
  <2> HIDE DEF flat
  <2>3. \A q \in 1..Len(flat) : flat[q] \in S
    BY <1>4, ElementOfSeq
  <2>4. QED
    BY <2>2, <2>3 DEF Apart, Alone, key
<1>6. ASSUME NEW e PROVE e \in ToSet(flat) <=> \E k \in 1..n : e \in ToSet(seqs[k])
  <2> HIDE DEF flat
  <2>1. flat \in Seq(S)
    BY <1>4
  <2>2. ToSet(flat) = {flat[q] : q \in 1..Len(flat)}
    BY <2>1, ToSetIs
  <2>3. ASSUME e \in ToSet(flat) PROVE \E k \in 1..n : e \in ToSet(seqs[k])
    <3>1. PICK q \in 1..Len(flat) : e = flat[q]
      BY <2>2, <2>3
    <3>2. PICK k \in 1..n : \E i \in 1..Len(seqs[k]) : q = sum[k - 1] + i
      BY <1>4
    <3>3. PICK i \in 1..Len(seqs[k]) : q = sum[k - 1] + i
      BY <3>2
    <3>4. e = seqs[k][i]
      BY <1>4, <3>1, <3>3
    <3>5. QED
      BY <1>2, <3>4
  <2>4. ASSUME NEW k \in 1..n, e \in ToSet(seqs[k]) PROVE e \in ToSet(flat)
    <3>1. PICK i \in 1..Len(seqs[k]) : e = seqs[k][i]
      BY <1>1, <2>4
    <3> DEFINE q == sum[k - 1] + i
    <3>2. q \in 1..Len(flat) /\ flat[q] = e
      BY <1>4, <3>1
    <3> HIDE DEF q
    <3>3. QED
      BY <2>2, <3>2
  <2>5. QED
    BY <2>3, <2>4
<1>7. QED
  BY <1>4, <1>5, <1>6 DEF IsUnion

-----------------------------------------------------------------------------
(* The detections of a label *)

Better(image, e) == Above(image, Found(image, e[1]), e)

\* No better one of rows suppresses e
StaysIn(p, image, rows, e) ==
  \A d \in rows \intersect Better(image, e) :
    Overlap(image, d, e) <= p.nms_threshold[Cardinality(rows \intersect Better(image, e))]

LEMMA ApplyNMSFastIs ==
  ASSUME NEW p, p.top_k \in Int, NEW image, NEW l, AreScored(image, Found(image, l))
  PROVE  LET kept == ApplyNMSFast(p, image, l)
             front == Foremost(image, Found(image, l), p.top_k)
         IN  /\ kept \in Seq(Found(image, l)) /\ Alone(kept) /\ ToSet(kept) \subseteq front
             /\ \A e \in front : e \in ToSet(kept) <=> StaysIn(p, image, ToSet(kept), e)
<1> DEFINE S == Found(image, l)
           front == Foremost(image, S, p.top_k)
           t == First(ByScore(image, S), p.top_k)
           n == Len(t)
           May == {x \in Seq(S) \X S : MayStay(p, image, x[1], x[2])}
           Is(f) == f = [k \in 0..n |-> IF k = 0 THEN << >>
                                        ELSE LET now == f[k - 1]
                                             IN  IF MayStay(p, image, now, t[k]) THEN Append(now, t[k]) ELSE now]
           fast == CHOOSE f : Is(f)
           R == {x \in S \X S : Score(image, x[1]) > Score(image, x[2])}
<1>1. t \in Seq(S) /\ Falls(image, t) /\ Alone(t) /\ ToSet(t) = front
  <2> HIDE DEF t
  <2>1. QED
    BY TopIs DEF t
<1>2. ApplyNMSFast(p, image, l) = fast[n]
  BY DEF ApplyNMSFast
<1> HIDE DEF t, front
<1>3. n \in Nat /\ t \in [1..n -> S]
  BY <1>1, LenProperties
<1> HIDE DEF S
<1>4. PICK f \in [0..n -> Seq(S)] : Sieve(f, n, t, May)
  <2> HIDE DEF May, n
  <2>1. QED
    BY <1>3, SieveExists
<1>5. \A k \in 1..n : k \in 0..n /\ k # 0 /\ k - 1 \in 0..n /\ f[k - 1] \in Seq(S) /\ t[k] \in S
  <2>1. \A k \in 1..n : k \in 0..n /\ k # 0 /\ k - 1 \in 0..n
    BY <1>3
  <2> HIDE DEF n
  <2>2. QED
    BY <1>3, <2>1
<1>6. \A k \in 1..n : << f[k - 1], t[k] >> \in May <=> MayStay(p, image, f[k - 1], t[k])
  BY <1>5
<1> HIDE DEF May
<1>7. f[0] = << >> /\ \A k \in 1..n : f[k] = IF MayStay(p, image, f[k - 1], t[k]) THEN Append(f[k - 1], t[k]) ELSE f[k - 1]
  BY <1>4, <1>6 DEF Sieve
<1>8. Is(fast)
  <2>1. \A k \in 0..n : f[k] = IF k = 0 THEN << >> ELSE IF MayStay(p, image, f[k - 1], t[k]) THEN Append(f[k - 1], t[k]) ELSE f[k - 1]
    <3>1. \A k \in 0..n : k = 0 \/ k \in 1..n
      BY <1>3
    <3> HIDE DEF n
    <3>2. QED
      BY <1>7, <3>1
  <2>2. Is(f)
    BY <2>1
  <2> HIDE DEF Is
  <2>3. QED
    BY <2>2
<1> HIDE DEF fast
<1>9. fast[0] = << >> /\ \A k \in 1..n : fast[k] = IF MayStay(p, image, fast[k - 1], t[k]) THEN Append(fast[k - 1], t[k]) ELSE fast[k - 1]
  <2>1. \A k \in 0..n : fast[k] = IF k = 0 THEN << >>
                                   ELSE IF MayStay(p, image, fast[k - 1], t[k]) THEN Append(fast[k - 1], t[k]) ELSE fast[k - 1]
    <3> HIDE DEF n
    <3>1. QED
      BY <1>8
  <2>2. 0 \in 0..n
    BY <1>3
  <2> HIDE DEF n
  <2>3. QED
    BY <1>5, <2>1, <2>2
<1>10. fast[n] = f[n]
  <2>1. n \in Nat /\ StartAlike(fast, f, n)
    BY <1>3, <1>7, <1>9 DEF StartAlike
  <2>2. n \in 0..n
    BY <2>1
  <2> HIDE DEF n
  <2>3. Alike(fast, f, n)
    BY <2>1, SameLoop, Zenon
  <2>4. QED
    BY <2>2, <2>3 DEF Alike
<1>11. \A i, j \in 1..n : i < j => Score(image, t[i]) > Score(image, t[j]) /\ << t[i], t[j] >> \in R
  BY <1>1, <1>3 DEF Falls
<1>12. \A k \in 0..n : f[k] \in Seq(S) /\ ToSet(f[k]) = {t[i] : i \in Passed(f, t, k, May)} /\ InOrder(f[k], R)
  <2> HIDE DEF n, R
  <2>1. QED
    BY <1>3, <1>4, <1>11, SieveIs
<1>13. \A x \in S : Score(image, x) \in Nat
  BY DEF AreScored, S
<1>14. ASSUME NEW k \in 0..n PROVE Alone(f[k])
  <2> DEFINE s == f[k]
  <2>1. s \in Seq(S) /\ Len(s) \in Nat /\ \A i \in 1..Len(s) : s[i] \in S
    BY <1>12, ElementOfSeq, LenProperties
  <2>2. \A i, j \in 1..Len(s) : i < j => Score(image, s[i]) > Score(image, s[j])
    BY <1>12 DEF InOrder
  <2> HIDE DEF s
  <2>3. SUFFICES ASSUME NEW i \in 1..Len(s), NEW j \in 1..Len(s), s[i] = s[j] PROVE i = j
    BY DEF Alone, s
  <2>4. ~(i < j) /\ ~(j < i)
    <3>1. Score(image, s[i]) = Score(image, s[j]) /\ Score(image, s[i]) \in Nat
      BY <1>13, <2>1, <2>3
    <3>2. QED
      BY <2>2, <3>1
  <2>5. QED
    BY <2>1, <2>4
<1> DEFINE K == ToSet(f[n])
<1>15. K \subseteq front
  <2>1. ToSet(t) = {t[k] : k \in 1..n}
    BY <1>1, ToSetIs
  <2>2. n \in 0..n /\ Passed(f, t, n, May) \subseteq 1..n
    BY <1>3 DEF Passed
  <2>3. QED
    BY <1>1, <1>12, <2>1, <2>2
<1>16. ASSUME NEW e \in front
       PROVE  e \in K <=> StaysIn(p, image, K, e)
  <2>1. PICK k \in 1..n : t[k] = e
    <3>1. ToSet(t) = {t[i] : i \in 1..n}
      BY <1>1, ToSetIs
    <3>2. QED
      BY <1>1, <3>1
  <2> DEFINE s == f[k - 1]
             B == ToSet(s)
  <2>2. e \in S /\ e[1] = l
    <3>1. front \subseteq S
      BY DEF front, Foremost
    <3>2. QED
      BY <3>1 DEF S, Found
  <2>3. e \in K <=> << s, e >> \in May
    <3>1. n \in 0..n
      BY <1>3
    <3>2. e \in K <=> \E i \in Passed(f, t, n, May) : t[i] = t[k]
      <4>1. K = {t[i] : i \in Passed(f, t, n, May)}
        BY <1>12, <3>1
      <4> HIDE DEF K
      <4>2. QED
        BY <2>1, <4>1
    <3>3. \A i \in Passed(f, t, n, May) : t[i] = t[k] => i = k
      BY <1>1 DEF Passed, Alone
    <3>4. k \in Passed(f, t, n, May) <=> << s, e >> \in May
      BY <2>1 DEF Passed
    <3>5. QED
      BY <3>2, <3>3, <3>4
  <2>4. K \intersect Better(image, e) = B
    <3>1. Better(image, e) = {d \in S : Score(image, d) > Score(image, e)}
      BY <2>2 DEF Better, Above, S
    <3>2. n \in 0..n /\ k - 1 \in 0..n
      BY <1>3, <1>5
    <3>3. K = {t[i] : i \in Passed(f, t, n, May)} /\ B = {t[i] : i \in Passed(f, t, k - 1, May)}
      BY <1>12, <3>2
    <3>4. \A i \in 1..n : Score(image, t[i]) > Score(image, e) <=> i < k
      <4>1. SUFFICES ASSUME NEW i \in 1..n PROVE Score(image, t[i]) > Score(image, t[k]) <=> i < k
        BY <2>1
      <4>2. Score(image, t[i]) \in Nat /\ Score(image, t[k]) \in Nat
        BY <1>5, <1>13
      <4>3. i < k => Score(image, t[i]) > Score(image, t[k])
        BY <1>11
      <4>4. k < i => Score(image, t[k]) > Score(image, t[i])
        BY <1>11
      <4>5. i = k => ~(Score(image, t[i]) > Score(image, t[k]))
        BY <4>2
      <4>6. i \in Int /\ k \in Int
        OBVIOUS
      <4>7. \A x, y \in Nat : x > y => ~(y > x)
        OBVIOUS
      <4>8. QED
        BY <4>2, <4>3, <4>4, <4>5, <4>6, <4>7
    <3>5. Passed(f, t, k - 1, May) = {i \in Passed(f, t, n, May) : i < k}
      <4>1. 1..k - 1 = {i \in 1..n : i < k}
        BY <1>3
      <4>2. QED
        BY <4>1 DEF Passed
    <3>6. Passed(f, t, n, May) \subseteq 1..n
      BY DEF Passed
    <3> HIDE DEF K, B
    <3>7. \A d \in K \intersect Better(image, e) : d \in B
      BY <3>1, <3>3, <3>4, <3>5, <3>6
    <3>8. \A d \in B : d \in K \intersect Better(image, e)
      BY <1>5, <3>1, <3>3, <3>4, <3>5, <3>6
    <3>9. QED
      BY <3>7, <3>8
  <2>5. s \in Seq(S) /\ Alone(s)
    BY <1>5, <1>14
  <2>6. Cardinality(B) = Len(s) /\ B = {s[i] : i \in 1..Len(s)} /\ DOMAIN s = 1..Len(s)
    <3> HIDE DEF s
    <3>1. QED
      BY <2>5, ToSetIs, LenProperties
  <2>7. << s, e >> \in May <=> MayStay(p, image, s, e)
    BY <1>6, <2>1
  <2>8. MayStay(p, image, s, e) <=> \A d \in B : Overlap(image, d, e) <= p.nms_threshold[Cardinality(B)]
    <3> HIDE DEF s, B
    <3>1. QED
      BY <2>6 DEF MayStay
  <2>9. QED
    BY <2>3, <2>4, <2>7, <2>8 DEF StaysIn
<1>17. f[n] \in Seq(S) /\ Alone(f[n])
  <2>1. n \in 0..n
    BY <1>3
  <2>2. QED
    BY <1>12, <1>14, <2>1
<1>18. QED
  BY <1>2, <1>10, <1>15, <1>16, <1>17 DEF S, front

-----------------------------------------------------------------------------
(* The detections of an image *)

IsScored(image) ==
  /\ \A l \in ToSet(Labels) : image.scores[l] \in Seq(Nat)
  /\ \A d, e \in FoundIn(image) : Score(image, d) = Score(image, e) => d = e

LEMMA LabelsDiffer ==
  /\ Labels \in Seq(Nat \ {One}) /\ Len(Labels) \in Nat /\ IsFiniteSet(ToSet(Labels))
  /\ ToSet(Labels) = {Labels[k] : k \in 1..Len(Labels)} /\ ToSet(Labels) \subseteq Nat \ {One} /\ Alone(Labels)
<1>1. Labels \in Seq(Nat \ {One}) /\ \A k, l \in DOMAIN Labels : Labels[k] = Labels[l] => k = l
  BY DetectionAssumption
<1>2. Len(Labels) \in Nat /\ DOMAIN Labels = 1..Len(Labels)
  BY <1>1, LenProperties
<1>3. /\ IsFiniteSet(ToSet(Labels)) /\ ToSet(Labels) = {Labels[k] : k \in 1..Len(Labels)}
      /\ ToSet(Labels) \subseteq Nat \ {One}
  BY <1>1, ToSetIs
<1>4. QED
  BY <1>1, <1>2, <1>3 DEF Alone

LEMMA FoundOf ==
  ASSUME NEW image, IsScored(image)
  PROVE  /\ AreScored(image, FoundIn(image))
         /\ \A l \in ToSet(Labels) :
              /\ AreScored(image, Found(image, l)) /\ Found(image, l) \subseteq FoundIn(image)
              /\ \A e \in Found(image, l) : e[1] = l
         /\ \A e \in FoundIn(image) :
              e \in Nat \X Nat /\ e = << e[1], e[2] >> /\ e[1] \in ToSet(Labels) /\ e \in Found(image, e[1])
<1>1. ASSUME NEW l \in ToSet(Labels)
      PROVE  /\ Found(image, l) \subseteq FoundIn(image) /\ Found(image, l) \subseteq Nat \X Nat
             /\ IsFiniteSet(Found(image, l))
             /\ \A e \in Found(image, l) : e[1] = l /\ Score(image, e) \in Nat /\ e \in Nat \X Nat
  <2> DEFINE s == image.scores[l]
             n == Len(s)
  <2>1. s \in Seq(Nat) /\ n \in Nat /\ DOMAIN s = 1..n /\ \A j \in 1..n : s[j] \in Nat
    <3>1. s \in Seq(Nat)
      BY DEF IsScored
    <3> HIDE DEF s
    <3>2. QED
      BY <3>1, LenProperties, ElementOfSeq
  <2>2. l \in Nat
    BY LabelsDiffer
  <2>3. IsFiniteSet(1..n) /\ IsFiniteSet({l})
    <3>1. n \in Int
      BY <2>1
    <3> HIDE DEF n
    <3>2. IsFiniteSet(1..n)
      BY <3>1, FS_Interval
    <3>3. QED
      BY <3>2, FS_Singleton
  <2>4. IsFiniteSet({l} \X (1..n))
    BY <2>3, FS_Product
  <2>5. Found(image, l) = {e \in {l} \X (1..n) : Score(image, e) > 0}
    BY <2>1 DEF Found
  <2>6. IsFiniteSet(Found(image, l))
    <3>1. Found(image, l) \subseteq {l} \X (1..n)
      BY <2>5
    <3>2. QED
      BY <2>4, <3>1, FS_Subset
  <2>7. \A e \in Found(image, l) : e[1] = l /\ e[2] \in 1..n /\ e \in Nat \X Nat
    BY <2>1, <2>2, <2>5
  <2>8. \A e \in Found(image, l) : Score(image, e) \in Nat
    BY <2>1, <2>7 DEF Score
  <2>9. Found(image, l) \subseteq FoundIn(image)
    BY DEF FoundIn
  <2>10. QED
    BY <2>6, <2>7, <2>8, <2>9
<1>2. \A d, e \in FoundIn(image) : Score(image, d) = Score(image, e) => d = e
  BY DEF IsScored
<1>3. \A l \in ToSet(Labels) : AreScored(image, Found(image, l))
  BY <1>1, <1>2 DEF AreScored
<1>4. \A e \in FoundIn(image) :
        /\ e \in Nat \X Nat /\ e = << e[1], e[2] >> /\ e[1] \in ToSet(Labels)
        /\ e \in Found(image, e[1]) /\ Score(image, e) \in Nat
  BY <1>1 DEF FoundIn
<1>5. AreScored(image, FoundIn(image))
  <2> DEFINE f == [l \in ToSet(Labels) |-> Found(image, l)]
             C == {f[l] : l \in ToSet(Labels)}
  <2>1. IsFiniteSet(C)
    <3>1. f \in Surjection(ToSet(Labels), C)
      BY DEF Surjection
    <3> HIDE DEF f, C
    <3>2. QED
      BY <3>1, LabelsDiffer, FS_Surjection
  <2>2. \A T \in C : IsFiniteSet(T)
    BY <1>1
  <2>3. FoundIn(image) = UNION C
    BY DEF FoundIn
  <2>4. IsFiniteSet(FoundIn(image))
    <3> HIDE DEF C
    <3>1. QED
      BY <2>1, <2>2, <2>3, FS_UNION
  <2>5. QED
    BY <1>2, <1>4, <2>4 DEF AreScored
<1>6. QED
  BY <1>1, <1>3, <1>4, <1>5

\* What is detected with any label
AllFast(p, image) == FlattenSeq([k \in 1..Len(Labels) |-> ApplyNMSFast(p, image, Labels[k])])

LEMMA AllFastIs ==
  ASSUME NEW p, p.top_k \in Int, NEW image, IsScored(image)
  PROVE  LET all == AllFast(p, image)
             candidates == {e \in FoundIn(image) : p.top_k > -1 => Cardinality(Better(image, e)) < p.top_k}
         IN  /\ all \in Seq(FoundIn(image)) /\ Alone(all) /\ ToSet(all) \subseteq candidates
             /\ \A e \in candidates : e \in ToSet(all) <=> StaysIn(p, image, ToSet(all), e)
<1> DEFINE n == Len(Labels)
           S == FoundIn(image)
           seqs == [k \in 1..n |-> ApplyNMSFast(p, image, Labels[k])]
           all == FlattenSeq(seqs)
           front(l) == Foremost(image, Found(image, l), p.top_k)
<1>1. n \in Nat /\ \A k \in 1..n : Labels[k] \in ToSet(Labels)
  BY LabelsDiffer
<1>2. ASSUME NEW k \in 1..n
      PROVE  /\ seqs[k] \in Seq(S) /\ Alone(seqs[k]) /\ ToSet(seqs[k]) \subseteq front(Labels[k])
             /\ \A e \in front(Labels[k]) : e \in ToSet(seqs[k]) <=> StaysIn(p, image, ToSet(seqs[k]), e)
             /\ ToSet(seqs[k]) = {seqs[k][i] : i \in 1..Len(seqs[k])}
             /\ \A e \in ToSet(seqs[k]) : e[1] = Labels[k] /\ e \in S
  <2> DEFINE l == Labels[k]
             s == ApplyNMSFast(p, image, l)
  <2>1. l \in ToSet(Labels) /\ seqs[k] = s
    BY <1>1
  <2> HIDE DEF l, seqs
  <2>2. AreScored(image, Found(image, l)) /\ Found(image, l) \subseteq S /\ \A e \in Found(image, l) : e[1] = l
    BY <2>1, FoundOf
  <2>3. /\ s \in Seq(Found(image, l)) /\ Alone(s) /\ ToSet(s) \subseteq front(l)
        /\ \A e \in front(l) : e \in ToSet(s) <=> StaysIn(p, image, ToSet(s), e)
    BY <2>2, ApplyNMSFastIs
  <2> HIDE DEF s, S
  <2>4. s \in Seq(S) /\ ToSet(s) = {s[i] : i \in 1..Len(s)} /\ ToSet(s) \subseteq Found(image, l)
    BY <2>2, <2>3, SeqMonotonic, ToSetIs
  <2>5. QED
    BY <2>1, <2>2, <2>3, <2>4 DEF l
<1>3. seqs \in [1..n -> Seq(S)]
  BY <1>2
<1> HIDE DEF seqs, S
<1>4. ASSUME NEW i \in 1..n, NEW j \in 1..n, NEW e \in ToSet(seqs[i]), e \in ToSet(seqs[j])
      PROVE  i = j
  <2>1. e[1] = Labels[i] /\ e[1] = Labels[j]
    BY <1>2, <1>4
  <2>2. QED
    BY <1>1, <2>1, LabelsDiffer DEF Alone
<1>5. /\ all \in Seq(S) /\ Alone(all)
      /\ \A e : e \in ToSet(all) <=> \E k \in 1..n : e \in ToSet(seqs[k])
  <2>1. AllAlone(n, seqs)
    BY <1>2, <1>4 DEF AllAlone
  <2> HIDE DEF n
  <2>2. IsUnion(S, n, seqs, all)
    BY <1>1, <1>3, <2>1, FlatSet, Zenon
  <2> HIDE DEF all
  <2>3. QED
    BY <2>2 DEF IsUnion
<1> HIDE DEF all
<1> DEFINE candidates == {e \in S : p.top_k > -1 => Cardinality(Better(image, e)) < p.top_k}
<1>8. ASSUME NEW e \in S
      PROVE  e[1] \in ToSet(Labels) /\ (e \in candidates <=> e \in front(e[1]))
  <2>1. e[1] \in ToSet(Labels) /\ e \in Found(image, e[1])
    BY FoundOf DEF S
  <2>2. QED
    BY <2>1 DEF Better, Foremost
<1>9. ASSUME NEW e \in S, NEW k \in 1..n, e[1] = Labels[k]
      PROVE  /\ e \in ToSet(all) <=> e \in ToSet(seqs[k])
             /\ ToSet(all) \intersect Better(image, e) = ToSet(seqs[k]) \intersect Better(image, e)
  <2>1. ASSUME NEW d, d[1] = e[1] PROVE d \in ToSet(all) <=> d \in ToSet(seqs[k])
    <3>1. \A j \in 1..n : d \in ToSet(seqs[j]) => j = k
      BY <1>2, <1>9, <2>1, LabelsDiffer DEF Alone
    <3>2. QED
      BY <1>5, <3>1
  <2>2. \A d \in Better(image, e) : d[1] = e[1]
    BY <1>8, FoundOf DEF Better, Above
  <2>3. QED
    BY <2>1, <2>2
<1>10. ASSUME NEW e \in candidates
       PROVE  e \in ToSet(all) <=> StaysIn(p, image, ToSet(all), e)
  <2>1. e \in S
    OBVIOUS
  <2>2. PICK k \in 1..n : e[1] = Labels[k]
    BY <1>8, <2>1, LabelsDiffer
  <2>3. e \in front(Labels[k])
    BY <1>8, <2>1, <2>2
  <2>4. e \in ToSet(seqs[k]) <=> StaysIn(p, image, ToSet(seqs[k]), e)
    BY <1>2, <2>3
  <2>5. /\ e \in ToSet(all) <=> e \in ToSet(seqs[k])
        /\ ToSet(all) \intersect Better(image, e) = ToSet(seqs[k]) \intersect Better(image, e)
    BY <1>9, <2>1, <2>2
  <2>6. StaysIn(p, image, ToSet(all), e) <=> StaysIn(p, image, ToSet(seqs[k]), e)
    BY <2>5 DEF StaysIn
  <2>7. QED
    BY <2>4, <2>5, <2>6
<1>11. ToSet(all) \subseteq candidates
  <2>1. SUFFICES ASSUME NEW e \in ToSet(all) PROVE e \in candidates
    OBVIOUS
  <2>2. PICK k \in 1..n : e \in ToSet(seqs[k])
    BY <1>5
  <2>3. e \in S /\ e[1] = Labels[k] /\ e \in front(Labels[k])
    BY <1>2, <2>2
  <2>4. QED
    BY <1>8, <2>3
<1>12. AllFast(p, image) = all
  BY DEF AllFast, all, seqs
<1>13. QED
  BY <1>5, <1>10, <1>11, <1>12 DEF S

LEMMA KeptIs ==
  ASSUME NEW p, p.top_k \in Int, p.keep_top_k \in Int, NEW image, IsScored(image)
  PROVE  /\ Kept(p, image) \in Seq(FoundIn(image)) /\ Alone(Kept(p, image))
         /\ IsBest(p, image, ToSet(Kept(p, image)))
<1> DEFINE S == FoundIn(image)
           all == AllFast(p, image)
           K == ToSet(all)
           keep == p.keep_top_k
           t == First(ByScore(image, K), keep)
           rows == ToSet(t)
           candidates == {e \in S : p.top_k > -1 => Cardinality(Better(image, e)) < p.top_k}
<1>1. /\ all \in Seq(S) /\ Alone(all) /\ K \subseteq candidates
      /\ \A e \in candidates : e \in K <=> StaysIn(p, image, K, e)
  BY AllFastIs
<1> HIDE DEF all
<1>2. AreScored(image, S)
  BY FoundOf
<1> HIDE DEF S
<1>3. AreScored(image, K) /\ Cardinality(K) \in Nat
  <2>1. K \subseteq S /\ IsFiniteSet(K)
    <3> HIDE DEF K
    <3>1. QED
      BY <1>1, <1>2, ToSetIs DEF AreScored, K
  <2>2. QED
    BY <1>2, <2>1, FS_CardinalityType DEF AreScored
<1> HIDE DEF K
<1>4. /\ t \in Seq(K) /\ Alone(t) /\ rows = Foremost(image, K, keep)
      /\ Len(t) = IF keep > -1 /\ keep < Cardinality(K) THEN keep ELSE Cardinality(K)
  BY <1>3, TopIs
<1>5. Kept(p, image) = Only(all, rows)
  BY DEF Kept, AllFast, all, K
<1> HIDE DEF t
<1>6. rows \subseteq K /\ Cardinality(rows) = Len(t) /\ IsFiniteSet(rows)
  BY <1>4, ToSetIs
<1> HIDE DEF rows
<1>7. Only(all, rows) \in Seq(S) /\ Alone(Only(all, rows)) /\ ToSet(Only(all, rows)) = rows
  <2>1. Only(all, rows) \in Seq(S) /\ Alone(Only(all, rows)) /\ ToSet(Only(all, rows)) = K \intersect rows
    BY <1>1, OnlyIs DEF K
  <2>2. QED
    BY <1>6, <2>1
<1>8. \A d, e \in K : Score(image, d) > Score(image, e) /\ e \in rows => d \in rows
  <2>1. SUFFICES ASSUME NEW d \in K, NEW e \in K, Score(image, d) > Score(image, e), e \in rows PROVE d \in rows
    OBVIOUS
  <2>2. Cardinality(Above(image, K, d)) < Cardinality(Above(image, K, e))
    BY <1>3, <2>1, AboveIs
  <2>3. Cardinality(Above(image, K, d)) \in Nat /\ Cardinality(Above(image, K, e)) \in Nat
    BY <1>3, AboveIs
  <2>4. keep > -1 => Cardinality(Above(image, K, e)) < keep
    BY <1>4, <2>1 DEF Foremost
  <2>5. keep > -1 => Cardinality(Above(image, K, d)) < keep
    BY <2>2, <2>3, <2>4
  <2>6. QED
    BY <1>4, <2>5 DEF Foremost
<1> DEFINE room == keep > -1 => Cardinality(rows) < keep
<1>9. room => rows = K
  <2>1. SUFFICES ASSUME room PROVE \A e \in K : e \in rows
    BY <1>6
  <2>2. ~(keep > -1 /\ keep < Cardinality(K)) /\ Len(t) = Cardinality(K)
    BY <1>3, <1>4, <1>6, <2>1
  <2>3. SUFFICES ASSUME NEW e \in K, keep > -1 PROVE Cardinality(Above(image, K, e)) < keep
    BY <1>4 DEF Foremost
  <2>4. Cardinality(Above(image, K, e)) \in 0..Cardinality(K) - 1
    BY <1>3, AboveIs
  <2> DEFINE c == Cardinality(K)
             a == Cardinality(Above(image, K, e))
  <2>5. c \in Nat /\ a \in 0..c - 1 /\ keep \in Int /\ ~(keep < c)
    BY <1>3, <2>2, <2>3, <2>4
  <2> HIDE DEF a, c
  <2>6. a < keep
    BY <2>5
  <2>7. QED
    BY <2>6 DEF a
<1>10. ASSUME NEW e \in S, room \/ e \in rows \/ \E d \in rows : Score(image, d) < Score(image, e)
       PROVE  rows \intersect Better(image, e) = K \intersect Better(image, e)
  <2>1. \A d \in S : Score(image, d) \in Nat
    BY <1>2 DEF AreScored
  <2>2. K \subseteq S /\ rows \subseteq K
    BY <1>1, <1>6
  <2>3. CASE room
    BY <1>9, <2>3
  <2>4. CASE e \in rows \/ \E d \in rows : Score(image, d) < Score(image, e)
    <3>1. SUFFICES ASSUME NEW b \in K, b \in Better(image, e) PROVE b \in rows
      BY <2>2
    <3>2. Score(image, b) > Score(image, e)
      BY <3>1 DEF Better, Above
    <3>3. PICK d \in rows : Score(image, b) > Score(image, d)
      <4>1. CASE e \in rows
        BY <3>2, <4>1
      <4>2. CASE \E d \in rows : Score(image, d) < Score(image, e)
        <5>1. PICK d \in rows : Score(image, d) < Score(image, e)
          BY <4>2
        <5>2. Score(image, d) \in Nat /\ Score(image, e) \in Nat /\ Score(image, b) \in Nat
          BY <2>1, <2>2
        <5>3. Score(image, b) > Score(image, d)
          BY <3>2, <5>1, <5>2
        <5>4. QED
          BY <5>3
      <4>3. QED
        BY <2>4, <4>1, <4>2
    <3>4. QED
      BY <1>8, <2>2, <3>3
  <2>5. QED
    BY <1>10, <2>3, <2>4
<1>11. \A e \in rows : StaysIn(p, image, rows, e)
  <2>1. SUFFICES ASSUME NEW e \in rows PROVE StaysIn(p, image, rows, e)
    OBVIOUS
  <2>2. e \in K /\ e \in candidates /\ e \in S
    BY <1>1, <1>6
  <2>3. StaysIn(p, image, K, e) /\ rows \intersect Better(image, e) = K \intersect Better(image, e)
    BY <1>1, <1>10, <2>2
  <2>4. QED
    BY <2>3 DEF StaysIn
<1>12. ASSUME NEW e \in candidates \ rows, room \/ \E d \in rows : Score(image, d) < Score(image, e)
       PROVE  ~StaysIn(p, image, rows, e)
  <2>1. e \in S
    OBVIOUS
  <2>2. rows \intersect Better(image, e) = K \intersect Better(image, e)
    BY <1>10, <1>12, <2>1
  <2>3. e \notin K
    <3>1. CASE room
      BY <1>9, <3>1
    <3>2. CASE \E d \in rows : Score(image, d) < Score(image, e)
      <4>1. PICK d \in rows : Score(image, d) < Score(image, e)
        BY <3>2
      <4>2. d \in S
        BY <1>1, <1>6
      <4>3. Score(image, d) \in Nat /\ Score(image, e) \in Nat
        BY <1>2, <2>1, <4>2 DEF AreScored
      <4>4. Score(image, e) > Score(image, d)
        BY <4>1, <4>3
      <4>5. QED
        BY <1>6, <1>8, <4>4
    <3>3. QED
      BY <1>12, <3>1, <3>2
  <2>4. ~StaysIn(p, image, K, e)
    BY <1>1, <2>3
  <2>5. QED
    BY <2>2, <2>4 DEF StaysIn
<1>13. keep > -1 => Cardinality(rows) <= keep
  BY <1>3, <1>4, <1>6
<1>14. IsBest(p, image, rows)
  <2> DEFINE better(e) == {d \in Found(image, e[1]) : Score(image, d) > Score(image, e)}
             stays(e) == \A d \in rows \intersect better(e) :
                           Overlap(image, d, e) <= p.nms_threshold[Cardinality(rows \intersect better(e))]
  <2>1. \A e : better(e) = Better(image, e)
    BY DEF Better, Above
  <2>2. \A e : stays(e) <=> StaysIn(p, image, rows, e)
    <3> HIDE DEF better
    <3>1. QED
      BY <2>1 DEF StaysIn
  <2>3. candidates = {e \in FoundIn(image) : p.top_k > -1 => Cardinality(better(e)) < p.top_k}
    <3> HIDE DEF better
    <3>1. QED
      BY <2>1 DEF S
  <2>4. rows \subseteq candidates
    BY <1>1, <1>6
  <2> HIDE DEF candidates
  <2>5. /\ rows \subseteq {e \in FoundIn(image) : p.top_k > -1 => Cardinality(better(e)) < p.top_k}
        /\ keep > -1 => Cardinality(rows) <= keep
        /\ \A e \in rows : stays(e)
        /\ \A e \in {e \in FoundIn(image) : p.top_k > -1 => Cardinality(better(e)) < p.top_k} \ rows :
              room \/ (\E d \in rows : Score(image, d) < Score(image, e)) => ~stays(e)
    <3> HIDE DEF better, stays, room
    <3>1. QED
      BY <1>11, <1>12, <1>13, <2>2, <2>3, <2>4
  <2>6. QED
    BY <2>5 DEF IsBest
<1>15. QED
  BY <1>5, <1>7, <1>14 DEF S

-----------------------------------------------------------------------------
(* The rows of a batch *)

LEMMA SourceIs ==
  ASSUME NEW images \in Sources
  PROVE  Len(images) \in Nat \ {0} /\ \A k \in 1..Len(images) : IsScored(images[k])
<1>1. IsSource(images)
  BY DetectionAssumption
<1>2. images \in Seq(ToSet(images)) /\ images # << >>
  BY <1>1 DEF IsSource
<1>3. Len(images) \in Nat \ {0} /\ DOMAIN images = 1..Len(images)
  BY <1>2, EmptySeq, LenProperties
<1>4. QED
  BY <1>1, <1>3 DEF IsSource, IsScored

NamedRow == Nat \X Nat \X Nat
RowOf(name, e) == << name, e[1], e[2] >>

LEMMA NamedIs ==
  ASSUME NEW name \in Nat, NEW kept \in Seq(Place), Alone(kept)
  PROVE  LET named == Named(name, kept)
         IN  /\ named \in Seq(NamedRow) /\ Alone(named)
             /\ \A r : r \in ToSet(named) <=> \E e \in ToSet(kept) : r = RowOf(name, e)
<1> DEFINE n == Len(kept)
           named == Named(name, kept)
<1>1. /\ n \in Nat /\ DOMAIN kept = 1..n /\ ToSet(kept) = {kept[k] : k \in 1..n}
      /\ \A k \in 1..n : kept[k] \in Nat \X Nat
  BY LenProperties, ToSetIs, ElementOfSeq DEF Place
<1>2. named = [k \in 1..n |-> RowOf(name, kept[k])]
  BY <1>1 DEF Named, RowOf
<1>3. \A k \in 1..n : RowOf(name, kept[k]) \in NamedRow
  BY <1>1 DEF RowOf, NamedRow
<1>4. named \in Seq(NamedRow)
  <2>1. named \in [1..n -> NamedRow]
    BY <1>2, <1>3
  <2> HIDE DEF named, n
  <2>2. QED
    BY <1>1, <2>1
<1>5. DOMAIN named = 1..n
  BY <1>2
<1> HIDE DEF named
<1>6. Len(named) = n
  BY <1>1, <1>4, <1>5, LenProperties
<1>7. Alone(named)
  <2>1. SUFFICES ASSUME NEW i \in 1..n, NEW j \in 1..n, named[i] = named[j] PROVE i = j
    BY <1>6 DEF Alone
  <2>2. kept[i] = kept[j]
    <3>1. RowOf(name, kept[i]) = RowOf(name, kept[j])
      BY <1>2, <2>1
    <3>2. kept[i][1] = kept[j][1] /\ kept[i][2] = kept[j][2]
      BY <3>1 DEF RowOf
    <3>3. \A x, y \in Nat \X Nat : x[1] = y[1] /\ x[2] = y[2] => x = y
      OBVIOUS
    <3>4. kept[i] \in Nat \X Nat /\ kept[j] \in Nat \X Nat
      BY <1>1
    <3>5. QED
      BY <3>2, <3>3, <3>4
  <2>3. QED
    BY <2>2 DEF Alone
<1>8. ToSet(named) = {RowOf(name, kept[k]) : k \in 1..n}
  <2>1. ToSet(named) = {named[k] : k \in 1..n}
    BY <1>5 DEF ToSet
  <2>2. QED
    BY <1>2, <2>1
<1>9. QED
  BY <1>1, <1>4, <1>7, <1>8 DEF named

\* The rows of images without any detection
FakeRow == Nat \X {Fake}

\* What a batch puts out
AreRows(p, images, rows) ==
  /\ Alone(rows) /\ rows # << >>
  /\ \/ /\ rows \in Seq(NamedRow)
        /\ \A r : r \in ToSet(rows) <=> \E i \in 1..BatchSize : \E e \in ToSet(Kept(p, images[i])) : r = RowOf(i, e)
     \/ /\ rows \in Seq(FakeRow)
        /\ ToSet(rows) = {<< i, Fake >> : i \in 1..BatchSize}
        /\ \A i \in 1..BatchSize : ToSet(Kept(p, images[i])) = {}

LEMMA RowsOfBatch ==
  ASSUME NEW p \in Settings, NEW images, \A i \in 1..BatchSize : IsScored(images[i])
  PROVE  AreRows(p, images, Rows(p, images))
<1> DEFINE n == BatchSize
           seqs == [i \in 1..n |-> Named(i, Kept(p, images[i]))]
           rows == FlattenSeq(seqs)
           fake == [i \in 1..n |-> << i, Fake >>]
<1>1. n \in Nat \ {0} /\ p.top_k \in Int /\ p.keep_top_k \in Int
  BY DetectionAssumption
<1>2. ASSUME NEW i \in 1..n
      PROVE  /\ seqs[i] \in Seq(NamedRow) /\ Alone(seqs[i])
             /\ \A r : r \in ToSet(seqs[i]) <=> \E e \in ToSet(Kept(p, images[i])) : r = RowOf(i, e)
  <2> DEFINE kept == Kept(p, images[i])
  <2>1. kept \in Seq(FoundIn(images[i])) /\ Alone(kept)
    BY <1>1, KeptIs
  <2>2. FoundIn(images[i]) \subseteq Place
    BY FoundOf DEF Place
  <2> HIDE DEF kept
  <2>3. kept \in Seq(Place)
    BY <2>1, <2>2, SeqMonotonic
  <2> DEFINE named == Named(i, kept)
  <2>4. /\ named \in Seq(NamedRow) /\ Alone(named)
        /\ \A r : r \in ToSet(named) <=> \E e \in ToSet(kept) : r = RowOf(i, e)
    BY <1>1, <2>1, <2>3, NamedIs
  <2>5. seqs[i] = named
    BY DEF kept
  <2> HIDE DEF named, seqs
  <2>6. QED
    BY <2>4, <2>5 DEF kept
<1>3. seqs \in [1..n -> Seq(NamedRow)]
  BY <1>2
<1> HIDE DEF seqs
<1>4. AllAlone(n, seqs)
  <2>1. \A i, j \in 1..n : \A r \in ToSet(seqs[i]) : r \in ToSet(seqs[j]) => i = j
    <3>1. \A i \in 1..n : \A r \in ToSet(seqs[i]) : r[1] = i
      BY <1>2 DEF RowOf
    <3>2. QED
      BY <3>1
  <2>2. QED
    BY <1>2, <2>1 DEF AllAlone
<1>5. IsUnion(NamedRow, n, seqs, rows)
  <2>1. n \in Nat
    BY <1>1
  <2> HIDE DEF n
  <2>2. QED
    BY <1>3, <1>4, <2>1, FlatSet, Zenon
<1> HIDE DEF rows
<1>6. Rows(p, images) = IF rows = << >> THEN fake ELSE rows
  BY DEF Rows, rows, seqs
<1>7. ASSUME NEW r
      PROVE  r \in ToSet(rows) <=> \E i \in 1..n : \E e \in ToSet(Kept(p, images[i])) : r = RowOf(i, e)
  <2>1. r \in ToSet(rows) <=> \E i \in 1..n : r \in ToSet(seqs[i])
    BY <1>5 DEF IsUnion
  <2>2. \A i \in 1..n : r \in ToSet(seqs[i]) <=> \E e \in ToSet(Kept(p, images[i])) : r = RowOf(i, e)
    BY <1>2
  <2>3. QED
    BY <2>1, <2>2, Zenon
<1>8. CASE rows # << >>
  BY <1>5, <1>6, <1>7, <1>8 DEF AreRows, IsUnion
<1>9. CASE rows = << >>
  <2>1. \A i \in 1..n : << i, Fake >> \in FakeRow
    BY <1>1 DEF FakeRow
  <2>2. fake \in Seq(FakeRow)
    <3>1. fake \in [1..n -> FakeRow]
      BY <2>1
    <3> HIDE DEF n, fake
    <3>2. QED
      BY <1>1, <3>1
  <2>3. DOMAIN fake = 1..n /\ \A i \in 1..n : fake[i] = << i, Fake >>
    OBVIOUS
  <2> HIDE DEF fake
  <2>4. Len(fake) = n
    BY <1>1, <2>2, <2>3, LenProperties
  <2>5. fake # << >>
    BY <1>1, <2>2, <2>4, EmptySeq
  <2>6. Alone(fake)
    BY <2>3, <2>4 DEF Alone
  <2>7. ToSet(fake) = {<< i, Fake >> : i \in 1..n}
    BY <2>3 DEF ToSet
  <2>8. \A i \in 1..n : ToSet(Kept(p, images[i])) = {}
    <3>1. ToSet(rows) = {}
      BY <1>9 DEF ToSet
    <3>2. \A i \in 1..n : \A e \in ToSet(Kept(p, images[i])) : RowOf(i, e) \in ToSet(rows)
      BY <1>7
    <3>3. QED
      BY <3>1, <3>2
  <2>9. QED
    BY <1>6, <1>9, <2>2, <2>5, <2>6, <2>7, <2>8 DEF AreRows
<1>10. QED
  BY <1>8, <1>9

\* The rows say which detections of which image are best
BestRows(p, images, rows) ==
  LET found == Only(rows, {r \in ToSet(rows) : r[2] # Fake})
      Of(i) == {<< r[2], r[3] >> : r \in {s \in ToSet(found) : s[1] = i}}
  IN  /\ \A i \in 1..BatchSize : IsBest(p, images[i], Of(i))
      /\ Cardinality(ToSet(found)) = Len(found)
      /\ IF found = << >> THEN {r[1] : r \in ToSet(rows)} = 1..BatchSize ELSE found = rows

LEMMA RowsAreBest ==
  ASSUME NEW p \in Settings, NEW images, \A i \in 1..BatchSize : IsScored(images[i]),
         NEW rows, AreRows(p, images, rows)
  PROVE  BestRows(p, images, rows)
<1> DEFINE real == {r \in ToSet(rows) : r[2] # Fake}
           found == Only(rows, real)
           Of(i) == {<< r[2], r[3] >> : r \in {s \in ToSet(found) : s[1] = i}}
           kept(i) == ToSet(Kept(p, images[i]))
<1>1. ASSUME NEW i \in 1..BatchSize
      PROVE  IsBest(p, images[i], kept(i)) /\ \A e \in kept(i) : e \in Nat \X Nat /\ e = << e[1], e[2] >>
  <2>1. p.top_k \in Int /\ p.keep_top_k \in Int
    BY DetectionAssumption
  <2>2. /\ Kept(p, images[i]) \in Seq(FoundIn(images[i]))
        /\ IsBest(p, images[i], kept(i))
    BY <2>1, KeptIs
  <2> DEFINE s == Kept(p, images[i])
  <2> HIDE DEF s
  <2>3. ToSet(s) \subseteq FoundIn(images[i])
    BY <2>2, ToSetIs DEF s
  <2>4. QED
    BY <2>2, <2>3, FoundOf DEF s
<1>2. CASE /\ rows \in Seq(NamedRow)
           /\ \A r : r \in ToSet(rows) <=> \E i \in 1..BatchSize : \E e \in kept(i) : r = RowOf(i, e)
  <2>1. \A r \in ToSet(rows) : r[2] # Fake
    <3>1. SUFFICES ASSUME NEW r \in ToSet(rows) PROVE r[2] \in Nat
      BY DEF Fake
    <3>2. ToSet(rows) \subseteq NamedRow
      BY <1>2, ToSetIs
    <3>3. QED
      BY <3>2 DEF NamedRow
  <2>2. ToSet(rows) \subseteq real
    BY <2>1
  <2> HIDE DEF real
  <2>3. found = rows /\ Alone(rows) /\ rows # << >>
    BY <1>2, <2>2, OnlyIs DEF AreRows
  <2> HIDE DEF found, kept
  <2>4. Cardinality(ToSet(found)) = Len(found)
    BY <1>2, <2>3, ToSetIs
  <2>5. ASSUME NEW i \in 1..BatchSize PROVE Of(i) = kept(i)
    <3>1. ASSUME NEW e \in kept(i) PROVE e \in Of(i)
      <4>1. RowOf(i, e) \in ToSet(found)
        BY <1>2, <2>3
      <4>2. RowOf(i, e)[1] = i /\ << RowOf(i, e)[2], RowOf(i, e)[3] >> = e
        BY <1>1 DEF RowOf
      <4>3. QED
        BY <4>1, <4>2
    <3>2. ASSUME NEW r \in ToSet(found), r[1] = i PROVE << r[2], r[3] >> \in kept(i)
      <4>1. PICK j \in 1..BatchSize : \E e \in kept(j) : r = RowOf(j, e)
        BY <1>2, <2>3
      <4>2. PICK e \in kept(j) : r = RowOf(j, e)
        BY <4>1
      <4>3. j = i /\ << r[2], r[3] >> = e
        BY <1>1, <3>2, <4>2 DEF RowOf
      <4>4. QED
        BY <4>3
    <3>3. QED
      BY <3>1, <3>2
  <2>6. \A i \in 1..BatchSize : IsBest(p, images[i], Of(i))
    <3> HIDE DEF Of
    <3>1. QED
      BY <1>1, <2>5
  <2>7. QED
    BY <2>3, <2>4, <2>6 DEF BestRows, found, real
<1>3. CASE /\ rows \in Seq(FakeRow)
           /\ ToSet(rows) = {<< i, Fake >> : i \in 1..BatchSize}
           /\ \A i \in 1..BatchSize : kept(i) = {}
  <2>1. real = {}
    BY <1>3
  <2> HIDE DEF real
  <2>2. found \in Seq(FakeRow) /\ ToSet(found) = {} /\ Alone(found)
    BY <1>3, <2>1, OnlyIs DEF AreRows
  <2> HIDE DEF found, kept
  <2>3. Len(found) = 0 /\ Cardinality(ToSet(found)) = Len(found)
    <3>1. Cardinality(ToSet(found)) = Len(found)
      BY <2>2, ToSetIs
    <3>2. QED
      BY <2>2, <3>1, FS_EmptySet
  <2>4. found = << >>
    BY <2>2, <2>3, EmptySeq
  <2>5. \A i \in 1..BatchSize : Of(i) = kept(i)
    BY <1>3, <2>2
  <2>6. \A i \in 1..BatchSize : IsBest(p, images[i], Of(i))
    <3> HIDE DEF Of
    <3>1. QED
      BY <1>1, <2>5
  <2>7. {r[1] : r \in ToSet(rows)} = 1..BatchSize
    <3> DEFINE at(i) == << i, Fake >>
    <3>1. \A i \in 1..BatchSize : at(i) \in ToSet(rows) /\ at(i)[1] = i
      BY <1>3
    <3>2. \A r \in ToSet(rows) : \E i \in 1..BatchSize : r = at(i)
      BY <1>3
    <3> HIDE DEF at
    <3>3. \A r \in ToSet(rows) : r[1] \in 1..BatchSize
      BY <3>1, <3>2
    <3>4. QED
      BY <3>1, <3>3
  <2>8. QED
    BY <2>3, <2>4, <2>6, <2>7 DEF BestRows, found, real
<1>4. QED
  BY <1>2, <1>3 DEF AreRows

\* The i-th image of the batch before this one
SeenImage(i) == source[((cursor - BatchSize + i - 1) % Len(source)) + 1]

SeenInv ==
  /\ layer \in Settings /\ source \in Sources
  /\ cursor \in 0..Len(source) - 1
  /\ top # << >> => top = Rows(layer, [i \in 1..BatchSize |-> SeenImage(i)])

LEMMA SeenNext == SeenInv /\ [Detect]_detectVars => SeenInv'
<1>1. SUFFICES ASSUME SeenInv, Detect PROVE SeenInv'
  <2>1. ASSUME SeenInv, UNCHANGED detectVars PROVE SeenInv'
    <3>1. layer' = layer /\ source' = source /\ cursor' = cursor /\ top' = top
      BY <2>1 DEF detectVars
    <3>2. QED
      BY <2>1, <3>1 DEF SeenInv, SeenImage
  <2>2. QED
    BY <2>1
<1> DEFINE n == Len(source)
           B == BatchSize
<1>2. /\ layer' = layer /\ source' = source /\ cursor' = (cursor + B) % n
      /\ top' = Rows(layer, Batch)
  BY <1>1 DEF Detect
<1>3. /\ layer \in Settings /\ source \in Sources /\ n \in Nat \ {0} /\ cursor \in 0..n - 1
      /\ B \in Nat \ {0}
  BY <1>1, SourceIs, DetectionAssumption DEF SeenInv
<1> HIDE DEF n, B
<1>4. cursor' \in 0..n - 1
  BY <1>2, <1>3, Z3T(20)
<1>5. ASSUME NEW i \in 1..B PROVE (cursor' - B + i - 1) % n = (cursor + i - 1) % n
  <2> DEFINE x == cursor + B
             y == -B + i - 1
  <2>1. x \in Int /\ y \in Int /\ x + y = cursor + i - 1
    BY <1>3
  <2> HIDE DEF x, y
  <2>2. ((x % n) + y) % n = (x + y) % n
    BY <1>3, <2>1, RemainderOfSum
  <2>3. cursor' = x % n /\ cursor' - B + i - 1 = cursor' + y
    BY <1>2, <1>3, <1>4 DEF x, y
  <2>4. QED
    BY <2>1, <2>2, <2>3
<1>6. Batch = [i \in 1..B |-> source'[((cursor' - B + i - 1) % n) + 1]]
  <2>1. \A i \in 1..B : source[((cursor + i - 1) % n) + 1] = source'[((cursor' - B + i - 1) % n) + 1]
    BY <1>2, <1>5
  <2> HIDE DEF n, B
  <2>2. QED
    BY <2>1 DEF Batch, n, B
<1>7. top' = Rows(layer', [i \in 1..B |-> source'[((cursor' - B + i - 1) % n) + 1]])
  BY <1>2, <1>6
<1>8. Len(source') = n
  BY <1>2 DEF n
<1>9. QED
  BY <1>2, <1>3, <1>4, <1>7, <1>8 DEF SeenInv, SeenImage, B

LEMMA SeenBest == SeenInv => DetectionsBest
<1>1. SUFFICES ASSUME SeenInv, top # << >> PROVE DetectionsBest
  BY DEF DetectionsBest
<1> DEFINE n == Len(source)
           images == [i \in 1..BatchSize |-> SeenImage(i)]
<1>2. /\ layer \in Settings /\ source \in Sources /\ cursor \in Nat /\ n \in Nat \ {0} /\ BatchSize \in Nat
      /\ top = Rows(layer, images) /\ \A k \in 1..n : IsScored(source[k])
  BY <1>1, SourceIs, DetectionAssumption DEF SeenInv
<1>3. ASSUME NEW i \in 1..BatchSize PROVE IsScored(images[i])
  <2> DEFINE x == cursor - BatchSize + i - 1
  <2>1. x \in Int
    BY <1>2
  <2> HIDE DEF x, n
  <2>2. x % n \in 0..n - 1
    BY <1>2, <2>1, Z3T(20)
  <2>3. (x % n) + 1 \in 1..n
    BY <1>2, <2>2
  <2>4. images[i] = source[(x % n) + 1]
    BY DEF SeenImage, x, n
  <2>5. QED
    BY <1>2, <2>3, <2>4
<1> HIDE DEF images
<1>4. BestRows(layer, images, top)
  BY <1>2, <1>3, RowsOfBatch, RowsAreBest
<1>5. \A i \in 1..BatchSize : images[i] = SeenImage(i)
  BY DEF images
<1>6. QED
  BY <1>4, <1>5 DEF DetectionsBest, BestRows, SeenImage

\* A batch puts out the best detections of each of its images
\* (detection_output_layer.cpp:211-275, :297-370, bbox_util.cpp:1900-1935).
THEOREM DetectedAreBest == DetectSpec => []DetectionsBest
<1>1. DetectInit => SeenInv
  <2>1. SUFFICES ASSUME DetectInit PROVE SeenInv
    OBVIOUS
  <2>2. layer \in Settings /\ source \in Sources /\ cursor = 0 /\ top = << >>
    BY <2>1 DEF DetectInit
  <2>3. Len(source) \in Nat \ {0}
    BY <2>2, SourceIs
  <2>4. QED
    BY <2>2, <2>3 DEF SeenInv
<1>2. QED
  BY <1>1, SeenNext, SeenBest, PTL DEF DetectSpec

-----------------------------------------------------------------------------
(* What is saved *)

LEMMA ConcatSet ==
  ASSUME NEW S, NEW s \in Seq(S), NEW t \in Seq(S)
  PROVE  /\ s \o t \in Seq(S) /\ ToSet(s \o t) = ToSet(s) \union ToSet(t)
         /\ Alone(s) /\ Alone(t) /\ ToSet(s) \intersect ToSet(t) = {} => Alone(s \o t)
<1> DEFINE m == Len(s)
           n == Len(t)
           st == s \o t
<1>1. /\ m \in Nat /\ n \in Nat /\ st \in Seq(S) /\ Len(st) = m + n
      /\ \A i \in 1..m + n : st[i] = IF i <= m THEN s[i] ELSE t[i - m]
  BY ConcatProperties, LenProperties
<1> HIDE DEF st
<1>2. ToSet(s) = {s[i] : i \in 1..m} /\ ToSet(t) = {t[i] : i \in 1..n} /\ ToSet(st) = {st[i] : i \in 1..m + n}
  BY <1>1, ToSetIs
<1> HIDE DEF m, n
<1>3. \A i \in 1..m + n : \/ i \in 1..m /\ st[i] = s[i]
                          \/ i - m \in 1..n /\ ~(i <= m) /\ st[i] = t[i - m]
  BY <1>1
<1>4. (\A i \in 1..m : i \in 1..m + n /\ st[i] = s[i]) /\ (\A i \in 1..n : i + m \in 1..m + n /\ st[i + m] = t[i])
  <2>1. \A i \in 1..n : i + m \in 1..m + n /\ i + m - m = i /\ ~(i + m <= m)
    BY <1>1
  <2>2. \A i \in 1..m : i \in 1..m + n /\ i <= m
    BY <1>1
  <2>3. QED
    BY <1>1, <2>1, <2>2
<1>5. ToSet(st) = ToSet(s) \union ToSet(t)
  <2>1. \A x \in ToSet(st) : x \in ToSet(s) \union ToSet(t)
    BY <1>2, <1>3
  <2>2. \A x \in ToSet(s) \union ToSet(t) : x \in ToSet(st)
    BY <1>2, <1>4
  <2>3. QED
    BY <2>1, <2>2
<1>6. ASSUME Alone(s), Alone(t), ToSet(s) \intersect ToSet(t) = {} PROVE Alone(st)
  <2>1. SUFFICES ASSUME NEW i \in 1..m + n, NEW j \in 1..m + n, st[i] = st[j] PROVE i = j
    BY <1>1 DEF Alone
  <2>2. CASE i \in 1..m /\ st[i] = s[i] /\ j \in 1..m /\ st[j] = s[j]
    BY <1>6, <2>1, <2>2 DEF Alone, m
  <2>3. CASE i - m \in 1..n /\ st[i] = t[i - m] /\ j - m \in 1..n /\ st[j] = t[j - m]
    <3>1. i - m = j - m
      BY <1>6, <2>1, <2>3 DEF Alone, n
    <3>2. QED
      BY <1>1, <3>1
  <2>4. CASE i \in 1..m /\ st[i] = s[i] /\ j - m \in 1..n /\ st[j] = t[j - m]
    BY <1>2, <1>6, <2>1, <2>4
  <2>5. CASE i - m \in 1..n /\ st[i] = t[i - m] /\ j \in 1..m /\ st[j] = s[j]
    BY <1>2, <1>6, <2>1, <2>5
  <2>6. QED
    BY <1>3, <2>2, <2>3, <2>4, <2>5
<1>7. QED
  BY <1>1, <1>5, <1>6 DEF st

LEMMA DetectedIs ==
  ASSUME NEW k \in Nat
  PROVE  /\ Detected(0) = {}
         /\ \A r : r \in Detected(k + 1) <=>
              r \in Detected(k) \/ \E e \in ToSet(Kept(layer, source[k + 1])) : r = RowOf(k + 1, e)
         /\ \A r \in Detected(k) : r[1] \in 1..k
<1>1. \A n \in Nat : \A r : r \in Detected(n) <=> \E i \in 1..n : \E e \in ToSet(Kept(layer, source[i])) : r = RowOf(i, e)
  BY DEF Detected, RowOf
<1>2. k + 1 \in Nat /\ 1..k + 1 = 1..k \union {k + 1} /\ 1..0 = {}
  OBVIOUS
<1>3. Detected(0) = {}
  BY <1>1, <1>2
<1>4. ASSUME NEW r
      PROVE  r \in Detected(k + 1) <=>
               r \in Detected(k) \/ \E e \in ToSet(Kept(layer, source[k + 1])) : r = RowOf(k + 1, e)
  <2>1. r \in Detected(k + 1) <=> \E i \in 1..k + 1 : \E e \in ToSet(Kept(layer, source[i])) : r = RowOf(i, e)
    BY <1>1, <1>2
  <2>2. r \in Detected(k) <=> \E i \in 1..k : \E e \in ToSet(Kept(layer, source[i])) : r = RowOf(i, e)
    BY <1>1
  <2>3. QED
    BY <1>2, <2>1, <2>2
<1>5. \A r \in Detected(k) : r[1] \in 1..k
  <2>1. SUFFICES ASSUME NEW r \in Detected(k) PROVE r[1] \in 1..k
    OBVIOUS
  <2>2. PICK i \in 1..k : \E e \in ToSet(Kept(layer, source[i])) : r = RowOf(i, e)
    BY <1>1
  <2>3. r[1] = i
    BY <2>2 DEF RowOf
  <2>4. QED
    BY <2>3
<1>6. QED
  BY <1>3, <1>4, <1>5

\* One round, written out
IsRound(fs) ==
  \A f \in Files(layer) :
    Alone(fs[f]) /\ ToSet(fs[f]) = {d \in Detected(num_test_image_) : f = One \/ d[2] = f}

Saved == [count : Nat, found : Seq(NamedRow), files : [Files(layer) -> Seq(NamedRow)]]

GoodSaved(m) ==
  /\ m \in Saved /\ m.count \in 0..num_test_image_ - 1
  /\ Alone(m.found) /\ ToSet(m.found) = Detected(m.count)
  /\ (\A f \in Files(layer) : m.files[f] = << >>) \/ IsRound(m.files)

LEMMA SaveTyped ==
  ASSUME NEW m \in Saved, NEW kept \in Seq(Place), Alone(kept), num_test_image_ \in Nat \ {0}
  PROVE  LET found == m.found \o Named(m.count + 1, kept)
         IN  /\ Save(m, kept) \in Saved /\ found \in Seq(NamedRow)
             /\ ToSet(found) = ToSet(m.found) \union ToSet(Named(m.count + 1, kept))
             /\ \A f \in Files(layer) : Write(layer, found)[f] \in Seq(NamedRow)
<1> DEFINE count == m.count + 1
           named == Named(count, kept)
           found == m.found \o named
           wrote == Write(layer, found)
<1>1. /\ m = [count |-> m.count, found |-> m.found, files |-> m.files]
      /\ m.count \in Nat /\ count \in Nat /\ m.found \in Seq(NamedRow) /\ m.files \in [Files(layer) -> Seq(NamedRow)]
  BY DEF Saved
<1>2. named \in Seq(NamedRow)
  BY <1>1, NamedIs
<1> HIDE DEF named
<1>3. found \in Seq(NamedRow) /\ ToSet(found) = ToSet(m.found) \union ToSet(named)
  BY <1>1, <1>2, ConcatSet
<1> HIDE DEF found
<1>4. \A f \in Files(layer) : wrote[f] \in Seq(NamedRow)
  <2>1. SUFFICES ASSUME NEW f \in Files(layer) PROVE wrote[f] \in Seq(NamedRow)
    OBVIOUS
  <2> DEFINE part == {d \in ToSet(found) : d[2] = f}
  <2>2. wrote[f] = IF f = One THEN found ELSE Only(found, part)
    BY DEF Write
  <2> HIDE DEF part
  <2>3. QED
    BY <1>3, <2>2, OnlyIs
<1>5. wrote \in [Files(layer) -> Seq(NamedRow)]
  <2>1. wrote = [f \in Files(layer) |-> IF f = One THEN found ELSE Only(found, {d \in ToSet(found) : d[2] = f})]
    BY DEF Write
  <2>2. DOMAIN wrote = Files(layer) /\ wrote = [f \in DOMAIN wrote |-> wrote[f]]
    BY <2>1
  <2> HIDE DEF wrote
  <2>3. QED
    BY <1>4, <2>2
<1> HIDE DEF wrote
<1>6. Save(m, kept) = IF count % num_test_image_ = 0 THEN [count |-> 0, found |-> << >>, files |-> wrote]
                      ELSE [count |-> count, found |-> found, files |-> m.files]
  BY <1>1, Zenon DEF Save, found, named, wrote
<1>7. << >> \in Seq(NamedRow)
  BY EmptySeq
<1> HIDE DEF count
<1>8. Save(m, kept) \in Saved
  BY <1>1, <1>3, <1>5, <1>6, <1>7 DEF Saved
<1>9. QED
  BY <1>3, <1>4, <1>8 DEF found, named, wrote, count

LEMMA KeptOfSource ==
  ASSUME layer \in Settings, source \in Sources, NEW k \in 1..Len(source)
  PROVE  Kept(layer, source[k]) \in Seq(Place) /\ Alone(Kept(layer, source[k]))
<1>1. IsScored(source[k]) /\ layer.top_k \in Int /\ layer.keep_top_k \in Int
  BY SourceIs, DetectionAssumption
<1> DEFINE kept == Kept(layer, source[k])
<1>2. kept \in Seq(FoundIn(source[k])) /\ Alone(kept)
  BY <1>1, KeptIs
<1>3. FoundIn(source[k]) \subseteq Place
  BY <1>1, FoundOf DEF Place
<1> HIDE DEF kept
<1>4. kept \in Seq(Place)
  BY <1>2, <1>3, SeqMonotonic
<1>5. QED
  BY <1>2, <1>4 DEF kept

\* The next image is added under its own name, and the last one ends the round
LEMMA SaveGood ==
  ASSUME layer \in Settings, source \in Sources, NEW m, GoodSaved(m)
  PROVE  LET new == Save(m, Kept(layer, source[m.count + 1]))
         IN  GoodSaved(new) /\ new.count = (m.count + 1) % num_test_image_
<1> DEFINE n == num_test_image_
           count == m.count + 1
           kept == Kept(layer, source[count])
           named == Named(count, kept)
           found == m.found \o named
           wrote == Write(layer, found)
           new == Save(m, kept)
<1>1. /\ n \in Nat \ {0} /\ m \in Saved /\ m.count \in 0..n - 1 /\ Alone(m.found) /\ ToSet(m.found) = Detected(m.count)
      /\ (\A f \in Files(layer) : m.files[f] = << >>) \/ IsRound(m.files)
  BY SourceIs DEF GoodSaved, num_test_image_
<1>2. count \in 1..n /\ m.count \in Nat /\ count \in Nat
  BY <1>1
<1>3. kept \in Seq(Place) /\ Alone(kept)
  BY <1>2, KeptOfSource DEF num_test_image_
<1> HIDE DEF kept
<1>4. /\ new \in Saved /\ found \in Seq(NamedRow) /\ ToSet(found) = ToSet(m.found) \union ToSet(named)
      /\ \A f \in Files(layer) : wrote[f] \in Seq(NamedRow)
  BY <1>1, <1>3, SaveTyped
<1>5. named \in Seq(NamedRow) /\ Alone(named) /\ \A r : r \in ToSet(named) <=> \E e \in ToSet(kept) : r = RowOf(count, e)
  BY <1>2, <1>3, NamedIs
<1>6. new = IF count % n = 0 THEN [count |-> 0, found |-> << >>, files |-> wrote]
            ELSE [count |-> count, found |-> found, files |-> m.files]
  BY Zenon DEF Save
<1> HIDE DEF named, new, n
<1>7. ToSet(found) = Detected(count)
  <2>1. \A r : r \in Detected(count) <=> r \in Detected(m.count) \/ \E e \in ToSet(kept) : r = RowOf(count, e)
    BY <1>2, DetectedIs DEF kept
  <2> HIDE DEF found, count
  <2>2. \A r : r \in ToSet(found) <=> r \in Detected(count)
    BY <1>1, <1>4, <1>5, <2>1
  <2>3. QED
    BY <2>2
<1>8. Alone(found)
  <2>1. ToSet(m.found) \intersect ToSet(named) = {}
    <3>1. SUFFICES ASSUME NEW r \in ToSet(m.found), r \in ToSet(named) PROVE FALSE
      OBVIOUS
    <3>2. r[1] \in 1..m.count
      BY <1>1, <1>2, DetectedIs
    <3>3. r[1] = count
      BY <1>5, <3>1 DEF RowOf
    <3>4. QED
      BY <1>2, <3>2, <3>3
  <2>2. m.found \in Seq(NamedRow)
    BY <1>1 DEF Saved
  <2>3. QED
    BY <1>1, <1>5, <2>1, <2>2, ConcatSet
<1> HIDE DEF found
<1>9. CASE count = n
  <2>1. count % n = 0 /\ n % n = 0
    <3>1. \A x \in Nat \ {0} : x % x = 0
      <4>1. SUFFICES ASSUME NEW x \in Nat \ {0} PROVE x % x = 0
        OBVIOUS
      <4>2. x = x * 1 + 0 /\ 0 \in 0..x - 1
        OBVIOUS
      <4>3. QED
        BY <4>2, RemainderIs
    <3>2. QED
      BY <1>1, <1>9, <3>1
  <2>2. new = [count |-> 0, found |-> << >>, files |-> wrote]
    BY <1>6, <2>1
  <2>3. ToSet(<< >>) = {} /\ Alone(<< >>) /\ Detected(0) = {}
    BY <1>2, DetectedIs DEF ToSet, Alone
  <2>4. IsRound(wrote)
    <3>1. SUFFICES ASSUME NEW f \in Files(layer)
                   PROVE  Alone(wrote[f]) /\ ToSet(wrote[f]) = {d \in Detected(n) : f = One \/ d[2] = f}
      BY DEF IsRound, n
    <3> DEFINE part == {d \in ToSet(found) : d[2] = f}
    <3>2. wrote[f] = IF f = One THEN found ELSE Only(found, part)
      BY DEF Write
    <3>3. CASE f = One
      BY <1>7, <1>8, <1>9, <3>2, <3>3
    <3>4. CASE f # One
      <4>1. part = {d \in Detected(n) : f = One \/ d[2] = f} /\ part \subseteq ToSet(found)
        BY <1>7, <1>9, <3>4
      <4> HIDE DEF part, wrote
      <4>2. Alone(Only(found, part)) /\ ToSet(Only(found, part)) = part
        BY <1>4, <1>8, <4>1, OnlyIs
      <4>3. QED
        BY <3>2, <3>4, <4>1, <4>2
    <3>5. QED
      BY <3>3, <3>4
  <2> HIDE DEF wrote, count
  <2>5. new.count = 0 /\ new.found = << >> /\ new.files = wrote /\ 0 \in 0..n - 1
    BY <1>1, <2>2
  <2>6. GoodSaved(new)
    BY <1>4, <2>3, <2>4, <2>5 DEF GoodSaved, n
  <2>7. QED
    BY <2>1, <2>5, <2>6 DEF new, count, kept, n
<1>10. CASE count # n
  <2>1. count % n = count
    <3>1. count = n * 0 + count /\ count \in 0..n - 1
      BY <1>1, <1>2, <1>10
    <3> HIDE DEF count
    <3>2. QED
      BY <1>1, <1>2, <3>1, RemainderIs
  <2>2. count # 0 /\ count \in 0..n - 1
    BY <1>1, <1>2, <1>10
  <2> HIDE DEF wrote, count
  <2>3. new = [count |-> count, found |-> found, files |-> m.files]
    BY <1>6, <2>1, <2>2
  <2>4. new.count = count /\ new.found = found /\ new.files = m.files
    BY <2>3
  <2>5. GoodSaved(new)
    BY <1>1, <1>4, <1>7, <1>8, <2>2, <2>4 DEF GoodSaved, n
  <2>6. QED
    BY <2>1, <2>4, <2>5 DEF new, count, kept, n
<1>11. QED
  BY <1>9, <1>10

SavedInv ==
  /\ layer \in Settings /\ source \in Sources
  /\ cursor \in 0..num_test_image_ - 1 /\ name_count_ = cursor
  /\ detections_ \in Seq(NamedRow) /\ Alone(detections_) /\ ToSet(detections_) = Detected(name_count_)
  /\ files \in [Files(layer) -> Seq(NamedRow)]
  /\ (\A f \in Files(layer) : files[f] = << >>) \/ IsRound(files)

\* Over the images of a batch
LEMMA SavedBatch ==
  ASSUME SavedInv, NEW saved, NEW start,
         start = [count |-> name_count_, found |-> detections_, files |-> Reshape],
         saved = CHOOSE f : f = [k \in 0..BatchSize |-> IF k = 0 THEN start
                                                        ELSE Save(f[k - 1], Kept(layer, Batch[k]))]
  PROVE  GoodSaved(saved[BatchSize]) /\ saved[BatchSize].count = (cursor + BatchSize) % num_test_image_
<1> DEFINE n == num_test_image_
           B == BatchSize
           at(k) == ((cursor + k - 1) % n) + 1
           kept(k) == Kept(layer, Batch[k])
           X == Saved
           F == [k \in 1..B |-> [m \in X |-> Save(m, kept(k))]]
           Is(f) == f = [k \in 0..B |-> IF k = 0 THEN start ELSE Save(f[k - 1], kept(k))]
<1>1. /\ layer \in Settings /\ source \in Sources /\ n \in Nat \ {0} /\ B \in Nat \ {0}
      /\ cursor \in 0..n - 1 /\ name_count_ = cursor
      /\ detections_ \in Seq(NamedRow) /\ Alone(detections_) /\ ToSet(detections_) = Detected(name_count_)
      /\ files \in [Files(layer) -> Seq(NamedRow)]
      /\ (\A f \in Files(layer) : files[f] = << >>) \/ IsRound(files)
  BY SourceIs, DetectionAssumption DEF SavedInv, num_test_image_
<1>2. GoodSaved(start) /\ start.count = cursor
  <2>1. start.count = name_count_ /\ start.found = detections_ /\ start.files = Reshape
    OBVIOUS
  <2>2. name_count_ \in Nat
    BY <1>1
  <2>3. << >> \in Seq(NamedRow)
    BY EmptySeq
  <2>4. Reshape = files \/ (Reshape \in [Files(layer) -> Seq(NamedRow)] /\ \A f \in Files(layer) : Reshape[f] = << >>)
    BY <1>1, <2>3 DEF Reshape
  <2>5. Reshape \in [Files(layer) -> Seq(NamedRow)]
    BY <1>1, <2>4
  <2>6. start \in Saved
    BY <1>1, <2>2, <2>5 DEF Saved
  <2>7. (\A f \in Files(layer) : Reshape[f] = << >>) \/ IsRound(Reshape)
    BY <1>1, <2>4
  <2>8. GoodSaved(start)
    BY <1>1, <2>1, <2>6, <2>7 DEF GoodSaved
  <2>9. QED
    BY <1>1, <2>1, <2>8
<1>3. ASSUME NEW k \in 1..B
      PROVE  at(k) \in 1..n /\ Batch[k] = source[at(k)] /\ kept(k) \in Seq(Place) /\ Alone(kept(k))
  <2> DEFINE x == cursor + k - 1
  <2>1. Batch[k] = source[at(k)]
    BY DEF Batch, num_test_image_
  <2>2. x \in Int
    BY <1>1
  <2> HIDE DEF x, n
  <2>3. x % n \in 0..n - 1
    BY <1>1, <2>2, Z3T(20)
  <2>4. at(k) \in 1..n
    BY <1>1, <2>3 DEF x
  <2> HIDE DEF at
  <2>5. QED
    BY <1>1, <2>1, <2>4, KeptOfSource DEF n, num_test_image_
<1>4. F \in [1..B -> [X -> X]] /\ start \in X
  <2>1. ASSUME NEW k \in 1..B, NEW m \in X PROVE Save(m, kept(k)) \in X
    <3> HIDE DEF kept, n
    <3>1. QED
      BY <1>1, <1>3, SaveTyped DEF n
  <2> HIDE DEF kept
  <2>2. QED
    BY <1>2, <2>1 DEF GoodSaved
<1> HIDE DEF kept, F, X
<1>5. \E f : Is(f)
  <2>1. B \in Nat
    BY <1>1
  <2> HIDE DEF B
  <2>2. PICK f : Loop(f, X, start, B, F)
    BY <1>4, <2>1, LoopExists, Zenon
  <2>3. f \in [0..B -> X] /\ f[0] = start /\ \A k \in 1..B : f[k] = F[k][f[k - 1]]
    BY <2>2 DEF Loop
  <2>4. \A k \in 1..B : k - 1 \in 0..B
    BY <2>1
  <2>5. \A k \in 1..B : f[k] = Save(f[k - 1], kept(k))
    BY <2>3, <2>4 DEF F
  <2>6. \A k \in 0..B : k = 0 \/ k \in 1..B
    BY <2>1
  <2>7. \A k \in 0..B : f[k] = IF k = 0 THEN start ELSE Save(f[k - 1], kept(k))
    BY <2>3, <2>5, <2>6
  <2>8. Is(f)
    BY <2>3, <2>7
  <2> HIDE DEF Is
  <2>9. QED
    BY <2>8
<1>6. saved = CHOOSE f : Is(f)
  BY DEF kept
<1>7. Is(saved)
  <2> HIDE DEF Is
  <2>1. QED
    BY <1>5, <1>6
<1>8. saved[0] = start /\ \A k \in 1..B : saved[k] = Save(saved[k - 1], kept(k))
  <2>1. 0 \in 0..B /\ \A k \in 1..B : k \in 0..B /\ k # 0
    BY <1>1
  <2> HIDE DEF B
  <2>2. \A k \in 0..B : saved[k] = IF k = 0 THEN start ELSE Save(saved[k - 1], kept(k))
    BY <1>7
  <2>3. QED
    BY <2>1, <2>2
<1> DEFINE Ok == {k \in Nat : k <= B => GoodSaved(saved[k]) /\ saved[k].count = (cursor + k) % n}
<1>9. 0 \in Ok
  <2>1. (cursor + 0) % n = cursor
    <3> HIDE DEF n
    <3>1. n \in Nat \ {0} /\ cursor \in 0..n - 1 /\ cursor + 0 = cursor
      BY <1>1
    <3>2. cursor % n = cursor
      BY <3>1, RemainderOfLess, Zenon
    <3>3. QED
      BY <3>1, <3>2
  <2>2. QED
    BY <1>2, <1>8, <2>1
<1>10. ASSUME NEW k \in Nat, k \in Ok PROVE k + 1 \in Ok
  <2>1. SUFFICES ASSUME k + 1 <= B
                 PROVE  GoodSaved(saved[k + 1]) /\ saved[k + 1].count = (cursor + (k + 1)) % n
    OBVIOUS
  <2> DEFINE m == saved[k]
             new == saved[k + 1]
  <2>2. GoodSaved(m) /\ m.count = (cursor + k) % n
    BY <1>1, <1>10, <2>1
  <2>3. k + 1 \in 1..B /\ k + 1 - 1 = k
    BY <1>1, <2>1
  <2>4. new = Save(m, kept(k + 1))
    BY <1>8, <2>3
  <2> HIDE DEF m, new
  <2>5. m.count + 1 = at(k + 1)
    <3>1. cursor + (k + 1) - 1 = cursor + k
      BY <1>1
    <3>2. QED
      BY <2>2, <3>1
  <2>6. kept(k + 1) = Kept(layer, source[m.count + 1])
    BY <1>3, <2>3, <2>5 DEF kept
  <2>7. GoodSaved(new) /\ new.count = (m.count + 1) % n
    BY <1>1, <2>2, <2>4, <2>6, SaveGood
  <2>8. (((cursor + k) % n) + 1) % n = (cursor + (k + 1)) % n
    <3> HIDE DEF n
    <3>1. cursor + k \in Int /\ (cursor + k) + 1 = cursor + (k + 1)
      BY <1>1
    <3> DEFINE x == cursor + k
    <3>2. x \in Int /\ n \in Nat \ {0} /\ 1 \in Int
      BY <1>1, <3>1
    <3> HIDE DEF x
    <3>3. ((x % n) + 1) % n = (x + 1) % n
      BY <3>2, RemainderOfSum, Zenon
    <3>4. QED
      BY <3>1, <3>3 DEF x
  <2>9. QED
    BY <2>2, <2>7, <2>8 DEF new
<1>11. B \in Ok
  <2>1. \A k \in Nat : k \in Ok
    <3> HIDE DEF Ok
    <3>1. QED
      BY <1>9, <1>10, Inductive
  <2>2. QED
    BY <1>1, <2>1
<1>12. QED
  BY <1>1, <1>11

LEMMA SavedNext == SavedInv /\ [Detect]_detectVars => SavedInv'
<1>1. ASSUME SavedInv, UNCHANGED detectVars PROVE SavedInv'
  <2>1. /\ layer' = layer /\ source' = source /\ cursor' = cursor /\ name_count_' = name_count_
        /\ detections_' = detections_ /\ files' = files
    BY <1>1 DEF detectVars
  <2>2. QED
    BY <1>1, <2>1 DEF SavedInv, IsRound, Detected, num_test_image_
<1>2. ASSUME SavedInv, Detect PROVE SavedInv'
  <2> DEFINE start == [count |-> name_count_, found |-> detections_, files |-> Reshape]
             saved == CHOOSE f : f = [k \in 0..BatchSize |-> IF k = 0 THEN start
                                                             ELSE Save(f[k - 1], Kept(layer, Batch[k]))]
             end == saved[BatchSize]
  <2>1. /\ name_count_' = end.count /\ detections_' = end.found /\ files' = end.files
        /\ cursor' = (cursor + BatchSize) % Len(source) /\ layer' = layer /\ source' = source
    BY <1>2, Zenon DEF Detect
  <2>2. GoodSaved(end) /\ end.count = (cursor + BatchSize) % num_test_image_
    BY <1>2, SavedBatch
  <2> HIDE DEF saved
  <2> HIDE DEF end
  <2>3. end \in Saved /\ end.count \in 0..num_test_image_ - 1
    BY <2>2 DEF GoodSaved
  <2>4. Files(layer)' = Files(layer) /\ num_test_image_' = num_test_image_
    BY <2>1 DEF num_test_image_
  <2>5. Detected(name_count_)' = Detected(end.count) /\ Detected(num_test_image_)' = Detected(num_test_image_)
    BY <2>1, <2>4 DEF Detected
  <2>6. /\ detections_' \in Seq(NamedRow) /\ Alone(detections_') /\ ToSet(detections_') = Detected(name_count_)'
        /\ files' \in [Files(layer)' -> Seq(NamedRow)]
        /\ (\A f \in Files(layer)' : files'[f] = << >>) \/ IsRound(files)'
    <3>1. end.found \in Seq(NamedRow) /\ end.files \in [Files(layer) -> Seq(NamedRow)]
      BY <2>3 DEF Saved
    <3>2. IsRound(end.files) => IsRound(files)'
      BY <2>1, <2>4, <2>5 DEF IsRound
    <3>3. QED
      BY <2>1, <2>2, <2>4, <2>5, <3>1, <3>2 DEF GoodSaved
  <2>7. /\ layer' \in Settings /\ source' \in Sources /\ num_test_image_' = num_test_image_
        /\ cursor' \in 0..num_test_image_' - 1 /\ name_count_' = cursor'
    BY <1>2, <2>1, <2>2, <2>3 DEF SavedInv, num_test_image_
  <2>8. QED
    BY <2>6, <2>7 DEF SavedInv
<1>3. QED
  BY <1>1, <1>2

LEMMA SavedIs == SavedInv => SavedExact
<1>1. SUFFICES ASSUME SavedInv PROVE SavedExact
  OBVIOUS
<1>2. /\ detections_ \in Seq(NamedRow) /\ files \in [Files(layer) -> Seq(NamedRow)]
      /\ Alone(detections_) /\ ToSet(detections_) = Detected(name_count_)
      /\ (\A f \in Files(layer) : files[f] = << >>) \/ IsRound(files)
  BY <1>1 DEF SavedInv
<1>3. \A s \in Seq(NamedRow) : Alone(s) => Once(s, ToSet(s))
  BY ToSetIs DEF Once
<1>4. Once(detections_, Detected(name_count_))
  BY <1>2, <1>3
<1>5. IsRound(files) => \A f \in DOMAIN files : Once(files[f], {d \in Detected(num_test_image_) : f = One \/ d[2] = f})
  <2>1. SUFFICES ASSUME IsRound(files), NEW f \in Files(layer)
                 PROVE  Once(files[f], {d \in Detected(num_test_image_) : f = One \/ d[2] = f})
    BY <1>2
  <2>2. /\ Alone(files[f]) /\ files[f] \in Seq(NamedRow)
        /\ ToSet(files[f]) = {d \in Detected(num_test_image_) : f = One \/ d[2] = f}
    BY <1>2, <2>1 DEF IsRound
  <2>3. Once(files[f], ToSet(files[f]))
    BY <1>3, <2>2
  <2>4. QED
    BY <2>2, <2>3
<1>6. name_count_ = cursor /\ DOMAIN files = Files(layer)
  BY <1>1, <1>2 DEF SavedInv
<1>7. QED
  BY <1>2, <1>4, <1>5, <1>6 DEF SavedExact

\* What is saved is one whole round, each image under its own name and each
\* detection once, however rounds and batches lie to each other
\* (detection_output_layer.cpp:130-149, :371-457).
THEOREM RoundsAreSaved == DetectSpec => []SavedExact
<1>1. DetectInit => SavedInv
  <2>1. SUFFICES ASSUME DetectInit PROVE SavedInv
    OBVIOUS
  <2>2. /\ layer \in Settings /\ source \in Sources /\ cursor = 0 /\ name_count_ = 0 /\ detections_ = << >>
        /\ files = [f \in Files(layer) |-> << >>]
    BY <2>1 DEF DetectInit
  <2>3. num_test_image_ \in Nat \ {0}
    BY <2>2, SourceIs DEF num_test_image_
  <2>4. << >> \in Seq(NamedRow) /\ Alone(<< >>) /\ ToSet(<< >>) = {}
    BY EmptySeq DEF Alone, ToSet
  <2>5. Detected(0) = {}
    BY DetectedIs
  <2>6. files \in [Files(layer) -> Seq(NamedRow)] /\ \A f \in Files(layer) : files[f] = << >>
    BY <2>2, <2>4
  <2>7. 0 \in 0..num_test_image_ - 1
    BY <2>3
  <2>8. QED
    BY <2>2, <2>4, <2>5, <2>6, <2>7 DEF SavedInv
<1>2. QED
  BY <1>1, SavedNext, SavedIs, PTL DEF DetectSpec

-----------------------------------------------------------------------------
(* Nets: what a layer reads and makes *)

\* What of the blobs decides whether a net is built: that nothing was fatal, the
\* names N that are taken, and those A that nobody has read
Sees(b, N, A) ==
  /\ {"ok", "names", "available"} \subseteq DOMAIN b
  /\ b.ok = TRUE /\ b.names \in Seq(N) /\ ToSet(b.names) = N /\ b.available = A

LEMMA OneMoreName ==
  ASSUME NEW N, NEW s \in Seq(N), ToSet(s) = N, NEW x
  PROVE  Append(s, x) \in Seq(N \union {x}) /\ ToSet(Append(s, x)) = N \union {x}
<1>1. /\ s \in Seq(N \union {x}) /\ Len(s) \in Nat /\ DOMAIN s = 1..Len(s)
      /\ \A y : y \in N <=> \E k \in 1..Len(s) : s[k] = y
  <2>1. s \in Seq(N \union {x}) /\ Len(s) \in Nat /\ DOMAIN s = 1..Len(s)
    OBVIOUS
  <2>2. QED
    BY <2>1 DEF ToSet
<1> DEFINE t == Append(s, x)
<1>2. /\ t \in Seq(N \union {x}) /\ DOMAIN t = 1..Len(s) + 1
      /\ t[Len(s) + 1] = x /\ \A k \in 1..Len(s) : t[k] = s[k]
  <2>1. x \in N \union {x}
    OBVIOUS
  <2>2. QED
    BY <1>1, <2>1, AppendProperties
<1> HIDE DEF t
<1>3. ToSet(t) = {t[k] : k \in 1..Len(s) + 1}
  BY <1>2 DEF ToSet
<1>4. ASSUME NEW y PROVE y \in ToSet(t) <=> y \in N \union {x}
  <2>1. ASSUME y \in ToSet(t) PROVE y \in N \union {x}
    <3>1. PICK k \in 1..Len(s) + 1 : t[k] = y
      BY <1>3, <2>1
    <3>2. CASE k = Len(s) + 1
      BY <1>2, <3>1, <3>2
    <3>3. CASE k # Len(s) + 1
      <4>1. k \in 1..Len(s)
        BY <1>1, <3>3
      <4>2. QED
        BY <1>1, <1>2, <3>1, <4>1
    <3>4. QED
      BY <3>2, <3>3
  <2>2. ASSUME y \in N PROVE y \in ToSet(t)
    <3>1. PICK k \in 1..Len(s) : s[k] = y
      BY <1>1, <2>2
    <3>2. k \in 1..Len(s) + 1 /\ t[k] = y
      BY <1>1, <1>2, <3>1
    <3>3. QED
      BY <1>3, <3>2
  <2>3. x \in ToSet(t)
    <3>1. Len(s) + 1 \in 1..Len(s) + 1
      BY <1>1
    <3>2. QED
      BY <1>2, <1>3, <3>1
  <2>4. QED
    BY <2>1, <2>2, <2>3
<1>5. QED
  BY <1>2, <1>4 DEF t

\* AppendBottom takes a name from those that nobody has read
LEMMA BottomIsRead ==
  ASSUME NEW N, NEW A, NEW b, Sees(b, N, A), NEW l, NEW j, l.bottom[j] \in A
  PROVE  Sees(AppendBottom(b, l, j), N, A \ {l.bottom[j]})
<1> DEFINE n == Len(b.bottom)
           x == Id(b, l.bottom[j])
           c == [ b EXCEPT !.bottom[n] = Append(@, x),
                           !.available = @ \ {l.bottom[j]},
                           !.bottomNeed[n] = Append(@, IF l.propagate # << >> THEN l.propagate[j] ELSE b.need[x]) ]
<1>1. AppendBottom(b, l, j) = c
  BY DEF AppendBottom, Sees
<1>2. DOMAIN c = DOMAIN b /\ c.ok = b.ok /\ c.names = b.names /\ c.available = b.available \ {l.bottom[j]}
  BY DEF Sees
<1> HIDE DEF c
<1>3. QED
  BY <1>1, <1>2 DEF Sees

\* AppendTop gives a new name or writes over a blob
LEMMA TopIsMade ==
  ASSUME NEW N, NEW A, NEW b, Sees(b, N, A), NEW l, NEW j,
         InPlace(l, j) => l.top[j] \in N, InPlace(l, j) \/ l.top[j] \notin N
  PROVE  Sees(AppendTop(b, l, j), N \union {l.top[j]}, A \union {l.top[j]})
<1> DEFINE n == Len(b.top)
           y == l.top[j]
           more == [ b EXCEPT !.available = @ \union {y} ]
           over == [ more EXCEPT !.top[n] = Append(@, Id(b, y)) ]
           new == [ more EXCEPT !.top[n] = Append(@, Len(b.names) + 1),
                                !.names = Append(@, y),
                                !.need = Append(@, FALSE) ]
           c == AppendTop(b, l, j)
<1>1. CASE InPlace(l, j)
  <2>1. c = over
    BY <1>1 DEF AppendTop
  <2>2. DOMAIN over = DOMAIN b /\ over.ok = b.ok /\ over.names = b.names /\ over.available = b.available \union {y}
    BY DEF Sees
  <2>3. N \union {y} = N
    BY <1>1
  <2> HIDE DEF over
  <2>4. QED
    BY <1>1, <2>1, <2>2, <2>3 DEF Sees
<1>2. CASE ~InPlace(l, j)
  <2>1. c = new
    BY <1>2 DEF AppendTop, Taken, Sees
  <2>2. /\ DOMAIN new = DOMAIN b /\ new.ok = b.ok /\ new.names = Append(b.names, y)
        /\ new.available = b.available \union {y}
    BY DEF Sees
  <2> HIDE DEF new
  <2>3. Append(b.names, y) \in Seq(N \union {y}) /\ ToSet(Append(b.names, y)) = N \union {y}
    <3>1. b.names \in Seq(N) /\ ToSet(b.names) = N
      BY DEF Sees
    <3> HIDE DEF y
    <3>2. QED
      BY <3>1, OneMoreName
  <2> HIDE DEF c
  <2>4. Sees(c, N \union {y}, A \union {y})
    BY <2>1, <2>2, <2>3 DEF Sees
  <2>5. QED
    BY <2>4 DEF c
<1>3. QED
  BY <1>1, <1>2

\* ... or is fatal
LEMMA TopIsTaken ==
  ASSUME NEW N, NEW A, NEW b, Sees(b, N, A), NEW l, NEW j, ~InPlace(l, j), l.top[j] \in N
  PROVE  AppendTop(b, l, j).ok = FALSE
<1>1. AppendTop(b, l, j) = [b EXCEPT !.ok = FALSE]
  BY DEF AppendTop, Taken, Sees
<1>2. QED
  BY <1>1 DEF Sees

\* Reads goes from bottom to bottom
LEMMA ReadsLoop ==
  ASSUME NEW b, NEW l, Len(l.bottom) \in Nat
  PROVE  \E f : /\ f[0] = b /\ f[Len(l.bottom)] = Reads(b, l)
                /\ \A k \in 1..Len(l.bottom) : f[k] = LET c == f[k - 1] IN IF c.ok THEN AppendBottom(c, l, k) ELSE c
<1> DEFINE Step(c, k) == IF c.ok THEN AppendBottom(c, l, k) ELSE c
           Is(f, n) == f = [k \in 0..n |-> IF k = 0 THEN b ELSE LET c == f[k - 1] IN IF c.ok THEN AppendBottom(c, l, k) ELSE c]
           S == {n \in Nat : \E f : Is(f, n)}
           last == Len(l.bottom)
<1>1. last \in Nat
  OBVIOUS
<1>2. 0 \in S
  <2>1. Is([k \in 0..0 |-> b], 0)
    OBVIOUS
  <2>2. QED
    BY <2>1
<1>3. ASSUME NEW n \in Nat, n \in S PROVE n + 1 \in S
  <2>1. PICK f : Is(f, n)
    BY <1>3
  <2> DEFINE g == [k \in 0..n + 1 |-> IF k = n + 1 THEN Step(f[n], n + 1) ELSE f[k]]
  <2>2. ASSUME NEW k \in 0..n + 1 PROVE g[k] = IF k = 0 THEN b ELSE Step(g[k - 1], k)
    <3>1. CASE k = n + 1
      <4>1. k # 0 /\ k - 1 = n /\ n \in 0..n + 1 /\ n # n + 1
        BY <3>1
      <4>2. g[k] = Step(f[n], n + 1) /\ g[k - 1] = f[n]
        <5> HIDE DEF Step
        <5>1. QED
          BY <3>1, <4>1
      <4> HIDE DEF g, Step
      <4>3. QED
        BY <3>1, <4>1, <4>2
    <3>2. CASE k # n + 1
      <4>1. k \in 0..n /\ k \in 0..n + 1 /\ (k # 0 => k - 1 \in 0..n + 1 /\ k - 1 # n + 1)
        BY <3>2
      <4>2. g[k] = f[k] /\ (k # 0 => g[k - 1] = f[k - 1])
        <5> HIDE DEF Step
        <5>1. QED
          BY <3>2, <4>1
      <4>3. f[k] = IF k = 0 THEN b ELSE Step(f[k - 1], k)
        BY <2>1, <4>1
      <4> HIDE DEF g, Step
      <4>4. QED
        BY <4>2, <4>3
    <3>3. QED
      BY <3>1, <3>2
  <2>3. Is(g, n + 1)
    <3> HIDE DEF g
    <3>1. g = [k \in 0..n + 1 |-> g[k]]
      BY DEF g
    <3>2. QED
      BY <2>2, <3>1
  <2> HIDE DEF Is, g
  <2>4. QED
    BY <2>3
<1>4. PICK f : Is(f, last)
  <2>1. last \in S
    <3> HIDE DEF S, last
    <3>1. QED
      BY <1>1, <1>2, <1>3, Inductive
  <2>2. QED
    BY <2>1
<1> DEFINE after == CHOOSE g : Is(g, last)
<1>5. Is(after, last)
  BY <1>4
<1>6. Reads(b, l) = after[last]
  BY DEF Reads
<1> HIDE DEF after, last
<1>7. after[0] = b /\ \A k \in 1..last : after[k] = LET c == after[k - 1] IN IF c.ok THEN AppendBottom(c, l, k) ELSE c
  BY <1>1, <1>5
<1>8. QED
  BY <1>6, <1>7 DEF last

\* Makes goes from top to top
LEMMA MakesLoop ==
  ASSUME NEW b, NEW l, Len(l.top) \in Nat
  PROVE  \E f : /\ f[0] = b /\ f[Len(l.top)] = Makes(b, l)
                /\ \A k \in 1..Len(l.top) : f[k] = LET c == f[k - 1] IN IF c.ok THEN AppendTop(c, l, k) ELSE c
<1> DEFINE Step(c, k) == IF c.ok THEN AppendTop(c, l, k) ELSE c
           Is(f, n) == f = [k \in 0..n |-> IF k = 0 THEN b ELSE LET c == f[k - 1] IN IF c.ok THEN AppendTop(c, l, k) ELSE c]
           S == {n \in Nat : \E f : Is(f, n)}
           last == Len(l.top)
<1>1. last \in Nat
  OBVIOUS
<1>2. 0 \in S
  <2>1. Is([k \in 0..0 |-> b], 0)
    OBVIOUS
  <2>2. QED
    BY <2>1
<1>3. ASSUME NEW n \in Nat, n \in S PROVE n + 1 \in S
  <2>1. PICK f : Is(f, n)
    BY <1>3
  <2> DEFINE g == [k \in 0..n + 1 |-> IF k = n + 1 THEN Step(f[n], n + 1) ELSE f[k]]
  <2>2. ASSUME NEW k \in 0..n + 1 PROVE g[k] = IF k = 0 THEN b ELSE Step(g[k - 1], k)
    <3>1. CASE k = n + 1
      <4>1. k # 0 /\ k - 1 = n /\ n \in 0..n + 1 /\ n # n + 1
        BY <3>1
      <4>2. g[k] = Step(f[n], n + 1) /\ g[k - 1] = f[n]
        <5> HIDE DEF Step
        <5>1. QED
          BY <3>1, <4>1
      <4> HIDE DEF g, Step
      <4>3. QED
        BY <3>1, <4>1, <4>2
    <3>2. CASE k # n + 1
      <4>1. k \in 0..n /\ k \in 0..n + 1 /\ (k # 0 => k - 1 \in 0..n + 1 /\ k - 1 # n + 1)
        BY <3>2
      <4>2. g[k] = f[k] /\ (k # 0 => g[k - 1] = f[k - 1])
        <5> HIDE DEF Step
        <5>1. QED
          BY <3>2, <4>1
      <4>3. f[k] = IF k = 0 THEN b ELSE Step(f[k - 1], k)
        BY <2>1, <4>1
      <4> HIDE DEF g, Step
      <4>4. QED
        BY <4>2, <4>3
    <3>3. QED
      BY <3>1, <3>2
  <2>3. Is(g, n + 1)
    <3> HIDE DEF g
    <3>1. g = [k \in 0..n + 1 |-> g[k]]
      BY DEF g
    <3>2. QED
      BY <2>2, <3>1
  <2> HIDE DEF Is, g
  <2>4. QED
    BY <2>3
<1>4. PICK f : Is(f, last)
  <2>1. last \in S
    <3> HIDE DEF S, last
    <3>1. QED
      BY <1>1, <1>2, <1>3, Inductive
  <2>2. QED
    BY <2>1
<1> DEFINE after == CHOOSE g : Is(g, last)
<1>5. Is(after, last)
  BY <1>4
<1>6. Makes(b, l) = after[last]
  BY DEF Makes
<1> HIDE DEF after, last
<1>7. after[0] = b /\ \A k \in 1..last : after[k] = LET c == after[k - 1] IN IF c.ok THEN AppendTop(c, l, k) ELSE c
  BY <1>1, <1>5
<1>8. QED
  BY <1>6, <1>7 DEF last

\* Connect goes from layer to layer
LEMMA ConnectLoop ==
  ASSUME NEW layers, Len(layers) \in Nat
  PROVE  \E f : /\ f[0] = NoBlobs /\ f[Len(layers)] = Connect(layers)
                /\ \A k \in 1..Len(layers) : f[k] = LET c == f[k - 1] IN IF c.ok THEN AddLayer(c, layers[k]) ELSE c
<1> DEFINE Step(c, k) == IF c.ok THEN AddLayer(c, layers[k]) ELSE c
           Is(f, n) == f = [k \in 0..n |-> IF k = 0 THEN NoBlobs ELSE LET c == f[k - 1] IN IF c.ok THEN AddLayer(c, layers[k]) ELSE c]
           S == {n \in Nat : \E f : Is(f, n)}
           last == Len(layers)
<1>1. last \in Nat
  OBVIOUS
<1>2. 0 \in S
  <2>1. Is([k \in 0..0 |-> NoBlobs], 0)
    OBVIOUS
  <2>2. QED
    BY <2>1
<1>3. ASSUME NEW n \in Nat, n \in S PROVE n + 1 \in S
  <2>1. PICK f : Is(f, n)
    BY <1>3
  <2> DEFINE g == [k \in 0..n + 1 |-> IF k = n + 1 THEN Step(f[n], n + 1) ELSE f[k]]
  <2>2. ASSUME NEW k \in 0..n + 1 PROVE g[k] = IF k = 0 THEN NoBlobs ELSE Step(g[k - 1], k)
    <3>1. CASE k = n + 1
      <4>1. k # 0 /\ k - 1 = n /\ n \in 0..n + 1 /\ n # n + 1
        BY <3>1
      <4>2. g[k] = Step(f[n], n + 1) /\ g[k - 1] = f[n]
        <5> HIDE DEF Step
        <5>1. QED
          BY <3>1, <4>1
      <4> HIDE DEF g, Step
      <4>3. QED
        BY <3>1, <4>1, <4>2
    <3>2. CASE k # n + 1
      <4>1. k \in 0..n /\ k \in 0..n + 1 /\ (k # 0 => k - 1 \in 0..n + 1 /\ k - 1 # n + 1)
        BY <3>2
      <4>2. g[k] = f[k] /\ (k # 0 => g[k - 1] = f[k - 1])
        <5> HIDE DEF Step
        <5>1. QED
          BY <3>2, <4>1
      <4>3. f[k] = IF k = 0 THEN NoBlobs ELSE Step(f[k - 1], k)
        BY <2>1, <4>1
      <4> HIDE DEF g, Step
      <4>4. QED
        BY <4>2, <4>3
    <3>3. QED
      BY <3>1, <3>2
  <2>3. Is(g, n + 1)
    <3> HIDE DEF g
    <3>1. g = [k \in 0..n + 1 |-> g[k]]
      BY DEF g
    <3>2. QED
      BY <2>2, <3>1
  <2> HIDE DEF Is, g
  <2>4. QED
    BY <2>3
<1>4. PICK f : Is(f, last)
  <2>1. last \in S
    <3> HIDE DEF S, last
    <3>1. QED
      BY <1>1, <1>2, <1>3, Inductive
  <2>2. QED
    BY <2>1
<1> DEFINE after == CHOOSE g : Is(g, last)
<1>5. Is(after, last)
  BY <1>4
<1>6. Connect(layers) = after[last]
  BY DEF Connect
<1> HIDE DEF after, last
<1>7. after[0] = NoBlobs /\ \A k \in 1..last : after[k] = LET c == after[k - 1] IN IF c.ok THEN AddLayer(c, layers[k]) ELSE c
  BY <1>1, <1>5
<1>8. QED
  BY <1>6, <1>7 DEF last

-----------------------------------------------------------------------------
(* Nets: a layer *)

\* Reads takes the names that are read out of those that nobody has read
LEMMA ReadsIs ==
  ASSUME NEW N, NEW A, NEW b, Sees(b, N, A), NEW l, NEW n \in Nat, Len(l.bottom) = n,
         \A j \in 1..n : l.bottom[j] \in A,
         \A j, k \in 1..n : l.bottom[j] = l.bottom[k] => j = k
  PROVE  Sees(Reads(b, l), N, A \ {l.bottom[j] : j \in 1..n})
<1>1. PICK f : /\ f[0] = b /\ f[n] = Reads(b, l)
               /\ \A k \in 1..n : f[k] = LET c == f[k - 1] IN IF c.ok THEN AppendBottom(c, l, k) ELSE c
  BY ReadsLoop
<1> DEFINE Left(k) == A \ {l.bottom[j] : j \in 1..k}
           Ok == {k \in Nat : k <= n => Sees(f[k], N, Left(k))}
<1>2. 0 \in Ok
  <2>1. Left(0) = A
    OBVIOUS
  <2>2. QED
    BY <1>1, <2>1
<1>3. ASSUME NEW k \in Nat, k \in Ok PROVE k + 1 \in Ok
  <2>1. SUFFICES ASSUME k + 1 <= n PROVE Sees(f[k + 1], N, Left(k + 1))
    OBVIOUS
  <2>2. Sees(f[k], N, Left(k)) /\ k + 1 \in 1..n /\ (k + 1) - 1 = k
    BY <1>3, <2>1
  <2>3. l.bottom[k + 1] \in Left(k)
    <3>1. \A j \in 1..k : j \in 1..n /\ j # k + 1
      BY <2>2
    <3>2. QED
      BY <2>2, <3>1
  <2> HIDE DEF Left
  <2>4. Sees(AppendBottom(f[k], l, k + 1), N, Left(k) \ {l.bottom[k + 1]})
    BY <2>2, <2>3, BottomIsRead
  <2>5. f[k + 1] = AppendBottom(f[k], l, k + 1)
    BY <1>1, <2>2 DEF Sees
  <2>6. Left(k) \ {l.bottom[k + 1]} = Left(k + 1)
    <3>1. \A j : j \in 1..k + 1 <=> j \in 1..k \/ j = k + 1
      BY <2>2
    <3>2. QED
      BY <3>1 DEF Left
  <2>7. QED
    BY <2>4, <2>5, <2>6
<1>4. n \in Ok
  <2> HIDE DEF Ok
  <2>1. QED
    BY <1>2, <1>3, Inductive
<1>5. QED
  BY <1>1, <1>4

\* Top j of a layer is written in place or has a name that is not in N and no
\* top before it has
IsNew(l, N, j) == InPlace(l, j) \/ (l.top[j] \notin N /\ \A k \in 1..j - 1 : l.top[k] # l.top[j])

Outcome(l, n, N, A, c) ==
  LET new == {l.top[j] : j \in 1..n}
  IN  /\ (\A j \in 1..n : IsNew(l, N, j)) => Sees(c, N \union new, A \union new)
      /\ (\E j \in 1..n : ~IsNew(l, N, j)) => c.ok = FALSE

\* Makes adds the names of the tops, or finds one that is taken
LEMMA MakesIs ==
  ASSUME NEW N, NEW A, NEW b, Sees(b, N, A), NEW l, NEW n \in Nat, Len(l.top) = n,
         \A j \in 1..n : InPlace(l, j) => l.top[j] \in N
  PROVE  Outcome(l, n, N, A, Makes(b, l))
<1>1. PICK f : /\ f[0] = b /\ f[n] = Makes(b, l)
               /\ \A k \in 1..n : f[k] = LET c == f[k - 1] IN IF c.ok THEN AppendTop(c, l, k) ELSE c
  BY MakesLoop
<1> DEFINE New(k) == {l.top[j] : j \in 1..k}
           Good(k) == \A j \in 1..k : IsNew(l, N, j)
           Is(k) == /\ Good(k) => Sees(f[k], N \union New(k), A \union New(k))
                    /\ ~Good(k) => f[k].ok = FALSE
           Ok == {k \in Nat : k <= n => Is(k)}
<1>2. 0 \in Ok
  <2>1. New(0) = {} /\ Good(0)
    OBVIOUS
  <2>2. N \union New(0) = N /\ A \union New(0) = A
    BY <2>1
  <2> HIDE DEF New, Good
  <2>3. Is(0)
    BY <1>1, <2>1, <2>2
  <2> HIDE DEF Is
  <2>4. QED
    BY <2>3
<1>3. ASSUME NEW k \in Nat, k \in Ok PROVE k + 1 \in Ok
  <2> HIDE DEF Is
  <2>1. SUFFICES ASSUME k + 1 <= n PROVE Is(k + 1)
    OBVIOUS
  <2>0. Is(k)
    BY <1>3, <2>1
  <2> USE DEF Is
  <2>2. k + 1 \in 1..n /\ (k + 1) - 1 = k /\ \A j : j \in 1..k + 1 <=> j \in 1..k \/ j = k + 1
    BY <2>1
  <2>3. (Good(k) => Sees(f[k], N \union New(k), A \union New(k))) /\ (~Good(k) => f[k].ok = FALSE)
    <3> HIDE DEF Good, New
    <3>1. QED
      BY <2>0
  <2>4. f[k + 1] = IF f[k].ok THEN AppendTop(f[k], l, k + 1) ELSE f[k]
    BY <1>1, <2>2
  <2>5. Good(k + 1) <=> Good(k) /\ IsNew(l, N, k + 1)
    BY <2>2
  <2>6. CASE ~Good(k)
    <3> HIDE DEF Good, New
    <3>1. QED
      BY <2>3, <2>4, <2>5, <2>6
  <2>7. CASE Good(k)
    <3> DEFINE M == N \union New(k)
               B == A \union New(k)
               y == l.top[k + 1]
               c == AppendTop(f[k], l, k + 1)
    <3>1. Sees(f[k], M, B) /\ f[k + 1] = c
      <4>1. Sees(f[k], M, B)
        <5> HIDE DEF Good
        <5>1. QED
          BY <2>3, <2>7
      <4>2. QED
        BY <2>4, <4>1 DEF Sees
    <3>2. InPlace(l, k + 1) => y \in M
      BY <2>2
    <3>3. /\ InPlace(l, k + 1) \/ y \notin M => Sees(c, M \union {y}, B \union {y})
          /\ ~(InPlace(l, k + 1) \/ y \notin M) => c.ok = FALSE
      <4> HIDE DEF M, B
      <4>1. Sees(f[k], M, B)
        BY <3>1
      <4>2. InPlace(l, k + 1) \/ y \notin M => Sees(c, M \union {y}, B \union {y})
        BY <3>2, <4>1, TopIsMade
      <4>3. ~(InPlace(l, k + 1) \/ y \notin M) => c.ok = FALSE
        BY <4>1, TopIsTaken
      <4>4. QED
        BY <4>2, <4>3
    <3>4. InPlace(l, k + 1) \/ y \notin M <=> IsNew(l, N, k + 1)
      BY <2>2 DEF IsNew
    <3>5. M \union {y} = N \union New(k + 1) /\ B \union {y} = A \union New(k + 1)
      BY <2>2
    <3> HIDE DEF Good, New, M, B, c
    <3>6. QED
      BY <2>5, <2>7, <3>1, <3>3, <3>4, <3>5
  <2>8. QED
    BY <2>6, <2>7
<1>4. n \in Ok
  <2> HIDE DEF Ok
  <2>1. QED
    BY <1>2, <1>3, Inductive
<1>5. (Good(n) => Sees(f[n], N \union New(n), A \union New(n))) /\ (~Good(n) => f[n].ok = FALSE)
  <2> HIDE DEF Is
  <2>1. Is(n)
    BY <1>4
  <2> USE DEF Is
  <2> HIDE DEF Good, New
  <2>2. QED
    BY <2>1
<1>6. QED
  BY <1>1, <1>5 DEF Outcome

\* A layer that reads what nobody has read, each but once, is fatal only when a
\* name is taken
LEMMA AddLayerIs ==
  ASSUME NEW N, NEW A, NEW b, Sees(b, N, A), NEW l, NEW m \in Nat, Len(l.bottom) = m, NEW n \in Nat, Len(l.top) = n,
         DOMAIN l.bottom = 1..m, A \subseteq N,
         \A j \in 1..m : l.bottom[j] \in A,
         \A j, k \in 1..m : l.bottom[j] = l.bottom[k] => j = k
  PROVE  Outcome(l, n, N, A \ {l.bottom[j] : j \in 1..m}, AddLayer(b, l))
<1> DEFINE old == {l.bottom[j] : j \in 1..m}
           new == {l.top[j] : j \in 1..n}
           row == NewRow(b)
           c == Makes(Reads(row, l), l)
<1>1. Sees(row, N, A)
  <2>1. DOMAIN row = DOMAIN b /\ row.ok = b.ok /\ row.names = b.names /\ row.available = b.available
    BY DEF Sees, NewRow
  <2> HIDE DEF row
  <2>2. QED
    BY <2>1 DEF Sees
<1>2. Sees(Reads(row, l), N, A \ old)
  <2> HIDE DEF row
  <2>1. QED
    BY <1>1, ReadsIs
<1>3. \A j \in 1..n : InPlace(l, j) => l.top[j] \in N
  BY DEF InPlace
<1>4. Outcome(l, n, N, A \ old, c)
  <2> DEFINE r == Reads(row, l)
             B == A \ old
  <2>1. Sees(r, N, B)
    BY <1>2
  <2> HIDE DEF r, B
  <2>2. Outcome(l, n, N, B, Makes(r, l))
    BY <1>3, <2>1, MakesIs
  <2>3. QED
    BY <2>2 DEF r, B
<1> HIDE DEF c, old
<1>5. AddLayer(b, l) = IF c.ok THEN AddNeed(c, l) ELSE c
  BY DEF AddLayer, c
<1>6. ASSUME NEW M, NEW B, Sees(c, M, B) PROVE Sees(AddNeed(c, l), M, B)
  <2>1. PICK d : d = AddNeed(c, l)
    OBVIOUS
  <2>2. DOMAIN d = DOMAIN c /\ d.ok = c.ok /\ d.names = c.names /\ d.available = c.available
    BY <1>6, <2>1 DEF AddNeed, Sees
  <2>3. QED
    BY <1>6, <2>1, <2>2 DEF Sees
<1> HIDE DEF new
<1>7. CASE \A j \in 1..n : IsNew(l, N, j)
  <2>1. Sees(c, N \union new, (A \ old) \union new)
    BY <1>4, <1>7 DEF Outcome, new
  <2>2. AddLayer(b, l) = AddNeed(c, l)
    BY <1>5, <2>1 DEF Sees
  <2>3. Sees(AddLayer(b, l), N \union new, (A \ old) \union new)
    BY <1>6, <2>1, <2>2
  <2>4. QED
    BY <1>7, <2>3 DEF Outcome, old, new
<1>8. CASE \E j \in 1..n : ~IsNew(l, N, j)
  <2>1. c.ok = FALSE
    BY <1>4, <1>8 DEF Outcome
  <2>2. QED
    BY <1>5, <1>8, <2>1 DEF Outcome
<1>9. QED
  BY <1>7, <1>8

-----------------------------------------------------------------------------
(* Nets: who reads what *)

LEMMA LayerIs ==
  ASSUME NEW layers \in Seq(Layer), NEW i \in DOMAIN layers
  PROVE  LET l == layers[i]
         IN  /\ l \in [ bottom : Seq(Name), top : Seq(Name), loss : Seq(Nat), lossLayer : BOOLEAN,
                        propagate : Seq(BOOLEAN), param : Seq([name : STRING, lr : Seq(Nat)]) ]
             /\ i \in Nat /\ i >= 1
             /\ Len(l.bottom) \in Nat /\ DOMAIN l.bottom = 1..Len(l.bottom) /\ \A j \in DOMAIN l.bottom : l.bottom[j] \in Name
             /\ Len(l.top) \in Nat /\ DOMAIN l.top = 1..Len(l.top) /\ \A j \in DOMAIN l.top : l.top[j] \in Name
<1> DEFINE l == layers[i]
<1>1. l \in Layer /\ i \in Nat /\ i >= 1
  <2> HIDE DEF l
  <2>1. layers[i] \in Layer /\ i \in 1..Len(layers) /\ Len(layers) \in Nat
    OBVIOUS
  <2>2. QED
    BY <2>1 DEF l
<1> HIDE DEF l
<1>2. l \in [ bottom : Seq(Name), top : Seq(Name), loss : Seq(Nat), lossLayer : BOOLEAN,
              propagate : Seq(BOOLEAN), param : Seq([name : STRING, lr : Seq(Nat)]) ]
  BY <1>1 DEF Layer
<1>3. l.bottom \in Seq(Name) /\ l.top \in Seq(Name)
  BY <1>2
<1>4. /\ Len(l.bottom) \in Nat /\ DOMAIN l.bottom = 1..Len(l.bottom) /\ \A j \in DOMAIN l.bottom : l.bottom[j] \in Name
      /\ Len(l.top) \in Nat /\ DOMAIN l.top = 1..Len(l.top) /\ \A j \in DOMAIN l.top : l.top[j] \in Name
  BY <1>3
<1>5. QED
  BY <1>1, <1>2, <1>4 DEF l

\* The tops of a net, and its bottoms, are finitely many pairs of numbers
LEMMA TopsAre ==
  ASSUME NEW layers \in Seq(Layer)
  PROVE  /\ IsFiniteSet(Tops(layers)) /\ Tops(layers) \subseteq (Nat \ {0}) \X (Nat \ {0})
         /\ \A i, j : << i, j >> \in Tops(layers) <=> i \in DOMAIN layers /\ j \in DOMAIN layers[i].top
         /\ \A t \in Tops(layers) : TopName(layers, t) \in Name
<1>1. \A i \in DOMAIN layers : /\ DOMAIN layers[i].top = 1..Len(layers[i].top) /\ Len(layers[i].top) \in Nat /\ i \in Nat \ {0}
                               /\ \A j \in DOMAIN layers[i].top : layers[i].top[j] \in Name
  BY LayerIs
<1>2. \A i \in DOMAIN layers : IsFiniteSet({i} \X DOMAIN layers[i].top)
  <2>1. SUFFICES ASSUME NEW i \in DOMAIN layers PROVE IsFiniteSet({i} \X DOMAIN layers[i].top)
    OBVIOUS
  <2>2. PICK n \in Nat : DOMAIN layers[i].top = 1..n
    BY <1>1
  <2>3. IsFiniteSet({i}) /\ IsFiniteSet(1..n)
    <3>1. IsFiniteSet({i})
      BY FS_Singleton
    <3>2. IsFiniteSet(1..n)
      BY FS_Interval
    <3>3. QED
      BY <3>1, <3>2
  <2>4. QED
    BY <2>2, <2>3, FS_Product
<1>3. IsFiniteSet(DOMAIN layers)
  <2>1. DOMAIN layers = 1..Len(layers) /\ Len(layers) \in Nat
    OBVIOUS
  <2>2. QED
    BY <2>1, FS_Interval
<1>4. IsFiniteSet(Tops(layers))
  <2> DEFINE parts == {{i} \X DOMAIN layers[i].top : i \in DOMAIN layers}
  <2>1. IsFiniteSet(parts)
    <3> DEFINE g == [i \in DOMAIN layers |-> {i} \X DOMAIN layers[i].top]
    <3>1. g \in Surjection(DOMAIN layers, parts)
      BY DEF Surjection
    <3> HIDE DEF g, parts
    <3>2. QED
      BY <1>3, <3>1, FS_Surjection
  <2>2. \A x \in parts : IsFiniteSet(x)
    BY <1>2
  <2> HIDE DEF parts
  <2>3. IsFiniteSet(UNION parts)
    BY <2>1, <2>2, FS_UNION
  <2>4. QED
    BY <2>3 DEF Tops, parts
<1>5. \A i, j : << i, j >> \in Tops(layers) <=> i \in DOMAIN layers /\ j \in DOMAIN layers[i].top
  BY DEF Tops
<1>6. \A t \in Tops(layers) : \E i \in DOMAIN layers : \E j \in DOMAIN layers[i].top : t = << i, j >>
  BY DEF Tops
<1>7. ASSUME NEW t \in Tops(layers) PROVE t \in (Nat \ {0}) \X (Nat \ {0}) /\ TopName(layers, t) \in Name
  <2>1. PICK i \in DOMAIN layers : \E j \in DOMAIN layers[i].top : t = << i, j >>
    BY <1>6
  <2>2. PICK j \in DOMAIN layers[i].top : t = << i, j >>
    BY <2>1
  <2>3. QED
    BY <1>1, <2>2 DEF TopName
<1>8. QED
  BY <1>4, <1>5, <1>7

LEMMA BottomsAre ==
  ASSUME NEW layers \in Seq(Layer)
  PROVE  /\ IsFiniteSet(Bottoms(layers)) /\ Bottoms(layers) \subseteq (Nat \ {0}) \X (Nat \ {0})
         /\ \A i, j : << i, j >> \in Bottoms(layers) <=> i \in DOMAIN layers /\ j \in DOMAIN layers[i].bottom
         /\ \A b \in Bottoms(layers) : BottomName(layers, b) \in Name
<1>1. \A i \in DOMAIN layers : /\ DOMAIN layers[i].bottom = 1..Len(layers[i].bottom) /\ Len(layers[i].bottom) \in Nat
                               /\ i \in Nat \ {0} /\ \A j \in DOMAIN layers[i].bottom : layers[i].bottom[j] \in Name
  BY LayerIs
<1>2. \A i \in DOMAIN layers : IsFiniteSet({i} \X DOMAIN layers[i].bottom)
  <2>1. SUFFICES ASSUME NEW i \in DOMAIN layers PROVE IsFiniteSet({i} \X DOMAIN layers[i].bottom)
    OBVIOUS
  <2>2. PICK n \in Nat : DOMAIN layers[i].bottom = 1..n
    BY <1>1
  <2>3. IsFiniteSet({i}) /\ IsFiniteSet(1..n)
    <3>1. IsFiniteSet({i})
      BY FS_Singleton
    <3>2. IsFiniteSet(1..n)
      BY FS_Interval
    <3>3. QED
      BY <3>1, <3>2
  <2>4. QED
    BY <2>2, <2>3, FS_Product
<1>3. IsFiniteSet(DOMAIN layers)
  <2>1. DOMAIN layers = 1..Len(layers) /\ Len(layers) \in Nat
    OBVIOUS
  <2>2. QED
    BY <2>1, FS_Interval
<1>4. IsFiniteSet(Bottoms(layers))
  <2> DEFINE parts == {{i} \X DOMAIN layers[i].bottom : i \in DOMAIN layers}
  <2>1. IsFiniteSet(parts)
    <3> DEFINE g == [i \in DOMAIN layers |-> {i} \X DOMAIN layers[i].bottom]
    <3>1. g \in Surjection(DOMAIN layers, parts)
      BY DEF Surjection
    <3> HIDE DEF g, parts
    <3>2. QED
      BY <1>3, <3>1, FS_Surjection
  <2>2. \A x \in parts : IsFiniteSet(x)
    BY <1>2
  <2> HIDE DEF parts
  <2>3. IsFiniteSet(UNION parts)
    BY <2>1, <2>2, FS_UNION
  <2>4. QED
    BY <2>3 DEF Bottoms, parts
<1>5. \A i, j : << i, j >> \in Bottoms(layers) <=> i \in DOMAIN layers /\ j \in DOMAIN layers[i].bottom
  BY DEF Bottoms
<1>6. \A b \in Bottoms(layers) : \E i \in DOMAIN layers : \E j \in DOMAIN layers[i].bottom : b = << i, j >>
  BY DEF Bottoms
<1>7. ASSUME NEW b \in Bottoms(layers) PROVE b \in (Nat \ {0}) \X (Nat \ {0}) /\ BottomName(layers, b) \in Name
  <2>1. PICK i \in DOMAIN layers : \E j \in DOMAIN layers[i].bottom : b = << i, j >>
    BY <1>6
  <2>2. PICK j \in DOMAIN layers[i].bottom : b = << i, j >>
    BY <2>1
  <2>3. QED
    BY <1>1, <2>2 DEF BottomName
<1>8. QED
  BY <1>4, <1>5, <1>7

\* Of finitely many places one is the last
LEMMA LastIs ==
  ASSUME NEW S, S \subseteq Nat \X Nat, S # {}, IsFiniteSet(S)
  PROVE  \E t \in S : \A u \in S : u = t \/ Before(u, t)
<1>1. PICK x \in S : \A u \in S : u[1] <= x[1]
  <2> DEFINE f == [u \in S |-> u[1]]
  <2>1. f \in [S -> Nat]
    OBVIOUS
  <2>2. PICK x \in S : \A u \in S : f[u] <= f[x]
    <3> HIDE DEF f
    <3>1. QED
      BY <2>1, Largest
  <2>3. QED
    BY <2>2
<1> DEFINE T == {u \in S : u[1] = x[1]}
<1>2. T # {} /\ IsFiniteSet(T) /\ T \subseteq S
  BY FS_Subset
<1>3. PICK t \in T : \A u \in T : u[2] <= t[2]
  <2> DEFINE f == [u \in T |-> u[2]]
  <2>1. f \in [T -> Nat]
    OBVIOUS
  <2>2. PICK t \in T : \A u \in T : f[u] <= f[t]
    <3> HIDE DEF f, T
    <3>1. QED
      BY <1>2, <2>1, Largest
  <2>3. QED
    BY <2>2
<1>4. ASSUME NEW u \in S, u # t PROVE Before(u, t)
  <2>1. /\ u \in Nat \X Nat /\ t \in Nat \X Nat /\ x \in Nat \X Nat /\ t[1] = x[1] /\ u[1] <= x[1]
        /\ u[1] = x[1] => u[2] <= t[2]
    BY <1>1, <1>3
  <2>2. u = << u[1], u[2] >> /\ t = << t[1], t[2] >> /\ u[1] \in Nat /\ u[2] \in Nat /\ t[1] \in Nat /\ t[2] \in Nat
    BY <2>1
  <2>3. ~(u[1] = t[1] /\ u[2] = t[2])
    BY <1>4, <2>2
  <2>4. QED
    BY <2>1, <2>2, <2>3 DEF Before
<1>5. QED
  BY <1>3, <1>4

\* A bottom means the last top of its name before its layer
LEMMA MakerIs ==
  ASSUME NEW layers \in Seq(Layer), Known(layers), NEW b \in Bottoms(layers)
  PROVE  LET t == Source(layers, b)
         IN  /\ t \in Tops(layers) /\ t[1] < b[1] /\ TopName(layers, t) = BottomName(layers, b)
             /\ \A u \in Tops(layers) : u[1] < b[1] /\ TopName(layers, u) = BottomName(layers, b) => u = t \/ Before(u, t)
             /\ t \in Nat \X Nat /\ b \in Nat \X Nat
<1> DEFINE made == Makers(layers, b)
           IsLast(t) == \A u \in made : u = t \/ Before(u, t)
           t == CHOOSE t \in made : IsLast(t)
<1>1. made \subseteq Tops(layers) /\ made # {} /\ IsFiniteSet(made) /\ made \subseteq Nat \X Nat
  <2>1. made \subseteq Tops(layers) /\ made # {}
    BY DEF Makers, Known
  <2> HIDE DEF made
  <2>2. QED
    BY <2>1, TopsAre, FS_Subset
<1>2. \E s \in made : IsLast(s)
  <2> HIDE DEF made
  <2>1. QED
    BY <1>1, LastIs
<1>3. t \in made /\ IsLast(t)
  <2> HIDE DEF made, IsLast
  <2>1. QED
    BY <1>2
<1>4. Source(layers, b) = t
  BY DEF Source
<1> HIDE DEF t
<1>5. b \in Nat \X Nat
  BY BottomsAre
<1>6. t \in Tops(layers) /\ t[1] < b[1] /\ TopName(layers, t) = BottomName(layers, b) /\ t \in Nat \X Nat
  BY <1>1, <1>3 DEF Makers
<1>7. \A u \in Tops(layers) : u[1] < b[1] /\ TopName(layers, u) = BottomName(layers, b) => u = t \/ Before(u, t)
  BY <1>3 DEF Makers
<1>8. QED
  BY <1>4, <1>5, <1>6, <1>7


-----------------------------------------------------------------------------
(* Nets: the splits *)

LEMMA BeforeIs ==
  /\ \A u, v, w \in Nat \X Nat : Before(u, v) /\ Before(v, w) => Before(u, w)
  /\ \A u \in Nat \X Nat : ~Before(u, u)
  /\ \A u, v \in Nat \X Nat : u = v \/ Before(u, v) \/ Before(v, u)
<1>1. \A u \in Nat \X Nat : u = << u[1], u[2] >> /\ u[1] \in Nat /\ u[2] \in Nat
  OBVIOUS
<1>2. \A u, v, w \in Nat \X Nat : Before(u, v) /\ Before(v, w) => Before(u, w)
  BY <1>1 DEF Before
<1>3. \A u \in Nat \X Nat : ~Before(u, u)
  BY <1>1 DEF Before
<1>4. ASSUME NEW u \in Nat \X Nat, NEW v \in Nat \X Nat PROVE u = v \/ Before(u, v) \/ Before(v, u)
  <2>1. u[1] = v[1] /\ u[2] = v[2] => u = v
    BY <1>1
  <2>2. u[1] \in Nat /\ u[2] \in Nat /\ v[1] \in Nat /\ v[2] \in Nat
    BY <1>1
  <2>3. QED
    BY <2>1, <2>2 DEF Before
<1>5. QED
  BY <1>2, <1>3, <1>4

\* The bottoms that mean a top
LEMMA UsesAre ==
  ASSUME NEW layers \in Seq(Layer), Known(layers), NEW t \in Tops(layers)
  PROVE  /\ \A b : b \in Uses(layers, t) <=> b \in Bottoms(layers) /\ Source(layers, b) = t
         /\ IsFiniteSet(Uses(layers, t)) /\ Uses(layers, t) \subseteq Nat \X Nat
         /\ SplitCount(layers, t) \in Nat /\ Cardinality(Uses(layers, t)) <= SplitCount(layers, t)
<1>1. ASSUME NEW b PROVE b \in Uses(layers, t) <=> b \in Bottoms(layers) /\ Source(layers, b) = t
  <2>1. ASSUME b \in Bottoms(layers), Source(layers, b) = t PROVE t[1] < b[1] /\ TopName(layers, t) = BottomName(layers, b)
    BY <2>1, MakerIs
  <2>2. QED
    BY <2>1 DEF Uses
<1>2. Uses(layers, t) \subseteq Bottoms(layers)
  BY DEF Uses
<1>3. IsFiniteSet(Bottoms(layers)) /\ Bottoms(layers) \subseteq Nat \X Nat
  BY BottomsAre
<1>4. IsFiniteSet(Uses(layers, t)) /\ Uses(layers, t) \subseteq Nat \X Nat
  BY <1>2, <1>3, FS_Subset
<1>5. Cardinality(Uses(layers, t)) \in Nat
  BY <1>4, FS_CardinalityType
<1>6. QED
  BY <1>1, <1>4, <1>5 DEF SplitCount

\* Every bottom of a split has a top of it, and its own
LEMMA IndexIs ==
  ASSUME NEW layers \in Seq(Layer), Known(layers), NEW t \in Tops(layers),
         NEW b \in Uses(layers, t), NEW c \in Uses(layers, t)
  PROVE  /\ SplitIndex(layers, b) \in 0..SplitCount(layers, t) - 1
         /\ SplitIndex(layers, b) = SplitIndex(layers, c) => b = c
<1> DEFINE S == Uses(layers, t)
           Prior(d) == {e \in S : Before(e, d)}
           extra == IF InLoss(layers, t) THEN 1 ELSE 0
<1>1. /\ \A d \in S : Source(layers, d) = t
      /\ IsFiniteSet(S) /\ S \subseteq Nat \X Nat
  BY UsesAre
<1>2. \A d \in S : SplitIndex(layers, d) = Cardinality(Prior(d)) + extra
  BY <1>1 DEF SplitIndex
<1>3. SplitCount(layers, t) = Cardinality(S) + extra
  BY DEF SplitCount
<1>4. extra \in Nat
  OBVIOUS
<1>5. \A d, e \in S : Before(d, e) => Prior(d) \subseteq Prior(e) /\ d \in Prior(e) /\ d \notin Prior(d)
  BY <1>1, BeforeIs
<1>6. \A d \in S : d \notin Prior(d) /\ Prior(d) \subseteq S
  BY <1>1, BeforeIs
<1>7. b = c \/ Before(b, c) \/ Before(c, b)
  BY <1>1, BeforeIs
<1> HIDE DEF S, Prior, extra
<1>8. Cardinality(S) \in Nat
  BY <1>1, FS_CardinalityType
<1>9. \A d \in S : IsFiniteSet(Prior(d)) /\ Cardinality(Prior(d)) \in Nat /\ Cardinality(Prior(d)) < Cardinality(S)
  <2>1. SUFFICES ASSUME NEW d \in S
                 PROVE  IsFiniteSet(Prior(d)) /\ Cardinality(Prior(d)) \in Nat /\ Cardinality(Prior(d)) < Cardinality(S)
    OBVIOUS
  <2>2. Prior(d) \in SUBSET S /\ Prior(d) # S
    BY <1>6
  <2>3. IsFiniteSet(Prior(d)) /\ Cardinality(Prior(d)) <= Cardinality(S) /\ Cardinality(Prior(d)) # Cardinality(S)
    BY <1>1, <2>2, FS_Subset
  <2>4. Cardinality(Prior(d)) \in Nat
    BY <2>3, FS_CardinalityType
  <2>5. QED
    BY <1>8, <2>3, <2>4
<1>10. ASSUME NEW d \in S, NEW e \in S, Before(d, e) PROVE Cardinality(Prior(d)) < Cardinality(Prior(e))
  <2>1. Prior(d) \in SUBSET Prior(e) /\ Prior(d) # Prior(e)
    BY <1>5, <1>10
  <2>2. IsFiniteSet(Prior(e))
    BY <1>9
  <2>3. Cardinality(Prior(d)) <= Cardinality(Prior(e)) /\ Cardinality(Prior(d)) # Cardinality(Prior(e))
    BY <2>1, <2>2, FS_Subset
  <2>4. QED
    BY <1>9, <2>3
<1>11. b \in S /\ c \in S
  BY DEF S
<1>12. SplitIndex(layers, b) \in 0..SplitCount(layers, t) - 1
  BY <1>2, <1>3, <1>4, <1>8, <1>9, <1>11
<1>13. ASSUME SplitIndex(layers, b) = SplitIndex(layers, c) PROVE b = c
  <2>1. Cardinality(Prior(b)) = Cardinality(Prior(c))
    <3>1. Cardinality(Prior(b)) + extra = Cardinality(Prior(c)) + extra
      BY <1>2, <1>11, <1>13
    <3>2. QED
      BY <1>4, <1>9, <1>11, <3>1
  <2>2. ~Before(b, c) /\ ~Before(c, b)
    BY <1>9, <1>10, <1>11, <2>1
  <2>3. QED
    BY <1>7, <2>2
<1>14. QED
  BY <1>12, <1>13

\* The names of splits are none that a net could have, and tell the splits apart
LEMMA SplitNameIs ==
  ASSUME NEW layers, NEW t \in Nat \X Nat, NEW k
  PROVE  /\ SplitBlobName(layers, t, k) \notin Name
         /\ \A u \in Nat \X Nat : \A m : SplitBlobName(layers, t, k) = SplitBlobName(layers, u, m) => t = u /\ k = m
<1> DEFINE s == SplitBlobName(layers, t, k)
<1>1. DOMAIN s = 1..4 /\ 2 \in 1..4 /\ 2 \notin {1}
  BY DEF SplitBlobName
<1>2. s \notin Name
  <2>1. \A x \in Name : DOMAIN x = {1}
    BY DEF Name
  <2> HIDE DEF s
  <2>2. QED
    BY <1>1, <2>1
<1>3. ASSUME NEW u \in Nat \X Nat, NEW m, SplitBlobName(layers, t, k) = SplitBlobName(layers, u, m) PROVE t = u /\ k = m
  <2>1. t[1] = u[1] /\ t[2] = u[2] /\ k = m
    BY <1>3 DEF SplitBlobName
  <2>2. QED
    BY <2>1
<1>4. QED
  BY <1>2, <1>3

\* What a bottom reads in the end
LEMMA NewBottomIs ==
  ASSUME NEW layers \in Seq(Layer), Known(layers), NEW b \in Bottoms(layers)
  PROVE  LET t == Source(layers, b)
         IN  IF IsSplit(layers, t)
             THEN /\ NewBottom(layers, b) = SplitBlobName(layers, t, SplitIndex(layers, b))
                  /\ NewBottom(layers, b) \notin Name
             ELSE NewBottom(layers, b) = TopName(layers, t) /\ BottomName(layers, b) = TopName(layers, t)
                  /\ NewBottom(layers, b) \in Name
<1> DEFINE t == Source(layers, b)
<1>1. t \in Nat \X Nat /\ TopName(layers, t) = BottomName(layers, b)
  BY MakerIs
<1>2. BottomName(layers, b) \in Name
  BY BottomsAre
<1>3. NewBottom(layers, b) = IF IsSplit(layers, t) THEN SplitBlobName(layers, t, SplitIndex(layers, b)) ELSE BottomName(layers, b)
  BY DEF NewBottom
<1> HIDE DEF t
<1>4. SplitBlobName(layers, t, SplitIndex(layers, b)) \notin Name
  BY <1>1, SplitNameIs
<1>5. QED
  BY <1>1, <1>2, <1>3, <1>4 DEF t

\* One bottom only reads a blob of that name
LEMMA OneReader ==
  ASSUME NEW layers \in Seq(Layer), Known(layers), NEW b \in Bottoms(layers), NEW c \in Bottoms(layers),
         Source(layers, b) = Source(layers, c), NewBottom(layers, b) = NewBottom(layers, c)
  PROVE  b = c
<1> DEFINE t == Source(layers, b)
           S == Uses(layers, t)
<1>1. t \in Tops(layers) /\ t \in Nat \X Nat
  BY MakerIs
<1>2. b \in S /\ c \in S /\ IsFiniteSet(S) /\ SplitCount(layers, t) \in Nat /\ Cardinality(S) <= SplitCount(layers, t)
  BY <1>1, UsesAre
<1>3. CASE IsSplit(layers, t)
  <2>1. SplitBlobName(layers, t, SplitIndex(layers, b)) = SplitBlobName(layers, t, SplitIndex(layers, c))
    BY <1>3 DEF NewBottom
  <2>2. SplitIndex(layers, b) = SplitIndex(layers, c)
    <3> HIDE DEF t
    <3>1. QED
      BY <1>1, <2>1, SplitNameIs
  <2>3. QED
    <3> HIDE DEF t
    <3>1. QED
      BY <1>1, <1>2, <2>2, IndexIs DEF S
<1>4. CASE ~IsSplit(layers, t)
  <2>1. SplitCount(layers, t) <= 1
    BY <1>2, <1>4 DEF IsSplit
  <2> HIDE DEF S, t
  <2>2. Cardinality(S) \in Nat
    BY <1>2, FS_CardinalityType
  <2>3. Cardinality(S) # 0
    BY <1>2, FS_EmptySet
  <2>4. Cardinality(S) = 1
    BY <1>2, <2>1, <2>2, <2>3
  <2>5. PICK x : S = {x}
    BY <1>2, <2>4, FS_Singleton
  <2>6. QED
    BY <1>2, <2>5
<1>5. QED
  BY <1>3, <1>4

\* What was made before layer b[1] means to a later bottom what it means to b
LEMMA SameSource ==
  ASSUME NEW layers \in Seq(Layer), Known(layers), NEW b \in Bottoms(layers), NEW c \in Bottoms(layers),
         BottomName(layers, b) = BottomName(layers, c), b[1] <= c[1], Source(layers, c)[1] < b[1]
  PROVE  Source(layers, b) = Source(layers, c)
<1> DEFINE s == Source(layers, b)
           t == Source(layers, c)
<1>1. /\ s \in Tops(layers) /\ s[1] < b[1] /\ TopName(layers, s) = BottomName(layers, b) /\ s \in Nat \X Nat /\ b \in Nat \X Nat
      /\ \A u \in Tops(layers) : u[1] < b[1] /\ TopName(layers, u) = BottomName(layers, b) => u = s \/ Before(u, s)
  BY MakerIs
<1>2. /\ t \in Tops(layers) /\ t[1] < c[1] /\ TopName(layers, t) = BottomName(layers, c) /\ t \in Nat \X Nat /\ c \in Nat \X Nat
      /\ \A u \in Tops(layers) : u[1] < c[1] /\ TopName(layers, u) = BottomName(layers, c) => u = t \/ Before(u, t)
  BY MakerIs
<1> HIDE DEF s, t
<1>3. t = s \/ Before(t, s)
  BY <1>1, <1>2 DEF t
<1>4. s[1] < c[1]
  <2>1. s[1] \in Nat /\ b[1] \in Nat /\ c[1] \in Nat
    BY <1>1, <1>2
  <2>2. QED
    BY <1>1, <2>1
<1>5. s = t \/ Before(s, t)
  BY <1>1, <1>2, <1>4
<1>6. ~(Before(s, t) /\ Before(t, s))
  BY <1>1, <1>2, BeforeIs
<1>7. QED
  BY <1>3, <1>5, <1>6 DEF s, t

\* ... so no two bottoms read the same
LEMMA ReadersDiffer ==
  ASSUME NEW layers \in Seq(Layer), Known(layers), NEW b \in Bottoms(layers), NEW c \in Bottoms(layers),
         NewBottom(layers, b) = NewBottom(layers, c), b[1] <= c[1], Source(layers, c)[1] < b[1]
  PROVE  b = c
<1> DEFINE s == Source(layers, b)
           t == Source(layers, c)
<1>1. s \in Nat \X Nat /\ t \in Nat \X Nat
  BY MakerIs
<1>2. /\ IF IsSplit(layers, s)
         THEN NewBottom(layers, b) = SplitBlobName(layers, s, SplitIndex(layers, b)) /\ NewBottom(layers, b) \notin Name
         ELSE NewBottom(layers, b) = BottomName(layers, b) /\ NewBottom(layers, b) \in Name
      /\ IF IsSplit(layers, t)
         THEN NewBottom(layers, c) = SplitBlobName(layers, t, SplitIndex(layers, c)) /\ NewBottom(layers, c) \notin Name
         ELSE NewBottom(layers, c) = BottomName(layers, c) /\ NewBottom(layers, c) \in Name
  BY NewBottomIs
<1>3. s = t
  <2>1. CASE IsSplit(layers, s)
    <3>1. SplitBlobName(layers, s, SplitIndex(layers, b)) = SplitBlobName(layers, t, SplitIndex(layers, c))
      BY <1>2, <2>1
    <3> HIDE DEF s, t
    <3>2. QED
      BY <1>1, <3>1, SplitNameIs
  <2>2. CASE ~IsSplit(layers, s)
    <3>1. BottomName(layers, b) = BottomName(layers, c)
      BY <1>2, <2>2
    <3>2. QED
      BY <3>1, SameSource
  <2>3. QED
    BY <2>1, <2>2
<1>4. QED
  BY <1>3, OneReader

-----------------------------------------------------------------------------
(* Nets: a layer of the net as it was written, and its splits *)

\* The top is in place over a blob without other uses, or new
GoodTop(layers, t) ==
  IF InPlace(layers[t[1]], t[2]) THEN SplitCount(layers, Source(layers, t)) = 1
  ELSE \A u \in Tops(layers) : Before(u, t) => TopName(layers, u) # TopName(layers, t)

\* The name that top t is read by is there, after the first j splits of layer i
Ready(layers, i, j, t) == ~IsSplit(layers, t) \/ t[1] < i \/ t[2] <= j

\* What there is, N, and what nobody has read, A, after i layers and the first
\* j splits of the last of them
Holds(layers, i, j, N, A) ==
  /\ A \subseteq N
  /\ \A x \in Name : x \in N <=> \E u \in Tops(layers) : u[1] <= i /\ TopName(layers, u) = x
  /\ \A u \in Tops(layers) : \A k : SplitBlobName(layers, u, k) \in N => u[1] < i \/ (u[1] = i /\ u[2] <= j)
  /\ \A c \in Bottoms(layers) :
        c[1] > i /\ Source(layers, c)[1] <= i /\ Ready(layers, i, j, Source(layers, c)) => NewBottom(layers, c) \in A
  /\ \A t \in Tops(layers) : t[1] = i /\ t[2] > j /\ IsSplit(layers, t) => TopName(layers, t) \in A

Stage(layers, i, j, b) == \E N : \E A : Sees(b, N, A) /\ Holds(layers, i, j, N, A)

\* Rewired reads what its layer did, by other names, and makes what it did
LEMMA RewiredIs ==
  ASSUME NEW layers \in Seq(Layer), NEW i \in DOMAIN layers
  PROVE  LET l == Rewired(layers, i)
         IN  /\ Len(l.bottom) = Len(layers[i].bottom) /\ DOMAIN l.bottom = DOMAIN layers[i].bottom
             /\ \A j \in DOMAIN layers[i].bottom : l.bottom[j] = NewBottom(layers, << i, j >>)
             /\ l.top = layers[i].top /\ l.param = layers[i].param
<1> DEFINE o == layers[i]
           new == [j \in DOMAIN o.bottom |-> NewBottom(layers, << i, j >>)]
           less == \E j \in DOMAIN o.top : IsSplit(layers, << i, j >>) /\ InLoss(layers, << i, j >>)
           l == [o EXCEPT !.bottom = new, !.loss = IF less THEN << >> ELSE @]
<1>1. Rewired(layers, i) = l
  BY DEF Rewired
<1>2. /\ o \in [ bottom : Seq(Name), top : Seq(Name), loss : Seq(Nat), lossLayer : BOOLEAN,
                 propagate : Seq(BOOLEAN), param : Seq([name : STRING, lr : Seq(Nat)]) ]
      /\ Len(o.bottom) \in Nat /\ DOMAIN o.bottom = 1..Len(o.bottom)
  BY LayerIs
<1>3. l.bottom = new /\ l.top = o.top /\ l.param = o.param
  <2> HIDE DEF o, new, less
  <2>1. QED
    BY <1>2
<1>4. Len(new) = Len(o.bottom) /\ DOMAIN new = DOMAIN o.bottom
  <2> DEFINE m == Len(o.bottom)
  <2>1. new = [j \in 1..m |-> NewBottom(layers, << i, j >>)] /\ m \in Nat
    BY <1>2
  <2>2. Len(new) = m
    <3> HIDE DEF m
    <3>1. QED
      BY <2>1
  <2>3. QED
    BY <2>2
<1>5. QED
  BY <1>1, <1>3, <1>4

\* A top of the layer is new when it was new before the splits
LEMMA GoodIsNew ==
  ASSUME NEW layers \in Seq(Layer), Known(layers), NEW i \in Nat, i + 1 \in DOMAIN layers,
         NEW p \in DOMAIN layers[i + 1].top, NEW N,
         \A x \in Name : x \in N <=> \E u \in Tops(layers) : u[1] <= i /\ TopName(layers, u) = x
  PROVE  GoodTop(layers, << i + 1, p >>) <=> IsNew(Rewired(layers, i + 1), N, p)
<1> DEFINE o == layers[i + 1]
           l == Rewired(layers, i + 1)
           t == << i + 1, p >>
           s == Source(layers, t)
<1>1. /\ DOMAIN l.bottom = DOMAIN o.bottom /\ l.top = o.top
      /\ \A j \in DOMAIN o.bottom : l.bottom[j] = NewBottom(layers, << i + 1, j >>)
  BY RewiredIs
<1>2. t \in Tops(layers) /\ TopName(layers, t) = o.top[p] /\ o.top[p] \in Name /\ p \in Nat
  <2>1. t \in Tops(layers) /\ TopName(layers, t) \in Name /\ Tops(layers) \subseteq Nat \X Nat
    BY TopsAre
  <2>2. QED
    BY <2>1 DEF TopName
<1>3. ASSUME p \in DOMAIN o.bottom
      PROVE  t \in Bottoms(layers) /\ BottomName(layers, t) = o.bottom[p]
  BY <1>3, BottomsAre DEF BottomName
<1>4. GoodTop(layers, t) <=> IF InPlace(o, p) THEN SplitCount(layers, s) = 1
                             ELSE \A u \in Tops(layers) : Before(u, t) => TopName(layers, u) # o.top[p]
  BY <1>2 DEF GoodTop
<1> HIDE DEF l, o
<1>5. CASE InPlace(o, p)
  <2>1. p \in DOMAIN o.bottom /\ o.top[p] = o.bottom[p]
    BY <1>5 DEF InPlace
  <2>2. /\ t \in Bottoms(layers) /\ BottomName(layers, t) = o.top[p]
        /\ l.bottom[p] = NewBottom(layers, t)
    BY <1>1, <1>3, <2>1
  <2>3. /\ s \in Tops(layers) /\ s[1] < i + 1 /\ TopName(layers, s) = o.top[p] /\ s \in Nat \X Nat
    BY <2>2, MakerIs
  <2> HIDE DEF s, t
  <2>4. SplitCount(layers, s) \in Nat /\ SplitCount(layers, s) # 0
    <3>1. /\ t \in Uses(layers, s) /\ IsFiniteSet(Uses(layers, s)) /\ SplitCount(layers, s) \in Nat
          /\ Cardinality(Uses(layers, s)) <= SplitCount(layers, s)
      BY <2>2, <2>3, UsesAre DEF s
    <3>2. Cardinality(Uses(layers, s)) \in Nat
      BY <3>1, FS_CardinalityType
    <3>3. Cardinality(Uses(layers, s)) # 0
      BY <3>1, FS_EmptySet
    <3>4. QED
      BY <3>1, <3>2, <3>3
  <2>5. SplitCount(layers, s) = 1 <=> ~IsSplit(layers, s)
    BY <2>4 DEF IsSplit
  <2>6. IF IsSplit(layers, s) THEN l.bottom[p] \notin Name ELSE l.bottom[p] = o.top[p]
    BY <2>2, <2>3, NewBottomIs DEF s
  <2>7. o.top[p] \in N
    <3>1. s[1] <= i
      BY <2>3
    <3>2. QED
      BY <1>2, <2>3, <3>1
  <2>8. InPlace(l, p) <=> ~IsSplit(layers, s)
    BY <1>1, <1>2, <2>1, <2>6 DEF InPlace
  <2>9. QED
    BY <1>1, <1>4, <1>5, <2>5, <2>7, <2>8 DEF IsNew, l, t
<1>6. CASE ~InPlace(o, p)
  <2>1. ~InPlace(l, p)
    <3>1. SUFFICES ASSUME p \in DOMAIN o.bottom, l.bottom[p] = o.top[p] PROVE FALSE
      BY <1>1 DEF InPlace
    <3>2. t \in Bottoms(layers) /\ BottomName(layers, t) = o.bottom[p] /\ l.bottom[p] = NewBottom(layers, t)
      BY <1>1, <1>3, <3>1
    <3>3. NewBottom(layers, t) \in Name
      BY <1>2, <3>1, <3>2
    <3>4. NewBottom(layers, t) = BottomName(layers, t)
      <4> HIDE DEF t
      <4>1. QED
        BY <3>2, <3>3, NewBottomIs
    <3>5. QED
      BY <1>6, <3>1, <3>2, <3>4 DEF InPlace
  <2>2. ASSUME NEW u \in Tops(layers) PROVE Before(u, t) <=> u[1] <= i \/ (u[1] = i + 1 /\ u[2] \in 1..p - 1)
    <3>1. u[1] \in Nat /\ u[2] \in Nat /\ u[2] >= 1
      BY TopsAre
    <3>2. QED
      BY <1>2, <3>1 DEF Before
  <2>3. ASSUME NEW k \in 1..p - 1
        PROVE  << i + 1, k >> \in Tops(layers) /\ TopName(layers, << i + 1, k >>) = o.top[k]
    <3>1. DOMAIN o.top = 1..Len(o.top) /\ Len(o.top) \in Nat
      BY LayerIs DEF o
    <3>2. k \in DOMAIN o.top
      BY <3>1 DEF o
    <3>3. QED
      BY <3>2, TopsAre DEF TopName, o
  <2>4. ASSUME NEW u \in Tops(layers), u[1] = i + 1 PROVE TopName(layers, u) = o.top[u[2]]
    BY <2>4 DEF TopName, o
  <2>5. ASSUME NEW u \in Tops(layers), u[1] <= i, TopName(layers, u) = o.top[p] PROVE o.top[p] \in N
    BY <1>2, <2>5
  <2>6. ASSUME o.top[p] \in N PROVE \E u \in Tops(layers) : u[1] <= i /\ TopName(layers, u) = o.top[p]
    BY <1>2, <2>6
  <2>7. ASSUME NEW k \in 1..p - 1 PROVE << i + 1, k >>[1] = i + 1 /\ << i + 1, k >>[2] = k
    OBVIOUS
  <2>8. ASSUME IsNew(l, N, p), NEW u \in Tops(layers), Before(u, t) PROVE TopName(layers, u) # o.top[p]
    BY <1>1, <2>1, <2>2, <2>4, <2>5, <2>8 DEF IsNew
  <2>9. ASSUME \A u \in Tops(layers) : Before(u, t) => TopName(layers, u) # o.top[p] PROVE IsNew(l, N, p)
    <3>1. o.top[p] \notin N
      BY <2>2, <2>6, <2>9
    <3>2. \A k \in 1..p - 1 : o.top[k] # o.top[p]
      BY <2>2, <2>3, <2>7, <2>9
    <3>3. QED
      BY <1>1, <3>1, <3>2 DEF IsNew
  <2>10. QED
    BY <1>4, <1>6, <2>8, <2>9 DEF l
<1>7. QED
  BY <1>5, <1>6

\* The tops of a layer that is not refused have names of their own
LEMMA TopsDiffer ==
  ASSUME NEW layers \in Seq(Layer), Known(layers), NEW t \in Tops(layers), NEW u \in Tops(layers),
         t[1] = u[1], TopName(layers, t) = TopName(layers, u), GoodTop(layers, t), GoodTop(layers, u)
  PROVE  t = u
<1>1. t \in Nat \X Nat /\ u \in Nat \X Nat
  BY TopsAre
<1>2. ASSUME NEW v \in Tops(layers), NEW w \in Tops(layers), v[1] = w[1], TopName(layers, v) = TopName(layers, w),
             GoodTop(layers, v), GoodTop(layers, w), Before(v, w)
      PROVE  FALSE
  <2>0. v \in Nat \X Nat /\ w \in Nat \X Nat /\ v = << v[1], v[2] >> /\ w = << w[1], w[2] >>
    BY TopsAre
  <2>1. InPlace(layers[w[1]], w[2]) /\ SplitCount(layers, Source(layers, w)) = 1
    BY <1>2 DEF GoodTop
  <2>2. w \in Bottoms(layers) /\ BottomName(layers, w) = TopName(layers, w)
    <3>1. << w[1], w[2] >> \in Bottoms(layers)
      <4>1. << w[1], w[2] >> \in Tops(layers)
        BY <2>0
      <4>2. w[1] \in DOMAIN layers
        BY <4>1, TopsAre
      <4>3. w[2] \in DOMAIN layers[w[1]].bottom
        BY <2>1 DEF InPlace
      <4>4. QED
        BY <4>2, <4>3, BottomsAre
    <3>2. QED
      BY <2>0, <2>1, <3>1 DEF InPlace, BottomName, TopName
  <2> DEFINE s == Source(layers, w)
  <2>3. s \in Tops(layers) /\ s[1] < w[1] /\ TopName(layers, s) = TopName(layers, w) /\ s \in Nat \X Nat
    BY <2>2, MakerIs
  <2>4. Before(s, v)
    BY <1>2, <2>3 DEF Before
  <2>5. InPlace(layers[v[1]], v[2])
    BY <1>2, <2>3, <2>4 DEF GoodTop
  <2>6. v \in Bottoms(layers) /\ BottomName(layers, v) = TopName(layers, v)
    <3>1. << v[1], v[2] >> \in Bottoms(layers)
      <4>1. << v[1], v[2] >> \in Tops(layers)
        BY <2>0
      <4>2. v[1] \in DOMAIN layers
        BY <4>1, TopsAre
      <4>3. v[2] \in DOMAIN layers[v[1]].bottom
        BY <2>5 DEF InPlace
      <4>4. QED
        BY <4>2, <4>3, BottomsAre
    <3>2. QED
      BY <2>0, <2>5, <3>1 DEF InPlace, BottomName, TopName
  <2>7. Source(layers, v) = s
    <3>1. BottomName(layers, v) = BottomName(layers, w)
      BY <1>2, <2>2, <2>6
    <3>2. v[1] <= w[1] /\ Source(layers, w)[1] < v[1]
      <4>1. v[1] \in Nat
        BY <2>0
      <4>2. QED
        BY <1>2, <2>3, <4>1
    <3>3. QED
      BY <2>2, <2>6, <3>1, <3>2, SameSource
  <2>8. /\ v \in Uses(layers, s) /\ w \in Uses(layers, s) /\ IsFiniteSet(Uses(layers, s))
        /\ Cardinality(Uses(layers, s)) <= 1
    <3>1. SplitCount(layers, s) = 1
      BY <2>1
    <3> HIDE DEF s
    <3>2. /\ \A b : b \in Uses(layers, s) <=> b \in Bottoms(layers) /\ Source(layers, b) = s
          /\ IsFiniteSet(Uses(layers, s)) /\ Cardinality(Uses(layers, s)) <= SplitCount(layers, s)
      BY <2>3, UsesAre
    <3>3. Source(layers, w) = s
      BY DEF s
    <3>4. QED
      BY <2>2, <2>6, <2>7, <3>1, <3>2, <3>3
  <2> HIDE DEF s
  <2>9. v = w
    <3> DEFINE S == Uses(layers, s)
    <3> HIDE DEF S
    <3>0. v \in S /\ w \in S /\ IsFiniteSet(S) /\ Cardinality(S) <= 1
      BY <2>8 DEF S
    <3>1. Cardinality(S) \in Nat
      BY <3>0, FS_CardinalityType
    <3>2. Cardinality(S) # 0
      BY <3>0, FS_EmptySet
    <3>3. Cardinality(S) = 1
      BY <3>0, <3>1, <3>2
    <3>4. PICK x : S = {x}
      BY <3>0, <3>3, FS_Singleton
    <3>5. QED
      BY <3>0, <3>4
  <2>10. QED
    BY <1>2, <2>0, <2>9, BeforeIs
<1>3. ~Before(t, u)
  BY <1>2
<1>4. ~Before(u, t)
  BY <1>2
<1>5. QED
  BY <1>1, <1>3, <1>4, BeforeIs

\* What AddLayer makes of layer i + 1 when all before it is there
After(layers, i, c) ==
  /\ (\A t \in Tops(layers) : t[1] = i => GoodTop(layers, t)) => Stage(layers, i, 0, c)
  /\ (\E t \in Tops(layers) : t[1] = i /\ ~GoodTop(layers, t)) => c.ok = FALSE

LEMMA RewiredNext ==
  ASSUME NEW layers \in Seq(Layer), Known(layers), NEW i \in Nat, NEW j \in Nat, i + 1 \in DOMAIN layers,
         \A t \in Tops(layers) : t[1] = i => t[2] <= j,
         NEW b, Stage(layers, i, j, b)
  PROVE  After(layers, i + 1, AddLayer(b, Rewired(layers, i + 1)))
<1> DEFINE o == layers[i + 1]
           l == Rewired(layers, i + 1)
           m == Len(o.bottom)
           n == Len(o.top)
           old == {l.bottom[p] : p \in 1..m}
           new == {l.top[p] : p \in 1..n}
           c == AddLayer(b, l)
<1>1. PICK N : \E A : Sees(b, N, A) /\ Holds(layers, i, j, N, A)
  BY DEF Stage
<1>2. PICK A : Sees(b, N, A) /\ Holds(layers, i, j, N, A)
  BY <1>1
<1>3. /\ m \in Nat /\ n \in Nat /\ DOMAIN o.bottom = 1..m /\ DOMAIN o.top = 1..n
      /\ \A p \in 1..n : o.top[p] \in Name
  BY LayerIs
<1>4. /\ Len(l.bottom) = m /\ DOMAIN l.bottom = 1..m /\ l.top = o.top /\ Len(l.top) = n
      /\ \A p \in 1..m : l.bottom[p] = NewBottom(layers, << i + 1, p >>)
  <2>1. /\ Len(l.bottom) = m /\ DOMAIN l.bottom = DOMAIN o.bottom /\ l.top = o.top
        /\ \A p \in DOMAIN o.bottom : l.bottom[p] = NewBottom(layers, << i + 1, p >>)
    BY RewiredIs
  <2>2. QED
    BY <1>3, <2>1
<1>5. ASSUME NEW p \in 1..m
      PROVE  /\ << i + 1, p >> \in Bottoms(layers) /\ << i + 1, p >>[1] = i + 1 /\ << i + 1, p >>[2] = p
             /\ Source(layers, << i + 1, p >>) \in Tops(layers) /\ Source(layers, << i + 1, p >>)[1] < i + 1
  <2>1. << i + 1, p >> \in Bottoms(layers)
    BY <1>3, BottomsAre
  <2>2. QED
    BY <2>1, MakerIs
<1> HIDE DEF l, m, n, o
<1>6. /\ A \subseteq N
      /\ \A x \in Name : x \in N <=> \E u \in Tops(layers) : u[1] <= i /\ TopName(layers, u) = x
      /\ \A u \in Tops(layers) : \A k : SplitBlobName(layers, u, k) \in N => u[1] <= i
      /\ \A d \in Bottoms(layers) : d[1] > i /\ Source(layers, d)[1] <= i => NewBottom(layers, d) \in A
  <2>1. /\ A \subseteq N
        /\ \A x \in Name : x \in N <=> \E u \in Tops(layers) : u[1] <= i /\ TopName(layers, u) = x
    BY <1>2 DEF Holds
  <2>2. ASSUME NEW u \in Tops(layers), NEW k, SplitBlobName(layers, u, k) \in N PROVE u[1] <= i
    <3>1. u[1] < i \/ u[1] = i
      BY <1>2, <2>2 DEF Holds
    <3>2. u[1] \in Nat
      BY TopsAre
    <3>3. QED
      BY <3>1, <3>2
  <2>3. ASSUME NEW d \in Bottoms(layers), d[1] > i, Source(layers, d)[1] <= i PROVE NewBottom(layers, d) \in A
    <3>1. Source(layers, d) \in Tops(layers) /\ Source(layers, d) \in Nat \X Nat
      BY MakerIs
    <3>2. Source(layers, d)[1] < i \/ Source(layers, d)[2] <= j
      BY <2>3, <3>1
    <3>3. Ready(layers, i, j, Source(layers, d))
      BY <3>2 DEF Ready
    <3>4. QED
      BY <1>2, <2>3, <3>3 DEF Holds
  <2>4. QED
    BY <2>1, <2>2, <2>3
<1>7. \A p \in 1..m : l.bottom[p] \in A
  <2>1. SUFFICES ASSUME NEW p \in 1..m PROVE l.bottom[p] \in A
    OBVIOUS
  <2> DEFINE d == << i + 1, p >>
  <2>2. d \in Bottoms(layers) /\ d[1] > i /\ Source(layers, d)[1] <= i /\ l.bottom[p] = NewBottom(layers, d)
    <3>1. d \in Bottoms(layers) /\ d[1] = i + 1 /\ Source(layers, d)[1] < i + 1 /\ l.bottom[p] = NewBottom(layers, d)
      BY <1>4, <1>5
    <3>2. Source(layers, d)[1] \in Nat
      <4>1. Source(layers, d) \in Tops(layers)
        BY <1>5
      <4>2. QED
        BY <4>1, TopsAre
    <3>3. QED
      BY <3>1, <3>2
  <2> HIDE DEF d
  <2>3. QED
    BY <1>6, <2>2
<1>8. ASSUME NEW d \in Bottoms(layers), d[1] >= i + 1, Source(layers, d)[1] < i + 1, NEW p \in 1..m,
             l.bottom[p] = NewBottom(layers, d)
      PROVE  d = << i + 1, p >>
  <2> DEFINE e == << i + 1, p >>
  <2>1. e \in Bottoms(layers) /\ NewBottom(layers, e) = NewBottom(layers, d) /\ e[1] <= d[1] /\ Source(layers, d)[1] < e[1]
    BY <1>4, <1>5, <1>8
  <2> HIDE DEF e
  <2>2. e = d
    BY <1>8, <2>1, ReadersDiffer
  <2>3. QED
    BY <2>2 DEF e
<1>9. \A p, q \in 1..m : l.bottom[p] = l.bottom[q] => p = q
  <2>1. SUFFICES ASSUME NEW p \in 1..m, NEW q \in 1..m, l.bottom[p] = l.bottom[q] PROVE p = q
    OBVIOUS
  <2>2. /\ << i + 1, q >> \in Bottoms(layers) /\ << i + 1, q >>[1] >= i + 1
        /\ Source(layers, << i + 1, q >>)[1] < i + 1 /\ l.bottom[p] = NewBottom(layers, << i + 1, q >>)
    BY <1>4, <1>5, <2>1
  <2>3. << i + 1, q >> = << i + 1, p >>
    BY <1>8, <2>2
  <2>4. QED
    BY <2>3
<1>10. Outcome(l, n, N, A \ old, c)
  <2>1. Sees(b, N, A) /\ A \subseteq N
    BY <1>2, <1>6
  <2>2. QED
    BY <1>3, <1>4, <1>7, <1>9, <2>1, AddLayerIs
<1>11. ASSUME NEW p \in 1..n
       PROVE  /\ << i + 1, p >> \in Tops(layers) /\ TopName(layers, << i + 1, p >>) = l.top[p]
              /\ GoodTop(layers, << i + 1, p >>) <=> IsNew(l, N, p)
  <2>1. << i + 1, p >> \in Tops(layers) /\ TopName(layers, << i + 1, p >>) = l.top[p]
    BY <1>3, <1>4, TopsAre DEF TopName, o
  <2>2. GoodTop(layers, << i + 1, p >>) <=> IsNew(l, N, p)
    <3>1. p \in DOMAIN layers[i + 1].top
      BY <1>3 DEF o
    <3>2. QED
      BY <1>6, <3>1, GoodIsNew DEF l
  <2>3. QED
    BY <2>1, <2>2
<1>12. ASSUME NEW t \in Tops(layers), t[1] = i + 1
       PROVE  t[2] \in 1..n /\ t = << i + 1, t[2] >> /\ TopName(layers, t) = l.top[t[2]]
  <2>1. t = << t[1], t[2] >>
    BY TopsAre
  <2>2. t[2] \in 1..n
    BY <1>3, <1>12, <2>1, TopsAre DEF o
  <2>3. QED
    BY <1>11, <1>12, <2>1, <2>2
<1>13. CASE \A t \in Tops(layers) : t[1] = i + 1 => GoodTop(layers, t)
  <2> DEFINE N2 == N \union new
             A2 == (A \ old) \union new
  <2>1. \A p \in 1..n : IsNew(l, N, p)
    <3>1. SUFFICES ASSUME NEW p \in 1..n PROVE IsNew(l, N, p)
      OBVIOUS
    <3>2. << i + 1, p >>[1] = i + 1
      OBVIOUS
    <3>3. QED
      BY <1>11, <1>13, <3>2
  <2>2. Sees(c, N2, A2)
    <3>1. new = {l.top[p] : p \in 1..n}
      OBVIOUS
    <3> HIDE DEF new, old, c
    <3>2. QED
      BY <1>10, <2>1, <3>1 DEF Outcome
  <2>3. ASSUME NEW x \in new PROVE x \in Name /\ \E u \in Tops(layers) : u[1] = i + 1 /\ TopName(layers, u) = x
    <3>1. PICK p \in 1..n : x = l.top[p]
      OBVIOUS
    <3>2. << i + 1, p >>[1] = i + 1
      OBVIOUS
    <3>3. QED
      BY <1>3, <1>4, <1>11, <3>1, <3>2
  <2>4. ASSUME NEW u \in Tops(layers), u[1] = i + 1 PROVE TopName(layers, u) \in new
    BY <1>12, <2>4
  <2> HIDE DEF new
  <2>5. A2 \subseteq N2
    BY <1>6
  <2>6. ASSUME NEW x \in Name PROVE x \in N2 <=> \E u \in Tops(layers) : u[1] <= i + 1 /\ TopName(layers, u) = x
    <3>1. ASSUME x \in N PROVE \E u \in Tops(layers) : u[1] <= i + 1 /\ TopName(layers, u) = x
      <4>1. PICK u \in Tops(layers) : u[1] <= i /\ TopName(layers, u) = x
        BY <1>6, <3>1
      <4>2. u[1] \in Nat
        BY TopsAre
      <4>3. QED
        BY <4>1, <4>2
    <3>2. ASSUME x \in new PROVE \E u \in Tops(layers) : u[1] <= i + 1 /\ TopName(layers, u) = x
      BY <2>3, <3>2
    <3>3. ASSUME NEW u \in Tops(layers), u[1] <= i + 1, TopName(layers, u) = x PROVE x \in N2
      <4>1. u[1] \in Nat
        BY TopsAre
      <4>2. CASE u[1] = i + 1
        BY <2>4, <3>3, <4>2
      <4>3. CASE u[1] <= i
        BY <1>6, <3>3, <4>3
      <4>4. QED
        BY <3>3, <4>1, <4>2, <4>3
    <3>4. QED
      BY <3>1, <3>2, <3>3
  <2>7. ASSUME NEW u \in Tops(layers), NEW k, SplitBlobName(layers, u, k) \in N2 PROVE u[1] < i + 1
    <3>1. u \in Nat \X Nat
      BY TopsAre
    <3>2. SplitBlobName(layers, u, k) \notin Name
      BY <3>1, SplitNameIs
    <3>3. SplitBlobName(layers, u, k) \in N
      BY <2>3, <2>7, <3>2
    <3>4. u[1] <= i
      BY <1>6, <3>3
    <3>5. QED
      BY <3>1, <3>4
  <2>8. ASSUME NEW d \in Bottoms(layers), d[1] > i + 1, Source(layers, d)[1] <= i + 1,
               Ready(layers, i + 1, 0, Source(layers, d))
        PROVE  NewBottom(layers, d) \in A2
    <3> DEFINE s == Source(layers, d)
    <3>1. s \in Tops(layers) /\ s[1] \in Nat /\ s[2] \in Nat /\ s[2] # 0 /\ d[1] \in Nat
      BY MakerIs, TopsAre, BottomsAre
    <3>2. CASE s[1] <= i
      <4>1. NewBottom(layers, d) \in A
        BY <1>6, <2>8, <3>1, <3>2
      <4>2. NewBottom(layers, d) \notin old
        <5>1. SUFFICES ASSUME NEW p \in 1..m, l.bottom[p] = NewBottom(layers, d) PROVE FALSE
          OBVIOUS
        <5>2. d = << i + 1, p >>
          <6>1. d[1] >= i + 1 /\ Source(layers, d)[1] < i + 1
            BY <2>8, <3>1, <3>2
          <6>2. QED
            BY <1>8, <5>1, <6>1
        <5>3. QED
          BY <2>8, <5>2
      <4>3. QED
        BY <4>1, <4>2
    <3>3. CASE s[1] = i + 1
      <4>1. ~IsSplit(layers, s)
        BY <2>8, <3>1, <3>3 DEF Ready
      <4>2. NewBottom(layers, d) = TopName(layers, s)
        BY <4>1, NewBottomIs
      <4>3. QED
        BY <2>4, <3>1, <3>3, <4>2
    <3>4. QED
      BY <2>8, <3>1, <3>2, <3>3
  <2>9. ASSUME NEW t \in Tops(layers), t[1] = i + 1 PROVE TopName(layers, t) \in A2
    BY <2>4, <2>9
  <2> HIDE DEF N2, A2
  <2>10. Holds(layers, i + 1, 0, N2, A2)
    BY <2>5, <2>6, <2>7, <2>8, <2>9 DEF Holds
  <2>11. Stage(layers, i + 1, 0, c)
    BY <2>2, <2>10 DEF Stage
  <2>12. QED
    BY <1>13, <2>11 DEF After, c, l
<1>14. CASE \E t \in Tops(layers) : t[1] = i + 1 /\ ~GoodTop(layers, t)
  <2>1. PICK t \in Tops(layers) : t[1] = i + 1 /\ ~GoodTop(layers, t)
    BY <1>14
  <2>2. \E p \in 1..n : ~IsNew(l, N, p)
    BY <1>11, <1>12, <2>1
  <2>3. c.ok = FALSE
    <3> HIDE DEF c, old
    <3>1. QED
      BY <1>10, <2>2 DEF Outcome
  <2>4. QED
    BY <1>14, <2>3 DEF After, c, l
<1>15. QED
  BY <1>13, <1>14

\* A split reads its top and makes the names that its bottoms read
LEMMA SplitNext ==
  ASSUME NEW layers \in Seq(Layer), Known(layers), NEW i \in Nat, NEW j \in Nat, NEW t \in Tops(layers), t = << i, j + 1 >>,
         IsSplit(layers, t), \A u \in Tops(layers) : u[1] = i => GoodTop(layers, u),
         NEW b, Stage(layers, i, j, b)
  PROVE  Stage(layers, i, j + 1, AddLayer(b, ConfigureSplitLayer(layers, t)))
<1> DEFINE l == ConfigureSplitLayer(layers, t)
           n == SplitCount(layers, t)
           x == TopName(layers, t)
           new == {SplitBlobName(layers, t, k - 1) : k \in 1..n}
           c == AddLayer(b, l)
<1>1. PICK N : \E A : Sees(b, N, A) /\ Holds(layers, i, j, N, A)
  BY DEF Stage
<1>2. PICK A : Sees(b, N, A) /\ Holds(layers, i, j, N, A)
  BY <1>1
<1>3. n \in Nat /\ x \in Name /\ t \in Nat \X Nat /\ t[1] = i /\ t[2] = j + 1
  BY TopsAre, UsesAre
<1>4. l.bottom = << x >> /\ l.top = [k \in 1..n |-> SplitBlobName(layers, t, k - 1)]
  BY DEF ConfigureSplitLayer
<1> HIDE DEF l, n, x
<1>5. Len(l.bottom) = 1 /\ DOMAIN l.bottom = 1..1 /\ l.bottom[1] = x /\ Len(l.top) = n
  BY <1>3, <1>4
<1>6. x \in A /\ A \subseteq N
  BY <1>2, <1>3 DEF Holds, x
<1>7. \A k : SplitBlobName(layers, t, k) \notin Name /\ SplitBlobName(layers, t, k) \notin N
  <2>1. SUFFICES ASSUME NEW k PROVE SplitBlobName(layers, t, k) \notin Name /\ SplitBlobName(layers, t, k) \notin N
    OBVIOUS
  <2>2. SplitBlobName(layers, t, k) \notin Name
    BY <1>3, SplitNameIs
  <2>3. ASSUME SplitBlobName(layers, t, k) \in N PROVE FALSE
    <3>1. t[1] < i \/ (t[1] = i /\ t[2] <= j)
      BY <1>2, <2>3 DEF Holds
    <3>2. QED
      BY <1>3, <3>1
  <2>4. QED
    BY <2>2, <2>3
<1>8. ASSUME NEW u \in Tops(layers), NEW k, NEW m, SplitBlobName(layers, u, k) = SplitBlobName(layers, t, m)
      PROVE  u = t /\ k = m
  <2>1. u \in Nat \X Nat
    BY TopsAre
  <2>2. QED
    BY <1>3, <1>8, <2>1, SplitNameIs
<1>9. Outcome(l, n, N, A \ {x}, c)
  <2>1. Sees(b, N, A)
    BY <1>2
  <2>2. \A p \in 1..1 : l.bottom[p] \in A
    BY <1>5, <1>6
  <2>3. \A p, q \in 1..1 : l.bottom[p] = l.bottom[q] => p = q
    OBVIOUS
  <2>4. Outcome(l, n, N, A \ {l.bottom[p] : p \in 1..1}, c)
    <3>1. 1 \in Nat
      OBVIOUS
    <3>2. QED
      BY <1>3, <1>5, <1>6, <2>1, <2>2, <2>3, <3>1, AddLayerIs
  <2>5. {l.bottom[p] : p \in 1..1} = {x}
    BY <1>5
  <2> HIDE DEF c
  <2>6. QED
    BY <2>4, <2>5
<1>10. \A p \in 1..n : IsNew(l, N, p)
  <2>1. SUFFICES ASSUME NEW p \in 1..n PROVE l.top[p] \notin N /\ \A k \in 1..p - 1 : l.top[k] # l.top[p]
    BY DEF IsNew
  <2>2. l.top[p] = SplitBlobName(layers, t, p - 1)
    BY <1>4
  <2>3. ASSUME NEW k \in 1..p - 1, l.top[k] = l.top[p] PROVE FALSE
    <3>1. k \in 1..n /\ k # p
      BY <1>3
    <3>2. l.top[k] = SplitBlobName(layers, t, k - 1)
      BY <1>4, <3>1
    <3>3. k - 1 = p - 1
      BY <1>8, <2>2, <2>3, <3>2
    <3>4. QED
      BY <3>1, <3>3
  <2>4. QED
    BY <1>7, <2>2, <2>3
<1> DEFINE N2 == N \union new
           A2 == (A \ {x}) \union new
<1>11. Sees(c, N2, A2)
  <2>1. {l.top[p] : p \in 1..n} = new
    BY <1>4
  <2> HIDE DEF new, c
  <2>2. QED
    BY <1>9, <1>10, <2>1 DEF Outcome
<1>12. \A y \in new : y \notin Name /\ \A u \in Tops(layers) : \A k : y = SplitBlobName(layers, u, k) => u = t
  <2>1. SUFFICES ASSUME NEW y \in new
                 PROVE  y \notin Name /\ \A u \in Tops(layers) : \A k : y = SplitBlobName(layers, u, k) => u = t
    OBVIOUS
  <2>2. PICK k \in 1..n : y = SplitBlobName(layers, t, k - 1)
    OBVIOUS
  <2>3. QED
    BY <1>7, <1>8, <2>2
<1>13. ASSUME NEW k \in 0..n - 1 PROVE SplitBlobName(layers, t, k) \in new
  <2>1. k + 1 \in 1..n /\ (k + 1) - 1 = k
    BY <1>3
  <2>2. QED
    BY <2>1
<1>14. ASSUME NEW u \in Tops(layers), u[1] = i, TopName(layers, u) = x PROVE u = t
  BY <1>3, <1>14, TopsDiffer DEF x
<1> HIDE DEF new
<1>15. A2 \subseteq N2
  BY <1>6
<1>16. \A y \in Name : y \in N2 <=> \E u \in Tops(layers) : u[1] <= i /\ TopName(layers, u) = y
  <2>1. \A y \in Name : y \in N2 <=> y \in N
    BY <1>12
  <2> HIDE DEF N2
  <2>2. QED
    BY <1>2, <2>1 DEF Holds
<1>17. ASSUME NEW u \in Tops(layers), NEW k, SplitBlobName(layers, u, k) \in N2
       PROVE  u[1] < i \/ (u[1] = i /\ u[2] <= j + 1)
  <2>1. CASE SplitBlobName(layers, u, k) \in N
    <3>1. u[1] < i \/ (u[1] = i /\ u[2] <= j)
      BY <1>2, <2>1 DEF Holds
    <3>2. u[2] \in Nat
      BY TopsAre
    <3>3. QED
      BY <3>1, <3>2
  <2>2. CASE SplitBlobName(layers, u, k) \in new
    BY <1>3, <1>12, <2>2
  <2>3. QED
    BY <1>17, <2>1, <2>2
<1>18. ASSUME NEW d \in Bottoms(layers), d[1] > i, Source(layers, d)[1] <= i, Ready(layers, i, j + 1, Source(layers, d))
       PROVE  NewBottom(layers, d) \in A2
  <2> DEFINE s == Source(layers, d)
  <2>1. /\ s \in Tops(layers) /\ s \in Nat \X Nat /\ TopName(layers, s) = BottomName(layers, d)
        /\ \A u \in Tops(layers) : u[1] < d[1] /\ TopName(layers, u) = BottomName(layers, d) => u = s \/ Before(u, s)
    BY MakerIs
  <2>2. CASE s = t
    <3>1. NewBottom(layers, d) = SplitBlobName(layers, t, SplitIndex(layers, d))
      BY <2>2, NewBottomIs
    <3>2. d \in Uses(layers, t)
      BY <2>2, UsesAre
    <3>3. SplitIndex(layers, d) \in 0..n - 1
      BY <3>2, IndexIs DEF n
    <3>4. QED
      BY <1>13, <3>1, <3>3
  <2>3. CASE s # t
    <3>1. Ready(layers, i, j, s)
      <4>1. s[1] \in Nat /\ s[2] \in Nat /\ s = << s[1], s[2] >>
        BY <2>1
      <4>2. ~(s[1] = i /\ s[2] = j + 1)
        BY <2>3, <4>1
      <4>3. ~IsSplit(layers, s) \/ s[1] < i \/ s[2] <= j + 1
        BY <1>18 DEF Ready
      <4>4. s[1] <= i
        BY <1>18
      <4> HIDE DEF s
      <4>5. QED
        BY <4>1, <4>2, <4>3, <4>4 DEF Ready
    <3>2. NewBottom(layers, d) \in A
      BY <1>2, <1>18, <3>1 DEF Holds
    <3>3. ASSUME NewBottom(layers, d) = x PROVE FALSE
      <4>1. ~IsSplit(layers, s) /\ TopName(layers, s) = x
        BY <1>3, <3>3, NewBottomIs
      <4>2. t[1] < d[1] /\ TopName(layers, t) = BottomName(layers, d)
        BY <1>3, <1>18, <2>1, <4>1 DEF x
      <4>3. Before(t, s)
        BY <2>1, <2>3, <4>2
      <4>4. s[1] = i
        <5>1. s[1] \in Nat /\ s[1] <= i /\ t[1] = i
          BY <1>3, <1>18, <2>1
        <5>2. QED
          BY <4>3, <5>1 DEF Before
      <4>5. QED
        BY <1>14, <2>1, <2>3, <4>1, <4>4
    <3>4. QED
      BY <3>2, <3>3
  <2>4. QED
    BY <2>2, <2>3
<1>19. ASSUME NEW u \in Tops(layers), u[1] = i, u[2] > j + 1, IsSplit(layers, u) PROVE TopName(layers, u) \in A2
  <2>1. u[2] \in Nat
    BY TopsAre
  <2>2. TopName(layers, u) \in A
    <3>1. u[2] > j
      BY <1>19, <2>1
    <3>2. QED
      BY <1>2, <1>19, <3>1 DEF Holds
  <2>3. TopName(layers, u) # x
    BY <1>3, <1>14, <1>19, <2>1
  <2>4. QED
    BY <2>2, <2>3
<1> HIDE DEF N2, A2
<1>20. Holds(layers, i, j + 1, N2, A2)
  BY <1>15, <1>16, <1>17, <1>18, <1>19 DEF Holds
<1>21. QED
  BY <1>11, <1>20 DEF Stage, c, l

\* A top without a split needs none
LEMMA UnsplitNext ==
  ASSUME NEW layers \in Seq(Layer), Known(layers), NEW i \in Nat, NEW j \in Nat, NEW t \in Tops(layers), t = << i, j + 1 >>,
         ~IsSplit(layers, t), NEW b, Stage(layers, i, j, b)
  PROVE  Stage(layers, i, j + 1, b)
<1>1. PICK N : \E A : Sees(b, N, A) /\ Holds(layers, i, j, N, A)
  BY DEF Stage
<1>2. PICK A : Sees(b, N, A) /\ Holds(layers, i, j, N, A)
  BY <1>1
<1>3. A \subseteq N /\ \A y \in Name : y \in N <=> \E u \in Tops(layers) : u[1] <= i /\ TopName(layers, u) = y
  BY <1>2 DEF Holds
<1>4. \A u \in Tops(layers) : u[1] \in Nat /\ u[2] \in Nat /\ u = << u[1], u[2] >>
  BY TopsAre
<1>5. ASSUME NEW u \in Tops(layers), NEW k, SplitBlobName(layers, u, k) \in N
      PROVE  u[1] < i \/ (u[1] = i /\ u[2] <= j + 1)
  <2>1. u[1] < i \/ (u[1] = i /\ u[2] <= j)
    BY <1>2, <1>5 DEF Holds
  <2>2. QED
    BY <1>4, <2>1
<1>6. ASSUME NEW d \in Bottoms(layers), d[1] > i, Source(layers, d)[1] <= i, Ready(layers, i, j + 1, Source(layers, d))
      PROVE  NewBottom(layers, d) \in A
  <2> DEFINE s == Source(layers, d)
  <2>1. s \in Tops(layers)
    BY MakerIs
  <2>2. s[1] \in Nat /\ s[2] \in Nat /\ s = << s[1], s[2] >>
    BY <1>4, <2>1
  <2>3. Ready(layers, i, j, s)
    <3>1. ~IsSplit(layers, s) \/ s[1] < i \/ s[2] <= j + 1
      BY <1>6 DEF Ready
    <3>2. s[1] <= i
      BY <1>6
    <3> HIDE DEF s
    <3>3. QED
      BY <2>2, <3>1, <3>2 DEF Ready
  <2>4. QED
    BY <1>2, <1>6, <2>3 DEF Holds
<1>7. ASSUME NEW u \in Tops(layers), u[1] = i, u[2] > j + 1, IsSplit(layers, u) PROVE TopName(layers, u) \in A
  <2>1. u[2] > j
    BY <1>4, <1>7
  <2>2. QED
    BY <1>2, <1>7, <2>1 DEF Holds
<1>8. Holds(layers, i, j + 1, N, A)
  BY <1>3, <1>5, <1>6, <1>7 DEF Holds
<1>9. QED
  BY <1>2, <1>8 DEF Stage

-----------------------------------------------------------------------------
(* Nets: all layers, and the splits between them *)

\* The layers of a net with splits
AllLayers(layers) ==
  {Rewired(layers, i) : i \in DOMAIN layers} \union {ConfigureSplitLayer(layers, t) : t \in Tops(layers)}

Pieces(layers, i) == [j \in 1..Len(layers[i].top) |-> SplitOf(layers, << i, j >>)]

RowIs(layers, i, splits, row) ==
  /\ row \in Seq(AllLayers(layers)) /\ Len(splits) \in Nat /\ Len(row) = 1 + Len(splits) /\ row[1] = Rewired(layers, i)
  /\ \A q \in 1..Len(splits) : row[q + 1] = splits[q]

LEMMA PiecesAre ==
  ASSUME NEW layers \in Seq(Layer), NEW i \in DOMAIN layers
  PROVE  /\ Len(layers[i].top) \in Nat
         /\ Pieces(layers, i) \in [1..Len(layers[i].top) -> Seq(AllLayers(layers))]
         /\ \A j \in 1..Len(layers[i].top) :
               IF IsSplit(layers, << i, j >>)
               THEN Len(Pieces(layers, i)[j]) = 1 /\ Pieces(layers, i)[j][1] = ConfigureSplitLayer(layers, << i, j >>)
               ELSE Len(Pieces(layers, i)[j]) = 0
         /\ RowIs(layers, i, FlattenSeq(Pieces(layers, i)), WithSplits(layers, i))
<1> DEFINE n == Len(layers[i].top)
           S == AllLayers(layers)
           F == FlattenSeq(Pieces(layers, i))
<1>1. n \in Nat /\ DOMAIN layers[i].top = 1..n
  BY LayerIs
<1>2. ASSUME NEW j \in 1..n
      PROVE  /\ SplitOf(layers, << i, j >>) \in Seq(S)
             /\ IF IsSplit(layers, << i, j >>)
                THEN Len(SplitOf(layers, << i, j >>)) = 1 /\ SplitOf(layers, << i, j >>)[1] = ConfigureSplitLayer(layers, << i, j >>)
                ELSE Len(SplitOf(layers, << i, j >>)) = 0
  <2> DEFINE t == << i, j >>
             x == ConfigureSplitLayer(layers, t)
  <2>1. t \in Tops(layers)
    BY <1>1, TopsAre
  <2>2. x \in S
    BY <2>1 DEF AllLayers
  <2>3. SplitOf(layers, t) = IF IsSplit(layers, t) THEN << x >> ELSE << >>
    BY DEF SplitOf
  <2> HIDE DEF S, x, t
  <2>4. << x >> \in Seq(S) /\ Len(<< x >>) = 1 /\ << x >>[1] = x
    BY <2>2
  <2>5. << >> \in Seq(S) /\ Len(<< >>) = 0
    OBVIOUS
  <2>6. QED
    BY <2>3, <2>4, <2>5 DEF x, t
<1>3. /\ Pieces(layers, i) = [j \in 1..n |-> SplitOf(layers, << i, j >>)]
      /\ Pieces(layers, i) \in [1..n -> Seq(S)]
  BY <1>2 DEF Pieces
<1>4. WithSplits(layers, i) = << Rewired(layers, i) >> \o F
  BY <1>1, <1>3 DEF WithSplits
<1>5. F \in Seq(S)
  <2>1. IsWhole(S, n, Pieces(layers, i), F)
    <3> HIDE DEF S
    <3>1. QED
      BY <1>1, <1>3, FlatIs, Zenon
  <2> HIDE DEF F, S
  <2>2. QED
    BY <2>1 DEF IsWhole
<1>6. RowIs(layers, i, F, WithSplits(layers, i))
  <2> DEFINE x == Rewired(layers, i)
             one == << x >>
             row == one \o F
  <2>1. x \in S
    BY DEF AllLayers
  <2> HIDE DEF x, F, S
  <2>2. one \in Seq(S) /\ Len(one) = 1 /\ one[1] = x
    BY <2>1
  <2>3. Len(F) \in Nat
    BY <1>5
  <2> HIDE DEF one
  <2>4. /\ row \in Seq(S) /\ Len(row) = 1 + Len(F)
        /\ \A q \in 1..1 + Len(F) : row[q] = IF q <= 1 THEN one[q] ELSE F[q - 1]
    <3>1. /\ row \in Seq(S) /\ Len(row) = Len(one) + Len(F)
          /\ \A q \in 1..Len(one) + Len(F) : row[q] = IF q <= Len(one) THEN one[q] ELSE F[q - Len(one)]
      BY <1>5, <2>2, ConcatProperties, Zenon
    <3> HIDE DEF row
    <3>2. QED
      BY <2>2, <3>1
  <2>5. row[1] = x
    <3>1. 1 \in 1..1 + Len(F)
      BY <2>3
    <3>2. QED
      BY <2>2, <2>4, <3>1
  <2>6. ASSUME NEW q \in 1..Len(F) PROVE row[q + 1] = F[q]
    <3>1. q + 1 \in 1..1 + Len(F) /\ ~(q + 1 <= 1) /\ (q + 1) - 1 = q
      BY <2>3
    <3>2. QED
      BY <2>4, <3>1
  <2> HIDE DEF row
  <2>7. RowIs(layers, i, F, row)
    BY <2>3, <2>4, <2>5, <2>6 DEF RowIs, S, x
  <2>8. QED
    BY <1>4, <2>7 DEF row, one, x
<1>7. QED
  BY <1>1, <1>2, <1>3, <1>6 DEF Pieces

\* f[k] is what Init has after one more layer, l
Takes(f, k, l) == f[k] = LET c == f[k - 1] IN IF c.ok THEN AddLayer(c, l) ELSE c

\* ... and f[p + q] what it has after q layers of row
Runs(f, p, row) == \A q \in 1..Len(row) : Takes(f, p + q, row[q])

LEMMA FatalStays ==
  ASSUME NEW f, NEW p \in Nat, NEW row, Len(row) \in Nat, Runs(f, p, row), NEW q \in 0..Len(row), f[p + q].ok = FALSE
  PROVE  f[p + Len(row)].ok = FALSE
<1> DEFINE n == Len(row)
           Is(k) == q + k <= n => f[p + (q + k)].ok = FALSE
           Ok == {k \in Nat : Is(k)}
<1>1. 0 \in Ok
  <2>1. q + 0 = q
    OBVIOUS
  <2>2. QED
    BY <2>1
<1>2. ASSUME NEW k \in Nat, k \in Ok PROVE k + 1 \in Ok
  <2>0. SUFFICES Is(k + 1)
    <3> HIDE DEF Is
    <3>1. QED
      OBVIOUS
  <2>1. SUFFICES ASSUME q + (k + 1) <= n PROVE f[p + (q + (k + 1))].ok = FALSE
    OBVIOUS
  <2>2. q + (k + 1) \in 1..n /\ (p + (q + (k + 1))) - 1 = p + (q + k) /\ q + k <= n
    BY <2>1
  <2>3. f[p + (q + k)].ok = FALSE
    BY <1>2, <2>2
  <2>4. f[p + (q + (k + 1))] = LET c == f[(p + (q + (k + 1))) - 1] IN IF c.ok THEN AddLayer(c, row[q + (k + 1)]) ELSE c
    BY <2>2 DEF Runs, Takes
  <2>5. QED
    BY <2>2, <2>3, <2>4
<1>3. n - q \in Ok
  <2>1. n - q \in Nat
    OBVIOUS
  <2> HIDE DEF Ok
  <2>2. QED
    BY <1>1, <1>2, <2>1, Inductive
<1>4. q + (n - q) = n /\ n - q \in Nat
  OBVIOUS
<1>5. QED
  BY <1>3, <1>4

\* After i layers and their splits
Upto(layers, i, c) ==
  /\ (\A t \in Tops(layers) : t[1] <= i => GoodTop(layers, t)) =>
        \E j \in Nat : Stage(layers, i, j, c) /\ \A t \in Tops(layers) : t[1] = i => t[2] <= j
  /\ (\E t \in Tops(layers) : t[1] <= i /\ ~GoodTop(layers, t)) => c.ok = FALSE

\* The splits of a layer, one after the other
LEMMA SplitsNext ==
  ASSUME NEW layers \in Seq(Layer), Known(layers), NEW i \in DOMAIN layers,
         \A t \in Tops(layers) : t[1] = i => GoodTop(layers, t),
         NEW f, NEW p \in Nat, Runs(f, p, FlattenSeq(Pieces(layers, i))), Stage(layers, i, 0, f[p])
  PROVE  Stage(layers, i, Len(layers[i].top), f[p + Len(FlattenSeq(Pieces(layers, i)))])
<1> DEFINE n == Len(layers[i].top)
           S == AllLayers(layers)
           seqs == Pieces(layers, i)
           F == FlattenSeq(seqs)
           lens == Lens(n, seqs)
           sum == Sums(lens)
           Ok == {j \in Nat : j <= n => Stage(layers, i, j, f[p + sum[j]])}
<1>1. /\ n \in Nat /\ seqs \in [1..n -> Seq(S)]
      /\ \A j \in 1..n : IF IsSplit(layers, << i, j >>)
                         THEN Len(seqs[j]) = 1 /\ seqs[j][1] = ConfigureSplitLayer(layers, << i, j >>)
                         ELSE Len(seqs[j]) = 0
  BY PiecesAre
<1>2. i \in Nat /\ \A j \in 1..n : << i, j >> \in Tops(layers)
  BY LayerIs, TopsAre
<1> HIDE DEF seqs, S, n
<1>3. IsWhole(S, n, seqs, F)
  BY <1>1, FlatIs, Zenon
<1>4. lens \in [1..n -> Nat] /\ \A j \in 1..n : lens[j] = Len(seqs[j])
  <2>1. \A j \in 1..n : Len(seqs[j]) \in Nat
    BY <1>1
  <2>2. QED
    BY <2>1 DEF Lens
<1> HIDE DEF lens
<1>5. sum \in [0..n -> Nat] /\ sum[0] = 0 /\ (\A j \in 1..n : sum[j] = sum[j - 1] + lens[j]) /\ Total(lens) = sum[n]
  BY <1>1, <1>4, SumsAre
<1> HIDE DEF F, sum
<1>6. /\ Len(F) = sum[n]
      /\ \A j \in 1..n : \A q \in 1..Len(seqs[j]) : sum[j - 1] + q \in 1..Len(F) /\ F[sum[j - 1] + q] = seqs[j][q]
  BY <1>3, <1>5 DEF IsWhole, lens, sum
<1>7. 0 \in Ok
  <2>1. p + 0 = p
    OBVIOUS
  <2>2. QED
    BY <1>5, <2>1
<1>8. ASSUME NEW j \in Nat, j \in Ok PROVE j + 1 \in Ok
  <2>1. SUFFICES ASSUME j + 1 <= n PROVE Stage(layers, i, j + 1, f[p + sum[j + 1]])
    OBVIOUS
  <2> DEFINE t == << i, j + 1 >>
             k == sum[j]
  <2>2. j + 1 \in 1..n /\ (j + 1) - 1 = j /\ j \in 0..n
    BY <1>1, <2>1
  <2>3. Stage(layers, i, j, f[p + k]) /\ k \in Nat /\ t \in Tops(layers)
    BY <1>2, <1>5, <1>8, <2>1, <2>2
  <2>4. sum[j + 1] = k + Len(seqs[j + 1])
    BY <1>4, <1>5, <2>2
  <2>5. CASE IsSplit(layers, t)
    <3>1. Len(seqs[j + 1]) = 1 /\ seqs[j + 1][1] = ConfigureSplitLayer(layers, t)
      BY <1>1, <2>2, <2>5
    <3>2. k + 1 \in 1..Len(F) /\ F[k + 1] = ConfigureSplitLayer(layers, t)
      <4>1. 1 \in 1..Len(seqs[j + 1])
        BY <3>1
      <4>2. QED
        BY <1>6, <2>2, <3>1, <4>1
    <3>3. f[p + (k + 1)] = LET c == f[(p + (k + 1)) - 1] IN IF c.ok THEN AddLayer(c, F[k + 1]) ELSE c
      BY <3>2 DEF Runs, Takes, F, seqs
    <3>4. (p + (k + 1)) - 1 = p + k
      BY <2>3
    <3>5. f[p + k].ok = TRUE
      BY <2>3 DEF Stage, Sees
    <3>6. f[p + (k + 1)] = AddLayer(f[p + k], ConfigureSplitLayer(layers, t))
      BY <3>2, <3>3, <3>4, <3>5
    <3> HIDE DEF k
    <3>7. Stage(layers, i, j + 1, AddLayer(f[p + k], ConfigureSplitLayer(layers, t)))
      <4> DEFINE b == f[p + k]
                 s == t
      <4> HIDE DEF b
      <4>1. Stage(layers, i, j, b) /\ s \in Tops(layers) /\ s = << i, j + 1 >> /\ IsSplit(layers, s)
        BY <2>3, <2>5 DEF b
      <4>2. \A u \in Tops(layers) : u[1] = i => GoodTop(layers, u)
        OBVIOUS
      <4> HIDE DEF s, t
      <4>3. Stage(layers, i, j + 1, AddLayer(b, ConfigureSplitLayer(layers, s)))
        BY <1>2, <4>1, <4>2, SplitNext
      <4>4. QED
        BY <4>3 DEF b, s
    <3>8. sum[j + 1] = k + 1
      BY <2>4, <3>1
    <3>9. QED
      BY <3>6, <3>7, <3>8
  <2>6. CASE ~IsSplit(layers, t)
    <3>1. sum[j + 1] = k
      <4>1. Len(seqs[j + 1]) = 0
        BY <1>1, <2>2, <2>6
      <4>2. QED
        BY <2>3, <2>4, <4>1
    <3>2. Stage(layers, i, j + 1, f[p + k])
      <4> DEFINE b == f[p + k]
      <4> HIDE DEF b
      <4>1. Stage(layers, i, j, b)
        BY <2>3 DEF b
      <4>2. Stage(layers, i, j + 1, b)
        BY <1>2, <2>3, <2>6, <4>1, UnsplitNext
      <4>3. QED
        BY <4>2 DEF b
    <3>3. QED
      BY <3>1, <3>2
  <2>7. QED
    BY <2>5, <2>6
<1>9. n \in Ok
  <2> HIDE DEF Ok
  <2>1. QED
    BY <1>1, <1>7, <1>8, Inductive
<1>10. QED
  BY <1>1, <1>6, <1>9 DEF n, F, seqs

LEMMA RowNext ==
  ASSUME NEW layers \in Seq(Layer), Known(layers), NEW i \in Nat, i + 1 \in DOMAIN layers,
         NEW f, NEW p \in Nat, Runs(f, p, WithSplits(layers, i + 1)), Upto(layers, i, f[p])
  PROVE  Upto(layers, i + 1, f[p + Len(WithSplits(layers, i + 1))])
<1> DEFINE row == WithSplits(layers, i + 1)
           F == FlattenSeq(Pieces(layers, i + 1))
           n == Len(layers[i + 1].top)
           r == Len(row)
<1>1. n \in Nat /\ RowIs(layers, i + 1, F, row)
  BY PiecesAre
<1>2. \A t \in Tops(layers) : t[1] \in Nat /\ t[2] \in Nat
  BY TopsAre
<1>3. \A t \in Tops(layers) : t[1] = i + 1 => t[2] <= n
  <2>1. SUFFICES ASSUME NEW t \in Tops(layers), t[1] = i + 1 PROVE t[2] <= n
    OBVIOUS
  <2>2. t = << i + 1, t[2] >>
    BY <2>1, TopsAre
  <2>3. t[2] \in DOMAIN layers[i + 1].top
    BY <2>2, TopsAre
  <2>4. QED
    BY <2>3, LayerIs
<1> HIDE DEF row, F, n
<1>4. Len(F) \in Nat /\ r = 1 + Len(F) /\ row[1] = Rewired(layers, i + 1) /\ \A q \in 1..Len(F) : row[q + 1] = F[q]
  BY <1>1 DEF RowIs
<1>5. Runs(f, p, row) /\ r \in Nat
  BY <1>4 DEF row
<1>6. CASE \E t \in Tops(layers) : t[1] <= i /\ ~GoodTop(layers, t)
  <2>1. f[p].ok = FALSE
    BY <1>6 DEF Upto
  <2>2. f[p + r].ok = FALSE
    <3>1. p + 0 = p /\ 0 \in 0..r
      BY <1>5
    <3>2. f[p + 0].ok = FALSE
      BY <2>1, <3>1
    <3>3. QED
      BY <1>5, <3>1, <3>2, FatalStays
  <2>3. \E t \in Tops(layers) : t[1] <= i + 1 /\ ~GoodTop(layers, t)
    BY <1>2, <1>6
  <2>4. QED
    BY <2>2, <2>3 DEF Upto, row
<1>7. CASE \A t \in Tops(layers) : t[1] <= i => GoodTop(layers, t)
  <2>1. PICK j \in Nat : Stage(layers, i, j, f[p]) /\ \A t \in Tops(layers) : t[1] = i => t[2] <= j
    BY <1>7 DEF Upto
  <2> DEFINE b == f[p]
             c == f[p + 1]
  <2>2. b.ok = TRUE
    BY <2>1 DEF Stage, Sees
  <2>3. c = AddLayer(b, Rewired(layers, i + 1))
    <3>1. 1 \in 1..Len(row) /\ (p + 1) - 1 = p
      BY <1>4, <1>5
    <3>2. f[p + 1] = LET d == f[(p + 1) - 1] IN IF d.ok THEN AddLayer(d, row[1]) ELSE d
      BY <1>5, <3>1 DEF Runs, Takes
    <3>3. QED
      BY <1>4, <2>2, <3>1, <3>2
  <2>4. After(layers, i + 1, c)
    <3>1. Stage(layers, i, j, b)
      BY <2>1
    <3> HIDE DEF b, c
    <3>2. After(layers, i + 1, AddLayer(b, Rewired(layers, i + 1)))
      BY <2>1, <3>1, RewiredNext
    <3>3. QED
      BY <2>3, <3>2
  <2>5. CASE \E t \in Tops(layers) : t[1] = i + 1 /\ ~GoodTop(layers, t)
    <3>1. f[p + 1].ok = FALSE
      BY <2>4, <2>5 DEF After
    <3>2. f[p + r].ok = FALSE
      <4>1. 1 \in 0..r
        BY <1>4
      <4>2. QED
        BY <1>5, <3>1, <4>1, FatalStays
    <3>3. \E t \in Tops(layers) : t[1] <= i + 1 /\ ~GoodTop(layers, t)
      BY <2>5
    <3>4. QED
      BY <3>2, <3>3 DEF Upto, row
  <2>6. CASE \A t \in Tops(layers) : t[1] = i + 1 => GoodTop(layers, t)
    <3>1. Stage(layers, i + 1, 0, f[p + 1])
      BY <2>4, <2>6 DEF After
    <3>2. Runs(f, p + 1, F)
      <4>1. SUFFICES ASSUME NEW q \in 1..Len(F) PROVE Takes(f, (p + 1) + q, F[q])
        BY DEF Runs
      <4>2. q + 1 \in 1..Len(row)
        BY <1>4
      <4>3. p + (q + 1) = (p + 1) + q
        BY <1>4
      <4>4. Takes(f, p + (q + 1), row[q + 1])
        BY <1>5, <4>2 DEF Runs
      <4>5. row[q + 1] = F[q]
        BY <1>4
      <4>6. QED
        BY <4>3, <4>4, <4>5
    <3>3. Stage(layers, i + 1, n, f[(p + 1) + Len(F)])
      <4>1. p + 1 \in Nat /\ Runs(f, p + 1, FlattenSeq(Pieces(layers, i + 1)))
        BY <3>2 DEF F
      <4>2. Stage(layers, i + 1, Len(layers[i + 1].top), f[(p + 1) + Len(FlattenSeq(Pieces(layers, i + 1)))])
        BY <2>6, <3>1, <4>1, SplitsNext
      <4>3. QED
        BY <4>2 DEF n, F
    <3>4. (p + 1) + Len(F) = p + r
      BY <1>4
    <3>5. \E k \in Nat : Stage(layers, i + 1, k, f[p + r]) /\ \A t \in Tops(layers) : t[1] = i + 1 => t[2] <= k
      BY <1>1, <1>3, <3>3, <3>4
    <3>6. \A t \in Tops(layers) : t[1] <= i + 1 => GoodTop(layers, t)
      BY <1>2, <1>7, <2>6
    <3>7. QED
      BY <3>5, <3>6 DEF Upto, row
  <2>7. QED
    BY <2>5, <2>6
<1>8. QED
  BY <1>6, <1>7

LayerRows(layers) == [i \in 1..Len(layers) |-> WithSplits(layers, i)]

LEMMA LayerRowsAre ==
  ASSUME NEW layers \in Seq(Layer)
  PROVE  /\ Len(layers) \in Nat /\ DOMAIN layers = 1..Len(layers)
         /\ LayerRows(layers) \in [1..Len(layers) -> Seq(AllLayers(layers))]
         /\ InsertSplits(layers) = FlattenSeq(LayerRows(layers))
         /\ IsWhole(AllLayers(layers), Len(layers), LayerRows(layers), InsertSplits(layers))
<1> DEFINE n == Len(layers)
           S == AllLayers(layers)
<1>1. n \in Nat /\ DOMAIN layers = 1..n
  OBVIOUS
<1>2. \A i \in 1..n : WithSplits(layers, i) \in Seq(S)
  BY <1>1, PiecesAre DEF RowIs
<1>3. LayerRows(layers) = [i \in 1..n |-> WithSplits(layers, i)]
  BY DEF LayerRows
<1>4. InsertSplits(layers) = FlattenSeq(LayerRows(layers))
  BY <1>1, <1>3 DEF InsertSplits
<1> HIDE DEF n, S
<1>5. LayerRows(layers) \in [1..n -> Seq(S)]
  BY <1>2, <1>3
<1>6. IsWhole(S, n, LayerRows(layers), FlattenSeq(LayerRows(layers)))
  BY <1>1, <1>5, FlatIs, Zenon
<1>7. QED
  BY <1>1, <1>4, <1>5, <1>6 DEF n, S

\* The net with its splits is put together when all its tops are good
Connected(layers, c) ==
  IF \A t \in Tops(layers) : GoodTop(layers, t) THEN c.ok = TRUE ELSE c.ok = FALSE

LEMMA ConnectIs ==
  ASSUME NEW layers \in Seq(Layer), Known(layers)
  PROVE  Connected(layers, Connect(InsertSplits(layers)))
<1> DEFINE n == Len(layers)
           S == AllLayers(layers)
           seqs == LayerRows(layers)
           flat == InsertSplits(layers)
           lens == Lens(n, seqs)
           sum == Sums(lens)
<1>1. n \in Nat /\ DOMAIN layers = 1..n /\ seqs \in [1..n -> Seq(S)] /\ IsWhole(S, n, seqs, flat)
  BY LayerRowsAre
<1>2. \A i \in 1..n : seqs[i] = WithSplits(layers, i) /\ Len(seqs[i]) \in Nat
  <2>1. \A i \in 1..n : seqs[i] = WithSplits(layers, i)
    BY DEF LayerRows
  <2> HIDE DEF seqs, n, S
  <2>2. \A i \in 1..n : Len(seqs[i]) \in Nat
    BY <1>1
  <2>3. QED
    BY <2>1, <2>2
<1> HIDE DEF seqs, S, n
<1>3. lens \in [1..n -> Nat] /\ \A i \in 1..n : lens[i] = Len(seqs[i])
  BY <1>2 DEF Lens
<1> HIDE DEF lens
<1>4. sum \in [0..n -> Nat] /\ sum[0] = 0 /\ (\A i \in 1..n : sum[i] = sum[i - 1] + lens[i]) /\ Total(lens) = sum[n]
  BY <1>1, <1>3, SumsAre
<1> HIDE DEF flat, sum
<1>5. /\ flat \in Seq(S) /\ Len(flat) = sum[n]
      /\ \A i \in 1..n : \A q \in 1..Len(seqs[i]) : sum[i - 1] + q \in 1..Len(flat) /\ flat[sum[i - 1] + q] = seqs[i][q]
  BY <1>1, <1>4 DEF IsWhole, lens, sum
<1>6. Len(flat) \in Nat
  BY <1>1, <1>4, <1>5
<1>7. PICK f : /\ f[0] = NoBlobs /\ f[Len(flat)] = Connect(flat)
               /\ \A k \in 1..Len(flat) : f[k] = LET c == f[k - 1] IN IF c.ok THEN AddLayer(c, flat[k]) ELSE c
  BY <1>6, ConnectLoop
<1> DEFINE Is(i) == i <= n => Upto(layers, i, f[sum[i]])
           Ok == {i \in Nat : Is(i)}
<1>8. Is(0)
  <2>1. \A t \in Tops(layers) : t[1] \in Nat /\ t[1] # 0
    BY TopsAre
  <2>2. Sees(NoBlobs, {}, {})
    BY DEF Sees, NoBlobs, ToSet
  <2>3. Holds(layers, 0, 0, {}, {})
    <3>1. \A d \in Bottoms(layers) : Source(layers, d)[1] \in Nat /\ Source(layers, d)[1] # 0
      <4>1. \A d \in Bottoms(layers) : Source(layers, d) \in Tops(layers)
        BY MakerIs
      <4>2. QED
        BY <2>1, <4>1
    <3>2. QED
      BY <2>1, <3>1 DEF Holds
  <2>4. Stage(layers, 0, 0, NoBlobs)
    BY <2>2, <2>3 DEF Stage
  <2>5. Upto(layers, 0, NoBlobs)
    BY <2>1, <2>4 DEF Upto
  <2>6. QED
    BY <1>4, <1>7, <2>5
<1>9. ASSUME NEW i \in Nat, Is(i) PROVE Is(i + 1)
  <2>1. SUFFICES ASSUME i + 1 <= n PROVE Upto(layers, i + 1, f[sum[i + 1]])
    OBVIOUS
  <2> DEFINE p == sum[i]
             row == WithSplits(layers, i + 1)
  <2>2. i + 1 \in 1..n /\ (i + 1) - 1 = i /\ i \in 0..n
    BY <1>1, <2>1
  <2>3. p \in Nat /\ sum[i + 1] = p + Len(row) /\ seqs[i + 1] = row /\ Upto(layers, i, f[p])
    BY <1>2, <1>3, <1>4, <1>9, <2>1, <2>2
  <2> HIDE DEF p, row
  <2>4. Runs(f, p, row)
    <3>1. SUFFICES ASSUME NEW q \in 1..Len(row) PROVE Takes(f, p + q, row[q])
      BY DEF Runs
    <3>2. p + q \in 1..Len(flat) /\ flat[p + q] = row[q]
      BY <1>5, <2>2, <2>3 DEF p
    <3>3. \A k \in 1..Len(flat) : Takes(f, k, flat[k])
      BY <1>7 DEF Takes
    <3>4. QED
      BY <3>2, <3>3
  <2>5. Upto(layers, i + 1, f[p + Len(row)])
    <3>1. i + 1 \in DOMAIN layers
      BY <1>1, <2>2
    <3>2. QED
      BY <2>3, <2>4, <3>1, RowNext DEF row
  <2>6. QED
    BY <2>3, <2>5
<1>10. n \in Ok
  <2> HIDE DEF Is
  <2>1. 0 \in Ok /\ \A i \in Nat : i \in Ok => i + 1 \in Ok
    BY <1>8, <1>9
  <2> HIDE DEF Ok
  <2>2. QED
    BY <1>1, <2>1, Inductive
<1>11. Upto(layers, n, Connect(flat))
  <2>1. Is(n)
    <3> HIDE DEF Is
    <3>1. QED
      BY <1>10
  <2>2. Upto(layers, n, f[sum[n]])
    BY <1>1, <2>1
  <2>3. QED
    BY <1>5, <1>7, <2>2
<1>12. \A t \in Tops(layers) : t[1] <= n
  <2>1. SUFFICES ASSUME NEW t \in Tops(layers) PROVE t[1] <= n
    OBVIOUS
  <2>2. t = << t[1], t[2] >>
    BY TopsAre
  <2>3. t[1] \in DOMAIN layers
    BY <2>2, TopsAre
  <2>4. QED
    BY <1>1, <2>3
<1>13. CASE \A t \in Tops(layers) : GoodTop(layers, t)
  <2>1. PICK j \in Nat : Stage(layers, n, j, Connect(flat))
    BY <1>11, <1>13 DEF Upto
  <2>2. Connect(flat).ok = TRUE
    BY <2>1 DEF Stage, Sees
  <2>3. QED
    BY <1>13, <2>2 DEF Connected, flat
<1>14. CASE \E t \in Tops(layers) : ~GoodTop(layers, t)
  <2>1. Connect(flat).ok = FALSE
    BY <1>11, <1>12, <1>14 DEF Upto
  <2>2. QED
    BY <1>14, <2>1 DEF Connected, flat
<1>15. QED
  BY <1>13, <1>14

-----------------------------------------------------------------------------
(* Nets: the parameters, with splits between the layers and without *)

Param == [name : STRING, lr : Seq(Nat)]

ParamRows(n, layers) == [i \in 1..n |-> [k \in DOMAIN layers[i].param |-> << i, layers[i].param[k] >>]]

LEMMA ParamsAre ==
  ASSUME NEW n \in Nat, NEW layers, DOMAIN layers = 1..n, \A i \in 1..n : layers[i].param \in Seq(Param)
  PROVE  /\ IsWhole(Nat \X Param, n, ParamRows(n, layers), Params(layers))
         /\ ParamRows(n, layers) \in [1..n -> Seq(Nat \X Param)]
         /\ \A i \in 1..n : /\ Len(ParamRows(n, layers)[i]) = Len(layers[i].param) /\ Len(layers[i].param) \in Nat
                            /\ \A k \in 1..Len(layers[i].param) : ParamRows(n, layers)[i][k] = << i, layers[i].param[k] >>
<1> DEFINE S == Nat \X Param
           seqs == ParamRows(n, layers)
<1>1. ASSUME NEW i \in 1..n
      PROVE  /\ seqs[i] \in Seq(S) /\ Len(seqs[i]) = Len(layers[i].param) /\ Len(layers[i].param) \in Nat
             /\ \A k \in 1..Len(layers[i].param) : seqs[i][k] = << i, layers[i].param[k] >>
  <2> DEFINE s == layers[i].param
             m == Len(s)
             e == [k \in 1..m |-> << i, s[k] >>]
  <2>1. m \in Nat /\ DOMAIN s = 1..m /\ \A k \in 1..m : s[k] \in Param
    <3>1. s \in Seq(Param)
      OBVIOUS
    <3> HIDE DEF s
    <3>2. QED
      BY <3>1, LenProperties, ElementOfSeq
  <2>2. seqs[i] = [k \in 1..m |-> << i, s[k] >>]
    BY <2>1 DEF ParamRows
  <2> HIDE DEF s, m
  <2>3. \A k \in 1..m : << i, s[k] >> \in S
    BY <2>1
  <2>4. e \in Seq(S) /\ Len(e) = m /\ \A k \in 1..m : e[k] = << i, s[k] >>
    <3>1. e \in [1..m -> S]
      BY <2>3
    <3>2. \A k \in 1..m : e[k] = << i, s[k] >>
      OBVIOUS
    <3> HIDE DEF e, S
    <3>3. DOMAIN e = 1..m
      BY <3>1
    <3>4. e \in Seq(S) /\ Len(e) = m
      BY <2>1, <3>1, <3>3
    <3>5. QED
      BY <3>2, <3>4
  <2>5. QED
    BY <2>1, <2>2, <2>4 DEF m, s
<1>2. Params(layers) = FlattenSeq(seqs)
  BY DEF Params, ParamRows
<1>3. seqs \in [1..n -> Seq(S)]
  BY <1>1 DEF ParamRows
<1> HIDE DEF S, seqs
<1>4. IsWhole(S, n, seqs, FlattenSeq(seqs))
  BY <1>3, FlatIs, Zenon
<1>5. QED
  BY <1>1, <1>2, <1>3, <1>4 DEF S, seqs

\* The splits of a layer have no parameters
LEMMA RowParams ==
  ASSUME NEW layers \in Seq(Layer), NEW i \in DOMAIN layers
  PROVE  LET row == WithSplits(layers, i)
         IN  /\ Len(row) \in Nat /\ Len(row) >= 1 /\ layers[i].param \in Seq(Param) /\ row[1].param = layers[i].param
             /\ \A q \in 2..Len(row) : row[q].param = << >>
<1> DEFINE n == Len(layers[i].top)
           S == AllLayers(layers)
           seqs == Pieces(layers, i)
           F == FlattenSeq(seqs)
           row == WithSplits(layers, i)
<1>1. /\ n \in Nat /\ seqs \in [1..n -> Seq(S)] /\ RowIs(layers, i, F, row)
      /\ \A j \in 1..n : IF IsSplit(layers, << i, j >>)
                         THEN Len(seqs[j]) = 1 /\ seqs[j][1] = ConfigureSplitLayer(layers, << i, j >>)
                         ELSE Len(seqs[j]) = 0
  BY PiecesAre
<1>2. Rewired(layers, i).param = layers[i].param
  BY RewiredIs
<1>3. layers[i].param \in Seq(Param)
  BY LayerIs DEF Param
<1> HIDE DEF row, seqs, S, n
<1>4. IsWhole(S, n, seqs, F)
  BY <1>1, FlatIs, Zenon
<1> HIDE DEF F
<1>5. Len(F) \in Nat /\ Len(row) = 1 + Len(F) /\ row[1] = Rewired(layers, i) /\ \A q \in 1..Len(F) : row[q + 1] = F[q]
  BY <1>1 DEF RowIs
<1>6. ASSUME NEW q \in 1..Len(F) PROVE F[q].param = << >>
  <2> DEFINE sum == Sums(Lens(n, seqs))
  <2> HIDE DEF sum
  <2>0. /\ \A j \in 1..n : \A r \in 1..Len(seqs[j]) : F[sum[j - 1] + r] = seqs[j][r]
        /\ \A k \in 1..Len(F) : \E j \in 1..n : \E r \in 1..Len(seqs[j]) : k = sum[j - 1] + r
    BY <1>4 DEF IsWhole, sum
  <2>1. PICK j \in 1..n : \E r \in 1..Len(seqs[j]) : q = sum[j - 1] + r
    BY <2>0
  <2>2. PICK r \in 1..Len(seqs[j]) : F[q] = seqs[j][r]
    BY <2>0, <2>1
  <2>3. r = 1 /\ F[q] = ConfigureSplitLayer(layers, << i, j >>)
    <3>1. CASE IsSplit(layers, << i, j >>)
      BY <1>1, <2>2, <3>1
    <3>2. CASE ~IsSplit(layers, << i, j >>)
      BY <1>1, <2>2, <3>2
    <3>3. QED
      BY <3>1, <3>2
  <2>4. QED
    BY <2>3 DEF ConfigureSplitLayer
<1>7. ASSUME NEW q \in 2..Len(row) PROVE row[q].param = << >>
  <2>1. q - 1 \in 1..Len(F) /\ (q - 1) + 1 = q
    BY <1>5
  <2>2. row[q] = F[q - 1]
    BY <1>5, <2>1
  <2>3. QED
    BY <1>6, <2>1, <2>2
<1>8. QED
  BY <1>2, <1>3, <1>5, <1>7 DEF row

\* With splits the parameters are what they were, in the same order
LEMMA SameParams ==
  ASSUME NEW layers \in Seq(Layer)
  PROVE  \E m \in Nat : /\ DOMAIN Params(layers) = 1..m /\ DOMAIN Params(InsertSplits(layers)) = 1..m
                        /\ \A p \in 1..m : Params(InsertSplits(layers))[p][2] = Params(layers)[p][2]
<1> DEFINE n == Len(layers)
           S == AllLayers(layers)
           seqs == LayerRows(layers)
           flat == InsertSplits(layers)
           lens == Lens(n, seqs)
           sum == Sums(lens)
           T == Nat \X Param
           m == Len(flat)
           few == Lens(n, ParamRows(n, layers))
           many == Lens(m, ParamRows(m, flat))
           f == Sums(few)
           g == Sums(many)
<1>1. n \in Nat /\ DOMAIN layers = 1..n /\ seqs \in [1..n -> Seq(S)] /\ IsWhole(S, n, seqs, flat)
  BY LayerRowsAre
<1>2. \A i \in 1..n : /\ seqs[i] = WithSplits(layers, i) /\ Len(seqs[i]) \in Nat /\ Len(seqs[i]) >= 1
                      /\ layers[i].param \in Seq(Param) /\ seqs[i][1].param = layers[i].param
                      /\ \A q \in 2..Len(seqs[i]) : seqs[i][q].param = << >>
  BY <1>1, RowParams DEF LayerRows
<1> HIDE DEF seqs, S, n
<1>3. lens \in [1..n -> Nat] /\ \A i \in 1..n : lens[i] = Len(seqs[i])
  BY <1>2 DEF Lens
<1> HIDE DEF lens
<1>4. sum \in [0..n -> Nat] /\ sum[0] = 0 /\ (\A i \in 1..n : sum[i] = sum[i - 1] + lens[i]) /\ Total(lens) = sum[n]
  BY <1>1, <1>3, SumsAre
<1> HIDE DEF flat, sum
<1>5. /\ flat \in Seq(S) /\ m = sum[n]
      /\ \A i \in 1..n : \A q \in 1..Len(seqs[i]) : sum[i - 1] + q \in 1..m /\ flat[sum[i - 1] + q] = seqs[i][q]
      /\ \A k \in 1..m : \E i \in 1..n : \E q \in 1..Len(seqs[i]) : k = sum[i - 1] + q
  BY <1>1, <1>4 DEF IsWhole, lens, sum
<1>6. m \in Nat /\ DOMAIN flat = 1..m
  BY <1>5
<1> HIDE DEF m
<1>7. \A k \in 1..m : flat[k].param \in Seq(Param)
  <2>1. SUFFICES ASSUME NEW k \in 1..m PROVE flat[k].param \in Seq(Param)
    OBVIOUS
  <2>2. PICK i \in 1..n : \E q \in 1..Len(seqs[i]) : k = sum[i - 1] + q
    BY <1>5
  <2>3. PICK q \in 1..Len(seqs[i]) : k = sum[i - 1] + q
    BY <2>2
  <2>4. flat[k] = seqs[i][q]
    BY <1>5, <2>3
  <2>5. seqs[i][q].param = layers[i].param \/ seqs[i][q].param = << >>
    <3>1. q = 1 \/ q \in 2..Len(seqs[i])
      BY <1>2
    <3>2. QED
      BY <1>2, <3>1
  <2>6. << >> \in Seq(Param)
    OBVIOUS
  <2>7. QED
    BY <1>2, <2>4, <2>5, <2>6
<1>8. /\ IsWhole(T, n, ParamRows(n, layers), Params(layers))
      /\ \A i \in 1..n : /\ Len(ParamRows(n, layers)[i]) = Len(layers[i].param) /\ Len(layers[i].param) \in Nat
                         /\ \A k \in 1..Len(layers[i].param) : ParamRows(n, layers)[i][k] = << i, layers[i].param[k] >>
  <2>1. \A i \in 1..n : layers[i].param \in Seq(Param)
    BY <1>2
  <2>2. n \in Nat /\ DOMAIN layers = 1..n
    BY <1>1
  <2>3. QED
    BY <2>1, <2>2, ParamsAre
<1>9. /\ IsWhole(T, m, ParamRows(m, flat), Params(flat))
      /\ \A i \in 1..m : /\ Len(ParamRows(m, flat)[i]) = Len(flat[i].param) /\ Len(flat[i].param) \in Nat
                         /\ \A k \in 1..Len(flat[i].param) : ParamRows(m, flat)[i][k] = << i, flat[i].param[k] >>
  BY <1>6, <1>7, ParamsAre
<1>10. few \in [1..n -> Nat] /\ \A i \in 1..n : few[i] = Len(layers[i].param)
  BY <1>8 DEF Lens
<1>11. many \in [1..m -> Nat] /\ \A k \in 1..m : many[k] = Len(flat[k].param)
  BY <1>9 DEF Lens
<1> HIDE DEF few, many
<1>12. f \in [0..n -> Nat] /\ f[0] = 0 /\ (\A i \in 1..n : f[i] = f[i - 1] + few[i]) /\ Total(few) = f[n]
  BY <1>1, <1>10, SumsAre
<1>13. g \in [0..m -> Nat] /\ g[0] = 0 /\ (\A k \in 1..m : g[k] = g[k - 1] + many[k]) /\ Total(many) = g[m]
  BY <1>6, <1>11, SumsAre
<1> HIDE DEF f, g
<1>14. /\ Params(layers) \in Seq(T) /\ Len(Params(layers)) = f[n]
       /\ \A i \in 1..n : \A k \in 1..Len(layers[i].param) : Params(layers)[f[i - 1] + k] = << i, layers[i].param[k] >>
       /\ \A p \in 1..f[n] : \E i \in 1..n : \E k \in 1..Len(layers[i].param) : p = f[i - 1] + k
  <2> DEFINE rows == ParamRows(n, layers)
             ps == Params(layers)
  <2>1. /\ ps \in Seq(T) /\ Len(ps) = f[n]
        /\ \A i \in 1..n : \A k \in 1..Len(rows[i]) : ps[f[i - 1] + k] = rows[i][k]
        /\ \A p \in 1..Len(ps) : \E i \in 1..n : \E k \in 1..Len(rows[i]) : p = f[i - 1] + k
    <3> HIDE DEF rows, ps, T
    <3>1. IsWhole(T, n, rows, ps) /\ few = Lens(n, rows)
      BY <1>8 DEF rows, ps, few
    <3>2. QED
      BY <1>12, <3>1 DEF IsWhole, f
  <2>2. \A i \in 1..n : /\ Len(rows[i]) = Len(layers[i].param)
                        /\ \A k \in 1..Len(layers[i].param) : rows[i][k] = << i, layers[i].param[k] >>
    BY <1>8
  <2> HIDE DEF rows, ps, T
  <2>3. \A i \in 1..n : \A k \in 1..Len(layers[i].param) : ps[f[i - 1] + k] = << i, layers[i].param[k] >>
    BY <2>1, <2>2
  <2>4. \A p \in 1..f[n] : \E i \in 1..n : \E k \in 1..Len(layers[i].param) : p = f[i - 1] + k
    BY <2>1, <2>2
  <2>5. QED
    BY <2>1, <2>3, <2>4 DEF ps, T
<1>15. /\ Params(flat) \in Seq(T) /\ Len(Params(flat)) = g[m]
       /\ \A i \in 1..m : \A k \in 1..Len(flat[i].param) : Params(flat)[g[i - 1] + k] = << i, flat[i].param[k] >>
  BY <1>9, <1>13 DEF IsWhole, many, g
<1> DEFINE Is(i) == i <= n => g[sum[i]] = f[i]
           Ok == {i \in Nat : Is(i)}
<1>16. Is(0)
  BY <1>4, <1>12, <1>13
<1>17. ASSUME NEW i \in Nat, Is(i) PROVE Is(i + 1)
  <2>1. SUFFICES ASSUME i + 1 <= n PROVE g[sum[i + 1]] = f[i + 1]
    OBVIOUS
  <2>2. i + 1 \in 1..n /\ (i + 1) - 1 = i /\ i \in 0..n
    BY <1>1, <2>1
  <2> DEFINE k == sum[i]
             r == Len(seqs[i + 1])
             Has(q) == q + 1 <= r => g[k + (q + 1)] = f[i + 1]
             Good == {q \in Nat : Has(q)}
  <2>3. /\ k \in Nat /\ r \in Nat /\ r >= 1 /\ sum[i + 1] = k + r /\ g[k] = f[i]
        /\ f[i + 1] = f[i] + Len(layers[i + 1].param)
    BY <1>2, <1>3, <1>4, <1>10, <1>12, <1>17, <2>1, <2>2
  <2>4. ASSUME NEW q \in 1..r
        PROVE  /\ k + q \in 1..m /\ flat[k + q] = seqs[i + 1][q]
               /\ g[k + q] = g[(k + q) - 1] + Len(flat[k + q].param)
    <3>1. k + q \in 1..m /\ flat[k + q] = seqs[i + 1][q]
      BY <1>5, <2>2
    <3>2. \A p \in 1..m : g[p] = g[p - 1] + Len(flat[p].param)
      BY <1>11, <1>13
    <3>3. QED
      BY <3>1, <3>2
  <2> HIDE DEF k, r
  <2>5. Has(0)
    <3>1. 1 \in 1..r /\ (k + 1) - 1 = k
      BY <2>3
    <3>2. g[k + 1] = g[k] + Len(layers[i + 1].param)
      BY <1>2, <2>2, <2>4, <3>1
    <3>3. g[k + 1] = f[i + 1]
      BY <2>3, <3>2
    <3>4. 0 + 1 = 1
      OBVIOUS
    <3>5. QED
      BY <3>3, <3>4
  <2>6. ASSUME NEW q \in Nat, Has(q) PROVE Has(q + 1)
    <3>1. SUFFICES ASSUME (q + 1) + 1 <= r PROVE g[k + ((q + 1) + 1)] = f[i + 1]
      OBVIOUS
    <3>2. (q + 1) + 1 \in 1..r /\ (q + 1) + 1 \in 2..r /\ q + 1 <= r /\ (k + ((q + 1) + 1)) - 1 = k + (q + 1)
      BY <2>3, <3>1
    <3>3. g[k + (q + 1)] = f[i + 1]
      BY <2>6, <3>2
    <3>4. flat[k + ((q + 1) + 1)].param = << >>
      <4>1. flat[k + ((q + 1) + 1)] = seqs[i + 1][(q + 1) + 1]
        BY <2>4, <3>2
      <4>2. (q + 1) + 1 \in 2..Len(seqs[i + 1])
        BY <3>2 DEF r
      <4>3. \A x \in 2..Len(seqs[i + 1]) : seqs[i + 1][x].param = << >>
        BY <1>2, <2>2
      <4>4. seqs[i + 1][(q + 1) + 1].param = << >>
        BY <4>2, <4>3
      <4>5. QED
        BY <4>1, <4>4
    <3>5. g[k + ((q + 1) + 1)] = f[i + 1] + Len(<< >>)
      BY <2>4, <3>2, <3>3, <3>4
    <3>6. Len(<< >>) = 0 /\ f[i + 1] \in Nat
      BY <1>12, <2>2
    <3>7. QED
      BY <3>5, <3>6
  <2>7. r - 1 \in Good
    <3> HIDE DEF Has
    <3>1. 0 \in Good /\ \A q \in Nat : q \in Good => q + 1 \in Good
      BY <2>5, <2>6
    <3>2. r - 1 \in Nat
      BY <2>3
    <3> HIDE DEF Good
    <3>3. QED
      BY <3>1, <3>2, Inductive
  <2>8. Has(r - 1)
    <3> HIDE DEF Has
    <3>1. QED
      BY <2>7
  <2>9. (r - 1) + 1 = r
    BY <2>3
  <2>10. QED
    BY <2>3, <2>8, <2>9
<1>18. \A i \in 0..n : g[sum[i]] = f[i]
  <2>0. \A i \in Nat : i \in Ok
    <3> HIDE DEF Is
    <3>1. 0 \in Ok /\ \A i \in Nat : i \in Ok => i + 1 \in Ok
      BY <1>16, <1>17
    <3> HIDE DEF Ok
    <3>2. QED
      BY <3>1, Inductive
  <2>1. \A i \in Nat : Is(i)
    <3> HIDE DEF Is
    <3>1. QED
      BY <2>0
  <2>2. QED
    BY <1>1, <2>1
<1>19. g[m] = f[n] /\ f[n] \in Nat
  BY <1>1, <1>5, <1>12, <1>18
<1>20. ASSUME NEW p \in 1..f[n] PROVE Params(flat)[p][2] = Params(layers)[p][2]
  <2>1. PICK i \in 1..n : \E k \in 1..Len(layers[i].param) : p = f[i - 1] + k
    BY <1>14
  <2>2. PICK k \in 1..Len(layers[i].param) : p = f[i - 1] + k
    BY <2>1
  <2>3. Params(layers)[p] = << i, layers[i].param[k] >>
    BY <1>14, <2>2
  <2>4. PICK K : K = sum[i - 1] + 1
    OBVIOUS
  <2>5. i - 1 \in 0..n /\ sum[i - 1] \in Nat
    BY <1>1, <1>4
  <2>6. K \in 1..m /\ flat[K] = seqs[i][1]
    <3>1. 1 \in 1..Len(seqs[i])
      BY <1>2
    <3>2. QED
      BY <1>5, <2>4, <3>1
  <2>7. K - 1 = sum[i - 1] /\ g[K - 1] = f[i - 1]
    BY <1>18, <2>4, <2>5
  <2>8. flat[K].param = layers[i].param
    BY <1>2, <2>6
  <2>9. Params(flat)[g[K - 1] + k] = << K, layers[i].param[k] >>
    BY <1>15, <2>6, <2>8
  <2>10. Params(flat)[p] = << K, layers[i].param[k] >>
    BY <2>2, <2>7, <2>9
  <2>11. QED
    BY <2>3, <2>10
<1>21. DOMAIN Params(layers) = 1..f[n] /\ DOMAIN Params(flat) = 1..f[n]
  BY <1>14, <1>15, <1>19
<1>22. QED
  BY <1>19, <1>20, <1>21 DEF flat

IsFirst(ps, k, m) ==
  m \in 1..k /\ ps[m][2].name = ps[k][2].name /\ \A n \in 1..m - 1 : ps[n][2].name # ps[k][2].name

IsNamed(ps, k) == ps[k][2].name # ""

LEMMA OwnerIs ==
  ASSUME NEW ps, NEW k \in Nat \ {0}, IsNamed(ps, k)
  PROVE  IsFirst(ps, k, Owner(ps, k)) /\ \A m : IsFirst(ps, k, m) => m = Owner(ps, k)
<1> DEFINE NameOf(m) == ps[m][2].name
           S == {m \in 1..k : NameOf(m) = NameOf(k)}
<1>1. \A m : IsFirst(ps, k, m) <=> m \in 1..k /\ NameOf(m) = NameOf(k) /\ \A n \in 1..m - 1 : NameOf(n) # NameOf(k)
  BY DEF IsFirst
<1>2. Owner(ps, k) = CHOOSE m \in 1..k : NameOf(m) = NameOf(k) /\ \A n \in 1..m - 1 : NameOf(n) # NameOf(k)
  BY DEF Owner, IsNamed
<1> HIDE DEF NameOf
<1>3. S \subseteq Nat /\ k \in S
  <2>1. k \in 1..k
    OBVIOUS
  <2>2. QED
    BY <2>1
<1>4. PICK x \in S : \A y \in S : x <= y
  <2> HIDE DEF S
  <2>1. QED
    BY <1>3, Smallest
<1>5. x \in 1..k /\ NameOf(x) = NameOf(k) /\ \A n \in 1..x - 1 : NameOf(n) # NameOf(k)
  <2>1. ASSUME NEW n \in 1..x - 1, NameOf(n) = NameOf(k) PROVE FALSE
    <3>1. x \in 1..k /\ n \in 1..k /\ n < x
      OBVIOUS
    <3>2. n \in S
      BY <2>1, <3>1
    <3>3. QED
      BY <1>4, <3>1, <3>2
  <2>2. QED
    BY <2>1
<1> DEFINE o == Owner(ps, k)
<1>6. o \in 1..k /\ NameOf(o) = NameOf(k) /\ \A n \in 1..o - 1 : NameOf(n) # NameOf(k)
  BY <1>2, <1>5
<1> HIDE DEF o
<1>7. ASSUME NEW m, m \in 1..k /\ NameOf(m) = NameOf(k) /\ \A n \in 1..m - 1 : NameOf(n) # NameOf(k) PROVE m = o
  <2>1. m \in Nat /\ o \in Nat /\ m >= 1 /\ o >= 1
    BY <1>6, <1>7
  <2>2. m < o => m \in 1..o - 1
    BY <2>1
  <2>3. o < m => o \in 1..m - 1
    BY <2>1
  <2>4. ~(m < o) /\ ~(o < m)
    BY <1>6, <1>7, <2>2, <2>3
  <2>5. QED
    BY <2>1, <2>4
<1>8. QED
  BY <1>1, <1>6, <1>7 DEF o

\* Whether rates agree has nothing to do with where the layers are
LEMMA SameRates ==
  ASSUME NEW m \in Nat, NEW ps, NEW qs, DOMAIN ps = 1..m, DOMAIN qs = 1..m, \A p \in 1..m : qs[p][2] = ps[p][2]
  PROVE  RatesAgree(qs) <=> RatesAgree(ps)
<1>1. ASSUME NEW k \in 1..m PROVE Owner(qs, k) = Owner(ps, k)
  <2>1. k \in Nat \ {0} /\ k \in 1..m /\ \A x \in 1..k : x \in 1..m /\ \A y \in 1..x - 1 : y \in 1..m
    OBVIOUS
  <2>2. CASE ps[k][2].name = ""
    BY <2>2 DEF Owner
  <2>3. CASE IsNamed(ps, k)
    <3> DEFINE o == Owner(ps, k)
    <3>1. IsFirst(ps, k, o)
      BY <2>1, <2>3, OwnerIs
    <3> HIDE DEF o
    <3>2. IsFirst(qs, k, o)
      BY <2>1, <3>1 DEF IsFirst
    <3>3. IsNamed(qs, k)
      BY <2>3 DEF IsNamed
    <3>4. \A x : IsFirst(qs, k, x) => x = Owner(qs, k)
      BY <2>1, <3>3, OwnerIs
    <3>5. QED
      BY <3>2, <3>4 DEF o
  <2>4. QED
    BY <2>2, <2>3 DEF IsNamed
<1>2. ASSUME NEW o PROVE RatesSet(qs, o) = RatesSet(ps, o)
  <2>1. [k \in DOMAIN qs |-> IF Owner(qs, k) = o THEN qs[k][2].lr ELSE << >>]
        = [k \in DOMAIN ps |-> IF Owner(ps, k) = o THEN ps[k][2].lr ELSE << >>]
    BY <1>1
  <2>2. QED
    BY <2>1, Zenon DEF RatesSet
<1>3. QED
  BY <1>2 DEF RatesAgree

-----------------------------------------------------------------------------
(* Nets: what Init refuses *)

LEMMA InitIs ==
  ASSUME NEW layers \in Seq(Layer), NEW force
  PROVE  RefusalExact(layers, NetInit(layers, force))
<1> DEFINE flat == InsertSplits(layers)
           b == Connect(flat)
           m == IF force THEN ForceBackward(flat, MarkAll(flat, b)) ELSE MarkAll(flat, b)
           n == NetInit(layers, force)
           Good == \A t \in Tops(layers) : GoodTop(layers, t)
           Agree == RatesAgree(Params(flat))
<1>1. n = IF ~Known(layers) \/ ~b.ok \/ ~Agree THEN [ok |-> FALSE]
          ELSE [ ok |-> TRUE, net |-> flat, forced |-> force, names |-> m.names, bottom |-> m.bottom, top |-> m.top,
                 bottomNeed |-> m.bottomNeed, layerNeed |-> m.layerNeed ]
  BY DEF NetInit
<1>2. Agree <=> RatesAgree(Params(layers))
  <2>1. PICK k \in Nat : /\ DOMAIN Params(layers) = 1..k /\ DOMAIN Params(flat) = 1..k
                         /\ \A p \in 1..k : Params(flat)[p][2] = Params(layers)[p][2]
    BY SameParams
  <2>2. QED
    BY <2>1, SameRates
<1>3. Known(layers) => IF Good THEN b.ok = TRUE ELSE b.ok = FALSE
  <2>1. SUFFICES ASSUME Known(layers) PROVE IF Good THEN b.ok = TRUE ELSE b.ok = FALSE
    OBVIOUS
  <2> HIDE DEF b, flat
  <2>2. Connected(layers, b)
    BY <2>1, ConnectIs DEF b, flat
  <2>3. QED
    BY <2>2 DEF Connected
<1>4. RefusalExact(layers, n) <=> (n.ok <=> Known(layers) /\ Good /\ RatesAgree(Params(layers)))
  <2>1. Good <=> \A t \in Tops(layers) :
                    IF InPlace(layers[t[1]], t[2]) THEN SplitCount(layers, Source(layers, t)) = 1
                    ELSE \A u \in Tops(layers) : Before(u, t) => TopName(layers, u) # TopName(layers, t)
    BY DEF GoodTop
  <2> HIDE DEF Good, n
  <2>2. QED
    BY <2>1, Zenon DEF RefusalExact
<1> HIDE DEF Good, Agree, m, b, flat
<1>5. CASE Known(layers) /\ Good /\ Agree
  <2>1. n.ok = TRUE
    BY <1>1, <1>3, <1>5
  <2> HIDE DEF n
  <2>2. QED
    BY <1>2, <1>4, <1>5, <2>1 DEF n
<1>6. CASE ~(Known(layers) /\ Good /\ Agree)
  <2>1. n.ok = FALSE
    <3>1. ~Known(layers) \/ ~b.ok \/ ~Agree
      BY <1>3, <1>6
    <3>2. n = [ok |-> FALSE]
      BY <1>1, <3>1
    <3>3. QED
      BY <3>2
  <2> HIDE DEF n
  <2>2. QED
    BY <1>2, <1>4, <1>6, <2>1 DEF n
<1>7. QED
  BY <1>5, <1>6

\* A net is what its layers make it
NetInv == net \in Seq(Layer) /\ built = NetInit(net, forced)

LEMMA NetNext == NetInv /\ [Grow]_netVars => NetInv'
<1>1. SUFFICES ASSUME NetInv, [Grow]_netVars PROVE NetInv'
  OBVIOUS
<1>2. CASE Grow
  <2>1. PICK l : l \in Layer /\ net' = Append(net, l)
    BY <1>2 DEF Grow
  <2>2. net' \in Seq(Layer)
    BY <1>1, <2>1, AppendProperties DEF NetInv
  <2>3. built' = NetInit(net', forced')
    BY <1>2 DEF Grow
  <2>4. QED
    BY <2>2, <2>3 DEF NetInv
<1>3. CASE UNCHANGED netVars
  BY <1>1, <1>3 DEF NetInv, netVars
<1>4. QED
  BY <1>1, <1>2, <1>3

\* Whatever layers a net is made of: Init refuses it exactly when a layer reads
\* what nobody made before it, one writes over a blob in use, two blobs have
\* one name or one parameter two rates (insert_splits.cpp:27-31,
\* net.cpp:382-420, :519-537).
THEOREM WrongNetsAreRefused == NetSpec => []RefusedIffWrong
<1>1. Start => NetInv
  <2>1. << >> \in Seq(Layer)
    OBVIOUS
  <2>2. QED
    BY <2>1 DEF Start, NetInv
<1>2. NetInv => RefusedIffWrong
  BY InitIs DEF NetInv, RefusedIffWrong
<1>3. QED
  BY <1>1, <1>2, NetNext, PTL DEF NetSpec
=============================================================================
