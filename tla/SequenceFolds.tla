----------------------------- MODULE SequenceFolds -----------------------------
(***************************************************************************)
(* Facts about the FoldLeft of SequencesExt, for one operator at a time.   *)
(* The provers cannot be given an operator as an argument of a lemma; they *)
(* can be given an instance of this module, in which it is a constant.  A  *)
(* fold FoldLeft(Op, base, seq) unfolds to Folded(base, seq).              *)
(***************************************************************************)
EXTENDS Naturals, Sequences, NaturalsInduction, SequenceTheorems, WellFoundedInduction, TLAPS

CONSTANT Op(_, _)

Greatest(S) == CHOOSE x \in S : \A y \in S : x >= y

Folded(base, seq) ==
  LET iter[s \in SUBSET DOMAIN seq] ==
        IF s = {} THEN base ELSE Op(iter[s \ {Greatest(s)}], seq[Greatest(s)])
  IN iter[DOMAIN seq]

(* What the recursion computes on the subsets of 1..k. *)
Computes(base, g, seq, k) ==
  g = [s \in SUBSET (1..k) |->
         IF s = {} THEN base ELSE Op(g[s \ {Greatest(s)}], seq[Greatest(s)])]

LEMMA GreatestIs ==
  ASSUME NEW k \in Nat, NEW s \in SUBSET (1..(k + 1)), k + 1 \in s
  PROVE  Greatest(s) = k + 1
<1> DEFINE P(x) == x \in s /\ \A y \in s : x >= y
<1>1. P(k + 1)
  OBVIOUS
<1>2. ASSUME NEW x, P(x) PROVE x = k + 1
  BY <1>2
<1>3. Greatest(s) = CHOOSE x : P(x)
  BY DEF Greatest
<1> HIDE DEF P
<1> QED
  BY <1>1, <1>2, <1>3

LEMMA LeastOf ==
  ASSUME NEW S \in SUBSET Nat, S # {}
  PROVE  \E m \in S : \A k \in S : m <= k
<1>1. PICK m \in S : \A k \in S : ~(<<k, m>> \in OpToRel(<, Nat))
  BY NatLessThanWellFounded, WFMin
<1>2. \A k \in S : ~(k < m)
  BY <1>1 DEF OpToRel
<1> QED
  BY <1>2

(* The recursion is one that ends. *)
LEMMA Computable == ASSUME NEW base, NEW seq, NEW k \in Nat PROVE \E g : Computes(base, g, seq, k)
<1> DEFINE Bad == {n \in Nat : ~\E g : Computes(base, g, seq, n)}
<1> SUFFICES ASSUME Bad # {} PROVE FALSE
  OBVIOUS
<1>1. PICK n \in Bad : \A m \in Bad : n <= m
  BY LeastOf
<1>2. CASE n = 0
  <2> DEFINE h == [s \in SUBSET (1..0) |-> base]
  <2>1. \A s \in SUBSET (1..0) : s = {}
    OBVIOUS
  <2>2. Computes(base, h, seq, 0)
    BY <2>1 DEF Computes
  <2> QED
    BY <1>2, <2>2
<1>3. CASE n # 0
  <2>1. n \in Nat /\ n - 1 \in Nat /\ n - 1 \notin Bad
    BY <1>1, <1>3
  <2>2. PICK g : Computes(base, g, seq, n - 1)
    BY <2>1
  <2> DEFINE h == [s \in SUBSET (1..n) |->
                     IF n \in s THEN Op(g[s \ {n}], seq[n]) ELSE g[s]]
  <2>3. ASSUME NEW s \in SUBSET (1..n)
        PROVE  h[s] = IF s = {} THEN base ELSE Op(h[s \ {Greatest(s)}], seq[Greatest(s)])
    <3>1. CASE n \in s
      <4>1. Greatest(s) = n
        BY <2>1, <2>3, <3>1, GreatestIs
      <4>2. s \ {n} \in SUBSET (1..n) /\ n \notin s \ {n}
        BY <2>3
      <4>3. h[s \ {n}] = g[s \ {n}] /\ h[s] = Op(g[s \ {n}], seq[n])
        BY <2>3, <3>1, <4>2
      <4> QED
        BY <3>1, <4>1, <4>3
    <3>2. CASE n \notin s
      <4>1. s \in SUBSET (1..(n - 1)) /\ h[s] = g[s]
        BY <2>1, <2>3, <3>2
      <4>2. g[s] = IF s = {} THEN base ELSE Op(g[s \ {Greatest(s)}], seq[Greatest(s)])
        BY <2>2, <4>1 DEF Computes
      <4>3. s \ {Greatest(s)} \in SUBSET (1..n) /\ n \notin s \ {Greatest(s)}
        BY <2>3, <3>2
      <4>4. h[s \ {Greatest(s)}] = g[s \ {Greatest(s)}]
        BY <4>3
      <4> QED
        BY <4>1, <4>2, <4>4
    <3> QED
      BY <3>1, <3>2
  <2> HIDE DEF h
  <2>4. h = [s \in SUBSET (1..n) |-> h[s]]
    BY DEF h
  <2>5. Computes(base, h, seq, n)
    BY <2>3, <2>4 DEF Computes
  <2> QED
    BY <1>1, <2>5
<1> QED
  BY <1>1, <1>2, <1>3

(* A fold goes through the sequence from its first element on. *)
LEMMA FoldRuns ==
  ASSUME NEW base, NEW n \in Nat, NEW seq, DOMAIN seq = 1..n
  PROVE  \E run : /\ DOMAIN run = 0..n /\ run[0] = base /\ run[n] = Folded(base, seq)
                  /\ \A k \in 1..n : run[k] = Op(run[k - 1], seq[k])
<1> DEFINE It == CHOOSE g : Computes(base, g, seq, n)
           run == [k \in 0..n |-> It[1..k]]
<1>1. Computes(base, It, seq, n)
  BY Computable
<1>2. Folded(base, seq) = It[1..n]
  BY DEF Folded, Computes
<1> HIDE DEF It
<1>3. ASSUME NEW s \in SUBSET (1..n)
      PROVE  It[s] = IF s = {} THEN base ELSE Op(It[s \ {Greatest(s)}], seq[Greatest(s)])
  BY <1>1 DEF Computes
<1>4. run[0] = base
  <2>1. 1..0 = {} /\ 0 \in 0..n
    OBVIOUS
  <2> QED
    BY <1>3, <2>1
<1>5. ASSUME NEW k \in 1..n PROVE run[k] = Op(run[k - 1], seq[k])
  <2> DEFINE s == 1..k
  <2>1. /\ s \in SUBSET (1..n) /\ k \in s /\ s \ {k} = 1..(k - 1)
        /\ k \in 0..n /\ k - 1 \in 0..n
    OBVIOUS
  <2>2. Greatest(s) = k
    <3>1. k - 1 \in Nat /\ k = (k - 1) + 1 /\ s \in SUBSET (1..((k - 1) + 1))
      OBVIOUS
    <3> HIDE DEF s
    <3> QED
      BY <2>1, <3>1, GreatestIs
  <2>3. It[1..k] = Op(It[1..(k - 1)], seq[k])
    BY <1>3, <2>1, <2>2
  <2> QED
    BY <2>1, <2>3
<1>6. n \in 0..n
  OBVIOUS
<1> QED
  BY <1>2, <1>4, <1>5, <1>6

Runs(run, base, seq, n) ==
  /\ run[0] = base /\ run[n] = Folded(base, seq)
  /\ \A k \in 1..n : run[k] = Op(run[k - 1], seq[k])

LEMMA FoldHasRun ==
  ASSUME NEW base, NEW n \in Nat, NEW seq, DOMAIN seq = 1..n
  PROVE  \E run : Runs(run, base, seq, n)
BY FoldRuns DEF Runs

LEMMA FoldEmpty == ASSUME NEW base PROVE Folded(base, <<>>) = base
<1>1. ASSUME NEW n \in Nat, NEW seq, DOMAIN seq = 1..n, n = 0 PROVE Folded(base, seq) = base
  BY <1>1, FoldRuns
<1>2. 0 \in Nat /\ DOMAIN <<>> = 1..0
  OBVIOUS
<1> QED
  BY <1>1, <1>2, Zenon

(* What holds of the start, and goes on holding with every element, holds of the fold; I is a
   set of how many elements were folded and the result so far. *)
LEMMA FoldKeeps ==
  ASSUME NEW base, NEW n \in Nat, NEW seq, DOMAIN seq = 1..n, NEW I, <<0, base>> \in I,
         \A k \in 1..n : \A acc : <<k - 1, acc>> \in I => <<k, Op(acc, seq[k])>> \in I
  PROVE  <<n, Folded(base, seq)>> \in I
<1>1. PICK run : /\ run[0] = base /\ run[n] = Folded(base, seq)
                 /\ \A k \in 1..n : run[k] = Op(run[k - 1], seq[k])
  BY FoldRuns
<1> DEFINE Bad == {k \in Nat : k <= n /\ <<k, run[k]>> \notin I}
<1>2. Bad = {}
  <2> SUFFICES ASSUME Bad # {} PROVE FALSE
    OBVIOUS
  <2>1. PICK k \in Bad : \A m \in Bad : k <= m
    BY LeastOf
  <2>2. k # 0
    BY <1>1
  <2>3. k - 1 \in Nat /\ k \in 1..n /\ k - 1 \notin Bad
    BY <2>1, <2>2
  <2>4. <<k - 1, run[k - 1]>> \in I
    BY <2>3
  <2> QED
    BY <1>1, <2>3, <2>4
<1> QED
  BY <1>1, <1>2

(* One element more. *)
LEMMA FoldAppend ==
  ASSUME NEW base, NEW S, NEW seq \in Seq(S), NEW e \in S
  PROVE  Folded(base, Append(seq, e)) = Op(Folded(base, seq), e)
<1> DEFINE n == Len(seq)
           more == Append(seq, e)
<1>1. /\ n \in Nat /\ DOMAIN seq = 1..n /\ DOMAIN more = 1..(n + 1) /\ more[n + 1] = e
      /\ \A k \in 1..n : more[k] = seq[k]
  OBVIOUS
<1>2. PICK run : /\ run[0] = base /\ run[n] = Folded(base, seq)
                 /\ \A k \in 1..n : run[k] = Op(run[k - 1], seq[k])
  BY <1>1, FoldRuns
<1>3. PICK next : /\ next[0] = base /\ next[n + 1] = Folded(base, more)
                  /\ \A k \in 1..(n + 1) : next[k] = Op(next[k - 1], more[k])
  <2> HIDE DEF n, more
  <2>1. n + 1 \in Nat
    BY <1>1
  <2> QED
    BY <1>1, <2>1, FoldRuns
<1> HIDE DEF n, more
<1> DEFINE Bad == {k \in Nat : k <= n /\ next[k] # run[k]}
<1>4. Bad = {}
  <2> SUFFICES ASSUME Bad # {} PROVE FALSE
    OBVIOUS
  <2>1. PICK k \in Bad : \A m \in Bad : k <= m
    BY LeastOf
  <2>2. k # 0
    BY <1>2, <1>3
  <2>3. k - 1 \in Nat /\ k \in 1..n /\ k \in 1..(n + 1) /\ k - 1 \notin Bad
    BY <1>1, <2>1, <2>2
  <2>4. next[k - 1] = run[k - 1]
    <3>1. k - 1 <= n
      BY <1>1, <2>3
    <3> QED
      BY <2>3, <3>1
  <2> QED
    BY <1>1, <1>2, <1>3, <2>3, <2>4
<1>5. next[n] = run[n]
  BY <1>1, <1>4
<1>6. n + 1 \in 1..(n + 1) /\ (n + 1) - 1 = n
  BY <1>1
<1> QED
  BY <1>1, <1>2, <1>3, <1>5, <1>6 DEF more

-----------------------------------------------------------------------------
(* Folds that add up. *)
LEMMA SumIsNat ==
  ASSUME NEW S, NEW seq \in Seq(S), NEW base \in Nat,
         \A acc \in Nat : \A e \in S : Op(acc, e) \in Nat
  PROVE  Folded(base, seq) \in Nat
<1> DEFINE n == Len(seq)
           I == {x \in (0..n) \X Nat : TRUE}
<1>1. n \in Nat /\ DOMAIN seq = 1..n /\ \A k \in 1..n : seq[k] \in S
  OBVIOUS
<1> HIDE DEF n
<1>2. <<0, base>> \in I
  BY <1>1
<1>3. ASSUME NEW k \in 1..n, NEW acc, <<k - 1, acc>> \in I
      PROVE  <<k, Op(acc, seq[k])>> \in I
  <2>1. acc \in Nat /\ k \in 0..n
    BY <1>1, <1>3
  <2> QED
    BY <1>1, <2>1
<1>4. <<n, Folded(base, seq)>> \in I
  <2> HIDE DEF I
  <2> QED
    BY <1>1, <1>2, <1>3, FoldKeeps
<1> QED
  BY <1>4

-----------------------------------------------------------------------------
(* Folds that filter. *)

(* acc holds those of the first k elements that are in T, in their order: place says from where. *)
Picks(place, acc, seq, k, T) ==
  /\ place \in [1..Len(acc) -> 1..k]
  /\ \A i, j \in 1..Len(acc) : i < j => place[i] < place[j]
  /\ \A i \in 1..Len(acc) : acc[i] = seq[place[i]] /\ acc[i] \in T
  /\ \A j \in 1..k : seq[j] \in T => \E i \in 1..Len(acc) : place[i] = j

LEMMA PicksMore ==
  ASSUME NEW S, NEW T, NEW seq, NEW k \in Nat, seq[k + 1] \in S,
         NEW acc \in Seq(S), NEW place, Picks(place, acc, seq, k, T)
  PROVE  \E more : Picks(more, IF seq[k + 1] \in T THEN Append(acc, seq[k + 1]) ELSE acc, seq, k + 1, T)
<1> DEFINE m == Len(acc)
           e == seq[k + 1]
<1>1. m \in Nat /\ DOMAIN acc = 1..m
  OBVIOUS
<1>2. CASE e \in T
  <2> DEFINE more == [i \in 1..(m + 1) |-> IF i = m + 1 THEN k + 1 ELSE place[i]]
             longer == Append(acc, e)
  <2>1. Len(longer) = m + 1 /\ longer[m + 1] = e /\ \A i \in 1..m : longer[i] = acc[i]
    OBVIOUS
  <2>2. \A i \in 1..m : place[i] \in 1..k /\ more[i] = place[i]
    BY <1>1 DEF Picks
  <2>3. \A i \in 1..(m + 1) : i = m + 1 \/ i \in 1..m
    BY <1>1
  <2>4. more[m + 1] = k + 1 /\ m + 1 \in 1..(m + 1)
    BY <1>1
  <2>5. more \in [1..(m + 1) -> 1..(k + 1)]
    <3>1. ASSUME NEW i \in 1..(m + 1) PROVE more[i] \in 1..(k + 1)
      <4> HIDE DEF more, m
      <4>1. \A x \in 1..k : x \in 1..(k + 1)
        OBVIOUS
      <4>2. k + 1 \in 1..(k + 1)
        OBVIOUS
      <4> QED
        BY <2>2, <2>3, <2>4, <4>1, <4>2
    <3> QED
      BY <3>1
  <2> HIDE DEF more, longer, m, e
  <2>6. ASSUME NEW i \in 1..(m + 1), NEW j \in 1..(m + 1), i < j PROVE more[i] < more[j]
    <3>1. i \in 1..m
      BY <1>1, <2>6
    <3>2. CASE j = m + 1
      BY <2>2, <2>4, <3>1, <3>2
    <3>3. CASE j \in 1..m
      BY <2>2, <2>6, <3>1, <3>3 DEF Picks, m
    <3> QED
      BY <2>3, <3>2, <3>3
  <2>7. ASSUME NEW i \in 1..(m + 1) PROVE longer[i] = seq[more[i]] /\ longer[i] \in T
    <3>1. CASE i = m + 1
      BY <1>2, <2>1, <2>4, <3>1 DEF e
    <3>2. CASE i \in 1..m
      BY <2>1, <2>2, <3>2 DEF Picks, m
    <3> QED
      BY <2>3, <3>1, <3>2
  <2>8. ASSUME NEW j \in 1..(k + 1), seq[j] \in T PROVE \E i \in 1..(m + 1) : more[i] = j
    <3>1. CASE j = k + 1
      BY <2>4, <3>1
    <3>2. CASE j # k + 1
      <4>1. j \in 1..k
        BY <3>2
      <4>2. PICK i \in 1..m : place[i] = j
        BY <2>8, <4>1 DEF Picks, m
      <4>3. i \in 1..(m + 1)
        BY <1>1
      <4> QED
        BY <2>2, <4>2, <4>3
    <3> QED
      BY <3>1, <3>2
  <2>9. Picks(more, longer, seq, k + 1, T)
    BY <2>1, <2>5, <2>6, <2>7, <2>8 DEF Picks
  <2> QED
    BY <1>2, <2>9 DEF longer, e
<1>3. CASE e \notin T
  <2>1. place \in [1..m -> 1..(k + 1)]
    <3>1. place \in [1..m -> 1..k] /\ \A x \in 1..k : x \in 1..(k + 1)
      BY DEF Picks
    <3> QED
      BY <3>1
  <2>2. \A j \in 1..(k + 1) : seq[j] \in T => j \in 1..k
    BY <1>3
  <2>3. Picks(place, acc, seq, k + 1, T)
    BY <2>1, <2>2 DEF Picks
  <2> QED
    BY <1>3, <2>3
<1> QED
  BY <1>2, <1>3

(* What a filter keeps. *)
LEMMA FilterPicks ==
  ASSUME NEW S, NEW T, NEW seq \in Seq(S),
         \A acc : \A e \in S : Op(acc, e) = IF e \in T THEN Append(acc, e) ELSE acc
  PROVE  /\ Folded(<<>>, seq) \in Seq(S)
         /\ \E place : Picks(place, Folded(<<>>, seq), seq, Len(seq), T)
<1> DEFINE n == Len(seq)
           I == {x \in (0..n) \X Seq(S) : \E place : Picks(place, x[2], seq, x[1], T)}
<1>1. n \in Nat /\ DOMAIN seq = 1..n /\ \A k \in 1..n : seq[k] \in S
  OBVIOUS
<1> HIDE DEF n
<1>2. <<0, <<>>>> \in I
  <2>1. Picks(<<>>, <<>>, seq, 0, T)
    BY DEF Picks
  <2>2. <<>> \in Seq(S) /\ 0 \in 0..n
    BY <1>1
  <2>3. <<0, <<>>>> \in (0..n) \X Seq(S)
    BY <2>2
  <2>4. \E place : Picks(place, <<0, <<>>>>[2], seq, <<0, <<>>>>[1], T)
    BY <2>1
  <2> QED
    BY <2>3, <2>4
<1>3. ASSUME NEW k \in 1..n, NEW acc, <<k - 1, acc>> \in I
      PROVE  <<k, Op(acc, seq[k])>> \in I
  <2>1. acc \in Seq(S) /\ \E place : Picks(place, acc, seq, k - 1, T)
    BY <1>3
  <2>2. k - 1 \in Nat /\ (k - 1) + 1 = k /\ k \in 0..n /\ seq[k] \in S
    BY <1>1
  <2> DEFINE next == IF seq[k] \in T THEN Append(acc, seq[k]) ELSE acc
  <2>3. \E more : Picks(more, next, seq, k, T)
    <3> DEFINE c == k - 1
    <3>1. c \in Nat /\ c + 1 = k /\ \E place : Picks(place, acc, seq, c, T)
      BY <2>1, <2>2
    <3> HIDE DEF c
    <3>2. seq[c + 1] \in S /\ seq[c + 1] = seq[k]
      BY <2>2, <3>1
    <3>3. PICK place : Picks(place, acc, seq, c, T)
      BY <3>1
    <3>4. \E more : Picks(more, IF seq[c + 1] \in T THEN Append(acc, seq[c + 1]) ELSE acc, seq, c + 1, T)
      BY <2>1, <3>1, <3>2, <3>3, PicksMore
    <3> QED
      BY <3>1, <3>4
  <2>4. next \in Seq(S)
    BY <2>1, <2>2
  <2>5. Op(acc, seq[k]) = next
    BY <2>2
  <2> HIDE DEF next
  <2> QED
    BY <2>2, <2>3, <2>4, <2>5
<1>4. <<n, Folded(<<>>, seq)>> \in I
  <2> HIDE DEF I
  <2> QED
    BY <1>1, <1>2, <1>3, FoldKeeps
<1> QED
  BY <1>4 DEF n
=============================================================================
