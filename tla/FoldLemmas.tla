----------------------------- MODULE FoldLemmas ------------------------------
(***************************************************************************)
(* What a fold over a sequence is at its two ends, for any step: the model *)
(* folds what is in flight to a client into the client's list, and a pass  *)
(* over a list into the list.  A proof about such a fold instantiates this *)
(* module with the step it folds.                                          *)
(*                                                                         *)
(* FoldLeft is defined by a recursive function on sets of positions.  That *)
(* such a function exists is proved by induction, and induction by taking  *)
(* the least counterexample: the theorem of the library that gives it is   *)
(* about sets, not about operators, and so can be instantiated.            *)
(***************************************************************************)
EXTENDS Naturals, Sequences, SequencesExt, WellFoundedInduction, TLAPS

CONSTANT Step(_, _)

Fold(base, seq) == FoldLeft(Step, base, seq)

-----------------------------------------------------------------------------
\* The less-than relation on the natural numbers, as a set of pairs.
Less == {p \in Nat \X Nat : p[1] < p[2]}

\* Every set of natural numbers that is not empty has a least element.
LEMMA LeastElement ==
  ASSUME NEW S \in SUBSET Nat, S # {}
  PROVE  \E n \in S : \A m \in S : n <= m
<1>1. IsWellFoundedOn(Less, Nat)
  BY NatLessThanWellFounded DEF OpToRel, Less
<1>2. PICK n \in S : \A m \in S : <<m, n>> \notin Less
  BY <1>1, WFMin
<1>3. \A m \in S : <<m, n>> \in Nat \X Nat /\ <<m, n>>[1] = m /\ <<m, n>>[2] = n
  OBVIOUS
<1>4. \A m \in S : ~ (m < n)
  BY <1>2, <1>3 DEF Less
<1> QED
  BY <1>4

\* Up to a number: what holds of nothing, and of the next when of the last.
LEMMA UpTo ==
  ASSUME NEW n \in Nat, NEW S, 0 \in S, \A i \in 1 .. n : i - 1 \in S => i \in S
  PROVE  \A i \in 0 .. n : i \in S
<1> DEFINE Bad == (0 .. n) \ S
<1> SUFFICES ASSUME Bad # {} PROVE FALSE
  OBVIOUS
<1>1. Bad \in SUBSET Nat
  OBVIOUS
<1>2. PICK i \in Bad : \A j \in Bad : i <= j
  <2> HIDE DEF Bad
  <2> QED
    BY <1>1, LeastElement
<1>3. i \in 1 .. n /\ i - 1 \notin Bad /\ i - 1 \in 0 .. n
  BY <1>2
<1> QED
  BY <1>2, <1>3

\* The greatest element is Max.
LEMMA MaxIs ==
  ASSUME NEW S \in SUBSET Nat, NEW i \in S, \A j \in S : j <= i
  PROVE  Max(S) = i
<1>1. \A j \in S : i >= j
  OBVIOUS
<1>2. /\ Max(S) \in S
      /\ \A y \in S : Max(S) >= y
  BY <1>1 DEF Max
<1>3. Max(S) \in Nat /\ Max(S) <= i
  BY <1>2
<1> QED
  BY <1>2, <1>3

\* h[i] is the outcome of the first i elements.
IsRun(h, base, seq, n) ==
  h[0] = base /\ \A i \in 1 .. n : h[i] = Step(h[i - 1], seq[i])

\* Two runs from the same base through the same elements end the same.
LEMMA RunUnique ==
  ASSUME NEW g, NEW h, NEW base, NEW n \in Nat, NEW s, NEW t,
         IsRun(g, base, s, n), IsRun(h, base, t, n), \A i \in 1 .. n : s[i] = t[i]
  PROVE  g[n] = h[n]
<1> DEFINE Bad == {i \in 0 .. n : g[i] # h[i]}
<1> SUFFICES ASSUME Bad # {} PROVE FALSE
  OBVIOUS
<1>1. Bad \in SUBSET Nat
  OBVIOUS
<1>2. PICK i \in Bad : \A j \in Bad : i <= j
  <2> HIDE DEF Bad
  <2> QED
    BY <1>1, LeastElement
<1>3. i # 0
  BY DEF IsRun
<1>4. i - 1 \in 0 .. n /\ i - 1 \notin Bad /\ i \in 1 .. n
  BY <1>2, <1>3
<1> QED
  BY <1>4 DEF IsRun

\* The equation by which a fold is defined, over sets of positions.
Equation(g, base, seq, n) ==
  g = [t \in SUBSET (1 .. n) |->
         IF t = {} THEN base ELSE Step(g[t \ {Max(t)}], seq[Max(t)])]

\* The equation has a solution: take the least number without one.
LEMMA FoldExists ==
  ASSUME NEW base, NEW seq, NEW n \in Nat
  PROVE  \E g : Equation(g, base, seq, n)
<1> DEFINE Bad == {i \in Nat : ~ \E g : Equation(g, base, seq, i)}
<1> SUFFICES ASSUME Bad # {} PROVE FALSE
  OBVIOUS
<1>1. PICK i \in Bad : \A j \in Bad : i <= j
  BY LeastElement
<1>2. ASSUME i = 0 PROVE FALSE
  <2> DEFINE g == [t \in SUBSET (1 .. 0) |-> base]
  <2>1. Equation(g, base, seq, 0)
    BY DEF Equation
  <2> QED
    BY <1>2, <2>1
<1>3. ASSUME i # 0 PROVE FALSE
  <2>1. i - 1 \in Nat /\ i - 1 \notin Bad
    BY <1>1, <1>3
  <2>2. PICK g : Equation(g, base, seq, i - 1)
    BY <2>1
  <2> DEFINE f == [t \in SUBSET (1 .. i) |->
                     IF i \in t THEN Step(g[t \ {i}], seq[i]) ELSE g[t]]
  <2>3. ASSUME NEW t \in SUBSET (1 .. i)
        PROVE  f[t] = IF t = {} THEN base ELSE Step(f[t \ {Max(t)}], seq[Max(t)])
    <3>1. CASE i \in t
      <4>1. Max(t) = i
        BY <3>1, MaxIs
      <4>2. t \ {i} \in SUBSET (1 .. i) /\ i \notin t \ {i}
        OBVIOUS
      <4> QED
        BY <3>1, <4>1, <4>2
    <3>2. CASE i \notin t
      <4>1. t \in SUBSET (1 .. i - 1)
        BY <3>2, <2>1
      <4>2. g[t] = IF t = {} THEN base ELSE Step(g[t \ {Max(t)}], seq[Max(t)])
        BY <4>1, <2>2 DEF Equation
      <4>3. f[t \ {Max(t)}] = g[t \ {Max(t)}]
        BY <3>2
      <4> QED
        BY <3>2, <4>2, <4>3
    <3> QED
      BY <3>1, <3>2
  <2>4. Equation(f, base, seq, i)
    BY <2>3 DEF Equation
  <2> QED
    BY <1>1, <2>4
<1> QED
  BY <1>2, <1>3

\* The fold is the end of a run.
LEMMA FoldIsRun ==
  ASSUME NEW base, NEW n \in Nat, NEW seq, DOMAIN seq = 1 .. n
  PROVE  \E h : IsRun(h, base, seq, n) /\ Fold(base, seq) = h[n]
<1> DEFINE g == CHOOSE g : Equation(g, base, seq, n)
           h == [i \in 0 .. n |-> g[1 .. i]]
<1>1. Fold(base, seq) = g[1 .. n]
  BY DEF Fold, FoldLeft, MapThenFoldSet, Equation
<1>2. Equation(g, base, seq, n)
  BY FoldExists
<1>3. h[0] = base
  <2>1. 1 .. 0 = {} /\ 1 .. 0 \in SUBSET (1 .. n) /\ 0 \in 0 .. n
    OBVIOUS
  <2> QED
    BY <1>2, <2>1 DEF Equation
<1>4. ASSUME NEW i \in 1 .. n PROVE h[i] = Step(h[i - 1], seq[i])
  <2>1. 1 .. i \in SUBSET (1 .. n) /\ i \in 1 .. i /\ i - 1 \in 0 .. n
    <3> HIDE DEF g, h
    <3> QED
      OBVIOUS
  <2>2. Max(1 .. i) = i
    BY MaxIs
  <2>3. (1 .. i) \ {i} = 1 .. i - 1
    OBVIOUS
  <2>4. g[1 .. i] = Step(g[1 .. i - 1], seq[i])
    BY <1>2, <2>1, <2>2, <2>3 DEF Equation
  <2> QED
    BY <2>1, <2>4
<1>5. IsRun(h, base, seq, n)
  BY <1>3, <1>4 DEF IsRun
<1> QED
  BY <1>1, <1>5

\* The empty sequence.
LEMMA FoldOfNothing ==
  ASSUME NEW base
  PROVE  Fold(base, <<>>) = base
BY FoldIsRun DEF IsRun

\* The last element is folded last.
LEMMA FoldOfAppend ==
  ASSUME NEW base, NEW M, NEW s \in Seq(M), NEW m \in M
  PROVE  Fold(base, Append(s, m)) = Step(Fold(base, s), m)
<1> DEFINE t == Append(s, m)
           n == Len(s)
<1>1. /\ n \in Nat /\ DOMAIN s = 1 .. n /\ DOMAIN t = 1 .. n + 1
      /\ t[n + 1] = m /\ \A i \in 1 .. n : t[i] = s[i]
  OBVIOUS
<1> HIDE DEF t, n
<1>2. PICK g : IsRun(g, base, s, n) /\ Fold(base, s) = g[n]
  BY <1>1, FoldIsRun
<1>3. PICK h : IsRun(h, base, t, n + 1) /\ Fold(base, t) = h[n + 1]
  BY <1>1, FoldIsRun
<1>4. IsRun(h, base, t, n) /\ h[n + 1] = Step(h[n], m)
  BY <1>1, <1>3 DEF IsRun
<1>5. g[n] = h[n]
  BY <1>1, <1>2, <1>4, RunUnique
<1> QED
  BY <1>2, <1>3, <1>4, <1>5 DEF t

\* Folding the first element into the base does not change the outcome.
LEMMA FoldOfTail ==
  ASSUME NEW base, NEW M, NEW s \in Seq(M), s # <<>>
  PROVE  Fold(base, s) = Fold(Step(base, Head(s)), Tail(s))
<1> DEFINE t == Tail(s)
           n == Len(t)
           first == Step(base, Head(s))
<1>1. /\ n \in Nat /\ DOMAIN t = 1 .. n /\ DOMAIN s = 1 .. n + 1
      /\ s[1] = Head(s) /\ \A i \in 1 .. n : t[i] = s[i + 1]
  OBVIOUS
<1> HIDE DEF t, n
<1>2. PICK g : IsRun(g, first, t, n) /\ Fold(first, t) = g[n]
  BY <1>1, FoldIsRun
<1>3. PICK h : IsRun(h, base, s, n + 1) /\ Fold(base, s) = h[n + 1]
  BY <1>1, FoldIsRun
<1> DEFINE f == [i \in 0 .. n |-> h[i + 1]]
<1>4. f[0] = first
  BY <1>1, <1>3 DEF IsRun
<1>5. ASSUME NEW i \in 1 .. n PROVE f[i] = Step(f[i - 1], t[i])
  <2>1. i + 1 \in 1 .. n + 1 /\ i - 1 \in 0 .. n /\ (i + 1) - 1 = i /\ (i - 1) + 1 = i
    BY <1>1
  <2>2. h[i + 1] = Step(h[i], s[i + 1])
    BY <1>3, <2>1 DEF IsRun
  <2> QED
    BY <1>1, <2>1, <2>2
<1>6. IsRun(f, first, t, n)
  BY <1>4, <1>5 DEF IsRun
<1>7. g[n] = f[n]
  BY <1>1, <1>2, <1>6, RunUnique
<1> QED
  BY <1>1, <1>2, <1>3, <1>7 DEF t

\* What holds of the base and is kept by every step holds of the outcome.
LEMMA FoldStays ==
  ASSUME NEW S, NEW base \in S, NEW M, NEW s \in Seq(M),
         \A x \in S : \A m \in M : Step(x, m) \in S
  PROVE  Fold(base, s) \in S
<1> DEFINE n == Len(s)
<1>1. n \in Nat /\ DOMAIN s = 1 .. n /\ \A i \in 1 .. n : s[i] \in M
  OBVIOUS
<1> HIDE DEF n
<1>2. PICK h : IsRun(h, base, s, n) /\ Fold(base, s) = h[n]
  BY <1>1, FoldIsRun
<1> DEFINE Bad == {i \in 0 .. n : h[i] \notin S}
<1>3. ASSUME Bad # {} PROVE FALSE
  <2>1. Bad \in SUBSET Nat
    OBVIOUS
  <2>2. PICK i \in Bad : \A j \in Bad : i <= j
    <3> HIDE DEF Bad
    <3> QED
      BY <1>3, <2>1, LeastElement
  <2>3. i # 0
    BY <1>2 DEF IsRun
  <2>4. i - 1 \in 0 .. n /\ i - 1 \notin Bad /\ i \in 1 .. n
    BY <1>1, <2>2, <2>3
  <2> QED
    BY <1>1, <1>2, <2>4 DEF IsRun
<1>4. n \in 0 .. n
  BY <1>1
<1> QED
  BY <1>2, <1>3, <1>4

\* Two bases in a relation that every step keeps lead to two outcomes in it.
LEMMA FoldsRelate ==
  ASSUME NEW R, NEW a, NEW b, <<a, b>> \in R, NEW M, NEW s \in Seq(M),
         \A x, y : \A m \in M : <<x, y>> \in R => <<Step(x, m), Step(y, m)>> \in R
  PROVE  <<Fold(a, s), Fold(b, s)>> \in R
<1> DEFINE n == Len(s)
<1>1. n \in Nat /\ DOMAIN s = 1 .. n /\ \A i \in 1 .. n : s[i] \in M
  OBVIOUS
<1> HIDE DEF n
<1>2. PICK g : IsRun(g, a, s, n) /\ Fold(a, s) = g[n]
  BY <1>1, FoldIsRun
<1>3. PICK h : IsRun(h, b, s, n) /\ Fold(b, s) = h[n]
  BY <1>1, FoldIsRun
<1> DEFINE Bad == {i \in 0 .. n : <<g[i], h[i]>> \notin R}
<1>4. ASSUME Bad # {} PROVE FALSE
  <2>1. Bad \in SUBSET Nat
    OBVIOUS
  <2>2. PICK i \in Bad : \A j \in Bad : i <= j
    <3> HIDE DEF Bad
    <3> QED
      BY <1>4, <2>1, LeastElement
  <2>3. i # 0
    BY <1>2, <1>3 DEF IsRun
  <2>4. i - 1 \in 0 .. n /\ i - 1 \notin Bad /\ i \in 1 .. n
    BY <1>1, <2>2, <2>3
  <2>5. <<Step(g[i - 1], s[i]), Step(h[i - 1], s[i])>> \in R
    BY <1>1, <2>4
  <2> QED
    BY <1>2, <1>3, <2>4, <2>5 DEF IsRun
<1>5. n \in 0 .. n
  BY <1>1
<1> QED
  BY <1>2, <1>3, <1>4, <1>5
=============================================================================
