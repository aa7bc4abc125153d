--------------------------- MODULE VisibilitiesProofs ---------------------------
(***************************************************************************)
(* Proofs about Visibilities, ConfigText and Statistics, for any number of *)
(* antennas and channels, any texts and any magnitudes.                    *)
(*                                                                         *)
(* Sums and parsing are folds over finite sets, which the community        *)
(* modules define by CHOOSE: the first lemmas show that their recursions   *)
(* have solutions, by induction over families of sets.  Then come the      *)
(* parser, the arithmetic of the arrays, the invariant of the path and     *)
(* what it implies: the places of the visibilities, their baselines, what  *)
(* clipping keeps, and the text of the ranges.                             *)
(***************************************************************************)
EXTENDS Visibilities, FiniteSetTheorems, SequenceTheorems, TLAPS

-----------------------------------------------------------------------------
(***************************************************************************)
(* Induction over sets instead of over predicates, so that no operator is  *)
(* a parameter.                                                            *)
(***************************************************************************)
LEMMA LeastNatural ==
  ASSUME NEW T \in SUBSET Nat, T # {}
  PROVE  \E n \in T : \A k \in T : n <= k
<1>1. PICK n \in T : \A k \in T : <<k, n>> \notin OpToRel(<, Nat)
  BY NatLessThanWellFounded, WFMin
<1>2. \A k \in T : ~(k < n)
  BY <1>1 DEF OpToRel
<1> QED
  BY <1>2

\* A set with zero and every successor holds all natural numbers.
LEMMA NatSetInduction ==
  ASSUME NEW G, 0 \in G, \A n \in Nat : n \in G => n + 1 \in G
  PROVE  Nat \subseteq G
<1> SUFFICES ASSUME Nat \ G # {} PROVE FALSE
  OBVIOUS
<1>1. PICK n \in Nat \ G : \A k \in Nat \ G : n <= k
  BY LeastNatural
<1>2. n # 0 /\ n - 1 \in Nat /\ n - 1 \in G
  BY <1>1
<1>3. (n - 1) + 1 \in G
  BY <1>2
<1> QED
  BY <1>1, <1>3

(***************************************************************************)
(* pick chooses the element by which a set is taken apart.                 *)
(***************************************************************************)
Picks(pick, D) == \A S \in SUBSET D : S # {} => pick[S] \in S

(***************************************************************************)
(* A family with the empty set, that can be taken back from S to S without *)
(* its picked element, has every subset of a finite set.                   *)
(***************************************************************************)
LEMMA SubsetInduction ==
  ASSUME NEW D, IsFiniteSet(D), NEW pick, Picks(pick, D),
         NEW G, {} \in G,
         \A S \in SUBSET D : S # {} /\ S \ {pick[S]} \in G => S \in G
  PROVE  SUBSET D \subseteq G
<1> DEFINE H == {n \in Nat : \A S \in SUBSET D : Cardinality(S) = n => S \in G}
<1>1. \A S \in SUBSET D : IsFiniteSet(S) /\ Cardinality(S) \in Nat
  BY FS_Subset, FS_CardinalityType
<1>2. 0 \in H
  BY <1>1, FS_EmptySet
<1>3. \A S \in SUBSET D : S # {} => Cardinality(S \ {pick[S]}) = Cardinality(S) - 1
  BY <1>1, FS_RemoveElement DEF Picks
<1>4. ASSUME NEW n \in Nat, n \in H PROVE n + 1 \in H
  <2> SUFFICES ASSUME NEW S \in SUBSET D, Cardinality(S) = n + 1 PROVE S \in G
    OBVIOUS
  <2>1. S # {}
    BY <1>1, FS_EmptySet
  <2>2. Cardinality(S \ {pick[S]}) = n
    BY <1>1, <1>3, <2>1
  <2>3. S \ {pick[S]} \in SUBSET D
    OBVIOUS
  <2>4. S \ {pick[S]} \in G
    BY <1>4, <2>2, <2>3
  <2> QED
    BY <2>1, <2>4
<1> HIDE DEF H
<1>5. Nat \subseteq H
  BY <1>2, <1>4, NatSetInduction
<1> QED
  BY <1>1, <1>5 DEF H

(***************************************************************************)
(* A recursion that takes a finite set apart defines a function, and only  *)
(* one.                                                                    *)
(***************************************************************************)
Recurs(g, D, pick, base, step) ==
  /\ g[{}] = base
  /\ \A S \in SUBSET D : S # {} => g[S] = step[pick[S]][g[S \ {pick[S]}]]

\* There is a function that takes the sets apart in this way.
LEMMA RecursionExists ==
  ASSUME NEW D, IsFiniteSet(D), NEW pick, Picks(pick, D),
         NEW W, NEW base \in W, NEW step \in [D -> [W -> W]]
  PROVE  \E g \in [SUBSET D -> W] : Recurs(g, D, pick, base, step)
<1> DEFINE
  Upto(n) == {S \in SUBSET D : Cardinality(S) <= n}
  Solves(g, n) ==
    /\ g \in [Upto(n) -> W]
    /\ g[{}] = base
    /\ \A S \in Upto(n) : S # {} => g[S] = step[pick[S]][g[S \ {pick[S]}]]
  H == {n \in Nat : \E g : Solves(g, n)}
<1>1. \A S \in SUBSET D : IsFiniteSet(S) /\ Cardinality(S) \in Nat /\ Cardinality(S) <= Cardinality(D)
  BY FS_Subset, FS_CardinalityType
<1>2. \A S \in SUBSET D : S # {} =>
        pick[S] \in D /\ S \ {pick[S]} \in SUBSET D /\ Cardinality(S \ {pick[S]}) = Cardinality(S) - 1
  BY <1>1, FS_RemoveElement DEF Picks
<1>3. 0 \in H
  <2> DEFINE g == [S \in Upto(0) |-> base]
  <2>1. \A S \in Upto(0) : S = {}
    BY <1>1, FS_EmptySet
  <2>2. {} \in Upto(0)
    BY FS_EmptySet
  <2>3. Solves(g, 0)
    BY <2>1, <2>2
  <2> HIDE DEF Solves
  <2> QED
    BY <2>3
<1>4. ASSUME NEW n \in Nat, n \in H PROVE n + 1 \in H
  <2>1. PICK g : Solves(g, n)
    BY <1>4
  <2> DEFINE h == [S \in Upto(n + 1) |-> IF S = {} THEN base ELSE step[pick[S]][g[S \ {pick[S]}]]]
  <2>2. \A S \in Upto(n + 1) : S # {} => pick[S] \in D /\ S \ {pick[S]} \in Upto(n)
    BY <1>1, <1>2
  <2>3. h \in [Upto(n + 1) -> W]
    BY <2>1, <2>2
  <2>4. ASSUME NEW S \in Upto(n) PROVE S \in Upto(n + 1) /\ h[S] = g[S]
    <3>1. S \in Upto(n + 1)
      BY <1>1
    <3>2. h[S] = IF S = {} THEN base ELSE step[pick[S]][g[S \ {pick[S]}]]
      BY <3>1
    <3> QED
      BY <2>1, <3>1, <3>2
  <2>5. {} \in Upto(n + 1)
    BY FS_EmptySet
  <2>6. h[{}] = base
    BY <2>5
  <2>7. Solves(h, n + 1)
    BY <2>2, <2>3, <2>4, <2>6
  <2> HIDE DEF Solves
  <2> QED
    BY <2>7
<1>5. Cardinality(D) \in H
  BY <1>1, <1>3, <1>4, NatSetInduction
<1>6. Upto(Cardinality(D)) = SUBSET D
  BY <1>1
<1> QED
  BY <1>5, <1>6 DEF Recurs

InStep(g, h, D, pick) ==
  /\ g[{}] = h[{}]
  /\ \A S \in SUBSET D : S # {} /\ g[S \ {pick[S]}] = h[S \ {pick[S]}] => g[S] = h[S]

(***************************************************************************)
(* Functions that agree on a set as soon as they agree without its picked  *)
(* element agree on every subset.                                          *)
(***************************************************************************)
LEMMA RecursionUnique ==
  ASSUME NEW D, IsFiniteSet(D), NEW pick, Picks(pick, D),
         NEW g, NEW h, InStep(g, h, D, pick)
  PROVE  \A S \in SUBSET D : g[S] = h[S]
<1> DEFINE G == {S \in SUBSET D : g[S] = h[S]}
<1>1. {} \in G
  BY DEF InStep
<1>2. \A S \in SUBSET D : S # {} /\ S \ {pick[S]} \in G => S \in G
  BY DEF InStep
<1> HIDE DEF G
<1>3. SUBSET D \subseteq G
  BY <1>1, <1>2, SubsetInduction
<1> QED
  BY <1>3 DEF G

-----------------------------------------------------------------------------
(***************************************************************************)
(* Min and Max of sets of integers.                                        *)
(***************************************************************************)
LEMMA GreatestExists ==
  ASSUME NEW n \in Nat, NEW S \in SUBSET (1..n), S # {}
  PROVE  Max(S) \in S /\ \A k \in S : k <= Max(S)
<1> DEFINE T == {n - k : k \in S}
<1>1. T \in SUBSET Nat
  OBVIOUS
<1>2. T # {}
  OBVIOUS
<1>3. PICK d \in T : \A k \in T : d <= k
  BY <1>1, <1>2, LeastNatural
<1>4. n - d \in S /\ \A k \in S : n - d >= k
  BY <1>3
<1> QED
  BY <1>4 DEF Max

-----------------------------------------------------------------------------
(***************************************************************************)
(* The sum of the values of a function, whichever of them is added first.  *)
(***************************************************************************)
Sums(g, f, D) ==
  /\ g[{}] = 0
  /\ \A S \in SUBSET D : \A x \in S : g[S] = f[x] + g[S \ {x}]

\* The order in which a set is taken apart does not matter for a sum.
LEMMA SumsAnyOrder ==
  ASSUME NEW D, IsFiniteSet(D), NEW f \in [D -> Int], NEW pick, Picks(pick, D),
         NEW g \in [SUBSET D -> Int], g[{}] = 0,
         \A S \in SUBSET D : S # {} => g[S] = f[pick[S]] + g[S \ {pick[S]}]
  PROVE  Sums(g, f, D)
<1> DEFINE H == {n \in Nat : \A S \in SUBSET D : Cardinality(S) = n =>
                               \A x \in S : g[S] = f[x] + g[S \ {x}]}
<1>1. \A S \in SUBSET D : IsFiniteSet(S) /\ Cardinality(S) \in Nat
  BY FS_Subset, FS_CardinalityType
<1>2. 0 \in H
  BY <1>1, FS_EmptySet
<1>3. \A S \in SUBSET D : \A x \in S : Cardinality(S \ {x}) = Cardinality(S) - 1
  BY <1>1, FS_RemoveElement
<1>4. ASSUME NEW n \in Nat, n \in H PROVE n + 1 \in H
  <2> SUFFICES ASSUME NEW S \in SUBSET D, Cardinality(S) = n + 1, NEW x \in S
               PROVE  g[S] = f[x] + g[S \ {x}]
    OBVIOUS
  <2> DEFINE y == pick[S]
  <2>1. y \in S /\ g[S] = f[y] + g[S \ {y}]
    BY DEF Picks
  <2> HIDE DEF y
  <2>2. CASE x = y
    BY <2>1, <2>2
  <2>3. CASE x # y
    <3> DEFINE R == (S \ {x}) \ {y}
    <3>1. /\ S \ {x} \in SUBSET D /\ S \ {y} \in SUBSET D /\ R \in SUBSET D
          /\ x \in S \ {y} /\ y \in S \ {x} /\ R = (S \ {y}) \ {x}
      BY <2>1, <2>3
    <3>2. Cardinality(S \ {x}) = n /\ Cardinality(S \ {y}) = n
      <4>1. Cardinality(S \ {x}) = (n + 1) - 1 /\ Cardinality(S \ {y}) = (n + 1) - 1
        BY <1>3, <2>1
      <4> QED
        BY <4>1
    <3> HIDE DEF R
    <3>3. g[S \ {x}] = f[y] + g[(S \ {x}) \ {y}]
      BY <1>4, <3>1, <3>2
    <3>4. g[S \ {y}] = f[x] + g[(S \ {y}) \ {x}]
      BY <1>4, <3>1, <3>2
    <3>5. f[x] \in Int /\ f[y] \in Int /\ g[R] \in Int
      BY <2>1, <3>1
    <3>6. g[S \ {x}] = f[y] + g[R] /\ g[S \ {y}] = f[x] + g[R]
      BY <3>1, <3>3, <3>4, Zenon DEF R
    <3> QED
      BY <2>1, <3>5, <3>6
  <2> QED
    BY <2>2, <2>3
<1> HIDE DEF H
<1>5. Nat \subseteq H
  BY <1>2, <1>4, NatSetInduction
<1> QED
  BY <1>1, <1>5 DEF H, Sums

(***************************************************************************)
(* Total of the community modules is such a sum: its recursion, which it   *)
(* states by CHOOSE, has a solution.                                       *)
(***************************************************************************)
LEMMA TotalSums ==
  ASSUME NEW D, IsFiniteSet(D), NEW f \in [D -> Int]
  PROVE  \E g \in [SUBSET D -> Int] : Sums(g, f, D) /\ Total(f) = g[D]
<1> DEFINE
  pick == [S \in SUBSET D |-> CHOOSE x \in S : TRUE]
  step == [x \in D |-> [n \in Int |-> f[x] + n]]
  Added(g) == [S \in SUBSET D |->
                IF S = {} THEN 0 ELSE LET x == CHOOSE x \in S : TRUE IN f[x] + g[S \ {x}]]
  iter == CHOOSE g : g = Added(g)
<1>1. Total(f) = iter[D]
  BY Zenon DEF Total, MapThenSumSet, MapThenFoldSet
<1>2. Picks(pick, D)
  BY DEF Picks
<1>3. step \in [D -> [Int -> Int]] /\ 0 \in Int
  OBVIOUS
<1> HIDE DEF pick, step
<1>4. PICK g \in [SUBSET D -> Int] : Recurs(g, D, pick, 0, step)
  BY <1>2, <1>3, RecursionExists
<1>5. \A S \in SUBSET D : S # {} =>
        /\ pick[S] \in S /\ pick[S] = CHOOSE x \in S : TRUE
        /\ g[S] = f[pick[S]] + g[S \ {pick[S]}]
  BY <1>2, <1>4 DEF Picks, pick, step, Recurs
<1>6. g = Added(g)
  BY <1>4, <1>5 DEF Recurs
<1>7. iter = Added(iter)
  BY <1>6
<1>8. \A S \in SUBSET D : g[S] = iter[S]
  <2>1. g[{}] = iter[{}]
    BY <1>4, <1>7 DEF Recurs
  <2>2. ASSUME NEW S \in SUBSET D, S # {}, g[S \ {pick[S]}] = iter[S \ {pick[S]}]
        PROVE  g[S] = iter[S]
    <3> HIDE DEF iter
    <3>1. iter[S] = f[CHOOSE x \in S : TRUE] + iter[S \ {CHOOSE x \in S : TRUE}]
      BY <1>7, <2>2
    <3> QED
      BY <1>5, <2>2, <3>1
  <2> HIDE DEF iter, Added
  <2>3. InStep(g, iter, D, pick)
    BY <2>1, <2>2 DEF InStep
  <2>4. \A h : InStep(g, h, D, pick) => \A S \in SUBSET D : g[S] = h[S]
    BY <1>2, RecursionUnique
  <2> QED
    BY <2>3, <2>4
<1>9. g[{}] = 0
  BY <1>4 DEF Recurs
<1> HIDE DEF iter, Added
<1>10. Sums(g, f, D)
  BY <1>2, <1>5, <1>9, SumsAnyOrder
<1> QED
  BY <1>1, <1>8, <1>10

\* A sum of nothing but zeros, and one that has no negative value.
LEMMA SumsZero ==
  ASSUME NEW D, IsFiniteSet(D), NEW f \in [D -> Int], NEW g \in [SUBSET D -> Int], Sums(g, f, D),
         NEW S \in SUBSET D, \A x \in S : f[x] = 0
  PROVE  g[S] = 0
<1> DEFINE
  pick == [R \in SUBSET S |-> CHOOSE x \in R : TRUE]
  G == {R \in SUBSET S : g[R] = 0}
<1>1. Picks(pick, S) /\ IsFiniteSet(S)
  BY FS_Subset DEF Picks
<1>2. {} \in G
  BY DEF Sums
<1>3. ASSUME NEW R \in SUBSET S, R # {}, R \ {pick[R]} \in G PROVE R \in G
  <2>1. pick[R] \in R /\ R \in SUBSET D
    BY <1>1, <1>3 DEF Picks
  <2>2. g[R] = f[pick[R]] + g[R \ {pick[R]}]
    BY <2>1 DEF Sums
  <2> QED
    BY <1>3, <2>1, <2>2
<1> HIDE DEF pick, G
<1>4. SUBSET S \subseteq G
  BY <1>1, <1>2, <1>3, SubsetInduction
<1> QED
  BY <1>4 DEF G

\* A sum of natural numbers is one, and no less than any of them.
LEMMA SumsNatural ==
  ASSUME NEW D, IsFiniteSet(D), NEW f \in [D -> Nat], NEW g \in [SUBSET D -> Int], Sums(g, f, D)
  PROVE  /\ \A S \in SUBSET D : g[S] \in Nat
         /\ \A x \in D : f[x] <= g[D]
<1> DEFINE
  pick == [R \in SUBSET D |-> CHOOSE x \in R : TRUE]
  G == {R \in SUBSET D : g[R] \in Nat}
<1>1. Picks(pick, D)
  BY DEF Picks
<1>2. {} \in G
  BY DEF Sums
<1>3. ASSUME NEW R \in SUBSET D, R # {}, R \ {pick[R]} \in G PROVE R \in G
  <2>1. pick[R] \in R
    BY <1>1, <1>3 DEF Picks
  <2>2. g[R] = f[pick[R]] + g[R \ {pick[R]}]
    BY <2>1 DEF Sums
  <2>3. f[pick[R]] \in Nat /\ g[R \ {pick[R]}] \in Nat
    BY <1>3, <2>1
  <2> QED
    BY <2>2, <2>3
<1> HIDE DEF pick, G
<1>4. SUBSET D \subseteq G
  BY <1>1, <1>2, <1>3, SubsetInduction
<1>5. \A S \in SUBSET D : g[S] \in Nat
  BY <1>4 DEF G
<1>6. ASSUME NEW x \in D PROVE f[x] <= g[D]
  <2>1. g[D] = f[x] + g[D \ {x}] /\ g[D \ {x}] \in Nat /\ f[x] \in Nat
    BY <1>5 DEF Sums
  <2> QED
    BY <2>1
<1> QED
  BY <1>5, <1>6

\* The sum of a function that is zero except at four places.
LEMMA TotalOfFour ==
  ASSUME NEW D, IsFiniteSet(D), NEW f \in [D -> Int],
         NEW a \in D, NEW b \in D, NEW c \in D, NEW d \in D,
         a \notin {b, c, d}, b \notin {c, d}, c # d,
         \A x \in D \ {a, b, c, d} : f[x] = 0
  PROVE  Total(f) = f[a] + f[b] + f[c] + f[d]
<1>1. PICK g \in [SUBSET D -> Int] : Sums(g, f, D) /\ Total(f) = g[D]
  BY TotalSums
<1> DEFINE
  A == D \ {a}
  B == A \ {b}
  C == B \ {c}
  R == C \ {d}
<1>2. /\ A \in SUBSET D /\ B \in SUBSET D /\ C \in SUBSET D /\ R \in SUBSET D
      /\ b \in A /\ c \in B /\ d \in C
      /\ \A x \in R : f[x] = 0
  OBVIOUS
<1>3. g[R] = 0
  BY <1>1, <1>2, SumsZero
<1> HIDE DEF R
<1>4. g[C] = f[d] + g[R]
  BY <1>1, <1>2 DEF Sums, R
<1> HIDE DEF C
<1>5. g[B] = f[c] + g[C]
  BY <1>1, <1>2 DEF Sums, C
<1> HIDE DEF B
<1>6. g[A] = f[b] + g[B]
  BY <1>1, <1>2 DEF Sums, B
<1> HIDE DEF A
<1>7. g[D] = f[a] + g[A]
  BY <1>1, <1>2 DEF Sums, A
<1>8. f[a] \in Int /\ f[b] \in Int /\ f[c] \in Int /\ f[d] \in Int
  OBVIOUS
<1> QED
  BY <1>1, <1>3, <1>4, <1>5, <1>6, <1>7, <1>8

-----------------------------------------------------------------------------
(***************************************************************************)
(* The parser of the channel ranges, token by token.                       *)
(***************************************************************************)
RangeType == [c1 : 0..(Word - 1), c2 : 0..(Word - 1)]
ReadType == [number : Int, ranges : Seq(RangeType) \ {<<>>}]
Start == [number |-> -1, ranges |-> <<NewRange>>]
Read(t) == FoldLeft(ReadToken, Start, t)

\* The conversion to an unsigned short gives 16 bits.
LEMMA U16Type ==
  ASSUME NEW n \in Int
  PROVE  U16(n) \in 0..(Word - 1)
BY TextAssumption DEF U16

\* The last range of the list may be replaced.
LEMMA LastChanged ==
  ASSUME NEW R \in Seq(RangeType), R # <<>>, NEW e \in RangeType
  PROVE  [R EXCEPT ![Len(R)] = e] \in Seq(RangeType) \ {<<>>}
<1>1. Len(R) \in 1..Len(R)
  BY EmptySeq, LenProperties
<1> QED
  BY <1>1, ExceptSeq, EmptySeq

\* A bound of the last range may be replaced.
LEMMA LastType ==
  ASSUME NEW R \in Seq(RangeType), R # <<>>, NEW n \in 0..(Word - 1)
  PROVE  /\ [R[Len(R)] EXCEPT !.c1 = n] \in RangeType
         /\ [R[Len(R)] EXCEPT !.c2 = n] \in RangeType
<1>1. R[Len(R)] \in RangeType
  BY EmptySeq, ElementOfSeq, LenProperties
<1> QED
  BY <1>1 DEF RangeType

\* Closing the last range keeps the state of the parser well typed.
LEMMA CloseType ==
  ASSUME NEW s \in ReadType
  PROVE  CloseRange(s) \in ReadType
<1>1. /\ s.ranges \in Seq(RangeType) /\ s.ranges # <<>>
      /\ s.number \in Int
  BY DEF ReadType
<1>2. [s.ranges[Len(s.ranges)] EXCEPT !.c2 = U16(s.number)] \in RangeType
  BY <1>1, U16Type, LastType
<1>3. [s.ranges EXCEPT ![Len(s.ranges)] = [s.ranges[Len(s.ranges)] EXCEPT !.c2 = U16(s.number)]]
        \in Seq(RangeType) \ {<<>>}
  BY <1>1, <1>2, LastChanged
<1> QED
  BY <1>3 DEF CloseRange, ReadType

(***************************************************************************)
(* Any token, also one the text should not have there, keeps the state of  *)
(* the parser well typed.                                                  *)
(***************************************************************************)
LEMMA ReadTokenType ==
  ASSUME NEW s \in ReadType, NEW t \in Int
  PROVE  ReadToken(s, t) \in ReadType
<1>1. CASE t = Comma
  <2>1. NewRange \in RangeType
    BY TextAssumption DEF NewRange, RangeType
  <2>2. CloseRange(s).ranges \in Seq(RangeType) \ {<<>>}
    BY CloseType DEF ReadType
  <2>3. Append(CloseRange(s).ranges, NewRange) \in Seq(RangeType) \ {<<>>}
    BY <2>1, <2>2
  <2>4. [CloseRange(s) EXCEPT !.ranges = Append(CloseRange(s).ranges, NewRange)] \in ReadType
    BY <2>3, CloseType DEF ReadType
  <2> QED
    BY <1>1, <2>4 DEF ReadToken
<1>2. CASE t = Dash
  <2>1. /\ s.ranges \in Seq(RangeType) /\ s.ranges # <<>>
        /\ s.number \in Int
    BY DEF ReadType
  <2>2. [s.ranges[Len(s.ranges)] EXCEPT !.c1 = U16(s.number)] \in RangeType
    BY <2>1, U16Type, LastType
  <2>3. [s.ranges EXCEPT ![Len(s.ranges)] = [s.ranges[Len(s.ranges)] EXCEPT !.c1 = U16(s.number)]]
          \in Seq(RangeType) \ {<<>>}
    BY <2>1, <2>2, LastChanged
  <2>4. [s EXCEPT !.ranges[Len(s.ranges)].c1 = U16(s.number)] \in ReadType
    BY <2>3 DEF ReadType
  <2> QED
    BY <1>2, <2>4 DEF ReadToken, Comma, Dash
<1>3. CASE t # Comma /\ t # Dash
  BY <1>3 DEF ReadToken, ReadType
<1> QED
  BY <1>1, <1>2, <1>3

\* The fold of the parser is a sequence of states, one token apart.
LEMMA ReadInSteps ==
  ASSUME NEW t \in Seq(Int)
  PROVE  \E r \in [0..Len(t) -> ReadType] :
           /\ r[0] = Start
           /\ \A n \in 1..Len(t) : r[n] = ReadToken(r[n - 1], t[n])
           /\ Read(t) = r[Len(t)]
<1> DEFINE
  D == DOMAIN t
  pick == [S \in SUBSET D |-> Max(S)]
  step == [n \in D |-> [s \in ReadType |-> ReadToken(s, t[n])]]
  Tokens(g) == [S \in SUBSET D |->
                IF S = {} THEN Start ELSE LET x == Max(S) IN ReadToken(g[S \ {x}], t[x])]
  iter == CHOOSE g : g = Tokens(g)
<1>1. Read(t) = iter[D]
  BY Zenon DEF Read, FoldLeft, MapThenFoldSet
<1>2. D = 1..Len(t) /\ IsFiniteSet(D) /\ Len(t) \in Nat
  BY LenProperties, FS_Interval
<1>3. Picks(pick, D)
  BY <1>2, GreatestExists DEF Picks
<1>4. Start \in ReadType
  BY TextAssumption DEF Start, ReadType, RangeType, NewRange
<1>5. step \in [D -> [ReadType -> ReadType]]
  BY <1>2, ReadTokenType, ElementOfSeq
<1> HIDE DEF D, pick, step
<1>6. PICK g \in [SUBSET D -> ReadType] : Recurs(g, D, pick, Start, step)
  BY <1>2, <1>3, <1>4, <1>5, RecursionExists
<1>7. \A S \in SUBSET D : S # {} => /\ Max(S) \in D
                                    /\ S \ {Max(S)} \in SUBSET D
                                    /\ g[S] = ReadToken(g[S \ {Max(S)}], t[Max(S)])
  BY <1>3, <1>4, <1>5, <1>6 DEF Picks, pick, step, Recurs
<1>8. g = Tokens(g)
  BY <1>6, <1>7 DEF Recurs
<1>9. iter = Tokens(iter)
  BY <1>8
<1>10. \A S \in SUBSET D : g[S] = iter[S]
  <2>1. g[{}] = iter[{}]
    BY <1>6, <1>9 DEF Recurs
  <2>2. ASSUME NEW S \in SUBSET D, S # {}, g[S \ {pick[S]}] = iter[S \ {pick[S]}]
        PROVE  g[S] = iter[S]
    BY <1>7, <1>9, <2>2 DEF pick
  <2>3. InStep(g, iter, D, pick)
    BY <2>1, <2>2 DEF InStep
  <2>4. IsFiniteSet(D)
    BY <1>2
  <2> HIDE DEF iter, Tokens
  <2>5. \A h : InStep(g, h, D, pick) => \A S \in SUBSET D : g[S] = h[S]
    BY <1>3, <2>4, RecursionUnique
  <2> QED
    BY <2>3, <2>5
<1> DEFINE r == [n \in 0..Len(t) |-> g[1..n]]
<1>11. \A n \in 0..Len(t) : 1..n \in SUBSET D
  BY <1>2
<1>12. r \in [0..Len(t) -> ReadType] /\ r[0] = Start /\ r[Len(t)] = g[D]
  BY <1>2, <1>6, <1>11 DEF Recurs
<1>13. ASSUME NEW n \in 1..Len(t) PROVE r[n] = ReadToken(r[n - 1], t[n])
  <2>1. 1..n \in SUBSET D /\ 1..n # {} /\ n \in 1..n /\ \A k \in 1..n : k <= n
    BY <1>2, <1>11
  <2>2. Max(1..n) = n
    BY <2>1 DEF Max
  <2>3. (1..n) \ {n} = 1..(n - 1)
    BY <1>2
  <2>4. r[n] = g[1..n] /\ r[n - 1] = g[1..(n - 1)]
    BY <1>2
  <2>5. g[1..n] = ReadToken(g[(1..n) \ {n}], t[n])
    BY <1>7, <2>1, <2>2
  <2> QED
    BY <2>3, <2>4, <2>5
<1> HIDE DEF r
<1> QED
  BY <1>1, <1>2, <1>10, <1>12, <1>13

(***************************************************************************)
(* Whatever the text is, the parser gives at least one range of 16-bit     *)
(* numbers.                                                                *)
(***************************************************************************)
LEMMA ParsedType ==
  ASSUME NEW t \in Seq(Int)
  PROVE  Parsed(t) \in Seq(RangeType) \ {<<>>}
<1>1. PICK r \in [0..Len(t) -> ReadType] : Read(t) = r[Len(t)]
  BY ReadInSteps
<1>2. Read(t) \in ReadType
  BY <1>1, LenProperties
<1>3. CloseRange(Read(t)) \in ReadType
  BY <1>2, CloseType
<1>4. Parsed(t) = CloseRange(Read(t)).ranges
  BY DEF Parsed, Read, Start
<1> QED
  BY <1>3, <1>4 DEF ReadType

-----------------------------------------------------------------------------
(***************************************************************************)
(* Division with remainder, and the layouts that are built with it.        *)
(***************************************************************************)
LEMMA DivMod ==
  ASSUME NEW a \in Int, NEW b \in Nat \ {0}
  PROVE  /\ a \div b \in Int
         /\ a % b \in 0..(b - 1)
         /\ a = (a \div b) * b + (a % b)
BY Z3T(30)

\* A number has only one quotient and one remainder.
LEMMA QuotientUnique ==
  ASSUME NEW b \in Nat \ {0}, NEW q \in Int, NEW r \in 0..(b - 1),
         NEW p \in Int, NEW s \in 0..(b - 1), q * b + r = p * b + s
  PROVE  q = p /\ r = s
<1>1. ASSUME NEW x \in Int, NEW y \in Int, x < y PROVE x * b + b <= y * b
  <2>1. (y - x) * b >= b
    BY <1>1, Z3T(30)
  <2>2. (y - x) * b = y * b - x * b
    BY Z3T(30)
  <2>3. y * b \in Int /\ x * b \in Int
    OBVIOUS
  <2> QED
    BY <2>1, <2>2, <2>3
<1>2. q * b \in Int /\ p * b \in Int
  OBVIOUS
<1>3. ~(q < p)
  <2> SUFFICES ASSUME q < p PROVE FALSE
    OBVIOUS
  <2>1. q * b + b <= p * b
    BY <1>1
  <2> QED
    BY <1>2, <2>1
<1>4. ~(p < q)
  <2> SUFFICES ASSUME p < q PROVE FALSE
    OBVIOUS
  <2>1. p * b + b <= q * b
    BY <1>1
  <2> QED
    BY <1>2, <2>1
<1>5. q = p
  BY <1>3, <1>4
<1> QED
  BY <1>2, <1>5

\* What was packed as a quotient and a remainder is unpacked by division.
LEMMA DivOf ==
  ASSUME NEW b \in Nat \ {0}, NEW q \in Int, NEW r \in 0..(b - 1)
  PROVE  (q * b + r) \div b = q /\ (q * b + r) % b = r
<1> DEFINE
  a == q * b + r
  p == a \div b
  s == a % b
<1>1. a \in Int
  OBVIOUS
<1> HIDE DEF a
<1>2. p \in Int /\ s \in 0..(b - 1) /\ a = p * b + s
  BY <1>1, DivMod
<1> HIDE DEF p, s
<1>3. q = p /\ r = s
  BY <1>2, QuotientUnique DEF a
<1> QED
  BY <1>3 DEF a, p, s

(***************************************************************************)
(* The number of baselines, which the code halves, loses nothing to the    *)
(* rounding.                                                               *)
(***************************************************************************)
LEMMA BaselinesCounted ==
  /\ NumBaselines \in Nat \ {0}
  /\ 2 * NumBaselines = NumAntennas * (NumAntennas + 1)
<1> DEFINE t == NumAntennas * (NumAntennas + 1)
<1>1. t \in Nat /\ t >= 2
  BY VisibilitiesAssumption, Z3T(30)
<1>2. t % 2 = 0
  <2>1. \A n \in Nat : (n * (n + 1)) % 2 = 0
    OBVIOUS
  <2> QED
    BY <2>1, VisibilitiesAssumption
<1> HIDE DEF t
<1>3. t \div 2 \in Nat /\ 2 * (t \div 2) = t
  BY <1>1, <1>2
<1> QED
  BY <1>1, <1>3 DEF t, NumBaselines

\* Places of an array of n rows of M.
LEMMA Packed ==
  ASSUME NEW n \in Nat, NEW M \in Nat, NEW b \in 0..(n - 1), NEW m \in 0..(M - 1)
  PROVE  b * M + m \in 0..(n * M - 1)
<1>1. (n - b) * M >= M
  BY Z3T(30)
<1>2. (n - b) * M = n * M - b * M
  BY Z3T(30)
<1>3. b * M \in Int /\ n * M \in Int /\ b * M >= 0
  BY Z3T(30)
<1> QED
  BY <1>1, <1>2, <1>3

(***************************************************************************)
(* The place of a visibility in a chunk gives its polarization, baseline   *)
(* and channel back.                                                       *)
(***************************************************************************)
LEMMA CellUnpacked ==
  ASSUME NEW M \in Nat \ {0}, NEW p \in Pols, NEW b \in Baselines, NEW m \in 0..(M - 1)
  PROVE  /\ Cell(p, m, b, M) \in 0..(2 * NumBaselines * M - 1)
         /\ Cell(p, m, b, M) \div (NumBaselines * M) = p
         /\ Cell(p, m, b, M) % M = m
         /\ (Cell(p, m, b, M) \div M) % NumBaselines = b
<1> DEFINE B == NumBaselines
<1>1. B \in Nat \ {0} /\ b \in 0..(B - 1) /\ p \in 0..1
  BY BaselinesCounted DEF Baselines, Pols
<1> HIDE DEF B
<1>2. B * M \in Nat \ {0}
  BY <1>1, Z3T(30)
<1>3. p * B + b \in 0..(2 * B - 1)
  BY <1>1
<1>4. b * M + m \in 0..(B * M - 1)
  BY <1>1, Packed
<1>5. p * (B * M) + (b * M + m) \in 0..(2 * (B * M) - 1)
  BY <1>1, <1>2, <1>4
<1>6. /\ Cell(p, m, b, M) = p * (B * M) + (b * M + m)
      /\ Cell(p, m, b, M) = (p * B + b) * M + m
      /\ 2 * (B * M) = 2 * B * M
  BY <1>1, Z3T(30) DEF Cell, B
<1>7. p \in Int /\ p * B + b \in Int
  BY <1>1, <1>3
<1>8. Cell(p, m, b, M) \div (B * M) = p
  <2>1. (p * (B * M) + (b * M + m)) \div (B * M) = p
    BY <1>2, <1>4, <1>7, DivOf, Zenon
  <2> QED
    BY <1>6, <2>1, Zenon
<1>9. Cell(p, m, b, M) \div M = p * B + b /\ Cell(p, m, b, M) % M = m
  <2>1. ((p * B + b) * M + m) \div M = p * B + b /\ ((p * B + b) * M + m) % M = m
    BY <1>7, DivOf, Zenon
  <2> QED
    BY <1>6, <2>1, Zenon
<1>10. (p * B + b) % B = b
  BY <1>1, DivOf
<1> QED
  BY <1>5, <1>6, <1>8, <1>9, <1>10 DEF B

\* Where the emulator puts a visibility, and what it is.
Wanted(first, p, c, b) == [row |-> first + b, channel |-> c, pol |-> p]

(***************************************************************************)
(* The place of a visibility in a packet gives its baseline, channel and   *)
(* polarization back.                                                      *)
(***************************************************************************)
LEMMA IndexUnpacked ==
  ASSUME channels \in Nat \ {0},
         NEW p \in Pols, NEW c \in 0..(channels - 1), NEW b \in Baselines
  PROVE  /\ Index(p, c, b) \in 0..(2 * channels * NumBaselines - 1)
         /\ Index(p, c, b) \div (2 * channels) = b
         /\ (Index(p, c, b) \div 2) % channels = c
         /\ Index(p, c, b) % 2 = p
<1> DEFINE
  B == NumBaselines
  n == channels
<1>1. B \in Nat \ {0} /\ b \in 0..(B - 1) /\ p \in 0..1 /\ n \in Nat \ {0} /\ c \in 0..(n - 1)
  BY BaselinesCounted DEF Baselines, Pols
<1> HIDE DEF B, n
<1>2. 2 * c + p \in 0..(2 * n - 1) /\ 2 * n \in Nat \ {0}
  BY <1>1
<1>3. b * (2 * n) + (2 * c + p) \in 0..(B * (2 * n) - 1)
  BY <1>1, <1>2, Packed
<1>4. /\ Index(p, c, b) = b * (2 * n) + (2 * c + p)
      /\ Index(p, c, b) = (b * n + c) * 2 + p
      /\ B * (2 * n) = 2 * n * B
  BY <1>1, Z3T(30) DEF Index, n
<1>5. b \in Int /\ p \in Int /\ b * n + c \in Int /\ 2 \in Nat \ {0} /\ p \in 0..(2 - 1)
  BY <1>1
<1>6. Index(p, c, b) \div (2 * n) = b
  <2>1. (b * (2 * n) + (2 * c + p)) \div (2 * n) = b
    <3> DEFINE w == 2 * n
               r == 2 * c + p
    <3>1. w \in Nat \ {0} /\ r \in 0..(w - 1) /\ b \in Int
      BY <1>2, <1>5
    <3> HIDE DEF w, r
    <3>2. (b * w + r) \div w = b
      BY <3>1, DivOf, Zenon
    <3> QED
      BY <3>2 DEF w, r
  <2> QED
    BY <1>4, <2>1, Zenon
<1>7. Index(p, c, b) \div 2 = b * n + c /\ Index(p, c, b) % 2 = p
  <2>1. ((b * n + c) * 2 + p) \div 2 = b * n + c /\ ((b * n + c) * 2 + p) % 2 = p
    BY <1>5, DivOf, Zenon
  <2> QED
    BY <1>4, <2>1, Zenon
<1>8. (b * n + c) % n = c
  BY <1>1, <1>5, DivOf
<1> QED
  BY <1>3, <1>4, <1>6, <1>7, <1>8 DEF B, n

(***************************************************************************)
(* A packet has the visibility of a baseline and channel at its place if   *)
(* and only if the channel is one of the stream: beside it the place is    *)
(* another one's, or nobody's.                                             *)
(***************************************************************************)
LEMMA LoadedAt ==
  ASSUME channels \in Nat \ {0}, NEW first \in Int, packet = Loaded(first),
         NEW p \in Pols, NEW c \in Int, NEW b \in Baselines
  PROVE  Visibility(p, c, b) = Wanted(first, p, c, b) <=> c \in 0..(channels - 1)
<1> DEFINE
  k == Index(p, c, b)
  D == 0..(2 * channels * NumBaselines - 1)
<1>1. DOMAIN packet = D
  BY DEF Loaded
<1>2. k \in D =>
        packet[k] = [row |-> first + k \div (2 * channels), channel |-> (k \div 2) % channels, pol |-> k % 2]
  BY DEF Loaded
<1>3. CASE c \in 0..(channels - 1)
  <2>1. /\ k \in D /\ k \div (2 * channels) = b
        /\ (k \div 2) % channels = c /\ k % 2 = p
    BY <1>3, IndexUnpacked
  <2> HIDE DEF k, D
  <2>2. packet[k] = Wanted(first, p, c, b)
    BY <1>2, <2>1 DEF Wanted
  <2>3. Visibility(p, c, b) = packet[k]
    BY <1>1, <2>1 DEF Visibility, k
  <2> QED
    BY <1>3, <2>2, <2>3
<1>4. CASE c \notin 0..(channels - 1)
  <2>1. CASE k \in D
    <3>1. k \div 2 \in Int
      BY <2>1, BaselinesCounted, DivMod
    <3>2. (k \div 2) % channels \in 0..(channels - 1)
      BY <3>1, DivMod
    <3> HIDE DEF k, D
    <3>3. packet[k].channel # c
      BY <1>2, <1>4, <2>1, <3>2
    <3>4. Visibility(p, c, b) = packet[k]
      BY <1>1, <2>1 DEF Visibility, k
    <3> QED
      BY <1>4, <3>3, <3>4 DEF Wanted
  <2>2. CASE k \notin D
    <3>1. Visibility(p, c, b) = Outside
      BY <1>1, <2>2 DEF Visibility
    <3>2. Outside.pol # Wanted(first, p, c, b).pol
      BY DEF Outside, Wanted, Pols
    <3> QED
      BY <1>4, <3>1, <3>2
  <2> QED
    BY <2>1, <2>2
<1> QED
  BY <1>3, <1>4

-----------------------------------------------------------------------------
(***************************************************************************)
(* The invariant of the path: what every stage finds.                      *)
(***************************************************************************)
Configurable ==
  stage = "text" =>
    /\ text \in Texts /\ channels \in StreamSizes
    /\ row = 0 /\ packet = None

Serving ==
  stage = "serving" =>
    /\ text \in Texts /\ channels \in StreamSizes
    /\ Accepted(Parsed(text)) /\ ranges \in Arrangements(Parsed(text))
    /\ row \in Nat
    /\ packet # None => packet = Loaded(row - NumBaselines) /\ row - NumBaselines \in Nat

\* The range of a chunk, and where its packet begins.
Headed ==
  /\ channels \in StreamSizes
  /\ row \in Nat /\ row - NumBaselines \in Nat
  /\ chunk.c1 \in Nat /\ chunk.c2 \in Nat /\ chunk.c1 <= chunk.c2

\* The visibility that belongs to a place, which is there if the stream has it.
Sought(p, b, m) == Wanted(row - NumBaselines, p, chunk.c1 - Realtime + m, b)
Sent(m) == chunk.c1 - Realtime + m \in 0..(channels - 1)

Cut ==
  stage = "chunk" =>
    /\ Headed
    /\ \A p \in Pols, b \in Baselines : \A m \in 0..(Width(chunk) - 1) :
         chunk.body[Cell(p, m, b, Width(chunk))] = Sought(p, b, m) <=> Sent(m)

Deserialised ==
  stage \in {"blob", "clip", "mean"} =>
    /\ Headed
    /\ \A p \in Pols, b \in Baselines : \A m \in 0..(Width(chunk) - 1) :
         raw[p][b][m] = Sought(p, b, m) <=> Sent(m)

Averaged ==
  stage \in {"clip", "mean", "matrix"} =>
    /\ Headed
    /\ pol \in Pols /\ column \in -1..(NumBaselines - 1)
    /\ DOMAIN result = Baselines
    /\ InStream(chunk) =>
         \A b \in Baselines : result[b] \subseteq {[row |-> row - NumBaselines + b, pol |-> pol]}

Measured ==
  stage = "mean" =>
    /\ column \in Baselines
    /\ magnitude \in [0..(Width(chunk) - 1) -> 0..MaxMagnitude]

Correlated ==
  stage = "matrix" => matrix = [pair \in Pairs |-> BaselineOf(pair[1], pair[2])]

PathInv == Configurable /\ Serving /\ Cut /\ Deserialised /\ Averaged /\ Measured /\ Correlated

\* A stream has a channel, and is real time or not.
LEMMA StreamSize ==
  ASSUME channels \in StreamSizes
  PROVE  channels \in Nat \ {0} /\ Realtime \in 0..1
BY VisibilitiesAssumption DEF Realtime

\* The invariant holds at first.
LEMMA PathBegins == PathInit => PathInv
BY DEF PathInit, PathInv, Configurable, Serving, Cut, Deserialised, Averaged, Measured, Correlated

\* The invariant is about the variables of the path only.
LEMMA PathStops ==
  ASSUME PathInv, UNCHANGED pathVars
  PROVE  PathInv'
<1> USE DEF pathVars, serverVars, flaggerVars
<1>1. Configurable' /\ Serving'
  BY DEF PathInv, Configurable, Serving, Loaded
<1>2. Headed' = Headed
  BY DEF Headed
<1>3. \A p, b, m : Sought(p, b, m)' = Sought(p, b, m) /\ Sent(m)' = Sent(m)
  BY DEF Sought, Sent, Realtime
<1>4. Cut' /\ Deserialised'
  BY <1>2, <1>3 DEF PathInv, Cut, Deserialised
<1>5. Averaged' /\ Measured' /\ Correlated'
  BY <1>2 DEF PathInv, Averaged, Measured, Correlated, InStream, Realtime
<1> QED
  BY <1>1, <1>4, <1>5 DEF PathInv

\* A sorted list has the ranges of the parsed one, each once.
LEMMA ArrangedFrom ==
  ASSUME NEW t \in Texts, NEW s \in Arrangements(Parsed(t))
  PROVE  \E I \in [DOMAIN Parsed(t) -> DOMAIN Parsed(t)] :
           IsInjective(I) /\ s = [i \in DOMAIN Parsed(t) |-> Parsed(t)[I[i]]]
BY DEF Arrangements

(***************************************************************************)
(* The ranges that were accepted ascend and fit into a chunk of the        *)
(* largest size.                                                           *)
(***************************************************************************)
LEMMA RangesTyped ==
  ASSUME NEW t \in Texts, Accepted(Parsed(t)), NEW s \in Arrangements(Parsed(t)),
         NEW i \in DOMAIN s
  PROVE  /\ s[i] \in RangeType /\ s[i].c1 <= s[i].c2
         /\ Channels(s[i]) <= MaxMergeChannels
<1>1. PICK I \in [DOMAIN Parsed(t) -> DOMAIN Parsed(t)] :
        s = [k \in DOMAIN Parsed(t) |-> Parsed(t)[I[k]]]
  BY ArrangedFrom
<1>2. Parsed(t) \in Seq(RangeType)
  BY ParsedType, VisibilitiesAssumption
<1>3. I[i] \in DOMAIN Parsed(t) /\ s[i] = Parsed(t)[I[i]]
  BY <1>1
<1>4. Parsed(t)[I[i]] \in RangeType
  BY <1>2, <1>3, LenProperties, ElementOfSeq
<1> QED
  BY <1>3, <1>4 DEF Accepted

(***************************************************************************)
(* The server: the configuration, the packets and the cut (StreamChunker.  *)
(* cpp:112-132, 143-199; StreamEmulator.cpp:78-98).                        *)
(***************************************************************************)
LEMMA ConfigureStep ==
  ASSUME PathInv, Configure
  PROVE  PathInv'
BY DEF Configure, PathInv, Configurable, Serving, Cut, Deserialised, Averaged, Measured, Correlated

(***************************************************************************)
(* Sending a packet advances the row by one packet and loads the rows      *)
(* before it.                                                              *)
(***************************************************************************)
LEMMA SendStep ==
  ASSUME PathInv, Send
  PROVE  PathInv'
<1>1. row \in Nat /\ NumBaselines \in Nat
  BY BaselinesCounted DEF PathInv, Serving, Send
<1>2. row' \in Nat /\ row' - NumBaselines = row
  BY <1>1 DEF Send
<1>3. packet' = Loaded(row - NumBaselines)'
  BY <1>2 DEF Send, Loaded
<1>4. Serving'
  BY <1>1, <1>2, <1>3 DEF Send, PathInv, Serving
<1> QED
  BY <1>4 DEF Send, PathInv, Configurable, Cut, Deserialised, Averaged, Measured, Correlated

\* Serving a range cuts from the packet the visibilities of its channels.
LEMMA ServeStep ==
  ASSUME PathInv, NEW i \in DOMAIN ranges, Serve(ranges[i])
  PROVE  PathInv'
<1> DEFINE
  r == ranges[i]
  W == Width(r)
<1>1. /\ text \in Texts /\ channels \in StreamSizes
      /\ packet = Loaded(row - NumBaselines) /\ row \in Nat /\ row - NumBaselines \in Nat
      /\ r \in RangeType /\ r.c1 <= r.c2
  BY RangesTyped DEF PathInv, Serving, Serve
<1>2. r.c1 \in Nat /\ r.c2 \in Nat /\ W \in Nat \ {0} /\ W = r.c2 - r.c1 + 1
  BY <1>1, TextAssumption DEF RangeType, Width
<1>3. stage' \in {"chunk", "overrun"}
  BY DEF Serve
<1>4. CASE stage' = "overrun"
  BY <1>4 DEF PathInv, Configurable, Serving, Cut, Deserialised, Averaged, Measured, Correlated
<1>5. CASE stage' = "chunk"
  <2>1. /\ chunk' = [c1 |-> r.c1, c2 |-> r.c2, body |-> Body(r)]
        /\ UNCHANGED <<channels, row>>
    BY <1>5 DEF Serve
  <2>2. Headed'
    BY <1>1, <1>2, <2>1 DEF Headed
  <2>3. Width(chunk)' = W /\ chunk'.body = Body(r)
    BY <2>1 DEF Width
  <2>4. ASSUME NEW p \in Pols, NEW b \in Baselines, NEW m \in 0..(W - 1)
        PROVE  Body(r)[Cell(p, m, b, W)] = Sought(p, b, m)' <=> Sent(m)'
    <3> DEFINE
      k == Cell(p, m, b, W)
      c == r.c1 - Realtime + m
    <3>1. /\ k \in 0..(2 * NumBaselines * W - 1) /\ k \div (NumBaselines * W) = p
          /\ k % W = m /\ (k \div W) % NumBaselines = b
      BY <1>2, CellUnpacked
    <3> HIDE DEF k
    <3>2. Body(r)[k] = Visibility(p, c, b)
      BY <3>1 DEF Body
    <3>3. c \in Int /\ channels \in Nat \ {0} /\ row - NumBaselines \in Int
      BY <1>1, <1>2, StreamSize
    <3>4. Sought(p, b, m)' = Wanted(row - NumBaselines, p, c, b)
      BY <2>1 DEF Sought, Wanted, Realtime
    <3>5. Sent(m)' <=> c \in 0..(channels - 1)
      BY <2>1 DEF Sent, Realtime
    <3> HIDE DEF c
    <3>6. Visibility(p, c, b) = Wanted(row - NumBaselines, p, c, b) <=> c \in 0..(channels - 1)
      BY <1>1, <3>3, LoadedAt
    <3> QED
      BY <3>2, <3>4, <3>5, <3>6 DEF k
  <2>5. Cut'
    BY <2>2, <2>3, <2>4 DEF Cut
  <2> QED
    BY <1>5, <2>5 DEF PathInv, Configurable, Serving, Deserialised, Averaged, Measured, Correlated
<1> QED
  BY <1>3, <1>4, <1>5

(***************************************************************************)
(* The pipeline: the blob and the Flagger (StreamAdapter.cpp:16-36,        *)
(* Flagger.cpp:70-165).                                                    *)
(***************************************************************************)
LEMMA DeserialiseStep ==
  ASSUME PathInv, Deserialise
  PROVE  PathInv'
<1> DEFINE W == Width(chunk)
<1>1. /\ Headed
      /\ \A p \in Pols, b \in Baselines : \A m \in 0..(W - 1) :
           chunk.body[Cell(p, m, b, W)] = Sought(p, b, m) <=> Sent(m)
      /\ UNCHANGED <<channels, row>>
  BY DEF PathInv, Cut, Deserialise, serverVars
<1>2. chunk' = [chunk EXCEPT !.body = None]
  BY DEF Deserialise
<1>3. chunk'.c1 = chunk.c1 /\ chunk'.c2 = chunk.c2
  BY <1>2
<1>4. Headed' /\ Width(chunk)' = W
  BY <1>1, <1>3 DEF Headed, Width
<1>5. \A p, b, m : Sought(p, b, m)' = Sought(p, b, m) /\ Sent(m)' = Sent(m)
  BY <1>1, <1>3 DEF Sought, Sent, Realtime
<1>6. \A p \in Pols, b \in Baselines : \A m \in 0..(W - 1) :
        raw'[p][b][m] = chunk.body[Cell(p, m, b, W)]
  BY DEF Deserialise
<1>7. stage' = "blob"
  BY DEF Deserialise
<1> HIDE DEF W
<1>8. Deserialised'
  BY <1>1, <1>4, <1>5, <1>6 DEF Deserialised
<1> QED
  BY <1>7, <1>8 DEF PathInv, Configurable, Serving, Cut, Averaged, Measured, Correlated

\* What the Flagger leaves alone keeps its meaning.
LEMMA HeadKept ==
  ASSUME UNCHANGED <<channels, row, chunk>>
  PROVE  /\ Headed' = Headed /\ Width(chunk)' = Width(chunk) /\ InStream(chunk)' = InStream(chunk)
         /\ \A p, b, m : Sought(p, b, m)' = Sought(p, b, m) /\ Sent(m)' = Sent(m)
BY DEF Headed, Width, InStream, Sought, Sent, Realtime

\* Flagging begins before the first baseline with nothing averaged.
LEMMA FlagStep ==
  ASSUME PathInv, NEW p \in Pols, Flag(p)
  PROVE  PathInv'
<1>1. UNCHANGED <<channels, row, chunk, raw>> /\ stage = "blob" /\ stage' = "clip"
  BY DEF Flag, serverVars
<1>2. Deserialised'
  BY <1>1, HeadKept DEF PathInv, Deserialised
<1>3. Averaged'
  BY <1>1, HeadKept, BaselinesCounted DEF PathInv, Deserialised, Averaged, Flag
<1> QED
  BY <1>1, <1>2, <1>3 DEF PathInv, Configurable, Serving, Cut, Measured, Correlated

\* Clipping takes the next baseline.
LEMMA ClipStep ==
  ASSUME PathInv, NEW s \in [0..(Width(chunk) - 1) -> 0..MaxMagnitude], Clip(s)
  PROVE  PathInv'
<1>1. UNCHANGED <<channels, row, chunk, raw, pol, result>> /\ stage = "clip" /\ stage' = "mean"
  BY DEF Clip, serverVars
<1>2. Deserialised'
  BY <1>1, HeadKept DEF PathInv, Deserialised
<1>3. Averaged'
  BY <1>1, HeadKept, BaselinesCounted DEF PathInv, Averaged, Clip, Baselines
<1>4. Measured'
  BY <1>1, HeadKept DEF Measured, Clip
<1> QED
  BY <1>1, <1>2, <1>3, <1>4 DEF PathInv, Configurable, Serving, Cut, Correlated

\* A range lies in the stream if and only if each of its channels was sent.
LEMMA AllSent ==
  ASSUME Headed
  PROVE  InStream(chunk) <=> \A m \in 0..(Width(chunk) - 1) : Sent(m)
<1>1. /\ channels \in Nat \ {0} /\ Realtime \in 0..1
      /\ chunk.c1 \in Nat /\ chunk.c2 \in Nat /\ chunk.c1 <= chunk.c2
  BY StreamSize DEF Headed
<1>2. Width(chunk) = chunk.c2 - chunk.c1 + 1 /\ 0 \in 0..(Width(chunk) - 1)
  BY <1>1 DEF Width
<1>3. ASSUME InStream(chunk), NEW m \in 0..(Width(chunk) - 1) PROVE Sent(m)
  BY <1>1, <1>2, <1>3 DEF InStream, Sent
<1>4. ASSUME \A m \in 0..(Width(chunk) - 1) : Sent(m) PROVE InStream(chunk)
  <2>1. Sent(0) /\ Sent(Width(chunk) - 1)
    BY <1>1, <1>2, <1>4
  <2> QED
    BY <1>1, <1>2, <2>1 DEF InStream, Sent
<1> QED
  BY <1>3, <1>4

\* Averaging adds only visibilities of the packet and the polarization.
LEMMA AverageStep ==
  ASSUME PathInv, Average
  PROVE  PathInv'
<1>1. UNCHANGED <<channels, row, chunk, raw, pol, column>> /\ stage = "mean" /\ stage' = "clip"
  BY DEF Average, serverVars
<1>2. Deserialised'
  BY <1>1, HeadKept DEF PathInv, Deserialised
<1>3. /\ Headed /\ pol \in Pols /\ column \in Baselines /\ DOMAIN result = Baselines
      /\ magnitude \in [0..(Width(chunk) - 1) -> 0..MaxMagnitude]
  BY <1>1 DEF PathInv, Averaged, Measured
<1> DEFINE R == {[row |-> v.row, pol |-> v.pol] : v \in {raw[pol][column][m] : m \in Kept(magnitude)}}
<1>4. result' = [result EXCEPT ![column] = R]
  BY DEF Average
<1>5. ASSUME InStream(chunk)
      PROVE  R \subseteq {[row |-> row - NumBaselines + column, pol |-> pol]}
  <2>1. Kept(magnitude) \subseteq 0..(Width(chunk) - 1)
    BY <1>3 DEF Kept
  <2>2. \A m \in 0..(Width(chunk) - 1) : raw[pol][column][m] = Sought(pol, column, m)
    BY <1>1, <1>3, <1>5, AllSent DEF PathInv, Deserialised
  <2>3. ASSUME NEW m \in Kept(magnitude)
        PROVE  /\ raw[pol][column][m].row = row - NumBaselines + column
               /\ raw[pol][column][m].pol = pol
    <3>1. raw[pol][column][m] = Sought(pol, column, m)
      BY <2>1, <2>2
    <3> QED
      BY <3>1 DEF Sought, Wanted
  <2> QED
    BY <2>3
<1> HIDE DEF R
<1>6. Averaged'
  BY <1>1, <1>3, <1>4, <1>5, HeadKept DEF PathInv, Averaged
<1> QED
  BY <1>1, <1>2, <1>6 DEF PathInv, Configurable, Serving, Cut, Measured, Correlated

\* Correlating gives every pair of antennas its baseline.
LEMMA CorrelateStep ==
  ASSUME PathInv, Correlate
  PROVE  PathInv'
<1>1. UNCHANGED <<channels, row, chunk, pol, column, result>> /\ stage = "clip" /\ stage' = "matrix"
  BY DEF Correlate, serverVars
<1>2. Averaged'
  BY <1>1, HeadKept DEF PathInv, Averaged
<1>3. Correlated'
  BY DEF Correlate, Correlated
<1> QED
  BY <1>1, <1>2, <1>3 DEF PathInv, Configurable, Serving, Cut, Deserialised, Measured

\* Every step of the path keeps the invariant.
LEMMA PathGoesOn ==
  ASSUME PathInv, PathNext
  PROVE  PathInv'
BY ConfigureStep, SendStep, ServeStep, DeserialiseStep, FlagStep, ClipStep, AverageStep,
   CorrelateStep DEF PathNext

(***************************************************************************)
(* A blob has the visibility that belongs to a place, if and only if the   *)
(* range lies in the stream.                                               *)
(***************************************************************************)
LEMMA PlacedByStages == PathInv => RawPlaced
<1> SUFFICES ASSUME PathInv, stage = "blob"
             PROVE  InStream(chunk) <=>
                      \A p \in Pols, b \in Baselines : \A m \in 0..(Width(chunk) - 1) :
                        raw[p][b][m] = [row |-> row - NumBaselines + b,
                                        channel |-> chunk.c1 - Realtime + m, pol |-> p]
  BY DEF RawPlaced
<1>1. /\ Headed
      /\ \A p \in Pols, b \in Baselines : \A m \in 0..(Width(chunk) - 1) :
           raw[p][b][m] = Sought(p, b, m) <=> Sent(m)
  BY DEF PathInv, Deserialised
<1>2. 0 \in Pols /\ 0 \in Baselines
  BY BaselinesCounted DEF Pols, Baselines
<1>3. \A p, b, m : Sought(p, b, m) = [row |-> row - NumBaselines + b,
                                     channel |-> chunk.c1 - Realtime + m, pol |-> p]
  BY DEF Sought, Wanted
<1> QED
  BY <1>1, <1>2, <1>3, AllSent

-----------------------------------------------------------------------------
(***************************************************************************)
(* The triangle of baselines: every pair of antennas has a place of its    *)
(* own, whatever their order, and every place has a pair.                  *)
(***************************************************************************)
LEMMA TriangleTwice ==
  ASSUME NEW i \in Nat
  PROVE  Triangle(i) \in Nat /\ 2 * Triangle(i) = i * (i + 1)
<1> DEFINE t == i * (i + 1)
<1>1. t \in Nat
  OBVIOUS
<1>2. t % 2 = 0
  OBVIOUS
<1> HIDE DEF t
<1>3. t \div 2 \in Nat /\ 2 * (t \div 2) = t
  BY <1>1, <1>2
<1> QED
  BY <1>3 DEF t, Triangle

\* The triangular numbers of two rows are at least a row apart.
LEMMA TriangleGrows ==
  ASSUME NEW i \in Nat, NEW k \in Nat, i < k
  PROVE  Triangle(k) >= Triangle(i) + i + 1
<1>1. k * (k + 1) >= (i + 1) * (i + 2)
  BY Z3T(30)
<1>2. (i + 1) * (i + 2) = i * (i + 1) + 2 * (i + 1)
  BY Z3T(30)
<1>3. i * (i + 1) \in Int /\ (i + 1) * (i + 2) \in Int /\ k * (k + 1) \in Int
  OBVIOUS
<1>4. 2 * Triangle(k) >= 2 * Triangle(i) + 2 * (i + 1)
  BY <1>1, <1>2, <1>3, TriangleTwice
<1>5. Triangle(i) \in Nat /\ Triangle(k) \in Nat
  BY TriangleTwice
<1> QED
  BY <1>4, <1>5

\* The next triangular number is one row further.
LEMMA TriangleNext ==
  ASSUME NEW i \in Nat
  PROVE  Triangle(i + 1) = Triangle(i) + i + 1
<1>1. (i + 1) * ((i + 1) + 1) = i * (i + 1) + 2 * (i + 1)
  BY Z3T(30)
<1>2. Triangle(i) \in Nat /\ Triangle(i + 1) \in Nat /\ i * (i + 1) \in Int
  BY TriangleTwice
<1>3. 2 * Triangle(i + 1) = 2 * Triangle(i) + 2 * (i + 1)
  BY <1>1, <1>2, TriangleTwice
<1>4. Triangle(i) \in Nat /\ Triangle(i + 1) \in Nat
  BY <1>2
<1>5. \A x, y \in Nat : 2 * x = 2 * y + 2 * (i + 1) => x = y + i + 1
  OBVIOUS
<1> QED
  BY <1>3, <1>4, <1>5

\* The whole triangle has every baseline.
LEMMA TriangleWhole == Triangle(NumAntennas) = NumBaselines /\ Triangle(0) = 0
BY DEF Triangle, NumBaselines

Low(q) == IF q[2] <= q[1] THEN q[2] ELSE q[1]
High(q) == IF q[2] <= q[1] THEN q[1] ELSE q[2]

\* The two antennas of a pair in ascending order.
LEMMA LowHigh ==
  ASSUME NEW q \in Pairs
  PROVE  /\ Low(q) \in Antennas /\ High(q) \in Antennas /\ Low(q) <= High(q)
         /\ {q[1], q[2]} = {Low(q), High(q)}
         /\ BaselineOf(q[1], q[2]).baseline = Triangle(High(q)) + Low(q)
<1>1. q[1] \in Antennas /\ q[2] \in Antennas /\ q[1] \in Int /\ q[2] \in Int
  BY VisibilitiesAssumption DEF Pairs, Antennas
<1>2. CASE q[2] <= q[1]
  BY <1>1, <1>2 DEF Low, High, BaselineOf
<1>3. CASE ~(q[2] <= q[1])
  BY <1>1, <1>3 DEF Low, High, BaselineOf
<1> QED
  BY <1>2, <1>3

\* Two pairs with the same baseline are the same two antennas.
LEMMA OwnBaseline ==
  ASSUME NEW q \in Pairs, NEW r \in Pairs,
         BaselineOf(q[1], q[2]).baseline = BaselineOf(r[1], r[2]).baseline
  PROVE  {q[1], q[2]} = {r[1], r[2]}
<1> DEFINE
  h == High(q)
  k == High(r)
  l == Low(q)
  m == Low(r)
<1>1. /\ h \in Nat /\ k \in Nat /\ l \in Nat /\ m \in Nat /\ l <= h /\ m <= k
      /\ Triangle(h) + l = Triangle(k) + m
  BY LowHigh, VisibilitiesAssumption DEF Antennas
<1> HIDE DEF h, k, l, m
<1>2. Triangle(h) \in Nat /\ Triangle(k) \in Nat
  BY <1>1, TriangleTwice
<1>3. ~(h < k)
  BY <1>1, <1>2, TriangleGrows
<1>4. ~(k < h)
  BY <1>1, <1>2, TriangleGrows
<1>5. h = k
  BY <1>1, <1>3, <1>4
<1>6. l = m
  BY <1>1, <1>2, <1>5
<1> QED
  BY <1>5, <1>6, LowHigh DEF h, k, l, m

\* The baseline of a pair is one of the baselines.
LEMMA BaselineInRange ==
  ASSUME NEW q \in Pairs
  PROVE  BaselineOf(q[1], q[2]).baseline \in Baselines
<1>1. /\ High(q) \in Nat /\ Low(q) \in Nat /\ Low(q) <= High(q) /\ High(q) < NumAntennas
      /\ NumAntennas \in Nat
  BY LowHigh, VisibilitiesAssumption DEF Antennas
<1>2. NumBaselines >= Triangle(High(q)) + High(q) + 1 /\ Triangle(High(q)) \in Nat
  BY <1>1, TriangleGrows, TriangleTwice, TriangleWhole
<1>3. NumBaselines \in Nat
  BY BaselinesCounted
<1>4. Triangle(High(q)) + Low(q) \in 0..(NumBaselines - 1)
  BY <1>1, <1>2, <1>3
<1> QED
  BY <1>4, LowHigh DEF Baselines

(***************************************************************************)
(* Every baseline is the baseline of some pair: the row is found as the    *)
(* last triangular number that is not above it.                            *)
(***************************************************************************)
LEMMA EveryBaseline ==
  ASSUME NEW b \in Baselines
  PROVE  \E q \in Pairs : BaselineOf(q[1], q[2]).baseline = b
<1> DEFINE T == {h \in Nat : Triangle(h) > b}
<1>1. b \in Nat /\ b < NumBaselines /\ NumAntennas \in Nat
  BY BaselinesCounted, VisibilitiesAssumption DEF Baselines
<1>2. NumAntennas \in T
  BY <1>1, TriangleWhole, BaselinesCounted
<1>3. PICK h \in T : \A k \in T : h <= k
  BY <1>2, LeastNatural
<1>4. h \in Nat /\ Triangle(h) > b /\ h <= NumAntennas /\ h # 0
  BY <1>1, <1>2, <1>3, TriangleWhole
<1> DEFINE
  i == h - 1
  j == b - Triangle(i)
<1>5. i \in Nat /\ i \notin T /\ Triangle(h) = Triangle(i) + i + 1 /\ Triangle(i) \in Nat
  <2>1. i \in Nat /\ i + 1 = h
    BY <1>4
  <2>2. Triangle(i + 1) = Triangle(i) + i + 1
    BY <2>1, TriangleNext
  <2>3. i \notin T
    BY <1>3, <2>1
  <2> QED
    BY <2>1, <2>2, <2>3, TriangleTwice
<1>6. Triangle(i) <= b
  BY <1>1, <1>5
<1>7. j \in 0..i /\ i < NumAntennas /\ Triangle(i) + j = b
  BY <1>1, <1>4, <1>5, <1>6
<1>8. i \in Antennas /\ j \in Antennas
  BY <1>1, <1>5, <1>7 DEF Antennas
<1> HIDE DEF i, j
<1>9. <<i, j>> \in Pairs
  BY <1>8 DEF Pairs
<1>10. BaselineOf(i, j).baseline = b
  BY <1>5, <1>7 DEF BaselineOf
<1> QED
  BY <1>9, <1>10

(***************************************************************************)
(* No two pairs share a visibility, none is left out, and all are of the   *)
(* packet.                                                                 *)
(***************************************************************************)
LEMMA OwnedByStages == PathInv => MatrixOwn
<1> SUFFICES ASSUME PathInv, stage = "matrix", InStream(chunk)
             PROVE  /\ \A q, r \in Pairs : In(q) \cap In(r) # {} => {q[1], q[2]} = {r[1], r[2]}
                    /\ UNION Range(result) = UNION {In(q) : q \in Pairs}
                    /\ \A q \in Pairs : In(q) \subseteq [row : (row - NumBaselines)..(row - 1), pol : {pol}]
  BY DEF MatrixOwn
<1> DEFINE B(q) == BaselineOf(q[1], q[2]).baseline
<1>1. /\ row \in Nat /\ row - NumBaselines \in Nat /\ DOMAIN result = Baselines
      /\ \A b \in Baselines : result[b] \subseteq {[row |-> row - NumBaselines + b, pol |-> pol]}
  BY DEF PathInv, Averaged, Headed
<1>2. ASSUME NEW q \in Pairs PROVE B(q) \in Baselines /\ In(q) = result[B(q)]
  <2>1. matrix[q] = BaselineOf(q[1], q[2])
    BY DEF PathInv, Correlated
  <2> QED
    BY <2>1, BaselineInRange DEF In
<1>3. ASSUME NEW q \in Pairs, NEW r \in Pairs, In(q) \cap In(r) # {}
      PROVE  {q[1], q[2]} = {r[1], r[2]}
  <2>1. PICK v \in In(q) : v \in In(r)
    BY <1>3
  <2>2. v.row = row - NumBaselines + B(q) /\ v.row = row - NumBaselines + B(r)
    BY <1>1, <1>2, <2>1
  <2>3. B(q) \in Int /\ B(r) \in Int /\ row - NumBaselines \in Int
    BY <1>1, <1>2, BaselinesCounted DEF Baselines
  <2>4. ASSUME NEW a \in Int, NEW x \in Int, NEW y \in Int, a + x = a + y PROVE x = y
    BY <2>4
  <2> HIDE DEF B
  <2>5. B(q) = B(r)
    BY <2>2, <2>3, <2>4
  <2> QED
    BY <2>5, OwnBaseline DEF B
<1>4. Range(result) = {In(q) : q \in Pairs}
  BY <1>1, <1>2, EveryBaseline DEF Range
<1>5. ASSUME NEW q \in Pairs
      PROVE  In(q) \subseteq [row : (row - NumBaselines)..(row - 1), pol : {pol}]
  <2>1. B(q) \in 0..(NumBaselines - 1) /\ NumBaselines \in Nat
    BY <1>2, BaselinesCounted DEF Baselines
  <2> HIDE DEF B
  <2>2. row - NumBaselines + B(q) \in (row - NumBaselines)..(row - 1)
    BY <1>1, <2>1
  <2>3. In(q) \subseteq {[row |-> row - NumBaselines + B(q), pol |-> pol]}
    BY <1>1, <1>2 DEF B
  <2> QED
    BY <2>2, <2>3
<1> QED
  BY <1>3, <1>4, <1>5

-----------------------------------------------------------------------------
(***************************************************************************)
(* The median of natural numbers up to M.                                  *)
(***************************************************************************)
LEMMA SmallestExists ==
  ASSUME NEW D, IsFiniteSet(D), NEW M \in Nat, NEW s \in [D -> 0..M],
         NEW k \in 1..Cardinality(D)
  PROVE  \E i \in D : s[i] = Smallest(s, k)
<1> DEFINE
  Below(v) == {i \in D : s[i] < v}
  Upto(v) == {i \in D : s[i] <= v}
  T == {w \in Nat : Cardinality(Upto(w)) >= k}
<1>1. /\ \A v : Below(v) \in SUBSET D /\ Upto(v) \in SUBSET D
      /\ \A S \in SUBSET D : Cardinality(S) \in Nat
  BY FS_Subset, FS_CardinalityType
<1>2. \A i \in D : s[i] \in Nat /\ s[i] <= M
  OBVIOUS
<1>3. k \in Nat /\ k > 0 /\ k <= Cardinality(D)
  BY <1>1
<1>4. M \in T
  <2>1. Upto(M) = D
    BY <1>2
  <2> QED
    BY <1>3, <2>1
<1>5. PICK v \in T : \A w \in T : v <= w
  BY <1>4, LeastNatural
<1>6. Cardinality(Below(v)) < k
  <2>1. CASE v = 0
    <3>1. Below(v) = {}
      BY <1>2, <2>1
    <3> QED
      BY <1>3, <3>1, FS_EmptySet
  <2>2. CASE v # 0
    <3>1. v - 1 \in Nat /\ v - 1 \notin T
      BY <1>5, <2>2
    <3>2. Upto(v - 1) = Below(v)
      BY <1>2, <1>5
    <3>3. ~(Cardinality(Upto(v - 1)) >= k)
      BY <3>1
    <3> QED
      BY <1>1, <1>3, <3>2, <3>3
  <2> QED
    BY <2>1, <2>2
<1>7. Cardinality(Upto(v)) >= k
  BY <1>5
<1>8. \E i \in D : s[i] = v
  <2> SUFFICES ASSUME \A i \in D : s[i] # v PROVE FALSE
    OBVIOUS
  <2>1. Upto(v) = Below(v)
    BY <1>2, <1>5
  <2> QED
    BY <1>1, <1>3, <1>6, <1>7, <2>1
<1>9. v \in {s[i] : i \in DOMAIN s}
  BY <1>8
<1>10. DOMAIN s = D
  OBVIOUS
<1>11. Smallest(s, k) \in {s[i] : i \in DOMAIN s}
  BY <1>6, <1>7, <1>9, <1>10 DEF Smallest
<1> QED
  BY <1>10, <1>11

\* The median lies between values, and is the value of all if they are equal.
LEMMA MedianLies ==
  ASSUME NEW D, IsFiniteSet(D), Cardinality(D) > 0, NEW M \in Nat, NEW s \in [D -> 0..M]
  PROVE  /\ TwiceMedian(s) \in Int
         /\ \E i \in D : 2 * s[i] <= TwiceMedian(s)
         /\ \A v \in Int : (\A i \in D : s[i] = v) => TwiceMedian(s) = 2 * v
<1> DEFINE
  n == Cardinality(D)
  k == (n + 1) \div 2
  l == n \div 2 + 1
<1>1. n \in Nat /\ n > 0
  BY FS_CardinalityType
<1>2. k \in 1..n /\ l \in 1..n
  BY <1>1
<1> HIDE DEF k, l
<1>3. PICK i \in D : s[i] = Smallest(s, k)
  BY <1>2, SmallestExists
<1>4. PICK j \in D : s[j] = Smallest(s, l)
  BY <1>2, SmallestExists
<1>5. TwiceMedian(s) = s[i] + s[j]
  <2>1. Count(s) = n
    BY DEF Count
  <2> QED
    BY <1>3, <1>4, <2>1 DEF TwiceMedian, k, l
<1>6. s[i] \in Int /\ s[j] \in Int
  OBVIOUS
<1>7. 2 * s[i] <= TwiceMedian(s) \/ 2 * s[j] <= TwiceMedian(s)
  BY <1>5, <1>6
<1>8. \A v \in Int : s[i] = v /\ s[j] = v => TwiceMedian(s) = 2 * v
  BY <1>5, <1>6
<1> QED
  BY <1>5, <1>6, <1>7, <1>8

-----------------------------------------------------------------------------
(***************************************************************************)
(* The variance is zero only if all values are equal: with the sum L of n  *)
(* values, the squares of n * s[i] - L add up to n times the scaled        *)
(* variance.                                                               *)
(***************************************************************************)
SumsOf(g, f, D) == g \in [SUBSET D -> Int] /\ f \in [D -> Int] /\ Sums(g, f, D)
Linear(e, A, q, B, s, C, D) == \A i \in D : e[i] = A * q[i] - B * s[i] + C
Combined(ge, A, gq, B, gs, C, D) == ge[D] = A * gq[D] - B * gs[D] + C * Cardinality(D)

\* The sum of a linear combination is the linear combination of the sums.
LEMMA SumsLinear ==
  ASSUME NEW D, IsFiniteSet(D),
         NEW A \in Int, NEW B \in Int, NEW C \in Int,
         NEW e, NEW q, NEW s, Linear(e, A, q, B, s, C, D),
         NEW ge, SumsOf(ge, e, D), NEW gq, SumsOf(gq, q, D), NEW gs, SumsOf(gs, s, D)
  PROVE  Combined(ge, A, gq, B, gs, C, D)
<1> DEFINE
  pick == [R \in SUBSET D |-> CHOOSE x \in R : TRUE]
  G == {R \in SUBSET D : ge[R] = A * gq[R] - B * gs[R] + C * Cardinality(R)}
<1>1. Picks(pick, D)
  BY DEF Picks
<1>2. {} \in G
  <2>1. ge[{}] = 0 /\ gq[{}] = 0 /\ gs[{}] = 0 /\ Cardinality({}) = 0
    BY FS_EmptySet DEF Sums, SumsOf
  <2>2. A * 0 - B * 0 + C * 0 = 0
    OBVIOUS
  <2> QED
    BY <2>1, <2>2
<1>3. ASSUME NEW R \in SUBSET D, R # {}, R \ {pick[R]} \in G PROVE R \in G
  <2> DEFINE
    x == pick[R]
    P == R \ {x}
    c == Cardinality(P)
  <2>1. x \in R /\ P \in SUBSET D
    BY <1>1, <1>3 DEF Picks
  <2>2. ge[R] = e[x] + ge[P] /\ gq[R] = q[x] + gq[P] /\ gs[R] = s[x] + gs[P]
    BY <2>1, ZenonT(40) DEF Sums, SumsOf
  <2>3. c \in Nat /\ Cardinality(R) = c + 1
    <3>1. IsFiniteSet(R) /\ Cardinality(R) \in Nat
      BY FS_Subset, FS_CardinalityType
    <3>2. c = Cardinality(R) - 1 /\ IsFiniteSet(P)
      BY <2>1, <3>1, FS_RemoveElement
    <3>3. c \in Nat
      BY <3>2, FS_CardinalityType
    <3> QED
      BY <3>1, <3>2, <3>3
  <2>4. /\ e[x] \in Int /\ q[x] \in Int /\ s[x] \in Int /\ e[x] = A * q[x] - B * s[x] + C
        /\ ge[P] \in Int /\ gq[P] \in Int /\ gs[P] \in Int
    BY <2>1 DEF Linear, SumsOf
  <2>5. ge[P] = A * gq[P] - B * gs[P] + C * c
    BY <1>3
  <2> HIDE DEF x, P, c
  <2>6. \A x1, x2, y1, y2 \in Int :
          (A * x1 - B * y1 + C) + (A * x2 - B * y2 + C * c) = A * (x1 + x2) - B * (y1 + y2) + C * (c + 1)
    BY <2>3, Z3T(30)
  <2>7. ge[R] = A * gq[R] - B * gs[R] + C * Cardinality(R)
    BY <2>2, <2>3, <2>4, <2>5, <2>6
  <2> QED
    BY <2>7
<1> HIDE DEF pick, G
<1>4. SUBSET D \subseteq G
  BY <1>1, <1>2, <1>3, SubsetInduction
<1> QED
  BY <1>4 DEF G, Combined

(***************************************************************************)
(* A variance of zero, or below, means that all values are the same: it is *)
(* a sum of squares.                                                       *)
(***************************************************************************)
LEMMA VarianceZero ==
  ASSUME NEW D, IsFiniteSet(D), Cardinality(D) > 0, NEW s \in [D -> Int]
  PROVE  /\ ScaledVariance(s) \in Int
         /\ ScaledVariance(s) <= 0 => \A i, j \in D : s[i] = s[j]
         /\ (\A i, j \in D : s[i] = s[j]) => ScaledVariance(s) = 0
<1> DEFINE
  n == Cardinality(D)
  q == [i \in D |-> s[i] * s[i]]
  L == Total(s)
  Q == Total(q)
  d(i) == n * s[i] - L
  e == [i \in D |-> d(i) * d(i)]
<1>1. n \in Nat /\ n > 0
  BY FS_CardinalityType
<1>2. q \in [D -> Int] /\ DOMAIN s = D /\ Count(s) = n
  BY DEF Count
<1>3. ScaledVariance(s) = n * Q - L * L
  BY <1>2 DEF ScaledVariance
<1>4. PICK gs \in [SUBSET D -> Int] : Sums(gs, s, D) /\ L = gs[D]
  BY TotalSums
<1>5. PICK gq \in [SUBSET D -> Int] : Sums(gq, q, D) /\ Q = gq[D]
  <2>1. q \in [D -> Int]
    BY <1>2
  <2> HIDE DEF q
  <2> QED
    BY <2>1, TotalSums, Zenon
<1>6. L \in Int /\ Q \in Int
  BY <1>4, <1>5
<1> HIDE DEF n, L, Q
<1>7. ASSUME NEW i \in D
      PROVE  /\ d(i) \in Int /\ e[i] \in Nat
             /\ e[i] = (n * n) * q[i] - (2 * n * L) * s[i] + L * L
             /\ e[i] <= 0 => n * s[i] = L
  <2>1. s[i] \in Int /\ n * s[i] \in Int /\ d(i) \in Int
    BY <1>1, <1>6
  <2>2. e[i] = d(i) * d(i) /\ q[i] = s[i] * s[i]
    OBVIOUS
  <2>3. \A x \in Int : x * x \in Nat /\ (x * x <= 0 => x = 0)
    BY Z3T(30)
  <2>4. \A x \in Int : (n * x - L) * (n * x - L) = (n * n) * (x * x) - (2 * n * L) * x + L * L
    BY <1>1, <1>6, Z3T(30)
  <2>5. d(i) * d(i) = (n * n) * q[i] - (2 * n * L) * s[i] + L * L
    BY <2>1, <2>2, <2>4
  <2>6. d(i) = 0 => n * s[i] = L
    BY <1>6, <2>1
  <2> HIDE DEF d
  <2> QED
    BY <2>1, <2>2, <2>3, <2>5, <2>6
<1>8. e \in [D -> Nat] /\ e \in [D -> Int]
  BY <1>7
<1>9. PICK ge \in [SUBSET D -> Int] : Sums(ge, e, D)
  BY <1>8, TotalSums
<1>10. (n * n) \in Int /\ (2 * n * L) \in Int /\ L * L \in Int
  BY <1>1, <1>6
<1>11. ge[D] = (n * n) * Q - (2 * n * L) * L + (L * L) * n
  <2>1. \A i \in D : e[i] = (n * n) * q[i] - (2 * n * L) * s[i] + L * L
    BY <1>7
  <2> DEFINE
    A == n * n
    B == 2 * n * L
    C == L * L
  <2> HIDE DEF A, B, C, e, q
  <2>2. A \in Int /\ B \in Int /\ C \in Int /\ Linear(e, A, q, B, s, C, D)
    BY <1>10, <2>1 DEF A, B, C, Linear
  <2>3. ge[D] = A * gq[D] - B * gs[D] + C * n
    <3>1. SumsOf(ge, e, D) /\ SumsOf(gq, q, D) /\ SumsOf(gs, s, D)
      BY <1>2, <1>4, <1>5, <1>8, <1>9 DEF SumsOf
    <3>2. Combined(ge, A, gq, B, gs, C, D)
      BY <2>2, <3>1, SumsLinear
    <3> QED
      BY <3>2 DEF n, Combined
  <2> QED
    BY <1>4, <1>5, <2>3 DEF A, B, C
<1> DEFINE SV == n * Q - L * L
<1>12. ge[D] = n * SV /\ SV \in Int
  BY <1>1, <1>6, <1>11, Z3T(30)
<1>13. ASSUME SV <= 0 PROVE \A i, j \in D : s[i] = s[j]
  <2>1. ge[D] <= 0 /\ ge[D] \in Int
    <3> HIDE DEF SV
    <3>1. n * SV <= 0
      BY <1>1, <1>12, <1>13, Z3T(30)
    <3> QED
      BY <1>12, <3>1
  <2>2. \A i \in D : e[i] <= ge[D]
    <3> HIDE DEF e
    <3> QED
      BY <1>8, <1>9, SumsNatural
  <2>3. \A i \in D : e[i] <= 0
    <3> HIDE DEF e
    <3>1. \A i \in D : e[i] \in Int
      BY <1>8
    <3> QED
      BY <2>1, <2>2, <3>1
  <2>4. \A i \in D : n * s[i] = L
    BY <1>7, <2>3
  <2>5. \A x, y \in Int : n * x = n * y => x = y
    BY <1>1, Z3T(30)
  <2> QED
    BY <2>4, <2>5
<1>14. ASSUME \A i, j \in D : s[i] = s[j] PROVE SV = 0
  <2>1. D # {}
    BY <1>1, FS_EmptySet DEF n
  <2>2. PICK o \in D : TRUE
    BY <2>1
  <2> DEFINE v == s[o]
  <2>3. v \in Int /\ \A i \in D : s[i] = v /\ q[i] = v * v
    BY <1>14
  <2> HIDE DEF v, q
  <2> DEFINE zero == [i \in D |-> 0]
  <2>4. zero \in [D -> Int] /\ v * v \in Int
    BY <2>3
  <2>5. PICK gz \in [SUBSET D -> Int] : Sums(gz, zero, D)
    BY <2>4, TotalSums
  <2>6. Linear(s, 0, zero, 0, zero, v, D)
    BY <2>3 DEF Linear
  <2> DEFINE w == v * v
  <2>7. Linear(q, 0, zero, 0, zero, w, D)
    BY <2>3 DEF Linear
  <2> HIDE DEF w
  <2> HIDE DEF zero
  <2>8. gs[D] = 0 * gz[D] - 0 * gz[D] + v * Cardinality(D)
    <3>1. 0 \in Int
      OBVIOUS
    <3>2. SumsOf(gs, s, D) /\ SumsOf(gz, zero, D)
      BY <1>4, <2>4, <2>5 DEF SumsOf
    <3>3. Combined(gs, 0, gz, 0, gz, v, D)
      BY <2>3, <2>6, <3>1, <3>2, SumsLinear
    <3> QED
      BY <3>3 DEF Combined
  <2>9. gq[D] = 0 * gz[D] - 0 * gz[D] + w * Cardinality(D)
    <3>1. 0 \in Int /\ w \in Int
      BY <2>4 DEF w
    <3>2. SumsOf(gq, q, D) /\ SumsOf(gz, zero, D)
      BY <1>2, <1>5, <2>4, <2>5 DEF SumsOf
    <3>3. Combined(gq, 0, gz, 0, gz, w, D)
      BY <2>7, <3>1, <3>2, SumsLinear
    <3> QED
      BY <3>3 DEF Combined
  <2>10. L = v * n /\ Q = (v * v) * n
    <3>1. gz[D] \in Int /\ v * n \in Int /\ w * n \in Int
      BY <1>1, <2>3 DEF w
    <3>2. L = v * n /\ Q = w * n
      BY <1>4, <1>5, <2>8, <2>9, <3>1 DEF n
    <3> QED
      BY <3>2 DEF w
  <2>11. n * ((v * v) * n) - (v * n) * (v * n) = 0
    BY <1>1, <2>3, Z3T(30)
  <2> QED
    BY <2>10, <2>11
<1> QED
  BY <1>3, <1>12, <1>13, <1>14

\* What is thrown away is at least as far above the median as the limit.
LEMMA LimitPasses ==
  ASSUME NEW D, IsFiniteSet(D), Cardinality(D) >= 3, NEW M \in Nat, NEW s \in [D -> 0..M]
  PROVE  /\ Kept(s) \subseteq D
         /\ \A m \in Kept(s), l \in D \ Kept(s) : s[m] < s[l]
         /\ VisSigma # 0 => (Kept(s) = {} <=> \A m, l \in D : s[m] = s[l])
<1> DEFINE
  n == Cardinality(D)
  T == TwiceMedian(s)
  lim == SquaredLimit(s, VisSigma)
  SV == ScaledVariance(s)
  d(i) == n * (2 * s[i] - T)
<1>1. n \in Nat /\ n > 0 /\ Cardinality(D) > 0 /\ Count(s) = n /\ DOMAIN s = D /\ Count(s) >= 3
  BY FS_CardinalityType DEF Count
<1>2. /\ T \in Int
      /\ \E i \in D : 2 * s[i] <= T
      /\ \A v \in Int : (\A i \in D : s[i] = v) => T = 2 * v
  BY <1>1, MedianLies
<1>3. \A i \in D : s[i] \in Int
  OBVIOUS
<1>4. /\ SV \in Int
      /\ SV <= 0 => \A i, j \in D : s[i] = s[j]
      /\ (\A i, j \in D : s[i] = s[j]) => SV = 0
  <2>1. s \in [D -> Int]
    BY <1>3
  <2> QED
    BY <1>1, <2>1, VarianceZero
<1>5. lim = 4 * VisSigma * VisSigma * SV /\ VisSigma \in Nat
  BY VisibilitiesAssumption DEF SquaredLimit
<1>6. \A i \in D : d(i) = Distance(s, i)
  BY <1>1 DEF Distance
<1>7. Kept(s) = {i \in D : d(i) < 0 \/ d(i) * d(i) < lim}
  <2>1. ~(Count(s) < 3)
    BY <1>1
  <2> HIDE DEF d, lim
  <2> QED
    BY <1>1, <1>6, <2>1 DEF Kept, lim
<1> HIDE DEF n, T, lim, SV
<1>8. \A i \in D : d(i) \in Int /\ d(i) * d(i) \in Int
  BY <1>1, <1>2, <1>3
<1>9. lim \in Int
  BY <1>4, <1>5
<1>10. ASSUME NEW m \in Kept(s), NEW l \in D \ Kept(s) PROVE s[m] < s[l]
  <2>1. m \in D /\ (d(m) < 0 \/ d(m) * d(m) < lim) /\ d(l) >= 0 /\ d(l) * d(l) >= lim
    BY <1>7, <1>8, <1>9
  <2> SUFFICES ASSUME s[m] >= s[l] PROVE FALSE
    BY <1>3, <2>1
  <2>2. d(m) >= d(l)
    <3>1. 2 * s[m] - T \in Int /\ 2 * s[l] - T \in Int /\ 2 * s[m] - T >= 2 * s[l] - T
      BY <1>2, <1>3, <2>1
    <3>2. \A x, y \in Int : x >= y => n * x >= n * y
      BY <1>1, Z3T(30)
    <3> QED
      BY <3>1, <3>2
  <2>3. \A x, y \in Int : x >= y /\ y >= 0 => x * x >= y * y
    BY Z3T(30)
  <2> HIDE DEF d
  <2>4. d(m) * d(m) >= d(l) * d(l) /\ d(m) >= 0
    BY <1>8, <2>1, <2>2, <2>3
  <2> QED
    BY <1>8, <1>9, <2>1, <2>4
<1>11. ASSUME VisSigma # 0, Kept(s) = {} PROVE \A m, l \in D : s[m] = s[l]
  <2>1. PICK i \in D : 2 * s[i] <= T
    BY <1>2
  <2>2. d(i) >= 0 /\ d(i) * d(i) >= lim
    BY <1>7, <1>8, <1>9, <1>11
  <2>3. d(i) = 0
    <3>1. 2 * s[i] - T \in Int /\ 2 * s[i] - T <= 0
      BY <1>2, <1>3, <2>1
    <3>2. \A x \in Int : x <= 0 => n * x <= 0 /\ n * x \in Int
      BY <1>1, Z3T(30)
    <3> QED
      BY <1>8, <2>2, <3>1, <3>2
  <2> HIDE DEF d
  <2>4. lim <= 0
    <3>1. 0 * 0 >= lim
      BY <2>2, <2>3
    <3> QED
      BY <1>9, <3>1
  <2>5. SV <= 0
    <3>1. \A x \in Nat \ {0}, y \in Int : 4 * x * x * y <= 0 => y <= 0
      <4>1. \A x \in Nat \ {0} : 4 * x * x \in Nat \ {0}
        BY Z3T(30)
      <4>2. \A z \in Nat \ {0}, y \in Int : z * y <= 0 => y <= 0
        BY Z3T(30)
      <4> QED
        BY <4>1, <4>2
    <3> QED
      BY <1>4, <1>5, <1>11, <2>4, <3>1
  <2> QED
    BY <1>4, <2>5
<1>12. ASSUME \A m, l \in D : s[m] = s[l] PROVE Kept(s) = {}
  <2>1. SV = 0
    BY <1>4, <1>12
  <2>2. lim = 0
    <3>1. \A x \in Nat : 4 * x * x * 0 = 0
      BY Z3T(30)
    <3> QED
      BY <1>5, <2>1, <3>1
  <2>3. ASSUME NEW i \in D PROVE d(i) = 0
    <3>1. T = 2 * s[i]
      BY <1>2, <1>3, <1>12
    <3>2. 2 * s[i] - T = 0 /\ n * 0 = 0
      BY <1>1, <1>2, <1>3, <3>1
    <3> QED
      BY <3>2
  <2> HIDE DEF d
  <2>4. \A i \in D : ~(d(i) < 0) /\ ~(d(i) * d(i) < lim)
    BY <2>2, <2>3
  <2> QED
    BY <1>7, <2>4
<1>13. Kept(s) \subseteq D
  BY <1>7
<1> QED
  BY <1>10, <1>11, <1>12, <1>13

\* What is kept is less than what is clipped, whatever was measured.
LEMMA KeptByMeasure == VisSigma # 0 /\ PathInv => KeptBelow
<1> SUFFICES ASSUME VisSigma # 0, PathInv, stage = "mean", Count(magnitude) >= 3
             PROVE  LET kept == Kept(magnitude)
                    IN /\ \A m \in kept, n \in DOMAIN magnitude \ kept : magnitude[m] < magnitude[n]
                       /\ kept = {} <=> \A m, n \in DOMAIN magnitude : magnitude[m] = magnitude[n]
  BY DEF KeptBelow
<1> DEFINE D == 0..(Width(chunk) - 1)
<1>1. /\ magnitude \in [D -> 0..MaxMagnitude]
      /\ chunk.c1 \in Nat /\ chunk.c2 \in Nat
  BY DEF PathInv, Measured, Averaged, Headed
<1>2. IsFiniteSet(D)
  <2>1. 0 \in Int /\ Width(chunk) - 1 \in Int
    BY <1>1 DEF Width
  <2> QED
    BY <2>1, FS_Interval
<1> HIDE DEF D
<1>3. Cardinality(D) >= 3 /\ DOMAIN magnitude = D
  BY <1>1 DEF Count
<1> QED
  BY <1>1, <1>2, <1>3, LimitPasses, VisibilitiesAssumption

-----------------------------------------------------------------------------
(***************************************************************************)
(* A text of ranges gives these ranges, however many there are: after the  *)
(* first three tokens of range i, all ranges before it are complete.       *)
(***************************************************************************)
Open(list, i) == [k \in 1..i |-> IF k < i THEN list[k] ELSE [c1 |-> list[i].c1, c2 |-> 0]]
Reached(list, i) == [number |-> list[i].c2, ranges |-> Open(list, i)]

\* The three tokens of a range: a number, a dash and a number.
ThreeTokens(s, a, b) == ReadToken(ReadToken(ReadToken(s, a), Dash), b)
Filled(R, i, a, b) == [number |-> b, ranges |-> [R EXCEPT ![i] = [c1 |-> a, c2 |-> 0]]]

\* What the parser does with a number, and with a dash.
LEMMA NumberRead ==
  ASSUME NEW s, NEW t, t # Comma, t # Dash
  PROVE  ReadToken(s, t) = [s EXCEPT !.number = t]
BY Zenon DEF ReadToken

LEMMA DashRead ==
  ASSUME NEW s
  PROVE  ReadToken(s, Dash) =
           [s EXCEPT !.ranges = [s.ranges EXCEPT ![Len(s.ranges)] =
                                  [s.ranges[Len(s.ranges)] EXCEPT !.c1 = U16(s.number)]]]
<1>1. Dash # Comma
  BY DEF Dash, Comma
<1> QED
  BY <1>1, Zenon DEF ReadToken

\* The three tokens fill the last range of the list.
LEMMA RangeRead ==
  ASSUME NEW i \in Nat \ {0}, NEW R, R \in [1..i -> RangeType], R[i] = NewRange,
         NEW x \in Int, NEW a \in 0..(Word - 1), NEW b \in 0..(Word - 1)
  PROVE  ThreeTokens([number |-> x, ranges |-> R], a, b) = Filled(R, i, a, b)
<1> DEFINE
  s1 == ReadToken([number |-> x, ranges |-> R], a)
  s2 == ReadToken(s1, Dash)
  s3 == ReadToken(s2, b)
<1>1. a # Comma /\ a # Dash /\ b # Comma /\ b # Dash
  BY TextAssumption DEF Comma, Dash
<1>2. U16(a) = a
  BY TextAssumption DEF U16
<1>3. s1 = [number |-> a, ranges |-> R]
  <2>1. s1 = [[number |-> x, ranges |-> R] EXCEPT !.number = a]
    BY <1>1, NumberRead, Zenon
  <2> HIDE DEF s1
  <2> QED
    BY <2>1
<1>4. Len(R) = i /\ DOMAIN R = 1..i
  OBVIOUS
<1> HIDE DEF s1
<1>5. s2 = [s1 EXCEPT !.ranges = [s1.ranges EXCEPT ![Len(s1.ranges)] =
                                   [s1.ranges[Len(s1.ranges)] EXCEPT !.c1 = U16(s1.number)]]]
  BY DashRead, Zenon
<1> HIDE DEF s2
<1>6. s2 = [number |-> a, ranges |-> [R EXCEPT ![i] = [R[i] EXCEPT !.c1 = a]]]
  <2>1. s1.ranges = R /\ s1.number = a
    BY <1>3
  <2> DEFINE Q == [R EXCEPT ![i] = [R[i] EXCEPT !.c1 = a]]
  <2>2. s2 = [[number |-> a, ranges |-> R] EXCEPT !.ranges = Q]
    BY <1>2, <1>3, <1>4, <1>5, <2>1, Zenon
  <2> HIDE DEF Q
  <2>3. s2 = [number |-> a, ranges |-> Q]
    BY <2>2
  <2> QED
    BY <2>3 DEF Q
<1>7. [R[i] EXCEPT !.c1 = a] = [c1 |-> a, c2 |-> 0]
  BY DEF NewRange
<1>8. s3 = [s2 EXCEPT !.number = b]
  BY <1>1, NumberRead, Zenon
<1> HIDE DEF s3
<1>9. s3 = Filled(R, i, a, b)
  <2>1. s2 = [number |-> a, ranges |-> [R EXCEPT ![i] = [c1 |-> a, c2 |-> 0]]]
    BY <1>6, <1>7, Zenon
  <2>2. s3 = [[number |-> a, ranges |-> [R EXCEPT ![i] = [c1 |-> a, c2 |-> 0]]] EXCEPT !.number = b]
    BY <1>8, <2>1, Zenon
  <2> QED
    BY <2>2 DEF Filled
<1> QED
  BY <1>9 DEF ThreeTokens, s1, s2, s3

\* Closing range i completes the ranges up to it.
LEMMA RangeClosed ==
  ASSUME NEW list, NEW i \in Nat \ {0}, \A k \in 1..i : list[k] \in RangeType
  PROVE  /\ Open(list, i) \in [1..i -> RangeType]
         /\ CloseRange(Reached(list, i)) = [number |-> list[i].c2, ranges |-> [k \in 1..i |-> list[k]]]
<1> DEFINE
  R == Open(list, i)
  e == [c1 |-> list[i].c1, c2 |-> 0]
<1>1. i \in 1..i /\ list[i] \in RangeType
  OBVIOUS
<1>2. e \in RangeType
  BY <1>1, TextAssumption DEF RangeType
<1>3. R \in [1..i -> RangeType] /\ R[i] = e /\ \A k \in 1..i : k # i => R[k] = list[k]
  BY <1>1, <1>2 DEF Open
<1>4. Len(R) = i
  BY <1>3
<1>5. U16(list[i].c2) = list[i].c2
  BY <1>1, TextAssumption DEF RangeType, U16
<1> HIDE DEF R, e
<1>6. CloseRange([number |-> list[i].c2, ranges |-> R])
        = [number |-> list[i].c2, ranges |-> [R EXCEPT ![i] = [R[i] EXCEPT !.c2 = list[i].c2]]]
  <2> DEFINE s == [number |-> list[i].c2, ranges |-> R]
  <2>1. s.number = list[i].c2 /\ s.ranges = R /\ s = [number |-> list[i].c2, ranges |-> R]
    OBVIOUS
  <2> HIDE DEF s
  <2>2. CloseRange(s) = [s EXCEPT !.ranges[Len(s.ranges)].c2 = U16(s.number)]
    BY DEF CloseRange
  <2>3. CloseRange(s) = [number |-> list[i].c2, ranges |-> [R EXCEPT ![i] = [R[i] EXCEPT !.c2 = list[i].c2]]]
    BY <1>4, <1>5, <2>1, <2>2
  <2> QED
    BY <2>3 DEF s
<1>7. [R[i] EXCEPT !.c2 = list[i].c2] = list[i]
  BY <1>1, <1>3 DEF e, RangeType
<1>8. [R EXCEPT ![i] = list[i]] = [k \in 1..i |-> list[k]]
  BY <1>1, <1>3
<1>9. CloseRange([number |-> list[i].c2, ranges |-> R])
        = [number |-> list[i].c2, ranges |-> [k \in 1..i |-> list[k]]]
  BY <1>6, <1>7, <1>8
<1> QED
  BY <1>3, <1>9 DEF R, Reached

\* Where the tokens of range i are.
LEMMA TokensOf ==
  ASSUME NEW list \in Seq(RangeType) \ {<<>>}
  PROVE  /\ TextOf(list) \in Seq(Int) /\ Len(TextOf(list)) = 4 * Len(list) - 1
         /\ \A i \in 1..Len(list) :
              /\ TextOf(list)[4 * i - 3] = list[i].c1
              /\ TextOf(list)[4 * i - 2] = Dash
              /\ TextOf(list)[4 * i - 1] = list[i].c2
              /\ i < Len(list) => TextOf(list)[4 * i] = Comma
<1> DEFINE
  n == Len(list)
  t == TextOf(list)
  L == 4 * n - 1
<1>1. n \in Nat \ {0} /\ L \in Nat /\ \A i \in 1..n : list[i] \in RangeType
  BY EmptySeq, LenProperties, ElementOfSeq
<1>2. \A k \in 1..L : (k + 3) \div 4 \in 1..n /\ (k + 3) % 4 \in 0..3
  BY <1>1
<1>3. t = [k \in 1..L |-> RangeText(list[(k + 3) \div 4])[((k + 3) % 4) + 1]]
  BY DEF TextOf
<1>4. \A i \in 1..n :
        /\ RangeText(list[i])[1] = list[i].c1 /\ RangeText(list[i])[2] = Dash
        /\ RangeText(list[i])[3] = list[i].c2 /\ RangeText(list[i])[4] = Comma
        /\ \A j \in 0..3 : RangeText(list[i])[j + 1] \in Int
  <2> SUFFICES ASSUME NEW i \in 1..n
               PROVE  /\ RangeText(list[i])[1] = list[i].c1 /\ RangeText(list[i])[2] = Dash
                      /\ RangeText(list[i])[3] = list[i].c2 /\ RangeText(list[i])[4] = Comma
                      /\ \A j \in 0..3 : RangeText(list[i])[j + 1] \in Int
    OBVIOUS
  <2>1. list[i].c1 \in Int /\ list[i].c2 \in Int /\ Dash \in Int /\ Comma \in Int
    BY <1>1, TextAssumption DEF RangeType, Dash, Comma
  <2>2. /\ RangeText(list[i])[1] = list[i].c1 /\ RangeText(list[i])[2] = Dash
        /\ RangeText(list[i])[3] = list[i].c2 /\ RangeText(list[i])[4] = Comma
    BY DEF RangeText
  <2>3. \A j \in 0..3 : j = 0 \/ j = 1 \/ j = 2 \/ j = 3
    OBVIOUS
  <2>4. ASSUME NEW j \in 0..3 PROVE RangeText(list[i])[j + 1] \in Int
    <3>1. j + 1 = 1 \/ j + 1 = 2 \/ j + 1 = 3 \/ j + 1 = 4
      BY <2>3
    <3> QED
      BY <2>1, <2>2, <3>1
  <2> QED
    BY <2>2, <2>4
<1>5. t \in [1..L -> Int]
  BY <1>2, <1>3, <1>4
<1>6. t \in Seq(Int) /\ Len(t) = L
  BY <1>1, <1>5
<1>7. ASSUME NEW i \in 1..n
      PROVE  /\ t[4 * i - 3] = list[i].c1 /\ t[4 * i - 2] = Dash /\ t[4 * i - 1] = list[i].c2
             /\ i < n => t[4 * i] = Comma
  <2>1. /\ 4 * i - 3 \in 1..L /\ (4 * i - 3 + 3) \div 4 = i /\ (4 * i - 3 + 3) % 4 = 0
        /\ 4 * i - 2 \in 1..L /\ (4 * i - 2 + 3) \div 4 = i /\ (4 * i - 2 + 3) % 4 = 1
        /\ 4 * i - 1 \in 1..L /\ (4 * i - 1 + 3) \div 4 = i /\ (4 * i - 1 + 3) % 4 = 2
    BY <1>1
  <2>2. i < n => 4 * i \in 1..L /\ (4 * i + 3) \div 4 = i /\ (4 * i + 3) % 4 = 3
    BY <1>1
  <2> HIDE DEF t, n, L
  <2>3. /\ t[4 * i - 3] = RangeText(list[i])[0 + 1]
        /\ t[4 * i - 2] = RangeText(list[i])[1 + 1]
        /\ t[4 * i - 1] = RangeText(list[i])[2 + 1]
    BY <1>3, <2>1
  <2>4. i < n => t[4 * i] = RangeText(list[i])[3 + 1]
    BY <1>3, <2>2
  <2>5. 0 + 1 = 1 /\ 1 + 1 = 2 /\ 2 + 1 = 3 /\ 3 + 1 = 4
    OBVIOUS
  <2> QED
    BY <1>4, <2>3, <2>4, <2>5
<1> QED
  BY <1>6, <1>7

(***************************************************************************)
(* After the text of a list all its ranges are read, but for the end of    *)
(* the last one, which is the number at hand.                              *)
(***************************************************************************)
LEMMA ReadsTo ==
  ASSUME NEW list \in Seq(RangeType) \ {<<>>}
  PROVE  Read(TextOf(list)) = Reached(list, Len(list))
<1> DEFINE
  n == Len(list)
  t == TextOf(list)
<1>1. n \in Nat \ {0} /\ \A i \in 1..n : list[i] \in RangeType
  BY EmptySeq, LenProperties, ElementOfSeq
<1>2. t \in Seq(Int) /\ Len(t) = 4 * n - 1
  BY TokensOf
<1>3. \A i \in 1..n : /\ t[4 * i - 3] = list[i].c1 /\ t[4 * i - 2] = Dash /\ t[4 * i - 1] = list[i].c2
                      /\ i < n => t[4 * i] = Comma
  BY TokensOf
<1> HIDE DEF n, t
<1>4. PICK r \in [0..Len(t) -> ReadType] :
        /\ r[0] = Start
        /\ \A k \in 1..Len(t) : r[k] = ReadToken(r[k - 1], t[k])
        /\ Read(t) = r[Len(t)]
  BY <1>2, ReadInSteps
\* One range, if the state before it ends with a new one.
<1>5. ASSUME NEW i \in 1..n, NEW x \in Int, NEW R \in [1..i -> RangeType], R[i] = NewRange,
             r[4 * i - 4] = [number |-> x, ranges |-> R],
             \A k \in 1..(i - 1) : R[k] = list[k]
      PROVE  r[4 * i - 1] = Reached(list, i)
  <2> DEFINE
    a == list[i].c1
    b == list[i].c2
  <2>1. a \in 0..(Word - 1) /\ b \in 0..(Word - 1) /\ i \in Nat \ {0}
    BY <1>1 DEF RangeType
  <2>2. /\ 4 * i - 3 \in 1..Len(t) /\ (4 * i - 3) - 1 = 4 * i - 4
        /\ 4 * i - 2 \in 1..Len(t) /\ (4 * i - 2) - 1 = 4 * i - 3
        /\ 4 * i - 1 \in 1..Len(t) /\ (4 * i - 1) - 1 = 4 * i - 2
    BY <1>1, <1>2
  <2>3. r[4 * i - 3] = ReadToken([number |-> x, ranges |-> R], a)
    <3>1. r[4 * i - 3] = ReadToken(r[4 * i - 4], t[4 * i - 3])
      BY <1>4, <2>2
    <3>2. t[4 * i - 3] = a
      BY <1>3
    <3> QED
      BY <1>5, <3>1, <3>2
  <2>4. r[4 * i - 2] = ReadToken(r[4 * i - 3], Dash)
    BY <1>3, <1>4, <2>2
  <2>5. r[4 * i - 1] = ReadToken(r[4 * i - 2], b)
    BY <1>3, <1>4, <2>2
  <2> HIDE DEF a, b
  <2>6. r[4 * i - 1] = ThreeTokens([number |-> x, ranges |-> R], a, b)
    BY <2>3, <2>4, <2>5 DEF ThreeTokens
  <2>7. ThreeTokens([number |-> x, ranges |-> R], a, b) = Filled(R, i, a, b)
    BY <1>5, <2>1, RangeRead
  <2>8. [R EXCEPT ![i] = [c1 |-> a, c2 |-> 0]] = Open(list, i)
    <3>1. \A k \in 1..i : k < i => k \in 1..(i - 1)
      BY <2>1
    <3>2. \A k \in 1..i : ~(k < i) => k = i
      BY <2>1
    <3> DEFINE e == [c1 |-> a, c2 |-> 0]
    <3>3. Open(list, i) = [k \in 1..i |-> IF k < i THEN list[k] ELSE e]
      BY DEF Open, a
    <3> HIDE DEF e
    <3>4. \A k \in 1..i : [R EXCEPT ![i] = e][k] = IF k < i THEN list[k] ELSE e
      BY <1>5, <2>1, <3>1, <3>2
    <3>5. [R EXCEPT ![i] = e] = [k \in 1..i |-> IF k < i THEN list[k] ELSE e]
      BY <1>5, <3>4
    <3> QED
      BY <3>3, <3>5 DEF e
  <2> QED
    BY <2>6, <2>7, <2>8 DEF Filled, Reached, b
<1> DEFINE G == {m \in Nat : m + 1 \in 1..n => r[4 * (m + 1) - 1] = Reached(list, m + 1)}
<1>6. 0 \in G
  <2> SUFFICES ASSUME 1 \in 1..n PROVE r[4 * 1 - 1] = Reached(list, 1)
    OBVIOUS
  <2>1. NewRange \in RangeType
    BY TextAssumption DEF NewRange, RangeType
  <2>2. <<NewRange>> \in [1..1 -> RangeType] /\ <<NewRange>>[1] = NewRange
    BY <2>1
  <2>3. r[4 * 1 - 4] = [number |-> -1, ranges |-> <<NewRange>>] /\ -1 \in Int
    BY <1>4 DEF Start
  <2>4. \A k \in 1..(1 - 1) : <<NewRange>>[k] = list[k]
    OBVIOUS
  <2> HIDE DEF G
  <2> QED
    BY <1>5, <2>2, <2>3, <2>4
<1>7. ASSUME NEW m \in Nat, m \in G PROVE m + 1 \in G
  <2> DEFINE
    i == m + 1
    j == m + 2
    R == Append([k \in 1..i |-> list[k]], NewRange)
  <2> SUFFICES ASSUME j \in 1..n PROVE r[4 * j - 1] = Reached(list, j)
    OBVIOUS
  <2>1. i \in Nat \ {0} /\ i \in 1..n /\ i < n /\ j = i + 1 /\ r[4 * i - 1] = Reached(list, i)
    BY <1>1, <1>7
  <2> HIDE DEF i, j
  <2>2. \A k \in 1..i : k \in 1..n /\ list[k] \in RangeType
    BY <1>1, <2>1
  <2>3. CloseRange(Reached(list, i)) = [number |-> list[i].c2, ranges |-> [k \in 1..i |-> list[k]]]
    BY <2>1, <2>2, RangeClosed
  <2>4. /\ 4 * i \in 1..Len(t) /\ t[4 * i] = Comma /\ 4 * j - 4 = 4 * i
        /\ r[4 * i] = ReadToken(r[4 * i - 1], Comma)
    <3>1. 4 * i \in 1..Len(t) /\ t[4 * i] = Comma /\ 4 * j - 4 = 4 * i
      BY <1>1, <1>2, <1>3, <2>1
    <3> QED
      BY <1>4, <3>1
  <2>5. r[4 * j - 4] = [number |-> list[i].c2, ranges |-> R]
    <3> DEFINE c == CloseRange(Reached(list, i))
    <3>1. r[4 * i] = [c EXCEPT !.ranges = Append(c.ranges, NewRange)]
      BY <2>1, <2>4 DEF ReadToken
    <3>2. c = [number |-> list[i].c2, ranges |-> [k \in 1..i |-> list[k]]]
      BY <2>3
    <3> HIDE DEF c
    <3> QED
      BY <2>4, <3>1, <3>2
  <2>6. /\ R \in [1..j -> RangeType] /\ R[j] = NewRange
        /\ \A k \in 1..(j - 1) : R[k] = list[k]
    <3> DEFINE s == [k \in 1..i |-> list[k]]
    <3>1. NewRange \in RangeType
      BY TextAssumption DEF NewRange, RangeType
    <3>2. s \in Seq(RangeType) /\ Len(s) = i /\ \A k \in 1..i : s[k] = list[k]
      BY <2>1, <2>2
    <3> HIDE DEF s
    <3>3. Append(s, NewRange) \in Seq(RangeType) /\ Len(Append(s, NewRange)) = i + 1
      BY <3>1, <3>2
    <3>4. Append(s, NewRange)[i + 1] = NewRange /\ \A k \in 1..i : Append(s, NewRange)[k] = s[k]
      BY <2>1, <3>2
    <3>5. Append(s, NewRange) \in [1..(i + 1) -> RangeType]
      BY <3>3, LenProperties
    <3>6. 1..(j - 1) = 1..i
      BY <2>1
    <3> QED
      BY <2>1, <3>2, <3>4, <3>5, <3>6 DEF s
  <2>7. list[i].c2 \in Int
    BY <2>1, <2>2, TextAssumption DEF RangeType
  <2> HIDE DEF R, G
  <2> QED
    BY <1>5, <2>5, <2>6, <2>7
<1> HIDE DEF G
<1>8. Nat \subseteq G
  BY <1>6, <1>7, NatSetInduction
<1>9. n - 1 \in Nat /\ (n - 1) + 1 = n /\ n \in 1..n
  BY <1>1
<1>10. r[4 * n - 1] = Reached(list, n)
  BY <1>8, <1>9 DEF G
<1> QED
  BY <1>2, <1>4, <1>10 DEF n, t

(***************************************************************************)
(* For any number of ranges of 16-bit numbers, in any order: parsing their *)
(* text gives these ranges in that order (StreamChunker.cpp:143-199).      *)
(***************************************************************************)
THEOREM RangesParsed ==
  ASSUME NEW list \in Seq(RangeType) \ {<<>>}
  PROVE  Parsed(TextOf(list)) = list
<1> DEFINE n == Len(list)
<1>1. n \in Nat \ {0} /\ (\A i \in 1..n : list[i] \in RangeType) /\ list \in [1..n -> RangeType]
  BY EmptySeq, LenProperties, ElementOfSeq
<1>2. Read(TextOf(list)) = Reached(list, n)
  BY ReadsTo
<1>3. CloseRange(Reached(list, n)) = [number |-> list[n].c2, ranges |-> [k \in 1..n |-> list[k]]]
  BY <1>1, RangeClosed
<1>4. Parsed(TextOf(list)) = CloseRange(Read(TextOf(list))).ranges
  BY DEF Parsed, Read, Start
<1> HIDE DEF n
<1>5. [k \in 1..n |-> list[k]] = list
  BY <1>1
<1>6. CloseRange(Reached(list, n)) = [number |-> list[n].c2, ranges |-> list]
  BY <1>3, <1>5
<1>7. CloseRange(Reached(list, n)).ranges = list
  BY <1>6
<1> QED
  BY <1>2, <1>4, <1>7

\* An arrangement has the ranges it was made of.
LEMMA ArrangedSame ==
  ASSUME NEW list \in Seq(RangeType), NEW s \in Arrangements(list)
  PROVE  /\ DOMAIN s = DOMAIN list /\ Len(s) = Len(list) /\ Range(s) = Range(list)
         /\ Disjoint(list) => \A i, j \in DOMAIN s : i < j => Before(s[i], s[j])
<1> DEFINE D == DOMAIN list
<1>1. D = 1..Len(list) /\ Len(list) \in Nat
  BY LenProperties
<1>2. PICK I \in [D -> D] : IsInjective(I) /\ s = [i \in D |-> list[I[i]]]
  BY DEF Arrangements
<1>3. IsFiniteSet(D)
  <2>1. 1 \in Int /\ Len(list) \in Int
    BY <1>1
  <2> QED
    BY <1>1, <2>1, FS_Interval
<1>4. \A k \in D : \E i \in D : I[i] = k
  <2> HIDE DEF D
  <2>1. I \in Injection(D, D)
    BY <1>2 DEF Injection
  <2>2. I \in Surjection(D, D)
    BY <1>3, <2>1, FS_Injection
  <2> QED
    BY <2>2 DEF Surjection
<1>5. DOMAIN s = D /\ \A i \in D : s[i] = list[I[i]]
  BY <1>2
<1>6. Range(s) = Range(list)
  BY <1>2, <1>4, <1>5 DEF Range
<1>7. Len(s) = Len(list)
  BY <1>1, <1>5
<1>8. Disjoint(list) => \A i, j \in D : i < j => Before(s[i], s[j])
  BY DEF Arrangements
<1> QED
  BY <1>5, <1>6, <1>7, <1>8

\* The ranges the server takes from a text are those that were written.
LEMMA WrittenByServer == PathInv => RangesAsWritten
<1> SUFFICES ASSUME PathInv, stage = "serving"
             PROVE  /\ \A list \in Lists : text = TextOf(list) =>
                         /\ Range(ranges) = Range(list)
                         /\ \A i \in 1..(Len(ranges) - 1) : ranges[i].c2 < ranges[i + 1].c1
                    /\ \A i \in DOMAIN ranges :
                         Width(ranges[i]) # Channels(ranges[i]) => ranges[i] = [c1 |-> 0, c2 |-> Word - 1]
  BY DEF RangesAsWritten
<1>1. /\ text \in Texts /\ Accepted(Parsed(text)) /\ ranges \in Arrangements(Parsed(text))
  BY DEF PathInv, Serving
<1>2. ASSUME NEW list \in Lists, text = TextOf(list)
      PROVE  /\ Range(ranges) = Range(list)
             /\ \A i \in 1..(Len(ranges) - 1) : ranges[i].c2 < ranges[i + 1].c1
  <2> DEFINE S == [c1 : 0..MaxMergeChannels, c2 : 0..MaxMergeChannels]
  <2>1. S \subseteq RangeType
    <3>1. 0..MaxMergeChannels \subseteq 0..(Word - 1)
      BY TextAssumption
    <3> QED
      BY <3>1 DEF RangeType
  <2>2. list \in Seq(RangeType) \ {<<>>} /\ Disjoint(list)
    <3>1. /\ list \in UNION {[1..m -> S] : m \in 0..2} /\ list # <<>> /\ Disjoint(list)
      BY DEF Lists, BoundedSeq, SeqOf
    <3> HIDE DEF S
    <3>2. PICK m \in 0..2 : list \in [1..m -> S]
      BY <3>1
    <3>3. list \in [1..m -> RangeType] /\ m \in Nat
      BY <2>1, <3>2
    <3>4. list \in Seq(RangeType)
      BY <3>3
    <3> QED
      BY <3>1, <3>4
  <2>3. Parsed(text) = list
    BY <1>2, <2>2, RangesParsed
  <2>4. /\ Range(ranges) = Range(list)
        /\ DOMAIN ranges = DOMAIN list /\ Len(ranges) = Len(list)
        /\ \A i, j \in DOMAIN ranges : i < j => Before(ranges[i], ranges[j])
    BY <1>1, <2>2, <2>3, ArrangedSame
  <2>5. DOMAIN ranges = 1..Len(ranges) /\ Len(ranges) \in Nat
    BY <2>2, <2>4, LenProperties
  <2>6. ASSUME NEW i \in 1..(Len(ranges) - 1) PROVE ranges[i].c2 < ranges[i + 1].c1
    <3>1. i \in DOMAIN ranges /\ i + 1 \in DOMAIN ranges /\ i < i + 1
      BY <2>5
    <3>2. Before(ranges[i], ranges[i + 1])
      BY <2>4, <3>1
    <3> QED
      BY <3>2 DEF Before
  <2> QED
    BY <2>4, <2>6
<1>3. ASSUME NEW i \in DOMAIN ranges, Width(ranges[i]) # Channels(ranges[i])
      PROVE  ranges[i] = [c1 |-> 0, c2 |-> Word - 1]
  <2> DEFINE q == ranges[i]
  <2>1. q \in RangeType /\ q.c1 <= q.c2
    BY <1>1, RangesTyped
  <2>2. Width(q) = q.c2 - q.c1 + 1 /\ Channels(q) = (q.c2 - q.c1 + 1) % Word
    BY DEF Width, Channels, U16
  <2> HIDE DEF q
  <2>3. /\ q.c1 \in 0..(Word - 1) /\ q.c2 \in 0..(Word - 1) /\ Word \in Nat \ {0}
        /\ q = [c1 |-> q.c1, c2 |-> q.c2]
    BY <2>1, TextAssumption DEF RangeType
  <2>4. \A w \in 1..(Word - 1) : w % Word = w
    BY <2>3
  <2>5. q.c2 - q.c1 + 1 \notin 1..(Word - 1)
    BY <1>3, <2>2, <2>4 DEF q
  <2>6. q.c1 = 0 /\ q.c2 = Word - 1
    BY <2>1, <2>3, <2>5
  <2> QED
    BY <2>3, <2>6 DEF q
<1> QED
  BY <1>2, <1>3

=====================================================================================
