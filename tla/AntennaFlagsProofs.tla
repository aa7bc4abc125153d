-------------------------- MODULE AntennaFlagsProofs --------------------------
(***************************************************************************)
(* Proofs about AntennaFlags, for every number of antennas, whatever the   *)
(* configuration lists and however often it does.                          *)
(***************************************************************************)
EXTENDS AntennaFlags, FiniteSetTheorems, SequenceTheorems, TLAPS

LEMMA FiniteAntennas ==
  /\ IsFiniteSet(Antennas)
  /\ Cardinality(Antennas) = NumAntennas
  /\ Antennas \subseteq Nat
<1>1. NumAntennas \in Nat \ {0} /\ NumAntennas - 1 \in Int
  BY AntennaAssumption
<1>2. IsFiniteSet(0..(NumAntennas - 1)) /\ Cardinality(0..(NumAntennas - 1)) = NumAntennas
  BY <1>1, FS_Interval
<1> QED
  BY <1>2 DEF Antennas

LEMMA FinitePart ==
  ASSUME NEW as \in SUBSET Antennas
  PROVE  IsFiniteSet(as) /\ Cardinality(as) \in Nat
BY FiniteAntennas, FS_Subset, FS_CardinalityType

(***************************************************************************)
(* The rank of an antenna among those of a set tells it from the others.   *)
(***************************************************************************)
Upto(as, a) == {b \in as : b <= a}

LEMMA RankOrder ==
  ASSUME NEW as \in SUBSET Antennas, NEW a \in as, NEW c \in as, a < c
  PROVE  Cardinality(Upto(as, a)) < Cardinality(Upto(as, c))
<1>1. Upto(as, c) \in SUBSET Antennas /\ Upto(as, a) \in SUBSET Antennas
  BY DEF Upto
<1>2. a \in Nat /\ c \in Nat /\ \A b \in as : b \in Nat
  BY FiniteAntennas
<1>3. /\ \A b \in as : b \in Upto(as, a) <=> b <= a
      /\ \A b \in as : b \in Upto(as, c) <=> b <= c
      /\ Upto(as, a) \subseteq as
  BY Zenon DEF Upto
<1>4. c <= c /\ ~(c <= a)
  BY <1>2
<1>5. c \in Upto(as, c) /\ c \notin Upto(as, a)
  BY <1>3, <1>4, Zenon
<1>6. ASSUME NEW b \in Upto(as, a) PROVE b \in Upto(as, c)
  <2>1. b \in as /\ b <= a
    BY <1>3
  <2>2. b <= c
    BY <1>2, <2>1
  <2> QED
    BY <1>3, <2>1, <2>2
<1> DEFINE low == Upto(as, a)
           high == Upto(as, c)
<1>7. low \in SUBSET high /\ low # high
  BY <1>5, <1>6
<1>8. IsFiniteSet(high)
  BY <1>1, FinitePart
<1>9. /\ Cardinality(low) <= Cardinality(high)
      /\ Cardinality(high) # Cardinality(low)
  <2> HIDE DEF low, high
  <2> QED
    BY <1>7, <1>8, FS_Subset
<1>10. Cardinality(low) \in Nat /\ Cardinality(high) \in Nat
  BY <1>1, FinitePart
<1>11. Cardinality(low) < Cardinality(high)
  <2> DEFINE m == Cardinality(low)
             n == Cardinality(high)
  <2>1. m \in Nat /\ n \in Nat /\ m <= n /\ n # m
    BY <1>9, <1>10
  <2> HIDE DEF m, n
  <2>2. m < n
    BY <2>1
  <2> QED
    BY <2>2 DEF m, n
<1> QED
  BY <1>11

LEMMA RankInjective ==
  ASSUME NEW as \in SUBSET Antennas, NEW a \in as, NEW c \in as,
         Cardinality(Upto(as, a)) = Cardinality(Upto(as, c))
  PROVE  a = c
<1>1. a \in Nat /\ c \in Nat
  BY FiniteAntennas
<1>2. Cardinality(Upto(as, a)) \in Nat /\ Cardinality(Upto(as, c)) \in Nat
  <2>1. Upto(as, c) \in SUBSET Antennas /\ Upto(as, a) \in SUBSET Antennas
    BY DEF Upto
  <2> QED
    BY <2>1, FinitePart
<1>3. a < c => Cardinality(Upto(as, a)) < Cardinality(Upto(as, c))
  BY RankOrder
<1>4. c < a => Cardinality(Upto(as, c)) < Cardinality(Upto(as, a))
  BY RankOrder
<1>5. ~(a < c) /\ ~(c < a)
  <2> DEFINE m == Cardinality(Upto(as, a))
             n == Cardinality(Upto(as, c))
  <2>1. /\ m \in Nat /\ n \in Nat /\ m = n
        /\ a < c => m < n
        /\ c < a => n < m
    BY <1>2, <1>3, <1>4
  <2> HIDE DEF m, n
  <2> QED
    BY <2>1
<1> QED
  BY <1>1, <1>5

(***************************************************************************)
(* Injections of a finite set into a set no larger hit all of it.          *)
(***************************************************************************)
LEMMA InjectionHitsAll ==
  ASSUME NEW S, IsFiniteSet(S), NEW T, IsFiniteSet(T), Cardinality(S) = Cardinality(T),
         NEW h \in Injection(S, T)
  PROVE  h \in Surjection(S, T)
<1>0. h \in [S -> T] /\ \A i, j \in S : h[i] = h[j] => i = j
  BY DEF Injection, IsInjective
<1> SUFFICES ASSUME NEW t \in T, \A i \in S : h[i] # t PROVE FALSE
  BY <1>0 DEF Surjection
<1>1. h \in [S -> T \ {t}]
  BY <1>0
<1>2. /\ IsFiniteSet(T \ {t}) /\ Cardinality(T \ {t}) = Cardinality(T) - 1
      /\ Cardinality(T) \in Nat
  BY FS_RemoveElement, FS_CardinalityType
<1>3. Cardinality(T \ {t}) < Cardinality(S)
  BY <1>2
<1>4. \E i, j \in S : i # j /\ h[i] = h[j]
  BY <1>1, <1>2, <1>3, FS_PigeonHole
<1> QED
  BY <1>0, <1>4

(***************************************************************************)
(* So the ranks of the antennas of a set are 1, 2, 3, ..., each once.      *)
(***************************************************************************)
LEMMA Ranks ==
  ASSUME NEW as \in SUBSET Antennas
  PROVE  /\ \A a \in as : Cardinality(Upto(as, a)) \in 1..Cardinality(as)
         /\ \A k \in 1..Cardinality(as) : \E a \in as : Cardinality(Upto(as, a)) = k
<1>1. IsFiniteSet(as) /\ Cardinality(as) \in Nat
  BY FinitePart
<1>2. ASSUME NEW a \in as PROVE Cardinality(Upto(as, a)) \in 1..Cardinality(as)
  <2> DEFINE up == Upto(as, a)
  <2>1. up \in SUBSET as
    BY DEF Upto
  <2>2. a \in up
    <3>1. a \in Nat
      BY FiniteAntennas
    <3>2. a <= a
      BY <3>1
    <3> QED
      BY <3>2, Zenon DEF Upto
  <2> HIDE DEF up
  <2>3. /\ IsFiniteSet(up) /\ Cardinality(up) \in Nat
        /\ Cardinality(up) <= Cardinality(as)
        /\ Cardinality(up) # 0
    BY <1>1, <2>1, <2>2, FS_Subset, FS_EmptySet, FS_CardinalityType
  <2>4. Cardinality(up) \in 1..Cardinality(as)
    <3> DEFINE m == Cardinality(up)
               n == Cardinality(as)
    <3>1. m \in Nat /\ n \in Nat /\ m <= n /\ m # 0
      BY <1>1, <2>3
    <3> HIDE DEF m, n
    <3>2. m \in 1..n
      BY <3>1
    <3> QED
      BY <3>2 DEF m, n
  <2> QED
    BY <2>4 DEF up
<1>3. ASSUME NEW k \in 1..Cardinality(as) PROVE \E a \in as : Cardinality(Upto(as, a)) = k
  <2> DEFINE n == Cardinality(as)
             T == 1..n
             h == [a \in as |-> Cardinality(Upto(as, a))]
  <2>1. h \in [as -> T]
    BY <1>2
  <2>2. \A i, j \in as : h[i] = h[j] => i = j
    BY RankInjective
  <2>3. IsFiniteSet(T) /\ Cardinality(T) = n
    <3> HIDE DEF n
    <3>1. n \in Nat
      BY <1>1 DEF n
    <3>2. 1 \in Int /\ n \in Int
      BY <3>1
    <3>3. IsFiniteSet(1..n) /\ Cardinality(1..n) = IF 1 > n THEN 0 ELSE n - 1 + 1
      BY <3>2, FS_Interval
    <3> QED
      BY <3>1, <3>3
  <2>4. Cardinality(as) = Cardinality(T) /\ k \in T
    BY <2>3
  <2>5. h \in Injection(as, T)
    <3>1. DOMAIN h = as
      OBVIOUS
    <3> HIDE DEF h, T
    <3> QED
      BY <2>1, <2>2, <3>1 DEF Injection, IsInjective
  <2>6. h \in Surjection(as, T)
    <3> HIDE DEF h, T, n
    <3> QED
      BY <1>1, <2>3, <2>4, <2>5, InjectionHitsAll
  <2>7. \E i \in as : h[i] = k
    <3> HIDE DEF h, T
    <3> QED
      BY <2>4, <2>6 DEF Surjection
  <2> QED
    BY <2>7
<1> QED
  BY <1>2, <1>3

(***************************************************************************)
(* The loops over the antennas list each member of the set they look for,  *)
(* once (Flagger.cpp:181-214).                                             *)
(***************************************************************************)
LEMMA Listed ==
  ASSUME NEW as \in SUBSET Antennas
  PROVE  /\ InOrder(as) \in Seq(Antennas)
         /\ Range(InOrder(as)) = as
         /\ IsInjective(InOrder(as))
<1> DEFINE n == Cardinality(as)
           list == InOrder(as)
<1>1. n \in Nat
  BY FinitePart
<1>2. list = [k \in 1..n |-> CHOOSE a \in as : Cardinality(Upto(as, a)) = k]
  BY DEF InOrder, Upto
<1>3. ASSUME NEW k \in 1..n PROVE list[k] \in as /\ Cardinality(Upto(as, list[k])) = k
  <2>1. \E a \in as : Cardinality(Upto(as, a)) = k
    BY Ranks
  <2>2. list[k] = CHOOSE a \in as : Cardinality(Upto(as, a)) = k
    BY <1>2
  <2> QED
    BY <2>1, <2>2
<1>4. list \in [1..n -> as]
  <2>1. list = [k \in 1..n |-> list[k]]
    BY <1>2
  <2> HIDE DEF list
  <2> QED
    BY <1>3, <2>1
<1>5. ASSUME NEW a \in as PROVE \E k \in 1..n : list[k] = a
  <2>1. Cardinality(Upto(as, a)) \in 1..n
    BY Ranks
  <2>2. PICK k \in 1..n : k = Cardinality(Upto(as, a))
    BY <2>1
  <2>3. PICK c \in as : c = list[k] /\ Cardinality(Upto(as, c)) = Cardinality(Upto(as, a))
    BY <1>3, <2>2
  <2>4. c = a
    BY <2>3, RankInjective
  <2> QED
    BY <2>3, <2>4
<1>6. list \in Seq(Antennas) /\ Range(list) = as /\ IsInjective(list)
  <2> HIDE DEF n, list
  <2>1. list \in [1..n -> Antennas] /\ DOMAIN list = 1..n
    BY <1>4
  <2>2. list \in Seq(Antennas)
    BY <1>1, <2>1
  <2>3. Range(list) = as
    BY <1>4, <1>5, <2>1 DEF Range
  <2>4. IsInjective(list)
    <3>1. ASSUME NEW k \in 1..n, NEW l \in 1..n, list[k] = list[l] PROVE k = l
      <4>1. Cardinality(Upto(as, list[k])) = k /\ Cardinality(Upto(as, list[l])) = l
        BY <1>3
      <4> QED
        BY <3>1, <4>1, Zenon
    <3> QED
      BY <2>1, <3>1, Zenon DEF IsInjective
  <2> QED
    BY <2>2, <2>3, <2>4
<1> QED
  BY <1>6

-----------------------------------------------------------------------------
(***************************************************************************)
(* The places of the antennas that are left are 0, 1, 2, ..., each once    *)
(* (Calibrator.cpp:84-107).                                                *)
(***************************************************************************)
LEMMA Places ==
  /\ Cardinality(Left) \in Nat
  /\ \A a \in Left : Place(a) \in 0..(Cardinality(Left) - 1)
  /\ \A a, c \in Left : Place(a) = Place(c) => a = c
  /\ \A k \in 0..(Cardinality(Left) - 1) : \E a \in Left : Place(a) = k
<1>1. Left \in SUBSET Antennas
  BY DEF Left
<1>2. IsFiniteSet(Left) /\ Cardinality(Left) \in Nat
  BY <1>1, FinitePart
<1>3. ASSUME NEW a \in Left
      PROVE  Place(a) = Cardinality(Upto(Left, a)) - 1 /\ Cardinality(Upto(Left, a)) \in Nat
  <2> DEFINE up == Upto(Left, a)
  <2>1. a \in Nat /\ \A b \in Left : b \in Nat
    BY <1>1, FiniteAntennas
  <2>2. \A b \in Left : b < a <=> b <= a /\ b # a
    BY <2>1
  <2>3. {b \in Left : b < a} = up \ {a}
    BY <2>2, Zenon DEF Upto
  <2>4. a \in up /\ IsFiniteSet(up) /\ Cardinality(up) \in Nat
    <3>1. a <= a
      BY <2>1
    <3>2. a \in up
      BY <3>1, Zenon DEF Upto
    <3>3. up \in SUBSET Antennas
      BY <1>1 DEF Upto
    <3> QED
      BY <3>2, <3>3, FinitePart
  <2>5. Cardinality(up \ {a}) = Cardinality(up) - 1
    <3> HIDE DEF up
    <3> QED
      BY <2>4, FS_RemoveElement
  <2> QED
    BY <2>3, <2>4, <2>5 DEF Place
<1>4. ASSUME NEW a \in Left PROVE Place(a) \in 0..(Cardinality(Left) - 1)
  <2>1. Cardinality(Upto(Left, a)) \in 1..Cardinality(Left)
    BY <1>1, Ranks
  <2> DEFINE n == Cardinality(Upto(Left, a))
             m == Cardinality(Left)
  <2>2. Place(a) = n - 1 /\ n \in 1..m /\ m \in Nat
    BY <1>2, <1>3, <2>1
  <2> HIDE DEF n, m
  <2>3. Place(a) \in 0..(m - 1)
    BY <2>2
  <2> QED
    BY <2>3 DEF m
<1>5. ASSUME NEW a \in Left, NEW c \in Left, Place(a) = Place(c) PROVE a = c
  <2> DEFINE m == Cardinality(Upto(Left, a))
             n == Cardinality(Upto(Left, c))
  <2>1. m \in Nat /\ n \in Nat /\ m - 1 = n - 1
    BY <1>3, <1>5
  <2>2. m = n
    <3> HIDE DEF m, n
    <3> QED
      BY <2>1
  <2> QED
    BY <1>1, <2>2, RankInjective
<1>6. ASSUME NEW k \in 0..(Cardinality(Left) - 1) PROVE \E a \in Left : Place(a) = k
  <2>1. k \in Nat /\ k + 1 \in 1..Cardinality(Left)
    BY <1>2
  <2>2. PICK a \in Left : Cardinality(Upto(Left, a)) = k + 1
    BY <1>1, <2>1, Ranks
  <2>3. Place(a) = k
    BY <1>3, <2>1, <2>2
  <2> QED
    BY <2>3
<1> QED
  BY <1>2, <1>4, <1>5, <1>6

(***************************************************************************)
(* A list has at least as many entries as members, and as many if it lists *)
(* nobody twice.                                                           *)
(***************************************************************************)
LEMMA ListLength ==
  ASSUME NEW list \in Seq(Antennas)
  PROVE  /\ Cardinality(Antennas \ Range(list)) \in Nat
         /\ Cardinality(Antennas \ Range(list)) >= NumAntennas - Len(list)
         /\ IsInjective(list)
              => Cardinality(Antennas \ Range(list)) = NumAntennas - Len(list)
<1> DEFINE S == 1..Len(list)
           T == Range(list)
<1>1. Len(list) \in Nat /\ DOMAIN list = S /\ list \in [S -> Antennas]
  OBVIOUS
<1>2. IsFiniteSet(S) /\ Cardinality(S) = Len(list)
  <2> DEFINE n == Len(list)
  <2> HIDE DEF n
  <2>1. n \in Nat
    BY <1>1 DEF n
  <2>2. IsFiniteSet(1..n) /\ Cardinality(1..n) = IF 1 > n THEN 0 ELSE n - 1 + 1
    BY <2>1, FS_Interval
  <2>3. Cardinality(1..n) = n
    BY <2>1, <2>2
  <2> QED
    BY <2>2, <2>3 DEF n
<1>3. list \in Surjection(S, T)
  BY <1>1 DEF Surjection, Range
<1>4. T \in SUBSET Antennas
  BY <1>1 DEF Range
<1>5. IsInjective(list) => list \in Injection(S, T)
  <2>1. list \in [S -> T]
    BY <1>1 DEF Range
  <2> QED
    BY <2>1 DEF Injection
<1> HIDE DEF S, T
<1>6. /\ IsFiniteSet(T) /\ Cardinality(T) \in Nat
      /\ Cardinality(T) <= Cardinality(S)
      /\ IsInjective(list) => Cardinality(T) = Cardinality(S)
  BY <1>2, <1>3, <1>5, FS_Surjection, FS_CardinalityType
<1>7. Antennas \cap T = T
  BY <1>4
<1>8. /\ Cardinality(Antennas \ T) = NumAntennas - Cardinality(T)
      /\ IsFiniteSet(Antennas \ T)
      /\ Cardinality(Antennas \ T) \in Nat
  BY <1>7, FiniteAntennas, FS_Difference, FS_CardinalityType, ZenonT(40)
<1>9. NumAntennas \in Nat
  BY AntennaAssumption
<1> DEFINE m == Cardinality(T)
           r == Cardinality(Antennas \ T)
           l == Len(list)
<1>10. /\ m \in Nat /\ r \in Nat /\ l \in Nat
       /\ m <= l /\ r = NumAntennas - m
       /\ IsInjective(list) => m = l
  BY <1>1, <1>2, <1>6, <1>8
<1>11. r \in Nat /\ r >= NumAntennas - l /\ (IsInjective(list) => r = NumAntennas - l)
  <2> HIDE DEF m, r, l
  <2> QED
    BY <1>9, <1>10
<1> QED
  BY <1>11 DEF T

-----------------------------------------------------------------------------
(***************************************************************************)
(* The invariant: the matrices have the size of the last list, which from  *)
(* the resizing on is the list of the blob, and the blob's data are as     *)
(* measured until the end of the run.                                      *)
(***************************************************************************)
Sized ==
  /\ size = NumAntennas - Len(last)
  /\ pc \in {"squeeze", "solve"} => last = flagged

Measured == pc # "idle" => clean = [cell \in Cells |-> "measured"]

\* What is calibrated fits, if the list has no doubles or the build asserts.
Fitting == pc = "solve" /\ Sound => AllFit

FlagInv == TypeInv /\ MasksAgree /\ Sized /\ Measured /\ Fitting /\ Squeezed /\ PutBack

(***************************************************************************)
(* Flagging the antennas of a list keeps the mask and the list together    *)
(* (Flagger.cpp:167-215).                                                  *)
(***************************************************************************)
LEMMA ConcatRange ==
  ASSUME NEW s \in Seq(Antennas), NEW t \in Seq(Antennas)
  PROVE  s \o t \in Seq(Antennas) /\ Range(s \o t) = Range(s) \cup Range(t)
<1>1. /\ s \o t \in Seq(Antennas)
      /\ Len(s \o t) = Len(s) + Len(t)
      /\ \A i \in 1..(Len(s) + Len(t)) :
           (s \o t)[i] = IF i <= Len(s) THEN s[i] ELSE t[i - Len(s)]
      /\ Len(s) \in Nat /\ Len(t) \in Nat
  BY ConcatProperties, LenProperties
<1>2. /\ DOMAIN s = 1..Len(s) /\ DOMAIN t = 1..Len(t)
      /\ DOMAIN (s \o t) = 1..(Len(s) + Len(t))
  BY <1>1, LenProperties
<1>3. ASSUME NEW a \in Range(s \o t) PROVE a \in Range(s) \cup Range(t)
  <2>1. PICK i \in 1..(Len(s) + Len(t)) : a = (s \o t)[i]
    BY <1>2 DEF Range
  <2>2. CASE i <= Len(s)
    BY <1>1, <1>2, <2>1, <2>2 DEF Range
  <2>3. CASE ~(i <= Len(s))
    <3>1. a = t[i - Len(s)] /\ i - Len(s) \in 1..Len(t)
      BY <1>1, <2>1, <2>3
    <3> QED
      BY <1>2, <3>1 DEF Range
  <2> QED
    BY <2>2, <2>3
<1>4. ASSUME NEW a \in Range(s) PROVE a \in Range(s \o t)
  <2>1. PICK i \in 1..Len(s) : a = s[i]
    BY <1>2 DEF Range
  <2>2. i \in 1..(Len(s) + Len(t)) /\ (s \o t)[i] = a
    BY <1>1, <2>1
  <2> QED
    BY <1>2, <2>2 DEF Range
<1>5. ASSUME NEW a \in Range(t) PROVE a \in Range(s \o t)
  <2>1. PICK i \in 1..Len(t) : a = t[i]
    BY <1>2 DEF Range
  <2>2. /\ i + Len(s) \in 1..(Len(s) + Len(t)) /\ ~(i + Len(s) <= Len(s))
        /\ (i + Len(s)) - Len(s) = i
    BY <1>1, <2>1
  <2>3. (s \o t)[i + Len(s)] = a
    BY <1>1, <2>1, <2>2
  <2> QED
    BY <1>2, <2>2, <2>3 DEF Range
<1> QED
  BY <1>1, <1>3, <1>4, <1>5

LEMMA FlagStep ==
  ASSUME flagged \in Seq(Antennas), masks \subseteq Cells, MasksAgree,
         NEW list \in Seq(Antennas), Flag(list)
  PROVE  flagged' \in Seq(Antennas) /\ masks' \subseteq Cells /\ MasksAgree'
<1>1. /\ flagged' \in Seq(Antennas)
      /\ Range(flagged') = Range(flagged) \cup Range(list)
  BY ConcatRange DEF Flag
<1>2. ASSUME NEW cell \in Cells
      PROVE  cell \in masks' <=>
               cell \in masks \/ cell[1] \in Range(list) \/ cell[2] \in Range(list)
  BY DEF Flag, Cross
<1>3. masks' \subseteq Cells
  BY DEF Flag, Cross
<1>4. MasksAgree'
  <2> SUFFICES ASSUME NEW cell \in Cells
               PROVE  cell \in masks' <=>
                        cell[1] = cell[2] \/ {cell[1], cell[2]} \cap Range(flagged') # {}
    BY DEF MasksAgree
  <2>1. cell \in masks <=>
          cell[1] = cell[2] \/ cell[1] \in Range(flagged) \/ cell[2] \in Range(flagged)
    BY DEF MasksAgree
  <2>2. {cell[1], cell[2]} \cap Range(flagged') # {} <=>
          cell[1] \in Range(flagged') \/ cell[2] \in Range(flagged')
    OBVIOUS
  <2> QED
    BY <1>1, <1>2, <2>1, <2>2
<1> QED
  BY <1>1, <1>3, <1>4

-----------------------------------------------------------------------------
(***************************************************************************)
(* The cells of the antennas that are left fill a square, one for each of  *)
(* its cells, and the matrices are no larger; they are as large if the     *)
(* list is free of doubles (Calibrator.cpp:75-107).                        *)
(***************************************************************************)
LEMMA Square ==
  ASSUME last \in Seq(Antennas), size = NumAntennas - Len(last)
  PROVE  /\ \A cell \in LeftCells : PlaceOf(cell) \in Cells
         /\ \A from, to \in LeftCells : PlaceOf(from) = PlaceOf(to) => from = to
         /\ \A cell \in Cells : Fits(cell) => \E from \in LeftCells : PlaceOf(from) = cell
         /\ IsInjective(last) => \A cell \in LeftCells : Fits(PlaceOf(cell))
<1> DEFINE n == Cardinality(Left)
<1>1. /\ n \in Nat /\ size \in Int /\ size <= n /\ n <= NumAntennas
      /\ IsInjective(last) => n = size
  <2>1. /\ Cardinality(Antennas \ Range(last)) \in Nat
        /\ Cardinality(Antennas \ Range(last)) >= NumAntennas - Len(last)
        /\ IsInjective(last)
             => Cardinality(Antennas \ Range(last)) = NumAntennas - Len(last)
    BY ListLength
  <2>2. /\ n \in Nat /\ n >= NumAntennas - Len(last)
        /\ IsInjective(last) => n = NumAntennas - Len(last)
    BY <2>1 DEF Left
  <2>3. Cardinality(Left) <= Cardinality(Antennas)
    BY FiniteAntennas, FS_Subset DEF Left
  <2>4. n <= NumAntennas
    BY <2>3, FiniteAntennas
  <2>5. Len(last) \in Nat /\ NumAntennas \in Nat
    BY AntennaAssumption
  <2> HIDE DEF n
  <2> QED
    BY <2>2, <2>4, <2>5
<1>2. /\ \A a \in Left : Place(a) \in 0..(n - 1)
      /\ \A a, c \in Left : Place(a) = Place(c) => a = c
      /\ \A k \in 0..(n - 1) : \E a \in Left : Place(a) = k
  BY Places
<1> HIDE DEF n
<1>3. NumAntennas \in Nat
  BY AntennaAssumption
<1>4. ASSUME NEW cell \in LeftCells PROVE PlaceOf(cell) \in Cells
  <2>1. cell[1] \in Left /\ cell[2] \in Left
    BY DEF LeftCells
  <2>2. Place(cell[1]) \in Antennas /\ Place(cell[2]) \in Antennas
    BY <1>1, <1>2, <1>3, <2>1 DEF Antennas
  <2> QED
    BY <2>2 DEF PlaceOf, Cells
<1>5. ASSUME NEW from \in LeftCells, NEW to \in LeftCells, PlaceOf(from) = PlaceOf(to)
      PROVE  from = to
  <2>1. /\ from[1] \in Left /\ from[2] \in Left /\ from = <<from[1], from[2]>>
        /\ to[1] \in Left /\ to[2] \in Left /\ to = <<to[1], to[2]>>
    BY DEF LeftCells
  <2>2. Place(from[1]) = Place(to[1]) /\ Place(from[2]) = Place(to[2])
    BY <1>5 DEF PlaceOf
  <2>3. from[1] = to[1] /\ from[2] = to[2]
    BY <1>2, <2>1, <2>2
  <2> QED
    BY <2>1, <2>3
<1>6. ASSUME NEW cell \in Cells, Fits(cell)
      PROVE  \E from \in LeftCells : PlaceOf(from) = cell
  <2>1. /\ cell[1] \in Nat /\ cell[2] \in Nat /\ cell = <<cell[1], cell[2]>>
        /\ cell[1] < size /\ cell[2] < size
    BY <1>3, <1>6 DEF Cells, Antennas, Fits
  <2>2. cell[1] \in 0..(n - 1) /\ cell[2] \in 0..(n - 1)
    BY <1>1, <2>1
  <2>3. PICK a \in Left : Place(a) = cell[1]
    BY <1>2, <2>2
  <2>4. PICK c \in Left : Place(c) = cell[2]
    BY <1>2, <2>2
  <2>5. <<a, c>> \in LeftCells /\ PlaceOf(<<a, c>>) = cell
    BY <2>1, <2>3, <2>4 DEF LeftCells, PlaceOf
  <2> QED
    BY <2>5
<1>7. ASSUME IsInjective(last), NEW cell \in LeftCells PROVE Fits(PlaceOf(cell))
  <2>1. cell[1] \in Left /\ cell[2] \in Left
    BY DEF LeftCells
  <2>2. Place(cell[1]) \in 0..(size - 1) /\ Place(cell[2]) \in 0..(size - 1)
    BY <1>1, <1>2, <1>7, <2>1
  <2>3. Place(cell[1]) < size /\ Place(cell[2]) < size
    BY <1>1, <2>2
  <2> QED
    BY <2>3 DEF Fits, PlaceOf
<1> QED
  BY <1>4, <1>5, <1>6, <1>7

(***************************************************************************)
(* Places that fit have an index of their own, inside the memory.          *)
(***************************************************************************)
LEMMA IndexOfFitting ==
  ASSUME size \in Nat, NEW p \in Cells, Fits(p)
  PROVE  /\ InMemory(p)
         /\ \A q \in Cells : Fits(q) /\ Index(q) = Index(p) => q = p
<1> DEFINE s == size
<1>1. \A k \in Cells : k = <<k[1], k[2]>> /\ k[1] \in Nat /\ k[2] \in Nat
  BY AntennaAssumption DEF Cells, Antennas
<1>2. p[1] < s /\ p[2] < s
  BY DEF Fits
<1>3. s \in Nat /\ \A x, y \in Nat : x < y => x * s + s <= y * s
  <2>1. \A x, y, z \in Nat : x < y => x * z + z <= y * z
    BY Z3T(30)
  <2> QED
    BY <2>1
<1>4. \A x \in Nat : x * s \in Nat
  <2>1. \A x, z \in Nat : x * z \in Nat
    BY Z3T(30)
  <2> QED
    BY <1>3, <2>1
<1>5. InMemory(p)
  <2> DEFINE m == p[2] * s
             n == s * s
  <2>1. m \in Nat /\ n \in Nat /\ m + s <= n
    BY <1>1, <1>2, <1>3, <1>4
  <2> HIDE DEF m, n
  <2>2. p[1] + m < n
    BY <1>1, <1>2, <1>3, <2>1
  <2> QED
    BY <2>2 DEF InMemory, Index, m, n
<1>6. ASSUME NEW q \in Cells, Fits(q), Index(q) = Index(p) PROVE q = p
  <2> DEFINE m == p[2] * s
             n == q[2] * s
  <2>1. /\ m \in Nat /\ n \in Nat
        /\ p[2] < q[2] => m + s <= n
        /\ q[2] < p[2] => n + s <= m
        /\ p[2] = q[2] => m = n
    BY <1>1, <1>3, <1>4
  <2>2. q[1] < s /\ q[1] + n = p[1] + m
    BY <1>6 DEF Fits, Index
  <2> HIDE DEF m, n
  <2>3. ~(p[2] < q[2]) /\ ~(q[2] < p[2])
    BY <1>1, <1>2, <1>3, <2>1, <2>2
  <2>4. p[2] = q[2]
    BY <1>1, <2>3
  <2>5. p[1] = q[1]
    BY <1>1, <2>1, <2>2, <2>4
  <2> QED
    BY <1>1, <2>4, <2>5
<1> QED
  BY <1>5, <1>6

LEMMA LeastNatural ==
  ASSUME NEW T \in SUBSET Nat, T # {}
  PROVE  \E n \in T : \A k \in T : n <= k
<1>1. PICK n \in T : \A k \in T : <<k, n>> \notin OpToRel(<, Nat)
  BY NatLessThanWellFounded, WFMin
<1>2. \A k \in T : ~(k < n)
  BY <1>1 DEF OpToRel
<1> QED
  BY <1>2

\* One of the cells that are written to the memory of a place is the last one.
LEMMA LastIsWritten ==
  ASSUME NEW to, WrittenTo(to) # {}
  PROVE  LastWritten(to) \in WrittenTo(to)
<1> DEFINE S == WrittenTo(to)
           T == {NumAntennas - from[1] : from \in S}
<1>1. NumAntennas \in Nat /\ \A from \in S : from[1] \in Nat /\ from[1] <= NumAntennas
  BY AntennaAssumption DEF WrittenTo, LeftCells, Left, Antennas
<1>2. T \in SUBSET Nat /\ T # {}
  BY <1>1
<1>3. PICK n \in T : \A k \in T : n <= k
  BY <1>2, LeastNatural
<1>4. PICK from \in S : n = NumAntennas - from[1]
  BY <1>3
<1>5. \A other \in S : other[1] <= from[1]
  <2> SUFFICES ASSUME NEW other \in S PROVE other[1] <= from[1]
    OBVIOUS
  <2>1. n <= NumAntennas - other[1]
    BY <1>3
  <2> QED
    BY <1>1, <1>4, <2>1
<1> QED
  BY <1>5 DEF LastWritten

(***************************************************************************)
(* Squeezing fills the matrices (Calibrator.cpp:75-107).                   *)
(***************************************************************************)
LEMMA SqueezeStep ==
  ASSUME FlagInv, Squeeze
  PROVE  FlagInv'
<1>0. /\ TypeInv /\ MasksAgree /\ Sized /\ Measured
      /\ pc = "squeeze" /\ pc' \in {"solve", "aborted"} /\ last = flagged
      /\ last \in Seq(Antennas) /\ size = NumAntennas - Len(last) /\ size \in Nat
      /\ build = "release" \/ AllFit
      /\ last' = last /\ size' = size /\ flagged' = flagged /\ masks' = masks
      /\ clean' = clean /\ build' = build
  BY AntennaAssumption DEF FlagInv, Squeeze, Sized, TypeInv
<1>1. /\ \A cell \in LeftCells : PlaceOf(cell) \in Cells
      /\ \A from, to \in LeftCells : PlaceOf(from) = PlaceOf(to) => from = to
      /\ \A cell \in Cells : Fits(cell) => \E from \in LeftCells : PlaceOf(from) = cell
      /\ IsInjective(last) => AllFit
  BY <1>0, Square DEF AllFit
<1>2. LeftCells \subseteq Cells
  BY DEF LeftCells, Left, Cells
<1>3. \A cell \in Cells :
        squeezed'[cell] = IF Fits(cell) /\ WrittenTo(cell) # {} THEN LastWritten(cell)
                          ELSE Stale
  BY DEF Squeeze
<1>4. squeezed' \in [Cells -> Cells \cup {Stale}]
  <2>1. squeezed' = [cell \in Cells |-> squeezed'[cell]]
    BY DEF Squeeze
  <2>2. \A cell : WrittenTo(cell) \subseteq Cells
    BY <1>2 DEF WrittenTo
  <2>3. \A cell \in Cells : squeezed'[cell] \in Cells \cup {Stale}
    BY <1>3, <2>2, LastIsWritten
  <2> QED
    BY <2>1, <2>3
<1>5. outside' \subseteq Cells
  BY <1>1 DEF Squeeze
<1>6. TypeInv'
  BY <1>0, <1>4, <1>5 DEF TypeInv, Squeeze
<1>7. /\ LeftCells' = LeftCells /\ AllFit' = AllFit
      /\ \A cell : Fits(cell)' <=> Fits(cell)
  BY <1>0 DEF LeftCells, Left, Fits, PlaceOf, Place, AllFit
<1>8. Sound' => AllFit
  BY <1>0, <1>1 DEF Sound, Once
<1>9. ASSUME AllFit, NEW cell \in Cells, Fits(cell)
      PROVE  squeezed'[cell] \in LeftCells /\ PlaceOf(squeezed'[cell]) = cell
  <2>1. PICK from \in LeftCells : PlaceOf(from) = cell
    BY <1>1, <1>9
  <2>2. from \in WrittenTo(cell)
    BY <2>1 DEF WrittenTo
  <2>3. ASSUME NEW other \in WrittenTo(cell) PROVE other = from
    <3>1. /\ other \in LeftCells /\ PlaceOf(other) \in Cells /\ Fits(PlaceOf(other))
          /\ Index(PlaceOf(other)) = Index(cell)
      BY <1>1, <1>9 DEF WrittenTo, AllFit
    <3>2. PlaceOf(other) = cell
      BY <1>0, <1>9, <3>1, IndexOfFitting
    <3> QED
      BY <1>1, <2>1, <3>1, <3>2
  <2>4. LastWritten(cell) = from
    BY <2>2, <2>3, LastIsWritten
  <2> QED
    BY <1>3, <1>9, <2>1, <2>2, <2>4
<1>10. AllFit => outside' = {}
  <2> SUFFICES ASSUME AllFit, NEW from \in LeftCells PROVE InMemory(PlaceOf(from))
    BY DEF Squeeze
  <2> QED
    BY <1>0, <1>1, IndexOfFitting DEF AllFit
<1>11. Squeezed'
  <2> SUFFICES ASSUME Sound'
               PROVE  /\ \A cell \in Cells : Fits(cell)' =>
                           squeezed'[cell] \in LeftCells' /\ PlaceOf(squeezed[cell])' = cell
                      /\ outside' = {}
    BY DEF Squeezed
  <2>1. ASSUME NEW cell \in Cells, Fits(cell)'
        PROVE  squeezed'[cell] \in LeftCells' /\ PlaceOf(squeezed[cell])' = cell
    <3>1. squeezed'[cell] \in LeftCells /\ PlaceOf(squeezed'[cell]) = cell
      BY <1>7, <1>8, <1>9, <2>1
    <3> QED
      BY <1>0, <3>1 DEF LeftCells, Left, PlaceOf, Place
  <2> QED
    BY <1>8, <1>10, <2>1
<1>12. MasksAgree' /\ Sized' /\ Measured' /\ Fitting' /\ PutBack'
  BY <1>0, <1>7, <1>8 DEF MasksAgree, Sized, Measured, Fitting, PutBack
<1> QED
  BY <1>6, <1>11, <1>12 DEF FlagInv

(***************************************************************************)
(* A program that has ended changes nothing any more (Calibrator.cpp:79,   *)
(* 100).                                                                   *)
(***************************************************************************)
LEMMA AbortStep ==
  ASSUME FlagInv, ResizeFails \/ SqueezeAsserts
  PROVE  FlagInv'
<1>1. /\ pc' = "aborted" /\ pc # "idle"
      /\ UNCHANGED <<build, config, runs, strength, flagged, masks, last, size, squeezed,
                     outside, clean>>
  BY DEF ResizeFails, SqueezeAsserts
<1>2. TypeInv' /\ MasksAgree'
  BY <1>1 DEF FlagInv, TypeInv, MasksAgree
<1>3. Sized' /\ Measured' /\ Fitting' /\ Squeezed' /\ PutBack'
  BY <1>1 DEF FlagInv, Sized, Measured, Fitting, Squeezed, PutBack
<1> QED
  BY <1>2, <1>3 DEF FlagInv

(***************************************************************************)
(* A new run begins in a blob that was reset (StreamAdapter.cpp:26).       *)
(***************************************************************************)
LEMMA StartStep ==
  ASSUME FlagInv, Start
  PROVE  FlagInv'
<1>0. TypeInv /\ Sized /\ pc' = "config" /\ last' = last /\ size' = size
  BY DEF FlagInv, Start
<1>1. flagged' = <<>> /\ masks' = {<<a, a>> : a \in Antennas}
  BY DEF Start
<1>2. TypeInv'
  <2>1. /\ runs' \in 0..MaxRuns /\ strength' \in [Antennas -> 0..MaxStrength]
        /\ config' = config /\ build' = build
    BY <1>0, AntennaAssumption DEF Start, TypeInv
  <2>2. masks' \subseteq Cells /\ flagged' \in Seq(Antennas)
    BY <1>1 DEF Cells
  <2>3. /\ squeezed' \in [Cells -> Cells \cup {Stale}]
        /\ clean' \in [Cells -> {"measured", "calibrated", "garbage"}]
        /\ outside' = {}
    BY DEF Start
  <2> QED
    BY <1>0, <2>1, <2>2, <2>3 DEF TypeInv
<1>3. MasksAgree'
  <2>1. Range(<<>>) = {}
    BY DEF Range
  <2>2. \A cell \in Cells : cell \in masks' <=> cell[1] = cell[2]
    BY <1>1 DEF Cells
  <2> QED
    BY <1>1, <2>1, <2>2 DEF MasksAgree
<1>4. Sized' /\ Measured' /\ Fitting' /\ Squeezed' /\ PutBack'
  BY <1>0 DEF Start, Sized, Measured, Fitting, Squeezed, PutBack
<1> QED
  BY <1>2, <1>3, <1>4 DEF FlagInv

(***************************************************************************)
(* The three ways an antenna is flagged (Flagger.cpp:167-215).             *)
(***************************************************************************)
LEMMA FlaggerStep ==
  ASSUME FlagInv, FlagConfigured \/ FlagDead \/ SigmaClip
  PROVE  FlagInv'
<1>0. /\ TypeInv /\ MasksAgree /\ Sized /\ Measured
      /\ flagged \in Seq(Antennas) /\ masks \subseteq Cells
  BY DEF FlagInv, TypeInv
<1>1. /\ pc \in {"config", "dead", "clip"} /\ pc' \in {"dead", "clip", "resize"}
      /\ UNCHANGED <<build, config, runs, strength, last, size, squeezed, outside, clean>>
  BY DEF FlagConfigured, FlagDead, SigmaClip
<1>2. \E list \in Seq(Antennas) : Flag(list)
  <2>1. CASE FlagConfigured
    BY <1>0, <2>1 DEF FlagConfigured, TypeInv
  <2>2. CASE FlagDead
    <3> DEFINE as == {a \in Antennas : strength[a] = 0} \ Range(flagged)
    <3>1. InOrder(as) \in Seq(Antennas)
      BY Listed
    <3> QED
      BY <2>2, <3>1 DEF FlagDead
  <2>3. CASE SigmaClip
    <3> DEFINE as == {a \in Antennas : Bad(a)}
    <3>1. InOrder(as) \in Seq(Antennas)
      BY Listed
    <3> QED
      BY <2>3, <3>1 DEF SigmaClip
  <2> QED
    BY <2>1, <2>2, <2>3
<1>3. PICK list \in Seq(Antennas) : Flag(list)
  BY <1>2
<1>4. flagged' \in Seq(Antennas) /\ masks' \subseteq Cells /\ MasksAgree'
  BY <1>0, <1>3, FlagStep
<1>5. TypeInv'
  BY <1>0, <1>1, <1>4 DEF TypeInv
<1>6. Sized' /\ Measured' /\ Fitting' /\ Squeezed' /\ PutBack'
  BY <1>0, <1>1 DEF Sized, Measured, Fitting, Squeezed, PutBack
<1> QED
  BY <1>4, <1>5, <1>6 DEF FlagInv

LEMMA ResizeStep ==
  ASSUME FlagInv, Resize
  PROVE  FlagInv'
<1>0. /\ TypeInv /\ MasksAgree /\ Sized /\ Measured
      /\ flagged \in Seq(Antennas) /\ pc = "resize" /\ pc' = "squeeze"
      /\ last' = flagged /\ flagged' = flagged /\ masks' = masks
      /\ Len(last) # Len(flagged) => NumAntennas - Len(flagged) >= 0
      /\ size' = IF Len(last) # Len(flagged) THEN NumAntennas - Len(flagged) ELSE size
      /\ UNCHANGED <<build, config, runs, strength, squeezed, outside, clean>>
  BY DEF FlagInv, TypeInv, Resize, Changed, NewSize
<1>1. size' = NumAntennas - Len(flagged)
  BY <1>0 DEF Sized
<1>2. size' \in 0..NumAntennas
  <2>1. Len(flagged) \in Nat /\ NumAntennas \in Nat /\ size \in 0..NumAntennas
    BY <1>0, AntennaAssumption DEF TypeInv
  <2> QED
    BY <1>0, <1>1, <2>1
<1>3. TypeInv'
  BY <1>0, <1>2 DEF TypeInv
<1>4. Sized'
  BY <1>0, <1>1 DEF Sized
<1>5. MasksAgree' /\ Measured' /\ Fitting' /\ Squeezed' /\ PutBack'
  BY <1>0 DEF MasksAgree, Measured, Fitting, Squeezed, PutBack
<1> QED
  BY <1>3, <1>4, <1>5 DEF FlagInv

(***************************************************************************)
(* The end of a run: the data stay as they are, or every pair that is left *)
(* gets its own calibrated cell back (Calibrator.cpp:136-193).             *)
(***************************************************************************)
LEMMA GiveUpStep ==
  ASSUME FlagInv, GiveUp
  PROVE  FlagInv'
<1>0. /\ TypeInv /\ MasksAgree /\ Sized /\ Measured
      /\ pc = "solve" /\ pc' = "idle"
      /\ UNCHANGED <<build, config, runs, strength, flagged, masks, last, size, squeezed,
                     outside, clean>>
  BY DEF FlagInv, GiveUp
<1>1. TypeInv' /\ MasksAgree' /\ Sized' /\ Measured' /\ Fitting' /\ Squeezed'
  BY <1>0 DEF TypeInv, MasksAgree, Sized, Measured, Fitting, Squeezed
<1>2. \A cell \in Cells : clean'[cell] = "measured"
  BY <1>0 DEF Measured
<1>3. PutBack'
  BY <1>2 DEF PutBack
<1> QED
  BY <1>1, <1>3 DEF FlagInv

LEMMA ReconstructStep ==
  ASSUME FlagInv, Reconstruct
  PROVE  FlagInv'
<1>0. /\ TypeInv /\ MasksAgree /\ Sized /\ Measured /\ Fitting /\ Squeezed
      /\ pc = "solve" /\ pc' = "idle" /\ last = flagged
      /\ last \in Seq(Antennas) /\ size = NumAntennas - Len(last) /\ size \in Nat
      /\ UNCHANGED <<build, config, runs, strength, flagged, masks, last, size, squeezed,
                     outside>>
  BY AntennaAssumption DEF FlagInv, Reconstruct, Sized, TypeInv
<1>1. /\ \A cell \in LeftCells : PlaceOf(cell) \in Cells
      /\ \A from, to \in LeftCells : PlaceOf(from) = PlaceOf(to) => from = to
  BY <1>0, Square
<1>2. LeftCells \subseteq Cells
  BY DEF LeftCells, Left, Cells
<1>3. \A cell \in Cells : clean[cell] = "measured"
  BY <1>0 DEF Measured
<1>4. ASSUME NEW cell \in Cells
      PROVE  /\ clean'[cell] \in {"measured", "calibrated", "garbage"}
             /\ cell \notin LeftCells => clean'[cell] = "measured"
             /\ cell \in LeftCells /\ Sound => clean'[cell] = "calibrated"
  <2>1. clean'[cell] = IF cell \notin LeftCells THEN clean[cell]
                       ELSE IF Read(PlaceOf(cell)) = cell THEN "calibrated" ELSE "garbage"
    BY DEF Reconstruct
  <2>2. ASSUME cell \in LeftCells, Sound
        PROVE  Read(PlaceOf(cell)) = cell
    <3> DEFINE place == PlaceOf(cell)
               inside == {to \in Cells : Fits(to) /\ Index(to) = Index(place)}
    <3>1. place \in Cells /\ Fits(place)
      BY <1>0, <1>1, <2>2 DEF Fitting, AllFit
    <3>2. squeezed[place] \in LeftCells /\ PlaceOf(squeezed[place]) = place
      BY <1>0, <2>2, <3>1 DEF Squeezed
    <3>3. squeezed[place] = cell
      BY <1>1, <2>2, <3>2
    <3>4. inside = {place}
      <4> HIDE DEF place
      <4> QED
        BY <1>0, <3>1, IndexOfFitting
    <3>5. Read(place) = squeezed[place]
      <4>1. Read(place) = IF inside = {} THEN Stale ELSE squeezed[CHOOSE to \in inside : TRUE]
        BY DEF Read
      <4> HIDE DEF place, inside
      <4> QED
        BY <3>4, <4>1
    <3> QED
      BY <3>3, <3>5
  <2> QED
    BY <1>3, <2>1, <2>2
<1>5. TypeInv'
  <2>1. clean' = [cell \in Cells |-> clean'[cell]]
    BY DEF Reconstruct
  <2>2. clean' \in [Cells -> {"measured", "calibrated", "garbage"}]
    BY <1>4, <2>1
  <2> QED
    BY <1>0, <2>2 DEF TypeInv
<1>6. PutBack'
  <2> SUFFICES ASSUME Sound'
               PROVE  LET some == {cell \in Cells : clean'[cell] # "measured"}
                      IN /\ some \in {{}, LeftCells'}
                         /\ \A cell \in some : clean'[cell] = "calibrated"
    BY DEF PutBack
  <2>1. Sound
    BY <1>0 DEF Sound, Once
  <2>2. LeftCells' = LeftCells
    BY <1>0 DEF LeftCells, Left
  <2> DEFINE some == {cell \in Cells : clean'[cell] # "measured"}
  <2>3. some = LeftCells
    BY <1>2, <1>4, <2>1
  <2>4. \A cell \in some : clean'[cell] = "calibrated"
    BY <1>4, <2>1, <2>3
  <2> QED
    BY <2>2, <2>3, <2>4
<1>7. MasksAgree' /\ Sized' /\ Measured' /\ Fitting' /\ Squeezed'
  BY <1>0 DEF MasksAgree, Sized, Measured, Fitting, Squeezed
<1> QED
  BY <1>5, <1>6, <1>7 DEF FlagInv

-----------------------------------------------------------------------------
LEMMA FlagInvariant ==
  ASSUME FlagInv, [Next]_vars
  PROVE  FlagInv'
<1>1. CASE UNCHANGED vars
  <2> USE <1>1 DEF vars
  <2>1. TypeInv' /\ MasksAgree' /\ Sized' /\ Measured'
    BY DEF FlagInv, TypeInv, MasksAgree, Sized, Measured
  <2>2. Fitting' /\ Squeezed'
    BY DEF FlagInv, Fitting, AllFit, Squeezed, Fits, LeftCells, Left, PlaceOf, Place,
           Sound, Once
  <2>3. PutBack'
    BY DEF FlagInv, PutBack, LeftCells, Left, Sound, Once
  <2> QED
    BY <2>1, <2>2, <2>3 DEF FlagInv
<1> QED
  BY <1>1, StartStep, FlaggerStep, ResizeStep, SqueezeStep, AbortStep, GiveUpStep,
     ReconstructStep
     DEF Next

LEMMA FlagInvariance == Spec => []FlagInv
<1>1. Init => FlagInv
  <2> SUFFICES ASSUME Init PROVE FlagInv
    OBVIOUS
  <2>0. NumAntennas \in Nat /\ MaxRuns \in Nat /\ MaxStrength \in Nat
    BY AntennaAssumption
  <2>1. config \in Seq(Antennas)
    BY TextsAssumption DEF Init
  <2>2. Range(<<>>) = {} /\ <<>> \in Seq(Antennas) /\ Len(<<>>) = 0
    BY DEF Range
  <2>3. /\ masks \subseteq Cells
        /\ \A cell \in Cells : cell \in masks <=> cell[1] = cell[2]
    BY DEF Init, Cells
  <2>4. TypeInv
    BY <2>0, <2>1, <2>2, <2>3 DEF Init, TypeInv
  <2>5. MasksAgree
    BY <2>2, <2>3 DEF Init, MasksAgree
  <2>6. Sized /\ Measured /\ Fitting /\ Squeezed
    BY <2>0, <2>2 DEF Init, Sized, Measured, Fitting, Squeezed
  <2>7. PutBack
    BY DEF Init, PutBack
  <2> QED
    BY <2>4, <2>5, <2>6, <2>7 DEF FlagInv
<1>2. FlagInv /\ [Next]_vars => FlagInv'
  BY FlagInvariant
<1> QED
  BY <1>1, <1>2, PTL DEF Spec

(***************************************************************************)
(* The types are right, for every number of antennas, if the configuration *)
(* lists antennas (Flagger.cpp:150-215, Calibrator.cpp:62-193).            *)
(***************************************************************************)
THEOREM TypeCorrect == Spec => []TypeInv
<1>1. FlagInv => TypeInv
  BY DEF FlagInv
<1> QED
  BY FlagInvariance, <1>1, PTL

(***************************************************************************)
(* The mask and the list of a blob always say the same                     *)
(* (Flagger.cpp:167-215).                                                  *)
(***************************************************************************)
THEOREM MasksAlwaysAgree == Spec => []MasksAgree
<1>1. FlagInv => MasksAgree
  BY DEF FlagInv
<1> QED
  BY FlagInvariance, <1>1, PTL

(***************************************************************************)
(* If no antenna is listed twice or if the build asserts, the matrices     *)
(* that are calibrated have the pair of its place in each cell, whatever   *)
(* was flagged in the runs before (Calibrator.cpp:75-107).                 *)
(***************************************************************************)
THEOREM AlwaysSqueezed == Spec => []Squeezed
<1>1. FlagInv => Squeezed
  BY DEF FlagInv
<1> QED
  BY FlagInvariance, <1>1, PTL

(***************************************************************************)
(* A run calibrates every pair of antennas that are left or none, if no    *)
(* antenna is listed twice or if the build asserts (Calibrator.cpp:136-193). *)
(***************************************************************************)
THEOREM AlwaysPutBack == Spec => []PutBack
<1>1. FlagInv => PutBack
  BY DEF FlagInv
<1> QED
  BY FlagInvariance, <1>1, PTL

-----------------------------------------------------------------------------
(***************************************************************************)
(* Whatever is twice in the concatenation of two lists that have nothing   *)
(* twice is in both.                                                       *)
(***************************************************************************)
Twice(list, a) == \E i, j \in DOMAIN list : i # j /\ list[i] = a /\ list[j] = a

LEMMA ConcatTwice ==
  ASSUME NEW s \in Seq(Antennas), IsInjective(s), NEW t \in Seq(Antennas), IsInjective(t),
         NEW a, Twice(s \o t, a)
  PROVE  a \in Range(s) \cap Range(t)
<1>1. /\ Len(s) \in Nat /\ Len(t) \in Nat /\ s \o t \in Seq(Antennas)
      /\ Len(s \o t) = Len(s) + Len(t)
      /\ \A i \in 1..(Len(s) + Len(t)) :
           (s \o t)[i] = IF i <= Len(s) THEN s[i] ELSE t[i - Len(s)]
  BY ConcatProperties, LenProperties
<1>2. /\ DOMAIN s = 1..Len(s) /\ DOMAIN t = 1..Len(t)
      /\ DOMAIN (s \o t) = 1..(Len(s) + Len(t))
  BY <1>1, LenProperties
<1>3. /\ \A i, j \in 1..Len(s) : s[i] = s[j] => i = j
      /\ \A i, j \in 1..Len(t) : t[i] = t[j] => i = j
  BY <1>2 DEF IsInjective
<1>4. PICK i \in 1..(Len(s) + Len(t)), j \in 1..(Len(s) + Len(t)) :
        i # j /\ (s \o t)[i] = a /\ (s \o t)[j] = a
  BY <1>2 DEF Twice
<1>5. ASSUME NEW k \in 1..(Len(s) + Len(t)), (s \o t)[k] = a
      PROVE  IF k <= Len(s) THEN k \in 1..Len(s) /\ s[k] = a
             ELSE k - Len(s) \in 1..Len(t) /\ t[k - Len(s)] = a
  BY <1>1, <1>5
<1>6. /\ IF i <= Len(s) THEN i \in 1..Len(s) /\ s[i] = a
         ELSE i - Len(s) \in 1..Len(t) /\ t[i - Len(s)] = a
      /\ IF j <= Len(s) THEN j \in 1..Len(s) /\ s[j] = a
         ELSE j - Len(s) \in 1..Len(t) /\ t[j - Len(s)] = a
  BY <1>4, <1>5
<1>7. ~(i <= Len(s) /\ j <= Len(s))
  BY <1>3, <1>4, <1>6
<1>8. i <= Len(s) \/ j <= Len(s)
  <2> SUFFICES ASSUME ~(i <= Len(s)), ~(j <= Len(s)) PROVE FALSE
    OBVIOUS
  <2>1. i - Len(s) = j - Len(s)
    BY <1>3, <1>6
  <2> QED
    BY <1>1, <1>4, <2>1
<1>9. /\ \E k \in 1..Len(s) : s[k] = a
      /\ \E k \in 1..Len(t) : t[k] = a
  BY <1>6, <1>7, <1>8
<1> QED
  BY <1>2, <1>9 DEF Range

(***************************************************************************)
(* With a configuration that lists nobody twice, the list of a blob has    *)
(* nobody twice until the sigma clip, and all it has are configured or     *)
(* dead.                                                                   *)
(***************************************************************************)
Proper == IsInjective(config)
Known(a) == a \in Range(config) \/ strength[a] = 0

OnceUntilClip ==
  Proper =>
    /\ pc = "config" => flagged = <<>>
    /\ pc \in {"config", "dead", "clip"} => Once /\ \A a \in Range(flagged) : Known(a)

OnlyOutliersTwice ==
  Proper => \A a \in Antennas : Twice(flagged, a) => Bad(a) /\ Known(a)

WrittenInside ==
  Proper /\ (\A a \in Antennas : ~(Bad(a) /\ Known(a))) /\ pc = "solve" => outside = {}

LEMMA OnceOrTwice ==
  ASSUME NEW list
  PROVE  /\ IsInjective(list) <=> \A a : ~Twice(list, a)
         /\ list = <<>> => IsInjective(list)
<1>1. IsInjective(list) <=> \A a : ~Twice(list, a)
  BY DEF Twice, IsInjective
<1>2. ASSUME list = <<>> PROVE IsInjective(list)
  BY <1>2 DEF IsInjective
<1> QED
  BY <1>1, <1>2

LEMMA OutlierStep ==
  ASSUME FlagInv, OnceUntilClip, OnlyOutliersTwice, [Next]_vars
  PROVE  OnceUntilClip' /\ OnlyOutliersTwice'
<1>1. /\ flagged \in Seq(Antennas) /\ config \in Seq(Antennas)
      /\ flagged' \in Seq(Antennas)
  <2>1. flagged' \in Seq(Antennas)
    BY FlagInvariant DEF FlagInv, TypeInv
  <2> QED
    BY <2>1 DEF FlagInv, TypeInv
<1>2. Proper' = Proper
  BY DEF Next, vars, Proper, Start, FlagConfigured, FlagDead, SigmaClip, Resize, ResizeFails,
         Squeeze, SqueezeAsserts, GiveUp, Reconstruct
<1>3. CASE Start
  <2>1. flagged' = <<>> /\ pc' = "config"
    BY <1>3 DEF Start
  <2>2. Once' /\ (\A a \in Antennas : ~Twice(flagged', a)) /\ Range(flagged') = {}
    BY <2>1, OnceOrTwice DEF Once, Range
  <2> QED
    BY <2>1, <2>2 DEF OnceUntilClip, OnlyOutliersTwice
<1>4. ASSUME ~Start, NEW a \in Antennas PROVE Bad(a)' = Bad(a) /\ Known(a)' = Known(a)
  <2>1. strength' = strength /\ config' = config
    BY <1>4 DEF Next, vars, FlagConfigured, FlagDead, SigmaClip, Resize, ResizeFails,
                Squeeze, SqueezeAsserts, GiveUp, Reconstruct
  <2> QED
    BY <2>1 DEF Bad, Known
<1>5. CASE FlagConfigured
  <2> SUFFICES ASSUME Proper PROVE OnceUntilClip' /\ OnlyOutliersTwice'
    BY <1>2 DEF OnceUntilClip, OnlyOutliersTwice
  <2>1. flagged = <<>> /\ flagged' = flagged \o config /\ pc' = "dead"
    BY <1>5 DEF FlagConfigured, Flag, OnceUntilClip
  <2>2. flagged' = config
    BY <1>1, <2>1
  <2>3. Once'
    BY <2>2 DEF Once, Proper
  <2>4. \A a \in Antennas : ~Twice(flagged', a)
    BY <2>3, OnceOrTwice DEF Once
  <2>5. \A a \in Range(flagged') : Known(a)'
    BY <1>5, <2>2 DEF FlagConfigured, Known
  <2> QED
    BY <2>1, <2>3, <2>4, <2>5 DEF OnceUntilClip, OnlyOutliersTwice
<1>6. CASE FlagDead
  <2> SUFFICES ASSUME Proper PROVE OnceUntilClip' /\ OnlyOutliersTwice'
    BY <1>2 DEF OnceUntilClip, OnlyOutliersTwice
  <2> DEFINE as == {a \in Antennas : strength[a] = 0} \ Range(flagged)
  <2>1. Once /\ flagged' = flagged \o InOrder(as) /\ pc' = "clip"
    BY <1>6 DEF FlagDead, Flag, OnceUntilClip
  <2>2. /\ InOrder(as) \in Seq(Antennas) /\ IsInjective(InOrder(as))
        /\ Range(InOrder(as)) = as
    <3>1. as \in SUBSET Antennas
      OBVIOUS
    <3> HIDE DEF as
    <3> QED
      BY <3>1, Listed
  <2>3. Range(flagged) \cap Range(InOrder(as)) = {}
    BY <2>2
  <2> HIDE DEF as
  <2>4. \A a : ~Twice(flagged', a)
    <3>1. ASSUME NEW a, Twice(flagged', a) PROVE FALSE
      <4>1. Twice(flagged \o InOrder(as), a)
        BY <2>1, <3>1
      <4> QED
        BY <1>1, <2>1, <2>2, <2>3, <4>1, ConcatTwice DEF Once
    <3> QED
      BY <3>1
  <2>5. Once'
    BY <2>4, OnceOrTwice DEF Once
  <2>6. ASSUME NEW a \in Range(flagged') PROVE Known(a)'
    <3>1. a \in Range(flagged) \/ (a \in Antennas /\ strength[a] = 0)
      BY <1>1, <2>1, <2>2, <2>6, ConcatRange DEF as
    <3>2. Known(a)
      BY <1>6, <3>1 DEF FlagDead, OnceUntilClip, Known
    <3> QED
      BY <1>6, <3>2 DEF FlagDead, Known
  <2> QED
    BY <2>1, <2>4, <2>5, <2>6 DEF OnceUntilClip, OnlyOutliersTwice
<1>7. CASE SigmaClip
  <2> SUFFICES ASSUME Proper PROVE OnceUntilClip' /\ OnlyOutliersTwice'
    BY <1>2 DEF OnceUntilClip, OnlyOutliersTwice
  <2> DEFINE as == {a \in Antennas : Bad(a)}
  <2>1. Once /\ flagged' = flagged \o InOrder(as) /\ pc' = "resize"
    BY <1>7 DEF SigmaClip, Flag, OnceUntilClip
  <2>2. /\ InOrder(as) \in Seq(Antennas) /\ IsInjective(InOrder(as))
        /\ Range(InOrder(as)) = as
    <3>1. as \in SUBSET Antennas
      OBVIOUS
    <3> HIDE DEF as
    <3> QED
      BY <3>1, Listed
  <2>3. ~Start
    BY <1>7 DEF SigmaClip, Start
  <2>4. ASSUME NEW a \in Antennas, Twice(flagged', a)
        PROVE  Bad(a)' /\ Known(a)'
    <3>1. a \in Range(InOrder(as)) /\ a \in Range(flagged)
      <4> HIDE DEF as
      <4>1. Twice(flagged \o InOrder(as), a)
        BY <2>1, <2>4
      <4> QED
        BY <1>1, <2>1, <2>2, <4>1, ConcatTwice DEF Once
    <3>2. Bad(a) /\ Known(a)
      BY <1>7, <2>2, <3>1 DEF SigmaClip, OnceUntilClip
    <3> QED
      BY <1>4, <2>3, <3>2
  <2> QED
    BY <2>1, <2>4 DEF OnceUntilClip, OnlyOutliersTwice
<1>8. CASE \/ Resize \/ ResizeFails \/ Squeeze \/ SqueezeAsserts \/ GiveUp \/ Reconstruct
          \/ UNCHANGED vars
  <2>1. flagged' = flagged /\ ~Start /\ \A a : Known(a)' = Known(a)
    <3>1. flagged' = flagged /\ strength' = strength /\ runs' = runs
      BY <1>8 DEF Resize, ResizeFails, Squeeze, SqueezeAsserts, GiveUp, Reconstruct, vars
    <3>2. runs \in Nat
      BY AntennaAssumption DEF FlagInv, TypeInv
    <3> QED
      BY <1>8, <3>1, <3>2 DEF Start, Known, Resize, ResizeFails, Squeeze, SqueezeAsserts,
                              GiveUp, Reconstruct, vars
  <2>2. OnlyOutliersTwice'
    BY <1>2, <1>4, <2>1 DEF OnlyOutliersTwice
  <2>3. OnceUntilClip'
    <3>1. pc' = pc \/ pc' \notin {"config", "dead", "clip"}
      BY <1>8 DEF Resize, ResizeFails, Squeeze, SqueezeAsserts, GiveUp, Reconstruct, vars
    <3> QED
      BY <1>2, <2>1, <3>1 DEF OnceUntilClip, Once
  <2> QED
    BY <2>2, <2>3
<1> QED
  BY <1>3, <1>5, <1>6, <1>7, <1>8 DEF Next

LEMMA OutlierInvariance == Spec => [](OnceUntilClip /\ OnlyOutliersTwice)
<1>1. Init => OnceUntilClip /\ OnlyOutliersTwice
  BY OnceOrTwice DEF Init, OnceUntilClip, OnlyOutliersTwice, Once
<1>2. FlagInv /\ OnceUntilClip /\ OnlyOutliersTwice /\ [Next]_vars
        => OnceUntilClip' /\ OnlyOutliersTwice'
  BY OutlierStep
<1> QED
  BY FlagInvariance, <1>1, <1>2, PTL DEF Spec

(***************************************************************************)
(* If the configuration lists nobody twice, then an antenna that a blob    *)
(* lists twice is one that the sigma clip found although it was configured *)
(* or dead (Flagger.cpp:193-214): the doubles that ClipsRemaining is about *)
(* have no other cause.                                                    *)
(***************************************************************************)
THEOREM DoublesAreOutliers == Spec => []OnlyOutliersTwice
<1> QED
  BY OutlierInvariance, PTL

(***************************************************************************)
(* So if no configured or dead antenna is an outlier, no build writes      *)
(* beyond the memory of the matrices (Calibrator.cpp:75-107).              *)
(***************************************************************************)
THEOREM NothingOutside == Spec => []WrittenInside
<1>1. FlagInv /\ OnlyOutliersTwice => WrittenInside
  <2> SUFFICES ASSUME FlagInv, OnlyOutliersTwice, Proper, pc = "solve",
                      \A a \in Antennas : ~(Bad(a) /\ Known(a))
               PROVE  outside = {}
    BY DEF WrittenInside
  <2>1. \A a \in Antennas : ~Twice(flagged, a)
    BY DEF OnlyOutliersTwice
  <2>2. \A a : Twice(flagged, a) => a \in Antennas
    BY DEF Twice, FlagInv, TypeInv
  <2>3. Once
    BY <2>1, <2>2, OnceOrTwice DEF Once
  <2> QED
    BY <2>3 DEF FlagInv, Squeezed, Sound
<1> QED
  BY FlagInvariance, OutlierInvariance, <1>1, PTL

=============================================================================
