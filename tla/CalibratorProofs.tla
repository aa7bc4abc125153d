--------------------------- MODULE CalibratorProofs ---------------------------
(***************************************************************************)
(* Proofs about Calibration, for every number of cycles and of runs, and   *)
(* about Calibrator: a run is a behaviour of Calibration, whatever the     *)
(* search inside it does, and the search keeps its own invariant from run  *)
(* to run.  What is proved about the parts holds of the whole.             *)
(***************************************************************************)
EXTENDS Calibrator, FiniteSetTheorems, TLAPS

(***************************************************************************)
(* What an even minor cycle finds in tmp, and that gains are averaged when *)
(* the loop has ended.                                                     *)
(***************************************************************************)
Averaging ==
  /\ pc = "estimate" => minor \in 1..MaxMinor
  /\ pc = "estimate" /\ minor % 2 = 0 => tmp = {minor - 1}
  /\ Averaged

(***************************************************************************)
(* What mHasConverged says of the calibration that was left, and where a   *)
(* run is while it says so.                                                *)
(***************************************************************************)
Convergence ==
  /\ call = "first" /\ pc \in {"enter", "estimate", "powers"} => converged
  /\ pc = "left" /\ converged => residue = "small" /\ major < MaxMajor
  /\ pc = "left" /\ call = "first" /\ ~converged => major >= MaxMajor
  /\ outcome = "kept" => pc = "idle"
  /\ GivenUpWithReason
  /\ AppliedIfConverged

IInv == TypeInv /\ Averaging /\ Convergence

(***************************************************************************)
(* The invariant holds in the beginning (Calibrator.cpp:54-55).            *)
(***************************************************************************)
LEMMA InitIInv == Init => IInv
  BY CalibrationAssumption
     DEF Init, IInv, TypeInv, Averaging, Averaged, Convergence, GivenUpWithReason,
         AppliedIfConverged, NoEstimate

(***************************************************************************)
(* The steps keep the types (Calibrator.cpp:62-401).                       *)
(***************************************************************************)
LEMMA TypeStep == IInv /\ [Next]_vars => TypeInv'
<1> SUFFICES ASSUME IInv, [Next]_vars PROVE TypeInv'
  OBVIOUS
<1> USE CalibrationAssumption
<1>1. CASE Start
  BY <1>1 DEF Start, IInv, TypeInv
<1>2. CASE Enter
  BY <1>2 DEF Enter, BeginMajor, NoEstimate, IInv, TypeInv
<1>3. CASE Estimate
  BY <1>3 DEF Estimate, MoreMinor, IInv, TypeInv, Averaging
<1>4. ASSUME NEW below \in BOOLEAN, EstimateAndAverage(below) PROVE TypeInv'
  BY <1>4 DEF EstimateAndAverage, MoreMinor, NoEstimate, IInv, TypeInv, Averaging
<1>5. CASE NextMajor
  BY <1>5 DEF NextMajor, BeginMajor, NoEstimate, IInv, TypeInv
<1>6. CASE Leave
  BY <1>6 DEF Leave, IInv, TypeInv
<1>7. CASE GiveUp \/ CalibrateAgain \/ Finish
  BY <1>7 DEF GiveUp, CalibrateAgain, Finish, IInv, TypeInv
<1>8. CASE UNCHANGED vars
  BY <1>8 DEF vars, IInv, TypeInv
<1> QED
  BY <1>1, <1>2, <1>3, <1>4, <1>5, <1>6, <1>7, <1>8 DEF Next

(***************************************************************************)
(* The steps keep the averages: an odd cycle is never the last one, as the *)
(* limit is even, and the even one after it finds its estimate in tmp      *)
(* (Calibrator.cpp:366-396).                                               *)
(***************************************************************************)
LEMMA AveragingStep == IInv /\ [Next]_vars => Averaging'
<1> SUFFICES ASSUME IInv, [Next]_vars PROVE Averaging'
  OBVIOUS
<1> USE CalibrationAssumption
<1>1. CASE Start \/ Leave \/ GiveUp \/ CalibrateAgain \/ Finish
  BY <1>1 DEF Start, Leave, GiveUp, CalibrateAgain, Finish, IInv, Averaging, Averaged
<1>2. CASE Enter \/ NextMajor
  BY <1>2 DEF Enter, NextMajor, BeginMajor, IInv, Averaging, Averaged
<1>3. CASE Estimate
  <2>1. minor \in 1..MaxMinor /\ minor % 2 = 1
    BY <1>3 DEF Estimate, Remembers, IInv, Averaging
  <2>2. minor < MaxMinor
    BY <2>1
  <2>3. pc' = "estimate" /\ minor' = minor + 1 /\ tmp' = {minor}
    BY <1>3, <2>2 DEF Estimate, MoreMinor
  <2>4. minor' \in 1..MaxMinor /\ minor' - 1 = minor
    BY <2>1, <2>2, <2>3
  <2> QED
    BY <2>3, <2>4 DEF Averaging, Averaged
<1>4. ASSUME NEW below \in BOOLEAN, EstimateAndAverage(below) PROVE Averaging'
  <2>1. minor \in 1..MaxMinor /\ minor % 2 = 0
    BY <1>4 DEF EstimateAndAverage, Remembers, IInv, Averaging
  <2>2. gains' = {minor - 1, minor} /\ minor - 1 \in 1..(MaxMinor - 1)
    BY <1>4, <2>1 DEF EstimateAndAverage, IInv, Averaging
  <2>3. \E k \in 1..(MaxMinor - 1) : gains' = {k, k + 1}
    BY <2>1, <2>2
  <2>4. CASE pc' = "estimate"
    BY <1>4, <2>1, <2>4 DEF EstimateAndAverage, MoreMinor, Averaging, Averaged
  <2>5. CASE pc' = "powers"
    BY <2>3, <2>5 DEF Averaging, Averaged
  <2> QED
    BY <1>4, <2>4, <2>5 DEF EstimateAndAverage, MoreMinor
<1>5. CASE UNCHANGED vars
  BY <1>5 DEF vars, IInv, Averaging, Averaged
<1> QED
  BY <1>1, <1>2, <1>3, <1>4, <1>5 DEF Next

(***************************************************************************)
(* The steps keep what mHasConverged says (Calibrator.cpp:68, 136, 327).   *)
(***************************************************************************)
LEMMA ConvergenceStep == IInv /\ [Next]_vars => Convergence'
<1> SUFFICES ASSUME IInv, [Next]_vars PROVE Convergence'
  OBVIOUS
<1> USE CalibrationAssumption DEF IInv, Convergence, GivenUpWithReason, AppliedIfConverged
<1>1. CASE Start
  BY <1>1 DEF Start
<1>2. CASE Enter \/ NextMajor
  BY <1>2 DEF Enter, NextMajor, BeginMajor
<1>3. CASE Estimate
  BY <1>3 DEF Estimate, MoreMinor
<1>4. ASSUME NEW below \in BOOLEAN, EstimateAndAverage(below) PROVE Convergence'
  BY <1>4 DEF EstimateAndAverage, MoreMinor
<1>5. CASE Leave
  <2>1. converged' = (converged /\ ~Exhausted(major'))
    BY <1>5 DEF Leave
  <2>2. converged' <=> converged /\ ~Exhausted(major')
    BY <2>1, Zenon
  <2>3. /\ major' \in Nat
        /\ residue' = "small" \/ major' >= MaxMajor
    BY <1>5 DEF Leave, TypeInv
  <2>4. major' >= MaxMajor <=> ~(major' < MaxMajor)
    BY <2>3
  <2>5. /\ converged' => residue' = "small" /\ major' < MaxMajor
        /\ call' = "first" /\ ~converged' => major' >= MaxMajor
    <3>1. call' = "first" => converged
      BY <1>5 DEF Leave
    <3> QED
      BY <2>2, <2>3, <2>4, <3>1 DEF Exhausted
  <2>6. pc' = "left" /\ outcome' = outcome /\ outcome # "kept"
    BY <1>5 DEF Leave
  <2> QED
    BY <2>5, <2>6
<1>6. CASE GiveUp \/ CalibrateAgain \/ Finish
  BY <1>6 DEF GiveUp, CalibrateAgain, Finish
<1>7. CASE UNCHANGED vars
  BY <1>7 DEF vars
<1> QED
  BY <1>1, <1>2, <1>3, <1>4, <1>5, <1>6, <1>7 DEF Next

\* IInv is an invariant of the calibration.
LEMMA Invariance == Spec => []IInv
<1>1. IInv /\ [Next]_vars => IInv'
  BY TypeStep, AveragingStep, ConvergenceStep DEF IInv
<1> QED
  BY InitIInv, <1>1, PTL DEF Spec

(***************************************************************************)
(* Whatever ends the loop of minor cycles, gainSolv() returns the average  *)
(* of two successive estimates, if the limit of the loop is even           *)
(* (Calibrator.cpp:366-396).                                               *)
(***************************************************************************)
THEOREM AlwaysAveraged == Spec => []Averaged
<1>1. IInv => Averaged
  BY DEF IInv, Averaging
<1> QED
  BY Invariance, <1>1, PTL

(***************************************************************************)
(* The second calibration is only entered after a first one that converged *)
(* (Calibrator.cpp:134-167).                                               *)
(***************************************************************************)
THEOREM OnlyAppliedIfConverged == Spec => []AppliedIfConverged
<1>1. IInv => AppliedIfConverged
  BY DEF IInv, Convergence
<1> QED
  BY Invariance, <1>1, PTL

(***************************************************************************)
(* No run gives up because of what happened in the run before it           *)
(* (Calibrator.cpp:68, 136, 327).                                          *)
(***************************************************************************)
THEOREM OnlyGivenUpWithReason == Spec => []GivenUpWithReason
<1>1. IInv => GivenUpWithReason
  BY DEF IInv, Convergence
<1> QED
  BY Invariance, <1>1, PTL

-----------------------------------------------------------------------------
(***************************************************************************)
(* What the iteration that has just been counted may still cost.           *)
(***************************************************************************)
Allowance ==
  /\ step \in {"reflect", "stopped"} => iteration \in Nat \ {0}
  /\ step # "begin" => nf \in Nat \ {0}
  /\ step = "test" => nf <= N + iteration * (Dim + 2)
  /\ step \in {"reflect", "stopped"} => nf <= N + (iteration - 1) * (Dim + 2)

\* Every vertex was evaluated on its own.
Apart ==
  step # "begin" =>
    /\ \A i \in 1..N : V[i].at \in 1..nf
    /\ \A i, j \in 1..N : V[i].at = V[j].at => i = j

Fresh ==
  /\ step = "begin" => f = <<>> /\ iteration = 0
  /\ step # "stopped" => iteration <= MaxIterations

(***************************************************************************)
(* What is in x, and so returned instead of the minimum that NMSMax.h:9    *)
(* promises: the point evaluated last.  It is one of the vertices, though  *)
(* not always the best, or the point of an expansion in vain, which is     *)
(* worse than the best (NMSMax.h:158-169, 221).                            *)
(***************************************************************************)
ReturnedVertex ==
  step # "begin" =>
    \/ \E i \in 1..N : V[i] = x
    \/ x.at = nf /\ V[1].at = nf - 1 /\ x.value < f[1]

SearchInv ==
  SearchTypeInv /\ Fresh /\ Ranked /\ Allowance /\ Apart /\ ReturnedVertex

-----------------------------------------------------------------------------
\* The number of vertices is one more than that of the dimensions.
LEMMA Dimensions == N \in Nat /\ N >= 2 /\ N = Dim + 1 /\ Dim \in Nat \ {0}
BY SimplexAssumption DEF N

(***************************************************************************)
(* Sorting: the columns follow the values, and none is lost or doubled     *)
(* (NMSMax.h:205-211).                                                     *)
(***************************************************************************)
LEMMA Sorted ==
  ASSUME NEW W \in [1..N -> Vertices], NEW g \in [1..N -> Values],
         \A i \in 1..N : g[i] = W[i].value,
         Sort(W, g)
  PROVE  /\ V' \in [1..N -> Vertices]
         /\ f' \in [1..N -> Values]
         /\ Descending(f')
         /\ \A i \in 1..N : f'[i] = V'[i].value
         /\ \A i \in 1..N : \E j \in 1..N : V'[i] = W[j]
         /\ \A j \in 1..N : \E i \in 1..N : V'[i] = W[j] /\ f'[i] = g[j]
         /\ (\A i, j \in 1..N : W[i].at = W[j].at => i = j)
              => \A i, j \in 1..N : V'[i].at = V'[j].at => i = j
<1>1. PICK I \in Orders :
        /\ f' = [i \in 1..N |-> g[I[i]]]
        /\ V' = [i \in 1..N |-> W[I[i]]]
        /\ Descending(f')
  BY DEF Sort
<1>2. /\ I \in [1..N -> 1..N]
      /\ \A i, j \in 1..N : I[i] = I[j] => i = j
      /\ \A j \in 1..N : \E i \in 1..N : I[i] = j
  BY <1>1 DEF Orders, Bijection, Injection, Surjection, IsInjective
<1>3. /\ V' \in [1..N -> Vertices]
      /\ f' \in [1..N -> Values]
      /\ \A i \in 1..N : f'[i] = V'[i].value
  BY <1>1, <1>2
<1>4. \A i \in 1..N : V'[i] = W[I[i]] /\ f'[i] = g[I[i]] /\ I[i] \in 1..N
  BY <1>1, <1>2
<1>5. \A j \in 1..N : \E i \in 1..N : V'[i] = W[j] /\ f'[i] = g[j]
  BY <1>2, <1>4
<1>6. (\A i, j \in 1..N : W[i].at = W[j].at => i = j)
        => \A i, j \in 1..N : V'[i].at = V'[j].at => i = j
  <2> SUFFICES ASSUME \A i, j \in 1..N : W[i].at = W[j].at => i = j,
                      NEW i \in 1..N, NEW j \in 1..N, V'[i].at = V'[j].at
               PROVE  i = j
    OBVIOUS
  <2>1. W[I[i]].at = W[I[j]].at /\ I[i] \in 1..N /\ I[j] \in 1..N
    BY <1>4
  <2>2. I[i] = I[j]
    BY <2>1
  <2> QED
    BY <1>2, <2>2
<1> QED
  BY <1>1, <1>3, <1>4, <1>5, <1>6

(***************************************************************************)
(* The best of the sorted values is as good as each of them                *)
(* (NMSMax.h:205-211).                                                     *)
(***************************************************************************)
LEMMA BestIsBest ==
  ASSUME NEW h \in [1..N -> Values], Descending(h), NEW i \in 1..N
  PROVE  h[1] >= h[i]
BY Dimensions DEF Descending

(***************************************************************************)
(* Making values better and sorting them again makes no place of the       *)
(* ranking worse: otherwise the places from i on would all hold values     *)
(* that came from the places after i, which are fewer (NMSMax.h:205-211).  *)
(***************************************************************************)
LEMMA RankingImproves ==
  ASSUME NEW e \in [1..N -> Values], Descending(e),
         NEW g \in [1..N -> Values], \A k \in 1..N : g[k] >= e[k],
         NEW I \in Orders,
         NEW h \in [1..N -> Values], h = [k \in 1..N |-> g[I[k]]], Descending(h),
         NEW i \in 1..N
  PROVE  h[i] >= e[i]
<1>0. /\ I \in [1..N -> 1..N]
      /\ \A k, l \in 1..N : I[k] = I[l] => k = l
  BY DEF Orders, Bijection, Injection, IsInjective
<1>1. \A k \in 1..N : g[k] \in Int /\ e[k] \in Int /\ h[k] \in Int
  BY SimplexAssumption
<1> SUFFICES ASSUME h[i] < e[i] PROVE FALSE
  BY <1>1
<1> DEFINE Lower == i..N
           Fewer == (i + 1)..N
           J == [k \in Lower |-> I[k]]
<1>2. J \in [Lower -> Fewer]
  <2> SUFFICES ASSUME NEW k \in Lower PROVE I[k] \in Fewer
    OBVIOUS
  <2>1. k \in 1..N /\ i <= k /\ I[k] \in 1..N
    BY <1>0, Dimensions
  <2>2. h[k] <= h[i]
    BY <1>1, <2>1 DEF Descending
  <2>3. g[I[k]] = h[k] /\ g[I[k]] >= e[I[k]]
    BY <2>1
  <2>4. e[I[k]] < e[i]
    BY <1>1, <2>1, <2>2, <2>3
  <2>5. ~(I[k] <= i)
    BY <1>1, <2>1, <2>4 DEF Descending
  <2> QED
    BY <2>1, <2>5, Dimensions
<1>3. /\ IsFiniteSet(Lower) /\ IsFiniteSet(Fewer)
      /\ Cardinality(Fewer) < Cardinality(Lower)
  <2>1. i \in Int /\ i + 1 \in Int /\ N \in Int /\ i <= N
    BY Dimensions
  <2> QED
    BY <2>1, FS_Interval
<1>4. \E k, l \in Lower : k # l /\ J[k] = J[l]
  <2> HIDE DEF J, Lower, Fewer
  <2> QED
    BY <1>2, <1>3, FS_PigeonHole
<1> QED
  BY <1>0, <1>4, Dimensions

-----------------------------------------------------------------------------
(***************************************************************************)
(* What an iteration leaves to sort, in all its cases: vertices that were  *)
(* evaluated on their own, the best one among them, and what is returned   *)
(* (NMSMax.h:139-203).                                                     *)
(***************************************************************************)
Vain(W) ==
  /\ x'.at = nf' /\ W[N].at = nf' - 1
  /\ x'.value < W[N].value
  /\ \A i \in 1..Dim : W[i].value < W[N].value

ToSort(W, g) ==
  /\ W \in [1..N -> Vertices]
  /\ g \in [1..N -> Values]
  /\ \A i \in 1..N : g[i] = W[i].value
  /\ \A i \in 1..N : W[i].at \in 1..nf'
  /\ \A i, j \in 1..N : W[i].at = W[j].at => i = j
  /\ (\E i \in 1..N : W[i] = x') \/ Vain(W)
  /\ g[1] = f[1]
  /\ nf' <= nf + 2 => \A i \in 1..N : g[i] >= f[i]
  /\ Sort(W, g)

Counted ==
  /\ x' \in Vertices
  /\ nf' \in Nat /\ nf < nf' /\ nf' <= nf + Dim + 2
  /\ step' = "test" /\ iteration' = iteration

(***************************************************************************)
(* An iteration leaves a simplex that was counted right and is ready to be *)
(* sorted.                                                                 *)
(***************************************************************************)
LEMMA Iteration ==
  ASSUME SearchInv, Iterate
  PROVE  Counted /\ \E W, g : ToSort(W, g)
<1> USE Dimensions, SimplexAssumption
<1>0. /\ step = "reflect" /\ nf \in Nat
      /\ V \in [1..N -> Vertices] /\ f \in [1..N -> Values]
      /\ Descending(f)
      /\ \A i \in 1..N : f[i] = V[i].value
      /\ \A i \in 1..N : V[i].at \in 1..nf
      /\ \A i, j \in 1..N : V[i].at = V[j].at => i = j
  BY DEF SearchInv, SearchTypeInv, Ranked, Apart, Iterate, Reflect, Expand, Contract, Shrink
<1>1. \A k \in Nat, v \in Values :
        Evaluated(k, v) \in Vertices /\ Evaluated(k, v).at = nf + k /\ Evaluated(k, v).value = v
  BY <1>0 DEF Evaluated, Vertices
<1>r. /\ \A i \in 1..N : f[i] \in Int
      /\ \A i, j \in 1..N : i <= j => f[i] >= f[j]
  BY <1>0 DEF Descending
<1>d. /\ \A i \in 1..Dim : i \in 1..N /\ i # N /\ i <= Dim /\ 1 <= i
      /\ 1 \in 1..N /\ Dim \in 1..N /\ N \in 1..N /\ Dim <= N
      /\ \A i \in 1..N : i = N \/ i \in 1..Dim
      /\ \A i \in 1..N : i = 1 \/ i \in 2..N
      /\ \A i \in 2..N : i \in 1..N /\ i # 1
  OBVIOUS
<1>2. \A i \in 1..Dim : f[i] <= Best /\ f[i] >= NextToWorst
  BY <1>r, <1>d DEF Best, NextToWorst
<1>3. NextToWorst >= Worst /\ Best \in Int /\ NextToWorst \in Int /\ Worst \in Int
  BY <1>r, <1>d DEF Best, NextToWorst, Worst
<1>4. ASSUME NEW fr \in Values, Reflect(fr) PROVE Counted /\ \E W, g : ToSort(W, g)
  <2> DEFINE W == [V EXCEPT ![N] = x']
             g == [f EXCEPT ![N] = x'.value]
  <2>1. /\ x' \in Vertices /\ x'.at = nf + 1 /\ x'.value = fr /\ nf' = nf + 1
        /\ fr > NextToWorst
        /\ Sort(W, g) /\ step' = "test" /\ iteration' = iteration
    BY <1>1, <1>4 DEF Reflect, Replace
  <2>2. Counted
    BY <1>0, <2>1 DEF Counted
  <2>3. ToSort(W, g)
    <3>1. \A i \in 1..N : g[i] >= f[i]
      BY <1>0, <1>r, <1>d, <1>3, <2>1 DEF Worst
    <3>2. W[N] = x' /\ N \in 1..N
      BY <1>0
    <3> QED
      BY <1>0, <2>1, <3>1, <3>2 DEF ToSort
  <2> QED
    BY <2>2, <2>3
<1>5. ASSUME NEW fr \in Values, NEW fe \in Values, Expand(fr, fe)
      PROVE Counted /\ \E W, g : ToSort(W, g)
  <2> DEFINE vertex == Better(fr, fe)
             W == [V EXCEPT ![N] = vertex]
             g == [f EXCEPT ![N] = vertex.value]
  <2>1. /\ x' \in Vertices /\ x'.at = nf + 2 /\ x'.value = fe /\ nf' = nf + 2
        /\ fr > Best
        /\ Sort(W, g) /\ step' = "test" /\ iteration' = iteration
    BY <1>1, <1>5 DEF Expand, Replace
  <2>2. Counted
    BY <1>0, <2>1 DEF Counted
  <2>3. /\ vertex \in Vertices /\ vertex.value \in Values /\ vertex.value > Best
        /\ vertex = x' \/ (vertex.at = nf + 1 /\ fe < vertex.value)
        /\ vertex.at \in (nf + 1)..(nf + 2)
    <3>1. CASE fe > Best
      <4>1. vertex = x'
        BY <3>1, <1>5 DEF Better, Expand
      <4> QED
        BY <1>0, <2>1, <3>1, <4>1
    <3>2. CASE ~(fe > Best)
      <4>1. vertex = Evaluated(1, fr)
        BY <3>2 DEF Better
      <4> QED
        BY <1>0, <1>1, <1>3, <2>1, <3>2, <4>1
    <3> QED
      BY <3>1, <3>2
  <2>4. ToSort(W, g)
    <3> HIDE DEF vertex
    <3>1. \A i \in 1..N : g[i] >= f[i]
      <4>1. /\ g[N] = vertex.value /\ vertex.value \in Int /\ vertex.value > Best
            /\ \A i \in 1..Dim : g[i] = f[i]
        BY <1>0, <1>d, <2>3, ZenonT(40)
      <4>2. f[N] <= Best
        BY <1>r, <1>d DEF Best
      <4> QED
        BY <1>r, <1>d, <1>3, <4>1, <4>2
    <3>2. W[N] = vertex /\ N \in 1..N /\ \A i \in 1..Dim : W[i] = V[i]
      BY <1>0
    <3>3. (\E i \in 1..N : W[i] = x') \/ Vain(W)
      <4>1. \A i \in 1..Dim : W[i].value < W[N].value
        <5> SUFFICES ASSUME NEW i \in 1..Dim PROVE W[i].value < vertex.value
          BY <3>2
        <5>1. W[i].value = f[i] /\ f[i] <= Best /\ f[i] \in Int
          BY <1>0, <1>r, <1>d, <1>2, <3>2
        <5>2. vertex.value \in Int /\ vertex.value > Best
          BY <2>3
        <5> QED
          BY <1>3, <5>1, <5>2
      <4> QED
        BY <1>0, <2>1, <2>3, <3>2, <4>1 DEF Vain
    <3> QED
      BY <1>0, <2>1, <2>3, <3>1, <3>2, <3>3 DEF ToSort
  <2> QED
    BY <2>2, <2>4
<1>6. ASSUME NEW fr \in Values, NEW fc \in Values, Contract(fr, fc)
      PROVE Counted /\ \E W, g : ToSort(W, g)
  <2> DEFINE W == [V EXCEPT ![N] = x']
             g == [f EXCEPT ![N] = x'.value]
  <2>1. /\ x' \in Vertices /\ x'.at = nf + 2 /\ x'.value = fc /\ nf' = nf + 2
        /\ fc > Worst
        /\ Sort(W, g) /\ step' = "test" /\ iteration' = iteration
    BY <1>1, <1>6 DEF Contract, Replace
  <2>2. Counted
    BY <1>0, <2>1 DEF Counted
  <2>3. ToSort(W, g)
    <3>1. \A i \in 1..N : g[i] >= f[i]
      BY <1>0, <1>r, <1>d, <1>3, <2>1 DEF Worst
    <3>2. W[N] = x' /\ N \in 1..N
      BY <1>0
    <3> QED
      BY <1>0, <2>1, <3>1, <3>2 DEF ToSort
  <2> QED
    BY <2>2, <2>3
<1>7. ASSUME NEW fr \in Values, NEW fc \in Values, NEW fs \in [2..N -> Values],
             Shrink(fr, fc, fs)
      PROVE Counted /\ \E W, g : ToSort(W, g)
  <2> DEFINE W == [Moved(fs) EXCEPT ![N] = x']
             g == [Shrunk(fs) EXCEPT ![N] = x'.value]
  <2>2. /\ Moved(fs)[1] = V[1] /\ Shrunk(fs)[1] = f[1]
        /\ \A i \in 2..N : Moved(fs)[i] = Evaluated(1 + i, fs[i]) /\ Shrunk(fs)[i] = fs[i]
    BY <1>d DEF Moved, Shrunk
  <2>8. \A i \in 2..N : /\ Moved(fs)[i] \in Vertices /\ Moved(fs)[i].at = nf + (1 + i)
                        /\ Moved(fs)[i].value = fs[i] /\ fs[i] \in Values
    <3> SUFFICES ASSUME NEW i \in 2..N
                 PROVE  /\ Moved(fs)[i] \in Vertices /\ Moved(fs)[i].at = nf + (1 + i)
                        /\ Moved(fs)[i].value = fs[i] /\ fs[i] \in Values
      OBVIOUS
    <3>1. 1 + i \in Nat /\ fs[i] \in Values /\ Moved(fs)[i] = Evaluated(1 + i, fs[i])
      BY <2>2
    <3>2. Evaluated(1 + i, fs[i]) \in Vertices
      BY <1>1, <3>1
    <3>3. Evaluated(1 + i, fs[i]).at = nf + (1 + i)
      BY DEF Evaluated
    <3>4. Evaluated(1 + i, fs[i]).value = fs[i]
      BY DEF Evaluated
    <3> QED
      BY <3>1, <3>2, <3>3, <3>4
  <2>1. Moved(fs) \in [1..N -> Vertices] /\ Shrunk(fs) \in [1..N -> Values]
    <3>1. /\ \A i \in 1..N : Moved(fs)[i] \in Vertices /\ Shrunk(fs)[i] \in Values
      BY <1>0, <1>d, <2>2, <2>8
    <3> QED
      BY <3>1 DEF Moved, Shrunk
  <2>3. /\ x' = Moved(fs)[N] /\ nf' = nf + Dim + 2
        /\ Sort(W, g) /\ step' = "test" /\ iteration' = iteration
    BY <1>0, <1>7 DEF Shrink, Replace, ShrinkCost
  <2>4. W = Moved(fs)
    BY <2>1, <2>3
  <2>5. g = Shrunk(fs)
    <3>1. x'.value = Shrunk(fs)[N]
      BY <1>d, <2>2, <2>3, <2>8
    <3> QED
      BY <2>1, <3>1
  <2>6. Counted
    BY <1>0, <2>1, <2>3 DEF Counted
  <2>7. ToSort(W, g)
    <3> HIDE DEF W, g
    <3>1. W[1] = V[1] /\ g[1] = f[1] /\ \A i \in 2..N : W[i].at = nf + (1 + i) /\ g[i] = W[i].value
      BY <2>2, <2>4, <2>5, <2>8
    <3>2. ASSUME NEW i \in 1..N PROVE g[i] = W[i].value /\ W[i].at \in 1..nf'
      <4>1. CASE i = 1
        <5>1. f[1] = V[1].value /\ V[1].at \in 1..nf /\ nf \in Nat /\ nf' = nf + Dim + 2
          BY <1>0, <1>d, <2>3
        <5> QED
          BY <1>0, <3>1, <4>1, <5>1
      <4>2. CASE i \in 2..N
        <5>1. nf \in Nat /\ nf' = nf + Dim + 2 /\ N = Dim + 1 /\ Dim \in Nat
          BY <1>0, <2>3 DEF N
        <5>2. W[i].at = nf + (1 + i) /\ g[i] = W[i].value
          BY <3>1, <4>2
        <5> QED
          BY <4>2, <5>1, <5>2
      <4> QED
        BY <1>0, <4>1, <4>2
    <3>3. \A i, j \in 1..N : W[i].at = W[j].at => i = j
      BY <1>0, <1>d, <3>1
    <3>4. ~(nf' <= nf + 2)
      BY <1>0, <2>3
    <3> QED
      BY <1>d, <2>1, <2>3, <2>4, <2>5, <3>1, <3>2, <3>3, <3>4 DEF ToSort
  <2> QED
    BY <2>6, <2>7
<1> QED
  BY <1>4, <1>5, <1>6, <1>7 DEF Iterate

-----------------------------------------------------------------------------
(***************************************************************************)
(* The first simplex (NMSMax.h:96-113).                                    *)
(***************************************************************************)
LEMMA BeginStep ==
  ASSUME SearchInv, Begin
  PROVE  SearchInv'
<1> USE Dimensions, SimplexAssumption
<1>0. iteration = 0 /\ iteration' = 0 /\ nf' = N /\ step' = "test" /\ step = "begin"
  BY DEF SearchInv, Fresh, Begin
<1>1. PICK g \in [1..N -> Values] :
        LET W == [i \in 1..N |-> [at |-> i, value |-> g[i]]]
        IN Sort(W, g) /\ x' = W[1]
  BY DEF Begin
<1> DEFINE W == [i \in 1..N |-> [at |-> i, value |-> g[i]]]
<1>2. /\ W \in [1..N -> Vertices] /\ g \in [1..N -> Values]
      /\ \A i \in 1..N : W[i].at = i
      /\ \A i \in 1..N : g[i] = W[i].value
      /\ \A i, j \in 1..N : W[i].at = W[j].at => i = j
      /\ 1 \in 1..N
  BY DEF Vertices
<1>3. Sort(W, g) /\ x' = W[1]
  BY <1>1
<1> HIDE DEF W
<1>4. /\ V' \in [1..N -> Vertices] /\ f' \in [1..N -> Values]
      /\ Descending(f')
      /\ \A i \in 1..N : f'[i] = V'[i].value
      /\ \A i \in 1..N : \E j \in 1..N : V'[i] = W[j]
      /\ \A j \in 1..N : \E i \in 1..N : V'[i] = W[j] /\ f'[i] = g[j]
      /\ \A i, j \in 1..N : V'[i].at = V'[j].at => i = j
  <2>1. /\ W \in [1..N -> Vertices] /\ g \in [1..N -> Values]
        /\ \A i \in 1..N : g[i] = W[i].value
        /\ \A i, j \in 1..N : W[i].at = W[j].at => i = j
        /\ Sort(W, g)
    BY ONLY <1>2, <1>3
  <2> QED
    BY ONLY <2>1, Sorted, ZenonT(90)
<1>5. SearchTypeInv'
  <2>1. x' \in Vertices /\ nf' \in Nat /\ iteration' \in 0..(MaxIterations + 1)
    BY <1>0, <1>2, <1>3
  <2> QED
    BY <1>0, <1>4, <2>1 DEF SearchTypeInv, Vertices
<1>6. Fresh' /\ Ranked' /\ Allowance'
  BY <1>0, <1>4 DEF Fresh, Ranked, Allowance
<1>7. Apart'
  <2>1. \A i \in 1..N : W[i].at \in 1..nf'
    BY <1>0, <1>2
  <2>2. ASSUME NEW i \in 1..N PROVE V'[i].at \in 1..nf'
    <3>1. PICK j \in 1..N : V'[i] = W[j]
      BY <1>4, Zenon
    <3> QED
      BY <2>1, <3>1
  <2> QED
    BY <1>4, <2>2 DEF Apart
<1>8. ReturnedVertex'
  <2>1. \E i \in 1..N : V'[i] = x'
    BY <1>2, <1>3, <1>4, Zenon
  <2> QED
    BY <2>1 DEF ReturnedVertex
<1> QED
  BY <1>5, <1>6, <1>7, <1>8 DEF SearchInv

(***************************************************************************)
(* An iteration sorts what it leaves (NMSMax.h:139-211).                   *)
(***************************************************************************)
LEMMA IterateStep ==
  ASSUME SearchInv, Iterate
  PROVE  SearchInv'
<1> USE Dimensions, SimplexAssumption
<1>0. /\ step = "reflect" /\ iteration \in Nat \ {0} /\ nf \in Nat
      /\ iteration \in 0..(MaxIterations + 1)
      /\ nf <= N + (iteration - 1) * (Dim + 2)
  BY DEF SearchInv, SearchTypeInv, Allowance, Iterate, Reflect, Expand, Contract, Shrink
<1>1. Counted /\ \E W, g : ToSort(W, g)
  BY Iteration
<1>2. PICK W, g : ToSort(W, g)
  BY <1>1
<1>n. 1 \in 1..N /\ N \in 1..N
  OBVIOUS
<1>3. /\ V' \in [1..N -> Vertices] /\ f' \in [1..N -> Values]
      /\ Descending(f')
      /\ \A i \in 1..N : f'[i] = V'[i].value
      /\ \A i \in 1..N : \E j \in 1..N : V'[i] = W[j]
      /\ \A j \in 1..N : \E i \in 1..N : V'[i] = W[j] /\ f'[i] = g[j]
      /\ \A i, j \in 1..N : V'[i].at = V'[j].at => i = j
  <2>1. /\ W \in [1..N -> Vertices] /\ g \in [1..N -> Values]
        /\ \A i \in 1..N : g[i] = W[i].value
        /\ \A i, j \in 1..N : W[i].at = W[j].at => i = j
        /\ Sort(W, g)
    BY <1>2 DEF ToSort
  <2> QED
    BY ONLY <2>1, Sorted, ZenonT(90)
<1>4. SearchTypeInv'
  BY <1>0, <1>1, <1>3 DEF SearchTypeInv, Counted, Vertices
<1>5. Fresh' /\ Ranked'
  BY <1>0, <1>1, <1>3 DEF Counted, SearchInv, Fresh, Ranked
<1>6. Allowance'
  <2>1. (iteration - 1) * (Dim + 2) + (Dim + 2) = iteration * (Dim + 2)
    BY <1>0
  <2>2. iteration * (Dim + 2) \in Nat /\ (iteration - 1) * (Dim + 2) \in Nat
    BY <1>0
  <2> DEFINE before == (iteration - 1) * (Dim + 2)
             after == iteration * (Dim + 2)
  <2>3. nf' <= N + after
    <3>1. nf <= N + before /\ nf' <= nf + Dim + 2 /\ nf' \in Nat /\ before + (Dim + 2) = after
      BY <1>0, <1>1, <2>1 DEF Counted
    <3>2. before \in Int /\ after \in Int /\ nf \in Int /\ nf' \in Int
      BY <1>0, <2>2, <3>1
    <3> HIDE DEF before, after
    <3> QED
      BY <3>1, <3>2
  <2>4. step' = "test" /\ iteration' = iteration /\ nf' \in Nat \ {0}
    BY <1>0, <1>1 DEF Counted
  <2> QED
    BY <2>3, <2>4 DEF Allowance
<1>7. Apart'
  <2>0. \A i \in 1..N : W[i].at \in 1..nf'
    BY <1>2 DEF ToSort
  <2>1. ASSUME NEW i \in 1..N PROVE V'[i].at \in 1..nf'
    <3>1. PICK j \in 1..N : V'[i] = W[j]
      BY <1>3, Zenon
    <3> QED
      BY <2>0, <3>1
  <2> QED
    BY <1>3, <2>1 DEF Apart
<1>8. ReturnedVertex'
  <2>1. CASE \E i \in 1..N : W[i] = x'
    <3>1. \E i \in 1..N : V'[i] = x'
      <4>1. PICK j \in 1..N : W[j] = x'
        BY <2>1
      <4>2. PICK i \in 1..N : V'[i] = W[j]
        BY <1>3, Zenon
      <4> QED
        BY <4>1, <4>2
    <3> QED
      BY <3>1 DEF ReturnedVertex
  <2>2. CASE Vain(W)
    <3>1. /\ \A i \in 1..N : W[i].value \in Int
          /\ \A i \in 1..N : i # N => W[i].value < W[N].value
      <4>1. W \in [1..N -> Vertices]
        BY <1>2 DEF ToSort
      <4>2. \A i \in 1..Dim : W[i].value < W[N].value
        BY <2>2 DEF Vain
      <4>3. \A i \in 1..N : i # N => i \in 1..Dim
        OBVIOUS
      <4> QED
        BY <4>1, <4>2, <4>3 DEF Vertices
    <3>2. PICK k \in 1..N : V'[k] = W[N] /\ f'[k] = g[N]
      BY <1>3, <1>n, Zenon
    <3>3. PICK l \in 1..N : V'[1] = W[l]
      BY <1>3, <1>n, Zenon
    <3>4. f'[1] >= f'[k] /\ f'[1] = W[l].value /\ f'[k] = W[N].value
      <4>1. f'[1] >= f'[k]
        BY <1>3, BestIsBest
      <4>2. f'[1] = V'[1].value /\ f'[k] = V'[k].value
        BY <1>3, <1>n
      <4> QED
        BY <3>2, <3>3, <4>1, <4>2
    <3>5. l = N
      BY <3>1, <3>3, <3>4
    <3>6. V'[1].at = nf' - 1 /\ x'.value < f'[1] /\ x'.at = nf'
      BY <2>2, <3>3, <3>4, <3>5 DEF Vain
    <3> QED
      BY <3>6 DEF ReturnedVertex
  <2> QED
    BY <1>2, <2>1, <2>2 DEF ToSort
<1> QED
  BY <1>4, <1>5, <1>6, <1>7, <1>8 DEF SearchInv

(***************************************************************************)
(* The tests at the head of the loop leave the simplex alone               *)
(* (NMSMax.h:117-137).                                                     *)
(***************************************************************************)
LEMMA HeadStep ==
  ASSUME SearchInv, Continue \/ Stop
  PROVE  SearchInv'
<1> USE Dimensions, SimplexAssumption
<1>0. /\ step = "test" /\ step' \in {"reflect", "stopped"}
      /\ iteration \in 0..MaxIterations /\ iteration' = iteration + 1
      /\ step' = "reflect" => iteration < MaxIterations
      /\ V' = V /\ f' = f /\ x' = x /\ nf' = nf
  <2>1. CASE Continue
    BY <2>1 DEF Continue, SearchInv, SearchTypeInv, Fresh
  <2>2. CASE Stop
    <3>1. iteration \in 0..MaxIterations
      BY <2>2 DEF Stop, SearchInv, SearchTypeInv, Fresh
    <3> QED
      BY <2>2, <3>1 DEF Stop
  <2> QED
    BY <2>1, <2>2
<1>1. SearchTypeInv' /\ Fresh' /\ Ranked'
  <2>1. SearchTypeInv'
    BY <1>0 DEF SearchInv, SearchTypeInv
  <2>2. Fresh'
    BY <1>0 DEF Fresh
  <2>3. Ranked'
    BY <1>0 DEF SearchInv, Ranked, Descending
  <2> QED
    BY <2>1, <2>2, <2>3
<1>2. Allowance' /\ Apart' /\ ReturnedVertex'
  BY <1>0 DEF SearchInv, Allowance, Apart, ReturnedVertex
<1> QED
  BY <1>1, <1>2 DEF SearchInv

-----------------------------------------------------------------------------
\* SearchInv is an invariant of the search.
LEMMA SearchInvariance == SearchSpec => []SearchInv
<1>1. SearchInit => SearchInv
  BY SimplexAssumption
     DEF SearchInit, SearchInv, SearchTypeInv, Fresh, Ranked, Allowance, Apart,
         ReturnedVertex
<1>2. SearchInv /\ [SearchNext]_searchVars => SearchInv'
  <2> SUFFICES ASSUME SearchInv, [SearchNext]_searchVars PROVE SearchInv'
    OBVIOUS
  <2>1. CASE Begin
    BY <2>1, BeginStep
  <2>2. CASE Continue \/ Stop
    BY <2>2, HeadStep
  <2>3. CASE Iterate
    BY <2>3, IterateStep
  <2>4. CASE UNCHANGED searchVars
    BY <2>4 DEF searchVars, SearchInv, SearchTypeInv, Fresh, Ranked, Allowance, Apart,
                ReturnedVertex
  <2> QED
    BY <2>1, <2>2, <2>3, <2>4 DEF SearchNext
<1> QED
  BY <1>1, <1>2, PTL DEF SearchSpec

(***************************************************************************)
(* The values stay in order and at the places of their vertices, for every *)
(* dimension (NMSMax.h:110-113, 193-211).                                  *)
(***************************************************************************)
THEOREM AlwaysRanked == SearchSpec => []Ranked
<1>1. SearchInv => Ranked
  BY DEF SearchInv
<1> QED
  BY SearchInvariance, <1>1, PTL

(***************************************************************************)
(* No search costs more than n + 2 evaluations an iteration, and no two    *)
(* vertices are the same evaluation (NMSMax.h:106-203).                    *)
(***************************************************************************)
THEOREM AlwaysAffordable == SearchSpec => []Affordable
<1>1. SearchInv => Affordable
  <2> SUFFICES ASSUME SearchInv, step # "begin" PROVE Affordable
    BY DEF Affordable
  <2>1. iteration \in Nat /\ nf \in Nat /\ Dim \in Nat /\ N \in Nat
    BY Dimensions DEF SearchInv, SearchTypeInv
  <2>2. (iteration - 1) * (Dim + 2) + (Dim + 2) = iteration * (Dim + 2)
    BY <2>1
  <2>3. nf <= N + iteration * (Dim + 2)
    <3> DEFINE before == (iteration - 1) * (Dim + 2)
               after == iteration * (Dim + 2)
    <3>1. before \in Int /\ after \in Int /\ before + (Dim + 2) = after
      BY <2>1, <2>2
    <3>2. nf <= N + after \/ nf <= N + before
      BY DEF SearchInv, SearchTypeInv, Allowance
    <3> HIDE DEF before, after
    <3>3. nf <= N + after
      BY <2>1, <3>1, <3>2
    <3> QED
      BY <3>3 DEF after
  <2> QED
    BY <2>3 DEF SearchInv, Apart, Affordable
<1> QED
  BY SearchInvariance, <1>1, PTL

(***************************************************************************)
(* What a search returns is a vertex of its simplex, or the point of an    *)
(* expansion in vain (NMSMax.h:158-169, 221): not always the best vertex,  *)
(* but a point whose value was found in the search.                        *)
(***************************************************************************)
THEOREM ReturnsVertex == SearchSpec => []ReturnedVertex
<1>1. SearchInv => ReturnedVertex
  BY DEF SearchInv
<1> QED
  BY SearchInvariance, <1>1, PTL

(***************************************************************************)
(* How the ranking of a search changes in an iteration: its best place     *)
(* never becomes worse, and no place does unless the simplex shrinks       *)
(* (NMSMax.h:139-211).                                                     *)
(***************************************************************************)
LEMMA RankingStep ==
  ASSUME SearchInv, SearchNext, f # <<>>
  PROVE  /\ f'[1] >= f[1]
         /\ nf' <= nf + 2 => \A i \in 1..N : f'[i] >= f[i]
<1> USE Dimensions, SimplexAssumption
<1>0. /\ step # "begin" /\ f \in [1..N -> Values] /\ Descending(f)
      /\ \A i \in 1..N : f[i] \in Int
      /\ 1 \in 1..N
  <2>1. step # "begin"
    BY DEF SearchInv, Fresh
  <2> QED
    <3>1. f \in [1..N -> Values] /\ Descending(f)
      BY <2>1 DEF SearchInv, SearchTypeInv, Ranked
    <3>2. 1 \in 1..N
      OBVIOUS
    <3>3. \A i \in 1..N : f[i] \in Int
      BY <3>1
    <3> QED
      BY <2>1, <3>1, <3>2, <3>3
<1>1. CASE Continue \/ Stop
  BY <1>0, <1>1 DEF Continue, Stop
<1>2. CASE Iterate
  <2>1. PICK W, g : ToSort(W, g)
    BY <1>2, Iteration
  <2>2. PICK I \in Orders :
          /\ f' = [i \in 1..N |-> g[I[i]]]
          /\ Descending(f')
    BY <2>1 DEF ToSort, Sort
  <2>3. /\ g \in [1..N -> Values] /\ g[1] = f[1]
        /\ nf' <= nf + 2 => \A i \in 1..N : g[i] >= f[i]
    BY <2>1 DEF ToSort
  <2>4. /\ I \in [1..N -> 1..N]
        /\ \A j \in 1..N : \E i \in 1..N : I[i] = j
    BY <2>2 DEF Orders, Bijection, Surjection, Injection
  <2>5. f' \in [1..N -> Values]
    BY <2>2, <2>3, <2>4
  <2>6. f'[1] >= f[1]
    <3>1. PICK i \in 1..N : I[i] = 1
      BY <1>0, <2>4
    <3>2. f'[i] = f[1]
      BY <2>2, <2>3, <3>1
    <3> QED
      BY <2>2, <2>5, <3>2, BestIsBest
  <2>7. ASSUME nf' <= nf + 2, NEW i \in 1..N PROVE f'[i] >= f[i]
    BY <1>0, <2>2, <2>3, <2>5, <2>7, RankingImproves, ZenonT(40)
  <2> QED
    BY <2>6, <2>7
<1> QED
  BY <1>0, <1>1, <1>2 DEF SearchNext, Begin

(***************************************************************************)
(* No iteration loses the best vertex (NMSMax.h:191-211).                  *)
(***************************************************************************)
THEOREM BestIsKept == SearchSpec => BestKept
<1>1. SearchInv /\ [SearchNext]_searchVars
        => [f # <<>> /\ f' # <<>> => f'[1] >= f[1]]_f
  <2> SUFFICES ASSUME SearchInv, [SearchNext]_searchVars, f' # f, f # <<>>
               PROVE  f'[1] >= f[1]
    OBVIOUS
  <2>1. SearchNext
    BY DEF searchVars
  <2> QED
    BY <2>1, RankingStep
<1> QED
  BY SearchInvariance, <1>1, PTL DEF SearchSpec, BestKept

(***************************************************************************)
(* An iteration that reflects, expands or contracts makes no place of the  *)
(* ranking worse, for every dimension (NMSMax.h:154-188).                  *)
(***************************************************************************)
THEOREM ShrinkAlone == SearchSpec => OnlyShrinkWorsens
<1>1. SearchInv /\ [SearchNext]_searchVars
        => [f # <<>> /\ f' # <<>> /\ nf' <= nf + 2 => \A i \in 1..N : f'[i] >= f[i]]_f
  <2> SUFFICES ASSUME SearchInv, [SearchNext]_searchVars, f' # f, f # <<>>,
                      nf' <= nf + 2
               PROVE  \A i \in 1..N : f'[i] >= f[i]
    OBVIOUS
  <2>1. SearchNext
    BY DEF searchVars
  <2> QED
    BY <2>1, RankingStep
<1> QED
  BY SearchInvariance, <1>1, PTL DEF SearchSpec, OnlyShrinkWorsens

-----------------------------------------------------------------------------

(***************************************************************************)
(* A run with its search calibrates as Calibration says: the search is a   *)
(* stutter between the first calibration and the second                    *)
(* (Calibrator.cpp:134-167).                                               *)
(***************************************************************************)
THEOREM RunsAreCalibrations == RunSpec => Spec
<1>1. RunInit => Init
  BY DEF RunInit
<1>2. [RunNext]_runVars => [Next]_vars
  <2> SUFFICES ASSUME [RunNext]_runVars PROVE [Next]_vars
    OBVIOUS
  <2>1. CASE wsfSrcPos
    BY <2>1 DEF wsfSrcPos
  <2>2. CASE EnterAgain
    BY <2>2 DEF EnterAgain, Next
  <2>3. CASE Elsewhere
    BY <2>3 DEF Elsewhere, Next
  <2>4. CASE UNCHANGED runVars
    BY <2>4 DEF runVars
  <2> QED
    BY <2>1, <2>2, <2>3, <2>4 DEF RunNext
<1> QED
  BY <1>1, <1>2, PTL DEF RunSpec, Spec

(***************************************************************************)
(* Every search begins like the first one, as its variables are local to   *)
(* it (NMSMax.h:71-113).                                                   *)
(***************************************************************************)
LEMMA EnterAgainSearch == EnterAgain => SearchInv'
BY SimplexAssumption
   DEF EnterAgain, SearchInv, SearchTypeInv, Fresh, Ranked, Allowance, Apart, ReturnedVertex

\* SearchInv is about the variables of the search only.
LEMMA SearchKept ==
  ASSUME SearchInv, UNCHANGED searchVars
  PROVE  SearchInv'
<1> USE DEF searchVars
<1>1. SearchTypeInv' /\ Fresh'
  BY DEF SearchInv, SearchTypeInv, Fresh
<1>2. Ranked'
  BY DEF SearchInv, Ranked, Descending
<1>3. Allowance' /\ Apart' /\ ReturnedVertex'
  BY DEF SearchInv, Allowance, Apart, ReturnedVertex
<1> QED
  BY <1>1, <1>2, <1>3 DEF SearchInv

\* SearchInv is an invariant of the search as it is run.
LEMMA RunSearch == RunSpec => []SearchInv
<1>1. RunInit => SearchInv
  BY SimplexAssumption
     DEF RunInit, SearchInit, SearchInv, SearchTypeInv, Fresh, Ranked, Allowance, Apart,
         ReturnedVertex
<1>2. SearchInv /\ [RunNext]_runVars => SearchInv'
  <2> SUFFICES ASSUME SearchInv, [RunNext]_runVars PROVE SearchInv'
    OBVIOUS
  <2>1. CASE wsfSrcPos
    <3>1. CASE Begin
      BY <3>1, BeginStep
    <3>2. CASE Continue \/ Stop
      BY <3>2, HeadStep
    <3>3. CASE Iterate
      BY <3>3, IterateStep
    <3> QED
      BY <2>1, <3>1, <3>2, <3>3 DEF wsfSrcPos, SearchNext
  <2>2. CASE EnterAgain
    BY <2>2, EnterAgainSearch
  <2>3. CASE Elsewhere
    BY <2>3, SearchKept DEF Elsewhere
  <2>4. CASE UNCHANGED runVars
    BY <2>4, SearchKept DEF runVars
  <2> QED
    BY <2>1, <2>2, <2>3, <2>4 DEF RunNext
<1> QED
  BY <1>1, <1>2, PTL DEF RunSpec

(***************************************************************************)
(* The types of both parts are right in every run (Calibrator.cpp:62-401,  *)
(* NMSMax.h:71-221).                                                       *)
(***************************************************************************)
THEOREM RunTypeCorrect == RunSpec => []RunTypeInv
<1>1. IInv /\ SearchInv => RunTypeInv
  BY DEF IInv, SearchInv, RunTypeInv
<1> QED
  BY RunsAreCalibrations, Invariance, RunSearch, <1>1, PTL

(***************************************************************************)
(* No search of any run loses its best vertex: it is only given up with    *)
(* the whole simplex, when the search is over (Calibrator.cpp:159-160).    *)
(***************************************************************************)
THEOREM RunKeepsBest == RunSpec => BestKept
<1>1. SearchInv /\ [RunNext]_runVars
        => [f # <<>> /\ f' # <<>> => f'[1] >= f[1]]_f
  <2> SUFFICES ASSUME SearchInv, [RunNext]_runVars, f' # f, f # <<>>, f' # <<>>
               PROVE  f'[1] >= f[1]
    OBVIOUS
  <2>1. SearchNext
    BY DEF RunNext, wsfSrcPos, EnterAgain, Elsewhere, runVars, searchVars
  <2> QED
    BY <2>1, RankingStep
<1> QED
  BY RunSearch, <1>1, PTL DEF RunSpec, BestKept

-----------------------------------------------------------------------------
(***************************************************************************)
(* A run ends.  Cycles(i) is how many estimates and residues are ahead     *)
(* when the major cycle i is over, and RunLeft what is ahead of a run at   *)
(* most: two calls of walsCalibration().                                   *)
(***************************************************************************)
Cycles(i) == (MaxMajor - i) * (MaxMinor + 1)

CallLeft ==
  [idle |-> 0,
   enter |-> Cycles(0) + 2,
   estimate |-> Cycles(major) + (MaxMinor + 1 - minor) + 2,
   powers |-> Cycles(major) + 2,
   left |-> 1][pc]

RunLeft == CallLeft + IF call = "first" /\ pc # "idle" THEN Cycles(0) + 2 ELSE 0

\* A cycle that is under way is one of those that are allowed.
InCycle == pc \in {"estimate", "powers"} => major \in 1..MaxMajor
CycleInv == IInv /\ InCycle

LEMMA CycleInvariance == Spec => []CycleInv
<1>1. Init => InCycle
  BY DEF Init, InCycle
<1>2. IInv /\ InCycle /\ [Next]_vars => InCycle'
  BY CalibrationAssumption
     DEF InCycle, IInv, TypeInv, Next, Start, Enter, BeginMajor, Estimate, EstimateAndAverage,
         MoreMinor, NextMajor, Leave, GiveUp, CalibrateAgain, Finish, vars
<1> QED
  BY <1>1, <1>2, Invariance, PTL DEF Spec, CycleInv

LEMMA CyclesFall ==
  ASSUME NEW i \in 0..MaxMajor
  PROVE  /\ Cycles(i) \in Nat
         /\ i # MaxMajor => Cycles(i) = Cycles(i + 1) + MaxMinor + 1
<1> DEFINE a == MaxMajor - i
           c == MaxMinor + 1
<1>1. a \in Nat /\ c \in Nat
  BY CalibrationAssumption
<1>2. a * c \in Nat /\ a * c = (a - 1) * c + c
  <2> HIDE DEF a, c
  <2> QED
    BY <1>1, Z3T(30)
<1>3. MaxMajor - (i + 1) = a - 1
  BY CalibrationAssumption
<1> DEFINE u == a * c
           v == (a - 1) * c
<1>4. Cycles(i) = u /\ Cycles(i + 1) = v
  BY <1>3 DEF Cycles
<1>5. u \in Nat /\ v \in Int /\ u = v + c
  <2> HIDE DEF a, c
  <2> QED
    BY <1>1, <1>2, Z3T(30)
<1> HIDE DEF u, v
<1> QED
  BY <1>4, <1>5, CalibrationAssumption

LEMMA CyclesLess ==
  ASSUME NEW i \in 1..MaxMajor
  PROVE  Cycles(i) + MaxMinor + 1 <= Cycles(0)
<1> DEFINE a == MaxMajor - i
           b == i - 1
           c == MaxMinor + 1
<1>1. a \in Nat /\ b \in Nat /\ c \in Nat /\ MaxMajor = a + b + 1
  BY CalibrationAssumption
<1>2. a * c + c <= (a + b + 1) * c
  <2> HIDE DEF a, b, c
  <2>1. (a + b + 1) * c = a * c + b * c + c /\ b * c \in Nat /\ a * c \in Nat
    BY <1>1, Z3T(30)
  <2> QED
    BY <1>1, <2>1
<1>3. Cycles(i) = a * c /\ Cycles(0) = (a + b + 1) * c
  BY <1>1, CalibrationAssumption DEF Cycles
<1>4. a * c \in Int /\ (a + b + 1) * c \in Int
  <2> HIDE DEF a, b, c
  <2> QED
    BY <1>1, Z3T(30)
<1> DEFINE u == a * c
           v == (a + b + 1) * c
<1>5. Cycles(i) = u /\ Cycles(0) = v /\ u \in Int /\ v \in Int /\ u + c <= v
  BY <1>2, <1>3, <1>4
<1> HIDE DEF u, v
<1> QED
  BY <1>5, CalibrationAssumption

\* What RunLeft is at each place of a run.
LEMMA RunLeftIs ==
  ASSUME CycleInv
  PROVE  /\ Cycles(0) \in Nat
         /\ pc = "idle" => RunLeft = 0
         /\ pc # "idle" => RunLeft \in 1..(2 * (Cycles(0) + 2))
<1> DEFINE z == Cycles(0)
           m == Cycles(major)
<1>1. z \in Nat /\ MaxMajor \in Nat \ {0} /\ MaxMinor \in Nat \ {0}
  BY CyclesFall, CalibrationAssumption
<1>2. pc \in {"estimate", "powers"} => m \in Nat /\ m + MaxMinor + 1 <= z
  BY CyclesFall, CyclesLess, <1>1 DEF CycleInv, InCycle
<1>3. pc = "estimate" => minor \in 1..MaxMinor
  BY DEF CycleInv, IInv, Averaging
<1>4. /\ pc \in {"idle", "enter", "estimate", "powers", "left"}
      /\ call \in {"first", "final"}
  BY DEF CycleInv, IInv, TypeInv
<1>5. /\ pc = "idle" => CallLeft = 0
      /\ pc = "enter" => CallLeft = z + 2
      /\ pc = "estimate" => CallLeft = m + (MaxMinor + 1 - minor) + 2
      /\ pc = "powers" => CallLeft = m + 2
      /\ pc = "left" => CallLeft = 1
  BY DEF CallLeft
<1>6. RunLeft = CallLeft + IF call = "first" /\ pc # "idle" THEN z + 2 ELSE 0
  BY DEF RunLeft
<1>7. pc # "idle" => CallLeft \in 1..(z + 2)
  <2> HIDE DEF z, m
  <2> QED
    BY <1>1, <1>2, <1>3, <1>4, <1>5
<1> HIDE DEF z, m
<1>8. pc = "idle" => RunLeft = 0
  BY <1>5, <1>6
<1>9. pc # "idle" => RunLeft \in 1..(2 * (z + 2))
  BY <1>1, <1>6, <1>7
<1> QED
  BY <1>1, <1>8, <1>9 DEF z

\* Every step of a run but its first brings its end nearer.
LEMMA RunLeftFalls ==
  ASSUME CycleInv, Next, ~Start
  PROVE  RunLeft' < RunLeft
<1> DEFINE z == Cycles(0)
           m == Cycles(major)
           rest == IF call = "first" THEN z + 2 ELSE 0
<1>1. z \in Nat /\ rest \in Nat /\ MaxMajor \in Nat \ {0} /\ MaxMinor \in Nat \ {0}
  BY CyclesFall, CalibrationAssumption
<1>2. pc \in {"estimate", "powers"} => m \in Nat
  BY CyclesFall, <1>1 DEF CycleInv, InCycle
<1>3. pc = "estimate" => minor \in 1..MaxMinor
  BY DEF CycleInv, IInv, Averaging
<1>4. CASE Enter
  <2>1. z = Cycles(1) + MaxMinor + 1 /\ Cycles(1) \in Nat
    BY <1>1, CyclesFall
  <2>2. RunLeft = z + 2 + rest /\ RunLeft' = Cycles(1) + (MaxMinor + 1 - 1) + 2 + rest
    BY <1>4 DEF Enter, BeginMajor, RunLeft, CallLeft
  <2> HIDE DEF z, rest
  <2> QED
    BY <1>1, <2>1, <2>2
<1>5. CASE Estimate \/ \E below \in BOOLEAN : EstimateAndAverage(below)
  <2>1. /\ pc = "estimate" /\ major' = major /\ call' = call
        /\ \/ pc' = "estimate" /\ minor' = minor + 1
           \/ pc' = "powers"
    BY <1>5 DEF Estimate, EstimateAndAverage, MoreMinor
  <2>2. /\ RunLeft = m + (MaxMinor + 1 - minor) + 2 + rest
        /\ \/ RunLeft' = m + (MaxMinor + 1 - (minor + 1)) + 2 + rest
           \/ RunLeft' = m + 2 + rest
    BY <2>1 DEF RunLeft, CallLeft
  <2> HIDE DEF z, m, rest
  <2> QED
    BY <1>1, <1>2, <1>3, <2>1, <2>2
<1>6. CASE NextMajor
  <2>1. m = Cycles(major + 1) + MaxMinor + 1 /\ Cycles(major + 1) \in Nat
    BY <1>1, <1>6, CyclesFall DEF NextMajor, CycleInv, InCycle
  <2>2. /\ RunLeft = m + 2 + rest
        /\ RunLeft' = Cycles(major + 1) + (MaxMinor + 1 - 1) + 2 + rest
    BY <1>6 DEF NextMajor, BeginMajor, RunLeft, CallLeft
  <2> HIDE DEF z, m, rest
  <2> QED
    BY <1>1, <2>1, <2>2
<1>7. CASE Leave
  <2>1. RunLeft = m + 2 + rest /\ RunLeft' = 1 + rest
    BY <1>7 DEF Leave, RunLeft, CallLeft
  <2>2. m \in Nat
    BY <1>2, <1>7 DEF Leave
  <2> HIDE DEF z, m, rest
  <2> QED
    BY <1>1, <2>1, <2>2
<1>8. CASE GiveUp \/ Finish
  BY <1>8, RunLeftIs DEF GiveUp, Finish, RunLeft, CallLeft
<1>9. CASE CalibrateAgain
  <2>1. RunLeft = 1 + (z + 2) /\ RunLeft' = z + 2 + 0
    BY <1>9 DEF CalibrateAgain, RunLeft, CallLeft
  <2> HIDE DEF z, rest
  <2> QED
    BY <1>1, <2>1
<1> QED
  BY <1>4, <1>5, <1>6, <1>7, <1>8, <1>9 DEF Next

(***************************************************************************)
(* The search in it ends as well: two steps an iteration, and the first    *)
(* simplex and the last test.                                              *)
(***************************************************************************)
SearchLeft ==
  [begin |-> 2 * MaxIterations + 3,
   test |-> 2 * (MaxIterations - iteration) + 2,
   reflect |-> 2 * (MaxIterations - iteration) + 3,
   stopped |-> 0][step]

LEMMA SearchLeftType == SearchInv => SearchLeft \in 0..(2 * MaxIterations + 3)
<1> SUFFICES ASSUME SearchInv PROVE SearchLeft \in 0..(2 * MaxIterations + 3)
  OBVIOUS
<1>1. MaxIterations \in Nat
  BY SimplexAssumption
<1>2. /\ step \in {"begin", "test", "reflect", "stopped"}
      /\ step # "stopped" => iteration \in 0..MaxIterations
  BY DEF SearchInv, SearchTypeInv, Fresh
<1>3. CASE step \in {"begin", "stopped"}
  BY <1>1, <1>3 DEF SearchLeft
<1>4. CASE step \in {"test", "reflect"}
  <2>1. iteration \in 0..MaxIterations /\ (step = "reflect" => iteration # 0)
    BY <1>2, <1>4 DEF SearchInv, Allowance
  <2> QED
    BY <1>1, <1>4, <2>1 DEF SearchLeft
<1> QED
  BY <1>2, <1>3, <1>4

LEMMA SearchLeftFalls ==
  ASSUME SearchInv, SearchNext
  PROVE  SearchLeft' < SearchLeft
<1>1. MaxIterations \in Nat
  BY SimplexAssumption
<1>2. step # "stopped" => iteration \in 0..MaxIterations
  BY DEF SearchInv, SearchTypeInv, Fresh
<1>3. CASE Begin
  <2>1. iteration = 0 /\ iteration' = iteration /\ step = "begin" /\ step' = "test"
    BY <1>3 DEF Begin, SearchInv, Fresh
  <2> QED
    BY <1>1, <2>1 DEF SearchLeft
<1>4. CASE Continue
  BY <1>1, <1>2, <1>4 DEF Continue, SearchLeft
<1>5. CASE Stop
  BY <1>1, <1>2, <1>5 DEF Stop, SearchLeft
<1>6. CASE Iterate
  <2>1. step = "reflect" /\ step' = "test" /\ iteration' = iteration
    BY <1>6 DEF Iterate, Reflect, Expand, Contract, Shrink, Replace
  <2> QED
    BY <1>1, <1>2, <2>1 DEF SearchLeft
<1> QED
  BY <1>3, <1>4, <1>5, <1>6 DEF SearchNext

(***************************************************************************)
(* Every run of the Calibrator comes to its end, for every number of       *)
(* cycles and iterations and whatever converges: after its first step, a   *)
(* step of the run lowers what is left of the two calibrations or leaves   *)
(* it and lowers what is left of the search, and both are natural numbers. *)
(* So the loops take at most 2 * (MaxMajor * (MaxMinor + 1) + 2) steps     *)
(* (Calibrator.cpp:134-167, 247, 367; NMSMax.h:115-219).                   *)
(***************************************************************************)
RunsRunOut ==
  [][\/ Start
     \/ RunLeft' < RunLeft
     \/ RunLeft' = RunLeft /\ SearchLeft' < SearchLeft]_runVars

LeftInRange ==
  /\ RunLeft \in 0..(2 * (MaxMajor * (MaxMinor + 1) + 2))
  /\ RunLeft = 0 => pc = "idle"
  /\ SearchLeft \in 0..(2 * MaxIterations + 3)

THEOREM RunsEnd == RunSpec => RunsRunOut /\ []LeftInRange
<1>1. CycleInv /\ SearchInv => LeftInRange
  <2> SUFFICES ASSUME CycleInv, SearchInv PROVE LeftInRange
    OBVIOUS
  <2>1. Cycles(0) = MaxMajor * (MaxMinor + 1)
    BY CalibrationAssumption DEF Cycles
  <2> DEFINE z == MaxMajor * (MaxMinor + 1)
  <2>2. z \in Nat /\ (pc = "idle" => RunLeft = 0) /\ (pc # "idle" => RunLeft \in 1..(2 * (z + 2)))
    BY <2>1, RunLeftIs
  <2>3. (RunLeft \in 0..(2 * (z + 2))) /\ (RunLeft = 0 => pc = "idle")
    <3> HIDE DEF z
    <3> QED
      BY <2>2
  <2> QED
    BY <2>3, SearchLeftType DEF LeftInRange
<1>2. CycleInv /\ SearchInv /\ [RunNext]_runVars =>
        [\/ Start
         \/ RunLeft' < RunLeft
         \/ RunLeft' = RunLeft /\ SearchLeft' < SearchLeft]_runVars
  <2> SUFFICES ASSUME CycleInv, SearchInv, RunNext, ~Start
               PROVE  \/ RunLeft' < RunLeft
                      \/ RunLeft' = RunLeft /\ SearchLeft' < SearchLeft
    OBVIOUS
  <2>1. CASE wsfSrcPos
    <3>1. RunLeft' = RunLeft
      BY <2>1 DEF wsfSrcPos, vars, RunLeft, CallLeft, Cycles
    <3>2. SearchNext
      BY <2>1 DEF wsfSrcPos
    <3> QED
      BY <3>1, <3>2, SearchLeftFalls
  <2>2. CASE EnterAgain \/ Elsewhere
    <3>1. Next
      BY <2>2 DEF EnterAgain, Elsewhere, Next
    <3> QED
      BY <3>1, RunLeftFalls
  <2> QED
    BY <2>1, <2>2 DEF RunNext
<1>3. RunSpec => [](CycleInv /\ SearchInv)
  BY RunsAreCalibrations, CycleInvariance, RunSearch, PTL
<1> QED
  BY <1>1, <1>2, <1>3, PTL DEF RunSpec, RunsRunOut

(***************************************************************************)
(* A search evaluates its target at most n + 1 times for the first simplex *)
(* and n + 2 times for each of the iterations it is allowed                *)
(* (NMSMax.h:106-203).                                                     *)
(***************************************************************************)
SearchBudget == step # "begin" => nf <= N + MaxIterations * (Dim + 2)

THEOREM SearchIsBounded == RunSpec => []SearchBudget
<1>1. SearchInv => SearchBudget
  <2> SUFFICES ASSUME SearchInv, step # "begin" PROVE nf <= N + MaxIterations * (Dim + 2)
    BY DEF SearchBudget
  <2>1. MaxIterations \in Nat /\ Dim + 2 \in Nat /\ N \in Nat /\ nf \in Nat
    BY SimplexAssumption, Dimensions DEF SearchInv, SearchTypeInv
  <2>2. PICK i \in 0..MaxIterations : nf <= N + i * (Dim + 2)
    <3>1. CASE step = "test"
      <4>1. iteration \in 0..MaxIterations /\ nf <= N + iteration * (Dim + 2)
        BY <3>1 DEF SearchInv, SearchTypeInv, Fresh, Allowance
      <4> QED
        BY <4>1
    <3>2. CASE step \in {"reflect", "stopped"}
      <4>1. iteration - 1 \in 0..MaxIterations /\ nf <= N + (iteration - 1) * (Dim + 2)
        <5>1. iteration \in 0..(MaxIterations + 1) /\ iteration \in Nat \ {0}
          BY <3>2 DEF SearchInv, SearchTypeInv, Allowance
        <5>2. nf <= N + (iteration - 1) * (Dim + 2)
          BY <3>2 DEF SearchInv, Allowance
        <5> QED
          BY <2>1, <5>1, <5>2
      <4> QED
        BY <4>1
    <3> QED
      BY <3>1, <3>2 DEF SearchInv, SearchTypeInv
  <2> DEFINE d == Dim + 2
             u == i * d
             v == MaxIterations * d
  <2>3. u \in Int /\ v \in Int /\ u <= v
    <3> HIDE DEF d
    <3>1. d \in Nat
      BY <2>1 DEF d
    <3>2. (MaxIterations - i) * d \in Nat
      BY <2>1, <3>1, Z3T(30)
    <3>3. MaxIterations * d = i * d + (MaxIterations - i) * d /\ i * d \in Nat
      BY <2>1, <3>1, Z3T(30)
    <3> QED
      BY <3>2, <3>3, Z3T(30)
  <2>4. nf <= N + u
    BY <2>2
  <2> HIDE DEF u, v
  <2>5. nf <= N + v
    BY <2>1, <2>3, <2>4
  <2> QED
    BY <2>5 DEF v
<1> QED
  BY <1>1, RunSearch, PTL

=============================================================================
