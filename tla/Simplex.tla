-------------------------------- MODULE Simplex --------------------------------
(***************************************************************************)
(* NM::Simplex(), the Nelder-Mead search for the source positions.         *)
(*                                                                         *)
(* A vertex is known by the evaluation that found its value, and the       *)
(* target may have any value anywhere: every evaluation returns some value.*)
(* Values are those of the code after the multiplication with dirn, which  *)
(* turns the search for a minimum into one for a maximum.                  *)
(***************************************************************************)
EXTENDS Integers, Functions

CONSTANTS
  Dim,            \* n, the number of coordinates
  Values,         \* bound: the values the target may have
  MaxIterations   \* the argument "iterations"

ASSUME SimplexAssumption ==
  /\ Dim \in Nat \ {0}
  /\ Values \subseteq Int
  /\ MaxIterations \in Nat

VARIABLES
  step,       \* where the search is
  iteration,  \* the loop counter
  V,          \* the vertices, each with its value on record
  f,          \* the values the code keeps beside them
  x,          \* the point evaluated last, which is what is returned
  nf          \* the number of evaluations the code counts

searchVars == <<step, iteration, V, f, x, nf>>

Vertices == [at : Nat, value : Values]
N == Dim + 1

Best == f[1]
NextToWorst == f[Dim]
Worst == f[N]

-----------------------------------------------------------------------------
(***************************************************************************)
(* sort() arranges the values in descending order and returns the places   *)
(* they come from; the columns of V follow.  Equal values may end up in    *)
(* any order, as std::sort() is not stable.                                *)
(***************************************************************************)
Descending(s) == \A i, j \in DOMAIN s : i <= j => s[i] >= s[j]
Orders == Bijection(1..N, 1..N)

\* Mutant: the columns of V stay where they are.
SortValuesOnly(W, g) ==
  \E I \in Orders :
    /\ f' = [i \in 1..N |-> g[I[i]]]
    /\ V' = W
    /\ Descending(f')

Sort(W, g) ==
  \E I \in Orders :
    /\ f' = [i \in 1..N |-> g[I[i]]]
    /\ V' = [i \in 1..N |-> W[I[i]]]
    /\ Descending(f')

\* The point of the k-th evaluation from now, if its value is v.
Evaluated(k, v) == [at |-> nf + k, value |-> v]

SearchInit ==
  /\ step = "begin"
  /\ iteration = 0
  /\ V = <<>>
  /\ f = <<>>
  /\ x = [at |-> 0, value |-> 0]
  /\ nf = 0

(***************************************************************************)
(* The first simplex: x0 and one more vertex for every coordinate.         *)
(***************************************************************************)
Begin ==
  /\ step = "begin"
  /\ \E g \in [1..N -> Values] :
       LET W == [i \in 1..N |-> [at |-> i, value |-> g[i]]]
       IN Sort(W, g) /\ x' = W[1]
  /\ nf' = N
  /\ step' = "test"
  /\ UNCHANGED iteration

(***************************************************************************)
(* The tests at the head of the loop: too many iterations, and a simplex   *)
(* that has become small, which the first one never is.                    *)
(***************************************************************************)
Continue ==
  /\ step = "test"
  /\ iteration < MaxIterations
  /\ iteration' = iteration + 1
  /\ step' = "reflect"
  /\ UNCHANGED <<V, f, x, nf>>

Stop ==
  /\ step = "test"
  /\ iteration > 0 \/ iteration = MaxIterations
  /\ iteration' = iteration + 1
  /\ step' = "stopped"
  /\ UNCHANGED <<V, f, x, nf>>

-----------------------------------------------------------------------------
(***************************************************************************)
(* The end of an iteration: the worst vertex is replaced.                  *)
(***************************************************************************)
Replace(W, g, vertex) ==
  /\ Sort([W EXCEPT ![N] = vertex], [g EXCEPT ![N] = vertex.value])
  /\ step' = "test"
  /\ UNCHANGED iteration

(***************************************************************************)
(* The reflected vertex is good enough to be taken ...                     *)
(***************************************************************************)
Reflect(fr) ==
  /\ step = "reflect"
  /\ fr > NextToWorst
  /\ fr <= Best
  /\ x' = Evaluated(1, fr)
  /\ nf' = nf + 1
  /\ Replace(V, f, x')

(***************************************************************************)
(* ... or is the best so far, and the simplex is tried further out ...     *)
(***************************************************************************)
\* Mutant: the expanded vertex is taken without a test.
BetterAlways(fr, fe) == Evaluated(2, fe)

Better(fr, fe) == IF fe > Best THEN Evaluated(2, fe) ELSE Evaluated(1, fr)

Expand(fr, fe) ==
  /\ step = "reflect"
  /\ fr > NextToWorst
  /\ fr > Best
  /\ x' = Evaluated(2, fe)
  /\ nf' = nf + 2
  /\ Replace(V, f, Better(fr, fe))

(***************************************************************************)
(* ... or is no better than the second worst, and a vertex further in is   *)
(* tried.  The code compares it with the worst vertex only.                *)
(***************************************************************************)
Contract(fr, fc) ==
  /\ step = "reflect"
  /\ fr <= NextToWorst
  /\ fc > Worst
  /\ x' = Evaluated(2, fc)
  /\ nf' = nf + 2
  /\ Replace(V, f, x')

(***************************************************************************)
(* Nothing helps: all vertices but the best move half way towards it.      *)
(***************************************************************************)
\* Mutants: the best value is not carried over; the loop counts once too often.
ShrunkWithoutBest(fs) == [i \in 1..N |-> IF i = 1 THEN fs[2] ELSE fs[i]]
ShrinkCostMore == 2 + Dim + 1

Moved(fs) == [i \in 1..N |-> IF i = 1 THEN V[1] ELSE Evaluated(1 + i, fs[i])]
Shrunk(fs) == [i \in 1..N |-> IF i = 1 THEN f[1] ELSE fs[i]]
ShrinkCost == 2 + (Dim - 1) + 1

Shrink(fr, fc, fs) ==
  LET W == Moved(fs)
  IN /\ step = "reflect"
     /\ fr <= NextToWorst
     /\ fc <= Worst
     /\ x' = W[N]
     /\ nf' = nf + ShrinkCost
     /\ Replace(W, Shrunk(fs), x')

Iterate ==
  \E fr \in Values :
    \/ Reflect(fr)
    \/ \E fe \in Values : Expand(fr, fe)
    \/ \E fc \in Values : Contract(fr, fc)
    \/ \E fc \in Values, fs \in [2..N -> Values] : Shrink(fr, fc, fs)

SearchNext == Begin \/ Continue \/ Stop \/ Iterate

SearchSpec == SearchInit /\ [][SearchNext]_searchVars

-----------------------------------------------------------------------------
SearchTypeInv ==
  /\ step \in {"begin", "test", "reflect", "stopped"}
  /\ iteration \in 0..(MaxIterations + 1)
  /\ nf \in Nat
  /\ x \in [at : Nat, value : Values \cup {0}]
  /\ step # "begin" => V \in [1..N -> Vertices] /\ f \in [1..N -> Values]

(***************************************************************************)
(* Ranked: at the head of the loop the values are in descending order and  *)
(* belong to the columns of V at the same places, although the two are     *)
(* changed and sorted separately (NMSMax.h:110-113, 193-211).              *)
(***************************************************************************)
Ranked ==
  step # "begin" => Descending(f) /\ \A i \in 1..N : f[i] = V[i].value

(***************************************************************************)
(* Affordable: whatever the target is like, an iteration evaluates it at   *)
(* most n + 2 times, and every vertex was evaluated on its own             *)
(* (NMSMax.h:106-203).                                                     *)
(***************************************************************************)
Affordable ==
  step # "begin" =>
    /\ nf <= N + iteration * (Dim + 2)
    /\ \A i \in 1..N : V[i].at \in 1..nf
    /\ \A i, j \in 1..N : V[i].at = V[j].at => i = j

(***************************************************************************)
(* BestKept: the best value found in the simplex is never lost in a        *)
(* search, not even when the simplex shrinks (NMSMax.h:191-211).           *)
(***************************************************************************)
BestKept == [][f # <<>> /\ f' # <<>> => f'[1] >= f[1]]_f

(***************************************************************************)
(* OnlyShrinkWorsens: an iteration that does not shrink the simplex makes  *)
(* no place of the ranking worse (NMSMax.h:154-188).                       *)
(***************************************************************************)
OnlyShrinkWorsens ==
  [][f # <<>> /\ f' # <<>> /\ nf' <= nf + 2 => \A i \in 1..N : f'[i] >= f[i]]_f

(***************************************************************************)
(* MinimumReturned: "On exit, the function returns x, the minimum point"   *)
(* (NMSMax.h:9), the best of the vertices that are left.  The code returns *)
(* the point it evaluated last (NMSMax.h:219-221).                         *)
(***************************************************************************)
MinimumReturned == step = "stopped" => x.value = Best

=============================================================================
