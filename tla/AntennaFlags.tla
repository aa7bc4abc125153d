----------------------------- MODULE AntennaFlags -----------------------------
(***************************************************************************)
(* Which antennas take part: Flagger::run() flags antennas of the chunk,   *)
(* and Calibrator::run() squeezes the correlation matrix to the antennas   *)
(* that are left, calibrates it, and puts it back.                         *)
(*                                                                         *)
(* The module is one Flagger and one Calibrator, which keeps its matrices  *)
(* from one run to the next; every run is given one polarization of a      *)
(* blob that was reset.  What the flags depend on is the strength of every *)
(* antenna, the mean magnitude of its visibilities.                        *)
(*                                                                         *)
(* The build decides what an index beyond a matrix does: the default build *)
(* asserts and ends, a release build reads and writes the memory there.    *)
(***************************************************************************)
EXTENDS Sequences, SequencesExt, Statistics

CONSTANTS
  NumAntennas,  \* NUM_ANTENNAS, an even number
  Texts,        \* what attribute "flagged" of <antenna> may hold
  Builds,       \* which builds of the program: "default", "release"
  Sigma,        \* attribute "sigma" of <antenna>, default 3
  MaxStrength,  \* bound: strengths are 0 (below 1e-5) to MaxStrength
  MaxRuns       \* bound: how often the modules run

Antennas == 0..(NumAntennas - 1)
Comma == -1
Cells == Antennas \X Antennas

ASSUME AntennaAssumption ==
  /\ NumAntennas \in Nat \ {0}
  /\ NumAntennas % 2 = 0
  /\ Builds \subseteq {"default", "release"}
  /\ Sigma \in Nat
  /\ MaxStrength \in Nat
  /\ MaxRuns \in Nat

VARIABLES
  build,     \* how the program was compiled
  config,    \* mFlaggedAnts of the Flagger
  runs,      \* how often the modules have run
  pc,        \* where the run is; "aborted" if the program has ended
  strength,  \* mAntennas
  flagged,   \* mFlagged of the blob, a list
  masks,     \* the cells of mMasks of the blob that are 1
  last,      \* mFlagged of the Calibrator
  size,      \* the number of rows, and of columns, of its matrices
  squeezed,  \* the cell each cell of mNormalizedData was taken from
  outside,   \* the places that were written beyond the memory of the matrices
  clean      \* what each cell of mCleanData of the blob holds

vars == <<build, config, runs, pc, strength, flagged, masks, last, size, squeezed,
          outside, clean>>

\* What a cell of mNormalizedData holds before this run has written it.
Stale == <<>>

(***************************************************************************)
(* ParseFlagged(): every comma, and the end, lists the number read last.   *)
(* A text is a sequence of numbers and commas.                             *)
(***************************************************************************)
ListToken(s, t) ==
  IF t = Comma THEN [s EXCEPT !.list = Append(@, s.number)] ELSE [s EXCEPT !.number = t]

ParseFlagged(text) ==
  IF text = <<>> THEN <<>>
  ELSE FoldLeft(ListToken, [number |-> -1, list |-> <<>>], Append(text, Comma)).list

\* No number is missing before a comma or beyond the antennas; the code trusts it.
ASSUME TextsAssumption == \A text \in Texts : ParseFlagged(text) \in Seq(Antennas)

Init ==
  /\ build \in Builds
  /\ config \in {ParseFlagged(text) : text \in Texts}
  /\ runs = 0
  /\ pc = "idle"
  /\ strength = [a \in Antennas |-> 0]
  /\ flagged = <<>>
  /\ masks = {<<a, a>> : a \in Antennas}
  /\ last = <<>>
  /\ size = NumAntennas
  /\ squeezed = [cell \in Cells |-> Stale]
  /\ outside = {}
  /\ clean = [cell \in Cells |-> "measured"]

(***************************************************************************)
(* The next polarization, in a blob that was reset, and its matrix.        *)
(***************************************************************************)
Start ==
  /\ pc = "idle"
  /\ runs < MaxRuns
  /\ runs' = runs + 1
  /\ pc' = "config"
  /\ strength' \in [Antennas -> 0..MaxStrength]
  /\ flagged' = <<>>
  /\ masks' = {<<a, a>> : a \in Antennas}
  /\ clean' = [cell \in Cells |-> "measured"]
  /\ squeezed' = [cell \in Cells |-> Stale]
  /\ outside' = {}
  /\ UNCHANGED <<build, config, last, size>>

-----------------------------------------------------------------------------
(***************************************************************************)
(* Flagger::run().  Flagging sets the row and the column of the antenna in *)
(* the mask and appends the antenna to the list.                           *)
(***************************************************************************)
Cross(a) == {cell \in Cells : cell[1] = a \/ cell[2] = a}

\* The members of a set of antennas, in the order of the loop.
InOrder(as) ==
  [k \in 1..Cardinality(as) |->
     CHOOSE a \in as : Cardinality({b \in as : b <= a}) = k]

Flag(list) ==
  /\ flagged' = flagged \o list
  /\ masks' = masks \cup UNION {Cross(a) : a \in Range(list)}

FlagConfigured ==
  /\ pc = "config"
  /\ Flag(config)
  /\ pc' = "dead"
  /\ UNCHANGED <<build, config, runs, strength, last, size, squeezed, outside, clean>>

FlagDead ==
  /\ pc = "dead"
  /\ Flag(InOrder({a \in Antennas : strength[a] = 0} \ Range(flagged)))
  /\ pc' = "clip"
  /\ UNCHANGED <<build, config, runs, strength, last, size, squeezed, outside, clean>>

(***************************************************************************)
(* An antenna is bad if its strength is more than Sigma standard deviations *)
(* from the median, both over all antennas.                                *)
(***************************************************************************)
Bad(a) == Distance(strength, a) * Distance(strength, a) > SquaredLimit(strength, Sigma)

\* Mutant: the list of the sigma clip has no masks.
SigmaClipUnmasked ==
  /\ pc = "clip"
  /\ flagged' = flagged \o InOrder({a \in Antennas : Bad(a)})
  /\ masks' = masks
  /\ pc' = "resize"
  /\ UNCHANGED <<build, config, runs, strength, last, size, squeezed, outside, clean>>

SigmaClip ==
  /\ pc = "clip"
  /\ Flag(InOrder({a \in Antennas : Bad(a)}))
  /\ pc' = "resize"
  /\ UNCHANGED <<build, config, runs, strength, last, size, squeezed, outside, clean>>

-----------------------------------------------------------------------------
(***************************************************************************)
(* Calibrator::run(): the matrices are resized if the length of the list   *)
(* is another than in the last run.  No build can resize to less than      *)
(* nothing: the default one asserts, the other one fails to allocate.      *)
(***************************************************************************)
Changed == Len(last) # Len(flagged)
NewSize == NumAntennas - Len(flagged)

\* Mutant: the list of the last run is never replaced.
ResizeFromFirst ==
  /\ pc = "resize"
  /\ ~(Changed /\ NewSize < 0)
  /\ size' = IF Changed THEN NewSize ELSE size
  /\ last' = last
  /\ pc' = "squeeze"
  /\ UNCHANGED <<build, config, runs, strength, flagged, masks, squeezed, outside, clean>>

Resize ==
  /\ pc = "resize"
  /\ ~(Changed /\ NewSize < 0)
  /\ size' = IF Changed THEN NewSize ELSE size
  /\ last' = flagged
  /\ pc' = "squeeze"
  /\ UNCHANGED <<build, config, runs, strength, flagged, masks, squeezed, outside, clean>>

ResizeFails ==
  /\ pc = "resize"
  /\ Changed /\ NewSize < 0
  /\ pc' = "aborted"
  /\ UNCHANGED <<build, config, runs, strength, flagged, masks, last, size, squeezed,
                 outside, clean>>

(***************************************************************************)
(* The cells of two antennas that are left move up to the cells of their   *)
(* places among those that are left.                                       *)
(***************************************************************************)
Left == Antennas \ Range(last)
LeftCells == Left \X Left

\* Mutants: the places are counted from one; the columns are not squeezed.
PlaceFromOne(a) == Cardinality({b \in Left : b <= a})
PlaceInRowOnly(cell) == <<Cardinality({b \in Left : b < cell[1]}), cell[2]>>

Place(a) == Cardinality({b \in Left : b < a})
PlaceOf(cell) == <<Place(cell[1]), Place(cell[2])>>
Fits(cell) == cell[1] < size /\ cell[2] < size
AllFit == \A cell \in LeftCells : Fits(PlaceOf(cell))

(***************************************************************************)
(* Columns are contiguous in the memory of a matrix: a row beyond the last *)
(* one is a cell of the next column.                                       *)
(***************************************************************************)
Index(place) == place[1] + place[2] * size
InMemory(place) == Index(place) < size * size

\* The cells that are written to the memory of a place, row by row, and the last of them.
WrittenTo(place) == {from \in LeftCells : Index(PlaceOf(from)) = Index(place)}
LastWritten(place) ==
  CHOOSE from \in WrittenTo(place) : \A other \in WrittenTo(place) : other[1] <= from[1]

SqueezeAsserts ==
  /\ pc = "squeeze"
  /\ build = "default" /\ ~AllFit
  /\ pc' = "aborted"
  /\ UNCHANGED <<build, config, runs, strength, flagged, masks, last, size, squeezed,
                 outside, clean>>

\* What is written beyond the memory of the matrices may end the program or not.
Squeeze ==
  /\ pc = "squeeze"
  /\ build = "release" \/ AllFit
  /\ squeezed' = [to \in Cells |->
       IF Fits(to) /\ WrittenTo(to) # {} THEN LastWritten(to) ELSE Stale]
  /\ outside' = {PlaceOf(from) : from \in {c \in LeftCells : ~InMemory(PlaceOf(c))}}
  /\ pc' \in IF outside' = {} THEN {"solve"} ELSE {"solve", "aborted"}
  /\ UNCHANGED <<build, config, runs, strength, flagged, masks, last, size, clean>>

(***************************************************************************)
(* The first calibration may not converge, which ends the run; otherwise   *)
(* the calibrated cells move back to where they came from.                 *)
(***************************************************************************)
GiveUp ==
  /\ pc = "solve"
  /\ pc' = "idle"
  /\ UNCHANGED <<build, config, runs, strength, flagged, masks, last, size, squeezed,
                 outside, clean>>

\* What is read from the memory of a place.
Read(place) ==
  LET inside == {to \in Cells : Fits(to) /\ Index(to) = Index(place)}
  IN IF inside = {} THEN Stale ELSE squeezed[CHOOSE to \in inside : TRUE]

Reconstruct ==
  /\ pc = "solve"
  /\ clean' = [cell \in Cells |->
       IF cell \notin LeftCells THEN clean[cell]
       ELSE IF Read(PlaceOf(cell)) = cell THEN "calibrated"
       ELSE "garbage"]
  /\ pc' = "idle"
  /\ UNCHANGED <<build, config, runs, strength, flagged, masks, last, size, squeezed,
                 outside>>

Next ==
  \/ Start
  \/ FlagConfigured \/ FlagDead \/ SigmaClip
  \/ Resize \/ ResizeFails
  \/ Squeeze \/ SqueezeAsserts
  \/ GiveUp \/ Reconstruct

Spec == Init /\ [][Next]_vars

-----------------------------------------------------------------------------
TypeInv ==
  /\ build \in Builds
  /\ config \in Seq(Antennas)
  /\ runs \in 0..MaxRuns
  /\ pc \in {"idle", "config", "dead", "clip", "resize", "squeeze", "solve", "aborted"}
  /\ strength \in [Antennas -> 0..MaxStrength]
  /\ flagged \in Seq(Antennas)
  /\ last \in Seq(Antennas)
  /\ masks \subseteq Cells
  /\ size \in 0..NumAntennas
  /\ squeezed \in [Cells -> Cells \cup {Stale}]
  /\ outside \subseteq Cells
  /\ clean \in [Cells -> {"measured", "calibrated", "garbage"}]

Once == IsInjective(flagged)

(***************************************************************************)
(* MasksAgree: the mask and the list of a blob say the same of every pair  *)
(* of antennas, whichever of the three loops flagged them and however      *)
(* often (Flagger.cpp:167-215).                                            *)
(***************************************************************************)
MasksAgree ==
  \A cell \in Cells :
    cell \in masks <=> cell[1] = cell[2] \/ {cell[1], cell[2]} \cap Range(flagged) # {}

\* The list has no doubles, or the default build would have ended.
Sound == Once \/ build = "default"

(***************************************************************************)
(* Squeezed: whatever was flagged in the run before, a matrix that is      *)
(* calibrated has in every cell the pair of antennas of its place, and     *)
(* nothing was written beyond it, if no antenna is listed twice or if the  *)
(* build asserts (Calibrator.cpp:75-107).                                  *)
(***************************************************************************)
Squeezed ==
  pc = "solve" /\ Sound =>
    /\ \A cell \in Cells : Fits(cell) =>
         /\ squeezed[cell] \in LeftCells
         /\ PlaceOf(squeezed[cell]) = cell
    /\ outside = {}

(***************************************************************************)
(* PutBack: if no antenna is listed twice or if the build asserts, a run   *)
(* calibrates every pair of antennas that are left or none, and leaves the *)
(* others as the Flagger left them (Calibrator.cpp:136-193).               *)
(***************************************************************************)
PutBack ==
  pc = "idle" /\ Sound =>
    LET some == {cell \in Cells : clean[cell] # "measured"}
    IN /\ some \in {{}, LeftCells}
       /\ \A cell \in some : clean[cell] = "calibrated"

(***************************************************************************)
(* ClipsRemaining: "Sigma clip the remaining dipoles" (Flagger.cpp:193)    *)
(* flags no antenna that was flagged before.  The code clips all antennas. *)
(***************************************************************************)
ClipsRemaining == IsInjective(config) => Once

=============================================================================
