-------------------------------- MODULE SkyImage --------------------------------
(***************************************************************************)
(* From the correlation matrix to the files: the Imager puts the           *)
(* correlations of every polarization on a grid and transforms it to a     *)
(* picture of the sky, and the output streams write the picture.           *)
(*                                                                         *)
(* Coordinates are multiples of 1/Sub of a cell of the grid, and weights   *)
(* multiples of 1/Sub^2.  The transform itself is external: it returns     *)
(* some picture.                                                           *)
(***************************************************************************)
EXTENDS Visibilities

CONSTANTS
  Size,         \* IMAGE_OUTPUT_SIZE, an even number
  Sub,          \* the coordinates a cell is divided in
  Positions,    \* bound: <<x, y>> of every antenna, in coordinates
  Pictures,     \* bound: what the transform may return
  MaxBrightness,\* bound: no pixel of a picture is further from zero
  Levels        \* the largest value of a pixel in the TIFF file, 255

ASSUME SkyImageAssumption ==
  /\ Size \in Nat \ {0} /\ Size % 2 = 0
  /\ Sub \in Nat \ {0}
  /\ MaxBrightness \in Nat
  /\ Levels \in Nat \ {0}

Pixels == (0..(Size - 1)) \X (0..(Size - 1))
Half == Size \div 2

\* The noise of the sky is brighter and darker than zero.
ASSUME PicturesAssumption ==
  Pictures \subseteq [Pixels -> (-MaxBrightness)..MaxBrightness]

VARIABLES
  at,       \* where the antennas are: mUCoords and mVCoords are differences
  flags,    \* the antennas that are flagged; mMasks
  grid,     \* mGridded: which cells of the matrix are where, and how much
  image,    \* mGridded after the transform: the picture
  total,    \* mSkyMap: twice the mean of the pictures
  sky,      \* mSkyMap when the Imager is done
  tiff,     \* the pixels of the TIFF file
  casa      \* the pixels of the CASA image

imagerVars == <<at, flags, grid, image, total>>
outputVars == <<sky, tiff, casa>>
vars == <<pathVars, imagerVars, outputVars>>

Blank == [k \in Pixels |-> 0]

Init ==
  /\ PathInit
  /\ at = None
  /\ flags = {} /\ grid = None /\ image = None /\ total = None
  /\ sky = None /\ tiff = None /\ casa = None

(***************************************************************************)
(* The Imager begins, with the polarization XX.  The antennas are flagged  *)
(* in AntennaFlags; the matrix of YY is like that of XX.  Where they are   *)
(* is chosen here, although the constructor reads it.                      *)
(***************************************************************************)
Begin ==
  /\ stage = "matrix"
  /\ at' \in Positions
  /\ pol' = 0
  /\ total' = Blank
  /\ stage' = "regrid"
  /\ chunk' = None /\ result' = None /\ row' = 0 /\ channels' = 0
  /\ UNCHANGED <<text, ranges, packet, raw, column, magnitude, matrix, flags, grid,
                 image, outputVars>>

(***************************************************************************)
(* gridding(): a correlation is shared by the cells around its place, more *)
(* to the nearer ones.  If the place is on a line of the grid, the same    *)
(* cells get it twice.                                                     *)
(***************************************************************************)
\* Mutants: the origin is the cell after the middle; the nearer cell gets less.
CentreAtHalf == Sub * Half
ShareSwapped(k, u) ==
  LET near == u \div Sub
      far == (u + Sub - 1) \div Sub
  IN (IF k = near THEN Sub - (Sub * far - u) ELSE 0) + (IF k = far THEN Sub - (u - Sub * near) ELSE 0)

Centre == Sub * (Half - 1)

\* The code writes its cells unchecked: the array is smaller than the grid.
ASSUME PositionsAssumption ==
  \A p \in Positions : \A a, b \in Antennas, k \in {1, 2} :
    p[a][k] \in Int /\ p[a][k] - p[b][k] + Sub * (Half - 1) >= 0

Share(k, u) ==
  LET near == u \div Sub
      far == (u + Sub - 1) \div Sub
  IN (IF k = near THEN Sub - (u - Sub * near) ELSE 0) + (IF k = far THEN Sub - (Sub * far - u) ELSE 0)

U(pair) == at[pair[1]][1] - at[pair[2]][1] + Centre
V(pair) == at[pair[1]][2] - at[pair[2]][2] + Centre
Weight(cell, pair) == Share(cell[1], V(pair)) * Share(cell[2], U(pair))

Masked(pair) == pair[1] = pair[2] \/ {pair[1], pair[2]} \cap flags # {}

\* What a cell of the matrix adds to a cell of the grid.
Term(cell, pair) ==
  [baseline |-> matrix[pair].baseline, conj |-> matrix[pair].conj, weight |-> Weight(cell, pair)]

Grid(f) ==
  /\ stage = "regrid"
  /\ flags' = f
  /\ grid' = [cell \in Pixels |->
       {Term(cell, pair) : pair \in {q \in Pairs : ~Masked(q)' /\ Weight(cell, q) > 0}}]
  /\ stage' = "gridded"
  /\ UNCHANGED <<serverVars, chunk, raw, flaggerVars, at, image, total, outputVars>>

(***************************************************************************)
(* fftShift() swaps the quadrants; the grid is reversed and conjugated     *)
(* before the transform, and the picture is shifted after it.              *)
(***************************************************************************)
Shifted(m) == [k \in Pixels |-> m[<<(k[1] + Half) % Size, (k[2] + Half) % Size>>]]
Reversed(m) == [k \in Pixels |-> m[<<Size - 1 - k[1], Size - 1 - k[2]>>]]
Conjugate(terms) == {[t EXCEPT !.conj = ~t.conj] : t \in terms}
Conjugated(m) == [k \in Pixels |-> Conjugate(m[k])]

Arrange ==
  /\ stage = "gridded"
  /\ grid' = Conjugated(Reversed(Shifted(grid)))
  /\ stage' = "spectrum"
  /\ UNCHANGED <<serverVars, chunk, raw, flaggerVars, at, flags, image, total, outputVars>>

(***************************************************************************)
(* The transform, and the sum over the polarizations.                      *)
(***************************************************************************)
Transform(picture) ==
  /\ stage = "spectrum"
  /\ image' = Shifted(picture)
  /\ total' = [k \in Pixels |-> total[k] + image'[k]]
  /\ grid' = None /\ flags' = {}
  /\ pol' = pol + 1
  /\ stage' = IF pol = 0 THEN "regrid" ELSE "sum"
  /\ UNCHANGED <<serverVars, chunk, raw, column, magnitude, result, matrix, at, outputVars>>

(***************************************************************************)
(* The sky map is the disc above the horizon.  What is selected there is   *)
(* the picture of the last polarization and not the sum.                   *)
(***************************************************************************)
InDisc(k) == (k[1] - Half) * (k[1] - Half) + (k[2] - Half) * (k[2] - Half) < Half * Half
Transposed(k) == <<k[2], k[1]>>

Selected(m) == [k \in Pixels |-> IF InDisc(k) THEN m[Transposed(k)] ELSE 0]

Finish ==
  /\ stage = "sum"
  /\ sky' = Selected(image)
  /\ stage' = "output"
  /\ at' = None
  /\ UNCHANGED <<serverVars, chunk, raw, flaggerVars, flags, grid, image, total, tiff, casa>>

-----------------------------------------------------------------------------
(***************************************************************************)
(* sendStream() of the two storages, in the order of the configuration.    *)
(* The one for TIFF first normalises the sky map of the blob; the common   *)
(* divisor of its pixels is left out.  A sky that is the same everywhere   *)
(* is divided by zero.                                                     *)
(***************************************************************************)
NotANumber == "NaN"
Least(m) == Min(Range(m))
Contrast(m) == Max(Range(m)) - Least(m)
Normalised(m) ==
  [k \in Pixels |-> IF Contrast(m) = 0 THEN NotANumber ELSE m[k] - Least(m)]

\* Coefficient i of a matrix in memory, where columns are contiguous.
Coefficient(m, i) == m[<<i % Size, i \div Size>>]

(***************************************************************************)
(* A coefficient v / most is raised to the power of gamma, 11/5, and       *)
(* rounded to one of the levels of a byte.  That is as many levels as it   *)
(* reaches the middle before: level b if                                   *)
(* (b - 1/2)^5 * most^11 <= Levels^5 * v^11.                               *)
(***************************************************************************)
Fifth(x) == x * x * x * x * x
Eleventh(x) == Fifth(x) * Fifth(x) * x
Byte(v, most) ==
  Cardinality({b \in 1..Levels :
    Fifth(2 * b - 1) * Eleventh(most) <= Fifth(2 * Levels) * Eleventh(v)})

\* The byte that a NaN is converted to is not specified.
WriteTiff ==
  /\ stage = "output" /\ tiff = None
  /\ sky' = Normalised(sky)
  /\ \E byte \in 0..Levels :
       tiff' = [pixel \in Pixels |->
         IF Contrast(sky) = 0 THEN byte
         ELSE Byte(Coefficient(sky', pixel[2] * Size + pixel[1]), Contrast(sky))]
  /\ UNCHANGED <<pathVars, imagerVars, casa>>

\* Mutant: the rows are not turned upside down.
RowAsIs(i) == i
RowUp(i) == Size - 1 - i

WriteCasa ==
  /\ stage = "output" /\ casa = None
  /\ casa' = [pixel \in Pixels |-> sky[<<pixel[1], RowUp(pixel[2])>>]]
  /\ UNCHANGED <<pathVars, imagerVars, sky, tiff>>

Next ==
  \/ PathNext /\ UNCHANGED <<imagerVars, outputVars>>
  \/ Begin \/ (\E f \in SUBSET Antennas : Grid(f)) \/ Arrange
  \/ (\E picture \in Pictures : Transform(picture)) \/ Finish
  \/ WriteTiff \/ WriteCasa

Spec == Init /\ [][Next]_vars

-----------------------------------------------------------------------------
(***************************************************************************)
(* Splatted: what a correlation adds to the grid has its centre at the     *)
(* place of the correlation, wherever that is between the cells            *)
(* (Imager.cpp:126-150).                                                   *)
(***************************************************************************)
Splatted ==
  stage = "gridded" =>
    \A pair \in Pairs : ~Masked(pair) =>
      LET w == [cell \in Pixels |-> Weight(cell, pair)]
          Moment(i) == Total([cell \in Pixels |-> w[cell] * cell[i]])
      IN /\ Total(w) > 0
         /\ Sub * Moment(1) = V(pair) * Total(w)
         /\ Sub * Moment(2) = U(pair) * Total(w)

(***************************************************************************)
(* RealImage: opposite cells of the grid that is transformed are each      *)
(* other's conjugates, so that the picture is real and nothing is lost     *)
(* when its imaginary part is dropped (Imager.cpp:77-84,                   *)
(* Flagger.cpp:154-161).                                                   *)
(***************************************************************************)
RealImage ==
  stage = "spectrum" =>
    \A k \in Pixels :
      grid[<<(Size - k[1]) % Size, (Size - k[2]) % Size>>] = Conjugate(grid[k])

(***************************************************************************)
(* SamePicture: the two files show the same picture, the one with rows     *)
(* that go down and the other with rows that go up, whichever is written   *)
(* first.  What is not darker in the CASA image has no smaller byte in the *)
(* TIFF file, where two brightnesses may share a byte, and the bytes use   *)
(* the whole scale (TiffStorage.cpp:47-61, CasaImageStorage.cpp:127-129).  *)
(* A sky that is the same everywhere is left out.                          *)
(***************************************************************************)
SamePicture ==
  tiff # None /\ casa # None /\ Contrast(Selected(image)) > 0 =>
    LET Value(k) == casa[<<k[1], Size - 1 - k[2]>>]
    IN \A k \in Pixels :
         /\ \A l \in Pixels : Value(k) >= Value(l) => tiff[k] >= tiff[l]
         /\ (\A l \in Pixels : Value(k) >= Value(l)) => tiff[k] = Levels
         /\ (\A l \in Pixels : Value(k) <= Value(l)) => tiff[k] = 0

(***************************************************************************)
(* StokesI: the sky map is the mean of the polarizations ("Create Stokes I *)
(* image", Imager.cpp:67).  The code overwrites it with the last one.      *)
(***************************************************************************)
StokesI ==
  stage = "output" /\ tiff = None =>
    \A k \in Pixels : InDisc(k) => 2 * sky[k] = total[Transposed(k)]

=============================================================================
