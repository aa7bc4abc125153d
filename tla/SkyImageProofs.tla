---------------------------- MODULE SkyImageProofs ----------------------------
(***************************************************************************)
(* Proofs about SkyImage, for any size of the picture and any array that   *)
(* fits on the grid: the path of the visibilities of VisibilitiesProofs    *)
(* inside the whole system (PathInv), the pictures and the files           *)
(* (FilesInv), and the grid, whose opposite cells are each other's         *)
(* conjugates (GridInv).                                                   *)
(***************************************************************************)
EXTENDS SkyImage, VisibilitiesProofs

-----------------------------------------------------------------------------
(***************************************************************************)
(* What the steps after the matrix leave of the path: its invariant says   *)
(* nothing of their stages.                                                *)
(***************************************************************************)
LEMMA PathLeft ==
  ASSUME stage' \in {"regrid", "gridded", "spectrum", "sum", "output"}
  PROVE  PathInv'
BY DEF PathInv, Configurable, Serving, Cut, Deserialised, Averaged, Measured, Correlated

\* PathInv is an invariant of the whole system.
LEMMA PathInside == Spec => []PathInv
<1>1. Init => PathInv
  BY PathBegins DEF Init
<1>2. PathInv /\ [Next]_vars => PathInv'
  <2> SUFFICES ASSUME PathInv, [Next]_vars PROVE PathInv'
    OBVIOUS
  <2>1. CASE PathNext
    BY <2>1, PathGoesOn
  <2>2. CASE Begin \/ (\E f \in SUBSET Antennas : Grid(f)) \/ Arrange
             \/ (\E picture \in Pictures : Transform(picture)) \/ Finish
    <3>1. stage' \in {"regrid", "gridded", "spectrum", "sum", "output"}
      BY <2>2 DEF Begin, Grid, Arrange, Transform, Finish
    <3> QED
      BY <3>1, PathLeft
  <2>3. CASE WriteTiff \/ WriteCasa \/ UNCHANGED vars
    <3>1. UNCHANGED pathVars
      BY <2>3 DEF WriteTiff, WriteCasa, vars
    <3> QED
      BY <3>1, PathStops
  <2> QED
    BY <2>1, <2>2, <2>3 DEF Next
<1> QED
  BY <1>1, <1>2, PTL DEF Spec

(***************************************************************************)
(* For any texts that may be configured: the text of channel ranges that   *)
(* do not overlap, in any order, gives exactly those ranges, in ascending  *)
(* order; only the range of all 16-bit numbers gets a chunk that is too    *)
(* small for it (StreamChunker.cpp:23, 143-199).                           *)
(***************************************************************************)
THEOREM Configured == Spec => []RangesAsWritten
BY PathInside, WrittenByServer, PTL

(***************************************************************************)
(* For any number of antennas, channels and packets and any channel        *)
(* ranges: a blob holds at every place the visibility of that              *)
(* polarization, baseline and channel of the packet sent last, if and only *)
(* if the range lies in the stream (StreamEmulator.cpp:78-98,              *)
(* StreamChunker.cpp:112-132, StreamAdapter.cpp:16-36).                    *)
(***************************************************************************)
THEOREM Placed == Spec => []RawPlaced
BY PathInside, PlacedByStages, PTL

(***************************************************************************)
(* For any number of antennas and channels: no two pairs of antennas share *)
(* a visibility, none is left out, and all that are averaged are of the    *)
(* packet and of the polarization (Flagger.cpp:150-165).                   *)
(***************************************************************************)
THEOREM Owned == Spec => []MatrixOwn
BY PathInside, OwnedByStages, PTL

(***************************************************************************)
(* For any number of channels and any magnitudes, and a limit of more than *)
(* no deviations: clipping only throws away the strongest visibilities of  *)
(* a baseline, and all of them if and only if they are equally strong      *)
(* (Flagger.cpp:89-152).                                                   *)
(***************************************************************************)
THEOREM StrongestClipped ==
  ASSUME VisSigma # 0
  PROVE  Spec => []KeptBelow
<1>1. PathInv => KeptBelow
  BY KeptByMeasure
<1> QED
  BY PathInside, <1>1, PTL

-----------------------------------------------------------------------------
(***************************************************************************)
(* The pixels of a picture and its order, which the storages keep.         *)
(***************************************************************************)
LEMMA SizeEven ==
  /\ Size \in Nat \ {0} /\ Half \in Nat \ {0} /\ Size = 2 * Half
  /\ Pixels # {}
<1>1. Size \in Nat \ {0} /\ Size % 2 = 0
  BY SkyImageAssumption
<1>2. Half \in Nat \ {0} /\ Size = 2 * Half
  BY <1>1 DEF Half
<1>3. <<0, 0>> \in Pixels
  BY <1>1 DEF Pixels
<1> QED
  BY <1>1, <1>2, <1>3

\* A pixel is a pair of natural numbers below the size.
LEMMA PixelTypes ==
  ASSUME NEW k \in Pixels
  PROVE  /\ k[1] \in 0..(Size - 1) /\ k[2] \in 0..(Size - 1) /\ k = <<k[1], k[2]>>
         /\ k[1] \in Int /\ k[2] \in Int
         /\ Transposed(k) \in Pixels
         /\ <<k[1], RowUp(k[2])>> \in Pixels
         /\ <<(k[1] + Half) % Size, (k[2] + Half) % Size>> \in Pixels
BY SizeEven DEF Pixels, Transposed, RowUp

\* Two pictures that order all pixels in the same way.
SameOrder(m, n) == \A k, l \in Pixels : m[k] > m[l] <=> n[k] > n[l]

\* What a pixel may be.
Brightness == (-MaxBrightness)..MaxBrightness

\* A picture has a darkest and a brightest pixel.
LEMMA ExtremesExist ==
  ASSUME NEW m \in [Pixels -> Brightness]
  PROVE  /\ Least(m) \in Int /\ Contrast(m) \in Nat
         /\ \A k \in Pixels : m[k] - Least(m) \in 0..Contrast(m)
         /\ \E k \in Pixels : m[k] = Least(m)
         /\ \E k \in Pixels : m[k] - Least(m) = Contrast(m)
<1> DEFINE b == MaxBrightness
<1>1. b \in Nat /\ Range(m) \subseteq (-b)..b /\ Range(m) # {}
  BY SizeEven, SkyImageAssumption DEF Range, Brightness
<1>2. \A k \in Pixels : m[k] \in Range(m)
  BY DEF Range
<1>3. \A x \in Range(m) : \E k \in Pixels : x = m[k]
  BY DEF Range
<1> HIDE DEF b
<1>4. Least(m) \in Range(m) /\ \A x \in Range(m) : Least(m) <= x
  <2>1. {x + b : x \in Range(m)} \in SUBSET Nat /\ {x + b : x \in Range(m)} # {}
    BY <1>1
  <2>2. PICK n \in {x + b : x \in Range(m)} : \A k \in {x + b : x \in Range(m)} : n <= k
    BY <2>1, LeastNatural
  <2>3. PICK y \in Range(m) : n = y + b
    BY <2>2
  <2>4. \A x \in Range(m) : x + b \in {z + b : z \in Range(m)}
    OBVIOUS
  <2>5. \A x \in Range(m) : y <= x
    BY <1>1, <2>2, <2>3, <2>4
  <2> QED
    BY <2>3, <2>5 DEF Least, Min
<1>5. Max(Range(m)) \in Range(m) /\ \A x \in Range(m) : x <= Max(Range(m))
  <2>1. {b - x : x \in Range(m)} \in SUBSET Nat /\ {b - x : x \in Range(m)} # {}
    BY <1>1
  <2>2. PICK n \in {b - x : x \in Range(m)} : \A k \in {b - x : x \in Range(m)} : n <= k
    BY <2>1, LeastNatural
  <2>3. PICK y \in Range(m) : n = b - y
    BY <2>2
  <2>4. \A x \in Range(m) : b - x \in {b - z : z \in Range(m)}
    OBVIOUS
  <2>5. \A x \in Range(m) : x <= y
    BY <1>1, <2>2, <2>3, <2>4
  <2> QED
    BY <2>3, <2>5 DEF Max
<1>6. Contrast(m) = Max(Range(m)) - Least(m)
  BY DEF Contrast
<1>7. \A x \in Range(m) : x \in Int
  BY <1>1
<1> QED
  BY <1>2, <1>3, <1>4, <1>5, <1>6, <1>7

\* A picture that is not the same everywhere keeps its order.
LEMMA NormalisedOrder ==
  ASSUME NEW m \in [Pixels -> Brightness], Contrast(m) > 0
  PROVE  /\ Normalised(m) \in [Pixels -> 0..Contrast(m)]
         /\ \A k \in Pixels : Normalised(m)[k] = m[k] - Least(m)
         /\ SameOrder(Normalised(m), m)
<1>1. \A k \in Pixels : m[k] \in Int
  BY SkyImageAssumption DEF Brightness
<1>2. /\ Least(m) \in Int /\ Contrast(m) \in Nat
      /\ \A k \in Pixels : m[k] - Least(m) \in 0..Contrast(m)
  BY ExtremesExist
<1>3. \A k \in Pixels : Normalised(m)[k] = m[k] - Least(m)
  BY <1>2 DEF Normalised
<1>4. Normalised(m) \in [Pixels -> 0..Contrast(m)]
  BY <1>2, <1>3 DEF Normalised
<1> QED
  BY <1>1, <1>2, <1>3, <1>4 DEF SameOrder

-----------------------------------------------------------------------------
(***************************************************************************)
(* The bytes of the TIFF file: the powers keep the order, so that a        *)
(* brighter pixel reaches every level that a darker one reaches.           *)
(***************************************************************************)
LEMMA ProductOrder ==
  ASSUME NEW a \in Nat, NEW b \in Nat, NEW c \in Nat, NEW d \in Nat, a <= b, c <= d
  PROVE  a * c \in Nat /\ b * d \in Nat /\ a * c <= b * d
<1>1. \A x, y \in Nat : x * y \in Nat
  BY Z3T(30)
<1>2. a * c <= b * c
  <2>1. \A x, y, z \in Nat : x <= y => x * z <= y * z
    BY Z3T(30)
  <2> QED
    BY <2>1
<1>3. b * c <= b * d
  <2>1. \A x, y, z \in Nat : x <= y => z * x <= z * y
    BY Z3T(30)
  <2> QED
    BY <2>1
<1> QED
  BY <1>1, <1>2, <1>3

\* The fifth power.
LEMMA FifthOrder ==
  ASSUME NEW a \in Nat, NEW b \in Nat, a <= b
  PROVE  Fifth(a) \in Nat /\ Fifth(b) \in Nat /\ Fifth(a) <= Fifth(b)
<1>1. a * a \in Nat /\ b * b \in Nat /\ a * a <= b * b
  BY ProductOrder
<1>2. a * a * a \in Nat /\ b * b * b \in Nat /\ a * a * a <= b * b * b
  BY <1>1, ProductOrder
<1>3. a * a * a * a \in Nat /\ b * b * b * b \in Nat /\ a * a * a * a <= b * b * b * b
  BY <1>2, ProductOrder
<1> QED
  BY <1>3, ProductOrder DEF Fifth

\* The eleventh power.
LEMMA EleventhOrder ==
  ASSUME NEW a \in Nat, NEW b \in Nat, a <= b
  PROVE  Eleventh(a) \in Nat /\ Eleventh(b) \in Nat /\ Eleventh(a) <= Eleventh(b)
<1>1. Fifth(a) \in Nat /\ Fifth(b) \in Nat /\ Fifth(a) <= Fifth(b)
  BY FifthOrder
<1>2. /\ Fifth(a) * Fifth(a) \in Nat /\ Fifth(b) * Fifth(b) \in Nat
      /\ Fifth(a) * Fifth(a) <= Fifth(b) * Fifth(b)
  BY <1>1, ProductOrder
<1> QED
  BY <1>2, ProductOrder DEF Eleventh

\* The levels that a brightness reaches.
LevelsReached(v, most) ==
  {b \in 1..Levels : Fifth(2 * b - 1) * Eleventh(most) <= Fifth(2 * Levels) * Eleventh(v)}

\* There are as many levels as the largest of them says.
LEMMA LevelsFinite ==
  /\ Levels \in Nat /\ IsFiniteSet(1..Levels) /\ Cardinality(1..Levels) = Levels
<1>1. Levels \in Nat \ {0}
  BY SkyImageAssumption
<1> QED
  BY <1>1, FS_Interval

\* A brighter pixel has no smaller byte.
LEMMA ByteOrder ==
  ASSUME NEW v \in Nat, NEW w \in Nat, NEW most \in Nat, v <= w
  PROVE  Byte(v, most) \in Nat /\ Byte(w, most) \in Nat /\ Byte(v, most) <= Byte(w, most)
<1>1. Eleventh(v) \in Nat /\ Eleventh(w) \in Nat /\ Eleventh(v) <= Eleventh(w)
  BY EleventhOrder
<1>2. Fifth(2 * Levels) \in Nat
  <2>1. 2 * Levels \in Nat
    BY LevelsFinite
  <2> QED
    BY <2>1, FifthOrder
<1>3. /\ Fifth(2 * Levels) * Eleventh(v) \in Nat /\ Fifth(2 * Levels) * Eleventh(w) \in Nat
      /\ Fifth(2 * Levels) * Eleventh(v) <= Fifth(2 * Levels) * Eleventh(w)
  BY <1>1, <1>2, ProductOrder
<1>4. ASSUME NEW b \in 1..Levels PROVE Fifth(2 * b - 1) * Eleventh(most) \in Nat
  <2>1. 2 * b - 1 \in Nat
    BY LevelsFinite
  <2>2. Fifth(2 * b - 1) \in Nat /\ Eleventh(most) \in Nat
    BY <2>1, FifthOrder, EleventhOrder
  <2> QED
    BY <2>2, ProductOrder
<1>5. LevelsReached(v, most) \subseteq LevelsReached(w, most) /\ LevelsReached(w, most) \subseteq 1..Levels
  BY <1>3, <1>4 DEF LevelsReached
<1>6. IsFiniteSet(LevelsReached(w, most)) /\ IsFiniteSet(LevelsReached(v, most))
  BY <1>5, LevelsFinite, FS_Subset
<1>7. Cardinality(LevelsReached(v, most)) <= Cardinality(LevelsReached(w, most))
  BY <1>5, <1>6, FS_Subset
<1> QED
  BY <1>6, <1>7, FS_CardinalityType DEF Byte, LevelsReached

\* The brightest pixel has the highest level and the darkest has none.
LEMMA ByteEnds ==
  ASSUME NEW most \in Nat \ {0}
  PROVE  Byte(most, most) = Levels /\ Byte(0, most) = 0
<1>1. Eleventh(most) \in Nat /\ Eleventh(most) > 0
  <2>1. \A x \in Nat \ {0}, y \in Nat \ {0} : x * y \in Nat \ {0}
    BY Z3T(30)
  <2>2. Fifth(most) \in Nat \ {0}
    <3>1. most * most \in Nat \ {0}
      BY <2>1
    <3>2. most * most * most \in Nat \ {0}
      BY <2>1, <3>1
    <3>3. most * most * most * most \in Nat \ {0}
      BY <2>1, <3>2
    <3> QED
      BY <2>1, <3>3 DEF Fifth
  <2>3. Fifth(most) * Fifth(most) \in Nat \ {0}
    BY <2>1, <2>2
  <2>4. Eleventh(most) \in Nat \ {0}
    BY <2>1, <2>3 DEF Eleventh
  <2> QED
    BY <2>4
<1>2. ASSUME NEW b \in 1..Levels
      PROVE  /\ Fifth(2 * b - 1) \in Nat /\ Fifth(2 * Levels) \in Nat
             /\ Fifth(2 * b - 1) <= Fifth(2 * Levels) /\ Fifth(2 * b - 1) > 0
  <2>1. 2 * b - 1 \in Nat \ {0} /\ 2 * Levels \in Nat /\ 2 * b - 1 <= 2 * Levels /\ 1 <= 2 * b - 1
    BY LevelsFinite
  <2>2. Fifth(1) = 1
    BY DEF Fifth
  <2> QED
    BY <2>1, <2>2, FifthOrder
<1>3. LevelsReached(most, most) = 1..Levels
  <2>1. ASSUME NEW b \in 1..Levels
        PROVE  Fifth(2 * b - 1) * Eleventh(most) <= Fifth(2 * Levels) * Eleventh(most)
    BY <1>1, <1>2, ProductOrder
  <2> QED
    BY <2>1 DEF LevelsReached
<1>4. LevelsReached(0, most) = {}
  <2>1. Eleventh(0) = 0
    BY DEF Eleventh, Fifth
  <2>2. \A x, y \in Nat : x > 0 /\ y > 0 => ~(x * y <= 0)
    BY Z3T(30)
  <2>3. ASSUME NEW b \in 1..Levels
        PROVE  ~(Fifth(2 * b - 1) * Eleventh(most) <= Fifth(2 * Levels) * Eleventh(0))
    <3>1. Fifth(2 * Levels) * Eleventh(0) = 0
      BY <1>2, <2>1
    <3> QED
      BY <1>1, <1>2, <2>2, <3>1
  <2> QED
    BY <2>3 DEF LevelsReached
<1> QED
  BY <1>3, <1>4, LevelsFinite, FS_EmptySet DEF Byte, LevelsReached

\* The coefficients in the order of the memory are the pixels of the matrix.
LEMMA CoefficientAt ==
  ASSUME NEW m, NEW k \in Pixels
  PROVE  Coefficient(m, k[2] * Size + k[1]) = m[k]
<1>1. k[1] \in 0..(Size - 1) /\ k[2] \in 0..(Size - 1) /\ k = <<k[1], k[2]>>
  BY PixelTypes
<1>2. k[2] \in Int /\ Size \in Nat \ {0}
  BY <1>1, SizeEven
<1>3. (k[2] * Size + k[1]) % Size = k[1] /\ (k[2] * Size + k[1]) \div Size = k[2]
  BY <1>1, <1>2, DivOf, Zenon
<1> QED
  BY <1>1, <1>3 DEF Coefficient

\* Swapping the quadrants gives a picture.
LEMMA ShiftedType ==
  ASSUME NEW m \in [Pixels -> Brightness]
  PROVE  Shifted(m) \in [Pixels -> Brightness]
BY PixelTypes DEF Shifted

\* Taking the disc out of a picture gives a picture.
LEMMA SelectedType ==
  ASSUME NEW m \in [Pixels -> Brightness]
  PROVE  Selected(m) \in [Pixels -> Brightness]
<1>1. 0 \in Brightness
  BY SkyImageAssumption DEF Brightness
<1>2. \A k \in Pixels : m[Transposed(k)] \in Brightness
  BY PixelTypes
<1> QED
  BY <1>1, <1>2 DEF Selected

\* The pictures the transform may give are pictures.
LEMMA PictureType ==
  ASSUME NEW m \in Pictures
  PROVE  m \in [Pixels -> Brightness]
BY PicturesAssumption DEF Brightness

-----------------------------------------------------------------------------
(***************************************************************************)
(* The invariant of the files: the first storage that writes may normalise *)
(* the sky map, and the second one writes what it leaves.                  *)
(***************************************************************************)
Uneven == Contrast(Selected(image)) > 0

Pictured == stage \in {"sum", "output"} => image \in [Pixels -> Brightness]

Unwritten == stage # "output" => tiff = None /\ casa = None

\* What the bytes t show of a picture m.
Shows(t, m) ==
  \A k \in Pixels :
    /\ \A l \in Pixels : m[k] >= m[l] => t[k] >= t[l]
    /\ (\A l \in Pixels : m[k] >= m[l]) => t[k] = Levels
    /\ (\A l \in Pixels : m[k] <= m[l]) => t[k] = 0

Written ==
  stage = "output" =>
    /\ tiff = None => sky = Selected(image)
    /\ Uneven => /\ sky \in [Pixels -> Int] /\ SameOrder(sky, Selected(image))
                 /\ tiff # None => Shows(tiff, Selected(image))
                 /\ casa # None =>
                      /\ \A k \in Pixels : casa[<<k[1], RowUp(k[2])>>] \in Int
                      /\ \A k, l \in Pixels :
                           casa[<<k[1], RowUp(k[2])>>] > casa[<<l[1], RowUp(l[2])>>]
                             <=> Selected(image)[k] > Selected(image)[l]

FilesInv == Pictured /\ Unwritten /\ Written

\* Nothing is written at first.
LEMMA FilesBegin == Init => FilesInv
BY DEF Init, PathInit, FilesInv, Pictured, Unwritten, Written

\* The invariant is about the picture and the files only.
LEMMA FilesStop ==
  ASSUME FilesInv, UNCHANGED <<stage, image, outputVars>>
  PROVE  FilesInv'
BY DEF FilesInv, Pictured, Unwritten, Written, Uneven, outputVars

\* The path of the visibilities ends before the picture begins.
LEMMA PathElsewhere ==
  ASSUME PathNext
  PROVE  stage \notin {"sum", "output"} /\ stage' \notin {"sum", "output"}
BY DEF PathNext, Configure, Send, Serve, Deserialise, Flag, Clip, Average, Correlate

\* The invariant says nothing of the steps before the picture.
LEMMA BeforeFiles ==
  ASSUME FilesInv, stage # "output", stage' \notin {"sum", "output"}, UNCHANGED outputVars
  PROVE  FilesInv'
BY DEF FilesInv, Pictured, Unwritten, Written, outputVars

\* The transform gives a picture.
LEMMA TransformFiles ==
  ASSUME FilesInv, NEW picture \in Pictures, Transform(picture)
  PROVE  FilesInv'
<1>1. image' \in [Pixels -> Brightness]
  BY PictureType, ShiftedType DEF Transform
<1> QED
  BY <1>1 DEF Transform, FilesInv, Pictured, Unwritten, Written, outputVars

\* The sky that is handed to the storages is the picture.
LEMMA FinishFiles ==
  ASSUME FilesInv, Finish
  PROVE  FilesInv'
<1>1. /\ stage = "sum" /\ sky' = Selected(image) /\ UNCHANGED <<image, tiff, casa>>
      /\ tiff = None /\ casa = None
  BY DEF Finish, FilesInv, Unwritten
<1>2. image \in [Pixels -> Brightness] /\ Selected(image) \in [Pixels -> Brightness]
  BY <1>1, SelectedType DEF FilesInv, Pictured
<1>3. sky' \in [Pixels -> Int]
  BY <1>1, <1>2, SkyImageAssumption DEF Brightness
<1> QED
  BY <1>1, <1>2, <1>3 DEF Finish, FilesInv, Pictured, Unwritten, Written, SameOrder

(***************************************************************************)
(* The TIFF storage changes the sky in place, keeps its order unless it is *)
(* the same everywhere, and writes the bytes of its pixels.                *)
(***************************************************************************)
LEMMA TiffFiles ==
  ASSUME FilesInv, WriteTiff
  PROVE  FilesInv'
<1> DEFINE
  m == Selected(image)
  most == Contrast(m)
<1>1. /\ stage = "output" /\ UNCHANGED <<stage, image, casa>> /\ tiff = None
      /\ sky = m /\ sky' = Normalised(m)
      /\ \E byte \in 0..Levels :
           tiff' = [pixel \in Pixels |->
             IF most = 0 THEN byte ELSE Byte(Coefficient(sky', pixel[2] * Size + pixel[1]), most)]
  BY DEF WriteTiff, FilesInv, Written, pathVars, imagerVars
<1>2. tiff' # None
  BY <1>1, SizeEven DEF None
<1>3. image \in [Pixels -> Brightness] /\ m \in [Pixels -> Brightness]
  BY <1>1, SelectedType DEF FilesInv, Pictured
<1>4. ASSUME most > 0
      PROVE  sky' \in [Pixels -> Int] /\ SameOrder(sky', m) /\ Shows(tiff', m)
  <2>1. /\ sky' \in [Pixels -> 0..most] /\ SameOrder(sky', m)
        /\ \A k \in Pixels : sky'[k] = m[k] - Least(m)
    BY <1>1, <1>3, <1>4, NormalisedOrder
  <2>2. /\ most \in Nat \ {0} /\ Least(m) \in Int
        /\ \E k \in Pixels : m[k] = Least(m)
        /\ \E k \in Pixels : m[k] - Least(m) = most
    BY <1>3, <1>4, ExtremesExist
  <2>3. \A k \in Pixels : m[k] \in Int
    BY <1>3, SkyImageAssumption DEF Brightness
  <2> HIDE DEF m, most
  <2>4. \A k \in Pixels : tiff'[k] = Byte(sky'[k], most)
    BY <1>1, <2>2, CoefficientAt
  <2>5. \A k \in Pixels : sky'[k] \in Nat /\ sky'[k] <= most
    BY <2>1, <2>2
  <2>6. ASSUME NEW k \in Pixels, NEW l \in Pixels, m[k] >= m[l] PROVE tiff'[k] >= tiff'[l]
    <3>1. sky'[l] <= sky'[k]
      BY <2>1, <2>2, <2>3, <2>6
    <3>2. /\ Byte(sky'[l], most) \in Nat /\ Byte(sky'[k], most) \in Nat
          /\ Byte(sky'[l], most) <= Byte(sky'[k], most)
      BY <2>2, <2>5, <3>1, ByteOrder
    <3> QED
      BY <2>4, <3>2
  <2>7. ASSUME NEW k \in Pixels, \A l \in Pixels : m[k] >= m[l] PROVE tiff'[k] = Levels
    <3>1. sky'[k] = most
      BY <2>1, <2>2, <2>3, <2>5, <2>7
    <3> QED
      BY <2>2, <2>4, <3>1, ByteEnds
  <2>8. ASSUME NEW k \in Pixels, \A l \in Pixels : m[k] <= m[l] PROVE tiff'[k] = 0
    <3>1. sky'[k] = 0
      BY <2>1, <2>2, <2>3, <2>5, <2>8
    <3> QED
      BY <2>2, <2>4, <3>1, ByteEnds
  <2>9. sky' \in [Pixels -> Int]
    BY <2>1, <2>2
  <2> QED
    BY <2>1, <2>6, <2>7, <2>8, <2>9 DEF Shows
<1>5. Written'
  BY <1>1, <1>2, <1>4 DEF FilesInv, Written, Uneven
<1> QED
  BY <1>1, <1>5 DEF FilesInv, Pictured, Unwritten

\* The CASA storage writes the rows of the sky upside down.
LEMMA CasaFiles ==
  ASSUME FilesInv, WriteCasa
  PROVE  FilesInv'
<1>1. /\ stage = "output" /\ UNCHANGED <<stage, image, sky, tiff>>
      /\ casa' = [pixel \in Pixels |-> sky[<<pixel[1], RowUp(pixel[2])>>]]
  BY DEF WriteCasa, pathVars, imagerVars
<1>2. ASSUME NEW k \in Pixels PROVE casa'[<<k[1], RowUp(k[2])>>] = sky[k]
  <2>1. RowUp(RowUp(k[2])) = k[2]
    <3>1. k[2] \in 0..(Size - 1)
      BY PixelTypes
    <3>2. \A i \in 0..(Size - 1) : Size - 1 - (Size - 1 - i) = i
      BY SizeEven
    <3> QED
      BY <3>1, <3>2 DEF RowUp
  <2>2. <<k[1], RowUp(k[2])>> \in Pixels /\ k = <<k[1], k[2]>>
    BY PixelTypes
  <2> QED
    BY <1>1, <2>1, <2>2
<1>3. Uneven => \A k \in Pixels : sky[k] \in Int
  BY <1>1 DEF FilesInv, Written
<1>4. Written'
  BY <1>1, <1>2, <1>3 DEF FilesInv, Written, Uneven, SameOrder
<1> QED
  BY <1>1, <1>4 DEF FilesInv, Pictured, Unwritten

\* FilesInv is an invariant of the whole system.
LEMMA FilesInside == Spec => []FilesInv
<1>1. FilesInv /\ [Next]_vars => FilesInv'
  <2> SUFFICES ASSUME FilesInv, [Next]_vars PROVE FilesInv'
    OBVIOUS
  <2>1. CASE PathNext /\ UNCHANGED <<imagerVars, outputVars>>
    BY <2>1, PathElsewhere, BeforeFiles
  <2>2. CASE Begin \/ (\E f \in SUBSET Antennas : Grid(f)) \/ Arrange
    <3>1. /\ stage # "output" /\ stage' \notin {"sum", "output"}
          /\ UNCHANGED outputVars
      BY <2>2 DEF Begin, Grid, Arrange
    <3> QED
      BY <3>1, BeforeFiles
  <2>3. CASE \E picture \in Pictures : Transform(picture)
    BY <2>3, TransformFiles
  <2>4. CASE Finish
    BY <2>4, FinishFiles
  <2>5. CASE WriteTiff
    BY <2>5, TiffFiles
  <2>6. CASE WriteCasa
    BY <2>6, CasaFiles
  <2>7. CASE UNCHANGED vars
    BY <2>7, FilesStop DEF vars, pathVars, imagerVars
  <2> QED
    BY <2>1, <2>2, <2>3, <2>4, <2>5, <2>6, <2>7 DEF Next
<1> QED
  BY FilesBegin, <1>1, PTL DEF Spec

\* Files that have the order of the picture show the same.
LEMMA SameByFiles == FilesInv => SamePicture
<1> SUFFICES ASSUME FilesInv, tiff # None, casa # None, Uneven
             PROVE  LET Value(k) == casa[<<k[1], Size - 1 - k[2]>>]
                    IN \A k \in Pixels :
                         /\ \A l \in Pixels : Value(k) >= Value(l) => tiff[k] >= tiff[l]
                         /\ (\A l \in Pixels : Value(k) >= Value(l)) => tiff[k] = Levels
                         /\ (\A l \in Pixels : Value(k) <= Value(l)) => tiff[k] = 0
  BY DEF SamePicture, Uneven
<1> DEFINE
  Value(k) == casa[<<k[1], RowUp(k[2])>>]
  m == Selected(image)
<1>1. stage = "output" /\ image \in [Pixels -> Brightness]
  BY DEF FilesInv, Unwritten, Pictured
<1>2. \A k \in Pixels : m[k] \in Int
  <2>1. m \in [Pixels -> Brightness]
    BY <1>1, SelectedType
  <2> QED
    BY <2>1, SkyImageAssumption DEF Brightness
<1>3. /\ Shows(tiff, m)
      /\ \A k \in Pixels : Value(k) \in Int
      /\ \A k, l \in Pixels : Value(k) > Value(l) <=> m[k] > m[l]
  BY <1>1 DEF FilesInv, Written
<1> HIDE DEF m, Value
<1>4. \A k, l \in Pixels : Value(k) >= Value(l) <=> m[k] >= m[l]
  BY <1>2, <1>3
<1>5. \A k, l \in Pixels : Value(k) <= Value(l) <=> m[k] <= m[l]
  BY <1>2, <1>3
<1>6. \A k \in Pixels :
        /\ \A l \in Pixels : Value(k) >= Value(l) => tiff[k] >= tiff[l]
        /\ (\A l \in Pixels : Value(k) >= Value(l)) => tiff[k] = Levels
        /\ (\A l \in Pixels : Value(k) <= Value(l)) => tiff[k] = 0
  BY <1>3, <1>4, <1>5 DEF Shows
<1> QED
  BY <1>6 DEF Value, RowUp

(***************************************************************************)
(* For pictures of any size and brightness, any number of levels and any   *)
(* order of the storages: the TIFF file and the CASA image show the same   *)
(* picture, as far as a byte can tell its pixels apart, unless it is the   *)
(* same everywhere (TiffStorage.cpp:47-61, CasaImageStorage.cpp:127-129).  *)
(***************************************************************************)
THEOREM FilesAgree == Spec => []SamePicture
BY FilesInside, SameByFiles, PTL

-----------------------------------------------------------------------------
(***************************************************************************)
(* The cells around a place, the one before it and the one after it.       *)
(***************************************************************************)
Near(u) == u \div Sub
Far(u) == (u + Sub - 1) \div Sub

\* A place lies between its cells, less than a cell from each.
LEMMA NearFar ==
  ASSUME NEW u \in Int
  PROVE  /\ Near(u) \in Int /\ u - Sub * Near(u) \in 0..(Sub - 1)
         /\ Far(u) \in Int /\ Sub * Far(u) - u \in 0..(Sub - 1)
<1>1. Sub \in Nat \ {0} /\ u + Sub - 1 \in Int
  BY SkyImageAssumption
<1>2. /\ Near(u) \in Int /\ u % Sub \in 0..(Sub - 1)
      /\ u = Near(u) * Sub + (u % Sub)
  BY <1>1, DivMod DEF Near
<1>3. /\ Far(u) \in Int /\ (u + Sub - 1) % Sub \in 0..(Sub - 1)
      /\ u + Sub - 1 = Far(u) * Sub + ((u + Sub - 1) % Sub)
  BY <1>1, DivMod DEF Far
<1>4. /\ Near(u) * Sub = Sub * Near(u) /\ Sub * Near(u) \in Int
      /\ Far(u) * Sub = Sub * Far(u) /\ Sub * Far(u) \in Int
  BY <1>1, <1>2, <1>3
<1> QED
  BY <1>1, <1>2, <1>3, <1>4

\* No other cells are that close.
LEMMA NearFarOnly ==
  ASSUME NEW u \in Int, NEW n \in Int
  PROVE  /\ u - Sub * n \in 0..(Sub - 1) => n = Near(u)
         /\ Sub * n - u \in 0..(Sub - 1) => n = Far(u)
<1>1. /\ Sub \in Nat \ {0}
      /\ Near(u) \in Int /\ u - Sub * Near(u) \in 0..(Sub - 1)
      /\ Far(u) \in Int /\ Sub * Far(u) - u \in 0..(Sub - 1)
  BY SkyImageAssumption, NearFar
<1>2. /\ n * Sub = Sub * n /\ Sub * n \in Int
      /\ Near(u) * Sub = Sub * Near(u) /\ Sub * Near(u) \in Int
      /\ Far(u) * Sub = Sub * Far(u) /\ Sub * Far(u) \in Int
  BY <1>1
<1>3. ASSUME u - Sub * n \in 0..(Sub - 1) PROVE n = Near(u)
  <2> DEFINE
    r == u - Sub * n
    s == u - Sub * Near(u)
  <2>1. r \in 0..(Sub - 1) /\ s \in 0..(Sub - 1)
    BY <1>1, <1>3
  <2>2. n * Sub + r = Near(u) * Sub + s
    BY <1>2
  <2> HIDE DEF r, s
  <2> QED
    BY <1>1, <2>1, <2>2, QuotientUnique
<1>4. ASSUME Sub * n - u \in 0..(Sub - 1) PROVE n = Far(u)
  <2> DEFINE
    r == Sub - 1 - (Sub * n - u)
    s == Sub - 1 - (Sub * Far(u) - u)
  <2>1. r \in 0..(Sub - 1) /\ s \in 0..(Sub - 1)
    BY <1>1, <1>2, <1>4
  <2>2. n * Sub + r = Far(u) * Sub + s
    BY <1>1, <1>2
  <2> HIDE DEF r, s
  <2> QED
    BY <1>1, <2>1, <2>2, QuotientUnique
<1> QED
  BY <1>3, <1>4

\* What a cell gets is what the opposite cell gets from the opposite place.
Edge == Size - 2

\* The centre is the middle of the inner cells.
LEMMA CentreTwice ==
  /\ Centre \in Int /\ Edge \in Nat /\ 2 * Centre = Sub * Edge
<1>1. Sub \in Nat \ {0} /\ Half \in Nat \ {0} /\ Edge = 2 * (Half - 1)
  BY SkyImageAssumption, SizeEven DEF Edge
<1>2. \A s \in Nat, h \in Int : s * h \in Int /\ 2 * (s * h) = s * (2 * h)
  BY Z3T(30)
<1>3. Centre = Sub * (Half - 1)
  BY DEF Centre
<1> QED
  BY <1>1, <1>2, <1>3

(***************************************************************************)
(* Turned around the centre, the cell before a place is the cell after the *)
(* opposite place.                                                         *)
(***************************************************************************)
LEMMA NearFarSwap ==
  ASSUME NEW u \in Int
  PROVE  Near(2 * Centre - u) = Edge - Far(u) /\ Far(2 * Centre - u) = Edge - Near(u)
<1> DEFINE w == 2 * Centre - u
<1>1. w \in Int /\ w = Sub * Edge - u /\ Edge \in Int /\ Sub \in Int /\ Sub * Edge \in Int
  BY CentreTwice, SkyImageAssumption
<1> HIDE DEF w
<1>2. ASSUME NEW n \in Int PROVE Sub * (Edge - n) = Sub * Edge - Sub * n /\ Sub * n \in Int
  BY <1>1, Z3T(30)
<1>3. w - Sub * (Edge - Far(u)) = Sub * Far(u) - u /\ Sub * (Edge - Near(u)) - w = u - Sub * Near(u)
  <2>1. /\ Sub * (Edge - Far(u)) = Sub * Edge - Sub * Far(u) /\ Sub * Far(u) \in Int
        /\ Sub * (Edge - Near(u)) = Sub * Edge - Sub * Near(u) /\ Sub * Near(u) \in Int
    BY <1>2, NearFar
  <2>2. \A x, y \in Int : (x - u) - (x - y) = y - u /\ (x - y) - (x - u) = u - y
    OBVIOUS
  <2> QED
    BY <1>1, <2>1, <2>2
<1>4. Edge - Far(u) = Near(w) /\ Edge - Near(u) = Far(w)
  <2>1. Edge - Far(u) \in Int /\ Edge - Near(u) \in Int
    BY <1>1, NearFar
  <2>2. w - Sub * (Edge - Far(u)) \in 0..(Sub - 1) /\ Sub * (Edge - Near(u)) - w \in 0..(Sub - 1)
    BY <1>3, NearFar
  <2> QED
    BY <1>1, <2>1, <2>2, NearFarOnly
<1> QED
  BY <1>4 DEF w

\* Only the cells around a place get a share of what is there.
LEMMA ShareIs ==
  ASSUME NEW k \in Int, NEW u \in Int
  PROVE  /\ Share(k, u) = (IF k = Near(u) THEN Sub - (u - Sub * Near(u)) ELSE 0)
                          + (IF k = Far(u) THEN Sub - (Sub * Far(u) - u) ELSE 0)
         /\ Share(k, u) \in Nat
         /\ Share(k, u) > 0 <=> k \in {Near(u), Far(u)}
<1>1. Share(k, u) = (IF k = Near(u) THEN Sub - (u - Sub * Near(u)) ELSE 0)
                          + (IF k = Far(u) THEN Sub - (Sub * Far(u) - u) ELSE 0)
  BY DEF Share, Near, Far
<1>2. Sub - (u - Sub * Near(u)) \in 1..Sub /\ Sub - (Sub * Far(u) - u) \in 1..Sub /\ Sub \in Nat
  <2>1. ASSUME NEW r \in 0..(Sub - 1) PROVE Sub - r \in 1..Sub
    BY SkyImageAssumption
  <2> QED
    BY <2>1, NearFar, SkyImageAssumption
<1> DEFINE
  a == Sub - (u - Sub * Near(u))
  b == Sub - (Sub * Far(u) - u)
<1> HIDE DEF a, b
<1>3. a \in Nat /\ a > 0 /\ b \in Nat /\ b > 0
  BY <1>2 DEF a, b
<1>4. Share(k, u) = (IF k = Near(u) THEN a ELSE 0) + (IF k = Far(u) THEN b ELSE 0)
  BY <1>1 DEF a, b
<1>5. Share(k, u) \in Nat /\ (Share(k, u) > 0 <=> k = Near(u) \/ k = Far(u))
  BY <1>3, <1>4
<1> QED
  BY <1>1, <1>5

\* The opposite cell gets the same share of the opposite place.
LEMMA ShareMirrored ==
  ASSUME NEW k \in Int, NEW u \in Int
  PROVE  Share(Edge - k, 2 * Centre - u) = Share(k, u)
<1> DEFINE w == 2 * Centre - u
<1>1. /\ w \in Int /\ w = Sub * Edge - u /\ Edge \in Int /\ Sub \in Int /\ Sub * Edge \in Int
      /\ Near(u) \in Int /\ Far(u) \in Int
  BY CentreTwice, SkyImageAssumption, NearFar
<1>2. Near(w) = Edge - Far(u) /\ Far(w) = Edge - Near(u)
  BY NearFarSwap
<1> HIDE DEF w
<1>3. ASSUME NEW n \in Int PROVE Sub * (Edge - n) = Sub * Edge - Sub * n /\ Sub * n \in Int
  BY <1>1, Z3T(30)
<1>4. w - Sub * Near(w) = Sub * Far(u) - u /\ Sub * Far(w) - w = u - Sub * Near(u)
  <2>1. /\ Sub * Near(w) = Sub * Edge - Sub * Far(u) /\ Sub * Far(u) \in Int
        /\ Sub * Far(w) = Sub * Edge - Sub * Near(u) /\ Sub * Near(u) \in Int
    BY <1>1, <1>2, <1>3
  <2>2. \A x, y \in Int : (x - u) - (x - y) = y - u /\ (x - y) - (x - u) = u - y
    OBVIOUS
  <2> QED
    BY <1>1, <2>1, <2>2
<1>5. (Edge - k = Near(w) <=> k = Far(u)) /\ (Edge - k = Far(w) <=> k = Near(u))
  <2>1. \A a, b, c \in Int : a - b = a - c <=> b = c
    OBVIOUS
  <2> QED
    BY <1>1, <1>2, <2>1
<1>6. Edge - k \in Int
  BY <1>1
<1>7. Share(Edge - k, w) = (IF Edge - k = Near(w) THEN Sub - (w - Sub * Near(w)) ELSE 0)
                           + (IF Edge - k = Far(w) THEN Sub - (Sub * Far(w) - w) ELSE 0)
  BY <1>1, <1>6, ShareIs
<1>8. Share(k, u) = (IF k = Near(u) THEN Sub - (u - Sub * Near(u)) ELSE 0)
                     + (IF k = Far(u) THEN Sub - (Sub * Far(u) - u) ELSE 0)
  BY ShareIs
<1>9. Sub * Near(u) \in Int /\ Sub * Far(u) \in Int
  BY <1>1, <1>3
<1>10. Share(Edge - k, w) = Share(k, u)
  BY <1>1, <1>4, <1>5, <1>7, <1>8, <1>9
<1> QED
  BY <1>10 DEF w

\* Between the first and the last cell, the cells around a place are on the grid.
LEMMA CellsInside ==
  ASSUME NEW u \in Int, 0 <= u, u <= 2 * Centre
  PROVE  Near(u) \in 0..Edge /\ Far(u) \in 0..Edge
<1>1. Sub \in Nat \ {0}
  BY SkyImageAssumption
<1>2. ASSUME NEW w \in Int, 0 <= w PROVE Near(w) >= 0 /\ Far(w) >= 0
  <2>1. ASSUME NEW n \in Int, n < 0 PROVE Sub * n <= -Sub
    BY <1>1, <2>1, Z3T(30)
  <2>2. /\ Near(w) \in Int /\ w - Sub * Near(w) \in 0..(Sub - 1)
        /\ Far(w) \in Int /\ Sub * Far(w) - w \in 0..(Sub - 1)
    BY NearFar
  <2>3. Sub * Near(w) \in Int /\ Sub * Far(w) \in Int
    BY <1>1, <2>2
  <2> QED
    BY <1>1, <1>2, <2>1, <2>2, <2>3
<1>3. 2 * Centre - u \in Int /\ 0 <= 2 * Centre - u /\ Edge \in Nat
  BY CentreTwice
<1>4. Edge - Far(u) >= 0 /\ Edge - Near(u) >= 0
  BY <1>2, <1>3, NearFarSwap
<1>5. Near(u) \in Int /\ Far(u) \in Int
  BY NearFar
<1> QED
  BY <1>2, <1>3, <1>4, <1>5

-----------------------------------------------------------------------------
(***************************************************************************)
(* The grid: what a pair of antennas adds to a cell, the same antennas in  *)
(* the other order add, conjugated, to the opposite cell.                  *)
(***************************************************************************)
Swap(pair) == <<pair[2], pair[1]>>
Mirror(cell) == <<Edge - cell[1], Edge - cell[2]>>
Inner == (0..Edge) \X (0..Edge)

Laid ==
  /\ at \in Positions
  /\ matrix = [pair \in Pairs |-> BaselineOf(pair[1], pair[2])]

Added(cell) == {q \in Pairs : ~Masked(q) /\ Weight(cell, q) > 0}

(***************************************************************************)
(* The pair with its antennas swapped is a pair, and swapped again it is   *)
(* the first.                                                              *)
(***************************************************************************)
LEMMA SwapTypes ==
  ASSUME NEW q \in Pairs
  PROVE  /\ q[1] \in Antennas /\ q[2] \in Antennas
         /\ Swap(q) \in Pairs /\ Swap(Swap(q)) = q
         /\ Masked(Swap(q)) <=> Masked(q)
BY DEF Pairs, Swap, Masked

(***************************************************************************)
(* The array was laid out around the centre and reaches no further than    *)
(* the grid.                                                               *)
(***************************************************************************)
LEMMA PlacesInside ==
  ASSUME Laid, NEW q \in Pairs
  PROVE  /\ U(q) \in Int /\ 0 <= U(q) /\ U(q) <= 2 * Centre
         /\ V(q) \in Int /\ 0 <= V(q) /\ V(q) <= 2 * Centre
         /\ U(Swap(q)) = 2 * Centre - U(q)
         /\ V(Swap(q)) = 2 * Centre - V(q)
<1>1. q[1] \in Antennas /\ q[2] \in Antennas
  BY SwapTypes
<1>2. Centre \in Int
  BY CentreTwice
<1>3. ASSUME NEW k \in {1, 2}
      PROVE  /\ at[q[1]][k] \in Int /\ at[q[2]][k] \in Int
             /\ at[q[1]][k] - at[q[2]][k] + Centre >= 0
             /\ at[q[2]][k] - at[q[1]][k] + Centre >= 0
  BY <1>1, PositionsAssumption DEF Laid, Centre
<1>4. \A x, y \in Int :
        x - y + Centre >= 0 /\ y - x + Centre >= 0 =>
          /\ x - y + Centre \in Int /\ 0 <= x - y + Centre /\ x - y + Centre <= 2 * Centre
          /\ y - x + Centre = 2 * Centre - (x - y + Centre)
  BY <1>2
<1>5. Swap(q)[1] = q[2] /\ Swap(q)[2] = q[1]
  BY DEF Swap
<1> QED
  BY <1>3, <1>4, <1>5 DEF U, V

\* A weight is a natural number, and only inner cells get one.
LEMMA WeightType ==
  ASSUME Laid, NEW q \in Pairs, NEW cell \in Pixels
  PROVE  /\ Weight(cell, q) \in Nat
         /\ Weight(cell, q) > 0 => cell \in Inner
<1> DEFINE
  a == Share(cell[1], V(q))
  b == Share(cell[2], U(q))
<1>1. cell[1] \in Int /\ cell[2] \in Int /\ cell = <<cell[1], cell[2]>>
  BY PixelTypes
<1>2. U(q) \in Int /\ 0 <= U(q) /\ U(q) <= 2 * Centre /\ V(q) \in Int /\ 0 <= V(q) /\ V(q) <= 2 * Centre
  BY PlacesInside
<1>3. /\ a \in Nat /\ (a > 0 => cell[1] \in {Near(V(q)), Far(V(q))})
      /\ b \in Nat /\ (b > 0 => cell[2] \in {Near(U(q)), Far(U(q))})
  BY <1>1, <1>2, ShareIs
<1>4. Weight(cell, q) = a * b
  BY DEF Weight
<1> HIDE DEF a, b
<1>5. Weight(cell, q) \in Nat
  BY <1>3, <1>4
<1>6. ASSUME Weight(cell, q) > 0 PROVE a > 0 /\ b > 0
  <2>1. a # 0 /\ b # 0
    BY <1>3, <1>4, <1>6
  <2> QED
    BY <1>3, <2>1
<1>7. ASSUME Weight(cell, q) > 0 PROVE cell \in Inner
  <2>1. /\ cell[1] \in {Near(V(q)), Far(V(q))}
        /\ cell[2] \in {Near(U(q)), Far(U(q))}
    BY <1>3, <1>6, <1>7
  <2>2. cell[1] \in 0..Edge /\ cell[2] \in 0..Edge
    BY <1>2, <2>1, CellsInside
  <2> QED
    BY <1>1, <2>2 DEF Inner
<1> QED
  BY <1>5, <1>7

\* The cell opposite an inner cell is an inner cell.
LEMMA MirrorTypes ==
  ASSUME NEW cell \in Inner
  PROVE  /\ cell \in Pixels /\ cell[1] \in Int /\ cell[2] \in Int
         /\ Mirror(cell) \in Inner /\ Mirror(cell) \in Pixels
         /\ Mirror(cell)[1] = Edge - cell[1] /\ Mirror(cell)[2] = Edge - cell[2]
<1>1. Edge \in Nat /\ Edge = Size - 2 /\ Size \in Nat
  BY CentreTwice, SizeEven DEF Edge
<1> QED
  BY <1>1 DEF Inner, Mirror, Pixels

\* The opposite cell gets the swapped pair with the same weight.
LEMMA WeightMirrored ==
  ASSUME Laid, NEW q \in Pairs, NEW cell \in Inner
  PROVE  Weight(Mirror(cell), Swap(q)) = Weight(cell, q)
<1>1. U(q) \in Int /\ V(q) \in Int /\ U(Swap(q)) = 2 * Centre - U(q) /\ V(Swap(q)) = 2 * Centre - V(q)
  BY PlacesInside
<1>2. /\ cell[1] \in Int /\ cell[2] \in Int
      /\ Mirror(cell)[1] = Edge - cell[1] /\ Mirror(cell)[2] = Edge - cell[2]
  BY MirrorTypes
<1>3. Share(Edge - cell[1], 2 * Centre - V(q)) = Share(cell[1], V(q))
  BY <1>1, <1>2, ShareMirrored
<1>4. Share(Edge - cell[2], 2 * Centre - U(q)) = Share(cell[2], U(q))
  BY <1>1, <1>2, ShareMirrored
<1> QED
  BY <1>1, <1>2, <1>3, <1>4 DEF Weight

Flip(t) == [t EXCEPT !.conj = ~t.conj]

\* Swapped antennas share a baseline and differ in the conjugation.
LEMMA Conjugates ==
  ASSUME NEW i \in Int, NEW j \in Int, i # j
  PROVE  /\ BaselineOf(j, i).baseline = BaselineOf(i, j).baseline
         /\ BaselineOf(j, i).conj = ~BaselineOf(i, j).conj
<1>1. ASSUME NEW k \in Int, NEW l \in Int, k < l
      PROVE  /\ BaselineOf(k, l) = [baseline |-> Triangle(l) + k, conj |-> TRUE]
             /\ BaselineOf(l, k) = [baseline |-> Triangle(l) + k, conj |-> FALSE]
  BY <1>1 DEF BaselineOf
<1>2. ASSUME NEW k \in Int, NEW l \in Int, k < l
      PROVE  /\ BaselineOf(k, l).baseline = BaselineOf(l, k).baseline
             /\ BaselineOf(k, l).conj = ~BaselineOf(l, k).conj
             /\ BaselineOf(l, k).conj = ~BaselineOf(k, l).conj
  <2>1. BaselineOf(k, l).baseline = BaselineOf(l, k).baseline
    BY <1>1, <1>2
  <2>2. BaselineOf(k, l).conj = TRUE
    BY <1>1, <1>2
  <2>3. BaselineOf(l, k).conj = FALSE
    BY <1>1, <1>2
  <2> QED
    BY <2>1, <2>2, <2>3, Zenon
<1> QED
  BY <1>2

(***************************************************************************)
(* What the swapped pair adds to the opposite cell is the conjugate of     *)
(* what the pair adds to the cell.                                         *)
(***************************************************************************)
LEMMA TermMirrored ==
  ASSUME Laid, NEW q \in Pairs, ~Masked(q), NEW cell \in Inner
  PROVE  Term(Mirror(cell), Swap(q)) = Flip(Term(cell, q))
<1>1. q[1] \in Int /\ q[2] \in Int /\ q[1] # q[2] /\ Swap(q) \in Pairs
  BY SwapTypes, VisibilitiesAssumption DEF Antennas, Masked
<1>2. /\ matrix[q] = BaselineOf(q[1], q[2])
      /\ matrix[Swap(q)] = BaselineOf(q[2], q[1])
  BY <1>1 DEF Laid, Swap
<1>3. Weight(Mirror(cell), Swap(q)) = Weight(cell, q)
  BY WeightMirrored
<1>4. /\ matrix[Swap(q)].baseline = matrix[q].baseline
      /\ matrix[Swap(q)].conj = ~matrix[q].conj
  BY <1>1, <1>2, Conjugates
<1> QED
  BY <1>3, <1>4 DEF Term, Flip

(***************************************************************************)
(* All that is added to the opposite cell is the conjugate of all that is  *)
(* added to the cell.                                                      *)
(***************************************************************************)
LEMMA AddedMirrored ==
  ASSUME Laid, NEW cell \in Inner
  PROVE  {Term(Mirror(cell), q) : q \in Added(Mirror(cell))} = Conjugate({Term(cell, q) : q \in Added(cell)})
<1>1. ASSUME NEW q \in Pairs
      PROVE  Swap(q) \in Added(Mirror(cell)) <=> q \in Added(cell)
  BY SwapTypes, WeightMirrored DEF Added
<1>2. \A q \in Added(cell) : Term(Mirror(cell), Swap(q)) = Flip(Term(cell, q))
  BY TermMirrored DEF Added
<1>3. \A q \in Added(cell) : q \in Pairs
  BY DEF Added
<1>4. \A q \in Added(Mirror(cell)) : Swap(q) \in Added(cell) /\ Swap(Swap(q)) = q
  <2> SUFFICES ASSUME NEW q \in Added(Mirror(cell)) PROVE Swap(q) \in Added(cell) /\ Swap(Swap(q)) = q
    OBVIOUS
  <2>1. q \in Pairs
    BY DEF Added
  <2>2. Swap(q) \in Pairs /\ Swap(Swap(q)) = q
    BY <2>1, SwapTypes
  <2> QED
    BY <1>1, <2>2
<1>5. Conjugate({Term(cell, q) : q \in Added(cell)}) = {Flip(Term(cell, q)) : q \in Added(cell)}
  BY DEF Conjugate, Flip
<1>6. ASSUME NEW q \in Added(Mirror(cell))
      PROVE  Term(Mirror(cell), q) \in {Flip(Term(cell, r)) : r \in Added(cell)}
  BY <1>2, <1>4
<1>7. ASSUME NEW r \in Added(cell)
      PROVE  Flip(Term(cell, r)) \in {Term(Mirror(cell), q) : q \in Added(Mirror(cell))}
  BY <1>1, <1>2, <1>3
<1> QED
  BY <1>5, <1>6, <1>7

-----------------------------------------------------------------------------
(***************************************************************************)
(* The arrangement for the transform: after it, the opposite of a cell is  *)
(* the one with which its row and its column make up Size.                 *)
(***************************************************************************)
TakenFrom(i) == (Size - 1 - i + Half) % Size
Beyond(i) == (Size - i) % Size

\* The two shifts take opposite rows from opposite rows.
LEMMA TakenMirrored ==
  ASSUME NEW i \in 0..(Size - 1)
  PROVE  /\ Beyond(i) \in 0..(Size - 1)
         /\ TakenFrom(i) \in 0..(Size - 1) /\ TakenFrom(Beyond(i)) \in 0..(Size - 1)
         /\ \/ TakenFrom(i) \in 0..Edge /\ TakenFrom(Beyond(i)) = Edge - TakenFrom(i)
            \/ TakenFrom(i) = Size - 1 /\ TakenFrom(Beyond(i)) = Size - 1
<1>1. Size \in Nat \ {0} /\ Half \in Nat \ {0} /\ Size = 2 * Half /\ Edge = Size - 2
  BY SizeEven DEF Edge
<1>2. \A j \in 0..(Size - 1) : j % Size = j /\ (j + Size) % Size = j
  BY <1>1
<1>3. CASE i = 0
  <2>1. Beyond(i) = 0
    BY <1>1, <1>3 DEF Beyond
  <2>2. Size - 1 - 0 + Half = (Half - 1) + Size /\ Half - 1 \in 0..(Size - 1)
    BY <1>1
  <2>3. TakenFrom(0) = Half - 1
    BY <1>2, <2>2 DEF TakenFrom
  <2> QED
    BY <1>1, <1>3, <2>1, <2>3
<1>4. CASE i \in 1..(Size - 1)
  <2> DEFINE j == Size - i
  <2>1. Beyond(i) = j /\ j \in 1..(Size - 1)
    BY <1>1, <1>2, <1>4 DEF Beyond
  <2>2. ASSUME NEW k \in 1..(Size - 1)
        PROVE  TakenFrom(k) = IF k < Half THEN Half - 1 - k ELSE Size - 1 - k + Half
    <3>1. CASE k < Half
      <4>1. Size - 1 - k + Half = (Half - 1 - k) + Size /\ Half - 1 - k \in 0..(Size - 1)
        BY <1>1, <3>1
      <4> QED
        BY <1>2, <3>1, <4>1 DEF TakenFrom
    <3>2. CASE ~(k < Half)
      <4>1. Size - 1 - k + Half \in 0..(Size - 1)
        BY <1>1, <3>2
      <4> QED
        BY <1>2, <3>2, <4>1 DEF TakenFrom
    <3> QED
      BY <3>1, <3>2
  <2> HIDE DEF j
  <2>3. /\ TakenFrom(i) = IF i < Half THEN Half - 1 - i ELSE Size - 1 - i + Half
        /\ TakenFrom(j) = IF j < Half THEN Half - 1 - j ELSE Size - 1 - j + Half
    BY <1>4, <2>1, <2>2
  <2>4. j = Size - i
    BY DEF j
  <2> QED
    BY <1>1, <1>4, <2>1, <2>3, <2>4
<1> QED
  BY <1>1, <1>3, <1>4

Gridded == stage = "gridded" => grid = [cell \in Pixels |-> {Term(cell, q) : q \in Added(cell)}]

(***************************************************************************)
(* After the shift, the reversal and the conjugation opposite cells of the *)
(* spectrum are conjugates.                                                *)
(***************************************************************************)
LEMMA ArrangedMirrored ==
  ASSUME Laid, grid = [cell \in Pixels |-> {Term(cell, q) : q \in Added(cell)}],
         NEW new, new = Conjugated(Reversed(Shifted(grid))), NEW k \in Pixels
  PROVE  new[<<Beyond(k[1]), Beyond(k[2])>>] = Conjugate(new[k])
<1> DEFINE
  Taken(l) == <<TakenFrom(l[1]), TakenFrom(l[2])>>
  o == <<Beyond(k[1]), Beyond(k[2])>>
<1>1. k[1] \in 0..(Size - 1) /\ k[2] \in 0..(Size - 1)
  BY PixelTypes
<1>2. o \in Pixels /\ Taken(k) \in Pixels /\ Taken(o) \in Pixels
  BY <1>1, TakenMirrored DEF Pixels
<1>3. ASSUME NEW l \in Pixels PROVE new[l] = Conjugate(grid[Taken(l)])
  <2> DEFINE r == <<Size - 1 - l[1], Size - 1 - l[2]>>
  <2>1. r \in Pixels
    BY SizeEven, PixelTypes DEF Pixels
  <2>2. Reversed(Shifted(grid))[l] = Shifted(grid)[r]
    BY DEF Reversed
  <2>3. Shifted(grid)[r] = grid[<<(r[1] + Half) % Size, (r[2] + Half) % Size>>]
    BY <2>1 DEF Shifted
  <2>4. new[l] = Conjugate(Reversed(Shifted(grid))[l])
    BY DEF Conjugated
  <2>5. Taken(l) = <<(r[1] + Half) % Size, (r[2] + Half) % Size>>
    BY DEF TakenFrom
  <2> QED
    BY <2>2, <2>3, <2>4, <2>5
<1>4. \A cell \in Pixels : grid[cell] = {Term(cell, q) : q \in Added(cell)}
  OBVIOUS
<1>5. CASE TakenFrom(k[1]) \in 0..Edge /\ TakenFrom(k[2]) \in 0..Edge
  <2>1. Taken(k) \in Inner
    BY <1>5 DEF Inner
  <2>2. Taken(o) = Mirror(Taken(k))
    <3>1. TakenFrom(k[1]) # Size - 1 /\ TakenFrom(k[2]) # Size - 1
      BY <1>5, SizeEven DEF Edge
    <3>2. TakenFrom(Beyond(k[1])) = Edge - TakenFrom(k[1]) /\ TakenFrom(Beyond(k[2])) = Edge - TakenFrom(k[2])
      BY <1>1, <3>1, TakenMirrored
    <3> QED
      BY <3>2 DEF Mirror
  <2> HIDE DEF Taken, o
  <2>3. grid[Taken(o)] = Conjugate(grid[Taken(k)])
    BY <1>2, <1>4, <2>1, <2>2, AddedMirrored
  <2> QED
    BY <1>2, <1>3, <2>3 DEF o
<1>6. CASE ~(TakenFrom(k[1]) \in 0..Edge /\ TakenFrom(k[2]) \in 0..Edge)
  <2>1. Taken(k) \notin Inner /\ Taken(o) \notin Inner
    <3>1. /\ TakenFrom(k[1]) \notin 0..Edge => TakenFrom(Beyond(k[1])) = Size - 1
          /\ TakenFrom(k[2]) \notin 0..Edge => TakenFrom(Beyond(k[2])) = Size - 1
      BY <1>1, TakenMirrored
    <3>2. Size - 1 \notin 0..Edge
      BY SizeEven DEF Edge
    <3> QED
      BY <1>6, <3>1, <3>2 DEF Inner
  <2> HIDE DEF Taken, o
  <2>2. ASSUME NEW cell \in Pixels, cell \notin Inner PROVE grid[cell] = {}
    <3>1. Added(cell) = {}
      BY <2>2, WeightType DEF Added
    <3> QED
      BY <1>4, <3>1
  <2>3. grid[Taken(k)] = {} /\ grid[Taken(o)] = {}
    BY <1>2, <2>1, <2>2
  <2>4. Conjugate({}) = {}
    BY DEF Conjugate
  <2> QED
    BY <1>2, <1>3, <2>3, <2>4 DEF o
<1> QED
  BY <1>5, <1>6

-----------------------------------------------------------------------------
(***************************************************************************)
(* The invariant of the grid.                                              *)
(***************************************************************************)
GridInv ==
  /\ stage \in {"regrid", "gridded", "spectrum"} => Laid
  /\ Gridded
  /\ RealImage

\* What a step outside the Imager, or after it, leaves of the invariant.
LEMMA GridLeft ==
  ASSUME stage' \notin {"regrid", "gridded", "spectrum"}
  PROVE  GridInv'
BY DEF GridInv, Gridded, RealImage

\* The places of the antennas stay where they are.
LEMMA LaidKept ==
  ASSUME Laid, UNCHANGED <<at, matrix>>
  PROVE  Laid'
BY DEF Laid

(***************************************************************************)
(* The gridding puts into every cell what the pairs that are not masked    *)
(* add to it.                                                              *)
(***************************************************************************)
LEMMA GridStep ==
  ASSUME GridInv, NEW f \in SUBSET Antennas, Grid(f)
  PROVE  GridInv'
<1>1. /\ stage' = "gridded" /\ Laid' /\ UNCHANGED <<at, matrix>>
      /\ grid' = [cell \in Pixels |->
           {Term(cell, q) : q \in {r \in Pairs : ~Masked(r)' /\ Weight(cell, r) > 0}}]
  BY LaidKept DEF Grid, GridInv, flaggerVars
<1>2. \A cell, q : Term(cell, q)' = Term(cell, q) /\ Weight(cell, q)' = Weight(cell, q)
  BY <1>1 DEF Term, Weight, U, V
<1>3. \A cell : Added(cell)' = {r \in Pairs : ~Masked(r)' /\ Weight(cell, r) > 0}
  BY <1>2 DEF Added
<1>4. Gridded'
  BY <1>1, <1>2, <1>3 DEF Gridded
<1> QED
  BY <1>1, <1>4 DEF GridInv, RealImage

\* Arranging a grid gives a spectrum of conjugates.
LEMMA ArrangeStep ==
  ASSUME GridInv, Arrange
  PROVE  GridInv'
<1>1. /\ stage = "gridded" /\ stage' = "spectrum" /\ UNCHANGED <<at, matrix>>
      /\ grid' = Conjugated(Reversed(Shifted(grid)))
  BY DEF Arrange, flaggerVars
<1>2. Laid /\ Laid'
  BY <1>1, LaidKept DEF GridInv
<1>3. grid = [cell \in Pixels |-> {Term(cell, q) : q \in Added(cell)}]
  BY <1>1 DEF GridInv, Gridded
<1>4. \A k \in Pixels : grid'[<<Beyond(k[1]), Beyond(k[2])>>] = Conjugate(grid'[k])
  BY <1>1, <1>2, <1>3, ArrangedMirrored
<1>5. RealImage'
  BY <1>4 DEF RealImage, Beyond
<1> QED
  BY <1>1, <1>2, <1>5 DEF GridInv, Gridded

\* GridInv is an invariant of the whole system.
LEMMA GridInside == Spec => []GridInv
<1>1. Init => GridInv
  BY DEF Init, PathInit, GridInv, Gridded, RealImage
<1>2. PathInv /\ GridInv /\ [Next]_vars => GridInv'
  <2> SUFFICES ASSUME PathInv, GridInv, [Next]_vars PROVE GridInv'
    OBVIOUS
  <2>1. CASE PathNext
    <3>1. stage' \notin {"regrid", "gridded", "spectrum"}
      BY <2>1 DEF PathNext, Configure, Send, Serve, Deserialise, Flag, Clip, Average, Correlate
    <3> QED
      BY <3>1, GridLeft
  <2>2. CASE Begin
    BY <2>2 DEF Begin, PathInv, Correlated, GridInv, Gridded, RealImage, Laid
  <2>3. CASE \E f \in SUBSET Antennas : Grid(f)
    BY <2>3, GridStep
  <2>4. CASE Arrange
    BY <2>4, ArrangeStep
  <2>5. CASE \E picture \in Pictures : Transform(picture)
    <3>1. stage = "spectrum" /\ stage' \in {"regrid", "sum"} /\ UNCHANGED <<at, matrix>>
      BY <2>5 DEF Transform
    <3> QED
      BY <3>1, LaidKept DEF GridInv, Gridded, RealImage
  <2>6. CASE Finish
    <3>1. stage' = "output"
      BY <2>6 DEF Finish
    <3> QED
      BY <3>1, GridLeft
  <2>7. CASE WriteTiff \/ WriteCasa \/ UNCHANGED vars
    <3>1. UNCHANGED <<stage, at, flags, grid, matrix>>
      BY <2>7 DEF WriteTiff, WriteCasa, vars, pathVars, imagerVars, flaggerVars
    <3>2. \A cell, q : Term(cell, q)' = Term(cell, q) /\ Added(cell)' = Added(cell)
      BY <3>1 DEF Term, Added, Masked, Weight, U, V
    <3> QED
      BY <3>1, <3>2, LaidKept DEF GridInv, Gridded, RealImage
  <2> QED
    BY <2>1, <2>2, <2>3, <2>4, <2>5, <2>6, <2>7 DEF Next
<1> QED
  BY PathInside, <1>1, <1>2, PTL DEF Spec

(***************************************************************************)
(* For any array that fits on the grid, whichever antennas are flagged:    *)
(* opposite cells of the grid that is transformed are each other's         *)
(* conjugates, so that the picture is real (Imager.cpp:77-84, 126-150,     *)
(* Flagger.cpp:154-161).                                                   *)
(***************************************************************************)
THEOREM PictureIsReal == Spec => []RealImage
<1>1. GridInv => RealImage
  BY DEF GridInv
<1> QED
  BY GridInside, <1>1, PTL

-----------------------------------------------------------------------------
(***************************************************************************)
(* How a place between two cells is shared by them: their centre, weighted *)
(* with the shares, is the place.                                          *)
(***************************************************************************)
First(u) == Share(Near(u), u)
Second(u) == Share(Near(u) + 1, u)

(***************************************************************************)
(* A place is shared by the cell before it and the next one, in proportion *)
(* to how near they are.                                                   *)
(***************************************************************************)
LEMMA SharesAround ==
  ASSUME NEW u \in Int, 0 <= u, u <= 2 * Centre
  PROVE  /\ Near(u) \in 0..(Size - 1) /\ Near(u) + 1 \in 0..(Size - 1)
         /\ First(u) \in Nat /\ Second(u) \in Nat /\ First(u) + Second(u) > 0
         /\ \A k \in Int \ {Near(u), Near(u) + 1} : Share(k, u) = 0
         /\ Sub * (First(u) * Near(u) + Second(u) * (Near(u) + 1)) = u * (First(u) + Second(u))
<1> DEFINE
  n == Near(u)
  f == Far(u)
  s == Sub
  r == u - s * n
<1>1. /\ s \in Nat \ {0} /\ n \in Int /\ f \in Int /\ s * n \in Int
      /\ r \in 0..(s - 1) /\ u = s * n + r
  BY SkyImageAssumption, NearFar
<1>2. n \in 0..(Size - 1) /\ n + 1 \in 0..(Size - 1)
  BY CellsInside, SizeEven DEF Edge
<1>3. \A k \in Int :
        /\ Share(k, u) = (IF k = n THEN s - r ELSE 0) + (IF k = f THEN s - (s * f - u) ELSE 0)
        /\ Share(k, u) \in Nat
        /\ Share(k, u) > 0 <=> k \in {n, f}
  BY ShareIs
<1>4. n + 1 \in Int /\ s * (n + 1) = s * n + s
  BY <1>1, Z3T(30)
<1>5. \A k \in Int : s * k - u \in 0..(s - 1) => k = f
  BY NearFarOnly
<1>6. First(u) = Share(n, u) /\ Second(u) = Share(n + 1, u)
  BY DEF First, Second
<1> HIDE DEF n, f, s, r
<1>7. r = 0 => f = n
  BY <1>1, <1>5
<1>8. r # 0 => f = n + 1
  <2>1. r # 0 => s * (n + 1) - u \in 0..(s - 1)
    BY <1>1, <1>4
  <2> QED
    BY <1>4, <1>5, <2>1
<1>9. First(u) \in Nat /\ Second(u) \in Nat /\ First(u) + Second(u) > 0
  <2>1. First(u) > 0
    BY <1>1, <1>3, <1>6
  <2> QED
    BY <1>1, <1>3, <1>4, <1>6, <2>1
<1>10. \A k \in Int \ {n, n + 1} : Share(k, u) = 0
  <2>1. f \in {n, n + 1}
    BY <1>7, <1>8
  <2> QED
    BY <1>3, <2>1
<1>11. s * (First(u) * n + Second(u) * (n + 1)) = u * (First(u) + Second(u))
  <2>1. CASE r = 0
    <3>1. n = f /\ n + 1 # f /\ s * f = s * n
      BY <1>1, <1>7, <2>1
    <3>2. First(u) = s + s /\ Second(u) = 0
      BY <1>1, <1>3, <1>4, <1>6, <2>1, <3>1
    <3>3. \A x \in Int, y \in Int : x * ((x + x) * y + 0 * (y + 1)) = (x * y) * ((x + x) + 0)
      BY Z3T(30)
    <3>4. u = s * n
      BY <1>1, <2>1
    <3> QED
      BY <1>1, <3>2, <3>3, <3>4
  <2>2. CASE r # 0
    <3>1. n # f /\ n + 1 = f /\ s * f = s * n + s
      BY <1>1, <1>4, <1>8, <2>2
    <3>2. First(u) = s - r /\ Second(u) = r
      <4>1. s - (s * n + s - u) = r
        BY <1>1
      <4>2. Share(n, u) = (s - r) + 0 /\ Share(n + 1, u) = 0 + (s - (s * f - u))
        BY <1>1, <1>3, <1>4, <3>1
      <4> QED
        BY <1>1, <1>6, <3>1, <4>1, <4>2
    <3>3. \A x, y, z \in Int : x * ((x - z) * y + z * (y + 1)) = (x * y + z) * ((x - z) + z)
      BY Z3T(30)
    <3>4. r \in Int
      BY <1>1
    <3> QED
      BY <1>1, <3>2, <3>3, <3>4
  <2> QED
    BY <2>1, <2>2
<1> QED
  BY <1>2, <1>9, <1>10, <1>11 DEF n, s

\* The pixels are finitely many.
LEMMA PixelsFinite == IsFiniteSet(Pixels)
<1>1. 0 \in Int /\ Size - 1 \in Int
  BY SizeEven
<1>2. IsFiniteSet(0..(Size - 1))
  BY <1>1, FS_Interval
<1> QED
  BY <1>2, FS_Product DEF Pixels

(***************************************************************************)
(* Both directions together: four cells.                                   *)
(***************************************************************************)
LEMMA WeightsAround ==
  ASSUME Laid, NEW q \in Pairs, NEW p \in [Pixels -> Int]
  PROVE  LET n == Near(V(q))
             m == Near(U(q))
         IN /\ {n, n + 1} \X {m, m + 1} \subseteq Pixels
            /\ Total([cell \in Pixels |-> Weight(cell, q) * p[cell]]) =
                 First(V(q)) * First(U(q)) * p[<<n, m>>] + First(V(q)) * Second(U(q)) * p[<<n, m + 1>>]
                 + Second(V(q)) * First(U(q)) * p[<<n + 1, m>>] + Second(V(q)) * Second(U(q)) * p[<<n + 1, m + 1>>]
<1> DEFINE
  n == Near(V(q))
  m == Near(U(q))
  a == <<n, m>>
  b == <<n, m + 1>>
  c == <<n + 1, m>>
  d == <<n + 1, m + 1>>
  f == [cell \in Pixels |-> Weight(cell, q) * p[cell]]
<1>1. U(q) \in Int /\ 0 <= U(q) /\ U(q) <= 2 * Centre /\ V(q) \in Int /\ 0 <= V(q) /\ V(q) <= 2 * Centre
  BY PlacesInside
<1>2. /\ n \in 0..(Size - 1) /\ n + 1 \in 0..(Size - 1) /\ m \in 0..(Size - 1) /\ m + 1 \in 0..(Size - 1)
      /\ \A k \in Int \ {n, n + 1} : Share(k, V(q)) = 0
      /\ \A k \in Int \ {m, m + 1} : Share(k, U(q)) = 0
  BY <1>1, SharesAround
<1>3. n \in Int /\ m \in Int /\ n # n + 1 /\ m # m + 1
  BY <1>1, NearFar
<1>4. a \in Pixels /\ b \in Pixels /\ c \in Pixels /\ d \in Pixels
  BY <1>2 DEF Pixels
<1>5. a \notin {b, c, d} /\ b \notin {c, d} /\ c # d
  BY <1>3
<1>6. ASSUME NEW cell \in Pixels PROVE Weight(cell, q) \in Int /\ p[cell] \in Int
  BY WeightType
<1>7. f \in [Pixels -> Int]
  BY <1>6
<1>8. ASSUME NEW cell \in Pixels, cell \notin {a, b, c, d} PROVE f[cell] = 0
  <2>1. cell[1] \in Int /\ cell[2] \in Int /\ cell = <<cell[1], cell[2]>>
    BY PixelTypes
  <2>2. cell[1] \notin {n, n + 1} \/ cell[2] \notin {m, m + 1}
    BY <1>8, <2>1
  <2>3. Share(cell[1], V(q)) \in Int /\ Share(cell[2], U(q)) \in Int
    BY <1>1, <2>1, ShareIs
  <2>4. Share(cell[1], V(q)) = 0 \/ Share(cell[2], U(q)) = 0
    BY <1>2, <2>1, <2>2
  <2>5. Weight(cell, q) = 0
    BY <2>3, <2>4 DEF Weight
  <2> QED
    BY <1>6, <2>5
<1>9. Total(f) = f[a] + f[b] + f[c] + f[d]
  <2> HIDE DEF a, b, c, d, f
  <2> QED
    BY <1>4, <1>5, <1>7, <1>8, PixelsFinite, TotalOfFour
<1>10. /\ Weight(a, q) = First(V(q)) * First(U(q)) /\ Weight(b, q) = First(V(q)) * Second(U(q))
       /\ Weight(c, q) = Second(V(q)) * First(U(q)) /\ Weight(d, q) = Second(V(q)) * Second(U(q))
  BY DEF Weight, First, Second
<1>11. {n, n + 1} \X {m, m + 1} \subseteq Pixels
  BY <1>2 DEF Pixels
<1> QED
  BY <1>4, <1>9, <1>10, <1>11

\* The shares of a place add up over the pixels.
LEMMA SplattedByGrid == GridInv => Splatted
<1> SUFFICES ASSUME Laid, NEW q \in Pairs
             PROVE  LET w == [cell \in Pixels |-> Weight(cell, q)]
                        Moment(i) == Total([cell \in Pixels |-> w[cell] * cell[i]])
                    IN /\ Total(w) > 0
                       /\ Sub * Moment(1) = V(q) * Total(w)
                       /\ Sub * Moment(2) = U(q) * Total(w)
  BY DEF Splatted, GridInv
<1> DEFINE
  v == V(q)
  u == U(q)
  n == Near(v)
  m == Near(u)
  a == First(v)
  b == Second(v)
  c == First(u)
  d == Second(u)
  w == [cell \in Pixels |-> Weight(cell, q)]
  ones == [cell \in Pixels |-> 1]
  rows == [cell \in Pixels |-> cell[1]]
  columns == [cell \in Pixels |-> cell[2]]
  Sum(p) == Total([cell \in Pixels |-> Weight(cell, q) * p[cell]])
  Four(p) == a * c * p[<<n, m>>] + a * d * p[<<n, m + 1>>] + b * c * p[<<n + 1, m>>] + b * d * p[<<n + 1, m + 1>>]
<1>1. v \in Int /\ 0 <= v /\ v <= 2 * Centre /\ u \in Int /\ 0 <= u /\ u <= 2 * Centre
  BY PlacesInside
<1>2. /\ a \in Nat /\ b \in Nat /\ a + b > 0 /\ n \in Int
      /\ Sub * (a * n + b * (n + 1)) = v * (a + b)
  BY <1>1, SharesAround
<1>3. /\ c \in Nat /\ d \in Nat /\ c + d > 0 /\ m \in Int
      /\ Sub * (c * m + d * (m + 1)) = u * (c + d)
  BY <1>1, SharesAround
<1>4. /\ ones \in [Pixels -> Int] /\ rows \in [Pixels -> Int] /\ columns \in [Pixels -> Int]
  <2>1. \A cell \in Pixels : cell[1] \in Int /\ cell[2] \in Int
    BY PixelTypes
  <2> QED
    BY <2>1
<1>5. {n, n + 1} \X {m, m + 1} \subseteq Pixels
  BY WeightsAround, <1>4
<1>6. \A p \in [Pixels -> Int] : Sum(p) = Four(p)
  BY WeightsAround
<1>7. w = [cell \in Pixels |-> Weight(cell, q) * ones[cell]]
  BY WeightType
<1>8. /\ [cell \in Pixels |-> w[cell] * cell[1]] = [cell \in Pixels |-> Weight(cell, q) * rows[cell]]
      /\ [cell \in Pixels |-> w[cell] * cell[2]] = [cell \in Pixels |-> Weight(cell, q) * columns[cell]]
  OBVIOUS
<1>9. /\ <<n, m>> \in Pixels /\ <<n, m + 1>> \in Pixels
      /\ <<n + 1, m>> \in Pixels /\ <<n + 1, m + 1>> \in Pixels
  BY <1>5
<1>10. /\ Four(ones) = a * c * 1 + a * d * 1 + b * c * 1 + b * d * 1
       /\ Four(rows) = a * c * n + a * d * n + b * c * (n + 1) + b * d * (n + 1)
       /\ Four(columns) = a * c * m + a * d * (m + 1) + b * c * m + b * d * (m + 1)
  BY <1>9
<1> HIDE DEF n, m, a, b, c, d, u, v, Four, Sum, ones, rows, columns
<1>11. /\ \A x, y, z, t \in Int : x * z * 1 + x * t * 1 + y * z * 1 + y * t * 1 = (x + y) * (z + t)
       /\ \A x, y, z, t, k \in Int :
            /\ x * z * k + x * t * k + y * z * (k + 1) + y * t * (k + 1) = (x * k + y * (k + 1)) * (z + t)
            /\ x * z * k + x * t * (k + 1) + y * z * k + y * t * (k + 1) = (x + y) * (z * k + t * (k + 1))
  BY Z3T(30)
<1>12. /\ Sum(ones) = (a + b) * (c + d)
       /\ Sum(rows) = (a * n + b * (n + 1)) * (c + d)
       /\ Sum(columns) = (a + b) * (c * m + d * (m + 1))
  BY <1>2, <1>3, <1>4, <1>6, <1>10, <1>11
<1> DEFINE
  A == a + b
  C == c + d
  P == a * n + b * (n + 1)
  Q == c * m + d * (m + 1)
<1>13. A \in Nat \ {0} /\ C \in Nat \ {0} /\ P \in Int /\ Q \in Int /\ Sub \in Int
  BY <1>2, <1>3, SkyImageAssumption
<1>14. Sub * P = v * A /\ Sub * Q = u * C
  BY <1>2, <1>3
<1>15. Sum(ones) = A * C /\ Sum(rows) = P * C /\ Sum(columns) = A * Q
  BY <1>12
<1> HIDE DEF A, C, P, Q
<1>16. A * C > 0
  BY <1>13, Z3T(30)
<1>17. /\ Sub * (P * C) = (Sub * P) * C /\ (v * A) * C = v * (A * C)
       /\ Sub * (A * Q) = A * (Sub * Q) /\ A * (u * C) = u * (A * C)
  BY <1>1, <1>13, Z3T(30)
<1>18. Total(w) = Sum(ones)
  BY <1>7 DEF Sum
<1>19. /\ Total([cell \in Pixels |-> w[cell] * cell[1]]) = Sum(rows)
       /\ Total([cell \in Pixels |-> w[cell] * cell[2]]) = Sum(columns)
  BY <1>8 DEF Sum
<1>20. /\ Sum(ones) > 0
       /\ Sub * Sum(rows) = v * Sum(ones)
       /\ Sub * Sum(columns) = u * Sum(ones)
  BY <1>14, <1>15, <1>16, <1>17
<1> QED
  BY <1>18, <1>19, <1>20 DEF u, v

(***************************************************************************)
(* For any array that fits on the grid: what a correlation adds to the     *)
(* grid has its centre at the place of the correlation, wherever that is   *)
(* between the cells (Imager.cpp:126-150).                                 *)
(***************************************************************************)
THEOREM CentresKept == Spec => []Splatted
BY GridInside, SplattedByGrid, PTL

=============================================================================
