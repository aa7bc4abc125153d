----------------------------- MODULE Visibilities -----------------------------
(***************************************************************************)
(* The way of the visibilities of a packet, from the measurement set of    *)
(* the emulator to the correlation matrix of the pipeline: the packet is   *)
(* cut into a chunk for one of the channel ranges of the configuration,    *)
(* the chunk is read into the matrices of a blob, and the Flagger averages *)
(* the channels of one polarization.                                       *)
(*                                                                         *)
(* A visibility is known by its row of the measurement set, its channel    *)
(* and its polarization.  How packets and chunks reach the next process is *)
(* in StreamChunker and ImagingSystem.  What no later step reads is set to *)
(* None.                                                                   *)
(***************************************************************************)
EXTENDS ConfigText, Statistics

CONSTANTS
  NumAntennas,   \* NUM_ANTENNAS
  Texts,         \* what "channelranges" may hold
  StreamSizes,   \* how many channels a stream may have
  NumPackets,    \* nPackets() of the emulator
  VisSigma,      \* attribute "sigma" of <visibility>, default 2
  MaxMagnitude   \* bound: magnitudes are 0 to MaxMagnitude

ASSUME VisibilitiesAssumption ==
  /\ NumAntennas \in Nat \ {0}
  /\ Texts \subseteq Seq(Int)
  /\ StreamSizes \subseteq Nat \ {0}
  /\ NumPackets \in Nat
  /\ VisSigma \in Nat
  /\ MaxMagnitude \in Nat

VARIABLES
  stage,      \* how far the visibilities have come
  text,       \* what "channelranges" holds
  ranges,     \* mChannelRanges
  channels,   \* mNumChannels of the stream
  row,        \* mRowIndex of the emulator
  packet,     \* mVisibilities of the server
  chunk,      \* the range of the chunk and its visibilities
  raw,        \* mRawData
  pol,        \* the polarization the Flagger works on
  column,     \* i of its loops: the baseline that was clipped last
  magnitude,  \* the magnitudes of that baseline
  result,     \* mResult, as the rows and the polarizations that are in it
  matrix      \* mCleanData, as the baseline every cell is taken from

serverVars == <<text, ranges, channels, row, packet>>
flaggerVars == <<pol, column, magnitude, result, matrix>>
pathVars == <<stage, serverVars, chunk, raw, flaggerVars>>

None == <<>>
Antennas == 0..(NumAntennas - 1)
Pairs == Antennas \X Antennas
NumBaselines == (NumAntennas * (NumAntennas + 1)) \div 2
Baselines == 0..(NumBaselines - 1)
Pols == 0..1

PathInit ==
  /\ stage = "text"
  /\ text \in Texts
  /\ channels \in StreamSizes
  /\ row = 0
  /\ ranges = None /\ packet = None /\ chunk = None /\ raw = None
  /\ pol = 0 /\ column = -1
  /\ magnitude = None /\ result = None /\ matrix = None

(***************************************************************************)
(* The constructor of StreamChunker: a text that is not accepted ends the  *)
(* server.                                                                 *)
(***************************************************************************)
\* Mutant: the ranges stay in the order of the text.
ConfigureUnsorted ==
  /\ stage = "text"
  /\ Accepted(Parsed(text))
  /\ ranges' = Parsed(text)
  /\ stage' = "serving"
  /\ UNCHANGED <<text, channels, row, packet, chunk, raw, flaggerVars>>

Configure ==
  /\ stage = "text"
  /\ Accepted(Parsed(text))
  /\ ranges' \in Arrangements(Parsed(text))
  /\ stage' = "serving"
  /\ UNCHANGED <<text, channels, row, packet, chunk, raw, flaggerVars>>

(***************************************************************************)
(* getPacketData(): the rows of the next packet, one after the other; in a *)
(* row the polarizations of a channel are neighbours.                      *)
(***************************************************************************)
Loaded(first) ==
  [k \in 0..(2 * channels * NumBaselines - 1) |->
     [row |-> first + k \div (2 * channels), channel |-> (k \div 2) % channels, pol |-> k % 2]]

Send ==
  /\ stage = "serving"
  /\ row < NumPackets * NumBaselines
  /\ packet' = Loaded(row)
  /\ row' = row + NumBaselines
  /\ UNCHANGED <<stage, text, ranges, channels, chunk, raw, flaggerVars>>

(***************************************************************************)
(* next(): the loops over polarizations, baselines and channels.  A stream *)
(* of one channel less than the maximum numbers its channels from one.     *)
(***************************************************************************)
Realtime == IF channels = MaxMergeChannels - 1 THEN 1 ELSE 0

\* Mutant: the strides of the channels and of the baselines are those of one polarization.
IndexOfOne(p, c, b) == p + c + b * channels

Index(p, c, b) == p + c * 2 + b * 2 * channels

Outside == [row |-> -1, channel |-> -1, pol |-> -1]

Visibility(p, c, b) ==
  LET k == Index(p, c, b) IN IF k \in DOMAIN packet THEN packet[k] ELSE Outside

Body(r) ==
  LET W == Width(r)
  IN [k \in 0..(2 * NumBaselines * W - 1) |->
        Visibility(k \div (NumBaselines * W), r.c1 - Realtime + (k % W), (k \div W) % NumBaselines)]

(***************************************************************************)
(* A chunk is sized for the channels of its range as 16 bits hold them; if *)
(* the loops go through more of them, they write past its end.             *)
(***************************************************************************)
Serve(r) ==
  /\ stage = "serving" /\ packet # None
  /\ IF Width(r) = Channels(r)
     THEN stage' = "chunk" /\ chunk' = [c1 |-> r.c1, c2 |-> r.c2, body |-> Body(r)]
     ELSE stage' = "overrun" /\ chunk' = None
  /\ text' = None /\ ranges' = None /\ packet' = None
  /\ UNCHANGED <<channels, row, raw, flaggerVars>>

(***************************************************************************)
(* deserialise(): the blob is resized by the header, where too many        *)
(* channels end the program, and its matrices are filled by columns.       *)
(***************************************************************************)
Cell(p, m, b, M) == p * M * NumBaselines + b * M + m

Deserialise ==
  LET M == Width(chunk)
  IN /\ stage = "chunk"
     /\ M <= MaxMergeChannels
     /\ raw' = [p \in Pols |-> [b \in Baselines |-> [m \in 0..(M - 1) |-> chunk.body[Cell(p, m, b, M)]]]]
     /\ stage' = "blob"
     /\ chunk' = [chunk EXCEPT !.body = None]
     /\ UNCHANGED <<serverVars, flaggerVars>>

-----------------------------------------------------------------------------
(***************************************************************************)
(* Flagger::run(): with three channels or more, a visibility is kept if it *)
(* is less than VisSigma deviations above the median.  The limit below the *)
(* median has no effect, as its mask is overwritten.                       *)
(***************************************************************************)
\* Mutant: the limit itself is kept.
KeptAtLimit(s) ==
  IF Count(s) < 3 THEN DOMAIN s
  ELSE {m \in DOMAIN s :
          Distance(s, m) <= 0 \/ Distance(s, m) * Distance(s, m) <= SquaredLimit(s, VisSigma)}

Kept(s) ==
  IF Count(s) < 3 THEN DOMAIN s
  ELSE {m \in DOMAIN s :
          Distance(s, m) < 0 \/ Distance(s, m) * Distance(s, m) < SquaredLimit(s, VisSigma)}

Flag(p) ==
  /\ stage = "blob"
  /\ pol' = p
  /\ column' = -1
  /\ result' = [b \in Baselines |-> {}]
  /\ stage' = "clip"
  /\ UNCHANGED <<serverVars, chunk, raw, magnitude, matrix>>

(***************************************************************************)
(* The next baseline, with any magnitudes, and its mean.  The mean of      *)
(* nothing is not a number, which is set to zero later.                    *)
(***************************************************************************)
Clip(s) ==
  /\ stage = "clip" /\ column + 1 \in Baselines
  /\ column' = column + 1
  /\ magnitude' = s
  /\ stage' = "mean"
  /\ UNCHANGED <<serverVars, chunk, raw, pol, result, matrix>>

Average ==
  /\ stage = "mean"
  /\ result' = [result EXCEPT ![column] =
       {[row |-> v.row, pol |-> v.pol] : v \in {raw[pol][column][m] : m \in Kept(magnitude)}}]
  /\ magnitude' = None
  /\ stage' = "clip"
  /\ UNCHANGED <<serverVars, chunk, raw, pol, column, matrix>>

(***************************************************************************)
(* The matrix: the baselines of antenna i with itself and those before it  *)
(* are its row, and their conjugates its column.                           *)
(***************************************************************************)
\* Mutant: every row begins where the previous one ends.
TriangleShort(i) == (i * (i - 1)) \div 2

Triangle(i) == (i * (i + 1)) \div 2

BaselineOf(i, j) ==
  IF j <= i THEN [baseline |-> Triangle(i) + j, conj |-> FALSE]
  ELSE [baseline |-> Triangle(j) + i, conj |-> TRUE]

Correlate ==
  /\ stage = "clip" /\ column = NumBaselines - 1
  /\ matrix' = [pair \in Pairs |-> BaselineOf(pair[1], pair[2])]
  /\ raw' = None
  /\ stage' = "matrix"
  /\ UNCHANGED <<serverVars, chunk, pol, column, magnitude, result>>

PathNext ==
  \/ Configure \/ Send \/ \E i \in DOMAIN ranges : Serve(ranges[i])
  \/ Deserialise
  \/ \E p \in Pols : Flag(p)
  \/ stage = "clip" /\ \E s \in [0..(Width(chunk) - 1) -> 0..MaxMagnitude] : Clip(s)
  \/ Average \/ Correlate

-----------------------------------------------------------------------------
(***************************************************************************)
(* RangesAsWritten: a text of channel ranges that do not overlap, in any   *)
(* order, gives exactly those ranges, in ascending order; only the range   *)
(* of all 16-bit numbers gets a chunk that is too small for it             *)
(* (StreamChunker.cpp:23, 143-199).                                        *)
(***************************************************************************)
RangeText(r) == <<r.c1, Dash, r.c2, Comma>>
TextOf(list) == [k \in 1..(4 * Len(list) - 1) |-> RangeText(list[(k + 3) \div 4])[((k + 3) % 4) + 1]]
Lists == {list \in BoundedSeq([c1 : 0..MaxMergeChannels, c2 : 0..MaxMergeChannels], 2) \ {<<>>} :
            Disjoint(list) /\ \A i \in DOMAIN list : list[i].c1 <= list[i].c2}

RangesAsWritten ==
  /\ stage = "serving" =>
       /\ \A list \in Lists : text = TextOf(list) =>
            /\ Range(ranges) = Range(list)
            /\ \A i \in 1..(Len(ranges) - 1) : ranges[i].c2 < ranges[i + 1].c1
       /\ \A i \in DOMAIN ranges :
            Width(ranges[i]) # Channels(ranges[i]) => ranges[i] = [c1 |-> 0, c2 |-> Word - 1]

(***************************************************************************)
(* RawPlaced: a blob holds at every place the visibility of that           *)
(* polarization, baseline and channel of the packet sent last, if and only *)
(* if the range lies in the stream; the channels of a stream that is one   *)
(* short of the maximum are counted from one (StreamEmulator.cpp:78-98,    *)
(* StreamChunker.cpp:112-132, StreamAdapter.cpp:16-36).                    *)
(***************************************************************************)
InStream(r) == r.c1 >= Realtime /\ r.c2 - Realtime < channels

RawPlaced ==
  stage = "blob" =>
    (InStream(chunk) <=>
       \A p \in Pols, b \in Baselines : \A m \in 0..(Width(chunk) - 1) :
         raw[p][b][m] = [row |-> row - NumBaselines + b,
                         channel |-> chunk.c1 - Realtime + m, pol |-> p])

(***************************************************************************)
(* KeptBelow: clipping only throws away the strongest visibilities of a    *)
(* baseline, and all of them if and only if they are equally strong        *)
(* (Flagger.cpp:89-152).                                                   *)
(***************************************************************************)
KeptBelow ==
  stage = "mean" /\ Count(magnitude) >= 3 =>
    LET kept == Kept(magnitude)
    IN /\ \A m \in kept, n \in DOMAIN magnitude \ kept : magnitude[m] < magnitude[n]
       /\ kept = {} <=> \A m, n \in DOMAIN magnitude : magnitude[m] = magnitude[n]

(***************************************************************************)
(* MatrixOwn: no two pairs of antennas share a visibility, every baseline  *)
(* of the packet that is not zero is that of some pair, and only           *)
(* visibilities of the right polarization and the packet are averaged      *)
(* (Flagger.cpp:150-165).                                                  *)
(***************************************************************************)
In(pair) == result[matrix[pair].baseline]

MatrixOwn ==
  stage = "matrix" /\ InStream(chunk) =>
    /\ \A q, r \in Pairs : In(q) \cap In(r) # {} => {q[1], q[2]} = {r[1], r[2]}
    /\ UNION Range(result) = UNION {In(q) : q \in Pairs}
    /\ \A q \in Pairs : In(q) \subseteq [row : (row - NumBaselines)..(row - 1), pol : {pol}]

=============================================================================
