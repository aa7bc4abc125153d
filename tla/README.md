# The AARTFAAC imaging pipeline in TLA+

TLA+ modules of the AARTFAAC imaging system, TLC configurations that check them on
small instances, and TLAPS proofs. Paths are those of the repository; a definition and
the lines it stands for are listed in `PROJECT.json` under `map`.

## 1. The system

A correlator (or an emulator) sends packets over TCP to the *server*, which cuts each
packet into chunks and buffers them. *Pipelines* are processes of their own; each polls
the server for a chunk, flags, calibrates and images it, writes the image and polls again.
The server and the transport are built on the Pelican framework, which is not part of the
repository: what it does is modelled from how the code uses it and marked external.

| Component | State | Operations | Talks to |
|---|---|---|---|
| Stream chunker `server/StreamChunker` | TCP server and device, block of visibilities, channel ranges, `mStartInterval` | `newDevice`, `next`, `ParseChannels` | correlator (TCP), chunk buffer (`getDataStorage`, `WritableData`) |
| Chunk buffer (Pelican) | slots, queue of ready chunks | hand out, publish, serve, release, recycle | chunkers (threads of one server), pipelines |
| Stream adapter and blob `pipeline/StreamAdapter`, `StreamBlob` | header, raw and clean data, masks, flagged list, sky map | `deserialise`, `reset` | server (TCP), the modules (shared blob) |
| Pipeline `pipeline/UniboardPipeline` | module instances per thread | `init`, `run` | modules (calls), OpenMP, output streams |
| Flagger `modules/flagger` | statistics, `mFlaggedAnts` | `run`, `ParseFlagged` | blob |
| Calibrator `modules/calibrator` | `mFlagged`, squeezed matrices, `mHasConverged` | `run`, `statCal`, `walsCalibration`, `gainSolv`, `wsfSrcPos` | blob, simplex, `radec2itrf` |
| Simplex `utilities/NMSMax.h` | vertices, values | `Simplex`, `sort` | target function |
| Imager `modules/imager` | grid, plan | `gridding`, `fftShift`, `run` | blob |
| Output `modules/output` | path | `sendStream` | blob, file system |
| Emulator `emulator/stream` | row index, packet buffer | `getPacketData`, `createDevice` | measurement set, server |
| Utilities, logger, antenna positions | a static matrix, a static instance | pure functions, `WriteStats` | everybody |

What is hard here: several chunkers share a bounded buffer that takes back what it has
already queued; a call can fail half way through its allocations; the blob, the module
instances and function-local statics outlive the chunk they were filled for; the loop over
the polarizations runs on threads; pipelines die; waits have no time limit; the numerical
loops decide with counters; and the visibilities pass through half a dozen layouts of which
no two are the same. `PROJECT.json` lists these places as hazards with the properties that
cover them.

What makes each part correct: the chunker keeps packet boundaries and never offers a half
filled packet as a whole one; a slot has one owner; a chunk leads to at most one image, of
its own visibilities; the polarizations of an image are its own; list, mask and matrix
size agree on which antennas take part; calibration ends, and is applied only after the first of
its two calibrations converged; the search keeps the best point it has seen; every visibility arrives at the
cell of the matrix, of the grid and of the picture that belongs to it.

## 2. Modules

| Module | Models | State and actions |
|---|---|---|
| `ChunkStore` | Pelican's chunk buffer (external) | `mode`, `queue`, `memory`; `Obtain`, `MayRefuse`, `Publish`, `Serve`, `Release` |
| `StreamChunker` | `newDevice()`, `next()`, extends `ChunkStore` | `pc` follows `next()`: `header` and `block` are its two waits, `check` the early returns, `alloc` the loop that asks for storage, `fill` the copy, `release` the destruction of `chunks` |
| `ChunkDelivery` | abstract: what becomes of a chunk | `unseen`, `offered`, `taken`, `imaged`, `lost` |
| `ImagingSystem` | server and pipelines, extends `StreamChunker` | `stage` of each pipeline: `Poll`, `Deliver`, `DeserialiseHeader`, `DeserialiseData`, `Process`, `Output`, `Crash`, `Restart` |
| `UniboardPipeline` | `UniboardPipeline::run()` with its threads | `pc` of each polarization; instances `result`, `norm`; `tmp` is `tmp_mat` of `radec2itrf()` |
| `ConfigText` | `ParseChannels()` and the order of ranges | pure: a fold over the tokens of the text, in 16-bit numbers |
| `Statistics` | median and deviation of the Flagger | pure, in integers |
| `Visibilities` | the way of a visibility, extends both | `stage`: `Configure`, `Send` (emulator), `Serve` (the loops of `next()`), `Deserialise`, `Flag`, `Clip`, `Average`, `Correlate` |
| `SkyImage` | Imager and output streams, extends `Visibilities` | `Begin`, `Grid` (`gridding()`), `Arrange`, `Transform`, `Finish`, `WriteTiff`, `WriteCasa` |
| `AntennaFlags` | `ParseFlagged()`, flagging in `Flagger::run()`, squeezing in `Calibrator::run()` | one action per loop; `flagged` is a list as in the code |
| `Calibration` | the loops of the Calibrator | `major`, `minor`, which estimates the gains average, `converged` |
| `Simplex` | `NM::Simplex()` and `NM::sort()` | `V`, `f`, `x`, `nf` as in the code; one action per way an iteration ends: `Reflect`, `Expand`, `Contract`, `Shrink` |
| `Calibrator` | `Calibrator::run()` with its search, extends the two | `wsfSrcPos` is a step of the search, `EnterAgain` takes its result |
| `...Proofs` | theorems, section 5 | |
| `MC...` | instances for TLC | symmetry and input sets |

How the modules fit together:

- `ImagingSystem` composes chunker, buffer and pipelines, and implements `ChunkDelivery`
  under the mapping `ChunkStatus`.
- Its `Process` is what `UniboardPipeline` models in detail, and whose `Flag` to
  `Reconstruct` are detailed in `AntennaFlags` and `Calibrator`.
- `SkyImage` follows the *contents* of one chunk through all of it. There the server, the
  transport and the threads, whose interleavings are the subject of the other modules, are
  one step each.

Modelling choices that matter:

- **Wire.** A packet is two units, header and block, because `next()` waits for whole
  units. Every packet may carry the magic or not. A connection may break between any two
  units; bytes of a unit that was cut off are as good as none. `read()` of the old device is
  gone when a new connection is taken.
- **Memory.** A slot holds a chunk header and a chunk body, each known by the packet and
  range it was written for. A slot that is handed out again keeps its contents, as the code
  never clears it.
- **Who is served.** The pipelines take the oldest chunk. The buffer is one of a fixed
  number of slots: the byte limits of the configuration with chunks of one size.
- **Text.** A configuration is a sequence of tokens: a run of digits is its number, and
  comma and dash are themselves. The numbers are the ones `toInt()` would return, cut to 16
  bits where the code stores them in a `quint16`.
- **Visibilities.** In the modules about scheduling a visibility is known by its chunk; in
  `Visibilities` by its row of the measurement set, its channel and its polarization, and
  every layout between is the index arithmetic of the code.
- **Undefined behaviour.** Two threads that write `tmp_mat` at once are modelled by two
  halves that are written one after the other, so that a reader may see any mixture.
  What an index beyond a matrix does depends on how the program was compiled (`Builds`). The
  default build (`CMakeLists.txt:22-24`: `RelWithDebInfo`, without `NDEBUG`) ends on an assertion
  of Eigen: `SqueezeAsserts` and `ResizeFails`. In a release build the columns of a matrix follow each
  other in memory, so that a row too far is a cell of the next column, and the last write wins
  (`LastWritten`); what is beyond the memory of the matrix is collected in `outside`, after which the
  program may have ended or not, and what is read there is `garbage`. The other matrices and the
  positions of the antennas are indexed and sized alike and not modelled one by one, nor is what
  else the memory beyond belongs to. Reading outside a packet gives `Outside`, and writing past a
  chunk ends in `overrun`. A sky that is the same everywhere is divided by zero to `NotANumber`, and
  the bytes that is converted to are any one value.
- **Numbers.** Residues are small or not; strengths and magnitudes are small integers, and
  the comparison with sigma deviations is squared and scaled so that it is exact; baselines
  are multiples of a quarter of a cell; the transform returns some picture, with pixels below and above zero; the gamma correction and the
  rounding to a byte are the exact comparison of integer powers (`Byte`), with gamma 11/5 and a
  largest byte of `Levels`, 255 in the code; the simplex gets
  an arbitrary value for every evaluation.

## 3. Runs

| Run | Bounds | Question and result |
|---|---|---|
| `StreamChunker_shared` | 2 streams, 2 slots, 2 ranges, 2 packets each | types, packet boundaries, complete sets of ranges, ownership of slots, all or nothing, `next()` never waits for a pipeline: hold |
| `StreamChunker_reconnect` | 1 range, 2 packets | *violated*: a cut off packet blocks the stream for ever |
| `ImagingSystem_delivery` | 2 packets of 1 chunk, 1 slot, 2 pipelines, 1 death, times 0..2, interval 1 | one place per chunk, images of whole chunks, implements `ChunkDelivery`, interval between whole packets, packets that arrived are read, the queue drains, fetched chunks are settled: hold |
| `ImagingSystem_mixed` | 2 packets, 1 pipeline | *violated*: an image of old memory under a new header |
| `UniboardPipeline_threads` | 2 polarizations, teams of 1 and 2, 2 chunks | own visibilities, private modules, right positions of one thread, every chunk imaged: hold |
| `UniboardPipeline_race` | the build with OpenMP, 1 chunk | *violated*: the shared `tmp_mat` |
| `AntennaFlags_safety` | both builds, 4 antennas, strengths 0..2, 2 sigma, 3 runs, 4 texts | list and mask agree, and the matrices, in a release build only while nobody is listed twice: hold |
| `AntennaFlags_clip` | the default build, 4 antennas, strengths 0..1, 1 run | *violated*: a dead antenna is flagged twice |
| `Calibrator_search` | 3 major and 4 minor cycles, 2 runs; 2 dimensions, values 0..2, 3 iterations | averages, early return, no influence of an earlier run, ranking and cost of the search, end of every loop: hold |
| `Simplex_minimum` | 1 run, 2 dimensions, values 0..1, 2 iterations | *violated*: the search returns the point it evaluated last |
| `SkyImage_path` | 3 antennas, texts of up to 3 ranges of 4 channels, streams of 3 and 4 channels, 2 packets, magnitudes 0..2, a grid of 4 x 4, 17 pictures of three brightnesses, bytes of 4 values | the ranges written are the ranges used, every visibility in its place, clip, matrix, grid and files: hold |
| `SkyImage_stokes` | 2 antennas, 1 packet | *violated*: the sky map is the last polarization, not the mean |

**Why the bounds are enough.** With two slots (`StreamChunker_shared`) a packet of two ranges fills
the store, so that the next one meets free slots, recycled slots, slots that are being served, and a
refusal after its first range. In the whole system one slot does so with packets of one range: the
second packet finds it free, recycles it from the queue, or is refused while it is being served, and
the two pipelines have a chunk each when it was released in between. Packets of two ranges that are
refused half way reach the pipelines in `ImagingSystem_mixed`, and all sizes in the proofs of
section 5. Two chunkers are needed for two owners of a slot, two packets for
every slot to be used twice, two pipelines for a chunk with two of them, one
death for every stage it can happen in. Times from 0 to 2 with an interval of 1 let a packet
come too soon, just in time and late. Two polarizations are what the code has. With four antennas
a single outlier is 4/sqrt(3) = 2.3 deviations from the median, so that 2 sigma plays the part
the default of 3 has with 288, where one dead antenna is 17 deviations off. Three runs of the
modules give every order of growing, equal and shrinking lists. Three major cycles tell a loop
that converges in its last cycle from one that does not, and four minor ones give two
averages. In `Simplex_minimum` as in all runs
of the search the tolerance is abstracted to a loop that may stop after any iteration.
A simplex of three vertices has a best, a second worst and a worst. Three antennas
have a row of the triangle of baselines that neither begins nor ends it; ranges of one to four
channels are on both sides of the three from which on visibilities are clipped; streams of
three channels of at most four are the streams of 63 of 64, which count from one; and the
positions of the third antenna are on lines of the grid, between them, and one of each. Every picture
has a source of brightness 2 with a neighbour of 1 or -1, so that after the gamma correction two of
its brightnesses share a byte and others do not.

**Deadlock** is not checked: packets, chunks, runs and iterations are bounded, and the
real system stops when no packet arrives.

**Fairness.** `StreamChunker`: the receiver thread of a chunker runs whenever it can
(`WF` of `Receiver`): Pelican calls `next()` while data are unread and asks for a device
while there is none. Nothing is assumed of correlators. `ImagingSystem` adds that a pipeline
that is up goes round its loop and that one that died is started again. `UniboardPipeline`:
the threads of the team and the main thread are scheduled. `Calibrator`: the one thread that
runs it is. No fairness makes a packet or a chunk arrive, a connection break or a pipeline
die. `NeverHeldUp` is stated with `ENABLED` and needs no fairness: the thread of a chunker in
the middle of `next()` can go on whatever the buffer and the pipelines do.

## 4. What is not as documented

Six runs end with a violation, each of a sentence in the repository (`findings` in
`PROJECT.json` quotes it): `Reconnected`, `SingleIntegration`, `PositionsRight` (with OpenMP),
`ClipsRemaining`, `MinimumReturned` and `StokesI`.

More differences showed while the code was read. Where a property of a passing run has to
take one of them into account, it is named:

- "Only process every Nth second" (`StreamChunker.cpp:86`): a packet that ran out of storage
  leaves chunks behind, and `mStartInterval` is set only at the end (136). `WholeSpaced`
  therefore speaks of packets that were filled.
- "[%s] Convergence after %d iterations" (`Calibrator.cpp:313`): a loop that breaks in its
  tenth cycle has `i == MAX_MAJOR_CYCLES` and counts as failed (327). `AppliedIfConverged`
  and `GivenUpWithReason` are stated of `major` accordingly.
- The mask of the upper limit is assigned over the mask of the lower one
  (`Flagger.cpp:138`), so that weak outliers are kept; and as its comparison is strict, channels
  that are equally strong are all thrown away. `KeptBelow` says so.
- `README.rst:187` and 204 call the option of the server `subbands`; the code reads
  `channelranges` (`StreamChunker.cpp:17`). With the documented file the text is empty, which is
  parsed to the range from 0 to 65535. Its width as 16 bits is 0, which passes the check, so that
  the chunk is sized for no channel and written past its end. `RangesAsWritten` says
  that this is the only range it happens to.
- A correlation whose place is on a line of the grid is added twice to the same cell, on two
  lines four times (`Imager.cpp:132-150`), so that it weighs more than its neighbours.
  `Splatted` therefore speaks of the centre of what is added and not of its sum.
- `StreamBlob.cpp:58` adds a channel to the numbers of a chunk "as the correlator removes the first",
  the server subtracts one from them in streams of 63 channels (`StreamChunker.cpp:113`, 122), and
  `README.rst` has channels 57-63 of such a stream at 72 and numbers from 0 to 63 at 396. These are not quite
  one numbering. `RawPlaced` is about the indices only; the project does not compare them with the
  frequencies and the numbers of the documentation.
- Images of a chunk are in files with "unique" names (`README.rst:334`); the name has the
  second of the chunk, which two chunks of a second share.
- The first packet of the emulator has a start time of zero (`StreamEmulator.cpp:74`).
- A sky map that is the same everywhere is divided by zero (`TiffStorage.cpp:51`); the CASA image
  written after it is not a number either. `SamePicture` leaves this case out.
- The comments call the sky map Stokes I (`Imager.cpp:67`, `CasaImageStorage.cpp:108`), and it is the last
  polarization (`StokesI`). `SamePicture` compares the two files with each other and not with
  what they should show.

## 5. Proofs

Eight modules hold theorems for every value of the constants. The only things assumed are the named
`ASSUME`s of the modules proved about, each of which TLC evaluates on the runs of that module: sizes
are natural numbers, markers differ from what they mark, the number of minor cycles is even, texts
are sequences of tokens, those of flagged antennas name antennas (`TextsAssumption`), and the array
fits on the grid (`PositionsAssumption`): `gridding()` does not check the cells it writes, so that
what it does with a larger array is undefined. Besides the theorems about liveness one has a
hypothesis of its own: `StrongestClipped` is about limits other than 0 deviations. With 0, which the
configuration may have, the limit is the median itself, which may be the least value although the
values differ; then all of them are clipped.

Liveness is proved where it needs no induction over time, from the fairness of the specification
and one hypothesis more: what enables the actions that are fair. The provers do not see through
`ENABLED`, so that `GuardsEnable` and `StepsEnable` say it of one action after the other: where
its guard holds, a step can be taken. They hold by the shape of the actions, each of which is a
guard and an assignment to every variable; no run checks them.

**`StreamChunkerProofs`** (`TypeCorrect`, `AlwaysFramed`, `SlotsOwned`, `CallsAreBounded`,
`OnlyCutOffsBlock`, `CutOffForGood`), for any number of streams, slots, ranges and packets. Neither
`Framed` nor `SlotOwnership` is inductive: that the next unit is the one `next()` expects needs to
know what is still on the wire, and that the handles of a chunker are still its own needs to know
where they are in `next()`. The invariant `IInv` has two halves. `Framing` says of one stream what
its wire, its reader and the sender owe each other (`FramedAt`, `InStep`), and is proved without the
store. `Storing` adds who holds which slot and what `memory` records, and uses only the types of
`Framing`. Splitting it keeps every step of a proof about one of them.

`CallsAreBounded` counts what a call of `next()` has left (`Left`): every step of the call makes it
less, and a step of anybody else leaves it alone, so that a call takes at most
`2 * NumRanges + 5` steps. This is the safety half of `PacketRead`. Where a call does wait, for
bytes, the last two theorems say what the run `StreamChunker_reconnect` shows of a small instance:
a new connection is kept waiting by a packet that was cut off and by nothing else
(`OnlyCutOffsBlock`), and then for ever (`CutOffForGood`). The first is an invariant because a
chunker begins to read only when there is something on the wire (`Reading`).

**`ChunkOfferProofs`** (`NeverHalf`, `OfferedInOrder`, `AlwaysSpaced`) adds to it what the
history of offers looks like from where the chunker is. `Recorded` is the three properties
themselves; `Placed` says that everything offered belongs to packets before the one in
hand, or was followed by one that is in time; `InHand` says what the held slots contain: in the
two loops the ranges they are numbered for (`Numbered`), and while the handles are destroyed
exactly the ranges not offered yet, all filled or all not (`LettingGo`). The invariant
`OfferInv` is `IInv` with these for every chunker; a step of one chunker leaves those of
the others alone because their slots are not its own, which is what `SlotOwnership` is for.

**`ImagingSystemProofs`** (`SystemIsServer`, `SystemTypeCorrect`, `AlwaysOnePlace`,
`AlwaysWholeImages`, `ImplementsDelivery`, `FetchedIsSettled`, `ChunksSettle`), for any number of
pipelines and deaths. `SystemStep`
shows that every step of the system is a step of `StreamChunker`, so that `OfferInv` is used
as it is. `SysInv` adds where chunks are. `Cargo(p)` is the chunk a pipeline has, wherever
it keeps it, so that most steps of a pipeline only move it within one place. `Known` says that
what is somewhere was offered: this is what makes `OnePlace` inductive, as a chunk that is
published was never offered (`Fresh`), and so is nowhere yet. `Apart` says that places are
different. The refinement needs nothing more: `Located` translates `SysInv` into the terms of
`ChunkStatus`, and one lemma per kind of step says which chunk it moves (`PublishOffers`,
`PollTakes`, `OutputImages`, `PipelineDrops`, `SlotRecycled`) or that it moves none
(`NothingMoves`).

`FetchedIsSettled` is the liveness of a pipeline. `Rank` numbers the stages; a fetched chunk stays
with its pipeline at its stage until the pipeline takes its next step (`HasKept`), which brings it
to a later one (`IterateFalls`) or ends its way (`OutputIsOver`, `CrashIsOver`), and of these stages
there are five, so that five applications of `WF` are enough. `ChunksSettle` says it in the terms of
`ChunkDelivery`, where the chunk may be with any pipeline. It asks for the fairness of all pipelines
under `[]`, which says no more than `FairSystemSpec`, as fairness is about what happens infinitely
often; the provers cannot move `[]` past `\A`.

**`UniboardPipelineProofs`** (`TypeCorrect`, `Pipelined`, `ModulesOwned`, `AloneIsRight`,
`ImagesInOrder`, `LoopRunsOut`, `NeverStuck`, `TurnsEnd`, `ChunksImaged`), for
any number of polarizations, with and without OpenMP, and whatever size the team has.
`OwnVisibilities` speaks of images that were written; what makes it inductive is `Own`:
wherever a polarization is, what it will read next is tagged with its chunk and itself. That
another thread does not replace it follows from `Order`: of the polarizations of one thread,
all before one that has started are done, so that a polarization that can move shares its
thread, and hence its instances, with none that is under way (`Alone`). `Quotient` is the
arithmetic of the static schedule: a polarization is dealt to a thread of the team, so
without OpenMP to thread 0. `AloneIsRight` follows from `Lone`: with a team of one, the
static matrix has both halves of the polarization that is in `radec2itrf()`.

That the loop ends has three parts. A polarization has at most 14 steps left and every one of them
makes it fewer (`LoopRunsOut`); on every thread one that is not done has its turn (`NeverStuck`);
and one that has its turn takes its steps if its thread runs (`TurnsEnd`), as `Turn` is not lost
before it is done. That all of them are done then takes an induction over the polarizations of a
thread, which is out of reach; `ChunksImaged`, that every chunk leads to an image, is therefore
stated for `NumPols = 2`, which is what the build has (`Constants.h.in:12`), and for every team.
`ImagesInOrder` is the safety that goes with it: the images are those of the chunks, one each, in
order.

**`CalibratorProofs`** has three parts. `AlwaysAveraged`, `OnlyAppliedIfConverged` and
`OnlyGivenUpWithReason` are about the calibration, for any number of runs and major cycles and
any even number of minor cycles. `Averaging` says what an even cycle finds in `tmp`: the
estimate of the odd cycle before it. `Convergence` follows `mHasConverged` and the last residue
through the two calibrations of a run. That the number of minor cycles is even is needed: with
an odd one `gainSolv()` would end on an estimate that is not averaged. The source has 30.

`AlwaysRanked`, `AlwaysAffordable`, `ReturnsVertex`, `BestIsKept` and `ShrinkAlone` are about the
search, in any number of dimensions and for an arbitrary target. `Simplex_minimum` shows that a search
does not always return its minimum; `ReturnsVertex` says what it returns instead: a vertex,
or the point of an expansion in vain, which is worse than the best vertex. The invariant
`SearchInv` gives every vertex an evaluation of its own, which bounds their number by the
evaluations that were made, and ranks the two arrays alike. That an iteration which replaces
only the worst vertex makes no rank worse (`ShrinkAlone`) is a pigeonhole argument: the sorted
values are a rearrangement, and if the value at rank *i* had fallen, *i* places would have
to hold values of fewer vertices.

`RunsAreCalibrations`, `RunTypeCorrect`, `RunKeepsBest`, `RunsEnd` and `SearchIsBounded` compose the
two: with its search a calibrator still is a `Calibration`, as the search is a stutter of it, and
the search keeps `SearchInv` from run to run, as every run begins a new one. `RunsEnd` is the safety
half of `Decided`: with every step of a run, the pair of what the calibrations have left (`RunLeft`)
and what the search has left (`SearchLeft`) becomes smaller in the order of pairs, and both are
bounded. `SearchIsBounded` adds up what `AlwaysAffordable` says of one iteration.

**`AntennaFlagsProofs`** (`TypeCorrect`, `MasksAlwaysAgree`, `AlwaysSqueezed`, `AlwaysPutBack`,
`DoublesAreOutliers`, `NothingOutside`), for any number of antennas and runs, and whatever the
statistics are: the theorems hold for any set of antennas the loops may find. `FlagInv` follows the
three loops with the length of the list and the mask; the lemmas about `Place` say that the antennas
that are left have the ranks from 0 to one less than their number, each once, which is why the
squeezed matrix has no hole. With duplicates, which `AntennaFlags_clip` shows there may be, the matrices
are too small. `Fitting` says what that leads to in the default build: a run that got as far as to
calibrate had place for all antennas that are left, as it would have ended on the assertion
otherwise. In a release build `Squeezed` and `PutBack` are of lists without duplicates (`Sound`); there a
cell may have been overwritten with the pair of another, which is why `IndexOfFitting`, that two
places inside a matrix have different memory, is needed before `LastIsWritten` can say which
pair a cell holds. `DoublesAreOutliers` says how
they come about: if the configuration has none, only from antennas the sigma clip finds although
they were configured or dead. Up to the clip the list has nobody twice and only such antennas
(`OnceUntilClip`), and what is twice in two lists that have nobody twice is in both (`ConcatTwice`).
Where no configured or dead antenna is an outlier, no build writes outside (`NothingOutside`).

**`VisibilitiesProofs`** (`RangesParsed` and the lemmas `SkyImageProofs` uses) is about the way of
a visibility to the correlation matrix, for any number of antennas, channels and packets, any
texts and any magnitudes.

- *Folds.* The parser and the sums are folds of the community modules, which
  define them by recursion over sets. The prover cannot take an induction theorem
  whose parameter is a predicate, so that induction is stated of sets instead: a family of
  subsets that has the empty set and is closed under adding the picked element has them all
  (`SubsetInduction`). From it follow that such a recursion has a solution and only one
  (`RecursionExists`, `RecursionUnique`), and that a sum does not depend on the order
  (`SumsAnyOrder`).
- *Text.* `RangesParsed`: after the first three tokens of range *i* the parser has the ranges
  before it complete and the end of range *i* as the number at hand (`Reached`), so that the text of any
  list of ranges of 16-bit numbers is parsed to that list.
- *Places.* `PathInv` is the inductive invariant: one conjunct for what each stage finds. `Cut` and
  `Deserialised` say of every place of the chunk and of the blob that it holds the visibility that
  belongs there if and only if its channel was sent (`Sought`, `Sent`), which is more than
  `RawPlaced`, as it is also about ranges that are only partly in the stream. That the index
  arithmetic of the emulator, the server and the adapter unpacks what it packed is `DivOf`, the
  uniqueness of quotient and remainder, twice. `Averaged` says which packet and polarization
  the means are of; `MatrixOwn` then follows from the triangular numbers: a baseline lies in one
  row only (`OwnBaseline`), and every baseline in some row (`EveryBaseline`).
- *Clip.* `LimitPasses`: some value is not above the median (`MedianLies`), and so below a limit that is
  above the median; and the variance, a sum of squares,
  is zero only when all values are the same (`VarianceZero`).

**`SkyImageProofs`** states the results as theorems of the whole system. `Configured`, `Placed`,
`Owned` and `StrongestClipped` follow from `PathInv`, which the steps of the Imager and the
storages leave alone. Two more invariants are needed:

- `GridInv` (`PictureIsReal`, `CentresKept`). `RealImage` is about the spectrum only. Before it,
  `Gridded` says what is in every cell, and `Laid` that the matrix is the one of the baselines. What a
  pair of antennas adds to a cell, the pair with its antennas swapped adds, conjugated, to the
  opposite cell (`TermMirrored`): its place is opposite (`PlacesInside`), the cells around it are
  opposite (`NearFarSwap`), with the same shares (`ShareMirrored`). That one row and one column of
  the grid have no opposite does no harm, as nothing reaches them (`WeightType`). `Arrange` takes
  opposite cells to opposite cells of the spectrum, counted from its zero (`TakenMirrored`).
  `CentresKept` adds up the shares of a place over at most four cells (`TotalOfFour`).
- `FilesInv` (`FilesAgree`) says in which order the brightness of the pixels is in `sky` and in
  both files: normalising the shared sky map in place keeps the order (`NormalisedOrder`), so
  that it does not matter who writes first. The gamma correction and the rounding keep it too, but
  not strictly: a brighter pixel reaches every level a darker one reaches (`ByteOrder`), the brightest
  reaches them all and the darkest none (`ByteEnds`).

Model-checked only: `PacketRead`, `QueueDrains` and `Decided`, whose number of steps depends on the
constants, so that they need induction over it; and `NeverHeldUp`, which is itself about `ENABLED`.
What is proved of it is the lemma `NobodyHeldUp`: the guards of the steps of `next()` leave no gap,
so that it follows if each step can be taken where its guard holds. That weak fairness of the
receivers, of the server and of the calibrator carries the bounds of `CallsAreBounded` and `RunsEnd`
to an end is what TLC checks. Every other property of a passing run is stated by a theorem. Of the
violations, which TLC finds, theorems generalise three: `CutOffForGood` for `Reconnected`,
`DoublesAreOutliers` for `ClipsRemaining` and `ReturnsVertex` for `MinimumReturned`.

## 6. Not modelled

- **Numerics.** The linear algebra of the calibration, the Fourier transform and the
  astronomical conversions are functions of their arguments. The residues, evaluations and
  pictures they give are arbitrary in the models. Which sources are up is astronomy too; the
  calibrator of the models always has one, as Cassiopeia A never sets at the latitude of the array.
- **Antenna positions** are a table read once. `SkyImage` takes them as a constant.
- **File names, colours and coordinates** of the images, and the totals and time stamps the
  emulator prints, change no state that anything else reads.
- **Texts that are not a list.** A text of flagged antennas that begins with a comma flags
  antenna -1 and writes outside the mask; `TextsAssumption` leaves it out. A character
  that is neither digit, comma nor dash ends the program.
- **`WriteStats()`** is called by no program. Its lock file would be given up before it is
  unlocked (hazards).
- **Logger, start-up, tests, scripts and build files** are wording and set-up. That
  `qFatal()` ends a process is `Crash` of `ImagingSystem`.

Possible next steps: images named by the second of their chunk, written by several
pipelines of `ImagingSystem`; and the time stamps of the emulator, composed with the interval of
the chunker.
