--------------------------- MODULE UniboardPipeline ---------------------------
(***************************************************************************)
(* One iteration of the pipeline: UniboardPipeline::run() flags and        *)
(* calibrates every polarization, with OpenMP on a thread each, then makes *)
(* one image of all of them and writes it.                                 *)
(*                                                                         *)
(* The threads share the blob, of which each polarization has its part,    *)
(* the module instances, of which each thread has its own, and the static  *)
(* matrix of radec2itrf(), of which there is one.                          *)
(***************************************************************************)
EXTENDS Naturals, Sequences

CONSTANTS
  NumPols,    \* NUM_USED_POLARIZATIONS
  OpenMP,     \* whether the build defines ENABLE_OPENMP
  MaxChunks,  \* bound: chunks the pipeline gets
  Nothing     \* a blob or a module that holds no visibilities yet

ASSUME PipelineAssumption ==
  /\ NumPols \in Nat \ {0}
  /\ OpenMP \in BOOLEAN
  /\ MaxChunks \in Nat

Pols == 0..(NumPols - 1)

\* init() ignores the attribute "threads" of the configuration.
Threads == IF OpenMP THEN NumPols ELSE 1
Instances == 0..(Threads - 1)

VARIABLES
  phase,   \* where run() is: "idle", "parallel", "output"
  chunk,   \* the number of the chunk in the blob
  team,    \* the number of threads OpenMP gives the loop
  pc,      \* where the iteration of each polarization is
  round,   \* which matrix of radec2itrf() it is working with
  result,  \* mResult of each Flagger
  norm,    \* mNormalizedData of each Calibrator
  clean,   \* mCleanData of the blob, by polarization
  tmp,     \* tmp_mat of radec2itrf(), in two halves
  right,   \* whether the positions each polarization computed are right
  images   \* history: the images written

vars == <<phase, chunk, team, pc, round, result, norm, clean, tmp, right, images>>

-----------------------------------------------------------------------------
(***************************************************************************)
(* Visibilities are known by the chunk and the polarization they come from *)
(* and by how far they were processed.                                     *)
(***************************************************************************)
Visibilities ==
  [chunk : 1..MaxChunks, pol : Pols, done : {"flagged", "calibrated"}]

ASSUME NothingAssumption == Nothing \notin Visibilities

\* The rotations of radec2itrf(), in order: from B1950 to J2000, to the date
\* of the chunk, to the sidereal time.
Rounds == 1..3

Points == {"start", "acm", "prepare", "lower", "upper", "use", "solve",
           "store", "done"}

Init ==
  /\ phase = "idle"
  /\ chunk = 0
  /\ team = 1
  /\ pc = [p \in Pols |-> "done"]
  /\ round = [p \in Pols |-> 1]
  /\ result = [i \in Instances |-> Nothing]
  /\ norm = [i \in Instances |-> Nothing]
  /\ clean = [p \in Pols |-> Nothing]
  /\ tmp = [lower |-> 0, upper |-> 0]
  /\ right = [p \in Pols |-> TRUE]
  /\ images = <<>>

(***************************************************************************)
(* A chunk arrives in a blob that was reset, and the loop is entered.      *)
(***************************************************************************)
Begin(n) ==
  /\ phase = "idle"
  /\ chunk < MaxChunks
  /\ phase' = "parallel"
  /\ chunk' = chunk + 1
  /\ team' = n
  /\ pc' = [p \in Pols |-> "start"]
  /\ round' = [p \in Pols |-> 1]
  /\ clean' = [p \in Pols |-> Nothing]
  /\ right' = [p \in Pols |-> TRUE]
  /\ UNCHANGED <<result, norm, tmp, images>>

(***************************************************************************)
(* The static schedule of OpenMP deals the polarizations out to the team;  *)
(* a thread runs its polarizations one after the other.                    *)
(***************************************************************************)
Thread(p) == (p * team) \div NumPols

\* Mutant: a thread waits for all its polarizations, also for the next one.
TurnAfterAll(p) == \A q \in Pols \ {p} : Thread(q) = Thread(p) => pc[q] = "done"

Turn(p) == \A q \in Pols : q < p /\ Thread(q) = Thread(p) => pc[q] = "done"

\* Mutant: tid is not set from omp_get_thread_num().
InstanceZero(p) == 0

Instance(p) == IF OpenMP THEN Thread(p) ELSE 0

At(p, point) == phase = "parallel" /\ Turn(p) /\ pc[p] = point
Goto(p, point) == pc' = [pc EXCEPT ![p] = point]

-----------------------------------------------------------------------------
(***************************************************************************)
(* Flagger::run(): the visibilities are averaged into mResult, and mResult *)
(* is arranged into the array correlation matrix of the blob.              *)
(***************************************************************************)
Flag(p) ==
  /\ At(p, "start")
  /\ result' = [result EXCEPT
       ![Instance(p)] = [chunk |-> chunk, pol |-> p, done |-> "flagged"]]
  /\ Goto(p, "acm")
  /\ UNCHANGED <<phase, chunk, team, round, norm, clean, tmp, right, images>>

StoreAcm(p) ==
  /\ At(p, "acm")
  /\ clean' = [clean EXCEPT ![p] = result[Instance(p)]]
  /\ Goto(p, "prepare")
  /\ UNCHANGED <<phase, chunk, team, round, result, norm, tmp, right, images>>

(***************************************************************************)
(* Calibrator::run(): the matrix is taken from the blob ...                *)
(***************************************************************************)
Prepare(p) ==
  /\ At(p, "prepare")
  /\ norm' = [norm EXCEPT ![Instance(p)] = clean[p]]
  /\ Goto(p, "lower")
  /\ UNCHANGED <<phase, chunk, team, round, result, clean, tmp, right, images>>

(***************************************************************************)
(* ... radec2itrf() puts one rotation after the other into tmp_mat and     *)
(* multiplies with what it finds there.  Assigning a matrix is not atomic: *)
(* its two halves stand for its nine numbers ...                           *)
(***************************************************************************)
WriteLower(p) ==
  /\ At(p, "lower")
  /\ tmp' = [tmp EXCEPT !.lower = round[p]]
  /\ Goto(p, "upper")
  /\ UNCHANGED <<phase, chunk, team, round, result, norm, clean, right, images>>

\* Mutant: the rotation of the sidereal time is not put into tmp_mat.
WriteUpperButLast(p) ==
  /\ At(p, "upper")
  /\ tmp' = IF round[p] = 3 THEN tmp ELSE [tmp EXCEPT !.upper = round[p]]
  /\ Goto(p, "use")
  /\ UNCHANGED <<phase, chunk, team, round, result, norm, clean, right, images>>

WriteUpper(p) ==
  /\ At(p, "upper")
  /\ tmp' = [tmp EXCEPT !.upper = round[p]]
  /\ Goto(p, "use")
  /\ UNCHANGED <<phase, chunk, team, round, result, norm, clean, right, images>>

\* Mutant: the rounds are counted up to and including one too many.
RotateOnceMore(p) ==
  /\ At(p, "use")
  /\ right' = [right EXCEPT
       ![p] = @ /\ tmp = [lower |-> round[p], upper |-> round[p]]]
  /\ IF round[p] > 3
     THEN Goto(p, "solve") /\ round' = round
     ELSE Goto(p, "lower") /\ round' = [round EXCEPT ![p] = @ + 1]
  /\ UNCHANGED <<phase, chunk, team, result, norm, clean, tmp, images>>

Rotate(p) ==
  /\ At(p, "use")
  /\ right' = [right EXCEPT
       ![p] = @ /\ tmp = [lower |-> round[p], upper |-> round[p]]]
  /\ IF round[p] = 3
     THEN Goto(p, "solve") /\ round' = round
     ELSE Goto(p, "lower") /\ round' = [round EXCEPT ![p] = @ + 1]
  /\ UNCHANGED <<phase, chunk, team, result, norm, clean, tmp, images>>

(***************************************************************************)
(* ... the gains are solved for, which ends the call when the first        *)
(* calibration does not converge, and the calibrated matrix is stored in   *)
(* the blob.                                                               *)
(***************************************************************************)
GiveUp(p) ==
  /\ At(p, "solve")
  /\ Goto(p, "done")
  /\ UNCHANGED <<phase, chunk, team, round, result, norm, clean, tmp, right, images>>

Solve(p) ==
  /\ At(p, "solve")
  /\ norm' = [norm EXCEPT ![Instance(p)].done = "calibrated"]
  /\ Goto(p, "store")
  /\ UNCHANGED <<phase, chunk, team, round, result, clean, tmp, right, images>>

Reconstruct(p) ==
  /\ At(p, "store")
  /\ clean' = [clean EXCEPT ![p] = norm[Instance(p)]]
  /\ Goto(p, "done")
  /\ UNCHANGED <<phase, chunk, team, round, result, norm, tmp, right, images>>

-----------------------------------------------------------------------------
\* Mutant: "nowait", the loop has no barrier at its end.
JoinedAny == \E p \in Pols : pc[p] = "done"

(***************************************************************************)
(* The barrier at the end of the loop, the image, and dataOutput().        *)
(***************************************************************************)
Joined == \A p \in Pols : pc[p] = "done"

Image ==
  /\ phase = "parallel"
  /\ Joined
  /\ phase' = "output"
  /\ images' = Append(images,
       [of |-> chunk, shows |-> clean, right |-> \A p \in Pols : right[p]])
  /\ UNCHANGED <<chunk, team, pc, round, result, norm, clean, tmp, right>>

DataOutput ==
  /\ phase = "output"
  /\ phase' = "idle"
  /\ UNCHANGED <<chunk, team, pc, round, result, norm, clean, tmp, right, images>>

Polarization(p) ==
  \/ Flag(p) \/ StoreAcm(p)
  \/ Prepare(p)
  \/ WriteLower(p) \/ WriteUpper(p) \/ Rotate(p)
  \/ GiveUp(p) \/ Solve(p) \/ Reconstruct(p)

Next ==
  \/ \E n \in 1..Threads : Begin(n)
  \/ \E p \in Pols : Polarization(p)
  \/ Image
  \/ DataOutput

(***************************************************************************)
(* Fairness: every thread of the team runs, and so does the main thread    *)
(* once the loop has been left.  Nothing makes another chunk arrive.       *)
(***************************************************************************)
Spec == Init /\ [][Next]_vars
RunsOn(p) == WF_vars(Polarization(p))
FairSpec ==
  /\ Spec
  /\ \A p \in Pols : RunsOn(p)
  /\ WF_vars(Image)
  /\ WF_vars(DataOutput)

-----------------------------------------------------------------------------
TypeInv ==
  /\ phase \in {"idle", "parallel", "output"}
  /\ chunk \in 0..MaxChunks
  /\ team \in 1..Threads
  /\ pc \in [Pols -> Points]
  /\ round \in [Pols -> Rounds]
  /\ result \in [Instances -> Visibilities \cup {Nothing}]
  /\ norm \in [Instances -> Visibilities \cup {Nothing}]
  /\ clean \in [Pols -> Visibilities \cup {Nothing}]
  /\ tmp \in [lower : {0} \cup Rounds, upper : {0} \cup Rounds]
  /\ right \in [Pols -> BOOLEAN]
  /\ images \in Seq([of : 1..MaxChunks, right : BOOLEAN,
                     shows : [Pols -> Visibilities \cup {Nothing}]])

(***************************************************************************)
(* OwnVisibilities: every image shows, for every polarization, the         *)
(* visibilities of that polarization of its own chunk, although the loop   *)
(* runs on several threads and the modules keep their matrices from one    *)
(* run to the next (UniboardPipeline.cpp:55-72).                           *)
(***************************************************************************)
OwnVisibilities ==
  \A i \in 1..Len(images) : \A p \in Pols :
    LET seen == images[i].shows[p]
    IN seen # Nothing /\ seen.chunk = images[i].of /\ seen.pol = p

(***************************************************************************)
(* PrivateModules: two polarizations that are under way at the same time   *)
(* never use the same Flagger and Calibrator (UniboardPipeline.cpp:57-66). *)
(***************************************************************************)
Underway(p) == phase = "parallel" /\ pc[p] \notin {"start", "done"}
PrivateModules ==
  \A p, q \in Pols : Underway(p) /\ Underway(q) /\ p # q => Instance(p) # Instance(q)

(***************************************************************************)
(* EveryChunkImaged: a chunk the loop was entered with leads to an image   *)
(* that is written, also when its polarizations do not converge            *)
(* (UniboardPipeline.cpp:46-83).                                           *)
(***************************************************************************)
EveryChunkImaged == phase = "parallel" ~> (phase = "idle" /\ Len(images) = chunk)

(***************************************************************************)
(* RightAlone: one thread computes the source positions with the rotations *)
(* radec2itrf() put into its matrix itself, whatever earlier polarizations *)
(* and earlier teams left in it (Utils.h:268-299).                         *)
(***************************************************************************)
RightAlone == phase = "output" /\ team = 1 => images[Len(images)].right

(***************************************************************************)
(* PositionsRight: so do the threads of a team.  "Channels may be flagged  *)
(* and calibrated concurrently" (README.rst:310), but the code does not    *)
(* keep this.                                                              *)
(***************************************************************************)
PositionsRight == \A i \in 1..Len(images) : images[i].right

=============================================================================
