------------------------ MODULE UniboardPipelineProofs ------------------------
(***************************************************************************)
(* Proofs about UniboardPipeline, for every number of polarizations, with  *)
(* and without OpenMP, and for every size of the team.                     *)
(***************************************************************************)
EXTENDS UniboardPipeline, Integers, WellFoundedInduction, TLAPS

(***************************************************************************)
(* The polarizations of one thread are run in order.                       *)
(***************************************************************************)
Order ==
  phase = "parallel" =>
    \A p, q \in Pols :
      p < q /\ Thread(p) = Thread(q) /\ pc[q] # "start" => pc[p] = "done"

(***************************************************************************)
(* What a polarization relies on, wherever it is, is its own.              *)
(***************************************************************************)
Tagged(v, p) == v \in Visibilities /\ v.chunk = chunk /\ v.pol = p

OwnAt(p) ==
  /\ pc[p] = "acm" => Tagged(result[Instance(p)], p)
  /\ pc[p] \notin {"start", "acm"} => Tagged(clean[p], p)
  /\ pc[p] \in {"lower", "upper", "use", "solve", "store"} =>
       Tagged(norm[Instance(p)], p)

Own == phase = "parallel" => \A p \in Pols : OwnAt(p)

\* Once the loop was entered, there is a chunk in the blob.
Begun == phase # "idle" => chunk # 0

IInv == TypeInv /\ Begun /\ Order /\ Own /\ OwnVisibilities

-----------------------------------------------------------------------------
(***************************************************************************)
(* The schedule gives every polarization a thread of the team, and with    *)
(* one thread there is only thread 0 (UniboardPipeline.cpp:18-37).         *)
(***************************************************************************)
LEMMA Quotient ==
  ASSUME NEW p \in Nat, NEW t \in Nat, NEW n \in Nat \ {0}, p < n, t > 0
  PROVE  (p * t) \div n \in 0..(t - 1)
<1>1. p * t \in Nat /\ p * t < n * t
  BY Z3T(30)
<1>2. (p * t) \div n \in Nat /\ n * ((p * t) \div n) <= p * t
  BY <1>1, Z3T(30)
<1>3. n * ((p * t) \div n) < n * t
  BY <1>1, <1>2, Z3T(30)
<1>4. (p * t) \div n < t
  BY <1>2, <1>3, Z3T(30)
<1> QED
  BY <1>2, <1>4

LEMMA InstanceExists ==
  ASSUME TypeInv, NEW p \in Pols
  PROVE  /\ Instance(p) \in Instances
         /\ ~OpenMP => Thread(p) = 0
<1> USE PipelineAssumption
<1>1. team \in Nat /\ team > 0 /\ team <= Threads /\ Threads \in Nat \ {0}
  BY DEF TypeInv, Threads
<1>2. Thread(p) \in 0..(team - 1)
  BY <1>1, Quotient DEF Thread, Pols
<1> QED
  BY <1>1, <1>2 DEF Instance, Instances, Threads

(***************************************************************************)
(* A polarization that can move shares its modules with none that is       *)
(* under way (UniboardPipeline.cpp:57-66).                                 *)
(***************************************************************************)
LEMMA Alone ==
  ASSUME TypeInv, Order,
         NEW p \in Pols, Turn(p), phase = "parallel", pc[p] # "done",
         NEW q \in Pols, q # p, pc[q] \notin {"start", "done"}
  PROVE  Instance(p) # Instance(q)
<1>1. p \in Int /\ q \in Int
  BY PipelineAssumption DEF Pols
<1>2. Thread(p) # Thread(q)
  <2>1. CASE p < q
    BY <2>1 DEF Order
  <2>2. CASE q < p
    BY <2>2 DEF Turn
  <2> QED
    BY <1>1, <2>1, <2>2
<1> QED
  BY <1>2, InstanceExists DEF Instance

(***************************************************************************)
(* The invariant holds in the beginning (UniboardPipeline.cpp:18-43).      *)
(***************************************************************************)
LEMMA InitIInv == Init => IInv
<1> SUFFICES ASSUME Init PROVE IInv
  OBVIOUS
<1>1. TypeInv
  BY PipelineAssumption DEF Init, TypeInv, Threads, Rounds, Points
<1> QED
  BY <1>1 DEF Init, IInv, Begun, Order, Own, OwnVisibilities

-----------------------------------------------------------------------------
(***************************************************************************)
(* What a step of one polarization leaves alone: what belongs to the       *)
(* others, except the static matrix of radec2itrf()                        *)
(* (UniboardPipeline.cpp:55-68).                                           *)
(***************************************************************************)
LEMMA Frame ==
  ASSUME TypeInv, NEW p \in Pols, Polarization(p)
  PROVE  /\ phase = "parallel" /\ phase' = "parallel"
         /\ chunk' = chunk /\ team' = team /\ images' = images
         /\ Turn(p) /\ pc[p] # "done"
         /\ pc'[p] # "start"
         /\ \A q \in Pols \ {p} : pc'[q] = pc[q] /\ clean'[q] = clean[q]
         /\ \A i \in Instances \ {Instance(p)} :
              result'[i] = result[i] /\ norm'[i] = norm[i]
<1> USE DEF TypeInv, At, Goto
<1>1. CASE Flag(p)       BY <1>1 DEF Flag
<1>2. CASE StoreAcm(p)   BY <1>2 DEF StoreAcm
<1>3. CASE Prepare(p)    BY <1>3 DEF Prepare
<1>4. CASE WriteLower(p) BY <1>4 DEF WriteLower
<1>5. CASE WriteUpper(p) BY <1>5 DEF WriteUpper
<1>6. CASE Rotate(p)     BY <1>6 DEF Rotate
<1>7. CASE GiveUp(p)     BY <1>7 DEF GiveUp
<1>8. CASE Solve(p)      BY <1>8 DEF Solve
<1>9. CASE Reconstruct(p) BY <1>9 DEF Reconstruct
<1> QED
  BY <1>1, <1>2, <1>3, <1>4, <1>5, <1>6, <1>7, <1>8, <1>9 DEF Polarization

(***************************************************************************)
(* Every step of a polarization keeps the types: solving for the gains     *)
(* changes visibilities only because there are some in the Calibrator      *)
(* (UniboardPipeline.cpp:63-66).                                           *)
(***************************************************************************)
LEMMA TypePolarization ==
  ASSUME IInv, NEW p \in Pols, Polarization(p)
  PROVE  TypeInv'
<1>0. TypeInv /\ Begun /\ Own /\ phase = "parallel"
  BY Frame DEF IInv
<1>i. Instance(p) \in Instances
  BY <1>0, InstanceExists
<1> USE <1>0, <1>i DEF TypeInv, At, Goto, Points
<1>1. CASE Flag(p)
  <2>1. chunk \in 1..MaxChunks
    BY PipelineAssumption DEF Begun
  <2>2. [chunk |-> chunk, pol |-> p, done |-> "flagged"] \in Visibilities
    BY <2>1 DEF Visibilities
  <2> QED
    BY <1>1, <2>2 DEF Flag
<1>2. CASE StoreAcm(p)   BY <1>2 DEF StoreAcm
<1>3. CASE Prepare(p)    BY <1>3 DEF Prepare
<1>4. CASE WriteLower(p) BY <1>4 DEF WriteLower
<1>5. CASE WriteUpper(p) BY <1>5 DEF WriteUpper
<1>6. CASE Rotate(p)
  <2>1. right' \in [Pols -> BOOLEAN]
    BY <1>6 DEF Rotate
  <2>2. pc' \in [Pols -> Points]
    BY <1>6 DEF Rotate
  <2>3. round' \in [Pols -> Rounds]
    <3>1. round[p] # 3 => round[p] + 1 \in Rounds
      BY DEF Rounds
    <3> QED
      BY <1>6, <3>1 DEF Rotate
  <2> QED
    BY <1>6, <2>1, <2>2, <2>3 DEF Rotate
<1>7. CASE GiveUp(p)     BY <1>7 DEF GiveUp
<1>8. CASE Solve(p)
  <2>1. norm[Instance(p)] \in Visibilities
    BY <1>8 DEF Solve, Own, OwnAt, Tagged
  <2>2. [norm[Instance(p)] EXCEPT !.done = "calibrated"] \in Visibilities
    BY <2>1 DEF Visibilities
  <2>3. norm' \in [Instances -> Visibilities \cup {Nothing}]
    BY <1>8, <2>2 DEF Solve
  <2> QED
    BY <1>8, <2>3 DEF Solve
<1>9. CASE Reconstruct(p) BY <1>9 DEF Reconstruct
<1> QED
  BY <1>1, <1>2, <1>3, <1>4, <1>5, <1>6, <1>7, <1>8, <1>9 DEF Polarization

(***************************************************************************)
(* A polarization that moves has no earlier one of its thread before it    *)
(* (UniboardPipeline.cpp:55-60).                                           *)
(***************************************************************************)
LEMMA OrderPolarization ==
  ASSUME TypeInv, Order, NEW p \in Pols, Polarization(p)
  PROVE  Order'
<1>1. phase = "parallel" /\ team' = team /\ Turn(p) /\ pc[p] # "done"
  BY Frame
<1>2. \A q \in Pols \ {p} : pc'[q] = pc[q]
  BY Frame
<1> SUFFICES ASSUME NEW q \in Pols, NEW r \in Pols,
                    q < r, Thread(q)' = Thread(r)', pc'[r] # "start"
             PROVE  pc'[q] = "done"
  BY DEF Order
<1>3. Thread(q) = Thread(r)
  BY <1>1 DEF Thread
<1>4. q \in Int /\ r \in Int /\ q # r
  BY PipelineAssumption DEF Pols
<1>5. CASE r = p
  BY <1>1, <1>2, <1>3, <1>4, <1>5 DEF Turn
<1>6. CASE q = p /\ r # p
  BY <1>1, <1>2, <1>3, <1>6 DEF Order
<1>7. CASE q # p /\ r # p
  BY <1>1, <1>2, <1>3, <1>7 DEF Order
<1> QED
  BY <1>5, <1>6, <1>7

(***************************************************************************)
(* A polarization takes its own visibilities from one point to the next    *)
(* (Flagger.cpp:27-53, Calibrator.cpp:56-109), and no other polarization   *)
(* puts its own in their place.                                            *)
(***************************************************************************)
LEMMA OwnPolarization ==
  ASSUME IInv, NEW p \in Pols, Polarization(p)
  PROVE  Own'
<1>0. /\ TypeInv /\ Begun /\ Order /\ Own
      /\ phase = "parallel" /\ chunk' = chunk /\ team' = team
      /\ Turn(p) /\ pc[p] # "done"
  BY Frame DEF IInv
<1>1. \A q \in Pols : Instance(q) \in Instances /\ Instance(q)' = Instance(q)
  BY <1>0, InstanceExists DEF Instance, Thread
<1>2. OwnAt(p)
  BY <1>0 DEF Own
<1>3. OwnAt(p)'
  <2> USE <1>0, <1>1, <1>2 DEF At, Goto, TypeInv, OwnAt
  <2>1. CASE Flag(p)
    <3>1. chunk \in 1..MaxChunks
      BY PipelineAssumption DEF Begun
    <3>2. Tagged([chunk |-> chunk, pol |-> p, done |-> "flagged"], p)
      BY <3>1 DEF Tagged, Visibilities
    <3>3. pc'[p] = "acm" /\ Tagged(result'[Instance(p)], p)
      BY <2>1, <3>2 DEF Flag
    <3> QED
      BY <3>3 DEF Tagged
  <2>2. CASE StoreAcm(p)
    <3>1. Tagged(clean'[p], p) /\ pc'[p] = "prepare"
      BY <2>2 DEF StoreAcm
    <3> QED
      BY <3>1 DEF Tagged
  <2>3. CASE Prepare(p)
    <3>1. /\ Tagged(norm'[Instance(p)], p) /\ Tagged(clean'[p], p)
          /\ pc'[p] = "lower"
      BY <2>3 DEF Prepare
    <3> QED
      BY <3>1 DEF Tagged
  <2>4. CASE WriteLower(p)
    <3>1. /\ Tagged(norm'[Instance(p)], p) /\ Tagged(clean'[p], p)
          /\ pc'[p] = "upper"
      BY <2>4 DEF WriteLower
    <3> QED
      BY <3>1 DEF Tagged
  <2>5. CASE WriteUpper(p)
    <3>1. /\ Tagged(norm'[Instance(p)], p) /\ Tagged(clean'[p], p)
          /\ pc'[p] = "use"
      BY <2>5 DEF WriteUpper
    <3> QED
      BY <3>1 DEF Tagged
  <2>6. CASE Rotate(p)
    <3>1. /\ Tagged(norm'[Instance(p)], p) /\ Tagged(clean'[p], p)
          /\ pc'[p] \in {"lower", "solve"}
      BY <2>6 DEF Rotate
    <3> QED
      BY <3>1 DEF Tagged
  <2>7. CASE GiveUp(p)
    <3>1. Tagged(clean'[p], p) /\ pc'[p] = "done"
      BY <2>7 DEF GiveUp
    <3> QED
      BY <3>1 DEF Tagged
  <2>8. CASE Solve(p)
    <3>1. Tagged(clean'[p], p) /\ pc'[p] = "store" /\ Tagged(norm[Instance(p)], p)
      BY <2>8 DEF Solve
    <3>2. norm'[Instance(p)] = [norm[Instance(p)] EXCEPT !.done = "calibrated"]
      BY <2>8 DEF Solve
    <3>3. Tagged(norm'[Instance(p)], p)
      BY <3>1, <3>2 DEF Tagged, Visibilities
    <3> QED
      BY <3>1, <3>3 DEF Tagged
  <2>9. CASE Reconstruct(p)
    <3>1. Tagged(clean'[p], p) /\ pc'[p] = "done"
      BY <2>9 DEF Reconstruct
    <3> QED
      BY <3>1 DEF Tagged
  <2> QED
    BY <2>1, <2>2, <2>3, <2>4, <2>5, <2>6, <2>7, <2>8, <2>9 DEF Polarization
<1>4. ASSUME NEW q \in Pols, q # p PROVE OwnAt(q)'
  <2>1. OwnAt(q) /\ pc'[q] = pc[q] /\ clean'[q] = clean[q]
    BY <1>0, <1>4, Frame DEF Own
  <2>2. CASE pc[q] \in {"start", "done"}
    BY <1>0, <2>1, <2>2 DEF OwnAt, Tagged
  <2>3. CASE pc[q] \notin {"start", "done"}
    <3>1. Instance(q) # Instance(p)
      BY <1>0, <1>4, <2>3, Alone
    <3>2. result'[Instance(q)] = result[Instance(q)] /\ norm'[Instance(q)] = norm[Instance(q)]
      BY <1>0, <1>1, <3>1, Frame
    <3> QED
      BY <1>0, <1>1, <2>1, <3>2 DEF OwnAt, Tagged
  <2> QED
    BY <2>2, <2>3
<1> QED
  BY <1>3, <1>4 DEF Own

-----------------------------------------------------------------------------
(***************************************************************************)
(* Entering the loop discards what the polarizations relied on             *)
(* (UniboardPipeline.cpp:46-55).                                           *)
(***************************************************************************)
LEMMA BeginStep ==
  ASSUME IInv, NEW n \in 1..Threads, Begin(n)
  PROVE  IInv'
<1>1. TypeInv'
  BY PipelineAssumption DEF IInv, Begin, TypeInv, Points, Rounds
<1>2. Begun'
  BY DEF IInv, TypeInv, Begin, Begun
<1>3. \A p \in Pols : pc'[p] = "start"
  BY DEF Begin
<1>4. Order' /\ Own'
  BY <1>3 DEF Order, Own, OwnAt
<1>5. OwnVisibilities'
  BY DEF IInv, Begin, OwnVisibilities
<1> QED
  BY <1>1, <1>2, <1>4, <1>5 DEF IInv

(***************************************************************************)
(* When the loop has been left, every part of the blob is its              *)
(* polarization's own: this is what the image is made of                   *)
(* (UniboardPipeline.cpp:69-72).                                           *)
(***************************************************************************)
LEMMA ImageStep ==
  ASSUME IInv, Image
  PROVE  IInv'
<1>0. TypeInv /\ Begun /\ Own /\ OwnVisibilities
  BY DEF IInv
<1> DEFINE new == [of |-> chunk, shows |-> clean,
                   right |-> \A p \in Pols : right[p]]
           Images == [of : 1..MaxChunks, right : BOOLEAN,
                      shows : [Pols -> Visibilities \cup {Nothing}]]
<1>1. \A p \in Pols : Tagged(clean[p], p)
  BY <1>0 DEF Image, Joined, Own, OwnAt
<1>2. new \in Images
  <2>1. chunk \in 1..MaxChunks
    BY <1>0, PipelineAssumption DEF Begun, TypeInv, Image
  <2>2. (\A p \in Pols : right[p]) \in BOOLEAN
    OBVIOUS
  <2> QED
    BY <1>0, <2>1, <2>2 DEF TypeInv
<1>3. images \in Seq(Images) /\ images' = Append(images, new)
  BY <1>0 DEF TypeInv, Image
<1> HIDE DEF Images
<1>4. images' \in Seq(Images)
  BY <1>2, <1>3
<1>5. TypeInv'
  BY <1>0, <1>4 DEF TypeInv, Image, Images
<1>6. OwnVisibilities'
  <2> SUFFICES ASSUME NEW i \in 1..Len(images'), NEW p \in Pols
               PROVE  /\ images'[i].shows[p] # Nothing
                      /\ images'[i].shows[p].chunk = images'[i].of
                      /\ images'[i].shows[p].pol = p
    BY DEF OwnVisibilities
  <2>1. CASE i = Len(images) + 1
    <3>1. images'[i] = new
      BY <1>2, <1>3, <2>1
    <3> QED
      BY <1>1, <3>1, NothingAssumption DEF Tagged
  <2>2. CASE i \in 1..Len(images)
    <3>1. images'[i] = images[i]
      BY <1>2, <1>3, <2>2
    <3> QED
      BY <1>0, <2>2, <3>1 DEF OwnVisibilities
  <2> QED
    BY <1>2, <1>3, <2>1, <2>2
<1>7. Begun' /\ Order' /\ Own'
  BY <1>0 DEF Image, Begun, Order, Own
<1> QED
  BY <1>5, <1>6, <1>7 DEF IInv

(***************************************************************************)
(* Every step keeps the invariant (UniboardPipeline.cpp:46-83).            *)
(***************************************************************************)
LEMMA NextIInv == IInv /\ [Next]_vars => IInv'
<1> SUFFICES ASSUME IInv, [Next]_vars PROVE IInv'
  OBVIOUS
<1>1. ASSUME NEW n \in 1..Threads, Begin(n) PROVE IInv'
  BY <1>1, BeginStep
<1>2. ASSUME NEW p \in Pols, Polarization(p) PROVE IInv'
  <2>1. TypeInv' /\ Own'
    BY <1>2, TypePolarization, OwnPolarization
  <2>2. Order'
    BY <1>2, OrderPolarization DEF IInv
  <2>3. chunk' = chunk /\ phase' = phase /\ images' = images
    BY <1>2, Frame DEF IInv
  <2>4. Begun' /\ OwnVisibilities'
    BY <2>3 DEF IInv, Begun, OwnVisibilities
  <2> QED
    BY <2>1, <2>2, <2>4 DEF IInv
<1>3. CASE Image
  BY <1>3, ImageStep
<1>4. CASE DataOutput
  BY <1>4 DEF DataOutput, IInv, TypeInv, Begun, Order, Own, OwnVisibilities
<1>5. CASE UNCHANGED vars
  BY <1>5 DEF vars, IInv, TypeInv, Begun, Order, Own, OwnAt, Tagged,
              OwnVisibilities, Thread, Instance
<1> QED
  BY <1>1, <1>2, <1>3, <1>4, <1>5 DEF Next

LEMMA Invariance == Spec => []IInv
  BY InitIInv, NextIInv, PTL DEF Spec

(***************************************************************************)
(* The types are right: whatever the modules keep from run to run is       *)
(* visibilities or nothing (UniboardPipeline.cpp:46-83).                   *)
(***************************************************************************)
THEOREM TypeCorrect == Spec => []TypeInv
<1>1. IInv => TypeInv
  BY DEF IInv
<1> QED
  BY Invariance, <1>1, PTL

(***************************************************************************)
(* Every image shows the visibilities of its own chunk, each of its own    *)
(* polarization, for every number of threads (UniboardPipeline.cpp:46-83). *)
(***************************************************************************)
THEOREM Pipelined == Spec => []OwnVisibilities
<1>1. IInv => OwnVisibilities
  BY DEF IInv
<1> QED
  BY Invariance, <1>1, PTL

(***************************************************************************)
(* Polarizations under way at the same time have a Flagger and a           *)
(* Calibrator each (UniboardPipeline.cpp:57-66).                           *)
(***************************************************************************)
THEOREM ModulesOwned == Spec => []PrivateModules
<1>1. IInv => PrivateModules
  <2> SUFFICES ASSUME IInv, NEW p \in Pols, NEW q \in Pols,
                      Underway(p), Underway(q), p # q
               PROVE  Instance(p) # Instance(q)
    BY DEF PrivateModules
  <2>0. TypeInv /\ Order /\ phase = "parallel"
    BY DEF IInv, Underway
  <2>1. p \in Int /\ q \in Int
    BY PipelineAssumption DEF Pols
  <2>2. Thread(p) # Thread(q)
    <3>1. CASE p < q
      BY <2>0, <3>1 DEF Order, Underway
    <3>2. CASE q < p
      BY <2>0, <3>2 DEF Order, Underway
    <3> QED
      BY <2>1, <3>1, <3>2
  <2> QED
    BY <2>0, <2>2, InstanceExists DEF Instance
<1> QED
  BY Invariance, <1>1, PTL

-----------------------------------------------------------------------------
(***************************************************************************)
(* In a team of one, the matrix of radec2itrf() belongs to the one         *)
(* polarization that is between its start and its end.                     *)
(***************************************************************************)
Lone ==
  phase = "parallel" /\ team = 1 =>
    \A p \in Pols :
      /\ right[p]
      /\ pc[p] \in {"upper", "use"} => tmp.lower = round[p]
      /\ pc[p] = "use" => tmp.upper = round[p]

LoneRight == Lone /\ RightAlone

LEMMA TeamOfOne ==
  ASSUME TypeInv, team = 1, NEW p \in Pols
  PROVE  Thread(p) = 0
<1>1. p \in Nat /\ p < NumPols /\ NumPols \in Nat \ {0}
  BY PipelineAssumption DEF Pols
<1>2. (p * team) \div NumPols \in 0..(team - 1)
  BY <1>1, Quotient
<1> QED
  BY <1>2 DEF Thread

(***************************************************************************)
(* While one polarization of a team of one moves, no other is between its  *)
(* start and its end (UniboardPipeline.cpp:55-60).                         *)
(***************************************************************************)
LEMMA LonePolarization ==
  ASSUME IInv, Lone, NEW p \in Pols, Polarization(p)
  PROVE  Lone'
<1> SUFFICES ASSUME team = 1
             PROVE  \A q \in Pols :
                      /\ right'[q]
                      /\ pc'[q] \in {"upper", "use"} => tmp'.lower = round'[q]
                      /\ pc'[q] = "use" => tmp'.upper = round'[q]
  BY Frame DEF IInv, Lone
<1>0. /\ TypeInv /\ Order /\ Lone
      /\ phase = "parallel" /\ Turn(p) /\ pc[p] # "done"
      /\ \A q \in Pols \ {p} : pc'[q] = pc[q]
  BY Frame DEF IInv
<1>1. \A q \in Pols \ {p} : pc[q] \in {"start", "done"}
  <2> SUFFICES ASSUME NEW q \in Pols, q # p PROVE pc[q] \in {"start", "done"}
    OBVIOUS
  <2>1. p \in Int /\ q \in Int /\ Thread(p) = Thread(q)
    BY <1>0, TeamOfOne, PipelineAssumption DEF Pols
  <2> QED
    BY <1>0, <2>1 DEF Order, Turn
<1>2. \A q \in Pols \ {p} : right'[q] = right[q]
  BY <1>0 DEF Polarization, Flag, StoreAcm, Prepare, WriteLower, WriteUpper, Rotate,
              GiveUp, Solve, Reconstruct, TypeInv
<1>3. /\ right'[p]
      /\ pc'[p] \in {"upper", "use"} => tmp'.lower = round'[p]
      /\ pc'[p] = "use" => tmp'.upper = round'[p]
  <2> USE <1>0 DEF At, Goto, TypeInv, Lone
  <2>1. CASE Flag(p)       BY <2>1 DEF Flag
  <2>2. CASE StoreAcm(p)   BY <2>2 DEF StoreAcm
  <2>3. CASE Prepare(p)    BY <2>3 DEF Prepare
  <2>4. CASE WriteLower(p) BY <2>4 DEF WriteLower
  <2>5. CASE WriteUpper(p) BY <2>5 DEF WriteUpper
  <2>6. CASE Rotate(p)
    <3>1. tmp = [lower |-> round[p], upper |-> round[p]]
      BY <2>6 DEF Rotate
    <3>2. right'[p] = (right[p] /\ tmp = [lower |-> round[p], upper |-> round[p]])
      BY <2>6 DEF Rotate
    <3>3. right'[p]
      BY <3>1, <3>2
    <3>4. pc'[p] \notin {"upper", "use"}
      BY <2>6 DEF Rotate
    <3> QED
      BY <3>3, <3>4
  <2>7. CASE GiveUp(p)     BY <2>7 DEF GiveUp
  <2>8. CASE Solve(p)      BY <2>8 DEF Solve
  <2>9. CASE Reconstruct(p) BY <2>9 DEF Reconstruct
  <2> QED
    BY <2>1, <2>2, <2>3, <2>4, <2>5, <2>6, <2>7, <2>8, <2>9 DEF Polarization
<1> QED
  BY <1>0, <1>1, <1>2, <1>3 DEF Lone

LEMMA LoneStep == IInv /\ LoneRight /\ [Next]_vars => LoneRight'
<1> SUFFICES ASSUME IInv, Lone, RightAlone, [Next]_vars PROVE LoneRight'
  BY DEF LoneRight
<1>0. TypeInv
  BY DEF IInv
<1>1. ASSUME NEW n \in 1..Threads, Begin(n) PROVE LoneRight'
  BY <1>1 DEF Begin, LoneRight, Lone, RightAlone
<1>2. ASSUME NEW p \in Pols, Polarization(p) PROVE LoneRight'
  BY <1>2, LonePolarization, Frame, <1>0 DEF LoneRight, RightAlone
<1>3. CASE Image
  <2> DEFINE new == [of |-> chunk, shows |-> clean,
                     right |-> \A p \in Pols : right[p]]
  <2>1. images' = Append(images, new) /\ images \in Seq([of : 1..MaxChunks, right : BOOLEAN,
                     shows : [Pols -> Visibilities \cup {Nothing}]])
    BY <1>0, <1>3 DEF Image, TypeInv
  <2>2. images'[Len(images')] = new
    BY <2>1
  <2>3. team = 1 => \A p \in Pols : right[p]
    BY <1>3 DEF Image, Lone
  <2>4. team' = team /\ phase' = "output"
    BY <1>3 DEF Image
  <2> QED
    BY <2>2, <2>3, <2>4 DEF LoneRight, Lone, RightAlone
<1>4. CASE DataOutput
  BY <1>4 DEF DataOutput, LoneRight, Lone, RightAlone
<1>5. CASE UNCHANGED vars
  BY <1>5 DEF vars, LoneRight, Lone, RightAlone
<1> QED
  BY <1>1, <1>2, <1>3, <1>4, <1>5 DEF Next

(***************************************************************************)
(* A team of one thread computes the source positions with the rotations   *)
(* it put into the matrix itself, for every number of polarizations and    *)
(* whatever teams came before (Utils.h:268-299).                           *)
(***************************************************************************)
THEOREM AloneIsRight == Spec => []RightAlone
<1>1. Init => LoneRight
  BY DEF Init, LoneRight, Lone, RightAlone
<1>2. LoneRight => RightAlone
  BY DEF LoneRight
<1> QED
  BY Invariance, LoneStep, <1>1, <1>2, PTL DEF Spec

-----------------------------------------------------------------------------
(***************************************************************************)
(* The images of a pipeline are those of its chunks, in their order: while *)
(* the loop runs one is missing, and none is made twice.                   *)
(***************************************************************************)
OneImageEach ==
  /\ Len(images) = IF phase = "parallel" THEN chunk - 1 ELSE chunk
  /\ \A i \in 1..Len(images) : images[i].of = i

LEMMA CountingStep == IInv /\ OneImageEach /\ [Next]_vars => OneImageEach'
<1> SUFFICES ASSUME IInv, OneImageEach, [Next]_vars PROVE OneImageEach'
  OBVIOUS
<1>0. TypeInv /\ chunk \in Nat /\ images \in Seq([of : 1..MaxChunks, right : BOOLEAN,
                                shows : [Pols -> Visibilities \cup {Nothing}]])
  BY PipelineAssumption DEF IInv, TypeInv
<1>1. ASSUME NEW n \in 1..Threads, Begin(n) PROVE OneImageEach'
  BY <1>0, <1>1 DEF Begin, OneImageEach
<1>2. ASSUME NEW p \in Pols, Polarization(p) PROVE OneImageEach'
  BY <1>0, <1>2, Frame DEF OneImageEach
<1>3. CASE Image
  <2> DEFINE new == [of |-> chunk, shows |-> clean,
                     right |-> \A p \in Pols : right[p]]
  <2>1. images' = Append(images, new) /\ chunk' = chunk /\ new.of = chunk
    BY <1>3 DEF Image
  <2>2. phase = "parallel" /\ phase' = "output"
    BY <1>3 DEF Image
  <2> HIDE DEF new
  <2>3. Len(images') = Len(images) + 1
    BY <1>0, <2>1
  <2>4. Len(images) = chunk - 1 /\ \A i \in 1..Len(images) : images[i].of = i
    BY <2>2 DEF OneImageEach
  <2>5. \A i \in 1..Len(images') : images'[i] = IF i = chunk THEN new ELSE images[i]
    BY <1>0, <2>1, <2>3, <2>4
  <2> QED
    BY <1>0, <2>1, <2>2, <2>3, <2>4, <2>5 DEF OneImageEach
<1>4. CASE DataOutput
  BY <1>0, <1>4 DEF DataOutput, OneImageEach
<1>5. CASE UNCHANGED vars
  BY <1>0, <1>5 DEF vars, OneImageEach
<1> QED
  BY <1>1, <1>2, <1>3, <1>4, <1>5 DEF Next

(***************************************************************************)
(* A pipeline makes one image of every chunk, in the order in which it got *)
(* the chunks, and has made them all whenever it is not in the loop        *)
(* (UniboardPipeline.cpp:46-83).                                           *)
(***************************************************************************)
THEOREM ImagesInOrder == Spec => []OneImageEach
<1>1. Init => OneImageEach
  BY DEF Init, OneImageEach
<1> QED
  BY Invariance, CountingStep, <1>1, PTL DEF Spec

-----------------------------------------------------------------------------
(***************************************************************************)
(* How many steps a polarization has ahead of it: those from its place to  *)
(* the end, and three for every round of radec2itrf() that is left.        *)
(***************************************************************************)
Ahead ==
  [start |-> 8, acm |-> 7, prepare |-> 6, lower |-> 5, upper |-> 4, use |-> 3,
   solve |-> 2, store |-> 1, done |-> 0]

Left(p) == Ahead[pc[p]] + 3 * (3 - round[p])

LEMMA LeftType ==
  ASSUME TypeInv, NEW p \in Pols
  PROVE  Left(p) \in 0..14 /\ (pc[p] # "done" => Left(p) > 0)
<1>1. pc[p] \in Points /\ round[p] \in 1..3
  BY DEF TypeInv, Rounds
<1>2. Ahead[pc[p]] \in 0..8 /\ (pc[p] # "done" => Ahead[pc[p]] > 0)
  BY <1>1 DEF Ahead, Points
<1> QED
  BY <1>1, <1>2 DEF Left

LEMMA LeftTypeNext ==
  ASSUME TypeInv', NEW p \in Pols
  PROVE  Left(p)' \in 0..14
<1>1. pc'[p] \in Points /\ round'[p] \in 1..3
  BY DEF TypeInv, Rounds
<1>2. Ahead[pc'[p]] \in 0..8
  BY <1>1 DEF Ahead, Points
<1>3. Left(p)' = Ahead[pc'[p]] + 3 * (3 - round'[p])
  BY DEF Left, Ahead
<1> QED
  BY <1>1, <1>2, <1>3

LEMMA LeftFalls ==
  ASSUME TypeInv, NEW p \in Pols, Polarization(p)
  PROVE  /\ Left(p)' < Left(p)
         /\ \A q \in Pols \ {p} : Left(q)' = Left(q)
<1>0. pc \in [Pols -> Points] /\ round \in [Pols -> 1..3]
  BY DEF TypeInv, Rounds
<1>1. \A q \in Pols \ {p} : pc'[q] = pc[q] /\ round'[q] = round[q]
  BY <1>0, Frame DEF Polarization, Flag, StoreAcm, Prepare, WriteLower, WriteUpper,
                     Rotate, GiveUp, Solve, Reconstruct
<1>2. Left(p)' < Left(p)
  <2>1. ASSUME round' = round, Ahead[pc'[p]] < Ahead[pc[p]], Ahead[pc'[p]] \in Int
        PROVE  Left(p)' < Left(p)
    <3>1. Left(p)' = Ahead[pc'[p]] + 3 * (3 - round[p])
      BY <2>1 DEF Left, Ahead
    <3>2. Ahead[pc[p]] \in Int /\ round[p] \in Int
      BY <1>0 DEF Ahead, Points
    <3> QED
      BY <2>1, <3>1, <3>2 DEF Left
  <2> USE <1>0 DEF At, Goto, Ahead
  <2>2. CASE Flag(p)       BY <2>1, <2>2 DEF Flag
  <2>3. CASE StoreAcm(p)   BY <2>1, <2>3 DEF StoreAcm
  <2>4. CASE Prepare(p)    BY <2>1, <2>4 DEF Prepare
  <2>5. CASE WriteLower(p) BY <2>1, <2>5 DEF WriteLower
  <2>6. CASE WriteUpper(p) BY <2>1, <2>6 DEF WriteUpper
  <2>7. CASE Rotate(p)
    <3>1. CASE round[p] = 3
      BY <2>1, <2>7, <3>1 DEF Rotate
    <3>2. CASE round[p] # 3
      BY <2>7, <3>2 DEF Rotate, Left
    <3> QED
      BY <3>1, <3>2
  <2>8. CASE GiveUp(p)     BY <2>1, <2>8 DEF GiveUp
  <2>9. CASE Solve(p)      BY <2>1, <2>9 DEF Solve
  <2>10. CASE Reconstruct(p) BY <2>1, <2>10 DEF Reconstruct
  <2> QED
    BY <2>2, <2>3, <2>4, <2>5, <2>6, <2>7, <2>8, <2>9, <2>10 DEF Polarization
<1> QED
  BY <1>1, <1>2 DEF Left, Ahead

(***************************************************************************)
(* A polarization that enters the loop leaves it after at most fourteen    *)
(* steps of its own, however the threads are interleaved: each brings it   *)
(* nearer to its end, and nothing but the next chunk takes it back         *)
(* (UniboardPipeline.cpp:55-68).                                           *)
(***************************************************************************)
StepsRunOut ==
  [][/\ \A p \in Pols : Polarization(p) => Left(p)' < Left(p)
     /\ \A p \in Pols : Left(p)' > Left(p) => phase = "idle"]_vars

THEOREM LoopRunsOut == Spec => /\ [](\A p \in Pols : Left(p) \in 0..14)
                               /\ StepsRunOut
<1>1. IInv => \A p \in Pols : Left(p) \in 0..14
  BY LeftType DEF IInv
<1>2. IInv /\ [Next]_vars =>
        [/\ \A p \in Pols : Polarization(p) => Left(p)' < Left(p)
         /\ \A p \in Pols : Left(p)' > Left(p) => phase = "idle"]_vars
  <2> SUFFICES ASSUME IInv, Next, NEW p \in Pols
               PROVE  /\ Polarization(p) => Left(p)' < Left(p)
                      /\ Left(p)' > Left(p) => phase = "idle"
    OBVIOUS
  <2>0. TypeInv /\ Left(p) \in 0..14 /\ Left(p)' \in 0..14
    <3>1. TypeInv'
      BY NextIInv DEF IInv
    <3> QED
      BY <3>1, LeftType, LeftTypeNext DEF IInv
  <2>1. Polarization(p) => Left(p)' < Left(p)
    BY <2>0, LeftFalls
  <2>2. ASSUME NEW q \in Pols, Polarization(q), Left(p)' > Left(p) PROVE FALSE
    <3>1. Left(p)' < Left(p) \/ Left(p)' = Left(p)
      BY <2>0, <2>2, LeftFalls
    <3> QED
      BY <2>0, <2>2, <3>1
  <2>3. CASE Image \/ DataOutput
    <3>1. Left(p)' = Left(p)
      BY <2>3 DEF Image, DataOutput, Left, Ahead
    <3> QED
      BY <2>0, <2>1, <3>1
  <2>4. CASE \E n \in 1..Threads : Begin(n)
    BY <2>1, <2>4 DEF Begin
  <2> QED
    BY <2>1, <2>2, <2>3, <2>4 DEF Next
<1> QED
  BY Invariance, <1>1, <1>2, PTL DEF Spec, StepsRunOut

\* A set of natural numbers has a least one.
LEMMA LeastNatural ==
  ASSUME NEW T, T \subseteq Nat, T # {}
  PROVE  \E n \in T : \A k \in T : ~(k < n)
<1>1. PICK n \in T : \A k \in T : ~ (<<k, n>> \in OpToRel(<, Nat))
  BY NatLessThanWellFounded, WFMin
<1> QED
  BY <1>1 DEF OpToRel

(***************************************************************************)
(* The threads never wait for each other: while the loop has not been left *)
(* by all, some polarization that is not done has its turn - on every      *)
(* thread the first one that is not (UniboardPipeline.cpp:55-68).          *)
(***************************************************************************)
SomebodysTurn ==
  phase = "parallel" =>
    \A p \in Pols : pc[p] # "done" =>
      \E q \in Pols : q <= p /\ Thread(q) = Thread(p) /\ pc[q] # "done" /\ Turn(q)

THEOREM NeverStuck == Spec => []SomebodysTurn
<1>1. SomebodysTurn
  <2> SUFFICES ASSUME NEW p \in Pols, pc[p] # "done"
               PROVE  \E q \in Pols : /\ q <= p /\ Thread(q) = Thread(p)
                                      /\ pc[q] # "done" /\ Turn(q)
    BY DEF SomebodysTurn
  <2> DEFINE Open == {q \in Pols : Thread(q) = Thread(p) /\ pc[q] # "done"}
  <2>1. Open \subseteq Nat /\ p \in Open
    BY PipelineAssumption DEF Pols
  <2>2. Open # {}
    BY <2>1
  <2> HIDE DEF Open
  <2>3. PICK q \in Open : \A r \in Open : ~(r < q)
    BY <2>1, <2>2, LeastNatural
  <2> USE DEF Open
  <2>4. q <= p
    BY <2>1, <2>3
  <2>5. Turn(q)
    BY <2>3 DEF Turn
  <2> QED
    BY <2>4, <2>5
<1> QED
  BY <1>1, PTL

-----------------------------------------------------------------------------
(***************************************************************************)
(* What ENABLED means for the actions that are fair, which is all that is  *)
(* not proved here: the guard of an action is all that it needs.           *)
(***************************************************************************)
GuardsEnable ==
  /\ \A p \in Pols : phase = "parallel" /\ Turn(p) /\ pc[p] # "done" =>
       ENABLED <<Polarization(p)>>_vars
  /\ phase = "parallel" /\ Joined => ENABLED <<Image>>_vars
  /\ phase = "output" => ENABLED <<DataOutput>>_vars

Live == FairSpec /\ []GuardsEnable

\* The polarization has its turn, and at most k steps ahead of it.
Within(p, k) == phase = "parallel" /\ Turn(p) /\ (pc[p] = "done" \/ Left(p) <= k)
Nearer(p, k, j) == Within(p, k) ~> Within(p, j)

\* In the loop, a polarization that has its turn comes to its end.
Ends(p) == phase = "parallel" /\ Turn(p) ~> phase = "parallel" /\ pc[p] = "done"

\* A polarization that has its turn keeps it until the loop is left.
LEMMA TurnKept ==
  ASSUME TypeInv, [Next]_vars, NEW p \in Pols, phase = "parallel", Turn(p), ~Joined
  PROVE  phase' = "parallel" /\ Turn(p)'
<1>1. ASSUME NEW q \in Pols, Polarization(q) PROVE phase' = "parallel" /\ Turn(p)'
  BY <1>1, Frame DEF Turn, Thread
<1>2. CASE UNCHANGED vars
  BY <1>2 DEF vars, Turn, Thread
<1> QED
  BY <1>1, <1>2 DEF Next, Begin, Image, DataOutput

LEMMA FairPolarization ==
  ASSUME NEW q \in Pols
  PROVE  Live => RunsOn(q)
<1>1. (\A p \in Pols : RunsOn(p)) => RunsOn(q)
  OBVIOUS
<1>2. Live => \A p \in Pols : RunsOn(p)
  BY PTL DEF Live, FairSpec
<1> QED
  BY <1>1, <1>2, PTL

\* Each step of a polarization brings it nearer to its end.
LEMMA StepNearer ==
  ASSUME NEW p \in Pols, NEW k \in Nat, NEW j \in Nat, k = j + 1
  PROVE  Live => Nearer(p, k, j)
<1> DEFINE Here == Within(p, k) /\ ~Within(p, j)
<1>1. IInv /\ Here => /\ TypeInv /\ phase = "parallel" /\ Turn(p) /\ ~Joined
                      /\ pc[p] # "done" /\ Left(p) = k
  BY LeftType DEF Within, IInv, Joined
<1>2. IInv /\ Here /\ [Next]_vars => Within(p, k)'
  <2> SUFFICES ASSUME IInv, Here, [Next]_vars PROVE Within(p, k)'
    OBVIOUS
  <2>0. Left(p)' \in 0..14
    <3>1. TypeInv'
      BY NextIInv DEF IInv
    <3> QED
      BY <3>1, LeftTypeNext
  <2>1. phase' = "parallel" /\ Turn(p)'
    BY <1>1, TurnKept
  <2>2. Left(p)' <= k
    <3>1. ASSUME NEW q \in Pols, Polarization(q) PROVE Left(p)' <= k
      <4>1. Left(p)' < Left(p) \/ Left(p)' = Left(p)
        BY <1>1, <3>1, LeftFalls
      <4> QED
        BY <1>1, <2>0, <4>1
    <3>2. CASE UNCHANGED vars
      BY <1>1, <3>2 DEF vars, Left, Ahead
    <3> QED
      BY <1>1, <3>1, <3>2 DEF Next, Begin, Image, DataOutput
  <2> QED
    BY <2>1, <2>2 DEF Within
<1>3. IInv /\ Here /\ <<Next /\ Polarization(p)>>_vars => Within(p, j)'
  <2> SUFFICES ASSUME IInv, Here, Next, Polarization(p) PROVE Within(p, j)'
    OBVIOUS
  <2>0. Left(p)' \in 0..14
    <3>1. TypeInv'
      BY NextIInv DEF IInv
    <3> QED
      BY <3>1, LeftTypeNext
  <2>1. phase' = "parallel" /\ Turn(p)'
    BY <1>1, TurnKept
  <2>2. Left(p)' < k
    BY <1>1, LeftFalls
  <2> QED
    BY <2>0, <2>1, <2>2 DEF Within
<1>4. IInv /\ GuardsEnable => (Here => ENABLED <<Polarization(p)>>_vars)
  BY <1>1 DEF GuardsEnable
<1>5. Live => RunsOn(p)
  BY FairPolarization
<1>6. Polarization(p) => Next
  BY DEF Next
<1>7. Live => [](IInv /\ GuardsEnable) /\ [][Next]_vars
  BY Invariance, PTL DEF Live, FairSpec, Spec
<1> QED
  BY <1>2, <1>3, <1>4, <1>5, <1>6, <1>7, PTL DEF RunsOn, Nearer

LEMMA TurnEnds ==
  ASSUME NEW p \in Pols
  PROVE  Live => Ends(p)
<1>1. Live => Nearer(p, 14, 13)
  BY StepNearer
<1>2. Live => Nearer(p, 13, 12)
  BY StepNearer
<1>3. Live => Nearer(p, 12, 11)
  BY StepNearer
<1>4. Live => Nearer(p, 11, 10)
  BY StepNearer
<1>5. Live => Nearer(p, 10, 9)
  BY StepNearer
<1>6. Live => Nearer(p, 9, 8)
  BY StepNearer
<1>7. Live => Nearer(p, 8, 7)
  BY StepNearer
<1>8. Live => Nearer(p, 7, 6)
  BY StepNearer
<1>9. Live => Nearer(p, 6, 5)
  BY StepNearer
<1>10. Live => Nearer(p, 5, 4)
  BY StepNearer
<1>11. Live => Nearer(p, 4, 3)
  BY StepNearer
<1>12. Live => Nearer(p, 3, 2)
  BY StepNearer
<1>13. Live => Nearer(p, 2, 1)
  BY StepNearer
<1>14. Live => Nearer(p, 1, 0)
  BY StepNearer
<1>15. IInv /\ phase = "parallel" /\ Turn(p) => Within(p, 14)
  BY LeftType DEF IInv, Within
<1>16. IInv /\ Within(p, 0) => phase = "parallel" /\ pc[p] = "done"
  BY LeftType DEF IInv, Within
<1>17. Live => []IInv
  BY Invariance, PTL DEF Live, FairSpec
<1> QED
  BY <1>1, <1>2, <1>3, <1>4, <1>5, <1>6, <1>7, <1>8, <1>9, <1>10, <1>11, <1>12,
     <1>13, <1>14, <1>15, <1>16, <1>17, PTL DEF Nearer, Ends

(***************************************************************************)
(* Every polarization that has its turn is done in the end, for any number *)
(* of polarizations and threads, if only its thread keeps running: it      *)
(* waits for nothing (UniboardPipeline.cpp:55-68).                         *)
(***************************************************************************)
EveryTurnEnds == \A p \in Pols : phase = "parallel" /\ Turn(p) ~> pc[p] = "done"

THEOREM TurnsEnd == FairSpec /\ []GuardsEnable => EveryTurnEnds
<1> DEFINE TurnOver(p) == phase = "parallel" /\ Turn(p) ~> pc[p] = "done"
<1>1. ASSUME NEW p \in Pols PROVE Live => TurnOver(p)
  <2>1. Live => Ends(p)
    BY TurnEnds
  <2> QED
    BY <2>1, PTL DEF Ends
<1>2. Live => \A p \in Pols : TurnOver(p)
  BY <1>1
<1>3. (\A p \in Pols : TurnOver(p)) => EveryTurnEnds
  BY DEF EveryTurnEnds
<1> QED
  BY <1>2, <1>3, PTL DEF Live

(***************************************************************************)
(* With the two polarizations of the build (Constants.h.in:12), every      *)
(* chunk the loop was entered with leads to an image that is written.      *)
(***************************************************************************)
THEOREM ChunksImaged ==
  NumPols = 2 => (FairSpec /\ []GuardsEnable => EveryChunkImaged)
<1> SUFFICES ASSUME NumPols = 2 PROVE FairSpec /\ []GuardsEnable => EveryChunkImaged
  OBVIOUS
<1> DEFINE Done(p) == phase = "parallel" /\ pc[p] = "done"
           Left0 == phase = "parallel" /\ Joined
           IsImaged == phase = "idle" /\ Len(images) = chunk
           Inv == IInv /\ OneImageEach
<1>1. 0 \in Pols /\ 1 \in Pols /\ Pols = {0, 1}
  BY DEF Pols
<1>2. phase = "parallel" => Turn(0)
  BY <1>1 DEF Turn
<1>3. Done(0) => Turn(1)
  BY <1>1 DEF Turn
<1>4. Live => Ends(0)
  BY <1>1, TurnEnds
<1>5. Live => Ends(1)
  BY <1>1, TurnEnds
<1>6. Inv /\ Done(0) /\ [Next]_vars => Done(0)' \/ Left0
  <2> SUFFICES ASSUME Inv, Done(0), [Next]_vars, ~Joined PROVE Done(0)'
    OBVIOUS
  <2>1. ASSUME NEW q \in Pols, Polarization(q) PROVE Done(0)'
    BY <1>1, <2>1, Frame DEF IInv
  <2>2. CASE UNCHANGED vars
    BY <2>2 DEF vars
  <2> QED
    BY <2>1, <2>2 DEF Next, Begin, Image, DataOutput
<1>7. Done(0) /\ Done(1) => Left0
  BY <1>1 DEF Joined
<1>8. Inv /\ Left0 /\ [Next]_vars => Left0' \/ (phase = "output")'
  <2> SUFFICES ASSUME Inv, Left0, [Next]_vars PROVE Left0' \/ phase' = "output"
    OBVIOUS
  <2>1. ASSUME NEW q \in Pols, Polarization(q) PROVE FALSE
    BY <2>1, Frame DEF IInv, Joined
  <2>2. CASE UNCHANGED vars
    BY <2>2 DEF vars, Joined
  <2> QED
    BY <2>1, <2>2 DEF Next, Begin, Image, DataOutput
<1>9. Left0 /\ <<Image>>_vars => (phase = "output")'
  BY DEF Image
<1>10. Inv /\ phase = "output" /\ [Next]_vars => (phase = "output")' \/ (phase = "idle")'
  <2> SUFFICES ASSUME Inv, phase = "output", [Next]_vars
               PROVE  phase' = "output" \/ phase' = "idle"
    OBVIOUS
  <2>1. ASSUME NEW q \in Pols, Polarization(q) PROVE FALSE
    BY <2>1, Frame DEF IInv
  <2> QED
    BY <2>1 DEF Next, Begin, Image, DataOutput, vars
<1>11. phase = "output" /\ <<DataOutput>>_vars => (phase = "idle")'
  BY DEF DataOutput
<1>12. Inv /\ phase = "idle" => IsImaged
  BY DEF OneImageEach
<1>13. /\ GuardsEnable /\ Left0 => ENABLED <<Image>>_vars
       /\ GuardsEnable /\ phase = "output" => ENABLED <<DataOutput>>_vars
  BY DEF GuardsEnable
<1>14. Live => /\ [](Inv /\ GuardsEnable) /\ [][Next]_vars
               /\ WF_vars(Image) /\ WF_vars(DataOutput)
  BY Invariance, ImagesInOrder, PTL DEF Live, FairSpec, Spec
<1>15. Live => ((phase = "parallel") ~> Left0)
  BY <1>2, <1>3, <1>4, <1>5, <1>6, <1>7, <1>14, PTL DEF Ends
<1>16. Live => (Left0 ~> (phase = "output"))
  BY <1>8, <1>9, <1>13, <1>14, PTL
<1>17. Live => ((phase = "output") ~> IsImaged)
  BY <1>10, <1>11, <1>12, <1>13, <1>14, PTL
<1> QED
  BY <1>15, <1>16, <1>17, PTL DEF Live, EveryChunkImaged

=============================================================================
