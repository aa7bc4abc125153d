------------------------------ MODULE Calibration ------------------------------
(***************************************************************************)
(* How Calibrator::run() decides: a first calibration (statCal), which     *)
(* ends the run when it does not converge, a second one with improved      *)
(* source positions, and the calibrated data.  Both are walsCalibration(), *)
(* a loop of major cycles; every major cycle solves for the gains with     *)
(* gainSolv(), a loop of minor cycles.                                     *)
(*                                                                         *)
(* Of the numbers only this is kept: which estimates of gainSolv() a       *)
(* vector of gains is the average of, and whether a residue is below its   *)
(* threshold (a residue that is not a number never is).                    *)
(***************************************************************************)
EXTENDS Naturals, FiniteSets

CONSTANTS
  MaxMajor,  \* MAX_MAJOR_CYCLES
  MaxMinor,  \* MAX_MINOR_CYCLES
  MaxRuns    \* bound: how often the module runs

ASSUME CalibrationAssumption ==
  /\ MaxMajor \in Nat \ {0}
  /\ MaxMinor \in Nat \ {0}
  /\ MaxMinor % 2 = 0
  /\ MaxRuns \in Nat

VARIABLES
  runs,       \* how often run() was called
  pc,         \* where the run is
  call,       \* which of the two calls of walsCalibration() it is in
  major,      \* i of walsCalibration()
  minor,      \* i of gainSolv()
  gains,      \* outGains of gainSolv(), as the estimates it is made of
  tmp,        \* tmp of gainSolv(), likewise
  residue,    \* mMajorCycleResidue: "small" or "large", "none" before the first
  converged,  \* mHasConverged
  outcome     \* how the last run ended: "none", "kept", "calibrated"

vars == <<runs, pc, call, major, minor, gains, tmp, residue, converged, outcome>>

\* What tmp holds when it is no estimate: nothing yet, or a difference.
NoEstimate == {}

Init ==
  /\ runs = 0
  /\ pc = "idle"
  /\ call = "first"
  /\ major = 0
  /\ minor = 0
  /\ gains = NoEstimate
  /\ tmp = NoEstimate
  /\ residue = "none"
  /\ converged = TRUE
  /\ outcome = "none"

\* Mutant: mHasConverged is only set in the constructor.
StartUnreset ==
  /\ pc = "idle"
  /\ runs < MaxRuns
  /\ runs' = runs + 1
  /\ pc' = "enter"
  /\ call' = "first"
  /\ converged' = converged
  /\ outcome' = "none"
  /\ UNCHANGED <<major, minor, gains, tmp, residue>>

Start ==
  /\ pc = "idle"
  /\ runs < MaxRuns
  /\ runs' = runs + 1
  /\ pc' = "enter"
  /\ call' = "first"
  /\ converged' = TRUE
  /\ outcome' = "none"
  /\ UNCHANGED <<major, minor, gains, tmp, residue>>

-----------------------------------------------------------------------------
(***************************************************************************)
(* statCal() enters walsCalibration(); every major cycle begins gainSolv(). *)
(***************************************************************************)
BeginMajor(i) ==
  /\ major' = i
  /\ minor' = 1
  /\ gains' = NoEstimate
  /\ tmp' = NoEstimate
  /\ pc' = "estimate"

Enter ==
  /\ pc = "enter"
  /\ BeginMajor(1)
  /\ residue' = "none"
  /\ UNCHANGED <<runs, call, converged, outcome>>

(***************************************************************************)
(* A minor cycle estimates the gains.  An odd one remembers its estimate;  *)
(* an even one averages its estimate with the one before it and compares.  *)
(***************************************************************************)
\* Mutant: the odd and the even cycles are swapped.
RemembersEven(i) == i % 2 = 0

Remembers(i) == i % 2 = 1

\* Mutant: the loop runs once more.
OneMoreMinor ==
  /\ minor' = minor + 1
  /\ pc' = IF minor <= MaxMinor THEN "estimate" ELSE "powers"

MoreMinor ==
  /\ minor' = minor + 1
  /\ pc' = IF minor < MaxMinor THEN "estimate" ELSE "powers"

Estimate ==
  /\ pc = "estimate"
  /\ Remembers(minor)
  /\ gains' = {minor}
  /\ tmp' = {minor}
  /\ MoreMinor
  /\ UNCHANGED <<runs, call, major, residue, converged, outcome>>

\* Mutant: the average is not stored.
EstimateAlone(below) ==
  /\ pc = "estimate"
  /\ ~Remembers(minor)
  /\ gains' = {minor}
  /\ tmp' = NoEstimate
  /\ IF below THEN minor' = minor /\ pc' = "powers" ELSE MoreMinor
  /\ UNCHANGED <<runs, call, major, residue, converged, outcome>>

EstimateAndAverage(below) ==
  /\ pc = "estimate"
  /\ ~Remembers(minor)
  /\ gains' = {minor} \cup tmp
  /\ tmp' = NoEstimate
  /\ IF below THEN minor' = minor /\ pc' = "powers" ELSE MoreMinor
  /\ UNCHANGED <<runs, call, major, residue, converged, outcome>>

(***************************************************************************)
(* The source powers and the noise follow from the gains.  A small residue *)
(* ends the loop, and so does the last cycle; the number of the cycle then *)
(* says whether the loop has converged.                                    *)
(***************************************************************************)
\* Mutant: the cycles are not counted.
NextMajorUncounted ==
  /\ pc = "powers"
  /\ residue' = "large"
  /\ BeginMajor(major)
  /\ UNCHANGED <<runs, call, converged, outcome>>

NextMajor ==
  /\ pc = "powers"
  /\ residue' = "large"
  /\ major < MaxMajor
  /\ BeginMajor(major + 1)
  /\ UNCHANGED <<runs, call, converged, outcome>>

\* Mutant: running past the last cycle counts as convergence.
ExhaustedNever(i) == i > MaxMajor + 1

Exhausted(i) == i >= MaxMajor

Leave ==
  /\ pc = "powers"
  /\ \/ residue' = "small" /\ major' = major
     \/ residue' = "large" /\ major = MaxMajor /\ major' = major + 1
  /\ converged' = (converged /\ ~Exhausted(major'))
  /\ pc' = "left"
  /\ UNCHANGED <<runs, call, minor, gains, tmp, outcome>>

-----------------------------------------------------------------------------
(***************************************************************************)
(* Back in run(): without convergence it leaves the data as they are ...   *)
(***************************************************************************)
GiveUp ==
  /\ pc = "left"
  /\ call = "first"
  /\ ~converged
  /\ outcome' = "kept"
  /\ pc' = "idle"
  /\ UNCHANGED <<runs, call, major, minor, gains, tmp, residue, converged>>

(***************************************************************************)
(* ... with it, it calibrates again, from the positions of wsfSrcPos() ... *)
(***************************************************************************)
\* Mutant: the early return is left out.
CalibrateAgainAnyway ==
  /\ pc = "left"
  /\ call = "first"
  /\ call' = "final"
  /\ pc' = "enter"
  /\ UNCHANGED <<runs, major, minor, gains, tmp, residue, converged, outcome>>

CalibrateAgain ==
  /\ pc = "left"
  /\ call = "first"
  /\ converged
  /\ call' = "final"
  /\ pc' = "enter"
  /\ UNCHANGED <<runs, major, minor, gains, tmp, residue, converged, outcome>>

(***************************************************************************)
(* ... and applies the gains, whether or not the second call converged.    *)
(***************************************************************************)
Finish ==
  /\ pc = "left"
  /\ call = "final"
  /\ outcome' = "calibrated"
  /\ pc' = "idle"
  /\ UNCHANGED <<runs, call, major, minor, gains, tmp, residue, converged>>

Next ==
  \/ Start \/ Enter
  \/ Estimate \/ \E below \in BOOLEAN : EstimateAndAverage(below)
  \/ NextMajor \/ Leave
  \/ GiveUp \/ CalibrateAgain \/ Finish

(***************************************************************************)
(* Fairness: the thread that runs the module keeps running.                *)
(***************************************************************************)
Spec == Init /\ [][Next]_vars
FairSpec == Spec /\ WF_vars(Next)

-----------------------------------------------------------------------------
TypeInv ==
  /\ runs \in 0..MaxRuns
  /\ pc \in {"idle", "enter", "estimate", "powers", "left"}
  /\ call \in {"first", "final"}
  /\ major \in 0..(MaxMajor + 1)
  /\ minor \in 0..(MaxMinor + 1)
  /\ gains \subseteq 1..MaxMinor
  /\ tmp \subseteq 1..MaxMinor
  /\ residue \in {"none", "small", "large"}
  /\ converged \in BOOLEAN
  /\ outcome \in {"none", "kept", "calibrated"}

(***************************************************************************)
(* Averaged: gainSolv() returns the average of two successive estimates,   *)
(* however its loop ends, and never one made with a tmp that holds no      *)
(* estimate (Calibrator.cpp:366-396).                                      *)
(***************************************************************************)
Averaged ==
  pc = "powers" => \E k \in 1..(MaxMinor - 1) : gains = {k, k + 1}

(***************************************************************************)
(* AppliedIfConverged: data are only calibrated with gains of a run whose  *)
(* first calibration ended with a small residue (Calibrator.cpp:134-167):  *)
(* the second is never entered otherwise.                                  *)
(***************************************************************************)
AppliedIfConverged ==
  call = "final" /\ pc = "enter" => residue = "small" /\ major < MaxMajor

(***************************************************************************)
(* GivenUpWithReason: a run only leaves its data uncalibrated when its own *)
(* loop ran to the last cycle, whatever happened in the second calibration *)
(* of the run before (Calibrator.cpp:68, 136, 327).                        *)
(***************************************************************************)
GivenUpWithReason == outcome = "kept" => major >= MaxMajor

(***************************************************************************)
(* Decided: a run comes to an end, with one of its two outcomes            *)
(* (Calibrator.cpp:247, 367).                                              *)
(***************************************************************************)
Decided == pc # "idle" ~> (pc = "idle" /\ outcome # "none")

=============================================================================
