------------------------------- MODULE Calibrator -------------------------------
(***************************************************************************)
(* Calibrator::run() with the search inside it: when the first calibration *)
(* has converged, wsfSrcPos() improves the positions of the sources with   *)
(* NM::Simplex(), and the second calibration begins with what it returns.  *)
(* The variables of the search are local: they begin anew in every search. *)
(***************************************************************************)
EXTENDS Calibration, Simplex

runVars == <<vars, searchVars>>

RunInit == Init /\ SearchInit

\* run() is past its early return and in wsfSrcPos().
Searching == pc = "left" /\ call = "first" /\ converged

(***************************************************************************)
(* The search has two coordinates for every source above the horizon; the  *)
(* model has Dim, and no run without a source.                             *)
(***************************************************************************)
wsfSrcPos == Searching /\ SearchNext /\ UNCHANGED vars

EnterAgain ==
  /\ CalibrateAgain
  /\ step = "stopped"
  /\ step' = "begin" /\ iteration' = 0 /\ V' = <<>> /\ f' = <<>>
  /\ x' = [at |-> 0, value |-> 0] /\ nf' = 0

Elsewhere ==
  /\ \/ Start \/ Enter
     \/ Estimate \/ \E below \in BOOLEAN : EstimateAndAverage(below)
     \/ NextMajor \/ Leave
     \/ GiveUp \/ Finish
  /\ UNCHANGED searchVars

RunNext == wsfSrcPos \/ EnterAgain \/ Elsewhere

(***************************************************************************)
(* Fairness: the thread that runs the module keeps running.                *)
(***************************************************************************)
RunSpec == RunInit /\ [][RunNext]_runVars /\ WF_runVars(RunNext)

-----------------------------------------------------------------------------
\* The types of both parts.
RunTypeInv == TypeInv /\ SearchTypeInv

=============================================================================
