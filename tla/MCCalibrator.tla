----------------------------- MODULE MCCalibrator -----------------------------
(***************************************************************************)
(* Instances of Calibrator for TLC.                                        *)
(***************************************************************************)
EXTENDS Calibrator

FewValues == 0..2
TwoValues == {0, 1}

=============================================================================
