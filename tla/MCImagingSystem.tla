--------------------------- MODULE MCImagingSystem ---------------------------
(***************************************************************************)
(* Instances of ImagingSystem for TLC.                                     *)
(***************************************************************************)
EXTENDS ImagingSystem

=============================================================================
