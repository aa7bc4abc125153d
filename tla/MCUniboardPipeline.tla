-------------------------- MODULE MCUniboardPipeline --------------------------
(***************************************************************************)
(* Instances of UniboardPipeline for TLC.                                  *)
(***************************************************************************)
EXTENDS UniboardPipeline

=============================================================================
