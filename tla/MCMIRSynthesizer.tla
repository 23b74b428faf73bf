-------------------------- MODULE MCMIRSynthesizer --------------------------
(* Instances of MIRSynthesizer for TLC; the values are in the .cfg files. *)
EXTENDS MIRSynthesizer
=============================================================================
