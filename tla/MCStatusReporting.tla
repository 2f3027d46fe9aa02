-------------------------- MODULE MCStatusReporting -------------------------
(* Instances of StatusReporting for TLC: the .cfg gives every constant. No
   symmetry set, because the runs check liveness too. *)
EXTENDS StatusReporting
=============================================================================
