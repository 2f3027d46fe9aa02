--------------------------- MODULE MCMultiSession ---------------------------
(* Instances of MultiSession for TLC: the configurations give every        *)
(* constant its value.                                                     *)
EXTENDS MultiSession
=============================================================================
