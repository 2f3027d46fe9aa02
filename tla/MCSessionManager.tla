-------------------------- MODULE MCSessionManager --------------------------
(* Instances of SessionManager for TLC: the configurations give every      *)
(* constant its value.                                                     *)
EXTENDS SessionManager, TLC

\* The pods are interchangeable, and so are the slots for session objects:
\* FreshObject takes some free slot, and another choice gives a state that
\* differs only in the names of the slots and in whether an unused slot is
\* free or closed, which no step and no property tells apart.
Symmetry == Permutations(Pods) \cup Permutations(Objects)
=============================================================================
