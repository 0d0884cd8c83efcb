---------------------------- MODULE MCEapiClient ----------------------------
(***************************************************************************)
(* EapiClient with passwords that only differ.                             *)
(***************************************************************************)
EXTENDS EapiClient, TLC

CONSTANTS p1, p2, p3

Three == {p1, p2, p3}
Symmetry == Permutations(Three)
=============================================================================
