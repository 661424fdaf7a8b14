----------------------------- MODULE MCOspfsDir -----------------------------
(* TLC instance of the directory. *)
EXTENDS OspfsDir, TLC

CONSTANTS a, b, c, t, p1

\* Nothing compares the names with each other.
MCSymmetry == Permutations(Names)
=============================================================================
