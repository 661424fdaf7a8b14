---------------------------- MODULE MCOsprdCrypt ----------------------------
(* TLC instance of the ramdisk's encryption: four bytes in two sectors. *)
EXTENDS OsprdCrypt, TLC

CONSTANTS p1, p2, good

\* A sector and a half, unaligned at the beginning, and for -z at the end.
MCSpans == {<<1, 4>>}
MCZeroSpans == {<<0, 3>>}

\* Clients with the same program: nothing tells their pids apart.
MCSymmetry == Permutations(Procs)
=============================================================================
