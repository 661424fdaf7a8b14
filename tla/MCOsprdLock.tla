---------------------------- MODULE MCOsprdLock ----------------------------
(* TLC instances of the ramdisk lock. *)
EXTENDS OsprdLock, TLC

CONSTANTS p1, p2, p3, p4, r1, r2, w1, w2, w3, w4

\* Two writers and two readers, one file each.
FourOwners == (w1 :> p1 @@ w2 :> p2 @@ r1 :> p3 @@ r2 :> p4)

\* Nothing tells the two writers apart, nor the two readers.
MCSymmetry ==
    {s \in Permutations(Procs \cup Files) :
        \A f \in Files : s[f] \in Files /\ (s[f] \in Writable <=> f \in Writable) /\ Owner[s[f]] = s[Owner[f]]}

\* Four writers, one of which has the device open for reading as well.
OneReadFile == (r1 :> p1 @@ w1 :> p1 @@ w2 :> p2 @@ w3 :> p3 @@ w4 :> p4)
=============================================================================
