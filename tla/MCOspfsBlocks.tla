--------------------------- MODULE MCOspfsBlocks ---------------------------
(* TLC instances of the block layer of OSPFS. *)
EXTENDS OspfsBlocks, TLC

CONSTANTS f1, f2, p1, p2

\* The words written are also numbers of blocks.
Stamps == [f \in Files |-> IF f = f1 THEN 1 ELSE 2]

\* The words written are numbers of blocks for which free_block does not return.
LoopingStamps == [f \in Files |-> SCAN]
=============================================================================
