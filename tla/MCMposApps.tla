----------------------------- MODULE MCMposApps -----------------------------
(* The applications at the size the code gives them: 16 slots, 1025 children. *)
EXTENDS MposApps

NoCalls == {}
AllWords == Int
=============================================================================
