---------------------------- MODULE MCMposKernel ----------------------------
(* TLC instance of the MiniprocOS kernel: every system call, the first       *)
(* process waits.                                                            *)
EXTENDS MposKernel

MCCalls == AllCalls
OneWaiter == {1}
Entry == {9}
=============================================================================
