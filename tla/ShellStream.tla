----------------------------- MODULE ShellStream -----------------------------
(***************************************************************************)
(* The command stream of the profiling shell: what the parser (ShellRead)  *)
(* gives to the executor (ShellExec).  A command is a record of its type,  *)
(* its words, the commands it is made of (u.command) and the files its     *)
(* standard input and output are redirected to.                            *)
(***************************************************************************)
VARIABLES
    commands,         \* command_array
    phase             \* "start", "read", "error" (exit), "run"
=============================================================================
