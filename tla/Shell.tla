-------------------------------- MODULE Shell --------------------------------
(***************************************************************************)
(* The profiling shell: a script is read (ShellRead) and then executed     *)
(* (ShellExec), and what it did is what sh makes of it.                    *)
(***************************************************************************)
EXTENDS ShellRead, ShellExec, FiniteSets

CONSTANT Profiled     \* the scripts that are run with -p

vars == <<script, array, index, scan, commands, phase, procs, queued, next, status, trace, logVars>>

Init == ReadInit /\ ExecInit /\ profiled = (script \in Profiled)

Next ==
    \/ ReadNext /\ UNCHANGED execVars
    \/ ExecNext /\ UNCHANGED readVars

Spec == Init /\ [][Next]_vars

-----------------------------------------------------------------------------
(***************************************************************************)
(* Properties.                                                             *)
(***************************************************************************)
(* The parser (make_command_stream) accepts the scripts that were written   *)
(* for command trees and gives exactly those trees back, whatever separators*)
(* the script uses, and it refuses the others.                              *)
ParsesRight ==
    /\ phase = "run" => commands = script.means /\ script.means # <<>>
    /\ phase = "error" => script.means = <<>>

(* The meaning of a command, as a walk over the history of what exited:     *)
(* st is its status, at the next event, dead that its process is gone.      *)
RECURSIVE Ref(_, _)
RECURSIVE RefLoop(_, _, _)
Stop(at) == [st |-> -1, at |-> at, dead |-> TRUE, log |-> <<>>]
Event(p, i, how) == i <= Len(trace) /\ trace[i].path = p /\ trace[i].how = how
After(first, second) == [second EXCEPT !.log = first.log \o @]
Ref(p, i) ==
    LET c == Node(p)
        sub(k, j) == Ref(Append(p, k), j)
        first == sub(1, i)
    IN CASE Event(p, i, "die") -> [st |-> 1, at |-> i + 1, dead |-> TRUE, log |-> <<>>]
         [] c.type = "SIMPLE" /\ Event(p, i, "exit") ->
              [st |-> trace[i].st, at |-> i + 1, dead |-> IsExec(c),
               log |-> IF IsExec(c) THEN <<>> ELSE <<Line(p, trace[i].st)>>]
         [] c.type = "SIMPLE" -> Stop(i)
         [] c.type = "SUBSHELL" /\ Event(p, i, "exit") ->
              [st |-> 1, at |-> i + 1, dead |-> FALSE, log |-> <<Line(p, 1)>>]
         [] c.type = "SUBSHELL" ->
              [first EXCEPT !.dead = first.st = -1, !.log = Append(@, Line(p, first.st))]
         [] c.type = "PIPE" ->
              IF first.st = -1 THEN first
              ELSE After([first EXCEPT !.log = Append(@, Line(p, 0))], sub(2, first.at))
         [] c.type = "SEQUENCE" -> IF first.dead THEN first ELSE After(first, sub(2, first.at))
         [] c.type = "IF" ->
              IF first.dead THEN first
              ELSE IF first.st = 0 THEN After(first, sub(2, first.at))
              ELSE IF Len(c.command) = 3 THEN After(first, sub(3, first.at))
              ELSE [first EXCEPT !.st = 0]
         [] OTHER -> RefLoop(p, i, 0)

RefLoop(p, i, last) ==
    LET cond == Ref(Append(p, 1), i)
        body == Ref(Append(p, 2), cond.at)
        goes == IF Node(p).type = "WHILE" THEN cond.st = 0 ELSE cond.st # 0
    IN IF cond.dead THEN cond
       ELSE IF ~goes THEN [cond EXCEPT !.st = last]
       ELSE IF body.dead THEN After(cond, body)
       ELSE After(cond, After(body, RefLoop(p, body.at, body.st)))

(* The whole shell: the status of its last command, or a failure if it     *)
(* could not write the profile to its end; and its own line.               *)
RECURSIVE RefFrom(_, _, _)
RefFrom(k, i, st) ==
    LET r == Ref(<<k>>, i)
        failed == st # 0 \/ (profiled /\ ~procs[1].log)
    IN IF k > Len(commands)
       THEN [st |-> IF commands # <<>> /\ failed THEN 1 ELSE 0, at |-> i, log |-> <<Line(<<>>, 0)>>]
       ELSE IF r.dead THEN [st |-> r.st, at |-> r.at, log |-> r.log]
       ELSE After(r, RefFrom(k + 1, r.at, r.st))
RefAll == IF Event(<<>>, 1, "die") THEN [st |-> 1, at |-> 2, log |-> <<>>] ELSE RefFrom(1, 1, 0)

(* When the shell ends, the commands that ran are the ones the tree calls    *)
(* for, in that order and that often, and the shell's status is the one of   *)
(* the last command as sh computes it, through every wait, subshell, exec    *)
(* and loop, or a failure if the shell could not write its profile.          *)
StatusRight ==
    status # -1 => RefAll.st = status /\ RefAll.at = Len(trace) + 1

(* The profile has a line for every process that was waited for, in the      *)
(* order in which they ended, whichever process of the shell wrote it, and   *)
(* the shell's own at the end; with the words of a command that succeeded.   *)
ProfileRight == status # -1 /\ profiled /\ ~lost => profile = RefAll.log
=============================================================================
