------------------------------ MODULE ShellExec ------------------------------
(***************************************************************************)
(* The executor of the profiling shell: main.c's loop over the commands of *)
(* the command stream, and execute_command (execute-command.c) with the    *)
(* processes, descriptors and pipes it works with.                         *)
(*                                                                         *)
(* execute_command forks and then waits for the child, always: the         *)
(* processes form a stack of which only the last one runs.  A process is   *)
(* its descriptor table and its stack of execute_command calls; a forked   *)
(* child never returns from the call it was forked in, so it starts with   *)
(* that one frame.  A line of the profile is what it is about: the times   *)
(* in it are left out.                                                     *)
(***************************************************************************)
EXTENDS ShellStream, Integers, Sequences

CONSTANTS
    Writes(_),        \* external: the pieces of output a program writes
    PipeCap,          \* external: the pieces a pipe holds
    Faults,           \* calls that may fail: "open", "exec", "fork", "pipe", "write"
    MaxFd,            \* bound: the size of a descriptor table
    MaxRuns           \* bound: the programs a script runs

(* The standard streams, the script and the profile are open at the start. *)
ASSUME Descriptors == MaxFd \in Nat /\ MaxFd >= 4

VARIABLES
    procs,            \* the stack of processes
    queued,           \* external: the pieces in every pipe
    next,             \* the counter of the command stream
    status,           \* the exit status of the shell, -1 while it runs
    trace,            \* history: how every command that ended by exiting ended
    profiled,         \* -p: profile_name is given
    profile,          \* the lines of the profile
    lost              \* history: a line could not be written

logVars == <<profiled, profile, lost>>
execVars == <<procs, queued, next, status, trace, logVars>>

NoFd == <<"closed">>
Tty == <<"tty">>
Fds == 0 .. MaxFd

(* Standard streams and the script, which main leaves open while it runs. *)
BaseFds == [d \in Fds |-> CASE d \in 0 .. 2 -> Tty
                            [] d = 3 -> <<"script">>
                            [] OTHER -> NoFd]

Lowest(fd) == CHOOSE d \in Fds : fd[d] = NoFd /\ \A e \in 0 .. d - 1 : fd[e] # NoFd
OpenAt(fd, obj) == [fd EXCEPT ![Lowest(fd)] = obj]

(* ret is what the last command of the stream returned (its status field),  *)
(* log that the process's copy of profiling is a descriptor, not -1.        *)
Process(fd, frames, ret, log) == [fd |-> fd, frames |-> frames, ret |-> ret, log |-> log]

ExecInit ==
    /\ profiled \in BOOLEAN
    /\ procs = <<Process(IF profiled THEN OpenAt(BaseFds, <<"profile">>) ELSE BaseFds, <<>>, 0, profiled)>>
    /\ queued = [p \in {} |-> 0]
    /\ next = 1
    /\ status = -1
    /\ trace = <<>>
    /\ profile = <<>> /\ lost = FALSE

-----------------------------------------------------------------------------
(***************************************************************************)
(* Commands are named by their path: the number of the command in the      *)
(* stream, then the entries of u.command.                                  *)
(***************************************************************************)
CommandAt(stream, p) ==
    LET at[n \in 1 .. Len(p)] == IF n = 1 THEN stream[p[1]] ELSE at[n - 1].command[p[n]]
    IN at[Len(p)]
Node(p) == CommandAt(commands, p)

File(p, how) == <<"file", p, how>>
PipeEnd(p, how) == <<"pipe", p, how>>

(* Bound: set_redirect and pipe find the last four descriptors free. *)
Room(fd) == \A d \in MaxFd - 3 .. MaxFd : fd[d] = NoFd

Closed(fd, S) == [d \in Fds |-> IF d \in S THEN NoFd ELSE fd[d]]

(* open, dup the old descriptor d, dup2 the file over it: where[1] is the *)
(* copy and where[2] the file.                                            *)
Redirected(r, d, obj) ==
    LET file == Lowest(r.fd)
        fd1 == [r.fd EXCEPT ![file] = obj]
        copy == Lowest(fd1)
    IN [fd |-> [fd1 EXCEPT ![copy] = fd1[d], ![d] = obj],
        fds |-> [r.fds EXCEPT ![d] = copy, ![d + 2] = file]]

NoFds == [i \in 0 .. 3 |-> -1]

set_redirect(fd, p, c) ==
    LET r0 == [fd |-> fd, fds |-> NoFds]
        r1 == IF c.input = <<>> THEN r0 ELSE Redirected(r0, 0, File(p, "in"))
    IN IF c.output = <<>> THEN r1 ELSE Redirected(r1, 1, File(p, "out"))

(* close the file, dup2 the copy back, close the copy. *)
Restored(fd, fds, d) ==
    IF fds[d + 2] < 0 THEN fd
    ELSE Closed([fd EXCEPT ![d] = fd[fds[d]]], {fds[d], fds[d + 2]})

reset_redirect(fd, fds) == Restored(Restored(fd, fds, 0), fds, 1)

HasRedirect(c) == c.input # <<>> \/ c.output # <<>>

-----------------------------------------------------------------------------
(***************************************************************************)
(* The running process, its innermost call, and how they change.           *)
(***************************************************************************)
P == procs[Len(procs)]
F == P.frames[Len(P.frames)]
Running == phase = "run" /\ status = -1
At(pc) == Running /\ P.frames # <<>> /\ F.pc = pc
Calls(types) == At("call") /\ Node(F.path).type \in types

Others == SubSeq(procs, 1, Len(procs) - 1)
Callers == SubSeq(P.frames, 1, Len(P.frames) - 1)

NewFrame(p, fd) == [path |-> p, pc |-> "call", ret |-> 0, last |-> 0,
                    fds |-> NoFds, pipefd |-> <<-1, -1>>, left |-> 0, entry |-> fd]

(* The process goes on with frame f and, if p is a path, calls p. *)
Goes(f, fd) == procs' = Append(Others, Process(fd, Append(Callers, f), P.ret, P.log))
LogsAndGoesTo(log, f, fd, p) ==
    procs' = Append(Others, Process(fd, Callers \o <<f, NewFrame(p, fd)>>, P.ret, log))
GoesTo(f, fd, p) == LogsAndGoesTo(P.log, f, fd, p)

(* execute_command returns st to its caller. *)
LogsAndReturns(log, st, fd) ==
    procs' = Append(Others,
               IF Callers = <<>> THEN Process(fd, <<>>, st, log)
               ELSE Process(fd, [Callers EXCEPT ![Len(Callers)].ret = st], P.ret, log))
Returns(st, fd) == LogsAndReturns(P.log, st, fd)

(* A line of the profile: the command it is about, and whether it shows the *)
(* command's words or the process's number.  The shell's own is about <<>>. *)
Line(p, st) == [about |-> p, shows |-> IF p # <<>> /\ Node(p).type = "SIMPLE" /\ st = 0
                                       THEN "words" ELSE "pid"]

(* The process writes the line if it logs, and stops logging if that fails. *)
(* Bound: one write fails.                                                  *)
Logs(line, log) ==
    \/ /\ P.log /\ log
       /\ profile' = Append(profile, line)
       /\ UNCHANGED <<profiled, lost>>
    \/ /\ P.log /\ ~log /\ "write" \in Faults /\ ~lost
       /\ lost' = TRUE
       /\ UNCHANGED <<profiled, profile>>
    \/ ~P.log /\ ~log /\ UNCHANGED logVars

(* exit(st): the parent's waitpid returns; without a parent the shell ends. *)
Exits(st) ==
    IF Others = <<>>
      THEN status' = st /\ UNCHANGED procs
      ELSE LET n == Len(Others) m == Len(Others[n].frames) IN
           /\ procs' = [Others EXCEPT ![n].frames[m].ret = st,
                                      ![n].frames[m].pc = "waited"]
           /\ UNCHANGED status

(* Seeded fault: the profile does not reach the child. *)
BadInherited == FALSE

(* The child's copy of profiling. *)
Inherited == P.log

(* A child in frame f with descriptors cfd; the parent waits in frame g. *)
Forks(f, cfd, g, pfd) ==
    procs' = Others \o <<Process(pfd, Append(Callers, g), P.ret, P.log),
                         Process(cfd, <<f>>, 0, Inherited)>>

Noted(how, st) == trace' = Append(trace, [path |-> F.path, how |-> how, st |-> st])

(* The calls that end the process itself with exit(1). *)
Dies == Noted("die", 1) /\ Exits(1) /\ UNCHANGED <<queued, next, logVars>>

-----------------------------------------------------------------------------
(***************************************************************************)
(* execute_command, case by case.                                          *)
(***************************************************************************)
IsExec(c) == Head(c.word) = <<"exec">>

(* The program a simple command names: after exec, the word that follows. *)
Program(c) == LET w == IF IsExec(c) THEN c.word[2] ELSE c.word[1] IN w[1]

(* SIMPLE: fork a child; exec runs in the shell's own process. *)
Simple ==
    /\ Calls({"SIMPLE"}) /\ Len(trace) < MaxRuns
    /\ IF IsExec(Node(F.path))
         THEN Goes([F EXCEPT !.pc = "exec"], P.fd)
         ELSE Forks([F EXCEPT !.pc = "exec"], P.fd, [F EXCEPT !.pc = "wait"], P.fd)
    /\ UNCHANGED <<queued, next, status, trace, logVars>>

(* set_redirect and execvp: the process becomes the program. *)
Exec ==
    /\ At("exec") /\ Room(P.fd)
    /\ LET r == set_redirect(P.fd, F.path, Node(F.path)) IN
       procs' = Append(Others, Process(r.fd,
                  <<[F EXCEPT !.pc = "program", !.left = Writes(Program(Node(F.path)))]>>, 0, P.log))
    /\ UNCHANGED <<queued, next, status, trace, logVars>>

(* A file that cannot be opened, or a program that is not found: exit(1). *)
ExecFails ==
    /\ At("exec")
    /\ \/ "open" \in Faults /\ HasRedirect(Node(F.path))
       \/ "exec" \in Faults
    /\ Noted("exit", 1) /\ Exits(1)
    /\ UNCHANGED <<queued, next, logVars>>

(* The program writes its output, and blocks while the pipe is full. *)
ProgramWrites ==
    /\ At("program") /\ F.left > 0
    /\ LET out == P.fd[1] IN
       IF out[1] = "pipe"
         THEN queued[out[2]] < PipeCap /\ queued' = [queued EXCEPT ![out[2]] = @ + 1]
         ELSE UNCHANGED queued
    /\ Goes([F EXCEPT !.left = @ - 1], P.fd)
    /\ UNCHANGED <<next, status, trace, logVars>>

ProgramExits ==
    /\ At("program") /\ F.left = 0
    /\ \E st \in {0, 1} : Noted("exit", st) /\ Exits(st)
    /\ UNCHANGED <<queued, next, logVars>>

(* waitpid has returned for a simple command or a subshell: c->status, and *)
(* a line of the profile.                                                  *)
Waited ==
    /\ At("waited") /\ Node(F.path).type \in {"SIMPLE", "SUBSHELL"}
    /\ \E log \in BOOLEAN :
         Logs(Line(F.path, F.ret), log) /\ LogsAndReturns(log, F.ret, P.fd)
    /\ UNCHANGED <<queued, next, status, trace>>

Sequence ==
    /\ Calls({"SEQUENCE"})
    /\ GoesTo([F EXCEPT !.pc = "first"], P.fd, Append(F.path, 1))
    /\ UNCHANGED <<queued, next, status, trace, logVars>>

SequenceSecond ==
    /\ At("first")
    /\ GoesTo([F EXCEPT !.pc = "second"], P.fd, Append(F.path, 2))
    /\ UNCHANGED <<queued, next, status, trace, logVars>>

SequenceEnd ==
    /\ At("second")
    /\ Returns(F.ret, P.fd)
    /\ UNCHANGED <<queued, next, status, trace, logVars>>

Subshell ==
    /\ Calls({"SUBSHELL"})
    /\ Forks([F EXCEPT !.pc = "subshell"], P.fd, [F EXCEPT !.pc = "wait"], P.fd)
    /\ UNCHANGED <<queued, next, status, trace, logVars>>

SubshellRuns ==
    /\ At("subshell") /\ Room(P.fd)
    /\ LET r == set_redirect(P.fd, F.path, Node(F.path)) IN
       GoesTo([F EXCEPT !.pc = "subshell_end", !.fds = r.fds], r.fd, Append(F.path, 1))
    /\ UNCHANGED <<queued, next, status, trace, logVars>>

SubshellFails ==
    /\ At("subshell") /\ "open" \in Faults /\ HasRedirect(Node(F.path))
    /\ Noted("exit", 1) /\ Exits(1)
    /\ UNCHANGED <<queued, next, logVars>>

SubshellEnd ==
    /\ At("subshell_end")
    /\ Exits(F.ret)
    /\ UNCHANGED <<queued, next, trace, logVars>>

(* PIPE: the child's standard output is the pipe's write end and it runs  *)
(* the left command; the parent makes the read end its standard input and *)
(* waits for the child before it runs the right command.                  *)
(* Seeded fault: the child's standard output stays what it was. *)
BadPipeLeftFds(fd, r, w) == Closed(fd, {r})

PipeLeftFds(fd, r, w) == Closed([fd EXCEPT ![1] = fd[w]], {r})

(* Seeded fault: the parent keeps the write end. *)
BadPipeRightFds(fd, r, w) ==
    LET copy == Lowest(fd) IN
    [fd |-> [fd EXCEPT ![copy] = fd[0], ![0] = fd[r]], copy |-> copy]

PipeRightFds(fd, r, w) ==
    LET copy == Lowest(fd) IN
    [fd |-> [Closed([fd EXCEPT ![copy] = fd[0]], {w}) EXCEPT ![0] = fd[r]], copy |-> copy]

PipeForks ==
    /\ Calls({"PIPE"}) /\ Room(P.fd)
    /\ LET fd1 == OpenAt(P.fd, PipeEnd(F.path, "r"))
           fd2 == OpenAt(fd1, PipeEnd(F.path, "w"))
           r == Lowest(P.fd)
           w == Lowest(fd1)
           right == PipeRightFds(fd2, r, w)
           f == [F EXCEPT !.pipefd = <<r, w>>]
       IN Forks([f EXCEPT !.pc = "left"], PipeLeftFds(fd2, r, w),
                [f EXCEPT !.pc = "wait", !.fds[0] = right.copy], right.fd)
    /\ queued' = [p \in DOMAIN queued \union {F.path} |->
                    IF p = F.path THEN 0 ELSE queued[p]]
    /\ UNCHANGED <<next, status, trace, logVars>>

PipeLeft ==
    /\ At("left")
    /\ GoesTo([F EXCEPT !.pc = "left_end"], P.fd, Append(F.path, 1))
    /\ UNCHANGED <<queued, next, status, trace, logVars>>

(* The child closes its ends of the pipe and exits; with a status it never *)
(* set, which the parent does not look at.                                 *)
PipeLeftEnd ==
    /\ At("left_end")
    /\ Exits(0)
    /\ UNCHANGED <<queued, next, trace, logVars>>

PipeRight ==
    /\ At("waited") /\ Node(F.path).type = "PIPE"
    /\ \E log \in BOOLEAN :
         /\ Logs(Line(F.path, 0), log)
         /\ LogsAndGoesTo(log, [F EXCEPT !.pc = "right"], P.fd, Append(F.path, 2))
    /\ UNCHANGED <<queued, next, status, trace>>

(* Seeded fault: the copy of standard input stays open. *)
BadPipeRestored(fd, f) == Closed([fd EXCEPT ![0] = fd[f.fds[0]]], {f.pipefd[1]})

PipeRestored(fd, f) ==
    Closed([fd EXCEPT ![0] = fd[f.fds[0]]], {f.pipefd[1], f.fds[0]})

PipeRightEnd ==
    /\ At("right")
    /\ Returns(F.ret, PipeRestored(P.fd, F))
    /\ queued' = [p \in DOMAIN queued \ {F.path} |-> queued[p]]
    /\ UNCHANGED <<next, status, trace, logVars>>

(* IF, WHILE and UNTIL redirect the shell's own descriptors, then run the *)
(* condition.                                                             *)
Condition ==
    /\ Calls({"IF", "WHILE", "UNTIL"}) /\ Room(P.fd)
    /\ LET r == set_redirect(P.fd, F.path, Node(F.path)) IN
       GoesTo([F EXCEPT !.pc = "condition", !.fds = r.fds], r.fd, Append(F.path, 1))
    /\ UNCHANGED <<queued, next, status, trace, logVars>>

ConditionFails ==
    /\ Calls({"IF", "WHILE", "UNTIL"})
    /\ "open" \in Faults /\ HasRedirect(Node(F.path))
    /\ Dies

(* Seeded fault: until goes on while its condition succeeds. *)
BadBranch(c, ret) ==
    CASE c.type = "IF" -> IF ret = 0 THEN 2 ELSE IF Len(c.command) = 3 THEN 3 ELSE 0
      [] c.type \in {"WHILE", "UNTIL"} -> IF ret = 0 THEN 2 ELSE 0

(* The entry of u.command that runs next, 0 when the command is over. *)
Branch(c, ret) ==
    CASE c.type = "IF" -> IF ret = 0 THEN 2 ELSE IF Len(c.command) = 3 THEN 3 ELSE 0
      [] c.type = "WHILE" -> IF ret = 0 THEN 2 ELSE 0
      [] c.type = "UNTIL" -> IF ret # 0 THEN 2 ELSE 0

Body ==
    /\ At("condition") /\ Branch(Node(F.path), F.ret) # 0
    /\ GoesTo([F EXCEPT !.pc = "body"], P.fd,
              Append(F.path, Branch(Node(F.path), F.ret)))
    /\ UNCHANGED <<queued, next, status, trace, logVars>>

(* The condition ends the command: c->status is the last body's, or 0. *)
NoBody ==
    /\ At("condition") /\ Branch(Node(F.path), F.ret) = 0
    /\ Returns(F.last, reset_redirect(P.fd, F.fds))
    /\ UNCHANGED <<queued, next, status, trace, logVars>>

IfEnd ==
    /\ At("body") /\ Node(F.path).type = "IF"
    /\ Returns(F.ret, reset_redirect(P.fd, F.fds))
    /\ UNCHANGED <<queued, next, status, trace, logVars>>

LoopAgain ==
    /\ At("body") /\ Node(F.path).type # "IF"
    /\ GoesTo([F EXCEPT !.pc = "condition", !.last = F.ret], P.fd, Append(F.path, 1))
    /\ UNCHANGED <<queued, next, status, trace, logVars>>

(* fork or pipe fails: the process that called it exits. *)
CallFails ==
    /\ \/ "fork" \in Faults /\ Calls({"SIMPLE", "SUBSHELL", "PIPE"})
          /\ ~(Node(F.path).type = "SIMPLE" /\ IsExec(Node(F.path)))
       \/ "pipe" \in Faults /\ Calls({"PIPE"})
    /\ Dies

-----------------------------------------------------------------------------
(***************************************************************************)
(* main: read_command_stream hands out the commands one after the other;   *)
(* the shell's status says whether the last one failed.                    *)
(***************************************************************************)
Idle == Running /\ Len(procs) = 1 /\ procs[1].frames = <<>>

NextCommand ==
    /\ Idle /\ next <= Len(commands)
    /\ procs' = <<[procs[1] EXCEPT !.frames = <<NewFrame(<<next>>, procs[1].fd)>>]>>
    /\ next' = next + 1
    /\ UNCHANGED <<queued, status, trace, logVars>>

(* The profile cannot be opened: error. *)
PrepareFails ==
    /\ Idle /\ next = 1 /\ profiled /\ "open" \in Faults
    /\ status' = 1
    /\ trace' = <<[path |-> <<>>, how |-> "die", st |-> 1]>>
    /\ UNCHANGED <<procs, queued, next, logVars>>

MainEnds ==
    /\ Idle /\ next > Len(commands)
    /\ \E log \in BOOLEAN :
         /\ Logs(Line(<<>>, 0), log)
         /\ procs' = <<[procs[1] EXCEPT !.log = log]>>
         /\ status' = IF commands # <<>> /\ (procs[1].ret # 0 \/ (profiled /\ ~log)) THEN 1 ELSE 0
    /\ UNCHANGED <<queued, next, trace>>

ExecNext ==
    \/ PrepareFails \/ NextCommand \/ MainEnds
    \/ Simple \/ Exec \/ ExecFails \/ ProgramWrites \/ ProgramExits \/ Waited
    \/ Sequence \/ SequenceSecond \/ SequenceEnd
    \/ Subshell \/ SubshellRuns \/ SubshellFails \/ SubshellEnd
    \/ PipeForks \/ PipeLeft \/ PipeLeftEnd \/ PipeRight \/ PipeRightEnd
    \/ Condition \/ ConditionFails \/ Body \/ NoBody \/ IfEnd \/ LoopAgain
    \/ CallFails

(* Until the parser is done nothing runs; from then on the command stream  *)
(* stays what it is.                                                       *)
Step ==
    \/ phase # "run" /\ UNCHANGED execVars
    \/ ExecNext /\ UNCHANGED <<commands, phase>>
ExecSpec == ExecInit /\ [][Step]_<<commands, phase, execVars>>

-----------------------------------------------------------------------------
(***************************************************************************)
(* Properties.                                                             *)
(***************************************************************************)
(* What sh makes of the tree: the standard input (d = 0) and output (d = 1) *)
(* of the command at path p are the ones of the innermost command around it *)
(* that has a redirection or is a side of a pipe.                           *)
Up(p) == SubSeq(p, 1, Len(p) - 1)
Redirects(c, d) ==
    /\ c.type \notin {"SEQUENCE", "PIPE"}
    /\ IF d = 0 THEN c.input # <<>> ELSE c.output # <<>>
Side(d) == IF d = 0 THEN 2 ELSE 1
EndOf(p, d) == PipeEnd(p, IF d = 0 THEN "r" ELSE "w")
Piped(stream, p, d) ==
    Len(p) > 1 /\ CommandAt(stream, Up(p)).type = "PIPE" /\ p[Len(p)] = Side(d)
Gives(stream, p, d) ==
    IF Redirects(CommandAt(stream, p), d) THEN {File(p, IF d = 0 THEN "in" ELSE "out")}
    ELSE IF Piped(stream, p, d) THEN {EndOf(Up(p), d)} ELSE {}
StreamIs(stream, p, d, obj) ==
    \E n \in 0 .. Len(p) :
      /\ obj \in IF n = 0 THEN {Tty} ELSE Gives(stream, SubSeq(p, 1, n), d)
      /\ \A m \in n + 1 .. Len(p) : Gives(stream, SubSeq(p, 1, m), d) = {}

(* Every program runs with the standard input and output that its place in  *)
(* the tree gives it: the dup2, close and reset_redirect calls of every      *)
(* command that ran before it, and of those around it, leave nothing behind.*)
StdStreams ==
    At("program") => \A d \in {0, 1} : StreamIs(commands, F.path, d, P.fd[d])

(* execute_command returns with the descriptors it was called with: nothing *)
(* is leaked (a loop would run out of descriptors) and nothing stays         *)
(* redirected.                                                              *)
Popped == /\ Running /\ P.frames # <<>> /\ F.pc # "exec"
          /\ Len(procs') = Len(procs)
          /\ Len(procs'[Len(procs)].frames) = Len(P.frames) - 1
FdsRestored == [][Popped => procs'[Len(procs)].fd = F.entry]_execVars

Holds(i, obj) == \E d \in Fds : procs[i].fd[d] = obj

(* When the right command of a pipe runs, no process of the shell holds the *)
(* write end any more, so that its reader sees the end of file; while the   *)
(* left command runs, its reader is there, so that a write is not killed.   *)
PipeEndsHeld ==
    \A i \in 1 .. Len(procs) : \A k \in 1 .. Len(procs[i].frames) :
      LET f == procs[i].frames[k] IN
      /\ f.pc = "right" => \A j \in 1 .. Len(procs) : ~Holds(j, PipeEnd(f.path, "w"))
      /\ f.pc = "left_end" => \E j \in 1 .. i - 1 : Holds(j, PipeEnd(f.path, "r"))
=============================================================================
