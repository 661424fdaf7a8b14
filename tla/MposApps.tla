------------------------------ MODULE MposApps ------------------------------
(***************************************************************************)
(* The two MiniprocOS applications, mpos-app.c and mpos-app2.c, running on *)
(* the kernel of module MposKernel.  Every action is either a stretch of   *)
(* application code between two traps or a trap, handled by the kernel's   *)
(* action for it.  While a process executes, its saved registers are dead, *)
(* so p_registers[current] holds the registers of the CPU; %eip is one of  *)
(* the labels below.  Local variables live on the stack and are addressed  *)
(* from %esp, so they go wherever copy_stack() and the kernel put %esp.    *)
(***************************************************************************)
EXTENDS MposKernel

CONSTANTS
    LIMIT,   \* how many processes mpos-app2 starts (1025)
    YIELDS   \* how often mpos-app's child yields (20)

ASSUME AppAssumption ==
    /\ LIMIT \in Nat /\ YIELDS \in Nat
    /\ PROC_STACK_SIZE >= 4

VARIABLES
    program,  \* which application start() loaded: 1 or 2
    counter   \* mpos-app2's global variable, shared by its processes

appVars == <<vars, program, counter>>

\* Program points; both applications start at Entry.
Entry == 0
ForkCall == 1
Forked == 2
GetpidCall == 3
WaitCall == 4
Waited == 5
YieldCall == 6
Yielded == 7
Outer == 8
Inner == 9
AfterInner == 10
WaitLoop == 11
KillLoop == 12
Killed == 13
Lives == 14
ExitCall == 15
Labels == 0 .. 15

cur == p_registers[current]
At(label) == cpu = "user" /\ cur.eip = label

\* The local variable at offset k of the running function's frame.
Local(k) == mem[cur.esp + k]

\* Application code between traps: the registers become reg, and each local
\* of the frame at reg.esp named in the function new gets a new value.
Compute(reg, new) ==
    /\ p_registers' = [p_registers EXCEPT ![current] = reg]
    /\ mem' = [a \in StackAddrs |->
                 IF a - reg.esp \in DOMAIN new THEN new[a - reg.esp] ELSE mem[a]]
    /\ UNCHANGED <<p_state, p_wait, p_exit_status, current, cpu, program>>

Goto(label) == [cur EXCEPT !.eip = label]
NoLocals == [k \in {} |-> 0]
Locals(x, y) == [k \in {0, 1} |-> IF k = 0 THEN x ELSE y]
One(k, x) == [j \in {k} |-> x]

\* The trap frame of a call with eax as its argument that resumes at label.
Trap(eax, label) == [cur EXCEPT !.eax = eax, !.eip = label]

\* exit(status): the argument travels in %eax to the common exit trap.
GotoExit(status) == [cur EXCEPT !.eax = status, !.eip = ExitCall]

AppInit ==
    /\ Init
    /\ p_registers[1].eip = Entry
    /\ program \in {1, 2}
    /\ counter = 0

-----------------------------------------------------------------------------
(* Both applications: fork, and exit. *)

\* start(): a frame of two locals.  mpos-app: p and checker; mpos-app2: p and
\* n_started.  mpos-app forks at once, mpos-app2 enters its loop.
Start ==
    /\ At(Entry)
    /\ Compute([cur EXCEPT !.esp = @ - 2, !.eip = IF program = 1 THEN ForkCall ELSE Outer],
               Locals(0, 0))
    /\ UNCHANGED counter

CallFork ==
    /\ At(ForkCall)
    /\ SysFork(Trap(cur.eax, Forked))
    /\ UNCHANGED <<program, counter>>

CallExit ==
    /\ At(ExitCall)
    /\ SysExit(cur)
    /\ UNCHANGED <<program, counter>>

\* The sys_getpid() in the child's (and mpos-app's main) app_printf; it
\* resumes where the function goes on.
CallGetpid ==
    /\ At(GetpidCall)
    /\ SysGetpid(Trap(cur.eax, IF program = 2 THEN Lives
                               ELSE IF current = 1 THEN WaitCall ELSE YieldCall))
    /\ UNCHANGED <<program, counter>>

-----------------------------------------------------------------------------
(* mpos-app.c *)

\* The child enters run_child() with locals i and checker; the parent keeps p.
App1Forked ==
    /\ program = 1 /\ At(Forked)
    /\ \/ /\ cur.eax = 0
          /\ Compute([cur EXCEPT !.esp = @ - 2, !.eip = GetpidCall], Locals(0, 1))
       \/ /\ cur.eax # 0
          /\ IF cur.eax > 0 THEN Compute(Goto(GetpidCall), One(0, cur.eax))
                            ELSE Compute(GotoExit(1), NoLocals)
    /\ UNCHANGED counter

App1Wait ==
    /\ program = 1 /\ At(WaitCall)
    /\ SysWait(Trap(Local(0), Waited))
    /\ UNCHANGED <<program, counter>>

\* status, in %eax, decides whether to try again (WAIT_TRYAGAIN); otherwise
\* it is printed, checker is tested and the main process exits.
App1Waited ==
    /\ program = 1 /\ At(Waited)
    /\ Compute(IF cur.eax = -2 THEN Goto(WaitCall)
               ELSE GotoExit(IF Local(1) # 0 THEN 1 ELSE 0), NoLocals)
    /\ UNCHANGED counter

\* The loop of run_child(): one yield per iteration, then exit(1000).
App1Yield ==
    /\ program = 1 /\ At(YieldCall)
    /\ \/ Local(0) < YIELDS /\ SysYield(Trap(cur.eax, Yielded)) /\ UNCHANGED program
       \/ Local(0) >= YIELDS /\ Compute(GotoExit(1000), NoLocals)
    /\ UNCHANGED counter

App1Yielded ==
    /\ program = 1 /\ At(Yielded)
    /\ Compute(Goto(YieldCall), One(0, Local(0) + 1))
    /\ UNCHANGED counter

-----------------------------------------------------------------------------
(* mpos-app2.c *)

App2Outer ==
    /\ program = 2 /\ At(Outer)
    /\ \/ counter < LIMIT /\ Compute(Goto(Inner), One(1, 0))
       \/ counter >= LIMIT /\ Compute(GotoExit(0), NoLocals)
    /\ UNCHANGED counter

App2Inner ==
    /\ program = 2 /\ At(Inner)
    /\ Compute(Goto(IF counter + Local(1) < LIMIT THEN ForkCall ELSE AfterInner), NoLocals)
    /\ UNCHANGED counter

\* The child enters run_child(): input_counter = counter and i = 3.
App2Forked ==
    /\ program = 2 /\ At(Forked)
    /\ \/ /\ cur.eax = 0
          /\ Compute([cur EXCEPT !.esp = @ - 2, !.eip = KillLoop], Locals(3, counter))
       \/ cur.eax > 0 /\ Compute(Goto(Inner), One(1, Local(1) + 1))
       \/ cur.eax < 0 /\ Compute(Goto(AfterInner), NoLocals)
    /\ UNCHANGED counter

\* No process could be started: give up; else wait for 2, 3, ...
App2AfterInner ==
    /\ program = 2 /\ At(AfterInner)
    /\ IF Local(1) = 0 THEN Compute(GotoExit(0), NoLocals)
                       ELSE Compute(Goto(WaitLoop), One(0, 2))
    /\ UNCHANGED counter

App2WaitLoop ==
    /\ program = 2 /\ At(WaitLoop)
    /\ \/ Local(0) < NPROCS /\ SysWait(Trap(Local(0), Waited)) /\ UNCHANGED program
       \/ Local(0) >= NPROCS /\ Compute(Goto(Outer), NoLocals)
    /\ UNCHANGED counter

App2Waited ==
    /\ program = 2 /\ At(Waited)
    /\ Compute(Goto(WaitLoop), One(0, Local(0) + 1))
    /\ UNCHANGED counter

\* run_child(): kill the odd processes, then counter++.
App2KillLoop ==
    /\ program = 2 /\ At(KillLoop)
    /\ \/ /\ Local(0) < NPROCS
          /\ SysKill(Trap(Local(0), Killed))
          /\ UNCHANGED <<program, counter>>
       \/ /\ Local(0) >= NPROCS
          /\ Compute(Goto(GetpidCall), NoLocals)
          /\ counter' = counter + 1

App2Killed ==
    /\ program = 2 /\ At(Killed)
    /\ Compute(Goto(KillLoop), One(0, Local(0) + 2))
    /\ UNCHANGED counter

\* "Process %d lives", then exit(input_counter).
App2Lives ==
    /\ program = 2 /\ At(Lives)
    /\ Compute(GotoExit(Local(1)), NoLocals)
    /\ UNCHANGED counter

AppSpin == Spin /\ UNCHANGED <<program, counter>>

AppNext ==
    \/ Start \/ CallFork \/ CallExit \/ CallGetpid
    \/ App1Forked \/ App1Wait \/ App1Waited \/ App1Yield \/ App1Yielded
    \/ App2Outer \/ App2Inner \/ App2Forked \/ App2AfterInner \/ App2WaitLoop
    \/ App2Waited \/ App2KillLoop \/ App2Killed \/ App2Lives \/ AppSpin

\* The processor never stops executing instructions.
AppSpec == AppInit /\ [][AppNext]_appVars /\ WF_appVars(AppNext)

-----------------------------------------------------------------------------
(* Properties. *)

\* Whichever application runs, it comes to its end: all its processes have
\* exited, the main process with status 0, which for mpos-app says that the
\* child did not touch the parent's checker, and mpos-app2 did not give up
\* early but counted all its processes.
ApplicationsComplete ==
    <>(/\ cpu = "spin"
       /\ \A pid \in Pids : ~Live(pid)
       /\ p_state[1] = P_ZOMBIE /\ p_exit_status[1] = 0
       /\ program = 2 => counter >= LIMIT)

=============================================================================
