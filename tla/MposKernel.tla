----------------------------- MODULE MposKernel -----------------------------
(***************************************************************************)
(* The MiniprocOS kernel (weensyos1/mpos-kern.c): the process table, the   *)
(* system-call handler interrupt(), do_fork/copy_stack and the round-robin *)
(* scheduler.  Interrupts are off while the kernel runs and applications   *)
(* are never preempted, so one system call, up to the run() that leaves    *)
(* the kernel, is one action.  What an application does between two traps  *)
(* is left open: it may store into its own stack, and it traps with any    *)
(* register values that are possible for the call.                         *)
(***************************************************************************)
EXTENDS Integers

CONSTANTS
    NPROCS,            \* slots of proc_array; slot 0 is never used
    PROC1_STACK_ADDR,  \* lowest address of process 1's stack
    PROC_STACK_SIZE,   \* words in each process's stack
    Words,             \* what a stack word can hold
    CodeAddrs,         \* the values %eip (and a start_function) can take
    Depths,            \* how many words an application has pushed at a trap
    Statuses,          \* the exit statuses applications use
    Calls,             \* the system calls applications make
    Waiters            \* the processes that call sys_wait

AllCalls == {"getpid", "fork", "newthread", "yield", "exit", "kill", "wait", "undefined"}

ASSUME KernelAssumption ==
    /\ NPROCS \in Nat /\ NPROCS > 1
    /\ PROC1_STACK_ADDR \in Nat
    /\ PROC_STACK_SIZE \in Nat \ {0}
    /\ 0 \in Words
    /\ CodeAddrs \subseteq Nat /\ CodeAddrs # {}
    /\ Depths \subseteq 0 .. PROC_STACK_SIZE
    /\ Statuses \subseteq Int
    /\ Calls \subseteq AllCalls
    /\ Waiters \subseteq 1 .. NPROCS - 1

VARIABLES
    p_state,        \* proc_array[i].p_state
    p_wait,         \* proc_array[i].p_wait: who waits on i, 0 for nobody
    p_registers,    \* proc_array[i].p_registers: %eax, %esp and %eip
    p_exit_status,  \* proc_array[i].p_exit_status
    current,        \* the process whose descriptor `current' points to
    cpu,            \* "user": `current' executes; "spin": schedule() finds nobody
                    \* to run; "halt": the loop of the default case
    mem             \* the stack area, one word per address

vars == <<p_state, p_wait, p_registers, p_exit_status, current, cpu, mem>>

P_EMPTY == "empty"
P_RUNNABLE == "runnable"
P_BLOCKED == "blocked"
P_ZOMBIE == "zombie"

Slots == 0 .. NPROCS - 1
Pids == 1 .. NPROCS - 1
ProcStates == {P_EMPTY, P_RUNNABLE, P_BLOCKED, P_ZOMBIE}
StackAddrs == PROC1_STACK_ADDR .. PROC1_STACK_ADDR + (NPROCS - 1) * PROC_STACK_SIZE - 1
Registers == [eax : Int, esp : Int, eip : CodeAddrs]
Live(pid) == p_state[pid] \in {P_RUNNABLE, P_BLOCKED}

\* The word just above pid's stack, where its empty stack pointer points.
StackTop(pid) == PROC1_STACK_ADDR + pid * PROC_STACK_SIZE
StackOf(pid) == StackTop(pid) - PROC_STACK_SIZE .. StackTop(pid) - 1

-----------------------------------------------------------------------------
(* The state in which start() enters the first process. *)

Init ==
    /\ p_state = [i \in Slots |-> IF i = 1 THEN P_RUNNABLE ELSE P_EMPTY]
    /\ p_wait = [i \in Slots |-> 0]
    /\ p_exit_status = [i \in Slots |-> 0]
    /\ \E entry \in CodeAddrs :
         p_registers = [i \in Slots |->
            [eax |-> 0, esp |-> IF i = 1 THEN StackTop(1) ELSE 0, eip |-> entry]]
    /\ current = 1
    /\ cpu = "user"
    /\ mem = [a \in StackAddrs |-> 0]

-----------------------------------------------------------------------------
(* run() and schedule(): how every system call ends. *)

run(pid) ==
    /\ current' = pid
    /\ cpu' = "user"

\* How many slots schedule() looks at before it comes to pid.
Distance(pid) == (pid + NPROCS - current - 1) % NPROCS

\* Seeded fault: the scheduler stops before it comes back to current.
BadSchedule(st) ==
    \/ \E pid \in Slots \ {current} :
         /\ st[pid] = P_RUNNABLE
         /\ \A other \in Slots : st[other] = P_RUNNABLE => Distance(pid) <= Distance(other)
         /\ run(pid)
    \/ /\ \A pid \in Slots \ {current} : st[pid] # P_RUNNABLE
       /\ cpu' = "spin"
       /\ UNCHANGED current

\* schedule() as it finds the states st: the first runnable process after
\* current, current itself last; without one it loops forever.
schedule(st) ==
    \/ \E pid \in Slots :
         /\ st[pid] = P_RUNNABLE
         /\ \A other \in Slots : st[other] = P_RUNNABLE => Distance(pid) <= Distance(other)
         /\ run(pid)
    \/ /\ \A pid \in Slots : st[pid] # P_RUNNABLE
       /\ cpu' = "spin"
       /\ UNCHANGED current

-----------------------------------------------------------------------------
(* Helpers of the handlers. *)

\* Seeded fault: a zombie's slot counts as free.
BadFirstEmpty(pid) ==
    /\ ~Live(pid)
    /\ \A k \in Pids : ~Live(k) => pid <= k

\* The loop over pids 1 .. NPROCS-1 in do_fork() and sys_newthread.
FirstEmpty(pid) ==
    /\ p_state[pid] = P_EMPTY
    /\ \A k \in Pids : p_state[k] = P_EMPTY => pid <= k

TableFull == \A pid \in Pids : p_state[pid] # P_EMPTY

\* The descriptors after interrupt() saved the trap frame reg into current's.
Saved(reg) == [p_registers EXCEPT ![current] = reg]

\* copy_stack(): the stack pointer and the memory of dest, a copy of src's
\* stack from its stack pointer up.
CopiedEsp(dest, src, esp) == StackTop(dest) - (StackTop(src) - esp)
CopiedMem(dest, src, esp) ==
    [a \in StackAddrs |->
        IF a \in CopiedEsp(dest, src, esp) .. StackTop(dest) - 1
        THEN mem[esp + (a - CopiedEsp(dest, src, esp))]
        ELSE mem[a]]

\* Seeded faults: nobody is woken; the waiter stays recorded.
BadEndedNoWake(pid) == [p_state EXCEPT ![pid] = P_ZOMBIE]
BadEndedWait(pid) == p_wait

\* Ending pid: it becomes a zombie with the given status, and whoever waits
\* on it becomes runnable.
Ended(pid) ==
    LET dead == [p_state EXCEPT ![pid] = P_ZOMBIE]
    IN  IF p_wait[pid] # 0 THEN [dead EXCEPT ![p_wait[pid]] = P_RUNNABLE] ELSE dead
EndedWait(pid) == [p_wait EXCEPT ![pid] = 0]

-----------------------------------------------------------------------------
(* The cases of interrupt(); reg is the trap frame. *)

SysGetpid(reg) ==
    /\ p_registers' = [Saved(reg) EXCEPT ![current].eax = current]
    /\ run(current)
    /\ UNCHANGED <<p_state, p_wait, p_exit_status, mem>>

\* sys_fork and do_fork() with a free slot.
Fork(reg, child) ==
    /\ FirstEmpty(child)
    /\ p_registers' = [Saved(reg) EXCEPT
            ![child] = [eax |-> 0, esp |-> CopiedEsp(child, current, reg.esp), eip |-> reg.eip],
            ![current].eax = child]
    /\ p_state' = [p_state EXCEPT ![child] = P_RUNNABLE]
    /\ mem' = CopiedMem(child, current, reg.esp)
    /\ run(current)
    /\ UNCHANGED <<p_wait, p_exit_status>>

\* sys_fork without one.
ForkFails(reg) ==
    /\ TableFull
    /\ p_registers' = [Saved(reg) EXCEPT ![current].eax = -1]
    /\ run(current)
    /\ UNCHANGED <<p_state, p_wait, p_exit_status, mem>>

SysFork(reg) == (\E child \in Pids : Fork(reg, child)) \/ ForkFails(reg)

SysYield(reg) ==
    /\ p_registers' = Saved(reg)
    /\ schedule(p_state)
    /\ UNCHANGED <<p_state, p_wait, p_exit_status, mem>>

\* Seeded fault: the memset is twice as long as the stack.
BadNewThread(reg, child) ==
    /\ FirstEmpty(child)
    /\ p_state' = [p_state EXCEPT ![child] = P_RUNNABLE]
    /\ mem' = [a \in StackAddrs |->
                 IF a \in StackOf(child) \cup StackOf(child + 1) THEN 0 ELSE mem[a]]
    /\ p_registers' = [Saved(reg) EXCEPT
            ![child] = [eax |-> 0, esp |-> StackTop(child), eip |-> reg.eax],
            ![current].eax = child]
    /\ run(current)
    /\ UNCHANGED <<p_wait, p_exit_status>>

\* sys_newthread with a free slot: a cleared stack, cleared registers, and
\* the start function in %eip.
NewThread(reg, child) ==
    /\ FirstEmpty(child)
    /\ p_state' = [p_state EXCEPT ![child] = P_RUNNABLE]
    /\ mem' = [a \in StackAddrs |-> IF a \in StackOf(child) THEN 0 ELSE mem[a]]
    /\ p_registers' = [Saved(reg) EXCEPT
            ![child] = [eax |-> 0, esp |-> StackTop(child), eip |-> reg.eax],
            ![current].eax = child]
    /\ run(current)
    /\ UNCHANGED <<p_wait, p_exit_status>>

\* Without one the case has no run(current): it falls through into yield.
SysNewthread(reg) ==
    \/ \E child \in Pids : NewThread(reg, child)
    \/ TableFull /\ SysYield(reg)

SysExit(reg) ==
    /\ p_registers' = Saved(reg)
    /\ p_state' = Ended(current)
    /\ p_wait' = EndedWait(current)
    /\ p_exit_status' = [p_exit_status EXCEPT ![current] = reg.eax]
    /\ schedule(Ended(current))
    /\ UNCHANGED mem

\* Seeded fault: a process that kills itself returns.
BadKill(pid) ==
    /\ p_state' = Ended(pid)
    /\ p_wait' = EndedWait(pid)
    /\ p_exit_status' = [p_exit_status EXCEPT ![pid] = 5]
    /\ run(current)

\* sys_kill of a process that exists.
Kill(pid) ==
    /\ p_state' = Ended(pid)
    /\ p_wait' = EndedWait(pid)
    /\ p_exit_status' = [p_exit_status EXCEPT ![pid] = 5]
    /\ IF pid = current THEN schedule(Ended(pid)) ELSE run(current)

Killable(pid) == pid \in Pids /\ p_state[pid] # P_EMPTY

\* The pid is in %eax; a pid that does not exist is ignored.  (The handler
\* also loads proc_array[pid].p_wait before the range check; out of range the
\* loaded value is not used.)
SysKill(reg) ==
    /\ p_registers' = Saved(reg)
    /\ \/ Killable(reg.eax) /\ Kill(reg.eax)
       \/ /\ ~Killable(reg.eax)
          /\ run(current)
          /\ UNCHANGED <<p_state, p_wait, p_exit_status>>
    /\ UNCHANGED mem

Waitable(pid) == pid \in Pids /\ pid # current /\ p_state[pid] # P_EMPTY

\* sys_wait for a process that does not exist, or for the caller.
WaitFails(reg) ==
    /\ ~Waitable(reg.eax)
    /\ p_registers' = [Saved(reg) EXCEPT ![current].eax = -1]
    /\ schedule(p_state)
    /\ UNCHANGED <<p_state, p_wait>>

\* Seeded fault: the slot is not freed (the bug of Exercise 4).
BadReap(reg) ==
    /\ Waitable(reg.eax) /\ p_state[reg.eax] = P_ZOMBIE
    /\ p_registers' = [Saved(reg) EXCEPT ![current].eax = p_exit_status[reg.eax]]
    /\ schedule(p_state)
    /\ UNCHANGED <<p_state, p_wait>>

\* sys_wait for a zombie: return its status and free its slot.
Reap(reg) ==
    /\ Waitable(reg.eax) /\ p_state[reg.eax] = P_ZOMBIE
    /\ p_registers' = [Saved(reg) EXCEPT ![current].eax = p_exit_status[reg.eax]]
    /\ p_state' = [p_state EXCEPT ![reg.eax] = P_EMPTY]
    /\ schedule([p_state EXCEPT ![reg.eax] = P_EMPTY])
    /\ UNCHANGED p_wait

\* Seeded fault: WAIT_TRYAGAIN is returned, and the caller recorded anyway.
BadBlock(reg) ==
    /\ Waitable(reg.eax) /\ p_state[reg.eax] # P_ZOMBIE
    /\ p_registers' = [Saved(reg) EXCEPT ![current].eax = -2]
    /\ p_wait' = [p_wait EXCEPT ![reg.eax] = current]
    /\ schedule(p_state)
    /\ UNCHANGED p_state

\* sys_wait for a live process: block.  %eax keeps the pid waited for.
Block(reg) ==
    /\ Waitable(reg.eax) /\ p_state[reg.eax] # P_ZOMBIE
    /\ p_registers' = Saved(reg)
    /\ p_state' = [p_state EXCEPT ![current] = P_BLOCKED]
    /\ p_wait' = [p_wait EXCEPT ![reg.eax] = current]
    /\ schedule([p_state EXCEPT ![current] = P_BLOCKED])

SysWait(reg) ==
    /\ WaitFails(reg) \/ Reap(reg) \/ Block(reg)
    /\ UNCHANGED <<p_exit_status, mem>>

\* The default case: an interrupt number without a handler.
SysUndefined(reg) ==
    /\ p_registers' = Saved(reg)
    /\ cpu' = "halt"
    /\ UNCHANGED <<p_state, p_wait, p_exit_status, current, mem>>

-----------------------------------------------------------------------------
(* What applications do. *)

\* The trap frames current may have when %eax is one of the values in eax.
Frames(eax) ==
    [eax : eax, esp : {StackTop(current) - d : d \in Depths}, eip : CodeAddrs]

\* Any pid argument, out of range on both sides included.
PidArgs == -1 .. NPROCS

\* The application writes a word of its own stack.
Store ==
    /\ cpu = "user"
    /\ \E a \in StackOf(current), w \in Words : mem' = [mem EXCEPT ![a] = w]
    /\ UNCHANGED <<p_state, p_wait, p_registers, p_exit_status, current, cpu>>

\* The calls without an argument trap with whatever is in %eax.
Getpid == "getpid" \in Calls /\ cpu = "user" /\ \E reg \in Frames({0}) : SysGetpid(reg)
DoFork == "fork" \in Calls /\ cpu = "user" /\ \E reg \in Frames({0}) : SysFork(reg)
Yield == "yield" \in Calls /\ cpu = "user" /\ \E reg \in Frames({0}) : SysYield(reg)
Newthread == "newthread" \in Calls /\ cpu = "user" /\ \E reg \in Frames(CodeAddrs) : SysNewthread(reg)
Exit == "exit" \in Calls /\ cpu = "user" /\ \E reg \in Frames(Statuses) : SysExit(reg)
KillProc == "kill" \in Calls /\ cpu = "user" /\ \E reg \in Frames(PidArgs) : SysKill(reg)
Undefined == "undefined" \in Calls /\ cpu = "user" /\ \E reg \in Frames({0}) : SysUndefined(reg)
Wait ==
    /\ "wait" \in Calls /\ cpu = "user" /\ current \in Waiters
    /\ \E reg \in Frames(PidArgs) : SysWait(reg)

\* A kernel that spins stays in its loop.
Spin == cpu # "user" /\ UNCHANGED vars

Next ==
    \/ Store \/ Getpid \/ DoFork \/ Yield \/ Newthread
    \/ Exit \/ KillProc \/ Undefined \/ Wait \/ Spin

Spec == Init /\ [][Next]_vars

-----------------------------------------------------------------------------
(* Properties. *)

\* The types of the process table, the current pointer and the stack area.
TypeOK ==
    /\ p_state \in [Slots -> ProcStates]
    /\ p_wait \in [Slots -> Slots]
    /\ p_registers \in [Slots -> Registers]
    /\ p_exit_status \in [Slots -> Int]
    /\ current \in Pids
    /\ cpu \in {"user", "spin", "halt"}
    /\ mem \in [StackAddrs -> Words]

\* The kernel only ever returns to a runnable process: no handler leaves
\* through run(current) after it made current a zombie or blocked it, and the
\* scheduler, which also looks at slot 0, never enters the unused slot.
CurrentRunnable ==
    /\ cpu = "user" => p_state[current] = P_RUNNABLE
    /\ p_state[0] = P_EMPTY

\* A slot only records a waiter while its process is alive, and never itself.
\* So a slot that is reused by fork or newthread, neither of which touches
\* p_wait, starts without a waiter of its previous process.
WaitersOnLive ==
    \A q \in Slots : p_wait[q] # 0 => Live(q) /\ p_wait[q] # q

\* What a step leaves of the stacks of others, and what the stack and the
\* registers of a process that it creates are.
StackStep ==
    /\ \A pid \in Pids \ {current} : Live(pid) =>
          \A a \in StackOf(pid) : mem'[a] = mem[a]
    /\ \A child \in Pids :
          p_state[child] = P_EMPTY /\ p_state'[child] = P_RUNNABLE =>
             LET depth == StackTop(child) - p_registers'[child].esp
             IN  /\ depth \in 0 .. PROC_STACK_SIZE
                 /\ p_registers'[child].eax = 0
                 /\ p_registers'[current].eax = child
                 /\ \/ /\ p_registers'[current].esp = StackTop(current) - depth
                       /\ p_registers'[child].eip = p_registers'[current].eip
                       /\ \A k \in 1 .. depth :
                            mem'[StackTop(child) - k] = mem[StackTop(current) - k]
                    \/ depth = 0 /\ \A a \in StackOf(child) : mem'[a] = 0

\* Processes share an address space but not their stacks.  No step writes into
\* the stack of a live process that is not the one executing: copy_stack()'s
\* memcpy and newthread's memset stay inside the region of the slot that was
\* empty.  A process that is created has its stack pointer in its own region;
\* a fork child sees its parent's stack word for word and gets 0 from sys_fork
\* while the parent gets its pid; a new thread sees an empty stack.
StacksApart == [][StackStep]_vars

\* Whoever a step wakes is woken by the end of the process it asked for.
WakeStep ==
    \A pid \in Pids : p_state[pid] = P_BLOCKED /\ p_state'[pid] = P_RUNNABLE =>
        LET target == p_registers[pid].eax
        IN  target \in Pids /\ Live(target) /\ p_state'[target] = P_ZOMBIE

\* "Wait until the process with ID 'pid' exits": a process that blocks in
\* sys_wait is made runnable by the end of the process it waits for and by
\* nothing else, not by the next process in that slot or a record left from an
\* earlier wait, and then finds a zombie whose status a second sys_wait gets.
WokenByExit == [][WakeStep]_vars

\* As long as nobody uses sys_kill, a recorded waiter really is blocked on the
\* process that records it: waking it, which sys_exit does without looking at
\* its state, is the right thing to do.
WaiterBlocked ==
    \A q \in Pids : p_wait[q] # 0 =>
        /\ p_state[p_wait[q]] = P_BLOCKED
        /\ p_registers[p_wait[q]].eax = q

\* A process that has exited never runs again: its slot stays a zombie until
\* sys_wait empties it, and an empty slot only comes to life as the first free
\* slot of a fork or newthread.
ZombieStaysDead ==
    [][\A pid \in Pids :
          /\ p_state[pid] = P_ZOMBIE => p_state'[pid] \in {P_ZOMBIE, P_EMPTY}
          /\ p_state[pid] = P_EMPTY /\ p_state'[pid] # P_EMPTY => FirstEmpty(pid)]_vars

\* A blocked process has its wake-up arranged: the process it waits for is
\* alive and records it as its waiter.
NoMissedWakeup ==
    \A pid \in Pids : p_state[pid] = P_BLOCKED =>
        /\ p_registers[pid].eax \in Pids
        /\ Live(p_registers[pid].eax)
        /\ p_wait[p_registers[pid].eax] = pid

\* The kernel only spins when no process is left that could ever run.
SpinOnlyWhenAllDead == cpu = "spin" => \A pid \in Pids : ~Live(pid)

=============================================================================
