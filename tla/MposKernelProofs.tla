-------------------------- MODULE MposKernelProofs --------------------------
(***************************************************************************)
(* What is proved of the MiniprocOS kernel for every number of slots,      *)
(* every stack size and every application behaviour.                       *)
(***************************************************************************)
EXTENDS MposKernel, TLAPS

-----------------------------------------------------------------------------
(* Facts about the operators. *)

\* Products of naturals are monotone; this is all the arithmetic the layout
\* of the stack area needs.
LEMMA Monotone ==
    \A a, b, c \in Nat : a <= b => a * c <= b * c
  OBVIOUS

\* The top of a process's stack is an address, its stack lies inside the
\* stack area.
LEMMA StackLayout ==
    ASSUME NEW pid \in Pids
    PROVE  /\ StackTop(pid) \in Int
           /\ PROC1_STACK_ADDR <= StackTop(pid) - PROC_STACK_SIZE
           /\ StackTop(pid) <= PROC1_STACK_ADDR + (NPROCS - 1) * PROC_STACK_SIZE
  <1> USE KernelAssumption
  <1>1. pid \in Nat /\ 1 <= pid /\ pid <= NPROCS - 1 /\ NPROCS - 1 \in Nat
    BY DEF Pids
  <1>2. 1 * PROC_STACK_SIZE <= pid * PROC_STACK_SIZE
    BY <1>1, Monotone
  <1>3. pid * PROC_STACK_SIZE <= (NPROCS - 1) * PROC_STACK_SIZE
    BY <1>1, Monotone
  <1>4. pid * PROC_STACK_SIZE \in Int /\ (NPROCS - 1) * PROC_STACK_SIZE \in Int
    BY <1>1
  <1> QED  BY <1>1, <1>2, <1>3, <1>4 DEF StackTop

\* schedule() enters a runnable process or spins, and never enters slot 0.
LEMMA ScheduleEnters ==
    \A st : /\ current \in Pids
            /\ st[0] = P_EMPTY
            /\ schedule(st)
            => /\ current' \in Pids
               /\ cpu' \in {"user", "spin"}
               /\ cpu' = "user" => st[current'] = P_RUNNABLE
               /\ cpu' = "spin" => \A pid \in Slots : st[pid] # P_RUNNABLE
  BY KernelAssumption DEF schedule, run, Slots, Pids, P_EMPTY, P_RUNNABLE

\* A trap frame holds integers, a code address, and a stack pointer inside
\* the stack of the process that traps.
LEMMA FrameType ==
    ASSUME TypeOK, NEW E, E \subseteq Int, NEW reg \in Frames(E)
    PROVE  /\ reg \in Registers
           /\ reg.eax \in E
           /\ reg.esp <= StackTop(current)
           /\ StackTop(current) - PROC_STACK_SIZE <= reg.esp
  <1>1. current \in Pids  BY DEF TypeOK
  <1>2. StackTop(current) \in Int  BY <1>1, StackLayout
  <1>3. reg.eax \in E /\ reg.eip \in CodeAddrs
    BY DEF Frames
  <1>4. PICK d \in Depths : reg.esp = StackTop(current) - d
    BY DEF Frames
  <1>5. d \in Int /\ 0 <= d /\ d <= PROC_STACK_SIZE
    BY KernelAssumption
  <1>6. reg = [eax |-> reg.eax, esp |-> reg.esp, eip |-> reg.eip]
    BY DEF Frames
  <1>7. reg \in Registers
    BY <1>2, <1>3, <1>4, <1>5, <1>6 DEF Registers
  <1> QED  BY <1>2, <1>3, <1>4, <1>5, <1>7, KernelAssumption

-----------------------------------------------------------------------------
(* The process table is well formed. *)

\* The inductive invariant of the whole kernel.
KernelInv == TypeOK /\ CurrentRunnable /\ WaitersOnLive

\* It holds when start() enters the first process.
LEMMA InitKernelInv == Init => KernelInv
  <1> SUFFICES ASSUME Init PROVE KernelInv  OBVIOUS
  <1> USE KernelAssumption DEF Init
  <1>1. 1 \in Pids /\ 0 \in Slots /\ 1 \in Slots /\ Pids \subseteq Slots
    BY DEF Pids, Slots
  <1>2. StackTop(1) \in Int
    BY <1>1, StackLayout
  <1>3. p_registers \in [Slots -> Registers]
    BY <1>2 DEF Registers
  <1>4. TypeOK
    BY <1>1, <1>3 DEF TypeOK, ProcStates, P_EMPTY, P_RUNNABLE
  <1>5. CurrentRunnable
    BY <1>1 DEF CurrentRunnable, P_EMPTY, P_RUNNABLE
  <1>6. WaitersOnLive
    BY DEF WaitersOnLive
  <1> QED  BY <1>4, <1>5, <1>6 DEF KernelInv

\* Ending a process: the table keeps its type, slot 0 stays empty, and the
\* waiter that is woken is not the process that ended.
LEMMA EndedFacts ==
    ASSUME KernelInv, NEW pid \in Pids, p_state[pid] # P_EMPTY
    PROVE  /\ Ended(pid) \in [Slots -> ProcStates]
           /\ EndedWait(pid) \in [Slots -> Slots]
           /\ Ended(pid)[0] = P_EMPTY
           /\ Ended(pid)[pid] = P_ZOMBIE
           /\ \A q \in Slots \ {pid} :
                 \/ Ended(pid)[q] = p_state[q]
                 \/ q = p_wait[pid] /\ q # 0 /\ Ended(pid)[q] = P_RUNNABLE
           /\ p_wait[pid] # 0 => Ended(pid)[p_wait[pid]] = P_RUNNABLE
  <1>1. pid \in Slots /\ pid # 0 /\ 0 \in Slots
    BY KernelAssumption DEF Pids, Slots
  <1>2. p_wait[pid] \in Slots /\ p_wait[pid] # pid
    BY <1>1 DEF KernelInv, TypeOK, WaitersOnLive
  <1> QED
    BY <1>1, <1>2 DEF KernelInv, TypeOK, CurrentRunnable, Ended, EndedWait,
       ProcStates, P_EMPTY, P_ZOMBIE, P_RUNNABLE

\* The memory copy_stack() leaves is well typed: it reads inside the area.
LEMMA CopiedMemType ==
    ASSUME TypeOK, NEW child \in Pids, NEW esp \in Int,
           esp <= StackTop(current), StackTop(current) - PROC_STACK_SIZE <= esp
    PROVE  /\ CopiedMem(child, current, esp) \in [StackAddrs -> Words]
           /\ CopiedEsp(child, current, esp) \in Int
  <1>1. current \in Pids  BY DEF TypeOK
  <1>2. CopiedEsp(child, current, esp) \in Int
    BY <1>1, StackLayout DEF CopiedEsp
  <1>3. ASSUME NEW a \in StackAddrs,
               a \in CopiedEsp(child, current, esp) .. StackTop(child) - 1
        PROVE  esp + (a - CopiedEsp(child, current, esp)) \in StackAddrs
    <2> DEFINE high == (NPROCS - 1) * PROC_STACK_SIZE
    <2>1. /\ StackTop(current) \in Int /\ StackTop(child) \in Int
          /\ PROC1_STACK_ADDR <= StackTop(current) - PROC_STACK_SIZE
          /\ StackTop(current) <= PROC1_STACK_ADDR + high
      BY <1>1, StackLayout
    <2>2. high \in Int /\ PROC1_STACK_ADDR \in Int /\ PROC_STACK_SIZE \in Int
      BY KernelAssumption
    <2>3. a \in Int /\ CopiedEsp(child, current, esp) <= a /\ a <= StackTop(child) - 1
      BY <1>2, <1>3, <2>1, <2>2 DEF StackAddrs
    <2>4. CopiedEsp(child, current, esp) = StackTop(child) - (StackTop(current) - esp)
      BY DEF CopiedEsp
    <2> HIDE DEF high
    <2>5. esp + (a - CopiedEsp(child, current, esp)) \in PROC1_STACK_ADDR .. PROC1_STACK_ADDR + high - 1
      BY <2>1, <2>2, <2>3, <2>4
    <2> QED  BY <2>5 DEF StackAddrs, high
  <1>4. CopiedMem(child, current, esp) \in [StackAddrs -> Words]
    BY <1>3 DEF CopiedMem, TypeOK
  <1> QED  BY <1>2, <1>4

\* Every step preserves it: one case for each thing an application can do.
LEMMA NextKernelInv == KernelInv /\ [Next]_vars => KernelInv'
  <1> SUFFICES ASSUME KernelInv, [Next]_vars PROVE KernelInv'
    OBVIOUS
  <1> USE KernelAssumption
  <1> DEFINE Good(reg) == /\ reg \in Registers
                          /\ reg.esp <= StackTop(current)
                          /\ StackTop(current) - PROC_STACK_SIZE <= reg.esp
  <1>0. /\ TypeOK /\ CurrentRunnable /\ WaitersOnLive
        /\ current \in Pids /\ current \in Slots /\ 0 \in Slots
        /\ Pids \subseteq Slots /\ 0 \notin Pids /\ Pids \subseteq Int
    BY DEF KernelInv, TypeOK, Pids, Slots
  <1>g. \A E : E \subseteq Int => \A reg \in Frames(E) : Good(reg) /\ reg.eax \in E
    BY <1>0, FrameType
  <1>s. \A reg \in Registers : Saved(reg) \in [Slots -> Registers]
    BY <1>0 DEF TypeOK, Saved
  <1>e. \A reg \in Registers, x \in Int :
           [Saved(reg) EXCEPT ![current].eax = x] \in [Slots -> Registers]
    BY <1>s, <1>0 DEF Registers
  <1>m. -1 \in Int
    OBVIOUS
  <1>c. ASSUME NEW reg \in Registers, NEW r \in Registers, NEW child \in Pids, child # current,
               p_registers' = [Saved(reg) EXCEPT ![child] = r, ![current].eax = child]
        PROVE  p_registers' \in [Slots -> Registers]
    <2>1. [Saved(reg) EXCEPT ![child] = r] \in [Slots -> Registers]
      BY <1>0, <1>s
    <2> QED  BY <1>0, <1>c, <2>1 DEF Registers
  <1> HIDE DEF Good
  <1>y. ASSUME NEW reg, Good(reg), SysYield(reg) PROVE KernelInv'
    <2>1. reg \in Registers  BY <1>y DEF Good
    <2>2. schedule(p_state)  BY <1>y DEF SysYield
    <2>3. /\ current' \in Pids /\ cpu' \in {"user", "spin"}
          /\ cpu' = "user" => p_state[current'] = P_RUNNABLE
      BY <1>0, <2>2, ScheduleEnters DEF CurrentRunnable
    <2>4. TypeOK'
      BY <1>0, <1>s, <1>y, <2>1, <2>3 DEF TypeOK, SysYield
    <2>5. CurrentRunnable' /\ WaitersOnLive'
      BY <1>0, <1>y, <2>3 DEF CurrentRunnable, WaitersOnLive, Live, SysYield
    <2> QED  BY <2>4, <2>5 DEF KernelInv
  <1>1. CASE Store
    <2>1. TypeOK'
      BY <1>0, <1>1 DEF TypeOK, Store
    <2> QED
      BY <1>0, <1>1, <2>1 DEF Store, KernelInv, CurrentRunnable, WaitersOnLive, Live
  <1>2. CASE Getpid
    <2>1. PICK reg \in Frames({0}) : SysGetpid(reg)  BY <1>2 DEF Getpid
    <2>2. reg \in Registers  BY <1>g DEF Good
    <2>3. TypeOK'
      BY <1>0, <1>e, <2>1, <2>2 DEF TypeOK, SysGetpid, run
    <2> QED
      BY <1>0, <1>2, <2>1, <2>3
      DEF Getpid, SysGetpid, run, KernelInv, CurrentRunnable, WaitersOnLive, Live
  <1>3. CASE DoFork
    <2>1. PICK reg \in Frames({0}) : SysFork(reg)  BY <1>3 DEF DoFork
    <2>2. Good(reg) /\ reg \in Registers  BY <1>g DEF Good
    <2>3. CASE \E child \in Pids : Fork(reg, child)
      <3>1. PICK child \in Pids : Fork(reg, child)  BY <2>3
      <3>2. child # current /\ child \in Slots /\ p_state[child] = P_EMPTY /\ child \in Int
        BY <1>0, <1>3, <3>1
        DEF Fork, FirstEmpty, DoFork, CurrentRunnable, P_EMPTY, P_RUNNABLE
      <3>3. /\ CopiedMem(child, current, reg.esp) \in [StackAddrs -> Words]
            /\ CopiedEsp(child, current, reg.esp) \in Int
        BY <1>0, <2>2, CopiedMemType DEF Good, Registers
      <3> DEFINE r == [eax |-> 0, esp |-> CopiedEsp(child, current, reg.esp), eip |-> reg.eip]
      <3>4. r \in Registers
        BY <2>2, <3>3 DEF Registers
      <3>r. p_registers' = [Saved(reg) EXCEPT ![child] = r, ![current].eax = child]
        BY <3>1 DEF Fork
      <3> HIDE DEF r
      <3>5. p_registers' \in [Slots -> Registers]
        BY <1>c, <2>2, <3>2, <3>4, <3>r
      <3>6. TypeOK'
        BY <1>0, <3>1, <3>2, <3>3, <3>5
        DEF TypeOK, Fork, run, ProcStates
      <3>7. CurrentRunnable' /\ WaitersOnLive'
        BY <1>0, <1>3, <3>1, <3>2
        DEF DoFork, Fork, run, TypeOK, CurrentRunnable, WaitersOnLive, Live, P_EMPTY, P_RUNNABLE
      <3> QED  BY <3>6, <3>7 DEF KernelInv
    <2>4. CASE ForkFails(reg)
      <3>0. p_registers' \in [Slots -> Registers]
        BY <1>e, <1>m, <2>2, <2>4 DEF ForkFails
      <3>1. TypeOK'
        BY <1>0, <2>4, <3>0 DEF TypeOK, ForkFails, run
      <3> QED
        BY <1>0, <1>3, <2>4, <3>1
        DEF DoFork, ForkFails, run, KernelInv, CurrentRunnable, WaitersOnLive, Live
    <2> QED  BY <2>1, <2>3, <2>4 DEF SysFork
  <1>4. CASE Yield
    BY <1>4, <1>g, <1>y DEF Yield
  <1>5. CASE Newthread
    <2>1. PICK reg \in Frames(CodeAddrs) : SysNewthread(reg)  BY <1>5 DEF Newthread
    <2>0. CodeAddrs \subseteq Int  OBVIOUS
    <2>2. Good(reg) /\ reg \in Registers /\ reg.eax \in CodeAddrs  BY <1>g, <2>0 DEF Good
    <2>3. CASE \E child \in Pids : NewThread(reg, child)
      <3>1. PICK child \in Pids : NewThread(reg, child)  BY <2>3
      <3>2. child # current /\ child \in Slots /\ p_state[child] = P_EMPTY /\ child \in Int
        BY <1>0, <1>5, <3>1
        DEF NewThread, FirstEmpty, Newthread, CurrentRunnable, P_EMPTY, P_RUNNABLE
      <3> DEFINE r == [eax |-> 0, esp |-> StackTop(child), eip |-> reg.eax]
      <3>3. r \in Registers
        BY <2>2, StackLayout DEF Registers
      <3>r. p_registers' = [Saved(reg) EXCEPT ![child] = r, ![current].eax = child]
        BY <3>1 DEF NewThread
      <3> HIDE DEF r
      <3>4. p_registers' \in [Slots -> Registers]
        BY <1>c, <2>2, <3>2, <3>3, <3>r
      <3>5. mem' \in [StackAddrs -> Words]
        BY <1>0, <3>1 DEF NewThread, TypeOK
      <3>6. TypeOK'
        BY <1>0, <3>1, <3>2, <3>4, <3>5
        DEF TypeOK, NewThread, run, ProcStates
      <3>7. CurrentRunnable' /\ WaitersOnLive'
        BY <1>0, <1>5, <3>1, <3>2
        DEF Newthread, NewThread, run, TypeOK, CurrentRunnable, WaitersOnLive, Live, P_EMPTY, P_RUNNABLE
      <3> QED  BY <3>6, <3>7 DEF KernelInv
    <2> QED  BY <1>y, <2>1, <2>2, <2>3 DEF SysNewthread
  <1>k. ASSUME NEW pid \in Pids, p_state[pid] # P_EMPTY, NEW status \in Int,
               cpu = "user", p_registers' \in [Slots -> Registers],
               p_state' = Ended(pid), p_wait' = EndedWait(pid),
               p_exit_status' = [p_exit_status EXCEPT ![pid] = status],
               IF pid = current THEN schedule(Ended(pid)) ELSE run(current),
               UNCHANGED mem
        PROVE  KernelInv'
    <2>1. /\ Ended(pid) \in [Slots -> ProcStates]
          /\ EndedWait(pid) \in [Slots -> Slots]
          /\ Ended(pid)[0] = P_EMPTY
          /\ Ended(pid)[pid] = P_ZOMBIE
          /\ \A q \in Slots \ {pid} :
                \/ Ended(pid)[q] = p_state[q]
                \/ q = p_wait[pid] /\ q # 0 /\ Ended(pid)[q] = P_RUNNABLE
      BY <1>k, EndedFacts
    <2>2. /\ current' \in Pids /\ cpu' \in {"user", "spin"}
          /\ cpu' = "user" => Ended(pid)[current'] = P_RUNNABLE
      <3>1. CASE pid = current
        BY <1>0, <1>k, <2>1, <3>1, ScheduleEnters
      <3>2. CASE pid # current
        BY <1>0, <1>k, <2>1, <3>2 DEF run, CurrentRunnable
      <3> QED  BY <3>1, <3>2
    <2>3. TypeOK'
      BY <1>0, <1>k, <2>1, <2>2 DEF TypeOK
    <2>4. CurrentRunnable'
      BY <1>k, <2>1, <2>2 DEF CurrentRunnable
    <2>5. WaitersOnLive'
      BY <1>0, <1>k, <2>1 DEF WaitersOnLive, Live, EndedWait, TypeOK
    <2> QED  BY <2>3, <2>4, <2>5 DEF KernelInv
  <1>6. CASE Exit
    <2>1. PICK reg \in Frames(Statuses) : SysExit(reg)  BY <1>6 DEF Exit
    <2>2. reg \in Registers /\ reg.eax \in Int  BY <1>g DEF Good
    <2>3. p_state[current] # P_EMPTY
      BY <1>0, <1>6 DEF Exit, CurrentRunnable, P_EMPTY, P_RUNNABLE
    <2> QED  BY <1>0, <1>k, <1>s, <1>6, <2>1, <2>2, <2>3 DEF Exit, SysExit
  <1>7. CASE KillProc
    <2>1. PICK reg \in Frames(PidArgs) : SysKill(reg)  BY <1>7 DEF KillProc
    <2>2. reg \in Registers  BY <1>g DEF Good, PidArgs
    <2>3. CASE Killable(reg.eax) /\ Kill(reg.eax)
      <3>1. reg.eax \in Pids /\ p_state[reg.eax] # P_EMPTY /\ 5 \in Int /\ cpu = "user"
        BY <1>7, <2>3 DEF KillProc, Killable
      <3>2. p_registers' \in [Slots -> Registers] /\ UNCHANGED mem
        BY <1>s, <2>1, <2>2 DEF SysKill
      <3>3. /\ p_state' = Ended(reg.eax) /\ p_wait' = EndedWait(reg.eax)
            /\ p_exit_status' = [p_exit_status EXCEPT ![reg.eax] = 5]
            /\ IF reg.eax = current THEN schedule(Ended(reg.eax)) ELSE run(current)
        BY <2>3 DEF Kill
      <3> QED  BY <1>k, <3>1, <3>2, <3>3
    <2>4. CASE ~Killable(reg.eax)
      <3>1. TypeOK'
        BY <1>0, <1>s, <2>1, <2>2, <2>4 DEF TypeOK, SysKill, run
      <3> QED
        BY <1>0, <1>7, <2>1, <2>4, <3>1
        DEF KillProc, SysKill, run, KernelInv, CurrentRunnable, WaitersOnLive, Live
    <2> QED  BY <2>1, <2>3, <2>4 DEF SysKill
  <1>8. CASE Undefined
    <2>1. PICK reg \in Frames({0}) : SysUndefined(reg)  BY <1>8 DEF Undefined
    <2>2. reg \in Registers  BY <1>g DEF Good
    <2>3. TypeOK'
      BY <1>0, <1>s, <2>1, <2>2 DEF TypeOK, SysUndefined
    <2> QED
      BY <1>0, <2>1, <2>3 DEF SysUndefined, KernelInv, CurrentRunnable, WaitersOnLive, Live
  <1>9. CASE Wait
    <2>1. PICK reg \in Frames(PidArgs) : SysWait(reg)  BY <1>9 DEF Wait
    <2>2. reg \in Registers /\ reg.eax \in PidArgs  BY <1>g DEF Good, PidArgs
    <2>3. CASE WaitFails(reg)
      <3>1. /\ current' \in Pids /\ cpu' \in {"user", "spin"}
            /\ cpu' = "user" => p_state[current'] = P_RUNNABLE
        BY <1>0, <2>3, ScheduleEnters DEF WaitFails, CurrentRunnable
      <3>0. p_registers' \in [Slots -> Registers]
        BY <1>e, <1>m, <2>2, <2>3 DEF WaitFails
      <3>2. TypeOK'
        BY <1>0, <2>1, <2>3, <3>0, <3>1 DEF TypeOK, SysWait, WaitFails
      <3> QED
        BY <1>0, <2>3, <3>1, <3>2 DEF WaitFails, KernelInv, CurrentRunnable, WaitersOnLive, Live
    <2>4. CASE Reap(reg)
      <3>1. reg.eax \in Slots /\ reg.eax # 0 /\ p_state[reg.eax] = P_ZOMBIE
        BY <1>0, <2>4 DEF Reap, Waitable
      <3> DEFINE st == [p_state EXCEPT ![reg.eax] = P_EMPTY]
      <3>2. st \in [Slots -> ProcStates] /\ st[0] = P_EMPTY
        BY <1>0, <3>1 DEF TypeOK, ProcStates, CurrentRunnable
      <3>3. p_state' = st /\ schedule(st) /\ p_wait' = p_wait
        BY <2>4 DEF Reap
      <3> HIDE DEF st
      <3>4. /\ current' \in Pids /\ cpu' \in {"user", "spin"}
            /\ cpu' = "user" => st[current'] = P_RUNNABLE
        BY <1>0, <3>2, <3>3, ScheduleEnters
      <3>5. p_registers' \in [Slots -> Registers]
        BY <1>0, <1>e, <2>2, <2>4, <3>1 DEF Reap, TypeOK
      <3>6. TypeOK'
        BY <1>0, <2>1, <3>2, <3>3, <3>4, <3>5 DEF TypeOK, SysWait
      <3>7. CurrentRunnable'
        BY <3>2, <3>3, <3>4 DEF CurrentRunnable
      <3>8. WaitersOnLive'
        BY <1>0, <3>1, <3>3
        DEF WaitersOnLive, Live, TypeOK, st, P_ZOMBIE, P_RUNNABLE, P_BLOCKED
      <3> QED  BY <3>6, <3>7, <3>8 DEF KernelInv
    <2>5. CASE Block(reg)
      <3>1. /\ reg.eax \in Slots /\ reg.eax # current
            /\ p_state[reg.eax] \in {P_RUNNABLE, P_BLOCKED}
        BY <1>0, <2>5 DEF Block, Waitable, TypeOK, ProcStates
      <3> DEFINE st == [p_state EXCEPT ![current] = P_BLOCKED]
      <3>2. st \in [Slots -> ProcStates] /\ st[0] = P_EMPTY
        BY <1>0 DEF TypeOK, ProcStates, CurrentRunnable
      <3>3. p_state' = st /\ schedule(st) /\ p_wait' = [p_wait EXCEPT ![reg.eax] = current]
        BY <2>5 DEF Block
      <3> HIDE DEF st
      <3>4. /\ current' \in Pids /\ cpu' \in {"user", "spin"}
            /\ cpu' = "user" => st[current'] = P_RUNNABLE
        BY <1>0, <3>2, <3>3, ScheduleEnters
      <3>0. p_registers' \in [Slots -> Registers]
        BY <1>s, <2>2, <2>5 DEF Block
      <3>5. TypeOK'
        BY <1>0, <2>1, <3>0, <3>2, <3>3, <3>4 DEF TypeOK, SysWait
      <3>6. CurrentRunnable'
        BY <3>2, <3>3, <3>4 DEF CurrentRunnable
      <3>7. WaitersOnLive'
        BY <1>0, <3>1, <3>3
        DEF WaitersOnLive, Live, TypeOK, st
      <3> QED  BY <3>5, <3>6, <3>7 DEF KernelInv
    <2> QED  BY <2>1, <2>3, <2>4, <2>5 DEF SysWait
  <1>10. CASE UNCHANGED vars
    BY <1>0, <1>10 DEF vars, KernelInv, TypeOK, CurrentRunnable, WaitersOnLive, Live
  <1>11. CASE Spin
    BY <1>10, <1>11 DEF Spin
  <1> QED
    BY <1>1, <1>2, <1>3, <1>4, <1>5, <1>6, <1>7, <1>8, <1>9, <1>10, <1>11 DEF Next

\* The process table is always well formed: every run() enters a runnable
\* process, slot 0 is never used, and only live processes record a waiter.
THEOREM KernelWellFormed == Spec => [](TypeOK /\ CurrentRunnable /\ WaitersOnLive)
  <1>1. KernelInv => TypeOK /\ CurrentRunnable /\ WaitersOnLive
    BY DEF KernelInv
  <1> QED  BY <1>1, InitKernelInv, NextKernelInv, PTL DEF Spec

-----------------------------------------------------------------------------
(* Facts about single steps that both results below use. *)

\* The registers, states and waiters of the processes other than the one that
\* executes, by kind of step.
QuietStep == p_state' = p_state /\ p_wait' = p_wait
BirthStep(child) ==
    /\ p_state[child] = P_EMPTY /\ child # current /\ FirstEmpty(child)
    /\ p_state' = [p_state EXCEPT ![child] = P_RUNNABLE]
    /\ p_wait' = p_wait
EndStep(pid) ==
    /\ p_state[pid] # P_EMPTY
    /\ p_state' = Ended(pid)
    /\ p_wait' = EndedWait(pid)
ReapStep(pid) ==
    /\ p_state[pid] = P_ZOMBIE /\ pid # current
    /\ current \in Waiters
    /\ p_state' = [p_state EXCEPT ![pid] = P_EMPTY]
    /\ p_wait' = p_wait
BlockStep(pid) ==
    /\ pid # current /\ Live(pid)
    /\ current \in Waiters
    /\ p_state' = [p_state EXCEPT ![current] = P_BLOCKED]
    /\ p_wait' = [p_wait EXCEPT ![pid] = current]
    /\ p_registers'[current].eax = pid

\* What a step does to the registers: only current's and a newborn's change.
RegsKept(except) == \A pid \in Slots \ {current, except} : p_registers'[pid] = p_registers[pid]

\* Every step of the kernel is of one of these kinds.
LEMMA StepKinds ==
    ASSUME KernelInv, Next, cpu = "user"
    PROVE  \/ QuietStep /\ RegsKept(0)
           \/ \E child \in Pids : BirthStep(child) /\ RegsKept(child)
           \/ EndStep(current) /\ RegsKept(0)
           \/ "kill" \in Calls /\ \E pid \in Pids : EndStep(pid) /\ RegsKept(0)
           \/ \E pid \in Pids : ReapStep(pid) /\ RegsKept(0)
           \/ \E pid \in Pids : BlockStep(pid) /\ RegsKept(0)
  <1> USE KernelAssumption
  <1>0. /\ TypeOK /\ current \in Pids /\ current \in Slots
        /\ Pids \subseteq Slots /\ p_state[current] = P_RUNNABLE
    BY DEF KernelInv, TypeOK, CurrentRunnable, Pids, Slots
  <1>s. \A reg : \A pid \in Slots \ {current} : Saved(reg)[pid] = p_registers[pid]
    BY <1>0 DEF Saved, TypeOK
  <1>t. \A reg : DOMAIN Saved(reg) = Slots /\ Saved(reg)[current] = reg
    BY <1>0 DEF Saved, TypeOK
  <1>e. \A reg, x : \A pid \in Slots \ {current} :
           [Saved(reg) EXCEPT ![current].eax = x][pid] = p_registers[pid]
    BY <1>0, <1>s, <1>t
  <1>1. CASE Store
    BY <1>1 DEF Store, QuietStep, RegsKept
  <1>2. CASE Getpid
    BY <1>2, <1>e DEF Getpid, SysGetpid, QuietStep, RegsKept
  <1>3. CASE DoFork
    <2>1. PICK reg : SysFork(reg)  BY <1>3 DEF DoFork
    <2>2. CASE ForkFails(reg)
      BY <1>e, <2>2 DEF ForkFails, QuietStep, RegsKept
    <2>3. ASSUME NEW child \in Pids, Fork(reg, child)
          PROVE  BirthStep(child) /\ RegsKept(child)
      <3>1. BirthStep(child)
        BY <1>0, <2>3 DEF Fork, FirstEmpty, BirthStep, P_EMPTY, P_RUNNABLE
      <3>2. RegsKept(child)
        BY <1>0, <1>s, <1>t, <2>3 DEF Fork, RegsKept
      <3> QED  BY <3>1, <3>2
    <2> QED  BY <2>1, <2>2, <2>3 DEF SysFork
  <1>4. CASE Yield
    BY <1>4, <1>s DEF Yield, SysYield, QuietStep, RegsKept
  <1>5. CASE Newthread
    <2>1. PICK reg : SysNewthread(reg)  BY <1>5 DEF Newthread
    <2>2. CASE SysYield(reg)
      BY <1>s, <2>2 DEF SysYield, QuietStep, RegsKept
    <2>3. ASSUME NEW child \in Pids, NewThread(reg, child)
          PROVE  BirthStep(child) /\ RegsKept(child)
      <3>1. BirthStep(child)
        BY <1>0, <2>3 DEF NewThread, FirstEmpty, BirthStep, P_EMPTY, P_RUNNABLE
      <3>2. RegsKept(child)
        BY <1>0, <1>s, <1>t, <2>3 DEF NewThread, RegsKept
      <3> QED  BY <3>1, <3>2
    <2> QED  BY <2>1, <2>2, <2>3 DEF SysNewthread
  <1>6. CASE Exit
    <2>1. PICK reg : SysExit(reg)  BY <1>6 DEF Exit
    <2> QED  BY <1>0, <1>s, <2>1 DEF SysExit, EndStep, RegsKept, P_EMPTY, P_RUNNABLE
  <1>7. CASE KillProc
    <2>1. PICK reg : SysKill(reg)  BY <1>7 DEF KillProc
    <2>2. CASE Killable(reg.eax) /\ Kill(reg.eax)
      BY <1>s, <1>7, <2>1, <2>2 DEF KillProc, SysKill, Killable, Kill, EndStep, RegsKept
    <2>3. CASE ~Killable(reg.eax)
      BY <1>s, <2>1, <2>3 DEF SysKill, QuietStep, RegsKept
    <2> QED  BY <2>1, <2>2, <2>3 DEF SysKill
  <1>8. CASE Undefined
    BY <1>8, <1>s DEF Undefined, SysUndefined, QuietStep, RegsKept
  <1>9. CASE Wait
    <2>1. PICK reg : SysWait(reg)  BY <1>9 DEF Wait
    <2>2. CASE WaitFails(reg)
      BY <1>e, <2>2 DEF WaitFails, QuietStep, RegsKept
    <2>3. CASE Reap(reg)
      <3>1. reg.eax \in Pids /\ ReapStep(reg.eax)
        BY <1>9, <2>3 DEF Wait, Reap, Waitable, ReapStep
      <3>2. RegsKept(0)
        BY <1>e, <2>3 DEF Reap, RegsKept
      <3> QED  BY <3>1, <3>2
    <2>4. CASE Block(reg)
      <3>1. reg.eax \in Pids /\ reg.eax # current /\ Live(reg.eax)
        BY <1>0, <2>4 DEF Block, Waitable, Live, TypeOK, ProcStates
      <3>2. p_registers'[current].eax = reg.eax
        BY <1>t, <2>4 DEF Block
      <3> QED  BY <1>s, <1>9, <2>4, <3>1, <3>2 DEF Wait, Block, BlockStep, RegsKept
    <2> QED  BY <2>1, <2>2, <2>3, <2>4 DEF SysWait
  <1>10. CASE Spin
    BY <1>10 DEF Spin
  <1> QED
    BY <1>1, <1>2, <1>3, <1>4, <1>5, <1>6, <1>7, <1>8, <1>9, <1>10 DEF Next

-----------------------------------------------------------------------------
(* Without sys_kill: waiters are blocked, and the dead stay dead. *)

\* WaiterBlocked is preserved by every step when applications do not kill.
LEMMA NextWaiterBlocked ==
    ASSUME "kill" \notin Calls, KernelInv, WaiterBlocked, [Next]_vars
    PROVE  WaiterBlocked'
  <1>0. /\ TypeOK /\ WaitersOnLive /\ current \in Pids
        /\ Pids \subseteq Slots /\ 0 \notin Pids
    BY KernelAssumption DEF KernelInv, TypeOK, Pids, Slots
  <1>d. /\ P_BLOCKED # P_EMPTY /\ P_BLOCKED # P_RUNNABLE /\ P_BLOCKED # P_ZOMBIE
    BY DEF P_BLOCKED, P_EMPTY, P_RUNNABLE, P_ZOMBIE
  <1>1. CASE UNCHANGED vars
    BY <1>1 DEF vars, WaiterBlocked
  <1>2. CASE cpu = "user" /\ Next
    <2>0. p_state[current] = P_RUNNABLE
      BY <1>2 DEF KernelInv, CurrentRunnable
    <2>w. \A q \in Pids : p_wait[q] # 0 =>
             /\ p_wait[q] \in Slots /\ p_wait[q] # current
             /\ p_state[p_wait[q]] = P_BLOCKED /\ p_registers[p_wait[q]].eax = q
      BY <1>0, <1>d, <2>0 DEF WaiterBlocked, TypeOK
    <2>1. CASE QuietStep /\ RegsKept(0)
      BY <1>0, <2>1, <2>w DEF QuietStep, RegsKept, WaiterBlocked
    <2>2. ASSUME NEW child \in Pids, BirthStep(child), RegsKept(child) PROVE WaiterBlocked'
      BY <1>0, <1>d, <2>2, <2>w DEF BirthStep, RegsKept, WaiterBlocked, TypeOK
    <2>3. CASE EndStep(current) /\ RegsKept(0)
      <3>1. \A q \in Slots \ {current} : Ended(current)[q] = p_state[q] \/ q = p_wait[current]
        BY <1>0, <2>3, EndedFacts DEF EndStep
      <3>2. ASSUME NEW q \in Pids, p_wait'[q] # 0
            PROVE  p_state'[p_wait'[q]] = P_BLOCKED /\ p_registers'[p_wait'[q]].eax = q
        <4>1. q # current /\ p_wait'[q] = p_wait[q]
          BY <1>0, <2>3, <3>2 DEF EndStep, EndedWait, TypeOK
        <4>2. p_wait[q] # p_wait[current]
          BY <1>0, <2>w, <3>2, <4>1
        <4> QED  BY <1>0, <2>3, <2>w, <3>1, <3>2, <4>1, <4>2 DEF EndStep, RegsKept
      <3> QED  BY <3>2 DEF WaiterBlocked
    <2>4. ASSUME NEW pid \in Pids, ReapStep(pid), RegsKept(0) PROVE WaiterBlocked'
      BY <1>0, <1>d, <2>4, <2>w DEF ReapStep, RegsKept, WaiterBlocked, TypeOK
    <2>5. ASSUME NEW pid \in Pids, BlockStep(pid), RegsKept(0) PROVE WaiterBlocked'
      BY <1>0, <2>5, <2>w DEF BlockStep, RegsKept, WaiterBlocked, TypeOK
    <2> QED  BY <1>2, <2>1, <2>2, <2>3, <2>4, <2>5, StepKinds
  <1>3. cpu = "user" \/ (Next => UNCHANGED vars)
    BY DEF Next, Store, Getpid, DoFork, Yield, Newthread, Exit, KillProc, Undefined, Wait, Spin
  <1> QED  BY <1>1, <1>2, <1>3

\* Nothing is recorded as a waiter at boot.
LEMMA InitWaiterBlocked == Init => WaiterBlocked
  BY KernelAssumption DEF Init, WaiterBlocked, Pids, Slots

\* As long as nobody uses sys_kill, whoever sys_exit wakes really is blocked
\* waiting for the process that exits.
THEOREM WaitersAreBlocked ==
    ASSUME "kill" \notin Calls
    PROVE  Spec => []WaiterBlocked
  <1>1. Init => KernelInv /\ WaiterBlocked
    BY InitKernelInv, InitWaiterBlocked
  <1>2. KernelInv /\ WaiterBlocked /\ [Next]_vars => (KernelInv /\ WaiterBlocked)'
    BY NextKernelInv, NextWaiterBlocked
  <1> QED  BY <1>1, <1>2, PTL DEF Spec

\* One step of a kernel whose applications do not kill never brings a zombie
\* back, and fills no slot but the first empty one.
LEMMA StepZombies ==
    ASSUME "kill" \notin Calls, KernelInv, WaiterBlocked, [Next]_vars, NEW pid \in Pids
    PROVE  /\ p_state[pid] = P_ZOMBIE => p_state'[pid] \in {P_ZOMBIE, P_EMPTY}
           /\ p_state[pid] = P_EMPTY /\ p_state'[pid] # P_EMPTY => FirstEmpty(pid)
  <1>0. /\ TypeOK /\ current \in Pids /\ pid \in Slots
        /\ Pids \subseteq Slots /\ 0 \notin Pids
    BY KernelAssumption DEF KernelInv, TypeOK, Pids, Slots
  <1>d. /\ P_ZOMBIE # P_EMPTY /\ P_ZOMBIE # P_RUNNABLE /\ P_ZOMBIE # P_BLOCKED
        /\ P_EMPTY # P_RUNNABLE /\ P_EMPTY # P_BLOCKED
    BY DEF P_BLOCKED, P_EMPTY, P_RUNNABLE, P_ZOMBIE
  <1>1. CASE UNCHANGED vars
    BY <1>1 DEF vars
  <1>2. CASE cpu = "user" /\ Next
    <2>0. p_state[current] = P_RUNNABLE
      BY <1>2 DEF KernelInv, CurrentRunnable
    <2>1. CASE QuietStep
      BY <2>1 DEF QuietStep
    <2>2. ASSUME NEW child \in Pids, BirthStep(child)
          PROVE  /\ p_state[pid] = P_ZOMBIE => p_state'[pid] \in {P_ZOMBIE, P_EMPTY}
                 /\ p_state[pid] = P_EMPTY /\ p_state'[pid] # P_EMPTY => FirstEmpty(pid)
      BY <1>0, <1>d, <2>2 DEF BirthStep, TypeOK
    <2>3. CASE EndStep(current)
      <3>1. \A q \in Slots \ {current} :
               \/ Ended(current)[q] = p_state[q]
               \/ q = p_wait[current] /\ q # 0
        BY <1>0, <2>3, EndedFacts DEF EndStep
      <3>2. p_wait[current] # 0 => p_state[p_wait[current]] = P_BLOCKED
        BY <1>0 DEF WaiterBlocked
      <3> QED  BY <1>0, <1>d, <2>0, <2>3, <3>1, <3>2 DEF EndStep
    <2>4. ASSUME NEW q \in Pids, ReapStep(q)
          PROVE  /\ p_state[pid] = P_ZOMBIE => p_state'[pid] \in {P_ZOMBIE, P_EMPTY}
                 /\ p_state[pid] = P_EMPTY /\ p_state'[pid] # P_EMPTY => FirstEmpty(pid)
      BY <1>0, <1>d, <2>4 DEF ReapStep, TypeOK
    <2>5. ASSUME NEW q \in Pids, BlockStep(q)
          PROVE  /\ p_state[pid] = P_ZOMBIE => p_state'[pid] \in {P_ZOMBIE, P_EMPTY}
                 /\ p_state[pid] = P_EMPTY /\ p_state'[pid] # P_EMPTY => FirstEmpty(pid)
      BY <1>0, <1>d, <2>0, <2>5 DEF BlockStep, TypeOK
    <2> QED  BY <1>2, <2>1, <2>2, <2>3, <2>4, <2>5, StepKinds
  <1>3. cpu = "user" \/ (Next => UNCHANGED vars)
    BY DEF Next, Store, Getpid, DoFork, Yield, Newthread, Exit, KillProc, Undefined, Wait, Spin
  <1> QED  BY <1>1, <1>2, <1>3

\* As long as nobody uses sys_kill, a process that has exited never runs
\* again, and an empty slot is only filled by fork and newthread.
THEOREM TheDeadStayDead ==
    ASSUME "kill" \notin Calls
    PROVE  Spec => ZombieStaysDead
  <1>1. Init => KernelInv /\ WaiterBlocked
    BY InitKernelInv, InitWaiterBlocked
  <1>2. KernelInv /\ WaiterBlocked /\ [Next]_vars => (KernelInv /\ WaiterBlocked)'
    BY NextKernelInv, NextWaiterBlocked
  <1>3. KernelInv /\ WaiterBlocked /\ [Next]_vars =>
          [\A pid \in Pids :
              /\ p_state[pid] = P_ZOMBIE => p_state'[pid] \in {P_ZOMBIE, P_EMPTY}
              /\ p_state[pid] = P_EMPTY /\ p_state'[pid] # P_EMPTY => FirstEmpty(pid)]_vars
    BY StepZombies
  <1> QED  BY <1>1, <1>2, <1>3, PTL DEF Spec, ZombieStaysDead

-----------------------------------------------------------------------------
(* Only the first process waits: no wake-up is lost, with sys_kill or not. *)

\* The inductive invariant: besides NoMissedWakeup, only process 1 blocks.
OneWaiterInv ==
    /\ NoMissedWakeup
    /\ \A pid \in Pids : p_state[pid] = P_BLOCKED => pid = 1

\* When only process 1 calls sys_wait, every step keeps its wake-up arranged.
LEMMA NextOneWaiter ==
    ASSUME Waiters = {1}, KernelInv, OneWaiterInv, [Next]_vars
    PROVE  OneWaiterInv'
  <1>0. /\ TypeOK /\ WaitersOnLive /\ current \in Pids
        /\ Pids \subseteq Slots /\ 0 \notin Pids
    BY KernelAssumption DEF KernelInv, TypeOK, Pids, Slots
  <1>d. /\ P_BLOCKED # P_EMPTY /\ P_BLOCKED # P_RUNNABLE /\ P_BLOCKED # P_ZOMBIE
        /\ P_EMPTY # P_RUNNABLE /\ P_ZOMBIE # P_RUNNABLE
    BY DEF P_BLOCKED, P_EMPTY, P_RUNNABLE, P_ZOMBIE
  <1>1. CASE UNCHANGED vars
    BY <1>1 DEF vars, OneWaiterInv, NoMissedWakeup, Live
  <1>2. CASE cpu = "user" /\ Next
    <2>0. p_state[current] = P_RUNNABLE
      BY <1>2 DEF KernelInv, CurrentRunnable
    <2>b. \A pid \in Pids : p_state[pid] = P_BLOCKED =>
             /\ pid = 1 /\ pid # current
             /\ p_registers[pid].eax \in Pids
             /\ p_state[p_registers[pid].eax] \in {P_RUNNABLE, P_BLOCKED}
             /\ p_wait[p_registers[pid].eax] = pid
      BY <1>d, <2>0 DEF OneWaiterInv, NoMissedWakeup, Live
    <2>1. CASE QuietStep /\ RegsKept(0)
      BY <1>0, <2>1, <2>b DEF QuietStep, RegsKept, OneWaiterInv, NoMissedWakeup, Live
    <2>2. ASSUME NEW child \in Pids, BirthStep(child), RegsKept(child) PROVE OneWaiterInv'
      <3>1. ASSUME NEW pid \in Pids, p_state'[pid] = P_BLOCKED
            PROVE  p_state[pid] = P_BLOCKED /\ pid # child /\ p_registers'[pid] = p_registers[pid]
        BY <1>0, <1>d, <2>2, <2>b, <3>1 DEF BirthStep, RegsKept, TypeOK
      <3>2. \A q \in Pids : Live(q) => Live(q)'
        BY <1>0, <2>2 DEF BirthStep, TypeOK, Live
      <3> QED  BY <1>0, <2>2, <2>b, <3>1, <3>2 DEF BirthStep, OneWaiterInv, NoMissedWakeup, Live
    <2>3. ASSUME NEW q \in Pids, EndStep(q), RegsKept(0) PROVE OneWaiterInv'
      <3>1. /\ Ended(q)[q] = P_ZOMBIE
            /\ \A r \in Slots \ {q} : Ended(q)[r] = p_state[r] \/ Ended(q)[r] = P_RUNNABLE
            /\ p_wait[q] # 0 => Ended(q)[p_wait[q]] = P_RUNNABLE
        BY <1>0, <2>3, EndedFacts DEF EndStep
      <3>2. ASSUME NEW pid \in Pids, p_state'[pid] = P_BLOCKED
            PROVE  /\ pid = 1
                   /\ p_registers'[pid].eax \in Pids
                   /\ p_state'[p_registers'[pid].eax] \in {P_RUNNABLE, P_BLOCKED}
                   /\ p_wait'[p_registers'[pid].eax] = pid
        <4>1. p_state[pid] = P_BLOCKED /\ pid # q /\ pid # p_wait[q]
          BY <1>0, <1>d, <2>3, <3>1, <3>2 DEF EndStep
        <4>2. p_registers'[pid] = p_registers[pid]
          BY <1>0, <2>3, <2>b, <4>1 DEF RegsKept
        <4>3. p_registers[pid].eax # q
          BY <2>b, <4>1
        <4> QED
          BY <1>0, <2>3, <2>b, <3>1, <4>1, <4>2, <4>3 DEF EndStep, EndedWait, TypeOK
      <3> QED  BY <3>2 DEF OneWaiterInv, NoMissedWakeup, Live
    <2>4. ASSUME NEW q \in Pids, ReapStep(q), RegsKept(0) PROVE OneWaiterInv'
      <3>1. ASSUME NEW pid \in Pids, p_state'[pid] = P_BLOCKED
            PROVE  p_state[pid] = P_BLOCKED /\ p_registers'[pid] = p_registers[pid]
        BY <1>0, <1>d, <2>4, <2>b, <3>1 DEF ReapStep, RegsKept, TypeOK
      <3>2. \A r \in Pids : Live(r) => Live(r)'
        BY <1>0, <1>d, <2>4 DEF ReapStep, TypeOK, Live
      <3> QED  BY <1>0, <2>4, <2>b, <3>1, <3>2 DEF ReapStep, OneWaiterInv, NoMissedWakeup, Live
    <2>5. ASSUME NEW q \in Pids, BlockStep(q), RegsKept(0) PROVE OneWaiterInv'
      <3>1. current = 1  BY <2>5 DEF BlockStep
      <3>2. ASSUME NEW pid \in Pids, p_state'[pid] = P_BLOCKED PROVE pid = current
        BY <1>0, <2>5, <2>b, <3>1, <3>2 DEF BlockStep, TypeOK
      <3>3. /\ p_registers'[current].eax = q
            /\ p_wait'[q] = current
            /\ p_state'[q] \in {P_RUNNABLE, P_BLOCKED}
        BY <1>0, <2>5 DEF BlockStep, TypeOK, Live
      <3> QED  BY <3>1, <3>2, <3>3 DEF OneWaiterInv, NoMissedWakeup, Live
    <2> QED  BY <1>0, <1>2, <2>1, <2>2, <2>3, <2>4, <2>5, StepKinds
  <1>3. cpu = "user" \/ (Next => UNCHANGED vars)
    BY DEF Next, Store, Getpid, DoFork, Yield, Newthread, Exit, KillProc, Undefined, Wait, Spin
  <1> QED  BY <1>1, <1>2, <1>3

\* Nothing is blocked at boot.
LEMMA InitOneWaiter == Init => OneWaiterInv
  <1> SUFFICES ASSUME Init, NEW pid \in Pids PROVE p_state[pid] # P_BLOCKED
    BY DEF OneWaiterInv, NoMissedWakeup
  <1> QED  BY KernelAssumption DEF Init, Pids, Slots, P_BLOCKED, P_EMPTY, P_RUNNABLE

\* If only the first process ever calls sys_wait, then whenever it is blocked
\* the process it waits for is alive and will wake it, even if processes,
\* itself included, are killed.
THEOREM WakeupNeverMissed ==
    ASSUME Waiters = {1}
    PROVE  Spec => []NoMissedWakeup
  <1>1. Init => KernelInv /\ OneWaiterInv
    BY InitKernelInv, InitOneWaiter
  <1>2. KernelInv /\ OneWaiterInv /\ [Next]_vars => (KernelInv /\ OneWaiterInv)'
    BY NextKernelInv, NextOneWaiter
  <1>3. OneWaiterInv => NoMissedWakeup
    BY DEF OneWaiterInv
  <1> QED  BY <1>1, <1>2, <1>3, PTL DEF Spec

\* A kernel that spins because schedule() found nothing to run, with wake-ups
\* arranged, has no live process left.
LEMMA SpinMeansDead ==
    ASSUME KernelInv, OneWaiterInv, \A pid \in Slots : p_state[pid] # P_RUNNABLE,
           NEW pid \in Pids
    PROVE  ~Live(pid)
  <1> SUFFICES ASSUME Live(pid) PROVE FALSE  OBVIOUS
  <1> DEFINE target == p_registers[pid].eax
  <1>1. Pids \subseteq Slots  BY DEF Pids, Slots
  <1>2. pid = 1 /\ target \in Pids /\ Live(target) /\ p_wait[target] = pid
    BY <1>1 DEF OneWaiterInv, NoMissedWakeup, Live
  <1>3. target = 1
    BY <1>1, <1>2 DEF OneWaiterInv, Live
  <1>4. p_wait[target] # target
    BY <1>1, <1>2 DEF KernelInv, WaitersOnLive
  <1> QED  BY <1>2, <1>3, <1>4

\* If only the first process waits, schedule() never loops while a process is
\* left that could run or be woken: MiniprocOS has no deadlock.
THEOREM NoDeadlock ==
    ASSUME Waiters = {1}
    PROVE  Spec => []SpinOnlyWhenAllDead
  <1> DEFINE Idle == cpu = "spin" => \A pid \in Slots : p_state[pid] # P_RUNNABLE
  <1>1. Init => KernelInv /\ OneWaiterInv /\ Idle
    BY InitKernelInv, InitOneWaiter DEF Init
  <1>2. KernelInv /\ Idle /\ [Next]_vars => Idle'
    <2> SUFFICES ASSUME KernelInv, Idle, [Next]_vars, cpu' = "spin"
                 PROVE  \A pid \in Slots : p_state'[pid] # P_RUNNABLE
      OBVIOUS
    <2>0. current \in Pids /\ p_state[0] = P_EMPTY
      BY DEF KernelInv, TypeOK, CurrentRunnable
    <2>1. \A st : schedule(st) => \A pid \in Slots : st[pid] # P_RUNNABLE
      BY DEF schedule, run
    <2>2. CASE UNCHANGED vars
      BY <2>2 DEF vars
    <2>3. CASE Store
      BY <2>3 DEF Store
    <2>4. CASE Getpid \/ DoFork
      BY <2>4 DEF Getpid, SysGetpid, DoFork, SysFork, Fork, ForkFails, run
    <2>5. CASE Yield
      BY <2>1, <2>5 DEF Yield, SysYield
    <2>6. CASE Newthread
      BY <2>1, <2>6 DEF Newthread, SysNewthread, NewThread, SysYield, run
    <2>7. CASE Exit
      BY <2>1, <2>7 DEF Exit, SysExit
    <2>8. CASE KillProc
      BY <2>1, <2>8 DEF KillProc, SysKill, Kill, run
    <2>9. CASE Wait
      <3>1. PICK reg : SysWait(reg)  BY <2>9 DEF Wait
      <3> QED  BY <2>1, <3>1 DEF SysWait, WaitFails, Reap, Block
    <2>10. CASE Spin
      BY <2>2, <2>10 DEF Spin
    <2>11. CASE Undefined
      BY <2>11 DEF Undefined, SysUndefined
    <2> QED
      BY <2>2, <2>3, <2>4, <2>5, <2>6, <2>7, <2>8, <2>9, <2>10, <2>11 DEF Next
  <1>3. KernelInv /\ OneWaiterInv /\ [Next]_vars => (KernelInv /\ OneWaiterInv)'
    BY NextKernelInv, NextOneWaiter
  <1>4. KernelInv /\ OneWaiterInv /\ Idle => SpinOnlyWhenAllDead
    BY SpinMeansDead DEF SpinOnlyWhenAllDead
  <1> HIDE DEF Idle
  <1> QED  BY <1>1, <1>2, <1>3, <1>4, PTL DEF Spec

-----------------------------------------------------------------------------
(* Who is woken, and the stacks.  Both results rest on what a slot's p_wait *)
(* says while nobody kills, or while only the first process waits.          *)

\* Whoever is recorded as a waiter asked for the process that records it, and
\* does not run.
WaiterAsked ==
    \A q \in Pids : p_wait[q] # 0 =>
        /\ p_registers[p_wait[q]].eax = q
        /\ p_state[p_wait[q]] \in {P_BLOCKED, P_ZOMBIE}

\* The inductive invariant for the first process as the only waiter.
FirstAsks == WaiterAsked /\ \A q \in Pids : p_wait[q] # 0 => p_wait[q] = 1

\* When only process 1 calls sys_wait, the record of it is never stale: a
\* waiter that is killed stays a zombie, since nobody else could reap it.
LEMMA NextFirstAsks ==
    ASSUME Waiters = {1}, KernelInv, FirstAsks, [Next]_vars
    PROVE  FirstAsks'
  <1>0. /\ TypeOK /\ WaitersOnLive /\ current \in Pids
        /\ Pids \subseteq Slots /\ 0 \notin Pids /\ 1 \in Pids /\ 1 # 0
    BY KernelAssumption DEF KernelInv, TypeOK, Pids, Slots
  <1>d. /\ P_BLOCKED # P_EMPTY /\ P_BLOCKED # P_RUNNABLE /\ P_BLOCKED # P_ZOMBIE
        /\ P_EMPTY # P_RUNNABLE /\ P_ZOMBIE # P_RUNNABLE /\ P_ZOMBIE # P_EMPTY
    BY DEF P_BLOCKED, P_EMPTY, P_RUNNABLE, P_ZOMBIE
  <1>1. CASE UNCHANGED vars
    BY <1>1 DEF vars, FirstAsks, WaiterAsked
  <1>2. CASE cpu = "user" /\ Next
    <2>0. p_state[current] = P_RUNNABLE
      BY <1>2 DEF KernelInv, CurrentRunnable
    <2>w. \A q \in Pids : p_wait[q] # 0 =>
             /\ p_wait[q] = 1 /\ 1 # current
             /\ p_registers[1].eax = q
             /\ p_state[1] \in {P_BLOCKED, P_ZOMBIE}
      BY <1>0, <1>d, <2>0 DEF FirstAsks, WaiterAsked
    <2>1. CASE QuietStep /\ RegsKept(0)
      BY <1>0, <2>1, <2>w DEF QuietStep, RegsKept, FirstAsks, WaiterAsked
    <2>2. ASSUME NEW child \in Pids, BirthStep(child), RegsKept(child) PROVE FirstAsks'
      BY <1>0, <1>d, <2>2, <2>w DEF BirthStep, RegsKept, FirstAsks, WaiterAsked, TypeOK
    <2>3. ASSUME NEW pid \in Pids, EndStep(pid), RegsKept(0) PROVE FirstAsks'
      <3>1. /\ Ended(pid)[pid] = P_ZOMBIE
            /\ \A q \in Slots \ {pid} : Ended(pid)[q] = p_state[q] \/ q = p_wait[pid]
        BY <1>0, <2>3, EndedFacts DEF EndStep
      <3>2. ASSUME NEW q \in Pids, p_wait'[q] # 0
            PROVE  /\ p_wait'[q] = 1 /\ p_registers'[1].eax = q
                   /\ p_state'[1] \in {P_BLOCKED, P_ZOMBIE}
        <4>1. q # pid /\ p_wait'[q] = p_wait[q]
          BY <1>0, <2>3, <3>2 DEF EndStep, EndedWait, TypeOK
        <4>2. p_wait[pid] # 1
          BY <1>0, <2>w, <3>2, <4>1
        <4> QED  BY <1>0, <2>3, <2>w, <3>1, <3>2, <4>1, <4>2 DEF EndStep, RegsKept
      <3> QED  BY <3>2 DEF FirstAsks, WaiterAsked
    <2>4. ASSUME NEW pid \in Pids, ReapStep(pid), RegsKept(0) PROVE FirstAsks'
      <3>1. current = 1  BY <2>4 DEF ReapStep
      <3> QED  BY <2>4, <2>w, <3>1 DEF ReapStep, FirstAsks, WaiterAsked
    <2>5. ASSUME NEW pid \in Pids, BlockStep(pid), RegsKept(0) PROVE FirstAsks'
      <3>1. current = 1  BY <2>5 DEF BlockStep
      <3>2. \A q \in Pids : p_wait[q] = 0
        BY <2>w, <3>1
      <3> QED  BY <1>0, <2>5, <3>1, <3>2 DEF BlockStep, FirstAsks, WaiterAsked, TypeOK
    <2> QED  BY <1>0, <1>2, <2>1, <2>2, <2>3, <2>4, <2>5, StepKinds
  <1>3. cpu = "user" \/ (Next => UNCHANGED vars)
    BY DEF Next, Store, Getpid, DoFork, Yield, Newthread, Exit, KillProc, Undefined, Wait, Spin
  <1> QED  BY <1>1, <1>2, <1>3

\* Under either condition every recorded waiter asked and does not run.
LEMMA WaitersAsked ==
    ASSUME Waiters = {1} \/ "kill" \notin Calls
    PROVE  Spec => [](KernelInv /\ WaiterAsked)
  <1>1. CASE Waiters = {1}
    <2>0. Init => \A q \in Pids : p_wait[q] = 0
      BY KernelAssumption DEF Init, Pids, Slots
    <2>1. Init => KernelInv /\ FirstAsks
      BY <2>0, InitKernelInv DEF FirstAsks, WaiterAsked
    <2>2. KernelInv /\ FirstAsks /\ [Next]_vars => (KernelInv /\ FirstAsks)'
      BY <1>1, NextKernelInv, NextFirstAsks
    <2>3. FirstAsks => WaiterAsked
      BY DEF FirstAsks
    <2> QED  BY <2>1, <2>2, <2>3, PTL DEF Spec
  <1>2. CASE "kill" \notin Calls
    <2>1. Init => KernelInv /\ WaiterBlocked
      BY InitKernelInv, InitWaiterBlocked
    <2>2. KernelInv /\ WaiterBlocked /\ [Next]_vars => (KernelInv /\ WaiterBlocked)'
      BY <1>2, NextKernelInv, NextWaiterBlocked
    <2>3. WaiterBlocked => WaiterAsked
      BY DEF WaiterBlocked, WaiterAsked
    <2> QED  BY <2>1, <2>2, <2>3, PTL DEF Spec
  <1> QED  BY <1>1, <1>2

\* One step wakes a blocked process only by ending the one it asked for.
LEMMA StepWakes ==
    ASSUME KernelInv, WaiterAsked, [Next]_vars
    PROVE  [WakeStep]_vars
  <1>0. /\ TypeOK /\ WaitersOnLive /\ current \in Pids
        /\ Pids \subseteq Slots /\ 0 \notin Pids
    BY KernelAssumption DEF KernelInv, TypeOK, Pids, Slots
  <1>d. P_BLOCKED # P_EMPTY /\ P_BLOCKED # P_RUNNABLE /\ P_EMPTY # P_RUNNABLE
    BY DEF P_BLOCKED, P_EMPTY, P_RUNNABLE
  <1>2. CASE cpu = "user" /\ Next
    <2> SUFFICES ASSUME NEW pid \in Pids, p_state[pid] = P_BLOCKED, p_state'[pid] = P_RUNNABLE
                 PROVE  /\ p_registers[pid].eax \in Pids /\ Live(p_registers[pid].eax)
                        /\ p_state'[p_registers[pid].eax] = P_ZOMBIE
      BY DEF WakeStep
    <2>1. ~QuietStep
      BY <1>d DEF QuietStep
    <2>2. ASSUME NEW child \in Pids, BirthStep(child) PROVE FALSE
      BY <1>0, <1>d, <2>2 DEF BirthStep, TypeOK
    <2>4. ASSUME NEW q \in Pids, ReapStep(q) PROVE FALSE
      BY <1>0, <1>d, <2>4 DEF ReapStep, TypeOK
    <2>5. ASSUME NEW q \in Pids, BlockStep(q) PROVE FALSE
      BY <1>0, <1>d, <2>5 DEF BlockStep, TypeOK
    <2>3. PICK q \in Pids : EndStep(q)
      BY <1>0, <1>2, <2>1, <2>2, <2>4, <2>5, StepKinds
    <2>6. /\ Ended(q)[q] = P_ZOMBIE
          /\ \A r \in Slots \ {q} : Ended(q)[r] = p_state[r] \/ (r = p_wait[q] /\ r # 0)
      BY <1>0, <2>3, EndedFacts DEF EndStep
    <2>7. P_ZOMBIE # P_RUNNABLE
      BY DEF P_ZOMBIE, P_RUNNABLE
    <2>8. pid = p_wait[q] /\ p_wait[q] # 0
      BY <1>0, <1>d, <2>3, <2>6, <2>7 DEF EndStep
    <2>9. p_registers[pid].eax = q /\ Live(q)
      BY <1>0, <2>8 DEF WaiterAsked, WaitersOnLive
    <2> QED  BY <2>3, <2>6, <2>9 DEF EndStep
  <1>3. cpu = "user" \/ (Next => UNCHANGED vars)
    BY DEF Next, Store, Getpid, DoFork, Yield, Newthread, Exit, KillProc, Undefined, Wait, Spin
  <1> QED  BY <1>2, <1>3

\* As long as nobody uses sys_kill, or only the first process waits, a process
\* blocked in sys_wait is woken by the end of the process it asked for and by
\* nothing else.
THEOREM WokenByTheExit ==
    ASSUME Waiters = {1} \/ "kill" \notin Calls
    PROVE  Spec => WokenByExit
  <1>1. Spec => [](KernelInv /\ WaiterAsked)
    BY WaitersAsked
  <1>2. KernelInv /\ WaiterAsked /\ [Next]_vars => [WakeStep]_vars
    BY StepWakes
  <1> QED  BY <1>1, <1>2, PTL DEF Spec, WokenByExit

\* The stacks of two processes do not overlap.
LEMMA StacksDisjoint ==
    ASSUME NEW p \in Pids, NEW q \in Pids, p # q
    PROVE  StackOf(p) \cap StackOf(q) = {}
  <1> USE KernelAssumption
  <1>1. ASSUME NEW m \in Pids, NEW n \in Pids, m < n
        PROVE  StackTop(m) <= StackTop(n) - PROC_STACK_SIZE
    <2>1. m \in Nat /\ n \in Nat /\ m + 1 \in Nat /\ m + 1 <= n
      BY <1>1 DEF Pids
    <2>2. (m + 1) * PROC_STACK_SIZE <= n * PROC_STACK_SIZE
      BY <2>1, Monotone
    <2>3. (m + 1) * PROC_STACK_SIZE = m * PROC_STACK_SIZE + PROC_STACK_SIZE
      BY <2>1
    <2>4. m * PROC_STACK_SIZE \in Int /\ n * PROC_STACK_SIZE \in Int
      BY <2>1
    <2> QED  BY <2>2, <2>3, <2>4 DEF StackTop
  <1>2. p < q \/ q < p
    BY DEF Pids
  <1>3. StackTop(p) \in Int /\ StackTop(q) \in Int
    BY StackLayout
  <1>4. StackTop(p) <= StackTop(q) - PROC_STACK_SIZE \/ StackTop(q) <= StackTop(p) - PROC_STACK_SIZE
    BY <1>1, <1>2
  <1> QED  BY <1>3, <1>4 DEF StackOf

\* The words of a process's stack are words of the stack area.
LEMMA StackInArea ==
    ASSUME NEW pid \in Pids
    PROVE  /\ StackOf(pid) \subseteq StackAddrs
           /\ StackTop(pid) \in Int
           /\ StackOf(pid) = StackTop(pid) - PROC_STACK_SIZE .. StackTop(pid) - 1
  <1> DEFINE high == (NPROCS - 1) * PROC_STACK_SIZE
  <1>1. /\ StackTop(pid) \in Int
        /\ PROC1_STACK_ADDR <= StackTop(pid) - PROC_STACK_SIZE
        /\ StackTop(pid) <= PROC1_STACK_ADDR + high
    BY StackLayout
  <1>2. high \in Int /\ PROC1_STACK_ADDR \in Int /\ PROC_STACK_SIZE \in Int
    BY KernelAssumption
  <1>3. StackAddrs = PROC1_STACK_ADDR .. PROC1_STACK_ADDR + high - 1
    BY DEF StackAddrs
  <1> HIDE DEF high
  <1> QED  BY <1>1, <1>2, <1>3 DEF StackOf

\* do_fork(): only the child's stack is written, and what of it is in use is
\* the parent's, word for word.
LEMMA ForkStacks ==
    ASSUME KernelInv, NEW reg \in Registers, NEW child \in Pids, child # current,
           reg.esp <= StackTop(current), StackTop(current) - PROC_STACK_SIZE <= reg.esp,
           Fork(reg, child)
    PROVE  /\ \A a \in StackAddrs \ StackOf(child) : mem'[a] = mem[a]
           /\ LET depth == StackTop(child) - p_registers'[child].esp
              IN  /\ depth \in 0 .. PROC_STACK_SIZE
                  /\ p_registers'[child].eax = 0
                  /\ p_registers'[current].eax = child
                  /\ p_registers'[current].esp = StackTop(current) - depth
                  /\ p_registers'[child].eip = p_registers'[current].eip
                  /\ \A k \in 1 .. depth :
                       mem'[StackTop(child) - k] = mem[StackTop(current) - k]
  <1>0. /\ current \in Pids /\ current \in Slots /\ child \in Slots
        /\ p_registers \in [Slots -> Registers]
    BY DEF KernelInv, TypeOK, Pids, Slots
  <1>1. /\ StackTop(child) \in Int /\ StackTop(current) \in Int
        /\ StackOf(child) = StackTop(child) - PROC_STACK_SIZE .. StackTop(child) - 1
        /\ StackOf(child) \subseteq StackAddrs
        /\ PROC_STACK_SIZE \in Nat /\ reg.esp \in Int
    BY <1>0, StackInArea, KernelAssumption DEF Registers
  <1> DEFINE depth == StackTop(current) - reg.esp
             esp == CopiedEsp(child, current, reg.esp)
  <1>2. esp = StackTop(child) - depth /\ esp \in Int
    BY <1>1 DEF CopiedEsp
  <1>3. depth \in 0 .. PROC_STACK_SIZE
    BY <1>1
  <1>4. Saved(reg)[current] = reg /\ DOMAIN Saved(reg) = Slots
    BY <1>0 DEF Saved
  <1>5. /\ p_registers'[child].esp = esp /\ p_registers'[child].eax = 0
        /\ p_registers'[child].eip = reg.eip
        /\ p_registers'[current].eax = child
        /\ p_registers'[current].esp = reg.esp /\ p_registers'[current].eip = reg.eip
    BY <1>0, <1>4 DEF Fork, Registers
  <1>6. mem' = [a \in StackAddrs |->
                  IF a \in esp .. StackTop(child) - 1 THEN mem[reg.esp + (a - esp)] ELSE mem[a]]
    BY DEF Fork, CopiedMem
  <1>10. reg.esp = StackTop(current) - depth
    BY <1>1
  <1> HIDE DEF depth, esp
  <1>7. ASSUME NEW a \in StackAddrs \ StackOf(child) PROVE mem'[a] = mem[a]
    <2>1. a \notin esp .. StackTop(child) - 1
      BY <1>1, <1>2, <1>3
    <2> QED  BY <1>6, <2>1
  <1>8. ASSUME NEW k \in 1 .. depth PROVE mem'[StackTop(child) - k] = mem[StackTop(current) - k]
    <2>1. StackTop(child) - k \in esp .. StackTop(child) - 1
      BY <1>1, <1>2, <1>3
    <2>2. StackTop(child) - k \in StackAddrs
      BY <1>1, <1>3
    <2>3. reg.esp + (StackTop(child) - k - esp) = StackTop(current) - k
      <3>1. k \in Int /\ depth \in Int
        BY <1>3
      <3> QED  BY <1>1, <1>2, <1>10, <3>1
    <2> QED  BY <1>6, <2>1, <2>2, <2>3
  <1>9. StackTop(child) - p_registers'[child].esp = depth
    BY <1>1, <1>2, <1>3, <1>5
  <1> QED  BY <1>3, <1>5, <1>7, <1>8, <1>9, <1>10

\* sys_newthread: only the new thread's stack is written, and it is empty.
LEMMA ThreadStacks ==
    ASSUME KernelInv, NEW reg \in Registers, NEW child \in Pids, child # current,
           NewThread(reg, child)
    PROVE  /\ \A a \in StackAddrs \ StackOf(child) : mem'[a] = mem[a]
           /\ \A a \in StackOf(child) : mem'[a] = 0
           /\ StackTop(child) - p_registers'[child].esp = 0
           /\ p_registers'[child].eax = 0
           /\ p_registers'[current].eax = child
  <1>0. /\ current \in Slots /\ child \in Slots
        /\ p_registers \in [Slots -> Registers]
    BY DEF KernelInv, TypeOK, Pids, Slots
  <1>1. StackTop(child) \in Int /\ StackOf(child) \subseteq StackAddrs
    BY StackInArea
  <1>2. Saved(reg)[current] = reg /\ DOMAIN Saved(reg) = Slots
    BY <1>0 DEF Saved
  <1>3. /\ p_registers'[child].esp = StackTop(child) /\ p_registers'[child].eax = 0
        /\ p_registers'[current].eax = child
    BY <1>0, <1>2 DEF NewThread, Registers
  <1> QED  BY <1>1, <1>3 DEF NewThread

\* Every step respects the stacks.
LEMMA StepStacks ==
    ASSUME KernelInv, WaiterAsked, [Next]_vars
    PROVE  [StackStep]_vars
  <1> USE KernelAssumption
  <1>0. /\ TypeOK /\ current \in Pids /\ Pids \subseteq Slots /\ 0 \notin Pids
    BY DEF KernelInv, TypeOK, Pids, Slots
  <1>d. /\ P_EMPTY # P_RUNNABLE /\ P_EMPTY # P_BLOCKED /\ P_EMPTY # P_ZOMBIE
        /\ P_ZOMBIE # P_RUNNABLE /\ P_BLOCKED # P_RUNNABLE
    BY DEF P_EMPTY, P_RUNNABLE, P_BLOCKED, P_ZOMBIE
  <1>e. \A pid \in Pids : p_state[pid] = P_EMPTY => ~Live(pid)
    BY <1>d DEF Live
  <1>a. ASSUME NEW child \in Pids, p_state[child] = P_EMPTY, NEW pid \in Pids, Live(pid)
        PROVE  pid # child /\ StackOf(pid) \subseteq StackAddrs \ StackOf(child)
    BY <1>a, <1>e, StacksDisjoint, StackInArea
  <1>n. ASSUME mem' = mem, ~\E child \in Pids : BirthStep(child), cpu = "user", Next
        PROVE  StackStep
    <2>1. ASSUME NEW child \in Pids, p_state[child] = P_EMPTY, p_state'[child] = P_RUNNABLE
          PROVE  FALSE
      <3>1. CASE QuietStep
        BY <1>d, <2>1, <3>1 DEF QuietStep
      <3>2. ASSUME NEW pid \in Pids, EndStep(pid) PROVE FALSE
        <4>1. /\ Ended(pid)[pid] = P_ZOMBIE
              /\ \A q \in Slots \ {pid} : Ended(pid)[q] = p_state[q] \/ (q = p_wait[pid] /\ q # 0)
          BY <3>2, EndedFacts DEF EndStep
        <4>2. p_wait[pid] # 0 => p_state[p_wait[pid]] \in {P_BLOCKED, P_ZOMBIE}
          BY DEF WaiterAsked
        <4> QED  BY <1>0, <1>d, <2>1, <3>2, <4>1, <4>2 DEF EndStep
      <3>3. ASSUME NEW pid \in Pids, ReapStep(pid) PROVE FALSE
        BY <1>0, <1>d, <2>1, <3>3 DEF ReapStep, TypeOK
      <3>4. ASSUME NEW pid \in Pids, BlockStep(pid) PROVE FALSE
        BY <1>0, <1>d, <2>1, <3>4 DEF BlockStep, TypeOK
      <3> QED  BY <1>0, <1>n, <3>1, <3>2, <3>3, <3>4, StepKinds
    <2> QED  BY <1>n, <2>1 DEF StackStep
  <1>r. ASSUME NEW E, E \subseteq Int, NEW reg \in Frames(E)
        PROVE  /\ reg \in Registers /\ reg.esp <= StackTop(current)
               /\ StackTop(current) - PROC_STACK_SIZE <= reg.esp
    BY <1>0, <1>r, FrameType
  <1>c. ASSUME cpu = "user" PROVE p_state[current] = P_RUNNABLE
    BY <1>c DEF KernelInv, CurrentRunnable
  <1>q. QuietStep => ~\E child \in Pids : BirthStep(child)
    BY <1>0, <1>d DEF QuietStep, BirthStep, TypeOK
  <1>1. CASE Store
    <2>1. PICK a \in StackOf(current), w \in Words : mem' = [mem EXCEPT ![a] = w]
      BY <1>1 DEF Store
    <2>2. \A pid \in Pids \ {current} : \A b \in StackOf(pid) : b # a
      BY <1>0, StacksDisjoint
    <2>3. \A pid \in Pids \ {current} : \A b \in StackOf(pid) : mem'[b] = mem[b]
      BY <1>0, <2>1, <2>2, StackInArea DEF TypeOK
    <2>4. p_state' = p_state
      BY <1>1 DEF Store
    <2> QED  BY <1>d, <2>3, <2>4 DEF StackStep
  <1>3. CASE DoFork
    <2>1. PICK reg \in Frames({0}) : SysFork(reg)  BY <1>3 DEF DoFork
    <2>2. reg \in Registers /\ reg.esp <= StackTop(current)
          /\ StackTop(current) - PROC_STACK_SIZE <= reg.esp
      BY <1>r
    <2>3. CASE ForkFails(reg)
      BY <1>3, <1>n, <1>q, <2>3 DEF ForkFails, QuietStep, DoFork, Next
    <2>4. ASSUME NEW child \in Pids, Fork(reg, child) PROVE StackStep
      <3>1. child # current /\ p_state[child] = P_EMPTY
            /\ p_state' = [p_state EXCEPT ![child] = P_RUNNABLE]
        BY <1>3, <1>c, <1>d, <2>4 DEF Fork, FirstEmpty, DoFork
      <3>2. \A q \in Pids : p_state[q] = P_EMPTY /\ p_state'[q] = P_RUNNABLE => q = child
        BY <1>0, <1>d, <3>1 DEF TypeOK
      <3>3. /\ \A a \in StackAddrs \ StackOf(child) : mem'[a] = mem[a]
            /\ LET depth == StackTop(child) - p_registers'[child].esp
               IN  /\ depth \in 0 .. PROC_STACK_SIZE
                   /\ p_registers'[child].eax = 0
                   /\ p_registers'[current].eax = child
                   /\ p_registers'[current].esp = StackTop(current) - depth
                   /\ p_registers'[child].eip = p_registers'[current].eip
                   /\ \A k \in 1 .. depth :
                        mem'[StackTop(child) - k] = mem[StackTop(current) - k]
        BY <2>2, <2>4, <3>1, ForkStacks
      <3>4. \A pid \in Pids \ {current} : Live(pid) => \A a \in StackOf(pid) : mem'[a] = mem[a]
        BY <1>a, <3>1, <3>3
      <3> QED  BY <3>2, <3>3, <3>4 DEF StackStep
    <2> QED  BY <2>1, <2>3, <2>4 DEF SysFork
  <1>5. CASE Newthread
    <2>0. CodeAddrs \subseteq Int  OBVIOUS
    <2>1. PICK reg \in Frames(CodeAddrs) : SysNewthread(reg)  BY <1>5 DEF Newthread
    <2>2. reg \in Registers
      BY <1>r, <2>0
    <2>3. CASE SysYield(reg)
      BY <1>5, <1>n, <1>q, <2>3 DEF SysYield, QuietStep, Newthread, Next
    <2>4. ASSUME NEW child \in Pids, NewThread(reg, child) PROVE StackStep
      <3>1. child # current /\ p_state[child] = P_EMPTY
            /\ p_state' = [p_state EXCEPT ![child] = P_RUNNABLE]
        BY <1>5, <1>c, <1>d, <2>4 DEF NewThread, FirstEmpty, Newthread
      <3>2. \A q \in Pids : p_state[q] = P_EMPTY /\ p_state'[q] = P_RUNNABLE => q = child
        BY <1>0, <1>d, <3>1 DEF TypeOK
      <3>3. /\ \A a \in StackAddrs \ StackOf(child) : mem'[a] = mem[a]
            /\ \A a \in StackOf(child) : mem'[a] = 0
            /\ StackTop(child) - p_registers'[child].esp = 0
            /\ p_registers'[child].eax = 0
            /\ p_registers'[current].eax = child
        BY <2>2, <2>4, <3>1, ThreadStacks
      <3>4. \A pid \in Pids \ {current} : Live(pid) => \A a \in StackOf(pid) : mem'[a] = mem[a]
        BY <1>a, <3>1, <3>3
      <3>5. 0 \in 0 .. PROC_STACK_SIZE
        OBVIOUS
      <3> QED  BY <3>2, <3>3, <3>4, <3>5 DEF StackStep
    <2> QED  BY <2>1, <2>3, <2>4 DEF SysNewthread
  <1>m. ASSUME cpu = "user", Getpid \/ Yield \/ Exit \/ KillProc \/ Undefined \/ Wait
        PROVE  mem' = mem /\ ~\E child \in Pids : BirthStep(child)
    <2>1. CASE Getpid \/ Yield \/ Undefined
      BY <1>q, <2>1 DEF Getpid, SysGetpid, Yield, SysYield, Undefined, SysUndefined, QuietStep
    <2>s. ASSUME NEW child \in Pids, BirthStep(child)
          PROVE  p_state' # p_state /\ \A pid \in Pids : p_state[pid] # P_EMPTY => p_state'[pid] = p_state[pid]
      BY <1>0, <1>d, <2>s DEF BirthStep, TypeOK
    <2>2. CASE Exit
      <3>1. mem' = mem /\ p_state' = Ended(current)
        BY <2>2 DEF Exit, SysExit
      <3>2. p_state[current] = P_RUNNABLE /\ Ended(current)[current] = P_ZOMBIE
        BY <1>0, <1>c, <1>d, <1>m, EndedFacts
      <3> QED  BY <1>0, <1>d, <2>s, <3>1, <3>2
    <2>3. CASE KillProc
      <3>1. PICK reg : SysKill(reg)  BY <2>3 DEF KillProc
      <3>2. mem' = mem  BY <3>1 DEF SysKill
      <3>3. CASE Killable(reg.eax) /\ Kill(reg.eax)
        <4> DEFINE pid == reg.eax
        <4>1. pid \in Pids /\ p_state[pid] # P_EMPTY /\ p_state' = Ended(pid)
          BY <3>3 DEF Killable, Kill
        <4>2. /\ Ended(pid)[pid] = P_ZOMBIE
              /\ \A q \in Slots \ {pid} : Ended(pid)[q] = p_state[q] \/ (q = p_wait[pid] /\ q # 0)
          BY <4>1, EndedFacts
        <4>3. p_wait[pid] # 0 => p_state[p_wait[pid]] # P_EMPTY
          BY <1>d, <4>1 DEF WaiterAsked
        <4>4. \A q \in Pids : p_state[q] = P_EMPTY => p_state'[q] = P_EMPTY
          BY <1>0, <1>d, <4>1, <4>2, <4>3
        <4>5. ASSUME NEW child \in Pids, BirthStep(child) PROVE FALSE
          <5>1. p_state[child] = P_EMPTY /\ p_state'[child] = P_RUNNABLE
            BY <1>0, <4>5 DEF BirthStep, TypeOK
          <5> QED  BY <1>d, <4>4, <5>1
        <4> QED  BY <3>2, <4>5
      <3>4. CASE ~Killable(reg.eax)
        BY <1>q, <3>1, <3>2, <3>4 DEF SysKill, QuietStep
      <3> QED  BY <3>1, <3>3, <3>4 DEF SysKill
    <2>4. CASE Wait
      <3>1. PICK reg : SysWait(reg)  BY <2>4 DEF Wait
      <3>2. mem' = mem  BY <3>1 DEF SysWait
      <3>3. CASE WaitFails(reg)
        BY <1>q, <3>2, <3>3 DEF WaitFails, QuietStep
      <3>4. CASE Reap(reg)
        <4>1. /\ reg.eax \in Pids /\ p_state[reg.eax] = P_ZOMBIE
              /\ p_state' = [p_state EXCEPT ![reg.eax] = P_EMPTY]
          BY <3>4 DEF Reap, Waitable
        <4> QED  BY <1>0, <1>d, <2>s, <3>2, <4>1 DEF TypeOK
      <3>5. CASE Block(reg)
        <4>1. p_state' = [p_state EXCEPT ![current] = P_BLOCKED] /\ p_state[current] = P_RUNNABLE
          BY <1>c, <1>m, <3>5 DEF Block
        <4> QED  BY <1>0, <1>d, <2>s, <3>2, <4>1 DEF TypeOK
      <3> QED  BY <3>1, <3>3, <3>4, <3>5 DEF SysWait
    <2> QED  BY <1>m, <2>1, <2>2, <2>3, <2>4
  <1>6. CASE Getpid \/ Yield \/ Exit \/ KillProc \/ Undefined \/ Wait
    <2>1. cpu = "user" /\ Next
      BY <1>6 DEF Next, Getpid, Yield, Exit, KillProc, Undefined, Wait
    <2> QED  BY <1>m, <1>n, <1>6, <2>1
  <1>7. CASE Spin
    BY <1>7 DEF Spin
  <1> QED  BY <1>1, <1>3, <1>5, <1>6, <1>7 DEF Next

\* As long as nobody uses sys_kill, or only the first process waits, no step
\* writes into the stack of another live process, and every process that is
\* created starts with its own stack: its parent's words or an empty one.
THEOREM StacksStayApart ==
    ASSUME Waiters = {1} \/ "kill" \notin Calls
    PROVE  Spec => StacksApart
  <1>1. Spec => [](KernelInv /\ WaiterAsked)
    BY WaitersAsked
  <1>2. KernelInv /\ WaiterAsked /\ [Next]_vars => [StackStep]_vars
    BY StepStacks
  <1> QED  BY <1>1, <1>2, PTL DEF Spec, StacksApart

=============================================================================
