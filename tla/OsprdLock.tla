----------------------------- MODULE OsprdLock -----------------------------
(***************************************************************************)
(* The reader/writer lock of one ramdisk (Lab2-Encrypted-Ramdisk/osprd.c): *)
(* the ioctls ACQUIRE, TRYACQUIRE and RELEASE, the release on close, and   *)
(* the tickets that order blocked requests.                                *)
(*                                                                         *)
(* A section of code that holds d->mutex is one action.  What the driver   *)
(* reads without the mutex (the condition of wait_event_interruptible and  *)
(* the test of TRYACQUIRE) is an action of its own, since on a kernel with *)
(* SMP or preemption (Smp = TRUE) other processes run between that read    *)
(* and the section that relies on it.  Without (Smp = FALSE, the build for *)
(* which spinlock.h supplies osp_spinlock_t) a process inside the kernel   *)
(* runs until it sleeps or returns.                                        *)
(***************************************************************************)
EXTENDS Integers, Sequences, FiniteSets

CONSTANTS
    Procs,      \* the processes (their pids)
    Files,      \* the open files of the device that can exist
    Owner,      \* Owner[f]: the process that opens f
    Writable,   \* the files opened for writing
    Smp,        \* is the kernel built with SMP or preemption
    Ops,        \* what processes do besides closing their files
    NoPid,      \* the value -1 of write_pid
    MaxTicket   \* bound on ticket_head

AllOps == {"acquire", "try", "release", "signal"}

ASSUME LockAssumption ==
    /\ IsFiniteSet(Files) /\ Files # {}
    /\ Owner \in [Files -> Procs]
    /\ Writable \subseteq Files
    /\ Smp \in BOOLEAN
    /\ Ops \subseteq AllOps
    /\ NoPid \notin Procs
    /\ MaxTicket \in Nat

VARIABLES
    ticket_head, ticket_tail,  \* d->ticket_head and d->ticket_tail
    num_read, num_write,       \* d->num_read and d->num_write
    write_pid,                 \* d->write_pid
    killed_list,               \* d->killed_list, as a sequence of tickets
    pid_list,                  \* d->pid_list, as a sequence of pids
    open,                      \* the files that are open
    locked,                    \* the files whose F_OSPRD_LOCKED is set
    pc,                        \* where each process is
    req,                       \* the file of its current ioctl
    cur_ticket,                \* its local variable cur_ticket
    awake,                     \* waiting processes that are to evaluate their condition
    signals,                   \* processes with a pending signal
    holds                      \* history: files granted a lock and not released since

device == <<ticket_head, ticket_tail, num_read, num_write, write_pid, killed_list, pid_list>>
process == <<pc, req, cur_ticket, awake, signals>>
vars == <<device, open, locked, process, holds>>

\* Where a process can be: outside the driver; in wait_event_interruptible,
\* asleep unless it is awake; there with the counters found free; out of it
\* with the condition true; out of it because of a signal; past the test of
\* TRYACQUIRE.
PCs == {"user", "waiting", "counted", "passed", "interrupted", "tried"}
InKernel == {"counted", "passed", "interrupted", "tried"}

\* May p take a step in the kernel now?
CanRun(p) == Smp \/ \A q \in Procs \ {p} : pc[q] \notin InKernel

Waiting(p) == pc[p] \in {"waiting", "counted", "passed"}

Init ==
    /\ ticket_head = 0 /\ ticket_tail = 0
    /\ num_read = 0 /\ num_write = 0
    /\ write_pid = NoPid
    /\ killed_list = <<>> /\ pid_list = <<>>
    /\ open = {} /\ locked = {} /\ holds = {}
    /\ pc = [p \in Procs |-> "user"]
    /\ req \in [Procs -> {CHOOSE f \in Files : TRUE}]
    /\ cur_ticket = [p \in Procs |-> 0]
    /\ awake = {} /\ signals = {}

-----------------------------------------------------------------------------
(* The linked lists. *)

InList(x, list) == \E i \in DOMAIN list : list[i] = x

\* Where a new ticket goes in killed_list: the scan starts at the second node
\* and stops in front of the first ticket that is not smaller.
InsertKilled(t, list) ==
    LET later == {i \in 2 .. Len(list) : list[i] >= t}
        at == CHOOSE i \in later : \A j \in later : i <= j
    IN  IF list = <<>> THEN <<t>>
        ELSE IF later # {} THEN SubSeq(list, 1, at - 1) \o <<t>> \o SubSeq(list, at, Len(list))
        ELSE IF t < list[Len(list)] THEN <<t, list[Len(list)]>>
        ELSE Append(list, t)

\* The loop that lets ticket_tail pass over killed tickets: the tail after i
\* nodes of the list, and the node from which the list is kept.  A node that
\* is passed over takes every node before it along.
Drained(list, tail) ==
    LET step[i \in 0 .. Len(list)] ==
          IF i = 0 THEN [tail |-> tail, from |-> 1]
          ELSE LET s == step[i - 1]
               IN  IF list[i] = s.tail THEN [tail |-> s.tail + 1, from |-> i + 1]
                   ELSE IF list[i] < s.tail THEN [s EXCEPT !.from = i + 1]
                   ELSE s
    IN  step[Len(list)]

\* The walk that links a reader's pid into pid_list: behind its own pid if it
\* is there (what followed is cut off), else at the end.
AppendPid(p, list) ==
    LET stops == {i \in DOMAIN list : list[i] = p \/ i = Len(list)}
        at == CHOOSE i \in stops : \A j \in stops : i <= j
    IN  IF list = <<>> THEN <<p>> ELSE Append(SubSeq(list, 1, at), p)

\* Unlinking the first node with pid p.
RemovePid(p, list) ==
    LET found == {i \in DOMAIN list : list[i] = p}
        at == CHOOSE i \in found : \A j \in found : i <= j
    IN  IF found = {} THEN list
        ELSE SubSeq(list, 1, at - 1) \o SubSeq(list, at + 1, Len(list))

-----------------------------------------------------------------------------
(* OSPRDIOCACQUIRE *)

\* Seeded fault: a writer does not look at the readers.
BadCountersFree(f) == num_write = 0

\* Is the lock free for a request through f, as the condition reads it?
CountersFree(f) == num_write = 0 /\ (f \in Writable => num_read = 0)

\* Seeded fault: a reader that asks for the write lock is not found.
BadWouldDeadlock(p, f) == write_pid = p
WouldDeadlock(p, f) == write_pid = p \/ (f \in Writable /\ InList(p, pid_list))

\* The rest of the mutex section once a request of p through f, with ticket t,
\* is granted.
Granted(p, f, t) ==
    LET d == Drained(killed_list, ticket_tail + 1)
    IN  /\ ticket_tail' = d.tail
        /\ killed_list' = SubSeq(killed_list, d.from, Len(killed_list))
        /\ IF f \in Writable
           THEN /\ num_write' = num_write + 1
                /\ write_pid' = p
                /\ UNCHANGED <<num_read, pid_list>>
           ELSE /\ num_read' = num_read + 1
                /\ pid_list' = AppendPid(p, pid_list)
                /\ UNCHANGED <<num_write, write_pid>>
        /\ locked' = locked \cup {f}
        /\ holds' = holds \cup {f}

\* The call, up to where it releases the mutex: it fails with -EDEADLK, takes
\* the lock at once, or starts to wait.
AcquireDeadlk(p, f) ==
    /\ WouldDeadlock(p, f)
    /\ UNCHANGED vars

AcquireNow(p, f) ==
    /\ ~WouldDeadlock(p, f)
    /\ CountersFree(f) /\ ticket_head = ticket_tail
    /\ ticket_head' = ticket_head + 1
    /\ Granted(p, f, ticket_head)
    /\ UNCHANGED <<open, process>>

AcquireWait(p, f) ==
    /\ ~WouldDeadlock(p, f)
    /\ ~(CountersFree(f) /\ ticket_head = ticket_tail)
    /\ cur_ticket' = [cur_ticket EXCEPT ![p] = ticket_head]
    /\ ticket_head' = ticket_head + 1
    /\ req' = [req EXCEPT ![p] = f]
    /\ pc' = [pc EXCEPT ![p] = "waiting"]
    /\ awake' = awake \cup {p}
    /\ UNCHANGED <<ticket_tail, num_read, num_write, write_pid, killed_list, pid_list,
                   open, locked, signals, holds>>

\* Processes do not ask for a lock through a file that already holds one.
Acquire(p, f) ==
    /\ "acquire" \in Ops
    /\ pc[p] = "user" /\ CanRun(p)
    /\ f \in open /\ Owner[f] = p
    /\ f \notin holds
    /\ ticket_head < MaxTicket
    /\ AcquireDeadlk(p, f) \/ AcquireNow(p, f) \/ AcquireWait(p, f)

\* A condition found false: a pending signal ends the wait, otherwise p sleeps
\* until the next wake-up.
KeepWaiting(p) ==
    pc' = [pc EXCEPT ![p] = IF p \in signals THEN "interrupted" ELSE "waiting"]

\* wait_event_interruptible evaluates the condition, first the counters ...
CheckCounters(p) ==
    /\ pc[p] = "waiting" /\ p \in awake /\ CanRun(p)
    /\ awake' = awake \ {p}
    /\ \/ CountersFree(req[p]) /\ pc' = [pc EXCEPT ![p] = "counted"]
       \/ ~CountersFree(req[p]) /\ KeepWaiting(p)
    /\ UNCHANGED <<device, open, locked, req, cur_ticket, signals, holds>>

\* Seeded fault: the ticket is not compared.
BadCheckTicket(p) ==
    /\ pc[p] = "counted" /\ CanRun(p)
    /\ pc' = [pc EXCEPT ![p] = "passed"]
    /\ UNCHANGED <<device, open, locked, req, cur_ticket, awake, signals, holds>>

\* ... then the ticket.
CheckTicket(p) ==
    /\ pc[p] = "counted" /\ CanRun(p)
    /\ \/ ticket_tail = cur_ticket[p] /\ pc' = [pc EXCEPT ![p] = "passed"]
       \/ ticket_tail # cur_ticket[p] /\ KeepWaiting(p)
    /\ UNCHANGED <<device, open, locked, req, cur_ticket, awake, signals, holds>>

\* Back from an ioctl, with any signal delivered.
Return(p) ==
    /\ pc' = [pc EXCEPT ![p] = "user"]
    /\ cur_ticket' = [cur_ticket EXCEPT ![p] = 0]
    /\ awake' = awake \ {p}
    /\ signals' = signals \ {p}
    /\ UNCHANGED req

\* With the condition true the mutex is taken again and the lock granted; the
\* condition is not evaluated again under the mutex.
Grant(p) ==
    /\ pc[p] = "passed" /\ CanRun(p)
    /\ Granted(p, req[p], cur_ticket[p])
    /\ Return(p)
    /\ UNCHANGED <<ticket_head, open>>

\* Seeded fault: an interrupted request always serves the next ticket.
BadInterrupted(p) ==
    /\ pc[p] = "interrupted" /\ CanRun(p)
    /\ ticket_tail' = ticket_tail + 1
    /\ Return(p)
    /\ UNCHANGED <<ticket_head, num_read, num_write, write_pid, killed_list, pid_list,
                   open, locked, holds>>

\* After a signal the ticket is given up: the next one is served if it was
\* this one's turn, otherwise the ticket is put into killed_list.
Interrupted(p) ==
    /\ pc[p] = "interrupted" /\ CanRun(p)
    /\ \/ /\ cur_ticket[p] = ticket_tail
          /\ ticket_tail' = ticket_tail + 1
          /\ UNCHANGED killed_list
       \/ /\ cur_ticket[p] # ticket_tail
          /\ killed_list' = InsertKilled(cur_ticket[p], killed_list)
          /\ UNCHANGED ticket_tail
    /\ Return(p)
    /\ UNCHANGED <<ticket_head, num_read, num_write, write_pid, pid_list, open, locked, holds>>

-----------------------------------------------------------------------------
(* OSPRDIOCTRYACQUIRE *)

\* The test outside the mutex; -EBUSY if it fails.
TryAcquire(p, f) ==
    /\ "try" \in Ops
    /\ pc[p] = "user" /\ CanRun(p)
    /\ f \in open /\ Owner[f] = p
    /\ f \notin holds
    /\ \/ /\ CountersFree(f)
          /\ pc' = [pc EXCEPT ![p] = "tried"]
          /\ req' = [req EXCEPT ![p] = f]
       \/ ~CountersFree(f) /\ UNCHANGED <<pc, req>>
    /\ UNCHANGED <<device, open, locked, cur_ticket, awake, signals, holds>>

\* Seeded fault: F_OSPRD_LOCKED is not set.
BadTryLocks(p) ==
    /\ pc[p] = "tried" /\ CanRun(p)
    /\ IF req[p] \in Writable
       THEN num_write' = num_write + 1 /\ UNCHANGED num_read
       ELSE num_read' = num_read + 1 /\ UNCHANGED num_write
    /\ holds' = holds \cup {req[p]}
    /\ Return(p)
    /\ UNCHANGED <<ticket_head, ticket_tail, write_pid, killed_list, pid_list, open, locked>>

\* The section that takes the lock: no ticket, no write_pid, no pid_list.
TryLocks(p) ==
    /\ pc[p] = "tried" /\ CanRun(p)
    /\ IF req[p] \in Writable
       THEN num_write' = num_write + 1 /\ UNCHANGED num_read
       ELSE num_read' = num_read + 1 /\ UNCHANGED num_write
    /\ locked' = locked \cup {req[p]}
    /\ holds' = holds \cup {req[p]}
    /\ Return(p)
    /\ UNCHANGED <<ticket_head, ticket_tail, write_pid, killed_list, pid_list, open>>

-----------------------------------------------------------------------------
(* OSPRDIOCRELEASE, and the close that calls it. *)

\* Seeded fault: nobody is woken.
BadWakeUpAll == UNCHANGED awake

\* wake_up_all: every process in the wait queue evaluates its condition.
WakeUpAll == awake' = awake \cup {p \in Procs : pc[p] \in {"waiting", "counted"}}

\* Seeded fault in the release: a writer's F_OSPRD_LOCKED stays set.
BadUnlockFlag(p, f) ==
    /\ IF f \in Writable
       THEN num_write' = 0 /\ write_pid' = NoPid /\ UNCHANGED <<num_read, pid_list>>
       ELSE /\ num_read' = IF num_read > 0 THEN num_read - 1 ELSE 0
            /\ pid_list' = RemovePid(p, pid_list)
            /\ UNCHANGED <<num_write, write_pid>>
    /\ WakeUpAll
    /\ holds' = holds \ {f}
    /\ UNCHANGED <<ticket_head, ticket_tail, killed_list, locked>>

\* The ioctl on a file whose F_OSPRD_LOCKED is set.
Unlock(p, f) ==
    /\ IF f \in Writable
       THEN /\ num_write' = 0
            /\ write_pid' = NoPid
            /\ locked' = IF num_read = 0 THEN locked \ {f} ELSE locked
            /\ UNCHANGED <<num_read, pid_list>>
       ELSE /\ num_read' = IF num_read > 0 THEN num_read - 1 ELSE 0
            /\ locked' = IF num_read <= 1 /\ num_write = 0 THEN locked \ {f} ELSE locked
            /\ pid_list' = RemovePid(p, pid_list)
            /\ UNCHANGED <<num_write, write_pid>>
    /\ WakeUpAll
    /\ holds' = holds \ {f}
    /\ UNCHANGED <<ticket_head, ticket_tail, killed_list>>

\* An explicit release; on a file that is not locked it only returns -EINVAL.
Release(p, f) ==
    /\ "release" \in Ops
    /\ pc[p] = "user" /\ CanRun(p)
    /\ f \in open /\ Owner[f] = p
    /\ f \in locked
    /\ Unlock(p, f)
    /\ UNCHANGED <<open, pc, req, cur_ticket, signals>>

Open(p, f) ==
    /\ pc[p] = "user" /\ CanRun(p)
    /\ Owner[f] = p /\ f \notin open
    /\ open' = open \cup {f}
    /\ locked' = locked \ {f}
    /\ UNCHANGED <<device, process, holds>>

\* The last close of a file, which exiting does too: RELEASE, then the file
\* and its flags are gone.
Close(p, f) ==
    /\ pc[p] = "user" /\ CanRun(p)
    /\ f \in open /\ Owner[f] = p
    /\ open' = open \ {f}
    /\ \/ f \in locked /\ Unlock(p, f) /\ UNCHANGED <<pc, req, cur_ticket, signals>>
       \/ f \notin locked /\ UNCHANGED <<device, locked, process, holds>>

\* A signal arrives for a process that waits.
Signal(p) ==
    /\ "signal" \in Ops
    /\ pc[p] \in {"waiting", "counted"} /\ p \notin signals
    /\ signals' = signals \cup {p}
    /\ awake' = awake \cup {p}
    /\ UNCHANGED <<device, open, locked, pc, req, cur_ticket, holds>>

-----------------------------------------------------------------------------
InKernelStep(p) ==
    CheckCounters(p) \/ CheckTicket(p) \/ Grant(p) \/ Interrupted(p) \/ TryLocks(p)

Next ==
    \/ \E p \in Procs : InKernelStep(p) \/ Signal(p)
    \/ \E f \in Files :
         \/ Open(Owner[f], f) \/ Close(Owner[f], f)
         \/ Acquire(Owner[f], f) \/ TryAcquire(Owner[f], f) \/ Release(Owner[f], f)

Spec == Init /\ [][Next]_vars

\* The scheduler runs every process that is ready, and processes finish with
\* the device: a file that holds a lock is closed in the end.
FairSpec ==
    /\ Spec
    /\ \A p \in Procs : WF_vars(InKernelStep(p))
    /\ \A f \in Files : WF_vars(f \in holds /\ Close(Owner[f], f))

-----------------------------------------------------------------------------
(* Properties. *)

\* The types of the device's fields and of the processes' local state.
TypeOK ==
    /\ ticket_head \in Nat /\ ticket_tail \in Nat
    /\ num_read \in Nat /\ num_write \in Nat
    /\ write_pid \in Procs \cup {NoPid}
    /\ killed_list \in Seq(Nat) /\ pid_list \in Seq(Procs)
    /\ open \subseteq Files /\ locked \subseteq Files /\ holds \subseteq open
    /\ pc \in [Procs -> PCs] /\ req \in [Procs -> Files]
    /\ cur_ticket \in [Procs -> Nat]
    /\ awake \subseteq Procs /\ signals \subseteq Procs

\* The lock excludes: while a file holds the lock for writing, no other file
\* holds it, for writing or reading.
MutualExclusion ==
    \A f, g \in holds : f \in Writable => g = f

\* The device's counters say exactly which locks are held, and a file's
\* F_OSPRD_LOCKED says whether it holds one, so the release at close time
\* gives back every lock once.
CountsMatch ==
    /\ num_write = Cardinality(holds \cap Writable)
    /\ num_read = Cardinality(holds \ Writable)
    /\ locked \cap open = holds

\* The tickets of waiting processes are distinct, and ticket_tail has not gone
\* past any of them, whatever is granted, given up or released meanwhile.  It
\* need not get to them: an interrupted request that is next only increments
\* ticket_tail, and a node passed over takes those before it along, so the
\* tail can come to rest on a ticket that was given up, and then nobody is
\* served any more.
TicketsAhead ==
    \A p \in Procs : Waiting(p) =>
        /\ ticket_tail <= cur_ticket[p] /\ cur_ticket[p] < ticket_head
        /\ \A q \in Procs \ {p} : Waiting(q) => cur_ticket[q] # cur_ticket[p]

\* The requests that wait, in the order of their tickets.
Queued == {p \in Procs : pc[p] \in {"waiting", "counted", "passed", "interrupted"}}
Before(p) == {q \in Queued : cur_ticket[q] < cur_ticket[p]}
Queue ==
    [i \in 1 .. Cardinality(Queued) |->
        req[CHOOSE p \in Queued : Cardinality(Before(p)) = i - 1]]

Lock == INSTANCE RwLock WITH queue <- Queue

\* For processes that lock with ACQUIRE, tickets, counters, killed_list and
\* wake-ups together are a lock with a queue: nobody is granted the lock when
\* it is not free for it, or before those that wait in front of it, "so no
\* process that blocked earlier is still blocked"; an interrupted request
\* leaves the queue from anywhere in it and changes no other's place.  That
\* the front of the queue is served is not part of it.  TRYACQUIRE is no
\* refinement of this lock: it does not look at the tickets, so it succeeds
\* while others wait, where ACQUIRE would block.
LockImplemented == Lock!Spec

\* A process that blocks in ACQUIRE gets the lock (or is interrupted) in the
\* end.
EveryoneServed == \A p \in Procs : Waiting(p) ~> pc[p] = "user"

\* A request that would deadlock fails: nobody waits for the lock while it
\* holds a lock that it, or someone in front of it, waits to see released.
DeadlockDetected ==
    \A p \in Procs : Waiting(p) =>
        \A f \in holds : Owner[f] = p =>
            \A q \in Procs : Waiting(q) /\ cur_ticket[q] <= cur_ticket[p] =>
                f \notin Writable /\ req[q] \notin Writable

=============================================================================
