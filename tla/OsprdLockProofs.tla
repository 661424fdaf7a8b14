--------------------------- MODULE OsprdLockProofs ---------------------------
(***************************************************************************)
(* What is proved of the ramdisk lock for every number of processes and    *)
(* open files, readers and writers, with signals: on a kernel without SMP  *)
(* and preemption, the lock excludes and its counters are exact.  Locks    *)
(* are given back by closing the file, the way osprdaccess does, or, where *)
(* at most one file is for reading, by explicit releases too.              *)
(***************************************************************************)
EXTENDS OsprdLock, FiniteSetTheorems, TLAPS

-----------------------------------------------------------------------------
(* The inductive invariant. *)

\* The parts of the state the argument is about; tickets play no role in it.
Shape ==
    /\ open \subseteq Files /\ holds \subseteq open
    /\ pc \in [Procs -> PCs]
    /\ req \in [Procs -> Files]

\* Without SMP and preemption at most one process is inside the kernel.
OneInKernel ==
    \A p, q \in Procs : pc[p] \in InKernel /\ pc[q] \in InKernel => p = q

\* What a process found free stays free until it takes it.
StillFree ==
    \A p \in Procs : pc[p] \in {"counted", "passed", "tried"} => CountersFree(req[p])

\* The file of an ioctl in progress is open, belongs to the caller and holds
\* no lock yet.
Requests ==
    \A p \in Procs : pc[p] # "user" =>
        req[p] \in open /\ req[p] \notin holds /\ Owner[req[p]] = p

LockInv == Shape /\ OneInKernel /\ StillFree /\ Requests /\ CountsMatch /\ MutualExclusion

-----------------------------------------------------------------------------
(* Counting the holders. *)

\* Adding and removing a holder moves the cardinality by one.
LEMMA CountStep ==
    ASSUME NEW S, IsFiniteSet(S), NEW x
    PROVE  /\ Cardinality(S) \in Nat
           /\ x \notin S => Cardinality(S \cup {x}) = Cardinality(S) + 1
           /\ x \in S => Cardinality(S \ {x}) = Cardinality(S) - 1
           /\ Cardinality(S) = 0 <=> S = {}
  BY FS_CardinalityType, FS_AddElement, FS_RemoveElement, FS_EmptySet

\* The holders are finitely many.
LEMMA HoldersFinite ==
    ASSUME Shape
    PROVE  IsFiniteSet(holds \cap Writable) /\ IsFiniteSet(holds \ Writable)
  <1>1. holds \cap Writable \subseteq Files /\ holds \ Writable \subseteq Files
    BY DEF Shape
  <1> QED  BY <1>1, LockAssumption, FS_Subset

\* If the counters are free for a request through f, no lock is held that
\* conflicts with it.
LEMMA FreeMeansFree ==
    ASSUME LockInv, NEW f \in Files, CountersFree(f)
    PROVE  holds \cap Writable = {} /\ (f \in Writable => holds = {})
  <1>1. IsFiniteSet(holds \cap Writable) /\ IsFiniteSet(holds \ Writable)
    BY HoldersFinite DEF LockInv
  <1>2. Cardinality(holds \cap Writable) = 0 => holds \cap Writable = {}
    BY <1>1, CountStep
  <1>3. Cardinality(holds \ Writable) = 0 => holds \ Writable = {}
    BY <1>1, CountStep
  <1> QED  BY <1>2, <1>3 DEF LockInv, CountsMatch, CountersFree

\* Taking the lock when it is free keeps the counters exact and the lock
\* exclusive.
LEMMA TakeLock ==
    ASSUME LockInv, NEW f \in open, f \notin holds, CountersFree(f),
           holds' = holds \cup {f}, locked' = locked \cup {f}, open' = open,
           IF f \in Writable THEN num_write' = num_write + 1 /\ num_read' = num_read
                             ELSE num_read' = num_read + 1 /\ num_write' = num_write
    PROVE  CountsMatch' /\ MutualExclusion'
  <1>0. f \in Files  BY DEF LockInv, Shape
  <1>1. holds \cap Writable = {} /\ (f \in Writable => holds = {})
    BY <1>0, FreeMeansFree
  <1>2. MutualExclusion'
    BY <1>1 DEF MutualExclusion
  <1>3. IsFiniteSet(holds \cap Writable) /\ IsFiniteSet(holds \ Writable)
    BY HoldersFinite DEF LockInv
  <1>4. locked' \cap open' = holds'
    BY DEF LockInv, CountsMatch
  <1>5. CASE f \in Writable
    <2>1. /\ (holds \cup {f}) \cap Writable = (holds \cap Writable) \cup {f}
          /\ (holds \cup {f}) \ Writable = holds \ Writable
          /\ f \notin holds \cap Writable
      BY <1>5
    <2>2. Cardinality((holds \cap Writable) \cup {f}) = Cardinality(holds \cap Writable) + 1
      BY <1>3, <2>1, CountStep
    <2> QED  BY <1>2, <1>4, <1>5, <2>1, <2>2 DEF LockInv, CountsMatch
  <1>6. CASE f \notin Writable
    <2>1. /\ (holds \cup {f}) \ Writable = (holds \ Writable) \cup {f}
          /\ (holds \cup {f}) \cap Writable = holds \cap Writable
          /\ f \notin holds \ Writable
      BY <1>6
    <2>2. Cardinality((holds \ Writable) \cup {f}) = Cardinality(holds \ Writable) + 1
      BY <1>3, <2>1, CountStep
    <2> QED  BY <1>2, <1>4, <1>6, <2>1, <2>2 DEF LockInv, CountsMatch
  <1> QED  BY <1>5, <1>6

\* If locks are also released explicitly, at most one file is for reading: an
\* explicit release by one of several readers leaves its F_OSPRD_LOCKED set.
OneReaderReleases == "release" \in Ops => \A f, g \in Files \ Writable : f = g

\* So does giving it back, by closing the file or by an explicit release.
LEMMA GiveBack ==
    ASSUME LockInv, NEW p \in Procs, NEW f \in open, f \in locked, Unlock(p, f),
           \/ open' = open \ {f}
           \/ open' = open /\ \A g, h \in Files \ Writable : g = h
    PROVE  /\ CountsMatch' /\ MutualExclusion'
           /\ holds' = holds \ {f}
           /\ \A g \in Files : CountersFree(g) => CountersFree(g)'
  <1>0. f \in holds /\ holds' = holds \ {f}
    BY DEF LockInv, CountsMatch, Unlock
  <1>1. IsFiniteSet(holds \cap Writable) /\ IsFiniteSet(holds \ Writable)
    BY HoldersFinite DEF LockInv
  <1>2. MutualExclusion'
    BY <1>0 DEF LockInv, MutualExclusion
  <1>3. CASE f \in Writable
    <2>1. holds \cap Writable = {f} /\ holds \ Writable = {}
      BY <1>0, <1>3 DEF LockInv, MutualExclusion
    <2>2. Cardinality({}) = 0
      BY FS_EmptySet
    <2>3. num_read = 0
      BY <2>1, <2>2 DEF LockInv, CountsMatch
    <2>4. holds' \cap Writable = {} /\ holds' \ Writable = {}
      BY <1>0, <2>1
    <2>5. num_write' = 0 /\ num_read' = num_read /\ locked' = locked \ {f}
      BY <1>3, <2>3 DEF Unlock
    <2>6. CountsMatch'
      BY <1>0, <2>2, <2>3, <2>4, <2>5 DEF LockInv, CountsMatch
    <2> QED  BY <1>0, <1>2, <2>5, <2>6 DEF CountersFree
  <1>4. CASE f \notin Writable
    <2>1. Cardinality((holds \ Writable) \ {f}) = Cardinality(holds \ Writable) - 1
      BY <1>0, <1>1, <1>4, CountStep
    <2>2. Cardinality(holds \ Writable) \in Nat /\ Cardinality(holds \ Writable) # 0
      BY <1>0, <1>1, <1>4, CountStep
    <2>3. /\ num_read' = num_read - 1 /\ num_read \in Nat /\ num_read > 0
          /\ num_write' = num_write
      BY <1>4, <2>2 DEF Unlock, LockInv, CountsMatch
    <2>4. holds' \cap Writable = holds \cap Writable /\ holds' \ Writable = (holds \ Writable) \ {f}
      BY <1>0, <1>4
    <2>5. locked' \cap open' = holds'
      <3>1. CASE open' = open \ {f}
        BY <1>0, <1>4, <3>1 DEF LockInv, CountsMatch, Unlock
      <3>2. CASE open' = open /\ \A g, h \in Files \ Writable : g = h
        <4>1. holds \ Writable = {f} /\ holds \cap Writable = {}
          BY <1>0, <1>4, <3>2 DEF LockInv, Shape, MutualExclusion
        <4>2. (holds \ Writable) \ {f} = {} /\ Cardinality({}) = 0
          BY <4>1, FS_EmptySet
        <4>3. num_read = 1 /\ num_write = 0
          <5>1. Cardinality((holds \ Writable) \ {f}) = 0 /\ Cardinality(holds \cap Writable) = 0
            BY <4>1, <4>2
          <5>2. Cardinality(holds \ Writable) = 1
            BY <2>1, <2>2, <5>1
          <5> QED  BY <5>1, <5>2 DEF LockInv, CountsMatch
        <4>4. locked' = locked \ {f}
          BY <1>4, <4>3 DEF Unlock
        <4> QED  BY <1>0, <3>2, <4>4 DEF LockInv, CountsMatch
      <3> QED  BY <3>1, <3>2
    <2>6. CountsMatch'
      BY <2>1, <2>3, <2>4, <2>5 DEF LockInv, CountsMatch
    <2>7. \A g \in Files : CountersFree(g) => CountersFree(g)'
      BY <2>3 DEF CountersFree
    <2> QED  BY <1>0, <1>2, <2>6, <2>7
  <1> QED  BY <1>3, <1>4

-----------------------------------------------------------------------------
(* Every step preserves the invariant. *)

\* It holds before anything is open.
LEMMA InitLockInv == Init => LockInv
  <1> SUFFICES ASSUME Init PROVE LockInv  OBVIOUS
  <1>1. Cardinality({}) = 0  BY FS_EmptySet
  <1>2. Shape
    BY LockAssumption DEF Init, Shape, PCs
  <1>3. CountsMatch /\ MutualExclusion
    BY <1>1 DEF Init, CountsMatch, MutualExclusion
  <1>4. OneInKernel /\ StillFree /\ Requests
    BY DEF Init, OneInKernel, StillFree, Requests, InKernel
  <1> QED  BY <1>2, <1>3, <1>4 DEF LockInv

\* A step of p in the kernel that only moves its program counter, to a place
\* that is justified, and leaves the lock alone.
LEMMA MoveOnly ==
    ASSUME LockInv, Smp = FALSE, NEW p \in Procs, CanRun(p), NEW where \in PCs, NEW f \in Files,
           pc' = [pc EXCEPT ![p] = where], req' = [req EXCEPT ![p] = f],
           UNCHANGED <<num_read, num_write, open, locked, holds>>,
           where # "user" => f \in open /\ f \notin holds /\ Owner[f] = p,
           where \in {"counted", "passed", "tried"} => CountersFree(f)
    PROVE  LockInv'
  <1>1. Shape'
    BY DEF LockInv, Shape
  <1>2. OneInKernel'
    BY DEF LockInv, Shape, OneInKernel, CanRun
  <1>3. StillFree'
    BY DEF LockInv, Shape, StillFree, CountersFree
  <1>4. Requests'
    BY DEF LockInv, Shape, Requests
  <1>5. CountsMatch' /\ MutualExclusion'
    BY DEF LockInv, CountsMatch, MutualExclusion
  <1> QED  BY <1>1, <1>2, <1>3, <1>4, <1>5 DEF LockInv

\* A step of p that takes the lock through f, which it found free, and returns.
LEMMA TakeAndReturn ==
    ASSUME LockInv, Smp = FALSE, NEW p \in Procs, CanRun(p), NEW f \in open,
           f \notin holds, Owner[f] = p, CountersFree(f),
           pc' = [pc EXCEPT ![p] = "user"], req' = req,
           holds' = holds \cup {f}, locked' = locked \cup {f}, open' = open,
           IF f \in Writable THEN num_write' = num_write + 1 /\ num_read' = num_read
                             ELSE num_read' = num_read + 1 /\ num_write' = num_write
    PROVE  LockInv'
  <1>1. Shape'
    BY DEF LockInv, Shape, PCs
  <1>2. \A q \in Procs : pc'[q] \notin InKernel
    BY DEF LockInv, Shape, CanRun, InKernel
  <1>3. OneInKernel' /\ StillFree'
    BY <1>2 DEF OneInKernel, StillFree, InKernel
  <1>4. Requests'
    BY DEF LockInv, Shape, Requests
  <1>5. CountsMatch' /\ MutualExclusion'
    BY TakeLock
  <1> QED  BY <1>1, <1>3, <1>4, <1>5 DEF LockInv

\* Every step preserves the invariant on a kernel without SMP, if a reader that
\* releases its lock explicitly is the only one.
LEMMA NextLockInv ==
    ASSUME Smp = FALSE, OneReaderReleases, LockInv, [Next]_vars
    PROVE  LockInv'
  <1>0. Shape /\ Owner \in [Files -> Procs]
    BY LockAssumption DEF LockInv
  <1>r. \A p \in Procs : req[p] \in Files /\ [req EXCEPT ![p] = req[p]] = req
    BY <1>0 DEF Shape
  <1>q. \A p \in Procs : pc[p] # "user" =>
           req[p] \in open /\ req[p] \notin holds /\ Owner[req[p]] = p
    BY DEF LockInv, Requests
  <1>p. {"user", "waiting", "counted", "passed", "interrupted", "tried"} = PCs
    BY DEF PCs
  <1>1. CASE UNCHANGED vars
    BY <1>1 DEF vars, process, device, LockInv, Shape, OneInKernel, StillFree, Requests,
       CountersFree, CountsMatch, MutualExclusion
  <1>2. ASSUME NEW p \in Procs, CheckCounters(p) PROVE LockInv'
    <2>1. pc[p] # "user" /\ CanRun(p) /\ req' = req
      BY <1>2 DEF CheckCounters
    <2>2. UNCHANGED <<num_read, num_write, open, locked, holds>>
      BY <1>2 DEF CheckCounters, device
    <2>3. CASE CountersFree(req[p]) /\ pc' = [pc EXCEPT ![p] = "counted"]
      BY <1>q, <1>r, <1>p, <2>1, <2>2, <2>3, MoveOnly
    <2>4. CASE KeepWaiting(p)
      <3>1. PICK where \in {"interrupted", "waiting"} : pc' = [pc EXCEPT ![p] = where]
        BY <2>4 DEF KeepWaiting
      <3> QED  BY <1>q, <1>r, <1>p, <2>1, <2>2, <3>1, MoveOnly
    <2> QED  BY <1>2, <2>3, <2>4 DEF CheckCounters
  <1>3. ASSUME NEW p \in Procs, CheckTicket(p) PROVE LockInv'
    <2>1. pc[p] = "counted" /\ CanRun(p) /\ req' = req
      BY <1>3 DEF CheckTicket
    <2>2. UNCHANGED <<num_read, num_write, open, locked, holds>>
      BY <1>3 DEF CheckTicket, device
    <2>3. CountersFree(req[p])
      BY <2>1 DEF LockInv, StillFree
    <2>4. CASE pc' = [pc EXCEPT ![p] = "passed"]
      BY <1>q, <1>r, <1>p, <2>1, <2>2, <2>3, <2>4, MoveOnly
    <2>5. CASE KeepWaiting(p)
      <3>1. PICK where \in {"interrupted", "waiting"} : pc' = [pc EXCEPT ![p] = where]
        BY <2>5 DEF KeepWaiting
      <3> QED  BY <1>q, <1>r, <1>p, <2>1, <2>2, <3>1, MoveOnly
    <2> QED  BY <1>3, <2>4, <2>5 DEF CheckTicket
  <1>4. ASSUME NEW p \in Procs, Grant(p) PROVE LockInv'
    <2>1. pc[p] = "passed" /\ CanRun(p) /\ req' = req /\ open' = open
          /\ pc' = [pc EXCEPT ![p] = "user"] /\ Granted(p, req[p], cur_ticket[p])
      BY <1>4 DEF Grant, Return
    <2>2. CountersFree(req[p])
      BY <2>1 DEF LockInv, StillFree
    <2>3. /\ holds' = holds \cup {req[p]} /\ locked' = locked \cup {req[p]}
          /\ IF req[p] \in Writable THEN num_write' = num_write + 1 /\ num_read' = num_read
                                    ELSE num_read' = num_read + 1 /\ num_write' = num_write
      BY <2>1 DEF Granted
    <2> QED  BY <1>q, <2>1, <2>2, <2>3, TakeAndReturn
  <1>5. ASSUME NEW p \in Procs, Interrupted(p) PROVE LockInv'
    <2>1. /\ CanRun(p) /\ req' = req /\ pc' = [pc EXCEPT ![p] = "user"]
          /\ UNCHANGED <<num_read, num_write, open, locked, holds>>
      BY <1>5 DEF Interrupted, Return
    <2> QED  BY <1>r, <1>p, <2>1, MoveOnly
  <1>6. ASSUME NEW p \in Procs, TryLocks(p) PROVE LockInv'
    <2>1. pc[p] = "tried" /\ CanRun(p) /\ req' = req /\ open' = open
          /\ pc' = [pc EXCEPT ![p] = "user"]
      BY <1>6 DEF TryLocks, Return
    <2>2. CountersFree(req[p])
      BY <2>1 DEF LockInv, StillFree
    <2>3. /\ holds' = holds \cup {req[p]} /\ locked' = locked \cup {req[p]}
          /\ IF req[p] \in Writable THEN num_write' = num_write + 1 /\ num_read' = num_read
                                    ELSE num_read' = num_read + 1 /\ num_write' = num_write
      BY <1>6 DEF TryLocks
    <2> QED  BY <1>q, <2>1, <2>2, <2>3, TakeAndReturn
  <1>7. ASSUME NEW p \in Procs, Signal(p) PROVE LockInv'
    BY <1>7 DEF Signal, device, LockInv, Shape, OneInKernel, StillFree, Requests,
       CountersFree, CountsMatch, MutualExclusion
  <1>8. ASSUME NEW f \in Files, Open(Owner[f], f) PROVE LockInv'
    <2>1. /\ f \notin open /\ open' = open \cup {f} /\ locked' = locked \ {f}
          /\ UNCHANGED <<num_read, num_write, pc, req, holds>>
      BY <1>8 DEF Open, device, process
    <2>2. Shape' /\ OneInKernel' /\ StillFree' /\ Requests'
      BY <1>0, <2>1 DEF LockInv, Shape, OneInKernel, StillFree, Requests, CountersFree
    <2>3. locked' \cap open' = holds'
      BY <2>1 DEF LockInv, CountsMatch
    <2>4. CountsMatch' /\ MutualExclusion'
      BY <2>1, <2>3 DEF LockInv, CountsMatch, MutualExclusion
    <2> QED  BY <2>2, <2>4 DEF LockInv
  <1>9. ASSUME NEW f \in Files, Close(Owner[f], f) PROVE LockInv'
    <2> DEFINE p == Owner[f]
    <2>0. p \in Procs /\ pc[p] = "user" /\ f \in open /\ open' = open \ {f}
      BY <1>0, <1>9 DEF Close
    <2>1. \A q \in Procs : pc[q] # "user" => req[q] # f
      BY <1>q, <2>0
    <2>2. CASE f \in locked /\ Unlock(p, f) /\ UNCHANGED <<pc, req, cur_ticket, signals>>
      <3>1. /\ CountsMatch' /\ MutualExclusion' /\ holds' = holds \ {f}
            /\ \A g \in Files : CountersFree(g) => CountersFree(g)'
        BY <2>0, <2>2, GiveBack
      <3>2. Shape' /\ OneInKernel'
        BY <1>0, <2>0, <2>2, <3>1 DEF LockInv, Shape, OneInKernel
      <3>3. Requests'
        BY <1>q, <2>0, <2>1, <2>2, <3>1 DEF Requests
      <3>4. StillFree'
        BY <1>r, <2>2, <3>1 DEF LockInv, StillFree
      <3> QED  BY <3>1, <3>2, <3>3, <3>4 DEF LockInv
    <2>3. CASE f \notin locked /\ UNCHANGED <<device, locked, process, holds>>
      <3>1. f \notin holds
        BY <2>3 DEF LockInv, CountsMatch
      <3>2. UNCHANGED <<num_read, num_write, pc, req, holds, locked>>
        BY <2>3 DEF device, process
      <3>3. Shape' /\ OneInKernel' /\ StillFree'
        BY <1>0, <2>0, <3>1, <3>2 DEF LockInv, Shape, OneInKernel, StillFree, CountersFree
      <3>4. Requests'
        BY <1>q, <2>0, <2>1, <3>2 DEF Requests
      <3>5. locked' \cap open' = holds'
        BY <2>0, <2>3, <3>2 DEF LockInv, CountsMatch
      <3>6. CountsMatch' /\ MutualExclusion'
        BY <3>2, <3>5 DEF LockInv, CountsMatch, MutualExclusion
      <3> QED  BY <3>3, <3>4, <3>6 DEF LockInv
    <2> QED  BY <1>9, <2>2, <2>3 DEF Close
  <1>10. ASSUME NEW f \in Files, Acquire(Owner[f], f) PROVE LockInv'
    <2> DEFINE p == Owner[f]
    <2>0. p \in Procs /\ CanRun(p) /\ f \in open /\ f \notin holds
          /\ pc[p] = "user"
      BY <1>0, <1>10 DEF Acquire
    <2>1. CASE AcquireDeadlk(p, f)
      BY <1>1, <2>1 DEF AcquireDeadlk
    <2>2. CASE AcquireNow(p, f)
      <3>1. CountersFree(f) /\ Granted(p, f, ticket_head) /\ open' = open
            /\ req' = req /\ pc' = pc
        BY <2>2 DEF AcquireNow, process
      <3>2. pc' = [pc EXCEPT ![p] = "user"]
        BY <1>0, <2>0, <3>1 DEF Shape
      <3>3. /\ holds' = holds \cup {f} /\ locked' = locked \cup {f}
            /\ IF f \in Writable THEN num_write' = num_write + 1 /\ num_read' = num_read
                                 ELSE num_read' = num_read + 1 /\ num_write' = num_write
        BY <3>1 DEF Granted
      <3> QED  BY <2>0, <3>1, <3>2, <3>3, TakeAndReturn
    <2>3. CASE AcquireWait(p, f)
      <3>1. /\ pc' = [pc EXCEPT ![p] = "waiting"] /\ req' = [req EXCEPT ![p] = f]
            /\ UNCHANGED <<num_read, num_write, open, locked, holds>>
        BY <2>3 DEF AcquireWait
      <3> QED  BY <1>p, <2>0, <3>1, MoveOnly
    <2> QED  BY <1>10, <2>1, <2>2, <2>3 DEF Acquire
  <1>11. ASSUME NEW f \in Files, TryAcquire(Owner[f], f) PROVE LockInv'
    <2> DEFINE p == Owner[f]
    <2>0. p \in Procs /\ CanRun(p) /\ f \in open /\ f \notin holds
      BY <1>0, <1>11 DEF TryAcquire
    <2>1. UNCHANGED <<num_read, num_write, open, locked, holds>>
      BY <1>11 DEF TryAcquire, device
    <2>2. CASE /\ CountersFree(f) /\ pc' = [pc EXCEPT ![p] = "tried"]
               /\ req' = [req EXCEPT ![p] = f]
      BY <1>p, <2>0, <2>1, <2>2, MoveOnly
    <2>3. CASE UNCHANGED <<pc, req>>
      BY <2>1, <2>3 DEF LockInv, Shape, OneInKernel, StillFree, Requests,
         CountersFree, CountsMatch, MutualExclusion
    <2> QED  BY <1>11, <2>2, <2>3 DEF TryAcquire
  <1>12. ASSUME NEW f \in Files, Release(Owner[f], f) PROVE LockInv'
    <2> DEFINE p == Owner[f]
    <2>0. /\ p \in Procs /\ f \in open /\ f \in locked /\ open' = open /\ Unlock(p, f)
          /\ UNCHANGED <<pc, req>> /\ \A g, h \in Files \ Writable : g = h
      BY <1>0, <1>12 DEF Release, OneReaderReleases
    <2>1. /\ CountsMatch' /\ MutualExclusion' /\ holds' = holds \ {f}
          /\ \A g \in Files : CountersFree(g) => CountersFree(g)'
      BY <2>0, GiveBack
    <2>2. Shape' /\ OneInKernel'
      BY <1>0, <2>0, <2>1 DEF LockInv, Shape, OneInKernel
    <2>3. Requests'
      BY <1>q, <2>0, <2>1 DEF Requests
    <2>4. StillFree'
      BY <1>r, <2>0, <2>1 DEF LockInv, StillFree
    <2> QED  BY <2>1, <2>2, <2>3, <2>4 DEF LockInv
  <1> QED
    BY <1>1, <1>2, <1>3, <1>4, <1>5, <1>6, <1>7, <1>8, <1>9, <1>10, <1>11, <1>12
    DEF Next, InKernelStep

\* On a kernel without SMP and preemption, with locks given back by closing
\* the file, or explicitly where at most one file is for reading, the ramdisk
\* lock excludes: a writer is alone.
THEOREM WriterIsAlone ==
    ASSUME Smp = FALSE, OneReaderReleases
    PROVE  Spec => []MutualExclusion
  <1>1. Init => LockInv
    BY InitLockInv
  <1>2. LockInv /\ [Next]_vars => LockInv'
    BY NextLockInv
  <1>3. LockInv => MutualExclusion
    BY DEF LockInv
  <1> QED  BY <1>1, <1>2, <1>3, PTL DEF Spec

\* Under the same conditions num_read, num_write and the F_OSPRD_LOCKED flags
\* always say exactly which locks are held.
THEOREM CountersAreExact ==
    ASSUME Smp = FALSE, OneReaderReleases
    PROVE  Spec => []CountsMatch
  <1>1. Init => LockInv
    BY InitLockInv
  <1>2. LockInv /\ [Next]_vars => LockInv'
    BY NextLockInv
  <1>3. LockInv => CountsMatch
    BY DEF LockInv
  <1> QED  BY <1>1, <1>2, <1>3, PTL DEF Spec

=============================================================================
