# A TLA+ model of the CS111 operating-system programs

The repository holds four separate systems: a miniature operating system
(`weensyos1`, MiniprocOS), a Linux driver for an encrypted ramdisk with a
reader/writer lock (`Lab2-Encrypted-Ramdisk`), a Linux file-system module
(`Lab3-File-System`, OSPFS) and a profiling shell (`Lab1-Profiling-Shell`).
They share no code, so they are modelled by separate modules. This directory
holds the modules, the TLC models of them, and proofs that TLAPS checks.

## Inventory

### MiniprocOS kernel (`weensyos1/mpos-kern.c`)

* State: `proc_array` (for every slot the state, the saved registers, the exit
  status and `p_wait`, the pid to wake at its exit), `current`, and the stacks.
* Operations: the system calls `getpid`, `fork`, `newthread`, `yield`, `exit`,
  `kill`, `wait`, undefined interrupts, and `schedule`/`run`.
* Interaction: `exit` and `wait` meet through `p_wait`; `fork` and `newthread`
  copy or build stacks; `kill` changes another process's slot behind its back.
* Hard: processes interleave at every system call; a slot is reused; a pid
  stored in `p_wait` may be stale; the scheduler spins if nothing is runnable.
* Correct means: only runnable processes run, stacks stay separate, the dead
  stay dead, no wake-up is missed, the machine stops only when all are dead.

### MiniprocOS applications (`mpos-app.c`, `mpos-app2.c`)

Programs over the kernel: one forks a child that yields twenty times, and waits
for it; the other starts 1025 processes on 15 slots, whose odd ones are killed
by the others, and reaps them round by round. Correct means they run to
completion with the table at its limit, and a child leaves its parent's stack
alone.

### Ramdisk lock (`Lab2-Encrypted-Ramdisk/osprd.c`)

* State of a device: `ticket_head`, `ticket_tail`, `num_read`, `num_write`,
  `write_pid`, `killed_list`, `pid_list`; of an open file: `F_OSPRD_LOCKED`.
* Operations: `OSPRDIOCACQUIRE`, `OSPRDIOCTRYACQUIRE`, `OSPRDIOCRELEASE`, open
  and last close.
* Interaction: processes meet in `d->mutex` and the wait queue `d->blockq`.
* Hard: conditions read without the mutex, signals that end a wait, tickets of
  interrupted requests, deadlock detection, release by close.
* Correct means: writers exclude, counters are exact, requests are served in
  order and all of them are.

### Ramdisk encryption and authorisation (`osprd.c`)

State: `passwd`, `key`, `written_sectors`, `auth_list`. Operations: `SETPASS`,
`AUTHORIZE`, `DEAUTHORIZE`, `PASSEXISTS`, read, write, `new_key`. Hard: every
read re-encrypts all written sectors under a new key, without a lock and with
sleeping reads and writes in between; which sectors count as written depends on
alignment and on zeros; a client can die authorised. Correct means that nothing
written is lost, that an authorised read returns it, and that authorisation ends
with the client; the code does not keep all of it ("Runs" says where it fails).
`osprdaccess.c` is the client: it authorises, reads, writes, zeroes or sets the
password, and deauthorises.

### OSPFS (`Lab3-File-System/ospfsmod.c`)

* State: the free-block bitmap, the blocks, the inodes with their direct,
  indirect and doubly indirect pointers, directories.
* Operations: `allocate_block`, `free_block`, `add_block`, `remove_block`,
  `change_size`, `ospfs_write`, `ospfs_read`, truncation, and the directory
  operations (lookup, readdir, create, link, unlink, symlink).
* Hard: a growth of several allocations that fails between two of them; the
  boundaries of the three pointer levels; a write that sleeps in
  `copy_from_user`; reuse of blocks.
* Correct means: no block is shared, lost or freed while in use, files hold
  only their own data, a failed call leaves things as they were; a name means
  its file until it is unlinked, and link counts are exact.

### Shell (`Lab1-Profiling-Shell`)

The parser (`read-command.c`) builds command trees, the executor
(`execute-command.c`) runs them with fork, pipe, dup2 and waitpid, and logs
each finished process to the profile. State: the script, the counters of the scan and the command trees; the
processes with their descriptor tables and calls of `execute_command`, and the
pipes. Hard: nested compounds that share counters; pipelines whose left side is
waited for before the right one runs; descriptors left open or redirected;
statuses that pass through waits, subshells, `exec` and loops; calls that fail in
a child or in the shell; a profile that several processes write. Correct means: a script is parsed into the tree it was
written for or refused; every program runs with the streams its place in the tree
gives it; nothing is leaked; the status is the one `sh` computes; the profile has
one line per process that was waited for, in that order.

### OSPFS image writer (`Lab3-File-System/ospfsformat.c`)

State: a write-back cache of 16 blocks with use counts, the next free block and
inode, the table of hard links, the recursion over the host's directories.
Operations: `getblk`/`putblk`, `storeblk`, `allocinode`, `allocdirentry`,
`writefile`, `writesymlink`, `writedirectory`, `addsymlink`, `finishfs`,
`flushdisk`. Hard: the program keeps pointers into cached blocks over calls that
evict; blocks, inodes and cache slots run out; hard links by inode or by
contents; files that cannot be read. Correct means that the kernel finds in the
image exactly what was on the host, with every block either in one place or free.

Boot code, segment setup, ELF loading, `lib.c`, MD5, `fsimgtoc`, `truncate` and
the scripts hold no protocol state and stay out (`PROJECT.json` lists them).

## Plan

1. Done: `MposKernel`, `MposApps`, `OsprdLock`, `OsprdCrypt`, `OspfsBlocks`,
   `OspfsDir`, `ShellTree`, `ShellRead`, `ShellExec`, `Shell` and their runs; the abstract
   specifications `OspfsNames`, `OspfsFiles` and `RwLock` and the refinements to
   them; `OspfsFormat`, whose image is read by `OspfsBlocks`; the profile of the
   shell.
2. Done: theorems for every safety property that the runs of `MposKernel`,
   `OsprdLock`, `OsprdCrypt`, `OspfsBlocks` and `OspfsDir` check, for the three
   refinements, and for what the executor of the shell does with descriptors and
   pipes (see "Proofs").
3. Open: theorems about the cache of `OspfsFormat` (a pointer into a block stays
   valid while it is used) and, from it, `AbortJustified`; doubly indirect blocks
   in `OspfsBlocksProofs` on a disk with room for them.
4. Possible later: an abstract store whose authorised reads return the last
   write, for `OsprdCrypt`; open files without a name in `OspfsDir`.

## Modules

| module | models |
|---|---|
| `MposKernel` | `mpos-kern.c`: one action per system call (with the scheduling that ends it) |
| `MposApps` | `mpos-app.c` and `mpos-app2.c`, one action per stretch between two system calls, composed with the kernel's actions |
| `MposKernelProofs` | theorems about `MposKernel` |
| `OsprdLock` | the lock of one ramdisk: one action per section under `d->mutex`, one per read without it |
| `RwLock` | what the lock promises: many readers or one writer, and a queue. Implemented by `OsprdLock` |
| `OsprdLockProofs` | theorems about `OsprdLock`: exclusion and counters |
| `OsprdQueueProofs` | theorems about `OsprdLock`: tickets, the refinement of `RwLock`, deadlocks |
| `OsprdCrypt` | encryption and passwords of one ramdisk and the client `osprdaccess`: one action per part of a system call between two places where it can sleep |
| `OsprdCryptProofs` | theorems about `OsprdCrypt` |
| `OspfsBlocks` | `ospfsmod.c`: bitmap, pointers, `change_size`, read, write and truncate; one action per iteration of a loop |
| `OspfsFiles` | what the blocks promise: files that are sequences of words. Implemented by `OspfsBlocks` |
| `OspfsBlocksProofs` | theorems about `OspfsBlocks`, the refinement of `OspfsFiles` among them |
| `OspfsFormat` | `ospfsformat.c`: one action per entry of the tree and per block of a file, over operators for the cache; its image is read through an instance of `OspfsBlocks` |
| `OspfsNames` | what a directory promises: names for files |
| `OspfsDir` | `ospfsmod.c`: one directory and its inodes; one action per call. Implements `OspfsNames` |
| `OspfsDirProofs` | theorems about `OspfsDir`, the refinement of `OspfsNames` among them |
| `WellOrder` | induction over the naturals, for the proofs |
| `ShellTree` | `read-command.c`: the functions that turn a range of the script into a command tree, as operators |
| `ShellRead` | `read-command.c`: `split_everything`, one action per case of its switch |
| `ShellStream` | the command stream between the parser and the executor |
| `ShellExec` | `execute-command.c` and `main.c`: one action per stretch between two calls of `execute_command`, `fork` or `waitpid` |
| `ShellExecProofs` | theorems about `ShellExec` |
| `Shell` | `ShellRead` and `ShellExec` composed, and what `sh` would make of the script |
| `MC...` | instances for TLC |

Variables and definitions keep the names of the code. The names `Bad...` are
seeded faults: mutated forms of the definition that follows them, used to see
that each property notices a plausible mistake in the code (`PROJECT.json`,
"mutants"). No specification uses them. Histories, which the code does not
have: `holds` in `OsprdLock` (the files whose locks were granted and not given
back), `start`, `orig` and `buffer` in the jobs of `OspfsBlocks` (where a call
began, the size it found, the words it read), `plain` and `stale` in
`OsprdCrypt` (the bytes that the driver keeps; the pids left by clients that died), `seen` and
`twice` in the scans of `OspfsDir`, `entry`, `trace` and `lost` in `ShellExec` (the
descriptors a call was entered with; how every program ended; that a line of the
profile was lost).

### MposKernel

`p_state`, `p_registers`, `p_wait`, ... are functions on pids. Stacks are
arrays of words, so that `copy_stack` and the stacks of new threads can be
checked; which words are on a stack, and how deep it is at a system call, is a
choice of the process (`Depths`, `Words`). `Calls` says which system calls the
processes make and `Waiters` which of them call `sys_wait`. `schedule` picks
the next runnable slot after the current one; where the code would loop for
ever, the processor spins (`Spin`); after an undefined interrupt it halts.

### OsprdLock

A process is in user space, in `wait_event_interruptible` before or after a
part of its condition was evaluated, past it, interrupted, or between the test
and the locked section of `TRYACQUIRE`. `Smp` says whether other processes may
run in between (SMP or preemption) or not (the build for which `spinlock.h`
defines `osp_spinlock_t` away). `Ops` says what processes do besides closing
their files. The linked lists are sequences; the operators `InsertKilled`,
`Drained`, `AppendPid` and `RemovePid` do what the pointer code does, its loss
of nodes included. A process does not acquire through a file that holds a lock.

Refinement mapping to `RwLock`: `holds` is itself, the queue is the files of the
processes that wait, ordered by their tickets. A grant after waiting must be a
step that serves the head of the queue, an interruption one that takes a request
out of it; counters, `killed_list`, wake-ups and the evaluations of the condition
are stutters. `RwLock` is a specification of ACQUIRE and of safety only: it does not
say that the head of the queue is served, and TRYACQUIRE does not implement it,
since it takes a free lock whoever waits, against `osprd.c:461`.

### OspfsBlocks

A block is `NINDIRECT` words; sizes count words. Data and pointers are in the
same blocks, so a stale block or a stray write can damage pointers. `SCAN` is
the 1024 of `allocate_block` and of `free_block`, which does not return for numbers
from there on (`ospfsmod.c:666-670`): `remove_block` is then not taken, and the
processor stays in `FreeLoops`. `add_block` and `remove_block` are one disjunct
per path, failing paths included, with the erasing of blocks that are freed
again. The kernel has one processor and no preemption, so calls interleave
only where `copy_from_user` or `copy_to_user` sleeps (`"sleep" \in Faults`). File f
is filled with the word `Stamp[f]`. A read computes where it ends as the code does,
in unsigned numbers (`% COUNTS`), so one that starts behind the end of the file has
a huge count. The initial file system is empty; `ospfsformat` puts
the files it is given at the start of the data area, below block 1024 for the
`base` directory of the repository. Symbolic links have no blocks and are
not in `Files`.

Refinement mapping to `OspfsFiles`: a file is the words that its pointers lead to,
`oi_size` of them. A step may extend one file, cut it off or overwrite a part of
it; what a file gains by growing is zero, or its own from before it was cut off
inside a block (`change_size` does not clear the rest of the last block).

### OspfsFormat

A tree is the sequence of entries in the order in which `writedirectory` meets
them, with their depth. The cache is modelled slot by slot with `busy` and `used`;
a pointer into a block is a slot, so a block that is evicted too early makes the
program write into another one. `abort()` is a state, with its reason. A block is
seen as each member of its union; the digest of a file is its contents. The host
is little-endian, so `swizzle` changes nothing. `FS` is `OspfsBlocks` with the
image for its state: `SpaceExact` is the kernel's `BlocksExact`, and `ImageRight`
reads files with the kernel's `ospfs_inode_blockno`.

### OsprdCrypt

A sector is `KEY_LENGTH` bytes and a byte is a bit, so that exclusive or is what
it is in the code and every key is tried. Positions are bytes of the disk; a
buffer is lined up with the positions it is for. `Flags` is the loop that marks
sectors as written, its shift after a misaligned run of zeros included. The client
follows `main()`: `PASSEXISTS`, `AUTHORIZE`, then the transfer in pieces of
`BUFSIZ` or `SETPASS`, then `DEAUTHORIZE`; a signal can end it at every point outside
the driver (`Dies`), at its prompts too. `-z` writes one
buffer again and again although the driver has overwritten it with ciphertext.
Without `Sleeps` one process at most is in the driver.

### OspfsDir

The kernel holds the directory's mutex around every call, so a call is one
action, including the growth of the directory by a block and the `change_size(oi,
0)` of `unlink`. The blocks, modelled by `OspfsBlocks`, are only counted. A listing
is several calls with buffers of any size. Refinement mapping: a name is mapped to
the inode its entry holds, a file to its type and size, or its destination.

### ShellTree, ShellRead, ShellExec and Shell

The script is a sequence of tokens: a word, an operator, a space, a tab or a
newline is one token, so the code's character offsets become steps over tokens.
The parser is modelled as it is, its errors included: the operators were
compared with the compiled parser on random scripts, and differ only where the
code reads outside its arrays or uses unset fields. `execute_command` always waits
for the child it forks, so the processes form a stack of which the last one runs;
a process is its descriptor table and its stack of calls. The kernel's descriptors
and pipes are modelled (lowest free descriptor; a pipe takes `PipeCap` pieces), and
so are programs: they write some pieces and exit with 0 or 1. A line of the profile
is the command it is about and whether it shows words or a process number; every
process has its own copy of `profiling`, which a failed write sets to -1.

`ShellExec` does not know the parser: its `ExecSpec` lets `commands` be anything
until `phase` is `"run"` and then keeps it. `Shell` adds the parser's steps, which
are only taken before that and leave the executor's variables alone, so each of its
behaviours is one of `ExecSpec`. A descriptor table has `MaxFd + 1` entries, and
`set_redirect` and `pipe` are only called while the last four of them are free
(`Room`): running out of descriptors is not modelled. In `shell` that is never the
case, as 17 descriptors are more than its scripts can use.

## Runs

Bounds are small so that the limits are met: a process table that fills, a
disk that fills, more requests than can be served.

| run | checks | bounds and why they are enough |
|---|---|---|
| `mpos_kernel` | `CurrentRunnable`, `NoMissedWakeup`, `SpinOnlyWhenAllDead`, `StacksApart`, `WokenByExit` | 3 processes, every call, undefined interrupts too; only process 1 waits, as in both applications; the table fills; a stack word with contents, empty or in use at every call |
| `mpos_apps` | `WaiterBlocked`, `ZombieStaysDead`, `ApplicationsComplete` | the real sizes: 16 slots, 1025 processes, 20 yields |
| `osprd_lock` | `MutualExclusion`, `CountsMatch`, `TicketsAhead` | two writers, two readers (interchangeable: symmetry), five tickets: a killed ticket before, at and after the tail |
| `osprd_served` | `DeadlockDetected`, `LockImplemented`, `EveryoneServed` | four writers, one also with a file for reading, explicit releases, as many tickets as processes: three requests queue behind a holder; no signals, which `LockImplemented` meets in its theorem |
| `osprd_crypt` | `Recoverable`, `ReadsSensible`, `AuthCurrent` | two clients, two sectors of two bytes, every key; a span that starts inside a sector and takes two calls, zeroing that ends inside one; an empty, a right and a too long password |
| `ospfs_blocks` | `BlocksExact`, `FreeReturns`, `WriteComplete`, `FilesImplemented` | two files, five data blocks that can be allocated, one direct and two indirect pointers: every growth can fail at every allocation; failing buffers; reads and writes inside a block |
| `ospfs_indirect2` | `BlocksExact`, `EioOnlyOutside`, `ReadExact` | one file of up to ten blocks with three pointers per block: several entries of the doubly indirect block appear and vanish; reads from inside a direct, an indirect and a doubly indirect block, to before, at and after the end of the file |
| `ospfs_full` | `CallsReturn` | one file up to the doubly indirect block on a full disk, two processes, sleeping reads and writes; the data written is `SCAN`, so a word of it that is taken for a pointer is one that `free_block` does not return for: reached through the `oi_indirect2` of a failed growth, and by a write that slept during a truncation |
| `ospfs_format` | `ImageRight`, `SpaceExact`, `AbortJustified` | every tree of up to three entries two directories deep, from files of five kinds, links and directories, with and without `-r`, `-c` and `-l`; directories of up to 13 files, chains of four directories, unreadable, skipped and too large files; 8 cache slots, 23 blocks and 13 inodes, so that each of them runs out |
| `ospfs_dir` | `LinkCountExact`, `BlocksConserved`, `ReaddirOnce`, `NamesImplemented` | three names, two inodes, three blocks, two entries per block: inodes, entries and blocks all run out; buffers for one entry and for all |
| `shell` | `ParsesRight`, `StdStreams`, `PipeEndsHeld`, `StatusRight`, `ProfileRight`, `FdsRestored` | every command type in every command type (depth 2), redirections, separators with spaces and newlines, comments, two commands; malformed scripts after those of `test-t-bad.sh`; up to five programs per script, failing calls, with and without a profile, of which one write may fail |

The shell ends, and a pipeline whose left side fills the pipe stops it for ever, so
`shell` does not check for deadlock. `ospfsformat` ends too; `AbortJustified`
says what may stop it early. One run shows a disagreement between
the code and its comments; `PROJECT.json` quotes the line under "findings":
`ospfs_enospc` violates `FailedGrowUndone`, because the rollback of a failed growth
removes a block too many.

The passing runs are set up around this and around other limits of the code
that the models show when the constants are widened:

* two processes that wait for one pid: the second overwrites `p_wait`, and the
  first is never woken (hence one waiter in `mpos_kernel`);
* a kill of a blocked process: it becomes runnable again when the process it
  waited for exits (hence no `sys_kill` in the theorem `TheDeadStayDead`; the
  applications only kill processes that wait for nobody);
* a `sys_wait` that blocked returns its own argument, not the exit status that
  `mpos-app.h:171` promises: nothing stores a status into the waiter's `%eax`
  (`WokenByExit` says what does hold: the waiter is woken when the process it
  waits for has exited, and the zombie and its status are still there);
* SMP or preemption (`Smp = TRUE`): the condition of ACQUIRE and the test of
  TRYACQUIRE are stale when the mutex is taken;
* a reader that releases while another one reads keeps `F_OSPRD_LOCKED`, because
  the flag is cleared only when `num_read` becomes 0; its close then releases the
  other reader's lock and lets a writer in (hence no explicit release by readers
  that share the lock);
* an interrupted request whose turn it is increments `ticket_tail` without looking
  at `killed_list` (`osprd.c:274-277`), and in that list, which is not kept sorted, a
  node that is passed over takes those before it along: the tail can stop at a
  ticket that was given up, and the next request waits for ever, the bubble that
  tests 16 and 17 of `lab2-tester.pl` look for after one interruption (hence no
  signals in `osprd_served`; `TicketsAhead` only says that nobody is passed over,
  and no bound is put in `RwLock` on when a request joins the queue);
* with `Sleeps = TRUE` a write between two steps of `new_key` is encrypted with the
  key that is about to be replaced, and is lost;
* zeros in a sector that is not marked read as the exclusive or of two keys once the
  key has changed, and from the second `BUFSIZ` bytes on `-z` writes ciphertext,
  although `osprdaccess.c:21` says that it "writes zeros" (hence `plain` counts only
  the bytes that the driver keeps, and `Recoverable`, `ReadsSensible` and their
  theorems claim nothing of the others);
* the pid of a client that is killed between AUTHORIZE and DEAUTHORIZE stays in
  `auth_list`, and the next process with that pid reads decrypted data with a wrong
  password, against `osprdaccess.c:19` and `README.txt:9` of the lab (hence `stale` in
  `AuthCurrent`, which does not say that this is harmless);
* a misaligned write that starts with zeros marks the wrong sectors; a transfer that
  is misaligned and shorter than the rest of its sector overruns the buffer;
  AUTHORIZE without memory counts as accepted;
* a listing of several calls leaves entries out, since a call that continues starts
  at entry `f_pos` instead of `f_pos - 2`;
* create and symlink without a free inode answer 0;
* `a | b; c | d` is parsed as `a | b c; c | d`: the end of a pipeline's last part is
  the next pipe of the whole list; a script that ends in a blank line runs its last
  command twice; a comment line inside a command becomes part of it; a tab does not
  separate words; a compound next to a pipe or behind `(` is refused, and so is a
  newline after a pipe, as the README of the lab says; scripts with two `else`, or
  an empty `then`, are accepted;
* a process with two files for reading can queue behind a writer that waits for it;
* TRYACQUIRE succeeds while others wait, where ACQUIRE would block, although
  `osprd.c:461` says that it returns -EBUSY then (hence `LockImplemented` is checked
  in `osprd_served` only, and proved without TRYACQUIRE);
* a growth that gets a doubly indirect block but no indirect block leaves
  `oi_indirect2` pointing to a free block (hence no such growth in
  `ospfs_blocks`, and room on the disk in `ospfs_indirect2`);
* a write that sleeps while its file is truncated lands in the block's next file
  (hence one process in `ospfs_blocks`);
* after either, user data can be where pointers are looked for, and `free_block` does
  not return for a number above 1023 (`CallsReturn` in `ospfs_full` says that nothing
  else keeps a call from returning; `FreeReturns` is checked, and `FreeingReturns`
  proved, where pointers are exact);
* a reader that appends behind its own pid cuts off the rest of `pid_list`, so the
  deadlock test no longer finds the readers after it;
* a doubly indirect block with all its entries in use is searched beyond its
  end; on the disk of the Makefile, of which 1024 blocks are used, no file has
  the 65 thousand blocks that takes, and for the same reason no file reaches
  `OSPFS_MAXFILEBLKS`;
* a read that starts behind the end of the file answers -EIO, not 0; a file that was
  cut off inside a block and grows again shows its old words there;
* `ospfsformat` refuses a tree that needs exactly the blocks there are, because it
  takes a block before it sees the end of a file; a directory nested deeper than
  the cache has slots for (five levels are always possible with 16 slots); and with
  `-c` a file that cannot be read leaves its directory's block in use. A name that
  is too long makes it follow a null pointer (all allowed by `AbortJustified`);
* a write to the profile that fails in a child is not seen by the shell: its lines
  are missing and the status stays 0.

### Fairness

* `MposApps`: weak fairness of the next step. There is one processor, and it
  always executes the next instruction of the process it runs.
* `OsprdLock`: weak fairness of every step inside the kernel (a process that
  is ready is scheduled), and of closing a file that holds a lock, since
  `osprdaccess` always ends. None for signals or new requests.
* `OspfsBlocks`: weak fairness of the step of a process in the driver, and
  strong fairness of the wake-ups from `copy_from_user` and `copy_to_user`, since
  the page read ends and the scheduler passes over no ready process.

## Proofs

Every theorem is about `Spec`, the specification the runs check, and states a
property that a run checks on a small instance; those about the shell are about
`ExecSpec`, which allows more than the `Spec` of `Shell` (any command stream, not
only one that the parser made).

| theorem | property | for every | assuming |
|---|---|---|---|
| `KernelWellFormed` | `TypeOK`, `CurrentRunnable`, `WaitersOnLive` | table size, stacks, calls | - |
| `WaitersAreBlocked`, `TheDeadStayDead` | `WaiterBlocked`, `ZombieStaysDead` | the same | no `sys_kill` |
| `WakeupNeverMissed`, `NoDeadlock` | `NoMissedWakeup`, `SpinOnlyWhenAllDead` | the same | only process 1 waits |
| `WokenByTheExit`, `StacksStayApart` | `WokenByExit`, `StacksApart` | the same | only process 1 waits, or no `sys_kill` |
| `WriterIsAlone`, `CountersAreExact` | `MutualExclusion`, `CountsMatch` | processes, files, signals, tickets | no SMP, `OneReaderReleases` |
| `NobodyIsPassedOver` | `TicketsAhead` | the same | no SMP |
| `LockIsAQueue` | `LockImplemented` | the same | no SMP, `OneReaderReleases`, no TRYACQUIRE |
| `DeadlocksAreDetected` | `DeadlockDetected` | the same | no SMP, `OneReaderReleases`, no TRYACQUIRE, one file for reading per process |
| `OnlyTheAcceptedAreAuthorised` | `AuthCurrent` | clients, passwords, spans, interleavings | - |
| `WrittenBytesSurvive`, `AuthorisedReadsGiveKeptBytes` | `Recoverable`, `ReadsSensible` | disk, key length, spans, keys, clients | `Sleeps = FALSE` |
| `BlocksHaveOnePlace`, `FreeingReturns` | `BlocksExact`, `FreeReturns` | files, processes, disk, block size, sizes, positions, failing buffers | `SmallFiles`, `NoSleep` |
| `EioMeansOutside`, `WritesAreComplete`, `ReadsAreExact` | `EioOnlyOutside`, `WriteComplete`, `ReadExact` | the same | the same |
| `BlocksImplementFiles` | `FilesImplemented` | the same | the same |
| `LinkCountsAreExact`, `ListedOnce` | `LinkCountExact`, `ReaddirOnce` | names, inodes, entries, blocks, listing processes | - |
| `BlocksAreConserved`, `DirectoryNamesFiles` | `BlocksConserved`, `NamesImplemented` | the same | - |
| `ExecStdStreams`, `ExecPipeEndsHeld` | `StdStreams`, `PipeEndsHeld` | command streams of any depth, programs, pipe capacities, failing calls, sizes of the descriptor table | - |
| `ExecFdsRestored` | `FdsRestored` | the same | - |

The assumptions are mostly where the code stops being right, in the ways listed
under "Runs": a kill of a blocked process, a release by one of two readers, a stale
test under SMP, a second file for reading, a write into a sector that is being
re-keyed, a sleeping write to a truncated file, a doubly indirect block on a full
disk. `OneReaderReleases` is that one release: where
locks are released explicitly, not only by closing, at most one file is open for
reading, so the instances of both `osprd_lock` and `osprd_served` satisfy it. Some
exclude more than that: `SmallFiles` also leaves out doubly indirect blocks on a
disk with room for them, and "no SMP" properties that may hold with it. The assumptions on
constants in the modules themselves are what the code is built with
(`SCAN + 1 < NBlocks` is 1025 < 4096; `MaxFd >= 4` leaves a descriptor for the
profile besides the standard streams and the script).

`MposKernelProofs`: `KernelInv` is the conjunction of `TypeOK`,
`CurrentRunnable` and `WaitersOnLive`. The three need each other: `exit` wakes
`p_wait[current]`, which is a pid only by `TypeOK`, and the state of the slot
that `schedule` enters is known only by `CurrentRunnable`. `WaiterBlocked` is
inductive on top of it when nobody kills: the only step that could unblock a
recorded waiter is the exit that clears its record. `OneWaiterInv` adds to
`NoMissedWakeup` that only process 1 is ever blocked, which makes it the only
pid a record can name, so no second waiter can overwrite it. `NoDeadlock`
follows: when `schedule` finds nobody runnable, a blocked process 1 would be
recorded by a live process, which is neither runnable nor blocked. The two action
properties need `WaiterAsked`: a recorded waiter has the pid it asked for in
`%eax` and is blocked or already dead.

`OsprdLockProofs`: `LockInv` strengthens `MutualExclusion` and `CountsMatch` by
`OneInKernel` (without SMP one process at most is between a test and the
section that relies on it), `StillFree` (what it found free is still free) and
`Requests` (the file of a request in progress is open and holds no lock).
`CountsMatch` is needed for `MutualExclusion`, because the code tests the
counters and the property speaks of the holders.

`OsprdQueueProofs`: `TicketInv` says that a queued ticket is ahead of the tail,
not in `killed_list` and nobody else's (`OwnTicket`), that who has passed its test
is still at the tail (`Turn`) and that killed tickets were given out
(`KilledGivenOut`). That `Drained`, the loop over `killed_list`, stops before a
ticket that is not in the list is proved by induction over the list. `QueueInv`
joins this with `LockInv`; under it a grant after waiting is the abstract lock's
service of the head of its queue. That the queue moves on is not proved: after
two interruptions it may not. `HolderInv` says that `write_pid` and `pid_list` are exactly the
holders and that who waits holds nothing. It is not inductive with a second file
for reading, whose owner waits behind a writer while it holds the first.

`OsprdCryptProofs`: `ShapeInv` gives a call's locals their types and says which
kind of client is where. `AuthInv` adds that no client is past AUTHORIZE without
an accepted password; a client that dies, wherever it is, moves its pid to `stale`. `ByteInv` follows every byte through a call: outside
`new_key` it decrypts with `key` (`Kept`), in a write it is in the buffer
(`MidWrite`), in `new_key` the sectors already passed have the new key and the
others the old one (`MidRekey`), and a sector is loaded as it is on the disk
(`Loaded`). It needs `Alone`, one call at a time, which is what `Sleeps = FALSE`
gives.

`OspfsBlocksProofs`: `FilesInv` speaks of the pointers of a file, to its data
blocks and, as number -1, to its indirect block: each is to an allocated block in
front of `SCAN` (`PointersIn`), no two to the same (`PointersApart`), every
allocated block has one (`PointersAll`), and there is an indirect block exactly
if the file needs one. A block being in two places would let an erased or written
block change another file, so nothing about words can be said without it.
`WordsOwn` says that the blocks of a file hold its own words or zeros, behind its
end too: this is what a file shows when it grows again. `CallInv` says where a call
is: how many blocks `change_size` has added or removed so far (`Resizing`), that
undoing removes no more than it may (`Undoing`), which words of the span are
written or in the user's buffer (`Copying`, `Reading`), and what the answer means
(`Ending`). `SizesFit` keeps sizes below `COUNTS` outside `change_size`, without
which the end of a read could wrap to a place inside the file. `NeverInLoop`, of the
endless loop of `free_block`, follows from `PointersIn`: `remove_block` frees only
blocks that are pointed to. Each step of
`DriverInv`'s proof also shows `FileStep`: one file is regrown or has a span
written, in terms of its words; the refinement of `OspfsFiles` is that statement
about sequences.

`OspfsDirProofs`: `EntryInv` says that live entries are inside the directory and
have names, no name twice, and that `oi_nlink` is the cardinality of the entries
of an inode; the lemmas about adding and removing an entry carry it through create,
link and unlink. `ScanInv` says that what a listing has reported lies in front of
its position. `BlockInv` counts blocks as pairs of an inode and an index, so that
the sum over the files is a cardinality.

`ShellExecProofs`: `Inv` speaks of a command stream and a stack of processes, so
that a step of the running process is a change from one stack to another; `IInv`
says it of the variables. None of the three properties is inductive, since what a
call does when it returns was decided when it was made, by a process that may have
forked since. `FrameInv` follows every call of every process, with the descriptors
below it (`Under`: the process's own, or those the next call was made with): were it
to return now, `PipeRestored` or `reset_redirect` would give back the descriptors
it was called with (`Leaving`), and each of its standard streams is the pipe's end
or what the tree gives it (`Stream`), except that a redirection is not made before
`set_redirect`. `RestoredOnce` and `RestoredUnder` are what this rests on: undoing
a redirection restores the table it was made in, also when the other stream is
redirected on top, because `Lowest` only finds descriptors that are free. Of the
stack, `WriterWaitedFor` says that who holds the write end of a pipe is above a
process whose innermost call is for that pipe, `Nested` that paths grow along the
calls of a process and that a child does not go up in the tree, and `Child` that a
child begins with a call that never returns and that the parent of a pipe's left
command waits in that pipe. All but the last process wait (`Waits`). Then a holder
of the write end, while a call is at the right command, would need a process that
waits in the same pipe: the lengths of the paths leave no place for it in the stack,
below, at or above the call. `OnTerminal` gives the commands of the stream their
streams. `StaysInv`, `PushesInv`, `PopsInv`, `ChildInv` and `ExitsInv` are the ways in which a
stack changes; each action is one of them. What the commands are is used only
through `CommandAt`, level by level, so that nothing depends on how deep a tree is.

`WellOrder` states induction for sets of numbers (a set with 0 and every
successor has all naturals) and the least number of a set: the library's induction
theorems take a predicate, which the provers cannot instantiate, but a set they
can. The searches that end at the first hit (`allocate_block`, the scan for a free
entry, the loop over `killed_list`) rest on it.

Only model-checked: liveness (`EveryoneServed`, `ApplicationsComplete`,
`CallsReturn`), since the proof system does not reach fairness; doubly indirect
blocks (`ospfs_indirect2`); the applications, which are two fixed programs of known
size; `OspfsFormat` (`ImageRight`, `SpaceExact`, `AbortJustified`); and of the shell `ParsesRight`, `StatusRight` and `ProfileRight`, which
compare with RECURSIVE operators over command trees.
Nothing is proved for `Smp = TRUE` or of sleeping calls, except for `AuthCurrent`.

## Not modelled

* MiniprocOS: console output, the keyboard-driven restart, and everything
  before `start()` (boot loader, `mkbootdisk`, ELF loading); `lib.c` and `x86.h`,
  which are string functions and single instructions; registers other than
  `%eip`, `%esp` and `%eax`.
* The ramdisk: the request queue, failing sector transfers and failing `kmalloc`
  in the lock; the wrap of the tickets at 2^32; `dup`ed and inherited files; the
  client's delays and terminal settings.
* OSPFS: modes, subdirectories (the kernel module cannot make any), following
  links (`ospfs_follow_link` computes a string and changes nothing), open files
  without a name, crashes (the disk is memory); disks with more than one bitmap
  block in the kernel; SMP.
* `ospfsformat`: options and usage errors, modes, failing `open`, a big-endian
  host, link texts of `-l` that do not fit an inode, host inode numbers beyond 32
  bits, MD5 (a digest is the contents). `fsimgtoc` and `truncate` have no state.
* The shell: characters (words are tokens; `remove_whitespace`, which does not
  terminate its strings, stands for the bytes it copies), the times in the profile
  and lines of more than 1024 characters, children killed by a signal (whose status
  is taken as 0), reads from pipes; printing a tree.
