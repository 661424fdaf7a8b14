---------------------------- MODULE OspfsBlocks ----------------------------
(***************************************************************************)
(* The blocks of OSPFS (Lab3-File-System/ospfsmod.c): the free-block       *)
(* bitmap, the block pointers of regular files, change_size with its       *)
(* add_block and remove_block, the writes and truncations that call it,    *)
(* and the reads.                                                          *)
(*                                                                         *)
(* A block is NINDIRECT words, and sizes and positions count words, so     *)
(* OSPFS_BLKSIZE is NINDIRECT too.  The kernel has one processor and no    *)
(* preemption: a process in the driver runs until it returns, except that  *)
(* copy_from_user and copy_to_user sleep when the user's page is not       *)
(* resident.  One iteration of a loop of change_size, ospfs_write or       *)
(* ospfs_read is one action.                                               *)
(***************************************************************************)
EXTENDS Integers, Sequences

CONSTANTS
    Files,      \* the inodes of regular files
    Procs,      \* the processes
    Stamp,      \* Stamp[f]: the word that is written into file f
    NBlocks,    \* os_nblocks
    FirstData,  \* the first block after the inodes
    SCAN,       \* the bits of a bitmap block that allocate_block looks at (1024)
    NDIRECT,    \* OSPFS_NDIRECT
    NINDIRECT,  \* OSPFS_NINDIRECT
    COUNTS,     \* the number of values of a size_t (2^32)
    Sizes,      \* the sizes processes ask for: where truncations, writes and reads end
    Seeks,      \* the positions they write at, other than the end of the file
    ReadSeeks,  \* the positions they read at
    Faults      \* what copying to or from the user may do besides copying

\* SCAN + 1 < NBlocks holds for the file system that the Makefile builds (1024
\* and 4096): the blocks that are handed out are not the last of the disk.
ASSUME BlocksAssumption ==
    /\ Stamp \in [Files -> Nat \ {0}]
    /\ NBlocks \in Nat /\ SCAN \in Nat /\ FirstData \in Nat
    /\ 0 < FirstData /\ FirstData < SCAN /\ SCAN + 1 < NBlocks
    /\ NDIRECT \in Nat \ {0} /\ NINDIRECT \in Nat \ {0}
    /\ Sizes \subseteq Nat /\ Seeks \subseteq Nat /\ ReadSeeks \subseteq Nat
    /\ COUNTS \in Nat \ {0} /\ \A n \in Sizes \cup Seeks \cup ReadSeeks : n < COUNTS
    /\ Faults \subseteq {"sleep", "efault"}

VARIABLES
    freemap,       \* the blocks whose bit in the free-block bitmap is 1
    disk,          \* disk[b][i]: word i of block b
    oi_size, oi_direct, oi_indirect, oi_indirect2,  \* the inodes, by file
    pc,            \* where each process is
    job            \* its local variables in the system call

inodes == <<oi_size, oi_direct, oi_indirect, oi_indirect2>>
vars == <<freemap, disk, inodes, pc, job>>

Blocks == 0 .. NBlocks - 1
DataBlocks == FirstData .. NBlocks - 1
WordIndex == 0 .. NINDIRECT - 1
ZeroBlock == [i \in WordIndex |-> 0]
MAXFILEBLKS == NDIRECT + NINDIRECT + NINDIRECT * NINDIRECT

ospfs_size2nblocks(size) == (size + NINDIRECT - 1) \div NINDIRECT
Nblocks(f) == ospfs_size2nblocks(oi_size[f])

\* pc: outside the driver ("user"); in the loops of change_size ("resize"); in
\* the loop that undoes a failed growth ("undo"); in the loop of ospfs_write
\* ("copy"), and asleep in its copy_from_user ("asleep"); in the loop of
\* ospfs_read ("read"), and asleep in its copy_to_user ("dozing"); about to
\* return ("done").

\* The locals of a system call: the call and its file, the size asked for,
\* old_size_blocks, block_count, r, the span still to be copied (empty for a
\* truncation), the block being copied, what the user's buffer has got; and
\* (a history) the position and the size at the call.
NewJob(op, f, want, pos, end) ==
    [op |-> op, file |-> f, want |-> want, old |-> Nblocks(f), count |-> 0, r |-> "ok",
     pos |-> pos, end |-> end, blockno |-> 0, buffer |-> <<>>,
     start |-> pos, orig |-> oi_size[f]]
NoJob == [op |-> "none", file |-> CHOOSE f \in Files : TRUE, want |-> 0, old |-> 0, count |-> 0,
          r |-> "ok", pos |-> 0, end |-> 0, blockno |-> 0, buffer |-> <<>>,
          start |-> 0, orig |-> 0]

CanRun(p) == \A q \in Procs \ {p} : pc[q] \in {"user", "asleep", "dozing"}

\* The file system that ospfsformat makes, with empty files.
Init ==
    /\ freemap = DataBlocks
    /\ disk = [b \in Blocks |-> ZeroBlock]
    /\ oi_size = [f \in Files |-> 0]
    /\ oi_direct = [f \in Files |-> [i \in 0 .. NDIRECT - 1 |-> 0]]
    /\ oi_indirect = [f \in Files |-> 0]
    /\ oi_indirect2 = [f \in Files |-> 0]
    /\ pc = [p \in Procs |-> "user"]
    /\ job = [p \in Procs |-> NoJob]

-----------------------------------------------------------------------------
(* The bitmap. *)

Smallest(S) == CHOOSE x \in S : \A y \in S : x <= y

\* Seeded fault: the whole bitmap is searched.
Bad_allocate_block(S) == IF S = {} THEN 0 ELSE Smallest(S)

\* The block that allocate_block finds if S are the free ones, 0 if none.
allocate_block(S) ==
    LET seen == S \cap (0 .. SCAN - 1)
    IN  IF seen = {} THEN 0 ELSE Smallest(seen)

\* The free blocks after free_block(b), if it returns: metadata is never freed.
free_block(S, b) == IF b < FirstData THEN S ELSE S \cup {b}

\* It does not return for a block that is not in the first bitmap block: its
\* loop compares blockno, which it does not change.
free_block_loops(b) == b >= SCAN

-----------------------------------------------------------------------------
(* Looking up the blocks of a file. *)

\* The pointer to block k of a file that has it.
BlockAt(f, k) ==
    IF k < NDIRECT THEN oi_direct[f][k]
    ELSE IF k < NDIRECT + NINDIRECT THEN disk[oi_indirect[f]][k - NDIRECT]
    ELSE LET off == k - (NDIRECT + NINDIRECT)
         IN  disk[disk[oi_indirect2[f]][off \div NINDIRECT]][off % NINDIRECT]

ospfs_inode_blockno(f, offset) ==
    IF offset >= oi_size[f] THEN 0 ELSE BlockAt(f, offset \div NINDIRECT)

-----------------------------------------------------------------------------
(* add_block: the ways it succeeds.  new is the data block, always the      *)
(* first to be allocated.                                                   *)

new == allocate_block(freemap)
second == allocate_block(freemap \ {new})
third == allocate_block(freemap \ {new, second})

\* The disk once new is erased, which comes before anything else.
erased == [disk EXCEPT ![new] = ZeroBlock]

InDirect(n) == n < NDIRECT
InIndirect(n) == NDIRECT <= n /\ n < NDIRECT + NINDIRECT
InIndirect2(n) == NDIRECT + NINDIRECT <= n /\ n < MAXFILEBLKS

Grown(f) == oi_size' = [oi_size EXCEPT ![f] = (Nblocks(f) + 1) * NINDIRECT]

\* Seeded fault: the new data block is not erased.
BadAddDirect(f) ==
    /\ InDirect(Nblocks(f)) /\ new # 0
    /\ freemap' = freemap \ {new}
    /\ oi_direct' = [oi_direct EXCEPT ![f][Nblocks(f)] = new]
    /\ Grown(f)
    /\ UNCHANGED <<disk, oi_indirect, oi_indirect2>>

AddDirect(f) ==
    /\ InDirect(Nblocks(f)) /\ new # 0
    /\ freemap' = freemap \ {new}
    /\ disk' = erased
    /\ oi_direct' = [oi_direct EXCEPT ![f][Nblocks(f)] = new]
    /\ Grown(f)
    /\ UNCHANGED <<oi_indirect, oi_indirect2>>

AddIndirect(f) ==
    /\ InIndirect(Nblocks(f)) /\ new # 0
    /\ oi_indirect[f] # 0
    /\ freemap' = freemap \ {new}
    /\ disk' = [erased EXCEPT ![oi_indirect[f]][Nblocks(f) - NDIRECT] = new]
    /\ Grown(f)
    /\ UNCHANGED <<oi_direct, oi_indirect, oi_indirect2>>

AddNewIndirect(f) ==
    /\ InIndirect(Nblocks(f)) /\ new # 0
    /\ oi_indirect[f] = 0 /\ second # 0
    /\ freemap' = freemap \ {new, second}
    /\ oi_indirect' = [oi_indirect EXCEPT ![f] = second]
    /\ disk' = [erased EXCEPT ![second] = [ZeroBlock EXCEPT ![Nblocks(f) - NDIRECT] = new]]
    /\ Grown(f)
    /\ UNCHANGED <<oi_direct, oi_indirect2>>

AddNewIndirect2(f) ==
    /\ InIndirect2(Nblocks(f)) /\ new # 0
    /\ oi_indirect2[f] = 0 /\ second # 0 /\ third # 0
    /\ freemap' = freemap \ {new, second, third}
    /\ oi_indirect2' = [oi_indirect2 EXCEPT ![f] = second]
    /\ disk' = [erased EXCEPT ![second] = [ZeroBlock EXCEPT ![0] = third],
                            ![third] = [ZeroBlock EXCEPT ![0] = new]]
    /\ Grown(f)
    /\ UNCHANGED <<oi_direct, oi_indirect>>

\* Word k of the memory that starts with block b, beyond the end of b too.
Word(b, k) == erased[b + k \div NINDIRECT][k % NINDIRECT]

\* Where the search in an existing doubly indirect block ends: before the
\* first entry, from the second on, that is 0.  It looks two words past the
\* end of the block.
LastEntry(b) ==
    LET ends == {i \in 0 .. NINDIRECT : Word(b, i + 1) = 0}
    IN  IF ends = {} THEN NINDIRECT + 1 ELSE Smallest(ends)

\* The disk with v stored at word k of that memory.
Store(d, b, k, v) == [d EXCEPT ![b + k \div NINDIRECT][k % NINDIRECT] = v]

LastIndirect(f) == Word(oi_indirect2[f], LastEntry(oi_indirect2[f]))
FreeSlots(b) == {i \in WordIndex : erased[b][i] = 0}

AddIndirect2(f) ==
    /\ InIndirect2(Nblocks(f)) /\ new # 0
    /\ oi_indirect2[f] # 0
    /\ FreeSlots(LastIndirect(f)) # {}
    /\ freemap' = freemap \ {new}
    /\ disk' = [erased EXCEPT ![LastIndirect(f)][Smallest(FreeSlots(LastIndirect(f)))] = new]
    /\ Grown(f)
    /\ UNCHANGED <<oi_direct, oi_indirect, oi_indirect2>>

\* Seeded fault: the new indirect block replaces the last one.
BadAddIndirect2Entry(f) ==
    /\ InIndirect2(Nblocks(f)) /\ new # 0
    /\ oi_indirect2[f] # 0
    /\ FreeSlots(LastIndirect(f)) = {} /\ second # 0
    /\ freemap' = freemap \ {new, second}
    /\ disk' = Store([erased EXCEPT ![second] = [ZeroBlock EXCEPT ![0] = new]],
                     oi_indirect2[f], LastEntry(oi_indirect2[f]), second)
    /\ Grown(f)
    /\ UNCHANGED <<oi_direct, oi_indirect, oi_indirect2>>

AddIndirect2Entry(f) ==
    /\ InIndirect2(Nblocks(f)) /\ new # 0
    /\ oi_indirect2[f] # 0
    /\ FreeSlots(LastIndirect(f)) = {} /\ second # 0
    /\ freemap' = freemap \ {new, second}
    /\ disk' = Store([erased EXCEPT ![second] = [ZeroBlock EXCEPT ![0] = new]],
                     oi_indirect2[f], LastEntry(oi_indirect2[f]) + 1, second)
    /\ Grown(f)
    /\ UNCHANGED <<oi_direct, oi_indirect, oi_indirect2>>

add_block(f) ==
    \/ AddDirect(f)
    \/ AddIndirect(f) \/ AddNewIndirect(f)
    \/ AddIndirect2(f) \/ AddIndirect2Entry(f) \/ AddNewIndirect2(f)

(* The ways it fails: what was allocated is freed again. *)

\* Seeded fault: the data block is not freed when its indirect block cannot
\* be allocated.
BadAddFailsIndirect(f) ==
    /\ new # 0 /\ second = 0
    /\ \/ InIndirect(Nblocks(f)) /\ oi_indirect[f] = 0
       \/ InIndirect2(Nblocks(f)) /\ oi_indirect2[f] = 0
       \/ /\ InIndirect2(Nblocks(f)) /\ oi_indirect2[f] # 0
          /\ FreeSlots(LastIndirect(f)) = {}
    /\ disk' = erased
    /\ freemap' = freemap \ {new}
    /\ UNCHANGED inodes

\* Without a block for the pointer to the new one.
AddFailsIndirect(f) ==
    /\ new # 0 /\ second = 0
    /\ \/ InIndirect(Nblocks(f)) /\ oi_indirect[f] = 0
       \/ InIndirect2(Nblocks(f)) /\ oi_indirect2[f] = 0
       \/ /\ InIndirect2(Nblocks(f)) /\ oi_indirect2[f] # 0
          /\ FreeSlots(LastIndirect(f)) = {}
    /\ disk' = erased
    /\ UNCHANGED <<freemap, inodes>>

\* With a doubly indirect block but no indirect block to put into it: the
\* doubly indirect block is freed, oi_indirect2 keeps its number.
AddFailsIndirect2(f) ==
    /\ InIndirect2(Nblocks(f))
    /\ new # 0 /\ oi_indirect2[f] = 0 /\ second # 0 /\ third = 0
    /\ oi_indirect2' = [oi_indirect2 EXCEPT ![f] = second]
    /\ disk' = [erased EXCEPT ![second] = ZeroBlock]
    /\ UNCHANGED <<freemap, oi_size, oi_direct, oi_indirect>>

add_block_enospc(f) ==
    \/ new = 0 /\ UNCHANGED <<freemap, disk, inodes>>
    \/ AddFailsIndirect(f)
    \/ AddFailsIndirect2(f)

\* The file has its maximal number of blocks.
add_block_eio(f) ==
    /\ new # 0 /\ Nblocks(f) >= MAXFILEBLKS
    /\ disk' = erased
    /\ UNCHANGED <<freemap, inodes>>

-----------------------------------------------------------------------------
(* remove_block: the ways it succeeds. *)

Shrunk(f) == oi_size' = [oi_size EXCEPT ![f] = (Nblocks(f) - 1) * NINDIRECT]

RemoveNothing(f) == Nblocks(f) = 0 /\ UNCHANGED <<freemap, disk, inodes>>

RemoveDirect(f) ==
    LET last == Nblocks(f) - 1
    IN  /\ 0 <= last /\ InDirect(last)
        /\ freemap' = free_block(freemap, oi_direct[f][last])
        /\ oi_direct' = [oi_direct EXCEPT ![f][last] = 0]
        /\ Shrunk(f)
        /\ UNCHANGED <<disk, oi_indirect, oi_indirect2>>

RemoveIndirect(f) ==
    LET i == Nblocks(f) - 1 - NDIRECT
        b == oi_indirect[f]
    IN  /\ InIndirect(Nblocks(f) - 1) /\ b # 0
        /\ disk' = [disk EXCEPT ![b][i] = 0]
        /\ IF i = 0
           THEN /\ freemap' = free_block(free_block(freemap, disk[b][i]), b)
                /\ oi_indirect' = [oi_indirect EXCEPT ![f] = 0]
           ELSE /\ freemap' = free_block(freemap, disk[b][i])
                /\ UNCHANGED oi_indirect
        /\ Shrunk(f)
        /\ UNCHANGED <<oi_direct, oi_indirect2>>

\* Seeded fault: one entry too few is found.
BadEntries(b) ==
    LET zeros == {i \in WordIndex : disk[b][i] = 0}
    IN  IF zeros = {} THEN NINDIRECT ELSE Smallest(zeros) - 1

\* The number of entries of a doubly indirect block: up to the first 0.
Entries(b) ==
    LET zeros == {i \in WordIndex : disk[b][i] = 0}
    IN  IF zeros = {} THEN NINDIRECT ELSE Smallest(zeros)

RemoveIndirect2(f) ==
    LET j == (Nblocks(f) - NDIRECT - NINDIRECT - 1) % NINDIRECT
        b2 == oi_indirect2[f]
        i == Entries(b2)
        b == disk[b2][i - 1]
        less == free_block(freemap, disk[b][j])
    IN  /\ InIndirect2(Nblocks(f) - 1) /\ b2 # 0 /\ i # 0
        /\ IF j # 0
           THEN /\ freemap' = less
                /\ disk' = [disk EXCEPT ![b][j] = 0]
                /\ UNCHANGED oi_indirect2
           ELSE /\ disk' = [disk EXCEPT ![b][j] = 0, ![b2][i - 1] = 0]
                /\ IF i = 1
                   THEN /\ freemap' = free_block(free_block(less, b), b2)
                        /\ oi_indirect2' = [oi_indirect2 EXCEPT ![f] = 0]
                   ELSE /\ freemap' = free_block(less, b)
                        /\ UNCHANGED oi_indirect2
        /\ Shrunk(f)
        /\ UNCHANGED <<oi_direct, oi_indirect>>

\* The blocks that it frees, the last data block and the pointer blocks that
\* are no longer needed.
FreedBlocks(f) ==
    LET last == Nblocks(f) - 1
        b1 == oi_indirect[f]
        b2 == oi_indirect2[f]
        i == Entries(b2)
        j == (last - NDIRECT - NINDIRECT) % NINDIRECT
        b == disk[b2][i - 1]
    IN  CASE 0 <= last /\ InDirect(last) -> {oi_direct[f][last]}
          [] InIndirect(last) /\ b1 # 0 ->
               {disk[b1][last - NDIRECT]} \cup (IF last = NDIRECT THEN {b1} ELSE {})
          [] InIndirect2(last) /\ b2 # 0 /\ i # 0 ->
               {disk[b][j]} \cup (IF j # 0 THEN {} ELSE IF i = 1 THEN {b, b2} ELSE {b})
          [] OTHER -> {}

\* It never returns if free_block does not for one of them.
remove_block_loops(f) == \E b \in FreedBlocks(f) : free_block_loops(b)

remove_block(f) ==
    /\ ~ remove_block_loops(f)
    /\ RemoveNothing(f) \/ RemoveDirect(f) \/ RemoveIndirect(f) \/ RemoveIndirect2(f)

\* It fails, and changes nothing, when a pointer block is missing.
remove_block_eio(f) ==
    /\ \/ InIndirect(Nblocks(f) - 1) /\ oi_indirect[f] = 0
       \/ /\ InIndirect2(Nblocks(f) - 1)
          /\ oi_indirect2[f] = 0 \/ Entries(oi_indirect2[f]) = 0
       \/ Nblocks(f) > MAXFILEBLKS
    /\ UNCHANGED <<freemap, disk, inodes>>

-----------------------------------------------------------------------------
(* change_size. *)

Go(p, where) == pc' = [pc EXCEPT ![p] = where]

\* Where p goes after change_size returned 0: a write goes on to copy.
AfterResize(p) == IF job[p].pos < job[p].end THEN "copy" ELSE "done"

MustGrow(j) == j.old + j.count < ospfs_size2nblocks(j.want)
MustShrink(j) == j.old > ospfs_size2nblocks(j.want) + j.count

Grow(p) ==
    /\ pc[p] = "resize" /\ CanRun(p) /\ MustGrow(job[p])
    /\ add_block(job[p].file)
    /\ job' = [job EXCEPT ![p].count = @ + 1]
    /\ UNCHANGED pc

\* block_count already includes the block that could not be added.
GrowFails(p) ==
    /\ pc[p] = "resize" /\ CanRun(p) /\ MustGrow(job[p])
    /\ \/ /\ add_block_enospc(job[p].file)
          /\ job' = [job EXCEPT ![p].count = @ + 1, ![p].r = "enospc"]
          /\ Go(p, "undo")
       \/ /\ add_block_eio(job[p].file)
          /\ job' = [job EXCEPT ![p].count = @ + 1, ![p].r = "eio"]
          /\ Go(p, "done")

Shrink(p) ==
    /\ pc[p] = "resize" /\ CanRun(p) /\ MustShrink(job[p])
    /\ remove_block(job[p].file)
    /\ job' = [job EXCEPT ![p].count = @ + 1]
    /\ UNCHANGED pc

ShrinkFails(p) ==
    /\ pc[p] = "resize" /\ CanRun(p) /\ MustShrink(job[p])
    /\ remove_block_eio(job[p].file)
    /\ job' = [job EXCEPT ![p].count = @ + 1, ![p].r = "eio"]
    /\ Go(p, "done")

\* Every block is added or removed: only now the size becomes the one asked for.
Resized(p) ==
    /\ pc[p] = "resize" /\ CanRun(p)
    /\ ~ MustGrow(job[p]) /\ ~ MustShrink(job[p])
    /\ oi_size' = [oi_size EXCEPT ![job[p].file] = job[p].want]
    /\ Go(p, AfterResize(p))
    /\ UNCHANGED <<freemap, disk, oi_direct, oi_indirect, oi_indirect2, job>>

\* Seeded fault: the loop that undoes a growth does not count.
BadUndoForever(p) ==
    /\ pc[p] = "undo" /\ CanRun(p)
    /\ remove_block(job[p].file)
    /\ UNCHANGED <<job, pc>>

Undo(p) ==
    /\ pc[p] = "undo" /\ CanRun(p)
    /\ \/ /\ job[p].count > 0 /\ remove_block(job[p].file)
          /\ job' = [job EXCEPT ![p].count = @ - 1]
          /\ UNCHANGED pc
       \/ /\ job[p].count = 0
          /\ Go(p, "done")
          /\ UNCHANGED <<freemap, disk, inodes, job>>

UndoFails(p) ==
    /\ pc[p] = "undo" /\ CanRun(p)
    /\ job[p].count > 0 /\ remove_block_eio(job[p].file)
    /\ job' = [job EXCEPT ![p].r = "eio"]
    /\ Go(p, "done")

\* The processor is in the endless loop of a free_block that p called.
InLoop(p) ==
    /\ \/ pc[p] = "resize" /\ MustShrink(job[p])
       \/ pc[p] = "undo" /\ job[p].count > 0
    /\ remove_block_loops(job[p].file)

FreeLoops(p) == InLoop(p) /\ CanRun(p) /\ UNCHANGED vars

-----------------------------------------------------------------------------
(* The system calls. *)

\* ospfs_notify_change with ATTR_SIZE; with want = 0 also the last unlink.
Truncate(p, f, want) ==
    /\ pc[p] = "user" /\ CanRun(p)
    /\ job' = [job EXCEPT ![p] = NewJob("truncate", f, want, 0, 0)]
    /\ Go(p, "resize")
    /\ UNCHANGED <<freemap, disk, inodes>>

\* ospfs_write up to its loop; pos is *f_pos, or oi_size under O_APPEND.
Write(p, f, pos, end) ==
    /\ pc[p] = "user" /\ CanRun(p)
    /\ pos < end
    /\ job' = [job EXCEPT ![p] = NewJob("write", f, end, pos, end)]
    /\ Go(p, IF end > oi_size[f] THEN "resize" ELSE "copy")
    /\ UNCHANGED <<freemap, disk, inodes>>

\* Seeded fault: the offset of pos in its block is forgotten.
BadSpanEnd(j) == IF j.pos + NINDIRECT < j.end THEN j.pos + NINDIRECT ELSE j.end

\* The end of the part of the span that lies in the block of pos.
SpanEnd(j) ==
    LET next == (j.pos \div NINDIRECT + 1) * NINDIRECT
    IN  IF next < j.end THEN next ELSE j.end

\* Block b with the words of the span up to upto copied from the user; the
\* rest of the span is zeroed (copy_from_user does so when it fails).
Copied(b, j, upto) ==
    [i \in WordIndex |->
        LET at == (j.pos \div NINDIRECT) * NINDIRECT + i
        IN  IF at < j.pos \/ at >= SpanEnd(j) THEN disk[b][i]
            ELSE IF at < upto THEN Stamp[j.file] ELSE 0]

\* The pointer that the current iteration of ospfs_write uses.
Target(j) == ospfs_inode_blockno(j.file, j.pos)

CopyTo(p, b) ==
    LET j == job[p]
    IN  /\ disk' = [disk EXCEPT ![b] = Copied(b, j, j.end)]
        /\ job' = [job EXCEPT ![p].pos = SpanEnd(j), ![p].blockno = 0]
        /\ Go(p, IF SpanEnd(j) < j.end THEN "copy" ELSE "done")
        /\ UNCHANGED <<freemap, inodes>>

Copy(p) ==
    /\ pc[p] = "copy" /\ CanRun(p) /\ Target(job[p]) # 0
    /\ CopyTo(p, Target(job[p]))

\* The user's page is not resident: the copy into the block that was looked up
\* goes on after the page is read.
CopySleeps(p) ==
    /\ "sleep" \in Faults
    /\ pc[p] = "copy" /\ CanRun(p) /\ Target(job[p]) # 0
    /\ job' = [job EXCEPT ![p].blockno = Target(job[p])]
    /\ Go(p, "asleep")
    /\ UNCHANGED <<freemap, disk, inodes>>

CopyWakes(p) ==
    /\ pc[p] = "asleep" /\ CanRun(p)
    /\ CopyTo(p, job[p].blockno)

\* The user's buffer ends, or there is no block at the position.
CopyFails(p) ==
    /\ pc[p] = "copy" /\ CanRun(p)
    /\ Go(p, "done")
    /\ \/ /\ "efault" \in Faults
          /\ Target(job[p]) # 0
          /\ \E upto \in job[p].pos .. SpanEnd(job[p]) - 1 :
                disk' = [disk EXCEPT ![Target(job[p])] = Copied(Target(job[p]), job[p], upto)]
          /\ job' = [job EXCEPT ![p].r = "efault"]
       \/ /\ Target(job[p]) = 0
          /\ job' = [job EXCEPT ![p].r = "eio"]
          /\ UNCHANGED disk
    /\ UNCHANGED <<freemap, inodes>>

-----------------------------------------------------------------------------
(* ospfs_read. *)

\* Seeded fault: the span is not cut off at the end of the file.
BadReadEnd(f, pos, end) == end

\* Where a read ends: at the end of the file if it asks for more.  count is
\* unsigned, so behind the end of the file it becomes huge.
ReadEnd(f, pos, end) ==
    IF end > oi_size[f] THEN pos + ((oi_size[f] - pos) % COUNTS) ELSE end

Read(p, f, pos, end) ==
    /\ pc[p] = "user" /\ CanRun(p)
    /\ pos < end
    /\ job' = [job EXCEPT ![p] = NewJob("read", f, end, pos, ReadEnd(f, pos, end))]
    /\ Go(p, IF pos < ReadEnd(f, pos, end) THEN "read" ELSE "done")
    /\ UNCHANGED <<freemap, disk, inodes>>

\* Seeded fault: data is used instead of &data[offset].
BadReadWords(b, j) == SubSeq([i \in 1 .. NINDIRECT |-> disk[b][i - 1]], 1, SpanEnd(j) - j.pos)

\* The words of block b in the part of the span that lies in it.
ReadWords(b, j) ==
    [i \in 1 .. SpanEnd(j) - j.pos |-> disk[b][(j.pos + i - 1) % NINDIRECT]]

ReadFrom(p, b) ==
    LET j == job[p]
    IN  /\ job' = [job EXCEPT ![p].pos = SpanEnd(j), ![p].blockno = 0,
                             ![p].buffer = @ \o ReadWords(b, j)]
        /\ Go(p, IF SpanEnd(j) < j.end THEN "read" ELSE "done")
        /\ UNCHANGED <<freemap, disk, inodes>>

ReadCopy(p) ==
    /\ pc[p] = "read" /\ CanRun(p) /\ Target(job[p]) # 0
    /\ ReadFrom(p, Target(job[p]))

ReadSleeps(p) ==
    /\ "sleep" \in Faults
    /\ pc[p] = "read" /\ CanRun(p) /\ Target(job[p]) # 0
    /\ job' = [job EXCEPT ![p].blockno = Target(job[p])]
    /\ Go(p, "dozing")
    /\ UNCHANGED <<freemap, disk, inodes>>

ReadWakes(p) ==
    /\ pc[p] = "dozing" /\ CanRun(p)
    /\ ReadFrom(p, job[p].blockno)

\* The user's buffer ends, or there is no block at the position.
ReadFails(p) ==
    /\ pc[p] = "read" /\ CanRun(p)
    /\ Go(p, "done")
    /\ \/ /\ "efault" \in Faults /\ Target(job[p]) # 0
          /\ job' = [job EXCEPT ![p].r = "efault"]
       \/ /\ Target(job[p]) = 0
          /\ job' = [job EXCEPT ![p].r = "eio"]
    /\ UNCHANGED <<freemap, disk, inodes>>

Return(p) ==
    /\ pc[p] = "done" /\ CanRun(p)
    /\ job' = [job EXCEPT ![p] = NoJob]
    /\ Go(p, "user")
    /\ UNCHANGED <<freemap, disk, inodes>>

Step(p) ==
    \/ Grow(p) \/ GrowFails(p) \/ Shrink(p) \/ ShrinkFails(p) \/ Resized(p)
    \/ Undo(p) \/ UndoFails(p) \/ FreeLoops(p)
    \/ Copy(p) \/ CopySleeps(p) \/ CopyWakes(p) \/ CopyFails(p)
    \/ ReadCopy(p) \/ ReadSleeps(p) \/ ReadWakes(p) \/ ReadFails(p)
    \/ Return(p)

Next ==
    \E p \in Procs :
        \/ Step(p)
        \/ \E f \in Files : \E end \in Sizes :
             \/ Truncate(p, f, end)
             \/ \E pos \in Seeks \cup {oi_size[f]} : Write(p, f, pos, end)
             \/ \E pos \in ReadSeeks : Read(p, f, pos, end)

Spec == Init /\ [][Next]_vars

\* The processor runs the code it is in, and a process whose page has been
\* read gets the processor in the end.
FairSpec ==
    Spec /\ \A p \in Procs : WF_vars(Step(p)) /\ SF_vars(CopyWakes(p)) /\ SF_vars(ReadWakes(p))

-----------------------------------------------------------------------------
(* Properties. *)

\* The blocks of a file: those with its data, and those with pointers.
FileBlocks(f) == {BlockAt(f, k) : k \in 0 .. Nblocks(f) - 1}
PointerBlocks(f) ==
    (IF oi_indirect[f] = 0 THEN {} ELSE {oi_indirect[f]})
      \cup (IF oi_indirect2[f] = 0 THEN {}
            ELSE {oi_indirect2[f]} \cup ({disk[oi_indirect2[f]][i] : i \in WordIndex} \ {0}))
Owned(f) == FileBlocks(f) \cup PointerBlocks(f)

\* Every allocated block has one place: no block is in two files or twice in
\* one, no file points to a free block, and no allocated block is lost.
BlocksExact ==
    /\ \A f \in Files :
         /\ \A k, l \in 0 .. Nblocks(f) - 1 : BlockAt(f, k) = BlockAt(f, l) => k = l
         /\ FileBlocks(f) \cap PointerBlocks(f) = {}
         /\ \A g \in Files \ {f} : Owned(f) \cap Owned(g) = {}
    /\ UNION {Owned(f) : f \in Files} = DataBlocks \ freemap

\* What a user sees of a file: the words of its blocks, up to its size.
Content(f) ==
    [i \in 1 .. oi_size[f] |->
        disk[ospfs_inode_blockno(f, i - 1)][(i - 1) % NINDIRECT]]

FilesSpec == INSTANCE OspfsFiles WITH content <- [f \in Files |-> Content(f)]

\* The blocks implement files: a step of a call extends one file, cuts it or
\* overwrites a span of it, whatever blocks, pointers and bitmap it goes
\* through; blocks that were freed show none of their old data in the next
\* file, and no write lands in another file or in pointers.
FilesImplemented == FilesSpec!Spec

\* No file has a block for which free_block would not return.
FreeReturns == \A f \in Files : \A b \in Owned(f) : ~ free_block_loops(b)

\* -EIO is the answer only to a size that is more than a file can have and to
\* a read behind the end of the file (whose count has wrapped): the pointer
\* blocks that add_block leaves are those that remove_block and the lookups of
\* reads and writes expect.
EioOnlyOutside ==
    \A p \in Procs : pc[p] = "done" /\ job[p].r = "eio" =>
        IF job[p].op = "read" THEN job[p].start > job[p].orig
        ELSE ospfs_size2nblocks(job[p].want) > MAXFILEBLKS

\* When ospfs_write returns the number of bytes asked for, they are all in
\* the file, at the position of the call.
WriteComplete ==
    \A p \in Procs : pc[p] = "done" /\ job[p].op = "write" /\ job[p].r = "ok" =>
        \A at \in job[p].start .. job[p].end - 1 :
            /\ at < oi_size[job[p].file]
            /\ disk[ospfs_inode_blockno(job[p].file, at)][at % NINDIRECT] = Stamp[job[p].file]

\* A read that answers with a count has given the user that many words, those
\* of the file from the position of the call up to what was asked for or to
\* the end of the file; at the end it answers 0.
ReadExact ==
    \A p \in Procs : pc[p] = "done" /\ job[p].op = "read" /\ job[p].r = "ok" =>
        LET f == job[p].file
            upto == IF job[p].want < oi_size[f] THEN job[p].want ELSE oi_size[f]
        IN  job[p].buffer = SubSeq(Content(f), job[p].start + 1, upto)

\* Every system call returns, or the processor ends in a free_block that does
\* not: nothing else in the loops of change_size, ospfs_write and ospfs_read
\* goes on for ever.  A free_block that does not return is reached where user
\* data has become pointers: through the oi_indirect2 that a failed add_block
\* leaves behind, or by a write that slept while its block was freed and used
\* again.  (FreeReturns says where that does not happen.)
CallsReturn ==
    \A p \in Procs : pc[p] # "user" ~> pc[p] = "user" \/ \E q \in Procs : InLoop(q)

\* A growth that ends in -ENOSPC leaves the file's size as it was.
FailedGrowUndone ==
    \A p \in Procs : pc[p] = "done" /\ job[p].r = "enospc" =>
        oi_size[job[p].file] = job[p].orig

=============================================================================
