------------------------------ MODULE OspfsDir ------------------------------
(***************************************************************************)
(* One directory of OSPFS and its files (Lab3-File-System/ospfsmod.c): the *)
(* entries, the link counts and types of the inodes, and create, link,     *)
(* symlink, unlink, lookup and readdir.                                    *)
(*                                                                         *)
(* The kernel holds the directory's i_mutex around every call modelled     *)
(* here, so a call is one action; processes interleave between calls, and  *)
(* a process that lists the directory makes several.  Of the blocks, which *)
(* OspfsBlocks models, only their numbers are kept: those of each file,    *)
(* and the free ones.                                                      *)
(***************************************************************************)
EXTENDS Integers, FiniteSets

CONSTANTS
    Procs,       \* the processes that list the directory
    Names,       \* the names that fit into an entry
    LongName,    \* a name of more than OSPFS_MAXNAMELEN characters
    Targets,     \* the destinations of symbolic links
    NoTarget,    \* the destination of what is not a symbolic link
    NInodes,     \* os_ninodes
    PerBlock,    \* OSPFS_BLKSIZE / OSPFS_DIRENTRY_SIZE
    MaxEntries,  \* bound: the entries of a directory
    NFree,       \* the free blocks of the formatted disk
    Caps,        \* how many entries the buffer of a readdir call takes
    NoName,      \* the name of a blank entry
    NoFile       \* no inode: what a lookup that fails gives

Inodes == 2 .. NInodes - 1
Slots == 0 .. MaxEntries - 1

\* The blank entry is searched in the direct and the indirect blocks: a
\* directory of that many blocks does not use its doubly indirect block.
ASSUME DirAssumption ==
    /\ LongName \notin Names /\ NoName \notin Names /\ NoTarget \notin Targets
    /\ NoFile \notin 0 .. NInodes
    /\ NInodes \in Nat /\ NInodes > 2
    /\ PerBlock \in Nat \ {0} /\ MaxEntries \in Nat /\ MaxEntries % PerBlock = 0
    /\ NFree \in Nat /\ Caps \subseteq Nat

REG == "reg"
SYMLINK == "symlink"

VARIABLES
    od,          \* od[s]: the entry s, [od_ino, od_name]
    nentries,    \* the directory's oi_size, in entries
    oi_ftype, oi_nlink, oi_symlink,  \* the inodes
    oi_size,     \* the blocks of regular files
    free,        \* the number of free blocks
    scan         \* the open directories of the processes

inodes == <<oi_ftype, oi_nlink, oi_size, oi_symlink>>
disk == <<od, nentries, inodes, free>>
vars == <<disk, scan>>

Blank == [od_ino |-> 0, od_name |-> NoName]

\* f_pos of an open directory; and as a history, the entries that were
\* reported since it was opened, whether one was reported twice, and whether
\* a call has reported nothing, which ends the listing.
NoScan == [f_pos |-> 0, seen |-> {}, twice |-> FALSE, ended |-> TRUE]

\* An empty directory, as ospfsformat leaves it.
Init ==
    /\ od = [s \in Slots |-> Blank]
    /\ nentries = 0
    /\ oi_ftype = [i \in Inodes |-> REG]
    /\ oi_nlink = [i \in Inodes |-> 0]
    /\ oi_size = [i \in Inodes |-> 0]
    /\ oi_symlink = [i \in Inodes |-> NoTarget]
    /\ free = NFree
    /\ scan = [p \in Procs |-> NoScan]

-----------------------------------------------------------------------------
(* Searching the directory. *)

Least(S) == CHOOSE x \in S : \A y \in S : x <= y

Matches(n) == {s \in 0 .. nentries - 1 : od[s].od_ino # 0 /\ od[s].od_name = n}
find_direntry(n) == Matches(n) # {}
Entry(n) == Least(Matches(n))
Lookup(n) == IF find_direntry(n) THEN od[Entry(n)].od_ino ELSE NoFile

BlankSlots == {s \in 0 .. nentries - 1 : od[s].od_ino = 0}

\* create_blank_direntry: the first blank entry, or the first of a new block
\* of the directory.
HasBlank == BlankSlots # {}
CanGrow == ~HasBlank /\ free > 0 /\ nentries + PerBlock <= MaxEntries
DirFull == ~HasBlank /\ free = 0

BlankEntry == IF HasBlank THEN Least(BlankSlots) ELSE nentries

\* The directory and the free blocks once the entry of n refers to inode i.
EnterAs(n, i) ==
    /\ HasBlank \/ CanGrow
    /\ od' = [od EXCEPT ![BlankEntry] = IF i = 0 THEN Blank ELSE [od_ino |-> i, od_name |-> n]]
    /\ nentries' = IF HasBlank THEN nentries ELSE nentries + PerBlock
    /\ free' = IF HasBlank THEN free ELSE free - 1

-----------------------------------------------------------------------------
(* The system calls.  Every one of them looks its names up first. *)

\* create, link and symlink answer -ENAMETOOLONG, -EEXIST or -ENOSPC.  (A
\* destination that is too long for an inode changes nothing either.)
Refused(n) ==
    /\ n = LongName \/ find_direntry(n) \/ DirFull
    /\ UNCHANGED vars

FreeInodes == {i \in Inodes : oi_nlink[i] = 0}

\* The inode that create and symlink take: the first that is free.
NewInode == Least(FreeInodes)

\* ospfs_create.  The file exists also if it ends with -ENOMEM, for want of
\* the kernel's inode.
Create(n) ==
    /\ n # LongName /\ ~find_direntry(n) /\ FreeInodes # {}
    /\ EnterAs(n, NewInode)
    /\ oi_ftype' = [oi_ftype EXCEPT ![NewInode] = REG]
    /\ oi_nlink' = [oi_nlink EXCEPT ![NewInode] = 1]
    /\ oi_size' = [oi_size EXCEPT ![NewInode] = 0]
    /\ UNCHANGED <<oi_symlink, scan>>

\* ospfs_symlink.
Symlink(n, target) ==
    /\ n # LongName /\ ~find_direntry(n) /\ FreeInodes # {}
    /\ EnterAs(n, NewInode)
    /\ oi_ftype' = [oi_ftype EXCEPT ![NewInode] = SYMLINK]
    /\ oi_nlink' = [oi_nlink EXCEPT ![NewInode] = 1]
    /\ oi_symlink' = [oi_symlink EXCEPT ![NewInode] = target]
    /\ UNCHANGED <<oi_size, scan>>

\* Without a free inode both answer 0 and leave an entry with inode 0 behind,
\* which is blank.
MakeWithoutInode(n) ==
    /\ n # LongName /\ ~find_direntry(n) /\ FreeInodes = {}
    /\ EnterAs(n, 0)
    /\ UNCHANGED <<inodes, scan>>

\* Seeded fault: a hard link does not count.
BadCounted(i) == oi_nlink
Counted(i) == [oi_nlink EXCEPT ![i] = @ + 1]

\* ospfs_link.
Link(n, m) ==
    /\ find_direntry(n) /\ m # LongName /\ ~find_direntry(m)
    /\ EnterAs(m, Lookup(n))
    /\ oi_nlink' = Counted(Lookup(n))
    /\ UNCHANGED <<oi_ftype, oi_size, oi_symlink, scan>>

\* Seeded faults: the blocks are freed with the first name; the link count is
\* read before it is decremented.
BadDroppedFirst(i) == oi_ftype[i] # SYMLINK
BadDroppedLate(i) == oi_nlink[i] = 0 /\ oi_ftype[i] # SYMLINK
\* Are the blocks of inode i freed when it loses a name?
Dropped(i) == oi_nlink[i] = 1 /\ oi_ftype[i] # SYMLINK

\* ospfs_unlink, with its change_size(oi, 0).  The name of the entry and the
\* destination in a free inode stay on the disk; nothing reads them.
Unlink(n) ==
    LET i == Lookup(n)
    IN  /\ find_direntry(n)
        /\ od' = [od EXCEPT ![Entry(n)] = Blank]
        /\ oi_nlink' = [oi_nlink EXCEPT ![i] = @ - 1]
        /\ IF Dropped(i)
           THEN oi_size' = [oi_size EXCEPT ![i] = 0] /\ free' = free + oi_size[i]
           ELSE UNCHANGED <<oi_size, free>>
        /\ oi_symlink' = [oi_symlink EXCEPT ![i] = IF oi_nlink[i] = 1 THEN NoTarget ELSE @]
        /\ UNCHANGED <<nentries, oi_ftype, scan>>

\* ospfs_write and truncation of a regular file, by a block, see OspfsBlocks.
Grow(n) ==
    /\ find_direntry(n) /\ oi_ftype[Lookup(n)] = REG /\ free > 0
    /\ oi_size' = [oi_size EXCEPT ![Lookup(n)] = @ + 1]
    /\ free' = free - 1
    /\ UNCHANGED <<od, nentries, oi_ftype, oi_nlink, oi_symlink, scan>>

-----------------------------------------------------------------------------
(* ospfs_dir_readdir. *)

OpenDir(p) ==
    /\ scan[p].ended
    /\ scan' = [scan EXCEPT ![p] = [NoScan EXCEPT !.ended = FALSE]]
    /\ UNCHANGED disk

\* Seeded fault: the position of a call that goes on is taken three too low.
BadFirstEntry(f_pos) == IF f_pos < 3 THEN f_pos ELSE f_pos - 3
\* The entry at which a call begins, its variable ent.
FirstEntry(f_pos) == f_pos

\* How many of "." and ".." are still to be reported.
Dots(f_pos) == IF f_pos < 2 THEN 2 - f_pos ELSE 0

\* The loop over the entries from ent on: the ones it reports to a buffer with
\* room for that many, and where it ends, which is at the entry that does not
\* fit, or at the end of the directory.
LiveFrom(ent) == {s \in ent .. nentries - 1 : od[s].od_ino # 0}
Reported(ent, room) ==
    {s \in LiveFrom(ent) : Cardinality({t \in LiveFrom(ent) : t < s}) < room}
Stop(ent, room) ==
    IF Reported(ent, room) # LiveFrom(ent) THEN Least(LiveFrom(ent) \ Reported(ent, room))
    ELSE IF ent < nentries THEN nentries ELSE ent

\* The open directory d after a call whose buffer takes cap entries, "." and
\* ".." included.
Listed(d, cap) ==
    LET dots == Dots(d.f_pos)
        ent == FirstEntry(d.f_pos)
        reported == Reported(ent, cap - dots)
    IN  IF cap < dots THEN [d EXCEPT !.f_pos = @ + cap]
        ELSE [f_pos |-> d.f_pos + dots + Stop(ent, cap - dots) - ent,
              seen |-> d.seen \cup reported,
              twice |-> d.twice \/ d.seen \cap reported # {},
              ended |-> dots = 0 /\ reported = {}]

ReadDir(p, cap) ==
    /\ ~scan[p].ended
    /\ scan' = [scan EXCEPT ![p] = Listed(@, cap)]
    /\ UNCHANGED disk

-----------------------------------------------------------------------------
Change(n) ==
    \/ Refused(n)
    \/ Create(n) \/ MakeWithoutInode(n)
    \/ \E target \in Targets : Symlink(n, target)
    \/ \E m \in Names : Link(m, n)
    \/ Unlink(n) \/ Grow(n)

Next ==
    \/ \E n \in Names \cup {LongName} : Change(n)
    \/ \E p \in Procs : OpenDir(p) \/ \E cap \in Caps : ReadDir(p, cap)

Spec == Init /\ [][Next]_vars

-----------------------------------------------------------------------------
(* Properties. *)

\* The link count of an inode is the number of entries that refer to it: no
\* file goes while it has a name, and no inode is lost when it has none.
LinkCountExact ==
    \A i \in Inodes : oi_nlink[i] = Cardinality({s \in 0 .. nentries - 1 : od[s].od_ino = i})

\* The blocks of the files: the k-th of inode i is <<i, k>>.
HeldBlocks == {x \in Inodes \X (1 .. NFree) : x[2] <= oi_size[x[1]]}

\* Every block is free or in a file or the directory: unlinking gives all
\* blocks of a file back, and a new file takes no inode that has some.
BlocksConserved ==
    /\ free + Cardinality(HeldBlocks) + nentries \div PerBlock = NFree
    /\ \A i \in Inodes : oi_nlink[i] = 0 \/ oi_ftype[i] = SYMLINK => oi_size[i] = 0

\* A listing reports no entry twice, however the buffers cut it and whatever
\* is created and unlinked between its calls.
ReaddirOnce == \A p \in Procs : ~scan[p].twice

\* The directory seen through its names, and the content of its files.
NamesNow == [n \in Names |-> Lookup(n)]
FileNow ==
    [i \in Inodes |->
        IF i \notin {Lookup(n) : n \in Names} THEN NoFile
        ELSE IF oi_ftype[i] = REG THEN <<REG, oi_size[i]>> ELSE <<SYMLINK, oi_symlink[i]>>]
FileContents == {REG} \X (0 .. NFree) \cup {SYMLINK} \X Targets

Dir == INSTANCE OspfsNames
         WITH Contents <- FileContents, names <- NamesNow, file <- FileNow

\* The entries, link counts and inodes implement names for files: a name
\* means the file it was given, until it is unlinked, whatever happens to
\* other names, and no file's inode is given to another while it has a name.
NamesImplemented == Dir!Spec

=============================================================================
