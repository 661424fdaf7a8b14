---------------------------- MODULE OspfsFormat ----------------------------
(***************************************************************************)
(* ospfsformat (Lab3-File-System/ospfsformat.c): the program that makes a  *)
(* file system image of a directory tree of the host.  Every block goes    *)
(* through a small write-back cache; the program keeps pointers into the   *)
(* cached blocks, here slots, and counts them in busy so that those blocks *)
(* are not evicted.                                                        *)
(*                                                                         *)
(* A block is NINDIRECT words and sizes count words, as in OspfsBlocks.    *)
(* The host is little-endian, so swizzling changes nothing.  The link      *)
(* texts given with -l fit into an inode.                                  *)
(***************************************************************************)
EXTENDS Integers, Sequences, FiniteSets, SequencesExt

CONSTANTS
    NBlocks,      \* nblocks
    NInodes,      \* ninodes
    NDIRECT,      \* OSPFS_NDIRECT
    NINDIRECT,    \* OSPFS_NINDIRECT
    BLKBITSIZE,   \* OSPFS_BLKBITSIZE
    BLKINODES,    \* OSPFS_BLKINODES
    BLKENTRIES,   \* directory entries in a block
    NCACHE,       \* the slots of the cache (16)
    HostData,     \* HostData[h]: the words of the host's file h, or the text of its link
    Linked,       \* the host's inodes with more than one link
    Unreadable,   \* the files that fail to be read
    LongNames,    \* the names of more than OSPFS_MAXNAMELEN characters
    Hosts,        \* the trees that may be given
    LinkLists     \* the lists of links that may be given with -l

\* A tree is the sequence of its entries in the order in which writedirectory
\* meets them: an entry's kind, name, inode on the host, and how many
\* directories below the root it is.  An entry of kind "other" is one that is
\* not copied (., .., CVS, .svn, .git, a device, a link whose text is too long).
Kinds == {"file", "dir", "symlink", "other"}
IsTree(h) ==
    \A i \in 1 .. Len(h) :
        /\ h[i].kind \in Kinds /\ h[i].host \in DOMAIN HostData
        /\ h[i].depth \in 0 .. (IF i = 1 THEN 0
                               ELSE h[i - 1].depth + IF h[i - 1].kind = "dir" THEN 1 ELSE 0)

ASSUME FormatAssumption ==
    /\ \A c \in {NBlocks, NInodes, NDIRECT, NINDIRECT, BLKBITSIZE, BLKINODES, BLKENTRIES, NCACHE} :
          c \in Nat \ {0}
    /\ NInodes >= 2 /\ NInodes < NBlocks - 2 - NBlocks \div BLKBITSIZE
    /\ Linked \cup Unreadable \subseteq DOMAIN HostData
    /\ \A h \in Hosts : IsTree(h)

VARIABLES
    host, links,             \* the tree and the links given with -l
    recursive,               \* -r: the tree is a directory, not a list of files
    link_contents,           \* -c
    m,                       \* the global variables and the disk
    pc, at,                  \* where the program is, and in which entry
    stack,                   \* the calls of writedirectory
    file                     \* the locals of writefile

vars == <<host, links, recursive, link_contents, m, pc, at, stack, file>>
args == <<host, links, recursive, link_contents>>

Ceil(a, b) == (a + b - 1) \div b
FREEMAP_BLK == 2
nbitblock == Ceil(NBlocks, BLKBITSIZE)
os_firstinob == FREEMAP_BLK + nbitblock
ninodeblock == Ceil(NInodes, BLKINODES)
FirstData == os_firstinob + ninodeblock
MAXFILEBLKS == NDIRECT + NINDIRECT + NINDIRECT * NINDIRECT
ROOT_INO == 1
Slots == 1 .. NCACHE

\* A block seen as each member of its union; one is in use at a time.
NoInode == [oi_size |-> 0, oi_ftype |-> "reg", oi_nlink |-> 0, oi_symlink |-> <<>>,
            oi_direct |-> [i \in 0 .. NDIRECT - 1 |-> 0], oi_indirect |-> 0, oi_indirect2 |-> 0]
NoEntry == [od_ino |-> 0, od_name |-> 0]
ZeroBlock ==
    [u |-> [i \in 0 .. NINDIRECT - 1 |-> 0],
     bits |-> {},
     ino |-> [i \in 0 .. BLKINODES - 1 |-> NoInode],
     od |-> [i \in 0 .. BLKENTRIES - 1 |-> NoEntry],
     super |-> <<>>]

-----------------------------------------------------------------------------
(* The cache.  The operators take the memory and give the memory after the  *)
(* call; at is the slot of the block that a call returns.  err is why       *)
(* abort was called, after which nothing happens.  Calls that follow one    *)
(* another are local operators, each of the memory that the one before it   *)
(* leaves.                                                                  *)

Abort(mm, why) == [mm EXCEPT !.err = why]

flushb(mm, s) == [mm EXCEPT !.disk[mm.cache[s].bno] = mm.cache[s].u]

\* Seeded fault: a block that is in use may be replaced.
BadIdle(mm) == Slots

\* The slots that may be replaced.
Idle(mm) == {s \in Slots : mm.cache[s].busy = 0}

LeastUsed(mm, S) ==
    CHOOSE s \in S : \A r \in S :
        mm.cache[s].used < mm.cache[r].used \/ (mm.cache[s].used = mm.cache[r].used /\ s <= r)

\* Block bno takes the place of the one in slot s, which is written back.
Replaced(mm, s, bno, type) ==
    LET Read(flushed) ==
            [flushed EXCEPT !.cache[s].bno = bno, !.cache[s].busy = 0, !.cache[s].type = type,
                            !.cache[s].u = flushed.disk[bno]]
    IN  Read(IF mm.cache[s].used > 0 THEN flushb(mm, s) ELSE mm)

\* The block in slot s is handed out.
HandedOut(mm, s, clr, type) ==
    IF mm.cache[s].type # type /\ mm.cache[s].busy > 0 THEN Abort(mm, "assertion")
    ELSE [mm EXCEPT !.cache[s].u = IF clr THEN ZeroBlock ELSE @,
                    !.cache[s].used = mm.t + 1, !.t = @ + 1,
                    !.cache[s].busy = @ + 1, !.cache[s].type = type, !.at = s]

getblk(mm, bno, clr, type) ==
    LET hits == {s \in Slots : mm.cache[s].bno = bno}
        Load(s) == HandedOut(Replaced(mm, s, bno, type), s, clr, type)
    IN  IF mm.err # "none" THEN mm
        ELSE IF bno >= NBlocks THEN Abort(mm, "end of disk")
        ELSE IF hits # {} THEN HandedOut(mm, LeastUsed(mm, hits), clr, type)
        ELSE IF Idle(mm) = {} THEN Abort(mm, "cache full")
        ELSE Load(LeastUsed(mm, Idle(mm)))

putblk(mm, s) == [mm EXCEPT !.cache[s].busy = @ - 1]

\* The next block that no one uses yet.
NewBlock(mm, type) == getblk([mm EXCEPT !.nextb = @ + 1], mm.nextb, TRUE, type)

\* A pointer to an inode is a slot and an index in its block.
Inode(mm, ip) == mm.cache[ip.slot].u.ino[ip.i]
WithInode(mm, ip, inode) == [mm EXCEPT !.cache[ip.slot].u.ino[ip.i] = inode]
SlotWord(mm, s, i) == mm.cache[s].u.u[i]

-----------------------------------------------------------------------------
(* Files and directories. *)

\* The block of pointers with number bno, a new one if that is 0.
PointerBlock(mm, bno) ==
    getblk(IF bno = 0 THEN [mm EXCEPT !.nextb = @ + 1] ELSE mm,
           IF bno = 0 THEN mm.nextb ELSE bno, bno = 0, "bits")

storeblk(mm, ip, bno, nblk) ==
    LET inode == Inode(mm, ip)
        off == nblk - NDIRECT - NINDIRECT
        InIndirect(m1) ==
            putblk([WithInode(m1, ip, [inode EXCEPT !.oi_indirect = m1.cache[m1.at].bno])
                      EXCEPT !.cache[m1.at].u.u[nblk - NDIRECT] = bno], m1.at)
        InEntry(m2, bindir2) ==
            putblk(putblk([m2 EXCEPT
                !.cache[bindir2].u.u[off \div NINDIRECT] = m2.cache[m2.at].bno,
                !.cache[m2.at].u.u[off % NINDIRECT] = bno], m2.at), bindir2)
        InIndirect2(m1) ==
            InEntry(PointerBlock(
                        WithInode(m1, ip, [inode EXCEPT !.oi_indirect2 = m1.cache[m1.at].bno]),
                        SlotWord(m1, m1.at, off \div NINDIRECT)),
                    m1.at)
    IN  IF nblk < NDIRECT THEN WithInode(mm, ip, [inode EXCEPT !.oi_direct[nblk] = bno])
        ELSE IF nblk < NDIRECT + NINDIRECT THEN InIndirect(PointerBlock(mm, inode.oi_indirect))
        ELSE IF nblk < MAXFILEBLKS THEN InIndirect2(PointerBlock(mm, inode.oi_indirect2))
        ELSE Abort(mm, "file too large")

\* The inode is number nextinode - 1 afterwards.
allocinode(mm) ==
    IF mm.nextinode = NInodes THEN Abort(mm, "inodes")
    ELSE getblk([mm EXCEPT !.nextinode = @ + 1],
                os_firstinob + mm.nextinode \div BLKINODES, FALSE, "inodes")

InodePtr(s, ino) == [slot |-> s, i |-> ino % BLKINODES]

\* The last block, number nblk, of a directory that has one.
LastDirBlock(mm, ip, nblk) ==
    LET inode == Inode(mm, ip)
        off == nblk - NDIRECT - NINDIRECT
        ByPointer(m1, i) == putblk(getblk(m1, SlotWord(m1, m1.at, i), FALSE, "dir"), m1.at)
        ByEntry(m1) ==
            putblk(ByPointer(getblk(m1, SlotWord(m1, m1.at, off \div NINDIRECT), FALSE, "bits"),
                             off % NINDIRECT), m1.at)
    IN  IF nblk < NDIRECT THEN getblk(mm, inode.oi_direct[nblk], FALSE, "dir")
        ELSE IF nblk < NDIRECT + NINDIRECT
        THEN ByPointer(getblk(mm, inode.oi_indirect, FALSE, "bits"), nblk - NDIRECT)
        ELSE ByEntry(getblk(mm, inode.oi_indirect2, FALSE, "bits"))

FreeEntries(mm, s) == {i \in 0 .. BLKENTRIES - 1 : mm.cache[s].u.od[i].od_ino = 0}

\* The directory's block is in slot at, the entry in it is number od.  Without
\* an entry the callers follow a null pointer.
allocdirentry(mm, ip, name) ==
    LET nblk == Ceil(Inode(mm, ip).oi_size, NINDIRECT) - 1
        Named(r, s, i) == [r EXCEPT !.cache[s].u.od[i].od_name = name, !.at = s, !.od = i]
        Larger(r) == WithInode(r, ip, [Inode(r, ip) EXCEPT !.oi_size = @ + NINDIRECT])
        InNew(r) == Named(Larger(storeblk(r, ip, r.cache[r.at].bno, nblk + 1)), r.at, 0)
        InLast(r, free) ==
            IF r.err # "none" THEN r
            ELSE IF free # {} THEN Named(r, r.at, CHOOSE i \in free : \A j \in free : i <= j)
            ELSE InNew(NewBlock(putblk(r, r.at), "dir"))
        Find(r) == InLast(r, FreeEntries(r, r.at))
    IN  IF name \in LongNames THEN Abort(mm, "crash")
        ELSE IF nblk < 0 THEN InNew(NewBlock(mm, "dir"))
        ELSE Find(LastDirBlock(mm, ip, nblk))

SetEntry(mm, s, od, ino) == [mm EXCEPT !.cache[s].u.od[od].od_ino = ino]

-----------------------------------------------------------------------------
(* Hard links.  A file's digest stands for its contents. *)

\* The newest match; digest is <<>> where the code has a null pointer or zeros.
get_hardlink(mm, host_ino, digest) ==
    LET found == {k \in 1 .. Len(mm.hardlinks) :
                    \/ host_ino # 0 /\ mm.hardlinks[k].host_ino = host_ino
                    \/ link_contents /\ digest # <<>> /\ mm.hardlinks[k].digest = digest}
    IN  IF found = {} THEN 0
        ELSE mm.hardlinks[CHOOSE k \in found : \A l \in found : l <= k].osp_ino

add_hardlink(mm, host_ino, osp_ino, digest) ==
    [mm EXCEPT !.hardlinks = Append(@, [host_ino |-> host_ino, osp_ino |-> osp_ino,
                                        digest |-> IF link_contents THEN digest ELSE <<>>])]

\* Entry od of block dirb becomes one more name of inode ino.
LinkedTo(mm, dirb, od, ino) ==
    LET Counted(r, ip) == WithInode(r, ip, [Inode(r, ip) EXCEPT !.oi_nlink = @ + 1])
        Named(r) == Counted(r, InodePtr(r.at, ino))
    IN  Named(getblk(SetEntry(mm, dirb, od, ino), os_firstinob + ino \div BLKINODES, FALSE, "inodes"))

\* It becomes the name of a new inode of type ftype, and with link the inode
\* is remembered.
NewInode(mm, dirb, od, ftype, link, host_ino, digest) ==
    LET Filled(r, ip) == WithInode(r, ip, [Inode(r, ip) EXCEPT !.oi_nlink = 1, !.oi_ftype = ftype])
        Named(r, ino) == SetEntry(Filled(r, InodePtr(r.at, ino)), dirb, od, ino)
        Known(r) == IF link THEN add_hardlink(r, host_ino, r.nextinode - 1, digest) ELSE r
        Allocated(r) == Known(Named(r, r.nextinode - 1))
    IN  Allocated(allocinode(mm))

addsymlink(mm, ip, name, text, host_ino) ==
    LET Filled(r, sp) ==
            WithInode(r, sp, [Inode(r, sp) EXCEPT !.oi_symlink = text, !.oi_size = Len(text)])
        Done(r, dirb) == putblk(putblk(r, dirb), r.at)
        Fill(r) == Filled(r, InodePtr(r.at, r.nextinode - 1))
        Link(r, hard) ==
            Done(IF hard # 0 THEN LinkedTo(r, r.at, r.od, hard)
                 ELSE Fill(NewInode(r, r.at, r.od, "symlink", host_ino # 0, host_ino, <<>>)),
                 r.at)
        Find(r) == Link(r, IF host_ino # 0 THEN get_hardlink(r, host_ino, <<>>) ELSE 0)
    IN  Find(allocdirentry(mm, ip, name))

-----------------------------------------------------------------------------
(* The program. *)

\* A step that leads to memory mm goes on at where, unless it called abort.
Continue(mm, where) ==
    IF mm.err = "none" THEN m' = mm /\ pc' = where
    ELSE m' = Abort(m, mm.err) /\ pc' = "aborted"

NoFile == [ip |-> InodePtr(1, 0), dirb |-> 0, nblk |-> 0]

Init ==
    /\ host \in Hosts /\ links \in LinkLists
    /\ recursive \in BOOLEAN /\ link_contents \in BOOLEAN
    /\ ~ recursive => \A i \in 1 .. Len(host) : host[i].kind = "file"
    /\ m = [cache |-> [s \in Slots |-> [bno |-> 0, type |-> "super", busy |-> 0, used |-> 0,
                                        u |-> ZeroBlock]],
            disk |-> [b \in 0 .. NBlocks - 1 |-> ZeroBlock],
            nextb |-> 0, nextinode |-> 0, t |-> 1, hardlinks |-> <<>>,
            at |-> 1, od |-> 0, err |-> "none"]
    /\ pc = "opendisk" /\ at = 1 /\ stack = <<>> /\ file = NoFile

\* The bitmap blocks with every bit set, the inode blocks empty.
Opened(mm) ==
    LET SetBits(a, b) ==
            LET g == getblk(a, b, FALSE, "bits")
            IN  putblk([g EXCEPT !.cache[g.at].u.bits = 0 .. BLKBITSIZE - 1], g.at)
        Cleared(a, b) == LET g == getblk(a, b, TRUE, "inodes") IN putblk(g, g.at)
        bitmap == FoldLeft(SetBits, mm, [i \in 1 .. nbitblock |-> FREEMAP_BLK + i - 1])
        inodes == FoldLeft(Cleared, bitmap, [i \in 1 .. ninodeblock |-> os_firstinob + i - 1])
    IN  [inodes EXCEPT !.nextb = FirstData, !.nextinode = 0]

\* opendisk, and the first inodes; the block with the root's stays in use.
opendisk ==
    LET Typed(r, ip, ftype) ==
            WithInode(r, ip, [Inode(r, ip) EXCEPT !.oi_nlink = 1, !.oi_ftype = ftype])
        Zero(r) == putblk(Typed(r, InodePtr(r.at, 0), "reg"), r.at)
    IN  /\ pc = "opendisk"
        /\ \E m1 \in {allocinode(Zero(allocinode(Opened(m))))} :
              /\ Continue(Typed(m1, InodePtr(m1.at, ROOT_INO), "dir"), "walk")
              /\ stack' = <<[ip |-> InodePtr(m1.at, ROOT_INO), dirb |-> 0]>>
        /\ UNCHANGED <<args, at, file>>

\* The directory that is being written.
dirino == Last(stack).ip

\* The next entry of that directory, if it has one.
Meets(kind) ==
    /\ pc = "walk" /\ at <= Len(host)
    /\ host[at].depth = Len(stack) - 1 /\ host[at].kind = kind

host_ino == IF recursive /\ host[at].host \in Linked THEN host[at].host ELSE 0
Digest == IF link_contents THEN <<HostData[host[at].host]>> ELSE <<>>

\* writefile up to its loop, its entry in the directory being found: for a file
\* that cannot be read when its digest is taken; for one more name of an inode
\* that is there already; and for a new file.
NotRead(m1) ==
    /\ link_contents /\ host[at].host \in Unreadable
    /\ Continue(m1, "walk") /\ at' = at + 1
    /\ UNCHANGED file
OldInode(m1, hard) ==
    LET Done(m2) == putblk(putblk(m2, m1.at), m2.at)
    IN  /\ ~ (link_contents /\ host[at].host \in Unreadable) /\ hard # 0
        /\ Continue(Done(LinkedTo(m1, m1.at, m1.od, hard)), "walk") /\ at' = at + 1
        /\ UNCHANGED file
NewFile(m1, hard) ==
    /\ ~ (link_contents /\ host[at].host \in Unreadable) /\ hard = 0
    /\ \E m2 \in {NewInode(m1, m1.at, m1.od, "reg", host_ino # 0 \/ link_contents, host_ino, Digest)} :
          /\ Continue(m2, "copy")
          /\ file' = [ip |-> InodePtr(m2.at, m2.nextinode - 1), dirb |-> m1.at, nblk |-> 0]
    /\ UNCHANGED at

writefile ==
    /\ Meets("file")
    /\ \E m1 \in {allocdirentry(m, dirino, host[at].name)} :
       \E hard \in {IF host_ino # 0 \/ link_contents THEN get_hardlink(m1, host_ino, Digest) ELSE 0} :
          NotRead(m1) \/ OldInode(m1, hard) \/ NewFile(m1, hard)
    /\ UNCHANGED <<args, stack>>

\* The words that one call of readn gets.
ReadWords ==
    LET words == HostData[host[at].host]
        upto == (file.nblk + 1) * NINDIRECT
    IN  SubSeq(words, file.nblk * NINDIRECT + 1, IF Len(words) < upto THEN Len(words) ELSE upto)

\* Seeded fault: the directory's block stays in use.
BadClosed(mm, n) ==
    LET m1 == WithInode(mm, file.ip, [Inode(mm, file.ip) EXCEPT !.oi_size = file.nblk * NINDIRECT + n])
    IN  putblk(m1, file.ip.slot)

\* The end of writefile, n words being in the last block.
Closed(mm, n) ==
    LET m1 == WithInode(mm, file.ip, [Inode(mm, file.ip) EXCEPT !.oi_size = file.nblk * NINDIRECT + n])
    IN  putblk(putblk(m1, file.dirb), file.ip.slot)

\* One iteration of writefile's loop.  The block is taken from nextb before
\* it is known whether there is anything to put into it.
CopyBlock ==
    LET n == Len(ReadWords)
        Filled(m1) ==
            [m1 EXCEPT !.cache[m1.at].u.u = [i \in DOMAIN @ |-> IF i < n THEN ReadWords[i + 1] ELSE 0],
                       !.nextb = @ + 1]
        Stored(m1) == putblk(storeblk(Filled(m1), file.ip, m.nextb, file.nblk), m1.at)
        readable == host[at].host \notin Unreadable
    IN  /\ pc = "copy"
        /\ \E m1 \in {getblk(m, m.nextb, TRUE, "file")} :
             \/ /\ ~ readable
                /\ Continue(Abort(m1, IF m1.err = "none" THEN "read" ELSE m1.err), "aborted")
                /\ UNCHANGED <<at, file>>
             \/ /\ readable /\ n < NINDIRECT
                /\ Continue(Closed(IF n = 0 THEN putblk(m1, m1.at) ELSE Stored(m1), n), "walk")
                /\ at' = at + 1 /\ file' = NoFile
             \/ /\ readable /\ n = NINDIRECT
                /\ Continue(Stored(m1), "copy")
                /\ file' = [file EXCEPT !.nblk = @ + 1]
                /\ UNCHANGED at
        /\ UNCHANGED <<args, stack>>

writesymlink ==
    /\ Meets("symlink")
    /\ Continue(addsymlink(m, dirino, host[at].name, HostData[host[at].host], host_ino), "walk")
    /\ at' = at + 1
    /\ UNCHANGED <<args, stack, file>>

\* writedirectory up to its loop.
writedirectory ==
    /\ Meets("dir")
    /\ \E m1 \in {allocdirentry(m, dirino, host[at].name)} :
       \E m2 \in {NewInode(m1, m1.at, m1.od, "dir", FALSE, 0, <<>>)} :
          /\ Continue(WithInode(m2, dirino, [Inode(m2, dirino) EXCEPT !.oi_nlink = @ + 1]), "walk")
          /\ stack' = Append(stack, [ip |-> InodePtr(m2.at, m2.nextinode - 1), dirb |-> m1.at])
    /\ at' = at + 1
    /\ UNCHANGED <<args, file>>

SkipEntry ==
    /\ Meets("other")
    /\ at' = at + 1
    /\ UNCHANGED <<args, m, pc, stack, file>>

\* The end of writedirectory: the root's blocks stay in use.
LeaveDirectory ==
    /\ pc = "walk"
    /\ at <= Len(host) => host[at].depth < Len(stack) - 1
    /\ IF Len(stack) > 1
       THEN /\ Continue(putblk(putblk(m, Last(stack).dirb), dirino.slot), "walk")
            /\ stack' = Front(stack)
       ELSE /\ pc' = "links"
            /\ UNCHANGED <<m, stack>>
    /\ UNCHANGED <<args, at, file>>

\* A link that was given with -l.
AddLink ==
    LET link == links[at - Len(host)]
    IN  /\ pc = "links" /\ at <= Len(host) + Len(links)
        /\ Continue(addsymlink(m, dirino, link.name, HostData[link.host], 0), "links")
        /\ at' = at + 1
        /\ UNCHANGED <<args, stack, file>>

\* Seeded fault: the block after the last that is used counts as used.
BadUsedBlocks(mm) == [i \in 1 .. mm.nextb + 1 |-> i - 1]

\* The blocks whose bits are cleared because they are in use.
UsedBlocks(mm) == [i \in 1 .. mm.nextb |-> i - 1]

finishfs(mm) ==
    LET Clear(g, bits) == putblk([g EXCEPT !.cache[g.at].u.bits = @ \ bits], g.at)
        ClearBit(a, i) ==
            Clear(getblk(a, FREEMAP_BLK + i \div BLKBITSIZE, FALSE, "bits"), {i % BLKBITSIZE})
        ClearRest(a) ==
            IF NBlocks = nbitblock * BLKBITSIZE THEN a
            ELSE Clear(getblk(a, FREEMAP_BLK + nbitblock - 1, FALSE, "bits"),
                       NBlocks % BLKBITSIZE .. BLKBITSIZE - 1)
        Super(g) ==
            putblk([g EXCEPT !.cache[g.at].u.super = <<NBlocks, NInodes, os_firstinob>>], g.at)
    IN  Super(getblk(ClearRest(FoldLeft(ClearBit, mm, UsedBlocks(mm))), 1, TRUE, "super"))

flushdisk(mm) ==
    FoldLeft(LAMBDA a, s : IF a.cache[s].used > 0 THEN flushb(a, s) ELSE a,
             mm, [s \in Slots |-> s])

\* The end of main.
Finish ==
    /\ pc = "links" /\ at > Len(host) + Len(links)
    /\ Continue(flushdisk(finishfs(putblk(m, dirino.slot))), "exit")
    /\ UNCHANGED <<args, at, stack, file>>

Next ==
    \/ opendisk
    \/ writefile \/ CopyBlock
    \/ writesymlink \/ writedirectory \/ SkipEntry \/ LeaveDirectory
    \/ AddLink \/ Finish

Spec == Init /\ [][Next]_vars

-----------------------------------------------------------------------------
(* Properties.  The image is what is on the disk when the program exits, as *)
(* the kernel reads it.                                                     *)

ImageInode(i) == m.disk[os_firstinob + i \div BLKINODES].ino[i % BLKINODES]
ImageFree ==
    UNION {{k * BLKBITSIZE + i : i \in m.disk[FREEMAP_BLK + k].bits} : k \in 0 .. nbitblock - 1}

\* The kernel's file system on the image; the text of a link is in its inode.
FS == INSTANCE OspfsBlocks WITH
    Files <- 1 .. NInodes - 1, Procs <- {}, Stamp <- [i \in 1 .. NInodes - 1 |-> 1],
    SCAN <- NBlocks, COUNTS <- NBlocks, Sizes <- {}, Seeks <- {}, ReadSeeks <- {}, Faults <- {},
    freemap <- ImageFree,
    disk <- [b \in 0 .. NBlocks - 1 |-> m.disk[b].u],
    oi_size <- [i \in 1 .. NInodes - 1 |->
                  IF ImageInode(i).oi_ftype = "symlink" THEN 0 ELSE ImageInode(i).oi_size],
    oi_direct <- [i \in 1 .. NInodes - 1 |-> ImageInode(i).oi_direct],
    oi_indirect <- [i \in 1 .. NInodes - 1 |-> ImageInode(i).oi_indirect],
    oi_indirect2 <- [i \in 1 .. NInodes - 1 |-> ImageInode(i).oi_indirect2],
    pc <- <<>>, job <- <<>>

\* The kernel finds every allocated block of the image in one place, every
\* other data block free, and nothing else free; the superblock is there.
SpaceExact ==
    pc = "exit" =>
        /\ FS!BlocksExact
        /\ ImageFree \subseteq FS!DataBlocks
        /\ m.disk[1].super = <<NBlocks, NInodes, os_firstinob>>

\* What the image should hold: the entries of the tree, and the links.
Tree == host \o [k \in 1 .. Len(links) |->
                   [kind |-> "symlink", name |-> links[k].name, host |-> links[k].host, depth |-> 0]]
Entries == 1 .. Len(Tree)
Skipped(i) == Tree[i].kind = "other" \/ (link_contents /\ Tree[i].host \in Unreadable)
Copied == {i \in Entries : ~ Skipped(i)}
Parent(i) ==
    IF Tree[i].depth = 0 THEN 0
    ELSE CHOOSE j \in 1 .. i - 1 : /\ Tree[j].depth = Tree[i].depth - 1
                                  /\ \A k \in j + 1 .. i - 1 : Tree[k].depth >= Tree[i].depth
Children(i) == {j \in Copied : Parent(j) = i}
Subdirs(i) == {j \in Children(i) : Tree[j].kind = "dir"}

\* Two entries are names of one file.
SameFile(i, j) ==
    \/ i = j
    \/ /\ Tree[i].kind # "dir" /\ Tree[i].kind = Tree[j].kind
       /\ \/ recursive /\ {i, j} \subseteq 1 .. Len(host)
             /\ Tree[i].host = Tree[j].host /\ Tree[i].host \in Linked
          \/ link_contents /\ Tree[i].kind = "file" /\ HostData[Tree[i].host] = HostData[Tree[j].host]

\* The places in the blocks of a directory of the image that are in use.
UsedPlaces(ino) ==
    {<<b, e>> \in FS!FileBlocks(ino) \X (0 .. BLKENTRIES - 1) : m.disk[b].od[e].od_ino # 0}
Lookup(ino, name) ==
    LET places == {p \in UsedPlaces(ino) : m.disk[p[1]].od[p[2]].od_name = name}
    IN  IF places = {} THEN 0 ELSE LET p == CHOOSE p \in places : TRUE IN m.disk[p[1]].od[p[2]].od_ino

\* The inode that the path of each entry leads to, 0 being the root's entry.
ImageOf[i \in {0} \cup Entries] ==
    IF i = 0 THEN ROOT_INO
    ELSE LET dir == ImageOf[Parent(i)]
         IN  IF i \notin Copied \/ dir = 0 THEN 0 ELSE Lookup(dir, Tree[i].name)

HoldsEntry(i) ==
    LET ino == ImageOf[i]
        inode == ImageInode(ino)
    IN  /\ ino # 0
        /\ CASE Tree[i].kind = "file" ->
                  /\ inode.oi_ftype = "reg" /\ FS!Content(ino) = HostData[Tree[i].host]
                  /\ inode.oi_nlink = Cardinality({j \in Copied : SameFile(i, j)})
             [] Tree[i].kind = "symlink" ->
                  /\ inode.oi_ftype = "symlink" /\ inode.oi_symlink = HostData[Tree[i].host]
                  /\ inode.oi_nlink = Cardinality({j \in Copied : SameFile(i, j)})
             [] Tree[i].kind = "dir" -> inode.oi_ftype = "dir"

\* The image holds the tree: every path that is copied leads to an inode with
\* the right contents and number of links, files are shared exactly where they
\* should be, and directories have no other entries.  It is on the disk, not
\* just in the cache, however the cache's slots were reused in between.
ImageRight ==
    pc = "exit" =>
        /\ \A i \in Copied : HoldsEntry(i)
        /\ \A i, j \in Copied : ImageOf[i] = ImageOf[j] <=> SameFile(i, j)
        /\ \A d \in {0} \cup {i \in Copied : Tree[i].kind = "dir"} :
              /\ Cardinality(UsedPlaces(ImageOf[d])) = Cardinality(Children(d))
              /\ ImageInode(ImageOf[d]).oi_nlink = 1 + Cardinality(Subdirs(d))

\* What the tree needs.
WithPointers(n) ==
    n + (IF n > NDIRECT THEN 1 ELSE 0)
      + (IF n > NDIRECT + NINDIRECT THEN 1 + Ceil(n - NDIRECT - NINDIRECT, NINDIRECT) ELSE 0)
Originals == {i \in Copied : \A j \in Copied : SameFile(i, j) => i <= j}
BlocksOf(i) ==
    IF i = 0 \/ Tree[i].kind = "dir" THEN WithPointers(Ceil(Cardinality(Children(i)), BLKENTRIES))
    ELSE IF Tree[i].kind = "file" THEN WithPointers(Ceil(Len(HostData[Tree[i].host]), NINDIRECT))
    ELSE 0
Needed == MapThenSumSet(BlocksOf, Originals \cup {0})
Nesting == Max({0} \cup {Tree[i].depth : i \in Entries})
Unread == {i \in Entries : Tree[i].kind = "file" /\ Tree[i].host \in Unreadable}

\* The program makes an image unless there is a reason in what it was given:
\* it leaves no block in use that it is done with, so the cache is only too
\* small for deeply nested directories (or files that could not be read),
\* and blocks and inodes only run out if the tree needs all of them.
AbortJustified ==
    /\ m.err # "assertion"
    /\ m.err = "cache full" => 2 * Nesting + 6 + Cardinality(Unread) > NCACHE
    /\ m.err = "end of disk" => FirstData + Needed >= NBlocks
    /\ m.err = "inodes" => 2 + Cardinality(Originals) > NInodes
    /\ m.err = "file too large" => \E i \in {0} \cup Copied : BlocksOf(i) > WithPointers(MAXFILEBLKS)
    /\ m.err = "read" => Unread # {}
    /\ m.err = "crash" => \E i \in Entries : Tree[i].name \in LongNames
=============================================================================
