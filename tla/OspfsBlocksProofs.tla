-------------------------- MODULE OspfsBlocksProofs --------------------------
(***************************************************************************)
(* What is proved of the blocks of OSPFS, for every number of files,       *)
(* processes and blocks, every block size, and every order of writes,      *)
(* truncations and reads, running out of blocks included.  The files do    *)
(* not use their doubly indirect block, and no process sleeps while it     *)
(* copies: the properties fail for doubly indirect blocks on a full disk,  *)
(* and for a write that sleeps while its file is truncated.                *)
(***************************************************************************)
EXTENDS OspfsBlocks, FiniteSetTheorems, SequenceTheorems, WellOrder

\* The sizes asked for need no doubly indirect block.
SmallFiles == \A n \in Sizes : ospfs_size2nblocks(n) <= NDIRECT + NINDIRECT

\* The pages of the users are resident.
NoSleep == "sleep" \notin Faults

-----------------------------------------------------------------------------
(* The structure of the files. *)

\* A pointer of a file: to its data block k, or, as -1, to its indirect block.
Places(f) == (0 .. Nblocks(f) - 1) \cup (IF Nblocks(f) > NDIRECT THEN {-1} ELSE {})
Pointer(f, k) == IF k = -1 THEN oi_indirect[f] ELSE BlockAt(f, k)

FilesShape ==
    /\ freemap \subseteq DataBlocks
    /\ disk \in [Blocks -> [WordIndex -> Nat]]
    /\ oi_size \in [Files -> Nat]
    /\ oi_direct \in [Files -> [0 .. NDIRECT - 1 -> Nat]]
    /\ oi_indirect \in [Files -> Nat] /\ oi_indirect2 \in [Files -> Nat]
    /\ \A f \in Files : /\ Nblocks(f) <= NDIRECT + NINDIRECT
                        /\ oi_indirect2[f] = 0
                        /\ oi_indirect[f] = 0 <=> Nblocks(f) <= NDIRECT

\* Every pointer is to an allocated block that allocate_block can find ...
PointersIn ==
    \A f \in Files : \A k \in Places(f) :
        Pointer(f, k) \in DataBlocks /\ Pointer(f, k) \notin freemap /\ Pointer(f, k) < SCAN

\* ... no two are to the same ...
PointersApart ==
    \A f, g \in Files : \A k \in Places(f), l \in Places(g) :
        Pointer(f, k) = Pointer(g, l) => f = g /\ k = l

\* ... and no allocated block is without one.
PointersAll ==
    \A b \in DataBlocks \ freemap : \E f \in Files : \E k \in Places(f) : Pointer(f, k) = b

FilesInv == FilesShape /\ PointersIn /\ PointersApart /\ PointersAll

-----------------------------------------------------------------------------
(* Sizes in words and in blocks. *)

LEMMA Ranges ==
    /\ NDIRECT \in Nat /\ NDIRECT > 0 /\ NINDIRECT \in Nat /\ NINDIRECT > 0
    /\ FirstData \in Nat /\ FirstData > 0 /\ SCAN \in Nat /\ NBlocks \in Nat /\ SCAN < NBlocks
    /\ DataBlocks \subseteq Nat /\ 0 \notin DataBlocks /\ DataBlocks \subseteq Blocks
    /\ \A f \in Files : Stamp[f] \in Nat
    /\ MAXFILEBLKS \in Nat /\ NDIRECT + NINDIRECT < MAXFILEBLKS
  <1>1. /\ NDIRECT \in Nat /\ NDIRECT > 0 /\ NINDIRECT \in Nat /\ NINDIRECT > 0
        /\ FirstData \in Nat /\ FirstData > 0 /\ SCAN \in Nat /\ NBlocks \in Nat /\ SCAN < NBlocks
        /\ \A f \in Files : Stamp[f] \in Nat
    BY BlocksAssumption
  <1>2. NINDIRECT * NINDIRECT \in Nat /\ NINDIRECT * NINDIRECT > 0
    BY <1>1
  <1> QED  BY <1>1, <1>2 DEF DataBlocks, Blocks, MAXFILEBLKS

\* The number of blocks of a size.
LEMMA SizeInBlocks ==
    ASSUME NEW size \in Nat
    PROVE  /\ ospfs_size2nblocks(size) \in Nat
           /\ size <= ospfs_size2nblocks(size) * NINDIRECT
           /\ ospfs_size2nblocks(size) > 0 => (ospfs_size2nblocks(size) - 1) * NINDIRECT < size
  <1> DEFINE n == ospfs_size2nblocks(size)
             r == (size + NINDIRECT - 1) % NINDIRECT
  <1>1. /\ n \in Nat /\ r \in Nat /\ r < NINDIRECT
        /\ size + NINDIRECT - 1 = n * NINDIRECT + r
    BY Ranges DEF ospfs_size2nblocks
  <1> HIDE DEF n, r
  <1>2. size <= n * NINDIRECT /\ (n - 1) * NINDIRECT < size
    BY <1>1, Ranges
  <1> QED  BY <1>1, <1>2 DEF n

LEMMA WholeBlocks ==
    ASSUME NEW n \in Nat
    PROVE  n * NINDIRECT \in Nat /\ ospfs_size2nblocks(n * NINDIRECT) = n
  <1>1. n * NINDIRECT \in Nat
    BY Ranges
  <1>2. NINDIRECT - 1 \in 0 .. NINDIRECT - 1 /\ NINDIRECT - 1 \in Nat
    BY Ranges
  <1>3. ASSUME NEW r \in 0 .. NINDIRECT - 1 PROVE (n * NINDIRECT + r) \div NINDIRECT = n
    BY Ranges
  <1>4. (n * NINDIRECT + (NINDIRECT - 1)) \div NINDIRECT = n
    BY <1>2, <1>3
  <1>5. n * NINDIRECT + NINDIRECT - 1 = n * NINDIRECT + (NINDIRECT - 1)
    BY <1>1, Ranges
  <1> QED  BY <1>1, <1>4, <1>5 DEF ospfs_size2nblocks

\* A word inside a file is a word of one of its blocks.
LEMMA WordInBlock ==
    ASSUME NEW size \in Nat, NEW at \in Nat
    PROVE  /\ at \div NINDIRECT \in Nat /\ at % NINDIRECT \in WordIndex
           /\ at = (at \div NINDIRECT) * NINDIRECT + (at % NINDIRECT)
           /\ at < size => at \div NINDIRECT < ospfs_size2nblocks(size)
           /\ at < ospfs_size2nblocks(size) * NINDIRECT =>
                at \div NINDIRECT < ospfs_size2nblocks(size)
  <1> DEFINE q == at \div NINDIRECT
             r == at % NINDIRECT
             n == ospfs_size2nblocks(size)
  <1>1. q \in Nat /\ r \in Nat /\ r < NINDIRECT /\ at = q * NINDIRECT + r
    BY Ranges
  <1>2. n \in Nat /\ size <= n * NINDIRECT
    BY SizeInBlocks
  <1> HIDE DEF q, r, n
  <1>3. ASSUME at < n * NINDIRECT PROVE q < n
    <2>1. ASSUME q >= n PROVE FALSE
      <3>1. q * NINDIRECT >= n * NINDIRECT
        BY <1>1, <1>2, <2>1, Ranges
      <3> QED  BY <1>1, <1>2, <1>3, <3>1, Ranges
    <2> QED  BY <1>1, <1>2, <2>1
  <1>4. at < size => at < n * NINDIRECT
    BY <1>2, Ranges
  <1> QED  BY <1>1, <1>3, <1>4, Ranges DEF WordIndex, q, r, n

LEMMA NblocksNat ==
    ASSUME FilesShape, NEW f \in Files
    PROVE  Nblocks(f) \in Nat
  BY SizeInBlocks DEF FilesShape, Nblocks

-----------------------------------------------------------------------------
(* Allocation. *)

LEMMA SmallestIn ==
    ASSUME NEW S, S \subseteq Nat, S # {}
    PROVE  Smallest(S) \in S
  <1>1. \E x \in S : \A y \in S : x <= y
    BY LeastNatural
  <1> QED  BY <1>1 DEF Smallest

\* allocate_block gives a free block that is not behind the part of the bitmap
\* that it looks at.
LEMMA Allocated ==
    ASSUME NEW S, S \subseteq DataBlocks, allocate_block(S) # 0
    PROVE  allocate_block(S) \in S /\ allocate_block(S) < SCAN
  <1> DEFINE seen == S \cap (0 .. SCAN - 1)
  <1>1. seen # {} /\ allocate_block(S) = Smallest(seen)
    BY DEF allocate_block
  <1>2. seen \subseteq Nat
    BY Ranges
  <1>3. allocate_block(S) \in seen
    <2> HIDE DEF seen
    <2> QED  BY <1>1, <1>2, SmallestIn
  <1> QED  BY <1>3, Ranges

\* The blocks that add_block allocates.
LEMMA NewBlocks ==
    ASSUME FilesShape
    PROVE  /\ new # 0 => new \in freemap /\ new < SCAN
           /\ new # 0 /\ second # 0 => second \in freemap /\ second < SCAN /\ second # new
  <1>1. freemap \subseteq DataBlocks /\ freemap \ {new} \subseteq DataBlocks
    BY DEF FilesShape
  <1>2. new # 0 => new \in freemap /\ new < SCAN
    BY <1>1, Allocated DEF new
  <1>3. second # 0 => second \in freemap \ {new} /\ second < SCAN
    BY <1>1, Allocated DEF second
  <1> QED  BY <1>2, <1>3

-----------------------------------------------------------------------------
(* Steps that change the pointers of one file. *)

\* The pointers of a file are in its inode and in its indirect block.
LEMMA SamePlaces ==
    ASSUME FilesShape, NEW g \in Files,
           Nblocks(g)' = Nblocks(g),
           oi_direct'[g] = oi_direct[g], oi_indirect'[g] = oi_indirect[g],
           Nblocks(g) > NDIRECT => disk'[oi_indirect[g]] = disk[oi_indirect[g]]
    PROVE  /\ Places(g)' = Places(g)
           /\ \A k \in Places(g) : Pointer(g, k)' = Pointer(g, k)
  <1>1. Places(g)' = Places(g)
    BY DEF Places
  <1>2. ASSUME NEW k \in Places(g) PROVE Pointer(g, k)' = Pointer(g, k)
    <2>1. Nblocks(g) \in Nat /\ Nblocks(g) <= NDIRECT + NINDIRECT
      BY NblocksNat DEF FilesShape
    <2>2. k = -1 \/ k \in 0 .. Nblocks(g) - 1
      BY DEF Places
    <2>3. CASE k = -1
      BY <2>3 DEF Pointer
    <2>4. CASE k \in 0 .. Nblocks(g) - 1 /\ k < NDIRECT
      BY <2>4, <2>1 DEF Pointer, BlockAt
    <2>5. CASE k \in 0 .. Nblocks(g) - 1 /\ ~(k < NDIRECT)
      <3>1. k < NDIRECT + NINDIRECT /\ k # -1 /\ Nblocks(g) > NDIRECT
        BY <2>1, <2>5, Ranges
      <3> QED  BY <2>5, <3>1 DEF Pointer, BlockAt
    <2> QED  BY <2>2, <2>3, <2>4, <2>5
  <1> QED  BY <1>1, <1>2

LEMMA OneBlockOnePlace ==
    ASSUME PointersApart, NEW f \in Files, NEW g \in Files,
           NEW k \in Places(f), NEW l \in Places(g), Pointer(f, k) = Pointer(g, l)
    PROVE  f = g /\ k = l
  BY DEF PointersApart

\* File f gets pointers to the blocks of A, which were free.
LEMMA PointersAdded ==
    ASSUME FilesInv, FilesShape', NEW f \in Files, NEW A \in SUBSET freemap,
           freemap' = freemap \ A, \A b \in A : b < SCAN,
           \A g \in Files \ {f} : /\ Places(g)' = Places(g)
                                 /\ \A k \in Places(g) : Pointer(g, k)' = Pointer(g, k),
           \A k \in Places(f) : k \in Places(f)' /\ Pointer(f, k)' = Pointer(f, k),
           \A k \in Places(f)' : k \notin Places(f) => Pointer(f, k)' \in A,
           \A k, l \in Places(f)' :
                k \notin Places(f) /\ l \notin Places(f) /\ Pointer(f, k)' = Pointer(f, l)' => k = l,
           \A b \in A : \E k \in Places(f)' : Pointer(f, k)' = b
    PROVE  FilesInv'
  <1> USE DEF FilesInv
  <1>1. A \subseteq DataBlocks
    BY DEF FilesShape
  <1>2. PointersIn'
    <2> SUFFICES ASSUME NEW g \in Files, NEW k \in Places(g)'
                 PROVE  /\ Pointer(g, k)' \in DataBlocks
                        /\ Pointer(g, k)' \notin freemap'
                        /\ Pointer(g, k)' < SCAN
      BY DEF PointersIn
    <2>1. CASE k \in Places(g)
      BY <2>1 DEF PointersIn
    <2>2. CASE k \notin Places(g)
      BY <2>2, <1>1
    <2> QED  BY <2>1, <2>2
  <1>3. PointersApart'
    <2> SUFFICES ASSUME NEW g \in Files, NEW h \in Files,
                        NEW k \in Places(g)', NEW l \in Places(h)',
                        Pointer(g, k)' = Pointer(h, l)'
                 PROVE  g = h /\ k = l
      BY DEF PointersApart
    <2>1. CASE k \in Places(g) /\ l \in Places(h)
      <3>1. Pointer(g, k)' = Pointer(g, k) /\ Pointer(h, l)' = Pointer(h, l)
        BY <2>1
      <3>2. Pointer(g, k) = Pointer(h, l)
        BY <3>1
      <3>3. PointersApart
        OBVIOUS
      <3> QED  BY ONLY <2>1, <3>2, <3>3, OneBlockOnePlace
    <2>2. CASE k \in Places(g) /\ l \notin Places(h)
      <3>1. h = f /\ Pointer(h, l)' \in freemap /\ Pointer(g, k)' = Pointer(g, k)
        BY <2>2
      <3> QED  BY <2>2, <3>1 DEF PointersIn
    <2>3. CASE k \notin Places(g) /\ l \in Places(h)
      <3>1. g = f /\ Pointer(g, k)' \in freemap /\ Pointer(h, l)' = Pointer(h, l)
        BY <2>3
      <3> QED  BY <2>3, <3>1 DEF PointersIn
    <2>4. CASE k \notin Places(g) /\ l \notin Places(h)
      <3>1. g = f /\ h = f
        BY <2>4
      <3> QED  BY <2>4, <3>1
    <2> QED  BY <2>1, <2>2, <2>3, <2>4
  <1>4. PointersAll'
    <2> SUFFICES ASSUME NEW b \in DataBlocks \ freemap'
                 PROVE  \E g \in Files : \E k \in Places(g)' : Pointer(g, k)' = b
      BY DEF PointersAll
    <2>1. CASE b \in A
      BY <2>1
    <2>2. CASE b \notin freemap
      <3>1. PICK g \in Files : \E k \in Places(g) : Pointer(g, k) = b
        BY <2>2 DEF PointersAll
      <3>2. PICK k \in Places(g) : Pointer(g, k) = b
        BY <3>1
      <3>3. k \in Places(g)' /\ Pointer(g, k)' = b
        BY <3>2
      <3> QED  BY <3>3
    <2> QED  BY <2>1, <2>2
  <1> QED  BY <1>2, <1>3, <1>4

\* File f loses its pointers to the blocks of A, which become free.
LEMMA PointersRemoved ==
    ASSUME FilesInv, FilesShape', NEW f \in Files, NEW A,
           freemap' = freemap \cup A,
           \A g \in Files \ {f} : /\ Places(g)' = Places(g)
                                 /\ \A k \in Places(g) : Pointer(g, k)' = Pointer(g, k),
           \A k \in Places(f)' : k \in Places(f) /\ Pointer(f, k)' = Pointer(f, k),
           \A k \in Places(f) : k \notin Places(f)' => Pointer(f, k) \in A,
           \A b \in A : \E k \in Places(f) : k \notin Places(f)' /\ Pointer(f, k) = b
    PROVE  FilesInv'
  <1> USE DEF FilesInv
  <1>1. ASSUME NEW g \in Files, NEW k \in Places(g)'
        PROVE  k \in Places(g) /\ Pointer(g, k)' = Pointer(g, k) /\ Pointer(g, k) \notin A
    <2>1. k \in Places(g) /\ Pointer(g, k)' = Pointer(g, k)
      OBVIOUS
    <2>2. ASSUME Pointer(g, k) \in A PROVE FALSE
      <3>1. PICK l \in Places(f) : l \notin Places(f)' /\ Pointer(f, l) = Pointer(g, k)
        BY <2>2
      <3>2. f = g /\ l = k
        BY <2>1, <3>1 DEF PointersApart
      <3> QED  BY <3>1, <3>2
    <2> QED  BY <2>1, <2>2
  <1>2. PointersIn'
    BY <1>1 DEF PointersIn
  <1>3. PointersApart'
    BY <1>1 DEF PointersApart
  <1>4. PointersAll'
    <2> SUFFICES ASSUME NEW b \in DataBlocks \ freemap'
                 PROVE  \E g \in Files : \E k \in Places(g)' : Pointer(g, k)' = b
      BY DEF PointersAll
    <2>1. b \notin freemap /\ b \notin A
      OBVIOUS
    <2>2. PICK g \in Files : \E k \in Places(g) : Pointer(g, k) = b
      BY <2>1 DEF PointersAll
    <2>3. PICK k \in Places(g) : Pointer(g, k) = b
      BY <2>2
    <2>4. k \in Places(g)'
      BY <2>1, <2>3
    <2>5. Pointer(g, k)' = b
      BY <1>1, <2>3, <2>4
    <2> QED  BY <2>4, <2>5
  <1> QED  BY <1>2, <1>3, <1>4

\* No pointer changes.
LEMMA PointersSame ==
    ASSUME FilesInv, FilesShape', freemap' = freemap,
           \A g \in Files : /\ Places(g)' = Places(g)
                           /\ \A k \in Places(g) : Pointer(g, k)' = Pointer(g, k)
    PROVE  FilesInv'
  BY DEF FilesInv, PointersIn, PointersApart, PointersAll

-----------------------------------------------------------------------------
(* add_block. *)

\* The data blocks of file g stay where they are, with the words they have.
Kept(g) ==
    \A k \in 0 .. Nblocks(g) - 1 :
        BlockAt(g, k)' = BlockAt(g, k) /\ disk'[BlockAt(g, k)] = disk[BlockAt(g, k)]

\* The sizes of the other files stay as they are.
OnlySizeOf(f) == \A g \in Files \ {f} : oi_size'[g] = oi_size[g] /\ Nblocks(g)' = Nblocks(g)

LEMMA SizeIsSet ==
    ASSUME FilesShape, NEW f \in Files, NEW n \in Nat,
           oi_size' = [oi_size EXCEPT ![f] = n]
    PROVE  /\ oi_size' \in [Files -> Nat] /\ oi_size'[f] = n
           /\ Nblocks(f)' = ospfs_size2nblocks(n) /\ OnlySizeOf(f)
  BY DEF FilesShape, Nblocks, OnlySizeOf, ospfs_size2nblocks

LEMMA SizeInWholeBlocks ==
    ASSUME FilesShape, NEW f \in Files, NEW n \in Nat,
           oi_size' = [oi_size EXCEPT ![f] = n * NINDIRECT]
    PROVE  /\ oi_size' \in [Files -> Nat] /\ oi_size'[f] = n * NINDIRECT
           /\ Nblocks(f)' = n /\ OnlySizeOf(f)
  <1>1. n * NINDIRECT \in Nat /\ ospfs_size2nblocks(n * NINDIRECT) = n
    BY WholeBlocks
  <1>2. PICK m \in Nat : m = n * NINDIRECT
    BY <1>1
  <1> QED  BY <1>1, <1>2, SizeIsSet

\* What the places of a file say of its pointers.
LEMMA PlacesOf ==
    ASSUME FilesInv, NEW g \in Files
    PROVE  /\ Nblocks(g) \in Nat /\ Nblocks(g) <= NDIRECT + NINDIRECT
           /\ \A k \in 0 .. Nblocks(g) - 1 :
                /\ k \in Places(g) /\ k # -1 /\ Pointer(g, k) = BlockAt(g, k)
                /\ BlockAt(g, k) \in DataBlocks /\ BlockAt(g, k) \notin freemap
                /\ BlockAt(g, k) < SCAN
           /\ Nblocks(g) > NDIRECT =>
                /\ -1 \in Places(g) /\ Pointer(g, -1) = oi_indirect[g]
                /\ oi_indirect[g] \in DataBlocks /\ oi_indirect[g] \notin freemap
                /\ oi_indirect[g] < SCAN
  <1>1. Nblocks(g) \in Nat /\ Nblocks(g) <= NDIRECT + NINDIRECT
    BY NblocksNat DEF FilesInv, FilesShape
  <1>2. ASSUME NEW k \in 0 .. Nblocks(g) - 1
        PROVE  k \in Places(g) /\ k # -1 /\ Pointer(g, k) = BlockAt(g, k)
    BY <1>1 DEF Places, Pointer
  <1>3. Nblocks(g) > NDIRECT => -1 \in Places(g) /\ Pointer(g, -1) = oi_indirect[g]
    BY DEF Places, Pointer
  <1>4. \A k \in Places(g) :
            Pointer(g, k) \in DataBlocks /\ Pointer(g, k) \notin freemap /\ Pointer(g, k) < SCAN
    BY DEF FilesInv, PointersIn
  <1> QED  BY <1>1, <1>2, <1>3, <1>4

\* The indirect block of a file is no data block, and not that of another file.
LEMMA IndirectApart ==
    ASSUME FilesInv, NEW f \in Files, Nblocks(f) > NDIRECT, NEW g \in Files
    PROVE  /\ \A k \in 0 .. Nblocks(g) - 1 : BlockAt(g, k) # oi_indirect[f]
           /\ g # f /\ Nblocks(g) > NDIRECT => oi_indirect[g] # oi_indirect[f]
  <1>1. PointersApart /\ -1 \in Places(f) /\ Pointer(f, -1) = oi_indirect[f]
    BY PlacesOf DEF FilesInv
  <1>2. \A k \in 0 .. Nblocks(g) - 1 : k \in Places(g) /\ k # -1 /\ Pointer(g, k) = BlockAt(g, k)
    BY PlacesOf
  <1>3. ASSUME NEW k \in 0 .. Nblocks(g) - 1, BlockAt(g, k) = oi_indirect[f] PROVE FALSE
    <2>1. k \in Places(g) /\ k # -1 /\ Pointer(g, k) = Pointer(f, -1)
      BY <1>1, <1>2, <1>3
    <2> QED  BY ONLY <1>1, <2>1, f \in Files, g \in Files, OneBlockOnePlace
  <1>4. ASSUME g # f, Nblocks(g) > NDIRECT, oi_indirect[g] = oi_indirect[f] PROVE FALSE
    <2>1. -1 \in Places(g) /\ Pointer(g, -1) = Pointer(f, -1)
      BY <1>1, <1>4, PlacesOf
    <2> QED  BY ONLY <1>1, <1>4, <2>1, f \in Files, g \in Files, OneBlockOnePlace
  <1> QED  BY <1>3, <1>4

\* What a successful add_block does: the new block is behind the others, and
\* it is empty.
Added(f) ==
    /\ FilesInv'
    /\ oi_size'[f] = (Nblocks(f) + 1) * NINDIRECT
    /\ Nblocks(f)' = Nblocks(f) + 1
    /\ OnlySizeOf(f)
    /\ \A g \in Files : Kept(g)
    /\ \A k : k = Nblocks(f) => disk'[BlockAt(f, k)'] = ZeroBlock

LEMMA AddsDirect ==
    ASSUME FilesInv, NEW f \in Files, AddDirect(f)
    PROVE  Added(f)
  <1>0. PICK n \in Nat : n = Nblocks(f)
    BY PlacesOf
  <1>1. FilesShape /\ n = Nblocks(f) /\ n \in Nat /\ n < NDIRECT /\ n + 1 \in Nat
    BY <1>0 DEF FilesInv, AddDirect, InDirect
  <1>2. new \in freemap /\ new < SCAN /\ new \in DataBlocks /\ new \in Blocks /\ new \in Nat
    BY <1>1, NewBlocks, Ranges DEF AddDirect, FilesShape
  <1>3. /\ oi_size' \in [Files -> Nat] /\ oi_size'[f] = (n + 1) * NINDIRECT
        /\ Nblocks(f)' = n + 1 /\ OnlySizeOf(f)
    <2>1. PICK m \in Nat : m = n + 1
      BY <1>1
    <2>2. oi_size' = [oi_size EXCEPT ![f] = m * NINDIRECT]
      BY <1>1, <2>1 DEF AddDirect, Grown
    <2> QED  BY <1>1, <2>1, <2>2, SizeInWholeBlocks
  <1>4. /\ freemap' = freemap \ {new} /\ disk' = [disk EXCEPT ![new] = ZeroBlock]
        /\ oi_direct' = [oi_direct EXCEPT ![f][n] = new]
        /\ oi_indirect' = oi_indirect /\ oi_indirect2' = oi_indirect2
    BY <1>1 DEF AddDirect, erased
  <1>5. FilesShape'
    <2>1. ZeroBlock \in [WordIndex -> Nat]
      BY DEF ZeroBlock
    <2>2. disk' \in [Blocks -> [WordIndex -> Nat]] /\ freemap' \subseteq DataBlocks
      BY <1>1, <1>4, <2>1 DEF FilesShape
    <2>3. oi_direct' \in [Files -> [0 .. NDIRECT - 1 -> Nat]]
      BY <1>1, <1>2, <1>4 DEF FilesShape
    <2>4. ASSUME NEW g \in Files
          PROVE  /\ Nblocks(g)' <= NDIRECT + NINDIRECT
                 /\ oi_indirect2'[g] = 0
                 /\ oi_indirect'[g] = 0 <=> Nblocks(g)' <= NDIRECT
      <3>1. CASE g = f
        BY <3>1, <1>1, <1>3, <1>4, Ranges DEF FilesShape
      <3>2. CASE g # f
        BY <3>2, <1>1, <1>3, <1>4 DEF FilesShape, OnlySizeOf
      <3> QED  BY <3>1, <3>2
    <2> QED  BY <1>1, <1>3, <1>4, <2>2, <2>3, <2>4 DEF FilesShape
  <1>6. \A b \in Blocks : b # new => disk'[b] = disk[b]
    BY <1>1, <1>4 DEF FilesShape
  <1>7. ASSUME NEW g \in Files \ {f}
        PROVE  Places(g)' = Places(g) /\ \A k \in Places(g) : Pointer(g, k)' = Pointer(g, k)
    <2>1. Nblocks(g)' = Nblocks(g) /\ oi_direct'[g] = oi_direct[g] /\ oi_indirect'[g] = oi_indirect[g]
      BY <1>1, <1>3, <1>4 DEF OnlySizeOf, FilesShape
    <2>2. Nblocks(g) > NDIRECT => disk'[oi_indirect[g]] = disk[oi_indirect[g]]
      BY <1>2, <1>6, PlacesOf, Ranges
    <2> QED  BY <1>1, <2>1, <2>2, SamePlaces
  <1>8. Places(f) = 0 .. n - 1 /\ Places(f)' = 0 .. n
    BY <1>1, <1>3, Ranges DEF Places
  <1>9. \A k \in 0 .. n - 1 : Pointer(f, k)' = Pointer(f, k)
    BY <1>1, <1>4, Ranges DEF Pointer, BlockAt, FilesShape
  <1>10. Pointer(f, n)' = new
    BY <1>1, <1>4, Ranges DEF Pointer, BlockAt, FilesShape
  <1>11. FilesInv'
    <2>1. \A k \in 0 .. n : k \in 0 .. n - 1 \/ k = n
      BY <1>1
    <2>2. \A k \in 0 .. n - 1 : k \in 0 .. n
      BY <1>1
    <2>3. PICK A : A = {new}
      OBVIOUS
    <2>4. A \in SUBSET freemap /\ freemap' = freemap \ A /\ \A b \in A : b < SCAN
      BY <1>2, <1>4, <2>3
    <2>5. \A k \in Places(f) : k \in Places(f)' /\ Pointer(f, k)' = Pointer(f, k)
      BY <1>8, <1>9, <2>2
    <2>6. \A k \in Places(f)' : k \notin Places(f) => k = n /\ Pointer(f, k)' \in A
      BY <1>8, <1>10, <2>1, <2>3
    <2>7. \A b \in A : \E k \in Places(f)' : Pointer(f, k)' = b
      BY <1>1, <1>8, <1>10, <2>3
    <2> QED  BY <1>5, <1>7, <2>4, <2>5, <2>6, <2>7, PointersAdded
  <1>12. ASSUME NEW g \in Files PROVE Kept(g)
    <2> SUFFICES ASSUME NEW k \in 0 .. Nblocks(g) - 1
                 PROVE  BlockAt(g, k)' = BlockAt(g, k) /\ disk'[BlockAt(g, k)] = disk[BlockAt(g, k)]
      BY DEF Kept
    <2>1. k \in Places(g) /\ k # -1 /\ BlockAt(g, k) \in Blocks /\ BlockAt(g, k) # new
      BY <1>2, PlacesOf, Ranges
    <2>2. Pointer(g, k)' = Pointer(g, k)
      BY <1>7, <1>8, <1>9, <2>1
    <2> QED  BY <1>6, <2>1, <2>2 DEF Pointer
  <1>13. disk'[BlockAt(f, n)'] = ZeroBlock
    <2>1. BlockAt(f, n)' = new
      BY <1>1, <1>10 DEF Pointer
    <2> QED  BY <1>1, <1>2, <1>4, <2>1 DEF FilesShape
  <1> QED  BY <1>1, <1>3, <1>11, <1>12, <1>13 DEF Added

LEMMA AddsIndirect ==
    ASSUME FilesInv, NEW f \in Files, AddIndirect(f)
    PROVE  Added(f)
  <1>0. PICK n \in Nat : n = Nblocks(f)
    BY PlacesOf
  <1>a. PICK b \in Nat : b = oi_indirect[f]
    BY DEF FilesInv, FilesShape
  <1>1. /\ FilesShape /\ n = Nblocks(f) /\ n + 1 \in Nat
        /\ b = oi_indirect[f] /\ b # 0 /\ n > NDIRECT /\ n < NDIRECT + NINDIRECT
        /\ b \in DataBlocks /\ b \in Blocks /\ b \notin freemap
    <2>1. FilesShape /\ b # 0 /\ n < NDIRECT + NINDIRECT
      BY <1>0, <1>a DEF FilesInv, AddIndirect, InIndirect
    <2>2. n > NDIRECT
      BY <1>0, <1>a, <2>1, Ranges DEF FilesShape
    <2> QED  BY <1>0, <1>a, <2>1, <2>2, PlacesOf, Ranges
  <1>2. new \in freemap /\ new < SCAN /\ new \in DataBlocks /\ new \in Blocks /\ new \in Nat
    BY <1>1, NewBlocks, Ranges DEF AddIndirect, FilesShape
  <1>b. new # b /\ n - NDIRECT \in WordIndex
    BY <1>1, <1>2, Ranges DEF WordIndex
  <1>3. /\ oi_size' \in [Files -> Nat] /\ oi_size'[f] = (n + 1) * NINDIRECT
        /\ Nblocks(f)' = n + 1 /\ OnlySizeOf(f)
    <2>1. PICK m \in Nat : m = n + 1
      BY <1>1
    <2>2. oi_size' = [oi_size EXCEPT ![f] = m * NINDIRECT]
      BY <1>1, <2>1 DEF AddIndirect, Grown
    <2> QED  BY <1>1, <2>1, <2>2, SizeInWholeBlocks
  <1>4. /\ freemap' = freemap \ {new} /\ oi_direct' = oi_direct
        /\ disk' = [[disk EXCEPT ![new] = ZeroBlock] EXCEPT ![b][n - NDIRECT] = new]
        /\ oi_indirect' = oi_indirect /\ oi_indirect2' = oi_indirect2
    BY <1>1 DEF AddIndirect, erased
  <1>c. /\ disk' \in [Blocks -> [WordIndex -> Nat]]
        /\ \A c \in Blocks : c # new /\ c # b => disk'[c] = disk[c]
        /\ disk'[new] = ZeroBlock
        /\ disk'[b][n - NDIRECT] = new
        /\ \A i \in WordIndex : i # n - NDIRECT => disk'[b][i] = disk[b][i]
    <2>1. ZeroBlock \in [WordIndex -> Nat]
      BY DEF ZeroBlock
    <2>2. PICK d \in [Blocks -> [WordIndex -> Nat]] : d = [disk EXCEPT ![new] = ZeroBlock]
      BY <1>1, <2>1 DEF FilesShape
    <2>3. d[b] = disk[b] /\ d[new] = ZeroBlock /\ \A c \in Blocks : c # new => d[c] = disk[c]
      BY <1>1, <1>2, <1>b, <2>2 DEF FilesShape
    <2>4. disk' = [d EXCEPT ![b][n - NDIRECT] = new]
      BY <1>4, <2>2
    <2> QED  BY <1>1, <1>2, <1>b, <2>3, <2>4
  <1>5. FilesShape'
    <2>1. freemap' \subseteq DataBlocks
      BY <1>1, <1>4 DEF FilesShape
    <2>4. ASSUME NEW g \in Files
          PROVE  /\ Nblocks(g)' <= NDIRECT + NINDIRECT
                 /\ oi_indirect2'[g] = 0
                 /\ oi_indirect'[g] = 0 <=> Nblocks(g)' <= NDIRECT
      <3>1. CASE g = f
        BY <3>1, <1>1, <1>3, <1>4, Ranges DEF FilesShape
      <3>2. CASE g # f
        BY <3>2, <1>1, <1>3, <1>4 DEF FilesShape, OnlySizeOf
      <3> QED  BY <3>1, <3>2
    <2> QED  BY <1>1, <1>3, <1>4, <1>c, <2>1, <2>4 DEF FilesShape
  <1>7. ASSUME NEW g \in Files \ {f}
        PROVE  Places(g)' = Places(g) /\ \A k \in Places(g) : Pointer(g, k)' = Pointer(g, k)
    <2>1. Nblocks(g)' = Nblocks(g) /\ oi_direct'[g] = oi_direct[g] /\ oi_indirect'[g] = oi_indirect[g]
      BY <1>3, <1>4 DEF OnlySizeOf
    <2>2. ASSUME Nblocks(g) > NDIRECT PROVE disk'[oi_indirect[g]] = disk[oi_indirect[g]]
      <3>1. oi_indirect[g] # b
        BY <1>1, <2>2, IndirectApart
      <3>2. oi_indirect[g] \in Blocks /\ oi_indirect[g] # new
        BY <1>2, <2>2, PlacesOf, Ranges
      <3> QED  BY <1>c, <3>1, <3>2
    <2> QED  BY <1>1, <2>1, <2>2, SamePlaces
  <1>8. Places(f) = (0 .. n - 1) \cup {-1} /\ Places(f)' = (0 .. n) \cup {-1}
    BY <1>1, <1>3, Ranges DEF Places
  <1>9. \A k \in (0 .. n - 1) \cup {-1} : Pointer(f, k)' = Pointer(f, k)
    <2>1. Pointer(f, -1)' = Pointer(f, -1)
      BY <1>4 DEF Pointer
    <2>2. ASSUME NEW k \in 0 .. n - 1 PROVE BlockAt(f, k)' = BlockAt(f, k)
      <3>1. CASE k < NDIRECT
        BY <3>1, <1>4 DEF BlockAt
      <3>2. CASE ~(k < NDIRECT)
        <4>1. k < NDIRECT + NINDIRECT /\ k - NDIRECT \in WordIndex /\ k - NDIRECT # n - NDIRECT
          BY <1>1, <3>2, Ranges DEF WordIndex
        <4>2. disk'[b][k - NDIRECT] = disk[b][k - NDIRECT]
          BY <1>c, <4>1
        <4> QED  BY <1>1, <1>4, <3>2, <4>1, <4>2 DEF BlockAt
      <3> QED  BY <3>1, <3>2
    <2> QED  BY <2>1, <2>2 DEF Pointer
  <1>10. Pointer(f, n)' = new
    BY <1>1, <1>4, <1>c, Ranges DEF Pointer, BlockAt
  <1>11. FilesInv'
    <2>1. \A k \in Places(f)' : k \in Places(f) \/ k = n
      BY <1>1, <1>8
    <2>2. \A k \in Places(f) : k \in Places(f)'
      BY <1>1, <1>8
    <2>3. PICK A : A = {new}
      OBVIOUS
    <2>4. A \in SUBSET freemap /\ freemap' = freemap \ A /\ \A c \in A : c < SCAN
      BY <1>2, <1>4, <2>3
    <2>5. \A k \in Places(f) : k \in Places(f)' /\ Pointer(f, k)' = Pointer(f, k)
      BY <1>8, <1>9, <2>2
    <2>6. \A k \in Places(f)' : k \notin Places(f) => k = n /\ Pointer(f, k)' \in A
      BY <1>10, <2>1, <2>3
    <2>7. \A c \in A : \E k \in Places(f)' : Pointer(f, k)' = c
      BY <1>1, <1>8, <1>10, <2>3
    <2> QED  BY <1>5, <1>7, <2>4, <2>5, <2>6, <2>7, PointersAdded
  <1>12. ASSUME NEW g \in Files PROVE Kept(g)
    <2> SUFFICES ASSUME NEW k \in 0 .. Nblocks(g) - 1
                 PROVE  BlockAt(g, k)' = BlockAt(g, k) /\ disk'[BlockAt(g, k)] = disk[BlockAt(g, k)]
      BY DEF Kept
    <2>1. /\ k \in Places(g) /\ k # -1 /\ BlockAt(g, k) \in Blocks
          /\ BlockAt(g, k) # new /\ BlockAt(g, k) # b
      BY <1>1, <1>2, PlacesOf, IndirectApart, Ranges
    <2>2. Pointer(g, k)' = Pointer(g, k)
      BY <1>7, <1>8, <1>9, <2>1
    <2> QED  BY <1>c, <2>1, <2>2 DEF Pointer
  <1>13. disk'[BlockAt(f, n)'] = ZeroBlock
    <2>1. BlockAt(f, n)' = new
      BY <1>1, <1>10 DEF Pointer
    <2> QED  BY <1>c, <2>1
  <1> QED  BY <1>1, <1>3, <1>11, <1>12, <1>13 DEF Added

LEMMA AddsNewIndirect ==
    ASSUME FilesInv, NEW f \in Files, AddNewIndirect(f)
    PROVE  Added(f)
  <1>0. PICK n \in Nat : n = Nblocks(f)
    BY PlacesOf
  <1>1. FilesShape /\ n = Nblocks(f) /\ n + 1 \in Nat /\ oi_indirect[f] = 0 /\ n = NDIRECT
    BY <1>0, Ranges DEF FilesInv, FilesShape, AddNewIndirect, InIndirect
  <1>2. /\ new \in freemap /\ new < SCAN /\ new \in DataBlocks /\ new \in Blocks /\ new \in Nat
        /\ second \in freemap /\ second < SCAN /\ second \in DataBlocks /\ second \in Blocks
        /\ second \in Nat /\ second # new /\ second # 0
    BY <1>1, NewBlocks, Ranges DEF AddNewIndirect, FilesShape
  <1>a. PICK b \in Nat : b = second
    BY <1>2
  <1>b. PICK a \in Nat : a = new
    BY <1>2
  <1>3. /\ oi_size' \in [Files -> Nat] /\ oi_size'[f] = (n + 1) * NINDIRECT
        /\ Nblocks(f)' = n + 1 /\ OnlySizeOf(f)
    <2>1. PICK m \in Nat : m = n + 1
      BY <1>1
    <2>2. oi_size' = [oi_size EXCEPT ![f] = m * NINDIRECT]
      BY <1>1, <2>1 DEF AddNewIndirect, Grown
    <2> QED  BY <1>1, <2>1, <2>2, SizeInWholeBlocks
  <1>4. /\ freemap' = freemap \ {a, b} /\ oi_direct' = oi_direct
        /\ disk' = [[disk EXCEPT ![a] = ZeroBlock] EXCEPT
                        ![b] = [ZeroBlock EXCEPT ![n - NDIRECT] = a]]
        /\ oi_indirect' = [oi_indirect EXCEPT ![f] = b] /\ oi_indirect2' = oi_indirect2
    BY <1>1, <1>a, <1>b DEF AddNewIndirect, erased
  <1>c. /\ disk' \in [Blocks -> [WordIndex -> Nat]]
        /\ \A c \in Blocks : c # a /\ c # b => disk'[c] = disk[c]
        /\ disk'[a] = ZeroBlock
        /\ disk'[b][0] = a
    <2>1. ZeroBlock \in [WordIndex -> Nat] /\ 0 \in WordIndex /\ n - NDIRECT = 0
      BY <1>1, Ranges DEF ZeroBlock, WordIndex
    <2>2. PICK d \in [Blocks -> [WordIndex -> Nat]] : d = [disk EXCEPT ![a] = ZeroBlock]
      BY <1>1, <2>1 DEF FilesShape
    <2>3. d[a] = ZeroBlock /\ \A c \in Blocks : c # a => d[c] = disk[c]
      BY <1>1, <1>2, <1>b, <2>2 DEF FilesShape
    <2>4. PICK z \in [WordIndex -> Nat] : z = [ZeroBlock EXCEPT ![0] = a]
      BY <1>b, <2>1
    <2>6. z[0] = a
      BY <2>1, <2>4
    <2>5. disk' = [d EXCEPT ![b] = z]
      BY <1>4, <2>1, <2>2, <2>4
    <2> QED  BY <1>2, <1>a, <1>b, <2>3, <2>4, <2>5, <2>6
  <1>5. FilesShape'
    <2>1. freemap' \subseteq DataBlocks
      BY <1>1, <1>4 DEF FilesShape
    <2>2. oi_indirect' \in [Files -> Nat]
      BY <1>1, <1>4 DEF FilesShape
    <2>4. ASSUME NEW g \in Files
          PROVE  /\ Nblocks(g)' <= NDIRECT + NINDIRECT
                 /\ oi_indirect2'[g] = 0
                 /\ oi_indirect'[g] = 0 <=> Nblocks(g)' <= NDIRECT
      <3>1. CASE g = f
        BY <3>1, <1>1, <1>2, <1>3, <1>4, <1>a, Ranges DEF FilesShape
      <3>2. CASE g # f
        BY <3>2, <1>1, <1>3, <1>4 DEF FilesShape, OnlySizeOf
      <3> QED  BY <3>1, <3>2
    <2> QED  BY <1>1, <1>3, <1>4, <1>c, <2>1, <2>2, <2>4 DEF FilesShape
  <1>7. ASSUME NEW g \in Files \ {f}
        PROVE  Places(g)' = Places(g) /\ \A k \in Places(g) : Pointer(g, k)' = Pointer(g, k)
    <2>1. Nblocks(g)' = Nblocks(g) /\ oi_direct'[g] = oi_direct[g] /\ oi_indirect'[g] = oi_indirect[g]
      BY <1>1, <1>3, <1>4 DEF OnlySizeOf, FilesShape
    <2>2. Nblocks(g) > NDIRECT => disk'[oi_indirect[g]] = disk[oi_indirect[g]]
      BY <1>a, <1>b, <1>2, <1>c, PlacesOf, Ranges
    <2> QED  BY <1>1, <2>1, <2>2, SamePlaces
  <1>8. Places(f) = 0 .. n - 1 /\ Places(f)' = (0 .. n) \cup {-1}
    BY <1>1, <1>3, Ranges DEF Places
  <1>9. \A k \in 0 .. n - 1 : Pointer(f, k)' = Pointer(f, k)
    BY <1>1, <1>4, Ranges DEF Pointer, BlockAt
  <1>10. Pointer(f, n)' = a /\ Pointer(f, -1)' = b
    <2>1. oi_indirect'[f] = b /\ n - NDIRECT = 0 /\ n # -1
      BY <1>1, <1>4 DEF FilesShape
    <2>2. Pointer(f, -1)' = b
      BY <2>1 DEF Pointer
    <2>3. BlockAt(f, n)' = a
      BY <1>1, <2>1, <1>c, Ranges DEF BlockAt
    <2> QED  BY <2>1, <2>2, <2>3 DEF Pointer
  <1>11. FilesInv'
    <2>1. \A k \in Places(f)' : k \in Places(f) \/ k = n \/ k = -1
      BY <1>1, <1>8
    <2>2. \A k \in Places(f) : k \in Places(f)'
      BY <1>1, <1>8
    <2>3. PICK A : A = {a, b}
      OBVIOUS
    <2>4. A \in SUBSET freemap /\ freemap' = freemap \ A /\ \A c \in A : c < SCAN
      BY <1>2, <1>4, <1>a, <1>b, <2>3
    <2>5. \A k \in Places(f) : k \in Places(f)' /\ Pointer(f, k)' = Pointer(f, k)
      BY <1>8, <1>9, <2>2
    <2>6. \A k \in Places(f)' : k \notin Places(f) => (k = n \/ k = -1) /\ Pointer(f, k)' \in A
      BY <1>10, <2>1, <2>3
    <2>7. \A c \in A : \E k \in Places(f)' : Pointer(f, k)' = c
      BY <1>1, <1>8, <1>10, <2>3
    <2>8. \A k, l \in Places(f)' :
             k \notin Places(f) /\ l \notin Places(f) /\ Pointer(f, k)' = Pointer(f, l)' => k = l
      BY <2>6, <1>10, <1>2, <1>a, <1>b
    <2> QED  BY <1>5, <1>7, <2>4, <2>5, <2>6, <2>7, <2>8, PointersAdded
  <1>12. ASSUME NEW g \in Files PROVE Kept(g)
    <2> SUFFICES ASSUME NEW k \in 0 .. Nblocks(g) - 1
                 PROVE  BlockAt(g, k)' = BlockAt(g, k) /\ disk'[BlockAt(g, k)] = disk[BlockAt(g, k)]
      BY DEF Kept
    <2>1. /\ k \in Places(g) /\ k # -1 /\ BlockAt(g, k) \in Blocks
          /\ BlockAt(g, k) # a /\ BlockAt(g, k) # b
      BY <1>2, <1>a, <1>b, PlacesOf, Ranges
    <2>2. Pointer(g, k)' = Pointer(g, k)
      BY <1>7, <1>8, <1>9, <2>1
    <2> QED  BY <1>c, <2>1, <2>2 DEF Pointer
  <1>13. disk'[BlockAt(f, n)'] = ZeroBlock
    <2>1. BlockAt(f, n)' = a
      BY <1>1, <1>10 DEF Pointer
    <2> QED  BY <1>c, <2>1
  <1> QED  BY <1>1, <1>3, <1>11, <1>12, <1>13 DEF Added

\* In a file that has room among its direct and indirect blocks, add_block adds
\* one of them.
LEMMA AddsBlock ==
    ASSUME FilesInv, NEW f \in Files, Nblocks(f) < NDIRECT + NINDIRECT, add_block(f)
    PROVE  Added(f)
  <1>1. ~ InIndirect2(Nblocks(f))
    BY PlacesOf, Ranges DEF InIndirect2
  <1>2. AddDirect(f) \/ AddIndirect(f) \/ AddNewIndirect(f)
    BY <1>1 DEF add_block, AddIndirect2, AddIndirect2Entry, AddNewIndirect2
  <1> QED  BY <1>2, AddsDirect, AddsIndirect, AddsNewIndirect

\* Blocks that hold no pointers may get any words.
LEMMA PointersUntouched ==
    ASSUME FilesInv, UNCHANGED <<freemap, inodes>>, disk' \in [Blocks -> [WordIndex -> Nat]],
           NEW D, \A b \in Blocks : b \notin D => disk'[b] = disk[b],
           \A g \in Files : Nblocks(g) > NDIRECT => oi_indirect[g] \notin D
    PROVE  /\ FilesInv'
           /\ \A g \in Files : /\ Nblocks(g)' = Nblocks(g)
                               /\ \A k \in 0 .. Nblocks(g) - 1 : BlockAt(g, k)' = BlockAt(g, k)
  <1>1. /\ freemap' = freemap /\ oi_size' = oi_size /\ oi_direct' = oi_direct
        /\ oi_indirect' = oi_indirect /\ oi_indirect2' = oi_indirect2
    BY DEF inodes
  <1>2. ASSUME NEW g \in Files PROVE Nblocks(g)' = Nblocks(g)
    BY <1>1 DEF Nblocks
  <1>3. FilesShape /\ FilesShape'
    BY <1>1, <1>2 DEF FilesInv, FilesShape
  <1>4. ASSUME NEW g \in Files
        PROVE  Places(g)' = Places(g) /\ \A k \in Places(g) : Pointer(g, k)' = Pointer(g, k)
    <2>1. Nblocks(g) > NDIRECT => disk'[oi_indirect[g]] = disk[oi_indirect[g]]
      BY PlacesOf, Ranges
    <2> QED  BY <1>1, <1>2, <1>3, <2>1, SamePlaces
  <1>5. FilesInv'
    BY <1>1, <1>3, <1>4, PointersSame
  <1>6. ASSUME NEW g \in Files, NEW k \in 0 .. Nblocks(g) - 1
        PROVE  BlockAt(g, k)' = BlockAt(g, k)
    <2>1. k \in Places(g) /\ k # -1
      BY PlacesOf
    <2> QED  BY <1>4, <2>1 DEF Pointer
  <1> QED  BY <1>2, <1>5, <1>6

\* add_block fails only for want of blocks, and then changes nothing of any file.
LEMMA AddBlockFails ==
    ASSUME FilesInv, NEW f \in Files, Nblocks(f) < NDIRECT + NINDIRECT
    PROVE  /\ add_block_enospc(f) =>
                 FilesInv' /\ UNCHANGED <<freemap, inodes>> /\ \A g \in Files : Kept(g)
           /\ ~ add_block_eio(f)
  <1>1. FilesShape /\ Nblocks(f) \in Nat
    BY PlacesOf DEF FilesInv
  <1>2. ~ add_block_eio(f)
    BY <1>1, Ranges DEF add_block_eio
  <1>3. ASSUME add_block_enospc(f)
        PROVE  /\ UNCHANGED <<freemap, inodes>>
               /\ disk' \in [Blocks -> [WordIndex -> Nat]]
               /\ \A b \in Blocks : b \notin freemap => disk'[b] = disk[b]
    <2>1. ~ InIndirect2(Nblocks(f))
      BY <1>1, Ranges DEF InIndirect2
    <2>2. CASE new = 0 /\ UNCHANGED <<freemap, disk, inodes>>
      BY <2>2, <1>1 DEF FilesShape
    <2>3. CASE AddFailsIndirect(f)
      <3>1. new \in freemap
        BY <1>1, <2>3, NewBlocks DEF AddFailsIndirect
      <3>2. disk' = [disk EXCEPT ![new] = ZeroBlock] /\ UNCHANGED <<freemap, inodes>>
        BY <2>3 DEF AddFailsIndirect, erased
      <3>3. ZeroBlock \in [WordIndex -> Nat]
        BY DEF ZeroBlock
      <3> QED  BY <1>1, <3>1, <3>2, <3>3 DEF FilesShape
    <2>4. ~ AddFailsIndirect2(f)
      BY <2>1 DEF AddFailsIndirect2
    <2> QED  BY <1>3, <2>2, <2>3, <2>4 DEF add_block_enospc
  <1>4. ASSUME add_block_enospc(f) PROVE FilesInv' /\ \A g \in Files : Kept(g)
    <2>1. PICK D : D = freemap
      OBVIOUS
    <2>2. \A g \in Files : Nblocks(g) > NDIRECT => oi_indirect[g] \notin D
      BY <2>1, PlacesOf
    <2>3. \A b \in Blocks : b \notin D => disk'[b] = disk[b]
      BY <1>3, <1>4, <2>1
    <2>4. /\ FilesInv'
          /\ \A g \in Files : \A k \in 0 .. Nblocks(g) - 1 : BlockAt(g, k)' = BlockAt(g, k)
      BY <1>3, <1>4, <2>2, <2>3, PointersUntouched
    <2>5. ASSUME NEW g \in Files PROVE Kept(g)
      BY <1>3, <1>4, <2>4, PlacesOf, Ranges DEF Kept
    <2> QED  BY <2>4, <2>5
  <1> QED  BY <1>2, <1>3, <1>4

-----------------------------------------------------------------------------
(* remove_block. *)

\* What a successful remove_block does to a file that has a block.
Removed(f) ==
    /\ FilesInv'
    /\ oi_size'[f] = (Nblocks(f) - 1) * NINDIRECT
    /\ Nblocks(f)' = Nblocks(f) - 1
    /\ OnlySizeOf(f)
    /\ \A g \in Files \ {f} : Kept(g)
    /\ \A k \in 0 .. Nblocks(f) - 2 :
          BlockAt(f, k)' = BlockAt(f, k) /\ disk'[BlockAt(f, k)] = disk[BlockAt(f, k)]

LEMMA RemovesDirect ==
    ASSUME FilesInv, NEW f \in Files, RemoveDirect(f)
    PROVE  Removed(f)
  <1>0. PICK n \in Nat : n = Nblocks(f) - 1
    BY PlacesOf DEF RemoveDirect
  <1>1. FilesShape /\ Nblocks(f) = n + 1 /\ n < NDIRECT
    BY <1>0, PlacesOf DEF FilesInv, RemoveDirect, InDirect
  <1>2. PICK b \in DataBlocks : b = oi_direct[f][n] /\ b = Pointer(f, n)
    <2>1. n \in 0 .. Nblocks(f) - 1
      BY <1>1
    <2>2. Pointer(f, n) = BlockAt(f, n) /\ BlockAt(f, n) \in DataBlocks
      BY <2>1, PlacesOf
    <2>3. BlockAt(f, n) = oi_direct[f][n]
      BY <1>1 DEF BlockAt
    <2> QED  BY <2>2, <2>3
  <1>3. /\ oi_size' \in [Files -> Nat] /\ oi_size'[f] = n * NINDIRECT
        /\ Nblocks(f)' = n /\ OnlySizeOf(f)
    <2>1. oi_size' = [oi_size EXCEPT ![f] = n * NINDIRECT]
      BY <1>0 DEF RemoveDirect, Shrunk
    <2> QED  BY <1>1, <2>1, SizeInWholeBlocks
  <1>4. /\ freemap' = freemap \cup {b} /\ disk' = disk
        /\ oi_direct' = [oi_direct EXCEPT ![f][n] = 0]
        /\ oi_indirect' = oi_indirect /\ oi_indirect2' = oi_indirect2
    <2>1. ~(b < FirstData)
      BY <1>2, Ranges DEF DataBlocks
    <2> QED  BY <1>0, <1>2, <2>1 DEF RemoveDirect, free_block
  <1>5. FilesShape'
    <2>2. freemap' \subseteq DataBlocks
      BY <1>1, <1>2, <1>4 DEF FilesShape
    <2>3. oi_direct' \in [Files -> [0 .. NDIRECT - 1 -> Nat]]
      BY <1>1, <1>4 DEF FilesShape
    <2>4. ASSUME NEW g \in Files
          PROVE  /\ Nblocks(g)' <= NDIRECT + NINDIRECT
                 /\ oi_indirect2'[g] = 0
                 /\ oi_indirect'[g] = 0 <=> Nblocks(g)' <= NDIRECT
      <3>1. CASE g = f
        BY <3>1, <1>1, <1>3, <1>4, Ranges DEF FilesShape
      <3>2. CASE g # f
        BY <3>2, <1>1, <1>3, <1>4 DEF FilesShape, OnlySizeOf
      <3> QED  BY <3>1, <3>2
    <2> QED  BY <1>1, <1>3, <1>4, <2>2, <2>3, <2>4 DEF FilesShape
  <1>7. ASSUME NEW g \in Files \ {f}
        PROVE  Places(g)' = Places(g) /\ \A k \in Places(g) : Pointer(g, k)' = Pointer(g, k)
    <2>1. Nblocks(g)' = Nblocks(g) /\ oi_direct'[g] = oi_direct[g] /\ oi_indirect'[g] = oi_indirect[g]
      BY <1>1, <1>3, <1>4 DEF OnlySizeOf, FilesShape
    <2> QED  BY <1>1, <1>4, <2>1, SamePlaces
  <1>8. Places(f) = 0 .. n /\ Places(f)' = 0 .. n - 1
    BY <1>1, <1>3, Ranges DEF Places
  <1>9. \A k \in 0 .. n - 1 : Pointer(f, k)' = Pointer(f, k)
    BY <1>1, <1>4, Ranges DEF Pointer, BlockAt, FilesShape
  <1>11. FilesInv'
    <2>3. PICK A : A = {b}
      OBVIOUS
    <2>4. freemap' = freemap \cup A
      BY <1>4, <2>3
    <2>5. \A k \in Places(f)' : k \in Places(f) /\ Pointer(f, k)' = Pointer(f, k)
      BY <1>8, <1>9
    <2>6. \A k \in Places(f) : k \notin Places(f)' => k = n /\ Pointer(f, k) \in A
      BY <1>2, <1>8, <2>3
    <2>7. \A c \in A : \E k \in Places(f) : k \notin Places(f)' /\ Pointer(f, k) = c
      BY <1>2, <1>8, <2>3
    <2> QED  BY <1>5, <1>7, <2>4, <2>5, <2>6, <2>7, PointersRemoved
  <1>12. ASSUME NEW g \in Files \ {f} PROVE Kept(g)
    <2>1. \A k \in 0 .. Nblocks(g) - 1 : k \in Places(g) /\ k # -1
      BY PlacesOf
    <2> QED  BY <1>4, <1>7, <2>1 DEF Pointer, Kept
  <1>13. ASSUME NEW k \in 0 .. n - 1
         PROVE  BlockAt(f, k)' = BlockAt(f, k) /\ disk'[BlockAt(f, k)] = disk[BlockAt(f, k)]
    BY <1>4, <1>9 DEF Pointer
  <1>14. Nblocks(f) - 2 = n - 1 /\ Nblocks(f) - 1 = n
    BY <1>1
  <1> QED  BY <1>3, <1>11, <1>12, <1>13, <1>14 DEF Removed

LEMMA RemovesIndirect ==
    ASSUME FilesInv, NEW f \in Files, RemoveIndirect(f)
    PROVE  Removed(f)
  <1>0. PICK n \in Nat : n = Nblocks(f) - 1
    BY PlacesOf, Ranges DEF RemoveIndirect, InIndirect
  <1>1. /\ FilesShape /\ Nblocks(f) = n + 1 /\ NDIRECT <= n /\ n < NDIRECT + NINDIRECT
        /\ Nblocks(f) > NDIRECT
    BY <1>0, PlacesOf, Ranges DEF FilesInv, RemoveIndirect, InIndirect
  <1>a. PICK b \in DataBlocks : b = oi_indirect[f] /\ b = Pointer(f, -1)
    BY <1>1, PlacesOf
  <1>b. n - NDIRECT \in WordIndex /\ b \in Blocks /\ b \in Nat
    BY <1>1, Ranges DEF WordIndex
  <1>2. PICK c \in DataBlocks : c = disk[b][n - NDIRECT] /\ c = Pointer(f, n)
    <2>1. n \in 0 .. Nblocks(f) - 1
      BY <1>1
    <2>2. Pointer(f, n) = BlockAt(f, n) /\ BlockAt(f, n) \in DataBlocks
      BY <2>1, PlacesOf
    <2>3. BlockAt(f, n) = disk[b][n - NDIRECT]
      BY <1>1, <1>a, Ranges DEF BlockAt
    <2> QED  BY <2>2, <2>3
  <1>3. /\ oi_size' \in [Files -> Nat] /\ oi_size'[f] = n * NINDIRECT
        /\ Nblocks(f)' = n /\ OnlySizeOf(f)
    <2>1. oi_size' = [oi_size EXCEPT ![f] = n * NINDIRECT]
      BY <1>0 DEF RemoveIndirect, Shrunk
    <2> QED  BY <1>1, <2>1, SizeInWholeBlocks
  <1>4. /\ disk' = [disk EXCEPT ![b][n - NDIRECT] = 0]
        /\ oi_direct' = oi_direct /\ oi_indirect2' = oi_indirect2
        /\ n = NDIRECT =>
             freemap' = freemap \cup {c, b} /\ oi_indirect' = [oi_indirect EXCEPT ![f] = 0]
        /\ n # NDIRECT => freemap' = freemap \cup {c} /\ oi_indirect' = oi_indirect
    <2>1. ~(b < FirstData) /\ ~(c < FirstData)
      BY <1>2, Ranges DEF DataBlocks
    <2>2. Nblocks(f) - 1 - NDIRECT = n - NDIRECT /\ (n - NDIRECT = 0 <=> n = NDIRECT)
      BY <1>1, Ranges
    <2>3. \A S : free_block(S, b) = S \cup {b} /\ free_block(S, c) = S \cup {c}
      BY <2>1 DEF free_block
    <2>4. /\ disk' = [disk EXCEPT ![b][n - NDIRECT] = 0]
          /\ IF n - NDIRECT = 0
             THEN /\ freemap' = free_block(free_block(freemap, c), b)
                  /\ oi_indirect' = [oi_indirect EXCEPT ![f] = 0]
             ELSE freemap' = free_block(freemap, c) /\ UNCHANGED oi_indirect
          /\ oi_direct' = oi_direct /\ oi_indirect2' = oi_indirect2
      BY <1>a, <1>2, <2>2 DEF RemoveIndirect
    <2> QED  BY <2>2, <2>3, <2>4
  <1>c. /\ disk' \in [Blocks -> [WordIndex -> Nat]]
        /\ \A d \in Blocks : d # b => disk'[d] = disk[d]
        /\ \A i \in WordIndex : i # n - NDIRECT => disk'[b][i] = disk[b][i]
    BY <1>1, <1>4, <1>b DEF FilesShape
  <1>5. FilesShape'
    <2>2. freemap' \subseteq DataBlocks /\ oi_indirect' \in [Files -> Nat]
      BY <1>1, <1>2, <1>a, <1>4 DEF FilesShape
    <2>4. ASSUME NEW g \in Files
          PROVE  /\ Nblocks(g)' <= NDIRECT + NINDIRECT
                 /\ oi_indirect2'[g] = 0
                 /\ oi_indirect'[g] = 0 <=> Nblocks(g)' <= NDIRECT
      <3>1. CASE g = f
        BY <3>1, <1>1, <1>3, <1>4, Ranges DEF FilesShape
      <3>2. CASE g # f
        BY <3>2, <1>1, <1>3, <1>4 DEF FilesShape, OnlySizeOf
      <3> QED  BY <3>1, <3>2
    <2> QED  BY <1>1, <1>3, <1>4, <1>c, <2>2, <2>4 DEF FilesShape
  <1>7. ASSUME NEW g \in Files \ {f}
        PROVE  Places(g)' = Places(g) /\ \A k \in Places(g) : Pointer(g, k)' = Pointer(g, k)
    <2>1. Nblocks(g)' = Nblocks(g) /\ oi_direct'[g] = oi_direct[g] /\ oi_indirect'[g] = oi_indirect[g]
      BY <1>1, <1>3, <1>4 DEF OnlySizeOf, FilesShape
    <2>2. ASSUME Nblocks(g) > NDIRECT PROVE disk'[oi_indirect[g]] = disk[oi_indirect[g]]
      <3>1. oi_indirect[g] # b
        BY <1>1, <1>a, <2>2, IndirectApart
      <3>2. oi_indirect[g] \in Blocks
        BY <2>2, PlacesOf, Ranges
      <3> QED  BY <1>c, <3>1, <3>2
    <2> QED  BY <1>1, <2>1, <2>2, SamePlaces
  <1>8. /\ Places(f) = (0 .. n) \cup {-1}
        /\ Places(f)' = (0 .. n - 1) \cup (IF n = NDIRECT THEN {} ELSE {-1})
    BY <1>1, <1>3, Ranges DEF Places
  <1>9. /\ \A k \in 0 .. n - 1 : BlockAt(f, k)' = BlockAt(f, k) /\ k # -1
        /\ n # NDIRECT => Pointer(f, -1)' = Pointer(f, -1)
    <2>1. n # NDIRECT => Pointer(f, -1)' = Pointer(f, -1)
      BY <1>4 DEF Pointer
    <2>2. ASSUME NEW k \in 0 .. n - 1 PROVE BlockAt(f, k)' = BlockAt(f, k)
      <3>1. CASE k < NDIRECT
        BY <3>1, <1>4 DEF BlockAt
      <3>2. CASE ~(k < NDIRECT)
        <4>1. /\ k < NDIRECT + NINDIRECT /\ k - NDIRECT \in WordIndex
              /\ k - NDIRECT # n - NDIRECT /\ n # NDIRECT
          BY <1>1, <3>2, Ranges DEF WordIndex
        <4>2. disk'[b][k - NDIRECT] = disk[b][k - NDIRECT]
          BY <1>c, <4>1
        <4> QED  BY <1>a, <1>4, <3>2, <4>1, <4>2 DEF BlockAt
      <3> QED  BY <3>1, <3>2
    <2> QED  BY <2>1, <2>2
  <1>11. FilesInv'
    <2>1. \A k \in Places(f)' : k \in Places(f) /\ Pointer(f, k)' = Pointer(f, k)
      BY <1>8, <1>9 DEF Pointer
    <2>2. CASE n = NDIRECT
      <3>3. PICK A : A = {c, b}
        OBVIOUS
      <3>4. freemap' = freemap \cup A
        BY <1>4, <2>2, <3>3
      <3>6. \A k \in Places(f) : k \notin Places(f)' => (k = n \/ k = -1) /\ Pointer(f, k) \in A
        BY <1>2, <1>a, <1>8, <3>3
      <3>7. \A d \in A : \E k \in Places(f) : k \notin Places(f)' /\ Pointer(f, k) = d
        BY <1>2, <1>a, <1>8, <2>2, <3>3
      <3> QED  BY <1>5, <1>7, <2>1, <3>4, <3>6, <3>7, PointersRemoved
    <2>3. CASE n # NDIRECT
      <3>3. PICK A : A = {c}
        OBVIOUS
      <3>4. freemap' = freemap \cup A
        BY <1>4, <2>3, <3>3
      <3>6. \A k \in Places(f) : k \notin Places(f)' => k = n /\ Pointer(f, k) \in A
        BY <1>2, <1>8, <2>3, <3>3
      <3>7. \A d \in A : \E k \in Places(f) : k \notin Places(f)' /\ Pointer(f, k) = d
        BY <1>2, <1>8, <2>3, <3>3
      <3> QED  BY <1>5, <1>7, <2>1, <3>4, <3>6, <3>7, PointersRemoved
    <2> QED  BY <2>2, <2>3
  <1>d. ASSUME NEW g \in Files, NEW k \in 0 .. Nblocks(g) - 1
        PROVE  disk'[BlockAt(g, k)] = disk[BlockAt(g, k)]
    <2>1. BlockAt(g, k) \in Blocks /\ BlockAt(g, k) # b
      BY <1>1, <1>a, PlacesOf, IndirectApart, Ranges
    <2> QED  BY <1>c, <2>1
  <1>12. ASSUME NEW g \in Files \ {f} PROVE Kept(g)
    <2>1. \A k \in 0 .. Nblocks(g) - 1 : k \in Places(g) /\ k # -1
      BY PlacesOf
    <2> QED  BY <1>7, <1>d, <2>1 DEF Pointer, Kept
  <1>13. ASSUME NEW k \in 0 .. n - 1
         PROVE  BlockAt(f, k)' = BlockAt(f, k) /\ disk'[BlockAt(f, k)] = disk[BlockAt(f, k)]
    <2>1. k \in 0 .. Nblocks(f) - 1
      BY <1>1
    <2> QED  BY <1>9, <1>d, <2>1
  <1>14. Nblocks(f) - 2 = n - 1 /\ Nblocks(f) - 1 = n
    BY <1>1
  <1> QED  BY <1>3, <1>11, <1>12, <1>13, <1>14 DEF Removed

\* remove_block removes the last block, and does not fail.
LEMMA RemovesBlock ==
    ASSUME FilesInv, NEW f \in Files
    PROVE  /\ remove_block(f) => \/ Nblocks(f) = 0 /\ UNCHANGED <<freemap, disk, inodes>>
                                 \/ Nblocks(f) > 0 /\ Removed(f)
           /\ ~ remove_block_eio(f)
  <1>1. Nblocks(f) \in Nat /\ Nblocks(f) <= NDIRECT + NINDIRECT /\ FilesShape
    BY PlacesOf DEF FilesInv
  <1>2. ~ InIndirect2(Nblocks(f) - 1) /\ ~(Nblocks(f) > MAXFILEBLKS)
    BY <1>1, Ranges DEF InIndirect2
  <1>3. ~(InIndirect(Nblocks(f) - 1) /\ oi_indirect[f] = 0)
    BY <1>1, Ranges DEF InIndirect, FilesShape
  <1>4. ~ remove_block_eio(f)
    BY <1>2, <1>3 DEF remove_block_eio
  <1>5. ASSUME remove_block(f)
        PROVE  \/ Nblocks(f) = 0 /\ UNCHANGED <<freemap, disk, inodes>>
               \/ Nblocks(f) > 0 /\ Removed(f)
    <2>1. RemoveNothing(f) \/ RemoveDirect(f) \/ RemoveIndirect(f)
      BY <1>2, <1>5 DEF remove_block, RemoveIndirect2
    <2>2. CASE RemoveNothing(f)
      BY <2>2 DEF RemoveNothing
    <2>3. CASE RemoveDirect(f)
      <3>1. Nblocks(f) > 0
        BY <1>1, <2>3 DEF RemoveDirect
      <3> QED  BY <2>3, <3>1, RemovesDirect
    <2>4. CASE RemoveIndirect(f)
      <3>1. Nblocks(f) > 0
        BY <1>1, <2>4, Ranges DEF RemoveIndirect, InIndirect
      <3> QED  BY <2>4, <3>1, RemovesIndirect
    <2> QED  BY <2>1, <2>2, <2>3, <2>4
  <1> QED  BY <1>4, <1>5

-----------------------------------------------------------------------------
(* The words of the files. *)

\* Word at of the blocks of file f.
WordAt(f, at) == disk[BlockAt(f, at \div NINDIRECT)][at % NINDIRECT]

\* A block of a file holds only words written into that file, or zeros: behind
\* the end of the file too.
WordsOwn ==
    \A f \in Files : \A k \in 0 .. Nblocks(f) - 1 : \A i \in WordIndex :
        disk[BlockAt(f, k)][i] \in {0, Stamp[f]}

LEMMA WordOwn ==
    ASSUME FilesInv, WordsOwn, NEW f \in Files, NEW at \in Nat, at < Nblocks(f) * NINDIRECT
    PROVE  WordAt(f, at) \in {0, Stamp[f]} /\ at \div NINDIRECT \in 0 .. Nblocks(f) - 1
  <1>1. oi_size[f] \in Nat /\ Nblocks(f) \in Nat
    BY PlacesOf DEF FilesInv, FilesShape
  <1>2. at \div NINDIRECT \in 0 .. Nblocks(f) - 1 /\ at % NINDIRECT \in WordIndex
    BY <1>1, WordInBlock DEF Nblocks
  <1> QED  BY <1>2 DEF WordsOwn, WordAt

LEMMA WordOwnAll ==
    FilesInv /\ WordsOwn =>
        \A f \in Files : \A at \in Nat : at < Nblocks(f) * NINDIRECT => WordAt(f, at) \in {0, Stamp[f]}
  BY WordOwn

LEMMA WordOwnNext ==
    (FilesInv /\ WordsOwn =>
        \A f \in Files : \A at \in Nat : at < Nblocks(f) * NINDIRECT => WordAt(f, at) \in {0, Stamp[f]})'
  BY WordOwnAll, PTL

\* A word of a file is in one of its blocks.
LEMMA WordInFile ==
    ASSUME FilesInv, NEW f \in Files, NEW at \in Nat, at < oi_size[f]
    PROVE  at \div NINDIRECT \in 0 .. Nblocks(f) - 1 /\ at < Nblocks(f) * NINDIRECT
  <1>1. oi_size[f] \in Nat /\ Nblocks(f) \in Nat
    BY PlacesOf DEF FilesInv, FilesShape
  <1>2. at \div NINDIRECT \in 0 .. Nblocks(f) - 1
    BY <1>1, WordInBlock DEF Nblocks
  <1>3. oi_size[f] <= Nblocks(f) * NINDIRECT
    BY <1>1, SizeInBlocks DEF Nblocks
  <1>4. Nblocks(f) * NINDIRECT \in Nat
    BY <1>1, Ranges
  <1> QED  BY <1>1, <1>2, <1>3, <1>4

\* What a step does to the words of the files: it changes one file, by growing
\* it, by cutting it or by writing into a span of it.
Regrown(f) ==
    /\ \A at \in Nat : at < oi_size[f] /\ at < oi_size'[f] => WordAt(f, at)' = WordAt(f, at)
    /\ \A at \in Nat : oi_size[f] <= at /\ at < oi_size'[f] => WordAt(f, at)' \in {0, Stamp[f]}

Spanned(f) ==
    /\ oi_size'[f] = oi_size[f]
    /\ \E from, upto, to \in 0 .. oi_size[f] :
         \A at \in 0 .. oi_size[f] - 1 :
            WordAt(f, at)' = IF from <= at /\ at < upto THEN Stamp[f]
                             ELSE IF upto <= at /\ at < to THEN 0
                             ELSE WordAt(f, at)

OthersSame(f) ==
    \A g \in Files \ {f} : /\ oi_size'[g] = oi_size[g]
                           /\ \A at \in 0 .. oi_size[g] - 1 : WordAt(g, at)' = WordAt(g, at)

FileStep(f) == OthersSame(f) /\ (Regrown(f) \/ Spanned(f))

\* The words of a file whose blocks are kept.
LEMMA KeptWords ==
    ASSUME FilesInv, NEW g \in Files, Kept(g), NEW at \in Nat, at < Nblocks(g) * NINDIRECT
    PROVE  WordAt(g, at)' = WordAt(g, at)
  <1>1. oi_size[g] \in Nat /\ Nblocks(g) \in Nat
    BY PlacesOf DEF FilesInv, FilesShape
  <1>2. at \div NINDIRECT \in 0 .. Nblocks(g) - 1
    BY <1>1, WordInBlock DEF Nblocks
  <1>3. PICK k \in 0 .. Nblocks(g) - 1 : k = at \div NINDIRECT
    BY <1>2
  <1>4. BlockAt(g, k)' = BlockAt(g, k) /\ disk'[BlockAt(g, k)] = disk[BlockAt(g, k)]
    BY <1>3 DEF Kept
  <1> QED  BY <1>3, <1>4 DEF WordAt

LEMMA KeptOthers ==
    ASSUME FilesInv, NEW f, \A g \in Files \ {f} : oi_size'[g] = oi_size[g] /\ Kept(g)
    PROVE  OthersSame(f)
  <1> SUFFICES ASSUME NEW g \in Files \ {f}, NEW at \in 0 .. oi_size[g] - 1
               PROVE  WordAt(g, at)' = WordAt(g, at)
    BY DEF OthersSame
  <1>1. oi_size[g] \in Nat
    BY DEF FilesInv, FilesShape
  <1>2. at \in Nat /\ at < oi_size[g]
    BY <1>1
  <1> QED  BY <1>2, WordInFile, KeptWords

\* A step that keeps the files.
LEMMA NothingHappens ==
    ASSUME FilesInv, WordsOwn, NEW f \in Files,
           UNCHANGED inodes, \A g \in Files : Kept(g)
    PROVE  WordsOwn' /\ FileStep(f)
  <1>1. oi_size' = oi_size
    BY DEF inodes
  <1>2. \A g \in Files : Nblocks(g)' = Nblocks(g)
    BY <1>1 DEF Nblocks
  <1>3. WordsOwn'
    BY <1>2 DEF WordsOwn, Kept
  <1>4. OthersSame(f)
    BY <1>1, KeptOthers
  <1>5. Regrown(f)
    <2>1. oi_size[f] \in Nat
      BY DEF FilesInv, FilesShape
    <2>2. \A at \in Nat : at < oi_size[f] => WordAt(f, at)' = WordAt(f, at)
      BY WordInFile, KeptWords
    <2> QED  BY <1>1, <2>1, <2>2 DEF Regrown
  <1> QED  BY <1>3, <1>4, <1>5 DEF FileStep

LEMMA AddedWords ==
    ASSUME FilesInv, WordsOwn, NEW f \in Files, Added(f)
    PROVE  WordsOwn' /\ FileStep(f)
  <1>0. PICK n \in Nat : n = Nblocks(f)
    BY PlacesOf
  <1>1. /\ FilesInv' /\ Nblocks(f)' = n + 1 /\ oi_size'[f] = (n + 1) * NINDIRECT
        /\ disk'[BlockAt(f, n)'] = ZeroBlock
    BY <1>0 DEF Added
  <1>2. \A g \in Files : Kept(g)
    BY DEF Added
  <1>3. WordsOwn'
    <2> SUFFICES ASSUME NEW g \in Files, NEW k \in 0 .. Nblocks(g)' - 1, NEW i \in WordIndex
                 PROVE  disk'[BlockAt(g, k)'][i] \in {0, Stamp[g]}
      BY DEF WordsOwn
    <2>1. CASE k \in 0 .. Nblocks(g) - 1
      BY <2>1, <1>2 DEF Kept, WordsOwn
    <2>2. CASE k \notin 0 .. Nblocks(g) - 1
      <3>1. g = f /\ k = n
        <4>1. g # f => Nblocks(g)' = Nblocks(g)
          BY DEF Added, OnlySizeOf
        <4>2. g = f
          BY <2>2, <4>1
        <4> QED  BY <1>0, <1>1, <2>2, <4>2
      <3> QED  BY <1>1, <3>1 DEF ZeroBlock
    <2> QED  BY <2>1, <2>2
  <1>4. OthersSame(f)
    BY <1>2, KeptOthers DEF Added, OnlySizeOf
  <1>5. Regrown(f)
    <2>1. ASSUME NEW at \in Nat, at < oi_size[f] PROVE WordAt(f, at)' = WordAt(f, at)
      BY <1>2, <2>1, WordInFile, KeptWords
    <2>2. ASSUME NEW at \in Nat, at < oi_size'[f] PROVE WordAt(f, at)' \in {0, Stamp[f]}
      <3>1. at < Nblocks(f)' * NINDIRECT
        BY <1>1, <2>2
      <3> QED  BY <1>1, <1>3, <3>1, WordOwnNext
    <2> QED  BY <2>1, <2>2 DEF Regrown
  <1> QED  BY <1>3, <1>4, <1>5 DEF FileStep

LEMMA BlockOfWord ==
    ASSUME NEW n \in Nat, NEW at \in Nat, at < n * NINDIRECT
    PROVE  at \div NINDIRECT \in 0 .. n - 1
  <1>1. n * NINDIRECT \in Nat /\ ospfs_size2nblocks(n * NINDIRECT) = n
    BY WholeBlocks
  <1>2. PICK size \in Nat : size = n * NINDIRECT
    BY <1>1
  <1>3. at \div NINDIRECT \in Nat /\ at \div NINDIRECT < ospfs_size2nblocks(size)
    BY <1>2, WordInBlock
  <1> QED  BY <1>1, <1>2, <1>3

LEMMA RemovedWords ==
    ASSUME FilesInv, WordsOwn, NEW f \in Files, Nblocks(f) > 0, Removed(f)
    PROVE  WordsOwn' /\ FileStep(f)
  <1>0. PICK n \in Nat : Nblocks(f) = n + 1
    <2>1. Nblocks(f) \in Nat
      BY PlacesOf
    <2>2. Nblocks(f) - 1 \in Nat /\ Nblocks(f) = (Nblocks(f) - 1) + 1
      BY <2>1
    <2> QED  BY <2>2
  <1>1. Nblocks(f)' = n /\ oi_size'[f] = n * NINDIRECT /\ n * NINDIRECT \in Nat
    BY <1>0, WholeBlocks DEF Removed
  <1>2. \A g \in Files \ {f} : Kept(g) /\ oi_size'[g] = oi_size[g] /\ Nblocks(g)' = Nblocks(g)
    BY DEF Removed, OnlySizeOf
  <1>3. ASSUME NEW k \in 0 .. n - 1
        PROVE  /\ BlockAt(f, k)' = BlockAt(f, k) /\ disk'[BlockAt(f, k)] = disk[BlockAt(f, k)]
               /\ k \in 0 .. Nblocks(f) - 1
    BY <1>0 DEF Removed
  <1>4. WordsOwn'
    <2> SUFFICES ASSUME NEW g \in Files, NEW k \in 0 .. Nblocks(g)' - 1, NEW i \in WordIndex
                 PROVE  disk'[BlockAt(g, k)'][i] \in {0, Stamp[g]}
      BY DEF WordsOwn
    <2>1. CASE g # f
      BY <2>1, <1>2 DEF Kept, WordsOwn
    <2>2. CASE g = f
      BY <2>2, <1>1, <1>3 DEF WordsOwn
    <2> QED  BY <2>1, <2>2
  <1>5. OthersSame(f)
    BY <1>2, KeptOthers
  <1>6. n * NINDIRECT < oi_size[f] /\ oi_size[f] \in Nat
    <2>1. oi_size[f] \in Nat
      BY DEF FilesInv, FilesShape
    <2>2. (Nblocks(f) - 1) * NINDIRECT < oi_size[f]
      BY <2>1, SizeInBlocks DEF Nblocks
    <2>3. Nblocks(f) - 1 = n
      BY <1>0
    <2> QED  BY <2>1, <2>2, <2>3
  <1>7. ASSUME NEW at \in Nat, at < n * NINDIRECT PROVE WordAt(f, at)' = WordAt(f, at)
    <2>1. PICK k \in 0 .. n - 1 : k = at \div NINDIRECT
      BY <1>7, BlockOfWord
    <2> QED  BY <1>3, <2>1 DEF WordAt
  <1>8. Regrown(f)
    <2>1. \A at \in Nat : ~(oi_size[f] <= at /\ at < oi_size'[f])
      BY <1>1, <1>6
    <2> QED  BY <1>1, <1>7, <2>1 DEF Regrown
  <1> QED  BY <1>4, <1>5, <1>8 DEF FileStep

\* The size changes, the number of blocks does not.
LEMMA ResizedWords ==
    ASSUME FilesInv, WordsOwn, NEW f \in Files, NEW want \in Nat,
           ospfs_size2nblocks(want) = Nblocks(f),
           oi_size' = [oi_size EXCEPT ![f] = want],
           UNCHANGED <<freemap, disk, oi_direct, oi_indirect, oi_indirect2>>
    PROVE  FilesInv' /\ WordsOwn' /\ FileStep(f) /\ oi_size'[f] = want
  <1>1. /\ oi_size' \in [Files -> Nat] /\ oi_size'[f] = want
        /\ \A g \in Files : Nblocks(g)' = Nblocks(g)
        /\ \A g \in Files \ {f} : oi_size'[g] = oi_size[g]
    BY SizeIsSet DEF FilesInv, OnlySizeOf
  <1>2. FilesShape /\ FilesShape'
    BY <1>1 DEF FilesInv, FilesShape
  <1>3. \A g \in Files : Places(g)' = Places(g) /\ \A k \in Places(g) : Pointer(g, k)' = Pointer(g, k)
    BY <1>1, <1>2, SamePlaces
  <1>4. FilesInv'
    BY <1>2, <1>3, PointersSame
  <1>5. \A g \in Files : Kept(g)
    BY DEF Kept, BlockAt
  <1>6. WordsOwn'
    BY <1>1, <1>5 DEF WordsOwn, Kept
  <1>7. OthersSame(f)
    BY <1>1, <1>5, KeptOthers
  <1>8. ASSUME NEW at \in Nat, at < Nblocks(f) * NINDIRECT
        PROVE  WordAt(f, at)' = WordAt(f, at) /\ WordAt(f, at) \in {0, Stamp[f]}
    BY <1>5, <1>8, KeptWords, WordOwn
  <1>9. ASSUME NEW at \in Nat, at < want PROVE at < Nblocks(f) * NINDIRECT
    <2>1. want <= Nblocks(f) * NINDIRECT
      BY SizeInBlocks
    <2>2. Nblocks(f) * NINDIRECT \in Nat
      BY PlacesOf, WholeBlocks
    <2> QED  BY <1>9, <2>1, <2>2
  <1>10. Regrown(f)
    BY <1>1, <1>8, <1>9 DEF Regrown
  <1> QED  BY <1>1, <1>4, <1>6, <1>7, <1>10 DEF FileStep

\* A data block of file f gets the words w.
LEMMA BlockIsWritten ==
    ASSUME FilesInv, NEW f \in Files, NEW k \in 0 .. Nblocks(f) - 1, NEW w \in [WordIndex -> Nat],
           disk' = [disk EXCEPT ![BlockAt(f, k)] = w], UNCHANGED <<freemap, inodes>>
    PROVE  /\ FilesInv'
           /\ \A g \in Files : /\ Nblocks(g)' = Nblocks(g)
                               /\ \A l \in 0 .. Nblocks(g) - 1 :
                                    /\ BlockAt(g, l)' = BlockAt(g, l)
                                    /\ disk'[BlockAt(g, l)] =
                                         IF g = f /\ l = k THEN w ELSE disk[BlockAt(g, l)]
  <1>1. PICK b : b = BlockAt(f, k)
    OBVIOUS
  <1>2. b \in Blocks /\ disk \in [Blocks -> [WordIndex -> Nat]]
    BY <1>1, PlacesOf, Ranges DEF FilesInv, FilesShape
  <1>3. /\ disk' \in [Blocks -> [WordIndex -> Nat]] /\ disk'[b] = w
        /\ \A c \in Blocks : c # b => disk'[c] = disk[c]
    BY <1>1, <1>2
  <1>4. PICK D : D = {b}
    OBVIOUS
  <1>5. \A g \in Files : Nblocks(g) > NDIRECT => oi_indirect[g] \notin D
    BY <1>1, <1>4, IndirectApart
  <1>6. \A c \in Blocks : c \notin D => disk'[c] = disk[c]
    BY <1>3, <1>4
  <1>7. /\ FilesInv'
        /\ \A g \in Files : /\ Nblocks(g)' = Nblocks(g)
                            /\ \A l \in 0 .. Nblocks(g) - 1 : BlockAt(g, l)' = BlockAt(g, l)
    BY <1>3, <1>5, <1>6, PointersUntouched
  <1>8. ASSUME NEW g \in Files, NEW l \in 0 .. Nblocks(g) - 1
        PROVE  disk'[BlockAt(g, l)] = IF g = f /\ l = k THEN w ELSE disk[BlockAt(g, l)]
    <2>1. CASE g = f /\ l = k
      BY <2>1, <1>1, <1>3
    <2>2. CASE ~(g = f /\ l = k)
      <3>1. PointersApart /\ k \in Places(f) /\ l \in Places(g)
            /\ Pointer(f, k) = BlockAt(f, k) /\ Pointer(g, l) = BlockAt(g, l)
        BY PlacesOf DEF FilesInv
      <3>2. BlockAt(g, l) # BlockAt(f, k)
        BY ONLY <2>2, <3>1, f \in Files, g \in Files, OneBlockOnePlace
      <3>3. BlockAt(g, l) \in Blocks
        BY PlacesOf, Ranges
      <3> QED  BY <1>1, <1>3, <2>2, <3>2, <3>3
    <2> QED  BY <2>1, <2>2
  <1> QED  BY <1>7, <1>8

\* The part of the span of a call that lies in one block.
LEMMA SpanBounds ==
    ASSUME NEW j, j.pos \in Nat, j.end \in Nat, j.pos < j.end
    PROVE  /\ SpanEnd(j) \in Nat /\ j.pos < SpanEnd(j) /\ SpanEnd(j) <= j.end
           /\ SpanEnd(j) <= (j.pos \div NINDIRECT + 1) * NINDIRECT
           /\ (j.pos \div NINDIRECT) * NINDIRECT <= j.pos
           /\ (j.pos \div NINDIRECT) * NINDIRECT \in Nat
           /\ (j.pos \div NINDIRECT + 1) * NINDIRECT = (j.pos \div NINDIRECT) * NINDIRECT + NINDIRECT
  <1>1. PICK q \in Nat : q = j.pos \div NINDIRECT
    BY Ranges
  <1>2. PICK r \in 0 .. NINDIRECT - 1 : j.pos = q * NINDIRECT + r
    BY <1>1, WordInBlock DEF WordIndex
  <1>3. PICK next \in Nat : next = (q + 1) * NINDIRECT
    BY <1>1, Ranges
  <1>4. next = q * NINDIRECT + NINDIRECT /\ q * NINDIRECT \in Nat
    BY <1>3, Ranges
  <1>5. j.pos < next
    BY <1>2, <1>4, Ranges
  <1>6. SpanEnd(j) = IF next < j.end THEN next ELSE j.end
    BY <1>1, <1>3 DEF SpanEnd
  <1>7. SpanEnd(j) \in Nat /\ j.pos < SpanEnd(j) /\ SpanEnd(j) <= j.end /\ SpanEnd(j) <= next
    BY <1>5, <1>6
  <1>8. q * NINDIRECT <= j.pos
    BY <1>2, <1>4, Ranges
  <1> QED  BY <1>1, <1>3, <1>4, <1>7, <1>8

\* The words at of the block that has the word pos.
LEMMA SameBlock ==
    ASSUME NEW q \in Nat, NEW at \in Nat, q * NINDIRECT <= at, at < (q + 1) * NINDIRECT
    PROVE  at \div NINDIRECT = q /\ at = q * NINDIRECT + (at % NINDIRECT)
  <1>1. q * NINDIRECT \in Nat /\ (q + 1) * NINDIRECT = q * NINDIRECT + NINDIRECT
    BY Ranges
  <1>2. PICK r \in 0 .. NINDIRECT - 1 : at = q * NINDIRECT + r
    <2>1. at - q * NINDIRECT \in 0 .. NINDIRECT - 1 /\ at = q * NINDIRECT + (at - q * NINDIRECT)
      BY <1>1, Ranges
    <2> QED  BY <2>1
  <1>3. (q * NINDIRECT + r) \div NINDIRECT = q
    BY Ranges
  <1>4. (q * NINDIRECT + r) % NINDIRECT = r
    BY Ranges
  <1> QED  BY <1>2, <1>3, <1>4

\* The words of file f after the part of the span in one block was written, up
\* to upto, and the rest of it zeroed.
SpanHolds(f, j, upto) ==
    \A at \in 0 .. oi_size[f] - 1 :
        WordAt(f, at)' = IF j.pos <= at /\ at < SpanEnd(j)
                         THEN IF at < upto THEN Stamp[f] ELSE 0
                         ELSE WordAt(f, at)

\* An iteration of ospfs_write: copy_from_user gets to upto, or fails there.
LEMMA SpanIsWritten ==
    ASSUME FilesInv, WordsOwn, NEW f \in Files, NEW j, j.file = f, j.pos \in Nat, j.end \in Nat,
           j.pos < j.end, j.end <= oi_size[f], NEW upto \in Nat, j.pos <= upto,
           disk' = [disk EXCEPT ![BlockAt(f, j.pos \div NINDIRECT)] =
                        Copied(BlockAt(f, j.pos \div NINDIRECT), j, upto)],
           UNCHANGED <<freemap, inodes>>
    PROVE  FilesInv' /\ WordsOwn' /\ FileStep(f) /\ SpanHolds(f, j, upto)
  <1>0. PICK size \in Nat : size = oi_size[f]
    BY DEF FilesInv, FilesShape
  <1>1. j.pos < size
    BY <1>0
  <1>2. PICK k \in 0 .. Nblocks(f) - 1 : k = j.pos \div NINDIRECT
    BY <1>0, <1>1, WordInFile
  <1>3. PICK w : w = Copied(BlockAt(f, k), j, upto)
    OBVIOUS
  <1>4. PICK e \in Nat : e = SpanEnd(j)
    BY SpanBounds
  <1>5. /\ j.pos < e /\ e <= j.end /\ e <= size
        /\ k \in Nat /\ k * NINDIRECT \in Nat /\ k * NINDIRECT <= j.pos /\ e <= (k + 1) * NINDIRECT
    BY <1>0, <1>2, <1>4, SpanBounds, PlacesOf
  <1>6. disk[BlockAt(f, k)] \in [WordIndex -> Nat] /\ \A i \in WordIndex : disk[BlockAt(f, k)][i] \in {0, Stamp[f]}
    BY PlacesOf, Ranges DEF FilesInv, FilesShape, WordsOwn
  <1>7. w = [i \in WordIndex |->
                IF k * NINDIRECT + i < j.pos \/ k * NINDIRECT + i >= e THEN disk[BlockAt(f, k)][i]
                ELSE IF k * NINDIRECT + i < upto THEN Stamp[f] ELSE 0]
    BY <1>2, <1>3, <1>4 DEF Copied
  <1>8. w \in [WordIndex -> Nat] /\ \A i \in WordIndex : w[i] \in {0, Stamp[f]}
    BY <1>6, <1>7, Ranges
  <1>9. disk' = [disk EXCEPT ![BlockAt(f, k)] = w]
    BY <1>2, <1>3
  <1>10. /\ FilesInv'
         /\ \A g \in Files : /\ Nblocks(g)' = Nblocks(g)
                             /\ \A l \in 0 .. Nblocks(g) - 1 :
                                  /\ BlockAt(g, l)' = BlockAt(g, l)
                                  /\ disk'[BlockAt(g, l)] =
                                       IF g = f /\ l = k THEN w ELSE disk[BlockAt(g, l)]
    BY ONLY FilesInv, f \in Files, UNCHANGED <<freemap, inodes>>, <1>2, <1>8, <1>9, BlockIsWritten
  <1>11. WordsOwn'
    BY <1>8, <1>10 DEF WordsOwn
  <1>12. oi_size' = oi_size
    BY DEF inodes
  <1>13. OthersSame(f)
    <2>1. \A g \in Files \ {f} : Kept(g)
      BY <1>10 DEF Kept
    <2> QED  BY <1>12, <2>1, KeptOthers
  <1>14. ASSUME NEW at \in 0 .. size - 1
         PROVE  WordAt(f, at)' = IF j.pos <= at /\ at < e
                                 THEN IF at < upto THEN Stamp[f] ELSE 0
                                 ELSE WordAt(f, at)
    <2>1. at \in Nat /\ at < oi_size[f]
      BY <1>0
    <2>2. PICK l \in 0 .. Nblocks(f) - 1 : l = at \div NINDIRECT
      BY <2>1, WordInFile
    <2>3. PICK i \in WordIndex : i = at % NINDIRECT
      BY <2>1, WordInBlock
    <2>4. WordAt(f, at)' = IF l = k THEN w[i] ELSE disk[BlockAt(f, l)][i]
      <3>1. WordAt(f, at)' = disk'[BlockAt(f, l)'][i]
        BY <2>2, <2>3 DEF WordAt
      <3> QED  BY <1>10, <3>1
    <2>5. WordAt(f, at) = disk[BlockAt(f, l)][i]
      BY <2>2, <2>3 DEF WordAt
    <2>6. CASE l = k
      <3>1. at = k * NINDIRECT + i
        BY <2>1, <2>2, <2>3, <2>6, WordInBlock
      <3>2. w[i] = IF at < j.pos \/ at >= e THEN disk[BlockAt(f, k)][i]
                   ELSE IF at < upto THEN Stamp[f] ELSE 0
        BY <1>7, <3>1
      <3> QED  BY <1>5, <2>1, <2>4, <2>5, <2>6, <3>2
    <2>7. CASE l # k
      <3>1. ~(j.pos <= at /\ at < e)
        <4> SUFFICES ASSUME j.pos <= at, at < e PROVE FALSE
          OBVIOUS
        <4>1. k * NINDIRECT <= at /\ at < (k + 1) * NINDIRECT
          <5>1. (k + 1) * NINDIRECT \in Nat
            BY <1>5, Ranges
          <5> QED  BY <1>5, <2>1, <5>1
        <4> QED  BY <1>5, <2>1, <2>2, <2>7, <4>1, SameBlock
      <3> QED  BY <2>4, <2>5, <2>7, <3>1
    <2> QED  BY <2>6, <2>7
  <1>15. Spanned(f)
    <2>1. PICK u \in 0 .. size : u = IF upto < e THEN upto ELSE e
      BY <1>5
    <2>2. j.pos \in 0 .. oi_size[f] /\ u \in 0 .. oi_size[f] /\ e \in 0 .. oi_size[f]
      BY <1>0, <1>1, <1>5, <2>1
    <2>3. \A at \in 0 .. size - 1 :
            WordAt(f, at)' = IF j.pos <= at /\ at < u THEN Stamp[f]
                             ELSE IF u <= at /\ at < e THEN 0
                             ELSE WordAt(f, at)
      BY <1>5, <1>14, <2>1
    <2>4. \E from, last, to \in 0 .. oi_size[f] :
            \A at \in 0 .. oi_size[f] - 1 :
              WordAt(f, at)' = IF from <= at /\ at < last THEN Stamp[f]
                               ELSE IF last <= at /\ at < to THEN 0
                               ELSE WordAt(f, at)
      <3> USE <2>2
      <3> WITNESS j.pos \in 0 .. oi_size[f], u \in 0 .. oi_size[f], e \in 0 .. oi_size[f]
      <3> QED  BY <1>0, <2>3
    <2> QED  BY ONLY <1>12, <2>4, Zenon DEF Spanned
  <1>16. SpanHolds(f, j, upto)
    BY <1>0, <1>4, <1>14 DEF SpanHolds
  <1> QED  BY <1>10, <1>11, <1>13, <1>15, <1>16 DEF FileStep

-----------------------------------------------------------------------------
(* The system calls. *)

SomeFile == Files \cup {CHOOSE f \in Files : TRUE}
Ops == {"none", "truncate", "write", "read"}
Answers == {"ok", "enospc", "eio", "efault"}
Jobs == [op : Ops, file : SomeFile,
         want : Nat, old : Nat, count : Nat, r : Answers,
         pos : Nat, end : Nat, blockno : Nat, buffer : Seq(Nat), start : Nat, orig : Nat]

\* In the loops of change_size: how many blocks are added or removed so far.
Resizing(p, f) ==
    LET j == job[p]
        T == ospfs_size2nblocks(j.want)
    IN  /\ j.op \in {"truncate", "write"} /\ j.r = "ok" /\ j.want \in Sizes
        /\ j.orig < COUNTS /\ j.old = ospfs_size2nblocks(j.orig)
        /\ j.old <= T => Nblocks(f) = j.old + j.count /\ j.old + j.count <= T
        /\ j.old > T => Nblocks(f) = j.old - j.count /\ j.old - j.count >= T
        /\ j.op = "write" => j.pos = j.start /\ j.pos < j.end /\ j.end = j.want
        /\ j.op = "truncate" => j.end = 0

\* In the loop that undoes a growth: it has at most that many blocks to remove.
Undoing(p, f) ==
    LET j == job[p]
    IN  /\ j.op \in {"truncate", "write"} /\ j.r = "enospc"
        /\ j.orig < COUNTS /\ j.old = ospfs_size2nblocks(j.orig)
        /\ Nblocks(f) = 0 \/ Nblocks(f) + 1 <= j.old + j.count

\* The words from the start of the call up to upto are written.
WrittenTo(p, f, upto) ==
    upto <= oi_size[f] /\ \A at \in job[p].start .. upto - 1 : WordAt(f, at) = Stamp[f]

Copying(p, f) ==
    LET j == job[p]
    IN  /\ j.op = "write" /\ j.r = "ok"
        /\ j.start <= j.pos /\ j.pos < j.end /\ j.end <= oi_size[f]
        /\ WrittenTo(p, f, j.pos)

\* The words from the start of the call up to upto are in the user's buffer.
ReadTo(p, f, upto) ==
    /\ job[p].start <= upto /\ upto <= oi_size[f] /\ Len(job[p].buffer) = upto - job[p].start
    /\ \A i \in 1 .. upto - job[p].start : job[p].buffer[i] = WordAt(f, job[p].start + i - 1)

AskedEnd(p, f) == IF job[p].want < oi_size[f] THEN job[p].want ELSE oi_size[f]

Reading(p, f) ==
    LET j == job[p]
    IN  /\ j.op = "read" /\ j.r = "ok" /\ j.orig = oi_size[f] /\ j.pos < j.end
        /\ IF j.start > j.orig THEN j.pos = j.start
           ELSE j.end = AskedEnd(p, f) /\ ReadTo(p, f, j.pos)

Ending(p, f) ==
    LET j == job[p]
    IN  /\ j.r = "eio" => j.op = "read" /\ j.start > j.orig
        /\ j.op = "write" /\ j.r = "ok" => WrittenTo(p, f, j.end)
        /\ j.op = "read" /\ j.r = "ok" => ReadTo(p, f, AskedEnd(p, f))

CallInv(p, f) ==
    /\ pc[p] = "resize" => Resizing(p, f)
    /\ pc[p] = "undo" => Undoing(p, f)
    /\ pc[p] = "copy" => Copying(p, f)
    /\ pc[p] = "read" => Reading(p, f)
    /\ pc[p] = "done" => Ending(p, f)

\* Without sleep, one process at a time is in the driver.
CallsShape ==
    /\ pc \in [Procs -> {"user", "resize", "undo", "copy", "read", "done"}]
    /\ job \in [Procs -> Jobs]
    /\ \A p, q \in Procs : pc[p] # "user" /\ pc[q] # "user" => p = q
    /\ \A p \in Procs : pc[p] # "user" => job[p].file \in Files

CallsInv == \A p \in Procs : \A f \in Files : pc[p] # "user" /\ job[p].file = f => CallInv(p, f)

\* A size is less than COUNTS unless change_size is at it.
SizesFit ==
    \A f \in Files :
        \/ oi_size[f] < COUNTS
        \/ \E p \in Procs : pc[p] \in {"resize", "undo"} /\ job[p].file = f

DriverInv == FilesInv /\ WordsOwn /\ CallsShape /\ CallsInv /\ SizesFit

\* The locals of a new call.
NewJobOf(j, op, f, want, pos, end) ==
    /\ j \in Jobs /\ j = NewJob(op, f, want, pos, end)
    /\ j.op = op /\ j.file = f /\ j.want = want /\ j.old = Nblocks(f) /\ j.count = 0 /\ j.r = "ok"
    /\ j.pos = pos /\ j.end = end /\ j.buffer = <<>> /\ j.start = pos /\ j.orig = oi_size[f]

LEMMA JobOfCall ==
    ASSUME NEW op \in {"truncate", "write", "read"}, FilesInv, NEW f \in Files,
           NEW want \in Nat, NEW pos \in Nat, NEW end \in Nat
    PROVE  NewJobOf(NewJob(op, f, want, pos, end), op, f, want, pos, end)
  <1>1. Nblocks(f) \in Nat /\ oi_size[f] \in Nat /\ <<>> \in Seq(Nat)
    BY PlacesOf DEF FilesInv, FilesShape
  <1> QED  BY <1>1 DEF NewJob, NewJobOf, Jobs, SomeFile, Ops, Answers

LEMMA NoJobIsJob == NoJob \in Jobs
  <1>1. <<>> \in Seq(Nat)
    OBVIOUS
  <1> QED  BY <1>1 DEF NoJob, Jobs, SomeFile, Ops, Answers

\* How a step changes the locals.
LEMMA JobCounts ==
    ASSUME NEW j \in Jobs, NEW n \in Nat
    PROVE  [j EXCEPT !.count = n] \in Jobs /\ [j EXCEPT !.pos = n, !.blockno = 0] \in Jobs
  BY DEF Jobs

LEMMA JobAnswers ==
    ASSUME NEW j \in Jobs, NEW r \in Answers
    PROVE  /\ [j EXCEPT !.r = r] \in Jobs
           /\ \A n \in Nat : [j EXCEPT !.count = n, !.r = r] \in Jobs
  BY DEF Jobs

LEMMA JobReads ==
    ASSUME NEW j \in Jobs, NEW n \in Nat, NEW b \in Seq(Nat)
    PROVE  [j EXCEPT !.pos = n, !.blockno = 0, !.buffer = b] \in Jobs
  BY DEF Jobs

\* A step of p leaves the others outside the driver.
LEMMA OneCall ==
    ASSUME CallsShape, CallsInv, NEW p \in Procs, CanRun(p),
           NEW there \in {"user", "resize", "undo", "copy", "read", "done"}, NEW j \in Jobs,
           pc' = [pc EXCEPT ![p] = there], job' = [job EXCEPT ![p] = j],
           there # "user" => j.file \in Files /\ \A f \in Files : j.file = f => CallInv(p, f)'
    PROVE  CallsShape' /\ CallsInv' /\ \A q \in Procs \ {p} : pc[q] = "user"
  <1>1. /\ pc' \in [Procs -> {"user", "resize", "undo", "copy", "read", "done"}]
        /\ job' \in [Procs -> Jobs] /\ pc'[p] = there /\ job'[p] = j
        /\ \A q \in Procs \ {p} : pc'[q] = pc[q] /\ job'[q] = job[q]
    BY DEF CallsShape
  <1>2. \A q \in Procs \ {p} : pc[q] = "user"
    BY DEF CallsShape, CanRun
  <1>3. CallsShape'
    BY <1>1, <1>2 DEF CallsShape
  <1>4. CallsInv'
    BY <1>1, <1>2 DEF CallsInv
  <1> QED  BY <1>2, <1>3, <1>4

\* Sizes of files that the step does not change.
LEMMA SizesStillFit ==
    ASSUME SizesFit, NEW p \in Procs, NEW f \in Files,
           \A q \in Procs \ {p} : pc[q] = "user",
           \A q \in Procs \ {p} : pc'[q] = pc[q] /\ job'[q] = job[q],
           pc[p] # "user" => job[p].file = f,
           \A g \in Files \ {f} : oi_size'[g] = oi_size[g],
           oi_size'[f] < COUNTS \/ (pc'[p] \in {"resize", "undo"} /\ job'[p].file = f)
    PROVE  SizesFit'
  <1> SUFFICES ASSUME NEW g \in Files
               PROVE  \/ oi_size'[g] < COUNTS
                      \/ \E q \in Procs : pc'[q] \in {"resize", "undo"} /\ job'[q].file = g
    BY DEF SizesFit
  <1>1. CASE g = f
    BY <1>1
  <1>2. CASE g # f
    <2>1. oi_size[g] < COUNTS
      BY <1>2 DEF SizesFit
    <2> QED  BY <1>2, <2>1
  <1> QED  BY <1>1, <1>2

\* A step that changes no file, for whatever file f.
LEMMA FilesStay ==
    ASSUME FilesInv, WordsOwn, NEW f \in Files, UNCHANGED <<freemap, disk, inodes>>
    PROVE  /\ FilesInv' /\ WordsOwn' /\ FileStep(f) /\ oi_size' = oi_size
           /\ \A g \in Files : Nblocks(g)' = Nblocks(g)
           /\ \A g \in Files : \A at \in Nat : WordAt(g, at)' = WordAt(g, at)
  <1>1. /\ freemap' = freemap /\ disk' = disk /\ oi_size' = oi_size /\ oi_direct' = oi_direct
        /\ oi_indirect' = oi_indirect /\ oi_indirect2' = oi_indirect2
    BY DEF inodes
  <1>2. ASSUME NEW g \in Files, NEW k PROVE BlockAt(g, k)' = BlockAt(g, k)
    BY <1>1 DEF BlockAt
  <1>3. \A g \in Files : Kept(g)
    BY <1>1, <1>2 DEF Kept
  <1>4. WordsOwn' /\ FileStep(f)
    BY <1>3, NothingHappens
  <1>5. FilesInv'
    <2>1. disk' \in [Blocks -> [WordIndex -> Nat]]
      BY <1>1 DEF FilesInv, FilesShape
    <2>2. PICK D : D = {}
      OBVIOUS
    <2> QED  BY <1>1, <2>1, <2>2, PointersUntouched
  <1>6. ASSUME NEW g \in Files, NEW at \in Nat PROVE WordAt(g, at)' = WordAt(g, at)
    <2>1. PICK k : k = at \div NINDIRECT
      OBVIOUS
    <2>2. BlockAt(g, k)' = BlockAt(g, k)
      BY <1>2
    <2> QED  BY <1>1, <2>1, <2>2 DEF WordAt
  <1> QED  BY <1>1, <1>4, <1>5, <1>6 DEF Nblocks

\* What a step has to show.
Stepped == DriverInv' /\ \E f \in Files : FileStep(f)

\* A process that may start a call finds nobody in the driver.
LEMMA Free ==
    ASSUME DriverInv, NEW p \in Procs, pc[p] = "user", CanRun(p), NEW f \in Files
    PROVE  oi_size[f] \in Nat /\ oi_size[f] < COUNTS
  <1>1. \A q \in Procs : pc[q] = "user"
    BY DEF DriverInv, CallsShape, CanRun
  <1> QED  BY <1>1 DEF DriverInv, SizesFit, FilesInv, FilesShape

\* A step by which p starts a call on f.
LEMMA CallStarts ==
    ASSUME DriverInv, NEW p \in Procs, CanRun(p), pc[p] = "user", NEW f \in Files,
           NEW there \in {"resize", "copy", "read", "done"}, NEW j \in Jobs, j.file = f,
           pc' = [pc EXCEPT ![p] = there], job' = [job EXCEPT ![p] = j],
           UNCHANGED <<freemap, disk, inodes>>, CallInv(p, f)'
    PROVE  Stepped
  <1>1. FilesInv' /\ WordsOwn' /\ FileStep(f) /\ oi_size' = oi_size
    BY FilesStay DEF DriverInv
  <1>2. CallsShape' /\ CallsInv' /\ \A q \in Procs \ {p} : pc[q] = "user"
    BY OneCall DEF DriverInv
  <1>3. SizesFit'
    <2>1. oi_size'[f] < COUNTS
      BY <1>1, Free
    <2>2. \A q \in Procs \ {p} : pc'[q] = pc[q] /\ job'[q] = job[q]
      BY DEF DriverInv, CallsShape
    <2> QED  BY <1>1, <1>2, <2>1, <2>2, SizesStillFit DEF DriverInv
  <1> QED  BY <1>1, <1>2, <1>3 DEF Stepped, DriverInv

LEMMA TruncateStep ==
    ASSUME DriverInv, NEW p \in Procs, NEW f \in Files, NEW want \in Sizes, Truncate(p, f, want)
    PROVE  Stepped
  <1>1. want \in Nat /\ 0 \in Nat /\ FilesInv
    BY BlocksAssumption DEF DriverInv
  <1>2. PICK j \in Jobs : NewJobOf(j, "truncate", f, want, 0, 0)
    <2>1. NewJobOf(NewJob("truncate", f, want, 0, 0), "truncate", f, want, 0, 0)
      BY <1>1, JobOfCall
    <2> QED  BY <2>1 DEF NewJobOf
  <1>3. /\ pc[p] = "user" /\ CanRun(p) /\ job' = [job EXCEPT ![p] = j]
        /\ pc' = [pc EXCEPT ![p] = "resize"] /\ UNCHANGED <<freemap, disk, inodes>>
    BY <1>2 DEF NewJobOf, Truncate, Go
  <1>4. job'[p] = j /\ pc'[p] = "resize"
    BY <1>3 DEF DriverInv, CallsShape
  <1>5. Nblocks(f)' = Nblocks(f) /\ Nblocks(f) \in Nat
    BY <1>1, <1>3, PlacesOf DEF inodes, Nblocks
  <1>6. oi_size[f] \in Nat /\ oi_size[f] < COUNTS
    BY <1>3, Free
  <1>7. ospfs_size2nblocks(want) \in Nat
    BY <1>1, SizeInBlocks
  <1>8. Resizing(p, f)'
    BY <1>2, <1>4, <1>5, <1>6, <1>7 DEF NewJobOf, Resizing, Nblocks, ospfs_size2nblocks
  <1>9. CallInv(p, f)'
    BY <1>4, <1>8 DEF CallInv
  <1> QED  BY <1>2, <1>3, <1>9, CallStarts DEF NewJobOf

LEMMA WriteStep ==
    ASSUME DriverInv, NEW p \in Procs, NEW f \in Files, NEW pos \in Nat, NEW end \in Sizes,
           Write(p, f, pos, end)
    PROVE  Stepped
  <1>1. end \in Nat /\ FilesInv
    BY BlocksAssumption DEF DriverInv
  <1>2. PICK j \in Jobs : NewJobOf(j, "write", f, end, pos, end)
    <2>1. NewJobOf(NewJob("write", f, end, pos, end), "write", f, end, pos, end)
      BY <1>1, JobOfCall
    <2> QED  BY <2>1 DEF NewJobOf
  <1>3. /\ pc[p] = "user" /\ CanRun(p) /\ pos < end /\ job' = [job EXCEPT ![p] = j]
        /\ pc' = [pc EXCEPT ![p] = IF end > oi_size[f] THEN "resize" ELSE "copy"]
        /\ UNCHANGED <<freemap, disk, inodes>>
    BY <1>2 DEF NewJobOf, Write, Go
  <1>4. job'[p] = j /\ pc'[p] = IF end > oi_size[f] THEN "resize" ELSE "copy"
    BY <1>3 DEF DriverInv, CallsShape
  <1>5. Nblocks(f)' = Nblocks(f) /\ Nblocks(f) \in Nat /\ oi_size'[f] = oi_size[f]
    BY <1>1, <1>3, PlacesOf DEF inodes, Nblocks
  <1>6. oi_size[f] \in Nat /\ oi_size[f] < COUNTS
    BY <1>3, Free
  <1>7. ospfs_size2nblocks(end) \in Nat
    BY <1>1, SizeInBlocks
  <1>8. CASE end > oi_size[f]
    <2>1. Resizing(p, f)'
      BY <1>2, <1>3, <1>4, <1>5, <1>6, <1>7 DEF NewJobOf, Resizing, Nblocks, ospfs_size2nblocks
    <2>2. pc'[p] = "resize" /\ pc' = [pc EXCEPT ![p] = "resize"]
      BY ONLY <1>3, <1>4, <1>8
    <2>3. CallInv(p, f)'
      BY <2>1, <2>2 DEF CallInv
    <2> QED  BY <1>2, <1>3, <2>2, <2>3, CallStarts DEF NewJobOf
  <1>9. CASE ~(end > oi_size[f])
    <2>1. Copying(p, f)'
      BY <1>1, <1>2, <1>3, <1>4, <1>5, <1>6, <1>9 DEF NewJobOf, Copying, WrittenTo
    <2>2. pc'[p] = "copy" /\ pc' = [pc EXCEPT ![p] = "copy"]
      BY ONLY <1>3, <1>4, <1>9
    <2>3. CallInv(p, f)'
      BY <2>1, <2>2 DEF CallInv
    <2> QED  BY <1>2, <1>3, <2>2, <2>3, CallStarts DEF NewJobOf
  <1> QED  BY <1>8, <1>9

LEMMA Wraps ==
    ASSUME NEW C \in Nat, NEW x \in Int, x < C, -C < x
    PROVE  x % C \in Nat /\ (x >= 0 => x % C = x) /\ (x < 0 => x % C > 0)
  <1>1. x >= 0 => x % C = x
    OBVIOUS
  <1>2. x < 0 => x % C = x + C
    OBVIOUS
  <1> QED  BY <1>1, <1>2

LEMMA ReadStep ==
    ASSUME DriverInv, NEW p \in Procs, NEW f \in Files, NEW pos \in ReadSeeks, NEW end \in Sizes,
           Read(p, f, pos, end)
    PROVE  Stepped
  <1>1. end \in Nat /\ pos \in Nat /\ pos < COUNTS /\ COUNTS \in Nat /\ FilesInv
    BY BlocksAssumption DEF DriverInv
  <1>a. pc[p] = "user" /\ CanRun(p) /\ pos < end
    BY DEF Read
  <1>2. PICK size \in Nat : size = oi_size[f] /\ size < COUNTS
    BY <1>a, Free
  <1>3. PICK to \in Nat : /\ to = ReadEnd(f, pos, end)
                          /\ end <= size => to = end
                          /\ end > size /\ pos <= size => to = size
                          /\ end > size /\ pos > size => pos < to
    <2>1. /\ (size - pos) % COUNTS \in Nat
          /\ pos <= size => (size - pos) % COUNTS = size - pos
          /\ pos > size => (size - pos) % COUNTS > 0
      <3>1. PICK x \in Int : x = size - pos
        BY <1>1
      <3>2. x < COUNTS /\ -COUNTS < x /\ (x >= 0 <=> pos <= size)
        BY <1>1, <1>2, <3>1
      <3> QED  BY <1>1, <3>1, <3>2, Wraps
    <2>2. PICK m \in Nat : m = (size - pos) % COUNTS
      BY <2>1
    <2>3. ReadEnd(f, pos, end) = IF end > size THEN pos + m ELSE end
      BY <1>2, <2>2 DEF ReadEnd
    <2> QED  BY <1>1, <1>2, <2>1, <2>2, <2>3
  <1>4. PICK j \in Jobs : NewJobOf(j, "read", f, end, pos, to)
    <2>1. NewJobOf(NewJob("read", f, end, pos, to), "read", f, end, pos, to)
      BY <1>1, JobOfCall
    <2> QED  BY <2>1 DEF NewJobOf
  <1>5. /\ job' = [job EXCEPT ![p] = j] /\ pc' = [pc EXCEPT ![p] = IF pos < to THEN "read" ELSE "done"]
        /\ UNCHANGED <<freemap, disk, inodes>>
    BY <1>3, <1>4 DEF NewJobOf, Read, Go
  <1>6. job'[p] = j /\ pc'[p] = (IF pos < to THEN "read" ELSE "done") /\ oi_size'[f] = size
    BY <1>2, <1>5 DEF DriverInv, CallsShape, inodes
  <1>7. /\ job'[p].op = "read" /\ job'[p].r = "ok" /\ job'[p].orig = size /\ job'[p].start = pos
        /\ job'[p].pos = pos /\ job'[p].end = to /\ job'[p].want = end /\ job'[p].buffer = <<>>
    BY <1>2, <1>4, <1>6 DEF NewJobOf
  <1>8. pos <= size => ReadTo(p, f, pos)'
    BY <1>1, <1>6, <1>7 DEF ReadTo
  <1>9. PICK asked \in Nat : asked = AskedEnd(p, f)' /\ asked = IF end < size THEN end ELSE size
    BY <1>1, <1>6, <1>7 DEF AskedEnd
  <1>10. CASE pos < to
    <2>1. pos <= size => to = asked
      BY <1>1, <1>3, <1>9, <1>a
    <2>2. Reading(p, f)'
      <3>1. CASE pos > size
        BY <1>6, <1>7, <1>10, <3>1 DEF Reading
      <3>2. CASE ~(pos > size)
        <4>1. pos <= size
          BY <1>1, <3>2
        <4>2. job'[p].end = AskedEnd(p, f)' /\ ReadTo(p, f, pos)'
          BY <1>7, <1>8, <1>9, <2>1, <4>1
        <4>3. ReadTo(p, f, job[p].pos)'
          BY <1>7, <4>2 DEF ReadTo
        <4> QED  BY <1>6, <1>7, <1>10, <3>2, <4>2, <4>3 DEF Reading
      <3> QED  BY <3>1, <3>2
    <2>3. CallInv(p, f)' /\ pc' = [pc EXCEPT ![p] = "read"]
      BY <1>5, <1>6, <1>10, <2>2 DEF CallInv
    <2> QED  BY <1>a, <1>4, <1>5, <2>3, CallStarts DEF NewJobOf
  <1>11. CASE ~(pos < to)
    <2>1. pos = size /\ asked = pos
      BY <1>1, <1>3, <1>9, <1>11, <1>a
    <2>2. ReadTo(p, f, AskedEnd(p, f))'
      BY <1>8, <1>9, <2>1 DEF ReadTo
    <2>3. Ending(p, f)'
      BY <1>7, <2>2 DEF Ending
    <2>4. CallInv(p, f)' /\ pc' = [pc EXCEPT ![p] = "done"]
      BY <1>5, <1>6, <1>11, <2>3 DEF CallInv
    <2> QED  BY <1>a, <1>4, <1>5, <2>4, CallStarts DEF NewJobOf
  <1> QED  BY <1>10, <1>11

\* The call that a process in the driver is in.
LEMMA InCall ==
    ASSUME DriverInv, NEW p \in Procs, pc[p] # "user"
    PROVE  /\ job[p] \in Jobs /\ job[p].file \in Files
           /\ \A f \in Files : job[p].file = f => CallInv(p, f)
           /\ pc[p] \notin {"resize", "undo"} => \A f \in Files : oi_size[f] < COUNTS
  <1>1. /\ job[p] \in Jobs /\ job[p].file \in Files
        /\ \A f \in Files : job[p].file = f => CallInv(p, f)
    BY DEF DriverInv, CallsShape, CallsInv
  <1>2. \A q \in Procs : q # p => pc[q] = "user"
    BY DEF DriverInv, CallsShape
  <1>3. pc[p] \notin {"resize", "undo"} => \A f \in Files : oi_size[f] < COUNTS
    BY <1>2 DEF DriverInv, SizesFit
  <1> QED  BY <1>1, <1>3

LEMMA CallGoesOn ==
    ASSUME DriverInv, NEW p \in Procs, CanRun(p), pc[p] # "user", NEW f \in Files, job[p].file = f,
           NEW there \in {"user", "resize", "undo", "copy", "read", "done"}, NEW j \in Jobs,
           there # "user" => j.file = f /\ CallInv(p, f)',
           pc' = [pc EXCEPT ![p] = there], job' = [job EXCEPT ![p] = j],
           FilesInv', WordsOwn', FileStep(f),
           there \notin {"resize", "undo"} => oi_size'[f] < COUNTS
    PROVE  Stepped
  <1>1. CallsShape' /\ CallsInv' /\ \A q \in Procs \ {p} : pc[q] = "user"
    BY OneCall DEF DriverInv
  <1>2. SizesFit'
    <2>1. /\ pc'[p] = there /\ job'[p] = j
          /\ \A q \in Procs \ {p} : pc'[q] = pc[q] /\ job'[q] = job[q]
      BY DEF DriverInv, CallsShape
    <2>2. \A g \in Files \ {f} : oi_size'[g] = oi_size[g]
      BY DEF FileStep, OthersSame
    <2>3. oi_size'[f] < COUNTS \/ (pc'[p] \in {"resize", "undo"} /\ job'[p].file = f)
      BY <2>1
    <2> QED  BY <1>1, <2>1, <2>2, <2>3, SizesStillFit DEF DriverInv
  <1> QED  BY <1>1, <1>2 DEF Stepped, DriverInv

LEMMA ReturnStep ==
    ASSUME DriverInv, NEW p \in Procs, Return(p)
    PROVE  Stepped
  <1>1. /\ pc[p] = "done" /\ pc[p] # "user" /\ CanRun(p) /\ UNCHANGED <<freemap, disk, inodes>>
        /\ job' = [job EXCEPT ![p] = NoJob] /\ pc' = [pc EXCEPT ![p] = "user"]
    BY DEF Return, Go
  <1>2. PICK f \in Files : job[p].file = f
    BY <1>1, InCall
  <1>3. FilesInv' /\ WordsOwn' /\ FileStep(f) /\ oi_size' = oi_size
    BY <1>1, FilesStay DEF DriverInv
  <1>4. oi_size'[f] < COUNTS
    BY <1>1, <1>3, InCall
  <1> QED  BY <1>1, <1>2, <1>3, <1>4, NoJobIsJob, CallGoesOn

\* A call in the loops of change_size.
LEMMA InResize ==
    ASSUME DriverInv, NEW p \in Procs, pc[p] = "resize"
    PROVE  \E j \in Jobs : \E f \in Files :
             j = job[p] /\ j.file = f /\ Resizing(p, f) /\ Nblocks(f) \in Nat
             /\ j.want \in Nat /\ ospfs_size2nblocks(j.want) \in Nat
  <1>1. PICK j \in Jobs : j = job[p]
    BY InCall
  <1>2. PICK f \in Files : j.file = f
    BY <1>1, InCall
  <1>3. Resizing(p, f)
    BY <1>1, <1>2, InCall DEF CallInv
  <1>4. Nblocks(f) \in Nat
    BY PlacesOf DEF DriverInv
  <1>5. j.want \in Nat
    BY DEF Jobs
  <1> QED  BY <1>1, <1>2, <1>3, <1>4, <1>5, SizeInBlocks

LEMMA GrowStep ==
    ASSUME SmallFiles, DriverInv, NEW p \in Procs, Grow(p)
    PROVE  Stepped
  <1>1. pc[p] = "resize" /\ pc[p] # "user" /\ CanRun(p) /\ MustGrow(job[p]) /\ pc' = pc
    BY DEF Grow
  <1>2. PICK j \in Jobs : \E f \in Files :
             j = job[p] /\ j.file = f /\ Resizing(p, f) /\ Nblocks(f) \in Nat
             /\ j.want \in Nat /\ ospfs_size2nblocks(j.want) \in Nat
    BY <1>1, InResize
  <1>3. PICK f \in Files :
             j = job[p] /\ j.file = f /\ Resizing(p, f) /\ Nblocks(f) \in Nat
             /\ j.want \in Nat /\ ospfs_size2nblocks(j.want) \in Nat
    BY <1>2
  <1>4. PICK T \in Nat : T = ospfs_size2nblocks(j.want)
    BY <1>3
  <1>5. PICK jj \in Jobs : jj = [j EXCEPT !.count = j.count + 1]
    <2>1. PICK n \in Nat : n = j.count + 1
      BY DEF Jobs
    <2> QED  BY <2>1, JobCounts
  <1>6. /\ jj.op = j.op /\ jj.file = f /\ jj.want = j.want /\ jj.old = j.old /\ jj.count = j.count + 1
        /\ jj.r = j.r /\ jj.pos = j.pos /\ jj.end = j.end /\ jj.start = j.start /\ jj.orig = j.orig
        /\ j.old \in Nat /\ j.count \in Nat /\ jj.want = j.want
    BY <1>3, <1>5 DEF Jobs
  <1>7. job' = [job EXCEPT ![p] = jj] /\ pc' = [pc EXCEPT ![p] = "resize"]
    BY <1>1, <1>3, <1>5 DEF Grow, DriverInv, CallsShape
  <1>8. job'[p] = jj /\ pc'[p] = "resize"
    BY <1>7 DEF DriverInv, CallsShape
  <1>9. /\ j.old + j.count < T /\ j.old <= T /\ Nblocks(f) = j.old + j.count
        /\ j.want \in Sizes
    BY <1>1, <1>3, <1>4, <1>6 DEF MustGrow, Resizing
  <1>10. Added(f)
    <2>1. T <= NDIRECT + NINDIRECT
      BY <1>4, <1>9 DEF SmallFiles
    <2>2. Nblocks(f) < NDIRECT + NINDIRECT
      BY <1>3, <1>9, <2>1, Ranges
    <2> QED  BY <1>3, <2>2, AddsBlock DEF Grow, DriverInv
  <1>11. FilesInv' /\ WordsOwn' /\ FileStep(f)
    BY <1>10, AddedWords DEF Added, DriverInv
  <1>12. Resizing(p, f)'
    <2>1. Nblocks(f)' = j.old + jj.count /\ j.old + jj.count <= T
      BY <1>4, <1>6, <1>9, <1>10 DEF Added
    <2>2. /\ j.op \in {"truncate", "write"} /\ j.r = "ok" /\ j.want \in Sizes
          /\ j.orig < COUNTS /\ j.old = ospfs_size2nblocks(j.orig)
          /\ j.op = "write" => j.pos = j.start /\ j.pos < j.end /\ j.end = j.want
          /\ j.op = "truncate" => j.end = 0
      BY <1>3 DEF Resizing
    <2>3. ospfs_size2nblocks(job[p].want)' = T /\ ospfs_size2nblocks(job[p].orig)' = j.old
      BY <1>4, <1>6, <1>8, <2>2 DEF ospfs_size2nblocks
    <2> QED  BY <1>6, <1>8, <1>9, <2>1, <2>2, <2>3 DEF Resizing
  <1>13. CallInv(p, f)'
    BY <1>8, <1>12 DEF CallInv
  <1> QED  BY <1>1, <1>3, <1>6, <1>7, <1>11, <1>13, CallGoesOn

LEMMA GrowFailsStep ==
    ASSUME SmallFiles, DriverInv, NEW p \in Procs, GrowFails(p)
    PROVE  Stepped
  <1>1. pc[p] = "resize" /\ pc[p] # "user" /\ CanRun(p) /\ MustGrow(job[p])
    BY DEF GrowFails
  <1>2. PICK j \in Jobs : \E f \in Files :
             j = job[p] /\ j.file = f /\ Resizing(p, f) /\ Nblocks(f) \in Nat
             /\ j.want \in Nat /\ ospfs_size2nblocks(j.want) \in Nat
    BY <1>1, InResize
  <1>3. PICK f \in Files :
             j = job[p] /\ j.file = f /\ Resizing(p, f) /\ Nblocks(f) \in Nat
             /\ j.want \in Nat /\ ospfs_size2nblocks(j.want) \in Nat
    BY <1>2
  <1>4. PICK T \in Nat : T = ospfs_size2nblocks(j.want)
    BY <1>3
  <1>5. PICK jj \in Jobs : jj = [j EXCEPT !.count = j.count + 1, !.r = "enospc"]
    <2>1. PICK n \in Nat : n = j.count + 1
      BY DEF Jobs
    <2>2. "enospc" \in Answers
      BY DEF Answers
    <2> QED  BY <2>1, <2>2, JobAnswers
  <1>6. /\ jj.op = j.op /\ jj.file = f /\ jj.old = j.old /\ jj.count = j.count + 1
        /\ jj.r = "enospc" /\ jj.orig = j.orig /\ j.old \in Nat /\ j.count \in Nat
    BY <1>3, <1>5 DEF Jobs
  <1>7. /\ j.old + j.count < T /\ j.old <= T /\ Nblocks(f) = j.old + j.count
        /\ j.want \in Sizes /\ j.op \in {"truncate", "write"}
        /\ j.orig < COUNTS /\ j.old = ospfs_size2nblocks(j.orig)
    BY <1>1, <1>3, <1>4, <1>6 DEF MustGrow, Resizing
  <1>8. Nblocks(f) < NDIRECT + NINDIRECT
    <2>1. T <= NDIRECT + NINDIRECT
      BY <1>4, <1>7 DEF SmallFiles
    <2> QED  BY <1>3, <1>7, <2>1, Ranges
  <1>9. /\ ~ add_block_eio(f)
        /\ add_block_enospc(f) => FilesInv' /\ UNCHANGED <<freemap, inodes>> /\ \A g \in Files : Kept(g)
    BY <1>8, AddBlockFails DEF DriverInv
  <1>10. /\ add_block_enospc(f) /\ pc' = [pc EXCEPT ![p] = "undo"]
         /\ job' = [job EXCEPT ![p].count = @ + 1, ![p].r = "enospc"]
    BY <1>3, <1>9 DEF GrowFails, Go
  <1>11. job' = [job EXCEPT ![p] = jj]
    BY <1>3, <1>5, <1>10 DEF DriverInv, CallsShape
  <1>12. job'[p] = jj /\ pc'[p] = "undo"
    BY <1>10, <1>11 DEF DriverInv, CallsShape
  <1>13. FilesInv' /\ WordsOwn' /\ FileStep(f)
    BY <1>9, <1>10, NothingHappens DEF DriverInv
  <1>14. Nblocks(f)' = Nblocks(f)
    BY <1>9, <1>10 DEF inodes, Nblocks
  <1>15. Undoing(p, f)'
    <2>1. ospfs_size2nblocks(job[p].orig)' = j.old
      BY <1>6, <1>7, <1>12 DEF ospfs_size2nblocks
    <2> QED  BY <1>6, <1>7, <1>12, <1>14, <2>1 DEF Undoing
  <1>16. CallInv(p, f)'
    BY <1>12, <1>15 DEF CallInv
  <1> QED  BY <1>1, <1>3, <1>6, <1>10, <1>11, <1>13, <1>16, CallGoesOn

LEMMA ShrinkStep ==
    ASSUME DriverInv, NEW p \in Procs, Shrink(p)
    PROVE  Stepped
  <1>1. pc[p] = "resize" /\ pc[p] # "user" /\ CanRun(p) /\ MustShrink(job[p]) /\ pc' = pc
    BY DEF Shrink
  <1>2. PICK j \in Jobs : \E f \in Files :
             j = job[p] /\ j.file = f /\ Resizing(p, f) /\ Nblocks(f) \in Nat
             /\ j.want \in Nat /\ ospfs_size2nblocks(j.want) \in Nat
    BY <1>1, InResize
  <1>3. PICK f \in Files :
             j = job[p] /\ j.file = f /\ Resizing(p, f) /\ Nblocks(f) \in Nat
             /\ j.want \in Nat /\ ospfs_size2nblocks(j.want) \in Nat
    BY <1>2
  <1>4. PICK T \in Nat : T = ospfs_size2nblocks(j.want)
    BY <1>3
  <1>5. PICK jj \in Jobs : jj = [j EXCEPT !.count = j.count + 1]
    <2>1. PICK n \in Nat : n = j.count + 1
      BY DEF Jobs
    <2> QED  BY <2>1, JobCounts
  <1>6. /\ jj.op = j.op /\ jj.file = f /\ jj.want = j.want /\ jj.old = j.old /\ jj.count = j.count + 1
        /\ jj.r = j.r /\ jj.pos = j.pos /\ jj.end = j.end /\ jj.start = j.start /\ jj.orig = j.orig
        /\ j.old \in Nat /\ j.count \in Nat /\ jj.want = j.want
    BY <1>3, <1>5 DEF Jobs
  <1>7. job' = [job EXCEPT ![p] = jj] /\ pc' = [pc EXCEPT ![p] = "resize"]
    BY <1>1, <1>3, <1>5 DEF Shrink, DriverInv, CallsShape
  <1>8. job'[p] = jj /\ pc'[p] = "resize"
    BY <1>7 DEF DriverInv, CallsShape
  <1>9. j.old > T /\ j.old - j.count > T /\ Nblocks(f) = j.old - j.count
    BY <1>1, <1>3, <1>4, <1>6 DEF MustShrink, Resizing
  <1>10. Nblocks(f) > 0 /\ Removed(f)
    <2>1. remove_block(f) /\ Nblocks(f) > 0
      BY <1>3, <1>6, <1>9 DEF Shrink
    <2> QED  BY <2>1, RemovesBlock DEF DriverInv
  <1>11. FilesInv' /\ WordsOwn' /\ FileStep(f)
    BY <1>10, RemovedWords DEF Removed, DriverInv
  <1>12. Resizing(p, f)'
    <2>1. Nblocks(f)' = j.old - jj.count /\ j.old - jj.count >= T
      BY <1>4, <1>6, <1>9, <1>10 DEF Removed
    <2>2. /\ j.op \in {"truncate", "write"} /\ j.r = "ok" /\ j.want \in Sizes
          /\ j.orig < COUNTS /\ j.old = ospfs_size2nblocks(j.orig)
          /\ j.op = "write" => j.pos = j.start /\ j.pos < j.end /\ j.end = j.want
          /\ j.op = "truncate" => j.end = 0
      BY <1>3 DEF Resizing
    <2>3. ospfs_size2nblocks(job[p].want)' = T /\ ospfs_size2nblocks(job[p].orig)' = j.old
      BY <1>4, <1>6, <1>8, <2>2 DEF ospfs_size2nblocks
    <2>4. ~(j.old <= T)
      BY <1>4, <1>6, <1>9
    <2> QED  BY <1>6, <1>8, <1>9, <2>1, <2>2, <2>3, <2>4 DEF Resizing
  <1>13. CallInv(p, f)'
    BY <1>8, <1>12 DEF CallInv
  <1> QED  BY <1>1, <1>3, <1>6, <1>7, <1>11, <1>13, CallGoesOn

\* What remove_block frees are blocks of the file, for which free_block returns.
LEMMA RemovingReturns ==
    ASSUME FilesInv, NEW f \in Files
    PROVE  ~ remove_block_loops(f)
  <1> DEFINE last == Nblocks(f) - 1
  <1>1. /\ Nblocks(f) \in Nat /\ Nblocks(f) <= NDIRECT + NINDIRECT
        /\ oi_indirect2[f] = 0
        /\ SCAN \in Nat /\ NDIRECT \in Nat /\ DataBlocks \subseteq Nat
    BY PlacesOf, Ranges DEF FilesInv, FilesShape
  <1>2. 0 <= last => BlockAt(f, last) \in Nat /\ BlockAt(f, last) < SCAN
    <2>1. 0 <= last => last \in 0 .. Nblocks(f) - 1
      BY <1>1
    <2> QED  BY <1>1, <2>1, PlacesOf
  <1>3. NDIRECT <= last => oi_indirect[f] \in Nat /\ oi_indirect[f] < SCAN /\ oi_indirect[f] # 0
    <2>1. NDIRECT <= last => Nblocks(f) > NDIRECT
      BY <1>1
    <2> QED  BY <1>1, <2>1, PlacesOf, Ranges
  <1>4. CASE 0 <= last /\ InDirect(last)
    <2>1. FreedBlocks(f) = {BlockAt(f, last)}
      <3>1. ~ InIndirect(last) /\ ~ InIndirect2(last)
        BY <1>1, <1>4, Ranges DEF InDirect, InIndirect, InIndirect2
      <3>2. FreedBlocks(f) = {oi_direct[f][last]}
        BY <1>4, <3>1 DEF FreedBlocks
      <3> QED  BY <1>4, <3>2 DEF InDirect, BlockAt
    <2> QED  BY <1>1, <1>2, <1>4, <2>1 DEF remove_block_loops, free_block_loops
  <1>5. CASE InIndirect(last)
    <2>1. ~(0 <= last /\ InDirect(last)) /\ NDIRECT <= last /\ 0 <= last
      BY <1>1, <1>5 DEF InIndirect, InDirect
    <2>2. FreedBlocks(f) \subseteq {BlockAt(f, last), oi_indirect[f]}
      <3>1. BlockAt(f, last) = disk[oi_indirect[f]][last - NDIRECT]
        BY <1>1, <1>5, <2>1 DEF InIndirect, InDirect, BlockAt
      <3>2. oi_indirect[f] # 0
        BY <1>3, <2>1
      <3>3. FreedBlocks(f) =
              {disk[oi_indirect[f]][last - NDIRECT]} \cup (IF last = NDIRECT THEN {oi_indirect[f]} ELSE {})
        BY <1>1, <1>5, <2>1, <3>2 DEF FreedBlocks
      <3> QED  BY <3>1, <3>3
    <2> QED  BY <1>1, <1>2, <1>3, <2>1, <2>2 DEF remove_block_loops, free_block_loops
  <1>6. CASE ~(0 <= last /\ InDirect(last)) /\ ~ InIndirect(last)
    <2>1. FreedBlocks(f) = {}
      BY <1>1, <1>6 DEF FreedBlocks
    <2> QED  BY <2>1 DEF remove_block_loops
  <1> QED  BY <1>4, <1>5, <1>6

LEMMA NeverInLoop ==
    ASSUME DriverInv, NEW p \in Procs
    PROVE  ~ InLoop(p)
  <1>1. ASSUME pc[p] # "user" PROVE ~ remove_block_loops(job[p].file)
    <2>1. PICK f \in Files : job[p].file = f
      BY <1>1, InCall
    <2>2. ~ remove_block_loops(f)
      BY RemovingReturns DEF DriverInv
    <2> QED  BY <2>1, <2>2
  <1> QED  BY <1>1 DEF InLoop

\* remove_block finds the pointer blocks it looks for.
LEMMA ShrinkDoesNotFail ==
    ASSUME DriverInv, NEW p \in Procs
    PROVE  ~ ShrinkFails(p) /\ ~ UndoFails(p)
  <1>1. ASSUME pc[p] # "user" PROVE ~ remove_block_eio(job[p].file)
    <2>1. PICK f \in Files : job[p].file = f
      BY <1>1, InCall
    <2>2. ~ remove_block_eio(f)
      BY RemovesBlock DEF DriverInv
    <2> QED  BY <2>1, <2>2
  <1> QED  BY <1>1 DEF ShrinkFails, UndoFails

LEMMA ResizedStep ==
    ASSUME DriverInv, NEW p \in Procs, Resized(p)
    PROVE  Stepped
  <1>1. /\ pc[p] = "resize" /\ pc[p] # "user" /\ CanRun(p)
        /\ ~ MustGrow(job[p]) /\ ~ MustShrink(job[p])
    BY DEF Resized
  <1>2. PICK j \in Jobs : \E f \in Files :
             j = job[p] /\ j.file = f /\ Resizing(p, f) /\ Nblocks(f) \in Nat
             /\ j.want \in Nat /\ ospfs_size2nblocks(j.want) \in Nat
    BY <1>1, InResize
  <1>3. PICK f \in Files :
             j = job[p] /\ j.file = f /\ Resizing(p, f) /\ Nblocks(f) \in Nat
             /\ j.want \in Nat /\ ospfs_size2nblocks(j.want) \in Nat
    BY <1>2
  <1>4. j.old \in Nat /\ j.count \in Nat /\ j.pos \in Nat /\ j.end \in Nat
    BY DEF Jobs
  <1>5. ospfs_size2nblocks(j.want) = Nblocks(f)
    BY <1>1, <1>3, <1>4 DEF Resizing, MustGrow, MustShrink
  <1>6. /\ oi_size' = [oi_size EXCEPT ![f] = j.want]
        /\ UNCHANGED <<freemap, disk, oi_direct, oi_indirect, oi_indirect2>>
        /\ job' = job /\ pc' = [pc EXCEPT ![p] = IF j.pos < j.end THEN "copy" ELSE "done"]
    BY <1>3 DEF Resized, Go, AfterResize
  <1>7. FilesInv' /\ WordsOwn' /\ FileStep(f) /\ oi_size'[f] = j.want
    BY <1>3, <1>5, <1>6, ResizedWords DEF DriverInv
  <1>8. job' = [job EXCEPT ![p] = j] /\ job'[p] = j /\ pc'[p] = IF j.pos < j.end THEN "copy" ELSE "done"
    BY <1>3, <1>6 DEF DriverInv, CallsShape
  <1>9. /\ j.op \in {"truncate", "write"} /\ j.r = "ok" /\ j.want \in Sizes
        /\ j.op = "write" => j.pos = j.start /\ j.pos < j.end /\ j.end = j.want
        /\ j.op = "truncate" => j.end = 0
    BY <1>3 DEF Resizing
  <1>10. oi_size'[f] < COUNTS
    BY <1>7, <1>9, BlocksAssumption
  <1>11. CASE j.pos < j.end
    <2>1. j.op = "write"
      BY <1>4, <1>9, <1>11
    <2>2. Copying(p, f)'
      BY <1>3, <1>4, <1>7, <1>8, <1>9, <1>11, <2>1 DEF Copying, WrittenTo
    <2>3. pc'[p] = "copy" /\ pc' = [pc EXCEPT ![p] = "copy"]
      BY ONLY <1>6, <1>8, <1>11
    <2>4. CallInv(p, f)'
      BY <2>2, <2>3 DEF CallInv
    <2> QED  BY <1>1, <1>3, <1>7, <1>8, <1>10, <2>3, <2>4, CallGoesOn
  <1>12. CASE ~(j.pos < j.end)
    <2>1. j.op = "truncate"
      BY <1>9, <1>12
    <2>2. Ending(p, f)'
      BY <1>8, <1>9, <2>1 DEF Ending
    <2>3. pc'[p] = "done" /\ pc' = [pc EXCEPT ![p] = "done"]
      BY ONLY <1>6, <1>8, <1>12
    <2>4. CallInv(p, f)'
      BY <2>2, <2>3 DEF CallInv
    <2> QED  BY <1>1, <1>3, <1>7, <1>8, <1>10, <2>3, <2>4, CallGoesOn
  <1> QED  BY <1>11, <1>12

\* A file that has lost the last of the blocks it had at the call is smaller.
LEMMA SizeAfterUndo ==
    ASSUME FilesInv, NEW f \in Files, NEW orig \in Nat, orig < COUNTS,
           Nblocks(f) = 0 \/ Nblocks(f) + 1 <= ospfs_size2nblocks(orig)
    PROVE  oi_size[f] < COUNTS
  <1>1. PICK n \in Nat : n = Nblocks(f)
    BY PlacesOf
  <1>2. PICK m \in Nat : m = ospfs_size2nblocks(orig) /\ (m > 0 => (m - 1) * NINDIRECT < orig)
    BY SizeInBlocks
  <1>3. PICK size \in Nat : size = oi_size[f] /\ size <= n * NINDIRECT
    <2>1. oi_size[f] \in Nat
      BY DEF FilesInv, FilesShape
    <2> QED  BY <1>1, <2>1, SizeInBlocks DEF Nblocks
  <1>4. COUNTS \in Nat
    BY BlocksAssumption
  <1>5. CASE n = 0
    BY <1>3, <1>4, <1>5, Ranges
  <1>6. CASE n + 1 <= m
    <2>1. m > 0 /\ m - 1 \in Nat /\ n <= m - 1
      BY <1>6
    <2>2. n * NINDIRECT <= (m - 1) * NINDIRECT
      BY <2>1, Ranges
    <2>3. n * NINDIRECT \in Nat /\ (m - 1) * NINDIRECT \in Nat
      BY <2>1, Ranges
    <2>4. (m - 1) * NINDIRECT < orig
      BY <1>2, <2>1
    <2> QED  BY <1>3, <1>4, <2>2, <2>3, <2>4
  <1> QED  BY <1>1, <1>2, <1>5, <1>6

LEMMA UndoStep ==
    ASSUME DriverInv, NEW p \in Procs, Undo(p)
    PROVE  Stepped
  <1>1. pc[p] = "undo" /\ pc[p] # "user" /\ CanRun(p)
    BY DEF Undo
  <1>2. PICK j \in Jobs : j = job[p]
    BY <1>1, InCall
  <1>3. PICK f \in Files : j.file = f
    BY <1>1, <1>2, InCall
  <1>4. Undoing(p, f)
    BY <1>1, <1>2, <1>3, InCall DEF CallInv
  <1>5. j.old \in Nat /\ j.count \in Nat /\ j.orig \in Nat
    BY DEF Jobs
  <1>6. /\ j.op \in {"truncate", "write"} /\ j.r = "enospc"
        /\ j.orig < COUNTS /\ j.old = ospfs_size2nblocks(j.orig)
        /\ Nblocks(f) = 0 \/ Nblocks(f) + 1 <= j.old + j.count
    BY <1>2, <1>4 DEF Undoing
  <1>7. ASSUME j.count > 0, remove_block(f), pc' = pc, job' = [job EXCEPT ![p].count = @ - 1]
        PROVE  Stepped
    <2>1. PICK jj \in Jobs : jj = [j EXCEPT !.count = j.count - 1]
      <3>1. PICK n \in Nat : n = j.count - 1
        BY <1>5, <1>7
      <3> QED  BY <3>1, JobCounts
    <2>2. /\ jj.op = j.op /\ jj.file = f /\ jj.old = j.old /\ jj.count = j.count - 1
          /\ jj.r = j.r /\ jj.orig = j.orig
      BY <1>3, <2>1 DEF Jobs
    <2>3. /\ job' = [job EXCEPT ![p] = jj] /\ pc' = [pc EXCEPT ![p] = "undo"]
          /\ job'[p] = jj /\ pc'[p] = "undo"
      BY <1>1, <1>2, <1>7, <2>1 DEF DriverInv, CallsShape
    <2>4. PICK n \in Nat : n = Nblocks(f)
      BY PlacesOf DEF DriverInv
    <2>5. /\ FilesInv' /\ WordsOwn' /\ FileStep(f)
          /\ Nblocks(f)' = IF n = 0 THEN 0 ELSE n - 1
      <3>1. \/ Nblocks(f) = 0 /\ UNCHANGED <<freemap, disk, inodes>>
            \/ Nblocks(f) > 0 /\ Removed(f)
        BY <1>7, RemovesBlock DEF DriverInv
      <3>2. CASE Nblocks(f) = 0 /\ UNCHANGED <<freemap, disk, inodes>>
        BY <2>4, <3>2, FilesStay DEF DriverInv
      <3>3. CASE Nblocks(f) > 0 /\ Removed(f)
        <4>1. WordsOwn' /\ FileStep(f)
          BY <3>3, RemovedWords DEF DriverInv
        <4>2. FilesInv' /\ Nblocks(f)' = n - 1 /\ n # 0
          BY <2>4, <3>3 DEF Removed
        <4> QED  BY <4>1, <4>2
      <3> QED  BY <3>1, <3>2, <3>3
    <2>6. Undoing(p, f)'
      <3>1. ospfs_size2nblocks(job[p].orig)' = j.old
        BY <1>6, <2>2, <2>3 DEF ospfs_size2nblocks
      <3>2. Nblocks(f)' = 0 \/ Nblocks(f)' + 1 <= jj.old + jj.count
        BY <1>5, <1>6, <2>2, <2>4, <2>5
      <3> QED  BY <1>6, <2>2, <2>3, <3>1, <3>2 DEF Undoing
    <2>7. CallInv(p, f)'
      BY <2>3, <2>6 DEF CallInv
    <2> QED  BY <1>1, <1>2, <1>3, <2>2, <2>3, <2>5, <2>7, CallGoesOn
  <1>8. ASSUME j.count = 0, pc' = [pc EXCEPT ![p] = "done"],
               UNCHANGED <<freemap, disk, inodes, job>>
        PROVE  Stepped
    <2>1. job' = [job EXCEPT ![p] = j] /\ job'[p] = j /\ pc'[p] = "done"
      BY <1>2, <1>8 DEF DriverInv, CallsShape
    <2>2. FilesInv' /\ WordsOwn' /\ FileStep(f) /\ oi_size' = oi_size
      BY <1>8, FilesStay DEF DriverInv
    <2>3. Ending(p, f)'
      BY <1>6, <2>1 DEF Ending
    <2>4. CallInv(p, f)'
      BY <2>1, <2>3 DEF CallInv
    <2>5. Nblocks(f) = 0 \/ Nblocks(f) + 1 <= j.old
      BY <1>5, <1>6, <1>8
    <2>6. oi_size'[f] < COUNTS
      BY <1>5, <1>6, <2>2, <2>5, SizeAfterUndo DEF DriverInv
    <2> QED  BY <1>1, <1>2, <1>3, <1>8, <2>1, <2>2, <2>4, <2>6, CallGoesOn
  <1> QED  BY <1>2, <1>3, <1>7, <1>8 DEF Undo, Go

\* A call in the loop of ospfs_write: the block at its position is in the file.
LEMMA InCopy ==
    ASSUME DriverInv, NEW p \in Procs, pc[p] = "copy"
    PROVE  \E j \in Jobs : \E f \in Files :
             /\ j = job[p] /\ j.file = f /\ Copying(p, f) /\ j.pos \in Nat /\ j.end \in Nat /\ j.start \in Nat
             /\ oi_size[f] \in Nat /\ j.pos < j.end /\ j.end <= oi_size[f]
             /\ Target(j) = BlockAt(f, j.pos \div NINDIRECT) /\ Target(j) # 0
  <1>1. PICK j \in Jobs : j = job[p]
    BY InCall
  <1>2. PICK f \in Files : j.file = f
    BY <1>1, InCall
  <1>3. Copying(p, f)
    BY <1>1, <1>2, InCall DEF CallInv
  <1>4. j.pos \in Nat /\ j.end \in Nat /\ j.start \in Nat /\ oi_size[f] \in Nat
    BY DEF Jobs, DriverInv, FilesInv, FilesShape
  <1>5. j.pos < j.end /\ j.end <= oi_size[f] /\ j.pos < oi_size[f]
    BY <1>1, <1>3, <1>4 DEF Copying
  <1>6. Target(j) = BlockAt(f, j.pos \div NINDIRECT)
    BY <1>2, <1>4, <1>5 DEF Target, ospfs_inode_blockno
  <1>7. Target(j) # 0
    <2>1. j.pos \div NINDIRECT \in 0 .. Nblocks(f) - 1
      BY <1>4, <1>5, WordInFile DEF DriverInv
    <2> QED  BY <1>6, <2>1, PlacesOf, Ranges DEF DriverInv
  <1> QED  BY <1>1, <1>2, <1>3, <1>4, <1>5, <1>6, <1>7

LEMMA CopyStep ==
    ASSUME DriverInv, NEW p \in Procs, Copy(p)
    PROVE  Stepped
  <1>1. pc[p] = "copy" /\ pc[p] # "user" /\ CanRun(p)
    BY DEF Copy
  <1>2. PICK j \in Jobs : \E f \in Files :
             /\ j = job[p] /\ j.file = f /\ Copying(p, f) /\ j.pos \in Nat /\ j.end \in Nat /\ j.start \in Nat
             /\ oi_size[f] \in Nat /\ j.pos < j.end /\ j.end <= oi_size[f]
             /\ Target(j) = BlockAt(f, j.pos \div NINDIRECT) /\ Target(j) # 0
    BY <1>1, InCopy
  <1>3. PICK f \in Files :
             /\ j = job[p] /\ j.file = f /\ Copying(p, f) /\ j.pos \in Nat /\ j.end \in Nat /\ j.start \in Nat
             /\ oi_size[f] \in Nat /\ j.pos < j.end /\ j.end <= oi_size[f]
             /\ Target(j) = BlockAt(f, j.pos \div NINDIRECT) /\ Target(j) # 0
    BY <1>2
  <1>4. PICK e \in Nat : e = SpanEnd(j) /\ j.pos < e /\ e <= j.end
    BY <1>3, SpanBounds
  <1>5. /\ disk' = [disk EXCEPT ![BlockAt(f, j.pos \div NINDIRECT)] =
                        Copied(BlockAt(f, j.pos \div NINDIRECT), j, j.end)]
        /\ job' = [job EXCEPT ![p].pos = e, ![p].blockno = 0]
        /\ pc' = [pc EXCEPT ![p] = IF e < j.end THEN "copy" ELSE "done"]
        /\ UNCHANGED <<freemap, inodes>>
    BY <1>3, <1>4 DEF Copy, CopyTo, Go
  <1>6. FilesInv' /\ WordsOwn' /\ FileStep(f) /\ SpanHolds(f, j, j.end)
    <2>1. PICK upto \in Nat : upto = j.end
      BY <1>3
    <2>2. disk' = [disk EXCEPT ![BlockAt(f, j.pos \div NINDIRECT)] =
                        Copied(BlockAt(f, j.pos \div NINDIRECT), j, upto)]
      BY <1>5, <2>1
    <2>3. j.pos <= upto
      BY <1>3, <2>1
    <2>4. FilesInv /\ WordsOwn
      BY DEF DriverInv
    <2> QED  BY <1>3, <1>5, <2>1, <2>2, <2>3, <2>4, SpanIsWritten
  <1>7. PICK jj \in Jobs : jj = [j EXCEPT !.pos = e, !.blockno = 0]
    BY JobCounts
  <1>8. /\ jj.op = j.op /\ jj.file = f /\ jj.r = j.r /\ jj.pos = e /\ jj.end = j.end /\ jj.start = j.start
    BY <1>3, <1>7 DEF Jobs
  <1>9. /\ job' = [job EXCEPT ![p] = jj] /\ job'[p] = jj
        /\ pc'[p] = IF e < j.end THEN "copy" ELSE "done"
    BY <1>3, <1>5, <1>7 DEF DriverInv, CallsShape
  <1>10. oi_size' = oi_size /\ oi_size'[f] < COUNTS
    BY <1>1, <1>5, InCall DEF inodes
  <1>11. /\ j.op = "write" /\ j.r = "ok" /\ j.start <= j.pos
         /\ \A at \in j.start .. j.pos - 1 : WordAt(f, at) = Stamp[f]
    BY <1>3 DEF Copying, WrittenTo
  <1>12. \A at \in j.start .. e - 1 : WordAt(f, at)' = Stamp[f]
    <2> SUFFICES ASSUME NEW at \in j.start .. e - 1 PROVE WordAt(f, at)' = Stamp[f]
      OBVIOUS
    <2>1. at \in 0 .. oi_size[f] - 1 /\ at \in Nat
      BY <1>3, <1>4
    <2>2. CASE at < j.pos
      <3>1. at \in j.start .. j.pos - 1 /\ ~(j.pos <= at)
        BY <1>3, <2>1, <2>2
      <3> QED  BY <1>6, <1>11, <2>1, <3>1 DEF SpanHolds
    <2>3. CASE ~(at < j.pos)
      <3>1. j.pos <= at /\ at < SpanEnd(j) /\ at < j.end
        BY <1>3, <1>4, <2>1, <2>3
      <3> QED  BY <1>6, <2>1, <3>1 DEF SpanHolds
    <2> QED  BY <2>2, <2>3
  <1>13. \A upto : upto = e => WrittenTo(p, f, upto)'
    BY <1>3, <1>4, <1>8, <1>9, <1>10, <1>12 DEF WrittenTo
  <1>14. CASE e < j.end
    <2>1. WrittenTo(p, f, job[p].pos)'
      BY <1>8, <1>9, <1>13 DEF WrittenTo
    <2>2. Copying(p, f)'
      BY <1>3, <1>4, <1>8, <1>9, <1>10, <1>11, <1>14, <2>1 DEF Copying
    <2>3. pc'[p] = "copy" /\ pc' = [pc EXCEPT ![p] = "copy"]
      BY ONLY <1>5, <1>9, <1>14
    <2>4. CallInv(p, f)'
      BY <2>2, <2>3 DEF CallInv
    <2> QED  BY <1>1, <1>3, <1>6, <1>8, <1>9, <1>10, <2>3, <2>4, CallGoesOn
  <1>15. CASE ~(e < j.end)
    <2>1. e = j.end
      BY <1>3, <1>4, <1>15
    <2>2. WrittenTo(p, f, job[p].end)'
      BY <1>8, <1>9, <1>13, <2>1 DEF WrittenTo
    <2>3. Ending(p, f)'
      BY <1>8, <1>9, <1>11, <2>2 DEF Ending
    <2>4. pc'[p] = "done" /\ pc' = [pc EXCEPT ![p] = "done"]
      BY ONLY <1>5, <1>9, <1>15
    <2>5. CallInv(p, f)'
      BY <2>3, <2>4 DEF CallInv
    <2> QED  BY <1>1, <1>3, <1>6, <1>8, <1>9, <1>10, <2>4, <2>5, CallGoesOn
  <1> QED  BY <1>14, <1>15

LEMMA CopyFailsStep ==
    ASSUME DriverInv, NEW p \in Procs, CopyFails(p)
    PROVE  Stepped
  <1>1. pc[p] = "copy" /\ pc[p] # "user" /\ CanRun(p) /\ pc' = [pc EXCEPT ![p] = "done"]
    BY DEF CopyFails, Go
  <1>2. PICK j \in Jobs : \E f \in Files :
             /\ j = job[p] /\ j.file = f /\ Copying(p, f) /\ j.pos \in Nat /\ j.end \in Nat /\ j.start \in Nat
             /\ oi_size[f] \in Nat /\ j.pos < j.end /\ j.end <= oi_size[f]
             /\ Target(j) = BlockAt(f, j.pos \div NINDIRECT) /\ Target(j) # 0
    BY <1>1, InCopy
  <1>3. PICK f \in Files :
             /\ j = job[p] /\ j.file = f /\ Copying(p, f) /\ j.pos \in Nat /\ j.end \in Nat /\ j.start \in Nat
             /\ oi_size[f] \in Nat /\ j.pos < j.end /\ j.end <= oi_size[f]
             /\ Target(j) = BlockAt(f, j.pos \div NINDIRECT) /\ Target(j) # 0
    BY <1>2
  <1>4. /\ \E upto \in j.pos .. SpanEnd(j) - 1 :
               disk' = [disk EXCEPT ![Target(j)] = Copied(Target(j), j, upto)]
        /\ job' = [job EXCEPT ![p].r = "efault"] /\ UNCHANGED <<freemap, inodes>>
    BY <1>3 DEF CopyFails
  <1>5. PICK upto \in Nat : /\ j.pos <= upto
                            /\ disk' = [disk EXCEPT ![BlockAt(f, j.pos \div NINDIRECT)] =
                                            Copied(BlockAt(f, j.pos \div NINDIRECT), j, upto)]
    <2>1. PICK upto \in j.pos .. SpanEnd(j) - 1 :
               disk' = [disk EXCEPT ![Target(j)] = Copied(Target(j), j, upto)]
      BY <1>4
    <2>2. upto \in Nat /\ j.pos <= upto
      BY <1>3, SpanBounds
    <2> QED  BY <1>3, <2>1, <2>2
  <1>6. FilesInv' /\ WordsOwn' /\ FileStep(f)
    <2>1. FilesInv /\ WordsOwn
      BY DEF DriverInv
    <2> QED  BY <1>3, <1>4, <1>5, <2>1, SpanIsWritten
  <1>7. PICK jj \in Jobs : jj = [j EXCEPT !.r = "efault"]
    BY JobAnswers DEF Answers
  <1>8. jj.file = f /\ jj.r = "efault"
    BY <1>3, <1>7 DEF Jobs
  <1>9. job' = [job EXCEPT ![p] = jj] /\ job'[p] = jj /\ pc'[p] = "done"
    BY <1>1, <1>3, <1>4, <1>7 DEF DriverInv, CallsShape
  <1>10. oi_size'[f] < COUNTS
    BY <1>1, <1>4, InCall DEF inodes
  <1>11. CallInv(p, f)'
    BY <1>8, <1>9 DEF CallInv, Ending
  <1> QED  BY <1>1, <1>3, <1>6, <1>8, <1>9, <1>10, <1>11, CallGoesOn

\* A call in the loop of ospfs_read: behind the end of the file there is no
\* block, and elsewhere the block at its position is in the file.
LEMMA InRead ==
    ASSUME DriverInv, NEW p \in Procs, pc[p] = "read"
    PROVE  \E j \in Jobs : \E f \in Files :
             /\ j = job[p] /\ j.file = f /\ Reading(p, f) /\ j.pos \in Nat /\ j.end \in Nat
             /\ j.start \in Nat /\ j.want \in Nat /\ j.orig = oi_size[f] /\ oi_size[f] \in Nat
             /\ j.start > j.orig => Target(j) = 0
             /\ ~(j.start > j.orig) => /\ Target(j) = BlockAt(f, j.pos \div NINDIRECT)
                                       /\ Target(j) # 0 /\ j.end <= oi_size[f] /\ j.pos < j.end
                                       /\ j.pos < oi_size[f]
  <1>1. PICK j \in Jobs : j = job[p]
    BY InCall
  <1>2. PICK f \in Files : j.file = f
    BY <1>1, InCall
  <1>3. Reading(p, f)
    BY <1>1, <1>2, InCall DEF CallInv
  <1>4. j.pos \in Nat /\ j.end \in Nat /\ j.start \in Nat /\ j.want \in Nat /\ oi_size[f] \in Nat
    BY DEF Jobs, DriverInv, FilesInv, FilesShape
  <1>5. j.orig = oi_size[f] /\ j.pos < j.end
    BY <1>1, <1>3 DEF Reading
  <1>6. ASSUME j.start > j.orig PROVE Target(j) = 0
    <2>1. j.pos = j.start
      BY <1>1, <1>3, <1>6 DEF Reading
    <2>2. j.pos >= oi_size[f]
      BY <1>4, <1>5, <1>6, <2>1
    <2> QED  BY <1>2, <2>2 DEF Target, ospfs_inode_blockno
  <1>7. ASSUME ~(j.start > j.orig)
        PROVE  /\ Target(j) = BlockAt(f, j.pos \div NINDIRECT) /\ Target(j) # 0
               /\ j.end <= oi_size[f] /\ j.pos < oi_size[f]
    <2>1. j.end = IF j.want < oi_size[f] THEN j.want ELSE oi_size[f]
      BY <1>1, <1>3, <1>7 DEF Reading, AskedEnd
    <2>2. j.end <= oi_size[f] /\ j.pos < oi_size[f]
      BY <1>4, <1>5, <2>1
    <2>3. Target(j) = BlockAt(f, j.pos \div NINDIRECT)
      BY <1>2, <1>4, <2>2 DEF Target, ospfs_inode_blockno
    <2>4. j.pos \div NINDIRECT \in 0 .. Nblocks(f) - 1
      BY <1>4, <2>2, WordInFile DEF DriverInv
    <2> QED  BY <2>2, <2>3, <2>4, PlacesOf, Ranges DEF DriverInv
  <1> QED  BY <1>1, <1>2, <1>3, <1>4, <1>5, <1>6, <1>7

LEMMA ReadFailsStep ==
    ASSUME DriverInv, NEW p \in Procs, ReadFails(p)
    PROVE  Stepped
  <1>1. /\ pc[p] = "read" /\ pc[p] # "user" /\ CanRun(p) /\ pc' = [pc EXCEPT ![p] = "done"]
        /\ UNCHANGED <<freemap, disk, inodes>>
    BY DEF ReadFails, Go
  <1>2. PICK j \in Jobs : \E f \in Files :
             /\ j = job[p] /\ j.file = f /\ Reading(p, f) /\ j.pos \in Nat /\ j.end \in Nat
             /\ j.start \in Nat /\ j.want \in Nat /\ j.orig = oi_size[f] /\ oi_size[f] \in Nat
             /\ j.start > j.orig => Target(j) = 0
             /\ ~(j.start > j.orig) => /\ Target(j) = BlockAt(f, j.pos \div NINDIRECT)
                                       /\ Target(j) # 0 /\ j.end <= oi_size[f] /\ j.pos < j.end
                                       /\ j.pos < oi_size[f]
    BY <1>1, InRead
  <1>3. PICK f \in Files :
             /\ j = job[p] /\ j.file = f /\ Reading(p, f) /\ j.orig = oi_size[f]
             /\ ~(j.start > j.orig) => Target(j) # 0
    BY <1>2
  <1>4. PICK r \in {"efault", "eio"} : /\ job' = [job EXCEPT ![p].r = r]
                                       /\ r = "eio" => j.start > j.orig
    BY <1>3 DEF ReadFails
  <1>5. PICK jj \in Jobs : jj = [j EXCEPT !.r = r]
    BY JobAnswers DEF Answers
  <1>6. /\ jj.file = f /\ jj.op = j.op /\ jj.r = r /\ jj.start = j.start /\ jj.orig = j.orig
    BY <1>3, <1>5 DEF Jobs
  <1>7. job' = [job EXCEPT ![p] = jj] /\ job'[p] = jj /\ pc'[p] = "done"
    BY <1>1, <1>3, <1>4, <1>5 DEF DriverInv, CallsShape
  <1>8. FilesInv' /\ WordsOwn' /\ FileStep(f) /\ oi_size'[f] < COUNTS
    BY <1>1, FilesStay, InCall DEF DriverInv
  <1>9. j.op = "read"
    BY <1>3 DEF Reading
  <1>10. Ending(p, f)'
    BY <1>4, <1>6, <1>7, <1>9 DEF Ending
  <1>11. CallInv(p, f)'
    BY <1>7, <1>10 DEF CallInv
  <1> QED  BY <1>1, <1>3, <1>6, <1>7, <1>8, <1>11, CallGoesOn

LEMMA Appended ==
    ASSUME NEW s \in Seq(Nat), NEW m \in Nat, NEW t \in [1 .. m -> Nat]
    PROVE  /\ s \o t \in Seq(Nat) /\ Len(s \o t) = Len(s) + m
           /\ \A i \in 1 .. Len(s) : (s \o t)[i] = s[i]
           /\ \A i \in 1 .. m : (s \o t)[Len(s) + i] = t[i]
  <1>1. t \in Seq(Nat)
    OBVIOUS
  <1>2. Len(t) = m
    OBVIOUS
  <1>3. Len(s) \in Nat
    OBVIOUS
  <1>4. s \o t \in Seq(Nat)
    BY <1>1
  <1>5. Len(s \o t) = Len(s) + Len(t)
    BY <1>1
  <1>6. ASSUME NEW i \in 1 .. Len(s) PROVE (s \o t)[i] = s[i]
    BY <1>1
  <1>7. ASSUME NEW i \in 1 .. m PROVE (s \o t)[Len(s) + i] = t[i]
    BY <1>1, <1>2, <1>3
  <1> QED  BY <1>2, <1>4, <1>5, <1>6, <1>7

\* The words of w from from to upto, in a buffer.
Holds(s, w, from, upto) ==
    s \in Seq(Nat) /\ Len(s) = upto - from /\ \A i \in 1 .. upto - from : s[i] = w[from + i - 1]

\* The user's buffer has the words w from start to pos, and gets those up to e.
LEMMA BufferGrows ==
    ASSUME NEW start \in Nat, NEW pos \in Nat, NEW e \in Nat, start <= pos, pos < e, NEW w,
           NEW s, Holds(s, w, start, pos),
           NEW t \in [1 .. e - pos -> Nat], \A i \in 1 .. e - pos : t[i] = w[pos + i - 1]
    PROVE  Holds(s \o t, w, start, e)
  <1>1. PICK m \in Nat : m = e - pos
    OBVIOUS
  <1>4. s \in Seq(Nat) /\ Len(s) = pos - start /\ \A i \in 1 .. pos - start : s[i] = w[start + i - 1]
    BY DEF Holds
  <1>2. /\ s \o t \in Seq(Nat) /\ Len(s \o t) = Len(s) + m
        /\ \A i \in 1 .. Len(s) : (s \o t)[i] = s[i]
        /\ \A i \in 1 .. m : (s \o t)[Len(s) + i] = t[i]
    BY <1>1, <1>4, Appended
  <1>3. ASSUME NEW i \in 1 .. e - start PROVE (s \o t)[i] = w[start + i - 1]
    <2>1. CASE i \in 1 .. pos - start
      BY <1>2, <1>4, <2>1
    <2>2. CASE i \notin 1 .. pos - start
      <3>1. PICK n \in 1 .. m : n = i - Len(s)
        BY <1>1, <1>4, <2>2
      <3>2. i = Len(s) + n /\ n \in 1 .. e - pos /\ pos + n - 1 = start + i - 1
        BY <1>1, <1>4, <3>1
      <3>3. (s \o t)[Len(s) + n] = t[n]
        BY <1>2, <3>1
      <3>4. t[n] = w[pos + n - 1]
        BY <3>2
      <3> QED  BY <3>2, <3>3, <3>4
    <2> QED  BY <2>1, <2>2
  <1>5. Len(s \o t) = e - start
    BY <1>1, <1>2, <1>4
  <1> QED  BY <1>2, <1>3, <1>5 DEF Holds

LEMMA ReadCopyStep ==
    ASSUME DriverInv, NEW p \in Procs, ReadCopy(p)
    PROVE  Stepped
  <1>1. pc[p] = "read" /\ pc[p] # "user" /\ CanRun(p) /\ Target(job[p]) # 0
    BY DEF ReadCopy
  <1>2. PICK j \in Jobs : \E f \in Files :
             /\ j = job[p] /\ j.file = f /\ Reading(p, f) /\ j.pos \in Nat /\ j.end \in Nat
             /\ j.start \in Nat /\ j.want \in Nat /\ j.orig = oi_size[f] /\ oi_size[f] \in Nat
             /\ j.start > j.orig => Target(j) = 0
             /\ ~(j.start > j.orig) => /\ Target(j) = BlockAt(f, j.pos \div NINDIRECT)
                                       /\ Target(j) # 0 /\ j.end <= oi_size[f] /\ j.pos < j.end
                                       /\ j.pos < oi_size[f]
    BY <1>1, InRead
  <1>3. PICK f \in Files :
             /\ j = job[p] /\ j.file = f /\ Reading(p, f) /\ j.pos \in Nat /\ j.end \in Nat
             /\ j.start \in Nat /\ j.want \in Nat /\ j.orig = oi_size[f] /\ oi_size[f] \in Nat
             /\ ~(j.start > j.orig) /\ Target(j) = BlockAt(f, j.pos \div NINDIRECT)
             /\ j.end <= oi_size[f] /\ j.pos < j.end /\ j.pos < oi_size[f]
    BY <1>1, <1>2
  <1>4. PICK e \in Nat : e = SpanEnd(j) /\ j.pos < e /\ e <= j.end
    BY <1>3, SpanBounds
  <1>5. PICK k \in 0 .. Nblocks(f) - 1 : k = j.pos \div NINDIRECT /\ k \in Nat
    BY <1>3, WordInFile, WordInBlock DEF DriverInv
  <1>6. PICK words \in [1 .. e - j.pos -> Nat] :
            /\ words = ReadWords(Target(j), j)
            /\ \A i \in 1 .. e - j.pos : words[i] = WordAt(f, j.pos + i - 1)
    <2>1. PICK b : b = BlockAt(f, k)
      OBVIOUS
    <2>2. disk[b] \in [WordIndex -> Nat]
      BY <2>1, PlacesOf, Ranges DEF DriverInv, FilesInv, FilesShape
    <2>3. ReadWords(Target(j), j) = [i \in 1 .. e - j.pos |-> disk[b][(j.pos + i - 1) % NINDIRECT]]
      BY <1>3, <1>4, <1>5, <2>1 DEF ReadWords
    <2>4. ASSUME NEW i \in 1 .. e - j.pos
          PROVE  /\ disk[b][(j.pos + i - 1) % NINDIRECT] \in Nat
                 /\ disk[b][(j.pos + i - 1) % NINDIRECT] = WordAt(f, j.pos + i - 1)
      <3>1. PICK at \in Nat : at = j.pos + i - 1
        BY <1>3, <1>4
      <3>2. at >= j.pos /\ at < e
        BY <1>3, <1>4, <3>1
      <3>3. k * NINDIRECT <= at /\ at < (k + 1) * NINDIRECT
        <4>1. k * NINDIRECT \in Nat /\ (k + 1) * NINDIRECT = k * NINDIRECT + NINDIRECT
          BY <1>5, Ranges
        <4>2. k * NINDIRECT <= j.pos /\ e <= (k + 1) * NINDIRECT
          BY <1>3, <1>4, <1>5, SpanBounds
        <4> QED  BY <1>3, <3>2, <4>1, <4>2, Ranges
      <3>4. at \div NINDIRECT = k
        BY <1>5, <3>3, SameBlock
      <3>5. at % NINDIRECT \in WordIndex
        BY WordInBlock
      <3> QED  BY <2>1, <2>2, <3>1, <3>4, <3>5 DEF WordAt
    <2> QED  BY <2>3, <2>4
  <1>7. j.buffer \in Seq(Nat)
    BY DEF Jobs
  <1>15. /\ j.op = "read" /\ j.r = "ok"
         /\ j.end = IF j.want < oi_size[f] THEN j.want ELSE oi_size[f]
         /\ j.start <= j.pos /\ Len(j.buffer) = j.pos - j.start
         /\ \A i \in 1 .. j.pos - j.start : j.buffer[i] = WordAt(f, j.start + i - 1)
    BY <1>3 DEF Reading, ReadTo, AskedEnd
  <1>16. PICK w : w = [at \in Nat |-> WordAt(f, at)]
    OBVIOUS
  <1>17. /\ j.buffer \o words \in Seq(Nat) /\ Len(j.buffer \o words) = e - j.start
         /\ \A i \in 1 .. e - j.start : (j.buffer \o words)[i] = w[j.start + i - 1]
    <2>1. \A i \in 1 .. j.pos - j.start : j.buffer[i] = w[j.start + i - 1]
      <3> SUFFICES ASSUME NEW i \in 1 .. j.pos - j.start PROVE j.buffer[i] = w[j.start + i - 1]
        OBVIOUS
      <3>1. j.start + i - 1 \in Nat
        BY <1>3
      <3> QED  BY <1>15, <1>16, <3>1
    <2>2. \A i \in 1 .. e - j.pos : words[i] = w[j.pos + i - 1]
      <3> SUFFICES ASSUME NEW i \in 1 .. e - j.pos PROVE words[i] = w[j.pos + i - 1]
        OBVIOUS
      <3>1. j.pos + i - 1 \in Nat
        BY <1>3
      <3> QED  BY <1>6, <1>16, <3>1
    <2>3. PICK start \in Nat, pos \in Nat, s \in Seq(Nat) : start = j.start /\ pos = j.pos /\ s = j.buffer
      BY <1>3, <1>7
    <2>4. start <= pos /\ pos < e /\ words \in [1 .. e - pos -> Nat]
      BY <1>4, <1>15, <2>3
    <2>5. Holds(s, w, start, pos)
      BY <1>15, <2>1, <2>3 DEF Holds
    <2>6. \A i \in 1 .. e - pos : words[i] = w[pos + i - 1]
      BY <2>2, <2>3
    <2>7. Holds(s \o words, w, start, e)
      BY ONLY <2>4, <2>5, <2>6, start \in Nat, pos \in Nat, e \in Nat, BufferGrows
    <2> QED  BY ONLY <2>3, <2>7 DEF Holds
  <1>8. PICK buffer \in Seq(Nat) : buffer = j.buffer \o words
    BY <1>17
  <1>9. PICK jj \in Jobs : jj = [j EXCEPT !.pos = e, !.blockno = 0, !.buffer = buffer]
    BY JobReads
  <1>10. /\ jj.op = j.op /\ jj.file = f /\ jj.r = j.r /\ jj.pos = e /\ jj.end = j.end /\ jj.start = j.start
         /\ jj.want = j.want /\ jj.orig = j.orig /\ jj.buffer = buffer
    BY <1>3, <1>9 DEF Jobs
  <1>11. /\ job' = [job EXCEPT ![p].pos = e, ![p].blockno = 0, ![p].buffer = @ \o words]
         /\ pc' = [pc EXCEPT ![p] = IF e < j.end THEN "read" ELSE "done"]
         /\ UNCHANGED <<freemap, disk, inodes>>
    BY <1>3, <1>4, <1>6 DEF ReadCopy, ReadFrom, Go
  <1>12. /\ job' = [job EXCEPT ![p] = jj] /\ job'[p] = jj
         /\ pc'[p] = IF e < j.end THEN "read" ELSE "done"
    BY <1>3, <1>8, <1>9, <1>11 DEF DriverInv, CallsShape
  <1>13. /\ FilesInv' /\ WordsOwn' /\ FileStep(f) /\ oi_size' = oi_size
         /\ \A at \in Nat : WordAt(f, at)' = WordAt(f, at)
    BY <1>11, FilesStay DEF DriverInv
  <1>14. oi_size'[f] < COUNTS
    BY <1>1, <1>13, InCall
  <1>18. /\ Len(buffer) = e - j.start
         /\ \A i \in 1 .. e - j.start : buffer[i] = WordAt(f, j.start + i - 1)'
    <2> SUFFICES ASSUME NEW i \in 1 .. e - j.start PROVE buffer[i] = WordAt(f, j.start + i - 1)'
      BY <1>8, <1>17
    <2>1. PICK at \in Nat : at = j.start + i - 1
      BY <1>3
    <2>2. buffer[i] = w[at] /\ w[at] = WordAt(f, at) /\ WordAt(f, at)' = WordAt(f, at)
      BY <1>8, <1>13, <1>16, <1>17, <2>1
    <2> QED  BY <2>1, <2>2
  <1>19. \A upto : upto = e => ReadTo(p, f, upto)'
    <2>1. /\ job'[p].start = j.start /\ job'[p].buffer = buffer
      BY <1>10, <1>12
    <2>2. j.start <= e /\ e <= oi_size'[f]
      BY <1>3, <1>4, <1>13, <1>15
    <2> QED  BY ONLY <1>18, <2>1, <2>2 DEF ReadTo
  <1>20. CASE e < j.end
    <2>1. ReadTo(p, f, job[p].pos)'
      BY <1>10, <1>12, <1>19 DEF ReadTo
    <2>2. AskedEnd(p, f)' = j.end
      BY <1>10, <1>12, <1>13, <1>15 DEF AskedEnd
    <2>3. Reading(p, f)'
      BY <1>3, <1>10, <1>12, <1>13, <1>15, <1>20, <2>1, <2>2 DEF Reading
    <2>4. pc'[p] = "read" /\ pc' = [pc EXCEPT ![p] = "read"]
      BY ONLY <1>11, <1>12, <1>20
    <2>5. CallInv(p, f)'
      BY <2>3, <2>4 DEF CallInv
    <2> QED  BY <1>1, <1>3, <1>10, <1>12, <1>13, <1>14, <2>4, <2>5, CallGoesOn
  <1>21. CASE ~(e < j.end)
    <2>1. e = j.end
      BY <1>3, <1>4, <1>21
    <2>2. AskedEnd(p, f)' = e
      BY <1>10, <1>12, <1>13, <1>15, <2>1 DEF AskedEnd
    <2>3. ReadTo(p, f, AskedEnd(p, f))'
      BY <1>19, <2>2 DEF ReadTo
    <2>4. Ending(p, f)'
      BY <1>10, <1>12, <1>15, <2>3 DEF Ending
    <2>5. pc'[p] = "done" /\ pc' = [pc EXCEPT ![p] = "done"]
      BY ONLY <1>11, <1>12, <1>21
    <2>6. CallInv(p, f)'
      BY <2>4, <2>5 DEF CallInv
    <2> QED  BY <1>1, <1>3, <1>10, <1>12, <1>13, <1>14, <2>5, <2>6, CallGoesOn
  <1> QED  BY <1>20, <1>21

-----------------------------------------------------------------------------
(* The invariant. *)

LEMMA CallStep ==
    ASSUME SmallFiles, NoSleep, DriverInv, NEW p \in Procs, Step(p)
    PROVE  Stepped
  <1>1. pc[p] # "asleep" /\ pc[p] # "dozing"
    BY DEF DriverInv, CallsShape
  <1>2. ~ CopySleeps(p) /\ ~ CopyWakes(p) /\ ~ ReadSleeps(p) /\ ~ ReadWakes(p)
    BY <1>1 DEF NoSleep, CopySleeps, CopyWakes, ReadSleeps, ReadWakes
  <1>3. CASE Grow(p) \/ GrowFails(p)
    BY <1>3, GrowStep, GrowFailsStep
  <1>4. CASE Shrink(p) \/ Resized(p) \/ Undo(p)
    BY <1>4, ShrinkStep, ResizedStep, UndoStep
  <1>5. CASE Copy(p) \/ CopyFails(p)
    BY <1>5, CopyStep, CopyFailsStep
  <1>6. CASE ReadCopy(p) \/ ReadFails(p) \/ Return(p)
    BY <1>6, ReadCopyStep, ReadFailsStep, ReturnStep
  <1> QED  BY <1>2, <1>3, <1>4, <1>5, <1>6, ShrinkDoesNotFail, NeverInLoop DEF Step, FreeLoops

LEMMA NextStep ==
    ASSUME SmallFiles, NoSleep, DriverInv, Next
    PROVE  Stepped
  <1>1. PICK p \in Procs :
          \/ Step(p)
          \/ \E f \in Files : \E end \in Sizes :
               \/ Truncate(p, f, end)
               \/ \E pos \in Seeks \cup {oi_size[f]} : Write(p, f, pos, end)
               \/ \E pos \in ReadSeeks : Read(p, f, pos, end)
    BY DEF Next
  <1>2. CASE Step(p)
    BY <1>2, CallStep
  <1>3. ASSUME NEW f \in Files, NEW end \in Sizes, Truncate(p, f, end) PROVE Stepped
    BY <1>3, TruncateStep
  <1>4. ASSUME NEW f \in Files, NEW end \in Sizes, NEW pos \in Seeks \cup {oi_size[f]}, Write(p, f, pos, end)
        PROVE  Stepped
    <2>1. pos \in Nat
      BY BlocksAssumption DEF DriverInv, FilesInv, FilesShape
    <2> QED  BY <1>4, <2>1, WriteStep
  <1>5. ASSUME NEW f \in Files, NEW end \in Sizes, NEW pos \in ReadSeeks, Read(p, f, pos, end)
        PROVE  Stepped
    BY <1>5, ReadStep
  <1> QED  BY <1>1, <1>2, <1>3, <1>4, <1>5

LEMMA DriverStarts == Init => DriverInv
  <1> SUFFICES ASSUME Init PROVE DriverInv
    OBVIOUS
  <1>1. \A f \in Files : oi_size[f] = 0 /\ oi_indirect[f] = 0 /\ oi_indirect2[f] = 0
    BY DEF Init
  <1>2. ospfs_size2nblocks(0) = 0
    <2>1. 0 * NINDIRECT = 0
      BY Ranges
    <2> QED  BY <2>1, WholeBlocks
  <1>3. \A f \in Files : Nblocks(f) = 0 /\ Places(f) = {}
    <2> SUFFICES ASSUME NEW f \in Files PROVE Nblocks(f) = 0 /\ Places(f) = {}
      OBVIOUS
    <2>1. Nblocks(f) = 0
      BY <1>1, <1>2 DEF Nblocks
    <2> QED  BY <2>1, Ranges DEF Places
  <1>4. FilesShape
    <2>1. ZeroBlock \in [WordIndex -> Nat]
      BY DEF ZeroBlock
    <2>2. /\ freemap \subseteq DataBlocks /\ disk \in [Blocks -> [WordIndex -> Nat]]
          /\ oi_size \in [Files -> Nat] /\ oi_indirect \in [Files -> Nat] /\ oi_indirect2 \in [Files -> Nat]
      BY <2>1 DEF Init
    <2>3. oi_direct \in [Files -> [0 .. NDIRECT - 1 -> Nat]]
      BY DEF Init
    <2> QED  BY <1>1, <1>3, <2>2, <2>3, Ranges DEF FilesShape
  <1>5. PointersIn /\ PointersApart
    BY <1>3 DEF PointersIn, PointersApart
  <1>6. PointersAll
    BY DEF PointersAll, Init
  <1>7. WordsOwn
    BY <1>3 DEF WordsOwn
  <1>8. pc = [p \in Procs |-> "user"] /\ job = [p \in Procs |-> NoJob]
    BY DEF Init
  <1>9. CallsShape
    BY <1>8, NoJobIsJob DEF CallsShape
  <1>10. CallsInv
    BY <1>8 DEF CallsInv
  <1>11. SizesFit
    <2>1. 0 < COUNTS
      BY BlocksAssumption
    <2> QED  BY ONLY <1>1, <2>1 DEF SizesFit
  <1> QED  BY <1>4, <1>5, <1>6, <1>7, <1>9, <1>10, <1>11 DEF DriverInv, FilesInv

LEMMA DriverStutters ==
    ASSUME DriverInv, UNCHANGED vars
    PROVE  DriverInv'
  <1>1. /\ freemap' = freemap /\ disk' = disk /\ oi_size' = oi_size /\ oi_direct' = oi_direct
        /\ oi_indirect' = oi_indirect /\ oi_indirect2' = oi_indirect2 /\ pc' = pc /\ job' = job
    BY DEF vars, inodes
  <1>2. \A f : \A k : BlockAt(f, k)' = BlockAt(f, k)
    BY <1>1 DEF BlockAt
  <1>3. \A f : Nblocks(f)' = Nblocks(f)
    BY <1>1 DEF Nblocks
  <1>4. \A f : Places(f)' = Places(f)
    BY <1>3 DEF Places
  <1>5. \A f : \A k : Pointer(f, k)' = Pointer(f, k)
    BY <1>1, <1>2 DEF Pointer
  <1>6. FilesInv'
    <2>1. FilesShape'
      BY <1>1, <1>3 DEF DriverInv, FilesInv, FilesShape
    <2>2. PointersIn'
      BY <1>1, <1>4, <1>5 DEF DriverInv, FilesInv, PointersIn
    <2>3. PointersApart'
      BY <1>4, <1>5 DEF DriverInv, FilesInv, PointersApart
    <2>4. PointersAll'
      BY <1>1, <1>4, <1>5 DEF DriverInv, FilesInv, PointersAll
    <2> QED  BY <2>1, <2>2, <2>3, <2>4 DEF FilesInv
  <1>7. WordsOwn'
    BY <1>1, <1>2, <1>3 DEF DriverInv, WordsOwn
  <1>8. \A f : \A at : WordAt(f, at)' = WordAt(f, at)
    BY <1>1, <1>2 DEF WordAt
  <1>9. ASSUME NEW p \in Procs, NEW f \in Files, CallInv(p, f) PROVE CallInv(p, f)'
    <2>1. AskedEnd(p, f)' = AskedEnd(p, f)
      BY <1>1 DEF AskedEnd
    <2>2. \A upto : WrittenTo(p, f, upto)' = WrittenTo(p, f, upto)
      BY <1>1, <1>8 DEF WrittenTo
    <2>3. \A upto : ReadTo(p, f, upto)' = ReadTo(p, f, upto)
      BY <1>1, <1>8 DEF ReadTo
    <2> QED  BY <1>1, <1>3, <1>9, <2>1, <2>2, <2>3 DEF CallInv, Resizing, Undoing, Copying, Reading, Ending
  <1>10. CallsInv'
    BY <1>1, <1>9 DEF DriverInv, CallsInv
  <1>11. CallsShape' /\ SizesFit'
    BY <1>1 DEF DriverInv, CallsShape, SizesFit
  <1> QED  BY <1>6, <1>7, <1>10, <1>11 DEF DriverInv

LEMMA DriverInvariant ==
    ASSUME SmallFiles, NoSleep
    PROVE  Spec => []DriverInv
  <1>1. DriverInv /\ [Next]_vars => DriverInv'
    BY NextStep, DriverStutters DEF Stepped
  <1> QED  BY <1>1, DriverStarts, PTL DEF Spec

-----------------------------------------------------------------------------
(* The theorems. *)

\* The blocks of a file are what its pointers are to.
LEMMA OwnedBlocks ==
    ASSUME FilesInv, NEW f \in Files
    PROVE  /\ \A b \in FileBlocks(f) : \E k \in Places(f) : k # -1 /\ Pointer(f, k) = b
           /\ \A b \in PointerBlocks(f) : -1 \in Places(f) /\ Pointer(f, -1) = b
           /\ \A k \in Places(f) : Pointer(f, k) \in Owned(f)
  <1>1. oi_indirect2[f] = 0 /\ (oi_indirect[f] = 0 <=> Nblocks(f) <= NDIRECT) /\ Nblocks(f) \in Nat
    BY PlacesOf DEF FilesInv, FilesShape
  <1>2. PointerBlocks(f) = IF Nblocks(f) > NDIRECT THEN {oi_indirect[f]} ELSE {}
    BY <1>1, Ranges DEF PointerBlocks
  <1>3. ASSUME NEW b \in FileBlocks(f) PROVE \E k \in Places(f) : k # -1 /\ Pointer(f, k) = b
    BY PlacesOf DEF FileBlocks
  <1>4. ASSUME NEW b \in PointerBlocks(f) PROVE -1 \in Places(f) /\ Pointer(f, -1) = b
    BY <1>2, PlacesOf
  <1>5. ASSUME NEW k \in Places(f) PROVE Pointer(f, k) \in Owned(f)
    <2>1. CASE k \in 0 .. Nblocks(f) - 1
      <3>1. Pointer(f, k) = BlockAt(f, k)
        BY <2>1, PlacesOf
      <3> QED  BY <2>1, <3>1 DEF Owned, FileBlocks
    <2>2. CASE k \notin 0 .. Nblocks(f) - 1
      <3>1. k = -1 /\ Nblocks(f) > NDIRECT
        BY <2>2 DEF Places
      <3> QED  BY <1>2, <3>1 DEF Owned, Pointer
    <2> QED  BY <2>1, <2>2
  <1> QED  BY <1>3, <1>4, <1>5

\* ... all of them.
LEMMA OwnedPointers ==
    ASSUME FilesInv, NEW f \in Files, NEW b \in Owned(f)
    PROVE  \E k \in Places(f) : Pointer(f, k) = b
  BY OwnedBlocks DEF Owned

LEMMA FilesAreExact == DriverInv => BlocksExact
  <1> SUFFICES ASSUME FilesInv PROVE BlocksExact
    BY DEF DriverInv
  <1>1. ASSUME NEW f \in Files, NEW k \in 0 .. Nblocks(f) - 1, NEW l \in 0 .. Nblocks(f) - 1,
               BlockAt(f, k) = BlockAt(f, l)
        PROVE  k = l
    <2>1. /\ k \in Places(f) /\ Pointer(f, k) = BlockAt(f, k)
          /\ l \in Places(f) /\ Pointer(f, l) = BlockAt(f, l)
      BY PlacesOf
    <2> QED  BY <1>1, <2>1 DEF FilesInv, PointersApart
  <1>2. ASSUME NEW f \in Files PROVE FileBlocks(f) \cap PointerBlocks(f) = {}
    <2> SUFFICES ASSUME NEW b \in FileBlocks(f), b \in PointerBlocks(f) PROVE FALSE
      OBVIOUS
    <2>1. PICK k \in Places(f) : k # -1 /\ Pointer(f, k) = b
      BY OwnedBlocks
    <2>2. -1 \in Places(f) /\ Pointer(f, -1) = b
      BY OwnedBlocks
    <2> QED  BY <2>1, <2>2 DEF FilesInv, PointersApart
  <1>3. ASSUME NEW f \in Files, NEW g \in Files \ {f} PROVE Owned(f) \cap Owned(g) = {}
    <2> SUFFICES ASSUME NEW b \in Owned(f), b \in Owned(g) PROVE FALSE
      OBVIOUS
    <2>1. PICK k \in Places(f) : Pointer(f, k) = b
      BY OwnedPointers
    <2>2. PICK l \in Places(g) : Pointer(g, l) = b
      BY OwnedPointers
    <2> QED  BY <2>1, <2>2 DEF FilesInv, PointersApart
  <1>4. ASSUME NEW f \in Files, NEW b \in Owned(f) PROVE b \in DataBlocks \ freemap
    <2>1. PICK k \in Places(f) : Pointer(f, k) = b
      BY OwnedPointers
    <2> QED  BY <2>1 DEF FilesInv, PointersIn
  <1>5. ASSUME NEW b \in DataBlocks \ freemap PROVE \E f \in Files : b \in Owned(f)
    <2>1. PICK f \in Files : \E k \in Places(f) : Pointer(f, k) = b
      BY DEF FilesInv, PointersAll
    <2> QED  BY <2>1, OwnedBlocks
  <1>6. UNION {Owned(f) : f \in Files} = DataBlocks \ freemap
    BY ONLY <1>4, <1>5
  <1> QED  BY ONLY <1>1, <1>2, <1>3, <1>6 DEF BlocksExact

\* Every allocated block has exactly one place, through every growth, failed
\* growth and truncation: no two pointers of add_block are to one block, none
\* is to a block that is free in the bitmap, and remove_block frees what it
\* unlinks (allocate_block, free_block, add_block, remove_block).
THEOREM BlocksHaveOnePlace ==
    ASSUME SmallFiles, NoSleep
    PROVE  Spec => []BlocksExact
  BY DriverInvariant, FilesAreExact, PTL

\* free_block returns for every block that remove_block hands it, in shrinking
\* and in undoing a growth: a file has no block behind the part of the bitmap
\* that both look at.
THEOREM FreeingReturns ==
    ASSUME SmallFiles, NoSleep
    PROVE  Spec => [](FreeReturns /\ \A p \in Procs : ~ InLoop(p))
  <1>1. DriverInv => FreeReturns
    <2> SUFFICES ASSUME FilesInv, NEW f \in Files, NEW b \in Owned(f) PROVE ~ free_block_loops(b)
      BY DEF DriverInv, FreeReturns
    <2>1. PICK k \in Places(f) : Pointer(f, k) = b
      BY OwnedPointers
    <2>2. b \in DataBlocks /\ b < SCAN
      BY <2>1 DEF FilesInv, PointersIn
    <2> QED  BY <2>2, Ranges DEF free_block_loops
  <1>2. DriverInv => \A p \in Procs : ~ InLoop(p)
    BY NeverInLoop
  <1> QED  BY <1>1, <1>2, DriverInvariant, PTL

LEMMA AtTheEnd ==
    ASSUME DriverInv, NEW p \in Procs, pc[p] = "done"
    PROVE  job[p] \in Jobs /\ job[p].file \in Files /\ Ending(p, job[p].file)
  <1>1. pc[p] # "user" /\ job[p] \in Jobs /\ job[p].file \in Files
    BY DEF DriverInv, CallsShape
  <1>2. PICK f \in Files : f = job[p].file
    BY <1>1
  <1>3. CallInv(p, f)
    BY <1>1, <1>2 DEF DriverInv, CallsInv
  <1> QED  BY <1>1, <1>2, <1>3 DEF CallInv

\* change_size and ospfs_write never answer -EIO: add_block leaves the pointer
\* blocks that remove_block and ospfs_inode_blockno expect.  Only a read behind
\* the end of the file does.
THEOREM EioMeansOutside ==
    ASSUME SmallFiles, NoSleep
    PROVE  Spec => []EioOnlyOutside
  <1>1. DriverInv => EioOnlyOutside
    BY AtTheEnd DEF EioOnlyOutside, Ending
  <1> QED  BY <1>1, DriverInvariant, PTL

\* A successful ospfs_write has put every word of the span into the file, over
\* as many blocks as it takes.
THEOREM WritesAreComplete ==
    ASSUME SmallFiles, NoSleep
    PROVE  Spec => []WriteComplete
  <1>1. DriverInv => WriteComplete
    <2> SUFFICES ASSUME DriverInv, NEW p \in Procs, pc[p] = "done" /\ job[p].op = "write" /\ job[p].r = "ok",
                        NEW at \in job[p].start .. job[p].end - 1
                 PROVE  /\ at < oi_size[job[p].file]
                        /\ disk[ospfs_inode_blockno(job[p].file, at)][at % NINDIRECT] = Stamp[job[p].file]
      BY DEF WriteComplete
    <2>1. job[p] \in Jobs /\ Ending(p, job[p].file)
      BY AtTheEnd
    <2>2. PICK f \in Files : f = job[p].file
      BY AtTheEnd
    <2>3. job[p].start \in Nat /\ job[p].end \in Nat /\ oi_size[f] \in Nat /\ at \in Nat
      BY <2>1 DEF Jobs, DriverInv, FilesInv, FilesShape
    <2>4. WrittenTo(p, f, job[p].end)
      BY <2>1, <2>2 DEF Ending
    <2>5. at < oi_size[f] /\ WordAt(f, at) = Stamp[f]
      BY <2>3, <2>4 DEF WrittenTo
    <2>6. ospfs_inode_blockno(f, at) = BlockAt(f, at \div NINDIRECT)
      BY <2>3, <2>5 DEF ospfs_inode_blockno
    <2> QED  BY <2>2, <2>5, <2>6 DEF WordAt
  <1> QED  BY <1>1, DriverInvariant, PTL

-----------------------------------------------------------------------------
(* What a user sees. *)

\* The words that a user sees are those of the file's blocks.
Shown(f, s) ==
    /\ oi_size[f] \in Nat /\ s \in [1 .. oi_size[f] -> Nat]
    /\ \A i \in 1 .. oi_size[f] : s[i] = WordAt(f, i - 1)

AllShown == \A f \in Files : Shown(f, Content(f))

LEMMA ContentIsShown == FilesInv => AllShown
  <1> SUFFICES ASSUME FilesInv, NEW f \in Files PROVE Shown(f, Content(f))
    BY DEF AllShown
  <1>1. oi_size[f] \in Nat
    BY DEF FilesInv, FilesShape
  <1>2. ASSUME NEW i \in 1 .. oi_size[f]
        PROVE  /\ disk[ospfs_inode_blockno(f, i - 1)][(i - 1) % NINDIRECT] = WordAt(f, i - 1)
               /\ WordAt(f, i - 1) \in Nat
    <2>1. PICK at \in Nat : at = i - 1
      OBVIOUS
    <2>2. at < oi_size[f]
      BY <1>1, <2>1
    <2>3. ospfs_inode_blockno(f, at) = BlockAt(f, at \div NINDIRECT)
      BY <1>1, <2>2 DEF ospfs_inode_blockno
    <2>4. PICK k \in 0 .. Nblocks(f) - 1 : k = at \div NINDIRECT
      BY <2>2, WordInFile
    <2>5. BlockAt(f, k) \in Blocks
      BY PlacesOf, Ranges
    <2>6. at % NINDIRECT \in WordIndex
      BY WordInBlock
    <2>7. disk[BlockAt(f, k)][at % NINDIRECT] \in Nat
      BY <2>5, <2>6 DEF FilesInv, FilesShape
    <2> QED  BY <2>1, <2>3, <2>4, <2>7 DEF WordAt
  <1> QED  BY <1>1, <1>2 DEF Content, Shown

LEMMA ContentIsShownNext == FilesInv' => AllShown'
  BY ContentIsShown, PTL

\* A part of a sequence, word by word.
LEMMA PartOf ==
    ASSUME NEW n \in Nat, NEW s \in [1 .. n -> Nat], NEW a \in 0 .. n, NEW b \in a .. n,
           NEW t \in Seq(Nat), Len(t) = b - a, \A i \in 1 .. b - a : t[i] = s[a + i]
    PROVE  t = SubSeq(s, a + 1, b)
  <1>1. PICK m \in Int : m = a + 1
    OBVIOUS
  <1>2. \A i \in m .. b : s[i] \in Nat
    BY <1>1
  <1>3. /\ SubSeq(s, m, b) \in Seq(Nat)
        /\ Len(SubSeq(s, m, b)) = IF m <= b THEN b - m + 1 ELSE 0
        /\ \A i \in 1 .. b - m + 1 : SubSeq(s, m, b)[i] = s[m + i - 1]
    BY <1>2, SubSeqProperties
  <1>4. Len(SubSeq(s, m, b)) = b - a
    BY <1>1, <1>3
  <1>5. \A i \in 1 .. b - a : SubSeq(s, m, b)[i] = s[a + i]
    BY <1>1, <1>3
  <1>6. t = SubSeq(s, m, b)
    BY <1>3, <1>4, <1>5, SeqEqual
  <1> QED  BY <1>1, <1>6

\* An ospfs_read that answers with a count has put exactly those words of the
\* file into the user's buffer, in order and over as many blocks as it takes:
\* from the position of the call to what was asked for, or to the end of the file.
THEOREM ReadsAreExact ==
    ASSUME SmallFiles, NoSleep
    PROVE  Spec => []ReadExact
  <1>1. DriverInv => ReadExact
    <2> SUFFICES ASSUME DriverInv, NEW p \in Procs, pc[p] = "done" /\ job[p].op = "read" /\ job[p].r = "ok",
                        NEW f, f = job[p].file
                 PROVE  job[p].buffer = SubSeq(Content(f), job[p].start + 1, AskedEnd(p, f))
      BY DEF ReadExact, AskedEnd
    <2>1. f \in Files /\ job[p] \in Jobs /\ ReadTo(p, f, AskedEnd(p, f))
      BY AtTheEnd DEF Ending
    <2>9. Shown(f, Content(f))
      BY <2>1, ContentIsShown DEF DriverInv, AllShown
    <2>10. PICK n \in Nat : n = oi_size[f]
      BY <2>9 DEF Shown
    <2>2. PICK s \in [1 .. n -> Nat] :
            /\ n = oi_size[f] /\ s = Content(f) /\ \A i \in 1 .. n : s[i] = WordAt(f, i - 1)
      BY <2>9, <2>10 DEF Shown
    <2>3. PICK t \in Seq(Nat), a \in Nat : t = job[p].buffer /\ a = job[p].start
      BY <2>1 DEF Jobs
    <2>4. job[p].want \in Nat
      BY <2>1 DEF Jobs
    <2>5. PICK b \in Nat : b = AskedEnd(p, f)
      BY <2>2, <2>4 DEF AskedEnd
    <2>6. /\ a <= b /\ b <= n /\ Len(t) = b - a
          /\ \A i \in 1 .. b - a : t[i] = WordAt(f, a + i - 1)
      BY <2>1, <2>2, <2>3, <2>5 DEF ReadTo
    <2>7. \A i \in 1 .. b - a : t[i] = s[a + i]
      <3> SUFFICES ASSUME NEW i \in 1 .. b - a PROVE t[i] = s[a + i]
        OBVIOUS
      <3>1. PICK m \in 1 .. n : m = a + i
        BY <2>6
      <3>2. s[m] = WordAt(f, m - 1)
        BY <2>2
      <3>3. m - 1 = a + i - 1
        BY <3>1
      <3> QED  BY <2>6, <3>1, <3>2, <3>3
    <2>8. t = SubSeq(s, a + 1, b)
      <3>1. a \in 0 .. n /\ b \in a .. n
        BY <2>6
      <3> QED  BY ONLY <2>6, <2>7, <3>1, n \in Nat, s \in [1 .. n -> Nat], t \in Seq(Nat), PartOf
    <2> QED  BY <2>2, <2>3, <2>5, <2>8
  <1> QED  BY <1>1, DriverInvariant, PTL

-----------------------------------------------------------------------------
(* The blocks implement files. *)

LEMMA RegrownIsChange ==
    ASSUME NEW f \in Files, NEW m \in Nat, NEW n \in Nat,
           NEW old \in [1 .. m -> Nat], NEW now \in [1 .. n -> Nat],
           \A i \in 1 .. m : i <= n => now[i] = old[i],
           \A i \in 1 .. n : i > m => now[i] \in {0, Stamp[f]}
    PROVE  FilesSpec!Change(f, old, now)
  <1>1. old \in Seq(Nat) /\ Len(old) = m /\ now \in Seq(Nat) /\ Len(now) = n
    OBVIOUS
  <1>2. CASE n <= m
    <2>1. 0 \in 0 .. m /\ n \in 0 .. m /\ n - 0 = n /\ 0 + 1 = 1
      BY <1>2
    <2>2. \A i \in 1 .. n - 0 : now[i] = old[0 + i]
      BY <1>2
    <2>3. now = SubSeq(old, 0 + 1, n)
      BY <1>1, <2>1, <2>2, PartOf
    <2>4. FilesSpec!Cut(old, now)
      BY <1>1, <1>2, <2>1, <2>3 DEF FilesSpec!Cut
    <2> QED  BY <2>4 DEF FilesSpec!Change
  <1>3. CASE m < n
    <2>1. 0 \in 0 .. n /\ m \in 0 .. n /\ m - 0 = m /\ 0 + 1 = 1
      BY <1>3
    <2>2. \A i \in 1 .. m - 0 : old[i] = now[0 + i]
      BY <1>3
    <2>3. old = SubSeq(now, 0 + 1, m)
      BY <1>1, <2>1, <2>2, PartOf
    <2>4. FilesSpec!Extended(f, old, now)
      BY <1>1, <1>3, <2>1, <2>3 DEF FilesSpec!Extended
    <2> QED  BY <2>4 DEF FilesSpec!Change
  <1> QED  BY <1>2, <1>3

\* Word i after a copy to the words after from and up to upto, that zeroed those up to to.
Written(f, old, from, upto, to, i) ==
    IF from < i /\ i <= upto THEN Stamp[f] ELSE IF upto < i /\ i <= to THEN 0 ELSE old[i]

LEMMA SpannedIsChange ==
    ASSUME NEW f \in Files, NEW m \in Nat, NEW old \in [1 .. m -> Nat], NEW now \in [1 .. m -> Nat],
           NEW from \in 0 .. m, NEW upto \in 0 .. m, NEW to \in 0 .. m,
           \A i \in 1 .. m : now[i] = Written(f, old, from, upto, to, i)
    PROVE  FilesSpec!Change(f, old, now)
  <1>1. Len(old) = m /\ Len(now) = m
    OBVIOUS
  <1>2. now = [i \in 1 .. m |-> IF from < i /\ i <= upto THEN Stamp[f]
                               ELSE IF upto < i /\ i <= to THEN 0
                               ELSE old[i]]
    BY DEF Written
  <1>3. FilesSpec!Overwritten(f, old, now)
    <2>1. from \in 0 .. Len(old) /\ upto \in 0 .. Len(old) /\ to \in 0 .. Len(old)
      BY <1>1
    <2>2. now = [i \in 1 .. Len(old) |-> IF from < i /\ i <= upto THEN Stamp[f]
                                         ELSE IF upto < i /\ i <= to THEN 0
                                         ELSE old[i]]
      BY <1>1, <1>2
    <2>3. Len(now) = Len(old)
      BY <1>1
    <2> QED  BY ONLY <2>1, <2>2, <2>3, Zenon DEF FilesSpec!Overwritten
  <1> QED  BY <1>3 DEF FilesSpec!Change

\* What a step does to the words of the files is what a file may do.
LEMMA StepsOfFiles ==
    ASSUME FilesInv, FilesInv', NEW f \in Files, FileStep(f)
    PROVE  /\ \A g \in Files \ {f} : Content(g)' = Content(g)
           /\ FilesSpec!Change(f, Content(f), Content(f)')
  <1>1. \A g \in Files : Shown(g, Content(g)) /\ Shown(g, Content(g))'
    BY ContentIsShown, ContentIsShownNext DEF AllShown
  <1>2. ASSUME NEW g \in Files \ {f} PROVE Content(g)' = Content(g)
    <2>1. PICK m \in Nat : m = oi_size[g] /\ m = oi_size'[g]
      BY <1>1 DEF Shown, FileStep, OthersSame
    <2>2. PICK old \in [1 .. m -> Nat] : old = Content(g) /\ \A i \in 1 .. m : old[i] = WordAt(g, i - 1)
      BY <1>1, <2>1 DEF Shown
    <2>3. PICK now \in [1 .. m -> Nat] : now = Content(g)' /\ \A i \in 1 .. m : now[i] = WordAt(g, i - 1)'
      BY <1>1, <2>1 DEF Shown
    <2>4. \A at \in 0 .. m - 1 : WordAt(g, at)' = WordAt(g, at)
      BY <2>1 DEF FileStep, OthersSame
    <2>5. ASSUME NEW i \in 1 .. m PROVE now[i] = old[i]
      <3>1. PICK at \in 0 .. m - 1 : at = i - 1
        OBVIOUS
      <3> QED  BY <2>2, <2>3, <2>4, <3>1
    <2> QED  BY <2>2, <2>3, <2>5
  <1>3. PICK m \in Nat : m = oi_size[f]
    BY <1>1 DEF Shown
  <1>4. PICK n \in Nat : n = oi_size'[f]
    BY <1>1 DEF Shown
  <1>5. PICK old \in [1 .. m -> Nat] : old = Content(f) /\ \A i \in 1 .. m : old[i] = WordAt(f, i - 1)
    BY <1>1, <1>3 DEF Shown
  <1>6. PICK now \in [1 .. n -> Nat] : now = Content(f)' /\ \A i \in 1 .. n : now[i] = WordAt(f, i - 1)'
    BY <1>1, <1>4 DEF Shown
  <1>7. CASE Regrown(f)
    <2>1. /\ \A at \in Nat : at < m /\ at < n => WordAt(f, at)' = WordAt(f, at)
          /\ \A at \in Nat : m <= at /\ at < n => WordAt(f, at)' \in {0, Stamp[f]}
      BY <1>3, <1>4, <1>7 DEF Regrown
    <2>2. ASSUME NEW i \in 1 .. m, i <= n PROVE now[i] = old[i]
      <3>1. PICK at \in Nat : at = i - 1
        OBVIOUS
      <3>2. at < m /\ at < n /\ i \in 1 .. n
        BY <2>2, <3>1
      <3> QED  BY <1>5, <1>6, <2>1, <3>1, <3>2
    <2>3. ASSUME NEW i \in 1 .. n, i > m PROVE now[i] \in {0, Stamp[f]}
      <3>1. PICK at \in Nat : at = i - 1
        OBVIOUS
      <3>2. m <= at /\ at < n
        BY <2>3, <3>1
      <3> QED  BY <1>6, <2>1, <3>1, <3>2
    <2>4. FilesSpec!Change(f, old, now)
      BY <2>2, <2>3, RegrownIsChange
    <2> QED  BY <1>2, <1>5, <1>6, <2>4
  <1>8. CASE Spanned(f)
    <2>1. n = m
      BY <1>3, <1>4, <1>8 DEF Spanned
    <2>2. PICK from, upto, to \in 0 .. oi_size[f] :
            \A at \in 0 .. oi_size[f] - 1 :
                WordAt(f, at)' = IF from <= at /\ at < upto THEN Stamp[f]
                                 ELSE IF upto <= at /\ at < to THEN 0
                                 ELSE WordAt(f, at)
      BY ONLY <1>8, Zenon DEF Spanned
    <2>5. from \in 0 .. m /\ upto \in 0 .. m /\ to \in 0 .. m
      BY <1>3
    <2>3. ASSUME NEW i \in 1 .. m PROVE now[i] = Written(f, old, from, upto, to, i)
      <3>1. PICK at \in 0 .. m - 1 : at = i - 1
        OBVIOUS
      <3>2. /\ from <= at <=> from < i
            /\ at < upto <=> i <= upto
            /\ upto <= at <=> upto < i
            /\ at < to <=> i <= to
        BY <2>5, <3>1
      <3>3. now[i] = WordAt(f, at)' /\ old[i] = WordAt(f, at)
        BY <1>5, <1>6, <2>1, <3>1
      <3>4. WordAt(f, at)' = IF from <= at /\ at < upto THEN Stamp[f]
                             ELSE IF upto <= at /\ at < to THEN 0
                             ELSE WordAt(f, at)
        BY <1>3, <2>2, <3>1
      <3> QED  BY ONLY <3>2, <3>3, <3>4 DEF Written
    <2>4. FilesSpec!Change(f, old, now)
      BY <2>1, <2>3, <2>5, SpannedIsChange
    <2> QED  BY <1>2, <1>5, <1>6, <2>4
  <1> QED  BY <1>7, <1>8 DEF FileStep

\* A step that touches none of it.
LEMMA ContentStutters ==
    ASSUME UNCHANGED vars
    PROVE  [f \in Files |-> Content(f)]' = [f \in Files |-> Content(f)]
  <1>1. disk' = disk /\ oi_size' = oi_size /\ oi_direct' = oi_direct
        /\ oi_indirect' = oi_indirect /\ oi_indirect2' = oi_indirect2
    BY DEF vars, inodes
  <1> QED  BY <1>1 DEF Content, ospfs_inode_blockno, BlockAt

\* The blocks implement files (FilesSpec of OspfsFiles): whatever add_block,
\* remove_block, ospfs_write and their failures do to blocks, pointers and
\* bitmap, a step extends one file by zeros or its own words, cuts it off or
\* overwrites a span of it, and leaves every other file as it was.
THEOREM BlocksImplementFiles ==
    ASSUME SmallFiles, NoSleep
    PROVE  Spec => FilesImplemented
  <1>1. Init => FilesSpec!Init
    <2> SUFFICES ASSUME Init PROVE FilesSpec!Init
      OBVIOUS
    <2>1. ASSUME NEW f \in Files PROVE Content(f) = <<>>
      <3>1. oi_size[f] = 0 /\ 1 .. 0 = {}
        BY DEF Init
      <3> QED  BY <3>1 DEF Content
    <2> QED  BY <2>1 DEF FilesSpec!Init
  <1>2. DriverInv /\ DriverInv' /\ [Next]_vars => [FilesSpec!Next]_([f \in Files |-> Content(f)])
    <2>1. ASSUME DriverInv, DriverInv', Next PROVE FilesSpec!Next
      <3>1. PICK f \in Files : FileStep(f)
        BY <2>1, NextStep DEF Stepped
      <3>2. /\ \A g \in Files \ {f} : Content(g)' = Content(g)
            /\ FilesSpec!Change(f, Content(f), Content(f)')
        BY <2>1, <3>1, StepsOfFiles DEF DriverInv
      <3>3. \A g \in Files : /\ [h \in Files |-> Content(h)][g] = Content(g)
                             /\ [h \in Files |-> Content(h)]'[g] = Content(g)'
        OBVIOUS
      <3> QED  BY <3>2, <3>3 DEF FilesSpec!Next
    <2> QED  BY <2>1, ContentStutters
  <1> QED  BY <1>1, <1>2, DriverInvariant, PTL DEF Spec, FilesImplemented, FilesSpec!Spec

=============================================================================
