--------------------------- MODULE OspfsDirProofs ---------------------------
(***************************************************************************)
(* What is proved of an OSPFS directory for every number of names, inodes, *)
(* entries and blocks, and every number of processes that list it while it *)
(* changes.                                                                *)
(***************************************************************************)
EXTENDS OspfsDir, FiniteSetTheorems, WellOrder

-----------------------------------------------------------------------------
(* The inductive invariant. *)

DirShape ==
    /\ od \in [Slots -> [od_ino : Inodes \cup {0}, od_name : Names \cup {NoName}]]
    /\ nentries \in 0 .. MaxEntries
    /\ oi_ftype \in [Inodes -> {REG, SYMLINK}]
    /\ oi_nlink \in [Inodes -> Nat] /\ oi_size \in [Inodes -> Nat]
    /\ oi_symlink \in [Inodes -> Targets \cup {NoTarget}]
    /\ free \in Nat

Live(s) == od[s].od_ino # 0

\* What is not blank is inside the directory and has a name.
EntriesUsed == \A s \in Slots : Live(s) => s < nentries /\ od[s].od_name \in Names

\* No name has two entries.
NamesOnce ==
    \A s, t \in Slots : Live(s) /\ Live(t) /\ od[s].od_name = od[t].od_name => s = t

Refs(i) == {s \in Slots : od[s].od_ino = i}
CountsRefs == \A i \in Inodes : oi_nlink[i] = Cardinality(Refs(i))

EntryInv == DirShape /\ EntriesUsed /\ NamesOnce /\ CountsRefs

-----------------------------------------------------------------------------
(* Slots, entries and the first of them. *)

\* The ranges of the constants, as the proofs use them.
LEMMA Ranges ==
    /\ Inodes \subseteq Nat /\ 0 \notin Inodes /\ NoFile \notin Inodes /\ IsFiniteSet(Inodes)
    /\ Slots \subseteq Nat /\ IsFiniteSet(Slots)
    /\ PerBlock \in Nat /\ PerBlock > 0 /\ MaxEntries \in Nat /\ NFree \in Nat /\ NInodes \in Nat
  <1>1. NInodes \in Nat /\ PerBlock \in Nat /\ PerBlock > 0 /\ MaxEntries \in Nat /\ NFree \in Nat
    BY DirAssumption
  <1>2. Inodes \subseteq Nat /\ 0 \notin Inodes /\ Inodes \subseteq 0 .. NInodes
    BY <1>1 DEF Inodes
  <1>3. IsFiniteSet(Inodes) /\ IsFiniteSet(Slots)
    BY <1>1, FS_Interval DEF Inodes, Slots
  <1>4. Slots \subseteq Nat
    BY <1>1 DEF Slots
  <1> QED  BY <1>1, <1>2, <1>3, <1>4, DirAssumption

LEMMA LeastIn ==
    ASSUME NEW S, S \subseteq Nat, S # {}
    PROVE  Least(S) \in S /\ \A x \in S : Least(S) <= x
  <1>1. \E x \in S : \A y \in S : x <= y
    BY LeastNatural
  <1> QED  BY <1>1 DEF Least

\* The references to an inode are finitely many.
LEMMA RefsFinite ==
    ASSUME NEW i
    PROVE  IsFiniteSet(Refs(i)) /\ Cardinality(Refs(i)) \in Nat
  <1>1. Refs(i) \in SUBSET Slots
    BY DEF Refs
  <1>2. IsFiniteSet(Refs(i))
    BY <1>1, Ranges, FS_Subset
  <1> QED  BY <1>2, FS_CardinalityType

\* A name that is found is found at its only entry.
LEMMA FoundEntry ==
    ASSUME EntryInv, NEW n, find_direntry(n)
    PROVE  /\ Entry(n) \in Slots /\ Live(Entry(n)) /\ od[Entry(n)].od_name = n
           /\ n \in Names
           /\ Lookup(n) = od[Entry(n)].od_ino /\ Lookup(n) \in Inodes
           /\ \A s \in Slots : Live(s) /\ od[s].od_name = n => s = Entry(n)
  <1>1. Matches(n) # {} /\ Matches(n) \subseteq Slots
    <2>1. 0 .. nentries - 1 \subseteq Slots
      BY Ranges DEF EntryInv, DirShape, Slots
    <2> QED  BY <2>1 DEF find_direntry, Matches
  <1>2. Entry(n) \in Matches(n)
    BY <1>1, Ranges, LeastIn DEF Entry
  <1>3. Entry(n) \in Slots /\ Live(Entry(n)) /\ od[Entry(n)].od_name = n
    BY <1>1, <1>2 DEF Matches, Live
  <1>4. n \in Names /\ \A s \in Slots : Live(s) /\ od[s].od_name = n => s = Entry(n)
    BY <1>3 DEF EntryInv, EntriesUsed, NamesOnce
  <1>5. od[Entry(n)].od_ino \in Inodes
    BY <1>3 DEF EntryInv, DirShape, Live
  <1> QED  BY <1>3, <1>4, <1>5 DEF Lookup

LEMMA NotFound ==
    ASSUME EntryInv, NEW n, ~find_direntry(n)
    PROVE  Lookup(n) = NoFile /\ \A s \in Slots : Live(s) => od[s].od_name # n
  <1>1. ASSUME NEW s \in Slots, Live(s), od[s].od_name = n PROVE FALSE
    <2>1. s \in 0 .. nentries - 1
      BY <1>1, Ranges DEF EntryInv, DirShape, EntriesUsed
    <2> QED  BY <1>1, <2>1 DEF find_direntry, Matches, Live
  <1> QED  BY <1>1 DEF Lookup

\* create_blank_direntry finds an entry that nothing is in.
LEMMA BlankIsBlank ==
    ASSUME EntryInv, HasBlank \/ CanGrow, NEW n, NEW i, EnterAs(n, i)
    PROVE  /\ BlankEntry \in Slots /\ ~Live(BlankEntry)
           /\ nentries' \in 0 .. MaxEntries /\ nentries <= nentries' /\ BlankEntry < nentries'
           /\ free' \in Nat
  <1>0. nentries \in Nat /\ nentries <= MaxEntries /\ free \in Nat /\ MaxEntries \in Nat
    BY Ranges DEF EntryInv, DirShape
  <1>1. CASE HasBlank
    <2>1. BlankSlots # {} /\ BlankSlots \subseteq Nat
      BY <1>0, <1>1 DEF HasBlank, BlankSlots
    <2>2. BlankEntry \in BlankSlots
      BY <1>1, <2>1, LeastIn DEF BlankEntry
    <2>3. nentries' = nentries /\ free' = free
      BY <1>1 DEF EnterAs
    <2> QED  BY <1>0, <2>2, <2>3 DEF BlankSlots, Live, Slots
  <1>2. CASE ~HasBlank /\ CanGrow
    <2>1. /\ BlankEntry = nentries /\ nentries' = nentries + PerBlock /\ free' = free - 1
          /\ free > 0 /\ nentries + PerBlock <= MaxEntries
      BY <1>2 DEF BlankEntry, EnterAs, CanGrow
    <2>2. BlankEntry \in Slots /\ BlankEntry < nentries'
      BY <1>0, <2>1, Ranges DEF Slots
    <2>3. ~Live(BlankEntry)
      BY <1>0, <2>1, <2>2 DEF EntryInv, EntriesUsed
    <2> QED  BY <1>0, <2>1, <2>2, <2>3, Ranges
  <1> QED  BY <1>1, <1>2

-----------------------------------------------------------------------------
(* Entering a name and taking one out. *)

\* A new entry for a name that is not in use.
LEMMA NameEntered ==
    ASSUME EntryInv, NEW n \in Names, NEW i \in Inodes, EnterAs(n, i), ~find_direntry(n),
           oi_nlink' = [oi_nlink EXCEPT ![i] = @ + 1], DirShape'
    PROVE  EntryInv'
  <1> DEFINE b == BlankEntry
             e == [od_ino |-> i, od_name |-> n]
  <1>1. /\ b \in Slots /\ ~Live(b) /\ nentries' \in Nat /\ nentries <= nentries' /\ b < nentries'
        /\ nentries \in Nat
    <2>1. HasBlank \/ CanGrow
      BY DEF EnterAs
    <2>2. /\ b \in Slots /\ ~Live(b) /\ nentries' \in 0 .. MaxEntries
          /\ nentries <= nentries' /\ b < nentries'
      BY <2>1, BlankIsBlank
    <2> QED  BY <2>2, Ranges DEF EntryInv, DirShape
  <1>2. od' = [od EXCEPT ![b] = e] /\ i # 0
    BY Ranges DEF EnterAs
  <1>3. od'[b] = e /\ \A s \in Slots \ {b} : od'[s] = od[s]
    BY <1>1, <1>2 DEF EntryInv, DirShape
  <1>4. \A s \in Slots : Live(s) => od[s].od_name # n
    BY NotFound
  <1> HIDE DEF b
  <1>5. EntriesUsed'
    <2> SUFFICES ASSUME NEW s \in Slots, od'[s].od_ino # 0
                 PROVE  s < nentries' /\ od'[s].od_name \in Names
      BY DEF EntriesUsed, Live
    <2>1. CASE s = b
      BY <1>1, <1>3, <2>1
    <2>2. CASE s # b
      <3>1. s < nentries /\ od[s].od_name \in Names /\ s \in Nat
        BY <1>3, <2>2, Ranges DEF EntryInv, EntriesUsed, Live
      <3> QED  BY <1>1, <1>3, <2>2, <3>1
    <2> QED  BY <2>1, <2>2
  <1>6. NamesOnce'
    <2> SUFFICES ASSUME NEW s \in Slots, NEW t \in Slots, od'[s].od_ino # 0, od'[t].od_ino # 0,
                        od'[s].od_name = od'[t].od_name
                 PROVE  s = t
      BY DEF NamesOnce, Live
    <2>1. CASE s = b \/ t = b
      BY <1>3, <1>4, <2>1 DEF Live
    <2>2. CASE s # b /\ t # b
      BY <1>3, <2>2 DEF EntryInv, NamesOnce, Live
    <2> QED  BY <2>1, <2>2
  <1>7. CountsRefs'
    <2> SUFFICES ASSUME NEW j \in Inodes PROVE oi_nlink'[j] = Cardinality(Refs(j)')
      BY DEF CountsRefs
    <2>1. oi_nlink[j] = Cardinality(Refs(j)) /\ IsFiniteSet(Refs(j))
      BY RefsFinite DEF EntryInv, CountsRefs
    <2>2. CASE j = i
      <3>1. Refs(j)' = Refs(j) \cup {b} /\ b \notin Refs(j)
        BY <1>1, <1>2, <1>3, <2>2 DEF Refs, Live
      <3>2. oi_nlink'[j] = oi_nlink[j] + 1
        BY <2>2 DEF EntryInv, DirShape
      <3> QED  BY <2>1, <3>1, <3>2, FS_AddElement
    <2>3. CASE j # i
      <3>0. od'[b].od_ino # j /\ od[b].od_ino # j
        BY <1>1, <1>3, <2>3, Ranges DEF Live
      <3>1. Refs(j)' = Refs(j)
        BY <1>3, <3>0 DEF Refs
      <3>2. oi_nlink'[j] = oi_nlink[j]
        BY <2>3 DEF EntryInv, DirShape
      <3> QED  BY <2>1, <3>1, <3>2
    <2> QED  BY <2>2, <2>3
  <1> QED  BY <1>5, <1>6, <1>7 DEF EntryInv

\* An entry that is blanked: one that was blank, or one whose inode loses a
\* reference.
LEMMA NameBlanked ==
    ASSUME EntryInv, NEW b \in Slots, od' = [od EXCEPT ![b] = Blank],
           nentries' \in Nat, nentries <= nentries', DirShape',
           oi_nlink' = IF Live(b) THEN [oi_nlink EXCEPT ![od[b].od_ino] = @ - 1] ELSE oi_nlink
    PROVE  EntryInv'
  <1>1. od'[b].od_ino = 0 /\ \A s \in Slots \ {b} : od'[s] = od[s]
    BY DEF EntryInv, DirShape, Blank
  <1>2. EntriesUsed'
    <2> SUFFICES ASSUME NEW s \in Slots, od'[s].od_ino # 0
                 PROVE  s < nentries' /\ od'[s].od_name \in Names
      BY DEF EntriesUsed, Live
    <2>1. s # b /\ s < nentries /\ od[s].od_name \in Names /\ s \in Nat /\ nentries \in Nat
      BY <1>1, Ranges DEF EntryInv, DirShape, EntriesUsed, Live
    <2> QED  BY <1>1, <2>1
  <1>3. NamesOnce'
    BY <1>1 DEF EntryInv, NamesOnce, Live
  <1>4. CountsRefs'
    <2> SUFFICES ASSUME NEW j \in Inodes PROVE oi_nlink'[j] = Cardinality(Refs(j)')
      BY DEF CountsRefs
    <2>1. oi_nlink[j] = Cardinality(Refs(j)) /\ IsFiniteSet(Refs(j))
      BY RefsFinite DEF EntryInv, CountsRefs
    <2>2. CASE j = od[b].od_ino
      <3>1. Refs(j)' = Refs(j) \ {b} /\ b \in Refs(j) /\ Live(b)
        BY <1>1, <2>2, Ranges DEF Refs, Live
      <3>2. oi_nlink'[j] = oi_nlink[j] - 1
        BY <2>2, <3>1 DEF EntryInv, DirShape
      <3> QED  BY <2>1, <3>1, <3>2, FS_RemoveElement
    <2>3. CASE j # od[b].od_ino
      <3>1. Refs(j)' = Refs(j)
        BY <1>1, <2>3, Ranges DEF Refs, Live
      <3>2. oi_nlink'[j] = oi_nlink[j]
        BY <2>3 DEF EntryInv, DirShape
      <3> QED  BY <2>1, <3>1, <3>2
    <2> QED  BY <2>2, <2>3
  <1> QED  BY <1>2, <1>3, <1>4 DEF EntryInv

\* An inode that is referred to is counted.
LEMMA Referred ==
    ASSUME EntryInv, NEW s \in Slots, Live(s)
    PROVE  /\ od[s].od_ino \in Inodes
           /\ oi_nlink[od[s].od_ino] \in Nat /\ oi_nlink[od[s].od_ino] > 0
  <1> DEFINE i == od[s].od_ino
  <1>1. i \in Inodes
    BY DEF EntryInv, DirShape, Live
  <1>2. s \in Refs(i)
    BY DEF Refs
  <1>3. Cardinality(Refs(i)) # 0 /\ Cardinality(Refs(i)) \in Nat
    BY <1>2, RefsFinite, FS_EmptySet
  <1>4. oi_nlink[i] = Cardinality(Refs(i))
    BY <1>1 DEF EntryInv, CountsRefs
  <1> QED  BY <1>1, <1>3, <1>4

\* create and symlink take an inode that exists and has no name.
LEMMA FreshInode ==
    ASSUME EntryInv, FreeInodes # {}
    PROVE  NewInode \in Inodes /\ oi_nlink[NewInode] = 0
  <1>1. FreeInodes \subseteq Nat
    BY Ranges DEF FreeInodes
  <1>2. NewInode \in FreeInodes
    BY <1>1, LeastIn DEF NewInode
  <1> QED  BY <1>2 DEF FreeInodes

\* Entering a name, or nothing, keeps the shape of the directory.
LEMMA EnteredShape ==
    ASSUME EntryInv, NEW n \in Names, NEW i \in Inodes \cup {0}, EnterAs(n, i)
    PROVE  /\ od' \in [Slots -> [od_ino : Inodes \cup {0}, od_name : Names \cup {NoName}]]
           /\ nentries' \in 0 .. MaxEntries /\ free' \in Nat
  <1>1. HasBlank \/ CanGrow
    BY DEF EnterAs
  <1>2. nentries' \in 0 .. MaxEntries /\ free' \in Nat
    BY <1>1, BlankIsBlank
  <1> QED  BY <1>2 DEF EnterAs, EntryInv, DirShape, Blank

LEMMA InitEntryInv == Init => EntryInv
  <1> SUFFICES ASSUME Init PROVE EntryInv  OBVIOUS
  <1>1. DirShape
    BY Ranges DEF Init, DirShape, Blank
  <1>2. \A s \in Slots : ~Live(s)
    BY DEF Init, Live, Blank
  <1>3. CountsRefs
    <2> SUFFICES ASSUME NEW i \in Inodes PROVE oi_nlink[i] = Cardinality(Refs(i))
      BY DEF CountsRefs
    <2>1. Refs(i) = {}
      BY <1>2, Ranges DEF Refs, Live
    <2> QED  BY <2>1, FS_EmptySet DEF Init
  <1> QED  BY <1>1, <1>2, <1>3 DEF EntryInv, EntriesUsed, NamesOnce

\* Every step preserves the invariant.
LEMMA NextEntryInv ==
    ASSUME EntryInv, [Next]_vars
    PROVE  EntryInv'
  <1>0. DirShape
    BY DEF EntryInv
  <1>1. ASSUME UNCHANGED disk PROVE EntryInv'
    BY <1>1 DEF disk, inodes, EntryInv, DirShape, EntriesUsed, NamesOnce, CountsRefs, Refs, Live
  <1>2. ASSUME NEW n \in Names \cup {LongName}, Create(n) PROVE EntryInv'
    <2>1. /\ n \in Names /\ EnterAs(n, NewInode) /\ ~find_direntry(n)
          /\ NewInode \in Inodes /\ oi_nlink[NewInode] = 0
      BY <1>2, FreshInode DEF Create
    <2>2. oi_nlink' = [oi_nlink EXCEPT ![NewInode] = @ + 1]
      BY <1>2, <2>1 DEF Create
    <2>3. DirShape'
      BY <1>0, <1>2, <2>1, EnteredShape DEF DirShape, Create
    <2> QED  BY <2>1, <2>2, <2>3, NameEntered
  <1>3. ASSUME NEW n \in Names \cup {LongName}, NEW target \in Targets, Symlink(n, target)
        PROVE  EntryInv'
    <2>1. /\ n \in Names /\ EnterAs(n, NewInode) /\ ~find_direntry(n)
          /\ NewInode \in Inodes /\ oi_nlink[NewInode] = 0
      BY <1>3, FreshInode DEF Symlink
    <2>2. oi_nlink' = [oi_nlink EXCEPT ![NewInode] = @ + 1]
      BY <1>3, <2>1 DEF Symlink
    <2>3. DirShape'
      BY <1>0, <1>3, <2>1, EnteredShape DEF DirShape, Symlink
    <2> QED  BY <2>1, <2>2, <2>3, NameEntered
  <1>4. ASSUME NEW n \in Names \cup {LongName}, MakeWithoutInode(n) PROVE EntryInv'
    <2>1. n \in Names /\ EnterAs(n, 0) /\ UNCHANGED inodes
      BY <1>4 DEF MakeWithoutInode
    <2>2. DirShape'
      BY <1>0, <2>1, EnteredShape DEF DirShape, inodes
    <2>3. HasBlank \/ CanGrow
      BY <2>1 DEF EnterAs
    <2>4. /\ BlankEntry \in Slots /\ ~Live(BlankEntry) /\ nentries <= nentries'
          /\ nentries' \in 0 .. MaxEntries
      BY <2>1, <2>3, BlankIsBlank
    <2>5. od' = [od EXCEPT ![BlankEntry] = Blank]
      BY <2>1 DEF EnterAs
    <2>6. nentries' \in Nat /\ oi_nlink' = oi_nlink
      BY <2>1, <2>4, Ranges DEF inodes
    <2> QED  BY <2>2, <2>4, <2>5, <2>6, NameBlanked
  <1>5. ASSUME NEW n \in Names \cup {LongName}, NEW m \in Names, Link(m, n) PROVE EntryInv'
    <2>1. n \in Names /\ find_direntry(m) /\ ~find_direntry(n) /\ EnterAs(n, Lookup(m))
      BY <1>5 DEF Link
    <2>2. Lookup(m) \in Inodes
      BY <2>1, FoundEntry
    <2>3. oi_nlink' = [oi_nlink EXCEPT ![Lookup(m)] = @ + 1]
      BY <1>5 DEF Link, Counted
    <2>4. DirShape'
      BY <1>0, <1>5, <2>1, <2>2, <2>3, EnteredShape DEF DirShape, Link
    <2> QED  BY <2>1, <2>2, <2>3, <2>4, NameEntered
  <1>6. ASSUME NEW n \in Names \cup {LongName}, Unlink(n) PROVE EntryInv'
    <2> DEFINE e == Entry(n)
               i == Lookup(n)
    <2>1. find_direntry(n) /\ od' = [od EXCEPT ![e] = Blank]
          /\ oi_nlink' = [oi_nlink EXCEPT ![i] = @ - 1] /\ nentries' = nentries
      BY <1>6 DEF Unlink
    <2>2. e \in Slots /\ Live(e) /\ i = od[e].od_ino /\ i \in Inodes
      BY <2>1, FoundEntry
    <2>3. oi_nlink[i] \in Nat /\ oi_nlink[i] > 0
      BY <2>2, Referred
    <2>4. od' \in [Slots -> [od_ino : Inodes \cup {0}, od_name : Names \cup {NoName}]]
      BY <1>0, <2>1, <2>2 DEF DirShape, Blank
    <2>5. oi_size' \in [Inodes -> Nat] /\ free' \in Nat
      <3> HIDE DEF i
      <3>1. CASE oi_size' = [oi_size EXCEPT ![i] = 0] /\ free' = free + oi_size[i]
        BY <1>0, <2>2, <3>1 DEF DirShape
      <3>2. CASE UNCHANGED <<oi_size, free>>
        BY <1>0, <3>2 DEF DirShape
      <3> QED  BY <1>6, <3>1, <3>2 DEF Unlink, i
    <2>6. oi_nlink' \in [Inodes -> Nat]
      <3> HIDE DEF i
      <3> QED  BY <1>0, <2>1, <2>2, <2>3 DEF DirShape
    <2>7. oi_symlink' \in [Inodes -> Targets \cup {NoTarget}]
      <3>1. oi_symlink' = [oi_symlink EXCEPT ![i] = IF oi_nlink[i] = 1 THEN NoTarget ELSE @]
        BY <1>6 DEF Unlink
      <3> HIDE DEF i
      <3> QED  BY <1>0, <2>2, <3>1 DEF DirShape
    <2>8. oi_ftype' = oi_ftype
      BY <1>6 DEF Unlink
    <2>9. DirShape'
      BY <1>0, <2>1, <2>4, <2>5, <2>6, <2>7, <2>8 DEF DirShape
    <2>10. nentries' \in Nat /\ nentries <= nentries'
      BY <1>0, <2>1, Ranges DEF DirShape
    <2> QED  BY <2>1, <2>2, <2>9, <2>10, NameBlanked
  <1>7. ASSUME NEW n \in Names \cup {LongName}, Grow(n) PROVE EntryInv'
    <2>1. Lookup(n) \in Inodes
      BY <1>7, FoundEntry DEF Grow
    <2>2. DirShape'
      BY <1>0, <1>7, <2>1 DEF Grow, DirShape
    <2> QED
      BY <1>7, <2>2 DEF Grow, EntryInv, EntriesUsed, NamesOnce, CountsRefs, Refs, Live
  <1>8. ASSUME NEW p \in Procs, OpenDir(p) \/ \E cap \in Caps : ReadDir(p, cap) PROVE EntryInv'
    BY <1>1, <1>8 DEF OpenDir, ReadDir
  <1>9. CASE UNCHANGED vars
    BY <1>1, <1>9 DEF vars
  <1>10. ASSUME NEW n \in Names \cup {LongName}, Refused(n) PROVE EntryInv'
    BY <1>9, <1>10 DEF Refused
  <1> QED
    BY <1>2, <1>3, <1>4, <1>5, <1>6, <1>7, <1>8, <1>9, <1>10 DEF Next, Change

\* However names are made, linked and unlinked, and whenever the calls run out
\* of inodes or blocks, oi_nlink is the number of entries that refer to the
\* inode.
THEOREM LinkCountsAreExact == Spec => []LinkCountExact
  <1>1. Init => EntryInv
    BY InitEntryInv
  <1>2. EntryInv /\ [Next]_vars => EntryInv'
    BY NextEntryInv
  <1>3. EntryInv => LinkCountExact
    <2> SUFFICES ASSUME EntryInv, NEW i \in Inodes
                 PROVE  {s \in 0 .. nentries - 1 : od[s].od_ino = i} = Refs(i)
      BY DEF LinkCountExact, EntryInv, CountsRefs
    <2>1. 0 .. nentries - 1 \subseteq Slots
      BY Ranges DEF EntryInv, DirShape, Slots
    <2>2. \A s \in Slots : od[s].od_ino = i => s \in 0 .. nentries - 1
      BY Ranges DEF EntryInv, DirShape, EntriesUsed, Live
    <2> QED  BY <2>1, <2>2 DEF Refs
  <1> QED  BY <1>1, <1>2, <1>3, PTL DEF Spec

-----------------------------------------------------------------------------
(* Listing the directory. *)

\* The entries a listing has reported are in front of its position.
Passed(r) ==
    /\ r \in [f_pos : Nat, seen : SUBSET Nat, twice : BOOLEAN, ended : BOOLEAN]
    /\ ~r.twice
    /\ \A s \in r.seen : s < r.f_pos

ScanInv == DOMAIN scan = Procs /\ \A p \in Procs : Passed(scan[p])

\* What a call reports lies between the entry where it begins and the one
\* where it stops.
LEMMA ReportedBetween ==
    ASSUME nentries \in Nat, NEW ent \in Nat, NEW room \in Int
    PROVE  /\ Stop(ent, room) \in Nat /\ ent <= Stop(ent, room)
           /\ \A s \in Reported(ent, room) : s \in Nat /\ ent <= s /\ s < Stop(ent, room)
  <1> DEFINE live == LiveFrom(ent)
             reported == Reported(ent, room)
             stop == Stop(ent, room)
             B(x) == {t \in live : t < x}
  <1>1. \A s \in live : s \in Nat /\ ent <= s /\ s < nentries
    BY DEF LiveFrom
  <1>2. IsFiniteSet(live)
    <2>1. live \in SUBSET (ent .. nentries - 1)
      BY DEF LiveFrom
    <2>2. IsFiniteSet(ent .. nentries - 1)
      BY FS_Interval
    <2> QED  BY <2>1, <2>2, FS_Subset
  <1>3. \A x : IsFiniteSet(B(x)) /\ Cardinality(B(x)) \in Nat
    <2>1. \A x : B(x) \in SUBSET live
      OBVIOUS
    <2> HIDE DEF B, live
    <2> QED  BY <1>2, <2>1, FS_Subset, FS_CardinalityType
  <1>4. reported \subseteq live /\ \A s \in live : s \in reported <=> Cardinality(B(s)) < room
    BY DEF Reported
  <1>5. stop = IF reported # live THEN Least(live \ reported)
               ELSE IF ent < nentries THEN nentries ELSE ent
    BY DEF Stop
  <1> HIDE DEF live, reported, stop
  <1>6. CASE reported # live
    <2>1. stop \in live /\ stop \notin reported
      <3>1. live \ reported # {} /\ live \ reported \subseteq Nat /\ stop = Least(live \ reported)
        BY <1>1, <1>4, <1>5, <1>6
      <3> QED  BY <3>1, LeastIn
    <2>2. ASSUME NEW s \in reported, ~(s < stop) PROVE FALSE
      <3>1. Cardinality(B(s)) < room /\ ~(Cardinality(B(stop)) < room)
        <4> HIDE DEF B
        <4> QED  BY <1>4, <2>1
      <3>2. s \in Nat /\ stop \in Nat /\ stop <= s
        BY <1>1, <1>4, <2>1, <2>2
      <3>3. B(stop) \in SUBSET B(s)
        <4>1. \A t \in live : t < stop => t < s
          BY <1>1, <3>2
        <4> QED  BY <4>1
      <3> HIDE DEF B
      <3>4. Cardinality(B(stop)) <= Cardinality(B(s))
        BY <1>3, <3>3, FS_Subset
      <3>5. Cardinality(B(s)) \in Nat /\ Cardinality(B(stop)) \in Nat
        BY <1>3
      <3> QED  BY <3>1, <3>4, <3>5
    <2>3. \A s \in reported : s < stop
      BY <2>2
    <2> QED  BY <1>1, <1>4, <2>1, <2>3 DEF reported, stop
  <1>7. CASE reported = live /\ ent < nentries
    BY <1>1, <1>5, <1>7 DEF reported, stop
  <1>8. CASE reported = live /\ ~(ent < nentries)
    <2>1. \A s : s \notin live
      BY <1>1, <1>8
    <2>2. stop = ent
      BY <1>5, <1>8
    <2> QED  BY <1>8, <2>1, <2>2 DEF reported, stop
  <1> QED  BY <1>6, <1>7, <1>8

\* A call of readdir keeps the listing in order.
LEMMA ListedPasses ==
    ASSUME EntryInv, NEW d, Passed(d), NEW cap \in Caps
    PROVE  Passed(Listed(d, cap))
  <1> DEFINE f_pos == d.f_pos
             dots == Dots(f_pos)
             ent == FirstEntry(f_pos)
             room == cap - dots
             reported == Reported(ent, room)
             stop == Stop(ent, room)
  <1>1. f_pos \in Nat /\ d.seen \in SUBSET Nat /\ \A s \in d.seen : s < f_pos
    BY DEF Passed
  <1>2. cap \in Nat /\ dots \in Nat /\ ent = f_pos /\ room \in Int /\ nentries \in Nat
    BY <1>1, DirAssumption DEF FirstEntry, Dots, EntryInv, DirShape
  <1>3. stop \in Nat /\ ent <= stop /\ \A s \in reported : s \in Nat /\ ent <= s /\ s < stop
    <2> HIDE DEF ent, room
    <2> QED  BY <1>1, <1>2, ReportedBetween
  <1>4. CASE cap < dots
    <2>1. Listed(d, cap) = [d EXCEPT !.f_pos = @ + cap]
      BY <1>4 DEF Listed
    <2>2. f_pos + cap \in Nat /\ \A s \in d.seen : s < f_pos + cap
      <3> HIDE DEF f_pos
      <3> QED  BY <1>1, <1>2
    <2> QED  BY <2>1, <2>2 DEF Passed
  <1>5. CASE ~(cap < dots)
    <2>1. d.seen \cap reported = {}
      <3>1. ASSUME NEW s \in d.seen, s \in reported PROVE FALSE
        <4>1. s < f_pos /\ f_pos <= s /\ s \in Nat
          BY <1>1, <1>2, <1>3, <3>1
        <4> QED  BY <1>1, <4>1
      <3> QED  BY <3>1
    <2> DEFINE new == [f_pos |-> f_pos + dots + stop - ent, seen |-> d.seen \cup reported,
                       twice |-> d.twice \/ d.seen \cap reported # {},
                       ended |-> dots = 0 /\ reported = {}]
    <2>2. Listed(d, cap) = new
      BY <1>5 DEF Listed
    <2>3. f_pos + dots + stop - ent = dots + stop /\ dots + stop \in Nat
      <3> HIDE DEF f_pos, dots, stop, ent
      <3> QED  BY <1>1, <1>2, <1>3
    <2>4. \A s \in d.seen \cup reported : s \in Nat /\ s < dots + stop
      <3>1. ASSUME NEW s \in d.seen PROVE s \in Nat /\ s < dots + stop
        <4> HIDE DEF f_pos, dots, stop, ent
        <4> QED  BY <1>1, <1>2, <1>3
      <3>2. ASSUME NEW s \in reported PROVE s \in Nat /\ s < dots + stop
        <4> HIDE DEF f_pos, dots, stop, ent, reported
        <4> QED  BY <1>1, <1>2, <1>3
      <3> QED  BY <3>1, <3>2
    <2>5. ~d.twice
      BY DEF Passed
    <2> HIDE DEF f_pos, dots, stop, ent, reported
    <2>6. new.f_pos \in Nat /\ new.seen \in SUBSET Nat /\ \A s \in new.seen : s < new.f_pos
      BY <2>3, <2>4
    <2>7. ~new.twice /\ new.twice \in BOOLEAN /\ new.ended \in BOOLEAN
      BY <2>1, <2>5
    <2>8. new \in [f_pos : Nat, seen : SUBSET Nat, twice : BOOLEAN, ended : BOOLEAN]
      BY <2>3, <2>4
    <2>9. Passed(new)
      <3> HIDE DEF new
      <3> QED  BY <2>6, <2>7, <2>8 DEF Passed
    <2> QED  BY <2>2, <2>9
  <1> QED  BY <1>4, <1>5

\* No listing reports an entry twice, whatever is done to the directory
\* between its calls and however small their buffers are.
THEOREM ListedOnce == Spec => []ReaddirOnce
  <1>1. Init => EntryInv /\ ScanInv
    <2>1. Init => ScanInv
      BY DEF Init, ScanInv, Passed, NoScan
    <2> QED  BY <2>1, InitEntryInv
  <1>2. EntryInv /\ ScanInv /\ [Next]_vars => (EntryInv /\ ScanInv)'
    <2> SUFFICES ASSUME EntryInv, ScanInv, [Next]_vars PROVE ScanInv'
      BY NextEntryInv
    <2>1. ASSUME UNCHANGED scan PROVE ScanInv'
      BY <2>1 DEF ScanInv
    <2>2. ASSUME NEW n \in Names \cup {LongName}, Change(n) PROVE ScanInv'
      BY <2>1, <2>2 DEF Change, Refused, Create, MakeWithoutInode, Symlink, Link, Unlink, Grow, vars
    <2>3. ASSUME NEW p \in Procs, OpenDir(p) PROVE ScanInv'
      <3>1. scan' = [scan EXCEPT ![p] = [NoScan EXCEPT !.ended = FALSE]]
        BY <2>3 DEF OpenDir
      <3>2. Passed([NoScan EXCEPT !.ended = FALSE])
        BY DEF Passed, NoScan
      <3> QED  BY <3>1, <3>2 DEF ScanInv
    <2>4. ASSUME NEW p \in Procs, NEW cap \in Caps, ReadDir(p, cap) PROVE ScanInv'
      <3>1. scan' = [scan EXCEPT ![p] = Listed(scan[p], cap)]
        BY <2>4 DEF ReadDir
      <3>2. Passed(Listed(scan[p], cap))
        BY ListedPasses DEF ScanInv
      <3> QED  BY <3>1, <3>2 DEF ScanInv
    <2>5. CASE UNCHANGED vars
      BY <2>1, <2>5 DEF vars
    <2> QED  BY <2>2, <2>3, <2>4, <2>5 DEF Next
  <1>3. ScanInv => ReaddirOnce
    BY DEF ScanInv, Passed, ReaddirOnce
  <1> QED  BY <1>1, <1>2, <1>3, PTL DEF Spec

-----------------------------------------------------------------------------
(* The blocks. *)

\* No file has more blocks than the disk.
SizesBounded == \A i \in Inodes : oi_size[i] <= NFree

BlockInv == BlocksConserved /\ SizesBounded

\* The blocks of one file.
Column(i) == {i} \X (1 .. oi_size[i])

LEMMA HeldFinite == IsFiniteSet(HeldBlocks) /\ Cardinality(HeldBlocks) \in Nat
  <1>1. IsFiniteSet(1 .. NFree)
    BY Ranges, FS_Interval
  <1>2. IsFiniteSet(Inodes \X (1 .. NFree))
    BY <1>1, Ranges, FS_Product
  <1>3. HeldBlocks \in SUBSET (Inodes \X (1 .. NFree))
    BY DEF HeldBlocks
  <1>4. IsFiniteSet(HeldBlocks)
    BY <1>2, <1>3, FS_Subset
  <1> QED  BY <1>4, FS_CardinalityType

\* A file holds as many blocks as it has.
LEMMA ColumnHeld ==
    ASSUME DirShape, SizesBounded, NEW i \in Inodes
    PROVE  /\ Column(i) \in SUBSET HeldBlocks
           /\ Cardinality(Column(i)) = oi_size[i]
           /\ oi_size[i] <= Cardinality(HeldBlocks)
  <1>1. oi_size[i] \in Nat /\ oi_size[i] <= NFree /\ NFree \in Nat
    BY Ranges DEF DirShape, SizesBounded
  <1>2. Column(i) \in SUBSET HeldBlocks
    BY <1>1 DEF Column, HeldBlocks
  <1>3. IsFiniteSet(1 .. oi_size[i]) /\ Cardinality(1 .. oi_size[i]) = oi_size[i]
    <2>1. ASSUME NEW v \in Nat PROVE IsFiniteSet(1 .. v) /\ Cardinality(1 .. v) = v
      <3>1. IsFiniteSet(1 .. v) /\ Cardinality(1 .. v) = IF 1 > v THEN 0 ELSE v - 1 + 1
        BY FS_Interval
      <3> QED  BY <3>1
    <2> QED  BY <1>1, <2>1
  <1>4. IsFiniteSet({i}) /\ Cardinality({i}) = 1
    BY FS_Singleton
  <1>5. Cardinality(Column(i)) = Cardinality({i}) * Cardinality(1 .. oi_size[i])
    BY <1>3, <1>4, FS_Product DEF Column
  <1>6. Cardinality(Column(i)) = oi_size[i]
    BY <1>1, <1>3, <1>4, <1>5
  <1>7. Cardinality(Column(i)) <= Cardinality(HeldBlocks)
    BY <1>2, HeldFinite, FS_Subset
  <1> QED  BY <1>2, <1>6, <1>7

\* A directory that grows takes a free block.
LEMMA EntryTakesBlock ==
    ASSUME EntryInv, NEW n, NEW i, EnterAs(n, i)
    PROVE  free' + nentries' \div PerBlock = free + nentries \div PerBlock
  <1>1. /\ nentries \in Nat /\ free \in Nat /\ PerBlock \in Nat /\ PerBlock > 0
        /\ nentries \div PerBlock \in Nat
    BY Ranges DEF EntryInv, DirShape
  <1>2. (nentries + PerBlock) \div PerBlock = (nentries \div PerBlock) + 1
    BY <1>1
  <1>3. CASE HasBlank
    BY <1>3 DEF EnterAs
  <1>4. CASE ~HasBlank
    <2>1. nentries' = nentries + PerBlock /\ free' = free - 1
      BY <1>4 DEF EnterAs
    <2>2. nentries' \div PerBlock = (nentries \div PerBlock) + 1
      BY <1>2, <2>1
    <2> QED  BY <1>1, <2>1, <2>2
  <1> QED  BY <1>3, <1>4

\* A name that is entered, with the files' blocks left alone.
LEMMA EnteredConserves ==
    ASSUME EntryInv, BlockInv, NEW n, NEW i, EnterAs(n, i), EntryInv', oi_size' = oi_size,
           \A j \in Inodes : oi_nlink'[j] = 0 \/ oi_ftype'[j] = SYMLINK => oi_size[j] = 0
    PROVE  BlockInv'
  <1>1. HeldBlocks' = HeldBlocks /\ SizesBounded'
    BY DEF HeldBlocks, BlockInv, SizesBounded
  <1>2. free' + nentries' \div PerBlock = free + nentries \div PerBlock
    BY EntryTakesBlock
  <1>3. /\ free \in Nat /\ free' \in Nat /\ nentries \div PerBlock \in Nat
        /\ nentries' \div PerBlock \in Nat /\ Cardinality(HeldBlocks) \in Nat
    <2>1. free \in Nat /\ free' \in Nat /\ nentries \in Nat /\ nentries' \in Nat
      BY Ranges DEF EntryInv, DirShape
    <2>2. ASSUME NEW k \in Nat PROVE k \div PerBlock \in Nat
      BY Ranges
    <2> QED  BY <2>1, <2>2, HeldFinite
  <1>4. free + Cardinality(HeldBlocks) + nentries \div PerBlock = NFree
    BY DEF BlockInv, BlocksConserved
  <1>5. free' + Cardinality(HeldBlocks') + nentries' \div PerBlock = NFree
    BY <1>1, <1>2, <1>3, <1>4
  <1> QED  BY <1>1, <1>5 DEF BlockInv, BlocksConserved

\* A file's next block comes from the free ones.
LEMMA GrowConserves ==
    ASSUME EntryInv, BlockInv, EntryInv', NEW n, Grow(n)
    PROVE  BlockInv' /\ oi_size[Lookup(n)] + 1 <= NFree
  <1> DEFINE i == Lookup(n)
             v == oi_size[i]
             d == nentries \div PerBlock
             new == <<i, v + 1>>
  <1>1. /\ find_direntry(n) /\ oi_ftype[i] = REG /\ free > 0
        /\ oi_size' = [oi_size EXCEPT ![i] = v + 1] /\ free' = free - 1
        /\ UNCHANGED <<nentries, oi_ftype, oi_nlink>>
    BY DEF Grow
  <1>2. i \in Inodes /\ Entry(n) \in Slots /\ Live(Entry(n)) /\ i = od[Entry(n)].od_ino
    BY <1>1, FoundEntry
  <1>3. oi_nlink[i] > 0 /\ oi_nlink[i] \in Nat
    BY <1>2, Referred
  <1>4. /\ free \in Nat /\ d \in Nat /\ NFree \in Nat /\ Cardinality(HeldBlocks) \in Nat
        /\ \A j \in Inodes : oi_size[j] \in Nat
    BY Ranges, HeldFinite DEF EntryInv, DirShape
  <1>5. free + Cardinality(HeldBlocks) + d = NFree
    BY DEF BlockInv, BlocksConserved
  <1>6. v <= Cardinality(HeldBlocks)
    BY <1>2, ColumnHeld DEF EntryInv, BlockInv
  <1> HIDE DEF i, d
  <1>7. v + 1 <= NFree /\ v \in Nat
    BY <1>1, <1>2, <1>4, <1>5, <1>6
  <1>8. oi_size'[i] = v + 1 /\ \A j \in Inodes \ {i} : oi_size'[j] = oi_size[j]
    BY <1>1, <1>2 DEF EntryInv, DirShape
  <1>9. HeldBlocks' = HeldBlocks \cup {new} /\ new \notin HeldBlocks
    <2>1. new \notin HeldBlocks
      BY <1>7 DEF HeldBlocks
    <2>2. ASSUME NEW x \in Inodes \X (1 .. NFree)
          PROVE  x[2] <= oi_size'[x[1]] <=> x[2] <= oi_size[x[1]] \/ x = new
      <3>1. x = <<x[1], x[2]>> /\ x[1] \in Inodes /\ x[2] \in Nat
        BY <1>4
      <3>2. CASE x[1] = i
        BY <1>7, <1>8, <3>1, <3>2
      <3>3. CASE x[1] # i
        BY <1>8, <3>1, <3>3
      <3> QED  BY <3>2, <3>3
    <2>3. new \in Inodes \X (1 .. NFree)
      BY <1>2, <1>4, <1>7
    <2> HIDE DEF new
    <2> QED  BY <2>1, <2>2, <2>3 DEF HeldBlocks
  <1>10. Cardinality(HeldBlocks') = Cardinality(HeldBlocks) + 1
    <2> HIDE DEF new
    <2> QED  BY <1>9, HeldFinite, FS_AddElement
  <1>11. free' + Cardinality(HeldBlocks') + d = NFree
    BY <1>1, <1>4, <1>5, <1>10
  <1>12. \A j \in Inodes : oi_nlink'[j] = 0 \/ oi_ftype'[j] = SYMLINK => oi_size'[j] = 0
    <2>1. oi_nlink'[i] # 0 /\ oi_ftype'[i] # SYMLINK
      BY <1>1, <1>3 DEF REG, SYMLINK
    <2> QED  BY <1>1, <1>8, <2>1 DEF BlockInv, BlocksConserved
  <1>13. SizesBounded'
    BY <1>7, <1>8 DEF BlockInv, SizesBounded
  <1>14. free' + Cardinality(HeldBlocks') + nentries' \div PerBlock = NFree
    BY <1>1, <1>11 DEF d
  <1> QED  BY <1>7, <1>12, <1>13, <1>14 DEF BlockInv, BlocksConserved, i

\* A file that loses its last name gives its blocks back.
LEMMA UnlinkConserves ==
    ASSUME EntryInv, BlockInv, EntryInv', NEW n, Unlink(n)
    PROVE  BlockInv'
  <1> DEFINE i == Lookup(n)
             v == oi_size[i]
             d == nentries \div PerBlock
  <1>1. /\ find_direntry(n) /\ oi_nlink' = [oi_nlink EXCEPT ![i] = @ - 1]
        /\ UNCHANGED <<nentries, oi_ftype>>
        /\ IF Dropped(i) THEN oi_size' = [oi_size EXCEPT ![i] = 0] /\ free' = free + v
           ELSE UNCHANGED <<oi_size, free>>
    BY DEF Unlink
  <1>2. i \in Inodes /\ Entry(n) \in Slots /\ Live(Entry(n)) /\ i = od[Entry(n)].od_ino
    BY <1>1, FoundEntry
  <1>3. oi_nlink[i] > 0 /\ oi_nlink[i] \in Nat
    BY <1>2, Referred
  <1>4. /\ free \in Nat /\ d \in Nat /\ NFree \in Nat /\ Cardinality(HeldBlocks) \in Nat
        /\ \A j \in Inodes : oi_size[j] \in Nat
    BY Ranges, HeldFinite DEF EntryInv, DirShape
  <1>5. free + Cardinality(HeldBlocks) + d = NFree
    BY DEF BlockInv, BlocksConserved
  <1>6. Column(i) \in SUBSET HeldBlocks /\ Cardinality(Column(i)) = v
    BY <1>2, ColumnHeld DEF EntryInv, BlockInv
  <1>7. \A j \in Inodes : oi_nlink[j] = 0 \/ oi_ftype[j] = SYMLINK => oi_size[j] = 0
    BY DEF BlockInv, BlocksConserved
  <1> HIDE DEF i
  <1>8. oi_nlink'[i] = oi_nlink[i] - 1 /\ \A j \in Inodes \ {i} : oi_nlink'[j] = oi_nlink[j]
    BY <1>1, <1>2 DEF EntryInv, DirShape
  <1>9. CASE Dropped(i)
    <2>1. /\ oi_size'[i] = 0 /\ \A j \in Inodes \ {i} : oi_size'[j] = oi_size[j]
          /\ free' = free + v
      BY <1>1, <1>2, <1>9 DEF EntryInv, DirShape
    <2>2. HeldBlocks' = HeldBlocks \ Column(i)
      <3>1. ASSUME NEW x \in Inodes \X (1 .. NFree)
            PROVE  x[2] <= oi_size'[x[1]] <=> x[2] <= oi_size[x[1]] /\ x \notin Column(i)
        <4>1. x = <<x[1], x[2]>> /\ x[1] \in Inodes /\ x[2] \in Nat /\ x[2] > 0
          BY <1>4
        <4>2. CASE x[1] = i
          BY <1>4, <2>1, <4>1, <4>2 DEF Column
        <4>3. CASE x[1] # i
          BY <2>1, <4>1, <4>3 DEF Column
        <4> QED  BY <4>2, <4>3
      <3> QED  BY <3>1 DEF HeldBlocks
    <2>3. HeldBlocks \cap Column(i) = Column(i)
      BY <1>6
    <2>4. Cardinality(HeldBlocks') = Cardinality(HeldBlocks) - v
      <3> HIDE DEF v
      <3> QED  BY <1>6, <2>2, <2>3, HeldFinite, FS_Difference
    <2>5. v \in Nat
      BY <1>2, <1>4
    <2>6. free' + Cardinality(HeldBlocks') + d = NFree
      <3> HIDE DEF v, d
      <3> QED  BY <1>4, <1>5, <2>1, <2>4, <2>5
    <2>7. \A j \in Inodes : oi_nlink'[j] = 0 \/ oi_ftype'[j] = SYMLINK => oi_size'[j] = 0
      BY <1>1, <1>7, <1>8, <2>1
    <2>8. SizesBounded'
      BY <1>4, <2>1 DEF BlockInv, SizesBounded
    <2> QED  BY <1>1, <2>6, <2>7, <2>8 DEF BlockInv, BlocksConserved
  <1>10. CASE ~Dropped(i)
    <2>1. oi_size' = oi_size /\ free' = free
      BY <1>1, <1>10
    <2>2. HeldBlocks' = HeldBlocks /\ SizesBounded'
      BY <2>1 DEF HeldBlocks, BlockInv, SizesBounded
    <2>3. oi_nlink'[i] = 0 => oi_ftype[i] = SYMLINK
      BY <1>3, <1>8, <1>10 DEF Dropped
    <2>4. \A j \in Inodes : oi_nlink'[j] = 0 \/ oi_ftype'[j] = SYMLINK => oi_size'[j] = 0
      BY <1>1, <1>7, <1>8, <2>1, <2>3
    <2> QED  BY <1>1, <1>5, <2>1, <2>2, <2>4 DEF BlockInv, BlocksConserved
  <1> QED  BY <1>9, <1>10

LEMMA NextBlockInv ==
    ASSUME EntryInv, BlockInv, [Next]_vars
    PROVE  BlockInv'
  <1>0. EntryInv'
    BY NextEntryInv
  <1>1. ASSUME UNCHANGED disk PROVE BlockInv'
    <2>1. UNCHANGED <<nentries, oi_ftype, oi_nlink, oi_size, free>>
      BY <1>1 DEF disk, inodes
    <2> QED  BY <2>1 DEF BlockInv, BlocksConserved, SizesBounded, HeldBlocks
  <1>2. \A j \in Inodes : oi_nlink[j] = 0 \/ oi_ftype[j] = SYMLINK => oi_size[j] = 0
    BY DEF BlockInv, BlocksConserved
  <1>3. ASSUME NEW n \in Names \cup {LongName}, Create(n) PROVE BlockInv'
    <2>1. /\ EnterAs(n, NewInode) /\ NewInode \in Inodes /\ oi_nlink[NewInode] = 0
          /\ oi_ftype' = [oi_ftype EXCEPT ![NewInode] = REG]
          /\ oi_nlink' = [oi_nlink EXCEPT ![NewInode] = 1]
          /\ oi_size' = [oi_size EXCEPT ![NewInode] = 0]
      BY <1>3, FreshInode DEF Create
    <2>2. oi_size' = oi_size
      BY <1>2, <2>1 DEF EntryInv, DirShape
    <2>3. \A j \in Inodes : oi_nlink'[j] = 0 \/ oi_ftype'[j] = SYMLINK => oi_size[j] = 0
      BY <1>2, <2>1 DEF EntryInv, DirShape
    <2> QED  BY <1>0, <2>1, <2>2, <2>3, EnteredConserves
  <1>4. ASSUME NEW n \in Names \cup {LongName}, NEW target \in Targets, Symlink(n, target)
        PROVE  BlockInv'
    <2>1. /\ EnterAs(n, NewInode) /\ NewInode \in Inodes /\ oi_nlink[NewInode] = 0
          /\ oi_ftype' = [oi_ftype EXCEPT ![NewInode] = SYMLINK]
          /\ oi_nlink' = [oi_nlink EXCEPT ![NewInode] = 1]
          /\ oi_size' = oi_size
      BY <1>4, FreshInode DEF Symlink
    <2>2. \A j \in Inodes : oi_nlink'[j] = 0 \/ oi_ftype'[j] = SYMLINK => oi_size[j] = 0
      BY <1>2, <2>1 DEF EntryInv, DirShape
    <2> QED  BY <1>0, <2>1, <2>2, EnteredConserves
  <1>5. ASSUME NEW n \in Names \cup {LongName}, MakeWithoutInode(n) PROVE BlockInv'
    <2>1. EnterAs(n, 0) /\ oi_size' = oi_size /\ oi_nlink' = oi_nlink /\ oi_ftype' = oi_ftype
      BY <1>5 DEF MakeWithoutInode, inodes
    <2> QED  BY <1>0, <1>2, <2>1, EnteredConserves
  <1>6. ASSUME NEW n \in Names \cup {LongName}, NEW m \in Names, Link(m, n) PROVE BlockInv'
    <2>1. /\ find_direntry(m) /\ EnterAs(n, Lookup(m)) /\ oi_size' = oi_size
          /\ oi_ftype' = oi_ftype /\ oi_nlink' = [oi_nlink EXCEPT ![Lookup(m)] = @ + 1]
      BY <1>6 DEF Link, Counted
    <2>2. \A j \in Inodes : oi_nlink'[j] = 0 => oi_nlink[j] = 0
      BY <2>1 DEF EntryInv, DirShape
    <2> QED  BY <1>0, <1>2, <2>1, <2>2, EnteredConserves
  <1>7. CASE UNCHANGED vars
    BY <1>1, <1>7 DEF vars
  <1>8. ASSUME NEW n \in Names \cup {LongName}, Unlink(n) \/ Grow(n) \/ Refused(n)
        PROVE  BlockInv'
    BY <1>0, <1>7, <1>8, UnlinkConserves, GrowConserves DEF Refused
  <1>9. ASSUME NEW p \in Procs, OpenDir(p) \/ \E cap \in Caps : ReadDir(p, cap) PROVE BlockInv'
    BY <1>1, <1>9 DEF OpenDir, ReadDir
  <1> QED
    BY <1>3, <1>4, <1>5, <1>6, <1>7, <1>8, <1>9 DEF Next, Change

LEMMA InitBlockInv == Init => BlockInv
  <1> SUFFICES ASSUME Init PROVE BlockInv  OBVIOUS
  <1>1. HeldBlocks = {}
    BY Ranges DEF Init, HeldBlocks
  <1>2. Cardinality(HeldBlocks) = 0
    BY <1>1, FS_EmptySet
  <1>3. 0 \div PerBlock = 0
    BY Ranges
  <1> QED  BY <1>2, <1>3, Ranges DEF Init, BlockInv, BlocksConserved, SizesBounded

\* Every block is free, in one file or in the directory, and a file that is
\* gone has none, whatever fails for want of blocks or inodes.
THEOREM BlocksAreConserved == Spec => []BlocksConserved
  <1>1. Init => EntryInv /\ BlockInv
    BY InitEntryInv, InitBlockInv
  <1>2. EntryInv /\ BlockInv /\ [Next]_vars => (EntryInv /\ BlockInv)'
    BY NextEntryInv, NextBlockInv
  <1>3. BlockInv => BlocksConserved
    BY DEF BlockInv
  <1> QED  BY <1>1, <1>2, <1>3, PTL DEF Spec

-----------------------------------------------------------------------------
(* The names and the files they mean. *)

\* Looking a name up gives the inode of its entry, if it has one.
LookupRight ==
    \A n \in Names :
        /\ \A s \in Slots : Live(s) /\ od[s].od_name = n => Lookup(n) = od[s].od_ino
        /\ (\A s \in Slots : Live(s) => od[s].od_name # n) => Lookup(n) = NoFile

LEMMA LooksUp == EntryInv => LookupRight
  <1> SUFFICES ASSUME EntryInv, NEW n \in Names
               PROVE  /\ \A s \in Slots :
                            Live(s) /\ od[s].od_name = n => Lookup(n) = od[s].od_ino
                      /\ (\A s \in Slots : Live(s) => od[s].od_name # n) => Lookup(n) = NoFile
    BY DEF LookupRight
  <1>1. CASE find_direntry(n)
    BY <1>1, FoundEntry
  <1>2. CASE ~find_direntry(n)
    BY <1>2, NotFound
  <1> QED  BY <1>1, <1>2

LEMMA LooksUpNext == EntryInv' => LookupRight'
  BY LooksUp, PTL

\* The names and the files, by the link counts.
Content(i) == IF oi_ftype[i] = REG THEN <<REG, oi_size[i]>> ELSE <<SYMLINK, oi_symlink[i]>>

FilesCounted ==
    /\ \A i \in Inodes : (\E n \in Names : Lookup(n) = i) <=> oi_nlink[i] # 0
    /\ FileNow = [i \in Inodes |-> IF oi_nlink[i] = 0 THEN NoFile ELSE Content(i)]

LEMMA CountsFiles == EntryInv => FilesCounted
  <1> SUFFICES ASSUME EntryInv PROVE FilesCounted  OBVIOUS
  <1>1. ASSUME NEW i \in Inodes, NEW n \in Names, Lookup(n) = i PROVE oi_nlink[i] # 0
    <2>1. find_direntry(n)
      BY <1>1, NotFound, Ranges
    <2>2. Entry(n) \in Slots /\ Live(Entry(n)) /\ od[Entry(n)].od_ino = i
      BY <1>1, <2>1, FoundEntry
    <2>3. oi_nlink[i] \in Nat /\ oi_nlink[i] > 0
      BY <2>2, Referred
    <2> QED  BY <2>3
  <1>2. ASSUME NEW i \in Inodes, oi_nlink[i] # 0 PROVE \E n \in Names : Lookup(n) = i
    <2>1. Refs(i) # {}
      BY <1>2, FS_EmptySet DEF EntryInv, CountsRefs
    <2>2. PICK s \in Slots : od[s].od_ino = i
      BY <2>1 DEF Refs
    <2>3. Live(s)
      BY <2>2, Ranges DEF Live
    <2>4. od[s].od_name \in Names
      BY <2>3 DEF EntryInv, EntriesUsed
    <2>5. Lookup(od[s].od_name) = i
      BY <2>2, <2>3, <2>4, LooksUp DEF LookupRight
    <2> QED  BY <2>4, <2>5
  <1>3. \A i \in Inodes : (\E n \in Names : Lookup(n) = i) <=> oi_nlink[i] # 0
    BY <1>1, <1>2
  <1>4. \A i \in Inodes : i \notin {Lookup(n) : n \in Names} <=> oi_nlink[i] = 0
    <2>1. \A i \in Inodes : i \in {Lookup(n) : n \in Names} <=> \E n \in Names : Lookup(n) = i
      OBVIOUS
    <2> QED  BY <1>3, <2>1
  <1>5. FileNow = [i \in Inodes |-> IF oi_nlink[i] = 0 THEN NoFile ELSE Content(i)]
    <2> DEFINE named(i) == i \notin {Lookup(n) : n \in Names}
    <2>1. FileNow = [i \in Inodes |-> IF named(i) THEN NoFile ELSE Content(i)]
      BY DEF FileNow, Content
    <2>2. \A i \in Inodes : named(i) <=> oi_nlink[i] = 0
      BY <1>4
    <2> HIDE DEF named
    <2> QED  BY <2>1, <2>2
  <1> QED  BY <1>3, <1>5 DEF FilesCounted

LEMMA CountsFilesNext == EntryInv' => FilesCounted'
  BY CountsFiles, PTL

\* A name that is entered means the inode it was entered for; no other name
\* means another one.
LEMMA NamesEntered ==
    ASSUME EntryInv, EntryInv', NEW n \in Names, NEW i \in Inodes, EnterAs(n, i),
           ~find_direntry(n)
    PROVE  NamesNow' = [NamesNow EXCEPT ![n] = i] /\ NamesNow[n] = NoFile
  <1> DEFINE b == BlankEntry
  <1>1. b \in Slots /\ ~Live(b)
    <2>1. HasBlank \/ CanGrow
      BY DEF EnterAs
    <2> QED  BY <2>1, BlankIsBlank
  <1>2. od' = [od EXCEPT ![b] = [od_ino |-> i, od_name |-> n]] /\ i # 0
    BY Ranges DEF EnterAs
  <1> HIDE DEF b
  <1>3. /\ od'[b].od_ino = i /\ od'[b].od_name = n
        /\ \A s \in Slots \ {b} : od'[s] = od[s]
    BY <1>1, <1>2 DEF EntryInv, DirShape
  <1>4. LookupRight /\ LookupRight'
    BY LooksUp, LooksUpNext
  <1>5. Lookup(n)' = i
    BY <1>1, <1>2, <1>3, <1>4 DEF LookupRight, Live
  <1>6. ASSUME NEW m \in Names, m # n PROVE Lookup(m)' = Lookup(m)
    <2>1. CASE \E s \in Slots : Live(s) /\ od[s].od_name = m
      <3>1. PICK s \in Slots : Live(s) /\ od[s].od_name = m
        BY <2>1
      <3>2. s # b /\ od'[s] = od[s] /\ od[s].od_ino # 0
        BY <1>1, <1>3, <3>1 DEF Live
      <3>3. Lookup(m) = od[s].od_ino
        BY <1>4, <3>1 DEF LookupRight
      <3>4. Lookup(m)' = od'[s].od_ino
        BY <1>4, <3>1, <3>2 DEF LookupRight, Live
      <3> QED  BY <3>2, <3>3, <3>4
    <2>2. CASE ~\E s \in Slots : Live(s) /\ od[s].od_name = m
      <3>1. Lookup(m) = NoFile
        BY <1>4, <2>2 DEF LookupRight
      <3>2. \A s \in Slots : od'[s].od_ino # 0 => od'[s].od_name # m
        BY <1>3, <1>6, <2>2 DEF Live
      <3>3. Lookup(m)' = NoFile
        BY <1>4, <3>2 DEF LookupRight, Live
      <3> QED  BY <3>1, <3>3
    <2> QED  BY <2>1, <2>2
  <1>7. Lookup(n) = NoFile
    BY NotFound
  <1> QED  BY <1>5, <1>6, <1>7 DEF NamesNow

\* A blanked entry takes its name out, and no other.
LEMMA NamesBlanked ==
    ASSUME EntryInv, EntryInv', NEW b \in Slots, od' = [od EXCEPT ![b] = Blank]
    PROVE  /\ ~Live(b) => NamesNow' = NamesNow
           /\ Live(b) => NamesNow' = [NamesNow EXCEPT ![od[b].od_name] = NoFile]
  <1>1. od'[b].od_ino = 0 /\ \A s \in Slots \ {b} : od'[s] = od[s]
    BY DEF EntryInv, DirShape, Blank
  <1>2. LookupRight /\ LookupRight'
    BY LooksUp, LooksUpNext
  <1>3. ASSUME NEW m \in Names, ~(Live(b) /\ od[b].od_name = m) PROVE Lookup(m)' = Lookup(m)
    <2>1. CASE \E s \in Slots : Live(s) /\ od[s].od_name = m
      <3>1. PICK s \in Slots : Live(s) /\ od[s].od_name = m
        BY <2>1
      <3>2. s # b /\ od'[s] = od[s] /\ od[s].od_ino # 0
        BY <1>1, <1>3, <3>1 DEF Live
      <3>3. Lookup(m) = od[s].od_ino
        BY <1>2, <3>1 DEF LookupRight
      <3>4. Lookup(m)' = od'[s].od_ino
        BY <1>2, <3>1, <3>2 DEF LookupRight, Live
      <3> QED  BY <3>2, <3>3, <3>4
    <2>2. CASE ~\E s \in Slots : Live(s) /\ od[s].od_name = m
      <3>1. Lookup(m) = NoFile
        BY <1>2, <2>2 DEF LookupRight
      <3>2. \A s \in Slots : od'[s].od_ino # 0 => od'[s].od_name # m
        BY <1>1, <2>2 DEF Live
      <3>3. Lookup(m)' = NoFile
        BY <1>2, <3>2 DEF LookupRight, Live
      <3> QED  BY <3>1, <3>3
    <2> QED  BY <2>1, <2>2
  <1>4. ASSUME NEW m \in Names, Live(b), od[b].od_name = m PROVE Lookup(m)' = NoFile
    <2>1. \A s \in Slots : od'[s].od_ino # 0 => od'[s].od_name # m
      BY <1>1, <1>4 DEF Live, EntryInv, NamesOnce
    <2> QED  BY <1>2, <2>1 DEF LookupRight, Live
  <1>5. CASE ~Live(b)
    BY <1>3, <1>5 DEF NamesNow
  <1>6. CASE Live(b)
    <2>1. od[b].od_name \in Names
      BY <1>6 DEF EntryInv, EntriesUsed
    <2> QED  BY <1>3, <1>4, <1>6, <2>1 DEF NamesNow
  <1> QED  BY <1>5, <1>6

-----------------------------------------------------------------------------
(* Every step is a step on names and files. *)

\* A new file gets an inode that no name means.
LEMMA MakesFile ==
    ASSUME EntryInv, EntryInv', NEW n \in Names, ~find_direntry(n), NEW i \in Inodes,
           oi_nlink[i] = 0, EnterAs(n, i), NEW content,
           oi_nlink' = [oi_nlink EXCEPT ![i] = 1], Content(i)' = content,
           \A j \in Inodes \ {i} : Content(j)' = Content(j)
    PROVE  Dir!Make(n, i, content)
  <1>1. NamesNow' = [NamesNow EXCEPT ![n] = i] /\ NamesNow[n] = NoFile
    BY NamesEntered
  <1>2. FilesCounted /\ FilesCounted'
    BY CountsFiles, CountsFilesNext
  <1>3. ~Dir!Named(i)
    BY <1>2 DEF FilesCounted, NamesNow, Dir!Named
  <1>4. oi_nlink'[i] = 1 /\ \A j \in Inodes \ {i} : oi_nlink'[j] = oi_nlink[j]
    BY DEF EntryInv, DirShape
  <1>5. FileNow' = [j \in Inodes |-> IF oi_nlink'[j] = 0 THEN NoFile ELSE Content(j)']
    BY <1>2 DEF FilesCounted
  <1>6. FileNow = [j \in Inodes |-> IF oi_nlink[j] = 0 THEN NoFile ELSE Content(j)]
    BY <1>2 DEF FilesCounted
  <1>7. FileNow' = [FileNow EXCEPT ![i] = content]
    BY <1>4, <1>5, <1>6
  <1> QED  BY <1>1, <1>3, <1>7 DEF Dir!Make

LEMMA NextNames ==
    ASSUME EntryInv, BlockInv, [Next]_vars
    PROVE  [Dir!Next]_<<NamesNow, FileNow>>
  <1>0. EntryInv' /\ DirShape /\ DirShape'
    BY NextEntryInv DEF EntryInv
  <1>1. FilesCounted /\ FilesCounted'
    BY <1>0, CountsFiles, CountsFilesNext
  <1>2. FileNow' = [j \in Inodes |-> IF oi_nlink'[j] = 0 THEN NoFile ELSE Content(j)']
    BY <1>1 DEF FilesCounted
  <1>3. FileNow = [j \in Inodes |-> IF oi_nlink[j] = 0 THEN NoFile ELSE Content(j)]
    BY <1>1 DEF FilesCounted
  <1>4. ASSUME NEW n \in Names \cup {LongName}, Create(n) PROVE Dir!Next
    <2>0. PICK i : i = NewInode
      OBVIOUS
    <2>1. /\ EnterAs(n, i) /\ i \in Inodes /\ oi_nlink[i] = 0
          /\ n \in Names /\ ~find_direntry(n)
          /\ oi_ftype' = [oi_ftype EXCEPT ![i] = REG]
          /\ oi_nlink' = [oi_nlink EXCEPT ![i] = 1]
          /\ oi_size' = [oi_size EXCEPT ![i] = 0]
          /\ oi_symlink' = oi_symlink
      BY <1>4, <2>0, FreshInode DEF Create
    <2>2. Content(i)' = <<REG, 0>>
      BY <1>0, <2>1 DEF Content, DirShape
    <2>3. \A j \in Inodes \ {i} : Content(j)' = Content(j)
      BY <1>0, <2>1 DEF Content, DirShape
    <2>4. Dir!Make(n, i, <<REG, 0>>)
      BY <1>0, <2>1, <2>2, <2>3, MakesFile
    <2>5. <<REG, 0>> \in FileContents
      BY Ranges DEF FileContents
    <2> QED  BY <2>1, <2>4, <2>5 DEF Dir!Next
  <1>5. ASSUME NEW n \in Names \cup {LongName}, NEW target \in Targets, Symlink(n, target)
        PROVE  Dir!Next
    <2>0. PICK i : i = NewInode
      OBVIOUS
    <2>1. /\ EnterAs(n, i) /\ i \in Inodes /\ oi_nlink[i] = 0
          /\ n \in Names /\ ~find_direntry(n)
          /\ oi_ftype' = [oi_ftype EXCEPT ![i] = SYMLINK]
          /\ oi_nlink' = [oi_nlink EXCEPT ![i] = 1]
          /\ oi_symlink' = [oi_symlink EXCEPT ![i] = target]
          /\ oi_size' = oi_size
      BY <1>5, <2>0, FreshInode DEF Symlink
    <2>2. Content(i)' = <<SYMLINK, target>>
      BY <1>0, <2>1 DEF Content, DirShape, REG, SYMLINK
    <2>3. \A j \in Inodes \ {i} : Content(j)' = Content(j)
      BY <1>0, <2>1 DEF Content, DirShape
    <2>4. Dir!Make(n, i, <<SYMLINK, target>>)
      BY <1>0, <2>1, <2>2, <2>3, MakesFile
    <2>5. <<SYMLINK, target>> \in FileContents
      BY DEF FileContents
    <2> QED  BY <2>1, <2>4, <2>5 DEF Dir!Next
  <1>6. ASSUME NEW n \in Names \cup {LongName}, MakeWithoutInode(n)
        PROVE  UNCHANGED <<NamesNow, FileNow>>
    <2>1. /\ EnterAs(n, 0)
          /\ UNCHANGED <<oi_ftype, oi_nlink, oi_size, oi_symlink>>
      BY <1>6 DEF MakeWithoutInode, inodes
    <2>2. HasBlank \/ CanGrow
      BY <2>1 DEF EnterAs
    <2>3. BlankEntry \in Slots /\ ~Live(BlankEntry)
      BY <2>1, <2>2, BlankIsBlank
    <2>4. od' = [od EXCEPT ![BlankEntry] = Blank]
      BY <2>1 DEF EnterAs
    <2>5. NamesNow' = NamesNow
      BY <1>0, <2>3, <2>4, NamesBlanked
    <2>6. \A j \in Inodes : Content(j)' = Content(j) /\ oi_nlink'[j] = oi_nlink[j]
      BY <2>1 DEF Content
    <2>7. FileNow' = FileNow
      BY <1>2, <1>3, <2>6
    <2> QED  BY <2>5, <2>7
  <1>7. ASSUME NEW n \in Names \cup {LongName}, NEW m \in Names, Link(m, n) PROVE Dir!Next
    <2>0. PICK i : i = Lookup(m)
      OBVIOUS
    <2>1. /\ find_direntry(m) /\ n \in Names /\ ~find_direntry(n) /\ EnterAs(n, i)
          /\ UNCHANGED <<oi_ftype, oi_size, oi_symlink>>
          /\ oi_nlink' = [oi_nlink EXCEPT ![i] = @ + 1]
      BY <1>7, <2>0 DEF Link, Counted
    <2>2. i \in Inodes /\ Entry(m) \in Slots /\ Live(Entry(m)) /\ i = od[Entry(m)].od_ino
      BY <2>0, <2>1, FoundEntry
    <2>3. oi_nlink[i] \in Nat /\ oi_nlink[i] > 0
      BY <2>2, Referred
    <2>4. NamesNow[m] = i /\ i # NoFile
      BY <2>0, <2>2, Ranges DEF NamesNow
    <2>5. NamesNow' = [NamesNow EXCEPT ![n] = i] /\ NamesNow[n] = NoFile
      BY <1>0, <2>1, <2>2, NamesEntered
    <2>6. \A j \in Inodes : Content(j)' = Content(j) /\ (oi_nlink'[j] = 0 <=> oi_nlink[j] = 0)
      BY <1>0, <2>1, <2>2, <2>3 DEF Content, DirShape
    <2>7. FileNow' = FileNow
      BY <1>2, <1>3, <2>6
    <2>8. Dir!Link(m, n)
      BY <2>4, <2>5, <2>7 DEF Dir!Link
    <2> QED  BY <2>1, <2>8 DEF Dir!Next
  <1>8. ASSUME NEW n \in Names \cup {LongName}, Unlink(n) PROVE Dir!Next
    <2>0. PICK i, e : i = Lookup(n) /\ e = Entry(n)
      OBVIOUS
    <2>1. /\ find_direntry(n) /\ od' = [od EXCEPT ![e] = Blank]
          /\ oi_nlink' = [oi_nlink EXCEPT ![i] = @ - 1]
          /\ oi_ftype' = oi_ftype
          /\ \/ Dropped(i) /\ oi_size' = [oi_size EXCEPT ![i] = 0]
             \/ ~Dropped(i) /\ oi_size' = oi_size
          /\ oi_symlink' = [oi_symlink EXCEPT ![i] = IF oi_nlink[i] = 1 THEN NoTarget ELSE @]
      BY <1>8, <2>0 DEF Unlink
    <2>2. /\ i \in Inodes /\ e \in Slots /\ Live(e) /\ i = od[e].od_ino
          /\ od[e].od_name = n /\ n \in Names
      BY <2>0, <2>1, FoundEntry
    <2>3. oi_nlink[i] \in Nat /\ oi_nlink[i] > 0
      BY <2>2, Referred
    <2>4. NamesNow[n] = i /\ i # NoFile
      BY <2>0, <2>2, Ranges DEF NamesNow
    <2>5. NamesNow' = [NamesNow EXCEPT ![n] = NoFile]
      BY <1>0, <2>1, <2>2, NamesBlanked
    <2>6. /\ oi_nlink'[i] = oi_nlink[i] - 1
          /\ \A j \in Inodes \ {i} : oi_nlink'[j] = oi_nlink[j] /\ Content(j)' = Content(j)
      BY <1>0, <2>1, <2>2 DEF DirShape, Content
    <2>7. (\E m \in Names \ {n} : NamesNow[m] = i) <=> oi_nlink'[i] # 0
      <3>1. \A m \in Names : Lookup(m)' = IF m = n THEN NoFile ELSE Lookup(m)
        BY <2>5 DEF NamesNow
      <3>2. (\E m \in Names : Lookup(m)' = i) <=> oi_nlink'[i] # 0
        BY <1>1, <2>2 DEF FilesCounted
      <3>3. \A m \in Names : NamesNow[m] = Lookup(m)
        BY DEF NamesNow
      <3> QED  BY <2>4, <3>1, <3>2, <3>3
    <2>8. CASE oi_nlink'[i] # 0
      <3>1. oi_nlink[i] # 1
        BY <2>3, <2>6, <2>8
      <3>2. Content(i)' = Content(i)
        BY <1>0, <2>1, <2>2, <3>1 DEF Content, Dropped, DirShape
      <3>3. \A j \in Inodes : Content(j)' = Content(j) /\ (oi_nlink'[j] = 0 <=> oi_nlink[j] = 0)
        BY <2>3, <2>6, <2>8, <3>2
      <3>4. FileNow' = FileNow
        BY <1>2, <1>3, <3>3
      <3>5. Dir!Unlink(n)
        BY <2>4, <2>5, <2>7, <2>8, <3>4 DEF Dir!Unlink
      <3> QED  BY <2>2, <3>5 DEF Dir!Next
    <2>9. CASE oi_nlink'[i] = 0
      <3>1. FileNow' = [FileNow EXCEPT ![i] = NoFile]
        BY <1>2, <1>3, <2>2, <2>6, <2>9
      <3>2. Dir!Unlink(n)
        BY <2>4, <2>5, <2>7, <2>9, <3>1 DEF Dir!Unlink
      <3> QED  BY <2>2, <3>2 DEF Dir!Next
    <2> QED  BY <2>8, <2>9
  <1>9. ASSUME NEW n \in Names \cup {LongName}, Grow(n) PROVE Dir!Next
    <2>0. PICK i, content : i = Lookup(n) /\ content = <<REG, oi_size[i] + 1>>
      OBVIOUS
    <2>1. /\ find_direntry(n) /\ oi_ftype[i] = REG
          /\ oi_size' = [oi_size EXCEPT ![i] = @ + 1]
          /\ UNCHANGED <<od, nentries, oi_ftype, oi_nlink, oi_symlink>>
      BY <1>9, <2>0 DEF Grow
    <2>2. i \in Inodes /\ n \in Names /\ Entry(n) \in Slots /\ Live(Entry(n))
          /\ i = od[Entry(n)].od_ino
      BY <2>0, <2>1, FoundEntry
    <2>3. oi_nlink[i] \in Nat /\ oi_nlink[i] > 0
      BY <2>2, Referred
    <2>4. NamesNow[n] = i /\ i # NoFile
      BY <2>0, <2>2, Ranges DEF NamesNow
    <2>5. oi_size[i] + 1 <= NFree
      BY <1>0, <1>9, <2>0, GrowConserves
    <2>6. NamesNow' = NamesNow
      BY <2>1 DEF NamesNow, Lookup, find_direntry, Entry, Matches
    <2>7. content \in FileContents
      BY <1>0, <2>0, <2>2, <2>5, Ranges DEF FileContents, DirShape
    <2>8. Content(i)' = content /\ \A j \in Inodes \ {i} : Content(j)' = Content(j)
      BY <1>0, <2>0, <2>1, <2>2 DEF Content, DirShape
    <2>9. FileNow' = [FileNow EXCEPT ![i] = content]
      BY <1>2, <1>3, <2>1, <2>2, <2>3, <2>8
    <2>10. Dir!Change(n, content)
      BY <2>4, <2>6, <2>9 DEF Dir!Change
    <2> QED  BY <2>2, <2>7, <2>10 DEF Dir!Next
  <1>10. ASSUME UNCHANGED disk PROVE UNCHANGED <<NamesNow, FileNow>>
    <2>1. UNCHANGED <<od, nentries, oi_ftype, oi_nlink, oi_size, oi_symlink>>
      BY <1>10 DEF disk, inodes
    <2>2. \A j \in Inodes : Content(j)' = Content(j)
      BY <2>1 DEF Content
    <2>3. FileNow' = FileNow
      BY <1>2, <1>3, <2>1, <2>2
    <2> QED  BY <2>1, <2>3 DEF NamesNow, Lookup, find_direntry, Entry, Matches
  <1>11. ASSUME UNCHANGED vars PROVE UNCHANGED <<NamesNow, FileNow>>
    BY <1>10, <1>11 DEF vars
  <1>12. ASSUME NEW n \in Names \cup {LongName}, Refused(n) PROVE UNCHANGED <<NamesNow, FileNow>>
    BY <1>11, <1>12 DEF Refused
  <1>13. ASSUME NEW p \in Procs, OpenDir(p) \/ \E cap \in Caps : ReadDir(p, cap)
         PROVE  UNCHANGED <<NamesNow, FileNow>>
    BY <1>10, <1>13 DEF OpenDir, ReadDir
  <1> QED
    BY <1>4, <1>5, <1>6, <1>7, <1>8, <1>9, <1>11, <1>12, <1>13 DEF Next, Change

\* The directory implements names for files: a name means the file it was
\* given until it is unlinked, a file and its content last until the last name
\* is gone, and no inode of a file with a name is given to another.
THEOREM DirectoryNamesFiles == Spec => NamesImplemented
  <1>1. Init => EntryInv /\ BlockInv
    BY InitEntryInv, InitBlockInv
  <1>2. EntryInv /\ BlockInv /\ [Next]_vars => (EntryInv /\ BlockInv)'
    BY NextEntryInv, NextBlockInv
  <1>3. Init => Dir!Init
    <2> SUFFICES ASSUME Init PROVE Dir!Init  OBVIOUS
    <2>1. \A n \in Names : Lookup(n) = NoFile
      <3>1. \A n \in Names : Matches(n) = {}
        BY DEF Matches, Init
      <3> QED  BY <3>1 DEF Lookup, find_direntry
    <2>2. FilesCounted
      BY InitEntryInv, CountsFiles
    <2>3. FileNow = [i \in Inodes |-> NoFile]
      BY <2>2 DEF FilesCounted, Init
    <2> QED  BY <2>1, <2>3 DEF Dir!Init, NamesNow
  <1>4. EntryInv /\ BlockInv /\ [Next]_vars => [Dir!Next]_<<NamesNow, FileNow>>
    BY NextNames
  <1> QED  BY <1>1, <1>2, <1>3, <1>4, PTL DEF Spec, NamesImplemented, Dir!Spec

=============================================================================
