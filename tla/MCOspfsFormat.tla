--------------------------- MODULE MCOspfsFormat ---------------------------
(* A TLC instance of ospfsformat. *)
EXTENDS OspfsFormat

CONSTANTS MaxEntries, MaxDepth

\* Files of no word, of a full block, of a block and a half and as large as
\* the doubly indirect block reaches; two have the same contents; the text of
\* a link; a file that is too large; and one that cannot be read.
Words(n, first) == [i \in 1 .. n |-> first + i]
HostFiles == <<Words(0, 0), Words(2, 10), Words(3, 20), Words(9, 30), Words(2, 10), Words(1, 50),
               Words(16, 60), Words(2, 80)>>

\* Entries, still without names; the name of each is its place.
Items ==
    {[kind |-> "file", host |-> h] : h \in {1, 2, 3, 4, 5}}
      \cup {[kind |-> "symlink", host |-> 6], [kind |-> "dir", host |-> 1]}
Entry(item, name, depth) ==
    [kind |-> item.kind, name |-> name, host |-> item.host, depth |-> depth]

SmallTrees ==
    {h \in UNION {{[i \in 1 .. n |-> Entry(f[i], i, d[i])] :
                      f \in [1 .. n -> Items], d \in [1 .. n -> 0 .. MaxDepth]} :
                   n \in 1 .. MaxEntries} : IsTree(h)}

\* A directory of many files, directories nested deeply with a large file at
\* the bottom, and the entries that end or are left out.
Listing(n, h) == [i \in 1 .. n |-> Entry([kind |-> "file", host |-> h], i, 0)]
Chain(n) == [i \in 1 .. n + 1 |->
               Entry(IF i <= n THEN [kind |-> "dir", host |-> 1] ELSE [kind |-> "file", host |-> 4],
                     1, i - 1)]
Odd == {[kind |-> "file", host |-> 7], [kind |-> "file", host |-> 8], [kind |-> "other", host |-> 1],
        [kind |-> "file", host |-> 1], [kind |-> "symlink", host |-> 6]}
OddTrees ==
    {[i \in 1 .. 3 |-> Entry(f[i], IF i = 3 THEN last ELSE i, 0)] : f \in [1 .. 3 -> Odd], last \in {3, 100}}
Trees ==
    SmallTrees \cup OddTrees \cup {Listing(n, h) : n \in 4 .. 13, h \in {1, 2, 3}}
      \cup {Chain(n) : n \in 1 .. 4}

Links == {<<>>, <<[name |-> 50, host |-> 6]>>}
=============================================================================
