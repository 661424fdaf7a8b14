----------------------------- MODULE OspfsNames -----------------------------
(***************************************************************************)
(* What a directory promises: names for files.  A file is known by its     *)
(* inode number; it exists, with what is in it, as long as it has a name,  *)
(* and its number is given to another file only after that.                *)
(***************************************************************************)
CONSTANTS Names, Inodes, Contents, NoFile

VARIABLES names,  \* the inode number of each name, or NoFile
          file    \* what is in each file, NoFile if the file does not exist

Named(i) == \E n \in Names : names[n] = i

Init ==
    /\ names = [n \in Names |-> NoFile]
    /\ file = [i \in Inodes |-> NoFile]

\* A new file: a regular one is empty, a symbolic link has its destination.
Make(n, i, content) ==
    /\ names[n] = NoFile /\ ~Named(i)
    /\ names' = [names EXCEPT ![n] = i]
    /\ file' = [file EXCEPT ![i] = content]

Link(n, m) ==
    /\ names[n] # NoFile /\ names[m] = NoFile
    /\ names' = [names EXCEPT ![m] = names[n]]
    /\ UNCHANGED file

\* A file goes with its last name.
Unlink(n) ==
    /\ names[n] # NoFile
    /\ names' = [names EXCEPT ![n] = NoFile]
    /\ file' = IF \E m \in Names \ {n} : names[m] = names[n]
               THEN file ELSE [file EXCEPT ![names[n]] = NoFile]

\* The content of a file changes through one of its names.
Change(n, content) ==
    /\ names[n] # NoFile
    /\ file' = [file EXCEPT ![names[n]] = content]
    /\ UNCHANGED names

Next ==
    \E n \in Names :
        \/ \E i \in Inodes, content \in Contents : Make(n, i, content)
        \/ \E m \in Names : Link(n, m)
        \/ Unlink(n)
        \/ \E content \in Contents : Change(n, content)

Spec == Init /\ [][Next]_<<names, file>>
=============================================================================
