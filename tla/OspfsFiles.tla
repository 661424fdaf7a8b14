----------------------------- MODULE OspfsFiles -----------------------------
(***************************************************************************)
(* What the blocks of OSPFS promise: files, which are sequences of words.  *)
(* A file grows, is cut off, or has a span of it overwritten, one file at  *)
(* a time.  Words that a file gains by growing are zero, or its own from   *)
(* before it was cut off inside a block.                                   *)
(***************************************************************************)
EXTENDS Integers, Sequences

CONSTANTS
    Files,
    Stamp       \* Stamp[f]: the word that is written into file f

VARIABLE content  \* content[f]: the words of file f

Init == content = [f \in Files |-> <<>>]

\* What a step may do to the words of file f.
Extended(f, old, now) ==
    /\ Len(old) < Len(now)
    /\ SubSeq(now, 1, Len(old)) = old
    /\ \A i \in Len(old) + 1 .. Len(now) : now[i] \in {0, Stamp[f]}

Cut(old, now) == Len(now) <= Len(old) /\ now = SubSeq(old, 1, Len(now))

\* The words after from and up to upto are written; those up to to are zeroed
\* if the user's buffer ended at upto.
Overwritten(f, old, now) ==
    /\ Len(now) = Len(old)
    /\ \E from, upto, to \in 0 .. Len(old) :
          now = [i \in 1 .. Len(old) |-> IF from < i /\ i <= upto THEN Stamp[f]
                                        ELSE IF upto < i /\ i <= to THEN 0
                                        ELSE old[i]]

Change(f, old, now) == Cut(old, now) \/ Extended(f, old, now) \/ Overwritten(f, old, now)

Next ==
    \E f \in Files :
        /\ \A g \in Files \ {f} : content'[g] = content[g]
        /\ Change(f, content[f], content'[f])

Spec == Init /\ [][Next]_content
=============================================================================
