------------------------------- MODULE RwLock -------------------------------
(***************************************************************************)
(* What the lock of a ramdisk promises: many readers or one writer, and a  *)
(* queue.  A request that waits joins the end of the queue and is granted  *)
(* from its front, or is given up from anywhere in it.  A request that is  *)
(* granted at once passes nobody.                                          *)
(***************************************************************************)
EXTENDS Integers, Sequences

CONSTANTS
    Files,       \* what can hold the lock
    Writable     \* those that lock for writing

VARIABLES
    holds,       \* who holds the lock
    queue        \* who waits for it

\* May f be given the lock while the files in holds have it?
Free(f) == IF f \in Writable THEN holds = {} ELSE holds \cap Writable = {}

Init == holds = {} /\ queue = <<>>

Take(f) ==
    /\ f \notin holds /\ Free(f) /\ queue = <<>>
    /\ holds' = holds \cup {f}
    /\ UNCHANGED queue

Join(f) ==
    /\ f \notin holds
    /\ queue' = Append(queue, f)
    /\ UNCHANGED holds

Serve ==
    /\ queue # <<>> /\ Free(Head(queue))
    /\ holds' = holds \cup {Head(queue)}
    /\ queue' = Tail(queue)

GiveUp(i) ==
    /\ queue' = SubSeq(queue, 1, i - 1) \o SubSeq(queue, i + 1, Len(queue))
    /\ UNCHANGED holds

Release(f) ==
    /\ f \in holds
    /\ holds' = holds \ {f}
    /\ UNCHANGED queue

Next ==
    \/ \E f \in Files : Take(f) \/ Join(f) \/ Release(f)
    \/ Serve
    \/ \E i \in DOMAIN queue : GiveUp(i)

Spec == Init /\ [][Next]_<<holds, queue>>
=============================================================================
