--------------------------- MODULE ShellExecProofs ---------------------------
(***************************************************************************)
(* What is proved of the executor of the shell: for every command stream,  *)
(* however deep its commands are, the descriptors that execute_command     *)
(* moves with dup, dup2 and close are put back, every program has the      *)
(* standard streams its place in the tree gives it, and the ends of a pipe *)
(* are held by the processes that need them and no others.                 *)
(*                                                                         *)
(* The invariant is a predicate of a command stream cs and a stack of      *)
(* processes ps, so that a step is a change from ps to qs.                 *)
(***************************************************************************)
EXTENDS ShellExec, SequenceTheorems, WellOrder

-----------------------------------------------------------------------------
(* The invariant. *)

IsSeq(s) == s \in Seq({s[i] : i \in 1 .. Len(s)})

Top(p) == p.frames[Len(p.frames)]

\* The descriptors below call k of process p: the process's own, or the ones
\* that the call it made was made with.
Under(p, k) == IF k = Len(p.frames) THEN p.fd ELSE p.frames[k + 1].entry

\* A descriptor table with its standard input and output open.
IsTable(fd) == fd = [d \in Fds |-> fd[d]] /\ fd[0] # NoFd /\ fd[1] # NoFd

IsFrame(f) ==
    /\ f = [path |-> f.path, pc |-> f.pc, ret |-> f.ret, last |-> f.last, fds |-> f.fds,
            pipefd |-> f.pipefd, left |-> f.left, entry |-> f.entry]
    /\ f.path \in Seq(Nat) /\ f.path # <<>>
    /\ f.fds = [i \in 0 .. 3 |-> f.fds[i]]

\* Where a call of a command can be.
PcFits(pc, type) ==
    /\ pc \in {"first", "second"} => type = "SEQUENCE"
    /\ pc \in {"condition", "body"} => type \in {"IF", "WHILE", "UNTIL"}
    /\ pc \in {"wait", "waited"} => type \in {"SIMPLE", "SUBSHELL", "PIPE"}
    /\ pc \in {"exec", "program"} => type = "SIMPLE"
    /\ pc \in {"subshell", "subshell_end"} => type = "SUBSHELL"
    /\ pc \in {"left", "left_end", "right"} => type = "PIPE"

\* The calls that end with the process and never return.
Lefts == {"left", "left_end"}
Final == {"exec", "program", "subshell", "subshell_end"} \union Lefts

Piping(cs, f) == f.pc \in {"wait", "waited", "right"} /\ CommandAt(cs, f.path).type = "PIPE"
Looping(f) == f.pc \in {"condition", "body"}

\* The descriptors with which call f would return, were fd the process's.
Leaving(cs, f, fd) ==
    IF Piping(cs, f) THEN PipeRestored(fd, f)
    ELSE IF Looping(f) THEN reset_redirect(fd, f.fds)
    ELSE fd

\* The copies that it would put back are descriptors.
Slots(cs, f) ==
    /\ Piping(cs, f) => f.fds[0] \in Fds
    /\ Looping(f) => \A d \in {0, 1} : f.fds[d + 2] < 0 \/ f.fds[d] \in Fds

\* What standard stream d is during call f.
Stream(cs, f, d, obj) ==
    IF Piping(cs, f) /\ d = 0 THEN obj = PipeEnd(f.path, "r")
    ELSE IF f.pc \in Lefts /\ d = 1 THEN obj = PipeEnd(f.path, "w")
    ELSE \/ StreamIs(cs, f.path, d, obj)
         \/ ~Looping(f) /\ f.pc \notin {"subshell_end", "program"}
            /\ Redirects(CommandAt(cs, f.path), d)

FrameInv(cs, f, fd) ==
    /\ IsFrame(f) /\ IsTable(fd)
    /\ PcFits(f.pc, CommandAt(cs, f.path).type)
    /\ Slots(cs, f)
    /\ f.pc \notin Final => Leaving(cs, f, fd) = f.entry
    /\ \A d \in {0, 1} : Stream(cs, f, d, fd[d])

IsProcess(p) == p = Process(p.fd, p.frames, p.ret, p.log) /\ IsSeq(p.frames)

\* A process that holds the write end of a pipe is below one that waits in
\* that pipe.
IsWriteEnd(obj) == obj[1] = "pipe" /\ obj[3] = "w"
WriterWaitedFor(ps, i, p) ==
    \A d \in Fds : IsWriteEnd(p.fd[d]) => \E j \in 1 .. i - 1 : Top(ps[j]).path = p.fd[d][2]

\* A call is for a command below that of its caller, and a child does not go
\* up in the tree.
Nested(ps, i, p) ==
    \A k \in 1 .. Len(p.frames) :
      /\ \A l \in 1 .. k - 1 : Len(p.frames[l].path) < Len(p.frames[k].path)
      /\ \A j \in 1 .. i - 1 : Len(Top(ps[j]).path) <= Len(p.frames[k].path)

\* A child starts with a call that does not return, and the parent of the left
\* command of a pipe waits in the pipe.
Child(ps, i, p) ==
    /\ i > 1 => p.frames # <<>> /\ p.frames[1].pc \in Final
    /\ \A k \in 1 .. Len(p.frames) :
         p.frames[k].pc \in Lefts => i > 1 /\ k = 1 /\ Top(ps[i - 1]).path = p.frames[k].path

\* The shell itself runs its commands on the terminal.
Base(p) == IF p.frames = <<>> THEN p.fd ELSE p.frames[1].entry
OnTerminal(p) ==
    p.frames = <<>> \/ p.frames[1].pc \notin Final =>
      IsTable(Base(p)) /\ \A d \in {0, 1} : Base(p)[d] = Tty

\* Process p, at place i of the stack ps.
ProcessInv(cs, ps, i, p) ==
    /\ IsProcess(p)
    /\ \A k \in 1 .. Len(p.frames) : FrameInv(cs, p.frames[k], Under(p, k))
    /\ WriterWaitedFor(ps, i, p) /\ Nested(ps, i, p) /\ Child(ps, i, p)
    /\ i = 1 => OnTerminal(p)

Waits(p) == p.frames # <<>> /\ Top(p).pc = "wait"

\* Every process but the last waits.
Inv(cs, ps) ==
    /\ IsSeq(ps) /\ Len(ps) >= 1
    /\ \A i \in 1 .. Len(ps) : ProcessInv(cs, ps, i, ps[i]) /\ (i < Len(ps) => Waits(ps[i]))

IInv ==
    /\ Inv(commands, procs)
    /\ next \in Nat
    /\ phase # "run" => Len(procs) = 1 /\ procs[1].frames = <<>>

-----------------------------------------------------------------------------
(* Sequences. *)

LEMMA IsSeqOf ==
    ASSUME NEW S, NEW s \in Seq(S)
    PROVE  IsSeq(s)
  <1>1. /\ Len(s) \in Nat /\ DOMAIN s = 1 .. Len(s)
        /\ s = [i \in 1 .. Len(s) |-> s[i]]
    BY LenProperties
  <1>2. s \in [1 .. Len(s) -> {s[i] : i \in 1 .. Len(s)}]
    BY <1>1
  <1> QED  BY <1>1, <1>2, SeqDef DEF IsSeq

LEMMA SeqFacts ==
    ASSUME NEW s, IsSeq(s)
    PROVE  /\ Len(s) \in Nat
           /\ s = <<>> <=> Len(s) = 0
  BY LenProperties, EmptySeq DEF IsSeq

LEMMA SeqAppend ==
    ASSUME NEW s, IsSeq(s), NEW x
    PROVE  /\ IsSeq(Append(s, x))
           /\ Len(Append(s, x)) = Len(s) + 1
           /\ Append(s, x) # <<>>
           /\ \A i \in 1 .. Len(s) : Append(s, x)[i] = s[i]
           /\ Append(s, x)[Len(s) + 1] = x
  <1> DEFINE S == {s[i] : i \in 1 .. Len(s)} \union {x}
  <1>1. s \in Seq(S) /\ x \in S
    <2>1. s \in Seq({s[i] : i \in 1 .. Len(s)})  BY DEF IsSeq
    <2> QED  BY <2>1, SeqMonotonic
  <1> HIDE DEF S
  <1>2. /\ Append(s, x) \in Seq(S) /\ Append(s, x) # <<>>
        /\ Len(Append(s, x)) = Len(s) + 1
        /\ \A i \in 1 .. Len(s) : Append(s, x)[i] = s[i]
        /\ Append(s, x)[Len(s) + 1] = x
    BY <1>1, AppendProperties
  <1>3. IsSeq(Append(s, x))
    BY <1>2, IsSeqOf
  <1> QED  BY <1>2, <1>3

LEMMA SeqFront ==
    ASSUME NEW s, IsSeq(s), Len(s) >= 1
    PROVE  /\ IsSeq(SubSeq(s, 1, Len(s) - 1))
           /\ Len(SubSeq(s, 1, Len(s) - 1)) = Len(s) - 1
           /\ \A i \in 1 .. Len(s) - 1 : SubSeq(s, 1, Len(s) - 1)[i] = s[i]
  <1> DEFINE S == {s[i] : i \in 1 .. Len(s)}
  <1>1. s \in Seq(S) /\ Len(s) \in Nat
    BY SeqFacts DEF IsSeq
  <1>2. \A i \in 1 .. Len(s) - 1 : s[i] \in S
    BY <1>1
  <1> HIDE DEF S
  <1>3. SubSeq(s, 1, Len(s) - 1) \in Seq(S)
    BY <1>1, <1>2, SubSeqProperties
  <1>4. /\ Len(SubSeq(s, 1, Len(s) - 1)) = IF 1 <= Len(s) - 1 THEN Len(s) - 1 - 1 + 1 ELSE 0
        /\ \A i \in 1 .. Len(s) - 1 - 1 + 1 : SubSeq(s, 1, Len(s) - 1)[i] = s[1 + i - 1]
    BY <1>1, <1>2, SubSeqProperties
  <1>5. IsSeq(SubSeq(s, 1, Len(s) - 1))
    BY <1>3, IsSeqOf
  <1>6. \A i \in 1 .. Len(s) - 1 : i \in 1 .. Len(s) - 1 - 1 + 1 /\ 1 + i - 1 = i
    BY <1>1
  <1>7. \A i \in 1 .. Len(s) - 1 : SubSeq(s, 1, Len(s) - 1)[i] = s[i]
    BY <1>4, <1>6, Zenon
  <1>8. Len(SubSeq(s, 1, Len(s) - 1)) = Len(s) - 1
    <2> DEFINE n == Len(s)
    <2>1. n \in Nat /\ n >= 1  BY <1>1
    <2>2. (IF 1 <= n - 1 THEN n - 1 - 1 + 1 ELSE 0) = n - 1
      <3> HIDE DEF n
      <3> QED  BY <2>1
    <2> QED  BY <1>4, <2>2
  <1> QED  BY <1>5, <1>7, <1>8

LEMMA SeqTwoMore ==
    ASSUME NEW s, IsSeq(s), NEW x, NEW y
    PROVE  /\ IsSeq(s \o <<x, y>>)
           /\ Len(s \o <<x, y>>) = Len(s) + 2
           /\ \A i \in 1 .. Len(s) : (s \o <<x, y>>)[i] = s[i]
           /\ (s \o <<x, y>>)[Len(s) + 1] = x
           /\ (s \o <<x, y>>)[Len(s) + 2] = y
  <1> DEFINE S == {s[i] : i \in 1 .. Len(s)} \union {x, y}
  <1>1. s \in Seq(S) /\ <<x, y>> \in Seq(S) /\ Len(s) \in Nat
    <2>1. s \in Seq({s[i] : i \in 1 .. Len(s)})  BY DEF IsSeq
    <2>2. x \in S /\ y \in S  OBVIOUS
    <2> QED  BY <2>1, <2>2, SeqMonotonic, SeqFacts
  <1> HIDE DEF S
  <1>2. s \o <<x, y>> \in Seq(S)
    BY <1>1, ConcatProperties
  <1>3. Len(<<x, y>>) = 2 /\ <<x, y>>[1] = x /\ <<x, y>>[2] = y
    OBVIOUS
  <1>4. /\ Len(s \o <<x, y>>) = Len(s) + 2
        /\ \A i \in 1 .. Len(s) + 2 :
             (s \o <<x, y>>)[i] = IF i <= Len(s) THEN s[i] ELSE <<x, y>>[i - Len(s)]
    BY <1>1, <1>3, ConcatProperties
  <1>5. IsSeq(s \o <<x, y>>)
    BY <1>2, IsSeqOf
  <1> QED  BY <1>1, <1>3, <1>4, <1>5

Changed(s, n, e) == [s EXCEPT ![n] = e]

LEMMA SeqChanged ==
    ASSUME NEW s, IsSeq(s), NEW n, n \in 1 .. Len(s), NEW e
    PROVE  /\ IsSeq(Changed(s, n, e)) /\ Len(Changed(s, n, e)) = Len(s)
           /\ Changed(s, n, e)[n] = e
           /\ \A i \in 1 .. Len(s) : i # n => Changed(s, n, e)[i] = s[i]
  <1> DEFINE S == {s[i] : i \in 1 .. Len(s)} \union {e}
  <1>1. s \in Seq(S) /\ e \in S
    <2>1. s \in Seq({s[i] : i \in 1 .. Len(s)})  BY DEF IsSeq
    <2> QED  BY <2>1, SeqMonotonic
  <1> HIDE DEF S
  <1>2. /\ Changed(s, n, e) \in Seq(S) /\ Len(Changed(s, n, e)) = Len(s)
        /\ \A i \in 1 .. Len(s) : Changed(s, n, e)[i] = IF i = n THEN e ELSE s[i]
    <2>1. [s EXCEPT ![n] = e] \in Seq(S)
      BY <1>1, ExceptSeq
    <2>2. /\ Len([s EXCEPT ![n] = e]) = Len(s)
          /\ \A i \in 1 .. Len(s) : [s EXCEPT ![n] = e][i] = IF i = n THEN e ELSE s[i]
      BY <1>1, ExceptSeq
    <2> QED  BY <2>1, <2>2 DEF Changed
  <1>3. IsSeq(Changed(s, n, e))
    BY <1>2, IsSeqOf
  <1> QED  BY <1>2, <1>3

LEMMA SeqSingle ==
    ASSUME NEW x
    PROVE  IsSeq(<<x>>) /\ Len(<<x>>) = 1 /\ <<x>>[1] = x /\ <<x>> # <<>>
  <1>1. <<x>> \in Seq({x})  OBVIOUS
  <1> QED  BY <1>1, IsSeqOf

-----------------------------------------------------------------------------
(* Descriptors. *)

\* The lowest free descriptor is free, and no free one is lower.
LEMMA LowestIsFree ==
    ASSUME NEW fd, NEW e \in Fds, fd[e] = NoFd
    PROVE  Lowest(fd) \in Fds /\ fd[Lowest(fd)] = NoFd /\ Lowest(fd) <= e
  <1> DEFINE T == {d \in Fds : fd[d] = NoFd}
  <1>1. T \subseteq Nat /\ T # {}
    BY Descriptors DEF Fds
  <1>2. PICK d \in T : \A y \in T : d <= y
    BY <1>1, LeastNatural, Zenon
  <1>3. \A x \in 0 .. d - 1 : x \in Fds /\ ~(d <= x)
    BY <1>1, <1>2, Descriptors DEF Fds
  <1>4. d \in Fds /\ fd[d] = NoFd /\ \A x \in 0 .. d - 1 : fd[x] # NoFd
    BY <1>2, <1>3
  <1>5. /\ Lowest(fd) \in Fds /\ fd[Lowest(fd)] = NoFd
        /\ \A x \in 0 .. Lowest(fd) - 1 : fd[x] # NoFd
    BY <1>4 DEF Lowest
  <1>6. ~(e < Lowest(fd))
    BY <1>5, Descriptors DEF Fds
  <1> QED  BY <1>5, <1>6, Descriptors DEF Fds

LEMMA Objects ==
    /\ NoFd # Tty
    /\ \A p, how : /\ File(p, how) # NoFd /\ PipeEnd(p, how) # NoFd
                   /\ ~IsWriteEnd(File(p, how))
                   /\ PipeEnd(p, how)[2] = p /\ PipeEnd(p, how)[3] = how
    /\ ~IsWriteEnd(NoFd) /\ ~IsWriteEnd(Tty)
    /\ \A p : ~IsWriteEnd(PipeEnd(p, "r"))
  <1>1. /\ NoFd[1] = "closed" /\ Tty[1] = "tty"
        /\ \A p, how : File(p, how)[1] = "file" /\ PipeEnd(p, how)[1] = "pipe"
        /\ \A p, how : PipeEnd(p, how)[2] = p /\ PipeEnd(p, how)[3] = how
    BY DEF NoFd, Tty, File, PipeEnd
  <1>2. /\ "closed" # "tty" /\ "closed" # "file" /\ "closed" # "pipe"
        /\ "tty" # "pipe" /\ "file" # "pipe" /\ "r" # "w"
    OBVIOUS
  <1> QED  BY <1>1, <1>2 DEF IsWriteEnd

\* What one redirection does: descriptor d, and the file's own, are obj, and
\* what d was is in the copy.
Moved(fd, d, obj, copy, file) ==
    [e \in Fds |-> IF e = d \/ e = file THEN obj ELSE IF e = copy THEN fd[d] ELSE fd[e]]

\* r is what fd and fds become, with the copy and the file up to top.
Redirection(fd, fds, r, d, obj, top) ==
    \E copy \in Fds : \E file \in Fds :
      /\ copy # file /\ copy > 1 /\ file > 1 /\ copy <= top /\ file <= top
      /\ fd[copy] = NoFd /\ fd[file] = NoFd
      /\ r.fd = Moved(fd, d, obj, copy, file)
      /\ r.fds = [i \in 0 .. 3 |-> IF i = d THEN copy ELSE IF i = d + 2 THEN file ELSE fds[i]]

LEMMA RedirectedOnce ==
    ASSUME NEW fd, IsTable(fd), NEW fds, fds = [i \in 0 .. 3 |-> fds[i]],
           NEW e1 \in Fds, NEW e2 \in Fds, e1 < e2, fd[e1] = NoFd, fd[e2] = NoFd,
           NEW d \in {0, 1}, NEW obj, obj # NoFd
    PROVE  Redirection(fd, fds, Redirected([fd |-> fd, fds |-> fds], d, obj), d, obj, e2)
  <1> DEFINE file == Lowest(fd)
             fd1 == [fd EXCEPT ![file] = obj]
             copy == Lowest(fd1)
             r == Redirected([fd |-> fd, fds |-> fds], d, obj)
  <1>1. file \in Fds /\ fd[file] = NoFd /\ file <= e1
    BY LowestIsFree
  <1>2. fd1 = [e \in Fds |-> IF e = file THEN obj ELSE fd[e]]
    BY <1>1 DEF IsTable
  <1> HIDE DEF file
  <1>3. fd1[e2] = NoFd /\ fd1[file] = obj
    BY <1>1, <1>2, Descriptors DEF Fds
  <1>4. copy \in Fds /\ fd1[copy] = NoFd /\ copy <= e2
    <2> HIDE DEF fd1
    <2> QED  BY <1>3, LowestIsFree
  <1>5. /\ r.fd = [fd1 EXCEPT ![copy] = fd1[d], ![d] = obj]
        /\ r.fds = [fds EXCEPT ![d] = copy, ![d + 2] = file]
    BY DEF Redirected, file
  <1> HIDE DEF fd1, copy, r
  <1>6. copy # file /\ fd[copy] = NoFd
    BY <1>2, <1>3, <1>4
  <1>7. fd[d] # NoFd /\ d \in Fds /\ 1 \in Fds /\ 0 \in Fds
    BY Descriptors DEF IsTable, Fds
  <1>8. copy > 1 /\ file > 1
    BY <1>1, <1>4, <1>6, Descriptors DEF IsTable, Fds
  <1>9. r.fd = Moved(fd, d, obj, copy, file)
    BY <1>1, <1>2, <1>4, <1>5, <1>6, <1>7 DEF Moved
  <1>10. file <= e2
    BY <1>1, Descriptors DEF Fds
  <1>11. r.fds = [i \in 0 .. 3 |-> IF i = d THEN copy ELSE IF i = d + 2 THEN file ELSE fds[i]]
    BY <1>5
  <1> QED  BY <1>1, <1>4, <1>6, <1>8, <1>9, <1>10, <1>11, Zenon DEF r, Redirection

\* The calls of reset_redirect undo it, whatever was done since to the other
\* standard stream.
LEMMA RestoredOnce ==
    ASSUME NEW fd, IsTable(fd), NEW fds, NEW copy \in Fds, NEW file \in Fds,
           copy # file, copy > 1, file > 1, fd[copy] = NoFd, fd[file] = NoFd,
           NEW d \in {0, 1}, NEW obj, fds[d] = copy, fds[d + 2] = file
    PROVE  Restored(Moved(fd, d, obj, copy, file), fds, d) = fd
  <1> DEFINE g == Moved(fd, d, obj, copy, file)
             h == [g EXCEPT ![d] = g[copy]]
  <1>1. d \in Fds /\ d # copy /\ d # file /\ ~(file < 0)
    BY Descriptors DEF Fds
  <1>2. /\ g = [e \in Fds |-> g[e]]
        /\ g[copy] = fd[d]
        /\ \A e \in Fds \ {d, copy, file} : g[e] = fd[e]
    BY <1>1 DEF Moved
  <1> HIDE DEF g
  <1>3. h[d] = fd[d] /\ \A e \in Fds \ {d, copy, file} : h[e] = fd[e]
    BY <1>1, <1>2
  <1>4. Restored(g, fds, d) = [e \in Fds |-> IF e \in {copy, file} THEN NoFd ELSE h[e]]
    BY <1>1 DEF Restored, Closed
  <1> HIDE DEF h
  <1>5. \A e \in Fds : (IF e \in {copy, file} THEN NoFd ELSE h[e]) = fd[e]
    BY <1>3
  <1>6. Restored(g, fds, d) = [e \in Fds |-> fd[e]]
    BY <1>4, <1>5
  <1> QED  BY <1>6 DEF IsTable, g

\* The objects of g are those of fd and others that are no write end.
Adds(fd, g) == \A e \in Fds : IsWriteEnd(g[e]) => \E x \in Fds : g[e] = fd[x]

LEMMA MovedFacts ==
    ASSUME NEW fd, IsTable(fd), NEW copy \in Fds, NEW file \in Fds,
           copy # file, copy > 1, file > 1, fd[copy] = NoFd, fd[file] = NoFd,
           NEW d \in {0, 1}, NEW obj, obj # NoFd, ~IsWriteEnd(obj)
    PROVE  LET g == Moved(fd, d, obj, copy, file) IN
           /\ IsTable(g) /\ Adds(fd, g)
           /\ g[d] = obj /\ \A e \in {0, 1} \ {d} : g[e] = fd[e]
           /\ \A e \in Fds : e > copy /\ e > file => g[e] = fd[e]
  <1> DEFINE g == Moved(fd, d, obj, copy, file)
  <1>1. 0 \in Fds /\ 1 \in Fds /\ d \in Fds
    BY Descriptors DEF Fds
  <1>2. /\ g = [e \in Fds |-> g[e]]
        /\ \A e \in Fds : g[e] = IF e = d \/ e = file THEN obj ELSE IF e = copy THEN fd[d] ELSE fd[e]
    BY DEF Moved
  <1> HIDE DEF g
  <1>3. g[d] = obj /\ \A e \in {0, 1} \ {d} : g[e] = fd[e]
    BY <1>1, <1>2
  <1>4. g[0] # NoFd /\ g[1] # NoFd
    BY <1>3 DEF IsTable
  <1>5. Adds(fd, g)
    BY <1>1, <1>2 DEF Adds
  <1>6. \A e \in Fds : e > copy /\ e > file => g[e] = fd[e]
    BY <1>1, <1>2, Descriptors DEF Fds
  <1>7. IsTable(g)
    BY <1>2, <1>4 DEF IsTable
  <1> QED  BY <1>3, <1>5, <1>6, <1>7 DEF g

\* The same below a redirection of the other stream.
LEMMA RestoredUnder ==
    ASSUME NEW fd, IsTable(fd), NEW fds,
           NEW c0 \in Fds, NEW f0 \in Fds, c0 # f0, c0 > 1, f0 > 1,
           fd[c0] = NoFd, fd[f0] = NoFd, NEW obj0, obj0 # NoFd,
           NEW c1 \in Fds, NEW f1 \in Fds, c1 # f1, c1 > 1, f1 > 1,
           Moved(fd, 0, obj0, c0, f0)[c1] = NoFd, Moved(fd, 0, obj0, c0, f0)[f1] = NoFd,
           NEW obj1, fds[0] = c0, fds[2] = f0
    PROVE  /\ Restored(Moved(Moved(fd, 0, obj0, c0, f0), 1, obj1, c1, f1), fds, 0)
                = Moved(fd, 1, obj1, c1, f1)
           /\ fd[c1] = NoFd /\ fd[f1] = NoFd
  <1> DEFINE g == Moved(fd, 0, obj0, c0, f0)
             k == Moved(g, 1, obj1, c1, f1)
             h == [k EXCEPT ![0] = k[c0]]
             m == Moved(fd, 1, obj1, c1, f1)
  <1>1. 0 \in Fds /\ 1 \in Fds /\ fd[0] # NoFd /\ ~(f0 < 0)
        /\ 0 \notin {c0, f0, c1, f1} /\ 1 \notin {c0, f0, c1, f1}
    BY Descriptors DEF Fds, IsTable
  <1>2. \A e \in Fds : g[e] = IF e = 0 \/ e = f0 THEN obj0 ELSE IF e = c0 THEN fd[0] ELSE fd[e]
    BY DEF Moved
  <1>3. /\ k = [e \in Fds |-> k[e]]
        /\ \A e \in Fds : k[e] = IF e = 1 \/ e = f1 THEN obj1 ELSE IF e = c1 THEN g[1] ELSE g[e]
    BY DEF Moved
  <1>4. \A e \in Fds : m[e] = IF e = 1 \/ e = f1 THEN obj1 ELSE IF e = c1 THEN fd[1] ELSE fd[e]
    BY DEF Moved
  <1>5. m = [e \in Fds |-> m[e]]
    BY DEF Moved
  <1>6. g[c1] = NoFd /\ g[f1] = NoFd
    OBVIOUS
  <1>7. Restored(k, fds, 0) = [e \in Fds |-> IF e \in {c0, f0} THEN NoFd ELSE h[e]]
    BY <1>1 DEF Restored, Closed
  <1> HIDE DEF g, k, m
  <1>8. c1 \notin {c0, f0} /\ f1 \notin {c0, f0}
    BY <1>1, <1>2, <1>6
  <1>9. fd[c1] = NoFd /\ fd[f1] = NoFd
    BY <1>1, <1>2, <1>6, <1>8
  <1>10. k[c0] = fd[0]
    BY <1>1, <1>2, <1>3, <1>8
  <1>11. \A e \in Fds : h[e] = IF e = 0 THEN fd[0] ELSE k[e]
    BY <1>1, <1>3, <1>10
  <1> HIDE DEF h
  <1>12. \A e \in Fds : (IF e \in {c0, f0} THEN NoFd ELSE h[e]) = m[e]
    <2> SUFFICES ASSUME NEW e \in Fds
                 PROVE  (IF e \in {c0, f0} THEN NoFd ELSE h[e]) = m[e]
      OBVIOUS
    <2>1. CASE e \in {c0, f0}
      BY <2>1, <1>1, <1>4, <1>8
    <2>2. CASE e = 0
      BY <2>2, <1>1, <1>4, <1>11
    <2>3. CASE e \notin {0, c0, f0}
      BY <2>3, <1>1, <1>2, <1>3, <1>4, <1>11
    <2> QED  BY <2>1, <2>2, <2>3
  <1>13. Restored(k, fds, 0) = [e \in Fds |-> m[e]]
    BY <1>7, <1>12
  <1> QED  BY <1>5, <1>9, <1>13 DEF g, k, m

How(d) == IF d = 0 THEN "in" ELSE "out"
Wanted(c, d) == IF d = 0 THEN c.input # <<>> ELSE c.output # <<>>

\* set_redirect redirects what is to be redirected, and reset_redirect puts
\* the descriptors back.
LEMMA SetRedirect ==
    ASSUME NEW fd, IsTable(fd), Room(fd), NEW p, NEW c
    PROVE  LET r == set_redirect(fd, p, c) IN
           /\ IsTable(r.fd) /\ Adds(fd, r.fd)
           /\ r.fds = [i \in 0 .. 3 |-> r.fds[i]]
           /\ \A d \in {0, 1} : r.fds[d + 2] < 0 \/ r.fds[d] \in Fds
           /\ \A d \in {0, 1} : r.fd[d] = IF Wanted(c, d) THEN File(p, How(d)) ELSE fd[d]
           /\ reset_redirect(r.fd, r.fds) = fd
  <1> DEFINE r0 == [fd |-> fd, fds |-> NoFds]
             r1 == IF c.input = <<>> THEN r0 ELSE Redirected(r0, 0, File(p, "in"))
             r == set_redirect(fd, p, c)
  <1>1. /\ MaxFd - 3 \in Fds /\ MaxFd - 2 \in Fds /\ MaxFd - 1 \in Fds /\ MaxFd \in Fds
        /\ fd[MaxFd - 3] = NoFd /\ fd[MaxFd - 2] = NoFd /\ fd[MaxFd - 1] = NoFd /\ fd[MaxFd] = NoFd
        /\ MaxFd - 3 < MaxFd - 2 /\ MaxFd - 2 < MaxFd - 1 /\ MaxFd - 1 < MaxFd
        /\ MaxFd \in Nat
    BY Descriptors DEF Room, Fds
  <1>2. r = IF c.output = <<>> THEN r1 ELSE Redirected(r1, 1, File(p, "out"))
    BY DEF set_redirect
  <1>3. NoFds = [i \in 0 .. 3 |-> NoFds[i]] /\ \A i \in 0 .. 3 : NoFds[i] < 0
    BY DEF NoFds
  <1>4. File(p, "in") # NoFd /\ ~IsWriteEnd(File(p, "in")) /\ File(p, "out") # NoFd /\ ~IsWriteEnd(File(p, "out"))
    BY Objects
  <1>5. Adds(fd, fd)
    BY DEF Adds
  \* The first redirection.
  <1>6. ASSUME c.input # <<>>
        PROVE  Redirection(fd, NoFds, r1, 0, File(p, "in"), MaxFd - 2)
    <2>1. r1 = Redirected([fd |-> fd, fds |-> NoFds], 0, File(p, "in"))
      BY <1>6
    <2> HIDE DEF r1
    <2>2. 0 \in {0, 1}
      OBVIOUS
    <2>3. Redirection(fd, NoFds, Redirected([fd |-> fd, fds |-> NoFds], 0, File(p, "in")), 0, File(p, "in"), MaxFd - 2)
      BY ONLY <1>1, <1>3, <1>4, <2>2, RedirectedOnce, IsTable(fd)
    <2> QED  BY <2>1, <2>3
  <1>7. /\ IsTable(r1.fd)
        /\ r1 = [fd |-> r1.fd, fds |-> r1.fds]
        /\ r1.fds = [i \in 0 .. 3 |-> r1.fds[i]]
        /\ r1.fds[3] < 0
        /\ r1.fds[2] < 0 \/ r1.fds[0] \in Fds
        /\ r1.fd[MaxFd - 1] = NoFd /\ r1.fd[MaxFd] = NoFd
        /\ r1.fd[0] = IF c.input # <<>> THEN File(p, "in") ELSE fd[0]
        /\ r1.fd[1] = fd[1]
        /\ Adds(fd, r1.fd)
    <2>1. CASE c.input = <<>>
      BY <2>1, <1>1, <1>3, <1>5
    <2>2. CASE c.input # <<>>
      <3>1. PICK copy \in Fds, file \in Fds :
                 /\ copy # file /\ copy > 1 /\ file > 1 /\ copy <= MaxFd - 2 /\ file <= MaxFd - 2
                 /\ fd[copy] = NoFd /\ fd[file] = NoFd
                 /\ r1.fd = Moved(fd, 0, File(p, "in"), copy, file)
                 /\ r1.fds = [i \in 0 .. 3 |-> IF i = 0 THEN copy ELSE IF i = 2 THEN file ELSE NoFds[i]]
        <4>1. Redirection(fd, NoFds, r1, 0, File(p, "in"), MaxFd - 2)
          BY <1>6, <2>2
        <4> HIDE DEF r1, r, r0
        <4>2. 0 + 2 = 2  OBVIOUS
        <4> QED  BY <4>1, <4>2 DEF Redirection
      <3>2. r1 = Redirected(r0, 0, File(p, "in"))
        BY <2>2
      <3>3. r1 = [fd |-> r1.fd, fds |-> r1.fds]
        BY <3>2 DEF Redirected
      <3> HIDE DEF r1
      <3>4. /\ IsTable(r1.fd) /\ Adds(fd, r1.fd)
            /\ r1.fd[0] = File(p, "in")
            /\ \A e \in {0, 1} \ {0} : r1.fd[e] = fd[e]
            /\ \A e \in Fds : e > copy /\ e > file => r1.fd[e] = fd[e]
        BY <3>1, <1>4, MovedFacts
      <3>5. MaxFd - 1 > copy /\ MaxFd - 1 > file /\ MaxFd > copy /\ MaxFd > file
        BY <3>1, <1>1 DEF Fds
      <3>6. r1.fd[MaxFd - 1] = NoFd /\ r1.fd[MaxFd] = NoFd /\ r1.fd[1] = fd[1]
        BY <3>4, <3>5, <1>1
      <3>7. /\ r1.fds = [i \in 0 .. 3 |-> r1.fds[i]]
            /\ r1.fds[3] < 0 /\ r1.fds[0] \in Fds
        BY <3>1, <1>3
      <3> QED  BY <2>2, <3>3, <3>4, <3>6, <3>7
    <2> QED  BY <2>1, <2>2
  <1>8. reset_redirect(r1.fd, r1.fds) = fd
    <2>1. \A g : Restored(g, r1.fds, 1) = g
      BY <1>7 DEF Restored
    <2>2. CASE c.input = <<>>
      <3>1. Restored(fd, NoFds, 0) = fd /\ r1.fd = fd /\ r1.fds = NoFds
        BY <1>3, <2>2 DEF Restored
      <3> QED  BY <2>1, <3>1 DEF reset_redirect
    <2>3. CASE c.input # <<>>
      <3>1. PICK copy \in Fds, file \in Fds :
                 /\ copy # file /\ copy > 1 /\ file > 1 /\ copy <= MaxFd - 2 /\ file <= MaxFd - 2
                 /\ fd[copy] = NoFd /\ fd[file] = NoFd
                 /\ r1.fd = Moved(fd, 0, File(p, "in"), copy, file)
                 /\ r1.fds = [i \in 0 .. 3 |-> IF i = 0 THEN copy ELSE IF i = 2 THEN file ELSE NoFds[i]]
        <4>1. Redirection(fd, NoFds, r1, 0, File(p, "in"), MaxFd - 2)
          BY <1>6, <2>3
        <4> HIDE DEF r1, r, r0
        <4>2. 0 + 2 = 2  OBVIOUS
        <4> QED  BY <4>1, <4>2 DEF Redirection
      <3> HIDE DEF r1
      <3>2. r1.fds[0] = copy /\ r1.fds[0 + 2] = file
        BY <3>1, <1>3
      <3>3. Restored(r1.fd, r1.fds, 0) = fd
        BY <3>1, <3>2, RestoredOnce
      <3> QED  BY <2>1, <3>3 DEF reset_redirect
    <2> QED  BY <2>2, <2>3
  <1>9. CASE c.output = <<>>
    <2>1. r = r1 /\ 0 + 2 = 2 /\ 1 + 2 = 3
      BY <1>2, <1>9
    <2> HIDE DEF r, r1
    <2>2. /\ \A d \in {0, 1} : r.fds[d + 2] < 0 \/ r.fds[d] \in Fds
          /\ \A d \in {0, 1} : r.fd[d] = IF Wanted(c, d) THEN File(p, How(d)) ELSE fd[d]
      BY <2>1, <1>7, <1>9 DEF Wanted, How
    <2> QED  BY <2>1, <2>2, <1>7, <1>8 DEF r
  <1>10. CASE c.output # <<>>
    <2>1. r = Redirected([fd |-> r1.fd, fds |-> r1.fds], 1, File(p, "out"))
      BY <1>2, <1>7, <1>10
    <2>2. 1 + 2 = 3 /\ 0 + 2 = 2
      OBVIOUS
    <2> HIDE DEF r
    <2>3. PICK c1 \in Fds, f1 \in Fds :
             /\ c1 # f1 /\ c1 > 1 /\ f1 > 1
             /\ r1.fd[c1] = NoFd /\ r1.fd[f1] = NoFd
             /\ r.fd = Moved(r1.fd, 1, File(p, "out"), c1, f1)
             /\ r.fds = [i \in 0 .. 3 |-> IF i = 1 THEN c1 ELSE IF i = 3 THEN f1 ELSE r1.fds[i]]
      <3> HIDE DEF r1
      <3>1. 1 \in {0, 1}
        OBVIOUS
      <3>2. Redirection(r1.fd, r1.fds, Redirected([fd |-> r1.fd, fds |-> r1.fds], 1, File(p, "out")), 1,
                        File(p, "out"), MaxFd)
        <4> DEFINE gd == r1.fd
                   gs == r1.fds
        <4>1. IsTable(gd) /\ gs = [i \in 0 .. 3 |-> gs[i]] /\ gd[MaxFd - 1] = NoFd /\ gd[MaxFd] = NoFd
          BY <1>7
        <4> HIDE DEF gd, gs
        <4>2. Redirection(gd, gs, Redirected([fd |-> gd, fds |-> gs], 1, File(p, "out")), 1,
                          File(p, "out"), MaxFd)
          BY ONLY <1>1, <1>4, <3>1, <4>1, RedirectedOnce
        <4> QED  BY <4>2 DEF gd, gs
      <3> QED  BY <2>1, <2>2, <3>2 DEF Redirection
    <2>4. /\ IsTable(r.fd) /\ Adds(r1.fd, r.fd)
          /\ r.fd[1] = File(p, "out")
          /\ \A e \in {0, 1} \ {1} : r.fd[e] = r1.fd[e]
      <3> HIDE DEF r1
      <3> QED  BY <1>4, <1>7, <2>3, MovedFacts
    <2>5. Adds(fd, r.fd)
      <3> HIDE DEF r1
      <3> QED  BY <1>7, <2>4 DEF Adds
    <2>6. /\ r.fds = [i \in 0 .. 3 |-> r.fds[i]]
          /\ r.fds[0] = r1.fds[0] /\ r.fds[2] = r1.fds[2]
          /\ r.fds[1] = c1 /\ r.fds[3] = f1
      <3> HIDE DEF r1
      <3> QED  BY <1>7, <2>3
    <2>7. \A d \in {0, 1} : r.fds[d + 2] < 0 \/ r.fds[d] \in Fds
      <3> HIDE DEF r1
      <3> QED  BY <1>7, <2>2, <2>6
    <2>8. \A d \in {0, 1} : r.fd[d] = IF Wanted(c, d) THEN File(p, How(d)) ELSE fd[d]
      <3> HIDE DEF r1
      <3> QED  BY <1>7, <1>10, <2>4 DEF Wanted, How
    <2>9. Restored(r.fd, r.fds, 0) = Moved(fd, 1, File(p, "out"), c1, f1)
          /\ fd[c1] = NoFd /\ fd[f1] = NoFd
      <3>1. CASE c.input = <<>>
        <4>1. r1.fd = fd /\ r1.fds = NoFds
          BY <3>1
        <4>2. r.fds[0 + 2] < 0
          BY <4>1, <1>3, <2>2, <2>6
        <4> QED  BY <4>1, <4>2, <2>3 DEF Restored
      <3>2. CASE c.input # <<>>
        <4>1. PICK c0 \in Fds, f0 \in Fds :
                 /\ c0 # f0 /\ c0 > 1 /\ f0 > 1 /\ c0 <= MaxFd - 2 /\ f0 <= MaxFd - 2
                 /\ fd[c0] = NoFd /\ fd[f0] = NoFd
                 /\ r1.fd = Moved(fd, 0, File(p, "in"), c0, f0)
                 /\ r1.fds = [i \in 0 .. 3 |-> IF i = 0 THEN c0 ELSE IF i = 2 THEN f0 ELSE NoFds[i]]
          <5>1. Redirection(fd, NoFds, r1, 0, File(p, "in"), MaxFd - 2)
            BY <1>6, <3>2
          <5> HIDE DEF r1, r0
          <5>2. 0 + 2 = 2  OBVIOUS
          <5> QED  BY <5>1, <5>2 DEF Redirection
        <4> HIDE DEF r1, r, r0
        <4>2. r.fds[0] = c0 /\ r.fds[2] = f0
          BY <4>1, <1>3, <2>6
        <4> QED  BY <4>1, <4>2, <1>4, <2>3, RestoredUnder
      <3> QED  BY <3>1, <3>2
    <2>10. Restored(Moved(fd, 1, File(p, "out"), c1, f1), r.fds, 1) = fd
      BY <2>2, <2>3, <2>6, <2>9, RestoredOnce
    <2>11. reset_redirect(r.fd, r.fds) = fd
      BY <2>9, <2>10 DEF reset_redirect
    <2> HIDE DEF r1
    <2> QED  BY <2>4, <2>5, <2>6, <2>7, <2>8, <2>11 DEF r
  <1> QED  BY <1>9, <1>10

\* The two ends of a pipe: the child keeps one, the parent the other, and the
\* parent puts its descriptors back.
LEMMA PipeFds ==
    ASSUME NEW fd, IsTable(fd), Room(fd), NEW p
    PROVE  LET fd1 == OpenAt(fd, PipeEnd(p, "r"))
               fd2 == OpenAt(fd1, PipeEnd(p, "w"))
               r == Lowest(fd)
               w == Lowest(fd1)
               left == PipeLeftFds(fd2, r, w)
               right == PipeRightFds(fd2, r, w)
           IN /\ IsTable(left) /\ left[0] = fd[0] /\ left[1] = PipeEnd(p, "w")
              /\ \A e \in Fds : IsWriteEnd(left[e]) => left[e][2] = p \/ \E x \in Fds : left[e] = fd[x]
              /\ IsTable(right.fd) /\ right.fd[0] = PipeEnd(p, "r") /\ right.fd[1] = fd[1]
              /\ Adds(fd, right.fd)
              /\ right.copy \in Fds
              /\ \A f : f.pipefd[1] = r /\ f.fds[0] = right.copy => PipeRestored(right.fd, f) = fd
  <1> DEFINE fd1 == OpenAt(fd, PipeEnd(p, "r"))
             fd2 == OpenAt(fd1, PipeEnd(p, "w"))
             r == Lowest(fd)
             w == Lowest(fd1)
             left == PipeLeftFds(fd2, r, w)
             right == PipeRightFds(fd2, r, w)
             c == Lowest(fd2)
             g == right.fd
  <1>1. /\ MaxFd - 3 \in Fds /\ MaxFd - 2 \in Fds /\ MaxFd - 1 \in Fds
        /\ fd[MaxFd - 3] = NoFd /\ fd[MaxFd - 2] = NoFd /\ fd[MaxFd - 1] = NoFd
        /\ MaxFd \in Nat /\ 0 \in Fds /\ 1 \in Fds
    BY Descriptors DEF Room, Fds
  <1>2. /\ PipeEnd(p, "r") # NoFd /\ PipeEnd(p, "w") # NoFd
        /\ ~IsWriteEnd(PipeEnd(p, "r")) /\ ~IsWriteEnd(NoFd) /\ PipeEnd(p, "w")[2] = p
    BY Objects
  <1>3. r \in Fds /\ fd[r] = NoFd /\ r <= MaxFd - 3
    BY <1>1, LowestIsFree
  <1>4. fd1 = [fd EXCEPT ![r] = PipeEnd(p, "r")]
    BY DEF OpenAt
  <1> HIDE DEF r
  <1>5. fd1 = [e \in Fds |-> fd1[e]] /\ \A e \in Fds : fd1[e] = IF e = r THEN PipeEnd(p, "r") ELSE fd[e]
    BY <1>3, <1>4 DEF IsTable
  <1>6. fd2 = [fd1 EXCEPT ![w] = PipeEnd(p, "w")]
    BY DEF OpenAt
  <1> HIDE DEF fd1
  <1>7. fd1[MaxFd - 2] = NoFd
    BY <1>1, <1>3, <1>5 DEF Fds
  <1>8. w \in Fds /\ fd1[w] = NoFd /\ w <= MaxFd - 2
    BY <1>1, <1>7, LowestIsFree
  <1> HIDE DEF w
  <1>9. /\ fd2 = [e \in Fds |-> fd2[e]]
        /\ \A e \in Fds : fd2[e] = IF e = w THEN PipeEnd(p, "w") ELSE fd1[e]
    BY <1>5, <1>6, <1>8
  <1> HIDE DEF fd2
  <1>10. w # r /\ fd[w] = NoFd
    BY <1>2, <1>3, <1>5, <1>8
  <1>11. fd2[MaxFd - 1] = NoFd
    <2>1. MaxFd - 1 # w /\ MaxFd - 1 # r
      BY <1>1, <1>3, <1>8 DEF Fds
    <2> QED  BY <2>1, <1>1, <1>5, <1>9
  <1>12. c \in Fds /\ fd2[c] = NoFd
    BY <1>1, <1>11, LowestIsFree
  <1>13. left = [e \in Fds |-> IF e = r THEN NoFd ELSE [fd2 EXCEPT ![1] = fd2[w]][e]]
    BY DEF PipeLeftFds, Closed
  <1>14. /\ right.copy = c
         /\ right.fd = [[e \in Fds |-> IF e = w THEN NoFd ELSE [fd2 EXCEPT ![c] = fd2[0]][e]] EXCEPT ![0] = fd2[r]]
    BY DEF PipeRightFds, Closed
  <1> HIDE DEF c, left, right
  <1>15. c # w /\ c # r /\ fd[c] = NoFd
    BY <1>2, <1>3, <1>5, <1>8, <1>9, <1>12
  <1>16. /\ 0 \notin {r, w, c} /\ 1 \notin {r, w, c}
         /\ fd[0] # NoFd /\ fd[1] # NoFd
    BY <1>1, <1>3, <1>10, <1>15 DEF IsTable
  <1>17. /\ fd2[0] = fd[0] /\ fd2[1] = fd[1] /\ fd2[r] = PipeEnd(p, "r") /\ fd2[w] = PipeEnd(p, "w")
    BY <1>1, <1>3, <1>5, <1>8, <1>9, <1>10, <1>16
  <1>18. /\ left = [e \in Fds |-> left[e]]
         /\ \A e \in Fds : left[e] = IF e = r THEN NoFd
                                     ELSE IF e = 1 \/ e = w THEN PipeEnd(p, "w") ELSE fd[e]
    BY <1>1, <1>5, <1>9, <1>13, <1>17
  <1>19. /\ g = [e \in Fds |-> g[e]]
         /\ \A e \in Fds : g[e] = IF e = 0 THEN PipeEnd(p, "r")
                                  ELSE IF e = w THEN NoFd
                                  ELSE IF e = c THEN fd[0]
                                  ELSE IF e = r THEN PipeEnd(p, "r") ELSE fd[e]
    <2> DEFINE h == [fd2 EXCEPT ![c] = fd2[0]]
               k == [e \in Fds |-> IF e = w THEN NoFd ELSE h[e]]
    <2>1. \A e \in Fds : h[e] = IF e = c THEN fd[0] ELSE fd2[e]
      BY <1>9, <1>12, <1>17
    <2>2. g = [k EXCEPT ![0] = PipeEnd(p, "r")]
      BY <1>14, <1>17
    <2> HIDE DEF h
    <2>3. k = [e \in Fds |-> k[e]] /\ \A e \in Fds : k[e] = IF e = w THEN NoFd ELSE h[e]
      OBVIOUS
    <2> HIDE DEF k, g
    <2>4. g = [e \in Fds |-> g[e]] /\ \A e \in Fds : g[e] = IF e = 0 THEN PipeEnd(p, "r") ELSE k[e]
      BY <2>2, <2>3, <1>1
    <2>5. \A e \in Fds : fd2[e] = IF e = w THEN PipeEnd(p, "w") ELSE IF e = r THEN PipeEnd(p, "r") ELSE fd[e]
      BY <1>5, <1>9
    <2> QED  BY <2>1, <2>3, <2>4, <2>5, <1>15
  <1>20. /\ IsTable(left) /\ left[0] = fd[0] /\ left[1] = PipeEnd(p, "w")
         /\ \A e \in Fds : IsWriteEnd(left[e]) => left[e][2] = p \/ \E x \in Fds : left[e] = fd[x]
    BY <1>1, <1>2, <1>16, <1>18 DEF IsTable
  <1>21. IsTable(g) /\ g[0] = PipeEnd(p, "r") /\ g[1] = fd[1]
    BY <1>1, <1>2, <1>16, <1>19 DEF IsTable
  <1>22. Adds(fd, g)
    BY <1>1, <1>2, <1>19 DEF Adds
  <1>23. ASSUME NEW f, f.pipefd[1] = r, f.fds[0] = c
         PROVE  PipeRestored(g, f) = fd
    <2> DEFINE h == [g EXCEPT ![0] = g[c]]
    <2>1. PipeRestored(g, f) = [e \in Fds |-> IF e \in {r, c} THEN NoFd ELSE h[e]]
      BY <1>23 DEF PipeRestored, Closed
    <2>2. \A e \in Fds : h[e] = IF e = 0 THEN fd[0] ELSE g[e]
      BY <1>1, <1>12, <1>16, <1>19, <1>15
    <2> HIDE DEF h
    <2>3. \A e \in Fds : (IF e \in {r, c} THEN NoFd ELSE h[e]) = fd[e]
      BY <2>2, <1>3, <1>10, <1>15, <1>16, <1>19
    <2>4. PipeRestored(g, f) = [e \in Fds |-> fd[e]]
      BY <2>1, <2>3
    <2> QED  BY <2>4 DEF IsTable
  <1> QED  BY <1>12, <1>14, <1>20, <1>21, <1>22, <1>23 DEF left, right, r, w, c, fd1, fd2

\* Putting descriptors back brings no object that was not there.
LEMMA RestoredAdds ==
    ASSUME NEW fd, fd = [d \in Fds |-> fd[d]], NEW fds, NEW d \in {0, 1},
           fds[d + 2] < 0 \/ fds[d] \in Fds
    PROVE  LET g == Restored(fd, fds, d) IN g = [e \in Fds |-> g[e]] /\ Adds(fd, g)
  <1>1. d \in Fds
    BY Descriptors DEF Fds
  <1>2. CASE fds[d + 2] < 0
    BY <1>2 DEF Restored, Adds
  <1>3. CASE ~(fds[d + 2] < 0)
    <2> DEFINE h == [fd EXCEPT ![d] = fd[fds[d]]]
    <2>1. fds[d] \in Fds
      BY <1>3
    <2>2. \A e \in Fds : h[e] = IF e = d THEN fd[fds[d]] ELSE fd[e]
      BY <1>1
    <2>3. Restored(fd, fds, d) = [e \in Fds |-> IF e \in {fds[d], fds[d + 2]} THEN NoFd ELSE h[e]]
      BY <1>3 DEF Restored, Closed
    <2> HIDE DEF h
    <2>4. \A e \in Fds : IsWriteEnd(Restored(fd, fds, d)[e]) => Restored(fd, fds, d)[e] = h[e]
      BY <2>3, Objects
    <2>5. Adds(fd, Restored(fd, fds, d))
      BY <2>1, <2>2, <2>4 DEF Adds
    <2> QED  BY <2>3, <2>5
  <1> QED  BY <1>2, <1>3

LEMMA LeavingAdds ==
    ASSUME NEW cs, NEW f, NEW fd, IsTable(fd), Slots(cs, f)
    PROVE  Adds(fd, Leaving(cs, f, fd))
  <1>1. CASE Piping(cs, f)
    <2> DEFINE h == [fd EXCEPT ![0] = fd[f.fds[0]]]
               g == PipeRestored(fd, f)
    <2>1. f.fds[0] \in Fds /\ 0 \in Fds
      BY <1>1, Descriptors DEF Slots, Fds
    <2>2. \A e \in Fds : h[e] = IF e = 0 THEN fd[f.fds[0]] ELSE fd[e]
      BY <2>1 DEF IsTable
    <2>3. g = [e \in Fds |-> IF e \in {f.pipefd[1], f.fds[0]} THEN NoFd ELSE h[e]]
      BY DEF PipeRestored, Closed
    <2> HIDE DEF h, g
    <2>4. \A e \in Fds : IsWriteEnd(g[e]) => g[e] = h[e]
      BY <2>3, Objects
    <2>5. Adds(fd, g)
      BY <2>1, <2>2, <2>4 DEF Adds
    <2> QED  BY <2>5, <1>1 DEF Leaving, g
  <1>2. CASE ~Piping(cs, f) /\ Looping(f)
    <2> DEFINE g == Restored(fd, f.fds, 0)
    <2>1. /\ 0 \in {0, 1} /\ 1 \in {0, 1}
          /\ f.fds[0 + 2] < 0 \/ f.fds[0] \in Fds
          /\ f.fds[1 + 2] < 0 \/ f.fds[1] \in Fds
      BY <1>2 DEF Slots
    <2>2. g = [e \in Fds |-> g[e]] /\ Adds(fd, g)
      BY <2>1, RestoredAdds DEF IsTable
    <2> HIDE DEF g
    <2>3. Adds(g, Restored(g, f.fds, 1))
      BY <2>1, <2>2, RestoredAdds
    <2>4. Adds(fd, Restored(g, f.fds, 1))
      BY <2>2, <2>3 DEF Adds
    <2> QED  BY <1>2, <2>4 DEF Leaving, reset_redirect, g
  <1>3. CASE ~Piping(cs, f) /\ ~Looping(f)
    BY <1>3 DEF Leaving, Adds
  <1> QED  BY <1>1, <1>2, <1>3

-----------------------------------------------------------------------------
(* Standard streams. *)

\* A redirection or a pipe at a command itself decides.
LEMMA StreamHere ==
    ASSUME NEW cs, NEW p \in Seq(Nat), p # <<>>, NEW d, NEW obj, obj \in Gives(cs, p, d)
    PROVE  StreamIs(cs, p, d, obj)
  <1>1. Len(p) \in Nat /\ Len(p) > 0 /\ SubSeq(p, 1, Len(p)) = p
    BY SubSeqFull, LenProperties, EmptySeq
  <1>2. Len(p) \in 0 .. Len(p) /\ Len(p) # 0 /\ \A m \in Len(p) + 1 .. Len(p) : FALSE
    BY <1>1
  <1> QED  BY <1>1, <1>2, Zenon DEF StreamIs

LEMMA PathBelow ==
    ASSUME NEW p \in Seq(Nat), p # <<>>, NEW k \in Nat
    PROVE  /\ Append(p, k) \in Seq(Nat) /\ Append(p, k) # <<>>
           /\ Len(p) \in Nat /\ Len(p) > 0
           /\ Len(Append(p, k)) = Len(p) + 1
           /\ Append(p, k)[Len(Append(p, k))] = k
           /\ Up(Append(p, k)) = p
           /\ \A n \in 1 .. Len(p) : SubSeq(Append(p, k), 1, n) = SubSeq(p, 1, n)
           /\ SubSeq(Append(p, k), 1, Len(p) + 1) = Append(p, k)
  <1>1. /\ Append(p, k) \in Seq(Nat) /\ Append(p, k) # <<>>
        /\ Len(Append(p, k)) = Len(p) + 1
        /\ \A i \in 1 .. Len(p) : Append(p, k)[i] = p[i]
        /\ Append(p, k)[Len(p) + 1] = k
    BY AppendProperties
  <1>2. Len(p) \in Nat /\ Len(p) > 0
    BY LenProperties, EmptySeq
  <1>3. ASSUME NEW n \in 1 .. Len(p)
        PROVE  SubSeq(Append(p, k), 1, n) = SubSeq(p, 1, n)
    <2>1. /\ \A i \in 1 .. n : Append(p, k)[i] \in Nat /\ p[i] \in Nat
          /\ n \in Int /\ 1 \in Int
      BY <1>1, <1>2, ElementOfSeq
    <2>2. /\ SubSeq(Append(p, k), 1, n) \in Seq(Nat)
          /\ Len(SubSeq(Append(p, k), 1, n)) = IF 1 <= n THEN n - 1 + 1 ELSE 0
          /\ \A i \in 1 .. n - 1 + 1 : SubSeq(Append(p, k), 1, n)[i] = Append(p, k)[1 + i - 1]
      BY <2>1, SubSeqProperties
    <2>3. /\ SubSeq(p, 1, n) \in Seq(Nat)
          /\ Len(SubSeq(p, 1, n)) = IF 1 <= n THEN n - 1 + 1 ELSE 0
          /\ \A i \in 1 .. n - 1 + 1 : SubSeq(p, 1, n)[i] = p[1 + i - 1]
      BY <2>1, SubSeqProperties
    <2>4. \A i \in 1 .. n : i \in 1 .. n - 1 + 1 /\ 1 + i - 1 = i /\ i \in 1 .. Len(p)
      BY <1>2
    <2>5. /\ Len(SubSeq(p, 1, n)) = n
          /\ \A i \in 1 .. n : SubSeq(Append(p, k), 1, n)[i] = SubSeq(p, 1, n)[i]
      BY <2>2, <2>3, <2>4, <1>1
    <2> QED  BY <2>2, <2>3, <2>5, SeqEqual
  <1>4. SubSeq(Append(p, k), 1, Len(p) + 1) = Append(p, k)
    BY <1>1, SubSeqFull
  <1>5. Up(Append(p, k)) = p
    <2>1. Up(Append(p, k)) = SubSeq(Append(p, k), 1, Len(p) + 1 - 1) /\ Len(p) + 1 - 1 = Len(p)
      BY <1>1, <1>2 DEF Up
    <2>2. Len(p) \in 1 .. Len(p)
      BY <1>2
    <2> QED  BY <2>1, <2>2, <1>3, SubSeqFull
  <1> QED  BY <1>1, <1>2, <1>3, <1>4, <1>5

\* A command that sets nothing has its caller's streams.
LEMMA StreamBelow ==
    ASSUME NEW cs, NEW p \in Seq(Nat), p # <<>>, NEW k \in Nat, NEW d, NEW obj,
           StreamIs(cs, p, d, obj), Gives(cs, Append(p, k), d) = {}
    PROVE  StreamIs(cs, Append(p, k), d, obj)
  <1>1. PICK n \in 0 .. Len(p) :
          /\ obj \in IF n = 0 THEN {Tty} ELSE Gives(cs, SubSeq(p, 1, n), d)
          /\ \A m \in n + 1 .. Len(p) : Gives(cs, SubSeq(p, 1, m), d) = {}
    BY DEF StreamIs
  <1>2. Len(p) \in Nat /\ Len(Append(p, k)) = Len(p) + 1
    BY PathBelow
  <1>3. n \in 0 .. Len(Append(p, k))
    BY <1>2
  <1>4. obj \in IF n = 0 THEN {Tty} ELSE Gives(cs, SubSeq(Append(p, k), 1, n), d)
    <2>1. n # 0 => SubSeq(Append(p, k), 1, n) = SubSeq(p, 1, n)
      BY <1>2, PathBelow
    <2> QED  BY <1>1, <2>1
  <1>5. ASSUME NEW m \in n + 1 .. Len(Append(p, k))
        PROVE  Gives(cs, SubSeq(Append(p, k), 1, m), d) = {}
    <2>1. CASE m = Len(p) + 1
      BY <2>1, PathBelow
    <2>2. CASE m # Len(p) + 1
      <3>1. m \in n + 1 .. Len(p) /\ m \in 1 .. Len(p)
        BY <2>2, <1>2
      <3> QED  BY <3>1, <1>1, PathBelow
    <2> QED  BY <2>1, <2>2
  <1> QED  BY <1>3, <1>4, <1>5, Zenon DEF StreamIs

\* What a command is called with: a redirection of its own is not made yet.
Around(cs, p, d, obj) == Redirects(CommandAt(cs, p), d) \/ StreamIs(cs, p, d, obj)

\* The streams of a command that is called by the one around it.
LEMMA AroundBelow ==
    ASSUME NEW cs, NEW p \in Seq(Nat), p # <<>>, NEW k \in Nat, NEW d \in {0, 1}, NEW obj,
           IF CommandAt(cs, p).type = "PIPE" /\ k = Side(d) THEN obj = EndOf(p, d)
           ELSE StreamIs(cs, p, d, obj)
    PROVE  Around(cs, Append(p, k), d, obj)
  <1> SUFFICES ASSUME ~Redirects(CommandAt(cs, Append(p, k)), d)
               PROVE  StreamIs(cs, Append(p, k), d, obj)
    BY DEF Around
  <1>1. Piped(cs, Append(p, k), d) <=> CommandAt(cs, p).type = "PIPE" /\ k = Side(d)
    <2>1. Len(Append(p, k)) > 1
      BY PathBelow
    <2> QED  BY <2>1, PathBelow DEF Piped
  <1>2. CASE Piped(cs, Append(p, k), d)
    <2>1. obj \in Gives(cs, Append(p, k), d)
      BY <1>1, <1>2, PathBelow DEF Gives
    <2> QED  BY <2>1, PathBelow, StreamHere
  <1>3. CASE ~Piped(cs, Append(p, k), d)
    <2>1. Gives(cs, Append(p, k), d) = {}
      BY <1>3 DEF Gives
    <2> QED  BY <1>1, <1>3, <2>1, StreamBelow
  <1> QED  BY <1>2, <1>3

\* The first command of a stream runs on the terminal.
LEMMA AroundFirst ==
    ASSUME NEW cs, NEW n \in Nat, NEW d \in {0, 1}
    PROVE  Around(cs, <<n>>, d, Tty)
  <1> SUFFICES ASSUME ~Redirects(CommandAt(cs, <<n>>), d)
               PROVE  StreamIs(cs, <<n>>, d, Tty)
    BY DEF Around
  <1>1. Len(<<n>>) = 1 /\ <<n>> \in Seq(Nat)
    OBVIOUS
  <1>2. Gives(cs, <<n>>, d) = {}
    BY <1>1 DEF Gives, Piped
  <1>3. ASSUME NEW m \in 0 + 1 .. Len(<<n>>) PROVE Gives(cs, SubSeq(<<n>>, 1, m), d) = {}
    <2>1. m = Len(<<n>>)
      BY <1>1
    <2>2. SubSeq(<<n>>, 1, Len(<<n>>)) = <<n>>
      BY <1>1, SubSeqFull
    <2> QED  BY <2>1, <2>2, <1>2
  <1>4. 0 \in 0 .. Len(<<n>>)
    BY <1>1
  <1> QED  BY <1>3, <1>4, Zenon DEF StreamIs

\* A redirection that has been made is the stream; without one it stays.
LEMMA AroundMade ==
    ASSUME NEW cs, NEW p \in Seq(Nat), p # <<>>, NEW d \in {0, 1}, NEW obj,
           Around(cs, p, d, obj), CommandAt(cs, p).type \notin {"SEQUENCE", "PIPE"}
    PROVE  StreamIs(cs, p, d, IF Wanted(CommandAt(cs, p), d) THEN File(p, How(d)) ELSE obj)
  <1>1. Redirects(CommandAt(cs, p), d) <=> Wanted(CommandAt(cs, p), d)
    BY DEF Redirects, Wanted
  <1>2. CASE Wanted(CommandAt(cs, p), d)
    <2>1. File(p, How(d)) \in Gives(cs, p, d)
      BY <1>1, <1>2 DEF Gives, How
    <2> QED  BY <1>2, <2>1, StreamHere
  <1>3. CASE ~Wanted(CommandAt(cs, p), d)
    BY <1>1, <1>3 DEF Around
  <1> QED  BY <1>2, <1>3

-----------------------------------------------------------------------------
(* Processes: what happens to the last one, call by call. *)

LEMMA ProcessFacts ==
    ASSUME NEW p, IsProcess(p)
    PROVE  /\ IsSeq(p.frames) /\ Len(p.frames) \in Nat
           /\ p.frames = <<>> <=> Len(p.frames) = 0
  BY SeqFacts DEF IsProcess

LEMMA NewProcess ==
    ASSUME NEW fd, NEW frames, IsSeq(frames), NEW ret, NEW log
    PROVE  LET p == Process(fd, frames, ret, log) IN
           /\ IsProcess(p) /\ p.fd = fd /\ p.frames = frames /\ p.ret = ret /\ p.log = log
  BY DEF IsProcess, Process

LEMMA PathFacts ==
    ASSUME NEW cs, NEW ps, NEW i, NEW p, ProcessInv(cs, ps, i, p), NEW k \in 1 .. Len(p.frames)
    PROVE  /\ p.frames[k].path \in Seq(Nat) /\ p.frames[k].path # <<>>
           /\ Len(p.frames[k].path) \in Nat
  <1>1. p.frames[k].path \in Seq(Nat) /\ p.frames[k].path # <<>>
    BY DEF ProcessInv, FrameInv, IsFrame
  <1> QED  BY <1>1, LenProperties

\* The process goes on in the same call.
Stays(p, q, f, fd) ==
    /\ IsProcess(q) /\ q.fd = fd
    /\ Len(p.frames) >= 1 /\ Len(q.frames) = Len(p.frames)
    /\ \A k \in 1 .. Len(p.frames) - 1 : q.frames[k] = p.frames[k]
    /\ q.frames[Len(p.frames)] = f

LEMMA StaysInv ==
    ASSUME NEW cs, NEW ps, NEW i \in Nat, NEW p, ProcessInv(cs, ps, i, p),
           NEW q, NEW f, NEW fd, Stays(p, q, f, fd),
           f.path = Top(p).path, f.entry = Top(p).entry,
           Top(p).pc \in Final => f.pc \in Final, f.pc \in Lefts => Top(p).pc \in Lefts,
           FrameInv(cs, f, fd), Adds(p.fd, fd)
    PROVE  ProcessInv(cs, ps, i, q)
  <1> DEFINE m == Len(p.frames)
  <1>1. /\ m \in Nat /\ m >= 1 /\ Len(q.frames) = m /\ IsProcess(q) /\ q.fd = fd
        /\ q.frames[m] = f /\ Top(p) = p.frames[m]
        /\ \A k \in 1 .. m - 1 : q.frames[k] = p.frames[k]
        /\ p.frames # <<>> /\ q.frames # <<>>
    BY ProcessFacts DEF Stays, Top, ProcessInv
  <1>0. Len(p.frames) = m
    OBVIOUS
  <1> HIDE DEF m
  <1>2. \A k \in 1 .. m : q.frames[k].path = p.frames[k].path /\ q.frames[k].entry = p.frames[k].entry
    BY <1>1
  <1>3. ASSUME NEW k \in 1 .. Len(q.frames)
        PROVE  FrameInv(cs, q.frames[k], Under(q, k))
    <2>1. CASE k = m
      BY <2>1, <1>0, <1>1 DEF Under
    <2>2. CASE k # m
      <3>1. k \in 1 .. m - 1 /\ k + 1 \in 1 .. m
        BY <2>2, <1>1
      <3>2. Under(q, k) = Under(p, k)
        BY <3>1, <2>2, <1>0, <1>1, <1>2 DEF Under
      <3> QED  BY <3>1, <3>2, <1>0, <1>1 DEF ProcessInv
    <2> QED  BY <2>1, <2>2
  <1>4. WriterWaitedFor(ps, i, q)
    <2> SUFFICES ASSUME NEW d \in Fds, IsWriteEnd(q.fd[d])
                 PROVE  \E j \in 1 .. i - 1 : Top(ps[j]).path = q.fd[d][2]
      BY DEF WriterWaitedFor
    <2>1. PICK x \in Fds : q.fd[d] = p.fd[x]
      BY <1>1 DEF Adds
    <2> QED  BY <2>1 DEF ProcessInv, WriterWaitedFor
  <1>5. Nested(ps, i, q)
    <2>1. Nested(ps, i, p)
      BY DEF ProcessInv
    <2>2. ASSUME NEW k \in 1 .. m
          PROVE  /\ \A l \in 1 .. k - 1 : Len(q.frames[l].path) < Len(q.frames[k].path)
                 /\ \A j \in 1 .. i - 1 : Len(Top(ps[j]).path) <= Len(q.frames[k].path)
      <3>1. \A l \in 1 .. k - 1 : l \in 1 .. m
        BY <1>1
      <3> QED  BY <2>1, <3>1, <1>0, <1>2 DEF Nested
    <2> QED  BY <2>2, <1>1 DEF Nested
  <1>6. Child(ps, i, q)
    <2>1. i > 1 => q.frames # <<>> /\ q.frames[1].pc \in Final
      <3>1. CASE m = 1
        BY <3>1, <1>0, <1>1 DEF ProcessInv, Child
      <3>2. CASE m # 1
        <4>1. 1 \in 1 .. m - 1
          BY <3>2, <1>1
        <4> QED  BY <4>1, <1>0, <1>1 DEF ProcessInv, Child
      <3> QED  BY <3>1, <3>2
    <2>2. ASSUME NEW k \in 1 .. Len(q.frames), q.frames[k].pc \in Lefts
          PROVE  i > 1 /\ k = 1 /\ Top(ps[i - 1]).path = q.frames[k].path
      <3>1. p.frames[k].pc \in Lefts
        BY <2>2, <1>1
      <3> QED  BY <3>1, <1>0, <1>1, <1>2 DEF ProcessInv, Child
    <2> QED  BY <2>1, <2>2 DEF Child
  <1>7. i = 1 => OnTerminal(q)
    <2>1. q.frames[1].pc \notin Final => p.frames[1].pc \notin Final
      <3>1. CASE m = 1
        BY <3>1, <1>1
      <3>2. CASE m # 1
        <4>1. 1 \in 1 .. m - 1
          BY <3>2, <1>1
        <4> QED  BY <4>1, <1>1
      <3> QED  BY <3>1, <3>2
    <2>2. Base(q) = Base(p)
      BY <1>0, <1>1, <1>2 DEF Base
    <2> QED  BY <2>1, <2>2, <1>1 DEF ProcessInv, OnTerminal
  <1> QED  BY <1>1, <1>3, <1>4, <1>5, <1>6, <1>7 DEF ProcessInv

\* The process calls execute_command.
Pushes(p, q, new) ==
    /\ IsProcess(q) /\ q.fd = p.fd
    /\ Len(q.frames) = Len(p.frames) + 1
    /\ \A k \in 1 .. Len(p.frames) : q.frames[k] = p.frames[k]
    /\ q.frames[Len(p.frames) + 1] = new

LEMMA PushesInv ==
    ASSUME NEW cs, NEW ps, NEW i \in Nat, NEW p, ProcessInv(cs, ps, i, p),
           NEW q, NEW new, Pushes(p, q, new),
           new.pc = "call", new.entry = q.fd, FrameInv(cs, new, q.fd),
           p.frames # <<>> => Len(new.path) > Len(Top(p).path),
           p.frames = <<>> => i = 1
    PROVE  ProcessInv(cs, ps, i, q)
  <1> DEFINE m == Len(p.frames)
  <1>1. /\ m \in Nat /\ Len(q.frames) = m + 1 /\ IsProcess(q) /\ q.fd = p.fd
        /\ q.frames[m + 1] = new
        /\ \A k \in 1 .. m : q.frames[k] = p.frames[k]
        /\ p.frames = <<>> <=> m = 0
        /\ q.frames # <<>>
    BY ProcessFacts DEF Pushes, ProcessInv
  <1>0. Len(p.frames) = m
    OBVIOUS
  <1> HIDE DEF m
  <1>2. new.pc \notin Final /\ new.pc \notin Lefts
    BY DEF Final, Lefts
  <1>3. ASSUME NEW k \in 1 .. Len(q.frames)
        PROVE  FrameInv(cs, q.frames[k], Under(q, k))
    <2>1. CASE k = m + 1
      BY <2>1, <1>0, <1>1 DEF Under
    <2>2. CASE k # m + 1
      <3>1. k \in 1 .. m /\ k + 1 \in 1 .. m + 1
        BY <2>2, <1>1
      <3>2. Under(q, k) = Under(p, k)
        BY <3>1, <2>2, <1>0, <1>1 DEF Under
      <3> QED  BY <3>1, <3>2, <1>0, <1>1 DEF ProcessInv
    <2> QED  BY <2>1, <2>2
  <1>4. WriterWaitedFor(ps, i, q)
    BY <1>1 DEF ProcessInv, WriterWaitedFor
  <1>5. Nested(ps, i, q)
    <2>1. ASSUME NEW k \in 1 .. Len(q.frames), k # m + 1
          PROVE  /\ \A l \in 1 .. k - 1 : Len(q.frames[l].path) < Len(q.frames[k].path)
                 /\ \A j \in 1 .. i - 1 : Len(Top(ps[j]).path) <= Len(q.frames[k].path)
      <3>1. k \in 1 .. m /\ \A l \in 1 .. k - 1 : l \in 1 .. m
        BY <2>1, <1>1
      <3>2. Nested(ps, i, p)
        BY DEF ProcessInv
      <3> QED  BY <3>1, <3>2, <1>0, <1>1 DEF Nested
    <2>2. \A j \in 1 .. i - 1 : m # 0
      BY <1>1
    <2>3. m # 0 => m \in 1 .. m /\ Len(p.frames[m].path) \in Nat /\ Len(new.path) > Len(p.frames[m].path)
      BY <1>0, <1>1, PathFacts DEF Top
    <2>4. Len(new.path) \in Nat
      BY LenProperties DEF FrameInv, IsFrame
    <2>5. ASSUME NEW l \in 1 .. m
          PROVE  Len(q.frames[l].path) < Len(new.path)
      <3>1. m # 0 /\ Len(p.frames[l].path) \in Nat
        BY <1>0, <1>1, PathFacts
      <3>2. l = m \/ Len(p.frames[l].path) < Len(p.frames[m].path)
        <4>1. m \in 1 .. m /\ (l # m => l \in 1 .. m - 1)
          BY <1>1
        <4> QED  BY <4>1, <1>0 DEF ProcessInv, Nested
      <3>3. q.frames[l] = p.frames[l]
        BY <1>1
      <3>4. CASE l = m
        BY <3>1, <3>3, <3>4, <2>3
      <3>5. CASE l # m
        <4>1. Len(p.frames[l].path) < Len(p.frames[m].path) /\ Len(p.frames[m].path) < Len(new.path)
          BY <3>1, <3>2, <3>5, <2>3, <2>4
        <4>2. \A x, y, z \in Nat : x < y /\ y < z => x < z
          OBVIOUS
        <4>3. Len(p.frames[m].path) \in Nat
          BY <3>1, <2>3
        <4>4. Len(p.frames[l].path) < Len(new.path)
          BY ONLY <4>1, <4>2, <4>3, <3>1, <2>4, Zenon
        <4> QED  BY ONLY <4>4, <3>3
      <3> QED  BY <3>4, <3>5
    <2>6. ASSUME NEW j \in 1 .. i - 1
          PROVE  Len(Top(ps[j]).path) <= Len(new.path)
      <3>1. m \in 1 .. m /\ m # 0
        BY <2>2, <1>1
      <3>2. Len(Top(ps[j]).path) <= Len(p.frames[m].path)
        BY <3>1, <1>0 DEF ProcessInv, Nested
      <3>3. Len(new.path) > Len(p.frames[m].path)
        BY <3>1, <2>3
      <3>4. Len(p.frames[m].path) \in Nat
        BY <3>1, <2>3
      <3> QED  BY <3>2, <3>3, <3>4, <2>4
    <2>7. ASSUME NEW k \in 1 .. Len(q.frames)
          PROVE  /\ \A l \in 1 .. k - 1 : Len(q.frames[l].path) < Len(q.frames[k].path)
                 /\ \A j \in 1 .. i - 1 : Len(Top(ps[j]).path) <= Len(q.frames[k].path)
      <3>1. CASE k # m + 1
        BY <2>1, <3>1
      <3>2. CASE k = m + 1
        <4>1. q.frames[k] = new /\ \A l \in 1 .. k - 1 : l \in 1 .. m
          BY <3>2, <1>1
        <4> QED  BY <4>1, <2>5, <2>6
      <3> QED  BY <3>1, <3>2
    <2> QED  BY <2>7 DEF Nested
  <1>6. Child(ps, i, q)
    <2>1. i > 1 => q.frames # <<>> /\ q.frames[1].pc \in Final
      <3>1. i > 1 => 1 \in 1 .. m
        BY <1>1
      <3> QED  BY <3>1, <1>0, <1>1 DEF ProcessInv, Child
    <2>2. ASSUME NEW k \in 1 .. Len(q.frames), q.frames[k].pc \in Lefts
          PROVE  i > 1 /\ k = 1 /\ Top(ps[i - 1]).path = q.frames[k].path
      <3>1. k \in 1 .. m
        BY <2>2, <1>1, <1>2
      <3> QED  BY <2>2, <3>1, <1>0, <1>1 DEF ProcessInv, Child
    <2> QED  BY <2>1, <2>2 DEF Child
  <1>7. i = 1 => OnTerminal(q)
    <2>1. CASE m = 0
      BY <2>1, <1>1 DEF ProcessInv, OnTerminal, Base
    <2>2. CASE m # 0
      <3>1. 1 \in 1 .. m
        BY <2>2, <1>1
      <3> QED  BY <2>2, <3>1, <1>1 DEF ProcessInv, OnTerminal, Base
    <2> QED  BY <2>1, <2>2
  <1> QED  BY <1>1, <1>3, <1>4, <1>5, <1>6, <1>7 DEF ProcessInv

\* The process returns from execute_command: the descriptors are what they
\* were when it was called.
Pops(p, q) ==
    /\ IsProcess(q) /\ q.fd = Top(p).entry
    /\ Len(q.frames) = Len(p.frames) - 1
    /\ \A k \in 1 .. Len(p.frames) - 1 : q.frames[k] = p.frames[k]

LEMMA PopsInv ==
    ASSUME NEW cs, NEW ps, NEW i \in Nat, i >= 1, NEW p, ProcessInv(cs, ps, i, p),
           Len(p.frames) >= 1, Top(p).pc \notin Final, NEW q, Pops(p, q)
    PROVE  /\ ProcessInv(cs, ps, i, q)
           /\ Top(p).entry = Leaving(cs, Top(p), p.fd)
           /\ q.frames = <<>> => i = 1
  <1> DEFINE m == Len(p.frames)
  <1>1. /\ m \in Nat /\ m >= 1 /\ Len(q.frames) = m - 1 /\ IsProcess(q)
        /\ q.fd = p.frames[m].entry /\ Top(p) = p.frames[m]
        /\ \A k \in 1 .. m - 1 : q.frames[k] = p.frames[k]
        /\ q.frames = <<>> <=> Len(q.frames) = 0
        /\ p.frames # <<>>
    <2>1. IsProcess(p) /\ IsProcess(q)
      BY DEF Pops, ProcessInv
    <2>2. /\ Len(p.frames) \in Nat /\ p.frames # <<>>
          /\ q.frames = <<>> <=> Len(q.frames) = 0
      BY <2>1, ProcessFacts
    <2> QED  BY <2>1, <2>2 DEF Pops, Top
  <1>0. Len(p.frames) = m
    OBVIOUS
  <1> HIDE DEF m
  <1>2. FrameInv(cs, p.frames[m], p.fd)
    BY <1>0, <1>1 DEF ProcessInv, Under
  <1>3. q.fd = Leaving(cs, p.frames[m], p.fd) /\ Adds(p.fd, q.fd)
    <2>1. IsTable(p.fd) /\ Slots(cs, p.frames[m]) /\ q.fd = Leaving(cs, p.frames[m], p.fd)
      BY <1>1, <1>2 DEF FrameInv
    <2> QED  BY <2>1, LeavingAdds
  <1>4. ASSUME NEW k \in 1 .. Len(q.frames)
        PROVE  FrameInv(cs, q.frames[k], Under(q, k))
    <2>1. k \in 1 .. m - 1 /\ k \in 1 .. m /\ k # m
      BY <1>1
    <2>2. CASE k = m - 1
      <3>1. k + 1 = m
        BY <2>2, <1>1
      <3>2. Under(q, k) = Under(p, k)
        BY <3>1, <2>1, <2>2, <1>0, <1>1 DEF Under
      <3> QED  BY <3>2, <2>1, <1>0, <1>1 DEF ProcessInv
    <2>3. CASE k # m - 1
      <3>1. k + 1 \in 1 .. m - 1
        BY <2>1, <2>3, <1>1
      <3>2. Under(q, k) = Under(p, k)
        BY <3>1, <2>1, <2>3, <1>0, <1>1 DEF Under
      <3> QED  BY <3>2, <2>1, <1>0, <1>1 DEF ProcessInv
    <2> QED  BY <2>2, <2>3
  <1>5. WriterWaitedFor(ps, i, q)
    <2> SUFFICES ASSUME NEW d \in Fds, IsWriteEnd(q.fd[d])
                 PROVE  \E j \in 1 .. i - 1 : Top(ps[j]).path = q.fd[d][2]
      BY DEF WriterWaitedFor
    <2>1. PICK x \in Fds : q.fd[d] = p.fd[x]
      BY <1>3 DEF Adds
    <2> QED  BY <2>1 DEF ProcessInv, WriterWaitedFor
  <1>6. Nested(ps, i, q)
    <2>1. ASSUME NEW k \in 1 .. Len(q.frames)
          PROVE  /\ \A l \in 1 .. k - 1 : Len(q.frames[l].path) < Len(q.frames[k].path)
                 /\ \A j \in 1 .. i - 1 : Len(Top(ps[j]).path) <= Len(q.frames[k].path)
      <3>1. k \in 1 .. m - 1 /\ k \in 1 .. m /\ \A l \in 1 .. k - 1 : l \in 1 .. m - 1
        BY <1>1
      <3> QED  BY <3>1, <1>0, <1>1 DEF ProcessInv, Nested
    <2> QED  BY <2>1 DEF Nested
  <1>7. i > 1 => m # 1
    BY <1>0, <1>1 DEF ProcessInv, Child
  <1>8. Child(ps, i, q)
    <2>1. i > 1 => q.frames # <<>> /\ q.frames[1].pc \in Final
      <3>1. i > 1 => 1 \in 1 .. m - 1
        BY <1>1, <1>7
      <3> QED  BY <3>1, <1>1 DEF ProcessInv, Child
    <2>2. ASSUME NEW k \in 1 .. Len(q.frames), q.frames[k].pc \in Lefts
          PROVE  i > 1 /\ k = 1 /\ Top(ps[i - 1]).path = q.frames[k].path
      <3>1. k \in 1 .. m - 1 /\ k \in 1 .. m
        BY <1>1
      <3> QED  BY <2>2, <3>1, <1>0, <1>1 DEF ProcessInv, Child
    <2> QED  BY <2>1, <2>2 DEF Child
  <1>9. i = 1 => OnTerminal(q)
    <2>1. CASE m = 1
      <3>1. q.frames = <<>> /\ Base(q) = p.frames[1].entry /\ Base(p) = p.frames[1].entry
        BY <2>1, <1>1 DEF Base
      <3> QED  BY <2>1, <3>1, <1>1 DEF ProcessInv, OnTerminal
    <2>2. CASE m # 1
      <3>1. 1 \in 1 .. m - 1 /\ q.frames # <<>>
        BY <2>2, <1>1
      <3> QED  BY <3>1, <1>1 DEF ProcessInv, OnTerminal, Base
    <2> QED  BY <2>1, <2>2
  <1>10. q.frames = <<>> => i = 1
    BY <1>8 DEF Child
  <1> QED  BY <1>1, <1>3, <1>4, <1>5, <1>6, <1>8, <1>9, <1>10 DEF ProcessInv


\* execvp: the process becomes the program.
LEMMA BecomesInv ==
    ASSUME NEW cs, NEW ps, NEW i \in Nat, NEW p, ProcessInv(cs, ps, i, p), p.frames # <<>>,
           NEW q, NEW f, IsProcess(q), q.frames = <<f>>,
           f.path = Top(p).path, f.pc = "program",
           FrameInv(cs, f, q.fd), Adds(p.fd, q.fd)
    PROVE  ProcessInv(cs, ps, i, q)
  <1>1. /\ Len(q.frames) = 1 /\ q.frames[1] = f /\ q.frames # <<>> /\ Under(q, 1) = q.fd
        /\ \A k \in 1 .. Len(q.frames) : k = 1
    BY SeqSingle DEF Under
  <1>2. f.pc \in Final /\ f.pc \notin Lefts
    BY DEF Final, Lefts
  <1>3. \A k \in 1 .. Len(q.frames) : FrameInv(cs, q.frames[k], Under(q, k))
    BY <1>1
  <1>4. WriterWaitedFor(ps, i, q)
    <2> SUFFICES ASSUME NEW d \in Fds, IsWriteEnd(q.fd[d])
                 PROVE  \E j \in 1 .. i - 1 : Top(ps[j]).path = q.fd[d][2]
      BY DEF WriterWaitedFor
    <2>1. PICK x \in Fds : q.fd[d] = p.fd[x]
      BY DEF Adds
    <2> QED  BY <2>1 DEF ProcessInv, WriterWaitedFor
  <1>5. Nested(ps, i, q)
    <2>1. Len(p.frames) \in 1 .. Len(p.frames)
      BY ProcessFacts DEF ProcessInv
    <2>2. \A j \in 1 .. i - 1 : Len(Top(ps[j]).path) <= Len(f.path)
      BY <2>1 DEF ProcessInv, Nested, Top
    <2>3. \A l \in 1 .. 1 - 1 : FALSE
      OBVIOUS
    <2> QED  BY <1>1, <2>2, <2>3 DEF Nested
  <1>6. Child(ps, i, q)
    BY <1>1, <1>2 DEF Child
  <1>7. OnTerminal(q)
    BY <1>1, <1>2 DEF OnTerminal
  <1> QED  BY <1>3, <1>4, <1>5, <1>6, <1>7 DEF ProcessInv

\* A child is forked in a call that it never returns from, with the descriptors
\* of its parent and perhaps the write end of the parent's pipe.
Forked(cs, ps, i, p, qs, n, c) ==
    /\ i \in Nat /\ i >= 1 /\ n = i + 1
    /\ ProcessInv(cs, ps, i, p) /\ p.frames # <<>>
    /\ \A j \in 1 .. i - 1 : qs[j] = ps[j]
    /\ Top(qs[i]).path = Top(p).path
    /\ IsProcess(c) /\ Len(c.frames) = 1
    /\ c.frames[1].path = Top(p).path /\ c.frames[1].pc \in Final
    /\ FrameInv(cs, c.frames[1], c.fd)
    /\ \A e \in Fds : IsWriteEnd(c.fd[e]) =>
                        c.fd[e][2] = c.frames[1].path \/ \E x \in Fds : c.fd[e] = p.fd[x]

LEMMA ChildInv ==
    ASSUME NEW cs, NEW ps, NEW i, NEW p, NEW qs, NEW n, NEW c, Forked(cs, ps, i, p, qs, n, c)
    PROVE  ProcessInv(cs, qs, n, c)
  <1> DEFINE f == c.frames[1]
  <1>0. /\ i \in Nat /\ i >= 1 /\ n = i + 1
        /\ ProcessInv(cs, ps, i, p) /\ p.frames # <<>>
        /\ \A j \in 1 .. i - 1 : qs[j] = ps[j]
        /\ Top(qs[i]).path = Top(p).path
        /\ IsProcess(c) /\ Len(c.frames) = 1 /\ c.frames[1] = f
        /\ f.path = Top(p).path /\ f.pc \in Final /\ FrameInv(cs, f, c.fd)
    BY DEF Forked
  <1>7. \A e \in Fds : IsWriteEnd(c.fd[e]) =>
                         (c.fd[e][2] = f.path \/ \E x \in Fds : c.fd[e] = p.fd[x])
    BY DEF Forked
  <1> HIDE DEF f
  <1>1. /\ c.frames # <<>> /\ Under(c, 1) = c.fd
        /\ \A k \in 1 .. Len(c.frames) : k = 1
    <2>1. c.frames # <<>>
      BY <1>0, ProcessFacts
    <2>2. \A k \in 1 .. 1 : k = 1
      OBVIOUS
    <2> QED  BY <2>1, <2>2, <1>0 DEF Under
  <1>2. /\ n - 1 = i /\ n > 1 /\ n # 1 /\ i \in 1 .. i
        /\ \A j \in 1 .. i : j = i \/ j \in 1 .. i - 1
        /\ \A j \in 1 .. i - 1 : j \in 1 .. i
    BY <1>0
  <1>3. \A k \in 1 .. Len(c.frames) : FrameInv(cs, c.frames[k], Under(c, k))
    BY <1>0, <1>1
  <1>4. WriterWaitedFor(qs, n, c)
    <2> SUFFICES ASSUME NEW d \in Fds, IsWriteEnd(c.fd[d])
                 PROVE  \E j \in 1 .. i : Top(qs[j]).path = c.fd[d][2]
      BY <1>2 DEF WriterWaitedFor
    <2>1. CASE c.fd[d][2] = f.path
      BY <2>1, <1>0, <1>2
    <2>2. CASE \E x \in Fds : c.fd[d] = p.fd[x]
      <3>1. PICK x \in Fds : c.fd[d] = p.fd[x]
        BY <2>2
      <3>2. PICK j \in 1 .. i - 1 : Top(ps[j]).path = c.fd[d][2]
        BY <3>1, <1>0 DEF ProcessInv, WriterWaitedFor
      <3> QED  BY <3>2, <1>0, <1>2
    <2> QED  BY <2>1, <2>2, <1>7
  <1>5. Nested(qs, n, c)
    <2>1. Len(p.frames) \in 1 .. Len(p.frames)
      BY <1>0, ProcessFacts DEF ProcessInv
    <2>2. \A j \in 1 .. i - 1 : Len(Top(ps[j]).path) <= Len(f.path)
      BY <2>1, <1>0 DEF ProcessInv, Nested, Top
    <2>3. \A l \in 1 .. 1 - 1 : FALSE
      OBVIOUS
    <2>4. Len(f.path) \in Nat
      BY <1>0, LenProperties DEF FrameInv, IsFrame
    <2>5. \A j \in 1 .. i : Len(Top(qs[j]).path) <= Len(f.path)
      BY <2>2, <2>4, <1>0, <1>2
    <2> QED  BY <1>0, <1>1, <1>2, <2>3, <2>5 DEF Nested
  <1>6. Child(qs, n, c)
    BY <1>0, <1>1, <1>2 DEF Child
  <1> QED  BY <1>0, <1>2, <1>3, <1>4, <1>5, <1>6 DEF ProcessInv

\* A process does not depend on what runs above it, nor on more of those below
\* than the commands they are in.
LEMMA ProcessInvSame ==
    ASSUME NEW cs, NEW ps, NEW i \in Nat, NEW p, ProcessInv(cs, ps, i, p),
           NEW qs, \A j \in 1 .. i - 1 : qs[j] = ps[j]
    PROVE  ProcessInv(cs, qs, i, p)
  <1>1. WriterWaitedFor(qs, i, p)
    BY DEF ProcessInv, WriterWaitedFor
  <1>2. Nested(qs, i, p)
    BY DEF ProcessInv, Nested
  <1>3. Child(qs, i, p)
    <2>1. i > 1 => i - 1 \in 1 .. i - 1
      OBVIOUS
    <2> QED  BY <2>1 DEF ProcessInv, Child
  <1> QED  BY <1>1, <1>2, <1>3 DEF ProcessInv

-----------------------------------------------------------------------------
(* The stack of processes. *)

\* The last process changes, or the one that was above it ended.
LEMMA ReplaceInv ==
    ASSUME NEW cs, NEW ps, Inv(cs, ps), NEW qs, IsSeq(qs), Len(qs) >= 1, Len(qs) <= Len(ps),
           \A i \in 1 .. Len(qs) - 1 : qs[i] = ps[i],
           ProcessInv(cs, ps, Len(qs), qs[Len(qs)])
    PROVE  Inv(cs, qs)
  <1>1. Len(ps) \in Nat /\ Len(qs) \in Nat
    BY SeqFacts DEF Inv
  <1>2. ASSUME NEW i \in 1 .. Len(qs)
        PROVE  ProcessInv(cs, qs, i, qs[i]) /\ (i < Len(qs) => Waits(qs[i]))
    <2>1. i \in Nat /\ i \in 1 .. Len(ps) /\ \A j \in 1 .. i - 1 : qs[j] = ps[j]
      BY <1>1
    <2>2. CASE i = Len(qs)
      BY <2>1, <2>2, <1>1, ProcessInvSame
    <2>3. CASE i # Len(qs)
      <3>1. i < Len(ps) /\ qs[i] = ps[i]
        BY <2>3, <1>1
      <3>2. ProcessInv(cs, ps, i, qs[i]) /\ Waits(qs[i])
        BY <2>1, <3>1 DEF Inv
      <3> QED  BY <2>1, <3>2, ProcessInvSame
    <2> QED  BY <2>2, <2>3
  <1> QED  BY <1>2 DEF Inv

\* The last process waits for a child.
LEMMA ForkInv ==
    ASSUME NEW cs, NEW ps, Inv(cs, ps), NEW qs, IsSeq(qs), Len(qs) = Len(ps) + 1,
           \A i \in 1 .. Len(ps) - 1 : qs[i] = ps[i],
           ProcessInv(cs, ps, Len(ps), qs[Len(ps)]), Waits(qs[Len(ps)]),
           ProcessInv(cs, qs, Len(ps) + 1, qs[Len(ps) + 1])
    PROVE  Inv(cs, qs)
  <1>1. Len(ps) \in Nat /\ Len(qs) \in Nat /\ Len(ps) >= 1
    BY SeqFacts DEF Inv
  <1>2. ASSUME NEW i \in 1 .. Len(qs)
        PROVE  ProcessInv(cs, qs, i, qs[i]) /\ (i < Len(qs) => Waits(qs[i]))
    <2>1. CASE i = Len(ps) + 1
      BY <2>1, <1>1
    <2>2. CASE i = Len(ps)
      BY <2>2, <1>1, ProcessInvSame
    <2>3. CASE i \notin {Len(ps), Len(ps) + 1}
      <3>1. i \in 1 .. Len(ps) /\ i < Len(ps) /\ i \in Nat /\ qs[i] = ps[i]
            /\ \A j \in 1 .. i - 1 : qs[j] = ps[j]
        BY <2>3, <1>1
      <3>2. ProcessInv(cs, ps, i, qs[i]) /\ Waits(qs[i])
        BY <3>1 DEF Inv
      <3> QED  BY <3>1, <3>2, ProcessInvSame
    <2> QED  BY <2>1, <2>2, <2>3
  <1> QED  BY <1>1, <1>2 DEF Inv

-----------------------------------------------------------------------------
(* The steps of the running process. *)

InCall == Inv(commands, procs) /\ P.frames # <<>>

LEMMA RunningProcess ==
    ASSUME Inv(commands, procs)
    PROVE  /\ Len(procs) \in Nat /\ Len(procs) >= 1 /\ IsSeq(procs)
           /\ IsSeq(Others) /\ Len(Others) = Len(procs) - 1
           /\ \A i \in 1 .. Len(procs) - 1 : Others[i] = procs[i]
           /\ ProcessInv(commands, procs, Len(procs), P)
           /\ IsProcess(P)
           /\ P = Process(P.fd, P.frames, P.ret, P.log)
  <1>1. /\ IsSeq(procs) /\ Len(procs) >= 1 /\ Len(procs) \in Nat
    BY SeqFacts DEF Inv
  <1>2. ProcessInv(commands, procs, Len(procs), P)
    BY <1>1 DEF Inv, P
  <1>3. /\ IsSeq(Others) /\ Len(Others) = Len(procs) - 1
        /\ \A i \in 1 .. Len(procs) - 1 : Others[i] = procs[i]
    BY <1>1, SeqFront DEF Others
  <1>4. IsProcess(P) /\ P = Process(P.fd, P.frames, P.ret, P.log)
    BY <1>2 DEF ProcessInv, IsProcess
  <1> QED  BY <1>1, <1>2, <1>3, <1>4

LEMMA RunningCall ==
    ASSUME InCall
    PROVE  /\ Len(P.frames) \in Nat /\ Len(P.frames) >= 1 /\ F = Top(P)
           /\ IsSeq(Callers) /\ Len(Callers) = Len(P.frames) - 1
           /\ \A k \in 1 .. Len(P.frames) - 1 : Callers[k] = P.frames[k]
           /\ FrameInv(commands, F, P.fd) /\ IsFrame(F) /\ IsTable(P.fd)
           /\ F.path \in Seq(Nat) /\ F.path # <<>> /\ Len(F.path) \in Nat
  <1>1. ProcessInv(commands, procs, Len(procs), P) /\ IsProcess(P)
    BY RunningProcess DEF InCall
  <1>2. IsSeq(P.frames) /\ Len(P.frames) \in Nat /\ Len(P.frames) # 0
    BY <1>1, ProcessFacts DEF InCall
  <1>3. F = Top(P) /\ F = P.frames[Len(P.frames)] /\ Under(P, Len(P.frames)) = P.fd
    BY DEF F, Top, Under
  <1>4. FrameInv(commands, F, P.fd)
    <2>1. Len(P.frames) \in 1 .. Len(P.frames)
      BY <1>2
    <2> QED  BY <1>1, <1>3, <2>1 DEF ProcessInv
  <1>5. /\ IsSeq(Callers) /\ Len(Callers) = Len(P.frames) - 1
        /\ \A k \in 1 .. Len(P.frames) - 1 : Callers[k] = P.frames[k]
    BY <1>2, SeqFront DEF Callers
  <1>6. IsFrame(F) /\ IsTable(P.fd) /\ F.path \in Seq(Nat) /\ F.path # <<>> /\ Len(F.path) \in Nat
    BY <1>4, LenProperties DEF FrameInv, IsFrame
  <1> QED  BY <1>2, <1>3, <1>4, <1>5, <1>6

\* The stack with another last process.
LEMMA Replaced ==
    ASSUME Inv(commands, procs), NEW q, ProcessInv(commands, procs, Len(procs), q)
    PROVE  Inv(commands, Append(Others, q))
  <1> DEFINE n == Len(procs)
             qs == Append(Others, q)
  <1>1. /\ n \in Nat /\ n >= 1 /\ IsSeq(Others) /\ Len(Others) = n - 1
        /\ \A i \in 1 .. n - 1 : Others[i] = procs[i]
    BY RunningProcess
  <1>2. /\ IsSeq(qs) /\ Len(qs) = Len(Others) + 1
        /\ \A i \in 1 .. Len(Others) : qs[i] = Others[i]
        /\ qs[Len(Others) + 1] = q
    BY <1>1, SeqAppend
  <1>3. ProcessInv(commands, procs, n, q)
    OBVIOUS
  <1>0. Len(procs) = n
    OBVIOUS
  <1> HIDE DEF n, qs
  <1>4. n - 1 + 1 = n
    BY <1>1
  <1>5. /\ Len(qs) = n /\ qs[n] = q
        /\ \A i \in 1 .. n - 1 : qs[i] = procs[i]
    BY <1>1, <1>2, <1>4
  <1>6. Inv(commands, qs)
    BY <1>0, <1>1, <1>2, <1>3, <1>5, ReplaceInv
  <1> QED  BY <1>6 DEF qs

\* What may follow a call at the same place: f with descriptors fd.
Follows(f, fd) ==
    /\ f.path = F.path /\ f.entry = F.entry
    /\ F.pc \in Final => f.pc \in Final
    /\ f.pc \in Lefts => F.pc \in Lefts
    /\ FrameInv(commands, f, fd) /\ Adds(P.fd, fd)

Going(f, fd, log) == Process(fd, Append(Callers, f), P.ret, log)

LEMMA GoingInv ==
    ASSUME InCall, NEW f, NEW fd, NEW log, Follows(f, fd)
    PROVE  LET q == Going(f, fd, log) IN
           /\ ProcessInv(commands, procs, Len(procs), q)
           /\ IsProcess(q) /\ q.fd = fd /\ q.frames # <<>> /\ Top(q) = f
           /\ q.frames = Append(Callers, f)
  <1> DEFINE q == Going(f, fd, log)
             s == Append(Callers, f)
             n == Len(procs)
             m == Len(P.frames)
  <1>1. /\ n \in Nat /\ ProcessInv(commands, procs, n, P)
        /\ m \in Nat /\ m >= 1 /\ F = Top(P)
        /\ IsSeq(Callers) /\ Len(Callers) = m - 1
        /\ \A k \in 1 .. m - 1 : Callers[k] = P.frames[k]
    BY RunningProcess, RunningCall DEF InCall
  <1>2. /\ IsSeq(s) /\ Len(s) = Len(Callers) + 1 /\ s # <<>>
        /\ \A i \in 1 .. Len(Callers) : s[i] = Callers[i]
        /\ s[Len(Callers) + 1] = f
    BY <1>1, SeqAppend
  <1>3. IsProcess(q) /\ q.fd = fd /\ q.frames = s
    <2>1. q = Process(fd, s, P.ret, log) /\ IsSeq(s)
      BY <1>2 DEF Going
    <2> HIDE DEF q, s
    <2> QED  BY ONLY <2>1, NewProcess
  <1>0. Len(procs) = n /\ Len(P.frames) = m
    OBVIOUS
  <1> HIDE DEF q, s, n, m
  <1>4. m - 1 + 1 = m
    BY <1>1
  <1>5. Len(s) = m /\ s[m] = f /\ \A k \in 1 .. m - 1 : s[k] = P.frames[k]
    BY <1>1, <1>2, <1>4
  <1>6. Stays(P, q, f, fd)
    BY <1>0, <1>1, <1>3, <1>5 DEF Stays
  <1>7. ProcessInv(commands, procs, n, q)
    BY <1>0, <1>1, <1>6, StaysInv DEF Follows
  <1>8. Top(q) = f
    BY <1>3, <1>5 DEF Top
  <1> QED  BY <1>0, <1>2, <1>3, <1>7, <1>8 DEF q, s

LEMMA GoesInv ==
    ASSUME InCall, NEW f, NEW fd, NEW log, Follows(f, fd)
    PROVE  Inv(commands, Append(Others, Going(f, fd, log)))
  <1>1. ProcessInv(commands, procs, Len(procs), Going(f, fd, log))
    BY GoingInv
  <1> QED  BY <1>1, Replaced DEF InCall

\* The process calls the command at path p from frame f.
LEMMA CallsInv ==
    ASSUME InCall, NEW f, NEW fd, NEW log, Follows(f, fd), NEW p,
           FrameInv(commands, NewFrame(p, fd), fd), Len(p) > Len(F.path)
    PROVE  Inv(commands, Append(Others, Process(fd, Callers \o <<f, NewFrame(p, fd)>>, P.ret, log)))
  <1> DEFINE n == Len(procs)
             q == Going(f, fd, log)
             new == NewFrame(p, fd)
             s == Callers \o <<f, new>>
             r == Process(fd, s, P.ret, log)
  <1>1. n \in Nat /\ ProcessInv(commands, procs, n, q) /\ IsProcess(q) /\ q.fd = fd /\ q.frames # <<>>
        /\ Top(q) = f /\ q.frames = Append(Callers, f)
    BY GoingInv, RunningProcess DEF InCall
  <1>2. IsSeq(Callers)
    BY RunningCall
  <1>3. /\ IsSeq(s) /\ Len(s) = Len(Callers) + 2
        /\ \A i \in 1 .. Len(Callers) : s[i] = Callers[i]
        /\ s[Len(Callers) + 1] = f /\ s[Len(Callers) + 2] = new
    BY <1>2, SeqTwoMore
  <1>4. IsProcess(r) /\ r.fd = fd /\ r.frames = s
    <2>1. r = Process(fd, s, P.ret, log) /\ IsSeq(s)
      BY <1>3
    <2> HIDE DEF r, s
    <2> QED  BY ONLY <2>1, NewProcess
  <1>5. new.pc = "call" /\ new.entry = fd /\ new.path = p
    BY DEF NewFrame
  <1>6. FrameInv(commands, new, fd)
    OBVIOUS
  <1>0. Len(procs) = n
    OBVIOUS
  <1> HIDE DEF q, new, s, r, n
  <1>7. /\ Len(q.frames) = Len(Callers) + 1 /\ Len(Callers) \in Nat
        /\ \A i \in 1 .. Len(Callers) : q.frames[i] = Callers[i]
        /\ q.frames[Len(Callers) + 1] = f
    BY <1>1, <1>2, SeqAppend, SeqFacts
  <1>8. Pushes(q, r, new)
    <2>1. /\ Len(Callers) + 1 + 1 = Len(Callers) + 2
          /\ \A k \in 1 .. Len(Callers) + 1 : k \in 1 .. Len(Callers) \/ k = Len(Callers) + 1
      BY <1>7
    <2>2. \A k \in 1 .. Len(Callers) + 1 : s[k] = q.frames[k]
      BY <2>1, <1>3, <1>7
    <2> QED  BY <2>1, <2>2, <1>1, <1>3, <1>4, <1>7 DEF Pushes
  <1>9. Len(new.path) > Len(Top(q).path)
    BY <1>1, <1>5 DEF Follows
  <1>10. ProcessInv(commands, procs, n, r)
    BY <1>1, <1>4, <1>5, <1>6, <1>8, <1>9, PushesInv
  <1>11. Inv(commands, Append(Others, r))
    BY <1>0, <1>10, Replaced DEF InCall
  <1> QED  BY <1>11 DEF r, s, new


\* Frame g is frame f at pc, with other descriptors to put back.
Has(g, f, pc, fds, pipefd) ==
    /\ IsFrame(g)
    /\ g.path = f.path /\ g.entry = f.entry
    /\ g.pc = pc /\ g.fds = fds /\ g.pipefd = pipefd

LEMMA FrameSet ==
    ASSUME NEW f, IsFrame(f), NEW pc, NEW x, NEW y, NEW fds, fds = [i \in 0 .. 3 |-> fds[i]]
    PROVE  /\ Has(f, f, f.pc, f.fds, f.pipefd)
           /\ Has([f EXCEPT !.ret = x], f, f.pc, f.fds, f.pipefd)
           /\ Has([f EXCEPT !.left = x], f, f.pc, f.fds, f.pipefd)
           /\ Has([f EXCEPT !.pc = pc], f, pc, f.fds, f.pipefd)
           /\ Has([f EXCEPT !.pc = pc, !.left = x], f, pc, f.fds, f.pipefd)
           /\ Has([f EXCEPT !.pc = pc, !.last = x], f, pc, f.fds, f.pipefd)
           /\ Has([f EXCEPT !.ret = x, !.pc = pc], f, pc, f.fds, f.pipefd)
           /\ Has([f EXCEPT !.pc = pc, !.fds = fds], f, pc, fds, f.pipefd)
           /\ Has([[f EXCEPT !.pipefd = x] EXCEPT !.pc = pc], f, pc, f.fds, x)
           /\ Has([[f EXCEPT !.pipefd = x] EXCEPT !.pc = pc, !.fds[0] = y], f, pc,
                  [f.fds EXCEPT ![0] = y], x)
  <1>1. PICK path, at, ret, last, was, pipefd, left, entry :
          f = [path |-> path, pc |-> at, ret |-> ret, last |-> last, fds |-> was,
               pipefd |-> pipefd, left |-> left, entry |-> entry]
    BY DEF IsFrame
  <1>2. /\ path \in Seq(Nat) /\ path # <<>> /\ was = [i \in 0 .. 3 |-> was[i]]
    <2>1. f.path = path /\ f.fds = was
      BY <1>1
    <2>2. f.path \in Seq(Nat) /\ f.path # <<>> /\ f.fds = [i \in 0 .. 3 |-> f.fds[i]]
      BY DEF IsFrame
    <2> QED  BY ONLY <2>1, <2>2
  <1> DEFINE Rec(p, r, l, s, e, m) ==
               [path |-> path, pc |-> p, ret |-> r, last |-> l, fds |-> s,
                pipefd |-> e, left |-> m, entry |-> entry]
  <1>3. ASSUME NEW p, NEW r, NEW l, NEW s, s = [i \in 0 .. 3 |-> s[i]], NEW e, NEW m
        PROVE  Has(Rec(p, r, l, s, e, m), f, p, s, e)
    <2> DEFINE g == Rec(p, r, l, s, e, m)
    <2>1. /\ g.path = path /\ g.pc = p /\ g.ret = r /\ g.last = l /\ g.fds = s /\ g.pipefd = e
          /\ g.left = m /\ g.entry = entry /\ f.path = path /\ f.entry = entry
      BY <1>1
    <2>2. g = [path |-> g.path, pc |-> g.pc, ret |-> g.ret, last |-> g.last, fds |-> g.fds,
               pipefd |-> g.pipefd, left |-> g.left, entry |-> g.entry]
      OBVIOUS
    <2> HIDE DEF g
    <2>3. IsFrame(g)
      BY ONLY <2>1, <2>2, <1>2, <1>3 DEF IsFrame
    <2>4. Has(g, f, p, s, e)
      BY ONLY <2>1, <2>3 DEF Has
    <2> QED  BY ONLY <2>4 DEF g
  <1>4. f.pc = at /\ f.fds = was /\ f.pipefd = pipefd
    BY ONLY <1>1
  <1>5. [was EXCEPT ![0] = y] = [i \in 0 .. 3 |-> [was EXCEPT ![0] = y][i]]
    BY ONLY <1>2
  <1>6. Has(f, f, f.pc, f.fds, f.pipefd)
    <2>1. f = Rec(at, ret, last, was, pipefd, left)
      BY ONLY <1>1
    <2> HIDE DEF Rec
    <2> QED  BY ONLY <2>1, <1>2, <1>3, <1>4, <1>5
  <1>7. Has([f EXCEPT !.ret = x], f, f.pc, f.fds, f.pipefd)
    <2>1. [f EXCEPT !.ret = x] = Rec(at, x, last, was, pipefd, left)
      BY ONLY <1>1
    <2> HIDE DEF Rec
    <2>2. Has([f EXCEPT !.ret = x], f, at, was, pipefd)
      BY ONLY <2>1, <1>2, <1>3
    <2> QED  BY ONLY <2>2, <1>4
  <1>8. Has([f EXCEPT !.left = x], f, f.pc, f.fds, f.pipefd)
    <2>1. [f EXCEPT !.left = x] = Rec(at, ret, last, was, pipefd, x)
      BY ONLY <1>1
    <2> HIDE DEF Rec
    <2>2. Has([f EXCEPT !.left = x], f, at, was, pipefd)
      BY ONLY <2>1, <1>2, <1>3
    <2> QED  BY ONLY <2>2, <1>4
  <1>9. Has([f EXCEPT !.pc = pc], f, pc, f.fds, f.pipefd)
    <2>1. [f EXCEPT !.pc = pc] = Rec(pc, ret, last, was, pipefd, left)
      BY ONLY <1>1
    <2> HIDE DEF Rec
    <2> QED  BY ONLY <2>1, <1>2, <1>3, <1>4, <1>5
  <1>10. Has([f EXCEPT !.pc = pc, !.left = x], f, pc, f.fds, f.pipefd)
    <2>1. [f EXCEPT !.pc = pc] = Rec(pc, ret, last, was, pipefd, left)
      BY ONLY <1>1
    <2>2. [Rec(pc, ret, last, was, pipefd, left) EXCEPT !.left = x]
            = Rec(pc, ret, last, was, pipefd, x)
      OBVIOUS
    <2> HIDE DEF Rec
    <2>3. [f EXCEPT !.pc = pc, !.left = x]
            = Rec(pc, ret, last, was, pipefd, x)
      BY ONLY <2>1, <2>2
    <2> QED  BY ONLY <2>3, <1>2, <1>3, <1>4, <1>5, fds = [i \in 0 .. 3 |-> fds[i]]
  <1>11. Has([f EXCEPT !.pc = pc, !.last = x], f, pc, f.fds, f.pipefd)
    <2>1. [f EXCEPT !.pc = pc] = Rec(pc, ret, last, was, pipefd, left)
      BY ONLY <1>1
    <2>2. [Rec(pc, ret, last, was, pipefd, left) EXCEPT !.last = x]
            = Rec(pc, ret, x, was, pipefd, left)
      OBVIOUS
    <2> HIDE DEF Rec
    <2>3. [f EXCEPT !.pc = pc, !.last = x]
            = Rec(pc, ret, x, was, pipefd, left)
      BY ONLY <2>1, <2>2
    <2> QED  BY ONLY <2>3, <1>2, <1>3, <1>4, <1>5, fds = [i \in 0 .. 3 |-> fds[i]]
  <1>12. Has([f EXCEPT !.ret = x, !.pc = pc], f, pc, f.fds, f.pipefd)
    <2>1. [f EXCEPT !.ret = x] = Rec(at, x, last, was, pipefd, left)
      BY ONLY <1>1
    <2>2. [Rec(at, x, last, was, pipefd, left) EXCEPT !.pc = pc]
            = Rec(pc, x, last, was, pipefd, left)
      OBVIOUS
    <2> HIDE DEF Rec
    <2>3. [f EXCEPT !.ret = x, !.pc = pc]
            = Rec(pc, x, last, was, pipefd, left)
      BY ONLY <2>1, <2>2
    <2> QED  BY ONLY <2>3, <1>2, <1>3, <1>4, <1>5, fds = [i \in 0 .. 3 |-> fds[i]]
  <1>13. Has([f EXCEPT !.pc = pc, !.fds = fds], f, pc, fds, f.pipefd)
    <2>1. [f EXCEPT !.pc = pc] = Rec(pc, ret, last, was, pipefd, left)
      BY ONLY <1>1
    <2>2. [Rec(pc, ret, last, was, pipefd, left) EXCEPT !.fds = fds]
            = Rec(pc, ret, last, fds, pipefd, left)
      OBVIOUS
    <2> HIDE DEF Rec
    <2>3. [f EXCEPT !.pc = pc, !.fds = fds]
            = Rec(pc, ret, last, fds, pipefd, left)
      BY ONLY <2>1, <2>2
    <2> QED  BY ONLY <2>3, <1>2, <1>3, <1>4, <1>5, fds = [i \in 0 .. 3 |-> fds[i]]
  <1>14. Has([[f EXCEPT !.pipefd = x] EXCEPT !.pc = pc], f, pc, f.fds, x)
    <2>1. [f EXCEPT !.pipefd = x] = Rec(at, ret, last, was, x, left)
      BY ONLY <1>1
    <2>2. [Rec(at, ret, last, was, x, left) EXCEPT !.pc = pc]
            = Rec(pc, ret, last, was, x, left)
      OBVIOUS
    <2> HIDE DEF Rec
    <2>3. [[f EXCEPT !.pipefd = x] EXCEPT !.pc = pc]
            = Rec(pc, ret, last, was, x, left)
      BY ONLY <2>1, <2>2
    <2> QED  BY ONLY <2>3, <1>2, <1>3, <1>4, <1>5, fds = [i \in 0 .. 3 |-> fds[i]]
  <1>15. Has([[f EXCEPT !.pipefd = x] EXCEPT !.pc = pc, !.fds[0] = y], f, pc, [f.fds EXCEPT ![0] = y], x)
    <2>1. [f EXCEPT !.pipefd = x] = Rec(at, ret, last, was, x, left)
      BY ONLY <1>1
    <2>2. [Rec(at, ret, last, was, x, left) EXCEPT !.pc = pc]
            = Rec(pc, ret, last, was, x, left)
      OBVIOUS
    <2>3. [Rec(pc, ret, last, was, x, left) EXCEPT !.fds[0] = y]
            = Rec(pc, ret, last, [was EXCEPT ![0] = y], x, left)
      OBVIOUS
    <2> HIDE DEF Rec
    <2>4. [[f EXCEPT !.pipefd = x] EXCEPT !.pc = pc, !.fds[0] = y]
            = Rec(pc, ret, last, [was EXCEPT ![0] = y], x, left)
      BY ONLY <2>1, <2>2, <2>3
    <2> QED  BY ONLY <2>4, <1>2, <1>3, <1>4, <1>5, fds = [i \in 0 .. 3 |-> fds[i]]
  <1> QED  BY ONLY <1>6, <1>7, <1>8, <1>9, <1>10, <1>11, <1>12, <1>13, <1>14, <1>15

\* What holds of a frame holds of one that differs in nothing it depends on.
LEMMA FrameSame ==
    ASSUME NEW cs, NEW f, NEW fd, FrameInv(cs, f, fd), NEW g, Has(g, f, f.pc, f.fds, f.pipefd)
    PROVE  FrameInv(cs, g, fd)
  <1>1. /\ g.path = f.path /\ g.pc = f.pc /\ g.entry = f.entry /\ g.fds = f.fds
        /\ g.pipefd = f.pipefd /\ IsFrame(g)
    BY DEF Has
  <1>2. \A h : PipeRestored(h, g) = PipeRestored(h, f)
    BY <1>1 DEF PipeRestored
  <1> QED  BY <1>1, <1>2 DEF FrameInv, Slots, Leaving, Stream, Piping, Looping

\* execute_command returns.
Returning(st, fd, log) ==
    IF Callers = <<>> THEN Process(fd, <<>>, st, log)
    ELSE Process(fd, [Callers EXCEPT ![Len(Callers)].ret = st], P.ret, log)

LEMMA ReturnsInv ==
    ASSUME InCall, F.pc \notin Final, NEW st, NEW fd, fd = Leaving(commands, F, P.fd), NEW log
    PROVE  fd = F.entry /\ Inv(commands, Append(Others, Returning(st, fd, log)))
  <1> DEFINE n == Len(procs)
             m == Len(P.frames)
             q == Process(fd, Callers, st, log)
             e == [Callers[Len(Callers)] EXCEPT !.ret = st]
             s == [Callers EXCEPT ![Len(Callers)] = e]
             r == Process(fd, s, P.ret, log)
  <1>1. /\ n \in Nat /\ n >= 1 /\ ProcessInv(commands, procs, n, P)
        /\ m \in Nat /\ m >= 1 /\ F = Top(P)
        /\ IsSeq(Callers) /\ Len(Callers) = m - 1
        /\ \A k \in 1 .. m - 1 : Callers[k] = P.frames[k]
    BY RunningProcess, RunningCall DEF InCall
  <1>2. fd = F.entry
    BY RunningCall DEF FrameInv
  <1>3. IsProcess(q) /\ q.fd = fd /\ q.frames = Callers
    <2>1. q = Process(fd, Callers, st, log)
      OBVIOUS
    <2> HIDE DEF q
    <2> QED  BY ONLY <1>1, <2>1, NewProcess
  <1>0. Len(procs) = n /\ Len(P.frames) = m
    OBVIOUS
  <1> HIDE DEF q, n, m
  <1>4. Pops(P, q)
    BY <1>0, <1>1, <1>2, <1>3 DEF Pops
  <1>5. ProcessInv(commands, procs, n, q)
    BY <1>0, <1>1, <1>4, PopsInv
  <1>6. CASE Callers = <<>>
    <2>1. Returning(st, fd, log) = q
      BY <1>6 DEF Returning, q
    <2> QED  BY <1>0, <1>2, <1>5, <2>1, Replaced DEF InCall
  <1>7. CASE Callers # <<>>
    <2>1. Returning(st, fd, log) = r
      BY <1>7 DEF Returning
    <2>2. Len(Callers) \in 1 .. Len(Callers)
      BY <1>1, <1>7, SeqFacts
    <2>3. /\ IsSeq(s) /\ Len(s) = Len(Callers) /\ s[Len(Callers)] = e
          /\ \A i \in 1 .. Len(Callers) : i # Len(Callers) => s[i] = Callers[i]
      <3>1. s = Changed(Callers, Len(Callers), e)
        BY DEF Changed
      <3> HIDE DEF s, e
      <3>2. IsSeq(Callers)
        BY <1>1
      <3> QED  BY ONLY <3>1, <3>2, <2>2, SeqChanged
    <2>4. IsProcess(r) /\ r.fd = fd /\ r.frames = s
      <3>1. r = Process(fd, s, P.ret, log)
        OBVIOUS
      <3> HIDE DEF r, s
      <3> QED  BY ONLY <2>3, <3>1, NewProcess
    <2>5. e = [Callers[Len(Callers)] EXCEPT !.ret = st]
      OBVIOUS
    <2> HIDE DEF r, s, e
    <2>6. /\ Top(q) = Callers[Len(Callers)] /\ q.fd = fd
          /\ FrameInv(commands, Top(q), fd) /\ Len(q.frames) = Len(Callers)
      BY <1>3, <1>5, <2>2 DEF Top, Under, ProcessInv
    <2>7. Has(e, Top(q), Top(q).pc, Top(q).fds, Top(q).pipefd) /\ FrameInv(commands, e, fd)
      <3>1. IsFrame(Top(q)) /\ Top(q).fds = [i \in 0 .. 3 |-> Top(q).fds[i]]
        BY <2>6 DEF FrameInv, IsFrame
      <3>2. e = [Top(q) EXCEPT !.ret = st]
        BY <2>5, <2>6
      <3>3. Has(e, Top(q), Top(q).pc, Top(q).fds, Top(q).pipefd)
        BY <3>1, <3>2, FrameSet
      <3> QED  BY <2>6, <3>3, FrameSame
    <2>8. Stays(q, r, e, fd)
      <3>1. /\ Len(Callers) >= 1 /\ s[Len(Callers)] = e
            /\ \A k \in 1 .. Len(Callers) - 1 : s[k] = Callers[k]
        BY <2>2, <2>3
      <3> QED  BY <3>1, <1>3, <2>3, <2>4, <2>6 DEF Stays
    <2>9. Adds(q.fd, fd)
      BY <1>3 DEF Adds
    <2>10. ProcessInv(commands, procs, n, r)
      BY <1>1, <1>5, <2>7, <2>8, <2>9, StaysInv DEF Has
    <2> QED  BY <1>0, <1>2, <2>1, <2>10, Replaced DEF InCall
  <1> QED  BY <1>6, <1>7

\* execvp.
LEMMA ExecInv ==
    ASSUME InCall, NEW f, NEW fd, NEW ret, NEW log,
           f.path = F.path, f.pc = "program", FrameInv(commands, f, fd), Adds(P.fd, fd)
    PROVE  Inv(commands, Append(Others, Process(fd, <<f>>, ret, log)))
  <1> DEFINE q == Process(fd, <<f>>, ret, log)
             s == <<f>>
  <1>1. IsSeq(s)
    BY SeqSingle
  <1>2. IsProcess(q) /\ q.fd = fd /\ q.frames = s
    <2>1. q = Process(fd, s, ret, log)
      OBVIOUS
    <2> HIDE DEF q, s
    <2> QED  BY ONLY <1>1, <2>1, NewProcess
  <1>3. Len(procs) \in Nat /\ ProcessInv(commands, procs, Len(procs), P) /\ P.frames # <<>> /\ F = Top(P)
    BY RunningProcess, RunningCall DEF InCall
  <1> HIDE DEF q
  <1>4. ProcessInv(commands, procs, Len(procs), q)
    BY <1>2, <1>3, BecomesInv
  <1> QED  BY <1>4, Replaced DEF InCall, q

\* fork: a child in frame f with descriptors cfd, its parent in frame g.
LEMMA ForksInv ==
    ASSUME InCall, NEW f, NEW cfd, NEW g, NEW pfd, NEW log, Follows(g, pfd), g.pc = "wait",
           f.path = F.path, f.pc \in Final, FrameInv(commands, f, cfd),
           \A e \in Fds : IsWriteEnd(cfd[e]) =>
                            cfd[e][2] = f.path \/ \E x \in Fds : cfd[e] = P.fd[x]
    PROVE  Inv(commands, Others \o <<Process(pfd, Append(Callers, g), P.ret, P.log),
                                     Process(cfd, <<f>>, 0, log)>>)
  <1> DEFINE n == Len(procs)
             q == Going(g, pfd, P.log)
             c == Process(cfd, <<f>>, 0, log)
             s == <<f>>
             qs == Others \o <<q, c>>
  <1>1. /\ n \in Nat /\ n >= 1 /\ ProcessInv(commands, procs, n, P)
        /\ IsSeq(Others) /\ Len(Others) = n - 1 /\ F = Top(P) /\ P.frames # <<>>
        /\ \A i \in 1 .. n - 1 : Others[i] = procs[i]
    BY RunningProcess, RunningCall DEF InCall
  <1>2. /\ ProcessInv(commands, procs, n, q)
        /\ IsProcess(q) /\ q.fd = pfd /\ q.frames # <<>> /\ Top(q) = g
    BY GoingInv
  <1>3. /\ IsSeq(qs) /\ Len(qs) = Len(Others) + 2
        /\ \A i \in 1 .. Len(Others) : qs[i] = Others[i]
        /\ qs[Len(Others) + 1] = q /\ qs[Len(Others) + 2] = c
    BY <1>1, SeqTwoMore
  <1>4. IsProcess(c) /\ c.fd = cfd /\ c.frames = <<f>>
    <2>1. c = Process(cfd, s, 0, log)
      OBVIOUS
    <2>2. IsSeq(s)
      BY SeqSingle
    <2> HIDE DEF c, s
    <2>3. IsProcess(c) /\ c.fd = cfd /\ c.frames = s
      BY ONLY <2>1, <2>2, NewProcess
    <2> QED  BY <2>3 DEF s
  <1>5. qs = Others \o <<Process(pfd, Append(Callers, g), P.ret, P.log), Process(cfd, <<f>>, 0, log)>>
    BY DEF Going
  <1>0. Len(procs) = n
    OBVIOUS
  <1> HIDE DEF n, q, c, qs
  <1>6. /\ Len(qs) = n + 1 /\ qs[n] = q /\ qs[n + 1] = c
        /\ \A i \in 1 .. n - 1 : qs[i] = procs[i]
    <2>1. n - 1 + 1 = n /\ n - 1 + 2 = n + 1
      BY <1>1
    <2> QED  BY <1>1, <1>3, <2>1
  <1>7. Waits(qs[n]) /\ Top(qs[n]).path = Top(P).path
    BY <1>1, <1>2, <1>6 DEF Waits, Follows
  <1>8. ProcessInv(commands, qs, n + 1, c)
    <2>1. f.path = Top(P).path
      BY <1>1
    <2>2. /\ \A j \in 1 .. n - 1 : qs[j] = procs[j]
          /\ Top(qs[n]).path = Top(P).path
      BY <1>6, <1>7
    <2>3. IsProcess(c) /\ Len(c.frames) = 1 /\ c.frames[1] = f
      BY <1>4, SeqSingle
    <2>4. /\ c.frames[1].path = Top(P).path /\ c.frames[1].pc \in Final
          /\ FrameInv(commands, c.frames[1], c.fd)
          /\ \A e \in Fds : IsWriteEnd(c.fd[e]) =>
                             c.fd[e][2] = c.frames[1].path \/ \E x \in Fds : c.fd[e] = P.fd[x]
      BY <1>4, <2>1, <2>3
    <2>6. n \in Nat /\ n >= 1 /\ ProcessInv(commands, procs, n, P) /\ P.frames # <<>>
      BY <1>1
    <2>7. Forked(commands, procs, n, P, qs, n + 1, c)
      BY <2>2, <2>3, <2>4, <2>6 DEF Forked
    <2> QED  BY ONLY <2>7, ChildInv
  <1>9. Inv(commands, qs)
    <2>1. /\ Inv(commands, procs) /\ IsSeq(qs) /\ Len(qs) = Len(procs) + 1
          /\ \A i \in 1 .. Len(procs) - 1 : qs[i] = procs[i]
          /\ ProcessInv(commands, procs, Len(procs), qs[Len(procs)]) /\ Waits(qs[Len(procs)])
          /\ ProcessInv(commands, qs, Len(procs) + 1, qs[Len(procs) + 1])
      BY <1>0, <1>2, <1>3, <1>6, <1>7, <1>8 DEF InCall
    <2> QED  BY ONLY <2>1, ForkInv
  <1> QED  BY <1>5, <1>9

\* The parent's waitpid returns.
LEMMA WaitedFrame ==
    ASSUME NEW cs, NEW f, NEW fd, FrameInv(cs, f, fd), f.pc = "wait",
           NEW g, Has(g, f, "waited", f.fds, f.pipefd)
    PROVE  FrameInv(cs, g, fd)
  <1>1. /\ g.path = f.path /\ g.pc = "waited" /\ g.entry = f.entry /\ g.fds = f.fds
        /\ g.pipefd = f.pipefd /\ IsFrame(g)
    BY DEF Has
  <1>2. \A h : PipeRestored(h, g) = PipeRestored(h, f)
    BY <1>1 DEF PipeRestored
  <1>3. /\ "waited" \notin Final /\ "wait" \notin Final
        /\ ~Looping(f) /\ ~Looping(g) /\ (Piping(cs, f) <=> Piping(cs, g))
    BY <1>1 DEF Final, Lefts, Looping, Piping
  <1>4. \A h : Leaving(cs, g, h) = Leaving(cs, f, h)
    BY <1>2, <1>3 DEF Leaving
  <1>5. Slots(cs, g) /\ PcFits(g.pc, CommandAt(cs, g.path).type)
    BY <1>1, <1>3 DEF FrameInv, Slots, PcFits
  <1>6. \A d \in {0, 1} : Stream(cs, g, d, fd[d])
    BY <1>1, <1>3 DEF FrameInv, Stream, Lefts
  <1> QED  BY <1>1, <1>3, <1>4, <1>5, <1>6 DEF FrameInv

LEMMA ExitsInv ==
    ASSUME InCall, Others # <<>>, NEW st
    PROVE  LET n == Len(Others) m == Len(Others[n].frames) IN
           Inv(commands, [Others EXCEPT ![n].frames[m].ret = st, ![n].frames[m].pc = "waited"])
  <1> DEFINE n == Len(Others)
             o == Others[n]
             m == Len(Others[n].frames)
             fs == o.frames
             g1 == [fs[m] EXCEPT !.ret = st]
             g == [g1 EXCEPT !.pc = "waited"]
             t1 == [fs EXCEPT ![m] = g1]
             t == [t1 EXCEPT ![m] = g]
             q1 == Process(o.fd, t1, o.ret, o.log)
             q == Process(o.fd, t, o.ret, o.log)
             s1 == [Others EXCEPT ![n] = q1]
             s == [s1 EXCEPT ![n] = q]
  <1>1. /\ n \in Nat /\ n >= 1 /\ IsSeq(Others) /\ n = Len(procs) - 1
        /\ \A i \in 1 .. n : Others[i] = procs[i]
        /\ Len(procs) \in Nat
    BY RunningProcess, SeqFacts DEF InCall
  <1>2. /\ o = procs[n] /\ ProcessInv(commands, procs, n, o) /\ Waits(o)
    BY <1>1 DEF Inv, InCall
  <1>3. /\ IsProcess(o) /\ o = Process(o.fd, fs, o.ret, o.log) /\ IsSeq(fs) /\ m = Len(fs)
        /\ m \in 1 .. Len(fs) /\ Top(o) = fs[m] /\ fs[m].pc = "wait" /\ Len(o.frames) = m
    <2>1. IsProcess(o) /\ o.frames # <<>> /\ Top(o).pc = "wait"
      BY <1>2 DEF ProcessInv, Waits
    <2>2. o = Process(o.fd, o.frames, o.ret, o.log) /\ IsSeq(o.frames)
      BY <2>1 DEF IsProcess
    <2>3. Len(o.frames) \in 1 .. Len(o.frames)
      BY <2>1, ProcessFacts
    <2> QED  BY <2>1, <2>2, <2>3 DEF Top
  <1>4. FrameInv(commands, fs[m], o.fd)
    <2>1. Under(o, m) = o.fd
      BY <1>3 DEF Under
    <2> QED  BY <1>2, <1>3, <2>1 DEF ProcessInv
  <1>5. Has(g, fs[m], "waited", fs[m].fds, fs[m].pipefd)
    <2>1. g = [fs[m] EXCEPT !.ret = st, !.pc = "waited"]
      OBVIOUS
    <2>2. IsFrame(fs[m]) /\ fs[m].fds = [i \in 0 .. 3 |-> fs[m].fds[i]]
      BY <1>4 DEF FrameInv, IsFrame
    <2> DEFINE fm == fs[m]
    <2> HIDE DEF g, fm
    <2>3. g = [fm EXCEPT !.ret = st, !.pc = "waited"] /\ IsFrame(fm) /\ fm.fds = [i \in 0 .. 3 |-> fm.fds[i]]
      BY <2>1, <2>2 DEF fm
    <2>4. Has(g, fm, "waited", fm.fds, fm.pipefd)
      BY ONLY <2>3, FrameSet
    <2> QED  BY <2>4 DEF fm
  <1>6. FrameInv(commands, g, o.fd)
    BY <1>3, <1>4, <1>5, WaitedFrame
  <1>7. [Others EXCEPT ![n].frames[m].ret = st, ![n].frames[m].pc = "waited"] = s
    <2>1. [Others EXCEPT ![n].frames[m].ret = st] = s1
      <3>1. [o EXCEPT !.frames = t1] = q1
        <4> HIDE DEF fs, t1, o
        <4> QED  BY <1>3 DEF Process
      <3>2. [Others EXCEPT ![n].frames[m].ret = st] = [Others EXCEPT ![n] = [o EXCEPT !.frames = t1]]
        OBVIOUS
      <3> QED  BY <3>1, <3>2
    <2>2. s1[n] = q1 /\ q1.frames = t1 /\ t1[m] = g1
      <3>1. s1 = Changed(Others, n, q1) /\ t1 = Changed(fs, m, g1) /\ n \in 1 .. n /\ n = Len(Others)
        BY <1>1 DEF Changed
      <3>2. q1.frames = t1
        BY DEF Process
      <3> HIDE DEF s1, q1, t1, g1, fs, n, m
      <3> QED  BY ONLY <1>1, <1>3, <3>1, <3>2, SeqChanged
    <2>3. [s1 EXCEPT ![n].frames[m].pc = "waited"] = s
      <3>1. [q1 EXCEPT !.frames = t] = q
        <4> HIDE DEF fs, t1, o, t
        <4> QED  BY DEF Process
      <3>2. [s1 EXCEPT ![n].frames[m].pc = "waited"]
              = [s1 EXCEPT ![n] = [s1[n] EXCEPT !.frames = [s1[n].frames EXCEPT ![m] =
                                    [s1[n].frames[m] EXCEPT !.pc = "waited"]]]]
        OBVIOUS
      <3> HIDE DEF q1, s1, t1, g1
      <3> QED  BY <2>2, <3>1, <3>2
    <2> HIDE DEF s1, s
    <2> QED  BY <2>1, <2>3
  <1>8. /\ IsSeq(s) /\ Len(s) = n /\ s[n] = q /\ \A i \in 1 .. n - 1 : s[i] = procs[i]
    <2>1. s1 = Changed(Others, n, q1) /\ s = Changed(s1, n, q) /\ n = Len(Others)
      BY DEF Changed
    <2> HIDE DEF s1, s, q, q1, n
    <2>2. n \in 1 .. n
      BY <1>1
    <2>3. IsSeq(s1) /\ Len(s1) = n /\ \A i \in 1 .. n : i # n => s1[i] = Others[i]
      <3>1. IsSeq(Others) /\ n \in 1 .. Len(Others)
        BY <1>1, <2>1, <2>2
      <3>2. LET u == Changed(Others, n, q1) IN
            IsSeq(u) /\ Len(u) = Len(Others) /\ \A i \in 1 .. Len(Others) : i # n => u[i] = Others[i]
        BY ONLY <3>1, SeqChanged
      <3> QED  BY <2>1, <3>2
    <2>4. IsSeq(s) /\ Len(s) = n /\ s[n] = q /\ \A i \in 1 .. n : i # n => s[i] = s1[i]
      BY ONLY <2>1, <2>2, <2>3, SeqChanged
    <2>5. \A i \in 1 .. n - 1 : i \in 1 .. n /\ i # n
      BY <1>1
    <2> QED  BY ONLY <1>1, <2>3, <2>4, <2>5
  <1>9. Stays(o, q, g, o.fd)
    <2>1. IsSeq(t1) /\ Len(t1) = m /\ \A i \in 1 .. m : i # m => t1[i] = fs[i]
      <3>1. t1 = Changed(fs, m, g1)
        BY DEF Changed
      <3> HIDE DEF t1, fs, g1, m
      <3> QED  BY ONLY <3>1, <1>3, SeqChanged
    <2>2. IsSeq(t) /\ Len(t) = m /\ t[m] = g /\ \A i \in 1 .. m : i # m => t[i] = t1[i]
      <3>1. t = Changed(t1, m, g)
        BY DEF Changed
      <3> HIDE DEF t1, t, fs, g, m
      <3> QED  BY ONLY <3>1, <2>1, <1>3, SeqChanged
    <2>3. IsProcess(q) /\ q.fd = o.fd /\ q.frames = t
      <3>1. q = Process(o.fd, t, o.ret, o.log)
        OBVIOUS
      <3> HIDE DEF q, t, o
      <3> QED  BY ONLY <2>2, <3>1, NewProcess
    <2> HIDE DEF q, t, t1, g, g1, m
    <2> QED  BY <1>3, <2>1, <2>2, <2>3 DEF Stays
  <1>10. ProcessInv(commands, procs, n, q)
    <2>1. Adds(o.fd, o.fd)
      BY DEF Adds
    <2>2. "waited" \notin Final /\ "waited" \notin Lefts /\ "wait" \notin Final
      BY DEF Final, Lefts
    <2> HIDE DEF q, g, o, n
    <2> QED  BY <1>1, <1>2, <1>3, <1>5, <1>6, <1>9, <2>1, <2>2, StaysInv DEF Has
  <1>11. Inv(commands, s)
    <2> HIDE DEF s, q, n
    <2>1. Len(s) >= 1 /\ Len(s) <= Len(procs)
      BY <1>1, <1>8
    <2> QED  BY <1>8, <1>10, <2>1, ReplaceInv DEF InCall
  <1> QED  BY <1>7, <1>11

-----------------------------------------------------------------------------
(* Calls, as they go on. *)

\* A call that goes on with the descriptors it has, and keeps those it is to
\* put back.
SameKind(cs, f, g) ==
    /\ Piping(cs, f) <=> Piping(cs, g)
    /\ Looping(f) <=> Looping(g)
    /\ f.pc \in Lefts <=> g.pc \in Lefts
    /\ f.pc \in {"subshell_end", "program"} <=> g.pc \in {"subshell_end", "program"}
    /\ f.pc \in Final => g.pc \in Final

LEMMA MovedFrame ==
    ASSUME NEW cs, NEW f, NEW fd, FrameInv(cs, f, fd), NEW g, NEW pc,
           Has(g, f, pc, f.fds, f.pipefd), SameKind(cs, f, g),
           PcFits(pc, CommandAt(cs, f.path).type)
    PROVE  FrameInv(cs, g, fd)
  <1>1. /\ g.path = f.path /\ g.pc = pc /\ g.entry = f.entry /\ g.fds = f.fds
        /\ g.pipefd = f.pipefd /\ IsFrame(g)
    BY DEF Has
  <1>2. \A h : PipeRestored(h, g) = PipeRestored(h, f)
    BY <1>1 DEF PipeRestored
  <1>3. \A h : Leaving(cs, g, h) = Leaving(cs, f, h)
    BY <1>1, <1>2 DEF Leaving, SameKind
  <1>4. Slots(cs, g) /\ PcFits(g.pc, CommandAt(cs, g.path).type)
    BY <1>1 DEF FrameInv, Slots, SameKind
  <1>5. \A d \in {0, 1} : Stream(cs, g, d, fd[d])
    BY <1>1 DEF FrameInv, Stream, SameKind
  <1> QED  BY <1>1, <1>3, <1>4, <1>5 DEF FrameInv, SameKind

\* A call that has not begun.
LEMMA NewFrameInv ==
    ASSUME NEW cs, NEW p \in Seq(Nat), p # <<>>, NEW fd, IsTable(fd),
           \A d \in {0, 1} : Around(cs, p, d, fd[d])
    PROVE  FrameInv(cs, NewFrame(p, fd), fd)
  <1> DEFINE f == NewFrame(p, fd)
  <1>1. f.path = p /\ f.pc = "call" /\ f.entry = fd /\ IsFrame(f)
    BY DEF NewFrame, IsFrame, NoFds
  <1> HIDE DEF f
  <1>2. ~Piping(cs, f) /\ ~Looping(f) /\ f.pc \notin Lefts /\ f.pc \notin {"subshell_end", "program"}
        /\ f.pc \notin Final /\ PcFits(f.pc, CommandAt(cs, f.path).type)
    BY <1>1 DEF Piping, Looping, Lefts, Final, PcFits
  <1>3. FrameInv(cs, f, fd)
    BY <1>1, <1>2 DEF FrameInv, Slots, Leaving, Stream, Around
  <1> QED  BY <1>3 DEF f

\* The streams of a call that has not redirected any.
Unredirected(cs, f) ==
    /\ ~Piping(cs, f) /\ ~Looping(f) /\ f.pc \notin Lefts /\ f.pc \notin {"subshell_end", "program"}

LEMMA UnredirectedStreams ==
    ASSUME NEW cs, NEW f, NEW fd, FrameInv(cs, f, fd), Unredirected(cs, f)
    PROVE  /\ \A d \in {0, 1} : Around(cs, f.path, d, fd[d])
           /\ f.pc \notin Final => fd = f.entry
  BY DEF FrameInv, Unredirected, Stream, Leaving, Around

\* The command that a call runs next: the left command of a pipe in the child,
\* the right one in the parent.
Runs(pc, k) ==
    \/ pc \in {"first", "second", "subshell_end", "condition", "body"}
    \/ pc = "left_end" /\ k = 1
    \/ pc = "right" /\ k = 2

LEMMA BelowInv ==
    ASSUME NEW cs, NEW f, NEW fd, FrameInv(cs, f, fd), NEW k \in Nat, Runs(f.pc, k)
    PROVE  /\ FrameInv(cs, NewFrame(Append(f.path, k), fd), fd)
           /\ Len(Append(f.path, k)) > Len(f.path)
  <1> DEFINE p == f.path
  <1>1. p \in Seq(Nat) /\ p # <<>> /\ IsTable(fd)
        /\ \A d \in {0, 1} : Stream(cs, f, d, fd[d])
        /\ PcFits(f.pc, CommandAt(cs, p).type)
    BY DEF FrameInv, IsFrame
  <1>2. Append(p, k) \in Seq(Nat) /\ Append(p, k) # <<>> /\ Len(Append(p, k)) > Len(p)
    BY <1>1, PathBelow
  <1>3. ASSUME NEW d \in {0, 1}
        PROVE  IF CommandAt(cs, p).type = "PIPE" /\ k = Side(d) THEN fd[d] = EndOf(p, d)
               ELSE StreamIs(cs, p, d, fd[d])
    <2>1. CASE f.pc \in {"first", "second"}
      <3>1. CommandAt(cs, p).type = "SEQUENCE"
        BY <1>1, <2>1 DEF PcFits
      <3>2. Stream(cs, f, d, fd[d]) => StreamIs(cs, p, d, fd[d])
        BY <2>1, <3>1 DEF Stream, Piping, Lefts, Redirects
      <3> QED  BY <1>1, <3>1, <3>2
    <2>2. CASE f.pc \in {"subshell_end", "condition", "body"}
      <3>1. CommandAt(cs, p).type # "PIPE"
        BY <1>1, <2>2 DEF PcFits
      <3>2. Stream(cs, f, d, fd[d]) => StreamIs(cs, p, d, fd[d])
        BY <2>2 DEF Stream, Piping, Lefts, Looping
      <3> QED  BY <1>1, <3>1, <3>2
    <2>3. CASE f.pc = "left_end" /\ k = 1
      <3>1. CommandAt(cs, p).type = "PIPE"
        BY <1>1, <2>3 DEF PcFits
      <3>2. CASE d = 1
        <4>1. fd[d] = PipeEnd(p, "w")
          BY <1>1, <2>3, <3>2 DEF Stream, Piping, Lefts
        <4>2. EndOf(p, d) = PipeEnd(p, "w") /\ k = Side(d)
          BY <2>3, <3>2 DEF Side, EndOf
        <4> QED  BY <3>1, <4>1, <4>2
      <3>3. CASE d = 0
        <4>1. StreamIs(cs, p, d, fd[d])
          BY <1>1, <2>3, <3>1, <3>3 DEF Stream, Piping, Redirects
        <4> QED  BY <2>3, <3>3, <4>1 DEF Side
      <3> QED  BY <3>2, <3>3
    <2>4. CASE f.pc = "right" /\ k = 2
      <3>1. CommandAt(cs, p).type = "PIPE"
        BY <1>1, <2>4 DEF PcFits
      <3>2. CASE d = 0
        <4>1. fd[d] = PipeEnd(p, "r")
          BY <1>1, <2>4, <3>1, <3>2 DEF Stream, Piping
        <4>2. EndOf(p, d) = PipeEnd(p, "r") /\ k = Side(d)
          BY <2>4, <3>2 DEF Side, EndOf
        <4> QED  BY <3>1, <4>1, <4>2
      <3>3. CASE d = 1
        <4>1. StreamIs(cs, p, d, fd[d])
          BY <1>1, <2>4, <3>1, <3>3 DEF Stream, Piping, Redirects, Lefts
        <4> QED  BY <2>4, <3>3, <4>1 DEF Side
      <3> QED  BY <3>2, <3>3
    <2> QED  BY <2>1, <2>2, <2>3, <2>4 DEF Runs
  <1> HIDE DEF p
  <1>4. \A d \in {0, 1} : Around(cs, Append(p, k), d, fd[d])
    BY <1>1, <1>3, AroundBelow
  <1>5. FrameInv(cs, NewFrame(Append(p, k), fd), fd)
    BY <1>1, <1>2, <1>4, NewFrameInv
  <1> QED  BY <1>2, <1>5 DEF p

\* A call that has made its redirections.
LEMMA RedirectedFrame ==
    ASSUME NEW cs, NEW f, NEW fd, FrameInv(cs, f, fd), Unredirected(cs, f), Room(fd),
           CommandAt(cs, f.path).type \notin {"SEQUENCE", "PIPE"},
           NEW g, NEW pc, pc \in {"subshell_end", "program", "condition"},
           PcFits(pc, CommandAt(cs, f.path).type), pc = "condition" => f.pc \notin Final,
           LET r == set_redirect(fd, f.path, CommandAt(cs, f.path)) IN
           Has(g, f, pc, IF pc = "program" THEN f.fds ELSE r.fds, f.pipefd)
    PROVE  LET r == set_redirect(fd, f.path, CommandAt(cs, f.path)) IN
           FrameInv(cs, g, r.fd) /\ Adds(fd, r.fd)
  <1> DEFINE c == CommandAt(cs, f.path)
             r == set_redirect(fd, f.path, c)
  <1>1. IsTable(fd) /\ f.path \in Seq(Nat) /\ f.path # <<>>
    BY DEF FrameInv, IsFrame
  <1>2. /\ IsTable(r.fd) /\ Adds(fd, r.fd)
        /\ r.fds = [i \in 0 .. 3 |-> r.fds[i]]
        /\ \A d \in {0, 1} : r.fds[d + 2] < 0 \/ r.fds[d] \in Fds
        /\ \A d \in {0, 1} : r.fd[d] = IF Wanted(c, d) THEN File(f.path, How(d)) ELSE fd[d]
        /\ reset_redirect(r.fd, r.fds) = fd
    BY <1>1, SetRedirect
  <1>3. \A d \in {0, 1} : Around(cs, f.path, d, fd[d])
        /\ (f.pc \notin Final => fd = f.entry)
    BY UnredirectedStreams
  <1>4. Has(g, f, pc, IF pc = "program" THEN f.fds ELSE r.fds, f.pipefd)
    OBVIOUS
  <1>5. ASSUME NEW d \in {0, 1}
        PROVE  StreamIs(cs, f.path, d, r.fd[d])
    <2>1. StreamIs(cs, f.path, d, IF Wanted(c, d) THEN File(f.path, How(d)) ELSE fd[d])
      BY <1>1, <1>3, AroundMade
    <2>2. r.fd[d] = IF Wanted(c, d) THEN File(f.path, How(d)) ELSE fd[d]
      BY <1>2
    <2> HIDE DEF r, c
    <2> QED  BY ONLY <2>1, <2>2
  <1> HIDE DEF r
  <1>6. g.path = f.path /\ g.pc = pc /\ g.entry = f.entry /\ IsFrame(g)
        /\ (pc # "program" => g.fds = r.fds)
    BY <1>4 DEF Has
  <1>7. ~Piping(cs, g) /\ g.pc \notin Lefts /\ (g.pc = "condition" <=> Looping(g))
        /\ (g.pc = "condition" <=> g.pc \notin Final)
    BY <1>6 DEF Piping, Lefts, Looping, Final
  <1>8. Slots(cs, g)
    BY <1>2, <1>6, <1>7 DEF Slots
  <1>9. g.pc \notin Final => Leaving(cs, g, r.fd) = g.entry
    <2>1. 0 \in {0, 1}
      OBVIOUS
    <2> QED  BY <2>1, <1>2, <1>3, <1>6, <1>7 DEF Leaving
  <1>10. \A d \in {0, 1} : Stream(cs, g, d, r.fd[d])
    BY <1>5, <1>6, <1>7 DEF Stream
  <1>11. FrameInv(cs, g, r.fd)
    BY <1>2, <1>6, <1>8, <1>9, <1>10 DEF FrameInv
  <1> QED  BY <1>2, <1>11 DEF r

-----------------------------------------------------------------------------
(* The actions of the executor. *)

LEMMA AtCall ==
    ASSUME Inv(commands, procs), NEW pc, At(pc)
    PROVE  /\ InCall /\ F.pc = pc /\ Running
           /\ FrameInv(commands, F, P.fd) /\ IsFrame(F) /\ IsTable(P.fd)
           /\ F.fds = [i \in 0 .. 3 |-> F.fds[i]]
           /\ PcFits(pc, Node(F.path).type)
           /\ Node(F.path) = CommandAt(commands, F.path)
  <1>1. InCall /\ F.pc = pc /\ Running
    BY DEF At, InCall
  <1>2. FrameInv(commands, F, P.fd) /\ IsFrame(F) /\ IsTable(P.fd)
    BY <1>1, RunningCall
  <1>3. F.fds = [i \in 0 .. 3 |-> F.fds[i]]
    BY <1>2 DEF IsFrame
  <1>4. Node(F.path) = CommandAt(commands, F.path)
    BY DEF Node
  <1>5. PcFits(pc, Node(F.path).type)
    BY <1>1, <1>2, <1>4 DEF FrameInv
  <1> QED  BY <1>1, <1>2, <1>3, <1>4, <1>5

\* The call goes on at pc, with the descriptors as they are.
LEMMA MovedFollows ==
    ASSUME InCall, NEW f, NEW pc, Has(f, F, pc, F.fds, F.pipefd), SameKind(commands, F, f),
           PcFits(pc, CommandAt(commands, F.path).type)
    PROVE  Follows(f, P.fd) /\ f.pc = pc /\ f.path = F.path
  <1>1. FrameInv(commands, F, P.fd)
    BY RunningCall
  <1>2. FrameInv(commands, f, P.fd)
    BY <1>1, MovedFrame
  <1>3. Adds(P.fd, P.fd)
    BY DEF Adds
  <1> QED  BY <1>2, <1>3 DEF Follows, Has, SameKind

\* It calls the next command there.
LEMMA CallStep ==
    ASSUME InCall, NEW f, NEW fd, Follows(f, fd), NEW k \in Nat, Runs(f.pc, k),
           NEW log, LogsAndGoesTo(log, f, fd, Append(F.path, k))
    PROVE  Inv(commands, procs')
  <1>1. FrameInv(commands, f, fd) /\ f.path = F.path
    BY DEF Follows
  <1>2. /\ FrameInv(commands, NewFrame(Append(F.path, k), fd), fd)
        /\ Len(Append(F.path, k)) > Len(F.path)
    BY <1>1, BelowInv
  <1>3. Inv(commands, Append(Others, Process(fd, Callers \o <<f, NewFrame(Append(F.path, k), fd)>>, P.ret, log)))
    BY <1>2, CallsInv
  <1> QED  BY <1>3 DEF LogsAndGoesTo

LEMMA SequenceStep ==
    ASSUME Inv(commands, procs), Sequence \/ SequenceSecond
    PROVE  Inv(commands, procs')
  <1>1. CASE Sequence
    <2> DEFINE f == [F EXCEPT !.pc = "first"]
    <2>1. At("call") /\ Node(F.path).type = "SEQUENCE" /\ LogsAndGoesTo(P.log, f, P.fd, Append(F.path, 1))
      BY <1>1 DEF Sequence, Calls, GoesTo
    <2>2. InCall /\ F.pc = "call" /\ CommandAt(commands, F.path).type = "SEQUENCE"
          /\ IsFrame(F) /\ F.fds = [i \in 0 .. 3 |-> F.fds[i]]
      BY <2>1, AtCall
    <2>3. Has(f, F, "first", F.fds, F.pipefd)
      BY <2>2, FrameSet
    <2> HIDE DEF f
    <2>4. SameKind(commands, F, f) /\ PcFits("first", CommandAt(commands, F.path).type)
      BY <2>2, <2>3 DEF SameKind, Piping, Looping, Lefts, Final, PcFits, Has
    <2>5. Follows(f, P.fd) /\ f.pc = "first"
      BY <2>2, <2>3, <2>4, MovedFollows
    <2>6. Runs(f.pc, 1) /\ 1 \in Nat
      BY <2>5 DEF Runs
    <2> QED  BY <2>1, <2>2, <2>5, <2>6, CallStep
  <1>2. CASE SequenceSecond
    <2> DEFINE f == [F EXCEPT !.pc = "second"]
    <2>1. At("first") /\ LogsAndGoesTo(P.log, f, P.fd, Append(F.path, 2))
      BY <1>2 DEF SequenceSecond, GoesTo
    <2>2. InCall /\ F.pc = "first" /\ PcFits("first", CommandAt(commands, F.path).type)
          /\ IsFrame(F) /\ F.fds = [i \in 0 .. 3 |-> F.fds[i]]
      BY <2>1, AtCall
    <2>3. Has(f, F, "second", F.fds, F.pipefd)
      BY <2>2, FrameSet
    <2> HIDE DEF f
    <2>4. SameKind(commands, F, f) /\ PcFits("second", CommandAt(commands, F.path).type)
      BY <2>2, <2>3 DEF SameKind, Piping, Looping, Lefts, Final, PcFits, Has
    <2>5. Follows(f, P.fd) /\ f.pc = "second"
      BY <2>2, <2>3, <2>4, MovedFollows
    <2>6. Runs(f.pc, 2) /\ 2 \in Nat
      BY <2>5 DEF Runs
    <2> QED  BY <2>1, <2>2, <2>5, <2>6, CallStep
  <1> QED  BY <1>1, <1>2

LEMMA PipeStep ==
    ASSUME Inv(commands, procs), PipeLeft \/ PipeRight
    PROVE  Inv(commands, procs')
  <1>1. CASE PipeLeft
    <2> DEFINE f == [F EXCEPT !.pc = "left_end"]
    <2>1. At("left") /\ LogsAndGoesTo(P.log, f, P.fd, Append(F.path, 1))
      BY <1>1 DEF PipeLeft, GoesTo
    <2>2. InCall /\ F.pc = "left" /\ PcFits("left", CommandAt(commands, F.path).type)
          /\ IsFrame(F) /\ F.fds = [i \in 0 .. 3 |-> F.fds[i]]
      BY <2>1, AtCall
    <2>3. Has(f, F, "left_end", F.fds, F.pipefd)
      BY <2>2, FrameSet
    <2> HIDE DEF f
    <2>4. SameKind(commands, F, f) /\ PcFits("left_end", CommandAt(commands, F.path).type)
      BY <2>2, <2>3 DEF SameKind, Piping, Looping, Lefts, Final, PcFits, Has
    <2>5. Follows(f, P.fd) /\ f.pc = "left_end"
      BY <2>2, <2>3, <2>4, MovedFollows
    <2>6. Runs(f.pc, 1) /\ 1 \in Nat
      BY <2>5 DEF Runs
    <2> QED  BY <2>1, <2>2, <2>5, <2>6, CallStep
  <1>2. CASE PipeRight
    <2> DEFINE f == [F EXCEPT !.pc = "right"]
    <2>1. At("waited") /\ Node(F.path).type = "PIPE"
          /\ \E log \in BOOLEAN : LogsAndGoesTo(log, f, P.fd, Append(F.path, 2))
      BY <1>2 DEF PipeRight
    <2>2. InCall /\ F.pc = "waited" /\ CommandAt(commands, F.path).type = "PIPE"
          /\ IsFrame(F) /\ F.fds = [i \in 0 .. 3 |-> F.fds[i]]
      BY <2>1, AtCall
    <2>3. Has(f, F, "right", F.fds, F.pipefd)
      BY <2>2, FrameSet
    <2> HIDE DEF f
    <2>4. SameKind(commands, F, f) /\ PcFits("right", CommandAt(commands, F.path).type)
      BY <2>2, <2>3 DEF SameKind, Piping, Looping, Lefts, Final, PcFits, Has
    <2>5. Follows(f, P.fd) /\ f.pc = "right"
      BY <2>2, <2>3, <2>4, MovedFollows
    <2>6. Runs(f.pc, 2) /\ 2 \in Nat
      BY <2>5 DEF Runs
    <2> QED  BY <2>1, <2>2, <2>5, <2>6, CallStep
  <1> QED  BY <1>1, <1>2

\* The body of a loop or a branch, and the condition of a loop once more.
LEMMA BodyStep ==
    ASSUME Inv(commands, procs), Body \/ LoopAgain
    PROVE  Inv(commands, procs')
  <1>1. CASE Body
    <2> DEFINE f == [F EXCEPT !.pc = "body"]
               k == Branch(Node(F.path), F.ret)
    <2>1. At("condition") /\ LogsAndGoesTo(P.log, f, P.fd, Append(F.path, k))
      BY <1>1 DEF Body, GoesTo
    <2>2. InCall /\ F.pc = "condition" /\ PcFits("condition", CommandAt(commands, F.path).type)
          /\ IsFrame(F) /\ F.fds = [i \in 0 .. 3 |-> F.fds[i]]
          /\ Node(F.path) = CommandAt(commands, F.path)
      BY <2>1, AtCall
    <2>3. Has(f, F, "body", F.fds, F.pipefd)
      BY <2>2, FrameSet
    <2>7. k \in Nat
      BY <2>2 DEF Branch, PcFits
    <2> HIDE DEF f, k
    <2>4. SameKind(commands, F, f) /\ PcFits("body", CommandAt(commands, F.path).type)
      BY <2>2, <2>3 DEF SameKind, Piping, Looping, Lefts, Final, PcFits, Has
    <2>5. Follows(f, P.fd) /\ f.pc = "body"
      BY <2>2, <2>3, <2>4, MovedFollows
    <2>6. Runs(f.pc, k)
      BY <2>5 DEF Runs
    <2> QED  BY <2>1, <2>2, <2>5, <2>6, <2>7, CallStep
  <1>2. CASE LoopAgain
    <2> DEFINE f == [F EXCEPT !.pc = "condition", !.last = F.ret]
    <2>1. At("body") /\ LogsAndGoesTo(P.log, f, P.fd, Append(F.path, 1))
      BY <1>2 DEF LoopAgain, GoesTo
    <2>2. InCall /\ F.pc = "body" /\ PcFits("body", CommandAt(commands, F.path).type)
          /\ IsFrame(F) /\ F.fds = [i \in 0 .. 3 |-> F.fds[i]]
      BY <2>1, AtCall
    <2>3. Has(f, F, "condition", F.fds, F.pipefd)
      BY <2>2, FrameSet
    <2> HIDE DEF f
    <2>4. SameKind(commands, F, f) /\ PcFits("condition", CommandAt(commands, F.path).type)
      BY <2>2, <2>3 DEF SameKind, Piping, Looping, Lefts, Final, PcFits, Has
    <2>5. Follows(f, P.fd) /\ f.pc = "condition"
      BY <2>2, <2>3, <2>4, MovedFollows
    <2>6. Runs(f.pc, 1) /\ 1 \in Nat
      BY <2>5 DEF Runs
    <2> QED  BY <2>1, <2>2, <2>5, <2>6, CallStep
  <1> QED  BY <1>1, <1>2

\* set_redirect before the body of a subshell, and before a condition.
LEMMA RedirectStep ==
    ASSUME Inv(commands, procs), SubshellRuns \/ Condition
    PROVE  Inv(commands, procs')
  <1> DEFINE c == CommandAt(commands, F.path)
             r == set_redirect(P.fd, F.path, c)
             f(pc) == [F EXCEPT !.pc = pc, !.fds = r.fds]
  <1>1. ASSUME NEW pc \in {"subshell_end", "condition"}, NEW at \in {"subshell", "call"},
               At(at), Room(P.fd), at = "subshell" => pc = "subshell_end",
               LogsAndGoesTo(P.log, f(pc), r.fd, Append(F.path, 1)),
               c.type \in {"SUBSHELL", "IF", "WHILE", "UNTIL"}, PcFits(pc, c.type)
        PROVE  Inv(commands, procs')
    <2>1. InCall /\ F.pc = at /\ FrameInv(commands, F, P.fd) /\ IsFrame(F) /\ IsTable(P.fd)
      BY <1>1, AtCall
    <2>2. r.fds = [i \in 0 .. 3 |-> r.fds[i]]
      BY <1>1, <2>1, SetRedirect
    <2> DEFINE fds == r.fds
               g == f(pc)
    <2>3. g = [F EXCEPT !.pc = pc, !.fds = fds] /\ fds = [i \in 0 .. 3 |-> fds[i]] /\ fds = r.fds
      BY <2>2
    <2> HIDE DEF fds, g
    <2>4. Has(g, F, pc, fds, F.pipefd)
      BY ONLY <2>1, <2>3, FrameSet
    <2>5. Unredirected(commands, F)
      BY <1>1, <2>1 DEF Unredirected, Piping, Looping, Lefts
    <2>6. FrameInv(commands, g, r.fd) /\ Adds(P.fd, r.fd)
      <3>1. pc \in {"subshell_end", "program", "condition"} /\ pc # "program"
            /\ (pc = "condition" => F.pc \notin Final) /\ c.type \notin {"SEQUENCE", "PIPE"}
        BY <1>1, <2>1 DEF Final, Lefts
      <3>2. Has(g, F, pc, IF pc = "program" THEN F.fds ELSE r.fds, F.pipefd)
        BY <2>3, <2>4, <3>1
      <3> QED  BY <1>1, <2>1, <2>5, <3>1, <3>2, RedirectedFrame
    <2>7. g.path = F.path /\ g.entry = F.entry /\ g.pc = pc
      BY <2>4 DEF Has
    <2>8. (F.pc \in Final => pc \in Final) /\ pc \notin Lefts
      BY <1>1, <2>1 DEF Final, Lefts
    <2>9. Follows(g, r.fd)
      BY <2>6, <2>7, <2>8 DEF Follows
    <2>10. Runs(g.pc, 1) /\ 1 \in Nat
      BY <1>1, <2>7 DEF Runs
    <2>11. LogsAndGoesTo(P.log, g, r.fd, Append(F.path, 1))
      BY <1>1 DEF g
    <2> HIDE DEF r
    <2> QED  BY <2>1, <2>9, <2>10, <2>11, CallStep
  <1>2. CASE SubshellRuns
    <2>1. At("subshell") /\ Room(P.fd) /\ LogsAndGoesTo(P.log, f("subshell_end"), r.fd, Append(F.path, 1))
      BY <1>2 DEF SubshellRuns, GoesTo, Node
    <2>2. c.type = "SUBSHELL"
      BY <2>1, AtCall DEF PcFits
    <2>3. PcFits("subshell_end", c.type)
      BY <2>2 DEF PcFits
    <2>4. c.type \in {"SUBSHELL", "IF", "WHILE", "UNTIL"}
      BY <2>2
    <2> HIDE DEF f, r, c
    <2> QED  BY <1>1, <2>1, <2>3, <2>4
  <1>3. CASE Condition
    <2>1. At("call") /\ Room(P.fd) /\ LogsAndGoesTo(P.log, f("condition"), r.fd, Append(F.path, 1))
          /\ c.type \in {"IF", "WHILE", "UNTIL"}
      BY <1>3 DEF Condition, Calls, GoesTo, Node
    <2>2. PcFits("condition", c.type)
      BY <2>1 DEF PcFits
    <2>3. c.type \in {"SUBSHELL", "IF", "WHILE", "UNTIL"}
      BY <2>1
    <2> HIDE DEF f, r, c
    <2> QED  BY <1>1, <2>1, <2>2, <2>3
  <1> QED  BY <1>2, <1>3

\* set_redirect and execvp.
LEMMA ExecStep ==
    ASSUME Inv(commands, procs), Exec
    PROVE  Inv(commands, procs')
  <1> DEFINE c == CommandAt(commands, F.path)
             r == set_redirect(P.fd, F.path, c)
             x == Writes(Program(c))
             g == [F EXCEPT !.pc = "program", !.left = x]
  <1>1. At("exec") /\ Room(P.fd) /\ procs' = Append(Others, Process(r.fd, <<g>>, 0, P.log))
    BY DEF Exec, Node
  <1>2. /\ InCall /\ F.pc = "exec" /\ FrameInv(commands, F, P.fd) /\ IsFrame(F) /\ IsTable(P.fd)
        /\ F.fds = [i \in 0 .. 3 |-> F.fds[i]] /\ c.type = "SIMPLE"
    BY <1>1, AtCall DEF PcFits
  <1>3. Has(g, F, "program", F.fds, F.pipefd)
    <2>1. g = [F EXCEPT !.pc = "program", !.left = x]
      OBVIOUS
    <2> HIDE DEF g, x
    <2> QED  BY ONLY <1>2, <2>1, FrameSet
  <1> HIDE DEF g
  <1>4. Unredirected(commands, F) /\ PcFits("program", c.type)
    BY <1>2 DEF Unredirected, Piping, Looping, Lefts, PcFits
  <1>5. FrameInv(commands, g, r.fd) /\ Adds(P.fd, r.fd)
    <2>1. "program" \in {"subshell_end", "program", "condition"} /\ c.type \notin {"SEQUENCE", "PIPE"}
          /\ "program" # "condition"
      BY <1>2
    <2>2. Has(g, F, "program", IF "program" = "program" THEN F.fds ELSE r.fds, F.pipefd)
      BY <1>3
    <2> QED  BY <1>1, <1>2, <1>4, <2>1, <2>2, RedirectedFrame
  <1>6. g.path = F.path /\ g.pc = "program"
    BY <1>3 DEF Has
  <1> HIDE DEF r
  <1>7. Inv(commands, Append(Others, Process(r.fd, <<g>>, 0, P.log)))
    BY <1>2, <1>5, <1>6, ExecInv
  <1> QED  BY <1>1, <1>7

LEMMA WriteStep ==
    ASSUME Inv(commands, procs), ProgramWrites
    PROVE  Inv(commands, procs')
  <1> DEFINE x == F.left - 1
             g == [F EXCEPT !.left = x]
  <1>1. At("program") /\ Goes(g, P.fd)
    BY DEF ProgramWrites
  <1>2. /\ InCall /\ F.pc = "program" /\ IsFrame(F) /\ F.fds = [i \in 0 .. 3 |-> F.fds[i]]
        /\ PcFits("program", CommandAt(commands, F.path).type)
    BY <1>1, AtCall
  <1>3. Has(g, F, "program", F.fds, F.pipefd)
    <2>1. g = [F EXCEPT !.left = x]
      OBVIOUS
    <2> HIDE DEF g, x
    <2>2. Has(g, F, F.pc, F.fds, F.pipefd)
      BY ONLY <1>2, <2>1, FrameSet
    <2> QED  BY ONLY <1>2, <2>2
  <1> HIDE DEF g
  <1>4. SameKind(commands, F, g)
    BY <1>2, <1>3 DEF SameKind, Piping, Looping, Lefts, Final, Has
  <1>5. Follows(g, P.fd)
    BY <1>2, <1>3, <1>4, MovedFollows
  <1>6. Inv(commands, Append(Others, Going(g, P.fd, P.log)))
    BY <1>2, <1>5, GoesInv
  <1> QED  BY <1>1, <1>6 DEF Goes, Going

\* fork for a simple command and for a subshell; exec needs none.
LEMMA ForkStep ==
    ASSUME Inv(commands, procs), Simple \/ Subshell
    PROVE  Inv(commands, procs')
  <1> DEFINE f(pc) == [F EXCEPT !.pc = pc]
  <1>1. ASSUME NEW type, Calls({type}), NEW pc, pc \in {"exec", "subshell", "wait"},
               PcFits(pc, type), type \in {"SIMPLE", "SUBSHELL"}
        PROVE  InCall /\ Follows(f(pc), P.fd) /\ f(pc).pc = pc /\ f(pc).path = F.path
               /\ FrameInv(commands, f(pc), P.fd)
    <2>1. At("call") /\ CommandAt(commands, F.path).type = type
      BY <1>1 DEF Calls, Node
    <2>2. InCall /\ F.pc = "call" /\ IsFrame(F) /\ F.fds = [i \in 0 .. 3 |-> F.fds[i]]
      BY <2>1, AtCall
    <2> DEFINE g == f(pc)
    <2>3. Has(g, F, pc, F.fds, F.pipefd)
      <3>1. g = [F EXCEPT !.pc = pc]
        OBVIOUS
      <3> HIDE DEF g
      <3> QED  BY ONLY <2>2, <3>1, FrameSet
    <2> HIDE DEF g
    <2>4. SameKind(commands, F, g)
      BY <1>1, <2>1, <2>2, <2>3 DEF SameKind, Piping, Looping, Lefts, Final, Has
    <2>5. Follows(g, P.fd) /\ g.pc = pc /\ g.path = F.path
      BY <1>1, <2>1, <2>2, <2>3, <2>4, MovedFollows
    <2> QED  BY <2>2, <2>5 DEF g, Follows
  <1>2. ASSUME NEW type, Calls({type}), NEW pc, pc \in {"exec", "subshell"},
               PcFits(pc, type), type \in {"SIMPLE", "SUBSHELL"}, PcFits("wait", type),
               Forks(f(pc), P.fd, f("wait"), P.fd)
        PROVE  Inv(commands, procs')
    <2> DEFINE g == f("wait")
               h == f(pc)
    <2>1. InCall /\ Follows(g, P.fd) /\ g.pc = "wait"
      BY <1>1, <1>2
    <2>2. h.path = F.path /\ h.pc \in Final /\ FrameInv(commands, h, P.fd)
      <3>1. h.path = F.path /\ h.pc = pc /\ FrameInv(commands, h, P.fd)
        BY <1>1, <1>2
      <3> QED  BY <1>2, <3>1 DEF Final
    <2>3. procs' = Others \o <<Process(P.fd, Append(Callers, g), P.ret, P.log),
                               Process(P.fd, <<h>>, 0, Inherited)>>
      BY <1>2 DEF Forks
    <2>4. \A e \in Fds : IsWriteEnd(P.fd[e]) => P.fd[e][2] = h.path \/ \E x \in Fds : P.fd[e] = P.fd[x]
      OBVIOUS
    <2> HIDE DEF g, h
    <2>5. Inv(commands, Others \o <<Process(P.fd, Append(Callers, g), P.ret, P.log),
                                    Process(P.fd, <<h>>, 0, Inherited)>>)
      BY <2>1, <2>2, <2>4, ForksInv
    <2> QED  BY <2>3, <2>5
  <1>3. PcFits("exec", "SIMPLE") /\ PcFits("wait", "SIMPLE")
        /\ PcFits("subshell", "SUBSHELL") /\ PcFits("wait", "SUBSHELL")
    BY DEF PcFits
  <1>4. CASE Simple
    <2>1. Calls({"SIMPLE"})
      BY <1>4 DEF Simple
    <2>2. CASE IsExec(Node(F.path))
      <3>1. Goes(f("exec"), P.fd)
        BY <1>4, <2>2 DEF Simple
      <3>2. InCall /\ Follows(f("exec"), P.fd)
        BY <1>1, <1>3, <2>1
      <3> HIDE DEF f
      <3>3. Inv(commands, Append(Others, Going(f("exec"), P.fd, P.log)))
        BY <3>2, GoesInv
      <3> QED  BY <3>1, <3>3 DEF Goes, Going
    <2>3. CASE ~IsExec(Node(F.path))
      <3>1. Forks(f("exec"), P.fd, f("wait"), P.fd)
        BY <1>4, <2>3 DEF Simple
      <3> HIDE DEF f
      <3> QED  BY <1>2, <1>3, <2>1, <3>1
    <2> QED  BY <2>2, <2>3
  <1>5. CASE Subshell
    <2>1. Calls({"SUBSHELL"}) /\ Forks(f("subshell"), P.fd, f("wait"), P.fd)
      BY <1>5 DEF Subshell
    <2> HIDE DEF f
    <2> QED  BY <1>2, <1>3, <2>1
  <1> QED  BY <1>4, <1>5

LEMMA PipeForkStep ==
    ASSUME Inv(commands, procs), PipeForks
    PROVE  Inv(commands, procs')
  <1> DEFINE p == F.path
             fd1 == OpenAt(P.fd, PipeEnd(p, "r"))
             fd2 == OpenAt(fd1, PipeEnd(p, "w"))
             r == Lowest(P.fd)
             w == Lowest(fd1)
             left == PipeLeftFds(fd2, r, w)
             right == PipeRightFds(fd2, r, w)
             ends == <<r, w>>
             copy == right.copy
             f == [[F EXCEPT !.pipefd = ends] EXCEPT !.pc = "left"]
             g == [[F EXCEPT !.pipefd = ends] EXCEPT !.pc = "wait", !.fds[0] = copy]
  <1>1. At("call") /\ CommandAt(commands, p).type = "PIPE" /\ Room(P.fd) /\ Forks(f, left, g, right.fd)
    BY DEF PipeForks, Calls, Node
  <1>2. /\ InCall /\ F.pc = "call" /\ FrameInv(commands, F, P.fd) /\ IsFrame(F) /\ IsTable(P.fd)
        /\ F.fds = [i \in 0 .. 3 |-> F.fds[i]]
    BY <1>1, AtCall
  <1>3. /\ IsTable(left) /\ left[0] = P.fd[0] /\ left[1] = PipeEnd(p, "w")
        /\ \A e \in Fds : IsWriteEnd(left[e]) => left[e][2] = p \/ \E x \in Fds : left[e] = P.fd[x]
        /\ IsTable(right.fd) /\ right.fd[0] = PipeEnd(p, "r") /\ right.fd[1] = P.fd[1]
        /\ Adds(P.fd, right.fd)
        /\ copy \in Fds
        /\ \A h : h.pipefd[1] = r /\ h.fds[0] = copy => PipeRestored(right.fd, h) = P.fd
    BY <1>1, <1>2, PipeFds
  <1>4. ends[1] = r
    OBVIOUS
  <1>5. /\ f = [[F EXCEPT !.pipefd = ends] EXCEPT !.pc = "left"]
        /\ g = [[F EXCEPT !.pipefd = ends] EXCEPT !.pc = "wait", !.fds[0] = copy]
    OBVIOUS
  <1>6. Inherited = P.log
    BY DEF Inherited
  <1>7. procs' = Others \o <<Process(right.fd, Append(Callers, g), P.ret, P.log),
                             Process(left, <<f>>, 0, P.log)>>
    BY <1>1, <1>6 DEF Forks
  <1> DEFINE rfd == right.fd
  <1>8. rfd = right.fd
    OBVIOUS
  <1> HIDE DEF f, g, copy, ends, right, left, r, w, fd1, fd2, rfd
  <1>9. Has(f, F, "left", F.fds, ends)
    BY ONLY <1>2, <1>5, FrameSet
  <1>10. Has(g, F, "wait", [F.fds EXCEPT ![0] = copy], ends)
    BY ONLY <1>2, <1>5, FrameSet
  <1>11. /\ \A d \in {0, 1} : Around(commands, p, d, P.fd[d])
         /\ P.fd = F.entry
    <2>1. Unredirected(commands, F) /\ F.pc \notin Final
      BY <1>2 DEF Unredirected, Piping, Looping, Lefts, Final
    <2> QED  BY <1>2, <2>1, UnredirectedStreams
  <1>12. \A d \in {0, 1} : StreamIs(commands, p, d, P.fd[d])
    BY <1>1, <1>11 DEF Around, Redirects
  \* The child.
  <1>13. f.path = F.path /\ f.pc \in Final /\ FrameInv(commands, f, left)
    <2>1. f.path = p /\ f.pc = "left" /\ IsFrame(f)
      BY <1>9 DEF Has
    <2>2. /\ f.pc \in Final /\ f.pc \in Lefts /\ ~Piping(commands, f) /\ ~Looping(f)
          /\ PcFits(f.pc, CommandAt(commands, f.path).type)
      BY <1>1, <2>1 DEF Final, Lefts, Piping, Looping, PcFits
    <2>3. \A d \in {0, 1} : Stream(commands, f, d, left[d])
      <3>1. Stream(commands, f, 0, left[0])
        BY <1>3, <1>12, <2>1, <2>2 DEF Stream
      <3>2. Stream(commands, f, 1, left[1])
        BY <1>3, <2>1, <2>2 DEF Stream
      <3> QED  BY <3>1, <3>2
    <2>4. Slots(commands, f)
      BY <2>2 DEF Slots
    <2> QED  BY <1>3, <2>1, <2>2, <2>3, <2>4 DEF FrameInv
  \* The parent.
  <1>14. Follows(g, rfd) /\ g.pc = "wait"
    <2>1. /\ g.path = p /\ g.pc = "wait" /\ IsFrame(g) /\ g.entry = F.entry /\ g.pipefd = ends
          /\ g.fds[0] = copy
      BY <1>2, <1>10 DEF Has
    <2>2. /\ g.pc \notin Final /\ g.pc \notin Lefts /\ Piping(commands, g) /\ ~Looping(g)
          /\ PcFits(g.pc, CommandAt(commands, g.path).type) /\ F.pc \notin Final
      BY <1>1, <1>2, <2>1 DEF Final, Lefts, Piping, Looping, PcFits
    <2>3. \A d \in {0, 1} : Stream(commands, g, d, rfd[d])
      <3>1. Stream(commands, g, 0, rfd[0])
        BY <1>3, <1>8, <2>1, <2>2 DEF Stream
      <3>2. Stream(commands, g, 1, rfd[1])
        BY <1>3, <1>8, <1>12, <2>1, <2>2 DEF Stream
      <3> QED  BY <3>1, <3>2
    <2>4. Slots(commands, g)
      BY <1>3, <2>1, <2>2 DEF Slots
    <2>5. Leaving(commands, g, rfd) = g.entry
      <3>1. PipeRestored(right.fd, g) = P.fd
        BY <1>3, <1>4, <2>1
      <3> QED  BY <1>8, <1>11, <2>1, <2>2, <3>1 DEF Leaving
    <2>6. FrameInv(commands, g, rfd)
      BY <1>3, <1>8, <2>1, <2>2, <2>3, <2>4, <2>5 DEF FrameInv
    <2> QED  BY <1>3, <1>8, <2>1, <2>2, <2>6 DEF Follows
  <1>15. \A e \in Fds : IsWriteEnd(left[e]) => left[e][2] = f.path \/ \E x \in Fds : left[e] = P.fd[x]
    BY <1>3, <1>13
  <1>16. Inv(commands, Others \o <<Process(rfd, Append(Callers, g), P.ret, P.log),
                                   Process(left, <<f>>, 0, P.log)>>)
    BY <1>2, <1>13, <1>14, <1>15, ForksInv
  <1> QED  BY <1>7, <1>8, <1>16

\* execute_command returns: its descriptors are those it was called with.
LEMMA ReturnStep ==
    ASSUME Inv(commands, procs), Waited \/ SequenceEnd \/ PipeRightEnd \/ NoBody \/ IfEnd
    PROVE  /\ Inv(commands, procs')
           /\ \E log, st : procs' = Append(Others, Returning(st, F.entry, log))
  <1>1. ASSUME NEW pc, At(pc), NEW log, NEW st, NEW fd, LogsAndReturns(log, st, fd),
               pc \notin Final, fd = Leaving(commands, F, P.fd)
        PROVE  /\ Inv(commands, procs')
               /\ \E l, s : procs' = Append(Others, Returning(s, F.entry, l))
    <2>1. InCall /\ F.pc = pc
      BY <1>1, AtCall
    <2>2. fd = F.entry /\ Inv(commands, Append(Others, Returning(st, fd, log)))
      BY <1>1, <2>1, ReturnsInv
    <2>3. procs' = Append(Others, Returning(st, fd, log))
      BY <1>1 DEF LogsAndReturns, Returning
    <2> QED  BY <2>2, <2>3
  <1>2. CASE Waited
    <2>1. At("waited") /\ Node(F.path).type \in {"SIMPLE", "SUBSHELL"}
      BY <1>2 DEF Waited
    <2>2. PICK log \in BOOLEAN : LogsAndReturns(log, F.ret, P.fd)
      BY <1>2 DEF Waited
    <2>3. F.pc = "waited" /\ CommandAt(commands, F.path).type # "PIPE"
      BY <2>1, AtCall DEF Node
    <2>4. "waited" \notin Final /\ P.fd = Leaving(commands, F, P.fd)
      BY <2>3 DEF Final, Lefts, Leaving, Piping, Looping
    <2> QED  BY <1>1, <2>1, <2>2, <2>4
  <1>3. CASE SequenceEnd
    <2>1. At("second") /\ LogsAndReturns(P.log, F.ret, P.fd)
      BY <1>3 DEF SequenceEnd, Returns
    <2>2. F.pc = "second"
      BY <2>1, AtCall
    <2>3. "second" \notin Final /\ P.fd = Leaving(commands, F, P.fd)
      BY <2>2 DEF Final, Lefts, Leaving, Piping, Looping
    <2> QED  BY <1>1, <2>1, <2>3
  <1>4. CASE PipeRightEnd
    <2>1. At("right") /\ LogsAndReturns(P.log, F.ret, PipeRestored(P.fd, F))
      BY <1>4 DEF PipeRightEnd, Returns
    <2>2. F.pc = "right" /\ CommandAt(commands, F.path).type = "PIPE"
      BY <2>1, AtCall DEF PcFits
    <2>3. "right" \notin Final /\ PipeRestored(P.fd, F) = Leaving(commands, F, P.fd)
      BY <2>2 DEF Final, Lefts, Leaving, Piping
    <2> QED  BY <1>1, <2>1, <2>3
  <1>5. ASSUME NEW pc, pc \in {"condition", "body"}, At(pc), NEW st,
               LogsAndReturns(P.log, st, reset_redirect(P.fd, F.fds))
        PROVE  /\ Inv(commands, procs')
               /\ \E l, s : procs' = Append(Others, Returning(s, F.entry, l))
    <2>1. F.pc = pc
      BY <1>5, AtCall
    <2>2. pc \notin Final /\ reset_redirect(P.fd, F.fds) = Leaving(commands, F, P.fd)
      BY <1>5, <2>1 DEF Final, Lefts, Leaving, Piping, Looping
    <2> QED  BY <1>1, <1>5, <2>2
  <1>6. CASE NoBody
    <2>1. At("condition") /\ LogsAndReturns(P.log, F.last, reset_redirect(P.fd, F.fds))
      BY <1>6 DEF NoBody, Returns
    <2> QED  BY <1>5, <2>1
  <1>7. CASE IfEnd
    <2>1. At("body") /\ LogsAndReturns(P.log, F.ret, reset_redirect(P.fd, F.fds))
      BY <1>7 DEF IfEnd, Returns
    <2> QED  BY <1>5, <2>1
  <1> QED  BY <1>2, <1>3, <1>4, <1>6, <1>7

\* The process exits: its parent goes on, or the shell is over.
Ending == ExecFails \/ ProgramExits \/ SubshellFails \/ SubshellEnd \/ PipeLeftEnd \/ ConditionFails \/ CallFails

LEMMA ExitStep ==
    ASSUME Inv(commands, procs), Ending
    PROVE  /\ InCall /\ \E st : Exits(st)
           /\ Inv(commands, procs')
  <1>1. /\ \E pc : At(pc)
        /\ \E st : Exits(st)
    BY DEF Ending, ExecFails, ProgramExits, SubshellFails, SubshellEnd, PipeLeftEnd, ConditionFails,
           CallFails, Dies, Calls
  <1>2. InCall
    BY <1>1, AtCall
  <1>3. PICK st : Exits(st)
    BY <1>1
  <1>4. ASSUME Others = <<>> PROVE Inv(commands, procs')
    <2>1. procs' = procs
      BY <1>3, <1>4 DEF Exits
    <2> QED  BY <2>1
  <1>5. ASSUME Others # <<>> PROVE Inv(commands, procs')
    <2>1. LET n == Len(Others) m == Len(Others[n].frames) IN
          procs' = [Others EXCEPT ![n].frames[m].ret = st, ![n].frames[m].pc = "waited"]
      BY <1>3, <1>5 DEF Exits
    <2>2. LET n == Len(Others) m == Len(Others[n].frames) IN
          Inv(commands, [Others EXCEPT ![n].frames[m].ret = st, ![n].frames[m].pc = "waited"])
      BY <1>2, <1>5, ExitsInv
    <2> QED  BY <2>1, <2>2
  <1> QED  BY <1>1, <1>2, <1>4, <1>5

\* main: the shell is between two commands.
LEMMA IdleProcess ==
    ASSUME Inv(commands, procs), Idle
    PROVE  /\ procs[1] = P /\ ProcessInv(commands, procs, 1, P) /\ P.frames = <<>> /\ Len(procs) = 1
           /\ P = Process(P.fd, <<>>, P.ret, P.log)
           /\ IsTable(P.fd) /\ \A d \in {0, 1} : P.fd[d] = Tty
  <1>1. Len(procs) = 1 /\ procs[1] = P /\ P.frames = <<>>
    BY DEF Idle, P
  <1>2. ProcessInv(commands, procs, 1, P) /\ P = Process(P.fd, P.frames, P.ret, P.log)
    BY <1>1, RunningProcess
  <1>3. IsTable(P.fd) /\ \A d \in {0, 1} : P.fd[d] = Tty
    BY <1>1, <1>2 DEF ProcessInv, OnTerminal, Base
  <1> QED  BY <1>1, <1>2, <1>3

LEMMA SingleInv ==
    ASSUME Inv(commands, procs), Len(procs) = 1, NEW q, ProcessInv(commands, procs, 1, q)
    PROVE  Inv(commands, <<q>>)
  <1> DEFINE qs == <<q>>
  <1>1. IsSeq(qs) /\ Len(qs) = 1 /\ qs[1] = q
    BY SeqSingle
  <1> HIDE DEF qs
  <1>2. /\ Len(qs) >= 1 /\ Len(qs) <= Len(procs)
        /\ \A i \in 1 .. Len(qs) - 1 : qs[i] = procs[i]
        /\ ProcessInv(commands, procs, Len(qs), qs[Len(qs)])
    BY <1>1
  <1>3. Inv(commands, qs)
    BY <1>1, <1>2, ReplaceInv
  <1> QED  BY <1>3 DEF qs

LEMMA MainStep ==
    ASSUME Inv(commands, procs), next \in Nat, PrepareFails \/ NextCommand \/ MainEnds
    PROVE  Inv(commands, procs')
  <1>1. CASE PrepareFails
    <2>1. procs' = procs
      BY <1>1 DEF PrepareFails
    <2> QED  BY <2>1
  <1>2. CASE NextCommand
    <2> DEFINE new == NewFrame(<<next>>, P.fd)
               s == <<new>>
               q == Process(P.fd, s, P.ret, P.log)
    <2>1. Idle /\ procs' = <<[procs[1] EXCEPT !.frames = <<NewFrame(<<next>>, procs[1].fd)>>]>>
      BY <1>2 DEF NextCommand
    <2>2. /\ procs[1] = P /\ ProcessInv(commands, procs, 1, P) /\ P.frames = <<>> /\ Len(procs) = 1
          /\ P = Process(P.fd, <<>>, P.ret, P.log)
          /\ IsTable(P.fd) /\ \A d \in {0, 1} : P.fd[d] = Tty
      BY <2>1, IdleProcess
    <2>3. procs' = <<q>>
      <3>1. [P EXCEPT !.frames = s] = q
        <4> HIDE DEF s
        <4> QED  BY <2>2 DEF Process
      <3> QED  BY <2>1, <2>2, <3>1
    <2>4. IsSeq(s) /\ Len(s) = 1 /\ s[1] = new /\ new.pc = "call" /\ new.entry = P.fd
      BY SeqSingle DEF NewFrame
    <2>5. IsProcess(q) /\ q.fd = P.fd /\ q.frames = s
      <3>1. q = Process(P.fd, s, P.ret, P.log)
        OBVIOUS
      <3> HIDE DEF q, s
      <3> QED  BY ONLY <2>4, <3>1, NewProcess
    <2>6. FrameInv(commands, new, P.fd)
      <3>1. <<next>> \in Seq(Nat) /\ <<next>> # <<>>
        OBVIOUS
      <3>2. \A d \in {0, 1} : Around(commands, <<next>>, d, P.fd[d])
        BY <2>2, AroundFirst
      <3> QED  BY <2>2, <3>1, <3>2, NewFrameInv
    <2> HIDE DEF new, s, q
    <2>7. Pushes(P, q, new)
      <3>1. Len(P.frames) = 0 /\ 0 + 1 = 1 /\ \A k \in 1 .. 0 : FALSE
        BY <2>2
      <3> QED  BY <2>4, <2>5, <3>1 DEF Pushes
    <2>8. ProcessInv(commands, procs, 1, q)
      <3>1. 1 \in Nat /\ new.entry = q.fd /\ FrameInv(commands, new, q.fd)
        BY <2>4, <2>5, <2>6
      <3> QED  BY <2>2, <2>4, <2>7, <3>1, PushesInv
    <2> QED  BY <2>2, <2>3, <2>8, SingleInv
  <1>3. CASE MainEnds
    <2>1. Idle
      BY <1>3 DEF MainEnds
    <2>2. PICK log \in BOOLEAN : procs' = <<[procs[1] EXCEPT !.log = log]>>
      BY <1>3 DEF MainEnds
    <2>3. /\ procs[1] = P /\ ProcessInv(commands, procs, 1, P) /\ P.frames = <<>> /\ Len(procs) = 1
          /\ P = Process(P.fd, <<>>, P.ret, P.log)
      BY <2>1, IdleProcess
    <2> DEFINE q == Process(P.fd, <<>>, P.ret, log)
    <2>4. procs' = <<q>>
      <3>1. [P EXCEPT !.log = log] = q
        BY <2>3 DEF Process
      <3> QED  BY <2>2, <2>3, <3>1
    <2>5. IsProcess(q) /\ q.fd = P.fd /\ q.frames = P.frames
      <3>1. IsSeq(P.frames)
        BY <2>3 DEF ProcessInv, IsProcess
      <3> QED  BY <2>3, <3>1 DEF IsProcess, Process
    <2> HIDE DEF q
    <2>6. \A k \in 1 .. Len(P.frames) : Under(q, k) = Under(P, k)
      BY <2>5 DEF Under
    <2>7. WriterWaitedFor(procs, 1, q) /\ Nested(procs, 1, q) /\ Child(procs, 1, q) /\ OnTerminal(q)
      BY <2>3, <2>5 DEF ProcessInv, WriterWaitedFor, Nested, Child, OnTerminal, Base
    <2>8. ProcessInv(commands, procs, 1, q)
      BY <2>3, <2>5, <2>6, <2>7 DEF ProcessInv
    <2> QED  BY <2>3, <2>4, <2>8, SingleInv
  <1> QED  BY <1>1, <1>2, <1>3

LEMMA ActionsInv ==
    ASSUME IInv, ExecNext
    PROVE  Inv(commands, procs')
  <1>1. Inv(commands, procs) /\ next \in Nat
    BY DEF IInv
  <1>2. CASE PrepareFails \/ NextCommand \/ MainEnds
    BY <1>1, <1>2, MainStep
  <1>3. CASE Simple \/ Subshell
    BY <1>1, <1>3, ForkStep
  <1>4. CASE Exec
    BY <1>1, <1>4, ExecStep
  <1>5. CASE ProgramWrites
    BY <1>1, <1>5, WriteStep
  <1>6. CASE Waited \/ SequenceEnd \/ PipeRightEnd \/ NoBody \/ IfEnd
    BY <1>1, <1>6, ReturnStep
  <1>7. CASE Sequence \/ SequenceSecond
    BY <1>1, <1>7, SequenceStep
  <1>8. CASE SubshellRuns \/ Condition
    BY <1>1, <1>8, RedirectStep
  <1>9. CASE PipeForks
    BY <1>1, <1>9, PipeForkStep
  <1>10. CASE PipeLeft \/ PipeRight
    BY <1>1, <1>10, PipeStep
  <1>11. CASE Body \/ LoopAgain
    BY <1>1, <1>11, BodyStep
  <1>12. CASE Ending
    BY <1>1, <1>12, ExitStep
  <1> QED  BY <1>2, <1>3, <1>4, <1>5, <1>6, <1>7, <1>8, <1>9, <1>10, <1>11, <1>12 DEF ExecNext, Ending

-----------------------------------------------------------------------------
(* The theorems. *)

LEMMA ExecInitIInv ==
    ASSUME ExecInit
    PROVE  IInv
  <1> DEFINE fd == IF profiled THEN OpenAt(BaseFds, <<"profile">>) ELSE BaseFds
             s == <<>>
             q == Process(fd, s, 0, profiled)
  <1>1. procs = <<q>> /\ next = 1
    BY DEF ExecInit
  <1>2. /\ 0 \in Fds /\ 1 \in Fds /\ 4 \in Fds
        /\ BaseFds = [d \in Fds |-> BaseFds[d]]
        /\ BaseFds[0] = Tty /\ BaseFds[1] = Tty /\ BaseFds[4] = NoFd
        /\ \A d \in Fds : BaseFds[d] \in {Tty, <<"script">>, NoFd}
    <2>1. MaxFd \in Nat /\ MaxFd >= 4 /\ Fds = 0 .. MaxFd
      BY Descriptors DEF Fds
    <2>2. 0 \in Fds /\ 1 \in Fds /\ 4 \in Fds /\ 0 \in 0 .. 2 /\ 1 \in 0 .. 2 /\ 4 \notin 0 .. 2 /\ 4 # 3
      BY <2>1
    <2>3. BaseFds = [d \in Fds |-> CASE d \in 0 .. 2 -> Tty [] d = 3 -> <<"script">> [] OTHER -> NoFd]
      BY DEF BaseFds
    <2>4. \A d \in Fds : BaseFds[d] = CASE d \in 0 .. 2 -> Tty [] d = 3 -> <<"script">> [] OTHER -> NoFd
      BY <2>3
    <2>5. BaseFds[0] = Tty /\ BaseFds[1] = Tty /\ BaseFds[4] = NoFd
      BY <2>2, <2>4
    <2>6. \A d \in Fds : BaseFds[d] \in {Tty, <<"script">>, NoFd}
      BY <2>4
    <2>7. BaseFds = [d \in Fds |-> BaseFds[d]]
      BY <2>3
    <2> QED  BY <2>2, <2>5, <2>6, <2>7
  <1>3. ~IsWriteEnd(Tty) /\ ~IsWriteEnd(NoFd) /\ ~IsWriteEnd(<<"script">>) /\ ~IsWriteEnd(<<"profile">>)
        /\ NoFd # Tty
    <2>1. <<"script">>[1] = "script" /\ <<"profile">>[1] = "profile" /\ "script" # "pipe" /\ "profile" # "pipe"
      OBVIOUS
    <2> QED  BY <2>1, Objects DEF IsWriteEnd
  <1>4. /\ IsTable(fd) /\ fd[0] = Tty /\ fd[1] = Tty
        /\ \A d \in Fds : ~IsWriteEnd(fd[d])
    <2>1. CASE ~profiled
      BY <2>1, <1>2, <1>3 DEF IsTable
    <2>2. CASE profiled
      <3> DEFINE low == Lowest(BaseFds)
      <3>1. low \in Fds /\ BaseFds[low] = NoFd
        BY <1>2, LowestIsFree
      <3>2. fd = [BaseFds EXCEPT ![low] = <<"profile">>]
        BY <2>2 DEF OpenAt
      <3> HIDE DEF low, fd
      <3>3. low # 0 /\ low # 1
        BY <3>1, <1>2, <1>3
      <3>4. fd = [d \in Fds |-> fd[d]] /\ \A d \in Fds : fd[d] = IF d = low THEN <<"profile">> ELSE BaseFds[d]
        BY <3>1, <3>2, <1>2
      <3> QED  BY <3>3, <3>4, <1>2, <1>3 DEF IsTable
    <2> QED  BY <2>1, <2>2
  <1>5. IsSeq(s) /\ Len(s) = 0 /\ \A k \in 1 .. Len(s) : FALSE
    <2>1. s \in Seq({}) /\ Len(s) = 0
      OBVIOUS
    <2>2. \A k \in 1 .. 0 : FALSE
      OBVIOUS
    <2> HIDE DEF s
    <2>3. IsSeq(s)
      BY <2>1, IsSeqOf
    <2> QED  BY <2>1, <2>2, <2>3
  <1>6. IsProcess(q) /\ q.fd = fd /\ q.frames = s
    <2>1. q = Process(fd, s, 0, profiled)
      OBVIOUS
    <2> HIDE DEF q, fd, s
    <2> QED  BY ONLY <1>5, <2>1, NewProcess
  <1>7. s = <<>>
    OBVIOUS
  <1> HIDE DEF fd, s, q
  <1>8. ProcessInv(commands, procs, 1, q)
    <2>1. WriterWaitedFor(procs, 1, q)
      BY <1>4, <1>6 DEF WriterWaitedFor
    <2>2. OnTerminal(q)
      BY <1>4, <1>6, <1>7 DEF OnTerminal, Base
    <2>3. Nested(procs, 1, q) /\ Child(procs, 1, q)
      BY <1>5, <1>6 DEF Nested, Child
    <2> QED  BY <1>5, <1>6, <2>1, <2>2, <2>3 DEF ProcessInv
  <1>9. IsSeq(procs) /\ Len(procs) = 1 /\ procs[1] = q
    BY <1>1, SeqSingle
  <1>10. Inv(commands, procs)
    BY <1>8, <1>9 DEF Inv
  <1> QED  BY <1>1, <1>6, <1>7, <1>9, <1>10 DEF IInv

\* While the parser is at work the shell runs no command, and the stream may
\* become any other.
LEMMA ParsingInv ==
    ASSUME IInv, phase # "run", NEW cs
    PROVE  Inv(cs, procs)
  <1>1. Inv(commands, procs) /\ Len(procs) = 1 /\ procs[1].frames = <<>>
    BY DEF IInv
  <1>2. ProcessInv(commands, procs, 1, procs[1]) /\ IsSeq(procs)
    BY <1>1 DEF Inv
  <1>3. ProcessInv(cs, procs, 1, procs[1])
    BY <1>1, <1>2 DEF ProcessInv
  <1> QED  BY <1>1, <1>2, <1>3 DEF Inv

LEMMA NextCounts ==
    ASSUME ExecNext
    PROVE  phase = "run" /\ (next' = next \/ next' = next + 1)
  <1>1. CASE PrepareFails \/ NextCommand \/ MainEnds
    BY <1>1 DEF PrepareFails, NextCommand, MainEnds, Idle, Running
  <1>2. CASE Simple \/ Exec \/ ExecFails \/ ProgramWrites \/ ProgramExits \/ Waited
    BY <1>2 DEF Simple, Exec, ExecFails, ProgramWrites, ProgramExits, Waited, Calls, At, Running
  <1>3. CASE Sequence \/ SequenceSecond \/ SequenceEnd
    BY <1>3 DEF Sequence, SequenceSecond, SequenceEnd, Calls, At, Running
  <1>4. CASE Subshell \/ SubshellRuns \/ SubshellFails \/ SubshellEnd
    BY <1>4 DEF Subshell, SubshellRuns, SubshellFails, SubshellEnd, Calls, At, Running
  <1>5. CASE PipeForks \/ PipeLeft \/ PipeLeftEnd \/ PipeRight \/ PipeRightEnd
    BY <1>5 DEF PipeForks, PipeLeft, PipeLeftEnd, PipeRight, PipeRightEnd, Calls, At, Running
  <1>6. CASE Condition \/ ConditionFails \/ Body \/ NoBody \/ IfEnd \/ LoopAgain \/ CallFails
    BY <1>6 DEF Condition, ConditionFails, Body, NoBody, IfEnd, LoopAgain, CallFails, Dies, Calls, At, Running
  <1> QED  BY <1>1, <1>2, <1>3, <1>4, <1>5, <1>6 DEF ExecNext

LEMMA StepIInv ==
    ASSUME IInv, [Step]_<<commands, phase, execVars>>
    PROVE  IInv'
  <1>1. CASE phase # "run" /\ UNCHANGED execVars
    <2>1. procs' = procs /\ next' = next
      BY <1>1 DEF execVars
    <2>2. Inv(commands', procs)
      BY <1>1, ParsingInv
    <2>3. Inv(commands, procs)' /\ next \in Nat /\ Len(procs) = 1 /\ procs[1].frames = <<>>
      BY <1>1, <2>1, <2>2 DEF IInv
    <2> QED  BY <2>1, <2>3 DEF IInv
  <1>2. CASE ExecNext /\ UNCHANGED <<commands, phase>>
    <2>1. Inv(commands, procs')
      BY <1>2, ActionsInv
    <2>2. phase = "run" /\ next' \in Nat
      BY <1>2, NextCounts DEF IInv
    <2>3. Inv(commands, procs)' /\ phase' = "run"
      BY <1>2, <2>1, <2>2
    <2> QED  BY <2>2, <2>3 DEF IInv
  <1>3. CASE UNCHANGED <<commands, phase, execVars>>
    <2>1. commands' = commands /\ phase' = phase /\ procs' = procs /\ next' = next
      BY <1>3 DEF execVars
    <2>2. Inv(commands, procs)'
      BY <2>1 DEF IInv
    <2> QED  BY <2>1, <2>2 DEF IInv
  <1> QED  BY <1>1, <1>2, <1>3 DEF Step

\* The executor keeps its invariant, whatever command stream it is given.
THEOREM ExecInvariant == ExecSpec => []IInv
  <1>1. ExecInit => IInv
    BY ExecInitIInv
  <1>2. IInv /\ [Step]_<<commands, phase, execVars>> => IInv'
    BY StepIInv
  <1> QED  BY <1>1, <1>2, PTL DEF ExecSpec

\* Every program runs with the standard input and output that its place in the
\* tree gives it.
THEOREM ExecStdStreams == ExecSpec => []StdStreams
  <1>1. IInv => StdStreams
    <2> SUFFICES ASSUME IInv, At("program"), NEW d \in {0, 1}
                 PROVE  StreamIs(commands, F.path, d, P.fd[d])
      BY DEF StdStreams
    <2>1. F.pc = "program" /\ FrameInv(commands, F, P.fd)
      BY AtCall DEF IInv
    <2> QED  BY <2>1 DEF FrameInv, Stream, Piping, Lefts
  <1> QED  BY <1>1, ExecInvariant, PTL

-----------------------------------------------------------------------------
(* What execute_command leaves behind. *)

\* Only a return takes the innermost call away.
Shortened == Len(procs') = Len(procs) /\ Len(procs'[Len(procs)].frames) = Len(P.frames) - 1

LEMMA LastProcess ==
    ASSUME InCall, NEW q
    PROVE  /\ Append(Others, q)[Len(procs)] = q
           /\ Len(procs) \in Nat /\ Len(procs) - 1 + 1 = Len(procs)
  <1>1. /\ Len(procs) \in Nat /\ IsSeq(Others) /\ Len(Others) = Len(procs) - 1
    BY RunningProcess DEF InCall
  <1>2. Append(Others, q)[Len(Others) + 1] = q
    BY <1>1, SeqAppend
  <1>3. Len(procs) - 1 + 1 = Len(procs)
    BY <1>1
  <1> QED  BY <1>1, <1>2, <1>3

\* The process goes on in the same call, or calls another command.
LEMMA GoingKeeps ==
    ASSUME InCall, NEW fd, NEW f, NEW ret, NEW log,
           \/ procs' = Append(Others, Process(fd, Append(Callers, f), ret, log))
           \/ \E g : procs' = Append(Others, Process(fd, Callers \o <<f, g>>, ret, log))
    PROVE  ~Shortened
  <1>1. /\ Len(P.frames) \in Nat /\ IsSeq(Callers) /\ Len(Callers) = Len(P.frames) - 1
    BY RunningCall
  <1>2. ASSUME NEW s, Len(s) = Len(P.frames) \/ Len(s) = Len(P.frames) + 1,
               procs' = Append(Others, Process(fd, s, ret, log))
        PROVE  ~Shortened
    <2>1. procs'[Len(procs)] = Process(fd, s, ret, log)
      BY <1>2, LastProcess
    <2>2. procs'[Len(procs)].frames = s
      BY <2>1 DEF Process
    <2> QED  BY <1>1, <1>2, <2>2 DEF Shortened
  <1>3. CASE procs' = Append(Others, Process(fd, Append(Callers, f), ret, log))
    <2>1. Len(Append(Callers, f)) = Len(Callers) + 1
      BY <1>1, SeqAppend
    <2>2. Len(Append(Callers, f)) = Len(P.frames)
      BY <1>1, <2>1
    <2> QED  BY <1>2, <1>3, <2>2
  <1>4. ASSUME NEW g, procs' = Append(Others, Process(fd, Callers \o <<f, g>>, ret, log))
        PROVE  ~Shortened
    <2>1. Len(Callers \o <<f, g>>) = Len(Callers) + 2
      BY <1>1, SeqTwoMore
    <2>2. Len(Callers \o <<f, g>>) = Len(P.frames) + 1
      BY <1>1, <2>1
    <2> QED  BY <1>2, <1>4, <2>2
  <1> QED  BY <1>3, <1>4

LEMMA ForkKeeps ==
    ASSUME InCall, NEW f, NEW cfd, NEW g, NEW pfd, Forks(f, cfd, g, pfd)
    PROVE  ~Shortened
  <1> DEFINE q == Process(pfd, Append(Callers, g), P.ret, P.log)
             c == Process(cfd, <<f>>, 0, Inherited)
  <1>1. /\ Len(procs) \in Nat /\ IsSeq(Others) /\ Len(Others) = Len(procs) - 1
    BY RunningProcess DEF InCall
  <1>2. procs' = Others \o <<q, c>>
    BY DEF Forks
  <1> HIDE DEF q, c
  <1>3. Len(procs') = Len(Others) + 2
    BY <1>1, <1>2, SeqTwoMore
  <1> QED  BY <1>1, <1>3 DEF Shortened

LEMMA ExitKeeps ==
    ASSUME InCall, NEW st, Exits(st)
    PROVE  ~Shortened
  <1>1. /\ Len(procs) \in Nat /\ IsSeq(Others) /\ Len(Others) = Len(procs) - 1
    BY RunningProcess DEF InCall
  <1>2. CASE Others = <<>>
    <2>1. procs' = procs
      BY <1>2 DEF Exits
    <2>2. Len(procs'[Len(procs)].frames) = Len(P.frames) /\ Len(P.frames) \in Nat
      BY <2>1, RunningCall DEF P
    <2> QED  BY <2>2 DEF Shortened
  <1>3. CASE Others # <<>>
    <2> DEFINE n == Len(Others)
               m == Len(Others[n].frames)
               e1 == [Others[n] EXCEPT !.frames[m].ret = st]
               s1 == [Others EXCEPT ![n] = e1]
               e2 == [s1[n] EXCEPT !.frames[m].pc = "waited"]
               s2 == [s1 EXCEPT ![n] = e2]
    <2>1. procs' = [Others EXCEPT ![n].frames[m].ret = st, ![n].frames[m].pc = "waited"]
      BY <1>3 DEF Exits
    <2>2. procs' = s2
      BY <2>1
    <2>3. s1 = Changed(Others, n, e1) /\ s2 = Changed(s1, n, e2)
      BY DEF Changed
    <2>4. n \in 1 .. n /\ n = Len(Others)
      BY <1>1, <1>3, SeqFacts
    <2> HIDE DEF s1, s2, e1, e2, n
    <2>5. IsSeq(s1) /\ Len(s1) = n
      BY ONLY <1>1, <2>3, <2>4, SeqChanged
    <2>6. Len(s2) = n
      BY ONLY <2>3, <2>4, <2>5, SeqChanged
    <2> QED  BY <1>1, <2>2, <2>4, <2>6 DEF Shortened
  <1> QED  BY <1>2, <1>3

LEMMA Restores ==
    ASSUME IInv, ExecNext, Popped
    PROVE  procs'[Len(procs)].fd = F.entry
  <1>1. InCall /\ Inv(commands, procs) /\ F.pc # "exec" /\ Shortened
    BY DEF IInv, InCall, Popped, Shortened
  <1>2. CASE PrepareFails \/ NextCommand \/ MainEnds
    <2>1. Idle
      BY <1>2, <1>1 DEF PrepareFails, NextCommand, MainEnds
    <2> QED  BY <1>1, <2>1, IdleProcess DEF InCall
  <1>3. CASE Simple
    <2>1. CASE IsExec(Node(F.path))
      <3>1. Goes([F EXCEPT !.pc = "exec"], P.fd)
        BY <1>3, <2>1 DEF Simple
      <3> QED  BY <1>1, <3>1, GoingKeeps DEF Goes
    <2>2. CASE ~IsExec(Node(F.path))
      <3>1. Forks([F EXCEPT !.pc = "exec"], P.fd, [F EXCEPT !.pc = "wait"], P.fd)
        BY <1>3, <2>2 DEF Simple
      <3> QED  BY <1>1, <3>1, ForkKeeps
    <2> QED  BY <2>1, <2>2
  <1>4. CASE Exec
    <2>1. F.pc = "exec"
      BY <1>4 DEF Exec, At
    <2> QED  BY <1>1, <2>1
  <1>5. CASE ProgramWrites
    <2>1. Goes([F EXCEPT !.left = @ - 1], P.fd)
      BY <1>5 DEF ProgramWrites
    <2> QED  BY <1>1, <2>1, GoingKeeps DEF Goes
  <1>6. CASE Waited \/ SequenceEnd \/ PipeRightEnd \/ NoBody \/ IfEnd
    <2>1. PICK log, st : procs' = Append(Others, Returning(st, F.entry, log))
      BY <1>1, <1>6, ReturnStep
    <2>2. procs'[Len(procs)] = Returning(st, F.entry, log)
      BY <1>1, <2>1, LastProcess
    <2>3. Returning(st, F.entry, log).fd = F.entry
      BY DEF Returning, Process
    <2> QED  BY <2>2, <2>3
  <1>7. ASSUME NEW log, NEW f, NEW fd, NEW p, LogsAndGoesTo(log, f, fd, p)
        PROVE  FALSE
    <2>1. \E g : procs' = Append(Others, Process(fd, Callers \o <<f, g>>, P.ret, log))
      BY <1>7 DEF LogsAndGoesTo
    <2> QED  BY <1>1, <2>1, GoingKeeps
  <1>8. CASE Sequence \/ SequenceSecond \/ SubshellRuns \/ PipeLeft \/ PipeRight \/ Condition \/ Body \/ LoopAgain
    <2>1. \E log, f, fd, p : LogsAndGoesTo(log, f, fd, p)
      BY <1>8 DEF Sequence, SequenceSecond, SubshellRuns, PipeLeft, PipeRight, Condition, Body, LoopAgain, GoesTo
    <2> QED  BY <1>7, <2>1
  <1>9. CASE Subshell \/ PipeForks
    <2>1. \E f, cfd, g, pfd : Forks(f, cfd, g, pfd)
      BY <1>9 DEF Subshell, PipeForks
    <2> QED  BY <1>1, <2>1, ForkKeeps
  <1>10. CASE Ending
    <2>1. \E st : Exits(st)
      BY <1>1, <1>10, ExitStep
    <2> QED  BY <1>1, <2>1, ExitKeeps
  <1> QED  BY <1>2, <1>3, <1>4, <1>5, <1>6, <1>8, <1>9, <1>10 DEF ExecNext, Ending

\* execute_command returns with the descriptors it was called with: whatever
\* dup, dup2, pipe, open and reset_redirect did in it is undone.
THEOREM ExecFdsRestored == ExecSpec => FdsRestored
  <1>1. IInv /\ [Step]_<<commands, phase, execVars>>
          => [Popped => procs'[Len(procs)].fd = F.entry]_execVars
    <2>1. ASSUME IInv, ExecNext, Popped PROVE procs'[Len(procs)].fd = F.entry
      BY <2>1, Restores
    <2>2. [Step]_<<commands, phase, execVars>> => ExecNext \/ UNCHANGED execVars
      BY DEF Step
    <2> QED  BY <2>1, <2>2
  <1> QED  BY <1>1, ExecInvariant, PTL DEF ExecSpec, FdsRestored

\* The stack: every process but the last waits.
LEMMA StackFacts ==
    ASSUME IInv, NEW i \in 1 .. Len(procs)
    PROVE  /\ Len(procs) \in Nat /\ i \in Nat
           /\ ProcessInv(commands, procs, i, procs[i]) /\ IsProcess(procs[i])
           /\ Len(procs[i].frames) \in Nat
           /\ i < Len(procs) => /\ Waits(procs[i]) /\ Len(procs[i].frames) \in 1 .. Len(procs[i].frames)
                                /\ Top(procs[i]) = procs[i].frames[Len(procs[i].frames)]
                                /\ Top(procs[i]).pc = "wait"
           /\ \A k \in 1 .. Len(procs[i].frames) :
                Len(procs[i].frames[k].path) \in Nat /\ k \in Nat
  <1>1. /\ Len(procs) \in Nat /\ ProcessInv(commands, procs, i, procs[i])
        /\ i < Len(procs) => Waits(procs[i])
    BY SeqFacts DEF IInv, Inv
  <1>2. IsProcess(procs[i])
    BY <1>1 DEF ProcessInv
  <1>3. Len(procs[i].frames) \in Nat /\ (procs[i].frames = <<>> <=> Len(procs[i].frames) = 0)
    BY <1>2, ProcessFacts
  <1>4. \A k \in 1 .. Len(procs[i].frames) : Len(procs[i].frames[k].path) \in Nat
    BY <1>1, PathFacts
  <1>5. i < Len(procs) => /\ Len(procs[i].frames) \in 1 .. Len(procs[i].frames)
                          /\ Top(procs[i]) = procs[i].frames[Len(procs[i].frames)]
                          /\ Top(procs[i]).pc = "wait"
    BY <1>1, <1>3 DEF Waits, Top
  <1> QED  BY <1>1, <1>2, <1>3, <1>4, <1>5

\* The right command of a pipe runs when the writer, which the process waited
\* for, is over.
LEMMA NoWriterLeft ==
    ASSUME IInv, NEW i \in 1 .. Len(procs), NEW k \in 1 .. Len(procs[i].frames),
           procs[i].frames[k].pc = "right",
           NEW j \in 1 .. Len(procs), Holds(j, PipeEnd(procs[i].frames[k].path, "w"))
    PROVE  FALSE
  <1> DEFINE f == procs[i].frames[k]
  <1>1. PICK d \in Fds : procs[j].fd[d] = PipeEnd(f.path, "w")
    BY DEF Holds
  <1>2. /\ ProcessInv(commands, procs, i, procs[i]) /\ Len(f.path) \in Nat
        /\ Len(procs[i].frames) \in Nat /\ Len(procs) \in Nat /\ k \in Nat
        /\ ProcessInv(commands, procs, j, procs[j])
    BY StackFacts
  <1>3. IsWriteEnd(procs[j].fd[d]) /\ procs[j].fd[d][2] = f.path
    <2>1. PipeEnd(f.path, "w")[1] = "pipe" /\ PipeEnd(f.path, "w")[2] = f.path /\ PipeEnd(f.path, "w")[3] = "w"
      BY DEF PipeEnd
    <2> QED  BY <1>1, <2>1 DEF IsWriteEnd
  <1>4. PICK l \in 1 .. j - 1 : Top(procs[l]).path = f.path
    BY <1>2, <1>3 DEF ProcessInv, WriterWaitedFor
  <1>5. l \in 1 .. Len(procs) /\ l < Len(procs) /\ l \in Nat
    BY <1>2
  <1> DEFINE o == procs[l]
             m == Len(o.frames)
  <1>6. /\ Top(o) = o.frames[m] /\ Top(o).pc = "wait" /\ m \in 1 .. m /\ m \in Nat
        /\ ProcessInv(commands, procs, l, o)
    BY <1>5, StackFacts
  <1>7. CASE l = i
    <2>1. k # m
      BY <1>6, <1>7
    <2>2. k \in 1 .. m - 1
      BY <1>2, <1>6, <1>7, <2>1
    <2>3. Len(o.frames[k].path) < Len(o.frames[m].path)
      BY <1>6, <2>2 DEF ProcessInv, Nested
    <2> QED  BY <1>2, <1>4, <1>6, <1>7, <2>3
  <1>8. CASE l < i
    <2>1. i > 1 /\ l \in 1 .. i - 1
      BY <1>5, <1>8
    <2>2. procs[i].frames[1].pc \in Final /\ "right" \notin Final
      BY <1>2, <2>1 DEF ProcessInv, Child, Final, Lefts
    <2>3. 1 \in 1 .. k - 1 /\ 1 \in 1 .. Len(procs[i].frames)
      BY <1>2, <2>2
    <2>4. Len(procs[i].frames[1].path) < Len(f.path)
      BY <1>2, <2>3 DEF ProcessInv, Nested
    <2>5. Len(Top(o).path) <= Len(procs[i].frames[1].path)
      BY <1>2, <2>1, <2>3 DEF ProcessInv, Nested
    <2>6. Len(procs[i].frames[1].path) \in Nat
      BY <2>3, StackFacts
    <2> QED  BY <1>2, <1>4, <2>4, <2>5, <2>6
  <1>9. CASE l > i
    <2> DEFINE t == Len(procs[i].frames)
    <2>1. i < Len(procs) /\ i \in 1 .. l - 1 /\ i \in Nat
      BY <1>2, <1>5, <1>9
    <2>2. Top(procs[i]) = procs[i].frames[t] /\ Top(procs[i]).pc = "wait" /\ t \in 1 .. t
          /\ Len(Top(procs[i]).path) \in Nat
      BY <2>1, StackFacts
    <2>3. k # t
      BY <2>2
    <2>4. k \in 1 .. t - 1
      BY <1>2, <2>3
    <2>5. Len(f.path) < Len(procs[i].frames[t].path)
      BY <1>2, <2>2, <2>4 DEF ProcessInv, Nested
    <2>6. Len(Top(procs[i]).path) <= Len(o.frames[m].path)
      BY <1>6, <2>1 DEF ProcessInv, Nested
    <2>7. Len(o.frames[m].path) = Len(f.path)
      BY <1>4, <1>6
    <2> QED  BY <1>2, <2>2, <2>5, <2>6, <2>7
  <1>10. i \in Nat
    BY StackFacts
  <1> QED  BY <1>5, <1>7, <1>8, <1>9, <1>10

\* The parent of the left command waits with the read end as its input.
LEMMA ReaderThere ==
    ASSUME IInv, NEW i \in 1 .. Len(procs), NEW k \in 1 .. Len(procs[i].frames),
           procs[i].frames[k].pc = "left_end"
    PROVE  \E j \in 1 .. i - 1 : Holds(j, PipeEnd(procs[i].frames[k].path, "r"))
  <1> DEFINE f == procs[i].frames[k]
             o == procs[i - 1]
             m == Len(o.frames)
  <1>1. ProcessInv(commands, procs, i, procs[i]) /\ Len(procs) \in Nat /\ i \in Nat
    BY StackFacts
  <1>2. i > 1 /\ Top(o).path = f.path /\ CommandAt(commands, f.path).type = "PIPE"
    <2>1. f.pc \in Lefts
      BY DEF Lefts
    <2>2. i > 1 /\ Top(o).path = f.path
      BY <1>1, <2>1 DEF ProcessInv, Child
    <2>3. PcFits(f.pc, CommandAt(commands, f.path).type)
      BY <1>1 DEF ProcessInv, FrameInv
    <2> QED  BY <2>2, <2>3 DEF PcFits
  <1>3. i - 1 \in 1 .. Len(procs) /\ i - 1 < Len(procs) /\ i - 1 \in 1 .. i - 1
    BY <1>1, <1>2
  <1>4. /\ Top(o) = o.frames[m] /\ Top(o).pc = "wait" /\ m \in 1 .. m
        /\ ProcessInv(commands, procs, i - 1, o)
    BY <1>3, StackFacts
  <1>5. Under(o, m) = o.fd
    BY DEF Under
  <1>6. Stream(commands, Top(o), 0, o.fd[0])
    BY <1>4, <1>5 DEF ProcessInv, FrameInv
  <1>7. Piping(commands, Top(o))
    BY <1>2, <1>4 DEF Piping
  <1>8. o.fd[0] = PipeEnd(f.path, "r")
    BY <1>2, <1>6, <1>7 DEF Stream
  <1>9. 0 \in Fds
    BY Descriptors DEF Fds
  <1> QED  BY <1>3, <1>8, <1>9 DEF Holds

\* While the left command of a pipe runs its reader is there, and when the
\* right command runs nothing holds the write end any more.
THEOREM ExecPipeEndsHeld == ExecSpec => []PipeEndsHeld
  <1>1. IInv => PipeEndsHeld
    BY NoWriterLeft, ReaderThere DEF PipeEndsHeld
  <1> QED  BY <1>1, ExecInvariant, PTL

=============================================================================
