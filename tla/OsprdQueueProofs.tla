-------------------------- MODULE OsprdQueueProofs --------------------------
(***************************************************************************)
(* What is proved of the tickets of the ramdisk lock.                      *)
(***************************************************************************)
EXTENDS OsprdLockProofs, SequenceTheorems, WellOrder

-----------------------------------------------------------------------------
(* The lists. *)

\* Where the loop over killed_list is after i nodes, one node at a time.
DrainStep(list, i, s) ==
    IF list[i] = s.tail THEN [tail |-> s.tail + 1, from |-> i + 1]
    ELSE IF list[i] < s.tail THEN [s EXCEPT !.from = i + 1]
    ELSE s

\* The loop runs: it has a state after every node, the last of which is the
\* result.
LEMMA DrainedSteps ==
    ASSUME NEW list \in Seq(Nat), NEW tail
    PROVE  \E g : /\ g[0] = [tail |-> tail, from |-> 1]
                  /\ \A i \in 1 .. Len(list) : g[i] = DrainStep(list, i, g[i - 1])
                  /\ Drained(list, tail) = g[Len(list)]
  <1> DEFINE F(g, n) == [i \in 0 .. n |-> IF i = 0 THEN [tail |-> tail, from |-> 1]
                                          ELSE DrainStep(list, i, g[i - 1])]
             T == {n \in Nat : \E g : g = F(g, n)}
  <1>1. 0 \in T
    <2>1. [i \in 0 .. 0 |-> [tail |-> tail, from |-> 1]] = F([i \in 0 .. 0 |-> [tail |-> tail, from |-> 1]], 0)
      OBVIOUS
    <2> QED  BY <2>1
  <1>2. ASSUME NEW n \in T PROVE n + 1 \in T
    <2>1. PICK g : g = F(g, n)  OBVIOUS
    <2> DEFINE h == [i \in 0 .. n + 1 |-> IF i = n + 1 THEN DrainStep(list, n + 1, g[n]) ELSE g[i]]
    <2>2. \A i \in 0 .. n : h[i] = g[i]
      OBVIOUS
    <2>3. h = F(h, n + 1)
      <3>1. ASSUME NEW i \in 0 .. n + 1 PROVE h[i] = F(h, n + 1)[i]
        <4>1. CASE i = n + 1
          BY <4>1
        <4>2. CASE i # n + 1
          <5>1. i \in 0 .. n /\ (i # 0 => i - 1 \in 0 .. n)  BY <4>2
          <5>2. g[i] = IF i = 0 THEN [tail |-> tail, from |-> 1] ELSE DrainStep(list, i, g[i - 1])
            BY <2>1, <5>1
          <5> QED  BY <2>2, <5>1, <5>2
        <4> QED  BY <4>1, <4>2
      <3> QED  BY <3>1
    <2>4. n + 1 \in Nat /\ \E k : k = F(k, n + 1)
      <3> HIDE DEF h, F
      <3> QED  BY <2>3
    <2> QED  BY <2>4
  <1>3. T = Nat
    <2> HIDE DEF T
    <2>1. T \subseteq Nat  BY DEF T
    <2> QED  BY <1>1, <1>2, <2>1, AllNaturals
  <1>4. \E g : g = F(g, Len(list))
    BY <1>3
  <1> DEFINE step == CHOOSE g : g = F(g, Len(list))
  <1>5. step = F(step, Len(list))
    BY <1>4
  <1>6. Drained(list, tail) = step[Len(list)]
    BY DEF Drained, DrainStep
  <1> HIDE DEF step
  <1>7. Len(list) \in Nat
    OBVIOUS
  <1>8. step[0] = [tail |-> tail, from |-> 1]
    BY <1>5, <1>7
  <1>9. \A i \in 1 .. Len(list) : step[i] = DrainStep(list, i, step[i - 1])
    BY <1>5, <1>7
  <1> QED  BY <1>6, <1>8, <1>9

\* The tail moves forward and stops in front of every ticket that is not in
\* the list.
LEMMA DrainedStops ==
    ASSUME NEW list \in Seq(Nat), NEW tail \in Nat, NEW S \in SUBSET Nat,
           \A s \in S : tail <= s /\ ~InList(s, list)
    PROVE  /\ Drained(list, tail).tail \in Nat
           /\ tail <= Drained(list, tail).tail
           /\ Drained(list, tail).from \in 1 .. Len(list) + 1
           /\ \A s \in S : Drained(list, tail).tail <= s
  <1>1. PICK g : /\ g[0] = [tail |-> tail, from |-> 1]
                 /\ \A i \in 1 .. Len(list) : g[i] = DrainStep(list, i, g[i - 1])
                 /\ Drained(list, tail) = g[Len(list)]
    BY DrainedSteps
  <1> DEFINE Good(i) == /\ g[i] \in [tail : Nat, from : Nat]
                        /\ 1 <= g[i].from /\ g[i].from <= i + 1
                        /\ tail <= g[i].tail
                        /\ \A s \in S : g[i].tail <= s
             T == {i \in 0 .. Len(list) : Good(i)}
  <1>2. Len(list) \in Nat
    OBVIOUS
  <1>3. 0 \in T
    <2>1. g[0] = [tail |-> tail, from |-> 1]
      BY <1>1
    <2>2. g[0] \in [tail : Nat, from : Nat] /\ g[0].tail = tail /\ g[0].from = 1
      BY ONLY <2>1, tail \in Nat
    <2>3. \A s \in S : tail <= s
      OBVIOUS
    <2>4. 1 <= 1 /\ 1 <= 0 + 1 /\ tail <= tail /\ 0 \in 0 .. Len(list)
      BY <1>2
    <2>5. Good(0)
      BY ONLY <2>2, <2>3, <2>4
    <2> HIDE DEF Good
    <2> QED  BY <2>4, <2>5
  <1>4. \A i \in 0 .. Len(list) - 1 : i \in T => i + 1 \in T
    <2> SUFFICES ASSUME NEW i \in 0 .. Len(list) - 1, Good(i)
                 PROVE  Good(i + 1)
      <3>1. \A i \in 0 .. Len(list) - 1 : i + 1 \in 0 .. Len(list)
        BY <1>2
      <3> HIDE DEF Good
      <3> QED  BY <3>1
    <2>1. i + 1 \in 1 .. Len(list) /\ list[i + 1] \in Nat
      BY <1>2
    <2>2. g[i + 1] = DrainStep(list, i + 1, g[i])
      <3>1. (i + 1) - 1 = i  OBVIOUS
      <3> QED  BY <1>1, <2>1, <3>1
    <2>3. \A s \in S : s \in Nat /\ list[i + 1] # s
      BY <2>1 DEF InList
    <2>z. PICK u \in Nat, v \in Nat : g[i] = [tail |-> u, from |-> v]
      OBVIOUS
    <2>y. 1 <= v /\ v <= i + 1 /\ tail <= u /\ \A s \in S : u <= s
      BY <2>z
    <2>x. (i + 1) + 1 = i + 2 /\ i + 2 \in Nat /\ i \in Nat
      OBVIOUS
    <2> SUFFICES \E m \in Nat, n \in Nat :
                    /\ g[i + 1] = [tail |-> m, from |-> n]
                    /\ 1 <= n /\ n <= i + 2 /\ tail <= m /\ \A s \in S : m <= s
      <3>1. ASSUME NEW m \in Nat, NEW n \in Nat, g[i + 1] = [tail |-> m, from |-> n]
            PROVE  g[i + 1] \in [tail : Nat, from : Nat] /\ g[i + 1].tail = m /\ g[i + 1].from = n
        BY <3>1
      <3> QED  BY <2>x, <3>1
    <2>4. CASE list[i + 1] = u
      <3>1. g[i + 1] = [tail |-> u + 1, from |-> i + 2]
        BY <2>z, <2>x, <2>2, <2>4 DEF DrainStep
      <3>2. \A s \in S : u + 1 <= s
        BY <2>y, <2>3, <2>4
      <3>3. 1 <= i + 2 /\ i + 2 <= i + 2 /\ tail <= u + 1 /\ u + 1 \in Nat
        BY <2>y
      <3> QED  BY <2>x, <3>1, <3>2, <3>3
    <2>5. CASE list[i + 1] # u /\ list[i + 1] < u
      <3>1. g[i + 1] = [tail |-> u, from |-> i + 2]
        BY <2>z, <2>x, <2>2, <2>5 DEF DrainStep
      <3>2. 1 <= i + 2 /\ i + 2 <= i + 2
        OBVIOUS
      <3> QED  BY <2>x, <2>y, <3>1, <3>2
    <2>6. CASE list[i + 1] # u /\ ~(list[i + 1] < u)
      <3>1. g[i + 1] = [tail |-> u, from |-> v]
        BY <2>z, <2>2, <2>6 DEF DrainStep
      <3>2. v <= i + 2
        BY <2>y
      <3> QED  BY <2>y, <3>1, <3>2
    <2> QED  BY <2>4, <2>5, <2>6
  <1>5. Good(Len(list))
    <2> HIDE DEF T
    <2>1. 0 .. Len(list) \subseteq T
      BY <1>2, <1>3, <1>4, AllUpTo
    <2>2. Len(list) \in T
      BY <1>2, <2>1
    <2> QED  BY <2>2 DEF T
  <1> QED  BY <1>1, <1>5

\* A ticket that is put into killed_list is added to it; others can only be
\* lost.
LEMMA InsertKilledAdds ==
    ASSUME NEW t \in Nat, NEW list \in Seq(Nat)
    PROVE  /\ InsertKilled(t, list) \in Seq(Nat)
           /\ \A x : InList(x, InsertKilled(t, list)) => x = t \/ InList(x, list)
  <1> DEFINE later == {i \in 2 .. Len(list) : list[i] >= t}
             at == CHOOSE i \in later : \A j \in later : i <= j
             r == InsertKilled(t, list)
  <1>0. Len(list) \in Nat
    OBVIOUS
  <1>1. CASE list = <<>>
    BY <1>1 DEF InsertKilled, InList
  <1>2. CASE list # <<>> /\ later # {}
    <2>1. at \in 2 .. Len(list)
      <3>0. later \subseteq Nat
        OBVIOUS
      <3>1. \E i \in later : \A j \in later : i <= j
        <4> HIDE DEF later
        <4> QED  BY <1>2, <3>0, LeastNatural
      <3> QED  BY <3>1
    <2> DEFINE a == SubSeq(list, 1, at - 1)
               b == SubSeq(list, at, Len(list))
    <2>2. r = a \o <<t>> \o b
      BY <1>2 DEF InsertKilled
    <2> HIDE DEF at, r
    <2>3. /\ a \in Seq(Nat) /\ Len(a) = at - 1
          /\ \A i \in 1 .. at - 1 : a[i] = list[i]
      BY <1>0, <2>1
    <2>4. /\ b \in Seq(Nat) /\ Len(b) = Len(list) - at + 1
          /\ \A i \in 1 .. Len(list) - at + 1 : b[i] = list[at + i - 1]
      BY <1>0, <2>1
    <2> HIDE DEF a, b
    <2>5. /\ a \o <<t>> \in Seq(Nat) /\ Len(a \o <<t>>) = at
          /\ \A i \in 1 .. at : (a \o <<t>>)[i] = IF i < at THEN list[i] ELSE t
      BY <2>1, <2>3
    <2>6. /\ r \in Seq(Nat) /\ Len(r) = Len(list) + 1
          /\ \A i \in 1 .. Len(list) + 1 :
               r[i] = IF i < at THEN list[i] ELSE IF i = at THEN t ELSE list[i - 1]
      <3> DEFINE c == a \o <<t>>
      <3> HIDE DEF c
      <3>1. c \in Seq(Nat) /\ Len(c) = at /\ r = c \o b
            /\ \A i \in 1 .. at : c[i] = IF i < at THEN list[i] ELSE t
        BY <2>2, <2>5 DEF c
      <3>2. /\ c \o b \in Seq(Nat) /\ Len(c \o b) = Len(c) + Len(b)
            /\ \A i \in 1 .. Len(c) + Len(b) :
                  (c \o b)[i] = IF i <= Len(c) THEN c[i] ELSE b[i - Len(c)]
        BY <2>4, <3>1, ConcatProperties
      <3>3. Len(c) + Len(b) = Len(list) + 1
        BY <1>0, <2>1, <2>4, <3>1
      <3>4. ASSUME NEW i \in 1 .. Len(list) + 1
            PROVE  r[i] = IF i < at THEN list[i] ELSE IF i = at THEN t ELSE list[i - 1]
        <4>1. CASE i <= at
          BY <2>1, <3>1, <3>2, <3>3, <4>1
        <4>2. CASE i > at
          <5>1. i - at \in 1 .. Len(list) - at + 1 /\ at + (i - at) - 1 = i - 1
            BY <1>0, <2>1, <4>2
          <5>2. r[i] = b[i - at] /\ b[i - at] = list[i - 1]
            <6>1. b[i - at] = list[at + (i - at) - 1]
              BY <2>4, <5>1
            <6>2. ~(i <= Len(c)) /\ i \in 1 .. Len(c) + Len(b)
              BY <2>1, <3>1, <3>3, <4>2
            <6>3. (c \o b)[i] = b[i - Len(c)]
              BY <3>2, <6>2
            <6> QED  BY <3>1, <5>1, <6>1, <6>3
          <5> QED  BY <2>1, <4>2, <5>2
        <4> QED  BY <2>1, <4>1, <4>2
      <3> QED  BY <3>1, <3>2, <3>3, <3>4
    <2>7. ASSUME NEW i \in DOMAIN r PROVE r[i] = t \/ InList(r[i], list)
      <3>1. i \in 1 .. Len(list) + 1
        BY <1>0, <2>6
      <3>2. CASE i < at
        <4>1. i \in DOMAIN list /\ r[i] = list[i]
          BY <1>0, <2>1, <2>6, <3>1, <3>2
        <4> QED  BY <4>1 DEF InList
      <3>3. CASE i = at
        BY <1>0, <2>1, <2>6, <3>1, <3>3
      <3>4. CASE i > at
        <4>1. i - 1 \in DOMAIN list /\ r[i] = list[i - 1]
          BY <1>0, <2>1, <2>6, <3>1, <3>4
        <4> QED  BY <4>1 DEF InList
      <3> QED  BY <2>1, <3>1, <3>2, <3>3, <3>4
    <2> QED  BY <2>6, <2>7 DEF InList, r
  <1>3. CASE list # <<>> /\ later = {} /\ t < list[Len(list)]
    <2>1. r = <<t, list[Len(list)]>>
      BY <1>3 DEF InsertKilled
    <2>2. Len(list) \in DOMAIN list /\ list[Len(list)] \in Nat
      BY <1>3
    <2> HIDE DEF r
    <2>3. r \in Seq(Nat) /\ Len(r) = 2 /\ r[1] = t /\ r[2] = list[Len(list)]
      BY <2>1, <2>2
    <2> QED  BY <2>2, <2>3 DEF InList, r
  <1>4. CASE list # <<>> /\ later = {} /\ ~(t < list[Len(list)])
    <2>1. r = Append(list, t)
      BY <1>4 DEF InsertKilled
    <2> QED  BY <2>1 DEF InList
  <1> QED  BY <1>1, <1>2, <1>3, <1>4

-----------------------------------------------------------------------------
(* The tickets. *)

TicketShape ==
    /\ ticket_head \in Nat /\ ticket_tail \in Nat /\ ticket_tail <= ticket_head
    /\ killed_list \in Seq(Nat)
    /\ pc \in [Procs -> PCs] /\ cur_ticket \in [Procs -> Nat]

\* A process that found that it is its turn is still the next.
Turn == \A p \in Procs : pc[p] = "passed" => cur_ticket[p] = ticket_tail

\* The tickets of requests that wait, or are about to be given up, are still
\* to be served, and nobody else's.
OwnTicket ==
    \A p \in Queued :
        /\ ticket_tail <= cur_ticket[p] /\ cur_ticket[p] < ticket_head
        /\ ~InList(cur_ticket[p], killed_list)
        /\ \A q \in Queued \ {p} : cur_ticket[q] # cur_ticket[p]

\* Killed tickets were given out.
KilledGivenOut == \A x : InList(x, killed_list) => x \in Nat /\ x < ticket_head

TicketInv == TicketShape /\ OneInKernel /\ Turn /\ OwnTicket /\ KilledGivenOut

\* A step of p that leaves the tickets alone and moves p, within the queue or
\* without having been in it.
LEMMA TicketsLeft ==
    ASSUME TicketInv, Smp = FALSE, NEW p \in Procs, CanRun(p), NEW where \in PCs,
           pc' = [pc EXCEPT ![p] = where],
           UNCHANGED <<ticket_head, ticket_tail, killed_list, cur_ticket>>,
           p \notin Queued => where \in {"user", "tried"},
           where = "passed" => cur_ticket[p] = ticket_tail
    PROVE  TicketInv'
  <1>1. TicketShape'
    BY DEF TicketInv, TicketShape
  <1>2. OneInKernel'
    BY DEF TicketInv, TicketShape, OneInKernel, CanRun
  <1>3. Turn'
    BY DEF TicketInv, TicketShape, Turn
  <1>4. Queued' \subseteq Queued
    BY DEF TicketInv, TicketShape, Queued
  <1>5. OwnTicket'
    BY <1>4 DEF TicketInv, OwnTicket
  <1>6. KilledGivenOut'
    BY DEF TicketInv, KilledGivenOut
  <1> QED  BY <1>1, <1>2, <1>3, <1>5, <1>6 DEF TicketInv

\* A step of p out of the kernel that moves the tail forward, up to tickets
\* that are still waiting, and changes the killed tickets.
LEMMA TailMoves ==
    ASSUME TicketInv, Smp = FALSE, NEW p \in Procs, CanRun(p),
           pc' = [pc EXCEPT ![p] = "user"], cur_ticket' \in [Procs -> Nat],
           \A q \in Procs \ {p} : cur_ticket'[q] = cur_ticket[q],
           ticket_head' \in Nat, ticket_head <= ticket_head',
           ticket_tail' \in Nat, ticket_tail' <= ticket_head',
           killed_list' \in Seq(Nat),
           \A q \in Queued \ {p} : ticket_tail' <= cur_ticket[q],
           \A x : InList(x, killed_list') =>
               InList(x, killed_list) \/ (p \in Queued /\ x = cur_ticket[p])
    PROVE  TicketInv'
  <1>1. TicketShape'
    BY DEF TicketInv, TicketShape, PCs
  <1>2. \A q \in Procs : pc'[q] \notin InKernel
    BY DEF TicketInv, TicketShape, CanRun, InKernel
  <1>3. OneInKernel' /\ Turn'
    BY <1>2 DEF OneInKernel, Turn, InKernel
  <1>4. Queued' = Queued \ {p} /\ Queued \subseteq Procs
    BY DEF TicketInv, TicketShape, Queued
  <1>5. OwnTicket'
    <2> SUFFICES ASSUME NEW q \in Queued \ {p}
                 PROVE  /\ ticket_tail' <= cur_ticket'[q] /\ cur_ticket'[q] < ticket_head'
                        /\ ~InList(cur_ticket'[q], killed_list')
                        /\ \A r \in Queued' \ {q} : cur_ticket'[r] # cur_ticket'[q]
      BY <1>4 DEF OwnTicket, InList
    <2>1. cur_ticket'[q] = cur_ticket[q] /\ cur_ticket[q] \in Nat
      BY <1>4 DEF TicketInv, TicketShape
    <2>2. cur_ticket[q] < ticket_head /\ ticket_head \in Nat
      BY <1>4 DEF TicketInv, OwnTicket, TicketShape
    <2>3. ~InList(cur_ticket[q], killed_list) /\ (p \in Queued => cur_ticket[q] # cur_ticket[p])
      BY <1>4 DEF TicketInv, OwnTicket
    <2>4. \A r \in Queued' \ {q} : cur_ticket'[r] # cur_ticket'[q]
      BY <1>4, <2>1 DEF TicketInv, OwnTicket
    <2>5. cur_ticket'[q] < ticket_head'
      BY <2>1, <2>2
    <2> QED  BY <2>1, <2>3, <2>4, <2>5
  <1>6. KilledGivenOut'
    <2> SUFFICES ASSUME NEW x, InList(x, killed_list') PROVE x \in Nat /\ x < ticket_head'
      BY DEF KilledGivenOut, InList
    <2>1. x \in Nat /\ x < ticket_head
      BY <1>4 DEF TicketInv, TicketShape, KilledGivenOut, OwnTicket
    <2> QED  BY <2>1 DEF TicketInv, TicketShape
  <1> QED  BY <1>1, <1>3, <1>5, <1>6 DEF TicketInv

\* Granting the lock: the tail passes the ticket t that is granted and the
\* killed ones behind it, and no other.
LEMMA TailAfterGrant ==
    ASSUME TicketInv, NEW p, NEW f, NEW t, Granted(p, f, t),
           NEW S \in SUBSET Nat, \A s \in S : ticket_tail < s /\ ~InList(s, killed_list)
    PROVE  /\ ticket_tail' \in Nat /\ ticket_tail < ticket_tail'
           /\ \A s \in S : ticket_tail' <= s
           /\ killed_list' \in Seq(Nat)
           /\ \A x : InList(x, killed_list') => InList(x, killed_list)
  <1> DEFINE d == Drained(killed_list, ticket_tail + 1)
  <1>1. killed_list \in Seq(Nat) /\ ticket_tail \in Nat /\ ticket_tail + 1 \in Nat
    BY DEF TicketInv, TicketShape
  <1>2. \A s \in S : ticket_tail + 1 <= s /\ ~InList(s, killed_list)
    BY <1>1
  <1>3. /\ d.tail \in Nat /\ ticket_tail + 1 <= d.tail
        /\ d.from \in 1 .. Len(killed_list) + 1
        /\ \A s \in S : d.tail <= s
    BY <1>1, <1>2, DrainedStops
  <1>4. ticket_tail' = d.tail /\ killed_list' = SubSeq(killed_list, d.from, Len(killed_list))
    BY DEF Granted
  <1> HIDE DEF d
  <1>5. Len(killed_list) \in Nat /\ \A i \in d.from .. Len(killed_list) : killed_list[i] \in Nat
    BY <1>1, <1>3
  <1>6. /\ killed_list' \in Seq(Nat)
        /\ Len(killed_list') = IF d.from <= Len(killed_list) THEN Len(killed_list) - d.from + 1 ELSE 0
        /\ \A i \in 1 .. Len(killed_list) - d.from + 1 : killed_list'[i] = killed_list[d.from + i - 1]
    BY <1>3, <1>4, <1>5, SubSeqProperties
  <1>7. ASSUME NEW i \in DOMAIN killed_list' PROVE InList(killed_list'[i], killed_list)
    <2>1. i \in 1 .. Len(killed_list) - d.from + 1
      BY <1>3, <1>5, <1>6, <1>7
    <2>2. d.from + i - 1 \in DOMAIN killed_list
      BY <1>1, <1>3, <1>5, <2>1
    <2> QED  BY <1>6, <2>1, <2>2 DEF InList
  <1>8. \A x : InList(x, killed_list') => InList(x, killed_list)
    BY <1>7 DEF InList
  <1> QED  BY <1>1, <1>3, <1>4, <1>6, <1>8

\* A request that is granted at once finds nobody waiting.
LEMMA NobodyWaits ==
    ASSUME TicketInv, ticket_head = ticket_tail
    PROVE  Queued = {}
  <1> SUFFICES ASSUME NEW p \in Queued PROVE FALSE  OBVIOUS
  <1>1. p \in Procs /\ ticket_tail <= cur_ticket[p] /\ cur_ticket[p] < ticket_head
    BY DEF TicketInv, OwnTicket, Queued
  <1>2. cur_ticket[p] \in Nat /\ ticket_head \in Nat
    BY <1>1 DEF TicketInv, TicketShape
  <1> QED  BY <1>1, <1>2

\* The invariant holds at first.
LEMMA InitTicketInv == Init => TicketInv
  BY DEF Init, TicketInv, TicketShape, OneInKernel, Turn, OwnTicket, KilledGivenOut, Queued,
     InList, PCs, InKernel

\* Every step preserves it on a kernel without SMP.
LEMMA NextTicketInv ==
    ASSUME Smp = FALSE, TicketInv, [Next]_vars
    PROVE  TicketInv'
  <1>0. TicketShape /\ Owner \in [Files -> Procs]
    BY LockAssumption DEF TicketInv
  <1>p. {"user", "waiting", "counted", "passed", "interrupted", "tried"} = PCs
    BY DEF PCs
  <1>1. ASSUME UNCHANGED <<ticket_head, ticket_tail, killed_list, pc, cur_ticket>>
        PROVE  TicketInv'
    BY <1>1 DEF TicketInv, TicketShape, OneInKernel, Turn, OwnTicket, KilledGivenOut, Queued,
       InList
  <1>2. ASSUME NEW p \in Procs, CheckCounters(p) PROVE TicketInv'
    <2>1. p \in Queued /\ CanRun(p)
          /\ UNCHANGED <<ticket_head, ticket_tail, killed_list, cur_ticket>>
      BY <1>2 DEF CheckCounters, device, Queued
    <2>2. PICK where \in {"counted", "interrupted", "waiting"} : pc' = [pc EXCEPT ![p] = where]
      BY <1>2 DEF CheckCounters, KeepWaiting
    <2> QED  BY <1>p, <2>1, <2>2, TicketsLeft
  <1>3. ASSUME NEW p \in Procs, CheckTicket(p) PROVE TicketInv'
    <2>1. p \in Queued /\ CanRun(p)
          /\ UNCHANGED <<ticket_head, ticket_tail, killed_list, cur_ticket>>
      BY <1>3 DEF CheckTicket, device, Queued
    <2>2. PICK where \in {"passed", "interrupted", "waiting"} :
             pc' = [pc EXCEPT ![p] = where] /\ (where = "passed" => cur_ticket[p] = ticket_tail)
      BY <1>3 DEF CheckTicket, KeepWaiting
    <2> QED  BY <1>p, <2>1, <2>2, TicketsLeft
  <1>4. ASSUME NEW p \in Procs, Grant(p) PROVE TicketInv'
    <2>1. /\ pc[p] = "passed" /\ p \in Queued /\ CanRun(p) /\ ticket_head' = ticket_head
          /\ pc' = [pc EXCEPT ![p] = "user"] /\ cur_ticket' = [cur_ticket EXCEPT ![p] = 0]
          /\ Granted(p, req[p], cur_ticket[p])
      BY <1>4 DEF Grant, Return, Queued
    <2>2. cur_ticket[p] = ticket_tail
      BY <2>1 DEF TicketInv, Turn
    <2> DEFINE S == {cur_ticket[q] : q \in Queued \ {p}} \cup {ticket_head}
    <2>3. S \subseteq Nat /\ Queued \subseteq Procs
      BY <1>0 DEF TicketShape, Queued
    <2>4. ASSUME NEW q \in Queued \ {p}
          PROVE  ticket_tail < cur_ticket[q] /\ ~InList(cur_ticket[q], killed_list)
      <3>1. /\ ticket_tail <= cur_ticket[q] /\ cur_ticket[q] # cur_ticket[p]
            /\ ~InList(cur_ticket[q], killed_list)
        BY <2>1 DEF TicketInv, OwnTicket
      <3> QED  BY <1>0, <2>2, <2>3, <3>1 DEF TicketShape
    <2>5. ticket_tail < ticket_head /\ ~InList(ticket_head, killed_list)
      BY <1>0, <2>1, <2>2 DEF TicketInv, TicketShape, OwnTicket, KilledGivenOut
    <2>6. \A s \in S : ticket_tail < s /\ ~InList(s, killed_list)
      BY <2>4, <2>5
    <2>7. /\ ticket_tail' \in Nat /\ \A s \in S : ticket_tail' <= s
          /\ killed_list' \in Seq(Nat)
          /\ \A x : InList(x, killed_list') => InList(x, killed_list)
      <3> HIDE DEF S
      <3> QED  BY <2>1, <2>3, <2>6, TailAfterGrant
    <2>8. /\ cur_ticket' \in [Procs -> Nat] /\ \A q \in Procs \ {p} : cur_ticket'[q] = cur_ticket[q]
          /\ ticket_head' \in Nat /\ ticket_head <= ticket_head'
      BY <1>0, <2>1 DEF TicketShape
    <2> QED  BY <2>1, <2>7, <2>8, TailMoves
  <1>5. ASSUME NEW p \in Procs, Interrupted(p) PROVE TicketInv'
    <2>1. /\ p \in Queued /\ CanRun(p) /\ ticket_head' = ticket_head
          /\ pc' = [pc EXCEPT ![p] = "user"] /\ cur_ticket' = [cur_ticket EXCEPT ![p] = 0]
      BY <1>5 DEF Interrupted, Return, Queued
    <2>2. /\ cur_ticket' \in [Procs -> Nat] /\ \A q \in Procs \ {p} : cur_ticket'[q] = cur_ticket[q]
          /\ ticket_head' \in Nat /\ ticket_head <= ticket_head' /\ cur_ticket[p] \in Nat
      BY <1>0, <2>1 DEF TicketShape
    <2>3. \A q \in Queued \ {p} : /\ ticket_tail <= cur_ticket[q] /\ cur_ticket[q] \in Nat
                                  /\ cur_ticket[q] # cur_ticket[p]
      BY <1>0, <2>1 DEF TicketInv, OwnTicket, TicketShape, Queued
    <2>4. CASE cur_ticket[p] = ticket_tail /\ ticket_tail' = ticket_tail + 1 /\ UNCHANGED killed_list
      <3>1. ticket_tail' \in Nat /\ ticket_tail' <= ticket_head' /\ killed_list' \in Seq(Nat)
        BY <1>0, <2>1, <2>2, <2>4 DEF TicketInv, OwnTicket, TicketShape
      <3>2. \A q \in Queued \ {p} : ticket_tail' <= cur_ticket[q]
        BY <1>0, <2>3, <2>4 DEF TicketShape
      <3> QED  BY <2>1, <2>2, <2>4, <3>1, <3>2, TailMoves
    <2>5. CASE killed_list' = InsertKilled(cur_ticket[p], killed_list) /\ UNCHANGED ticket_tail
      <3>1. /\ killed_list' \in Seq(Nat)
            /\ \A x : InList(x, killed_list') => x = cur_ticket[p] \/ InList(x, killed_list)
        BY <1>0, <2>2, <2>5, InsertKilledAdds DEF TicketShape
      <3>2. ticket_tail' \in Nat /\ ticket_tail' <= ticket_head'
        BY <1>0, <2>1, <2>5 DEF TicketShape
      <3> QED  BY <2>1, <2>2, <2>3, <2>5, <3>1, <3>2, TailMoves
    <2> QED  BY <1>5, <2>4, <2>5 DEF Interrupted
  <1>6. ASSUME NEW p \in Procs, TryLocks(p) PROVE TicketInv'
    <2>1. /\ p \notin Queued /\ CanRun(p) /\ pc' = [pc EXCEPT ![p] = "user"]
          /\ cur_ticket' = [cur_ticket EXCEPT ![p] = 0]
          /\ UNCHANGED <<ticket_head, ticket_tail, killed_list>>
      BY <1>6 DEF TryLocks, Return, Queued
    <2>2. /\ cur_ticket' \in [Procs -> Nat] /\ \A q \in Procs \ {p} : cur_ticket'[q] = cur_ticket[q]
          /\ ticket_head' \in Nat /\ ticket_head <= ticket_head'
          /\ ticket_tail' \in Nat /\ ticket_tail' <= ticket_head' /\ killed_list' \in Seq(Nat)
      BY <1>0, <2>1 DEF TicketShape
    <2>3. \A q \in Queued \ {p} : ticket_tail' <= cur_ticket[q]
      BY <2>1 DEF TicketInv, OwnTicket
    <2> QED  BY <2>1, <2>2, <2>3, TailMoves
  <1>7. ASSUME NEW p \in Procs, Signal(p) PROVE TicketInv'
    BY <1>1, <1>7 DEF Signal, device
  <1>8. ASSUME NEW f \in Files, Open(Owner[f], f) PROVE TicketInv'
    BY <1>1, <1>8 DEF Open, device, process
  <1>9. ASSUME NEW f \in Files, Close(Owner[f], f) PROVE TicketInv'
    <2>1. CASE Unlock(Owner[f], f) /\ UNCHANGED <<pc, req, cur_ticket, signals>>
      BY <1>1, <2>1 DEF Unlock
    <2>2. CASE UNCHANGED <<device, locked, process, holds>>
      BY <1>1, <2>2 DEF device, process
    <2> QED  BY <1>9, <2>1, <2>2 DEF Close
  <1>10. ASSUME NEW f \in Files, Acquire(Owner[f], f) PROVE TicketInv'
    <2> DEFINE p == Owner[f]
    <2>0. p \in Procs /\ CanRun(p) /\ pc[p] = "user"
      BY <1>0, <1>10 DEF Acquire
    <2>1. CASE AcquireDeadlk(p, f)
      BY <1>1, <2>1 DEF AcquireDeadlk, vars, device, process
    <2>2. CASE AcquireNow(p, f)
      <3>1. /\ ticket_head = ticket_tail /\ ticket_head' = ticket_head + 1
            /\ Granted(p, f, ticket_head) /\ pc' = pc /\ cur_ticket' = cur_ticket
        BY <2>2 DEF AcquireNow, process
      <3>2. Queued = {}
        BY <3>1, NobodyWaits
      <3>3. ticket_tail < ticket_head + 1 /\ ~InList(ticket_head + 1, killed_list)
        BY <1>0, <3>1 DEF TicketInv, TicketShape, KilledGivenOut
      <3>4. {ticket_head + 1} \in SUBSET Nat
        BY <1>0 DEF TicketShape
      <3>5. /\ ticket_tail' \in Nat /\ ticket_tail' <= ticket_head'
            /\ killed_list' \in Seq(Nat)
            /\ \A x : InList(x, killed_list') => InList(x, killed_list)
        BY <3>1, <3>3, <3>4, TailAfterGrant
      <3>6. /\ pc' = [pc EXCEPT ![p] = "user"] /\ cur_ticket' \in [Procs -> Nat]
            /\ ticket_head' \in Nat /\ ticket_head <= ticket_head'
        BY <1>0, <2>0, <3>1 DEF TicketShape
      <3> QED  BY <2>0, <3>1, <3>2, <3>5, <3>6, TailMoves
    <2>3. CASE AcquireWait(p, f)
      <3>1. /\ pc' = [pc EXCEPT ![p] = "waiting"]
            /\ cur_ticket' = [cur_ticket EXCEPT ![p] = ticket_head]
            /\ ticket_head' = ticket_head + 1
            /\ UNCHANGED <<ticket_tail, killed_list>>
        BY <2>3 DEF AcquireWait
      <3>2. Queued' = Queued \cup {p} /\ p \notin Queued /\ Queued \subseteq Procs
        BY <1>0, <2>0, <3>1 DEF Queued, TicketShape
      <3>3. TicketShape'
        BY <1>0, <1>p, <2>0, <3>1 DEF TicketShape
      <3>4. OneInKernel' /\ Turn'
        BY <1>0, <2>0, <3>1 DEF TicketShape, TicketInv, OneInKernel, Turn, InKernel
      <3>5. KilledGivenOut'
        <4>1. \A x \in Nat : x < ticket_head => x < ticket_head + 1
          BY <1>0 DEF TicketShape
        <4>2. \A x : InList(x, killed_list') = InList(x, killed_list)
          BY <3>1 DEF InList
        <4> QED  BY <3>1, <4>1, <4>2 DEF TicketInv, KilledGivenOut
      <3>6. ~InList(ticket_head, killed_list) /\ ticket_head \in Nat /\ ticket_tail <= ticket_head
        BY <1>0 DEF TicketInv, KilledGivenOut, TicketShape
      <3>7. ASSUME NEW q \in Queued
            PROVE  /\ cur_ticket'[q] = cur_ticket[q] /\ cur_ticket[q] # ticket_head
                   /\ ticket_tail <= cur_ticket[q] /\ cur_ticket[q] < ticket_head + 1
                   /\ ~InList(cur_ticket[q], killed_list)
        <4>1. q \in Procs /\ q # p /\ cur_ticket[q] \in Nat
          BY <1>0, <3>2 DEF TicketShape
        <4> QED  BY <1>0, <3>1, <4>1 DEF TicketInv, OwnTicket, TicketShape
      <3>8. cur_ticket'[p] = ticket_head
        BY <1>0, <2>0, <3>1 DEF TicketShape
      <3>9. OwnTicket'
        <4> SUFFICES ASSUME NEW q \in Queued \cup {p}
                     PROVE  /\ ticket_tail' <= cur_ticket'[q] /\ cur_ticket'[q] < ticket_head'
                            /\ ~InList(cur_ticket'[q], killed_list')
                            /\ \A r \in (Queued \cup {p}) \ {q} : cur_ticket'[r] # cur_ticket'[q]
          BY <3>2 DEF OwnTicket, InList
        <4>1. CASE q = p
          BY <3>1, <3>6, <3>7, <3>8, <4>1
        <4>2. CASE q \in Queued
          BY <3>1, <3>7, <3>8, <4>2 DEF TicketInv, OwnTicket
        <4> QED  BY <4>1, <4>2
      <3> QED  BY <3>3, <3>4, <3>5, <3>9 DEF TicketInv
    <2> QED  BY <1>10, <2>1, <2>2, <2>3 DEF Acquire
  <1>11. ASSUME NEW f \in Files, TryAcquire(Owner[f], f) PROVE TicketInv'
    <2> DEFINE p == Owner[f]
    <2>0. p \in Procs /\ CanRun(p) /\ pc[p] = "user"
          /\ UNCHANGED <<ticket_head, ticket_tail, killed_list, cur_ticket>>
      BY <1>0, <1>11 DEF TryAcquire, device
    <2>1. CASE pc' = [pc EXCEPT ![p] = "tried"]
      BY <1>p, <2>0, <2>1, TicketsLeft
    <2>2. CASE UNCHANGED <<pc, req>>
      BY <1>1, <2>0, <2>2
    <2> QED  BY <1>11, <2>1, <2>2 DEF TryAcquire
  <1>12. ASSUME NEW f \in Files, Release(Owner[f], f) PROVE TicketInv'
    BY <1>1, <1>12 DEF Release, Unlock
  <1>13. CASE UNCHANGED vars
    BY <1>1, <1>13 DEF vars, device, process
  <1> QED
    BY <1>2, <1>3, <1>4, <1>5, <1>6, <1>7, <1>8, <1>9, <1>10, <1>11, <1>12, <1>13
    DEF Next, InKernelStep

\* On a kernel without SMP and preemption, whatever order signals, grants and
\* releases come in, the loop over killed_list never takes ticket_tail past a
\* ticket somebody still waits with, and no two wait with the same one.  (It
\* may stop in front of one that was given up.)
THEOREM NobodyIsPassedOver ==
    ASSUME Smp = FALSE
    PROVE  Spec => []TicketsAhead
  <1>1. Init => TicketInv
    BY InitTicketInv
  <1>2. TicketInv /\ [Next]_vars => TicketInv'
    BY NextTicketInv
  <1>3. TicketInv => TicketsAhead
    <2> SUFFICES ASSUME TicketInv PROVE TicketsAhead  OBVIOUS
    <2>1. \A p \in Procs : Waiting(p) => p \in Queued
      BY DEF Waiting, Queued
    <2> QED  BY <2>1 DEF TicketInv, OwnTicket, TicketsAhead
  <1> QED  BY <1>1, <1>2, <1>3, PTL DEF Spec

-----------------------------------------------------------------------------
(* A finite set put in the order of distinct numbers. *)

Rank(Q, c, p) == Cardinality({q \in Q : c[q] < c[p]})
InOrder(Q, c, r) ==
    [i \in 1 .. Cardinality(Q) |-> r[CHOOSE p \in Q : Rank(Q, c, p) = i - 1]]

Numbered(Q, c) ==
    /\ IsFiniteSet(Q)
    /\ \A p \in Q : c[p] \in Nat
    /\ \A p, q \in Q : c[p] = c[q] => p = q

\* Ranks are positions, and grow with the numbers.
LEMMA RankBounds ==
    ASSUME NEW Q, NEW c, Numbered(Q, c), NEW p \in Q
    PROVE  /\ Cardinality(Q) \in Nat
           /\ Rank(Q, c, p) \in 0 .. Cardinality(Q) - 1
           /\ \A q \in Q : c[p] < c[q] => Rank(Q, c, p) < Rank(Q, c, q)
  <1> DEFINE B(q) == {s \in Q : c[s] < c[q]}
  <1>1. IsFiniteSet(Q) /\ \A q \in Q : IsFiniteSet(B(q)) /\ Cardinality(B(q)) \in Nat
    <2>1. \A q \in Q : B(q) \in SUBSET Q
      OBVIOUS
    <2> HIDE DEF B
    <2>2. IsFiniteSet(Q)
      BY DEF Numbered
    <2> QED  BY <2>1, <2>2, FS_Subset, FS_CardinalityType
  <1>2. Cardinality(Q) \in Nat
    BY <1>1, FS_CardinalityType
  <1>3. Cardinality(B(p)) < Cardinality(Q)
    <2>1. B(p) \in SUBSET Q /\ p \notin B(p)
      BY DEF Numbered
    <2>2. Cardinality(B(p)) <= Cardinality(Q) /\ Cardinality(Q) # Cardinality(B(p))
      <3> HIDE DEF B
      <3> QED  BY <1>1, <2>1, FS_Subset
    <2> QED  BY <1>1, <1>2, <2>2
  <1>4. ASSUME NEW q \in Q, c[p] < c[q] PROVE Cardinality(B(p)) < Cardinality(B(q))
    <2>1. B(p) \in SUBSET B(q) /\ p \in B(q) /\ p \notin B(p)
      BY <1>4 DEF Numbered
    <2>2. Cardinality(B(p)) <= Cardinality(B(q)) /\ Cardinality(B(q)) # Cardinality(B(p))
      <3> HIDE DEF B
      <3> QED  BY <1>1, <2>1, FS_Subset
    <2> HIDE DEF B
    <2>3. Cardinality(B(p)) \in Nat /\ Cardinality(B(q)) \in Nat
      BY <1>1
    <2> QED  BY <2>2, <2>3
  <1> QED  BY <1>1, <1>2, <1>3, <1>4 DEF Rank

\* Every position is the rank of exactly one.
LEMMA RankIsPosition ==
    ASSUME NEW Q, NEW c, Numbered(Q, c)
    PROVE  /\ \A p, q \in Q : Rank(Q, c, p) = Rank(Q, c, q) => p = q
           /\ \A i \in 1 .. Cardinality(Q) : \E p \in Q : Rank(Q, c, p) = i - 1
  <1> DEFINE n == Cardinality(Q)
             f == [p \in Q |-> Rank(Q, c, p)]
  <1>1. IsFiniteSet(Q) /\ n \in Nat
    BY FS_CardinalityType DEF Numbered
  <1>2. \A p \in Q : Rank(Q, c, p) \in 0 .. n - 1
    BY RankBounds
  <1>3. ASSUME NEW p \in Q, NEW q \in Q, Rank(Q, c, p) = Rank(Q, c, q) PROVE p = q
    <2>1. ~(c[p] < c[q]) /\ ~(c[q] < c[p])
      <3>1. Rank(Q, c, p) \in Int /\ Rank(Q, c, q) \in Int
        BY <1>1, <1>2
      <3>2. ~(Rank(Q, c, p) < Rank(Q, c, q)) /\ ~(Rank(Q, c, q) < Rank(Q, c, p))
        BY <1>3, <3>1
      <3> QED  BY <3>2, RankBounds
    <2>2. c[p] = c[q]
      BY <2>1 DEF Numbered
    <2> QED  BY <2>2 DEF Numbered
  <1>4. f \in Injection(Q, 0 .. n - 1)
    <2>1. f \in [Q -> 0 .. n - 1]
      BY <1>2
    <2>2. IsInjective(f)
      BY <1>3 DEF IsInjective
    <2> QED  BY <2>1, <2>2 DEF Injection
  <1>5. IsFiniteSet(0 .. n - 1) /\ Cardinality(0 .. n - 1) = n
    BY <1>1, FS_Interval
  <1>6. f \in Surjection(Q, 0 .. n - 1)
    <2> HIDE DEF f
    <2> QED  BY <1>4, <1>5, FS_Injection
  <1>7. \A k \in 0 .. n - 1 : \E p \in Q : Rank(Q, c, p) = k
    BY <1>6 DEF Surjection
  <1>8. \A i \in 1 .. n : i - 1 \in 0 .. n - 1
    BY <1>1
  <1> QED  BY <1>3, <1>7, <1>8

\* What is at which place of the sequence.
LEMMA PlaceInOrder ==
    ASSUME NEW Q, NEW c, NEW r, Numbered(Q, c)
    PROVE  /\ Cardinality(Q) \in Nat
           /\ InOrder(Q, c, r) = [i \in 1 .. Cardinality(Q) |-> InOrder(Q, c, r)[i]]
           /\ \A p \in Q : /\ Rank(Q, c, p) + 1 \in 1 .. Cardinality(Q)
                            /\ InOrder(Q, c, r)[Rank(Q, c, p) + 1] = r[p]
           /\ \A i \in 1 .. Cardinality(Q) : \E p \in Q : Rank(Q, c, p) + 1 = i
  <1>1. Cardinality(Q) \in Nat
    BY FS_CardinalityType DEF Numbered
  <1>2. InOrder(Q, c, r) = [i \in 1 .. Cardinality(Q) |-> InOrder(Q, c, r)[i]]
    BY DEF InOrder
  <1>3. ASSUME NEW p \in Q
        PROVE  /\ Rank(Q, c, p) + 1 \in 1 .. Cardinality(Q)
               /\ InOrder(Q, c, r)[Rank(Q, c, p) + 1] = r[p]
    <2> DEFINE k == Rank(Q, c, p)
    <2>1. k \in 0 .. Cardinality(Q) - 1
      BY RankBounds
    <2>2. k + 1 \in 1 .. Cardinality(Q) /\ (k + 1) - 1 = k
      BY <1>1, <2>1
    <2>3. InOrder(Q, c, r)[k + 1] = r[CHOOSE q \in Q : Rank(Q, c, q) = k]
      BY <2>2 DEF InOrder
    <2>4. (CHOOSE q \in Q : Rank(Q, c, q) = k) = p
      BY RankIsPosition
    <2> QED  BY <2>2, <2>3, <2>4
  <1>4. ASSUME NEW i \in 1 .. Cardinality(Q) PROVE \E p \in Q : Rank(Q, c, p) + 1 = i
    <2>1. PICK p \in Q : Rank(Q, c, p) = i - 1
      BY RankIsPosition
    <2>2. (i - 1) + 1 = i
      BY <1>1
    <2> QED  BY <2>1, <2>2
  <1> QED  BY <1>1, <1>2, <1>3, <1>4

LEMMA InOrderIsSeq ==
    ASSUME NEW S, NEW Q, NEW c, NEW r, Numbered(Q, c), \A q \in Q : r[q] \in S
    PROVE  InOrder(Q, c, r) \in Seq(S) /\ Len(InOrder(Q, c, r)) = Cardinality(Q)
  <1>1. \A i \in 1 .. Cardinality(Q) : InOrder(Q, c, r)[i] \in S
    BY PlaceInOrder
  <1> DEFINE s == InOrder(Q, c, r)
             n == Cardinality(Q)
  <1>2. n \in Nat /\ s = [i \in 1 .. n |-> s[i]] /\ \A i \in 1 .. n : s[i] \in S
    BY <1>1, PlaceInOrder
  <1> HIDE DEF s, n
  <1>3. s \in [1 .. n -> S]
    BY <1>2
  <1>4. s \in Seq(S) /\ Len(s) = n
    BY <1>2, <1>3
  <1> QED  BY <1>4 DEF s, n

\* The sequence with one more element.
AtEnd(s, x) == Append(s, x)

\* One that has a larger number than all others is added at the end.
LEMMA LastInOrder ==
    ASSUME NEW Q, NEW c, NEW r, Numbered(Q, c), NEW p, p \notin Q, NEW c2, NEW r2,
           \A q \in Q : c2[q] = c[q] /\ r2[q] = r[q] /\ c[q] < c2[p],
           c2[p] \in Nat
    PROVE  InOrder(Q \cup {p}, c2, r2) = AtEnd(InOrder(Q, c, r), r2[p])
  <1> DEFINE S == {r[q] : q \in Q} \cup {r2[p]}
  <1>0. r2[p] \in S /\ \A q \in Q : r[q] \in S
    OBVIOUS
  <1> HIDE DEF S
  <1> DEFINE Q2 == Q \cup {p}
             s == InOrder(Q, c, r)
             s2 == InOrder(Q2, c2, r2)
             n == Cardinality(Q)
  <1>1. Numbered(Q2, c2)
    <2>1. IsFiniteSet(Q2)
      BY FS_AddElement DEF Numbered
    <2>2. \A q \in Q2 : c2[q] \in Nat
      BY DEF Numbered
    <2>3. \A q, t \in Q2 : c2[q] = c2[t] => q = t
      BY DEF Numbered
    <2> QED  BY <2>1, <2>2, <2>3 DEF Numbered
  <1>2. Cardinality(Q2) = n + 1 /\ n \in Nat
    BY FS_AddElement, FS_CardinalityType DEF Numbered
  <1>3. \A q \in Q : Rank(Q2, c2, q) = Rank(Q, c, q)
    <2> SUFFICES ASSUME NEW q \in Q
                 PROVE  {t \in Q2 : c2[t] < c2[q]} = {t \in Q : c[t] < c[q]}
      BY DEF Rank
    <2>1. ~(c2[p] < c2[q])
      BY DEF Numbered
    <2> QED  BY <2>1
  <1>4. Rank(Q2, c2, p) = n
    <2>1. {t \in Q2 : c2[t] < c2[p]} = Q
      OBVIOUS
    <2> QED  BY <2>1 DEF Rank
  <1>5. s \in Seq(S) /\ Len(s) = n
    BY <1>0, InOrderIsSeq
  <1>6. s2 \in Seq(S) /\ Len(s2) = n + 1
    <2>1. \A q \in Q2 : r2[q] \in S
      BY <1>0
    <2> HIDE DEF Q2
    <2> QED  BY <1>1, <1>2, <2>1, InOrderIsSeq
  <1>7. s2[n + 1] = r2[p]
    <2>1. p \in Q2  OBVIOUS
    <2> HIDE DEF Q2
    <2> QED  BY <1>1, <1>4, <2>1, PlaceInOrder
  <1>8. ASSUME NEW i \in 1 .. n PROVE s2[i] = s[i]
    <2>1. PICK q \in Q : Rank(Q, c, q) + 1 = i
      BY PlaceInOrder
    <2>2. s[i] = r[q]
      BY <2>1, PlaceInOrder
    <2>3. q \in Q2 /\ r2[q] = r[q] /\ Rank(Q2, c2, q) + 1 = i
      BY <1>3, <2>1
    <2>4. s2[i] = r2[q]
      <3> HIDE DEF Q2
      <3> QED  BY <1>1, <2>3, PlaceInOrder
    <2> QED  BY <2>2, <2>3, <2>4
  <1> HIDE DEF Q2, s, s2, n
  <1>9. s2 = Append(s, r2[p])
    <2> DEFINE a == Append(s, r2[p])
    <2>1. a \in Seq(S) /\ Len(a) = n + 1 /\ a[n + 1] = r2[p] /\ \A i \in 1 .. n : a[i] = s[i]
      BY <1>0, <1>2, <1>5
    <2> HIDE DEF a
    <2>2. \A i \in 1 .. n + 1 : s2[i] = a[i]
      BY <1>2, <1>7, <1>8, <2>1
    <2>3. s2 = a
      BY <1>6, <2>1, <2>2, SeqEqual
    <2> QED  BY <2>3 DEF a
  <1> QED  BY <1>9 DEF Q2, s, s2, AtEnd

\* The sequence without its k-th element.
Without(s, k) == SubSeq(s, 1, k - 1) \o SubSeq(s, k + 1, Len(s))

\* One that is removed leaves the others in their order.
LEMMA GoneFromOrder ==
    ASSUME NEW Q, NEW c, NEW r, Numbered(Q, c), NEW p \in Q, NEW c2, NEW r2,
           \A q \in Q \ {p} : c2[q] = c[q] /\ r2[q] = r[q]
    PROVE  /\ Rank(Q, c, p) + 1 \in 1 .. Len(InOrder(Q, c, r))
           /\ InOrder(Q, c, r)[Rank(Q, c, p) + 1] = r[p]
           /\ InOrder(Q \ {p}, c2, r2) = Without(InOrder(Q, c, r), Rank(Q, c, p) + 1)
  <1> DEFINE S == {r[q] : q \in Q}
  <1>0. \A q \in Q : r[q] \in S
    OBVIOUS
  <1> HIDE DEF S
  <1> DEFINE Q2 == Q \ {p}
             s == InOrder(Q, c, r)
             s2 == InOrder(Q2, c2, r2)
             n == Cardinality(Q)
             k == Rank(Q, c, p) + 1
  <1>1. Numbered(Q2, c2)
    <2>1. IsFiniteSet(Q2)
      BY FS_RemoveElement DEF Numbered
    <2> QED  BY <2>1 DEF Numbered
  <1>2. Cardinality(Q2) = n - 1 /\ n \in Nat
    BY FS_RemoveElement, FS_CardinalityType DEF Numbered
  <1>3. \A q \in Q : Rank(Q, c, q) \in 0 .. n - 1
    BY RankBounds
  <1>4. ASSUME NEW q \in Q2
        PROVE  /\ c[q] < c[p] => Rank(Q2, c2, q) = Rank(Q, c, q) /\ Rank(Q, c, q) + 1 < k
               /\ c[q] > c[p] => Rank(Q2, c2, q) = Rank(Q, c, q) - 1 /\ Rank(Q, c, q) + 1 > k
               /\ c[q] < c[p] \/ c[q] > c[p]
    <2> DEFINE B == {t \in Q : c[t] < c[q]}
    <2>0. {t \in Q2 : c2[t] < c2[q]} = B \ {p}
      OBVIOUS
    <2>1. IsFiniteSet(B)
      <3>1. B \in SUBSET Q  OBVIOUS
      <3> HIDE DEF B
      <3> QED  BY <3>1, FS_Subset DEF Numbered
    <2>2. Rank(Q, c, q) = Cardinality(B) /\ Rank(Q2, c2, q) = Cardinality(B \ {p})
      BY <2>0 DEF Rank
    <2>3. c[q] \in Nat /\ c[p] \in Nat /\ c[q] # c[p]
      BY DEF Numbered
    <2>4. CASE c[q] < c[p]
      <3>1. B \ {p} = B
        BY <2>3, <2>4
      <3>2. Rank(Q, c, q) < Rank(Q, c, p)
        BY <2>4, RankBounds
      <3>3. Rank(Q2, c2, q) = Rank(Q, c, q)
        BY <2>2, <3>1
      <3>4. q \in Q /\ ~(c[q] > c[p])
        BY <2>3, <2>4
      <3> HIDE DEF B, Q2
      <3> QED  BY <1>2, <1>3, <2>4, <3>2, <3>3, <3>4
    <2>5. CASE c[q] > c[p]
      <3>1. p \in B
        BY <2>3, <2>5
      <3>2. Rank(Q, c, p) < Rank(Q, c, q)
        BY <2>5, <2>3, RankBounds
      <3>3. Cardinality(B \ {p}) = Cardinality(B) - 1
        <4> HIDE DEF B
        <4> QED  BY <2>1, <3>1, FS_RemoveElement
      <3> HIDE DEF B
      <3> QED  BY <1>2, <1>3, <2>2, <2>3, <2>5, <3>2, <3>3
    <2> QED  BY <2>3, <2>4, <2>5
  <1>5. s \in Seq(S) /\ Len(s) = n
    BY <1>0, InOrderIsSeq
  <1>6. s2 \in Seq(S) /\ Len(s2) = n - 1
    <2>1. \A q \in Q2 : r2[q] \in S
      BY <1>0
    <2> HIDE DEF Q2
    <2> QED  BY <1>1, <1>2, <2>1, InOrderIsSeq
  <1>7. k \in 1 .. n /\ s[k] = r[p]
    BY PlaceInOrder
  <1>8. \A q \in Q2 : s2[Rank(Q2, c2, q) + 1] = r2[q] /\ s[Rank(Q, c, q) + 1] = r2[q]
    <2>1. \A q \in Q2 : q \in Q /\ r2[q] = r[q]  OBVIOUS
    <2> HIDE DEF Q2
    <2> QED  BY <1>1, <2>1, PlaceInOrder
  <1>9. ASSUME NEW i \in 1 .. n - 1 PROVE s2[i] = IF i < k THEN s[i] ELSE s[i + 1]
    <2>1. PICK q \in Q2 : Rank(Q2, c2, q) + 1 = i
      <3> HIDE DEF Q2, n
      <3>1. \A j \in 1 .. Cardinality(Q2) : \E q \in Q2 : Rank(Q2, c2, q) + 1 = j
        BY <1>1, PlaceInOrder
      <3> QED  BY <1>2, <3>1
    <2>2. q \in Q /\ Rank(Q, c, q) \in 0 .. n - 1 /\ k \in 1 .. n
      BY <1>3, <1>7
    <2>3. CASE c[q] < c[p]
      <3>1. Rank(Q, c, q) + 1 = i /\ i < k
        BY <1>4, <2>1, <2>3
      <3> QED  BY <1>8, <2>1, <3>1
    <2>4. CASE c[q] > c[p]
      <3>1. Rank(Q, c, q) + 1 = i + 1 /\ ~(i < k)
        <4>1. Rank(Q2, c2, q) = Rank(Q, c, q) - 1 /\ Rank(Q, c, q) + 1 > k
          BY <1>4, <2>4
        <4> DEFINE x == Rank(Q, c, q)
        <4>2. x \in Nat /\ k \in Nat /\ i = (x - 1) + 1 /\ x + 1 > k
          BY <1>2, <2>1, <2>2, <4>1
        <4> HIDE DEF k, x
        <4>3. x + 1 = i + 1 /\ ~(i < k)
          BY <4>2
        <4> QED  BY <4>3 DEF x
      <3> QED  BY <1>8, <2>1, <3>1
    <2> QED  BY <1>4, <2>3, <2>4
  <1> HIDE DEF Q2, s, s2, n, k
  <1>10. s2 = SubSeq(s, 1, k - 1) \o SubSeq(s, k + 1, Len(s))
    <2> DEFINE a == SubSeq(s, 1, k - 1)
               b == SubSeq(s, k + 1, n)
    <2>1. a \in Seq(S) /\ Len(a) = k - 1 /\ \A i \in 1 .. k - 1 : a[i] = s[i]
      BY <1>2, <1>5, <1>7
    <2>2. b \in Seq(S) /\ Len(b) = n - k /\ \A i \in 1 .. n - k : b[i] = s[k + i]
      BY <1>2, <1>5, <1>7
    <2> HIDE DEF a, b
    <2>3. /\ a \o b \in Seq(S) /\ Len(a \o b) = Len(a) + Len(b)
          /\ \A i \in 1 .. Len(a) + Len(b) :
                (a \o b)[i] = IF i <= Len(a) THEN a[i] ELSE b[i - Len(a)]
      BY <2>1, <2>2, ConcatProperties
    <2>4. Len(a) + Len(b) = n - 1
      BY <1>2, <1>7, <2>1, <2>2
    <2>5. ASSUME NEW i \in 1 .. n - 1 PROVE s2[i] = (a \o b)[i]
      <3>1. CASE i < k
        <4>1. i <= Len(a) /\ i \in 1 .. k - 1
          BY <1>2, <1>7, <2>1, <3>1
        <4> QED  BY <1>9, <2>1, <2>3, <2>4, <3>1, <4>1
      <3>2. CASE ~(i < k)
        <4>1. ~(i <= Len(a)) /\ i - Len(a) \in 1 .. n - k /\ k + (i - Len(a)) = i + 1
          BY <1>2, <1>7, <2>1, <3>2
        <4>2. (a \o b)[i] = b[i - Len(a)]
          BY <2>3, <2>4, <4>1
        <4>3. b[i - Len(a)] = s[i + 1]
          BY <2>2, <4>1
        <4> QED  BY <1>9, <3>2, <4>2, <4>3
      <3> QED  BY <3>1, <3>2
    <2>6. s2 = a \o b
      BY <1>6, <2>3, <2>4, <2>5, SeqEqual
    <2> QED  BY <1>5, <2>6 DEF a, b
  <1> QED  BY <1>5, <1>7, <1>10 DEF Q2, s, s2, k, Without

\* The sequence depends on the numbers and the values of its members only.
LEMMA SameOrder ==
    ASSUME NEW S, NEW Q, NEW c, NEW r, Numbered(Q, c), NEW c2, NEW r2,
           \A q \in Q : r[q] \in S /\ c2[q] = c[q] /\ r2[q] = r[q]
    PROVE  InOrder(Q, c2, r2) = InOrder(Q, c, r)
  <1>1. Numbered(Q, c2)
    BY DEF Numbered
  <1>2. \A q \in Q : Rank(Q, c2, q) = Rank(Q, c, q)
    <2> SUFFICES ASSUME NEW q \in Q PROVE {t \in Q : c2[t] < c2[q]} = {t \in Q : c[t] < c[q]}
      BY DEF Rank
    <2> QED  OBVIOUS
  <1> DEFINE s == InOrder(Q, c, r)
             s2 == InOrder(Q, c2, r2)
             n == Cardinality(Q)
  <1>3. s \in Seq(S) /\ Len(s) = n /\ s2 \in Seq(S) /\ Len(s2) = n
    BY <1>1, InOrderIsSeq
  <1>4. ASSUME NEW i \in 1 .. n PROVE s2[i] = s[i]
    <2>1. PICK q \in Q : Rank(Q, c, q) + 1 = i
      BY PlaceInOrder
    <2>2. s[i] = r[q] /\ s2[i] = r2[q]
      BY <1>1, <1>2, <2>1, PlaceInOrder
    <2> QED  BY <2>2
  <1> HIDE DEF s, s2, n
  <1>5. s2 = s
    BY <1>3, <1>4, SeqEqual
  <1> QED  BY <1>5 DEF s, s2

-----------------------------------------------------------------------------
(* The lock is the abstract lock with its queue. *)

\* Only TRYACQUIRE passes its test.
TriedOnly == \A p \in Procs : pc[p] = "tried" => "try" \in Ops

QueueInv == LockInv /\ TicketInv /\ TriedOnly

LEMMA InitQueueInv == Init => QueueInv
  <1>1. Init => TriedOnly
    BY DEF Init, TriedOnly
  <1> QED  BY <1>1, InitLockInv, InitTicketInv DEF QueueInv

LEMMA NextQueueInv ==
    ASSUME Smp = FALSE, OneReaderReleases, QueueInv, [Next]_vars
    PROVE  QueueInv'
  <1>1. LockInv' /\ TicketInv'
    BY NextLockInv, NextTicketInv DEF QueueInv
  <1>2. TriedOnly'
    <2>0. pc \in [Procs -> PCs] /\ Owner \in [Files -> Procs] /\ TriedOnly
      BY LockAssumption DEF QueueInv, LockInv, Shape
    <2>1. ASSUME NEW p \in Procs, InKernelStep(p) PROVE TriedOnly'
      <3>1. \E where \in PCs \ {"tried"} : pc' = [pc EXCEPT ![p] = where]
        BY <2>1 DEF InKernelStep, CheckCounters, CheckTicket, Grant, Interrupted, TryLocks, Return,
           KeepWaiting, PCs
      <3> QED  BY <2>0, <3>1 DEF TriedOnly
    <2>2. ASSUME NEW p \in Procs, Signal(p) PROVE TriedOnly'
      BY <2>0, <2>2 DEF Signal, TriedOnly
    <2>3. ASSUME NEW f \in Files, Open(Owner[f], f) \/ Close(Owner[f], f) PROVE TriedOnly'
      BY <2>0, <2>3 DEF Open, Close, process, TriedOnly
    <2>4. ASSUME NEW f \in Files, Acquire(Owner[f], f) PROVE TriedOnly'
      BY <2>0, <2>4 DEF Acquire, AcquireDeadlk, AcquireNow, AcquireWait, vars, process, TriedOnly
    <2>5. ASSUME NEW f \in Files, TryAcquire(Owner[f], f) PROVE TriedOnly'
      BY <2>0, <2>5 DEF TryAcquire, TriedOnly
    <2>6. ASSUME NEW f \in Files, Release(Owner[f], f) PROVE TriedOnly'
      BY <2>0, <2>6 DEF Release, TriedOnly
    <2>7. CASE UNCHANGED vars
      BY <2>0, <2>7 DEF vars, process, TriedOnly
    <2> QED  BY <2>1, <2>2, <2>3, <2>4, <2>5, <2>6, <2>7 DEF Next
  <1> QED  BY <1>1, <1>2 DEF QueueInv

\* The requests that wait are finitely many and in the order of their tickets.
LEMMA QueueIsOrder ==
    ASSUME QueueInv
    PROVE  /\ Queue = InOrder(Queued, cur_ticket, req)
           /\ Numbered(Queued, cur_ticket)
           /\ \A q \in Queued : q \in Procs /\ req[q] \in Files
  <1>1. Queue = InOrder(Queued, cur_ticket, req)
    BY DEF Queue, Before, InOrder, Rank
  <1>2. \A q \in Queued : q \in Procs /\ req[q] \in Files /\ Owner[req[q]] = q
    BY DEF QueueInv, LockInv, Shape, Requests, Queued
  <1>3. IsFiniteSet(Queued)
    <2> DEFINE f == [q \in Queued |-> req[q]]
    <2>1. f \in [Queued -> Files] /\ IsInjective(f)
      BY <1>2 DEF IsInjective
    <2>2. f \in Injection(Queued, Files)
      BY <2>1 DEF Injection
    <2> HIDE DEF f
    <2> QED  BY <2>2, LockAssumption, FS_Injection
  <1>4. \A p \in Queued : cur_ticket[p] \in Nat
    BY <1>2 DEF QueueInv, TicketInv, TicketShape
  <1>5. \A p, q \in Queued : cur_ticket[p] = cur_ticket[q] => p = q
    BY DEF QueueInv, TicketInv, OwnTicket
  <1> QED  BY <1>1, <1>2, <1>3, <1>4, <1>5 DEF Numbered

\* The queue changes only when a request joins or leaves it.
LEMMA QueueStays ==
    ASSUME QueueInv, Queued' = Queued,
           \A q \in Queued : cur_ticket'[q] = cur_ticket[q] /\ req'[q] = req[q]
    PROVE  Queue' = Queue
  <1>1. Queue' = InOrder(Queued', cur_ticket', req')
    BY DEF Queue, Before, InOrder, Rank
  <1>2. InOrder(Queued, cur_ticket', req') = InOrder(Queued, cur_ticket, req)
    BY QueueIsOrder, SameOrder
  <1> QED  BY <1>1, <1>2, QueueIsOrder

\* A request that joins it does so at its end.
LEMMA JoinsQueue ==
    ASSUME QueueInv, NEW p, p \notin Queued, Queued' = Queued \cup {p},
           \A q \in Queued : /\ cur_ticket'[q] = cur_ticket[q] /\ req'[q] = req[q]
                            /\ cur_ticket[q] < cur_ticket'[p],
           cur_ticket'[p] \in Nat
    PROVE  Queue' = Append(Queue, req'[p])
  <1>1. Queue' = InOrder(Queued', cur_ticket', req')
    BY DEF Queue, Before, InOrder, Rank
  <1>2. Numbered(Queued, cur_ticket)
    BY QueueIsOrder
  <1>3. InOrder(Queued \cup {p}, cur_ticket', req')
          = AtEnd(InOrder(Queued, cur_ticket, req), req'[p])
    BY <1>2, LastInOrder
  <1> QED  BY <1>1, <1>3, QueueIsOrder DEF AtEnd

\* A request that leaves it, from its place.
LEMMA LeavesQueue ==
    ASSUME QueueInv, NEW p \in Queued, Queued' = Queued \ {p},
           \A q \in Queued \ {p} : cur_ticket'[q] = cur_ticket[q] /\ req'[q] = req[q]
    PROVE  /\ Queue \in Seq(Files)
           /\ \E k \in DOMAIN Queue :
                /\ k = Rank(Queued, cur_ticket, p) + 1
                /\ Queue[k] = req[p]
                /\ Queue' = Without(Queue, k)
  <1>1. Queue' = InOrder(Queued', cur_ticket', req')
    BY DEF Queue, Before, InOrder, Rank
  <1>2. Queue \in Seq(Files)
    BY QueueIsOrder, InOrderIsSeq
  <1> DEFINE s == InOrder(Queued, cur_ticket, req)
  <1>3. /\ Rank(Queued, cur_ticket, p) + 1 \in 1 .. Len(s)
        /\ s[Rank(Queued, cur_ticket, p) + 1] = req[p]
        /\ InOrder(Queued \ {p}, cur_ticket', req') = Without(s, Rank(Queued, cur_ticket, p) + 1)
    BY QueueIsOrder, GoneFromOrder
  <1>4. Queue = s /\ DOMAIN Queue = 1 .. Len(s)
    BY <1>2, QueueIsOrder
  <1> HIDE DEF s
  <1> QED  BY <1>1, <1>2, <1>3, <1>4

\* What the counters report free is free in the abstract lock.
LEMMA FreeInLock ==
    ASSUME QueueInv, NEW f \in Files, CountersFree(f)
    PROVE  Lock!Free(f)
  <1>1. holds \cap Writable = {} /\ (f \in Writable => holds = {})
    BY FreeMeansFree DEF QueueInv
  <1> QED  BY <1>1 DEF Lock!Free

\* Without TRYACQUIRE every step of the lock is a step of the abstract one, or
\* none.
LEMMA StepImplements ==
    ASSUME Smp = FALSE, OneReaderReleases, "try" \notin Ops, QueueInv, [Next]_vars
    PROVE  [Lock!Next]_<<holds, Queue>>
  <1>0. /\ pc \in [Procs -> PCs] /\ Owner \in [Files -> Procs]
        /\ cur_ticket \in [Procs -> Nat] /\ req \in [Procs -> Files]
        /\ LockInv /\ TicketInv
    BY LockAssumption DEF QueueInv, LockInv, Shape, TicketInv, TicketShape
  <1>q. Queued \subseteq Procs
    BY DEF Queued
  <1>1. ASSUME holds' = holds, Queued' = Queued, req' = req, cur_ticket' = cur_ticket
        PROVE  [Lock!Next]_<<holds, Queue>>
    <2>1. Queue' = Queue
      BY <1>1, QueueStays
    <2> QED  BY <1>1, <2>1
  <1>2. ASSUME NEW p \in Procs, CheckCounters(p) \/ CheckTicket(p)
        PROVE  [Lock!Next]_<<holds, Queue>>
    <2>1. PICK where \in {"waiting", "counted", "passed", "interrupted"} :
             pc' = [pc EXCEPT ![p] = where]
      BY <1>2 DEF CheckCounters, CheckTicket, KeepWaiting
    <2>2. p \in Queued /\ holds' = holds /\ req' = req /\ cur_ticket' = cur_ticket
      BY <1>2 DEF CheckCounters, CheckTicket, Queued
    <2>3. Queued' = Queued
      BY <1>0, <2>1, <2>2 DEF Queued
    <2> QED  BY <1>1, <2>2, <2>3
  <1>3. ASSUME NEW p \in Procs, Grant(p) PROVE Lock!Serve
    <2>1. /\ pc[p] = "passed" /\ p \in Queued /\ pc' = [pc EXCEPT ![p] = "user"]
          /\ cur_ticket' = [cur_ticket EXCEPT ![p] = 0] /\ req' = req
          /\ holds' = holds \cup {req[p]}
      BY <1>3 DEF Grant, Return, Granted, Queued
    <2>2. /\ Queued' = Queued \ {p}
          /\ \A q \in Queued \ {p} : cur_ticket'[q] = cur_ticket[q] /\ req'[q] = req[q]
      BY <1>0, <1>q, <2>1 DEF Queued
    <2>3. Rank(Queued, cur_ticket, p) = 0
      <3>1. cur_ticket[p] = ticket_tail /\ ticket_tail \in Nat
        BY <1>0, <2>1 DEF TicketInv, Turn, TicketShape
      <3>2. ASSUME NEW q \in Queued PROVE ~(cur_ticket[q] < cur_ticket[p])
        <4>1. ticket_tail <= cur_ticket[q] /\ cur_ticket[q] \in Nat
          BY <1>0, <1>q DEF TicketInv, OwnTicket
        <4> QED  BY <3>1, <4>1
      <3>3. {q \in Queued : cur_ticket[q] < cur_ticket[p]} = {}
        BY <3>2
      <3> QED  BY <3>3, FS_EmptySet DEF Rank
    <2>4. Queue \in Seq(Files) /\ 1 \in DOMAIN Queue /\ Queue[1] = req[p] /\ Queue' = Without(Queue, 1)
      <3>1. PICK k \in DOMAIN Queue :
               /\ k = Rank(Queued, cur_ticket, p) + 1 /\ Queue[k] = req[p] /\ Queue' = Without(Queue, k)
        BY <2>1, <2>2, LeavesQueue
      <3>2. k = 1
        BY <2>3, <3>1
      <3> QED  BY <2>1, <2>2, <3>1, <3>2, LeavesQueue
    <2>5. Queue # <<>> /\ Head(Queue) = req[p]
      BY <2>4
    <2>6. Queue' = Tail(Queue)
      <3>1. SubSeq(Queue, 1, 0) = <<>>
        BY SubSeqEmpty
      <3>2. Tail(Queue) = SubSeq(Queue, 2, Len(Queue)) /\ Tail(Queue) \in Seq(Files)
        BY <2>4, <2>5, TailIsSubSeq, HeadTailProperties
      <3>3. <<>> \o Tail(Queue) = Tail(Queue)
        BY <3>2, ConcatEmptySeq
      <3>4. Without(Queue, 1) = SubSeq(Queue, 1, 0) \o SubSeq(Queue, 2, Len(Queue))
        BY DEF Without
      <3> QED  BY <2>4, <3>1, <3>2, <3>3, <3>4
    <2>7. Lock!Free(req[p])
      BY <1>0, <2>1, FreeInLock DEF LockInv, StillFree
    <2> QED  BY <2>1, <2>5, <2>6, <2>7 DEF Lock!Serve
  <1>4. ASSUME NEW p \in Procs, Interrupted(p) PROVE \E i \in DOMAIN Queue : Lock!GiveUp(i)
    <2>1. /\ p \in Queued /\ pc' = [pc EXCEPT ![p] = "user"]
          /\ cur_ticket' = [cur_ticket EXCEPT ![p] = 0] /\ req' = req /\ holds' = holds
      BY <1>4 DEF Interrupted, Return, Queued
    <2>2. /\ Queued' = Queued \ {p}
          /\ \A q \in Queued \ {p} : cur_ticket'[q] = cur_ticket[q] /\ req'[q] = req[q]
      BY <1>0, <1>q, <2>1 DEF Queued
    <2>3. PICK k \in DOMAIN Queue : Queue' = Without(Queue, k)
      BY <2>1, <2>2, LeavesQueue
    <2>4. Lock!GiveUp(k)
      BY <2>1, <2>3 DEF Lock!GiveUp, Without
    <2> QED  BY <2>4
  <1>5. ASSUME NEW p \in Procs, TryLocks(p) PROVE FALSE
    BY <1>5 DEF TryLocks, QueueInv, TriedOnly
  <1>6. ASSUME NEW p \in Procs, Signal(p) PROVE [Lock!Next]_<<holds, Queue>>
    <2>1. holds' = holds /\ Queued' = Queued /\ req' = req /\ cur_ticket' = cur_ticket
      BY <1>6 DEF Signal, Queued
    <2> QED  BY <1>1, <2>1
  <1>7. ASSUME NEW f \in Files, Open(Owner[f], f) PROVE [Lock!Next]_<<holds, Queue>>
    <2>1. holds' = holds /\ Queued' = Queued /\ req' = req /\ cur_ticket' = cur_ticket
      BY <1>7 DEF Open, process, Queued
    <2> QED  BY <1>1, <2>1
  <1>8. ASSUME NEW f \in Files, Close(Owner[f], f)
        PROVE  Lock!Release(f) \/ UNCHANGED <<holds, Queue>>
    <2>1. Queued' = Queued /\ req' = req /\ cur_ticket' = cur_ticket /\ f \in open
      BY <1>8 DEF Close, process, Queued
    <2>2. Queue' = Queue
      BY <2>1, QueueStays
    <2>3. CASE f \in locked /\ Unlock(Owner[f], f)
      <3>1. f \in holds /\ holds' = holds \ {f}
        BY <1>0, <2>1, <2>3 DEF LockInv, CountsMatch, Unlock
      <3> QED  BY <2>2, <3>1 DEF Lock!Release
    <2>4. CASE UNCHANGED <<device, locked, process, holds>>
      BY <2>2, <2>4
    <2> QED  BY <1>8, <2>3, <2>4 DEF Close
  <1>9. ASSUME NEW f \in Files, Acquire(Owner[f], f) PROVE [Lock!Next]_<<holds, Queue>>
    <2> DEFINE p == Owner[f]
    <2>0. p \in Procs /\ pc[p] = "user" /\ p \notin Queued /\ f \notin holds
      BY <1>0, <1>9 DEF Acquire, Queued
    <2>1. CASE AcquireDeadlk(p, f)
      <3>1. holds' = holds /\ Queued' = Queued /\ req' = req /\ cur_ticket' = cur_ticket
        BY <2>1 DEF AcquireDeadlk, vars, process, Queued
      <3> QED  BY <1>1, <3>1
    <2>2. CASE AcquireNow(p, f)
      <3>1. /\ Queued' = Queued /\ req' = req /\ cur_ticket' = cur_ticket
            /\ holds' = holds \cup {f} /\ CountersFree(f) /\ ticket_head = ticket_tail
        BY <2>2 DEF AcquireNow, Granted, process, Queued
      <3>2. Queue' = Queue
        BY <3>1, QueueStays
      <3>3. Queue = <<>>
        <4>1. Queued = {}
          BY <1>0, <3>1, NobodyWaits
        <4>2. Cardinality(Queued) = 0
          BY <4>1, FS_EmptySet
        <4>3. Queue \in Seq(Files) /\ Len(Queue) = 0
          BY <4>2, QueueIsOrder, InOrderIsSeq
        <4> QED  BY <4>3
      <3>4. Lock!Take(f)
        BY <2>0, <3>1, <3>2, <3>3, FreeInLock DEF Lock!Take
      <3> QED  BY <3>4 DEF Lock!Next
    <2>3. CASE AcquireWait(p, f)
      <3>1. /\ pc' = [pc EXCEPT ![p] = "waiting"] /\ req' = [req EXCEPT ![p] = f]
            /\ cur_ticket' = [cur_ticket EXCEPT ![p] = ticket_head] /\ holds' = holds
        BY <2>3 DEF AcquireWait
      <3>2. Queued' = Queued \cup {p} /\ cur_ticket'[p] = ticket_head /\ req'[p] = f
        BY <1>0, <2>0, <3>1 DEF Queued
      <3>3. ASSUME NEW q \in Queued
            PROVE  /\ cur_ticket'[q] = cur_ticket[q] /\ req'[q] = req[q]
                   /\ cur_ticket[q] < ticket_head /\ req[q] \in Files
        BY <1>0, <1>q, <2>0, <3>1 DEF TicketInv, OwnTicket
      <3>4. ticket_head \in Nat
        BY <1>0 DEF TicketInv, TicketShape
      <3>5. \A q \in Queued : /\ cur_ticket'[q] = cur_ticket[q] /\ req'[q] = req[q]
                              /\ cur_ticket[q] < cur_ticket'[p]
        BY <3>2, <3>3
      <3>6. Queue' = Append(Queue, f)
        BY <2>0, <3>2, <3>4, <3>5, JoinsQueue
      <3>7. Lock!Join(f)
        BY <2>0, <3>1, <3>6 DEF Lock!Join
      <3> QED  BY <3>7 DEF Lock!Next
    <2> QED  BY <1>9, <2>1, <2>2, <2>3 DEF Acquire
  <1>10. ASSUME NEW f \in Files, TryAcquire(Owner[f], f) PROVE [Lock!Next]_<<holds, Queue>>
    <2> DEFINE p == Owner[f]
    <2>0. p \in Procs /\ p \notin Queued /\ holds' = holds /\ cur_ticket' = cur_ticket
      BY <1>0, <1>10 DEF TryAcquire, Queued
    <2>1. Queued' = Queued /\ \A q \in Queued : req'[q] = req[q]
      BY <1>0, <1>q, <1>10, <2>0 DEF TryAcquire, Queued
    <2>2. Queue' = Queue
      BY <2>0, <2>1, QueueStays
    <2> QED  BY <2>0, <2>2
  <1>11. ASSUME NEW f \in Files, Release(Owner[f], f) PROVE Lock!Release(f)
    <2>1. /\ Queued' = Queued /\ req' = req /\ cur_ticket' = cur_ticket
          /\ f \in open /\ f \in locked /\ Unlock(Owner[f], f)
      BY <1>11 DEF Release, Queued
    <2>2. Queue' = Queue
      BY <2>1, QueueStays
    <2>3. f \in holds /\ holds' = holds \ {f}
      BY <1>0, <2>1 DEF LockInv, CountsMatch, Unlock
    <2> QED  BY <2>2, <2>3 DEF Lock!Release
  <1>12. CASE UNCHANGED vars
    <2>1. holds' = holds /\ Queued' = Queued /\ req' = req /\ cur_ticket' = cur_ticket
      BY <1>12 DEF vars, process, Queued
    <2> QED  BY <1>1, <2>1
  <1>13. CASE Next
    <2>1. ASSUME NEW p \in Procs, InKernelStep(p) PROVE [Lock!Next]_<<holds, Queue>>
      BY <1>2, <1>3, <1>4, <1>5, <2>1 DEF InKernelStep, Lock!Next
    <2>2. ASSUME NEW f \in Files, Close(Owner[f], f) PROVE [Lock!Next]_<<holds, Queue>>
      BY <1>8, <2>2 DEF Lock!Next
    <2>3. ASSUME NEW f \in Files, Release(Owner[f], f) PROVE [Lock!Next]_<<holds, Queue>>
      BY <1>11, <2>3 DEF Lock!Next
    <2> QED  BY <1>6, <1>7, <1>9, <1>10, <1>13, <2>1, <2>2, <2>3 DEF Next
  <1> QED  BY <1>12, <1>13

\* For processes that lock with ACQUIRE, the tickets, the counters, killed_list
\* and the test outside the mutex together implement the abstract lock: nobody
\* is granted the lock before those that wait in front of it, and a request
\* that is interrupted leaves the others in their order.
THEOREM LockIsAQueue ==
    ASSUME Smp = FALSE, OneReaderReleases, "try" \notin Ops
    PROVE  Spec => LockImplemented
  <1>1. Init => Lock!Init
    <2> SUFFICES ASSUME Init PROVE Lock!Init  OBVIOUS
    <2>1. Queued = {} /\ QueueInv /\ holds = {}
      BY InitQueueInv DEF Init, Queued
    <2>2. Cardinality(Queued) = 0
      BY <2>1, FS_EmptySet
    <2>3. Queue \in Seq(Files) /\ Len(Queue) = 0
      BY <2>1, <2>2, QueueIsOrder, InOrderIsSeq
    <2> QED  BY <2>1, <2>3 DEF Lock!Init
  <1>2. Init => QueueInv
    BY InitQueueInv
  <1>3. QueueInv /\ [Next]_vars => QueueInv'
    BY NextQueueInv
  <1>4. QueueInv /\ [Next]_vars => [Lock!Next]_<<holds, Queue>>
    BY StepImplements
  <1> QED  BY <1>1, <1>2, <1>3, <1>4, PTL DEF Spec, LockImplemented, Lock!Spec

-----------------------------------------------------------------------------
(* Requests that would deadlock. *)

Distinct(list) == \A i, j \in DOMAIN list : list[i] = list[j] => i = j

\* Linking in a pid that is not in the list puts it at the end.
LEMMA AppendPidAdds ==
    ASSUME NEW list \in Seq(Procs), NEW p \in Procs, ~InList(p, list)
    PROVE  AppendPid(p, list) = Append(list, p)
  <1>1. CASE list = <<>>
    BY <1>1 DEF AppendPid
  <1>2. CASE list # <<>>
    <2>1. Len(list) \in DOMAIN list /\ Len(list) \in Nat
      BY <1>2
    <2>2. {i \in DOMAIN list : list[i] = p \/ i = Len(list)} = {Len(list)}
      BY <2>1 DEF InList
    <2>3. (CHOOSE i \in {Len(list)} : \A j \in {Len(list)} : i <= j) = Len(list)
      BY <2>1
    <2>4. AppendPid(p, list) = Append(SubSeq(list, 1, Len(list)), p)
      BY <1>2, <2>2, <2>3 DEF AppendPid
    <2> QED  BY <2>4, SubSeqFull
  <1> QED  BY <1>1, <1>2

\* Unlinking a pid from a list without duplicates leaves the others.
LEMMA RemovePidRemoves ==
    ASSUME NEW list \in Seq(Procs), Distinct(list), NEW p, InList(p, list)
    PROVE  /\ RemovePid(p, list) \in Seq(Procs)
           /\ Distinct(RemovePid(p, list))
           /\ \A x : InList(x, RemovePid(p, list)) <=> InList(x, list) /\ x # p
  <1>1. PICK k \in DOMAIN list : list[k] = p
    BY DEF InList
  <1> DEFINE n == Len(list)
             r == RemovePid(p, list)
             a == SubSeq(list, 1, k - 1)
             b == SubSeq(list, k + 1, n)
  <1>2. n \in Nat /\ k \in 1 .. n /\ DOMAIN list = 1 .. n /\ \A i \in 1 .. n : list[i] \in Procs
    OBVIOUS
  <1>3. r = a \o b
    <2>1. {i \in DOMAIN list : list[i] = p} = {k}
      BY <1>1 DEF Distinct
    <2>2. (CHOOSE i \in {k} : \A j \in {k} : i <= j) = k
      BY <1>2
    <2> QED  BY <2>1, <2>2 DEF RemovePid
  <1>4. a \in Seq(Procs) /\ Len(a) = k - 1 /\ \A i \in 1 .. k - 1 : a[i] = list[i]
    <2> HIDE DEF n
    <2>1. \A i \in 1 .. k - 1 : list[i] \in Procs
      BY <1>2
    <2>2. 1 + 0 = 1 /\ k - 1 \in Int /\ \A i \in 1 .. k - 1 : 1 + i - 1 = i /\ i \in 1 .. (k - 1) - 1 + 1
      BY <1>2
    <2> QED  BY <1>2, <2>1, <2>2, SubSeqProperties
  <1>5. b \in Seq(Procs) /\ Len(b) = n - k /\ \A i \in 1 .. n - k : b[i] = list[k + i]
    <2> HIDE DEF n
    <2>1. \A i \in k + 1 .. n : list[i] \in Procs
      BY <1>2
    <2>2. /\ k + 1 \in Int /\ n \in Int /\ (k + 1 <= n => n - (k + 1) + 1 = n - k) /\ (~(k + 1 <= n) => n - k = 0)
          /\ \A i \in 1 .. n - k : (k + 1) + i - 1 = k + i /\ i \in 1 .. n - (k + 1) + 1
      BY <1>2
    <2> QED  BY <1>2, <2>1, <2>2, SubSeqProperties
  <1> HIDE DEF n, r, a, b
  <1>6. /\ r \in Seq(Procs) /\ Len(r) = n - 1
        /\ \A i \in 1 .. n - 1 : r[i] = IF i < k THEN list[i] ELSE list[i + 1]
    <2>1. /\ a \o b \in Seq(Procs) /\ Len(a \o b) = Len(a) + Len(b)
          /\ \A i \in 1 .. Len(a) + Len(b) :
                (a \o b)[i] = IF i <= Len(a) THEN a[i] ELSE b[i - Len(a)]
      BY <1>4, <1>5, ConcatProperties
    <2>2. Len(a) + Len(b) = n - 1
      BY <1>2, <1>4, <1>5
    <2>3. ASSUME NEW i \in 1 .. n - 1 PROVE r[i] = IF i < k THEN list[i] ELSE list[i + 1]
      <3>1. CASE i < k
        <4>1. i <= Len(a) /\ i \in 1 .. k - 1
          BY <1>2, <1>4, <3>1
        <4> QED  BY <1>3, <1>4, <2>1, <2>2, <3>1, <4>1
      <3>2. CASE ~(i < k)
        <4>1. ~(i <= Len(a)) /\ i - Len(a) \in 1 .. n - k /\ k + (i - Len(a)) = i + 1
          BY <1>2, <1>4, <3>2
        <4>2. (a \o b)[i] = b[i - Len(a)]
          BY <2>1, <2>2, <4>1
        <4>3. b[i - Len(a)] = list[i + 1]
          BY <1>5, <4>1
        <4> QED  BY <1>3, <3>2, <4>2, <4>3
      <3> QED  BY <3>1, <3>2
    <2> QED  BY <1>3, <2>1, <2>2, <2>3
  <1> DEFINE m(i) == IF i < k THEN i ELSE i + 1
  <1>7. /\ DOMAIN r = 1 .. n - 1
        /\ \A i \in 1 .. n - 1 : m(i) \in 1 .. n /\ m(i) # k /\ r[i] = list[m(i)]
        /\ \A i, j \in 1 .. n - 1 : m(i) = m(j) => i = j
        /\ \A j \in 1 .. n : j # k => \E i \in 1 .. n - 1 : m(i) = j
    <2>1. DOMAIN r = 1 .. n - 1
      BY <1>6
    <2>2. \A i \in 1 .. n - 1 : m(i) \in 1 .. n /\ m(i) # k /\ r[i] = list[m(i)]
      BY <1>2, <1>6
    <2>3. \A i, j \in 1 .. n - 1 : m(i) = m(j) => i = j
      BY <1>2
    <2>4. ASSUME NEW j \in 1 .. n, j # k PROVE \E i \in 1 .. n - 1 : m(i) = j
      <3>1. CASE j < k
        <4>1. j \in 1 .. n - 1 /\ m(j) = j
          BY <1>2, <3>1
        <4> QED  BY <4>1
      <3>2. CASE j > k
        <4>1. j - 1 \in 1 .. n - 1 /\ m(j - 1) = j
          BY <1>2, <3>2
        <4> QED  BY <4>1
      <3> QED  BY <1>2, <2>4, <3>1, <3>2
    <2> QED  BY <2>1, <2>2, <2>3, <2>4
  <1> HIDE DEF m
  <1>8. Distinct(r)
    BY <1>2, <1>7 DEF Distinct
  <1>9. ASSUME NEW x PROVE InList(x, r) <=> InList(x, list) /\ x # p
    <2>1. ASSUME InList(x, r) PROVE InList(x, list) /\ x # p
      <3>1. PICK i \in 1 .. n - 1 : r[i] = x
        BY <1>7, <2>1 DEF InList
      <3>2. m(i) \in 1 .. n /\ m(i) # k /\ list[m(i)] = x
        BY <1>7, <3>1
      <3> QED  BY <1>1, <1>2, <3>2 DEF InList, Distinct
    <2>2. ASSUME InList(x, list), x # p PROVE InList(x, r)
      <3>1. PICK j \in 1 .. n : list[j] = x /\ j # k
        BY <1>1, <1>2, <2>2 DEF InList
      <3>2. PICK i \in 1 .. n - 1 : m(i) = j
        BY <1>7, <3>1
      <3> QED  BY <1>7, <3>1, <3>2 DEF InList
    <2> QED  BY <2>1, <2>2
  <1> QED  BY <1>6, <1>8, <1>9 DEF r

\* Each process has the device open for reading at most once.
OneReader == \A f, g \in Files \ Writable : Owner[f] = Owner[g] => f = g

\* write_pid is the process that holds the lock for writing.
WriterKnown == \A f \in holds \cap Writable : write_pid = Owner[f]

\* pid_list has exactly the processes that hold it for reading.
ReadersKnown ==
    /\ pid_list \in Seq(Procs) /\ Distinct(pid_list)
    /\ \A x : InList(x, pid_list) <=> \E f \in holds \ Writable : Owner[f] = x

\* Who waits holds nothing.
WaitersFree == \A p \in Queued : \A f \in holds : Owner[f] # p

HolderInv == LockInv /\ WriterKnown /\ ReadersKnown /\ WaitersFree

\* A grant enters the new holder.
LEMMA HolderEntered ==
    ASSUME HolderInv, OneReader, NEW f \in Files, f \notin holds, NEW t,
           Granted(Owner[f], f, t), MutualExclusion'
    PROVE  WriterKnown' /\ ReadersKnown'
  <1>1. /\ holds' = holds \cup {f} /\ holds \subseteq Files /\ Owner \in [Files -> Procs]
        /\ Owner[f] \in Procs
    BY LockAssumption DEF Granted, HolderInv, LockInv, Shape
  <1>2. CASE f \in Writable
    <2>1. write_pid' = Owner[f] /\ pid_list' = pid_list
      BY <1>2 DEF Granted
    <2>2. holds' = {f}
      BY <1>1, <1>2 DEF MutualExclusion
    <2>3. holds' \ Writable = holds \ Writable
      BY <1>1, <1>2
    <2> QED  BY <2>1, <2>2, <2>3 DEF HolderInv, WriterKnown, ReadersKnown, InList, Distinct
  <1>3. CASE f \notin Writable
    <2>1. write_pid' = write_pid /\ pid_list' = AppendPid(Owner[f], pid_list)
      BY <1>3 DEF Granted
    <2>2. holds' \cap Writable = holds \cap Writable /\ holds' \ Writable = (holds \ Writable) \cup {f}
      BY <1>1, <1>3
    <2>3. ~InList(Owner[f], pid_list)
      BY <1>1, <1>3 DEF HolderInv, ReadersKnown, OneReader
    <2>4. pid_list \in Seq(Procs) /\ Distinct(pid_list)
      BY DEF HolderInv, ReadersKnown
    <2>5. pid_list' = Append(pid_list, Owner[f])
      BY <1>1, <2>1, <2>3, <2>4, AppendPidAdds
    <2> DEFINE n == Len(pid_list)
    <2>6. /\ n \in Nat /\ DOMAIN pid_list = 1 .. n /\ DOMAIN pid_list' = 1 .. n + 1
          /\ pid_list' \in Seq(Procs) /\ pid_list'[n + 1] = Owner[f]
          /\ \A i \in 1 .. n : pid_list'[i] = pid_list[i]
      BY <1>1, <2>4, <2>5
    <2> HIDE DEF n
    <2>7. Distinct(pid_list')
      <3> SUFFICES ASSUME NEW i \in 1 .. n + 1, NEW j \in 1 .. n + 1, pid_list'[i] = pid_list'[j]
                   PROVE  i = j
        BY <2>6 DEF Distinct
      <3>1. CASE i \in 1 .. n /\ j \in 1 .. n
        BY <2>4, <2>6, <3>1 DEF Distinct
      <3>2. CASE i = n + 1 /\ j \in 1 .. n
        BY <2>3, <2>6, <3>2 DEF InList
      <3>3. CASE j = n + 1 /\ i \in 1 .. n
        BY <2>3, <2>6, <3>3 DEF InList
      <3> QED  BY <2>6, <3>1, <3>2, <3>3
    <2>8. \A x : InList(x, pid_list') <=> InList(x, pid_list) \/ x = Owner[f]
      <3>1. 1 .. n + 1 = (1 .. n) \cup {n + 1}
        BY <2>6
      <3> QED  BY <2>6, <3>1 DEF InList
    <2>9. \A x : InList(x, pid_list') <=> \E g \in holds' \ Writable : Owner[g] = x
      BY <2>2, <2>8 DEF HolderInv, ReadersKnown
    <2> QED  BY <2>1, <2>2, <2>6, <2>7, <2>9 DEF HolderInv, WriterKnown, ReadersKnown, InList
  <1> QED  BY <1>2, <1>3

\* A release takes it out.
LEMMA HolderLeft ==
    ASSUME HolderInv, OneReader, NEW f \in holds, Unlock(Owner[f], f)
    PROVE  WriterKnown' /\ ReadersKnown'
  <1>1. holds' = holds \ {f} /\ holds \subseteq Files
    BY DEF Unlock, HolderInv, LockInv, Shape
  <1>2. CASE f \in Writable
    <2>1. holds' = {} /\ pid_list' = pid_list /\ holds \ Writable = {}
      BY <1>1, <1>2 DEF Unlock, HolderInv, LockInv, MutualExclusion
    <2> QED  BY <2>1 DEF HolderInv, WriterKnown, ReadersKnown, InList, Distinct
  <1>3. CASE f \notin Writable
    <2>1. write_pid' = write_pid /\ pid_list' = RemovePid(Owner[f], pid_list)
      BY <1>3 DEF Unlock
    <2>2. holds' \cap Writable = holds \cap Writable /\ holds' \ Writable = (holds \ Writable) \ {f}
      BY <1>1, <1>3
    <2>3. InList(Owner[f], pid_list) /\ pid_list \in Seq(Procs) /\ Distinct(pid_list)
      BY <1>3 DEF HolderInv, ReadersKnown
    <2>4. /\ pid_list' \in Seq(Procs) /\ Distinct(pid_list')
          /\ \A x : InList(x, pid_list') <=> InList(x, pid_list) /\ x # Owner[f]
      BY <2>1, <2>3, RemovePidRemoves
    <2>5. \A g \in holds \ Writable : Owner[g] = Owner[f] => g = f
      BY <1>1, <1>3 DEF OneReader
    <2>6. \A x : InList(x, pid_list') <=> \E g \in holds' \ Writable : Owner[g] = x
      BY <2>2, <2>4, <2>5 DEF HolderInv, ReadersKnown
    <2> QED  BY <2>1, <2>2, <2>4, <2>6 DEF HolderInv, WriterKnown, ReadersKnown, InList, Distinct
  <1> QED  BY <1>2, <1>3

\* Every step preserves it.
LEMMA NextHolderInv ==
    ASSUME Smp = FALSE, OneReaderReleases, "try" \notin Ops, OneReader,
           TriedOnly, HolderInv, [Next]_vars
    PROVE  HolderInv'
  <1>0. LockInv'
    BY NextLockInv DEF HolderInv
  <1>s. /\ pc \in [Procs -> PCs] /\ Owner \in [Files -> Procs] /\ req \in [Procs -> Files]
        /\ holds \subseteq Files /\ Queued \subseteq Procs
    BY LockAssumption DEF HolderInv, LockInv, Shape, Queued
  <1>1. ASSUME UNCHANGED <<holds, write_pid, pid_list>>, Queued' \subseteq Queued
        PROVE  HolderInv'
    BY <1>0, <1>1 DEF HolderInv, WriterKnown, ReadersKnown, WaitersFree, InList, Distinct
  <1>2. ASSUME NEW p \in Procs, CheckCounters(p) \/ CheckTicket(p) PROVE HolderInv'
    <2>1. UNCHANGED <<holds, write_pid, pid_list>> /\ p \in Queued
      BY <1>2 DEF CheckCounters, CheckTicket, device, Queued
    <2>2. \E where : pc' = [pc EXCEPT ![p] = where]
      BY <1>2 DEF CheckCounters, CheckTicket, KeepWaiting
    <2>3. Queued' \subseteq Queued
      BY <1>s, <2>1, <2>2 DEF Queued
    <2> QED  BY <1>1, <2>1, <2>3
  <1>3. ASSUME NEW p \in Procs, Grant(p) PROVE HolderInv'
    <2>1. /\ pc[p] = "passed" /\ pc' = [pc EXCEPT ![p] = "user"]
          /\ Granted(p, req[p], cur_ticket[p]) /\ holds' = holds \cup {req[p]}
      BY <1>3 DEF Grant, Return, Granted
    <2>2. Owner[req[p]] = p /\ req[p] \notin holds /\ req[p] \in Files
      BY <1>s, <2>1 DEF HolderInv, LockInv, Requests
    <2>3. WriterKnown' /\ ReadersKnown'
      BY <1>0, <2>1, <2>2, HolderEntered DEF LockInv
    <2>4. Queued' = Queued \ {p}
      BY <1>s, <2>1 DEF Queued
    <2>5. WaitersFree'
      BY <2>1, <2>2, <2>4 DEF HolderInv, WaitersFree
    <2> QED  BY <1>0, <2>3, <2>5 DEF HolderInv
  <1>4. ASSUME NEW p \in Procs, Interrupted(p) PROVE HolderInv'
    <2>1. UNCHANGED <<holds, write_pid, pid_list>> /\ pc' = [pc EXCEPT ![p] = "user"]
      BY <1>4 DEF Interrupted, Return
    <2>2. Queued' \subseteq Queued
      BY <1>s, <2>1 DEF Queued
    <2> QED  BY <1>1, <2>1, <2>2
  <1>5. ASSUME NEW p \in Procs, TryLocks(p) PROVE HolderInv'
    BY <1>5 DEF TryLocks, TriedOnly
  <1>6. ASSUME NEW p \in Procs, Signal(p) PROVE HolderInv'
    BY <1>1, <1>6 DEF Signal, device, Queued
  <1>7. ASSUME NEW f \in Files, Open(Owner[f], f) PROVE HolderInv'
    BY <1>1, <1>7 DEF Open, device, process, Queued
  <1>8. ASSUME NEW f \in Files, Close(Owner[f], f) PROVE HolderInv'
    <2>0. Queued' = Queued /\ f \in open
      BY <1>8 DEF Close, process, Queued
    <2>1. CASE f \in locked /\ Unlock(Owner[f], f)
      <3>1. f \in holds /\ holds' \subseteq holds
        BY <2>0, <2>1 DEF HolderInv, LockInv, CountsMatch, Unlock
      <3>2. WriterKnown' /\ ReadersKnown'
        BY <2>1, <3>1, HolderLeft
      <3>3. WaitersFree'
        BY <2>0, <3>1 DEF HolderInv, WaitersFree
      <3> QED  BY <1>0, <3>2, <3>3 DEF HolderInv
    <2>2. CASE UNCHANGED <<device, locked, process, holds>>
      BY <1>1, <2>0, <2>2 DEF device
    <2> QED  BY <1>8, <2>1, <2>2 DEF Close
  <1>9. ASSUME NEW f \in Files, Acquire(Owner[f], f) PROVE HolderInv'
    <2> DEFINE p == Owner[f]
    <2>0. p \in Procs /\ p \notin Queued /\ f \notin holds
      BY <1>s, <1>9 DEF Acquire, Queued
    <2>1. CASE AcquireDeadlk(p, f)
      BY <1>1, <2>1 DEF AcquireDeadlk, vars, device, process, Queued
    <2>2. CASE AcquireNow(p, f)
      <3>1. Granted(p, f, ticket_head) /\ Queued' = Queued /\ holds' = holds \cup {f}
        BY <2>2 DEF AcquireNow, Granted, process, Queued
      <3>2. WriterKnown' /\ ReadersKnown'
        BY <1>0, <2>0, <3>1, HolderEntered DEF LockInv
      <3>3. WaitersFree'
        BY <2>0, <3>1 DEF HolderInv, WaitersFree
      <3> QED  BY <1>0, <3>2, <3>3 DEF HolderInv
    <2>3. CASE AcquireWait(p, f)
      <3>1. /\ UNCHANGED <<holds, write_pid, pid_list>> /\ pc' = [pc EXCEPT ![p] = "waiting"]
            /\ write_pid # p /\ ~(f \in Writable /\ InList(p, pid_list))
        BY <2>3 DEF AcquireWait, WouldDeadlock
      <3>2. Queued' = Queued \cup {p}
        BY <1>s, <2>0, <3>1 DEF Queued
      <3>3. ASSUME NEW g \in holds, Owner[g] = p PROVE FALSE
        <4>1. g \notin Writable
          BY <3>1, <3>3 DEF HolderInv, WriterKnown
        <4>2. InList(p, pid_list)
          BY <3>3, <4>1 DEF HolderInv, ReadersKnown
        <4>3. f = g
          BY <1>s, <3>1, <3>3, <4>1, <4>2 DEF OneReader
        <4> QED  BY <2>0, <4>3
      <3>4. WaitersFree'
        BY <3>1, <3>2, <3>3 DEF HolderInv, WaitersFree
      <3> QED  BY <1>0, <3>1, <3>4 DEF HolderInv, WriterKnown, ReadersKnown, InList, Distinct
    <2> QED  BY <1>9, <2>1, <2>2, <2>3 DEF Acquire
  <1>10. ASSUME NEW f \in Files, TryAcquire(Owner[f], f) \/ Release(Owner[f], f) PROVE HolderInv'
    <2>0. f \in open /\ f \in locked /\ Unlock(Owner[f], f) /\ Queued' = Queued
      BY <1>10 DEF TryAcquire, Release, Queued
    <2>1. f \in holds /\ holds' \subseteq holds
      BY <2>0 DEF HolderInv, LockInv, CountsMatch, Unlock
    <2>2. WriterKnown' /\ ReadersKnown'
      BY <2>0, <2>1, HolderLeft
    <2>3. WaitersFree'
      BY <2>0, <2>1 DEF HolderInv, WaitersFree
    <2> QED  BY <1>0, <2>2, <2>3 DEF HolderInv
  <1>11. CASE UNCHANGED vars
    BY <1>1, <1>11 DEF vars, device, process, Queued
  <1> QED
    BY <1>2, <1>3, <1>4, <1>5, <1>6, <1>7, <1>8, <1>9, <1>10, <1>11 DEF Next, InKernelStep

\* For processes that lock with ACQUIRE through files of which at most one is
\* for reading, -EDEADLK catches every deadlock: nobody waits while it holds a
\* lock.  (With a second file for reading, a process that holds the lock for
\* reading may wait behind a writer that waits for it.)
THEOREM DeadlocksAreDetected ==
    ASSUME Smp = FALSE, OneReaderReleases, "try" \notin Ops, OneReader
    PROVE  Spec => []DeadlockDetected
  <1>1. Init => QueueInv /\ HolderInv
    <2> SUFFICES ASSUME Init PROVE WriterKnown /\ ReadersKnown /\ WaitersFree
      BY InitQueueInv DEF QueueInv, HolderInv
    <2> QED  BY DEF Init, WriterKnown, ReadersKnown, WaitersFree, InList, Distinct
  <1>2. QueueInv /\ HolderInv /\ [Next]_vars => (QueueInv /\ HolderInv)'
    BY NextQueueInv, NextHolderInv DEF QueueInv
  <1>3. HolderInv => DeadlockDetected
    BY DEF HolderInv, WaitersFree, DeadlockDetected, Waiting, Queued
  <1> QED  BY <1>1, <1>2, <1>3, PTL DEF Spec

=============================================================================
