-------------------------- MODULE OsprdCryptProofs --------------------------
(***************************************************************************)
(* What is proved of the ramdisk's encryption and passwords for every      *)
(* number of clients, sectors and bytes, every key and every part of the   *)
(* disk that is read and written.                                          *)
(***************************************************************************)
EXTENDS OsprdCrypt, TLAPS

-----------------------------------------------------------------------------
(* The shape of the state. *)

DriverPCs == {"fetch", "decrypt", "rekey", "store", "writing"}

Jobs ==
    [kind : {"read", "write", "zero", "passwd"}, pos : Nat, end : 0 .. NSectors * KEY_LENGTH,
     guess : Typed, ok : BOOLEAN, buf : [Positions -> Bits], rand_key : Keys,
     sector : Nat, stuff_buf : Keys, authed : BOOLEAN]

CryptShape ==
    /\ passwd \in Typed /\ key \in Keys /\ written_sectors \subseteq Sectors
    /\ data \in [Positions -> Bits] /\ plain \in [Positions -> {0, 1, 2}]
    /\ pc \in [Procs -> UserPCs \cup DriverPCs] /\ job \in [Procs -> Jobs]

\* What kind of client is where.  A client that zeroes begins every write
\* with a sector.
KindRight(p) ==
    /\ pc[p] \in {"fetch", "decrypt", "rekey", "store"} => job[p].kind = "read"
    /\ pc[p] = "writing" => job[p].kind \in {"write", "zero"}
    /\ pc[p] = "transfer" => job[p].kind # "passwd"
    /\ job[p].kind = "zero" /\ job[p].pos < job[p].end => job[p].pos % KEY_LENGTH = 0
    /\ pc[p] = "writing" => job[p].pos < job[p].end

ShapeInv == CryptShape /\ \A p \in Procs : KindRight(p)

-----------------------------------------------------------------------------
(* Bytes and sectors. *)

LEMMA Numbers ==
    /\ KEY_LENGTH \in Nat /\ KEY_LENGTH > 0 /\ NSectors \in Nat /\ NSectors > 0
    /\ NSectors * KEY_LENGTH \in Nat
    /\ BUFSIZ \in Nat /\ BUFSIZ > 0 /\ BUFSIZ % KEY_LENGTH = 0
  BY CryptAssumption

\* A byte of the disk is a byte of one sector.
LEMMA ByteOfSector ==
    ASSUME NEW x \in Positions
    PROVE  /\ x \in Nat /\ x < NSectors * KEY_LENGTH
           /\ x % KEY_LENGTH \in Offsets /\ SectorOf(x) \in Sectors /\ SectorOf(x) \in Nat
           /\ x = SectorOf(x) * KEY_LENGTH + (x % KEY_LENGTH)
           /\ SectorOf(x) * KEY_LENGTH <= x /\ x < (SectorOf(x) + 1) * KEY_LENGTH
  <1> DEFINE q == SectorOf(x)
             r == x % KEY_LENGTH
  <1>1. x \in Nat /\ x < NSectors * KEY_LENGTH
    BY Numbers DEF Positions
  <1>2. q \in Nat /\ r \in Nat /\ r < KEY_LENGTH /\ x = q * KEY_LENGTH + r
    BY <1>1, Numbers DEF SectorOf
  <1> HIDE DEF q, r
  <1>3. q * KEY_LENGTH <= x /\ x < (q + 1) * KEY_LENGTH
    BY <1>1, <1>2, Numbers
  <1>4. q < NSectors
    <2>1. ASSUME q >= NSectors PROVE FALSE
      <3>1. q * KEY_LENGTH >= NSectors * KEY_LENGTH
        BY <1>2, <2>1, Numbers
      <3> QED  BY <1>1, <1>2, <1>3, <3>1, Numbers
    <2> QED  BY <1>2, <2>1, Numbers
  <1> QED  BY <1>1, <1>2, <1>3, <1>4, Numbers DEF Offsets, Sectors, q, r

\* The bytes of a sector are on the disk.
LEMMA SectorOfByte ==
    ASSUME NEW s \in Sectors, NEW i \in Offsets
    PROVE  s * KEY_LENGTH + i \in Positions
  <1>1. s \in Nat /\ i \in Nat /\ i < KEY_LENGTH /\ s + 1 <= NSectors
    BY Numbers DEF Sectors, Offsets
  <1>2. (s + 1) * KEY_LENGTH <= NSectors * KEY_LENGTH
    BY <1>1, Numbers
  <1>3. s * KEY_LENGTH + i < (s + 1) * KEY_LENGTH /\ s * KEY_LENGTH + i \in Nat
    BY <1>1, Numbers
  <1> QED  BY <1>1, <1>2, <1>3, Numbers DEF Positions

\* Encrypting is its own inverse.
LEMMA XorTwice ==
    ASSUME NEW a \in Bits, NEW b \in Bits
    PROVE  Xor(a, b) \in Bits /\ Xor(Xor(a, b), b) = a
  BY DEF Xor, Bits

LEMMA CryptBits ==
    ASSUME NEW buf \in [Positions -> Bits], NEW from, NEW k \in Keys
    PROVE  Crypt(buf, from, k) \in [Positions -> Bits]
  <1>1. \A x \in Positions : buf[x] \in Bits /\ k[x % KEY_LENGTH] \in Bits
    BY ByteOfSector DEF Keys
  <1>2. \A x \in Positions : Xor(buf[x], k[x % KEY_LENGTH]) \in Bits
    BY <1>1, XorTwice
  <1> QED  BY <1>2 DEF Crypt

\* A call moves something, and nothing behind the end.
LEMMA CallMoves ==
    ASSUME NEW j \in Jobs
    PROVE  /\ CallEnd(j) \in Nat
           /\ j.pos < j.end => j.pos < CallEnd(j) /\ CallEnd(j) <= j.end
  BY Numbers DEF CallEnd, Jobs

-----------------------------------------------------------------------------
(* The flags of the written sectors. *)

\* A write that begins with a sector, or with a byte that is not zero, marks
\* every sector that gets something other than zeros, and clears no sector
\* that it does not fill.
LEMMA FlagsRight ==
    ASSUME CryptShape, NEW buf \in [Positions -> Bits], NEW from \in Nat, NEW to \in Nat,
           from < to, to <= NSectors * KEY_LENGTH, from % KEY_LENGTH = 0 \/ buf[from] # 0
    PROVE  /\ Flags(buf, from, to) \subseteq Sectors
           /\ \A x \in Positions : from <= x /\ x < to /\ buf[x] # 0 =>
                SectorOf(x) \in Flags(buf, from, to)
           /\ \A x \in Positions : ~(from <= x /\ x < to) /\ SectorOf(x) \in written_sectors =>
                SectorOf(x) \in Flags(buf, from, to)
  <1> DEFINE nonzero == {s \in Parts(from, to) : ~Zero(buf, from, to, s)}
             cleared == {s \in Parts(from, to) \ nonzero : Full(from, to, s)}
             flags == Flags(buf, from, to)
  <1>1. from \in Positions /\ to - 1 \in Positions
    BY Numbers DEF Positions
  <1>2. /\ SectorOf(from) \in Sectors /\ SectorOf(to - 1) \in Sectors
        /\ from = SectorOf(from) * KEY_LENGTH + (from % KEY_LENGTH)
    BY <1>1, ByteOfSector
  <1>3. Shift(buf, from, to) = 0
    <2>1. CASE from % KEY_LENGTH = 0
      <3>1. ~Unaligned(from, SectorOf(from))
        BY <1>2, <2>1, Numbers DEF Unaligned, Sectors
      <3> QED  BY <3>1 DEF Shift
    <2>2. CASE buf[from] # 0
      <3>1. ~Zero(buf, from, to, SectorOf(from))
        BY <2>2 DEF Zero
      <3> QED  BY <3>1 DEF Shift
    <2> QED  BY <2>1, <2>2
  <1>4. Parts(from, to) \subseteq Sectors
    BY <1>2, Numbers DEF Parts, Sectors
  <1>5. \A s \in Sectors : s \in Int /\ s - 0 = s
    BY Numbers DEF Sectors
  <1>6. flags = (written_sectors \ cleared) \cup nonzero
    <2>1. flags = (written_sectors \ {s - 0 : s \in cleared}) \cup {s - 0 : s \in nonzero}
      BY <1>3 DEF Flags
    <2>2. cleared \subseteq Sectors /\ nonzero \subseteq Sectors
      BY <1>4
    <2> HIDE DEF cleared, nonzero, flags
    <2>3. {s - 0 : s \in cleared} = cleared /\ {s - 0 : s \in nonzero} = nonzero
      BY <1>5, <2>2
    <2> QED  BY <2>1, <2>3
  <1>7. flags \subseteq Sectors
    BY <1>4, <1>6 DEF CryptShape
  <1>8. ASSUME NEW x \in Positions, from <= x, x < to, buf[x] # 0 PROVE SectorOf(x) \in flags
    <2>1. x \in Nat /\ SectorOf(x) \in Nat
      BY ByteOfSector
    <2>2. SectorOf(x) \in Parts(from, to)
      <3>1. SectorOf(from) <= SectorOf(x) /\ SectorOf(x) <= SectorOf(to - 1)
        <4>0. /\ SectorOf(from) \in Nat /\ SectorOf(to - 1) \in Nat
              /\ SectorOf(x) * KEY_LENGTH <= x /\ x < (SectorOf(x) + 1) * KEY_LENGTH
              /\ SectorOf(from) * KEY_LENGTH <= from
              /\ to - 1 < (SectorOf(to - 1) + 1) * KEY_LENGTH
          BY <1>1, ByteOfSector
        <4>1. ASSUME NEW a \in Nat, NEW b \in Nat, a * KEY_LENGTH < b * KEY_LENGTH PROVE a < b
          BY <4>1, Numbers
        <4>2. SectorOf(from) * KEY_LENGTH < (SectorOf(x) + 1) * KEY_LENGTH
          BY <1>8, <2>1, <4>0, Numbers
        <4>3. SectorOf(x) * KEY_LENGTH < (SectorOf(to - 1) + 1) * KEY_LENGTH
          BY <1>8, <2>1, <4>0, Numbers
        <4>4. SectorOf(from) < SectorOf(x) + 1 /\ SectorOf(x) < SectorOf(to - 1) + 1
          BY <2>1, <4>0, <4>1, <4>2, <4>3
        <4> QED  BY <2>1, <4>0, <4>4
      <3> QED  BY <1>2, <2>1, <3>1, Numbers DEF Parts, Sectors
    <2>3. ~Zero(buf, from, to, SectorOf(x))
      BY <1>8, <2>1 DEF Zero
    <2> QED  BY <1>6, <2>2, <2>3
  <1>9. ASSUME NEW x \in Positions, ~(from <= x /\ x < to), SectorOf(x) \in written_sectors
        PROVE  SectorOf(x) \in flags
    <2>1. /\ x \in Nat /\ SectorOf(x) \in Nat
          /\ SectorOf(x) * KEY_LENGTH <= x /\ x < (SectorOf(x) + 1) * KEY_LENGTH
      BY ByteOfSector
    <2>2. ~Full(from, to, SectorOf(x))
      BY <1>9, <2>1, Numbers DEF Full
    <2> QED  BY <1>6, <1>9, <2>2
  <1> QED  BY <1>7, <1>8, <1>9

-----------------------------------------------------------------------------
(* The shape is kept. *)

LEMMA NoJobIsJob == NoJob \in Jobs /\ ~NoJob.ok /\ NoJob.pos = 0 /\ NoJob.end = 0
  <1>1. ZeroKey \in Keys
    BY DEF ZeroKey, Keys, Bits
  <1> QED  BY <1>1, Numbers DEF NoJob, Jobs, Bits, Typed

\* A step of p alone: the others stay where they are.
OnlyOf(p) == \A q \in Procs \ {p} : pc'[q] = pc[q] /\ job'[q] = job[q]

\* What is to be shown of a step that changes only p's job, to j, and takes p
\* to where.
LEMMA ShapeStep ==
    ASSUME ShapeInv, NEW p \in Procs, NEW where \in UserPCs \cup DriverPCs, NEW j \in Jobs,
           pc' = [pc EXCEPT ![p] = where], job' = [job EXCEPT ![p] = j],
           passwd' \in Typed, key' \in Keys, written_sectors' \subseteq Sectors,
           data' \in [Positions -> Bits], plain' \in [Positions -> {0, 1, 2}],
           where \in {"fetch", "decrypt", "rekey", "store"} => j.kind = "read",
           where = "writing" => j.kind \in {"write", "zero"} /\ j.pos < j.end,
           where = "transfer" => j.kind # "passwd",
           j.kind = "zero" /\ j.pos < j.end => j.pos % KEY_LENGTH = 0
    PROVE  ShapeInv' /\ OnlyOf(p) /\ pc'[p] = where /\ job'[p] = j
  <1>1. pc'[p] = where /\ job'[p] = j /\ OnlyOf(p)
    BY DEF ShapeInv, CryptShape, OnlyOf
  <1>2. CryptShape'
    BY DEF ShapeInv, CryptShape
  <1>3. ASSUME NEW q \in Procs PROVE KindRight(q)'
    <2>1. CASE q = p
      BY <1>1, <2>1 DEF KindRight
    <2>2. CASE q # p
      BY <1>1, <2>2 DEF KindRight, OnlyOf, ShapeInv
    <2> QED  BY <2>1, <2>2
  <1> QED  BY <1>1, <1>2, <1>3 DEF ShapeInv

\* A step of a client outside the driver.
UserStep(p) ==
    /\ pc[p] \in UserPCs /\ pc'[p] \in UserPCs /\ OnlyOf(p)
    /\ UNCHANGED <<key, written_sectors, data, plain>>

LEMMA StartShape ==
    ASSUME ShapeInv, NEW p \in Procs, NEW kind \in {"read", "write", "zero", "passwd"}, NEW span,
           Start(p, kind, span),
           span[1] \in Nat, span[2] \in 0 .. NSectors * KEY_LENGTH,
           kind = "zero" => span[1] % KEY_LENGTH = 0
    PROVE  ShapeInv' /\ UserStep(p)
  <1> DEFINE j == [NoJob EXCEPT !.kind = kind, !.pos = span[1], !.end = span[2]]
             where == IF kind \in {"read", "passwd"} THEN "exists" ELSE "transfer"
  <1>1. /\ pc[p] = "idle" /\ job' = [job EXCEPT ![p] = j] /\ pc' = [pc EXCEPT ![p] = where]
        /\ UNCHANGED <<passwd, key, written_sectors, data, plain>>
    BY DEF Start, Go, device
  <1>2. j \in Jobs /\ j.kind = kind /\ j.pos = span[1] /\ j.end = span[2]
    BY NoJobIsJob DEF Jobs
  <1>3. where \in UserPCs /\ where # "writing" /\ where \notin DriverPCs
        /\ (where = "transfer" => kind # "passwd")
    BY DEF UserPCs, DriverPCs
  <1> HIDE DEF j, where
  <1>4. ShapeInv' /\ OnlyOf(p) /\ pc'[p] = where
    BY <1>1, <1>2, <1>3, ShapeStep DEF ShapeInv, CryptShape, DriverPCs
  <1> QED  BY <1>1, <1>3, <1>4 DEF UserStep, UserPCs

LEMMA StartsShape ==
    ASSUME ShapeInv, NEW p \in Procs, Starts(p)
    PROVE  ShapeInv' /\ UserStep(p)
  <1>1. ASSUME NEW span \in Spans \cup ZeroSpans
        PROVE  span[1] \in Nat /\ span[2] \in 0 .. NSectors * KEY_LENGTH
    <2>1. span \in Positions \X (Positions \cup {NSectors * KEY_LENGTH})
      BY CryptAssumption
    <2>2. Positions \subseteq 0 .. NSectors * KEY_LENGTH /\ Positions \subseteq Nat
          /\ NSectors * KEY_LENGTH \in 0 .. NSectors * KEY_LENGTH
      BY Numbers DEF Positions
    <2> QED  BY <2>1, <2>2
  <1>2. ASSUME NEW span \in Spans, Start(p, "read", span) \/ Start(p, "write", span)
        PROVE  ShapeInv' /\ UserStep(p)
    BY <1>1, <1>2, StartShape
  <1>3. ASSUME NEW span \in ZeroSpans, Start(p, "zero", span) PROVE ShapeInv' /\ UserStep(p)
    <2>1. span[1] % KEY_LENGTH = 0
      BY CryptAssumption
    <2> QED  BY <1>1, <1>3, <2>1, StartShape
  <1>4. ASSUME Start(p, "passwd", <<0, 0>>) PROVE ShapeInv' /\ UserStep(p)
    <2> DEFINE span == <<0, 0>>
    <2>1. span[1] \in Nat /\ span[2] \in 0 .. NSectors * KEY_LENGTH /\ Start(p, "passwd", span)
      BY <1>4, Numbers
    <2> HIDE DEF span
    <2> QED  BY <2>1, StartShape
  <1> QED  BY <1>2, <1>3, <1>4 DEF Starts

LEMMA ClientShape ==
    ASSUME ShapeInv, NEW p \in Procs, ClientStep(p)
    PROVE  ShapeInv' /\ UserStep(p)
  <1>0. /\ job[p] \in Jobs /\ KindRight(p) /\ passwd \in Typed /\ key \in Keys
        /\ written_sectors \subseteq Sectors /\ data \in [Positions -> Bits]
        /\ plain \in [Positions -> {0, 1, 2}]
        /\ pc \in [Procs -> UserPCs \cup DriverPCs] /\ job \in [Procs -> Jobs]
    BY DEF ShapeInv, CryptShape
  <1>1. ASSUME NEW where \in UserPCs, NEW j \in Jobs, pc[p] \in UserPCs,
               pc' = [pc EXCEPT ![p] = where], job' = [job EXCEPT ![p] = j],
               UNCHANGED <<key, written_sectors, data, plain>>, passwd' \in Typed,
               where = "transfer" => j.kind # "passwd",
               j.kind = "zero" /\ j.pos < j.end => j.pos % KEY_LENGTH = 0
        PROVE  ShapeInv' /\ UserStep(p)
    <2>1. where \notin DriverPCs
      BY <1>1 DEF UserPCs, DriverPCs
    <2>2. ShapeInv' /\ OnlyOf(p) /\ pc'[p] = where
      BY <1>0, <1>1, <2>1, ShapeStep DEF DriverPCs
    <2> QED  BY <1>1, <2>2 DEF UserStep
  <1>2. ASSUME NEW j, j = NoJob PROVE j \in Jobs /\ ~(j.pos < j.end)
    BY <1>2, NoJobIsJob
  <1>3. CASE PassExists(p)
    <2>1. PICK given \in BOOLEAN, typed \in Typed :
             job' = [job EXCEPT ![p].guess =
                       IF ~given /\ passwd = NoPassword THEN NoPassword ELSE typed]
      BY <1>3 DEF PassExists
    <2>2. PICK guess \in Typed : guess = IF ~given /\ passwd = NoPassword THEN NoPassword ELSE typed
      BY DEF Typed
    <2> DEFINE j == [job[p] EXCEPT !.guess = guess]
    <2>3. job' = [job EXCEPT ![p] = j]
      BY <2>1, <2>2
    <2>4. j \in Jobs /\ j.kind = job[p].kind /\ j.pos = job[p].pos /\ j.end = job[p].end
      BY <1>0 DEF Jobs
    <2>5. /\ pc[p] = "exists" /\ pc' = [pc EXCEPT ![p] = "authorize"]
          /\ UNCHANGED <<passwd, key, written_sectors, data, plain>>
      BY <1>3 DEF PassExists, Go, device
    <2> HIDE DEF j
    <2> QED  BY <1>0, <1>1, <2>3, <2>4, <2>5 DEF UserPCs, KindRight
  <1>4. CASE Authorize(p)
    <2>1. PICK ok \in BOOLEAN : AfterAuthorize(p, ok)
      BY <1>4 DEF Authorize
    <2> DEFINE j == [job[p] EXCEPT !.ok = ok, !.guess = NoPassword]
               where == IF job[p].kind = "read" THEN "transfer"
                        ELSE IF ok THEN "setpass" ELSE "deauthorize"
    <2>2. job' = [job EXCEPT ![p] = j] /\ pc' = [pc EXCEPT ![p] = where]
      BY <2>1 DEF AfterAuthorize, Go
    <2>3. j \in Jobs /\ j.kind = job[p].kind /\ j.pos = job[p].pos /\ j.end = job[p].end
      BY <1>0 DEF Jobs, Typed
    <2>4. pc[p] = "authorize" /\ UNCHANGED <<passwd, key, written_sectors, data, plain>>
      BY <1>4 DEF Authorize
    <2>5. where \in UserPCs /\ (where = "transfer" => job[p].kind # "passwd")
      BY DEF UserPCs
    <2> HIDE DEF j, where
    <2> QED  BY <1>0, <1>1, <2>2, <2>3, <2>4, <2>5 DEF UserPCs, KindRight
  <1>5. CASE SetPass(p)
    <2>1. /\ pc[p] = "setpass" /\ pc' = [pc EXCEPT ![p] = "deauthorize"]
          /\ UNCHANGED <<key, written_sectors, data, plain, job>> /\ passwd' \in Typed
      BY <1>0, <1>5 DEF SetPass, Go
    <2>2. job' = [job EXCEPT ![p] = job[p]]
      BY <1>0, <2>1
    <2> QED  BY <1>0, <1>1, <2>1, <2>2 DEF UserPCs, KindRight
  <1>6. CASE Deauthorize(p)
    <2>1. /\ pc[p] = "deauthorize" /\ pc' = [pc EXCEPT ![p] = "idle"]
          /\ job' = [job EXCEPT ![p] = NoJob]
          /\ UNCHANGED <<passwd, key, written_sectors, data, plain>>
      BY <1>6 DEF Deauthorize, Go
    <2> QED  BY <1>0, <1>1, <1>2, <2>1 DEF UserPCs
  <1>7. CASE Dies(p)
    <2>1. /\ pc[p] \in UserPCs /\ pc' = [pc EXCEPT ![p] = "idle"]
          /\ job' = [job EXCEPT ![p] = NoJob]
          /\ UNCHANGED <<passwd, key, written_sectors, data, plain>>
      BY <1>7 DEF Dies, Go, device
    <2> QED  BY <1>0, <1>1, <1>2, <2>1 DEF UserPCs
  <1>8. CASE TransferEnds(p)
    <2>1. pc[p] = "transfer" /\ UNCHANGED <<passwd, key, written_sectors, data, plain>>
      BY <1>8 DEF TransferEnds, device
    <2>2. CASE job[p].kind = "read"
      <3>1. pc' = [pc EXCEPT ![p] = "deauthorize"] /\ job' = [job EXCEPT ![p] = job[p]]
        BY <1>0, <1>8, <2>2 DEF TransferEnds, Go
      <3> QED  BY <1>0, <1>1, <2>1, <3>1 DEF UserPCs, KindRight
    <2>3. CASE job[p].kind # "read"
      <3>1. pc' = [pc EXCEPT ![p] = "idle"] /\ job' = [job EXCEPT ![p] = NoJob]
        BY <1>8, <2>3 DEF TransferEnds, Go
      <3> QED  BY <1>0, <1>1, <1>2, <2>1, <3>1 DEF UserPCs
    <2> QED  BY <2>2, <2>3
  <1> QED  BY <1>3, <1>4, <1>5, <1>6, <1>7, <1>8 DEF ClientStep

-----------------------------------------------------------------------------
(* The steps of the driver.  For each: what becomes of the shape, of the     *)
(* client's job and of where it is.                                          *)

\* What no step of the driver changes.
InDriver(p) ==
    /\ OnlyOf(p) /\ CanRun(p)
    /\ pc[p] \in DriverPCs \cup {"transfer"} /\ pc'[p] \in DriverPCs \cup {"transfer"}
    /\ job'[p].ok = job[p].ok /\ job'[p].kind = job[p].kind
    /\ UNCHANGED <<passwd, auth_list, stale>>

LEMMA DriverShape ==
    ASSUME ShapeInv, NEW p \in Procs, NEW where \in DriverPCs \cup {"transfer"}, NEW j \in Jobs,
           pc[p] \in DriverPCs \cup {"transfer"}, CanRun(p),
           pc' = [pc EXCEPT ![p] = where], job' = [job EXCEPT ![p] = j],
           UNCHANGED <<passwd, auth_list, stale>>,
           key' \in Keys, written_sectors' \subseteq Sectors,
           data' \in [Positions -> Bits], plain' \in [Positions -> {0, 1, 2}],
           j.ok = job[p].ok, j.kind = job[p].kind,
           where \in {"fetch", "decrypt", "rekey", "store"} => j.kind = "read",
           where = "writing" => j.kind \in {"write", "zero"} /\ j.pos < j.end,
           where = "transfer" => j.kind # "passwd",
           j.kind = "zero" /\ j.pos < j.end => j.pos % KEY_LENGTH = 0
    PROVE  ShapeInv' /\ InDriver(p) /\ pc'[p] = where /\ job'[p] = j
  <1>1. where \in UserPCs \cup DriverPCs
    BY DEF UserPCs
  <1>2. passwd' \in Typed
    BY DEF ShapeInv, CryptShape
  <1>3. ShapeInv' /\ OnlyOf(p) /\ pc'[p] = where /\ job'[p] = j
    BY <1>1, <1>2, ShapeStep
  <1> QED  BY <1>3 DEF InDriver

\* Going into new_key().
LEMMA NewKeyShape ==
    ASSUME ShapeInv, NEW p \in Procs, NEW j \in Jobs, NewKey(p, j), CanRun(p),
           pc[p] \in {"transfer", "decrypt"}, j.kind = "read", job[p].kind = "read",
           j.ok = job[p].ok, UNCHANGED <<device, data, plain, stale>>
    PROVE  /\ ShapeInv' /\ InDriver(p) /\ pc'[p] = "rekey"
           /\ job'[p].sector = 0 /\ job'[p].buf = j.buf /\ job'[p].authed = j.authed
           /\ job'[p].pos = j.pos /\ job'[p].end = j.end
           /\ UNCHANGED <<key, written_sectors, data, plain>>
  <1>1. PICK rand \in Keys : job' = [job EXCEPT ![p] = [j EXCEPT !.rand_key = rand, !.sector = 0]]
    BY DEF NewKey
  <1> DEFINE k == [j EXCEPT !.rand_key = rand, !.sector = 0]
  <1>2. pc' = [pc EXCEPT ![p] = "rekey"]
        /\ UNCHANGED <<passwd, key, written_sectors, auth_list, data, plain, stale>>
    BY DEF NewKey, Go, device
  <1>3. k \in Jobs /\ k.kind = "read" /\ k.ok = job[p].ok /\ k.sector = 0
        /\ k.buf = j.buf /\ k.authed = j.authed /\ k.pos = j.pos /\ k.end = j.end
    BY DEF Jobs
  <1>4. job' = [job EXCEPT ![p] = k]
    BY <1>1
  <1> HIDE DEF k
  <1>5. ShapeInv' /\ InDriver(p) /\ pc'[p] = "rekey" /\ job'[p] = k
    BY <1>2, <1>3, <1>4, DriverShape DEF ShapeInv, CryptShape, DriverPCs
  <1> QED  BY <1>2, <1>3, <1>5

LEMMA ReadCallShape ==
    ASSUME ShapeInv, NEW p \in Procs, ReadCall(p)
    PROVE  /\ ShapeInv' /\ InDriver(p) /\ pc[p] = "transfer"
           /\ UNCHANGED <<key, written_sectors, data, plain>>
           /\ \/ pc'[p] = "fetch"
              \/ pc'[p] = "rekey" /\ job'[p].sector = 0 /\ ~job'[p].authed
  <1>0. job[p] \in Jobs /\ job \in [Procs -> Jobs] /\ CanRun(p) /\ pc[p] = "transfer"
        /\ job[p].kind = "read" /\ UNCHANGED <<device, data, plain, stale>>
    BY DEF ShapeInv, CryptShape, ReadCall
  <1>1. CASE p \in auth_list
    <2> DEFINE j == [job[p] EXCEPT !.authed = TRUE]
    <2>1. job' = [job EXCEPT ![p] = j] /\ pc' = [pc EXCEPT ![p] = "fetch"]
      BY <1>1 DEF ReadCall, Go, NewKey
    <2>2. j \in Jobs /\ j.kind = job[p].kind /\ j.ok = job[p].ok
      BY <1>0 DEF Jobs
    <2> HIDE DEF j
    <2>3. ShapeInv' /\ InDriver(p) /\ pc'[p] = "fetch"
      BY <1>0, <2>1, <2>2, DriverShape DEF ShapeInv, CryptShape, DriverPCs, device
    <2> QED  BY <1>0, <2>3 DEF device
  <1>2. CASE p \notin auth_list
    <2> DEFINE j == [job[p] EXCEPT !.authed = FALSE]
    <2>1. NewKey(p, j)
      BY <1>2 DEF ReadCall
    <2>2. j \in Jobs /\ j.kind = "read" /\ j.ok = job[p].ok /\ ~j.authed
      BY <1>0 DEF Jobs
    <2> HIDE DEF j
    <2> QED  BY <1>0, <2>1, <2>2, NewKeyShape
  <1> QED  BY <1>1, <1>2

\* A system call that returns.
LEMMA ReturnedJob ==
    ASSUME NEW j \in Jobs
    PROVE  Returned(j) \in Jobs /\ Returned(j).kind = j.kind /\ Returned(j).ok = j.ok
  <1>1. ZeroKey \in Keys /\ NoJob.buf \in [Positions -> Bits] /\ CallEnd(j) \in Nat
    BY CallMoves DEF ZeroKey, Keys, Bits, NoJob
  <1> QED  BY <1>1 DEF Returned, Jobs

LEMMA FetchShape ==
    ASSUME ShapeInv, NEW p \in Procs, Fetch(p)
    PROVE  /\ ShapeInv' /\ InDriver(p) /\ pc[p] = "fetch"
           /\ UNCHANGED <<key, written_sectors, data, plain>>
           /\ \/ pc'[p] = "transfer"
              \/ /\ pc'[p] = "decrypt" /\ job'[p].buf = Fetched(job[p])
                 /\ job'[p].pos = job[p].pos /\ job'[p].end = job[p].end
  <1>0. /\ job[p] \in Jobs /\ job \in [Procs -> Jobs] /\ CanRun(p) /\ pc[p] = "fetch"
        /\ UNCHANGED <<passwd, key, written_sectors, auth_list, data, plain, stale>>
    BY DEF ShapeInv, CryptShape, Fetch, device
  <1>1. job[p].kind = "read"
    BY <1>0 DEF ShapeInv, KindRight
  <1>2. CASE job[p].authed
    <2> DEFINE j == [job[p] EXCEPT !.buf = Fetched(job[p])]
    <2>1. job' = [job EXCEPT ![p] = j] /\ pc' = [pc EXCEPT ![p] = "decrypt"]
      BY <1>2 DEF Fetch, Go
    <2>2. Fetched(job[p]) \in [Positions -> Bits]
      BY DEF Fetched, Bits, ShapeInv, CryptShape
    <2>3. j \in Jobs /\ j.kind = job[p].kind /\ j.ok = job[p].ok /\ j.buf = Fetched(job[p])
          /\ j.pos = job[p].pos /\ j.end = job[p].end
      BY <1>0, <2>2 DEF Jobs
    <2> HIDE DEF j
    <2>4. ShapeInv' /\ InDriver(p) /\ pc'[p] = "decrypt" /\ job'[p] = j
      BY <1>0, <1>1, <2>1, <2>3, DriverShape DEF ShapeInv, CryptShape, DriverPCs
    <2> QED  BY <1>0, <2>3, <2>4
  <1>3. CASE ~job[p].authed
    <2> DEFINE j == Returned(job[p])
    <2>1. job' = [job EXCEPT ![p] = j] /\ pc' = [pc EXCEPT ![p] = "transfer"]
      BY <1>3 DEF Fetch, Go
    <2>2. j \in Jobs /\ j.kind = job[p].kind /\ j.ok = job[p].ok
      BY <1>0, ReturnedJob
    <2> HIDE DEF j
    <2>3. ShapeInv' /\ InDriver(p) /\ pc'[p] = "transfer"
      BY <1>0, <1>1, <2>1, <2>2, DriverShape DEF ShapeInv, CryptShape, DriverPCs
    <2> QED  BY <1>0, <2>3
  <1> QED  BY <1>2, <1>3

LEMMA DecryptShape ==
    ASSUME ShapeInv, NEW p \in Procs, Decrypt(p)
    PROVE  /\ ShapeInv' /\ InDriver(p) /\ pc[p] = "decrypt" /\ pc'[p] = "rekey"
           /\ UNCHANGED <<key, written_sectors, data, plain>>
           /\ job'[p].sector = 0 /\ job'[p].pos = job[p].pos /\ job'[p].end = job[p].end
           /\ job'[p].buf = Crypt(job[p].buf, job[p].pos, key)
  <1> DEFINE buf == Crypt(job[p].buf, job[p].pos, key)
             j == [job[p] EXCEPT !.buf = buf]
  <1>0. /\ job[p] \in Jobs /\ CanRun(p) /\ pc[p] = "decrypt" /\ NewKey(p, j) /\ key \in Keys
        /\ UNCHANGED <<device, data, plain, stale>>
    BY DEF ShapeInv, CryptShape, Decrypt
  <1>1. job[p].kind = "read" /\ job[p].buf \in [Positions -> Bits]
    BY <1>0 DEF ShapeInv, KindRight, Jobs
  <1>2. buf \in [Positions -> Bits]
    BY <1>0, <1>1, CryptBits
  <1>3. j \in Jobs /\ j.kind = "read" /\ j.ok = job[p].ok /\ j.buf = buf
        /\ j.pos = job[p].pos /\ j.end = job[p].end
    <2> HIDE DEF buf
    <2> QED  BY <1>0, <1>1, <1>2 DEF Jobs
  <1> HIDE DEF j
  <1>4. /\ ShapeInv' /\ InDriver(p) /\ pc'[p] = "rekey"
        /\ job'[p].sector = 0 /\ job'[p].buf = j.buf /\ job'[p].authed = j.authed
        /\ job'[p].pos = j.pos /\ job'[p].end = j.end
        /\ UNCHANGED <<key, written_sectors, data, plain>>
    BY <1>0, <1>1, <1>3, NewKeyShape
  <1> QED  BY <1>0, <1>3, <1>4

\* Loading the next written sector.
LEMMA RekeyLoadShape ==
    ASSUME ShapeInv, NEW p \in Procs, RekeyLoad(p)
    PROVE  /\ ShapeInv' /\ InDriver(p) /\ pc[p] = "rekey" /\ pc'[p] = "store"
           /\ UNCHANGED <<key, written_sectors, data, plain>>
           /\ job'[p].pos = job[p].pos /\ job'[p].end = job[p].end /\ job'[p].buf = job[p].buf
           /\ job'[p].authed = job[p].authed /\ job'[p].rand_key = job[p].rand_key
           /\ job'[p].sector \in written_sectors /\ job[p].sector <= job'[p].sector
           /\ \A t \in written_sectors : job[p].sector <= t => job'[p].sector <= t
           /\ \A i \in Offsets : job'[p].stuff_buf[i] = data[job'[p].sector * KEY_LENGTH + i]
  <1>0. /\ job[p] \in Jobs /\ job \in [Procs -> Jobs] /\ CanRun(p) /\ pc[p] = "rekey"
        /\ UNCHANGED <<passwd, key, written_sectors, auth_list, data, plain, stale>>
        /\ pc' = [pc EXCEPT ![p] = "store"]
    BY DEF ShapeInv, CryptShape, RekeyLoad, device, Go
  <1>1. job[p].kind = "read"
    BY <1>0 DEF ShapeInv, KindRight
  <1>2. PICK s \in written_sectors :
           /\ job[p].sector <= s
           /\ \A t \in written_sectors : job[p].sector <= t => s <= t
           /\ job' = [job EXCEPT ![p].sector = s,
                                 ![p].stuff_buf = [i \in Offsets |-> data[s * KEY_LENGTH + i]]]
    BY DEF RekeyLoad
  <1> DEFINE stuff == [i \in Offsets |-> data[s * KEY_LENGTH + i]]
             j == [job[p] EXCEPT !.sector = s, !.stuff_buf = stuff]
  <1>3. s \in Sectors /\ s \in Nat
    BY Numbers DEF ShapeInv, CryptShape, Sectors
  <1>4. stuff \in Keys
    BY <1>3, SectorOfByte DEF Keys, ShapeInv, CryptShape
  <1>5. job' = [job EXCEPT ![p] = j]
    BY <1>2
  <1>6. \A i \in Offsets : stuff[i] = data[s * KEY_LENGTH + i]
    OBVIOUS
  <1> HIDE DEF stuff
  <1>7. j \in Jobs /\ j.kind = job[p].kind /\ j.ok = job[p].ok /\ j.sector = s
        /\ j.stuff_buf = stuff /\ j.pos = job[p].pos /\ j.end = job[p].end
        /\ j.buf = job[p].buf /\ j.authed = job[p].authed /\ j.rand_key = job[p].rand_key
    BY <1>0, <1>3, <1>4 DEF Jobs
  <1> HIDE DEF j
  <1>8. ShapeInv' /\ InDriver(p) /\ pc'[p] = "store" /\ job'[p] = j
    BY <1>0, <1>1, <1>5, <1>7, DriverShape DEF ShapeInv, CryptShape, DriverPCs
  <1> QED  BY <1>0, <1>2, <1>6, <1>7, <1>8

\* Writing it back.
LEMMA RekeyStoreShape ==
    ASSUME ShapeInv, NEW p \in Procs, RekeyStore(p)
    PROVE  /\ ShapeInv' /\ InDriver(p) /\ pc[p] = "store" /\ pc'[p] = "rekey"
           /\ UNCHANGED <<key, written_sectors, plain>>
           /\ job'[p].pos = job[p].pos /\ job'[p].end = job[p].end /\ job'[p].buf = job[p].buf
           /\ job'[p].authed = job[p].authed /\ job'[p].rand_key = job[p].rand_key
           /\ job'[p].sector = job[p].sector + 1
           /\ \A x \in Positions :
                data'[x] = IF SectorOf(x) = job[p].sector
                           THEN Rekeyed(job[p], x % KEY_LENGTH) ELSE data[x]
  <1>0. /\ job[p] \in Jobs /\ job \in [Procs -> Jobs] /\ CanRun(p) /\ pc[p] = "store"
        /\ UNCHANGED <<passwd, key, written_sectors, auth_list, plain, stale>>
        /\ pc' = [pc EXCEPT ![p] = "rekey"]
    BY DEF ShapeInv, CryptShape, RekeyStore, device, Go
  <1>1. job[p].kind = "read"
    BY <1>0 DEF ShapeInv, KindRight
  <1>2. data' = [x \in Positions |-> IF SectorOf(x) = job[p].sector
                                     THEN Rekeyed(job[p], x % KEY_LENGTH) ELSE data[x]]
    BY DEF RekeyStore
  <1>3. \A i \in Offsets : Rekeyed(job[p], i) \in Bits
    <2>1. \A i \in Offsets : /\ job[p].stuff_buf[i] \in Bits /\ key[i] \in Bits
                             /\ job[p].rand_key[i] \in Bits
      BY <1>0 DEF Jobs, Keys, ShapeInv, CryptShape
    <2> QED  BY <2>1, XorTwice DEF Rekeyed
  <1>4. data' \in [Positions -> Bits]
    BY <1>2, <1>3, ByteOfSector DEF ShapeInv, CryptShape
  <1> DEFINE j == [job[p] EXCEPT !.sector = @ + 1]
  <1>5. job' = [job EXCEPT ![p] = j]
    BY DEF RekeyStore
  <1>6. j \in Jobs /\ j.kind = job[p].kind /\ j.ok = job[p].ok /\ j.sector = job[p].sector + 1
        /\ j.pos = job[p].pos /\ j.end = job[p].end
        /\ j.buf = job[p].buf /\ j.authed = job[p].authed /\ j.rand_key = job[p].rand_key
    BY <1>0 DEF Jobs
  <1> HIDE DEF j
  <1>7. ShapeInv' /\ InDriver(p) /\ pc'[p] = "rekey" /\ job'[p] = j
    BY <1>0, <1>1, <1>4, <1>5, <1>6, DriverShape DEF ShapeInv, CryptShape, DriverPCs
  <1> QED  BY <1>0, <1>2, <1>6, <1>7

\* Leaving new_key(), with the new key or without.
LEMMA RekeyEndShape ==
    ASSUME ShapeInv, NEW p \in Procs, RekeyDone(p) \/ RekeySkipped(p)
    PROVE  /\ ShapeInv' /\ InDriver(p) /\ pc[p] = "rekey" /\ pc'[p] \in {"fetch", "transfer"}
           /\ UNCHANGED <<written_sectors, data, plain>>
           /\ \/ key' = job[p].rand_key /\ \A s \in written_sectors : s < job[p].sector
              \/ key' = key /\ job[p].sector = 0
  <1>0. /\ job[p] \in Jobs /\ job \in [Procs -> Jobs] /\ CanRun(p) /\ pc[p] = "rekey"
        /\ UNCHANGED <<passwd, written_sectors, auth_list, data, plain, stale>>
        /\ AfterNewKey(p)
        /\ \/ key' = job[p].rand_key /\ \A s \in written_sectors : s < job[p].sector
           \/ key' = key /\ job[p].sector = 0
    BY DEF ShapeInv, CryptShape, RekeyDone, RekeySkipped, device
  <1>1. job[p].kind = "read" /\ key' \in Keys
    BY <1>0 DEF ShapeInv, KindRight, CryptShape, Jobs
  <1>2. CASE job[p].authed
    <2> DEFINE j == Returned(job[p])
    <2>1. job' = [job EXCEPT ![p] = j] /\ pc' = [pc EXCEPT ![p] = "transfer"]
      BY <1>0, <1>2 DEF AfterNewKey, Go
    <2>2. j \in Jobs /\ j.kind = job[p].kind /\ j.ok = job[p].ok
      BY <1>0, ReturnedJob
    <2> HIDE DEF j
    <2>3. ShapeInv' /\ InDriver(p) /\ pc'[p] = "transfer"
      BY <1>0, <1>1, <2>1, <2>2, DriverShape DEF ShapeInv, CryptShape, DriverPCs
    <2> QED  BY <1>0, <2>3
  <1>3. CASE ~job[p].authed
    <2>1. job' = [job EXCEPT ![p] = job[p]] /\ pc' = [pc EXCEPT ![p] = "fetch"]
      BY <1>0, <1>3 DEF AfterNewKey, Go
    <2>2. ShapeInv' /\ InDriver(p) /\ pc'[p] = "fetch"
      BY <1>0, <1>1, <2>1, DriverShape DEF ShapeInv, CryptShape, DriverPCs
    <2> QED  BY <1>0, <2>2
  <1> QED  BY <1>2, <1>3

\* What a call of write moves, and the flags it sets.
LEMMA WriteCallShape ==
    ASSUME ShapeInv, NEW p \in Procs, WriteCall(p)
    PROVE  /\ ShapeInv' /\ InDriver(p) /\ pc[p] = "transfer" /\ pc'[p] = "writing"
           /\ UNCHANGED <<key, data>>
           /\ job'[p].pos = job[p].pos /\ job'[p].end = job[p].end
           /\ job'[p].buf = Crypt(Content(job[p]), job[p].pos, key)
           /\ Content(job[p]) \in [Positions -> Bits]
           /\ \A x \in Positions : InCall(job[p], x) /\ Content(job[p])[x] # 0 =>
                SectorOf(x) \in written_sectors'
           /\ \A x \in Positions : ~InCall(job[p], x) /\ SectorOf(x) \in written_sectors =>
                SectorOf(x) \in written_sectors'
           /\ \A x \in Positions : ~InCall(job[p], x) => plain'[x] = plain[x]
           /\ \A x \in Positions : InCall(job[p], x) /\ plain'[x] # 2 =>
                plain'[x] = Content(job[p])[x] /\ SectorOf(x) \in written_sectors'
  <1> DEFINE c == Content(job[p])
             buf == Crypt(c, job[p].pos, key)
             to == CallEnd(job[p])
  <1>0. /\ job[p] \in Jobs /\ job \in [Procs -> Jobs] /\ CanRun(p) /\ pc[p] = "transfer"
        /\ UNCHANGED <<passwd, key, auth_list, data, stale>> /\ key \in Keys
        /\ job[p].kind \in {"write", "zero"} /\ job[p].pos < job[p].end
        /\ pc' = [pc EXCEPT ![p] = "writing"]
        /\ written_sectors' = Flags(c, job[p].pos, to)
        /\ job' = [job EXCEPT ![p].buf = buf]
        /\ plain' = [x \in Positions |->
                       IF InCall(job[p], x) THEN KeptByte(job[p], written_sectors', x)
                       ELSE plain[x]]
    BY DEF ShapeInv, CryptShape, WriteCall, Go
  <1>1. c \in [Positions -> Bits] /\ (job[p].kind = "write" => \A x \in Positions : c[x] = 1)
    BY <1>0 DEF Content, Jobs, Bits
  <1>2. buf \in [Positions -> Bits]
    BY <1>0, <1>1, CryptBits
  <1>3. /\ job[p].pos \in Nat /\ to \in Nat /\ job[p].pos < to /\ to <= NSectors * KEY_LENGTH
        /\ job[p].end \in Nat /\ job[p].end <= NSectors * KEY_LENGTH
    <2>1. job[p].pos \in Nat /\ job[p].end \in 0 .. NSectors * KEY_LENGTH
      BY <1>0 DEF Jobs
    <2>2. to \in Nat /\ job[p].pos < to /\ to <= job[p].end
      BY <1>0, CallMoves
    <2> HIDE DEF to
    <2> QED  BY <2>1, <2>2, Numbers
  <1>4. job[p].pos % KEY_LENGTH = 0 \/ c[job[p].pos] # 0
    <2>1. CASE job[p].kind = "zero"
      BY <1>0, <2>1 DEF ShapeInv, KindRight
    <2>2. CASE job[p].kind = "write"
      <3>1. job[p].pos \in Positions
        BY <1>0, <1>3, Numbers DEF Positions
      <3> QED  BY <1>1, <2>2, <3>1
    <2> QED  BY <1>0, <2>1, <2>2
  <1>5. \A x : InCall(job[p], x) <=> job[p].pos <= x /\ x < to
    BY DEF InCall
  <1> HIDE DEF c, to
  <1>6. /\ Flags(c, job[p].pos, to) \subseteq Sectors
        /\ \A x \in Positions : job[p].pos <= x /\ x < to /\ c[x] # 0 =>
             SectorOf(x) \in Flags(c, job[p].pos, to)
        /\ \A x \in Positions : ~(job[p].pos <= x /\ x < to) /\ SectorOf(x) \in written_sectors =>
             SectorOf(x) \in Flags(c, job[p].pos, to)
    BY <1>1, <1>3, <1>4, FlagsRight DEF ShapeInv
  <1>7. plain' \in [Positions -> {0, 1, 2}]
    <2>1. \A x \in Positions : KeptByte(job[p], written_sectors', x) \in {0, 1, 2}
      BY DEF KeptByte
    <2> QED  BY <1>0, <2>1 DEF ShapeInv, CryptShape
  <1> HIDE DEF buf
  <1> DEFINE j == [job[p] EXCEPT !.buf = buf]
  <1>8. j \in Jobs /\ j.kind = job[p].kind /\ j.ok = job[p].ok /\ j.pos = job[p].pos
        /\ j.end = job[p].end /\ j.buf = buf
    BY <1>0, <1>2 DEF Jobs
  <1>9. job' = [job EXCEPT ![p] = j]
    BY <1>0
  <1> HIDE DEF j
  <1>10. ShapeInv' /\ InDriver(p) /\ pc'[p] = "writing" /\ job'[p] = j
    <2>1. j.kind = "zero" /\ j.pos < j.end => j.pos % KEY_LENGTH = 0
      BY <1>8 DEF ShapeInv, KindRight
    <2> QED
      BY <1>0, <1>6, <1>7, <1>8, <1>9, <2>1, DriverShape DEF ShapeInv, CryptShape, DriverPCs
  <1>11. \A x \in Positions : InCall(job[p], x) /\ c[x] # 0 => SectorOf(x) \in written_sectors'
    BY <1>0, <1>5, <1>6
  <1>12. \A x \in Positions : ~InCall(job[p], x) /\ SectorOf(x) \in written_sectors =>
           SectorOf(x) \in written_sectors'
    BY <1>0, <1>5, <1>6
  <1>13. \A x \in Positions : ~InCall(job[p], x) => plain'[x] = plain[x]
    BY <1>0
  <1>14. ASSUME NEW x \in Positions, InCall(job[p], x), plain'[x] # 2
         PROVE  plain'[x] = c[x] /\ SectorOf(x) \in written_sectors'
    <2>1. plain'[x] = KeptByte(job[p], written_sectors', x)
      BY <1>0, <1>14
    <2>2. CASE job[p].kind = "write"
      <3>1. plain'[x] = 1 /\ c[x] = 1
        BY <1>1, <2>1, <2>2 DEF KeptByte
      <3> QED  BY <1>11, <1>14, <3>1
    <2>3. CASE job[p].kind = "zero"
      <3>1. c[x] = job[p].buf[x]
        BY <2>3 DEF c, Content
      <3>2. SectorOf(x) \in written_sectors' /\ plain'[x] = 0 /\ job[p].buf[x] = 0
        BY <1>14, <2>1, <2>3 DEF KeptByte
      <3> QED  BY <3>1, <3>2
    <2> QED  BY <1>0, <2>2, <2>3
  <1> QED  BY <1>0, <1>1, <1>8, <1>10, <1>11, <1>12, <1>13, <1>14 DEF c, buf

LEMMA WriteStoreShape ==
    ASSUME ShapeInv, NEW p \in Procs, WriteStore(p)
    PROVE  /\ ShapeInv' /\ InDriver(p) /\ pc[p] = "writing" /\ pc'[p] = "transfer"
           /\ UNCHANGED <<key, written_sectors, plain>>
           /\ \A x \in Positions :
                data'[x] = IF InCall(job[p], x) THEN job[p].buf[x] ELSE data[x]
  <1> DEFINE to == CallEnd(job[p])
             buf == Written(job[p])
             j == [job[p] EXCEPT !.pos = to, !.buf = buf]
  <1>0. /\ job[p] \in Jobs /\ job \in [Procs -> Jobs] /\ CanRun(p) /\ pc[p] = "writing"
        /\ UNCHANGED <<passwd, key, written_sectors, auth_list, plain, stale>>
        /\ pc' = [pc EXCEPT ![p] = "transfer"]
        /\ data' = [x \in Positions |-> IF InCall(job[p], x) THEN job[p].buf[x] ELSE data[x]]
        /\ job' = [job EXCEPT ![p] = j]
    BY DEF ShapeInv, CryptShape, WriteStore, Go, device
  <1>1. /\ job[p].buf \in [Positions -> Bits] /\ job[p].pos \in Nat /\ job[p].end \in Nat
        /\ job[p].kind \in {"write", "zero"} /\ job[p].pos < job[p].end
        /\ (job[p].kind = "zero" => job[p].pos % KEY_LENGTH = 0)
    BY <1>0 DEF ShapeInv, KindRight, Jobs
  <1>2. buf \in [Positions -> Bits]
    <2>1. \A x \in Positions : ~(x < BUFSIZ) => x - BUFSIZ \in Positions
      BY Numbers DEF Positions
    <2> QED  BY <1>1, <2>1 DEF Written, Bits
  <1>3. to \in Nat
    BY <1>0, CallMoves
  <1>4. job[p].kind = "zero" /\ to < job[p].end => to % KEY_LENGTH = 0
    <2> SUFFICES ASSUME job[p].kind = "zero", to < job[p].end PROVE to % KEY_LENGTH = 0
      OBVIOUS
    <2>1. to = job[p].pos + BUFSIZ
      BY <1>1, Numbers DEF CallEnd
    <2>2. ASSUME NEW a \in Nat, NEW b \in Nat, a % KEY_LENGTH = 0, b % KEY_LENGTH = 0
          PROVE  (a + b) % KEY_LENGTH = 0
      <3>1. /\ a = KEY_LENGTH * (a \div KEY_LENGTH) /\ b = KEY_LENGTH * (b \div KEY_LENGTH)
            /\ a \div KEY_LENGTH \in Nat /\ b \div KEY_LENGTH \in Nat
        BY <2>2, Numbers
      <3>2. PICK m \in Nat, n \in Nat : a = KEY_LENGTH * m /\ b = KEY_LENGTH * n
        BY <3>1, Zenon
      <3>3. a + b = (m + n) * KEY_LENGTH + 0 /\ m + n \in Nat
        BY <3>2, Numbers
      <3>4. ASSUME NEW q \in Nat PROVE (q * KEY_LENGTH + 0) % KEY_LENGTH = 0
        BY Numbers
      <3> QED  BY <3>3, <3>4
    <2> QED  BY <1>1, <2>1, <2>2, Numbers
  <1>5. data' \in [Positions -> Bits]
    BY <1>0, <1>1 DEF ShapeInv, CryptShape
  <1> HIDE DEF to, buf
  <1>6. j \in Jobs /\ j.kind = job[p].kind /\ j.ok = job[p].ok /\ j.pos = to /\ j.end = job[p].end
    BY <1>0, <1>2, <1>3 DEF Jobs
  <1> HIDE DEF j
  <1>7. ShapeInv' /\ InDriver(p) /\ pc'[p] = "transfer"
    BY <1>0, <1>1, <1>4, <1>5, <1>6, DriverShape DEF ShapeInv, CryptShape, DriverPCs
  <1> QED  BY <1>0, <1>7

-----------------------------------------------------------------------------
(* The shape of the whole, and the authorised clients. *)

LEMMA InitShape == Init => ShapeInv
  <1> SUFFICES ASSUME Init PROVE ShapeInv  OBVIOUS
  <1>1. CryptShape
    BY NoJobIsJob DEF Init, CryptShape, UserPCs, Bits, Typed
  <1>2. ASSUME NEW p \in Procs PROVE KindRight(p)
    BY NoJobIsJob DEF Init, KindRight
  <1> QED  BY <1>1, <1>2 DEF ShapeInv

LEMMA StepShape ==
    ASSUME ShapeInv, NEW p \in Procs, DriverStep(p)
    PROVE  ShapeInv' /\ InDriver(p)
  BY ReadCallShape, FetchShape, DecryptShape, RekeyLoadShape, RekeyStoreShape, RekeyEndShape,
     WriteCallShape, WriteStoreShape DEF DriverStep

\* A client without an accepted password does not say that it has one.
Accepts(p) ==
    /\ pc[p] \in {"idle", "exists", "authorize"} => ~job[p].ok
    /\ pc[p] \in {"exists", "authorize", "setpass", "deauthorize"} =>
         job[p].kind \in {"read", "passwd"}
    /\ job[p].kind \in {"write", "zero"} => ~job[p].ok

AuthInv == ShapeInv /\ AuthCurrent /\ auth_list \subseteq Procs /\ \A p \in Procs : Accepts(p)

\* A step of p after which p is still or no longer accounted for.
LEMMA AuthStep ==
    ASSUME AuthInv, ShapeInv', NEW p \in Procs, OnlyOf(p), Accepts(p)',
           auth_list' \subseteq auth_list \cup {p},
           p \in auth_list' => job'[p].ok \/ p \in stale',
           \A q \in Procs \ {p} : q \in auth_list' /\ q \in stale => q \in stale'
    PROVE  AuthInv'
  <1>1. \A q \in Procs \ {p} : Accepts(q)'
    BY DEF OnlyOf, Accepts, AuthInv
  <1>2. AuthCurrent'
    BY DEF AuthCurrent, AuthInv, OnlyOf
  <1> QED  BY <1>1, <1>2 DEF AuthInv

LEMMA NextAuthInv ==
    ASSUME AuthInv, [Next]_vars
    PROVE  AuthInv'
  <1>0. ShapeInv /\ AuthCurrent /\ auth_list \subseteq Procs /\ \A p \in Procs : Accepts(p)
    BY DEF AuthInv
  <1>1. CASE UNCHANGED vars
    <2>1. UNCHANGED <<passwd, key, written_sectors, auth_list, data, pc, job, plain, stale>>
      BY <1>1 DEF vars, device
    <2>2. ShapeInv'
      BY <1>0, <2>1 DEF ShapeInv, CryptShape, KindRight
    <2> QED  BY <1>0, <2>1, <2>2 DEF AuthInv, AuthCurrent, Accepts
  <1>2. ASSUME NEW p \in Procs, DriverStep(p) PROVE AuthInv'
    <2>1. ShapeInv' /\ InDriver(p)
      BY <1>0, <1>2, StepShape
    <2>2. Accepts(p)'
      <3>1. pc'[p] \notin {"idle", "exists", "authorize", "setpass", "deauthorize"}
        BY <2>1 DEF InDriver, DriverPCs
      <3>2. job'[p].ok = job[p].ok /\ job'[p].kind = job[p].kind
        BY <2>1 DEF InDriver
      <3> QED  BY <1>0, <3>1, <3>2 DEF Accepts
    <2>3. p \in auth_list => job[p].ok \/ p \in stale
      BY <1>0 DEF AuthCurrent
    <2> QED  BY <2>1, <2>2, <2>3, AuthStep DEF InDriver
  <1>3. ASSUME NEW p \in Procs, Starts(p) PROVE AuthInv'
    <2>1. ShapeInv' /\ OnlyOf(p)
      BY <1>0, <1>3, StartsShape DEF UserStep
    <2>2. PICK kind, span : Start(p, kind, span)
      BY <1>3 DEF Starts
    <2>3. pc[p] = "idle" /\ UNCHANGED <<auth_list, stale>>
      BY <2>2 DEF Start, device
    <2> DEFINE j == [NoJob EXCEPT !.kind = kind, !.pos = span[1], !.end = span[2]]
    <2>4. job'[p] = j
      <3>1. job' = [job EXCEPT ![p] = j]
        BY <2>2 DEF Start
      <3> QED  BY <1>0, <3>1 DEF ShapeInv, CryptShape
    <2>5. ~j.ok /\ j.kind = kind
      BY DEF NoJob
    <2>6. pc'[p] = IF kind \in {"read", "passwd"} THEN "exists" ELSE "transfer"
      BY <1>0, <2>2 DEF Start, Go, ShapeInv, CryptShape
    <2> HIDE DEF j
    <2>7. Accepts(p)'
      BY <2>4, <2>5, <2>6 DEF Accepts
    <2>8. p \in auth_list => p \in stale
      BY <1>0, <2>3 DEF AuthCurrent, Accepts
    <2> QED  BY <2>1, <2>3, <2>7, <2>8, AuthStep
  <1>4. ASSUME NEW p \in Procs, ClientStep(p) PROVE AuthInv'
    <2>1. /\ ShapeInv' /\ OnlyOf(p) /\ job \in [Procs -> Jobs]
          /\ pc \in [Procs -> UserPCs \cup DriverPCs]
      BY <1>0, <1>4, ClientShape DEF UserStep, ShapeInv, CryptShape
    <2>2. p \in auth_list => job[p].ok \/ p \in stale
      BY <1>0 DEF AuthCurrent
    <2>3. CASE PassExists(p)
      <3>1. pc[p] = "exists" /\ UNCHANGED <<auth_list, stale>> /\ pc'[p] = "authorize"
        BY <2>1, <2>3 DEF PassExists, device, Go
      <3>2. PICK g : job' = [job EXCEPT ![p].guess = g]
        BY <2>3 DEF PassExists
      <3>3. job'[p].ok = job[p].ok /\ job'[p].kind = job[p].kind
        BY <2>1, <3>2 DEF Jobs
      <3>4. Accepts(p)'
        BY <1>0, <3>1, <3>3 DEF Accepts
      <3> QED  BY <2>1, <2>2, <3>1, <3>3, <3>4, AuthStep
    <2>4. CASE Authorize(p)
      <3>1. /\ pc[p] = "authorize" /\ stale' = stale /\ ~job[p].ok
            /\ job[p].kind \in {"read", "passwd"}
        BY <1>0, <2>4 DEF Authorize, Accepts
      <3>2. PICK ok \in BOOLEAN : /\ AfterAuthorize(p, ok) /\ (ok \/ auth_list' = auth_list)
                                  /\ auth_list' \subseteq auth_list \cup {p}
        BY <2>4 DEF Authorize
      <3>3. /\ job' = [job EXCEPT ![p] = [job[p] EXCEPT !.ok = ok, !.guess = NoPassword]]
            /\ pc' = [pc EXCEPT ![p] = IF job[p].kind = "read" THEN "transfer"
                                       ELSE IF ok THEN "setpass" ELSE "deauthorize"]
        BY <3>2 DEF AfterAuthorize, Go
      <3>4. (job'[p].ok <=> ok) /\ job'[p].kind = job[p].kind
        BY <2>1, <3>3 DEF Jobs
      <3>5. pc'[p] \notin {"idle", "exists", "authorize"}
        BY <2>1, <3>3
      <3>6. Accepts(p)'
        BY <3>1, <3>4, <3>5 DEF Accepts
      <3>7. p \in auth_list' => job'[p].ok \/ p \in stale'
        BY <2>2, <3>1, <3>2, <3>4
      <3> QED  BY <2>1, <3>1, <3>2, <3>6, <3>7, AuthStep
    <2>5. CASE SetPass(p)
      <3>1. /\ pc[p] = "setpass" /\ pc'[p] = "deauthorize"
            /\ UNCHANGED <<auth_list, stale, job>>
        BY <2>1, <2>5 DEF SetPass, Go
      <3>2. Accepts(p)'
        BY <1>0, <3>1 DEF Accepts
      <3> QED  BY <2>1, <2>2, <3>1, <3>2, AuthStep
    <2>6. ASSUME pc'[p] = "idle", job'[p] = NoJob PROVE Accepts(p)'
      BY <2>6, NoJobIsJob DEF Accepts, NoJob
    <2>7. CASE Deauthorize(p)
      <3>1. /\ pc'[p] = "idle" /\ job'[p] = NoJob /\ stale' = stale \cap auth_list'
            /\ auth_list' = IF job[p].ok THEN auth_list \ {p} ELSE auth_list
        BY <2>1, <2>7 DEF Deauthorize, Go
      <3>2. p \in auth_list' => p \in stale'
        BY <2>2, <3>1
      <3> QED  BY <2>1, <2>6, <3>1, <3>2, AuthStep
    <2>8. CASE Dies(p)
      <3>1. /\ pc'[p] = "idle" /\ job'[p] = NoJob /\ stale' = stale \cup ({p} \cap auth_list)
            /\ auth_list' = auth_list
        BY <2>1, <2>8 DEF Dies, Go, device
      <3> QED  BY <2>1, <2>6, <3>1, AuthStep
    <2>9. CASE TransferEnds(p)
      <3>1. pc[p] = "transfer" /\ UNCHANGED <<auth_list, stale>>
        BY <2>9 DEF TransferEnds, device
      <3>2. CASE job[p].kind = "read"
        <4>1. pc'[p] = "deauthorize" /\ job' = job
          BY <2>1, <2>9, <3>2 DEF TransferEnds, Go
        <4>2. Accepts(p)'
          BY <1>0, <3>2, <4>1 DEF Accepts
        <4> QED  BY <2>1, <2>2, <3>1, <4>1, <4>2, AuthStep
      <3>3. CASE job[p].kind # "read"
        <4>1. pc'[p] = "idle" /\ job'[p] = NoJob
          BY <2>1, <2>9, <3>3 DEF TransferEnds, Go
        <4>2. job[p].kind \in {"write", "zero"}
          <5>1. job[p].kind # "passwd" /\ job[p] \in Jobs
            BY <1>0, <2>1, <3>1 DEF ShapeInv, KindRight
          <5> QED  BY <3>3, <5>1 DEF Jobs
        <4>3. p \in auth_list => p \in stale
          BY <1>0, <2>2, <4>2 DEF Accepts
        <4> QED  BY <2>1, <2>6, <3>1, <4>1, <4>3, AuthStep
      <3> QED  BY <3>2, <3>3
    <2> QED  BY <1>4, <2>3, <2>4, <2>5, <2>7, <2>8, <2>9 DEF ClientStep
  <1> QED  BY <1>1, <1>2, <1>3, <1>4 DEF Next

\* A pid in auth_list is that of a running client whose password was accepted,
\* or was left there by one that a signal or a failed call ended, at a prompt,
\* between its ioctls or in transfer(), however clients and calls interleave: a
\* client that comes to its end leaves none.
THEOREM OnlyTheAcceptedAreAuthorised == Spec => []AuthCurrent
  <1>1. Init => AuthInv
    <2> SUFFICES ASSUME Init PROVE AuthInv  OBVIOUS
    <2>1. auth_list = {} /\ \A p \in Procs : pc[p] = "idle" /\ job[p] = NoJob
      BY DEF Init
    <2>2. \A p \in Procs : Accepts(p)
      BY <2>1, NoJobIsJob DEF Accepts, NoJob
    <2> QED  BY <2>1, <2>2, InitShape DEF AuthInv, AuthCurrent
  <1>2. AuthInv /\ [Next]_vars => AuthInv'
    BY NextAuthInv
  <1>3. AuthInv => AuthCurrent
    BY DEF AuthInv
  <1> QED  BY <1>1, <1>2, <1>3, PTL DEF Spec

-----------------------------------------------------------------------------
(* The bytes on the disk. *)

Marked == \A x \in Positions : plain[x] # 2 => SectorOf(x) \in written_sectors

Kept == \A x \in Positions : plain[x] # 2 => Xor(data[x], key[x % KEY_LENGTH]) = plain[x]

\* In the middle of a write, the bytes of the call are in the buffer.
MidWrite(p) ==
    \A x \in Positions : plain[x] # 2 =>
        Xor(IF InCall(job[p], x) THEN job[p].buf[x] ELSE data[x], key[x % KEY_LENGTH]) = plain[x]

\* In the middle of new_key(), the sectors it has passed have the new key.
MidRekey(p) ==
    \A x \in Positions : plain[x] # 2 =>
        IF SectorOf(x) < job[p].sector
        THEN Xor(data[x], job[p].rand_key[x % KEY_LENGTH]) = plain[x]
        ELSE Xor(data[x], key[x % KEY_LENGTH]) = plain[x]

Loaded(p) ==
    /\ job[p].sector \in written_sectors
    /\ \A i \in Offsets : job[p].stuff_buf[i] = data[job[p].sector * KEY_LENGTH + i]

FetchedRight(p) == \A x \in Positions : InCall(job[p], x) => job[p].buf[x] = data[x]

ReadRight(p) ==
    job[p].authed =>
        \A x \in Positions : InCall(job[p], x) /\ plain[x] # 2 => job[p].buf[x] = plain[x]

\* What is known of a system call where it can sleep.
CallInv(p) ==
    /\ pc[p] = "writing" => MidWrite(p)
    /\ pc[p] \in {"rekey", "store"} => MidRekey(p) /\ ReadRight(p)
    /\ pc[p] = "store" => Loaded(p)
    /\ pc[p] = "decrypt" => FetchedRight(p)

\* One system call at a time.
Alone == \A p, q \in Procs : pc[p] \in DriverPCs /\ pc[q] \in DriverPCs => p = q

ByteInv ==
    /\ ShapeInv /\ Alone /\ Marked
    /\ ~Rekeying => Kept
    /\ \A p \in Procs : CallInv(p)

\* Calls of the same part of the disk.
LEMMA SameCall ==
    ASSUME NEW j, NEW k, j.pos = k.pos, j.end = k.end, NEW x
    PROVE  InCall(j, x) = InCall(k, x)
  BY DEF InCall, CallEnd

\* A step outside the driver leaves the disk and the calls alone.
LEMMA UserKeeps ==
    ASSUME ByteInv, ShapeInv', NEW p \in Procs, UserStep(p)
    PROVE  ByteInv'
  <1>1. /\ pc[p] \in UserPCs /\ pc'[p] \in UserPCs
        /\ \A q \in Procs \ {p} : pc'[q] = pc[q] /\ job'[q] = job[q]
        /\ UNCHANGED <<key, written_sectors, data, plain>>
    BY DEF UserStep, OnlyOf
  <1>2. pc[p] \notin DriverPCs /\ pc'[p] \notin DriverPCs
    BY <1>1 DEF UserPCs, DriverPCs
  <1>3. Alone'
    BY <1>1, <1>2 DEF ByteInv, Alone
  <1>4. Marked' /\ (Kept => Kept')
    BY <1>1 DEF ByteInv, Marked, Kept
  <1>5. Rekeying => Rekeying'
    BY <1>1, <1>2 DEF Rekeying, DriverPCs
  <1>6. ASSUME NEW q \in Procs PROVE CallInv(q)'
    <2>1. CASE q = p
      BY <1>2, <2>1 DEF CallInv, DriverPCs
    <2>2. CASE q # p
      <3>1. CallInv(q) /\ pc'[q] = pc[q] /\ job'[q] = job[q]
        BY <1>1, <2>2 DEF ByteInv
      <3> QED
        BY <1>1, <3>1 DEF CallInv, MidWrite, MidRekey, Loaded, FetchedRight, ReadRight,
                          InCall, CallEnd
    <2> QED  BY <2>1, <2>2
  <1> QED  BY <1>3, <1>4, <1>5, <1>6 DEF ByteInv

\* A step of the driver, where no other process is in a system call.
LEMMA OthersOutside ==
    ASSUME Sleeps = FALSE, NEW p \in Procs, InDriver(p)
    PROVE  \A q \in Procs \ {p} : pc[q] \notin DriverPCs /\ pc'[q] \notin DriverPCs
  <1>1. \A q \in Procs \ {p} : pc[q] \in UserPCs /\ pc'[q] = pc[q]
    BY DEF InDriver, CanRun, OnlyOf
  <1> QED  BY <1>1 DEF UserPCs, DriverPCs

LEMMA DiskKept ==
    ASSUME Sleeps = FALSE, ByteInv, NEW p \in Procs, InDriver(p),
           pc[p] \notin {"rekey", "store", "writing"}
    PROVE  Kept
  BY OthersOutside DEF ByteInv, Rekeying, DriverPCs

LEMMA DriverKeeps ==
    ASSUME Sleeps = FALSE, NEW p \in Procs, InDriver(p), ShapeInv', Marked', CallInv(p)',
           pc'[p] \notin {"rekey", "store", "writing"} => Kept'
    PROVE  ByteInv'
  <1>1. \A q \in Procs \ {p} : pc'[q] \notin DriverPCs
    BY OthersOutside
  <1>2. Alone'
    BY <1>1 DEF Alone
  <1>3. (~Rekeying)' => Kept'
    BY DEF Rekeying
  <1>4. ASSUME NEW q \in Procs PROVE CallInv(q)'
    <2>1. CASE q = p
      BY <2>1
    <2>2. CASE q # p
      BY <1>1, <2>2 DEF CallInv, DriverPCs
    <2> QED  BY <2>1, <2>2
  <1> QED  BY <1>2, <1>3, <1>4 DEF ByteInv

\* The system calls, step by step.
LEMMA DriverByteInv ==
    ASSUME Sleeps = FALSE, ByteInv, NEW p \in Procs, DriverStep(p)
    PROVE  ByteInv'
  <1>0. ShapeInv /\ CallInv(p) /\ Marked /\ ShapeInv' /\ InDriver(p) /\ job[p] \in Jobs
        /\ key \in Keys /\ data \in [Positions -> Bits]
    BY StepShape DEF ByteInv, ShapeInv, CryptShape
  <1>1. ASSUME pc[p] \notin {"rekey", "store", "writing"} PROVE Kept
    BY <1>0, <1>1, DiskKept
  <1>2. ASSUME Marked', CallInv(p)', pc'[p] \notin {"rekey", "store", "writing"} => Kept'
        PROVE  ByteInv'
    BY <1>0, <1>2, DriverKeeps
  <1>3. ASSUME UNCHANGED <<key, data, plain, written_sectors>>
        PROVE  Marked' /\ (Kept => Kept')
    BY <1>0, <1>3 DEF Marked, Kept
  <1>4. \A x \in Positions : key[x % KEY_LENGTH] \in Bits /\ data[x] \in Bits
    BY <1>0, ByteOfSector DEF Keys
  <1>5. ASSUME UNCHANGED <<key, data, plain, written_sectors>>, Kept, job'[p].sector = 0
        PROVE  MidRekey(p)'
    <2>1. \A x \in Positions : ~(SectorOf(x) < 0)
      BY ByteOfSector
    <2> QED  BY <1>5, <2>1 DEF MidRekey, Kept
  <1>6. CASE ReadCall(p)
    <2>1. /\ pc[p] = "transfer" /\ UNCHANGED <<key, written_sectors, data, plain>>
          /\ \/ pc'[p] = "fetch"
             \/ pc'[p] = "rekey" /\ job'[p].sector = 0 /\ ~job'[p].authed
      BY <1>0, <1>6, ReadCallShape
    <2>2. Kept /\ Kept' /\ Marked'
      BY <1>1, <1>3, <2>1
    <2>3. CallInv(p)'
      <3>1. CASE pc'[p] = "fetch"
        BY <3>1 DEF CallInv
      <3>2. CASE pc'[p] = "rekey" /\ job'[p].sector = 0 /\ ~job'[p].authed
        BY <1>5, <2>1, <2>2, <3>2 DEF CallInv, ReadRight
      <3> QED  BY <2>1, <3>1, <3>2
    <2> QED  BY <1>2, <2>2, <2>3
  <1>7. CASE Fetch(p)
    <2>1. /\ pc[p] = "fetch" /\ UNCHANGED <<key, written_sectors, data, plain>>
          /\ \/ pc'[p] = "transfer"
             \/ /\ pc'[p] = "decrypt" /\ job'[p].buf = Fetched(job[p])
                /\ job'[p].pos = job[p].pos /\ job'[p].end = job[p].end
      BY <1>0, <1>7, FetchShape
    <2>2. Kept /\ Kept' /\ Marked'
      BY <1>1, <1>3, <2>1
    <2>3. CallInv(p)'
      <3>1. CASE pc'[p] = "transfer"
        BY <3>1 DEF CallInv
      <3>2. CASE pc'[p] = "decrypt" /\ job'[p].buf = Fetched(job[p])
                 /\ job'[p].pos = job[p].pos /\ job'[p].end = job[p].end
        <4>1. \A x : InCall(job'[p], x) = InCall(job[p], x)
          BY <3>2, SameCall
        <4>2. FetchedRight(p)'
          BY <2>1, <3>2, <4>1 DEF FetchedRight, Fetched
        <4> QED  BY <3>2, <4>2 DEF CallInv
      <3> QED  BY <2>1, <3>1, <3>2
    <2> QED  BY <1>2, <2>2, <2>3
  <1>8. CASE Decrypt(p)
    <2>1. /\ pc[p] = "decrypt" /\ pc'[p] = "rekey"
          /\ UNCHANGED <<key, written_sectors, data, plain>>
          /\ job'[p].sector = 0 /\ job'[p].pos = job[p].pos /\ job'[p].end = job[p].end
          /\ job'[p].buf = Crypt(job[p].buf, job[p].pos, key)
      BY <1>0, <1>8, DecryptShape
    <2>2. Kept /\ Kept' /\ Marked'
      BY <1>1, <1>3, <2>1
    <2>3. \A x : InCall(job'[p], x) = InCall(job[p], x)
      BY <2>1, SameCall
    <2>4. FetchedRight(p)
      BY <1>0, <2>1 DEF CallInv
    <2>5. ReadRight(p)'
      <3>1. ASSUME NEW x \in Positions, InCall(job[p], x), plain[x] # 2
            PROVE  job'[p].buf[x] = plain[x]
        <4>1. job'[p].buf[x] = Xor(job[p].buf[x], key[x % KEY_LENGTH])
          BY <2>1 DEF Crypt
        <4>2. job[p].buf[x] = data[x]
          BY <2>4, <3>1 DEF FetchedRight
        <4>3. Xor(data[x], key[x % KEY_LENGTH]) = plain[x]
          BY <2>2, <3>1 DEF Kept
        <4> QED  BY <4>1, <4>2, <4>3
      <3> QED  BY <2>1, <2>3, <3>1 DEF ReadRight
    <2>6. MidRekey(p)'
      BY <1>5, <2>1, <2>2
    <2>7. CallInv(p)'
      BY <2>1, <2>5, <2>6 DEF CallInv
    <2> QED  BY <1>2, <2>1, <2>2, <2>7
  <1>9. CASE RekeyLoad(p)
    <2>1. /\ pc[p] = "rekey" /\ pc'[p] = "store"
          /\ UNCHANGED <<key, written_sectors, data, plain>>
          /\ job'[p].pos = job[p].pos /\ job'[p].end = job[p].end /\ job'[p].buf = job[p].buf
          /\ job'[p].authed = job[p].authed /\ job'[p].rand_key = job[p].rand_key
          /\ job'[p].sector \in written_sectors /\ job[p].sector <= job'[p].sector
          /\ \A t \in written_sectors : job[p].sector <= t => job'[p].sector <= t
          /\ \A i \in Offsets : job'[p].stuff_buf[i] = data[job'[p].sector * KEY_LENGTH + i]
      BY <1>0, <1>9, RekeyLoadShape
    <2>2. MidRekey(p) /\ ReadRight(p)
      BY <1>0, <2>1 DEF CallInv
    <2>3. \A x : InCall(job'[p], x) = InCall(job[p], x)
      BY <2>1, SameCall
    <2>4. ReadRight(p)'
      BY <2>1, <2>2, <2>3 DEF ReadRight
    <2>5. Loaded(p)'
      BY <2>1 DEF Loaded
    <2>6. job[p].sector \in Nat /\ job'[p].sector \in Nat
      BY <1>0, <2>1, Numbers DEF Jobs, ShapeInv, CryptShape, Sectors
    <2>7. MidRekey(p)'
      <3>1. ASSUME NEW x \in Positions, plain[x] # 2
            PROVE  SectorOf(x) < job'[p].sector <=> SectorOf(x) < job[p].sector
        <4>1. SectorOf(x) \in written_sectors /\ SectorOf(x) \in Nat
          BY <1>0, <3>1, ByteOfSector DEF Marked
        <4>2. job[p].sector <= SectorOf(x) => job'[p].sector <= SectorOf(x)
          BY <2>1, <4>1
        <4> QED  BY <2>1, <2>6, <4>1, <4>2
      <3> QED  BY <2>1, <2>2, <3>1 DEF MidRekey
    <2>8. CallInv(p)'
      BY <2>1, <2>4, <2>5, <2>7 DEF CallInv
    <2> QED  BY <1>2, <1>3, <2>1, <2>8
  <1>10. CASE RekeyStore(p)
    <2>1. /\ pc[p] = "store" /\ pc'[p] = "rekey" /\ UNCHANGED <<key, written_sectors, plain>>
          /\ job'[p].pos = job[p].pos /\ job'[p].end = job[p].end /\ job'[p].buf = job[p].buf
          /\ job'[p].authed = job[p].authed /\ job'[p].rand_key = job[p].rand_key
          /\ job'[p].sector = job[p].sector + 1
          /\ \A x \in Positions :
               data'[x] = IF SectorOf(x) = job[p].sector
                          THEN Rekeyed(job[p], x % KEY_LENGTH) ELSE data[x]
      BY <1>0, <1>10, RekeyStoreShape
    <2>2. MidRekey(p) /\ ReadRight(p) /\ Loaded(p)
      BY <1>0, <2>1 DEF CallInv
    <2>3. \A x : InCall(job'[p], x) = InCall(job[p], x)
      BY <2>1, SameCall
    <2>4. ReadRight(p)'
      BY <2>1, <2>2, <2>3 DEF ReadRight
    <2>5. job[p].sector \in Nat
      BY <1>0 DEF Jobs
    <2>6. MidRekey(p)'
      <3> SUFFICES ASSUME NEW x \in Positions, plain[x] # 2
                   PROVE  IF SectorOf(x) < job'[p].sector
                          THEN Xor(data'[x], job[p].rand_key[x % KEY_LENGTH]) = plain[x]
                          ELSE Xor(data'[x], key[x % KEY_LENGTH]) = plain[x]
        BY <2>1 DEF MidRekey
      <3>1. /\ SectorOf(x) \in Nat /\ x % KEY_LENGTH \in Offsets
            /\ x = SectorOf(x) * KEY_LENGTH + (x % KEY_LENGTH)
        BY ByteOfSector
      <3>2. IF SectorOf(x) < job[p].sector
            THEN Xor(data[x], job[p].rand_key[x % KEY_LENGTH]) = plain[x]
            ELSE Xor(data[x], key[x % KEY_LENGTH]) = plain[x]
        BY <2>2 DEF MidRekey
      <3>3. CASE SectorOf(x) = job[p].sector
        <4>1. job[p].stuff_buf[x % KEY_LENGTH] = data[x]
          BY <2>2, <3>1, <3>3 DEF Loaded
        <4>2. data'[x] = Xor(Xor(data[x], key[x % KEY_LENGTH]), job[p].rand_key[x % KEY_LENGTH])
          BY <2>1, <3>3, <4>1 DEF Rekeyed
        <4>3. Xor(data[x], key[x % KEY_LENGTH]) = plain[x]
          BY <2>5, <3>2, <3>3
        <4>4. job[p].rand_key[x % KEY_LENGTH] \in Bits
          BY <1>0, <3>1 DEF Jobs, Keys
        <4>5. plain[x] \in Bits
          BY <1>4, <4>3, XorTwice
        <4>6. Xor(data'[x], job[p].rand_key[x % KEY_LENGTH]) = plain[x]
          BY <4>2, <4>3, <4>4, <4>5, XorTwice
        <4>7. SectorOf(x) < job'[p].sector
          BY <2>1, <2>5, <3>3
        <4> QED  BY <4>6, <4>7
      <3>4. CASE SectorOf(x) # job[p].sector
        <4>1. data'[x] = data[x]
          BY <2>1, <3>4
        <4>2. SectorOf(x) < job'[p].sector <=> SectorOf(x) < job[p].sector
          BY <2>1, <2>5, <3>1, <3>4
        <4> QED  BY <3>2, <4>1, <4>2
      <3> QED  BY <3>3, <3>4
    <2>7. CallInv(p)'
      BY <2>1, <2>4, <2>6 DEF CallInv
    <2>8. Marked'
      BY <1>0, <2>1 DEF Marked
    <2> QED  BY <1>2, <2>1, <2>7, <2>8
  <1>11. CASE RekeyDone(p) \/ RekeySkipped(p)
    <2>1. /\ pc[p] = "rekey" /\ pc'[p] \in {"fetch", "transfer"}
          /\ UNCHANGED <<written_sectors, data, plain>>
          /\ \/ key' = job[p].rand_key /\ \A s \in written_sectors : s < job[p].sector
             \/ key' = key /\ job[p].sector = 0
      BY <1>0, <1>11, RekeyEndShape
    <2>2. MidRekey(p)
      BY <1>0, <2>1 DEF CallInv
    <2>3. Kept'
      <3> SUFFICES ASSUME NEW x \in Positions, plain[x] # 2
                   PROVE  Xor(data[x], key'[x % KEY_LENGTH]) = plain[x]
        BY <2>1 DEF Kept
      <3>1. SectorOf(x) \in written_sectors /\ ~(SectorOf(x) < 0)
        BY <1>0, ByteOfSector DEF Marked
      <3> QED  BY <2>1, <2>2, <3>1 DEF MidRekey
    <2>4. CallInv(p)' /\ Marked'
      BY <1>0, <2>1 DEF CallInv, Marked
    <2> QED  BY <1>2, <2>3, <2>4
  <1>12. CASE WriteCall(p)
    <2> DEFINE c == Content(job[p])
    <2>1. /\ pc[p] = "transfer" /\ pc'[p] = "writing" /\ UNCHANGED <<key, data>>
          /\ job'[p].pos = job[p].pos /\ job'[p].end = job[p].end
          /\ job'[p].buf = Crypt(c, job[p].pos, key) /\ c \in [Positions -> Bits]
          /\ \A x \in Positions : InCall(job[p], x) /\ c[x] # 0 => SectorOf(x) \in written_sectors'
          /\ \A x \in Positions : ~InCall(job[p], x) /\ SectorOf(x) \in written_sectors =>
               SectorOf(x) \in written_sectors'
          /\ \A x \in Positions : ~InCall(job[p], x) => plain'[x] = plain[x]
          /\ \A x \in Positions : InCall(job[p], x) /\ plain'[x] # 2 =>
               plain'[x] = c[x] /\ SectorOf(x) \in written_sectors'
      BY <1>0, <1>12, WriteCallShape
    <2> HIDE DEF c
    <2>2. Kept
      BY <1>1, <2>1
    <2>3. \A x : InCall(job'[p], x) = InCall(job[p], x)
      BY <2>1, SameCall
    <2>4. Marked'
      <3> SUFFICES ASSUME NEW x \in Positions, plain'[x] # 2 PROVE SectorOf(x) \in written_sectors'
        BY DEF Marked
      <3>1. CASE InCall(job[p], x)
        BY <2>1, <3>1
      <3>2. CASE ~InCall(job[p], x)
        <4>1. SectorOf(x) \in written_sectors
          BY <1>0, <2>1, <3>2 DEF Marked
        <4> QED  BY <2>1, <3>2, <4>1
      <3> QED  BY <3>1, <3>2
    <2>5. MidWrite(p)'
      <3> SUFFICES ASSUME NEW x \in Positions, plain'[x] # 2
                   PROVE  Xor(IF InCall(job[p], x) THEN job'[p].buf[x] ELSE data[x],
                              key[x % KEY_LENGTH]) = plain'[x]
        BY <2>1, <2>3 DEF MidWrite
      <3>1. CASE InCall(job[p], x)
        <4>1. plain'[x] = c[x] /\ c[x] \in Bits
          BY <2>1, <3>1
        <4>2. job'[p].buf[x] = Xor(c[x], key[x % KEY_LENGTH])
          BY <2>1 DEF Crypt
        <4>3. Xor(job'[p].buf[x], key[x % KEY_LENGTH]) = c[x]
          BY <1>4, <4>1, <4>2, XorTwice
        <4> QED  BY <3>1, <4>1, <4>3
      <3>2. CASE ~InCall(job[p], x)
        <4>1. plain'[x] = plain[x]
          BY <2>1, <3>2
        <4> QED  BY <2>2, <3>2, <4>1 DEF Kept
      <3> QED  BY <3>1, <3>2
    <2>6. CallInv(p)'
      BY <2>1, <2>5 DEF CallInv
    <2> QED  BY <1>2, <2>1, <2>4, <2>6
  <1>13. CASE WriteStore(p)
    <2>1. /\ pc[p] = "writing" /\ pc'[p] = "transfer"
          /\ UNCHANGED <<key, written_sectors, plain>>
          /\ \A x \in Positions :
               data'[x] = IF InCall(job[p], x) THEN job[p].buf[x] ELSE data[x]
      BY <1>0, <1>13, WriteStoreShape
    <2>2. MidWrite(p)
      BY <1>0, <2>1 DEF CallInv
    <2>3. Kept' /\ Marked' /\ CallInv(p)'
      BY <1>0, <2>1, <2>2 DEF Kept, MidWrite, Marked, CallInv
    <2> QED  BY <1>2, <2>3
  <1> QED
    BY <1>6, <1>7, <1>8, <1>9, <1>10, <1>11, <1>12, <1>13 DEF DriverStep

LEMMA InitByteInv == Init => ByteInv
  <1> SUFFICES ASSUME Init PROVE ByteInv  OBVIOUS
  <1>1. \A p \in Procs : pc[p] = "idle"
    BY DEF Init
  <1>2. Alone /\ \A p \in Procs : CallInv(p)
    BY <1>1 DEF Alone, DriverPCs, CallInv
  <1>3. Marked /\ Kept
    BY DEF Init, Marked, Kept
  <1> QED  BY <1>2, <1>3, InitShape DEF ByteInv

LEMMA NextByteInv ==
    ASSUME Sleeps = FALSE, ByteInv, [Next]_vars
    PROVE  ByteInv'
  <1>0. ShapeInv
    BY DEF ByteInv
  <1>1. ASSUME NEW p \in Procs, Starts(p) \/ ClientStep(p) PROVE ByteInv'
    <2>1. ShapeInv' /\ UserStep(p)
      BY <1>0, <1>1, StartsShape, ClientShape
    <2> QED  BY <2>1, UserKeeps
  <1>2. ASSUME NEW p \in Procs, DriverStep(p) PROVE ByteInv'
    BY <1>2, DriverByteInv
  <1>3. CASE UNCHANGED vars
    <2>1. UNCHANGED <<passwd, key, written_sectors, data, pc, job, plain>>
      BY <1>3 DEF vars, device
    <2>2. ShapeInv' /\ Alone' /\ Marked' /\ (Kept => Kept') /\ (Rekeying => Rekeying')
      BY <1>0, <2>1 DEF ByteInv, ShapeInv, CryptShape, KindRight, Alone, Marked, Kept, Rekeying
    <2>3. ASSUME NEW p \in Procs PROVE CallInv(p)'
      <3>1. CallInv(p)
        BY DEF ByteInv
      <3> QED
        BY <2>1, <3>1 DEF CallInv, MidWrite, MidRekey, Loaded, FetchedRight, ReadRight,
                          InCall, CallEnd
    <2> QED  BY <2>2, <2>3 DEF ByteInv
  <1> QED  BY <1>1, <1>2, <1>3 DEF Next

\* If no other process runs while a system call sleeps, every byte that the
\* driver keeps (data, and zeros in marked sectors) can be decrypted, however
\* often the key is changed, whoever reads, and wherever new_key() fails.
THEOREM WrittenBytesSurvive ==
    ASSUME Sleeps = FALSE
    PROVE  Spec => []Recoverable
  <1>1. Init => ByteInv
    BY InitByteInv
  <1>2. ByteInv /\ [Next]_vars => ByteInv'
    BY NextByteInv
  <1>3. ByteInv => Recoverable
    BY DEF ByteInv, Recoverable, Marked, Kept
  <1> QED  BY <1>1, <1>2, <1>3, PTL DEF Spec

\* If no other process runs while a system call sleeps, an authorised read
\* gives back every byte that the driver keeps: all data that was written, of
\* what -z wrote only the zeros in marked sectors.
THEOREM AuthorisedReadsGiveKeptBytes ==
    ASSUME Sleeps = FALSE
    PROVE  Spec => []ReadsSensible
  <1>1. Init => ByteInv
    BY InitByteInv
  <1>2. ByteInv /\ [Next]_vars => ByteInv'
    BY NextByteInv
  <1>3. ByteInv => ReadsSensible
    BY DEF ByteInv, ReadsSensible, CallInv, ReadRight
  <1> QED  BY <1>1, <1>2, <1>3, PTL DEF Spec

=============================================================================
