----------------------------- MODULE OsprdCrypt -----------------------------
(***************************************************************************)
(* The encryption and the passwords of one ramdisk                         *)
(* (Lab2-Encrypted-Ramdisk/osprd.c), used by clients that run              *)
(* osprdaccess.c: the ioctls SETPASS, AUTHORIZE, DEAUTHORIZE and           *)
(* PASSEXISTS, reads and writes, and new_key(), which re-encrypts the      *)
(* written sectors after every read.                                       *)
(*                                                                         *)
(* A sector here is KEY_LENGTH bytes, and a byte is one bit, so that the   *)
(* exclusive or of AxorB is what it is in the code.  What a client reads   *)
(* from its standard input and writes is all ones; -z writes a buffer that *)
(* it fills with zeros once.  A system call is cut where it can sleep:     *)
(* other processes run there if Sleeps is TRUE, and only between system    *)
(* calls if it is FALSE.                                                   *)
(***************************************************************************)
EXTENDS Integers

CONSTANTS
    Procs,       \* the pids of the clients
    KEY_LENGTH,  \* bytes of the key
    NSectors,    \* sectors of KEY_LENGTH bytes
    Passwords,   \* the passwords that users type
    NoPassword,  \* the empty password
    TooLong,     \* a password of MAX_PASS_LEN characters
    BUFSIZ,      \* the most that one call of transfer() moves
    Spans,       \* the parts <<offset, end>> of the disk that are read and written
    ZeroSpans,   \* the parts that are zeroed (-z)
    Enomem,      \* can kmalloc fail
    Sleeps       \* do other processes run where a system call sleeps

Sectors == 0 .. NSectors - 1
Offsets == 0 .. KEY_LENGTH - 1
Positions == 0 .. NSectors * KEY_LENGTH - 1
Bits == {0, 1}
Keys == [Offsets -> Bits]
Typed == Passwords \cup {NoPassword, TooLong}

\* A call that starts inside a sector moves at least the rest of the sector:
\* the driver's first AxorB does not look at the size.
ASSUME CryptAssumption ==
    /\ KEY_LENGTH \in Nat \ {0} /\ NSectors \in Nat \ {0}
    /\ NoPassword \notin Passwords /\ TooLong \notin Passwords /\ TooLong # NoPassword
    /\ BUFSIZ \in Nat /\ BUFSIZ % KEY_LENGTH = 0 /\ BUFSIZ > 0
    /\ \A span \in Spans \cup ZeroSpans :
         /\ span \in Positions \X (Positions \cup {NSectors * KEY_LENGTH})
         /\ span[1] < span[2]
         /\ \A x \in span[1] .. span[2] - 1 :
              (x - span[1]) % BUFSIZ = 0 /\ x % KEY_LENGTH # 0 =>
                (x \div KEY_LENGTH + 1) * KEY_LENGTH <= span[2]
    /\ \A span \in ZeroSpans : span[1] % KEY_LENGTH = 0
    /\ Enomem \in BOOLEAN
    /\ Sleeps \in BOOLEAN

VARIABLES
    passwd,           \* d->passwd
    key,              \* d->key
    written_sectors,  \* the sectors whose bit in d->written_sectors is set
    auth_list,        \* the pids in d->auth_list
    data,             \* the bytes on the disk
    pc,               \* where each client is
    job,              \* its local variables
    plain,            \* history: the bytes that the driver keeps, 2 where it keeps none
    stale             \* history: the pids in auth_list of clients that died

device == <<passwd, key, written_sectors, auth_list>>
vars == <<device, data, pc, job, plain, stale>>

\* In the client: not running; before PASSEXISTS; before AUTHORIZE; before
\* SETPASS; in the loop of transfer(); before DEAUTHORIZE.  In the driver: in
\* a read before the data is fetched ("fetch") and decrypted ("decrypt"); in
\* the loop of new_key() ("rekey"), and there with a sector to write back
\* ("store"); in a write before the data is stored ("writing").
UserPCs == {"idle", "exists", "authorize", "setpass", "transfer", "deauthorize"}

CanRun(p) == Sleeps \/ \A q \in Procs \ {p} : pc[q] \in UserPCs

Go(p, where) == pc' = [pc EXCEPT ![p] = where]

ZeroKey == [i \in Offsets |-> 0]

\* The options and variables of a client: what it does with which span, the
\* password given on the command line or typed, and whether it was accepted;
\* of a system call: the buffer, new_key()'s rand_key, the next
\* sector of its loop and its stuff_buf, and whether the caller was authorised.
NoJob == [kind |-> "read", pos |-> 0, end |-> 0, guess |-> NoPassword, ok |-> FALSE,
          buf |-> [x \in Positions |-> 0], rand_key |-> ZeroKey,
          sector |-> 0, stuff_buf |-> ZeroKey, authed |-> FALSE]

\* osprd_setup and setup_device.
Init ==
    /\ passwd = NoPassword
    /\ key \in Keys
    /\ written_sectors = {} /\ auth_list = {}
    /\ data = [x \in Positions |-> 0]
    /\ pc = [p \in Procs |-> "idle"]
    /\ job = [p \in Procs |-> NoJob]
    /\ plain = [x \in Positions |-> 2]
    /\ stale = {}

-----------------------------------------------------------------------------
(* Bits, sectors and the part of a span that one system call moves. *)

Xor(a, b) == IF a = b THEN 0 ELSE 1
SectorOf(x) == x \div KEY_LENGTH

\* The calls of AxorB for a buffer whose first byte is byte from of the disk:
\* first the rest of the sector of from, then sector after sector.
Crypt(buf, from, k) == [x \in Positions |-> Xor(buf[x], k[x % KEY_LENGTH])]

CallEnd(j) == IF j.pos + BUFSIZ < j.end THEN j.pos + BUFSIZ ELSE j.end
InCall(j, x) == j.pos <= x /\ x < CallEnd(j)

\* What a write of the bytes of buf from from to to does to written_sectors:
\* a sector that gets something other than zeros is marked, one that gets
\* nothing but zeros is not marked any more.  The rest of a sector in which
\* the write begins is counted only if it is not zero: if it is, the flags
\* of the sectors after it go to the sectors before them.
Parts(from, to) == SectorOf(from) .. SectorOf(to - 1)
Zero(buf, from, to, s) ==
    \A x \in from .. to - 1 : SectorOf(x) = s => buf[x] = 0
Unaligned(from, s) == s * KEY_LENGTH < from
Full(from, to, s) == from <= s * KEY_LENGTH /\ (s + 1) * KEY_LENGTH <= to
Shift(buf, from, to) ==
    IF Unaligned(from, SectorOf(from)) /\ Zero(buf, from, to, SectorOf(from)) THEN 1 ELSE 0

Flags(buf, from, to) ==
    LET nonzero == {s \in Parts(from, to) : ~Zero(buf, from, to, s)}
        cleared == {s \in Parts(from, to) \ nonzero : Full(from, to, s)}
        Number(s) == s - Shift(buf, from, to)
    IN  (written_sectors \ {Number(s) : s \in cleared}) \cup {Number(s) : s \in nonzero}

-----------------------------------------------------------------------------
(* The client, osprdaccess. *)

\* main() up to its first ioctl: mode and options, open, lseek.
Start(p, kind, span) ==
    /\ pc[p] = "idle"
    /\ job' = [job EXCEPT ![p] =
                 [NoJob EXCEPT !.kind = kind, !.pos = span[1], !.end = span[2]]]
    /\ Go(p, IF kind \in {"read", "passwd"} THEN "exists" ELSE "transfer")
    /\ UNCHANGED <<device, data, plain, stale>>

\* OSPRDPASSEXISTS, and the password: the one given with -u, the empty one if
\* the disk has none, otherwise the one the user types.
PassExists(p) ==
    /\ pc[p] = "exists" /\ CanRun(p)
    /\ \E given \in BOOLEAN, typed \in Typed :
         /\ given => typed # TooLong
         /\ job' = [job EXCEPT ![p].guess =
                      IF ~given /\ passwd = NoPassword THEN NoPassword ELSE typed]
    /\ Go(p, "authorize")
    /\ UNCHANGED <<device, data, plain, stale>>

\* Where a client goes once it knows whether its password was accepted.
AfterAuthorize(p, ok) ==
    /\ job' = [job EXCEPT ![p].ok = ok, ![p].guess = NoPassword]
    /\ Go(p, IF job[p].kind = "read" THEN "transfer"
             ELSE IF ok THEN "setpass" ELSE "deauthorize")

\* OSPRDAUTHORIZE: the caller's pid is linked into auth_list if it is not there.
\* A password that is too long is not sent to the driver.  If the driver has
\* no memory the client takes its password to be accepted.
Authorize(p) ==
    /\ pc[p] = "authorize" /\ CanRun(p)
    /\ \/ /\ job[p].guess = passwd
          /\ auth_list' = auth_list \cup {p}
          /\ AfterAuthorize(p, TRUE)
       \/ /\ job[p].guess # passwd
          /\ AfterAuthorize(p, FALSE)
          /\ UNCHANGED auth_list
       \/ /\ Enomem /\ job[p].guess # TooLong
          /\ AfterAuthorize(p, TRUE)
          /\ UNCHANGED auth_list
    /\ UNCHANGED <<passwd, key, written_sectors, data, plain, stale>>

\* The user types a new password, twice: OSPRDSETPASS, unless it is too long
\* or not retyped right.
SetPass(p) ==
    /\ pc[p] = "setpass" /\ CanRun(p)
    /\ \E new \in Typed : passwd' = IF new = TooLong THEN passwd ELSE new
    /\ Go(p, "deauthorize")
    /\ UNCHANGED <<key, written_sectors, auth_list, data, job, plain, stale>>

\* Seeded fault: a client that reads does not deauthorise.
BadDeauthorize(p) ==
    /\ pc[p] = "deauthorize" /\ CanRun(p)
    /\ auth_list' = IF job[p].kind = "read" THEN auth_list ELSE auth_list \ {p}
    /\ Go(p, "idle")
    /\ job' = [job EXCEPT ![p] = NoJob]
    /\ UNCHANGED <<passwd, key, written_sectors, data, plain, stale>>

\* OSPRDDEAUTHORIZE, for a client whose password was accepted, and exit.
Deauthorize(p) ==
    /\ pc[p] = "deauthorize" /\ CanRun(p)
    /\ auth_list' = IF job[p].ok THEN auth_list \ {p} ELSE auth_list
    /\ stale' = stale \cap auth_list'
    /\ Go(p, "idle")
    /\ job' = [job EXCEPT ![p] = NoJob]
    /\ UNCHANGED <<passwd, key, written_sectors, data, plain>>

\* A signal ends a client wherever it is outside the driver: at one of its
\* prompts, between two ioctls, in transfer(), before DEAUTHORIZE.  A read or
\* write that fails, without memory for its buffer, makes it exit in the same
\* way.  If its pid is in auth_list it stays there, and the next process
\* with that pid is authorised.
Dies(p) ==
    /\ pc[p] \in UserPCs \ {"idle"}
    /\ Go(p, "idle")
    /\ job' = [job EXCEPT ![p] = NoJob]
    /\ stale' = stale \cup ({p} \cap auth_list)
    /\ UNCHANGED <<device, data, plain>>

\* The end of the loop of transfer() or transfer_zero().
TransferEnds(p) ==
    /\ pc[p] = "transfer" /\ job[p].pos >= job[p].end
    /\ IF job[p].kind = "read"
       THEN Go(p, "deauthorize") /\ UNCHANGED job
       ELSE Go(p, "idle") /\ job' = [job EXCEPT ![p] = NoJob]
    /\ UNCHANGED <<device, data, plain, stale>>

-----------------------------------------------------------------------------
(* _osprd_read and new_key. *)

\* Entering new_key(), with any random key.
NewKey(p, j) ==
    /\ \E rand \in Keys : job' = [job EXCEPT ![p] = [j EXCEPT !.rand_key = rand, !.sector = 0]]
    /\ Go(p, "rekey")

\* The search of auth_list: without authorisation the key is changed first.
ReadCall(p) ==
    /\ pc[p] = "transfer" /\ job[p].kind = "read" /\ job[p].pos < job[p].end
    /\ CanRun(p)
    /\ \/ /\ p \in auth_list
          /\ job' = [job EXCEPT ![p].authed = TRUE]
          /\ Go(p, "fetch")
       \/ p \notin auth_list /\ NewKey(p, [job[p] EXCEPT !.authed = FALSE])
    /\ UNCHANGED <<device, data, plain, stale>>

\* blkdev_read into the user's buffer.
Fetched(j) == [x \in Positions |-> IF InCall(j, x) THEN data[x] ELSE 0]

\* The call returns and the client writes what it got to its standard output.
Returned(j) == [j EXCEPT !.pos = CallEnd(j), !.buf = NoJob.buf, !.rand_key = ZeroKey,
                         !.sector = 0, !.stuff_buf = ZeroKey, !.authed = FALSE]

\* ... which ends the call of a caller that is not authorised.
Fetch(p) ==
    /\ pc[p] = "fetch" /\ CanRun(p)
    /\ IF job[p].authed
       THEN /\ job' = [job EXCEPT ![p].buf = Fetched(job[p])]
            /\ Go(p, "decrypt")
       ELSE /\ job' = [job EXCEPT ![p] = Returned(job[p])]
            /\ Go(p, "transfer")
    /\ UNCHANGED <<device, data, plain, stale>>

\* Seeded fault: the key is changed before it is used.
BadDecrypt(p) ==
    /\ pc[p] = "decrypt" /\ CanRun(p)
    /\ \E rand \in Keys :
         job' = [job EXCEPT ![p].buf = Crypt(@, job[p].pos, rand),
                            ![p].rand_key = rand, ![p].sector = 0]
    /\ Go(p, "rekey")
    /\ UNCHANGED <<device, data, plain, stale>>

\* The caller's data is decrypted, and after every read the key is changed.
Decrypt(p) ==
    /\ pc[p] = "decrypt" /\ CanRun(p)
    /\ NewKey(p, [job[p] EXCEPT !.buf = Crypt(job[p].buf, job[p].pos, key)])
    /\ UNCHANGED <<device, data, plain, stale>>

\* The next written sector is read.
RekeyLoad(p) ==
    /\ pc[p] = "rekey" /\ CanRun(p)
    /\ \E s \in written_sectors :
         /\ job[p].sector <= s
         /\ \A t \in written_sectors : job[p].sector <= t => s <= t
         /\ job' = [job EXCEPT ![p].sector = s,
                               ![p].stuff_buf = [i \in Offsets |-> data[s * KEY_LENGTH + i]]]
    /\ Go(p, "store")
    /\ UNCHANGED <<device, data, plain, stale>>

\* Seeded fault: the sector is not decrypted first.
BadRekeyed(j, i) == Xor(j.stuff_buf[i], j.rand_key[i])

\* Both exclusive ors, the first with the key that the device has now.
Rekeyed(j, i) == Xor(Xor(j.stuff_buf[i], key[i]), j.rand_key[i])

RekeyStore(p) ==
    /\ pc[p] = "store" /\ CanRun(p)
    /\ data' = [x \in Positions |-> IF SectorOf(x) = job[p].sector
                                    THEN Rekeyed(job[p], x % KEY_LENGTH) ELSE data[x]]
    /\ job' = [job EXCEPT ![p].sector = @ + 1]
    /\ Go(p, "rekey")
    /\ UNCHANGED <<device, plain, stale>>

\* Back from new_key(): the read returns, or is only now done.
AfterNewKey(p) ==
    IF job[p].authed
    THEN /\ job' = [job EXCEPT ![p] = Returned(job[p])]
         /\ Go(p, "transfer")
    ELSE Go(p, "fetch") /\ UNCHANGED job

\* No written sector is left: the new key is installed.
RekeyDone(p) ==
    /\ pc[p] = "rekey" /\ CanRun(p)
    /\ \A s \in written_sectors : s < job[p].sector
    /\ key' = job[p].rand_key
    /\ AfterNewKey(p)
    /\ UNCHANGED <<passwd, written_sectors, auth_list, data, plain, stale>>

\* Without memory for stuff_buf new_key() does nothing.
RekeySkipped(p) ==
    /\ Enomem
    /\ pc[p] = "rekey" /\ job[p].sector = 0 /\ CanRun(p)
    /\ AfterNewKey(p)
    /\ UNCHANGED <<device, data, plain, stale>>

-----------------------------------------------------------------------------
(* _osprd_write. *)

\* The client's buffer: transfer() fills it with new data before every write.
Content(j) == IF j.kind = "write" THEN [x \in Positions |-> 1] ELSE j.buf

\* What the driver keeps of byte x of a write: the data of -w, and zeros in a
\* sector that is marked as written.  Zeros in a sector that is not marked are
\* not encrypted again when the key changes, and the later chunks of -z are
\* not zeros: neither is what the user asked for.
KeptByte(j, marked, x) ==
    IF j.kind = "write" THEN 1
    ELSE IF SectorOf(x) \in marked /\ j.buf[x] = 0 THEN 0 ELSE 2

\* The flags are brought up to date and the data is encrypted ...
WriteCall(p) ==
    /\ pc[p] = "transfer" /\ job[p].kind \in {"write", "zero"} /\ job[p].pos < job[p].end
    /\ CanRun(p)
    /\ written_sectors' = Flags(Content(job[p]), job[p].pos, CallEnd(job[p]))
    /\ job' = [job EXCEPT ![p].buf = Crypt(Content(job[p]), job[p].pos, key)]
    /\ plain' = [x \in Positions |->
                   IF InCall(job[p], x) THEN KeptByte(job[p], written_sectors', x)
                   ELSE plain[x]]
    /\ Go(p, "writing")
    /\ UNCHANGED <<passwd, key, auth_list, data, stale>>

\* The client's buffer after a write, lined up with the next one: it was
\* overwritten with the encrypted data, which -z goes on writing.
Written(j) ==
    [x \in Positions |-> IF j.kind = "write" \/ x < BUFSIZ THEN 0 ELSE j.buf[x - BUFSIZ]]

\* ... before blkdev_write stores it.
WriteStore(p) ==
    /\ pc[p] = "writing" /\ CanRun(p)
    /\ data' = [x \in Positions |-> IF InCall(job[p], x) THEN job[p].buf[x] ELSE data[x]]
    /\ job' = [job EXCEPT ![p].pos = CallEnd(job[p]), ![p].buf = Written(job[p])]
    /\ Go(p, "transfer")
    /\ UNCHANGED <<device, plain, stale>>

-----------------------------------------------------------------------------
Starts(p) ==
    \/ \E span \in Spans : \/ Start(p, "read", span)
                           \/ Start(p, "write", span)
    \/ \E span \in ZeroSpans : Start(p, "zero", span)
    \/ Start(p, "passwd", <<0, 0>>)

ClientStep(p) ==
    \/ PassExists(p) \/ Authorize(p) \/ SetPass(p) \/ Deauthorize(p)
    \/ TransferEnds(p) \/ Dies(p)

DriverStep(p) ==
    \/ ReadCall(p) \/ Fetch(p) \/ Decrypt(p)
    \/ RekeyLoad(p) \/ RekeyStore(p) \/ RekeyDone(p) \/ RekeySkipped(p)
    \/ WriteCall(p) \/ WriteStore(p)

Next == \E p \in Procs : Starts(p) \/ ClientStep(p) \/ DriverStep(p)

Spec == Init /\ [][Next]_vars

-----------------------------------------------------------------------------
(* Properties. *)

Rekeying == \E p \in Procs : pc[p] \in {"rekey", "store", "writing"}

\* No byte that the driver keeps is lost, however often reads, authorised or
\* not, change the key: outside new_key() and a write, every byte of data, and
\* every zero that -z put in a marked sector, is in a sector marked as written
\* and decrypts to what it was.  (It says nothing of the zeros of -z in other
\* sectors: the next change of the key loses them.)
Recoverable ==
    ~Rekeying =>
        \A x \in Positions : plain[x] # 2 =>
            /\ SectorOf(x) \in written_sectors
            /\ Xor(data[x], key[x % KEY_LENGTH]) = plain[x]

\* What an authorised read gives the client has every byte of data as it was
\* written, and zeros where -z put them in a marked sector.  Of the rest of
\* what -z writes it says nothing: zeros in a sector that is not marked read
\* back as the exclusive or of two keys once the key has changed, and from the
\* second chunk on -z writes ciphertext, although osprdaccess.c:21 says that
\* it "writes zeros".
ReadsSensible ==
    \A p \in Procs : pc[p] \in {"rekey", "store"} /\ job[p].authed =>
        \A x \in Positions : InCall(job[p], x) /\ plain[x] # 2 => job[p].buf[x] = plain[x]

\* A pid in auth_list is that of a running client whose password was accepted,
\* or was left there by a client that died: a client that comes to its end,
\* reading or changing the password, takes its pid out, and one with a wrong
\* password puts none in.  A pid that was left is not harmless: the next
\* process that gets it reads decrypted data with a wrong password,
\* although osprdaccess.c:19 says that output is encrypted "unless the
\* current process is authorized".
AuthCurrent == \A p \in auth_list : job[p].ok \/ p \in stale

=============================================================================
