------------------------------ MODULE StoPart ------------------------------
(***************************************************************************)
(* One MTD partition behind libalislstorage (src/lib/libalislstorage/src/  *)
(* alislstorage.c): the handle that alislsto_mtd_open shares among its     *)
(* callers, the bad block map the library keeps beside the driver's, and   *)
(* the calls that seek, read, write and erase through the one offset of    *)
(* the handle.                                                             *)
(*                                                                         *)
(* Addresses count units of the flash from 0; a block has BS units.  A     *)
(* unit holds FF (erased), Junk (a failed or repeated programming) or      *)
(* <<n, k>>: the k-th unit of the buffer of the n-th call, or the contents *)
(* it was shipped with for n = 0.                                          *)
(*                                                                         *)
(* alislsto_lock_read and alislsto_lock_write hold seekmutex and may run   *)
(* in several threads at once.  Of the calls without it the comments say   *)
(* "Some guy seek, but the write action won't atomic": the model lets a    *)
(* thread make them only while no other thread is in a call.               *)
(***************************************************************************)
EXTENDS Integers, FiniteSets, Sequences

CONSTANTS Threads,   \* the threads that share the handle
          Kinds,     \* subset of {"nand", "nor"}: what the partition may be on
          NB,        \* blocks of the partition
          BS,        \* units of a block (erasesize)
          Sector,    \* erase unit of a NOR partition: see Unit
          Page,      \* units of a page (writesize)
          Lens,      \* lengths the callers ask for
          Offs,      \* offsets the callers seek to, besides -1
          MaxBad,    \* bound: bad blocks the partition is shipped with
          MaxFail,   \* bound: driver calls that fail
          MaxCalls   \* bound: calls made

ASSUME SizesAreBlocks ==
  /\ NB \in Nat \ {0} /\ BS \in Nat \ {0} /\ Sector \in 1 .. BS /\ Page \in 1 .. BS
  /\ BS % Sector = 0 /\ BS % Page = 0
  /\ MaxBad \in Nat /\ MaxFail \in Nat /\ MaxBad + MaxFail < NB
  /\ Lens \subseteq Nat \ {0} /\ Offs \subseteq Nat /\ MaxCalls \in Nat
ASSUME KindsAndThreads == Kinds \subseteq {"nand", "nor"} /\ "nobody" \notin Threads

VARIABLES kind,    \* "nand" or "nor"
          flash,   \* what each unit of the partition holds
          bad,     \* the driver's bad block table
          unmarked,\* some block failed and could not be marked bad
          dev,     \* the handle: open_cnt, offset, bad_map, bad_cnt, info_logic->size
          users,   \* the threads that have the handle open
          seekmx, wrmx,   \* the thread that holds seekmutex, wrmutex, or Nobody
          call,    \* each thread's call
          calls, fails    \* calls made, driver calls that failed

vars == <<kind, flash, bad, unmarked, dev, users, seekmx, wrmx, call, calls, fails>>

Size == NB * BS
Addr == 0 .. Size - 1
Blocks == 0 .. NB - 1
Block(a) == a \div BS
FF == <<-1, 0>>
Junk == <<-2, 0>>
Unread == <<-3, 0>>
Nobody == "nobody"
Locking == {"lock_read", "lock_write"}
NoDev == [open_cnt |-> 0, offset |-> 0, bad_map |-> {}, bad_cnt |-> 0, logic |-> 0]
Idle == [op |-> "none", pc |-> "idle", n |-> 0, off |-> 0, whence |-> "set", len |-> 0,
         flag |-> FALSE, orig |-> 0, start |-> 0, total |-> 0, failed |-> FALSE,
         result |-> "none", buf |-> <<>>, before |-> <<>>]

-----------------------------------------------------------------------------
(* Addresses.                                                              *)

\* The driver's answer to MEMGETBADBLOCK; an address past the end is an error,
\* which the library takes for a bad block.
IsBad(a) == a >= Size \/ Block(a) \in bad

GoodBefore(b) == Cardinality({c \in Blocks : c < b /\ c \notin dev.bad_map})

\* alislsto_get_logic_addr
GetLogicAddr(a) ==
  IF dev.bad_cnt = 0 \/ kind # "nand" THEN a
  ELSE BS * GoodBefore(Block(a)) + (a % BS)

\* alislsto_get_phy_addr: when there is no such good block the scan ends at NB.
GetPhyAddr(a) ==
  IF dev.bad_cnt = 0 \/ kind # "nand" THEN a
  ELSE LET hits == {c \in Blocks : c \notin dev.bad_map /\ GoodBefore(c) = a \div BS}
       IN BS * (IF hits = {} THEN NB ELSE CHOOSE c \in hits : TRUE) + (a % BS)

\* The three cases of alislsto_lseek and alislsto_lseek_logic.  info->size is
\* unsigned, so a negative offset from the start compares as a large one.
SeekTo(from, limit, off, whence) ==
  CASE whence = "set" -> IF off < 0 \/ off >= limit THEN limit - 1 ELSE off
    [] whence = "cur" -> IF from + off < 0 THEN 0
                         ELSE IF from + off >= limit THEN limit - 1 ELSE from + off
    [] whence = "end" -> IF limit + off - 1 < 0 THEN 0
                         ELSE IF off <= 0 THEN limit + off - 1 ELSE from

Least(a, b) == IF a < b THEN a ELSE b

\* unit_size, from the erase_type of the first open.  On NAND that is a block, as
\* alislsto_mtd_open_by_name has it: MEMERASE4K, a driver's command that src/ only
\* uses, is taken for one of NOR drivers.  On NOR, Sector stands for either type: it
\* is SECTOR_SIZE_4K, or BS for STO_ERASE_TYPE_BLOCK.
Unit == IF kind = "nor" THEN Sector ELSE BS

-----------------------------------------------------------------------------
(* Opening and closing.                                                    *)

\* alislsto_mtd_open and show_flash_info: the first caller scans for bad blocks.
Open(t) ==
  /\ t \notin users
  /\ calls < MaxCalls
  /\ users' = users \cup {t}
  /\ dev' = IF dev.open_cnt > 0
            THEN [dev EXCEPT !.open_cnt = @ + 1]
            ELSE LET found == IF kind = "nand" THEN bad ELSE {}
                 IN [open_cnt |-> 1, offset |-> 0, bad_map |-> found,
                     bad_cnt |-> Cardinality(found), logic |-> Size - BS * Cardinality(found)]
  /\ UNCHANGED <<kind, flash, bad, unmarked, seekmx, wrmx, call, calls, fails>>

\* alislsto_mtd_close
Close(t) ==
  /\ t \in users /\ call[t].pc = "idle"
  /\ users' = users \ {t}
  /\ dev' = IF dev.open_cnt > 1 THEN [dev EXCEPT !.open_cnt = @ - 1] ELSE NoDev
  /\ UNCHANGED <<kind, flash, bad, unmarked, seekmx, wrmx, call, calls, fails>>

-----------------------------------------------------------------------------
(* The beginning of a call.                                                *)

MayCall(t, op) ==
  /\ t \in users /\ call[t].pc = "idle" /\ calls < MaxCalls
  /\ \A u \in Threads \ {t} : call[u].pc = "idle" \/ {op, call[u].op} \subseteq Locking
  /\ calls' = calls + 1

Enter(t, op, pc, off, len) ==
  [Idle EXCEPT !.op = op, !.pc = pc, !.n = calls + 1, !.off = off, !.len = len,
               !.start = GetLogicAddr(dev.offset), !.before = flash]

\* alislsto_lseek and alislsto_lseek_logic, each one step of an unshared handle.
Lseek(t, off, whence) ==
  /\ MayCall(t, "lseek")
  /\ \/ dev' = [dev EXCEPT !.offset = SeekTo(@, Size, off, whence)]
     \/ dev' = [dev EXCEPT !.offset =
                  GetPhyAddr(SeekTo(GetLogicAddr(@), dev.logic, off, whence))]
  /\ UNCHANGED <<kind, flash, bad, unmarked, users, seekmx, wrmx, call, fails>>

Read(t, len) ==
  /\ MayCall(t, "read")
  /\ call' = [call EXCEPT ![t] = Enter(t, "read", "read", 0, len)]
  /\ UNCHANGED <<kind, flash, bad, unmarked, dev, users, seekmx, wrmx, fails>>

Write(t, op, len) ==
  /\ op \in {"write", "write_no_erase"}
  /\ MayCall(t, op)
  /\ call' = [call EXCEPT ![t] = Enter(t, op, "wrlock", 0, len)]
  /\ UNCHANGED <<kind, flash, bad, unmarked, dev, users, seekmx, wrmx, fails>>

\* alislsto_erase from physical address off; anything but whole blocks inside
\* the partition is refused.
Erase(t, off, len) ==
  /\ off % BS = 0 /\ len % BS = 0 /\ off <= Size
  /\ MayCall(t, "erase")
  /\ call' = [call EXCEPT ![t] = [Enter(t, "erase", "erase", off, len) EXCEPT
                                    !.start = GetLogicAddr(off)]]
  /\ UNCHANGED <<kind, flash, bad, unmarked, dev, users, seekmx, wrmx, fails>>

LockCall(t, op, off, whence, len, flag) ==
  /\ MayCall(t, op)
  /\ call' = [call EXCEPT ![t] = [Enter(t, op, "seeklock", off, len) EXCEPT
                                    !.whence = whence, !.flag = flag]]
  /\ UNCHANGED <<kind, flash, bad, unmarked, dev, users, seekmx, wrmx, fails>>

\* A plausible fault: the mutex is not waited for.
SeekFreeAnyway == TRUE

\* pthread_mutex_lock(&priv->seekmutex)
SeekFree == seekmx = Nobody

\* alislsto_lock_read, alislsto_lock_write: take seekmutex, note the offset, seek.
\* alislsto_lseek_ext fails on such a handle: it has no PMI and no layout map.
LockSeek(t) ==
  /\ call[t].pc = "seeklock" /\ SeekFree
  /\ seekmx' = t
  /\ LET c == call[t]
         to == SeekTo(dev.offset, Size, c.off, c.whence)
     IN IF c.whence \in {"ext", "bad"}
        THEN /\ call' = [call EXCEPT ![t].pc = "ret", ![t].orig = dev.offset,
                                     ![t].result = IF c.whence = "ext" THEN "driver" ELSE "none"]
             /\ UNCHANGED dev
        ELSE /\ dev' = [dev EXCEPT !.offset = to]
             /\ call' = [call EXCEPT ![t].orig = dev.offset, ![t].start = GetLogicAddr(to),
                                     ![t].before = flash,
                                     ![t].pc = IF c.op = "lock_read" THEN "read" ELSE "wrlock"]
  /\ UNCHANGED <<kind, flash, bad, unmarked, users, wrmx, calls, fails>>

LockWr(t) ==
  /\ call[t].pc = "wrlock" /\ wrmx = Nobody
  /\ wrmx' = t
  /\ call' = [call EXCEPT ![t].pc = IF call[t].op = "write" THEN "write" ELSE "noerase"]
  /\ UNCHANGED <<kind, flash, bad, unmarked, dev, users, seekmx, calls, fails>>

-----------------------------------------------------------------------------
(* What the driver does.                                                   *)

MayFail == fails < MaxFail /\ fails' = fails + 1

\* Programming sets bits to 0 only: a unit that is not erased becomes junk.
Programmed(from, n, val(_)) ==
  [a \in Addr |-> IF a \in from .. from + n - 1
                  THEN IF flash[a] = FF THEN val(a - from) ELSE Junk
                  ELSE flash[a]]
Filled(from, n, v) == [a \in Addr |-> IF a \in from .. from + n - 1 THEN v ELSE flash[a]]

\* A plausible fault: the driver's table is updated and the handle's map is not.
UpdateBbtDriverOnly(a, d) ==
  \/ kind = "nand" /\ bad' = bad \cup {Block(a)} /\ dev' = d /\ UNCHANGED unmarked
  \/ unmarked' = TRUE /\ dev' = d /\ UNCHANGED bad

\* update_bbt after a failed erase at a.
UpdateBbt(a, d) ==
  \/ /\ kind = "nand"
     /\ bad' = bad \cup {Block(a)}
     /\ dev' = IF Block(a) \in d.bad_map THEN d
               ELSE [d EXCEPT !.bad_map = @ \cup {Block(a)}, !.bad_cnt = @ + 1, !.logic = @ - BS]
     /\ UNCHANGED unmarked
  \/ unmarked' = TRUE /\ dev' = d /\ UNCHANGED bad

-----------------------------------------------------------------------------
(* The loops.                                                              *)

\* One round of alislsto_read.  A failed read() is counted as if it had succeeded.
ReadStep(t) ==
  LET c == call[t]
      size == Least(c.len - c.total, BS - (dev.offset % BS))
      put(ok) == c.buf \o [k \in 1 .. size |-> IF ok THEN flash[dev.offset + k - 1] ELSE Unread]
  IN /\ c.pc = "read"
     /\ \/ /\ c.total >= c.len \/ dev.offset >= Size
           /\ call' = [call EXCEPT ![t].pc = "ret"]
           /\ UNCHANGED <<dev, fails>>
        \/ /\ c.total < c.len /\ dev.offset < Size
           /\ kind = "nand" /\ IsBad(dev.offset)
           /\ dev' = [dev EXCEPT !.offset = @ + BS]
           /\ UNCHANGED <<call, fails>>
        \/ /\ c.total < c.len /\ dev.offset < Size
           /\ ~(kind = "nand" /\ IsBad(dev.offset))
           /\ \E ok \in BOOLEAN :
                /\ IF ok THEN UNCHANGED fails ELSE MayFail
                /\ call' = [call EXCEPT ![t].buf = put(ok), ![t].total = @ + size,
                                        ![t].failed = @ \/ ~ok]
           /\ dev' = [dev EXCEPT !.offset = @ + size]
     /\ UNCHANGED <<kind, flash, bad, unmarked, users, seekmx, wrmx, calls>>

\* A plausible fault: the first, unaligned unit is taken for a whole one.
WriteSizeAligned(c, at) == Least(Unit, c.len - c.total)

\* How much of the buffer goes into the erase unit at address at.
WriteSize(c, at) == IF at % Unit # 0 THEN Least(Unit - (at % Unit), c.len)
                                     ELSE Least(Unit, c.len - c.total)

\* One round of alislsto_write: a part of an erase unit is merged with what the
\* unit holds, the unit is erased and programmed again.
WriteStep(t) ==
  LET c == call[t]
      at == dev.offset
      unit == at - (at % Unit)
      n == WriteSize(c, at)
      merged == [a \in Addr |-> IF a \in at .. Least(at + n, unit + Unit) - 1
                               THEN <<c.n, c.total + a - at>> ELSE flash[a]]
      over == call' = [call EXCEPT ![t].pc = "ret", ![t].failed = @ \/ at < Size]
      live == c.total < c.len /\ at < Size
  IN /\ c.pc = "write"
     /\ \/ /\ c.total >= c.len \/ at >= Size
           /\ call' = [call EXCEPT ![t].pc = "ret"]
           /\ UNCHANGED <<flash, bad, unmarked, dev, fails>>
        \/ /\ live /\ kind = "nand" /\ IsBad(at)
           /\ dev' = [dev EXCEPT !.offset = @ + BS]
           /\ UNCHANGED <<flash, bad, unmarked, call, fails>>
        \/ /\ live /\ ~(kind = "nand" /\ IsBad(at))
           /\ \/ /\ n < Unit                       \* the read of the unit is short
                 /\ MayFail /\ over
                 /\ UNCHANGED <<flash, bad, unmarked, dev>>
              \/ /\ MayFail                        \* the erase fails
                 /\ flash' = Filled(unit, Unit, Junk)
                 /\ UpdateBbt(unit, [dev EXCEPT !.offset = @ + Unit])
                 /\ call' = [call EXCEPT ![t].failed = TRUE]
              \/ /\ MayFail /\ over                \* the write fails
                 /\ flash' = Filled(unit, Unit, Junk)
                 /\ UNCHANGED <<bad, unmarked, dev>>
              \/ /\ flash' = merged
                 /\ dev' = [dev EXCEPT !.offset = @ + n]
                 /\ call' = [call EXCEPT ![t].total = @ + n]
                 /\ UNCHANGED <<bad, unmarked, fails>>
     /\ UNCHANGED <<kind, users, seekmx, wrmx, calls>>

\* One round of alislsto_write_no_erase.  Its inner loop skips bad blocks
\* without looking for the end of the partition.
NextGood(a) == {x \in a .. Size - 1 : (x - a) % BS = 0 /\ ~IsBad(x)}
NoEraseStep(t) ==
  LET c == call[t]
      skip == kind = "nand" /\ IsBad(dev.offset)
      at == IF skip THEN CHOOSE x \in NextGood(dev.offset) : \A y \in NextGood(dev.offset) : x <= y
                    ELSE dev.offset
      size == Least(c.len - c.total, BS - (at % BS))
      val(k) == <<c.n, c.total + k>>
      done == call' = [call EXCEPT ![t].pc = "ret"]
  IN /\ c.pc = "noerase"
     /\ \/ /\ c.total >= c.len \/ dev.offset >= Size
           /\ done /\ UNCHANGED <<flash, dev, fails>>
        \/ /\ c.total < c.len /\ dev.offset < Size
           /\ IF skip /\ NextGood(dev.offset) = {}
              THEN /\ call' = [call EXCEPT ![t].pc = "spin"]
                   /\ UNCHANGED <<flash, dev, fails>>
              ELSE \/ /\ at % Page # 0
                      /\ done /\ dev' = [dev EXCEPT !.offset = at]
                      /\ UNCHANGED <<flash, fails>>
                   \/ /\ at % Page = 0 /\ MayFail
                      /\ done /\ dev' = [dev EXCEPT !.offset = at]
                      /\ flash' = Filled(at, size, Junk)
                   \/ /\ at % Page = 0
                      /\ flash' = Programmed(at, size, val)
                      /\ dev' = [dev EXCEPT !.offset = at + size]
                      /\ call' = [call EXCEPT ![t].total = @ + size]
                      /\ UNCHANGED fails
     /\ UNCHANGED <<kind, bad, unmarked, users, seekmx, wrmx, calls>>

\* A plausible fault: a block that could not be erased counts as erased.
EraseFailsCounted(t) ==
  /\ MayFail
  /\ flash' = Filled(call[t].off, Unit, Junk)
  /\ UpdateBbt(call[t].off, dev)
  /\ call' = [call EXCEPT ![t].off = @ + Unit, ![t].total = @ + 1]

\* An erase that fails is not counted: the next block is taken instead.
EraseFails(t) ==
  /\ MayFail
  /\ flash' = Filled(call[t].off, Unit, Junk)
  /\ UpdateBbt(call[t].off, dev)
  /\ call' = [call EXCEPT ![t].off = @ + Unit]

\* One round of alislsto_erase; call.total counts the units erased.
EraseStep(t) ==
  LET c == call[t]
      live == c.total < c.len \div Unit /\ c.off < Size
      done(r) == call' = [call EXCEPT ![t].pc = "ret", ![t].result = r]
  IN /\ c.pc = "erase"
     /\ \/ /\ c.total >= c.len \div Unit
           /\ done("none") /\ UNCHANGED <<flash, bad, unmarked, dev, fails>>
        \/ /\ c.total < c.len \div Unit /\ c.off >= Size
           /\ done(IF c.start = 0 /\ c.len >= dev.logic THEN "none" ELSE "overflow")
           /\ UNCHANGED <<flash, bad, unmarked, dev, fails>>
        \/ /\ live /\ kind = "nand" /\ IsBad(c.off)
           /\ call' = [call EXCEPT ![t].off = @ + Unit]
           /\ UNCHANGED <<flash, bad, unmarked, dev, fails>>
        \/ /\ live /\ ~(kind = "nand" /\ IsBad(c.off))
           /\ \/ /\ flash' = Filled(c.off, Unit, FF)
                 /\ call' = [call EXCEPT ![t].off = @ + Unit, ![t].total = @ + 1]
                 /\ UNCHANGED <<bad, unmarked, dev, fails>>
              \/ EraseFails(t)
     /\ UNCHANGED <<kind, users, seekmx, wrmx, calls>>

\* The end of a call: the mutexes are released; the lock calls first put the
\* offset back if the caller asked for it.
Return(t) ==
  /\ call[t].pc = "ret"
  /\ dev' = IF call[t].op \in Locking /\ call[t].flag
            THEN [dev EXCEPT !.offset = call[t].orig] ELSE dev
  /\ seekmx' = IF seekmx = t THEN Nobody ELSE seekmx
  /\ wrmx' = IF wrmx = t THEN Nobody ELSE wrmx
  /\ call' = [call EXCEPT ![t] = Idle]
  /\ UNCHANGED <<kind, flash, bad, unmarked, users, calls, fails>>

-----------------------------------------------------------------------------
Init ==
  /\ kind \in Kinds
  /\ \E b \in SUBSET Blocks : Cardinality(b) <= MaxBad /\ (kind = "nor" => b = {}) /\ bad = b
  /\ flash = [a \in Addr |-> IF Block(a) = 0 THEN FF ELSE <<0, a>>]
  /\ unmarked = FALSE /\ dev = NoDev /\ users = {}
  /\ seekmx = Nobody /\ wrmx = Nobody
  /\ call = [t \in Threads |-> Idle]
  /\ calls = 0 /\ fails = 0

Whences == {"set", "cur", "end"}
Begin(t) ==
  \/ Open(t) \/ Close(t)
  \/ \E off \in Offs \cup {-1}, w \in Whences : Lseek(t, off, w)
  \/ \E len \in Lens : Read(t, len) \/ \E op \in {"write", "write_no_erase"} : Write(t, op, len)
  \/ \E off \in 0 .. Size, len \in 1 .. Size : Erase(t, off, len)
  \/ \E op \in Locking, seek \in ((Offs \cup {-1}) \X Whences) \cup {<<0, "ext">>, <<0, "bad">>},
        len \in Lens, flag \in BOOLEAN : LockCall(t, op, seek[1], seek[2], len, flag)

Run(t) == ReadStep(t) \/ WriteStep(t) \/ NoEraseStep(t) \/ EraseStep(t) \/ Return(t)

Next == \E t \in Threads : Begin(t) \/ LockSeek(t) \/ LockWr(t) \/ Run(t)

Spec == Init /\ [][Next]_vars

\* A thread inside a call is scheduled, and a mutex that keeps becoming free is
\* taken in the end.
FairSpec ==
  Spec /\ \A t \in Threads : WF_vars(Run(t)) /\ SF_vars(LockSeek(t)) /\ SF_vars(LockWr(t))

-----------------------------------------------------------------------------
(* Properties.                                                             *)

Cell == {FF, Junk} \cup (0 .. MaxCalls) \X (0 .. Size)
Ops == {"none", "read", "write", "write_no_erase", "erase"} \cup Locking
Pcs == {"idle", "seeklock", "wrlock", "read", "write", "noerase", "erase", "ret", "spin"}

\* Types, with the two mutexes held by the calls that need them, and the bad
\* block map of the handle, its count and the logical size in step with each
\* other and with the driver's table (show_flash_info, update_bbt).
TypeOK ==
  /\ kind \in {"nand", "nor"} /\ flash \in [Addr -> Cell]
  /\ bad \subseteq Blocks /\ unmarked \in BOOLEAN /\ users \subseteq Threads
  /\ dev.open_cnt = Cardinality(users)
  /\ users # {} => /\ dev.bad_map = bad
                   /\ dev.bad_cnt = Cardinality(bad)
                   /\ dev.logic = Size - BS * Cardinality(bad)
  /\ dev.offset \in 0 .. Size + BS
  /\ \A t \in Threads :
       LET c == call[t] IN
       /\ c.op \in Ops /\ c.pc \in Pcs /\ c.total \in 0 .. c.len
       /\ c.pc # "idle" => t \in users
       /\ seekmx = t <=> c.op \in Locking /\ c.pc # "seeklock"
       /\ c.pc \in {"write", "noerase", "spin"} => wrmx = t
  /\ calls \in 0 .. MaxCalls /\ fails \in 0 .. MaxFail

\* The physical units behind the first n units from logical address a.
Span(a, n) == {GetPhyAddr(a + k) : k \in 0 .. n - 1}

\* What a physical address holds; none past the end of the partition.
Held(a) == IF a \in Addr THEN flash[a] ELSE Unread

\* What a write call says it wrote can be read back from where it was asked to
\* go: unit k of the buffer is k units after the start, by the library's own
\* addresses, whatever blocks turned bad on the way; and a complete
\* alislsto_write with no failure leaves every other unit as it was, the ones
\* merged into its first and last erase unit included.
WriteStored ==
  \A t \in Threads : LET c == call[t] IN
    c.pc = "ret" /\ ~unmarked =>
      /\ c.op = "write" =>
           \A k \in 0 .. c.total - 1 : Held(GetPhyAddr(c.start + k)) = <<c.n, k>>
      /\ c.op \in {"write_no_erase", "lock_write"} =>
           \A k \in 0 .. c.total - 1 : Held(GetPhyAddr(c.start + k)) \in {<<c.n, k>>, Junk}
      /\ c.op = "write" /\ c.total = c.len /\ ~c.failed =>
           \A a \in Addr \ Span(c.start, c.len) : flash[a] = c.before[a]

\* A read returns what the flash holds from the address asked for, bad blocks
\* left out, although other threads move the one offset of the handle: they do
\* so under seekmutex.  The units of a failed read() are counted all the same.
ReadsAsked ==
  \A t \in Threads : LET c == call[t] IN
    c.pc = "ret" /\ c.op \in {"read", "lock_read"} /\ c.result = "none" =>
      /\ Len(c.buf) = c.total
      /\ \A k \in 0 .. c.total - 1 :
           c.buf[k + 1] = Held(GetPhyAddr(c.start + k)) \/ (c.failed /\ c.buf[k + 1] = Unread)

\* An erase that reports success has erased as many good units as asked for from
\* the start on, or every good one to the end of a partition erased as a whole;
\* and no erase touches anything else but blocks that turned bad.
EraseComplete ==
  \A t \in Threads : LET c == call[t]
                         asked == Span(c.start, Least(c.len, dev.logic - c.start)) IN
    c.pc = "ret" /\ c.op = "erase" /\ ~unmarked =>
      /\ c.result = "none" => /\ \A a \in asked : flash[a] = FF
                              /\ c.start + c.len <= dev.logic \/ c.start = 0
      /\ \A a \in Addr : flash[a] = c.before[a] \/ a \in asked \/ Block(a) \in bad

\* What the comment "To avoid death loop" of the other two loops asks for.
NoDeathLoop == \A t \in Threads : call[t].pc # "idle" ~> call[t].pc = "idle"
=============================================================================
