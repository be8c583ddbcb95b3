-------------------------- MODULE StoPart_proofs ---------------------------
(***************************************************************************)
(* The partition calls, proved for any geometry, number of threads and     *)
(* bad blocks: reads, writes and erases reach the logical addresses asked  *)
(* for, no thread waits for a mutex whose holder waits, and every loop     *)
(* but that of alislsto_write_no_erase has an end.                         *)
(***************************************************************************)
EXTENDS StoPart, FiniteSetTheorems, WellFoundedInduction, TLAPS

LEMMA Sizes ==
  /\ NB \in Nat /\ NB >= 1 /\ BS \in Nat /\ BS >= 1
  /\ Size \in Nat /\ Size >= BS /\ Size = BS * NB
  /\ Unit \in Nat /\ Unit >= 1 /\ Unit <= BS
<1>1. NB \in Nat /\ NB >= 1 /\ BS \in Nat /\ BS >= 1 /\ Sector \in Nat /\ Sector >= 1 /\ Sector <= BS
  BY SizesAreBlocks
<1>2. Size \in Nat /\ Size >= BS /\ Size = BS * NB
  BY <1>1 DEF Size
<1> QED BY <1>1, <1>2 DEF Unit

LEMMA Split ==
  ASSUME NEW d \in Nat, d >= 1, NEW a \in Nat
  PROVE  /\ a \div d \in Nat /\ a % d \in Nat /\ a % d < d
         /\ a = d * (a \div d) + (a % d) /\ a \div d <= a
OBVIOUS

LEMMA Unique ==
  ASSUME NEW d \in Nat, d >= 1, NEW q \in Nat, NEW r \in Nat, r < d
  PROVE  (d * q + r) \div d = q /\ (d * q + r) % d = r
OBVIOUS

LEMMA NatTimes == ASSUME NEW a \in Nat, NEW b \in Nat PROVE a * b \in Nat
OBVIOUS

LEMMA Least1 ==
  ASSUME NEW S, S \subseteq Nat, S # {}
  PROVE  \E x \in S : \A y \in S : x <= y
<1>1. \E x \in S : \A y \in S : ~(<<y, x>> \in OpToRel(<, Nat))
  BY NatLessThanWellFounded, WFMin
<1>2. PICK x \in S : \A y \in S : ~(<<y, x>> \in OpToRel(<, Nat))
  BY <1>1
<1>3. ASSUME NEW y \in S PROVE x <= y
  <2>1. x \in Nat /\ y \in Nat
    OBVIOUS
  <2>2. y < x => <<y, x>> \in OpToRel(<, Nat)
    BY <2>1 DEF OpToRel
  <2>3. ~(y < x)
    BY <1>2, <2>2
  <2> QED BY <2>1, <2>3
<1> QED BY <1>3

-----------------------------------------------------------------------------
(* The calls are records: what a step leaves alone of them.                *)

Fields == {"op", "pc", "n", "off", "whence", "len", "flag", "orig", "start", "total",
           "failed", "result", "buf", "before"}
Shape == DOMAIN call = Threads /\ \A t \in Threads : DOMAIN call[t] = Fields
Others(t) == \A u \in Threads : u # t => call'[u] = call[u]
Keep(t, F) == \A f \in Fields \ F : call'[t][f] = call[t][f]

LEMMA SetPc ==
  ASSUME Shape, NEW t \in Threads, NEW v, call' = [call EXCEPT ![t].pc = v]
  PROVE  Shape' /\ Others(t) /\ Keep(t, {"pc"}) /\ call'[t].pc = v
BY DEF Shape, Others, Keep, Fields

LEMMA SetPcFailed ==
  ASSUME Shape, NEW t \in Threads, NEW v, NEW w,
         call' = [call EXCEPT ![t].pc = v, ![t].failed = @ \/ w]
  PROVE  /\ Shape' /\ Others(t) /\ Keep(t, {"pc", "failed"})
         /\ call'[t].pc = v /\ (call'[t].failed <=> call[t].failed \/ w)
BY DEF Shape, Others, Keep, Fields

LEMMA SetPcResult ==
  ASSUME Shape, NEW t \in Threads, NEW v, NEW w,
         call' = [call EXCEPT ![t].pc = v, ![t].result = w]
  PROVE  /\ Shape' /\ Others(t) /\ Keep(t, {"pc", "result"})
         /\ call'[t].pc = v /\ call'[t].result = w
BY DEF Shape, Others, Keep, Fields

LEMMA SetRead ==
  ASSUME Shape, NEW t \in Threads, NEW ok \in BOOLEAN, NEW v, NEW s,
         call' = [call EXCEPT ![t].buf = v, ![t].total = @ + s, ![t].failed = @ \/ ~ok]
  PROVE  /\ Shape' /\ Others(t) /\ Keep(t, {"buf", "total", "failed"})
         /\ call'[t].buf = v /\ call'[t].total = call[t].total + s
         /\ (call'[t].failed <=> call[t].failed \/ ~ok)
BY DEF Shape, Others, Keep, Fields

LEMMA SetFailed ==
  ASSUME Shape, NEW t \in Threads, NEW v, call' = [call EXCEPT ![t].failed = v]
  PROVE  Shape' /\ Others(t) /\ Keep(t, {"failed"}) /\ call'[t].failed = v
BY DEF Shape, Others, Keep, Fields

LEMMA SetTotal ==
  ASSUME Shape, NEW t \in Threads, NEW v, call' = [call EXCEPT ![t].total = @ + v]
  PROVE  Shape' /\ Others(t) /\ Keep(t, {"total"}) /\ call'[t].total = call[t].total + v
BY DEF Shape, Others, Keep, Fields

LEMMA SetOff ==
  ASSUME Shape, NEW t \in Threads, NEW v, call' = [call EXCEPT ![t].off = @ + v]
  PROVE  Shape' /\ Others(t) /\ Keep(t, {"off"}) /\ call'[t].off = call[t].off + v
BY DEF Shape, Others, Keep, Fields

LEMMA SetOffTotal ==
  ASSUME Shape, NEW t \in Threads, NEW v, NEW w,
         call' = [call EXCEPT ![t].off = @ + v, ![t].total = @ + w]
  PROVE  /\ Shape' /\ Others(t) /\ Keep(t, {"off", "total"})
         /\ call'[t].off = call[t].off + v /\ call'[t].total = call[t].total + w
BY DEF Shape, Others, Keep, Fields

LEMMA SetCall ==
  ASSUME Shape, NEW t \in Threads, NEW r, DOMAIN r = Fields, call' = [call EXCEPT ![t] = r]
  PROVE  Shape' /\ Others(t) /\ call'[t] = r
BY DEF Shape, Others, Keep, Fields

\* A call has just begun.
Begun(r, op, pc, off, len) ==
  /\ r.op = op /\ r.pc = pc /\ r.n = calls + 1 /\ r.off = off /\ r.len = len
  /\ r.orig = 0 /\ r.total = 0 /\ r.failed = FALSE /\ r.result = "none"
  /\ r.buf = <<>> /\ r.before = flash

LEMMA Entered ==
  ASSUME NEW t, NEW op, NEW pc, NEW off, NEW len
  PROVE  LET r == Enter(t, op, pc, off, len)
         IN DOMAIN r = Fields /\ Begun(r, op, pc, off, len) /\ r.start = GetLogicAddr(dev.offset)
BY DEF Enter, Idle, Fields, Begun

LEMMA EnteredErase ==
  ASSUME NEW t, NEW op, NEW pc, NEW off, NEW len, NEW v
  PROVE  LET r == [Enter(t, op, pc, off, len) EXCEPT !.start = v]
         IN DOMAIN r = Fields /\ Begun(r, op, pc, off, len) /\ r.start = v
BY DEF Enter, Idle, Fields, Begun

LEMMA IdleFields == DOMAIN Idle = Fields
BY DEF Idle, Fields

-----------------------------------------------------------------------------
(* The inductive invariant of the types.                                   *)

DevOK == dev \in [open_cnt : Nat, offset : 0 .. Size + BS, bad_map : SUBSET Blocks,
                  bad_cnt : Nat, logic : Int]

\* The handle's copy of the bad block table, and how many blocks can be in it.
MapOK ==
  /\ bad \subseteq Blocks
  /\ users # {} => /\ dev.bad_map = bad /\ dev.bad_cnt = Cardinality(bad)
                   /\ dev.logic = Size - BS * Cardinality(bad)
  /\ Cardinality(bad) <= MaxBad + fails
  /\ kind = "nor" => bad = {}

UsersOK ==
  users \subseteq Threads /\ IsFiniteSet(users) /\ dev.open_cnt = Cardinality(users)

CountsOK == calls \in 0 .. MaxCalls /\ fails \in 0 .. MaxFail

\* What the operation and the place in the code say of a call.
CallOK(t) ==
  LET c == call[t] IN
  /\ c.op \in Ops /\ c.pc \in Pcs /\ c.len \in Nat /\ c.total \in Nat /\ c.total <= c.len
  /\ c.n \in 0 .. MaxCalls /\ c.orig \in 0 .. Size + BS /\ c.off \in Int
  /\ c.pc = "idle" <=> c.op = "none"
  /\ c.op \in Locking => c.whence \in Whences \cup {"ext", "bad"}
  /\ c.pc = "seeklock" => c.op \in Locking
  /\ c.pc = "read" => c.op \in {"read", "lock_read"}
  /\ c.pc = "wrlock" => c.op \in {"write", "write_no_erase", "lock_write"}
  /\ c.pc = "write" => c.op = "write"
  /\ c.pc \in {"noerase", "spin"} => c.op \in {"write_no_erase", "lock_write"}
  /\ c.pc = "erase" => c.op = "erase" /\ c.off >= 0 /\ c.total <= c.len \div Unit
  /\ c.pc \in {"seeklock", "wrlock"} => c.total = 0 /\ c.buf = <<>>

\* What a call holds.
Holds(t) ==
  /\ call[t].pc # "idle" => t \in users
  /\ seekmx = t <=> call[t].op \in Locking /\ call[t].pc # "seeklock"
  /\ call[t].pc \in {"write", "noerase", "spin"} => wrmx = t

\* The offset of the handle while a call writes: it has moved over at least what
\* was written, and from the second round on it is at the start of an erase unit.
Moved(t) ==
  /\ call[t].pc \in {"write", "noerase"} => call[t].total <= dev.offset
  /\ call[t].pc = "write" => call[t].total \in {0, call[t].len} \/ dev.offset % Unit = 0

\* A call that has not begun or waits for seekmutex touches nothing.
Waits(t) == call[t].pc \in {"idle", "seeklock"}

Alone ==
  \A t, u \in Threads : t # u =>
    /\ Waits(t) \/ Waits(u)
    /\ call[t].op \in Locking \cup {"none"} \/ call[u].pc = "idle"

Calls == \A t \in Threads : CallOK(t) /\ Holds(t) /\ Moved(t)

Inv ==
  /\ kind \in {"nand", "nor"} /\ flash \in [Addr -> Cell] /\ unmarked \in BOOLEAN
  /\ DevOK /\ MapOK /\ UsersOK /\ CountsOK
  /\ Shape /\ Calls /\ Alone

LEMMA LoopCalls ==
  ASSUME Inv, NEW t \in Threads, ~Waits(t), Others(t), call'[t].op = call[t].op,
         call'[t].pc \in {call[t].pc, "ret", "spin"}, call'[t].pc = "spin" => wrmx = t,
         UNCHANGED <<kind, users, seekmx, wrmx>>, CallOK(t)', Moved(t)'
  PROVE  Calls' /\ Alone'
<1>1. call[t].op # "none" /\ call[t].pc \notin {"idle", "seeklock"}
      /\ call'[t].pc \notin {"idle", "seeklock"}
  BY DEF Inv, Calls, CallOK, Waits
<1>2. ASSUME NEW u \in Threads, u # t PROVE Waits(u) /\ call'[u] = call[u]
  BY <1>2 DEF Inv, Alone, Others
<1>3. ASSUME NEW u \in Threads, u # t PROVE CallOK(u)' /\ Moved(u)' /\ Holds(u)'
  <2>1. CallOK(u)'
    <3>1. CallOK(u)
      BY DEF Inv, Calls
    <3>2. Unit' = Unit
      BY DEF Unit
    <3> QED BY <1>2, <1>3, <3>1, <3>2 DEF CallOK
  <2>2. Moved(u)'
    BY <1>2, <1>3 DEF Moved, Waits
  <2>3. Holds(u)'
    BY <1>2, <1>3 DEF Inv, Calls, Holds
  <2> QED BY <2>1, <2>2, <2>3
<1>4. Holds(t)'
  BY <1>1 DEF Inv, Calls, Holds
<1>5. Calls'
  BY <1>3, <1>4 DEF Calls
<1>6. Alone'
  BY <1>1, <1>2 DEF Inv, Alone, Waits
<1> QED BY <1>5, <1>6

-----------------------------------------------------------------------------
(* The steps, one lemma for each, preserve Inv.                            *)

LEMMA BlockOf ==
  ASSUME NEW a \in Nat
  PROVE  /\ Block(a) \in Nat /\ a % BS \in Nat /\ a % BS < BS
         /\ a = BS * Block(a) + (a % BS)
         /\ a < Size <=> Block(a) \in Blocks
<1>1. Block(a) \in Nat /\ a % BS \in Nat /\ a % BS < BS /\ a = BS * Block(a) + (a % BS)
  BY Sizes, Split DEF Block
<1>2. ASSUME Block(a) <= NB - 1 PROVE a < Size
  <2>1. BS * Block(a) <= BS * (NB - 1)
    BY <1>1, <1>2, Sizes
  <2> QED BY <2>1, <1>1, Sizes
<1>3. ASSUME Block(a) >= NB PROVE a >= Size
  <2>1. BS * Block(a) >= BS * NB
    BY <1>1, <1>3, Sizes
  <2> QED BY <2>1, <1>1, Sizes
<1> QED BY <1>1, <1>2, <1>3, Sizes DEF Blocks

LEMMA BadFinite ==
  ASSUME MapOK, CountsOK
  PROVE  IsFiniteSet(bad) /\ Cardinality(bad) \in Nat /\ Cardinality(bad) < NB
<1>1. IsFiniteSet(Blocks)
  BY Sizes, FS_Interval DEF Blocks
<1>2. IsFiniteSet(bad)
  BY <1>1, FS_Subset DEF MapOK
<1> QED BY <1>2, FS_CardinalityType, SizesAreBlocks DEF MapOK, CountsOK

LEMMA LogicBound ==
  ASSUME MapOK, CountsOK, users # {}
  PROVE  dev.logic \in Nat /\ dev.logic >= BS /\ dev.logic <= Size
<1>1. BS * Cardinality(bad) <= BS * (NB - 1) /\ BS * Cardinality(bad) >= 0
  BY BadFinite, Sizes
<1> QED BY <1>1, BadFinite, Sizes DEF MapOK

LEMMA GoodType ==
  ASSUME NEW b
  PROVE  GoodBefore(b) \in Nat /\ IsFiniteSet({c \in Blocks : c < b /\ c \notin dev.bad_map})
<1>1. IsFiniteSet(Blocks)
  BY Sizes, FS_Interval DEF Blocks
<1>2. IsFiniteSet({c \in Blocks : c < b /\ c \notin dev.bad_map})
  BY <1>1, FS_Subset
<1> QED BY <1>2, FS_CardinalityType DEF GoodBefore

LEMMA LogicType ==
  ASSUME NEW a \in Nat
  PROVE  GetLogicAddr(a) \in Nat
<1>1. GoodBefore(Block(a)) \in Nat
  BY GoodType
<1>2. BS * GoodBefore(Block(a)) \in Nat
  BY <1>1, Sizes
<1> QED BY <1>2, BlockOf DEF GetLogicAddr

LEMMA PhyType ==
  ASSUME NEW a \in Nat, (dev.bad_cnt = 0 \/ kind # "nand") => a <= Size + BS
  PROVE  GetPhyAddr(a) \in 0 .. Size + BS
<1> DEFINE hits == {c \in Blocks : c \notin dev.bad_map /\ GoodBefore(c) = a \div BS}
           b == IF hits = {} THEN NB ELSE CHOOSE c \in hits : TRUE
<1>1. b \in Nat /\ b <= NB
  BY Sizes DEF Blocks
<1>2. BS * b \in Nat /\ BS * b <= BS * NB
  <2> HIDE DEF b
  <2> QED BY <1>1, Sizes
<1>3. BS * b + (a % BS) \in 0 .. Size + BS
  <2> HIDE DEF b
  <2>1. a % BS \in Nat /\ a % BS < BS
    BY BlockOf
  <2> QED BY <1>2, <2>1, Sizes
<1>4. CASE dev.bad_cnt = 0 \/ kind # "nand"
  BY <1>4, Sizes DEF GetPhyAddr
<1>5. CASE ~(dev.bad_cnt = 0 \/ kind # "nand")
  BY <1>3, <1>5 DEF GetPhyAddr
<1> QED BY <1>4, <1>5

LEMMA SeekType ==
  ASSUME NEW from \in Nat, NEW limit \in Nat, limit >= 1, NEW off \in Int, NEW w \in Whences
  PROVE  LET a == SeekTo(from, limit, off, w)
         IN a \in Nat /\ (a < limit \/ a = from)
BY DEF SeekTo, Whences

LEMMA SeekHandle ==
  ASSUME NEW from \in Nat, NEW off \in Int, NEW w \in Whences
  PROVE  LET a == SeekTo(from, Size, off, w) IN a \in Nat /\ (a < Size \/ a = from)
<1>1. Size \in Nat /\ Size >= 1
  BY Sizes
<1> QED BY <1>1, SeekType

LEMMA CellFacts ==
  FF \in Cell /\ Junk \in Cell
  /\ \A n \in 0 .. MaxCalls, k \in 0 .. Size : <<n, k>> \in Cell
BY DEF Cell

LEMMA OpenInv == ASSUME Inv, NEW t \in Threads, Open(t) PROVE Inv'
<1>1. UNCHANGED <<kind, flash, bad, unmarked, seekmx, wrmx, call, calls, fails>>
      /\ users' = users \cup {t} /\ t \notin users
  BY DEF Open
<1>2. users' \subseteq Threads /\ IsFiniteSet(users') /\ Cardinality(users') = Cardinality(users) + 1
      /\ Cardinality(users) \in Nat /\ users' # {} /\ (Cardinality(users) = 0 <=> users = {})
  BY <1>1, FS_AddElement, FS_CardinalityType, FS_EmptySet DEF Inv, UsersOK
<1>3. CASE dev.open_cnt > 0
  <2>1. dev' = [dev EXCEPT !.open_cnt = @ + 1]
    BY <1>3 DEF Open
  <2>2. DevOK' /\ dev'.open_cnt = dev.open_cnt + 1 /\ dev'.offset = dev.offset
        /\ dev'.bad_map = dev.bad_map /\ dev'.bad_cnt = dev.bad_cnt /\ dev'.logic = dev.logic
    BY <2>1 DEF Inv, DevOK, Blocks
  <2>3. users # {}
    BY <1>2, <1>3 DEF Inv, UsersOK
  <2>4. MapOK' /\ UsersOK' /\ CountsOK'
    BY <1>1, <1>2, <2>2, <2>3 DEF Inv, MapOK, UsersOK, CountsOK, Size, Blocks
  <2>5. Calls' /\ Alone' /\ Shape'
    BY <1>1, <2>2 DEF Inv, Calls, Alone, Shape, CallOK, Holds, Moved, Waits, Unit
  <2> QED BY <1>1, <2>2, <2>4, <2>5 DEF Inv
<1>4. CASE ~(dev.open_cnt > 0)
  <2> DEFINE found == IF kind = "nand" THEN bad ELSE {}
  <2>1. found = bad
    BY DEF Inv, MapOK
  <2>2. dev' = [open_cnt |-> 1, offset |-> 0, bad_map |-> bad,
                bad_cnt |-> Cardinality(bad), logic |-> Size - BS * Cardinality(bad)]
    BY <1>4, <2>1 DEF Open
  <2>3. users = {} /\ Cardinality(users) = 0
    BY <1>2, <1>4 DEF Inv, UsersOK
  <2>4. Cardinality(bad) \in Nat /\ BS * Cardinality(bad) \in Nat /\ bad \subseteq Blocks
    BY BadFinite, Sizes DEF Inv, MapOK
  <2>5. DevOK'
    BY <2>2, <2>4, Sizes DEF DevOK
  <2>6. MapOK' /\ UsersOK' /\ CountsOK'
    BY <1>1, <1>2, <2>2, <2>3 DEF Inv, MapOK, UsersOK, CountsOK, Size, Blocks
  <2>7. \A u \in Threads : call[u].pc = "idle"
    BY <2>3 DEF Inv, Calls, Holds
  <2>8. Calls' /\ Alone' /\ Shape'
    BY <1>1, <2>7 DEF Inv, Calls, Alone, Shape, CallOK, Holds, Moved, Waits, Unit
  <2> QED BY <1>1, <2>5, <2>6, <2>8 DEF Inv
<1> QED BY <1>3, <1>4

LEMMA CloseInv == ASSUME Inv, NEW t \in Threads, Close(t) PROVE Inv'
<1>1. UNCHANGED <<kind, flash, bad, unmarked, seekmx, wrmx, call, calls, fails>>
      /\ users' = users \ {t} /\ t \in users /\ call[t].pc = "idle"
  BY DEF Close
<1>2. users' \subseteq Threads /\ IsFiniteSet(users') /\ Cardinality(users') = Cardinality(users) - 1
      /\ Cardinality(users) \in Nat /\ Cardinality(users') \in Nat
      /\ (Cardinality(users') = 0 <=> users' = {})
  BY <1>1, FS_RemoveElement, FS_CardinalityType, FS_EmptySet DEF Inv, UsersOK
<1>3. CASE dev.open_cnt > 1
  <2>1. dev' = [dev EXCEPT !.open_cnt = @ - 1]
    BY <1>3 DEF Close
  <2>2. DevOK' /\ dev'.open_cnt = dev.open_cnt - 1 /\ dev'.offset = dev.offset
        /\ dev'.bad_map = dev.bad_map /\ dev'.bad_cnt = dev.bad_cnt /\ dev'.logic = dev.logic
    BY <1>3, <2>1 DEF Inv, DevOK, Blocks
  <2>4. MapOK' /\ UsersOK' /\ CountsOK'
    BY <1>1, <1>2, <2>2 DEF Inv, MapOK, UsersOK, CountsOK, Size, Blocks
  <2>5. Calls' /\ Alone' /\ Shape'
    BY <1>1, <2>2 DEF Inv, Calls, Alone, Shape, CallOK, Holds, Moved, Waits, Unit
  <2> QED BY <1>1, <2>2, <2>4, <2>5 DEF Inv
<1>4. CASE ~(dev.open_cnt > 1)
  <2>1. dev' = NoDev /\ Cardinality(users') = 0 /\ users' = {}
    BY <1>1, <1>2, <1>4 DEF Inv, UsersOK, Close
  <2>2. DevOK' /\ dev'.open_cnt = 0
    BY <2>1, Sizes DEF DevOK, NoDev
  <2>3. MapOK' /\ UsersOK' /\ CountsOK'
    BY <1>1, <1>2, <2>1, <2>2 DEF Inv, MapOK, UsersOK, CountsOK, Size, Blocks
  <2>4. \A u \in Threads : call[u].pc = "idle"
    BY <1>1, <2>1 DEF Inv, Calls, Holds
  <2>5. Calls' /\ Alone' /\ Shape'
    BY <1>1, <2>4 DEF Inv, Calls, Alone, Shape, CallOK, Holds, Moved, Waits, Unit
  <2> QED BY <1>1, <2>2, <2>3, <2>5 DEF Inv
<1> QED BY <1>3, <1>4

LEMMA OffsetSet ==
  ASSUME DevOK, NEW x \in 0 .. Size + BS, dev' = [dev EXCEPT !.offset = x]
  PROVE  /\ DevOK' /\ dev'.offset = x /\ dev'.open_cnt = dev.open_cnt
         /\ dev'.bad_map = dev.bad_map /\ dev'.bad_cnt = dev.bad_cnt /\ dev'.logic = dev.logic
BY DEF DevOK, Blocks, Size

LEMMA OffsetKeepsMap ==
  ASSUME Inv, NEW x \in 0 .. Size + BS, dev' = [dev EXCEPT !.offset = x],
         UNCHANGED <<kind, bad, users>>, fails' = fails \/ MayFail, calls' \in 0 .. MaxCalls
  PROVE  DevOK' /\ MapOK' /\ UsersOK' /\ CountsOK'
<1>1. DevOK' /\ dev'.open_cnt = dev.open_cnt
      /\ dev'.bad_map = dev.bad_map /\ dev'.bad_cnt = dev.bad_cnt /\ dev'.logic = dev.logic
  BY OffsetSet DEF Inv
<1>2. CountsOK' /\ fails' >= fails /\ fails' \in Nat
  BY SizesAreBlocks DEF Inv, CountsOK, MayFail
<1>3. Cardinality(bad) <= MaxBad + fails'
  BY <1>2, BadFinite, SizesAreBlocks DEF Inv, MapOK, CountsOK
<1> QED BY <1>1, <1>2, <1>3 DEF Inv, MapOK, UsersOK, Size, Blocks

LEMMA FailKeepsMap ==
  ASSUME Inv, UNCHANGED <<kind, bad, users, dev>>, fails' = fails \/ MayFail, calls' \in 0 .. MaxCalls
  PROVE  DevOK' /\ MapOK' /\ UsersOK' /\ CountsOK'
<1>2. CountsOK' /\ fails' >= fails /\ fails' \in Nat
  BY SizesAreBlocks DEF Inv, CountsOK, MayFail
<1>3. Cardinality(bad) <= MaxBad + fails'
  BY <1>2, BadFinite, SizesAreBlocks DEF Inv, MapOK, CountsOK
<1> QED BY <1>2, <1>3 DEF Inv, MapOK, UsersOK, DevOK, Size, Blocks

LEMMA LseekInv ==
  ASSUME Inv, NEW t \in Threads, NEW off \in Int, NEW w \in Whences, Lseek(t, off, w)
  PROVE  Inv'
<1>1. UNCHANGED <<kind, flash, bad, unmarked, users, seekmx, wrmx, call, fails>>
      /\ t \in users /\ calls' \in 0 .. MaxCalls
  BY SizesAreBlocks DEF Lseek, MayCall, Inv, CountsOK
<1>2. \A u \in Threads : call[u].pc = "idle"
  BY DEF Lseek, MayCall, Locking
<1>3. dev.offset \in Nat /\ dev.offset <= Size + BS
  BY Sizes DEF Inv, DevOK
<1>4. SeekTo(dev.offset, Size, off, w) \in 0 .. Size + BS
  <2>1. PICK a : a = SeekTo(dev.offset, Size, off, w)
    OBVIOUS
  <2>2. a \in Nat /\ (a < Size \/ a = dev.offset)
    BY <1>3, <2>1, SeekHandle
  <2> QED BY <1>3, <2>1, <2>2, Sizes
<1>5. GetPhyAddr(SeekTo(GetLogicAddr(dev.offset), dev.logic, off, w)) \in 0 .. Size + BS
  <2> DEFINE from == GetLogicAddr(dev.offset)
             a == SeekTo(from, dev.logic, off, w)
  <2>1. dev.logic \in Nat /\ dev.logic >= 1 /\ dev.logic <= Size
    BY <1>1, LogicBound, Sizes DEF Inv
  <2>2. from \in Nat
    BY <1>3, LogicType
  <2>3. a \in Nat /\ (a < dev.logic \/ a = from)
    <3> HIDE DEF from
    <3> QED BY <2>1, <2>2, SeekType
  <2>4. (dev.bad_cnt = 0 \/ kind # "nand") => a <= Size + BS
    <3>1. (dev.bad_cnt = 0 \/ kind # "nand") => from = dev.offset
      BY DEF GetLogicAddr
    <3> QED BY <3>1, <2>1, <2>3, <1>3, Sizes
  <2> HIDE DEF a
  <2>5. GetPhyAddr(a) \in 0 .. Size + BS
    BY <2>3, <2>4, PhyType
  <2> QED BY <2>5 DEF a
<1>6. PICK x \in 0 .. Size + BS : dev' = [dev EXCEPT !.offset = x]
  BY <1>4, <1>5 DEF Lseek
<1>7. DevOK' /\ MapOK' /\ UsersOK' /\ CountsOK'
  BY <1>1, <1>6, OffsetKeepsMap
<1>8. Calls' /\ Alone' /\ Shape'
  BY <1>1, <1>2 DEF Inv, Calls, Alone, Shape, CallOK, Holds, Moved, Waits, Unit
<1> QED BY <1>1, <1>7, <1>8 DEF Inv

\* Where each operation begins.
Entry(op, pc) ==
  \/ op = "read" /\ pc = "read"
  \/ op \in {"write", "write_no_erase"} /\ pc = "wrlock"
  \/ op = "erase" /\ pc = "erase"
  \/ op \in Locking /\ pc = "seeklock"

LEMMA BeganInv ==
  ASSUME Inv, NEW t \in Threads, NEW op, NEW pc, NEW off \in Int, NEW len \in Nat,
         MayCall(t, op), Entry(op, pc), Begun(call'[t], op, pc, off, len),
         op = "erase" => off >= 0,
         op \in Locking => call'[t].whence \in Whences \cup {"ext", "bad"},
         Shape', Others(t),
         UNCHANGED <<kind, flash, bad, unmarked, dev, users, seekmx, wrmx, fails>>
  PROVE  Inv'
<1>1. calls' \in 0 .. MaxCalls /\ calls' = calls + 1 /\ t \in users /\ call[t].pc = "idle"
  BY SizesAreBlocks DEF MayCall, Inv, CountsOK
<1>2. DevOK' /\ MapOK' /\ UsersOK' /\ CountsOK'
  BY <1>1, FailKeepsMap
<1>3. CallOK(t)'
  <2>1. 0 <= len \div Unit /\ Unit' = Unit
    BY Split, Sizes DEF Unit
  <2>2. op \in Ops /\ op # "none" /\ pc \in Pcs /\ pc # "idle"
    BY DEF Entry, Ops, Pcs, Locking
  <2>3. 0 \in 0 .. Size + BS
    BY Sizes
  <2> QED BY <1>1, <2>1, <2>2, <2>3 DEF CallOK, Begun, Entry, Locking
<1>4. Holds(t)' /\ Moved(t)'
  BY <1>1 DEF Inv, Calls, Holds, Moved, CallOK, Begun, Entry, Locking
<1>5. ASSUME NEW u \in Threads, u # t
      PROVE  call'[u] = call[u] /\ CallOK(u)' /\ Holds(u)' /\ Moved(u)'
  <2>1. call'[u] = call[u]
    BY <1>5 DEF Others
  <2>2. CallOK(u) /\ Holds(u) /\ Moved(u) /\ Unit' = Unit
    BY DEF Inv, Calls, Unit
  <2>3. CallOK(u)'
    BY <2>1, <2>2 DEF CallOK
  <2>4. Holds(u)' /\ Moved(u)'
    BY <2>1, <2>2 DEF Holds, Moved
  <2> QED BY <2>1, <2>3, <2>4
<1>6. Calls'
  BY <1>3, <1>4, <1>5 DEF Calls
<1>7. Alone'
  <2>1. ASSUME NEW u \in Threads, u # t
        PROVE  (Waits(t)' \/ Waits(u)')
               /\ (call'[t].op \in Locking \cup {"none"} \/ call'[u].pc = "idle")
               /\ (call'[u].op \in Locking \cup {"none"} \/ call'[t].pc = "idle")
    <3>1. call[u].pc = "idle" \/ (op \in Locking /\ call[u].op \in Locking)
      BY <2>1 DEF MayCall
    <3>2. call[u].pc = "idle" => call[u].op = "none"
      BY DEF Inv, Calls, CallOK
    <3> QED BY <1>5, <2>1, <3>1, <3>2 DEF Begun, Entry, Waits, Locking
  <2> QED BY <1>5, <2>1 DEF Inv, Alone, Waits
<1> QED BY <1>2, <1>6, <1>7 DEF Inv, Cell, Addr, Size

LEMMA ReadInv == ASSUME Inv, NEW t \in Threads, NEW len \in Lens, Read(t, len) PROVE Inv'
<1>1. len \in Nat
  BY SizesAreBlocks
<1>2. Shape' /\ Others(t) /\ Begun(call'[t], "read", "read", 0, len)
  <2> DEFINE r == Enter(t, "read", "read", 0, len)
  <2>1. DOMAIN r = Fields /\ Begun(r, "read", "read", 0, len)
    BY Entered
  <2>2. call' = [call EXCEPT ![t] = r]
    BY DEF Read
  <2> HIDE DEF r
  <2> QED BY <2>1, <2>2, SetCall DEF Inv
<1> QED BY <1>1, <1>2, BeganInv DEF Read, Entry, Locking

LEMMA WriteInv ==
  ASSUME Inv, NEW t \in Threads, NEW op, NEW len \in Lens, Write(t, op, len) PROVE Inv'
<1>1. len \in Nat
  BY SizesAreBlocks
<1>2. Shape' /\ Others(t) /\ Begun(call'[t], op, "wrlock", 0, len)
  <2> DEFINE r == Enter(t, op, "wrlock", 0, len)
  <2>1. DOMAIN r = Fields /\ Begun(r, op, "wrlock", 0, len)
    BY Entered
  <2>2. call' = [call EXCEPT ![t] = r]
    BY DEF Write
  <2> HIDE DEF r
  <2> QED BY <2>1, <2>2, SetCall DEF Inv
<1> QED BY <1>1, <1>2, BeganInv DEF Write, Entry, Locking

LEMMA EraseInv ==
  ASSUME Inv, NEW t \in Threads, NEW off \in 0 .. Size, NEW len \in 1 .. Size, Erase(t, off, len)
  PROVE  Inv'
<1>1. off \in Int /\ off >= 0 /\ len \in Nat
  BY Sizes
<1>2. Shape' /\ Others(t) /\ Begun(call'[t], "erase", "erase", off, len)
  <2> DEFINE r == [Enter(t, "erase", "erase", off, len) EXCEPT !.start = GetLogicAddr(off)]
  <2>1. DOMAIN r = Fields /\ Begun(r, "erase", "erase", off, len)
    BY EnteredErase
  <2>2. call' = [call EXCEPT ![t] = r]
    BY DEF Erase
  <2> HIDE DEF r
  <2> QED BY <2>1, <2>2, SetCall DEF Inv
<1> QED BY <1>1, <1>2, BeganInv DEF Erase, Entry, Locking

LEMMA LockCallInv ==
  ASSUME Inv, NEW t \in Threads, NEW op \in Locking, NEW off \in Int,
         NEW w \in Whences \cup {"ext", "bad"}, NEW len \in Lens, NEW flag,
         LockCall(t, op, off, w, len, flag)
  PROVE  Inv'
<1>1. len \in Nat
  BY SizesAreBlocks
<1>2. Shape' /\ Others(t) /\ Begun(call'[t], op, "seeklock", off, len) /\ call'[t].whence = w
  <2> DEFINE r == [Enter(t, op, "seeklock", off, len) EXCEPT !.whence = w, !.flag = flag]
  <2>1. DOMAIN r = Fields /\ Begun(r, op, "seeklock", off, len) /\ r.whence = w
    BY DEF Enter, Idle, Fields, Begun
  <2>2. call' = [call EXCEPT ![t] = r]
    BY DEF LockCall
  <2> HIDE DEF r
  <2> QED BY <2>1, <2>2, SetCall DEF Inv
<1> QED BY <1>1, <1>2, BeganInv DEF LockCall, Entry, Locking

LEMMA LockSeekInv == ASSUME Inv, NEW t \in Threads, LockSeek(t) PROVE Inv'
<1> DEFINE c == call[t]
           to == SeekTo(dev.offset, Size, c.off, c.whence)
<1>1. UNCHANGED <<kind, flash, bad, unmarked, users, wrmx, calls, fails>>
      /\ seekmx' = t /\ seekmx = "nobody" /\ call[t].pc = "seeklock"
  BY DEF LockSeek, SeekFree, Nobody
<1>2. c.op \in Locking /\ c.whence \in Whences \cup {"ext", "bad"} /\ c.off \in Int
      /\ c.total = 0 /\ c.buf = <<>>
  BY <1>1 DEF Inv, Calls, CallOK
<1>3. dev.offset \in 0 .. Size + BS /\ calls \in 0 .. MaxCalls
  BY DEF Inv, DevOK, CountsOK
\* No other call is past seekmutex.
<1>4. ASSUME NEW u \in Threads, u # t
      PROVE  Waits(u) /\ seekmx # u /\ call[u].op \in Locking \cup {"none"}
  <2>1. call[u].op \in Locking \cup {"none"}
    BY <1>1, <1>4 DEF Inv, Alone
  <2>2. call[u].op = "none" => call[u].pc = "idle"
    BY DEF Inv, Calls, CallOK
  <2>3. seekmx # u
    BY <1>1, KindsAndThreads
  <2>4. call[u].op \in Locking => call[u].pc = "seeklock"
    BY <2>3 DEF Inv, Calls, Holds
  <2> QED BY <2>1, <2>2, <2>3, <2>4 DEF Waits
<1>5. /\ Shape' /\ Others(t) /\ call'[t].pc \in {"ret", "read", "wrlock"}
      /\ call'[t].pc = "read" => c.op = "lock_read"
      /\ call'[t].pc = "wrlock" => c.op = "lock_write"
      /\ call'[t].orig = dev.offset /\ Keep(t, {"orig", "start", "before", "pc", "result"})
      /\ DevOK' /\ MapOK' /\ UsersOK' /\ CountsOK'
  <2>1. CASE c.whence \in {"ext", "bad"}
    <3>1. /\ dev' = dev
          /\ call' = [call EXCEPT ![t].pc = "ret", ![t].orig = dev.offset,
                                  ![t].result = IF c.whence = "ext" THEN "driver" ELSE "none"]
      BY <2>1 DEF LockSeek
    <3>2. Shape' /\ Others(t) /\ call'[t].pc = "ret" /\ call'[t].orig = dev.offset
          /\ Keep(t, {"pc", "orig", "result"})
      BY <3>1 DEF Inv, Shape, Others, Keep, Fields
    <3>3. DevOK' /\ MapOK' /\ UsersOK' /\ CountsOK'
      BY <1>1, <1>3, <3>1, FailKeepsMap
    <3> QED BY <3>2, <3>3 DEF Keep
  <2>2. CASE c.whence \notin {"ext", "bad"}
    <3>1. /\ dev' = [dev EXCEPT !.offset = to]
          /\ call' = [call EXCEPT ![t].orig = dev.offset, ![t].start = GetLogicAddr(to),
                                  ![t].before = flash,
                                  ![t].pc = IF c.op = "lock_read" THEN "read" ELSE "wrlock"]
      BY <2>2 DEF LockSeek
    <3>2. Shape' /\ Others(t) /\ call'[t].pc = (IF c.op = "lock_read" THEN "read" ELSE "wrlock")
          /\ call'[t].orig = dev.offset /\ Keep(t, {"orig", "start", "before", "pc"})
      BY <3>1 DEF Inv, Shape, Others, Keep, Fields
    <3>3. to \in 0 .. Size + BS
      <4>1. c.whence \in Whences /\ c.off \in Int /\ dev.offset \in Nat
        BY <1>2, <1>3, <2>2, Sizes
      <4>2. to \in Nat /\ (to < Size \/ to = dev.offset)
        BY <4>1, SeekHandle
      <4> HIDE DEF to
      <4> QED BY <1>3, <4>2, Sizes
    <3>4. DevOK' /\ MapOK' /\ UsersOK' /\ CountsOK'
      BY <1>1, <1>3, <3>1, <3>3, OffsetKeepsMap
    <3> QED BY <1>2, <3>2, <3>4 DEF Keep, Locking
  <2> QED BY <2>1, <2>2
<1>6. CallOK(t)'
  <2>1. /\ call'[t].op = c.op /\ call'[t].total = c.total /\ call'[t].buf = c.buf
        /\ call'[t].len = c.len /\ call'[t].n = c.n /\ call'[t].off = c.off
        /\ call'[t].whence = c.whence
    BY <1>5 DEF Keep, Fields
  <2> QED BY <1>1, <1>2, <1>3, <1>5, <2>1 DEF Inv, Calls, CallOK, Locking, Pcs
<1>7. call'[t].op = c.op
  BY <1>5 DEF Keep, Fields
<1>8. Holds(t)' /\ Moved(t)'
  BY <1>1, <1>2, <1>5, <1>7 DEF Inv, Calls, Holds, Moved
<1>9. ASSUME NEW u \in Threads, u # t
      PROVE  call'[u] = call[u] /\ CallOK(u)' /\ Holds(u)' /\ Moved(u)'
  <2>1. call'[u] = call[u]
    BY <1>5, <1>9 DEF Others
  <2>2. CallOK(u)'
    BY <1>1, <2>1 DEF Inv, Calls, CallOK, Unit
  <2>3. Holds(u)' /\ Moved(u)'
    BY <1>1, <1>4, <1>9, <2>1 DEF Inv, Calls, Holds, Moved, Waits
  <2> QED BY <2>1, <2>2, <2>3
<1>10. Calls'
  BY <1>6, <1>8, <1>9 DEF Calls
<1>11. Alone'
  BY <1>2, <1>4, <1>7, <1>9 DEF Inv, Alone, Waits
<1> QED BY <1>1, <1>5, <1>10, <1>11 DEF Inv, Cell, Addr, Size

LEMMA LockWrInv == ASSUME Inv, NEW t \in Threads, LockWr(t) PROVE Inv'
<1>1. UNCHANGED <<kind, flash, bad, unmarked, dev, users, seekmx, calls, fails>>
      /\ wrmx' = t /\ call[t].pc = "wrlock"
  BY DEF LockWr
<1>2. Shape' /\ Others(t) /\ Keep(t, {"pc"})
      /\ call'[t].pc = IF call[t].op = "write" THEN "write" ELSE "noerase"
  BY SetPc DEF Inv, LockWr
<1>3. /\ call'[t].op = call[t].op /\ call'[t].total = call[t].total /\ call'[t].buf = call[t].buf
      /\ call'[t].len = call[t].len /\ call'[t].n = call[t].n /\ call'[t].off = call[t].off
      /\ call'[t].whence = call[t].whence /\ call'[t].orig = call[t].orig
  BY <1>2 DEF Keep, Fields
<1>4. CallOK(t)'
  BY <1>1, <1>2, <1>3 DEF Inv, Calls, CallOK, Pcs
<1>5. Holds(t)'
  BY <1>1, <1>2, <1>3 DEF Inv, Calls, Holds
<1>6. Moved(t)'
  <2>1. call[t].total = 0 /\ dev.offset >= 0
    BY <1>1 DEF Inv, Calls, CallOK, DevOK
  <2> QED BY <1>1, <1>3, <2>1 DEF Moved
<1>7. ASSUME NEW u \in Threads, u # t
      PROVE  call'[u] = call[u] /\ Waits(u) /\ CallOK(u)' /\ Holds(u)' /\ Moved(u)'
  <2>1. call'[u] = call[u] /\ Waits(u)
    BY <1>1, <1>2, <1>7 DEF Others, Inv, Alone, Waits
  <2>2. CallOK(u)'
    BY <1>1, <2>1 DEF Inv, Calls, CallOK, Unit
  <2>3. Holds(u)' /\ Moved(u)'
    BY <1>1, <2>1 DEF Inv, Calls, Holds, Moved, Waits
  <2> QED BY <2>1, <2>2, <2>3
<1>8. Calls'
  BY <1>4, <1>5, <1>6, <1>7 DEF Calls
<1>9. Alone'
  BY <1>1, <1>2, <1>3, <1>7 DEF Inv, Alone, Waits
<1>10. DevOK' /\ MapOK' /\ UsersOK' /\ CountsOK'
  BY <1>1, FailKeepsMap DEF Inv, CountsOK
<1> QED BY <1>1, <1>2, <1>8, <1>9, <1>10 DEF Inv, Cell, Addr, Size

LEMMA ReturnInv == ASSUME Inv, NEW t \in Threads, Return(t) PROVE Inv'
<1>1. UNCHANGED <<kind, flash, bad, unmarked, users, calls, fails>>
      /\ call[t].pc = "ret"
      /\ seekmx' = (IF seekmx = t THEN Nobody ELSE seekmx)
      /\ wrmx' = (IF wrmx = t THEN Nobody ELSE wrmx)
  BY DEF Return
<1>2. Shape' /\ Others(t) /\ call'[t] = Idle
  BY SetCall, IdleFields DEF Inv, Return
<1>3. CallOK(t)' /\ call'[t].op = "none" /\ call'[t].pc = "idle"
  BY <1>2, Sizes, SizesAreBlocks DEF Idle, CallOK, Ops, Pcs, Locking
<1>4. Holds(t)' /\ Moved(t)'
  BY <1>1, <1>3, KindsAndThreads DEF Holds, Moved, Locking, Nobody
<1>5. ASSUME NEW u \in Threads, u # t
      PROVE  call'[u] = call[u] /\ Waits(u) /\ CallOK(u)' /\ Holds(u)' /\ Moved(u)'
  <2>1. call'[u] = call[u] /\ Waits(u)
    BY <1>1, <1>2, <1>5 DEF Others, Inv, Alone, Waits
  <2>2. CallOK(u)'
    BY <1>1, <2>1 DEF Inv, Calls, CallOK, Unit
  <2>3. Holds(u)' /\ Moved(u)'
    BY <1>1, <1>5, <2>1, KindsAndThreads DEF Inv, Calls, Holds, Moved, Waits, Nobody
  <2> QED BY <2>1, <2>2, <2>3
<1>6. Calls'
  BY <1>3, <1>4, <1>5 DEF Calls
<1>7. Alone'
  BY <1>3, <1>5 DEF Inv, Alone, Waits
<1>8. DevOK' /\ MapOK' /\ UsersOK' /\ CountsOK'
  <2>1. CASE dev' = dev
    BY <1>1, <2>1, FailKeepsMap DEF Inv, CountsOK
  <2>2. CASE dev' = [dev EXCEPT !.offset = call[t].orig]
    <3>1. call[t].orig \in 0 .. Size + BS /\ calls \in 0 .. MaxCalls
      BY DEF Inv, Calls, CallOK, CountsOK
    <3> QED BY <1>1, <2>2, <3>1, OffsetKeepsMap
  <2> QED BY <2>1, <2>2 DEF Return
<1> QED BY <1>1, <1>2, <1>6, <1>7, <1>8 DEF Inv, Cell, Addr, Size

LEMMA BbtMap ==
  ASSUME Inv, users # {}, NEW a \in Nat, a < Size,
         NEW d \in [open_cnt : Nat, offset : 0 .. Size + BS, bad_map : SUBSET Blocks,
                    bad_cnt : Nat, logic : Int],
         d.open_cnt = dev.open_cnt, d.bad_map = dev.bad_map, d.bad_cnt = dev.bad_cnt,
         d.logic = dev.logic, MayFail, UpdateBbt(a, d), UNCHANGED <<kind, users, calls>>
  PROVE  DevOK' /\ MapOK' /\ UsersOK' /\ CountsOK' /\ unmarked' \in BOOLEAN
         /\ dev'.offset = d.offset
<1>1. CountsOK' /\ fails' = fails + 1 /\ fails \in Nat /\ MaxBad \in Nat
  BY SizesAreBlocks DEF Inv, CountsOK, MayFail
<1>2. IsFiniteSet(bad) /\ Cardinality(bad) \in Nat /\ bad \subseteq Blocks
      /\ Cardinality(bad) <= MaxBad + fails /\ BS * Cardinality(bad) \in Int
  BY BadFinite, Sizes DEF Inv, MapOK
<1>3. dev.bad_map = bad /\ dev.bad_cnt = Cardinality(bad) /\ dev.logic = Size - BS * Cardinality(bad)
  BY DEF Inv, MapOK
<1>4. CASE dev' = d /\ bad' = bad /\ unmarked' \in BOOLEAN
  BY <1>1, <1>2, <1>3, <1>4 DEF DevOK, MapOK, UsersOK, Inv, Size, Blocks
<1>5. CASE /\ kind = "nand" /\ bad' = bad \cup {Block(a)} /\ Block(a) \notin d.bad_map
           /\ dev' = [d EXCEPT !.bad_map = @ \cup {Block(a)}, !.bad_cnt = @ + 1, !.logic = @ - BS]
           /\ UNCHANGED unmarked
  <2>1. Block(a) \in Blocks /\ Block(a) \notin bad
    BY <1>3, <1>5, BlockOf
  <2>2. Cardinality(bad') = Cardinality(bad) + 1 /\ bad' \subseteq Blocks
    BY <1>2, <1>5, <2>1, FS_AddElement
  <2>3. /\ dev'.open_cnt = d.open_cnt /\ dev'.offset = d.offset
        /\ dev'.bad_map = bad' /\ dev'.bad_cnt = dev.bad_cnt + 1 /\ dev'.logic = dev.logic - BS
    BY <1>3, <1>5
  <2>4. DevOK'
    <3>1. d.bad_map \cup {Block(a)} \in SUBSET Blocks /\ d.bad_cnt + 1 \in Nat /\ d.logic - BS \in Int
      BY <2>1, Sizes
    <3> QED BY <1>5, <3>1 DEF DevOK
  <2>5. BS * (Cardinality(bad) + 1) = BS * Cardinality(bad) + BS
    BY <1>2, Sizes
  <2>6. dev'.logic = Size - BS * Cardinality(bad')
    <3>1. dev'.logic = Size - BS * Cardinality(bad) - BS
      BY <1>3, <2>3
    <3> QED BY <1>2, <2>2, <2>5, <3>1, Sizes
  <2>7. MapOK'
    BY <1>1, <1>2, <1>3, <1>5, <2>2, <2>3, <2>6 DEF MapOK, Size, Blocks
  <2> QED BY <1>1, <1>5, <2>3, <2>4, <2>7 DEF UsersOK, Inv
<1>6. Block(a) \in d.bad_map => bad \cup {Block(a)} = bad
  BY <1>3
<1> QED BY <1>4, <1>5, <1>6 DEF UpdateBbt, Inv

LEMMA ReadStepInv == ASSUME Inv, NEW t \in Threads, ReadStep(t) PROVE Inv'
<1> DEFINE c == call[t]
           size == Least(c.len - c.total, BS - (dev.offset % BS))
<1>1. UNCHANGED <<kind, flash, bad, unmarked, users, seekmx, wrmx, calls>> /\ c.pc = "read"
  BY DEF ReadStep
<1>2. ~Waits(t) /\ c.len \in Nat /\ c.total \in Nat /\ c.total <= c.len
      /\ dev.offset \in Nat /\ dev.offset <= Size + BS /\ calls \in 0 .. MaxCalls
  BY <1>1, Sizes DEF Waits, Inv, Calls, CallOK, DevOK, CountsOK
<1>3. c.total < c.len => size \in Nat /\ size <= BS /\ c.total + size <= c.len
  <2>1. dev.offset % BS \in Nat /\ dev.offset % BS < BS
    BY <1>2, BlockOf
  <2> QED BY <1>2, <2>1, Sizes DEF Least
<1>4. /\ Shape' /\ Others(t) /\ Keep(t, {"pc", "buf", "total", "failed"})
      /\ call'[t].pc \in {"read", "ret"} /\ call'[t].total \in Nat /\ call'[t].total <= c.len
      /\ DevOK' /\ MapOK' /\ UsersOK' /\ CountsOK'
  <2>1. CASE call' = [call EXCEPT ![t].pc = "ret"] /\ UNCHANGED <<dev, fails>>
    <3>1. Shape' /\ Others(t) /\ Keep(t, {"pc"}) /\ call'[t].pc = "ret"
      BY <2>1, SetPc DEF Inv
    <3>2. DevOK' /\ MapOK' /\ UsersOK' /\ CountsOK'
      BY <1>1, <1>2, <2>1, FailKeepsMap
    <3> QED BY <1>2, <3>1, <3>2 DEF Keep, Fields
  <2>2. CASE c.total < c.len /\ dev.offset < Size /\ dev' = [dev EXCEPT !.offset = @ + BS]
             /\ UNCHANGED <<call, fails>>
    <3>1. dev.offset + BS \in 0 .. Size + BS
      BY <1>2, <2>2, Sizes
    <3>2. DevOK' /\ MapOK' /\ UsersOK' /\ CountsOK'
      BY <1>1, <1>2, <2>2, <3>1, OffsetKeepsMap
    <3> QED BY <1>1, <1>2, <2>2, <3>2 DEF Keep, Others, Shape, Inv
  <2>3. ASSUME NEW ok \in BOOLEAN, c.total < c.len, dev.offset < Size,
               IF ok THEN UNCHANGED fails ELSE MayFail,
               call' = [call EXCEPT ![t].buf = c.buf \o [k \in 1 .. size |->
                                                 IF ok THEN flash[dev.offset + k - 1] ELSE Unread],
                                    ![t].total = @ + size, ![t].failed = @ \/ ~ok],
               dev' = [dev EXCEPT !.offset = @ + size]
        PROVE  /\ Shape' /\ Others(t) /\ Keep(t, {"pc", "buf", "total", "failed"})
               /\ call'[t].pc \in {"read", "ret"} /\ call'[t].total \in Nat
               /\ call'[t].total <= c.len
               /\ DevOK' /\ MapOK' /\ UsersOK' /\ CountsOK'
    <3> HIDE DEF size
    <3>0. dev.offset < Size /\ size \in Nat /\ size <= BS /\ c.total + size <= c.len
      BY <1>3, <2>3
    <3>1. dev.offset + size \in 0 .. Size + BS
      BY <1>2, <3>0, Sizes
    <3>2. DevOK' /\ MapOK' /\ UsersOK' /\ CountsOK'
      BY <1>1, <1>2, <2>3, <3>1, OffsetKeepsMap
    <3>3. Shape' /\ Others(t) /\ Keep(t, {"buf", "total", "failed"})
          /\ call'[t].total = c.total + size
      <4>1. PICK v : v = c.buf \o [k \in 1 .. size |->
                                    IF ok THEN flash[dev.offset + k - 1] ELSE Unread]
        OBVIOUS
      <4>2. call' = [call EXCEPT ![t].buf = v, ![t].total = @ + size, ![t].failed = @ \/ ~ok]
        BY <2>3, <4>1
      <4>3. Shape
        BY DEF Inv
      <4> QED BY <4>2, <4>3 DEF Shape, Others, Keep, Fields
    <3>4. call'[t].pc = c.pc
      BY <3>3 DEF Keep, Fields
    <3>5. call'[t].total \in Nat /\ call'[t].total <= c.len
      BY <1>2, <3>0, <3>3
    <3> QED BY <1>1, <3>2, <3>3, <3>4, <3>5 DEF Keep
  <2> QED BY <2>1, <2>2, <2>3 DEF ReadStep
<1>5. /\ call'[t].op = c.op /\ call'[t].len = c.len /\ call'[t].n = c.n /\ call'[t].off = c.off
      /\ call'[t].whence = c.whence /\ call'[t].orig = c.orig
  BY <1>4 DEF Keep, Fields
<1>6. CallOK(t)' /\ Moved(t)'
  BY <1>1, <1>2, <1>4, <1>5 DEF Inv, Calls, CallOK, Moved, Pcs
<1>7. Calls' /\ Alone'
  BY <1>1, <1>2, <1>4, <1>5, <1>6, LoopCalls
<1> QED BY <1>1, <1>4, <1>7 DEF Inv, Cell, Addr, Size

LEMMA NextMultiple ==
  ASSUME NEW d \in Nat, d >= 1, NEW a \in Nat
  PROVE  /\ (a + d) % d = a % d /\ (a + d) \div d = (a \div d) + 1
         /\ (a + (d - (a % d))) % d = 0 /\ (a + (d - (a % d))) \div d = (a \div d) + 1
<1> DEFINE q == a \div d
           r == a % d
<1>1. q \in Nat /\ r \in Nat /\ r < d /\ a = d * q + r
  BY Split
<1> HIDE DEF q, r
<1>2. a + d = d * (q + 1) + r /\ a + (d - r) = d * (q + 1) + 0
  BY <1>1
<1>3. (a + d) % d = r /\ (a + d) \div d = q + 1
  <2>1. (d * (q + 1) + r) \div d = q + 1 /\ (d * (q + 1) + r) % d = r
    BY <1>1, Unique
  <2> QED BY <1>2, <2>1
<1>4. (a + (d - r)) % d = 0 /\ (a + (d - r)) \div d = q + 1
  <2>1. (d * (q + 1) + 0) \div d = q + 1 /\ (d * (q + 1) + 0) % d = 0
    BY <1>1, Unique
  <2> QED BY <1>2, <2>1
<1> QED BY <1>3, <1>4 DEF q, r

LEMMA FilledType ==
  ASSUME flash \in [Addr -> Cell], NEW from, NEW n, NEW v \in Cell
  PROVE  Filled(from, n, v) \in [Addr -> Cell]
BY DEF Filled

LEMMA OffsetMoves ==
  ASSUME DevOK, NEW n \in Nat, dev.offset < Size, n <= BS
  PROVE  /\ dev.offset + n \in 0 .. Size + BS
         /\ LET d == [dev EXCEPT !.offset = @ + n] IN
            /\ d \in [open_cnt : Nat, offset : 0 .. Size + BS, bad_map : SUBSET Blocks,
                      bad_cnt : Nat, logic : Int]
            /\ d.open_cnt = dev.open_cnt /\ d.bad_map = dev.bad_map /\ d.bad_cnt = dev.bad_cnt
            /\ d.logic = dev.logic /\ d.offset = dev.offset + n
<1>1. dev.offset + n \in 0 .. Size + BS
  BY Sizes DEF DevOK
<1> QED BY <1>1 DEF DevOK

\* How much one round of alislsto_write stores.
LEMMA WriteSizeOK ==
  ASSUME NEW t \in Threads, CallOK(t), Moved(t), DevOK, call[t].pc = "write",
         call[t].total < call[t].len
  PROVE  LET n == WriteSize(call[t], dev.offset) IN
         /\ n \in Nat /\ 1 <= n /\ n <= Unit - (dev.offset % Unit)
         /\ call[t].total + n <= call[t].len
         /\ call[t].total + n = call[t].len \/ (dev.offset + n) % Unit = 0
<1> DEFINE at == dev.offset
           r == at % Unit
           c == call[t]
<1>1. at \in Nat /\ r \in Nat /\ r < Unit /\ Unit \in Nat /\ Unit >= 1
  BY Split, Sizes DEF DevOK
<1>2. c.len \in Nat /\ c.total \in Nat /\ (c.total = 0 \/ r = 0)
  BY DEF CallOK, Moved
<1>3. (at + (Unit - r)) % Unit = 0 /\ (at + Unit) % Unit = r
  BY <1>1, NextMultiple
<1> HIDE DEF at, r, c
<1>4. CASE r # 0
  BY <1>1, <1>2, <1>3, <1>4 DEF WriteSize, Least, at, r, c
<1>5. CASE r = 0
  <2>1. WriteSize(c, at) = IF Unit < c.len - c.total THEN Unit ELSE c.len - c.total
    BY <1>5 DEF WriteSize, Least, r
  <2> DEFINE n == WriteSize(c, at)
  <2>2. /\ n \in Nat /\ 1 <= n /\ n <= Unit /\ c.total + n <= c.len
        /\ c.total + n = c.len \/ n = Unit
    BY <1>1, <1>2, <2>1 DEF c
  <2>3. n = Unit => (at + n) % Unit = 0
    BY <1>3, <1>5
  <2>4. n <= Unit - (at % Unit)
    <3> HIDE DEF n
    <3> QED BY <1>1, <1>5, <2>2 DEF r
  <2> QED BY <2>2, <2>3, <2>4 DEF at, c
<1> QED BY <1>4, <1>5

\* What the rounds of the loops have in common: StepOK is what is left to show.
StepOK(t) ==
  /\ Shape' /\ Others(t) /\ Keep(t, {"pc", "failed", "total", "off", "result", "buf"})
  /\ call'[t].total \in Nat /\ call'[t].total <= call[t].len /\ call'[t].off \in Int
  /\ call'[t].pc \in {call[t].pc, "ret", "spin"}
  /\ call'[t].pc = "spin" => call[t].pc = "noerase"
  /\ call'[t].pc = "erase" => call'[t].off >= 0 /\ call'[t].total <= call[t].len \div Unit
  /\ flash' \in [Addr -> Cell] /\ unmarked' \in BOOLEAN
  /\ DevOK' /\ MapOK' /\ UsersOK' /\ CountsOK' /\ Moved(t)'

LEMMA StepInv ==
  ASSUME Inv, NEW t \in Threads, call[t].pc \in {"read", "write", "noerase", "erase"}, StepOK(t),
         UNCHANGED <<kind, users, seekmx, wrmx>>
  PROVE  Inv'
<1>1. ~Waits(t) /\ (call'[t].pc = "spin" => wrmx = t)
  BY DEF Waits, StepOK, Inv, Calls, Holds
<1>2. /\ call'[t].op = call[t].op /\ call'[t].len = call[t].len /\ call'[t].n = call[t].n
      /\ call'[t].whence = call[t].whence /\ call'[t].orig = call[t].orig
  BY DEF StepOK, Keep, Fields
<1>3. CallOK(t)'
  BY <1>2 DEF StepOK, Inv, Calls, CallOK, Pcs, Unit
<1>4. Calls' /\ Alone'
  BY <1>1, <1>2, <1>3, LoopCalls DEF StepOK
<1> QED BY <1>4 DEF StepOK, Inv, Cell, Addr, Size

LEMMA WriteStepInv == ASSUME Inv, NEW t \in Threads, WriteStep(t) PROVE Inv'
<1> DEFINE c == call[t]
           at == dev.offset
           unit == at - (at % Unit)
           n == WriteSize(c, at)
           merged == [a \in Addr |-> IF a \in at .. Least(at + n, unit + Unit) - 1
                                     THEN <<c.n, c.total + a - at>> ELSE flash[a]]
           over == call' = [call EXCEPT ![t].pc = "ret", ![t].failed = @ \/ at < Size]
<1>1. UNCHANGED <<kind, users, seekmx, wrmx, calls>> /\ c.pc = "write"
  BY DEF WriteStep
<1>2. /\ c.len \in Nat /\ c.total \in Nat /\ c.total <= c.len /\ c.total <= at
      /\ c.n \in 0 .. MaxCalls /\ c.off \in Int
      /\ at \in Nat /\ calls \in 0 .. MaxCalls /\ users # {}
      /\ flash \in [Addr -> Cell] /\ unmarked \in BOOLEAN
  <2>1. CallOK(t) /\ Moved(t) /\ t \in users
    BY <1>1 DEF Inv, Calls, Holds
  <2>2. at \in Nat /\ calls \in 0 .. MaxCalls /\ flash \in [Addr -> Cell] /\ unmarked \in BOOLEAN
    BY Sizes DEF Inv, DevOK, CountsOK
  <2> QED BY <1>1, <2>1, <2>2 DEF CallOK, Moved
<1>3. Unit' = Unit /\ Unit \in Nat /\ Unit >= 1 /\ Unit <= BS /\ (kind = "nand" => Unit = BS)
  BY <1>1, Sizes DEF Unit
<1>4. CASE call' = [call EXCEPT ![t].pc = "ret"] /\ UNCHANGED <<flash, bad, unmarked, dev, fails>>
  <2>1. Shape' /\ Others(t) /\ Keep(t, {"pc"}) /\ call'[t].pc = "ret"
    BY <1>4, SetPc DEF Inv
  <2>2. DevOK' /\ MapOK' /\ UsersOK' /\ CountsOK'
    BY <1>1, <1>2, <1>4, FailKeepsMap
  <2>3. call'[t].total = c.total /\ call'[t].off = c.off
    BY <2>1 DEF Keep, Fields
  <2>4. StepOK(t)
    BY <1>2, <1>4, <2>1, <2>2, <2>3 DEF StepOK, Keep, Moved, Cell, Addr, Size
  <2> QED BY <1>1, <2>4, StepInv
<1>5. CASE /\ c.total < c.len /\ at < Size /\ kind = "nand" /\ dev' = [dev EXCEPT !.offset = @ + BS]
           /\ UNCHANGED <<flash, bad, unmarked, call, fails>>
  <2>1. dev.offset + BS \in 0 .. Size + BS
    BY <1>2, <1>5, Sizes
  <2>2. DevOK' /\ MapOK' /\ UsersOK' /\ CountsOK' /\ dev'.offset = at + BS
    BY <1>1, <1>2, <1>5, <2>1, OffsetKeepsMap, OffsetSet DEF Inv
  <2>3. (at + BS) % Unit = at % Unit
    BY <1>2, <1>3, <1>5, NextMultiple
  <2>4. Moved(t)'
    BY <1>1, <1>2, <1>3, <1>5, <2>2, <2>3, Sizes DEF Moved, Inv, Calls
  <2>5. StepOK(t)
    BY <1>1, <1>2, <1>5, <2>2, <2>4 DEF StepOK, Keep, Others, Shape, Inv, Cell, Addr, Size
  <2> QED BY <1>1, <2>5, StepInv
<1>6. CASE MayFail /\ over /\ flash' \in {flash, Filled(unit, Unit, Junk)}
           /\ UNCHANGED <<bad, unmarked, dev>>
  <2>1. Shape' /\ Others(t) /\ Keep(t, {"pc", "failed"}) /\ call'[t].pc = "ret"
    BY <1>6, SetPcFailed DEF Inv
  <2>2. DevOK' /\ MapOK' /\ UsersOK' /\ CountsOK'
    BY <1>1, <1>2, <1>6, FailKeepsMap
  <2>3. call'[t].total = c.total /\ call'[t].off = c.off
    BY <2>1 DEF Keep, Fields
  <2>4. flash' \in [Addr -> Cell]
    BY <1>2, <1>6, FilledType, CellFacts
  <2>5. StepOK(t)
    BY <1>2, <1>6, <2>1, <2>2, <2>3, <2>4 DEF StepOK, Keep, Moved
  <2> QED BY <1>1, <2>5, StepInv
<1>7. CASE /\ c.total < c.len /\ at < Size
           /\ MayFail /\ flash' = Filled(unit, Unit, Junk)
           /\ UpdateBbt(unit, [dev EXCEPT !.offset = @ + Unit])
           /\ call' = [call EXCEPT ![t].failed = TRUE]
  <2>1. Shape' /\ Others(t) /\ Keep(t, {"failed"})
    BY <1>7, SetFailed DEF Inv
  <2>2. unit \in Nat /\ unit < Size
    <3>1. at % Unit \in Nat /\ at % Unit <= at
      BY <1>2, <1>3, Split
    <3> QED BY <1>2, <1>7, <3>1, Sizes
  <2> HIDE DEF unit
  <2>3. /\ DevOK' /\ MapOK' /\ UsersOK' /\ CountsOK' /\ unmarked' \in BOOLEAN
        /\ dev'.offset = at + Unit
    <3> DEFINE d == [dev EXCEPT !.offset = @ + Unit]
    <3>1. /\ d \in [open_cnt : Nat, offset : 0 .. Size + BS, bad_map : SUBSET Blocks,
                    bad_cnt : Nat, logic : Int]
          /\ d.open_cnt = dev.open_cnt /\ d.bad_map = dev.bad_map /\ d.bad_cnt = dev.bad_cnt
          /\ d.logic = dev.logic /\ d.offset = dev.offset + Unit
      BY <1>3, <1>7, OffsetMoves DEF Inv
    <3>2. UpdateBbt(unit, d) /\ MayFail
      BY <1>7
    <3> HIDE DEF d
    <3> QED BY <1>1, <1>2, <2>2, <3>1, <3>2, BbtMap
  <2>4. call'[t].total = c.total /\ call'[t].off = c.off /\ call'[t].pc = c.pc /\ call'[t].len = c.len
    BY <2>1 DEF Keep, Fields
  <2>5. flash' \in [Addr -> Cell]
    BY <1>2, <1>7, FilledType, CellFacts
  <2>6. (at + Unit) % Unit = at % Unit
    BY <1>2, <1>3, NextMultiple
  <2>7. Moved(t)'
    BY <1>1, <1>2, <1>3, <2>3, <2>4, <2>6 DEF Moved, Inv, Calls
  <2>8. StepOK(t)
    BY <1>1, <1>2, <2>1, <2>3, <2>4, <2>5, <2>7 DEF StepOK, Keep
  <2> QED BY <1>1, <2>8, StepInv
<1>8. CASE /\ c.total < c.len /\ at < Size /\ flash' = merged
           /\ dev' = [dev EXCEPT !.offset = @ + n] /\ call' = [call EXCEPT ![t].total = @ + n]
           /\ UNCHANGED <<bad, unmarked, fails>>
  <2>1. /\ n \in Nat /\ 1 <= n /\ n <= Unit - (at % Unit) /\ c.total + n <= c.len
        /\ c.total + n = c.len \/ (at + n) % Unit = 0
    BY <1>1, <1>8, WriteSizeOK DEF Inv, Calls
  <2>2. flash' \in [Addr -> Cell]
    <3>1. ASSUME NEW a \in Addr, a \in at .. Least(at + n, unit + Unit) - 1
          PROVE  <<c.n, c.total + a - at>> \in Cell
      <4>1. a \in Nat /\ a < Size /\ a >= at
        <5> HIDE DEF n, unit
        <5> QED BY <3>1, Sizes, <1>2 DEF Addr
      <4>2. c.total + a - at \in 0 .. Size
        BY <1>2, <4>1, Sizes
      <4> QED BY <1>2, <4>2, CellFacts
    <3> QED BY <1>2, <1>8, <3>1
  <2> HIDE DEF n
  <2>3. n <= BS /\ at + n \in 0 .. Size + BS
    BY <1>2, <1>3, <1>8, <2>1, Split, Sizes
  <2>4. DevOK' /\ MapOK' /\ UsersOK' /\ CountsOK' /\ dev'.offset = at + n
    BY <1>1, <1>2, <1>8, <2>3, OffsetKeepsMap, OffsetSet DEF Inv
  <2>5. Shape' /\ Others(t) /\ Keep(t, {"total"}) /\ call'[t].total = c.total + n
    BY <1>8, SetTotal DEF Inv
  <2>6. call'[t].off = c.off /\ call'[t].pc = c.pc /\ call'[t].len = c.len
    BY <2>5 DEF Keep, Fields
  <2>7. Moved(t)'
    BY <1>1, <1>2, <1>3, <2>1, <2>4, <2>5, <2>6 DEF Moved
  <2>8. StepOK(t)
    BY <1>1, <1>2, <1>8, <2>1, <2>2, <2>4, <2>5, <2>6, <2>7 DEF StepOK, Keep
  <2> QED BY <1>1, <2>8, StepInv
<1> QED BY <1>4, <1>5, <1>6, <1>7, <1>8 DEF WriteStep

\* Where alislsto_write_no_erase goes on after bad blocks.
LEMMA NextGoodLeast ==
  ASSUME NEW a \in Nat, NextGood(a) # {}
  PROVE  LET x == CHOOSE x \in NextGood(a) : \A y \in NextGood(a) : x <= y
         IN x \in NextGood(a) /\ (\A y \in NextGood(a) : x <= y) /\ x \in Nat /\ x >= a /\ x < Size
<1>1. NextGood(a) \subseteq Nat /\ \A x \in NextGood(a) : x >= a /\ x < Size
  BY Sizes DEF NextGood
<1>2. \E x \in NextGood(a) : \A y \in NextGood(a) : x <= y
  BY <1>1, Least1
<1> QED BY <1>1, <1>2

LEMMA NoEraseStepInv == ASSUME Inv, NEW t \in Threads, NoEraseStep(t) PROVE Inv'
<1> DEFINE c == call[t]
           skip == kind = "nand" /\ IsBad(dev.offset)
           at == IF skip THEN CHOOSE x \in NextGood(dev.offset) : \A y \in NextGood(dev.offset) : x <= y
                         ELSE dev.offset
           size == Least(c.len - c.total, BS - (at % BS))
           val(k) == <<c.n, c.total + k>>
<1>1. UNCHANGED <<kind, bad, unmarked, users, seekmx, wrmx, calls>> /\ c.pc = "noerase"
  BY DEF NoEraseStep
<1>2. /\ c.len \in Nat /\ c.total \in Nat /\ c.total <= c.len /\ c.total <= dev.offset
      /\ c.n \in 0 .. MaxCalls /\ c.off \in Int
      /\ dev.offset \in Nat /\ calls \in 0 .. MaxCalls
      /\ flash \in [Addr -> Cell] /\ unmarked \in BOOLEAN
  <2>1. CallOK(t) /\ Moved(t)
    BY <1>1 DEF Inv, Calls
  <2>2. /\ dev.offset \in Nat /\ calls \in 0 .. MaxCalls
        /\ flash \in [Addr -> Cell] /\ unmarked \in BOOLEAN
    BY Sizes DEF Inv, DevOK, CountsOK
  <2> QED BY <1>1, <2>1, <2>2 DEF CallOK, Moved
<1>3. CASE call' = [call EXCEPT ![t].pc = "ret"] /\ UNCHANGED <<flash, dev, fails>>
  <2>1. Shape' /\ Others(t) /\ Keep(t, {"pc"}) /\ call'[t].pc = "ret"
    BY <1>3, SetPc DEF Inv
  <2>2. DevOK' /\ MapOK' /\ UsersOK' /\ CountsOK'
    BY <1>1, <1>2, <1>3, FailKeepsMap
  <2>3. call'[t].total = c.total /\ call'[t].off = c.off
    BY <2>1 DEF Keep, Fields
  <2>4. StepOK(t)
    BY <1>1, <1>2, <1>3, <2>1, <2>2, <2>3 DEF StepOK, Keep, Moved, Cell, Addr, Size
  <2> QED BY <1>1, <2>4, StepInv
<1>4. CASE call' = [call EXCEPT ![t].pc = "spin"] /\ UNCHANGED <<flash, dev, fails>>
  <2>1. Shape' /\ Others(t) /\ Keep(t, {"pc"}) /\ call'[t].pc = "spin"
    BY <1>4, SetPc DEF Inv
  <2>2. DevOK' /\ MapOK' /\ UsersOK' /\ CountsOK'
    BY <1>1, <1>2, <1>4, FailKeepsMap
  <2>3. call'[t].total = c.total /\ call'[t].off = c.off
    BY <2>1 DEF Keep, Fields
  <2>4. StepOK(t)
    BY <1>1, <1>2, <1>4, <2>1, <2>2, <2>3 DEF StepOK, Keep, Moved, Cell, Addr, Size
  <2> QED BY <1>1, <2>4, StepInv
<1>5. CASE c.total < c.len /\ dev.offset < Size /\ ~(skip /\ NextGood(dev.offset) = {})
  <2>1. at \in Nat /\ at >= dev.offset /\ at < Size
    BY <1>2, <1>5, NextGoodLeast
  <2> HIDE DEF at
  <2>2. size \in Nat /\ size <= BS /\ c.total + size <= c.len
    <3>1. at % BS \in Nat /\ at % BS < BS
      BY <2>1, BlockOf
    <3> QED BY <1>2, <1>5, <3>1, Sizes DEF Least
  <2> HIDE DEF size
  <2>3. at \in 0 .. Size + BS /\ at + size \in 0 .. Size + BS
    BY <2>1, <2>2, Sizes
  <2>4. CASE /\ call' = [call EXCEPT ![t].pc = "ret"] /\ dev' = [dev EXCEPT !.offset = at]
             /\ flash' \in {flash, Filled(at, size, Junk)} /\ (fails' = fails \/ MayFail)
    <3>1. Shape' /\ Others(t) /\ Keep(t, {"pc"}) /\ call'[t].pc = "ret"
      BY <2>4, SetPc DEF Inv
    <3>2. DevOK' /\ MapOK' /\ UsersOK' /\ CountsOK'
      BY <1>1, <1>2, <2>3, <2>4, OffsetKeepsMap
    <3>3. call'[t].total = c.total /\ call'[t].off = c.off
      BY <3>1 DEF Keep, Fields
    <3>4. flash' \in [Addr -> Cell]
      BY <1>2, <2>4, FilledType, CellFacts
    <3>5. StepOK(t)
      BY <1>1, <1>2, <2>4, <3>1, <3>2, <3>3, <3>4 DEF StepOK, Keep, Moved
    <3> QED BY <1>1, <3>5, StepInv
  <2>5. CASE /\ flash' = Programmed(at, size, val) /\ dev' = [dev EXCEPT !.offset = at + size]
             /\ call' = [call EXCEPT ![t].total = @ + size] /\ UNCHANGED fails
    <3>1. Shape' /\ Others(t) /\ Keep(t, {"total"}) /\ call'[t].total = c.total + size
      BY <2>5, SetTotal DEF Inv
    <3>2. DevOK' /\ MapOK' /\ UsersOK' /\ CountsOK' /\ dev'.offset = at + size
      BY <1>1, <1>2, <2>3, <2>5, OffsetKeepsMap, OffsetSet DEF Inv
    <3>3. call'[t].pc = c.pc /\ call'[t].off = c.off
      BY <3>1 DEF Keep, Fields
    <3>4. flash' \in [Addr -> Cell]
      <4>1. ASSUME NEW a \in Addr, a \in at .. at + size - 1
            PROVE  val(a - at) \in Cell
        <5>1. a \in Nat /\ a < Size /\ a >= at
          BY <2>1, <2>2, <4>1, Sizes DEF Addr
        <5>2. c.total + (a - at) \in 0 .. Size
          BY <1>2, <2>1, <5>1, Sizes
        <5> QED BY <1>2, <5>2, CellFacts
      <4> QED BY <1>2, <2>5, <4>1, CellFacts DEF Programmed
    <3>5. Moved(t)'
      BY <1>1, <1>2, <2>1, <2>2, <3>1, <3>2, <3>3 DEF Moved
    <3>6. StepOK(t)
      BY <1>1, <1>2, <2>2, <3>1, <3>2, <3>3, <3>4, <3>5 DEF StepOK, Keep
    <3> QED BY <1>1, <3>6, StepInv
  <2> QED BY <1>3, <1>5, <2>4, <2>5 DEF NoEraseStep, at, size
<1> QED BY <1>3, <1>4, <1>5 DEF NoEraseStep

LEMMA EraseStepInv == ASSUME Inv, NEW t \in Threads, EraseStep(t) PROVE Inv'
<1> DEFINE c == call[t]
           live == c.total < c.len \div Unit /\ c.off < Size
<1>1. UNCHANGED <<kind, users, seekmx, wrmx, calls>> /\ c.pc = "erase"
  BY DEF EraseStep
<1>2. /\ c.len \in Nat /\ c.total \in Nat /\ c.total <= c.len /\ c.total <= c.len \div Unit
      /\ c.off \in Nat /\ calls \in 0 .. MaxCalls /\ users # {}
      /\ flash \in [Addr -> Cell] /\ unmarked \in BOOLEAN
  <2>1. CallOK(t) /\ t \in users
    BY <1>1 DEF Inv, Calls, Holds
  <2>2. calls \in 0 .. MaxCalls /\ flash \in [Addr -> Cell] /\ unmarked \in BOOLEAN
    BY DEF Inv, CountsOK
  <2> QED BY <1>1, <2>1, <2>2 DEF CallOK
<1>3. Unit \in Nat /\ Unit >= 1 /\ c.len \div Unit \in Nat /\ c.len \div Unit <= c.len
  BY <1>2, Sizes, Split
<1>4. ASSUME NEW r, call' = [call EXCEPT ![t].pc = "ret", ![t].result = r],
             UNCHANGED <<flash, bad, unmarked, dev, fails>>
      PROVE  Inv'
  <2>1. Shape' /\ Others(t) /\ Keep(t, {"pc", "result"}) /\ call'[t].pc = "ret"
    BY <1>4, SetPcResult DEF Inv
  <2>2. DevOK' /\ MapOK' /\ UsersOK' /\ CountsOK'
    BY <1>1, <1>2, <1>4, FailKeepsMap
  <2>3. call'[t].total = c.total /\ call'[t].off = c.off
    BY <2>1 DEF Keep, Fields
  <2>4. /\ Keep(t, {"pc", "failed", "total", "off", "result", "buf"})
        /\ flash' \in [Addr -> Cell] /\ unmarked' \in BOOLEAN /\ Moved(t)'
    BY <1>2, <1>4, <2>1 DEF Keep, Moved, Cell, Addr, Size
  <2>5. StepOK(t)
    BY <1>2, <2>1, <2>2, <2>3, <2>4 DEF StepOK
  <2> QED BY <1>1, <2>5, StepInv
<1>5. CASE live /\ call' = [call EXCEPT ![t].off = @ + Unit] /\ UNCHANGED <<flash, bad, unmarked, dev, fails>>
  <2>1. Shape' /\ Others(t) /\ Keep(t, {"off"}) /\ call'[t].off = c.off + Unit
    BY <1>5, SetOff DEF Inv
  <2>2. DevOK' /\ MapOK' /\ UsersOK' /\ CountsOK'
    BY <1>1, <1>2, <1>5, FailKeepsMap
  <2>3. call'[t].total = c.total /\ call'[t].pc = c.pc
    BY <2>1 DEF Keep, Fields
  <2>4. StepOK(t)
    BY <1>1, <1>2, <1>3, <1>5, <2>1, <2>2, <2>3 DEF StepOK, Keep, Moved, Cell, Addr, Size
  <2> QED BY <1>1, <2>4, StepInv
<1>6. CASE /\ live /\ flash' = Filled(c.off, Unit, FF)
           /\ call' = [call EXCEPT ![t].off = @ + Unit, ![t].total = @ + 1]
           /\ UNCHANGED <<bad, unmarked, dev, fails>>
  <2>1. /\ Shape' /\ Others(t) /\ Keep(t, {"off", "total"}) /\ call'[t].off = c.off + Unit
        /\ call'[t].total = c.total + 1
    <3>1. Shape /\ call' = [call EXCEPT ![t].off = @ + Unit, ![t].total = @ + 1]
      BY <1>6 DEF Inv
    <3> HIDE DEF live
    <3> QED BY <3>1, SetOffTotal
  <2>2. DevOK' /\ MapOK' /\ UsersOK' /\ CountsOK'
    BY <1>1, <1>2, <1>6, FailKeepsMap
  <2>3. call'[t].pc = c.pc
    BY <2>1 DEF Keep, Fields
  <2>4. flash' \in [Addr -> Cell]
    BY <1>2, <1>6, FilledType, CellFacts
  <2>5. call'[t].total \in Nat /\ call'[t].total <= c.len \div Unit /\ call'[t].total <= c.len
        /\ call'[t].off \in Nat
    BY <1>2, <1>3, <1>6, <2>1
  <2>6. /\ Keep(t, {"pc", "failed", "total", "off", "result", "buf"})
        /\ unmarked' \in BOOLEAN /\ Moved(t)'
    BY <1>1, <1>2, <1>6, <2>1, <2>3 DEF Keep, Moved
  <2>7. StepOK(t)
    BY <1>1, <2>1, <2>2, <2>3, <2>4, <2>5, <2>6 DEF StepOK
  <2> QED BY <1>1, <2>7, StepInv
<1>7. CASE live /\ EraseFails(t)
  <2>1. Shape' /\ Others(t) /\ Keep(t, {"off"}) /\ call'[t].off = c.off + Unit
    BY <1>7, SetOff DEF Inv, EraseFails
  <2>2. DevOK' /\ MapOK' /\ UsersOK' /\ CountsOK' /\ unmarked' \in BOOLEAN
    BY <1>1, <1>2, <1>7, BbtMap DEF EraseFails, Inv, DevOK
  <2>3. call'[t].total = c.total /\ call'[t].pc = c.pc
    BY <2>1 DEF Keep, Fields
  <2>4. flash' \in [Addr -> Cell]
    BY <1>2, <1>7, FilledType, CellFacts DEF EraseFails
  <2>5. StepOK(t)
    BY <1>1, <1>2, <1>3, <2>1, <2>2, <2>3, <2>4 DEF StepOK, Keep, Moved
  <2> QED BY <1>1, <2>5, StepInv
<1> QED BY <1>4, <1>5, <1>6, <1>7 DEF EraseStep

LEMMA InitInv == ASSUME Init PROVE Inv
<1>1. /\ kind \in {"nand", "nor"} /\ bad \subseteq Blocks /\ Cardinality(bad) <= MaxBad
      /\ (kind = "nor" => bad = {}) /\ unmarked = FALSE /\ dev = NoDev /\ users = {}
      /\ seekmx = "nobody" /\ wrmx = "nobody" /\ call = [t \in Threads |-> Idle]
      /\ calls = 0 /\ fails = 0
  BY KindsAndThreads DEF Init, Nobody
<1>2. flash \in [Addr -> Cell]
  <2>1. ASSUME NEW a \in Addr PROVE <<0, a>> \in Cell
    <3>1. 0 \in 0 .. MaxCalls /\ a \in 0 .. Size
      BY SizesAreBlocks, Sizes DEF Addr
    <3> QED BY <3>1, CellFacts
  <2> QED BY <2>1, CellFacts DEF Init
<1>3. DevOK /\ UsersOK
  BY <1>1, Sizes, FS_EmptySet DEF DevOK, NoDev, UsersOK
<1>4. MapOK /\ CountsOK
  BY <1>1, SizesAreBlocks DEF MapOK, CountsOK
<1>5. Shape
  BY <1>1, IdleFields DEF Shape
<1>6. ASSUME NEW t \in Threads PROVE CallOK(t) /\ Holds(t) /\ Moved(t)
  <2>1. call[t] = Idle
    BY <1>1
  <2>2. CallOK(t)
    BY <2>1, Sizes, SizesAreBlocks DEF Idle, CallOK, Ops, Pcs, Locking
  <2> QED BY <1>1, <2>1, <2>2, KindsAndThreads DEF Idle, Holds, Moved, Locking
<1>7. Alone
  BY <1>1 DEF Alone, Waits, Idle
<1> QED BY <1>1, <1>2, <1>3, <1>4, <1>5, <1>6, <1>7 DEF Inv, Calls

LEMMA NextInv == Inv /\ [Next]_vars => Inv'
<1> SUFFICES ASSUME Inv, [Next]_vars PROVE Inv'
  OBVIOUS
<1>1. ASSUME NEW t \in Threads, Begin(t) PROVE Inv'
  <2>1. Offs \subseteq Int /\ -1 \in Int /\ Whences \subseteq Whences \cup {"ext", "bad"}
    BY SizesAreBlocks
  <2>2. ASSUME NEW off \in Offs \cup {-1}, NEW w \in Whences, Lseek(t, off, w) PROVE Inv'
    BY <2>1, <2>2, LseekInv
  <2>3. ASSUME NEW op \in Locking,
               NEW seek \in ((Offs \cup {-1}) \X Whences) \cup {<<0, "ext">>, <<0, "bad">>},
               NEW len \in Lens, NEW flag \in BOOLEAN,
               LockCall(t, op, seek[1], seek[2], len, flag)
        PROVE  Inv'
    <3>1. seek[1] \in Int /\ seek[2] \in Whences \cup {"ext", "bad"}
      <4>1. CASE seek \in (Offs \cup {-1}) \X Whences
        <5>1. seek[1] \in Offs \cup {-1} /\ seek[2] \in Whences
          BY <4>1
        <5> QED BY <2>1, <5>1
      <4>2. CASE seek \in {<<0, "ext">>, <<0, "bad">>}
        BY <4>2
      <4> QED BY <4>1, <4>2
    <3> QED BY <2>3, <3>1, LockCallInv
  <2> QED BY <1>1, <2>2, <2>3, OpenInv, CloseInv, ReadInv, WriteInv, EraseInv DEF Begin
<1>2. ASSUME NEW t \in Threads, Run(t) PROVE Inv'
  BY <1>2, ReadStepInv, WriteStepInv, NoEraseStepInv, EraseStepInv, ReturnInv DEF Run
<1>3. ASSUME UNCHANGED vars PROVE Inv'
  BY <1>3 DEF vars, Inv, DevOK, MapOK, UsersOK, CountsOK, Shape, Calls, CallOK, Holds, Moved,
              Alone, Waits, Unit, Cell, Addr, Size, Blocks
<1> QED BY <1>1, <1>2, <1>3, LockSeekInv, LockWrInv DEF Next

\* alislsto_mtd_open and close, the seeks, the four loops and the two mutexes of
\* alislsto_lock_read and alislsto_lock_write keep the types of the handle and of
\* the calls: the offset stays within one block of the end, the copy of the bad
\* block table, its count and the logical size follow the driver's table whatever
\* fails, and seekmutex is held by exactly the locking calls past it.
THEOREM StoTypeCorrect == Spec => []TypeOK
<1>1. Inv => TypeOK
  <2> SUFFICES ASSUME Inv PROVE TypeOK
    OBVIOUS
  <2>1. /\ kind \in {"nand", "nor"} /\ flash \in [Addr -> Cell] /\ unmarked \in BOOLEAN
        /\ dev.offset \in 0 .. Size + BS
    BY DEF Inv, DevOK
  <2>2. ASSUME NEW t \in Threads
        PROVE  LET c == call[t] IN
               /\ c.op \in Ops /\ c.pc \in Pcs /\ c.total \in 0 .. c.len
               /\ c.pc # "idle" => t \in users
               /\ seekmx = t <=> c.op \in Locking /\ c.pc # "seeklock"
               /\ c.pc \in {"write", "noerase", "spin"} => wrmx = t
    BY DEF Inv, Calls, CallOK, Holds
  <2> QED BY <2>1, <2>2 DEF Inv, TypeOK, MapOK, UsersOK, CountsOK
<1> QED BY <1>1, InitInv, NextInv, PTL DEF Spec

-----------------------------------------------------------------------------
(* The two address translations.                                           *)

MapSane == DevOK /\ (dev.bad_cnt = 0 <=> dev.bad_map = {})

\* Physical address p is in a good block, and x is its logical address.
Good(p) == kind # "nand" \/ Block(p) \notin dev.bad_map
At(p, x) == p \in Addr /\ Good(p) /\ GetLogicAddr(p) = x

LEMMA OpenIsSane == ASSUME Inv, users # {} PROVE MapSane
<1>1. Cardinality(bad) = 0 <=> bad = {}
  BY BadFinite, FS_EmptySet DEF Inv
<1> QED BY <1>1 DEF Inv, MapOK, MapSane

LEMMA GoodNext ==
  ASSUME NEW b \in Blocks
  PROVE  GoodBefore(b + 1) = IF b \in dev.bad_map THEN GoodBefore(b) ELSE GoodBefore(b) + 1
<1> DEFINE S(x) == {c \in Blocks : c < x /\ c \notin dev.bad_map}
<1>1. CASE b \in dev.bad_map
  <2>1. S(b + 1) = S(b)
    BY <1>1, Sizes DEF Blocks
  <2> QED BY <1>1, <2>1 DEF GoodBefore
<1>2. CASE b \notin dev.bad_map
  <2>1. S(b + 1) = S(b) \cup {b} /\ b \notin S(b)
    BY <1>2, Sizes DEF Blocks
  <2>2. IsFiniteSet(S(b))
    BY GoodType
  <2>3. Cardinality(S(b + 1)) = Cardinality(S(b)) + 1
    BY <2>1, <2>2, FS_AddElement
  <2> QED BY <1>2, <2>3 DEF GoodBefore
<1> QED BY <1>1, <1>2

LEMMA GoodMono ==
  ASSUME NEW b \in Nat, NEW c \in Nat, b <= c
  PROVE  GoodBefore(b) <= GoodBefore(c)
<1> DEFINE S(x) == {e \in Blocks : e < x /\ e \notin dev.bad_map}
<1>1. S(b) \subseteq S(c)
  BY Sizes DEF Blocks
<1>2. IsFiniteSet(S(c))
  BY GoodType
<1>3. Cardinality(S(b)) <= Cardinality(S(c))
  BY <1>1, <1>2, FS_Subset
<1> QED BY <1>3 DEF GoodBefore

LEMMA GoodStrict ==
  ASSUME NEW b \in Blocks, b \notin dev.bad_map, NEW c \in Nat, b < c
  PROVE  GoodBefore(b) < GoodBefore(c)
<1>1. b \in Nat /\ b + 1 \in Nat /\ b + 1 <= c
  BY Sizes DEF Blocks
<1>2. GoodBefore(b + 1) <= GoodBefore(c)
  BY <1>1, GoodMono
<1>3. GoodBefore(b + 1) = GoodBefore(b) + 1
  BY GoodNext
<1>4. GoodBefore(b) \in Nat /\ GoodBefore(c) \in Nat
  BY GoodType
<1> QED BY <1>2, <1>3, <1>4

LEMMA GoodUnique ==
  ASSUME NEW b \in Blocks, b \notin dev.bad_map, NEW c \in Blocks, c \notin dev.bad_map,
         GoodBefore(b) = GoodBefore(c)
  PROVE  b = c
<1>1. b \in Nat /\ c \in Nat
  BY Sizes DEF Blocks
<1>2. GoodBefore(b) \in Nat
  BY GoodType
<1>3. ~(b < c) /\ ~(c < b)
  BY <1>1, <1>2, GoodStrict
<1> QED BY <1>1, <1>3

LEMMA GoodAll ==
  ASSUME dev.bad_map = {}, NEW b \in Nat, b <= NB
  PROVE  GoodBefore(b) = b
<1>1. {c \in Blocks : c < b /\ c \notin dev.bad_map} = 0 .. b - 1
  BY Sizes DEF Blocks
<1>2. Cardinality(0 .. b - 1) = b
  BY FS_Interval
<1> QED BY <1>1, <1>2 DEF GoodBefore

LEMMA LogicNand ==
  ASSUME MapSane, kind = "nand", NEW a \in Nat, a < Size + BS
  PROVE  GetLogicAddr(a) = BS * GoodBefore(Block(a)) + (a % BS)
<1>1. CASE dev.bad_cnt = 0
  <2>1. Block(a) \in Nat /\ a % BS \in Nat /\ a = BS * Block(a) + (a % BS)
    BY BlockOf
  <2>2. Block(a) <= NB
    <3>1. CASE Block(a) >= NB + 1
      <4>1. BS * Block(a) >= BS * (NB + 1)
        BY <2>1, <3>1, Sizes
      <4> QED BY <2>1, <4>1, Sizes
    <3> QED BY <2>1, <3>1, Sizes
  <2>3. GoodBefore(Block(a)) = Block(a)
    BY <1>1, <2>1, <2>2, GoodAll DEF MapSane
  <2> QED BY <1>1, <2>1, <2>3 DEF GetLogicAddr
<1>2. CASE dev.bad_cnt # 0
  BY <1>2 DEF GetLogicAddr
<1> QED BY <1>1, <1>2

LEMMA LogicPlain == ASSUME kind # "nand", NEW a PROVE GetLogicAddr(a) = a /\ GetPhyAddr(a) = a
BY DEF GetLogicAddr, GetPhyAddr

\* Inside a block the logical address runs along with the physical one, up to
\* the start of the next block.
LEMMA WithinBlock ==
  ASSUME MapSane, NEW a \in Addr, Good(a), NEW j \in Nat, (a % BS) + j <= BS
  PROVE  /\ GetLogicAddr(a + j) = GetLogicAddr(a) + j
         /\ (a % BS) + j < BS => a + j \in Addr /\ Good(a + j) /\ Block(a + j) = Block(a)
<1> DEFINE b == Block(a)
           r == a % BS
<1>1. a \in Nat /\ a < Size
  BY Sizes DEF Addr
<1>2. b \in Nat /\ r \in Nat /\ r < BS /\ a = BS * b + r /\ b \in Blocks
  BY <1>1, BlockOf
<1>3. a + j \in Nat /\ a + j < Size + BS
  BY <1>1, <1>2, Sizes
<1> HIDE DEF b, r
<1>4. r + j < BS => (a + j) \div BS = b /\ (a + j) % BS = r + j
  <2>1. r + j < BS => (BS * b + (r + j)) \div BS = b /\ (BS * b + (r + j)) % BS = r + j
    <3>1. r + j \in Nat /\ BS \in Nat /\ BS >= 1 /\ b \in Nat
      BY <1>2, Sizes
    <3> QED BY <3>1, Unique
  <2>2. a + j = BS * b + (r + j)
    BY <1>2, Sizes
  <2> QED BY <2>1, <2>2
<1>5. r + j = BS => (a + j) \div BS = b + 1 /\ (a + j) % BS = 0
  <2>1. (BS * (b + 1) + 0) \div BS = b + 1 /\ (BS * (b + 1) + 0) % BS = 0
    <3>1. b + 1 \in Nat /\ BS \in Nat /\ BS >= 1 /\ 0 \in Nat /\ 0 < BS
      BY <1>2, Sizes
    <3> QED BY <3>1, Unique
  <2>2. r + j = BS => a + j = BS * (b + 1) + 0
    BY <1>2, Sizes
  <2> QED BY <2>1, <2>2
<1>6. r + j < BS => a + j \in Addr /\ Good(a + j) /\ Block(a + j) = b
  <2>1. r + j < BS => Block(a + j) = b
    BY <1>4 DEF Block
  <2>2. r + j < BS => a + j < Size
    BY <1>2, <1>3, <2>1, BlockOf
  <2> QED BY <1>3, <2>1, <2>2, Sizes DEF Good, Addr, b
<1>7. GetLogicAddr(a + j) = GetLogicAddr(a) + j
  <2>1. CASE kind # "nand"
    BY <2>1, LogicPlain
  <2>2. CASE kind = "nand"
    <3>1. b \notin dev.bad_map
      BY <2>2 DEF Good, b
    <3>2. GetLogicAddr(a) = BS * GoodBefore(b) + r
      BY <1>1, <2>2, LogicNand, Sizes DEF b, r
    <3>3. GetLogicAddr(a + j) = BS * GoodBefore(Block(a + j)) + ((a + j) % BS)
      BY <1>3, <2>2, LogicNand
    <3>4. GoodBefore(b) \in Nat /\ GoodBefore(b + 1) = GoodBefore(b) + 1
      BY <1>2, <3>1, GoodType, GoodNext
    <3>5. CASE r + j < BS
      <4>1. GetLogicAddr(a + j) = BS * GoodBefore(b) + (r + j)
        BY <1>4, <3>3, <3>5 DEF Block
      <4>2. BS * GoodBefore(b) \in Nat
        BY <3>4, Sizes
      <4> QED BY <1>2, <3>2, <4>1, <4>2
    <3>6. CASE r + j = BS
      <4>1. GetLogicAddr(a + j) = BS * GoodBefore(b + 1) + 0
        BY <1>5, <3>3, <3>6 DEF Block
      <4>2. BS * GoodBefore(b + 1) = BS * GoodBefore(b) + BS /\ BS * GoodBefore(b) \in Nat
        BY <3>4, Sizes
      <4> QED BY <1>2, <3>2, <3>6, <4>1, <4>2, Sizes
    <3>7. r + j < BS \/ r + j = BS
      BY <1>2, Sizes DEF r
    <3> QED BY <3>5, <3>6, <3>7
  <2> QED BY <2>1, <2>2
<1> QED BY <1>6, <1>7 DEF b, r

\* Skipping a bad block leaves the logical address where it is.
LEMMA SkipBad ==
  ASSUME MapSane, kind = "nand", NEW a \in Addr, Block(a) \in dev.bad_map
  PROVE  GetLogicAddr(a + BS) = GetLogicAddr(a)
<1>1. a \in Nat /\ a < Size /\ a + BS \in Nat /\ a + BS < Size + BS
  BY Sizes DEF Addr
<1>2. Block(a + BS) = Block(a) + 1 /\ (a + BS) % BS = a % BS
  BY <1>1, NextMultiple, Sizes DEF Block
<1>3. GoodBefore(Block(a) + 1) = GoodBefore(Block(a))
  BY <1>1, BlockOf, GoodNext
<1>4. GetLogicAddr(a) = BS * GoodBefore(Block(a)) + (a % BS)
  BY <1>1, LogicNand, Sizes
<1>5. GetLogicAddr(a + BS) = BS * GoodBefore(Block(a + BS)) + ((a + BS) % BS)
  BY <1>1, LogicNand
<1> QED BY <1>2, <1>3, <1>4, <1>5

\* alislsto_get_phy_addr undoes alislsto_get_logic_addr on the good blocks.
LEMMA PhyAt ==
  ASSUME MapSane, NEW p, NEW x, At(p, x)
  PROVE  GetPhyAddr(x) = p
<1>1. p \in Nat /\ p < Size
  BY Sizes DEF At, Addr
<1>2. CASE dev.bad_cnt = 0 \/ kind # "nand"
  BY <1>2 DEF At, GetLogicAddr, GetPhyAddr
<1>3. CASE ~(dev.bad_cnt = 0 \/ kind # "nand")
  <2> DEFINE b == Block(p)
             r == p % BS
             hits == {c \in Blocks : c \notin dev.bad_map /\ GoodBefore(c) = x \div BS}
  <2>1. b \in Nat /\ r \in Nat /\ r < BS /\ p = BS * b + r /\ b \in Blocks
    BY <1>1, BlockOf
  <2>2. b \notin dev.bad_map
    BY <1>3 DEF At, Good
  <2>3. x = BS * GoodBefore(b) + r
    BY <1>3 DEF At, GetLogicAddr
  <2>4. GoodBefore(b) \in Nat
    BY GoodType
  <2>5. x \div BS = GoodBefore(b) /\ x % BS = r
    <3> HIDE DEF b, r
    <3> QED BY <2>1, <2>3, <2>4, Unique, Sizes
  <2> HIDE DEF b, r
  <2>6. hits = {b}
    <3>1. b \in hits
      BY <2>1, <2>2, <2>5
    <3>2. ASSUME NEW c \in hits PROVE c = b
      BY <2>1, <2>2, <2>5, GoodUnique
    <3> QED BY <3>1, <3>2
  <2>7. (CHOOSE c \in hits : TRUE) = b /\ hits # {}
    BY <2>6
  <2>8. GetPhyAddr(x) = BS * (IF hits = {} THEN NB ELSE CHOOSE c \in hits : TRUE) + (x % BS)
    BY <1>3 DEF GetPhyAddr
  <2> QED BY <2>1, <2>5, <2>7, <2>8
<1> QED BY <1>2, <1>3

\* And every address it finds inside the partition is a good one.
LEMMA AtPhy ==
  ASSUME MapSane, NEW x \in Nat, GetPhyAddr(x) \in Addr
  PROVE  At(GetPhyAddr(x), x)
<1>1. CASE dev.bad_cnt = 0 \/ kind # "nand"
  BY <1>1 DEF At, Good, GetLogicAddr, GetPhyAddr, MapSane
<1>2. CASE ~(dev.bad_cnt = 0 \/ kind # "nand")
  <2> DEFINE hits == {c \in Blocks : c \notin dev.bad_map /\ GoodBefore(c) = x \div BS}
             b == IF hits = {} THEN NB ELSE CHOOSE c \in hits : TRUE
             r == x % BS
  <2>1. GetPhyAddr(x) = BS * b + r
    BY <1>2 DEF GetPhyAddr
  <2>2. r \in Nat /\ r < BS /\ x = BS * (x \div BS) + r
    BY Split, Sizes
  <2>3. hits # {}
    <3> SUFFICES ASSUME hits = {} PROVE FALSE
      OBVIOUS
    <3>1. b = NB
      OBVIOUS
    <3> HIDE DEF b, r
    <3> QED BY <2>1, <2>2, <3>1, Sizes DEF Addr
  <2>4. b \in Blocks /\ b \notin dev.bad_map /\ GoodBefore(b) = x \div BS
    BY <2>3
  <2>5. b \in Nat
    BY <2>4, Sizes DEF Blocks
  <2> HIDE DEF b, r
  <2>6. Block(GetPhyAddr(x)) = b /\ GetPhyAddr(x) % BS = r
    BY <2>1, <2>2, <2>5, Unique, Sizes DEF Block
  <2>7. GetLogicAddr(GetPhyAddr(x)) = BS * GoodBefore(b) + r
    BY <1>2, <2>6 DEF GetLogicAddr
  <2> QED BY <2>2, <2>4, <2>6, <2>7 DEF At, Good
<1> QED BY <1>1, <1>2

\* What is stored at a logical address.
LEMMA HeldAt ==
  ASSUME MapSane, NEW x \in Nat
  PROVE  /\ \A p : At(p, x) => Held(GetPhyAddr(x)) = flash[p]
         /\ Held(GetPhyAddr(x)) # Unread => \E p \in Addr : At(p, x)
<1>1. ASSUME NEW p, At(p, x) PROVE Held(GetPhyAddr(x)) = flash[p]
  BY <1>1, PhyAt DEF Held, At
<1>2. ASSUME Held(GetPhyAddr(x)) # Unread PROVE \E p \in Addr : At(p, x)
  BY <1>2, AtPhy DEF Held
<1> QED BY <1>1, <1>2

-----------------------------------------------------------------------------
(* What the others leave alone while a call is past its locks.             *)

SameMap == kind' = kind /\ dev'.bad_map = dev.bad_map /\ dev'.bad_cnt = dev.bad_cnt

LEMMA SameAddresses ==
  ASSUME SameMap, NEW x
  PROVE  /\ GoodBefore(x)' = GoodBefore(x) /\ GetLogicAddr(x)' = GetLogicAddr(x)
         /\ GetPhyAddr(x)' = GetPhyAddr(x)
<1>1. \A y : Cardinality({c \in Blocks : c < y /\ c \notin dev'.bad_map})
                = Cardinality({c \in Blocks : c < y /\ c \notin dev.bad_map})
  BY DEF SameMap
<1> QED BY <1>1 DEF SameMap, GoodBefore, GetLogicAddr, GetPhyAddr, Blocks, Block

Still(t) ==
  /\ call'[t] = call[t] /\ flash' = flash /\ bad' = bad /\ unmarked' = unmarked /\ SameMap
  /\ dev'.offset = dev.offset /\ dev'.logic = dev.logic

LEMMA OthersStill ==
  ASSUME Inv, NEW t \in Threads, ~Waits(t), NEW u \in Threads, u # t,
         Begin(u) \/ LockSeek(u) \/ LockWr(u) \/ Run(u)
  PROVE  Still(t)
<1>1. Waits(u) /\ call[t].pc # "idle" /\ call[t].pc # "seeklock" /\ t \in users
  BY DEF Inv, Alone, Waits, Calls, Holds
<1>2. ASSUME NEW op, MayCall(u, op) PROVE op \in Locking
  BY <1>1, <1>2 DEF MayCall
<1>3. CASE Open(u)
  <2>1. Cardinality(users) > 0
    <3>1. Cardinality(users) \in Nat /\ Cardinality(users) # 0
      BY <1>1, FS_CardinalityType, FS_EmptySet DEF Inv, UsersOK
    <3> QED BY <3>1
  <2>2. dev' = [dev EXCEPT !.open_cnt = @ + 1]
    BY <1>3, <2>1 DEF Open, Inv, UsersOK
  <2> QED BY <1>3, <2>2 DEF Open, Still, SameMap, Inv, DevOK
<1>4. CASE Close(u)
  <2>1. Cardinality(users) > 1
    <3>1. IsFiniteSet(users \ {u}) /\ Cardinality(users \ {u}) = Cardinality(users) - 1
          /\ Cardinality(users \ {u}) \in Nat /\ Cardinality(users) \in Nat
      BY <1>4, FS_RemoveElement, FS_CardinalityType DEF Close, Inv, UsersOK
    <3>2. Cardinality(users \ {u}) # 0
      BY <1>1, <3>1, FS_EmptySet
    <3> QED BY <3>1, <3>2
  <2>2. dev' = [dev EXCEPT !.open_cnt = @ - 1]
    BY <1>4, <2>1 DEF Close, Inv, UsersOK
  <2> QED BY <1>4, <2>2 DEF Close, Still, SameMap, Inv, DevOK
<1>5. ASSUME NEW op, NEW off, NEW w, NEW len, NEW flag, LockCall(u, op, off, w, len, flag)
      PROVE  Still(t)
  <2>1. PICK r : call' = [call EXCEPT ![u] = r]
    BY <1>5 DEF LockCall
  <2>2. call'[t] = call[t]
    BY <2>1 DEF Inv, Shape
  <2> QED BY <1>5, <2>2 DEF LockCall, Still, SameMap
<1>6. CASE LockSeek(u)
  <2>1. seekmx = "nobody" /\ call[u].pc = "seeklock"
    BY <1>6 DEF LockSeek, SeekFree, Nobody
  <2>2. seekmx # t
    BY <2>1, KindsAndThreads
  <2>3. call[t].op \notin Locking
    BY <1>1, <2>2 DEF Inv, Calls, Holds
  <2>4. call[t].op # "none"
    BY <1>1 DEF Inv, Calls, CallOK
  <2> QED BY <2>1, <2>3, <2>4 DEF Inv, Alone
<1>7. ~LockWr(u) /\ ~Run(u)
  BY <1>1 DEF Waits, LockWr, Run, ReadStep, WriteStep, NoEraseStep, EraseStep, Return
<1>8. CASE Begin(u)
  <2>1. "lseek" \notin Locking /\ "read" \notin Locking /\ "erase" \notin Locking
        /\ "write" \notin Locking /\ "write_no_erase" \notin Locking
    BY DEF Locking
  <2>2. /\ \A off, w : ~Lseek(u, off, w)
        /\ \A len : ~Read(u, len)
        /\ \A len : \A op \in {"write", "write_no_erase"} : ~Write(u, op, len)
        /\ \A off, len : ~Erase(u, off, len)
    BY <1>2, <2>1 DEF Lseek, Read, Write, Erase
  <2> QED BY <1>3, <1>4, <1>5, <1>8, <2>2 DEF Begin
<1> QED BY <1>6, <1>7, <1>8

LEMMA StepOthers ==
  ASSUME Inv, NEW u \in Threads, Begin(u) \/ LockSeek(u) \/ LockWr(u) \/ Run(u)
  PROVE  Others(u)
<1>1. ASSUME NEW r, call' = [call EXCEPT ![u] = r] PROVE Others(u)
  BY <1>1 DEF Others, Inv, Shape
<1>2. CASE Begin(u)
  <2>1. CASE call' = call
    BY <2>1 DEF Others
  <2>2. ASSUME NEW len, Read(u, len) PROVE Others(u)
    BY <1>1, <2>2 DEF Read
  <2>3. ASSUME NEW op, NEW len, Write(u, op, len) PROVE Others(u)
    BY <1>1, <2>3 DEF Write
  <2>4. ASSUME NEW off, NEW len, Erase(u, off, len) PROVE Others(u)
    BY <1>1, <2>4 DEF Erase
  <2>5. ASSUME NEW op, NEW off, NEW w, NEW len, NEW flag, LockCall(u, op, off, w, len, flag)
        PROVE  Others(u)
    BY <1>1, <2>5 DEF LockCall
  <2>6. /\ Open(u) => call' = call
        /\ Close(u) => call' = call
        /\ \A off, w : Lseek(u, off, w) => call' = call
    BY DEF Open, Close, Lseek
  <2> QED BY <1>2, <2>1, <2>2, <2>3, <2>4, <2>5, <2>6 DEF Begin
<1>3. CASE LockSeek(u)
  BY <1>3 DEF LockSeek, Others, Inv, Shape
<1>4. CASE LockWr(u)
  BY <1>4 DEF LockWr, Others, Inv, Shape
<1>5. CASE ReadStep(u)
  BY <1>5 DEF ReadStep, Others, Inv, Shape
<1>6. CASE WriteStep(u)
  BY <1>6 DEF WriteStep, Others, Inv, Shape
<1>7. CASE NoEraseStep(u)
  BY <1>7 DEF NoEraseStep, Others, Inv, Shape
<1>8. CASE EraseStep(u)
  BY <1>8 DEF EraseStep, EraseFails, Others, Inv, Shape
<1>9. CASE Return(u)
  BY <1>9 DEF Return, Others, Inv, Shape
<1> QED BY <1>2, <1>3, <1>4, <1>5, <1>6, <1>7, <1>8, <1>9 DEF Run

-----------------------------------------------------------------------------
(* Reading.                                                                *)

\* What a read call has so far, and where the next unit comes from.
ReadOK(t) ==
  LET c == call[t] IN
  c.pc \in {"read", "ret"} /\ c.op \in {"read", "lock_read"} =>
    /\ c.buf \in Seq(Cell \cup {Unread}) /\ Len(c.buf) = c.total
    /\ \A k \in 0 .. c.total - 1 :
         c.buf[k + 1] = Held(GetPhyAddr(c.start + k)) \/ (c.failed /\ c.buf[k + 1] = Unread)
    /\ c.pc = "read" => c.start \in Nat /\ GetLogicAddr(dev.offset) = c.start + c.total

LEMMA ReadStill == ASSUME NEW t \in Threads, ReadOK(t), Still(t) PROVE ReadOK(t)'
<1>1. \A x : GetPhyAddr(x)' = GetPhyAddr(x) /\ GetLogicAddr(x)' = GetLogicAddr(x)
  BY SameAddresses DEF Still
<1>2. \A x : Held(GetPhyAddr(x))' = Held(GetPhyAddr(x))
  BY <1>1 DEF Held, Still, Addr, Size
<1>3. GetLogicAddr(dev.offset)' = GetLogicAddr(dev.offset)
  BY <1>1 DEF Still
<1> QED BY <1>2, <1>3 DEF ReadOK, Still, Cell, Size

LEMMA ReadBegins ==
  ASSUME Inv, NEW t \in Threads, NEW len, Read(t, len) PROVE ReadOK(t)'
<1> DEFINE r == Enter(t, "read", "read", 0, len)
<1>1. DOMAIN r = Fields /\ Begun(r, "read", "read", 0, len) /\ r.start = GetLogicAddr(dev.offset)
  BY Entered
<1>2. call' = [call EXCEPT ![t] = r] /\ dev' = dev /\ kind' = kind
  BY DEF Read
<1> HIDE DEF r
<1>3. call'[t] = r
  BY <1>1, <1>2, SetCall DEF Inv
<1>4. GetLogicAddr(dev.offset)' = GetLogicAddr(dev.offset) /\ GetLogicAddr(dev.offset) \in Nat
  <2>1. dev.offset \in Nat
    BY Sizes DEF Inv, DevOK
  <2> QED BY <1>2, <2>1, SameAddresses, LogicType DEF SameMap
<1>5. <<>> \in Seq((Cell \cup {Unread})') /\ Len(<<>>) = 0
  OBVIOUS
<1>6. call'[t].total = 0 /\ call'[t].buf = <<>> /\ call'[t].start = GetLogicAddr(dev.offset)
  BY <1>1, <1>3 DEF Begun
<1> QED BY <1>4, <1>5, <1>6 DEF ReadOK

LEMMA ReadSeeks == ASSUME Inv, NEW t \in Threads, LockSeek(t) PROVE ReadOK(t)'
<1> DEFINE c == call[t]
           to == SeekTo(dev.offset, Size, c.off, c.whence)
<1>1. c.total = 0 /\ c.buf = <<>> /\ c.op \in Locking /\ c.off \in Int
      /\ c.whence \in Whences \cup {"ext", "bad"} /\ dev.offset \in Nat
  <2>1. CallOK(t) /\ dev.offset \in Nat /\ c.pc = "seeklock"
    BY Sizes DEF LockSeek, Inv, Calls, DevOK
  <2> QED BY <2>1 DEF CallOK
<1>2. <<>> \in Seq((Cell \cup {Unread})') /\ Len(<<>>) = 0
  OBVIOUS
<1>3. CASE c.whence \in {"ext", "bad"}
  <2>1. call' = [call EXCEPT ![t].pc = "ret", ![t].orig = dev.offset,
                             ![t].result = IF c.whence = "ext" THEN "driver" ELSE "none"]
    BY <1>3 DEF LockSeek
  <2>2. call'[t].pc = "ret" /\ call'[t].total = c.total /\ call'[t].buf = c.buf
        /\ call'[t].start = c.start
    BY <2>1 DEF Inv, Shape, Fields
  <2> QED BY <1>1, <1>2, <2>2 DEF ReadOK
<1>4. CASE c.whence \notin {"ext", "bad"}
  <2>1. /\ dev' = [dev EXCEPT !.offset = to] /\ kind' = kind
        /\ call' = [call EXCEPT ![t].orig = dev.offset, ![t].start = GetLogicAddr(to),
                                ![t].before = flash,
                                ![t].pc = IF c.op = "lock_read" THEN "read" ELSE "wrlock"]
    BY <1>4 DEF LockSeek
  <2>2. call'[t].total = c.total /\ call'[t].buf = c.buf /\ call'[t].start = GetLogicAddr(to)
    BY <2>1 DEF Inv, Shape, Fields
  <2>3. to \in Nat /\ to \in 0 .. Size + BS
    <3>1. c.whence \in Whences
      BY <1>1, <1>4
    <3>2. to \in Nat /\ (to < Size \/ to = dev.offset)
      <4>1. dev.offset \in Nat /\ c.off \in Int
        BY <1>1
      <4> QED BY <3>1, <4>1, SeekHandle
    <3>3. dev.offset <= Size + BS
      BY DEF Inv, DevOK
    <3> HIDE DEF to
    <3> QED BY <3>2, <3>3, Sizes
  <2> HIDE DEF to
  <2>4. SameMap /\ dev'.offset = to
    BY <2>1, <2>3, OffsetSet DEF Inv, SameMap
  <2>5. GetLogicAddr(dev.offset)' = GetLogicAddr(to) /\ GetLogicAddr(to) \in Nat
    BY <2>3, <2>4, SameAddresses, LogicType
  <2> QED BY <1>1, <1>2, <2>2, <2>5 DEF ReadOK
<1> QED BY <1>3, <1>4

LEMMA ReadStepOK == ASSUME Inv, NEW t \in Threads, ReadOK(t), ReadStep(t) PROVE ReadOK(t)'
<1> DEFINE c == call[t]
           off == dev.offset
           size == Least(c.len - c.total, BS - (off % BS))
           V == Cell \cup {Unread}
<1>1. UNCHANGED <<kind, flash, bad, users>> /\ c.pc = "read"
  BY DEF ReadStep
<1>2. /\ c.len \in Nat /\ c.total \in Nat /\ c.op \in {"read", "lock_read"} /\ t \in users
      /\ off \in Nat /\ flash \in [Addr -> Cell]
  <2>1. CallOK(t) /\ Holds(t)
    BY DEF Inv, Calls
  <2> QED BY <1>1, <2>1, Sizes DEF CallOK, Holds, Inv, DevOK
<1>3. /\ c.buf \in Seq(V) /\ Len(c.buf) = c.total /\ c.start \in Nat
      /\ GetLogicAddr(off) = c.start + c.total
      /\ \A k \in 0 .. c.total - 1 :
           c.buf[k + 1] = Held(GetPhyAddr(c.start + k)) \/ (c.failed /\ c.buf[k + 1] = Unread)
  BY <1>1, <1>2 DEF ReadOK
<1>4. MapSane /\ dev.bad_map = bad /\ V' = V
  BY <1>2, OpenIsSane DEF Inv, MapOK, Cell, Size
<1>5. CASE call' = [call EXCEPT ![t].pc = "ret"] /\ UNCHANGED <<dev, fails>>
  <2>1. /\ call'[t].pc = "ret" /\ call'[t].op = c.op /\ call'[t].buf = c.buf
        /\ call'[t].total = c.total /\ call'[t].start = c.start /\ call'[t].failed = c.failed
    <3>1. Keep(t, {"pc"}) /\ call'[t].pc = "ret"
      BY <1>5, SetPc DEF Inv
    <3> QED BY <3>1 DEF Keep, Fields
  <2>2. \A x : Held(GetPhyAddr(x))' = Held(GetPhyAddr(x))
    BY <1>1, <1>5, SameAddresses DEF SameMap, Held, Addr, Size
  <2> QED BY <1>3, <1>4, <2>1, <2>2 DEF ReadOK
<1>6. CASE /\ off < Size /\ kind = "nand" /\ IsBad(off) /\ dev' = [dev EXCEPT !.offset = @ + BS]
           /\ UNCHANGED <<call, fails>>
  <2>1. off \in Addr /\ Block(off) \in dev.bad_map /\ off + BS \in 0 .. Size + BS
    BY <1>2, <1>4, <1>6, Sizes DEF IsBad, Addr
  <2>2. SameMap /\ dev'.offset = off + BS
    BY <1>1, <1>6, <2>1, OffsetSet DEF Inv, SameMap
  <2>3. \A x : Held(GetPhyAddr(x))' = Held(GetPhyAddr(x))
    BY <1>1, <2>2, SameAddresses DEF Held, Addr, Size
  <2>4. GetLogicAddr(dev.offset)' = GetLogicAddr(off + BS)
    BY <2>2, SameAddresses
  <2>5. GetLogicAddr(off + BS) = GetLogicAddr(off)
    BY <1>4, <1>6, <2>1, SkipBad
  <2> QED BY <1>3, <1>4, <1>6, <2>3, <2>4, <2>5 DEF ReadOK
<1>7. ASSUME NEW ok \in BOOLEAN, c.total < c.len, off < Size, ~(kind = "nand" /\ IsBad(off)),
             call' = [call EXCEPT ![t].buf = c.buf \o [k \in 1 .. size |->
                                               IF ok THEN flash[off + k - 1] ELSE Unread],
                                  ![t].total = @ + size, ![t].failed = @ \/ ~ok],
             dev' = [dev EXCEPT !.offset = @ + size]
      PROVE  ReadOK(t)'
  <2> DEFINE f == [k \in 1 .. size |-> IF ok THEN flash[off + k - 1] ELSE Unread]
  <2>0. c.total < c.len /\ off < Size /\ ~(kind = "nand" /\ IsBad(off))
    BY <1>7
  <2>1. off % BS \in Nat /\ off % BS < BS /\ size \in Nat /\ (off % BS) + size <= BS
    <3>1. off % BS \in Nat /\ off % BS < BS
      BY <1>2, BlockOf
    <3> DEFINE r == off % BS
               m == c.len - c.total
    <3>2. r \in Nat /\ r < BS /\ m \in Nat /\ BS \in Nat
      BY <1>2, <2>0, <3>1, Sizes
    <3>3. size = IF m < BS - r THEN m ELSE BS - r
      BY DEF Least
    <3> HIDE DEF r, m, size
    <3>4. size \in Nat /\ r + size <= BS
      BY <3>2, <3>3
    <3> QED BY <3>1, <3>4 DEF r
  <2> HIDE DEF size
  <2>2. off \in Addr /\ Good(off) /\ off + size \in 0 .. Size + BS
    <3>1. off \in Addr
      BY <1>2, <2>0, Sizes DEF Addr
    <3>2. Good(off)
      BY <1>4, <2>0 DEF IsBad, Good
    <3>3. off + size \in 0 .. Size + BS
      BY <1>2, <2>0, <2>1, Sizes
    <3> QED BY <3>1, <3>2, <3>3
  <2>3. ASSUME NEW j \in Nat, j < size
        PROVE  off + j \in Addr /\ Held(GetPhyAddr(c.start + (c.total + j))) = flash[off + j]
    <3>1. (off % BS) + j < BS
      BY <2>1, <2>3, Sizes
    <3>2. off + j \in Addr /\ Good(off + j) /\ GetLogicAddr(off + j) = GetLogicAddr(off) + j
      BY <1>4, <2>1, <2>2, <3>1, WithinBlock, Sizes
    <3>3. At(off + j, c.start + (c.total + j))
      BY <1>2, <1>3, <3>2 DEF At
    <3>4. c.start + (c.total + j) \in Nat
      BY <1>2, <1>3
    <3> QED BY <1>4, <3>2, <3>3, <3>4, HeldAt
  <2>4. f \in [1 .. size -> V]
    <3>1. ASSUME NEW k \in 1 .. size PROVE flash[off + k - 1] \in V
      <4>1. k - 1 \in Nat /\ k - 1 < size /\ off + (k - 1) = off + k - 1
        BY <1>2, <2>1
      <4> QED BY <1>2, <2>3, <4>1
    <3> QED BY <3>1
  <2>5. /\ Keep(t, {"buf", "total", "failed"}) /\ call'[t].buf = c.buf \o f
        /\ call'[t].total = c.total + size /\ (call'[t].failed <=> c.failed \/ ~ok)
    <3>1. call' = [call EXCEPT ![t].buf = c.buf \o f, ![t].total = @ + size, ![t].failed = @ \/ ~ok]
      BY <1>7
    <3> HIDE DEF f
    <3> QED BY <3>1 DEF Inv, Shape, Keep, Fields
  <2>6. call'[t].start = c.start /\ call'[t].pc = c.pc
    BY <2>5 DEF Keep, Fields
  <2>7. /\ call'[t].buf \in Seq(V) /\ Len(call'[t].buf) = c.total + size
        /\ \A i \in 1 .. c.total : call'[t].buf[i] = c.buf[i]
        /\ \A i \in 1 .. size : call'[t].buf[c.total + i] = f[i]
    <3> HIDE DEF f, V
    <3>1. /\ c.buf \o f \in Seq(V) /\ Len(c.buf \o f) = Len(c.buf) + size
          /\ \A i \in 1 .. Len(c.buf) : (c.buf \o f)[i] = c.buf[i]
          /\ \A i \in 1 .. size : (c.buf \o f)[Len(c.buf) + i] = f[i]
      <4> DEFINE s == c.buf
      <4>1. s \in Seq(V) /\ size \in Nat /\ f \in [1 .. size -> V]
        BY <1>3, <2>1, <2>4
      <4> HIDE DEF s
      <4>2. /\ s \o f \in Seq(V) /\ Len(s \o f) = Len(s) + size
            /\ \A i \in 1 .. Len(s) : (s \o f)[i] = s[i]
            /\ \A i \in 1 .. size : (s \o f)[Len(s) + i] = f[i]
        <5>1. f \in Seq(V) /\ Len(f) = size
          BY <4>1
        <5> QED BY <4>1, <5>1
      <4> QED BY <4>2 DEF s
    <3> QED BY <1>3, <2>5, <3>1
  <2>8. SameMap /\ dev'.offset = off + size
    BY <1>1, <1>7, <2>2, OffsetSet DEF Inv, SameMap
  <2>9. GetLogicAddr(dev.offset)' = c.start + (c.total + size)
    <3>1. GetLogicAddr(dev.offset)' = GetLogicAddr(off + size)
      BY <2>8, SameAddresses
    <3>2. GetLogicAddr(off + size) = GetLogicAddr(off) + size
      BY <1>4, <2>1, <2>2, WithinBlock
    <3>3. c.start \in Nat /\ c.total \in Nat /\ size \in Nat
      BY <1>2, <1>3, <2>1
    <3>4. GetLogicAddr(dev.offset)' = c.start + c.total + size
      BY <1>3, <3>1, <3>2
    <3> HIDE DEF size
    <3> QED BY <3>3, <3>4
  <2>10. \A x : Held(GetPhyAddr(x))' = Held(GetPhyAddr(x))
    BY <1>1, <2>8, SameAddresses DEF Held, Addr, Size
  <2>11. ASSUME NEW k \in 0 .. c.total + size - 1
         PROVE  \/ call'[t].buf[k + 1] = Held(GetPhyAddr(c.start + k))
                \/ call'[t].failed /\ call'[t].buf[k + 1] = Unread
    <3>1. CASE k < c.total
      <4>1. k \in 0 .. c.total - 1 /\ k + 1 \in 1 .. c.total
        BY <1>2, <2>1, <3>1
      <4> QED BY <1>3, <2>5, <2>7, <4>1
    <3>2. CASE k >= c.total
      <4> DEFINE j == k - c.total
      <4>1. j \in Nat /\ j < size /\ j + 1 \in 1 .. size /\ c.total + (j + 1) = k + 1
            /\ c.total + j = k /\ off + (j + 1) - 1 = off + j
        BY <1>2, <2>1, <3>2
      <4> HIDE DEF j
      <4>2. call'[t].buf[k + 1] = f[j + 1]
        BY <2>7, <4>1
      <4>3. Held(GetPhyAddr(c.start + k)) = flash[off + j]
        BY <2>3, <4>1
      <4>4. f[j + 1] = IF ok THEN flash[off + j] ELSE Unread
        BY <4>1
      <4> QED BY <2>5, <4>2, <4>3, <4>4
    <3> QED BY <1>2, <2>1, <3>1, <3>2
  <2>12. \A k \in 0 .. call'[t].total - 1 :
            \/ call'[t].buf[k + 1] = Held(GetPhyAddr(c.start + k))'
            \/ call'[t].failed /\ call'[t].buf[k + 1] = Unread
    <3>1. \A k \in 0 .. c.total + size - 1 :
            Held(GetPhyAddr(c.start + k))' = Held(GetPhyAddr(c.start + k))
      BY <2>6, <2>10
    <3>2. \A k \in 0 .. c.total + size - 1 :
            \/ call'[t].buf[k + 1] = Held(GetPhyAddr(c.start + k))
            \/ call'[t].failed /\ call'[t].buf[k + 1] = Unread
      BY <2>11
    <3>3. call'[t].total = c.total + size
      BY <2>5
    <3>4. ASSUME NEW k \in 0 .. call'[t].total - 1
          PROVE  \/ call'[t].buf[k + 1] = Held(GetPhyAddr(c.start + k))'
                 \/ call'[t].failed /\ call'[t].buf[k + 1] = Unread
      <4>1. k \in 0 .. c.total + size - 1
        BY <1>2, <2>1, <3>3
      <4>2. Held(GetPhyAddr(c.start + k))' = Held(GetPhyAddr(c.start + k))
        BY <3>1, <4>1
      <4>3. \/ call'[t].buf[k + 1] = Held(GetPhyAddr(c.start + k))
            \/ call'[t].failed /\ call'[t].buf[k + 1] = Unread
        BY <3>2, <4>1
      <4> QED BY <4>2, <4>3
    <3> QED BY <3>4
  <2> HIDE DEF V, f
  <2>13. call'[t].buf \in Seq(V') /\ Len(call'[t].buf) = call'[t].total
    BY <1>4, <2>5, <2>7
  <2>14. GetLogicAddr(dev.offset)' = call'[t].start + call'[t].total /\ call'[t].start \in Nat
    BY <1>3, <2>5, <2>6, <2>9
  <2> QED BY <2>6, <2>12, <2>13, <2>14 DEF ReadOK, V
<1> QED BY <1>5, <1>6, <1>7 DEF ReadStep

Reads == \A t \in Threads : ReadOK(t)

LEMMA ReadsNext == Inv /\ Reads /\ [Next]_vars => Reads'
<1> SUFFICES ASSUME Inv, Reads, [Next]_vars, NEW t \in Threads PROVE ReadOK(t)'
  BY DEF Reads
<1>1. Inv'
  BY NextInv
<1>2. ReadOK(t)
  BY DEF Reads
<1>3. ASSUME NEW u \in Threads, u # t, Begin(u) \/ LockSeek(u) \/ LockWr(u) \/ Run(u)
      PROVE  ReadOK(t)'
  <2>1. CASE Waits(t)
    BY <1>3, <2>1, StepOthers DEF Others, Waits, ReadOK
  <2>2. CASE ~Waits(t)
    BY <1>2, <1>3, <2>2, OthersStill, ReadStill
  <2> QED BY <2>1, <2>2
<1>4. CASE Begin(t)
  <2>1. ASSUME call' = call, call[t].pc = "idle" PROVE ReadOK(t)'
    BY <2>1 DEF ReadOK
  <2>2. (Open(t) \/ Close(t) \/ \E off, w : Lseek(t, off, w)) => call' = call /\ call[t].pc = "idle"
    BY DEF Open, Close, Lseek, MayCall, Inv, Calls, Holds
  <2>3. ASSUME NEW op, NEW len, Write(t, op, len) PROVE ReadOK(t)'
    <3>1. call'[t].pc = "wrlock"
      BY <2>3 DEF Write, Enter, Idle, Inv, Shape
    <3> QED BY <3>1 DEF ReadOK
  <2>4. ASSUME NEW off, NEW len, Erase(t, off, len) PROVE ReadOK(t)'
    <3>1. call'[t].pc = "erase"
      BY <2>4 DEF Erase, Enter, Idle, Inv, Shape
    <3> QED BY <3>1 DEF ReadOK
  <2>5. ASSUME NEW op, NEW off, NEW w, NEW len, NEW flag, LockCall(t, op, off, w, len, flag)
        PROVE  ReadOK(t)'
    <3>1. call'[t].pc = "seeklock"
      BY <2>5 DEF LockCall, Enter, Idle, Inv, Shape
    <3> QED BY <3>1 DEF ReadOK
  <2> QED BY <1>4, <2>1, <2>2, <2>3, <2>4, <2>5, ReadBegins DEF Begin
<1>5. CASE LockSeek(t)
  BY <1>5, ReadSeeks
<1>6. CASE LockWr(t)
  <2>1. call'[t].pc \in {"write", "noerase"}
    BY <1>6, SetPc DEF LockWr, Inv
  <2> QED BY <2>1 DEF ReadOK
<1>7. CASE ReadStep(t)
  BY <1>2, <1>7, ReadStepOK
<1>8. CASE WriteStep(t) \/ NoEraseStep(t) \/ EraseStep(t)
  <2>1. call[t].op \notin {"read", "lock_read"}
    BY <1>8 DEF WriteStep, NoEraseStep, EraseStep, Inv, Calls, CallOK
  <2>2. call'[t].op = call[t].op
    <3>1. CASE WriteStep(t)
      BY <3>1 DEF WriteStep, Inv, Shape, Fields
    <3>2. CASE NoEraseStep(t)
      <4>1. \/ \E v : call' = [call EXCEPT ![t].pc = v]
            \/ \E v : call' = [call EXCEPT ![t].total = @ + v]
        BY <3>2 DEF NoEraseStep
      <4> QED BY <4>1 DEF Inv, Shape, Fields
    <3>3. CASE EraseStep(t)
      BY <3>3 DEF EraseStep, EraseFails, Inv, Shape, Fields
    <3> QED BY <1>8, <3>1, <3>2, <3>3
  <2> QED BY <2>1, <2>2 DEF ReadOK
<1>9. CASE Return(t)
  <2>1. call'[t].pc = "idle"
    BY <1>9 DEF Return, Inv, Shape, Idle
  <2> QED BY <2>1 DEF ReadOK
<1>10. CASE UNCHANGED vars
  <2>1. Still(t)
    BY <1>10 DEF vars, Still, SameMap
  <2> QED BY <1>2, <2>1, ReadStill
<1> QED BY <1>3, <1>4, <1>5, <1>6, <1>7, <1>8, <1>9, <1>10 DEF Next, Run

\* alislsto_read and alislsto_lock_read return what the flash holds from the
\* logical address asked for, with the bad blocks left out, although several
\* threads move the one offset of the handle: every other call waits for
\* seekmutex, or may not run, while a read is between its seek and its return.
THEOREM ReadsAreAsked == Spec => []ReadsAsked
<1>1. Init => Reads
  BY DEF Init, Reads, ReadOK, Idle
<1>2. Inv /\ Reads => ReadsAsked
  BY DEF Reads, ReadOK, ReadsAsked
<1> QED BY <1>1, <1>2, InitInv, NextInv, ReadsNext, PTL DEF Spec

-----------------------------------------------------------------------------
(* Writing.                                                                *)

\* What may be found where a write call stored unit k of its buffer.
Kept(c, k) == IF c.op = "write" THEN {<<c.n, k>>} ELSE {<<c.n, k>>, Junk}

\* Where a write call has got to, what it has stored behind it, and, for an
\* alislsto_write in which nothing failed, what it has left alone.
WriteOK(t) ==
  LET c == call[t] IN
  ~unmarked /\ c.op \in {"write", "write_no_erase", "lock_write"} /\ c.pc \notin {"seeklock", "spin"} =>
    /\ c.pc # "ret" => c.start \in Nat /\ GetLogicAddr(dev.offset) = c.start + c.total
    /\ \A k \in 0 .. c.total - 1 : \E p \in Addr : At(p, c.start + k) /\ flash[p] \in Kept(c, k)
    /\ c.op = "write" /\ ~c.failed =>
         \A a \in Addr : flash[a] = c.before[a] \/ \E k \in 0 .. c.total - 1 : At(a, c.start + k)

Writes == \A t \in Threads : WriteOK(t)

LEMMA SameAt == ASSUME SameMap, NEW p, NEW x PROVE At(p, x)' <=> At(p, x)
BY SameAddresses DEF At, Good, SameMap, Addr, Size, Block

LEMMA WriteStill == ASSUME NEW t \in Threads, WriteOK(t), Still(t) PROVE WriteOK(t)'
<1>1. \A p, x : At(p, x)' <=> At(p, x)
  BY SameAt DEF Still
<1>2. GetLogicAddr(dev.offset)' = GetLogicAddr(dev.offset)
  BY SameAddresses DEF Still
<1> QED BY <1>1, <1>2 DEF WriteOK, Still, Kept, Addr, Size

\* The partition is a whole number of erase units.
LEMMA UnitFits ==
  ASSUME NEW a \in Nat, a < Size
  PROVE  a + (Unit - (a % Unit)) <= Size
<1>1. PICK m \in Nat : Size = Unit * m
  <2>1. CASE kind # "nor"
    BY <2>1, Sizes DEF Unit
  <2>2. CASE kind = "nor"
    <3>1. Sector \in Nat /\ Sector >= 1 /\ BS \in Nat /\ BS % Sector = 0 /\ NB \in Nat
      BY SizesAreBlocks
    <3> DEFINE q == BS \div Sector
    <3>2. q \in Nat /\ BS = Sector * q + (BS % Sector)
      BY <3>1, Split
    <3> HIDE DEF q
    <3>3. Size = Sector * (q * NB) /\ q * NB \in Nat
      BY <3>1, <3>2, Sizes
    <3> QED BY <2>2, <3>3 DEF Unit
  <2> QED BY <2>1, <2>2
<1> DEFINE q == a \div Unit
           r == a % Unit
<1>2. Unit \in Nat /\ Unit >= 1 /\ q \in Nat /\ r \in Nat /\ r < Unit /\ a = Unit * q + r
  BY Sizes, Split
<1> HIDE DEF q, r
<1>3. q < m
  <2>1. CASE q >= m
    <3>1. Unit * q >= Unit * m
      BY <1>2, <2>1
    <3> QED BY <1>1, <1>2, <3>1
  <2> QED BY <1>2, <2>1
<1>4. Unit * (q + 1) <= Unit * m
  BY <1>2, <1>3
<1>5. a + (Unit - r) = Unit * (q + 1)
  BY <1>2
<1> QED BY <1>1, <1>4, <1>5 DEF r

\* What a round transfers stays inside its block or, on NOR, in its sector: its
\* logical addresses follow on each other.
LEMMA Ahead ==
  ASSUME MapSane, NEW a \in Addr, Good(a), NEW n \in Nat,
         n <= BS - (a % BS) \/ n <= Unit - (a % Unit)
  PROVE  /\ GetLogicAddr(a + n) = GetLogicAddr(a) + n
         /\ \A j \in Nat : j < n => At(a + j, GetLogicAddr(a) + j)
<1>1. a \in Nat /\ a < Size /\ a % BS \in Nat
  BY Sizes, BlockOf DEF Addr
<1>2. CASE n <= BS - (a % BS)
  <2>1. (a % BS) + n <= BS
    BY <1>1, <1>2, Sizes
  <2>2. \A j \in Nat : j < n => (a % BS) + j < BS /\ (a % BS) + j <= BS
    BY <1>1, <2>1, Sizes
  <2>3. GetLogicAddr(a + n) = GetLogicAddr(a) + n
    BY <2>1, WithinBlock
  <2>4. ASSUME NEW j \in Nat, j < n PROVE At(a + j, GetLogicAddr(a) + j)
    BY <2>2, <2>4, WithinBlock DEF At
  <2> QED BY <2>3, <2>4
<1>3. CASE kind # "nand" /\ n <= Unit - (a % Unit)
  <2>1. a + (Unit - (a % Unit)) <= Size /\ a % Unit \in Nat
    BY <1>1, UnitFits, Split, Sizes
  <2>2. \A j \in Nat : j < n => a + j \in Addr
    BY <1>1, <1>3, <2>1, Sizes DEF Addr
  <2>3. \A x : GetLogicAddr(x) = x /\ Good(x)
    BY <1>3, LogicPlain DEF Good
  <2> QED BY <2>2, <2>3 DEF At
<1>4. kind = "nand" => Unit = BS
  BY DEF Unit
<1> QED BY <1>2, <1>3, <1>4

\* A round disturbs nothing whose logical address is before its own.
LEMMA Behind ==
  ASSUME MapSane, SameMap, NEW a \in Addr, Good(a), NEW n \in Nat,
         n <= BS - (a % BS) \/ n <= Unit - (a % Unit),
         \A e \in Addr : e \notin a .. a + n - 1 => flash'[e] = flash[e],
         NEW x \in Int, x < GetLogicAddr(a), NEW p \in Addr, At(p, x)
  PROVE  At(p, x)' /\ flash'[p] = flash[p]
<1>1. a \in Nat /\ p \in Nat /\ GetLogicAddr(a) \in Nat
  BY Sizes, LogicType DEF Addr
<1>2. p \notin a .. a + n - 1
  <2> SUFFICES ASSUME p \in a .. a + n - 1 PROVE FALSE
    OBVIOUS
  <2> DEFINE j == p - a
  <2>1. j \in Nat /\ j < n /\ a + j = p
    BY <1>1
  <2> HIDE DEF j
  <2>2. At(a + j, GetLogicAddr(a) + j)
    BY <2>1, Ahead
  <2>3. GetLogicAddr(p) = GetLogicAddr(a) + j
    BY <2>1, <2>2 DEF At
  <2> QED BY <1>1, <2>1, <2>3 DEF At
<1> QED BY <1>2, SameAt

\* A block that turns bad leaves the logical addresses before it as they were,
\* and what followed it in the block is now found after the next one.
LEMMA MapGrows ==
  ASSUME MapSane, kind = "nand", kind' = kind, NEW b \in Blocks,
         dev'.bad_map = dev.bad_map \cup {b}, dev'.bad_cnt # 0
  PROVE  /\ \A p \in Addr : Block(p) < b =>
              GetLogicAddr(p)' = GetLogicAddr(p) /\ (Good(p)' <=> Good(p))
         /\ \A a \in Addr : Block(a) = b => GetLogicAddr(a + BS)' = GetLogicAddr(a)
<1>1. b \in Nat /\ BS \in Nat /\ BS >= 1
  BY Sizes DEF Blocks
<1>2. ASSUME NEW e \in Nat, e <= b PROVE GoodBefore(e)' = GoodBefore(e)
  <2>1. {c \in Blocks : c < e /\ c \notin dev'.bad_map} = {c \in Blocks : c < e /\ c \notin dev.bad_map}
    BY <1>1, <1>2, Sizes DEF Blocks
  <2> QED BY <2>1 DEF GoodBefore, Blocks
<1>3. GoodBefore(b + 1)' = GoodBefore(b)
  <2>1. {c \in Blocks : c < b + 1 /\ c \notin dev'.bad_map} = {c \in Blocks : c < b /\ c \notin dev.bad_map}
    BY <1>1, Sizes DEF Blocks
  <2> QED BY <2>1 DEF GoodBefore, Blocks
<1>4. \A x : GetLogicAddr(x)' = BS * GoodBefore(Block(x))' + (x % BS)
  BY DEF GetLogicAddr
<1>5. ASSUME NEW p \in Addr
      PROVE  p \in Nat /\ GetLogicAddr(p) = BS * GoodBefore(Block(p)) + (p % BS)
  <2>1. p \in Nat /\ p < Size + BS
    BY Sizes DEF Addr
  <2> QED BY <2>1, LogicNand
<1>6. ASSUME NEW p \in Addr, Block(p) < b
      PROVE  GetLogicAddr(p)' = GetLogicAddr(p) /\ (Good(p)' <=> Good(p))
  <2>1. Block(p) \in Nat /\ Block(p) <= b /\ Block(p) # b
    BY <1>1, <1>5, <1>6, BlockOf
  <2>2. GoodBefore(Block(p))' = GoodBefore(Block(p))
    BY <1>2, <2>1 DEF Block
  <2>3. GetLogicAddr(p)' = GetLogicAddr(p)
    BY <1>4, <1>5, <2>2
  <2> QED BY <2>1, <2>3 DEF Good, Block
<1>7. ASSUME NEW a \in Addr, Block(a) = b PROVE GetLogicAddr(a + BS)' = GetLogicAddr(a)
  <2>1. Block(a + BS) = b + 1 /\ (a + BS) % BS = a % BS
    BY <1>1, <1>5, <1>7, NextMultiple DEF Block
  <2>2. GoodBefore(Block(a + BS))' = GoodBefore(b + 1)'
    BY <2>1 DEF Block
  <2> QED BY <1>3, <1>4, <1>5, <1>7, <2>1, <2>2
<1> QED BY <1>6, <1>7

\* The inner loop of alislsto_write_no_erase ends at the first good block after
\* the offset, with the logical address unchanged.
LEMMA SkipRun ==
  ASSUME MapSane, dev.bad_map = bad, kind = "nand", NEW a \in Addr, NextGood(a) # {}
  PROVE  LET x == CHOOSE x \in NextGood(a) : \A y \in NextGood(a) : x <= y
         IN x \in Addr /\ Good(x) /\ GetLogicAddr(x) = GetLogicAddr(a)
<1> DEFINE x == CHOOSE x \in NextGood(a) : \A y \in NextGood(a) : x <= y
<1>1. a \in Nat /\ a < Size
  BY Sizes DEF Addr
<1>2. x \in NextGood(a) /\ (\A y \in NextGood(a) : x <= y) /\ x \in Nat /\ x >= a /\ x < Size
  BY <1>1, NextGoodLeast
<1> HIDE DEF x
<1>3. (x - a) % BS = 0 /\ ~IsBad(x) /\ x \in Addr
  BY <1>2, Sizes DEF NextGood, Addr
<1>4. Good(x)
  BY <1>3 DEF Good, IsBad
<1> DEFINE b == Block(a)
           r == a % BS
           m == (x - a) \div BS
<1>5. b \in Nat /\ r \in Nat /\ r < BS /\ a = BS * b + r /\ b \in Blocks
  BY <1>1, BlockOf
<1>6. m \in Nat /\ x - a = BS * m
  <2>1. x - a \in Nat
    BY <1>1, <1>2
  <2>2. m \in Nat /\ x - a = BS * m + ((x - a) % BS)
    BY <2>1, Split, Sizes
  <2> HIDE DEF m
  <2> QED BY <1>3, <2>2, Sizes
<1> HIDE DEF b, r, m
\* The address in block b + i that the loop looks at.
<1>7. ASSUME NEW i \in Nat
      PROVE  /\ a + BS * i \in Nat /\ BS * i \in Nat
             /\ Block(a + BS * i) = b + i /\ (a + BS * i) % BS = r
             /\ ((a + BS * i) - a) % BS = 0
  <2>1. BS * i \in Nat /\ b + i \in Nat /\ BS \in Nat /\ BS >= 1
    BY <1>5, Sizes
  <2>2. a + BS * i = BS * (b + i) + r
    BY <1>5, Sizes
  <2>3. (BS * (b + i) + r) \div BS = b + i /\ (BS * (b + i) + r) % BS = r
    BY <1>5, <2>1, Unique
  <2>4. (BS * i + 0) % BS = 0
    BY <2>1, Unique
  <2>5. (a + BS * i) - a = BS * i + 0
    BY <1>1, <2>1
  <2>6. Block(a + BS * i) = b + i /\ (a + BS * i) % BS = r
    BY <2>2, <2>3 DEF Block
  <2>7. ((a + BS * i) - a) % BS = 0
    BY <2>4, <2>5
  <2>8. a + BS * i \in Nat
    BY <1>1, <2>1
  <2> QED BY <2>1, <2>6, <2>7, <2>8
<1>8. Block(x) = b + m /\ x % BS = r /\ x = a + BS * m
  <2>1. x = a + BS * m
    BY <1>1, <1>2, <1>6, Sizes
  <2> QED BY <1>6, <1>7, <2>1
<1>9. ASSUME NEW i \in Nat, i < m PROVE b + i \in dev.bad_map
  <2> DEFINE y == a + BS * i
  <2>1. y \in Nat /\ Block(y) = b + i /\ (y - a) % BS = 0 /\ y >= a
    BY <1>1, <1>7
  <2>2. y < x
    <3>1. BS * (i + 1) <= BS * m
      BY <1>6, <1>9, Sizes
    <3>2. BS * i + BS <= BS * m
      BY <3>1, Sizes
    <3> QED BY <1>1, <1>6, <1>7, <1>8, <3>2, Sizes
  <2> HIDE DEF y
  <2>3. y \notin NextGood(a)
    BY <1>2, <2>1, <2>2
  <2>4. IsBad(y) /\ y < Size
    BY <1>1, <1>2, <2>1, <2>2, <2>3, Sizes DEF NextGood
  <2> QED BY <2>1, <2>4, Sizes DEF IsBad
<1>10. GoodBefore(b + m) = GoodBefore(b)
  <2>1. ASSUME NEW c \in Blocks, c < b + m, c \notin dev.bad_map PROVE c < b
    <3>1. CASE c >= b
      <4>1. c - b \in Nat /\ c - b < m /\ b + (c - b) = c
        BY <1>5, <1>6, <2>1, <3>1, Sizes DEF Blocks
      <4> QED BY <1>9, <2>1, <4>1
    <3> QED BY <1>5, <3>1, Sizes DEF Blocks
  <2>2. \A c \in Blocks : c < b => c < b + m
    BY <1>5, <1>6, Sizes DEF Blocks
  <2>3. {c \in Blocks : c < b + m /\ c \notin dev.bad_map} = {c \in Blocks : c < b /\ c \notin dev.bad_map}
    BY <2>1, <2>2
  <2> QED BY <2>3 DEF GoodBefore
<1>11. GetLogicAddr(x) = BS * GoodBefore(Block(x)) + (x % BS)
       /\ GetLogicAddr(a) = BS * GoodBefore(Block(a)) + (a % BS)
  BY <1>1, <1>2, LogicNand, Sizes
<1> QED BY <1>3, <1>4, <1>8, <1>10, <1>11 DEF x, b, r

LEMMA WriteBegins ==
  ASSUME Inv, NEW t \in Threads, NEW op, NEW len, Write(t, op, len) PROVE WriteOK(t)'
<1> DEFINE r == Enter(t, op, "wrlock", 0, len)
<1>1. DOMAIN r = Fields /\ Begun(r, op, "wrlock", 0, len) /\ r.start = GetLogicAddr(dev.offset)
  BY Entered
<1>2. call' = [call EXCEPT ![t] = r] /\ dev' = dev /\ kind' = kind /\ flash' = flash
  BY DEF Write
<1> HIDE DEF r
<1>3. call'[t] = r
  BY <1>1, <1>2, SetCall DEF Inv
<1>4. GetLogicAddr(dev.offset)' = GetLogicAddr(dev.offset) /\ GetLogicAddr(dev.offset) \in Nat
  <2>1. dev.offset \in Nat
    BY Sizes DEF Inv, DevOK
  <2> QED BY <1>2, <2>1, SameAddresses, LogicType DEF SameMap
<1>5. call'[t].total = 0 /\ call'[t].before = flash' /\ call'[t].start = GetLogicAddr(dev.offset)
  BY <1>1, <1>2, <1>3 DEF Begun
<1> QED BY <1>4, <1>5 DEF WriteOK

LEMMA WriteSeeks == ASSUME Inv, NEW t \in Threads, LockSeek(t) PROVE WriteOK(t)'
<1> DEFINE c == call[t]
           to == SeekTo(dev.offset, Size, c.off, c.whence)
<1>1. c.total = 0 /\ c.op \in Locking /\ c.off \in Int
      /\ c.whence \in Whences \cup {"ext", "bad"} /\ dev.offset \in Nat
  <2>1. CallOK(t) /\ dev.offset \in Nat /\ c.pc = "seeklock"
    BY Sizes DEF LockSeek, Inv, Calls, DevOK
  <2> QED BY <2>1 DEF CallOK
<1>2. c.op # "write"
  BY <1>1 DEF Locking
<1>3. CASE c.whence \in {"ext", "bad"}
  <2>1. call' = [call EXCEPT ![t].pc = "ret", ![t].orig = dev.offset,
                             ![t].result = IF c.whence = "ext" THEN "driver" ELSE "none"]
    BY <1>3 DEF LockSeek
  <2>2. call'[t].pc = "ret" /\ call'[t].total = c.total /\ call'[t].op = c.op
    BY <2>1 DEF Inv, Shape, Fields
  <2> QED BY <1>1, <1>2, <2>2 DEF WriteOK
<1>4. CASE c.whence \notin {"ext", "bad"}
  <2>1. /\ dev' = [dev EXCEPT !.offset = to] /\ kind' = kind
        /\ call' = [call EXCEPT ![t].orig = dev.offset, ![t].start = GetLogicAddr(to),
                                ![t].before = flash,
                                ![t].pc = IF c.op = "lock_read" THEN "read" ELSE "wrlock"]
    BY <1>4 DEF LockSeek
  <2>2. call'[t].total = c.total /\ call'[t].op = c.op /\ call'[t].start = GetLogicAddr(to)
    BY <2>1 DEF Inv, Shape, Fields
  <2>3. to \in Nat /\ to \in 0 .. Size + BS
    <3>1. c.whence \in Whences
      BY <1>1, <1>4
    <3>2. to \in Nat /\ (to < Size \/ to = dev.offset)
      <4>1. dev.offset \in Nat /\ c.off \in Int
        BY <1>1
      <4> QED BY <3>1, <4>1, SeekHandle
    <3>3. dev.offset <= Size + BS
      BY DEF Inv, DevOK
    <3> HIDE DEF to
    <3> QED BY <3>2, <3>3, Sizes
  <2> HIDE DEF to
  <2>4. SameMap /\ dev'.offset = to
    BY <2>1, <2>3, OffsetSet DEF Inv, SameMap
  <2>5. GetLogicAddr(dev.offset)' = GetLogicAddr(to) /\ GetLogicAddr(to) \in Nat
    BY <2>3, <2>4, SameAddresses, LogicType
  <2> QED BY <1>1, <1>2, <2>2, <2>5 DEF WriteOK
<1> QED BY <1>3, <1>4

\* A step that moves neither the flash, the map nor what was stored.
LEMMA WriteKeeps ==
  ASSUME NEW t \in Threads, WriteOK(t), SameMap, UNCHANGED <<flash, unmarked>>,
         call[t].pc \notin {"seeklock", "spin"},
         call'[t].pc = "ret" \/ GetLogicAddr(dev.offset)' = GetLogicAddr(dev.offset),
         call'[t].pc = "ret" \/ call[t].pc # "ret",
         call'[t].op = call[t].op, call'[t].n = call[t].n, call'[t].start = call[t].start,
         call'[t].total = call[t].total, call'[t].before = call[t].before,
         call[t].failed => call'[t].failed
  PROVE  WriteOK(t)'
<1>1. \A p, x : At(p, x)' <=> At(p, x)
  BY SameAt
<1>2. \A k : Kept(call[t], k)' = Kept(call[t], k)
  BY DEF Kept
<1> SUFFICES ASSUME ~unmarked, call[t].op \in {"write", "write_no_erase", "lock_write"}
             PROVE  WriteOK(t)'
  BY DEF WriteOK
<1>3. /\ call[t].pc # "ret" => call[t].start \in Nat /\ GetLogicAddr(dev.offset) = call[t].start + call[t].total
      /\ \A k \in 0 .. call[t].total - 1 :
           \E p \in Addr : At(p, call[t].start + k) /\ flash[p] \in Kept(call[t], k)
      /\ call[t].op = "write" /\ ~call[t].failed =>
           \A a \in Addr : \/ flash[a] = call[t].before[a]
                           \/ \E k \in 0 .. call[t].total - 1 : At(a, call[t].start + k)
  BY DEF WriteOK
<1> QED BY <1>1, <1>2, <1>3 DEF WriteOK, Addr, Size

LEMMA WriteStepOK == ASSUME Inv, NEW t \in Threads, WriteOK(t), WriteStep(t) PROVE WriteOK(t)'
\* at and s are the offset and the start before the step.
<1>0. PICK at, s : at = dev.offset /\ s = call[t].start
  OBVIOUS
<1> USE <1>0
<1> DEFINE c == call[t]
           unit == at - (at % Unit)
           n == WriteSize(c, at)
           merged == [a \in Addr |-> IF a \in at .. Least(at + n, unit + Unit) - 1
                                     THEN <<c.n, c.total + a - at>> ELSE flash[a]]
           over == call' = [call EXCEPT ![t].pc = "ret", ![t].failed = @ \/ at < Size]
<1>1. UNCHANGED <<kind, users>> /\ c.pc = "write"
  BY DEF WriteStep
<1>2. /\ c.len \in Nat /\ c.total \in Nat /\ c.op = "write" /\ t \in users
      /\ at \in Nat /\ flash \in [Addr -> Cell] /\ unmarked \in BOOLEAN
      /\ c.total \in {0, c.len} \/ at % Unit = 0
  <2>1. CallOK(t) /\ Holds(t) /\ Moved(t)
    BY DEF Inv, Calls
  <2> QED BY <1>1, <2>1, Sizes DEF CallOK, Holds, Moved, Inv, DevOK
<1>3. MapSane /\ dev.bad_map = bad /\ dev.bad_cnt \in Nat
  BY <1>2, OpenIsSane DEF Inv, MapOK, DevOK
<1>4. Unit \in Nat /\ Unit >= 1 /\ at % Unit \in Nat /\ at % Unit < Unit /\ (kind = "nand" => Unit = BS)
  BY <1>2, Sizes, Split DEF Unit
<1>5. ~unmarked =>
      /\ s \in Nat /\ GetLogicAddr(at) = s + c.total
      /\ \A k \in 0 .. c.total - 1 : \E p \in Addr : At(p, s + k) /\ flash[p] \in {<<c.n, k>>}
      /\ ~c.failed => \A a \in Addr : \/ flash[a] = c.before[a]
                                      \/ \E k \in 0 .. c.total - 1 : At(a, s + k)
  BY <1>1, <1>2 DEF WriteOK, Kept
<1>6. CASE call' = [call EXCEPT ![t].pc = "ret"] /\ UNCHANGED <<flash, bad, unmarked, dev, fails>>
  <2>1. Keep(t, {"pc"}) /\ call'[t].pc = "ret"
    BY <1>6, SetPc DEF Inv
  <2>2. /\ call'[t].op = c.op /\ call'[t].n = c.n /\ call'[t].start = c.start
        /\ call'[t].total = c.total /\ call'[t].before = c.before /\ call'[t].failed = c.failed
    BY <2>1 DEF Keep, Fields
  <2> QED BY <1>1, <1>6, <2>1, <2>2, WriteKeeps DEF SameMap
<1>7. CASE /\ c.total < c.len /\ at < Size /\ kind = "nand" /\ IsBad(at)
           /\ dev' = [dev EXCEPT !.offset = @ + BS]
           /\ UNCHANGED <<flash, bad, unmarked, call, fails>>
  <2>1. at \in Addr /\ Block(at) \in dev.bad_map /\ at + BS \in 0 .. Size + BS
    <3>1. at \in Nat /\ at < Size /\ IsBad(at) /\ dev.bad_map = bad
      BY <1>2, <1>3, <1>7
    <3>2. at \in Addr /\ at + BS \in 0 .. Size + BS
      BY <3>1, Sizes DEF Addr
    <3>3. Block(at) \in dev.bad_map
      BY <3>1, Sizes DEF IsBad
    <3> QED BY <3>2, <3>3
  <2>2. SameMap /\ dev'.offset = at + BS
    BY <1>1, <1>7, <2>1, OffsetSet DEF Inv, SameMap
  <2>3. GetLogicAddr(dev.offset)' = GetLogicAddr(at + BS)
    BY <2>2, SameAddresses
  <2>4. GetLogicAddr(at + BS) = GetLogicAddr(at)
    BY <1>3, <1>7, <2>1, SkipBad
  <2> QED BY <1>1, <1>7, <2>2, <2>3, <2>4, WriteKeeps
\* The erase unit was lost, or could not be read: the call is over.
<1>8. CASE /\ c.total < c.len /\ at < Size /\ ~(kind = "nand" /\ IsBad(at)) /\ over
           /\ flash' \in {flash, Filled(unit, Unit, Junk)} /\ UNCHANGED <<bad, unmarked, dev>>
  <2>1. Keep(t, {"pc", "failed"}) /\ call'[t].pc = "ret" /\ (call'[t].failed <=> c.failed \/ at < Size)
    BY <1>8, SetPcFailed DEF Inv
  <2>2. /\ call'[t].op = c.op /\ call'[t].n = c.n /\ call'[t].start = c.start
        /\ call'[t].total = c.total /\ call'[t].failed
    BY <1>8, <2>1 DEF Keep, Fields
  <2>3. at \in Addr /\ Good(at) /\ SameMap
    BY <1>1, <1>2, <1>3, <1>8, Sizes DEF Addr, Good, IsBad, SameMap
  <2>4. ASSUME ~unmarked, NEW k \in 0 .. c.total - 1
        PROVE  \E p \in Addr : At(p, s + k)' /\ flash'[p] = <<c.n, k>>
    <3>1. at % Unit = 0 /\ k \in Nat /\ k < c.total
      BY <1>2, <1>8, <2>4
    <3>2. unit = at
      BY <1>2, <3>1
    <3>3. \A e \in Addr : e \notin at .. at + Unit - 1 => flash'[e] = flash[e]
      BY <1>8, <3>2 DEF Filled
    <3>4. PICK p \in Addr : At(p, s + k) /\ flash[p] = <<c.n, k>>
      BY <1>5, <2>4
    <3>5. s + k \in Int /\ s + k < GetLogicAddr(at)
      BY <1>2, <1>5, <2>4, <3>1
    <3>7. Unit <= Unit - (at % Unit)
      BY <1>4, <3>1
    <3>6. At(p, s + k)' /\ flash'[p] = flash[p]
      BY <1>3, <1>4, <2>3, <3>3, <3>4, <3>5, <3>7, Behind
    <3> QED BY <3>4, <3>6
  <2>5. UNCHANGED unmarked /\ s = c.start /\ c.op = "write" /\ Addr' = Addr
    BY <1>2, <1>8 DEF Addr, Size
  <2>6. ASSUME ~unmarked, NEW k \in 0 .. call'[t].total - 1
        PROVE  \E p \in Addr' : At(p, c.start + k)' /\ flash'[p] \in Kept(c, k)'
    <3>1. \E p \in Addr : At(p, s + k)' /\ flash'[p] = <<c.n, k>>
      BY <2>2, <2>4, <2>6
    <3> QED BY <2>2, <2>5, <3>1 DEF Kept
  <2> QED BY <2>1, <2>2, <2>5, <2>6 DEF WriteOK
<1>9. CASE /\ c.total < c.len /\ at < Size /\ ~(kind = "nand" /\ IsBad(at)) /\ MayFail
           /\ flash' = Filled(unit, Unit, Junk)
           /\ UpdateBbt(unit, [dev EXCEPT !.offset = @ + Unit])
           /\ call' = [call EXCEPT ![t].failed = TRUE]
  <2>1. Keep(t, {"failed"}) /\ call'[t].failed
    BY <1>9, SetFailed DEF Inv
  <2>2. /\ call'[t].op = c.op /\ call'[t].n = c.n /\ call'[t].start = c.start /\ call'[t].pc = c.pc
        /\ call'[t].total = c.total
    BY <2>1 DEF Keep, Fields
  <2>3. CASE unmarked'
    BY <2>3 DEF WriteOK
  <2>4. CASE ~unmarked'
    <3> DEFINE d == [dev EXCEPT !.offset = @ + Unit]
               b == Block(at)
    <3>1. /\ d.bad_map = dev.bad_map /\ d.bad_cnt = dev.bad_cnt /\ d.offset = at + Unit
          /\ d \in [open_cnt : Nat, offset : 0 .. Size + BS, bad_map : SUBSET Blocks,
                    bad_cnt : Nat, logic : Int]
      BY <1>4, <1>9, OffsetMoves, Sizes DEF Inv
    <3>2. /\ kind = "nand" /\ ~unmarked
          /\ dev' = IF Block(unit) \in d.bad_map THEN d
                    ELSE [d EXCEPT !.bad_map = @ \cup {Block(unit)}, !.bad_cnt = @ + 1, !.logic = @ - BS]
      BY <1>9, <2>4 DEF UpdateBbt
    <3>3. at \in Addr /\ b \in Blocks /\ b \notin dev.bad_map /\ b \in Nat
      BY <1>2, <1>3, <1>9, <3>2, BlockOf, Sizes DEF Addr, IsBad
    <3>4. unit = BS * b /\ Block(unit) = b
      <4>1. at = BS * b + (at % BS) /\ b \in Nat /\ at % BS \in Nat
        BY <1>2, BlockOf
      <4>2. BS * b \in Nat /\ BS \in Nat /\ BS >= 1
        BY <4>1, Sizes
      <4>3. unit = BS * b
        BY <1>2, <1>4, <3>2, <4>1, <4>2
      <4>4. (BS * b + 0) \div BS = b
        BY <4>1, <4>2, Unique
      <4> QED BY <4>2, <4>3, <4>4 DEF Block
    <3> HIDE DEF d, unit, b
    <3>5. dev'.bad_map = dev.bad_map \cup {b} /\ dev'.bad_cnt # 0 /\ dev'.offset = at + BS
      BY <1>3, <1>4, <3>1, <3>2, <3>3, <3>4
    <3>6. GetLogicAddr(dev.offset)' = GetLogicAddr(at)
      <4>1. GetLogicAddr(dev.offset)' = GetLogicAddr(at + BS)' /\ Block(at) = b
        BY <3>5 DEF b, GetLogicAddr
      <4> QED BY <1>1, <1>3, <3>2, <3>3, <3>5, <4>1, MapGrows
    <3>7. ASSUME NEW k \in 0 .. c.total - 1
          PROVE  \E p \in Addr : At(p, s + k)' /\ flash'[p] = <<c.n, k>>
      <4>1. at % BS = 0 /\ k \in Nat /\ k < c.total /\ at = BS * b
        <5>1. at % BS = 0 /\ k \in Nat /\ k < c.total
          BY <1>2, <1>4, <1>9, <3>2, <3>7
        <5> QED BY <1>2, <1>4, <3>2, <3>4, <5>1 DEF unit
      <4>2. PICK p \in Addr : At(p, s + k) /\ flash[p] = <<c.n, k>>
        BY <1>5, <3>2, <3>7
      <4>3. p \in Nat /\ p < Size /\ Block(p) \in Nat /\ p % BS \in Nat /\ p % BS < BS
            /\ p = BS * Block(p) + (p % BS)
        <5>1. p \in Nat /\ p < Size
          BY Sizes DEF Addr
        <5> QED BY <5>1, BlockOf
      <4>4. Block(p) < b
        <5>1. CASE Block(p) >= b
          <6>1. GoodBefore(b) <= GoodBefore(Block(p)) /\ GoodBefore(b) \in Nat
                /\ GoodBefore(Block(p)) \in Nat
            BY <3>3, <4>3, <5>1, GoodMono, GoodType
          <6>2. BS * GoodBefore(b) <= BS * GoodBefore(Block(p)) /\ BS * GoodBefore(b) \in Nat
                /\ BS * GoodBefore(Block(p)) \in Nat
            BY <6>1, Sizes
          <6>3. GetLogicAddr(at) = BS * GoodBefore(b) + 0
            BY <1>2, <1>3, <1>9, <3>2, <4>1, LogicNand, Sizes DEF b
          <6>4. s + k = BS * GoodBefore(Block(p)) + (p % BS)
            BY <1>3, <3>2, <4>2, <4>3, LogicNand, Sizes DEF At
          <6>5. s \in Nat /\ GetLogicAddr(at) = s + c.total
            BY <1>5, <3>2
          <6> QED BY <1>2, <4>1, <4>3, <6>2, <6>3, <6>4, <6>5
        <5> QED BY <3>3, <4>3, <5>1
      <4>5. p < unit
        <5>1. BS * (Block(p) + 1) <= BS * b
          BY <3>3, <4>3, <4>4, Sizes
        <5>2. BS * Block(p) + BS <= BS * b
          BY <4>3, <5>1, Sizes
        <5> QED BY <3>4, <4>3, <5>2, Sizes
      <4>6. GetLogicAddr(p)' = GetLogicAddr(p) /\ (Good(p)' <=> Good(p))
        BY <1>1, <1>3, <3>2, <3>3, <3>5, <4>4, MapGrows
      <4>7. At(p, s + k)'
        <5>1. p \in Addr'
          BY DEF Addr, Size
        <5> QED BY <4>2, <4>6, <5>1 DEF At
      <4>8. flash'[p] = flash[p]
        <5>1. p \notin unit .. unit + Unit - 1
          BY <1>2, <1>4, <4>1, <4>3, <4>5, <3>4
        <5> QED BY <1>9, <5>1 DEF Filled
      <4> QED BY <4>2, <4>7, <4>8
    <3> QED BY <1>2, <1>5, <2>1, <2>2, <3>2, <3>6, <3>7 DEF WriteOK, Kept
  <2> QED BY <2>3, <2>4
<1>10. CASE /\ c.total < c.len /\ at < Size /\ ~(kind = "nand" /\ IsBad(at)) /\ flash' = merged
            /\ dev' = [dev EXCEPT !.offset = @ + n] /\ call' = [call EXCEPT ![t].total = @ + n]
            /\ UNCHANGED <<bad, unmarked, fails>>
  <2>1. n \in Nat /\ 1 <= n /\ n <= Unit - (at % Unit)
    BY <1>1, <1>10, WriteSizeOK DEF Inv, Calls
  <2>2. Least(at + n, unit + Unit) = at + n
    <3>1. unit + Unit = at + (Unit - (at % Unit))
      BY <1>2, <1>4
    <3> HIDE DEF n, unit
    <3> QED BY <1>2, <1>4, <2>1, <3>1 DEF Least
  <2>3. \A a \in Addr : flash'[a] = IF a \in at .. at + n - 1 THEN <<c.n, c.total + a - at>> ELSE flash[a]
    <3>1. flash' = merged
      BY <1>10
    <3>2. ASSUME NEW a \in Addr
          PROVE  flash'[a] = IF a \in at .. at + n - 1 THEN <<c.n, c.total + a - at>> ELSE flash[a]
      <4>1. flash'[a] = IF a \in at .. Least(at + n, unit + Unit) - 1
                        THEN <<c.n, c.total + a - at>> ELSE flash[a]
        BY <3>1
      <4> HIDE DEF n, unit
      <4> QED BY <1>2, <2>1, <2>2, <4>1
    <3> QED BY <3>2
  <2> HIDE DEF n, unit, merged
  <2>4. Keep(t, {"total"}) /\ call'[t].total = c.total + n
    BY <1>10, SetTotal DEF Inv
  <2>5. /\ call'[t].op = c.op /\ call'[t].n = c.n /\ call'[t].start = c.start /\ call'[t].pc = c.pc
        /\ call'[t].before = c.before /\ call'[t].failed = c.failed
    BY <2>4 DEF Keep, Fields
  <2>6. at \in Addr /\ Good(at) /\ n <= BS
    <3>1. at \in Nat /\ at < Size /\ ~(kind = "nand" /\ IsBad(at))
      BY <1>2, <1>10
    <3>2. at \in Addr
      BY <3>1, Sizes DEF Addr
    <3>3. Good(at)
      BY <1>3, <3>1 DEF Good, IsBad
    <3>4. n <= BS
      BY <1>2, <1>4, <2>1, Sizes
    <3> QED BY <3>2, <3>3, <3>4
  <2>7. at + n \in 0 .. Size + BS
    BY <1>2, <1>10, <2>1, <2>6, Sizes
  <2>8. SameMap /\ dev'.offset = at + n
    BY <1>1, <1>10, <2>7, OffsetSet DEF Inv, SameMap
  <2>9. GetLogicAddr(dev.offset)' = GetLogicAddr(at) + n
    <3>1. GetLogicAddr(dev.offset)' = GetLogicAddr(at + n)
      BY <2>8, SameAddresses
    <3> QED BY <1>3, <2>1, <2>6, <3>1, Ahead
  <2>10. \A j \in Nat : j < n => At(at + j, GetLogicAddr(at) + j)
    BY <1>3, <2>1, <2>6, Ahead
  <2>11. CASE unmarked
    BY <1>10, <2>11 DEF WriteOK
  <2>12. CASE ~unmarked
    <3>1. ASSUME NEW k \in 0 .. c.total + n - 1
          PROVE  \E p \in Addr : At(p, s + k)' /\ flash'[p] = <<c.n, k>>
      <4>1. CASE k < c.total
        <5>1. k \in 0 .. c.total - 1 /\ s + k \in Int /\ s + k < GetLogicAddr(at)
          BY <1>2, <1>5, <2>1, <2>12, <4>1
        <5>2. PICK p \in Addr : At(p, s + k) /\ flash[p] = <<c.n, k>>
          BY <1>5, <2>12, <5>1
        <5>3. \A e \in Addr : e \notin at .. at + n - 1 => flash'[e] = flash[e]
          BY <2>3
        <5>4. At(p, s + k)' /\ flash'[p] = flash[p]
          BY <1>3, <2>1, <2>6, <2>8, <5>1, <5>2, <5>3, Behind
        <5> QED BY <5>2, <5>4
      <4>2. CASE k >= c.total
        <5>0. PICK j, p : j = k - c.total /\ p = at + j
          OBVIOUS
        <5>1. j \in Nat /\ j < n /\ GetLogicAddr(at) + j = s + k /\ c.total + p - at = k
              /\ p \in at .. at + n - 1
          BY <1>2, <1>5, <2>1, <2>12, <4>2, <5>0
        <5>2. At(p, s + k)
          BY <2>10, <5>0, <5>1
        <5>3. p \in Addr /\ At(p, s + k)'
          BY <2>8, <5>2, SameAt DEF At
        <5>4. flash'[p] = <<c.n, k>>
          BY <2>3, <5>1, <5>3
        <5> QED BY <5>3, <5>4
      <4> QED BY <1>2, <2>1, <4>1, <4>2
    <3>2. ASSUME ~c.failed, NEW a \in Addr
          PROVE  flash'[a] = c.before[a] \/ \E k \in 0 .. c.total + n - 1 : At(a, s + k)'
      <4>1. CASE a \in at .. at + n - 1
        <5>0. PICK j, k : j = a - at /\ k = c.total + j
          OBVIOUS
        <5>1. j \in Nat /\ j < n /\ at + j = a /\ GetLogicAddr(at) + j = s + k
              /\ k \in 0 .. c.total + n - 1
          BY <1>2, <1>5, <2>1, <2>12, <4>1, <5>0
        <5>2. At(a, s + k)
          BY <2>10, <5>1
        <5>3. At(a, s + k)'
          BY <2>8, <5>2, SameAt
        <5> QED BY <5>1, <5>3
      <4>2. CASE a \notin at .. at + n - 1
        <5>1. flash'[a] = flash[a]
          BY <2>3, <4>2
        <5>2. CASE flash[a] = c.before[a]
          BY <5>1, <5>2
        <5>3. CASE \E k \in 0 .. c.total - 1 : At(a, s + k)
          <6>1. PICK k \in 0 .. c.total - 1 : At(a, s + k)
            BY <5>3
          <6>2. k \in 0 .. c.total + n - 1
            BY <1>2, <2>1
          <6>3. At(a, s + k)'
            BY <2>8, <6>1, SameAt
          <6> QED BY <6>2, <6>3
        <5> QED BY <1>5, <2>12, <3>2, <5>2, <5>3
      <4> QED BY <4>1, <4>2
    <3>3. call'[t].start \in Nat /\ GetLogicAddr(dev.offset)' = call'[t].start + call'[t].total
      BY <1>2, <1>5, <2>1, <2>4, <2>5, <2>9, <2>12
    <3>4. Addr' = Addr /\ call'[t].total - 1 = c.total + n - 1 /\ call'[t].start = s
      BY <1>2, <2>1, <2>4, <2>5 DEF Addr, Size
    <3>5. \A k \in 0 .. call'[t].total - 1 :
            \E p \in Addr' : At(p, c.start + k)' /\ flash'[p] \in Kept(c, k)'
      BY <1>2, <2>5, <3>1, <3>4 DEF Kept
    <3>6. ~call'[t].failed =>
            \A a \in Addr' : \/ flash'[a] = call'[t].before[a]
                              \/ \E k \in 0 .. call'[t].total - 1 : At(a, c.start + k)'
      BY <2>5, <3>2, <3>4
    <3> QED BY <3>3, <3>5, <3>6 DEF WriteOK
  <2> QED BY <1>2, <2>11, <2>12
<1> QED BY <1>6, <1>7, <1>8, <1>9, <1>10 DEF WriteStep

LEMMA NoEraseStepOK == ASSUME Inv, NEW t \in Threads, WriteOK(t), NoEraseStep(t) PROVE WriteOK(t)'
<1> DEFINE c == call[t]
           skip == kind = "nand" /\ IsBad(dev.offset)
           to == IF skip THEN CHOOSE x \in NextGood(dev.offset) : \A y \in NextGood(dev.offset) : x <= y
                         ELSE dev.offset
           some == Least(c.len - c.total, BS - (to % BS))
\* s is the start, at where the round programs and size how much.
<1> HIDE DEF to, some
<1>0. PICK s, at, size : s = call[t].start /\ at = to /\ size = some
  OBVIOUS
<1> USE DEF to, some
<1> DEFINE val(k) == <<c.n, c.total + k>>
<1>1. UNCHANGED <<kind, bad, unmarked, users>> /\ c.pc = "noerase"
  BY DEF NoEraseStep
<1>2. /\ c.len \in Nat /\ c.total \in Nat /\ c.op \in {"write_no_erase", "lock_write"} /\ t \in users
      /\ dev.offset \in Nat /\ flash \in [Addr -> Cell] /\ unmarked \in BOOLEAN
  <2>1. CallOK(t) /\ Holds(t)
    BY DEF Inv, Calls
  <2> QED BY <1>1, <2>1, Sizes DEF CallOK, Holds, Inv, DevOK
<1>3. MapSane /\ dev.bad_map = bad
  BY <1>2, OpenIsSane DEF Inv, MapOK
<1>4. ~unmarked =>
      /\ s \in Nat /\ GetLogicAddr(dev.offset) = s + c.total
      /\ \A k \in 0 .. c.total - 1 : \E p \in Addr : At(p, s + k) /\ flash[p] \in {<<c.n, k>>, Junk}
  BY <1>0, <1>1, <1>2 DEF WriteOK, Kept
<1>5. CASE call' = [call EXCEPT ![t].pc = "spin"]
  BY <1>5, SetPc DEF WriteOK, Inv
<1>6. CASE call' = [call EXCEPT ![t].pc = "ret"] /\ UNCHANGED <<flash, dev, fails>>
  <2>1. Keep(t, {"pc"}) /\ call'[t].pc = "ret"
    BY <1>6, SetPc DEF Inv
  <2>2. /\ call'[t].op = c.op /\ call'[t].n = c.n /\ call'[t].start = c.start
        /\ call'[t].total = c.total /\ call'[t].before = c.before /\ call'[t].failed = c.failed
    BY <2>1 DEF Keep, Fields
  <2> QED BY <1>1, <1>6, <2>1, <2>2, WriteKeeps DEF SameMap
<1>7. CASE c.total < c.len /\ dev.offset < Size /\ ~(skip /\ NextGood(dev.offset) = {})
  <2>1. at \in Addr /\ Good(at) /\ GetLogicAddr(at) = GetLogicAddr(dev.offset)
    <3>1. dev.offset \in Addr
      BY <1>2, <1>7, Sizes DEF Addr
    <3>2. CASE skip
      BY <1>0, <1>3, <1>7, <3>1, <3>2, SkipRun
    <3>3. CASE ~skip
      BY <1>0, <1>3, <1>7, <3>1, <3>3 DEF Good, IsBad
    <3> QED BY <3>2, <3>3
  <2>2. /\ at \in Nat /\ at < Size /\ at % BS \in Nat /\ size \in Nat /\ size <= BS - (at % BS)
        /\ size <= BS
    <3>1. at \in Nat /\ at < Size
      BY <2>1, Sizes DEF Addr
    <3>2. at % BS \in Nat /\ at % BS < BS
      BY <3>1, BlockOf
    <3>3. PICK r : r = at % BS
      OBVIOUS
    <3>4. size = IF c.len - c.total < BS - r THEN c.len - c.total ELSE BS - r
      BY <1>0, <3>3 DEF Least
    <3>5. size \in Nat /\ size <= BS - r /\ size <= BS
      BY <1>2, <1>7, <3>2, <3>3, <3>4, Sizes
    <3> QED BY <3>1, <3>2, <3>3, <3>5
  <2>3. at \in 0 .. Size + BS /\ at + size \in 0 .. Size + BS
    BY <2>2, Sizes
  \* What was stored before this round is still there.
  <2>4. ASSUME ~unmarked, SameMap, NEW k \in 0 .. c.total - 1,
               \A e \in Addr : e \notin at .. at + size - 1 => flash'[e] = flash[e]
        PROVE  \E p \in Addr : At(p, s + k)' /\ flash'[p] \in {<<c.n, k>>, Junk}
    <3>1. PICK p \in Addr : At(p, s + k) /\ flash[p] \in {<<c.n, k>>, Junk}
      BY <1>4, <2>4
    <3>2. s + k \in Int /\ s + k < GetLogicAddr(at)
      BY <1>2, <1>4, <2>1, <2>4
    <3>3. At(p, s + k)' /\ flash'[p] = flash[p]
      BY <1>3, <2>1, <2>2, <2>4, <3>1, <3>2, Behind
    <3> QED BY <3>1, <3>3
  <2>5. CASE /\ call' = [call EXCEPT ![t].pc = "ret"] /\ dev' = [dev EXCEPT !.offset = to]
             /\ flash' \in {flash, Filled(to, some, Junk)}
    <3>1. Keep(t, {"pc"}) /\ call'[t].pc = "ret"
      BY <2>5, SetPc DEF Inv
    <3>2. call'[t].op = c.op /\ call'[t].n = c.n /\ call'[t].start = s /\ call'[t].total = c.total
      BY <1>0, <3>1 DEF Keep, Fields
    <3>3. SameMap
      <4>1. dev' = [dev EXCEPT !.offset = at]
        BY <1>0, <2>5
      <4> QED BY <1>1, <2>3, <4>1, OffsetSet DEF Inv, SameMap
    <3>4. \A e \in Addr : e \notin at .. at + size - 1 => flash'[e] = flash[e]
      <4>1. flash' \in {flash, Filled(at, size, Junk)}
        BY <1>0, <2>5
      <4> QED BY <4>1 DEF Filled
    <3>5. ASSUME ~unmarked, NEW k \in 0 .. call'[t].total - 1
          PROVE  \E p \in Addr' : At(p, c.start + k)' /\ flash'[p] \in Kept(c, k)'
      <4>1. \E p \in Addr : At(p, s + k)' /\ flash'[p] \in {<<c.n, k>>, Junk}
        BY <2>4, <3>2, <3>3, <3>4, <3>5
      <4> QED BY <1>2, <3>2, <4>1 DEF Kept, Addr, Size
    <3> QED BY <1>1, <1>2, <3>1, <3>2, <3>5 DEF WriteOK
  <2>6. CASE /\ flash' = Programmed(to, some, val) /\ dev' = [dev EXCEPT !.offset = to + some]
             /\ call' = [call EXCEPT ![t].total = @ + some] /\ UNCHANGED fails
    <3>1. Keep(t, {"total"}) /\ call'[t].total = c.total + size
      <4> HIDE DEF to, some
      <4>1. call' = [call EXCEPT ![t].total = @ + size]
        BY <1>0, <2>6
      <4> QED BY <4>1, SetTotal DEF Inv
    <3>2. call'[t].op = c.op /\ call'[t].n = c.n /\ call'[t].start = s /\ call'[t].pc = c.pc
      BY <1>0, <3>1 DEF Keep, Fields
    <3>3. SameMap /\ dev'.offset = at + size
      <4> HIDE DEF to, some
      <4>1. dev' = [dev EXCEPT !.offset = at + size]
        BY <1>0, <2>6
      <4> QED BY <1>1, <2>3, <4>1, OffsetSet DEF Inv, SameMap
    <3>4. \A e \in Addr : flash'[e] = IF e \in at .. at + size - 1
                                     THEN IF flash[e] = FF THEN <<c.n, c.total + (e - at)>> ELSE Junk
                                     ELSE flash[e]
      <4>1. \A e \in Addr : flash'[e] = IF e \in to .. to + some - 1
                                       THEN IF flash[e] = FF THEN <<c.n, c.total + (e - to)>> ELSE Junk
                                       ELSE flash[e]
        BY <2>6 DEF Programmed
      <4> QED BY <1>0, <4>1
    <3>5. GetLogicAddr(dev.offset)' = GetLogicAddr(at) + size
      <4>1. GetLogicAddr(dev.offset)' = GetLogicAddr(at + size)
        BY <3>3, SameAddresses
      <4> QED BY <1>3, <2>1, <2>2, <4>1, Ahead
    <3>6. ASSUME ~unmarked, NEW k \in 0 .. c.total + size - 1
          PROVE  \E p \in Addr : At(p, s + k)' /\ flash'[p] \in {<<c.n, k>>, Junk}
      <4>1. CASE k < c.total
        <5>1. k \in 0 .. c.total - 1
          BY <1>2, <2>2, <4>1
        <5> QED BY <2>4, <3>3, <3>4, <3>6, <5>1
      <4>2. CASE k >= c.total
        <5>0. PICK j, p : j = k - c.total /\ p = at + j
          OBVIOUS
        <5>1. j \in Nat /\ j < size /\ GetLogicAddr(at) + j = s + k /\ c.total + (p - at) = k
              /\ p \in at .. at + size - 1
          BY <1>2, <1>4, <2>1, <2>2, <3>6, <4>2, <5>0
        <5>2. At(p, s + k)
          BY <1>3, <2>1, <2>2, <5>0, <5>1, Ahead
        <5>3. p \in Addr /\ At(p, s + k)'
          BY <3>3, <5>2, SameAt DEF At
        <5>4. flash'[p] \in {<<c.n, k>>, Junk}
          BY <3>4, <5>1, <5>3
        <5> QED BY <5>3, <5>4
      <4> QED BY <1>2, <2>2, <4>1, <4>2
    <3>7. ASSUME ~unmarked, NEW k \in 0 .. call'[t].total - 1
          PROVE  \E p \in Addr' : At(p, c.start + k)' /\ flash'[p] \in Kept(c, k)'
      <4>1. \E p \in Addr : At(p, s + k)' /\ flash'[p] \in {<<c.n, k>>, Junk}
        BY <1>2, <2>2, <3>1, <3>6, <3>7
      <4> QED BY <1>2, <3>2, <4>1 DEF Kept, Addr, Size
    <3>8. ~unmarked => call'[t].start \in Nat
                       /\ GetLogicAddr(dev.offset)' = call'[t].start + call'[t].total
      BY <1>2, <1>4, <2>1, <2>2, <3>1, <3>2, <3>5
    <3> QED BY <1>1, <1>2, <3>2, <3>7, <3>8 DEF WriteOK
  <2> QED BY <1>6, <1>7, <2>5, <2>6 DEF NoEraseStep
<1> QED BY <1>5, <1>6, <1>7 DEF NoEraseStep

LEMMA ReadStepOp == ASSUME Inv, NEW t \in Threads, ReadStep(t) PROVE call'[t].op = call[t].op
<1>1. Shape
  BY DEF Inv
<1>2. ASSUME NEW v, call' = [call EXCEPT ![t].pc = v] PROVE call'[t].op = call[t].op
  BY <1>1, <1>2 DEF Shape, Fields
<1>3. ASSUME NEW v, NEW w, NEW x,
             call' = [call EXCEPT ![t].buf = v, ![t].total = w, ![t].failed = x]
      PROVE  call'[t].op = call[t].op
  BY <1>1, <1>3 DEF Shape, Fields
<1> DEFINE c == call[t]
           size == Least(c.len - c.total, BS - (dev.offset % BS))
           put(ok) == c.buf \o [k \in 1 .. size |-> IF ok THEN flash[dev.offset + k - 1] ELSE Unread]
<1>4. ASSUME NEW ok \in BOOLEAN,
             call' = [call EXCEPT ![t].buf = put(ok), ![t].total = @ + size, ![t].failed = @ \/ ~ok]
      PROVE  call'[t].op = call[t].op
  <2> HIDE DEF put, size
  <2>1. call' = [call EXCEPT ![t].buf = put(ok), ![t].total = call[t].total + size,
                             ![t].failed = call[t].failed \/ ~ok]
    BY <1>1, <1>4 DEF Shape, Fields
  <2> QED BY <1>3, <2>1
<1> QED BY <1>2, <1>4 DEF ReadStep

LEMMA WritesNext == Inv /\ Writes /\ [Next]_vars => Writes'
<1> SUFFICES ASSUME Inv, Writes, [Next]_vars, NEW t \in Threads PROVE WriteOK(t)'
  BY DEF Writes
<1>1. WriteOK(t) /\ CallOK(t)
  BY DEF Writes, Inv, Calls
<1>2. ASSUME call'[t].op \in {"none", "read", "lock_read", "erase"} \/ call'[t].pc = "seeklock"
      PROVE  WriteOK(t)'
  BY <1>2 DEF WriteOK
<1>3. ASSUME NEW u \in Threads, u # t, Begin(u) \/ LockSeek(u) \/ LockWr(u) \/ Run(u)
      PROVE  WriteOK(t)'
  <2>1. CASE Waits(t)
    <3>1. call'[t] = call[t]
      BY <1>3, StepOthers DEF Others
    <3>2. call[t].op = "none" \/ call[t].pc = "seeklock"
      BY <1>1, <2>1 DEF Waits, CallOK
    <3> QED BY <1>2, <3>1, <3>2
  <2>2. CASE ~Waits(t)
    BY <1>1, <1>3, <2>2, OthersStill, WriteStill
  <2> QED BY <2>1, <2>2
<1>4. CASE Begin(t)
  <2>1. (Open(t) \/ Close(t) \/ \E off, w : Lseek(t, off, w)) => WriteOK(t)'
    <3>1. (Open(t) \/ Close(t) \/ \E off, w : Lseek(t, off, w)) => call' = call /\ call[t].pc = "idle"
      BY DEF Open, Close, Lseek, MayCall, Inv, Calls, Holds
    <3>2. call[t].pc = "idle" => call[t].op = "none"
      BY <1>1 DEF CallOK
    <3> QED BY <1>2, <3>1, <3>2
  <2>2. ASSUME NEW len, Read(t, len) PROVE WriteOK(t)'
    <3>1. call'[t].op = "read"
      BY <2>2 DEF Read, Enter, Idle, Inv, Shape
    <3> QED BY <1>2, <3>1
  <2>3. ASSUME NEW off, NEW len, Erase(t, off, len) PROVE WriteOK(t)'
    <3>1. call'[t].op = "erase"
      BY <2>3 DEF Erase, Enter, Idle, Inv, Shape
    <3> QED BY <1>2, <3>1
  <2>4. ASSUME NEW op, NEW off, NEW w, NEW len, NEW flag, LockCall(t, op, off, w, len, flag)
        PROVE  WriteOK(t)'
    <3>1. call'[t].pc = "seeklock"
      BY <2>4 DEF LockCall, Enter, Idle, Inv, Shape
    <3> QED BY <1>2, <3>1
  <2> QED BY <1>4, <2>1, <2>2, <2>3, <2>4, WriteBegins DEF Begin
<1>5. CASE LockSeek(t)
  BY <1>5, WriteSeeks
<1>6. CASE LockWr(t)
  <2>1. Keep(t, {"pc"}) /\ call'[t].pc \in {"write", "noerase"} /\ call[t].pc = "wrlock"
    BY <1>6, SetPc DEF LockWr, Inv
  <2>2. /\ call'[t].op = call[t].op /\ call'[t].n = call[t].n /\ call'[t].start = call[t].start
        /\ call'[t].total = call[t].total /\ call'[t].before = call[t].before
        /\ call'[t].failed = call[t].failed
    BY <2>1 DEF Keep, Fields
  <2>3. SameMap /\ UNCHANGED <<flash, unmarked, dev>>
    BY <1>6 DEF LockWr, SameMap
  <2>4. GetLogicAddr(dev.offset)' = GetLogicAddr(dev.offset)
    BY <2>3, SameAddresses
  <2> QED BY <1>1, <2>1, <2>2, <2>3, <2>4, WriteKeeps
<1>7. CASE ReadStep(t)
  <2>1. call[t].op \in {"read", "lock_read"}
    BY <1>1, <1>7 DEF ReadStep, CallOK
  <2>2. call'[t].op = call[t].op
    BY <1>7, ReadStepOp
  <2> QED BY <1>2, <2>1, <2>2
<1>8. CASE EraseStep(t)
  <2>1. call[t].op = "erase"
    BY <1>1, <1>8 DEF EraseStep, CallOK
  <2>2. call'[t].op = call[t].op
    BY <1>8 DEF EraseStep, EraseFails, Inv, Shape, Fields
  <2> QED BY <1>2, <2>1, <2>2
<1>9. CASE Return(t)
  <2>1. call'[t].op = "none"
    BY <1>9 DEF Return, Inv, Shape, Idle
  <2> QED BY <1>2, <2>1
<1>10. CASE UNCHANGED vars
  <2>1. Still(t)
    BY <1>10 DEF vars, Still, SameMap
  <2> QED BY <1>1, <2>1, WriteStill
<1>11. WriteStep(t) \/ NoEraseStep(t) => WriteOK(t)'
  BY <1>1, WriteStepOK, NoEraseStepOK
<1> QED BY <1>3, <1>4, <1>5, <1>6, <1>7, <1>8, <1>9, <1>10, <1>11 DEF Next, Run

\* What alislsto_write, alislsto_write_no_erase and alislsto_lock_write say they
\* wrote is found again at the logical addresses they were asked to write to, by
\* the library's own translation and whatever blocks its update_bbt marked bad
\* on the way; and an alislsto_write that nothing failed in has changed no other
\* unit, the rest of its first and last erase unit included.
THEOREM WritesAreStored == Spec => []WriteStored
<1>1. Init => Writes
  BY DEF Init, Writes, WriteOK, Idle
<1>2. Inv /\ Writes => WriteStored
  <2> SUFFICES ASSUME Inv, Writes, NEW t \in Threads, call[t].pc = "ret", ~unmarked,
                      call[t].op \in {"write", "write_no_erase", "lock_write"}
               PROVE  /\ \A k \in 0 .. call[t].total - 1 :
                           Held(GetPhyAddr(call[t].start + k)) \in Kept(call[t], k)
                      /\ call[t].op = "write" /\ call[t].total = call[t].len /\ ~call[t].failed =>
                           \A a \in Addr \ Span(call[t].start, call[t].len) :
                             flash[a] = call[t].before[a]
    BY DEF WriteStored, Kept
  <2>1. MapSane
    BY OpenIsSane DEF Inv, Calls, Holds
  <2>2. WriteOK(t)
    BY DEF Writes
  <2>3. ASSUME NEW k \in 0 .. call[t].total - 1
        PROVE  Held(GetPhyAddr(call[t].start + k)) \in Kept(call[t], k)
    <3>1. PICK p \in Addr : At(p, call[t].start + k) /\ flash[p] \in Kept(call[t], k)
      BY <2>2 DEF WriteOK
    <3> QED BY <2>1, <3>1, PhyAt DEF Held
  <2>4. ASSUME call[t].op = "write", call[t].total = call[t].len, ~call[t].failed,
               NEW a \in Addr \ Span(call[t].start, call[t].len)
        PROVE  flash[a] = call[t].before[a]
    <3> SUFFICES ASSUME NEW k \in 0 .. call[t].total - 1, At(a, call[t].start + k) PROVE FALSE
      BY <2>2, <2>4 DEF WriteOK
    <3>1. GetPhyAddr(call[t].start + k) = a
      BY <2>1, PhyAt
    <3> QED BY <2>4, <3>1 DEF Span
  <2> QED BY <2>3, <2>4
<1> QED BY <1>1, <1>2, InitInv, NextInv, WritesNext, PTL DEF Spec

-----------------------------------------------------------------------------
(* Erasing.                                                                *)

\* The m units from logical address s on are erased, and a unit that differs
\* from what it was is one of them or in a bad block.
Erased(s, m, before) ==
  /\ \A k \in 0 .. m - 1 : \E p \in Addr : At(p, s + k) /\ flash[p] = FF
  /\ \A a \in Addr : \/ flash[a] = before[a] \/ Block(a) \in bad
                     \/ \E k \in 0 .. m - 1 : At(a, s + k)

\* Where an erase call has got to, and when it reports success.
EraseOK(t) ==
  LET c == call[t] IN
  ~unmarked /\ c.op = "erase" =>
    /\ c.start \in Nat /\ c.len % BS = 0 /\ c.total <= c.len \div Unit
    /\ c.off \in 0 .. Size /\ c.off % Unit = 0
    /\ GetLogicAddr(c.off) = c.start + c.total * Unit
    /\ Erased(c.start, c.total * Unit, c.before)
    /\ c.pc = "ret" /\ c.result = "none" =>
         c.total = c.len \div Unit \/ (c.off = Size /\ c.start = 0 /\ c.len >= dev.logic)

Erases == \A t \in Threads : EraseOK(t)

LEMMA ErasedStill ==
  ASSUME SameMap, UNCHANGED <<flash, bad>>, NEW s, NEW m, NEW before, Erased(s, m, before)
  PROVE  Erased(s, m, before)'
<1>1. \A p, x : At(p, x)' <=> At(p, x)
  BY SameAt
<1> QED BY <1>1 DEF Erased, Addr, Size, Block

LEMMA EraseStill == ASSUME NEW t \in Threads, EraseOK(t), Still(t) PROVE EraseOK(t)'
<1>0. PICK s, m, off, before : /\ s = call[t].start /\ m = call[t].total * Unit
                               /\ off = call[t].off /\ before = call[t].before
  OBVIOUS
<1>1. Erased(s, m, before) => Erased(s, m, before)'
  BY ErasedStill DEF Still
<1>2. GetLogicAddr(off)' = GetLogicAddr(off) /\ Unit' = Unit
  BY SameAddresses DEF Still, SameMap, Unit
<1> QED BY <1>0, <1>1, <1>2 DEF EraseOK, Still, Size

\* What is a whole number of blocks is a whole number of erase units.
LEMMA UnitDivides == ASSUME NEW a \in Nat, a % BS = 0 PROVE a % Unit = 0
<1>1. CASE kind # "nor"
  BY <1>1 DEF Unit
<1>2. CASE kind = "nor"
  <2>1. Sector \in Nat /\ Sector >= 1 /\ BS \in Nat /\ BS >= 1 /\ BS % Sector = 0
    BY SizesAreBlocks
  <2>2. PICK q \in Nat : BS = Sector * q
    BY <2>1, Split
  <2>3. PICK r \in Nat : a = BS * r
    <3>1. a \div BS \in Nat /\ a = BS * (a \div BS) + (a % BS)
      BY <2>1, Split
    <3>2. a = BS * (a \div BS)
      BY <2>1, <3>1
    <3> QED BY <3>1, <3>2
  <2>4. q * r \in Nat /\ a = Sector * (q * r) + 0
    BY <2>1, <2>2, <2>3
  <2>5. (Sector * (q * r) + 0) % Sector = 0
    BY <2>1, <2>4, Unique
  <2> QED BY <1>2, <2>4, <2>5 DEF Unit
<1> QED BY <1>1, <1>2

\* A round that erases a good unit.
LEMMA ErasedUnit ==
  ASSUME MapSane, SameMap, bad' = bad, NEW off \in Addr, Good(off), off % Unit = 0,
         flash' = Filled(off, Unit, FF), NEW s \in Nat, NEW m \in Nat, GetLogicAddr(off) = s + m,
         NEW before, Erased(s, m, before)
  PROVE  Erased(s, m + Unit, before)' /\ GetLogicAddr(off + Unit)' = s + m + Unit
<1>1. Unit \in Nat /\ Unit >= 1 /\ off \in Nat /\ Unit <= Unit - (off % Unit) /\ Unit' = Unit
  BY Sizes DEF Addr, SameMap, Unit
<1>2. \A e \in Addr : flash'[e] = IF e \in off .. off + Unit - 1 THEN FF ELSE flash[e]
  BY DEF Filled
<1>3. GetLogicAddr(off + Unit) = s + m + Unit /\ \A j \in Nat : j < Unit => At(off + j, s + m + j)
  BY <1>1, Ahead
<1>4. \A x : GetLogicAddr(x)' = GetLogicAddr(x)
  BY SameAddresses
<1>5. \A p, x : At(p, x)' <=> At(p, x)
  BY SameAt
<1>6. PICK u : u = Unit
  OBVIOUS
<1>7. ASSUME NEW k \in 0 .. m + u - 1 PROVE \E p \in Addr : At(p, s + k)' /\ flash'[p] = FF
  <2>1. CASE k < m
    <3>1. PICK p \in Addr : At(p, s + k) /\ flash[p] = FF
      <4>1. k \in 0 .. m - 1
        BY <1>1, <1>6, <2>1
      <4> QED BY <4>1 DEF Erased
    <3>2. flash'[p] = FF
      BY <1>2, <3>1
    <3> QED BY <1>5, <3>1, <3>2
  <2>2. CASE k >= m
    <3>0. PICK j, p : j = k - m /\ p = off + j
      OBVIOUS
    <3>1. j \in Nat /\ j < Unit /\ s + m + j = s + k /\ p \in off .. off + Unit - 1
      BY <1>1, <1>6, <2>2, <3>0
    <3>2. At(p, s + k)
      BY <1>3, <3>0, <3>1
    <3>3. p \in Addr /\ flash'[p] = FF
      BY <1>2, <3>1, <3>2 DEF At
    <3> QED BY <1>5, <3>2, <3>3
  <2> QED BY <1>1, <1>6, <2>1, <2>2
<1>8. ASSUME NEW a \in Addr
      PROVE  flash'[a] = before[a] \/ Block(a) \in bad' \/ \E k \in 0 .. m + u - 1 : At(a, s + k)'
  <2>1. CASE a \in off .. off + Unit - 1
    <3>0. PICK j, k : j = a - off /\ k = m + j
      OBVIOUS
    <3>1. j \in Nat /\ j < Unit /\ s + m + j = s + k /\ off + j = a /\ k \in 0 .. m + u - 1
      BY <1>1, <1>6, <2>1, <3>0
    <3>2. At(a, s + k)
      BY <1>3, <3>1
    <3> QED BY <1>5, <3>1, <3>2
  <2>2. CASE a \notin off .. off + Unit - 1
    <3>1. flash'[a] = flash[a]
      BY <1>2, <2>2
    <3>2. 0 .. m - 1 \subseteq 0 .. m + u - 1
      BY <1>1, <1>6
    <3> QED BY <1>5, <3>1, <3>2 DEF Erased
  <2> QED BY <2>1, <2>2
<1>9. Erased(s, m + u, before)'
  <2>1. PICK n \in Nat : n = m + u /\ u \in Nat
    BY <1>1, <1>6
  <2>2. Erased(s, n, before)'
    <3>1. \A k \in 0 .. n - 1 : \E p \in Addr : At(p, s + k)' /\ flash'[p] = FF
      BY <1>7, <2>1
    <3>2. \A a \in Addr : \/ flash'[a] = before[a] \/ Block(a) \in bad'
                           \/ \E k \in 0 .. n - 1 : At(a, s + k)'
      BY <1>8, <2>1
    <3> QED BY <3>1, <3>2 DEF Erased, Addr, Size, Block
  <2> QED BY <2>1, <2>2
<1> QED BY <1>1, <1>3, <1>4, <1>6, <1>9

\* A round whose erase fails, the block being marked bad.
LEMMA ErasedBad ==
  ASSUME MapSane, kind = "nand", kind' = kind, NEW off \in Addr, off % BS = 0, NEW b,
         b = Block(off), dev'.bad_map = dev.bad_map \cup {b}, dev'.bad_cnt # 0,
         bad' = bad \cup {b}, flash' = Filled(off, BS, Junk),
         NEW s \in Nat, NEW m \in Nat, GetLogicAddr(off) = s + m,
         NEW before, Erased(s, m, before)
  PROVE  Erased(s, m, before)' /\ GetLogicAddr(off + BS)' = s + m
<1>1. off \in Nat /\ off < Size /\ b \in Nat /\ b \in Blocks /\ off = BS * b
      /\ BS \in Nat /\ BS >= 1 /\ BS * b \in Nat
  <2>1. off \in Nat /\ off < Size
    BY Sizes DEF Addr
  <2>2. b \in Nat /\ b \in Blocks /\ off = BS * b + (off % BS) /\ BS * b \in Nat
    <3>1. Block(off) \in Nat /\ Block(off) \in Blocks /\ off = BS * Block(off) + (off % BS)
      BY <2>1, BlockOf
    <3>2. BS * Block(off) \in Nat
      BY <3>1, Sizes, NatTimes
    <3> QED BY <3>1, <3>2
  <2> QED BY <2>1, <2>2, Sizes
<1>2. GetLogicAddr(off + BS)' = s + m
  BY <1>1, MapGrows
<1>3. GetLogicAddr(off) = BS * GoodBefore(b) + 0
  BY <1>1, LogicNand, Sizes
\* What the round left behind is in the blocks before this one.
<1>4. ASSUME NEW p \in Addr, NEW k \in 0 .. m - 1, At(p, s + k)
      PROVE  Block(p) < b /\ At(p, s + k)' /\ flash'[p] = flash[p]
  <2>1. p \in Nat /\ p < Size /\ Block(p) \in Nat /\ p % BS \in Nat /\ p % BS < BS
        /\ p = BS * Block(p) + (p % BS)
    <3>1. p \in Nat /\ p < Size
      BY Sizes DEF Addr
    <3> QED BY <3>1, BlockOf
  <2>2. Block(p) < b
    <3>1. CASE Block(p) >= b
      <4>1. GoodBefore(b) <= GoodBefore(Block(p)) /\ GoodBefore(b) \in Nat
            /\ GoodBefore(Block(p)) \in Nat
        BY <1>1, <2>1, <3>1, GoodMono, GoodType
      <4>2. BS * GoodBefore(b) <= BS * GoodBefore(Block(p)) /\ BS * GoodBefore(b) \in Nat
            /\ BS * GoodBefore(Block(p)) \in Nat
        BY <1>1, <4>1
      <4>3. s + k = BS * GoodBefore(Block(p)) + (p % BS)
        BY <1>4, <2>1, LogicNand, Sizes DEF At
      <4>4. k \in Nat /\ k < m
        BY <1>4
      <4> QED BY <1>3, <2>1, <4>2, <4>3, <4>4
    <3> QED BY <1>1, <2>1, <3>1
  <2>3. p < off
    <3>1. BS * (Block(p) + 1) <= BS * b
      BY <1>1, <2>1, <2>2
    <3>2. BS * Block(p) + BS <= BS * b
      BY <1>1, <2>1, <3>1
    <3> QED BY <1>1, <2>1, <3>2
  <2>4. GetLogicAddr(p)' = GetLogicAddr(p) /\ (Good(p)' <=> Good(p))
    BY <1>1, <2>2, MapGrows
  <2>5. At(p, s + k)'
    <3>1. p \in Addr'
      BY DEF Addr, Size
    <3> QED BY <1>4, <2>4, <3>1 DEF At
  <2>6. flash'[p] = flash[p]
    <3>1. p \notin off .. off + BS - 1
      BY <1>1, <2>1, <2>3
    <3> QED BY <3>1 DEF Filled
  <2> QED BY <2>2, <2>5, <2>6
<1>5. ASSUME NEW k \in 0 .. m - 1 PROVE \E p \in Addr : At(p, s + k)' /\ flash'[p] = FF
  <2>1. PICK p \in Addr : At(p, s + k) /\ flash[p] = FF
    BY DEF Erased
  <2> QED BY <1>4, <2>1
<1>6. ASSUME NEW a \in Addr
      PROVE  flash'[a] = before[a] \/ Block(a) \in bad' \/ \E k \in 0 .. m - 1 : At(a, s + k)'
  <2>1. CASE a \in off .. off + BS - 1
    <3>0. PICK j : j = a - off
      OBVIOUS
    <3>1. j \in Nat /\ j < BS /\ BS * b + j = a
      BY <1>1, <2>1, <3>0
    <3>2. (BS * b + j) \div BS = b
      BY <1>1, <3>1, Unique
    <3> QED BY <3>1, <3>2 DEF Block
  <2>2. CASE a \notin off .. off + BS - 1
    <3>1. flash'[a] = flash[a]
      BY <2>2 DEF Filled
    <3> QED BY <1>4, <3>1 DEF Erased
  <2> QED BY <2>1, <2>2
<1>7. Erased(s, m, before)'
  BY <1>5, <1>6 DEF Erased, Addr, Size, Block
<1> QED BY <1>2, <1>7

\* The logical size is the logical address of the end, and no erase unit starts
\* after it.
LEMMA LogicTop ==
  ASSUME Inv, users # {}, NEW off \in 0 .. Size, off % Unit = 0
  PROVE  GetLogicAddr(Size) = dev.logic /\ GetLogicAddr(off) <= dev.logic
<1>1. MapSane /\ dev.bad_map = bad /\ dev.logic = Size - BS * Cardinality(bad)
  BY OpenIsSane DEF Inv, MapOK
<1>2. IsFiniteSet(bad) /\ Cardinality(bad) \in Nat /\ bad \subseteq Blocks
  BY BadFinite DEF Inv, MapOK
<1>3. CASE kind # "nand"
  <2>1. bad = {} /\ Cardinality(bad) = 0
    BY <1>3, FS_EmptySet DEF Inv, MapOK
  <2>2. dev.logic = Size
    BY <1>1, <2>1, Sizes
  <2> QED BY <1>3, <2>2, LogicPlain, Sizes
<1>4. CASE kind = "nand"
  <2>1. GoodBefore(NB) = NB - Cardinality(bad)
    <3>1. IsFiniteSet(Blocks) /\ Cardinality(Blocks) = NB
      BY FS_Interval, Sizes DEF Blocks
    <3>2. Cardinality(Blocks \ bad) = Cardinality(Blocks) - Cardinality(Blocks \cap bad)
      BY <3>1, FS_Difference
    <3>3. Blocks \cap bad = bad /\ {c \in Blocks : c < NB /\ c \notin dev.bad_map} = Blocks \ bad
      <4>1. \A c \in Blocks : c < NB
        BY Sizes DEF Blocks
      <4> QED BY <1>1, <1>2, <4>1
    <3> QED BY <3>1, <3>2, <3>3 DEF GoodBefore
  <2>2. Block(Size) = NB /\ Size % BS = 0
    <3>1. Size = BS * NB + 0 /\ NB \in Nat /\ BS \in Nat /\ BS >= 1
      BY Sizes
    <3> QED BY <3>1, Unique DEF Block
  <2>3. BS * GoodBefore(NB) = dev.logic /\ BS * GoodBefore(NB) \in Nat
    <3>1. BS * (NB - Cardinality(bad)) = BS * NB - BS * Cardinality(bad)
      BY <1>2, Sizes
    <3>2. BS * GoodBefore(NB) \in Nat
      <4>1. GoodBefore(NB) \in Nat
        BY GoodType
      <4> QED BY <4>1, Sizes
    <3> QED BY <1>1, <2>1, <3>1, <3>2, Sizes
  <2>4. GetLogicAddr(Size) = dev.logic
    <3>1. GetLogicAddr(Size) = BS * GoodBefore(Block(Size)) + (Size % BS)
      BY <1>1, <1>4, LogicNand, Sizes
    <3> QED BY <2>2, <2>3, <3>1
  <2>5. off \in Nat /\ off <= Size /\ off % BS = 0
    BY <1>4, Sizes DEF Unit
  <2>6. Block(off) \in Nat /\ off = BS * Block(off) + (off % BS) /\ Block(off) <= NB
    <3>1. Block(off) \in Nat /\ off = BS * Block(off) + (off % BS)
      BY <2>5, BlockOf
    <3>2. CASE Block(off) >= NB + 1
      <4>1. BS * Block(off) >= BS * (NB + 1)
        BY <3>1, <3>2, Sizes
      <4> QED BY <2>5, <3>1, <4>1, Sizes
    <3> QED BY <3>1, <3>2, Sizes
  <2>7. GoodBefore(Block(off)) <= GoodBefore(NB) /\ GoodBefore(Block(off)) \in Nat /\ GoodBefore(NB) \in Nat
    BY <2>6, GoodMono, GoodType, Sizes
  <2>8. BS * GoodBefore(Block(off)) <= BS * GoodBefore(NB) /\ BS * GoodBefore(Block(off)) \in Nat
    BY <2>7, Sizes
  <2>9. GetLogicAddr(off) = BS * GoodBefore(Block(off)) + (off % BS)
    BY <1>1, <1>4, <2>5, LogicNand, Sizes
  <2> QED BY <2>3, <2>4, <2>5, <2>8, <2>9
<1> QED BY <1>3, <1>4

LEMMA EraseBegins ==
  ASSUME Inv, NEW t \in Threads, NEW off \in 0 .. Size, NEW len \in 1 .. Size, Erase(t, off, len)
  PROVE  EraseOK(t)'
<1> DEFINE r == [Enter(t, "erase", "erase", off, len) EXCEPT !.start = GetLogicAddr(off)]
<1>1. DOMAIN r = Fields /\ Begun(r, "erase", "erase", off, len) /\ r.start = GetLogicAddr(off)
  <2>1. DOMAIN r = Fields /\ Begun(r, "erase", "erase", off, len)
    BY EnteredErase
  <2>2. r.start = GetLogicAddr(off)
    BY DEF Enter, Idle
  <2> QED BY <2>1, <2>2
<1>2. call' = [call EXCEPT ![t] = r] /\ UNCHANGED <<kind, flash, bad, dev>>
      /\ off % BS = 0 /\ len % BS = 0
  BY DEF Erase
<1> HIDE DEF r
<1>3. call'[t] = r
  BY <1>1, <1>2, SetCall DEF Inv
<1>4. off \in Nat /\ len \in Nat /\ Unit' = Unit /\ Unit \in Nat /\ Unit >= 1
  BY <1>2, Sizes DEF Unit
<1>5. off % Unit = 0 /\ len \div Unit \in Nat
  BY <1>2, <1>4, UnitDivides, Split
<1>6. GetLogicAddr(off) \in Nat /\ GetLogicAddr(off)' = GetLogicAddr(off)
  BY <1>2, <1>4, LogicType, SameAddresses DEF SameMap
<1>7. PICK s : s = GetLogicAddr(off)
  OBVIOUS
<1>8. Erased(s, 0, flash)'
  BY DEF Erased
<1>9. /\ call'[t].start = s /\ call'[t].len = len /\ call'[t].total = 0 /\ call'[t].off = off
      /\ call'[t].pc = "erase" /\ call'[t].before = flash'
  BY <1>1, <1>2, <1>3, <1>7 DEF Begun
<1>10. 0 * Unit' = 0 /\ s + 0 = s /\ s \in Nat
  BY <1>4, <1>6, <1>7
<1>11. Erased(call[t].start, call[t].total * Unit, call[t].before)'
  BY <1>8, <1>9, <1>10
<1>12. GetLogicAddr(call[t].off)' = call'[t].start + call'[t].total * Unit'
  BY <1>6, <1>7, <1>9, <1>10
<1>13. Size' = Size
  BY DEF Size
<1> QED BY <1>2, <1>4, <1>5, <1>9, <1>10, <1>11, <1>12, <1>13 DEF EraseOK

LEMMA EraseStepOK == ASSUME Inv, NEW t \in Threads, EraseOK(t), EraseStep(t) PROVE EraseOK(t)'
<1> DEFINE c == call[t]
           live == c.total < c.len \div Unit /\ c.off < Size
<1> SUFFICES ASSUME ~unmarked' PROVE EraseOK(t)'
  BY DEF EraseOK
\* s is the start, off where the round erases, m how much has been erased.
<1>0. PICK s, m, off, len, total, before :
        /\ s = c.start /\ m = c.total * Unit /\ off = c.off /\ before = c.before
        /\ len = c.len /\ total = c.total
  OBVIOUS
<1>1. UNCHANGED <<kind, users>> /\ c.pc = "erase" /\ Unit' = Unit /\ Size' = Size
  BY DEF EraseStep, Unit, Size
<1>2. len \in Nat /\ total \in Nat /\ off \in Nat /\ c.op = "erase" /\ t \in users
  <2>1. CallOK(t) /\ Holds(t)
    BY DEF Inv, Calls
  <2> QED BY <1>0, <1>1, <2>1 DEF CallOK, Holds
<1>3. MapSane /\ dev.bad_map = bad
  BY <1>2, OpenIsSane DEF Inv, MapOK
<1>4. unmarked \in BOOLEAN /\ Unit \in Nat /\ Unit >= 1 /\ Unit <= BS /\ m \in Nat
      /\ len \div Unit \in Nat
  BY <1>0, <1>2, Sizes, NatTimes, Split DEF Inv
<1>5. ~unmarked
  BY <1>1, <1>4 DEF EraseStep, EraseFails, UpdateBbt
<1>6. /\ s \in Nat /\ len % BS = 0 /\ total <= len \div Unit /\ off \in 0 .. Size
      /\ off % Unit = 0 /\ GetLogicAddr(off) = s + m /\ Erased(s, m, before)
  BY <1>0, <1>2, <1>5 DEF EraseOK
\* The next unit, in the partition if this one is.
<1>7. ASSUME off < Size
      PROVE  off \in Addr /\ off + Unit \in 0 .. Size /\ (off + Unit) % Unit = 0
  <2>1. off \in Addr
    BY <1>2, <1>7, Sizes DEF Addr
  <2>2. off + (Unit - (off % Unit)) <= Size
    BY <1>2, <1>7, UnitFits
  <2>3. off + Unit \in 0 .. Size
    BY <1>2, <1>4, <1>6, <2>2, Sizes
  <2>4. (off + Unit) % Unit = off % Unit
    BY <1>2, <1>4, NextMultiple
  <2> QED BY <1>6, <2>1, <2>3, <2>4
<1>8. ASSUME NEW r, call' = [call EXCEPT ![t].pc = "ret", ![t].result = r],
             UNCHANGED <<flash, bad, unmarked, dev, fails>>,
             r = "none" => total = len \div Unit \/ (off = Size /\ s = 0 /\ len >= dev.logic)
      PROVE  EraseOK(t)'
  <2>1. Keep(t, {"pc", "result"}) /\ call'[t].pc = "ret" /\ call'[t].result = r
    BY <1>8, SetPcResult DEF Inv
  <2>2. /\ call'[t].start = s /\ call'[t].len = len /\ call'[t].total = total
        /\ call'[t].off = off /\ call'[t].before = before /\ call'[t].op = c.op
    BY <1>0, <2>1 DEF Keep, Fields
  <2>3. SameMap
    BY <1>1, <1>8 DEF SameMap
  <2>4. Erased(s, m, before)' /\ GetLogicAddr(off)' = GetLogicAddr(off)
    BY <1>6, <1>8, <2>3, ErasedStill, SameAddresses
  <2>5. m = total * Unit
    BY <1>0
  <2> QED BY <1>1, <1>6, <1>8, <2>1, <2>2, <2>4, <2>5 DEF EraseOK
<1>9. CASE live /\ kind = "nand" /\ IsBad(c.off) /\ call' = [call EXCEPT ![t].off = @ + Unit]
           /\ UNCHANGED <<flash, bad, unmarked, dev, fails>>
  <2>1. Keep(t, {"off"}) /\ call'[t].off = off + Unit
    BY <1>0, <1>9, SetOff DEF Inv
  <2>2. /\ call'[t].start = s /\ call'[t].len = len /\ call'[t].total = total /\ call'[t].pc = "erase"
        /\ call'[t].before = before
    BY <1>0, <1>1, <2>1 DEF Keep, Fields
  <2>3. SameMap
    BY <1>1, <1>9 DEF SameMap
  <2>4. off < Size /\ Unit = BS /\ Block(off) \in dev.bad_map
    BY <1>0, <1>2, <1>3, <1>9, Sizes DEF Unit, IsBad
  <2>5. GetLogicAddr(off + Unit)' = s + m
    <3>1. GetLogicAddr(off + BS) = GetLogicAddr(off)
      BY <1>3, <1>7, <1>9, <2>4, SkipBad
    <3>2. GetLogicAddr(off + BS)' = GetLogicAddr(off + BS)
      BY <2>3, SameAddresses
    <3> QED BY <1>1, <1>6, <2>4, <3>1, <3>2
  <2>6. Erased(s, m, before)'
    BY <1>6, <1>9, <2>3, ErasedStill
  <2>7. m = total * Unit
    BY <1>0
  <2> QED BY <1>1, <1>6, <1>7, <2>1, <2>2, <2>4, <2>5, <2>6, <2>7 DEF EraseOK
<1>10. CASE /\ live /\ ~(kind = "nand" /\ IsBad(c.off)) /\ flash' = Filled(c.off, Unit, FF)
            /\ call' = [call EXCEPT ![t].off = @ + Unit, ![t].total = @ + 1]
            /\ UNCHANGED <<bad, unmarked, dev, fails>>
  <2>1. Keep(t, {"off", "total"}) /\ call'[t].off = off + Unit /\ call'[t].total = total + 1
    <3>1. Shape /\ call' = [call EXCEPT ![t].off = @ + Unit, ![t].total = @ + 1]
      BY <1>10 DEF Inv
    <3>2. /\ Keep(t, {"off", "total"}) /\ call'[t].off = c.off + Unit
          /\ call'[t].total = c.total + 1
      BY <3>1, SetOffTotal
    <3> QED BY <1>0, <3>2
  <2>2. /\ call'[t].start = s /\ call'[t].len = len /\ call'[t].pc = "erase"
        /\ call'[t].before = before
    BY <1>0, <1>1, <2>1 DEF Keep, Fields
  <2>3. SameMap
    BY <1>1, <1>10 DEF SameMap
  <2>4. off < Size /\ Good(off) /\ total + 1 <= len \div Unit
    BY <1>0, <1>2, <1>3, <1>4, <1>10 DEF IsBad, Good
  <2>5. Erased(s, m + Unit, before)' /\ GetLogicAddr(off + Unit)' = s + m + Unit
    BY <1>0, <1>3, <1>4, <1>6, <1>7, <1>10, <2>3, <2>4, ErasedUnit
  <2>6. m + Unit = (total + 1) * Unit
    BY <1>0, <1>2, <1>4
  <2>7. s + m + Unit = s + (m + Unit)
    BY <1>4, <1>6
  <2> QED BY <1>1, <1>6, <1>7, <2>1, <2>2, <2>4, <2>5, <2>6, <2>7 DEF EraseOK
<1>11. CASE live /\ ~(kind = "nand" /\ IsBad(c.off)) /\ EraseFails(t)
  <2>1. Keep(t, {"off"}) /\ call'[t].off = off + Unit
    BY <1>0, <1>11, SetOff DEF Inv, EraseFails
  <2>2. /\ call'[t].start = s /\ call'[t].len = len /\ call'[t].total = total /\ call'[t].pc = "erase"
        /\ call'[t].before = before
    BY <1>0, <1>1, <2>1 DEF Keep, Fields
  <2>3. PICK b : b = Block(off)
    OBVIOUS
  <2>4. /\ kind = "nand" /\ bad' = bad \cup {b} /\ flash' = Filled(off, Unit, Junk)
        /\ dev' = IF b \in dev.bad_map THEN dev
                  ELSE [dev EXCEPT !.bad_map = @ \cup {b}, !.bad_cnt = @ + 1, !.logic = @ - BS]
    BY <1>0, <1>11, <2>3 DEF EraseFails, UpdateBbt
  <2>5. off < Size /\ Unit = BS /\ b \notin dev.bad_map
    BY <1>0, <1>2, <1>3, <1>11, <2>3, <2>4 DEF Unit, IsBad
  <2>6. dev'.bad_map = dev.bad_map \cup {b} /\ dev'.bad_cnt # 0
    BY <2>4, <2>5 DEF Inv, DevOK
  <2>7. Erased(s, m, before)' /\ GetLogicAddr(off + BS)' = s + m
    BY <1>1, <1>3, <1>4, <1>6, <1>7, <2>3, <2>4, <2>5, <2>6, ErasedBad
  <2>8. m = total * Unit
    BY <1>0
  <2> QED BY <1>1, <1>6, <1>7, <2>1, <2>2, <2>5, <2>7, <2>8 DEF EraseOK
<1>12. c.total >= c.len \div Unit => total = len \div Unit
  BY <1>0, <1>2, <1>4, <1>6
<1>13. c.off >= Size => off = Size
  BY <1>0, <1>6, Sizes
<1>14. "overflow" # "none"
  OBVIOUS
<1> QED BY <1>0, <1>8, <1>9, <1>10, <1>11, <1>12, <1>13, <1>14 DEF EraseStep

LEMMA ErasesNext == Inv /\ Erases /\ [Next]_vars => Erases'
<1> SUFFICES ASSUME Inv, Erases, [Next]_vars, NEW t \in Threads PROVE EraseOK(t)'
  BY DEF Erases
<1>1. EraseOK(t) /\ CallOK(t)
  BY DEF Erases, Inv, Calls
<1>2. ASSUME call'[t].op # "erase" PROVE EraseOK(t)'
  BY <1>2 DEF EraseOK
<1>3. ASSUME NEW u \in Threads, u # t, Begin(u) \/ LockSeek(u) \/ LockWr(u) \/ Run(u)
      PROVE  EraseOK(t)'
  <2>1. CASE Waits(t)
    <3>1. call'[t] = call[t]
      BY <1>3, StepOthers DEF Others
    <3>2. call[t].op # "erase"
      BY <1>1, <2>1 DEF Waits, CallOK, Locking
    <3> QED BY <1>2, <3>1, <3>2
  <2>2. CASE ~Waits(t)
    BY <1>1, <1>3, <2>2, OthersStill, EraseStill
  <2> QED BY <2>1, <2>2
<1>4. CASE Begin(t)
  <2>1. (Open(t) \/ Close(t) \/ \E off, w : Lseek(t, off, w)) => EraseOK(t)'
    <3>1. (Open(t) \/ Close(t) \/ \E off, w : Lseek(t, off, w)) => call' = call /\ call[t].pc = "idle"
      BY DEF Open, Close, Lseek, MayCall, Inv, Calls, Holds
    <3>2. call[t].pc = "idle" => call[t].op = "none"
      BY <1>1 DEF CallOK
    <3> QED BY <1>2, <3>1, <3>2
  <2>2. ASSUME NEW len, Read(t, len) PROVE EraseOK(t)'
    <3>1. call'[t].op = "read"
      BY <2>2 DEF Read, Enter, Idle, Inv, Shape
    <3> QED BY <1>2, <3>1
  <2>3. ASSUME NEW op \in {"write", "write_no_erase"}, NEW len, Write(t, op, len) PROVE EraseOK(t)'
    <3>1. call'[t].op = op
      BY <2>3 DEF Write, Enter, Idle, Inv, Shape
    <3> QED BY <1>2, <3>1
  <2>4. ASSUME NEW op \in Locking, NEW off, NEW w, NEW len, NEW flag,
               LockCall(t, op, off, w, len, flag)
        PROVE  EraseOK(t)'
    <3>1. call'[t].op = op
      BY <2>4 DEF LockCall, Enter, Idle, Inv, Shape
    <3> QED BY <1>2, <2>4, <3>1 DEF Locking
  <2> QED BY <1>4, <2>1, <2>2, <2>3, <2>4, EraseBegins DEF Begin
<1>5. CASE LockSeek(t) \/ LockWr(t) \/ ReadStep(t) \/ WriteStep(t) \/ NoEraseStep(t)
  <2>1. call[t].op # "erase"
    BY <1>1, <1>5 DEF LockSeek, LockWr, ReadStep, WriteStep, NoEraseStep, CallOK, Locking
  <2>2. call'[t].op = call[t].op
    <3>1. CASE LockSeek(t)
      BY <3>1 DEF LockSeek, Inv, Shape, Fields
    <3>2. CASE LockWr(t)
      BY <3>2 DEF LockWr, Inv, Shape, Fields
    <3>3. CASE ReadStep(t)
      BY <3>3, ReadStepOp
    <3>4. CASE WriteStep(t)
      BY <3>4 DEF WriteStep, Inv, Shape, Fields
    <3>5. CASE NoEraseStep(t)
      <4>1. \/ \E v : call' = [call EXCEPT ![t].pc = v]
            \/ \E v : call' = [call EXCEPT ![t].total = @ + v]
        BY <3>5 DEF NoEraseStep
      <4> QED BY <4>1 DEF Inv, Shape, Fields
    <3> QED BY <1>5, <3>1, <3>2, <3>3, <3>4, <3>5
  <2> QED BY <1>2, <2>1, <2>2
<1>6. CASE EraseStep(t)
  BY <1>1, <1>6, EraseStepOK
<1>7. CASE Return(t)
  <2>1. call'[t].op = "none"
    BY <1>7 DEF Return, Inv, Shape, Idle
  <2> QED BY <1>2, <2>1
<1>8. CASE UNCHANGED vars
  <2>1. Still(t)
    BY <1>8 DEF vars, Still, SameMap
  <2> QED BY <1>1, <2>1, EraseStill
<1> QED BY <1>3, <1>4, <1>5, <1>6, <1>7, <1>8 DEF Next, Run

\* An alislsto_erase that reports success has erased as many good units as it
\* was asked for from its start on, or every good one of a partition erased as a
\* whole; and whatever fails and is marked bad on the way, an erase changes
\* nothing but what it was asked for and the blocks that turned bad.
THEOREM ErasesAreComplete == Spec => []EraseComplete
<1>1. Init => Erases
  BY DEF Init, Erases, EraseOK, Idle
<1>2. Inv /\ Erases => EraseComplete
  <2> SUFFICES ASSUME Inv, Erases, NEW t \in Threads, call[t].pc = "ret",
                      call[t].op = "erase", ~unmarked
               PROVE  LET c == call[t]
                          asked == Span(c.start, Least(c.len, dev.logic - c.start))
                      IN /\ c.result = "none" => /\ \A a \in asked : flash[a] = FF
                                                 /\ c.start + c.len <= dev.logic \/ c.start = 0
                         /\ \A a \in Addr : flash[a] = c.before[a] \/ a \in asked \/ Block(a) \in bad
    BY DEF EraseComplete
  <2>0. PICK s, m, off, len, total, before, n :
          /\ s = call[t].start /\ m = call[t].total * Unit /\ off = call[t].off
          /\ before = call[t].before /\ len = call[t].len /\ total = call[t].total
          /\ n = Least(len, dev.logic - s)
    OBVIOUS
  <2>1. users # {} /\ len \in Nat /\ total \in Nat
    BY <2>0 DEF Inv, Calls, Holds, CallOK
  <2>2. MapSane /\ dev.logic \in Nat
    BY <2>1, OpenIsSane, LogicBound DEF Inv
  <2>3. /\ s \in Nat /\ len % BS = 0 /\ total <= len \div Unit /\ off \in 0 .. Size
        /\ off % Unit = 0 /\ GetLogicAddr(off) = s + m /\ Erased(s, m, before)
        /\ call[t].result = "none" => total = len \div Unit \/ (off = Size /\ s = 0 /\ len >= dev.logic)
    BY <2>0 DEF Erases, EraseOK
  <2>4. Unit \in Nat /\ Unit >= 1 /\ m \in Nat
    BY <2>0, <2>1, Sizes, NatTimes
  <2>5. len \div Unit \in Nat /\ len = Unit * (len \div Unit)
    <3>1. len % Unit = 0
      BY <2>1, <2>3, UnitDivides
    <3>2. len \div Unit \in Nat /\ len = Unit * (len \div Unit) + (len % Unit)
      BY <2>1, <2>4, Split
    <3>3. Unit * (len \div Unit) \in Nat
      BY <2>4, <3>2, NatTimes
    <3> QED BY <3>1, <3>2, <3>3
  <2>6. m <= len /\ (total = len \div Unit => m = len)
    <3>1. PICK q \in Nat : q = len \div Unit
      BY <2>5
    <3>2. PICK u \in Nat : u = Unit
      BY <2>4
    <3>3. m = total * u /\ len = u * q /\ total <= q
      BY <2>0, <2>3, <2>5, <3>1, <3>2
    <3>4. total * u <= q * u
      BY <2>1, <3>3
    <3>5. q * u = u * q
      OBVIOUS
    <3> QED BY <3>1, <3>3, <3>4, <3>5
  <2>7. s + m <= dev.logic /\ GetLogicAddr(Size) = dev.logic
    BY <2>1, <2>3, LogicTop
  <2>8. m <= n /\ n <= len /\ n <= dev.logic - s /\ n \in Int
    BY <2>0, <2>1, <2>2, <2>3, <2>4, <2>6, <2>7 DEF Least
  <2>9. ASSUME call[t].result = "none" PROVE n <= m /\ (s + len <= dev.logic \/ s = 0)
    <3>1. CASE total = len \div Unit
      BY <2>2, <2>3, <2>4, <2>6, <2>7, <2>8, <3>1
    <3>2. CASE off = Size /\ s = 0
      BY <2>2, <2>3, <2>4, <2>7, <2>8, <3>2
    <3> QED BY <2>3, <2>9, <3>1, <3>2
  <2>10. ASSUME call[t].result = "none", NEW a \in Span(s, n) PROVE flash[a] = FF
    <3>1. PICK k \in 0 .. n - 1 : a = GetPhyAddr(s + k)
      BY <2>10 DEF Span
    <3>2. k \in 0 .. m - 1
      BY <2>4, <2>8, <2>9, <2>10
    <3>3. PICK p \in Addr : At(p, s + k) /\ flash[p] = FF
      BY <2>3, <3>2 DEF Erased
    <3> QED BY <2>2, <3>1, <3>3, PhyAt
  <2>11. ASSUME NEW a \in Addr PROVE flash[a] = before[a] \/ a \in Span(s, n) \/ Block(a) \in bad
    <3> SUFFICES ASSUME NEW k \in 0 .. m - 1, At(a, s + k) PROVE a \in Span(s, n)
      BY <2>3 DEF Erased
    <3>1. k \in 0 .. n - 1
      BY <2>4, <2>8
    <3>2. GetPhyAddr(s + k) = a
      BY <2>2, PhyAt
    <3> QED BY <3>1, <3>2 DEF Span
  <2> QED BY <2>0, <2>9, <2>10, <2>11
<1> QED BY <1>1, <1>2, InitInv, NextInv, ErasesNext, PTL DEF Spec

-----------------------------------------------------------------------------
(* How long a call can take, and what it can wait for.                     *)

\* How far an address is from the end of the partition.
ToEnd(a) == IF a < Size THEN Size - a ELSE 0

\* A bound on the steps that a call past seekmutex has left.
Left(t) ==
  LET c == call[t] IN
  IF c.pc = "wrlock" THEN 3 + ToEnd(dev.offset)
  ELSE IF c.pc \in {"read", "write", "noerase"} THEN 2 + ToEnd(dev.offset)
  ELSE IF c.pc = "erase" THEN 2 + ToEnd(c.off)
  ELSE IF c.pc = "ret" THEN 1 ELSE 0

LEMMA LeftType ==
  ASSUME Inv, NEW t \in Threads
  PROVE  Left(t) \in Nat /\ dev.offset \in Nat
<1>1. dev.offset \in Nat /\ Size \in Nat
  BY Sizes DEF Inv, DevOK
<1>2. call[t].pc = "erase" => call[t].off \in Nat
  BY DEF Inv, Calls, CallOK
<1> QED BY <1>1, <1>2 DEF Left, ToEnd

\* Every round of the four loops, and the return, takes the call nearer its end.
LEMMA ReadNears ==
  ASSUME Inv, NEW t \in Threads, ReadStep(t)
  PROVE  Left(t)' < Left(t)
<1> DEFINE c == call[t]
           size == Least(c.len - c.total, BS - (dev.offset % BS))
<1>1. c.pc = "read" /\ Shape /\ DevOK
  BY DEF ReadStep, Inv
<1>2. c.len \in Nat /\ c.total \in Nat /\ dev.offset \in Nat /\ Size \in Nat
  BY Sizes DEF Inv, Calls, CallOK, DevOK
<1>3. c.total < c.len => size \in Nat /\ size >= 1
  <2>1. dev.offset % BS \in Nat /\ dev.offset % BS < BS
    BY <1>2, BlockOf
  <2> QED BY <1>2, <2>1, Sizes DEF Least
<1> HIDE DEF size
<1>4. CASE call' = [call EXCEPT ![t].pc = "ret"]
  <2>1. call'[t].pc = "ret"
    BY <1>1, <1>4, SetPc
  <2> QED BY <1>1, <1>2, <2>1 DEF Left, ToEnd
<1>5. ASSUME NEW n \in Nat, n >= 1, dev.offset < Size, dev' = [dev EXCEPT !.offset = @ + n],
             call'[t].pc = "read"
      PROVE  Left(t)' < Left(t)
  <2>1. dev'.offset = dev.offset + n
    BY <1>1, <1>5 DEF DevOK
  <2> QED BY <1>1, <1>2, <1>5, <2>1 DEF Left, ToEnd, Size
<1>6. CASE call' = call /\ dev.offset < Size /\ dev' = [dev EXCEPT !.offset = @ + BS]
  BY <1>1, <1>5, <1>6, Sizes
<1>7. ASSUME NEW ok \in BOOLEAN, NEW v, c.total < c.len, dev.offset < Size,
             call' = [call EXCEPT ![t].buf = v, ![t].total = @ + size, ![t].failed = @ \/ ~ok],
             dev' = [dev EXCEPT !.offset = @ + size]
      PROVE  Left(t)' < Left(t)
  <2>1. call'[t].pc = "read"
    BY <1>1, <1>7 DEF Shape, Fields
  <2> QED BY <1>3, <1>5, <1>7, <2>1
<1> QED BY <1>4, <1>6, <1>7 DEF ReadStep, size

LEMMA WriteNears ==
  ASSUME Inv, NEW t \in Threads, WriteStep(t)
  PROVE  Left(t)' < Left(t)
<1> DEFINE c == call[t]
           at == dev.offset
           unit == at - (at % Unit)
           n == WriteSize(c, at)
           live == c.total < c.len /\ at < Size
<1>1. c.pc = "write" /\ Shape /\ DevOK /\ CallOK(t) /\ Moved(t)
  BY DEF WriteStep, Inv, Calls
<1>2. c.len \in Nat /\ c.total \in Nat /\ at \in Nat /\ Size \in Nat
  BY <1>1, Sizes DEF CallOK, DevOK
<1>3. c.total < c.len => n \in Nat /\ n >= 1
  BY <1>1, WriteSizeOK
<1> HIDE DEF n, unit
<1>4. CASE call'[t].pc = "ret"
  BY <1>1, <1>2, <1>4 DEF Left, ToEnd
<1>5. ASSUME NEW m \in Nat, m >= 1, at < Size, dev'.offset = at + m, call'[t].pc = "write"
      PROVE  Left(t)' < Left(t)
  BY <1>1, <1>2, <1>5 DEF Left, ToEnd, Size
<1>6. CASE \/ call' = [call EXCEPT ![t].pc = "ret"]
           \/ call' = [call EXCEPT ![t].pc = "ret", ![t].failed = @ \/ at < Size]
  <2>1. call'[t].pc = "ret"
    BY <1>1, <1>6, SetPc, SetPcFailed
  <2> QED BY <1>4, <2>1
<1>7. CASE call' = call /\ live /\ dev' = [dev EXCEPT !.offset = @ + BS]
  <2>1. dev'.offset = at + BS
    BY <1>1, <1>7 DEF DevOK
  <2> QED BY <1>1, <1>5, <1>7, <2>1, Sizes
<1>8. CASE /\ live /\ call' = [call EXCEPT ![t].failed = TRUE]
           /\ UpdateBbt(unit, [dev EXCEPT !.offset = @ + Unit])
  <2>1. [dev EXCEPT !.offset = @ + Unit].offset = at + Unit
    BY <1>1 DEF DevOK
  <2>2. dev'.offset = at + Unit
    BY <1>1, <1>8, <2>1 DEF UpdateBbt, DevOK
  <2>3. call'[t].pc = "write"
    BY <1>1, <1>8, SetFailed DEF Keep, Fields
  <2> QED BY <1>5, <1>8, <2>2, <2>3, Sizes
<1>9. CASE /\ live /\ dev' = [dev EXCEPT !.offset = @ + n]
           /\ call' = [call EXCEPT ![t].total = @ + n]
  <2>1. dev'.offset = at + n
    BY <1>1, <1>9 DEF DevOK
  <2>2. call'[t].pc = "write"
    BY <1>1, <1>9, SetTotal DEF Keep, Fields
  <2> QED BY <1>3, <1>5, <1>9, <2>1, <2>2
<1> QED BY <1>6, <1>7, <1>8, <1>9 DEF WriteStep, n, unit

LEMMA NoEraseNears ==
  ASSUME Inv, NEW t \in Threads, NoEraseStep(t)
  PROVE  call'[t].pc = "spin" \/ Left(t)' < Left(t)
<1> DEFINE c == call[t]
           skip == kind = "nand" /\ IsBad(dev.offset)
           at == IF skip THEN CHOOSE x \in NextGood(dev.offset) : \A y \in NextGood(dev.offset) : x <= y
                         ELSE dev.offset
           size == Least(c.len - c.total, BS - (at % BS))
<1>1. c.pc = "noerase" /\ Shape /\ DevOK
  BY DEF NoEraseStep, Inv
<1>2. c.len \in Nat /\ c.total \in Nat /\ dev.offset \in Nat /\ Size \in Nat
  BY Sizes DEF Inv, Calls, CallOK, DevOK
<1>3. (skip => NextGood(dev.offset) # {}) => at \in Nat /\ at >= dev.offset
  BY <1>2, NextGoodLeast
<1> HIDE DEF at, skip
<1>4. at \in Nat /\ c.total < c.len => size \in Nat /\ size >= 1
  <2>1. at \in Nat => at % BS \in Nat /\ at % BS < BS
    BY Split, Sizes
  <2> QED BY <1>2, <2>1, Sizes DEF Least
<1> HIDE DEF size
<1>5. CASE call' = [call EXCEPT ![t].pc = "ret"]
  <2>1. call'[t].pc = "ret"
    BY <1>1, <1>5, SetPc
  <2> QED BY <1>1, <1>2, <2>1 DEF Left, ToEnd
<1>6. CASE call' = [call EXCEPT ![t].pc = "spin"]
  BY <1>1, <1>6, SetPc
<1>7. CASE /\ c.total < c.len /\ dev.offset < Size /\ (skip => NextGood(dev.offset) # {})
           /\ dev' = [dev EXCEPT !.offset = at + size]
           /\ call' = [call EXCEPT ![t].total = @ + size]
  <2>1. dev'.offset = at + size
    BY <1>1, <1>7 DEF DevOK
  <2>2. call'[t].pc = "noerase"
    BY <1>1, <1>7, SetTotal DEF Keep, Fields
  <2>3. at + size \in Nat /\ at + size > dev.offset
    BY <1>2, <1>3, <1>4, <1>7
  <2> QED BY <1>1, <1>2, <1>7, <2>1, <2>2, <2>3 DEF Left, ToEnd, Size
<1> QED BY <1>5, <1>6, <1>7 DEF NoEraseStep, at, size, skip

LEMMA EraseNears ==
  ASSUME Inv, NEW t \in Threads, EraseStep(t)
  PROVE  Left(t)' < Left(t)
<1> DEFINE c == call[t]
<1>1. c.pc = "erase" /\ Shape /\ c.off \in Nat /\ Size \in Nat
  BY Sizes DEF EraseStep, Inv, Calls, CallOK
<1>2. CASE \E r : call' = [call EXCEPT ![t].pc = "ret", ![t].result = r]
  <2>1. call'[t].pc = "ret"
    BY <1>1, <1>2, SetPcResult
  <2> QED BY <1>1, <2>1 DEF Left, ToEnd
<1>3. CASE /\ c.off < Size
           /\ \/ call' = [call EXCEPT ![t].off = @ + Unit]
              \/ call' = [call EXCEPT ![t].off = @ + Unit, ![t].total = @ + 1]
  <2>1. call'[t].off = c.off + Unit /\ call'[t].pc = "erase"
    BY <1>1, <1>3, SetOff, SetOffTotal DEF Keep, Fields
  <2> QED BY <1>1, <1>3, <2>1, Sizes DEF Left, ToEnd, Size
<1> QED BY <1>2, <1>3 DEF EraseStep, EraseFails

\* A step while thread t is past seekmutex: one of its own brings it nearer its
\* return, and one of another thread does not take it away from there.  Only
\* alislsto_write_no_erase has a way out of this, into the inner loop that does
\* not look at the end of the partition.
NearsReturn(t) ==
  ~Waits(t) /\ call[t].pc # "spin" =>
    \/ call[t].op \in {"write_no_erase", "lock_write"} /\ call'[t].pc = "spin"
    \/ /\ Left(t) \in Nat /\ Left(t)' <= Left(t)
       /\ LockWr(t) \/ Run(t) => Left(t)' < Left(t)

LEMMA OwnStepNears ==
  ASSUME Inv, NEW t \in Threads, LockWr(t) \/ Run(t)
  PROVE  \/ call[t].op \in {"write_no_erase", "lock_write"} /\ call'[t].pc = "spin"
         \/ Left(t)' < Left(t)
<1>0. Shape /\ CallOK(t) /\ dev.offset \in Nat /\ Size \in Nat
  BY LeftType, Sizes DEF Inv, Calls
<1>1. CASE LockWr(t)
  <2>1. call[t].pc = "wrlock" /\ call'[t].pc \in {"write", "noerase"} /\ dev' = dev
    BY <1>0, <1>1 DEF LockWr, Shape, Fields
  <2> QED BY <1>0, <2>1 DEF Left, ToEnd, Size
<1>2. CASE Return(t)
  <2>1. call[t].pc = "ret" /\ call'[t] = Idle
    BY <1>0, <1>2 DEF Return, Shape
  <2> QED BY <2>1 DEF Left, Idle
<1>3. CASE NoEraseStep(t)
  <2>1. call[t].op \in {"write_no_erase", "lock_write"}
    BY <1>0, <1>3 DEF NoEraseStep, CallOK
  <2> QED BY <1>3, <2>1, NoEraseNears
<1> QED BY <1>1, <1>2, <1>3, ReadNears, WriteNears, EraseNears DEF Run

\* Once it has seekmutex, or needs none, every call of alislsto_read,
\* alislsto_write, alislsto_erase and alislsto_lock_read returns after a number
\* of its own steps bounded by the size of the partition, whatever blocks are or
\* turn bad and whatever the driver fails: what "To avoid death loop" asks of
\* them.  The calls through alislsto_write_no_erase do so too unless they enter
\* its inner loop past the last good block, the violation of NoDeathLoop.
THEOREM LoopsHaveEnds == Spec => [][\A t \in Threads : NearsReturn(t)]_vars
<1>1. ASSUME Inv, [Next]_vars PROVE [\A t \in Threads : NearsReturn(t)]_vars
  <2> SUFFICES ASSUME Next, NEW t \in Threads, ~Waits(t), call[t].pc # "spin"
               PROVE  NearsReturn(t)
    BY <1>1 DEF NearsReturn
  <2>1. Left(t) \in Nat /\ Left(t)' \in Nat
    <3>1. Inv'
      BY <1>1, NextInv
    <3>2. (Left(t) \in Nat)'
      <4>1. dev'.offset \in Nat /\ Size \in Nat
        BY <3>1, Sizes DEF Inv, DevOK, Size
      <4>2. call'[t].pc = "erase" => call'[t].off \in Nat
        BY <3>1 DEF Inv, Calls, CallOK
      <4> QED BY <4>1, <4>2 DEF Left, ToEnd, Size
    <3> QED BY <1>1, <3>2, LeftType
  <2>2. CASE LockWr(t) \/ Run(t)
    BY <1>1, <2>1, <2>2, OwnStepNears DEF NearsReturn
  <2>3. CASE ~(LockWr(t) \/ Run(t))
    <3>1. CASE Begin(t) \/ LockSeek(t)
      <4>1. ~LockSeek(t)
        BY DEF LockSeek, Waits
      <4>2. ~Begin(t) \/ Open(t)
        BY DEF Begin, Close, Lseek, Read, Write, Erase, LockCall, MayCall, Waits
      <4>3. ~Open(t)
        BY <1>1 DEF Open, Waits, Inv, Calls, Holds
      <4> QED BY <3>1, <4>1, <4>2, <4>3
    <3>2. ASSUME NEW u \in Threads, u # t, Begin(u) \/ LockSeek(u) \/ LockWr(u) \/ Run(u)
          PROVE  NearsReturn(t)
      <4>1. call'[t] = call[t] /\ dev'.offset = dev.offset
        BY <1>1, <3>2, OthersStill DEF Still
      <4>2. Left(t)' = Left(t)
        BY <4>1 DEF Left, ToEnd, Size
      <4> QED BY <2>1, <2>3, <4>2 DEF NearsReturn
    <3> QED BY <2>3, <3>1, <3>2 DEF Next
  <2> QED BY <2>2, <2>3
<1> QED BY <1>1, InitInv, NextInv, PTL DEF Spec

\* A thread that waits for a mutex another one holds.
Blocked(t) == \/ call[t].pc = "seeklock" /\ seekmx # Nobody
              \/ call[t].pc = "wrlock" /\ wrmx # Nobody

\* Whoever is waited for can go on: threads wait only for seekmutex, and the
\* thread that holds it does not wait, not even for wrmutex, which it takes
\* second.
HolderGoesOn ==
  \A t \in Threads : Blocked(t) =>
    /\ call[t].pc = "seeklock"
    /\ seekmx \in Threads /\ ~Blocked(seekmx) /\ ~Waits(seekmx)

\* Who holds the mutexes.
Holders ==
  /\ seekmx # Nobody => seekmx \in Threads
  /\ wrmx # Nobody => /\ wrmx \in Threads
                      /\ call[wrmx].pc \in {"write", "noerase", "spin", "ret"}

LEMMA HoldersNext == Inv /\ Holders /\ [Next]_vars => Holders'
<1> SUFFICES ASSUME Inv, Holders, [Next]_vars PROVE Holders'
  OBVIOUS
<1>0. Shape
  BY DEF Inv
<1>1. CASE UNCHANGED vars
  BY <1>1 DEF vars, Holders, Nobody
<1> SUFFICES ASSUME NEW t \in Threads, Begin(t) \/ LockSeek(t) \/ LockWr(t) \/ Run(t)
             PROVE  Holders'
  BY <1>1 DEF Next
<1>2. Others(t)
  BY StepOthers
<1>3. CASE Begin(t)
  <2>1. UNCHANGED <<seekmx, wrmx>>
    BY <1>3 DEF Begin, Open, Close, Lseek, Read, Write, Erase, LockCall
  <2>2. wrmx = t => call'[t] = call[t]
    <3>1. ASSUME wrmx = t PROVE call[t].pc # "idle" /\ t \in users
      <4>1. wrmx # Nobody
        BY <3>1, KindsAndThreads DEF Nobody
      <4> QED BY <3>1, <4>1 DEF Holders, Inv, Calls, Holds
    <3>2. wrmx = t => ~Begin(t)
      BY <3>1 DEF Begin, Open, Close, Lseek, Read, Write, Erase, LockCall, MayCall
    <3> QED BY <1>3, <3>2
  <2> QED BY <1>2, <2>1, <2>2 DEF Holders, Others, Nobody
<1>4. CASE LockSeek(t)
  <2>1. seekmx' = t /\ wrmx' = wrmx /\ call[t].pc = "seeklock"
    BY <1>4 DEF LockSeek
  <2> QED BY <1>2, <2>1 DEF Holders, Others, Nobody
<1>5. CASE LockWr(t)
  <2>1. seekmx' = seekmx /\ wrmx' = t /\ call'[t].pc \in {"write", "noerase"}
    BY <1>0, <1>5 DEF LockWr, Shape, Fields
  <2> QED BY <2>1 DEF Holders, Nobody
<1>6. CASE Return(t)
  <2>1. seekmx' \in {seekmx, Nobody} /\ wrmx' = IF wrmx = t THEN Nobody ELSE wrmx
    BY <1>6 DEF Return
  <2> QED BY <1>2, <2>1 DEF Holders, Others, Nobody
<1>7. CASE ReadStep(t) \/ EraseStep(t)
  <2>1. UNCHANGED <<seekmx, wrmx>> /\ call[t].pc \in {"read", "erase"}
    BY <1>7 DEF ReadStep, EraseStep
  <2> QED BY <1>2, <2>1 DEF Holders, Others, Nobody
<1>8. CASE WriteStep(t)
  <2>1. UNCHANGED <<seekmx, wrmx>>
    BY <1>8 DEF WriteStep
  <2>2. call'[t].pc \in {"write", "ret"}
    BY <1>0, <1>8 DEF WriteStep, Shape, Fields
  <2> QED BY <1>2, <2>1, <2>2 DEF Holders, Others, Nobody
<1>9. CASE NoEraseStep(t)
  <2>1. UNCHANGED <<seekmx, wrmx>>
    BY <1>9 DEF NoEraseStep
  <2>2. call'[t].pc \in {"noerase", "ret", "spin"}
    <3>1. /\ call[t].pc = "noerase"
          /\ \/ call' = [call EXCEPT ![t].pc = "ret"] \/ call' = [call EXCEPT ![t].pc = "spin"]
             \/ \E v : call' = [call EXCEPT ![t].total = @ + v]
      BY <1>9 DEF NoEraseStep
    <3> QED BY <1>0, <3>1, SetPc, SetTotal DEF Keep, Fields
  <2> QED BY <1>2, <2>1, <2>2 DEF Holders, Others, Nobody
<1> QED BY <1>3, <1>4, <1>5, <1>6, <1>7, <1>8, <1>9 DEF Run

\* The two mutexes of the handle, seekmutex taken before wrmutex, never have
\* threads wait for each other: whoever is waited for is past both.
THEOREM MutexesNeverLock == Spec => []HolderGoesOn
<1>1. Init => Holders
  BY DEF Init, Holders
<1>2. Inv /\ Holders => HolderGoesOn
  <2> SUFFICES ASSUME Inv, Holders, NEW t \in Threads, Blocked(t)
               PROVE  /\ call[t].pc = "seeklock"
                      /\ seekmx \in Threads /\ ~Blocked(seekmx) /\ ~Waits(seekmx)
    BY DEF HolderGoesOn
  <2>1. ASSUME NEW u \in Threads, call[u].pc = "wrlock" PROVE wrmx = Nobody
    BY <2>1 DEF Holders, Inv, Alone, Waits
  <2>2. call[t].pc = "seeklock" /\ seekmx # Nobody
    BY <2>1 DEF Blocked
  <2>3. seekmx \in Threads
    BY <2>2 DEF Holders
  <2>4. ~Waits(seekmx)
    BY <2>3 DEF Inv, Calls, Holds, CallOK, Waits, Locking
  <2> QED BY <2>1, <2>2, <2>3, <2>4 DEF Blocked, Waits
<1> QED BY <1>1, <1>2, InitInv, NextInv, HoldersNext, PTL DEF Spec
=============================================================================
