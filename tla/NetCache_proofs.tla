-------------------------- MODULE NetCache_proofs ---------------------------
(***************************************************************************)
(* For every file, cache and request size: net_cache keeps its types, no   *)
(* unread byte is overwritten, and the reader is handed the bytes of the   *)
(* file in order as long as the ring has never been exactly full, but for  *)
(* the last bytes of a ONE_SHOT package whose 100 percent came early.      *)
(***************************************************************************)
EXTENDS NetCache, TLAPS

USE DEF NoByte, BufLen, Cells, Min2, cacheVars, urlVars, transferVars,
        readerVars, history

\* The transfer and the reader agree on how far each of them is.
StreamInv ==
  /\ data_size <= FileSize - sent
  /\ data_size > 0 => tpc = "body"
  /\ tpc = "head" => sent = 0
  /\ tpc = "body" \/ sent > 0 => url_file_size = FileSize
  /\ rpc = "closed" => tpc \in {"off", "end"}
  /\ Reading => left > 0

TypeInv == TypeOK /\ StreamInv

LEMMA PieceType ==
  ASSUME TypeInv, Reading
  PROVE  Piece \in Nat /\ 0 < Piece /\ Piece <= left /\ left \in Nat
  BY ReadAssumption DEF TypeInv, TypeOK, ReaderTypeOK, StreamInv, Piece

LEMMA ProgressType == \A n \in Nat : Progress(n) \in Nat
<1> DEFINE k == FileSize \div Percents
<1>1. k \in Nat /\ k > 0
  BY SizeAssumption
<1>2. \A n \in Nat : n \div k \in Nat
  BY <1>1
<1> QED
  BY <1>2, SizeAssumption DEF Progress

LEMMA InitTypeInv == Init => TypeInv
<1> SUFFICES ASSUME Init PROVE TypeInv
  OBVIOUS
<1>1. CacheTypeOK /\ UrlTypeOK /\ TransferTypeOK /\ ReaderTypeOK
  BY SizeAssumption, ReadAssumption
  DEF Init, CacheTypeOK, UrlTypeOK, TransferTypeOK, ReaderTypeOK
<1>2. FlagTypeOK
  BY DEF Init, FlagTypeOK
<1>3. StreamInv
  BY SizeAssumption DEF Init, StreamInv, Reading
<1> QED
  BY <1>1, <1>2, <1>3 DEF TypeInv, TypeOK

\* A read of size bytes that are there.
LEMMA DeliveredType ==
  ASSUME TypeInv, Reading, Piece <= unread_data_len, Delivered(Piece)
  PROVE  /\ unread_data_len' \in Nat /\ file_offset' \in Nat /\ left' \in Nat
         /\ file_offset' + unread_data_len' = file_offset + unread_data_len
         /\ rpc' \in {rpc, "idle"} /\ (rpc' = "idle" \/ left' > 0)
<1>1. unread_data_len \in Nat /\ file_offset \in Nat
  BY DEF TypeInv, TypeOK, CacheTypeOK
<1> HIDE DEF Min2
<1> QED
  BY <1>1, PieceType DEF Delivered, Reading

LEMMA NextTypeInv == TypeInv /\ [Next]_vars => TypeInv'
<1> SUFFICES ASSUME TypeInv, [Next]_vars PROVE TypeInv'
  OBVIOUS
<1> USE DEF TypeInv, TypeOK
<1>1. CASE SetCacheChangeFlag
  <2>1. FlagTypeOK'
    BY <1>1 DEF SetCacheChangeFlag, FlagTypeOK
  <2>2. /\ CacheTypeOK' /\ UrlTypeOK' /\ TransferTypeOK' /\ ReaderTypeOK'
        /\ StreamInv'
    BY <1>1 DEF SetCacheChangeFlag, CacheTypeOK, UrlTypeOK, TransferTypeOK,
                ReaderTypeOK, StreamInv, Reading
  <2> QED
    BY <2>1, <2>2
<1>2. CASE UrlOpen
  <2>1. CacheTypeOK'
    BY <1>2, SizeAssumption DEF UrlOpen, CacheTypeOK
  <2>2. FlagTypeOK'
    BY <1>2 DEF UrlOpen, FlagTypeOK
  <2>3. UrlTypeOK'
    BY <1>2 DEF UrlOpen, UrlTypeOK
  <2>4. TransferTypeOK'
    BY <1>2, SizeAssumption, ReadAssumption DEF UrlOpen, TransferTypeOK
  <2>5. ReaderTypeOK'
    BY <1>2, SizeAssumption DEF UrlOpen, ReaderTypeOK
  <2>6. StreamInv'
    BY <1>2, SizeAssumption DEF UrlOpen, StreamInv, Reading
  <2> QED
    BY <2>1, <2>2, <2>3, <2>4, <2>5, <2>6
<1>3. CASE WaitFileSize
  BY <1>3 DEF WaitFileSize, CacheTypeOK, UrlTypeOK, FlagTypeOK, TransferTypeOK,
              ReaderTypeOK, StreamInv, Reading
<1>4. CASE ResetReadPtr
  BY <1>4, SizeAssumption
  DEF ResetReadPtr, CacheTypeOK, UrlTypeOK, FlagTypeOK, TransferTypeOK,
      ReaderTypeOK, StreamInv, Reading
<1>5. ASSUME NEW offset \in Offsets, UrlSeek(offset) PROVE TypeInv'
  <2>1. offset \in Nat /\ file_offset \in Nat
    BY ReadAssumption DEF CacheTypeOK
  <2> QED
    BY <1>5, <2>1 DEF UrlSeek, CacheTypeOK, UrlTypeOK, FlagTypeOK,
       TransferTypeOK, ReaderTypeOK, StreamInv, Reading
<1>6. ASSUME NEW size \in Sizes, UrlRead(size) PROVE TypeInv'
  <2>1. size \in Nat /\ size > 0
    BY ReadAssumption
  <2> QED
    BY <1>6, <2>1 DEF UrlRead, CacheTypeOK, UrlTypeOK, FlagTypeOK,
       TransferTypeOK, ReaderTypeOK, StreamInv, Reading
<1>7. CASE UrlReadCache
  <2>1. UrlTypeOK' /\ TransferTypeOK'
    BY <1>7 DEF UrlReadCache, UrlTypeOK, TransferTypeOK
  <2>2. CASE ReadCrash
    BY <1>7, <2>2 DEF UrlReadCache, ReadCrash, CacheTypeOK, UrlTypeOK,
       FlagTypeOK, TransferTypeOK, ReaderTypeOK, StreamInv, Reading
  <2>3. CASE ReadStraight(Piece) \/ ReadWrapped(Piece)
    <3>1. Reading /\ Piece <= unread_data_len /\ Delivered(Piece)
      BY <1>7, <2>3 DEF UrlReadCache, ReadStraight, ReadWrapped
    <3>2. cache_size \in Nat
      BY SizeAssumption DEF CacheTypeOK
    <3>3. rd_pos' \in Nat
      <4>1. CASE ReadStraight(Piece)
        BY <4>1, <3>1, <3>2, PieceType DEF ReadStraight, CacheTypeOK
      <4>2. CASE ReadWrapped(Piece)
        BY <4>2, <3>1, <3>2, PieceType DEF ReadWrapped, CacheTypeOK
      <4> QED
        BY <2>3, <4>1, <4>2
    <3>4. CacheTypeOK'
      BY <1>7, <3>1, <3>3, DeliveredType DEF UrlReadCache, CacheTypeOK
    <3>5. good' \in BOOLEAN /\ head' \in BOOLEAN
      BY <2>3 DEF ReadStraight, ReadWrapped, HandOver
    <3>6. FlagTypeOK'
      BY <1>7, <3>5 DEF UrlReadCache, FlagTypeOK
    <3>7. ReaderTypeOK'
      BY <1>7, <3>1, DeliveredType DEF UrlReadCache, ReaderTypeOK
    <3>8. StreamInv'
      BY <1>7, <3>1, DeliveredType DEF UrlReadCache, StreamInv, Reading
    <3> QED
      BY <2>1, <3>4, <3>6, <3>7, <3>8
  <2> QED
    BY <1>7, <2>2, <2>3 DEF UrlReadCache
<1>8. CASE ReadTimeout
  BY <1>8 DEF ReadTimeout, CacheTypeOK, UrlTypeOK, FlagTypeOK, TransferTypeOK,
              ReaderTypeOK, StreamInv, Reading
<1>9. CASE UrlClose
  BY <1>9 DEF UrlClose, CacheTypeOK, UrlTypeOK, FlagTypeOK, TransferTypeOK,
              ReaderTypeOK, StreamInv, Reading
<1>10. CASE UrlJoined
  BY <1>10 DEF UrlJoined, CacheTypeOK, UrlTypeOK, FlagTypeOK, TransferTypeOK,
               ReaderTypeOK, StreamInv, Reading
<1>11. CASE TransferHead
  BY <1>11 DEF TransferHead, CacheTypeOK, UrlTypeOK, FlagTypeOK,
     TransferTypeOK, ReaderTypeOK, StreamInv, Reading
<1>12. ASSUME NEW n \in 1..WRITER_MAX_LEN, WriteData(n) PROVE TypeInv'
  <2>1. n \in 0..WRITER_MAX_LEN /\ n \in Nat
    BY ReadAssumption
  <2> QED
    BY <1>12, <2>1 DEF WriteData, CacheTypeOK, UrlTypeOK, FlagTypeOK,
       TransferTypeOK, ReaderTypeOK, StreamInv, Reading
<1>13. CASE WriteDataCopy
  <2>1. /\ cache_size \in Nat /\ data_size \in Nat /\ sent \in Nat
        /\ wr_pos \in Nat /\ rd_pos \in Nat /\ unread_data_len \in Nat
    BY SizeAssumption, ReadAssumption DEF CacheTypeOK, TransferTypeOK
  <2>2. \A c \in Cells : WriteIndex(c) \in Int
    BY <2>1, SizeAssumption DEF WriteIndex
  <2>3. cache_buff' \in [Cells -> Nat \cup {NoByte}]
    <3> HIDE DEF Cells
    <3>1. \A c \in Cells : WriteIndex(c) \in 0..(data_size - 1)
                             => sent + WriteIndex(c) \in Nat
      BY <2>1, <2>2
    <3> QED
      BY <1>13, <3>1 DEF WriteDataCopy, CacheTypeOK
  <2>4. wr_pos' \in Nat /\ unread_data_len' \in Nat
    BY <1>13, <2>1 DEF WriteDataCopy
  <2>5. CacheTypeOK'
    BY <1>13, <2>3, <2>4 DEF WriteDataCopy, CacheTypeOK
  <2>6. UrlTypeOK'
    BY <1>13, <2>4, ProgressType DEF WriteDataCopy, UrlTypeOK
  <2>7. FlagTypeOK'
    BY <1>13 DEF WriteDataCopy, FlagTypeOK
  <2>8. TransferTypeOK' /\ ReaderTypeOK' /\ StreamInv'
    BY <1>13, <2>1, SizeAssumption, ReadAssumption
    DEF WriteDataCopy, TransferTypeOK, ReaderTypeOK, StreamInv, Reading
  <2> QED
    BY <2>5, <2>6, <2>7, <2>8
<1>14. CASE WriteDataAbort
  BY <1>14, SizeAssumption, ReadAssumption
  DEF WriteDataAbort, CacheTypeOK, UrlTypeOK, FlagTypeOK, TransferTypeOK,
      ReaderTypeOK, StreamInv, Reading
<1>15. CASE TransferEnd
  BY <1>15 DEF TransferEnd, CacheTypeOK, UrlTypeOK, FlagTypeOK,
     TransferTypeOK, ReaderTypeOK, StreamInv, Reading
<1>16. CASE UNCHANGED vars
  BY <1>16 DEF vars, CacheTypeOK, UrlTypeOK, FlagTypeOK, TransferTypeOK,
     ReaderTypeOK, StreamInv, Reading
<1> QED
  BY <1>1, <1>2, <1>3, <1>4, <1>5, <1>6, <1>7, <1>8, <1>9, <1>10, <1>11,
     <1>12, <1>13, <1>14, <1>15, <1>16
  DEF Next, ReaderNext, WriteDataWait

\* Type correctness of the cache, for every value of the constants.
THEOREM NetTypeCorrect == Spec => []TypeOK
<1>1. TypeInv => TypeOK
  BY DEF TypeInv
<1> QED
  BY InitTypeInv, NextTypeInv, <1>1, PTL DEF Spec
-----------------------------------------------------------------------------
(* The ring.                                                               *)

\* ONE_SHOT: the package buffer is filled from its beginning and never wraps; it
\* is read when all that 100 percent stands for is there, or all of it.
DramInv ==
  cache_change_flag /\ rpc # "closed" =>
    /\ cache_size = PackageLen /\ wr_pos = sent
    /\ \A c \in 0..(sent - 1) : cache_buff[c] = c
    /\ rpc # "size"
    /\ percent >= Percents \/ early \/ rpc \notin {"load", "joining"} =>
         sent >= Announced
    /\ (rd_pos = 0 /\ file_offset = 0) \/ sent >= Announced
    /\ rd_pos = file_offset \/ file_offset >= Announced
    /\ ~early => /\ (rd_pos = 0 /\ file_offset = 0) \/ sent = FileSize
                 /\ rpc \notin {"load", "joining"} => sent = FileSize

\* PIECE_BY_PIECE: the ring is the static buffer.
StaticInv ==
  ~cache_change_flag /\ rpc # "closed" => cache_size = CACHE_BUF_SIZE /\ ~early

\* What has been sent has been read or is unread.
Accounted == ~early => sent = file_offset + unread_data_len

\* A ring that is full with rd_pos = wr_pos in its middle has been noticed,
\* and only such a ring lets a read leave the buffer.
FullNoticed ==
  ~early => /\ unread_data_len = cache_size /\ rd_pos > 0 => filled
            /\ rd_pos > cache_size => filled

\* BytesInOrder, and its two histories agree.
OrderInv == BytesInOrder /\ (good => head)

RingInv == /\ DramInv /\ StaticInv /\ Accounted /\ UnreadKept /\ FullNoticed
           /\ OrderInv

\* 100 percent is reported for Announced bytes at least.
LEMMA ProgressAnnounced ==
  /\ Announced \in Nat /\ Announced <= FileSize
  /\ \A n \in Nat : Progress(n) >= Percents => n >= Announced
<1> DEFINE k == FileSize \div Percents
<1>1. k \in Nat /\ k > 0 /\ Percents \in Nat /\ FileSize \in Nat
  BY SizeAssumption
<1>2. \A a, b, p \in Nat : b > 0 /\ a \div b >= p => b * p <= a
  OBVIOUS
<1>3. \A a, b \in Nat : b > 0 => b * (a \div b) \in Nat /\ b * (a \div b) <= a
  OBVIOUS
<1>4. \A a, b \in Nat : a * b = b * a
  OBVIOUS
<1>5. Announced \in Nat /\ Announced <= FileSize
  BY <1>3, SizeAssumption DEF Announced
<1>6. ASSUME NEW n \in Nat, Progress(n) >= Percents, n < FileSize
      PROVE  n >= Announced
  <2>1. n \div k >= Percents
    BY <1>1, <1>6 DEF Progress
  <2>2. Announced = k * Percents
    BY <1>1, <1>4 DEF Announced
  <2> HIDE DEF k
  <2>3. k * Percents <= n
    BY <1>1, <1>2, <2>1
  <2> QED
    BY <1>5, <2>2, <2>3
<1> QED
  BY <1>1, <1>5, <1>6

LEMMA InitRing == Init => RingInv
  BY SizeAssumption
  DEF Init, RingInv, DramInv, StaticInv, Accounted, UnreadKept, FullNoticed,
      OrderInv, BytesInOrder, RingCell

\* The types, without the sets they are written with.
LEMMA Numbers ==
  ASSUME TypeInv
  PROVE  /\ cache_size \in Nat /\ cache_size > 0 /\ cache_size <= BufLen
         /\ unread_data_len \in Nat /\ rd_pos \in Nat /\ wr_pos \in Nat
         /\ file_offset \in Nat /\ sent \in Nat /\ data_size \in Nat
         /\ sent + data_size <= FileSize /\ FileSize \in Nat
         /\ PackageLen \in Nat /\ PackageLen >= FileSize /\ Percents \in Nat
         /\ percent \in Nat
  BY SizeAssumption, ReadAssumption
  DEF TypeInv, TypeOK, CacheTypeOK, UrlTypeOK, TransferTypeOK, StreamInv

\* write_data: the unread bytes stay, the new ones follow them.
LEMMA CopyKeepsRing ==
  ASSUME TypeInv, Accounted, UnreadKept, WriteDataCopy PROVE UnreadKept'
<1> DEFINE S == cache_size
           R == rd_pos
           W == wr_pos
           u == unread_data_len
           d == data_size
<1>1. SUFFICES ASSUME R <= S, ~early PROVE UnreadKept'
  BY DEF UnreadKept, WriteDataCopy
<1>2. /\ S \in Nat /\ S > 0 /\ S <= BufLen /\ u \in Nat /\ R \in Nat
      /\ W \in Nat /\ d \in Nat /\ file_offset \in Nat /\ sent \in Nat
  BY Numbers
<1>3. /\ u <= S /\ W <= S /\ W - R \in {u, u - S}
      /\ \A i \in 0..(u - 1) : cache_buff[RingCell(i)] = file_offset + i
  BY <1>1 DEF UnreadKept
<1>4. d > 0 /\ d <= S - u
  BY <1>2 DEF WriteDataCopy, WriterWaits
<1>5. /\ rd_pos' = R /\ cache_size' = S /\ unread_data_len' = u + d
      /\ file_offset' = file_offset
      /\ wr_pos' = IF W >= R /\ d > S - W THEN d - (S - W) ELSE W + d
      /\ cache_buff' = [c \in Cells |->
            IF c < S /\ WriteIndex(c) \in 0..(d - 1)
            THEN sent + WriteIndex(c) ELSE cache_buff[c]]
  BY DEF WriteDataCopy
<1>6. W >= R => W - R = u
  BY <1>2, <1>3, <1>4
<1>7. W < R => W - R = u - S
  BY <1>2, <1>3
<1>8. wr_pos' <= S /\ wr_pos' - R \in {u + d, u + d - S} /\ u + d <= S
  BY <1>1, <1>2, <1>3, <1>4, <1>5, <1>6, <1>7
<1>9. ASSUME NEW i \in 0..(u + d - 1)
      PROVE  cache_buff'[RingCell(i)'] = file_offset + i
  <2> DEFINE c == RingCell(i)
  <2>1. RingCell(i)' = c
    BY <1>5 DEF RingCell
  <2>2. i \in Nat /\ i < u + d /\ c \in 0..(S - 1)
    BY <1>1, <1>2, <1>4 DEF RingCell
  <2>3. c \in Cells
    BY <1>2, <2>2, SizeAssumption
  <2>4. cache_buff'[c] = IF WriteIndex(c) \in 0..(d - 1)
                         THEN sent + WriteIndex(c) ELSE cache_buff[c]
    BY <1>2, <1>5, <2>2, <2>3
  <2>5. CASE i < u
    <3>1. WriteIndex(c) \notin 0..(d - 1)
      BY <1>1, <1>2, <1>3, <1>4, <1>6, <1>7, <2>2, <2>5
      DEF WriteIndex, RingCell
    <3>2. cache_buff[c] = file_offset + i
      BY <1>2, <1>3, <2>2, <2>5
    <3> QED
      BY <2>1, <2>4, <3>1, <3>2
  <2>6. CASE i >= u
    <3>1. WriteIndex(c) = i - u
      BY <1>1, <1>2, <1>3, <1>4, <1>6, <1>7, <2>2, <2>6
      DEF WriteIndex, RingCell
    <3>2. sent + (i - u) = file_offset + i
      BY <1>1, <1>2, <2>2 DEF Accounted
    <3>3. WriteIndex(c) \in 0..(d - 1)
      BY <1>2, <2>2, <2>6, <3>1
    <3> QED
      BY <2>1, <2>4, <3>1, <3>2, <3>3
  <2> QED
    BY <1>2, <2>2, <2>5, <2>6
<1> QED
  BY <1>2, <1>5, <1>8, <1>9 DEF UnreadKept

\* url_read_cache: what is left is still in place, and what is delivered comes
\* from the right cells, unless the ring was exactly full.
LEMMA ReadKeepsRing ==
  ASSUME TypeInv, ~early, UnreadKept, FullNoticed, OrderInv, UrlReadCache
  PROVE  UnreadKept' /\ FullNoticed' /\ OrderInv'
<1> DEFINE S == cache_size
           R == rd_pos
           W == wr_pos
           u == unread_data_len
           n == Piece
<1>1. /\ S \in Nat /\ S > 0 /\ S <= BufLen /\ u \in Nat /\ R \in Nat
      /\ W \in Nat /\ file_offset \in Nat
  BY Numbers
<1>2. n \in Nat /\ 0 < n /\ n <= u
  BY PieceType DEF UrlReadCache
<1>3. UNCHANGED <<cache_buff, cache_size, wr_pos, filled, early>>
  BY DEF UrlReadCache
<1>4. CASE ReadCrash
  BY <1>3, <1>4
  DEF ReadCrash, UnreadKept, FullNoticed, OrderInv, BytesInOrder, RingCell
<1>5. CASE ReadStraight(n) \/ ReadWrapped(n)
  <2>0. unread_data_len' = u - n /\ file_offset' = file_offset + n
    BY <1>5 DEF ReadStraight, ReadWrapped, Delivered
  <2>r. \/ (W >= R \/ n <= S - R) /\ rd_pos' = R + n
        \/ W < R /\ n > S - R /\ S - R >= 0 /\ rd_pos' = n - (S - R)
    BY <1>5 DEF ReadStraight, ReadWrapped
  <2>h. good' => head'
    BY <1>5 DEF ReadStraight, ReadWrapped, HandOver, OrderInv
  <2>1. CASE R > S
    <3>1. filled
      BY <2>1 DEF FullNoticed
    <3>2. rd_pos' \in Nat /\ rd_pos' > S
      BY <1>1, <1>2, <2>r, <2>1
    <3> QED
      BY <1>1, <1>3, <2>h, <3>1, <3>2 DEF UnreadKept, FullNoticed, OrderInv, BytesInOrder
  <2>2. CASE R <= S
    <3> HIDE DEF n
    <3>1. /\ u <= S /\ W <= S /\ W - R \in {u, u - S}
          /\ \A i \in 0..(u - 1) : cache_buff[RingCell(i)] = file_offset + i
      BY <2>2 DEF UnreadKept
    <3>2. rd_pos' \in {R + n, R + n - S} /\ rd_pos' \in Nat /\ rd_pos' >= 0
      BY <1>1, <1>2, <2>r, <2>2
    <3>3. rd_pos' <= S =>
            /\ u - n <= S
            /\ W - rd_pos' \in {u - n, u - n - S}
      BY <1>1, <1>2, <2>r, <2>2, <3>1
    <3>4. ASSUME rd_pos' <= S, NEW i \in 0..(u - n - 1)
          PROVE  cache_buff[RingCell(i)'] = file_offset + n + i
      <4>1. n + i \in 0..(u - 1)
        BY <1>1, <1>2
      <4>2. RingCell(i)' = RingCell(n + i)
        BY <1>1, <1>2, <1>3, <2>r, <2>2, <3>1, <3>4, <4>1 DEF RingCell
      <4> QED
        BY <1>1, <1>2, <3>1, <4>1, <4>2
    <3>5. UnreadKept'
      BY <1>1, <1>2, <1>3, <2>0, <3>1, <3>3, <3>4 DEF UnreadKept
    <3>6. rd_pos' > S => filled
      BY <1>1, <1>2, <2>r, <2>2, <3>1 DEF FullNoticed
    <3>7. FullNoticed'
      BY <1>1, <1>2, <1>3, <2>0, <3>1, <3>6 DEF FullNoticed
    <3>8. ASSUME ~filled PROVE good'
      <4>1. good
        BY <3>8 DEF OrderInv, BytesInOrder
      <4>2. ASSUME NEW i \in 0..(n - 1)
            PROVE  cache_buff[RingCell(i)] = file_offset + i
        BY <1>1, <1>2, <3>1
      <4>3. CASE ReadStraight(n)
        <5>1. R + n <= S
          BY <1>1, <1>2, <2>2, <3>1, <3>8, <4>3 DEF ReadStraight, FullNoticed
        <5>2. \A i \in 0..(n - 1) : R + i < S /\ RingCell(i) = R + i
          BY <1>1, <1>2, <5>1 DEF RingCell
        <5> QED
          BY <4>1, <4>2, <4>3, <5>2 DEF ReadStraight, HandOver
      <4>4. CASE ReadWrapped(n)
        <5>1. \A i \in 0..(n - 1) :
                /\ RingCell(i) = IF i < S - R THEN R + i ELSE i - (S - R)
                /\ RingCell(i) < S
          BY <1>1, <1>2, <2>2, <3>1 DEF RingCell
        <5> QED
          BY <4>1, <4>2, <4>4, <5>1 DEF ReadWrapped, HandOver
      <4> QED
        BY <1>5, <4>3, <4>4
    <3> QED
      BY <1>3, <2>h, <3>5, <3>7, <3>8 DEF OrderInv, BytesInOrder
  <2> QED
    BY <1>1, <2>1, <2>2
<1> QED
  BY <1>4, <1>5 DEF UrlReadCache

\* A package that was announced early: what the percentage stands for is there.
LEMMA ReadEarly ==
  ASSUME TypeInv, early, cache_change_flag, rpc # "closed", DramInv, OrderInv,
         UrlReadCache
  PROVE  OrderInv'
<1> DEFINE n == Piece
<1>1. /\ cache_size \in Nat /\ rd_pos \in Nat /\ file_offset \in Nat
      /\ sent \in Nat /\ sent <= FileSize /\ Announced \in Nat
      /\ cache_size = PackageLen /\ PackageLen >= FileSize /\ FileSize \in Nat
      /\ PackageLen \in Nat
  BY Numbers, ProgressAnnounced DEF DramInv, TypeInv, TypeOK, TransferTypeOK
<1>2. /\ n \in Nat /\ UNCHANGED <<filled, early>>
  BY PieceType DEF UrlReadCache
<1>3. /\ sent >= Announced /\ \A c \in 0..(sent - 1) : cache_buff[c] = c
      /\ rd_pos = file_offset \/ file_offset >= Announced
  BY DEF DramInv
<1>4. ASSUME NEW i \in 0..(n - 1), file_offset + i < Announced
      PROVE  rd_pos + i < cache_size /\ cache_buff[rd_pos + i] = file_offset + i
  BY <1>1, <1>2, <1>3, <1>4
<1>5. CASE ReadCrash
  BY <1>2, <1>5 DEF ReadCrash, OrderInv, BytesInOrder
<1>h. ASSUME NEW cell, HandOver(n, cell),
             \A i \in 0..(n - 1) : file_offset + i < Announced => cell[i] = rd_pos + i
      PROVE  OrderInv'
  <2>1. \A i \in 0..(n - 1) : file_offset + i < Announced =>
          cell[i] < cache_size /\ cache_buff[cell[i]] = file_offset + i
    BY <1>4, <1>h
  <2>2. (head => head') /\ (good' => head')
    BY <1>h, <2>1 DEF HandOver, OrderInv
  <2> QED
    BY <1>2, <2>2 DEF OrderInv, BytesInOrder
<1>6. CASE ReadStraight(n)
  <2> DEFINE cell == [i \in 0..(n - 1) |-> rd_pos + i]
  <2>1. HandOver(n, cell)
    BY <1>6 DEF ReadStraight
  <2>2. \A i \in 0..(n - 1) : cell[i] = rd_pos + i
    OBVIOUS
  <2> HIDE DEF cell
  <2> QED
    BY <1>h, <2>1, <2>2
<1>7. CASE ReadWrapped(n)
  <2> DEFINE cell == [i \in 0..(n - 1) |-> IF i < cache_size - rd_pos
                                           THEN rd_pos + i ELSE i - (cache_size - rd_pos)]
  <2>1. HandOver(n, cell)
    BY <1>7 DEF ReadWrapped
  <2>2. \A i \in 0..(n - 1) : file_offset + i < Announced => i < cache_size - rd_pos
    BY <1>1, <1>2, <1>4
  <2>3. \A i \in 0..(n - 1) : file_offset + i < Announced => cell[i] = rd_pos + i
    BY <2>2
  <2> HIDE DEF cell
  <2> QED
    BY <1>h, <2>1, <2>3
<1> QED
  BY <1>5, <1>6, <1>7 DEF UrlReadCache

LEMMA NextRing ==
  ASSUME TypeInv, RingInv, [Next]_vars PROVE RingInv'
<1> USE DEF RingInv
<1>n. /\ cache_size \in Nat /\ cache_size > 0 /\ cache_size <= BufLen
      /\ unread_data_len \in Nat /\ rd_pos \in Nat /\ wr_pos \in Nat
      /\ file_offset \in Nat /\ sent \in Nat /\ data_size \in Nat
      /\ sent + data_size <= FileSize /\ FileSize \in Nat
      /\ PackageLen \in Nat /\ PackageLen >= FileSize /\ Percents \in Nat
      /\ percent \in Nat
      /\ Announced \in Nat /\ Announced <= FileSize
  BY Numbers, ProgressAnnounced
<1>s. StreamInv
  BY DEF TypeInv
<1>1. CASE SetCacheChangeFlag
  BY <1>1 DEF SetCacheChangeFlag, DramInv, StaticInv, Accounted, UnreadKept,
     FullNoticed, OrderInv, BytesInOrder, RingCell
<1>2. CASE UrlOpen
  <2>1. DramInv'
    BY <1>2, SizeAssumption DEF UrlOpen, DramInv
  <2>2. Accounted' /\ UnreadKept' /\ FullNoticed'
    BY <1>2, SizeAssumption DEF UrlOpen, Accounted, UnreadKept, FullNoticed
  <2>3. OrderInv' /\ StaticInv'
    BY <1>2 DEF UrlOpen, OrderInv, BytesInOrder, StaticInv
  <2> QED
    BY <2>1, <2>2, <2>3
<1>3. CASE WaitFileSize
  <2>1. DramInv'
    BY <1>3 DEF WaitFileSize, DramInv
  <2>2. /\ Accounted' /\ UnreadKept' /\ FullNoticed' /\ OrderInv'
        /\ StaticInv'
    BY <1>3 DEF WaitFileSize, Accounted, UnreadKept, FullNoticed,
       OrderInv, BytesInOrder, RingCell, StaticInv
  <2> QED
    BY <2>1, <2>2
<1>4. CASE ResetReadPtr
  <2>1. /\ cache_change_flag /\ rpc # "closed" /\ percent >= Percents
        /\ sent >= Announced /\ cache_size = PackageLen /\ wr_pos = sent
        /\ \A c \in 0..(sent - 1) : cache_buff[c] = c
    BY <1>4 DEF ResetReadPtr, DramInv
  <2>2. /\ rd_pos' = 0 /\ file_offset' = 0 /\ rpc' = "idle"
        /\ unread_data_len' = url_file_size
        /\ early' = (early \/ sent < FileSize)
        /\ UNCHANGED <<cache_buff, cache_size, wr_pos, sent, filled, good, head,
                       cache_change_flag, percent>>
    BY <1>4 DEF ResetReadPtr
  <2>3. ~early' => sent = FileSize /\ unread_data_len' = FileSize
    <3>1. ~early' => ~(sent < FileSize)
      BY <2>2, Zenon
    <3>2. sent = FileSize => url_file_size = FileSize
      BY <1>n, <1>s, SizeAssumption DEF StreamInv
    <3> QED
      BY <1>n, <2>2, <3>1, <3>2
  <2>4. DramInv'
    BY <2>1, <2>2, <2>3 DEF DramInv
  <2>5. Accounted' /\ FullNoticed'
    BY <1>n, <2>1, <2>2, <2>3 DEF Accounted, FullNoticed
  <2>6. UnreadKept'
    <3>1. \A i \in 0..(FileSize - 1) : RingCell(i)' = i
      BY <1>n, <2>1, <2>2 DEF RingCell
    <3> QED
      BY <1>n, <2>1, <2>2, <2>3, <3>1 DEF UnreadKept
  <2>7. OrderInv' /\ StaticInv'
    BY <2>1, <2>2 DEF OrderInv, BytesInOrder, StaticInv
  <2> QED
    BY <2>4, <2>5, <2>6, <2>7
<1>5. CASE UrlReadCache
  <2>1. /\ Reading /\ Piece \in Nat /\ 0 < Piece /\ Piece <= unread_data_len
    BY <1>5, PieceType DEF UrlReadCache
  <2>2. Accounted'
    BY <1>5, <1>n, <2>1
    DEF Accounted, UrlReadCache, ReadStraight, ReadWrapped, ReadCrash, Delivered
  <2>3. /\ \/ UNCHANGED <<rd_pos, file_offset>> /\ rpc' = "crashed"
           \/ /\ file_offset' = file_offset + Piece /\ rpc' \in {rpc, "idle"}
              /\ \/ rd_pos' = rd_pos + Piece
                 \/ Piece > cache_size - rd_pos
        /\ UNCHANGED <<cache_buff, cache_size, wr_pos, sent, early, percent,
                       cache_change_flag, filled>>
    BY <1>5
    DEF UrlReadCache, ReadStraight, ReadWrapped, ReadCrash, Delivered
  <2>4. DramInv'
    <3> SUFFICES ASSUME cache_change_flag PROVE DramInv'
      BY <2>3 DEF DramInv
    <3>1. /\ cache_size = PackageLen /\ wr_pos = sent
          /\ \A c \in 0..(sent - 1) : cache_buff[c] = c
          /\ sent >= Announced /\ (~early => sent = FileSize)
          /\ rd_pos = file_offset \/ file_offset >= Announced
      BY <2>1 DEF DramInv, Reading
    <3>2. rd_pos' = file_offset' \/ file_offset' >= Announced
      <4> HIDE DEF Cells, BufLen, Min2
      <4> QED
        BY <1>n, <2>1, <2>3, <3>1
    <3>3. rpc' \notin {"size", "closed"}
      BY <2>1, <2>3 DEF Reading
    <3> QED
      BY <2>3, <3>1, <3>2, <3>3 DEF DramInv
  <2>5. StaticInv'
    BY <2>1, <2>3 DEF StaticInv, Reading
  <2>6. CASE ~early
    BY <1>5, <2>2, <2>4, <2>5, <2>6, ReadKeepsRing
  <2>7. CASE early
    <3>1. cache_change_flag /\ rpc # "closed"
      BY <2>1, <2>7 DEF StaticInv, Reading
    <3>2. OrderInv'
      BY <1>5, <2>7, <3>1, ReadEarly
    <3> QED
      BY <2>2, <2>3, <2>4, <2>5, <2>7, <3>2 DEF UnreadKept, FullNoticed
  <2> QED
    BY <2>6, <2>7
<1>6. CASE WriteDataCopy
  <2>1. Accounted'
    BY <1>6, <1>n DEF WriteDataCopy, Accounted
  <2>2. UnreadKept'
    BY <1>6, CopyKeepsRing
  <2>3. FullNoticed'
    BY <1>6, <1>n DEF WriteDataCopy, FullNoticed
  <2>4. OrderInv' /\ StaticInv'
    BY <1>6 DEF WriteDataCopy, OrderInv, BytesInOrder, StaticInv
  <2>5. ASSUME cache_change_flag, rpc # "closed" PROVE DramInv'
    <3>1. /\ cache_size = PackageLen /\ wr_pos = sent
          /\ \A c \in 0..(sent - 1) : cache_buff[c] = c
          /\ data_size > 0 /\ sent < FileSize /\ rpc # "size"
          /\ (rd_pos = 0 /\ file_offset = 0) \/ sent >= Announced
          /\ rd_pos = file_offset \/ file_offset >= Announced
      BY <1>6, <1>n, <2>5 DEF DramInv, WriteDataCopy
    <3>2. wr_pos' = sent + data_size /\ sent' = sent + data_size
      BY <1>6, <1>n, <3>1 DEF WriteDataCopy
    <3>3. ASSUME NEW c \in 0..(sent + data_size - 1) PROVE cache_buff'[c] = c
      <4>1. c \in Cells /\ c < cache_size
        BY <1>n, <3>1, SizeAssumption
      <4>2. cache_buff'[c] = IF WriteIndex(c) \in 0..(data_size - 1)
                             THEN sent + WriteIndex(c) ELSE cache_buff[c]
        BY <1>6, <4>1 DEF WriteDataCopy
      <4>3. CASE c < sent
        BY <1>n, <3>1, <4>1, <4>2, <4>3 DEF WriteIndex
      <4>4. CASE c >= sent
        BY <1>n, <3>1, <4>1, <4>2, <4>4 DEF WriteIndex
      <4> QED
        BY <1>n, <4>3, <4>4
    <3>4. percent' >= Percents => sent' >= Announced
      <4>1. CASE sent >= Announced
        BY <1>n, <3>2, <4>1
      <4>2. CASE ~(sent >= Announced)
        <5>1. file_offset = 0 /\ ~early
          BY <2>5, <3>1, <4>2 DEF DramInv
        <5>2. /\ unread_data_len' = sent + data_size
              /\ percent' = Progress(sent + data_size)
          BY <1>6, <1>n, <2>5, <5>1 DEF WriteDataCopy, Accounted
        <5> QED
          BY <1>n, <3>2, <5>2, ProgressAnnounced
      <4> QED
        BY <4>1, <4>2
    <3>5. UNCHANGED <<cache_size, rd_pos, file_offset, rpc, cache_change_flag, early>>
      BY <1>6 DEF WriteDataCopy
    <3>6. \A c \in 0..(sent' - 1) : cache_buff'[c] = c
      <4>1. \A c \in 0..(sent + data_size - 1) : cache_buff'[c] = c
        BY <3>3
      <4>2. sent' - 1 = sent + data_size - 1
        BY <1>n, <3>2
      <4> QED
        BY <4>1, <4>2
    <3>7. sent >= Announced => sent' >= Announced
      BY <1>n, <3>2
    <3>8. early \/ rpc \notin {"load", "joining"} => sent >= Announced
      BY <2>5 DEF DramInv
    <3>9. ~early => rd_pos = 0 /\ file_offset = 0 /\ rpc \in {"load", "joining"}
      BY <1>n, <2>5, <3>1 DEF DramInv
    <3> QED
      BY <3>1, <3>2, <3>4, <3>5, <3>6, <3>7, <3>8, <3>9 DEF DramInv
  <2>6. DramInv'
    BY <1>6, <2>5 DEF WriteDataCopy, DramInv
  <2> QED
    BY <2>1, <2>2, <2>3, <2>4, <2>6
<1>7. ASSUME UNCHANGED <<cacheVars, cache_change_flag, percent, sent, history>>,
             \/ rpc' = rpc
             \/ rpc' = "closed"
             \/ rpc # "closed" /\ rpc' = "joining"
             \/ /\ rpc \in {"idle", "seek", "read"}
                /\ rpc' \in {"seek", "read", "failed"}
      PROVE  RingInv'
  <2>1. Accounted' /\ UnreadKept' /\ FullNoticed' /\ OrderInv'
    BY <1>7 DEF Accounted, UnreadKept, FullNoticed, OrderInv, BytesInOrder, RingCell
  <2>2. DramInv' /\ StaticInv'
    BY <1>7 DEF DramInv, StaticInv
  <2> QED
    BY <2>1, <2>2
<1>8. ASSUME NEW offset \in Offsets, UrlSeek(offset) PROVE RingInv'
  BY <1>7, <1>8 DEF UrlSeek
<1>9. ASSUME NEW size \in Sizes, UrlRead(size) PROVE RingInv'
  BY <1>7, <1>9 DEF UrlRead
<1>10. ASSUME NEW n \in 1..WRITER_MAX_LEN, WriteData(n) PROVE RingInv'
  BY <1>7, <1>10 DEF WriteData
<1>11. CASE \/ ReadTimeout \/ UrlJoined \/ TransferHead
            \/ WriteDataAbort \/ TransferEnd
  BY <1>7, <1>11 DEF ReadTimeout, ReaderWaits, Reading, UrlJoined, TransferHead,
     WriteDataAbort, TransferEnd
<1>12. CASE UrlClose
  <2>1. rpc # "closed"
    BY <1>12 DEF UrlClose
  <2> QED
    BY <1>7, <1>12, <2>1 DEF UrlClose
<1>13. CASE UNCHANGED vars
  BY <1>7, <1>13 DEF vars
<1> QED
  BY <1>1, <1>2, <1>3, <1>4, <1>5, <1>6, <1>8, <1>9, <1>10, <1>11, <1>12, <1>13
  DEF Next, ReaderNext, WriteDataWait

LEMMA RingAlways == Spec => [](TypeInv /\ RingInv)
<1>1. Init => TypeInv /\ RingInv
  BY InitTypeInv, InitRing
<1>2. TypeInv /\ RingInv /\ [Next]_vars => (TypeInv /\ RingInv)'
  BY NextTypeInv, NextRing
<1> QED
  BY <1>1, <1>2, PTL DEF Spec

\* write_data never overwrites a byte that url_read_cache has not read, for
\* every size of the file, of the ring, of the chunks of libcurl and of the reads,
\* until a read has left the buffer or begun before the last byte had come.
THEOREM UnreadNeverLost == Spec => []UnreadKept
<1>1. TypeInv /\ RingInv => UnreadKept
  BY DEF RingInv
<1> QED
  BY RingAlways, <1>1, PTL

\* As long as the ring has not been exactly full, url_read and url_seek give
\* the bytes of the file, in order; in a ONE_SHOT package of any size, at least
\* all those that 100 percent stands for.
THEOREM InOrderUnlessFull == Spec => []BytesInOrder
<1>1. TypeInv /\ RingInv => BytesInOrder
  BY DEF RingInv, OrderInv
<1> QED
  BY RingAlways, <1>1, PTL

\* ONE_SHOT: when the source reads the package buffer, url_seek and url_read in
\* progress included, write_data has put into it all of the package but what the
\* percentage does not count, fewer bytes than there are percents.
THEOREM LoadedFirst == Spec => []LoadedBeforeRead
<1>1. TypeInv /\ RingInv => LoadedBeforeRead
  BY DEF RingInv, DramInv, LoadedBeforeRead, Reading
<1> QED
  BY RingAlways, <1>1, PTL

\* The reader and the transfer thread never wait for each other: a piece and a
\* chunk of libcurl always fit together in the ring, and in the package buffer
\* whose count of unread bytes runs ahead of what has come.
THEOREM NeverMutualWait == Spec => []NoMutualWait
<1>1. TypeInv => NoMutualWait
  <2> SUFFICES ASSUME TypeInv, ReaderWaits, data_size > 0, WriterWaits
               PROVE  FALSE
    BY DEF NoMutualWait
  <2>1. Piece \in Nat /\ Piece > unread_data_len
    BY PieceType DEF ReaderWaits
  <2>2. /\ cache_size \in {CACHE_BUF_SIZE, PackageLen} /\ cache_size \in Nat
        /\ unread_data_len \in Nat
        /\ data_size \in Nat /\ data_size <= WRITER_MAX_LEN
    BY Numbers, ReadAssumption DEF TypeInv, TypeOK, TransferTypeOK, CacheTypeOK
  <2>3. Piece <= PER_SIZE \/ Piece <= SEEK_BUF_SIZE
    BY ReadAssumption DEF Piece, TypeInv, TypeOK, ReaderTypeOK
  <2>4. PER_SIZE < cache_size - WRITER_MAX_LEN /\ SEEK_BUF_SIZE < cache_size - WRITER_MAX_LEN
    BY <2>2, PerSizeAssumption
  <2> QED
    BY <2>1, <2>2, <2>3, <2>4, ReadAssumption DEF WriterWaits
<1> QED
  BY InitTypeInv, NextTypeInv, <1>1, PTL DEF Spec
=============================================================================
