------------------------------ MODULE NetCache ------------------------------
(***************************************************************************)
(* net_interface.c of libalislupgrade_v4: the ring buffer net_cache        *)
(* between libcurl's transfer thread, which calls write_data, and the      *)
(* reader that calls url_open, url_seek, url_read and url_close: the       *)
(* source thread of the NET plugin, or get_config_from_urlfile.            *)
(*                                                                         *)
(* A byte of the file is its position.  The steps taken under cache_mutex  *)
(* are actions, so the mutex is not a variable.  The reader asks for any   *)
(* of a few offsets and sizes.                                             *)
(***************************************************************************)
EXTENDS Integers

CONSTANTS
  FileSize,         \* length of the file at the url
  CACHE_BUF_SIZE,   \* size of the static cache_buf
  PackageLen,       \* FileSize aligned up: the DRAM buffer of ONE_SHOT
  WRITER_MAX_LEN,   \* the most libcurl hands to write_data
  SEEK_BUF_SIZE,    \* what url_seek reads at a time
  PER_SIZE,         \* what url_read reads at a time (per_size)
  Percents,         \* the 100 of write_data, scaled to FileSize
  Offsets, Sizes,   \* what the reader seeks and reads
  MaxOpens          \* bound: url_open calls

ASSUME SizeAssumption ==
  /\ FileSize \in Nat \ {0} /\ CACHE_BUF_SIZE \in Nat \ {0}
  /\ PackageLen \in Nat /\ PackageLen >= FileSize
  /\ Percents \in Nat \ {0} /\ Percents <= FileSize
  /\ MaxOpens \in Nat
ASSUME ReadAssumption ==
  /\ WRITER_MAX_LEN \in Nat \ {0} /\ SEEK_BUF_SIZE \in Nat \ {0}
  /\ PER_SIZE \in Nat \ {0}
  /\ Offsets \subseteq Nat /\ Sizes \subseteq Nat \ {0}
\* "per_size should be less than CACHE_BUF_SIZE-WRITER_MAX_LEN"; the package
\* buffer, a multiple of 128 KB, is larger than both together too.
ASSUME PerSizeAssumption ==
  \A size \in {CACHE_BUF_SIZE, PackageLen} :
    PER_SIZE < size - WRITER_MAX_LEN /\ SEEK_BUF_SIZE < size - WRITER_MAX_LEN

VARIABLES
  \* net_cache
  cache_buff, cache_size, unread_data_len, rd_pos, wr_pos, file_offset,
  \* the other globals
  url_file_size, url_abort, cache_change_flag, percent,
  \* the transfer thread: bytes copied, and data_size of a write_data call
  tpc, sent, data_size,
  \* the reader: opens so far, bytes left of its call
  rpc, opens, left,
  \* history: the bytes delivered are the file's, and so are those of them that
  \* Announced counts; the ring was exactly full; the source of a ONE_SHOT upgrade
  \* was started before the last byte had come
  good, head, filled, early

cacheVars == <<cache_buff, cache_size, unread_data_len, rd_pos, wr_pos,
               file_offset>>
urlVars == <<url_file_size, url_abort, cache_change_flag, percent>>
transferVars == <<tpc, sent, data_size>>
readerVars == <<rpc, opens, left>>
history == <<good, head, filled, early>>
vars == <<cacheVars, urlVars, transferVars, readerVars, history>>

NoByte == -1
BufLen == IF PackageLen > CACHE_BUF_SIZE THEN PackageLen ELSE CACHE_BUF_SIZE
Cells == 0..(BufLen - 1)
Min2(a, b) == IF a < b THEN a ELSE b

CacheTypeOK ==
  /\ cache_buff \in [Cells -> Nat \cup {NoByte}]
  /\ cache_size \in {CACHE_BUF_SIZE, PackageLen}
  /\ unread_data_len \in Nat /\ rd_pos \in Nat /\ wr_pos \in Nat
  /\ file_offset \in Nat
UrlTypeOK == url_file_size \in {0, FileSize} /\ percent \in Nat
FlagTypeOK ==
  /\ url_abort \in BOOLEAN /\ cache_change_flag \in BOOLEAN
  /\ good \in BOOLEAN /\ head \in BOOLEAN
  /\ filled \in BOOLEAN /\ early \in BOOLEAN
TransferTypeOK ==
  /\ tpc \in {"off", "head", "body", "end"}
  /\ sent \in 0..FileSize /\ data_size \in 0..WRITER_MAX_LEN
ReaderTypeOK ==
  /\ rpc \in {"closed", "size", "load", "idle", "seek", "read", "failed",
              "joining", "crashed"}
  /\ opens \in 0..MaxOpens /\ left \in Nat

\* Every piece of state of the cache and its two users keeps its type.
TypeOK == /\ CacheTypeOK /\ UrlTypeOK /\ FlagTypeOK
          /\ TransferTypeOK /\ ReaderTypeOK

Init ==
  /\ cache_buff = [c \in Cells |-> NoByte] /\ cache_size = CACHE_BUF_SIZE
  /\ unread_data_len = 0 /\ rd_pos = 0 /\ wr_pos = 0 /\ file_offset = 0
  /\ url_file_size = 0 /\ url_abort = FALSE /\ cache_change_flag = FALSE
  /\ percent = 0
  /\ tpc = "off" /\ sent = 0 /\ data_size = 0
  /\ rpc = "closed" /\ opens = 0 /\ left = 0
  /\ good = TRUE /\ head = TRUE /\ filled = FALSE /\ early = FALSE
-----------------------------------------------------------------------------
(* The reader.                                                             *)

\* The NET plugin's f_prestart sets the flag before url_open, f_prestop
\* clears it.
SetCacheChangeFlag ==
  /\ rpc = "closed" /\ opens < MaxOpens
  /\ cache_change_flag' = ~cache_change_flag
  /\ UNCHANGED <<cacheVars, url_file_size, url_abort, percent, transferVars,
                 readerVars, history>>

\* url_open: net_cache starts empty, in the static buffer or in the package
\* buffer; what these hold is no byte of this transfer.  Without the thread it
\* returns 0 and there is nothing to close.
UrlOpen ==
  /\ rpc = "closed" /\ opens < MaxOpens
  /\ opens' = opens + 1
  /\ url_abort' = FALSE /\ url_file_size' = 0 /\ percent' = 0
  /\ cache_buff' = [c \in Cells |-> NoByte]
  /\ cache_size' = IF cache_change_flag THEN PackageLen ELSE CACHE_BUF_SIZE
  /\ unread_data_len' = 0 /\ rd_pos' = 0 /\ wr_pos' = 0 /\ file_offset' = 0
  /\ sent' = 0 /\ data_size' = 0 /\ left' = 0
  /\ good' = TRUE /\ head' = TRUE /\ filled' = FALSE /\ early' = FALSE
  /\ \/ tpc' = "head" /\ rpc' = IF cache_change_flag THEN "load" ELSE "size"
     \/ tpc' = "off" /\ rpc' = "closed"
  /\ UNCHANGED cache_change_flag

\* The source thread polls url_get_file_size for ten seconds.
WaitFileSize ==
  /\ rpc = "size"
  /\ rpc' = IF url_file_size # 0 THEN "idle" ELSE "failed"
  /\ UNCHANGED <<cacheVars, urlVars, transferVars, opens, left, history>>

\* ONE_SHOT: the application starts the source at 100 percent, and the source
\* resets the read pointer to read the package in DRAM; so does
\* alislupg_get_upgrade_info when it wants the header again.  The percentage
\* may have got there before the last byte: then unread_data_len counts bytes that
\* have not come yet.
ResetReadPtr ==
  /\ cache_change_flag /\ rpc \in {"load", "idle"} /\ percent >= Percents
  /\ rpc' = "idle"
  /\ rd_pos' = 0 /\ file_offset' = 0 /\ unread_data_len' = url_file_size
  /\ early' = (early \/ sent < FileSize)
  /\ UNCHANGED <<cache_buff, cache_size, wr_pos, urlVars, transferVars, opens,
                 left, good, head, filled>>

\* url_seek only moves forward, by reading.
UrlSeek(offset) ==
  /\ rpc = "idle" /\ offset > file_offset
  /\ rpc' = "seek" /\ left' = offset - file_offset
  /\ UNCHANGED <<cacheVars, urlVars, transferVars, opens, history>>

UrlRead(size) ==
  /\ rpc = "idle"
  /\ rpc' = "read" /\ left' = size
  /\ UNCHANGED <<cacheVars, urlVars, transferVars, opens, history>>

\* Slip: the whole request in one url_read_cache call.
PieceWhole == left

\* The size of the next url_read_cache call.
Piece == Min2(IF rpc = "seek" THEN SEEK_BUF_SIZE ELSE PER_SIZE, left)
Reading == rpc \in {"seek", "read"}
ReaderWaits == Reading /\ Piece > unread_data_len

\* The bytes that 100 percent stands for.
Announced == Percents * (FileSize \div Percents)

\* History: size bytes are handed over, the i-th of them from cell[i].
HandOver(size, cell) ==
  LET Right(i) == cell[i] < cache_size /\ cache_buff[cell[i]] = file_offset + i
  IN /\ good' = (good /\ \A i \in 0..(size - 1) : Right(i))
     /\ head' = (head /\ \A i \in 0..(size - 1) :
                           file_offset + i < Announced => Right(i))

Delivered(size) ==
  /\ unread_data_len' = unread_data_len - size
  /\ file_offset' = file_offset + size
  /\ left' = left - size
  /\ rpc' = IF left = size THEN "idle" ELSE rpc

\* wr_pos >= rd_pos: one memcpy from rd_pos on, wherever it ends.
ReadStraight(size) ==
  /\ wr_pos >= rd_pos \/ size <= cache_size - rd_pos
  /\ rd_pos' = rd_pos + size
  /\ HandOver(size, [i \in 0..(size - 1) |-> rd_pos + i])
  /\ Delivered(size)

\* Slip: rd_pos after a wrap forgets what was read before the end.
ReadWrappedTooFar(size) ==
  LET len_to_end == cache_size - rd_pos IN
  /\ wr_pos < rd_pos /\ size > len_to_end /\ len_to_end >= 0
  /\ rd_pos' = size /\ Delivered(size)
  /\ HandOver(size, [i \in 0..(size - 1) |->
                      IF i < len_to_end THEN rd_pos + i ELSE i - len_to_end])

\* wr_pos < rd_pos and the end of the buffer is nearer: two memcpy.
ReadWrapped(size) ==
  LET len_to_end == cache_size - rd_pos IN
  /\ wr_pos < rd_pos /\ size > len_to_end /\ len_to_end >= 0
  /\ rd_pos' = size - len_to_end
  /\ HandOver(size, [i \in 0..(size - 1) |->
                      IF i < len_to_end THEN rd_pos + i ELSE i - len_to_end])
  /\ Delivered(size)

\* A negative len_to_end is a memcpy of almost the whole address space.
ReadCrash ==
  /\ wr_pos < rd_pos /\ rd_pos > cache_size
  /\ rpc' = "crashed"
  /\ UNCHANGED <<unread_data_len, file_offset, left, rd_pos, good, head>>

\* Slip: url_read_cache does not wait for enough data.
UrlReadCacheAtOnce ==
  /\ Reading /\ unread_data_len > 0
  /\ ReadStraight(Piece) \/ ReadWrapped(Piece)
  /\ UNCHANGED <<cache_buff, cache_size, wr_pos, urlVars, transferVars, opens,
                 filled, early>>

UrlReadCache ==
  /\ Reading /\ Piece <= unread_data_len
  /\ ReadStraight(Piece) \/ ReadWrapped(Piece) \/ ReadCrash
  /\ UNCHANGED <<cache_buff, cache_size, wr_pos, urlVars, transferVars, opens,
                 filled, early>>

\* Ten thousand polls of one millisecond without enough data.
ReadTimeout ==
  /\ ReaderWaits
  /\ rpc' = "failed"
  /\ UNCHANGED <<cacheVars, urlVars, transferVars, opens, left, history>>

UrlClose ==
  /\ rpc \in {"idle", "failed", "load"}
  /\ rpc' = "joining" /\ url_abort' = TRUE
  /\ UNCHANGED <<cacheVars, url_file_size, cache_change_flag, percent,
                 transferVars, opens, left, history>>

\* pthread_join, and the mutex is destroyed.
UrlJoined ==
  /\ rpc = "joining" /\ tpc = "end"
  /\ rpc' = "closed"
  /\ UNCHANGED <<cacheVars, urlVars, transferVars, opens, left, history>>
-----------------------------------------------------------------------------
(* The transfer thread.                                                    *)

\* The first curl_easy_perform asks for the length of the file.
TransferHead ==
  /\ tpc = "head"
  /\ \/ tpc' = "body" /\ url_file_size' = FileSize
     \/ tpc' = "end" /\ url_file_size' = 0
  /\ UNCHANGED <<cacheVars, url_abort, cache_change_flag, percent, sent,
                 data_size, readerVars, history>>

\* libcurl has data: write_data begins, or refuses it.
WriteData(n) ==
  /\ tpc = "body" /\ data_size = 0 /\ n <= FileSize - sent
  /\ IF url_abort THEN tpc' = "end" /\ UNCHANGED data_size
                  ELSE data_size' = n /\ UNCHANGED tpc
  /\ UNCHANGED <<cacheVars, urlVars, sent, readerVars, history>>

WriterWaits == data_size > cache_size - unread_data_len

\* The byte of the data that is copied to cell c, if there is one: the data
\* goes on at the beginning of the buffer when wr_pos >= rd_pos.
WriteIndex(c) ==
  IF wr_pos >= rd_pos /\ c < wr_pos THEN c - wr_pos + cache_size ELSE c - wr_pos

Progress(n) ==
  IF n >= FileSize THEN Percents ELSE n \div (FileSize \div Percents)

WriteDataCopy ==
  /\ data_size > 0 /\ ~WriterWaits
  /\ cache_buff' = [c \in Cells |->
        IF c < cache_size /\ WriteIndex(c) \in 0..(data_size - 1)
        THEN sent + WriteIndex(c) ELSE cache_buff[c]]
  /\ wr_pos' = IF wr_pos >= rd_pos /\ data_size > cache_size - wr_pos
               THEN data_size - (cache_size - wr_pos) ELSE wr_pos + data_size
  /\ unread_data_len' = unread_data_len + data_size
  /\ sent' = sent + data_size /\ data_size' = 0
  /\ percent' = IF cache_change_flag THEN Progress(unread_data_len') ELSE percent
  /\ filled' = (filled \/ (unread_data_len' = cache_size /\ rd_pos > 0))
  /\ UNCHANGED <<cache_size, rd_pos, file_offset, url_file_size, url_abort,
                 cache_change_flag, tpc, readerVars, good, head, early>>

\* Slip: write_data's wait for room does not look at the abort flag.
WriteDataAbortNever == FALSE

\* write_data's wait for room looks at the abort flag.
WriteDataAbort ==
  /\ data_size > 0 /\ WriterWaits /\ url_abort
  /\ tpc' = "end" /\ data_size' = 0
  /\ UNCHANGED <<cacheVars, urlVars, sent, readerVars, history>>

\* The whole file is here, or the connection is lost.
TransferEnd ==
  /\ tpc = "body" /\ data_size = 0
  /\ tpc' = "end"
  /\ UNCHANGED <<cacheVars, urlVars, sent, data_size, readerVars, history>>
-----------------------------------------------------------------------------
ReaderNext ==
  \/ SetCacheChangeFlag \/ UrlOpen \/ WaitFileSize \/ ResetReadPtr
  \/ \E offset \in Offsets : UrlSeek(offset)
  \/ \E size \in Sizes : UrlRead(size)
  \/ UrlReadCache \/ ReadTimeout \/ UrlClose \/ UrlJoined

WriteDataWait == WriteDataCopy \/ WriteDataAbort

Next == \/ ReaderNext
        \/ TransferHead \/ WriteDataWait \/ TransferEnd
        \/ \E n \in 1..WRITER_MAX_LEN : WriteData(n)

Spec == Init /\ [][Next]_vars

\* The transfer thread goes on polling in write_data; the network owes nothing.
FairSpec == Spec /\ WF_vars(WriteDataWait)
-----------------------------------------------------------------------------
(* Properties.                                                             *)

\* The cell url_read_cache should take the i-th unread byte from.
RingCell(i) == IF rd_pos + i < cache_size THEN rd_pos + i ELSE rd_pos + i - cache_size

\* Until a read has left the buffer or begun too early, write_data overwrites no
\* byte before it is read: the unread bytes lie in the ring, in order, between
\* rd_pos and wr_pos.
UnreadKept ==
  ~early /\ rd_pos <= cache_size =>
    /\ unread_data_len <= cache_size /\ wr_pos <= cache_size
    /\ wr_pos - rd_pos \in {unread_data_len, unread_data_len - cache_size}
    /\ \A i \in 0..(unread_data_len - 1) : cache_buff[RingCell(i)] = file_offset + i

\* url_read and url_seek hand the reader the bytes of the file one after the
\* other, with two exceptions.  A ring that was exactly full (rd_pos = wr_pos) can
\* break that anywhere.  A ONE_SHOT package whose size is no multiple of 100 reads
\* 100 percent before its end (write_data): the source may then get what malloc
\* left in place of the last bytes, but not of those the percentage stands for,
\* although write_data goes on writing to the buffer the source reads.
BytesInOrder == filled \/ (head /\ (good \/ early))

\* The pieces of url_read and url_seek leave room for write_data: the reader
\* never waits for data while the transfer thread waits for room.
NoMutualWait == ~(ReaderWaits /\ data_size > 0 /\ WriterWaits)

\* ONE_SHOT: when the source reads the package buffer, all of the package is in
\* it but the FileSize % Percents bytes that the percentage does not count.
LoadedBeforeRead ==
  cache_change_flag /\ (rpc = "idle" \/ Reading) => sent >= Announced

\* "size should be less than CACHE_BUF_SIZE-WRITER_MAX_LEN": with such sizes
\* url_read_cache stays within the cache.  False for a ring that was exactly full.
ReadWithinCache == rd_pos <= cache_size

\* url_close joins the transfer thread: a write_data that waits for room in the
\* ring, with nobody left to read it, gives up.
AbortWakesWriter == rpc = "joining" /\ data_size > 0 ~> data_size = 0
=============================================================================
