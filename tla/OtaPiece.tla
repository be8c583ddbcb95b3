------------------------------ MODULE OtaPiece ------------------------------
(***************************************************************************)
(* The OTA plugin's download by pieces (aliota.c): the download thread     *)
(* collects the broadcast modules of one piece in ota_buf, checks its CRC  *)
(* and hands it to the source thread, whose ota_file_read takes the bytes  *)
(* and asks for the next piece.  piece_source_sem says that a piece is in  *)
(* the buffer, piece_read_sem that it has been read.                       *)
(*                                                                         *)
(* The package is the pieces one after the other, without their CRCs; a    *)
(* byte is its position.  ota_buf is abstracted to the number of the piece *)
(* it holds, 0 for anything that has no good CRC.  module_buf is where the *)
(* module_buf_pointers of lib_ota.c point.  The header lies in the first   *)
(* piece.  One upgrade is modelled.                                        *)
(***************************************************************************)
EXTENDS Integers

CONSTANTS
  Pieces,       \* piece_num
  PieceLen,     \* bytes of a piece without its CRC
  LastLen,      \* bytes of the last piece
  HeadLen,      \* sizeof(alislupg_header_t)
  Sizes,        \* what the source reads at a time
  Faults,       \* operations that may fail
  MaxBad        \* bound: pieces received with a bad CRC

AllFaults == {"info", "malloc", "download"}

ASSUME PieceAssumption ==
  /\ Pieces \in Nat \ {0} /\ PieceLen \in Nat \ {0}
  /\ LastLen \in Nat \ {0} /\ LastLen <= PieceLen
  /\ HeadLen \in Nat \ {0} /\ Sizes \subseteq Nat \ {0}
  /\ HeadLen <= IF Pieces = 1 THEN LastLen ELSE PieceLen
ASSUME FaultAssumption == Faults \subseteq AllFaults /\ MaxBad \in Nat

VARIABLES
  piece_source_sem, piece_read_sem,
  \* the download thread: its piece, pieces with a bad CRC so far
  dpc, piece, bad,
  \* the buffer, and the end of the piece in it
  ota_buf, module_buf, p_ota_valid,
  \* the source thread: where it reads, bytes left of its call
  spc, p_ota_buf, want,
  \* history: bytes delivered; each was the next byte of the package
  delivered, good

semVars == <<piece_source_sem, piece_read_sem>>
downloadVars == <<dpc, piece, bad>>
bufVars == <<ota_buf, module_buf, p_ota_valid>>
readVars == <<p_ota_buf, want, delivered, good>>
vars == <<semVars, downloadVars, bufVars, spc, readVars>>

NULL == -1
PieceSize(i) == IF i = Pieces THEN LastLen ELSE PieceLen
Total == (Pieces - 1) * PieceLen + LastLen

SemTypeOK == piece_source_sem \in Nat /\ piece_read_sem \in Nat
DownloadTypeOK ==
  /\ dpc \in {"info", "config", "fetch", "check", "post", "wait", "over"}
  /\ piece \in 1..Pieces /\ bad \in 0..MaxBad
BufTypeOK ==
  /\ ota_buf \in 0..Pieces /\ module_buf \in {"ota_buf", "freed"}
  /\ p_ota_valid \in Nat \cup {NULL}
ReadTypeOK ==
  /\ spc \in {"size", "head", "ready", "read", "wait", "over"}
  /\ p_ota_buf \in Nat /\ want \in Nat /\ delivered \in Nat

\* The semaphores, the buffer and the two threads keep their types.
TypeOK == SemTypeOK /\ DownloadTypeOK /\ BufTypeOK /\ ReadTypeOK /\ good \in BOOLEAN

\* f_start has created both threads.  f_getcfg downloaded the header before
\* and freed its buffer.
Init ==
  /\ piece_source_sem = 0 /\ piece_read_sem = 0
  /\ dpc = "info" /\ piece = 1 /\ bad = 0
  /\ ota_buf = 0 /\ module_buf = "freed" /\ p_ota_valid = NULL
  /\ spc = "size" /\ p_ota_buf = 0 /\ want = 0
  /\ delivered = 0 /\ good = TRUE
-----------------------------------------------------------------------------
(* ota_file_download_by_piece, the download thread.                        *)

\* alislupg_ota_get_download_info: a failure is reported to nobody.
DownloadInfo ==
  /\ dpc = "info"
  /\ \/ dpc' = "config"
     \/ "info" \in Faults /\ dpc' = "over"
  /\ UNCHANGED <<semVars, piece, bad, bufVars, spc, readVars>>

\* A new ota_buf, and alislupg_ota_mem_config_by_piece points the modules to
\* it; without it the thread ends, again without a word.
MemConfig ==
  /\ dpc = "config"
  /\ \/ dpc' = "fetch" /\ ota_buf' = 0 /\ module_buf' = "ota_buf"
     \/ "malloc" \in Faults /\ dpc' = "over" /\ UNCHANGED <<ota_buf, module_buf>>
  /\ UNCHANGED <<semVars, piece, bad, p_ota_valid, spc, readVars>>

\* Slip: a download that fails leaves the source waiting.
DownloadFailSilently == dpc' = "over" /\ UNCHANGED <<p_ota_valid, piece_source_sem>>

\* The timeout of the section request: the source is told.  (An abort counts as
\* a success with blocks missing; see OtaDbc.)
DownloadFail ==
  /\ p_ota_valid' = NULL /\ piece_source_sem' = piece_source_sem + 1
  /\ dpc' = "over"

\* alislupg_ota_start_download_by_piece writes where the modules point.
StartDownload ==
  /\ dpc = "fetch"
  /\ \/ /\ "download" \in Faults /\ DownloadFail
        /\ UNCHANGED <<bad, ota_buf>>
     \/ /\ dpc' = "check"
        /\ \/ module_buf = "ota_buf" /\ ota_buf' = piece /\ UNCHANGED bad
           \/ /\ module_buf = "ota_buf" /\ bad < MaxBad
              /\ ota_buf' = 0 /\ bad' = bad + 1
           \/ module_buf = "freed" /\ UNCHANGED <<ota_buf, bad>>
        /\ UNCHANGED <<p_ota_valid, piece_source_sem>>
  /\ UNCHANGED <<piece_read_sem, piece, module_buf, spc, readVars>>

\* The CRC over as many bytes as the piece has.
CrcGood == ota_buf # 0 /\ PieceSize(ota_buf) = PieceSize(piece)

\* "CRC check failed, we need download this piece again!"
CheckCrc ==
  /\ dpc = "check"
  /\ IF CrcGood THEN dpc' = "post" /\ p_ota_valid' = PieceSize(piece)
                ELSE dpc' = "fetch" /\ UNCHANGED p_ota_valid
  /\ UNCHANGED <<semVars, piece, bad, ota_buf, module_buf, spc, readVars>>

PostPiece ==
  /\ dpc = "post"
  /\ piece_source_sem' = piece_source_sem + 1
  /\ dpc' = IF piece = Pieces THEN "over" ELSE "wait"
  /\ UNCHANGED <<piece_read_sem, piece, bad, bufVars, spc, readVars>>

\* Slip: the next piece is fetched without waiting for the source.
NextPieceAtOnce ==
  /\ dpc = "wait"
  /\ piece_read_sem' = piece_read_sem - 1 /\ piece' = piece + 1 /\ dpc' = "fetch"
  /\ UNCHANGED <<piece_source_sem, bad, bufVars, spc, readVars>>

\* Slip: the range of modules is not moved on.
SamePiece ==
  /\ dpc = "wait" /\ piece_read_sem > 0
  /\ piece_read_sem' = piece_read_sem - 1 /\ dpc' = "fetch"
  /\ UNCHANGED <<piece_source_sem, piece, bad, bufVars, spc, readVars>>

NextPiece ==
  /\ dpc = "wait" /\ piece_read_sem > 0
  /\ piece_read_sem' = piece_read_sem - 1 /\ piece' = piece + 1 /\ dpc' = "fetch"
  /\ UNCHANGED <<piece_source_sem, bad, bufVars, spc, readVars>>

DownloadNext == \/ DownloadInfo \/ MemConfig \/ StartDownload \/ CheckCrc
                \/ PostPiece \/ NextPiece
-----------------------------------------------------------------------------
(* The source thread's calls of ota_file_*.                                *)

\* ota_file_get_size counts the pieces with alislupg_ota_mem_config_by_piece,
\* which points the modules to a buffer that is then freed.
GetSize ==
  /\ spc = "size" /\ spc' = "head"
  /\ \/ module_buf' = "freed"
     \/ "malloc" \in Faults /\ UNCHANGED module_buf
  /\ UNCHANGED <<semVars, downloadVars, ota_buf, p_ota_valid, readVars>>

\* ota_file_skip_head waits for the first piece and reads the header.
SkipHead ==
  /\ spc = "head" /\ piece_source_sem > 0
  /\ piece_source_sem' = piece_source_sem - 1
  /\ p_ota_buf' = 0 /\ want' = HeadLen /\ spc' = "read"
  /\ UNCHANGED <<piece_read_sem, downloadVars, bufVars, delivered, good>>

OtaFileRead(size) ==
  /\ spc = "ready" /\ size <= Total - delivered
  /\ want' = size /\ spc' = "read"
  /\ UNCHANGED <<semVars, downloadVars, bufVars, p_ota_buf, delivered, good>>

\* n bytes are copied from p_ota_buf on.
Copy(n) ==
  /\ delivered' = delivered + n /\ want' = want - n
  /\ good' = (good /\ (n = 0 \/ (ota_buf # 0 /\ p_ota_valid # NULL
                  /\ (ota_buf - 1) * PieceLen + p_ota_buf = delivered)))

\* p_ota_valid is NULL: a plain copy, which does not move p_ota_buf.
ReadUnpieced ==
  /\ p_ota_valid = NULL
  /\ Copy(want) /\ spc' = "ready" /\ UNCHANGED <<p_ota_buf, piece_read_sem>>

\* The piece has what is left of the call.
Enough == p_ota_valid - p_ota_buf >= want

ReadWithin ==
  /\ p_ota_valid # NULL /\ Enough
  /\ Copy(want) /\ spc' = "ready" /\ p_ota_buf' = p_ota_buf + want
  /\ UNCHANGED piece_read_sem

\* The rest of the piece is taken and the next one asked for.
ReadAcross ==
  /\ p_ota_valid # NULL /\ ~Enough
  /\ Copy(p_ota_valid - p_ota_buf) /\ spc' = "wait" /\ UNCHANGED p_ota_buf
  /\ piece_read_sem' = piece_read_sem + 1

ReadPiece ==
  /\ spc = "read"
  /\ ReadUnpieced \/ ReadWithin \/ ReadAcross
  /\ UNCHANGED <<piece_source_sem, downloadVars, bufVars>>

\* "ota read download data fail", or the next piece from its beginning.
WaitPiece ==
  /\ spc = "wait" /\ piece_source_sem > 0
  /\ piece_source_sem' = piece_source_sem - 1
  /\ IF p_ota_valid = NULL THEN spc' = "over" /\ UNCHANGED p_ota_buf
                           ELSE spc' = "read" /\ p_ota_buf' = 0
  /\ UNCHANGED <<piece_read_sem, downloadVars, bufVars, want, delivered, good>>

\* The package is read, or desc->error is set: the source's loop ends.
SourceOver ==
  /\ spc = "ready" /\ spc' = "over"
  /\ UNCHANGED <<semVars, downloadVars, bufVars, readVars>>

SourceNext == \/ GetSize \/ SkipHead \/ ReadPiece \/ WaitPiece \/ SourceOver
              \/ \E size \in Sizes : OtaFileRead(size)
-----------------------------------------------------------------------------
Next == DownloadNext \/ SourceNext

Spec == Init /\ [][Next]_vars

\* Both threads poll their semaphores; a section request has a timeout.
FairSpec == Spec /\ WF_vars(DownloadNext) /\ WF_vars(SourceNext)
-----------------------------------------------------------------------------
(* Properties.                                                             *)

\* While the source reads a piece, the download thread does not write to
\* ota_buf or p_ota_valid.
PieceHandOff == ~(spc \in {"ready", "read"} /\ dpc \in {"fetch", "check", "post"})

\* ota_file_read returns the bytes of the package one after the other, unless
\* the first piece failed (p_ota_valid is NULL) or ota_file_get_size came
\* between mem_config and the download (the modules point to freed memory).
InOrderUnlessLost == good \/ p_ota_valid = NULL \/ module_buf = "freed"

\* The source never waits for a piece that nobody will post: the download
\* thread is at work or has been asked, and the last piece is enough.
NeverStarved ==
  spc = "wait" => \/ piece_source_sem > 0
                  \/ dpc = "wait" /\ piece_read_sem > 0
                  \/ dpc \in {"fetch", "check", "post"}

\* A source that asked for a piece gets it or is told of the failure, as long
\* as the modules point to ota_buf.
ReadReturns == spc = "wait" /\ module_buf = "ota_buf" ~> spc # "wait"

\* "CRC check failed, we need download this piece again!": what ota_file_read
\* returns comes from pieces whose CRC was good.  False after a first piece that
\* cannot be downloaded.
OnlyCheckedPieces == good
=============================================================================
