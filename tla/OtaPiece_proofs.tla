--------------------------- MODULE OtaPiece_proofs ---------------------------
(* Proofs about OtaPiece: the hand-off of ota_buf between the download       *)
(* thread and the source thread, the order of the bytes the source gets, and *)
(* that it never waits for a piece nobody will post.                         *)
EXTENDS OtaPiece, TLAPS

\* Who may take which semaphore: before the first piece only the download
\* thread moves; while the source reads, the download thread waits or is over;
\* a source that waits has asked, or the answer is under way, or is there.
Token ==
  /\ dpc \in {"info", "config"} => spc \in {"size", "head"}
  /\ spc \in {"size", "head"} =>
       /\ piece_read_sem = 0 /\ piece_source_sem <= 1
       /\ dpc \notin {"wait", "over"} => piece_source_sem = 0
       /\ dpc = "wait" => piece_source_sem = 1
  /\ spc \in {"ready", "read"} =>
       /\ piece_source_sem = 0 /\ piece_read_sem = 0
       /\ dpc \in {"wait", "over"}
  /\ spc = "wait" =>
       /\ dpc \notin {"info", "config"}
       /\ dpc \in {"fetch", "check", "post"} =>
            piece_source_sem = 0 /\ piece_read_sem = 0
       /\ dpc = "wait" => piece_source_sem + piece_read_sem = 1
       /\ dpc = "over" => piece_source_sem = 1 /\ piece_read_sem = 0

\* What p_ota_valid says of the piece in hand.
Valid ==
  /\ dpc \in {"info", "config"} => p_ota_valid = NULL
  /\ dpc = "wait" => piece < Pieces
  /\ dpc \in {"post", "wait"} => p_ota_valid = PieceSize(piece)
  /\ dpc = "over" /\ p_ota_valid # NULL =>
       p_ota_valid = PieceSize(piece) /\ piece = Pieces

\* Where the source is in the package, by the piece in hand.
Place ==
  /\ spc \in {"size", "head"} => piece = 1 /\ delivered = 0 /\ good
  /\ spc \in {"ready", "read"} /\ p_ota_valid # NULL =>
       /\ p_ota_buf <= p_ota_valid
       /\ delivered = (piece - 1) * PieceLen + p_ota_buf
  /\ spc = "wait" => delivered = IF dpc = "wait" /\ piece_read_sem > 0
                                 THEN piece * PieceLen ELSE (piece - 1) * PieceLen
  /\ spc \in {"ready", "read", "wait"} => delivered + want <= Total

\* As long as the modules point to ota_buf, it holds the piece in hand.
Content ==
  /\ module_buf = "ota_buf" =>
       /\ dpc \in {"fetch", "check", "post", "wait", "over"}
       /\ dpc = "check" => ota_buf \in {0, piece}
       /\ dpc \in {"post", "wait"} => ota_buf = piece
       /\ dpc = "over" /\ p_ota_valid # NULL => ota_buf = piece
  /\ module_buf = "ota_buf" /\ ~good => p_ota_valid = NULL /\ dpc = "over"

PieceInv == TypeOK /\ Token /\ Valid /\ Place /\ Content

\* A piece has at least one byte.
LEMMA SizeType == \A i \in Int : PieceSize(i) \in Nat /\ PieceSize(i) > 0
  BY PieceAssumption DEF PieceSize

\* The whole package in numbers.
LEMMA TotalType == /\ Pieces \in Nat /\ Pieces >= 1 /\ PieceLen \in Nat
                   /\ PieceLen > 0 /\ Total \in Nat
                   /\ HeadLen \in Nat /\ HeadLen <= Total
                   /\ Total = (Pieces - 1) * PieceLen + PieceSize(Pieces)
<1>1. /\ Pieces \in Nat /\ Pieces >= 1 /\ PieceLen \in Nat /\ PieceLen > 0
      /\ LastLen \in Nat /\ HeadLen \in Nat
  BY PieceAssumption
<1>2. (Pieces - 1) * PieceLen \in Nat
  BY <1>1
<1>3. Pieces # 1 => (Pieces - 1) * PieceLen >= PieceLen
  BY <1>1
<1> QED
  BY <1>1, <1>2, <1>3, PieceAssumption DEF Total, PieceSize

LEMMA InitPiece == Init => PieceInv
  BY TotalType, FaultAssumption
  DEF Init, PieceInv, TypeOK, SemTypeOK, DownloadTypeOK, BufTypeOK, ReadTypeOK,
      Token, Valid, Place, Content

LEMMA NextPieceInv == PieceInv /\ [Next]_vars => PieceInv'
<1> SUFFICES ASSUME PieceInv, [Next]_vars PROVE PieceInv'
  OBVIOUS
<1> USE DEF PieceInv, TypeOK, SemTypeOK, DownloadTypeOK, BufTypeOK, ReadTypeOK,
            NULL, vars, semVars, downloadVars, bufVars, readVars
<1>size. PieceSize(piece) \in Nat /\ PieceSize(piece) > 0 /\ NULL \notin Nat
  BY SizeType
<1>1. CASE DownloadInfo
  <2>1. TypeOK'
    BY <1>1 DEF DownloadInfo
  <2>2. Token' /\ Valid'
    BY <1>1, <1>size DEF DownloadInfo, Token, Valid
  <2>3. Place'
    BY <1>1 DEF DownloadInfo, Token, Place
  <2>4. Content'
    BY <1>1, <1>size DEF DownloadInfo, Valid, Content
  <2> QED
    BY <2>1, <2>2, <2>3, <2>4
<1>2. CASE MemConfig
  <2>1. TypeOK'
    BY <1>2, PieceAssumption DEF MemConfig
  <2>2. Token' /\ Valid'
    BY <1>2, <1>size DEF MemConfig, Token, Valid
  <2>3. Place'
    BY <1>2 DEF MemConfig, Token, Place
  <2>4. Content'
    BY <1>2, <1>size DEF MemConfig, Token, Place, Content
  <2> QED
    BY <2>1, <2>2, <2>3, <2>4
<1>3. CASE StartDownload
  <2>0. good' \in BOOLEAN
    BY <1>3 DEF StartDownload
  <2>1. TypeOK'
    <3>1. CASE DownloadFail /\ UNCHANGED <<bad, ota_buf>>
      BY <1>3, <2>0, <3>1 DEF StartDownload, DownloadFail
    <3>2. CASE dpc' = "check" /\ UNCHANGED <<p_ota_valid, piece_source_sem>>
      <4>1. bad' \in 0..MaxBad
        BY <1>3, <3>2, FaultAssumption DEF StartDownload
      <4>2. ota_buf' \in 0..Pieces
        BY <1>3, <3>2, PieceAssumption DEF StartDownload
      <4> QED
        BY <1>3, <2>0, <3>2, <4>1, <4>2 DEF StartDownload
    <3> QED
      BY <1>3, <3>1, <3>2 DEF StartDownload
  <2>2. Token' /\ Valid' /\ Place'
    BY <1>3, <1>size DEF StartDownload, DownloadFail, Token, Valid, Place
  <2>3. Content'
    BY <1>3, <1>size DEF StartDownload, DownloadFail, Content
  <2> QED
    BY <2>1, <2>2, <2>3
<1>4. CASE CheckCrc
  <2>1. TypeOK'
    BY <1>4, <1>size DEF CheckCrc
  <2>2. Token' /\ Valid' /\ Place'
    BY <1>4, <1>size DEF CheckCrc, Token, Valid, Place
  <2>3. Content'
    BY <1>4, <1>size DEF CheckCrc, CrcGood, Content
  <2> QED
    BY <2>1, <2>2, <2>3
<1>5. CASE PostPiece
  <2>1. TypeOK'
    BY <1>5 DEF PostPiece
  <2>2. Token'
    BY <1>5 DEF PostPiece, Token
  <2>3. Valid'
    BY <1>5, PieceAssumption DEF PostPiece, Valid
  <2>4. Place'
    BY <1>5 DEF PostPiece, Token, Place
  <2>5. Content'
    BY <1>5, <1>size DEF PostPiece, Valid, Content
  <2> QED
    BY <2>1, <2>2, <2>3, <2>4, <2>5
<1>6. CASE NextPiece
  <2>1. TypeOK'
    BY <1>6, TotalType DEF NextPiece, Valid
  <2>2. Token' /\ Valid' /\ Content'
    BY <1>6 DEF NextPiece, Token, Valid, Content
  <2>3. Place'
    BY <1>6, TotalType DEF NextPiece, Token, Valid, Place
  <2> QED
    BY <2>1, <2>2, <2>3
<1>7. CASE GetSize
  BY <1>7 DEF GetSize, Token, Valid, Place, Content
<1>8. CASE SkipHead
  <2>1. TypeOK'
    BY <1>8, TotalType DEF SkipHead
  <2>2. Token' /\ Valid' /\ Content'
    BY <1>8 DEF SkipHead, Token, Valid, Content
  <2>3. Place'
    BY <1>8, <1>size, TotalType DEF SkipHead, Token, Place
  <2> QED
    BY <2>1, <2>2, <2>3
<1>9. ASSUME NEW size \in Sizes, OtaFileRead(size) PROVE PieceInv'
  <2>1. size \in Nat /\ Total \in Nat
    BY PieceAssumption, TotalType
  <2> QED
    BY <1>9, <2>1 DEF OtaFileRead, Token, Valid, Place, Content
<1>10. CASE ReadPiece
  <2> USE DEF ReadPiece
  <2>good. good' \in BOOLEAN
    BY <1>10 DEF ReadUnpieced, ReadWithin, ReadAcross, Copy
  <2>1. CASE ReadUnpieced
    <3>1. TypeOK'
      BY <1>10, <2>1, <2>good DEF ReadUnpieced, Copy
    <3>2. dpc = "over"
      BY <1>10, <2>1, <1>size DEF ReadUnpieced, Token, Valid
    <3>3. Token' /\ Valid' /\ Content'
      BY <1>10, <2>1, <3>2 DEF ReadUnpieced, Token, Valid, Content
    <3>4. Place'
      BY <1>10, <2>1, TotalType DEF ReadUnpieced, Copy, Place
    <3> QED
      BY <3>1, <3>3, <3>4
  <2>2. CASE ReadWithin
    <3>1. TypeOK'
      BY <1>10, <2>2, <2>good DEF ReadWithin, Copy
    <3>2. Token' /\ Valid'
      BY <1>10, <2>2 DEF ReadWithin, Token, Valid
    <3>3. Place'
      BY <1>10, <2>2, TotalType DEF ReadWithin, Enough, Copy, Place
    <3>4. Content'
      BY <1>10, <2>2 DEF ReadWithin, Copy, Content, Token, Place
    <3> QED
      BY <3>1, <3>2, <3>3, <3>4
  <2>3. CASE ReadAcross
    <3> DEFINE n == p_ota_valid - p_ota_buf
    <3>1. n \in Nat /\ n < want /\ p_ota_valid = PieceSize(piece)
      BY <1>10, <2>3 DEF ReadAcross, Enough, Token, Valid, Place
    <3>2. delivered = (piece - 1) * PieceLen + p_ota_buf /\ delivered + want <= Total
      BY <1>10, <2>3 DEF ReadAcross, Place
    <3>3. piece # Pieces
      BY <3>1, <3>2, TotalType
    <3>4. dpc = "wait" /\ p_ota_valid = PieceLen
      BY <1>10, <2>3, <3>1, <3>3 DEF ReadAcross, Token, Valid, PieceSize
    <3>5. TypeOK'
      BY <1>10, <2>3, <2>good, <3>1 DEF ReadAcross, Copy
    <3>6. Token' /\ Valid'
      BY <1>10, <2>3, <3>4 DEF ReadAcross, Token, Valid
    <3>7. delivered + n = piece * PieceLen
      BY <3>2, <3>4, TotalType
    <3>8. Place'
      BY <1>10, <2>3, <3>1, <3>2, <3>4, <3>7, TotalType DEF ReadAcross, Copy, Token, Place
    <3>9. Content'
      BY <1>10, <2>3, <3>2, <3>4 DEF ReadAcross, Copy, Content
    <3> QED
      BY <3>5, <3>6, <3>8, <3>9
  <2> QED
    BY <1>10, <2>1, <2>2, <2>3
<1>11. CASE WaitPiece
  <2>1. TypeOK' /\ Token' /\ Valid' /\ Content'
    BY <1>11 DEF WaitPiece, Token, Valid, Content
  <2>2. Place'
    BY <1>11, <1>size, TotalType DEF WaitPiece, Token, Valid, Place
  <2> QED
    BY <2>1, <2>2
<1>12. CASE SourceOver
  BY <1>12 DEF SourceOver, Token, Valid, Place, Content
<1>13. CASE UNCHANGED vars
  BY <1>13 DEF Token, Valid, Place, Content
<1> QED
  BY <1>1, <1>2, <1>3, <1>4, <1>5, <1>6, <1>7, <1>8, <1>9, <1>10, <1>11, <1>12,
     <1>13 DEF Next, DownloadNext, SourceNext

LEMMA AlwaysPieceInv == Spec => []PieceInv
  BY InitPiece, NextPieceInv, PTL DEF Spec

\* The semaphores, the buffer and the two threads of the OTA download keep
\* their types for every number and size of pieces and every failure.
THEOREM OtaTypeCorrect == Spec => []TypeOK
<1>1. PieceInv => TypeOK
  BY DEF PieceInv
<1> QED
  BY AlwaysPieceInv, <1>1, PTL

\* The download thread never writes to ota_buf while the source reads a piece
\* from it.
THEOREM PieceExclusive == Spec => []PieceHandOff
<1>1. PieceInv => PieceHandOff
  BY DEF PieceInv, Token, PieceHandOff
<1> QED
  BY AlwaysPieceInv, <1>1, PTL

\* ota_file_read returns the package in order unless the first piece failed or
\* ota_file_get_size redirected the modules.
THEOREM PiecesInOrder == Spec => []InOrderUnlessLost
<1>1. PieceInv => InOrderUnlessLost
  BY DEF PieceInv, TypeOK, BufTypeOK, Content, InOrderUnlessLost
<1> QED
  BY AlwaysPieceInv, <1>1, PTL

\* A source that waits for a piece has asked for it, or it is being fetched, or
\* it has been posted: the two threads do not wait for each other.
THEOREM SourceNeverStarves == Spec => []NeverStarved
<1>1. PieceInv => NeverStarved
  BY DEF PieceInv, TypeOK, SemTypeOK, DownloadTypeOK, Token, NeverStarved
<1> QED
  BY AlwaysPieceInv, <1>1, PTL
=============================================================================
