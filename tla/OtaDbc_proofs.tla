---------------------------- MODULE OtaDbc_proofs ---------------------------
(***************************************************************************)
(* The collection of a piece, proved for any number of pieces, modules,    *)
(* blocks, requests and aborts: unless it was aborted or overtaken by a    *)
(* check thread of an earlier request, a request that succeeds has every   *)
(* block, and what is posted as a piece is that piece; and no request      *)
(* waits for a signal that nobody is left to send.                         *)
(***************************************************************************)
EXTENDS OtaDbc, TLAPS

Complete == block_received = BlocksOf(piece)

\* The check thread of a request is created when the channel is enabled, and
\* the next requests have none.
ThreadsMade ==
  /\ dpc # "request" => req \in Requests
  /\ \A k \in Requests : k > req => cpc[k] = "none"
  /\ dpc \in {"open", "lock", "enable", "create"} => cpc[req] = "none"

\* No request was aborted or began with a check thread on its way.
Quiet == aborts = 0 /\ ~late

\* Then only the check thread of the present request can touch its frame.
OwnThread == \A k \in Requests : k # req => ~OnItsWay(k)

\* From its lock on, the mutex is free, or taken by the check thread, only
\* once every block has come...
Signalled ==
  /\ dpc \in {"enable", "create", "poll", "stop", "close"}
  /\ ~continue_mutex \/ cpc[req] \in {"disable", "release", "unlock"}
  => Complete

\* ... and so is the poll released...
Stopped == dpc \in {"lock", "enable", "create", "poll"} /\ stoprequest => Complete

\* ... and the request successful.
Ended == dpc = "check" \/ (dpc \in {"stop", "close"} /\ ~timeout) => Complete

QuietInv == Quiet => OwnThread /\ Signalled /\ Stopped /\ Ended /\ PieceOwn

\* TypeOK in two parts, for the two kinds of prover.
FlagTypes ==
  /\ timeout \in BOOLEAN /\ frame \in BOOLEAN /\ continue_mutex \in BOOLEAN
  /\ opened \in BOOLEAN /\ enabled \in BOOLEAN /\ stoprequest \in BOOLEAN
  /\ lost \in BOOLEAN /\ late \in BOOLEAN

PlainTypes ==
  /\ dpc \in {"request", "open", "lock", "enable", "create", "poll", "stop", "close",
              "check", "post", "over"}
  /\ piece \in 1..Pieces /\ req \in 0..MaxReq
  /\ block_received \subseteq BlocksOf(piece) /\ ota_buf \in [Blocks -> 0..Pieces]
  /\ \A b \in block_received : ota_buf[b] = piece
  /\ frame_handle \in {"null", "open", "freed"}
  /\ cpc \in [Requests -> {"none", "lock", "disable", "release", "unlock", "over"}]
  /\ aborts \in 0..MaxAbort /\ posted \in [1..Pieces -> 0..Pieces]

LEMMA TypeParts == TypeOK <=> FlagTypes /\ PlainTypes
  BY DEF TypeOK, FlagTypes, PlainTypes

IInv == FlagTypes /\ PlainTypes /\ ThreadsMade /\ QuietInv

\* Every piece has blocks.
LEMMA HasBlocks == \A i : \E b : b \in BlocksOf(i)
<1>1. PICK m : m \in LastModules /\ m \in Modules
  BY DbcAssumption
<1>2. PICK n : n \in Numbers
  BY DbcAssumption
<1>3. \A i : <<m, n>> \in BlocksOf(i)
  BY <1>1, <1>2 DEF BlocksOf
<1> QED
  BY <1>3

\* The steps of the download thread, the timeout and abort.
LEMMA DownloadInv == IInv /\ (DownloadNext \/ TimedOut \/ Abort) => IInv'
<1> SUFFICES ASSUME IInv, DownloadNext \/ TimedOut \/ Abort PROVE IInv'
  OBVIOUS
<1> USE DbcAssumption DEF IInv, Step, dlVars, dataVars, frameVars, dmxVars, histVars
<1>1. CASE Request
  <2>1. FlagTypes'
    BY <1>1, Zenon DEF Request, FlagTypes, OnItsWay
  <2>2. PlainTypes'
    BY <1>1 DEF Request, PlainTypes, BlocksOf, Blocks, Requests
  <2>3. ThreadsMade'
    BY <1>1 DEF Request, ThreadsMade, PlainTypes, Requests
  <2>4. QuietInv'
    BY <1>1 DEF Request, QuietInv, Quiet, OwnThread, OnItsWay, Signalled, Stopped,
       Ended, PieceOwn, Complete, PlainTypes, ThreadsMade, BlocksOf, Requests
  <2> QED
    BY <2>1, <2>2, <2>3, <2>4
<1>2. CASE OpenDmx
  <2>1. FlagTypes'
    BY <1>2, Zenon DEF OpenDmx, FlagTypes
  <2>2. PlainTypes'
    BY <1>2 DEF OpenDmx, PlainTypes, BlocksOf, Blocks, Requests
  <2>3. ThreadsMade'
    BY <1>2 DEF OpenDmx, ThreadsMade, PlainTypes, Requests
  <2>4. QuietInv'
    BY <1>2 DEF OpenDmx, QuietInv, Quiet, OwnThread, OnItsWay, Signalled, Stopped,
       Ended, PieceOwn, Complete, PlainTypes, ThreadsMade, BlocksOf, Requests
  <2> QED
    BY <2>1, <2>2, <2>3, <2>4
<1>3. CASE LockContinue
  <2>1. FlagTypes'
    BY <1>3, Zenon DEF LockContinue, FlagTypes
  <2>2. PlainTypes'
    BY <1>3 DEF LockContinue, PlainTypes, BlocksOf, Blocks, Requests
  <2>3. ThreadsMade'
    BY <1>3 DEF LockContinue, ThreadsMade, PlainTypes, Requests
  <2>4. QuietInv'
    BY <1>3 DEF LockContinue, QuietInv, Quiet, OwnThread, OnItsWay, Signalled, Stopped,
       Ended, PieceOwn, Complete, PlainTypes, ThreadsMade, BlocksOf, Requests
  <2> QED
    BY <2>1, <2>2, <2>3, <2>4
<1>4. CASE EnableChannel
  <2>1. FlagTypes'
    BY <1>4, Zenon DEF EnableChannel, FlagTypes
  <2>2. PlainTypes'
    BY <1>4 DEF EnableChannel, PlainTypes, BlocksOf, Blocks, Requests
  <2>3. ThreadsMade'
    BY <1>4 DEF EnableChannel, ThreadsMade, PlainTypes, Requests
  <2>4. QuietInv'
    BY <1>4 DEF EnableChannel, QuietInv, Quiet, OwnThread, OnItsWay, Signalled, Stopped,
       Ended, PieceOwn, Complete, PlainTypes, ThreadsMade, BlocksOf, Requests
  <2> QED
    BY <2>1, <2>2, <2>3, <2>4
<1>5. CASE CreateCheck
  <2>1. FlagTypes'
    BY <1>5, Zenon DEF CreateCheck, FlagTypes
  <2>2. PlainTypes'
    BY <1>5 DEF CreateCheck, PlainTypes, BlocksOf, Blocks, Requests
  <2>3. ThreadsMade'
    BY <1>5 DEF CreateCheck, ThreadsMade, PlainTypes, Requests
  <2>4. QuietInv'
    BY <1>5 DEF CreateCheck, QuietInv, Quiet, OwnThread, OnItsWay, Signalled, Stopped,
       Ended, PieceOwn, Complete, PlainTypes, ThreadsMade, BlocksOf, Requests
  <2> QED
    BY <2>1, <2>2, <2>3, <2>4
<1>6. CASE Released
  <2>1. FlagTypes'
    BY <1>6, Zenon DEF Released, FlagTypes
  <2>2. PlainTypes'
    BY <1>6 DEF Released, PlainTypes, BlocksOf, Blocks, Requests
  <2>3. ThreadsMade'
    BY <1>6 DEF Released, ThreadsMade, PlainTypes, Requests
  <2>4. QuietInv'
    BY <1>6 DEF Released, QuietInv, Quiet, OwnThread, OnItsWay, Signalled, Stopped,
       Ended, PieceOwn, Complete, PlainTypes, ThreadsMade, BlocksOf, Requests
  <2> QED
    BY <2>1, <2>2, <2>3, <2>4
<1>7. CASE StopDmx
  <2>1. FlagTypes'
    BY <1>7, Zenon DEF StopDmx, FlagTypes
  <2>2. PlainTypes'
    BY <1>7 DEF StopDmx, PlainTypes, BlocksOf, Blocks, Requests
  <2>3. ThreadsMade'
    BY <1>7 DEF StopDmx, ThreadsMade, PlainTypes, Requests
  <2>4. QuietInv'
    BY <1>7 DEF StopDmx, QuietInv, Quiet, OwnThread, OnItsWay, Signalled, Stopped,
       Ended, PieceOwn, Complete, PlainTypes, ThreadsMade, BlocksOf, Requests
  <2> QED
    BY <2>1, <2>2, <2>3, <2>4
<1>8. CASE CloseDmx
  <2>1. FlagTypes'
    BY <1>8, Zenon DEF CloseDmx, FlagTypes
  <2>2. PlainTypes'
    BY <1>8 DEF CloseDmx, PlainTypes, BlocksOf, Blocks, Requests
  <2>3. ThreadsMade'
    BY <1>8 DEF CloseDmx, ThreadsMade, PlainTypes, Requests
  <2>4. QuietInv'
    BY <1>8 DEF CloseDmx, QuietInv, Quiet, OwnThread, OnItsWay, Signalled, Stopped,
       Ended, PieceOwn, Complete, PlainTypes, ThreadsMade, BlocksOf, Requests
  <2> QED
    BY <2>1, <2>2, <2>3, <2>4
<1>9. CASE CheckCrc
  <2>1. FlagTypes'
    BY <1>9, Zenon DEF CheckCrc, FlagTypes
  <2>2. PlainTypes'
    <3>1. posted' \in [1..Pieces -> 0..Pieces]
      BY <1>9 DEF CheckCrc, PlainTypes
    <3>2. dpc' \in {"post", "request"}
      BY <1>9 DEF CheckCrc
    <3>3. UNCHANGED <<piece, req, block_received, ota_buf, frame_handle, cpc, aborts>>
      BY <1>9 DEF CheckCrc
    <3> QED
      BY <3>1, <3>2, <3>3 DEF PlainTypes, BlocksOf
  <2>3. ThreadsMade'
    BY <1>9 DEF CheckCrc, ThreadsMade, PlainTypes, Requests
  <2>4. QuietInv'
    <3> SUFFICES ASSUME Quiet' PROVE (OwnThread /\ Signalled /\ Stopped /\ Ended /\ PieceOwn)'
      BY DEF QuietInv
    <3>1. Quiet /\ dpc = "check" /\ dpc' \in {"post", "request"}
      BY <1>9 DEF CheckCrc, Quiet
    <3>2. OwnThread /\ Complete /\ PieceOwn
      BY <3>1 DEF QuietInv, Ended
    <3>3. PICK b : b \in BlocksOf(piece)
      BY HasBlocks
    <3>4. \A i \in 1..Pieces : HoldsPiece(i) => i = piece
      BY <3>2, <3>3 DEF HoldsPiece, Complete, PlainTypes
    <3>5. PieceOwn'
      BY <1>9, <3>2, <3>4 DEF CheckCrc, PieceOwn, PlainTypes
    <3>6. OwnThread'
      BY <1>9, <3>2 DEF CheckCrc, OwnThread, OnItsWay
    <3> QED
      BY <3>1, <3>5, <3>6 DEF Signalled, Stopped, Ended
  <2> QED
    BY <2>1, <2>2, <2>3, <2>4
<1>10. CASE NextPiece
  <2>1. FlagTypes'
    BY <1>10, Zenon DEF NextPiece, FlagTypes
  <2>2. PlainTypes'
    BY <1>10 DEF NextPiece, PlainTypes, BlocksOf, Blocks, Requests
  <2>3. ThreadsMade'
    BY <1>10 DEF NextPiece, ThreadsMade, PlainTypes, Requests
  <2>4. QuietInv'
    BY <1>10 DEF NextPiece, QuietInv, Quiet, OwnThread, OnItsWay, Signalled, Stopped,
       Ended, PieceOwn, Complete, PlainTypes, ThreadsMade, BlocksOf, Requests
  <2> QED
    BY <2>1, <2>2, <2>3, <2>4
<1>11. CASE TimedOut
  <2>1. FlagTypes'
    BY <1>11, Zenon DEF TimedOut, FlagTypes
  <2>2. PlainTypes'
    BY <1>11 DEF TimedOut, PlainTypes, BlocksOf, Blocks, Requests
  <2>3. ThreadsMade'
    BY <1>11 DEF TimedOut, ThreadsMade, PlainTypes, Requests
  <2>4. QuietInv'
    BY <1>11 DEF TimedOut, QuietInv, Quiet, OwnThread, OnItsWay, Signalled, Stopped,
       Ended, PieceOwn, Complete, PlainTypes, ThreadsMade, BlocksOf, Requests
  <2> QED
    BY <2>1, <2>2, <2>3, <2>4
<1>12. CASE Abort
  <2>1. FlagTypes'
    BY <1>12, Zenon DEF Abort, FlagTypes
  <2>2. PlainTypes'
    BY <1>12 DEF Abort, PlainTypes, BlocksOf, Blocks, Requests
  <2>3. ThreadsMade'
    BY <1>12 DEF Abort, ThreadsMade, PlainTypes, Requests
  <2>4. QuietInv'
    BY <1>12 DEF Abort, QuietInv, Quiet, OwnThread, OnItsWay, Signalled, Stopped,
       Ended, PieceOwn, Complete, PlainTypes, ThreadsMade, BlocksOf, Requests
  <2> QED
    BY <2>1, <2>2, <2>3, <2>4
<1> QED
  BY <1>1, <1>2, <1>3, <1>4, <1>5, <1>6, <1>7, <1>8, <1>9, <1>10, <1>11, <1>12 DEF DownloadNext

\* A section that comes in.
LEMMA SectionInv ==
  ASSUME NEW i \in 1..Pieces, NEW b \in Blocks, IInv, DdbSection(i, b)
  PROVE IInv'
<1> USE DEF IInv, DdbSection, dlVars, dmxVars, histVars
<1>1. FlagTypes'
  BY Zenon DEF Unlocked, FlagTypes
<1>2. PlainTypes'
  BY DEF Wanted, PlainTypes, BlocksOf, Blocks, Requests
<1>3. ThreadsMade'
  BY DEF ThreadsMade
<1>4. QuietInv'
  BY DEF Unlocked, RangeFinished, Wanted, QuietInv, Quiet, OwnThread, OnItsWay,
     Signalled, Stopped, Ended, PieceOwn, Complete, PlainTypes
<1> QED
  BY <1>1, <1>2, <1>3, <1>4

\* The steps of a check thread.
LEMMA CheckInv ==
  ASSUME NEW k \in Requests, IInv, CheckNext(k)
  PROVE IInv'
<1> USE DEF IInv, At, dlVars, dataVars, frameVars, dmxVars, histVars
<1>1. CASE CheckLock(k)
  <2>1. FlagTypes'
    BY <1>1, Zenon DEF CheckLock, FlagTypes
  <2>2. PlainTypes'
    BY <1>1 DEF CheckLock, PlainTypes, BlocksOf
  <2>3. ThreadsMade'
    BY <1>1 DEF CheckLock, ThreadsMade, PlainTypes, Requests
  <2>4. QuietInv'
    BY <1>1 DEF CheckLock, QuietInv, Quiet, OwnThread, OnItsWay, Signalled, Stopped,
       Ended, PieceOwn, Complete, PlainTypes, ThreadsMade, BlocksOf, Requests
  <2> QED
    BY <2>1, <2>2, <2>3, <2>4
<1>2. CASE CheckDisable(k)
  <2>1. FlagTypes'
    BY <1>2, Zenon DEF CheckDisable, FlagTypes
  <2>2. PlainTypes'
    BY <1>2 DEF CheckDisable, PlainTypes, BlocksOf
  <2>3. ThreadsMade'
    BY <1>2 DEF CheckDisable, ThreadsMade, PlainTypes, Requests
  <2>4. QuietInv'
    BY <1>2 DEF CheckDisable, QuietInv, Quiet, OwnThread, OnItsWay, Signalled, Stopped,
       Ended, PieceOwn, Complete, PlainTypes, ThreadsMade, BlocksOf, Requests
  <2> QED
    BY <2>1, <2>2, <2>3, <2>4
<1>3. CASE CheckRelease(k)
  <2>1. FlagTypes'
    BY <1>3, Zenon DEF CheckRelease, FlagTypes
  <2>2. PlainTypes'
    BY <1>3 DEF CheckRelease, PlainTypes, BlocksOf
  <2>3. ThreadsMade'
    BY <1>3 DEF CheckRelease, ThreadsMade, PlainTypes, Requests
  <2>4. QuietInv'
    BY <1>3 DEF CheckRelease, QuietInv, Quiet, OwnThread, OnItsWay, Signalled, Stopped,
       Ended, PieceOwn, Complete, PlainTypes, ThreadsMade, BlocksOf, Requests
  <2> QED
    BY <2>1, <2>2, <2>3, <2>4
<1>4. CASE CheckUnlock(k)
  <2>1. FlagTypes'
    BY <1>4, Zenon DEF CheckUnlock, FlagTypes
  <2>2. PlainTypes'
    BY <1>4 DEF CheckUnlock, PlainTypes, BlocksOf
  <2>3. ThreadsMade'
    BY <1>4 DEF CheckUnlock, ThreadsMade, PlainTypes, Requests
  <2>4. QuietInv'
    BY <1>4 DEF CheckUnlock, QuietInv, Quiet, OwnThread, OnItsWay, Signalled, Stopped,
       Ended, PieceOwn, Complete, PlainTypes, ThreadsMade, BlocksOf, Requests
  <2> QED
    BY <2>1, <2>2, <2>3, <2>4
<1>5. CASE CheckLost(k)
  <2>1. FlagTypes'
    BY <1>5, Zenon DEF CheckLost, FlagTypes
  <2>2. PlainTypes'
    BY <1>5 DEF CheckLost, PlainTypes, BlocksOf
  <2>3. ThreadsMade'
    BY <1>5 DEF CheckLost, ThreadsMade, PlainTypes, Requests
  <2>4. QuietInv'
    BY <1>5 DEF CheckLost, QuietInv, Quiet, OwnThread, OnItsWay, Signalled, Stopped,
       Ended, PieceOwn, Complete, PlainTypes, ThreadsMade, BlocksOf, Requests
  <2> QED
    BY <2>1, <2>2, <2>3, <2>4
<1> QED
  BY <1>1, <1>2, <1>3, <1>4, <1>5 DEF CheckNext

LEMMA InitInv == Init => IInv
<1> SUFFICES ASSUME Init PROVE IInv
  OBVIOUS
<1> USE DbcAssumption DEF Init
<1>1. FlagTypes
  BY Zenon DEF FlagTypes
<1>2. PlainTypes
  BY DEF PlainTypes
<1>3. ThreadsMade
  BY DEF ThreadsMade, Requests
<1>4. QuietInv
  BY DEF QuietInv, OwnThread, OnItsWay, Signalled, Stopped, Ended, PieceOwn
<1> QED
  BY <1>1, <1>2, <1>3, <1>4 DEF IInv

\* The inductive invariant of the collection.
THEOREM CollectInv == Spec => []IInv
<1>1. IInv /\ UNCHANGED vars => IInv'
  BY DEF IInv, FlagTypes, PlainTypes, ThreadsMade, QuietInv, Quiet, OwnThread,
     OnItsWay, Signalled, Stopped, Ended, PieceOwn, Complete, BlocksOf,
     vars, dlVars, dataVars, frameVars, dmxVars, histVars
<1>2. IInv /\ [Next]_vars => IInv'
  BY <1>1, DownloadInv, SectionInv, CheckInv DEF Next
<1> QED
  BY InitInv, <1>2, PTL DEF Spec

\* The threads, the frame and the bitmap keep their types; a block that counts
\* as received is one of the range and ota_buf holds its bytes.
THEOREM DbcTypeCorrect == Spec => []TypeOK
<1>1. IInv => TypeOK
  BY TypeParts DEF IInv
<1> QED
  BY CollectInv, <1>1, PTL

\* A request that dmx_req_section reports as successful has every block of its
\* piece, and what is posted as a piece is that piece, unless a request was
\* aborted or began while an earlier check thread was on its way.
THEOREM RequestsComplete == Spec => []RequestComplete
<1>1. IInv => RequestComplete
  BY DEF IInv, QuietInv, Quiet, Ended, Complete, RequestComplete
<1> QED
  BY CollectInv, <1>1, PTL
-----------------------------------------------------------------------------
(* The signal that ends a request is not lost.                             *)

\* A check thread is between taking the mutex and releasing the poll.
ReleaseComes == \E k \in Requests : cpc[k] \in {"disable", "release"}

\* The mutex is free, or a check thread is about to free it.
UnlockComes == ~continue_mutex \/ \E k \in Requests : cpc[k] = "unlock"

\* From the creation of the frame to its end, what the download thread has set
\* up: no section is taken before the channel is enabled.
FrameInv ==
  /\ dpc \notin {"request", "check", "post", "over"} => frame
  /\ dpc \in {"poll", "stop", "close"} => frame_handle = "open"
  /\ dpc \in {"request", "open", "lock", "enable", "check", "post", "over"} => ~enabled
  /\ dpc \in {"open", "lock", "enable"} => block_received = {}

\* From the lock on: the mutex will be unlocked as long as nobody is about to
\* release the poll; and then the request's own check thread is there to see it.
SignalInv ==
  /\ dpc \in {"create", "poll"} =>
       stoprequest \/ ReleaseComes \/ UnlockComes \/ (enabled /\ ~Complete)
  /\ dpc = "poll" => stoprequest \/ ReleaseComes \/ cpc[req] = "lock"

\* While the download thread waits in alisldmx_section_request_poll, its frame
\* and its handle are alive, and it is released, or about to be by a check
\* thread that has the mutex; or its own check thread waits for a mutex that is
\* free, or about to be freed, or that the next missing block will free, the
\* channel being enabled.
SignalNeverLost ==
  dpc = "poll" =>
    /\ frame /\ frame_handle = "open"
    /\ \/ stoprequest \/ ReleaseComes
       \/ cpc[req] = "lock" /\ (UnlockComes \/ (enabled /\ ~Complete))

LEMMA FrameStep ==
  ASSUME IInv, FrameInv, Next
  PROVE  FrameInv'
<1> USE DEF Step, dlVars, dataVars, frameVars, dmxVars, histVars
<1>1. CASE Request \/ OpenDmx \/ LockContinue \/ EnableChannel \/ CreateCheck
  BY <1>1 DEF Request, OpenDmx, LockContinue, EnableChannel, CreateCheck, FrameInv
<1>2. CASE Released \/ TimedOut \/ StopDmx \/ CloseDmx \/ CheckCrc \/ NextPiece \/ Abort
  BY <1>2 DEF Released, TimedOut, StopDmx, CloseDmx, CheckCrc, NextPiece, Abort, FrameInv
<1>3. ASSUME NEW i \in 1..Pieces, NEW b \in Blocks, DdbSection(i, b) PROVE FrameInv'
  BY <1>3 DEF DdbSection, FrameInv
<1>4. ASSUME NEW k \in Requests, CheckNext(k) PROVE FrameInv'
  <2>1. UNCHANGED <<dpc, frame, frame_handle, block_received>>
    BY <1>4 DEF CheckNext, CheckLock, CheckDisable, CheckRelease, CheckUnlock, CheckLost
  <2>2. enabled' => enabled
    <3>1. CASE CheckDisable(k)
      BY <3>1, Zenon DEF CheckDisable
    <3> QED
      BY <1>4, <3>1 DEF CheckNext, CheckLock, CheckRelease, CheckUnlock, CheckLost
  <2> QED
    BY <2>1, <2>2 DEF FrameInv
<1> QED
  BY <1>1, <1>2, <1>3, <1>4 DEF Next, DownloadNext

LEMMA SignalStep ==
  ASSUME IInv, FrameInv, SignalInv, Next
  PROVE  SignalInv'
<1> USE DEF Step, dlVars, dataVars, frameVars, dmxVars, histVars
<1>0. req \in 0..MaxReq /\ (dpc # "request" => req \in Requests)
      /\ cpc \in [Requests -> {"none", "lock", "disable", "release", "unlock", "over"}]
  BY DEF IInv, PlainTypes, ThreadsMade
<1>1. CASE dpc' \notin {"create", "poll"}
  BY <1>1 DEF SignalInv
<1>2. CASE EnableChannel
  <2>1. dpc' = "create" /\ enabled' /\ block_received' = {} /\ piece' = piece
    BY <1>2 DEF EnableChannel, FrameInv
  <2>2. ~Complete'
    BY <2>1, HasBlocks DEF Complete, BlocksOf
  <2> QED
    BY <2>1, <2>2 DEF SignalInv
<1>3. CASE CreateCheck
  <2>1. /\ dpc = "create" /\ dpc' = "poll" /\ req' = req
        /\ \A k \in Requests : k # req => cpc'[k] = cpc[k]
        /\ cpc'[req] = "lock"
        /\ UNCHANGED <<stoprequest, continue_mutex, enabled, block_received, piece>>
    BY <1>0, <1>3 DEF CreateCheck
  <2>2. cpc[req] = "none"
    BY <2>1 DEF IInv, ThreadsMade
  <2>3. ReleaseComes => ReleaseComes'
    BY <2>1, <2>2 DEF ReleaseComes
  <2>4. UnlockComes => UnlockComes'
    BY <2>1, <2>2 DEF UnlockComes
  <2>5. ~Complete => ~Complete'
    BY <2>1 DEF Complete, BlocksOf
  <2> QED
    BY <2>1, <2>3, <2>4, <2>5 DEF SignalInv
<1>4. CASE Abort
  <2>1. /\ UNCHANGED <<dpc, req, cpc, continue_mutex, enabled, block_received, piece>>
        /\ stoprequest => stoprequest'
    BY <1>4 DEF Abort
  <2>2. /\ ReleaseComes => ReleaseComes'
        /\ UnlockComes => UnlockComes'
        /\ ~Complete => ~Complete'
    BY <2>1 DEF ReleaseComes, UnlockComes, Complete, BlocksOf
  <2> QED
    BY <2>1, <2>2 DEF SignalInv
<1>5. ASSUME NEW i \in 1..Pieces, NEW b \in Blocks, DdbSection(i, b) PROVE SignalInv'
  <2>1. /\ UNCHANGED <<dpc, req, cpc, stoprequest, enabled, piece>> /\ enabled
        /\ block_received' = block_received \cup {b}
    BY <1>5 DEF DdbSection
  <2>2. ReleaseComes => ReleaseComes'
    BY <2>1 DEF ReleaseComes
  <2>3. UnlockComes' \/ ~Complete'
    <3>1. RangeFinished(b) => ~continue_mutex'
      BY <1>5 DEF DdbSection, Unlocked
    <3>2. ~RangeFinished(b) => ~Complete'
      BY <2>1 DEF RangeFinished, Complete, BlocksOf
    <3> QED
      BY <3>1, <3>2 DEF UnlockComes
  <2> QED
    BY <2>1, <2>2, <2>3 DEF SignalInv
<1>6. ASSUME NEW k \in Requests, CheckNext(k), dpc' \in {"create", "poll"} PROVE SignalInv'
  <2>1. UNCHANGED <<dpc, req, block_received, piece>>
    BY <1>6 DEF CheckNext, CheckLock, CheckDisable, CheckRelease, CheckUnlock, CheckLost
  <2>2. ~Complete => ~Complete'
    BY <2>1 DEF Complete, BlocksOf
  <2>3. CASE CheckLock(k) \/ CheckDisable(k)
    <3>1. cpc'[k] \in {"disable", "release"}
      BY <1>0, <2>3 DEF CheckLock, CheckDisable, At
    <3> QED
      BY <3>1 DEF SignalInv, ReleaseComes
  <2>4. CASE CheckRelease(k)
    <3>1. stoprequest'
      BY <2>4 DEF CheckRelease
    <3> QED
      BY <3>1 DEF SignalInv
  <2>5. CASE CheckUnlock(k)
    <3>1. ~continue_mutex' /\ UNCHANGED <<stoprequest, enabled>>
      BY <1>6, <2>1, <2>5 DEF CheckUnlock, FrameInv
    <3>2. cpc[k] = "unlock" /\ \A l \in Requests : l # k => cpc'[l] = cpc[l]
      BY <1>0, <2>5 DEF CheckUnlock, At
    <3>3. ReleaseComes => ReleaseComes'
      BY <3>2 DEF ReleaseComes
    <3>4. cpc[req] = "lock" /\ req \in Requests => cpc'[req'] = "lock"
      BY <2>1, <3>2
    <3> QED
      BY <1>0, <2>1, <3>1, <3>3, <3>4 DEF SignalInv, UnlockComes
  <2>6. CASE CheckLost(k)
    <3>1. UNCHANGED <<cpc, stoprequest, continue_mutex, enabled>>
      BY <2>6 DEF CheckLost
    <3>2. (ReleaseComes => ReleaseComes') /\ (UnlockComes => UnlockComes')
      BY <3>1 DEF ReleaseComes, UnlockComes
    <3> QED
      BY <2>1, <2>2, <3>1, <3>2 DEF SignalInv
  <2> QED
    BY <1>6, <2>3, <2>4, <2>5, <2>6 DEF CheckNext
<1>7. CASE \/ Request \/ OpenDmx \/ LockContinue \/ Released \/ TimedOut \/ StopDmx
           \/ CloseDmx \/ CheckCrc \/ NextPiece
  BY <1>1, <1>7 DEF Request, OpenDmx, LockContinue, Released, TimedOut, StopDmx, CloseDmx,
     CheckCrc, NextPiece
<1> QED
  BY <1>1, <1>2, <1>3, <1>4, <1>5, <1>6, <1>7 DEF Next, DownloadNext

\* The signal through the mutex, unlocked by a thread that does not own it, is
\* not lost: for any number of pieces and blocks, however late the check threads
\* of this and earlier requests run, and whatever is aborted, a request that
\* waits is one that a step of another thread, or a block of the carousel, takes
\* nearer its end.  It is what Collected needs besides fairness.
THEOREM SignalComes == Spec => []SignalNeverLost
<1>1. Init => IInv /\ FrameInv /\ SignalInv
  BY InitInv DEF Init, FrameInv, SignalInv
<1>2. IInv /\ FrameInv /\ SignalInv /\ [Next]_vars => (FrameInv /\ SignalInv)'
  <2> SUFFICES ASSUME IInv, FrameInv, SignalInv, [Next]_vars PROVE (FrameInv /\ SignalInv)'
    OBVIOUS
  <2>1. CASE UNCHANGED vars
    BY <2>1 DEF vars, dlVars, dataVars, frameVars, dmxVars, histVars, FrameInv, SignalInv,
       ReleaseComes, UnlockComes, Complete, BlocksOf
  <2> QED
    BY <2>1, FrameStep, SignalStep
<1>3. FrameInv /\ SignalInv => SignalNeverLost
  BY DEF FrameInv, SignalInv, SignalNeverLost
<1> QED
  BY <1>1, <1>2, <1>3, CollectInv, PTL DEF Spec
=============================================================================
