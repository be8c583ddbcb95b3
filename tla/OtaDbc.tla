------------------------------- MODULE OtaDbc -------------------------------
(***************************************************************************)
(* How the OTA plugin collects the blocks of one piece from the broadcast  *)
(* data carousel (lib_ota.c, lib_ota_dbc.c): what OtaPiece takes as one    *)
(* step.  Three kinds of thread work on a request.  The download thread    *)
(* opens the demultiplexer, waits in alisldmx_section_request_poll, closes *)
(* and checks the CRC.  The demultiplexer's poll thread gives each section *)
(* to ddb_section, which keeps the block and, with the last one, unlocks   *)
(* continue_mutex.  A check thread, one per request and joined by nobody,  *)
(* waits for that mutex, disables the channel and releases the poll.       *)
(*                                                                         *)
(* The request, its mutex and its handle live in a frame of the download   *)
(* thread's stack, the same addresses for every request.  A section is     *)
(* the piece and block it carries; it may be lost, repeated and come in    *)
(* any order.  ota_buf says of each block which piece's bytes it holds.    *)
(* Undefined behaviour (a freed handle, a dead frame) is `lost'.           *)
(***************************************************************************)
EXTENDS Integers

CONSTANTS
  Pieces,       \* piece_num
  Modules,      \* modules of a piece (mdl_range.len)
  LastModules,  \* modules of the last piece
  Numbers,      \* blocks of a module
  MaxReq,       \* bound: requests
  MaxAbort      \* bound: calls of alislupg_ota_download_abort

ASSUME DbcAssumption ==
  /\ Pieces \in Nat \ {0} /\ MaxReq \in Nat /\ MaxAbort \in Nat
  /\ LastModules \subseteq Modules /\ LastModules # {} /\ Numbers # {}

VARIABLES
  \* the download thread: its step, piece and request, how the poll ended
  dpc, piece, req, timeout,
  \* the blocks of the range that have come, and what ota_buf holds
  block_received, ota_buf,
  \* the frame of the request
  frame, continue_mutex, frame_handle,
  \* the demultiplexer: open, channel enabled, SECTION_FLAG_STOPREQUEST
  opened, enabled, stoprequest,
  \* the check threads
  cpc,
  lost,
  \* history: calls of abort; a request began while the check thread of an
  \* earlier one was on its way; the bytes posted as each piece
  aborts, late, posted

dlVars == <<dpc, piece, req, timeout>>
dataVars == <<block_received, ota_buf>>
frameVars == <<frame, continue_mutex, frame_handle>>
dmxVars == <<opened, enabled, stoprequest>>
histVars == <<aborts, late, posted>>
vars == <<dlVars, dataVars, frameVars, dmxVars, cpc, lost, histVars>>

Blocks == Modules \X Numbers
BlocksOf(i) == (IF i = Pieces THEN LastModules ELSE Modules) \X Numbers
Requests == 1..MaxReq

\* What each thread is at, the frame, and the bitmap: within the range, and set
\* for blocks that ota_buf holds.
TypeOK ==
  /\ dpc \in {"request", "open", "lock", "enable", "create", "poll", "stop", "close",
              "check", "post", "over"}
  /\ piece \in 1..Pieces /\ req \in 0..MaxReq /\ timeout \in BOOLEAN
  /\ block_received \subseteq BlocksOf(piece) /\ ota_buf \in [Blocks -> 0..Pieces]
  /\ \A b \in block_received : ota_buf[b] = piece
  /\ frame \in BOOLEAN /\ continue_mutex \in BOOLEAN
  /\ frame_handle \in {"null", "open", "freed"}
  /\ opened \in BOOLEAN /\ enabled \in BOOLEAN /\ stoprequest \in BOOLEAN
  /\ cpc \in [Requests -> {"none", "lock", "disable", "release", "unlock", "over"}]
  /\ lost \in BOOLEAN /\ aborts \in 0..MaxAbort /\ late \in BOOLEAN
  /\ posted \in [1..Pieces -> 0..Pieces]

\* ota_buf is new and alislupg_ota_mem_config_by_piece has pointed the modules
\* of every piece into it.
Init ==
  /\ dpc = "request" /\ piece = 1 /\ req = 0 /\ timeout = FALSE
  /\ block_received = {} /\ ota_buf = [b \in Blocks |-> 0]
  /\ frame = FALSE /\ continue_mutex = FALSE /\ frame_handle = "null"
  /\ opened = FALSE /\ enabled = FALSE /\ stoprequest = FALSE
  /\ cpc = [k \in Requests |-> "none"] /\ lost = FALSE
  /\ aborts = 0 /\ late = FALSE /\ posted = [i \in 1..Pieces |-> 0]
-----------------------------------------------------------------------------
(* The download thread.                                                    *)

Step(from, to) == dpc = from /\ dpc' = to

OnItsWay(k) == cpc[k] \in {"lock", "disable", "release", "unlock"}

\* ota_cmd_start_download_by_piece forgets the blocks of the range, and
\* si_private_sec_parsing_start clears the request.
Request ==
  /\ Step("request", "open") /\ req < MaxReq /\ req' = req + 1
  /\ block_received' = {}
  /\ frame' = TRUE /\ continue_mutex' = FALSE /\ frame_handle' = "null"
  /\ late' = (late \/ \E k \in Requests : OnItsWay(k))
  /\ UNCHANGED <<piece, timeout, ota_buf, dmxVars, cpc, lost, aborts, posted>>

\* alisldmx_open and alisldmx_start, then the channel, its filters and their
\* callbacks; without a demultiplexer the download is given up.
OpenDmx ==
  /\ \/ Step("open", "lock") /\ opened' = TRUE /\ stoprequest' = FALSE /\ UNCHANGED frame
     \/ Step("open", "over") /\ frame' = FALSE /\ UNCHANGED <<opened, stoprequest>>
  /\ UNCHANGED <<piece, req, timeout, dataVars, continue_mutex, frame_handle, enabled, cpc, lost, histVars>>

\* The mutex is locked for ddb_section to unlock.
LockContinue ==
  /\ Step("lock", "enable") /\ ~continue_mutex /\ continue_mutex' = TRUE
  /\ UNCHANGED <<piece, req, timeout, dataVars, frame, frame_handle, dmxVars, cpc, lost, histVars>>

EnableChannel ==
  /\ Step("enable", "create") /\ enabled' = TRUE
  /\ UNCHANGED <<piece, req, timeout, dataVars, frameVars, opened, stoprequest, cpc, lost, histVars>>

\* dmx_req_check_continue.
CreateCheck ==
  /\ Step("create", "poll")
  /\ frame_handle' = "open" /\ cpc' = [cpc EXCEPT ![req] = "lock"]
  /\ UNCHANGED <<piece, req, timeout, dataVars, frame, continue_mutex, dmxVars, lost, histVars>>

\* alisldmx_section_request_poll: a continuous channel does not set its bit,
\* so it waits to be released, or 300 s.
Released ==
  /\ Step("poll", "stop")
  /\ stoprequest /\ stoprequest' = FALSE /\ timeout' = FALSE
  /\ UNCHANGED <<piece, req, dataVars, frameVars, opened, enabled, cpc, lost, histVars>>

TimedOut ==
  /\ Step("poll", "stop")
  /\ ~stoprequest /\ timeout' = TRUE
  /\ UNCHANGED <<piece, req, dataVars, frameVars, dmxVars, cpc, lost, histVars>>

\* alisldmx_stop, while the poll thread still gives what has come.
StopDmx ==
  /\ Step("stop", "close")
  /\ UNCHANGED <<piece, req, timeout, dataVars, frameVars, dmxVars, cpc, lost, histVars>>

\* alisldmx_close joins the poll thread and frees the handle, and the frame is
\* left; a timeout gives the download up.
CloseDmx ==
  /\ IF timeout THEN Step("close", "over") ELSE Step("close", "check")
  /\ opened' = FALSE /\ enabled' = FALSE /\ frame' = FALSE /\ frame_handle' = "freed"
  /\ UNCHANGED <<piece, req, timeout, dataVars, continue_mutex, stoprequest, cpc, lost, histVars>>

\* The CRC over as many bytes as the piece has: the bytes of another piece
\* of that length are as good.
HoldsPiece(i) ==
  BlocksOf(i) = BlocksOf(piece) /\ \A b \in BlocksOf(piece) : ota_buf[b] = i

\* "CRC check failed, we need download this piece again!", or the piece is
\* handed to the source.
CheckCrc ==
  /\ \/ \E i \in 1..Pieces :
          Step("check", "post") /\ HoldsPiece(i) /\ posted' = [posted EXCEPT ![piece] = i]
     \/ /\ Step("check", "request") /\ (\A i \in 1..Pieces : ~HoldsPiece(i))
        /\ UNCHANGED posted
  /\ UNCHANGED <<piece, req, timeout, dataVars, frameVars, dmxVars, cpc, lost, aborts, late>>

\* The source has read the piece: on to the next modules, none of whose blocks
\* have come.
NextPiece ==
  /\ IF piece = Pieces
     THEN Step("post", "over") /\ UNCHANGED <<piece, block_received>>
     ELSE Step("post", "request") /\ piece' = piece + 1 /\ block_received' = {}
  /\ UNCHANGED <<req, timeout, ota_buf, frameVars, dmxVars, cpc, lost, histVars>>

DownloadNext == \/ Request \/ OpenDmx \/ LockContinue \/ EnableChannel \/ CreateCheck
                \/ Released \/ StopDmx \/ CloseDmx \/ CheckCrc \/ NextPiece
-----------------------------------------------------------------------------
(* The poll thread: a section of block b of piece i.                       *)

\* Slip: a section of a module outside the range is taken.
WantedAny(i, b) == b \notin block_received

\* The module is one of the range, its blocks are numbered as the section
\* says, and the block is not there yet ("block exist").
Wanted(i, b) == i = piece /\ b \in BlocksOf(piece) /\ b \notin block_received

\* Slip: finished with the module of this section.
RangeFinishedModule(b) ==
  \A n \in Numbers : <<b[1], n>> \in block_received \cup {b}

\* Every module of the range has module_download_finish.
RangeFinished(b) == block_received \cup {b} = BlocksOf(piece)

\* Slip: the mutex is not unlocked.
UnlockedNot(b) == continue_mutex' = continue_mutex

\* ddb_section unlocks what the download thread has locked.
Unlocked(b) == continue_mutex' = (continue_mutex /\ ~RangeFinished(b))

DdbSection(i, b) ==
  /\ enabled /\ Wanted(i, b)
  /\ block_received' = block_received \cup {b} /\ ota_buf' = [ota_buf EXCEPT ![b] = i]
  /\ Unlocked(b) /\ frame_handle' = "open"
  /\ UNCHANGED <<dlVars, frame, dmxVars, cpc, lost, histVars>>
-----------------------------------------------------------------------------
(* check_continue_thread of request k, and abort.                          *)

At(k, from, to) == cpc[k] = from /\ cpc' = [cpc EXCEPT ![k] = to]

CheckLock(k) ==
  /\ frame /\ At(k, "lock", "disable") /\ ~continue_mutex /\ continue_mutex' = TRUE
  /\ UNCHANGED <<dlVars, dataVars, frame, frame_handle, dmxVars, lost, histVars>>

\* DMX_CTRL_DISABLE; the call refuses a NULL handle.
CheckDisable(k) ==
  /\ frame /\ frame_handle \in {"open", "null"} /\ At(k, "disable", "release")
  /\ enabled' = (enabled /\ frame_handle = "null")
  /\ UNCHANGED <<dlVars, dataVars, frameVars, opened, stoprequest, lost, histVars>>

CheckRelease(k) ==
  /\ frame /\ frame_handle = "open" /\ At(k, "release", "unlock") /\ stoprequest' = TRUE
  /\ UNCHANGED <<dlVars, dataVars, frameVars, opened, enabled, lost, histVars>>

\* "Download finish, stop channel!", and the unlock, whichever request the
\* frame now belongs to; in a dead frame it hits nothing, or see CheckLost.
CheckUnlock(k) ==
  /\ At(k, "unlock", "over")
  /\ continue_mutex' = (continue_mutex /\ ~frame)
  /\ UNCHANGED <<dlVars, dataVars, frame, frame_handle, dmxVars, lost, histVars>>

\* The thread follows a pointer of a dead frame or to a freed handle, or
\* releases NULL.
CheckLost(k) ==
  /\ \/ ~frame /\ cpc[k] \in {"disable", "release", "unlock"}
     \/ frame /\ cpc[k] = "disable" /\ frame_handle = "freed"
     \/ frame /\ cpc[k] = "release" /\ frame_handle # "open"
  /\ lost' = TRUE
  /\ UNCHANGED <<dlVars, dataVars, frameVars, dmxVars, cpc, histVars>>

CheckNext(k) == \/ CheckLock(k) \/ CheckDisable(k) \/ CheckRelease(k) \/ CheckUnlock(k)
                \/ CheckLost(k)

\* alislupg_ota_download_abort, from f_prestop: it releases the poll of the
\* handle that is open, and touches a freed one between two requests.
Abort ==
  /\ aborts < MaxAbort /\ aborts' = aborts + 1
  /\ \/ opened /\ stoprequest' = TRUE /\ UNCHANGED lost
     \/ ~opened /\ lost' = TRUE /\ UNCHANGED stoprequest
  /\ UNCHANGED <<dlVars, dataVars, frameVars, opened, enabled, cpc, late, posted>>

Next ==
  /\ ~lost
  /\ \/ DownloadNext \/ TimedOut \/ Abort
     \/ \E i \in 1..Pieces, b \in Blocks : DdbSection(i, b)
     \/ \E k \in Requests : CheckNext(k)

Spec == Init /\ [][Next]_vars

\* The threads run, and the carousel goes round: a block that is missed comes
\* again.
FairSpec ==
  /\ Spec
  /\ WF_vars(~lost /\ DownloadNext)
  /\ \A i \in 1..Pieces, b \in Blocks : WF_vars(~lost /\ DdbSection(i, b))
  /\ \A k \in Requests : WF_vars(~lost /\ CheckNext(k))
-----------------------------------------------------------------------------
\* The bytes posted as a piece are that piece's.  Not so in general: a check
\* thread that is late with its unlock lets the next request's check thread
\* through, the request ends before a block has come, and the CRC of the piece
\* before, still in ota_buf, is good.
PieceOwn == \A i \in 1..Pieces : posted[i] \in {0, i}

\* A request that reports success has every block of its piece, and the bytes
\* posted as a piece are that piece's, unless a request was aborted or began
\* while the check thread of an earlier one was still on its way (the return of
\* dmx_req_section; "CRC check failed, we need download this piece again").
RequestComplete ==
  aborts = 0 /\ ~late =>
    /\ dpc = "check" => block_received = BlocksOf(piece)
    /\ PieceOwn

\* A request ends as soon as the carousel has brought every block: the signal
\* through the mutex, from a thread that does not own it, is not lost, however
\* late the check threads of this and earlier requests run (ddb_section,
\* check_continue_thread).
Collected == dpc = "poll" ~> dpc # "poll" \/ lost
=============================================================================
