------------------------------ MODULE DmxFeed -------------------------------
(***************************************************************************)
(* libalisldmx: a playback device, its status word and its two threads.    *)
(* alisldmx_playfeed_pthread asks the application for transport stream     *)
(* data and writes it to the driver; alisldmx_poll_pthread serves the      *)
(* channels.  Both run while DMX_STATUS_START is set.  alisldmx_pause and  *)
(* alisldmx_stop bring the feed thread to rest with a handshake over three *)
(* bits of the status word before they clear DMX_STATUS_START.             *)
(*                                                                         *)
(* Every operation of flag.c on the status word is one step; a wait is a   *)
(* guard, since flag_bit_set broadcasts under the mutex of the flag.  The  *)
(* application makes the control calls of a device one after the other;    *)
(* several users may hold it open.  Data is counted in units and stamped   *)
(* with the start it was requested after.                                  *)
(***************************************************************************)
EXTENDS Integers

CONSTANTS
  MaxOpen,     \* bound: handles on the device
  MaxGen,      \* bound: starts that are no resume
  BufSize      \* units the application gives at a request

ASSUME FeedAssumption ==
  MaxOpen \in Nat \ {0} /\ MaxGen \in Nat \ {0} /\ BufSize \in Nat \ {0}

VARIABLES
  status,      \* dev->status, as the set of its bits
  open_cnt,    \* dev->open_cnt; 0: m_dev is NULL
  at, call,    \* the control call in progress: its next step, its name
  fpc,         \* the feed thread
  buf,         \* its local buffer: units left, and their stamp
  ppc,         \* the poll thread
  hascb,       \* playback_param has a request_data
  gen,         \* starts that were no resume
  fed          \* stamp of the data in the driver's buffer since its flush

callVars == <<at, call>>
feedVars == <<fpc, buf>>
vars == <<status, open_cnt, callVars, feedVars, ppc, hascb, gen, fed>>

Bits == {"OPEN", "START", "PAUSE", "STOP", "P1", "P2", "P3"}
Empty == [left |-> 0, gen |-> 0]

\* The status word, the control calls and both threads keep their types.
TypeOK ==
  /\ status \subseteq Bits /\ open_cnt \in 0..MaxOpen
  /\ at \in {"idle", "start", "started", "wait2", "clear2", "unstart", "set3",
             "clear", "set", "join"}
  /\ call \in {"none", "start", "pause", "stop", "close"}
  /\ fpc \in {"none", "top", "set2", "wait3", "clear3", "start", "feed", "write"}
  /\ buf \in [left : 0..BufSize, gen : 0..MaxGen]
  /\ ppc \in {"none", "start", "poll"} /\ hascb \in BOOLEAN
  /\ gen \in 0..MaxGen /\ fed \in 0..MaxGen

Init ==
  /\ status = {} /\ open_cnt = 0 /\ at = "idle" /\ call = "none"
  /\ fpc = "none" /\ buf = Empty /\ ppc = "none"
  /\ hascb = FALSE /\ gen = 0 /\ fed = 0
-----------------------------------------------------------------------------
(* The application.                                                        *)

\* alisldmx_open under m_mutex, which a closing alisldmx_close holds: the
\* first one creates the device and its threads.
Open ==
  /\ call # "close" /\ open_cnt < MaxOpen /\ open_cnt' = open_cnt + 1
  /\ IF open_cnt = 0
     THEN /\ status' = {"OPEN"} /\ fpc' = "top" /\ buf' = Empty /\ ppc' = "start"
          /\ hascb' = FALSE
     ELSE UNCHANGED <<status, feedVars, ppc, hascb>>
  /\ UNCHANGED <<callVars, gen, fed>>

\* A control call starts, and ends.
Enter(c, step) == at = "idle" /\ open_cnt > 0 /\ call' = c /\ at' = step
Leave == at' = "idle" /\ call' = "none"

\* alisldmx_start: unless it resumes, the driver's buffer is flushed.
Start ==
  /\ Enter("start", "start") /\ "START" \notin status
  /\ IF "PAUSE" \in status THEN UNCHANGED <<gen, fed>>
     ELSE gen < MaxGen /\ gen' = gen + 1 /\ fed' = 0
  /\ UNCHANGED <<status, open_cnt, feedVars, ppc, hascb>>

StartClear ==
  /\ at = "start" /\ at' = "started" /\ status' = status \ {"STOP", "PAUSE"}
  /\ UNCHANGED <<open_cnt, call, feedVars, ppc, hascb, gen, fed>>

StartSet ==
  /\ at = "started" /\ Leave /\ status' = status \cup {"START"}
  /\ UNCHANGED <<open_cnt, feedVars, ppc, hascb, gen, fed>>

\* alisldmx_pause of a running device: DMX_STATUS_IDLE_P1 asks for the rest.
Pause ==
  /\ Enter("pause", "wait2") /\ "START" \in status /\ "PAUSE" \notin status
  /\ status' = status \cup {"P1"}
  /\ UNCHANGED <<open_cnt, feedVars, ppc, hascb, gen, fed>>

\* alisldmx_stop, also as alisldmx_close calls it: a paused device needs no
\* handshake, one that is neither started nor paused is left alone.
StopBegin ==
  /\ "STOP" \notin status
  /\ \/ /\ "START" \in status
        /\ at' = "wait2" /\ status' = status \cup {"P1"}
     \/ /\ "START" \notin status /\ "PAUSE" \in status
        /\ at' = "clear" /\ UNCHANGED status

Stop ==
  /\ at = "idle" /\ open_cnt > 0 /\ StopBegin /\ call' = "stop"
  /\ UNCHANGED <<open_cnt, feedVars, ppc, hascb, gen, fed>>

\* Slip: START is cleared without waiting for the feed thread.
HandshakeWaitNot ==
  /\ at = "wait2" /\ at' = "clear2"
  /\ UNCHANGED <<status, open_cnt, call, feedVars, ppc, hascb, gen, fed>>

\* Slip: P3 is never set, the feed thread is left in the handshake.
HandshakeSetNot ==
  /\ at = "set3" /\ at' = "clear"
  /\ UNCHANGED <<status, open_cnt, call, feedVars, ppc, hascb, gen, fed>>

\* The handshake of alisldmx_pause and alisldmx_stop, bit by bit.
HandshakeWait ==
  /\ at = "wait2" /\ "P2" \in status /\ at' = "clear2"
  /\ UNCHANGED <<status, open_cnt, call, feedVars, ppc, hascb, gen, fed>>

HandshakeClear ==
  /\ at = "clear2" /\ at' = "unstart" /\ status' = status \ {"P2"}
  /\ UNCHANGED <<open_cnt, call, feedVars, ppc, hascb, gen, fed>>

HandshakeUnstart ==
  /\ at = "unstart" /\ at' = "set3" /\ status' = status \ {"START"}
  /\ UNCHANGED <<open_cnt, call, feedVars, ppc, hascb, gen, fed>>

HandshakeSet ==
  /\ at = "set3" /\ at' = "clear" /\ status' = status \cup {"P3"}
  /\ UNCHANGED <<open_cnt, call, feedVars, ppc, hascb, gen, fed>>

\* Stop flushes the driver's buffer.
EndClear ==
  /\ at = "clear" /\ at' = "set"
  /\ IF call = "pause" THEN status' = status \ {"START"} /\ UNCHANGED fed
                       ELSE status' = status \ {"START", "PAUSE"} /\ fed' = 0
  /\ UNCHANGED <<open_cnt, call, feedVars, ppc, hascb, gen>>

EndSet ==
  /\ at = "set"
  /\ status' = status \cup {IF call = "pause" THEN "PAUSE" ELSE "STOP"}
  /\ IF call = "close" THEN at' = "join" /\ UNCHANGED call ELSE Leave
  /\ UNCHANGED <<open_cnt, feedVars, ppc, hascb, gen, fed>>

\* Slip: a handle is given back that is not the caller's to give.
CloseHandleUnchecked ==
  /\ call # "close" /\ open_cnt' = open_cnt - 1
  /\ UNCHANGED <<status, callVars, feedVars, ppc, hascb, gen, fed>>

\* alisldmx_close of a handle that is not the last one.
CloseHandle ==
  /\ call # "close" /\ open_cnt > 1 /\ open_cnt' = open_cnt - 1
  /\ UNCHANGED <<status, callVars, feedVars, ppc, hascb, gen, fed>>

\* alisldmx_close of the last one: a device that is not stopped is.
Close ==
  /\ at = "idle" /\ open_cnt = 1 /\ open_cnt' = 0 /\ call' = "close"
  /\ IF "STOP" \notin status /\ status \cap {"START", "PAUSE"} # {}
     THEN StopBegin ELSE at' = "join" /\ UNCHANGED status
  /\ UNCHANGED <<feedVars, ppc, hascb, gen, fed>>

\* Both threads are cancelled at a cancellation point and joined, the device
\* is freed.
CloseJoin ==
  /\ at = "join" /\ Leave
  /\ fpc \in {"wait3", "start", "feed", "write"}
  /\ fpc' = "none" /\ ppc' = "none" /\ buf' = Empty
  /\ status' = {} /\ hascb' = FALSE /\ fed' = 0
  /\ UNCHANGED <<open_cnt, gen>>

\* feed_mutex is free: the feed thread is not between its lock and unlock.
FeedUnlocked == fpc \notin {"feed", "write"}

SetPlaybackParam ==
  /\ open_cnt > 0 /\ FeedUnlocked /\ hascb' \in BOOLEAN
  /\ UNCHANGED <<status, open_cnt, callVars, feedVars, ppc, gen, fed>>

\* alisldmx_direct_write_playback: the application's own data.
DirectWrite ==
  /\ open_cnt > 0 /\ FeedUnlocked /\ fed' = gen
  /\ UNCHANGED <<status, open_cnt, callVars, feedVars, ppc, hascb, gen>>

Control == \/ StartClear \/ StartSet \/ HandshakeWait \/ HandshakeClear
           \/ HandshakeUnstart \/ HandshakeSet \/ EndClear \/ EndSet \/ CloseJoin

App == Open \/ Start \/ Pause \/ Stop \/ CloseHandle \/ Close
       \/ SetPlaybackParam \/ DirectWrite
-----------------------------------------------------------------------------
(* alisldmx_playfeed_pthread.                                              *)

FeedTop ==
  /\ fpc = "top"
  /\ IF "P1" \in status THEN fpc' = "set2" /\ status' = status \ {"P1"}
                        ELSE fpc' = "start" /\ UNCHANGED status
  /\ UNCHANGED <<open_cnt, callVars, buf, ppc, hascb, gen, fed>>

FeedSet2 ==
  /\ fpc = "set2" /\ fpc' = "wait3" /\ status' = status \cup {"P2"}
  /\ UNCHANGED <<open_cnt, callVars, buf, ppc, hascb, gen, fed>>

FeedWait3 ==
  /\ fpc = "wait3" /\ "P3" \in status /\ fpc' = "clear3"
  /\ UNCHANGED <<status, open_cnt, callVars, buf, ppc, hascb, gen, fed>>

FeedClear3 ==
  /\ fpc = "clear3" /\ fpc' = "start" /\ status' = status \ {"P3"}
  /\ UNCHANGED <<open_cnt, callVars, buf, ppc, hascb, gen, fed>>

\* It waits for START, then takes feed_mutex.
FeedStart ==
  /\ fpc = "start" /\ "START" \in status /\ fpc' = "feed"
  /\ UNCHANGED <<status, open_cnt, callVars, buf, ppc, hascb, gen, fed>>

\* The driver has no room, or there is no callback, or it has no data.
FeedNothing ==
  /\ fpc = "feed" /\ fpc' = "top"
  /\ UNCHANGED <<status, open_cnt, callVars, buf, ppc, hascb, gen, fed>>

\* request_data fills an empty buffer; what is left of one is written on.
FeedRequest ==
  /\ fpc = "feed" /\ fpc' = "write"
  /\ IF buf.left = 0
     THEN hascb /\ \E n \in 1..BufSize : buf' = [left |-> n, gen |-> gen]
     ELSE UNCHANGED buf
  /\ UNCHANGED <<status, open_cnt, callVars, ppc, hascb, gen, fed>>

\* write takes some of it, or nothing.
FeedWrite ==
  /\ fpc = "write" /\ fpc' = "top"
  /\ \E n \in 0..buf.left :
       /\ buf' = IF n = buf.left THEN Empty ELSE [buf EXCEPT !.left = @ - n]
       /\ fed' = IF n = 0 THEN fed ELSE buf.gen
  /\ UNCHANGED <<status, open_cnt, callVars, ppc, hascb, gen>>

Feed == \/ FeedTop \/ FeedSet2 \/ FeedWait3 \/ FeedClear3 \/ FeedStart
        \/ FeedNothing \/ FeedRequest \/ FeedWrite
-----------------------------------------------------------------------------
(* alisldmx_poll_pthread.                                                  *)

PollStart ==
  /\ ppc = "start" /\ "START" \in status /\ ppc' = "poll"
  /\ UNCHANGED <<status, open_cnt, callVars, feedVars, hascb, gen, fed>>

\* epoll_wait returns, after 2000 ms at the latest, and its events are served.
PollReturn ==
  /\ ppc = "poll" /\ ppc' = "start"
  /\ UNCHANGED <<status, open_cnt, callVars, feedVars, hascb, gen, fed>>

PollThread == PollStart \/ PollReturn
-----------------------------------------------------------------------------
Next == App \/ Control \/ Feed \/ PollThread

Spec == Init /\ [][Next]_vars

\* Both threads are scheduled and request_data returns; a call goes on.
FairSpec ==
  Spec /\ WF_vars(Control) /\ WF_vars(Feed) /\ WF_vars(PollThread)
-----------------------------------------------------------------------------
(* Properties.                                                             *)

\* Once alisldmx_pause or alisldmx_stop has cleared DMX_STATUS_START the feed
\* thread is at rest: it calls no request_data and writes nothing until the
\* next alisldmx_start, and alisldmx_close cancels it with feed_mutex free.
FeedAtRest == "START" \notin status => FeedUnlocked

\* Where the threads stand in the handshake, which FeedAtRest rests on.
Handshake ==
  /\ "P1" \in status => at = "wait2" /\ fpc # "set2" /\ "P2" \notin status
  /\ fpc = "set2" => at = "wait2" /\ "P2" \notin status
  /\ "P2" \in status => at \in {"wait2", "clear2"}
  /\ "P2" \in status \/ at \in {"clear2", "unstart", "set3"} =>
       fpc = "wait3" /\ "P3" \notin status
  /\ at \in {"set3", "clear", "set", "join"} => "START" \notin status
  /\ "P3" \in status => fpc \in {"wait3", "clear3"}

\* alisldmx_start, alisldmx_pause, alisldmx_stop and alisldmx_close return: none
\* waits for ever in the handshake or for a thread.
CallsReturn == at # "idle" ~> at = "idle"

\* alisldmx_start lets the feed thread go on whatever handshakes came before.
FeedResumes ==
  "START" \in status ~> fpc = "feed" \/ "START" \notin status \/ at # "idle"

\* "When other status -> start, flush buffer": what the driver is given after
\* a start that is no resume was requested after it.  False: what is left in the
\* feed thread's buffer is written on.
FreshData == fed \in {0, gen}
=============================================================================
