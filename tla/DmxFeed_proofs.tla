--------------------------- MODULE DmxFeed_proofs ---------------------------
(***************************************************************************)
(* The handshake of the playback device, proved for any number of handles, *)
(* starts and units: the feed thread is at rest whenever DMX_STATUS_START  *)
(* is clear, a control call and the feed thread never wait for each other, *)
(* and each step of theirs brings the call nearer to its return.           *)
(***************************************************************************)
EXTENDS DmxFeed, TLAPS

\* A control call belongs to an open device or to its last close, and a device
\* that is stopped is not started.
CallState ==
  /\ at = "idle" <=> call = "none"
  /\ at # "idle" => open_cnt > 0 \/ call = "close"
  /\ "STOP" \in status => "START" \notin status
  /\ at = "started" => "STOP" \notin status

IInv == TypeOK /\ CallState /\ Handshake /\ FeedAtRest

LEMMA InitInv == Init => IInv
<1>1. Init => hascb \in BOOLEAN
  BY Zenon DEF Init
<1>2. Init => TypeOK
  BY <1>1, FeedAssumption DEF Init, TypeOK, Empty
<1>3. Init => CallState /\ Handshake /\ FeedAtRest
  BY DEF Init, CallState, Handshake, FeedAtRest, FeedUnlocked
<1> QED
  BY <1>2, <1>3 DEF IInv

\* The steps of the application that begin a call or open the device.
LEMMA AppInv == IInv /\ App => IInv'
<1> SUFFICES ASSUME IInv, App PROVE IInv'
  OBVIOUS
<1> USE FeedAssumption DEF IInv
<1>1. CASE Open
  <2>1. hascb' \in BOOLEAN
    BY <1>1, Zenon DEF Open, TypeOK
  <2>2. TypeOK'
    <3>1. CASE open_cnt = 0
      BY <1>1, <2>1, <3>1 DEF Open, TypeOK, callVars, Empty, Bits
    <3>2. CASE open_cnt # 0
      BY <1>1, <2>1, <3>2 DEF Open, TypeOK, callVars, feedVars
    <3> QED
      BY <3>1, <3>2
  <2>3. CallState' /\ Handshake' /\ FeedAtRest'
    BY <1>1 DEF Open, TypeOK, CallState, Handshake, FeedAtRest, FeedUnlocked,
       callVars, feedVars
  <2> QED
    BY <2>2, <2>3
<1>2. CASE Start
  BY <1>2 DEF Start, Enter, TypeOK, CallState, Handshake, FeedAtRest,
     FeedUnlocked, feedVars, Bits
<1>3. CASE Pause
  BY <1>3 DEF Pause, Enter, TypeOK, CallState, Handshake, FeedAtRest,
     FeedUnlocked, feedVars, Bits
<1>4. CASE Stop
  BY <1>4 DEF Stop, StopBegin, TypeOK, CallState, Handshake, FeedAtRest,
     FeedUnlocked, feedVars, Bits
<1>5. CASE CloseHandle
  BY <1>5 DEF CloseHandle, TypeOK, CallState, Handshake, FeedAtRest,
     FeedUnlocked, callVars, feedVars, Bits
<1>6. CASE Close
  <2>1. CASE "STOP" \notin status /\ status \cap {"START", "PAUSE"} # {}
    <3>1. /\ StopBegin /\ at = "idle" /\ open_cnt' = 0 /\ call' = "close"
          /\ UNCHANGED <<feedVars, ppc, hascb, gen, fed>>
      BY <1>6, <2>1 DEF Close
    <3>2. status' \subseteq Bits /\ at' \in {"wait2", "clear"}
      BY <3>1 DEF StopBegin, TypeOK, Bits
    <3>3. TypeOK'
      BY <3>1, <3>2 DEF TypeOK, feedVars
    <3>4. CallState' /\ Handshake' /\ FeedAtRest'
      BY <3>1 DEF StopBegin, CallState, Handshake, FeedAtRest,
         FeedUnlocked, feedVars
    <3> QED
      BY <3>3, <3>4
  <2>2. CASE ~("STOP" \notin status /\ status \cap {"START", "PAUSE"} # {})
    <3>1. "START" \notin status
      BY <2>2 DEF CallState
    <3>2. at' = "join" /\ UNCHANGED status
      BY <1>6, <2>2 DEF Close
    <3> QED
      BY <1>6, <3>1, <3>2 DEF Close, TypeOK, CallState, Handshake, FeedAtRest,
         FeedUnlocked, feedVars
  <2> QED
    BY <2>1, <2>2
<1>7. CASE SetPlaybackParam
  BY <1>7 DEF SetPlaybackParam, TypeOK, CallState, Handshake, FeedAtRest,
     FeedUnlocked, callVars, feedVars, Bits
<1>8. CASE DirectWrite
  BY <1>8 DEF DirectWrite, TypeOK, CallState, Handshake, FeedAtRest,
     FeedUnlocked, callVars, feedVars, Bits
<1> QED
  BY <1>1, <1>2, <1>3, <1>4, <1>5, <1>6, <1>7, <1>8 DEF App

\* The steps inside a control call.
LEMMA ControlInv == IInv /\ Control => IInv'
<1> SUFFICES ASSUME IInv, Control PROVE IInv'
  OBVIOUS
<1> USE FeedAssumption DEF IInv
<1>1. CASE StartClear \/ StartSet
  <2>1. CASE StartClear
    <3>1. TypeOK'
      BY <2>1 DEF StartClear, TypeOK, feedVars, Bits
    <3>2. CallState' /\ Handshake' /\ FeedAtRest'
      BY <2>1 DEF StartClear, TypeOK, CallState, Handshake, FeedAtRest,
         FeedUnlocked, feedVars
    <3> QED
      BY <3>1, <3>2
  <2>2. CASE StartSet
    <3>1. TypeOK'
      BY <2>2 DEF StartSet, Leave, TypeOK, feedVars, Bits
    <3>2. CallState' /\ Handshake' /\ FeedAtRest'
      BY <2>2 DEF StartSet, Leave, TypeOK, CallState, Handshake, FeedAtRest,
         FeedUnlocked, feedVars
    <3> QED
      BY <3>1, <3>2
  <2> QED
    BY <1>1, <2>1, <2>2
<1>2. CASE HandshakeWait \/ HandshakeClear
  <2>1. CASE HandshakeWait
    <3>1. TypeOK'
      BY <2>1 DEF HandshakeWait, TypeOK, feedVars, Bits
    <3>2. CallState' /\ Handshake' /\ FeedAtRest'
      BY <2>1 DEF HandshakeWait, TypeOK, CallState, Handshake, FeedAtRest,
         FeedUnlocked, feedVars
    <3> QED
      BY <3>1, <3>2
  <2>2. CASE HandshakeClear
    <3>1. TypeOK'
      BY <2>2 DEF HandshakeClear, TypeOK, feedVars, Bits
    <3>2. CallState' /\ Handshake' /\ FeedAtRest'
      BY <2>2 DEF HandshakeClear, TypeOK, CallState, Handshake, FeedAtRest,
         FeedUnlocked, feedVars
    <3> QED
      BY <3>1, <3>2
  <2> QED
    BY <1>2, <2>1, <2>2
<1>3. CASE HandshakeUnstart \/ HandshakeSet
  <2>1. CASE HandshakeUnstart
    <3>1. TypeOK'
      BY <2>1 DEF HandshakeUnstart, TypeOK, feedVars, Bits
    <3>2. CallState' /\ Handshake' /\ FeedAtRest'
      BY <2>1 DEF HandshakeUnstart, TypeOK, CallState, Handshake, FeedAtRest,
         FeedUnlocked, feedVars
    <3> QED
      BY <3>1, <3>2
  <2>2. CASE HandshakeSet
    <3>1. TypeOK'
      BY <2>2 DEF HandshakeSet, TypeOK, feedVars, Bits
    <3>2. CallState' /\ Handshake' /\ FeedAtRest'
      BY <2>2 DEF HandshakeSet, TypeOK, CallState, Handshake, FeedAtRest,
         FeedUnlocked, feedVars
    <3> QED
      BY <3>1, <3>2
  <2> QED
    BY <1>3, <2>1, <2>2
<1>4. CASE EndClear
  <2>1. status' \subseteq status /\ "START" \notin status'
    BY <1>4 DEF EndClear
  <2>2. fed' \in 0..MaxGen
    BY <1>4 DEF EndClear, TypeOK
  <2> QED
    BY <1>4, <2>1, <2>2 DEF EndClear, TypeOK, CallState, Handshake, FeedAtRest,
       FeedUnlocked, feedVars
<1>5. CASE EndSet
  BY <1>5 DEF EndSet, Leave, TypeOK, CallState, Handshake, FeedAtRest,
     FeedUnlocked, feedVars, Bits
<1>6. CASE CloseJoin
  <2>1. hascb' \in BOOLEAN
    BY <1>6, Zenon DEF CloseJoin
  <2>2. TypeOK'
    BY <1>6, <2>1 DEF CloseJoin, Leave, TypeOK, Empty
  <2>3. CallState' /\ Handshake' /\ FeedAtRest'
    BY <1>6 DEF CloseJoin, Leave, CallState, Handshake, FeedAtRest, FeedUnlocked
  <2> QED
    BY <2>2, <2>3
<1> QED
  BY <1>1, <1>2, <1>3, <1>4, <1>5, <1>6 DEF Control

\* The steps of the two threads.
LEMMA ThreadInv == IInv /\ (Feed \/ PollThread) => IInv'
<1> SUFFICES ASSUME IInv, Feed \/ PollThread PROVE IInv'
  OBVIOUS
<1> USE FeedAssumption DEF IInv
<1>1. CASE FeedTop \/ FeedSet2
  <2>1. CASE FeedTop
    <3>1. TypeOK'
      BY <2>1 DEF FeedTop, TypeOK, callVars, Bits
    <3>2. CallState' /\ Handshake' /\ FeedAtRest'
      BY <2>1 DEF FeedTop, TypeOK, CallState, Handshake, FeedAtRest,
         FeedUnlocked, callVars
    <3> QED
      BY <3>1, <3>2
  <2>2. CASE FeedSet2
    <3>1. TypeOK'
      BY <2>2 DEF FeedSet2, TypeOK, callVars, Bits
    <3>2. CallState' /\ Handshake' /\ FeedAtRest'
      BY <2>2 DEF FeedSet2, TypeOK, CallState, Handshake, FeedAtRest,
         FeedUnlocked, callVars
    <3> QED
      BY <3>1, <3>2
  <2> QED
    BY <1>1, <2>1, <2>2
<1>2. CASE FeedWait3 \/ FeedClear3
  <2>1. CASE FeedWait3
    <3>1. TypeOK'
      BY <2>1 DEF FeedWait3, TypeOK, callVars, Bits
    <3>2. CallState' /\ Handshake' /\ FeedAtRest'
      BY <2>1 DEF FeedWait3, TypeOK, CallState, Handshake, FeedAtRest,
         FeedUnlocked, callVars
    <3> QED
      BY <3>1, <3>2
  <2>2. CASE FeedClear3
    <3>1. TypeOK'
      BY <2>2 DEF FeedClear3, TypeOK, callVars, Bits
    <3>2. CallState' /\ Handshake' /\ FeedAtRest'
      BY <2>2 DEF FeedClear3, TypeOK, CallState, Handshake, FeedAtRest,
         FeedUnlocked, callVars
    <3> QED
      BY <3>1, <3>2
  <2> QED
    BY <1>2, <2>1, <2>2
<1>3. CASE FeedStart \/ FeedNothing
  <2>1. CASE FeedStart
    <3>1. TypeOK'
      BY <2>1 DEF FeedStart, TypeOK, callVars, Bits
    <3>2. CallState' /\ Handshake' /\ FeedAtRest'
      BY <2>1 DEF FeedStart, TypeOK, CallState, Handshake, FeedAtRest,
         FeedUnlocked, callVars
    <3> QED
      BY <3>1, <3>2
  <2>2. CASE FeedNothing
    <3>1. TypeOK'
      BY <2>2 DEF FeedNothing, TypeOK, callVars, Bits
    <3>2. CallState' /\ Handshake' /\ FeedAtRest'
      BY <2>2 DEF FeedNothing, TypeOK, CallState, Handshake, FeedAtRest,
         FeedUnlocked, callVars
    <3> QED
      BY <3>1, <3>2
  <2> QED
    BY <1>3, <2>1, <2>2
<1>4. CASE FeedRequest
  <2>1. buf' \in [left : 0..BufSize, gen : 0..MaxGen]
    BY <1>4 DEF FeedRequest, TypeOK
  <2> QED
    BY <1>4, <2>1 DEF FeedRequest, TypeOK, CallState, Handshake, FeedAtRest,
       FeedUnlocked, callVars, Bits
<1>5. CASE FeedWrite
  <2>1. buf' \in [left : 0..BufSize, gen : 0..MaxGen] /\ fed' \in 0..MaxGen
    BY <1>5 DEF FeedWrite, TypeOK, Empty
  <2> QED
    BY <1>5, <2>1 DEF FeedWrite, TypeOK, CallState, Handshake, FeedAtRest,
       FeedUnlocked, callVars, Bits
<1>6. CASE PollThread
  <2>1. /\ ppc' \in {"start", "poll"}
        /\ UNCHANGED <<status, open_cnt, callVars, feedVars, hascb, gen, fed>>
    BY <1>6 DEF PollThread, PollStart, PollReturn
  <2>2. TypeOK'
    BY <2>1 DEF TypeOK, callVars, feedVars
  <2>3. CallState' /\ Handshake' /\ FeedAtRest'
    BY <2>1 DEF CallState, Handshake, FeedAtRest, FeedUnlocked, callVars,
       feedVars
  <2> QED
    BY <2>2, <2>3
<1> QED
  BY <1>1, <1>2, <1>3, <1>4, <1>5, <1>6 DEF Feed

LEMMA StutterInv == IInv /\ UNCHANGED vars => IInv'
  BY DEF IInv, vars, callVars, feedVars, TypeOK, CallState, Handshake,
     FeedAtRest, FeedUnlocked

\* The inductive invariant of the device.
THEOREM FeedInv == Spec => []IInv
<1>1. IInv /\ [Next]_vars => IInv'
  BY AppInv, ControlInv, ThreadInv, StutterInv DEF Next
<1> QED
  BY InitInv, <1>1, PTL DEF Spec

\* The status word, the control calls and both threads of a playback device
\* keep their types.
THEOREM FeedTypeCorrect == Spec => []TypeOK
<1>1. IInv => TypeOK
  BY DEF IInv
<1> QED
  BY FeedInv, <1>1, PTL

\* Once pause or stop has cleared DMX_STATUS_START, the feed thread neither
\* requests nor writes data.
THEOREM FeedRests == Spec => []FeedAtRest
<1>1. IInv => FeedAtRest
  BY DEF IInv
<1> QED
  BY FeedInv, <1>1, PTL

\* P1, P2 and P3 are each set only where the other side waits for them.
THEOREM HandshakeHolds == Spec => []Handshake
<1>1. IInv => Handshake
  BY DEF IInv
<1> QED
  BY FeedInv, <1>1, PTL
-----------------------------------------------------------------------------
(* What the return of the calls rests on: how far a call is from its end,  *)
(* and that somebody can always take it nearer.  That the threads are      *)
(* scheduled, hence CallsReturn and FeedResumes, is TLC's.                 *)

\* Each bit of the handshake is set or about to be when its side waits for it,
\* and there is a feed thread whenever there is a device.
WaitInv ==
  /\ fpc = "none" <=> open_cnt = 0 /\ call # "close"
  /\ fpc = "none" => status = {}
  /\ call = "close" => open_cnt = 0
  /\ at = "join" => call = "close"
  /\ at \in {"start", "started"} => call # "close"
  /\ at = "wait2" => /\ "START" \in status
                     /\ "P1" \in status \/ fpc = "set2" \/ "P2" \in status
  /\ fpc = "wait3" => \/ "P2" \in status \/ "P3" \in status
                      \/ at \in {"clear2", "unstart", "set3"}

\* A call that waits waits for a bit that is set, or for a feed thread that is
\* not itself waiting: neither alisldmx_pause nor alisldmx_stop meets the feed
\* thread in flag_wait_bit_any with each on the other's bit, and the join of
\* alisldmx_close meets it on its way to a cancellation point.
CallNeverStuck ==
  /\ at = "wait2" => \/ "P2" \in status
                     \/ fpc \in {"top", "set2", "clear3", "feed", "write"}
                     \/ fpc = "wait3" /\ "P3" \in status
                     \/ fpc = "start" /\ "START" \in status
  /\ at = "join" => fpc \in {"wait3", "start", "top", "clear3"}

\* Steps of the feed thread to the rest of the handshake, to a cancellation
\* point and to its next look at the application's data.
ToRest == [none |-> 0, wait3 |-> 7, clear3 |-> 6, start |-> 5, feed |-> 4,
           write |-> 3, top |-> 2, set2 |-> 1]
ToCancel == [none |-> 0, wait3 |-> 2, clear3 |-> 1, top |-> 1, start |-> 0,
             set2 |-> 0, feed |-> 0, write |-> 0]
ToFeed == [none |-> 0, wait3 |-> 4, clear3 |-> 3, write |-> 3, top |-> 2,
           start |-> 1, set2 |-> 0, feed |-> 0]

\* Steps of a call to its end, the feed thread's that it waits for included.
CallSteps == [idle |-> 0, started |-> 1, start |-> 2, join |-> 1, set |-> 4,
              clear |-> 5, set3 |-> 6, unstart |-> 7, clear2 |-> 8, wait2 |-> 9]
ToReturn ==
  CallSteps[at] + (IF at = "wait2" /\ "P2" \notin status THEN ToRest[fpc]
                   ELSE IF at = "join" THEN ToCancel[fpc] ELSE 0)

\* No step of anybody takes a call farther from its end, and it is at most 16
\* steps away: its own, and those of the feed thread when it waits for that.
NearsReturn ==
  at # "idle" =>
    /\ ToReturn \in 1..16
    /\ at' # "idle" => ToReturn' <= ToReturn
    /\ Control \/ (Feed /\ at \in {"wait2", "join"}) => ToReturn' < ToReturn

\* While DMX_STATUS_START is set and no call is in progress the feed thread is
\* never left in a handshake: it gets to its next request in at most four steps.
NearsFeed ==
  at = "idle" /\ at' = "idle" /\ "START" \in status =>
    /\ fpc \in {"wait3", "clear3", "write", "top", "start", "feed"}
    /\ fpc = "wait3" => "P3" \in status
    /\ fpc # "feed" => /\ ToFeed[fpc'] <= ToFeed[fpc]
                       /\ Feed => ToFeed[fpc'] < ToFeed[fpc]

LEMMA AppWait == IInv /\ WaitInv /\ App => WaitInv'
<1> SUFFICES ASSUME IInv, WaitInv, App PROVE WaitInv'
  OBVIOUS
<1>types. open_cnt \in Nat /\ CallState /\ Handshake /\ FeedAtRest
  BY FeedAssumption DEF IInv, TypeOK
<1>1. CASE Open
  BY <1>types, <1>1 DEF Open, WaitInv, CallState, callVars, feedVars
<1>2. CASE Start
  BY <1>types, <1>2 DEF Start, Enter, WaitInv, CallState, feedVars
<1>3. CASE Pause
  BY <1>types, <1>3 DEF Pause, Enter, WaitInv, CallState, feedVars
<1>4. CASE Stop
  BY <1>types, <1>4 DEF Stop, StopBegin, WaitInv, CallState, feedVars
<1>5. CASE CloseHandle
  BY <1>types, <1>5 DEF CloseHandle, WaitInv, CallState, callVars, feedVars
<1>6. CASE Close
  BY <1>types, <1>6 DEF Close, StopBegin, WaitInv, CallState, feedVars
<1>7. CASE SetPlaybackParam \/ DirectWrite
  BY <1>7 DEF SetPlaybackParam, DirectWrite, WaitInv, callVars, feedVars
<1> QED
  BY <1>1, <1>2, <1>3, <1>4, <1>5, <1>6, <1>7 DEF App

LEMMA ControlWait == IInv /\ WaitInv /\ Control => WaitInv'
<1> SUFFICES ASSUME IInv, WaitInv, Control PROVE WaitInv'
  OBVIOUS
<1>types. open_cnt \in Nat /\ CallState /\ Handshake /\ FeedAtRest
  BY FeedAssumption DEF IInv, TypeOK
<1>1. CASE StartClear
  BY <1>types, <1>1 DEF StartClear, WaitInv, CallState, feedVars
<1>6. CASE StartSet
  BY <1>types, <1>6 DEF StartSet, Leave, WaitInv, CallState, feedVars
<1>2. CASE HandshakeWait \/ HandshakeClear
  BY <1>types, <1>2 DEF HandshakeWait, HandshakeClear, WaitInv, Handshake, feedVars
<1>3. CASE HandshakeUnstart \/ HandshakeSet
  BY <1>types, <1>3 DEF HandshakeUnstart, HandshakeSet, WaitInv, Handshake, feedVars
<1>4. CASE EndClear \/ EndSet
  BY <1>types, <1>4 DEF EndClear, EndSet, Leave, WaitInv, CallState, feedVars
<1>5. CASE CloseJoin
  BY <1>types, <1>5 DEF CloseJoin, Leave, WaitInv, CallState
<1> QED
  BY <1>1, <1>2, <1>3, <1>4, <1>5, <1>6 DEF Control

LEMMA ThreadWait == IInv /\ WaitInv /\ (Feed \/ PollThread) => WaitInv'
<1> SUFFICES ASSUME IInv, WaitInv, Feed \/ PollThread PROVE WaitInv'
  OBVIOUS
<1>types. CallState /\ Handshake /\ FeedAtRest
  BY DEF IInv
<1>1. CASE FeedTop
  BY <1>types, <1>1 DEF FeedTop, WaitInv, Handshake, callVars
<1>2. CASE FeedSet2 \/ FeedWait3 \/ FeedClear3
  BY <1>types, <1>2 DEF FeedSet2, FeedWait3, FeedClear3, WaitInv, Handshake, callVars
<1>3. CASE FeedStart \/ FeedNothing \/ FeedRequest \/ FeedWrite
  BY <1>3 DEF FeedStart, FeedNothing, FeedRequest, FeedWrite, WaitInv, callVars
<1>4. CASE PollThread
  BY <1>4 DEF PollThread, PollStart, PollReturn, WaitInv, callVars, feedVars
<1> QED
  BY <1>1, <1>2, <1>3, <1>4 DEF Feed

\* What a step of the feed thread does to its place.
LEMMA FeedMoves ==
  ASSUME IInv, Feed
  PROVE  /\ UNCHANGED <<at, call, open_cnt>>
         /\ \/ fpc = "top" /\ fpc' = "set2" /\ "P1" \in status
            \/ fpc = "top" /\ fpc' = "start" /\ "P1" \notin status
            \/ fpc = "set2" /\ fpc' = "wait3" /\ "P2" \in status'
            \/ fpc = "wait3" /\ fpc' = "clear3" /\ "P3" \in status
            \/ fpc = "clear3" /\ fpc' = "start"
            \/ fpc = "start" /\ fpc' = "feed" /\ "START" \in status
            \/ fpc = "feed" /\ fpc' \in {"top", "write"}
            \/ fpc = "write" /\ fpc' = "top"
         /\ "P2" \in status => "P2" \in status'
         /\ "P2" \in status' => "P2" \in status \/ fpc = "set2"
  BY DEF Feed, FeedTop, FeedSet2, FeedWait3, FeedClear3, FeedStart, FeedNothing,
     FeedRequest, FeedWrite, callVars

\* What a step of a call does.
LEMMA ControlMoves ==
  ASSUME IInv, Control
  PROVE  \/ at = "start" /\ at' = "started"
         \/ at = "started" /\ at' = "idle"
         \/ at = "wait2" /\ at' = "clear2" /\ "P2" \in status
         \/ at = "clear2" /\ at' = "unstart"
         \/ at = "unstart" /\ at' = "set3"
         \/ at = "set3" /\ at' = "clear"
         \/ at = "clear" /\ at' = "set"
         \/ at = "set" /\ at' \in {"idle", "join"} /\ UNCHANGED fpc
         \/ at = "join" /\ at' = "idle"
  BY DEF Control, StartClear, StartSet, HandshakeWait, HandshakeClear, HandshakeUnstart,
     HandshakeSet, EndClear, EndSet, CloseJoin, Leave, feedVars

LEMMA ReturnRange ==
  ASSUME IInv, WaitInv, at # "idle"
  PROVE  ToReturn \in 1..16 /\ CallNeverStuck
<1>1. /\ fpc \in {"none", "top", "set2", "wait3", "clear3", "start", "feed", "write"}
      /\ at \in {"start", "started", "wait2", "clear2", "unstart", "set3",
                 "clear", "set", "join"}
  BY DEF IInv, TypeOK
<1>2. ToReturn \in 1..16
  BY <1>1 DEF ToReturn, CallSteps, ToRest, ToCancel
<1>3. fpc # "none"
  BY DEF WaitInv, IInv, CallState
<1>4. CallNeverStuck
  BY <1>1, <1>3 DEF CallNeverStuck, WaitInv, IInv, Handshake, FeedAtRest, FeedUnlocked
<1> QED
  BY <1>2, <1>4

LEMMA ReturnNears ==
  ASSUME IInv, WaitInv, IInv', WaitInv', [Next]_vars
  PROVE  NearsReturn
<1> SUFFICES ASSUME at # "idle"
             PROVE  /\ ToReturn \in 1..16
                    /\ at' # "idle" => ToReturn' <= ToReturn
                    /\ Control \/ (Feed /\ at \in {"wait2", "join"}) => ToReturn' < ToReturn
  BY DEF NearsReturn
<1>0. ToReturn \in 1..16
  BY ReturnRange
<1>types. /\ fpc \in {"none", "top", "set2", "wait3", "clear3", "start", "feed", "write"}
          /\ fpc' \in {"none", "top", "set2", "wait3", "clear3", "start", "feed", "write"}
  BY DEF IInv, TypeOK
<1>1. CASE Control
  <2>1. ToReturn' < ToReturn
    BY <1>types, <1>1, ControlMoves DEF ToReturn, CallSteps, ToRest, ToCancel
  <2>2. at' # "idle" => ToReturn' \in Int
    BY <1>types, <1>1, ControlMoves DEF ToReturn, CallSteps, ToRest, ToCancel
  <2> QED
    BY <1>0, <2>1, <2>2
<1>2. CASE Feed
  <2>0. at' = at
    BY <1>2, FeedMoves
  <2>1. CASE at = "wait2"
    <3>1. /\ "P1" \in status \/ fpc = "set2" \/ "P2" \in status
          /\ "P2" \in status => fpc = "wait3" /\ "P3" \notin status
      BY <2>1 DEF WaitInv, IInv, Handshake
    <3>2. ToReturn' < ToReturn /\ ToReturn' \in Int
      BY <1>types, <1>2, <2>0, <2>1, <3>1, FeedMoves DEF ToReturn, CallSteps, ToRest
    <3> QED
      BY <1>0, <3>2
  <2>2. CASE at = "join"
    <3>1. "START" \notin status /\ fpc \notin {"feed", "write", "set2"} /\ "P1" \notin status
      BY <2>2 DEF IInv, Handshake, FeedAtRest, FeedUnlocked
    <3>2. ToReturn' < ToReturn /\ ToReturn' \in Int
      BY <1>types, <1>2, <2>0, <2>2, <3>1, FeedMoves DEF ToReturn, CallSteps, ToCancel
    <3> QED
      BY <1>0, <3>2
  <2>3. CASE at \notin {"wait2", "join"}
    <3>1. ToReturn' = ToReturn
      BY <2>0, <2>3 DEF ToReturn
    <3>2. ~Control \/ ToReturn' < ToReturn
      BY <1>1
    <3> QED
      BY <1>0, <2>3, <3>1, <3>2
  <2> QED
    BY <2>1, <2>2, <2>3
<1>3. CASE App
  <2>1. UNCHANGED <<at, fpc>> /\ ("P2" \in status' <=> "P2" \in status)
    BY <1>3 DEF App, Open, Start, Pause, Stop, CloseHandle, Close, SetPlaybackParam,
       DirectWrite, Enter, callVars, feedVars, IInv, CallState
  <2>2. ToReturn' = ToReturn
    BY <2>1 DEF ToReturn
  <2> QED
    BY <1>0, <1>1, <1>2, <2>2
<1>4. CASE PollThread \/ UNCHANGED vars
  <2>1. UNCHANGED <<at, fpc, status>>
    BY <1>4 DEF PollThread, PollStart, PollReturn, vars, callVars, feedVars
  <2>2. ToReturn' = ToReturn
    BY <2>1 DEF ToReturn
  <2> QED
    BY <1>0, <1>1, <1>2, <2>2
<1> QED
  BY <1>1, <1>2, <1>3, <1>4 DEF Next

LEMMA FeedNears ==
  ASSUME IInv, WaitInv, [Next]_vars
  PROVE  NearsFeed
<1> SUFFICES ASSUME at = "idle", at' = "idle", "START" \in status
             PROVE  /\ fpc \in {"wait3", "clear3", "write", "top", "start", "feed"}
                    /\ fpc = "wait3" => "P3" \in status
                    /\ fpc # "feed" => /\ ToFeed[fpc'] <= ToFeed[fpc]
                                       /\ Feed => ToFeed[fpc'] < ToFeed[fpc]
  BY DEF NearsFeed
<1>1. /\ fpc \in {"none", "top", "set2", "wait3", "clear3", "start", "feed", "write"}
      /\ fpc # "none" /\ fpc # "set2" /\ "P1" \notin status
      /\ fpc = "wait3" => "P3" \in status
  BY DEF IInv, TypeOK, WaitInv, Handshake
<1>2. CASE Feed
  BY <1>1, <1>2, FeedMoves DEF ToFeed
<1>3. CASE Control
  BY <1>3, ControlMoves
<1>4. CASE App
  <2>1. UNCHANGED fpc
    <3>1. open_cnt # 0
      BY <1>1 DEF WaitInv, IInv, CallState
    <3> QED
      BY <1>4, <3>1 DEF App, Open, Start, Pause, Stop, CloseHandle, Close,
         SetPlaybackParam, DirectWrite, feedVars
  <2>2. ToFeed[fpc] \in Nat
    BY <1>1 DEF ToFeed
  <2> QED
    BY <1>1, <1>2, <2>1, <2>2
<1>5. CASE PollThread \/ UNCHANGED vars
  <2>1. UNCHANGED fpc
    BY <1>5 DEF PollThread, PollStart, PollReturn, vars, feedVars
  <2>2. ToFeed[fpc] \in Nat
    BY <1>1 DEF ToFeed
  <2> QED
    BY <1>1, <1>2, <2>1, <2>2
<1> QED
  BY <1>2, <1>3, <1>4, <1>5 DEF Next

LEMMA WaitAlways == Spec => [](IInv /\ WaitInv)
<1>1. Init => IInv /\ WaitInv
  BY InitInv DEF Init, WaitInv
<1>2. IInv /\ [Next]_vars => IInv'
  BY AppInv, ControlInv, ThreadInv, StutterInv DEF Next
<1>3. WaitInv /\ UNCHANGED vars => WaitInv'
  BY DEF WaitInv, vars, callVars, feedVars
<1>4. (IInv /\ WaitInv) /\ [Next]_vars => (IInv /\ WaitInv)'
  BY <1>2, <1>3, AppWait, ControlWait, ThreadWait DEF Next
<1> QED
  BY <1>1, <1>4, PTL DEF Spec

\* alisldmx_pause, alisldmx_stop, alisldmx_close and the feed thread never wait
\* for each other, however the calls and handshakes follow on one another.
THEOREM CallsNeverStuck == Spec => []CallNeverStuck
<1>1. IInv /\ WaitInv => CallNeverStuck
  <2>1. CASE at # "idle"
    BY <2>1, ReturnRange
  <2>2. CASE at = "idle"
    BY <2>2 DEF CallNeverStuck
  <2> QED
    BY <2>1, <2>2
<1> QED
  BY <1>1, WaitAlways, PTL

\* Every control call is at most 16 steps from its return, and each step of it
\* and of the feed thread it waits for takes it nearer.
THEOREM CallsNearReturn == Spec => [][NearsReturn]_vars
<1>1. (IInv /\ WaitInv) /\ (IInv /\ WaitInv)' /\ [Next]_vars => [NearsReturn]_vars
  BY ReturnNears
<1> QED
  BY <1>1, WaitAlways, PTL DEF Spec

\* After alisldmx_start the feed thread gets to its next request in at most four
\* steps of its own, whatever handshakes came before.
THEOREM FeedNearsRequest == Spec => [][NearsFeed]_vars
<1>1. (IInv /\ WaitInv) /\ [Next]_vars => [NearsFeed]_vars
  BY FeedNears
<1> QED
  BY <1>1, WaitAlways, PTL DEF Spec
=============================================================================
