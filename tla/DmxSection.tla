----------------------------- MODULE DmxSection -----------------------------
(***************************************************************************)
(* libalisldmx: section channels and their filters.  One thread per device *)
(* (alisldmx_poll_pthread) reads a section from the channel that has one   *)
(* and offers it to each filter of the channel, calling the owner's        *)
(* callbacks with sect_mutex released.  Meanwhile any thread, and the      *)
(* callback itself, may free, allocate, enable or disable filters and      *)
(* channels: flag, wait_close and the session ids are there for that.      *)
(*                                                                         *)
(* A filter is a slot of dev->filters; its place in the list of its        *)
(* channel is the number of its allocation.  Whether a section matches a   *)
(* filter (section_hit, the CRC) is a choice at each visit.  sect_mutex is *)
(* held in the states "visit" and "deliver" of the poll thread and during  *)
(* each action of a user.  The device is started.                          *)
(***************************************************************************)
EXTENDS Integers, FiniteSets

CONSTANTS
  Users, Poll,    \* the threads of the application, and the poll thread
  NC, NF,         \* section channels, filters
  MaxAlloc,       \* bound: filters allocated
  Callbacks,      \* the callback pairs users register: sets of "req", "upd"
  FreeAll         \* users free a channel whose filters are still allocated

ASSUME SectionAssumption ==
  /\ NC \in Nat \ {0} /\ NF \in Nat \ {0} /\ MaxAlloc \in Nat
  /\ Poll \notin Users /\ Callbacks \subseteq SUBSET {"req", "upd"}
  /\ FreeAll \in BOOLEAN

VARIABLES
  flt, ch,        \* dev->filters, dev->ch_sections
  allocs,         \* filters allocated so far
  bits,           \* dev->flag: channels with a one-shot section
  interest,       \* the channels whose fd is in poll_reactor.fd
  pc, todo,       \* the poll thread: where it is, the rest of evlist
  dch, cur,       \* section_dispatch: ch, and filter (0 is the list head)
  op,             \* each thread: the call it is in the middle of
  served,         \* history: filters that were given the present section and
                  \* have been enabled since
  actor           \* history: the thread whose call took effect last

pollVars == <<pc, todo, dch, cur>>
vars == <<flt, ch, allocs, bits, interest, pollVars, op, served, actor>>

Filters == 1..NF
Channels == 1..NC
Threads == Users \cup {Poll}

\* What memset leaves of a filter and of a channel.
ZeroFilter == [status |-> "none", ch |-> 0, pos |-> 0, flag |-> "init",
               access |-> FALSE, wait_close |-> FALSE, session |-> FALSE,
               continuous |-> FALSE, cb |-> {}]
ZeroChannel == [status |-> "none", session |-> FALSE, pid |-> FALSE]

FilterRec == [status : {"none", "disable", "enable"}, ch : 0..NC, pos : Nat,
              flag : {"init", "dispatch", "cb"}, access : BOOLEAN,
              wait_close : BOOLEAN, session : BOOLEAN, continuous : BOOLEAN,
              cb : SUBSET {"req", "upd"}]
ChannelRec == [status : {"none", "disable", "enable"}, session : BOOLEAN,
               pid : BOOLEAN]
Idle == [call |-> "none", arg |-> 0]
OpRec == [call : {"none", "free", "sleep", "chfree", "pid", "register"},
          arg : Nat]

\* Every filter, every channel and the two kinds of thread keep their types.
TypeOK ==
  /\ flt \in [Filters -> FilterRec] /\ ch \in [Channels -> ChannelRec]
  /\ allocs \in Nat
  /\ bits \subseteq Channels /\ interest \subseteq Channels
  /\ pc \in {"wait", "next", "visit", "request", "requested", "deliver",
             "update", "updated"}
  /\ todo \subseteq Channels /\ dch \in 0..NC /\ cur \in 0..NF
  /\ op \in [Threads -> OpRec] /\ served \subseteq Filters
  /\ actor \in Threads

Init ==
  /\ flt = [f \in Filters |-> ZeroFilter]
  /\ ch = [c \in Channels |-> ZeroChannel]
  /\ allocs = 0 /\ bits = {} /\ interest = {}
  /\ pc = "wait" /\ todo = {} /\ dch = 0 /\ cur = 0
  /\ op = [t \in Threads |-> Idle] /\ served = {} /\ actor = Poll
-----------------------------------------------------------------------------
(* The calls.  A callback may make any of them from the poll thread.       *)

InCallback == pc \in {"request", "update"}

\* The thread can take sect_mutex and starts a call.
MayCall(t) ==
  /\ op[t] = Idle /\ pc \notin {"visit", "deliver"}
  /\ t = Poll => InCallback

\* Users do not free a filter twice, and one thread at a time administers a
\* channel.
NotBeingFreed(f) == \A t \in Threads : op[t].call \in {"free", "sleep"} => op[t].arg # f
NotInUse(c) ==
  \A t \in Threads : op[t].call \in {"chfree", "pid", "register"} => op[t].arg # c

FiltersOf(c) == {f \in Filters : flt[f].status # "none" /\ flt[f].ch = c}

\* A finished call of t.
Acts(t) == actor' = t /\ UNCHANGED pollVars

AllocateFilter(t, c) ==
  LET free == {f \in Filters : flt[f].status = "none"} IN
  /\ MayCall(t) /\ NotInUse(c) /\ ch[c].status # "none"
  /\ allocs < MaxAlloc /\ allocs' = allocs + 1
  /\ \E f \in free :
       /\ \A g \in free : f <= g
       /\ flt' = [flt EXCEPT ![f].status = "disable", ![f].ch = c,
                             ![f].pos = allocs + 1]
  /\ Acts(t) /\ UNCHANGED <<ch, bits, interest, op, served>>

\* alisldmx_set_filter, alisldmx_set_filter_crc_check: the pattern and the
\* CRC are in the choice of a hit.
SetFilter(t, f, continuous) ==
  /\ MayCall(t) /\ NotBeingFreed(f) /\ flt[f].status # "none"
  /\ flt' = [flt EXCEPT ![f].continuous = continuous]
  /\ Acts(t) /\ UNCHANGED <<ch, allocs, bits, interest, op, served>>

RegisterFilterCallback(t, f, callback) ==
  /\ MayCall(t) /\ NotBeingFreed(f) /\ flt[f].status # "none"
  /\ flt' = [flt EXCEPT ![f].cb = callback]
  /\ Acts(t) /\ UNCHANGED <<ch, allocs, bits, interest, op, served>>

ControlFilter(t, f, status) ==
  /\ MayCall(t) /\ NotBeingFreed(f) /\ flt[f].status # "none"
  /\ flt' = [flt EXCEPT ![f].status = status]
  /\ served' = IF status = "disable" THEN served \ {f} ELSE served
  /\ Acts(t) /\ UNCHANGED <<ch, allocs, bits, interest, op>>

\* list_del and memset.
Remove(S) ==
  /\ flt' = [f \in Filters |-> IF f \in S THEN ZeroFilter ELSE flt[f]]
  /\ served' = served \ S

\* Slip: wait_close is set, and the filter is removed at once.
FreeCheckAtOnce(t, f) ==
  /\ Remove({f}) /\ op' = [op EXCEPT ![t] = Idle]

\* "We do not close filter actually until flag of this filter is not CB",
\* unless the caller is the poll thread.
FreeCheck(t, f) ==
  IF t # Poll /\ flt[f].flag = "cb"
  THEN /\ flt' = [flt EXCEPT ![f].wait_close = TRUE]
       /\ op' = [op EXCEPT ![t] = [call |-> "sleep", arg |-> f]]
       /\ UNCHANGED served
  ELSE Remove({f}) /\ op' = [op EXCEPT ![t] = Idle]

FreeFilter(t, f) ==
  /\ MayCall(t) /\ NotBeingFreed(f) /\ flt[f].status # "none"
  /\ FreeCheck(t, f)
  /\ Acts(t) /\ UNCHANGED <<ch, allocs, bits, interest>>

\* usleep(1000) is over.
FreeWakes(t) ==
  /\ op[t].call = "sleep" /\ op' = [op EXCEPT ![t].call = "free"]
  /\ Acts(t) /\ UNCHANGED <<flt, ch, allocs, bits, interest, served>>

FreeAgain(t) ==
  /\ op[t].call = "free" /\ pc \notin {"visit", "deliver"}
  /\ FreeCheck(t, op[t].arg)
  /\ Acts(t) /\ UNCHANGED <<ch, allocs, bits, interest>>

\* A thread of the application calls it on a channel with filters only if
\* FreeAll; nobody else is freeing one of them.
MayFreeAll(t, c) ==
  /\ t # Poll /\ ~FreeAll => FiltersOf(c) = {}
  /\ \A f \in FiltersOf(c) : NotBeingFreed(f)

\* alisldmx_free_filter_all: it does not look at flag.
FreeFilterAll(t, c) ==
  /\ MayCall(t) /\ NotInUse(c) /\ ch[c].status # "none" /\ MayFreeAll(t, c)
  /\ Remove(FiltersOf(c))
  /\ Acts(t) /\ UNCHANGED <<ch, allocs, bits, interest, op>>

AllocateChannel(t) ==
  LET free == {c \in Channels : ch[c].status = "none"} IN
  /\ MayCall(t)
  /\ \E c \in free :
       /\ \A d \in free : c <= d
       /\ ch' = [ch EXCEPT ![c].status = "disable"]
       /\ bits' = bits \ {c}
  /\ Acts(t) /\ UNCHANGED <<flt, allocs, interest, op, served>>

\* alisldmx_free_channel frees the filters, releases the mutex...
FreeChannel(t, c) ==
  /\ MayCall(t) /\ NotInUse(c) /\ ch[c].status # "none" /\ MayFreeAll(t, c)
  /\ Remove(FiltersOf(c))
  /\ op' = [op EXCEPT ![t] = [call |-> "chfree", arg |-> c]]
  /\ Acts(t) /\ UNCHANGED <<ch, allocs, bits, interest>>

\* ... and takes it again: close(ch->fd) also leaves the epoll set.
FreeChannelEnd(t) ==
  LET c == op[t].arg IN
  /\ op[t].call = "chfree" /\ pc \notin {"visit", "deliver"}
  /\ ch' = [ch EXCEPT ![c] = ZeroChannel]
  /\ interest' = interest \ {c} /\ op' = [op EXCEPT ![t] = Idle]
  /\ Acts(t) /\ UNCHANGED <<flt, allocs, bits, served>>

\* channel_start up to the unlock; without a pid it is refused.
ChannelStart(t, c) ==
  /\ MayCall(t) /\ NotInUse(c) /\ ch[c].status = "disable" /\ ch[c].pid
  /\ ch' = [ch EXCEPT ![c].status = "enable"]
  /\ op' = [op EXCEPT ![t] = [call |-> "register", arg |-> c]]
  /\ Acts(t) /\ UNCHANGED <<flt, allocs, bits, interest, served>>

\* alisldmx_poll_register.
PollRegister(t) ==
  /\ op[t].call = "register"
  /\ interest' = interest \cup {op[t].arg} /\ op' = [op EXCEPT ![t] = Idle]
  /\ Acts(t) /\ UNCHANGED <<flt, ch, allocs, bits, served>>

ChannelStop(t, c) ==
  /\ MayCall(t) /\ NotInUse(c) /\ ch[c].status = "enable"
  /\ ch' = [ch EXCEPT ![c].status = "disable"]
  /\ interest' = interest \ {c}
  /\ Acts(t) /\ UNCHANGED <<flt, allocs, bits, op, served>>

\* alisldmx_set_channel_pidlist: a running channel is stopped...
SetChannelPidlist(t, c) ==
  /\ MayCall(t) /\ NotInUse(c) /\ ch[c].status # "none"
  /\ \/ /\ ch[c].status = "disable" /\ ch' = [ch EXCEPT ![c].pid = TRUE]
        /\ UNCHANGED <<interest, op>>
     \/ /\ ch[c].status = "enable"
        /\ ch' = [ch EXCEPT ![c].status = "disable"]
        /\ interest' = interest \ {c}
        /\ op' = [op EXCEPT ![t] = [call |-> "pid", arg |-> c]]
  /\ Acts(t) /\ UNCHANGED <<flt, allocs, bits, served>>

\* ... and started again.
PidRestart(t) ==
  /\ op[t].call = "pid" /\ pc \notin {"visit", "deliver"}
  /\ ch' = [ch EXCEPT ![op[t].arg].status = "enable",
                      ![op[t].arg].pid = TRUE]
  /\ op' = [op EXCEPT ![t].call = "register"]
  /\ Acts(t) /\ UNCHANGED <<flt, allocs, bits, interest, served>>

\* alisldmx_section_request_poll returns with the bits and clears them.
SectionRequestPoll(t) ==
  /\ MayCall(t) /\ bits # {} /\ bits' = {}
  /\ Acts(t) /\ UNCHANGED <<flt, ch, allocs, interest, op, served>>

\* The rest of a call that released the mutex.
CallRest(t) == FreeChannelEnd(t) \/ PollRegister(t) \/ PidRestart(t)

ChannelCall(t) ==
  \/ CallRest(t) \/ AllocateChannel(t) \/ SectionRequestPoll(t)
  \/ \E c \in Channels : \/ AllocateFilter(t, c) \/ FreeFilterAll(t, c)
                         \/ FreeChannel(t, c) \/ ChannelStart(t, c)
                         \/ ChannelStop(t, c) \/ SetChannelPidlist(t, c)

FilterCall(t) ==
  \/ FreeWakes(t) \/ FreeAgain(t)
  \/ \E f \in Filters :
       \/ FreeFilter(t, f)
       \/ \E continuous \in BOOLEAN : SetFilter(t, f, continuous)
       \/ \E callback \in Callbacks : RegisterFilterCallback(t, f, callback)
       \/ \E status \in {"enable", "disable"} : ControlFilter(t, f, status)
-----------------------------------------------------------------------------
(* The poll thread.                                                        *)

\* The filter of channel c after place p of its list; 0 is the list head.
After(c, p) ==
  LET rest == {f \in FiltersOf(c) : flt[f].pos > p} IN
  IF rest = {} THEN 0
  ELSE CHOOSE f \in rest : \A g \in rest : flt[f].pos <= flt[g].pos

NextFilter == After(dch, flt[cur].pos)

\* epoll_wait returns events.
PollWait ==
  /\ pc = "wait" /\ pc' = "next"
  /\ todo' \in SUBSET interest \ {{}}
  /\ UNCHANGED <<flt, ch, allocs, bits, interest, dch, cur, op, served, actor>>

PollNext ==
  /\ pc = "next" /\ todo = {} /\ pc' = "wait"
  /\ UNCHANGED <<flt, ch, allocs, bits, interest, todo, dch, cur, op, served, actor>>

\* The channel was stopped or freed since epoll_wait, or there is no data.
DispatchQuit(c) ==
  /\ pc = "next" /\ c \in todo /\ todo' = todo \ {c}
  /\ UNCHANGED <<flt, ch, allocs, bits, interest, pc, dch, cur, op, served, actor>>

\* section_dispatch reads a section into dev->section_buffer.  It looks at the
\* status of the channel, not at whether its fd is still polled.
DispatchRead(c) ==
  /\ pc = "next" /\ c \in todo /\ todo' = todo \ {c}
  /\ ch[c].status = "enable"
  /\ flt' = [f \in Filters |-> IF f \in FiltersOf(c)
                               THEN [flt[f] EXCEPT !.access = FALSE] ELSE flt[f]]
  /\ dch' = c /\ cur' = After(c, 0) /\ pc' = "visit" /\ served' = {}
  /\ UNCHANGED <<ch, allocs, bits, interest, op, actor>>

\* section_dispatch returns.
Return == pc' = "next" /\ dch' = 0 /\ cur' = 0 /\ served' = {}

VisitEnd ==
  /\ pc = "visit" /\ cur = 0 /\ Return
  /\ UNCHANGED <<flt, ch, allocs, bits, interest, todo, op, actor>>

\* Slip: a filter about to be closed is still served.
PassesClosing(f) == flt[f].status # "enable" \/ flt[f].access

\* Slip: access is not looked at when the list is walked again.
PassesNoAccess(f) == flt[f].status # "enable" \/ flt[f].wait_close

\* "filter is going to be closed, so we should not call its callback"
Passes(f) == flt[f].status # "enable" \/ flt[f].access \/ flt[f].wait_close

VisitPass ==
  /\ pc = "visit" /\ cur # 0 /\ Passes(cur) /\ cur' = NextFilter
  /\ UNCHANGED <<flt, ch, allocs, bits, interest, pc, todo, dch, op, served, actor>>

\* section_hit or the CRC refuses the section.
VisitMiss ==
  /\ pc = "visit" /\ cur # 0 /\ ~Passes(cur) /\ cur' = NextFilter
  /\ flt' = [flt EXCEPT ![cur].access = TRUE]
  /\ UNCHANGED <<ch, allocs, bits, interest, pc, todo, dch, op, served, actor>>

\* flag and both session ids are set, then the mutex is released.
Call(state) ==
  /\ flt' = [flt EXCEPT ![cur].flag = "cb", ![cur].session = TRUE]
  /\ ch' = [ch EXCEPT ![dch].session = TRUE]
  /\ pc' = state

VisitHit ==
  /\ pc = "visit" /\ cur # 0 /\ ~Passes(cur)
  /\ IF "req" \in flt[cur].cb THEN Call("request")
                              ELSE pc' = "deliver" /\ UNCHANGED <<flt, ch>>
  /\ UNCHANGED <<allocs, bits, interest, todo, dch, cur, op, served, actor>>

\* The callback returns and flag is written before the mutex is taken.
CallbackReturn ==
  /\ InCallback /\ op[Poll] = Idle
  /\ pc' = IF pc = "request" THEN "requested" ELSE "updated"
  /\ flt' = [flt EXCEPT ![cur].flag = "dispatch"]
  /\ UNCHANGED <<ch, allocs, bits, interest, todo, dch, cur, op, served, actor>>

\* "channel is dead", "channel is changed"
RecheckQuits == ch[dch].status # "enable" \/ ~ch[dch].session

RecheckQuit ==
  /\ pc \in {"requested", "updated"} /\ RecheckQuits /\ Return
  /\ UNCHANGED <<flt, ch, allocs, bits, interest, todo, op, actor>>

\* Slip: another filter in the slot is taken for the one it was.
LostNextSame == IF flt[cur].session THEN NextFilter ELSE cur

\* Where the walk goes on when the filter was stopped or freed: after a
\* stopped one; from the list head if it is another allocation by now.
LostNext == IF flt[cur].session THEN NextFilter ELSE After(dch, 0)

\* The session id of the filter it goes on with is cleared.  If that is the list
\* head there is no such filter and the write lands behind the channel: where
\* pointers have 32 bits, in ch_param of the next element of dev->ch_sections, which
\* is not kept here.
RecheckLost ==
  /\ pc \in {"requested", "updated"} /\ ~RecheckQuits
  /\ ~flt[cur].session \/ flt[cur].status # "enable"
  /\ cur' = LostNext /\ pc' = "visit"
  /\ flt' = [f \in Filters |-> IF f = cur' THEN [flt[f] EXCEPT !.session = FALSE]
                               ELSE flt[f]]
  /\ ch' = [ch EXCEPT ![dch].session = FALSE]
  /\ UNCHANGED <<allocs, bits, interest, todo, dch, op, served, actor>>

\* The filter is as it was: the section is copied into the user's buffer, or
\* there is no proper buffer.
RecheckRequested ==
  /\ pc = "requested" /\ ~RecheckQuits
  /\ flt[cur].session /\ flt[cur].status = "enable"
  /\ ch' = [ch EXCEPT ![dch].session = FALSE]
  /\ \/ pc' = "deliver" /\ UNCHANGED cur
     \/ pc' = "visit" /\ cur' = NextFilter
  /\ UNCHANGED <<flt, allocs, bits, interest, todo, dch, op, served, actor>>

\* Slip: the bit that is set is that of the filter, not of the channel.
FinishFilterBit ==
  /\ flt' = [flt EXCEPT ![cur].access = TRUE]
  /\ bits' = bits \cup {cur}
  /\ cur' = NextFilter /\ pc' = "visit"

\* The end of the loop body: a filter that is not continuous is disabled.
Finish ==
  LET oneShot == ~flt[cur].continuous IN
  /\ flt' = [flt EXCEPT ![cur].access = TRUE,
                        ![cur].status = IF oneShot THEN "disable" ELSE @]
  /\ bits' = IF oneShot THEN bits \cup {dch} ELSE bits
  /\ cur' = NextFilter /\ pc' = "visit"

Deliver ==
  /\ pc = "deliver"
  /\ IF "upd" \in flt[cur].cb
     THEN Call("update") /\ served' = served \cup {cur} /\ UNCHANGED <<bits, cur>>
     ELSE Finish /\ UNCHANGED <<ch, served>>
  /\ UNCHANGED <<allocs, interest, todo, dch, op, actor>>

RecheckUpdated ==
  /\ pc = "updated" /\ ~RecheckQuits
  /\ flt[cur].session /\ flt[cur].status = "enable"
  /\ Finish /\ ch' = [ch EXCEPT ![dch].session = FALSE]
  /\ served' = IF flt[cur].continuous THEN served ELSE served \ {cur}
  /\ UNCHANGED <<allocs, interest, todo, dch, op, actor>>

\* What the poll thread does once epoll_wait has returned.
Dispatch ==
  \/ PollNext \/ \E c \in Channels : DispatchQuit(c) \/ DispatchRead(c)
  \/ VisitEnd \/ VisitPass \/ VisitMiss \/ VisitHit \/ CallbackReturn
  \/ RecheckQuit \/ RecheckLost \/ RecheckRequested \/ Deliver \/ RecheckUpdated
-----------------------------------------------------------------------------
Next == \/ PollWait \/ Dispatch
        \/ \E t \in Threads : ChannelCall(t) \/ FilterCall(t)

Spec == Init /\ [][Next]_vars

\* The poll thread is scheduled and callbacks return; a thread that waits for
\* sect_mutex gets it in the end, since the poll thread releases it for every
\* callback and every epoll_wait.
FairSpec ==
  /\ Spec /\ WF_vars(Dispatch)
  /\ SF_vars(CallbackReturn) /\ WF_vars(CallRest(Poll))
  /\ \A u \in Users : WF_vars(FreeWakes(u)) /\ SF_vars(FreeAgain(u))
-----------------------------------------------------------------------------
(* Properties.                                                             *)

Filter == INSTANCE DmxFilter WITH
  life <- [f \in Filters |-> CASE flt[f].status = "none" -> "free"
                               [] flt[f].status = "disable" -> "idle"
                               [] flt[f].status = "enable" -> "armed"],
  busy <- [f \in Filters |-> IF ~InCallback \/ f # cur THEN "no"
                             ELSE IF flt[f].session THEN "own" ELSE "stale"]

\* The poll thread with its flags and session ids keeps what DmxFilter promises
\* the owner of a filter: a callback only on an enabled filter, and no filter
\* freed by another thread while its callback runs.
FilterPromise == Filter!Spec

\* While section_dispatch holds the mutex its filter is in the list of the
\* channel it dispatches, whatever the callbacks and the users freed and
\* allocated while it was released.
CursorOnList ==
  pc \in {"visit", "deliver"} /\ cur # 0 =>
    flt[cur].status # "none" /\ flt[cur].ch = dch /\ ch[dch].status = "enable"

\* "don't want to process them again": although the list is walked from its
\* head again when a filter was freed, no filter that stayed enabled is given
\* the same section twice.
OncePerSection == [][pc' = "update" /\ pc # "update" => cur' \notin served]_vars

\* alisldmx_free_filter, blocked by the callback of its filter, returns, however
\* often sections arrive: that is what wait_close is for.
FreeEnds == \A u \in Users : op[u].call \in {"free", "sleep"} ~> op[u] = Idle
=============================================================================
