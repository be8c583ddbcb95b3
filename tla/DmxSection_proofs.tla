-------------------------- MODULE DmxSection_proofs -------------------------
(***************************************************************************)
(* The section filters, proved for any number of channels, filters,        *)
(* allocations and threads: the walk of section_dispatch stays on its      *)
(* list, no filter is given a section twice, the code implements           *)
(* DmxFilter as long as users free the filters of a channel before the     *)
(* channel, and alisldmx_free_filter waits for two callbacks at most.      *)
(***************************************************************************)
EXTENDS DmxSection, WellFoundedInduction, TLAPS

\* What a thread in the middle of a call works on.
OpArgs ==
  \A t \in Threads :
    /\ op[t].call \in {"free", "sleep"} => op[t].arg \in Filters
    /\ op[t].call \in {"chfree", "pid", "register"} => op[t].arg \in Channels

\* A slot that is free has no session: what is allocated in it later is not
\* taken for the filter whose callback ran.
SessionInv == \A f \in Filters : flt[f].session => flt[f].status # "none"

\* Where the poll thread stands while it dispatches a section.
CursorInv ==
  /\ pc \notin {"wait", "next"} => dch \in Channels
  /\ pc \in {"request", "requested", "deliver", "update", "updated"} => cur \in Filters
  /\ pc = "deliver" => flt[cur].status = "enable"
  /\ pc \in {"request", "requested", "update", "updated"} /\ flt[cur].session =>
       flt[cur].ch = dch
  /\ InCallback /\ flt[cur].session => flt[cur].flag = "cb"

\* A filter that was given the section and stayed enabled is marked by access,
\* or by its session while its callback runs.
ServedInv ==
  /\ \A f \in served :
       /\ flt[f].status = "enable"
       /\ \/ flt[f].access
          \/ f = cur /\ pc \in {"update", "updated"} /\ flt[f].session
  /\ pc \in {"request", "requested", "deliver"} => ~flt[cur].access

\* TypeOK in parts.
FltType == flt \in [Filters -> FilterRec]
ChType == ch \in [Channels -> ChannelRec]
OpType == op \in [Threads -> OpRec]
ListType ==
  /\ allocs \in Nat /\ bits \subseteq Channels /\ interest \subseteq Channels
  /\ served \subseteq Filters /\ actor \in Threads
PollType ==
  /\ pc \in {"wait", "next", "visit", "request", "requested", "deliver",
             "update", "updated"}
  /\ todo \subseteq Channels /\ dch \in 0..NC /\ cur \in 0..NF

Types == FltType /\ ChType /\ OpType /\ ListType /\ PollType

LEMMA TypeParts == TypeOK <=> Types
  BY DEF TypeOK, Types, FltType, ChType, OpType, ListType, PollType

IInv == Types /\ OpArgs /\ SessionInv /\ CursorInv /\ CursorOnList /\ ServedInv

\* Records with a field replaced.
LEMMA ChannelFields ==
  ASSUME NEW r \in ChannelRec, NEW s \in {"none", "disable", "enable"}, NEW b \in BOOLEAN
  PROVE /\ [r EXCEPT !.status = s] \in ChannelRec
        /\ [r EXCEPT !.pid = TRUE] \in ChannelRec
        /\ [r EXCEPT !.status = s, !.pid = TRUE] \in ChannelRec
        /\ [r EXCEPT !.session = b] \in ChannelRec
        /\ [r EXCEPT !.session = b].status = r.status
        /\ ZeroChannel \in ChannelRec
  BY Zenon DEF ChannelRec, ZeroChannel

LEMMA FilterFields ==
  ASSUME NEW r \in FilterRec
  PROVE /\ \A s \in {"none", "disable", "enable"} : [r EXCEPT !.status = s] \in FilterRec
        /\ \A c \in 0..NC, p \in Nat :
             [r EXCEPT !.status = "disable", !.ch = c, !.pos = p] \in FilterRec
        /\ \A b \in BOOLEAN : [r EXCEPT !.continuous = b] \in FilterRec
        /\ \A k \in SUBSET {"req", "upd"} : [r EXCEPT !.cb = k] \in FilterRec
        /\ [r EXCEPT !.wait_close = TRUE] \in FilterRec
        /\ \A b \in BOOLEAN : [r EXCEPT !.access = b] \in FilterRec
        /\ \A s \in {"none", "disable", "enable"} :
             [r EXCEPT !.access = TRUE, !.status = s] \in FilterRec
        /\ [r EXCEPT !.flag = "dispatch"] \in FilterRec
        /\ [r EXCEPT !.session = FALSE] \in FilterRec
        /\ [r EXCEPT !.flag = "cb", !.session = TRUE] \in FilterRec
  BY Zenon DEF FilterRec

LEMMA ZeroFilterType == ZeroFilter \in FilterRec
<1>1. 0 \in 0..NC /\ 0 \in Nat
  BY SectionAssumption
<1> QED
  BY <1>1, Zenon DEF FilterRec, ZeroFilter

-----------------------------------------------------------------------------
(* The list of a channel.                                                  *)

LEMMA LeastNat ==
  ASSUME NEW S, S \subseteq Nat, S # {}
  PROVE \E n \in S : \A m \in S : n <= m
<1> DEFINE Less == {ss \in Nat \X Nat : ss[1] < ss[2]}
<1>1. IsWellFoundedOn(Less, Nat)
  BY NatLessThanWellFounded DEF OpToRel
<1> HIDE DEF Less
<1>2. PICK n \in S : \A m \in S : <<m, n>> \notin Less
  BY <1>1, WFMin
<1>3. \A m \in S : ~(m < n)
  BY <1>2 DEF Less
<1> QED
  BY <1>2, <1>3

\* After finds the next filter of the channel or the head of its list.
LEMMA AfterOnList ==
  ASSUME FltType, NEW c, NEW p
  PROVE After(c, p) = 0 \/ After(c, p) \in FiltersOf(c)
<1> DEFINE rest == {f \in FiltersOf(c) : flt[f].pos > p}
           places == {flt[f].pos : f \in rest}
<1>1. CASE rest = {}
  BY <1>1 DEF After
<1>2. CASE rest # {}
  <2>1. places \subseteq Nat /\ places # {}
    BY <1>2 DEF FltType, FiltersOf, FilterRec
  <2>2. PICK n \in places : \A m \in places : n <= m
    BY <2>1, LeastNat
  <2>3. \E f \in rest : \A g \in rest : flt[f].pos <= flt[g].pos
    BY <2>2
  <2>4. (CHOOSE f \in rest : \A g \in rest : flt[f].pos <= flt[g].pos) \in rest
    BY <2>3
  <2> QED
    BY <1>2, <2>4 DEF After
<1> QED
  BY <1>1, <1>2

-----------------------------------------------------------------------------
(* The calls.                                                              *)

\* A call that changes no filter leaves the walk alone.
LEMMA KeepsWalk ==
  ASSUME SessionInv, CursorInv, CursorOnList, ServedInv,
         UNCHANGED <<flt, served, pollVars>>,
         pc \notin {"visit", "deliver"} \/ UNCHANGED ch
  PROVE SessionInv' /\ CursorInv' /\ CursorOnList' /\ ServedInv'
  BY DEF SessionInv, CursorInv, CursorOnList, ServedInv, pollVars, InCallback

\* The calls that change no filter.
LEMMA PlainCallInv ==
  ASSUME IInv, NEW t \in Threads,
         \/ CallRest(t) \/ AllocateChannel(t) \/ SectionRequestPoll(t) \/ FreeWakes(t)
         \/ \E c \in Channels : \/ ChannelStart(t, c) \/ ChannelStop(t, c)
                                \/ SetChannelPidlist(t, c)
  PROVE IInv'
<1> USE SectionAssumption DEF IInv, Acts, Types
<1>1. CASE AllocateChannel(t)
  <2>1. ChType'
    BY <1>1 DEF AllocateChannel, ChType, ChannelRec, ZeroChannel
  <2>2. OpType' /\ OpArgs'
    BY <1>1 DEF AllocateChannel, MayCall, OpType, OpRec, Idle, OpArgs, Channels
  <2>3. FltType' /\ ListType' /\ PollType'
    BY <1>1 DEF AllocateChannel, FltType, ListType, PollType, OpArgs, pollVars
  <2> QED
    BY <1>1, <2>1, <2>2, <2>3, KeepsWalk DEF AllocateChannel, MayCall
<1>2. CASE SectionRequestPoll(t)
  <2>1. ChType'
    BY <1>2 DEF SectionRequestPoll, ChType, ChannelRec, ZeroChannel
  <2>2. OpType' /\ OpArgs'
    BY <1>2 DEF SectionRequestPoll, MayCall, OpType, OpRec, Idle, OpArgs, Channels
  <2>3. FltType' /\ ListType' /\ PollType'
    BY <1>2 DEF SectionRequestPoll, FltType, ListType, PollType, OpArgs, pollVars
  <2> QED
    BY <1>2, <2>1, <2>2, <2>3, KeepsWalk DEF SectionRequestPoll, MayCall
<1>3. CASE FreeChannelEnd(t)
  <2>1. ChType'
    BY <1>3 DEF FreeChannelEnd, ChType, ChannelRec, ZeroChannel
  <2>2. OpType' /\ OpArgs'
    BY <1>3 DEF FreeChannelEnd, MayCall, OpType, OpRec, Idle, OpArgs, Channels
  <2>3. FltType' /\ ListType' /\ PollType'
    BY <1>3 DEF FreeChannelEnd, FltType, ListType, PollType, OpArgs, pollVars
  <2> QED
    BY <1>3, <2>1, <2>2, <2>3, KeepsWalk DEF FreeChannelEnd, MayCall
<1>4. CASE PollRegister(t)
  <2>1. ChType'
    BY <1>4 DEF PollRegister, ChType, ChannelRec, ZeroChannel
  <2>2. OpType' /\ OpArgs'
    BY <1>4 DEF PollRegister, MayCall, OpType, OpRec, Idle, OpArgs, Channels
  <2>3. FltType' /\ ListType' /\ PollType'
    BY <1>4 DEF PollRegister, FltType, ListType, PollType, OpArgs, pollVars
  <2> QED
    BY <1>4, <2>1, <2>2, <2>3, KeepsWalk DEF PollRegister, MayCall
<1>5. CASE PidRestart(t)
  <2>1. ChType'
    BY <1>5, ChannelFields DEF PidRestart, ChType, OpArgs
  <2>2. OpType' /\ OpArgs'
    BY <1>5 DEF PidRestart, MayCall, OpType, OpRec, Idle, OpArgs, Channels
  <2>3. FltType' /\ ListType' /\ PollType'
    BY <1>5 DEF PidRestart, FltType, ListType, PollType, OpArgs, pollVars
  <2> QED
    BY <1>5, <2>1, <2>2, <2>3, KeepsWalk DEF PidRestart, MayCall
<1>6. CASE FreeWakes(t)
  <2>1. ChType'
    BY <1>6 DEF FreeWakes, ChType, ChannelRec, ZeroChannel
  <2>2. OpType' /\ OpArgs'
    BY <1>6 DEF FreeWakes, MayCall, OpType, OpRec, Idle, OpArgs, Channels
  <2>3. FltType' /\ ListType' /\ PollType'
    BY <1>6 DEF FreeWakes, FltType, ListType, PollType, OpArgs, pollVars
  <2> QED
    BY <1>6, <2>1, <2>2, <2>3, KeepsWalk DEF FreeWakes, MayCall
<1>7. ASSUME NEW c \in Channels, ChannelStart(t, c) PROVE IInv'
  <2>1. ChType'
    BY <1>7 DEF ChannelStart, ChType, ChannelRec, ZeroChannel
  <2>2. OpType' /\ OpArgs'
    BY <1>7 DEF ChannelStart, MayCall, OpType, OpRec, Idle, OpArgs, Channels
  <2>3. FltType' /\ ListType' /\ PollType'
    BY <1>7 DEF ChannelStart, FltType, ListType, PollType, OpArgs, pollVars
  <2> QED
    BY <1>7, <2>1, <2>2, <2>3, KeepsWalk DEF ChannelStart, MayCall
<1>8. ASSUME NEW c \in Channels, ChannelStop(t, c) PROVE IInv'
  <2>1. ChType'
    BY <1>8 DEF ChannelStop, ChType, ChannelRec, ZeroChannel
  <2>2. OpType' /\ OpArgs'
    BY <1>8 DEF ChannelStop, MayCall, OpType, OpRec, Idle, OpArgs, Channels
  <2>3. FltType' /\ ListType' /\ PollType'
    BY <1>8 DEF ChannelStop, FltType, ListType, PollType, OpArgs, pollVars
  <2> QED
    BY <1>8, <2>1, <2>2, <2>3, KeepsWalk DEF ChannelStop, MayCall
<1>9. ASSUME NEW c \in Channels, SetChannelPidlist(t, c) PROVE IInv'
  <2>1. ChType'
    <3>1. ch[c] \in ChannelRec
      BY DEF ChType
    <3>2. \/ ch' = [ch EXCEPT ![c] = [ch[c] EXCEPT !.pid = TRUE]]
          \/ ch' = [ch EXCEPT ![c] = [ch[c] EXCEPT !.status = "disable"]]
      BY <1>9 DEF SetChannelPidlist
    <3> QED
      BY <3>1, <3>2, ChannelFields DEF ChType
  <2>2. OpType' /\ OpArgs'
    BY <1>9 DEF SetChannelPidlist, MayCall, OpType, OpRec, Idle, OpArgs, Channels
  <2>3. FltType' /\ ListType' /\ PollType'
    BY <1>9 DEF SetChannelPidlist, FltType, ListType, PollType, OpArgs, pollVars
  <2> QED
    BY <1>9, <2>1, <2>2, <2>3, KeepsWalk DEF SetChannelPidlist, MayCall
<1> QED
  BY <1>1, <1>2, <1>3, <1>4, <1>5, <1>6, <1>7, <1>8, <1>9 DEF CallRest

\* The calls that change one filter.
LEMMA FilterUpdateInv ==
  ASSUME IInv, NEW t \in Threads, NEW f \in Filters,
         \/ \E c \in Channels : AllocateFilter(t, c)
         \/ \E continuous \in BOOLEAN : SetFilter(t, f, continuous)
         \/ \E callback \in Callbacks : RegisterFilterCallback(t, f, callback)
         \/ \E status \in {"enable", "disable"} : ControlFilter(t, f, status)
  PROVE IInv'
<1> USE SectionAssumption DEF IInv, Acts, Types, MayCall
<1>0. flt[f] \in FilterRec
  BY DEF FltType
<1>1. ASSUME NEW c \in Channels, AllocateFilter(t, c) PROVE IInv'
  <2>0. PICK g \in Filters :
          /\ flt[g].status = "none"
          /\ flt' = [flt EXCEPT ![g].status = "disable", ![g].ch = c, ![g].pos = allocs + 1]
    BY <1>1 DEF AllocateFilter
  <2>1. FltType'
    <3>1. flt[g] \in FilterRec /\ c \in 0..NC /\ allocs + 1 \in Nat
      BY <2>0 DEF FltType, ListType, Channels
    <3>2. [flt[g] EXCEPT !.status = "disable", !.ch = c, !.pos = allocs + 1] \in FilterRec
      BY <3>1, FilterFields
    <3> QED
      BY <2>0, <3>2 DEF FltType
  <2>2. /\ allocs' = allocs + 1 /\ actor' = t
        /\ UNCHANGED <<ch, bits, interest, op, served, pollVars>>
        /\ pc \notin {"visit", "deliver"}
    BY <1>1 DEF AllocateFilter
  <2>3. ChType' /\ OpType' /\ OpArgs'
    BY <2>2 DEF ChType, OpType, OpArgs
  <2>4. ListType' /\ PollType'
    BY <2>2 DEF ListType, PollType, pollVars
  <2>5. /\ \A h \in Filters : /\ flt'[h].session <=> flt[h].session
                              /\ flt'[h].access <=> flt[h].access
                              /\ flt'[h].flag = flt[h].flag
                              /\ h # g => flt'[h] = flt[h]
        /\ flt[g].status = "none" /\ flt'[g].status = "disable"
    BY <2>0 DEF FltType, FilterRec
  <2>6. SessionInv'
    BY <2>5 DEF SessionInv
  <2>7. CursorInv'
    BY <2>2, <2>5 DEF CursorInv, SessionInv, InCallback, pollVars
  <2>8. CursorOnList'
    BY <2>2 DEF CursorOnList, pollVars
  <2>9. ServedInv'
    BY <2>2, <2>5 DEF ServedInv, CursorInv, ListType, pollVars
  <2> QED
    BY <2>1, <2>3, <2>4, <2>6, <2>7, <2>8, <2>9
<1>2. ASSUME NEW continuous \in BOOLEAN, SetFilter(t, f, continuous) PROVE IInv'
  <2>0. flt' = [flt EXCEPT ![f] = [flt[f] EXCEPT !.continuous = continuous]]
    BY <1>2 DEF SetFilter
  <2>1. FltType'
    <3>1. [flt[f] EXCEPT !.continuous = continuous] \in FilterRec
      BY <1>0, <1>2, FilterFields
    <3> QED
      BY <2>0, <3>1 DEF FltType
  <2>2. ChType' /\ OpType' /\ OpArgs' /\ ListType' /\ PollType'
    BY <1>2 DEF SetFilter, ChType, OpType, OpArgs, ListType, PollType, pollVars
  <2>3. SessionInv' /\ CursorInv' /\ CursorOnList' /\ ServedInv'
    BY <1>2, <2>0 DEF SetFilter, SessionInv, CursorInv, CursorOnList, ServedInv, InCallback, pollVars, FltType, ListType
  <2> QED
    BY <2>1, <2>2, <2>3
<1>3. ASSUME NEW callback \in Callbacks, RegisterFilterCallback(t, f, callback) PROVE IInv'
  <2>0. flt' = [flt EXCEPT ![f] = [flt[f] EXCEPT !.cb = callback]]
    BY <1>3 DEF RegisterFilterCallback
  <2>1. FltType'
    <3>1. [flt[f] EXCEPT !.cb = callback] \in FilterRec
      BY <1>0, <1>3, FilterFields
    <3> QED
      BY <2>0, <3>1 DEF FltType
  <2>2. ChType' /\ OpType' /\ OpArgs' /\ ListType' /\ PollType'
    BY <1>3 DEF RegisterFilterCallback, ChType, OpType, OpArgs, ListType, PollType, pollVars
  <2>3. SessionInv' /\ CursorInv' /\ CursorOnList' /\ ServedInv'
    BY <1>3, <2>0 DEF RegisterFilterCallback, SessionInv, CursorInv, CursorOnList, ServedInv, InCallback, pollVars, FltType, ListType
  <2> QED
    BY <2>1, <2>2, <2>3
<1>4. ASSUME NEW status \in {"enable", "disable"}, ControlFilter(t, f, status) PROVE IInv'
  <2>0. flt' = [flt EXCEPT ![f] = [flt[f] EXCEPT !.status = status]]
    BY <1>4 DEF ControlFilter
  <2>1. FltType'
    <3>1. [flt[f] EXCEPT !.status = status] \in FilterRec
      BY <1>0, <1>4, FilterFields
    <3> QED
      BY <2>0, <3>1 DEF FltType
  <2>2. ChType' /\ OpType' /\ OpArgs' /\ ListType' /\ PollType'
    BY <1>4 DEF ControlFilter, ChType, OpType, OpArgs, ListType, PollType, pollVars
  <2>3. SessionInv' /\ CursorInv' /\ CursorOnList' /\ ServedInv'
    BY <1>4, <2>0 DEF ControlFilter, SessionInv, CursorInv, CursorOnList, ServedInv, InCallback, pollVars, FltType, ListType
  <2> QED
    BY <2>1, <2>2, <2>3
<1> QED
  BY <1>1, <1>2, <1>3, <1>4

\* list_del and memset of filters, in a call.
LEMMA RemoveInv ==
  ASSUME FltType, ListType, SessionInv, CursorInv, ServedInv,
         NEW S \in SUBSET Filters, Remove(S), UNCHANGED pollVars,
         pc \notin {"visit", "deliver"}
  PROVE FltType' /\ SessionInv' /\ CursorInv' /\ CursorOnList' /\ ServedInv'
<1>1. FltType'
  BY ZeroFilterType DEF Remove, FltType
<1>2. \A f \in Filters : flt'[f] = IF f \in S THEN ZeroFilter ELSE flt[f]
  BY DEF Remove
<1>3. ~ZeroFilter.session /\ ~ZeroFilter.access
  BY DEF ZeroFilter
<1>4. SessionInv'
  BY <1>2, <1>3 DEF SessionInv
<1>5. CursorInv'
  BY <1>2, <1>3 DEF CursorInv, pollVars, InCallback
<1>6. ServedInv'
  BY <1>2, <1>3 DEF ServedInv, CursorInv, ListType, Remove, pollVars
<1>7. CursorOnList'
  BY DEF CursorOnList, pollVars
<1> QED
  BY <1>1, <1>4, <1>5, <1>6, <1>7

\* The calls that free filters.
LEMMA FreeCheckInv ==
  ASSUME FltType, OpType, OpArgs, ListType, SessionInv, CursorInv, ServedInv,
         NEW t \in Threads, NEW f \in Filters, FreeCheck(t, f),
         UNCHANGED pollVars, pc \notin {"visit", "deliver"}
  PROVE /\ FltType' /\ OpType' /\ OpArgs' /\ served' \subseteq Filters
        /\ SessionInv' /\ CursorInv' /\ CursorOnList' /\ ServedInv'
<1>0. f \in Nat /\ flt[f] \in FilterRec
  BY SectionAssumption DEF Filters, FltType
<1>1. CASE t # Poll /\ flt[f].flag = "cb"
  <2>1. flt' = [flt EXCEPT ![f] = [flt[f] EXCEPT !.wait_close = TRUE]] /\ UNCHANGED served
    BY <1>1 DEF FreeCheck
  <2>2. FltType'
    <3>1. [flt[f] EXCEPT !.wait_close = TRUE] \in FilterRec
      BY <1>0, FilterFields
    <3> QED
      BY <2>1, <3>1 DEF FltType
  <2>3. OpType' /\ OpArgs'
    BY <1>0, <1>1 DEF FreeCheck, OpType, OpRec, OpArgs
  <2>4. SessionInv' /\ CursorInv' /\ CursorOnList' /\ ServedInv'
    BY <2>1 DEF SessionInv, CursorInv, CursorOnList, ServedInv, InCallback, pollVars,
       FltType, ListType
  <2> QED
    BY <2>1, <2>2, <2>3, <2>4 DEF ListType
<1>2. CASE ~(t # Poll /\ flt[f].flag = "cb")
  <2>1. Remove({f}) /\ op' = [op EXCEPT ![t] = Idle]
    BY <1>2 DEF FreeCheck
  <2>2. OpType' /\ OpArgs'
    BY <2>1 DEF OpType, OpRec, OpArgs, Idle
  <2> QED
    BY <2>1, <2>2, RemoveInv DEF Remove, ListType
<1> QED
  BY <1>1, <1>2

LEMMA FreeInv ==
  ASSUME IInv, NEW t \in Threads,
         \/ FreeAgain(t) \/ \E f \in Filters : FreeFilter(t, f)
         \/ \E c \in Channels : FreeFilterAll(t, c) \/ FreeChannel(t, c)
  PROVE IInv'
<1> USE DEF IInv, Types, Acts
<1>1. ASSUME NEW f \in Filters, FreeFilter(t, f) PROVE IInv'
  <2>1. /\ FltType' /\ OpType' /\ OpArgs' /\ served' \subseteq Filters
        /\ SessionInv' /\ CursorInv' /\ CursorOnList' /\ ServedInv'
    BY <1>1, FreeCheckInv DEF FreeFilter, MayCall
  <2> QED
    BY <1>1, <2>1 DEF FreeFilter, ChType, ListType, PollType, pollVars
<1>2. CASE FreeAgain(t)
  <2>1. /\ FltType' /\ OpType' /\ OpArgs' /\ served' \subseteq Filters
        /\ SessionInv' /\ CursorInv' /\ CursorOnList' /\ ServedInv'
    BY <1>2, FreeCheckInv DEF FreeAgain, OpArgs
  <2> QED
    BY <1>2, <2>1 DEF FreeAgain, ChType, ListType, PollType, pollVars
<1>3. ASSUME NEW c \in Channels, FreeFilterAll(t, c) \/ FreeChannel(t, c) PROVE IInv'
  <2>1. /\ Remove(FiltersOf(c)) /\ FiltersOf(c) \subseteq Filters
        /\ UNCHANGED pollVars /\ pc \notin {"visit", "deliver"}
    BY <1>3 DEF FreeFilterAll, FreeChannel, MayCall, FiltersOf
  <2>2. FltType' /\ SessionInv' /\ CursorInv' /\ CursorOnList' /\ ServedInv'
    BY <2>1, RemoveInv
  <2>3. OpType' /\ OpArgs'
    BY <1>3, SectionAssumption
    DEF FreeFilterAll, FreeChannel, OpType, OpRec, OpArgs, Channels
  <2>4. ChType' /\ ListType' /\ PollType'
    BY <1>3, <2>1
    DEF FreeFilterAll, FreeChannel, Remove, ChType, ListType, PollType, pollVars
  <2> QED
    BY <2>2, <2>3, <2>4
<1> QED
  BY <1>1, <1>2, <1>3

LEMMA CallInv ==
  ASSUME IInv, NEW t \in Threads, ChannelCall(t) \/ FilterCall(t)
  PROVE IInv'
<1>1. 1 \in Filters
  BY SectionAssumption DEF Filters
<1> QED
  BY <1>1, PlainCallInv, FilterUpdateInv, FreeInv DEF ChannelCall, FilterCall
-----------------------------------------------------------------------------
(* The poll thread.                                                        *)

\* The next filter is the list head or a filter of the channel dispatched.
LEMMA NextOnList ==
  ASSUME FltType, NEW n, n = NextFilter \/ n = After(dch, 0)
  PROVE /\ n \in 0..NF
        /\ n # 0 => n \in Filters /\ flt[n].status # "none" /\ flt[n].ch = dch
<1>1. n = 0 \/ n \in FiltersOf(dch)
  BY AfterOnList DEF NextFilter
<1> QED
  BY <1>1, SectionAssumption DEF FiltersOf, Filters

\* Before the list is walked, and after.
LEMMA OutsideInv ==
  ASSUME IInv,
         \/ PollWait \/ PollNext \/ VisitEnd \/ RecheckQuit
         \/ \E c \in Channels : DispatchQuit(c)
  PROVE IInv'
<1> USE SectionAssumption DEF IInv, Types, Return
<1>1. UNCHANGED <<flt, ch, allocs, bits, interest, op, actor>>
  BY DEF PollWait, PollNext, VisitEnd, RecheckQuit, DispatchQuit
<1>2. FltType' /\ ChType' /\ OpType' /\ OpArgs' /\ SessionInv'
  BY <1>1 DEF FltType, ChType, OpType, OpArgs, SessionInv
<1>3. /\ pc' \in {"wait", "next"} /\ todo' \subseteq Channels
      /\ dch' \in 0..NC /\ cur' \in 0..NF
      /\ served' = {} \/ (UNCHANGED <<served, cur>> /\ pc \in {"wait", "next"})
  <2>1. CASE PollWait
    BY <2>1 DEF PollWait, PollType, ListType
  <2>2. CASE PollNext
    BY <2>2 DEF PollNext, PollType
  <2>3. CASE VisitEnd \/ RecheckQuit
    <3>1. pc' = "next" /\ dch' = 0 /\ cur' = 0 /\ served' = {} /\ todo' = todo
      BY <2>3 DEF VisitEnd, RecheckQuit
    <3>2. 0 \in 0..NC /\ 0 \in 0..NF /\ todo \subseteq Channels
      BY DEF PollType
    <3> QED
      BY <3>1, <3>2
  <2>4. ASSUME NEW c \in Channels, DispatchQuit(c)
        PROVE pc = "next" /\ UNCHANGED <<pc, dch, cur, served>> /\ todo' \subseteq todo
    BY <2>4 DEF DispatchQuit
  <2> QED
    BY <2>1, <2>2, <2>3, <2>4 DEF PollType
<1>4. ListType' /\ PollType'
  BY <1>1, <1>3 DEF ListType, PollType
<1>5. CursorInv' /\ CursorOnList'
  BY <1>3 DEF CursorInv, CursorOnList, InCallback
<1>6. ServedInv'
  BY <1>1, <1>3 DEF ServedInv
<1> QED
  BY <1>2, <1>4, <1>5, <1>6

LEMMA ReadInv ==
  ASSUME IInv, NEW c \in Channels, DispatchRead(c)
  PROVE IInv'
<1> USE SectionAssumption DEF IInv, Types
<1>1. /\ UNCHANGED <<ch, allocs, bits, interest, op, actor>>
      /\ pc' = "visit" /\ dch' = c /\ served' = {} /\ cur' = After(c, 0)
      /\ todo' \subseteq todo /\ ch[c].status = "enable"
  BY DEF DispatchRead
<1>2. \A f \in Filters : flt'[f] = flt[f] \/ flt'[f] = [flt[f] EXCEPT !.access = FALSE]
  BY DEF DispatchRead
<1>3. FltType'
  <2>1. \A f \in Filters : flt[f] \in FilterRec
    BY DEF FltType
  <2>2. ASSUME NEW f \in Filters PROVE flt'[f] \in FilterRec
    <3>1. [flt[f] EXCEPT !.access = FALSE] \in FilterRec
      BY <2>1, FilterFields
    <3> QED
      BY <1>2, <2>1, <3>1
  <2>3. flt' = [f \in Filters |-> flt'[f]]
    BY DEF DispatchRead
  <2> QED
    BY <2>2, <2>3 DEF FltType
<1>4. ChType' /\ OpType' /\ OpArgs'
  BY <1>1 DEF ChType, OpType, OpArgs
<1>5. cur' = 0 \/ cur' \in FiltersOf(c)
  BY <1>1, AfterOnList
<1>6. ListType' /\ PollType'
  BY <1>1, <1>5 DEF ListType, PollType, Channels, FiltersOf, Filters
<1>7. ASSUME NEW f \in Filters
      PROVE /\ flt'[f].session <=> flt[f].session
            /\ flt'[f].status = flt[f].status /\ flt'[f].ch = flt[f].ch
  <2>1. flt[f] \in FilterRec
    BY DEF FltType
  <2>2. CASE flt'[f] = [flt[f] EXCEPT !.access = FALSE]
    BY <2>1, <2>2 DEF FilterRec
  <2> QED
    BY <1>2, <2>2
<1>8. SessionInv'
  BY <1>7 DEF SessionInv
<1>9. CursorInv' /\ CursorOnList' /\ ServedInv'
  BY <1>1, <1>5, <1>7 DEF CursorInv, CursorOnList, ServedInv, InCallback, FiltersOf
<1> QED
  BY <1>3, <1>4, <1>6, <1>8, <1>9

\* A filter is passed, refused or called.
LEMMA VisitInv ==
  ASSUME IInv, VisitPass \/ VisitMiss \/ VisitHit
  PROVE IInv'
<1> USE SectionAssumption DEF IInv, Types
<1>0. /\ pc = "visit" /\ cur # 0 /\ cur \in Filters /\ flt[cur] \in FilterRec
      /\ dch \in Channels /\ ch[dch] \in ChannelRec
  BY DEF VisitPass, VisitMiss, VisitHit, PollType, Filters, FltType, CursorInv, ChType
<1>1. /\ UNCHANGED <<allocs, bits, interest, op, actor, todo, dch, served>>
      /\ cur' = cur \/ cur' = NextFilter
  BY DEF VisitPass, VisitMiss, VisitHit
<1>2. OpType' /\ OpArgs' /\ ListType'
  BY <1>1 DEF OpType, OpArgs, ListType
<1>3. CASE VisitPass
  <2>1. /\ UNCHANGED <<flt, ch, pc>> /\ cur' = NextFilter
    BY <1>3 DEF VisitPass
  <2>2. FltType' /\ ChType' /\ SessionInv'
    BY <2>1 DEF FltType, ChType, SessionInv
  <2>3. PollType'
    BY <1>0, <1>1, <2>1, NextOnList DEF PollType
  <2>4. CursorInv' /\ CursorOnList'
    BY <1>0, <1>1, <2>1, NextOnList DEF CursorInv, CursorOnList, InCallback
  <2>5. ServedInv'
    BY <1>0, <1>1, <2>1 DEF ServedInv
  <2> QED
    BY <1>2, <2>2, <2>3, <2>4, <2>5
<1>4. CASE VisitMiss
  <2>1. /\ UNCHANGED <<ch, pc>> /\ cur' = NextFilter
        /\ flt' = [flt EXCEPT ![cur] = [flt[cur] EXCEPT !.access = TRUE]]
    BY <1>4 DEF VisitMiss
  <2>2. FltType'
    <3>1. [flt[cur] EXCEPT !.access = TRUE] \in FilterRec
      BY <1>0, FilterFields
    <3> QED
      BY <2>1, <3>1 DEF FltType
  <2>3. \A f \in Filters : /\ flt'[f].session <=> flt[f].session
                           /\ flt[f].access => flt'[f].access
                           /\ flt'[f].status = flt[f].status /\ flt'[f].ch = flt[f].ch
    BY <1>0, <2>1 DEF FltType, FilterRec
  <2>4. ChType' /\ SessionInv'
    BY <2>1, <2>3 DEF ChType, SessionInv
  <2>5. PollType'
    BY <1>0, <1>1, <2>1, NextOnList DEF PollType
  <2>6. CursorInv' /\ CursorOnList'
    BY <1>0, <1>1, <2>1, <2>3, NextOnList DEF CursorInv, CursorOnList, InCallback
  <2>7. ServedInv'
    BY <1>0, <1>1, <2>1, <2>3 DEF ServedInv, ListType
  <2> QED
    BY <1>2, <2>2, <2>4, <2>5, <2>6, <2>7
<1>5. CASE VisitHit
  <2>1. /\ cur' = cur /\ flt[cur].status = "enable" /\ ~flt[cur].access
        /\ flt[cur].ch = dch
    BY <1>0, <1>5 DEF VisitHit, Passes, CursorOnList
  <2>2. CASE "req" \in flt[cur].cb
    <3>1. /\ flt' = [flt EXCEPT ![cur].flag = "cb", ![cur].session = TRUE]
          /\ ch' = [ch EXCEPT ![dch].session = TRUE]
          /\ pc' = "request"
      BY <1>5, <2>2, Zenon DEF VisitHit, Call
    <3>2. FltType'
      <4>1. [flt[cur] EXCEPT !.flag = "cb", !.session = TRUE] \in FilterRec
        BY <1>0, FilterFields
      <4> QED
        BY <3>1, <4>1 DEF FltType
    <3>3. ChType'
      <4>1. [ch[dch] EXCEPT !.session = TRUE] \in ChannelRec
        BY <1>0, ChannelFields
      <4> QED
        BY <3>1, <4>1 DEF ChType
    <3>4. /\ \A f \in Filters : /\ f # cur => flt'[f] = flt[f]
                                /\ flt'[f].access <=> flt[f].access
                                /\ flt'[f].status = flt[f].status /\ flt'[f].ch = flt[f].ch
          /\ flt'[cur].flag = "cb"
      BY <1>0, <3>1 DEF FltType, FilterRec
    <3>5. SessionInv'
      BY <2>1, <3>4 DEF SessionInv
    <3>6. PollType'
      BY <1>1, <2>1, <3>1 DEF PollType
    <3>7. CursorInv' /\ CursorOnList'
      BY <1>0, <1>1, <2>1, <3>1, <3>4 DEF CursorInv, CursorOnList, InCallback
    <3>8. ServedInv'
      BY <1>0, <1>1, <2>1, <3>1, <3>4 DEF ServedInv, ListType
    <3> QED
      BY <1>2, <3>2, <3>3, <3>5, <3>6, <3>7, <3>8
  <2>3. CASE "req" \notin flt[cur].cb
    <3>1. pc' = "deliver" /\ UNCHANGED <<flt, ch>>
      BY <1>5, <2>3 DEF VisitHit
    <3>2. FltType' /\ ChType' /\ SessionInv'
      BY <3>1 DEF FltType, ChType, SessionInv
    <3>3. PollType'
      BY <1>1, <2>1, <3>1 DEF PollType
    <3>4. CursorInv' /\ CursorOnList'
      BY <1>0, <1>1, <2>1, <3>1 DEF CursorInv, CursorOnList, InCallback
    <3>5. ServedInv'
      BY <1>0, <1>1, <2>1, <3>1 DEF ServedInv
    <3> QED
      BY <1>2, <3>2, <3>3, <3>4, <3>5
  <2> QED
    BY <2>2, <2>3
<1> QED
  BY <1>3, <1>4, <1>5

LEMMA ReturnInv ==
  ASSUME IInv, CallbackReturn
  PROVE IInv'
<1> USE SectionAssumption DEF IInv, Types
<1>0. cur \in Filters /\ flt[cur] \in FilterRec
  BY DEF CallbackReturn, InCallback, CursorInv, FltType
<1>1. /\ UNCHANGED <<ch, allocs, bits, interest, op, actor, todo, dch, cur, served>>
      /\ \/ pc = "request" /\ pc' = "requested"
         \/ pc = "update" /\ pc' = "updated"
      /\ flt' = [flt EXCEPT ![cur] = [flt[cur] EXCEPT !.flag = "dispatch"]]
  BY DEF CallbackReturn, InCallback
<1>2. FltType'
  <2>1. [flt[cur] EXCEPT !.flag = "dispatch"] \in FilterRec
    BY <1>0, FilterFields
  <2> QED
    BY <1>1, <2>1 DEF FltType
<1>3. ChType' /\ OpType' /\ OpArgs' /\ ListType' /\ PollType'
  BY <1>1 DEF ChType, OpType, OpArgs, ListType, PollType
<1>4. \A f \in Filters : /\ flt'[f].access <=> flt[f].access
                         /\ flt'[f].session <=> flt[f].session
                         /\ flt'[f].status = flt[f].status /\ flt'[f].ch = flt[f].ch
  BY <1>0, <1>1 DEF FltType, FilterRec
<1>5. SessionInv' /\ CursorInv' /\ CursorOnList'
  BY <1>0, <1>1, <1>4 DEF SessionInv, CursorInv, CursorOnList, InCallback
<1>6. ServedInv'
  BY <1>0, <1>1, <1>4 DEF ServedInv, ListType
<1> QED
  BY <1>2, <1>3, <1>5, <1>6

\* The mutex is taken again, and the filter is another one or was stopped.
LEMMA LostInv ==
  ASSUME IInv, RecheckLost
  PROVE IInv'
<1> USE SectionAssumption DEF IInv, Types
<1>0. /\ cur \in Filters /\ dch \in Channels /\ ch[dch] \in ChannelRec
      /\ pc \in {"requested", "updated"} /\ ch[dch].status = "enable"
  BY DEF RecheckLost, RecheckQuits, CursorInv, ChType
<1>1. /\ UNCHANGED <<allocs, bits, interest, op, actor, todo, dch, served>>
      /\ pc' = "visit" /\ (cur' = NextFilter \/ cur' = After(dch, 0))
      /\ ~flt[cur].session \/ flt[cur].status # "enable"
  BY DEF RecheckLost, LostNext
<1>2. \A f \in Filters : flt'[f] = flt[f] \/ flt'[f] = [flt[f] EXCEPT !.session = FALSE]
  BY DEF RecheckLost
<1>3. FltType'
  <2>1. \A f \in Filters : flt[f] \in FilterRec
    BY DEF FltType
  <2>2. ASSUME NEW f \in Filters PROVE flt'[f] \in FilterRec
    <3>1. [flt[f] EXCEPT !.session = FALSE] \in FilterRec
      BY <2>1, FilterFields
    <3> QED
      BY <1>2, <2>1, <3>1
  <2>3. flt' = [f \in Filters |-> flt'[f]]
    BY DEF RecheckLost
  <2> QED
    BY <2>2, <2>3 DEF FltType
<1>4. ChType' /\ ch'[dch].status = "enable"
  <2>1. ch' = [ch EXCEPT ![dch] = [ch[dch] EXCEPT !.session = FALSE]]
    BY DEF RecheckLost
  <2>2. /\ [ch[dch] EXCEPT !.session = FALSE] \in ChannelRec
        /\ [ch[dch] EXCEPT !.session = FALSE].status = "enable"
    BY <1>0, ChannelFields
  <2> QED
    BY <1>0, <2>1, <2>2 DEF ChType
<1>5. OpType' /\ OpArgs' /\ ListType'
  BY <1>1 DEF OpType, OpArgs, ListType
<1>6. ASSUME NEW f \in Filters
      PROVE /\ flt'[f].session => flt[f].session
            /\ flt'[f].access <=> flt[f].access
            /\ flt'[f].status = flt[f].status /\ flt'[f].ch = flt[f].ch
  <2>1. flt[f] \in FilterRec
    BY DEF FltType
  <2>2. CASE flt'[f] = [flt[f] EXCEPT !.session = FALSE]
    BY <2>1, <2>2 DEF FilterRec
  <2> QED
    BY <1>2, <2>2
<1>7. /\ cur' \in 0..NF
      /\ cur' # 0 => cur' \in Filters /\ flt[cur'].status # "none" /\ flt[cur'].ch = dch
  BY <1>1, NextOnList
<1>8. PollType' /\ SessionInv'
  BY <1>1, <1>6, <1>7 DEF PollType, SessionInv
<1>9. CursorInv' /\ CursorOnList'
  BY <1>0, <1>1, <1>4, <1>6, <1>7 DEF CursorInv, CursorOnList, InCallback
<1>10. ServedInv'
  BY <1>0, <1>1, <1>6 DEF ServedInv, ListType
<1> QED
  BY <1>3, <1>4, <1>5, <1>8, <1>9, <1>10

\* The mutex is taken again after the request, and the filter is as it was.
LEMMA RequestedInv ==
  ASSUME IInv, RecheckRequested
  PROVE IInv'
<1> USE SectionAssumption DEF IInv, Types
<1>0. /\ cur \in Filters /\ dch \in Channels /\ ch[dch] \in ChannelRec
      /\ pc = "requested" /\ ch[dch].status = "enable"
      /\ flt[cur].status = "enable" /\ flt[cur].ch = dch
  BY DEF RecheckRequested, RecheckQuits, CursorInv, ChType
<1>1. /\ UNCHANGED <<flt, allocs, bits, interest, op, actor, todo, dch, served>>
      /\ \/ pc' = "deliver" /\ cur' = cur
         \/ pc' = "visit" /\ cur' = NextFilter
  BY DEF RecheckRequested
<1>2. ChType' /\ ch'[dch].status = "enable"
  <2>1. ch' = [ch EXCEPT ![dch] = [ch[dch] EXCEPT !.session = FALSE]]
    BY DEF RecheckRequested
  <2>2. /\ [ch[dch] EXCEPT !.session = FALSE] \in ChannelRec
        /\ [ch[dch] EXCEPT !.session = FALSE].status = "enable"
    BY <1>0, ChannelFields
  <2> QED
    BY <1>0, <2>1, <2>2 DEF ChType
<1>3. FltType' /\ OpType' /\ OpArgs' /\ ListType' /\ SessionInv'
  BY <1>1 DEF FltType, OpType, OpArgs, ListType, SessionInv
<1>4. PollType'
  BY <1>1, NextOnList DEF PollType
<1>5. CursorInv' /\ CursorOnList'
  BY <1>0, <1>1, <1>2, NextOnList DEF CursorInv, CursorOnList, InCallback
<1>6. ServedInv'
  BY <1>0, <1>1 DEF ServedInv
<1> QED
  BY <1>2, <1>3, <1>4, <1>5, <1>6

\* The section is given to a filter: the update callback is called, or the
\* body of the loop ends.
LEMMA FinishInv ==
  ASSUME FltType, CursorInv, SessionInv, bits \subseteq Channels, Finish,
         cur \in Filters, dch \in Channels, flt[cur].status = "enable",
         UNCHANGED dch, ch'[dch].status = "enable", served' \subseteq served,
         served \subseteq Filters, ServedInv, cur \notin served' \/ flt[cur].continuous
  PROVE /\ FltType' /\ bits' \subseteq Channels /\ cur' \in 0..NF
        /\ SessionInv' /\ CursorInv' /\ CursorOnList' /\ ServedInv'
<1> DEFINE s == IF flt[cur].continuous THEN flt[cur].status ELSE "disable"
<1>0. flt[cur] \in FilterRec /\ s \in {"none", "disable", "enable"}
  BY DEF FltType, FilterRec
<1>1. /\ flt' = [flt EXCEPT ![cur].access = TRUE, ![cur].status = s]
      /\ cur' = NextFilter /\ pc' = "visit"
  BY DEF Finish
<1> HIDE DEF s
<1>2. FltType'
  <2>1. [flt[cur] EXCEPT !.access = TRUE, !.status = s] \in FilterRec
    BY <1>0, FilterFields
  <2> QED
    BY <1>1, <2>1 DEF FltType
<1>3. bits' \subseteq Channels
  BY DEF Finish
<1>4. /\ \A f \in Filters : /\ f # cur => flt'[f] = flt[f]
                            /\ flt'[f].session <=> flt[f].session
                            /\ flt'[f].ch = flt[f].ch
      /\ flt'[cur].status = s /\ flt'[cur].access
  BY <1>0, <1>1 DEF FltType, FilterRec
<1>5. s # "none" /\ (flt[cur].continuous => s = "enable")
  BY DEF s
<1>6. SessionInv'
  BY <1>4, <1>5 DEF SessionInv
<1>7. /\ cur' \in 0..NF
      /\ cur' # 0 => cur' \in Filters /\ flt[cur'].status # "none" /\ flt[cur'].ch = dch
  BY <1>1, NextOnList
<1>8. CursorInv' /\ CursorOnList'
  BY <1>1, <1>4, <1>5, <1>7 DEF CursorInv, CursorOnList, InCallback
<1>9. ServedInv'
  <2>1. ASSUME NEW f \in served' PROVE flt'[f].status = "enable" /\ flt'[f].access
    <3>1. f \in served /\ f \in Filters
      BY <2>1
    <3>2. CASE f = cur
      BY <1>4, <1>5, <2>1, <3>2
    <3>3. CASE f # cur
      BY <1>4, <3>1, <3>3 DEF ServedInv
    <3> QED
      BY <3>2, <3>3
  <2> QED
    BY <1>1, <2>1 DEF ServedInv
<1> QED
  BY <1>2, <1>3, <1>6, <1>7, <1>8, <1>9

LEMMA DeliverInv ==
  ASSUME IInv, Deliver
  PROVE IInv'
<1> USE SectionAssumption DEF IInv, Types
<1>0. /\ pc = "deliver" /\ cur \in Filters /\ dch \in Channels /\ cur # 0
      /\ flt[cur] \in FilterRec /\ ch[dch] \in ChannelRec
      /\ flt[cur].status = "enable" /\ ~flt[cur].access
      /\ flt[cur].ch = dch /\ ch[dch].status = "enable" /\ cur \notin served
  BY DEF Deliver, CursorInv, CursorOnList, ServedInv, FltType, ChType, Filters
<1>1. UNCHANGED <<allocs, interest, op, actor, todo, dch>>
  BY DEF Deliver
<1>2. OpType' /\ OpArgs'
  BY <1>1 DEF OpType, OpArgs
<1>3. CASE "upd" \in flt[cur].cb
  <2>1. /\ flt' = [flt EXCEPT ![cur].flag = "cb", ![cur].session = TRUE]
        /\ ch' = [ch EXCEPT ![dch].session = TRUE]
        /\ pc' = "update" /\ served' = served \cup {cur} /\ UNCHANGED <<bits, cur>>
    BY <1>3, Zenon DEF Deliver, Call
  <2>2. FltType'
    <3>1. [flt[cur] EXCEPT !.flag = "cb", !.session = TRUE] \in FilterRec
      BY <1>0, FilterFields
    <3> QED
      BY <2>1, <3>1 DEF FltType
  <2>3. ChType'
    <3>1. [ch[dch] EXCEPT !.session = TRUE] \in ChannelRec
      BY <1>0, ChannelFields
    <3> QED
      BY <2>1, <3>1 DEF ChType
  <2>4. /\ \A f \in Filters : /\ f # cur => flt'[f] = flt[f]
                              /\ flt'[f].access <=> flt[f].access
                              /\ flt'[f].status = flt[f].status /\ flt'[f].ch = flt[f].ch
        /\ flt'[cur].flag = "cb" /\ flt'[cur].session
    BY <1>0, <2>1 DEF FltType, FilterRec
  <2>5. SessionInv'
    BY <1>0, <2>4 DEF SessionInv
  <2>6. ListType' /\ PollType'
    BY <1>0, <1>1, <2>1 DEF ListType, PollType
  <2>7. CursorInv' /\ CursorOnList'
    BY <1>0, <1>1, <2>1, <2>4 DEF CursorInv, CursorOnList, InCallback
  <2>8. ServedInv'
    <3>1. \A f \in served : f \in Filters /\ f # cur /\ flt[f].status = "enable" /\ flt[f].access
      BY <1>0 DEF ServedInv, ListType
    <3>2. \A f \in served : flt'[f].status = "enable" /\ flt'[f].access
      BY <2>4, <3>1
    <3>3. flt'[cur].status = "enable" /\ flt'[cur].session
      BY <1>0, <2>4
    <3> QED
      BY <2>1, <3>2, <3>3 DEF ServedInv
  <2> QED
    BY <1>2, <2>2, <2>3, <2>5, <2>6, <2>7, <2>8
<1>4. CASE "upd" \notin flt[cur].cb
  <2>1. Finish /\ UNCHANGED <<ch, served>>
    BY <1>4 DEF Deliver
  <2>2. /\ FltType' /\ bits' \subseteq Channels /\ cur' \in 0..NF
        /\ SessionInv' /\ CursorInv' /\ CursorOnList' /\ ServedInv'
    BY <1>0, <1>1, <2>1, FinishInv DEF ListType
  <2>3. ChType' /\ ListType' /\ PollType'
    BY <1>1, <2>1, <2>2 DEF ChType, ListType, PollType, Finish
  <2> QED
    BY <1>2, <2>2, <2>3
<1> QED
  BY <1>3, <1>4

LEMMA UpdatedInv ==
  ASSUME IInv, RecheckUpdated
  PROVE IInv'
<1> USE SectionAssumption DEF IInv, Types
<1>0. /\ cur \in Filters /\ dch \in Channels /\ ch[dch] \in ChannelRec
      /\ ch[dch].status = "enable" /\ flt[cur].status = "enable"
  BY DEF RecheckUpdated, RecheckQuits, CursorInv, ChType
<1>1. /\ UNCHANGED <<allocs, interest, op, actor, todo, dch>> /\ Finish
      /\ ch' = [ch EXCEPT ![dch] = [ch[dch] EXCEPT !.session = FALSE]]
      /\ served' \subseteq served /\ (cur \notin served' \/ flt[cur].continuous)
  BY DEF RecheckUpdated
<1>2. OpType' /\ OpArgs'
  BY <1>1 DEF OpType, OpArgs
<1>3. ChType' /\ ch'[dch].status = "enable"
  <2>1. /\ [ch[dch] EXCEPT !.session = FALSE] \in ChannelRec
        /\ [ch[dch] EXCEPT !.session = FALSE].status = "enable"
    BY <1>0, ChannelFields
  <2> QED
    BY <1>0, <1>1, <2>1 DEF ChType
<1>4. /\ FltType' /\ bits' \subseteq Channels /\ cur' \in 0..NF
      /\ SessionInv' /\ CursorInv' /\ CursorOnList' /\ ServedInv'
  BY <1>0, <1>1, <1>3, FinishInv DEF ListType
<1>5. ListType' /\ PollType'
  BY <1>1, <1>4 DEF ListType, PollType, Finish
<1> QED
  BY <1>2, <1>3, <1>4, <1>5

LEMMA InitInv == Init => IInv
<1> SUFFICES ASSUME Init PROVE IInv
  OBVIOUS
<1>1. FltType
  BY ZeroFilterType DEF Init, FltType
<1>2. ChType
  <2>1. ZeroChannel \in ChannelRec
    BY Zenon DEF ZeroChannel, ChannelRec
  <2> QED
    BY <2>1 DEF Init, ChType
<1>3. OpType /\ OpArgs
  BY DEF Init, OpType, OpArgs, OpRec, Idle
<1>4. ListType /\ PollType
  BY SectionAssumption DEF Init, ListType, PollType, Threads
<1>5. SessionInv
  BY DEF Init, SessionInv, ZeroFilter
<1>6. CursorInv /\ CursorOnList /\ ServedInv
  BY DEF Init, CursorInv, CursorOnList, ServedInv, InCallback
<1> QED
  BY <1>1, <1>2, <1>3, <1>4, <1>5, <1>6 DEF IInv, Types

LEMMA StepInv == IInv /\ [Next]_vars => IInv'
<1> SUFFICES ASSUME IInv, [Next]_vars PROVE IInv'
  OBVIOUS
<1>1. CASE UNCHANGED vars
  BY <1>1 DEF vars, pollVars, IInv, Types, FltType, ChType, OpType, OpArgs, ListType,
     PollType, SessionInv, CursorInv, CursorOnList, ServedInv, InCallback
<1>2. CASE PollWait \/ Dispatch
  BY <1>2, OutsideInv, ReadInv, VisitInv, ReturnInv, LostInv, RequestedInv,
     DeliverInv, UpdatedInv DEF Dispatch
<1>3. ASSUME NEW t \in Threads, ChannelCall(t) \/ FilterCall(t) PROVE IInv'
  BY <1>3, CallInv
<1> QED
  BY <1>1, <1>2, <1>3 DEF Next

\* The invariant of the walk.
THEOREM SectionInv == Spec => []IInv
<1> QED
  BY InitInv, StepInv, PTL DEF Spec

\* Filters, channels, the calls in progress and the poll thread keep their types.
THEOREM SectionTypeCorrect == Spec => []TypeOK
<1>1. IInv => TypeOK
  BY TypeParts DEF IInv
<1> QED
  BY <1>1, SectionInv, PTL

\* section_dispatch never holds the mutex with a filter in hand that is freed,
\* that belongs to another channel or whose channel is stopped, whatever was
\* freed and allocated while it called a callback.
THEOREM CursorStays == Spec => []CursorOnList
<1>1. IInv => CursorOnList
  BY DEF IInv
<1> QED
  BY <1>1, SectionInv, PTL

\* A call leaves the poll thread where it is.
LEMMA CallActs ==
  ASSUME NEW t \in Threads, ChannelCall(t) \/ FilterCall(t)
  PROVE Acts(t)
<1>1. CASE CallRest(t) \/ AllocateChannel(t) \/ SectionRequestPoll(t)
  BY <1>1 DEF CallRest, FreeChannelEnd, PollRegister, PidRestart, AllocateChannel,
     SectionRequestPoll
<1>2. ASSUME NEW c \in Channels, \/ AllocateFilter(t, c) \/ FreeFilterAll(t, c)
                                 \/ FreeChannel(t, c) \/ ChannelStart(t, c)
                                 \/ ChannelStop(t, c) \/ SetChannelPidlist(t, c)
      PROVE Acts(t)
  BY <1>2 DEF AllocateFilter, FreeFilterAll, FreeChannel, ChannelStart, ChannelStop,
     SetChannelPidlist
<1>3. CASE FilterCall(t)
  BY <1>3 DEF FilterCall, FreeWakes, FreeAgain, FreeFilter, SetFilter,
     RegisterFilterCallback, ControlFilter
<1> QED
  BY <1>1, <1>2, <1>3 DEF ChannelCall

\* An update callback is called only for a filter that was not given the
\* section before, or was disabled in between.
THEOREM OnceGiven == Spec => OncePerSection
<1> DEFINE A == pc' = "update" /\ pc # "update" => cur' \notin served
<1>1. ASSUME IInv, [Next]_vars PROVE [A]_vars
  <2> SUFFICES ASSUME Next, pc' = "update", pc # "update" PROVE cur' \notin served
    BY <1>1
  <2>1. CASE \E t \in Threads : ChannelCall(t) \/ FilterCall(t)
    BY <2>1, CallActs DEF Acts, pollVars
  <2>2. CASE Deliver
    <3>1. pc = "deliver" /\ cur \notin served
      BY <1>1, <2>2 DEF Deliver, IInv, ServedInv
    <3>2. cur' = cur
      BY <2>2 DEF Deliver, Call, Finish
    <3> QED
      BY <3>1, <3>2
  <2>3. ~(PollWait \/ PollNext \/ VisitEnd \/ RecheckQuit)
    BY DEF PollWait, PollNext, VisitEnd, RecheckQuit, Return
  <2>4. ~(VisitPass \/ VisitMiss \/ VisitHit \/ CallbackReturn)
    BY DEF VisitPass, VisitMiss, VisitHit, CallbackReturn, Call
  <2>5. ~(RecheckLost \/ RecheckRequested \/ RecheckUpdated)
    BY DEF RecheckLost, RecheckRequested, RecheckUpdated, Finish
  <2>6. ~\E c \in Channels : DispatchQuit(c) \/ DispatchRead(c)
    BY DEF DispatchQuit, DispatchRead
  <2> QED
    BY <2>1, <2>2, <2>3, <2>4, <2>5, <2>6 DEF Next, Dispatch
<1> QED
  BY <1>1, SectionInv, PTL DEF Spec, OncePerSection
-----------------------------------------------------------------------------
(* The section filters implement DmxFilter.                                *)

\* The refinement mapping of Filter.
Life == [f \in Filters |-> CASE flt[f].status = "none" -> "free"
                            [] flt[f].status = "disable" -> "idle"
                            [] flt[f].status = "enable" -> "armed"]
Busy == [f \in Filters |-> IF ~InCallback \/ f # cur THEN "no"
                           ELSE IF flt[f].session THEN "own" ELSE "stale"]

LEMMA MapsVars == Filter!vars = <<Life, Busy, actor>>
  BY DEF Filter!vars, Life, Busy

LEMMA MapsVarsNext == (Filter!vars)' = <<Life', Busy', actor'>>
  BY DEF Filter!vars, Life, Busy

LEMMA MapsInit == Filter!Init <=> /\ Life = [f \in Filters |-> "free"]
                                 /\ Busy = [f \in Filters |-> "no"]
                                 /\ actor = Poll
  BY DEF Filter!Init, Life, Busy

LEMMA MapsCalls ==
  ASSUME NEW t \in Threads, actor' = t
  PROVE /\ Life' = Life /\ Busy' = Busy => Filter!Next
        /\ \A f \in Filters :
             Life[f] = "free" /\ Life' = [Life EXCEPT ![f] = "idle"] /\ Busy' = Busy
             => Filter!Next
        /\ \A f \in Filters, l \in {"idle", "armed"} :
             Life[f] # "free" /\ Life' = [Life EXCEPT ![f] = l] /\ Busy' = Busy
             => Filter!Next
        /\ \A S \in SUBSET Filters :
             /\ t # Poll => \A f \in S : Busy[f] # "own"
             /\ Life' = [f \in Filters |-> IF f \in S THEN "free" ELSE Life[f]]
             /\ Busy' = [f \in Filters |-> IF f \in S /\ Busy[f] = "own" THEN "stale"
                                           ELSE Busy[f]]
             => Filter!Next
<1>1. t \in Filter!Threads
  BY DEF Threads, Filter!Threads
<1>2. Filter!Other(t) <=> Life' = Life /\ Busy' = Busy
  BY DEF Filter!Other, Life, Busy
<1>3. ASSUME NEW f \in Filters
      PROVE Filter!Allocate(t, f) <=>
              Life[f] = "free" /\ Life' = [Life EXCEPT ![f] = "idle"] /\ Busy' = Busy
  BY DEF Filter!Allocate, Life, Busy
<1>4. ASSUME NEW f \in Filters, NEW l
      PROVE Filter!Control(t, f, l) <=>
              Life[f] # "free" /\ Life' = [Life EXCEPT ![f] = l] /\ Busy' = Busy
  BY DEF Filter!Control, Life, Busy
<1>5. ASSUME NEW S \in SUBSET Filters
      PROVE Filter!Free(t, S) <=>
             /\ t # Poll => \A f \in S : Busy[f] # "own"
             /\ Life' = [f \in Filters |-> IF f \in S THEN "free" ELSE Life[f]]
             /\ Busy' = [f \in Filters |-> IF f \in S /\ Busy[f] = "own" THEN "stale"
                                           ELSE Busy[f]]
  BY DEF Filter!Free, Life, Busy
<1> QED
  BY <1>1, <1>2, <1>3, <1>4, <1>5, Zenon DEF Filter!Next

LEMMA MapsPoll ==
  ASSUME NEW f \in Filters, UNCHANGED actor
  PROVE /\ (/\ Life[f] = "armed" /\ \A g \in Filters : Busy[g] = "no"
            /\ Busy' = [Busy EXCEPT ![f] = "own"] /\ Life' = Life) => Filter!Next
        /\ (Busy[f] # "no" /\ Busy' = [Busy EXCEPT ![f] = "no"] /\ Life' = Life)
           => Filter!Next
        /\ (Life[f] = "armed" /\ Life' = [Life EXCEPT ![f] = "idle"] /\ Busy' = Busy)
           => Filter!Next
<1>1. Filter!Begin(f) <=> /\ Life[f] = "armed" /\ \A g \in Filters : Busy[g] = "no"
                          /\ Busy' = [Busy EXCEPT ![f] = "own"] /\ Life' = Life
  BY DEF Filter!Begin, Life, Busy
<1>2. Filter!End(f) <=> /\ Busy[f] # "no" /\ Busy' = [Busy EXCEPT ![f] = "no"]
                        /\ Life' = Life
  BY DEF Filter!End, Life, Busy
<1>3. Filter!OneShot(f) <=> /\ Life[f] = "armed" /\ Life' = [Life EXCEPT ![f] = "idle"]
                            /\ Busy' = Busy
  BY DEF Filter!OneShot, Life, Busy
<1> QED
  BY <1>1, <1>2, <1>3, Zenon DEF Filter!Next

\* What a filter's status and session say of the promise.
LifeFacts ==
  /\ Life = [f \in Filters |-> Life[f]]
  /\ \A f \in Filters : /\ flt[f].status = "none" => Life[f] = "free"
                        /\ flt[f].status = "disable" => Life[f] = "idle"
                        /\ flt[f].status = "enable" => Life[f] = "armed"
BusyFacts ==
  /\ Busy = [f \in Filters |-> Busy[f]]
  /\ \A f \in Filters : /\ Busy[f] \in {"no", "own", "stale"}
                        /\ Busy[f] # "no" <=> InCallback /\ f = cur
                        /\ Busy[f] = "own" <=> InCallback /\ f = cur /\ flt[f].session

LEMMA LifeIs == LifeFacts
<1>1. ASSUME NEW f \in Filters
      PROVE Life[f] = CASE flt[f].status = "none" -> "free"
                        [] flt[f].status = "disable" -> "idle"
                        [] flt[f].status = "enable" -> "armed"
  BY Zenon DEF Life
<1>2. ASSUME NEW f \in Filters
      PROVE /\ flt[f].status = "none" => Life[f] = "free"
            /\ flt[f].status = "disable" => Life[f] = "idle"
            /\ flt[f].status = "enable" => Life[f] = "armed"
  BY <1>1
<1>3. Life = [f \in Filters |-> Life[f]]
  <2> DEFINE L(f) == CASE flt[f].status = "none" -> "free"
                       [] flt[f].status = "disable" -> "idle"
                       [] flt[f].status = "enable" -> "armed"
  <2>1. Life = [f \in Filters |-> L(f)]
    BY DEF Life
  <2> HIDE DEF L
  <2> QED
    BY <2>1
<1> QED
  BY <1>2, <1>3 DEF LifeFacts

LEMMA BusyIs == BusyFacts
  BY DEF Busy, BusyFacts

LEMMA FactsNext == LifeFacts' /\ BusyFacts'
  BY LifeIs, BusyIs, PTL

\* A step that leaves status alone, and one that leaves the callback alone.
LEMMA LifeKeeps ==
  ASSUME FltType, \A f \in Filters : flt'[f].status = flt[f].status
  PROVE Life' = Life
<1>1. \A f \in Filters : flt[f].status \in {"none", "disable", "enable"}
  BY DEF FltType, FilterRec
<1>2. \A f \in Filters : Life'[f] = Life[f]
  BY <1>1, LifeIs, FactsNext DEF LifeFacts
<1> QED
  BY <1>2, LifeIs, FactsNext DEF LifeFacts

LEMMA BusyKeeps ==
  ASSUME \/ ~InCallback /\ ~InCallback'
         \/ /\ (InCallback <=> InCallback') /\ cur' = cur
            /\ \A f \in Filters : flt'[f].session <=> flt[f].session
  PROVE Busy' = Busy
<1>1. \A f \in Filters : Busy'[f] = Busy[f]
  BY BusyIs, FactsNext DEF BusyFacts
<1> QED
  BY <1>1, BusyIs, FactsNext DEF BusyFacts

\* The steps that show in the promise: a callback begins, a filter is disabled
\* after its section, filters are freed.
LEMMA BeginStep ==
  ASSUME FltType, ~InCallback, InCallback', UNCHANGED <<cur, actor>>, cur \in Filters,
         flt[cur].status = "enable", flt'[cur].session,
         \A f \in Filters : flt'[f].status = flt[f].status
  PROVE Filter!Next
<1>1. Life' = Life /\ Life[cur] = "armed"
  BY LifeKeeps, LifeIs DEF LifeFacts
<1>2. \A f \in Filters : Busy[f] = "no"
  BY BusyIs DEF BusyFacts
<1>3. \A f \in Filters : Busy'[f] = [Busy EXCEPT ![cur] = "own"][f]
  BY <1>2, BusyIs, FactsNext DEF BusyFacts
<1>4. Busy' = [Busy EXCEPT ![cur] = "own"]
  BY <1>3, BusyIs, FactsNext DEF BusyFacts
<1> QED
  BY <1>1, <1>2, <1>4, MapsPoll

LEMMA FinishStep ==
  ASSUME FltType, Finish, ~InCallback, cur \in Filters, flt[cur].status = "enable",
         UNCHANGED actor
  PROVE Filter!Next \/ UNCHANGED Filter!vars
<1> DEFINE s == IF flt[cur].continuous THEN "enable" ELSE "disable"
<1>1. /\ \A f \in Filters \ {cur} : flt'[f].status = flt[f].status
      /\ flt'[cur].status = s
  BY DEF Finish, FltType, FilterRec
<1>2. ~InCallback'
  BY DEF Finish, InCallback
<1>3. Busy' = Busy
  BY <1>2, BusyKeeps
<1>4. CASE flt[cur].continuous
  <2>1. Life' = Life
    BY <1>1, <1>4, LifeKeeps
  <2> QED
    BY <1>3, <2>1, MapsVars, MapsVarsNext
<1>5. CASE ~flt[cur].continuous
  <2>0. \A f \in Filters : flt[f].status \in {"none", "disable", "enable"}
    BY DEF FltType, FilterRec
  <2>1. Life[cur] = "armed"
    BY LifeIs DEF LifeFacts
  <2>2. \A f \in Filters : Life'[f] = [Life EXCEPT ![cur] = "idle"][f]
    BY <1>1, <1>5, <2>0, LifeIs, FactsNext DEF LifeFacts
  <2>3. Life' = [Life EXCEPT ![cur] = "idle"]
    BY <2>2, LifeIs, FactsNext DEF LifeFacts
  <2> QED
    BY <1>3, <2>1, <2>3, MapsPoll
<1> QED
  BY <1>4, <1>5

LEMMA RemoveStep ==
  ASSUME FltType, NEW t \in Threads, NEW S \in SUBSET Filters, Remove(S), Acts(t),
         t # Poll /\ InCallback /\ cur \in S => ~flt[cur].session
  PROVE Filter!Next
<1>0. \A f \in Filters : flt[f].status \in {"none", "disable", "enable"}
  BY DEF FltType, FilterRec
<1>1. \A f \in Filters : flt'[f] = IF f \in S THEN ZeroFilter ELSE flt[f]
  BY DEF Remove
<1>2. ZeroFilter.status = "none" /\ ~ZeroFilter.session
  BY DEF ZeroFilter
<1>3. actor' = t /\ cur' = cur /\ (InCallback <=> InCallback')
  BY DEF Acts, pollVars, InCallback
<1>4. \A f \in Filters : Life'[f] = IF f \in S THEN "free" ELSE Life[f]
  BY <1>0, <1>1, <1>2, LifeIs, FactsNext DEF LifeFacts
<1>5. Life' = [f \in Filters |-> IF f \in S THEN "free" ELSE Life[f]]
  BY <1>4, FactsNext DEF LifeFacts
<1>6. \A f \in Filters : Busy'[f] = IF f \in S /\ Busy[f] = "own" THEN "stale" ELSE Busy[f]
  BY <1>1, <1>2, <1>3, BusyIs, FactsNext DEF BusyFacts
<1>7. Busy' = [f \in Filters |-> IF f \in S /\ Busy[f] = "own" THEN "stale" ELSE Busy[f]]
  BY <1>6, FactsNext DEF BusyFacts
<1>8. t # Poll => \A f \in S : Busy[f] # "own"
  BY BusyIs DEF BusyFacts
<1> QED
  BY <1>3, <1>5, <1>7, <1>8, MapsCalls

\* A call that leaves the status and the session of every filter alone.
LEMMA OtherStep ==
  ASSUME FltType, NEW t \in Threads, Acts(t),
         \A f \in Filters : /\ flt'[f].status = flt[f].status
                            /\ flt'[f].session <=> flt[f].session
  PROVE Filter!Next
<1>1. actor' = t /\ cur' = cur /\ (InCallback <=> InCallback')
  BY DEF Acts, pollVars, InCallback
<1> QED
  BY <1>1, LifeKeeps, BusyKeeps, MapsCalls

LEMMA CallPromise ==
  ASSUME IInv, ~FreeAll, NEW t \in Threads, ChannelCall(t) \/ FilterCall(t)
  PROVE Filter!Next
<1>0. FltType /\ Acts(t)
  BY CallActs DEF IInv, Types
<1>1. CASE UNCHANGED flt
  BY <1>0, <1>1, OtherStep
<1>2. ASSUME NEW c \in Channels, AllocateFilter(t, c) PROVE Filter!Next
  <2>1. PICK g \in Filters :
          /\ flt[g].status = "none"
          /\ flt' = [flt EXCEPT ![g].status = "disable", ![g].ch = c, ![g].pos = allocs + 1]
    BY <1>2 DEF AllocateFilter
  <2>2. /\ \A f \in Filters : /\ f # g => flt'[f] = flt[f]
                              /\ flt'[f].session <=> flt[f].session
                              /\ flt[f].status \in {"none", "disable", "enable"}
        /\ flt[g].status = "none" /\ flt'[g].status = "disable"
    BY <1>0, <2>1 DEF FltType, FilterRec
  <2>3. actor' = t /\ cur' = cur /\ (InCallback <=> InCallback')
    BY <1>0 DEF Acts, pollVars, InCallback
  <2>4. Busy' = Busy
    BY <2>2, <2>3, BusyKeeps
  <2>5. Life[g] = "free"
    BY <2>2, LifeIs DEF LifeFacts
  <2>6. \A f \in Filters : Life'[f] = [Life EXCEPT ![g] = "idle"][f]
    BY <2>2, LifeIs, FactsNext DEF LifeFacts
  <2>7. Life' = [Life EXCEPT ![g] = "idle"]
    BY <2>6, LifeIs, FactsNext DEF LifeFacts
  <2> QED
    BY <2>3, <2>4, <2>5, <2>7, MapsCalls
<1>3. ASSUME NEW f \in Filters, NEW status \in {"enable", "disable"},
             ControlFilter(t, f, status) PROVE Filter!Next
  <2> DEFINE l == IF status = "enable" THEN "armed" ELSE "idle"
  <2>1. flt' = [flt EXCEPT ![f].status = status] /\ flt[f].status # "none"
    BY <1>3 DEF ControlFilter
  <2>2. /\ \A g \in Filters : /\ g # f => flt'[g] = flt[g]
                              /\ flt'[g].session <=> flt[g].session
                              /\ flt[g].status \in {"none", "disable", "enable"}
        /\ flt'[f].status = status
    BY <1>0, <2>1 DEF FltType, FilterRec
  <2>3. actor' = t /\ cur' = cur /\ (InCallback <=> InCallback')
    BY <1>0 DEF Acts, pollVars, InCallback
  <2>4. Busy' = Busy
    BY <2>2, <2>3, BusyKeeps
  <2>5. Life[f] # "free"
    BY <2>1, <2>2, LifeIs DEF LifeFacts
  <2>6. \A g \in Filters : Life'[g] = [Life EXCEPT ![f] = l][g]
    BY <1>3, <2>2, LifeIs, FactsNext DEF LifeFacts
  <2>7. Life' = [Life EXCEPT ![f] = l]
    BY <2>6, LifeIs, FactsNext DEF LifeFacts
  <2>8. l \in {"idle", "armed"}
    OBVIOUS
  <2> QED
    BY <2>3, <2>4, <2>5, <2>7, <2>8, MapsCalls
<1>4. ASSUME NEW f \in Filters,
             \/ \E continuous \in BOOLEAN : SetFilter(t, f, continuous)
             \/ \E callback \in Callbacks : RegisterFilterCallback(t, f, callback)
      PROVE Filter!Next
  <2>1. \/ \E b \in BOOLEAN : flt' = [flt EXCEPT ![f].continuous = b]
        \/ \E k \in Callbacks : flt' = [flt EXCEPT ![f].cb = k]
    BY <1>4 DEF SetFilter, RegisterFilterCallback
  <2>2. \A g \in Filters : /\ flt'[g].status = flt[g].status
                           /\ flt'[g].session <=> flt[g].session
    BY <1>0, <2>1 DEF FltType, FilterRec
  <2> QED
    BY <1>0, <2>2, OtherStep
<1>5. ASSUME NEW f \in Filters, FreeCheck(t, f) PROVE Filter!Next
  <2>1. CASE t # Poll /\ flt[f].flag = "cb"
    <3>1. flt' = [flt EXCEPT ![f].wait_close = TRUE]
      BY <1>5, <2>1 DEF FreeCheck
    <3>2. \A g \in Filters : /\ flt'[g].status = flt[g].status
                             /\ flt'[g].session <=> flt[g].session
      BY <1>0, <3>1 DEF FltType, FilterRec
    <3> QED
      BY <1>0, <3>2, OtherStep
  <2>2. CASE ~(t # Poll /\ flt[f].flag = "cb")
    <3>1. Remove({f})
      BY <1>5, <2>2 DEF FreeCheck
    <3>2. t # Poll /\ InCallback /\ cur = f => ~flt[cur].session
      BY <2>2 DEF IInv, CursorInv
    <3> QED
      BY <1>0, <3>1, <3>2, RemoveStep
  <2> QED
    BY <2>1, <2>2
<1>6. ASSUME NEW c \in Channels, FreeFilterAll(t, c) \/ FreeChannel(t, c)
      PROVE Filter!Next
  <2>1. /\ Remove(FiltersOf(c)) /\ FiltersOf(c) \subseteq Filters
        /\ t # Poll => FiltersOf(c) = {}
    BY <1>6 DEF FreeFilterAll, FreeChannel, MayFreeAll, FiltersOf
  <2> QED
    BY <1>0, <2>1, RemoveStep
<1>7. CASE FreeAgain(t)
  <2>1. op[t].arg \in Filters
    BY <1>7 DEF FreeAgain, IInv, OpArgs
  <2> QED
    BY <1>5, <1>7, <2>1 DEF FreeAgain
<1>8. ASSUME NEW f \in Filters, FreeFilter(t, f) PROVE Filter!Next
  BY <1>5, <1>8 DEF FreeFilter
<1>9. CASE CallRest(t) \/ AllocateChannel(t) \/ SectionRequestPoll(t) \/ FreeWakes(t)
  BY <1>1, <1>9 DEF CallRest, FreeChannelEnd, PollRegister, PidRestart, AllocateChannel,
     SectionRequestPoll, FreeWakes
<1>10. ASSUME NEW c \in Channels, \/ ChannelStart(t, c) \/ ChannelStop(t, c)
                                  \/ SetChannelPidlist(t, c)
       PROVE Filter!Next
  BY <1>1, <1>10 DEF ChannelStart, ChannelStop, SetChannelPidlist
<1> QED
  BY <1>2, <1>3, <1>4, <1>6, <1>7, <1>8, <1>9, <1>10 DEF ChannelCall, FilterCall

LEMMA PollPromise ==
  ASSUME IInv, PollWait \/ Dispatch
  PROVE Filter!Next \/ UNCHANGED Filter!vars
<1>0. FltType /\ \A f \in Filters : flt[f] \in FilterRec
  BY DEF IInv, Types, FltType
<1>1. ASSUME ~InCallback, ~InCallback', UNCHANGED actor,
             \A f \in Filters : flt'[f].status = flt[f].status
      PROVE UNCHANGED Filter!vars
  BY <1>0, <1>1, LifeKeeps, BusyKeeps, MapsVars, MapsVarsNext
<1>2. CASE \/ PollWait \/ PollNext \/ VisitEnd \/ RecheckQuit \/ VisitPass \/ RecheckRequested
           \/ \E c \in Channels : DispatchQuit(c)
  <2>1. ~InCallback /\ ~InCallback' /\ UNCHANGED <<flt, actor>>
    BY <1>2 DEF PollWait, PollNext, VisitEnd, RecheckQuit, VisitPass, RecheckRequested,
       DispatchQuit, Return, InCallback
  <2> QED
    BY <1>1, <2>1
<1>3. CASE RecheckLost \/ \E c \in Channels : DispatchRead(c)
  <2>1. ~InCallback /\ ~InCallback' /\ UNCHANGED actor
    BY <1>3 DEF RecheckLost, DispatchRead, InCallback
  <2>2. ASSUME NEW f \in Filters
        PROVE \/ flt'[f] = flt[f] \/ flt'[f] = [flt[f] EXCEPT !.access = FALSE]
              \/ flt'[f] = [flt[f] EXCEPT !.session = FALSE]
    BY <1>3 DEF RecheckLost, DispatchRead
  <2>3. ASSUME NEW f \in Filters PROVE flt'[f].status = flt[f].status
    <3>1. flt[f] \in FilterRec
      BY <1>0
    <3> QED
      BY <2>2, <3>1 DEF FilterRec
  <2> QED
    BY <1>1, <2>1, <2>3
<1>4. CASE VisitMiss
  <2>1. ~InCallback /\ ~InCallback' /\ UNCHANGED actor
    BY <1>4 DEF VisitMiss, InCallback
  <2>2. \A f \in Filters : flt'[f].status = flt[f].status
    BY <1>0, <1>4 DEF VisitMiss, FltType, FilterRec
  <2> QED
    BY <1>1, <2>1, <2>2
<1>5. ASSUME NEW state \in {"request", "update"}, Call(state), ~InCallback,
             UNCHANGED <<cur, actor>>, cur \in Filters, flt[cur].status = "enable"
      PROVE Filter!Next
  <2>1. InCallback'
    BY <1>5 DEF Call, InCallback
  <2>2. flt'[cur].session /\ \A f \in Filters : flt'[f].status = flt[f].status
    BY <1>0, <1>5 DEF Call, FltType, FilterRec
  <2> QED
    BY <1>0, <1>5, <2>1, <2>2, BeginStep
<1>6. CASE VisitHit
  <2>1. /\ ~InCallback /\ UNCHANGED <<cur, actor>> /\ cur \in Filters
        /\ flt[cur].status = "enable"
    BY <1>6, SectionAssumption
    DEF VisitHit, InCallback, IInv, Types, PollType, Filters, Passes
  <2>2. CASE "req" \in flt[cur].cb
    BY <1>5, <1>6, <2>1, <2>2 DEF VisitHit
  <2>3. CASE "req" \notin flt[cur].cb
    <3>1. UNCHANGED flt /\ ~InCallback'
      BY <1>6, <2>3 DEF VisitHit, InCallback
    <3> QED
      BY <1>1, <2>1, <3>1
  <2> QED
    BY <2>2, <2>3
<1>7. CASE CallbackReturn
  <2>0. cur \in Filters
    BY <1>7 DEF CallbackReturn, InCallback, IInv, CursorInv
  <2>1. InCallback /\ ~InCallback' /\ UNCHANGED <<cur, actor>>
    BY <1>7 DEF CallbackReturn, InCallback
  <2>2. \A f \in Filters : flt'[f].status = flt[f].status
    BY <1>0, <1>7 DEF CallbackReturn, FltType, FilterRec
  <2>3. Busy[cur] # "no" /\ \A f \in Filters : Busy'[f] = [Busy EXCEPT ![cur] = "no"][f]
    BY <2>0, <2>1, BusyIs, FactsNext DEF BusyFacts
  <2>4. Busy' = [Busy EXCEPT ![cur] = "no"]
    BY <2>3, BusyIs, FactsNext DEF BusyFacts
  <2> QED
    BY <1>0, <2>0, <2>1, <2>2, <2>3, <2>4, LifeKeeps, MapsPoll
<1>8. CASE Deliver
  <2>1. ~InCallback /\ UNCHANGED actor /\ cur \in Filters /\ flt[cur].status = "enable"
    BY <1>8 DEF Deliver, InCallback, IInv, CursorInv
  <2>2. CASE "upd" \in flt[cur].cb
    BY <1>5, <1>8, <2>1, <2>2 DEF Deliver
  <2>3. CASE "upd" \notin flt[cur].cb
    BY <1>0, <1>8, <2>1, <2>3, FinishStep DEF Deliver
  <2> QED
    BY <2>2, <2>3
<1>9. CASE RecheckUpdated
  <2>1. /\ ~InCallback /\ UNCHANGED actor /\ cur \in Filters
        /\ flt[cur].status = "enable" /\ Finish
    BY <1>9 DEF RecheckUpdated, InCallback, IInv, CursorInv
  <2> QED
    BY <1>0, <2>1, FinishStep
<1> QED
  BY <1>2, <1>3, <1>4, <1>6, <1>7, <1>8, <1>9 DEF Dispatch

\* As long as users free the filters of a channel before the channel, the
\* threads with their flags and session ids keep the promise of DmxFilter: a
\* callback begins only on an enabled filter while no other callback runs, and
\* no thread but the callback's own frees a filter in its callback.
THEOREM KeepsFilterPromise == ~FreeAll => (Spec => FilterPromise)
<1> SUFFICES ASSUME ~FreeAll PROVE Spec => FilterPromise
  OBVIOUS
<1>1. Init => Filter!Init
  <2> SUFFICES ASSUME Init PROVE Filter!Init
    OBVIOUS
  <2>1. \A f \in Filters : Life[f] = "free"
    BY LifeIs DEF Init, ZeroFilter, LifeFacts
  <2>2. \A f \in Filters : Busy[f] = "no"
    BY BusyIs DEF Init, InCallback, BusyFacts
  <2>3. Life = [f \in Filters |-> "free"] /\ Busy = [f \in Filters |-> "no"]
    BY <2>1, <2>2, LifeIs, BusyIs DEF LifeFacts, BusyFacts
  <2> QED
    BY <2>3, MapsInit DEF Init
<1>2. IInv /\ [Next]_vars => [Filter!Next]_(Filter!vars)
  <2> SUFFICES ASSUME IInv, [Next]_vars PROVE Filter!Next \/ UNCHANGED Filter!vars
    OBVIOUS
  <2>1. CASE UNCHANGED vars
    <3>1. Life' = Life
      BY <2>1, LifeKeeps DEF vars, IInv, Types
    <3>2. Busy' = Busy
      BY <2>1, BusyKeeps DEF vars, pollVars, InCallback
    <3> QED
      BY <2>1, <3>1, <3>2, MapsVars, MapsVarsNext DEF vars
  <2> QED
    BY <2>1, CallPromise, PollPromise DEF Next
<1> QED
  BY <1>1, <1>2, SectionInv, PTL DEF Spec, FilterPromise, Filter!Spec
-----------------------------------------------------------------------------
(* What a blocked alisldmx_free_filter waits for.                          *)

\* The thread t is in alisldmx_free_filter, between two looks at flag.
Freeing(t) == op[t].call \in {"free", "sleep"}

\* Only the filter whose callback runs is flagged.
FlagInv == \A f \in Filters : flt[f].flag = "cb" => InCallback /\ f = cur

\* What thread t is about to free is allocated and has wait_close set.
Marked(t) == flt[op[t].arg].status # "none" /\ flt[op[t].arg].wait_close

\* Whoever waits to free a filter is the only one, and its mark stays.
WaitInv ==
  \A t \in Threads : Freeing(t) =>
    /\ t # Poll /\ Marked(t)
    /\ \A u \in Threads : Freeing(u) /\ op[u].arg = op[t].arg => u = t

FreeingInv == IInv /\ FlagInv /\ WaitInv

\* The steps the poll thread still spends on filter f with the section in hand.
Ahead(f) ==
  IF cur # f THEN 0
  ELSE IF pc = "request" THEN 4 ELSE IF pc = "requested" THEN 3
  ELSE IF pc = "deliver" THEN 2 ELSE IF pc = "update" THEN 1 ELSE 0

\* What a call of thread t does to the threads that wait to free a filter.
CallEffect(t) ==
  /\ UNCHANGED pollVars
  /\ \A f \in Filters : flt'[f].flag \in {flt[f].flag, "init"}
  /\ \A u \in Threads : u # t =>
       /\ op'[u] = op[u]
       /\ Freeing(u) => /\ flt'[op[u].arg].status = flt[op[u].arg].status
                        /\ flt'[op[u].arg].wait_close = flt[op[u].arg].wait_close
  /\ Freeing(t)' =>
       /\ t # Poll /\ Marked(t)'
       /\ \A u \in Threads : Freeing(u) /\ op[u].arg = op'[t].arg => u = t
  /\ Freeing(t) =>
       \/ FreeWakes(t) /\ Freeing(t)' /\ op'[t].arg = op[t].arg
       \/ /\ FreeAgain(t)
          /\ \/ Freeing(t)' /\ op'[t].arg = op[t].arg /\ flt[op[t].arg].flag = "cb"
             \/ op'[t] = Idle /\ flt'[op[t].arg].status = "none"

\* The calls that leave the filters alone.
LEMMA PlainCallEffect ==
  ASSUME FreeingInv, NEW t \in Threads,
         \/ CallRest(t) \/ AllocateChannel(t) \/ SectionRequestPoll(t)
         \/ \E c \in Channels : \/ ChannelStart(t, c) \/ ChannelStop(t, c)
                                \/ SetChannelPidlist(t, c)
  PROVE CallEffect(t)
<1>0. OpType /\ FltType
  BY DEF FreeingInv, IInv, Types
<1>1. UNCHANGED <<flt, pollVars>> /\ ~Freeing(t) /\ ~Freeing(t)'
      /\ \A u \in Threads : u # t => op'[u] = op[u]
  <2>1. CASE CallRest(t)
    BY <1>0, <2>1 DEF CallRest, FreeChannelEnd, PollRegister, PidRestart, Acts, Freeing,
       OpType, OpRec, Idle
  <2>2. CASE AllocateChannel(t) \/ SectionRequestPoll(t)
    BY <1>0, <2>2 DEF AllocateChannel, SectionRequestPoll, MayCall, Acts, Freeing, Idle
  <2>3. ASSUME NEW c \in Channels, \/ ChannelStart(t, c) \/ ChannelStop(t, c)
                                   \/ SetChannelPidlist(t, c)
        PROVE /\ UNCHANGED <<flt, pollVars>> /\ ~Freeing(t) /\ ~Freeing(t)'
              /\ \A u \in Threads : u # t => op'[u] = op[u]
    BY <1>0, <2>3 DEF ChannelStart, ChannelStop, SetChannelPidlist, MayCall, Acts, Freeing,
       Idle, OpType
  <2> QED
    BY <2>1, <2>2, <2>3
<1> QED
  BY <1>1 DEF CallEffect

\* The calls that change a filter nobody is freeing.
LEMMA FilterUpdateEffect ==
  ASSUME FreeingInv, NEW t \in Threads, NEW f \in Filters,
         \/ \E c \in Channels : AllocateFilter(t, c)
         \/ \E continuous \in BOOLEAN : SetFilter(t, f, continuous)
         \/ \E callback \in Callbacks : RegisterFilterCallback(t, f, callback)
         \/ \E status \in {"enable", "disable"} : ControlFilter(t, f, status)
  PROVE CallEffect(t)
<1>0. FltType /\ OpArgs /\ WaitInv
  BY DEF FreeingInv, IInv, Types
<1>1. UNCHANGED <<op, pollVars>> /\ ~Freeing(t) /\ ~Freeing(t)'
  <2>1. MayCall(t) /\ Acts(t) /\ UNCHANGED op
    BY DEF AllocateFilter, SetFilter, RegisterFilterCallback, ControlFilter
  <2> QED
    BY <2>1 DEF MayCall, Acts, Freeing, Idle
<1>2. PICK g \in Filters :
        /\ \A u \in Threads : Freeing(u) => op[u].arg # g
        /\ \A h \in Filters : h # g => flt'[h] = flt[h]
        /\ flt'[g].flag = flt[g].flag
  <2>1. ASSUME NEW c \in Channels, AllocateFilter(t, c)
        PROVE \E g \in Filters :
                /\ \A u \in Threads : Freeing(u) => op[u].arg # g
                /\ \A h \in Filters : h # g => flt'[h] = flt[h]
                /\ flt'[g].flag = flt[g].flag
    <3>1. PICK g \in Filters :
            /\ flt[g].status = "none"
            /\ flt' = [flt EXCEPT ![g].status = "disable", ![g].ch = c, ![g].pos = allocs + 1]
      BY <2>1 DEF AllocateFilter
    <3>2. \A u \in Threads : Freeing(u) => op[u].arg # g
      BY <1>0, <3>1 DEF WaitInv, Marked
    <3>3. /\ \A h \in Filters : h # g => flt'[h] = flt[h]
          /\ flt'[g].flag = flt[g].flag
      BY <1>0, <3>1 DEF FltType, FilterRec
    <3> QED
      BY <3>2, <3>3
  <2>2. CASE ~\E c \in Channels : AllocateFilter(t, c)
    <3>1. NotBeingFreed(f)
      BY <2>2 DEF SetFilter, RegisterFilterCallback, ControlFilter
    <3>2. \/ \E b \in BOOLEAN : flt' = [flt EXCEPT ![f].continuous = b]
          \/ \E k \in Callbacks : flt' = [flt EXCEPT ![f].cb = k]
          \/ \E s \in {"enable", "disable"} : flt' = [flt EXCEPT ![f].status = s]
      BY <2>2 DEF SetFilter, RegisterFilterCallback, ControlFilter
    <3>3. /\ \A h \in Filters : h # f => flt'[h] = flt[h]
          /\ flt'[f].flag = flt[f].flag
      BY <1>0, <3>2 DEF FltType, FilterRec
    <3> QED
      BY <3>1, <3>3 DEF NotBeingFreed, Freeing
  <2> QED
    BY <2>1, <2>2
<1>3. \A u \in Threads : Freeing(u) => op[u].arg \in Filters \ {g}
  BY <1>0, <1>2 DEF OpArgs, Freeing
<1> QED
  BY <1>1, <1>2, <1>3 DEF CallEffect

\* The calls that free filters.
LEMMA FreeEffect ==
  ASSUME FreeingInv, NEW t \in Threads,
         \/ FreeWakes(t) \/ FreeAgain(t) \/ \E f \in Filters : FreeFilter(t, f)
         \/ \E c \in Channels : FreeFilterAll(t, c) \/ FreeChannel(t, c)
  PROVE CallEffect(t)
<1>0. FltType /\ OpType /\ OpArgs /\ WaitInv
  BY DEF FreeingInv, IInv, Types
<1>1. ZeroFilter.flag = "init" /\ ZeroFilter.status = "none"
  BY DEF ZeroFilter
<1>2. CASE FreeWakes(t)
  <2>1. UNCHANGED <<flt, pollVars>> /\ op' = [op EXCEPT ![t].call = "free"]
        /\ Freeing(t)
    BY <1>2 DEF FreeWakes, Acts, Freeing
  <2>2. /\ Freeing(t)' /\ op'[t].arg = op[t].arg
        /\ \A u \in Threads : u # t => op'[u] = op[u]
    BY <1>0, <2>1 DEF OpType, OpRec, Freeing
  <2> QED
    BY <1>0, <1>2, <2>1, <2>2 DEF CallEffect, WaitInv, Marked
<1>3. ASSUME NEW f \in Filters, FreeCheck(t, f), UNCHANGED pollVars,
             flt[f].status # "none", Freeing(t) => FreeAgain(t) /\ op[t].arg = f,
             \A u \in Threads : Freeing(u) /\ op[u].arg = f => u = t
      PROVE CallEffect(t)
  <2>1. CASE t # Poll /\ flt[f].flag = "cb"
    <3>1. /\ flt' = [flt EXCEPT ![f].wait_close = TRUE]
          /\ op' = [op EXCEPT ![t] = [call |-> "sleep", arg |-> f]]
      BY <1>3, <2>1 DEF FreeCheck
    <3>2. /\ \A h \in Filters : /\ flt'[h].status = flt[h].status
                                /\ flt'[h].flag = flt[h].flag
                                /\ h # f => flt'[h] = flt[h]
          /\ flt'[f].wait_close
      BY <1>0, <3>1 DEF FltType, FilterRec
    <3>3. /\ op'[t] = [call |-> "sleep", arg |-> f]
          /\ \A u \in Threads : u # t => op'[u] = op[u]
      BY <1>0, <3>1 DEF OpType
    <3>4. Freeing(t)' /\ op'[t].arg = f
      BY <3>3 DEF Freeing
    <3>5. Marked(t)'
      BY <1>3, <3>2, <3>4 DEF Marked
    <3>6. \A u \in Threads : u # t /\ Freeing(u) => op[u].arg \in Filters \ {f}
      BY <1>0, <1>3 DEF OpArgs, Freeing
    <3> QED
      BY <1>3, <2>1, <3>2, <3>3, <3>4, <3>5, <3>6 DEF CallEffect
  <2>2. CASE ~(t # Poll /\ flt[f].flag = "cb")
    <3>1. Remove({f}) /\ op' = [op EXCEPT ![t] = Idle]
      BY <1>3, <2>2 DEF FreeCheck
    <3>2. \A h \in Filters : flt'[h] = IF h = f THEN ZeroFilter ELSE flt[h]
      BY <3>1 DEF Remove
    <3>3. op'[t] = Idle /\ \A u \in Threads : u # t => op'[u] = op[u]
      BY <1>0, <3>1 DEF OpType
    <3>4. ~Freeing(t)'
      BY <3>3 DEF Freeing, Idle
    <3>5. \A u \in Threads : u # t /\ Freeing(u) => op[u].arg \in Filters \ {f}
      BY <1>0, <1>3 DEF OpArgs, Freeing
    <3> QED
      BY <1>1, <1>3, <3>2, <3>3, <3>4, <3>5 DEF CallEffect
  <2> QED
    BY <2>1, <2>2
<1>4. CASE FreeAgain(t)
  <2>1. /\ Freeing(t) /\ op[t].arg \in Filters /\ FreeCheck(t, op[t].arg)
        /\ UNCHANGED pollVars
    BY <1>0, <1>4 DEF FreeAgain, Freeing, OpArgs, Acts
  <2> QED
    BY <1>0, <1>3, <1>4, <2>1 DEF WaitInv, Marked
<1>5. ASSUME NEW f \in Filters, FreeFilter(t, f) PROVE CallEffect(t)
  <2>1. /\ ~Freeing(t) /\ FreeCheck(t, f) /\ UNCHANGED pollVars /\ flt[f].status # "none"
        /\ \A u \in Threads : Freeing(u) => op[u].arg # f
    BY <1>5 DEF FreeFilter, MayCall, Idle, Freeing, Acts, NotBeingFreed
  <2> QED
    BY <1>3, <2>1
<1>6. ASSUME NEW c \in Channels, FreeFilterAll(t, c) \/ FreeChannel(t, c)
      PROVE CallEffect(t)
  <2>1. /\ Remove(FiltersOf(c)) /\ UNCHANGED pollVars /\ ~Freeing(t)
        /\ \A f \in FiltersOf(c) : NotBeingFreed(f)
    BY <1>6 DEF FreeFilterAll, FreeChannel, MayFreeAll, MayCall, Idle, Freeing, Acts
  <2>2. ~Freeing(t)' /\ \A u \in Threads : u # t => op'[u] = op[u]
    BY <1>0, <1>6, <2>1 DEF FreeFilterAll, FreeChannel, Freeing, OpType
  <2>3. \A f \in Filters : flt'[f] = IF f \in FiltersOf(c) THEN ZeroFilter ELSE flt[f]
    BY <2>1 DEF Remove
  <2>4. \A u \in Threads : Freeing(u) => op[u].arg \in Filters \ FiltersOf(c)
    BY <1>0, <2>1 DEF OpArgs, Freeing, NotBeingFreed
  <2> QED
    BY <1>1, <2>1, <2>2, <2>3, <2>4 DEF CallEffect
<1> QED
  BY <1>2, <1>4, <1>5, <1>6

LEMMA CallFreeing ==
  ASSUME FreeingInv, NEW t \in Threads, ChannelCall(t) \/ FilterCall(t)
  PROVE CallEffect(t)
<1>1. 1 \in Filters
  BY SectionAssumption DEF Filters
<1> QED
  BY <1>1, PlainCallEffect, FilterUpdateEffect, FreeEffect DEF ChannelCall, FilterCall

LEMMA CallKeepsFreeing ==
  ASSUME FreeingInv, NEW t \in Threads, CallEffect(t)
  PROVE FlagInv' /\ WaitInv'
<1>1. FlagInv'
  BY DEF FreeingInv, FlagInv, CallEffect, pollVars, InCallback
<1>2. ASSUME NEW u \in Threads, Freeing(u)'
      PROVE u # Poll /\ Marked(u)'
  <2>1. CASE u = t
    BY <1>2, <2>1 DEF CallEffect
  <2>2. CASE u # t
    <3>1. op'[u] = op[u] /\ Freeing(u)
      BY <1>2, <2>2 DEF CallEffect, Freeing
    <3> QED
      BY <2>2, <3>1 DEF CallEffect, Marked, FreeingInv, WaitInv
  <2> QED
    BY <2>1, <2>2
<1>3. ASSUME NEW u \in Threads, NEW v \in Threads, Freeing(u)', Freeing(v)',
             op'[u].arg = op'[v].arg
      PROVE u = v
  <2>1. ASSUME NEW w \in Threads, w # t, Freeing(w)'
        PROVE op'[w] = op[w] /\ Freeing(w)
    BY <2>1 DEF CallEffect, Freeing
  <2>2. CASE u # t /\ v # t
    BY <1>3, <2>1, <2>2 DEF FreeingInv, WaitInv
  <2>3. CASE u = t \/ v = t
    BY <1>3, <2>1, <2>3 DEF CallEffect
  <2> QED
    BY <2>2, <2>3
<1> QED
  BY <1>1, <1>2, <1>3 DEF WaitInv

\* What the poll thread does to a filter: it never clears wait_close, never
\* frees, and flags only the filter whose callback it calls, which is not one
\* that is about to be closed when the walk comes to it.
PollEffect ==
  /\ UNCHANGED op
  /\ \A f \in Filters : /\ flt'[f].status = "none" <=> flt[f].status = "none"
                        /\ flt'[f].wait_close = flt[f].wait_close
  /\ FlagInv'
  /\ \A f \in Filters : flt[f].wait_close =>
       /\ Ahead(f)' <= Ahead(f)
       /\ Ahead(f) > 0 /\ Dispatch => Ahead(f)' < Ahead(f)

LEMMA PollFreeing ==
  ASSUME FreeingInv, PollWait \/ Dispatch
  PROVE PollEffect
<1>0. FltType /\ PollType /\ CursorInv /\ FlagInv /\ \A f \in Filters : flt[f] \in FilterRec
  BY DEF FreeingInv, IInv, Types, FltType
<1>1. ASSUME ~InCallback, UNCHANGED op, pc' \in {"wait", "next", "visit"},
             \A f \in Filters : /\ flt'[f].status = "none" <=> flt[f].status = "none"
                                /\ flt'[f].wait_close = flt[f].wait_close
                                /\ flt'[f].flag = flt[f].flag
      PROVE PollEffect
  <2>1. \A f \in Filters : flt'[f].flag # "cb"
    BY <1>0, <1>1 DEF FlagInv
  <2>2. \A f \in Filters : Ahead(f)' = 0 /\ Ahead(f) \in Nat
    BY <1>1 DEF Ahead
  <2> QED
    BY <1>1, <2>1, <2>2 DEF PollEffect, FlagInv
<1>2. CASE \/ PollWait \/ PollNext \/ VisitEnd \/ RecheckQuit \/ VisitPass
           \/ \E c \in Channels : DispatchQuit(c)
  <2>1. ~InCallback /\ UNCHANGED <<op, flt>> /\ pc' \in {"wait", "next", "visit"}
    BY <1>2 DEF PollWait, PollNext, VisitEnd, RecheckQuit, VisitPass, DispatchQuit, Return,
       InCallback
  <2> QED
    BY <1>1, <2>1
<1>3. CASE RecheckLost \/ \E c \in Channels : DispatchRead(c)
  <2>1. ~InCallback /\ UNCHANGED op /\ pc' = "visit"
    BY <1>3 DEF RecheckLost, DispatchRead, InCallback
  <2>2. ASSUME NEW f \in Filters
        PROVE \/ flt'[f] = flt[f] \/ flt'[f] = [flt[f] EXCEPT !.access = FALSE]
              \/ flt'[f] = [flt[f] EXCEPT !.session = FALSE]
    BY <1>3 DEF RecheckLost, DispatchRead
  <2>3. ASSUME NEW f \in Filters
        PROVE /\ flt'[f].status = flt[f].status /\ flt'[f].wait_close = flt[f].wait_close
              /\ flt'[f].flag = flt[f].flag
    <3>1. flt[f] \in FilterRec
      BY <1>0
    <3> QED
      BY <2>2, <3>1 DEF FilterRec
  <2> QED
    BY <1>1, <2>1, <2>3
<1>4. CASE VisitMiss
  <2>1. ~InCallback /\ UNCHANGED op /\ pc' = "visit"
    BY <1>4 DEF VisitMiss, InCallback
  <2>2. \A f \in Filters : /\ flt'[f].status = flt[f].status
                           /\ flt'[f].wait_close = flt[f].wait_close
                           /\ flt'[f].flag = flt[f].flag
    BY <1>0, <1>4 DEF VisitMiss, FltType, FilterRec
  <2> QED
    BY <1>1, <2>1, <2>2
<1>5. ASSUME NEW state \in {"request", "update"}, Call(state), ~InCallback,
             UNCHANGED <<cur, op>>, cur \in Filters
      PROVE /\ pc' = state /\ cur' = cur /\ UNCHANGED op /\ FlagInv'
            /\ \A f \in Filters : /\ flt'[f].status = flt[f].status
                                  /\ flt'[f].wait_close = flt[f].wait_close
  <2>1. \A f \in Filters : /\ flt'[f].status = flt[f].status
                           /\ flt'[f].wait_close = flt[f].wait_close
                           /\ f # cur => flt'[f] = flt[f]
    BY <1>0, <1>5 DEF Call, FltType, FilterRec
  <2>2. FlagInv'
    BY <1>0, <1>5, <2>1 DEF FlagInv, Call, InCallback
  <2> QED
    BY <1>5, <2>1, <2>2 DEF Call
<1>6. CASE VisitHit
  <2>1. /\ ~InCallback /\ UNCHANGED <<cur, op>> /\ cur \in Filters
        /\ ~flt[cur].wait_close /\ pc = "visit"
    BY <1>0, <1>6, SectionAssumption DEF VisitHit, InCallback, PollType, Filters, Passes
  <2>2. CASE "req" \in flt[cur].cb
    <3>1. Call("request")
      BY <1>6, <2>2 DEF VisitHit
    <3>2. /\ FlagInv'
          /\ \A f \in Filters : /\ flt'[f].status = flt[f].status
                                /\ flt'[f].wait_close = flt[f].wait_close
      BY <1>5, <2>1, <3>1
    <3>3. \A f \in Filters : flt[f].wait_close => Ahead(f)' = 0 /\ Ahead(f) = 0
      BY <2>1 DEF Ahead
    <3> QED
      BY <2>1, <3>2, <3>3 DEF PollEffect
  <2>3. CASE "req" \notin flt[cur].cb
    <3>1. UNCHANGED flt
      BY <1>6, <2>3 DEF VisitHit
    <3>2. FlagInv'
      BY <1>0, <2>1, <3>1 DEF FlagInv
    <3>3. \A f \in Filters : flt[f].wait_close => Ahead(f)' = 0 /\ Ahead(f) = 0
      BY <2>1 DEF Ahead
    <3> QED
      BY <2>1, <3>1, <3>2, <3>3 DEF PollEffect
  <2> QED
    BY <2>2, <2>3
<1>7. CASE CallbackReturn
  <2>0. cur \in Filters
    BY <1>0, <1>7 DEF CallbackReturn, InCallback, CursorInv
  <2>1. UNCHANGED <<cur, op>>
    BY <1>7 DEF CallbackReturn
  <2>2. \A f \in Filters : /\ flt'[f].status = flt[f].status
                           /\ flt'[f].wait_close = flt[f].wait_close
                           /\ flt'[f].flag = IF f = cur THEN "dispatch" ELSE flt[f].flag
    BY <1>0, <1>7 DEF CallbackReturn, FltType, FilterRec
  <2>3. FlagInv'
    BY <1>0, <2>1, <2>2 DEF FlagInv
  <2>4. \A f \in Filters : /\ Ahead(f)' <= Ahead(f)
                           /\ Ahead(f) > 0 => Ahead(f)' < Ahead(f)
    BY <1>7, <2>1 DEF CallbackReturn, InCallback, Ahead
  <2> QED
    BY <2>1, <2>2, <2>3, <2>4 DEF PollEffect
<1>8. ASSUME Finish, UNCHANGED op, ~InCallback, cur \in Filters, flt[cur].status = "enable"
      PROVE PollEffect
  <2>1. \A f \in Filters : /\ flt'[f].status = "none" <=> flt[f].status = "none"
                           /\ flt'[f].wait_close = flt[f].wait_close
                           /\ flt'[f].flag = flt[f].flag
    BY <1>0, <1>8 DEF Finish, FltType, FilterRec
  <2> QED
    BY <1>1, <1>8, <2>1 DEF Finish
<1>9. CASE Deliver
  <2>1. /\ ~InCallback /\ UNCHANGED op /\ cur \in Filters /\ flt[cur].status = "enable"
        /\ pc = "deliver"
    BY <1>0, <1>9 DEF Deliver, InCallback, CursorInv
  <2>2. CASE "upd" \in flt[cur].cb
    <3>1. Call("update") /\ UNCHANGED cur
      BY <1>9, <2>2 DEF Deliver
    <3>2. /\ FlagInv' /\ pc' = "update"
          /\ \A f \in Filters : /\ flt'[f].status = flt[f].status
                                /\ flt'[f].wait_close = flt[f].wait_close
      BY <1>5, <2>1, <3>1
    <3>3. \A f \in Filters : /\ Ahead(f)' <= Ahead(f)
                             /\ Ahead(f) > 0 => Ahead(f)' < Ahead(f)
      BY <2>1, <3>1, <3>2 DEF Ahead
    <3> QED
      BY <2>1, <3>2, <3>3 DEF PollEffect
  <2>3. CASE "upd" \notin flt[cur].cb
    BY <1>8, <1>9, <2>1, <2>3 DEF Deliver
  <2> QED
    BY <2>2, <2>3
<1>10. CASE RecheckUpdated
  <2>1. /\ ~InCallback /\ UNCHANGED op /\ cur \in Filters
        /\ flt[cur].status = "enable" /\ Finish
    BY <1>0, <1>10 DEF RecheckUpdated, InCallback, CursorInv
  <2> QED
    BY <1>8, <2>1
<1>11. CASE RecheckRequested
  <2>1. ~InCallback /\ UNCHANGED <<op, flt>> /\ pc = "requested"
    BY <1>11 DEF RecheckRequested, InCallback
  <2>2. CASE pc' = "visit"
    BY <1>1, <2>1, <2>2
  <2>3. CASE pc' = "deliver" /\ UNCHANGED cur
    <3>1. FlagInv'
      BY <1>0, <2>1 DEF FlagInv
    <3>2. \A f \in Filters : /\ Ahead(f)' <= Ahead(f)
                             /\ Ahead(f) > 0 => Ahead(f)' < Ahead(f)
      BY <2>1, <2>3 DEF Ahead
    <3> QED
      BY <2>1, <3>1, <3>2 DEF PollEffect
  <2> QED
    BY <1>11, <2>2, <2>3 DEF RecheckRequested
<1> QED
  BY <1>2, <1>3, <1>4, <1>6, <1>7, <1>9, <1>10, <1>11 DEF Dispatch

LEMMA PollKeepsFreeing ==
  ASSUME FreeingInv, PollEffect
  PROVE FlagInv' /\ WaitInv'
<1>1. ASSUME NEW t \in Threads, Freeing(t)
      PROVE Marked(t)'
  BY <1>1 DEF PollEffect, FreeingInv, IInv, OpArgs, WaitInv, Marked, Freeing
<1>2. \A t \in Threads : Freeing(t)' <=> Freeing(t)
  BY DEF PollEffect, Freeing
<1> QED
  BY <1>1, <1>2 DEF PollEffect, FreeingInv, WaitInv

LEMMA FreeingStep == FreeingInv /\ [Next]_vars => FreeingInv'
<1> SUFFICES ASSUME FreeingInv, [Next]_vars PROVE FreeingInv'
  OBVIOUS
<1>1. IInv'
  BY StepInv DEF FreeingInv
<1>2. CASE UNCHANGED vars
  BY <1>1, <1>2 DEF FreeingInv, FlagInv, WaitInv, Marked, Freeing, InCallback, vars, pollVars
<1>3. ASSUME NEW t \in Threads, ChannelCall(t) \/ FilterCall(t) PROVE FreeingInv'
  BY <1>1, <1>3, CallFreeing, CallKeepsFreeing DEF FreeingInv
<1>4. CASE PollWait \/ Dispatch
  BY <1>1, <1>4, PollFreeing, PollKeepsFreeing DEF FreeingInv
<1> QED
  BY <1>2, <1>3, <1>4 DEF Next

\* A thread that waits in alisldmx_free_filter is the only one to free its
\* filter, which stays allocated and marked; and dev->filters has CB only in the
\* filter whose callback runs.
THEOREM WaitStaysMarked == Spec => []FreeingInv
<1>1. Init => FreeingInv
  BY InitInv DEF Init, FreeingInv, FlagInv, WaitInv, Freeing, Idle, ZeroFilter
<1> QED
  BY <1>1, FreeingStep, PTL DEF Spec

\* A step while u waits to free filter f: the poll thread's work on f only gets
\* less, by every step of its own as long as there is any; u sleeps again only
\* while there is some; otherwise its next look at flag frees the filter.
NearsFree(u) ==
  LET f == op[u].arg IN
  Freeing(u) =>
    \/ /\ Freeing(u)' /\ op'[u].arg = f /\ Ahead(f)' <= Ahead(f)
       /\ Dispatch /\ Ahead(f) > 0 => Ahead(f)' < Ahead(f)
       /\ FreeAgain(u) => Ahead(f) > 0
    \/ FreeAgain(u) /\ op'[u] = Idle /\ flt'[f].status = "none"

\* What alisldmx_free_filter waits for is bounded, however often sections
\* arrive: the request and the update callback of the section in hand.  This is
\* FreeEnds without its fairness.
THEOREM FreeNears == Spec => [][\A u \in Users : NearsFree(u)]_vars
<1> DEFINE A == \A u \in Users : NearsFree(u)
<1>1. ASSUME FreeingInv, [Next]_vars PROVE [A]_vars
  <2> SUFFICES ASSUME Next, NEW u \in Users, Freeing(u) PROVE NearsFree(u)
    BY <1>1 DEF NearsFree
  <2>0. u \in Threads /\ op[u].arg \in Filters /\ flt[op[u].arg].wait_close
    BY <1>1 DEF Threads, FreeingInv, IInv, OpArgs, Freeing, WaitInv, Marked
  <2>1. ASSUME NEW t \in Threads, ChannelCall(t) \/ FilterCall(t), ~Dispatch
        PROVE NearsFree(u)
    <3>1. CallEffect(t) /\ actor' = t
      BY <1>1, <2>1, CallFreeing, CallActs DEF Acts
    <3>2. Ahead(op[u].arg)' = Ahead(op[u].arg) \/ op'[u].arg # op[u].arg
      BY <3>1 DEF CallEffect, pollVars, Ahead
    <3>3. Ahead(op[u].arg) \in Nat
      BY DEF Ahead
    <3>4. CASE u # t
      <4>1. op'[u] = op[u] /\ Freeing(u)'
        BY <2>0, <3>1, <3>4 DEF CallEffect, Freeing
      <4>2. ~FreeAgain(u)
        BY <3>1, <3>4 DEF FreeAgain, Acts
      <4> QED
        BY <2>1, <3>2, <3>3, <4>1, <4>2 DEF NearsFree
    <3>5. CASE u = t
      <4>1. CASE FreeWakes(u) /\ Freeing(u)' /\ op'[u].arg = op[u].arg
        <5>1. ~FreeAgain(u)
          BY <4>1 DEF FreeWakes, FreeAgain
        <5> QED
          BY <2>1, <3>2, <3>3, <4>1, <5>1 DEF NearsFree
      <4>2. CASE Freeing(u)' /\ op'[u].arg = op[u].arg /\ flt[op[u].arg].flag = "cb"
        <5>1. Ahead(op[u].arg) > 0
          BY <1>1, <2>0, <4>2 DEF FreeingInv, FlagInv, InCallback, Ahead
        <5> QED
          BY <2>1, <3>2, <3>3, <4>2, <5>1 DEF NearsFree
      <4>3. CASE FreeAgain(u) /\ op'[u] = Idle /\ flt'[op[u].arg].status = "none"
        BY <4>3 DEF NearsFree
      <4> QED
        BY <3>1, <3>5, <4>1, <4>2, <4>3 DEF CallEffect
    <3> QED
      BY <3>4, <3>5
  <2>2. CASE PollWait \/ Dispatch
    <3>1. PollEffect
      BY <1>1, <2>2, PollFreeing
    <3>2. Freeing(u)' /\ op'[u] = op[u]
      BY <3>1 DEF PollEffect, Freeing
    <3>3. ~FreeAgain(u)
      <4>1. op \in [Threads -> OpRec]
        BY <1>1 DEF FreeingInv, IInv, Types, OpType
      <4> QED
        BY <2>0, <3>2, <4>1 DEF FreeAgain, FreeCheck, Idle
    <3>4. /\ Ahead(op[u].arg)' <= Ahead(op[u].arg)
          /\ Ahead(op[u].arg) > 0 /\ Dispatch => Ahead(op[u].arg)' < Ahead(op[u].arg)
      <4>1. ASSUME NEW f \in Filters, f = op[u].arg, f = op'[u].arg
            PROVE /\ Ahead(op[u].arg)' = Ahead(f)' /\ Ahead(op[u].arg) = Ahead(f)
        BY <4>1 DEF Ahead
      <4>2. PICK f \in Filters : f = op[u].arg
        BY <2>0
      <4>3. /\ Ahead(f)' <= Ahead(f)
            /\ Ahead(f) > 0 /\ Dispatch => Ahead(f)' < Ahead(f)
        BY <2>0, <3>1, <4>2 DEF PollEffect
      <4> QED
        BY <3>2, <4>1, <4>2, <4>3
    <3> QED
      BY <3>2, <3>3, <3>4 DEF NearsFree
  <2> QED
    BY <2>1, <2>2 DEF Next
<1> QED
  BY <1>1, WaitStaysMarked, PTL DEF Spec
=============================================================================
