------------------------------ MODULE SlEvent -------------------------------
(***************************************************************************)
(* libalislevent: one epoll instance and one loop thread, shared by every  *)
(* library of the process that waits for a device (hdmi, gpio, input, smc, *)
(* cic...).  Each user opens the module, adds the alislevent of its own    *)
(* file descriptor and later removes it and closes the module.  The loop   *)
(* thread is detached: a close tells it to stop and does not wait, so loop *)
(* threads of earlier openings are still about when a new one is created.  *)
(*                                                                         *)
(* A user stands for its slev and its fd.  An epoll instance is numbered;  *)
(* 0 is eplfd = -1.  The events mask, hence alislevent_mod, is left out.   *)
(***************************************************************************)
EXTENDS Integers

CONSTANTS
  Users,
  MaxEplfd,     \* bound: epoll instances created
  MaxThreads,   \* bound: loop threads created
  DelFirst      \* users call alislevent_del before alislevent_close

ASSUME BoundAssumption ==
  /\ MaxEplfd \in Nat \ {0} /\ MaxThreads \in Nat \ {0}
  /\ DelFirst \in BOOLEAN

VARIABLES
  \* m_alislevent, and the number of instances and threads created
  open_cnt, eplfd, running, instances, threads,
  \* the kernel: the interest list of each instance, the fds with data
  interest, ready,
  \* each loop thread: where it is, its epoll_wait, its events, its slev
  tpc, tfd, evnts, slev,
  \* each user
  upc

eventVars == <<open_cnt, eplfd, running, instances, threads>>
kernelVars == <<interest, ready>>
loopVars == <<tpc, tfd, evnts, slev>>
vars == <<eventVars, kernelVars, loopVars, upc>>

Eplfds == 1..MaxEplfd
Threads == 1..MaxThreads

\* Every piece of state of the event module, the kernel and the users keeps
\* its type.
TypeOK ==
  /\ open_cnt \in Nat /\ eplfd \in 0..MaxEplfd /\ running \in BOOLEAN
  /\ instances \in 0..MaxEplfd /\ threads \in 0..MaxThreads
  /\ interest \in [Eplfds -> SUBSET Users] /\ ready \subseteq Users
  /\ tpc \in [Threads -> {"none", "check", "enter", "poll", "dispatch",
                          "recheck", "callback", "exit"}]
  /\ tfd \in [Threads -> 0..MaxEplfd] /\ evnts \in [Threads -> SUBSET Users]
  /\ slev \in [Threads -> SUBSET Users]
  /\ upc \in [Users -> {"closed", "open", "adding", "added"}]

Init ==
  /\ open_cnt = 0 /\ eplfd = 0 /\ running = FALSE
  /\ instances = 0 /\ threads = 0
  /\ interest = [e \in Eplfds |-> {}] /\ ready = {}
  /\ tpc = [t \in Threads |-> "none"] /\ tfd = [t \in Threads |-> 0]
  /\ evnts = [t \in Threads |-> {}] /\ slev = [t \in Threads |-> {}]
  /\ upc = [u \in Users |-> "closed"]
-----------------------------------------------------------------------------
(* The users.                                                              *)

\* alislevent_open: the first one creates the epoll instance.
Open(u) ==
  /\ upc[u] = "closed" /\ upc' = [upc EXCEPT ![u] = "open"]
  /\ IF open_cnt < 1
     THEN /\ instances < MaxEplfd
          /\ instances' = instances + 1 /\ eplfd' = instances + 1
     ELSE UNCHANGED <<instances, eplfd>>
  /\ open_cnt' = open_cnt + 1
  /\ UNCHANGED <<running, threads, kernelVars, loopVars>>

\* alislevent_add, before the lock: EPOLL_CTL_ADD fails on an fd that an
\* earlier opening left in the instance.
AddCtl(u) ==
  /\ upc[u] = "open" /\ u \notin interest[eplfd]
  /\ upc' = [upc EXCEPT ![u] = "adding"]
  /\ interest' = [interest EXCEPT ![eplfd] = @ \cup {u}]
  /\ UNCHANGED <<eventVars, ready, loopVars>>

\* alislevent_add, under the lock: the first fd creates the loop thread; if
\* that fails the fd is removed again.
AddStart(u) ==
  /\ upc[u] = "adding"
  /\ \/ /\ running
        /\ upc' = [upc EXCEPT ![u] = "added"]
        /\ UNCHANGED <<running, threads, tpc, interest>>
     \/ /\ ~running /\ threads < MaxThreads
        /\ running' = TRUE /\ threads' = threads + 1
        /\ tpc' = [tpc EXCEPT ![threads + 1] = "check"]
        /\ upc' = [upc EXCEPT ![u] = "added"]
        /\ UNCHANGED interest
     \/ /\ ~running
        /\ upc' = [upc EXCEPT ![u] = "open"]
        /\ interest' = [interest EXCEPT ![eplfd] = @ \ {u}]
        /\ UNCHANGED <<running, threads, tpc>>
  /\ UNCHANGED <<open_cnt, eplfd, instances, ready, tfd, evnts, slev>>

Del(u) ==
  /\ upc[u] = "added" /\ upc' = [upc EXCEPT ![u] = "open"]
  /\ interest' = [interest EXCEPT ![eplfd] = @ \ {u}]
  /\ UNCHANGED <<eventVars, ready, loopVars>>

\* Slip: a close too many is not refused.
CloseUnchecked(u) ==
  /\ upc[u] \in {"closed", "open"}
  /\ upc' = [upc EXCEPT ![u] = "closed"]
  /\ open_cnt' = open_cnt - 1
  /\ UNCHANGED <<eplfd, running, instances, threads, kernelVars, loopVars>>

\* alislevent_close: the last one stops the loop and closes the instance.
Close(u) ==
  /\ upc[u] = "open" \/ (upc[u] = "added" /\ ~DelFirst)
  /\ upc' = [upc EXCEPT ![u] = "closed"]
  /\ open_cnt' = open_cnt - 1
  /\ IF open_cnt = 1 THEN running' = FALSE /\ eplfd' = 0
                     ELSE UNCHANGED <<running, eplfd>>
  /\ UNCHANGED <<instances, threads, kernelVars, loopVars>>

\* The device of a user has something to say.
DataArrives(u) ==
  /\ u \notin ready /\ ready' = ready \cup {u}
  /\ UNCHANGED <<eventVars, interest, loopVars, upc>>
-----------------------------------------------------------------------------
(* alislevent_func, the loop thread.                                       *)
\* Slip: the loop does not look at running before it waits.
LoopCheckNot(t) ==
  /\ tpc[t] = "check" /\ tpc' = [tpc EXCEPT ![t] = "enter"]
  /\ UNCHANGED <<eventVars, kernelVars, tfd, evnts, slev, upc>>

LoopCheck(t) ==
  /\ tpc[t] = "check"
  /\ tpc' = [tpc EXCEPT ![t] = IF running THEN "enter" ELSE "exit"]
  /\ UNCHANGED <<eventVars, kernelVars, tfd, evnts, slev, upc>>

\* epoll_wait on *eplfd, read without the lock: a closed one is EBADF.
LoopEnter(t) ==
  /\ tpc[t] = "enter"
  /\ tpc' = [tpc EXCEPT ![t] = IF eplfd = 0 THEN "exit" ELSE "poll"]
  /\ tfd' = [tfd EXCEPT ![t] = eplfd]
  /\ UNCHANGED <<eventVars, kernelVars, evnts, slev, upc>>

\* Slip: the loop ends when epoll_wait times out.
LoopPollOnce(t) ==
  LET found == ready \cap interest[tfd[t]] IN
  /\ tpc[t] = "poll"
  /\ tpc' = [tpc EXCEPT ![t] = IF found = {} THEN "exit" ELSE "dispatch"]
  /\ evnts' = [evnts EXCEPT ![t] = found]
  /\ tfd' = [tfd EXCEPT ![t] = 0]
  /\ UNCHANGED <<eventVars, kernelVars, slev, upc>>

\* epoll_wait returns events, or nothing after EPL_TOUT or on EINTR.  It goes
\* on with the instance it was called on when another thread closes that.
LoopPoll(t) ==
  LET found == ready \cap interest[tfd[t]] IN
  /\ tpc[t] = "poll"
  /\ tpc' = [tpc EXCEPT ![t] = IF found = {} THEN "check" ELSE "dispatch"]
  /\ evnts' = [evnts EXCEPT ![t] = found]
  /\ tfd' = [tfd EXCEPT ![t] = 0]
  /\ UNCHANGED <<eventVars, kernelVars, slev, upc>>

\* The next event: its slev is copied before anything is checked.
LoopDispatch(t) ==
  /\ tpc[t] = "dispatch"
  /\ \/ /\ evnts[t] = {} /\ tpc' = [tpc EXCEPT ![t] = "check"]
        /\ UNCHANGED <<evnts, slev>>
     \/ \E u \in evnts[t] :
          /\ evnts' = [evnts EXCEPT ![t] = @ \ {u}]
          /\ slev' = [slev EXCEPT ![t] = {u}]
          /\ tpc' = [tpc EXCEPT ![t] = "recheck"]
  /\ UNCHANGED <<eventVars, kernelVars, tfd, upc>>

\* "Check the running flag again"
LoopRecheck(t) ==
  /\ tpc[t] = "recheck"
  /\ tpc' = [tpc EXCEPT ![t] = IF running THEN "callback" ELSE "check"]
  /\ evnts' = [evnts EXCEPT ![t] = IF running THEN @ ELSE {}]
  /\ slev' = [slev EXCEPT ![t] = IF running THEN @ ELSE {}]
  /\ UNCHANGED <<eventVars, kernelVars, tfd, upc>>

\* slev.cb reads what the device has.
LoopCallback(t) ==
  /\ tpc[t] = "callback" /\ tpc' = [tpc EXCEPT ![t] = "dispatch"]
  /\ ready' = ready \ slev[t] /\ slev' = [slev EXCEPT ![t] = {}]
  /\ UNCHANGED <<eventVars, interest, tfd, evnts, upc>>

Loop(t) == \/ LoopCheck(t) \/ LoopEnter(t) \/ LoopPoll(t)
           \/ LoopDispatch(t) \/ LoopRecheck(t) \/ LoopCallback(t)
-----------------------------------------------------------------------------
User(u) == Open(u) \/ AddCtl(u) \/ AddStart(u) \/ Del(u) \/ Close(u) \/ DataArrives(u)

Next == (\E u \in Users : User(u)) \/ (\E t \in Threads : Loop(t))

Spec == Init /\ [][Next]_vars

\* Loop threads are scheduled, callbacks return.
FairSpec == Spec /\ \A t \in Threads : WF_vars(Loop(t))
-----------------------------------------------------------------------------
(* Properties.                                                             *)

\* While alislevent_add believes a loop is running, one thread is in the loop
\* and will look at the present epoll instance, although close joins no thread
\* and the loop leaves on its own when epoll_wait fails.
LoopServes ==
  running => \E t \in Threads : /\ tpc[t] \notin {"none", "exit"}
                                /\ tpc[t] = "poll" => tfd[t] = eplfd

Watched(u) == upc[u] = "added" /\ u \in interest[eplfd]

\* The callback of a watched descriptor with data is called, unless its user
\* removes it first.
EventDelivered == \A u \in Users : Watched(u) /\ u \in ready
                                     ~> ~(Watched(u) /\ u \in ready)

\* After the last close every loop thread ends, unless the module is used again.
LoopsEnd == ~running ~> running \/ \A t \in Threads : tpc[t] \in {"none", "exit"}

\* "It's lifetime should be the same as handle": a user may free its slev once
\* it has removed it and closed its handle, so the loop copies no such slev.
\* False: a loop past epoll_wait does.
SlevAlive ==
  [][\A t \in Threads : tpc[t] = "dispatch" =>
       \A u \in slev'[t] : upc[u] # "closed"]_vars
=============================================================================
