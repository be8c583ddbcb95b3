------------------------------ MODULE EvUsers -------------------------------
(***************************************************************************)
(* The libraries that live on the event loop, composed with it: smart card *)
(* (libalislsmc), HDMI (libalislhdmi), sound (libalislsnd), GPIO           *)
(* (libalislgpio) and the Conax virtual smart card (libalislconaxvsc).     *)
(* Each opens its device, hands the descriptor of its kernel message queue *)
(* to alislevent_add and has its callback run by the one loop thread, in   *)
(* between the calls of the applications.  SlEvent looks at the loop with  *)
(* its openings and closings; here one loop runs all the time (libalislin- *)
(* put opens the event module and never closes it).                        *)
(*                                                                         *)
(* A device structure is a number, never used again once it is freed; 0 is *)
(* NULL.  A step on a structure that was freed, or through a callback that *)
(* was zeroed, ends in lpc = "crash".  The read of an empty message queue  *)
(* fails (EAGAIN).  Which callback is registered is not kept, only whether *)
(* one is.  ioctls on an open device succeed, except VSC_STORE_READ and    *)
(* the open of vsc_store0, which may fail MaxFail times.                   *)
(***************************************************************************)
EXTENDS Integers, FiniteSets

CONSTANTS
  Apps,        \* threads of the application, each with handles of its own
  First,       \* the one that uses the libraries not shared
  Shared,      \* the libraries that every thread of Apps uses
  MaxDevs,     \* bound: device structures allocated
  MaxEvents,   \* bound: messages, changes of the card, configurations, starts
  MaxQueue,    \* length of a kernel message queue
  MaxFail      \* bound: failures

Libs == {"smc", "hdmi", "snd", "gpio", "vsc"}

ASSUME UsersAssumption ==
  /\ First \in Apps /\ Shared \subseteq Libs /\ IsFiniteSet(Apps)
  /\ {MaxDevs, MaxEvents, MaxQueue, MaxFail} \subseteq Nat

VARIABLES
  \* each library: its global pointer and its open count
  dev, cnt,
  \* the structures allocated and not freed, and how many there have been
  alive, made,
  \* the handles of each thread, and where it is in alislsmc_start or _stop
  hnd, pc,
  \* the kernel: slev.data of the descriptors in the epoll set, the messages
  watch, queue, sent, fails,
  \* smc: dev->status, dev->callback set, the card in the slot; a start whose
  \* plug event is still to come
  status, callback, card, owed,
  \* vsc: m_mutex, m_store_fd, slevent.data, structures with a store_callback
  m_mutex, m_store_fd, slevent, store_callback,
  \* alislevent_func: where it is, its events, the event in hand
  lpc, evnts, cur, arg

devVars == <<dev, cnt, alive, made, hnd>>
kernelVars == <<watch, queue, sent, fails>>
smcVars == <<status, callback, card, owed>>
vscVars == <<m_mutex, m_store_fd, slevent, store_callback>>
loopVars == <<lpc, evnts, cur, arg>>
vars == <<devVars, pc, kernelVars, smcVars, vscVars, loopVars>>

Devs == 1..MaxDevs

\* The libraries, the kernel's side of them and the loop keep their types; a
\* message queue never holds more than it has room for.
TypeOK ==
  /\ dev \in [Libs -> 0..MaxDevs] /\ cnt \in [Libs -> 0..Cardinality(Apps)]
  /\ alive \subseteq Devs /\ made \in 0..MaxDevs
  /\ hnd \in [Apps -> [Libs -> 0..MaxDevs]]
  /\ pc \in [Apps -> {"idle", "cfg", "monitor", "set", "status", "call", "invoke",
                  "deconfig"}]
  /\ watch \in [Libs -> 0..MaxDevs] /\ queue \in [Libs -> 0..MaxQueue]
  /\ sent \in 0..MaxEvents /\ fails \in 0..MaxFail
  /\ status \subseteq {"START", "CONFIGURE", "MONITOR"}
  /\ callback \in BOOLEAN /\ card \in {0, 1} /\ owed \in BOOLEAN
  /\ m_mutex \in {"free", "loop", "left"} /\ m_store_fd \in BOOLEAN
  /\ slevent \in 0..MaxDevs /\ store_callback \subseteq Devs
  /\ lpc \in {"poll", "dispatch", "callback", "notify", "invoke", "read",
              "lock", "store", "crash"}
  /\ evnts \subseteq Libs \X Devs /\ cur \in Libs \cup {"none"} /\ arg \in 0..MaxDevs

Init ==
  /\ dev = [l \in Libs |-> 0] /\ cnt = [l \in Libs |-> 0]
  /\ alive = {} /\ made = 0
  /\ hnd = [a \in Apps |-> [l \in Libs |-> 0]] /\ pc = [a \in Apps |-> "idle"]
  /\ watch = [l \in Libs |-> 0] /\ queue = [l \in Libs |-> 0]
  /\ sent = 0 /\ fails = 0
  /\ status = {} /\ callback = FALSE /\ card \in {0, 1} /\ owed = FALSE
  /\ m_mutex = "free" /\ m_store_fd = FALSE /\ slevent = 0 /\ store_callback = {}
  /\ lpc = "poll" /\ evnts = {} /\ cur = "none" /\ arg = 0
-----------------------------------------------------------------------------
(* Opening and closing.  Each is one step under the library's mutex; a     *)
(* failed open frees what it has allocated and leaves everything alone.    *)

Ready(a, l) == pc[a] = "idle" /\ (a = First \/ l \in Shared)
Holds(a, l) == Ready(a, l) /\ hnd[a][l] \in alive

\* The first opening allocates the structure, a further one counts.
OpenDev(a, l) ==
  /\ Ready(a, l) /\ hnd[a][l] = 0
  /\ \/ /\ dev[l] # 0
        /\ UNCHANGED <<dev, alive, made>>
     \/ /\ dev[l] = 0 /\ made < MaxDevs
        /\ made' = made + 1 /\ alive' = alive \cup {made'}
        /\ dev' = [dev EXCEPT ![l] = made']
  /\ hnd' = [hnd EXCEPT ![a][l] = dev'[l]]
  /\ cnt' = [cnt EXCEPT ![l] = @ + 1]
  /\ UNCHANGED <<pc, queue, sent, fails, smcVars, vscVars, loopVars>>

SmcOpen(a)  == OpenDev(a, "smc") /\ UNCHANGED watch
SndOpen(a)  == OpenDev(a, "snd") /\ UNCHANGED watch
GpioOpen(a) == OpenDev(a, "gpio") /\ UNCHANGED watch

\* hdmi_daemon_monitor_create adds the queue to the loop at once.
HdmiOpen(a) ==
  OpenDev(a, "hdmi") /\ watch' = [watch EXCEPT !["hdmi"] = dev'["hdmi"]]

\* Slip: the handle is not checked.
CloseUnchecked(a, l, last) ==
  /\ Ready(a, l)
  /\ hnd' = [hnd EXCEPT ![a][l] = 0] /\ cnt' = [cnt EXCEPT ![l] = @ - 1]
  /\ UNCHANGED <<dev, alive, made, pc, watch, queue, sent, fails, card, vscVars, loopVars>>

\* The last close takes the descriptor out of the epoll set and frees the
\* structure, for some libraries with the slev in it.
CloseDev(a, l, last) ==
  /\ Holds(a, l)
  /\ hnd' = [hnd EXCEPT ![a][l] = 0] /\ cnt' = [cnt EXCEPT ![l] = @ - 1]
  /\ IF last
     THEN /\ alive' = alive \ {hnd[a][l]} /\ dev' = [dev EXCEPT ![l] = 0]
          /\ watch' = [watch EXCEPT ![l] = 0] /\ queue' = [queue EXCEPT ![l] = 0]
     ELSE UNCHANGED <<alive, dev, watch, queue>>
  /\ UNCHANGED <<made, pc, sent, fails, card, vscVars, loopVars>>

\* Slip: an open count that close does not look at.
LastCloseAny(l) == TRUE

\* if (--priv->open_cnt) return
LastClose(l) == cnt[l] = 1

\* alislsmc_close also stops a card that was not stopped.
SmcClose(a) ==
  /\ CloseDev(a, "smc", LastClose("smc"))
  /\ IF LastClose("smc") THEN status' = {} /\ callback' = FALSE /\ owed' = FALSE
                         ELSE UNCHANGED <<status, callback, owed>>

SndClose(a) ==
  CloseDev(a, "snd", LastClose("snd")) /\ UNCHANGED <<status, callback, owed>>

GpioClose(a) ==
  CloseDev(a, "gpio", LastClose("gpio")) /\ UNCHANGED <<status, callback, owed>>

\* alislhdmi_close counts too, but frees the device at every close.
HdmiClose(a) == CloseDev(a, "hdmi", TRUE) /\ UNCHANGED <<status, callback, owed>>

\* The first callback registered adds the queue to the loop.
Watch(a, l) ==
  /\ Holds(a, l) /\ watch[l] = 0
  /\ watch' = [watch EXCEPT ![l] = hnd[a][l]]
  /\ UNCHANGED <<devVars, pc, queue, sent, fails, smcVars, vscVars, loopVars>>

GpioCallbackReg(a) == Watch(a, "gpio")
SndRegCallback(a)  == Watch(a, "snd")
-----------------------------------------------------------------------------
(* The drivers.                                                            *)

Queued(l) == [queue EXCEPT ![l] = IF @ < MaxQueue THEN @ + 1 ELSE @]

\* A message for a library whose descriptor is open.
Message(l) ==
  /\ l # "smc" /\ watch[l] # 0 /\ sent < MaxEvents
  /\ sent' = sent + 1 /\ queue' = Queued(l)
  /\ UNCHANGED <<devVars, pc, watch, fails, smcVars, vscVars, loopVars>>

\* A card is inserted or removed; a configured driver reports it.
CardChanges ==
  /\ sent < MaxEvents /\ sent' = sent + 1
  /\ card' = 1 - card
  /\ queue' = IF "CONFIGURE" \in status THEN Queued("smc") ELSE queue
  /\ UNCHANGED <<devVars, pc, watch, fails, status, callback, owed, vscVars,
                 loopVars>>
-----------------------------------------------------------------------------
(* The smart card.  Start, stop and the registration take no lock.         *)

\* Where the loop is next; a thread that calls through NULL takes it along.
At(where) == lpc' = where /\ UNCHANGED <<evnts, cur, arg>>

\* SMC_CMD_CONFIG: "driver will emit a plug in event if card was inserted"
Configured ==
  /\ status' = status \cup {"CONFIGURE"}
  /\ queue' = IF card = 1 THEN Queued("smc") ELSE queue

SetCfg(a) ==
  /\ Holds(a, "smc") /\ sent < MaxEvents /\ sent' = sent + 1
  /\ Configured
  /\ UNCHANGED <<devVars, pc, watch, fails, callback, card, owed, vscVars,
                 loopVars>>

RegisterCallback(a, set) ==
  /\ Holds(a, "smc") /\ callback' = set /\ owed' = (owed /\ set)
  /\ UNCHANGED <<devVars, pc, kernelVars, status, card, vscVars, loopVars>>

\* The driver has reported the card before the start, and the loop has the report
\* behind it: it was still in the callback of an earlier start when alislsmc_set_cfg
\* made the driver send it.  Neither the start nor the driver reports it again.
Reported == /\ "CONFIGURE" \in status /\ card = 1
            /\ queue["smc"] = 0 /\ lpc \notin {"notify", "invoke"}

\* The checks of alislsmc_start.  A start with a callback is owed a plug event,
\* unless the event came before the start did, or another thread is in the middle
\* of a start: one event then serves both.
StartCheck(a) ==
  /\ Holds(a, "smc") /\ sent < MaxEvents /\ sent' = sent + 1
  /\ "START" \notin status
  /\ pc' = [pc EXCEPT ![a] = "cfg"]
  /\ owed' = (owed \/ (callback /\ ~Reported /\ \A b \in Apps : pc[b] = "idle"))
  /\ UNCHANGED <<devVars, watch, queue, fails, status, callback, card, vscVars,
                 loopVars>>

StartConfig(a) ==
  /\ pc[a] = "cfg" /\ pc' = [pc EXCEPT ![a] = "monitor"]
  /\ IF "CONFIGURE" \in status THEN UNCHANGED <<status, queue>> ELSE Configured
  /\ UNCHANGED <<devVars, watch, sent, fails, callback, card, owed, vscVars, loopVars>>

\* alislsmc_register_monitor; alislevent_add refuses a descriptor it has.
StartMonitor(a) ==
  /\ pc[a] = "monitor" /\ pc' = [pc EXCEPT ![a] = "set"]
  /\ IF watch["smc"] = 0
     THEN /\ watch' = [watch EXCEPT !["smc"] = dev["smc"]]
          /\ status' = status \cup {"MONITOR"}
     ELSE UNCHANGED <<watch, status>>
  /\ UNCHANGED <<devVars, queue, sent, fails, callback, card, owed, vscVars, loopVars>>

StartSet(a) ==
  /\ pc[a] = "set" /\ pc' = [pc EXCEPT ![a] = "status"]
  /\ status' = status \cup {"START"}
  /\ UNCHANGED <<devVars, kernelVars, callback, card, owed, vscVars, loopVars>>

\* Slip: the call at the start is made when there is a card.
StartStatusNot(a) ==
  /\ pc[a] = "status"
  /\ pc' = [pc EXCEPT ![a] = IF card = 1 THEN "call" ELSE "idle"]
  /\ UNCHANGED <<devVars, kernelVars, smcVars, vscVars, loopVars>>

\* smc_callback_at_active: the status is read first; without a card the
\* callback is called from here, because the driver sends nothing.
StartStatus(a) ==
  /\ pc[a] = "status"
  /\ pc' = [pc EXCEPT ![a] = IF card = 0 THEN "call" ELSE "idle"]
  /\ UNCHANGED <<devVars, kernelVars, smcVars, vscVars, loopVars>>

\* if (dev->callback)...
StartCall(a) ==
  /\ pc[a] = "call"
  /\ pc' = [pc EXCEPT ![a] = IF callback THEN "invoke" ELSE "idle"]
  /\ UNCHANGED <<devVars, kernelVars, smcVars, vscVars, loopVars>>

\* ...dev->callback(...).  Another thread may have registered NULL since the test;
\* whether the pointer is read again is the compiler's choice.
StartInvoke(a) ==
  /\ pc[a] = "invoke" /\ pc' = [pc EXCEPT ![a] = "idle"]
  /\ \/ owed' = FALSE /\ UNCHANGED loopVars
     \/ ~callback /\ At("crash") /\ UNCHANGED owed
  /\ UNCHANGED <<devVars, kernelVars, status, callback, card, vscVars>>

\* alislsmc_stop: the monitor first, the status afterwards.
StopMonitor(a) ==
  /\ Holds(a, "smc") /\ "START" \in status
  /\ pc' = [pc EXCEPT ![a] = "deconfig"]
  /\ owed' = FALSE
  /\ IF "MONITOR" \in status
     THEN /\ watch' = [watch EXCEPT !["smc"] = 0]
          /\ status' = status \ {"MONITOR"}
     ELSE UNCHANGED <<watch, status>>
  /\ UNCHANGED <<devVars, queue, sent, fails, callback, card, vscVars, loopVars>>

StopDeconfig(a) ==
  /\ pc[a] = "deconfig" /\ pc' = [pc EXCEPT ![a] = "idle"]
  /\ status' = status \ {"START", "CONFIGURE"}
  /\ UNCHANGED <<devVars, kernelVars, callback, card, owed, vscVars, loopVars>>

\* The steps of a call of the smart card that is under way.
Card(a) == \/ StartConfig(a) \/ StartMonitor(a) \/ StartSet(a)
           \/ StartStatus(a) \/ StartCall(a) \/ StartInvoke(a) \/ StopDeconfig(a)
-----------------------------------------------------------------------------
(* The Conax virtual smart card: a structure per opening, one store.       *)

VscOpen(a) ==
  /\ Ready(a, "vsc") /\ hnd[a]["vsc"] = 0 /\ made < MaxDevs
  /\ made' = made + 1 /\ alive' = alive \cup {made'}
  /\ hnd' = [hnd EXCEPT ![a]["vsc"] = made']
  /\ UNCHANGED <<dev, cnt, pc, kernelVars, smcVars, vscVars, loopVars>>

\* alislconaxvsc_close frees the structure and does not unregister it.
VscClose(a) ==
  /\ Holds(a, "vsc")
  /\ alive' = alive \ {hnd[a]["vsc"]} /\ hnd' = [hnd EXCEPT ![a]["vsc"] = 0]
  /\ UNCHANGED <<dev, cnt, made, pc, kernelVars, smcVars, vscVars, loopVars>>

\* alislconaxvsc_lib_init: when vsc_store0 cannot be opened it returns with
\* m_mutex locked.
LibInitFails(a) ==
  /\ Holds(a, "vsc") /\ m_mutex = "free" /\ fails < MaxFail
  /\ m_mutex' = "left" /\ fails' = fails + 1
  /\ UNCHANGED <<devVars, pc, watch, queue, sent, smcVars, m_store_fd, slevent,
                 store_callback, loopVars>>

\* m_store_fd is closed: the kernel forgets it.
StoreClosed ==
  /\ m_store_fd' = FALSE
  /\ watch' = [watch EXCEPT !["vsc"] = 0] /\ queue' = [queue EXCEPT !["vsc"] = 0]

\* alislconaxvsc_register_callback.  The refusal "store monitor running" takes
\* the common exit, which closes the store that is running.
RegisterStore(a) ==
  /\ Holds(a, "vsc") /\ m_mutex = "free"
  /\ \/ /\ ~m_store_fd /\ m_store_fd' = TRUE
        /\ watch' = [watch EXCEPT !["vsc"] = hnd[a]["vsc"]]
        /\ slevent' = hnd[a]["vsc"]
        /\ store_callback' = store_callback \cup {hnd[a]["vsc"]}
        /\ UNCHANGED queue
     \/ /\ m_store_fd /\ StoreClosed
        /\ UNCHANGED <<slevent, store_callback>>
  /\ UNCHANGED <<devVars, pc, sent, fails, smcVars, m_mutex, loopVars>>

UnregisterStore(a) ==
  /\ Holds(a, "vsc") /\ m_mutex = "free"
  /\ m_store_fd /\ hnd[a]["vsc"] \in store_callback
  /\ StoreClosed /\ slevent' = 0
  /\ store_callback' = store_callback \ {hnd[a]["vsc"]}
  /\ UNCHANGED <<devVars, pc, sent, fails, smcVars, m_mutex, loopVars>>
-----------------------------------------------------------------------------
(* alislevent_func and the callbacks it runs.                              *)

Done == lpc' = "dispatch" /\ cur' = "none" /\ arg' = 0 /\ UNCHANGED evnts

LoopPoll ==
  /\ lpc = "poll"
  /\ evnts' = {<<l, watch[l]>> : l \in {k \in Libs : watch[k] # 0 /\ queue[k] > 0}}
  /\ evnts' # {} /\ lpc' = "dispatch"
  /\ UNCHANGED <<devVars, pc, kernelVars, smcVars, vscVars, cur, arg>>

\* What the copy of *slev finds: the slev of gpio and vsc is static and zeroed
\* when it is removed, the others lie in the structure that close frees.
Copied(l, d) == CASE l = "vsc"  -> slevent
                  [] l = "gpio" -> watch[l]
                  [] OTHER      -> IF d \in alive THEN d ELSE 0

LoopDispatch ==
  /\ lpc = "dispatch"
  /\ \/ /\ evnts = {} /\ lpc' = "poll" /\ UNCHANGED <<evnts, cur, arg>>
     \/ \E e \in evnts :
          /\ evnts' = evnts \ {e} /\ cur' = e[1] /\ arg' = Copied(e[1], e[2])
          /\ lpc' = IF arg' = 0 THEN "crash" ELSE "callback"
  /\ UNCHANGED <<devVars, pc, kernelVars, smcVars, vscVars>>

Consumed(l) == queue' = [queue EXCEPT ![l] = IF @ > 0 THEN @ - 1 ELSE @]

\* alislsmc_monitor_pthread: reads until there is nothing left.
MonitorRead ==
  /\ lpc = "callback" /\ cur = "smc"
  /\ \/ arg \notin alive /\ At("crash") /\ UNCHANGED queue
     \/ arg \in alive /\ queue["smc"] = 0 /\ Done /\ UNCHANGED queue
     \/ arg \in alive /\ queue["smc"] > 0 /\ Consumed("smc") /\ At("notify")
  /\ UNCHANGED <<devVars, pc, watch, sent, fails, smcVars, vscVars>>

\* The test of dev->callback...
MonitorNotify ==
  /\ lpc = "notify"
  /\ At(IF arg \notin alive THEN "crash" ELSE IF callback THEN "invoke" ELSE "callback")
  /\ UNCHANGED <<devVars, pc, kernelVars, smcVars, vscVars>>

\* ...and the call, as in StartInvoke.
MonitorInvoke ==
  /\ lpc = "invoke"
  /\ \/ arg \in alive /\ At("callback") /\ owed' = FALSE
     \/ (arg \notin alive \/ ~callback) /\ At("crash") /\ UNCHANGED owed
  /\ UNCHANGED <<devVars, pc, kernelVars, status, callback, card, vscVars>>

\* hdmi_netlink_daemon: one message.
HdmiDaemon ==
  /\ lpc = "callback" /\ cur = "hdmi"
  /\ IF arg \in alive THEN Consumed("hdmi") /\ Done
                      ELSE UNCHANGED queue /\ At("crash")
  /\ UNCHANGED <<devVars, pc, watch, sent, fails, smcVars, vscVars>>

\* sl_snd_poll_cb and sl_gpio_poll_cb look at the library's pointer...
PollCheck ==
  /\ lpc = "callback" /\ cur \in {"snd", "gpio"}
  /\ IF dev[cur] = 0 THEN Done ELSE At("read")
  /\ UNCHANGED <<devVars, pc, kernelVars, smcVars, vscVars>>

\* ...and read it again for the descriptor.
SndPollRead ==
  /\ lpc = "read" /\ cur = "snd"
  /\ IF dev["snd"] = 0 THEN At("crash") /\ UNCHANGED queue
                       ELSE Consumed("snd") /\ Done
  /\ UNCHANGED <<devVars, pc, watch, sent, fails, smcVars, vscVars>>

\* The loop of sl_gpio_poll_cb is while(1): it never returns.
GpioPollRead ==
  /\ lpc = "read" /\ cur = "gpio"
  /\ IF dev["gpio"] = 0 THEN At("crash") /\ UNCHANGED queue
                        ELSE Consumed("gpio") /\ UNCHANGED loopVars
  /\ UNCHANGED <<devVars, pc, watch, sent, fails, smcVars, vscVars>>

\* alislconaxvsc_callback_func looks at store_callback before it locks.
StoreCheck ==
  /\ lpc = "callback" /\ cur = "vsc"
  /\ CASE arg \notin alive -> At("crash")
       [] arg \in alive \ store_callback -> Done
       [] OTHER -> At("lock")
  /\ UNCHANGED <<devVars, pc, kernelVars, smcVars, vscVars>>

\* Slip: the exit of a failed read does not unlock.
StoreReadKeepsLock ==
  /\ lpc = "lock" /\ m_mutex = "free" /\ m_mutex' = "loop"
  /\ \/ m_store_fd /\ Consumed("vsc") /\ At("store") /\ UNCHANGED fails
     \/ ~m_store_fd /\ Done /\ UNCHANGED <<queue, fails>>
     \/ m_store_fd /\ fails < MaxFail /\ fails' = fails + 1 /\ Done /\ UNCHANGED queue
  /\ UNCHANGED <<devVars, pc, watch, sent, smcVars, m_store_fd, slevent, store_callback>>

\* The lock and VSC_STORE_READ, which fails on a store that is closed.
StoreRead ==
  /\ lpc = "lock" /\ m_mutex = "free"
  /\ \/ /\ m_store_fd /\ Consumed("vsc")
        /\ m_mutex' = "loop" /\ At("store") /\ UNCHANGED fails
     \/ ~m_store_fd /\ Done /\ UNCHANGED <<queue, fails, m_mutex>>
     \/ /\ m_store_fd /\ fails < MaxFail /\ fails' = fails + 1
        /\ Done /\ UNCHANGED <<queue, m_mutex>>
  /\ UNCHANGED <<devVars, pc, watch, sent, smcVars, m_store_fd, slevent, store_callback>>

\* The store_callback is called with the lock held.
StoreCall ==
  /\ lpc = "store"
  /\ IF arg \in alive \cap store_callback THEN Done ELSE At("crash")
  /\ m_mutex' = "free"
  /\ UNCHANGED <<devVars, pc, kernelVars, smcVars, m_store_fd, slevent, store_callback>>

Loop == \/ LoopPoll \/ LoopDispatch \/ MonitorRead \/ MonitorNotify \/ MonitorInvoke
        \/ HdmiDaemon \/ PollCheck \/ SndPollRead \/ GpioPollRead \/ StoreCheck \/ StoreRead \/ StoreCall
-----------------------------------------------------------------------------
App(a) ==
  \/ SmcOpen(a) \/ HdmiOpen(a) \/ SndOpen(a) \/ GpioOpen(a) \/ VscOpen(a)
  \/ SmcClose(a) \/ HdmiClose(a) \/ SndClose(a) \/ GpioClose(a) \/ VscClose(a)
  \/ GpioCallbackReg(a) \/ SndRegCallback(a)
  \/ SetCfg(a) \/ StartCheck(a) \/ StopMonitor(a) \/ Card(a)
  \/ \E set \in BOOLEAN : RegisterCallback(a, set)
  \/ LibInitFails(a) \/ RegisterStore(a) \/ UnregisterStore(a)

Driver == CardChanges \/ \E l \in Libs : Message(l)

\* A crash ends the process.
Next == lpc # "crash" /\ (Driver \/ Loop \/ \E a \in Apps : App(a))

Spec == Init /\ [][Next]_vars

\* Threads that are in a call, and the loop, are scheduled.
FairSpec == Spec /\ WF_vars(lpc # "crash" /\ Loop)
            /\ \A a \in Apps : WF_vars(lpc # "crash" /\ Card(a))
-----------------------------------------------------------------------------
(* Properties.                                                             *)

\* A handle that was opened and not yet closed is good, whoever else closes the
\* same device: the structure it points to has not been freed, and it is the one
\* that a further open would return.
HandlesGood ==
  \A a \in Apps, l \in Libs :
    hnd[a][l] # 0 => hnd[a][l] \in alive /\ (l # "vsc" => hnd[a][l] = dev[l])

\* How the loop is lost to every library at once: it steps on what a close or
\* an unregister has taken away while the event was in hand, it enters gpio's
\* callback, or it waits for the mutex that lib_init has left locked; or a start
\* ends the process by calling a callback that was unregistered after its test.
Lost == \/ lpc = "crash"
        \/ lpc = "read" /\ cur = "gpio"
        \/ lpc = "lock" /\ m_mutex = "left"

\* Some library that watches its queue has a message in it.
Behind == \E l \in Libs : watch[l] # 0 /\ queue[l] > 0

\* No library starves another: unless it is lost, the loop catches up with the
\* messages of all of them, whatever callbacks they run and whatever the
\* applications open, close, start and stop meanwhile.
EventsServed == Behind ~> ~Behind \/ Lost

\* "SMC homologation test require plug event no matter whether the card was
\* inserted or not": a start with a callback is followed by a call of it, made by
\* the start itself or by the loop, even if the card comes or goes meanwhile;
\* only a card that was Reported just before is not reported again.
PlugEvent == owed ~> ~owed \/ Lost

\* alislconaxvsc_callback_func tests store_callback before it takes m_mutex.  It
\* is still set when it is called, because the read fails on a store that was
\* unregistered in between; only a store that was registered again for another
\* handle gets past it.
StoreCallbackSet ==
  lpc = "store" => slevent # 0 /\ (slevent = arg => arg \in store_callback)

\* What the applications and the loop hold to call through is good.
PointersGood == HandlesGood /\ StoreCallbackSet
=============================================================================
