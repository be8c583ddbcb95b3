----------------------------- MODULE DmxFilter ------------------------------
(***************************************************************************)
(* What the demultiplexer promises the owner of a section filter.  A       *)
(* callback starts only on an enabled filter, one callback runs at a time, *)
(* and a filter is freed while its own callback runs only by that callback *)
(* itself: for every other thread alisldmx_free_filter "will be blocked    *)
(* until the user callback returns".                                       *)
(***************************************************************************)
CONSTANTS Filters, Users, Poll

VARIABLES
  life,    \* of each filter: free, idle (disabled) or armed (enabled)
  busy,    \* its callback: no, own (running) or stale (it freed its filter)
  actor    \* the thread whose call took effect last

vars == <<life, busy, actor>>

Threads == Users \cup {Poll}

TypeOK ==
  /\ life \in [Filters -> {"free", "idle", "armed"}]
  /\ busy \in [Filters -> {"no", "own", "stale"}]
  /\ actor \in Threads

Init ==
  /\ life = [f \in Filters |-> "free"] /\ busy = [f \in Filters |-> "no"]
  /\ actor = Poll

Allocate(t, f) ==
  /\ life[f] = "free" /\ life' = [life EXCEPT ![f] = "idle"]
  /\ actor' = t /\ UNCHANGED busy

Control(t, f, l) ==
  /\ life[f] # "free" /\ life' = [life EXCEPT ![f] = l]
  /\ actor' = t /\ UNCHANGED busy

\* Only the thread that runs the callbacks may free a filter in its callback.
Free(t, S) ==
  /\ t # Poll => \A f \in S : busy[f] # "own"
  /\ life' = [f \in Filters |-> IF f \in S THEN "free" ELSE life[f]]
  /\ busy' = [f \in Filters |-> IF f \in S /\ busy[f] = "own" THEN "stale"
                                ELSE busy[f]]
  /\ actor' = t

Begin(f) ==
  /\ life[f] = "armed" /\ \A g \in Filters : busy[g] = "no"
  /\ busy' = [busy EXCEPT ![f] = "own"]
  /\ UNCHANGED <<life, actor>>

End(f) ==
  /\ busy[f] # "no" /\ busy' = [busy EXCEPT ![f] = "no"]
  /\ UNCHANGED <<life, actor>>

\* A filter that is not continuous is disabled after its section.
OneShot(f) ==
  /\ life[f] = "armed" /\ life' = [life EXCEPT ![f] = "idle"]
  /\ UNCHANGED <<busy, actor>>

\* A call that concerns no filter.
Other(t) == actor' = t /\ UNCHANGED <<life, busy>>

Next ==
  \/ \E f \in Filters : Begin(f) \/ End(f) \/ OneShot(f)
  \/ \E t \in Threads :
       \/ Other(t)
       \/ \E f \in Filters : \/ Allocate(t, f)
                             \/ \E l \in {"idle", "armed"} : Control(t, f, l)
       \/ \E S \in SUBSET Filters : Free(t, S)

Spec == Init /\ [][Next]_vars
=============================================================================
