--------------------------- MODULE EvUsers_proofs ---------------------------
(***************************************************************************)
(* The libraries on the event loop, proved for any number of threads,      *)
(* structures and messages: the open counts count the handles, so a close  *)
(* that is not the last one frees nothing under another thread's handle    *)
(* (HDMI excepted, which frees at every close: its handles stay good only  *)
(* if one thread uses it), the store callback of the Conax card is still   *)
(* set when it is called, and the plug event of a start is not lost.  At   *)
(* the end, the loop itself with its openings and closings (SlEvent).      *)
(***************************************************************************)
EXTENDS EvUsers, FiniteSetTheorems, TLAPS

\* The libraries with one structure for all openings.
OneLibs == Libs \ {"vsc"}

\* The threads that have the library open.
Holders(l) == {a \in Apps : hnd[a][l] # 0}

\* The open count is the number of handles.
CountInv ==
  /\ \A l \in OneLibs : cnt[l] = Cardinality(Holders(l))
  /\ cnt["vsc"] = 0 /\ dev["vsc"] = 0

\* Structures are not shared between libraries, nor between openings of the
\* Conax card, and none is used again.
FreshInv ==
  /\ \A d \in alive : d <= made
  /\ \A l \in Libs : dev[l] # 0 => dev[l] \in alive
  /\ \A k, l \in Libs : dev[k] = dev[l] /\ dev[k] # 0 => k = l
  /\ \A a \in Apps : hnd[a]["vsc"] # 0 =>
       hnd[a]["vsc"] \in alive /\ \A l \in Libs : dev[l] # hnd[a]["vsc"]
  /\ \A a, b \in Apps : hnd[a]["vsc"] = hnd[b]["vsc"] /\ hnd[a]["vsc"] # 0 => a = b

\* Every handle is that of the library's structure.
OwnInv ==
  /\ \A a \in Apps, l \in OneLibs : hnd[a][l] # 0 => hnd[a][l] = dev[l]
  /\ \A a \in Apps : hnd[a]["hdmi"] # 0 => a = First

\* The store that is open is that of the structure registered last, which has a
\* callback; the loop calls it with the mutex.
StoreInv ==
  /\ m_store_fd => slevent # 0 /\ slevent \in store_callback
  /\ lpc = "store" => m_mutex = "loop"

\* TypeOK in parts.
DevType ==
  /\ dev \in [Libs -> 0..MaxDevs] /\ cnt \in [Libs -> Nat]
  /\ alive \subseteq Devs /\ made \in 0..MaxDevs
  /\ hnd \in [Apps -> [Libs -> 0..MaxDevs]]
PcType == pc \in [Apps -> {"idle", "cfg", "monitor", "set", "status", "call", "invoke",
                           "deconfig"}]
KernelType ==
  /\ watch \in [Libs -> 0..MaxDevs] /\ queue \in [Libs -> 0..MaxQueue]
  /\ sent \in 0..MaxEvents /\ fails \in 0..MaxFail
FlagType == callback \in BOOLEAN /\ owed \in BOOLEAN /\ m_store_fd \in BOOLEAN
SmcType == status \subseteq {"START", "CONFIGURE", "MONITOR"} /\ card \in {0, 1}
VscType ==
  /\ m_mutex \in {"free", "loop", "left"}
  /\ slevent \in 0..MaxDevs /\ store_callback \subseteq Devs
LoopType ==
  /\ lpc \in {"poll", "dispatch", "callback", "notify", "invoke", "read", "lock", "store",
              "crash"}
  /\ evnts \subseteq Libs \X Devs /\ cur \in Libs \cup {"none"} /\ arg \in 0..MaxDevs

\* What does not depend on the handles.
Rest ==
  /\ PcType /\ KernelType /\ FlagType /\ SmcType /\ VscType /\ LoopType
  /\ StoreInv /\ StoreCallbackSet

IInv == DevType /\ CountInv /\ Rest

Owned == FreshInv /\ OwnInv
-----------------------------------------------------------------------------
(* Opening and closing.                                                    *)

LEMMA HoldersFinite ==
  ASSUME NEW l
  PROVE /\ IsFiniteSet(Holders(l)) /\ Cardinality(Holders(l)) \in Nat
        /\ Cardinality(Apps) \in Nat /\ Cardinality(Holders(l)) <= Cardinality(Apps)
<1>1. Holders(l) \in SUBSET Apps
  BY DEF Holders
<1>2. IsFiniteSet(Holders(l)) /\ Cardinality(Holders(l)) <= Cardinality(Apps)
  BY <1>1, UsersAssumption, FS_Subset
<1>3. Cardinality(Holders(l)) \in Nat /\ Cardinality(Apps) \in Nat
  BY <1>2, UsersAssumption, FS_CardinalityType
<1> QED
  BY <1>2, <1>3

LEMMA TypeParts == IInv => TypeOK
<1> SUFFICES ASSUME IInv PROVE TypeOK
  OBVIOUS
<1>1. ASSUME NEW l \in OneLibs PROVE cnt[l] \in 0..Cardinality(Apps)
  BY HoldersFinite DEF IInv, CountInv
<1>2. cnt["vsc"] \in 0..Cardinality(Apps)
  BY HoldersFinite DEF IInv, CountInv
<1>3. cnt \in [Libs -> 0..Cardinality(Apps)]
  BY <1>1, <1>2 DEF IInv, DevType, OneLibs
<1> QED
  BY <1>3, Zenon DEF IInv, Rest, DevType, PcType, KernelType, FlagType, SmcType,
     VscType, LoopType, TypeOK

\* What an open does to the handles.
LEMMA OpenFacts ==
  ASSUME DevType, NEW a \in Apps, NEW l \in Libs, OpenDev(a, l)
  PROVE /\ hnd[a][l] = 0 /\ dev'[l] # 0 /\ dev'[l] \in 0..MaxDevs
        /\ \A b \in Apps, k \in Libs :
             hnd'[b][k] = IF b = a /\ k = l THEN dev'[l] ELSE hnd[b][k]
        /\ \A k \in Libs : k # l => dev'[k] = dev[k] /\ cnt'[k] = cnt[k]
        /\ cnt'[l] = cnt[l] + 1
        /\ \/ UNCHANGED <<dev, alive, made>> /\ dev[l] # 0
           \/ /\ dev[l] = 0 /\ made' = made + 1 /\ made' <= MaxDevs
              /\ alive' = alive \cup {made'} /\ dev'[l] = made'
<1>1. dev'[l] # 0 /\ dev'[l] \in 0..MaxDevs
  BY UsersAssumption DEF OpenDev, DevType, Devs
<1>2. \A b \in Apps, k \in Libs :
        hnd'[b][k] = IF b = a /\ k = l THEN dev'[l] ELSE hnd[b][k]
  BY DEF OpenDev, DevType
<1>3. /\ \A k \in Libs : k # l => dev'[k] = dev[k] /\ cnt'[k] = cnt[k]
      /\ cnt'[l] = cnt[l] + 1
  BY DEF OpenDev, DevType
<1>4. \/ UNCHANGED <<dev, alive, made>> /\ dev[l] # 0
      \/ /\ dev[l] = 0 /\ made' = made + 1 /\ made' <= MaxDevs
         /\ alive' = alive \cup {made'} /\ dev'[l] = made'
  BY UsersAssumption DEF OpenDev, DevType
<1> QED
  BY <1>1, <1>2, <1>3, <1>4 DEF OpenDev

LEMMA OpenInv ==
  ASSUME DevType, CountInv, NEW a \in Apps, NEW l \in OneLibs, OpenDev(a, l)
  PROVE DevType' /\ CountInv'
<1>0. l \in Libs /\ l # "vsc"
  BY DEF OneLibs
<1>1. DevType'
  <2>1. dev' \in [Libs -> 0..MaxDevs] /\ cnt' \in [Libs -> Nat]
    BY <1>0, UsersAssumption DEF OpenDev, DevType
  <2>2. alive' \subseteq Devs /\ made' \in 0..MaxDevs
    <3>1. MaxDevs \in Nat /\ made \in 0..MaxDevs /\ alive \subseteq 1..MaxDevs
      BY UsersAssumption DEF DevType, Devs
    <3>2. CASE made' = made + 1 /\ made' <= MaxDevs /\ alive' = alive \cup {made'}
      <4>1. made' \in 1..MaxDevs
        BY <3>1, <3>2
      <4> QED
        BY <3>1, <3>2, <4>1 DEF Devs
    <3>3. CASE UNCHANGED <<alive, made>>
      BY <3>1, <3>3 DEF Devs
    <3> QED
      BY <1>0, <3>2, <3>3, OpenFacts
  <2>3. hnd' \in [Apps -> [Libs -> 0..MaxDevs]]
    BY <1>0, OpenFacts DEF OpenDev, DevType
  <2> QED
    BY <2>1, <2>2, <2>3 DEF DevType
<1>2. Holders(l)' = Holders(l) \cup {a} /\ a \notin Holders(l)
  BY <1>0, OpenFacts DEF Holders
<1>3. \A k \in Libs : k # l => Holders(k)' = Holders(k)
  BY <1>0, OpenFacts DEF Holders
<1>4. Cardinality(Holders(l)') = Cardinality(Holders(l)) + 1
  BY <1>2, HoldersFinite, FS_AddElement
<1>5. \A k \in OneLibs : cnt'[k] = Cardinality(Holders(k)')
  BY <1>0, <1>3, <1>4, OpenFacts DEF CountInv, OneLibs
<1>6. cnt'["vsc"] = 0 /\ dev'["vsc"] = 0
  BY <1>0, OpenFacts DEF CountInv, Libs
<1> QED
  BY <1>1, <1>5, <1>6 DEF CountInv

\* What a close does to the handles.
LEMMA CloseFacts ==
  ASSUME DevType, NEW a \in Apps, NEW l \in Libs, NEW last, CloseDev(a, l, last)
  PROVE /\ hnd[a][l] # 0 /\ hnd[a][l] \in alive
        /\ \A b \in Apps, k \in Libs :
             hnd'[b][k] = IF b = a /\ k = l THEN 0 ELSE hnd[b][k]
        /\ \A k \in Libs : k # l => dev'[k] = dev[k] /\ cnt'[k] = cnt[k]
        /\ cnt'[l] = cnt[l] - 1 /\ UNCHANGED made
        /\ \/ ~last /\ UNCHANGED <<dev, alive>>
           \/ last /\ alive' = alive \ {hnd[a][l]} /\ dev'[l] = 0
<1>1. hnd[a][l] # 0 /\ hnd[a][l] \in alive
  BY DEF CloseDev, Holds, DevType, Devs
<1>2. \A b \in Apps, k \in Libs : hnd'[b][k] = IF b = a /\ k = l THEN 0 ELSE hnd[b][k]
  BY DEF CloseDev, DevType
<1>3. /\ \A k \in Libs : k # l => dev'[k] = dev[k] /\ cnt'[k] = cnt[k]
      /\ cnt'[l] = cnt[l] - 1 /\ UNCHANGED made
  BY DEF CloseDev, DevType
<1>4. \/ ~last /\ UNCHANGED <<dev, alive>>
      \/ last /\ alive' = alive \ {hnd[a][l]} /\ dev'[l] = 0
  BY DEF CloseDev, DevType
<1> QED
  BY <1>1, <1>2, <1>3, <1>4

LEMMA CloseInv ==
  ASSUME DevType, CountInv, NEW a \in Apps, NEW l \in OneLibs, NEW last,
         CloseDev(a, l, last)
  PROVE DevType' /\ CountInv'
<1>0. l \in Libs /\ l # "vsc"
  BY DEF OneLibs
<1>1. Holders(l)' = Holders(l) \ {a} /\ a \in Holders(l)
  BY <1>0, CloseFacts DEF Holders
<1>2. \A k \in Libs : k # l => Holders(k)' = Holders(k)
  BY <1>0, CloseFacts DEF Holders
<1>3. Cardinality(Holders(l)') = Cardinality(Holders(l)) - 1
  BY <1>1, HoldersFinite, FS_RemoveElement
<1>4. Cardinality(Holders(l)) # 0
  BY <1>1, HoldersFinite, FS_EmptySet
<1>5. cnt'[l] \in Nat
  BY <1>0, <1>4, CloseFacts, HoldersFinite DEF CountInv
<1>6. DevType'
  <2>1. dev' \in [Libs -> 0..MaxDevs]
    BY <1>0, UsersAssumption DEF CloseDev, DevType
  <2>2. cnt' \in [Libs -> Nat]
    BY <1>0, <1>5 DEF CloseDev, DevType
  <2>3. alive' \subseteq Devs /\ made' \in 0..MaxDevs
    BY <1>0, CloseFacts DEF DevType
  <2>4. hnd' \in [Apps -> [Libs -> 0..MaxDevs]]
    BY <1>0, UsersAssumption DEF CloseDev, DevType
  <2> QED
    BY <2>1, <2>2, <2>3, <2>4 DEF DevType
<1>7. \A k \in OneLibs : cnt'[k] = Cardinality(Holders(k)')
  BY <1>0, <1>2, <1>3, CloseFacts DEF CountInv, OneLibs
<1>8. cnt'["vsc"] = 0 /\ dev'["vsc"] = 0
  BY <1>0, CloseFacts DEF CountInv, Libs
<1> QED
  BY <1>6, <1>7, <1>8 DEF CountInv

\* An open gets the structure of the library, or one that nobody has.
LEMMA OpenOwned ==
  ASSUME DevType, CountInv, Owned, "hdmi" \notin Shared,
         NEW a \in Apps, NEW l \in OneLibs, OpenDev(a, l)
  PROVE Owned'
<1>0. l \in Libs /\ l # "vsc" /\ (l = "hdmi" => a = First)
  BY DEF OneLibs, OpenDev, Ready
<1>1. \A b \in Apps, k \in Libs :
        hnd'[b][k] = IF b = a /\ k = l THEN dev'[l] ELSE hnd[b][k]
  BY <1>0, OpenFacts
<1>2. CASE UNCHANGED <<dev, alive, made>>
  <2>1. FreshInv'
    BY <1>0, <1>1, <1>2 DEF Owned, FreshInv, Libs
  <2>2. OwnInv'
    BY <1>0, <1>1, <1>2 DEF Owned, OwnInv, OneLibs, Libs
  <2> QED
    BY <2>1, <2>2 DEF Owned
<1>3. CASE /\ dev[l] = 0 /\ made' = made + 1 /\ alive' = alive \cup {made'}
           /\ dev'[l] = made'
  <2>1. \A k \in Libs : k # l => dev'[k] = dev[k]
    BY <1>0, OpenFacts
  <2>2. made \in Nat /\ \A d \in alive : d \in Nat /\ d <= made
    BY UsersAssumption DEF DevType, Devs, Owned, FreshInv
  <2>3. made' \notin alive /\ made' # 0 /\ \A d \in alive' : d <= made'
    BY <1>3, <2>2
  <2>4. /\ \A k \in Libs : dev'[k] # 0 => dev'[k] \in alive'
        /\ \A j, k \in Libs : dev'[j] = dev'[k] /\ dev'[j] # 0 => j = k
    BY <1>3, <2>1, <2>3 DEF Owned, FreshInv
  <2>5. \A b \in Apps : hnd'[b]["vsc"] = hnd[b]["vsc"]
    BY <1>0, <1>1 DEF Libs
  <2>6. FreshInv'
    BY <1>3, <2>1, <2>3, <2>4, <2>5 DEF Owned, FreshInv
  <2>7. \A b \in Apps, k \in OneLibs : hnd'[b][k] # 0 => hnd'[b][k] = dev'[k]
    BY <1>1, <1>3, <2>1 DEF Owned, OwnInv, OneLibs
  <2>8. \A b \in Apps : hnd'[b]["hdmi"] # 0 => b = First
    BY <1>0, <1>1 DEF Owned, OwnInv, Libs
  <2> QED
    BY <2>6, <2>7, <2>8 DEF Owned, OwnInv
<1> QED
  BY <1>0, <1>2, <1>3, OpenFacts

\* A close that frees the structure is that of the only thread that has it.
LEMMA CloseOwned ==
  ASSUME DevType, CountInv, Owned, "hdmi" \notin Shared,
         NEW a \in Apps, NEW l \in OneLibs, NEW last, CloseDev(a, l, last),
         last => l = "hdmi" \/ cnt[l] = 1
  PROVE Owned'
<1>0. l \in Libs /\ l # "vsc" /\ (l = "hdmi" => a = First)
  BY DEF OneLibs, CloseDev, Holds, Ready
<1>1. /\ \A b \in Apps, k \in Libs : hnd'[b][k] = IF b = a /\ k = l THEN 0 ELSE hnd[b][k]
      /\ hnd[a][l] # 0 /\ UNCHANGED made
  BY <1>0, CloseFacts
<1>2. CASE UNCHANGED <<dev, alive>>
  <2>1. FreshInv'
    BY <1>0, <1>1, <1>2 DEF Owned, FreshInv, Libs
  <2>2. OwnInv'
    BY <1>0, <1>1, <1>2 DEF Owned, OwnInv, OneLibs, Libs
  <2> QED
    BY <2>1, <2>2 DEF Owned
<1>3. CASE last /\ alive' = alive \ {hnd[a][l]} /\ dev'[l] = 0
  <2>1. \A b \in Apps : b # a => hnd[b][l] = 0
    <3>1. CASE l = "hdmi"
      BY <1>0, <3>1 DEF Owned, OwnInv
    <3>2. CASE cnt[l] = 1
      <4>1. Cardinality(Holders(l)) = 1
        BY <3>2 DEF CountInv
      <4>2. \E x : Holders(l) = {x}
        BY <4>1, HoldersFinite, FS_Singleton
      <4> QED
        BY <1>1, <4>2 DEF Holders
    <3> QED
      BY <1>3, <3>1, <3>2
  <2>2. \A k \in Libs : k # l => dev'[k] = dev[k]
    BY <1>0, CloseFacts
  <2>3. hnd[a][l] = dev[l] /\ dev[l] # 0
    BY <1>1 DEF Owned, OwnInv
  <2>4. \A b \in Apps : hnd'[b]["vsc"] = hnd[b]["vsc"]
    BY <1>0, <1>1 DEF Libs
  <2>5. /\ \A k \in Libs : dev'[k] # 0 => dev'[k] \in alive'
        /\ \A j, k \in Libs : dev'[j] = dev'[k] /\ dev'[j] # 0 => j = k
    BY <1>0, <1>3, <2>2, <2>3 DEF Owned, FreshInv
  <2>6. \A b \in Apps : hnd'[b]["vsc"] # 0 =>
          hnd'[b]["vsc"] \in alive' /\ \A k \in Libs : dev'[k] # hnd'[b]["vsc"]
    BY <1>0, <1>3, <2>2, <2>3, <2>4 DEF Owned, FreshInv
  <2>7. FreshInv'
    BY <1>1, <1>3, <2>4, <2>5, <2>6 DEF Owned, FreshInv
  <2>8. \A b \in Apps, k \in OneLibs : hnd'[b][k] # 0 => hnd'[b][k] = dev'[k]
    BY <1>1, <2>1, <2>2 DEF Owned, OwnInv, OneLibs
  <2>9. \A b \in Apps : hnd'[b]["hdmi"] # 0 => b = First
    BY <1>0, <1>1 DEF Owned, OwnInv, Libs
  <2> QED
    BY <2>7, <2>8, <2>9 DEF Owned, OwnInv
<1> QED
  BY <1>0, <1>2, <1>3, CloseFacts

\* The Conax card has a structure per opening.
LEMMA VscInv ==
  ASSUME DevType, CountInv, NEW a \in Apps, VscOpen(a) \/ VscClose(a)
  PROVE /\ DevType' /\ CountInv'
        /\ Owned => Owned'
<1>0. "vsc" \in Libs /\ MaxDevs \in Nat
  BY UsersAssumption DEF Libs
<1>1. UNCHANGED <<dev, cnt>>
  BY DEF VscOpen, VscClose
<1>2. \A b \in Apps, k \in Libs : k # "vsc" \/ b # a => hnd'[b][k] = hnd[b][k]
  BY <1>0 DEF VscOpen, VscClose, DevType
<1>3. \/ /\ made' = made + 1 /\ made' <= MaxDevs
         /\ alive' = alive \cup {made'} /\ hnd'[a]["vsc"] = made'
         /\ hnd' = [hnd EXCEPT ![a]["vsc"] = made']
      \/ /\ UNCHANGED made /\ alive' = alive \ {hnd[a]["vsc"]} /\ hnd'[a]["vsc"] = 0
         /\ hnd' = [hnd EXCEPT ![a]["vsc"] = 0] /\ hnd[a]["vsc"] # 0
  BY <1>0 DEF VscOpen, VscClose, Holds, DevType, Devs
<1>4. DevType'
  <2>1. alive' \subseteq Devs /\ made' \in 0..MaxDevs
    <3>1. made \in 0..MaxDevs /\ alive \subseteq 1..MaxDevs
      BY DEF DevType, Devs
    <3> QED
      BY <1>0, <1>3, <3>1 DEF Devs
  <2>2. hnd' \in [Apps -> [Libs -> 0..MaxDevs]]
    BY <1>0, <1>3, <2>1 DEF DevType
  <2> QED
    BY <1>1, <2>1, <2>2 DEF DevType
<1>5. CountInv'
  <2>1. \A k \in OneLibs : Holders(k)' = Holders(k)
    BY <1>2 DEF OneLibs, Holders
  <2> QED
    BY <1>1, <2>1 DEF CountInv
<1>6. ASSUME Owned PROVE Owned'
  <2>1. OwnInv'
    BY <1>1, <1>2, <1>6 DEF Owned, OwnInv, OneLibs, Libs
  <2>2. made \in Nat /\ \A d \in alive : d \in Nat /\ d <= made
    BY <1>6, UsersAssumption DEF DevType, Devs, Owned, FreshInv
  <2>3. \A b \in Apps : b # a => hnd'[b]["vsc"] = hnd[b]["vsc"]
    BY <1>0, <1>2
  <2>4. CASE /\ made' = made + 1 /\ alive' = alive \cup {made'} /\ hnd'[a]["vsc"] = made'
    <3>1. made' \notin alive /\ made' # 0 /\ \A d \in alive' : d <= made'
      BY <2>2, <2>4
    <3> QED
      BY <1>1, <1>6, <2>1, <2>3, <2>4, <3>1 DEF Owned, FreshInv
  <2>5. CASE /\ UNCHANGED made /\ alive' = alive \ {hnd[a]["vsc"]} /\ hnd'[a]["vsc"] = 0
             /\ hnd[a]["vsc"] # 0
    BY <1>1, <1>6, <2>1, <2>3, <2>5 DEF Owned, FreshInv
  <2> QED
    BY <1>3, <2>4, <2>5
<1> QED
  BY <1>4, <1>5, <1>6
-----------------------------------------------------------------------------
(* The other calls, the drivers and the loop.                              *)

LEMMA QueueTypes ==
  ASSUME KernelType, NEW l \in Libs
  PROVE /\ Queued(l) \in [Libs -> 0..MaxQueue]
        /\ Consumed(l) => queue' \in [Libs -> 0..MaxQueue]
        /\ [queue EXCEPT ![l] = 0] \in [Libs -> 0..MaxQueue]
  BY UsersAssumption DEF KernelType, Queued, Consumed

\* A step that leaves the store and the loop alone.
LEMMA StoreKeeps ==
  ASSUME VscType, LoopType, StoreInv, StoreCallbackSet, UNCHANGED <<vscVars, loopVars>>
  PROVE VscType' /\ LoopType' /\ StoreInv' /\ StoreCallbackSet'
  BY DEF VscType, LoopType, StoreInv, StoreCallbackSet, vscVars, loopVars

LEMMA OpenRest ==
  ASSUME DevType, Rest, NEW a \in Apps,
         \/ SmcOpen(a) \/ HdmiOpen(a) \/ SndOpen(a) \/ GpioOpen(a) \/ VscOpen(a)
         \/ VscClose(a) \/ GpioCallbackReg(a) \/ SndRegCallback(a)
  PROVE Rest'
<1>1. UNCHANGED <<pc, queue, sent, fails, smcVars, vscVars, loopVars>>
  BY DEF SmcOpen, HdmiOpen, SndOpen, GpioOpen, OpenDev, VscOpen, VscClose,
     GpioCallbackReg, SndRegCallback, Watch, kernelVars
<1>2. \/ UNCHANGED watch
      \/ /\ OpenDev(a, "hdmi") /\ watch' = [watch EXCEPT !["hdmi"] = dev'["hdmi"]]
      \/ \E l \in {"gpio", "snd"} : watch' = [watch EXCEPT ![l] = hnd[a][l]]
  BY DEF SmcOpen, HdmiOpen, SndOpen, GpioOpen, VscOpen, VscClose,
     GpioCallbackReg, SndRegCallback, Watch, kernelVars
<1>3. watch' \in [Libs -> 0..MaxDevs]
  <2>1. watch \in [Libs -> 0..MaxDevs] /\ {"hdmi", "gpio", "snd"} \subseteq Libs
    BY DEF Rest, KernelType, Libs
  <2>2. \A l \in Libs : hnd[a][l] \in 0..MaxDevs
    BY DEF DevType
  <2>3. OpenDev(a, "hdmi") => dev'["hdmi"] \in 0..MaxDevs
    BY <2>1, OpenFacts
  <2> QED
    BY <1>2, <2>1, <2>2, <2>3
<1>4. PcType' /\ KernelType' /\ SmcType'
  BY <1>1, <1>3 DEF Rest, PcType, KernelType, SmcType, smcVars
<1>5. FlagType'
  BY <1>1 DEF Rest, FlagType, smcVars, vscVars
<1> QED
  BY <1>1, <1>4, <1>5, StoreKeeps DEF Rest

LEMMA CloseRest ==
  ASSUME Rest, NEW a \in Apps,
         SmcClose(a) \/ HdmiClose(a) \/ SndClose(a) \/ GpioClose(a)
  PROVE Rest'
<1>1. PICK l \in Libs, last \in BOOLEAN : CloseDev(a, l, last)
  BY DEF SmcClose, HdmiClose, SndClose, GpioClose, Libs, LastClose
<1>2. UNCHANGED <<pc, sent, fails, card, vscVars, loopVars>>
  BY <1>1 DEF CloseDev
<1>3. \/ status' = {} /\ callback' = FALSE /\ owed' = FALSE
      \/ UNCHANGED <<status, callback, owed>>
  BY DEF SmcClose, HdmiClose, SndClose, GpioClose
<1>4. watch' \in [Libs -> 0..MaxDevs] /\ queue' \in [Libs -> 0..MaxQueue]
  <2>1. \/ UNCHANGED <<watch, queue>>
        \/ watch' = [watch EXCEPT ![l] = 0] /\ queue' = [queue EXCEPT ![l] = 0]
    BY <1>1 DEF CloseDev
  <2>2. [queue EXCEPT ![l] = 0] \in [Libs -> 0..MaxQueue]
    BY QueueTypes DEF Rest
  <2>3. [watch EXCEPT ![l] = 0] \in [Libs -> 0..MaxDevs]
    BY UsersAssumption DEF Rest, KernelType
  <2> QED
    BY <2>1, <2>2, <2>3 DEF Rest, KernelType
<1>5. PcType' /\ KernelType' /\ SmcType'
  BY <1>2, <1>3, <1>4 DEF Rest, PcType, KernelType, SmcType
<1>6. FlagType'
  BY <1>2, <1>3, Zenon DEF Rest, FlagType, vscVars
<1> QED
  BY <1>2, <1>5, <1>6, StoreKeeps DEF Rest

LEMMA CardRest ==
  ASSUME DevType, Rest, NEW a \in Apps,
         \/ SetCfg(a) \/ StartCheck(a) \/ StopMonitor(a) \/ Card(a)
         \/ \E set \in BOOLEAN : RegisterCallback(a, set)
  PROVE Rest'
<1> USE DEF Card
<1>0. /\ sent \in 0..MaxEvents /\ queue \in [Libs -> 0..MaxQueue]
      /\ watch \in [Libs -> 0..MaxDevs] /\ fails \in 0..MaxFail
      /\ Queued("smc") \in [Libs -> 0..MaxQueue] /\ "smc" \in Libs
      /\ dev["smc"] \in 0..MaxDevs /\ 0 \in 0..MaxDevs
  BY QueueTypes, UsersAssumption DEF Rest, KernelType, Libs, DevType
<1>1. /\ UNCHANGED <<fails, card, vscVars>>
      /\ UNCHANGED loopVars \/ At("crash")
  BY DEF SetCfg, StartCheck, StopMonitor, StartConfig, StartMonitor, StartSet,
     StartStatus, StartCall, StartInvoke, StopDeconfig, RegisterCallback, kernelVars, smcVars
<1>2. sent' \in 0..MaxEvents
  <2>1. sent' = sent \/ (sent < MaxEvents /\ sent' = sent + 1)
    BY DEF SetCfg, StartCheck, StopMonitor, StartConfig, StartMonitor, StartSet,
       StartStatus, StartCall, StartInvoke, StopDeconfig, RegisterCallback, kernelVars
  <2> QED
    BY <1>0, <2>1, UsersAssumption
<1>3. queue' = queue \/ queue' = Queued("smc")
  BY DEF SetCfg, StartCheck, StopMonitor, StartConfig, StartMonitor, StartSet,
     StartStatus, StartCall, StartInvoke, StopDeconfig, RegisterCallback, kernelVars, Configured
<1>4. \/ watch' = watch \/ watch' = [watch EXCEPT !["smc"] = dev["smc"]]
      \/ watch' = [watch EXCEPT !["smc"] = 0]
  BY DEF SetCfg, StartCheck, StopMonitor, StartConfig, StartMonitor, StartSet,
     StartStatus, StartCall, StartInvoke, StopDeconfig, RegisterCallback, kernelVars
<1>5. KernelType'
  BY <1>0, <1>1, <1>2, <1>3, <1>4 DEF KernelType
<1>6. PcType'
  <2>1. \/ pc' = pc
        \/ \E w \in {"idle", "cfg", "monitor", "set", "status", "call", "invoke",
                   "deconfig"} :
             pc' = [pc EXCEPT ![a] = w]
    BY DEF SetCfg, StartCheck, StopMonitor, StartConfig, StartMonitor, StartSet,
       StartStatus, StartCall, StartInvoke, StopDeconfig, RegisterCallback
  <2> QED
    BY <2>1 DEF Rest, PcType
<1>7. SmcType'
  BY <1>1 DEF SetCfg, StartCheck, StopMonitor, StartConfig, StartMonitor, StartSet,
     StartStatus, StartCall, StartInvoke, StopDeconfig, RegisterCallback, Configured, Rest, SmcType,
     smcVars
<1>8. FlagType'
  <2>1. m_store_fd' = m_store_fd
    BY <1>1 DEF vscVars
  <2>2. CASE \E set \in BOOLEAN : RegisterCallback(a, set)
    BY <2>1, <2>2, Zenon DEF RegisterCallback, Rest, FlagType
  <2>3. CASE StartCheck(a) \/ StopMonitor(a) \/ StartInvoke(a)
    BY <2>1, <2>3, Zenon DEF StartCheck, StopMonitor, StartInvoke, Rest, FlagType
  <2>4. CASE \/ SetCfg(a) \/ StartConfig(a) \/ StartMonitor(a) \/ StartSet(a)
             \/ StartStatus(a) \/ StartCall(a) \/ StopDeconfig(a)
    <3>1. callback' = callback /\ owed' = owed
      BY <2>4 DEF SetCfg, StartConfig, StartMonitor, StartSet, StartStatus, StartCall,
         StopDeconfig, smcVars
    <3> QED
      BY <2>1, <3>1 DEF Rest, FlagType
  <2> QED
    BY <2>2, <2>3, <2>4
<1>9. VscType' /\ LoopType' /\ StoreInv' /\ StoreCallbackSet'
  <2>1. CASE UNCHANGED loopVars
    BY <1>1, <2>1, StoreKeeps DEF Rest
  <2>2. CASE At("crash")
    BY <1>1, <2>2 DEF At, Rest, vscVars, VscType, LoopType, StoreInv, StoreCallbackSet
  <2> QED
    BY <1>1, <2>1, <2>2
<1> QED
  BY <1>5, <1>6, <1>7, <1>8, <1>9 DEF Rest

LEMMA StoreRest ==
  ASSUME DevType, Rest, NEW a \in Apps,
         LibInitFails(a) \/ RegisterStore(a) \/ UnregisterStore(a)
  PROVE Rest'
<1>0. /\ hnd[a]["vsc"] \in Devs /\ hnd[a]["vsc"] # 0 /\ "vsc" \in Libs
      /\ m_mutex = "free" /\ lpc # "store" /\ 0 \in 0..MaxDevs /\ Devs \subseteq 0..MaxDevs
  BY UsersAssumption DEF LibInitFails, RegisterStore, UnregisterStore, Holds, DevType, Devs,
     Rest, StoreInv, Libs
<1>1. UNCHANGED <<pc, sent, smcVars, loopVars>>
  BY DEF LibInitFails, RegisterStore, UnregisterStore
<1>2. LoopType' /\ PcType' /\ SmcType'
  BY <1>1 DEF LoopType, PcType, SmcType, Rest, smcVars, loopVars
<1>3. KernelType'
  <2>1. fails' \in 0..MaxFail
    BY UsersAssumption
    DEF LibInitFails, RegisterStore, UnregisterStore, Rest, KernelType
  <2>2. watch' \in [Libs -> 0..MaxDevs] /\ queue' \in [Libs -> 0..MaxQueue]
    BY <1>0, QueueTypes
    DEF LibInitFails, RegisterStore, UnregisterStore, StoreClosed, Rest, KernelType
  <2> QED
    BY <1>1, <2>1, <2>2 DEF Rest, KernelType
<1>4. VscType'
  BY <1>0 DEF LibInitFails, RegisterStore, UnregisterStore, Rest, VscType
<1>5. m_store_fd' = TRUE \/ m_store_fd' = FALSE \/ m_store_fd' = m_store_fd
  BY DEF LibInitFails, RegisterStore, UnregisterStore, StoreClosed
<1>6. FlagType'
  BY <1>1, <1>5, Zenon DEF Rest, FlagType, smcVars
<1>7. StoreInv' /\ StoreCallbackSet'
  BY <1>0, <1>1
  DEF LibInitFails, RegisterStore, UnregisterStore, StoreClosed, Rest, StoreInv,
      StoreCallbackSet, loopVars
<1> QED
  BY <1>2, <1>3, <1>4, <1>6, <1>7 DEF Rest

LEMMA DriverRest ==
  ASSUME Rest, Driver
  PROVE Rest'
<1>1. /\ UNCHANGED <<pc, watch, fails, status, callback, owed, vscVars, loopVars>>
      /\ sent < MaxEvents /\ sent' = sent + 1
      /\ queue' = queue \/ \E l \in Libs : queue' = Queued(l)
  BY DEF Driver, CardChanges, Message, smcVars, Libs
<1>2. KernelType'
  BY <1>1, QueueTypes, UsersAssumption DEF Rest, KernelType
<1>3. SmcType'
  BY <1>1 DEF Driver, CardChanges, Message, Rest, SmcType, smcVars
<1>4. PcType' /\ FlagType'
  BY <1>1 DEF Rest, PcType, FlagType, vscVars
<1> QED
  BY <1>1, <1>2, <1>3, <1>4, StoreKeeps DEF Rest

LEMMA LoopRest ==
  ASSUME DevType, Rest, Loop
  PROVE Rest'
<1> USE DEF Loop
<1>0. UNCHANGED <<pc, watch, sent, status, callback, card, m_store_fd, slevent, store_callback>>
  BY DEF LoopPoll, LoopDispatch, MonitorRead, MonitorNotify, MonitorInvoke, HdmiDaemon, PollCheck,
     SndPollRead, GpioPollRead, StoreCheck, StoreRead, StoreCall, kernelVars, smcVars, vscVars
<1>1. PcType' /\ SmcType'
  BY <1>0 DEF Rest, PcType, SmcType
<1>2. KernelType'
  <2>1. queue' = queue \/ \E l \in Libs : Consumed(l)
    BY DEF LoopPoll, LoopDispatch, MonitorRead, MonitorNotify, MonitorInvoke, HdmiDaemon, PollCheck,
       SndPollRead, GpioPollRead, StoreCheck, StoreRead, StoreCall, kernelVars, Libs
  <2>2. fails' = fails \/ (fails < MaxFail /\ fails' = fails + 1)
    BY DEF LoopPoll, LoopDispatch, MonitorRead, MonitorNotify, MonitorInvoke, HdmiDaemon, PollCheck,
       SndPollRead, GpioPollRead, StoreCheck, StoreRead, StoreCall, kernelVars
  <2> QED
    BY <1>0, <2>1, <2>2, QueueTypes, UsersAssumption DEF Rest, KernelType
<1>3. FlagType'
  <2>1. owed' = owed \/ owed' = FALSE
    BY DEF LoopPoll, LoopDispatch, MonitorRead, MonitorNotify, MonitorInvoke, HdmiDaemon, PollCheck,
       SndPollRead, GpioPollRead, StoreCheck, StoreRead, StoreCall, smcVars
  <2> QED
    BY <1>0, <2>1, Zenon DEF Rest, FlagType
<1>4. LoopType'
  <2>1. CASE LoopPoll
    BY <2>1 DEF LoopPoll, Rest, LoopType, KernelType, Devs
  <2>2. CASE LoopDispatch
    <3>1. ASSUME NEW e \in Libs \X Devs PROVE Copied(e[1], e[2]) \in 0..MaxDevs /\ e[1] \in Libs
      BY UsersAssumption DEF Copied, Rest, VscType, KernelType, Devs
    <3> QED
      BY <2>2, <3>1 DEF LoopDispatch, Rest, LoopType
  <2>3. CASE \/ MonitorRead \/ MonitorNotify \/ MonitorInvoke \/ HdmiDaemon \/ PollCheck
             \/ SndPollRead \/ GpioPollRead \/ StoreCheck \/ StoreRead \/ StoreCall
    <3>1. \/ UNCHANGED loopVars \/ Done
          \/ \E w \in {"crash", "notify", "invoke", "callback", "read", "lock", "store"} : At(w)
      BY <2>3 DEF MonitorRead, MonitorNotify, MonitorInvoke, HdmiDaemon, PollCheck,
         SndPollRead, GpioPollRead, StoreCheck, StoreRead, StoreCall
    <3> QED
      BY <3>1, UsersAssumption DEF Done, At, loopVars, Rest, LoopType
  <2> QED
    BY <2>1, <2>2, <2>3
<1>5. VscType'
  BY <1>0 DEF LoopPoll, LoopDispatch, MonitorRead, MonitorNotify, MonitorInvoke, HdmiDaemon, PollCheck,
     SndPollRead, GpioPollRead, StoreCheck, StoreRead, StoreCall, vscVars, Rest, VscType
<1>6. StoreInv' /\ StoreCallbackSet'
  <2>1. CASE StoreRead
    BY <1>0, <2>1 DEF StoreRead, At, Done, Rest, StoreInv, StoreCallbackSet
  <2>2. CASE StoreCall
    BY <1>0, <2>2 DEF StoreCall, At, Done, Rest, StoreInv, StoreCallbackSet
  <2>3. CASE \/ LoopPoll \/ LoopDispatch \/ MonitorRead \/ MonitorNotify \/ MonitorInvoke \/ HdmiDaemon
             \/ PollCheck \/ SndPollRead \/ GpioPollRead \/ StoreCheck
    <3>1. lpc' # "store"
      BY <2>3 DEF LoopPoll, LoopDispatch, MonitorRead, MonitorNotify, MonitorInvoke, HdmiDaemon, PollCheck,
         SndPollRead, GpioPollRead, StoreCheck, At, Done, loopVars
    <3> QED
      BY <1>0, <3>1 DEF Rest, StoreInv, StoreCallbackSet
  <2> QED
    BY <2>1, <2>2, <2>3
<1> QED
  BY <1>1, <1>2, <1>3, <1>4, <1>5, <1>6 DEF Rest
-----------------------------------------------------------------------------
(* Every step.                                                             *)

\* Every step but an open and a close leaves the handles alone.
LEMMA HandlesKept ==
  ASSUME \/ Driver \/ Loop
         \/ \E a \in Apps :
              \/ GpioCallbackReg(a) \/ SndRegCallback(a)
              \/ SetCfg(a) \/ StartCheck(a) \/ StopMonitor(a) \/ Card(a)
              \/ \E set \in BOOLEAN : RegisterCallback(a, set)
              \/ LibInitFails(a) \/ RegisterStore(a) \/ UnregisterStore(a)
  PROVE UNCHANGED devVars
<1>1. CASE Driver
  BY <1>1 DEF Driver, CardChanges, Message
<1>2. CASE Loop
  BY <1>2 DEF Loop, LoopPoll, LoopDispatch, MonitorRead, MonitorNotify, MonitorInvoke, HdmiDaemon,
     PollCheck, SndPollRead, GpioPollRead, StoreCheck, StoreRead, StoreCall
<1>3. ASSUME NEW a \in Apps,
             \/ GpioCallbackReg(a) \/ SndRegCallback(a)
             \/ LibInitFails(a) \/ RegisterStore(a) \/ UnregisterStore(a)
      PROVE UNCHANGED devVars
  BY <1>3 DEF GpioCallbackReg, SndRegCallback, Watch, LibInitFails, RegisterStore,
     UnregisterStore
<1>4. ASSUME NEW a \in Apps,
             \/ SetCfg(a) \/ StartCheck(a) \/ StopMonitor(a) \/ Card(a)
             \/ \E set \in BOOLEAN : RegisterCallback(a, set)
      PROVE UNCHANGED devVars
  BY <1>4 DEF SetCfg, StartCheck, StopMonitor, Card, RegisterCallback, StartConfig,
     StartMonitor, StartSet, StartStatus, StartCall, StartInvoke, StopDeconfig
<1> QED
  BY <1>1, <1>2, <1>3, <1>4

LEMMA DevKeeps ==
  ASSUME UNCHANGED devVars
  PROVE /\ DevType => DevType'
        /\ CountInv => CountInv'
        /\ Owned => Owned'
<1>1. DevType => DevType'
  BY DEF DevType, devVars
<1>2. CountInv => CountInv'
  BY DEF CountInv, Holders, devVars
<1>3. Owned => Owned'
  BY DEF Owned, FreshInv, OwnInv, devVars
<1> QED
  BY <1>1, <1>2, <1>3

LEMMA StepInv ==
  ASSUME IInv, [Next]_vars
  PROVE /\ IInv'
        /\ "hdmi" \notin Shared /\ Owned => Owned'
<1> USE DEF IInv
<1>0. {"smc", "hdmi", "snd", "gpio"} \subseteq OneLibs
  BY DEF OneLibs, Libs
<1>1. ASSUME NEW a \in Apps, SmcOpen(a) \/ HdmiOpen(a) \/ SndOpen(a) \/ GpioOpen(a)
      PROVE IInv' /\ ("hdmi" \notin Shared /\ Owned => Owned')
  <2>1. PICK l \in OneLibs : OpenDev(a, l)
    BY <1>0, <1>1 DEF SmcOpen, HdmiOpen, SndOpen, GpioOpen
  <2> QED
    BY <1>1, <2>1, OpenInv, OpenOwned, OpenRest
<1>2. ASSUME NEW a \in Apps, SmcClose(a) \/ HdmiClose(a) \/ SndClose(a) \/ GpioClose(a)
      PROVE IInv' /\ ("hdmi" \notin Shared /\ Owned => Owned')
  <2>1. PICK l \in OneLibs, last \in BOOLEAN :
          CloseDev(a, l, last) /\ (last => l = "hdmi" \/ cnt[l] = 1)
    BY <1>0, <1>2 DEF SmcClose, HdmiClose, SndClose, GpioClose, LastClose
  <2> QED
    BY <1>2, <2>1, CloseInv, CloseOwned, CloseRest
<1>3. ASSUME NEW a \in Apps, VscOpen(a) \/ VscClose(a)
      PROVE IInv' /\ ("hdmi" \notin Shared /\ Owned => Owned')
  BY <1>3, VscInv, OpenRest
<1>4. CASE Driver \/ Loop
  BY <1>4, HandlesKept, DevKeeps, DriverRest, LoopRest
<1>5. ASSUME NEW a \in Apps, GpioCallbackReg(a) \/ SndRegCallback(a)
      PROVE IInv' /\ ("hdmi" \notin Shared /\ Owned => Owned')
  BY <1>5, HandlesKept, DevKeeps, OpenRest
<1>6. ASSUME NEW a \in Apps,
             \/ SetCfg(a) \/ StartCheck(a) \/ StopMonitor(a) \/ Card(a)
             \/ \E set \in BOOLEAN : RegisterCallback(a, set)
      PROVE IInv' /\ ("hdmi" \notin Shared /\ Owned => Owned')
  BY <1>6, HandlesKept, DevKeeps, CardRest
<1>7. ASSUME NEW a \in Apps, LibInitFails(a) \/ RegisterStore(a) \/ UnregisterStore(a)
      PROVE IInv' /\ ("hdmi" \notin Shared /\ Owned => Owned')
  BY <1>7, HandlesKept, DevKeeps, StoreRest
<1>8. CASE UNCHANGED vars
  <2>1. UNCHANGED <<devVars, pc, kernelVars, smcVars, vscVars, loopVars>>
    BY <1>8 DEF vars
  <2>2. PcType' /\ KernelType' /\ SmcType' /\ FlagType'
    BY <2>1 DEF Rest, PcType, KernelType, SmcType, FlagType, kernelVars, smcVars, vscVars
  <2>3. Rest'
    BY <2>1, <2>2, StoreKeeps DEF Rest
  <2> QED
    BY <2>1, <2>3, DevKeeps
<1> QED
  BY <1>1, <1>2, <1>3, <1>4, <1>5, <1>6, <1>7, <1>8 DEF Next, App

LEMMA InitInv == Init => IInv /\ Owned
<1> SUFFICES ASSUME Init PROVE IInv /\ Owned
  OBVIOUS
<1>1. DevType
  BY UsersAssumption DEF Init, DevType
<1>2. \A l \in Libs : Holders(l) = {}
  BY DEF Init, Holders
<1>3. CountInv
  BY <1>2, FS_EmptySet DEF Init, CountInv, OneLibs, Libs
<1>4. PcType /\ KernelType /\ SmcType /\ VscType /\ LoopType
  BY UsersAssumption DEF Init, PcType, KernelType, SmcType, VscType, LoopType
<1>5. FlagType
  BY Zenon DEF Init, FlagType
<1>6. StoreInv /\ StoreCallbackSet
  BY DEF Init, StoreInv, StoreCallbackSet
<1>7. Owned
  BY DEF Init, Owned, FreshInv, OwnInv, OneLibs, Libs
<1> QED
  BY <1>1, <1>3, <1>4, <1>5, <1>6, <1>7 DEF IInv, Rest

\* The open counts count the handles, and the store that is open has a callback.
THEOREM UsersInv == Spec => []IInv
<1>1. IInv /\ [Next]_vars => IInv'
  BY StepInv
<1> QED
  BY <1>1, InitInv, PTL DEF Spec

\* The libraries, the drivers and the loop keep their types; in particular no
\* open count falls below zero, whatever is opened and closed by whom.
THEOREM UsersTypeCorrect == Spec => []TypeOK
<1> QED
  BY TypeParts, UsersInv, PTL

\* The store callback is called with a structure registered, whatever was
\* unregistered between the check of the callback and the lock.
THEOREM StoreCallbackStays == Spec => []StoreCallbackSet
<1>1. IInv => StoreCallbackSet
  BY DEF IInv, Rest
<1> QED
  BY <1>1, UsersInv, PTL

\* If HDMI is used by one thread, no close of any library frees what another
\* thread's handle points to, and every handle is that of the library's present
\* structure.
THEOREM HandlesStayGood == "hdmi" \notin Shared => (Spec => []PointersGood)
<1> SUFFICES ASSUME "hdmi" \notin Shared PROVE Spec => []PointersGood
  OBVIOUS
<1>1. (IInv /\ Owned) /\ [Next]_vars => (IInv /\ Owned)'
  BY StepInv
<1>2. IInv /\ Owned => PointersGood
  <2> SUFFICES ASSUME IInv, Owned PROVE HandlesGood
    BY DEF PointersGood, IInv, Rest
  <2>1. ASSUME NEW a \in Apps, NEW l \in OneLibs, hnd[a][l] # 0
        PROVE hnd[a][l] = dev[l] /\ dev[l] \in alive
    BY <2>1 DEF Owned, OwnInv, FreshInv, OneLibs
  <2>2. ASSUME NEW a \in Apps, hnd[a]["vsc"] # 0 PROVE hnd[a]["vsc"] \in alive
    BY <2>2 DEF Owned, FreshInv
  <2> QED
    BY <2>1, <2>2 DEF HandlesGood, OneLibs
<1> QED
  BY <1>1, <1>2, InitInv, PTL DEF Spec
-----------------------------------------------------------------------------
(* The plug event of a start.                                              *)

\* A message of the card is queued or in the hands of the loop.
InHand == queue["smc"] > 0 \/ lpc \in {"notify", "invoke", "crash"}

\* A thread in a call of the smart card has it open.
CallerInv ==
  /\ \A a \in Apps : pc[a] # "idle" => hnd[a]["smc"] # 0
  /\ \A a \in Apps : hnd[a]["smc"] # 0 => dev["smc"] # 0

\* While the event of a start is to come: the callback is set and no stop is under
\* way; a card that a configured driver has seen is reported already; and what the
\* start has not done yet, the thread that is in it will do.
OwedInv == owed =>
  /\ callback
  /\ \A a \in Apps : pc[a] # "deconfig"
  /\ "CONFIGURE" \in status \/ \A a \in Apps : pc[a] \in {"idle", "cfg"}
  /\ "CONFIGURE" \in status /\ card = 1 => InHand
  /\ watch["smc"] # 0 \/ \A a \in Apps : pc[a] \in {"idle", "cfg", "monitor"}
  /\ (\A a \in Apps : pc[a] = "idle") => InHand /\ watch["smc"] # 0

\* The safety part of PlugEvent: a plug event still to come is never forgotten.
\* Either some thread is still inside alislsmc_start, or the loop watches the
\* card's queue and has the message in it or in hand.
PlugComes ==
  owed => \/ \E a \in Apps : pc[a] # "idle"
          \/ watch["smc"] # 0 /\ InHand

LEMMA CallerStep ==
  ASSUME IInv, CallerInv, [Next]_vars
  PROVE CallerInv'
<1>0. "smc" \in Libs /\ "smc" \in OneLibs /\ DevType /\ PcType
  BY DEF Libs, OneLibs, IInv, Rest
<1>1. ASSUME NEW a \in Apps, NEW l \in Libs, OpenDev(a, l), UNCHANGED pc
      PROVE CallerInv'
  <2>1. /\ dev'[l] # 0
        /\ \A b \in Apps, k \in Libs :
             hnd'[b][k] = IF b = a /\ k = l THEN dev'[l] ELSE hnd[b][k]
        /\ \A k \in Libs : k # l => dev'[k] = dev[k]
    BY <1>0, <1>1, OpenFacts
  <2> QED
    BY <1>0, <1>1, <2>1 DEF CallerInv
<1>2. ASSUME NEW a \in Apps, NEW l \in Libs, NEW last, CloseDev(a, l, last), UNCHANGED pc,
             l = "smc" /\ last => cnt[l] = 1
      PROVE CallerInv'
  <2>1. /\ hnd[a][l] # 0
        /\ \A b \in Apps, k \in Libs : hnd'[b][k] = IF b = a /\ k = l THEN 0 ELSE hnd[b][k]
        /\ \A k \in Libs : k # l => dev'[k] = dev[k]
        /\ ~last => dev' = dev
    BY <1>0, <1>2, CloseFacts
  <2>2. pc[a] = "idle"
    BY <1>2 DEF CloseDev, Holds, Ready
  <2>3. CASE l = "smc" /\ last
    <3>1. Cardinality(Holders("smc")) = 1
      BY <1>0, <1>2, <2>3 DEF IInv, CountInv
    <3>2. \E x : Holders("smc") = {x}
      BY <3>1, HoldersFinite, FS_Singleton
    <3>3. \A b \in Apps : b # a => hnd[b]["smc"] = 0
      BY <2>1, <2>3, <3>2 DEF Holders
    <3> QED
      BY <1>0, <1>2, <2>1, <2>2, <2>3, <3>3 DEF CallerInv
  <2>4. CASE ~(l = "smc" /\ last)
    <3>1. dev'["smc"] = dev["smc"]
      BY <1>0, <2>1, <2>4
    <3> QED
      BY <1>0, <1>2, <2>1, <2>2, <3>1 DEF CallerInv
  <2> QED
    BY <2>3, <2>4
<1>3. ASSUME NEW a \in Apps, VscOpen(a) \/ VscClose(a) PROVE CallerInv'
  <2>1. \A b \in Apps : hnd'[b]["smc"] = hnd[b]["smc"]
    BY <1>0, <1>3 DEF VscOpen, VscClose, DevType
  <2> QED
    BY <1>3, <2>1 DEF VscOpen, VscClose, CallerInv
<1>4. ASSUME NEW a \in Apps, SetCfg(a) \/ StartCheck(a) \/ StopMonitor(a) \/ Card(a)
      PROVE CallerInv'
  <2>1. UNCHANGED <<hnd, dev>>
    BY <1>4 DEF SetCfg, StartCheck, StopMonitor, Card, StartConfig,
       StartMonitor, StartSet, StartStatus, StartCall, StartInvoke, StopDeconfig, devVars
  <2>2. hnd[a]["smc"] # 0
    BY <1>0, <1>4 DEF SetCfg, StartCheck, StopMonitor, Card, StartConfig, StartMonitor,
       StartSet, StartStatus, StartCall, StartInvoke, StopDeconfig, Holds, CallerInv, DevType, Devs
  <2>3. pc' = pc \/ \E w : pc' = [pc EXCEPT ![a] = w]
    BY <1>4 DEF SetCfg, StartCheck, StopMonitor, Card, StartConfig, StartMonitor,
       StartSet, StartStatus, StartCall, StartInvoke, StopDeconfig
  <2> QED
    BY <1>0, <2>1, <2>2, <2>3 DEF CallerInv, PcType
<1>5. CASE UNCHANGED <<devVars, pc>>
  BY <1>5 DEF CallerInv, devVars
<1>6. ASSUME NEW a \in Apps,
             \/ GpioCallbackReg(a) \/ SndRegCallback(a)
             \/ \E set \in BOOLEAN : RegisterCallback(a, set)
             \/ LibInitFails(a) \/ RegisterStore(a) \/ UnregisterStore(a)
      PROVE UNCHANGED <<devVars, pc>>
  BY <1>6 DEF GpioCallbackReg, SndRegCallback, Watch, RegisterCallback, LibInitFails,
     RegisterStore, UnregisterStore
<1>7. CASE Driver \/ Loop
  BY <1>5, <1>7 DEF Driver, CardChanges, Message, Loop, LoopPoll, LoopDispatch, MonitorRead,
     MonitorNotify, MonitorInvoke, HdmiDaemon, PollCheck, SndPollRead, GpioPollRead, StoreCheck, StoreRead,
     StoreCall
<1>8. ASSUME NEW a \in Apps, SmcOpen(a) \/ HdmiOpen(a) \/ SndOpen(a) \/ GpioOpen(a)
      PROVE CallerInv'
  <2>1. PICK l \in Libs : OpenDev(a, l)
    BY <1>8 DEF SmcOpen, HdmiOpen, SndOpen, GpioOpen, Libs
  <2> QED
    BY <1>1, <2>1 DEF OpenDev
<1>9. ASSUME NEW a \in Apps, SmcClose(a) \/ HdmiClose(a) \/ SndClose(a) \/ GpioClose(a)
      PROVE CallerInv'
  <2>1. PICK l \in Libs, last \in BOOLEAN :
          CloseDev(a, l, last) /\ (l = "smc" /\ last => cnt[l] = 1)
    BY <1>9 DEF SmcClose, HdmiClose, SndClose, GpioClose, LastClose, Libs
  <2> QED
    BY <1>2, <2>1 DEF CloseDev
<1>10. CASE UNCHANGED vars
  BY <1>5, <1>10 DEF vars
<1>11. ASSUME NEW a \in Apps, App(a) PROVE CallerInv'
  BY <1>3, <1>4, <1>5, <1>6, <1>8, <1>9, <1>11 DEF App
<1> QED
  BY <1>7, <1>10, <1>11 DEF Next

\* A step that is none of a start's or a stop's.
LEMMA OwedFrame ==
  ASSUME OwedInv, UNCHANGED pc,
         owed' => owed, owed' => callback',
         owed' /\ "CONFIGURE" \in status => "CONFIGURE" \in status',
         owed' /\ "CONFIGURE" \in status' /\ card' = 1 =>
            InHand' \/ ("CONFIGURE" \in status /\ card = 1),
         owed' /\ watch["smc"] # 0 => watch'["smc"] # 0,
         owed' /\ InHand => InHand'
  PROVE OwedInv'
  BY DEF OwedInv

\* A message sent to the card's queue is in it.
LEMMA QueuedFacts ==
  ASSUME KernelType, MaxQueue > 0, NEW l \in Libs
  PROVE Queued(l)[l] > 0 /\ (queue["smc"] > 0 => Queued(l)["smc"] > 0)
  BY UsersAssumption DEF KernelType, Queued, Libs

LEMMA OwedApp ==
  ASSUME IInv, CallerInv, OwedInv, MaxQueue > 0, NEW a \in Apps,
         \/ SetCfg(a) \/ StartCheck(a) \/ StopMonitor(a) \/ Card(a)
         \/ \E set \in BOOLEAN : RegisterCallback(a, set)
  PROVE OwedInv'
<1>0. /\ "smc" \in Libs /\ PcType /\ KernelType /\ SmcType
      /\ watch["smc"] \in Nat /\ queue["smc"] \in Nat /\ dev["smc"] \in Nat
  BY UsersAssumption DEF Libs, IInv, Rest, KernelType, DevType
<1>1. CASE SetCfg(a)
  <2>1. UNCHANGED <<pc, callback, card, owed, watch, lpc>>
    BY <1>1 DEF SetCfg, loopVars
  <2>2. "CONFIGURE" \in status' /\ queue' = IF card = 1 THEN Queued("smc") ELSE queue
    BY <1>1 DEF SetCfg, Configured
  <2>3. card' = 1 \/ InHand => InHand'
    BY <1>0, <2>1, <2>2, QueuedFacts DEF InHand
  <2> QED
    BY <2>1, <2>2, <2>3 DEF OwedInv
<1>2. CASE \E set \in BOOLEAN : RegisterCallback(a, set)
  <2>1. UNCHANGED <<pc, status, card, watch, queue, lpc>>
    BY <1>2 DEF RegisterCallback, kernelVars, loopVars
  <2>2. owed' => owed /\ callback'
    <3>1. PICK set \in BOOLEAN : RegisterCallback(a, set)
      BY <1>2
    <3>2. CASE set = TRUE
      BY <3>1, <3>2 DEF RegisterCallback
    <3>3. CASE set = FALSE
      BY <3>1, <3>3 DEF RegisterCallback
    <3> QED
      BY <3>1, <3>2, <3>3
  <2>3. InHand' <=> InHand
    BY <2>1 DEF InHand
  <2> QED
    BY <2>1, <2>2, <2>3, OwedFrame
<1>3. CASE StartCheck(a)
  <2>1. /\ UNCHANGED <<callback, status, card, watch, queue, lpc>>
        /\ pc[a] = "idle" /\ pc' = [pc EXCEPT ![a] = "cfg"]
    BY <1>3 DEF StartCheck, Holds, Ready, loopVars
  <2>2. owed' => owed \/ (callback /\ ~Reported /\ \A b \in Apps : pc[b] = "idle")
    BY <1>3, Zenon DEF StartCheck
  <2>3. InHand' <=> InHand
    BY <2>1 DEF InHand
  <2>4. pc'[a] = "cfg" /\ \A b \in Apps : b # a => pc'[b] = pc[b]
    BY <1>0, <2>1 DEF PcType
  <2>5. ~Reported => ("CONFIGURE" \in status /\ card = 1 => InHand)
    BY <1>0 DEF Reported, InHand
  <2>6. CASE owed
    BY <2>1, <2>3, <2>4, <2>6 DEF OwedInv
  <2>7. CASE callback /\ ~Reported /\ \A b \in Apps : pc[b] = "idle"
    BY <2>1, <2>3, <2>4, <2>5, <2>7 DEF OwedInv
  <2> QED
    BY <2>2, <2>6, <2>7 DEF OwedInv
<1>4. CASE StopMonitor(a)
  BY <1>4 DEF StopMonitor, OwedInv
<1>5. CASE StartConfig(a)
  <2>1. /\ UNCHANGED <<callback, card, owed, watch, lpc>>
        /\ pc[a] = "cfg" /\ pc' = [pc EXCEPT ![a] = "monitor"]
    BY <1>5 DEF StartConfig, loopVars
  <2>2. /\ "CONFIGURE" \in status'
        /\ IF "CONFIGURE" \in status \/ card = 0 THEN queue' = queue
                                                ELSE queue' = Queued("smc")
    BY <1>0, <1>5 DEF StartConfig, Configured, SmcType
  <2>3. pc'[a] = "monitor" /\ \A b \in Apps : b # a => pc'[b] = pc[b]
    BY <1>0, <2>1 DEF PcType
  <2>4. /\ InHand => InHand'
        /\ "CONFIGURE" \notin status /\ card = 1 => InHand'
    BY <1>0, <2>1, <2>2, QueuedFacts DEF InHand
  <2> QED
    BY <2>1, <2>2, <2>3, <2>4 DEF OwedInv
<1>6. CASE StartMonitor(a)
  <2>1. /\ UNCHANGED <<callback, card, owed, queue, lpc>>
        /\ pc[a] = "monitor" /\ pc' = [pc EXCEPT ![a] = "set"]
    BY <1>6 DEF StartMonitor, loopVars
  <2>2. "CONFIGURE" \in status' <=> "CONFIGURE" \in status
    BY <1>6 DEF StartMonitor
  <2>3. pc'[a] = "set" /\ \A b \in Apps : b # a => pc'[b] = pc[b]
    BY <1>0, <2>1 DEF PcType
  <2>4. watch'["smc"] # 0
    <3>1. dev["smc"] # 0
      BY <2>1 DEF CallerInv
    <3> QED
      BY <1>0, <1>6, <3>1 DEF StartMonitor, KernelType
  <2>5. InHand' <=> InHand
    BY <2>1 DEF InHand
  <2> QED
    BY <2>1, <2>2, <2>3, <2>4, <2>5 DEF OwedInv
<1>7. CASE StartSet(a)
  <2>1. /\ UNCHANGED <<callback, card, owed, watch, queue, lpc>>
        /\ pc[a] = "set" /\ pc' = [pc EXCEPT ![a] = "status"]
    BY <1>7 DEF StartSet, loopVars, kernelVars
  <2>2. "CONFIGURE" \in status' <=> "CONFIGURE" \in status
    BY <1>7 DEF StartSet
  <2>3. pc'[a] = "status" /\ \A b \in Apps : b # a => pc'[b] = pc[b]
    BY <1>0, <2>1 DEF PcType
  <2>4. InHand' <=> InHand
    BY <2>1 DEF InHand
  <2> QED
    BY <2>1, <2>2, <2>3, <2>4 DEF OwedInv
<1>8. CASE StartStatus(a)
  <2>1. /\ UNCHANGED <<callback, status, card, owed, watch, queue, lpc>>
        /\ pc[a] = "status" /\ card \in {0, 1}
        /\ pc' = [pc EXCEPT ![a] = IF card = 0 THEN "call" ELSE "idle"]
    BY <1>0, <1>8 DEF StartStatus, loopVars, kernelVars, smcVars, SmcType
  <2>2. /\ pc'[a] = IF card = 0 THEN "call" ELSE "idle"
        /\ \A b \in Apps : b # a => pc'[b] = pc[b]
    BY <1>0, <2>1 DEF PcType
  <2>3. InHand' <=> InHand
    BY <2>1 DEF InHand
  <2>4. owed => "CONFIGURE" \in status /\ watch["smc"] # 0
    BY <2>1 DEF OwedInv
  <2> QED
    BY <2>1, <2>2, <2>3, <2>4 DEF OwedInv
<1>9. CASE StartCall(a)
  <2>1. /\ UNCHANGED <<callback, status, card, owed, watch, queue, lpc>>
        /\ pc[a] = "call"
        /\ pc' = [pc EXCEPT ![a] = IF callback THEN "invoke" ELSE "idle"]
    BY <1>9 DEF StartCall, loopVars, kernelVars, smcVars
  <2>2. /\ callback => pc'[a] = "invoke"
        /\ \A b \in Apps : b # a => pc'[b] = pc[b]
    BY <1>0, <2>1 DEF PcType
  <2>3. InHand' <=> InHand
    BY <2>1 DEF InHand
  <2>4. owed => callback /\ "CONFIGURE" \in status /\ watch["smc"] # 0
    BY <2>1 DEF OwedInv
  <2> QED
    BY <2>1, <2>2, <2>3, <2>4 DEF OwedInv
<1>11. CASE StartInvoke(a)
  <2>1. owed' => owed /\ ~callback
    BY <1>11, Zenon DEF StartInvoke
  <2> QED
    BY <2>1 DEF OwedInv
<1>10. CASE StopDeconfig(a)
  <2>1. pc[a] = "deconfig" /\ owed' = owed
    BY <1>10 DEF StopDeconfig
  <2> QED
    BY <2>1 DEF OwedInv
<1> QED
  BY <1>1, <1>2, <1>3, <1>4, <1>5, <1>6, <1>7, <1>8, <1>9, <1>10, <1>11 DEF Card

LEMMA OwedStep ==
  ASSUME IInv, CallerInv, OwedInv, MaxQueue > 0, [Next]_vars
  PROVE OwedInv'
<1>0. "smc" \in Libs /\ KernelType /\ SmcType /\ queue["smc"] \in Nat
  BY UsersAssumption DEF Libs, IInv, Rest, KernelType
<1>1. ASSUME UNCHANGED <<pc, smcVars, loopVars>>,
             watch'["smc"] = watch["smc"], queue'["smc"] = queue["smc"]
      PROVE OwedInv'
  BY <1>1 DEF smcVars, loopVars, OwedInv, InHand
<1>2. ASSUME NEW a \in Apps,
             \/ SmcOpen(a) \/ HdmiOpen(a) \/ SndOpen(a) \/ GpioOpen(a) \/ VscOpen(a)
             \/ VscClose(a) \/ GpioCallbackReg(a) \/ SndRegCallback(a)
             \/ LibInitFails(a) \/ RegisterStore(a) \/ UnregisterStore(a)
      PROVE OwedInv'
  <2>1. UNCHANGED <<pc, smcVars, loopVars>>
    BY <1>2 DEF SmcOpen, HdmiOpen, SndOpen, GpioOpen, OpenDev, VscOpen, VscClose,
       GpioCallbackReg, SndRegCallback, Watch, LibInitFails, RegisterStore, UnregisterStore
  <2>2. watch'["smc"] = watch["smc"] /\ queue'["smc"] = queue["smc"]
    BY <1>0, <1>2 DEF SmcOpen, HdmiOpen, SndOpen, GpioOpen, OpenDev, VscOpen, VscClose,
       GpioCallbackReg, SndRegCallback, Watch, LibInitFails, RegisterStore, UnregisterStore,
       StoreClosed, kernelVars, KernelType
  <2> QED
    BY <1>1, <2>1, <2>2
<1>3. ASSUME NEW a \in Apps, SmcClose(a) \/ HdmiClose(a) \/ SndClose(a) \/ GpioClose(a)
      PROVE OwedInv'
  <2>1. CASE SmcClose(a) /\ LastClose("smc")
    <3>1. owed' = FALSE
      BY <2>1 DEF SmcClose
    <3> QED
      BY <3>1 DEF OwedInv
  <2>2. CASE ~(SmcClose(a) /\ LastClose("smc"))
    <3>1. UNCHANGED <<pc, smcVars, loopVars>>
      BY <1>3, <2>2 DEF SmcClose, HdmiClose, SndClose, GpioClose, CloseDev, smcVars
    <3>2. watch'["smc"] = watch["smc"] /\ queue'["smc"] = queue["smc"]
      BY <1>0, <1>3, <2>2 DEF SmcClose, HdmiClose, SndClose, GpioClose, CloseDev, KernelType
    <3> QED
      BY <1>1, <3>1, <3>2
  <2> QED
    BY <2>1, <2>2
<1>4. CASE Driver
  <2>1. UNCHANGED <<pc, status, callback, owed, watch, lpc>>
    BY <1>4 DEF Driver, CardChanges, Message, smcVars, loopVars
  <2>2. /\ InHand => InHand'
        /\ "CONFIGURE" \in status /\ card # card' => InHand'
    BY <1>0, <1>4, <2>1, QueuedFacts DEF Driver, CardChanges, Message, smcVars, InHand
  <2> QED
    BY <2>1, <2>2 DEF OwedInv
<1>5. CASE Loop
  <2>1. UNCHANGED <<pc, status, callback, card, watch>>
    BY <1>5 DEF Loop, LoopPoll, LoopDispatch, MonitorRead, MonitorNotify, MonitorInvoke, HdmiDaemon,
       PollCheck, SndPollRead, GpioPollRead, StoreCheck, StoreRead, StoreCall,
       kernelVars, smcVars
  <2>2. CASE MonitorNotify
    <3>1. owed' = owed /\ (callback => lpc' \in {"invoke", "crash"})
      BY <2>2 DEF MonitorNotify, At, smcVars
    <3>2. owed => InHand'
      BY <3>1 DEF OwedInv, InHand
    <3> QED
      BY <2>1, <3>1, <3>2 DEF OwedInv
  <2>5. CASE MonitorInvoke
    <3>1. owed' = FALSE \/ (owed' = owed /\ lpc' = "crash")
      BY <2>5, Zenon DEF MonitorInvoke, At
    <3> QED
      BY <2>1, <3>1 DEF OwedInv, InHand
  <2>3. CASE MonitorRead
    <3>1. owed' = owed /\ (InHand => InHand')
      BY <1>0, <2>3 DEF MonitorRead, smcVars, At, Done, InHand
    <3> QED
      BY <2>1, <3>1 DEF OwedInv
  <2>4. CASE \/ LoopPoll \/ LoopDispatch \/ HdmiDaemon \/ PollCheck \/ SndPollRead
             \/ GpioPollRead \/ StoreCheck \/ StoreRead \/ StoreCall
    <3>1. owed' = owed /\ (lpc # "crash" => lpc \notin {"notify", "invoke"})
      BY <2>4 DEF LoopPoll, LoopDispatch, HdmiDaemon, PollCheck, SndPollRead, GpioPollRead,
         StoreCheck, StoreRead, StoreCall, smcVars
    <3>2. queue'["smc"] = queue["smc"]
      BY <1>0, <2>4 DEF LoopPoll, LoopDispatch, HdmiDaemon, PollCheck, SndPollRead,
         GpioPollRead, StoreCheck, StoreRead, StoreCall, kernelVars, Consumed, KernelType
    <3>3. InHand => InHand'
      BY <2>4, <3>1, <3>2 DEF LoopPoll, LoopDispatch, HdmiDaemon, PollCheck, SndPollRead,
         GpioPollRead, StoreCheck, StoreRead, StoreCall, InHand
    <3> QED
      BY <2>1, <3>1, <3>3 DEF OwedInv
  <2> QED
    BY <1>5, <2>2, <2>3, <2>4, <2>5 DEF Loop
<1>6. CASE UNCHANGED vars
  BY <1>1, <1>6 DEF vars, kernelVars
<1>7. ASSUME NEW a \in Apps, App(a) PROVE OwedInv'
  BY <1>2, <1>3, <1>7, OwedApp DEF App
<1> QED
  BY <1>4, <1>5, <1>6, <1>7 DEF Next

\* A plug event that a start owes is not lost, whatever other threads, the card and
\* the loop do meanwhile, in any number of them: PlugEvent is then only a matter
\* of the thread and the loop being scheduled.
THEOREM PlugEventComes == MaxQueue > 0 => (Spec => []PlugComes)
<1> SUFFICES ASSUME MaxQueue > 0 PROVE Spec => []PlugComes
  OBVIOUS
<1>1. Init => CallerInv /\ OwedInv
  BY DEF Init, CallerInv, OwedInv, Libs
<1>2. IInv /\ CallerInv /\ OwedInv /\ [Next]_vars => CallerInv' /\ OwedInv'
  BY CallerStep, OwedStep
<1>3. OwedInv => PlugComes
  BY DEF OwedInv, PlugComes
<1> QED
  BY <1>1, <1>2, <1>3, UsersInv, PTL DEF Spec
-----------------------------------------------------------------------------
(* The loop itself.  EvUsers takes it that one thread dispatches as long as *)
(* the event module is open; SlEvent, with the openings and closings and   *)
(* the threads left over from earlier ones, is where this comes from.      *)

CONSTANTS Users, MaxEplfd, MaxThreads, DelFirst
VARIABLES open_cnt, eplfd, running, instances, threads, interest, ready,
          tpc, tfd, tevnts, slev, upc

SL == INSTANCE SlEvent WITH evnts <- tevnts

\* What SlEvent assumes of its bounds, and finitely many users.
LoopConstants ==
  /\ MaxEplfd \in Nat \ {0} /\ MaxThreads \in Nat \ {0}
  /\ DelFirst \in BOOLEAN /\ IsFiniteSet(Users)

\* The users that have the event module open.
OpenUsers == {u \in Users : upc[u] # "closed"}

\* open_cnt counts the users, and there is an epoll instance when there are some.
OpenedInv ==
  /\ open_cnt = Cardinality(OpenUsers)
  /\ open_cnt = 0 <=> eplfd = 0

\* The thread created last is in the loop and waits on the present instance.
NewestServes ==
  running => /\ eplfd # 0 /\ threads \in SL!Threads
             /\ tpc[threads] \notin {"none", "exit"}
             /\ tpc[threads] = "poll" => tfd[threads] = eplfd

LoopInv == SL!TypeOK /\ OpenedInv /\ NewestServes

LEMMA OpenCount ==
  ASSUME LoopConstants
  PROVE /\ Cardinality(OpenUsers) \in Nat
        /\ \A u \in OpenUsers : Cardinality(OpenUsers) >= 1
        /\ \A u \in Users \ OpenUsers :
             Cardinality(OpenUsers \cup {u}) = Cardinality(OpenUsers) + 1
        /\ \A u \in OpenUsers :
             Cardinality(OpenUsers \ {u}) = Cardinality(OpenUsers) - 1
<1>1. IsFiniteSet(OpenUsers)
  BY FS_Subset DEF LoopConstants, OpenUsers
<1>2. Cardinality(OpenUsers) \in Nat
  BY <1>1, FS_CardinalityType
<1>3. \A u \in OpenUsers : Cardinality(OpenUsers) >= 1
  BY <1>1, <1>2, FS_EmptySet
<1> QED
  BY <1>1, <1>2, <1>3, FS_AddElement, FS_RemoveElement

LEMMA LoopInit ==
  ASSUME LoopConstants, SL!Init
  PROVE LoopInv
<1>1. SL!TypeOK
  <2>1. 0 \in 0..MaxEplfd /\ 0 \in 0..MaxThreads
    BY DEF LoopConstants
  <2>2. /\ tpc \in [SL!Threads -> {"none"}] /\ tfd \in [SL!Threads -> {0}]
        /\ upc \in [Users -> {"closed"}]
    BY DEF SL!Init
  <2>3. /\ interest \in [SL!Eplfds -> SUBSET Users]
        /\ tevnts \in [SL!Threads -> SUBSET Users]
        /\ slev \in [SL!Threads -> SUBSET Users]
    BY DEF SL!Init
  <2>4. tfd \in [SL!Threads -> 0..MaxEplfd]
    BY <2>1, <2>2
  <2> QED
    BY <2>1, <2>2, <2>3, <2>4 DEF SL!Init, SL!TypeOK
<1>2. OpenUsers = {}
  BY DEF SL!Init, OpenUsers
<1> QED
  BY <1>1, <1>2, FS_EmptySet DEF SL!Init, LoopInv, OpenedInv, NewestServes

\* A step of the users that opens and closes nothing.
LEMMA OpenKept ==
  ASSUME SL!TypeOK, OpenedInv, NEW u \in Users, upc[u] # "closed",
         NEW s \in {"open", "adding", "added"}, upc' = [upc EXCEPT ![u] = s],
         UNCHANGED <<open_cnt, eplfd>>
  PROVE OpenedInv' /\ upc' \in [Users -> {"closed", "open", "adding", "added"}]
<1>1. OpenUsers' = OpenUsers
  BY DEF SL!TypeOK, OpenUsers
<1> QED
  BY <1>1 DEF SL!TypeOK, OpenedInv

LEMMA OpenStep ==
  ASSUME LoopConstants, LoopInv, NEW u \in Users, SL!Open(u)
  PROVE LoopInv'
<1>1. OpenUsers' = OpenUsers \cup {u} /\ u \in Users \ OpenUsers
  BY DEF LoopInv, SL!TypeOK, SL!Open, OpenUsers
<1>2. /\ open_cnt \in Nat /\ open_cnt' = open_cnt + 1
      /\ Cardinality(OpenUsers') = open_cnt + 1
  BY <1>1, OpenCount DEF LoopInv, OpenedInv, SL!TypeOK, SL!Open
<1>3. SL!TypeOK'
  BY <1>2 DEF LoopConstants, LoopInv, SL!TypeOK, SL!Open, SL!kernelVars, SL!loopVars
<1>4. OpenedInv'
  BY <1>2 DEF LoopConstants, LoopInv, SL!TypeOK, OpenedInv, SL!Open
<1>5. NewestServes'
  BY <1>2 DEF LoopInv, OpenedInv, NewestServes, SL!TypeOK, SL!Open, SL!loopVars
<1> QED
  BY <1>3, <1>4, <1>5 DEF LoopInv

LEMMA CloseStep ==
  ASSUME LoopConstants, LoopInv, NEW u \in Users, SL!Close(u)
  PROVE LoopInv'
<1>1. OpenUsers' = OpenUsers \ {u} /\ u \in OpenUsers
  BY DEF LoopInv, SL!TypeOK, SL!Close, OpenUsers
<1>2. /\ open_cnt \in Nat \ {0} /\ open_cnt' = open_cnt - 1
      /\ Cardinality(OpenUsers') = open_cnt - 1
  BY <1>1, OpenCount DEF LoopInv, OpenedInv, SL!TypeOK, SL!Close
<1>3. SL!TypeOK'
  <2>1. open_cnt' \in Nat /\ 0 \in 0..MaxEplfd
    BY <1>2 DEF LoopConstants
  <2>2. /\ eplfd' = 0 \/ eplfd' = eplfd
        /\ running' = FALSE \/ running' = running
    BY Zenon DEF SL!Close
  <2>3. eplfd' \in 0..MaxEplfd /\ running' \in BOOLEAN
    BY <2>1, <2>2, Zenon DEF LoopInv, SL!TypeOK
  <2>4. upc' \in [Users -> {"closed", "open", "adding", "added"}]
    BY DEF LoopInv, SL!TypeOK, SL!Close
  <2> QED
    BY <2>1, <2>3, <2>4 DEF LoopInv, SL!TypeOK, SL!Close, SL!kernelVars, SL!loopVars
<1>4. OpenedInv'
  BY <1>2 DEF LoopInv, OpenedInv, SL!Close
<1>5. NewestServes'
  BY DEF LoopInv, NewestServes, SL!Close, SL!loopVars
<1> QED
  BY <1>3, <1>4, <1>5 DEF LoopInv

LEMMA AddStep ==
  ASSUME LoopConstants, LoopInv, NEW u \in Users,
         SL!AddCtl(u) \/ SL!Del(u)
  PROVE LoopInv'
<1>1. upc[u] # "closed" /\ UNCHANGED <<SL!eventVars, ready, SL!loopVars>>
  BY DEF SL!AddCtl, SL!Del
<1>2. u \in OpenUsers
  BY <1>1 DEF OpenUsers
<1>3. eplfd \in SL!Eplfds
  BY <1>2, OpenCount DEF LoopConstants, LoopInv, OpenedInv, SL!TypeOK, SL!Eplfds
<1>4. interest' \in [SL!Eplfds -> SUBSET Users]
  BY <1>3 DEF LoopInv, SL!TypeOK, SL!AddCtl, SL!Del
<1>5. OpenedInv' /\ upc' \in [Users -> {"closed", "open", "adding", "added"}]
  BY <1>1, OpenKept DEF LoopInv, SL!AddCtl, SL!Del, SL!eventVars
<1>6. SL!TypeOK' /\ NewestServes'
  BY <1>1, <1>4, <1>5 DEF LoopInv, SL!TypeOK, NewestServes, SL!eventVars, SL!loopVars
<1> QED
  BY <1>5, <1>6 DEF LoopInv

\* The loop thread that is created becomes the newest one.
LEMMA StartStep ==
  ASSUME LoopConstants, LoopInv, NEW u \in Users, SL!AddStart(u)
  PROVE LoopInv'
<1>1. /\ upc[u] # "closed"
      /\ UNCHANGED <<open_cnt, eplfd, instances, ready, tfd, tevnts, slev>>
  BY DEF SL!AddStart
<1>2. u \in OpenUsers
  BY <1>1 DEF OpenUsers
<1>3. eplfd \in SL!Eplfds /\ eplfd # 0
  BY <1>2, OpenCount DEF LoopConstants, LoopInv, OpenedInv, SL!TypeOK, SL!Eplfds
<1>4. interest' \in [SL!Eplfds -> SUBSET Users]
  BY <1>3 DEF LoopInv, SL!TypeOK, SL!AddStart
<1>5. OpenedInv' /\ upc' \in [Users -> {"closed", "open", "adding", "added"}]
  BY <1>1, OpenKept DEF LoopInv, SL!AddStart
<1>6. \/ UNCHANGED <<running, threads, tpc>>
      \/ /\ threads < MaxThreads /\ running' = TRUE /\ threads' = threads + 1
         /\ tpc' = [tpc EXCEPT ![threads + 1] = "check"]
  BY DEF SL!AddStart
<1>7. CASE UNCHANGED <<running, threads, tpc>>
  <2>1. SL!TypeOK' /\ NewestServes'
    BY <1>1, <1>4, <1>5, <1>7 DEF LoopInv, SL!TypeOK, NewestServes
  <2> QED
    BY <1>5, <2>1 DEF LoopInv
<1>8. CASE /\ threads < MaxThreads /\ running' = TRUE /\ threads' = threads + 1
           /\ tpc' = [tpc EXCEPT ![threads + 1] = "check"]
  <2>1. threads' \in SL!Threads /\ threads' \in 0..MaxThreads
    BY <1>8 DEF LoopConstants, LoopInv, SL!TypeOK, SL!Threads
  <2>2. tpc'[threads'] = "check"
    BY <1>8, <2>1 DEF LoopInv, SL!TypeOK
  <2>3. SL!TypeOK'
    BY <1>1, <1>4, <1>5, <1>8, <2>1 DEF LoopInv, SL!TypeOK
  <2> QED
    BY <1>1, <1>3, <1>5, <2>1, <2>2, <2>3 DEF LoopInv, NewestServes
<1> QED
  BY <1>6, <1>7, <1>8

\* Threads left over from earlier openings do not touch the newest one, and it
\* stays in the loop and on the instance: running and eplfd last as long as it.
LEMMA LoopStep ==
  ASSUME LoopConstants, LoopInv, NEW t \in SL!Threads, SL!Loop(t)
  PROVE LoopInv'
<1>1. UNCHANGED <<SL!eventVars, interest, upc>>
  BY DEF SL!Loop, SL!LoopCheck, SL!LoopEnter, SL!LoopPoll, SL!LoopDispatch,
     SL!LoopRecheck, SL!LoopCallback, SL!kernelVars
<1>2. ready' \subseteq Users
  BY DEF LoopInv, SL!TypeOK, SL!Loop, SL!LoopCheck, SL!LoopEnter, SL!LoopPoll,
     SL!LoopDispatch, SL!LoopRecheck, SL!LoopCallback, SL!kernelVars
<1>3. /\ tevnts' \in [SL!Threads -> SUBSET Users]
      /\ slev' \in [SL!Threads -> SUBSET Users]
  BY DEF LoopInv, SL!TypeOK, SL!Loop, SL!LoopCheck, SL!LoopEnter, SL!LoopPoll,
     SL!LoopDispatch, SL!LoopRecheck, SL!LoopCallback
<1>4. tfd' \in [SL!Threads -> 0..MaxEplfd]
  BY DEF LoopConstants, LoopInv, SL!TypeOK, SL!Loop, SL!LoopCheck, SL!LoopEnter,
     SL!LoopPoll, SL!LoopDispatch, SL!LoopRecheck, SL!LoopCallback
<1>5. PICK s \in {"check", "enter", "poll", "dispatch", "recheck", "callback", "exit"} :
        /\ tpc' = [tpc EXCEPT ![t] = s]
        /\ s = "exit" => ~running \/ eplfd = 0
        /\ s = "poll" => tfd' = [tfd EXCEPT ![t] = eplfd]
        /\ s # "poll" => UNCHANGED tfd \/ tfd' = [tfd EXCEPT ![t] = 0]
                           \/ tfd' = [tfd EXCEPT ![t] = eplfd]
  BY DEF SL!Loop, SL!LoopCheck, SL!LoopEnter, SL!LoopPoll, SL!LoopDispatch,
     SL!LoopRecheck, SL!LoopCallback
<1>6. SL!TypeOK'
  BY <1>1, <1>2, <1>3, <1>4, <1>5 DEF LoopInv, SL!TypeOK, SL!eventVars
<1>7. OpenedInv'
  BY <1>1 DEF LoopInv, OpenedInv, OpenUsers, SL!eventVars
<1>8. NewestServes'
  <2> SUFFICES ASSUME running
               PROVE /\ tpc'[threads] \notin {"none", "exit"}
                     /\ tpc'[threads] = "poll" => tfd'[threads] = eplfd
    BY <1>1 DEF LoopInv, NewestServes, SL!eventVars
  <2>1. /\ eplfd # 0 /\ threads \in SL!Threads
        /\ tpc[threads] \notin {"none", "exit"}
        /\ tpc[threads] = "poll" => tfd[threads] = eplfd
    BY DEF LoopInv, NewestServes
  <2>2. CASE threads = t
    BY <1>5, <2>1, <2>2 DEF LoopInv, SL!TypeOK
  <2>3. CASE threads # t
    BY <1>5, <2>1, <2>3 DEF LoopInv, SL!TypeOK
  <2> QED
    BY <2>2, <2>3
<1> QED
  BY <1>6, <1>7, <1>8 DEF LoopInv

LEMMA SlNextInv ==
  ASSUME LoopConstants, LoopInv, [SL!Next]_SL!vars
  PROVE LoopInv'
<1>1. CASE UNCHANGED SL!vars
  BY <1>1 DEF LoopInv, SL!TypeOK, OpenedInv, OpenUsers, NewestServes, SL!vars,
     SL!eventVars, SL!kernelVars, SL!loopVars
<1>2. ASSUME NEW u \in Users, SL!DataArrives(u) PROVE LoopInv'
  BY <1>2 DEF LoopInv, SL!TypeOK, OpenedInv, OpenUsers, NewestServes,
     SL!DataArrives, SL!eventVars, SL!loopVars
<1>3. ASSUME NEW u \in Users, SL!User(u) PROVE LoopInv'
  BY <1>2, <1>3, OpenStep, CloseStep, AddStep, StartStep DEF SL!User
<1>4. ASSUME NEW t \in SL!Threads, SL!Loop(t) PROVE LoopInv'
  BY <1>4, LoopStep
<1> QED
  BY <1>1, <1>3, <1>4 DEF SL!Next

\* The inductive invariant of the event module.
THEOREM SlEventInv == LoopConstants => (SL!Spec => []LoopInv)
<1> SUFFICES ASSUME LoopConstants PROVE SL!Spec => []LoopInv
  OBVIOUS
<1>1. SL!Init => LoopInv
  BY LoopInit
<1>2. LoopInv /\ [SL!Next]_SL!vars => LoopInv'
  BY SlNextInv
<1> QED
  BY <1>1, <1>2, PTL DEF SL!Spec

\* The event module, its loop threads and the kernel's side of them keep their
\* types: in particular alislevent_close never takes open_cnt below zero and
\* epoll_ctl is never called without an instance.
THEOREM SlEventTypeCorrect == LoopConstants => (SL!Spec => []SL!TypeOK)
<1>1. LoopInv => SL!TypeOK
  BY DEF LoopInv
<1> QED
  BY <1>1, SlEventInv, PTL

\* While alislevent_add believes a loop is running, there is one: although
\* alislevent_close joins no thread, and one left over from an earlier opening
\* may see running set again, the thread created last is in the loop and waits,
\* when it does, on the present epoll instance.
THEOREM LoopAlwaysServes == LoopConstants => (SL!Spec => []SL!LoopServes)
<1>1. LoopInv => SL!LoopServes
  BY DEF LoopInv, NewestServes, SL!LoopServes
<1> QED
  BY <1>1, SlEventInv, PTL
-----------------------------------------------------------------------------
(* What the liveness of the loop rests on: a distance that no step of      *)
(* anybody makes longer and every step of the serving thread makes         *)
(* shorter.  With the fairness of that thread, EventDelivered and LoopsEnd *)
(* follow; the last step, from fairness, is TLC's.                         *)

\* Where there is a descriptor added there is a loop.
AddedInv == \A u \in Users : upc[u] = "added" => running

\* Events and slev of an earlier round are gone when a thread waits again.
BatchInv ==
  \A t \in SL!Threads :
    /\ t > threads => tpc[t] = "none"
    /\ tpc[t] \in {"none", "check", "enter", "poll"} => tevnts[t] = {} /\ slev[t] = {}
    /\ tpc[t] = "dispatch" => slev[t] = {}

ServeInv == LoopInv /\ AddedInv /\ BatchInv

\* The users' calls, and data that arrive, leave the loop threads alone or
\* create one.
LEMMA UserKeepsBatch ==
  ASSUME LoopInv, BatchInv, NEW u \in Users, SL!User(u)
  PROVE BatchInv'
<1>1. \/ UNCHANGED <<threads, tpc, tevnts, slev>>
      \/ /\ UNCHANGED <<tevnts, slev>> /\ threads' = threads + 1 /\ threads < MaxThreads
         /\ tpc' = [tpc EXCEPT ![threads + 1] = "check"]
  BY DEF SL!User, SL!Open, SL!AddCtl, SL!AddStart, SL!Del, SL!Close,
     SL!DataArrives, SL!eventVars, SL!loopVars
<1>2. CASE UNCHANGED <<threads, tpc, tevnts, slev>>
  BY <1>2 DEF BatchInv
<1>3. CASE /\ UNCHANGED <<tevnts, slev>> /\ threads' = threads + 1 /\ threads < MaxThreads
           /\ tpc' = [tpc EXCEPT ![threads + 1] = "check"]
  <2> SUFFICES ASSUME NEW t \in SL!Threads
      PROVE /\ t > threads' => tpc'[t] = "none"
            /\ tpc'[t] \in {"none", "check", "enter", "poll"} => tevnts[t] = {} /\ slev[t] = {}
            /\ tpc'[t] = "dispatch" => slev[t] = {}
    BY <1>3 DEF BatchInv
  <2>1. t \in Int /\ threads \in Int
    BY DEF LoopInv, SL!TypeOK, SL!Threads
  <2>2. CASE t = threads + 1
    <3>1. tpc[t] = "none" /\ tpc'[t] = "check"
      BY <1>3, <2>1, <2>2 DEF LoopInv, SL!TypeOK, BatchInv
    <3> QED
      BY <1>3, <2>1, <2>2, <3>1 DEF BatchInv
  <2>3. CASE t # threads + 1
    <3>1. tpc'[t] = tpc[t]
      BY <1>3, <2>3 DEF LoopInv, SL!TypeOK
    <3> QED
      BY <1>3, <2>1, <3>1 DEF BatchInv
  <2> QED
    BY <2>2, <2>3
<1> QED
  BY <1>1, <1>2, <1>3

LEMMA LoopKeepsBatch ==
  ASSUME LoopInv, BatchInv, NEW t \in SL!Threads, SL!Loop(t)
  PROVE BatchInv'
<1> SUFFICES ASSUME NEW x \in SL!Threads
    PROVE /\ x > threads' => tpc'[x] = "none"
          /\ tpc'[x] \in {"none", "check", "enter", "poll"} => tevnts'[x] = {} /\ slev'[x] = {}
          /\ tpc'[x] = "dispatch" => slev'[x] = {}
  BY DEF BatchInv
<1>0. UNCHANGED threads /\ tpc[t] # "none"
  BY DEF SL!Loop, SL!LoopCheck, SL!LoopEnter, SL!LoopPoll, SL!LoopDispatch,
     SL!LoopRecheck, SL!LoopCallback, SL!eventVars
<1>1. CASE x # t
  <2>1. tpc'[x] = tpc[x] /\ tevnts'[x] = tevnts[x] /\ slev'[x] = slev[x]
    BY <1>1 DEF LoopInv, SL!TypeOK, SL!Loop, SL!LoopCheck, SL!LoopEnter, SL!LoopPoll,
       SL!LoopDispatch, SL!LoopRecheck, SL!LoopCallback
  <2> QED
    BY <1>0, <2>1 DEF BatchInv
<1>2. CASE x = t
  <2>1. ~(x > threads)
    BY <1>0, <1>2 DEF BatchInv
  <2>2. /\ tpc'[t] \in {"none", "check", "enter", "poll"} => tevnts'[t] = {} /\ slev'[t] = {}
        /\ tpc'[t] = "dispatch" => slev'[t] = {}
    <3>1. CASE SL!LoopCheck(t) \/ SL!LoopEnter(t)
      BY <3>1 DEF LoopInv, SL!TypeOK, BatchInv, SL!LoopCheck, SL!LoopEnter
    <3>2. CASE SL!LoopPoll(t)
      BY <3>2 DEF LoopInv, SL!TypeOK, BatchInv, SL!LoopPoll
    <3>3. CASE SL!LoopDispatch(t)
      BY <3>3 DEF LoopInv, SL!TypeOK, BatchInv, SL!LoopDispatch
    <3>4. CASE SL!LoopRecheck(t) \/ SL!LoopCallback(t)
      BY <3>4 DEF LoopInv, SL!TypeOK, BatchInv, SL!LoopRecheck, SL!LoopCallback
    <3> QED
      BY <3>1, <3>2, <3>3, <3>4 DEF SL!Loop
  <2> QED
    BY <1>0, <1>2, <2>1, <2>2
<1> QED
  BY <1>1, <1>2

\* Only the last user to close stops the loop, and then nobody has a descriptor.
LEMMA UserKeepsAdded ==
  ASSUME LoopConstants, LoopInv, AddedInv, NEW u \in Users, SL!User(u)
  PROVE AddedInv'
<1>1. CASE SL!Close(u)
  <2>1. ASSUME NEW v \in Users, upc'[v] = "added" PROVE v # u /\ upc[v] = "added"
    BY <1>1, <2>1 DEF LoopInv, SL!TypeOK, SL!Close
  <2>2. CASE open_cnt = 1
    <3>1. IsFiniteSet(OpenUsers) /\ Cardinality(OpenUsers) = 1
      BY <2>2, FS_Subset DEF LoopConstants, OpenUsers, LoopInv, OpenedInv
    <3>2. PICK w : OpenUsers = {w}
      BY <3>1, FS_Singleton
    <3>3. u \in OpenUsers
      BY <1>1 DEF SL!Close, OpenUsers
    <3> QED
      BY <2>1, <3>2, <3>3 DEF OpenUsers, AddedInv
  <2>3. CASE open_cnt # 1
    BY <1>1, <2>1, <2>3 DEF SL!Close, AddedInv
  <2> QED
    BY <2>2, <2>3
<1>2. CASE SL!AddStart(u)
  BY <1>2 DEF LoopInv, SL!TypeOK, SL!AddStart, AddedInv
<1>3. CASE SL!Open(u) \/ SL!AddCtl(u) \/ SL!Del(u)
  BY <1>3 DEF LoopInv, SL!TypeOK, SL!Open, SL!AddCtl, SL!Del, AddedInv, SL!eventVars
<1>4. CASE SL!DataArrives(u)
  BY <1>4 DEF SL!DataArrives, AddedInv, SL!eventVars
<1> QED
  BY <1>1, <1>2, <1>3, <1>4 DEF SL!User

LEMMA ServeNext ==
  ASSUME LoopConstants, ServeInv, [SL!Next]_SL!vars
  PROVE ServeInv'
<1>1. LoopInv'
  BY SlNextInv DEF ServeInv
<1>2. CASE UNCHANGED SL!vars
  BY <1>1, <1>2 DEF ServeInv, AddedInv, BatchInv, SL!vars, SL!eventVars, SL!loopVars
<1>3. ASSUME NEW u \in Users, SL!User(u) PROVE ServeInv'
  BY <1>1, <1>3, UserKeepsAdded, UserKeepsBatch DEF ServeInv
<1>4. ASSUME NEW t \in SL!Threads, SL!Loop(t) PROVE ServeInv'
  <2>1. UNCHANGED <<running, upc>>
    BY <1>4 DEF SL!Loop, SL!LoopCheck, SL!LoopEnter, SL!LoopPoll, SL!LoopDispatch,
       SL!LoopRecheck, SL!LoopCallback, SL!eventVars
  <2>2. AddedInv'
    BY <2>1 DEF ServeInv, AddedInv
  <2> QED
    BY <1>1, <1>4, <2>2, LoopKeepsBatch DEF ServeInv
<1> QED
  BY <1>2, <1>3, <1>4 DEF SL!Next

\* Steps that are left to a loop thread from each place once running is false.
StopRank == [none |-> 0, exit |-> 0, check |-> 1, recheck |-> 2, dispatch |-> 3,
             callback |-> 4, poll |-> 4, enter |-> 5]

\* While running stays false every step of a loop thread brings it nearer to
\* its end: it makes five steps at most, with at most one callback, whatever
\* events epoll_wait still gave it.
WindsDown ==
  ~running /\ ~running' =>
    \A t \in SL!Threads : SL!Loop(t) =>
      StopRank[tpc'[t]] < StopRank[tpc[t]] /\ StopRank[tpc[t]] <= 5

\* A descriptor that is watched and has data.
Pending(u) == SL!Watched(u) /\ u \in ready

Place == [poll |-> 0, enter |-> 1, check |-> 2, dispatch |-> 3, callback |-> 4,
          recheck |-> 5, none |-> 0, exit |-> 0]

\* How far the newest thread is from the callback of u: the events it has still
\* to go through, and a round more if u is not among them.
Distance(u) ==
  3 * Cardinality(tevnts[threads]) + Place[tpc[threads]]
    + (IF u \in tevnts[threads] \cup slev[threads] THEN 0 ELSE 3 * Cardinality(Users) + 4)

\* As long as a descriptor waits for its callback the same thread serves it,
\* nobody takes that thread farther from the callback, and every step of its own
\* takes it nearer.
NearsCallback ==
  \A u \in Users : Pending(u) /\ Pending(u)' =>
    /\ threads \in SL!Threads /\ threads' = threads
    /\ Distance(u) \in Nat
    /\ Distance(u)' <= Distance(u)
    /\ SL!Loop(threads) => Distance(u)' < Distance(u)

LEMMA StopStep ==
  ASSUME LoopInv, ~running, NEW t \in SL!Threads, SL!Loop(t)
  PROVE StopRank[tpc'[t]] < StopRank[tpc[t]] /\ StopRank[tpc[t]] <= 5
<1>1. \/ tpc[t] = "check" /\ tpc'[t] = "exit"
      \/ tpc[t] = "enter" /\ tpc'[t] \in {"exit", "poll"}
      \/ tpc[t] = "poll" /\ tpc'[t] \in {"check", "dispatch"}
      \/ tpc[t] = "dispatch" /\ tpc'[t] \in {"check", "recheck"}
      \/ tpc[t] = "recheck" /\ tpc'[t] = "check"
      \/ tpc[t] = "callback" /\ tpc'[t] = "dispatch"
  BY DEF LoopInv, SL!TypeOK, SL!Loop, SL!LoopCheck, SL!LoopEnter, SL!LoopPoll,
     SL!LoopDispatch, SL!LoopRecheck, SL!LoopCallback
<1> QED
  BY <1>1 DEF StopRank

\* After the last alislevent_close the loop threads that nobody joins come to
\* their end by themselves, in at most five steps each.
THEOREM LoopsWindDown ==
  LoopConstants => (SL!Spec => [][WindsDown]_SL!vars)
<1> SUFFICES ASSUME LoopConstants PROVE SL!Spec => [][WindsDown]_SL!vars
  OBVIOUS
<1>1. LoopInv /\ [SL!Next]_SL!vars => [WindsDown]_SL!vars
  BY StopStep DEF WindsDown
<1> QED
  BY <1>1, SlEventInv, PTL DEF SL!Spec

\* The number of events a thread has in hand.
LEMMA BatchCount ==
  ASSUME LoopConstants, LoopInv, NEW t \in SL!Threads
  PROVE /\ Cardinality(tevnts[t]) \in Nat /\ Cardinality(Users) \in Nat
        /\ \A v \in tevnts[t] : Cardinality(tevnts[t] \ {v}) = Cardinality(tevnts[t]) - 1
<1>1. tevnts[t] \subseteq Users
  BY DEF LoopInv, SL!TypeOK
<1>2. IsFiniteSet(tevnts[t])
  BY <1>1, FS_Subset DEF LoopConstants
<1> QED
  BY <1>2, FS_CardinalityType, FS_RemoveElement DEF LoopConstants

\* One step of the thread that serves.
LEMMA NearStep ==
  ASSUME LoopConstants, ServeInv, NEW u \in Users, Pending(u), Pending(u)',
         SL!Loop(threads)
  PROVE Distance(u)' < Distance(u)
<1> DEFINE t == threads
           K == 3 * Cardinality(Users) + 4
           mine == u \in tevnts[t] \cup slev[t]
           mine2 == u \in tevnts'[t] \cup slev'[t]
<1>0. /\ running /\ t \in SL!Threads /\ tpc[t] \notin {"none", "exit"}
      /\ tpc[t] = "poll" => tfd[t] = eplfd
      /\ eplfd # 0
  BY DEF ServeInv, AddedInv, LoopInv, NewestServes, Pending, SL!Watched
<1>1. threads' = t
  BY DEF SL!Loop, SL!LoopCheck, SL!LoopEnter, SL!LoopPoll, SL!LoopDispatch,
     SL!LoopRecheck, SL!LoopCallback, SL!eventVars
<1>2. /\ Cardinality(tevnts[t]) \in Nat /\ Cardinality(Users) \in Nat
      /\ \A v \in tevnts[t] : Cardinality(tevnts[t] \ {v}) = Cardinality(tevnts[t]) - 1
  BY <1>0, BatchCount DEF ServeInv
<1>3. Distance(u) = 3 * Cardinality(tevnts[t]) + Place[tpc[t]] + (IF mine THEN 0 ELSE K)
  BY DEF Distance
<1>4. Distance(u)' = 3 * Cardinality(tevnts'[t]) + Place[tpc'[t]] + (IF mine2 THEN 0 ELSE K)
  BY <1>1 DEF Distance
<1>5. CASE SL!LoopCheck(t) \/ SL!LoopEnter(t)
  <2>1. /\ \/ tpc[t] = "check" /\ tpc'[t] = "enter"
           \/ tpc[t] = "enter" /\ tpc'[t] = "poll"
        /\ tevnts' = tevnts /\ slev' = slev
    BY <1>0, <1>5 DEF ServeInv, LoopInv, SL!TypeOK, SL!LoopCheck, SL!LoopEnter
  <2>2. Place[tpc'[t]] = Place[tpc[t]] - 1 /\ Place[tpc[t]] \in Nat
    BY <2>1 DEF Place
  <2> QED
    BY <1>2, <1>3, <1>4, <2>1, <2>2
<1>6. CASE SL!LoopPoll(t)
  <2>1. tevnts[t] = {} /\ slev[t] = {} /\ tpc[t] = "poll"
    BY <1>0, <1>6 DEF ServeInv, BatchInv, SL!LoopPoll
  <2>2. tevnts'[t] = ready \cap interest[eplfd] /\ u \in tevnts'[t] /\ tpc'[t] = "dispatch"
    BY <1>0, <1>6 DEF ServeInv, LoopInv, SL!TypeOK, SL!LoopPoll, Pending, SL!Watched
  <2>3. Cardinality(tevnts'[t]) \in Nat /\ Cardinality(tevnts'[t]) <= Cardinality(Users)
    <3>1. tevnts'[t] \subseteq Users /\ IsFiniteSet(Users)
      BY <2>2 DEF ServeInv, LoopInv, SL!TypeOK, LoopConstants
    <3> QED
      BY <3>1, FS_Subset, FS_CardinalityType
  <2>4. Place[tpc'[t]] = 3 /\ Place[tpc[t]] = 0
    BY <2>1, <2>2 DEF Place
  <2>5. mine2 /\ ~mine
    BY <2>1, <2>2
  <2>6. Distance(u)' = 3 * Cardinality(tevnts'[t]) + 3
    BY <1>4, <2>3, <2>4, <2>5
  <2>7. Distance(u) = 3 * Cardinality(tevnts[t]) + K
    BY <1>2, <1>3, <2>4, <2>5
  <2> QED
    BY <1>2, <2>3, <2>6, <2>7
<1>7. CASE SL!LoopDispatch(t)
  <2>0. tpc[t] = "dispatch" /\ slev[t] = {} /\ Place[tpc[t]] = 3
    BY <1>0, <1>7 DEF ServeInv, BatchInv, SL!LoopDispatch, Place
  <2>1. CASE tevnts[t] = {} /\ tpc' = [tpc EXCEPT ![t] = "check"] /\ UNCHANGED <<tevnts, slev>>
    <3>1. Place[tpc'[t]] = 2 /\ tevnts'[t] = tevnts[t] /\ slev'[t] = slev[t]
      BY <1>0, <2>1 DEF ServeInv, LoopInv, SL!TypeOK, Place
    <3> QED
      BY <1>2, <1>3, <1>4, <2>0, <3>1
  <2>2. ASSUME NEW v \in tevnts[t],
               tevnts' = [tevnts EXCEPT ![t] = @ \ {v}],
               slev' = [slev EXCEPT ![t] = {v}],
               tpc' = [tpc EXCEPT ![t] = "recheck"]
        PROVE Distance(u)' < Distance(u)
    <3>1. tevnts'[t] = tevnts[t] \ {v} /\ slev'[t] = {v} /\ tpc'[t] = "recheck"
      BY <1>0, <2>2 DEF ServeInv, LoopInv, SL!TypeOK
    <3>2. Place[tpc'[t]] = 5
      BY <3>1 DEF Place
    <3>3. mine2 <=> mine
      BY <2>0, <3>1
    <3>4. Cardinality(tevnts'[t]) = Cardinality(tevnts[t]) - 1
      BY <1>2, <3>1
    <3> QED
      BY <1>2, <1>3, <1>4, <2>0, <3>2, <3>3, <3>4
  <2> QED
    BY <1>7, <2>1, <2>2 DEF SL!LoopDispatch
<1>8. CASE SL!LoopRecheck(t)
  <2>1. /\ tpc[t] = "recheck" /\ tpc'[t] = "callback"
        /\ tevnts'[t] = tevnts[t] /\ slev'[t] = slev[t]
    BY <1>0, <1>8 DEF ServeInv, LoopInv, SL!TypeOK, SL!LoopRecheck
  <2>2. Place[tpc[t]] = 5 /\ Place[tpc'[t]] = 4
    BY <2>1 DEF Place
  <2> QED
    BY <1>2, <1>3, <1>4, <2>1, <2>2
<1>9. CASE SL!LoopCallback(t)
  <2>1. /\ tpc[t] = "callback" /\ tpc'[t] = "dispatch"
        /\ tevnts'[t] = tevnts[t] /\ slev'[t] = {} /\ ready' = ready \ slev[t]
    BY <1>0, <1>9 DEF ServeInv, LoopInv, SL!TypeOK, SL!LoopCallback
  <2>2. u \notin slev[t]
    BY <2>1 DEF Pending
  <2>3. Place[tpc[t]] = 4 /\ Place[tpc'[t]] = 3
    BY <2>1 DEF Place
  <2> QED
    BY <1>2, <1>3, <1>4, <2>1, <2>2, <2>3
<1> QED
  BY <1>5, <1>6, <1>7, <1>8, <1>9 DEF SL!Loop

LEMMA DistanceStep ==
  ASSUME LoopConstants, ServeInv, [SL!Next]_SL!vars
  PROVE NearsCallback
<1> SUFFICES ASSUME NEW u \in Users, Pending(u), Pending(u)'
    PROVE /\ threads \in SL!Threads /\ threads' = threads
          /\ Distance(u) \in Nat
          /\ Distance(u)' <= Distance(u)
          /\ SL!Loop(threads) => Distance(u)' < Distance(u)
  BY DEF NearsCallback
<1>0. /\ running /\ threads \in SL!Threads
      /\ tpc[threads] \in {"check", "enter", "poll", "dispatch", "recheck", "callback"}
  BY DEF ServeInv, AddedInv, LoopInv, SL!TypeOK, NewestServes, Pending, SL!Watched
<1>1. Distance(u) \in Nat
  <2>1. Place[tpc[threads]] \in Nat
    BY <1>0 DEF Place
  <2>2. Cardinality(tevnts[threads]) \in Nat /\ Cardinality(Users) \in Nat
    BY <1>0, BatchCount DEF ServeInv
  <2> QED
    BY <2>1, <2>2 DEF Distance
<1>2. SL!Loop(threads) => Distance(u)' < Distance(u)
  BY NearStep
<1>3. CASE UNCHANGED <<threads, tpc, tevnts, slev>>
  <2>1. Distance(u)' = Distance(u)
    BY <1>3 DEF Distance
  <2> QED
    BY <1>0, <1>1, <1>2, <1>3, <2>1
<1>4. ASSUME NEW v \in Users, SL!User(v) PROVE UNCHANGED <<threads, tpc, tevnts, slev>>
  BY <1>0, <1>4 DEF SL!User, SL!Open, SL!AddCtl, SL!AddStart, SL!Del, SL!Close,
     SL!DataArrives, SL!eventVars, SL!loopVars
<1>5. ASSUME NEW t \in SL!Threads, SL!Loop(t), t # threads
      PROVE /\ threads' = threads /\ Distance(u)' = Distance(u)
  <2>1. threads' = threads
    BY <1>5 DEF SL!Loop, SL!LoopCheck, SL!LoopEnter, SL!LoopPoll, SL!LoopDispatch,
       SL!LoopRecheck, SL!LoopCallback, SL!eventVars
  <2>2. /\ tpc'[threads] = tpc[threads] /\ tevnts'[threads] = tevnts[threads]
        /\ slev'[threads] = slev[threads]
    BY <1>0, <1>5 DEF ServeInv, LoopInv, SL!TypeOK, SL!Loop, SL!LoopCheck, SL!LoopEnter,
       SL!LoopPoll, SL!LoopDispatch, SL!LoopRecheck, SL!LoopCallback
  <2> QED
    BY <2>1, <2>2 DEF Distance
<1>6. ASSUME SL!Loop(threads) PROVE threads' = threads /\ Distance(u)' < Distance(u)
  <2>1. threads' = threads
    BY <1>6 DEF SL!Loop, SL!LoopCheck, SL!LoopEnter, SL!LoopPoll, SL!LoopDispatch,
       SL!LoopRecheck, SL!LoopCallback, SL!eventVars
  <2> QED
    BY <1>2, <1>6, <2>1
<1>7. CASE UNCHANGED SL!vars
  BY <1>3, <1>7 DEF SL!vars, SL!eventVars, SL!loopVars
<1>8. \/ UNCHANGED SL!vars
      \/ \E v \in Users : SL!User(v)
      \/ \E t \in SL!Threads : SL!Loop(t)
  BY DEF SL!Next
<1>9. ASSUME Distance(u)' = Distance(u) \/ Distance(u)' < Distance(u)
      PROVE Distance(u)' <= Distance(u)
  <2>1. CASE Distance(u)' = Distance(u)
    BY <1>1, <2>1
  <2>2. CASE Distance(u)' < Distance(u)
    <3>1. Distance(u)' \in Int
      <4>1. /\ Cardinality(tevnts[threads])' \in Int /\ Place[tpc[threads]]' \in Int
            /\ Cardinality(Users) \in Int
        <5>1. ServeInv'
          BY ServeNext
        <5>2. /\ (running /\ threads \in SL!Threads)'
              /\ (tpc[threads] \in {"check", "enter", "poll", "dispatch", "recheck", "callback"})'
          BY <5>1 DEF ServeInv, AddedInv, LoopInv, SL!TypeOK, NewestServes, Pending, SL!Watched
        <5>3. LoopConstants => Cardinality(tevnts[threads])' \in Nat
          <6>1. tevnts'[threads'] \subseteq Users /\ IsFiniteSet(Users)
            BY <5>1, <5>2 DEF ServeInv, LoopInv, SL!TypeOK, LoopConstants
          <6> QED
            BY <6>1, FS_Subset, FS_CardinalityType
        <5> QED
          BY <5>2, <5>3, FS_CardinalityType DEF Place, LoopConstants
      <4> QED
        BY <4>1 DEF Distance
    <3> QED
      BY <1>1, <2>2, <3>1
  <2> QED
    BY <1>9, <2>1, <2>2
<1> QED
  BY <1>0, <1>1, <1>2, <1>3, <1>4, <1>5, <1>6, <1>7, <1>8, <1>9

\* No event is lost between the users' calls and the loop: as long as a watched
\* descriptor has data, the thread that serves never gets farther from its
\* callback and every step of it gets nearer, whatever is opened, added, removed
\* and closed and whatever old loop threads do.
THEOREM EventsGetNearer ==
  LoopConstants => (SL!Spec => [][NearsCallback]_SL!vars)
<1> SUFFICES ASSUME LoopConstants PROVE SL!Spec => [][NearsCallback]_SL!vars
  OBVIOUS
<1>1. SL!Init => ServeInv
  <2> SUFFICES ASSUME SL!Init PROVE ServeInv
    OBVIOUS
  <2>1. AddedInv
    BY DEF SL!Init, AddedInv
  <2>2. BatchInv
    BY DEF SL!Init, BatchInv
  <2> QED
    BY <2>1, <2>2, LoopInit DEF ServeInv
<1>2. ServeInv /\ [SL!Next]_SL!vars => ServeInv'
  BY ServeNext
<1>3. ServeInv /\ [SL!Next]_SL!vars => [NearsCallback]_SL!vars
  BY DistanceStep
<1> QED
  BY <1>1, <1>2, <1>3, PTL DEF SL!Spec
=============================================================================
