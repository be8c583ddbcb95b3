-------------------------- MODULE UpgTune_proofs ---------------------------
(***************************************************************************)
(* For every package, buffer size, set of plugins, methods and failures:   *)
(* UpgTune keeps its types, the source and the writer thread exclude each  *)
(* other from tune->buf and do not outlive it, the images are burned one   *)
(* after the other on erased partitions, success means all of them, the    *)
(* two threads have finitely much to do, and one of them can always do it. *)
(***************************************************************************)
EXTENDS UpgTune, TLAPS

USE DEF NULL, GARBAGE, Parts, appVars, cfgVars, tuneVars, srcVars, wrVars,
        flashVars

\* A percentage is a natural number: the package has at least 100 bytes.
LEMMA PercentType == \A n \in Nat : Percent(n) \in Nat
<1>1. Total \div 100 \in Nat /\ Total \div 100 > 0
  BY PackageAssumption
<1> DEFINE k == Total \div 100
<1>2. \A n \in Nat : n \div k \in Nat
  BY <1>1
<1> QED
  BY <1>2 DEF Percent

\* The source is within the element list until it has read the last image.
ElemInRange == spc \notin {"post", "over"} => elem \in Parts

\* A chunk the writer is given comes with its element, unless an error does.
ChunkHasElem ==
  /\ spc \in {"fill", "post"} => tune_elem \in Parts
  /\ sourcesem > 0 \/ wpc = "check" => error \/ tune_elem \in Parts
  /\ wpc \in {"open", "erase", "write", "report", "post"} => tune_elem \in Parts
  /\ wpc = "erase" => mtd \in Parts

\* The two threads are created by alislupg_start.
NotStarted == app \in {"idle", "load", "ready"} => spc = "off" /\ wpc = "off"

TypeInv == TypeOK /\ ElemInRange /\ ChunkHasElem /\ NotStarted

\* The bookkeeping after a read keeps the source's counters natural numbers
\* and the element pointer at most one past the list's end.
LEMMA AdvanceType ==
  ASSUME TypeInv, spc = "fill", SourceAdvance
  PROVE  /\ elem' \in 1..(PartNum + 1) /\ elemread' \in Nat /\ perread' \in Nat
         /\ totalread' \in Nat /\ spc' = "post"
<1> DEFINE done == elemread + perread
           rest == NextRead(done)
<1>1. elem \in Parts /\ elemread \in Nat /\ perread \in Nat /\ totalread \in Nat
  BY DEF TypeInv, TypeOK, SourceTypeOK, ElemInRange
<1>2. img_size[elem] \in Nat /\ PartNum \in Nat /\ UPG_BUF_SIZE \in Nat
  BY <1>1, PackageAssumption, BufAssumption
<1>3. done \in Nat /\ rest \in Nat
  BY <1>1, <1>2 DEF NextRead
<1>4. totalread' \in Nat /\ spc' = "post"
  BY <1>1 DEF SourceAdvance
<1>5. IF rest = 0
      THEN elem' = elem + 1 /\ elemread' = 0 /\ perread' = UPG_BUF_SIZE
      ELSE elemread' = done /\ perread' = rest /\ UNCHANGED elem
  BY DEF SourceAdvance
<1> HIDE DEF done, rest
<1> QED
  BY <1>1, <1>2, <1>3, <1>4, <1>5

\* A failure is recorded with its upgrade, its image and the call.
LEMMA IgnoreType ==
  ASSUME TypeInv, NEW call \in IgnoredCalls, NEW p \in Parts, Ignore(call, p)
  PROVE  ignored' \subseteq [by : 1..MaxUpgrades, part : Parts, call : IgnoredCalls]
  BY DEF Ignore, TypeInv, TypeOK, AppTypeOK, FlashTypeOK

\* The source notes at most one failure, that of the image it reads.
LEMMA SourceFlashType ==
  ASSUME TypeInv, elem \in Parts, UNCHANGED <<erased, written, faithful, boot_param>>,
         ignored' = ignored \/ Ignore("fread", elem)
  PROVE  FlashTypeOK'
<1>1. ignored' \subseteq [by : 1..MaxUpgrades, part : Parts, call : IgnoredCalls]
  <2>1. CASE ignored' = ignored
    BY <2>1 DEF TypeInv, TypeOK, FlashTypeOK
  <2>2. CASE Ignore("fread", elem)
    BY <2>2, IgnoreType DEF IgnoredCalls
  <2> QED
    BY <2>1, <2>2
<1> QED
  BY <1>1 DEF TypeInv, TypeOK, FlashTypeOK

LEMMA InitTypeInv == Init => TypeInv
<1> SUFFICES ASSUME Init PROVE TypeInv
  OBVIOUS
<1>1. AppTypeOK
  BY AddrAssumption DEF Init, AppTypeOK
<1>2. DescTypeOK
  BY ConfigAssumption DEF Init, DescTypeOK, AllPlugins, AllMethods
<1>3. TuneTypeOK
  BY DEF Init, TuneTypeOK
<1>4. FlagTypeOK
  BY DEF Init, FlagTypeOK
<1>5. SourceTypeOK
  BY PackageAssumption, BufAssumption DEF Init, SourceTypeOK
<1>6. WriterTypeOK
  BY DEF Init, WriterTypeOK
<1>7. FlashTypeOK
  BY AddrAssumption DEF Init, FlashTypeOK
<1>8. ElemInRange /\ ChunkHasElem /\ NotStarted
  BY PackageAssumption DEF Init, ElemInRange, ChunkHasElem, NotStarted
<1> QED
  BY <1>1, <1>2, <1>3, <1>4, <1>5, <1>6, <1>7, <1>8 DEF TypeInv, TypeOK

LEMMA NextTypeInv == TypeInv /\ [Next]_vars => TypeInv'
<1> SUFFICES ASSUME TypeInv, [Next]_vars PROVE TypeInv'
  OBVIOUS
<1> USE DEF TypeInv, TypeOK
<1>1. CASE AppPrestart
  BY <1>1
  DEF AppTypeOK, DescTypeOK, TuneTypeOK, FlagTypeOK, SourceTypeOK,
      WriterTypeOK, FlashTypeOK, ElemInRange, ChunkHasElem, NotStarted,
      AppPrestart
<1>2. CASE AppLoaded
  BY <1>2
  DEF AppTypeOK, DescTypeOK, TuneTypeOK, FlagTypeOK, SourceTypeOK,
      WriterTypeOK, FlashTypeOK, ElemInRange, ChunkHasElem, NotStarted,
      AppLoaded
<1>3. CASE AppStart
  <2>1. AppTypeOK'
    BY <1>3 DEF AppStart, AppTypeOK
  <2>2. TuneTypeOK'
    BY <1>3 DEF AppStart, TuneTypeOK
  <2>3. FlagTypeOK'
    BY <1>3 DEF AppStart, FlagTypeOK
  <2>4. SourceTypeOK'
    BY <1>3 DEF AppStart, SourceTypeOK
  <2>5. WriterTypeOK'
    BY <1>3 DEF AppStart, WriterTypeOK
  <2>6. ElemInRange'
    BY <1>3 DEF AppStart, ElemInRange, NotStarted, SourceTypeOK
  <2>7. ChunkHasElem'
    BY <1>3
    DEF AppStart, ChunkHasElem, TuneTypeOK, WriterTypeOK, SourceTypeOK,
        ElemInRange
  <2>8. NotStarted'
    BY <1>3 DEF AppStart, NotStarted
  <2>9. DescTypeOK' /\ FlashTypeOK'
    BY <1>3 DEF AppStart, DescTypeOK, FlashTypeOK
  <2> QED
    BY <2>1, <2>2, <2>3, <2>4, <2>5, <2>6, <2>7, <2>8, <2>9
<1>4. CASE WaitStatus
  BY <1>4
  DEF AppTypeOK, DescTypeOK, TuneTypeOK, FlagTypeOK, SourceTypeOK,
      WriterTypeOK, FlashTypeOK, ElemInRange, ChunkHasElem, NotStarted,
      WaitStatus, OnError, StatusVars
<1>5. CASE WaitWakeup
  BY <1>5
  DEF AppTypeOK, DescTypeOK, TuneTypeOK, FlagTypeOK, SourceTypeOK,
      WriterTypeOK, FlashTypeOK, ElemInRange, ChunkHasElem, NotStarted,
      WaitWakeup, StatusVars
<1>6. CASE WaitReturn
  BY <1>6
  DEF AppTypeOK, DescTypeOK, TuneTypeOK, FlagTypeOK, SourceTypeOK,
      WriterTypeOK, FlashTypeOK, ElemInRange, ChunkHasElem, NotStarted,
      WaitReturn, OnError, StatusVars
<1>7. CASE AppFinish
  <2>1. AppTypeOK'
    BY <1>7 DEF AppFinish, Prestop, PrestopUnchanged, AppTypeOK
  <2>2. FlagTypeOK'
    BY <1>7 DEF AppFinish, Prestop, PrestopUnchanged, FlagTypeOK
  <2>3. SourceTypeOK'
    BY <1>7 DEF AppFinish, Prestop, PrestopUnchanged, SourceTypeOK
  <2>4. /\ DescTypeOK' /\ TuneTypeOK' /\ WriterTypeOK' /\ FlashTypeOK'
        /\ ElemInRange' /\ ChunkHasElem' /\ NotStarted'
    BY <1>7
    DEF AppFinish, Prestop, PrestopUnchanged, DescTypeOK, TuneTypeOK,
        WriterTypeOK, FlashTypeOK, ElemInRange, ChunkHasElem, NotStarted
  <2> QED
    BY <2>1, <2>2, <2>3, <2>4
<1>8. CASE AppStop
  <2>1. AppTypeOK'
    BY <1>8 DEF AppStop, Teardown, AppTypeOK
  <2>2. DescTypeOK'
    BY <1>8 DEF AppStop, Teardown, DescTypeOK
  <2>3. FlagTypeOK'
    BY <1>8 DEF AppStop, Teardown, FlagTypeOK
  <2>4. /\ TuneTypeOK' /\ SourceTypeOK' /\ WriterTypeOK' /\ FlashTypeOK'
        /\ ElemInRange' /\ ChunkHasElem' /\ NotStarted'
    BY <1>8
    DEF AppStop, Teardown, TuneTypeOK, SourceTypeOK, WriterTypeOK,
        FlashTypeOK, ElemInRange, ChunkHasElem, NotStarted
  <2> QED
    BY <2>1, <2>2, <2>3, <2>4
<1>9. CASE AppAbortTeardown
  <2>1. AppTypeOK'
    BY <1>9 DEF AppAbortTeardown, Teardown, AppTypeOK
  <2>2. FlagTypeOK'
    BY <1>9 DEF AppAbortTeardown, Teardown, FlagTypeOK
  <2>3. /\ DescTypeOK' /\ TuneTypeOK' /\ SourceTypeOK' /\ WriterTypeOK'
        /\ FlashTypeOK' /\ ElemInRange' /\ ChunkHasElem' /\ NotStarted'
    BY <1>9
    DEF AppAbortTeardown, Teardown, DescTypeOK, TuneTypeOK, SourceTypeOK,
        WriterTypeOK, FlashTypeOK, ElemInRange, ChunkHasElem, NotStarted
  <2> QED
    BY <2>1, <2>2, <2>3
<1>10. CASE NewHandle
  <2>1. AppTypeOK'
    BY <1>10, AddrAssumption DEF NewHandle, AppTypeOK
  <2>2. DescTypeOK'
    BY <1>10, ConfigAssumption
    DEF NewHandle, DescTypeOK, AllPlugins, AllMethods
  <2>3. TuneTypeOK'
    BY <1>10 DEF NewHandle, TuneTypeOK
  <2>4. FlagTypeOK'
    BY <1>10 DEF NewHandle, FlagTypeOK
  <2>5. SourceTypeOK'
    BY <1>10, PackageAssumption, BufAssumption DEF NewHandle, SourceTypeOK
  <2>6. WriterTypeOK'
    BY <1>10 DEF NewHandle, WriterTypeOK
  <2>7. FlashTypeOK'
    BY <1>10 DEF NewHandle, FlashTypeOK
  <2>8. ElemInRange'
    BY <1>10, PackageAssumption
    DEF NewHandle, ElemInRange, NotStarted, SourceTypeOK
  <2>9. ChunkHasElem'
    BY <1>10
    DEF NewHandle, ChunkHasElem, TuneTypeOK, WriterTypeOK, SourceTypeOK,
        ElemInRange
  <2>10. NotStarted'
    BY <1>10 DEF NewHandle, NotStarted
  <2> QED
    BY <2>1, <2>2, <2>3, <2>4, <2>5, <2>6, <2>7, <2>8, <2>9, <2>10
<1>11. CASE AppPrestop
  BY <1>11
  DEF AppTypeOK, DescTypeOK, TuneTypeOK, FlagTypeOK, SourceTypeOK,
      WriterTypeOK, FlashTypeOK, ElemInRange, ChunkHasElem, NotStarted,
      AppPrestop, Prestop, PrestopUnchanged
<1>12. CASE AppAbort
  BY <1>12
  DEF AppTypeOK, DescTypeOK, TuneTypeOK, FlagTypeOK, SourceTypeOK,
      WriterTypeOK, FlashTypeOK, ElemInRange, ChunkHasElem, NotStarted,
      AppAbort, Prestop, PrestopUnchanged
<1>13. CASE Download
  <2>1. DescTypeOK'
    BY <1>13 DEF Download, DescTypeOK
  <2>2. FlagTypeOK'
    BY <1>13 DEF Download, FlagTypeOK
  <2>3. SourceTypeOK'
    BY <1>13 DEF Download, SourceTypeOK
  <2>4. /\ AppTypeOK' /\ TuneTypeOK' /\ WriterTypeOK' /\ FlashTypeOK'
        /\ ElemInRange' /\ ChunkHasElem' /\ NotStarted'
    BY <1>13
    DEF Download, AppTypeOK, TuneTypeOK, WriterTypeOK, FlashTypeOK,
        ElemInRange, ChunkHasElem, NotStarted
  <2> QED
    BY <2>1, <2>2, <2>3, <2>4
<1>14. CASE SourceSetup
  <2>0. /\ spc = "setup" /\ elem \in Parts
        /\ \/ /\ spc' \in {"wait", "stuck", "over"} /\ error' = TRUE
              /\ sourcesem' = sourcesem + 1
           \/ spc' \in {"wait", "stuck"} /\ UNCHANGED <<error, sourcesem>>
        /\ fpos' \in {fpos, HeaderLen, GARBAGE}
        /\ ignored' = ignored \/ Ignore("fread", elem)
        /\ UNCHANGED <<appVars, cfgVars, percent, oversem, writersem, tuneVars, elem,
                       elemread, perread, totalread, dram, wrVars, erased, written,
                       faithful, boot_param>>
    BY <1>14 DEF SourceSetup, SetupOTA, SourceFail, ElemInRange
  <2>1. TuneTypeOK'
    BY <2>0 DEF TuneTypeOK
  <2>2. FlagTypeOK'
    BY <2>0 DEF FlagTypeOK
  <2>3. SourceTypeOK'
    BY <2>0, PackageAssumption DEF SourceTypeOK
  <2>4. ElemInRange'
    BY <2>0 DEF ElemInRange, NotStarted, SourceTypeOK
  <2>5. ChunkHasElem'
    BY <2>0
    DEF ChunkHasElem, TuneTypeOK, WriterTypeOK, SourceTypeOK, ElemInRange
  <2>6. NotStarted'
    BY <2>0 DEF NotStarted
  <2>7. AppTypeOK' /\ DescTypeOK' /\ WriterTypeOK'
    BY <2>0 DEF AppTypeOK, DescTypeOK, WriterTypeOK
  <2>8. FlashTypeOK'
    BY <2>0, SourceFlashType
  <2> QED
    BY <2>1, <2>2, <2>3, <2>4, <2>5, <2>6, <2>7, <2>8
<1>15. CASE SourceTake
  BY <1>15
  DEF AppTypeOK, DescTypeOK, TuneTypeOK, FlagTypeOK, SourceTypeOK,
      WriterTypeOK, FlashTypeOK, ElemInRange, ChunkHasElem, NotStarted,
      SourceTake
<1>16. CASE SourceCheck
  <2>1. TuneTypeOK'
    BY <1>16, PackageAssumption
    DEF SourceCheck, TuneTypeOK, ElemInRange, SourceTypeOK
  <2>2. SourceTypeOK'
    BY <1>16, PackageAssumption DEF SourceCheck, SourceTypeOK, ElemInRange
  <2>3. ElemInRange'
    BY <1>16 DEF SourceCheck, ElemInRange, NotStarted, SourceTypeOK
  <2>4. ChunkHasElem'
    BY <1>16
    DEF SourceCheck, ChunkHasElem, TuneTypeOK, WriterTypeOK, SourceTypeOK,
        ElemInRange
  <2>5. NotStarted'
    BY <1>16 DEF SourceCheck, NotStarted
  <2>6. /\ AppTypeOK' /\ DescTypeOK' /\ FlagTypeOK' /\ WriterTypeOK'
        /\ FlashTypeOK'
    BY <1>16
    DEF SourceCheck, AppTypeOK, DescTypeOK, FlagTypeOK, WriterTypeOK,
        FlashTypeOK
  <2> QED
    BY <2>1, <2>2, <2>3, <2>4, <2>5, <2>6
<1>17. CASE SourceFill /\ FillUSB
  <2>1. TuneTypeOK'
    BY <1>17, PackageAssumption
    DEF FillUSB, SourceFill, SourceAdvance, TuneTypeOK, SourceTypeOK,
        ElemInRange
  <2>2. FlagTypeOK'
    BY <1>17 DEF FillUSB, SourceFill, SourceAdvance, FlagTypeOK
  <2>3. SourceTypeOK'
    <3>1. fpos' \in Nat \cup {GARBAGE}
      BY <1>17, PackageAssumption
      DEF FillUSB, SourceFill, SourceTypeOK, ElemInRange
    <3>2. CASE SourceAdvance
      BY <1>17, <3>1, <3>2, AdvanceType DEF SourceFill, SourceTypeOK
    <3> QED
      BY <1>17, <3>2 DEF FillUSB
  <2>4. ElemInRange'
    BY <1>17
    DEF FillUSB, SourceFill, SourceAdvance, ElemInRange, NotStarted,
        SourceTypeOK
  <2>5. ChunkHasElem'
    BY <1>17
    DEF FillUSB, SourceFill, SourceAdvance, ChunkHasElem, TuneTypeOK,
        WriterTypeOK, SourceTypeOK, ElemInRange
  <2>6. NotStarted'
    BY <1>17 DEF FillUSB, SourceFill, SourceAdvance, NotStarted
  <2>7. AppTypeOK' /\ DescTypeOK' /\ WriterTypeOK'
    BY <1>17 DEF SourceFill, AppTypeOK, DescTypeOK, WriterTypeOK
  <2>8. FlashTypeOK'
    BY <1>17, SourceFlashType DEF FillUSB, SourceFill, ElemInRange
  <2> QED
    BY <2>1, <2>2, <2>3, <2>4, <2>5, <2>6, <2>7, <2>8
<1>18. CASE SourceFill /\ FillNET
  <2>1. TuneTypeOK'
    <3>1. tune_buf' \in Nat \cup {GARBAGE}
      <4>1. img_offset[elem] + elemread \in Nat /\ fpos \in Nat \cup {GARBAGE}
        BY <1>18, PackageAssumption DEF SourceFill, SourceTypeOK, ElemInRange
      <4>2. \/ tune_buf' = GARBAGE
            \/ tune_buf' = img_offset[elem] + elemread
            \/ tune_buf' = fpos
            \/ tune_buf' = tune_buf
        BY <1>18 DEF FillNET
      <4> QED
        BY <4>1, <4>2 DEF TuneTypeOK
    <3>2. sourcesem' \in Nat /\ tune_size' \in Nat
      BY <1>18
      DEF FillNET, SourceFill, SourceAdvance, SourceFail, TuneTypeOK,
          SourceTypeOK
    <3>3. writersem' \in Nat /\ tune_elem' \in Parts \cup {NULL}
      BY <1>18 DEF SourceFill, TuneTypeOK
    <3> QED
      BY <3>1, <3>2, <3>3 DEF TuneTypeOK
  <2>2. FlagTypeOK'
    BY <1>18 DEF FillNET, SourceFill, SourceAdvance, SourceFail, FlagTypeOK
  <2>3. SourceTypeOK'
    <3>1. fpos' \in Nat \cup {GARBAGE}
      <4>1. /\ fpos \in Nat \cup {GARBAGE} /\ perread \in Nat
            /\ img_offset[elem] + elemread \in Nat
        BY <1>18, PackageAssumption
        DEF SourceFill, TypeInv, TypeOK, SourceTypeOK, ElemInRange
      <4>2. \/ fpos' = fpos
            \/ fpos' = (IF fpos < img_offset[elem] + elemread
                        THEN img_offset[elem] + elemread ELSE fpos) + perread
        BY <1>18 DEF FillNET
      <4> QED
        BY <4>1, <4>2
    <3>2. CASE SourceAdvance
      BY <1>18, <3>1, <3>2, AdvanceType DEF SourceFill, SourceTypeOK
    <3>3. CASE SourceFail /\ UNCHANGED <<elem, elemread, perread, totalread>>
      BY <1>18, <3>1, <3>3 DEF SourceFill, SourceFail, SourceTypeOK
    <3> QED
      BY <1>18, <3>2, <3>3 DEF FillNET
  <2>4. ElemInRange'
    BY <1>18
    DEF FillNET, SourceFill, SourceAdvance, SourceFail, ElemInRange,
        NotStarted, SourceTypeOK
  <2>5. ChunkHasElem'
    BY <1>18
    DEF FillNET, SourceFill, SourceAdvance, SourceFail, ChunkHasElem,
        TuneTypeOK, WriterTypeOK, SourceTypeOK, ElemInRange
  <2>6. NotStarted'
    BY <1>18 DEF FillNET, SourceFill, SourceAdvance, SourceFail, NotStarted
  <2>7. AppTypeOK' /\ DescTypeOK' /\ WriterTypeOK'
    BY <1>18 DEF SourceFill, AppTypeOK, DescTypeOK, WriterTypeOK
  <2>8. FlashTypeOK'
    BY <1>18, SourceFlashType DEF FillNET, SourceFill, ElemInRange
  <2> QED
    BY <2>1, <2>2, <2>3, <2>4, <2>5, <2>6, <2>7, <2>8
<1>19. CASE SourceFill /\ FillOTA
  <2>1. TuneTypeOK'
    <3>1. tune_buf' \in Nat \cup {GARBAGE}
      BY <1>19, PackageAssumption
      DEF FillOTA, SourceFill, TuneTypeOK, SourceTypeOK, ElemInRange
    <3>2. sourcesem' \in Nat /\ tune_size' \in Nat
      BY <1>19
      DEF FillOTA, SourceFill, SourceAdvance, SourceFail, TuneTypeOK,
          SourceTypeOK
    <3>3. writersem' \in Nat /\ tune_elem' \in Parts \cup {NULL}
      BY <1>19 DEF SourceFill, TuneTypeOK
    <3> QED
      BY <3>1, <3>2, <3>3 DEF TuneTypeOK
  <2>2. FlagTypeOK'
    BY <1>19 DEF FillOTA, SourceFill, SourceAdvance, SourceFail, FlagTypeOK
  <2>3. SourceTypeOK'
    <3>1. fpos' \in Nat \cup {GARBAGE}
      BY <1>19, PackageAssumption
      DEF FillOTA, SourceFill, SourceTypeOK, ElemInRange
    <3>2. CASE SourceAdvance
      BY <1>19, <3>1, <3>2, AdvanceType DEF SourceFill, SourceTypeOK
    <3>3. CASE SourceFail /\ UNCHANGED <<elem, elemread, perread, totalread>>
      BY <1>19, <3>1, <3>3 DEF SourceFill, SourceFail, SourceTypeOK
    <3> QED
      BY <1>19, <3>2, <3>3 DEF FillOTA
  <2>4. ElemInRange'
    BY <1>19
    DEF FillOTA, SourceFill, SourceAdvance, SourceFail, ElemInRange,
        NotStarted, SourceTypeOK
  <2>5. ChunkHasElem'
    BY <1>19
    DEF FillOTA, SourceFill, SourceAdvance, SourceFail, ChunkHasElem,
        TuneTypeOK, WriterTypeOK, SourceTypeOK, ElemInRange
  <2>6. NotStarted'
    BY <1>19 DEF FillOTA, SourceFill, SourceAdvance, SourceFail, NotStarted
  <2>7. AppTypeOK' /\ DescTypeOK' /\ WriterTypeOK'
    BY <1>19 DEF SourceFill, AppTypeOK, DescTypeOK, WriterTypeOK
  <2>8. FlashTypeOK'
    BY <1>19, SourceFlashType DEF FillOTA, SourceFill, ElemInRange
  <2> QED
    BY <2>1, <2>2, <2>3, <2>4, <2>5, <2>6, <2>7, <2>8
<1>20. CASE SourcePost
  BY <1>20
  DEF AppTypeOK, DescTypeOK, TuneTypeOK, FlagTypeOK, SourceTypeOK,
      WriterTypeOK, FlashTypeOK, ElemInRange, ChunkHasElem, NotStarted,
      SourcePost
<1>21. CASE WriterInit
  BY <1>21
  DEF AppTypeOK, DescTypeOK, TuneTypeOK, FlagTypeOK, SourceTypeOK,
      WriterTypeOK, FlashTypeOK, ElemInRange, ChunkHasElem, NotStarted,
      WriterInit
<1>22. CASE WriterTake
  BY <1>22
  DEF AppTypeOK, DescTypeOK, TuneTypeOK, FlagTypeOK, SourceTypeOK,
      WriterTypeOK, FlashTypeOK, ElemInRange, ChunkHasElem, NotStarted,
      WriterTake
<1>23. CASE WriterCheck
  BY <1>23
  DEF AppTypeOK, DescTypeOK, TuneTypeOK, FlagTypeOK, SourceTypeOK,
      WriterTypeOK, FlashTypeOK, ElemInRange, ChunkHasElem, NotStarted,
      WriterCheck
<1>24. CASE WriterOpen
  <2>1. FlagTypeOK'
    BY <1>24 DEF WriterOpen, Backup, FlagTypeOK
  <2>2. WriterTypeOK'
    BY <1>24 DEF WriterOpen, WriterTypeOK, TuneTypeOK, ChunkHasElem
  <2>3. ChunkHasElem'
    BY <1>24
    DEF WriterOpen, ChunkHasElem, TuneTypeOK, WriterTypeOK, SourceTypeOK,
        ElemInRange
  <2>4. NotStarted'
    BY <1>24 DEF WriterOpen, NotStarted
  <2>5. /\ AppTypeOK' /\ DescTypeOK' /\ TuneTypeOK' /\ SourceTypeOK'
        /\ ElemInRange'
    BY <1>24
    DEF WriterOpen, AppTypeOK, DescTypeOK, TuneTypeOK, SourceTypeOK, ElemInRange
  <2>6. FlashTypeOK'
    <3>1. /\ UNCHANGED <<erased, written, faithful, boot_param>> /\ tune_elem \in Parts
          /\ ignored' = ignored \/ Ignore("read", tune_elem)
      BY <1>24 DEF WriterOpen, ChunkHasElem
    <3>2. ignored' \subseteq [by : 1..MaxUpgrades, part : Parts, call : IgnoredCalls]
      BY <3>1, IgnoreType DEF FlashTypeOK, IgnoredCalls
    <3> QED
      BY <3>1, <3>2 DEF FlashTypeOK
  <2> QED
    BY <2>1, <2>2, <2>3, <2>4, <2>5, <2>6
<1>25. CASE WriterErase
  <2>1. WriterTypeOK'
    BY <1>25, AddrAssumption
    DEF WriterErase, ElemAddr, WriterTypeOK, AppTypeOK, ChunkHasElem
  <2>2. FlashTypeOK'
    <3>1. /\ mtd \in Parts /\ upgrade \in 0..MaxUpgrades
          /\ ignored' = ignored \/ Ignore("erase", mtd)
      BY <1>25, AddrAssumption DEF WriterErase, ChunkHasElem, AppTypeOK
    <3>2. ignored' \subseteq [by : 1..MaxUpgrades, part : Parts, call : IgnoredCalls]
      BY <3>1, IgnoreType DEF FlashTypeOK, IgnoredCalls
    <3>3. erased' \in [Parts -> 0..MaxUpgrades] /\ written' \in [Parts -> Nat]
      BY <1>25, <3>1 DEF WriterErase, FlashTypeOK
    <3>4. faithful' \in [Parts -> BOOLEAN] /\ boot_param' \in [Parts -> BOOLEAN]
      BY <1>25, <3>1 DEF WriterErase, FlashTypeOK
    <3> QED
      BY <3>2, <3>3, <3>4 DEF FlashTypeOK
  <2>3. ChunkHasElem'
    BY <1>25
    DEF WriterErase, ElemAddr, ChunkHasElem, TuneTypeOK, WriterTypeOK,
        SourceTypeOK, ElemInRange
  <2>4. NotStarted'
    BY <1>25 DEF WriterErase, ElemAddr, NotStarted
  <2>5. /\ AppTypeOK' /\ DescTypeOK' /\ TuneTypeOK' /\ FlagTypeOK'
        /\ SourceTypeOK' /\ ElemInRange'
    BY <1>25
    DEF WriterErase, ElemAddr, AppTypeOK, DescTypeOK, TuneTypeOK, FlagTypeOK,
        SourceTypeOK, ElemInRange
  <2> QED
    BY <2>1, <2>2, <2>3, <2>4, <2>5
<1>26. CASE WriterWrite
  <2>1. WriterTypeOK'
    BY <1>26 DEF WriterWrite, WriterTypeOK, TuneTypeOK
  <2>2. FlashTypeOK'
    <3>1. CASE mtd = NULL
      BY <1>26, <3>1 DEF WriterWrite, FlashTypeOK
    <3>2. CASE mtd # NULL
      <4>1. written' \in [Parts -> Nat]
        BY <1>26, <3>2 DEF WriterWrite, FlashTypeOK, TuneTypeOK
      <4>2. erased' \in [Parts -> 0..MaxUpgrades]
        BY <1>26 DEF WriterWrite, FlashTypeOK
      <4>3. mtd \in Parts
        BY <3>2 DEF WriterTypeOK
      <4>4. (faithful[mtd] /\ buf_live /\ tune_buf = img_offset[mtd] + written[mtd])
              \in BOOLEAN
        OBVIOUS
      <4>5. faithful' \in [Parts -> BOOLEAN]
        BY <1>26, <3>2, <4>3, <4>4 DEF WriterWrite, ChunkLands, FlashTypeOK
      <4>6. boot_param' \in [Parts -> BOOLEAN]
        BY <1>26, <3>2, <4>3 DEF WriterWrite, ChunkLands, FlashTypeOK
      <4>7. ignored' = ignored \/ Ignore("write", mtd)
        BY <1>26, <3>2 DEF WriterWrite
      <4>8. ignored' \subseteq [by : 1..MaxUpgrades, part : Parts, call : IgnoredCalls]
        BY <4>3, <4>7, IgnoreType DEF FlashTypeOK, IgnoredCalls
      <4> QED
        BY <4>1, <4>2, <4>5, <4>6, <4>8 DEF FlashTypeOK
    <3> QED
      BY <3>1, <3>2
  <2>3. ChunkHasElem'
    BY <1>26
    DEF WriterWrite, ChunkHasElem, TuneTypeOK, WriterTypeOK, SourceTypeOK,
        ElemInRange
  <2>4. NotStarted'
    BY <1>26 DEF WriterWrite, NotStarted
  <2>5. /\ AppTypeOK' /\ DescTypeOK' /\ TuneTypeOK' /\ FlagTypeOK'
        /\ SourceTypeOK' /\ ElemInRange'
    BY <1>26
    DEF WriterWrite, AppTypeOK, DescTypeOK, TuneTypeOK, FlagTypeOK,
        SourceTypeOK, ElemInRange
  <2> QED
    BY <2>1, <2>2, <2>3, <2>4, <2>5
<1>27. CASE WriterReport
  <2>1. DescTypeOK'
    BY <1>27, PercentType DEF WriterReport, DescTypeOK, WriterTypeOK
  <2>2. WriterTypeOK'
    BY <1>27 DEF WriterReport, WriterTypeOK
  <2>3. ChunkHasElem'
    BY <1>27
    DEF WriterReport, ChunkHasElem, TuneTypeOK, WriterTypeOK, SourceTypeOK,
        ElemInRange
  <2>4. NotStarted'
    BY <1>27 DEF WriterReport, NotStarted
  <2>5. /\ AppTypeOK' /\ TuneTypeOK' /\ FlagTypeOK' /\ SourceTypeOK'
        /\ FlashTypeOK' /\ ElemInRange'
    BY <1>27
    DEF WriterReport, AppTypeOK, TuneTypeOK, FlagTypeOK, SourceTypeOK,
        FlashTypeOK, ElemInRange
  <2> QED
    BY <2>1, <2>2, <2>3, <2>4, <2>5
<1>28. CASE WriterPost
  BY <1>28
  DEF AppTypeOK, DescTypeOK, TuneTypeOK, FlagTypeOK, SourceTypeOK,
      WriterTypeOK, FlashTypeOK, ElemInRange, ChunkHasElem, NotStarted,
      WriterPost
<1>29. CASE WriterClose
  BY <1>29
  DEF AppTypeOK, DescTypeOK, TuneTypeOK, FlagTypeOK, SourceTypeOK,
      WriterTypeOK, FlashTypeOK, ElemInRange, ChunkHasElem, NotStarted,
      WriterClose
<1>30. CASE StrayTouch
  BY <1>30
  DEF AppTypeOK, DescTypeOK, TuneTypeOK, FlagTypeOK, SourceTypeOK,
      WriterTypeOK, FlashTypeOK, ElemInRange, ChunkHasElem, NotStarted,
      StrayTouch
<1>31. CASE UNCHANGED vars
  BY <1>31
  DEF vars, AppTypeOK, DescTypeOK, TuneTypeOK, FlagTypeOK, SourceTypeOK,
      WriterTypeOK, FlashTypeOK, ElemInRange, ChunkHasElem, NotStarted
<1> QED
  BY <1>1, <1>2, <1>3, <1>4, <1>5, <1>6, <1>7, <1>8, <1>9, <1>10, <1>11,
     <1>12, <1>13, <1>14, <1>15, <1>16, <1>17, <1>18, <1>19, <1>20, <1>21,
     <1>22, <1>23, <1>24, <1>25, <1>26, <1>27, <1>28, <1>29, <1>30, <1>31 DEF Next,
     AppNext, UserNext, SourceNext, SourceFill, WriterNext

\* Type correctness of the pipeline, for every value of the constants.
THEOREM TypeCorrect == Spec => []TypeOK
<1>1. TypeInv => TypeOK
  BY DEF TypeInv
<1> QED
  BY InitTypeInv, NextTypeInv, <1>1, PTL DEF Spec
-----------------------------------------------------------------------------
(* The hand-off.  A token: writersem, the source, sourcesem or the writer. *)
Token == /\ (SourceHolds => writersem = 0 /\ sourcesem = 0 /\ ~WriterHolds)
         /\ (WriterHolds => writersem = 0 /\ sourcesem = 0)
         /\ writersem + sourcesem <= 1

\* Once the source is over it takes nothing, so its last post may be one too
\* many (SourceFail posts sourcesem without having taken writersem).
HandOffInv == spc \notin {"off", "over"} => Token

LEMMA InitHandOff == Init => HandOffInv
  BY DEF Init, HandOffInv

LEMMA NextHandOff == TypeInv /\ HandOffInv /\ [Next]_vars => HandOffInv'
<1> SUFFICES ASSUME TypeInv, HandOffInv, [Next]_vars PROVE HandOffInv'
  OBVIOUS
<1> USE DEF HandOffInv, Token, SourceHolds, WriterHolds
<1>0. /\ writersem \in Nat /\ sourcesem \in Nat
      /\ NotStarted /\ SourceTypeOK /\ WriterTypeOK
  BY DEF TypeInv, TypeOK, TuneTypeOK
<1>1. CASE AppStart
  BY <1>0, <1>1 DEF AppStart, NotStarted
<1>2. CASE NewHandle
  BY <1>0, <1>2 DEF NewHandle
<1>3. CASE SourceSetup
  BY <1>0, <1>3 DEF SourceSetup, SetupOTA, SourceFail
<1>4. CASE SourceTake
  BY <1>0, <1>4 DEF SourceTake
<1>5. CASE SourceCheck
  BY <1>0, <1>5 DEF SourceCheck
<1>6. CASE SourceFill
  BY <1>0, <1>6 DEF SourceFill, FillUSB, FillNET, FillOTA, SourceAdvance,
     SourceFail
<1>7. CASE SourcePost
  BY <1>0, <1>7 DEF SourcePost
<1>8. CASE WriterInit
  BY <1>0, <1>8 DEF WriterInit
<1>9. CASE WriterTake
  BY <1>0, <1>9 DEF WriterTake
<1>10. CASE WriterCheck
  BY <1>0, <1>10 DEF WriterCheck
<1>11. CASE WriterOpen
  BY <1>0, <1>11 DEF WriterOpen
<1>12. CASE WriterErase
  BY <1>0, <1>12 DEF WriterErase, ElemAddr
<1>13. CASE WriterWrite
  BY <1>0, <1>13 DEF WriterWrite
<1>14. CASE WriterReport
  BY <1>0, <1>14 DEF WriterReport
<1>15. CASE WriterPost
  BY <1>0, <1>15 DEF WriterPost
<1>16. CASE WriterClose
  BY <1>0, <1>16 DEF WriterClose
<1>17. CASE UNCHANGED <<writersem, sourcesem, spc, wpc>>
  BY <1>17
<1> QED
  BY <1>1, <1>2, <1>3, <1>4, <1>5, <1>6, <1>7, <1>8, <1>9, <1>10, <1>11,
     <1>12, <1>13, <1>14, <1>15, <1>16, <1>17 DEF Next, AppNext, UserNext,
     SourceNext, WriterNext, vars, StatusVars, Prestop, PrestopUnchanged,
     Teardown, AppPrestart, AppLoaded, WaitStatus, WaitWakeup, WaitReturn, OnError,
     AppFinish, AppStop, AppAbortTeardown, AppPrestop, AppAbort, StrayTouch, Download

\* The source thread and the writer thread are never both between taking the
\* buffer and handing it on, in any upgrade with any failures and aborts.
THEOREM BufferExclusive == Spec => []BufferHandOff
<1>1. HandOffInv => BufferHandOff
  BY DEF HandOffInv, Token, BufferHandOff, SourceHolds, WriterHolds
<1> QED
  BY InitTypeInv, NextTypeInv, InitHandOff, NextHandOff, <1>1, PTL DEF Spec

-----------------------------------------------------------------------------
(* The boot parameters, as long as the application does not abort.         *)

\* alislupg_stop frees the buffer only after the writer has posted oversem,
\* and a source thread that could not start never hands a chunk over.
AliveInv ==
  /\ app \notin {"aborting", "aborted"}
  /\ oversem > 0 \/ app = "end" => wpc = "over"
  /\ spc # "off" /\ wpc # "over" => buf_live
  /\ spc = "off" => sourcesem = 0 /\ wpc \in {"off", "init", "wait"}

\* upgrade_writter_loop has the parameters in the buffer before it erases.
BackedUp == wpc = "erase" /\ mtd \in BootParts => buf_param \/ FlashFailed(mtd)

\* A failure that nobody looked at stays on record.
LEMMA IgnoredGrows == [Next]_vars => ignored \subseteq ignored'
<1> SUFFICES ASSUME [Next]_vars PROVE ignored \subseteq ignored'
  OBVIOUS
<1>1. CASE SourceSetup
  BY <1>1 DEF SourceSetup, SetupOTA, Ignore
<1>2. CASE SourceFill
  BY <1>2 DEF SourceFill, FillUSB, FillNET, FillOTA, Ignore
<1>3. CASE WriterOpen
  BY <1>3 DEF WriterOpen, Ignore
<1>4. CASE WriterErase
  BY <1>4 DEF WriterErase, Ignore
<1>5. CASE WriterWrite
  BY <1>5 DEF WriterWrite, Ignore
<1>6. CASE UNCHANGED ignored
  BY <1>6
<1> QED
  BY <1>1, <1>2, <1>3, <1>4, <1>5, <1>6
  DEF Next, AppNext, UserNext, SourceNext, WriterNext, vars, StatusVars,
      PrestopUnchanged, Teardown, StrayTouch, NewHandle, AppPrestart, AppLoaded,
      AppStart, WaitStatus, WaitWakeup, WaitReturn, AppFinish, AppStop,
      AppAbortTeardown, AppPrestop, AppAbort, Download, SourceTake, SourceCheck,
      SourcePost, WriterInit, WriterTake, WriterCheck, WriterReport, WriterPost,
      WriterClose

\* Once a flash call on a partition has failed unseen, that remains so.
LEMMA FlashFailedStays ==
  ASSUME [Next]_vars, NEW p \in Parts, FlashFailed(p) PROVE FlashFailed(p)'
  BY IgnoredGrows DEF FlashFailed

LEMMA FlashFailedNow ==
  ASSUME NEW call \in {"read", "erase", "write"}, NEW p \in Parts, Ignore(call, p)
  PROVE  FlashFailed(p)'
<1> DEFINE f == [by |-> upgrade, part |-> p, call |-> call]
<1>1. f \in ignored' /\ f.part = p /\ f.call # "fread"
  BY DEF Ignore
<1> HIDE DEF f
<1> QED
  BY <1>1 DEF FlashFailed

LEMMA InitAlive == Init => AliveInv
  BY DEF Init, AliveInv

LEMMA NextAlive ==
  ASSUME ~AppMayAbort, TypeInv, AliveInv, [Next]_vars PROVE AliveInv'
<1> USE DEF AliveInv
<1>types. NotStarted /\ SourceTypeOK /\ WriterTypeOK /\ oversem \in Nat /\ sourcesem \in Nat
  BY DEF TypeInv, TypeOK, DescTypeOK, TuneTypeOK
<1>1. CASE AppPrestart
  BY <1>types, <1>1 DEF AppPrestart, NotStarted
<1>2. CASE AppLoaded
  BY <1>types, <1>2 DEF AppLoaded, NotStarted
<1>3. CASE AppStart
  BY <1>types, <1>3 DEF AppStart, NotStarted
<1>4. CASE WaitStatus
  BY <1>types, <1>4 DEF WaitStatus, OnError, StatusVars
<1>5. CASE WaitWakeup
  BY <1>types, <1>5 DEF WaitWakeup, StatusVars
<1>6. CASE WaitReturn
  BY <1>types, <1>6 DEF WaitReturn, OnError, StatusVars
<1>7. CASE AppFinish
  BY <1>types, <1>7 DEF AppFinish, Prestop, PrestopUnchanged
<1>8. CASE AppStop
  BY <1>types, <1>8 DEF AppStop, Teardown
<1>9. CASE AppAbortTeardown
  BY <1>types, <1>9 DEF AppAbortTeardown, Teardown
<1>10. CASE NewHandle
  BY <1>types, <1>10 DEF NewHandle
<1>11. CASE AppPrestop
  BY <1>types, <1>11 DEF AppPrestop, Prestop, PrestopUnchanged
<1>12. CASE AppAbort
  BY <1>types, <1>12 DEF AppAbort, Prestop, PrestopUnchanged
<1>13. CASE Download
  BY <1>types, <1>13 DEF Download
<1>14. CASE SourceSetup
  BY <1>types, <1>14 DEF SourceSetup, SetupOTA, SourceFail, SourceTypeOK
<1>15. CASE SourceTake
  BY <1>types, <1>15 DEF SourceTake, SourceTypeOK
<1>16. CASE SourceCheck
  BY <1>types, <1>16 DEF SourceCheck, SourceTypeOK
<1>17. CASE SourceFill
  BY <1>types, <1>17
  DEF SourceFill, FillUSB, FillNET, FillOTA, SourceAdvance, SourceFail,
      SourceTypeOK
<1>18. CASE SourcePost
  BY <1>types, <1>18 DEF SourcePost, SourceTypeOK
<1>19. CASE WriterInit
  BY <1>types, <1>19 DEF WriterInit, WriterTypeOK
<1>20. CASE WriterTake
  BY <1>types, <1>20 DEF WriterTake, WriterTypeOK
<1>21. CASE WriterCheck
  BY <1>types, <1>21 DEF WriterCheck, WriterTypeOK
<1>22. CASE WriterOpen
  BY <1>types, <1>22 DEF WriterOpen, WriterTypeOK
<1>23. CASE WriterErase
  BY <1>types, <1>23 DEF WriterErase, ElemAddr, WriterTypeOK
<1>24. CASE WriterWrite
  BY <1>types, <1>24 DEF WriterWrite, WriterTypeOK
<1>25. CASE WriterReport
  BY <1>types, <1>25 DEF WriterReport, WriterTypeOK
<1>26. CASE WriterPost
  BY <1>types, <1>26 DEF WriterPost, WriterTypeOK
<1>27. CASE WriterClose
  BY <1>types, <1>27 DEF WriterClose, WriterTypeOK
<1>28. CASE StrayTouch
  BY <1>28 DEF StrayTouch
<1>29. CASE UNCHANGED vars
  BY <1>29 DEF vars
<1> QED
  BY <1>1, <1>2, <1>3, <1>4, <1>5, <1>6, <1>7, <1>8, <1>9, <1>10, <1>11,
     <1>12, <1>13, <1>14, <1>15, <1>16, <1>17, <1>18, <1>19, <1>20, <1>21,
     <1>22, <1>23, <1>24, <1>25, <1>26, <1>27, <1>28, <1>29
  DEF Next, AppNext, UserNext, SourceNext, WriterNext

LEMMA InitBoot == Init => BootParamKept /\ BackedUp
  BY BootAssumption DEF Init, BootParamKept, BackedUp

LEMMA NextBoot ==
  ASSUME TypeInv, HandOffInv, AliveInv, BootParamKept, BackedUp, [Next]_vars
  PROVE  BootParamKept' /\ BackedUp'
<1>types. /\ BootParts \subseteq Parts
      /\ boot_param \in [Parts -> BOOLEAN] /\ written \in [Parts -> Nat]
  BY BootAssumption DEF TypeInv, TypeOK, FlashTypeOK
<1>alive. wpc \in {"erase", "write"} => buf_live
  BY DEF AliveInv
<1>excl. wpc \in {"erase", "write"} => spc # "fill"
  BY DEF HandOffInv, Token, SourceHolds, WriterHolds
<1>stays. \A p \in BootParts : FlashFailed(p) => FlashFailed(p)'
  BY <1>types, FlashFailedStays
<1> USE DEF BootParamKept, BackedUp
<1>1. CASE NewHandle
  BY <1>stays, <1>1 DEF NewHandle, AliveInv
<1>2. CASE AppStart
  BY <1>stays, <1>2 DEF AppStart, NotStarted, TypeInv
<1>3. CASE AppStop
  BY <1>stays, <1>3 DEF AppStop, Teardown, AliveInv
<1>4. CASE AppAbortTeardown
  BY <1>4 DEF AppAbortTeardown, AliveInv
<1>5. CASE SourceFill
  BY <1>stays, <1>excl, <1>5 DEF SourceFill
<1>6. CASE WriterInit
  BY <1>stays, <1>6 DEF WriterInit
<1>7. CASE WriterTake
  BY <1>stays, <1>7 DEF WriterTake
<1>8. CASE WriterCheck
  BY <1>stays, <1>8 DEF WriterCheck
<1>9. CASE WriterOpen
  <2>1. /\ wpc = "open" /\ wpc' \in {"erase", "close"}
        /\ UNCHANGED <<boot_param, tune_elem>>
        /\ wpc' = "erase" =>
             /\ mtd' = tune_elem
             /\ \/ buf_param' = Backup
                \/ tune_elem \in BootParts /\ Ignore("read", tune_elem)
    BY <1>9 DEF WriterOpen
  <2>2. \A p \in BootParts : boot_param[p] \/ FlashFailed(p)
    BY <2>1
  <2>3. BackedUp'
    <3> SUFFICES ASSUME wpc' = "erase", tune_elem \in BootParts
                 PROVE  buf_param' \/ FlashFailed(tune_elem)'
      BY <2>1 DEF FlashFailed
    <3>1. CASE buf_param' = Backup
      BY <1>stays, <2>1, <2>2, <3>1 DEF Backup, FlashFailed
    <3>2. CASE Ignore("read", tune_elem)
      BY <1>types, <2>1, <3>2, FlashFailedNow DEF FlashFailed
    <3> QED
      BY <2>1, <3>1, <3>2
  <2>4. BootParamKept'
    BY <1>stays, <2>1, <2>2
  <2> QED
    BY <2>3, <2>4
<1>10. CASE WriterErase
  <2>1. BackedUp'
    BY <1>10 DEF WriterErase
  <2>2. mtd \in Parts
    BY <1>10 DEF WriterErase, TypeInv, ChunkHasElem
  <2>3. ASSUME NEW p \in BootParts, p # mtd PROVE boot_param'[p] \/ FlashFailed(p)'
    BY <1>types, <1>stays, <1>10, <2>3 DEF WriterErase
  <2>4. mtd \in BootParts =>
          \/ written'[mtd] = 0 /\ buf_live' /\ buf_param'
          \/ FlashFailed(mtd)'
    BY <1>types, <1>stays, <1>alive, <1>10, <2>2 DEF WriterErase
  <2>5. wpc' = "write" /\ mtd' = mtd
    BY <1>10 DEF WriterErase
  <2> QED
    BY <2>1, <2>3, <2>4, <2>5
<1>11. CASE WriterWrite
  <2>1. BackedUp'
    BY <1>11 DEF WriterWrite
  <2>2. ASSUME NEW p \in BootParts PROVE boot_param'[p] \/ FlashFailed(p)'
    <3>1. p \in Parts /\ p # NULL
      BY <1>types, PackageAssumption
    <3>2. CASE mtd = NULL
      BY <1>stays, <1>11, <3>1, <3>2 DEF WriterWrite
    <3>3. CASE mtd # NULL /\ p # mtd
      BY <1>types, <1>stays, <1>11, <3>1, <3>3 DEF WriterWrite, ChunkLands
    <3>4. CASE mtd # NULL /\ p = mtd
      <4>1. CASE ChunkLands
        BY <1>types, <1>stays, <1>11, <3>1, <3>4, <4>1 DEF WriterWrite, ChunkLands
      <4>2. CASE Ignore("write", mtd)
        BY <3>1, <3>4, <4>2, FlashFailedNow
      <4> QED
        BY <1>11, <3>4, <4>1, <4>2 DEF WriterWrite
    <3> QED
      BY <3>2, <3>3, <3>4
  <2> QED
    BY <2>1, <2>2
<1>12. CASE WriterReport \/ WriterPost \/ WriterClose
  BY <1>stays, <1>12 DEF WriterReport, WriterPost, WriterClose
<1>13. CASE UNCHANGED <<buf_live, buf_param, wpc, mtd, written, boot_param, ignored>>
  BY <1>13 DEF FlashFailed
<1>14. CASE SourceSetup
  BY <1>stays, <1>14 DEF SourceSetup
<1> QED
  BY <1>1, <1>2, <1>3, <1>4, <1>5, <1>6, <1>7, <1>8, <1>9, <1>10, <1>11,
     <1>12, <1>13, <1>14
  DEF Next, AppNext, UserNext, SourceNext, WriterNext, vars, StatusVars,
      PrestopUnchanged, StrayTouch, AppPrestart, AppLoaded, WaitStatus, OnError,
      WaitWakeup, WaitReturn, AppFinish, AppPrestop, AppAbort, Download,
      SourceTake, SourceCheck, SourcePost

\* A box that loses power during an upgrade that nobody aborts, the first or a
\* later one, loses its boot parameters at most between the erase and the first
\* write of their partition, unless a flash call on that partition has failed:
\* whatever the source does, and whatever fails on other partitions.
THEOREM BootParamsSurvive == ~AppMayAbort => (Spec => []BootParamKept)
<1> SUFFICES ASSUME ~AppMayAbort PROVE Spec => []BootParamKept
  OBVIOUS
<1> DEFINE Inv == TypeInv /\ HandOffInv /\ AliveInv /\ BootParamKept /\ BackedUp
<1>1. Init => Inv
  BY InitTypeInv, InitHandOff, InitAlive, InitBoot
<1>2. Inv /\ [Next]_vars => Inv'
  BY NextTypeInv, NextHandOff, NextAlive, NextBoot
<1>3. Inv => BootParamKept
  OBVIOUS
<1> QED
  BY <1>1, <1>2, <1>3, PTL DEF Spec
-----------------------------------------------------------------------------
(* The chunks.  Without an error there is exactly one token, also after the *)
(* source has left its loop.                                               *)
Sound == /\ ~error => Token
         /\ spc \in {"off", "setup", "stuck"} =>
              sourcesem = 0 /\ wpc \in {"off", "init", "wait"}

LEMMA InitSound == Init => Sound
  BY DEF Init, Sound, Token, SourceHolds, WriterHolds

LEMMA NextSound == TypeInv /\ Sound /\ [Next]_vars => Sound'
<1> SUFFICES ASSUME TypeInv, Sound, [Next]_vars PROVE Sound'
  OBVIOUS
<1> USE DEF Sound, Token, SourceHolds, WriterHolds
<1>0. /\ writersem \in Nat /\ sourcesem \in Nat
      /\ NotStarted /\ SourceTypeOK /\ WriterTypeOK
  BY DEF TypeInv, TypeOK, TuneTypeOK
<1>1. CASE AppStart
  BY <1>0, <1>1 DEF AppStart, NotStarted
<1>2. CASE NewHandle
  BY <1>0, <1>2 DEF NewHandle
<1>3. CASE SourceSetup
  BY <1>0, <1>3 DEF SourceSetup, SetupOTA, SourceFail
<1>4. CASE SourceTake
  BY <1>0, <1>4 DEF SourceTake
<1>5. CASE SourceCheck
  BY <1>0, <1>5 DEF SourceCheck
<1>6. CASE SourceFill
  BY <1>0, <1>6 DEF SourceFill, FillUSB, FillNET, FillOTA, SourceAdvance,
     SourceFail
<1>7. CASE SourcePost
  BY <1>0, <1>7 DEF SourcePost
<1>8. CASE WriterInit
  BY <1>0, <1>8 DEF WriterInit
<1>9. CASE WriterTake
  BY <1>0, <1>9 DEF WriterTake
<1>10. CASE WriterCheck
  BY <1>0, <1>10 DEF WriterCheck
<1>11. CASE WriterOpen
  BY <1>0, <1>11 DEF WriterOpen
<1>12. CASE WriterErase
  BY <1>0, <1>12 DEF WriterErase, ElemAddr
<1>13. CASE WriterWrite
  BY <1>0, <1>13 DEF WriterWrite
<1>14. CASE WriterReport
  BY <1>0, <1>14 DEF WriterReport
<1>15. CASE WriterPost
  BY <1>0, <1>15 DEF WriterPost
<1>16. CASE WriterClose
  BY <1>0, <1>16 DEF WriterClose
<1>17. CASE UNCHANGED <<writersem, sourcesem, spc, wpc>> /\ (error => error')
  BY <1>17
<1> QED
  BY <1>1, <1>2, <1>3, <1>4, <1>5, <1>6, <1>7, <1>8, <1>9, <1>10, <1>11,
     <1>12, <1>13, <1>14, <1>15, <1>16, <1>17 DEF Next, AppNext, UserNext,
     SourceNext, WriterNext, vars, StatusVars, Prestop, PrestopUnchanged,
     Teardown, AppPrestart, AppLoaded, WaitStatus, WaitWakeup, WaitReturn, OnError,
     AppFinish, AppStop, AppAbortTeardown, AppPrestop, AppAbort, StrayTouch, Download

\* Where the source is in the package: never past the image it reads, and the
\* next read is a full buffer or what is left of the image.
ReadInv ==
  /\ perread \in 1..UPG_BUF_SIZE
  /\ elemread = 0 \/ elemread >= UPG_BUF_SIZE
  /\ \E k \in 0..elemread : elemread = k * UPG_BUF_SIZE
  /\ elem = PartNum + 1 => elemread = 0
  /\ elem \in Parts =>
       /\ elemread < img_size[elem]
       /\ \/ perread = UPG_BUF_SIZE
          \/ perread = img_size[elem] - elemread
       /\ spc = "fill" \/ elemread > 0 => perread <= img_size[elem] - elemread
  /\ spc = "fill" => tune_elem = elem

\* A read ends within the image, or ends it and the next image is begun.
LEMMA AdvanceRead ==
  ASSUME TypeInv, ReadInv, spc = "fill", SourceAdvance
  PROVE  /\ ReadInv'
         /\ tune_size' = perread /\ totalread' = totalread + perread
         /\ \/ elem' = elem /\ elemread' = elemread + perread
            \/ /\ elem' = elem + 1 /\ elemread' = 0
               /\ elemread + perread = img_size[elem]
<1> DEFINE done == elemread + perread
           rest == NextRead(done)
           size == img_size[elem]
<1>1. elem \in Parts /\ elemread \in Nat /\ PartNum \in Nat
  BY PackageAssumption DEF TypeInv, TypeOK, SourceTypeOK, ElemInRange
<1>2. size \in Nat /\ UPG_BUF_SIZE \in Nat \ {0}
  BY <1>1, PackageAssumption, BufAssumption
<1>3. /\ perread \in 1..UPG_BUF_SIZE /\ elemread + perread <= size
      /\ elemread = 0 \/ elemread >= UPG_BUF_SIZE
      /\ perread = UPG_BUF_SIZE \/ perread = size - elemread
  BY <1>1, <1>2 DEF ReadInv
<1>4. /\ rest = 0 <=> done = size
      /\ done < size => /\ rest \in 1..UPG_BUF_SIZE /\ rest <= size - done
                        /\ rest = UPG_BUF_SIZE \/ rest = size - done
                        /\ done >= UPG_BUF_SIZE
  BY <1>1, <1>2, <1>3 DEF NextRead
<1>5. /\ tune_size' = perread /\ totalread' = totalread + perread
      /\ spc' = "post"
      /\ IF rest = 0
         THEN elem' = elem + 1 /\ elemread' = 0 /\ perread' = UPG_BUF_SIZE
         ELSE elemread' = done /\ perread' = rest /\ UNCHANGED elem
  BY DEF SourceAdvance
<1>6. done <= size /\ done = elemread + perread
  BY <1>3
<1>7. CASE done = size
  <2>1. elem' = elem + 1 /\ elemread' = 0 /\ perread' = UPG_BUF_SIZE
    BY <1>4, <1>5, <1>7
  <2>2. elem' \in Parts => img_size[elem'] \in Nat \ {0}
    BY PackageAssumption
  <2>3. ReadInv'
    BY <1>2, <1>5, <2>1, <2>2 DEF ReadInv
  <2> QED
    BY <1>5, <1>6, <1>7, <2>1, <2>3
<1>8. CASE done < size
  <2>1. elem' = elem /\ elemread' = done /\ perread' = rest
    BY <1>2, <1>4, <1>5, <1>6, <1>8
  <2>2. elem # PartNum + 1 /\ size = img_size[elem'] /\ done \in Nat
    BY <1>1, <1>3, <2>1
  <2>3. \E k \in 0..done : done = k * UPG_BUF_SIZE
    <3>1. PICK k \in 0..elemread : elemread = k * UPG_BUF_SIZE
      BY DEF ReadInv
    <3>2. perread = UPG_BUF_SIZE /\ k \in Nat
      BY <1>1, <1>2, <1>3, <1>8
    <3>3. done = (k + 1) * UPG_BUF_SIZE
      BY <1>1, <1>2, <3>1, <3>2
    <3>4. k + 1 \in 0..done
      BY <1>1, <1>2, <3>1, <3>2
    <3> QED
      BY <3>3, <3>4
  <2>4. ReadInv'
    <3> HIDE DEF done, rest, size
    <3> QED
      BY <1>1, <1>2, <1>4, <1>5, <1>8, <2>1, <2>2, <2>3 DEF ReadInv
  <2> QED
    BY <1>5, <2>1, <2>4
<1> QED
  BY <1>1, <1>2, <1>3, <1>6, <1>7, <1>8

LEMMA InitRead == Init => ReadInv
  BY PackageAssumption, BufAssumption DEF Init, ReadInv

LEMMA NextReadInv == TypeInv /\ ReadInv /\ [Next]_vars => ReadInv'
<1> SUFFICES ASSUME TypeInv, ReadInv, [Next]_vars PROVE ReadInv'
  OBVIOUS
<1>0. elem \in 1..(PartNum + 1) /\ elemread \in Nat /\ UPG_BUF_SIZE \in Nat \ {0}
  BY BufAssumption DEF TypeInv, TypeOK, SourceTypeOK
<1>1. CASE NewHandle
  BY <1>1, PackageAssumption, BufAssumption DEF NewHandle, ReadInv
<1>2. CASE SourceCheck
  <2>1. elem \in Parts /\ img_size[elem] \in Nat \ {0} /\ elem # PartNum + 1
    BY <1>2, PackageAssumption DEF SourceCheck, TypeInv, ElemInRange
  <2>2. CASE error
    BY <1>0, <1>2, <2>1, <2>2 DEF SourceCheck, ReadInv
  <2>3. CASE ~error
    BY <1>0, <1>2, <2>1, <2>3 DEF SourceCheck, ReadInv
  <2> QED
    BY <2>2, <2>3
<1>3. CASE SourceFill
  <2>1. spc = "fill"
    BY <1>3 DEF SourceFill
  <2>2. CASE SourceAdvance
    BY <2>1, <2>2, AdvanceRead
  <2>3. CASE SourceFail /\ UNCHANGED <<elem, elemread, perread>>
    BY <2>3 DEF SourceFail, ReadInv
  <2> QED
    BY <1>3, <2>2, <2>3 DEF SourceFill, FillUSB, FillNET, FillOTA
<1>4. CASE UNCHANGED <<elem, elemread, perread, tune_elem>> /\ (spc' = "fill" => spc = "fill")
  BY <1>4 DEF ReadInv
<1> QED
  BY <1>1, <1>2, <1>3, <1>4 DEF Next, AppNext, UserNext,
     SourceNext, WriterNext, vars, StatusVars, Prestop, PrestopUnchanged,
     Teardown, AppPrestart, AppLoaded, AppStart, WaitStatus, WaitWakeup, WaitReturn,
     OnError, AppFinish, AppStop, AppAbortTeardown, AppPrestop, AppAbort, StrayTouch, Download,
     SourceSetup, SetupOTA, SourceFail, SourceTake, SourcePost, WriterInit, WriterTake,
     WriterCheck, WriterOpen, WriterErase, WriterWrite, WriterReport, WriterPost,
     WriterClose

\* The images follow each other from the header to the end of the package.
Packed ==
  /\ img_offset[1] = HeaderLen
  /\ \A p \in Parts : img_offset[p] + img_size[p] =
       IF p = PartNum THEN HeaderLen + Total ELSE img_offset[p + 1]

\* What the writer reports before a chunk of the package is below 100: no
\* chunk starts within the last Total % 100 bytes.
HonestPercent ==
  \A p \in Parts : \A k \in 0..img_size[p] :
    k * UPG_BUF_SIZE < img_size[p]
      => Percent(img_offset[p] + k * UPG_BUF_SIZE - HeaderLen) < 100

\* A chunk is on its way from the source to the flash.
Pending == \/ spc = "post" \/ sourcesem > 0
           \/ wpc \in {"check", "open", "erase", "write"}

\* The source and the writer count the same bytes.
TotalInv ==
  /\ ~error /\ Pending => totalread = totalwrite + tune_size
  /\ ~error /\ ~Pending => totalread = totalwrite

LEMMA InitTotal == Init => TotalInv
  BY DEF Init, TotalInv, Pending

LEMMA NextTotal ==
  ASSUME TypeInv, Sound, ReadInv, TotalInv, [Next]_vars PROVE TotalInv'
<1>types. /\ writersem \in Nat /\ sourcesem \in Nat /\ totalread \in Nat
          /\ totalwrite \in Nat /\ tune_size \in Nat
          /\ NotStarted /\ SourceTypeOK /\ WriterTypeOK
  BY DEF TypeInv, TypeOK, TuneTypeOK, SourceTypeOK, WriterTypeOK
<1> USE DEF TotalInv, Pending
<1>1. CASE AppStart
  BY <1>types, <1>1 DEF AppStart, NotStarted, Sound
<1>2. CASE NewHandle
  BY <1>2 DEF NewHandle
<1>3. CASE SourceSetup
  BY <1>types, <1>3 DEF SourceSetup, SetupOTA, SourceFail
<1>4. CASE SourceTake
  BY <1>types, <1>4 DEF SourceTake, Sound
<1>5. CASE SourceCheck
  BY <1>types, <1>5 DEF SourceCheck, Sound
<1>6. CASE SourceFill
  <2>1. spc = "fill" /\ UNCHANGED <<wpc, totalwrite>>
    BY <1>6 DEF SourceFill
  <2>2. CASE SourceAdvance /\ UNCHANGED <<error, sourcesem>>
    <3>1. ~error => sourcesem = 0 /\ ~Pending
      BY <2>1 DEF Sound, Token, SourceHolds, WriterHolds
    <3>2. tune_size' = perread /\ totalread' = totalread + perread /\ spc' = "post"
      BY <2>2 DEF SourceAdvance
    <3> QED
      BY <2>1, <2>2, <3>1, <3>2
  <2>3. CASE SourceFail
    BY <2>3 DEF SourceFail
  <2> QED
    BY <1>6, <2>2, <2>3 DEF SourceFill, FillUSB, FillNET, FillOTA
<1>7. CASE SourcePost
  BY <1>types, <1>7 DEF SourcePost
<1>8. CASE WriterInit
  BY <1>types, <1>8 DEF WriterInit
<1>9. CASE WriterTake
  BY <1>types, <1>9 DEF WriterTake
<1>10. CASE WriterCheck
  BY <1>types, <1>10 DEF WriterCheck
<1>11. CASE WriterOpen
  BY <1>types, <1>11 DEF WriterOpen
<1>12. CASE WriterErase
  BY <1>types, <1>12 DEF WriterErase
<1>13. CASE WriterWrite
  BY <1>types, <1>13 DEF WriterWrite, Sound, Token, SourceHolds, WriterHolds
<1>14. CASE WriterReport
  BY <1>types, <1>14 DEF WriterReport
<1>15. CASE WriterPost
  BY <1>types, <1>15 DEF WriterPost
<1>16. CASE WriterClose
  BY <1>types, <1>16 DEF WriterClose
<1>17. CASE /\ UNCHANGED <<sourcesem, spc, wpc, totalread, totalwrite, tune_size>>
            /\ error => error'
  BY <1>17
<1> QED
  BY <1>1, <1>2, <1>3, <1>4, <1>5, <1>6, <1>7, <1>8, <1>9, <1>10, <1>11,
     <1>12, <1>13, <1>14, <1>15, <1>16, <1>17 DEF Next, AppNext, UserNext,
     SourceNext, WriterNext, vars, StatusVars, Prestop, PrestopUnchanged,
     Teardown, AppPrestart, AppLoaded, WaitStatus, WaitWakeup, WaitReturn, OnError,
     AppFinish, AppStop, AppAbortTeardown, AppPrestop, AppAbort, StrayTouch, Download

\* The bytes read are those before the source's place in the package.
PlaceInv ==
  /\ elem \in Parts => HeaderLen + totalread = img_offset[elem] + elemread
  /\ elem = PartNum + 1 => totalread = Total

LEMMA InitPlace == ASSUME Packed, Init PROVE PlaceInv
<1>1. elem = 1 /\ elemread = 0 /\ totalread = 0 /\ 1 # PartNum + 1
  BY PackageAssumption DEF Init
<1>2. img_offset[1] = HeaderLen /\ HeaderLen \in Nat
  BY PackageAssumption DEF Packed
<1> QED
  BY <1>1, <1>2 DEF PlaceInv

LEMMA NextPlace ==
  ASSUME Packed, TypeInv, ReadInv, PlaceInv, [Next]_vars PROVE PlaceInv'
<1>1. CASE NewHandle
  <2>1. elem' = 1 /\ elemread' = 0 /\ totalread' = 0 /\ 1 # PartNum + 1
    BY <1>1, PackageAssumption DEF NewHandle
  <2>2. img_offset[1] = HeaderLen /\ HeaderLen \in Nat
    BY PackageAssumption DEF Packed
  <2> QED
    BY <2>1, <2>2 DEF PlaceInv
<1>2. CASE SourceFill
  <2>1. spc = "fill" /\ elem \in Parts
    BY <1>2 DEF SourceFill, TypeInv, ElemInRange
  <2>2. CASE SourceAdvance
    <3>1. /\ totalread' = totalread + perread
          /\ \/ elem' = elem /\ elemread' = elemread + perread
             \/ /\ elem' = elem + 1 /\ elemread' = 0
                /\ elemread + perread = img_size[elem]
      BY <2>1, <2>2, AdvanceRead
    <3>2. /\ PartNum \in Nat /\ HeaderLen \in Nat /\ Total \in Nat
          /\ img_size[elem] \in Nat /\ img_offset[elem] \in Nat
          /\ elemread \in Nat /\ perread \in Nat /\ totalread \in Nat
          /\ elem # PartNum + 1 /\ elem \in Nat
      BY <2>1, PackageAssumption DEF TypeInv, TypeOK, SourceTypeOK
    <3>3. HeaderLen + totalread = img_offset[elem] + elemread
      BY <2>1 DEF PlaceInv
    <3>4. CASE elem' = elem /\ elemread' = elemread + perread
      BY <3>1, <3>2, <3>3, <3>4 DEF PlaceInv
    <3>5. CASE /\ elem' = elem + 1 /\ elemread' = 0
               /\ elemread + perread = img_size[elem]
      <4>1. img_offset[elem] + img_size[elem] =
              IF elem = PartNum THEN HeaderLen + Total ELSE img_offset[elem + 1]
        BY <2>1 DEF Packed
      <4>2. HeaderLen + totalread' = img_offset[elem] + img_size[elem]
        BY <3>1, <3>2, <3>3, <3>5
      <4>3. elem = PartNum => totalread' = Total
        BY <3>1, <3>2, <4>1, <4>2
      <4>4. elem # PartNum => HeaderLen + totalread' = img_offset[elem']
        BY <3>5, <4>1, <4>2
      <4>5. elem' \in Parts => img_offset[elem'] \in Nat
        BY PackageAssumption
      <4> QED
        BY <2>1, <3>2, <3>5, <4>3, <4>4, <4>5 DEF PlaceInv
    <3> QED
      BY <3>1, <3>4, <3>5
  <2>3. CASE UNCHANGED <<elem, elemread, totalread>>
    BY <2>3 DEF PlaceInv
  <2> QED
    BY <1>2, <2>2, <2>3 DEF SourceFill, FillUSB, FillNET, FillOTA
<1>3. CASE UNCHANGED <<elem, elemread, totalread>>
  BY <1>3 DEF PlaceInv
<1> QED
  BY <1>1, <1>2, <1>3 DEF Next, AppNext, UserNext,
     SourceNext, WriterNext, vars, StatusVars, Prestop, PrestopUnchanged,
     Teardown, AppPrestart, AppLoaded, AppStart, WaitStatus, WaitWakeup, WaitReturn,
     OnError, AppFinish, AppStop, AppAbortTeardown, AppPrestop, AppAbort, StrayTouch, Download,
     SourceSetup, SourceCheck, SourceTake, SourcePost, WriterInit, WriterTake,
     WriterCheck, WriterOpen, WriterErase, WriterWrite, WriterReport, WriterPost,
     WriterClose

\* Unless the application aborts, an error is set by a thread that has the
\* token, or before there are threads: nobody is at work with an error set.
QuietInv ==
  /\ source = "OTA" => method = "PIECE_BY_PIECE"
  /\ app = "idle" \/ dram = "loading" => ~error /\ percent < 100
  /\ dram = "loading" => app \in {"load", "undefined"}
  /\ error => spc # "fill"
  /\ wpc \in {"open", "erase", "write", "report", "post"} => ~error

\* A package is loaded for an application that is waiting for it.
LEMMA LoadingApp ==
  ASSUME QuietInv, [Next]_vars, Download PROVE app = "load" /\ dram = "loading"
  BY DEF QuietInv, Next, Download, vars

LEMMA InitQuiet == Init => QuietInv
  BY DEF Init, QuietInv

LEMMA NextQuiet ==
  ASSUME ~AppMayAbort, TypeInv, HandOffInv, Sound, AliveInv, QuietInv,
         [Next]_vars
  PROVE  QuietInv'
<1>types. NotStarted /\ SourceTypeOK /\ WriterTypeOK /\ percent \in Nat
  BY DEF TypeInv, TypeOK, DescTypeOK
<1> USE DEF QuietInv
<1> SUFFICES ASSUME app # "undefined" PROVE QuietInv'
  BY DEF Next, vars
<1>1. CASE AppPrestart
  BY <1>types, <1>1 DEF AppPrestart
<1>2. CASE AppLoaded
  <2>1. dram # "loading"
    BY <1>types, <1>2 DEF AppLoaded
  <2> QED
    BY <1>types, <1>2, <2>1 DEF AppLoaded
<1>3. CASE AppStart
  BY <1>types, <1>3 DEF AppStart
<1>4. CASE WaitStatus \/ WaitWakeup \/ WaitReturn
  BY <1>4 DEF WaitStatus, WaitWakeup, WaitReturn, OnError, StatusVars
<1>5. CASE AppFinish
  BY <1>5 DEF AppFinish, Prestop, PrestopUnchanged
<1>6. CASE AppStop \/ AppAbortTeardown
  BY <1>6 DEF AppStop, AppAbortTeardown, Teardown
<1>7. CASE NewHandle
  BY <1>7 DEF NewHandle
<1>8. CASE AppPrestop \/ AppAbort
  BY <1>8 DEF AppPrestop, AppAbort
<1>9. CASE Download
  BY <1>types, <1>9, LoadingApp DEF Download, NotStarted
<1>10. CASE SourceSetup
  BY <1>types, <1>10 DEF SourceSetup, SetupOTA, SourceFail, Sound, NotStarted
<1>11. CASE SourceTake \/ SourceCheck \/ SourcePost
  BY <1>types, <1>11 DEF SourceTake, SourceCheck, SourcePost
<1>12. CASE SourceFill
  BY <1>types, <1>12
  DEF SourceFill, FillUSB, FillNET, FillOTA, SourceAdvance, SourceFail,
      NotStarted, HandOffInv, Token, SourceHolds, WriterHolds
<1>13. CASE WriterInit \/ WriterTake \/ WriterCheck
  BY <1>types, <1>13 DEF NotStarted, WriterInit, WriterTake, WriterCheck
<1>14. CASE WriterOpen
  BY <1>types, <1>14
  DEF WriterOpen, NotStarted, HandOffInv, Token, SourceHolds, WriterHolds
<1>15. CASE WriterErase \/ WriterWrite \/ WriterReport \/ WriterPost \/ WriterClose
  BY <1>types, <1>15
  DEF NotStarted, WriterErase, WriterWrite, WriterReport, WriterPost, WriterClose
<1>16. CASE StrayTouch
  BY <1>16 DEF StrayTouch
<1>17. CASE UNCHANGED vars
  BY <1>17 DEF vars
<1> QED
  BY <1>1, <1>2, <1>3, <1>4, <1>5, <1>6, <1>7, <1>8, <1>9, <1>10, <1>11,
     <1>12, <1>13, <1>14, <1>15, <1>16, <1>17
  DEF Next, AppNext, UserNext, SourceNext, WriterNext

\* The writer leaves its loop on an error or when the source has read all.
ClosedInv ==
  /\ wpc = "post" /\ percent >= 100 /\ ~error => elem = PartNum + 1
  /\ wpc \in {"close", "over"} => error \/ elem = PartNum + 1

\* The percentage reaches 100 only when the source has read every image.
LEMMA PercentHonest ==
  ASSUME Packed, HonestPercent, TypeInv, ReadInv, PlaceInv,
         Percent(totalread) >= 100
  PROVE  elem = PartNum + 1
<1> SUFFICES ASSUME elem \in Parts PROVE FALSE
  BY PackageAssumption DEF TypeInv, TypeOK, SourceTypeOK
<1>1. PICK k \in 0..elemread : elemread = k * UPG_BUF_SIZE
  BY DEF ReadInv
<1>2. /\ elemread \in Nat /\ elemread < img_size[elem]
      /\ img_size[elem] \in Nat /\ img_offset[elem] \in Nat
      /\ HeaderLen \in Nat /\ totalread \in Nat
  BY PackageAssumption DEF ReadInv, TypeInv, TypeOK, SourceTypeOK
<1>3. HeaderLen + totalread = img_offset[elem] + elemread
  BY DEF PlaceInv
<1>4. k \in 0..img_size[elem] /\ k * UPG_BUF_SIZE < img_size[elem]
  BY <1>1, <1>2
<1>5. Percent(img_offset[elem] + k * UPG_BUF_SIZE - HeaderLen) < 100
  BY <1>4 DEF HonestPercent
<1>6. img_offset[elem] + k * UPG_BUF_SIZE - HeaderLen = totalread
  BY <1>1, <1>2, <1>3
<1>7. Percent(totalread) < 100 /\ Percent(totalread) \in Nat
  BY <1>2, <1>5, <1>6, PercentType
<1> QED
  BY <1>7

LEMMA InitClosed == Init => ClosedInv
  BY DEF Init, ClosedInv

LEMMA NextClosed ==
  ASSUME Packed, HonestPercent, TypeInv, Sound, ReadInv, TotalInv, PlaceInv,
         QuietInv, ClosedInv, [Next]_vars
  PROVE  ClosedInv'
<1>types. NotStarted /\ SourceTypeOK /\ WriterTypeOK /\ PartNum \in Nat
  BY PackageAssumption DEF TypeInv, TypeOK
<1> USE DEF ClosedInv
<1>1. CASE AppStart
  BY <1>1 DEF AppStart
<1>2. CASE NewHandle
  BY <1>2 DEF NewHandle
<1>3. CASE SourceFill
  <2>1. elem # PartNum + 1 /\ UNCHANGED <<wpc, percent>>
    BY <1>types, <1>3 DEF SourceFill, TypeInv, ElemInRange
  <2>2. spc = "fill" /\ (error => error')
    BY <1>3 DEF SourceFill, FillUSB, FillNET, FillOTA, SourceFail
  <2> QED
    BY <2>1, <2>2
<1>4. CASE WriterReport
  <2>1. /\ wpc = "report" /\ percent' = Percent(totalwrite) /\ wpc' = "post"
        /\ UNCHANGED <<error, elem>>
    BY <1>4 DEF WriterReport
  <2>2. ~error => ~Pending
    BY <2>1 DEF Sound, Token, Pending, SourceHolds, WriterHolds
  <2>3. ~error => totalread = totalwrite
    BY <2>2 DEF TotalInv
  <2>4. ~error /\ percent' >= 100 => elem = PartNum + 1
    BY <2>1, <2>3, PercentHonest
  <2> QED
    BY <2>1, <2>4
<1>5. CASE WriterPost
  <2>1. /\ wpc = "post" /\ wpc' = IF percent = 100 \/ error THEN "close" ELSE "wait"
        /\ UNCHANGED <<error, elem, percent>>
    BY <1>5 DEF WriterPost
  <2> QED
    BY <2>1
<1>6. CASE WriterInit \/ WriterTake
  BY <1>6 DEF WriterInit, WriterTake
<1>7. CASE WriterCheck
  BY <1>7 DEF WriterCheck
<1>8. CASE WriterOpen
  BY <1>8 DEF WriterOpen
<1>9. CASE WriterErase \/ WriterWrite \/ WriterClose
  BY <1>9 DEF WriterErase, WriterWrite, WriterClose
<1>10. CASE Download
  BY <1>types, <1>10, LoadingApp DEF Download, NotStarted
<1>11. CASE UNCHANGED <<wpc, elem, percent>> /\ (error => error')
  BY <1>11
<1> QED
  BY <1>1, <1>2, <1>3, <1>4, <1>5, <1>6, <1>7, <1>8, <1>9, <1>10, <1>11
  DEF Next, AppNext, UserNext,
     SourceNext, WriterNext, vars, StatusVars, Prestop, PrestopUnchanged,
     Teardown, AppPrestart, AppLoaded, WaitStatus, WaitWakeup, WaitReturn,
     OnError, AppFinish, AppStop, AppAbortTeardown, AppPrestop, AppAbort, StrayTouch,
     SourceSetup, SetupOTA, SourceFail, SourceCheck, SourceTake, SourcePost

\* No thread of an upgrade that nobody aborts uses tune->buf after it is freed,
\* although alislupg_stop joins no thread: the source is past its last read
\* when the writer posts oversem.
THEOREM BufferStaysAlive ==
  ~AppMayAbort /\ Packed /\ HonestPercent => (Spec => []BufferAlive)
<1> SUFFICES ASSUME ~AppMayAbort, Packed, HonestPercent
             PROVE  Spec => []BufferAlive
  OBVIOUS
<1> DEFINE Inv == /\ TypeInv /\ HandOffInv /\ AliveInv /\ Sound /\ ReadInv
                  /\ TotalInv /\ PlaceInv /\ QuietInv /\ ClosedInv
<1>1. Init => Inv
  BY InitTypeInv, InitHandOff, InitAlive, InitSound, InitRead, InitTotal,
     InitPlace, InitQuiet, InitClosed
<1>2. Inv /\ [Next]_vars => Inv'
  BY NextTypeInv, NextHandOff, NextAlive, NextSound, NextReadInv, NextTotal,
     NextPlace, NextQuiet, NextClosed
<1>3. Inv => BufferAlive
  <2> SUFFICES ASSUME Inv, spc = "fill" \/ wpc \in {"open", "erase", "write"}
               PROVE  buf_live
    BY DEF BufferAlive
  <2>1. CASE wpc \in {"open", "erase", "write"}
    BY <2>1 DEF AliveInv
  <2>2. CASE spc = "fill"
    <3>1. elem # PartNum + 1 /\ ~error
      BY <2>2, PackageAssumption DEF TypeInv, ElemInRange, QuietInv
    <3>2. wpc # "over"
      BY <3>1 DEF ClosedInv
    <3> QED
      BY <2>2, <3>2 DEF AliveInv
  <2> QED
    BY <2>1, <2>2
<1> QED
  BY <1>1, <1>2, <1>3, PTL DEF Spec
-----------------------------------------------------------------------------
(* The flash.  Images are burned one after the other.                      *)

\* The writer tells an image from the one before by its element's address:
\* malloc must not have given it to another element before.
FreshElements ==
  \A u, v \in 1..MaxUpgrades : \A p, q \in Parts :
    Addr[u][p] = Addr[v][q] => u = v /\ p = q

\* What this upgrade has burned of image p: what an earlier one has left there
\* does not count.
Begun(p) == erased[p] = upgrade
Burnt(p) == IF Begun(p) THEN written[p] ELSE 0

Before(t) == \A p \in Parts : p < t => Begun(p) /\ written[p] = img_size[p]
After(t) == \A p \in Parts : p > t => ~Begun(p)

\* The chunk on its way belongs behind what its partition already holds.
InPlace ==
  /\ Before(tune_elem) /\ After(tune_elem)
  /\ Burnt(tune_elem) + tune_size <= img_size[tune_elem]
  /\ Burnt(tune_elem) > 0 => elem_old = ElemAddr

HandInv ==
  /\ (~error /\ Pending) \/ wpc \in {"open", "erase", "write"} => InPlace
  /\ wpc \in {"open", "erase"} => elem_old # ElemAddr
  /\ wpc = "erase" => mtd = tune_elem
  /\ wpc = "write" =>
       mtd = tune_elem /\ Begun(tune_elem) /\ elem_old = ElemAddr

\* What the static elem_old says of the partition that is open.
OldInv ==
  /\ elem_old = NULL \/ \E u \in 1..upgrade, q \in Parts : elem_old = Addr[u][q]
  /\ \A p \in Parts : elem_old = Addr[upgrade][p] =>
       Begun(p) /\ (wpc \in {"erase", "close", "over"} \/ mtd = p)
  /\ \A p \in Parts : erased[p] <= upgrade

\* Where the source is, against what the partitions hold.
LinkInv ==
  /\ ~error /\ Pending =>
       \/ elem = tune_elem /\ elemread = Burnt(tune_elem) + tune_size
       \/ /\ elem = tune_elem + 1 /\ elemread = 0
          /\ Burnt(tune_elem) + tune_size = img_size[tune_elem]
  /\ ~error /\ ~Pending =>
       /\ Before(elem) /\ After(elem)
       /\ elem \in Parts =>
            /\ Burnt(elem) = elemread
            /\ elemread > 0 => elem_old = Addr[upgrade][elem]

\* A partition is erased when those before it hold their images; what a later
\* upgrade has then made of those is its own affair.
FlashInv ==
  \A p, q \in Parts : p < q /\ erased[q] # 0 =>
    \/ erased[p] > erased[q]
    \/ erased[p] = erased[q] /\ written[p] = img_size[p]

BurnInv == HandInv /\ OldInv /\ LinkInv /\ FlashInv

LEMMA InitBurn == Init => BurnInv
<1> SUFFICES ASSUME Init PROVE BurnInv
  OBVIOUS
<1>1. HandInv
  BY DEF Init, HandInv, Pending
<1>2. OldInv
  <2>1. elem_old = NULL /\ upgrade = 1 /\ upgrade \in 1..MaxUpgrades
    BY AddrAssumption DEF Init
  <2>2. \A p \in Parts : erased[p] = 0
    BY DEF Init
  <2>3. \A p \in Parts : Addr[upgrade][p] # NULL
    BY <2>1, AddrAssumption
  <2> QED
    BY <2>1, <2>2, <2>3 DEF OldInv
<1>3. LinkInv
  <2>1. \A p \in Parts : ~Begun(p)
    BY DEF Init, Begun
  <2> QED
    BY <2>1 DEF Init, LinkInv, Pending, Before, After, Burnt
<1>4. FlashInv
  BY DEF Init, FlashInv
<1> QED
  BY <1>1, <1>2, <1>3, <1>4 DEF BurnInv

\* An upgrade starts with elements that no earlier one has had, and has erased
\* nothing yet.
LEMMA BurnNewHandle ==
  ASSUME FreshElements, TypeInv, BurnInv, NewHandle PROVE BurnInv'
<1>1. /\ wpc' = "off" /\ spc' = "off" /\ sourcesem' = 0 /\ elem' = 1
      /\ elemread' = 0 /\ elem_old' = elem_old /\ upgrade' = upgrade + 1
      /\ upgrade \in 1..MaxUpgrades /\ upgrade < MaxUpgrades
      /\ MaxUpgrades \in Nat /\ UNCHANGED <<erased, written>>
      /\ erased \in [Parts -> 0..MaxUpgrades]
  BY AddrAssumption DEF NewHandle, TypeInv, TypeOK, AppTypeOK, FlashTypeOK
<1>2. \A p \in Parts : erased[p] < upgrade'
  BY <1>1 DEF BurnInv, OldInv
<1>3. \A p \in Parts : ~Begun(p)'
  BY <1>1, <1>2 DEF Begun
<1>4. elem_old = NULL \/ \E u \in 1..upgrade, q \in Parts : elem_old = Addr[u][q]
  BY DEF BurnInv, OldInv
<1>5. \A p \in Parts : elem_old # Addr[upgrade'][p]
  <2>1. /\ upgrade' \in 1..MaxUpgrades
        /\ \A u \in 1..upgrade : u \in 1..MaxUpgrades /\ u # upgrade'
    BY <1>1
  <2>2. \A p \in Parts : Addr[upgrade'][p] # NULL
    BY <2>1, AddrAssumption
  <2> QED
    BY <1>4, <2>1, <2>2 DEF FreshElements
<1>6. HandInv'
  BY <1>1 DEF HandInv, Pending
<1>7. OldInv'
  <2>1. \A u \in 1..upgrade : u \in 1..upgrade'
    BY <1>1
  <2>2. \A p \in Parts : erased'[p] <= upgrade'
    BY <1>1, <1>2
  <2> QED
    BY <1>1, <1>4, <1>5, <2>1, <2>2 DEF OldInv
<1>8. LinkInv'
  BY <1>1, <1>3 DEF LinkInv, Pending, Before, After, Burnt
<1>9. FlashInv'
  BY <1>1 DEF BurnInv, FlashInv
<1> QED
  BY <1>6, <1>7, <1>8, <1>9 DEF BurnInv

\* The source reads the bytes that follow what the flash holds.
LEMMA BurnFill ==
  ASSUME TypeInv, HandOffInv, Sound, ReadInv, BurnInv, SourceFill
  PROVE  BurnInv'
<1>1. /\ spc = "fill" /\ elem \in Parts /\ tune_elem = elem
      /\ perread <= img_size[elem] - elemread
      /\ UNCHANGED <<upgrade, tune_elem, wpc, mtd, elem_old, erased, written>>
  BY DEF SourceFill, TypeInv, ElemInRange, ReadInv
<1>2. ~WriterHolds
  BY <1>1 DEF HandOffInv, Token, SourceHolds
<1>3. OldInv' /\ FlashInv'
  <2>1. OldInv /\ FlashInv
    BY DEF BurnInv
  <2> QED
    BY <1>1, <2>1 DEF OldInv, FlashInv, Begun
<1>4. CASE SourceFail
  BY <1>1, <1>2, <1>3, <1>4
  DEF SourceFail, BurnInv, HandInv, LinkInv, WriterHolds
<1>5. CASE SourceAdvance /\ UNCHANGED <<error, sourcesem>>
  <2>1. /\ spc' = "post" /\ tune_size' = perread
        /\ \/ elem' = elem /\ elemread' = elemread + perread
           \/ /\ elem' = elem + 1 /\ elemread' = 0
              /\ elemread + perread = img_size[elem]
    BY <1>1, <1>5, AdvanceRead DEF SourceAdvance
  <2>2. CASE error
    BY <1>1, <1>2, <1>3, <1>5, <2>2
    DEF BurnInv, HandInv, LinkInv, WriterHolds
  <2>3. CASE ~error
    <3>1. ~Pending
      BY <1>1, <2>3 DEF Sound, Token, Pending, SourceHolds, WriterHolds
    <3>2. /\ Before(elem) /\ After(elem) /\ Burnt(elem) = elemread
          /\ elemread > 0 => elem_old = Addr[upgrade][elem]
      BY <1>1, <2>3, <3>1 DEF BurnInv, LinkInv
    <3>3. elemread + perread <= img_size[elem] /\ elemread \in Nat
      BY <1>1, PackageAssumption
      DEF TypeInv, TypeOK, SourceTypeOK
    <3>4. Burnt(tune_elem)' = elemread
      BY <1>1, <3>2 DEF Burnt, Begun
    <3>5. InPlace'
      BY <1>1, <2>1, <3>2, <3>3, <3>4 DEF InPlace, Before, After, Begun, ElemAddr
    <3>6. HandInv'
      BY <1>1, <1>2, <3>5 DEF HandInv, WriterHolds
    <3>7. LinkInv'
      BY <1>1, <1>5, <2>1, <3>4 DEF LinkInv, Pending
    <3> QED
      BY <1>3, <3>6, <3>7 DEF BurnInv
  <2> QED
    BY <2>2, <2>3
<1> QED
  BY <1>4, <1>5 DEF SourceFill, FillUSB, FillNET, FillOTA

\* What the writer is about to do with the chunk in its hand.
LEMMA InHand ==
  ASSUME TypeInv, BurnInv, wpc \in {"open", "erase", "write"}
  PROVE  /\ InPlace /\ tune_elem \in Parts /\ tune_elem # NULL
         /\ img_size[tune_elem] \in Nat /\ tune_size \in Nat
         /\ written \in [Parts -> Nat] /\ erased \in [Parts -> 0..MaxUpgrades]
         /\ upgrade \in 1..MaxUpgrades /\ MaxUpgrades \in Nat
<1>1. InPlace
  BY DEF BurnInv, HandInv
<1>2. tune_elem \in Parts /\ tune_elem # NULL
  BY PackageAssumption DEF TypeInv, ChunkHasElem, NULL, Parts
<1>3. img_size[tune_elem] \in Nat
  BY <1>2, PackageAssumption
<1>4. /\ tune_size \in Nat /\ written \in [Parts -> Nat]
      /\ erased \in [Parts -> 0..MaxUpgrades] /\ upgrade \in 1..MaxUpgrades
  BY DEF TypeInv, TypeOK, TuneTypeOK, FlashTypeOK, AppTypeOK
<1> QED
  BY <1>1, <1>2, <1>3, <1>4, AddrAssumption

\* A partition is erased before its first chunk: what is erased counts 0.
LEMMA EraseKeeps ==
  ASSUME TypeInv, BurnInv, WriterErase
  PROVE  /\ mtd = tune_elem /\ Burnt(tune_elem) = 0
         /\ \A p \in Parts : p # tune_elem => erased'[p] = erased[p] /\ written'[p] = written[p]
         /\ \A p \in Parts : Burnt(p)' = Burnt(p)
         /\ erased'[tune_elem] = upgrade /\ upgrade' = upgrade
<1>1. /\ wpc = "erase" /\ mtd = tune_elem /\ elem_old # ElemAddr
      /\ written' = [written EXCEPT ![mtd] = 0]
      /\ erased' = [erased EXCEPT ![mtd] = upgrade] /\ upgrade' = upgrade
  BY DEF WriterErase, BurnInv, HandInv
<1>2. /\ InPlace /\ tune_elem \in Parts /\ written \in [Parts -> Nat]
      /\ erased \in [Parts -> 0..MaxUpgrades]
  BY <1>1, InHand
<1>3. Burnt(tune_elem) = 0
  BY <1>1, <1>2 DEF InPlace, Burnt
<1>4. /\ erased'[tune_elem] = upgrade /\ written'[tune_elem] = 0
      /\ \A p \in Parts : p # tune_elem => erased'[p] = erased[p] /\ written'[p] = written[p]
  BY <1>1, <1>2
<1>5. \A p \in Parts : Burnt(p)' = Burnt(p)
  BY <1>1, <1>3, <1>4 DEF Burnt, Begun
<1> QED
  BY <1>1, <1>3, <1>4, <1>5

\* Erasing begins a new image, and only that.
LEMMA BurnErase ==
  ASSUME FreshElements, TypeInv, BurnInv, WriterErase PROVE BurnInv'
<1> DEFINE t == tune_elem
<1>1. /\ wpc = "erase" /\ wpc' = "write" /\ mtd = t /\ elem_old' = ElemAddr
      /\ UNCHANGED <<upgrade, error, sourcesem, tune_elem, tune_size, spc, elem,
                     elemread, mtd>>
  BY DEF WriterErase, BurnInv, HandInv
<1>2. /\ InPlace /\ t \in Parts /\ t # NULL
      /\ img_size[t] \in Nat /\ tune_size \in Nat
      /\ erased \in [Parts -> 0..MaxUpgrades] /\ MaxUpgrades \in Nat
      /\ upgrade \in 1..MaxUpgrades
  BY <1>1, InHand
<1>3. /\ Burnt(t) = 0 /\ \A p \in Parts : Burnt(p)' = Burnt(p)
      /\ erased'[t] = upgrade
      /\ \A p \in Parts : p # t => erased'[p] = erased[p] /\ written'[p] = written[p]
  BY EraseKeeps
<1>4. Burnt(tune_elem)' = 0
  BY <1>1, <1>2, <1>3 DEF Burnt, Begun
<1>5. ElemAddr' = ElemAddr /\ ElemAddr = Addr[upgrade][t]
  BY <1>1 DEF ElemAddr
<1>6. Before(t) /\ After(t) /\ Burnt(t) + tune_size <= img_size[t]
  BY <1>2 DEF InPlace
<1>7. After(t)'
  BY <1>1, <1>3, <1>6 DEF After, Begun
<1>8. Before(t)'
  BY <1>1, <1>3, <1>6 DEF Before, Begun
<1> HIDE DEF t
<1>9. HandInv'
  <2>1. InPlace'
    BY <1>1, <1>2, <1>3, <1>4, <1>5, <1>6, <1>7, <1>8 DEF InPlace, t
  <2> QED
    BY <1>1, <1>3, <1>5, <2>1 DEF HandInv, Begun, t
<1>10. OldInv'
  <2>1. \E u \in 1..upgrade', q \in Parts : elem_old' = Addr[u][q]
    BY <1>1, <1>2, <1>5
  <2>2. ASSUME NEW p \in Parts, elem_old' = Addr[upgrade'][p] PROVE Begun(p)' /\ mtd' = p
    <3>1. p = t
      BY <1>1, <1>2, <1>5, <2>2 DEF FreshElements
    <3> QED
      BY <1>1, <1>3, <3>1 DEF Begun
  <2>3. ASSUME NEW p \in Parts PROVE erased'[p] <= upgrade'
    <3>1. CASE p = t
      BY <1>1, <1>2, <1>3, <3>1
    <3>2. CASE p # t
      BY <1>1, <1>3, <3>2 DEF BurnInv, OldInv
    <3> QED
      BY <3>1, <3>2
  <2> QED
    BY <2>1, <2>2, <2>3 DEF OldInv
<1>11. LinkInv'
  <2>1. Pending /\ Pending'
    BY <1>1 DEF Pending
  <2> QED
    BY <1>1, <1>2, <1>3, <1>4, <2>1 DEF BurnInv, LinkInv, t
<1>12. FlashInv'
  <2> SUFFICES ASSUME NEW p \in Parts, NEW q \in Parts, p < q, erased'[q] # 0
               PROVE  \/ erased'[p] > erased'[q]
                      \/ erased'[p] = erased'[q] /\ written'[p] = img_size[p]
    BY DEF FlashInv
  <2>1. CASE q = t
    BY <1>3, <1>6, <2>1 DEF Before, Begun
  <2>2. CASE q # t /\ p = t
    <3>1. erased[q] <= upgrade /\ erased[q] # upgrade /\ erased[q] \in Nat /\ upgrade \in Nat
      BY <1>2, <1>6, <2>2 DEF BurnInv, OldInv, After, Begun
    <3> QED
      BY <1>3, <2>2, <3>1
  <2>3. CASE q # t /\ p # t
    BY <1>3, <2>3 DEF BurnInv, FlashInv
  <2> QED
    BY <2>1, <2>2, <2>3
<1> QED
  BY <1>9, <1>10, <1>11, <1>12 DEF BurnInv

\* Writing appends the chunk to the image that is being burned.
LEMMA BurnWrite ==
  ASSUME TypeInv, Sound, BurnInv, WriterWrite PROVE BurnInv'
<1> DEFINE t == tune_elem
<1>1. /\ wpc = "write" /\ wpc' = "report" /\ mtd = t /\ erased[t] = upgrade
      /\ elem_old = ElemAddr
      /\ UNCHANGED <<upgrade, error, sourcesem, tune_elem, tune_size, spc, elem,
                     elemread, mtd, elem_old, erased>>
  BY DEF WriterWrite, BurnInv, HandInv, Begun
<1>2. /\ InPlace /\ t \in Parts /\ t # NULL
      /\ img_size[t] \in Nat /\ tune_size \in Nat
      /\ written \in [Parts -> Nat] /\ erased \in [Parts -> 0..MaxUpgrades]
      /\ upgrade \in 1..MaxUpgrades
  BY <1>1, InHand
<1>3. written' = [written EXCEPT ![t] = @ + tune_size]
  BY <1>1, <1>2 DEF WriterWrite
<1>4. /\ written'[t] = written[t] + tune_size
      /\ \A p \in Parts : p # t => written'[p] = written[p]
  BY <1>2, <1>3
<1>11. /\ Burnt(t) = written[t] /\ \A p \in Parts : Begun(p)' <=> Begun(p)
       /\ \A p \in Parts : p # t => Burnt(p)' = Burnt(p)
  BY <1>1, <1>4 DEF Burnt, Begun
<1>5. ElemAddr = Addr[upgrade][t]
  BY DEF ElemAddr
<1>6. Before(t) /\ After(t) /\ written[t] + tune_size <= img_size[t]
  BY <1>2, <1>11 DEF InPlace
<1> HIDE DEF t
<1>7. HandInv'
  <2>1. ~error => ~Pending'
    BY <1>1 DEF Sound, Token, Pending, SourceHolds, WriterHolds
  <2> QED
    BY <1>1, <2>1 DEF HandInv
<1>8. OldInv'
  BY <1>1, <1>11 DEF BurnInv, OldInv
<1>9. LinkInv'
  <2>1. ~error => ~Pending'
    BY <1>1 DEF Sound, Token, Pending, SourceHolds, WriterHolds
  <2>2. SUFFICES ASSUME ~error
                 PROVE  /\ Before(elem)' /\ After(elem)'
                        /\ elem \in Parts =>
                             /\ Burnt(elem)' = elemread
                             /\ elemread > 0 => elem_old = Addr[upgrade][elem]
    BY <1>1, <2>1 DEF LinkInv
  <2>3. \/ elem = t /\ elemread = written[t] + tune_size
        \/ /\ elem = t + 1 /\ elemread = 0
           /\ written[t] + tune_size = img_size[t]
    BY <1>1, <1>11, <2>2 DEF BurnInv, LinkInv, Pending, t
  <2>4. CASE elem = t /\ elemread = written[t] + tune_size
    <3>1. Before(elem)' /\ After(elem)'
      BY <1>1, <1>2, <1>4, <1>11, <1>6, <2>4 DEF Before, After
    <3>2. Burnt(elem)' = elemread
      BY <1>1, <1>4, <2>4 DEF Burnt, Begun
    <3> QED
      BY <1>1, <1>5, <2>4, <3>1, <3>2
  <2>5. CASE /\ elem = t + 1 /\ elemread = 0
             /\ written[t] + tune_size = img_size[t]
    <3>1. Before(elem)'
      <4> SUFFICES ASSUME NEW p \in Parts, p < t + 1
                   PROVE  Begun(p)' /\ written'[p] = img_size[p]
        BY <1>1, <2>5 DEF Before
      <4>1. CASE p = t
        BY <1>1, <1>4, <2>5, <4>1 DEF Begun
      <4>2. CASE p # t
        <5>1. p < t
          BY <1>2, <4>2, PackageAssumption
        <5> QED
          BY <1>4, <1>11, <1>6, <4>2, <5>1 DEF Before
      <4> QED
        BY <4>1, <4>2
    <3>2. After(elem)'
      <4> SUFFICES ASSUME NEW p \in Parts, p > t + 1
                   PROVE  ~Begun(p)
        BY <1>1, <1>11, <2>5 DEF After
      <4>1. p > t
        BY <1>2, PackageAssumption
      <4> QED
        BY <1>6, <4>1 DEF After
    <3>3. elem \in Parts => Burnt(elem)' = 0
      <4>1. elem # t /\ elem > t
        BY <1>2, <2>5, PackageAssumption
      <4>2. elem \in Parts => ~Begun(elem)
        BY <1>6, <4>1 DEF After
      <4> QED
        BY <1>1, <4>2 DEF Burnt, Begun
    <3> QED
      BY <2>5, <3>1, <3>2, <3>3
  <2> QED
    BY <2>3, <2>4, <2>5
<1>10. FlashInv'
  <2> SUFFICES ASSUME NEW p \in Parts, NEW q \in Parts, p < q, erased[q] # 0
               PROVE  \/ erased[p] > erased[q]
                      \/ erased[p] = erased[q] /\ written'[p] = img_size[p]
    BY <1>1 DEF FlashInv
  <2>1. CASE p = t
    <3>1. erased[q] <= upgrade /\ erased[q] # upgrade /\ erased[q] \in Nat /\ upgrade \in Nat
      BY <1>2, <1>6, <2>1 DEF BurnInv, OldInv, After, Begun
    <3> QED
      BY <1>1, <2>1, <3>1
  <2>2. CASE p # t
    BY <1>4, <2>2 DEF BurnInv, FlashInv
  <2> QED
    BY <2>1, <2>2
<1> QED
  BY <1>7, <1>8, <1>9, <1>10 DEF BurnInv

\* Steps that touch neither the chunk nor the flash.
LEMMA BurnKeep ==
  ASSUME BurnInv, error => error', ~error' => (Pending' <=> Pending),
         UNCHANGED <<upgrade, tune_elem, tune_size, elem, elemread, elem_old,
                     mtd, erased, written>>,
         wpc' = wpc \/ wpc' \notin {"open", "erase", "write"},
         wpc \in {"erase", "close", "over"} => wpc' \in {"erase", "close", "over"}
  PROVE  BurnInv'
<1>1. InPlace' <=> InPlace
  BY DEF InPlace, Before, After, Begun, Burnt, ElemAddr
<1>2. HandInv'
  BY <1>1 DEF BurnInv, HandInv, Begun, ElemAddr
<1>3. OldInv'
  BY DEF BurnInv, OldInv, Begun
<1>4. LinkInv'
  BY DEF BurnInv, LinkInv, Before, After, Begun, Burnt
<1>5. FlashInv'
  BY DEF BurnInv, FlashInv
<1> QED
  BY <1>2, <1>3, <1>4, <1>5 DEF BurnInv

LEMMA NextBurn ==
  ASSUME FreshElements, TypeInv, HandOffInv, Sound, ReadInv, BurnInv, [Next]_vars
  PROVE  BurnInv'
<1>types. /\ sourcesem \in Nat /\ NotStarted /\ SourceTypeOK /\ WriterTypeOK
          /\ error \in BOOLEAN
  BY DEF TypeInv, TypeOK, TuneTypeOK, FlagTypeOK
<1>1. CASE AppStart
  BY <1>types, <1>1, BurnKeep DEF AppStart, Pending, NotStarted, Sound
<1>2. CASE NewHandle
  BY <1>2, BurnNewHandle
<1>3. CASE SourceSetup
  BY <1>types, <1>3, BurnKeep DEF SourceSetup, SetupOTA, SourceFail, Pending
<1>4. CASE SourceTake
  BY <1>types, <1>4, BurnKeep DEF SourceTake, Pending
<1>5. CASE SourceCheck
  <2>1. CASE error
    BY <1>types, <1>5, <2>1, BurnKeep DEF SourceCheck, Pending
  <2>2. CASE ~error
    <3>1. /\ spc = "check" /\ spc' = "fill"
          /\ UNCHANGED <<upgrade, error, sourcesem, wpc, elem, elemread, elem_old,
                         mtd, erased, written>>
      BY <1>5, <2>2 DEF SourceCheck
    <3>2. ~WriterHolds /\ ~Pending /\ ~Pending'
      BY <2>2, <3>1 DEF Sound, Token, Pending, SourceHolds, WriterHolds
    <3>3. HandInv'
      BY <2>2, <3>1, <3>2 DEF HandInv, WriterHolds
    <3>4. OldInv' /\ FlashInv'
      BY <3>1 DEF BurnInv, OldInv, FlashInv, Begun
    <3>5. LinkInv'
      BY <3>1, <3>2 DEF BurnInv, LinkInv, Before, After, Begun, Burnt
    <3> QED
      BY <3>3, <3>4, <3>5 DEF BurnInv
  <2> QED
    BY <2>1, <2>2
<1>6. CASE SourceFill
  BY <1>6, BurnFill
<1>7. CASE SourcePost
  BY <1>types, <1>7, BurnKeep DEF SourcePost, Pending
<1>8. CASE WriterInit
  BY <1>types, <1>8, BurnKeep DEF WriterInit, Pending
<1>9. CASE WriterTake
  BY <1>types, <1>9, BurnKeep DEF WriterTake, Pending
<1>10. CASE WriterCheck
  <2>1. CASE error
    BY <1>types, <1>10, <2>1, BurnKeep DEF WriterCheck, Pending
  <2>2. CASE ~error
    <3>1. /\ wpc = "check" /\ wpc' = IF NewElement THEN "open" ELSE "write"
          /\ UNCHANGED <<upgrade, error, sourcesem, spc, tune_elem, tune_size,
                         elem, elemread, elem_old, mtd, erased, written>>
      BY <1>10, <2>2 DEF WriterCheck
    <3>2. Pending /\ Pending'
      BY <3>1 DEF Pending
    <3>3. InPlace /\ tune_elem \in Parts
      BY <2>2, <3>1, <3>2 DEF BurnInv, HandInv, TypeInv, ChunkHasElem
    <3>4. InPlace'
      BY <3>1, <3>3 DEF InPlace, Before, After, Begun, Burnt, ElemAddr
    <3>5. ~NewElement => mtd = tune_elem /\ Begun(tune_elem)
      BY <3>1, <3>3 DEF NewElement, ElemAddr, BurnInv, OldInv
    <3>6. HandInv'
      BY <3>1, <3>4, <3>5 DEF HandInv, NewElement, ElemAddr, Begun
    <3>7. OldInv' /\ FlashInv'
      BY <3>1 DEF BurnInv, OldInv, FlashInv, Begun
    <3>8. LinkInv'
      BY <3>1, <3>2 DEF BurnInv, LinkInv, Begun, Burnt
    <3> QED
      BY <3>6, <3>7, <3>8 DEF BurnInv
  <2> QED
    BY <2>1, <2>2
<1>11. CASE WriterOpen
  <2>1. /\ wpc = "open" /\ wpc' \in {"close", "erase"}
        /\ wpc' = "close" => error'
        /\ wpc' = "erase" => mtd' = tune_elem /\ (error' <=> error)
        /\ UNCHANGED <<upgrade, sourcesem, spc, tune_elem, tune_size,
                       elem, elemread, elem_old, erased, written>>
    BY <1>types, <1>11 DEF WriterOpen
  <2>2. Pending /\ InPlace /\ elem_old # ElemAddr
    BY <2>1 DEF Pending, BurnInv, HandInv
  <2>3. InPlace' /\ ElemAddr' = ElemAddr
    BY <2>1, <2>2 DEF InPlace, Before, After, Begun, Burnt, ElemAddr
  <2>4. HandInv'
    BY <2>1, <2>2, <2>3 DEF HandInv
  <2>5. OldInv' /\ FlashInv'
    BY <2>1 DEF BurnInv, OldInv, FlashInv, Begun
  <2>6. LinkInv'
    <3>1. CASE wpc' = "close"
      BY <2>1, <3>1 DEF LinkInv
    <3>2. CASE wpc' = "erase"
      BY <2>1, <2>2, <3>2 DEF BurnInv, LinkInv, Pending, Begun, Burnt
    <3> QED
      BY <2>1, <3>1, <3>2
  <2> QED
    BY <2>4, <2>5, <2>6 DEF BurnInv
<1>12. CASE WriterErase
  BY <1>12, BurnErase
<1>13. CASE WriterWrite
  BY <1>13, BurnWrite
<1>14. CASE WriterReport
  BY <1>types, <1>14, BurnKeep DEF WriterReport, Pending
<1>15. CASE WriterPost
  BY <1>types, <1>15, BurnKeep DEF WriterPost, Pending
<1>16. CASE WriterClose
  BY <1>types, <1>16, BurnKeep DEF WriterClose, Pending
<1>17. CASE UserNext \/ StrayTouch \/ Download
  <2>1. CASE AppPrestop \/ AppAbort \/ StrayTouch \/ Download
    <3>1. /\ UNCHANGED <<upgrade, sourcesem, spc, wpc, tune_elem, tune_size,
                         elem, elemread, elem_old, mtd, erased, written>>
          /\ error => error'
      BY <1>types, <2>1
      DEF AppPrestop, AppAbort, Prestop, PrestopUnchanged, StrayTouch, Download
    <3> QED
      BY <3>1, BurnKeep DEF Pending
  <2> QED
    BY <1>2, <1>17, <2>1 DEF UserNext
<1>18. CASE AppNext \/ UNCHANGED vars
  <2>1. CASE ~AppStart
    <3>1. /\ UNCHANGED <<upgrade, sourcesem, spc, wpc, tune_elem, tune_size,
                         elem, elemread, elem_old, mtd, erased, written>>
          /\ error => error'
      BY <1>types, <1>18, <2>1
      DEF AppNext, vars, StatusVars, Prestop, PrestopUnchanged, Teardown,
          AppPrestart, AppLoaded, WaitStatus, WaitWakeup, WaitReturn, OnError,
          AppFinish, AppStop, AppAbortTeardown
    <3> QED
      BY <3>1, BurnKeep DEF Pending
  <2> QED
    BY <1>1, <2>1
<1> QED
  BY <1>3, <1>4, <1>5, <1>6, <1>7, <1>8, <1>9, <1>10, <1>11, <1>12, <1>13,
     <1>14, <1>15, <1>16, <1>17, <1>18 DEF Next, SourceNext, WriterNext

\* The invariant that both theorems on the flash rest on.
LEMMA Burning ==
  ASSUME FreshElements
  PROVE  Spec => [](TypeInv /\ BurnInv)
<1> DEFINE Inv == TypeInv /\ HandOffInv /\ Sound /\ ReadInv /\ BurnInv
<1>1. Init => Inv
  BY InitTypeInv, InitHandOff, InitSound, InitRead, InitBurn
<1>2. Inv /\ [Next]_vars => Inv'
  BY NextTypeInv, NextHandOff, NextSound, NextReadInv, NextBurn
<1>3. Inv => TypeInv /\ BurnInv
  OBVIOUS
<1> QED
  BY <1>1, <1>2, <1>3, PTL DEF Spec

\* upgrade_writter_loop erases before it writes: every chunk goes to the
\* partition of its own element, opened and given to alislsto_erase in this
\* upgrade, whatever fails or is aborted and whatever earlier upgrades have left,
\* as long as no element has the address of an earlier one.
THEOREM WritesOnErased == FreshElements => (Spec => []WriteOnErased)
<1> SUFFICES ASSUME FreshElements PROVE Spec => []WriteOnErased
  OBVIOUS
<1>1. BurnInv => WriteOnErased
  BY DEF BurnInv, HandInv, WriteOnErased, Begun
<1> QED
  BY Burning, <1>1, PTL

\* A power cut, at any moment of any upgrade and after any failures, retries and
\* aborts, finds at most one partition that one and the same upgrade has left half
\* burned; of two that are, the earlier in the package was erased by the later
\* upgrade.
THEOREM OneTornEach == FreshElements => (Spec => []OneTornPerUpgrade)
<1> SUFFICES ASSUME FreshElements PROVE Spec => []OneTornPerUpgrade
  OBVIOUS
<1>1. TypeInv /\ BurnInv => OneTornPerUpgrade
  <2> SUFFICES ASSUME TypeInv, BurnInv, NEW p \in Parts, NEW q \in Parts,
                      p < q, Torn(p), Torn(q)
               PROVE  erased[p] > erased[q]
    BY DEF OneTornPerUpgrade
  <2>1. written[p] # img_size[p] /\ erased[q] # 0
    BY PackageAssumption DEF Torn, TypeInv, TypeOK, FlashTypeOK
  <2> QED
    BY <2>1 DEF BurnInv, FlashInv
<1> QED
  BY Burning, <1>1, PTL
-----------------------------------------------------------------------------
(* Success.  NET and OTA read a stream that is at the source's place, until *)
(* an OTA read fails unseen: from that image on the stream is behind.      *)
Behind(e) ==
  source = "OTA" /\ \E f \in ignored :
                      f.by = upgrade /\ f.part <= e /\ f.call = "fread"

StreamInv ==
  /\ spc \in {"off", "setup", "stuck"} => totalread = 0
  /\ source # "USB" /\ spc \notin {"off", "setup", "stuck", "over"} =>
       fpos = HeaderLen + totalread \/ Behind(elem)

LEMMA InitStream == Init => StreamInv
  BY DEF Init, StreamInv

\* Failures of this upgrade are not forgotten in it.
LEMMA BehindStays ==
  ASSUME TypeInv, ignored \subseteq ignored', UNCHANGED <<upgrade, source>>,
         NEW e \in Nat, NEW d \in Nat, e <= d, Behind(e)
  PROVE  Behind(d)'
<1>1. PICK f \in ignored : f.by = upgrade /\ f.part <= e /\ f.call = "fread"
  BY DEF Behind
<1>2. f.part \in Nat
  BY PackageAssumption DEF TypeInv, TypeOK, FlashTypeOK, Parts
<1> QED
  BY <1>1, <1>2 DEF Behind

LEMMA SpoiledStays ==
  ASSUME ignored \subseteq ignored', UNCHANGED <<upgrade, source>>, NEW p, Spoiled(p)
  PROVE  Spoiled(p)'
  BY DEF Spoiled

LEMMA SpoiledNow ==
  ASSUME NEW p, NEW call, call # "read", Ignore(call, p), UNCHANGED upgrade
  PROVE  Spoiled(p)'
<1> DEFINE f == [by |-> upgrade, part |-> p, call |-> call]
<1>1. f \in ignored' /\ f.by = upgrade' /\ f.part = p /\ f.call = call
  BY DEF Ignore
<1> QED
  BY <1>1 DEF Spoiled

LEMMA BehindNow ==
  ASSUME source = "OTA", NEW e \in Nat, Ignore("fread", e), UNCHANGED <<upgrade, source>>,
         NEW d \in Nat, e <= d
  PROVE  Behind(d)'
<1> DEFINE f == [by |-> upgrade, part |-> e, call |-> "fread"]
<1>1. f \in ignored' /\ f.by = upgrade' /\ f.part = e /\ f.call = "fread"
  BY DEF Ignore
<1> QED
  BY <1>1 DEF Behind

LEMMA NextStream ==
  ASSUME TypeInv, ReadInv, PlaceInv, StreamInv, [Next]_vars PROVE StreamInv'
<1>types. NotStarted /\ SourceTypeOK /\ HeaderLen \in Nat /\ PartNum \in Nat
  BY PackageAssumption DEF TypeInv, TypeOK
<1>grows. ignored \subseteq ignored'
  BY IgnoredGrows
<1>1. CASE AppStart
  BY <1>types, <1>1 DEF AppStart, NotStarted, StreamInv
<1>2. CASE NewHandle
  BY <1>2 DEF NewHandle, StreamInv
<1>3. CASE SourceSetup
  <2>1. /\ spc = "setup" /\ totalread = 0 /\ elem \in Nat
        /\ UNCHANGED <<totalread, elem, upgrade, source>>
    BY <1>types, <1>3 DEF SourceSetup, appVars, cfgVars, StreamInv, SourceTypeOK
  <2>2. CASE SetupOTA /\ ignored' # ignored
    <3>1. source = "OTA" /\ Ignore("fread", elem)
      BY <2>2 DEF SetupOTA
    <3> QED
      BY <2>1, <3>1, BehindNow DEF StreamInv
  <2>3. CASE ~(SetupOTA /\ ignored' # ignored)
    <3>1. CASE SetupOTA
      <4>1. spc' = "stuck" \/ Ignore("fread", elem)
        BY <3>1 DEF SetupOTA
      <4> QED
        BY <2>1, <3>1, <4>1, BehindNow DEF StreamInv, SetupOTA
    <3>2. CASE ~SetupOTA
      BY <1>types, <1>3, <2>1, <3>2 DEF SourceSetup, SourceFail, StreamInv
    <3> QED
      BY <3>1, <3>2
  <2> QED
    BY <2>2, <2>3
<1>4. CASE SourceTake \/ SourceCheck \/ SourcePost
  BY <1>4 DEF SourceTake, SourceCheck, SourcePost, StreamInv, Behind, flashVars,
     appVars, cfgVars
<1>5. CASE SourceFill
  <2>1. spc = "fill" /\ UNCHANGED <<source, upgrade>> /\ elem \in Parts
    BY <1>5 DEF SourceFill, TypeInv, ElemInRange, appVars, cfgVars
  <2>2. /\ perread \in Nat /\ totalread \in Nat /\ fpos \in Nat \cup {GARBAGE}
        /\ elem \in Nat
    BY <1>types DEF SourceTypeOK
  <2>3. CASE SourceFail
    BY <2>3 DEF SourceFail, StreamInv
  <2>4. CASE FillUSB
    BY <2>1, <2>4 DEF FillUSB, SourceAdvance, StreamInv
  <2>5. CASE FillNET /\ ~SourceFail
    <3>1. /\ spc' = "post" /\ totalread' = totalread + perread
          /\ fpos' = (IF fpos < img_offset[elem] + elemread
                      THEN img_offset[elem] + elemread ELSE fpos) + perread
      BY <2>5 DEF FillNET, SourceAdvance
    <3>2. fpos = img_offset[elem] + elemread /\ fpos = HeaderLen + totalread
      BY <2>1, <2>5 DEF FillNET, PlaceInv, StreamInv, Behind
    <3> QED
      BY <1>types, <2>2, <3>1, <3>2 DEF StreamInv
  <2>6. CASE FillOTA /\ ~SourceFail
    <3>1. /\ spc' = "post" /\ totalread' = totalread + perread
          /\ elem' \in Nat /\ elem <= elem' /\ source = "OTA"
      BY <2>2, <2>6 DEF FillOTA, SourceAdvance
    <3>2. CASE Ignore("fread", elem)
      BY <2>1, <2>2, <3>1, <3>2, BehindNow DEF StreamInv
    <3>3. CASE Behind(elem)
      BY <1>grows, <2>1, <2>2, <3>1, <3>3, BehindStays DEF StreamInv
    <3>4. CASE ~Ignore("fread", elem) /\ ~Behind(elem)
      <4>1. fpos = HeaderLen + totalread
        BY <2>1, <3>1, <3>4 DEF StreamInv
      <4>2. fpos # GARBAGE
        BY <1>types, <2>2, <4>1 DEF GARBAGE
      <4>3. fpos' = fpos + perread
        BY <2>6, <3>4, <4>2 DEF FillOTA
      <4> QED
        BY <1>types, <2>2, <3>1, <4>1, <4>3 DEF StreamInv
    <3> QED
      BY <3>2, <3>3, <3>4
  <2> QED
    BY <1>5, <2>3, <2>4, <2>5, <2>6 DEF SourceFill
<1>6. CASE UNCHANGED <<source, upgrade, spc, elem, fpos, totalread>>
  <2>1. elem \in Nat
    BY <1>types DEF SourceTypeOK
  <2> QED
    BY <1>grows, <1>6, <2>1, BehindStays DEF StreamInv
<1> QED
  BY <1>1, <1>2, <1>3, <1>4, <1>5, <1>6 DEF Next, AppNext, UserNext,
     SourceNext, WriterNext, vars, StatusVars, Prestop, PrestopUnchanged,
     Teardown, AppPrestart, AppLoaded, WaitStatus, WaitWakeup, WaitReturn,
     OnError, AppFinish, AppStop, AppAbortTeardown, AppPrestop, AppAbort,
     StrayTouch, Download, WriterInit, WriterTake, WriterCheck, WriterOpen,
     WriterErase, WriterWrite, WriterReport, WriterPost, WriterClose

\* The bytes in tune->buf are the next ones of the partition's image, and what
\* this upgrade has burned is what the package has for it, unless a failure that
\* nobody looked at has spoiled the image.
ByteInv ==
  method = "PIECE_BY_PIECE" =>
    /\ (~error /\ Pending) \/ wpc \in {"open", "erase", "write"} =>
         \/ tune_buf = img_offset[tune_elem] + Burnt(tune_elem)
         \/ Spoiled(tune_elem)
    /\ \A p \in Parts : Begun(p) => faithful[p] \/ Spoiled(p)

LEMMA InitByte == Init => ByteInv
<1> SUFFICES ASSUME Init PROVE ByteInv
  OBVIOUS
<1>1. \A p \in Parts : ~Begun(p)
  BY AddrAssumption DEF Init, Begun
<1> QED
  BY <1>1 DEF Init, ByteInv, Pending

\* Steps that touch neither the buffer nor the flash.
LEMMA ByteKeep ==
  ASSUME ByteInv, error => error', ~error' => (Pending' => Pending),
         UNCHANGED <<method, source, upgrade, tune_elem, tune_buf, erased,
                     written, faithful>>,
         ignored \subseteq ignored',
         wpc' = wpc \/ wpc' \notin {"open", "erase", "write"}
  PROVE  ByteInv'
<1>1. \A p : Begun(p)' = Begun(p) /\ Burnt(p)' = Burnt(p)
  BY DEF Begun, Burnt
<1> QED
  BY <1>1, SpoiledStays DEF ByteInv

LEMMA NextByte ==
  ASSUME TypeInv, HandOffInv, AliveInv, Sound, ReadInv,
         PlaceInv, QuietInv, BurnInv, StreamInv, ByteInv, [Next]_vars
  PROVE  ByteInv'
<1>types. /\ sourcesem \in Nat /\ NotStarted /\ SourceTypeOK /\ WriterTypeOK
          /\ error \in BOOLEAN /\ faithful \in [Parts -> BOOLEAN]
          /\ ignored \subseteq ignored'
  BY IgnoredGrows DEF TypeInv, TypeOK, TuneTypeOK, FlagTypeOK, FlashTypeOK
<1>1. CASE AppStart
  BY <1>types, <1>1, ByteKeep DEF AppStart, Pending, NotStarted, Sound
<1>2. CASE NewHandle
  <2>1. \A p \in Parts : ~Begun(p)'
    <3> SUFFICES ASSUME NEW p \in Parts PROVE erased'[p] # upgrade'
      BY DEF Begun
    <3>1. erased[p] <= upgrade /\ erased' = erased /\ upgrade' = upgrade + 1
      BY <1>2 DEF BurnInv, OldInv, NewHandle, flashVars
    <3>2. erased[p] \in Int /\ upgrade \in Int
      BY AddrAssumption DEF TypeInv, TypeOK, FlashTypeOK, AppTypeOK
    <3> QED
      BY <3>1, <3>2
  <2> QED
    BY <1>2, <2>1 DEF NewHandle, ByteInv, Pending
<1>3. CASE SourceSetup
  BY <1>types, <1>3, ByteKeep DEF SourceSetup, SetupOTA, SourceFail, Pending
<1>4. CASE SourceTake
  BY <1>types, <1>4, ByteKeep DEF SourceTake, Pending
<1>5. CASE SourceCheck
  <2>1. /\ spc = "check" /\ spc' \in {"fill", "over"} /\ (error' <=> error)
        /\ UNCHANGED <<method, source, upgrade, sourcesem, wpc, tune_buf, erased,
                       written, faithful, ignored>>
    BY <1>types, <1>5 DEF SourceCheck
  <2>2. ~WriterHolds /\ (~error => ~Pending')
    BY <2>1 DEF HandOffInv, Sound, Token, Pending, SourceHolds, WriterHolds
  <2> QED
    BY <2>1, <2>2 DEF ByteInv, WriterHolds, Begun, Spoiled
<1>6. CASE SourceFill
  <2>1. /\ spc = "fill" /\ elem \in Parts /\ tune_elem = elem /\ ~error
        /\ UNCHANGED <<method, source, upgrade, tune_elem, wpc, erased, written,
                       faithful>>
    BY <1>6
    DEF SourceFill, TypeInv, ElemInRange, ReadInv, QuietInv
  <2>2. ~WriterHolds /\ ~Pending
    BY <2>1 DEF HandOffInv, Sound, Token, Pending, SourceHolds, WriterHolds
  <2>3. Burnt(elem) = elemread
    BY <2>1, <2>2 DEF BurnInv, LinkInv
  <2>4. \A p \in Parts : Begun(p)' = Begun(p) /\ Burnt(p)' = Burnt(p)
    BY <2>1 DEF Begun, Burnt
  <2>5. method = "PIECE_BY_PIECE" =>
          \A p \in Parts : Begun(p)' => faithful'[p] \/ Spoiled(p)'
    BY <1>types, <2>1, <2>4, SpoiledStays DEF ByteInv
  <2>6. CASE SourceFail
    BY <2>1, <2>2, <2>5, <2>6 DEF SourceFail, ByteInv, WriterHolds
  <2>e. PICK e \in Parts : e = elem /\ e = tune_elem /\ e = tune_elem'
    BY <2>1
  <2>7. CASE Ignore("fread", elem)
    <3>1. Ignore("fread", e)
      BY <2>7, <2>e
    <3>2. Spoiled(e)'
      BY <2>1, <3>1, SpoiledNow
    <3> QED
      BY <2>e, <2>1, <2>5, <3>2 DEF ByteInv
  <2>8. CASE Behind(elem)
    <3>1. e \in Nat /\ Behind(e)
      BY <1>types, <2>8, <2>e DEF SourceTypeOK
    <3>2. Behind(e)'
      BY <1>types, <2>1, <3>1, BehindStays
    <3>3. Spoiled(e)'
      <4>1. PICK f \in ignored' : /\ f.by = upgrade' /\ f.part <= e
                                  /\ f.call = "fread" /\ source' = "OTA"
        BY <3>2 DEF Behind
      <4>2. f.part \in Nat
        <5>1. TypeInv'
          BY NextTypeInv
        <5>2. FlashTypeOK'
          BY <5>1 DEF TypeInv, TypeOK
        <5>3. f.part \in Parts
          BY <5>2 DEF FlashTypeOK
        <5> QED
          BY <5>3, PackageAssumption DEF Parts
      <4>3. f.part = e \/ f.part < e
        BY <3>1, <4>1, <4>2
      <4> QED
        BY <4>1, <4>3 DEF Spoiled
    <3> QED
      BY <2>e, <2>1, <2>5, <3>3 DEF ByteInv
  <2>9. CASE ~SourceFail /\ ~Ignore("fread", elem) /\ ~Behind(elem)
    <3>1. HeaderLen + totalread = img_offset[elem] + elemread
      BY <2>1 DEF PlaceInv
    <3>2. source # "USB" => fpos = img_offset[elem] + elemread
      BY <2>1, <2>9, <3>1 DEF StreamInv
    <3>3. elemread \in Nat /\ img_offset[elem] \in Nat
      BY <1>types, <2>1, PackageAssumption DEF SourceTypeOK
    <3>4. method = "PIECE_BY_PIECE" => tune_buf' = img_offset[elem] + elemread
      BY <1>6, <2>9, <3>2, <3>3 DEF SourceFill, FillUSB, FillNET, FillOTA
    <3> QED
      BY <2>1, <2>3, <2>4, <2>5, <3>4 DEF ByteInv
  <2> QED
    BY <2>6, <2>7, <2>8, <2>9
<1>7. CASE SourcePost
  BY <1>types, <1>7, ByteKeep DEF SourcePost, Pending
<1>8. CASE WriterInit
  BY <1>types, <1>8, ByteKeep DEF WriterInit, Pending
<1>9. CASE WriterTake
  BY <1>types, <1>9, ByteKeep DEF WriterTake, Pending
<1>10. CASE WriterCheck \/ WriterOpen
  <2>1. /\ wpc = "open" \/ (wpc = "check" /\ (error => error' /\ wpc' = "close"))
        /\ UNCHANGED <<method, source, upgrade, tune_elem, tune_buf, erased,
                       written, faithful>>
    <3>1. CASE WriterCheck
      BY <3>1 DEF WriterCheck
    <3>2. CASE WriterOpen
      <4>1. wpc = "open"
        BY <3>2 DEF WriterOpen
      <4>2. UNCHANGED <<method, source, upgrade, tune_elem, tune_buf, erased,
                        written, faithful>>
        BY <3>2 DEF WriterOpen
      <4> QED
        BY <4>1, <4>2
    <3> QED
      BY <1>10, <3>1, <3>2
  <2>2. \A p : Begun(p)' = Begun(p) /\ Burnt(p)' = Burnt(p)
    BY <2>1 DEF Begun, Burnt
  <2>3. wpc = "check" => Pending
    BY DEF Pending
  <2> QED
    BY <1>types, <2>1, <2>2, <2>3, SpoiledStays DEF ByteInv
<1>12. CASE WriterErase
  <2>1. /\ wpc = "erase" /\ mtd = tune_elem /\ tune_elem \in Parts
        /\ UNCHANGED <<method, source, upgrade, tune_elem, tune_buf>>
    BY <1>12, InHand DEF WriterErase, BurnInv, HandInv
  <2>2. /\ \A p \in Parts : Burnt(p)' = Burnt(p)
        /\ \A p \in Parts : p # tune_elem => Begun(p)' = Begun(p)
    BY <1>12, EraseKeeps DEF Begun
  <2>3. \A p \in Parts : p # tune_elem => faithful'[p] = faithful[p]
    BY <1>types, <1>12, <2>1 DEF WriterErase
  <2>4. faithful'[tune_elem] \/ Spoiled(tune_elem)'
    <3>1. CASE Ignore("erase", mtd)
      BY <2>1, <3>1, SpoiledNow
    <3>2. CASE ~Ignore("erase", mtd)
      BY <1>types, <1>12, <2>1, <3>2 DEF WriterErase
    <3> QED
      BY <3>1, <3>2
  <2>5. \A p \in Parts : Spoiled(p) => Spoiled(p)'
    BY <1>types, <2>1, SpoiledStays
  <2> QED
    BY <2>1, <2>2, <2>3, <2>4, <2>5 DEF ByteInv
<1>13. CASE WriterWrite
  <2>1. /\ wpc = "write" /\ wpc' = "report" /\ mtd = tune_elem /\ Begun(tune_elem)
        /\ UNCHANGED <<method, source, upgrade, error, sourcesem, spc, tune_elem,
                       erased>>
    BY <1>13 DEF WriterWrite, BurnInv, HandInv
  <2>2. tune_elem \in Parts /\ tune_elem # NULL
    BY <2>1, InHand
  <2>3. buf_live
    BY <2>1 DEF AliveInv
  <2>4. ~error => ~Pending'
    BY <2>1 DEF Sound, Token, Pending, SourceHolds, WriterHolds
  <2>5. \A p \in Parts : (Spoiled(p) => Spoiled(p)') /\ Begun(p)' = Begun(p)
    BY <1>types, <2>1, SpoiledStays DEF Begun
  <2>6. \A p \in Parts : p # tune_elem => faithful'[p] = faithful[p]
    BY <1>types, <1>13, <2>1, <2>2 DEF WriterWrite, ChunkLands
  <2>7. method = "PIECE_BY_PIECE" => faithful'[tune_elem] \/ Spoiled(tune_elem)'
    <3>1. CASE Ignore("write", mtd)
      BY <2>1, <3>1, SpoiledNow
    <3>2. CASE ~Ignore("write", mtd)
      <4>1. faithful' = [faithful EXCEPT ![mtd] =
                           @ /\ buf_live /\ tune_buf = img_offset[mtd] + written[mtd]]
        BY <1>13, <2>1, <2>2, <3>2 DEF WriterWrite, ChunkLands
      <4>2. Burnt(tune_elem) = written[tune_elem]
        BY <2>1 DEF Burnt
      <4> QED
        BY <1>types, <2>1, <2>2, <2>3, <2>5, <4>1, <4>2 DEF ByteInv
    <3> QED
      BY <3>1, <3>2
  <2>8. method = "PIECE_BY_PIECE" =>
          \A p \in Parts : Begun(p)' => faithful'[p] \/ Spoiled(p)'
    <3> SUFFICES ASSUME method = "PIECE_BY_PIECE", NEW p \in Parts, Begun(p)'
                 PROVE  faithful'[p] \/ Spoiled(p)'
      OBVIOUS
    <3>1. CASE p = tune_elem
      BY <2>1, <2>7, <3>1
    <3>2. CASE p # tune_elem
      BY <2>5, <2>6, <3>2 DEF ByteInv
    <3> QED
      BY <3>1, <3>2
  <2> QED
    BY <2>1, <2>4, <2>8 DEF ByteInv
<1>14. CASE WriterReport
  BY <1>types, <1>14, ByteKeep DEF WriterReport, Pending
<1>15. CASE WriterPost
  BY <1>types, <1>15, ByteKeep DEF WriterPost, Pending
<1>16. CASE WriterClose
  BY <1>types, <1>16, ByteKeep DEF WriterClose, Pending
<1>17. CASE UserNext \/ StrayTouch \/ Download
  <2>1. CASE AppPrestop \/ AppAbort \/ StrayTouch \/ Download
    <3>1. /\ UNCHANGED <<method, source, upgrade, sourcesem, spc, wpc, tune_elem,
                         tune_buf, erased, written, faithful>>
          /\ error => error'
      BY <1>types, <2>1
      DEF AppPrestop, AppAbort, Prestop, PrestopUnchanged, StrayTouch, Download
    <3> QED
      BY <1>types, <3>1, ByteKeep DEF Pending
  <2> QED
    BY <1>2, <1>17, <2>1 DEF UserNext
<1>18. CASE AppNext \/ UNCHANGED vars
  <2>1. CASE ~AppStart
    <3>1. /\ UNCHANGED <<method, source, upgrade, sourcesem, spc, wpc, tune_elem,
                         tune_buf, erased, written, faithful>>
          /\ error => error'
      BY <1>types, <1>18, <2>1
      DEF AppNext, vars, StatusVars, Prestop, PrestopUnchanged, Teardown,
          AppPrestart, AppLoaded, WaitStatus, WaitWakeup, WaitReturn, OnError,
          AppFinish, AppStop, AppAbortTeardown
    <3> QED
      BY <1>types, <3>1, ByteKeep DEF Pending
  <2> QED
    BY <1>1, <2>1
<1> QED
  BY <1>3, <1>4, <1>5, <1>6, <1>7, <1>8, <1>9, <1>10, <1>12, <1>13,
     <1>14, <1>15, <1>16, <1>17, <1>18 DEF Next, SourceNext, WriterNext

\* Every byte of every image is burned and the writer is leaving its loop.
AllWritten ==
  /\ \A p \in Parts : Begun(p) /\ written[p] = img_size[p]
  /\ percent = 100 /\ wpc \in {"post", "close", "over"}

\* 100 percent, as the writer reports it or as the application has read it.
SuccessInv ==
  method = "PIECE_BY_PIECE" =>
    /\ dram = "none" /\ app \notin {"load", "ready"}
    /\ percent >= 100 \/ seen_percent >= 100 => AllWritten

LEMMA InitSuccess == Init => SuccessInv
  BY DEF Init, SuccessInv

LEMMA NextSuccess ==
  ASSUME Packed, HonestPercent, TypeInv, Sound, ReadInv, TotalInv, PlaceInv,
         QuietInv, BurnInv, SuccessInv, [Next]_vars
  PROVE  SuccessInv'
<1>types. /\ NotStarted /\ percent \in Nat /\ seen_percent \in Nat
          /\ PartNum \in Nat /\ Total \in Nat
  BY PackageAssumption DEF TypeInv, TypeOK, AppTypeOK, DescTypeOK
<1> USE DEF SuccessInv
<1>1. CASE AppPrestart
  BY <1>1 DEF AppPrestart
<1>2. CASE AppLoaded
  BY <1>2 DEF AppLoaded
<1>3. CASE AppStart
  <2>1. /\ app \in {"idle", "ready"} /\ app' = "poll"
        /\ UNCHANGED <<method, dram, percent, seen_percent>>
    BY <1>3 DEF AppStart
  <2>2. wpc = "off"
    BY <1>types, <2>1 DEF NotStarted
  <2> QED
    BY <2>1, <2>2 DEF AllWritten, Begun
<1>4. CASE NewHandle
  BY <1>4 DEF NewHandle
<1>5. CASE WaitWakeup
  BY <1>5 DEF WaitWakeup, StatusVars, AllWritten, Begun
<1>6. CASE WaitStatus \/ WaitReturn
  <2>1. UNCHANGED <<method, dram, percent, seen_percent, upgrade, erased, written, wpc>>
    BY <1>6 DEF WaitStatus, WaitReturn, StatusVars
  <2>2. app' \notin {"load", "ready"}
    BY <1>6 DEF WaitStatus, WaitReturn, OnError
  <2> QED
    BY <2>1, <2>2 DEF AllWritten, Begun
<1>7. CASE AppFinish \/ AppPrestop \/ AppAbort
  <2>1. /\ UNCHANGED <<method, percent, seen_percent, upgrade, erased, written, wpc>>
        /\ app' \notin {"load", "ready"}
        /\ method = "PIECE_BY_PIECE" => dram' = dram
    BY <1>7 DEF AppFinish, AppPrestop, AppAbort, Prestop, PrestopUnchanged
  <2> QED
    BY <2>1 DEF AllWritten, Begun
<1>8. CASE AppStop \/ AppAbortTeardown
  BY <1>8 DEF AppStop, AppAbortTeardown, Teardown, AllWritten, Begun
<1>9. CASE Download
  BY <1>9 DEF Download
<1>10. CASE SourceNext
  <2>1. UNCHANGED <<app, method, dram, percent, seen_percent, upgrade, erased, written, wpc>>
    BY <1>10
    DEF SourceNext, SourceSetup, SourceTake, SourceCheck, SourceFill, SourcePost
  <2> QED
    BY <2>1 DEF AllWritten, Begun
<1>11. CASE WriterReport
  <2>1. /\ wpc = "report" /\ wpc' = "post" /\ percent' = Percent(totalwrite)
        /\ UNCHANGED <<app, method, dram, seen_percent, upgrade, erased, written>>
    BY <1>11 DEF WriterReport
  <2>2. ~error /\ ~Pending
    BY <2>1 DEF QuietInv, Sound, Token, Pending, SourceHolds, WriterHolds
  <2>3. totalread = totalwrite
    BY <2>2 DEF TotalInv
  <2>4. ASSUME percent' >= 100 PROVE AllWritten'
    <3>1. elem = PartNum + 1
      BY <2>1, <2>3, <2>4, PercentHonest
    <3>2. totalread = Total /\ Before(PartNum + 1)
      BY <2>2, <3>1 DEF PlaceInv, BurnInv, LinkInv
    <3>3. \A p \in Parts : Begun(p) /\ written[p] = img_size[p]
      BY <1>types, <3>2 DEF Before
    <3>4. percent' = 100
      BY <1>types, <2>1, <2>3, <3>2 DEF Percent
    <3> QED
      BY <2>1, <3>3, <3>4 DEF AllWritten, Begun
  <2>5. method = "PIECE_BY_PIECE" => ~(seen_percent >= 100)
    BY <2>1 DEF AllWritten, Begun
  <2> QED
    BY <2>1, <2>4, <2>5
<1>12. CASE WriterPost
  <2>1. /\ wpc = "post"
        /\ wpc' = IF percent = 100 \/ error THEN "close" ELSE "wait"
        /\ UNCHANGED <<app, method, dram, percent, seen_percent, upgrade, erased, written>>
    BY <1>12 DEF WriterPost
  <2> QED
    BY <2>1 DEF AllWritten, Begun
<1>13. CASE WriterClose
  BY <1>13 DEF WriterClose, AllWritten, Begun
<1>14. CASE /\ WriterInit \/ WriterTake \/ WriterCheck \/ WriterOpen
               \/ WriterErase \/ WriterWrite
  <2>1. /\ wpc \notin {"post", "close", "over"}
        /\ UNCHANGED <<app, method, dram, seen_percent>>
        /\ percent' = percent \/ percent' = 0
    BY <1>14
    DEF WriterInit, WriterTake, WriterCheck, WriterOpen, WriterErase, WriterWrite
  <2> QED
    BY <2>1 DEF AllWritten, Begun
<1>15. CASE StrayTouch
  BY <1>15 DEF StrayTouch, AllWritten, Begun
<1>16. CASE UNCHANGED vars
  BY <1>16 DEF vars, AllWritten, Begun
<1> QED
  BY <1>1, <1>2, <1>3, <1>4, <1>5, <1>6, <1>7, <1>8, <1>9, <1>10, <1>11,
     <1>12, <1>13, <1>14, <1>15, <1>16 DEF Next, AppNext, UserNext, WriterNext

\* An application that is told 100 percent and no error by an upgrade it did
\* not abort has every image of the package, byte for byte, in its partition,
\* except those that a failure nobody looked at has spoiled: for every number and
\* size of images, buffer size, number and order of failures and of retries.
THEOREM SuccessIsBurned ==
  ~AppMayAbort /\ FreshElements /\ Packed /\ HonestPercent
  => (Spec => []SuccessMeansBurned)
<1> SUFFICES ASSUME ~AppMayAbort, FreshElements, Packed, HonestPercent
             PROVE  Spec => []SuccessMeansBurned
  OBVIOUS
<1> DEFINE Inv == /\ TypeInv /\ HandOffInv /\ AliveInv /\ Sound /\ ReadInv
                  /\ TotalInv /\ PlaceInv /\ QuietInv /\ BurnInv /\ StreamInv
                  /\ ByteInv /\ SuccessInv
<1>1. Init => Inv
  BY InitTypeInv, InitHandOff, InitAlive, InitSound, InitRead, InitTotal,
     InitPlace, InitQuiet, InitBurn, InitStream, InitByte, InitSuccess
<1>2. Inv /\ [Next]_vars => Inv'
  BY NextTypeInv, NextHandOff, NextAlive, NextSound, NextReadInv, NextTotal,
     NextPlace, NextQuiet, NextBurn, NextStream, NextByte, NextSuccess
<1>3. Inv => SuccessMeansBurned
  BY DEF SuccessMeansBurned, Burned, ByteInv, SuccessInv, AllWritten
<1> QED
  BY <1>1, <1>2, <1>3, PTL DEF Spec
-----------------------------------------------------------------------------
(* What the end of an upgrade rests on.  The pipeline has only so much work *)
(* to do, and as long as the writer is not over somebody can do it; that   *)
(* the threads do get scheduled, hence UpgradeEnds, is TLC's.              *)

\* The last image ends where the package does and none ends behind it.  The
\* second half follows from Packed by induction on the images.
WithinPackage ==
  Packed /\ \A p \in Parts : img_offset[p] + img_size[p] <= HeaderLen + Total

SourceWork == [off |-> 0, setup |-> 12, wait |-> 11, check |-> 13, fill |-> 12,
               post |-> 22, over |-> 0, stuck |-> 0]
WriterWork == [off |-> 0, init |-> 3, wait |-> 2, check |-> 11, open |-> 10,
               erase |-> 9, write |-> 8, report |-> 7, post |-> 6, close |-> 1,
               over |-> 0]

\* The bytes to read, the posts to take and the way to the end of each loop.
Work == 12 * (Total - totalread) + 10 * sourcesem + 3 * writersem
          + SourceWork[spc] + WriterWork[wpc]

\* Within one upgrade, once it is started, every step of either thread leaves
\* less to do and no other step leaves more.
WorkShrinks ==
  /\ Work \in Nat
  /\ SourceNext \/ WriterNext => Work' < Work
  /\ Work' <= Work \/ AppStart \/ NewHandle

LEMMA WorkType ==
  ASSUME WithinPackage, TypeInv, ReadInv, PlaceInv
  PROVE  /\ totalread <= Total /\ totalread \in Nat /\ Total \in Nat
         /\ SourceWork[spc] \in Nat /\ WriterWork[wpc] \in Nat
         /\ sourcesem \in Nat /\ writersem \in Nat
<1>1. /\ totalread \in Nat /\ Total \in Nat /\ HeaderLen \in Nat /\ PartNum \in Nat
      /\ elem \in 1..(PartNum + 1) /\ elemread \in Nat
      /\ sourcesem \in Nat /\ writersem \in Nat
  BY PackageAssumption DEF TypeInv, TypeOK, SourceTypeOK, TuneTypeOK
<1>2. CASE elem \in Parts
  <2>1. /\ img_size[elem] \in Nat /\ img_offset[elem] \in Nat
        /\ img_offset[elem] + img_size[elem] <= HeaderLen + Total
    BY <1>2, PackageAssumption DEF WithinPackage
  <2>2. HeaderLen + totalread = img_offset[elem] + elemread /\ elemread < img_size[elem]
    BY <1>2 DEF PlaceInv, ReadInv
  <2>3. totalread <= Total
    BY <1>1, <2>1, <2>2
  <2> QED
    BY <1>1, <2>3 DEF TypeInv, TypeOK, SourceTypeOK, WriterTypeOK, SourceWork, WriterWork
<1>3. CASE elem = PartNum + 1
  BY <1>1, <1>3 DEF PlaceInv, TypeInv, TypeOK, SourceTypeOK, WriterTypeOK,
     SourceWork, WriterWork
<1> QED
  BY <1>1, <1>2, <1>3

\* The source: a chunk costs less than its bytes are worth.
LEMMA SourceWorks ==
  ASSUME WithinPackage, TypeInv, ReadInv, PlaceInv, SourceNext
  PROVE  Work' < Work
<1>0. /\ totalread \in Nat /\ Total \in Nat /\ WriterWork[wpc] \in Nat
      /\ sourcesem \in Nat /\ writersem \in Nat
  BY WorkType
<1>1. CASE SourceSetup
  <2>1. /\ spc = "setup" /\ UNCHANGED <<totalread, writersem, wpc>>
        /\ \/ spc' \in {"wait", "stuck"} /\ UNCHANGED sourcesem
           \/ spc' = "over" /\ sourcesem' = sourcesem + 1
    BY <1>1 DEF SourceSetup, SetupOTA, SourceFail
  <2> QED
    BY <1>0, <2>1 DEF Work, SourceWork
<1>2. CASE SourceTake
  BY <1>0, <1>2 DEF SourceTake, Work, SourceWork
<1>3. CASE SourceCheck
  <2>1. /\ spc = "check" /\ spc' \in {"over", "fill"}
        /\ UNCHANGED <<totalread, writersem, sourcesem, wpc>>
    BY <1>3 DEF SourceCheck
  <2> QED
    BY <1>0, <2>1 DEF Work, SourceWork
<1>4. CASE SourceFill
  <2>1. perread \in Nat /\ perread >= 1
    BY BufAssumption DEF ReadInv
  <2>2. /\ spc = "fill" /\ UNCHANGED <<writersem, wpc>>
        /\ \/ spc' = "post" /\ UNCHANGED sourcesem /\ totalread' = totalread + perread
           \/ spc' = "over" /\ sourcesem' = sourcesem + 1 /\ UNCHANGED totalread
    BY <1>4 DEF SourceFill, FillUSB, FillNET, FillOTA, SourceFail, SourceAdvance
  <2> QED
    BY <1>0, <2>1, <2>2 DEF Work, SourceWork
<1>5. CASE SourcePost
  <2>1. /\ spc = "post" /\ spc' \in {"wait", "over"} /\ sourcesem' = sourcesem + 1
        /\ UNCHANGED <<totalread, writersem, wpc>>
    BY <1>5 DEF SourcePost
  <2> QED
    BY <1>0, <2>1 DEF Work, SourceWork
<1> QED
  BY <1>1, <1>2, <1>3, <1>4, <1>5 DEF SourceNext

LEMMA WriterWorks ==
  ASSUME WithinPackage, TypeInv, ReadInv, PlaceInv, WriterNext
  PROVE  Work' < Work
<1>0. /\ totalread \in Nat /\ Total \in Nat /\ SourceWork[spc] \in Nat
      /\ sourcesem \in Nat /\ writersem \in Nat
  BY WorkType
<1>1. UNCHANGED <<spc, totalread>>
  BY DEF WriterNext, WriterInit, WriterTake, WriterCheck, WriterOpen, WriterErase,
     WriterWrite, WriterReport, WriterPost, WriterClose
<1>2. \/ wpc = "init" /\ wpc' = "wait" /\ UNCHANGED <<sourcesem, writersem>>
      \/ wpc = "wait" /\ wpc' = "check" /\ sourcesem' = sourcesem - 1 /\ UNCHANGED writersem
      \/ wpc = "check" /\ wpc' \in {"close", "open", "write"} /\ UNCHANGED <<sourcesem, writersem>>
      \/ wpc = "open" /\ wpc' \in {"close", "erase"} /\ UNCHANGED <<sourcesem, writersem>>
      \/ wpc = "erase" /\ wpc' = "write" /\ UNCHANGED <<sourcesem, writersem>>
      \/ wpc = "write" /\ wpc' = "report" /\ UNCHANGED <<sourcesem, writersem>>
      \/ wpc = "report" /\ wpc' = "post" /\ UNCHANGED <<sourcesem, writersem>>
      \/ /\ wpc = "post" /\ wpc' \in {"close", "wait"}
         /\ writersem' = writersem + 1 /\ UNCHANGED sourcesem
      \/ wpc = "close" /\ wpc' = "over" /\ UNCHANGED <<sourcesem, writersem>>
  BY DEF WriterNext, WriterInit, WriterTake, WriterCheck, WriterOpen, WriterErase,
     WriterWrite, WriterReport, WriterPost, WriterClose
<1> QED
  BY <1>0, <1>1, <1>2 DEF Work, WriterWork

LEMMA OthersWork ==
  ASSUME WithinPackage, TypeInv, ReadInv, PlaceInv, [Next]_vars
  PROVE  WorkShrinks
<1>0. Work \in Nat
  BY WorkType DEF Work
<1>1. CASE SourceNext \/ WriterNext
  <2>1. Work' < Work
    BY <1>1, SourceWorks, WriterWorks
  <2>2. Work' \in Int
    <3>1. TypeInv' /\ ReadInv' /\ PlaceInv'
      BY NextTypeInv, NextReadInv, NextPlace DEF WithinPackage
    <3>2. /\ totalread' \in Int /\ sourcesem' \in Int /\ writersem' \in Int
          /\ SourceWork[spc'] \in Int /\ WriterWork[wpc'] \in Int
      BY <3>1 DEF TypeInv, TypeOK, SourceTypeOK, WriterTypeOK, TuneTypeOK,
         SourceWork, WriterWork
    <3>3. Work' = 12 * (Total - totalread') + 10 * sourcesem' + 3 * writersem'
                    + SourceWork[spc'] + WriterWork[wpc']
      BY DEF Work, SourceWork, WriterWork
    <3>4. \A a, b, c, d, e \in Int : 12 * (Total - a) + 10 * b + 3 * c + d + e \in Int
      BY PackageAssumption
    <3> QED
      BY <3>2, <3>3, <3>4
  <2> QED
    BY <1>0, <2>1, <2>2 DEF WorkShrinks
<1>2. CASE UNCHANGED <<totalread, sourcesem, writersem, spc, wpc>> /\ ~SourceNext /\ ~WriterNext
  BY <1>0, <1>2 DEF WorkShrinks, Work
<1>3. CASE AppStart \/ NewHandle
  BY <1>0, <1>1, <1>3 DEF WorkShrinks
<1> QED
  BY <1>1, <1>2, <1>3 DEF Next, AppNext, UserNext, vars, StatusVars, Prestop,
     PrestopUnchanged, Teardown, AppPrestart, AppLoaded, WaitStatus, WaitWakeup,
     WaitReturn, OnError, AppFinish, AppStop, AppAbortTeardown, AppPrestop, AppAbort,
     StrayTouch, Download

\* The two threads of an upgrade do at most so many steps, whatever fails and
\* whoever aborts: there is no loop between tune.c's semaphores that burns
\* nothing.
THEOREM PipelineFinite == WithinPackage => (Spec => [][WorkShrinks]_vars)
<1> SUFFICES ASSUME WithinPackage PROVE Spec => [][WorkShrinks]_vars
  OBVIOUS
<1> DEFINE Inv == TypeInv /\ ReadInv /\ PlaceInv
<1>1. Init => Inv
  BY InitTypeInv, InitRead, InitPlace DEF WithinPackage
<1>2. Inv /\ [Next]_vars => Inv'
  BY NextTypeInv, NextReadInv, NextPlace DEF WithinPackage
<1>3. Inv /\ [Next]_vars => [WorkShrinks]_vars
  BY OthersWork
<1> QED
  BY <1>1, <1>2, <1>3, PTL DEF Spec

\* Somebody will give a writer that waits a chunk or an error: it is posted, or
\* the source is on its way to post it, or can take the buffer.
WriterFed ==
  \/ sourcesem > 0 \/ spc \in {"setup", "check", "fill", "post"}
  \/ spc = "wait" /\ writersem > 0

\* Nobody is left waiting: a writer on its semaphore is fed, unless nobody was
\* there to feed it from the start (f_start or OTA's first piece); once it has left its
\* loop the application is told so, by an error or 100 percent; and alislupg_stop
\* waits for an oversem that is posted or for a writer that is there to post it.
NeverStuck ==
  /\ wpc = "wait" => WriterFed \/ Unfed
  /\ wpc \in {"close", "over"} => error \/ percent >= 100
  /\ app = "stop" => oversem > 0 \/ wpc \notin {"off", "over"}

\* The source leaves its loop without a post only after the writer's error.
FedInv ==
  /\ wpc \in {"init", "wait"} => WriterFed \/ spc \in {"off", "stuck"}
  /\ spc = "setup" => writersem > 0
  /\ spc \in {"setup", "check", "fill", "post"} \/ app = "ready" => ~error
  /\ spc = "wait" /\ writersem > 0 => ~error
  /\ spc = "over" => error \/ totalread >= Total
  /\ wpc = "post" => percent = Percent(totalwrite)
  /\ wpc = "off" => app \in {"idle", "load", "ready", "quit", "undefined"}
  /\ wpc \in {"close", "over"} => error \/ percent >= 100
  /\ wpc = "over" /\ app \notin {"end", "undefined"} => oversem > 0

LEMMA InitFed == Init => FedInv
  BY DEF Init, FedInv

LEMMA NextFed ==
  ASSUME ~AppMayAbort, TypeInv, HandOffInv, AliveInv, Sound, ReadInv, TotalInv,
         PlaceInv, QuietInv, FedInv, [Next]_vars
  PROVE  FedInv'
<1>types. /\ writersem \in Nat /\ sourcesem \in Nat /\ oversem \in Nat
          /\ totalread \in Nat /\ totalwrite \in Nat /\ Total \in Nat /\ PartNum \in Nat
          /\ NotStarted /\ SourceTypeOK /\ WriterTypeOK /\ AppTypeOK
  BY PackageAssumption DEF TypeInv, TypeOK, TuneTypeOK, SourceTypeOK, WriterTypeOK,
     DescTypeOK
<1> USE DEF FedInv, WriterFed
<1>1. CASE AppPrestart
  BY <1>types, <1>1 DEF AppPrestart
<1>2. CASE AppLoaded
  BY <1>types, <1>2 DEF AppLoaded, NotStarted
<1>3. CASE AppStart
  <2>1. /\ app \in {"idle", "ready"} /\ app' = "poll" /\ writersem' = 1 /\ wpc' = "init"
        /\ spc' \in {"setup", "off"} /\ UNCHANGED <<error, percent, oversem, totalread, totalwrite>>
    BY <1>3 DEF AppStart
  <2>2. ~error
    BY <2>1 DEF QuietInv
  <2> QED
    BY <2>1, <2>2
<1>4. CASE WaitStatus \/ WaitWakeup \/ WaitReturn
  BY <1>types, <1>4 DEF WaitStatus, WaitWakeup, WaitReturn, OnError, StatusVars
<1>5. CASE AppFinish
  <2>1. error' <=> error
    BY <1>5 DEF AppFinish, Prestop, QuietInv
  <2>2. /\ app = "prestop" /\ app' = "stop"
        /\ UNCHANGED <<percent, oversem, writersem, sourcesem, spc, wpc, totalread, totalwrite>>
    BY <1>5 DEF AppFinish, PrestopUnchanged
  <2> QED
    BY <1>types, <2>1, <2>2
<1>6. CASE AppStop
  BY <1>types, <1>6 DEF AppStop, Teardown
<1>7. CASE AppAbortTeardown \/ AppPrestop \/ AppAbort
  BY <1>7 DEF AppAbortTeardown, AppPrestop, AppAbort, AliveInv
<1>8. CASE NewHandle
  BY <1>types, <1>8 DEF NewHandle
<1>9. CASE Download
  BY <1>types, <1>9, LoadingApp DEF Download, QuietInv, NotStarted
<1>10. CASE SourceSetup
  BY <1>types, <1>10 DEF SourceSetup, SetupOTA, SourceFail, NotStarted, Sound
<1>11. CASE SourceTake
  BY <1>types, <1>11 DEF SourceTake
<1>12. CASE SourceCheck
  BY <1>types, <1>12 DEF SourceCheck, NotStarted
<1>13. CASE SourceFill
  BY <1>types, <1>13 DEF SourceFill, FillUSB, FillNET, FillOTA, SourceAdvance,
     SourceFail, NotStarted
<1>14. CASE SourcePost
  <2>1. /\ spc = "post" /\ sourcesem' = sourcesem + 1
        /\ spc' = IF totalread < Total /\ elem <= PartNum THEN "wait" ELSE "over"
        /\ UNCHANGED <<app, error, percent, oversem, writersem, wpc, totalread, totalwrite>>
    BY <1>14 DEF SourcePost
  <2>2. spc' = "over" => totalread >= Total
    BY <1>types, <2>1 DEF PlaceInv, SourceTypeOK
  <2> QED
    BY <1>types, <2>1, <2>2
<1>15. CASE WriterInit \/ WriterTake
  BY <1>types, <1>15 DEF WriterInit, WriterTake, Sound
<1>16. CASE WriterCheck
  BY <1>types, <1>16 DEF WriterCheck
<1>17. CASE WriterOpen
  BY <1>types, <1>17 DEF WriterOpen, HandOffInv, Token, SourceHolds, WriterHolds,
     Sound, NotStarted
<1>18. CASE WriterErase \/ WriterWrite \/ WriterReport
  BY <1>types, <1>18 DEF WriterErase, WriterWrite, WriterReport
<1>19. CASE WriterPost
  <2>1. /\ wpc = "post" /\ writersem' = writersem + 1
        /\ wpc' = IF percent = 100 \/ error THEN "close" ELSE "wait"
        /\ UNCHANGED <<app, error, percent, oversem, sourcesem, spc, totalread, totalwrite>>
    BY <1>19 DEF WriterPost
  <2>2. ~error => Token /\ WriterHolds /\ ~SourceHolds /\ sourcesem = 0
    BY <2>1 DEF Sound, Token, WriterHolds
  <2>3. ~error => totalread = totalwrite
    BY <2>1, <2>2 DEF TotalInv, Pending, SourceHolds
  <2>4. wpc' = "wait" => spc # "over"
    BY <1>types, <2>1, <2>3 DEF Percent
  <2>5. spc \notin {"off", "setup", "stuck"}
    BY <2>1 DEF Sound
  <2>6. wpc' = "wait" => spc \in {"wait", "check", "fill", "post"}
    BY <1>types, <2>4, <2>5 DEF SourceTypeOK
  <2>7. ~error
    BY <2>1 DEF QuietInv
  <2> QED
    BY <1>types, <2>1, <2>6, <2>7
<1>20. CASE WriterClose
  BY <1>types, <1>20 DEF WriterClose
<1>21. CASE StrayTouch
  BY <1>types, <1>21 DEF StrayTouch
<1>22. CASE UNCHANGED vars
  BY <1>22 DEF vars
<1> QED
  BY <1>1, <1>2, <1>3, <1>4, <1>5, <1>6, <1>7, <1>8, <1>9, <1>10, <1>11, <1>12,
     <1>13, <1>14, <1>15, <1>16, <1>17, <1>18, <1>19, <1>20, <1>21, <1>22
  DEF Next, AppNext, UserNext, SourceNext, WriterNext

\* The semaphores of tune.c never leave everyone waiting, whatever fails, as long
\* as nobody aborts and the images fill the package: a writer that waits in vain
\* was without a source from the start (Unfed), no failure on the way does it.
\* (upgrade_obj_loop may stay on writersem when the writer has failed; nobody
\* waits for it.)
THEOREM UpgradeNeverStuck ==
  ~AppMayAbort /\ Packed => (Spec => []NeverStuck)
<1> SUFFICES ASSUME ~AppMayAbort, Packed
             PROVE  Spec => []NeverStuck
  OBVIOUS
<1> DEFINE Inv == /\ TypeInv /\ HandOffInv /\ AliveInv /\ Sound /\ ReadInv
                  /\ TotalInv /\ PlaceInv /\ QuietInv /\ FedInv
<1>1. Init => Inv
  BY InitTypeInv, InitHandOff, InitAlive, InitSound, InitRead, InitTotal,
     InitPlace, InitQuiet, InitFed
<1>2. Inv /\ [Next]_vars => Inv'
  BY NextTypeInv, NextHandOff, NextAlive, NextSound, NextReadInv, NextTotal,
     NextPlace, NextQuiet, NextFed
<1>3. Inv => NeverStuck
  BY DEF NeverStuck, FedInv, Unfed
<1> QED
  BY <1>1, <1>2, <1>3, PTL DEF Spec
=============================================================================
