------------------------------ MODULE UpgTune ------------------------------
(***************************************************************************)
(* The burning pipeline of libalislupgrade_v4: the application calling     *)
(* alislupg_*, the source thread of a plugin (upgrade_obj_loop of USB, NET *)
(* or OTA) and the writer thread (upgrade_writter_loop) hand one buffer,   *)
(* tune->buf, to each other with the semaphores writersem and sourcesem.   *)
(*                                                                         *)
(* Data is abstracted to positions: the buffer holds the package bytes     *)
(* that start at position tune_buf, a partition holds a count of bytes and *)
(* whether each of them is the byte of its own image.  Locks, the sem spin *)
(* loops and the signals of msg_cond are not kept: alislupg_wait_status    *)
(* returns on a signal or after 5 s, so it may return at any moment.       *)
(*                                                                         *)
(* The flash outlives an upgrade, and so do failures that the code does    *)
(* not look at: ignored is the history of those, by upgrade and image.     *)
(***************************************************************************)
EXTENDS Integers, FiniteSets

CONSTANTS
  PartNum,        \* upg_part_num of the package header
  img_size,       \* size of each image
  img_offset,     \* offset of each image in the package
  HeaderLen,      \* sizeof(alislupg_header_t)
  Total,          \* size of the package without its header
  UPG_BUF_SIZE,   \* size of tune->buf
  BootParts,      \* images for the partitions "boot" and "bootbak"
  BootParamEnd,   \* end of the boot parameters in a boot partition
  Addr,           \* Addr[u][i]: where malloc puts element i in upgrade u
  MaxUpgrades,    \* bound: upgrades made by one process
  MaxIgnored,     \* bound: failures that nobody looks at
  Plugins,        \* plugins found by upgrade_object_detect
  Methods,        \* methods the application asks for
  Faults,         \* operations that may fail
  AppMayAbort     \* the application may call alislupg_abort and _prestop

Parts == 1..PartNum
AllPlugins == {"USB", "NET", "OTA"}
AllMethods == {"PIECE_BY_PIECE", "ONE_SHOT"}
AllFaults == {"alloc", "file", "setup", "read", "fread", "mtd", "malloc", "flash"}
\* Calls whose result is not looked at: fread or ota_file_read, and alislsto_read,
\* _erase and _write of the writer.
IgnoredCalls == {"fread", "read", "erase", "write"}
NULL == 0
GARBAGE == -1

ASSUME PackageAssumption ==
  /\ PartNum \in Nat \ {0}
  /\ img_size \in [Parts -> Nat \ {0}]
  /\ img_offset \in [Parts -> Nat]
  /\ HeaderLen \in Nat
  /\ Total \in Nat
  /\ Total >= 100
ASSUME BufAssumption == UPG_BUF_SIZE \in Nat \ {0}
ASSUME BootAssumption == BootParts \subseteq Parts /\ BootParamEnd \in Nat
ASSUME AddrAssumption ==
  /\ MaxUpgrades \in Nat \ {0}
  /\ Addr \in [1..MaxUpgrades -> [Parts -> Nat \ {NULL}]]
ASSUME ConfigAssumption ==
  /\ Plugins \subseteq AllPlugins
  /\ Methods \subseteq AllMethods
  /\ Faults \subseteq AllFaults
  /\ AppMayAbort \in BOOLEAN
  /\ MaxIgnored \in Nat

VARIABLES
  \* the application
  app, upgrade, seen_percent, seen_error,
  \* a thread of an earlier upgrade is still there
  stray,
  \* alislupg_desc_t
  source, method, error, percent, oversem,
  \* upg_tune_t
  writersem, sourcesem, tune_elem, tune_size, tune_buf, buf_live, buf_param,
  \* the source thread, and the package in DRAM (ONE_SHOT)
  spc, elem, elemread, perread, totalread, fpos, dram,
  \* the writer thread and its static elem_old
  wpc, mtd, totalwrite, elem_old,
  \* the flash: the upgrade that called alislsto_erase last (0: none has), the
  \* bytes handed to alislsto_write since, whether they are the image's bytes,
  \* whether the boot parameters are known to be there
  erased, written, faithful, boot_param,
  \* the failures nobody looked at
  ignored

appVars == <<app, upgrade, seen_percent, seen_error, stray>>
cfgVars == <<source, method>>
tuneVars == <<tune_elem, tune_size, tune_buf, buf_live, buf_param>>
srcVars == <<spc, elem, elemread, perread, totalread, fpos, dram>>
wrVars == <<wpc, mtd, totalwrite, elem_old>>
flashVars == <<erased, written, faithful, boot_param, ignored>>
vars == <<appVars, cfgVars, error, percent, oversem, writersem, sourcesem,
          tuneVars, srcVars, wrVars, flashVars>>

AppTypeOK ==
  /\ app \in {"idle", "load", "ready", "poll", "wait", "woken", "prestop",
              "stop", "end", "quit", "aborting", "aborted", "undefined"}
  /\ upgrade \in 1..MaxUpgrades
  /\ seen_percent \in Nat
DescTypeOK ==
  /\ source \in AllPlugins /\ method \in AllMethods
  /\ percent \in Nat /\ oversem \in Nat
TuneTypeOK ==
  /\ writersem \in Nat /\ sourcesem \in Nat
  /\ tune_elem \in Parts \cup {NULL} /\ tune_size \in Nat
  /\ tune_buf \in Nat \cup {GARBAGE}
FlagTypeOK ==
  /\ seen_error \in BOOLEAN /\ error \in BOOLEAN /\ stray \in BOOLEAN
  /\ buf_live \in BOOLEAN /\ buf_param \in BOOLEAN
SourceTypeOK ==
  /\ spc \in {"off", "setup", "stuck", "wait", "check", "fill", "post", "over"}
  /\ elem \in 1..(PartNum + 1)
  /\ elemread \in Nat /\ perread \in Nat /\ totalread \in Nat
  /\ fpos \in Nat \cup {GARBAGE}
  /\ dram \in {"none", "loading", "loaded", "freed"}
WriterTypeOK ==
  /\ wpc \in {"off", "init", "wait", "check", "open", "erase", "write",
              "report", "post", "close", "over"}
  /\ mtd \in Parts \cup {NULL} /\ totalwrite \in Nat /\ elem_old \in Nat
FlashTypeOK ==
  /\ erased \in [Parts -> 0..MaxUpgrades] /\ written \in [Parts -> Nat]
  /\ faithful \in [Parts -> BOOLEAN] /\ boot_param \in [Parts -> BOOLEAN]
  /\ ignored \subseteq [by : 1..MaxUpgrades, part : Parts, call : IgnoredCalls]

\* Every piece of state of the pipeline keeps its type.
TypeOK == /\ AppTypeOK /\ DescTypeOK /\ TuneTypeOK /\ FlagTypeOK
          /\ SourceTypeOK /\ WriterTypeOK /\ FlashTypeOK
-----------------------------------------------------------------------------
(* A handle.  alislupg_construct, _open and _get_upgrade_info have made it,*)
(* with its element list; every upgrade has a new one.                     *)
Init ==
  /\ app = "idle" /\ upgrade = 1 /\ seen_percent = 0 /\ seen_error = FALSE
  /\ stray = FALSE
  /\ source \in Plugins /\ method \in Methods
  /\ source = "OTA" => method = "PIECE_BY_PIECE"
  /\ error = FALSE /\ percent = 0 /\ oversem = 0
  /\ writersem = 0 /\ sourcesem = 0
  /\ tune_elem = NULL /\ tune_size = 0 /\ tune_buf = GARBAGE
  /\ buf_live = FALSE /\ buf_param = FALSE
  /\ spc = "off" /\ elem = 1 /\ elemread = 0 /\ perread = UPG_BUF_SIZE
  /\ totalread = 0 /\ fpos = 0 /\ dram = "none"
  /\ wpc = "off" /\ mtd = NULL /\ totalwrite = 0 /\ elem_old = NULL
  /\ erased = [p \in Parts |-> 0] /\ written = [p \in Parts |-> 0]
  /\ faithful = [p \in Parts |-> TRUE] /\ boot_param = [p \in Parts |-> TRUE]
  /\ ignored = {}

\* alislupg_close and _destruct, then _construct, _open and _get_upgrade_info
\* of another upgrade.  Only the static elem_old and the flash remain, and the
\* threads that are not over: nobody joins them.
NewHandle ==
  /\ app \in {"end", "aborted"} /\ upgrade < MaxUpgrades
  /\ stray' = (stray \/ {spc, wpc} \cap {"off", "over"} # {spc, wpc})
  /\ app' = "idle" /\ upgrade' = upgrade + 1
  /\ seen_percent' = 0 /\ seen_error' = FALSE
  /\ source' \in Plugins /\ method' \in Methods
  /\ source' = "OTA" => method' = "PIECE_BY_PIECE"
  /\ error' = FALSE /\ percent' = 0 /\ oversem' = 0
  /\ writersem' = 0 /\ sourcesem' = 0
  /\ tune_elem' = NULL /\ tune_size' = 0 /\ tune_buf' = GARBAGE
  /\ buf_live' = FALSE /\ buf_param' = FALSE
  /\ spc' = "off" /\ elem' = 1 /\ elemread' = 0 /\ perread' = UPG_BUF_SIZE
  /\ totalread' = 0 /\ fpos' = 0 /\ dram' = "none"
  /\ wpc' = "off" /\ mtd' = NULL /\ totalwrite' = 0
  /\ UNCHANGED <<elem_old, flashVars>>

\* A thread left from an earlier upgrade goes on with a descriptor, semaphores and
\* elements that are freed or another's: nothing can be said of what follows.
StrayTouch ==
  /\ stray /\ app' = "undefined"
  /\ UNCHANGED <<upgrade, stray, seen_percent, seen_error, cfgVars, error, percent,
                 oversem, writersem, sourcesem, tuneVars, srcVars, wrVars,
                 flashVars>>
-----------------------------------------------------------------------------
(* ONE_SHOT: the package is loaded in DRAM before the upgrade starts.      *)
AppPrestart ==
  /\ app = "idle" /\ method = "ONE_SHOT"
  /\ app' = "load" /\ dram' = "loading"
  /\ UNCHANGED <<upgrade, stray, seen_percent, seen_error, cfgVars, error, percent,
                 oversem, writersem, sourcesem, tuneVars, spc, elem, elemread,
                 perread, totalread, fpos, wrVars, flashVars>>

\* usb_file_download: no memory is an error, a file that cannot be opened or
\* read is reported to nobody.  NET's write_data does the same as the first
\* case for the last bytes of the package.
Download ==
  /\ dram = "loading"
  /\ \/ /\ dram' = "loaded" /\ percent' = 100 /\ UNCHANGED error
     \/ /\ "malloc" \in Faults
        /\ dram' = "none" /\ error' = TRUE /\ UNCHANGED percent
     \/ /\ "file" \in Faults
        /\ dram' = "none" /\ UNCHANGED <<error, percent>>
  /\ UNCHANGED <<appVars, cfgVars, oversem, writersem, sourcesem, tuneVars,
                 spc, elem, elemread, perread, totalread, fpos, wrVars,
                 flashVars>>

\* The application's loop on alislupg_wait_status while the package loads.
AppLoaded ==
  /\ app = "load" /\ (error \/ percent >= 100)
  /\ app' = IF error THEN "quit" ELSE "ready"
  /\ UNCHANGED <<upgrade, stray, seen_percent, seen_error, cfgVars, error, percent,
                 oversem, writersem, sourcesem, tuneVars, srcVars, wrVars,
                 flashVars>>

\* alislupg_start: tune_init, then upgrade_tune_start creates the writer and
\* calls the plugin's f_start, whose result is ignored.
AppStart ==
  /\ app = IF method = "ONE_SHOT" THEN "ready" ELSE "idle"
  /\ app' = "poll" /\ writersem' = 1 /\ sourcesem' = 0 /\ wpc' = "init"
  /\ \/ buf_live' = TRUE /\ spc' = "setup"
     \/ "alloc" \in Faults /\ buf_live' = FALSE /\ spc' = "off"
  /\ UNCHANGED <<upgrade, stray, seen_percent, seen_error, cfgVars, error, percent,
                 oversem, tune_elem, tune_size, tune_buf, buf_param, elem,
                 elemread, perread, totalread, fpos, dram, mtd, totalwrite,
                 elem_old, flashVars>>
-----------------------------------------------------------------------------
(* The application's loop on alislupg_wait_status.                         *)
StatusVars == <<upgrade, stray, cfgVars, error, percent, oversem, writersem,
                sourcesem, tuneVars, srcVars, wrVars, flashVars>>

\* Told of an error, the application stops the upgrade or, as the example
\* alislupgradekit does, leaves without a further call.
OnError == {"prestop", "quit"}

\* On entry an error already set is returned at once, percent not updated.
WaitStatus ==
  /\ app = "poll"
  /\ app' \in IF error THEN OnError ELSE {"wait"}
  /\ seen_error' = error
  /\ UNCHANGED <<seen_percent, StatusVars>>

\* A signal, a spurious wakeup or the timeout: percent is read...
WaitWakeup ==
  /\ app = "wait"
  /\ app' = "woken" /\ seen_percent' = percent
  /\ UNCHANGED <<seen_error, StatusVars>>

\* ...and then error; both are written by other threads without the lock.
WaitReturn ==
  /\ app = "woken"
  /\ seen_error' = error
  /\ app' \in IF error THEN OnError
              ELSE IF seen_percent >= 100 THEN {"prestop"} ELSE {"poll"}
  /\ UNCHANGED <<seen_percent, StatusVars>>

\* f_prestop of the plugins: OTA reports an error while the threads run, USB
\* and NET drop the package they loaded in ONE_SHOT mode.
Prestop ==
  /\ error' = (error \/ source = "OTA")
  /\ dram' = IF method = "ONE_SHOT" THEN "freed" ELSE dram

PrestopUnchanged ==
  UNCHANGED <<upgrade, stray, seen_percent, seen_error, cfgVars, percent, oversem,
              writersem, sourcesem, tuneVars, spc, elem, elemread, perread,
              totalread, fpos, wrVars, flashVars>>

\* The upgrade is over for the application: alislupg_prestop in ONE_SHOT mode,
\* then alislupg_stop.
AppFinish ==
  /\ app = "prestop" /\ app' = "stop"
  /\ IF method = "ONE_SHOT" THEN Prestop ELSE UNCHANGED <<error, dram>>
  /\ PrestopUnchanged

\* alislupg_prestop called by the user who gives the upgrade up.
AppPrestop ==
  /\ AppMayAbort /\ app = "poll"
  /\ Prestop /\ PrestopUnchanged /\ UNCHANGED app

\* alislupg_abort: f_prestop first...
AppAbort ==
  /\ AppMayAbort /\ app = "poll" /\ app' = "aborting"
  /\ Prestop /\ PrestopUnchanged

\* f_stop frees tune->buf; the semaphores and the elements go with it.
Teardown ==
  /\ buf_live' = FALSE
  /\ UNCHANGED <<upgrade, stray, seen_percent, seen_error, cfgVars, error, percent,
                 writersem, sourcesem, tune_elem, tune_size, tune_buf,
                 buf_param, srcVars, wrVars, flashVars>>

\* ...and then the teardown, without waiting for anybody.
AppAbortTeardown ==
  /\ app = "aborting" /\ app' = "aborted"
  /\ Teardown /\ UNCHANGED oversem

\* Slip: alislupg_stop without upgrade_tune_waitfinish.
AppStopAtOnce ==
  /\ app = "stop" /\ app' = "end" /\ Teardown /\ UNCHANGED oversem

\* alislupg_stop waits for the writer (upgrade_tune_waitfinish).
AppStop ==
  /\ app = "stop" /\ oversem > 0
  /\ app' = "end" /\ oversem' = oversem - 1
  /\ Teardown
-----------------------------------------------------------------------------
(* The source thread.                                                      *)
\* A call for image p has failed and its caller takes it for done.
Ignore(call, p) ==
  /\ Cardinality(ignored) < MaxIgnored
  /\ ignored' = ignored \cup {[by |-> upgrade, part |-> p, call |-> call]}


SourceFail ==
  /\ error' = TRUE /\ sourcesem' = sourcesem + 1 /\ spc' = "over"

\* Opening the package and skipping its header.
SetupMayFail == source = "NET" \/ (source = "USB" /\ method = "PIECE_BY_PIECE")

\* OTA waits for the first piece: for ever when the download thread returned
\* before it.  ota_file_read's result for the header is not looked at: the first
\* piece has failed (p_ota_valid is NULL, and stays so), or nothing was read.
SetupOTA ==
  /\ source = "OTA"
  /\ \/ "setup" \in Faults /\ spc' = "stuck" /\ UNCHANGED <<fpos, ignored>>
     \/ /\ "setup" \in Faults /\ spc' = "wait" /\ fpos' = GARBAGE
        /\ Ignore("fread", elem)
     \/ /\ "fread" \in Faults /\ spc' = "wait" /\ UNCHANGED fpos
        /\ Ignore("fread", elem)

SourceSetup ==
  /\ spc = "setup"
  /\ \/ /\ spc' = "wait" /\ fpos' = HeaderLen
        /\ UNCHANGED <<error, sourcesem, ignored>>
     \/ SetupOTA /\ UNCHANGED <<error, sourcesem>>
     \/ /\ "setup" \in Faults /\ SetupMayFail
        /\ SourceFail /\ UNCHANGED <<fpos, ignored>>
  /\ UNCHANGED <<appVars, cfgVars, percent, oversem, writersem, tuneVars, elem,
                 elemread, perread, totalread, dram, wrVars, erased, written,
                 faithful, boot_param>>

\* Slip: the source goes on whether or not it got writersem.
SourceTakeAnyway ==
  /\ spc = "wait" /\ writersem' = writersem - 1 /\ spc' = "check"
  /\ UNCHANGED <<appVars, cfgVars, error, percent, oversem, sourcesem, tuneVars,
                 elem, elemread, perread, totalread, fpos, dram, wrVars,
                 flashVars>>

SourceTake ==
  /\ spc = "wait" /\ writersem > 0
  /\ writersem' = writersem - 1 /\ spc' = "check"
  /\ UNCHANGED <<appVars, cfgVars, error, percent, oversem, sourcesem, tuneVars,
                 elem, elemread, perread, totalread, fpos, dram, wrVars,
                 flashVars>>

SourceCheck ==
  /\ spc = "check"
  /\ IF error
     THEN spc' = "over" /\ UNCHANGED <<tune_elem, perread>>
     ELSE /\ spc' = "fill" /\ tune_elem' = elem
          /\ perread' = IF img_size[elem] < UPG_BUF_SIZE
                        THEN img_size[elem] ELSE perread
  /\ UNCHANGED <<appVars, cfgVars, error, percent, oversem, writersem, sourcesem,
                 tune_size, tune_buf, buf_live, buf_param, elem, elemread,
                 totalread, fpos, dram, wrVars, flashVars>>

\* Slip: what does not fill a buffer is taken for the end of the image.
NextReadDropsTail(done) ==
  IF img_size[elem] - done < UPG_BUF_SIZE THEN 0 ELSE perread

\* How much to read after done bytes of the image, 0 at its end.
NextRead(done) ==
  IF img_size[elem] >= done /\ img_size[elem] - done < UPG_BUF_SIZE
  THEN img_size[elem] - done ELSE perread

\* Bookkeeping after a read: the size handed over, and the next read.
SourceAdvance ==
  LET done == elemread + perread
      rest == NextRead(done)
  IN /\ tune_size' = perread
     /\ totalread' = totalread + perread
     /\ IF rest = 0
        THEN elem' = elem + 1 /\ elemread' = 0 /\ perread' = UPG_BUF_SIZE
        ELSE elemread' = done /\ perread' = rest /\ UNCHANGED elem
     /\ spc' = "post" /\ buf_param' = FALSE

\* USB seeks in the file, or in DRAM; the result of fread is not looked at.
FillUSB ==
  /\ source = "USB"
  /\ \/ /\ tune_buf' = IF method = "ONE_SHOT" /\ dram # "loaded"
                       THEN GARBAGE ELSE img_offset[elem] + elemread
        /\ UNCHANGED ignored
     \/ /\ "fread" \in Faults /\ method = "PIECE_BY_PIECE"
        /\ UNCHANGED tune_buf /\ Ignore("fread", elem)
  /\ SourceAdvance /\ UNCHANGED <<fpos, error, sourcesem>>

\* url_seek only moves forward; a seek or a read that fails ends the thread.
FillNET ==
  /\ source = "NET" /\ UNCHANGED ignored
  /\ \/ LET want == img_offset[elem] + elemread
            at == IF fpos < want THEN want ELSE fpos
        IN /\ tune_buf' = IF method = "ONE_SHOT" /\ dram # "loaded"
                          THEN GARBAGE ELSE at
           /\ fpos' = at + perread
           /\ SourceAdvance /\ UNCHANGED <<error, sourcesem>>
     \/ /\ "read" \in Faults /\ SourceFail
        /\ UNCHANGED <<tune_buf, fpos, elem, elemread, perread, totalread,
                       tune_size, buf_param>>

\* OTA reads on in the stream of pieces, wherever the image should be: with no
\* valid piece it copies what the piece buffer holds and stays where it is.  Only
\* a piece that fails on the way (-1) is an error; 0 bytes are taken for perread.
FillOTA ==
  /\ source = "OTA"
  /\ \/ /\ tune_buf' = fpos
        /\ fpos' = IF fpos = GARBAGE THEN GARBAGE ELSE fpos + perread
        /\ SourceAdvance /\ UNCHANGED <<error, sourcesem, ignored>>
     \/ /\ "fread" \in Faults /\ fpos # GARBAGE /\ Ignore("fread", elem)
        /\ SourceAdvance /\ UNCHANGED <<tune_buf, fpos, error, sourcesem>>
     \/ /\ "read" \in Faults /\ fpos # GARBAGE /\ SourceFail
        /\ UNCHANGED <<tune_buf, fpos, elem, elemread, perread, totalread,
                       tune_size, buf_param, ignored>>

SourceFill ==
  /\ spc = "fill"
  /\ FillUSB \/ FillNET \/ FillOTA
  /\ UNCHANGED <<appVars, cfgVars, percent, oversem, writersem, tune_elem,
                 buf_live, dram, wrVars, erased, written, faithful, boot_param>>

SourcePost ==
  /\ spc = "post"
  /\ sourcesem' = sourcesem + 1
  /\ spc' = IF totalread < Total /\ elem <= PartNum THEN "wait" ELSE "over"
  /\ UNCHANGED <<appVars, cfgVars, error, percent, oversem, writersem, tuneVars,
                 elem, elemread, perread, totalread, fpos, dram, wrVars,
                 flashVars>>

SourceNext == \/ SourceSetup \/ SourceTake \/ SourceCheck
              \/ SourceFill \/ SourcePost
-----------------------------------------------------------------------------
(* The writer thread.                                                      *)
WriterInit ==
  /\ wpc = "init" /\ wpc' = "wait" /\ percent' = 0
  /\ UNCHANGED <<appVars, cfgVars, error, oversem, writersem, sourcesem,
                 tuneVars, srcVars, mtd, totalwrite, elem_old, flashVars>>

WriterTake ==
  /\ wpc = "wait" /\ sourcesem > 0
  /\ sourcesem' = sourcesem - 1 /\ wpc' = "check"
  /\ UNCHANGED <<appVars, cfgVars, error, percent, oversem, writersem, tuneVars,
                 srcVars, mtd, totalwrite, elem_old, flashVars>>

ElemAddr == Addr[upgrade][tune_elem]

\* Slip: only the first image opens and erases its partition.
FirstElement == elem_old = NULL

\* The chunk belongs to another image than the last one.
NewElement == ElemAddr # elem_old

WriterCheck ==
  /\ wpc = "check"
  /\ wpc' = IF error THEN "close" ELSE IF NewElement THEN "open" ELSE "write"
  /\ UNCHANGED <<appVars, cfgVars, error, percent, oversem, writersem, sourcesem,
                 tuneVars, srcVars, mtd, totalwrite, elem_old, flashVars>>

\* Slip: the image's own boot parameters are left in the buffer.
NoBackup == FALSE

\* The boot parameters read back from the flash, if they are still there.
Backup == tune_elem \in BootParts /\ boot_param[tune_elem]

\* A boot image must cover the boot parameters, which are copied from the
\* flash over the image in the buffer before anything is erased; when the read
\* fails, the zeroes that memset left are.
WriterOpen ==
  /\ wpc = "open"
  /\ \/ /\ "mtd" \in Faults
        /\ error' = TRUE /\ wpc' = "close" /\ UNCHANGED <<mtd, buf_param, ignored>>
     \/ /\ tune_elem \in BootParts
        /\ tune_size < BootParamEnd \/ "malloc" \in Faults
        /\ mtd' = tune_elem
        /\ error' = TRUE /\ wpc' = "close" /\ UNCHANGED <<buf_param, ignored>>
     \/ /\ tune_elem \in BootParts => tune_size >= BootParamEnd
        /\ mtd' = tune_elem
        /\ \/ buf_param' = Backup /\ UNCHANGED ignored
           \/ /\ "flash" \in Faults /\ tune_elem \in BootParts
              /\ buf_param' = FALSE /\ Ignore("read", tune_elem)
        /\ wpc' = "erase" /\ UNCHANGED error
  /\ UNCHANGED <<appVars, cfgVars, percent, oversem, writersem, sourcesem,
                 tune_elem, tune_size, tune_buf, buf_live, srcVars, totalwrite,
                 elem_old, erased, written, faithful, boot_param>>

\* The result of alislsto_erase is not looked at.  After an erase, whole or not,
\* the boot parameters are known to be in the buffer only.
WriterErase ==
  /\ wpc = "erase" /\ wpc' = "write"
  /\ erased' = [erased EXCEPT ![mtd] = upgrade]
  /\ written' = [written EXCEPT ![mtd] = 0]
  /\ boot_param' = [boot_param EXCEPT ![mtd] = FALSE]
  /\ \/ faithful' = [faithful EXCEPT ![mtd] = TRUE] /\ UNCHANGED ignored
     \/ /\ "flash" \in Faults /\ Ignore("erase", mtd)
        /\ faithful' = [faithful EXCEPT ![mtd] = FALSE]
  /\ elem_old' = ElemAddr
  /\ UNCHANGED <<appVars, cfgVars, error, percent, oversem, writersem, sourcesem,
                 tuneVars, srcVars, mtd, totalwrite>>

\* The chunk and, in the first one, the boot parameters reach the flash.
ChunkLands ==
  /\ faithful' = [faithful EXCEPT ![mtd] =
        @ /\ buf_live /\ tune_buf = img_offset[mtd] + written[mtd]]
  /\ boot_param' = [boot_param EXCEPT ![mtd] =
        @ \/ (buf_live /\ buf_param /\ written[mtd] = 0)]

\* alislsto_write does nothing with a NULL handle; its result is not looked at.
WriterWrite ==
  /\ wpc = "write" /\ wpc' = "report"
  /\ totalwrite' = totalwrite + tune_size
  /\ \/ mtd = NULL /\ UNCHANGED <<written, faithful, boot_param, ignored>>
     \/ /\ mtd # NULL /\ written' = [written EXCEPT ![mtd] = @ + tune_size]
        /\ \/ ChunkLands /\ UNCHANGED ignored
           \/ /\ "flash" \in Faults /\ Ignore("write", mtd)
              /\ faithful' = [faithful EXCEPT ![mtd] = FALSE]
              /\ UNCHANGED boot_param
  /\ UNCHANGED <<appVars, cfgVars, error, percent, oversem, writersem, sourcesem,
                 tuneVars, srcVars, mtd, elem_old, erased>>

\* Slip: 100 percent one chunk early.
PercentEarly(n) ==
  IF n + UPG_BUF_SIZE >= Total THEN 100 ELSE n \div (Total \div 100)

Percent(n) == IF n >= Total THEN 100 ELSE n \div (Total \div 100)

WriterReport ==
  /\ wpc = "report" /\ wpc' = "post"
  /\ percent' = Percent(totalwrite)
  /\ UNCHANGED <<appVars, cfgVars, error, oversem, writersem, sourcesem,
                 tuneVars, srcVars, mtd, totalwrite, elem_old, flashVars>>

WriterPost ==
  /\ wpc = "post"
  /\ writersem' = writersem + 1
  /\ wpc' = IF percent = 100 \/ error THEN "close" ELSE "wait"
  /\ UNCHANGED <<appVars, cfgVars, error, percent, oversem, sourcesem, tuneVars,
                 srcVars, mtd, totalwrite, elem_old, flashVars>>

WriterClose ==
  /\ wpc = "close" /\ wpc' = "over"
  /\ oversem' = oversem + 1
  /\ UNCHANGED <<appVars, cfgVars, error, percent, writersem, sourcesem,
                 tuneVars, srcVars, mtd, totalwrite, elem_old, flashVars>>

WriterNext == \/ WriterInit \/ WriterTake \/ WriterCheck \/ WriterOpen
              \/ WriterErase \/ WriterWrite \/ WriterReport \/ WriterPost
              \/ WriterClose
-----------------------------------------------------------------------------
AppNext == \/ AppPrestart \/ AppLoaded \/ AppStart
           \/ WaitStatus \/ WaitWakeup \/ WaitReturn
           \/ AppFinish \/ AppStop \/ AppAbortTeardown

\* What the user may do or not do.
UserNext == NewHandle \/ AppPrestop \/ AppAbort

Next == /\ app # "undefined"
        /\ \/ AppNext \/ UserNext \/ StrayTouch
           \/ Download \/ SourceNext \/ WriterNext

Spec == Init /\ [][Next]_vars

\* Threads that can run do run, and the application keeps to its protocol.
FairSpec == /\ Spec
            /\ WF_vars(AppNext) /\ WF_vars(Download)
            /\ WF_vars(SourceNext) /\ WF_vars(WriterNext)
-----------------------------------------------------------------------------
(* Properties.                                                             *)
SourceHolds == spc \in {"check", "fill", "post"}
WriterHolds == wpc \in {"check", "open", "erase", "write", "report", "post"}

\* The two threads of tune.c's hand-off never work on tune->buf, tune->elem
\* and tune->size at the same time, whatever fails and whoever gives up.
BufferHandOff == ~(SourceHolds /\ WriterHolds)

\* No thread uses tune->buf after alislupg_stop has freed it, although stop
\* waits for the writer only and nobody joins the source thread.
BufferAlive == (spc = "fill" \/ wpc \in {"open", "erase", "write"}) => buf_live

\* "erase partition first": upgrade_writter_loop writes a chunk only on the
\* partition of the element it came with, opened by this upgrade and given to
\* alislsto_erase by it, whatever an earlier upgrade has left there.
WriteOnErased == wpc = "write" => mtd = tune_elem /\ erased[tune_elem] = upgrade

Burned(p) == written[p] = img_size[p] /\ faithful[p]
Torn(p) == erased[p] # 0 /\ written[p] < img_size[p]

\* A failure of this upgrade that the code does not look at and that reaches the
\* bytes of image p: its own read, erase or write, or an OTA read before it, for
\* the stream is then behind from there on.
Spoiled(p) ==
  \E f \in ignored :
    /\ f.by = upgrade
    /\ \/ f.part = p /\ f.call # "read"
       \/ f.part < p /\ f.call = "fread" /\ source = "OTA"

\* An application that alislupg_wait_status told 100 percent and no error has
\* every image of the package, byte for byte, in its partition, except those that
\* a failing call whose result is dropped (fread, ota_file_read, alislsto_erase,
\* alislsto_write) has spoiled: any failure that is looked at ends in an error.
SuccessMeansBurned ==
  /\ app \in {"prestop", "stop", "end"} /\ method = "PIECE_BY_PIECE"
  /\ seen_percent >= 100 /\ ~seen_error
  => \A p \in Parts : Burned(p) \/ Spoiled(p)

\* Power may go at any moment, and the flash keeps what a failed upgrade has
\* left.  Each upgrade leaves at most one partition half burned, the last one it
\* erased; a second one is half burned only when a later upgrade has failed
\* earlier in the package.  (Half burned: alislsto_write was not yet called for
\* all of the image.  A write that fails unseen comes on top.)
OneTornPerUpgrade ==
  \A p, q \in Parts : p < q /\ Torn(p) /\ Torn(q) => erased[p] > erased[q]

\* "OneShot: get data from DRAM which pre-downloaded by alislupg_prestart": the
\* source of a ONE_SHOT upgrade reads a package that is still in DRAM.  False:
\* the 100 percent of the download is taken for the end of the burning.
OneShotFromDram == spc = "fill" /\ method = "ONE_SHOT" => dram = "loaded"

\* A call of alislsto_read, _erase or _write on partition p failed unseen.
FlashFailed(p) == \E f \in ignored : f.part = p /\ f.call # "fread"

\* The box's own boot parameters are in the boot partition or, between the
\* erase and the write of the first chunk, in the buffer about to be written, in
\* this and every later upgrade, until a flash call on that very partition fails:
\* no failure of a source or of another partition, and no retry, costs them.
BootParamKept ==
  \A p \in BootParts :
    \/ boot_param[p]
    \/ wpc = "write" /\ mtd = p /\ written[p] = 0 /\ buf_live /\ buf_param
    \/ FlashFailed(p)

\* "It safe to quit [...] the writter should be already finish at that time":
\* when the source leaves its loop on desc->error, the writer has left its own.
\* False: OTA's f_prestop sets error while both run.
SafeToQuit ==
  [][spc = "check" /\ spc' = "over" => wpc \in {"close", "over"}]_vars

\* The writer has been started and nobody will ever feed it: the plugin's f_start
\* got no memory for its buffer (its result is dropped), or OTA waits for a first
\* piece that the download thread, gone before it, will not post.
Unfed == wpc # "off" /\ spc \in {"off", "stuck"}

=============================================================================
