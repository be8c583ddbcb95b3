----------------------------- MODULE MCUpgTune -----------------------------
(* Small packages for UpgTune: three images, in bytes, that meet a buffer of *)
(* 100 bytes with a remainder, exactly, and not at all.                      *)
EXTENDS UpgTune

MCSize == <<130, 200, 70>>
MCOffset == <<8, 138, 338>>
\* The last image ends with a chunk of one byte, less than Total % 100.
TailSize == <<13000, 10000, 10001>>
TailOffset == <<8, 13008, 23008>>
SingleAddr == <<<<1, 2, 3>>>>
\* malloc gives each upgrade elements of its own...
FreshAddr == <<<<1, 2, 3>>, <<4, 5, 6>>>>
\* ...or the element that was freed last is handed out first again.
ReusedAddr == <<<<1, 2, 3>>, <<3, 2, 1>>>>
=============================================================================
