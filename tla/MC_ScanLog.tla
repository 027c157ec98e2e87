----------------------------- MODULE MC_ScanLog -----------------------------
(* Devices of one to six sectors scanned in chunks of two. *)
EXTENDS ScanLog

MCDevSizes == {512, 1024, 1536, 2048, 2560, 3072}

\* A position inside the device, one that is no sector, one behind the end.
MCGarbage  == {512, 700, 9000}
=============================================================================
