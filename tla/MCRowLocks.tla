----------------------------- MODULE MCRowLocks -----------------------------
(***************************************************************************)
(* Small instances of RowLocks for TLC.                                    *)
(***************************************************************************)
EXTENDS RowLocks, TLC

CONSTANTS cycle, scan1, scan2, app, host1, host2

\* Each scan is a process of its own.
OneLoopEach == (cycle :> app) @@ (scan1 :> host1) @@ (scan2 :> host2)

\* The scan was started by POST /devices/scan.
OneLoop == (cycle :> app) @@ (scan1 :> app)
=============================================================================
