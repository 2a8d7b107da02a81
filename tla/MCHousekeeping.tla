--------------------------- MODULE MCHousekeeping ---------------------------
(***************************************************************************)
(* Small instances of Housekeeping, and of the charts drawn from it.       *)
(***************************************************************************)
EXTENDS MetricsEtl
=============================================================================
