----------------------------- MODULE MCPolling -----------------------------
(***************************************************************************)
(* Small instances of Polling, and of what the API computes from it.       *)
(***************************************************************************)
EXTENDS AvailabilityEtl
=============================================================================
