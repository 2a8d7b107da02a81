----------------------------- MODULE MCProbing -----------------------------
(***************************************************************************)
(* Small instances of Probing for TLC.                                     *)
(***************************************************************************)
EXTENDS Probing, TLC

CONSTANTS eth0, unnamed, first

\* A row with a label, and one without.
TwoSlugs == eth0 :> first @@ unnamed :> NoLabel
=============================================================================
