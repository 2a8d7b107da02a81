---------------------------- MODULE MCDiscovery ----------------------------
(***************************************************************************)
(* Small instances of Discovery for TLC.                                   *)
(***************************************************************************)
EXTENDS Discovery, TLC

\* A /24 with two hosts, in a network too large to be scanned.
TwoHosts == [cidr \in Cidrs |-> Addresses]
TooLarge == [cidr \in Cidrs |-> IF cidr = LocalSubnet THEN MaxScanHosts + 1 ELSE MaxScanHosts]

Symmetry == Permutations(Scans) \cup Permutations(Addresses) \cup Permutations(Macs)
=============================================================================
