----------------------------- MODULE DelegationMC -----------------------------
(* Instances of Delegation for TLC: edits are asked about, reading is      *)
(* allowed, the network is denied.                                         *)
EXTENDS Delegation

CONSTANTS edit, read, net   \* permissions

MCPolicy == [p \in Permissions |-> CASE p = edit -> "ask" [] p = read -> "allow" [] p = net -> "deny"]
=============================================================================
