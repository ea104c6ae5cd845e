---------------------------- MODULE MCFirewallSync ----------------------------
(* Small instances of FirewallSync for TLC. *)
EXTENDS FirewallSync
=============================================================================
