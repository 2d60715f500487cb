-------------------------- MODULE MCServingStartup --------------------------
(* ServingStartup on small sets, for TLC. *)
EXTENDS ServingStartup

(* No duplicates: every loaded record is primary. *)
MCPrimary(S) == S
=============================================================================
