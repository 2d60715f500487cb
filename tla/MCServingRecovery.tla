-------------------------- MODULE MCServingRecovery --------------------------
(* ServingRecovery on small sets, for TLC. *)
EXTENDS ServingRecovery, TLC

CONSTANTS r1, r2

(* r2 repeats r1's value at the same authority tier, so r1, the smaller     *)
(* version id, is the primary record when both are loaded.                   *)
MCPrimary(S) == IF {r1, r2} \subseteq S THEN S \ {r2} ELSE S

LabelSymmetry == Permutations(Labels)
=============================================================================
