------------------------ MODULE MCServingGenerations ------------------------
(* ServingGenerations on small sets, for TLC. *)
EXTENDS ServingGenerations, TLC

(* No duplicates: every loaded record is primary. *)
MCPrimary(S) == S

LabelSymmetry == Permutations(Labels)
LabelAndBuilderSymmetry == Permutations(Labels) \cup Permutations(Builders)
=============================================================================
