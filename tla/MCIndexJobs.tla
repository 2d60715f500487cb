---------------------------- MODULE MCIndexJobs -----------------------------
(* IndexJobs on small sets, for TLC. *)
EXTENDS IndexJobs, TLC

(* No duplicates: every loaded record is primary. *)
MCPrimary(S) == S

JobSymmetry == Permutations(Labels) \cup Permutations(Builders) \cup Permutations(Jobs)
=============================================================================
