----------------------------- MODULE MCUpdateCycle -----------------------------
(* A home page that links to a merit list and to an old address of the      *)
(* list, which the list itself links to as well.                            *)
EXTENDS UpdateCycle, TLC

CONSTANTS Home, List, Old

MCPages == {Home, List, Old}

MCLinks == Home :> {List, Old} @@ List :> {Old} @@ Old :> {}

MCRedirects == [u \in MCPages |-> IF u = Old THEN {List} ELSE {}]

MCParentOf == [u \in MCPages |-> IF u = Home THEN NoPage ELSE Home]

MCPriority == List :> 1 @@ Home :> 2 @@ Old :> 3

MCInterval == [u \in MCPages |-> 1]

MCGrace == [u \in MCPages |-> IF u = Home THEN 0 ELSE 1]

=============================================================================
