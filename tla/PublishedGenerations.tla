------------------------ MODULE PublishedGenerations ------------------------
(***************************************************************************)
(* What the serving side promises a reader: at any time there is at most   *)
(* one published generation; its content never changes while it is the     *)
(* published one; publishing replaces the old content by the new in one    *)
(* step; nothing is ever unpublished without a successor, and a generation *)
(* that was replaced never comes back.                                     *)
(***************************************************************************)
CONSTANTS Records, Labels, NULL

VARIABLES
    live,       \* the label of the published generation, or NULL
    content,    \* the records a reader can retrieve from it
    published   \* every label published so far

Init ==
    /\ live = NULL
    /\ content = {}
    /\ published = {}

Publish(l, S) ==
    /\ l \notin published
    /\ live' = l
    /\ content' = S
    /\ published' = published \cup {l}

Next == \E l \in Labels, S \in SUBSET Records : Publish(l, S)

Spec == Init /\ [][Next]_<<live, content, published>>
=============================================================================
