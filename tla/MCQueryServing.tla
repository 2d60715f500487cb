--------------------------- MODULE MCQueryServing ---------------------------
(* A client of each endpoint, who ask the same question again and again.    *)
EXTENDS QueryServing, TLC

CONSTANTS c1, c2, q1, r1

MCWords == q1 :> "words of q1"

=============================================================================
