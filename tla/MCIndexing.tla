------------------------------ MODULE MCIndexing ------------------------------
(* Installations for TLC: single records of every shape, cut and embedded,   *)
(* and two records of few chunks whose contexts are asked for.               *)
EXTENDS Indexing

Lengths == {1, 2, 5}
Between == {<<Space>>, <<Dot, Space>>, <<NewLine, NewLine>>}

Word(from, n) == [i \in 1 .. n |-> from + i]

(* Words of the lengths in ns with the separators in ss between them. *)
Text(ns, ss) ==
    LET Step(t, i) == t \o (IF i = 1 THEN <<>> ELSE ss[i - 1]) \o Word(10 * i, ns[i])
    IN  FoldLeft(Step, <<>>, [i \in DOMAIN ns |-> i])

Texts == {Text(<<n>>, <<>>) : n \in {2, 9}}
    \cup {Text(ns, <<s, t>>) : ns \in [1 .. 3 -> Lengths], s \in Between, t \in Between}

Prefix(n) == [i \in 1 .. n |-> 0]

Prose(n, t) == [prefix |-> Prefix(n), content |-> t, sections |-> <<>>]

Sections(t, u) ==
    [prefix |-> Prefix(1), content |-> <<>>,
     sections |-> <<[label |-> <<>>, text |-> t], [label |-> Prefix(1), text |-> u]>>]

Plainly(batched, versions) ==
    [contextual |-> FALSE, batched |-> batched, limited |-> FALSE, versions |-> versions]

(* The second edition of the first record keeps its first chunk and changes  *)
(* its second.                                                               *)
TwoRecords(limited) ==
    [contextual |-> TRUE, batched |-> TRUE, limited |-> limited, versions |->
        <<<<Prose(1, Text(<<3, 3>>, <<<<Space>>>>)), Prose(1, Text(<<3, 2>>, <<<<Space>>>>))>>,
          <<Prose(1, Text(<<3>>, <<>>))>>>>]

MCSetups ==
    {Plainly(n = 1, <<<<Prose(n, t)>>>>) : n \in {1, 6}, t \in Texts}
    \cup {Plainly(TRUE, <<<<Sections(Text(<<2>>, <<>>), t)>>>>) :
              t \in {Text(<<2, n>>, <<s>>) : n \in Lengths, s \in Between}}
    \cup {Plainly(batched, <<>>) : batched \in BOOLEAN}
    \cup {TwoRecords(FALSE), TwoRecords(TRUE)}

===============================================================================
