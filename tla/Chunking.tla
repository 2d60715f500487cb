------------------------------ MODULE Chunking ------------------------------
(***************************************************************************)
(* Cutting a record's text into chunks (indexing/chunks.py).               *)
(*                                                                         *)
(* A text is a sequence of integers: positive numbers are the letters of   *)
(* the record, each with a number of its own so that one can tell whether  *)
(* it was kept, 0 is a letter of the prefix that every chunk repeats, and  *)
(* the negative numbers are the characters at which a text may be cut.     *)
(* ". " stands for ". ", "? " and "! ".                                    *)
(***************************************************************************)
EXTENDS Integers, Sequences, FiniteSets, FiniteSetsExt, SequencesExt

CONSTANTS
    MaxChars,   \* MAX_CHUNK_CHARS
    Overlap     \* CHUNK_OVERLAP_CHARS

ASSUME SizesAssumption == MaxChars \in Nat \ {0} /\ Overlap \in Nat

Strings == Seq(Int)

NewLine == -1
Space == -2
Dot == -3

Separators == <<<<NewLine, NewLine>>, <<NewLine>>, <<Dot, Space>>, <<Space>>>>

Blank == {NewLine, Space}

Letters(t) == {t[i] : i \in DOMAIN t} \cap (Nat \ {0})

(* str.strip *)
Strip(t) ==
    LET ink == {i \in DOMAIN t : t[i] \notin Blank}
    IN  IF ink = {} THEN <<>> ELSE SubSeq(t, Min(ink), Max(ink))

(* A fold whose step is a function of the state, then of the item. *)
Fold(step, base, s) == FoldLeft(LAMBDA state, item : step[state][item], base, s)

(* str.split: a part ends wherever the characters since the last cut end in sep. *)
Split(t, sep) ==
    LET step == [done \in Seq(Strings) |-> [c \in Int |->
                    LET cur == Append(Last(done), c)
                    IN  IF IsSuffix(sep, cur)
                        THEN Front(done) \o <<SubSeq(cur, 1, Len(cur) - Len(sep)), <<>>>>
                        ELSE Append(Front(done), cur)]]
    IN  Fold(step, <<<<>>>>, t)

(* Every part but the last keeps its separator; empty parts are dropped. *)
Segments(t, sep) ==
    LET raw == Split(t, sep)
        last == Strip(Last(raw))
    IN  FlattenSeq([i \in 1 .. Len(raw) - 1 |->
                       IF raw[i] = <<>> THEN <<>> ELSE <<raw[i] \o sep>>])
            \o (IF last = <<>> THEN <<>> ELSE <<last>>)

FixedWidth(t, max) ==
    [i \in 1 .. (Len(t) + max - 1) \div max |->
        Strip(SubSeq(t, (i - 1) * max + 1, Min({i * max, Len(t)})))]

(* Segments are joined as long as they fit; one that is too long by itself *)
(* is cut at the separators that come later in the list.                   *)
CutAt(sep, deeper, max) ==
    LET closed == [state \in [parts : Seq(Strings), cur : Strings] |->
                      IF state.cur = <<>> THEN state.parts ELSE Append(state.parts, Strip(state.cur))]
        step == [state \in [parts : Seq(Strings), cur : Strings] |-> [segment \in Strings |->
                    LET joined == state.cur \o segment
                    IN  IF Len(joined) <= max THEN [state EXCEPT !.cur = joined]
                        ELSE IF Len(segment) <= max THEN [parts |-> closed[state], cur |-> segment]
                        ELSE [parts |-> closed[state] \o deeper[segment], cur |-> <<>>]]]
        cut == [text \in Strings |->
                   IF Len(text) <= max THEN <<text>>
                   ELSE IF Len(Split(text, sep)) = 1 THEN deeper[text]
                   ELSE closed[Fold(step, [parts |-> <<>>, cur |-> <<>>], Segments(text, sep))]]
    IN  [t \in Strings |-> cut[Strip(t)]]

(* When no separator is left, the width decides. *)
Cutters(max) ==
    LET wide(text) == IF Len(text) <= max THEN <<text>> ELSE FixedWidth(text, max)
        cutter[level \in 1 .. Len(Separators) + 1] ==
            IF level > Len(Separators) THEN [t \in Strings |-> wide(Strip(t))]
            ELSE CutAt(Separators[level], cutter[level + 1], max)
    IN  cutter

Cut(t, max) == Cutters(max)[1][t]

WithPrefix(prefix, t) == prefix \o <<NewLine, NewLine>> \o t

(* Faulty variant: the blank line between the overlap and the part is not  *)
(* counted.                                                                *)
OverlappedTight(max) ==
    LET step == [done \in Seq(Strings) |-> [part \in Strings |->
                    LET size == Min({Overlap, Max({max - Len(Strip(part)), 0})})
                        tail == Last(done)
                        lap == Strip(SubSeq(tail, Max({Len(tail) - size, 0}) + 1, Len(tail)))
                    IN  Append(done, IF lap = <<>> THEN Strip(part)
                                     ELSE Strip(WithPrefix(lap, Strip(part))))]]
    IN  [parts \in Seq(Strings) |->
            IF Len(parts) < 2 \/ Overlap = 0 THEN parts
            ELSE Fold(step, <<Strip(Head(parts))>>, Tail(parts))]

(* Each part repeats the end of the one before, as far as it fits. *)
Overlapped(max) ==
    LET step == [done \in Seq(Strings) |-> [part \in Strings |->
                    LET size == Min({Overlap, Max({max - Len(Strip(part)) - 2, 0})})
                        tail == Last(done)
                        lap == Strip(SubSeq(tail, Max({Len(tail) - size, 0}) + 1, Len(tail)))
                    IN  Append(done, IF lap = <<>> THEN Strip(part)
                                     ELSE Strip(WithPrefix(lap, Strip(part))))]]
    IN  [parts \in Seq(Strings) |->
            IF Len(parts) < 2 \/ Overlap = 0 THEN parts
            ELSE Fold(step, <<Strip(Head(parts))>>, Tail(parts))]

SplitText(t, max) ==
    IF Len(t) <= max THEN <<t>>
    ELSE LET parts == Cut(t, max)
         IN  Overlapped(max)[IF parts = <<>> THEN FixedWidth(t, max) ELSE parts]

-----------------------------------------------------------------------------
(* Records.  doc.sections is empty for the types that are not cut at their *)
(* fields; a section adds its label to the prefix.                         *)

Document ==
    [prefix : Seq({0}), content : Strings, sections : Seq([label : Seq({0}), text : Strings])]

Whole(prefix, t) == IF t = <<>> THEN prefix ELSE WithPrefix(prefix, t)

(* Faulty variant: a part that is too long is cut off. *)
PrefixedCutOff(prefix, t) == <<SubSeq(Whole(prefix, t), 1, Min({MaxChars, Len(Whole(prefix, t))}))>>

(* A text under its prefix, in as many parts as it takes. *)
Prefixed(prefix, t) ==
    LET available == MaxChars - Len(prefix) - 2
    IN  IF Len(Whole(prefix, t)) <= MaxChars THEN <<Whole(prefix, t)>>
        ELSE IF t = <<>> \/ available <= 0 THEN SplitText(Whole(prefix, t), MaxChars)
        ELSE LET parts == SplitText(t, available)
             IN  [i \in DOMAIN parts |-> WithPrefix(prefix, parts[i])]

(* The texts of a record's chunks. *)
ChunkTexts(doc) ==
    IF doc.sections = <<>> THEN Prefixed(doc.prefix, doc.content)
    ELSE FlattenSeq([i \in DOMAIN doc.sections |->
            Prefixed(doc.prefix \o doc.sections[i].label, doc.sections[i].text)])

(* What a reader of the record can find in it. *)
LettersOf(doc) ==
    IF doc.sections = <<>> THEN Letters(doc.content)
    ELSE UNION {Letters(doc.sections[i].text) : i \in DOMAIN doc.sections}

=============================================================================
