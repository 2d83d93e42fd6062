---------------------------- MODULE MCSegmenter ----------------------------
(* Segmenter for TLC: every short text over a small alphabet, and longer ones *)
(* for what needs more room.                                                  *)
EXTENDS Segmenter, TLC

\* W stands for a character of three bytes and two pieces, U for one that the
\* tokenizer spells out in more pieces than the limit.
WidthDef(c) == CASE c = "W" -> 3 [] c = "U" -> 4 [] OTHER -> 1

Costs(c) == CASE c \in {" ", "\n"} -> 0 [] c = "W" -> 2 [] c = "U" -> 4 [] OTHER -> 1

\* "aaa" is one word of the vocabulary, so that two letters have more pieces
\* than three.
CountDef(s) ==
    LET is(i) == i \in DOMAIN s /\ s[i] = "a"
        words == {i \in DOMAIN s : /\ is(i) /\ is(i + 1) /\ is(i + 2)
                                   /\ ~is(i - 1) /\ ~is(i + 3)}
        sum[i \in 0 .. Len(s)] == IF i = 0 THEN 0 ELSE sum[i - 1] + Costs(s[i])
    IN  sum[Len(s)] - 2 * Cardinality(words)

ShortTexts == UNION {[1 .. n -> {"a", "W", " ", "\n", ".", ",", "-"}] : n \in 0 .. 5}

Longer ==
    {<<"a", " ", "a", " ", "a", " ", "a", "a">>,
     <<"a", "a", "a", "a", "a", "a", "a", "a">>,
     <<"a", "a", "a", ".", " ", "A", ".", " ", "\n", "a", "!", " ">>,
     <<"(", "a", "a", ".", ")", " ", "A", "a", " ", "a", ".", "\"", " ", "a">>,
     <<"a", "a", ".", " ", "1", ".", "1", " ", "a", "a", "a", ".", " ", "A", " ">>,
     <<"a", ".", "a", ".", " ", "A", " ", ".", " ", "A", ".", " ", "a">>,
     <<"a", "-", "a", "a", " ", "-", "-", " ", "a", "-", " ", "a", "a", "a">>,
     <<"a", ":", "a", ",", "a", ";", " ", "a", "a", ",", " ", "a", "a">>,
     <<" ", "-", "a", "a", "a", "a", "-", "-">>,
     <<"W", "W", "a", "a", "a", "a", "W", "W", "W">>,
     <<"a", "a", "W", "U", "a", "a">>,
     <<"U", "U", "U", "U", "U">>,
     <<"a", " ", " ", "\n", "a", "\n", " ", "a", "a", "a", "a", " ", "\n">>}

TextsDef == ShortTexts \cup Longer

AbbreviationsDef == {<<"a", "a", ".">>}
AbbreviatedDef == {<<"a", "a", "a", ".">>}

=============================================================================
