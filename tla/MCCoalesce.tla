----------------------------- MODULE MCCoalesce -----------------------------
(* Coalesce with a pivot backend for TLC: every batch of up to four jobs over   *)
(* nine inputs.  Of the texts to be translated from ja into zh, the first model *)
(* says nothing of "void", the second nothing of "lost", and both budgets of     *)
(* "long" are shorter than its translation.                                      *)
EXTENDS Pivot

MiddleBudgetDef == 3

In(text, from, to, budget) ==
    [text |-> <<text>>, source |-> from, target |-> to, budget |-> budget]

InputsDef ==
    {In("long", "ja", "zh", 1), In("long", "ja", "zh", 2), In("word", "ja", "zh", 2),
     In("void", "ja", "zh", 2), In("lost", "ja", "zh", 2), In("long", "ja", "en", 1),
     In("word", "en", "zh", 2), In("void", "ja", "en", 1), In("word", "zh", "ja", 2)}

FluentDef(text, to) ==
    CASE text = <<"void">> /\ to = "en" -> 0
      [] text[1] = "lost" /\ to = "zh" -> 0
      [] Len(text) = 2 /\ text[2] = 0 -> 1
      [] text[1] = "long" -> 3
      [] OTHER -> 1

OutputsDef == {Alone(input) : input \in InputsDef}
TranslationDef == [input \in InputsDef |-> Alone(input)]
BatchesDef == BoundedSeq(InputsDef, 4) \ {<<>>}

=============================================================================
