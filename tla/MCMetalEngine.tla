---------------------------- MODULE MCMetalEngine ----------------------------
(* MetalEngine for TLC: a batch of two rows that end at different steps, one *)
(* row that the limit ends, and a longer source; scores of the longer one    *)
(* are too large for the classic attention.  Then a source beyond the        *)
(* positions, a row without candidates, and an empty row.                    *)
EXTENDS MetalEngine

Row(length, requested, wants) ==
    [length |-> length, requested |-> requested, wants |-> wants, listed |-> TRUE]

Unlisted(row) == [row EXCEPT !.listed = FALSE]

Environment(attention, precision) ==
    [attention |-> attention, precision |-> precision, profile |-> "auto", threshold |-> 3,
     budget |-> 4, steps |-> 3, rows |-> 2]

EnvironmentsDef ==
    {Environment(attention, precision) :
         attention \in {"auto", "classic", "flash"}, precision \in {"fp32", "mixed-f16"}} \cup
    {[Environment("auto", "fp32") EXCEPT !.profile = "generic", !.threshold = Unset, !.budget = Unset,
                                         !.steps = Unset, !.rows = Unset],
     [Environment("auto", "fp32") EXCEPT !.steps = 9], [Environment("auto", "fp32") EXCEPT !.threshold = 0]}

AddressesDef == 1 .. 60

BatchesDef == {<<Row(1, 3, 1), Row(2, 4, 9)>>, <<Row(1, 2, 2)>>, <<Row(4, 1, 5)>>,
     <<Row(9, 1, 1)>>, <<Unlisted(Row(1, 1, 1))>>, <<Row(1, 1, 1), Row(0, 1, 1)>>}

=============================================================================
