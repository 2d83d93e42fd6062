----------------------------- MODULE MCBackend -----------------------------
(* Backend for TLC: every batch of up to three of a few inputs. *)
EXTENDS Backend, TLC

S(tokens, wants) == [tokens |-> tokens, wants |-> wants]

Texts == {<<S(0, 0)>>, <<S(3, 2)>>, <<S(1, 1), S(2, 3)>>,
          <<S(2, 2), S(0, 0), S(1, 1), S(3, 1)>>}

InputsDef == [segments : Texts, budget : {1, 3, 6}, count : {1, 3}]

WorkloadsDef ==
    UNION {[1 .. n -> InputsDef] : n \in 1 .. 2} \cup
    {<<i, j, k>> : i \in {x \in InputsDef : x.count = 1},
                   j \in {x \in InputsDef : x.budget = 3},
                   k \in {x \in InputsDef : x.count = 1 /\ x.budget = 6}}

=============================================================================
