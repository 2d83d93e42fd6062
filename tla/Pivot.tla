-------------------------------- MODULE Pivot --------------------------------
(***************************************************************************)
(* A batch whose backend is a PivotBackend (pivot.rs): two models share    *)
(* the worker's thread, and a row in the direction neither offers goes     *)
(* through both.  The batch is Coalesce's, whose Infer, a single step of a *)
(* single model, these actions replace.  A direct route is such a model.   *)
(*                                                                         *)
(* A text is the sequence of what has been said of it: who wrote it and,   *)
(* for every model it went through, how many tokens the model made of it.  *)
(***************************************************************************)
EXTENDS Coalesce, SequencesExt

CONSTANTS Source, Middle, Target, \* languages: the models translate Source into
                                  \* Middle and Middle into Target
          MiddleBudget,           \* least budget of the first of two stages
          Fluent(_, _)            \* tokens a text takes in a language, uncut

ASSUME PivotAssumption ==
    /\ Source # Middle /\ Middle # Target /\ Source # Target
    /\ MiddleBudget \in Nat
    /\ \A input \in Inputs :
           /\ input = [text |-> input.text, source |-> input.source,
                       target |-> input.target, budget |-> input.budget]
           /\ input.budget \in Nat
           /\ Fluent(input.text, Middle) \in 0 .. MiddleBudget

VARIABLE middle \* outputs of the first of two stages, one per row, <<>> before

pivotVars == <<vars, middle>>

PivotInit ==
    /\ Init
    /\ middle = <<>>

-----------------------------------------------------------------------------
(* What a model makes of a row. *)

AtLeast(budget, other) == IF budget < other THEN other ELSE budget

Say(row) ==
    LET full == Fluent(row.text, row.target)
    IN  [text |-> Append(row.text, IF full < row.budget THEN full ELSE row.budget),
         counted |-> row.text,
         score |-> row.target]

Blank(text) == Last(text) = 0

\* It may return fewer outputs than it got rows.
Returned(batch) ==
    LET all == [k \in DOMAIN batch |-> Say(batch[k])]
    IN  {all} \cup {SubSeq(all, 1, k) : k \in 0 .. Len(batch) - 1}

-----------------------------------------------------------------------------
\* Mutants: each replaces the definition its comment names.

\* Of FirstRow: the caller's budget limits the text between the models.
FirstRowCut(row) == [row EXCEPT !.target = Middle]

\* Of Whole: only the number of outputs is looked at.
WholeIfCounted(batch, out) == Len(out) = Len(batch)

\* A row of the first of two stages: a short budget for the result must not cut
\* the text between the models.
FirstRow(row) ==
    [row EXCEPT !.target = Middle, !.budget = AtLeast(row.budget, MiddleBudget)]

SecondRow(row, text) == [row EXCEPT !.text = text, !.source = Middle]

\* A stage of two must have an output with a text for each row.
Whole(batch, out) ==
    /\ Len(out) = Len(batch)
    /\ \A k \in DOMAIN out : ~Blank(out[k].text)

\* The worker has handed its rows to the backend, and they have one direction.
Handed == phase = "scan" /\ scanned = Len(jobs)

Direction(row) == <<row.source, row.target>>

Routed(directions) ==
    /\ Handed
    /\ Direction(unique[1]) \in directions
    /\ \A k \in DOMAIN unique : Direction(unique[k]) = Direction(unique[1])

OneStage == {<<Source, Middle>>, <<Middle, Target>>}
TwoStages == {<<Source, Target>>}

\* Rows of different directions, or of one that no model offers.  (The worker
\* passes as many repetitions as rows.)
Refuse ==
    /\ Handed
    /\ ~Routed(OneStage \cup TwoStages)
    /\ InferFails
    /\ UNCHANGED middle

\* A model fails, in either stage, and with it the batch.
ModelFails ==
    /\ Routed(OneStage \cup TwoStages)
    /\ InferFails
    /\ UNCHANGED middle

\* One model translates the rows; the worker counts its outputs.
Direct ==
    /\ Routed(OneStage)
    /\ \E out \in Returned(unique) :
           IF Len(out) = Len(unique)
           THEN /\ outputs' = out
                /\ phase' = "reply"
                /\ UNCHANGED <<jobs, scanned, unique, byInput, repetitions, indices, replies>>
           ELSE InferFails
    /\ UNCHANGED middle

FirstStage ==
    /\ Routed(TwoStages)
    /\ middle = <<>>
    /\ LET batch == [k \in DOMAIN unique |-> FirstRow(unique[k])]
       IN  \E out \in Returned(batch) :
               IF Whole(batch, out)
               THEN middle' = out /\ UNCHANGED vars
               ELSE InferFails /\ UNCHANGED middle

\* The result counts the caller's tokens, and has no score of its own.
SecondStage ==
    /\ Routed(TwoStages)
    /\ middle # <<>>
    /\ LET batch == [k \in DOMAIN unique |-> SecondRow(unique[k], middle[k].text)]
       IN  \E out \in Returned(batch) :
               IF Whole(batch, out)
               THEN /\ outputs' = [k \in DOMAIN out |->
                           [out[k] EXCEPT !.counted = middle[k].counted, !.score = "none"]]
                    /\ phase' = "reply"
                    /\ UNCHANGED <<jobs, scanned, unique, byInput, repetitions, indices, replies>>
               ELSE InferFails
    /\ UNCHANGED middle

PivotNext ==
    \/ (ScanKnown \/ ScanNew \/ Answer \/ AnswerError \/ Answered) /\ UNCHANGED middle
    \/ Refuse \/ ModelFails \/ Direct \/ FirstStage \/ SecondStage

PivotSpec == PivotInit /\ [][PivotNext]_pivotVars

-----------------------------------------------------------------------------
(* Properties. *)

\* The translation of an input by itself: in its direct route what the model says,
\* else what the second model makes of all that the first one has to say, where
\* both say something.
Nothing == [text |-> <<>>, counted |-> <<>>, score |-> "none"]

Uncut(row) ==
    Say([row EXCEPT !.target = Middle, !.budget = AtLeast(row.budget, Fluent(row.text, Middle))])

Alone(input) ==
    LET first == Uncut(input)
        second == Say(SecondRow(input, first.text))
    IN  IF Direction(input) \in OneStage THEN Say(input)
        ELSE IF Direction(input) \in TwoStages /\ ~Blank(first.text) /\ ~Blank(second.text)
             THEN [second EXCEPT !.counted = input.text, !.score = "none"]
             ELSE Nothing

ASSUME TranslationIsAlone == \A input \in Inputs : Translation[input] = Alone(input)

\* Two models behind one interface are to the worker what Coalesce takes a backend
\* for: it answers a row with the translation of that row alone, in one step, or
\* fails the batch.  No row gets the text between the models, a text made of
\* nothing or of a cut one, or another row's.
ImplementsOneModel == Spec

=============================================================================
