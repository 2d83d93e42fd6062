------------------------------- MODULE Decode -------------------------------
(***************************************************************************)
(* What decoding a batch promises, on either device.  A batch is a sequence *)
(* of rows; the text of a row grows one token after another along what     *)
(* greedy decoding of this row alone gives, however many steps the engine  *)
(* runs at once and whatever the other rows do.  The batch is answered     *)
(* when every text is complete, or it fails.                               *)
(***************************************************************************)
EXTENDS Integers, Sequences, SequencesExt

CONSTANTS
    Batches,     \* sequences of rows that are ever asked for
    Limit(_)     \* how many tokens a row may get

VARIABLES
    rows,        \* the batch being decoded, <<>> between batches
    texts,       \* for each row, the tokens so far
    outcome      \* how the last batch has ended

vars == <<rows, texts, outcome>>

\* The end-of-sentence token comes where the model puts it, and is kept.
Eos == 0
Token(row, i) == IF i = row.wants THEN Eos ELSE i

Reference(row) ==
    [i \in 1 .. IF row.wants < Limit(row) THEN row.wants ELSE Limit(row) |-> Token(row, i)]

Init ==
    /\ rows = <<>>
    /\ texts = <<>>
    /\ outcome = "none"

Start ==
    /\ rows = <<>>
    /\ rows' \in Batches
    /\ texts' = [r \in DOMAIN rows' |-> <<>>]
    /\ UNCHANGED outcome

Emit ==
    /\ rows # <<>>
    /\ DOMAIN texts' = DOMAIN rows
    /\ \A r \in DOMAIN rows :
           /\ IsPrefix(texts[r], texts'[r])
           /\ IsPrefix(texts'[r], Reference(rows[r]))
    /\ UNCHANGED <<rows, outcome>>

End ==
    /\ rows' = <<>>
    /\ texts' = <<>>

Answer ==
    /\ rows # <<>>
    /\ \A r \in DOMAIN rows : texts[r] = Reference(rows[r])
    /\ End
    /\ outcome' = "answered"

Abandon ==
    /\ rows # <<>>
    /\ End
    /\ outcome' = "failed"

\* A batch that is not valid is never begun.
Reject ==
    /\ rows = <<>>
    /\ outcome' = "rejected"
    /\ UNCHANGED <<rows, texts>>

Next == Reject \/ Start \/ Emit \/ Answer \/ Abandon

Spec == Init /\ [][Next]_vars

=============================================================================
