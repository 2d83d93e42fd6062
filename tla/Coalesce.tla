------------------------------ MODULE Coalesce ------------------------------
(***************************************************************************)
(* What the worker does with one batch (worker_loop of scheduler.rs, from  *)
(* the coalescing of identical inputs to the replies).  It scans the jobs, *)
(* keeps one row per distinct input with the number of jobs behind it,     *)
(* runs the rows, and gives each job the output of its row.                *)
(*                                                                         *)
(* An input stands for the whole TranslationInput, which the code hashes   *)
(* and compares; Translation is what the backend makes of each.  Positions *)
(* count from 1 here and from 0 in the code.                               *)
(***************************************************************************)
EXTENDS Integers, Sequences, FiniteSets

CONSTANTS Inputs,      \* logical inputs
          Outputs,     \* what a backend may return for one
          Translation, \* what it should return
          Failure,     \* what the jobs of a failed batch are sent
          Batches      \* the batches to look at, as sequences of inputs

ASSUME CoalesceAssumption ==
    /\ Batches \subseteq Seq(Inputs) \ {<<>>}
    /\ Translation \in [Inputs -> Outputs]
    /\ Failure \notin Outputs

VARIABLES jobs,        \* the inputs of the batch, in the order of its jobs
          scanned,     \* jobs the loop has looked at
          unique,      \* unique_inputs
          byInput,     \* unique_by_input: the row of each input, 0 for none
          repetitions, \* jobs behind each row
          indices,     \* output_indices: the row of each scanned job
          phase,       \* scan, reply, fail
          outputs,     \* what the backend has returned
          replies      \* what the jobs were sent, in their order

vars == <<jobs, scanned, unique, byInput, repetitions, indices, phase, outputs, replies>>

TypeOK ==
    /\ jobs \in Seq(Inputs)
    /\ scanned \in 0 .. Len(jobs)
    /\ unique \in Seq(Inputs)
    /\ byInput \in [Inputs -> Nat]
    /\ repetitions \in Seq(Nat)
    /\ indices \in Seq(Nat)
    /\ phase \in {"scan", "reply", "fail"}
    /\ outputs \in Seq(Outputs)
    /\ replies \in Seq(Outputs \cup {Failure})
    /\ Len(indices) = scanned
    /\ Len(replies) <= Len(jobs)

Init ==
    /\ jobs \in Batches
    /\ scanned = 0
    /\ unique = <<>>
    /\ byInput = [input \in Inputs |-> 0]
    /\ repetitions = <<>>
    /\ indices = <<>>
    /\ phase = "scan"
    /\ outputs = <<>>
    /\ replies = <<>>

-----------------------------------------------------------------------------
\* Mutants: each replaces the definition its comment names.

\* Of Answer: rows are given to the jobs one after another.
AnswerInOrder ==
    /\ phase = "reply" /\ Len(replies) < Len(jobs)
    /\ replies' = Append(replies, outputs[(Len(replies) % Len(outputs)) + 1])
    /\ UNCHANGED <<jobs, scanned, unique, byInput, repetitions, indices, phase, outputs>>

\* The next job repeats an input of the batch.
ScanKnown ==
    /\ phase = "scan"
    /\ scanned < Len(jobs)
    /\ LET index == byInput[jobs[scanned + 1]]
       IN  /\ index # 0
           /\ repetitions' = [repetitions EXCEPT ![index] = @ + 1]
           /\ indices' = Append(indices, index)
    /\ scanned' = scanned + 1
    /\ UNCHANGED <<jobs, unique, byInput, phase, outputs, replies>>

\* The next job brings a new input: it gets the next row.
ScanNew ==
    /\ phase = "scan"
    /\ scanned < Len(jobs)
    /\ LET input == jobs[scanned + 1]
           index == Len(unique) + 1
       IN  /\ byInput[input] = 0
           /\ unique' = Append(unique, input)
           /\ byInput' = [byInput EXCEPT ![input] = index]
           /\ indices' = Append(indices, index)
    /\ repetitions' = Append(repetitions, 1)
    /\ scanned' = scanned + 1
    /\ UNCHANGED <<jobs, phase, outputs, replies>>

\* The backend translates the rows.
Infer ==
    /\ phase = "scan"
    /\ scanned = Len(jobs)
    /\ outputs' = [row \in 1 .. Len(unique) |-> Translation[unique[row]]]
    /\ phase' = "reply"
    /\ UNCHANGED <<jobs, scanned, unique, byInput, repetitions, indices, replies>>

\* The backend fails, or returns another number of outputs than it got rows.
InferFails ==
    /\ phase = "scan"
    /\ scanned = Len(jobs)
    /\ phase' = "fail"
    /\ UNCHANGED <<jobs, scanned, unique, byInput, repetitions, indices, outputs, replies>>

\* The next job gets the output of its row.  (A closed reply slot changes
\* nothing for the others: Scheduler models it.)
Answer ==
    /\ phase = "reply"
    /\ Len(replies) < Len(jobs)
    /\ replies' = Append(replies, outputs[indices[Len(replies) + 1]])
    /\ UNCHANGED <<jobs, scanned, unique, byInput, repetitions, indices, phase, outputs>>

\* fail_jobs: the next job gets the error.
AnswerError ==
    /\ phase = "fail"
    /\ Len(replies) < Len(jobs)
    /\ replies' = Append(replies, Failure)
    /\ UNCHANGED <<jobs, scanned, unique, byInput, repetitions, indices, phase, outputs>>

Answered ==
    /\ Len(replies) = Len(jobs)
    /\ UNCHANGED vars

Next == ScanKnown \/ ScanNew \/ Infer \/ InferFails \/ Answer \/ AnswerError \/ Answered

Spec == Init /\ [][Next]_vars

-----------------------------------------------------------------------------
(* Properties. *)

\* Whatever repeats whatever in the batch, a job gets the translation of its own
\* input or the error of its batch, never the output of another row.
EachJobItsOwn ==
    \A i \in DOMAIN replies : replies[i] \in {Translation[jobs[i]], Failure}

\* The backend runs each input once, and no input that no job asked for.
RowsAreDistinctInputs ==
    /\ \A k, l \in DOMAIN unique : unique[k] = unique[l] => k = l
    /\ \A k \in DOMAIN unique : \E i \in 1 .. scanned : unique[k] = jobs[i]

=============================================================================
