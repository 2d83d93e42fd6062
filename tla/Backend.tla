------------------------------ MODULE Backend ------------------------------
(***************************************************************************)
(* How a CPU or Metal backend translates one batch: translate_with_engine  *)
(* of marian-cpu/src/backend.rs and translate_batch of marian-metal/src/   *)
(* backend.rs.  Each input has been cut into segments (Segmenter).  The    *)
(* backend runs the next segment of each input together with those of the  *)
(* others, charges what was generated to the budget of the input, and goes *)
(* on until every segment has a translation; an input without budget gets  *)
(* empty ones.  The CPU backend bounds the batches it gives its engine, the*)
(* Metal backend runs a repeated input in several rows.                    *)
(*                                                                         *)
(* A segment is the number of its source tokens, none for empty content,   *)
(* and the number of tokens that the model would generate for it; a        *)
(* translation is the number it did generate.                              *)
(***************************************************************************)
EXTENDS Integers, Sequences, FiniteSets, FiniteSetsExt, SequencesExt

CONSTANTS Devices,     \* "cpu", "metal"
          Workloads,   \* the batches to look at
          MaxSource,   \* MAXIMUM_SOURCE_TOKENS
          MaxSegments, \* MAXIMUM_TRANSLATION_SEGMENTS
          MaxRows,     \* MAXIMUM_ENGINE_BATCH
          MaxCells,    \* MAXIMUM_PADDED_ATTENTION_CELLS
          Width        \* duplicate_batch_width

\* One segment of any length fits an engine batch of its own.
ASSUME BackendAssumption ==
    /\ {MaxSource, MaxSegments, MaxRows, MaxCells, Width} \subseteq Nat \ {0}
    /\ MaxSource * MaxSource <= MaxCells

\* The segmenter has bounded the segments, the worker counts each input at least
\* once, and the model is not asked about a segment without content.
ASSUME WorkloadsAssumption ==
    /\ Workloads \subseteq Seq([segments : Seq([tokens : 0 .. MaxSource, wants : Nat]),
                               budget : Nat, count : Nat \ {0}])
    /\ \A workload \in Workloads : \A i \in DOMAIN workload :
           \A k \in DOMAIN workload[i].segments :
               workload[i].segments[k].tokens = 0 => workload[i].segments[k].wants = 0

VARIABLES device,    \* which backend this is
          inputs,    \* the batch: segments, budget and repetitions of each input
          rows,      \* the input of each row that is planned
          made,      \* what each segment of each row has become, -1 for nothing
          passed,    \* positions: segments of each row that are behind it
          remaining, \* remaining_output_tokens of each row
          running,   \* the rows in the current engine batch
          stage      \* plan, spend, pack, run, done, refused, failed

backendVars == <<device, inputs, rows, made, passed, remaining, running, stage>>

Segments(r) == inputs[rows[r]].segments

\* Segments of a row that have content and are still to be translated.
Todo(r) == {k \in passed[r] + 1 .. Len(Segments(r)) : Segments(r)[k].tokens > 0}

Waiting == {r \in DOMAIN rows : Todo(r) # {}}
Following(r) == Min(Todo(r))
Tokens(r) == Segments(r)[Following(r)].tokens

BackendInit ==
    /\ device \in Devices
    /\ inputs \in Workloads
    /\ rows = <<>>
    /\ made = <<>>
    /\ passed = <<>>
    /\ remaining = <<>>
    /\ running = {}
    /\ stage = "plan"

-----------------------------------------------------------------------------
(* Planning. *)

\* The Metal backend repeats an input as often as it was asked for, up to Width.
Expanded ==
    FlattenSeq([i \in DOMAIN inputs |-> [k \in 1 .. Min({inputs[i].count, Width}) |-> i]])

\* Mutants: each replaces the definition its comment names.

\* Of OutputRow: the rows are taken for the inputs.
OutputRowByPosition(i) == i

\* logical_output_indices: the row whose output an input gets.
OutputRow(i) == Min({r \in DOMAIN rows : rows[r] = i})

\* The batch needs more translated segments than allowed; the Metal backend asks
\* before every segment, also an empty one.
TooManySegments(planned) ==
    LET all == FlattenSeq([r \in DOMAIN planned |-> inputs[planned[r]].segments])
        filled(k) == {j \in 1 .. k : all[j].tokens > 0}
    IN  \E k \in DOMAIN all :
            /\ Cardinality(filled(k - 1)) >= MaxSegments
            /\ device = "metal" \/ all[k].tokens > 0

Plan ==
    /\ stage = "plan"
    /\ LET planned == IF device = "metal" THEN Expanded ELSE [i \in DOMAIN inputs |-> i]
       IN  \/ /\ TooManySegments(planned)
              /\ stage' = "refused"
              /\ UNCHANGED <<rows, made, passed, remaining>>
           \/ /\ ~TooManySegments(planned)
              /\ stage' = "spend"
              /\ rows' = planned
              /\ made' = [r \in DOMAIN planned |->
                             [k \in DOMAIN inputs[planned[r]].segments |->
                                 IF inputs[planned[r]].segments[k].tokens = 0 THEN 0 ELSE -1]]
              /\ passed' = [r \in DOMAIN planned |-> 0]
              /\ remaining' = [r \in DOMAIN planned |-> inputs[planned[r]].budget]
    /\ UNCHANGED <<device, inputs, running>>

-----------------------------------------------------------------------------
(* One turn of the loop. *)

\* Rows without budget get empty translations for what is left of them.
Spend ==
    /\ stage = "spend"
    /\ made' = [r \in DOMAIN rows |->
                   [k \in DOMAIN made[r] |->
                       IF remaining[r] = 0 /\ k \in Todo(r) THEN 0 ELSE made[r][k]]]
    /\ passed' = [r \in DOMAIN rows |->
                     IF remaining[r] = 0 THEN Len(Segments(r)) ELSE passed[r]]
    /\ stage' = "pack"
    /\ UNCHANGED <<device, inputs, rows, remaining, running>>

\* Of Room: each row is measured by its own length.
RoomAlone(taken, r) ==
    /\ Cardinality(taken) < MaxRows
    /\ (Cardinality(taken) + 1) * Tokens(r) * Tokens(r) <= MaxCells

\* Row r may join the rows already taken: all are padded to the longest.
Room(taken, r) ==
    LET longest == Max({Tokens(s) : s \in taken \cup {r}})
    IN  /\ Cardinality(taken) < MaxRows
        /\ (Cardinality(taken) + 1) * longest * longest <= MaxCells

\* The CPU backend takes the rows in order, passing over those without room.
Packed ==
    LET take[r \in 0 .. Len(rows)] ==
            IF r = 0 THEN {}
            ELSE take[r - 1] \cup (IF r \in Waiting /\ Room(take[r - 1], r) THEN {r} ELSE {})
    IN  take[Len(rows)]

\* The Metal backend takes them all.
MetalWork == Waiting

Pack ==
    /\ stage = "pack"
    /\ running' = IF device = "metal" THEN MetalWork ELSE Packed
    /\ \/ running' # {} /\ stage' = "run"
       \/ Waiting = {} /\ stage' = "done"
    /\ UNCHANGED <<device, inputs, rows, made, passed, remaining>>

\* What the engine generates for a row: all of it, or up to its limit.
Generated(r) == Min({Segments(r)[Following(r)].wants, remaining[r]})

\* The outputs are charged to the budgets and stored.
RunEngine ==
    /\ stage = "run"
    /\ made' = [r \in DOMAIN rows |->
                   IF r \in running THEN [made[r] EXCEPT ![Following(r)] = Generated(r)]
                   ELSE made[r]]
    /\ remaining' = [r \in DOMAIN rows |->
                        IF r \in running THEN remaining[r] - Generated(r) ELSE remaining[r]]
    /\ passed' = [r \in DOMAIN rows |-> IF r \in running THEN Following(r) ELSE passed[r]]
    /\ stage' = "spend"
    /\ UNCHANGED <<device, inputs, rows, running>>

\* Of EngineFails: the engine is asked again.
EngineFailsRetries ==
    /\ stage = "run"
    /\ stage' = "pack"
    /\ UNCHANGED <<device, inputs, rows, made, passed, remaining, running>>

\* The engine or the tokenizer returns an error: the whole batch has it.
EngineFails ==
    /\ stage = "run"
    /\ stage' = "failed"
    /\ UNCHANGED <<device, inputs, rows, made, passed, remaining, running>>

Ended == stage \in {"done", "refused", "failed"} /\ UNCHANGED backendVars

Step == Plan \/ Spend \/ Pack \/ RunEngine

BackendNext == Step \/ EngineFails \/ Ended

\* A function that is called goes on.
BackendSpec == BackendInit /\ [][BackendNext]_backendVars /\ WF_backendVars(Step)

-----------------------------------------------------------------------------
(* Properties. *)

\* What the earlier segments of an input leave of its budget.
Left(input) ==
    LET left[k \in 0 .. Len(input.segments)] ==
            IF k = 0 THEN input.budget
            ELSE left[k - 1] - Min({left[k - 1], input.segments[k].wants})
    IN  left

\* What an input gets when nothing else is in its batch: its segments one after
\* another, each within what the earlier ones have left of the budget.
ByItself(input) ==
    [k \in DOMAIN input.segments |-> Left(input)[k - 1] - Left(input)[k]]

\* The translation of an input does not depend on what it is batched with, on
\* the limits of the engine, or on how often it is repeated.
BatchingIsInvisible ==
    stage = "done" => \A i \in DOMAIN inputs : made[OutputRow(i)] = ByItself(inputs[i])

\* What the engine is given passes its validation, after padding, and every row
\* may generate something; so no input makes the batch of the others fail.  The
\* Metal backend has no limit of its own: it never runs more rows of an input
\* than jobs want it, and the scheduler bounds the jobs by MAX_BATCH_SIZE.
EngineAcceptsBatch ==
    stage = "run" =>
        /\ \A r \in running : remaining[r] > 0
        /\ device = "metal" =>
              \A i \in DOMAIN inputs :
                  Cardinality({r \in running : rows[r] = i}) <= inputs[i].count
        /\ device = "cpu" =>
              /\ Cardinality(running) <= MaxRows
              /\ LET longest == Max({Tokens(r) : r \in running})
                 IN  Cardinality(running) * longest * longest <= MaxCells

\* A batch ends: rows that were passed over because of a longer one get their
\* turn.
BatchEnds == <>(stage \in {"done", "refused", "failed"})

=============================================================================
