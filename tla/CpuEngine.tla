------------------------------ MODULE CpuEngine ------------------------------
(***************************************************************************)
(* The CPU executors.  Both, FP32 and Q8, run one graph of tensor          *)
(* operations, each from its own code: the FP32 engine allocates every     *)
(* result, the Q8 engine takes it from a pool of buffers and recycles it.  *)
(*                                                                         *)
(* A buffer holds, for each position of each row, what the values there    *)
(* depend on: <<"source", row, position>> for a token of the padded        *)
(* source, <<"token", row, step>> for a token that has been generated.     *)
(* An executor is [kind, load, place, model, shortlist, pooled]: its       *)
(* precision, which load has brought its weights into memory and from      *)
(* where, the parts of the model, the kind of its shortlist, and how many  *)
(* buffers its pool has.                                                   *)
(***************************************************************************)
EXTENDS ModelFiles, FiniteSetsExt

CONSTANTS
    Batches,          \* sequences of [length, requested, wants, listed]
    Factor,           \* max_length_factor
    MaxSteps,         \* MAXIMUM_GENERATION_STEPS
    MaximumPosition,
    MaxBatch,         \* MAXIMUM_ENGINE_BATCH
    MaxSource,        \* MAXIMUM_SOURCE_TOKENS
    MaxCells,         \* MAXIMUM_PADDED_ATTENTION_CELLS
    MaxRequests       \* bound: requests in a behaviour

ASSUME CpuEngineAssumption ==
    /\ {Factor, MaxSteps, MaximumPosition, MaxBatch, MaxSource, MaxCells} \subseteq Nat \ {0}
    /\ MaxRequests \in Nat
    /\ Batches \subseteq
           Seq([length : Nat, requested : Nat, wants : Nat \ {0}, listed : BOOLEAN]) \ {<<>>}

VARIABLES
    executors,   \* a function from workers to executors
    busy,        \* the worker that runs the request
    request,     \* its rows, <<>> between requests
    stage,       \* where translate_token_ids is
    plan,        \* operations still to be run in this stage
    buffers,     \* the results it still refers to
    states,      \* for each decoder layer and row
    previous, finished, step, generated, \* locals of translate_token_ids
    served,      \* requests so far
    outcome      \* how the last request has ended

request_vars == <<busy, request, stage, plan, buffers, states, previous, finished, step, generated>>
engine == <<executors, request_vars, served, outcome>>

-----------------------------------------------------------------------------
(* The graph of the FP32 engine. *)

Op(does, reads, makes) == [does |-> does, reads |-> reads, makes |-> makes, frees |-> {}]

Encoded(l) == <<"encoder", l>>
Key(l) == <<"cross key", l>>
Value(l) == <<"cross value", l>>
Decoded(l) == <<"decoder", l>>

FeedForward(in, out, l) ==
    <<Op("linear", <<in>>, <<"hidden", l>>),
      Op("linear", <<<<"hidden", l>>>>, <<"ffn", l>>),
      Op("residual", <<<<"ffn", l>>, in>>, out)>>

Encode ==
    LET Layer(l) ==
            LET v(name) == <<name, l>>
            IN  <<Op("linear", <<Encoded(l - 1)>>, v("query")),
                  Op("linear", <<Encoded(l - 1)>>, v("key")),
                  Op("linear", <<Encoded(l - 1)>>, v("value")),
                  Op("attend", <<v("query"), v("key"), v("value")>>, v("attended")),
                  Op("linear", <<v("attended")>>, v("projected")),
                  Op("residual", <<v("projected"), Encoded(l - 1)>>, v("normalized"))>> \o
                FeedForward(v("normalized"), Encoded(l), l)
        Cross(l) == <<Op("linear", <<Encoded(EncoderLayers)>>, Key(l)),
                      Op("linear", <<Encoded(EncoderLayers)>>, Value(l))>>
    IN  <<Op("embedding", <<>>, Encoded(0))>> \o Layers(EncoderLayers, Layer) \o
        Layers(DecoderLayers, Cross)

DecodeStep ==
    LET Layer(l) ==
            LET v(name) == <<name, l>>
            IN  <<Op("linear", <<Decoded(l - 1)>>, v("update")),
                  Op("linear", <<Decoded(l - 1)>>, v("forget")),
                  Op("ssru", <<v("update"), v("forget"), Decoded(l - 1)>>, v("recurrent")),
                  Op("linear", <<v("recurrent")>>, v("query")),
                  Op("attend", <<v("query"), Key(l), Value(l)>>, v("attended")),
                  Op("linear", <<v("attended")>>, v("context")),
                  Op("residual", <<v("context"), v("recurrent")>>, v("normalized"))>> \o
                FeedForward(v("normalized"), Decoded(l), l)
    IN  <<Op("input", <<>>, Decoded(0))>> \o Layers(DecoderLayers, Layer)

-----------------------------------------------------------------------------
(* The graph of the Q8 engine, with the buffers that it recycles after an   *)
(* operation.                                                               *)

Freeing(op, values) == [op EXCEPT !.frees = values]

Q8FeedForward(in, out, l) ==
    <<Op("linear", <<in>>, <<"hidden", l>>),
      Op("linear", <<<<"hidden", l>>>>, <<"ffn", l>>),
      Freeing(Op("residual", <<<<"ffn", l>>, in>>, out), {<<"hidden", l>>, <<"ffn", l>>, in})>>

\* The last encoder output is recycled once every cross cache is made.
Q8Encode ==
    LET Layer(l) ==
            LET v(name) == <<name, l>>
                in == Encoded(l - 1)
            IN  <<Op("linear", <<in>>, v("query")), Op("linear", <<in>>, v("key")),
                  Op("linear", <<in>>, v("value")),
                  Freeing(Op("attend", <<v("query"), v("key"), v("value")>>, v("attended")),
                          {v("query"), v("key"), v("value")}),
                  Freeing(Op("linear", <<v("attended")>>, v("projected")), {v("attended")}),
                  Freeing(Op("residual", <<v("projected"), in>>, v("normalized")),
                          {v("projected"), in})>> \o
                Q8FeedForward(v("normalized"), Encoded(l), l)
        Cross(l) == <<Op("linear", <<Encoded(EncoderLayers)>>, Key(l)),
                      Freeing(Op("linear", <<Encoded(EncoderLayers)>>, Value(l)),
                              IF l = DecoderLayers THEN {Encoded(EncoderLayers)} ELSE {})>>
    IN  <<Op("embedding", <<>>, Encoded(0))>> \o Layers(EncoderLayers, Layer) \o
        Layers(DecoderLayers, Cross)

Q8DecodeStep ==
    LET Layer(l) ==
            LET v(name) == <<name, l>>
                in == Decoded(l - 1)
            IN  <<Op("linear", <<in>>, v("update")), Op("linear", <<in>>, v("forget")),
                  Freeing(Op("ssru", <<v("update"), v("forget"), in>>, v("recurrent")),
                          {v("update"), v("forget"), in}),
                  Op("linear", <<v("recurrent")>>, v("query")),
                  Freeing(Op("attend", <<v("query"), Key(l), Value(l)>>, v("attended")), {v("query")}),
                  Freeing(Op("linear", <<v("attended")>>, v("context")), {v("attended")}),
                  Freeing(Op("residual", <<v("context"), v("recurrent")>>, v("normalized")),
                          {v("context"), v("recurrent")})>> \o
                Q8FeedForward(v("normalized"), Decoded(l), l)
    IN  <<Op("input", <<>>, Decoded(0))>> \o Layers(DecoderLayers, Layer)

-----------------------------------------------------------------------------
(* The request and its limits. *)

Batch == Len(request)
Lengths == [r \in DOMAIN request |-> request[r].length]
SourceLength == Max(ToSet(Lengths))

ValidateWorkShape == SourceLength <= MaxSource /\ Batch * SourceLength * SourceLength <= MaxCells

ValidateBatch ==
    /\ Batch <= MaxBatch
    /\ \A r \in DOMAIN request : Lengths[r] > 0
    /\ ValidateWorkShape

\* Mutant of Limit: the request alone says how long an output may be.
LimitUnbounded(row) == row.requested

Limit(row) == Min({row.requested, row.length * Factor, MaxSteps, MaximumPosition})

GenerationLimit == Max({Limit(request[r]) : r \in DOMAIN request})

\* LexicalShortlist::candidates fails for a row without the end of the sentence.
PrepareCandidates(shortlist) ==
    CASE shortlist \in {"absent", "frequent"} -> TRUE
      [] shortlist = "lexical" -> \A r \in DOMAIN request : request[r].listed
      [] shortlist = "useless" -> FALSE

-----------------------------------------------------------------------------
(* What the operations compute. *)

\* embedding: the padding too.
Embedded == [c \in (DOMAIN request) \X (1 .. SourceLength) |-> {<<"source", c[1], c[2]>>}]

\* decoder_input
DecoderInput == [c \in (DOMAIN request) \X {1} |-> previous[c[1]]]

\* matmul, and Q8Linear::run_into: row by row.
Matmul(in) == in

\* residual_layer_norm, over a position
ResidualLayerNorm(in, residual) == [c \in DOMAIN in |-> in[c] \cup residual[c]]

\* ssru_update_layer_norm moves the state, then normalises it with the residual.
SsruState(update, forget, state) ==
    [r \in DOMAIN request |-> forget[<<r, 1>>] \cup update[<<r, 1>>] \cup state[r]]

\* Mutant of Attention: the padded keys take part.
AttentionPadded(query, key, value) ==
    [c \in DOMAIN query |->
        query[c] \cup UNION {key[<<c[1], j>>] \cup value[<<c[1], j>>] : j \in 1 .. SourceLength}]

Attention(query, key, value) ==
    [c \in DOMAIN query |->
        query[c] \cup UNION {key[<<c[1], j>>] \cup value[<<c[1], j>>] : j \in 1 .. Lengths[c[1]]}]

Result(op) ==
    LET In(i) == buffers[op.reads[i]]
    IN  CASE op.does = "embedding" -> Embedded
          [] op.does = "input" -> DecoderInput
          [] op.does = "linear" -> Matmul(In(1))
          [] op.does = "attend" -> Attention(In(1), In(2), In(3))
          [] op.does = "residual" -> ResidualLayerNorm(In(1), In(2))
          [] op.does = "ssru" ->
                 LET state == SsruState(In(1), In(2), states[op.makes[2]])
                 IN  ResidualLayerNorm([c \in DOMAIN In(3) |-> state[c[1]]], In(3))

\* take_buffer and recycle of the Q8 engine; a pool keeps at most 32 buffers.
\* Mutant of TakeBuffer: what is in the pool is never used again.
TakeBufferAnew(pooled) == pooled

TakeBuffer(pooled) == IF pooled > 0 THEN pooled - 1 ELSE 0

Recycle(pooled, n) == Min({pooled + n, 32})

Pooled(op) ==
    IF executors[busy].kind = "q8"
    THEN Recycle(TakeBuffer(executors[busy].pooled), Cardinality(op.frees))
    ELSE 0

\* select_token: what greedy decoding of this row alone selects, if the weights
\* are the model's and the values depend on nothing but this row, and on all of it.
Selected(r, state) ==
    LET own == {<<"source", r, p>> : p \in 1 .. Lengths[r]} \cup {<<"token", r, i>> : i \in 1 .. step}
    IN  IF state = own /\ Whole(executors[busy].model)
        THEN IF step + 1 = request[r].wants THEN 0 ELSE step + 1
        ELSE -1

-----------------------------------------------------------------------------
(* translate_token_ids. *)

InitEngine ==
    /\ busy = 0
    /\ request = <<>>
    /\ stage = "idle"
    /\ plan = <<>>
    /\ buffers = <<>>
    /\ states = <<>>
    /\ previous = <<>>
    /\ finished = <<>>
    /\ step = 0
    /\ generated = <<>>
    /\ served = 0
    /\ outcome = "none"

Begin(worker) ==
    /\ stage = "idle"
    /\ served < MaxRequests
    /\ served' = served + 1
    /\ busy' = worker
    /\ request' \in Batches
    /\ generated' = [r \in DOMAIN request' |-> <<>>]
    /\ stage' = "begin"
    /\ UNCHANGED <<executors, plan, buffers, states, previous, finished, step, outcome>>

End(how) ==
    /\ busy' = 0
    /\ request' = <<>>
    /\ stage' = "idle"
    /\ plan' = <<>>
    /\ buffers' = <<>>
    /\ states' = <<>>
    /\ previous' = <<>>
    /\ finished' = <<>>
    /\ step' = 0
    /\ generated' = <<>>
    /\ outcome' = how
    /\ UNCHANGED <<executors, served>>

Refuse ==
    /\ stage = "begin"
    /\ ~ValidateBatch
    /\ End("failed")

BeginEncode ==
    /\ stage = "begin"
    /\ ValidateBatch
    /\ stage' = "encode"
    /\ plan' = IF executors[busy].kind = "q8" THEN Q8Encode ELSE Encode
    /\ UNCHANGED <<executors, busy, request, buffers, states, previous, finished, step, generated,
                   served, outcome>>

PositionOutOfRange == plan # <<>> /\ Head(plan).does = "input" /\ step >= MaximumPosition

RunNext ==
    /\ plan # <<>>
    /\ ~PositionOutOfRange
    /\ LET op == Head(plan)
           kept == DOMAIN buffers \ op.frees
           result == Result(op)
       IN  /\ buffers' = [v \in kept \cup {op.makes} |->
                             IF v = op.makes THEN result ELSE buffers[v]]
           /\ executors' = [executors EXCEPT ![busy].pooled = Pooled(op)]
           /\ states' = IF op.does = "ssru"
                        THEN [states EXCEPT ![op.makes[2]] =
                                 SsruState(buffers[op.reads[1]], buffers[op.reads[2]], @)]
                        ELSE states
    /\ plan' = Tail(plan)
    /\ UNCHANGED <<busy, request, stage, previous, finished, step, generated, served, outcome>>

BeginDecode ==
    /\ stage = "encode"
    /\ plan = <<>>
    /\ PrepareCandidates(executors[busy].shortlist)
    /\ stage' = "loop"
    /\ states' = [l \in 1 .. DecoderLayers |-> [r \in DOMAIN request |-> {}]]
    /\ previous' = [r \in DOMAIN request |-> {}]
    /\ finished' = [r \in DOMAIN request |-> FALSE]
    /\ step' = 0
    /\ UNCHANGED <<executors, busy, request, plan, buffers, generated, served, outcome>>

\* No candidates for a row, or a position beyond the table of positions.
Fail ==
    /\ \/ stage = "encode" /\ plan = <<>> /\ ~PrepareCandidates(executors[busy].shortlist)
       \/ PositionOutOfRange
    /\ End("failed")

BeginStep ==
    /\ stage = "loop"
    /\ step < GenerationLimit
    /\ LET ended == [r \in DOMAIN request |-> finished[r] \/ step >= Limit(request[r])]
       IN  /\ finished' = ended
           /\ stage' = IF \A r \in DOMAIN request : ended[r] THEN "output" ELSE "decode"
           /\ plan' = IF stage' = "output" THEN <<>>
                      ELSE IF executors[busy].kind = "q8" THEN Q8DecodeStep ELSE DecodeStep
    /\ UNCHANGED <<executors, busy, request, buffers, states, previous, step, generated, served,
                   outcome>>

\* One token for every row that is not finished; the Q8 engine recycles the
\* last decoder output.
Select ==
    /\ stage = "decode"
    /\ plan = <<>>
    /\ LET state == buffers[Decoded(DecoderLayers)]
           Next(r) == Selected(r, state[<<r, 1>>])
           recycled == executors[busy].kind = "q8"
       IN  /\ generated' = [r \in DOMAIN request |->
                               IF finished[r] THEN generated[r] ELSE Append(generated[r], Next(r))]
           /\ previous' = [r \in DOMAIN request |->
                              IF finished[r] THEN previous[r] ELSE {<<"token", r, step + 1>>}]
           /\ finished' = [r \in DOMAIN request |-> finished[r] \/ Next(r) = 0]
           /\ buffers' = [v \in DOMAIN buffers \ {Decoded(DecoderLayers)} |-> buffers[v]]
           /\ executors' = [executors EXCEPT ![busy].pooled = IF recycled THEN Recycle(@, 1) ELSE 0]
    /\ step' = step + 1
    /\ stage' = "loop"
    /\ UNCHANGED <<busy, request, plan, states, served, outcome>>

Return ==
    /\ stage = "output" \/ (stage = "loop" /\ step = GenerationLimit)
    /\ End("answered")

Translate ==
    Refuse \/ BeginEncode \/ RunNext \/ BeginDecode \/ Fail \/ BeginStep \/ Select \/ Return

-----------------------------------------------------------------------------
(* Properties. *)

\* Whatever rows share a batch, whichever ends first and however they are padded,
\* a row gets what decoding it alone would give, from either executor: nothing of
\* the padding, of another row or of an earlier request reaches it.
Decoding == INSTANCE Decode WITH rows <- request, texts <- generated
ImplementsDecode == Decoding!Spec

\* A batch that validate_batch takes is decoded to its end, unless a row has no
\* end of the sentence among its candidates: no limit lets a step go beyond the
\* table of positions.
ValidBatchesAreDecoded ==
    [][stage \notin {"idle", "begin"} /\ stage' = "idle" /\ outcome' = "failed" =>
           ~PrepareCandidates(executors[busy].shortlist)]_engine

\* A Q8 executor keeps what its largest stage needs at once, however many
\* requests it has served: an encoder layer's input, its three projections and
\* their result, or a decoder layer beside the cross caches.
MostBuffers == Max({5, 2 * DecoderLayers + 4})

RetainedIsBounded ==
    \A w \in DOMAIN executors :
        executors[w].kind = "q8" =>
            executors[w].pooled + (IF w = busy THEN Cardinality(DOMAIN buffers) ELSE 0) <= MostBuffers

=============================================================================
