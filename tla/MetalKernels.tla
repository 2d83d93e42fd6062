---------------------------- MODULE MetalKernels ----------------------------
(***************************************************************************)
(* The kernels of the Metal engine: which ones each function of ops.rs and *)
(* engine.rs encodes, in which order, what each reads, and what it makes.  *)
(*                                                                         *)
(* A value of the inference graph is named by <<name, layer, step>>; the   *)
(* product of a matrix multiplication that a later kernel turns in place   *)
(* into v is Raw(v).  Sizes are in elements.                               *)
(***************************************************************************)
EXTENDS MetalTuning, Sequences, SequencesExt

CONSTANTS
    EncoderLayers, DecoderLayers,
    FfnDim,
    MaxScores    \* MAXIMUM_SCORE_BYTES, in elements

ASSUME KernelsAssumption ==
    /\ {EncoderLayers, DecoderLayers, FfnDim} \subseteq Nat \ {0}
    /\ MaxScores \in Nat

Raw(v) == <<"raw", v>>

-----------------------------------------------------------------------------
(* Kernels. *)

Kernel(reads, makes, size) ==
    [reads |-> reads, makes |-> makes, size |-> size,
     turns |-> {},     \* values turned in place into others
     keep |-> FALSE,   \* the result lives as long as the request
     views |-> {},     \* operands that MPS sees as matrices of some shape
     needs |-> {}]     \* operands checked to have some number of elements

InPlace(turns, reads) == [Kernel(reads, <<>>, 0) EXCEPT !.turns = turns]

Needing(kernel, needs) == [kernel EXCEPT !.needs = needs]

\* matmul_with_activation: a bias or a ReLU is a second kernel after MPS.
MatmulWithActivation(tuning, in, out, rows, cols, inner, activated, persistent) ==
    LET mps == UseMps(tuning, rows, cols)
        product == IF mps /\ activated THEN Raw(out) ELSE out
        multiply == [Needing(Kernel({in}, product, rows * cols), {<<in, rows * inner>>})
                        EXCEPT !.keep = persistent,
                               !.views = IF mps THEN {<<in, <<rows, inner>>>>,
                                                      <<product, <<rows, cols>>>>}
                                         ELSE {}]
    IN  <<multiply>> \o
        IF mps /\ activated THEN <<InPlace({<<product, out>>}, {})>> ELSE <<>>

MatMul(tuning, in, out, rows, cols, inner, biased) ==
    MatmulWithActivation(tuning, in, out, rows, cols, inner, biased, FALSE)

MatmulPersistent(tuning, in, out, rows, cols, inner) ==
    MatmulWithActivation(tuning, in, out, rows, cols, inner, TRUE, TRUE)

LinearResidualNorm(tuning, in, residual, out, rows, inner) ==
    MatMul(tuning, in, <<"product", out>>, rows, Dim, inner, FALSE) \o
    <<Needing(Kernel({<<"product", out>>, residual}, out, rows * Dim),
              {<<<<"product", out>>, rows * Dim>>, <<residual, rows * Dim>>})>>

\* attend: one kernel, or scores, softmax in place, and their application.
Attend(tuning, query, keyValue, lengths, out, batch, queries, keys) ==
    LET scores == <<"scores", out>>
        size == batch * queries * Dim
    IN  IF UseFlash(tuning, queries, keys)
        THEN <<Kernel({query, keyValue, lengths}, out, size)>>
        ELSE <<Kernel({query, keyValue, lengths}, Raw(scores), batch * Heads * queries * keys),
               InPlace({<<Raw(scores), scores>>}, {}),
               Kernel({scores, keyValue}, out, size)>>

\* attend refuses a score matrix beyond its limit.
ScoresTooLarge(kernel) ==
    /\ kernel.makes # <<>>
    /\ kernel.makes[1] = "raw"
    /\ kernel.makes[2][1] = "scores"
    /\ kernel.size > MaxScores

SsruNorm(projection, state, advanced, residual, out, rows) ==
    <<Needing([Kernel({projection, residual}, out, rows * Dim)
                   EXCEPT !.turns = {<<state, advanced>>}],
              {<<projection, rows * Dim * 2>>, <<state, rows * Dim>>, <<residual, rows * Dim>>})>>

FeedForward(tuning, in, hidden, out, rows) ==
    MatmulWithActivation(tuning, in, hidden, rows, FfnDim, Dim, TRUE, FALSE) \o
    LinearResidualNorm(tuning, hidden, in, out, rows, FfnDim)

-----------------------------------------------------------------------------
(* The encoder. *)

Lengths == <<"lengths", 0, 0>>
Encoded(layer) == <<"encoder", layer, 0>>
Cross(layer) == <<"cross", layer, 0>>

Embedding(batch, length) ==
    <<Kernel({<<"tokens", 0, 0>>}, Encoded(0), batch * length * Dim)>>

EncodeLayer(tuning, layer, batch, length) ==
    LET v(name) == <<name, layer, 0>>
        rows == batch * length
    IN  MatMul(tuning, Encoded(layer - 1), v("qkv"), rows, 3 * Dim, Dim, TRUE) \o
        Attend(tuning, v("qkv"), v("qkv"), Lengths, v("attended"), batch, length, length) \o
        LinearResidualNorm(tuning, v("attended"), Encoded(layer - 1), v("normalized"), rows, Dim) \o
        FeedForward(tuning, v("normalized"), v("hidden"), Encoded(layer), rows)

BuildCrossCache(tuning, batch, length) ==
    FlattenSeq([l \in 1 .. DecoderLayers |->
        MatmulPersistent(tuning, Encoded(EncoderLayers), Cross(l), batch * length, 2 * Dim, Dim)])

-----------------------------------------------------------------------------
(* One step of the decoder.  Steps are numbered from 0; a state with number *)
(* s is the one that step s reads.                                          *)

Decoded(layer, step) == <<"decoder", layer, step>>
State(layer, step) == <<"state", layer, step>>
Previous(step) == <<"previous", 0, step>>
Finished(step) == <<"finished", 0, step>>
History(step) == <<"history", 0, step>>

DecoderInput(batch, step) == <<Kernel({Previous(step)}, Decoded(0, step), batch * Dim)>>

DecodeLayer(tuning, layer, step, batch, length) ==
    LET v(name) == <<name, layer, step>>
        in == Decoded(layer - 1, step)
    IN  MatMul(tuning, in, v("projection"), batch, 2 * Dim, Dim, FALSE) \o
        SsruNorm(v("projection"), State(layer, step), State(layer, step + 1), in, v("recurrent"), batch) \o
        MatMul(tuning, v("recurrent"), v("query"), batch, Dim, Dim, TRUE) \o
        Attend(tuning, v("query"), Cross(layer), Lengths, v("answer"), batch, 1, length) \o
        LinearResidualNorm(tuning, v("answer"), v("recurrent"), v("context"), batch, Dim) \o
        FeedForward(tuning, v("context"), v("inner"), Decoded(layer, step), batch)

SelectAndAdvance(step) ==
    <<InPlace({<<Previous(step), Previous(step + 1)>>, <<Finished(step), Finished(step + 1)>>,
               <<History(step), History(step + 1)>>},
              {Decoded(DecoderLayers, step), <<"counts", 0, 0>>, <<"ids", 0, 0>>, <<"limits", 0, 0>>})>>

DecodeStep(tuning, step, batch, length) ==
    DecoderInput(batch, step) \o
    FlattenSeq([l \in 1 .. DecoderLayers |-> DecodeLayer(tuning, l, step, batch, length)]) \o
    SelectAndAdvance(step)

=============================================================================
