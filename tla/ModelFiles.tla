----------------------------- MODULE ModelFiles -----------------------------
(***************************************************************************)
(* The files a model comes in, and the loaders that read them: safetensors *)
(* by the FP32 engine and by the Metal engine, Marian's Q8 binary by the   *)
(* Q8 engine, and the bundle that the Q8 engine packs for the Worker.      *)
(*                                                                         *)
(* A tensor is named <<block, layer, weight>>, the activation scale of a   *)
(* weight has one more component.  What a tensor holds is the name that    *)
(* the intact file has it under, so that a loaded model tells where each   *)
(* of its parts has come from.  A part is the tensors that become one      *)
(* object of the engine: a linear with its scale and bias, a matrix, or    *)
(* columns packed side by side.                                            *)
(***************************************************************************)
EXTENDS Integers, Sequences, FiniteSets, SequencesExt

CONSTANTS
    EncoderLayers,
    DecoderLayers

\* The manifest takes one architecture, with layers of both kinds.
ASSUME LayersAssumption == EncoderLayers \in Nat /\ DecoderLayers \in Nat \ {0}

Wemb(side) == <<side, 0, "Wemb">>
LogitBias == <<"decoder_ff", 0, "logit_out_b">>
ModelYml == <<"special", 0, "model.yml">>
ScaleOf(weight) == Append(weight, "QuantMultA")

Tensor(name, type) == [name |-> name, type |-> type, fits |-> TRUE, sound |-> TRUE, holds |-> name]

\* What a loader gives: the parts in the order it makes them, or nothing.
Refused == <<>>
Parts(model) == ToSet(model)
Whole(model) == model # Refused /\ \A part \in Parts(model) : part.tensors = part.holds

Singles(names) == [i \in DOMAIN names |-> <<names[i]>>]
Layers(n, Layer(_)) == FlattenSeq([l \in 1 .. n |-> Layer(l)])

-----------------------------------------------------------------------------
(* Safetensors: every tensor is taken out of the map once, and none may be  *)
(* left.                                                                    *)

Fp32Attention(block, l) ==
    Singles([w \in 1 .. 10 |->
        <<block, l, <<"Wq", "Wk", "Wv", "Wo", "bq", "bk", "bv", "bo", "Wo_ln_scale", "Wo_ln_bias">>[w]>>])

Fp32Ffn(block, l) ==
    Singles([w \in 1 .. 6 |-> <<block, l, <<"W1", "W2", "b1", "b2", "ffn_ln_scale", "ffn_ln_bias">>[w]>>])

Fp32Ssru(block, l) ==
    Singles([w \in 1 .. 5 |-> <<block, l, <<"W", "Wf", "bf", "ffn_ln_scale", "ffn_ln_bias">>[w]>>])

Fp32Parts ==
    LET Encoder(l) == Fp32Attention("encoder_self", l) \o Fp32Ffn("encoder_ffn", l)
        Decoder(l) == Fp32Ssru("decoder_rnn", l) \o Fp32Attention("decoder_context", l) \o
                      Fp32Ffn("decoder_ffn", l)
    IN  Singles(<<Wemb("encoder"), Wemb("decoder"), LogitBias>>) \o
        Layers(EncoderLayers, Encoder) \o Layers(DecoderLayers, Decoder)

Safetensors == [map |-> {Tensor(part[1], "f32") : part \in ToSet(Fp32Parts)}]

\* The tensors that an engine takes; only the CPU engine looks for values that
\* are not finite.
RemoveTensor(tensors) == {t \in tensors : t.type = "f32" /\ t.fits}

TakeTensor(tensors) == {t \in RemoveTensor(tensors) : t.sound}

\* A part as it is in the file, or nothing when one of its tensors is not.
Take(tensors, part) ==
    LET Named(i) == {t \in tensors : t.name = part[i]}
    IN  IF \A i \in DOMAIN part : Cardinality(Named(i)) = 1
        THEN <<[tensors |-> part,
                holds |-> [i \in DOMAIN part |-> (CHOOSE t \in Named(i) : TRUE).holds]]>>
        ELSE <<>>

\* Nothing may be missing, and nothing left over.
LoadTensors(tensors, parts, file) ==
    LET model == FlattenSeq([i \in DOMAIN parts |-> Take(tensors, parts[i])])
        named == UNION {ToSet(part) : part \in ToSet(parts)}
    IN  IF Len(model) = Len(parts) /\ {t.name : t \in file.map} \subseteq named THEN model ELSE Refused

LoadFp32(file) == LoadTensors(TakeTensor(file.map), Fp32Parts, file)

-----------------------------------------------------------------------------
(* The Metal engine packs columns that one kernel multiplies.               *)

MetalOutput(block, l) ==
    Singles(<<<<block, l, "Wo">>, <<block, l, "bo">>, <<block, l, "Wo_ln_scale">>,
              <<block, l, "Wo_ln_bias">>>>)

MetalSelfAttention(block, l) ==
    <<<<<<block, l, "Wq">>, <<block, l, "Wk">>, <<block, l, "Wv">>>>,
      <<<<block, l, "bq">>, <<block, l, "bk">>, <<block, l, "bv">>>>>> \o MetalOutput(block, l)

MetalCrossAttention(block, l) ==
    Singles(<<<<block, l, "Wq">>, <<block, l, "bq">>>>) \o
    <<<<<<block, l, "Wk">>, <<block, l, "Wv">>>>, <<<<block, l, "bk">>, <<block, l, "bv">>>>>> \o
    MetalOutput(block, l)

MetalFfn(block, l) ==
    Singles([w \in 1 .. 6 |-> <<block, l, <<"W1", "W2", "b1", "b2", "ffn_ln_scale", "ffn_ln_bias">>[w]>>])

MetalSsru(block, l) ==
    <<<<<<block, l, "W">>, <<block, l, "Wf">>>>>> \o
    Singles(<<<<block, l, "bf">>, <<block, l, "ffn_ln_scale">>, <<block, l, "ffn_ln_bias">>>>)

MetalParts ==
    LET Encoder(l) == MetalSelfAttention("encoder_self", l) \o MetalFfn("encoder_ffn", l)
        Decoder(l) == MetalSsru("decoder_rnn", l) \o MetalCrossAttention("decoder_context", l) \o
                      MetalFfn("decoder_ffn", l)
    IN  Singles(<<Wemb("encoder"), Wemb("decoder"), LogitBias>>) \o
        Layers(EncoderLayers, Encoder) \o Layers(DecoderLayers, Decoder)

LoadMetal(file) == LoadTensors(RemoveTensor(file.map), MetalParts, file)

-----------------------------------------------------------------------------
(* Marian's binary: [tensors, end], the records in the order of the file,   *)
(* and whether the bytes end with them.                                     *)

Dense(weight, bias) == <<weight, ScaleOf(weight)>> \o bias

Q8Attention(block, l) ==
    <<Dense(<<block, l, "Wq">>, <<<<block, l, "bq">>>>), Dense(<<block, l, "Wk">>, <<<<block, l, "bk">>>>),
      Dense(<<block, l, "Wv">>, <<<<block, l, "bv">>>>), Dense(<<block, l, "Wo">>, <<<<block, l, "bo">>>>)>> \o
    Singles(<<<<block, l, "Wo_ln_scale">>, <<block, l, "Wo_ln_bias">>>>)

Q8Ffn(block, l) ==
    <<Dense(<<block, l, "W1">>, <<<<block, l, "b1">>>>), Dense(<<block, l, "W2">>, <<<<block, l, "b2">>>>)>> \o
    Singles(<<<<block, l, "ffn_ln_scale">>, <<block, l, "ffn_ln_bias">>>>)

Q8Ssru(block, l) ==
    <<Dense(<<block, l, "W">>, <<>>), Dense(<<block, l, "Wf">>, <<<<block, l, "bf">>>>)>> \o
    Singles(<<<<block, l, "ffn_ln_scale">>, <<block, l, "ffn_ln_bias">>>>)

Q8Parts ==
    LET Encoder(l) == Q8Attention("encoder_self", l) \o Q8Ffn("encoder_ffn", l)
        Decoder(l) == Q8Ssru("decoder_rnn", l) \o Q8Attention("decoder_context", l) \o
                      Q8Ffn("decoder_ffn", l)
    IN  Singles(<<ScaleOf(Wemb("decoder")), LogitBias, Wemb("encoder"), Wemb("decoder")>>) \o
        Layers(EncoderLayers, Encoder) \o Layers(DecoderLayers, Decoder)

\* expected_tensor_names, a list of its own beside the loaders'.
DenseNames(weights) == weights \cup {ScaleOf(w) : w \in weights}

AttentionNames(block, l) ==
    DenseNames({<<block, l, w>> : w \in {"Wq", "Wk", "Wv", "Wo"}}) \cup
    {<<block, l, w>> : w \in {"bq", "bk", "bv", "bo", "Wo_ln_scale", "Wo_ln_bias"}}

FfnNames(block, l) ==
    DenseNames({<<block, l, w>> : w \in {"W1", "W2"}}) \cup
    {<<block, l, w>> : w \in {"b1", "b2", "ffn_ln_scale", "ffn_ln_bias"}}

SsruNames(block, l) ==
    DenseNames({<<block, l, w>> : w \in {"W", "Wf"}}) \cup
    {<<block, l, w>> : w \in {"bf", "ffn_ln_scale", "ffn_ln_bias"}}

ExpectedNames ==
    {Wemb("encoder"), Wemb("decoder"), ScaleOf(Wemb("decoder")), LogitBias, ModelYml} \cup
    UNION {AttentionNames("encoder_self", l) \cup FfnNames("encoder_ffn", l) : l \in 1 .. EncoderLayers} \cup
    UNION {SsruNames("decoder_rnn", l) \cup AttentionNames("decoder_context", l) \cup
           FfnNames("decoder_ffn", l) : l \in 1 .. DecoderLayers}

IsScale(name) == Len(name) = 4
IsWeight(name) == name[3] \in {"Wq", "Wk", "Wv", "Wo", "W1", "W2", "W", "Wf", "Wemb"} /\ ~IsScale(name)

Q8Type(name) ==
    IF IsWeight(name) THEN "q8" ELSE IF name = ModelYml THEN "raw" ELSE "f32"

MarianBinary ==
    LET names == FlattenSeq(Q8Parts) \o <<ModelYml>>
    IN  [tensors |-> [i \in DOMAIN names |-> Tensor(names[i], Q8Type(names[i]))], end |-> "exact"]

\* MarianBinaryModel::parse: known types, no name twice, finite values, scales
\* and weights in range, and the file ends with its last record.
Parse(binary) ==
    /\ binary.end = "exact"
    /\ \A i, j \in DOMAIN binary.tensors :
           binary.tensors[i].name = binary.tensors[j].name => i = j
    /\ \A t \in ToSet(binary.tensors) : t.sound /\ t.type \in {"q8", "f32", "raw"}

Tensors(binary) == ToSet(binary.tensors)
Has(tensors, name, types) == \E t \in tensors : t.name = name /\ t.type \in types

\* validate_q8: a scale belongs to a Q8 weight, and a dense weight has one.
ScalesPaired(tensors) ==
    \A t \in tensors :
        /\ IsScale(t.name) => t.type # "raw" /\ Has(tensors, SubSeq(t.name, 1, 3), {"q8"})
        /\ ~IsScale(t.name) /\ t.type = "q8" =>
               /\ t.fits
               /\ t.name[3] = "Wemb" \/ Has(tensors, ScaleOf(t.name), {"q8", "f32"})

ValidateTensorSchema(tensors) ==
    LET q8 == {t \in tensors : t.type = "q8" /\ ~IsScale(t.name)}
        dense == {t \in q8 : t.name[3] # "Wemb"}
    IN  /\ ScalesPaired(tensors)
        /\ Cardinality(dense) = 6 * EncoderLayers + 8 * DecoderLayers
        /\ Cardinality(q8 \ dense) = 2
        /\ Cardinality({t \in tensors : IsScale(t.name)}) = Cardinality(dense) + 1
        /\ {t.name : t \in tensors} = ExpectedNames
        /\ Has(tensors, ModelYml, {"raw"})

\* take_dense_linear, take_intgemm8, take_float_matrix and take_float_vector: a
\* scale may be quantized itself, everything else has its own type.
TakeQ8(tensors) ==
    {t \in tensors :
        /\ t.fits
        /\ t.type = Q8Type(t.name) \/ (IsScale(t.name) /\ t.type = "q8")}

LoadOwned(tensors) ==
    LET model == FlattenSeq([i \in DOMAIN Q8Parts |-> Take(TakeQ8(tensors), Q8Parts[i])])
    IN  IF Len(model) = Len(Q8Parts) THEN model ELSE Refused

LoadQ8(binary) ==
    IF Parse(binary) /\ ValidateTensorSchema(Tensors(binary)) THEN LoadOwned(Tensors(binary)) ELSE Refused

-----------------------------------------------------------------------------
(* The Worker's bundle: [kernel, metadata, end].  The entries of the        *)
(* metadata are written and read in one order.  A linear is written with    *)
(* its name; the other entries are told apart by their size alone.          *)

Entry(kind, part) ==
    [kind |-> kind, label |-> IF kind = "linear" THEN part.tensors[1] ELSE <<>>,
     fits |-> TRUE, sound |-> TRUE, holds |-> part.holds]

Embedding(side) == <<"embedding", <<Wemb(side)>>>>
Linear(tensors) == <<"linear", tensors>>
Matrix(block, l, w) == <<"matrix", <<<<block, l, w>>>>>>

WriteAttention(block, l) ==
    <<Linear(Dense(<<block, l, "Wq">>, <<<<block, l, "bq">>>>)),
      Linear(Dense(<<block, l, "Wk">>, <<<<block, l, "bk">>>>)),
      Linear(Dense(<<block, l, "Wv">>, <<<<block, l, "bv">>>>)),
      Linear(Dense(<<block, l, "Wo">>, <<<<block, l, "bo">>>>)),
      Matrix(block, l, "Wo_ln_scale"), Matrix(block, l, "Wo_ln_bias")>>

WriteFfn(block, l) ==
    <<Linear(Dense(<<block, l, "W1">>, <<<<block, l, "b1">>>>)),
      Linear(Dense(<<block, l, "W2">>, <<<<block, l, "b2">>>>)),
      Matrix(block, l, "ffn_ln_scale"), Matrix(block, l, "ffn_ln_bias")>>

WriteSsru(block, l) ==
    <<Linear(Dense(<<block, l, "W">>, <<>>)), Linear(Dense(<<block, l, "Wf">>, <<<<block, l, "bf">>>>)),
      Matrix(block, l, "ffn_ln_scale"), Matrix(block, l, "ffn_ln_bias")>>

WriteOrder ==
    LET Encoder(l) == WriteAttention("encoder_self", l) \o WriteFfn("encoder_ffn", l)
        Decoder(l) == WriteSsru("decoder_rnn", l) \o WriteAttention("decoder_context", l) \o
                      WriteFfn("decoder_ffn", l)
    IN  <<Embedding("encoder"), Embedding("decoder"),
          <<"scale", <<ScaleOf(Wemb("decoder"))>>>>, <<"floats", <<LogitBias>>>>>> \o
        Layers(EncoderLayers, Encoder) \o Layers(DecoderLayers, Decoder)

\* The offline converter, on the kernel it was built with.
Pack(model, kernel) ==
    [kernel |-> kernel,
     metadata |-> [i \in DOMAIN WriteOrder |->
         Entry(WriteOrder[i][1],
               CHOOSE part \in Parts(model) : part.tensors = WriteOrder[i][2])],
     end |-> "exact"]

ReadAttention(block, l) ==
    [w \in 1 .. 4 |-> Linear(Dense(<<block, l, <<"Wq", "Wk", "Wv", "Wo">>[w]>>,
                                   <<<<block, l, <<"bq", "bk", "bv", "bo">>[w]>>>>))] \o
    <<Matrix(block, l, "Wo_ln_scale"), Matrix(block, l, "Wo_ln_bias")>>

ReadFfn(block, l) ==
    [w \in 1 .. 2 |-> Linear(Dense(<<block, l, <<"W1", "W2">>[w]>>, <<<<block, l, <<"b1", "b2">>[w]>>>>))] \o
    <<Matrix(block, l, "ffn_ln_scale"), Matrix(block, l, "ffn_ln_bias")>>

ReadSsru(block, l) ==
    <<Linear(Dense(<<block, l, "W">>, <<>>)), Linear(Dense(<<block, l, "Wf">>, <<<<block, l, "bf">>>>)),
      Matrix(block, l, "ffn_ln_scale"), Matrix(block, l, "ffn_ln_bias")>>

ReadOrder ==
    LET Encoder(l) == ReadAttention("encoder_self", l) \o ReadFfn("encoder_ffn", l)
        Decoder(l) == ReadSsru("decoder_rnn", l) \o ReadAttention("decoder_context", l) \o
                      ReadFfn("decoder_ffn", l)
    IN  <<Embedding("encoder"), Embedding("decoder"),
          <<"scale", <<ScaleOf(Wemb("decoder"))>>>>, <<"floats", <<LogitBias>>>>>> \o
        Layers(EncoderLayers, Encoder) \o Layers(DecoderLayers, Decoder)

\* Mutant of ReadsAs: the name of a linear is skipped over.
ReadsAsUnnamed(entry, wanted) == entry.kind = wanted[1] /\ entry.fits /\ entry.sound

ReadsAs(entry, wanted) ==
    /\ entry.kind = wanted[1]
    /\ entry.kind = "linear" => entry.label = wanted[2][1]
    /\ entry.fits
    /\ entry.sound

\* split_bundle and decode_parts, by a build for one kernel.
LoadPacked(bundle, kernel) ==
    IF /\ bundle.end = "exact"
       /\ bundle.kernel = kernel
       /\ Len(bundle.metadata) = Len(ReadOrder)
       /\ \A i \in DOMAIN ReadOrder : ReadsAs(bundle.metadata[i], ReadOrder[i])
    THEN [i \in DOMAIN ReadOrder |->
             [tensors |-> ReadOrder[i][2], holds |-> bundle.metadata[i].holds]]
    ELSE Refused

-----------------------------------------------------------------------------
(* What may be wrong with a file: the intact one, and every file with one   *)
(* defect.                                                                  *)

Foreign == Tensor(<<"decoder_rnn", 0, "Wx">>, "f32")

FlawedTensors(t) ==
    {[t EXCEPT !.type = type] : type \in {"f32", "q8", "raw", "f16"}} \cup
    {[t EXCEPT !.fits = FALSE], [t EXCEPT !.sound = FALSE]}

SafetensorsFiles ==
    LET intact == Safetensors.map
    IN  [map : {intact, intact \cup {Foreign}} \cup {intact \ {t} : t \in intact} \cup
               UNION {{(intact \ {t}) \cup {flawed} : flawed \in FlawedTensors(t)} : t \in intact}]

BinaryFiles ==
    LET intact == MarianBinary.tensors
        orders == {intact, Append(intact, Foreign)} \cup
                  {RemoveAt(intact, i) : i \in DOMAIN intact} \cup
                  {Append(intact, intact[i]) : i \in DOMAIN intact} \cup
                  UNION {{[intact EXCEPT ![i] = flawed] : flawed \in FlawedTensors(intact[i])} :
                             i \in DOMAIN intact}
    IN  {[tensors |-> tensors, end |-> "exact"] : tensors \in orders} \cup
        {[tensors |-> intact, end |-> end] : end \in {"cut short", "trailing bytes"}}

\* Two entries of one kind and one size are told apart by nothing but the
\* checksum of the bundle, unless they are linears.
BundleFiles(bundle) ==
    LET intact == bundle.metadata
        Flawed(i) == {[intact EXCEPT ![i].fits = FALSE], [intact EXCEPT ![i].sound = FALSE]}
        Swapped(i) == [intact EXCEPT ![i] = intact[i + 1], ![i + 1] = intact[i]]
        orders == {intact, Append(intact, intact[Len(intact)])} \cup
                  {SubSeq(intact, 1, n) : n \in 0 .. Len(intact) - 1} \cup
                  UNION {Flawed(i) : i \in DOMAIN intact} \cup
                  {Swapped(i) : i \in {j \in 1 .. Len(intact) - 1 :
                                  intact[j].kind = "linear" \/ intact[j].kind # intact[j + 1].kind}}
    IN  {[bundle EXCEPT !.metadata = metadata] : metadata \in orders} \cup
        {[bundle EXCEPT !.end = end] : end \in {"cut short", "trailing bytes"}}

=============================================================================
