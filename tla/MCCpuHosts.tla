------------------------------ MODULE MCCpuHosts ------------------------------
(* CpuHosts for TLC: one encoder and one decoder layer, two workers, and     *)
(* releases and bundles with every single defect; a batch of rows that end   *)
(* at different steps, one that the limits end, and batches that are refused. *)
EXTENDS CpuHosts

Row(length, requested, wants) ==
    [length |-> length, requested |-> requested, wants |-> wants, listed |-> length # 2]

BatchesDef ==
    {<<Row(1, 3, 1), Row(3, 4, 9)>>, <<Row(2, 2, 2)>>, <<Row(1, 1, 1), Row(1, 1, 1), Row(1, 1, 1)>>,
     <<Row(4, 1, 1)>>, <<Row(0, 1, 1)>>}

Release(id, flaw, kind, weights, list) ==
    [id |-> id, flaw |-> flaw, precision |-> kind, weights |-> weights, shortlist |-> list]

Flaws == {"none", "format", "architecture", "vocabulary", "digest", "shortlist without digest",
          "digest without shortlist"}

ReleasesDef ==
    {Release("m", flaw, "fp32", Safetensors, "absent") : flaw \in Flaws} \cup
    {Release("m", flaw, "q8", MarianBinary, "frequent") : flaw \in Flaws} \cup
    {Release("m", "none", "fp16", Safetensors, "absent")} \cup
    {Release("m", "none", "q8", MarianBinary, shortlist) : shortlist \in {"lexical", "useless"}} \cup
    {Release("m", "none", "fp32", file, "absent") : file \in SafetensorsFiles} \cup
    {Release("m", "none", "q8", file, "frequent") : file \in BinaryFiles}

NextReleasesDef == {Release("m", "none", "q8", MarianBinary, "frequent")}

Packed == Pack(LoadQ8(MarianBinary), "wasm-u8i8i32")

BundlesDef ==
    {Release("m", flaw, "q8", Packed, "frequent") : flaw \in {"format", "architecture", "vocabulary"}} \cup
    {Release("m", "none", "q8", Packed, shortlist) : shortlist \in {"lexical", "useless"}} \cup
    {Release("m", "none", "q8", file, "frequent") :
         file \in BundleFiles(Packed) \cup {Pack(LoadQ8(MarianBinary), "generic")}}

HandlersDef == {1, 2}

=============================================================================
