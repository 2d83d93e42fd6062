------------------------------- MODULE CpuHosts -------------------------------
(***************************************************************************)
(* Who loads a model, and from where: the native server, whose worker pool *)
(* or Metal worker reads a release directory behind a link that an         *)
(* operator may move, and the Cloudflare Worker, whose isolate reads the   *)
(* ranges of a bundle when the first requests arrive.  Then requests run   *)
(* on the executors of CpuEngine.                                          *)
(*                                                                         *)
(* A release is [id, flaw, precision, weights, shortlist]: the model_id,   *)
(* what is wrong with its manifest or digests, and its files.              *)
(***************************************************************************)
EXTENDS CpuEngine

CONSTANTS
    Releases,     \* what the directory may hold that the server is started on
    NextReleases, \* what the link may be moved to
    Bundles,      \* what the bucket may hold under the pinned identity
    Workers,      \* cpu_workers
    Handlers,     \* requests that the isolate may have at once
    MaxStarts     \* bound: initialisations of the isolate

ASSUME CpuHostsAssumption == Workers \in Nat \ {0} /\ MaxStarts \in Nat

\* What no loader can tell: that the bytes of a tensor are those of its name, and
\* that the entries of a bundle are as they were written, a linear behind its name
\* and any other at its place among those of its kind.  The digests of a release
\* and of a bundle vouch for it.
ASSUME FilesAssumption ==
    /\ \A r \in Releases \cup NextReleases :
           /\ r.precision = "fp32" => \A t \in r.weights.map : t.holds = t.name
           /\ r.precision = "q8" => \A t \in Tensors(r.weights) : t.holds = t.name
    /\ \A b \in Bundles : \A i \in 1 .. Len(b.weights.metadata) :
           LET entry == b.weights.metadata[i]
           IN  IF entry.kind = "linear"
               THEN \E j \in DOMAIN WriteOrder :
                        /\ WriteOrder[j][1] = "linear"
                        /\ WriteOrder[j][2][1] = entry.label
                        /\ WriteOrder[j][2] = entry.holds
               ELSE i \in DOMAIN WriteOrder /\ WriteOrder[i][1] = entry.kind =>
                        WriteOrder[i][2] = entry.holds

VARIABLES
    host,         \* "pool", "metal" or "worker"
    release,      \* what the directories hold
    link,         \* the directory that the configured path leads to
    startup,      \* of the server: "new", "starting", "serving", "failed"
    dir,          \* model_dir and
    precision,    \*    precision of the factory
    template,     \* q8_template, <<>> or <<executor>>
    loads,        \* models brought into memory so far
    starts,       \* initialisations of the isolate: [read, promise]
    initialization, \* the one that the module variable refers to, or 0
    awaits        \* for each handler, the initialisation it awaits, or 0

server == <<release, link, startup, dir, precision, template>>
isolate == <<starts, initialization, awaits>>
vars == <<engine, host, server, loads, isolate>>

Init ==
    /\ InitEngine
    /\ executors = <<>>
    /\ host \in {"pool", "metal", "worker"}
    /\ IF host = "worker" THEN \E b \in Bundles : release = [place \in {"bucket"} |-> b]
       ELSE \E r \in Releases, n \in NextReleases :
                release = [place \in {"current", "next"} |-> IF place = "current" THEN r ELSE n]
    /\ link = "current"
    /\ startup = "new"
    /\ dir = "none"
    /\ precision = "none"
    /\ template = <<>>
    /\ loads = 0
    /\ starts = <<>>
    /\ initialization = 0
    /\ awaits = [h \in Handlers |-> 0]

-----------------------------------------------------------------------------
(* Reading a release. *)

\* ModelManifest::from_bytes
ManifestValid(r) == r.flaw \notin {"format", "architecture"} /\ r.precision \in {"fp32", "q8"}

\* verify_runtime_files: one digest for each file, and none without its file.
RuntimeFilesVerified(r) ==
    r.flaw \notin {"digest", "shortlist without digest", "digest without shortlist"}

VocabulariesFit(r) == r.flaw # "vocabulary"

Executor(kind, place, model) ==
    [kind |-> kind, load |-> loads + 1, place |-> place, model |-> model,
     shortlist |-> release[place].shortlist, pooled |-> 0]

\* Warming up translates one short sentence.
WarmsUp(r) == r.shortlist # "useless"

Verified(r, kind) ==
    ManifestValid(r) /\ RuntimeFilesVerified(r) /\ r.precision = kind /\ VocabulariesFit(r)

\* CpuBackend::load, Q8CpuBackend::load, MetalBackend::load.
LoadedFp32(r) == IF Verified(r, "fp32") /\ WarmsUp(r) THEN LoadFp32(r.weights) ELSE Refused
LoadedQ8(r) == IF Verified(r, "q8") /\ WarmsUp(r) THEN LoadQ8(r.weights) ELSE Refused
LoadedMetal(r) == IF Verified(r, "fp32") /\ WarmsUp(r) THEN LoadMetal(r.weights) ELSE Refused

-----------------------------------------------------------------------------
(* The server.  Another script may move the link at any time.                  *)

MoveLink ==
    /\ host # "worker"
    /\ startup \in {"new", "starting"}
    /\ link = "current"
    /\ link' = "next"
    /\ UNCHANGED <<engine, host, release, startup, dir, precision, template, loads, isolate>>

\* CpuModelBackendFactory::new
NewFactory ==
    /\ host = "pool"
    /\ startup = "new"
    /\ dir' = link
    /\ IF ManifestValid(release[link])
       THEN startup' = "starting" /\ precision' = release[link].precision
       ELSE startup' = "failed" /\ UNCHANGED precision
    /\ UNCHANGED <<engine, host, release, link, template, loads, isolate>>

\* Whatever has been created before a failure is dropped with the pool.
StartFails ==
    /\ startup' = "failed"
    /\ executors' = <<>>
    /\ template' = <<>>
    /\ UNCHANGED loads

\* start_pool takes no worker whose information differs from the first one's.
SameInfo(executor) ==
    executors # <<>> =>
        /\ release[executors[1].place].id = release[executor.place].id
        /\ executors[1].kind = executor.kind

AddWorker(executor) ==
    /\ SameInfo(executor)
    /\ executors' = Append(executors, executor)
    /\ startup' = IF Len(executors) + 1 = Workers THEN "serving" ELSE "starting"

\* Mutant of Template: the first backend leaves nothing to be forked.
TemplateForgotten(executor) == <<>>

Template(executor) == <<executor>>

\* CpuModelBackendFactory::create for the next worker of the pool.
CreateFp32 ==
    /\ host = "pool"
    /\ startup = "starting"
    /\ precision = "fp32"
    /\ LET executor == Executor("fp32", dir, LoadedFp32(release[dir]))
       IN  IF executor.model # Refused /\ SameInfo(executor)
           THEN AddWorker(executor) /\ loads' = loads + 1 /\ UNCHANGED template
           ELSE StartFails
    /\ UNCHANGED <<request_vars, served, outcome, host, release, link, dir, precision, isolate>>

CreateQ8 ==
    /\ host = "pool"
    /\ startup = "starting"
    /\ precision = "q8"
    /\ template = <<>>
    /\ LET executor == Executor("q8", dir, LoadedQ8(release[dir]))
       IN  IF executor.model # Refused /\ SameInfo(executor)
           THEN AddWorker(executor) /\ loads' = loads + 1 /\ template' = Template(executor)
           ELSE StartFails
    /\ UNCHANGED <<request_vars, served, outcome, host, release, link, dir, precision, isolate>>

\* fork: the model is shared, the scratch buffers are not.
ForkQ8 ==
    /\ host = "pool"
    /\ startup = "starting"
    /\ template # <<>>
    /\ AddWorker([template[1] EXCEPT !.pooled = 0])
    /\ UNCHANGED <<request_vars, served, outcome, host, release, link, dir, precision, template,
                   loads, isolate>>

\* The one worker of the Metal server resolves the link itself.
LoadMetalBackend ==
    /\ host = "metal"
    /\ startup = "new"
    /\ dir' = link
    /\ LET executor == Executor("metal", link, LoadedMetal(release[link]))
       IN  IF executor.model # Refused
           THEN /\ executors' = <<executor>>
                /\ startup' = "serving"
                /\ loads' = loads + 1
                /\ UNCHANGED template
           ELSE StartFails
    /\ UNCHANGED <<request_vars, served, outcome, host, release, link, precision, isolate>>

\* A request reaches one of the workers.
Serve ==
    /\ host = "pool"
    /\ startup = "serving"
    /\ \E w \in DOMAIN executors : Begin(w)
    /\ UNCHANGED <<host, server, loads, isolate>>

-----------------------------------------------------------------------------
(* The isolate.  JavaScript runs one handler at a time until it awaits, and *)
(* a call into Wasm runs to its end.                                        *)

Idle == host = "worker" /\ request = <<>>

\* Mutant of Initializing: what is pending does not count.
InitializingOnceLoaded == executors # <<>>

Initializing == initialization # 0

\* ensureInitialized, when a request has been validated.
Arrive(h) ==
    /\ Idle
    /\ awaits[h] = 0
    /\ IF Initializing
       THEN /\ awaits' = [awaits EXCEPT ![h] = initialization]
            /\ UNCHANGED <<starts, initialization>>
       ELSE /\ Len(starts) < MaxStarts
            /\ starts' = Append(starts, [read |-> 0, promise |-> "pending"])
            /\ initialization' = Len(starts')
            /\ awaits' = [awaits EXCEPT ![h] = initialization']
    /\ UNCHANGED <<engine, host, server, loads>>

\* Mutant of Forget: the module variable keeps the failed promise.
ForgetNothing(k) == initialization

Forget(k) == 0

Reject(k) ==
    /\ starts' = [starts EXCEPT ![k].promise = "rejected"]
    /\ initialization' = Forget(k)
    /\ UNCHANGED <<executors, loads>>

\* readBundleRange, for the leading section, the dense words and the two
\* embeddings: the object may be missing, replaced or cut short.
ReadRange(k) ==
    /\ Idle
    /\ starts[k].promise = "pending"
    /\ starts[k].read < 4
    /\ \/ /\ starts' = [starts EXCEPT ![k].read = @ + 1]
          /\ UNCHANGED <<initialization, executors, loads>>
       \/ Reject(k)
    /\ UNCHANGED <<request_vars, served, outcome, host, server, awaits>>

\* from_preverified_worker_packed_parts: no digest, and no warm-up.
InitPackedParts(k) ==
    /\ Idle
    /\ starts[k].promise = "pending"
    /\ starts[k].read = 4
    /\ LET r == release["bucket"]
           model == LoadPacked(r.weights, "wasm-u8i8i32")
       IN  IF ManifestValid(r) /\ r.precision = "q8" /\ VocabulariesFit(r) /\ model # Refused
           THEN /\ executors' = <<Executor("q8", "bucket", model)>>
                /\ loads' = loads + 1
                /\ starts' = [starts EXCEPT ![k].promise = "resolved"]
                /\ UNCHANGED initialization
           ELSE Reject(k)
    /\ UNCHANGED <<request_vars, served, outcome, host, server, awaits>>

\* A handler goes on after its promise: with an error, or with a call that
\* translates and leaves its answer behind before anything else runs.
Resume(h) ==
    /\ Idle
    /\ awaits[h] # 0
    /\ awaits' = [awaits EXCEPT ![h] = 0]
    /\ CASE starts[awaits[h]].promise = "resolved" -> Begin(1)
         [] starts[awaits[h]].promise = "rejected" -> UNCHANGED engine
         [] starts[awaits[h]].promise = "pending" -> FALSE
    /\ UNCHANGED <<host, server, loads, starts, initialization>>

-----------------------------------------------------------------------------

Run == Translate /\ UNCHANGED <<host, server, loads, isolate>>

\* Nothing is left to do, or the bounds are reached.
Rest ==
    /\ request = <<>>
    /\ startup = "failed" \/ host = "metal" \/ served = MaxRequests \/ Len(starts) = MaxStarts
    /\ UNCHANGED vars

Next ==
    \/ MoveLink \/ NewFactory \/ CreateFp32 \/ CreateQ8 \/ ForkQ8 \/ LoadMetalBackend \/ Serve
    \/ \E h \in Handlers : Arrive(h) \/ Resume(h)
    \/ \E k \in DOMAIN starts : ReadRange(k) \/ InitPackedParts(k)
    \/ Run
    \/ Rest

Spec == Init /\ [][Next]_vars

-----------------------------------------------------------------------------
(* Properties. *)

\* Whatever is wrong with a release or a bundle, an executor that serves has each
\* of its weights, scales and biases from the tensor of that name, in its place.
OnlyWholeModelsServe == \A w \in DOMAIN executors : Whole(executors[w].model)

\* The workers of a pool run one release, however the link moves while they
\* start, and all Q8 workers share one copy of it in memory (CpuModelBackendFactory).
\* An isolate loads its bundle once: requests that arrive together share the
\* initialisation in progress, and none starts another after it has succeeded.
OneModelPerHost ==
    /\ \A v, w \in DOMAIN executors :
           /\ executors[v].place = executors[w].place
           /\ executors[v].kind = "q8" => executors[v].load = executors[w].load
    /\ \A j, k \in DOMAIN starts :
           starts[j].promise # "rejected" /\ starts[k].promise # "rejected" => j = k
    /\ host = "worker" => loads <= 1

\* A start that has failed fails the requests that wait for it, and no request
\* that arrives afterwards.
FailedStartIsForgotten ==
    [][\A h \in Handlers :
           awaits[h] = 0 /\ awaits'[h] # 0 => starts'[awaits'[h]].promise # "rejected"]_vars

=============================================================================
