----------------------------- MODULE MetalEngine -----------------------------
(***************************************************************************)
(* The Metal engine: one request after another is encoded and decoded with *)
(* the kernels of MetalKernels over the memory of MetalWorkspace.          *)
(*                                                                         *)
(* A request is a sequence of rows: [length, requested, wants, listed],    *)
(* the tokens of the source, the output it may have, the position at which *)
(* the model would put the end of the sentence, and whether the shortlist  *)
(* has candidates for the row.                                             *)
(***************************************************************************)
EXTENDS MetalWorkspace, MetalKernels, FiniteSets, FiniteSetsExt

CONSTANTS
    Batches,           \* the requests
    Width,             \* candidates of the shortlist
    Factor,            \* max_length_factor
    MaxBatch,          \* MAXIMUM_BATCH
    MaxRequests,       \* bound: requests in a behaviour
    MaxFailures        \* bound: failures of the device in a behaviour

ASSUME EngineAssumption ==
    /\ {Width, Factor, MaxBatch} \subseteq Nat \ {0}
    /\ {MaxRequests, MaxFailures} \subseteq Nat

VARIABLES
    tuning,     \* what the device and the environment have selected
    request,    \* the batch in progress, <<>> between requests
    stage,      \* where translate is
    block,      \* in encode: which command buffer
    at,         \* buffers uploaded so far in this stage
    plan,       \* kernels still to be encoded into the command buffer
    step, active, completed, \* locals of decode
    generated,  \* the tokens of each row
    done,       \* the rows that the finished buffer marks
    healthy,
    outcome,    \* how the last request has ended
    cause,      \* and why it has failed
    failures    \* of the device, so far

engine == <<tuning, request, stage, block, at, plan, step, active, completed, generated, done,
            healthy, outcome, cause, failures>>
vars == <<workspace, engine>>

Init ==
    /\ InitWorkspace
    /\ tuning \in Tunings
    /\ request = <<>>
    /\ stage = "idle"
    /\ block = 0
    /\ at = 0
    /\ plan = <<>>
    /\ step = 0
    /\ active = 0
    /\ completed = FALSE
    /\ generated = <<>>
    /\ done = {}
    /\ healthy = TRUE
    /\ outcome = "none"
    /\ cause = "none"
    /\ failures = 0

-----------------------------------------------------------------------------
(* The shape of the request. *)

Batch == Len(request)
SourceLength == Max({request[r].length : r \in DOMAIN request})

Limit(row) == Min({row.requested, row.length * Factor, MaximumPosition})
GenerationLimit == Max({Limit(request[r]) : r \in DOMAIN request})

SubmissionSteps == StepsToSubmit(tuning, active, GenerationLimit - step, completed)

-----------------------------------------------------------------------------
(* What is uploaded and encoded, in order. *)

FlashEncoder == UseFlash(tuning, SourceLength, SourceLength)

EncodeUploads == <<<<<<"tokens", 0, 0>>, Batch * SourceLength>>, <<Lengths, Batch>>>>

DecodeUploads ==
    <<<<<<"ids", 0, 0>>, Batch * Width>>, <<<<"counts", 0, 0>>, Batch>>>> \o
    [l \in 1 .. DecoderLayers |-> <<State(l, 0), Batch * Dim>>] \o
    <<<<Previous(0), Batch>>, <<<<"limits", 0, 0>>, Batch>>, <<Finished(0), Batch>>>>

Uploads == IF stage = "encode uploads" THEN EncodeUploads ELSE DecodeUploads

EncoderLayer(l) == EncodeLayer(tuning, l, Batch, SourceLength)

\* One command buffer for everything, or one for the embedding, one for each
\* layer and one for the cross caches.
EncoderBlock(b) ==
    IF FlashEncoder
    THEN Embedding(Batch, SourceLength) \o FlattenSeq([l \in 1 .. EncoderLayers |-> EncoderLayer(l)]) \o
         BuildCrossCache(tuning, Batch, SourceLength)
    ELSE IF b = 0 THEN Embedding(Batch, SourceLength)
    ELSE IF b <= EncoderLayers THEN EncoderLayer(b)
    ELSE BuildCrossCache(tuning, Batch, SourceLength)

LastBlock == IF FlashEncoder THEN 0 ELSE EncoderLayers + 1

Submission ==
    FlattenSeq([i \in 1 .. SubmissionSteps |->
                   DecodeStep(tuning, step + i - 1, Batch, SourceLength)])

-----------------------------------------------------------------------------
(* translate, from begin_request to its output. *)

ValidateBatch(rows) == Len(rows) <= MaxBatch /\ \A r \in DOMAIN rows : rows[r].length > 0

\* A batch that is not valid is the caller's error alone.
RejectBatch ==
    /\ stage = "idle"
    /\ \E rows \in Batches : ~ValidateBatch(rows)
    /\ outcome' = "rejected"
    /\ UNCHANGED <<workspace, tuning, request, stage, block, at, plan, step, active, completed,
                   generated, done, healthy, cause, failures>>

Begin ==
    /\ stage = "idle"
    /\ serial < MaxRequests
    /\ BeginRequest
    /\ request' \in {rows \in Batches : ValidateBatch(rows)}
    /\ stage' = "encode uploads"
    /\ block' = 0
    /\ at' = 0
    /\ generated' = [r \in DOMAIN request' |-> <<>>]
    /\ UNCHANGED <<tuning, plan, step, active, completed, done, healthy, outcome, cause, failures>>

\* The checks in front of the uploads: of encode, and of prepare_candidates.
PositionOutOfRange == stage = "encode uploads" /\ SourceLength > MaximumPosition

NoCandidates == stage = "decode uploads" /\ at = 0 /\ \E r \in DOMAIN request : ~request[r].listed

\* upload_buffer, in the order of encode and of decode.
UploadNext ==
    /\ stage \in {"encode uploads", "decode uploads"}
    /\ at < Len(Uploads)
    /\ ~PositionOutOfRange
    /\ ~NoCandidates
    /\ Upload("request", Uploads[at + 1][1], Uploads[at + 1][2])
    /\ at' = at + 1
    /\ UNCHANGED <<tuning, request, stage, block, plan, step, active, completed, generated, done,
                   healthy, outcome, cause, failures>>

\* The flash path encodes in one frame, the classic one without any.
BeginEncoder ==
    /\ stage = "encode uploads"
    /\ at = Len(Uploads)
    /\ IF FlashEncoder THEN BeginTransient ELSE UNCHANGED workspace
    /\ stage' = "encode"
    /\ plan' = EncoderBlock(0)
    /\ at' = 0
    /\ UNCHANGED <<tuning, request, block, step, active, completed, generated, done, healthy, outcome,
                   cause, failures>>

DispatchNext ==
    /\ plan # <<>>
    /\ ~ScoresTooLarge(Head(plan))
    /\ OperandsFit(Head(plan))
    /\ Dispatch(Head(plan))
    /\ plan' = Tail(plan)
    /\ UNCHANGED <<tuning, request, stage, block, at, step, active, completed, generated, done,
                   healthy, outcome, cause, failures>>

\* The buffers that outlive an encoder block: the uploads, the cross caches,
\* and between two blocks what the last one has made.
AfterBlock ==
    {v \in DOMAIN holds :
        \/ v[1] \in {"tokens", "lengths", "cross"}
        \/ block < LastBlock /\ v = Encoded(block)}

FinishBlock ==
    /\ stage = "encode"
    /\ plan = <<>>
    /\ Finish(AfterBlock)
    /\ frame' = FALSE
    /\ IF block < LastBlock
       THEN /\ block' = block + 1
            /\ plan' = EncoderBlock(block + 1)
            /\ UNCHANGED stage
       ELSE /\ stage' = "decode uploads"
            /\ UNCHANGED <<block, plan>>
    /\ UNCHANGED <<tuning, request, at, step, active, completed, generated, done, healthy, outcome,
                   cause, failures>>

\* The locals of decode, and its loop when no row may get a token.
BeginDecode ==
    /\ stage = "decode uploads"
    /\ at = Len(Uploads)
    /\ stage' = IF GenerationLimit = 0 THEN "output" ELSE "submit"
    /\ at' = 0
    /\ step' = 0
    /\ active' = Batch
    /\ completed' = FALSE
    /\ done' = {}
    /\ UNCHANGED <<workspace, tuning, request, block, plan, generated, healthy, outcome, cause,
                   failures>>

\* A submission: its frame, then the history it starts from.
BeginSubmission ==
    /\ stage = "submit"
    /\ at = 0
    /\ BeginTransient
    /\ at' = 1
    /\ UNCHANGED <<tuning, request, stage, block, plan, step, active, completed, generated, done,
                   healthy, outcome, cause, failures>>

UploadHistory ==
    /\ stage = "submit"
    /\ at = 1
    /\ SubmissionSteps > 0
    /\ Upload("transient", History(step), SubmissionSteps * Batch)
    /\ stage' = "decode"
    /\ plan' = Submission
    /\ at' = 0
    /\ UNCHANGED <<tuning, request, block, step, active, completed, generated, done, healthy, outcome,
                   cause, failures>>

\* What select_decode writes for a row in the steps of this submission.  A row
\* is marked when it gets the end of the sentence, and in a step at its limit.
Stop(row) == Min({row.wants, Limit(row)})

\* Mutant of Written: the kernel does not look at the mark of the row.
WrittenUnmarked(r) ==
    [i \in 1 .. Max({0, Min({SubmissionSteps, Limit(request[r]) - step})}) |->
        IF step + i = request[r].wants THEN 0 ELSE step + i]

Written(r) ==
    [i \in 1 .. IF r \in done \/ Stop(request[r]) < step THEN 0
                ELSE Min({SubmissionSteps, Stop(request[r]) - step}) |->
        IF step + i = request[r].wants THEN 0 ELSE step + i]

Marked(n) ==
    done \cup {r \in DOMAIN request :
                  \/ request[r].wants <= Min({n, Limit(request[r])})
                  \/ n > Limit(request[r])}

\* Whoever reads the history buffer finds nothing there that a token could be
\* told from, unless the kernels have run as they were meant to.
Garbage == <<-2>>

AfterSubmission ==
    {v \in DOMAIN holds : v[1] \in {"tokens", "lengths", "cross", "ids", "counts", "limits",
                                    "state", "previous", "finished"}}

\* Mutant of NextStep: the last step of a submission is decoded again.
NextStepAgain(n) == step + n - 1

NextStep(n) == step + n

FinishSubmission ==
    LET end == step + SubmissionSteps
    IN  /\ stage = "decode"
        /\ plan = <<>>
        /\ Finish(AfterSubmission)
        /\ frame' = FALSE
        /\ generated' = [r \in DOMAIN request |->
               generated[r] \o
               IF memory'[holds[History(end)].addr] = Meant(History(end)) THEN Written(r) ELSE Garbage]
        /\ step' = NextStep(SubmissionSteps)
        /\ done' = Marked(end)
        /\ active' = Batch - Cardinality(Marked(end))
        /\ completed' = (active' < active)
        /\ stage' = IF active' = 0 \/ step' >= GenerationLimit THEN "output" ELSE "submit"
        /\ UNCHANGED <<tuning, request, block, at, plan, healthy, outcome, cause, failures>>

Idle ==
    /\ request' = <<>>
    /\ generated' = <<>>
    /\ stage' = "idle"
    /\ block' = 0
    /\ at' = 0
    /\ plan' = <<>>
    /\ step' = 0
    /\ active' = 0
    /\ completed' = FALSE
    /\ done' = {}
    /\ UNCHANGED tuning

Return ==
    /\ stage = "output"
    /\ Idle
    /\ holds' = <<>>
    /\ outcome' = "answered"
    /\ UNCHANGED <<serial, arenas, frame, views, memory, commands, healthy, cause, failures>>

-----------------------------------------------------------------------------
(* Failures: whatever has failed, the error leaves translate, and the engine *)
(* is no longer ready.  It does not refuse the next request.                 *)

Failed(why) ==
    /\ Idle
    /\ healthy' = FALSE
    /\ outcome' = "failed"
    /\ cause' = why

\* The device has no memory, no command buffer, or the command buffer fails
\* after some of its kernels.
DeviceFails ==
    /\ failures < MaxFailures
    /\ failures' = failures + 1
    /\ Failed("device")
    /\ Unwind
    /\ \/ /\ stage \in {"encode uploads", "decode uploads"}
          /\ at < Len(Uploads)
          /\ ~PositionOutOfRange
          /\ ~NoCandidates
          /\ ~Reusable("request", Uploads[at + 1][2])
          /\ UNCHANGED memory
       \/ /\ stage = "submit"
          /\ at = 1
          /\ ~Reusable("transient", SubmissionSteps * Batch)
          /\ UNCHANGED memory
       \/ /\ stage \in {"encode", "decode"}
          /\ commands = <<>> \/ (plan # <<>> /\ Allocates(Head(plan)))
          /\ UNCHANGED memory
       \/ /\ stage \in {"encode", "decode"}
          /\ plan = <<>>
          /\ \E n \in 0 .. Len(commands) : memory' = Executed(n)

\* What the engine's own checks refuse: a source beyond the positions, a row
\* without candidates, a request or a frame inside a frame, an empty history,
\* scores beyond the limit, an operand that is too small.
Refused ==
    {why \in {"position", "candidates", "frame", "history", "scores", "operands"} :
        \/ why = "position" /\ PositionOutOfRange
        \/ why = "candidates" /\ NoCandidates
        \/ /\ why = "frame"
           /\ frame
           /\ (stage = "idle" /\ serial < MaxRequests) \/ (stage = "submit" /\ at = 0)
        \/ why = "history" /\ stage = "submit" /\ at = 1 /\ SubmissionSteps = 0
        \/ why = "scores" /\ plan # <<>> /\ ScoresTooLarge(Head(plan))
        \/ why = "operands" /\ plan # <<>> /\ ~OperandsFit(Head(plan))}

Refuse ==
    /\ \E why \in Refused : Failed(why)
    /\ Unwind
    /\ UNCHANGED <<memory, failures>>

Work == UploadNext \/ BeginEncoder \/ DispatchNext \/ FinishBlock \/ BeginDecode \/
        BeginSubmission \/ UploadHistory \/ FinishSubmission \/ Return \/ Refuse

\* Nobody asks for more.
Rest ==
    /\ stage = "idle"
    /\ serial = MaxRequests
    /\ UNCHANGED vars

Next == RejectBatch \/ Begin \/ Work \/ DeviceFails \/ Rest

Spec == Init /\ [][Next]_vars

-----------------------------------------------------------------------------
(* Properties. *)

\* Whenever no command buffer is open, every value that the engine still refers
\* to is in its buffer: no frame, arena or cached view has given the buffer away
\* (workspace.rs, mps_matrix), and no kernel has read another request's, another
\* step's or no value at all.
HeldValuesAreIntact ==
    commands = <<>> => \A v \in DOMAIN holds : memory[holds[v].addr] = Meant(v)

\* Only the device, or a request beyond the model's positions, candidates or
\* scores, take the engine out of service: never a frame that an earlier failure
\* has left open, an operand smaller than its kernel takes it to be, an empty
\* submission, or a batch that validate_batch has rejected.
OnlyTheDeviceFails ==
    /\ cause \in {"none", "device", "position", "candidates", "scores"}
    /\ healthy = (cause = "none")

\* Decoding several steps per submission, with rows that end at different steps,
\* gives what decoding each row alone, step by step, would give.
Decoding == INSTANCE Decode WITH rows <- request, texts <- generated
ImplementsDecode == Decoding!Spec

\* A request ends: a step that does not end it leaves less to do, in this order:
\* output positions, stages, command buffers, kernels, uploads.
Remaining ==
    <<IF stage \in {"submit", "decode", "output"} THEN GenerationLimit - step ELSE GenerationLimit + 1,
      CHOOSE i \in 0 .. 6 : stage = <<"idle", "output", "decode", "submit", "decode uploads", "encode",
                                      "encode uploads">>[i + 1],
      LastBlock - block, Len(plan), 10 - at>>

RequestProgresses ==
    [][request # <<>> /\ request' # <<>> =>
           \E i \in 1 .. 5 : /\ Remaining'[i] < Remaining[i]
                             /\ \A j \in 1 .. i - 1 : Remaining'[j] = Remaining[j]]_vars

=============================================================================
