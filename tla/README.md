# Marian Edge in TLA+

Marian Edge serves Marian translation models: an HTTP server, a scheduler that
batches requests for a synchronous inference backend, CPU and Metal backends, a
Cloudflare Worker, and scripts that install and roll back releases on macOS.
This directory models the control of both, program and scripts: who may do what in which
order, what is lost or kept when something fails, and what every caller is
promised. Arithmetic (scores, matrix products, quantisation) stays out.

Contents: [inventory](#inventory), [plan](#plan), [modules](#modules),
[runs](#runs-and-bounds), [fairness](#fairness), [proofs](#proofs),
[findings](#findings), [not modelled](#what-is-not-modelled).

## Inventory

| Component | Source | State it keeps | Operations | Talks to |
|---|---|---|---|---|
| Scheduler | `crates/marian-core/src/scheduler.rs` | per worker: bounded channel, deferred queue, batch, `closed`, `worker_stopped`, `pending`, a `Notify`; shared: statistics, rotating counter | `translate`, `translate_many`, `shutdown`, `is_ready`, `stats`; the worker loop | server handlers (calls), backend (calls on its own thread) |
| Types, backend trait | `marian-core/src/{types,backend}.rs` | none | `batch_key`, `is_ready`, `translate_batch_with_repetitions` | scheduler |
| Pivot backend | `marian-core/src/pivot.rs` | two backends | a batch through one or both models | backends |
| Segmenter | `marian-core/src/segmenter.rs` | counter cache, work limits | `segment_text` | tokenizer closure |
| HTTP server | `marian-server/src/{lib,main}.rs` | `AppState`, the process's life | handlers, start, signal, drain | scheduler |
| CPU backend | `marian-cpu/src/backend.rs` | budgets and positions of one batch; `q8_template` of a factory | `translate_with_engine`, loading | segmenter, engines |
| CPU engines | `marian-cpu/src/{engine,q8_engine}.rs` | decode caches of one batch, pool of buffers | loading, encode, decode, compaction of finished rows | kernels |
| CPU kernels | `marian-cpu/src/{tensor,q8_*,legacy_q8}.rs` | none | matrix products, attention, packing | |
| Metal backend and decode | `marian-metal/src/{backend,engine,config,tuning}.rs` | `healthy`, tuning, locals of a batch | batch planning, several decode steps per command buffer | Metal runtime |
| Metal runtime, workspace | `marian-metal/src/{metal_runtime,workspace}.rs` | arenas, a frame, matrix views, open command buffer | buffers, encoders | the device |
| Model manifest, shortlist | `marian-model/src` | none after load | validation, vocabulary union | backends |
| Tokenizer | `marian-tokenizer/src` | external library | encode, decode | backends |
| Wasm worker | `worker/src/index.js`, `marian-worker-wasm/src/lib.rs` | `initialization` promise, wasm translator | fetch, initialise, translate | R2, wasm |
| Installer, launchd control | `scripts/{install-macos.sh,marian-edgectl,uninstall-macos.sh}` | release links, plists, tools, settings, archives of the replaced service; launchd's services and flags | install, update, rollback, restore-previous-service, start, stop, uninstall | launchd, HTTP readiness |
| Model preparation | `scripts/prepare-*.sh`, `docker/` | model files | download, verify, convert | |

How they interact: a handler calls `Translator::translate`, which chooses a
worker, sends a command through that worker's bounded channel and waits for a
one-shot reply. The worker thread owns its backend, gathers compatible commands
into a batch, coalesces equal inputs, calls the backend and answers. `shutdown`
closes each worker's admission and sends it a command of its own. A pivot
backend calls two others. Each splits an input into segments, packs them into
engine batches under its limits, and joins the outputs; an engine runs a batch
through encoder and decoder, a token of every row at a time. Engines are loaded
from a release directory behind a link, or in the Cloudflare isolate from ranges
of a bundle, and the manifest decides what may be loaded.

What is hard, and so what the properties are about:

* Scheduler. Callers run on many tasks and may vanish at any await point, the
  worker runs on a thread, and they share a channel, flags and counters without
  a lock. Commands must be answered once or known to be refused; batches must
  be compatible; the channel must bound what is queued; a dying backend must be
  published before its last answers; nobody may wait for ever; the statistics
  must never wrap and must mean what their comments say.
* Admission. A wake-up lost between a full `try_send` and the wait for a slot
  costs a caller its whole deadline.
* Pool. Routing, readiness and shutdown read several workers' flags one after
  another while these change.
* Coalescing, pivot and grouped submission. An index error, or a stage that
  answers short, gives one caller another caller's text.
* Server. A request of many texts ends early by an error or a lost client while
  its tasks are under way; the end of the process must not refuse what it has
  accepted.
* CPU backend. The output budget of a request is shared by its segments across
  sub-batches of several requests under two limits.
* Segmenter. Ranges must partition the text, and piece counts are not monotone.
* CPU engines. Rows are padded, end at different steps and are compacted away;
  a pool of buffers outlives the requests.
* Metal decode. Lanes finish at different steps of a command buffer that runs
  several; buffers are given away frame by frame while commands, caches and
  cached views refer to them; a failure must not be blamed on the next request.
* Loading. The workers of a pool load one after another while the release may be
  replaced; a bundle names its sections only in part; overlapping requests of an
  isolate share one initialisation, which may fail.
* Installer and launchd control. Cut-over and rollback consist of many steps,
  each of which may fail or be interrupted by a signal; what was noted before the
  first must be enough to undo them, and the service that was replaced must stay
  within reach.

`PROJECT.json` lists each hazard at its line with the properties that cover it.

## Plan

1. Done: `Scheduler` with `TranslationService`, `Admission`, `Pool`, `Coalesce`,
   with proofs of all four and of the refinement.
2. Done: `Backend` and `Segmenter`, with proofs of every safety property of both.
3. Done: `Pivot` inside the batch of `Coalesce`, with the proof that two models
   behave as one.
4. Done: `TranslateMany` inside `Server`, up to the end of the process, with proofs.
5. Done: the Metal engine (`MetalTuning`, `MetalWorkspace`, `MetalKernels`,
   `MetalEngine`) and the CPU engines (`CpuEngine`), both against `Decode`.
6. Done: what is loaded, by whom (`ModelFiles`, `CpuHosts`), the Wasm worker
   included, with proofs of who shares a model and of the limits of a batch.
7. Done: the release scripts (`EdgeService`, `EdgeControl`), with the proofs that
   the replaced service stays within reach and that a command that ends has done its
   work or left everything as it was.
8. Left: the sets of `Shortlist`, whether the integer products of `q8_gemm.rs`
   are exact, and the preparation of models.

Proofs that would add most next: `OnlyTheDeviceFails` of `MetalEngine`, as far as
it is about frames and the history of positions and not about the operands of
kernels; and for `MetalEngine` what is proved of the CPU engines, that the plans
compute each row alone (`ImplementsDecode`).

## Modules

`Scheduler` models one worker. `caller[x]` is where a call of `translate`
(`Requests`) or `shutdown` (`Stoppers`) stands between two operations other
threads can see; `oneshot[x]` is its reply slot; `chan`, `deferred` and `batch`
are the places a command may be; `worker` is where the worker thread stands;
`stats` are the counters of `SchedulerStats`, as integers, so that a wrap of the
unsigned gauge shows as a negative number. Actions follow the code's order of
visible effects: `translate` is `CheckClosed`, `CheckStopped` (which raises the
gauge), `Probe`, `CheckWorker`, `Retry` or `EnqueueDeadline`, `CountAccepted`,
`ReceiveReply` or `Expire` then `ReportTimeout`; `Cancel` drops the future at an
await point. The worker is `Receive`/`TakeDeferred`/`IdleCheck`, `Gather...`,
`Launch`, `RunBackend` or `Panic`, the answers one job at a time
(`CountCompleted`, `SendOutput`, `FailJob`), `FinishBatch`, the two halves of
`fail_pending` (`Collect`, `DrainNext`), and the end of the thread
(`DropReceiver`, `DropGuard`). A request is only its batch key; a batch's inputs
are `Coalesce`'s business.

`TranslationService` is what one worker promises: one FIFO queue with a bound,
compatible batches from its head, at most one answer per command, a drain that
answers in order, an end that leaves nobody with a sender. `Scheduler` implements
it under the mapping at its end: the deferred queue in front of the channel is
the queue, the batch and the acknowledged shutdown are what runs.

`Admission` models `send_command` against `tokio::sync::Notify`, which
`Scheduler` abstracts as "a parked call may retry when a slot is free". It keeps
the list of waiters, the stored permit and the state of each `Notified` future,
including the notification that is handed on when such a future is dropped. The
`Notify` operators are external: they state the library's documented behaviour
that the comment at scheduler.rs:462 relies on.

`Pool` models `start_pool`, `next_worker`, `PendingGuard`, `is_ready` and
`shutdown` over several workers; a worker is reduced to what `TranslationService`
shows, a queue answered in order, and each read of a counter or flag is a step.

`Coalesce` is the part of `worker_loop` between a batch and its replies, one job
per step, with a backend that answers each row or fails the batch. `Pivot`
replaces that backend's one step by the two stages of `PivotBackend`: a text is
the list of what has been said of it and of how many tokens of it each model was
allowed to say, so that a cut, a swap or a text between the models shows.

`TranslateMany` is the grouped submission, its tasks and the restoring of order.
`Server` puts it behind `/imme`, beside `/translate`: validation item by item,
the lost client, the signal, the drain and the shutdown behind it. A language is
what `normalize` makes of it.

`Segmenter` is `segment_text`. A text is a sequence of scalars of the classes
that its rules tell apart, and `Count` says what the tokenizer counts, of which
nothing is assumed. The phases are the functions: `Scan` and `EndScan` are
`sentence_units`; `TakeUnit` and `TakeRest` the loops of `segment_text` and
`split_oversize_unit`; `Probe`, `NextPriority` and `CutAtBreak` the search for a
break, priority by priority; `FirstScalar`, `Bisect` and `CutInWord` the search
for a prefix of a word, which halves bytes, not scalars, so that with characters
of different widths its cut need not be the largest that fits. `Affordable` is
the work that `PieceCounter` allows, with its cache of ranges. Three errors of
the code have no action because no state reaches them: an empty break list behind
a cut (384-388), and the failures to build a range from valid positions.

`Backend` is the batch of a CPU backend (`translate_with_engine`), and of the
Metal backend where it differs: the plan of segments, the sub-batches, and the
output budget each input shares among its segments. A text is its number of
tokens. The engine translates a row into tokens that depend on the row alone, as
many as its limits and the row's budget let it; it may fail.

`Decode` is what a backend expects of an engine: the text of a row grows along
what greedy decoding of this row alone gives, and a batch is answered when every
text is complete, or it fails. Both engines implement it. A row says how long its
source is, how much it may say and at which step the model would end it.

`MetalEngine` is `translate_batch` of the Metal engine, from `validate_batch`
through the uploads, the command buffers of encoding and the submissions of
several decode steps, to the tokens read back. It rests on three modules without
a next-state relation of their own. `MetalTuning` says what device, environment
and model resolve to. `MetalKernels` lists for each function of `ops.rs` the
kernels it encodes, what each reads and makes and how far. `MetalWorkspace` is
the memory: an address is a buffer, which may be handed out again once nothing
retains it, and its content is the name of the value that was written there, with
the number of its request, so that a kernel that finds another value makes junk.

`ModelFiles` says what a release or a bundle consists of and what is checked of
it: the manifest, digests, the names, shapes and kinds of tensors, and what is
only found by position. `CpuEngine` is a batch on an FP32 or Q8 executor: the
tensor operations of encoder and decoder in order, with the buffers each takes
from the pool and gives back, the padding, the caches and the rows that end. What
a position of a buffer holds is the set of source positions and tokens it was
computed from. `CpuHosts` composes the two: who loads which executor from where
(`start_pool`'s factories, the Metal worker, the isolate's shared
`initialization`), and then the requests.

`EdgeControl` is what the release scripts do to one machine, from the cut-over of
an installation on. `EdgeService` is that machine, a record of links, files,
archives, loaded services and launchd's flags, and what one command makes of it.
The operators `Install`, `UndoInstall`, `Rollback` and so on are the scripts as
sequences of commands; there is one action per command, which may succeed, be
skipped as the code's conditions say, or fail, and `Tolerated` and `GiveUp` say
what `set -e`, `||` and the traps make of a failure. `Signal` may come between any
two commands: it enters the undo of an installation or the recovery of a return to
the replaced service, kills an undo, which has given up its trap, and cuts any
other script short. `Begin...` are the commands of the user, with what they refuse.
launchd is external: a service is loaded from its plist unless it is disabled, and
keeps the plist it has read until it is loaded again.

Modules named `MC...` give the constants their values for TLC; `...Proofs` hold
the theorems.

## Runs and bounds

| Run | Instance | Shows |
|---|---|---|
| scheduler_calls | 3 requests (2 compatible), 1 shutdown, capacity 1, batches of 2 | every safety property of one worker |
| scheduler_liveness | 2 requests, 1 shutdown, a worker that may hang | every call returns; with a fair worker an enqueued shutdown ends it, and a failed backend is published even when idle; `Scheduler` implements `TranslationService` |
| scheduler_gauge | 2 requests, 1 shutdown | the finding below |
| admission | 4 senders, 2 slots | each free slot of a serving worker has a signal under way; no wake-up is lost |
| pool | 2 workers, capacity 3, 2 calls, 2 shutdowns, 1 probe | `pending` is exact; nothing is admitted after a shutdown, and what it closed has ended; a positive readiness answer was true when asked; a shutdown can always go on |
| coalesce | all batches of up to 4 jobs over 9 inputs in 4 directions | each job gets its own translation; two models behave as one |
| translate_many | lists of up to 3 of 4 texts, and malformed ones, beside one call of `/translate` | responses match requests; nothing runs on; the end of the process refuses nobody |
| segmenter | every text of up to 5 characters of 7 kinds and some longer ones, limit of 3 pieces, counts that are not monotone | segments are the text, fit the model and hold no line break; cuts are the rightmost that fit; segmentation ends |
| backend | batches of up to 3 inputs of up to 4 segments, 2 rows, 9 cells | an input gets what it would get alone; the engine accepts every batch; a batch ends |
| metal | 2 requests of 6 batches, 9 settings, 1 failure of the device | no value that is still needed is lost; decoding is `Decode`; only the device or the request's own size fails a request; a request ends |
| cpu | every release and bundle with at most one defect, 2 workers, 2 handlers, up to 2 starts of the isolate; then 2 requests of 5 batches | only whole models serve; workers share one; the isolate loads once and forgets a failed start; decoding is `Decode`; valid batches are decoded; the pool of buffers is bounded |
| edge_control | a bare machine, one with the old service, one upgraded from it, one with both services loaded; 3 commands, 1 failure, 1 signal, 2 releases, with and without a CORS origin | a command is carried out or undone, whatever the one before it left; the replaced service stays within reach |

Why these bounds are enough for the questions asked. A channel of one slot makes
every second sender wait, and with two compatible requests and an incompatible
one every way a batch ends occurs (full, other key, shutdown, window, empty
channel). Two shutdowns are needed for one to skip what the other closed. Two
slots and four senders are what a collapsed notification needs: two dequeues, two
waiters, and two that take or leave. Capacity 3 on two workers has a remainder,
and two workers let one change while the other is being read. Two shutdown
commands and two requests are as many commands as the pool must refuse one of.
The refinement needs an incompatible request and a shutdown, which waits behind it
in the channel while it waits in the deferred queue. Four jobs over nine inputs
mix every direction with first, repeated and interleaved inputs, texts of which
either model says nothing, and budgets below what a model has to say. Three texts
in two languages are sorted in every way that differs from the caller's order.
Five characters hold two sentences or a unit that is cut
twice, with blanks and line breaks at every place; the longer texts have
abbreviations, closing marks, cuts of each priority, characters of several bytes,
and a text beyond each work limit. Nine cells are just enough for one row of the
three tokens allowed, so two such rows exceed the limit while two shorter ones do
not; two rows make a third input wait for the next sub-batch.

In the engines one layer of each kind is every role a buffer has, since a layer
refers to no buffer of another but its input. Two rows with unlike lengths and
ends give padding, compaction and a row that ends within a submission of three
steps; a second request finds whatever the first has left, also by failing. The
nine settings are every attention mode with both precisions, and one where each
default is taken; two more do not start. Sixty addresses are more than the kernels ever hold, and the lowest free one is
taken, so that reuse comes as early as it can. Releases and bundles have every
single defect that the code looks for or fails to name: a wrong format,
architecture, vocabulary or digest, a tensor that is missing, swapped, of another
kind or shape.

Three commands of the scripts are an upgrade, a return to the replaced service and
whatever follows, or one that is cut short and two that find its machine. One
failure and one signal let an undo or a recovery fail as well, behind which the
user has to look and nothing is claimed. Two releases are the one that runs and
the one that is installed or gone back to.

Counters are bounded by the number of calls or requests or the length of a text;
`MaxRequests`, `MaxFailures`, `MaxStarts`, `MaxCommands` and `MaxSignals` are the
only bounds that the code does not have. No state constraint is used. Interchangeable calls are declared
symmetric in runs that check no liveness property.

Deadlock is checked in every run: the systems end only in the states that their
last, stuttering disjunct describes.

## Fairness

`CallerFairness` and its like in the other modules say that the Tokio runtime
polls a task whose future is ready and that its timers fire: a call that can take
a step that neither its client nor a coin decides takes one. Nothing makes a
client cancel, a backend fail, or a deadline beat an answer. `WorkerFairness`
says that the worker thread is scheduled and that the backend returns or panics;
`HangingSpec` leaves it out, and `CallsReturn` holds under it because both waits
of a call have a timeout; the other two liveness properties have
`WorkerFairness` as their premise. In `Admission` only code that cannot block is fair:
neither deadlines nor the worker's next `recv` is assumed, which is what makes
`NoLostWakeup` say that the notification, not the deadline, wakes a sender.
`Backend` is a loop on one thread: `BatchEnds` assumes that it goes on.

Some ends are stated without fairness, as a measure that each step lowers or
raises, with deadlock checked beside it: `EveryStepProgresses` (segmentation, proved),
`RequestProgresses` (a Metal request: output positions, then stages, command
buffers, kernels, uploads). `ShutdownNeverStuck` says for a pool's shutdown that
its next step never waits for a worker; each such step leads to the next worker,
so with `CallerFairness` it returns.

## Proofs

Eight modules hold them. They are for every value of the constants: any number of
calls, senders, workers, slots, texts, files, commands, failures and signals. Of
the 40 properties that the passing runs check, 30 are theorems; the others are listed at
the end of this section with the reason.

`SchedulerProofs`, one worker:

* `TypeCorrect`; `LastAnswersFindServiceNotReady`, by the invariant that a worker
  which drains or has read the failed backend has set `stopped` or been closed,
  that no slot holds a drained answer before, and that both flags only rise;
  `StoppedWorkerStartsNothing`, by the invariant that a stopped worker is not in
  the part of its loop before `Launch`.
* `BatchesAreCompatible` (the batch is a prefix of one key below its limit),
  `DeferredIsNoShadowQueue` (the deferred queue is empty while gathering),
  `InFlightGaugeIsExact` (the gauge is `size` between `Launch` and `FinishBatch`,
  else zero). The invariants are needed together: a gathered job is only known
  compatible because nothing was deferred before it.
* `CommandsHaveOnePlace`, by `CustodyInv`: beside the property itself, what was not
  sent is held nowhere and has no answer (`NotYetSent`), and the worker holds a batch
  only while it works on one and the sender of an acknowledgement only while it
  drains (`HandsFree`). `GaugeNeverWraps`, by `GaugeInv`: the gauge is at least the
  number of requests that are in the queue or have raised it on their way there; a
  call that gives up on its way leaves it raised, so it may be more (the finding
  below). `CompletionsNeverLag`, by `CompletedInv`: an answer follows its count. The
  last two compare a counter with the size of a set of calls.
* `WorkerIsTheService`: `Scheduler` implements `TranslationService`, each action
  being a step of it or a stutter under the mapping. Beside `CustodyInv` this needs
  `ServeInv`: the call of a command that is still held waits, or has left by its
  timeout or its cancellation (`HeldEntered`); only a call that is done has an
  outcome (`OutcomeAtEnd`); and the worker looks at its queue with no job in hand
  and acknowledges one shutdown (`InHand`).

`AdmissionProofs`: `FreeSlotsAreSignalled`, by `AdmissionInv`: the list holds
exactly the waiting futures, each once (`ListIsTheWaiting`); a future is on the list,
or was notified, from before the probe to the end of the await (`EnabledOnProbe`);
and for each sender that found the channel full, as many others as there are free
slots will probe or pass a notification on (`EachStuckIsCovered`). Those the sender
waits behind do not count, for the next dequeue notifies one of them and not it; so
the order of the list matters. `AdmissionTypeCorrect` comes first.

`PoolProofs`: `PoolShutdownIsFinal`, `PoolReadinessIsNotStale` and
`PoolPendingCountsCalls`. `PoolInv` says that behind a shutdown every worker is
closed (`ClosedBehind`), that who closed a worker is still at work on it or has seen
it end or its own time limit pass (`CloserStays`), that only an ended worker answers
a shutdown (`OnlyTheEndedAnswer`) and holds nothing (`InboxIsOwn`), that a call which
came after a shutdown gets no further than the flags (`LateCallsFindClosed`), and
that a probe which began with a worker down has that worker still before it
(`DownIsAhead`). `pending` is shown to be the number of calls by counting a set that
each step changes by one call.

`CoalesceProofs`, a batch, its models and its engine:

* `EveryJobGetsItsOwn` and `RowsAreTheInputs`, by the invariant that the map and
  the rows are inverse to each other and that each scanned job points at the row of
  its own input.
* `PivotIsOneModel`, `PivotSpec => Spec` of `Coalesce` with `middle` hidden: the
  first stage, a stutter, leaves one text for each row, and the second, or the
  failure of either, is the backend's one step. It assumes that no text between
  the models is longer than the budget kept for it (`MIDDLE_BUDGET` or the
  caller's); a longer one is cut there, and its translation is that of the cut text.
* `BatchingStaysInvisible` and `BatchesAreAlwaysAccepted`, by `BackendInv`: what
  stands in a row and what is left of its budget is a function of its own input and
  of how many of its segments are behind it (`RowAt`), whoever it ran with, and a
  row passes one of its segments only by translating it (`Progress`). That the rows
  of a repeated input are as many copies, and where they stand, is shown of the
  expansion (`ExpandedRows`); the limits, of the packing (`PackedFits`), whose rows
  are all counted with the padding of the longest. `ABatchIsFound` says the reverse:
  packing never takes nothing while a segment waits, as one row of any length fits.
  The budget, the packing and the expansion are recursive functions. Their equations
  are not given: `AllReached` is induction for a set instead of an operator, from
  the least element outside it, and `StepsDefineFunction` builds from it the
  function that follows a step, so that the one that `CHOOSE` takes follows it too.

`ServerProofs`: `ResponsesMatchRequests`, `NothingRunsOnForNobody` and
`DrainRefusesNobody`. A group is submitted for a valid request only, with one input
for each of its texts (`GroupIsTheRequest`); it is awaited as long as its handler
runs, and no longer (`TasksAreAwaited`); what was joined is in its place
(`JoinedInPlace`); the translator is shut down when no handler runs, and then none
begins (`DrainedFirst`), and only stopped workers make a call answer that it shuts
down (`ShuttingDownMeansStopped`). That a stable sort by key exists is shown without
induction, by giving each position its rank.

`SegmenterProofs`, for every text, limit and tokenizer:

* `SegmentsFit` needs that whatever a binary search holds as found was counted and
  fits, by the way it was found and not by any order of the counts.
* `SegmentsAreTheText` needs that the units are joined from 0 to the end of the
  text once the scan has ended, and that the segments are joined to where the unit
  or its rest begins; that a text is not left without segments rests on the
  tokenizer finding no pieces in no text.
* `LineBreaksStayOutside`: the scan ends a unit before each line break, and what a
  unit is cut into are parts of it.
* `CutsReachFarthest`, where more text never has fewer pieces: what the search has
  excluded does not fit, what it holds fits, and when the two meet, the break it
  holds is the last that fits. Breaks are numbered by rank, so the argument is about
  the number of breaks below a position.
* `SegmentationGoesOn`: the scan moves on, and the rest of a unit is never empty,
  because a cut that took all of it would fit although the unit was counted as too
  long; so each step raises the measure.

`CpuHostsProofs`: `HostsShareOneModel` (a factory resolves the link once and the
first Q8 worker leaves the template; of an isolate's starts at most one lives,
and it is the one referred to), `FailedStartsAreForgotten`, and
`LimitsStayInTheTable`, by the invariant that a decoder step begins below the
largest limit of the batch, and that `validate_batch` keeps each limit within
`MaximumPosition`. `OnlyWholeModels`: what `Take` gives of a part is that part
(`TakenFacts`), what is concatenated from such pieces has no other (`FlattenFacts`),
and a bundle's entry is the one that was asked for, since the reader's order is the
writer's (`BundlesAreReadAsWritten`) and a linear is told by the name of its weight
(`LinearsAreNamed`). Along the start, an executor loads from a release it has found
(`ReleasesFound`), and a fork shares what the template has.

The other two are about the engines that serve these models. `CpuImplementsDecode`:
both executors implement `Decode`, whatever rows share a batch. `Begin` is its
`Start`, `Refuse` and `Fail` its `Abandon`, `Select` its `Emit`, `Return` its
`Answer`; every other step, of the starts too, stutters. An operation runs from
what is known of the buffers before it to what is known after (`Known(held,
passed)`: which values are held, and how many decoder layers have moved their
states), and `Runs` says that a list of operations does so from its first to its
last. `EncodeRuns` and `DecodeRuns` give that for the plans of a request and of a
step, layer by layer, and then again without the buffers that a Q8 executor
recycles. `IsKnown` is what a held value must be: of the encoder, in each cell
that is not padding, the row's own tokens alone; of a decoder step and a row that
has not finished, of its own source and of its own tokens
up to the step, and at least as many of them as its place in a layer asks (`Rank`).
`RunNextFacts` and `HoldsNext` show that an operation that may run succeeds and
leaves what is known true, which needs that the executor has every layer
(`OnlyWholeModels`), that a limit stays in the table of positions, and that
attention masks what pads a shorter row. Hence `EngineInv`: the stage and its step
(`StageInv`), who serves which request (`RequestInv`, `ResolvedInv`), a plan whose
rest still runs (`PlanInv`), and rows whose text is the beginning of the reference,
cut where the row has finished (`TextInv`). `RetentionIsBounded`, by `RetainInv`:
each operation that takes a buffer frees what no later one reads, so the pool and the
buffers in use together never exceed the most that a stage holds at once, and what a
request hands back is no more than it took.

`EdgeControlProofs`: `LegacyIsNeverLost`, by `WayInv`. The papers of the replaced
service are its plist, the archives and the two metadata files. `Says` tells what
any line of a script does to them, done or failed, and only eight of the lines
touch them. While an installation runs, the papers are as they were found until its
last lines, which move the plist and write down where it went (`InstallInv`). An
undo finds the plist in place or in the new archive, and has put one paper back
after the other unless it says that it failed (`UndoInv`). A return to the service
keeps the archive throughout and has the plist in place once it is copied, which is
what lets the uninstallation behind it remove the archives (`RestoreInv`,
`UninstallInv`). launchd never has the service loaded without its plist
(`LoadedHasPlist`), because the installer moves the plist only after it has stopped
the service; a return that finds the service loaded relies on this and copies
nothing.

`ScriptsAlwaysAtomic` needs more, `AtomInv`: what each script has done when it
stands at a given line, for links, files, processes and launchd's flags at once
(`InstallBody`, `UndoBody` and so on, one for each script). `Acts` tells what a line
makes of each part of the machine. Between commands, and wherever no undo has failed,
a service that is loaded is not disabled (`RunsEnabled`): it is what makes "runs
now" and "runs at the next login" agree, and every script keeps it because it stops
a service before it disables it. An undo need not come from the installation's last
line, so its part is only about what it has itself put back, and about what an
installation never does: start the replaced service or disable the new one
(`Aside`). A rollback and its undo have the same lines, and neither touches the
papers nor the flag of the replaced service (`Around`). That the plist is there and
names its release is a fact about the concatenation of two sequences
(`PlistFacts`).

The proof corrected the property. A release that is rolled back does not disable the
replaced service, and the property said that afterwards only the new one comes up at
login. That holds unless both services were loaded and an installation was undone,
which starts only one of them: four commands, one more than the run had. The
property now says that the rollback leaves that service's place at login alone, the
run has a machine with both services loaded, and `MachinesAssumption` says of the
first machine what every later one is shown to keep.

Assumptions are the `ASSUME`s of the modules. They say what `validate_config`,
`start_pool`, `batch_key` and `PivotBackend::new` guarantee; that calls and
senders are finitely many (`CallersAssumption`, `AdmissionAssumption`); that a
request is a list of texts, which are inputs if it passes validation
(`RequestAssumption`); that the tokenizer counts numbers, and none in no text
(`SegmenterAssumption`); that batches are lists of at least one row
(`CpuEngineAssumption`, as engine.rs:268 checks) and that the position at which a
row ends counts from one; that a model has a decoder layer (`LayersAssumption`:
manifest.rs:27-34 and 71-96 admit one architecture, of six encoder and four decoder
layers); that a workload's segments are
within the source limit, one without content is not asked about, and each input
counts once at least (`WorkloadsAssumption`: the segmenter and the coalescing); that
the bytes of a tensor are those of its name, and the entries of a bundle those that
were written, as far as no loader can tell (`FilesAssumption`: the digests vouch for
it; with any two matrices of a bundle exchanged TLC finds it false); and that a machine on which the
scripts begin has loaded the replaced service from its plist, if at all, runs nothing
that it has disabled, has links that lead to releases, and has no metadata of a
service with neither plist nor archive (`MachinesAssumption`); an origin is a
sequence of strings (`EdgeControlAssumption`).
TLC evaluates all of them on the runs' instances. `TypeCorrect`, `PoolTypeCorrect`,
`AdmissionTypeCorrect`, `DeferredIsNoShadowQueue`, `InFlightGaugeIsExact` and
`RowsAreTheInputs` are the steps the other theorems rest on; they and
`StoppedWorkerStartsNothing` are proved and checked by no run beside.

Only model-checked, and why:

* Liveness, which needs fairness, and `ShutdownNeverStuck`, which is about `ENABLED`.
* What is concatenated from the kernels of many layers, of `MetalEngine`:
  `HeldValuesAreIntact`, `OnlyTheDeviceFails`, `RequestProgresses` and its refinement
  of `Decode`. The library's induction theorems take an operator, which the provers
  cannot instantiate; the proofs about `Backend` and the CPU engines do without
  them, at a cost of a hundred lines for each recursive function.
What the tokenizer counts is arbitrary in the segmenter's proofs and one function
in its run.

## Findings

* `scheduler_gauge`: a client that disconnects while its call waits for a slot
  leaves `queue_depth` raised for ever; only `pending` has a guard.

Seen while modelling, and left without a run: a backend that stops being ready
while its worker waits for a command still gets the next batch (scheduler.rs:504),
although the trait's comment (backend.rs:12) says the scheduler rejects new work
and drains. A return to the replaced service that is interrupted between
marian-edgectl 268 and 269 while the current service was stopped leaves the latter
disabled, since its recovery enables only what was loaded (`LoginAsFound` names
this). `start` after such a return loads both services on one port
(`Contended`), and an undo then starts one of them.

Looked at and found right: a notification taken with the stored permit is not
handed on when its future is dropped, yet no slot is stranded, because the future
is enabled before the probe and a sender that leaves with a permit has taken a
slot; `is_ready` of a pool is never stale although it reads flag by flag, because
the flags only rise; a moved release link does not split a pool between two
releases, because the factory resolves the link once; a Metal request that fails
in the middle of a frame does not fail the next, because each begins by ending
what it finds open.

## What is not modelled

* Arithmetic: scores, quantisation, `q8_gemm.rs` and its ARM and AVX2 forms, the
  device's kernels, the numbers of the position table. The repository bounds them
  by numeric tests; an engine's value is known here by what it was computed from.
* The sets of the shortlist: a row has candidates with an end of sentence or not.
* Texts and wording; durations; memory order weaker than the order of the modelled
  steps (the code's relaxed counters are only ever summed, and its flags use
  acquire and release).
* Handlers that only read (`/detect`, `/info`, `/metrics`, `/health`, `/livez`,
  `/readyz`, which reports `Pool`'s `is_ready`), the command line and the choice
  of the backend at start-up. A body that arrives slowly delays the drain, about
  whose length nothing is stated.
* Contents of a release directory that change in place between the verification of
  its digests and the load: only the link moves. In a bundle, two unnamed sections
  of one size that change places are caught by the pinned identity alone, which
  is assumed to hold. A trap in the middle of a Wasm call, which leaves the
  isolate's backend borrowed.
* The Metal engine does not check that what it reads back is finite, so neither
  does its model.
* The tokenizer (a wrapper of an external library), the vendored product, tools,
  benchmarks and CI.
* Of the scripts: what comes before the cut-over (downloads, checks, the release
  directory moved into place), which the running service does not see; custom
  labels and directories, and a change of the port; two scripts at once, which
  nothing prevents and nothing is promised for; a loss of power, after which no trap
  runs (a signal to a rollback, which has no trap, is modelled). The preparation of
  models: pinned digests, a staging directory, a lock.
