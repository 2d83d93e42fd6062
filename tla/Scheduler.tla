------------------------------ MODULE Scheduler ------------------------------
(***************************************************************************)
(* One worker of marian-core's Translator (scheduler.rs): the callers of   *)
(* translate() and shutdown(), the bounded command channel between them    *)
(* and the thread that owns the backend, the worker loop with its dynamic  *)
(* batches, and the service statistics.                                    *)
(*                                                                         *)
(* A step is what one thread does between two accesses other threads can   *)
(* tell apart: an atomic flag, a channel or a one-shot operation, or an    *)
(* update of the statistics whose order the code relies on.  A command in  *)
(* the channel is the caller that sent it: a member of Requests stands for *)
(* Command::Translate with that caller's job, a member of Stoppers for     *)
(* Command::Shutdown.  Texts and translations are abstracted: a request    *)
(* has a batch key, and an answer is a success, a backend error or the     *)
(* error fail_pending sends.                                               *)
(***************************************************************************)
EXTENDS Integers, Sequences, FiniteSets

CONSTANTS Requests,   \* calls of Translator::translate
          Stoppers,   \* calls of Translator::shutdown
          Capacity,   \* config.queue_capacity of this worker
          MaxBatch,   \* config.max_batch_size
          MaxPadded,  \* config.max_padded_source_chars
          Keys,       \* batch keys: languages, output budget, length bucket
          Key,        \* the batch key of each request
          Bucket      \* the source length bucket of each key

\* What validate_config and TranslationInput::batch_key guarantee.
ASSUME SchedulerAssumption ==
    /\ Requests \cap Stoppers = {}
    /\ Capacity \in Nat \ {0}
    /\ MaxBatch \in 1..256
    /\ MaxPadded \in Nat \ {0}
    /\ Key \in [Requests -> Keys]
    /\ Bucket \in [Keys -> Nat \ {0}]

Callers == Requests \cup Stoppers

VARIABLES caller,       \* where each call stands
          outcome,      \* what each finished call returned
          oneshot,      \* the reply slot of each call
          chan,         \* the bounded std::sync::mpsc channel
          deferred,     \* the worker's deferred queue
          batch,        \* jobs of the current batch that are not answered yet
          size,         \* batch_size of the current batch
          worker,       \* where the worker thread stands
          mid,          \* progress within the job being answered
          terminal,     \* the worker read backend.is_ready() = false
          acking,       \* the shutdown whose `done` sender the worker holds
          backendReady, \* backend.is_ready()
          closed,       \* Inner::closed
          stopped,      \* Inner::worker_stopped
          stats         \* SchedulerStats

callerVars == <<caller, outcome>>
workerVars == <<deferred, batch, size, worker, mid, terminal, acking>>
vars == <<caller, outcome, oneshot, chan, deferred, batch, size, worker, mid,
          terminal, acking, backendReady, closed, stopped, stats>>

CallerStates == {"new", "opened", "probing", "full", "parked", "sent",
                 "awaiting", "expired", "done"}
Outcomes == {"none", "ok", "error", "drained", "workerStopped", "shuttingDown",
             "queueFull", "timeout", "abandoned", "cancelled",
             "acked", "lost", "skipped"}
Slots == {"unset", "ok", "error", "drained", "acked", "broken"}
WorkerStates == {"recv", "gather", "launch", "infer", "reply", "fail",
                 "collect", "drain", "unwind", "guard", "gone"}
Counters == {"accepted", "completed", "failed", "timedOut", "rejected",
             "batches", "batchItems", "largest", "depth", "inFlight"}

TypeOK ==
    /\ caller \in [Callers -> CallerStates]
    /\ outcome \in [Callers -> Outcomes]
    /\ oneshot \in [Callers -> Slots]
    /\ chan \in Seq(Callers)
    /\ deferred \in Seq(Callers)
    /\ batch \in Seq(Requests)
    /\ size \in Nat
    /\ worker \in WorkerStates
    /\ mid \in {"none", "counted", "sent"}
    /\ terminal \in BOOLEAN
    /\ acking \in SUBSET Stoppers
    /\ backendReady \in BOOLEAN
    /\ closed \in BOOLEAN
    /\ stopped \in BOOLEAN
    /\ stats \in [Counters -> Int]

\* start(): the backend is constructed and reported ready before the first call.
Init ==
    /\ caller = [x \in Callers |-> "new"]
    /\ outcome = [x \in Callers |-> "none"]
    /\ oneshot = [x \in Callers |-> "unset"]
    /\ chan = <<>>
    /\ deferred = <<>>
    /\ batch = <<>>
    /\ size = 0
    /\ worker = "recv"
    /\ mid = "none"
    /\ terminal = FALSE
    /\ acking = {}
    /\ backendReady = TRUE
    /\ closed = FALSE
    /\ stopped = FALSE
    /\ stats = [n \in Counters |-> 0]

-----------------------------------------------------------------------------
Elements(seq) == {seq[i] : i \in DOMAIN seq}

\* The channel's receiving end lives until worker_loop has returned or unwound.
RxOpen == worker \notin {"guard", "gone"}

\* The receiver of a reply is a local of the call: it closes when the call ends.
ReplyOpen(x) == caller[x] # "done"

\* Translator::is_ready, for one worker.
Ready == ~closed /\ ~stopped

\* The batch limit worker_loop derives from the key of the first job.
BatchLimit(k) ==
    LET padded == MaxPadded \div Bucket[k]
        fitting == IF padded > 1 THEN padded ELSE 1
    IN  IF MaxBatch < fitting THEN MaxBatch ELSE fitting

Add(n, k) == [stats EXCEPT ![n] = @ + k]

Goto(x, state) ==
    /\ caller' = [caller EXCEPT ![x] = state]
    /\ UNCHANGED outcome

Finish(x, result) ==
    /\ caller' = [caller EXCEPT ![x] = "done"]
    /\ outcome' = [outcome EXCEPT ![x] = result]

-----------------------------------------------------------------------------
(* The calls. *)

\* Mutants: definitions a plausible bug in the code would give.  Each replaces
\* the definition named in its comment, and PROJECT.json the property it breaks.

\* Of Cancel: a guard that gives the gauge back wherever the future is dropped.
CancelReturnsGauge(r) ==
    /\ \/ caller[r] = "parked" /\ Finish(r, "abandoned")
       \/ caller[r] = "awaiting" /\ Finish(r, "cancelled")
    /\ stats' = Add("depth", -1)
    /\ UNCHANGED <<oneshot, chan, workerVars, backendReady, closed, stopped>>

\* Of Expire: the reply is awaited without a timeout until the worker stops.
ExpireOnlyStopped(x) ==
    /\ caller[x] = "awaiting"
    /\ oneshot[x] = "unset" /\ stopped
    /\ Goto(x, "expired")
    /\ UNCHANGED <<oneshot, chan, workerVars, backendReady, closed, stopped, stats>>

\* translate() reads the closed flag.
CheckClosed(r) ==
    /\ caller[r] = "new"
    /\ \/ closed /\ Finish(r, "shuttingDown")
       \/ ~closed /\ Goto(r, "opened")
    /\ UNCHANGED <<oneshot, chan, workerVars, backendReady, closed, stopped, stats>>

\* translate() reads the stopped flag and publishes the gauge before it sends.
CheckStopped(r) ==
    /\ caller[r] = "opened"
    /\ \/ stopped /\ Finish(r, "workerStopped") /\ UNCHANGED stats
       \/ ~stopped /\ Goto(r, "probing") /\ stats' = Add("depth", 1)
    /\ UNCHANGED <<oneshot, chan, workerVars, backendReady, closed, stopped>>

\* shutdown() swaps the closed flag; a call that finds it set skips the worker.
CloseAdmission(s) ==
    /\ caller[s] = "new"
    /\ \/ closed /\ Finish(s, "skipped")
       \/ ~closed /\ Goto(s, "probing")
    /\ closed' = TRUE
    /\ UNCHANGED <<oneshot, chan, workerVars, backendReady, stopped, stats>>

\* What a call does when send_command reports a disconnected channel.
Disconnected(x) ==
    \/ x \in Requests /\ Finish(x, "workerStopped") /\ stats' = Add("depth", -1)
    \/ x \in Stoppers /\ Finish(x, "lost") /\ UNCHANGED stats

\* send_command: one try_send on the channel.
Probe(x) ==
    /\ caller[x] = "probing"
    /\ \/ /\ RxOpen
          /\ Len(chan) < Capacity
          /\ chan' = Append(chan, x)
          /\ \/ x \in Requests /\ Goto(x, "sent")
             \/ x \in Stoppers /\ Goto(x, "awaiting")
          /\ UNCHANGED stats
       \/ /\ RxOpen
          /\ Len(chan) = Capacity
          /\ Goto(x, "full")
          /\ UNCHANGED <<chan, stats>>
       \/ /\ ~RxOpen
          /\ Disconnected(x)
          /\ UNCHANGED chan
    /\ UNCHANGED <<oneshot, workerVars, backendReady, closed, stopped>>

\* send_command: after a full channel, the stopped flag decides whether to wait.
CheckWorker(x) ==
    /\ caller[x] = "full"
    /\ \/ stopped /\ Disconnected(x)
       \/ ~stopped /\ Goto(x, "parked") /\ UNCHANGED stats
    /\ UNCHANGED <<oneshot, chan, workerVars, backendReady, closed, stopped>>

\* send_command: a notification sends the call back to the probe.  A dequeue or
\* the end of the worker causes it; Admission.tla models the Notify itself.
Retry(x) ==
    /\ caller[x] = "parked"
    /\ Len(chan) < Capacity \/ stopped
    /\ Goto(x, "probing")
    /\ UNCHANGED <<oneshot, chan, workerVars, backendReady, closed, stopped, stats>>

\* send_command: the deadline passes while the call waits for a notification.
EnqueueDeadline(x) ==
    /\ caller[x] = "parked"
    /\ \/ /\ x \in Requests
          /\ Finish(x, "queueFull")
          /\ stats' = [stats EXCEPT !["depth"] = @ - 1, !["rejected"] = @ + 1]
       \/ /\ x \in Stoppers
          /\ Finish(x, "lost")
          /\ UNCHANGED stats
    /\ UNCHANGED <<oneshot, chan, workerVars, backendReady, closed, stopped>>

CountAccepted(r) ==
    /\ caller[r] = "sent"
    /\ Goto(r, "awaiting")
    /\ stats' = Add("accepted", 1)
    /\ UNCHANGED <<oneshot, chan, workerVars, backendReady, closed, stopped>>

\* The call polls its reply slot and finds a value or a dropped sender.
ReceiveReply(x) ==
    /\ caller[x] = "awaiting"
    /\ \/ oneshot[x] \notin {"unset", "broken"} /\ Finish(x, oneshot[x])
       \/ oneshot[x] = "broken" /\ x \in Requests /\ Finish(x, "workerStopped")
       \/ oneshot[x] = "broken" /\ x \in Stoppers /\ Finish(x, "lost")
    /\ UNCHANGED <<oneshot, chan, workerVars, backendReady, closed, stopped, stats>>

\* The timer has fired and the last poll found nothing; the receiver is not yet
\* dropped, so the worker may still send into it.
Expire(x) ==
    /\ caller[x] = "awaiting"
    /\ oneshot[x] = "unset"
    /\ Goto(x, "expired")
    /\ UNCHANGED <<oneshot, chan, workerVars, backendReady, closed, stopped, stats>>

\* The timed-out call drops its receiver and counts the timeout.
ReportTimeout(x) ==
    /\ caller[x] = "expired"
    /\ Finish(x, "timeout")
    /\ \/ x \in Requests /\ stats' = Add("timedOut", 1)
       \/ x \in Stoppers /\ UNCHANGED stats
    /\ UNCHANGED <<oneshot, chan, workerVars, backendReady, closed, stopped>>

\* The HTTP client disconnects: the handler's future, suspended at one of its
\* two await points, is dropped.  Only `pending` has a guard that runs then.
Cancel(r) ==
    /\ \/ caller[r] = "parked" /\ Finish(r, "abandoned")
       \/ caller[r] = "awaiting" /\ Finish(r, "cancelled")
    /\ UNCHANGED <<oneshot, chan, workerVars, backendReady, closed, stopped, stats>>

-----------------------------------------------------------------------------
(* The worker loop. *)

\* The first command of an iteration is a job: it opens a batch unless its
\* caller has gone.
TakeJob(r) ==
    /\ stats' = Add("depth", -1)
    /\ \/ ReplyOpen(r) /\ batch' = <<r>> /\ worker' = "gather"
       \/ ~ReplyOpen(r) /\ UNCHANGED <<batch, worker>>
    /\ UNCHANGED acking

\* The first command of an iteration is a shutdown: fail_pending begins.
TakeShutdown(s) ==
    /\ worker' = "collect"
    /\ acking' = {s}
    /\ UNCHANGED <<batch, stats>>

Take(x) ==
    \/ x \in Requests /\ TakeJob(x)
    \/ x \in Stoppers /\ TakeShutdown(x)

\* Mutants of the worker's definitions, as above.

\* Of TakeDeferred: the deferred command is read with front(), not pop_front().
TakeDeferredKeeps ==
    /\ worker = "recv"
    /\ deferred # <<>>
    /\ Take(Head(deferred))
    /\ UNCHANGED <<callerVars, oneshot, chan, deferred, size, mid, terminal,
                   backendReady, closed, stopped>>

\* Of Receive: the channel is looked at before the deferred queue.
ReceiveFirst ==
    /\ worker = "recv"
    /\ chan # <<>>
    /\ chan' = Tail(chan)
    /\ Take(Head(chan))
    /\ UNCHANGED <<callerVars, oneshot, deferred, size, mid, terminal,
                   backendReady, closed, stopped>>

\* Of IdleCheck: the stopped flag is left to the guard.
IdleCheckLateFlag ==
    /\ worker = "recv"
    /\ deferred = <<>> /\ chan = <<>> /\ ~backendReady
    /\ worker' = "collect"
    /\ UNCHANGED <<callerVars, oneshot, chan, deferred, batch, size, mid,
                   terminal, acking, backendReady, closed, stopped, stats>>

\* Of IdleCheck: a timeout never asks whether the backend is ready.
IdleCheckPollsOn ==
    /\ worker = "recv"
    /\ deferred = <<>> /\ chan = <<>>
    /\ UNCHANGED vars

\* Of GatherSame: the batch key is not compared.
GatherAny(x) ==
    /\ x \in Requests
    /\ ReplyOpen(x)
    /\ stats' = Add("depth", -1)
    /\ batch' = Append(batch, x)
    /\ UNCHANGED <<deferred, worker>>

\* Of GatherShutdown: the command that ends the gathering is dropped.
GatherShutdownLost(x) ==
    /\ x \in Stoppers
    /\ worker' = "launch"
    /\ UNCHANGED <<batch, deferred, stats>>

\* Of CountCompleted: nothing is counted before the reply is sent.
CountCompletedLate ==
    /\ worker = "reply"
    /\ mid = "none"
    /\ batch # <<>>
    /\ mid' = "counted"
    /\ UNCHANGED <<callerVars, oneshot, chan, deferred, batch, size, worker,
                   terminal, acking, backendReady, closed, stopped, stats>>

\* Of FinishDrain: the shutdown is not acknowledged.
FinishDrainSilent ==
    /\ worker = "drain" /\ mid = "none" /\ deferred = <<>>
    /\ acking' = {}
    /\ worker' = "unwind"
    /\ UNCHANGED <<callerVars, oneshot, chan, deferred, batch, size, mid,
                   terminal, backendReady, closed, stopped, stats>>

TakeDeferred ==
    /\ worker = "recv"
    /\ deferred # <<>>
    /\ deferred' = Tail(deferred)
    /\ Take(Head(deferred))
    /\ UNCHANGED <<callerVars, oneshot, chan, size, mid, terminal,
                   backendReady, closed, stopped>>

Receive ==
    /\ worker = "recv"
    /\ deferred = <<>>
    /\ chan # <<>>
    /\ chan' = Tail(chan)
    /\ Take(Head(chan))
    /\ UNCHANGED <<callerVars, oneshot, deferred, size, mid, terminal,
                   backendReady, closed, stopped>>

\* recv_timeout elapses on an empty channel and the backend is not ready.
IdleCheck ==
    /\ worker = "recv"
    /\ deferred = <<>>
    /\ chan = <<>>
    /\ ~backendReady
    /\ stopped' = TRUE
    /\ worker' = "collect"
    /\ UNCHANGED <<callerVars, oneshot, chan, deferred, batch, size, mid,
                   terminal, acking, backendReady, closed, stats>>

\* The gathering loop receives a job whose caller has gone.
GatherClosed(x) ==
    /\ x \in Requests
    /\ ~ReplyOpen(x)
    /\ stats' = Add("depth", -1)
    /\ UNCHANGED <<batch, deferred, worker>>

\* It receives a compatible job.
GatherSame(x) ==
    /\ x \in Requests
    /\ ReplyOpen(x)
    /\ Key[x] = Key[batch[1]]
    /\ stats' = Add("depth", -1)
    /\ batch' = Append(batch, x)
    /\ UNCHANGED <<deferred, worker>>

\* It receives an incompatible job, which waits for the next batch.
GatherOther(x) ==
    /\ x \in Requests
    /\ ReplyOpen(x)
    /\ Key[x] # Key[batch[1]]
    /\ deferred' = Append(deferred, x)
    /\ worker' = "launch"
    /\ UNCHANGED <<batch, stats>>

\* It receives a shutdown, which waits for this batch.
GatherShutdown(x) ==
    /\ x \in Stoppers
    /\ deferred' = <<x>> \o deferred
    /\ worker' = "launch"
    /\ UNCHANGED <<batch, stats>>

\* The gathering loop receives the next command before the window closes.
Gather ==
    /\ worker = "gather"
    /\ Len(batch) < BatchLimit(Key[batch[1]])
    /\ chan # <<>>
    /\ chan' = Tail(chan)
    /\ LET x == Head(chan)
       IN  GatherClosed(x) \/ GatherSame(x) \/ GatherOther(x) \/ GatherShutdown(x)
    /\ UNCHANGED <<callerVars, oneshot, size, mid, terminal, acking,
                   backendReady, closed, stopped>>

\* The batch is full, its window closes, or a command ended it: it is published.
Launch ==
    /\ worker \in {"gather", "launch"}
    /\ size' = Len(batch)
    /\ worker' = "infer"
    /\ stats' = [stats EXCEPT !["batches"] = @ + 1,
                              !["batchItems"] = @ + Len(batch),
                              !["inFlight"] = @ + Len(batch),
                              !["largest"] = IF @ < Len(batch) THEN Len(batch) ELSE @]
    /\ UNCHANGED <<callerVars, oneshot, chan, deferred, batch, mid, terminal,
                   acking, backendReady, closed, stopped>>

\* The backend returns: one output per input, or an error or a wrong number of
\* outputs.  A backend that is not ready any more is published at once.
RunBackend ==
    /\ worker = "infer"
    /\ worker' \in {"reply", "fail"}
    /\ terminal' = ~backendReady
    /\ stopped' = (stopped \/ ~backendReady)
    /\ UNCHANGED <<callerVars, oneshot, chan, deferred, batch, size, mid,
                   acking, backendReady, closed, stats>>

\* The backend panics: worker_loop unwinds past every update of the statistics.
Panic ==
    /\ worker = "infer"
    /\ worker' = "unwind"
    /\ UNCHANGED <<callerVars, oneshot, chan, deferred, batch, size, mid,
                   terminal, acking, backendReady, closed, stopped, stats>>

\* Success, first half: a job whose caller is still there is counted.
CountCompleted ==
    /\ worker = "reply"
    /\ mid = "none"
    /\ batch # <<>>
    /\ \/ /\ ReplyOpen(Head(batch))
          /\ mid' = "counted"
          /\ stats' = Add("completed", 1)
          /\ UNCHANGED batch
       \/ /\ ~ReplyOpen(Head(batch))
          /\ batch' = Tail(batch)
          /\ UNCHANGED <<mid, stats>>
    /\ UNCHANGED <<callerVars, oneshot, chan, deferred, size, worker, terminal,
                   acking, backendReady, closed, stopped>>

\* Success, second half: the output is sent, or the count is rolled back.
SendOutput ==
    /\ worker = "reply"
    /\ mid = "counted"
    /\ batch # <<>>
    /\ mid' = "none"
    /\ batch' = Tail(batch)
    /\ \/ /\ ReplyOpen(Head(batch))
          /\ oneshot' = [oneshot EXCEPT ![Head(batch)] = "ok"]
          /\ UNCHANGED stats
       \/ /\ ~ReplyOpen(Head(batch))
          /\ stats' = Add("completed", -1)
          /\ UNCHANGED oneshot
    /\ UNCHANGED <<callerVars, chan, deferred, size, worker, terminal, acking,
                   backendReady, closed, stopped>>

\* Both failure loops send the error first and count it if a caller was there.
SendError(r, error) ==
    \/ ReplyOpen(r) /\ oneshot' = [oneshot EXCEPT ![r] = error] /\ mid' = "sent"
    \/ ~ReplyOpen(r) /\ UNCHANGED <<oneshot, mid>>

\* fail_jobs: the next job of a failed batch.
FailJob ==
    /\ worker = "fail"
    /\ mid = "none"
    /\ batch # <<>>
    /\ batch' = Tail(batch)
    /\ SendError(Head(batch), "error")
    /\ UNCHANGED <<callerVars, chan, deferred, size, worker, terminal, acking,
                   backendReady, closed, stopped, stats>>

CountFailed ==
    /\ mid = "sent"
    /\ mid' = "none"
    /\ stats' = Add("failed", 1)
    /\ UNCHANGED <<callerVars, oneshot, chan, deferred, batch, size, worker,
                   terminal, acking, backendReady, closed, stopped>>

\* Every job of the batch is answered; a terminal backend ends the worker.
FinishBatch ==
    /\ worker \in {"reply", "fail"}
    /\ mid = "none"
    /\ batch = <<>>
    /\ stats' = Add("inFlight", -size)
    /\ size' = 0
    /\ worker' = IF terminal THEN "collect" ELSE "recv"
    /\ UNCHANGED <<callerVars, oneshot, chan, deferred, batch, mid, terminal,
                   acking, backendReady, closed, stopped>>

\* fail_pending: try_iter moves the channel into the deferred queue.  Senders
\* may refill it meanwhile, and nobody is notified of the freed slots.
Collect ==
    /\ worker = "collect"
    /\ \/ /\ chan # <<>>
          /\ deferred' = Append(deferred, Head(chan))
          /\ chan' = Tail(chan)
          /\ UNCHANGED worker
       \/ /\ chan = <<>>
          /\ worker' = "drain"
          /\ UNCHANGED <<deferred, chan>>
    /\ UNCHANGED <<callerVars, oneshot, batch, size, mid, terminal, acking,
                   backendReady, closed, stopped, stats>>

\* fail_pending: each deferred job gets an error; a second shutdown command is
\* dropped with its `done` sender.
DrainNext ==
    /\ worker = "drain"
    /\ mid = "none"
    /\ deferred # <<>>
    /\ deferred' = Tail(deferred)
    /\ LET x == Head(deferred)
       IN  \/ x \in Requests /\ SendError(x, "drained") /\ stats' = Add("depth", -1)
           \/ /\ x \in Stoppers
              /\ oneshot' = [oneshot EXCEPT ![x] = "broken"]
              /\ UNCHANGED <<mid, stats>>
    /\ UNCHANGED <<callerVars, chan, batch, size, worker, terminal, acking,
                   backendReady, closed, stopped>>

\* fail_pending returns; a shutdown is acknowledged and the loop ends.
FinishDrain ==
    /\ worker = "drain"
    /\ mid = "none"
    /\ deferred = <<>>
    /\ oneshot' = [x \in Callers |-> IF x \in acking THEN "acked" ELSE oneshot[x]]
    /\ acking' = {}
    /\ worker' = "unwind"
    /\ UNCHANGED <<callerVars, chan, deferred, batch, size, mid, terminal,
                   backendReady, closed, stopped, stats>>

\* worker_loop's locals and its receiver are dropped, with every reply sender
\* still held by the batch, the deferred queue and the channel.
DropReceiver ==
    /\ worker = "unwind"
    /\ LET held == Elements(batch) \cup Elements(deferred) \cup Elements(chan)
       IN  oneshot' = [x \in Callers |-> IF x \in held THEN "broken" ELSE oneshot[x]]
    /\ chan' = <<>>
    /\ deferred' = <<>>
    /\ batch' = <<>>
    /\ worker' = "guard"
    /\ UNCHANGED <<callerVars, size, mid, terminal, acking, backendReady,
                   closed, stopped, stats>>

\* WorkerStoppedGuard runs last, after the backend is dropped.
DropGuard ==
    /\ worker = "guard"
    /\ stopped' = TRUE
    /\ worker' = "gone"
    /\ UNCHANGED <<callerVars, oneshot, chan, deferred, batch, size, mid,
                   terminal, acking, backendReady, closed, stats>>

\* The backend stops being ready, while it runs or while it is idle, for good.
BackendFails ==
    /\ backendReady
    /\ worker \notin {"guard", "gone"}
    /\ backendReady' = FALSE
    /\ UNCHANGED <<callerVars, oneshot, chan, workerVars, closed, stopped, stats>>

-----------------------------------------------------------------------------
\* Every step a call takes once it has begun, whatever its client does.
CallerStep(x) ==
    \/ x \in Requests /\ (CheckStopped(x) \/ CountAccepted(x))
    \/ Probe(x) \/ CheckWorker(x) \/ Retry(x) \/ EnqueueDeadline(x)
    \/ ReceiveReply(x) \/ Expire(x) \/ ReportTimeout(x)

WorkerStep ==
    \/ TakeDeferred \/ Receive \/ IdleCheck \/ Gather \/ Launch
    \/ RunBackend \/ Panic \/ CountCompleted \/ SendOutput
    \/ FailJob \/ CountFailed \/ FinishBatch
    \/ Collect \/ DrainNext \/ FinishDrain \/ DropReceiver \/ DropGuard

\* recv_timeout elapses on an empty channel, the backend is ready: poll again.
PollAgain ==
    /\ worker = "recv"
    /\ deferred = <<>>
    /\ chan = <<>>
    /\ backendReady
    /\ UNCHANGED vars

\* The last Translator handle is dropped after every call: the channel
\* disconnects and the idle worker ends.
DropHandles ==
    /\ worker = "recv"
    /\ deferred = <<>>
    /\ chan = <<>>
    /\ backendReady
    /\ \A x \in Callers : caller[x] = "done"
    /\ worker' = "unwind"
    /\ UNCHANGED <<callerVars, oneshot, chan, deferred, batch, size, mid,
                   terminal, acking, backendReady, closed, stopped, stats>>

\* The worker thread has ended and so has every call.
Ended ==
    /\ worker = "gone"
    /\ \A x \in Callers : caller[x] = "done"
    /\ UNCHANGED vars

Next ==
    \/ \E r \in Requests : CheckClosed(r) \/ Cancel(r)
    \/ \E s \in Stoppers : CloseAdmission(s)
    \/ \E x \in Callers : CallerStep(x)
    \/ WorkerStep
    \/ BackendFails
    \/ PollAgain
    \/ DropHandles
    \/ Ended

\* The Tokio runtime polls a task that can go on, and its timers fire.
CallerFairness == \A x \in Callers : WF_vars(CallerStep(x))

\* The worker thread runs, and inference returns or panics.
WorkerFairness == WF_vars(WorkerStep)

\* A backend call may hang for ever.
HangingSpec == Init /\ [][Next]_vars /\ CallerFairness

Spec == HangingSpec /\ WorkerFairness

-----------------------------------------------------------------------------
(* Safety. *)

Jobs(seq) == {i \in DOMAIN seq : seq[i] \in Requests}

\* Calls that have published the gauge and are still in send_command.
Sending == {r \in Requests : caller[r] \in {"probing", "full", "parked"}}

\* Commands the worker has not started on, in the order it will look at them.
Queue == deferred \o chan

Once(seq) == \A i, j \in DOMAIN seq : seq[i] = seq[j] => i = j

\* The calls whose reply sender some part of the system holds.
Held == Elements(chan) \cup Elements(deferred) \cup Elements(batch) \cup acking

\* A command that was sent is in exactly one place until it is answered, and in
\* none afterwards: no accepted caller is left waiting for a sender nobody has,
\* and no job is run or answered twice.
SingleCustody ==
    /\ Once(chan) /\ Once(deferred) /\ Once(batch)
    /\ Elements(chan) \cap (Elements(deferred) \cup Elements(batch) \cup acking) = {}
    /\ Elements(deferred) \cap (Elements(batch) \cup acking) = {}
    /\ \A x \in Callers :
        /\ oneshot[x] # "unset" => x \notin Held
        /\ caller[x] \in {"sent", "awaiting", "expired"} /\ oneshot[x] = "unset"
               => x \in Held

\* The comment at scheduler.rs:627: a caller that observes its reply also
\* observes its completed count, whatever replies were rolled back.
CompletionsCountedFirst ==
    Cardinality({r \in Requests : outcome[r] = "ok"}) <= stats["completed"]

\* The comment at scheduler.rs:265: the queue gauge covers every job in the
\* queue and every sender still waiting, so no fetch_sub wraps it below zero.
GaugeCoversQueue ==
    Cardinality(Sending) + Cardinality(Jobs(Queue)) <= stats["depth"]

\* The same comment, and the assertion at scheduler.rs:1288 after an overload: the
\* gauge counts jobs queued and senders waiting, so it is zero without any.
GaugeReturnsToZero ==
    Sending = {} /\ Jobs(Queue) = {} => stats["depth"] = 0

\* While the worker lives, in_flight is the batch it works on and nothing else.
InFlightIsTheBatch ==
    worker \notin {"unwind", "guard", "gone"} =>
        stats["inFlight"] = IF worker \in {"infer", "reply", "fail"} THEN size ELSE 0

\* The comment at scheduler.rs:570: the deferred queue is no shadow queue.  Until
\* the worker ends it holds at most one command, and none while a batch gathers,
\* so that at most Capacity + 1 commands are admitted ahead of the backend.
NoShadowQueue ==
    worker \notin {"collect", "drain", "unwind"} =>
        /\ Len(deferred) <= 1
        /\ worker = "gather" => deferred = <<>>

\* A batch holds one key and never exceeds the limit of that key.
BatchCompatible ==
    \A i \in DOMAIN batch :
        /\ Key[batch[i]] = Key[batch[1]]
        /\ Len(batch) <= BatchLimit(Key[batch[1]])

\* The comment at scheduler.rs:618: the failed state is published before any
\* reply of the last batch and before draining, so a caller that learns of the
\* end from its answer finds the service not ready.
NotReadyBeforeLastAnswers ==
    \/ terminal
    \/ \E x \in Callers : oneshot[x] = "drained"
    \/ \E x \in Callers : outcome[x] \in {"shuttingDown", "acked"}
    => ~Ready

\* A stopped worker starts no batch: nothing reaches a terminal backend again.
NoBatchOnceStopped ==
    [][stopped => stats'["batches"] = stats["batches"]]_vars

-----------------------------------------------------------------------------
(* Liveness. *)

\* Every call ends, whatever the worker does: the two timeouts bound it.
CallsReturn ==
    \A x \in Callers : caller[x] # "new" ~> caller[x] = "done"

\* A shutdown that reached a worker that does not hang ends it, whatever
\* batches precede it.
ShutdownTakesEffect ==
    WorkerFairness => ((\E s \in Stoppers : s \in Elements(Queue)) ~> worker = "gone")

\* A backend that stops being ready is noticed by a worker that does not hang,
\* even when no request comes.
FailureIsPublished ==
    WorkerFairness => (~backendReady ~> ~Ready /\ worker = "gone")

-----------------------------------------------------------------------------
(* Refinement: the deferred queue and the channel are one queue, the batch and *)
(* the acknowledged shutdown are what runs.                                    *)

Mode ==
    CASE worker \in {"recv", "gather"} -> "forming"
      [] worker \in {"launch", "infer", "reply", "fail"} -> "running"
      [] worker = "unwind" /\ batch # <<>> -> "running"
      [] worker \in {"collect", "drain"} -> "draining"
      [] worker = "unwind" /\ batch = <<>> -> "draining"
      [] worker \in {"guard", "gone"} -> "ended"

Admitted ==
    Held \cup
    {x \in Callers : \/ oneshot[x] # "unset"
                     \/ caller[x] \in {"sent", "awaiting", "expired"}
                     \/ outcome[x] \in {"timeout", "cancelled"}}

Service == INSTANCE TranslationService
    WITH queue <- Queue, admitted <- Admitted, mode <- Mode,
         running <- Elements(batch) \cup acking, answer <- oneshot,
         Bound <- Capacity + 1, Limit <- BatchLimit

\* Scheduler implements TranslationService: commands leave in the order they
\* entered, batches are compatible, and each command is answered at most once.
ImplementsService == Service!Spec

=============================================================================
