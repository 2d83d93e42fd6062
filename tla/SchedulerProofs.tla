--------------------------- MODULE SchedulerProofs ---------------------------
(* What holds of one worker, where every command is, and that the worker is *)
(* the service TranslationService promises, for every set of calls, capacity *)
(* and batch limit.                                                          *)
EXTENDS Scheduler, FiniteSetTheorems, SequenceTheorems, TLAPS

-----------------------------------------------------------------------------
(* Lemmas on the operators of Scheduler. *)

\* A statistic of the service that moves by one stays in a table of integers.
LEMMA AddType ==
    ASSUME TypeOK, NEW n \in Counters
    PROVE  /\ Add(n, 1) \in [Counters -> Int]
           /\ Add(n, -1) \in [Counters -> Int]
  BY DEF TypeOK, Add

LEMMA CounterNames ==
    /\ "accepted" \in Counters /\ "completed" \in Counters /\ "failed" \in Counters
    /\ "timedOut" \in Counters /\ "rejected" \in Counters /\ "batches" \in Counters
    /\ "batchItems" \in Counters /\ "largest" \in Counters /\ "depth" \in Counters
    /\ "inFlight" \in Counters
  BY DEF Counters

\* The states and outcomes the steps of a call assign are in their types.
LEMMA StateNames ==
    /\ \A state \in {"opened", "probing", "full", "parked", "sent", "awaiting",
                     "expired", "done"} : state \in CallerStates
    /\ \A result \in {"shuttingDown", "workerStopped", "skipped", "lost",
                      "queueFull", "timeout", "abandoned", "cancelled"} :
          result \in Outcomes
    /\ Slots \ {"unset", "broken"} \subseteq Outcomes
  BY DEF CallerStates, Outcomes, Slots

LEMMA GotoType ==
    ASSUME TypeOK, NEW x \in Callers, NEW state \in CallerStates, Goto(x, state)
    PROVE  caller' \in [Callers -> CallerStates] /\ outcome' \in [Callers -> Outcomes]
  BY DEF TypeOK, Goto

LEMMA FinishType ==
    ASSUME TypeOK, NEW x \in Callers, NEW result \in Outcomes, Finish(x, result)
    PROVE  caller' \in [Callers -> CallerStates] /\ outcome' \in [Callers -> Outcomes]
  BY StateNames DEF TypeOK, Finish

-----------------------------------------------------------------------------
(* Types. *)

LEMMA TypeInit == Init => TypeOK
  <1> SUFFICES ASSUME Init PROVE TypeOK
    OBVIOUS
  <1>1. /\ caller \in [Callers -> CallerStates]
        /\ outcome \in [Callers -> Outcomes]
        /\ oneshot \in [Callers -> Slots]
        /\ stats \in [Counters -> Int]
    BY DEF Init, CallerStates, Outcomes, Slots
  <1>2. chan \in Seq(Callers) /\ deferred \in Seq(Callers) /\ batch \in Seq(Requests)
    BY DEF Init
  <1>3. worker \in WorkerStates
    BY DEF Init, WorkerStates
  <1>4. QED
    BY <1>1, <1>2, <1>3 DEF Init, TypeOK

\* A call touches its own state, the statistics, the channel and the closed flag.
LEMMA TypeCalls ==
    ASSUME TypeOK,
           caller' \in [Callers -> CallerStates],
           outcome' \in [Callers -> Outcomes],
           chan' \in Seq(Callers),
           closed' \in BOOLEAN,
           stats' \in [Counters -> Int],
           UNCHANGED <<oneshot, workerVars, backendReady, stopped>>
    PROVE  TypeOK'
  BY DEF TypeOK, workerVars

\* A call's own step keeps every variable in its type.
LEMMA TypeCallers ==
    ASSUME TypeOK, NEW x \in Callers,
           \/ x \in Requests /\ (CheckClosed(x) \/ Cancel(x))
           \/ x \in Stoppers /\ CloseAdmission(x)
           \/ CallerStep(x)
    PROVE  TypeOK'
  <1>0. /\ caller \in [Callers -> CallerStates] /\ outcome \in [Callers -> Outcomes]
        /\ chan \in Seq(Callers) /\ closed \in BOOLEAN /\ stats \in [Counters -> Int]
        /\ oneshot \in [Callers -> Slots]
    BY DEF TypeOK
  <1>1. CASE x \in Requests /\ CheckClosed(x)
    BY <1>0, <1>1, TypeCalls, StateNames, GotoType, FinishType DEF CheckClosed
  <1>2. CASE x \in Requests /\ Cancel(x)
    BY <1>0, <1>2, TypeCalls, StateNames, FinishType DEF Cancel
  <1>3. CASE x \in Stoppers /\ CloseAdmission(x)
    BY <1>0, <1>3, TypeCalls, StateNames, GotoType, FinishType DEF CloseAdmission
  <1>4. CASE x \in Requests /\ CheckStopped(x)
    <2>1. stats' \in [Counters -> Int]
      BY <1>0, <1>4, AddType, CounterNames DEF CheckStopped
    <2>2. QED
      BY <1>0, <1>4, <2>1, TypeCalls, StateNames, GotoType, FinishType DEF CheckStopped
  <1>5. CASE x \in Requests /\ CountAccepted(x)
    <2>1. stats' \in [Counters -> Int]
      BY <1>0, <1>5, AddType, CounterNames DEF CountAccepted
    <2>2. QED
      BY <1>0, <1>5, <2>1, TypeCalls, StateNames, GotoType DEF CountAccepted
  <1>6. CASE Probe(x)
    <2>1. CASE RxOpen /\ Len(chan) < Capacity
      <3>1. CASE chan' = Append(chan, x) /\ UNCHANGED stats
        BY <1>0, <1>6, <2>1, <3>1, TypeCalls, StateNames, GotoType DEF Probe
      <3>2. QED
        BY <1>6, <2>1, <3>1 DEF Probe
    <2>2. CASE RxOpen /\ Len(chan) = Capacity
      BY <1>0, <1>6, <2>2, TypeCalls, StateNames, GotoType DEF Probe
    <2>3. CASE ~RxOpen
      <3>1. Disconnected(x) /\ UNCHANGED <<chan, closed>>
        BY <1>6, <2>3 DEF Probe
      <3>2. stats' \in [Counters -> Int]
        BY <1>0, <3>1, AddType, CounterNames DEF Disconnected
      <3>3. QED
        BY <1>0, <1>6, <3>1, <3>2, TypeCalls, StateNames, FinishType
           DEF Probe, Disconnected
    <2>4. QED
      BY <1>6, <2>1, <2>2, <2>3 DEF Probe
  <1>7. CASE CheckWorker(x)
    <2>1. stats' \in [Counters -> Int]
      BY <1>0, <1>7, AddType, CounterNames DEF CheckWorker, Disconnected
    <2>2. QED
      BY <1>0, <1>7, <2>1, TypeCalls, StateNames, GotoType, FinishType
         DEF CheckWorker, Disconnected
  <1>8. CASE Retry(x)
    BY <1>0, <1>8, TypeCalls, StateNames, GotoType DEF Retry
  <1>9. CASE EnqueueDeadline(x)
    <2>1. [stats EXCEPT !["depth"] = @ - 1, !["rejected"] = @ + 1] \in [Counters -> Int]
      BY <1>0, CounterNames
    <2>2. stats' \in [Counters -> Int]
      BY <1>0, <1>9, <2>1 DEF EnqueueDeadline
    <2>3. QED
      BY <1>0, <1>9, <2>2, TypeCalls, StateNames, FinishType DEF EnqueueDeadline
  <1>10. CASE ReceiveReply(x)
    <2>1. oneshot[x] \notin {"unset", "broken"} => oneshot[x] \in Outcomes
      BY <1>0, StateNames
    <2>2. QED
      BY <1>0, <1>10, <2>1, TypeCalls, StateNames, FinishType DEF ReceiveReply
  <1>11. CASE Expire(x)
    BY <1>0, <1>11, TypeCalls, StateNames, GotoType DEF Expire
  <1>12. CASE ReportTimeout(x)
    <2>1. stats' \in [Counters -> Int]
      BY <1>0, <1>12, AddType, CounterNames DEF ReportTimeout
    <2>2. QED
      BY <1>0, <1>12, <2>1, TypeCalls, StateNames, FinishType DEF ReportTimeout
  <1>13. QED
    BY <1>1, <1>2, <1>3, <1>4, <1>5, <1>6, <1>7, <1>8, <1>9, <1>10, <1>11, <1>12
       DEF CallerStep

\* What every step of the worker leaves to show of the types.
LEMMA TypeWorkerVars ==
    ASSUME TypeOK,
           oneshot' \in [Callers -> Slots],
           chan' \in Seq(Callers),
           deferred' \in Seq(Callers),
           batch' \in Seq(Requests),
           size' \in Nat,
           worker' \in WorkerStates,
           mid' \in {"none", "counted", "sent"},
           terminal' \in BOOLEAN,
           acking' \in SUBSET Stoppers,
           backendReady' \in BOOLEAN,
           stopped' \in BOOLEAN,
           stats' \in [Counters -> Int],
           UNCHANGED <<callerVars, closed>>
    PROVE  TypeOK'
  BY DEF TypeOK, callerVars

\* The head of a nonempty sequence is in the set the sequence is over.
LEMMA HeadTail ==
    ASSUME NEW S, NEW seq \in Seq(S), seq # <<>>
    PROVE  /\ Head(seq) \in S
           /\ Tail(seq) \in Seq(S)
           /\ Len(seq) \in Nat \ {0}
           /\ Len(Tail(seq)) = Len(seq) - 1
  OBVIOUS

\* A command added to a sequence, at either end.
LEMMA AppendType ==
    ASSUME NEW S, NEW seq \in Seq(S), NEW e \in S
    PROVE  /\ Append(seq, e) \in Seq(S)
           /\ <<e>> \in Seq(S)
           /\ <<e>> \o seq \in Seq(S)
  OBVIOUS

\* Taking a command, from the deferred queue or from the channel.
LEMMA TypeTake ==
    ASSUME TypeOK, NEW x \in Callers, Take(x)
    PROVE  /\ batch' \in Seq(Requests)
           /\ worker' \in WorkerStates
           /\ acking' \in SUBSET Stoppers
           /\ stats' \in [Counters -> Int]
  <1>1. CASE x \in Requests /\ TakeJob(x)
    <2>1. stats' \in [Counters -> Int] /\ acking' \in SUBSET Stoppers
      BY <1>1, AddType, CounterNames DEF TypeOK, TakeJob
    <2>2. worker' \in WorkerStates
      BY <1>1 DEF TypeOK, TakeJob, WorkerStates
    <2>3. <<x>> \in Seq(Requests) /\ batch \in Seq(Requests)
      BY <1>1, AppendType DEF TypeOK
    <2>4. batch' \in Seq(Requests)
      BY <1>1, <2>3 DEF TakeJob
    <2>5. QED
      BY <2>1, <2>2, <2>4
  <1>2. CASE x \in Stoppers /\ TakeShutdown(x)
    BY <1>2 DEF TypeOK, TakeShutdown, WorkerStates
  <1>3. QED
    BY <1>1, <1>2 DEF Take

\* A step of the worker keeps every variable in its type.
LEMMA TypeWorker ==
    ASSUME TypeOK, WorkerStep
    PROVE  TypeOK'
  <1>0. /\ oneshot \in [Callers -> Slots]
        /\ chan \in Seq(Callers) /\ deferred \in Seq(Callers) /\ batch \in Seq(Requests)
        /\ size \in Nat /\ worker \in WorkerStates
        /\ mid \in {"none", "counted", "sent"} /\ terminal \in BOOLEAN
        /\ acking \in SUBSET Stoppers /\ backendReady \in BOOLEAN
        /\ stopped \in BOOLEAN /\ stats \in [Counters -> Int]
        /\ Callers = Requests \cup Stoppers
    BY DEF TypeOK, Callers
  <1>a. /\ {"gather", "launch", "infer", "reply", "fail", "recv", "collect",
            "drain", "unwind", "guard", "gone"} \subseteq WorkerStates
        /\ {"ok", "error", "drained", "broken", "acked"} \subseteq Slots
    BY DEF WorkerStates, Slots
  <1>1. CASE TakeDeferred
    <2>1. Head(deferred) \in Callers /\ Tail(deferred) \in Seq(Callers)
      BY <1>0, <1>1, HeadTail DEF TakeDeferred
    <2>2. QED
      BY <1>0, <1>1, <2>1, TypeTake, TypeWorkerVars DEF TakeDeferred
  <1>2. CASE Receive
    <2>1. Head(chan) \in Callers /\ Tail(chan) \in Seq(Callers)
      BY <1>0, <1>2, HeadTail DEF Receive
    <2>2. QED
      BY <1>0, <1>2, <2>1, TypeTake, TypeWorkerVars DEF Receive
  <1>3. CASE IdleCheck
    BY <1>0, <1>a, <1>3, TypeWorkerVars DEF IdleCheck
  <1>4. CASE Gather
    <2> DEFINE x == Head(chan)
    <2>1. x \in Callers /\ chan' \in Seq(Callers)
      BY <1>0, <1>4, HeadTail DEF Gather
    <2>2. /\ UNCHANGED <<callerVars, oneshot, size, mid, terminal, acking,
                         backendReady, closed, stopped>>
          /\ GatherClosed(x) \/ GatherSame(x) \/ GatherOther(x) \/ GatherShutdown(x)
      BY <1>4 DEF Gather
    <2>3. stats' \in [Counters -> Int]
      BY <1>0, <2>2, AddType, CounterNames
         DEF GatherClosed, GatherSame, GatherOther, GatherShutdown
    <2>4. batch' \in Seq(Requests)
      <3>1. x \in Requests => Append(batch, x) \in Seq(Requests)
        BY <1>0, AppendType
      <3>2. QED
        BY <1>0, <2>2, <3>1 DEF GatherClosed, GatherSame, GatherOther, GatherShutdown
    <2>5. deferred' \in Seq(Callers)
      <3>1. Append(deferred, x) \in Seq(Callers) /\ <<x>> \o deferred \in Seq(Callers)
        BY <1>0, <2>1, AppendType
      <3>2. QED
        BY <1>0, <2>2, <3>1 DEF GatherClosed, GatherSame, GatherOther, GatherShutdown
    <2>6. worker' \in WorkerStates
      BY <1>0, <1>a, <2>2 DEF GatherClosed, GatherSame, GatherOther, GatherShutdown
    <2>7. QED
      BY <1>0, <2>1, <2>2, <2>3, <2>4, <2>5, <2>6, TypeWorkerVars
  <1>5. CASE Launch
    <2>1. Len(batch) \in Nat
      BY <1>0
    <2>2. stats' \in [Counters -> Int]
      <3> DEFINE largest == IF stats["largest"] < Len(batch) THEN Len(batch) ELSE stats["largest"]
      <3>1. /\ stats["batches"] + 1 \in Int /\ stats["batchItems"] + Len(batch) \in Int
            /\ stats["inFlight"] + Len(batch) \in Int /\ largest \in Int
        BY <1>0, <2>1, CounterNames
      <3>2. QED
        BY <1>0, <1>5, <2>1, <3>1, CounterNames DEF Launch
    <2>3. QED
      BY <1>0, <1>a, <1>5, <2>1, <2>2, TypeWorkerVars DEF Launch
  <1>6. CASE RunBackend
    <2>1. stopped' \in BOOLEAN /\ terminal' \in BOOLEAN
      BY <1>0, <1>6 DEF RunBackend
    <2>2. QED
      BY <1>0, <1>a, <1>6, <2>1, TypeWorkerVars DEF RunBackend
  <1>7. CASE Panic
    BY <1>0, <1>a, <1>7, TypeWorkerVars DEF Panic
  <1>8. CASE CountCompleted
    <2>1. stats' \in [Counters -> Int]
      BY <1>0, <1>8, AddType, CounterNames DEF CountCompleted
    <2>2. batch' \in Seq(Requests) /\ mid' \in {"none", "counted", "sent"}
      BY <1>0, <1>8, HeadTail DEF CountCompleted
    <2>3. QED
      BY <1>0, <1>8, <2>1, <2>2, TypeWorkerVars DEF CountCompleted
  <1>9. CASE SendOutput
    <2>1. stats' \in [Counters -> Int]
      BY <1>0, <1>9, AddType, CounterNames DEF SendOutput
    <2>2. oneshot' \in [Callers -> Slots]
      BY <1>0, <1>a, <1>9 DEF SendOutput
    <2>3. batch' \in Seq(Requests) /\ mid' \in {"none", "counted", "sent"}
      BY <1>0, <1>9, HeadTail DEF SendOutput
    <2>4. QED
      BY <1>0, <1>9, <2>1, <2>2, <2>3, TypeWorkerVars DEF SendOutput
  <1>10. CASE FailJob
    <2>1. oneshot' \in [Callers -> Slots] /\ mid' \in {"none", "counted", "sent"}
      BY <1>0, <1>a, <1>10 DEF FailJob, SendError
    <2>2. batch' \in Seq(Requests)
      BY <1>0, <1>10, HeadTail DEF FailJob
    <2>3. QED
      BY <1>0, <1>10, <2>1, <2>2, TypeWorkerVars DEF FailJob
  <1>11. CASE CountFailed
    <2>1. stats' \in [Counters -> Int]
      BY <1>11, AddType, CounterNames DEF CountFailed
    <2>2. QED
      BY <1>0, <1>11, <2>1, TypeWorkerVars DEF CountFailed
  <1>12. CASE FinishBatch
    <2>1. stats' \in [Counters -> Int]
      BY <1>0, <1>12, CounterNames DEF FinishBatch, Add
    <2>2. worker' \in WorkerStates
      BY <1>a, <1>12 DEF FinishBatch
    <2>3. QED
      BY <1>0, <1>12, <2>1, <2>2, TypeWorkerVars DEF FinishBatch
  <1>13. CASE Collect
    <2>1. chan' \in Seq(Callers) /\ deferred' \in Seq(Callers)
      <3>1. CASE chan # <<>>
        <4>1. /\ Tail(chan) \in Seq(Callers)
              /\ Append(deferred, Head(chan)) \in Seq(Callers)
          BY <1>0, <3>1, HeadTail, AppendType
        <4>2. QED
          BY <1>13, <3>1, <4>1 DEF Collect
      <3>2. CASE chan = <<>>
        BY <1>0, <1>13, <3>2 DEF Collect
      <3>3. QED
        BY <3>1, <3>2
    <2>2. worker' \in WorkerStates
      BY <1>0, <1>a, <1>13 DEF Collect
    <2>3. QED
      BY <1>0, <1>13, <2>1, <2>2, TypeWorkerVars DEF Collect
  <1>14. CASE DrainNext
    <2> DEFINE x == Head(deferred)
    <2>1. x \in Callers /\ deferred' \in Seq(Callers)
      BY <1>0, <1>14, HeadTail DEF DrainNext
    <2>2. \/ x \in Requests /\ SendError(x, "drained") /\ stats' = Add("depth", -1)
          \/ oneshot' = [oneshot EXCEPT ![x] = "broken"] /\ UNCHANGED <<mid, stats>>
      BY <1>14 DEF DrainNext
    <2>3. stats' \in [Counters -> Int]
      BY <1>0, <2>2, AddType, CounterNames
    <2>4. oneshot' \in [Callers -> Slots] /\ mid' \in {"none", "counted", "sent"}
      BY <1>0, <1>a, <2>1, <2>2 DEF SendError
    <2>5. QED
      BY <1>0, <1>14, <2>1, <2>3, <2>4, TypeWorkerVars DEF DrainNext
  <1>15. CASE FinishDrain
    <2>1. oneshot' \in [Callers -> Slots]
      BY <1>0, <1>a, <1>15 DEF FinishDrain
    <2>2. QED
      BY <1>0, <1>a, <1>15, <2>1, TypeWorkerVars DEF FinishDrain
  <1>16. CASE DropReceiver
    <2>1. oneshot' \in [Callers -> Slots]
      BY <1>0, <1>a, <1>16 DEF DropReceiver
    <2>2. QED
      BY <1>0, <1>a, <1>16, <2>1, TypeWorkerVars DEF DropReceiver
  <1>17. CASE DropGuard
    BY <1>0, <1>a, <1>17, TypeWorkerVars DEF DropGuard
  <1>18. QED
    BY <1>1, <1>2, <1>3, <1>4, <1>5, <1>6, <1>7, <1>8, <1>9, <1>10, <1>11,
       <1>12, <1>13, <1>14, <1>15, <1>16, <1>17 DEF WorkerStep

\* Every step of the system, and a stutter, keeps the types.
LEMMA TypeNext == TypeOK /\ [Next]_vars => TypeOK'
  <1> SUFFICES ASSUME TypeOK, [Next]_vars PROVE TypeOK'
    OBVIOUS
  <1>1. CASE \E x \in Callers : \/ x \in Requests /\ (CheckClosed(x) \/ Cancel(x))
                                \/ x \in Stoppers /\ CloseAdmission(x)
                                \/ CallerStep(x)
    BY <1>1, TypeCallers
  <1>2. CASE WorkerStep
    BY <1>2, TypeWorker
  <1>3. CASE BackendFails
    BY <1>3 DEF BackendFails, TypeOK, callerVars, workerVars
  <1>4. CASE DropHandles
    BY <1>4 DEF DropHandles, TypeOK, callerVars, WorkerStates
  <1>5. CASE UNCHANGED vars
    BY <1>5 DEF TypeOK, vars
  <1>6. QED
    BY <1>1, <1>2, <1>3, <1>4, <1>5 DEF Next, PollAgain, Ended, Callers

\* Every variable of one worker keeps its type, whatever the calls do.
THEOREM TypeCorrect == Spec => []TypeOK
  <1>1. Init /\ [][Next]_vars => []TypeOK
    BY TypeInit, TypeNext, PTL
  <1>2. QED
    BY <1>1 DEF Spec, HangingSpec

-----------------------------------------------------------------------------
(* Frames: what a step cannot touch. *)

CallStep(x) ==
    \/ x \in Requests /\ (CheckClosed(x) \/ Cancel(x))
    \/ x \in Stoppers /\ CloseAdmission(x)
    \/ CallerStep(x)

LEMMA StepCases ==
    Next <=> \/ \E x \in Callers : CallStep(x)
             \/ WorkerStep \/ BackendFails \/ PollAgain \/ DropHandles \/ Ended
  BY DEF Next, CallStep, Callers

\* A call touches neither the worker's variables nor any reply slot, never
\* reopens the service, and counts only what a call counts.
LEMMA CallFrame ==
    ASSUME TypeOK, NEW x \in Callers, CallStep(x)
    PROVE  /\ UNCHANGED <<oneshot, deferred, batch, size, worker, mid, terminal,
                          acking, backendReady, stopped>>
           /\ closed => closed'
           /\ stats'["batches"] = stats["batches"]
           /\ stats'["inFlight"] = stats["inFlight"]
  <1>1. UNCHANGED <<oneshot, workerVars, backendReady, stopped>>
    BY DEF CallStep, CallerStep, CheckClosed, Cancel, CloseAdmission, CheckStopped,
           CountAccepted, Probe, CheckWorker, Retry, EnqueueDeadline, ReceiveReply,
           Expire, ReportTimeout
  <1>2. closed => closed'
    BY DEF CallStep, CallerStep, CheckClosed, Cancel, CloseAdmission, CheckStopped,
           CountAccepted, Probe, CheckWorker, Retry, EnqueueDeadline, ReceiveReply,
           Expire, ReportTimeout
  <1>3. \/ UNCHANGED stats
        \/ \E n \in {"depth", "accepted", "timedOut"}, k \in {1, -1} : stats' = Add(n, k)
        \/ stats' = [stats EXCEPT !["depth"] = @ - 1, !["rejected"] = @ + 1]
    BY DEF CallStep, CallerStep, CheckClosed, Cancel, CloseAdmission, CheckStopped,
           CountAccepted, Probe, CheckWorker, Retry, EnqueueDeadline, ReceiveReply,
           Expire, ReportTimeout, Disconnected
  <1>4. /\ stats'["batches"] = stats["batches"]
        /\ stats'["inFlight"] = stats["inFlight"]
    BY <1>3, CounterNames DEF TypeOK, Add
  <1>5. QED
    BY <1>1, <1>2, <1>4 DEF workerVars

\* The worker touches neither the calls nor the closed flag.
LEMMA WorkerFrame ==
    ASSUME WorkerStep
    PROVE  UNCHANGED <<caller, outcome, closed, backendReady>>
  BY DEF WorkerStep, TakeDeferred, Receive, IdleCheck, Gather, Launch, RunBackend,
         Panic, CountCompleted, SendOutput, FailJob, CountFailed, FinishBatch,
         Collect, DrainNext, FinishDrain, DropReceiver, DropGuard, callerVars

-----------------------------------------------------------------------------
(* The end of the worker: the strengthening of NotReadyBeforeLastAnswers and   *)
(* NoBatchOnceStopped.  A stopped worker is past its last batch; a worker that *)
(* drains was stopped or shut down first; and only a closed service can have   *)
(* a shutdown command anywhere.                                                *)

Ending ==
    /\ terminal => stopped
    /\ stopped => worker \in {"reply", "fail", "collect", "drain", "unwind",
                              "guard", "gone"}
    /\ stopped /\ worker \in {"reply", "fail"} => terminal
    /\ worker \in {"collect", "drain"} => closed \/ stopped

Closing ==
    ~closed => /\ chan \in Seq(Requests)
               /\ deferred \in Seq(Requests)
               /\ acking = {}
               /\ \A s \in Stoppers : caller[s] = "new"

LastAnswers ==
    \A x \in Callers :
        /\ oneshot[x] = "drained" => closed \/ stopped
        /\ oneshot[x] = "acked" => closed
        /\ outcome[x] \in {"shuttingDown", "acked"} => closed

EndInv == TypeOK /\ Ending /\ Closing /\ LastAnswers

LEMMA EndInit == Init => EndInv
  <1> SUFFICES ASSUME Init PROVE EndInv
    OBVIOUS
  <1>1. TypeOK
    BY TypeInit
  <1>2. Ending /\ Closing /\ LastAnswers
    BY DEF Init, Ending, Closing, LastAnswers, Callers
  <1>3. QED
    BY <1>1, <1>2 DEF EndInv

\* The steps of a call: only a shutdown that has closed the service sends its
\* command, and a call learns the end only from the closed flag or its slot.
LEMMA EndCalls ==
    ASSUME EndInv, NEW x \in Callers, CallStep(x)
    PROVE  EndInv'
  <1>1. TypeOK /\ Ending /\ Closing /\ LastAnswers
    BY DEF EndInv
  <1>2. TypeOK'
    BY <1>1, TypeCallers DEF CallStep
  <1>3. Ending'
    BY <1>1, CallFrame DEF Ending
  <1>4. Closing'
    <2> SUFFICES ASSUME ~closed' PROVE Closing'
      BY DEF Closing
    <2>1. /\ ~closed
          /\ chan \in Seq(Requests) /\ deferred' \in Seq(Requests) /\ acking' = {}
          /\ \A s \in Stoppers : caller[s] = "new"
      BY <1>1, CallFrame DEF Closing
    <2>2. x \in Requests /\ ~(x \in Stoppers /\ CloseAdmission(x))
      <3>1. CASE x \in Stoppers
        BY <2>1, <3>1, SchedulerAssumption
           DEF CallStep, CloseAdmission, CallerStep, Probe, CheckWorker, Retry,
               EnqueueDeadline, ReceiveReply, Expire, ReportTimeout
      <3>2. QED
        BY <3>1, SchedulerAssumption DEF Callers
    <2>3. chan' \in Seq(Requests)
      <3>1. Append(chan, x) \in Seq(Requests)
        BY <2>1, <2>2, AppendType
      <3>2. chan' = Append(chan, x) \/ chan' = chan
        BY <2>2 DEF CallStep, CallerStep, CheckClosed, Cancel, CheckStopped,
               CountAccepted, Probe, CheckWorker, Retry, EnqueueDeadline,
               ReceiveReply, Expire, ReportTimeout
      <3>3. QED
        BY <2>1, <3>1, <3>2
    <2>4. \A s \in Stoppers : caller'[s] = "new"
      <3>1. \A s \in Callers \ {x} : caller'[s] = caller[s]
        BY <1>1 DEF TypeOK, CallStep, CallerStep, CheckClosed, Cancel, CloseAdmission,
               CheckStopped, CountAccepted, Probe, CheckWorker, Retry,
               EnqueueDeadline, ReceiveReply, Expire, ReportTimeout, Disconnected,
               Goto, Finish
      <3>2. QED
        BY <2>1, <2>2, <3>1, SchedulerAssumption DEF Callers
    <2>5. QED
      BY <2>1, <2>3, <2>4 DEF Closing
  <1>5. LastAnswers'
    <2>1. oneshot' = oneshot /\ stopped' = stopped /\ (closed => closed')
      BY <1>1, CallFrame
    <2>2. \/ UNCHANGED outcome
          \/ \E result \in Outcomes :
                /\ outcome' = [outcome EXCEPT ![x] = result]
                /\ result = "shuttingDown" => closed
                /\ result = "acked" => oneshot[x] = "acked"
      <3>1. CASE x \in Requests /\ (CheckClosed(x) \/ Cancel(x) \/ CheckStopped(x))
        BY <3>1, StateNames DEF CheckClosed, Cancel, CheckStopped, Goto, Finish
      <3>2. CASE x \in Stoppers /\ CloseAdmission(x)
        BY <3>2, StateNames DEF CloseAdmission, Goto, Finish
      <3>3. CASE \/ x \in Requests /\ CountAccepted(x)
                 \/ Probe(x) \/ CheckWorker(x) \/ Retry(x)
        BY <3>3, StateNames
           DEF CountAccepted, Probe, CheckWorker, Retry, Disconnected, Goto, Finish
      <3>4. CASE EnqueueDeadline(x) \/ Expire(x) \/ ReportTimeout(x)
        BY <3>4, StateNames DEF EnqueueDeadline, Expire, ReportTimeout, Goto, Finish
      <3>5. CASE ReceiveReply(x)
        <4>1. oneshot[x] \notin {"unset", "broken"} => oneshot[x] \in Outcomes
          BY <1>1, StateNames DEF TypeOK
        <4>2. oneshot[x] # "shuttingDown"
          BY <1>1 DEF TypeOK, Slots
        <4>3. QED
          BY <3>5, <4>1, <4>2, StateNames DEF ReceiveReply, Finish
      <3>6. QED
        BY <3>1, <3>2, <3>3, <3>4, <3>5 DEF CallStep, CallerStep
    <2>3. \A y \in Callers : outcome'[y] \in {"shuttingDown", "acked"} => closed
      BY <1>1, <2>2 DEF TypeOK, LastAnswers
    <2>4. QED
      BY <1>1, <2>1, <2>3 DEF LastAnswers
  <1>6. QED
    BY <1>2, <1>3, <1>4, <1>5 DEF EndInv

\* The steps of the worker: it drains only after a stop or behind a shutdown.
LEMMA EndWorker ==
    ASSUME EndInv, WorkerStep
    PROVE  EndInv'
  <1>1. TypeOK /\ Ending /\ Closing /\ LastAnswers
    BY DEF EndInv
  <1>2. TypeOK'
    BY <1>1, TypeWorker
  <1>3. /\ caller' = caller /\ outcome' = outcome /\ closed' = closed
        /\ stopped => stopped'
    <2>1. stopped => stopped'
      BY <1>1 DEF TypeOK, WorkerStep, TakeDeferred, Receive, IdleCheck, Gather, Launch,
         RunBackend, Panic, CountCompleted, SendOutput, FailJob, CountFailed,
         FinishBatch, Collect, DrainNext, FinishDrain, DropReceiver, DropGuard
    <2>2. QED
      BY <2>1, WorkerFrame
  <1>4. Ending'
    <2>1. CASE TakeDeferred \/ Receive
      <3>1. PICK x \in Callers : /\ Take(x)
                                 /\ x \in Stoppers => closed
        <4>1. \A seq \in Seq(Callers) : seq # <<>> => Head(seq) \in Callers
          BY HeadTail
        <4>2. \A seq \in Seq(Requests) : seq # <<>> => Head(seq) \notin Stoppers
          BY HeadTail, SchedulerAssumption
        <4>3. QED
          BY <1>1, <2>1, <4>1, <4>2 DEF TakeDeferred, Receive, TypeOK, Closing
      <3>2. worker' \in {"recv", "gather", "collect"} /\ (worker' = "collect" => closed)
        BY <2>1, <3>1 DEF Take, TakeJob, TakeShutdown, TakeDeferred, Receive
      <3>3. UNCHANGED <<terminal, closed, stopped>> /\ worker = "recv"
        BY <2>1 DEF TakeDeferred, Receive
      <3>4. QED
        BY <1>1, <3>2, <3>3 DEF Ending
    <2>2. CASE IdleCheck
      BY <1>1, <2>2 DEF IdleCheck, Ending
    <2>3. CASE Gather
      BY <1>1, <2>3 DEF Gather, GatherClosed, GatherSame, GatherOther,
                        GatherShutdown, Ending
    <2>4. CASE Launch
      BY <1>1, <2>4 DEF Launch, Ending
    <2>5. CASE RunBackend
      BY <1>1, <2>5 DEF RunBackend, Ending, TypeOK
    <2>6. CASE Panic \/ DropReceiver \/ DropGuard \/ FinishDrain
      BY <1>1, <2>6 DEF Panic, DropReceiver, DropGuard, FinishDrain, Ending
    <2>7. CASE CountCompleted \/ SendOutput \/ FailJob \/ CountFailed
      BY <1>1, <2>7 DEF CountCompleted, SendOutput, FailJob, CountFailed, Ending
    <2>8. CASE FinishBatch
      BY <1>1, <2>8 DEF FinishBatch, Ending, TypeOK
    <2>9. CASE Collect \/ DrainNext
      BY <1>1, <2>9 DEF Collect, DrainNext, Ending
    <2>10. QED
      BY <2>1, <2>2, <2>3, <2>4, <2>5, <2>6, <2>7, <2>8, <2>9 DEF WorkerStep
  <1>5. Closing'
    <2> SUFFICES ASSUME ~closed'
                 PROVE  /\ chan' \in Seq(Requests) /\ deferred' \in Seq(Requests)
                        /\ acking' = {}
      BY <1>1, <1>3 DEF Closing
    <2>0. chan \in Seq(Requests) /\ deferred \in Seq(Requests) /\ acking = {}
      BY <1>1, <1>3 DEF Closing
    <2>1. \A seq \in Seq(Requests) : seq # <<>> =>
              /\ Tail(seq) \in Seq(Requests)
              /\ Head(seq) \in Requests /\ Head(seq) \notin Stoppers
              /\ Append(deferred, Head(seq)) \in Seq(Requests)
      BY <2>0, HeadTail, AppendType, SchedulerAssumption
    <2>2. CASE TakeDeferred \/ Receive
      BY <2>0, <2>1, <2>2 DEF TakeDeferred, Receive, Take, TakeJob, TakeShutdown
    <2>3. CASE Gather
      BY <2>0, <2>1, <2>3
         DEF Gather, GatherClosed, GatherSame, GatherOther, GatherShutdown
    <2>4. CASE Collect
      BY <2>0, <2>1, <2>4 DEF Collect
    <2>5. CASE DrainNext
      BY <2>0, <2>1, <2>5 DEF DrainNext
    <2>6. CASE DropReceiver
      BY <2>0, <2>6 DEF DropReceiver
    <2>7. CASE \/ IdleCheck \/ Launch \/ RunBackend \/ Panic \/ CountCompleted
               \/ SendOutput \/ FailJob \/ CountFailed \/ FinishBatch
               \/ FinishDrain \/ DropGuard
      BY <2>0, <2>7 DEF IdleCheck, Launch, RunBackend, Panic, CountCompleted, SendOutput,
         FailJob, CountFailed, FinishBatch, FinishDrain, DropGuard
    <2>8. QED
      BY <2>2, <2>3, <2>4, <2>5, <2>6, <2>7 DEF WorkerStep
  <1>6. LastAnswers'
    <2>1. \A x \in Callers :
              /\ oneshot'[x] = "drained" => oneshot[x] = "drained" \/ worker = "drain"
              /\ oneshot'[x] = "acked" => oneshot[x] = "acked" \/ acking # {}
      <3>1. CASE SendOutput \/ FailJob
        BY <1>1, <3>1 DEF TypeOK, SendOutput, FailJob, SendError
      <3>2. CASE DrainNext
        BY <1>1, <3>2 DEF TypeOK, DrainNext, SendError
      <3>3. CASE FinishDrain \/ DropReceiver
        BY <3>3 DEF FinishDrain, DropReceiver
      <3>4. CASE \/ TakeDeferred \/ Receive \/ IdleCheck \/ Gather \/ Launch
                 \/ RunBackend \/ Panic \/ CountCompleted \/ CountFailed
                 \/ FinishBatch \/ Collect \/ DropGuard
        BY <3>4 DEF TakeDeferred, Receive, IdleCheck, Gather, Launch, RunBackend,
           Panic, CountCompleted, CountFailed, FinishBatch, Collect, DropGuard
      <3>5. QED
        BY <3>1, <3>2, <3>3, <3>4 DEF WorkerStep
    <2>2. /\ worker = "drain" => closed \/ stopped
          /\ acking # {} => closed
      BY <1>1 DEF Ending, Closing
    <2>3. QED
      BY <1>1, <1>3, <2>1, <2>2 DEF LastAnswers
  <1>7. QED
    BY <1>2, <1>4, <1>5, <1>6 DEF EndInv

LEMMA EndNext == EndInv /\ [Next]_vars => EndInv'
  <1> SUFFICES ASSUME EndInv, [Next]_vars PROVE EndInv'
    OBVIOUS
  <1>0. TypeOK'
    BY TypeNext DEF EndInv
  <1>1. CASE \E x \in Callers : CallStep(x)
    BY <1>1, EndCalls
  <1>2. CASE WorkerStep
    BY <1>2, EndWorker
  <1>3. CASE BackendFails \/ DropHandles
    BY <1>0, <1>3 DEF EndInv, Ending, Closing, LastAnswers, BackendFails, DropHandles,
                      callerVars, workerVars
  <1>4. CASE UNCHANGED vars
    BY <1>0, <1>4 DEF EndInv, Ending, Closing, LastAnswers, vars
  <1>5. QED
    BY <1>1, <1>2, <1>3, <1>4, StepCases DEF PollAgain, Ended

LEMMA EndCorrect == Init /\ [][Next]_vars => []EndInv
  BY EndInit, EndNext, PTL

\* The failed or closed state is published before any answer of the last batch,
\* of a drain or of a shutdown is sent: a caller that learns of the end finds
\* the service not ready.
THEOREM LastAnswersFindServiceNotReady == Spec => []NotReadyBeforeLastAnswers
  <1>1. EndInv => NotReadyBeforeLastAnswers
    BY DEF EndInv, Ending, LastAnswers, NotReadyBeforeLastAnswers, Ready
  <1>2. QED
    BY <1>1, EndCorrect, PTL DEF Spec, HangingSpec

\* A stopped worker is past the loop that forms batches: it never starts another.
THEOREM StoppedWorkerStartsNothing == Spec => NoBatchOnceStopped
  <1>1. EndInv /\ [Next]_vars => [stopped => stats'["batches"] = stats["batches"]]_vars
    <2> SUFFICES ASSUME EndInv, Next, stopped
                 PROVE  stats'["batches"] = stats["batches"]
      BY DEF vars
    <2>0. /\ TypeOK
          /\ worker \in {"reply", "fail", "collect", "drain", "unwind", "guard", "gone"}
      BY DEF EndInv, Ending
    <2>1. CASE \E x \in Callers : CallStep(x)
      BY <2>0, <2>1, CallFrame
    <2>2. CASE WorkerStep
      <3>1. \/ UNCHANGED stats
            \/ \E n \in {"completed", "failed", "inFlight", "depth"}, k \in Int :
                  stats' = Add(n, k)
        <4>1. CASE FinishBatch
          <5>1. -size \in Int /\ stats' = Add("inFlight", -size)
            BY <2>0, <4>1 DEF FinishBatch, TypeOK
          <5>2. QED
            BY <5>1
        <4>2. CASE DrainNext
          <5>1. UNCHANGED stats \/ stats' = Add("depth", -1)
            BY <4>2 DEF DrainNext
          <5>2. QED
            BY <5>1
        <4>3. CASE CountCompleted \/ SendOutput \/ CountFailed
          <5>1. \/ UNCHANGED stats
                \/ stats' = Add("completed", 1)
                \/ stats' = Add("completed", -1)
                \/ stats' = Add("failed", 1)
            BY <4>3 DEF CountCompleted, SendOutput, CountFailed
          <5>2. QED
            BY <5>1
        <4>5. CASE FailJob \/ Collect \/ FinishDrain \/ DropReceiver \/ DropGuard
          BY <4>5 DEF FailJob, Collect, FinishDrain, DropReceiver, DropGuard
        <4>4. QED
          BY <2>0, <2>2, <4>1, <4>2, <4>3, <4>5
             DEF WorkerStep, TakeDeferred, Receive, IdleCheck, Gather, Launch,
                 RunBackend, Panic
      <3>2. QED
        BY <2>0, <3>1, CounterNames DEF TypeOK, Add
    <2>3. CASE BackendFails \/ DropHandles \/ PollAgain \/ Ended
      BY <2>3 DEF BackendFails, DropHandles, PollAgain, Ended, vars
    <2>4. QED
      BY <2>1, <2>2, <2>3, StepCases
  <1>2. QED
    BY <1>1, EndCorrect, PTL DEF Spec, HangingSpec, NoBatchOnceStopped

-----------------------------------------------------------------------------
(* Lemmas on batches. *)

\* The jobs of a sequence share the key of its first one and fit its limit.
Compatible(seq) ==
    \A i \in DOMAIN seq :
        /\ Key[seq[i]] = Key[seq[1]]
        /\ Len(seq) <= BatchLimit(Key[seq[1]])

\* A job of any key may run alone.
LEMMA LimitAllowsOne ==
    ASSUME NEW k \in Keys
    PROVE  BatchLimit(k) \in Int /\ BatchLimit(k) >= 1
  <1>1. Bucket[k] \in Nat /\ Bucket[k] # 0 /\ MaxPadded \in Nat /\ MaxBatch \in 1..256
    BY SchedulerAssumption
  <1>2. MaxPadded \div Bucket[k] \in Int
    BY <1>1
  <1>3. QED
    BY <1>1, <1>2 DEF BatchLimit

LEMMA FirstJob ==
    ASSUME NEW r \in Requests
    PROVE  Compatible(<<r>>)
  <1>1. Key[r] \in Keys
    BY SchedulerAssumption
  <1>2. BatchLimit(Key[r]) \in Int /\ BatchLimit(Key[r]) >= 1
    BY <1>1, LimitAllowsOne
  <1>3. QED
    BY <1>2 DEF Compatible

LEMMA AnotherJob ==
    ASSUME NEW seq \in Seq(Requests), seq # <<>>, Compatible(seq),
           NEW r \in Requests, Key[r] = Key[seq[1]],
           Len(seq) < BatchLimit(Key[seq[1]])
    PROVE  Compatible(Append(seq, r))
  <1>1. seq[1] \in Requests /\ Key[seq[1]] \in Keys
    BY SchedulerAssumption
  <1>2. BatchLimit(Key[seq[1]]) \in Int
    BY <1>1, LimitAllowsOne
  <1>3. Append(seq, r)[1] = seq[1] /\ Len(Append(seq, r)) = Len(seq) + 1
    BY DEF Compatible
  <1>4. \A i \in DOMAIN Append(seq, r) : Key[Append(seq, r)[i]] = Key[seq[1]]
    BY DEF Compatible
  <1>5. QED
    BY <1>2, <1>3, <1>4 DEF Compatible

LEMMA FewerJobs ==
    ASSUME NEW seq \in Seq(Requests), seq # <<>>, Compatible(seq)
    PROVE  Compatible(Tail(seq))
  <1> SUFFICES ASSUME NEW i \in DOMAIN Tail(seq)
               PROVE  /\ Key[Tail(seq)[i]] = Key[Tail(seq)[1]]
                      /\ Len(Tail(seq)) <= BatchLimit(Key[Tail(seq)[1]])
    BY DEF Compatible
  <1>1. /\ Tail(seq)[i] = seq[i + 1] /\ Tail(seq)[1] = seq[2]
        /\ i + 1 \in DOMAIN seq /\ 2 \in DOMAIN seq /\ 1 \in DOMAIN seq
        /\ Len(Tail(seq)) = Len(seq) - 1
    OBVIOUS
  <1>2. /\ Key[seq[i + 1]] = Key[seq[1]] /\ Key[seq[2]] = Key[seq[1]]
        /\ Len(seq) <= BatchLimit(Key[seq[1]])
    BY <1>1 DEF Compatible
  <1>3. BatchLimit(Key[seq[1]]) \in Int /\ Len(seq) \in Nat
    BY LimitAllowsOne, SchedulerAssumption
  <1>4. QED
    BY <1>1, <1>2, <1>3

-----------------------------------------------------------------------------
(* The inductive invariant: no command is deferred while a batch gathers, so  *)
(* the one command that ends the gathering is alone in the deferred queue.    *)

Gathering == worker = "gather" => batch # <<>> /\ deferred = <<>>

OneDeferred ==
    worker \notin {"collect", "drain", "unwind"} => Len(deferred) <= 1

BatchInv == TypeOK /\ Gathering /\ OneDeferred /\ Compatible(batch)

LEMMA BatchInit == Init => BatchInv
  <1> SUFFICES ASSUME Init PROVE BatchInv
    OBVIOUS
  <1>1. TypeOK
    BY TypeInit
  <1>2. batch = <<>> /\ deferred = <<>> /\ worker = "recv"
    BY DEF Init
  <1>3. Compatible(batch)
    BY <1>2 DEF Compatible
  <1>4. QED
    BY <1>1, <1>2, <1>3 DEF BatchInv, Gathering, OneDeferred

LEMMA BatchTake ==
    ASSUME BatchInv, NEW x \in Callers, Take(x)
    PROVE  /\ Compatible(batch')
           /\ worker' = "gather" => batch' # <<>>
           /\ worker' \in {worker, "gather", "collect"}
  <1>1. CASE x \in Requests /\ TakeJob(x)
    <2>1. CASE ReplyOpen(x)
      <3>1. batch' = <<x>> /\ worker' = "gather"
        BY <1>1, <2>1 DEF TakeJob
      <3>2. QED
        BY <1>1, <3>1, FirstJob
    <2>2. CASE ~ReplyOpen(x)
      BY <1>1, <2>2 DEF TakeJob, BatchInv, Gathering
    <2>3. QED
      BY <2>1, <2>2
  <1>2. CASE x \in Stoppers /\ TakeShutdown(x)
    BY <1>2 DEF TakeShutdown, BatchInv
  <1>3. QED
    BY <1>1, <1>2 DEF Take

LEMMA BatchWorker ==
    ASSUME BatchInv, WorkerStep
    PROVE  BatchInv'
  <1>0. /\ TypeOK /\ Gathering /\ OneDeferred /\ Compatible(batch)
        /\ chan \in Seq(Callers) /\ deferred \in Seq(Callers) /\ batch \in Seq(Requests)
    BY DEF BatchInv, TypeOK
  <1>1. TypeOK'
    BY <1>0, TypeWorker
  <1>2. CASE TakeDeferred
    <2>1. /\ worker = "recv" /\ deferred # <<>> /\ deferred' = Tail(deferred)
          /\ Head(deferred) \in Callers /\ Take(Head(deferred))
      BY <1>0, <1>2, HeadTail DEF TakeDeferred
    <2>2. deferred' = <<>>
      BY <1>0, <2>1 DEF OneDeferred
    <2>3. QED
      BY <1>1, <2>1, <2>2, BatchTake DEF BatchInv, Gathering, OneDeferred
  <1>3. CASE Receive
    <2>1. /\ worker = "recv" /\ deferred = <<>> /\ deferred' = <<>>
          /\ Head(chan) \in Callers /\ Take(Head(chan))
      BY <1>0, <1>3, HeadTail DEF Receive
    <2>2. QED
      BY <1>1, <2>1, BatchTake DEF BatchInv, Gathering, OneDeferred
  <1>4. CASE Gather
    <2>1. /\ worker = "gather" /\ batch # <<>> /\ deferred = <<>>
          /\ Len(batch) < BatchLimit(Key[batch[1]])
          /\ Head(chan) \in Callers
          /\ \/ GatherClosed(Head(chan)) \/ GatherSame(Head(chan))
             \/ GatherOther(Head(chan)) \/ GatherShutdown(Head(chan))
      BY <1>0, <1>4, HeadTail DEF Gather, Gathering
    <2>2. CASE GatherClosed(Head(chan))
      BY <1>0, <1>1, <2>1, <2>2 DEF GatherClosed, BatchInv, Gathering, OneDeferred
    <2>3. CASE GatherSame(Head(chan))
      <3>1. /\ batch' = Append(batch, Head(chan)) /\ Head(chan) \in Requests
            /\ Key[Head(chan)] = Key[batch[1]] /\ UNCHANGED <<deferred, worker>>
        BY <2>3 DEF GatherSame
      <3>2. Compatible(batch') /\ batch' # <<>>
        BY <1>0, <2>1, <3>1, AnotherJob
      <3>3. QED
        BY <1>1, <2>1, <3>1, <3>2 DEF BatchInv, Gathering, OneDeferred
    <2>4. CASE GatherOther(Head(chan)) \/ GatherShutdown(Head(chan))
      <3>1. /\ worker' = "launch" /\ UNCHANGED batch
            /\ deferred' = <<Head(chan)>>
        BY <2>1, <2>4 DEF GatherOther, GatherShutdown
      <3>2. QED
        BY <1>0, <1>1, <3>1 DEF BatchInv, Gathering, OneDeferred
    <2>5. QED
      BY <2>1, <2>2, <2>3, <2>4
  <1>5. CASE CountCompleted \/ SendOutput \/ FailJob
    <2>1. /\ batch # <<>> /\ worker \in {"reply", "fail"}
          /\ batch' = batch \/ batch' = Tail(batch)
          /\ UNCHANGED <<worker, deferred>>
      BY <1>5 DEF CountCompleted, SendOutput, FailJob
    <2>2. Compatible(batch')
      BY <1>0, <2>1, FewerJobs
    <2>3. QED
      BY <1>0, <1>1, <2>1, <2>2 DEF BatchInv, Gathering, OneDeferred
  <1>6. CASE IdleCheck \/ Launch \/ RunBackend \/ Panic \/ FinishBatch \/ CountFailed
    <2>1. /\ UNCHANGED <<batch, deferred>>
          /\ worker' # "gather" \/ worker' = worker
          /\ worker' \in {"collect", "unwind"} \/ worker' = worker
             \/ worker \in {"gather", "launch", "infer", "reply", "fail"}
      BY <1>6 DEF IdleCheck, Launch, RunBackend, Panic, FinishBatch, CountFailed
    <2>2. QED
      BY <1>0, <1>1, <2>1 DEF BatchInv, Gathering, OneDeferred
  <1>7. CASE Collect \/ DrainNext \/ FinishDrain
    <2>1. /\ UNCHANGED batch
          /\ worker' \in {"collect", "drain", "unwind"}
      BY <1>7 DEF Collect, DrainNext, FinishDrain
    <2>2. QED
      BY <1>0, <1>1, <2>1 DEF BatchInv, Gathering, OneDeferred
  <1>8. CASE DropReceiver \/ DropGuard
    <2>1. /\ worker' \in {"guard", "gone"}
          /\ batch' = <<>> \/ batch' = batch
          /\ deferred' = <<>> \/ (deferred' = deferred /\ worker = "guard")
      BY <1>8 DEF DropReceiver, DropGuard
    <2>2. Compatible(<<>>)
      BY DEF Compatible
    <2>3. QED
      BY <1>0, <1>1, <2>1, <2>2 DEF BatchInv, Gathering, OneDeferred
  <1>9. QED
    BY <1>2, <1>3, <1>4, <1>5, <1>6, <1>7, <1>8 DEF WorkerStep

LEMMA BatchNext == BatchInv /\ [Next]_vars => BatchInv'
  <1> SUFFICES ASSUME BatchInv, [Next]_vars PROVE BatchInv'
    OBVIOUS
  <1>0. TypeOK /\ TypeOK'
    BY TypeNext DEF BatchInv
  <1>1. CASE \E x \in Callers : CallStep(x)
    <2>1. UNCHANGED <<batch, deferred, worker>>
      BY <1>0, <1>1, CallFrame
    <2>2. QED
      BY <1>0, <2>1 DEF BatchInv, Gathering, OneDeferred, Compatible
  <1>2. CASE WorkerStep
    BY <1>2, BatchWorker
  <1>3. CASE BackendFails \/ DropHandles \/ UNCHANGED vars
    <2>1. UNCHANGED <<batch, deferred>> /\ (worker' = worker \/ worker' = "unwind")
      BY <1>3 DEF BackendFails, DropHandles, vars, workerVars
    <2>2. QED
      BY <1>0, <2>1 DEF BatchInv, Gathering, OneDeferred, Compatible
  <1>4. QED
    BY <1>1, <1>2, <1>3, StepCases DEF PollAgain, Ended

LEMMA BatchCorrect == Init /\ [][Next]_vars => []BatchInv
  BY BatchInit, BatchNext, PTL

\* A batch never mixes keys and never outgrows the limit of its key, on every
\* path into it: the first job, a gathered one, and what is left of it while its
\* jobs are answered.
THEOREM BatchesAreCompatible == Spec => []BatchCompatible
  <1>1. BatchInv => BatchCompatible
    BY DEF BatchInv, BatchCompatible, Compatible
  <1>2. QED
    BY <1>1, BatchCorrect, PTL DEF Spec, HangingSpec

\* The deferred queue holds one command at the most while the worker serves:
\* what Capacity admits is all that waits, plus that command.
THEOREM DeferredIsNoShadowQueue == Spec => []NoShadowQueue
  <1>1. BatchInv => NoShadowQueue
    BY DEF BatchInv, NoShadowQueue, Gathering, OneDeferred
  <1>2. QED
    BY <1>1, BatchCorrect, PTL DEF Spec, HangingSpec

-----------------------------------------------------------------------------
(* The in_flight gauge. *)

FlightInv == TypeOK /\ InFlightIsTheBatch

LEMMA FlightWorker ==
    ASSUME FlightInv, WorkerStep
    PROVE  InFlightIsTheBatch'
  <1>0. /\ TypeOK /\ InFlightIsTheBatch
        /\ stats \in [Counters -> Int] /\ size \in Nat /\ batch \in Seq(Requests)
        /\ Len(batch) \in Nat
    BY DEF FlightInv, TypeOK
  <1>1. CASE TakeDeferred \/ Receive
    <2>1. PICK x : Take(x)
      BY <1>1 DEF TakeDeferred, Receive
    <2>2. /\ worker = "recv" /\ size' = size /\ worker' \in {"recv", "gather", "collect"}
          /\ stats' = stats \/ stats' = Add("depth", -1)
      BY <1>1, <2>1 DEF TakeDeferred, Receive, Take, TakeJob, TakeShutdown
    <2>3. stats'["inFlight"] = stats["inFlight"]
      BY <1>0, <2>2, CounterNames DEF Add
    <2>4. QED
      BY <1>0, <2>2, <2>3 DEF InFlightIsTheBatch
  <1>2. CASE Gather
    <2>1. /\ worker = "gather" /\ size' = size /\ worker' \in {"gather", "launch"}
          /\ stats' = stats \/ stats' = Add("depth", -1)
      BY <1>2 DEF Gather, GatherClosed, GatherSame, GatherOther, GatherShutdown
    <2>2. stats'["inFlight"] = stats["inFlight"]
      BY <1>0, <2>1, CounterNames DEF Add
    <2>3. QED
      BY <1>0, <2>1, <2>2 DEF InFlightIsTheBatch
  <1>3. CASE Launch
    <2>1. /\ worker \in {"gather", "launch"} /\ worker' = "infer" /\ size' = Len(batch)
          /\ stats'["inFlight"] = stats["inFlight"] + Len(batch)
      BY <1>0, <1>3, CounterNames DEF Launch
    <2>2. QED
      BY <1>0, <2>1 DEF InFlightIsTheBatch
  <1>4. CASE FinishBatch
    <2>1. /\ worker \in {"reply", "fail"} /\ worker' \in {"recv", "collect"}
          /\ stats'["inFlight"] = stats["inFlight"] - size
      BY <1>0, <1>4, CounterNames DEF FinishBatch, Add
    <2>2. QED
      BY <1>0, <2>1 DEF InFlightIsTheBatch
  <1>5. CASE CountCompleted \/ SendOutput \/ CountFailed
    <2>1. /\ UNCHANGED <<worker, size>>
          /\ \/ stats' = stats
             \/ \E n \in {"completed", "failed"}, k \in {1, -1} : stats' = Add(n, k)
      BY <1>5 DEF CountCompleted, SendOutput, CountFailed
    <2>2. stats'["inFlight"] = stats["inFlight"]
      BY <1>0, <2>1, CounterNames DEF Add
    <2>3. QED
      BY <1>0, <2>1, <2>2 DEF InFlightIsTheBatch
  <1>6. CASE DrainNext
    <2>1. /\ UNCHANGED <<worker, size>>
          /\ stats' = stats \/ stats' = Add("depth", -1)
      BY <1>6 DEF DrainNext
    <2>2. stats'["inFlight"] = stats["inFlight"]
      BY <1>0, <2>1, CounterNames DEF Add
    <2>3. QED
      BY <1>0, <2>1, <2>2 DEF InFlightIsTheBatch
  <1>7. CASE \/ IdleCheck \/ RunBackend \/ Panic \/ FailJob \/ Collect
             \/ FinishDrain \/ DropReceiver \/ DropGuard
    <2>1. /\ UNCHANGED <<stats, size>>
          /\ \/ worker' = worker
             \/ worker = "recv" /\ worker' = "collect"
             \/ worker = "infer" /\ worker' \in {"reply", "fail"}
             \/ worker = "collect" /\ worker' = "drain"
             \/ worker' \in {"unwind", "guard", "gone"}
      BY <1>7 DEF IdleCheck, RunBackend, Panic, FailJob, Collect, FinishDrain,
                  DropReceiver, DropGuard
    <2>2. QED
      BY <1>0, <2>1 DEF InFlightIsTheBatch
  <1>8. QED
    BY <1>1, <1>2, <1>3, <1>4, <1>5, <1>6, <1>7 DEF WorkerStep

\* in_flight is exactly the batch that runs, however the answers of that batch
\* and the steps of the callers interleave: it returns to zero after each batch.
THEOREM InFlightGaugeIsExact == Spec => []InFlightIsTheBatch
  <1>1. Init => FlightInv
    <2> SUFFICES ASSUME Init PROVE FlightInv
      OBVIOUS
    <2>1. TypeOK /\ worker = "recv" /\ stats["inFlight"] = 0
      BY TypeInit, CounterNames DEF Init
    <2>2. QED
      BY <2>1 DEF FlightInv, InFlightIsTheBatch
  <1>2. FlightInv /\ [Next]_vars => FlightInv'
    <2> SUFFICES ASSUME FlightInv, [Next]_vars PROVE FlightInv'
      OBVIOUS
    <2>0. TypeOK /\ TypeOK'
      BY TypeNext DEF FlightInv
    <2>1. CASE \E x \in Callers : CallStep(x)
      <3>1. UNCHANGED <<worker, size>> /\ stats'["inFlight"] = stats["inFlight"]
        BY <2>0, <2>1, CallFrame
      <3>2. QED
        BY <2>0, <3>1 DEF FlightInv, InFlightIsTheBatch
    <2>2. CASE WorkerStep
      BY <2>0, <2>2, FlightWorker DEF FlightInv
    <2>3. CASE BackendFails \/ DropHandles \/ UNCHANGED vars
      <3>1. UNCHANGED <<stats, size>> /\ (worker' = worker \/ worker' = "unwind")
        BY <2>3 DEF BackendFails, DropHandles, vars, workerVars
      <3>2. QED
        BY <2>0, <3>1 DEF FlightInv, InFlightIsTheBatch
    <2>4. QED
      BY <2>1, <2>2, <2>3, StepCases DEF PollAgain, Ended
  <1>3. FlightInv => InFlightIsTheBatch
    BY DEF FlightInv
  <1>4. QED
    BY <1>1, <1>2, <1>3, PTL DEF Spec, HangingSpec

-----------------------------------------------------------------------------
(* Lemmas on sequences without repetition. *)

LEMMA EmptyElements == Elements(<<>>) = {} /\ Once(<<>>)
  BY DEF Elements, Once

LEMMA SingleElement ==
    ASSUME NEW e
    PROVE  Elements(<<e>>) = {e} /\ Once(<<e>>)
  BY DEF Elements, Once

\* The head of a sequence without repetition is gone from its tail.
LEMMA TailElements ==
    ASSUME NEW S, NEW seq \in Seq(S), seq # <<>>, Once(seq)
    PROVE  /\ Head(seq) \in Elements(seq)
           /\ Elements(Tail(seq)) = Elements(seq) \ {Head(seq)}
           /\ Once(Tail(seq))
  <1>1. /\ DOMAIN seq = 1 .. Len(seq) /\ Len(seq) \in Nat \ {0}
        /\ DOMAIN Tail(seq) = 1 .. Len(seq) - 1
        /\ \A i \in DOMAIN Tail(seq) : Tail(seq)[i] = seq[i + 1]
        /\ Head(seq) = seq[1]
    OBVIOUS
  <1>2. Head(seq) \in Elements(seq)
    BY <1>1 DEF Elements
  <1>3. Once(Tail(seq))
    <2> SUFFICES ASSUME NEW i \in DOMAIN Tail(seq), NEW j \in DOMAIN Tail(seq),
                        Tail(seq)[i] = Tail(seq)[j]
                 PROVE  i = j
      BY DEF Once
    <2>1. i + 1 \in DOMAIN seq /\ j + 1 \in DOMAIN seq /\ seq[i + 1] = seq[j + 1]
      BY <1>1
    <2>2. i + 1 = j + 1
      BY <2>1 DEF Once
    <2>3. QED
      BY <1>1, <2>2
  <1>4. ASSUME NEW e \in Elements(Tail(seq)) PROVE e \in Elements(seq) \ {Head(seq)}
    <2>1. PICK i \in DOMAIN Tail(seq) : e = Tail(seq)[i]
      BY DEF Elements
    <2>2. i + 1 \in DOMAIN seq /\ e = seq[i + 1] /\ i + 1 # 1 /\ 1 \in DOMAIN seq
      BY <1>1, <2>1
    <2>3. e # seq[1]
      BY <2>2 DEF Once
    <2>4. QED
      BY <1>1, <2>2, <2>3 DEF Elements
  <1>5. ASSUME NEW e \in Elements(seq) \ {Head(seq)} PROVE e \in Elements(Tail(seq))
    <2>1. PICK i \in DOMAIN seq : e = seq[i]
      BY DEF Elements
    <2>2. i # 1
      BY <1>1, <2>1
    <2>3. i - 1 \in DOMAIN Tail(seq) /\ e = Tail(seq)[i - 1]
      BY <1>1, <2>1, <2>2
    <2>4. QED
      BY <2>3 DEF Elements
  <1>6. QED
    BY <1>2, <1>3, <1>4, <1>5

\* A command that is not in a sequence may be added to it, at either end.
LEMMA AppendElements ==
    ASSUME NEW S, NEW seq \in Seq(S), NEW e \in S, e \notin Elements(seq), Once(seq)
    PROVE  Elements(Append(seq, e)) = Elements(seq) \cup {e} /\ Once(Append(seq, e))
  <1> DEFINE t == Append(seq, e)
  <1>1. /\ DOMAIN seq = 1 .. Len(seq) /\ Len(seq) \in Nat
        /\ DOMAIN t = 1 .. Len(seq) + 1
        /\ \A i \in DOMAIN seq : t[i] = seq[i]
        /\ t[Len(seq) + 1] = e
    OBVIOUS
  <1> HIDE DEF t
  <1>2. \A i \in DOMAIN t : i \in DOMAIN seq \/ i = Len(seq) + 1
    BY <1>1
  <1>3. Elements(t) = Elements(seq) \cup {e}
    <2>1. \A x \in Elements(t) : x \in Elements(seq) \cup {e}
      BY <1>1, <1>2 DEF Elements
    <2>2. \A x \in Elements(seq) : x \in Elements(t)
      <3>1. \A i \in DOMAIN seq : i \in DOMAIN t
        BY <1>1
      <3>2. QED
        BY <1>1, <3>1 DEF Elements
    <2>3. e \in Elements(t)
      <3>1. Len(seq) + 1 \in DOMAIN t
        BY <1>1
      <3>2. QED
        BY <1>1, <3>1 DEF Elements
    <2>4. QED
      BY <2>1, <2>2, <2>3
  <1>4. Once(t)
    <2> SUFFICES ASSUME NEW i \in DOMAIN t, NEW j \in DOMAIN t, t[i] = t[j] PROVE i = j
      BY DEF Once
    <2>1. \A k \in DOMAIN seq : t[k] # e
      BY <1>1 DEF Elements
    <2>2. CASE i \in DOMAIN seq /\ j \in DOMAIN seq
      BY <1>1, <2>2 DEF Once
    <2>3. CASE i \notin DOMAIN seq \/ j \notin DOMAIN seq
      BY <1>1, <1>2, <2>1, <2>3
    <2>4. QED
      BY <2>2, <2>3
  <1>5. QED
    BY <1>3, <1>4 DEF t

-----------------------------------------------------------------------------
(* Custody: the strengthening of SingleCustody. *)

\* A command that was not sent yet is nowhere, and its reply slot is untouched.
NotYetSent ==
    \A x \in Callers : caller[x] \in {"new", "opened", "probing", "full", "parked"} =>
        x \notin Held /\ oneshot[x] = "unset"

\* The worker holds a batch only while it works on one, and the sender of an
\* acknowledgement only while it drains.
HandsFree ==
    /\ worker = "recv" => batch = <<>>
    /\ acking # {} => worker \in {"collect", "drain"}

CustodyInv == TypeOK /\ SingleCustody /\ NotYetSent /\ HandsFree

Unsent == {"new", "opened", "probing", "full", "parked"}
Waiting == {"sent", "awaiting", "expired"}

Apart ==
    /\ Once(chan) /\ Once(deferred) /\ Once(batch)
    /\ Elements(chan) \cap (Elements(deferred) \cup Elements(batch) \cup acking) = {}
    /\ Elements(deferred) \cap (Elements(batch) \cup acking) = {}

SlotsMatch ==
    \A x \in Callers :
        /\ oneshot[x] # "unset" => x \notin Held
        /\ caller[x] \in Waiting /\ oneshot[x] = "unset" => x \in Held
        /\ caller[x] \in Unsent => x \notin Held /\ oneshot[x] = "unset"

LEMMA CustodyParts == CustodyInv <=> TypeOK /\ Apart /\ SlotsMatch /\ HandsFree
  BY DEF CustodyInv, SingleCustody, NotYetSent, Apart, SlotsMatch, Unsent, Waiting

LEMMA CustodyPartsNext ==
    ASSUME TypeOK', Apart', SlotsMatch', HandsFree'
    PROVE  CustodyInv'
  BY DEF CustodyInv, SingleCustody, NotYetSent, Apart, SlotsMatch, Unsent, Waiting

\* What the worker holds is a call, and of its kind.
LEMMA HeldTypes ==
    ASSUME TypeOK
    PROVE  /\ Elements(chan) \subseteq Callers
           /\ Elements(deferred) \subseteq Callers
           /\ Elements(batch) \subseteq Requests
           /\ acking \subseteq Stoppers
           /\ Elements(batch) \cap acking = {}
  <1>1. chan \in Seq(Callers) /\ deferred \in Seq(Callers) /\ batch \in Seq(Requests)
    BY DEF TypeOK
  <1>2. Elements(batch) \subseteq Requests
    BY <1>1 DEF Elements
  <1>3. Elements(chan) \subseteq Callers /\ Elements(deferred) \subseteq Callers
    BY <1>1 DEF Elements
  <1>4. acking \subseteq Stoppers
    BY DEF TypeOK
  <1>5. QED
    BY <1>2, <1>3, <1>4, SchedulerAssumption

\* A step of a call moves the call, and at the most puts its command into the
\* channel, which it does only once.
LEMMA CallEffect ==
    ASSUME TypeOK, NEW x \in Callers, CallStep(x)
    PROVE  \/ /\ chan' = chan
              /\ \E q \in CallerStates :
                    /\ caller' = [caller EXCEPT ![x] = q]
                    /\ q \in Unsent => caller[x] \in Unsent
                    /\ q \in Waiting => caller[x] \in Waiting
           \/ /\ caller[x] = "probing" /\ RxOpen /\ Len(chan) < Capacity
              /\ chan' = Append(chan, x)
              /\ \E q \in {"sent", "awaiting"} : caller' = [caller EXCEPT ![x] = q]
  <1>1. CASE Probe(x)
    BY <1>1, StateNames DEF Probe, Disconnected, Goto, Finish, Unsent, Waiting
  <1>2. CASE \/ x \in Requests /\ (CheckClosed(x) \/ Cancel(x))
             \/ x \in Stoppers /\ CloseAdmission(x)
    BY <1>2, StateNames DEF CheckClosed, Cancel, CloseAdmission, Goto, Finish, Unsent,
                            Waiting
  <1>3. CASE \/ x \in Requests /\ (CheckStopped(x) \/ CountAccepted(x))
             \/ CheckWorker(x) \/ Retry(x)
    BY <1>3, StateNames DEF CheckStopped, CountAccepted, CheckWorker, Retry, Disconnected,
                            Goto, Finish, Unsent, Waiting
  <1>4. CASE EnqueueDeadline(x) \/ ReceiveReply(x) \/ Expire(x) \/ ReportTimeout(x)
    BY <1>4, StateNames DEF EnqueueDeadline, ReceiveReply, Expire, ReportTimeout, Goto,
                            Finish, Unsent, Waiting
  <1>5. QED
    BY <1>1, <1>2, <1>3, <1>4 DEF CallStep, CallerStep

LEMMA CustodyCalls ==
    ASSUME CustodyInv, NEW x \in Callers, CallStep(x)
    PROVE  CustodyInv'
  <1>0. /\ TypeOK /\ Apart /\ SlotsMatch /\ HandsFree /\ TypeOK'
        /\ UNCHANGED <<oneshot, deferred, batch, worker, acking>>
        /\ caller \in [Callers -> CallerStates] /\ chan \in Seq(Callers)
    BY CustodyParts, TypeCallers, CallFrame DEF CallStep, TypeOK
  <1>1. HandsFree'
    BY <1>0 DEF HandsFree
  <1>2. CASE /\ chan' = chan
             /\ \E q \in CallerStates :
                    /\ caller' = [caller EXCEPT ![x] = q]
                    /\ q \in Unsent => caller[x] \in Unsent
                    /\ q \in Waiting => caller[x] \in Waiting
    <2>1. Held' = Held /\ Apart'
      BY <1>0, <1>2 DEF Held, Apart
    <2>2. \A y \in Callers : /\ caller'[y] \in Unsent => caller[y] \in Unsent
                             /\ caller'[y] \in Waiting => caller[y] \in Waiting
      BY <1>0, <1>2
    <2>3. SlotsMatch'
      BY <1>0, <2>1, <2>2 DEF SlotsMatch
    <2>4. QED
      BY <1>0, <1>1, <2>1, <2>3, CustodyPartsNext
  <1>3. CASE /\ caller[x] = "probing"
             /\ chan' = Append(chan, x)
             /\ \E q \in {"sent", "awaiting"} : caller' = [caller EXCEPT ![x] = q]
    <2>1. x \notin Held /\ oneshot[x] = "unset"
      BY <1>0, <1>3 DEF SlotsMatch, Unsent
    <2>2. Elements(chan') = Elements(chan) \cup {x} /\ Once(chan')
      BY <1>0, <1>3, <2>1, AppendElements DEF Held, Apart
    <2>3. Held' = Held \cup {x}
      BY <1>0, <2>2 DEF Held
    <2>4. Apart'
      BY <1>0, <2>1, <2>2 DEF Apart, Held
    <2>5. caller'[x] \in Waiting /\ caller'[x] \notin Unsent
      BY <1>0, <1>3 DEF Waiting, Unsent
    <2>6. \A y \in Callers \ {x} : caller'[y] = caller[y]
      BY <1>0, <1>3
    <2>7. SlotsMatch'
      BY <1>0, <2>1, <2>3, <2>5, <2>6 DEF SlotsMatch
    <2>8. QED
      BY <1>0, <1>1, <2>4, <2>7, CustodyPartsNext
  <1>4. QED
    BY <1>0, <1>2, <1>3, CallEffect

\* The worker passes a command from hand to hand.
LEMMA CustodyMoved ==
    ASSUME CustodyInv, TypeOK', Apart', HandsFree', Held' = Held,
           UNCHANGED <<caller, oneshot>>
    PROVE  CustodyInv'
  <1>1. SlotsMatch'
    BY CustodyParts DEF SlotsMatch
  <1>2. QED
    BY <1>1, CustodyPartsNext

\* The worker lets go of a command that it answers, or whose caller has gone.
LEMMA CustodyReleased ==
    ASSUME CustodyInv, TypeOK', Apart', HandsFree', UNCHANGED caller,
           NEW x \in Callers, x \in Held, Held' = Held \ {x},
           \/ oneshot'[x] # "unset"
           \/ caller[x] = "done" /\ oneshot'[x] = oneshot[x],
           \A y \in Callers \ {x} : oneshot'[y] = oneshot[y]
    PROVE  CustodyInv'
  <1>1. SlotsMatch
    BY CustodyParts
  <1>2. caller[x] \notin Unsent
    BY <1>1 DEF SlotsMatch
  <1>3. caller[x] = "done" => caller[x] \notin Waiting
    BY DEF Waiting
  <1>4. SlotsMatch'
    BY <1>1, <1>2, <1>3 DEF SlotsMatch
  <1>5. QED
    BY <1>4, CustodyPartsNext

\* The command at the head of the queue opens a batch, begins the drain, or is
\* dropped because its caller has gone.
LEMMA CustodyTake ==
    ASSUME CustodyInv, worker = "recv", NEW x \in Callers, Take(x), TypeOK',
           UNCHANGED <<caller, oneshot>>,
           x \in Elements(chan) \cup Elements(deferred),
           Once(chan') /\ Once(deferred'),
           \/ Elements(chan') = Elements(chan) \ {x} /\ deferred' = deferred
              /\ x \notin Elements(deferred)
           \/ Elements(deferred') = Elements(deferred) \ {x} /\ chan' = chan
              /\ x \notin Elements(chan)
    PROVE  CustodyInv'
  <1>0. /\ TypeOK /\ Apart /\ HandsFree
        /\ batch = <<>> /\ acking = {} /\ Elements(batch) = {}
        /\ x \in Held
    BY CustodyParts, EmptyElements DEF HandsFree, Held
  <1>1. Elements(chan') \cup Elements(deferred') = (Elements(chan) \cup Elements(deferred)) \ {x}
    OBVIOUS
  <1>2. Elements(chan') \cap Elements(deferred') = {}
    BY <1>0 DEF Apart
  <1>3. CASE x \in Requests /\ TakeJob(x) /\ ReplyOpen(x)
    <2>1. batch' = <<x>> /\ worker' = "gather" /\ acking' = {}
      BY <1>0, <1>3 DEF TakeJob
    <2>2. Elements(batch') = {x} /\ Once(batch')
      BY <2>1, SingleElement
    <2>3. Apart' /\ HandsFree'
      BY <1>1, <1>2, <2>1, <2>2 DEF Apart, HandsFree
    <2>4. Held' = Held
      BY <1>0, <1>1, <2>1, <2>2 DEF Held
    <2>5. QED
      BY <2>3, <2>4, CustodyMoved
  <1>4. CASE x \in Requests /\ TakeJob(x) /\ ~ReplyOpen(x)
    <2>1. batch' = batch /\ worker' = worker /\ acking' = {}
      BY <1>0, <1>4 DEF TakeJob
    <2>2. Apart' /\ HandsFree'
      BY <1>0, <1>1, <1>2, <2>1, EmptyElements DEF Apart, HandsFree
    <2>3. Held' = Held \ {x}
      BY <1>0, <1>1, <2>1 DEF Held
    <2>4. caller[x] = "done"
      BY <1>4 DEF ReplyOpen
    <2>5. QED
      BY <1>0, <2>2, <2>3, <2>4, CustodyReleased
  <1>5. CASE x \in Stoppers /\ TakeShutdown(x)
    <2>1. batch' = batch /\ worker' = "collect" /\ acking' = {x}
      BY <1>0, <1>5 DEF TakeShutdown
    <2>2. Apart' /\ HandsFree'
      BY <1>0, <1>1, <1>2, <2>1, EmptyElements DEF Apart, HandsFree
    <2>3. Held' = Held
      BY <1>0, <1>1, <2>1 DEF Held
    <2>4. QED
      BY <2>2, <2>3, CustodyMoved
  <1>6. QED
    BY <1>3, <1>4, <1>5 DEF Take, TakeJob

LEMMA CustodyWorker ==
    ASSUME CustodyInv, BatchInv, WorkerStep
    PROVE  CustodyInv'
  <1> DEFINE C == Elements(chan)
             D == Elements(deferred)
             B == Elements(batch)
  <1>0. /\ TypeOK /\ Apart /\ SlotsMatch /\ HandsFree /\ TypeOK'
        /\ UNCHANGED caller
        /\ Once(chan) /\ Once(deferred) /\ Once(batch)
        /\ chan \in Seq(Callers) /\ deferred \in Seq(Callers) /\ batch \in Seq(Requests)
        /\ oneshot \in [Callers -> Slots]
        /\ Held = C \cup D \cup B \cup acking
        /\ C \subseteq Callers /\ D \subseteq Callers /\ B \subseteq Callers
        /\ acking \subseteq Callers /\ B \cap acking = {}
    BY CustodyParts, TypeWorker, WorkerFrame, HeldTypes DEF TypeOK, Apart, Held, Callers
  <1>1. CASE TakeDeferred
    <2>1. /\ worker = "recv" /\ deferred # <<>> /\ deferred' = Tail(deferred)
          /\ Take(Head(deferred)) /\ UNCHANGED <<chan, oneshot>>
      BY <1>1 DEF TakeDeferred
    <2>2. /\ Head(deferred) \in D /\ Elements(deferred') = D \ {Head(deferred)}
          /\ Once(deferred')
      BY <1>0, <2>1, TailElements
    <2>3. Head(deferred) \notin C
      BY <1>0, <2>2 DEF Apart
    <2>4. QED
      BY <1>0, <2>1, <2>2, <2>3, CustodyTake
  <1>2. CASE Receive
    <2>1. /\ worker = "recv" /\ chan # <<>> /\ chan' = Tail(chan)
          /\ Take(Head(chan)) /\ UNCHANGED <<deferred, oneshot>>
      BY <1>2 DEF Receive
    <2>2. Head(chan) \in C /\ Elements(chan') = C \ {Head(chan)} /\ Once(chan')
      BY <1>0, <2>1, TailElements
    <2>3. Head(chan) \notin D
      BY <1>0, <2>2 DEF Apart
    <2>4. QED
      BY <1>0, <2>1, <2>2, <2>3, CustodyTake
  <1>3. CASE Gather
    <2> DEFINE x == Head(chan)
    <2>1. /\ worker = "gather" /\ chan # <<>> /\ chan' = Tail(chan)
          /\ GatherClosed(x) \/ GatherSame(x) \/ GatherOther(x) \/ GatherShutdown(x)
          /\ UNCHANGED <<oneshot, acking>>
      BY <1>3 DEF Gather
    <2>2. /\ x \in C /\ Elements(chan') = C \ {x} /\ Once(chan')
          /\ x \notin D /\ x \notin B /\ x \notin acking /\ x \in Callers /\ x \in Held
      BY <1>0, <2>1, TailElements DEF Apart
    <2>3. acking = {} /\ deferred = <<>> /\ D = {}
      BY <1>0, <2>1, EmptyElements DEF HandsFree, BatchInv, Gathering
    <2>4. CASE GatherClosed(x)
      <3>1. UNCHANGED <<batch, deferred, worker>> /\ caller[x] = "done"
        BY <2>4 DEF GatherClosed, ReplyOpen
      <3>2. Apart' /\ HandsFree' /\ Held' = Held \ {x}
        BY <1>0, <2>1, <2>2, <3>1 DEF Apart, HandsFree, Held
      <3>3. QED
        BY <1>0, <2>1, <2>2, <3>1, <3>2, CustodyReleased
    <2>5. CASE GatherSame(x)
      <3>1. UNCHANGED <<deferred, worker>> /\ batch' = Append(batch, x) /\ x \in Requests
        BY <2>5 DEF GatherSame
      <3>2. Elements(batch') = B \cup {x} /\ Once(batch')
        BY <1>0, <2>2, <3>1, AppendElements
      <3>3. Apart' /\ HandsFree' /\ Held' = Held
        BY <1>0, <2>1, <2>2, <3>1, <3>2 DEF Apart, HandsFree, Held
      <3>4. QED
        BY <1>0, <2>1, <3>3, CustodyMoved
    <2>6. CASE GatherOther(x) \/ GatherShutdown(x)
      <3>1. UNCHANGED batch /\ deferred' = <<x>> /\ worker' = "launch"
        BY <1>0, <2>3, <2>6 DEF GatherOther, GatherShutdown
      <3>2. Elements(deferred') = {x} /\ Once(deferred')
        BY <3>1, SingleElement
      <3>3. Apart' /\ HandsFree' /\ Held' = Held
        BY <1>0, <2>1, <2>2, <2>3, <3>1, <3>2 DEF Apart, HandsFree, Held
      <3>4. QED
        BY <1>0, <2>1, <3>3, CustodyMoved
    <2>7. QED
      BY <2>1, <2>4, <2>5, <2>6
  <1>4. CASE IdleCheck \/ Launch \/ RunBackend \/ Panic \/ CountFailed \/ FinishBatch
             \/ DropGuard
    <2>1. UNCHANGED <<chan, deferred, batch, acking, oneshot>>
      BY <1>4 DEF IdleCheck, Launch, RunBackend, Panic, CountFailed, FinishBatch, DropGuard
    <2>2. HandsFree'
      <3>1. worker' = "recv" => batch = <<>> \/ worker = "recv"
        BY <1>4 DEF IdleCheck, Launch, RunBackend, Panic, CountFailed, FinishBatch, DropGuard
      <3>2. worker' \in {"collect", "drain"} \/ worker \notin {"collect", "drain"}
        BY <1>4 DEF IdleCheck, Launch, RunBackend, Panic, CountFailed, FinishBatch, DropGuard
      <3>3. QED
        BY <1>0, <2>1, <3>1, <3>2 DEF HandsFree
    <2>3. Apart' /\ Held' = Held
      BY <1>0, <2>1 DEF Apart, Held
    <2>4. QED
      BY <1>0, <2>1, <2>2, <2>3, CustodyMoved
  <1>5. CASE CountCompleted /\ UNCHANGED batch
    <2>1. UNCHANGED <<chan, deferred, acking, oneshot, worker>>
      BY <1>5 DEF CountCompleted
    <2>2. Apart' /\ Held' = Held /\ HandsFree'
      BY <1>0, <1>5, <2>1 DEF Apart, Held, HandsFree
    <2>3. QED
      BY <1>0, <2>1, <2>2, CustodyMoved
  <1>6. CASE CountCompleted \/ SendOutput \/ FailJob
    <2>1. CASE batch' = batch /\ CountCompleted
      BY <1>5, <2>1
    <2>2. CASE batch' # batch \/ ~CountCompleted
      <3>1. /\ worker \in {"reply", "fail"} /\ batch # <<>> /\ batch' = Tail(batch)
            /\ UNCHANGED <<chan, deferred, acking, worker>>
        BY <1>6, <2>2 DEF CountCompleted, SendOutput, FailJob
      <3>2. \/ \E v \in {"ok", "error"} : oneshot' = [oneshot EXCEPT ![Head(batch)] = v]
            \/ caller[Head(batch)] = "done" /\ UNCHANGED oneshot
        BY <1>6, <2>2 DEF CountCompleted, SendOutput, FailJob, SendError, ReplyOpen
      <3>3. Head(batch) \in B /\ Elements(batch') = B \ {Head(batch)} /\ Once(batch')
        BY <1>0, <3>1, TailElements
      <3>4. Head(batch) \in Callers /\ Head(batch) \in Held
        BY <1>0, <3>3
      <3>5. Apart' /\ HandsFree' /\ Held' = Held \ {Head(batch)}
        BY <1>0, <3>1, <3>3 DEF Apart, HandsFree, Held
      <3>6. \/ oneshot'[Head(batch)] # "unset"
            \/ caller[Head(batch)] = "done" /\ oneshot'[Head(batch)] = oneshot[Head(batch)]
        BY <1>0, <3>2, <3>4
      <3>7. \A y \in Callers \ {Head(batch)} : oneshot'[y] = oneshot[y]
        BY <1>0, <3>2
      <3>8. QED
        BY <1>0, <3>4, <3>5, <3>6, <3>7, CustodyReleased
    <2>3. QED
      BY <2>1, <2>2
  <1>7. CASE Collect
    <2>1. worker = "collect" /\ UNCHANGED <<batch, acking, oneshot>>
      BY <1>7 DEF Collect
    <2>2. CASE chan # <<>>
      <3>1. /\ deferred' = Append(deferred, Head(chan)) /\ chan' = Tail(chan)
            /\ UNCHANGED worker
        BY <1>7, <2>2 DEF Collect
      <3>2. Head(chan) \in C /\ Elements(chan') = C \ {Head(chan)} /\ Once(chan')
        BY <1>0, <2>2, <3>1, TailElements
      <3>3. /\ Head(chan) \notin D /\ Head(chan) \notin B /\ Head(chan) \notin acking
            /\ Head(chan) \in Callers
        BY <1>0, <3>2 DEF Apart
      <3>4. Elements(deferred') = D \cup {Head(chan)} /\ Once(deferred')
        BY <1>0, <3>1, <3>3, AppendElements
      <3>5. Apart' /\ HandsFree' /\ Held' = Held
        BY <1>0, <2>1, <3>1, <3>2, <3>3, <3>4 DEF Apart, HandsFree, Held
      <3>6. QED
        BY <1>0, <2>1, <3>5, CustodyMoved
    <2>3. CASE chan = <<>>
      <3>1. UNCHANGED <<chan, deferred>> /\ worker' = "drain"
        BY <1>7, <2>3 DEF Collect
      <3>2. Apart' /\ HandsFree' /\ Held' = Held
        BY <1>0, <2>1, <3>1 DEF Apart, HandsFree, Held
      <3>3. QED
        BY <1>0, <2>1, <3>2, CustodyMoved
    <2>4. QED
      BY <2>2, <2>3
  <1>8. CASE DrainNext
    <2> DEFINE x == Head(deferred)
    <2>1. /\ worker = "drain" /\ deferred # <<>> /\ deferred' = Tail(deferred)
          /\ UNCHANGED <<chan, batch, acking, worker>>
      BY <1>8 DEF DrainNext
    <2>2. \/ \E v \in {"drained", "broken"} : oneshot' = [oneshot EXCEPT ![x] = v]
          \/ caller[x] = "done" /\ UNCHANGED oneshot
      BY <1>8 DEF DrainNext, SendError, ReplyOpen
    <2>3. x \in D /\ Elements(deferred') = D \ {x} /\ Once(deferred')
      BY <1>0, <2>1, TailElements
    <2>4. x \in Callers /\ x \in Held /\ x \notin C /\ x \notin B /\ x \notin acking
      BY <1>0, <2>3 DEF Apart
    <2>5. Apart' /\ HandsFree' /\ Held' = Held \ {x}
      BY <1>0, <2>1, <2>3, <2>4 DEF Apart, HandsFree, Held
    <2>6. \/ oneshot'[x] # "unset"
          \/ caller[x] = "done" /\ oneshot'[x] = oneshot[x]
      BY <1>0, <2>2, <2>4
    <2>7. \A y \in Callers \ {x} : oneshot'[y] = oneshot[y]
      BY <1>0, <2>2
    <2>8. QED
      BY <1>0, <2>4, <2>5, <2>6, <2>7, CustodyReleased
  <1>9. CASE FinishDrain
    <2>1. /\ oneshot' = [y \in Callers |-> IF y \in acking THEN "acked" ELSE oneshot[y]]
          /\ acking' = {} /\ worker' = "unwind" /\ UNCHANGED <<chan, deferred, batch>>
      BY <1>9 DEF FinishDrain
    <2>2. Apart' /\ HandsFree' /\ Held' = Held \ acking
      BY <1>0, <2>1 DEF Apart, HandsFree, Held
    <2>3. \A y \in Callers : /\ y \in acking => oneshot'[y] = "acked" /\ y \in Held
                             /\ y \notin acking => oneshot'[y] = oneshot[y]
      BY <1>0, <2>1
    <2>4. SlotsMatch'
      BY <1>0, <2>2, <2>3 DEF SlotsMatch
    <2>5. QED
      BY <1>0, <2>2, <2>4, CustodyPartsNext
  <1>10. CASE DropReceiver
    <2>1. /\ oneshot' = [y \in Callers |-> IF y \in B \cup D \cup C THEN "broken"
                                           ELSE oneshot[y]]
          /\ chan' = <<>> /\ deferred' = <<>> /\ batch' = <<>> /\ UNCHANGED acking
          /\ worker = "unwind" /\ worker' = "guard"
      BY <1>10 DEF DropReceiver
    <2>2. acking = {}
      BY <1>0, <2>1 DEF HandsFree
    <2>3. Apart' /\ HandsFree' /\ Held' = {}
      BY <2>1, <2>2, EmptyElements DEF Apart, HandsFree, Held
    <2>4. \A y \in Callers : /\ y \in Held => oneshot'[y] = "broken"
                             /\ y \notin Held => oneshot'[y] = oneshot[y]
      BY <1>0, <2>1, <2>2
    <2>5. SlotsMatch'
      BY <1>0, <2>3, <2>4 DEF SlotsMatch
    <2>6. QED
      BY <1>0, <2>3, <2>5, CustodyPartsNext
  <1>11. QED
    BY <1>1, <1>2, <1>3, <1>4, <1>6, <1>7, <1>8, <1>9, <1>10 DEF WorkerStep

LEMMA CustodyNext == CustodyInv /\ BatchInv /\ [Next]_vars => CustodyInv'
  <1> SUFFICES ASSUME CustodyInv, BatchInv, [Next]_vars PROVE CustodyInv'
    OBVIOUS
  <1>0. TypeOK /\ TypeOK' /\ Apart /\ HandsFree
    BY TypeNext, CustodyParts
  <1>1. CASE \E x \in Callers : CallStep(x)
    BY <1>1, CustodyCalls
  <1>2. CASE WorkerStep
    BY <1>2, CustodyWorker
  <1>3. CASE BackendFails \/ DropHandles \/ UNCHANGED vars
    <2>1. /\ UNCHANGED <<chan, deferred, batch, acking, oneshot, caller>>
          /\ worker' = worker \/ (worker = "recv" /\ worker' = "unwind")
      BY <1>3 DEF BackendFails, DropHandles, vars, workerVars, callerVars
    <2>2. Apart' /\ HandsFree' /\ Held' = Held
      BY <1>0, <2>1 DEF Apart, HandsFree, Held
    <2>3. QED
      BY <1>0, <2>1, <2>2, CustodyMoved
  <1>4. QED
    BY <1>1, <1>2, <1>3, StepCases DEF PollAgain, Ended

LEMMA CustodyInit == Init => CustodyInv
  <1> SUFFICES ASSUME Init PROVE CustodyInv
    OBVIOUS
  <1>1. /\ chan = <<>> /\ deferred = <<>> /\ batch = <<>> /\ acking = {}
        /\ worker = "recv" /\ TypeOK
        /\ \A x \in Callers : caller[x] = "new" /\ oneshot[x] = "unset"
    BY TypeInit DEF Init
  <1>2. Held = {} /\ Apart
    BY <1>1, EmptyElements DEF Held, Apart
  <1>3. SlotsMatch /\ HandsFree
    BY <1>1, <1>2 DEF SlotsMatch, HandsFree, Waiting
  <1>4. QED
    BY <1>1, <1>2, <1>3, CustodyParts

LEMMA CustodyCorrect == Init /\ [][Next]_vars => []CustodyInv
  BY CustodyInit, CustodyNext, BatchCorrect, PTL

\* A command is in the channel, deferred, in the batch or being acknowledged, in one
\* of them only and once, from the send that succeeds to its answer: no job runs
\* twice, none is answered twice, and no caller waits for a sender that nobody holds.
THEOREM CommandsHaveOnePlace == Spec => []SingleCustody
  <1>1. CustodyInv => SingleCustody
    BY DEF CustodyInv
  <1>2. QED
    BY <1>1, CustodyCorrect, PTL DEF Spec, HangingSpec

-----------------------------------------------------------------------------
(* The queue gauge. *)

\* The jobs the gauge stands for: those of calls in send_command, and those queued.
Gauged == Sending \cup (Requests \cap (Elements(chan) \cup Elements(deferred)))

GaugeInv == IsFiniteSet(Gauged) /\ Cardinality(Gauged) <= stats["depth"]

\* The three ways in which a step may move the gauge.
LEMMA GaugeStays ==
    ASSUME TypeOK, GaugeInv, Gauged' \subseteq Gauged, stats'["depth"] = stats["depth"]
    PROVE  GaugeInv'
  <1>1. stats["depth"] \in Int
    BY CounterNames DEF TypeOK
  <1>2. /\ IsFiniteSet(Gauged') /\ Cardinality(Gauged') <= Cardinality(Gauged)
        /\ Cardinality(Gauged') \in Nat /\ Cardinality(Gauged) \in Nat
    BY FS_Subset, FS_CardinalityType DEF GaugeInv
  <1>3. QED
    BY <1>1, <1>2 DEF GaugeInv

LEMMA GaugeFalls ==
    ASSUME TypeOK, GaugeInv, NEW x \in Gauged, Gauged' \subseteq Gauged \ {x},
           stats'["depth"] = stats["depth"] - 1
    PROVE  GaugeInv'
  <1>1. stats["depth"] \in Int
    BY CounterNames DEF TypeOK
  <1>2. /\ IsFiniteSet(Gauged \ {x})
        /\ Cardinality(Gauged \ {x}) = Cardinality(Gauged) - 1
        /\ Cardinality(Gauged) \in Nat
    BY FS_RemoveElement, FS_CardinalityType DEF GaugeInv
  <1>3. /\ IsFiniteSet(Gauged') /\ Cardinality(Gauged') <= Cardinality(Gauged \ {x})
        /\ Cardinality(Gauged') \in Nat
    BY <1>2, FS_Subset, FS_CardinalityType
  <1>4. QED
    BY <1>1, <1>2, <1>3 DEF GaugeInv

LEMMA GaugeRises ==
    ASSUME TypeOK, GaugeInv, NEW x, Gauged' \subseteq Gauged \cup {x},
           stats'["depth"] = stats["depth"] + 1
    PROVE  GaugeInv'
  <1>1. stats["depth"] \in Int
    BY CounterNames DEF TypeOK
  <1>2. /\ IsFiniteSet(Gauged \cup {x})
        /\ Cardinality(Gauged \cup {x}) <= Cardinality(Gauged) + 1
        /\ Cardinality(Gauged) \in Nat /\ Cardinality(Gauged \cup {x}) \in Nat
    <2>1. IsFiniteSet(Gauged \cup {x}) /\ IsFiniteSet(Gauged)
      BY FS_AddElement DEF GaugeInv
    <2>2. Cardinality(Gauged) \in Nat /\ Cardinality(Gauged \cup {x}) \in Nat
      BY <2>1, FS_CardinalityType
    <2>3. Cardinality(Gauged \cup {x}) =
             IF x \in Gauged THEN Cardinality(Gauged) ELSE Cardinality(Gauged) + 1
      BY <2>1, FS_AddElement
    <2>4. QED
      BY <2>1, <2>2, <2>3
  <1>3. /\ IsFiniteSet(Gauged') /\ Cardinality(Gauged') <= Cardinality(Gauged \cup {x})
        /\ Cardinality(Gauged') \in Nat
    BY <1>2, FS_Subset, FS_CardinalityType
  <1>4. QED
    BY <1>1, <1>2, <1>3 DEF GaugeInv

InSend == {"probing", "full", "parked"}

\* What a call's own state does to the jobs gauged.
LEMMA GaugedCalls ==
    ASSUME TypeOK, NEW x \in Callers, NEW q, caller' = [caller EXCEPT ![x] = q],
           UNCHANGED <<chan, deferred>>
    PROVE  /\ Gauged' \subseteq Gauged \cup {x}
           /\ caller[x] \in InSend \/ q \notin InSend => Gauged' \subseteq Gauged
           /\ q \notin InSend /\ x \notin Elements(chan) \cup Elements(deferred)
                  => Gauged' \subseteq Gauged \ {x}
  <1>1. Sending' \subseteq Sending \cup {x}
    BY DEF TypeOK, Sending
  <1>2. caller[x] \in InSend \/ q \notin InSend => Sending' \subseteq Sending
    BY DEF TypeOK, Sending, InSend
  <1>3. q \notin InSend => x \notin Sending'
    BY DEF TypeOK, Sending, InSend
  <1>4. QED
    BY <1>1, <1>2, <1>3 DEF Gauged

LEMMA GaugeCalls ==
    ASSUME CustodyInv, GaugeInv, NEW x \in Callers, CallStep(x)
    PROVE  GaugeInv'
  <1>0. /\ TypeOK /\ UNCHANGED deferred /\ stats \in [Counters -> Int]
        /\ caller \in [Callers -> CallerStates] /\ chan \in Seq(Callers)
    BY CallFrame DEF CustodyInv, TypeOK
  <1>a. caller[x] \in InSend => x \notin Elements(chan) \cup Elements(deferred)
    BY DEF CustodyInv, NotYetSent, Held, InSend
  <1>b. caller[x] \in InSend /\ x \in Requests => x \in Gauged
    BY DEF InSend, Gauged, Sending
  \* The call leaves send_command and takes its count back.
  <1>c. ASSUME caller[x] \in InSend, x \in Requests, UNCHANGED chan,
               NEW result, Finish(x, result), stats'["depth"] = stats["depth"] - 1
        PROVE  GaugeInv'
    <2>1. caller' = [caller EXCEPT ![x] = "done"] /\ "done" \notin InSend
      BY <1>c DEF Finish, InSend
    <2>2. Gauged' \subseteq Gauged \ {x}
      BY <1>0, <1>a, <1>c, <2>1, GaugedCalls
    <2>3. QED
      BY <1>0, <1>b, <1>c, <2>2, GaugeFalls
  \* It moves on, and the gauge does not.
  <1>d. ASSUME UNCHANGED chan, NEW q, caller' = [caller EXCEPT ![x] = q],
               caller[x] \in InSend \/ q \notin InSend \/ x \in Stoppers,
               stats'["depth"] = stats["depth"]
        PROVE  GaugeInv'
    <2>1. CASE caller[x] \in InSend \/ q \notin InSend
      BY <1>0, <1>d, <2>1, GaugedCalls, GaugeStays
    <2>2. CASE x \in Stoppers
      <3>1. Sending' = Sending
        BY <1>0, <1>d, <2>2, SchedulerAssumption DEF Sending
      <3>2. Gauged' = Gauged
        BY <1>0, <1>d, <3>1 DEF Gauged
      <3>3. QED
        BY <1>0, <1>d, <3>2, GaugeStays
    <2>3. QED
      BY <1>d, <2>1, <2>2
  <1>1. CASE \/ x \in Requests /\ (CheckClosed(x) \/ Cancel(x))
             \/ x \in Stoppers /\ CloseAdmission(x)
             \/ Retry(x) \/ ReceiveReply(x) \/ Expire(x)
    <2>1. UNCHANGED <<chan, stats>>
      BY <1>1 DEF CheckClosed, Cancel, CloseAdmission, Retry, ReceiveReply, Expire
    <2>2. \E q : /\ caller' = [caller EXCEPT ![x] = q]
                 /\ caller[x] \in InSend \/ q \notin InSend \/ x \in Stoppers
      BY <1>1 DEF CheckClosed, Cancel, CloseAdmission, Retry, ReceiveReply, Expire,
                  Goto, Finish, InSend
    <2>3. QED
      BY <2>1, <2>2, <1>d
  <1>2. CASE x \in Requests /\ CheckStopped(x)
    <2>1. CASE stopped
      <3>1. caller' = [caller EXCEPT ![x] = "done"] /\ UNCHANGED <<chan, stats>>
        BY <1>2, <2>1 DEF CheckStopped, Finish
      <3>2. QED
        BY <3>1, <1>d DEF InSend
    <2>2. CASE ~stopped
      <3>1. caller' = [caller EXCEPT ![x] = "probing"] /\ UNCHANGED chan
        BY <1>2, <2>2 DEF CheckStopped, Goto
      <3>2. stats'["depth"] = stats["depth"] + 1
        BY <1>0, <1>2, <2>2, CounterNames DEF CheckStopped, Add
      <3>3. QED
        BY <1>0, <3>1, <3>2, GaugedCalls, GaugeRises
    <2>3. QED
      BY <2>1, <2>2
  <1>3. CASE x \in Requests /\ CountAccepted(x)
    <2>1. caller' = [caller EXCEPT ![x] = "awaiting"] /\ UNCHANGED chan
      BY <1>3 DEF CountAccepted, Goto
    <2>2. stats'["depth"] = stats["depth"]
      BY <1>0, <1>3, CounterNames DEF CountAccepted, Add
    <2>3. QED
      BY <2>1, <2>2, <1>d DEF InSend
  <1>4. CASE Probe(x)
    <2>1. CASE RxOpen /\ Len(chan) < Capacity
      <3>1. /\ chan' = Append(chan, x) /\ UNCHANGED stats
            /\ caller[x] = "probing"
            /\ \E q \in {"sent", "awaiting"} : caller' = [caller EXCEPT ![x] = q]
        BY <1>4, <2>1 DEF Probe, Goto
      <3>2. Elements(chan') = Elements(chan) \cup {x}
        BY <1>0, <1>a, <3>1, AppendElements DEF InSend, CustodyInv, SingleCustody
      <3>3. Sending' \subseteq Sending
        BY <1>0, <3>1 DEF Sending
      <3>4. x \in Requests => x \in Sending
        BY <3>1 DEF Sending
      <3>5. Gauged' \subseteq Gauged
        BY <1>0, <3>2, <3>3, <3>4 DEF Gauged
      <3>6. QED
        BY <1>0, <3>1, <3>5, GaugeStays
    <2>2. CASE RxOpen /\ Len(chan) = Capacity
      <3>1. caller' = [caller EXCEPT ![x] = "full"] /\ UNCHANGED <<chan, stats>>
            /\ caller[x] = "probing"
        <4>1. Len(chan) \in Nat /\ ~(Len(chan) < Capacity)
          BY <1>0, <2>2
        <4>2. QED
          BY <1>4, <2>2, <4>1 DEF Probe, Goto
      <3>2. QED
        BY <3>1, <1>d DEF InSend
    <2>3. CASE ~RxOpen
      <3>1. Disconnected(x) /\ UNCHANGED chan /\ caller[x] \in InSend
        BY <1>4, <2>3 DEF Probe, InSend
      <3>2. CASE x \in Requests
        <4>1. Finish(x, "workerStopped") /\ stats' = Add("depth", -1)
          BY <3>1, <3>2, SchedulerAssumption DEF Disconnected
        <4>2. stats'["depth"] = stats["depth"] - 1
          BY <1>0, <4>1, CounterNames DEF Add
        <4>3. QED
          BY <3>1, <3>2, <4>1, <4>2, <1>c
      <3>3. CASE x \in Stoppers
        BY <3>1, <3>3, <1>d, SchedulerAssumption DEF Disconnected, Finish
      <3>4. QED
        BY <3>2, <3>3 DEF Callers
    <2>4. QED
      BY <1>4, <2>1, <2>2, <2>3 DEF Probe
  <1>5. CASE CheckWorker(x)
    <2>0. UNCHANGED chan /\ caller[x] \in InSend
      BY <1>5 DEF CheckWorker, InSend
    <2>1. CASE ~stopped
      <3>1. caller' = [caller EXCEPT ![x] = "parked"] /\ UNCHANGED stats
        BY <1>5, <2>1 DEF CheckWorker, Goto
      <3>2. QED
        BY <2>0, <3>1, <1>d
    <2>2. CASE stopped /\ x \in Requests
      <3>1. Finish(x, "workerStopped") /\ stats' = Add("depth", -1)
        BY <1>5, <2>2, SchedulerAssumption DEF CheckWorker, Disconnected
      <3>2. stats'["depth"] = stats["depth"] - 1
        BY <1>0, <3>1, CounterNames DEF Add
      <3>3. QED
        BY <2>0, <2>2, <3>1, <3>2, <1>c
    <2>3. CASE stopped /\ x \in Stoppers
      <3>1. caller' = [caller EXCEPT ![x] = "done"] /\ UNCHANGED stats
        BY <1>5, <2>3, SchedulerAssumption DEF CheckWorker, Disconnected, Finish
      <3>2. QED
        BY <2>0, <3>1, <1>d
    <2>4. QED
      BY <2>1, <2>2, <2>3 DEF Callers
  <1>6. CASE EnqueueDeadline(x)
    <2>0. UNCHANGED chan /\ caller[x] \in InSend
      BY <1>6 DEF EnqueueDeadline, InSend
    <2>1. CASE x \in Requests
      <3>1. /\ Finish(x, "queueFull")
            /\ stats' = [stats EXCEPT !["depth"] = @ - 1, !["rejected"] = @ + 1]
        BY <1>6, <2>1, SchedulerAssumption DEF EnqueueDeadline
      <3>2. stats'["depth"] = stats["depth"] - 1
        BY <1>0, <3>1, CounterNames
      <3>3. QED
        BY <2>0, <2>1, <3>1, <3>2, <1>c
    <2>2. CASE x \in Stoppers
      <3>1. caller' = [caller EXCEPT ![x] = "done"] /\ UNCHANGED stats
        BY <1>6, <2>2, SchedulerAssumption DEF EnqueueDeadline, Finish
      <3>2. QED
        BY <2>0, <3>1, <1>d
    <2>3. QED
      BY <2>1, <2>2 DEF Callers
  <1>7. CASE ReportTimeout(x)
    <2>1. caller' = [caller EXCEPT ![x] = "done"] /\ UNCHANGED chan
      BY <1>7 DEF ReportTimeout, Finish
    <2>2. stats'["depth"] = stats["depth"]
      BY <1>0, <1>7, CounterNames DEF ReportTimeout, Add
    <2>3. QED
      BY <2>1, <2>2, <1>d DEF InSend
  <1>8. QED
    BY <1>1, <1>2, <1>3, <1>4, <1>5, <1>6, <1>7 DEF CallStep, CallerStep


\* The head of the queue leaves it and its count is taken back, or it is a shutdown.
LEMMA GaugeTake ==
    ASSUME CustodyInv, GaugeInv, worker = "recv", NEW x \in Callers, Take(x),
           UNCHANGED caller, x \in Elements(chan) \cup Elements(deferred),
           Elements(chan') \cup Elements(deferred')
               \subseteq (Elements(chan) \cup Elements(deferred)) \ {x}
    PROVE  GaugeInv'
  <1>0. TypeOK /\ stats \in [Counters -> Int]
    BY DEF CustodyInv, TypeOK
  <1>1. Sending' = Sending
    BY DEF Sending
  <1>2. x \notin Sending
    BY DEF Sending, CustodyInv, NotYetSent, Held
  <1>3. CASE x \in Requests
    <2>1. stats' = Add("depth", -1)
      BY <1>3, SchedulerAssumption DEF Take, TakeJob
    <2>2. stats'["depth"] = stats["depth"] - 1
      BY <1>0, <2>1, CounterNames DEF Add
    <2>3. x \in Gauged /\ Gauged' \subseteq Gauged \ {x}
      BY <1>1, <1>2, <1>3 DEF Gauged
    <2>4. QED
      BY <1>0, <2>2, <2>3, GaugeFalls
  <1>4. CASE x \in Stoppers
    <2>1. UNCHANGED stats
      BY <1>4, SchedulerAssumption DEF Take, TakeShutdown
    <2>2. Gauged' \subseteq Gauged
      BY <1>1 DEF Gauged
    <2>3. QED
      BY <1>0, <2>1, <2>2, GaugeStays
  <1>5. QED
    BY <1>3, <1>4 DEF Callers

LEMMA GaugeWorker ==
    ASSUME CustodyInv, BatchInv, GaugeInv, WorkerStep
    PROVE  GaugeInv'
  <1> DEFINE C == Elements(chan)
             D == Elements(deferred)
  <1>0. /\ TypeOK /\ UNCHANGED caller /\ Sending' = Sending
        /\ Once(chan) /\ Once(deferred) /\ C \cap D = {}
        /\ chan \in Seq(Callers) /\ deferred \in Seq(Callers)
        /\ C \subseteq Callers /\ D \subseteq Callers
        /\ stats \in [Counters -> Int]
    BY WorkerFrame, HeldTypes DEF CustodyInv, SingleCustody, TypeOK, Sending
  <1>a. Sending \cap (C \cup D) = {}
    <2>1. \A r \in Sending : r \in Callers /\ caller[r] \in {"probing", "full", "parked"}
      BY DEF Sending, Callers
    <2>2. QED
      BY <2>1 DEF CustodyInv, NotYetSent, Held
  <1>1. CASE TakeDeferred
    <2>1. /\ worker = "recv" /\ deferred # <<>> /\ deferred' = Tail(deferred)
          /\ Take(Head(deferred)) /\ UNCHANGED chan
      BY <1>1 DEF TakeDeferred
    <2>2. Head(deferred) \in D /\ Elements(deferred') = D \ {Head(deferred)}
      BY <1>0, <2>1, TailElements
    <2>3. QED
      BY <1>0, <2>1, <2>2, GaugeTake
  <1>2. CASE Receive
    <2>1. /\ worker = "recv" /\ chan # <<>> /\ chan' = Tail(chan)
          /\ Take(Head(chan)) /\ UNCHANGED deferred
      BY <1>2 DEF Receive
    <2>2. Head(chan) \in C /\ Elements(chan') = C \ {Head(chan)}
      BY <1>0, <2>1, TailElements
    <2>3. QED
      BY <1>0, <2>1, <2>2, GaugeTake
  <1>3. CASE Gather
    <2> DEFINE x == Head(chan)
    <2>1. /\ worker = "gather" /\ chan # <<>> /\ chan' = Tail(chan)
          /\ GatherClosed(x) \/ GatherSame(x) \/ GatherOther(x) \/ GatherShutdown(x)
      BY <1>3 DEF Gather
    <2>2. x \in C /\ Elements(chan') = C \ {x}
      BY <1>0, <2>1, TailElements
    <2>3. CASE GatherClosed(x) \/ GatherSame(x)
      <3>1. x \in Requests /\ UNCHANGED deferred /\ stats' = Add("depth", -1)
        BY <2>3 DEF GatherClosed, GatherSame
      <3>2. stats'["depth"] = stats["depth"] - 1
        BY <1>0, <3>1, CounterNames DEF Add
      <3>3. x \in Gauged /\ Gauged' \subseteq Gauged \ {x}
        BY <1>0, <1>a, <2>2, <3>1 DEF Gauged
      <3>4. QED
        BY <1>0, <3>2, <3>3, GaugeFalls
    <2>4. CASE GatherOther(x) \/ GatherShutdown(x)
      <3>1. deferred = <<>>
        BY <2>1 DEF BatchInv, Gathering
      <3>2. deferred' = <<x>> /\ UNCHANGED stats
        BY <1>0, <2>4, <3>1 DEF GatherOther, GatherShutdown
      <3>3. Elements(deferred') = {x}
        BY <3>2, SingleElement
      <3>4. Gauged' \subseteq Gauged
        BY <1>0, <2>2, <3>3 DEF Gauged
      <3>5. QED
        BY <1>0, <3>2, <3>4, GaugeStays
    <2>5. QED
      BY <2>1, <2>3, <2>4
  <1>4. CASE Launch
    <2>1. UNCHANGED <<chan, deferred>> /\ stats'["depth"] = stats["depth"]
      BY <1>0, <1>4, CounterNames DEF Launch
    <2>2. Gauged' = Gauged
      BY <1>0, <2>1 DEF Gauged
    <2>3. QED
      BY <1>0, <2>1, <2>2, GaugeStays
  <1>5. CASE CountCompleted \/ SendOutput \/ CountFailed \/ FinishBatch
    <2>1. UNCHANGED <<chan, deferred>>
      BY <1>5 DEF CountCompleted, SendOutput, CountFailed, FinishBatch
    <2>2. \/ UNCHANGED stats
          \/ \E n \in {"completed", "failed", "inFlight"} : \E k : stats' = Add(n, k)
      BY <1>5 DEF CountCompleted, SendOutput, CountFailed, FinishBatch
    <2>3. stats'["depth"] = stats["depth"]
      BY <1>0, <2>2, CounterNames DEF Add
    <2>4. Gauged' = Gauged
      BY <1>0, <2>1 DEF Gauged
    <2>5. QED
      BY <1>0, <2>3, <2>4, GaugeStays
  <1>6. CASE IdleCheck \/ RunBackend \/ Panic \/ FailJob \/ FinishDrain \/ DropGuard
    <2>1. UNCHANGED <<chan, deferred, stats>>
      BY <1>6 DEF IdleCheck, RunBackend, Panic, FailJob, FinishDrain, DropGuard
    <2>2. Gauged' = Gauged
      BY <1>0, <2>1 DEF Gauged
    <2>3. QED
      BY <1>0, <2>1, <2>2, GaugeStays
  <1>7. CASE Collect
    <2>0. UNCHANGED stats
      BY <1>7 DEF Collect
    <2>1. CASE chan # <<>>
      <3>1. deferred' = Append(deferred, Head(chan)) /\ chan' = Tail(chan)
        BY <1>7, <2>1 DEF Collect
      <3>2. Head(chan) \in C /\ Elements(chan') = C \ {Head(chan)}
        BY <1>0, <2>1, <3>1, TailElements
      <3>3. Head(chan) \notin D /\ Head(chan) \in Callers
        BY <1>0, <3>2
      <3>4. Elements(deferred') = D \cup {Head(chan)}
        BY <1>0, <3>1, <3>3, AppendElements
      <3>5. Gauged' \subseteq Gauged
        BY <1>0, <3>2, <3>4 DEF Gauged
      <3>6. QED
        BY <1>0, <2>0, <3>5, GaugeStays
    <2>2. CASE chan = <<>>
      <3>1. UNCHANGED <<chan, deferred>>
        BY <1>7, <2>2 DEF Collect
      <3>2. Gauged' = Gauged
        BY <1>0, <3>1 DEF Gauged
      <3>3. QED
        BY <1>0, <2>0, <3>2, GaugeStays
    <2>3. QED
      BY <2>1, <2>2
  <1>8. CASE DrainNext
    <2> DEFINE x == Head(deferred)
    <2>1. deferred # <<>> /\ deferred' = Tail(deferred) /\ UNCHANGED chan
      BY <1>8 DEF DrainNext
    <2>2. x \in D /\ Elements(deferred') = D \ {x}
      BY <1>0, <2>1, TailElements
    <2>3. CASE x \in Requests
      <3>1. stats' = Add("depth", -1)
        BY <1>8, <2>3, SchedulerAssumption DEF DrainNext
      <3>2. stats'["depth"] = stats["depth"] - 1
        BY <1>0, <3>1, CounterNames DEF Add
      <3>3. x \in Gauged /\ Gauged' \subseteq Gauged \ {x}
        BY <1>0, <1>a, <2>1, <2>2, <2>3 DEF Gauged
      <3>4. QED
        BY <1>0, <3>2, <3>3, GaugeFalls
    <2>4. CASE x \notin Requests
      <3>1. UNCHANGED stats
        BY <1>8, <2>4 DEF DrainNext
      <3>2. Gauged' \subseteq Gauged
        BY <1>0, <2>1, <2>2 DEF Gauged
      <3>3. QED
        BY <1>0, <3>1, <3>2, GaugeStays
    <2>5. QED
      BY <2>3, <2>4
  <1>9. CASE DropReceiver
    <2>1. chan' = <<>> /\ deferred' = <<>> /\ UNCHANGED stats
      BY <1>9 DEF DropReceiver
    <2>2. Gauged' \subseteq Gauged
      BY <1>0, <2>1, EmptyElements DEF Gauged
    <2>3. QED
      BY <1>0, <2>1, <2>2, GaugeStays
  <1>10. QED
    BY <1>1, <1>2, <1>3, <1>4, <1>5, <1>6, <1>7, <1>8, <1>9 DEF WorkerStep

LEMMA GaugeNext == CustodyInv /\ BatchInv /\ GaugeInv /\ [Next]_vars => GaugeInv'
  <1> SUFFICES ASSUME CustodyInv, BatchInv, GaugeInv, [Next]_vars PROVE GaugeInv'
    OBVIOUS
  <1>1. CASE \E x \in Callers : CallStep(x)
    BY <1>1, GaugeCalls
  <1>2. CASE WorkerStep
    BY <1>2, GaugeWorker
  <1>3. CASE BackendFails \/ DropHandles \/ UNCHANGED vars
    <2>1. UNCHANGED <<chan, deferred, caller, stats>>
      BY <1>3 DEF BackendFails, DropHandles, vars, workerVars, callerVars
    <2>2. Gauged' = Gauged
      BY <2>1 DEF Gauged, Sending
    <2>3. QED
      BY <2>1, <2>2, GaugeStays DEF CustodyInv
  <1>4. QED
    BY <1>1, <1>2, <1>3, StepCases, TypeNext DEF PollAgain, Ended, CustodyInv

LEMMA GaugeInit == Init => GaugeInv
  <1> SUFFICES ASSUME Init PROVE GaugeInv
    OBVIOUS
  <1>1. chan = <<>> /\ deferred = <<>> /\ \A x \in Callers : caller[x] = "new"
    BY DEF Init
  <1>2. Gauged = {}
    BY <1>1, EmptyElements DEF Gauged, Sending, Callers
  <1>3. stats["depth"] = 0
    BY CounterNames DEF Init
  <1>4. QED
    BY <1>2, <1>3, FS_EmptySet DEF GaugeInv


\* The queue is without repetition, and holds what its two parts hold.
LEMMA QueueElements ==
    ASSUME TypeOK, Once(deferred), Once(chan), Elements(chan) \cap Elements(deferred) = {}
    PROVE  /\ Queue \in Seq(Callers) /\ Once(Queue)
           /\ Elements(Queue) = Elements(deferred) \cup Elements(chan)
  <1> DEFINE m == Len(deferred)
  <1>1. /\ deferred \in Seq(Callers) /\ chan \in Seq(Callers)
        /\ m \in Nat /\ Len(chan) \in Nat
        /\ DOMAIN deferred = 1 .. m /\ DOMAIN chan = 1 .. Len(chan)
    BY DEF TypeOK
  <1>2. /\ Queue \in Seq(Callers)
        /\ DOMAIN Queue = 1 .. m + Len(chan)
        /\ \A i \in 1 .. m : Queue[i] = deferred[i]
        /\ \A i \in m + 1 .. m + Len(chan) : Queue[i] = chan[i - m]
    BY <1>1 DEF Queue
  <1> HIDE DEF m
  <1>3. \A i \in DOMAIN Queue : \/ i \in DOMAIN deferred /\ Queue[i] = deferred[i]
                                \/ i - m \in DOMAIN chan /\ Queue[i] = chan[i - m]
    BY <1>1, <1>2
  <1>4. Elements(Queue) \subseteq Elements(deferred) \cup Elements(chan)
    BY <1>3 DEF Elements
  <1>5. Elements(deferred) \subseteq Elements(Queue)
    <2>1. \A i \in DOMAIN deferred : i \in DOMAIN Queue /\ Queue[i] = deferred[i]
      BY <1>1, <1>2
    <2>2. QED
      BY <2>1 DEF Elements
  <1>6. Elements(chan) \subseteq Elements(Queue)
    <2>1. \A i \in DOMAIN chan : i + m \in DOMAIN Queue /\ Queue[i + m] = chan[i]
      <3> SUFFICES ASSUME NEW i \in 1 .. Len(chan)
                   PROVE  i + m \in DOMAIN Queue /\ Queue[i + m] = chan[i]
        BY <1>1
      <3>1. i + m \in m + 1 .. m + Len(chan) /\ (i + m) - m = i
        BY <1>1
      <3>2. QED
        BY <1>1, <1>2, <3>1
    <2>2. QED
      BY <2>1 DEF Elements
  <1>7. Once(Queue)
    <2> SUFFICES ASSUME NEW i \in DOMAIN Queue, NEW j \in DOMAIN Queue,
                        Queue[i] = Queue[j]
                 PROVE  i = j
      BY DEF Once
    <2>0. i \in Int /\ j \in Int
      BY <1>1, <1>2
    <2>1. CASE i \in 1 .. m /\ j \in 1 .. m
      BY <1>1, <1>2, <2>1 DEF Once
    <2>2. CASE i \notin 1 .. m /\ j \notin 1 .. m
      <3>1. i - m \in DOMAIN chan /\ j - m \in DOMAIN chan /\ chan[i - m] = chan[j - m]
        BY <1>1, <1>2, <2>2
      <3>2. i - m = j - m
        BY <3>1 DEF Once
      <3>3. QED
        BY <1>1, <2>0, <3>2
    <2>3. CASE i \in 1 .. m /\ j \notin 1 .. m
      <3>1. Queue[i] = deferred[i] /\ j - m \in DOMAIN chan /\ Queue[j] = chan[j - m]
        BY <1>1, <1>2, <2>3
      <3>2. Queue[i] \in Elements(deferred) /\ Queue[j] \in Elements(chan)
        BY <1>1, <2>3, <3>1 DEF Elements
      <3>3. QED
        BY <3>2
    <2>4. CASE i \notin 1 .. m /\ j \in 1 .. m
      <3>1. Queue[j] = deferred[j] /\ i - m \in DOMAIN chan /\ Queue[i] = chan[i - m]
        BY <1>1, <1>2, <2>4
      <3>2. Queue[j] \in Elements(deferred) /\ Queue[i] \in Elements(chan)
        BY <1>1, <2>4, <3>1 DEF Elements
      <3>3. QED
        BY <3>2
    <2>5. QED
      BY <2>1, <2>2, <2>3, <2>4
  <1>8. QED
    BY <1>2, <1>4, <1>5, <1>6, <1>7

\* In a sequence without repetition there are as many jobs as places that hold one.
LEMMA JobsCount ==
    ASSUME NEW seq \in Seq(Callers), Once(seq)
    PROVE  /\ IsFiniteSet(Jobs(seq))
           /\ Cardinality(Jobs(seq)) = Cardinality(Requests \cap Elements(seq))
  <1> DEFINE T == Requests \cap Elements(seq)
             f == [i \in Jobs(seq) |-> seq[i]]
  <1>1. DOMAIN seq = 1 .. Len(seq) /\ Len(seq) \in Nat
    OBVIOUS
  <1>2. IsFiniteSet(DOMAIN seq)
    BY <1>1, FS_Interval
  <1>3. IsFiniteSet(Jobs(seq))
    BY <1>2, FS_Subset DEF Jobs
  <1>4. f \in [Jobs(seq) -> T]
    BY DEF Jobs, Elements
  <1>5. \A i, j \in Jobs(seq) : f[i] = f[j] => i = j
    BY DEF Jobs, Once
  <1>6. \A t \in T : \E i \in Jobs(seq) : f[i] = t
    BY DEF Jobs, Elements
  <1>7. f \in Bijection(Jobs(seq), T)
    BY <1>4, <1>5, <1>6 DEF Bijection, Injection, IsInjective, Surjection
  <1>8. QED
    BY <1>3, <1>7, FS_Bijection DEF ExistsBijection

\* The gauge that send_command publishes before it sends covers every job in the
\* queue and every sender still waiting, at every instant: no fetch_sub wraps it.
THEOREM GaugeNeverWraps == Spec => []GaugeCoversQueue
  <1>1. CustodyInv /\ GaugeInv => GaugeCoversQueue
    <2> SUFFICES ASSUME CustodyInv, GaugeInv PROVE GaugeCoversQueue
      OBVIOUS
    <2> DEFINE T == Requests \cap Elements(Queue)
    <2>1. /\ TypeOK /\ Once(deferred) /\ Once(chan)
          /\ Elements(chan) \cap Elements(deferred) = {}
      BY DEF CustodyInv, SingleCustody
    <2>2. /\ Queue \in Seq(Callers) /\ Once(Queue)
          /\ Elements(Queue) = Elements(deferred) \cup Elements(chan)
      BY <2>1, QueueElements
    <2>3. Cardinality(Jobs(Queue)) = Cardinality(T)
      BY <2>2, JobsCount
    <2>4. Sending \cap T = {}
      <3>1. \A r \in Sending : r \in Callers /\ caller[r] \in {"probing", "full", "parked"}
        BY DEF Sending, Callers
      <3>2. QED
        BY <2>2, <3>1 DEF CustodyInv, NotYetSent, Held
    <2>5. Gauged = Sending \cup T
      BY <2>2 DEF Gauged
    <2>6. IsFiniteSet(Sending) /\ IsFiniteSet(T)
      BY <2>5, FS_Subset DEF GaugeInv
    <2>7. Cardinality(Gauged) = Cardinality(Sending) + Cardinality(T)
      <3>1. /\ Cardinality(Sending \cup T) = Cardinality(Sending) + Cardinality(T)
                                             - Cardinality(Sending \cap T)
            /\ Cardinality(Sending \cap T) = 0
        BY <2>4, <2>6, FS_Union, FS_EmptySet
      <3>2. Cardinality(Sending) \in Nat /\ Cardinality(T) \in Nat
        BY <2>6, FS_CardinalityType
      <3>3. QED
        BY <2>5, <3>1, <3>2
    <2>8. QED
      BY <2>3, <2>7 DEF GaugeInv, GaugeCoversQueue
  <1>2. QED
    BY <1>1, CustodyCorrect, BatchCorrect, GaugeInit, GaugeNext, PTL DEF Spec, HangingSpec


-----------------------------------------------------------------------------
(* The completions. *)

\* The worker answers only the calls whose senders it holds.
LEMMA OnlyHeldAreAnswered ==
    ASSUME TypeOK, WorkerStep
    PROVE  \A x \in Callers : x \notin Held => oneshot'[x] = oneshot[x]
  <1> SUFFICES ASSUME NEW x \in Callers, x \notin Held
               PROVE  oneshot'[x] = oneshot[x]
    OBVIOUS
  <1>0. /\ oneshot \in [Callers -> Slots]
        /\ batch \in Seq(Requests) /\ deferred \in Seq(Callers)
    BY DEF TypeOK
  <1>1. /\ x \notin Elements(batch) /\ x \notin Elements(deferred)
        /\ x \notin Elements(chan) /\ x \notin acking
    BY <1>0 DEF Held
  <1>2. batch # <<>> => Head(batch) \in Elements(batch)
    BY <1>0 DEF Elements
  <1>3. deferred # <<>> => Head(deferred) \in Elements(deferred)
    BY <1>0 DEF Elements
  <1>4. CASE SendOutput \/ FailJob
    <2>1. \/ UNCHANGED oneshot
          \/ batch # <<>> /\ \E v : oneshot' = [oneshot EXCEPT ![Head(batch)] = v]
      BY <1>4 DEF SendOutput, FailJob, SendError
    <2>2. QED
      BY <1>0, <1>1, <1>2, <2>1
  <1>5. CASE DrainNext
    <2>1. \/ UNCHANGED oneshot
          \/ deferred # <<>> /\ \E v : oneshot' = [oneshot EXCEPT ![Head(deferred)] = v]
      BY <1>5 DEF DrainNext, SendError
    <2>2. QED
      BY <1>0, <1>1, <1>3, <2>1
  <1>6. CASE FinishDrain
    <2>1. oneshot' = [y \in Callers |-> IF y \in acking THEN "acked" ELSE oneshot[y]]
      BY <1>6 DEF FinishDrain
    <2>2. QED
      BY <1>1, <2>1
  <1>7. CASE DropReceiver
    <2>1. oneshot' = [y \in Callers |->
              IF y \in Elements(batch) \cup Elements(deferred) \cup Elements(chan)
              THEN "broken" ELSE oneshot[y]]
      BY <1>7 DEF DropReceiver
    <2>2. QED
      BY <1>1, <2>1
  <1>8. CASE \/ TakeDeferred \/ Receive \/ IdleCheck \/ Gather \/ Launch \/ RunBackend
             \/ Panic \/ CountCompleted \/ CountFailed \/ FinishBatch \/ Collect \/ DropGuard
    BY <1>8 DEF TakeDeferred, Receive, IdleCheck, Gather, Launch, RunBackend, Panic,
                CountCompleted, CountFailed, FinishBatch, Collect, DropGuard
  <1>9. QED
    BY <1>4, <1>5, <1>6, <1>7, <1>8 DEF WorkerStep

\* A reply slot is written once: a sender is used up when it sends.
LEMMA SlotsAreFinal ==
    ASSUME CustodyInv, WorkerStep
    PROVE  \A x \in Callers : oneshot[x] # "unset" => oneshot'[x] = oneshot[x]
  BY OnlyHeldAreAnswered DEF CustodyInv, SingleCustody

Answered == {r \in Requests : oneshot[r] = "ok"}

\* A job is counted before its answer is in its slot, and uncounted when the answer
\* finds nobody.
Counting ==
    /\ mid \in {"none", "sent"} => Cardinality(Answered) <= stats["completed"]
    /\ mid = "counted" => Cardinality(Answered) + 1 <= stats["completed"]

CompletedInv ==
    /\ IsFiniteSet(Answered)
    /\ Counting
    /\ mid = "counted" => worker = "reply"
    /\ \A r \in Requests : outcome[r] = "ok" => oneshot[r] = "ok"

\* A step that answers nobody keeps the count.
LEMMA CompletedStays ==
    ASSUME TypeOK, CompletedInv, Answered' \subseteq Answered,
           stats'["completed"] = stats["completed"], mid' \in {"none", "sent"} \/ mid' = mid
    PROVE  IsFiniteSet(Answered') /\ Counting'
  <1>1. stats["completed"] \in Int /\ mid \in {"none", "counted", "sent"}
    BY CounterNames DEF TypeOK
  <1>2. /\ IsFiniteSet(Answered') /\ Cardinality(Answered') <= Cardinality(Answered)
        /\ Cardinality(Answered') \in Nat /\ Cardinality(Answered) \in Nat
    BY FS_Subset, FS_CardinalityType DEF CompletedInv
  <1>3. Cardinality(Answered) <= stats["completed"]
    BY <1>1, <1>2 DEF CompletedInv, Counting
  <1>4. QED
    BY <1>1, <1>2, <1>3 DEF CompletedInv, Counting

LEMMA CompletedCalls ==
    ASSUME TypeOK, CompletedInv, NEW x \in Callers, CallStep(x)
    PROVE  CompletedInv'
  <1>0. /\ UNCHANGED <<oneshot, worker, mid>>
        /\ outcome \in [Callers -> Outcomes] /\ stats \in [Counters -> Int]
    BY CallFrame DEF TypeOK
  <1>1. \/ UNCHANGED outcome
        \/ \E v \in {oneshot[x], "shuttingDown", "workerStopped", "skipped", "lost",
                     "queueFull", "timeout", "abandoned", "cancelled"} :
               outcome' = [outcome EXCEPT ![x] = v]
    BY DEF CallStep, CallerStep, CheckClosed, Cancel, CloseAdmission, CheckStopped,
           CountAccepted, Probe, CheckWorker, Retry, EnqueueDeadline, ReceiveReply,
           Expire, ReportTimeout, Goto, Finish, Disconnected
  <1>2. \A r \in Requests : outcome'[r] = "ok" => outcome[r] = "ok" \/ oneshot[r] = "ok"
    BY <1>0, <1>1 DEF Callers
  <1>3. \/ UNCHANGED stats
        \/ \E n \in {"depth", "accepted", "timedOut"} : \E k : stats' = Add(n, k)
        \/ stats' = [stats EXCEPT !["depth"] = @ - 1, !["rejected"] = @ + 1]
    BY DEF CallStep, CallerStep, CheckClosed, Cancel, CloseAdmission, CheckStopped,
           CountAccepted, Probe, CheckWorker, Retry, EnqueueDeadline, ReceiveReply,
           Expire, ReportTimeout, Disconnected
  <1>4. stats'["completed"] = stats["completed"]
    BY <1>0, <1>3, CounterNames DEF Add
  <1>5. Answered' = Answered
    BY <1>0 DEF Answered
  <1>6. IsFiniteSet(Answered') /\ Counting'
    BY <1>0, <1>4, <1>5, CompletedStays
  <1>7. QED
    BY <1>0, <1>2, <1>6 DEF CompletedInv

LEMMA CompletedWorker ==
    ASSUME CustodyInv, CompletedInv, WorkerStep
    PROVE  CompletedInv'
  <1>0. /\ TypeOK /\ UNCHANGED outcome
        /\ oneshot \in [Callers -> Slots] /\ stats \in [Counters -> Int]
        /\ mid \in {"none", "counted", "sent"}
        /\ batch \in Seq(Requests) /\ deferred \in Seq(Callers)
        /\ Requests \subseteq Callers
    BY WorkerFrame DEF CustodyInv, TypeOK, Callers
  <1>1. \A r \in Requests : outcome'[r] = "ok" => oneshot'[r] = "ok"
    <2>1. \A r \in Requests : oneshot[r] = "ok" => oneshot'[r] = "ok"
      BY <1>0, SlotsAreFinal
    <2>2. QED
      BY <1>0, <2>1 DEF CompletedInv
  <1>a. /\ IsFiniteSet(Answered) /\ Cardinality(Answered) \in Nat
        /\ stats["completed"] \in Int
    BY <1>0, CounterNames, FS_CardinalityType DEF CompletedInv
  <1>2. CASE CountCompleted /\ mid' = "counted"
    <2>1. /\ stats' = Add("completed", 1) /\ mid = "none" /\ worker' = "reply"
          /\ UNCHANGED oneshot
      BY <1>0, <1>2 DEF CountCompleted
    <2>2. stats'["completed"] = stats["completed"] + 1
      BY <1>0, <2>1, CounterNames DEF Add
    <2>3. Answered' = Answered
      BY <2>1 DEF Answered
    <2>4. Counting'
      BY <1>2, <1>a, <2>1, <2>2, <2>3 DEF CompletedInv, Counting
    <2>5. QED
      BY <1>1, <1>a, <2>1, <2>3, <2>4 DEF CompletedInv
  <1>3. CASE SendOutput
    <2>1. mid = "counted" /\ mid' = "none" /\ batch # <<>>
      BY <1>3 DEF SendOutput
    <2>2. CASE ReplyOpen(Head(batch))
      <3>1. oneshot' = [oneshot EXCEPT ![Head(batch)] = "ok"] /\ UNCHANGED stats
        BY <1>3, <2>2 DEF SendOutput
      <3>2. Answered' \subseteq Answered \cup {Head(batch)}
        BY <1>0, <3>1 DEF Answered
      <3>3. /\ IsFiniteSet(Answered \cup {Head(batch)})
            /\ Cardinality(Answered \cup {Head(batch)}) <= Cardinality(Answered) + 1
        <4>1. /\ IsFiniteSet(Answered \cup {Head(batch)})
              /\ Cardinality(Answered \cup {Head(batch)}) =
                    IF Head(batch) \in Answered THEN Cardinality(Answered)
                                                ELSE Cardinality(Answered) + 1
          BY <1>a, FS_AddElement
        <4>2. QED
          BY <1>a, <4>1
      <3>4. /\ IsFiniteSet(Answered') /\ Cardinality(Answered') \in Nat
            /\ Cardinality(Answered') <= Cardinality(Answered \cup {Head(batch)})
            /\ Cardinality(Answered \cup {Head(batch)}) \in Nat
        BY <3>2, <3>3, FS_Subset, FS_CardinalityType
      <3>5. Counting'
        BY <1>a, <2>1, <3>1, <3>3, <3>4 DEF CompletedInv, Counting
      <3>6. QED
        BY <1>1, <2>1, <3>4, <3>5 DEF CompletedInv
    <2>3. CASE ~ReplyOpen(Head(batch))
      <3>1. stats' = Add("completed", -1) /\ UNCHANGED oneshot
        BY <1>3, <2>3 DEF SendOutput
      <3>2. stats'["completed"] = stats["completed"] - 1
        BY <1>0, <3>1, CounterNames DEF Add
      <3>3. Answered' = Answered
        BY <3>1 DEF Answered
      <3>4. Counting'
        BY <1>a, <2>1, <3>2, <3>3 DEF CompletedInv, Counting
      <3>5. QED
        BY <1>1, <1>a, <2>1, <3>3, <3>4 DEF CompletedInv
    <2>4. QED
      BY <2>2, <2>3
  <1>4. CASE \/ TakeDeferred \/ Receive \/ IdleCheck \/ Gather \/ Launch \/ RunBackend
             \/ Panic \/ (CountCompleted /\ mid' # "counted") \/ FailJob \/ CountFailed
             \/ FinishBatch \/ Collect \/ DrainNext \/ FinishDrain \/ DropReceiver \/ DropGuard
    <2>1. mid' \in {"none", "sent"} \/ (mid' = mid /\ (mid = "counted" => worker' = worker))
      <3>1. CASE TakeDeferred \/ Receive
        BY <1>0, <3>1 DEF TakeDeferred, Receive, CompletedInv
      <3>2. CASE IdleCheck \/ Gather \/ Launch \/ RunBackend \/ Panic
        BY <1>0, <3>2 DEF IdleCheck, Gather, Launch, RunBackend, Panic, CompletedInv
      <3>3. CASE CountCompleted /\ mid' # "counted"
        BY <1>0, <3>3 DEF CountCompleted
      <3>4. CASE FailJob \/ CountFailed \/ DrainNext
        BY <3>4 DEF FailJob, CountFailed, DrainNext, SendError
      <3>5. CASE FinishBatch \/ Collect \/ FinishDrain \/ DropReceiver \/ DropGuard
        BY <1>0, <3>5 DEF FinishBatch, Collect, FinishDrain, DropReceiver, DropGuard,
                          CompletedInv
      <3>6. QED
        BY <1>4, <3>1, <3>2, <3>3, <3>4, <3>5
    <2>2. \/ UNCHANGED stats
          \/ \E n \in {"depth", "failed", "inFlight"} : \E k : stats' = Add(n, k)
          \/ Launch
      BY <1>4 DEF TakeDeferred, Receive, Take, TakeJob, TakeShutdown, IdleCheck, Gather,
                  GatherClosed, GatherSame, GatherOther, GatherShutdown, RunBackend, Panic,
                  CountCompleted, FailJob, CountFailed, FinishBatch, Collect, DrainNext,
                  FinishDrain, DropReceiver, DropGuard
    <2>3. stats'["completed"] = stats["completed"]
      <3>1. CASE Launch
        BY <1>0, <3>1, CounterNames DEF Launch
      <3>2. QED
        BY <1>0, <2>2, <3>1, CounterNames DEF Add
    <2>4. \A r \in Requests : oneshot'[r] = "ok" => oneshot[r] = "ok"
      <3>1. CASE FailJob
        <4>1. \/ UNCHANGED oneshot
              \/ oneshot' = [oneshot EXCEPT ![Head(batch)] = "error"]
          BY <3>1 DEF FailJob, SendError
        <4>2. QED
          BY <1>0, <4>1
      <3>2. CASE DrainNext
        <4>1. \/ UNCHANGED oneshot
              \/ \E v \in {"drained", "broken"} :
                     oneshot' = [oneshot EXCEPT ![Head(deferred)] = v]
          BY <3>2 DEF DrainNext, SendError
        <4>2. QED
          BY <1>0, <4>1
      <3>3. CASE FinishDrain \/ DropReceiver
        <4>1. \E S : \E v \in {"acked", "broken"} :
                  oneshot' = [y \in Callers |-> IF y \in S THEN v ELSE oneshot[y]]
          BY <3>3 DEF FinishDrain, DropReceiver
        <4>2. QED
          BY <1>0, <4>1
      <3>4. CASE \/ TakeDeferred \/ Receive \/ IdleCheck \/ Gather \/ Launch \/ RunBackend
                 \/ Panic \/ CountCompleted \/ CountFailed \/ FinishBatch \/ Collect
                 \/ DropGuard
        BY <3>4 DEF TakeDeferred, Receive, IdleCheck, Gather, Launch, RunBackend, Panic,
                    CountCompleted, CountFailed, FinishBatch, Collect, DropGuard
      <3>5. QED
        BY <1>4, <3>1, <3>2, <3>3, <3>4
    <2>5. Answered' \subseteq Answered
      BY <2>4 DEF Answered
    <2>6. IsFiniteSet(Answered') /\ Counting'
      BY <1>0, <2>1, <2>3, <2>5, CompletedStays
    <2>7. mid' = "counted" => worker' = "reply"
      BY <2>1 DEF CompletedInv
    <2>8. QED
      BY <1>1, <2>6, <2>7 DEF CompletedInv
  <1>5. CASE CountCompleted
    BY <1>2, <1>4, <1>5
  <1>6. QED
    BY <1>3, <1>4, <1>5 DEF WorkerStep

LEMMA CompletedNext ==
    CustodyInv /\ CompletedInv /\ [Next]_vars => CompletedInv'
  <1> SUFFICES ASSUME CustodyInv, CompletedInv, [Next]_vars PROVE CompletedInv'
    OBVIOUS
  <1>0. TypeOK
    BY DEF CustodyInv
  <1>1. CASE \E x \in Callers : CallStep(x)
    BY <1>0, <1>1, CompletedCalls
  <1>2. CASE WorkerStep
    BY <1>2, CompletedWorker
  <1>3. CASE BackendFails \/ DropHandles \/ UNCHANGED vars
    <2>1. /\ UNCHANGED <<oneshot, outcome, stats, mid>>
          /\ worker' = worker \/ worker = "recv"
      BY <1>3 DEF BackendFails, DropHandles, vars, workerVars, callerVars
    <2>2. Answered' = Answered
      BY <2>1 DEF Answered
    <2>3. IsFiniteSet(Answered') /\ Counting'
      BY <1>0, <2>1, <2>2, CompletedStays
    <2>4. QED
      BY <2>1, <2>3 DEF CompletedInv
  <1>4. QED
    BY <1>1, <1>2, <1>3, StepCases DEF PollAgain, Ended

LEMMA CompletedInit == Init => CompletedInv
  <1> SUFFICES ASSUME Init PROVE CompletedInv
    OBVIOUS
  <1>1. /\ mid = "none" /\ stats["completed"] = 0
        /\ \A r \in Requests : oneshot[r] = "unset" /\ outcome[r] = "none"
    BY CounterNames DEF Init, Callers
  <1>2. Answered = {}
    BY <1>1 DEF Answered
  <1>3. QED
    BY <1>1, <1>2, FS_EmptySet DEF CompletedInv, Counting

\* Whoever has been told of a success finds it counted: the counter is raised before
\* the answer is sent, and what a rollback takes back was never answered.
THEOREM CompletionsNeverLag == Spec => []CompletionsCountedFirst
  <1>1. CustodyInv /\ CompletedInv => CompletionsCountedFirst
    <2> SUFFICES ASSUME CustodyInv, CompletedInv PROVE CompletionsCountedFirst
      OBVIOUS
    <2> DEFINE S == {r \in Requests : outcome[r] = "ok"}
    <2>1. S \subseteq Answered
      BY DEF Answered, CompletedInv
    <2>2. /\ Cardinality(S) <= Cardinality(Answered)
          /\ Cardinality(S) \in Nat /\ Cardinality(Answered) \in Nat
      BY <2>1, FS_Subset, FS_CardinalityType DEF CompletedInv
    <2>3. stats["completed"] \in Int /\ mid \in {"none", "counted", "sent"}
      BY CounterNames DEF CustodyInv, TypeOK
    <2>4. Cardinality(Answered) <= stats["completed"]
      BY <2>2, <2>3 DEF CompletedInv, Counting
    <2>5. QED
      BY <2>2, <2>3, <2>4 DEF CompletionsCountedFirst
  <1>2. QED
    BY <1>1, CustodyCorrect, CompletedInit, CompletedNext, PTL DEF Spec, HangingSpec

-----------------------------------------------------------------------------
(* One worker is the service TranslationService promises: each of its steps is *)
(* a step of the service or leaves it as it is.                                *)

(* What the refinement needs beyond custody and batches. *)

LeftWaiting == {"timeout", "cancelled"}

\* The command of a call is held only from the send on: its call waits, or stopped
\* waiting for the worker.
HeldEntered ==
    \A x \in Callers : x \in Held => caller[x] \in Waiting \/ outcome[x] \in LeftWaiting

OutcomeAtEnd == \A x \in Callers : caller[x] # "done" => outcome[x] = "none"

\* The worker looks at its queue with no job in hand; only a panic ends it with
\* some, and then not from a drain.  It acknowledges one shutdown.
InHand ==
    /\ worker \in {"recv", "collect", "drain"} => batch = <<>>
    /\ worker = "unwind" /\ batch # <<>> => Len(deferred) <= 1
    /\ \A s, t \in acking : s = t

ServeInv == HeldEntered /\ OutcomeAtEnd /\ InHand

\* A call whose command is still held leaves by its timeout or its cancellation.
LEMMA ServeCalls ==
    ASSUME CustodyInv, ServeInv, NEW x \in Callers, CallStep(x)
    PROVE  ServeInv'
  <1>0. /\ caller \in [Callers -> CallerStates] /\ outcome \in [Callers -> Outcomes]
        /\ chan \in Seq(Callers)
        /\ UNCHANGED <<oneshot, deferred, batch, worker, acking>>
    BY CallFrame DEF CustodyInv, TypeOK
  <1>1. InHand'
    BY <1>0 DEF InHand, ServeInv
  <1>2. /\ \A y \in Callers \ {x} : caller'[y] = caller[y] /\ outcome'[y] = outcome[y]
        /\ caller[x] # "done"
        /\ \/ caller'[x] # "done" /\ outcome'[x] = outcome[x]
           \/ caller'[x] = "done"
    BY <1>0 DEF CallStep, CallerStep, CheckClosed, Cancel, CloseAdmission, CheckStopped,
           CountAccepted, Probe, CheckWorker, Retry, EnqueueDeadline, ReceiveReply,
           Expire, ReportTimeout, Goto, Finish, Disconnected
  <1>3. OutcomeAtEnd'
    BY <1>2 DEF OutcomeAtEnd, ServeInv
  <1>4. CASE chan' = chan
    <2>1. Held' = Held
      BY <1>0, <1>4 DEF Held
    <2>2. ASSUME x \in Held PROVE caller'[x] \in Waiting \/ outcome'[x] \in LeftWaiting
      <3>1. caller[x] \in Waiting /\ oneshot[x] = "unset"
        BY <1>2, <2>2 DEF ServeInv, HeldEntered, OutcomeAtEnd, LeftWaiting, CustodyInv,
                          SingleCustody
      <3>2. \/ x \in Requests /\ (CountAccepted(x) \/ Cancel(x))
            \/ ReceiveReply(x) \/ Expire(x) \/ ReportTimeout(x)
        BY <3>1 DEF CallStep, CallerStep, CheckClosed, CloseAdmission, CheckStopped,
                    Probe, CheckWorker, Retry, EnqueueDeadline, Waiting
      <3>3. QED
        BY <1>0, <3>1, <3>2 DEF CountAccepted, Cancel, ReceiveReply, Expire, ReportTimeout,
                                Goto, Finish, Waiting, LeftWaiting
    <2>3. HeldEntered'
      BY <1>2, <2>1, <2>2 DEF HeldEntered, ServeInv
    <2>4. QED
      BY <1>1, <1>3, <2>3 DEF ServeInv
  <1>5. CASE /\ caller[x] = "probing"
             /\ chan' = Append(chan, x)
             /\ \E q \in {"sent", "awaiting"} : caller' = [caller EXCEPT ![x] = q]
    <2>1. x \notin Elements(chan) /\ Once(chan)
      BY <1>5 DEF CustodyInv, SingleCustody, NotYetSent, Held
    <2>2. Held' = Held \cup {x}
      BY <1>0, <1>5, <2>1, AppendElements DEF Held
    <2>3. caller'[x] \in Waiting
      BY <1>0, <1>5 DEF Waiting
    <2>4. HeldEntered'
      BY <1>2, <2>2, <2>3 DEF HeldEntered, ServeInv
    <2>5. QED
      BY <1>1, <1>3, <2>4 DEF ServeInv
  <1>6. QED
    BY <1>4, <1>5, CallEffect DEF CustodyInv

LEMMA TailWithin ==
    ASSUME NEW S, NEW seq \in Seq(S), seq # <<>>
    PROVE  Elements(Tail(seq)) \subseteq Elements(seq) /\ Head(seq) \in Elements(seq)
  <1>1. /\ Head(seq) = seq[1] /\ 1 \in DOMAIN seq
        /\ \A i \in DOMAIN Tail(seq) : i + 1 \in DOMAIN seq /\ Tail(seq)[i] = seq[i + 1]
    OBVIOUS
  <1>2. QED
    BY <1>1 DEF Elements

LEMMA AppendWithin ==
    ASSUME NEW S, NEW seq \in Seq(S), NEW e \in S
    PROVE  Elements(Append(seq, e)) \subseteq Elements(seq) \cup {e}
  <1>1. \A i \in DOMAIN Append(seq, e) :
            Append(seq, e)[i] = e \/ (i \in DOMAIN seq /\ Append(seq, e)[i] = seq[i])
    OBVIOUS
  <1>2. QED
    BY <1>1 DEF Elements

\* The worker comes by a command only through the channel.
LEMMA HeldShrinks ==
    ASSUME TypeOK, BatchInv, WorkerStep
    PROVE  Held' \subseteq Held
  <1>0. /\ chan \in Seq(Callers) /\ deferred \in Seq(Callers) /\ batch \in Seq(Requests)
        /\ Held = Elements(chan) \cup Elements(deferred) \cup Elements(batch) \cup acking
        /\ Held' = Elements(chan') \cup Elements(deferred') \cup Elements(batch') \cup acking'
    BY DEF TypeOK, Held
  <1>a. /\ chan # <<>> => /\ Elements(Tail(chan)) \subseteq Elements(chan)
                          /\ Head(chan) \in Elements(chan) /\ Head(chan) \in Callers
        /\ deferred # <<>> => /\ Elements(Tail(deferred)) \subseteq Elements(deferred)
                              /\ Head(deferred) \in Elements(deferred)
        /\ batch # <<>> => Elements(Tail(batch)) \subseteq Elements(batch)
    BY <1>0, TailWithin
  <1>1. ASSUME NEW x, Take(x)
        PROVE  Elements(batch') \cup acking' \subseteq Elements(batch) \cup acking \cup {x}
    BY <1>1, SingleElement DEF Take, TakeJob, TakeShutdown
  <1>2. CASE TakeDeferred
    <2>1. deferred # <<>> /\ deferred' = Tail(deferred) /\ UNCHANGED chan
          /\ Take(Head(deferred))
      BY <1>2 DEF TakeDeferred
    <2>2. QED
      BY <1>0, <1>a, <1>1, <2>1
  <1>b. CASE Receive
    <2>1. chan # <<>> /\ chan' = Tail(chan) /\ UNCHANGED deferred /\ Take(Head(chan))
      BY <1>b DEF Receive
    <2>2. QED
      BY <1>0, <1>a, <1>1, <2>1
  <1>3. CASE Gather
    <2>1. /\ chan # <<>> /\ chan' = Tail(chan) /\ UNCHANGED acking
          /\ \/ GatherClosed(Head(chan)) \/ GatherSame(Head(chan))
             \/ GatherOther(Head(chan)) \/ GatherShutdown(Head(chan))
          /\ deferred = <<>>
      BY <1>3 DEF Gather, BatchInv, Gathering
    <2>2. CASE GatherClosed(Head(chan))
      BY <1>0, <1>a, <2>1, <2>2 DEF GatherClosed
    <2>3. CASE GatherSame(Head(chan))
      <3>1. /\ batch' = Append(batch, Head(chan)) /\ Head(chan) \in Requests
            /\ UNCHANGED deferred
        BY <2>3 DEF GatherSame
      <3>2. Elements(batch') \subseteq Elements(batch) \cup {Head(chan)}
        BY <1>0, <3>1, AppendWithin
      <3>3. QED
        BY <1>0, <1>a, <2>1, <3>1, <3>2
    <2>4. CASE GatherOther(Head(chan)) \/ GatherShutdown(Head(chan))
      <3>1. deferred' = <<Head(chan)>> /\ UNCHANGED batch
        BY <1>0, <2>1, <2>4 DEF GatherOther, GatherShutdown
      <3>2. Elements(deferred') = {Head(chan)}
        BY <3>1, SingleElement
      <3>3. QED
        BY <1>0, <1>a, <2>1, <3>1, <3>2
    <2>5. QED
      BY <2>1, <2>2, <2>3, <2>4
  <1>4. CASE CountCompleted \/ SendOutput \/ FailJob
    <2>1. /\ UNCHANGED <<chan, deferred, acking>>
          /\ UNCHANGED batch \/ (batch # <<>> /\ batch' = Tail(batch))
      BY <1>4 DEF CountCompleted, SendOutput, FailJob
    <2>2. QED
      BY <1>0, <1>a, <2>1
  <1>5. CASE Collect
    <2>1. CASE chan # <<>>
      <3>1. /\ deferred' = Append(deferred, Head(chan)) /\ chan' = Tail(chan)
            /\ UNCHANGED <<batch, acking>>
        BY <1>5, <2>1 DEF Collect
      <3>2. Elements(deferred') \subseteq Elements(deferred) \cup {Head(chan)}
        BY <1>0, <1>a, <2>1, <3>1, AppendWithin
      <3>3. QED
        BY <1>0, <1>a, <2>1, <3>1, <3>2
    <2>2. CASE chan = <<>>
      BY <1>0, <1>5, <2>2 DEF Collect
    <2>3. QED
      BY <2>1, <2>2
  <1>6. CASE DrainNext
    <2>1. deferred # <<>> /\ deferred' = Tail(deferred) /\ UNCHANGED <<chan, batch, acking>>
      BY <1>6 DEF DrainNext
    <2>2. QED
      BY <1>0, <1>a, <2>1
  <1>7. CASE FinishDrain
    BY <1>0, <1>7 DEF FinishDrain
  <1>8. CASE DropReceiver
    BY <1>0, <1>8, EmptyElements DEF DropReceiver
  <1>9. CASE IdleCheck \/ Launch \/ RunBackend \/ Panic \/ CountFailed \/ FinishBatch
             \/ DropGuard
    BY <1>0, <1>9 DEF IdleCheck, Launch, RunBackend, Panic, CountFailed, FinishBatch, DropGuard
  <1>10. QED
    BY <1>2, <1>b, <1>3, <1>4, <1>5, <1>6, <1>7, <1>8, <1>9 DEF WorkerStep

LEMMA ServeWorker ==
    ASSUME CustodyInv, BatchInv, ServeInv, WorkerStep
    PROVE  ServeInv'
  <1>0. /\ TypeOK /\ UNCHANGED <<caller, outcome>> /\ Held' \subseteq Held
        /\ HandsFree
    BY WorkerFrame, HeldShrinks DEF CustodyInv
  <1>1. HeldEntered' /\ OutcomeAtEnd'
    BY <1>0 DEF ServeInv, HeldEntered, OutcomeAtEnd
  <1>2. \A s, t \in acking' : s = t
    <2>1. \/ acking' \subseteq acking
          \/ \E s : acking' = {s}
      BY DEF WorkerStep, TakeDeferred, Receive, Take, TakeJob, TakeShutdown, IdleCheck,
             Gather, Launch, RunBackend, Panic, CountCompleted, SendOutput, FailJob,
             CountFailed, FinishBatch, Collect, DrainNext, FinishDrain, DropReceiver,
             DropGuard
    <2>2. QED
      BY <2>1 DEF ServeInv, InHand
  <1>3. worker' \in {"recv", "collect", "drain"} => batch' = <<>>
    <2>1. CASE TakeDeferred \/ Receive
      <3>1. worker = "recv" /\ batch = <<>>
        BY <1>0, <2>1 DEF TakeDeferred, Receive, HandsFree
      <3>2. UNCHANGED batch \/ worker' = "gather"
        BY <2>1 DEF TakeDeferred, Receive, Take, TakeJob, TakeShutdown
      <3>3. QED
        BY <3>1, <3>2
    <2>2. CASE Gather \/ Launch \/ RunBackend \/ Panic \/ FinishDrain \/ DropReceiver
               \/ DropGuard
      BY <2>2 DEF Gather, GatherClosed, GatherSame, GatherOther, GatherShutdown, Launch,
                  RunBackend, Panic, FinishDrain, DropReceiver, DropGuard
    <2>3. CASE CountCompleted \/ SendOutput \/ FailJob
      BY <2>3 DEF CountCompleted, SendOutput, FailJob
    <2>4. CASE IdleCheck \/ CountFailed \/ FinishBatch \/ Collect \/ DrainNext
      BY <1>0, <2>4 DEF IdleCheck, CountFailed, FinishBatch, Collect, DrainNext, ServeInv,
                        InHand
    <2>5. QED
      BY <2>1, <2>2, <2>3, <2>4 DEF WorkerStep
  <1>4. worker' = "unwind" /\ batch' # <<>> => Len(deferred') <= 1
    <2>1. CASE Panic
      BY <2>1 DEF Panic, BatchInv, OneDeferred
    <2>2. CASE FinishDrain
      BY <2>2 DEF FinishDrain, ServeInv, InHand
    <2>3. CASE CountFailed
      BY <2>3 DEF CountFailed, ServeInv, InHand
    <2>4. CASE CountCompleted \/ SendOutput \/ FailJob \/ Collect \/ DrainNext
      BY <2>4 DEF CountCompleted, SendOutput, FailJob, Collect, DrainNext
    <2>5. CASE TakeDeferred \/ Receive \/ IdleCheck \/ Gather \/ Launch \/ RunBackend
               \/ FinishBatch \/ DropReceiver \/ DropGuard
      BY <2>5 DEF TakeDeferred, Receive, Take, TakeJob, TakeShutdown, IdleCheck, Gather,
                  GatherClosed, GatherSame, GatherOther, GatherShutdown, Launch,
                  RunBackend, FinishBatch, DropReceiver, DropGuard
    <2>6. QED
      BY <2>1, <2>2, <2>3, <2>4, <2>5 DEF WorkerStep
  <1>5. QED
    BY <1>1, <1>2, <1>3, <1>4 DEF ServeInv, InHand

LEMMA ServeNext == CustodyInv /\ BatchInv /\ ServeInv /\ [Next]_vars => ServeInv'
  <1> SUFFICES ASSUME CustodyInv, BatchInv, ServeInv, [Next]_vars PROVE ServeInv'
    OBVIOUS
  <1>1. CASE \E x \in Callers : CallStep(x)
    BY <1>1, ServeCalls
  <1>2. CASE WorkerStep
    BY <1>2, ServeWorker
  <1>3. CASE BackendFails \/ DropHandles \/ UNCHANGED vars
    <2>1. /\ UNCHANGED <<caller, outcome, chan, deferred, batch, acking>>
          /\ worker' = worker \/ (worker = "recv" /\ worker' = "unwind")
      BY <1>3 DEF BackendFails, DropHandles, vars, workerVars, callerVars
    <2>2. Held' = Held
      BY <2>1 DEF Held
    <2>3. QED
      BY <2>1, <2>2 DEF ServeInv, HeldEntered, OutcomeAtEnd, InHand
  <1>4. QED
    BY <1>1, <1>2, <1>3, StepCases DEF PollAgain, Ended

LEMMA ServeInit == Init => ServeInv
  <1> SUFFICES ASSUME Init PROVE ServeInv
    OBVIOUS
  <1>1. /\ chan = <<>> /\ deferred = <<>> /\ batch = <<>> /\ acking = {}
        /\ \A x \in Callers : outcome[x] = "none"
    BY DEF Init
  <1>2. Held = {}
    BY <1>1, EmptyElements DEF Held
  <1>3. QED
    BY <1>1, <1>2 DEF ServeInv, HeldEntered, OutcomeAtEnd, InHand

LEMMA ServeCorrect == Init /\ [][Next]_vars => []ServeInv
  BY ServeInit, ServeNext, CustodyCorrect, BatchCorrect, PTL

-----------------------------------------------------------------------------
(* The refinement mapping. *)

LEMMA ServiceCardinality == \A S : Service!Cardinality(S) = Cardinality(S)
  BY DEF Service!Cardinality, Cardinality

LEMMA ModeIs ==
    /\ worker \in {"recv", "gather"} => Mode = "forming"
    /\ worker \in {"launch", "infer", "reply", "fail"} => Mode = "running"
    /\ worker = "unwind" /\ batch # <<>> => Mode = "running"
    /\ worker \in {"collect", "drain"} => Mode = "draining"
    /\ worker = "unwind" /\ batch = <<>> => Mode = "draining"
    /\ worker \in {"guard", "gone"} => Mode = "ended"
  BY DEF Mode

LEMMA ModeWillBe ==
    /\ worker' \in {"recv", "gather"} => Mode' = "forming"
    /\ worker' \in {"launch", "infer", "reply", "fail"} => Mode' = "running"
    /\ worker' = "unwind" /\ batch' # <<>> => Mode' = "running"
    /\ worker' \in {"collect", "drain"} => Mode' = "draining"
    /\ worker' = "unwind" /\ batch' = <<>> => Mode' = "draining"
    /\ worker' \in {"guard", "gone"} => Mode' = "ended"
  BY DEF Mode

\* A nonempty sequence is its head before its tail.
LEMMA HeadThenTail ==
    ASSUME NEW S, NEW t \in Seq(S), t # <<>>
    PROVE  <<Head(t)>> \o Tail(t) = t
  <1>1. /\ Head(t) \in S /\ Tail(t) \in Seq(S) /\ Len(Tail(t)) = Len(t) - 1
        /\ \A i \in 1 .. Len(t) - 1 : Tail(t)[i] = t[i + 1]
        /\ Head(t) = t[1] /\ Len(t) \in Nat \ {0}
    BY HeadTailProperties
  <1> DEFINE h == <<Head(t)>>
  <1>2. h \in Seq(S) /\ Len(h) = 1 /\ h[1] = t[1]
    BY <1>1
  <1> HIDE DEF h
  <1>3. /\ h \o Tail(t) \in Seq(S) /\ Len(h \o Tail(t)) = Len(t)
        /\ \A i \in 1 .. Len(t) : (h \o Tail(t))[i] = IF i <= 1 THEN h[i] ELSE Tail(t)[i - 1]
    <2>1. /\ h \o Tail(t) \in Seq(S) /\ Len(h \o Tail(t)) = Len(h) + Len(Tail(t))
          /\ \A i \in 1 .. Len(h) + Len(Tail(t)) : (h \o Tail(t))[i] =
                 IF i <= Len(h) THEN h[i] ELSE Tail(t)[i - Len(h)]
      BY <1>1, <1>2, ConcatProperties
    <2>2. Len(h) + Len(Tail(t)) = Len(t)
      BY <1>1, <1>2
    <2>3. QED
      BY <1>2, <2>1, <2>2
  <1>4. ASSUME NEW i \in 1 .. Len(t) PROVE (h \o Tail(t))[i] = t[i]
    <2>1. CASE i = 1
      BY <1>1, <1>2, <1>3, <2>1
    <2>2. CASE i # 1
      <3>1. i - 1 \in 1 .. Len(t) - 1 /\ (i - 1) + 1 = i /\ ~(i <= 1)
        BY <1>1, <2>2
      <3>2. QED
        BY <1>1, <1>3, <3>1
    <2>3. QED
      BY <2>1, <2>2
  <1>5. h \o Tail(t) = t
    BY <1>3, <1>4, SeqEqual
  <1>6. QED
    BY <1>5 DEF h

\* An element moves from the head of one sequence to the end of the one before it.
LEMMA ConcatMove ==
    ASSUME NEW S, NEW s \in Seq(S), NEW t \in Seq(S), t # <<>>
    PROVE  Append(s, Head(t)) \o Tail(t) = s \o t
  <1>1. Head(t) \in S /\ Tail(t) \in Seq(S) /\ <<Head(t)>> \in Seq(S)
    BY HeadTailProperties
  <1>2. Append(s, Head(t)) = s \o <<Head(t)>>
    BY <1>1, AppendIsConcat
  <1>3. (s \o <<Head(t)>>) \o Tail(t) = s \o (<<Head(t)>> \o Tail(t))
    BY <1>1, ConcatAssociative
  <1>4. QED
    BY <1>2, <1>3, HeadThenTail

LEMMA ConcatAppend ==
    ASSUME NEW S, NEW s \in Seq(S), NEW t \in Seq(S), NEW e \in S
    PROVE  s \o Append(t, e) = Append(s \o t, e)
  <1>1. s \o t \in Seq(S) /\ <<e>> \in Seq(S)
    BY ConcatProperties
  <1>2. Append(t, e) = t \o <<e>> /\ Append(s \o t, e) = (s \o t) \o <<e>>
    BY <1>1, AppendIsConcat
  <1>3. (s \o t) \o <<e>> = s \o (t \o <<e>>)
    BY <1>1, ConcatAssociative
  <1>4. QED
    BY <1>2, <1>3

\* A sequence put behind another one leaves its head and its tail where they are.
LEMMA ConcatTail ==
    ASSUME NEW S, NEW s \in Seq(S), NEW t \in Seq(S), s # <<>>
    PROVE  s \o t # <<>> /\ Head(s \o t) = Head(s) /\ Tail(s \o t) = Tail(s) \o t
  <1>1. Head(s) \in S /\ Tail(s) \in Seq(S) /\ <<Head(s)>> \in Seq(S)
    BY HeadTailProperties
  <1>2. s \o t \in Seq(S) /\ s \o t # <<>>
    BY ConcatProperties, ConcatEqualIffEmpty
  <1>3. Head(s \o t) = Head(s)
    <2>1. Head(s \o t) = (s \o t)[1] /\ Head(s) = s[1] /\ Len(s) \in Nat \ {0} /\ Len(t) \in Nat
      BY <1>2
    <2>2. (s \o t)[1] = s[1]
      BY <2>1, ConcatProperties
    <2>3. QED
      BY <2>1, <2>2
  <1>4. <<Head(s)>> \o (Tail(s) \o t) = <<Head(s)>> \o Tail(s \o t)
    <2>1. s \o t = (<<Head(s)>> \o Tail(s)) \o t
      BY HeadThenTail
    <2>2. (<<Head(s)>> \o Tail(s)) \o t = <<Head(s)>> \o (Tail(s) \o t)
      BY <1>1, ConcatAssociative
    <2>3. <<Head(s \o t)>> \o Tail(s \o t) = s \o t
      BY <1>2, HeadThenTail
    <2>4. QED
      BY <1>3, <2>1, <2>2, <2>3
  <1>5. Tail(s) \o t \in Seq(S) /\ Tail(s \o t) \in Seq(S)
    BY <1>1, <1>2, ConcatProperties, HeadTailProperties
  <1>6. Tail(s) \o t = Tail(s \o t)
    BY <1>1, <1>4, <1>5, ConcatSimplifications
  <1>7. QED
    BY <1>2, <1>3, <1>6

\* The head of the deferred queue is the head of the queue.
LEMMA DeferredFirst ==
    ASSUME TypeOK, deferred # <<>>, deferred' = Tail(deferred), chan' = chan
    PROVE  Queue # <<>> /\ Head(Queue) = Head(deferred) /\ Queue' = Tail(Queue)
  <1>1. deferred \in Seq(Callers) /\ chan \in Seq(Callers)
    BY DEF TypeOK
  <1>2. QED
    BY <1>1, ConcatTail DEF Queue

\* Without a deferred command, the queue is the channel.
LEMMA ChannelOnly ==
    ASSUME TypeOK, deferred = <<>>
    PROVE  Queue = chan
  BY ConcatEmptySeq DEF Queue, TypeOK

\* The commands that were ever admitted are those of the calls that wait for the
\* worker, were answered by it, or stopped waiting for it.
Entered ==
    {x \in Callers : \/ oneshot[x] # "unset"
                     \/ caller[x] \in Waiting
                     \/ outcome[x] \in LeftWaiting}

LEMMA AdmittedIs == TypeOK /\ HeldEntered => Admitted = Entered
  <1> SUFFICES ASSUME TypeOK, HeldEntered PROVE Admitted = Entered
    OBVIOUS
  <1>1. Held \subseteq Callers
    BY HeldTypes DEF Held, Callers
  <1>2. QED
    BY <1>1 DEF Admitted, Entered, HeldEntered, Waiting, LeftWaiting

LEMMA AdmittedNext == TypeOK' /\ HeldEntered' => (Admitted = Entered)'
  BY AdmittedIs, PTL

\* A step the service does not see.
LEMMA StutterStep ==
    ASSUME Queue' = Queue, Admitted' = Admitted, Mode' = Mode,
           UNCHANGED <<batch, acking, oneshot>>
    PROVE  [Service!Next]_(Service!vars)
  BY DEF Service!vars

LEMMA RefineCalls ==
    ASSUME CustodyInv, BatchInv, ServeInv, TypeOK', ServeInv', NEW x \in Callers, CallStep(x)
    PROVE  [Service!Next]_(Service!vars)
  <1>0. /\ TypeOK /\ HeldEntered /\ HeldEntered'
        /\ UNCHANGED <<oneshot, deferred, batch, worker, acking>>
        /\ caller \in [Callers -> CallerStates] /\ outcome \in [Callers -> Outcomes]
        /\ chan \in Seq(Callers) /\ deferred \in Seq(Callers)
        /\ Admitted = Entered /\ Admitted' = Entered'
    BY CallFrame, AdmittedIs, AdmittedNext DEF CustodyInv, TypeOK, ServeInv
  <1>1. Mode' = Mode
    BY <1>0 DEF Mode
  <1>2. \A y \in Callers \ {x} : caller'[y] = caller[y] /\ outcome'[y] = outcome[y]
    BY <1>0 DEF CallStep, CallerStep, CheckClosed, Cancel, CloseAdmission, CheckStopped,
           CountAccepted, Probe, CheckWorker, Retry, EnqueueDeadline, ReceiveReply,
           Expire, ReportTimeout, Goto, Finish, Disconnected
  <1>3. caller[x] \in Unsent => x \notin Entered
    <2>1. caller[x] \in Unsent => outcome[x] = "none" /\ oneshot[x] = "unset"
      BY DEF CustodyInv, NotYetSent, ServeInv, OutcomeAtEnd, Unsent
    <2>2. QED
      BY <2>1 DEF Entered, Unsent, Waiting, LeftWaiting
  <1>4. CASE chan' = chan
    <2>1. Queue' = Queue
      BY <1>0, <1>4 DEF Queue
    <2>2. x \in Entered' <=> x \in Entered
      <3>1. CASE caller[x] \in Unsent
        <4>1. caller'[x] \notin Waiting
          <5>1. CASE Probe(x)
            BY <1>0, <1>4, <5>1 DEF Probe, Goto, Finish, Disconnected, Waiting
          <5>2. CASE ~Probe(x)
            BY <1>0, <3>1, <5>2
               DEF CallStep, CallerStep, CheckClosed, Cancel, CloseAdmission, CheckStopped,
                   CountAccepted, CheckWorker, Retry, EnqueueDeadline, ReceiveReply,
                   Expire, ReportTimeout, Goto, Finish, Disconnected, Waiting, Unsent
          <5>3. QED
            BY <5>1, <5>2
        <4>2. outcome'[x] \notin LeftWaiting
          <5>1. outcome[x] = "none"
            BY <3>1 DEF ServeInv, OutcomeAtEnd, Unsent
          <5>2. QED
            BY <1>0, <3>1, <5>1
               DEF CallStep, CallerStep, CheckClosed, Cancel, CloseAdmission, CheckStopped,
                   CountAccepted, Probe, CheckWorker, Retry, EnqueueDeadline, ReceiveReply,
                   Expire, ReportTimeout, Goto, Finish, Disconnected, LeftWaiting, Unsent
        <4>3. oneshot[x] = "unset"
          BY <3>1 DEF CustodyInv, NotYetSent, Unsent
        <4>4. QED
          BY <1>0, <1>3, <3>1, <4>1, <4>2, <4>3 DEF Entered
      <3>2. CASE caller[x] \in Waiting
        <4>1. \/ caller'[x] \in Waiting \/ outcome'[x] \in LeftWaiting
              \/ oneshot[x] # "unset"
          BY <1>0, <3>2
             DEF CallStep, CallerStep, CheckClosed, Cancel, CloseAdmission, CheckStopped,
                 CountAccepted, Probe, CheckWorker, Retry, EnqueueDeadline, ReceiveReply,
                 Expire, ReportTimeout, Goto, Finish, Disconnected, LeftWaiting, Waiting
        <4>2. QED
          BY <1>0, <3>2, <4>1 DEF Entered
      <3>3. caller[x] # "done"
        BY DEF CallStep, CallerStep, CheckClosed, Cancel, CloseAdmission, CheckStopped,
               CountAccepted, Probe, CheckWorker, Retry, EnqueueDeadline, ReceiveReply,
               Expire, ReportTimeout
      <3>4. QED
        BY <1>0, <3>1, <3>2, <3>3 DEF CallerStates, Unsent, Waiting
    <2>3. Entered' = Entered
      BY <1>0, <1>2, <2>2 DEF Entered
    <2>4. QED
      BY <1>0, <1>1, <2>1, <2>3, StutterStep
  <1>5. CASE /\ caller[x] = "probing" /\ RxOpen /\ Len(chan) < Capacity
             /\ chan' = Append(chan, x)
             /\ \E q \in {"sent", "awaiting"} : caller' = [caller EXCEPT ![x] = q]
    <2>1. Queue' = Append(Queue, x)
      BY <1>0, <1>5, ConcatAppend DEF Queue
    <2>2. x \notin Admitted
      BY <1>0, <1>3, <1>5 DEF Unsent
    <2>3. caller'[x] \in Waiting
      BY <1>0, <1>5 DEF Waiting
    <2>4. Entered' = Entered \cup {x}
      BY <1>0, <1>2, <2>3 DEF Entered
    <2>5. Mode # "ended"
      BY <1>0, <1>5, ModeIs DEF RxOpen, TypeOK, WorkerStates
    <2>6. Mode \in {"forming", "running"} => Len(Queue) < Capacity + 1
      <3>1. Len(Queue) = Len(deferred) + Len(chan)
        BY <1>0, ConcatProperties DEF Queue
      <3>2. Len(deferred) \in Nat /\ Len(chan) \in Nat /\ Capacity \in Nat
        BY <1>0, SchedulerAssumption
      <3>3. Mode \in {"forming", "running"} => Len(deferred) <= 1
        BY <1>0, ModeIs DEF BatchInv, OneDeferred, ServeInv, InHand
      <3>4. QED
        BY <1>5, <3>1, <3>2, <3>3
    <2>7. Service!Admit(x)
      BY <1>0, <1>1, <2>1, <2>2, <2>4, <2>5, <2>6 DEF Service!Admit
    <2>8. QED
      BY <2>7 DEF Service!Next, Service!Callers, Callers
  <1>6. QED
    BY <1>0, <1>4, <1>5, CallEffect

\* The worker admits nobody.
LEMMA WorkerAdmits ==
    ASSUME CustodyInv, BatchInv, ServeInv, TypeOK', ServeInv', WorkerStep
    PROVE  Admitted' = Admitted
  <1>1. /\ Admitted = Entered /\ Admitted' = Entered'
        /\ UNCHANGED <<caller, outcome>>
    BY AdmittedIs, AdmittedNext, WorkerFrame DEF CustodyInv, ServeInv
  <1>2. ASSUME NEW y \in Callers PROVE y \in Entered' <=> y \in Entered
    <2>1. CASE oneshot'[y] = oneshot[y]
      BY <1>1, <2>1 DEF Entered
    <2>2. CASE oneshot'[y] # oneshot[y]
      <3>1. y \in Held
        BY <2>2, OnlyHeldAreAnswered DEF CustodyInv
      <3>2. caller[y] \in Waiting \/ outcome[y] \in LeftWaiting
        BY <3>1 DEF ServeInv, HeldEntered
      <3>3. QED
        BY <1>1, <3>2 DEF Entered
    <2>3. QED
      BY <2>1, <2>2
  <1>3. Entered' = Entered
    BY <1>2 DEF Entered
  <1>4. QED
    BY <1>1, <1>3

\* In a batch without repetition there are as many jobs as places.
LEMMA BatchCardinality ==
    ASSUME TypeOK, Once(batch)
    PROVE  Cardinality(Elements(batch)) = Len(batch)
  <1>1. /\ batch \in Seq(Requests) /\ Len(batch) \in Nat /\ DOMAIN batch = 1 .. Len(batch)
        /\ batch \in Seq(Callers)
    BY DEF TypeOK, Callers
  <1>2. Jobs(batch) = 1 .. Len(batch)
    BY <1>1 DEF Jobs
  <1>3. Requests \cap Elements(batch) = Elements(batch)
    BY <1>1 DEF Elements
  <1>4. Cardinality(1 .. Len(batch)) = Len(batch)
    BY <1>1, FS_Interval
  <1>5. QED
    BY <1>1, <1>2, <1>3, <1>4, JobsCount

\* The head of the queue opens a batch, is skipped, or begins the drain.
LEMMA RefineTake ==
    ASSUME CustodyInv, worker = "recv", NEW x \in Callers, Take(x),
           Queue # <<>>, Head(Queue) = x, Queue' = Tail(Queue),
           Admitted' = Admitted, oneshot' = oneshot
    PROVE  Service!Next
  <1>0. /\ batch = <<>> /\ acking = {} /\ Elements(batch) \cup acking = {}
        /\ Mode = "forming"
    BY EmptyElements, ModeIs DEF CustodyInv, HandsFree
  <1>1. CASE x \in Requests /\ TakeJob(x) /\ ReplyOpen(x)
    <2>1. batch' = <<x>> /\ worker' = "gather" /\ acking' = {}
      BY <1>0, <1>1 DEF TakeJob
    <2>2. (Elements(batch) \cup acking)' = {x}
      BY <2>1, SingleElement
    <2>3. Mode' = "forming"
      BY <2>1, ModeWillBe
    <2>4. Service!Cardinality(Elements(batch) \cup acking) < BatchLimit(Key[x])
      <3>1. Key[x] \in Keys
        BY <1>1, SchedulerAssumption
      <3>2. BatchLimit(Key[x]) \in Int /\ BatchLimit(Key[x]) >= 1
        BY <3>1, LimitAllowsOne
      <3>3. Service!Cardinality(Elements(batch) \cup acking) = 0
        BY <1>0, ServiceCardinality, FS_EmptySet
      <3>4. QED
        BY <3>2, <3>3
    <2>5. Service!Join
      BY <1>0, <1>1, <2>2, <2>3, <2>4 DEF Service!Join
    <2>6. QED
      BY <2>5 DEF Service!Next
  <1>2. CASE x \in Requests /\ TakeJob(x) /\ ~ReplyOpen(x)
    <2>1. batch' = batch /\ worker' = worker /\ acking' = acking
      BY <1>2 DEF TakeJob
    <2>2. Mode' = Mode
      BY <2>1 DEF Mode
    <2>3. Service!Skip
      BY <1>0, <1>2, <2>1, <2>2 DEF Service!Skip
    <2>4. QED
      BY <2>3 DEF Service!Next
  <1>3. CASE x \in Stoppers /\ TakeShutdown(x)
    <2>1. batch' = <<>> /\ worker' = "collect" /\ acking' = {x}
      BY <1>0, <1>3 DEF TakeShutdown
    <2>2. (Elements(batch) \cup acking)' = {x}
      BY <2>1, EmptyElements
    <2>3. Mode' = "draining"
      BY <2>1, ModeWillBe
    <2>4. Service!BeginDrain
      BY <1>0, <1>3, <2>2, <2>3 DEF Service!BeginDrain
    <2>5. QED
      BY <2>4 DEF Service!Next
  <1>4. QED
    BY <1>1, <1>2, <1>3 DEF Take, TakeJob

LEMMA RefineGather ==
    ASSUME CustodyInv, BatchInv, Gather, Admitted' = Admitted
    PROVE  [Service!Next]_(Service!vars)
  <1> DEFINE x == Head(chan)
  <1>0. /\ TypeOK /\ Once(batch)
        /\ worker = "gather" /\ chan # <<>> /\ chan' = Tail(chan)
        /\ GatherClosed(x) \/ GatherSame(x) \/ GatherOther(x) \/ GatherShutdown(x)
        /\ UNCHANGED <<oneshot, acking>>
        /\ Len(batch) < BatchLimit(Key[batch[1]])
        /\ acking = {} /\ batch # <<>> /\ deferred = <<>>
        /\ chan \in Seq(Callers) /\ batch \in Seq(Requests)
    BY DEF CustodyInv, SingleCustody, HandsFree, BatchInv, Gathering, Gather, TypeOK
  <1>1. Queue = chan /\ Mode = "forming"
    BY <1>0, ChannelOnly, ModeIs
  <1>a. Tail(chan) \in Seq(Callers)
    BY <1>0
  <1>2. CASE GatherClosed(x)
    <2>1. x \in Requests /\ UNCHANGED <<batch, deferred, worker>>
      BY <1>2 DEF GatherClosed
    <2>2. Queue' = Tail(Queue)
      BY <1>0, <1>1, <1>a, <2>1, ConcatEmptySeq DEF Queue
    <2>3. Mode' = Mode
      BY <2>1 DEF Mode
    <2>4. Service!Skip
      BY <1>0, <1>1, <2>1, <2>2, <2>3 DEF Service!Skip
    <2>5. QED
      BY <2>4 DEF Service!Next
  <1>3. CASE GatherSame(x)
    <2>1. /\ x \in Requests /\ Key[x] = Key[batch[1]] /\ batch' = Append(batch, x)
          /\ UNCHANGED <<deferred, worker>>
      BY <1>3 DEF GatherSame
    <2>2. Queue' = Tail(Queue)
      BY <1>0, <1>1, <1>a, <2>1, ConcatEmptySeq DEF Queue
    <2>3. Mode' = "forming"
      BY <1>0, <2>1, ModeWillBe
    <2>4. Elements(batch') = Elements(batch) \cup {x}
      <3>1. x \in Elements(chan)
        BY <1>0, TailWithin
      <3>2. x \notin Elements(batch)
        BY <3>1 DEF CustodyInv, SingleCustody
      <3>3. QED
        BY <1>0, <2>1, <3>2, AppendElements
    <2>5. \A other \in Elements(batch) \cup acking : Key[other] = Key[x]
      BY <1>0, <2>1 DEF BatchInv, Compatible, Elements
    <2>6. Service!Cardinality(Elements(batch) \cup acking) < BatchLimit(Key[x])
      <3>1. Elements(batch) \cup acking = Elements(batch)
        BY <1>0
      <3>2. Service!Cardinality(Elements(batch)) = Len(batch)
        BY <1>0, BatchCardinality, ServiceCardinality
      <3>3. QED
        BY <1>0, <2>1, <3>1, <3>2
    <2>7. (Elements(batch) \cup acking)' = Elements(batch) \cup acking \cup {x}
      BY <1>0, <2>4
    <2>8. Service!Join
      BY <1>0, <1>1, <2>1, <2>2, <2>3, <2>5, <2>6, <2>7 DEF Service!Join
    <2>9. QED
      BY <2>8 DEF Service!Next
  <1>4. CASE GatherOther(x) \/ GatherShutdown(x)
    <2>1. deferred' = <<x>> /\ worker' = "launch" /\ UNCHANGED batch
      BY <1>0, <1>4 DEF GatherOther, GatherShutdown
    <2>2. Queue' = Queue
      BY <1>0, <1>1, <2>1, HeadThenTail DEF Queue
    <2>3. Mode' = "running"
      BY <2>1, ModeWillBe
    <2>4. Elements(batch) \cup acking # {}
      <3>1. 1 \in DOMAIN batch
        BY <1>0
      <3>2. QED
        BY <3>1 DEF Elements
    <2>5. Service!RunBatch
      BY <1>0, <1>1, <2>1, <2>2, <2>3, <2>4 DEF Service!RunBatch
    <2>6. QED
      BY <2>5 DEF Service!Next
  <1>5. QED
    BY <1>0, <1>2, <1>3, <1>4

\* A job of the batch is answered, or its caller has gone.
LEMMA RefineReply ==
    ASSUME CustodyInv, CountCompleted \/ SendOutput \/ FailJob, Admitted' = Admitted
    PROVE  [Service!Next]_(Service!vars)
  <1>0. /\ TypeOK /\ Once(batch) /\ HandsFree
        /\ worker \in {"reply", "fail"} /\ batch # <<>>
        /\ UNCHANGED <<chan, deferred, acking, worker>>
        /\ batch \in Seq(Requests) /\ Requests \subseteq Callers
    BY DEF CustodyInv, SingleCustody, TypeOK, CountCompleted, SendOutput, FailJob, Callers
  <1>1. Queue' = Queue /\ Mode = "running" /\ Mode' = "running" /\ acking = {}
    BY <1>0, ModeIs, ModeWillBe DEF Queue, HandsFree
  <1>2. CASE CountCompleted /\ UNCHANGED batch
    <2>1. UNCHANGED oneshot
      BY <1>2 DEF CountCompleted
    <2>2. QED
      BY <1>0, <1>1, <1>2, <2>1, StutterStep
  <1>3. CASE ~(CountCompleted /\ UNCHANGED batch)
    <2> DEFINE r == Head(batch)
    <2>1. batch' = Tail(batch)
      BY <1>3 DEF CountCompleted, SendOutput, FailJob
    <2>2. r \in Elements(batch) /\ Elements(batch') = Elements(batch) \ {r}
      BY <1>0, <2>1, TailElements
    <2>3. r \in Callers /\ r \in Elements(batch) \cup acking
      BY <1>0, <2>2
    <2>4. (Elements(batch) \cup acking)' = (Elements(batch) \cup acking) \ {r}
      BY <1>0, <1>1, <2>2
    <2>5. \/ oneshot' = [oneshot EXCEPT ![r] = "ok"]
          \/ oneshot' = [oneshot EXCEPT ![r] = "error"]
          \/ UNCHANGED oneshot
      BY DEF CountCompleted, SendOutput, FailJob, SendError
    <2>6. Service!Finish(r)
      BY <1>1, <2>3, <2>4, <2>5 DEF Service!Finish
    <2>7. QED
      BY <2>3, <2>6 DEF Service!Next, Service!Callers, Callers
  <1>4. QED
    BY <1>2, <1>3

\* The drain refuses the head of the queue.
LEMMA RefineDrain ==
    ASSUME CustodyInv, DrainNext, Admitted' = Admitted
    PROVE  [Service!Next]_(Service!vars)
  <1> DEFINE x == Head(deferred)
  <1>0. /\ TypeOK /\ worker = "drain" /\ deferred # <<>> /\ deferred' = Tail(deferred)
        /\ UNCHANGED <<chan, batch, acking, worker>>
    BY DEF CustodyInv, DrainNext
  <1>1. Queue # <<>> /\ Head(Queue) = x /\ Queue' = Tail(Queue)
    BY <1>0, DeferredFirst
  <1>2. Mode = "draining" /\ Mode' = "draining"
    BY <1>0, ModeIs, ModeWillBe
  <1>3. \/ x \in Requests /\ oneshot' = [oneshot EXCEPT ![x] = "drained"]
        \/ x \in Stoppers /\ oneshot' = [oneshot EXCEPT ![x] = "broken"]
        \/ UNCHANGED oneshot
    BY DEF DrainNext, SendError
  <1>4. Service!Refuse
    BY <1>0, <1>1, <1>2, <1>3 DEF Service!Refuse
  <1>5. QED
    BY <1>4 DEF Service!Next

\* The shutdown that began the drain, if one did, is acknowledged.
LEMMA RefineFinishDrain ==
    ASSUME CustodyInv, ServeInv, FinishDrain, Admitted' = Admitted
    PROVE  [Service!Next]_(Service!vars)
  <1>0. /\ TypeOK /\ worker = "drain" /\ worker' = "unwind" /\ batch = <<>>
        /\ UNCHANGED <<chan, deferred, batch>> /\ acking' = {}
        /\ oneshot' = [y \in Callers |-> IF y \in acking THEN "acked" ELSE oneshot[y]]
        /\ oneshot \in [Callers -> Slots] /\ acking \subseteq Stoppers
        /\ Elements(batch) = {} /\ Elements(batch') = {}
    BY EmptyElements DEF CustodyInv, TypeOK, FinishDrain, ServeInv, InHand
  <1>1. Queue' = Queue /\ Mode = "draining" /\ Mode' = "draining"
    BY <1>0, ModeIs, ModeWillBe DEF Queue
  <1>2. CASE acking = {}
    <2>1. oneshot' = oneshot
      BY <1>0, <1>2
    <2>2. QED
      BY <1>0, <1>1, <1>2, <2>1, StutterStep
  <1>3. CASE acking # {}
    <2>1. PICK s \in acking : TRUE
      BY <1>3
    <2>2. acking = {s}
      BY <2>1 DEF ServeInv, InHand
    <2>3. s \in Callers /\ s \in Stoppers
      BY <1>0, <2>1 DEF Callers
    <2>4. oneshot' = [oneshot EXCEPT ![s] = "acked"]
      BY <1>0, <2>2, <2>3
    <2>5. (Elements(batch) \cup acking)' = (Elements(batch) \cup acking) \ {s}
      BY <1>0, <2>2
    <2>6. Service!Acknowledge(s)
      BY <1>1, <2>1, <2>3, <2>4, <2>5 DEF Service!Acknowledge
    <2>7. QED
      BY <2>3, <2>6 DEF Service!Next, Service!Callers, Callers
  <1>4. QED
    BY <1>2, <1>3

\* The end breaks every reply sender the worker still holds.
LEMMA RefineEnd ==
    ASSUME CustodyInv, DropReceiver, Admitted' = Admitted
    PROVE  [Service!Next]_(Service!vars)
  <1>0. /\ TypeOK /\ worker = "unwind" /\ worker' = "guard"
        /\ chan' = <<>> /\ deferred' = <<>> /\ batch' = <<>> /\ acking' = {} /\ acking = {}
        /\ oneshot' = [y \in Callers |->
               IF y \in Elements(batch) \cup Elements(deferred) \cup Elements(chan)
               THEN "broken" ELSE oneshot[y]]
    BY DEF CustodyInv, HandsFree, DropReceiver
  <1>1. Mode \in {"running", "draining"} /\ Mode' = "ended"
    BY <1>0, ModeIs, ModeWillBe
  <1>2. Queue' = <<>>
    BY <1>0, ConcatEmptySeq DEF Queue
  <1>3. (Elements(batch) \cup acking)' = {}
    BY <1>0, EmptyElements
  <1>4. {Queue[i] : i \in DOMAIN Queue} = Elements(deferred) \cup Elements(chan)
    BY <1>0, QueueElements DEF CustodyInv, SingleCustody, Elements
  <1> DEFINE held == (Elements(batch) \cup acking) \cup {Queue[i] : i \in DOMAIN Queue}
  <1>5. oneshot' = [y \in Callers |-> IF y \in held THEN "broken" ELSE oneshot[y]]
    BY <1>0, <1>4
  <1>6. Service!End
    BY <1>1, <1>2, <1>3, <1>5 DEF Service!End, Service!Callers, Callers
  <1>7. QED
    BY <1>6 DEF Service!Next

LEMMA RefineWorker ==
    ASSUME CustodyInv, BatchInv, ServeInv, WorkerStep, Admitted' = Admitted
    PROVE  [Service!Next]_(Service!vars)
  <1>0. /\ TypeOK /\ HandsFree /\ chan \in Seq(Callers) /\ deferred \in Seq(Callers)
    BY DEF CustodyInv, TypeOK
  <1>1. CASE TakeDeferred
    <2>1. /\ worker = "recv" /\ deferred # <<>> /\ deferred' = Tail(deferred)
          /\ Take(Head(deferred)) /\ UNCHANGED <<chan, oneshot>>
      BY <1>1 DEF TakeDeferred
    <2>2. Queue # <<>> /\ Head(Queue) = Head(deferred) /\ Queue' = Tail(Queue)
      BY <1>0, <2>1, DeferredFirst
    <2>3. Head(deferred) \in Callers
      BY <1>0, <2>1
    <2>4. QED
      BY <2>1, <2>2, <2>3, RefineTake
  <1>2. CASE Receive
    <2>1. /\ worker = "recv" /\ chan # <<>> /\ chan' = Tail(chan) /\ deferred = <<>>
          /\ Take(Head(chan)) /\ UNCHANGED <<deferred, oneshot>>
      BY <1>2 DEF Receive
    <2>2. Tail(chan) \in Seq(Callers) /\ Head(chan) \in Callers
      BY <1>0, <2>1
    <2>3. Queue = chan /\ Queue' = Tail(chan)
      BY <1>0, <2>1, <2>2, ConcatEmptySeq DEF Queue
    <2>4. QED
      BY <2>1, <2>2, <2>3, RefineTake
  <1>3. CASE Gather
    BY <1>3, RefineGather
  <1>4. CASE CountCompleted \/ SendOutput \/ FailJob
    BY <1>4, RefineReply
  <1>5. CASE DrainNext
    BY <1>5, RefineDrain
  <1>6. CASE FinishDrain
    BY <1>6, RefineFinishDrain
  <1>7. CASE DropReceiver
    BY <1>7, RefineEnd
  <1>8. CASE Launch
    <2>1. /\ worker \in {"gather", "launch"} /\ worker' = "infer"
          /\ UNCHANGED <<chan, deferred, batch, acking, oneshot>>
      BY <1>8 DEF Launch
    <2>2. Queue' = Queue /\ Mode' = "running"
      BY <2>1, ModeWillBe DEF Queue
    <2>3. CASE worker = "launch"
      BY <2>1, <2>2, <2>3, ModeIs, StutterStep
    <2>4. CASE worker = "gather"
      <3>1. Elements(batch) \cup acking # {}
        <4>1. batch # <<>> /\ batch \in Seq(Requests)
          BY <1>0, <2>4 DEF BatchInv, Gathering, TypeOK
        <4>2. 1 \in DOMAIN batch
          BY <4>1
        <4>3. QED
          BY <4>2 DEF Elements
      <3>2. Service!RunBatch
        BY <2>1, <2>2, <2>4, <3>1, ModeIs DEF Service!RunBatch
      <3>3. QED
        BY <3>2 DEF Service!Next
    <2>5. QED
      BY <2>1, <2>3, <2>4
  <1>9. CASE RunBackend \/ CountFailed \/ DropGuard
    <2>1. UNCHANGED <<chan, deferred, batch, acking, oneshot>>
      BY <1>9 DEF RunBackend, CountFailed, DropGuard
    <2>2. Mode' = Mode
      <3>1. CASE RunBackend
        BY <3>1, ModeIs, ModeWillBe DEF RunBackend
      <3>2. CASE CountFailed
        BY <3>2 DEF CountFailed, Mode
      <3>3. CASE DropGuard
        BY <3>3, ModeIs, ModeWillBe DEF DropGuard
      <3>4. QED
        BY <1>9, <3>1, <3>2, <3>3
    <2>3. Queue' = Queue
      BY <2>1 DEF Queue
    <2>4. QED
      BY <2>1, <2>2, <2>3, StutterStep
  <1>10. CASE Panic
    <2>1. /\ worker = "infer" /\ worker' = "unwind"
          /\ UNCHANGED <<chan, deferred, batch, acking, oneshot>>
      BY <1>10 DEF Panic
    <2>2. Queue' = Queue /\ Mode = "running" /\ acking = {}
      BY <1>0, <2>1, ModeIs DEF Queue, HandsFree
    <2>3. CASE batch # <<>>
      BY <2>1, <2>2, <2>3, ModeWillBe, StutterStep
    <2>4. CASE batch = <<>>
      <3>1. Mode' = "draining" /\ Elements(batch) \cup acking = {}
        BY <2>1, <2>2, <2>4, ModeWillBe, EmptyElements
      <3>2. Service!NextBatch
        BY <2>1, <2>2, <3>1 DEF Service!NextBatch
      <3>3. QED
        BY <3>2 DEF Service!Next
    <2>5. QED
      BY <2>3, <2>4
  <1>11. CASE FinishBatch
    <2>1. /\ worker \in {"reply", "fail"} /\ batch = <<>> /\ worker' \in {"collect", "recv"}
          /\ UNCHANGED <<chan, deferred, batch, acking, oneshot>>
      BY <1>11 DEF FinishBatch
    <2>2. Queue' = Queue /\ Mode = "running" /\ Mode' \in {"forming", "draining"}
      BY <2>1, ModeIs, ModeWillBe DEF Queue
    <2>3. Elements(batch) \cup acking = {}
      BY <1>0, <2>1, EmptyElements DEF HandsFree
    <2>4. Service!NextBatch
      BY <2>1, <2>2, <2>3 DEF Service!NextBatch
    <2>5. QED
      BY <2>4 DEF Service!Next
  <1>12. CASE IdleCheck
    <2>1. /\ worker = "recv" /\ worker' = "collect" /\ deferred = <<>> /\ chan = <<>>
          /\ UNCHANGED <<chan, deferred, batch, acking, oneshot>>
      BY <1>12 DEF IdleCheck
    <2>2. /\ Queue' = Queue /\ Queue = <<>> /\ Mode = "forming" /\ Mode' = "draining"
          /\ Elements(batch) \cup acking = {}
      BY <1>0, <2>1, ChannelOnly, ModeIs, ModeWillBe, EmptyElements DEF Queue, HandsFree
    <2>3. Service!BeginDrain
      BY <2>1, <2>2 DEF Service!BeginDrain
    <2>4. QED
      BY <2>3 DEF Service!Next
  <1>13. CASE Collect
    <2>1. worker = "collect" /\ UNCHANGED <<batch, acking, oneshot>>
      BY <1>13 DEF Collect
    <2>2. Mode = "draining" /\ Mode' = "draining"
      BY <1>13, <2>1, ModeIs, ModeWillBe DEF Collect
    <2>3. Queue' = Queue
      <3>1. CASE chan # <<>>
        <4>1. deferred' = Append(deferred, Head(chan)) /\ chan' = Tail(chan)
          BY <1>13, <3>1 DEF Collect
        <4>2. QED
          BY <1>0, <3>1, <4>1, ConcatMove DEF Queue
      <3>2. CASE chan = <<>>
        BY <1>13, <3>2 DEF Collect, Queue
      <3>3. QED
        BY <3>1, <3>2
    <2>4. QED
      BY <2>1, <2>2, <2>3, StutterStep
  <1>14. QED
    BY <1>1, <1>2, <1>3, <1>4, <1>5, <1>6, <1>7, <1>8, <1>9, <1>10, <1>11, <1>12, <1>13
       DEF WorkerStep

\* The worker fails unseen, or ends idle when nobody can send to it any more.
LEMMA RefineOthers ==
    ASSUME CustodyInv, ServeInv, ServeInv', TypeOK',
           BackendFails \/ DropHandles \/ UNCHANGED vars
    PROVE  [Service!Next]_(Service!vars)
  <1>1. /\ UNCHANGED <<caller, outcome, chan, deferred, batch, acking, oneshot>>
        /\ \/ worker' = worker
           \/ worker = "recv" /\ worker' = "unwind" /\ chan = <<>> /\ deferred = <<>>
    BY DEF BackendFails, DropHandles, vars, workerVars, callerVars
  <1>2. Queue' = Queue /\ Admitted' = Admitted
    BY <1>1 DEF Queue, Admitted, Held
  <1>3. CASE worker' = worker
    <2>1. Mode' = Mode
      BY <1>1, <1>3 DEF Mode
    <2>2. QED
      BY <1>1, <1>2, <2>1, StutterStep
  <1>4. CASE worker = "recv" /\ worker' = "unwind" /\ chan = <<>> /\ deferred = <<>>
    <2>1. batch = <<>> /\ acking = {} /\ TypeOK
      BY <1>4 DEF CustodyInv, HandsFree
    <2>2. /\ Queue = <<>> /\ Mode = "forming" /\ Mode' = "draining"
          /\ Elements(batch) \cup acking = {}
      BY <1>1, <1>4, <2>1, ChannelOnly, ModeIs, ModeWillBe, EmptyElements
    <2>3. Service!BeginDrain
      BY <1>1, <1>2, <2>2 DEF Service!BeginDrain
    <2>4. QED
      BY <2>3 DEF Service!Next
  <1>5. QED
    BY <1>1, <1>3, <1>4

LEMMA RefineNext ==
    /\ CustodyInv /\ BatchInv /\ ServeInv
    /\ TypeOK' /\ ServeInv' /\ [Next]_vars
    => [Service!Next]_(Service!vars)
  <1> SUFFICES ASSUME CustodyInv, BatchInv, ServeInv, TypeOK', ServeInv', [Next]_vars
               PROVE  [Service!Next]_(Service!vars)
    OBVIOUS
  <1>1. CASE \E x \in Callers : CallStep(x)
    BY <1>1, RefineCalls
  <1>2. CASE WorkerStep
    BY <1>2, WorkerAdmits, RefineWorker
  <1>3. CASE BackendFails \/ DropHandles \/ UNCHANGED vars
    BY <1>3, RefineOthers
  <1>4. QED
    BY <1>1, <1>2, <1>3, StepCases DEF PollAgain, Ended

LEMMA RefineInit == Init => Service!Init
  <1> SUFFICES ASSUME Init PROVE Service!Init
    OBVIOUS
  <1>1. /\ chan = <<>> /\ deferred = <<>> /\ batch = <<>> /\ acking = {}
        /\ worker = "recv" /\ oneshot = [x \in Callers |-> "unset"]
        /\ \A x \in Callers : caller[x] = "new" /\ outcome[x] = "none"
    BY DEF Init
  <1>2. Queue = <<>>
    BY <1>1, ConcatEmptySeq DEF Queue
  <1>3. Admitted = {} /\ Elements(batch) \cup acking = {}
    BY <1>1, EmptyElements DEF Admitted, Held
  <1>4. Mode = "forming"
    BY <1>1, ModeIs
  <1>5. QED
    BY <1>1, <1>2, <1>3, <1>4 DEF Service!Init, Service!Callers, Callers

\* One worker implements TranslationService: its commands leave in the order they
\* entered, its batches are compatible and bounded, each command is admitted and
\* answered at most once, and whoever still waits at the end learns of it.
THEOREM WorkerIsTheService == Spec => ImplementsService
  <1>1. Init /\ [][Next]_vars => Service!Init /\ [][Service!Next]_(Service!vars)
    <2>1. TypeOK /\ [Next]_vars => TypeOK'
      BY TypeNext
    <2>2. CustodyInv => TypeOK
      BY DEF CustodyInv
    <2>3. QED
      BY <2>1, <2>2, RefineInit, RefineNext, ServeNext, CustodyCorrect, BatchCorrect,
         ServeCorrect, PTL
  <1>2. QED
    BY <1>1, PTL DEF Spec, HangingSpec, ImplementsService, Service!Spec

===============================================================================
