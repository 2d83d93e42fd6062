-------------------------------- MODULE Pool --------------------------------
(***************************************************************************)
(* A Translator with several workers (Translator::start_pool): how a call  *)
(* chooses its worker, what the pool answers when asked whether it is      *)
(* ready, and how shutdown() goes from worker to worker.                   *)
(*                                                                         *)
(* A worker is what Scheduler shows one to be, a queue that is answered in *)
(* order, as TranslationService states: here it answers, drains or fails   *)
(* in one step.  The counters and flags that the calls share are read and  *)
(* written one at a time, as the code does.                                *)
(***************************************************************************)
EXTENDS Integers, Sequences, FiniteSets

CONSTANTS N,             \* worker_count
          QueueCapacity, \* config.queue_capacity of the whole pool
          Calls,         \* calls of translate
          Stoppers,      \* calls of shutdown
          Probes         \* calls of is_ready

\* What start_pool checks.
ASSUME PoolAssumption ==
    /\ N \in Nat \ {0}
    /\ QueueCapacity \in Nat
    /\ N <= QueueCapacity

Workers == 0 .. N - 1

VARIABLES next,    \* Translator::next_worker
          pending, \* Inner::pending of each worker
          closed,  \* Inner::closed
          stopped, \* Inner::worker_stopped
          inbox,   \* what each worker has been sent and not answered
          call,    \* where each call of translate stands
          start,   \* the worker a call looks at first
          looked,  \* how many workers it has looked at
          best,    \* the least pending worker it has seen
          load,    \* and the count it saw there
          reply,   \* the reply slot of each call and each shutdown
          stopper, \* where each call of shutdown stands
          at,      \* the worker it has come to
          closer,  \* who closed each worker
          gaveUp,  \* shutdowns that stopped waiting for some worker
          probe,   \* where each call of is_ready stands
          asked,   \* how many workers it has found ready
          past     \* what was true when a call or a probe began

routing == <<next, start, looked, best, load>>
probing == <<probe, asked, past>>
stopping == <<stopper, at, closer, gaveUp>>
vars == <<routing, stopping, pending, closed, stopped, inbox, call, reply, probing>>

Ready == \A w \in Workers : ~closed[w] /\ ~stopped[w]

\* A call of shutdown sends each worker a command of its own.
Stops == Stoppers \X Workers

\* Calls, probes and the commands of shutdowns are different things, and the
\* callers of a run are finitely many.
ASSUME CallersAssumption ==
    /\ IsFiniteSet(Calls)
    /\ Calls \cap Probes = {}
    /\ Calls \cap Stops = {}

ShutDown == \E s \in Stoppers : stopper[s] = "done"

\* start_pool divides the capacity; the first workers take the remainder.
Share(w) == QueueCapacity \div N + (IF w < QueueCapacity % N THEN 1 ELSE 0)

Results == {"answered", "shuttingDown", "workerStopped", "queueFull", "timeout",
            "cancelled"}

\* Calls that hold a PendingGuard.
Guarded == {"entered", "open", "sent"}

Init ==
    /\ next = 0
    /\ pending = [w \in Workers |-> 0]
    /\ closed = [w \in Workers |-> FALSE]
    /\ stopped = [w \in Workers |-> FALSE]
    /\ inbox = [w \in Workers |-> <<>>]
    /\ call = [c \in Calls |-> "new"]
    /\ start = [c \in Calls |-> 0]
    /\ looked = [c \in Calls |-> 0]
    /\ best = [c \in Calls |-> 0]
    /\ load = [c \in Calls |-> 0]
    /\ reply = [x \in Calls \cup Stops |-> "unset"]
    /\ stopper = [s \in Stoppers |-> "new"]
    /\ at = [s \in Stoppers |-> 0]
    /\ closer = [w \in Workers |-> "nobody"]
    /\ gaveUp = {}
    /\ probe = [p \in Probes |-> "new"]
    /\ asked = [p \in Probes |-> 0]
    /\ past = [x \in Calls \cup Probes |-> FALSE]

-----------------------------------------------------------------------------
(* Choosing a worker: Translator::next_worker. *)

\* Mutants: each replaces the definition its comment names.

\* Of Cancel: the count is lowered at the end of the function, not by a guard.
CancelUnguarded(c) ==
    /\ call[c] \in {"open", "sent"}
    /\ call' = [call EXCEPT ![c] = "cancelled"]
    /\ UNCHANGED <<routing, stopping, pending, closed, stopped, inbox, reply, probing>>

\* The rotating counter gives the worker to look at first.
Begin(c) ==
    /\ call[c] = "new"
    /\ call' = [call EXCEPT ![c] = "looking"]
    /\ start' = [start EXCEPT ![c] = next % N]
    /\ next' = next + 1
    /\ past' = [past EXCEPT ![c] = ShutDown]
    /\ UNCHANGED <<looked, best, load, stopping, pending, closed, stopped, inbox,
                   reply, probe, asked>>

\* min_by_key loads one counter; of equal ones the first seen is kept.
Look(c) ==
    /\ call[c] = "looking"
    /\ looked[c] < N
    /\ LET w == (start[c] + looked[c]) % N
       IN  \/ /\ looked[c] = 0 \/ pending[w] < load[c]
              /\ best' = [best EXCEPT ![c] = w]
              /\ load' = [load EXCEPT ![c] = pending[w]]
           \/ /\ looked[c] > 0 /\ pending[w] >= load[c]
              /\ UNCHANGED <<best, load>>
    /\ looked' = [looked EXCEPT ![c] = @ + 1]
    /\ UNCHANGED <<next, start, stopping, pending, closed, stopped, inbox, call,
                   reply, probing>>

\* The call adds itself to the worker it has chosen.
Enter(c) ==
    /\ call[c] = "looking"
    /\ looked[c] = N
    /\ call' = [call EXCEPT ![c] = "entered"]
    /\ pending' = [pending EXCEPT ![best[c]] = @ + 1]
    /\ UNCHANGED <<routing, stopping, closed, stopped, inbox, reply, probing>>

-----------------------------------------------------------------------------
(* The rest of the call; Scheduler has its detail. *)

\* The call returns: PendingGuard is dropped with it.
Return(c, result) ==
    /\ call' = [call EXCEPT ![c] = result]
    /\ pending' = [pending EXCEPT ![best[c]] = @ - 1]

CheckFlags(c) ==
    /\ call[c] = "entered"
    /\ \/ closed[best[c]] /\ Return(c, "shuttingDown")
       \/ ~closed[best[c]] /\ stopped[best[c]] /\ Return(c, "workerStopped")
       \/ /\ ~closed[best[c]] /\ ~stopped[best[c]]
          /\ call' = [call EXCEPT ![c] = "open"]
          /\ UNCHANGED pending
    /\ UNCHANGED <<routing, stopping, closed, stopped, inbox, reply, probing>>

\* The command is sent, or refused: by a full queue at the deadline, by a
\* stopped worker at once.
Send(c) ==
    /\ call[c] = "open"
    /\ LET w == best[c]
       IN  \/ /\ ~stopped[w]
              /\ Len(inbox[w]) < Share(w)
              /\ inbox' = [inbox EXCEPT ![w] = Append(@, c)]
              /\ call' = [call EXCEPT ![c] = "sent"]
              /\ UNCHANGED pending
           \/ /\ ~stopped[w]
              /\ Len(inbox[w]) >= Share(w)
              /\ Return(c, "queueFull")
              /\ UNCHANGED inbox
           \/ /\ stopped[w]
              /\ Return(c, "workerStopped")
              /\ UNCHANGED inbox
    /\ UNCHANGED <<routing, stopping, closed, stopped, reply, probing>>

Receive(c) ==
    /\ call[c] = "sent"
    /\ \/ reply[c] \in {"ok", "error"} /\ Return(c, "answered")
       \/ reply[c] = "broken" /\ Return(c, "workerStopped")
       \/ reply[c] = "unset" /\ Return(c, "timeout")
    /\ UNCHANGED <<routing, stopping, closed, stopped, inbox, reply, probing>>

\* The client goes away at one of the two await points.
Cancel(c) ==
    /\ call[c] \in {"open", "sent"}
    /\ Return(c, "cancelled")
    /\ UNCHANGED <<routing, stopping, closed, stopped, inbox, reply, probing>>

-----------------------------------------------------------------------------
(* A worker. *)

\* The command at the head is answered: a job in a batch of its own.
Serve(w) ==
    /\ ~stopped[w]
    /\ inbox[w] # <<>>
    /\ Head(inbox[w]) \in Calls
    /\ inbox' = [inbox EXCEPT ![w] = Tail(@)]
    /\ \E answer \in {"ok", "error"} : reply' = [reply EXCEPT ![Head(inbox[w])] = answer]
    /\ UNCHANGED <<routing, stopping, pending, closed, stopped, call, probing>>

\* The worker ends with the jobs and shutdowns it still holds.
EndWith(w, held, acked) ==
    /\ reply' = [x \in Calls \cup Stops |->
                    IF x \in acked THEN "acked"
                    ELSE IF x \in held \cap Calls THEN "error"
                    ELSE IF x \in held THEN "broken"
                    ELSE reply[x]]
    /\ inbox' = [inbox EXCEPT ![w] = <<>>]
    /\ stopped' = [stopped EXCEPT ![w] = TRUE]

Held(w) == {inbox[w][i] : i \in DOMAIN inbox[w]}

\* A shutdown at the head: what is behind it is failed, then it is acknowledged.
Drain(w) ==
    /\ ~stopped[w]
    /\ inbox[w] # <<>>
    /\ Head(inbox[w]) \in Stops
    /\ EndWith(w, Held(w) \ {Head(inbox[w])}, {Head(inbox[w])})
    /\ UNCHANGED <<routing, stopping, pending, closed, call, probing>>

\* The worker's backend is not ready any more, or panics.
Fail(w) ==
    /\ ~stopped[w]
    /\ EndWith(w, Held(w), {})
    /\ UNCHANGED <<routing, stopping, pending, closed, call, probing>>

-----------------------------------------------------------------------------
(* Translator::shutdown. *)

\* Of Swap: a worker that somebody else has closed ends the loop.
SwapAndReturn(s) ==
    /\ stopper[s] = "looking"
    /\ at[s] < N
    /\ \/ /\ closed[at[s]]
          /\ stopper' = [stopper EXCEPT ![s] = "done"]
          /\ UNCHANGED <<closed, closer>>
       \/ /\ ~closed[at[s]]
          /\ closed' = [closed EXCEPT ![at[s]] = TRUE]
          /\ closer' = [closer EXCEPT ![at[s]] = s]
          /\ stopper' = [stopper EXCEPT ![s] = "sending"]
    /\ UNCHANGED <<routing, at, gaveUp, pending, stopped, inbox, call, reply, probing>>

\* Of SendStop: the shutdown does not wait for its acknowledgement.
SendStopAndGo(s) ==
    /\ stopper[s] = "sending"
    /\ stopper' = [stopper EXCEPT ![s] = "looking"]
    /\ at' = [at EXCEPT ![s] = @ + 1]
    /\ \/ ~stopped[at[s]] /\ inbox' = [inbox EXCEPT ![at[s]] = Append(@, <<s, at[s]>>)]
       \/ stopped[at[s]] /\ UNCHANGED inbox
    /\ UNCHANGED <<routing, closer, gaveUp, pending, closed, stopped, call, reply,
                   probing>>

\* Of GiveUp: nothing bounds the wait.
NeverGiveUp(s) == FALSE

BeginStop(s) ==
    /\ stopper[s] = "new"
    /\ stopper' = [stopper EXCEPT ![s] = "looking"]
    /\ UNCHANGED <<routing, at, closer, gaveUp, pending, closed, stopped, inbox, call,
                   reply, probing>>

\* The closed flag of the next worker is swapped; if it was set, it is skipped.
Swap(s) ==
    /\ stopper[s] = "looking"
    /\ at[s] < N
    /\ \/ /\ closed[at[s]]
          /\ at' = [at EXCEPT ![s] = @ + 1]
          /\ UNCHANGED <<stopper, closed, closer>>
       \/ /\ ~closed[at[s]]
          /\ closed' = [closed EXCEPT ![at[s]] = TRUE]
          /\ closer' = [closer EXCEPT ![at[s]] = s]
          /\ stopper' = [stopper EXCEPT ![s] = "sending"]
          /\ UNCHANGED at
    /\ UNCHANGED <<routing, gaveUp, pending, stopped, inbox, call, reply, probing>>

\* On to the next worker.
Advance(s) ==
    /\ stopper' = [stopper EXCEPT ![s] = "looking"]
    /\ at' = [at EXCEPT ![s] = @ + 1]

\* The shutdown command is sent, or the worker has gone.
SendStop(s) ==
    /\ stopper[s] = "sending"
    /\ LET w == at[s]
       IN  \/ /\ ~stopped[w] /\ Len(inbox[w]) < Share(w)
              /\ inbox' = [inbox EXCEPT ![w] = Append(@, <<s, at[s]>>)]
              /\ stopper' = [stopper EXCEPT ![s] = "waiting"]
              /\ UNCHANGED at
           \/ /\ stopped[w]
              /\ Advance(s)
              /\ UNCHANGED inbox
    /\ UNCHANGED <<routing, closer, gaveUp, pending, closed, stopped, call, reply,
                   probing>>

\* The worker has acknowledged, or dropped the command.
Acknowledged(s) ==
    /\ stopper[s] = "waiting"
    /\ reply[<<s, at[s]>>] # "unset"
    /\ Advance(s)
    /\ UNCHANGED <<routing, closer, gaveUp, pending, closed, stopped, inbox, call,
                   reply, probing>>

\* Five seconds pass with a full queue, or without an acknowledgement.
GiveUp(s) ==
    /\ \/ stopper[s] = "sending" /\ ~stopped[at[s]] /\ Len(inbox[at[s]]) >= Share(at[s])
       \/ stopper[s] = "waiting" /\ reply[<<s, at[s]>>] = "unset"
    /\ Advance(s)
    /\ gaveUp' = gaveUp \cup {s}
    /\ UNCHANGED <<routing, closer, pending, closed, stopped, inbox, call, reply,
                   probing>>

ReturnStop(s) ==
    /\ stopper[s] = "looking"
    /\ at[s] = N
    /\ stopper' = [stopper EXCEPT ![s] = "done"]
    /\ UNCHANGED <<routing, at, closer, gaveUp, pending, closed, stopped, inbox, call,
                   reply, probing>>

-----------------------------------------------------------------------------
(* Translator::is_ready. *)

\* Of AskWorker: one worker that serves is enough.
AskAny(p) ==
    /\ probe[p] = "asking"
    /\ \/ /\ asked[p] < N /\ ~closed[asked[p]] /\ ~stopped[asked[p]]
          /\ probe' = [probe EXCEPT ![p] = "yes"]
          /\ UNCHANGED asked
       \/ /\ asked[p] < N /\ (closed[asked[p]] \/ stopped[asked[p]])
          /\ asked' = [asked EXCEPT ![p] = @ + 1]
          /\ UNCHANGED probe
       \/ /\ asked[p] = N
          /\ probe' = [probe EXCEPT ![p] = "no"]
          /\ UNCHANGED asked
    /\ UNCHANGED <<routing, stopping, pending, closed, stopped, inbox, call, reply, past>>

BeginProbe(p) ==
    /\ probe[p] = "new"
    /\ probe' = [probe EXCEPT ![p] = "asking"]
    /\ past' = [past EXCEPT ![p] = Ready]
    /\ UNCHANGED <<routing, stopping, pending, closed, stopped, inbox, call, reply, asked>>

\* all(): the flags of the next worker decide, or it is the next one's turn.
AskWorker(p) ==
    /\ probe[p] = "asking"
    /\ \/ /\ asked[p] < N /\ ~closed[asked[p]] /\ ~stopped[asked[p]]
          /\ asked' = [asked EXCEPT ![p] = @ + 1]
          /\ UNCHANGED probe
       \/ /\ asked[p] < N /\ (closed[asked[p]] \/ stopped[asked[p]])
          /\ probe' = [probe EXCEPT ![p] = "no"]
          /\ UNCHANGED asked
       \/ /\ asked[p] = N
          /\ probe' = [probe EXCEPT ![p] = "yes"]
          /\ UNCHANGED asked
    /\ UNCHANGED <<routing, stopping, pending, closed, stopped, inbox, call, reply, past>>

-----------------------------------------------------------------------------
CallStep(c) == Look(c) \/ Enter(c) \/ CheckFlags(c) \/ Send(c) \/ Receive(c)

WorkerStep(w) == Serve(w) \/ Drain(w)

StopStep(s) ==
    Swap(s) \/ SendStop(s) \/ Acknowledged(s) \/ GiveUp(s) \/ ReturnStop(s)

\* Every call, shutdown and probe has returned.
AllReturned ==
    /\ \A c \in Calls : call[c] \in Results
    /\ \A s \in Stoppers : stopper[s] = "done"
    /\ \A p \in Probes : probe[p] \in {"yes", "no"}
    /\ UNCHANGED vars

Next ==
    \/ \E c \in Calls : Begin(c) \/ CallStep(c) \/ Cancel(c)
    \/ \E w \in Workers : WorkerStep(w) \/ Fail(w)
    \/ \E s \in Stoppers : BeginStop(s) \/ StopStep(s)
    \/ \E p \in Probes : BeginProbe(p) \/ AskWorker(p)
    \/ AllReturned

\* The runtime polls its tasks and its timers fire; a worker may hang for ever.
Spec ==
    /\ Init /\ [][Next]_vars
    /\ \A c \in Calls : WF_vars(CallStep(c))
    /\ \A s \in Stoppers : WF_vars(StopStep(s))

-----------------------------------------------------------------------------
(* Properties. *)

\* pending, which decides where calls go, counts the calls that are under way,
\* however they end: an answer, an early return, a timeout or a lost client.
PendingCountsCalls ==
    \A w \in Workers :
        pending[w] = Cardinality({c \in Calls : call[c] \in Guarded /\ best[c] = w})

\* After any shutdown has returned, also one that found the workers closed by
\* another, no later call is admitted by any worker; and one that did not run into
\* its time limits has ended every worker that it closed, with nothing that was
\* sent to one left unanswered.
ShutdownIsFinal ==
    /\ \A c \in Calls : past[c] => call[c] \in {"looking", "entered", "shuttingDown"}
    /\ \A s \in Stoppers : stopper[s] = "done" /\ s \notin gaveUp =>
           \A w \in Workers : closer[w] = s => stopped[w] /\ inbox[w] = <<>>

\* is_ready reads the workers one after another, yet it never answers yes for a
\* pool that was not ready when it was asked.
ReadinessIsNotStale == \A p \in Probes : probe[p] = "yes" => past[p]

\* A shutdown never waits for a worker, which may hang for ever with a full queue
\* or without an acknowledgement: whatever the workers do, its next step can be
\* taken, and each takes it nearer to the last worker.
ShutdownNeverStuck ==
    \A s \in Stoppers : stopper[s] \notin {"new", "done"} => ENABLED StopStep(s)

=============================================================================
