------------------------------ MODULE PoolProofs ------------------------------
(* What holds of a pool for every number of workers, capacity and set of      *)
(* calls, shutdowns and probes.                                               *)
EXTENDS Pool, FiniteSetTheorems, TLAPS

-----------------------------------------------------------------------------
(* Types. *)

CallStates == {"new", "looking"} \cup Guarded \cup Results

ReplyStates == {"unset", "ok", "error", "broken", "acked"}

StopperStates == {"new", "looking", "sending", "waiting", "done"}

\* A shutdown in one of these is still at work on the worker it has come to.
Engaged == {"sending", "waiting"}

PoolTypeOK ==
    /\ next \in Nat
    /\ pending \in [Workers -> Int]
    /\ closed \in [Workers -> BOOLEAN]
    /\ stopped \in [Workers -> BOOLEAN]
    /\ inbox \in [Workers -> Seq(Calls \cup Stops)]
    /\ call \in [Calls -> CallStates]
    /\ start \in [Calls -> Workers]
    /\ looked \in [Calls -> 0 .. N]
    /\ best \in [Calls -> Workers]
    /\ load \in [Calls -> Int]
    /\ reply \in [Calls \cup Stops -> ReplyStates]
    /\ stopper \in [Stoppers -> StopperStates]
    /\ at \in [Stoppers -> 0 .. N]
    /\ \A s \in Stoppers : stopper[s] \in Engaged => at[s] \in Workers
    /\ closer \in [Workers -> Stoppers \cup {"nobody"}]
    /\ gaveUp \subseteq Stoppers
    /\ probe \in [Probes -> {"new", "asking", "yes", "no"}]
    /\ asked \in [Probes -> 0 .. N]
    /\ \A p \in Probes : probe[p] = "new" => asked[p] = 0
    /\ past \in [Calls \cup Probes -> BOOLEAN]

-----------------------------------------------------------------------------
(* Lemmas on the constants. *)

\* The rotating counter, reduced by the number of workers, names a worker.
LEMMA ModWorker ==
    ASSUME NEW k \in Nat
    PROVE  k % N \in Workers
  BY PoolAssumption DEF Workers

LEMMA WorkerFacts ==
    /\ N \in Nat \ {0}
    /\ 0 \in Workers
    /\ \A w \in Workers : w \in Nat /\ w < N /\ w + 1 \in 0 .. N /\ w \in 0 .. N
    /\ \A k \in 0 .. N : k < N => k \in Workers
    /\ \A k \in 0 .. N : k \in Nat
  BY PoolAssumption DEF Workers

LEMMA StateNames ==
    /\ \A state \in {"new", "looking", "entered", "open", "sent", "shuttingDown",
                     "workerStopped", "queueFull", "answered", "timeout", "cancelled"} :
          state \in CallStates
    /\ \A state \in {"new", "looking", "sending", "waiting", "done"} :
          state \in StopperStates
    /\ \A state \in {"unset", "ok", "error", "broken", "acked"} : state \in ReplyStates
  BY DEF CallStates, Guarded, Results, StopperStates, ReplyStates

LEMMA TypeInit == Init => PoolTypeOK
  <1> SUFFICES ASSUME Init PROVE PoolTypeOK
    OBVIOUS
  <1>1. /\ next \in Nat
        /\ pending \in [Workers -> Int]
        /\ closed \in [Workers -> BOOLEAN]
        /\ stopped \in [Workers -> BOOLEAN]
        /\ inbox \in [Workers -> Seq(Calls \cup Stops)]
    BY DEF Init
  <1>2. /\ call \in [Calls -> CallStates]
        /\ start \in [Calls -> Workers]
        /\ looked \in [Calls -> 0 .. N]
        /\ best \in [Calls -> Workers]
        /\ load \in [Calls -> Int]
        /\ reply \in [Calls \cup Stops -> ReplyStates]
    BY WorkerFacts, StateNames DEF Init
  <1>3. /\ stopper \in [Stoppers -> StopperStates]
        /\ at \in [Stoppers -> 0 .. N]
        /\ \A s \in Stoppers : stopper[s] \notin Engaged
        /\ closer \in [Workers -> Stoppers \cup {"nobody"}]
        /\ gaveUp \subseteq Stoppers
    BY WorkerFacts, StateNames DEF Init, Engaged
  <1>4. /\ probe \in [Probes -> {"new", "asking", "yes", "no"}]
        /\ asked \in [Probes -> 0 .. N]
        /\ \A p \in Probes : asked[p] = 0
        /\ past \in [Calls \cup Probes -> BOOLEAN]
    BY WorkerFacts DEF Init
  <1>5. QED
    BY <1>1, <1>2, <1>3, <1>4 DEF PoolTypeOK

-----------------------------------------------------------------------------
(* What the steps of each kind leave alone. *)

CallAct(c) == Begin(c) \/ CallStep(c) \/ Cancel(c)
WorkerAct(w) == WorkerStep(w) \/ Fail(w)
StopAct(s) == BeginStop(s) \/ StopStep(s)
ProbeAct(p) == BeginProbe(p) \/ AskWorker(p)

\* A call of translate moves no flag, no shutdown, no probe and no reply.
LEMMA CallFrame ==
    ASSUME NEW c \in Calls, CallAct(c)
    PROVE  UNCHANGED <<stopper, at, closer, gaveUp, closed, stopped, reply, probe, asked>>
  BY DEF CallAct, CallStep, Begin, Look, Enter, CheckFlags, Send, Receive, Cancel,
         routing, stopping, probing

\* A worker moves only its inbox, the replies and its stopped flag.
LEMMA WorkerFrame ==
    ASSUME NEW w \in Workers, WorkerAct(w)
    PROVE  UNCHANGED <<next, start, looked, best, load, stopper, at, closer, gaveUp,
                       pending, closed, call, probe, asked, past>>
  BY DEF WorkerAct, WorkerStep, Serve, Drain, Fail, routing, stopping, probing

\* A shutdown moves no call, no probe, no counter, no reply and no stopped flag.
LEMMA StopFrame ==
    ASSUME NEW s \in Stoppers, StopAct(s)
    PROVE  UNCHANGED <<next, start, looked, best, load, pending, stopped, call, reply,
                       probe, asked, past>>
  BY DEF StopAct, StopStep, BeginStop, Swap, SendStop, Acknowledged, GiveUp, ReturnStop,
         routing, probing

\* A probe reads only.
LEMMA ProbeFrame ==
    ASSUME NEW p \in Probes, ProbeAct(p)
    PROVE  UNCHANGED <<next, start, looked, best, load, stopper, at, closer, gaveUp,
                       pending, closed, stopped, inbox, call, reply>>
  BY DEF ProbeAct, BeginProbe, AskWorker, routing, stopping

\* Every step is of one of these kinds, or changes nothing.
LEMMA StepKinds ==
    ASSUME [Next]_vars
    PROVE  \/ \E c \in Calls : CallAct(c)
           \/ \E w \in Workers : WorkerAct(w)
           \/ \E s \in Stoppers : StopAct(s)
           \/ \E p \in Probes : ProbeAct(p)
           \/ UNCHANGED vars
  BY DEF Next, AllReturned, CallAct, WorkerAct, StopAct, ProbeAct

-----------------------------------------------------------------------------
(* Types are kept. *)

LEMMA ReturnType ==
    ASSUME PoolTypeOK, NEW c \in Calls, NEW result \in CallStates, Return(c, result)
    PROVE  call' \in [Calls -> CallStates] /\ pending' \in [Workers -> Int]
  BY DEF PoolTypeOK, Return

LEMMA TypeCalls ==
    ASSUME PoolTypeOK, NEW c \in Calls, CallAct(c)
    PROVE  PoolTypeOK'
  <1>0. /\ next \in Nat /\ pending \in [Workers -> Int]
        /\ inbox \in [Workers -> Seq(Calls \cup Stops)]
        /\ call \in [Calls -> CallStates]
        /\ start \in [Calls -> Workers] /\ looked \in [Calls -> 0 .. N]
        /\ best \in [Calls -> Workers] /\ load \in [Calls -> Int]
        /\ past \in [Calls \cup Probes -> BOOLEAN]
    BY DEF PoolTypeOK
  <1>1. SUFFICES /\ next' \in Nat /\ pending' \in [Workers -> Int]
                 /\ inbox' \in [Workers -> Seq(Calls \cup Stops)]
                 /\ call' \in [Calls -> CallStates]
                 /\ start' \in [Calls -> Workers] /\ looked' \in [Calls -> 0 .. N]
                 /\ best' \in [Calls -> Workers] /\ load' \in [Calls -> Int]
                 /\ past' \in [Calls \cup Probes -> BOOLEAN]
    BY CallFrame DEF PoolTypeOK
  <1>2. CASE Begin(c)
    <2>1. next % N \in Workers /\ ShutDown \in BOOLEAN
      BY <1>0, ModWorker DEF ShutDown
    <2>2. start' \in [Calls -> Workers]
      BY <1>0, <1>2, <2>1 DEF Begin
    <2>3. past' \in [Calls \cup Probes -> BOOLEAN]
      BY <1>0, <1>2, <2>1 DEF Begin
    <2>4. QED
      BY <1>0, <1>2, <2>2, <2>3, StateNames DEF Begin
  <1>3. CASE Look(c)
    <2> DEFINE w == (start[c] + looked[c]) % N
    <2>1. start[c] + looked[c] \in Nat /\ looked[c] + 1 \in 0 .. N
      <3>1. start[c] \in Nat /\ looked[c] \in Nat /\ N \in Nat
        BY <1>0, WorkerFacts
      <3>2. QED
        BY <3>1, <1>3 DEF Look
    <2>2. w \in Workers
      BY <2>1, ModWorker
    <2>3. pending[w] \in Int
      BY <1>0, <2>2
    <2>4. best' \in [Calls -> Workers] /\ load' \in [Calls -> Int]
      BY <1>0, <1>3, <2>2, <2>3 DEF Look
    <2>5. looked' \in [Calls -> 0 .. N]
      BY <1>0, <1>3, <2>1 DEF Look
    <2>6. QED
      BY <1>0, <1>3, <2>4, <2>5 DEF Look, stopping, probing
  <1>4. CASE Enter(c)
    BY <1>0, <1>4, StateNames DEF Enter, routing, probing
  <1>5. CASE CheckFlags(c)
    <2>1. call' \in [Calls -> CallStates] /\ pending' \in [Workers -> Int]
      BY <1>0, <1>5, StateNames, ReturnType DEF CheckFlags
    <2>2. QED
      BY <1>0, <1>5, <2>1 DEF CheckFlags, routing, probing
  <1>6. CASE Send(c)
    <2>1. call' \in [Calls -> CallStates] /\ pending' \in [Workers -> Int]
      <3>1. \/ call' = [call EXCEPT ![c] = "sent"] /\ UNCHANGED pending
            \/ Return(c, "queueFull")
            \/ Return(c, "workerStopped")
        BY <1>6 DEF Send
      <3>2. QED
        BY <1>0, <3>1, StateNames, ReturnType
    <2>2. inbox' \in [Workers -> Seq(Calls \cup Stops)]
      <3>1. \A w \in Workers : Append(inbox[w], c) \in Seq(Calls \cup Stops)
        BY <1>0
      <3>2. \/ inbox' = [inbox EXCEPT ![best[c]] = Append(inbox[best[c]], c)]
            \/ inbox' = inbox
        BY <1>6 DEF Send
      <3>3. best[c] \in Workers
        BY <1>0
      <3>4. CASE inbox' = [inbox EXCEPT ![best[c]] = Append(inbox[best[c]], c)]
        BY <1>0, <3>1, <3>3, <3>4
      <3>5. QED
        BY <1>0, <3>2, <3>4
    <2>3. QED
      BY <1>0, <1>6, <2>1, <2>2 DEF Send, routing, probing
  <1>7. CASE Receive(c)
    <2>1. call' \in [Calls -> CallStates] /\ pending' \in [Workers -> Int]
      BY <1>0, <1>7, StateNames, ReturnType DEF Receive
    <2>2. QED
      BY <1>0, <1>7, <2>1 DEF Receive, routing, probing
  <1>8. CASE Cancel(c)
    <2>1. call' \in [Calls -> CallStates] /\ pending' \in [Workers -> Int]
      BY <1>0, <1>8, StateNames, ReturnType DEF Cancel
    <2>2. QED
      BY <1>0, <1>8, <2>1 DEF Cancel, routing, probing
  <1>9. QED
    BY <1>2, <1>3, <1>4, <1>5, <1>6, <1>7, <1>8 DEF CallAct, CallStep

LEMMA EndWithType ==
    ASSUME PoolTypeOK, NEW w \in Workers, NEW held, NEW acked, EndWith(w, held, acked)
    PROVE  /\ inbox' \in [Workers -> Seq(Calls \cup Stops)]
           /\ reply' \in [Calls \cup Stops -> ReplyStates]
           /\ stopped' \in [Workers -> BOOLEAN]
  <1>1. inbox' \in [Workers -> Seq(Calls \cup Stops)] /\ stopped' \in [Workers -> BOOLEAN]
    BY DEF PoolTypeOK, EndWith
  <1>2. reply' \in [Calls \cup Stops -> ReplyStates]
    BY StateNames DEF PoolTypeOK, EndWith
  <1>3. QED
    BY <1>1, <1>2

LEMMA TypeWorkers ==
    ASSUME PoolTypeOK, NEW w \in Workers, WorkerAct(w)
    PROVE  PoolTypeOK'
  <1>0. /\ inbox \in [Workers -> Seq(Calls \cup Stops)]
        /\ reply \in [Calls \cup Stops -> ReplyStates]
        /\ stopped \in [Workers -> BOOLEAN]
    BY DEF PoolTypeOK
  <1>1. SUFFICES /\ inbox' \in [Workers -> Seq(Calls \cup Stops)]
                 /\ reply' \in [Calls \cup Stops -> ReplyStates]
                 /\ stopped' \in [Workers -> BOOLEAN]
    BY WorkerFrame DEF PoolTypeOK
  <1>2. CASE Serve(w)
    <2>1. Tail(inbox[w]) \in Seq(Calls \cup Stops)
      BY <1>0, <1>2 DEF Serve
    <2>2. inbox' \in [Workers -> Seq(Calls \cup Stops)]
      BY <1>0, <1>2, <2>1 DEF Serve
    <2>3. reply' \in [Calls \cup Stops -> ReplyStates]
      BY <1>0, <1>2, StateNames DEF Serve
    <2>4. QED
      BY <1>0, <1>2, <2>2, <2>3 DEF Serve
  <1>3. CASE Drain(w) \/ Fail(w)
    BY <1>3, EndWithType DEF Drain, Fail
  <1>4. QED
    BY <1>2, <1>3 DEF WorkerAct, WorkerStep

\* A step of a shutdown either stays with the worker or goes to the next.
LEMMA AdvanceType ==
    ASSUME PoolTypeOK, NEW s \in Stoppers, Advance(s), at[s] \in Workers
    PROVE  /\ stopper' \in [Stoppers -> StopperStates]
           /\ at' \in [Stoppers -> 0 .. N]
           /\ \A t \in Stoppers : stopper'[t] \in Engaged => at'[t] \in Workers
  <1>1. at[s] + 1 \in 0 .. N
    BY WorkerFacts
  <1>2. stopper' \in [Stoppers -> StopperStates] /\ at' \in [Stoppers -> 0 .. N]
    BY <1>1, StateNames DEF PoolTypeOK, Advance
  <1>3. stopper'[s] \notin Engaged
    BY DEF PoolTypeOK, Advance, Engaged
  <1>4. \A t \in Stoppers \ {s} : stopper'[t] = stopper[t] /\ at'[t] = at[t]
    BY DEF PoolTypeOK, Advance
  <1>5. QED
    BY <1>2, <1>3, <1>4 DEF PoolTypeOK

LEMMA TypeStops ==
    ASSUME PoolTypeOK, NEW s \in Stoppers, StopAct(s)
    PROVE  PoolTypeOK'
  <1>0. /\ closed \in [Workers -> BOOLEAN]
        /\ inbox \in [Workers -> Seq(Calls \cup Stops)]
        /\ stopper \in [Stoppers -> StopperStates]
        /\ at \in [Stoppers -> 0 .. N]
        /\ \A t \in Stoppers : stopper[t] \in Engaged => at[t] \in Workers
        /\ closer \in [Workers -> Stoppers \cup {"nobody"}]
        /\ gaveUp \subseteq Stoppers
    BY DEF PoolTypeOK
  <1>1. SUFFICES /\ closed' \in [Workers -> BOOLEAN]
                 /\ inbox' \in [Workers -> Seq(Calls \cup Stops)]
                 /\ stopper' \in [Stoppers -> StopperStates]
                 /\ at' \in [Stoppers -> 0 .. N]
                 /\ \A t \in Stoppers : stopper'[t] \in Engaged => at'[t] \in Workers
                 /\ closer' \in [Workers -> Stoppers \cup {"nobody"}]
                 /\ gaveUp' \subseteq Stoppers
    BY StopFrame DEF PoolTypeOK
  <1>2. CASE BeginStop(s) \/ ReturnStop(s)
    <2>1. /\ stopper' \in [Stoppers -> StopperStates]
          /\ stopper'[s] \notin Engaged
          /\ \A t \in Stoppers \ {s} : stopper'[t] = stopper[t]
      BY <1>0, <1>2, StateNames DEF BeginStop, ReturnStop, Engaged
    <2>2. UNCHANGED <<closed, inbox, at, closer, gaveUp>>
      BY <1>2 DEF BeginStop, ReturnStop
    <2>3. QED
      BY <1>0, <2>1, <2>2
  <1>3. CASE Swap(s)
    <2>1. at[s] \in Workers /\ at[s] + 1 \in 0 .. N
      BY <1>0, <1>3, WorkerFacts DEF Swap
    <2>2. CASE closed[at[s]]
      <3>1. at' = [at EXCEPT ![s] = @ + 1] /\ UNCHANGED <<stopper, closed, closer, inbox, gaveUp>>
        BY <1>3, <2>2 DEF Swap
      <3>2. stopper[s] \notin Engaged
        BY <1>3 DEF Swap, Engaged
      <3>3. at' \in [Stoppers -> 0 .. N] /\ \A t \in Stoppers \ {s} : at'[t] = at[t]
        BY <1>0, <2>1, <3>1
      <3>4. QED
        BY <1>0, <3>1, <3>2, <3>3
    <2>3. CASE ~closed[at[s]]
      <3>1. /\ closed' = [closed EXCEPT ![at[s]] = TRUE]
            /\ closer' = [closer EXCEPT ![at[s]] = s]
            /\ stopper' = [stopper EXCEPT ![s] = "sending"]
            /\ UNCHANGED <<at, inbox, gaveUp>>
        BY <1>3, <2>3 DEF Swap
      <3>2. closed' \in [Workers -> BOOLEAN]
        BY <1>0, <3>1
      <3>3. closer' \in [Workers -> Stoppers \cup {"nobody"}]
        BY <1>0, <2>1, <3>1
      <3>4. /\ stopper' \in [Stoppers -> StopperStates]
            /\ \A t \in Stoppers \ {s} : stopper'[t] = stopper[t]
        BY <1>0, <3>1, StateNames
      <3>5. QED
        BY <1>0, <2>1, <3>1, <3>2, <3>3, <3>4
    <2>4. QED
      BY <2>2, <2>3
  <1>4. CASE SendStop(s)
    <2>1. at[s] \in Workers
      BY <1>0, <1>4 DEF SendStop, Engaged
    <2>2. CASE stopped[at[s]]
      <3>1. Advance(s) /\ UNCHANGED <<closed, inbox, closer, gaveUp>>
        BY <1>4, <2>2 DEF SendStop
      <3>2. QED
        BY <1>0, <2>1, <3>1, AdvanceType
    <2>3. CASE ~stopped[at[s]]
      <3>1. /\ inbox' = [inbox EXCEPT ![at[s]] = Append(inbox[at[s]], <<s, at[s]>>)]
            /\ stopper' = [stopper EXCEPT ![s] = "waiting"]
            /\ UNCHANGED <<closed, at, closer, gaveUp>>
        BY <1>4, <2>3 DEF SendStop
      <3>2. <<s, at[s]>> \in Stops
        BY <2>1 DEF Stops
      <3>3. Append(inbox[at[s]], <<s, at[s]>>) \in Seq(Calls \cup Stops)
        BY <1>0, <2>1, <3>2
      <3>4. inbox' \in [Workers -> Seq(Calls \cup Stops)]
        BY <1>0, <3>1, <3>3
      <3>5. /\ stopper' \in [Stoppers -> StopperStates]
            /\ \A t \in Stoppers \ {s} : stopper'[t] = stopper[t]
        BY <1>0, <3>1, StateNames
      <3>6. QED
        BY <1>0, <2>1, <3>1, <3>4, <3>5
    <2>4. QED
      BY <2>2, <2>3
  <1>5. CASE Acknowledged(s) \/ GiveUp(s)
    <2>1. at[s] \in Workers
      BY <1>0, <1>5 DEF Acknowledged, GiveUp, Engaged
    <2>2. Advance(s) /\ UNCHANGED <<closed, inbox, closer>>
      BY <1>5 DEF Acknowledged, GiveUp
    <2>3. gaveUp' \subseteq Stoppers
      BY <1>0, <1>5 DEF Acknowledged, GiveUp
    <2>4. QED
      BY <1>0, <2>1, <2>2, <2>3, AdvanceType
  <1>6. QED
    BY <1>2, <1>3, <1>4, <1>5 DEF StopAct, StopStep

LEMMA TypeProbes ==
    ASSUME PoolTypeOK, NEW p \in Probes, ProbeAct(p)
    PROVE  PoolTypeOK'
  <1>0. /\ probe \in [Probes -> {"new", "asking", "yes", "no"}]
        /\ asked \in [Probes -> 0 .. N]
        /\ \A q \in Probes : probe[q] = "new" => asked[q] = 0
        /\ past \in [Calls \cup Probes -> BOOLEAN]
    BY DEF PoolTypeOK
  <1>1. SUFFICES /\ probe' \in [Probes -> {"new", "asking", "yes", "no"}]
                 /\ asked' \in [Probes -> 0 .. N]
                 /\ \A q \in Probes : probe'[q] = "new" => asked'[q] = 0
                 /\ past' \in [Calls \cup Probes -> BOOLEAN]
    BY ProbeFrame DEF PoolTypeOK
  <1>2. CASE BeginProbe(p)
    <2>1. Ready \in BOOLEAN
      BY DEF Ready
    <2>2. past' \in [Calls \cup Probes -> BOOLEAN]
      BY <1>0, <1>2, <2>1 DEF BeginProbe
    <2>3. QED
      BY <1>0, <1>2, <2>2 DEF BeginProbe
  <1>3. CASE AskWorker(p)
    <2>1. asked[p] < N => asked[p] + 1 \in 0 .. N
      BY <1>0, WorkerFacts
    <2>2. probe' \in [Probes -> {"new", "asking", "yes", "no"}]
      BY <1>0, <1>3 DEF AskWorker
    <2>3. asked' \in [Probes -> 0 .. N]
      BY <1>0, <1>3, <2>1 DEF AskWorker
    <2>4. \A q \in Probes : probe'[q] = "new" => asked'[q] = 0
      BY <1>0, <1>3 DEF AskWorker
    <2>5. QED
      BY <1>0, <1>3, <2>2, <2>3, <2>4 DEF AskWorker
  <1>4. QED
    BY <1>2, <1>3 DEF ProbeAct

\* Every step of the pool keeps every variable in its type.
LEMMA TypeNext == PoolTypeOK /\ [Next]_vars => PoolTypeOK'
  <1> SUFFICES ASSUME PoolTypeOK, [Next]_vars PROVE PoolTypeOK'
    OBVIOUS
  <1>1. CASE UNCHANGED vars
    BY <1>1 DEF PoolTypeOK, vars, routing, stopping, probing
  <1>2. QED
    BY <1>1, StepKinds, TypeCalls, TypeWorkers, TypeStops, TypeProbes

\* Every variable of the pool keeps its type: the worker a call has chosen exists,
\* whatever the rotating counter stood at, and a shutdown that is at work on a
\* worker has not run past the last one.
THEOREM PoolTypeCorrect == Spec => []PoolTypeOK
  BY TypeInit, TypeNext, PTL DEF Spec

-----------------------------------------------------------------------------
(* The inductive invariant. *)

\* Behind a shutdown every worker is closed, so is the one it is at work on, and
\* it ends behind the last one.
ClosedBehind ==
    \A s \in Stoppers :
        /\ \A w \in Workers : w < at[s] => closed[w]
        /\ stopper[s] \in Engaged => closed[at[s]]
        /\ stopper[s] = "done" => at[s] = N

\* A closed worker's closer is still at work on it, or has gone on once the worker
\* had ended or the time limit had passed.
CloserStays ==
    \A w \in Workers, s \in Stoppers :
        closed[w] /\ closer[w] = s =>
            \/ at[s] = w /\ stopper[s] \in Engaged
            \/ w < at[s] /\ (s \in gaveUp \/ stopped[w])

\* Only a worker that has ended answers a shutdown.
OnlyTheEndedAnswer ==
    \A s \in Stoppers, w \in Workers : reply[<<s, w>>] # "unset" => stopped[w]

\* A worker that has ended holds nothing, and none holds another's command.
InboxIsOwn ==
    \A w \in Workers :
        /\ stopped[w] => inbox[w] = <<>>
        /\ \A i \in DOMAIN inbox[w] : inbox[w][i] \in Stops => inbox[w][i][2] = w

\* A call that came after a shutdown finds every worker closed, and gets no
\* further than the flags.
LateCallsFindClosed ==
    \A c \in Calls : past[c] => /\ \A w \in Workers : closed[w]
                                /\ call[c] \in {"looking", "entered", "shuttingDown"}

\* A probe that began with a worker down has that worker still before it.
DownIsAhead ==
    \A p \in Probes : ~past[p] =>
        /\ probe[p] # "yes"
        /\ probe[p] = "asking" =>
               \E w \in Workers : asked[p] <= w /\ (closed[w] \/ stopped[w])

PoolInv ==
    /\ PoolTypeOK
    /\ ClosedBehind
    /\ CloserStays
    /\ OnlyTheEndedAnswer
    /\ InboxIsOwn
    /\ LateCallsFindClosed
    /\ DownIsAhead

LEMMA InvInit == Init => PoolInv
  <1> SUFFICES ASSUME Init PROVE PoolInv
    OBVIOUS
  <1>1. PoolTypeOK
    BY TypeInit
  <1>2. ClosedBehind
    BY WorkerFacts DEF Init, ClosedBehind, Engaged
  <1>3. CloserStays
    BY DEF Init, CloserStays
  <1>4. OnlyTheEndedAnswer
    BY DEF Init, OnlyTheEndedAnswer, Stops
  <1>5. InboxIsOwn
    BY DEF Init, InboxIsOwn
  <1>6. LateCallsFindClosed
    BY DEF Init, LateCallsFindClosed
  <1>7. DownIsAhead
    BY DEF Init, DownIsAhead
  <1>8. QED
    BY <1>1, <1>2, <1>3, <1>4, <1>5, <1>6, <1>7 DEF PoolInv

\* A worker that has been closed or has ended stays so.
LEMMA FlagsOnlyRise ==
    ASSUME PoolTypeOK, [Next]_vars, NEW w \in Workers
    PROVE  (closed[w] => closed'[w]) /\ (stopped[w] => stopped'[w])
  <1>0. closed \in [Workers -> BOOLEAN] /\ stopped \in [Workers -> BOOLEAN]
    BY DEF PoolTypeOK
  <1>1. CASE UNCHANGED vars
    BY <1>1 DEF vars
  <1>2. CASE \E c \in Calls : CallAct(c)
    BY <1>2, CallFrame
  <1>3. CASE \E v \in Workers : WorkerAct(v)
    <2>1. PICK v \in Workers : WorkerAct(v)
      BY <1>3
    <2>2. UNCHANGED stopped \/ stopped' = [stopped EXCEPT ![v] = TRUE]
      BY <2>1 DEF WorkerAct, WorkerStep, Serve, Drain, Fail, EndWith
    <2>3. QED
      BY <1>0, <2>1, <2>2, WorkerFrame
  <1>4. CASE \E s \in Stoppers : StopAct(s)
    <2>1. PICK s \in Stoppers : StopAct(s)
      BY <1>4
    <2>2. UNCHANGED closed \/ closed' = [closed EXCEPT ![at[s]] = TRUE]
      BY <2>1 DEF StopAct, StopStep, BeginStop, Swap, SendStop, Acknowledged, GiveUp,
                  ReturnStop
    <2>3. QED
      BY <1>0, <2>1, <2>2, StopFrame
  <1>5. CASE \E p \in Probes : ProbeAct(p)
    BY <1>5, ProbeFrame
  <1>6. QED
    BY <1>1, <1>2, <1>3, <1>4, <1>5, StepKinds

-----------------------------------------------------------------------------
(* One lemma for each part of the invariant. *)

\* What a step of a shutdown does, with the facts its guard stands for.
Passes(s) ==
    /\ stopper[s] = "looking" /\ at[s] \in Workers /\ closed[at[s]]
    /\ at' = [at EXCEPT ![s] = @ + 1]
    /\ UNCHANGED <<stopper, closed, closer, gaveUp, inbox>>

Closes(s) ==
    /\ stopper[s] = "looking" /\ at[s] \in Workers /\ ~closed[at[s]]
    /\ closed' = [closed EXCEPT ![at[s]] = TRUE]
    /\ closer' = [closer EXCEPT ![at[s]] = s]
    /\ stopper' = [stopper EXCEPT ![s] = "sending"]
    /\ UNCHANGED <<at, gaveUp, inbox>>

Orders(s) ==
    /\ stopper[s] = "sending" /\ at[s] \in Workers /\ ~stopped[at[s]]
    /\ inbox' = [inbox EXCEPT ![at[s]] = Append(inbox[at[s]], <<s, at[s]>>)]
    /\ stopper' = [stopper EXCEPT ![s] = "waiting"]
    /\ UNCHANGED <<at, closed, closer, gaveUp>>

GoesOn(s) ==
    /\ stopper[s] \in Engaged /\ at[s] \in Workers /\ Advance(s)
    /\ \/ (stopped[at[s]] \/ reply[<<s, at[s]>>] # "unset") /\ UNCHANGED gaveUp
       \/ gaveUp' = gaveUp \cup {s}
    /\ UNCHANGED <<closed, closer, inbox>>

LEMMA StopSteps ==
    ASSUME PoolTypeOK, NEW s \in Stoppers, StopAct(s)
    PROVE  \/ BeginStop(s) \/ ReturnStop(s)
           \/ Passes(s) \/ Closes(s) \/ Orders(s) \/ GoesOn(s)
  <1>1. stopper[s] = "looking" /\ at[s] < N => at[s] \in Workers
    BY WorkerFacts DEF PoolTypeOK
  <1>2. stopper[s] \in Engaged => at[s] \in Workers
    BY DEF PoolTypeOK
  <1>3. CASE Swap(s)
    BY <1>1, <1>3 DEF Swap, Passes, Closes
  <1>4. CASE SendStop(s)
    BY <1>2, <1>4 DEF SendStop, Engaged, Orders, GoesOn
  <1>5. CASE Acknowledged(s)
    BY <1>2, <1>5 DEF Acknowledged, Engaged, GoesOn
  <1>6. CASE GiveUp(s)
    BY <1>2, <1>6 DEF GiveUp, Engaged, GoesOn
  <1>7. QED
    BY <1>3, <1>4, <1>5, <1>6 DEF StopAct, StopStep

\* A shutdown's step touches no other shutdown.
LEMMA StopsApart ==
    ASSUME PoolTypeOK, NEW s \in Stoppers, StopAct(s), NEW t \in Stoppers \ {s}
    PROVE  stopper'[t] = stopper[t] /\ at'[t] = at[t]
  <1>1. UNCHANGED stopper \/ \E q \in StopperStates : stopper' = [stopper EXCEPT ![s] = q]
    BY StopSteps, StateNames
       DEF BeginStop, ReturnStop, Passes, Closes, Orders, GoesOn, Advance
  <1>2. UNCHANGED at \/ at' = [at EXCEPT ![s] = at[s] + 1]
    BY StopSteps DEF BeginStop, ReturnStop, Passes, Closes, Orders, GoesOn, Advance
  <1>3. QED
    BY <1>1, <1>2 DEF PoolTypeOK

LEMMA ClosedBehindStep ==
    ASSUME PoolTypeOK, ClosedBehind, [Next]_vars
    PROVE  ClosedBehind'
  <1> SUFFICES ASSUME NEW s \in Stoppers
               PROVE  /\ \A w \in Workers : w < at'[s] => closed'[w]
                      /\ stopper'[s] \in Engaged => closed'[at'[s]]
                      /\ stopper'[s] = "done" => at'[s] = N
    BY DEF ClosedBehind
  <1>0. /\ closed \in [Workers -> BOOLEAN] /\ stopper \in [Stoppers -> StopperStates]
        /\ at \in [Stoppers -> 0 .. N]
        /\ stopper[s] \in Engaged => at[s] \in Workers /\ closed[at[s]]
        /\ \A w \in Workers : w < at[s] => closed[w]
        /\ stopper[s] = "done" => at[s] = N
    BY DEF PoolTypeOK, ClosedBehind
  <1>1. CASE at'[s] = at[s] /\ stopper'[s] = stopper[s]
    BY <1>0, <1>1, FlagsOnlyRise
  <1>2. ASSUME NEW t \in Stoppers, StopAct(t)
        PROVE  /\ \A w \in Workers : w < at'[s] => closed'[w]
               /\ stopper'[s] \in Engaged => closed'[at'[s]]
               /\ stopper'[s] = "done" => at'[s] = N
    <2>1. CASE t # s
      BY <1>1, <1>2, <2>1, StopsApart
    <2>2. CASE t = s /\ (BeginStop(s) \/ ReturnStop(s))
      BY <1>0, <2>2 DEF BeginStop, ReturnStop, Engaged
    <2>3. CASE t = s /\ (Passes(s) \/ GoesOn(s))
      <3>1. /\ at[s] \in Workers /\ closed[at[s]] /\ closed' = closed
            /\ at' = [at EXCEPT ![s] = at[s] + 1]
            /\ stopper'[s] = "looking"
        BY <1>0, <2>3 DEF Passes, GoesOn, Advance
      <3>2. at'[s] = at[s] + 1
        BY <1>0, <3>1
      <3>3. \A w \in Workers : w < at'[s] => w < at[s] \/ w = at[s]
        BY <3>1, <3>2, WorkerFacts
      <3>4. QED
        BY <1>0, <3>1, <3>3 DEF Engaged
    <2>4. CASE t = s /\ (Closes(s) \/ Orders(s))
      <3>1. /\ at[s] \in Workers /\ at' = at
            /\ stopper'[s] # "done"
        BY <1>0, <2>4 DEF Closes, Orders
      <3>2. closed'[at[s]]
        BY <1>0, <2>4 DEF Closes, Orders, Engaged
      <3>3. QED
        BY <1>0, <3>1, <3>2, FlagsOnlyRise
    <2>5. QED
      BY <1>2, <2>1, <2>2, <2>3, <2>4, StopSteps
  <1>3. QED
    BY <1>1, <1>2, StepKinds, CallFrame, WorkerFrame, ProbeFrame DEF vars, stopping

LEMMA CloserStaysStep ==
    ASSUME PoolTypeOK, CloserStays, OnlyTheEndedAnswer, [Next]_vars
    PROVE  CloserStays'
  <1> SUFFICES ASSUME NEW w \in Workers, NEW s \in Stoppers, closed'[w], closer'[w] = s
               PROVE  \/ at'[s] = w /\ stopper'[s] \in Engaged
                      \/ w < at'[s] /\ (s \in gaveUp' \/ stopped'[w])
    BY DEF CloserStays
  <1> DEFINE Goal == \/ at'[s] = w /\ stopper'[s] \in Engaged
                     \/ w < at'[s] /\ (s \in gaveUp' \/ stopped'[w])
  <1>0. /\ closed \in [Workers -> BOOLEAN] /\ stopper \in [Stoppers -> StopperStates]
        /\ at \in [Stoppers -> 0 .. N]
        /\ closer \in [Workers -> Stoppers \cup {"nobody"}]
        /\ closed[w] /\ closer[w] = s =>
            \/ at[s] = w /\ stopper[s] \in Engaged
            \/ w < at[s] /\ (s \in gaveUp \/ stopped[w])
        /\ stopped[w] => stopped'[w]
    BY FlagsOnlyRise DEF PoolTypeOK, CloserStays
  <1>1. CASE UNCHANGED <<stopper, at, closer, closed, gaveUp>>
    BY <1>0, <1>1
  <1>2. ASSUME NEW t \in Stoppers, StopAct(t) PROVE Goal
    <2>1. gaveUp \subseteq gaveUp'
      BY <1>2, StopSteps
         DEF BeginStop, ReturnStop, Passes, Closes, Orders, GoesOn
    <2>2. CASE t # s
      <3>1. closed[w] /\ closer[w] = s
        BY <1>0, <1>2, <2>2, StopSteps
           DEF BeginStop, ReturnStop, Passes, Closes, Orders, GoesOn
      <3>2. QED
        BY <1>0, <1>2, <2>1, <2>2, <3>1, StopsApart
    <2>3. CASE t = s /\ BeginStop(s)
      BY <1>0, <2>3 DEF BeginStop, Engaged
    <2>4. CASE t = s /\ ReturnStop(s)
      BY <1>0, <2>4 DEF ReturnStop, Engaged
    <2>5. CASE t = s /\ Passes(s)
      <3>1. at'[s] = at[s] + 1 /\ at[s] \in Int /\ w \in Int
        BY <1>0, <2>5, WorkerFacts DEF Passes
      <3>2. w < at[s] /\ (s \in gaveUp \/ stopped[w])
        BY <1>0, <2>5 DEF Passes, Engaged
      <3>3. QED
        BY <1>0, <2>1, <3>1, <3>2
    <2>6. CASE t = s /\ GoesOn(s)
      <3>1. at'[s] = at[s] + 1 /\ at[s] \in Int /\ w \in Int
        BY <1>0, <2>6, WorkerFacts DEF GoesOn, Advance
      <3>2. closed[w] /\ closer[w] = s
        BY <2>6 DEF GoesOn
      <3>3. CASE w < at[s]
        BY <1>0, <2>1, <3>1, <3>2, <3>3
      <3>4. CASE w = at[s]
        <4>1. s \in gaveUp' \/ stopped[w]
          BY <2>6, <3>4 DEF GoesOn, OnlyTheEndedAnswer
        <4>2. QED
          BY <1>0, <3>1, <3>4, <4>1
      <3>5. QED
        BY <1>0, <3>2, <3>3, <3>4
    <2>7. CASE t = s /\ Closes(s)
      <3>1. at' = at /\ stopper'[s] = "sending"
        BY <1>0, <2>7 DEF Closes
      <3>2. CASE w = at[s]
        BY <3>1, <3>2 DEF Engaged
      <3>3. CASE w # at[s]
        <4>1. closed[w] /\ closer[w] = s
          BY <1>0, <2>7, <3>3 DEF Closes
        <4>2. QED
          BY <1>0, <2>1, <2>7, <3>1, <3>3, <4>1 DEF Engaged, Closes
      <3>4. QED
        BY <3>2, <3>3
    <2>8. CASE t = s /\ Orders(s)
      BY <1>0, <2>8 DEF Orders, Engaged
    <2>9. QED
      BY <1>2, <2>2, <2>3, <2>4, <2>5, <2>6, <2>7, <2>8, StopSteps
  <1>3. QED
    BY <1>1, <1>2, StepKinds, CallFrame, WorkerFrame, ProbeFrame DEF vars, stopping

LEMMA OnlyTheEndedAnswerStep ==
    ASSUME PoolTypeOK, OnlyTheEndedAnswer, InboxIsOwn, [Next]_vars
    PROVE  OnlyTheEndedAnswer'
  <1> SUFFICES ASSUME NEW s \in Stoppers, NEW v \in Workers, reply'[<<s, v>>] # "unset"
               PROVE  stopped'[v]
    BY DEF OnlyTheEndedAnswer
  <1>0. /\ <<s, v>> \in Stops /\ <<s, v>> \notin Calls
        /\ reply \in [Calls \cup Stops -> ReplyStates]
        /\ stopped \in [Workers -> BOOLEAN]
    BY CallersAssumption DEF PoolTypeOK, Stops
  <1>1. CASE reply'[<<s, v>>] = reply[<<s, v>>]
    BY <1>1, FlagsOnlyRise DEF OnlyTheEndedAnswer
  <1>2. ASSUME NEW w \in Workers, WorkerAct(w) PROVE stopped'[v]
    <2>1. CASE Serve(w)
      BY <1>0, <1>1, <2>1 DEF Serve
    <2>2. ASSUME NEW held, NEW acked, EndWith(w, held, acked),
                 held \cup acked \subseteq Held(w)
          PROVE  stopped'[v]
      <3>1. CASE <<s, v>> \in Held(w)
        <4>1. v = w
          BY <1>0, <3>1 DEF Held, InboxIsOwn
        <4>2. QED
          BY <1>0, <2>2, <4>1 DEF EndWith
      <3>2. CASE <<s, v>> \notin Held(w)
        <4>1. <<s, v>> \notin held /\ <<s, v>> \notin acked
          BY <2>2, <3>2
        <4>2. reply'[<<s, v>>] = reply[<<s, v>>]
          BY <1>0, <2>2, <4>1 DEF EndWith
        <4>3. QED
          BY <1>1, <4>2
      <3>3. QED
        BY <3>1, <3>2
    <2>3. CASE Drain(w)
      <3>1. Head(inbox[w]) \in Held(w)
        <4>1. inbox[w] \in Seq(Calls \cup Stops) /\ inbox[w] # <<>>
          BY <2>3 DEF Drain, PoolTypeOK
        <4>2. 1 \in DOMAIN inbox[w] /\ Head(inbox[w]) = inbox[w][1]
          BY <4>1
        <4>3. QED
          BY <4>2 DEF Held
      <3>2. EndWith(w, Held(w) \ {Head(inbox[w])}, {Head(inbox[w])})
        BY <2>3 DEF Drain
      <3>3. QED
        BY <2>2, <3>1, <3>2
    <2>4. CASE Fail(w)
      <3>1. EndWith(w, Held(w), {})
        BY <2>4 DEF Fail
      <3>2. QED
        BY <2>2, <3>1
    <2>5. QED
      BY <1>2, <2>1, <2>3, <2>4 DEF WorkerAct, WorkerStep
  <1>3. QED
    BY <1>1, <1>2, StepKinds, CallFrame, StopFrame, ProbeFrame DEF vars

\* What a command appended to an inbox leaves there.
LEMMA AppendInbox ==
    ASSUME PoolTypeOK, InboxIsOwn, NEW w \in Workers, NEW x \in Calls \cup Stops,
           ~stopped[w], x \in Stops => x[2] = w, UNCHANGED stopped,
           inbox' = [inbox EXCEPT ![w] = Append(inbox[w], x)]
    PROVE  InboxIsOwn'
  <1> SUFFICES ASSUME NEW v \in Workers
               PROVE  /\ stopped'[v] => inbox'[v] = <<>>
                      /\ \A i \in DOMAIN inbox'[v] :
                            inbox'[v][i] \in Stops => inbox'[v][i][2] = v
    BY DEF InboxIsOwn
  <1>0. /\ inbox \in [Workers -> Seq(Calls \cup Stops)]
        /\ stopped[v] => inbox[v] = <<>>
        /\ \A i \in DOMAIN inbox[v] : inbox[v][i] \in Stops => inbox[v][i][2] = v
    BY DEF PoolTypeOK, InboxIsOwn
  <1>1. CASE v # w
    BY <1>0, <1>1
  <1>2. CASE v = w
    <2>1. inbox[v] \in Seq(Calls \cup Stops) /\ inbox'[v] = Append(inbox[v], x)
      BY <1>0, <1>2
    <2>2. \A i \in DOMAIN inbox'[v] :
             inbox'[v][i] = x \/ (i \in DOMAIN inbox[v] /\ inbox'[v][i] = inbox[v][i])
      BY <2>1
    <2>3. QED
      BY <1>0, <1>2, <2>2
  <1>3. QED
    BY <1>1, <1>2

LEMMA InboxIsOwnStep ==
    ASSUME PoolTypeOK, InboxIsOwn, [Next]_vars
    PROVE  InboxIsOwn'
  <1>0. /\ inbox \in [Workers -> Seq(Calls \cup Stops)]
        /\ stopped \in [Workers -> BOOLEAN]
    BY DEF PoolTypeOK
  <1>1. CASE UNCHANGED <<inbox, stopped>>
    BY <1>1 DEF InboxIsOwn
  <1>2. ASSUME NEW c \in Calls, CallAct(c) PROVE InboxIsOwn'
    <2>1. \/ UNCHANGED inbox
          \/ ~stopped[best[c]]
             /\ inbox' = [inbox EXCEPT ![best[c]] = Append(inbox[best[c]], c)]
      BY <1>2 DEF CallAct, CallStep, Begin, Look, Enter, CheckFlags, Send, Receive, Cancel
    <2>2. best[c] \in Workers /\ c \notin Stops
      BY CallersAssumption DEF PoolTypeOK
    <2>3. UNCHANGED stopped
      BY <1>2, CallFrame
    <2>4. QED
      BY <1>1, <2>1, <2>2, <2>3, AppendInbox
  <1>3. ASSUME NEW w \in Workers, WorkerAct(w) PROVE InboxIsOwn'
    <2>1. CASE Serve(w)
      <3>1. inbox' = [inbox EXCEPT ![w] = Tail(inbox[w])] /\ UNCHANGED stopped
        BY <2>1 DEF Serve
      <3>2. inbox[w] \in Seq(Calls \cup Stops) /\ inbox[w] # <<>> /\ ~stopped[w]
        BY <1>0, <2>1 DEF Serve
      <3>3. \A i \in DOMAIN Tail(inbox[w]) :
               i + 1 \in DOMAIN inbox[w] /\ Tail(inbox[w])[i] = inbox[w][i + 1]
        BY <3>2
      <3>4. \A i \in DOMAIN inbox'[w] : inbox'[w][i] \in Stops => inbox'[w][i][2] = w
        BY <1>0, <3>1, <3>3 DEF InboxIsOwn
      <3>5. \A v \in Workers \ {w} : inbox'[v] = inbox[v]
        BY <1>0, <3>1
      <3>6. QED
        BY <3>1, <3>2, <3>4, <3>5 DEF InboxIsOwn
    <2>2. CASE Drain(w) \/ Fail(w)
      <3>1. /\ inbox' = [inbox EXCEPT ![w] = <<>>]
            /\ stopped' = [stopped EXCEPT ![w] = TRUE]
        BY <2>2 DEF Drain, Fail, EndWith
      <3>2. inbox'[w] = <<>> /\ DOMAIN inbox'[w] = {}
        BY <1>0, <3>1
      <3>3. \A v \in Workers \ {w} : inbox'[v] = inbox[v] /\ stopped'[v] = stopped[v]
        BY <1>0, <3>1
      <3>4. QED
        BY <3>2, <3>3 DEF InboxIsOwn
    <2>3. QED
      BY <1>3, <2>1, <2>2 DEF WorkerAct, WorkerStep
  <1>4. ASSUME NEW s \in Stoppers, StopAct(s) PROVE InboxIsOwn'
    <2>1. UNCHANGED stopped
      BY <1>4, StopFrame
    <2>2. CASE Orders(s)
      <3>1. at[s] \in Workers /\ <<s, at[s]>> \in Stops
        BY <2>2 DEF Orders, Stops
      <3>2. /\ ~stopped[at[s]] /\ <<s, at[s]>>[2] = at[s]
            /\ inbox' = [inbox EXCEPT ![at[s]] = Append(inbox[at[s]], <<s, at[s]>>)]
        BY <2>2 DEF Orders
      <3>3. QED
        BY <2>1, <3>1, <3>2, AppendInbox
    <2>3. CASE ~Orders(s)
      <3>1. UNCHANGED inbox
        BY <1>4, <2>3, StopSteps DEF BeginStop, ReturnStop, Passes, Closes, GoesOn
      <3>2. QED
        BY <1>1, <2>1, <3>1
    <2>4. QED
      BY <2>2, <2>3
  <1>5. QED
    BY <1>1, <1>2, <1>3, <1>4, StepKinds, ProbeFrame DEF vars

LEMMA LateCallsFindClosedStep ==
    ASSUME PoolTypeOK, ClosedBehind, LateCallsFindClosed, [Next]_vars
    PROVE  LateCallsFindClosed'
  <1> DEFINE Refused == {"looking", "entered", "shuttingDown"}
  <1> SUFFICES ASSUME NEW c \in Calls, past'[c]
               PROVE  (\A w \in Workers : closed'[w]) /\ call'[c] \in Refused
    BY DEF LateCallsFindClosed
  <1>0. /\ call \in [Calls -> CallStates] /\ best \in [Calls -> Workers]
        /\ past \in [Calls \cup Probes -> BOOLEAN]
        /\ past[c] => (\A w \in Workers : closed[w]) /\ call[c] \in Refused
    BY DEF PoolTypeOK, LateCallsFindClosed
  <1>1. CASE past'[c] = past[c] /\ call'[c] = call[c]
    BY <1>0, <1>1, FlagsOnlyRise
  <1>2. ASSUME NEW d \in Calls, CallAct(d)
        PROVE  (\A w \in Workers : closed'[w]) /\ call'[c] \in Refused
    <2>0. UNCHANGED closed
      BY <1>2, CallFrame
    <2>1. CASE Begin(d)
      <3>1. past' = [past EXCEPT ![d] = ShutDown] /\ call' = [call EXCEPT ![d] = "looking"]
        BY <2>1 DEF Begin
      <3>2. CASE d # c
        BY <1>0, <1>1, <3>1, <3>2
      <3>3. CASE d = c
        <4>1. ShutDown /\ call'[c] = "looking"
          BY <1>0, <3>1, <3>3
        <4>2. PICK s \in Stoppers : stopper[s] = "done"
          BY <4>1 DEF ShutDown
        <4>3. \A w \in Workers : closed[w]
          BY <4>2, WorkerFacts DEF ClosedBehind
        <4>4. QED
          BY <2>0, <4>1, <4>3
      <3>4. QED
        BY <3>2, <3>3
    <2>2. CASE ~Begin(d)
      <3>1. UNCHANGED past
        BY <1>2, <2>2 DEF CallAct, CallStep, Look, Enter, CheckFlags, Send, Receive, Cancel,
                          probing
      <3>2. past[c] /\ (\A w \in Workers : closed[w]) /\ call[c] \in Refused
        BY <1>0, <3>1
      <3>3. CASE d # c
        <4>1. UNCHANGED call \/ \E q \in CallStates : call' = [call EXCEPT ![d] = q]
          BY <1>2, <2>2, StateNames DEF CallAct, CallStep, Look, Enter, CheckFlags, Send,
                                        Receive, Cancel, Return
        <4>2. QED
          BY <1>0, <1>1, <3>1, <3>3, <4>1
      <3>4. CASE d = c
        <4>1. \/ UNCHANGED call
              \/ call' = [call EXCEPT ![c] = "entered"]
              \/ call' = [call EXCEPT ![c] = "shuttingDown"]
          <5>1. closed[best[c]]
            BY <1>0, <3>2
          <5>2. call[c] \notin {"open", "sent"}
            BY <3>2
          <5>3. Look(c) \/ Enter(c) \/ CheckFlags(c)
            BY <1>2, <2>2, <3>4, <5>2 DEF CallAct, CallStep, Send, Receive, Cancel
          <5>4. QED
            BY <5>1, <5>3 DEF Look, Enter, CheckFlags, Return
        <4>2. QED
          BY <1>0, <2>0, <3>2, <4>1
      <3>5. QED
        BY <3>3, <3>4
    <2>3. QED
      BY <2>1, <2>2
  <1>3. ASSUME NEW p \in Probes, ProbeAct(p) PROVE past'[c] = past[c] /\ call'[c] = call[c]
    <2>1. c # p
      BY CallersAssumption
    <2>2. UNCHANGED past \/ past' = [past EXCEPT ![p] = Ready]
      BY <1>3 DEF ProbeAct, BeginProbe, AskWorker
    <2>3. QED
      BY <1>0, <1>3, <2>1, <2>2, ProbeFrame
  <1>4. QED
    BY <1>1, <1>2, <1>3, StepKinds, WorkerFrame, StopFrame DEF vars, probing

LEMMA DownIsAheadStep ==
    ASSUME PoolTypeOK, DownIsAhead, [Next]_vars
    PROVE  DownIsAhead'
  <1> SUFFICES ASSUME NEW p \in Probes, ~past'[p]
               PROVE  /\ probe'[p] # "yes"
                      /\ probe'[p] = "asking" => \E w \in Workers :
                             asked'[p] <= w /\ (closed'[w] \/ stopped'[w])
    BY DEF DownIsAhead
  <1>0. /\ probe \in [Probes -> {"new", "asking", "yes", "no"}]
        /\ asked \in [Probes -> 0 .. N]
        /\ past \in [Calls \cup Probes -> BOOLEAN]
        /\ ~past[p] => /\ probe[p] # "yes"
                       /\ probe[p] = "asking" => \E w \in Workers :
                              asked[p] <= w /\ (closed[w] \/ stopped[w])
    BY DEF PoolTypeOK, DownIsAhead
  <1>1. CASE past'[p] = past[p] /\ probe'[p] = probe[p] /\ asked'[p] = asked[p]
    BY <1>0, <1>1, FlagsOnlyRise
  <1>2. ASSUME NEW c \in Calls, CallAct(c)
        PROVE  past'[p] = past[p] /\ probe'[p] = probe[p] /\ asked'[p] = asked[p]
    <2>1. c # p
      BY CallersAssumption
    <2>2. UNCHANGED past \/ past' = [past EXCEPT ![c] = ShutDown]
      BY <1>2 DEF CallAct, CallStep, Begin, Look, Enter, CheckFlags, Send, Receive, Cancel,
                  probing
    <2>3. QED
      BY <1>0, <1>2, <2>1, <2>2, CallFrame
  <1>3. ASSUME NEW q \in Probes, ProbeAct(q)
        PROVE  /\ probe'[p] # "yes"
               /\ probe'[p] = "asking" => \E w \in Workers :
                      asked'[p] <= w /\ (closed'[w] \/ stopped'[w])
    <2>0. UNCHANGED <<closed, stopped>>
      BY <1>3, ProbeFrame
    <2>1. CASE BeginProbe(q)
      <3>1. /\ probe' = [probe EXCEPT ![q] = "asking"]
            /\ past' = [past EXCEPT ![q] = Ready]
            /\ UNCHANGED asked
        BY <2>1 DEF BeginProbe
      <3>2. CASE q # p
        BY <1>0, <1>1, <3>1, <3>2
      <3>3. CASE q = p
        <4>1. ~Ready /\ probe'[p] = "asking"
          BY <1>0, <3>1, <3>3
        <4>2. PICK w \in Workers : closed[w] \/ stopped[w]
          BY <4>1 DEF Ready
        <4>3. asked[p] <= w
          BY <2>1, <3>3, WorkerFacts DEF BeginProbe, PoolTypeOK
        <4>4. QED
          BY <2>0, <3>1, <4>1, <4>2, <4>3
      <3>4. QED
        BY <3>2, <3>3
    <2>2. CASE AskWorker(q)
      <3>1. UNCHANGED past
        BY <2>2 DEF AskWorker
      <3>2. CASE q # p
        <4>1. probe'[p] = probe[p] /\ asked'[p] = asked[p]
          BY <1>0, <2>2, <3>2 DEF AskWorker
        <4>2. QED
          BY <1>1, <3>1, <4>1
      <3>3. CASE q = p
        <4>1. PICK w \in Workers : asked[p] <= w /\ (closed[w] \/ stopped[w])
          BY <1>0, <2>2, <3>1, <3>3 DEF AskWorker
        <4>2. asked[p] # N /\ asked[p] \in Nat /\ w \in Nat
          BY <1>0, <4>1, WorkerFacts
        <4>3. CASE ~closed[asked[p]] /\ ~stopped[asked[p]]
          <5>1. asked'[p] = asked[p] + 1 /\ probe'[p] = "asking"
            BY <1>0, <2>2, <3>3, <4>2, <4>3 DEF AskWorker
          <5>2. asked[p] # w
            BY <4>1, <4>3
          <5>3. QED
            BY <2>0, <4>1, <4>2, <5>1, <5>2
        <4>4. CASE closed[asked[p]] \/ stopped[asked[p]]
          BY <1>0, <2>2, <3>3, <4>2, <4>4 DEF AskWorker
        <4>5. QED
          BY <4>3, <4>4
      <3>4. QED
        BY <3>2, <3>3
    <2>3. QED
      BY <1>3, <2>1, <2>2 DEF ProbeAct
  <1>4. QED
    BY <1>1, <1>2, <1>3, StepKinds, WorkerFrame, StopFrame DEF vars, probing

LEMMA InvNext == PoolInv /\ [Next]_vars => PoolInv'
  <1> SUFFICES ASSUME PoolInv, [Next]_vars PROVE PoolInv'
    OBVIOUS
  <1>1. PoolTypeOK'
    BY TypeNext DEF PoolInv
  <1>2. ClosedBehind' /\ CloserStays' /\ OnlyTheEndedAnswer' /\ InboxIsOwn'
    BY ClosedBehindStep, CloserStaysStep, OnlyTheEndedAnswerStep, InboxIsOwnStep
       DEF PoolInv
  <1>3. LateCallsFindClosed' /\ DownIsAhead'
    BY LateCallsFindClosedStep, DownIsAheadStep DEF PoolInv
  <1>4. QED
    BY <1>1, <1>2, <1>3 DEF PoolInv

-----------------------------------------------------------------------------
(* What follows for the callers of the pool. *)

\* After any shutdown has returned, no later call is admitted by any worker, also
\* when the shutdown found the workers closed by another that is still at work; and
\* one that did not run into its time limits has ended every worker it closed, with
\* nothing left in its inbox.
THEOREM PoolShutdownIsFinal == Spec => []ShutdownIsFinal
  <1>1. PoolInv => ShutdownIsFinal
    <2> SUFFICES ASSUME PoolInv PROVE ShutdownIsFinal
      OBVIOUS
    <2>1. \A c \in Calls : past[c] => call[c] \in {"looking", "entered", "shuttingDown"}
      BY DEF PoolInv, LateCallsFindClosed
    <2>2. ASSUME NEW s \in Stoppers, stopper[s] = "done", s \notin gaveUp,
                 NEW w \in Workers, closer[w] = s
          PROVE  stopped[w] /\ inbox[w] = <<>>
      <3>1. closed[w]
        BY <2>2, WorkerFacts DEF PoolInv, ClosedBehind
      <3>2. stopped[w]
        BY <2>2, <3>1 DEF PoolInv, CloserStays, Engaged
      <3>3. QED
        BY <3>2 DEF PoolInv, InboxIsOwn
    <2>3. QED
      BY <2>1, <2>2 DEF ShutdownIsFinal
  <1>2. QED
    BY <1>1, InvInit, InvNext, PTL DEF Spec

\* is_ready reads the flags of one worker after another, and others change them
\* meanwhile; yet it never answers yes for a pool that was not ready when it was
\* asked, however many workers there are.
THEOREM PoolReadinessIsNotStale == Spec => []ReadinessIsNotStale
  <1>1. PoolInv => ReadinessIsNotStale
    BY DEF PoolInv, DownIsAhead, ReadinessIsNotStale
  <1>2. QED
    BY <1>1, InvInit, InvNext, PTL DEF Spec

-----------------------------------------------------------------------------
(* The counters that decide where calls go. *)

Under(w) == {c \in Calls : call[c] \in Guarded /\ best[c] = w}

LEMMA UnderFinite == \A w \in Workers : IsFiniteSet(Under(w))
  BY CallersAssumption, FS_Subset DEF Under

\* A step that neither begins nor ends a guarded call moves no counter.
LEMMA CountStays ==
    ASSUME PendingCountsCalls, UNCHANGED pending,
           \A c \in Calls : /\ call'[c] \in Guarded <=> call[c] \in Guarded
                            /\ call[c] \in Guarded => best'[c] = best[c]
    PROVE  PendingCountsCalls'
  <1>1. \A w \in Workers : Under(w)' = Under(w)
    BY DEF Under
  <1>2. QED
    BY <1>1 DEF PendingCountsCalls, Under

\* The guard of a call is dropped with the call, whatever it answers.
LEMMA CountFalls ==
    ASSUME PoolTypeOK, PendingCountsCalls, NEW c \in Calls, NEW result \in Results,
           call[c] \in Guarded, Return(c, result), UNCHANGED best
    PROVE  PendingCountsCalls'
  <1> SUFFICES ASSUME NEW w \in Workers PROVE pending'[w] = Cardinality(Under(w)')
    BY DEF PendingCountsCalls, Under
  <1>0. /\ pending \in [Workers -> Int] /\ call \in [Calls -> CallStates]
        /\ best[c] \in Workers
        /\ pending[w] = Cardinality(Under(w))
        /\ IsFiniteSet(Under(w))
    BY UnderFinite DEF PoolTypeOK, PendingCountsCalls, Under
  <1>1. result \notin Guarded
    BY DEF Results, Guarded
  <1>2. call'[c] \notin Guarded /\ \A d \in Calls \ {c} : call'[d] = call[d]
    BY <1>0, <1>1 DEF Return
  <1>3. Under(w)' = Under(w) \ {c}
    BY <1>2 DEF Under
  <1>4. Cardinality(Under(w) \ {c}) =
            IF c \in Under(w) THEN Cardinality(Under(w)) - 1 ELSE Cardinality(Under(w))
    BY <1>0, FS_RemoveElement
  <1>5. CASE best[c] = w
    <2>1. c \in Under(w) /\ pending'[w] = pending[w] - 1
      BY <1>0, <1>5 DEF Under, Return
    <2>2. QED
      BY <1>0, <1>3, <1>4, <2>1
  <1>6. CASE best[c] # w
    <2>1. c \notin Under(w) /\ pending'[w] = pending[w]
      BY <1>0, <1>6 DEF Under, Return
    <2>2. QED
      BY <1>0, <1>3, <1>4, <2>1
  <1>7. QED
    BY <1>5, <1>6

LEMMA CountRises ==
    ASSUME PoolTypeOK, PendingCountsCalls, NEW c \in Calls, Enter(c)
    PROVE  PendingCountsCalls'
  <1> SUFFICES ASSUME NEW w \in Workers PROVE pending'[w] = Cardinality(Under(w)')
    BY DEF PendingCountsCalls, Under
  <1>0. /\ pending \in [Workers -> Int] /\ call \in [Calls -> CallStates]
        /\ best[c] \in Workers
        /\ pending[w] = Cardinality(Under(w))
        /\ IsFiniteSet(Under(w))
    BY UnderFinite DEF PoolTypeOK, PendingCountsCalls, Under
  <1>1. /\ call' = [call EXCEPT ![c] = "entered"]
        /\ pending' = [pending EXCEPT ![best[c]] = @ + 1]
        /\ best' = best /\ call[c] = "looking"
    BY DEF Enter, routing
  <1>2. /\ call'[c] \in Guarded /\ call[c] \notin Guarded
        /\ \A d \in Calls \ {c} : call'[d] = call[d]
    BY <1>0, <1>1 DEF Guarded
  <1>3. c \notin Under(w)
    BY <1>2 DEF Under
  <1>4. CASE best[c] = w
    <2>1. Under(w)' = Under(w) \cup {c}
      BY <1>1, <1>2, <1>4 DEF Under
    <2>2. Cardinality(Under(w) \cup {c}) = Cardinality(Under(w)) + 1
      BY <1>0, <1>3, FS_AddElement
    <2>3. pending'[w] = pending[w] + 1
      BY <1>0, <1>1, <1>4
    <2>4. QED
      BY <1>0, <2>1, <2>2, <2>3
  <1>5. CASE best[c] # w
    <2>1. Under(w)' = Under(w)
      BY <1>1, <1>2, <1>5 DEF Under
    <2>2. pending'[w] = pending[w]
      BY <1>0, <1>1, <1>5
    <2>3. QED
      BY <1>0, <2>1, <2>2
  <1>6. QED
    BY <1>4, <1>5

LEMMA CountStep ==
    ASSUME PoolTypeOK, PendingCountsCalls, [Next]_vars
    PROVE  PendingCountsCalls'
  <1>0. call \in [Calls -> CallStates] /\ best \in [Calls -> Workers]
    BY DEF PoolTypeOK
  <1>1. CASE UNCHANGED <<call, best, pending>>
    BY <1>1, CountStays
  <1>2. ASSUME NEW c \in Calls, CallAct(c) PROVE PendingCountsCalls'
    <2>1. CASE Begin(c)
      <3>1. /\ call' = [call EXCEPT ![c] = "looking"] /\ call[c] = "new"
            /\ UNCHANGED <<pending, best>>
        BY <2>1 DEF Begin
      <3>2. \A d \in Calls : call'[d] \in Guarded <=> call[d] \in Guarded
        BY <1>0, <3>1 DEF Guarded
      <3>3. QED
        BY <3>1, <3>2, CountStays
    <2>2. CASE Look(c)
      <3>1. /\ UNCHANGED <<call, pending>> /\ call[c] \notin Guarded
            /\ UNCHANGED best \/ \E w \in Workers \cup {(start[c] + looked[c]) % N} :
                                     best' = [best EXCEPT ![c] = w]
        BY <2>2 DEF Look, Guarded
      <3>2. \A d \in Calls : call[d] \in Guarded => best'[d] = best[d]
        BY <1>0, <3>1
      <3>3. QED
        BY <3>1, <3>2, CountStays
    <2>3. CASE Enter(c)
      BY <2>3, CountRises
    <2>4. CASE CheckFlags(c) \/ Send(c) \/ Receive(c) \/ Cancel(c)
      <3>1. call[c] \in Guarded /\ UNCHANGED best
        BY <2>4 DEF CheckFlags, Send, Receive, Cancel, Guarded, routing
      <3>2. \/ \E result \in Results : Return(c, result)
            \/ /\ UNCHANGED pending
               /\ \E q \in Guarded : call' = [call EXCEPT ![c] = q]
        BY <2>4 DEF CheckFlags, Send, Receive, Cancel, Guarded, Results
      <3>3. CASE \E result \in Results : Return(c, result)
        BY <3>1, <3>3, CountFalls
      <3>4. CASE UNCHANGED pending /\ \E q \in Guarded : call' = [call EXCEPT ![c] = q]
        <4>1. \A d \in Calls : call'[d] \in Guarded <=> call[d] \in Guarded
          BY <1>0, <3>1, <3>4
        <4>2. QED
          BY <3>1, <3>4, <4>1, CountStays
      <3>5. QED
        BY <3>2, <3>3, <3>4
    <2>5. QED
      BY <1>2, <2>1, <2>2, <2>3, <2>4 DEF CallAct, CallStep
  <1>3. QED
    BY <1>1, <1>2, StepKinds, WorkerFrame, StopFrame, ProbeFrame DEF vars, routing

\* pending, by which calls are spread over the workers, counts for every worker the
\* calls that hold a guard on it, however they end: the load a routing decision
\* reads is never one that nobody will take back.
THEOREM PoolPendingCountsCalls == Spec => []PendingCountsCalls
  <1>1. Init => PendingCountsCalls
    <2> SUFFICES ASSUME Init, NEW w \in Workers PROVE pending[w] = Cardinality(Under(w))
      BY DEF PendingCountsCalls, Under
    <2>1. Under(w) = {} /\ pending[w] = 0
      BY DEF Init, Under, Guarded
    <2>2. QED
      BY <2>1, FS_EmptySet
  <1>2. PoolTypeOK /\ PendingCountsCalls /\ [Next]_vars => PendingCountsCalls'
    BY CountStep
  <1>3. QED
    BY <1>1, <1>2, PoolTypeCorrect, PTL DEF Spec

===============================================================================
