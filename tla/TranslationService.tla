------------------------- MODULE TranslationService -------------------------
(***************************************************************************)
(* What one worker of the scheduler promises its callers, without its      *)
(* channel, deferred queue, one-shot slots or statistics.                  *)
(*                                                                         *)
(* Commands stand in ONE queue and leave it in the order in which they     *)
(* entered it.  The service forms a batch of compatible jobs from the head *)
(* of the queue, runs it, answers each of its jobs at most once, and only  *)
(* then looks at the queue again.  A shutdown or a failed backend makes it *)
(* refuse what is left, in order, and end.  While it serves, at most       *)
(* Bound commands wait.                                                    *)
(***************************************************************************)
EXTENDS Integers, Sequences, FiniteSets

CONSTANTS Requests, Stoppers, \* calls that want a translation, a shutdown
          Bound,              \* commands that may wait while the service runs
          Key,                \* the batch key of each request
          Limit(_)            \* the largest batch of a key

VARIABLES queue,    \* commands waiting, first come first
          admitted, \* commands that have ever entered the queue
          running,  \* commands taken from the queue and not finished
          answer,   \* what each command has been answered
          mode      \* forming a batch, running it, draining, ended

vars == <<queue, admitted, running, answer, mode>>

Callers == Requests \cup Stoppers

Init ==
    /\ queue = <<>>
    /\ admitted = {}
    /\ running = {}
    /\ answer = [x \in Callers |-> "unset"]
    /\ mode = "forming"

\* A command enters once, behind all others.
Admit(x) ==
    /\ mode # "ended"
    /\ mode \in {"forming", "running"} => Len(queue) < Bound
    /\ x \notin admitted
    /\ admitted' = admitted \cup {x}
    /\ queue' = Append(queue, x)
    /\ UNCHANGED <<running, answer, mode>>

\* The head of the queue joins the batch being formed.
Join ==
    /\ mode = "forming"
    /\ queue # <<>>
    /\ LET r == Head(queue)
       IN  /\ r \in Requests
           /\ \A other \in running : Key[other] = Key[r]
           /\ Cardinality(running) < Limit(Key[r])
           /\ running' = running \cup {r}
    /\ queue' = Tail(queue)
    /\ UNCHANGED <<admitted, answer, mode>>

\* The head of the queue is a job whose caller has gone.
Skip ==
    /\ mode = "forming"
    /\ queue # <<>>
    /\ Head(queue) \in Requests
    /\ queue' = Tail(queue)
    /\ UNCHANGED <<admitted, running, answer, mode>>

RunBatch ==
    /\ mode = "forming"
    /\ running # {}
    /\ mode' = "running"
    /\ UNCHANGED <<queue, admitted, running, answer>>

\* A job of the batch is finished: answered, unless its caller has gone.
Finish(r) ==
    /\ mode = "running"
    /\ r \in running
    /\ running' = running \ {r}
    /\ \/ answer' = [answer EXCEPT ![r] = "ok"]
       \/ answer' = [answer EXCEPT ![r] = "error"]
       \/ UNCHANGED answer
    /\ UNCHANGED <<queue, admitted, mode>>

NextBatch ==
    /\ mode = "running"
    /\ running = {}
    /\ mode' \in {"forming", "draining"}
    /\ UNCHANGED <<queue, admitted, running, answer>>

\* A shutdown reaches the head of the queue, or an idle service finds its
\* backend failed.
BeginDrain ==
    /\ mode = "forming"
    /\ running = {}
    /\ mode' = "draining"
    /\ \/ /\ queue # <<>>
          /\ Head(queue) \in Stoppers
          /\ running' = {Head(queue)}
          /\ queue' = Tail(queue)
       \/ /\ queue = <<>>
          /\ UNCHANGED <<queue, running>>
    /\ UNCHANGED <<admitted, answer>>

\* The head of the queue is refused.
Refuse ==
    /\ mode = "draining"
    /\ queue # <<>>
    /\ queue' = Tail(queue)
    /\ \/ /\ Head(queue) \in Requests
          /\ answer' = [answer EXCEPT ![Head(queue)] = "drained"]
       \/ /\ Head(queue) \in Stoppers
          /\ answer' = [answer EXCEPT ![Head(queue)] = "broken"]
       \/ UNCHANGED answer
    /\ UNCHANGED <<admitted, running, mode>>

\* The shutdown that began the drain is acknowledged.
Acknowledge(s) ==
    /\ mode = "draining"
    /\ s \in running \cap Stoppers
    /\ running' = running \ {s}
    /\ answer' = [answer EXCEPT ![s] = "acked"]
    /\ UNCHANGED <<queue, admitted, mode>>

\* The service ends, after a drain or in the middle of a batch: every command
\* it still holds learns of it and none is admitted any more.
End ==
    /\ mode \in {"running", "draining"}
    /\ mode' = "ended"
    /\ LET held == running \cup {queue[i] : i \in DOMAIN queue}
       IN  answer' = [x \in Callers |-> IF x \in held THEN "broken" ELSE answer[x]]
    /\ queue' = <<>>
    /\ running' = {}
    /\ UNCHANGED admitted

Next ==
    \/ \E x \in Callers : Admit(x) \/ Finish(x) \/ Acknowledge(x)
    \/ Join \/ Skip \/ RunBatch \/ NextBatch \/ BeginDrain \/ Refuse \/ End

Spec == Init /\ [][Next]_vars

=============================================================================
