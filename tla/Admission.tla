------------------------------ MODULE Admission ------------------------------
(***************************************************************************)
(* How a sender waits for a slot of the worker's bounded channel:          *)
(* send_command of scheduler.rs against tokio's Notify.  Scheduler lets a  *)
(* parked call retry when a slot is free; this module shows why it will.   *)
(*                                                                         *)
(* A Notify keeps either one permit or a FIFO list of waiters.  notify_one *)
(* hands a notification to the first waiter, or stores the permit; it is   *)
(* forwarded when the future that holds it is dropped without having been  *)
(* polled.  notify_waiters releases everyone and stores nothing.  A future *)
(* joins the list when it is enabled or first polled.                      *)
(*                                                                         *)
(* Each sender sends one command, a job or a shutdown alike, and the       *)
(* channel only counts: what the worker does with a command is Scheduler.  *)
(***************************************************************************)
EXTENDS Integers, Sequences, FiniteSets

CONSTANTS Senders,  \* calls of send_command
          Capacity  \* slots of the channel

ASSUME AdmissionAssumption == Capacity \in Nat \ {0} /\ IsFiniteSet(Senders)

VARIABLES pc,      \* where each sender stands
          note,    \* the state of each sender's Notified future: idle (created,
                   \* not on the list), waiting (on the list), one or all
                   \* (notified, not polled since), consumed (took the permit)
          waiters, \* the Notify's list
          permit,  \* the Notify's stored permit
          chan,    \* the bounded channel
          worker,  \* where the worker thread stands
          stopped  \* Inner::worker_stopped

notify == <<note, waiters, permit>>
vars == <<pc, notify, chan, worker, stopped>>

Leaving == {"sent", "refused", "disconnected", "cancelled"}

Init ==
    /\ pc = [x \in Senders |-> "new"]
    /\ note = [x \in Senders |-> "idle"]
    /\ waiters = <<>>
    /\ permit = FALSE
    /\ chan = <<>>
    /\ worker = "serve"
    /\ stopped = FALSE

\* The receiver lives until worker_loop has returned or unwound.
RxOpen == worker \in {"serve", "owes", "drain"}

-----------------------------------------------------------------------------
(* tokio::sync::Notify, as this code uses it. *)

\* The list without the entry at i.
Unlinked(i) == SubSeq(waiters, 1, i - 1) \o SubSeq(waiters, i + 1, Len(waiters))

\* notify_one, over the table of futures: the first waiter, or else the permit.
Hand(table) ==
    \/ /\ waiters # <<>>
       /\ note' = [table EXCEPT ![Head(waiters)] = "one"]
       /\ waiters' = Tail(waiters)
       /\ UNCHANGED permit
    \/ /\ waiters = <<>>
       /\ note' = table
       /\ permit' = TRUE
       /\ UNCHANGED waiters

\* enable(), and the first poll: take the permit or join the list.
Enable(x) ==
    \/ /\ note[x] = "idle" /\ permit
       /\ permit' = FALSE
       /\ note' = [note EXCEPT ![x] = "consumed"]
       /\ UNCHANGED waiters
    \/ /\ note[x] = "idle" /\ ~permit
       /\ waiters' = Append(waiters, x)
       /\ note' = [note EXCEPT ![x] = "waiting"]
       /\ UNCHANGED permit
    \/ /\ note[x] # "idle"
       /\ UNCHANGED notify

\* The future is dropped: it leaves the list, and an unused notification of
\* notify_one goes to the next waiter.
Drop(x) ==
    \/ /\ note[x] = "one"
       /\ Hand([note EXCEPT ![x] = "idle"])
    \/ /\ note[x] = "waiting"
       /\ \E i \in 1..Len(waiters) : waiters[i] = x /\ waiters' = Unlinked(i)
       /\ note' = [note EXCEPT ![x] = "idle"]
       /\ UNCHANGED permit
    \/ /\ note[x] \notin {"one", "waiting"}
       /\ note' = [note EXCEPT ![x] = "idle"]
       /\ UNCHANGED <<waiters, permit>>

-----------------------------------------------------------------------------
(* send_command. *)

\* Mutants: each replaces the definition its comment names.

\* Of Register: the future is not enabled before the probe.
RegisterOnAwait(x) ==
    /\ pc[x] \in {"new", "again"}
    /\ pc' = [pc EXCEPT ![x] = "registered"]
    /\ UNCHANGED <<notify, chan, worker, stopped>>

\* Of Receive: a dequeue notifies nobody.
ReceiveSilently ==
    /\ worker = "serve" /\ chan # <<>>
    /\ chan' = Tail(chan)
    /\ UNCHANGED <<pc, notify, worker, stopped>>

\* A turn of the loop: the future is created and enabled before the probe.
Register(x) ==
    /\ pc[x] \in {"new", "again"}
    /\ Enable(x)
    /\ pc' = [pc EXCEPT ![x] = "registered"]
    /\ UNCHANGED <<chan, worker, stopped>>

\* try_send succeeds or finds the channel disconnected: the call returns, and
\* with it goes the future.
ProbeAndLeave(x) ==
    /\ pc[x] = "registered"
    /\ \/ /\ RxOpen
          /\ Len(chan) < Capacity
          /\ chan' = Append(chan, x)
          /\ pc' = [pc EXCEPT ![x] = "sent"]
       \/ /\ ~RxOpen
          /\ pc' = [pc EXCEPT ![x] = "disconnected"]
          /\ UNCHANGED chan
    /\ Drop(x)
    /\ UNCHANGED <<worker, stopped>>

ProbeFull(x) ==
    /\ pc[x] = "registered"
    /\ RxOpen
    /\ Len(chan) = Capacity
    /\ pc' = [pc EXCEPT ![x] = "full"]
    /\ UNCHANGED <<notify, chan, worker, stopped>>

\* The stopped flag ends the call; otherwise the future is awaited.
CheckWorker(x) ==
    /\ pc[x] = "full"
    /\ \/ stopped /\ pc' = [pc EXCEPT ![x] = "disconnected"] /\ Drop(x)
       \/ ~stopped /\ pc' = [pc EXCEPT ![x] = "parked"] /\ Enable(x)
    /\ UNCHANGED <<chan, worker, stopped>>

\* The future is polled and ready: the loop begins again.
Wake(x) ==
    /\ pc[x] = "parked"
    /\ note[x] \in {"one", "all", "consumed"}
    /\ pc' = [pc EXCEPT ![x] = "again"]
    /\ note' = [note EXCEPT ![x] = "idle"]
    /\ UNCHANGED <<waiters, permit, chan, worker, stopped>>

\* timeout_at polls the future, finds it pending, and then the deadline passed.
Elapse(x) ==
    /\ pc[x] = "parked"
    /\ note[x] = "waiting"
    /\ pc' = [pc EXCEPT ![x] = "elapsed"]
    /\ UNCHANGED <<notify, chan, worker, stopped>>

\* The call returns EnqueueError::Full; the future may have been notified since.
Refuse(x) ==
    /\ pc[x] = "elapsed"
    /\ pc' = [pc EXCEPT ![x] = "refused"]
    /\ Drop(x)
    /\ UNCHANGED <<chan, worker, stopped>>

\* The caller's future is dropped while it waits.
Cancel(x) ==
    /\ pc[x] = "parked"
    /\ pc' = [pc EXCEPT ![x] = "cancelled"]
    /\ Drop(x)
    /\ UNCHANGED <<chan, worker, stopped>>

-----------------------------------------------------------------------------
(* The worker. *)

\* recv_timeout returns a command, in the outer loop or while a batch gathers.
Receive ==
    /\ worker = "serve"
    /\ chan # <<>>
    /\ chan' = Tail(chan)
    /\ worker' = "owes"
    /\ UNCHANGED <<pc, notify, stopped>>

NotifyOne ==
    /\ worker = "owes"
    /\ worker' = "serve"
    /\ Hand(note)
    /\ UNCHANGED <<pc, chan, stopped>>

\* A shutdown command, or a backend that is not ready any more, ends the loop.
BeginDrain ==
    /\ worker = "serve"
    /\ worker' = "drain"
    /\ stopped' \in BOOLEAN
    /\ UNCHANGED <<pc, notify, chan>>

\* fail_pending takes commands out and notifies nobody; senders may refill it.
Drain ==
    /\ worker = "drain"
    /\ chan # <<>>
    /\ chan' = Tail(chan)
    /\ UNCHANGED <<pc, notify, worker, stopped>>

\* worker_loop returns, with a command sent since the last look at the channel
\* or without, or it panics: the receiver is dropped with what it holds.
DropReceiver ==
    /\ worker \in {"serve", "drain"}
    /\ worker' = "guard"
    /\ chan' = <<>>
    /\ UNCHANGED <<pc, notify, stopped>>

\* WorkerStoppedGuard::drop sets the flag, then releases every waiter.
SetStopped ==
    /\ worker = "guard"
    /\ worker' = "notify"
    /\ stopped' = TRUE
    /\ UNCHANGED <<pc, notify, chan>>

Release ==
    /\ worker = "notify"
    /\ worker' = "gone"
    /\ note' = [x \in Senders |-> IF note[x] = "waiting" THEN "all" ELSE note[x]]
    /\ waiters' = <<>>
    /\ UNCHANGED <<pc, permit, chan, stopped>>

-----------------------------------------------------------------------------
\* What a sender does without a timer or its client.
SenderStep(x) ==
    \/ Register(x) \/ ProbeAndLeave(x) \/ ProbeFull(x) \/ CheckWorker(x) \/ Wake(x)
    \/ Refuse(x)

\* What the worker does between two commands, and on its way out: no inference.
Housekeeping ==
    \/ NotifyOne \/ Drain \/ SetStopped \/ Release
    \/ worker = "drain" /\ DropReceiver

\* The worker has gone and every call has returned.
Ended ==
    /\ worker = "gone"
    /\ \A x \in Senders : pc[x] \in Leaving
    /\ UNCHANGED vars

Next ==
    \/ \E x \in Senders : SenderStep(x) \/ Elapse(x) \/ Cancel(x)
    \/ Receive \/ BeginDrain \/ DropReceiver \/ Housekeeping
    \/ Ended

\* The runtime polls a woken task, and code that cannot block makes progress.
\* Nothing makes a deadline pass, a client go away or a backend return.
Spec ==
    /\ Init /\ [][Next]_vars
    /\ \A x \in Senders : WF_vars(SenderStep(x))
    /\ WF_vars(Housekeeping)

-----------------------------------------------------------------------------
(* Properties. *)

Parked == {x \in Senders : pc[x] = "parked" /\ note[x] = "waiting"}

\* Senders that are about to probe the channel, or hold a notification, which
\* makes them probe it or hand the notification on.
Signalled == {x \in Senders : \/ pc[x] \in {"again", "registered"}
                              \/ note[x] \in {"one", "consumed"}}

\* The comment at scheduler.rs:462: no burst of dequeues collapses into one
\* stored permit.  While the worker serves and somebody is parked, every free
\* slot has a notification on its way.
SignalsCoverSlots ==
    worker \in {"serve", "owes"} /\ Parked # {} =>
        Capacity - Len(chan) <=
            Cardinality(Signalled) + (IF worker = "owes" THEN 1 ELSE 0)

\* A parked sender with a free slot does not wait for its deadline: the slot is
\* taken or the sender woken, even if every other sender gives up meanwhile.
NoLostWakeup ==
    \A x \in Senders :
        pc[x] = "parked" /\ Len(chan) < Capacity
            ~> pc[x] # "parked" \/ Len(chan) = Capacity

=============================================================================
