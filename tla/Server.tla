-------------------------------- MODULE Server --------------------------------
(***************************************************************************)
(* The HTTP server over the translator: POST /imme, which submits a group, *)
(* beside calls of POST /translate, and the life of the process from the   *)
(* signal that ends it through the drain of its handlers to the shutdown   *)
(* of the translator (lib.rs and main.rs of marian-server).                *)
(*                                                                         *)
(* The translator's own doings are Pool's and Scheduler's: here a call may *)
(* end with any of its errors, with those of a translator that has shut    *)
(* down or lost its workers only if it has.  A text is known by its size,  *)
(* of 0 for blanks only, and by the language detect_language finds.        *)
(***************************************************************************)
EXTENDS TranslateMany, FiniteSetsExt

CONSTANTS Calls,       \* calls of /translate
          Lists,       \* what /imme may be asked: texts, source, target
          Singles,     \* what /translate may be asked, as lists of one text
          MaxItems,    \* 256
          MaxBytes,    \* MAX_TEXT_BYTES, of a text and of a request's body
          Size(_),
          Detect(_),   \* detect_language
          Primary(_)   \* normalize_lang: the primary subtag or "invalid"

ASSUME ServerAssumption ==
    /\ {"QueueFull", "ShuttingDown", "WorkerStopped"} \subseteq Errors
    /\ Errors \cap {"rejected", "gone", "served", "handled"} = {}

VARIABLES process,  \* serving, draining, closing (axum::serve has returned), ended
          stopped,  \* the translator's workers have stopped
          closed,   \* the translator has been shut down
          request,  \* what /imme is asked
          reply,    \* how its handler stands or has answered
          response, \* the translations it has answered
          call      \* the same of each call of /translate

server == <<process, stopped, closed, request, reply, response, call>>
vars == <<many, server>>

ServerInit ==
    /\ NotCalled
    /\ process = "serving"
    /\ stopped = FALSE
    /\ closed = FALSE
    /\ request \in Lists
    /\ reply = "idle"
    /\ response = <<>>
    /\ call = [c \in Calls |-> "idle"]

-----------------------------------------------------------------------------
(* What a request asks for, and whether it may. *)

\* normalize_source: without a language, or for "auto", that of the text.
SourceOf(list, text) ==
    IF list.source \in {"", "auto"} THEN Detect(text) ELSE Primary(list.source)

InputOf(list, text) ==
    [text |-> text, source |-> SourceOf(list, text), target |-> Primary(list.target)]

\* validate_text, then normalize_source: the status of the error, 0 for none.
TextError(list, text) ==
    CASE Size(text) = 0 -> 400
      [] Size(text) > MaxBytes -> 413
      [] SourceOf(list, text) = "invalid" -> 400
      [] OTHER -> 0

\* The first error of a list.  axum bounds its body before the handler runs.
RequestError(list) ==
    LET bad == {i \in DOMAIN list.texts : TextError(list, list.texts[i]) # 0}
    IN  CASE MapThenSumSet(LAMBDA i : Size(list.texts[i]), DOMAIN list.texts) > MaxBytes -> 413
          [] Len(list.texts) > MaxItems \/ Primary(list.target) = "invalid" -> 400
          [] bad # {} -> TextError(list, list.texts[Min(bad)])
          [] OTHER -> 0

\* What a list asks for, if it is accepted, is something to translate.
ASSUME RequestAssumption ==
    \A list \in Lists :
        /\ Len(list.texts) \in Nat /\ DOMAIN list.texts = 1 .. Len(list.texts)
        /\ RequestError(list) = 0 =>
               \A i \in DOMAIN list.texts : InputOf(list, list.texts[i]) \in Inputs

\* From<TranslateError>; a status of 503 comes with Retry-After.
Status(outcome) ==
    CASE outcome \in {"QueueFull", "ShuttingDown"} -> 503
      [] outcome = "Timeout" -> 504
      [] outcome \in {"InvalidInput", "UnsupportedDirection"} -> 422
      [] outcome = "outputs" -> 200
      [] OTHER -> 500

\* What a call of the translator may end with, beside its translation.
Failures ==
    {e \in Errors : e \in {"ShuttingDown", "WorkerStopped"} => stopped \/ closed}

-----------------------------------------------------------------------------
\* Mutants: each replaces the definition its comment names.

\* Of Immersive: the texts before the first bad one are submitted.
ImmersiveEager ==
    /\ process \in {"serving", "draining"}
    /\ reply = "idle"
    /\ LET good == SelectSeq(request.texts, LAMBDA text : TextError(request, text) = 0)
       IN  /\ Call([i \in DOMAIN good |-> InputOf(request, good[i])])
           /\ reply' = IF RequestError(request) = 0 THEN "handled" ELSE "rejected"
    /\ UNCHANGED <<process, stopped, closed, request, response, call>>

\* Of ShutDown: the translator is shut down by the signal, not by the drain's end.
ShutDownAtSignal ==
    /\ process = "draining"
    /\ process' = "closing"
    /\ closed' = TRUE
    /\ UNCHANGED <<many, stopped, request, reply, response, call>>

-----------------------------------------------------------------------------
(* immersive_translate and translate. *)

\* The complete request is validated before anything is submitted.
Immersive ==
    /\ process \in {"serving", "draining"}
    /\ reply = "idle"
    /\ IF RequestError(request) = 0
       THEN /\ Call([i \in DOMAIN request.texts |-> InputOf(request, request.texts[i])])
            /\ reply' = "handled"
       ELSE /\ reply' = "rejected"
            /\ UNCHANGED many
    /\ UNCHANGED <<process, stopped, closed, request, response, call>>

\* A task of the group ends; translate_many goes on.
Translated ==
    /\ \E i \in DOMAIN result :
           \E ending \in Failures \cup {Translation[group[order[i]]]} : EndTask(i, ending)
    /\ UNCHANGED server

Joined == (Join \/ Return) /\ UNCHANGED server

\* The handler answers with the outputs, each beside the language of its text,
\* or with the group's error.
Answer ==
    /\ reply = "handled"
    /\ answer \in Errors \cup {"outputs"}
    /\ reply' = answer
    /\ response' = IF answer \in Errors THEN <<>>
                   ELSE [i \in DOMAIN ordered |->
                            [source |-> group[i].source, text |-> ordered[i]]]
    /\ UNCHANGED <<many, process, stopped, closed, request, call>>

\* The client of /imme closes its connection: axum drops the handler.
Leave ==
    /\ reply = "handled"
    /\ Drop
    /\ reply' = "gone"
    /\ UNCHANGED <<process, stopped, closed, request, response, call>>

\* /translate looks at the same errors of its only text, in another order that
\* no status shows.
Translate(c) ==
    /\ process \in {"serving", "draining"}
    /\ call[c] = "idle"
    /\ \E list \in Singles :
           call' = [call EXCEPT ![c] = IF RequestError(list) = 0 THEN "handled" ELSE "rejected"]
    /\ UNCHANGED <<many, process, stopped, closed, request, reply, response>>

EndTranslate(c) ==
    /\ call[c] = "handled"
    /\ \E ending \in Failures \cup {"outputs", "gone"} : call' = [call EXCEPT ![c] = ending]
    /\ UNCHANGED <<many, process, stopped, closed, request, reply, response>>

-----------------------------------------------------------------------------
(* run: the process, and the translator as it sees it. *)

\* shutdown_signal: no new connection is accepted; those that are open go on.
Signal ==
    /\ process = "serving"
    /\ process' = "draining"
    /\ UNCHANGED <<many, stopped, closed, request, reply, response, call>>

\* axum::serve returns when no handler runs, and then the translator is shut down.
Drained ==
    /\ process = "draining"
    /\ reply # "handled" /\ \A c \in Calls : call[c] # "handled"
    /\ process' = "closing"
    /\ UNCHANGED <<many, stopped, closed, request, reply, response, call>>

ShutDown ==
    /\ process = "closing"
    /\ process' = "ended"
    /\ closed' = TRUE
    /\ UNCHANGED <<many, stopped, request, reply, response, call>>

WorkersStop ==
    /\ ~stopped
    /\ stopped' = TRUE
    /\ UNCHANGED <<many, process, closed, request, reply, response, call>>

Ended ==
    /\ process = "ended"
    /\ UNCHANGED vars

ServerNext ==
    \/ Immersive \/ Translated \/ Joined \/ Answer \/ Leave
    \/ \E c \in Calls : Translate(c) \/ EndTranslate(c)
    \/ Signal \/ Drained \/ ShutDown \/ WorkersStop \/ Ended

ServerSpec == ServerInit /\ [][ServerNext]_vars

-----------------------------------------------------------------------------
(* Properties. *)

\* A response of /imme has one item for each text of the request, in its order:
\* the translation of that text and the language it was taken to be in, although
\* the group was sorted by batch key and its tasks have ended in any order.
ResponseMatchesRequest ==
    reply = "outputs" =>
        /\ Len(response) = Len(request.texts)
        /\ \A i \in DOMAIN response :
               LET input == InputOf(request, request.texts[i])
               IN  response[i] = [source |-> input.source, text |-> Translation[input]]

\* The comment at lib.rs:142: no translation runs on after its request has failed,
\* whether a malformed later item, one task's error or the client ended it.
NothingRunsOn ==
    reply # "handled" => \A i \in DOMAIN result : result[i] # "running"

\* The signal that ends the process refuses nobody whose request it has accepted:
\* a client that is told to retry has met a full queue or a failed translator.
SignalRefusesNobody ==
    \A outcome \in {reply} \cup {call[c] : c \in Calls} :
        Status(outcome) = 503 => outcome = "QueueFull" \/ stopped

=============================================================================
