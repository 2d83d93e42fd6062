---------------------------- MODULE TranslateMany ----------------------------
(***************************************************************************)
(* Translator::translate_many: a group of inputs is sorted by batch key,   *)
(* submitted as one task each, awaited as a whole, and its outputs are put *)
(* back into the caller's order.  /imme relies on it for up to 256 texts.  *)
(*                                                                         *)
(* A task is a call of translate, whose detail is Scheduler: here it ends  *)
(* with the translation of its input or with an error.  The tasks are      *)
(* futures of the call, so that a caller that goes away drops them.  Batch *)
(* keys are ordered, as the tuples of the code are.                        *)
(***************************************************************************)
EXTENDS Integers, Sequences, FiniteSets

CONSTANTS Inputs,      \* translation inputs
          Key,         \* the batch key of each, a number
          Translation, \* what a call of translate returns for each
          Errors       \* what else it may return

ASSUME ManyAssumption ==
    /\ Key \in [Inputs -> Nat]
    /\ DOMAIN Translation = Inputs
    /\ \A input \in Inputs : Translation[input] \notin Errors \cup {"running", "dropped"}
    /\ Errors \cap {"none", "idle", "outputs", "running", "dropped"} = {}

VARIABLES group,   \* the caller's inputs
          order,   \* position in the group of each task, sorted by key
          result,  \* what each task has ended with
          joined,  \* results the loop after join_all has looked at
          ordered, \* the outputs, by position in the group
          answer   \* what the call returns: outputs or an error

many == <<group, order, result, joined, ordered, answer>>

\* sort_by is stable: equal keys keep the caller's order.
Sorted(g, seq) ==
    \A i, j \in DOMAIN seq : i < j =>
        \/ Key[g[seq[i]]] < Key[g[seq[j]]]
        \/ Key[g[seq[i]]] = Key[g[seq[j]]] /\ seq[i] < seq[j]

SortByKey(g) ==
    CHOOSE seq \in [DOMAIN g -> DOMAIN g] : Sorted(g, seq)

NotCalled ==
    /\ group = <<>>
    /\ order = <<>>
    /\ result = <<>>
    /\ joined = 0
    /\ ordered = <<>>
    /\ answer = "idle"

-----------------------------------------------------------------------------
\* Mutants: each replaces the definition its comment names.

\* Of Join: outputs stay in the order of the tasks.
JoinUnordered ==
    /\ answer = "none"
    /\ \A i \in DOMAIN result : result[i] # "running"
    /\ joined < Len(group)
    /\ LET next == result[joined + 1]
       IN  IF next \in Errors
           THEN answer' = next /\ UNCHANGED ordered
           ELSE /\ ordered' = [ordered EXCEPT ![joined + 1] = next]
                /\ UNCHANGED answer
    /\ joined' = joined + 1
    /\ UNCHANGED <<group, order, result>>

\* The call sorts its inputs and makes a task of each.
Call(inputs) ==
    /\ answer = "idle"
    /\ group' = inputs
    /\ order' = SortByKey(inputs)
    /\ result' = [i \in DOMAIN inputs |-> "running"]
    /\ ordered' = [i \in DOMAIN inputs |-> "none"]
    /\ answer' = "none"
    /\ UNCHANGED joined

\* A task ends, in any order with the others.
EndTask(i, ending) ==
    /\ result[i] = "running"
    /\ result' = [result EXCEPT ![i] = ending]
    /\ UNCHANGED <<group, order, joined, ordered, answer>>

\* join_all has returned: its results are looked at in the order of the tasks.
Join ==
    /\ answer = "none"
    /\ \A i \in DOMAIN result : result[i] # "running"
    /\ joined < Len(group)
    /\ LET next == result[joined + 1]
       IN  IF next \in Errors
           THEN answer' = next /\ UNCHANGED ordered
           ELSE /\ ordered' = [ordered EXCEPT ![order[joined + 1]] = next]
                /\ UNCHANGED answer
    /\ joined' = joined + 1
    /\ UNCHANGED <<group, order, result>>

Return ==
    /\ answer = "none"
    /\ joined = Len(group)
    /\ answer' = "outputs"
    /\ UNCHANGED <<group, order, result, joined, ordered>>

\* The caller's future is dropped, and its tasks with it.
Drop ==
    /\ answer = "none"
    /\ result' = [i \in DOMAIN result |->
                     IF result[i] = "running" THEN "dropped" ELSE result[i]]
    /\ answer' = "idle"
    /\ UNCHANGED <<group, order, joined, ordered>>

=============================================================================
