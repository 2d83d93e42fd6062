----------------------------- MODULE ServerProofs -----------------------------
(* What /imme answers belongs to what it was asked, nothing is translated for a *)
(* request that has ended, and the end of the process refuses nobody: for lists *)
(* of any length, any batch keys and any number of calls.                       *)
EXTENDS Server, FiniteSetTheorems, SequenceTheorems, TLAPS

-----------------------------------------------------------------------------
(* The stable order by batch key. *)

\* Item i goes before item j.
Before(g, i, j) == Key[g[i]] < Key[g[j]] \/ (Key[g[i]] = Key[g[j]] /\ i < j)

\* Where item i goes: behind those that go before it.
Rank(g, i) == Cardinality({j \in DOMAIN g : Before(g, j, i)}) + 1

\* A sorted sequence of positions repeats none, and so it has each of them.
LEMMA SortedIsOneToOne ==
    ASSUME NEW g, NEW n \in Nat, DOMAIN g = 1 .. n, \A i \in 1 .. n : g[i] \in Inputs,
           NEW seq \in [1 .. n -> 1 .. n], Sorted(g, seq)
    PROVE  \A i, j \in 1 .. n : seq[i] = seq[j] => i = j
  <1>1. \A i \in 1 .. n : Key[g[i]] \in Nat
    BY ManyAssumption
  <1>2. \A i, j \in 1 .. n : i < j => seq[i] # seq[j]
    <2> SUFFICES ASSUME NEW i \in 1 .. n, NEW j \in 1 .. n, i < j, seq[i] = seq[j]
                 PROVE  FALSE
      OBVIOUS
    <2>1. seq[i] \in 1 .. n /\ Key[g[seq[i]]] \in Nat
      BY <1>1
    <2>2. \/ Key[g[seq[i]]] < Key[g[seq[i]]]
          \/ Key[g[seq[i]]] = Key[g[seq[i]]] /\ seq[i] < seq[i]
      BY DEF Sorted
    <2>3. QED
      BY <2>1, <2>2
  <1>3. QED
    BY <1>2

LEMMA SortedIsOnto ==
    ASSUME NEW g, NEW n \in Nat, DOMAIN g = 1 .. n, \A i \in 1 .. n : g[i] \in Inputs,
           NEW seq \in [1 .. n -> 1 .. n], Sorted(g, seq)
    PROVE  seq \in Surjection(1 .. n, 1 .. n)
  <1>3. \A i, j \in 1 .. n : seq[i] = seq[j] => i = j
    BY SortedIsOneToOne
  <1>4. seq \in Injection(1 .. n, 1 .. n)
    BY <1>3 DEF Injection, IsInjective
  <1>5. QED
    BY <1>4, FS_Interval, FS_Injection

\* There is one: each item in the place of its rank.
LEMMA SortExists ==
    ASSUME NEW g, NEW n \in Nat, DOMAIN g = 1 .. n, \A i \in 1 .. n : g[i] \in Inputs
    PROVE  /\ SortByKey(g) \in [1 .. n -> 1 .. n]
           /\ Sorted(g, SortByKey(g))
  <1> DEFINE Lower(i) == {j \in 1 .. n : Before(g, j, i)}
             rank == [i \in 1 .. n |-> Rank(g, i)]
  <1>0. \A i \in 1 .. n : Key[g[i]] \in Nat
    BY ManyAssumption
  <1>1. \A i \in 1 .. n : /\ rank[i] = Cardinality(Lower(i)) + 1
                          /\ IsFiniteSet(Lower(i)) /\ Cardinality(Lower(i)) \in Nat
    <2> SUFFICES ASSUME NEW i \in 1 .. n
                 PROVE  /\ rank[i] = Cardinality(Lower(i)) + 1
                        /\ IsFiniteSet(Lower(i)) /\ Cardinality(Lower(i)) \in Nat
      OBVIOUS
    <2>1. Lower(i) \subseteq 1 .. n /\ IsFiniteSet(1 .. n)
      BY FS_Interval
    <2>2. IsFiniteSet(Lower(i)) /\ Cardinality(Lower(i)) \in Nat
      BY <2>1, FS_Subset, FS_CardinalityType
    <2>3. rank[i] = Cardinality(Lower(i)) + 1
      BY DEF Rank
    <2>4. QED
      BY <2>2, <2>3
  <1>2. ASSUME NEW i \in 1 .. n PROVE rank[i] \in 1 .. n
    <2>1. i \notin Lower(i) /\ Lower(i) \subseteq 1 .. n
      BY <1>0 DEF Before
    <2>2. IsFiniteSet(1 .. n) /\ Cardinality(1 .. n) = n
      BY FS_Interval
    <2>3. IsFiniteSet((1 .. n) \ {i}) /\ Cardinality((1 .. n) \ {i}) = n - 1
      BY <2>2, FS_RemoveElement
    <2>4. Cardinality(Lower(i)) <= n - 1
      BY <2>1, <2>3, FS_Subset
    <2>5. QED
      BY <1>1, <2>4
  <1>3. ASSUME NEW i \in 1 .. n, NEW j \in 1 .. n, Before(g, i, j)
        PROVE  rank[i] < rank[j]
    <2>1. Lower(i) \subseteq Lower(j) /\ i \in Lower(j) /\ i \notin Lower(i)
      BY <1>0, <1>3 DEF Before
    <2>2. /\ IsFiniteSet(Lower(i) \cup {i})
          /\ Cardinality(Lower(i) \cup {i}) = Cardinality(Lower(i)) + 1
      BY <1>1, <2>1, FS_AddElement
    <2>3. Cardinality(Lower(i) \cup {i}) <= Cardinality(Lower(j))
      BY <1>1, <2>1, FS_Subset
    <2>4. QED
      BY <1>1, <2>2, <2>3
  <1> HIDE DEF rank
  <1>4. \A i, j \in 1 .. n : i # j => Before(g, i, j) \/ Before(g, j, i)
    BY <1>0 DEF Before
  <1>a. rank \in [1 .. n -> 1 .. n]
    BY <1>2 DEF rank
  <1>5. rank \in Injection(1 .. n, 1 .. n)
    <2>1. \A i, j \in 1 .. n : rank[i] = rank[j] => i = j
      BY <1>a, <1>3, <1>4
    <2>2. QED
      BY <1>a, <2>1 DEF Injection, IsInjective
  <1>6. rank \in Surjection(1 .. n, 1 .. n)
    BY <1>5, FS_Interval, FS_Injection
  <1>7. \A k \in 1 .. n : \E i \in 1 .. n : rank[i] = k
    BY <1>6 DEF Surjection
  <1> DEFINE seq == [k \in 1 .. n |-> CHOOSE i \in 1 .. n : rank[i] = k]
  <1>8. \A k \in 1 .. n : seq[k] \in 1 .. n /\ rank[seq[k]] = k
    BY <1>7
  <1>b. seq \in [1 .. n -> 1 .. n]
    BY <1>8
  <1> HIDE DEF seq
  <1>9. Sorted(g, seq)
    <2> SUFFICES ASSUME NEW i \in 1 .. n, NEW j \in 1 .. n, i < j
                 PROVE  Before(g, seq[i], seq[j])
      BY <1>b DEF Sorted, Before
    <2>1. rank[seq[i]] < rank[seq[j]]
      BY <1>8
    <2>2. seq[i] # seq[j] /\ ~Before(g, seq[j], seq[i])
      BY <1>3, <1>8, <1>a, <2>1
    <2>3. QED
      BY <1>4, <1>8, <2>2
  <1>10. QED
    BY <1>b, <1>9 DEF SortByKey

-----------------------------------------------------------------------------
(* The inductive invariant. *)

\* The request of /imme was valid and its group submitted.
Submitted == reply \notin {"idle", "rejected"}

\* A group is submitted for a valid request only, one input for each of its texts,
\* and a task is under way, dropped or ended as a call of its input may end.
GroupIsTheRequest ==
    /\ request \in Lists
    /\ reply \in {"idle", "rejected", "handled", "gone", "outputs"} \cup Errors
    /\ ~Submitted => NotCalled
    /\ Submitted =>
        /\ RequestError(request) = 0
        /\ group = [i \in DOMAIN request.texts |-> InputOf(request, request.texts[i])]
        /\ order = SortByKey(group)
        /\ DOMAIN result = DOMAIN request.texts
        /\ DOMAIN ordered = DOMAIN request.texts
        /\ \A i \in DOMAIN request.texts :
               result[i] \in {"running", "dropped", Translation[group[order[i]]]} \cup Errors
        /\ joined \in 0 .. Len(request.texts)

\* The group is awaited as long as its handler runs, and no longer.
TasksAreAwaited ==
    /\ answer \in {"none", "outputs", "idle"} \cup Errors
    /\ answer = "none" => reply = "handled"
    /\ reply = "handled" => answer # "idle"
    /\ answer # "none" \/ joined # 0 => \A i \in DOMAIN result : result[i] # "running"
    /\ answer # "idle" => \A i \in DOMAIN result : result[i] # "dropped"

\* What join_all has been looked at is in its place.
JoinedInPlace ==
    /\ Submitted /\ answer \in {"none", "outputs"} =>
           \A k \in 1 .. joined : ordered[order[k]] = Translation[group[order[k]]]
    /\ answer = "outputs" => joined = Len(request.texts)
    /\ reply = "outputs" =>
        /\ answer = "outputs"
        /\ response = [i \in DOMAIN ordered |->
                          [source |-> group[i].source, text |-> ordered[i]]]

\* The translator is shut down when no handler runs, and then none begins.
DrainedFirst ==
    /\ DOMAIN call = Calls
    /\ closed => process = "ended"
    /\ process \in {"closing", "ended"} =>
        /\ reply # "handled"
        /\ \A c \in Calls : call[c] # "handled"

\* Who is told of a translator that shuts down has met one whose workers stopped.
ShuttingDownMeansStopped ==
    ~stopped =>
        /\ \A i \in DOMAIN result : result[i] # "ShuttingDown"
        /\ answer # "ShuttingDown" /\ reply # "ShuttingDown"
        /\ \A c \in Calls : call[c] # "ShuttingDown"

ServerInv ==
    /\ GroupIsTheRequest /\ TasksAreAwaited /\ JoinedInPlace
    /\ DrainedFirst /\ ShuttingDownMeansStopped

\* Names that are no errors of the translator.
LEMMA NotErrors ==
    /\ Errors \cap {"none", "idle", "outputs", "running", "dropped"} = {}
    /\ Errors \cap {"rejected", "gone", "served", "handled"} = {}
    /\ "ShuttingDown" \in Errors
  BY ManyAssumption, ServerAssumption

\* A submitted group: its inputs, and an order that has each position once.
LEMMA GroupFacts ==
    ASSUME GroupIsTheRequest, Submitted
    PROVE  LET n == Len(request.texts)
           IN  /\ n \in Nat /\ DOMAIN request.texts = 1 .. n
               /\ Len(group) = n /\ DOMAIN group = 1 .. n
               /\ order \in [1 .. n -> 1 .. n]
               /\ \A j \in 1 .. n : \E i \in 1 .. n : order[i] = j
               /\ \A i, j \in 1 .. n : order[i] = order[j] => i = j
               /\ \A i \in 1 .. n : /\ group[i] = InputOf(request, request.texts[i])
                                    /\ group[i] \in Inputs
                                    /\ Translation[group[i]] \notin Errors
                                    /\ Translation[group[i]] \notin {"running", "dropped"}
  <1> DEFINE n == Len(request.texts)
  <1>1. n \in Nat /\ DOMAIN request.texts = 1 .. n
    BY RequestAssumption DEF GroupIsTheRequest
  <1>2. /\ group = [i \in 1 .. n |-> InputOf(request, request.texts[i])]
        /\ order = SortByKey(group)
    BY <1>1 DEF GroupIsTheRequest
  <1>3. \A i \in 1 .. n : InputOf(request, request.texts[i]) \in Inputs
    BY <1>1, RequestAssumption DEF GroupIsTheRequest
  <1> HIDE DEF n
  <1>4. /\ DOMAIN group = 1 .. n
        /\ \A i \in 1 .. n : group[i] = InputOf(request, request.texts[i]) /\ group[i] \in Inputs
    BY <1>2, <1>3
  <1>5. Len(group) = n
    <2>1. group \in Seq(Inputs)
      BY <1>1, <1>2, <1>3, IsASeq
    <2>2. QED
      BY <1>1, <1>4, <2>1, LenProperties
  <1>6. order \in [1 .. n -> 1 .. n] /\ Sorted(group, order)
    BY <1>1, <1>2, <1>4, SortExists
  <1>a. n \in Nat /\ DOMAIN group = 1 .. n /\ \A i \in 1 .. n : group[i] \in Inputs
    BY <1>1, <1>4
  <1>7. \A j \in 1 .. n : \E i \in 1 .. n : order[i] = j
    <2>1. order \in Surjection(1 .. n, 1 .. n)
      BY <1>a, <1>6, SortedIsOnto
    <2>2. QED
      BY <2>1 DEF Surjection
  <1>8. \A i, j \in 1 .. n : order[i] = order[j] => i = j
    BY <1>a, <1>6, SortedIsOneToOne
  <1>9. \A i \in 1 .. n : /\ Translation[group[i]] \notin Errors
                          /\ Translation[group[i]] \notin {"running", "dropped"}
    BY <1>4, ManyAssumption
  <1>10. QED
    BY <1>1, <1>4, <1>5, <1>6, <1>7, <1>8, <1>9 DEF n

-----------------------------------------------------------------------------
(* What each step changes. *)

\* The steps of the group, which leave process, translator and calls alone, and
\* the steps of the rest, which leave the group alone.
LEMMA StepKinds ==
    ASSUME [ServerNext]_vars
    PROVE  \/ Immersive \/ Translated \/ Joined \/ Answer \/ Leave
           \/ UNCHANGED <<many, request, reply, response>>
  BY DEF ServerNext, vars, server, Translate, EndTranslate, Signal, Drained, ShutDown,
         WorkersStop, Ended

LEMMA InitInv == ServerInit => ServerInv
  <1> SUFFICES ASSUME ServerInit PROVE ServerInv
    OBVIOUS
  <1>1. GroupIsTheRequest
    BY DEF ServerInit, GroupIsTheRequest, Submitted
  <1>2. TasksAreAwaited
    BY DEF ServerInit, NotCalled, TasksAreAwaited
  <1>3. JoinedInPlace
    BY DEF ServerInit, NotCalled, JoinedInPlace, Submitted
  <1>4. DrainedFirst
    BY DEF ServerInit, DrainedFirst
  <1>5. ShuttingDownMeansStopped
    BY DEF ServerInit, NotCalled, ShuttingDownMeansStopped
  <1>6. QED
    BY <1>1, <1>2, <1>3, <1>4, <1>5 DEF ServerInv

\* The submission: one task for each text of a valid request, none for another.
LEMMA ImmersiveStep ==
    ASSUME ServerInv, Immersive
    PROVE  GroupIsTheRequest' /\ TasksAreAwaited' /\ JoinedInPlace'
  <1>0. /\ request \in Lists /\ request' = request /\ reply = "idle" /\ NotCalled
        /\ response' = response
    BY DEF Immersive, ServerInv, GroupIsTheRequest, Submitted
  <1>1. CASE RequestError(request) = 0
    <2> DEFINE asked == [i \in DOMAIN request.texts |-> InputOf(request, request.texts[i])]
    <2>1. Call(asked) /\ reply' = "handled"
      BY <1>1 DEF Immersive
    <2>2. /\ group' = asked /\ order' = SortByKey(asked)
          /\ result' = [i \in DOMAIN request.texts |-> "running"]
          /\ ordered' = [i \in DOMAIN request.texts |-> "none"]
          /\ answer' = "none" /\ joined' = 0
      BY <1>0, <2>1 DEF Call, NotCalled
    <2>3. Len(request.texts) \in Nat
      BY <1>0, RequestAssumption
    <2> HIDE DEF asked
    <2>4. GroupIsTheRequest'
      <3>1. /\ group' = [i \in DOMAIN request'.texts |-> InputOf(request', request'.texts[i])]
            /\ order' = SortByKey(group')
        BY <1>0, <2>2 DEF asked
      <3>2. RequestError(request') = 0 /\ request' \in Lists
        BY <1>0, <1>1
      <3>3. /\ DOMAIN result' = DOMAIN request'.texts
            /\ DOMAIN ordered' = DOMAIN request'.texts
            /\ \A i \in DOMAIN request'.texts : result'[i] = "running"
            /\ joined' \in 0 .. Len(request'.texts)
        BY <1>0, <2>2, <2>3
      <3>4. QED
        BY <2>1, <3>1, <3>2, <3>3 DEF GroupIsTheRequest, Submitted
    <2>5. TasksAreAwaited'
      BY <2>1, <2>2 DEF TasksAreAwaited
    <2>6. JoinedInPlace'
      BY <2>1, <2>2 DEF JoinedInPlace
    <2>7. QED
      BY <2>4, <2>5, <2>6
  <1>2. CASE RequestError(request) # 0
    <2>1. reply' = "rejected" /\ UNCHANGED many
      BY <1>2 DEF Immersive
    <2>2. UNCHANGED <<group, order, result, joined, ordered, answer>>
      BY <2>1 DEF many
    <2>3. GroupIsTheRequest'
      BY <1>0, <2>1, <2>2, NotErrors DEF GroupIsTheRequest, Submitted, NotCalled
    <2>4. TasksAreAwaited'
      BY <1>0, <2>1, <2>2 DEF TasksAreAwaited, NotCalled
    <2>5. JoinedInPlace'
      BY <1>0, <2>1, <2>2 DEF JoinedInPlace, NotCalled, Submitted
    <2>6. QED
      BY <2>3, <2>4, <2>5
  <1>3. QED
    BY <1>1, <1>2

\* A task ends with the translation of its own input, or with an error.
LEMMA TranslatedStep ==
    ASSUME ServerInv, Translated
    PROVE  GroupIsTheRequest' /\ TasksAreAwaited' /\ JoinedInPlace'
  <1>1. PICK i \in DOMAIN result :
            \E ending \in Failures \cup {Translation[group[order[i]]]} : EndTask(i, ending)
    BY DEF Translated
  <1>2. PICK ending \in Failures \cup {Translation[group[order[i]]]} : EndTask(i, ending)
    BY <1>1
  <1>3. /\ result[i] = "running" /\ result' = [result EXCEPT ![i] = ending]
        /\ UNCHANGED <<group, order, joined, ordered, answer, request, reply, response>>
    BY <1>2 DEF EndTask, Translated, server
  <1>4. answer = "none" /\ reply = "handled"
    BY <1>3 DEF ServerInv, TasksAreAwaited
  <1>5. Submitted /\ Submitted'
    BY <1>3, <1>4 DEF Submitted
  <1> DEFINE n == Len(request.texts)
  <1>6. /\ DOMAIN request.texts = 1 .. n /\ DOMAIN result = 1 .. n
        /\ order[i] \in 1 .. n
        /\ Translation[group[order[i]]] \notin {"running", "dropped"}
    BY <1>5, GroupFacts DEF ServerInv, GroupIsTheRequest
  <1>7. ending \notin {"running", "dropped"} /\ ending \in Errors \cup {Translation[group[order[i]]]}
    BY <1>6, NotErrors DEF Failures
  <1>8. /\ DOMAIN result' = DOMAIN result /\ result'[i] = ending
        /\ \A j \in DOMAIN result : j # i => result'[j] = result[j]
    BY <1>3
  <1>9. GroupIsTheRequest'
    <2>1. /\ request' \in Lists /\ reply' = "handled" /\ RequestError(request') = 0
          /\ group' = [k \in DOMAIN request'.texts |-> InputOf(request', request'.texts[k])]
          /\ order' = SortByKey(group')
          /\ DOMAIN result' = DOMAIN request'.texts
          /\ DOMAIN ordered' = DOMAIN request'.texts
          /\ joined' \in 0 .. Len(request'.texts)
      BY <1>3, <1>4, <1>5, <1>8 DEF ServerInv, GroupIsTheRequest
    <2>2. ASSUME NEW k \in DOMAIN request.texts
          PROVE  result'[k] \in
                    {"running", "dropped", Translation[group[order[k]]]} \cup Errors
      <3>1. k = i \/ result'[k] = result[k]
        BY <1>6, <1>8
      <3>2. QED
        BY <1>5, <1>7, <1>8, <3>1 DEF ServerInv, GroupIsTheRequest
    <2>3. QED
      BY <1>3, <2>1, <2>2 DEF GroupIsTheRequest, Submitted
  <1>10. TasksAreAwaited'
    BY <1>3, <1>4, <1>7, <1>8 DEF ServerInv, TasksAreAwaited
  <1>11. JoinedInPlace'
    BY <1>3, <1>4, <1>5 DEF ServerInv, JoinedInPlace, Submitted
  <1>12. QED
    BY <1>9, <1>10, <1>11

\* The loop behind join_all: an output goes to the place of its input.
LEMMA JoinedStep ==
    ASSUME ServerInv, Joined
    PROVE  GroupIsTheRequest' /\ TasksAreAwaited' /\ JoinedInPlace'
  <1>0. /\ answer = "none" /\ reply = "handled" /\ Submitted
        /\ UNCHANGED <<group, order, result, request, reply, response>>
    BY DEF Joined, Join, Return, ServerInv, TasksAreAwaited, Submitted, server
  <1> DEFINE n == Len(request.texts)
  <1>1. /\ n \in Nat /\ DOMAIN request.texts = 1 .. n /\ Len(group) = n
        /\ order \in [1 .. n -> 1 .. n]
        /\ \A i, j \in 1 .. n : order[i] = order[j] => i = j
        /\ DOMAIN result = 1 .. n /\ DOMAIN ordered = 1 .. n /\ joined \in 0 .. n
    BY <1>0, GroupFacts DEF ServerInv, GroupIsTheRequest
  <1>n. n' = n
    BY <1>0
  <1> HIDE DEF n
  <1>2. ASSUME DOMAIN ordered' = 1 .. n, joined' \in 0 .. n
        PROVE  GroupIsTheRequest'
    <2>1. /\ request' \in Lists /\ reply' = "handled" /\ RequestError(request') = 0
          /\ group' = [k \in DOMAIN request'.texts |-> InputOf(request', request'.texts[k])]
          /\ order' = SortByKey(group')
          /\ DOMAIN result' = DOMAIN request'.texts
          /\ \A i \in DOMAIN request'.texts :
                 result'[i] \in
                    {"running", "dropped", Translation[group'[order'[i]]]} \cup Errors
      BY <1>0 DEF ServerInv, GroupIsTheRequest
    <2>2. DOMAIN ordered' = DOMAIN request'.texts /\ joined' \in 0 .. Len(request'.texts)
      BY <1>0, <1>1, <1>2 DEF n
    <2>3. QED
      BY <2>1, <2>2 DEF GroupIsTheRequest, Submitted
  <1>3. ASSUME \A i \in DOMAIN result : result[i] # "running",
               answer' \in {"none", "outputs"} \cup Errors
        PROVE  TasksAreAwaited'
    <2>1. answer' # "idle"
      BY <1>3, NotErrors
    <2>2. QED
      BY <1>0, <1>3, <2>1 DEF ServerInv, TasksAreAwaited
  <1>4. CASE Return
    <2>1. joined = n /\ answer' = "outputs" /\ UNCHANGED <<joined, ordered>>
      BY <1>1, <1>4 DEF Return
    <2>2. GroupIsTheRequest'
      BY <1>1, <1>2, <2>1
    <2>3. \A i \in DOMAIN result : result[i] # "running"
      BY <1>1, <2>1 DEF ServerInv, TasksAreAwaited
    <2>4. TasksAreAwaited'
      BY <1>3, <2>1, <2>3
    <2>5. JoinedInPlace'
      BY <1>0, <2>1 DEF ServerInv, JoinedInPlace, Submitted, n
    <2>6. QED
      BY <2>2, <2>4, <2>5
  <1>5. CASE Join
    <2> DEFINE next == result[joined + 1]
    <2>1. /\ joined + 1 \in 1 .. n /\ joined' = joined + 1
          /\ \A i \in DOMAIN result : result[i] # "running"
      BY <1>1, <1>5 DEF Join
    <2>2. next \in {Translation[group[order[joined + 1]]]} \cup Errors
      <3>1. next # "running" /\ next # "dropped"
        BY <1>0, <1>1, <2>1 DEF ServerInv, TasksAreAwaited
      <3>2. next \in {"running", "dropped", Translation[group[order[joined + 1]]]} \cup Errors
        BY <1>0, <1>1, <2>1 DEF ServerInv, GroupIsTheRequest
      <3>3. QED
        BY <3>1, <3>2
    <2>3. CASE next \in Errors
      <3>1. answer' = next /\ UNCHANGED ordered
        BY <1>5, <2>3 DEF Join
      <3>2. GroupIsTheRequest'
        BY <1>1, <1>2, <2>1, <3>1
      <3>3. TasksAreAwaited'
        BY <1>3, <2>1, <2>3, <3>1
      <3>4. answer' \notin {"none", "outputs"} /\ reply' = "handled"
        BY <1>0, <2>3, <3>1, NotErrors
      <3>5. JoinedInPlace'
        BY <3>4 DEF JoinedInPlace
      <3>6. QED
        BY <3>2, <3>3, <3>5
    <2>4. CASE next \notin Errors
      <3>1. /\ answer' = "none" /\ next = Translation[group[order[joined + 1]]]
            /\ ordered' = [ordered EXCEPT ![order[joined + 1]] = next]
        BY <1>0, <1>5, <2>2, <2>4 DEF Join
      <3> HIDE DEF next
      <3>2. GroupIsTheRequest'
        BY <1>1, <1>2, <2>1, <3>1
      <3>3. TasksAreAwaited'
        BY <1>3, <2>1, <3>1
      <3>4. /\ order[joined + 1] \in 1 .. n
            /\ ordered'[order[joined + 1]] = Translation[group[order[joined + 1]]]
        BY <1>1, <2>1, <3>1
      <3>5. \A k \in 1 .. joined : ordered'[order[k]] = Translation[group[order[k]]]
        <4> SUFFICES ASSUME NEW k \in 1 .. joined
                     PROVE  ordered'[order[k]] = Translation[group[order[k]]]
          OBVIOUS
        <4>1. k \in 1 .. n /\ k # joined + 1
          BY <1>1, <2>1
        <4>2. order[k] \in 1 .. n /\ order[k] # order[joined + 1]
          BY <1>1, <2>1, <4>1
        <4>3. ordered'[order[k]] = ordered[order[k]]
          BY <1>1, <3>1, <4>2
        <4>4. QED
          BY <1>0, <4>3 DEF ServerInv, JoinedInPlace
      <3>6. \A k \in 1 .. joined' : ordered'[order'[k]] = Translation[group'[order'[k]]]
        <4> SUFFICES ASSUME NEW k \in 1 .. joined'
                     PROVE  ordered'[order[k]] = Translation[group[order[k]]]
          BY <1>0
        <4>1. k \in 1 .. joined \/ k = joined + 1
          BY <1>1, <2>1
        <4>2. QED
          BY <3>4, <3>5, <4>1
      <3>7. JoinedInPlace'
        BY <1>0, <3>1, <3>6 DEF JoinedInPlace
      <3>8. QED
        BY <3>2, <3>3, <3>7
    <2>5. QED
      BY <2>3, <2>4
  <1>6. QED
    BY <1>4, <1>5 DEF Joined

\* The handler answers when its group has; a client that leaves takes the group
\* with it.
LEMMA AnswerStep ==
    ASSUME ServerInv, Answer \/ Leave
    PROVE  GroupIsTheRequest' /\ TasksAreAwaited' /\ JoinedInPlace'
  <1>0. reply = "handled" /\ Submitted /\ UNCHANGED <<group, order, joined, ordered, request>>
    BY DEF Answer, Leave, Drop, many, Submitted
  <1>1. ASSUME Submitted', reply' \in {"gone", "outputs"} \cup Errors,
               DOMAIN result' = DOMAIN result,
               \A i \in DOMAIN result : result'[i] = result[i] \/ result'[i] = "dropped"
        PROVE  GroupIsTheRequest'
    <2>1. /\ request' \in Lists /\ RequestError(request') = 0
          /\ group' = [k \in DOMAIN request'.texts |-> InputOf(request', request'.texts[k])]
          /\ order' = SortByKey(group')
          /\ DOMAIN result' = DOMAIN request'.texts
          /\ DOMAIN ordered' = DOMAIN request'.texts
          /\ joined' \in 0 .. Len(request'.texts)
      BY <1>0, <1>1 DEF ServerInv, GroupIsTheRequest
    <2>2. \A i \in DOMAIN request'.texts :
              result'[i] \in {"running", "dropped", Translation[group'[order'[i]]]} \cup Errors
      <3> SUFFICES ASSUME NEW i \in DOMAIN request.texts
                   PROVE  result'[i] \in
                            {"running", "dropped", Translation[group[order[i]]]} \cup Errors
        BY <1>0
      <3>1. /\ i \in DOMAIN result
            /\ result[i] \in {"running", "dropped", Translation[group[order[i]]]} \cup Errors
        BY <1>0 DEF ServerInv, GroupIsTheRequest
      <3>2. QED
        BY <1>1, <3>1
    <2>3. QED
      BY <1>1, <2>1, <2>2 DEF GroupIsTheRequest
  <1>2. CASE Answer
    <2>1. /\ answer \in Errors \cup {"outputs"} /\ reply' = answer
          /\ UNCHANGED <<result, answer>>
          /\ answer \notin Errors =>
                response' = [i \in DOMAIN ordered |->
                                [source |-> group[i].source, text |-> ordered[i]]]
      BY <1>2 DEF Answer, many
    <2>2. answer \notin {"none", "idle"} /\ reply' \notin {"handled", "idle", "rejected"}
      BY <2>1, NotErrors
    <2>3. Submitted'
      BY <2>2 DEF Submitted
    <2>4. GroupIsTheRequest'
      BY <1>1, <2>1, <2>3
    <2>5. TasksAreAwaited'
      BY <1>0, <2>1, <2>2 DEF ServerInv, TasksAreAwaited
    <2>6. JoinedInPlace'
      <3>1. answer = "outputs" => answer \notin Errors
        BY NotErrors
      <3>2. reply' = "outputs" =>
                /\ answer' = "outputs"
                /\ response' = [i \in DOMAIN ordered' |->
                                   [source |-> group'[i].source, text |-> ordered'[i]]]
        BY <1>0, <2>1, <3>1
      <3>3. QED
        BY <1>0, <2>1, <3>2 DEF ServerInv, JoinedInPlace
    <2>7. QED
      BY <2>4, <2>5, <2>6
  <1>3. CASE Leave
    <2>1. /\ reply' = "gone" /\ answer' = "idle"
          /\ result' = [i \in DOMAIN result |->
                           IF result[i] = "running" THEN "dropped" ELSE result[i]]
      BY <1>3 DEF Leave, Drop
    <2>2. Submitted'
      BY <2>1 DEF Submitted
    <2>3. GroupIsTheRequest'
      BY <1>1, <2>1, <2>2
    <2>4. TasksAreAwaited'
      BY <2>1 DEF TasksAreAwaited
    <2>5. JoinedInPlace'
      BY <2>1 DEF JoinedInPlace
    <2>6. QED
      BY <2>3, <2>4, <2>5
  <1>4. QED
    BY <1>2, <1>3

\* The invariants of /imme, whatever is done.
LEMMA GroupStep ==
    ASSUME ServerInv, [ServerNext]_vars
    PROVE  GroupIsTheRequest' /\ TasksAreAwaited' /\ JoinedInPlace'
  <1>1. CASE UNCHANGED <<many, request, reply, response>>
    <2>1. UNCHANGED <<group, order, result, joined, ordered, answer, request, reply, response>>
      BY <1>1 DEF many
    <2>2. GroupIsTheRequest'
      BY <2>1 DEF ServerInv, GroupIsTheRequest, Submitted, NotCalled
    <2>3. TasksAreAwaited'
      BY <2>1 DEF ServerInv, TasksAreAwaited
    <2>4. JoinedInPlace'
      BY <2>1 DEF ServerInv, JoinedInPlace, Submitted
    <2>5. QED
      BY <2>2, <2>3, <2>4
  <1>2. QED
    BY <1>1, StepKinds, ImmersiveStep, TranslatedStep, JoinedStep, AnswerStep

-----------------------------------------------------------------------------
(* The end of the process. *)

LEMMA DrainedStep ==
    ASSUME ServerInv, [ServerNext]_vars
    PROVE  DrainedFirst'
  <1>0. DrainedFirst
    BY DEF ServerInv
  <1>1. CASE Immersive \/ Translated \/ Joined \/ Answer \/ Leave
    <2>1. UNCHANGED <<process, closed, call>>
      BY <1>1 DEF Immersive, Translated, Joined, Answer, Leave, server
    <2>2. process \in {"closing", "ended"} => reply' # "handled"
      BY <1>0, <1>1, NotErrors DEF DrainedFirst, Immersive, Translated, Joined, Answer, Leave, server
    <2>3. QED
      BY <1>0, <2>1, <2>2 DEF DrainedFirst
  <1>2. ASSUME NEW c \in Calls, Translate(c) \/ EndTranslate(c)
        PROVE  DrainedFirst'
    <2>1. UNCHANGED <<process, closed, reply>> /\ DOMAIN call' = Calls
      BY <1>0, <1>2 DEF Translate, EndTranslate, DrainedFirst
    <2>2. process \notin {"closing", "ended"}
      BY <1>0, <1>2 DEF Translate, EndTranslate, DrainedFirst
    <2>3. QED
      BY <1>0, <2>1, <2>2 DEF DrainedFirst
  <1>3. CASE Signal \/ Drained \/ ShutDown \/ WorkersStop \/ Ended \/ UNCHANGED vars
    BY <1>0, <1>3 DEF DrainedFirst, Signal, Drained, ShutDown, WorkersStop, Ended, vars, server
  <1>4. QED
    BY <1>1, <1>2, <1>3 DEF ServerNext

\* While a handler runs the translator has not been shut down, so that only one
\* whose workers stopped refuses as if it were shutting down.
LEMMA StoppedStep ==
    ASSUME ServerInv, [ServerNext]_vars
    PROVE  ShuttingDownMeansStopped'
  <1>0. ShuttingDownMeansStopped /\ DrainedFirst
    BY DEF ServerInv
  <1>1. "ShuttingDown" \notin {"idle", "none", "rejected", "handled", "gone", "outputs", "running",
                               "dropped"}
    OBVIOUS
  <1> SUFFICES ASSUME ~stopped'
               PROVE  /\ \A i \in DOMAIN result' : result'[i] # "ShuttingDown"
                      /\ answer' # "ShuttingDown" /\ reply' # "ShuttingDown"
                      /\ \A c \in Calls : call'[c] # "ShuttingDown"
    BY DEF ShuttingDownMeansStopped
  <1>2. ~stopped
    BY DEF ServerNext, vars, server, Immersive, Translated, Joined, Answer, Leave, Translate,
           EndTranslate, Signal, Drained, ShutDown, WorkersStop, Ended
  <1>3. /\ \A i \in DOMAIN result : result[i] # "ShuttingDown"
        /\ answer # "ShuttingDown" /\ reply # "ShuttingDown"
        /\ \A c \in Calls : call[c] # "ShuttingDown"
    BY <1>0, <1>2 DEF ShuttingDownMeansStopped
  <1>4. closed \/ "ShuttingDown" \notin Failures
    BY <1>2 DEF Failures
  <1>5. CASE Immersive
    <2>1. UNCHANGED call /\ reply' \in {"handled", "rejected"}
      BY <1>5 DEF Immersive
    <2>2. \/ UNCHANGED <<result, answer>>
          \/ /\ \A i \in DOMAIN result' : result'[i] = "running"
             /\ answer' = "none"
      BY <1>5 DEF Immersive, Call, many
    <2>3. QED
      BY <1>1, <1>3, <2>1, <2>2
  <1>6. CASE Translated
    <2>1. PICK i \in DOMAIN result :
              \E ending \in Failures \cup {Translation[group[order[i]]]} : EndTask(i, ending)
      BY <1>6 DEF Translated
    <2>2. PICK ending \in Failures \cup {Translation[group[order[i]]]} : EndTask(i, ending)
      BY <2>1
    <2>3. /\ result[i] = "running" /\ result' = [result EXCEPT ![i] = ending]
          /\ UNCHANGED <<answer, reply, call>>
      BY <1>6, <2>2 DEF EndTask, Translated, server
    <2>4. reply = "handled"
      BY <2>3 DEF ServerInv, TasksAreAwaited
    <2>5. ~closed
      BY <1>0, <2>4 DEF DrainedFirst
    <2>6. Submitted
      BY <2>4 DEF Submitted
    <2>7. Translation[group[order[i]]] \notin Errors
      BY <2>6, GroupFacts DEF ServerInv, GroupIsTheRequest
    <2>8. ending # "ShuttingDown"
      BY <1>4, <2>2, <2>5, <2>7, NotErrors
    <2>9. QED
      BY <1>3, <2>3, <2>8
  <1>7. CASE Joined
    <2>1. UNCHANGED <<result, reply, call>>
      BY <1>7 DEF Joined, Join, Return, server
    <2>2. answer' # "ShuttingDown"
      <3>1. CASE Return
        BY <1>1, <3>1 DEF Return
      <3>2. CASE Join
        <4>1. answer = "none" /\ reply = "handled" /\ joined + 1 \in DOMAIN result
          <5>1. answer = "none" /\ reply = "handled"
            BY <3>2 DEF Join, ServerInv, TasksAreAwaited
          <5>2. Submitted
            BY <5>1 DEF Submitted
          <5>3. /\ DOMAIN result = 1 .. Len(request.texts) /\ Len(group) = Len(request.texts)
                /\ Len(request.texts) \in Nat /\ joined \in 0 .. Len(request.texts)
            BY <5>2, GroupFacts DEF ServerInv, GroupIsTheRequest
          <5>4. joined < Len(group)
            BY <3>2 DEF Join
          <5>5. QED
            BY <5>1, <5>3, <5>4
        <4>2. answer' = answer \/ answer' = result[joined + 1]
          BY <3>2 DEF Join
        <4>3. QED
          BY <1>3, <4>1, <4>2
      <3>3. QED
        BY <1>7, <3>1, <3>2 DEF Joined
    <2>3. QED
      BY <1>3, <2>1, <2>2
  <1>8. CASE Answer
    <2>1. UNCHANGED <<result, answer, call>> /\ reply' = answer
      BY <1>8 DEF Answer, many
    <2>2. QED
      BY <1>3, <2>1
  <1>9. CASE Leave
    <2>1. /\ UNCHANGED call /\ reply' = "gone" /\ answer' = "idle"
          /\ result' = [i \in DOMAIN result |->
                           IF result[i] = "running" THEN "dropped" ELSE result[i]]
      BY <1>9 DEF Leave, Drop
    <2>2. QED
      BY <1>1, <1>3, <2>1
  <1>10. ASSUME NEW c \in Calls, Translate(c)
         PROVE  /\ \A i \in DOMAIN result' : result'[i] # "ShuttingDown"
                /\ answer' # "ShuttingDown" /\ reply' # "ShuttingDown"
                /\ \A d \in Calls : call'[d] # "ShuttingDown"
    <2>1. /\ UNCHANGED <<result, answer, reply>>
          /\ \E new \in {"handled", "rejected"} : call' = [call EXCEPT ![c] = new]
      BY <1>10 DEF Translate, many
    <2>2. QED
      BY <1>0, <1>1, <1>3, <2>1 DEF DrainedFirst
  <1>11. ASSUME NEW c \in Calls, EndTranslate(c)
         PROVE  /\ \A i \in DOMAIN result' : result'[i] # "ShuttingDown"
                /\ answer' # "ShuttingDown" /\ reply' # "ShuttingDown"
                /\ \A d \in Calls : call'[d] # "ShuttingDown"
    <2>1. /\ UNCHANGED <<result, answer, reply>> /\ call[c] = "handled"
          /\ \E ending \in Failures \cup {"outputs", "gone"} : call' = [call EXCEPT ![c] = ending]
      BY <1>11 DEF EndTranslate, many
    <2>2. ~closed
      BY <1>0, <2>1 DEF DrainedFirst
    <2>3. \A ending \in Failures \cup {"outputs", "gone"} : ending # "ShuttingDown"
      BY <1>1, <1>4, <2>2
    <2>4. QED
      BY <1>0, <1>3, <2>1, <2>3 DEF DrainedFirst
  <1>12. CASE Signal \/ Drained \/ ShutDown \/ WorkersStop \/ Ended \/ UNCHANGED vars
    <2>1. UNCHANGED <<result, answer, reply, call>>
      BY <1>12 DEF Signal, Drained, ShutDown, WorkersStop, Ended, vars, server, many
    <2>2. QED
      BY <1>3, <2>1
  <1>13. QED
    BY <1>5, <1>6, <1>7, <1>8, <1>9, <1>10, <1>11, <1>12 DEF ServerNext

LEMMA InvStep == ServerInv /\ [ServerNext]_vars => ServerInv'
  BY GroupStep, DrainedStep, StoppedStep DEF ServerInv

-----------------------------------------------------------------------------
(* What the invariant says of the answers. *)

\* Every place of the outputs is the place of one task.
LEMMA InvMatches == ServerInv => ResponseMatchesRequest
  <1> SUFFICES ASSUME ServerInv, reply = "outputs"
               PROVE  /\ Len(response) = Len(request.texts)
                      /\ \A i \in DOMAIN response :
                            LET input == InputOf(request, request.texts[i])
                            IN  response[i] = [source |-> input.source, text |-> Translation[input]]
    BY DEF ResponseMatchesRequest
  <1> DEFINE n == Len(request.texts)
  <1>1. Submitted
    BY DEF Submitted
  <1>2. /\ n \in Nat /\ DOMAIN ordered = 1 .. n
        /\ \A j \in 1 .. n : \E i \in 1 .. n : order[i] = j
        /\ \A i \in 1 .. n : group[i] = InputOf(request, request.texts[i])
    BY <1>1, GroupFacts DEF ServerInv, GroupIsTheRequest
  <1>3. /\ response = [i \in DOMAIN ordered |->
                          [source |-> group[i].source, text |-> ordered[i]]]
        /\ \A k \in 1 .. n : ordered[order[k]] = Translation[group[order[k]]]
    BY <1>1 DEF ServerInv, JoinedInPlace
  <1>4. \A i \in 1 .. n : ordered[i] = Translation[group[i]]
    BY <1>2, <1>3
  <1> HIDE DEF n
  <1>5. response = [i \in 1 .. n |-> [source |-> group[i].source, text |-> ordered[i]]]
    BY <1>2, <1>3
  <1>6. Len(response) = n /\ DOMAIN response = 1 .. n
    <2> DEFINE Items == {response[i] : i \in 1 .. n}
    <2>1. response \in [1 .. n -> Items] /\ DOMAIN response = 1 .. n
      BY <1>5
    <2>2. response \in Seq(Items)
      BY <1>2, <2>1 DEF Seq
    <2> HIDE DEF Items
    <2>3. QED
      BY <1>2, <2>1, <2>2, LenProperties
  <1>7. ASSUME NEW i \in 1 .. n
        PROVE  LET input == InputOf(request, request.texts[i])
               IN  response[i] = [source |-> input.source, text |-> Translation[input]]
    BY <1>2, <1>4, <1>5
  <1>8. QED
    BY <1>6, <1>7 DEF n

LEMMA InvEnds == ServerInv => NothingRunsOn
  BY DEF ServerInv, TasksAreAwaited, NothingRunsOn

LEMMA InvRefuses == ServerInv => SignalRefusesNobody
  <1> SUFFICES ASSUME ServerInv, ~stopped,
                      NEW outcome \in {reply} \cup {call[c] : c \in Calls},
                      Status(outcome) = 503, outcome # "QueueFull"
               PROVE  FALSE
    BY DEF SignalRefusesNobody
  <1>1. outcome = "ShuttingDown"
    BY DEF Status
  <1>2. QED
    BY <1>1 DEF ServerInv, ShuttingDownMeansStopped

-----------------------------------------------------------------------------
(* The theorems. *)

\* /imme answers each text in its place with the translation of that text and its
\* language, for lists of any length whose group is sorted by any batch keys and
\* whose tasks end in any order.
THEOREM ResponsesMatchRequests == ServerSpec => []ResponseMatchesRequest
  BY InitInv, InvStep, InvMatches, PTL DEF ServerSpec

\* Once /imme has answered, failed or lost its client no task of it runs: the
\* comment at lib.rs:142, for every malformed item, error and moment of leaving.
THEOREM NothingRunsOnForNobody == ServerSpec => []NothingRunsOn
  BY InitInv, InvStep, InvEnds, PTL DEF ServerSpec

\* The signal and the drain refuse no request that was accepted, for any number of
\* calls: 503 means a full queue or stopped workers.
THEOREM DrainRefusesNobody == ServerSpec => []SignalRefusesNobody
  BY InitInv, InvStep, InvRefuses, PTL DEF ServerSpec

===============================================================================
