---------------------------- MODULE CoalesceProofs ----------------------------
(* What becomes of a batch, for batches of any length.  Coalescing gives each *)
(* job its own translation; a pivot backend implements the single model that  *)
(* Coalesce takes it for; and a CPU or Metal backend, whose batch is Backend's*)
(* and shares no variable with Coalesce's, gives each input what it would get *)
(* by itself, in batches that its engine accepts.                             *)
EXTENDS Pivot, Backend, FiniteSetTheorems, TLAPS

\* The map and the rows are inverse to each other.
RowsMatchMap ==
    /\ \A input \in Inputs : byInput[input] # 0 =>
           byInput[input] \in DOMAIN unique /\ unique[byInput[input]] = input
    /\ \A k \in DOMAIN unique : byInput[unique[k]] = k

\* Every scanned job points at the row of its own input.
IndicesMatchJobs ==
    \A i \in 1 .. scanned :
        indices[i] \in DOMAIN unique /\ unique[indices[i]] = jobs[i]

RowsComeFromJobs ==
    \A k \in DOMAIN unique : \E i \in 1 .. scanned : unique[k] = jobs[i]

OutputsMatchRows ==
    phase = "reply" =>
        /\ scanned = Len(jobs)
        /\ outputs = [row \in 1 .. Len(unique) |-> Translation[unique[row]]]

CoalesceInv ==
    /\ TypeOK
    /\ Len(repetitions) = Len(unique)
    /\ RowsMatchMap /\ IndicesMatchJobs /\ RowsComeFromJobs /\ OutputsMatchRows
    /\ EachJobItsOwn

-----------------------------------------------------------------------------
LEMMA AppendFacts ==
    ASSUME NEW S, NEW seq \in Seq(S), NEW e \in S
    PROVE  /\ Append(seq, e) \in Seq(S)
           /\ Len(Append(seq, e)) = Len(seq) + 1
           /\ DOMAIN Append(seq, e) = 1 .. Len(seq) + 1
           /\ DOMAIN seq = 1 .. Len(seq)
           /\ Len(seq) \in Nat
           /\ \A i \in 1 .. Len(seq) : Append(seq, e)[i] = seq[i]
           /\ Append(seq, e)[Len(seq) + 1] = e
  OBVIOUS

LEMMA CoalesceInit == Init => CoalesceInv
  <1> SUFFICES ASSUME Init PROVE CoalesceInv
    OBVIOUS
  <1>1. jobs \in Seq(Inputs) /\ Len(jobs) \in Nat
    BY CoalesceAssumption DEF Init
  <1>2. TypeOK
    BY <1>1 DEF Init, TypeOK
  <1>3. QED
    BY <1>2 DEF Init, CoalesceInv, RowsMatchMap, IndicesMatchJobs, RowsComeFromJobs,
                OutputsMatchRows, EachJobItsOwn

LEMMA ScanKnownInv ==
    ASSUME CoalesceInv, ScanKnown
    PROVE  CoalesceInv'
  <1> DEFINE input == jobs[scanned + 1]
             index == byInput[input]
  <1>1. /\ TypeOK /\ Len(repetitions) = Len(unique)
        /\ RowsMatchMap /\ IndicesMatchJobs /\ RowsComeFromJobs /\ OutputsMatchRows
        /\ EachJobItsOwn
    BY DEF CoalesceInv
  <1>2. /\ scanned \in Nat /\ scanned + 1 \in 1 .. Len(jobs) /\ input \in Inputs
        /\ phase = "scan" /\ jobs \in Seq(Inputs)
    BY <1>1 DEF TypeOK, ScanKnown
  <1>3. /\ index \in DOMAIN unique /\ unique[index] = input /\ index \in Nat
        /\ index \in DOMAIN repetitions
    BY <1>1, <1>2 DEF ScanKnown, RowsMatchMap, TypeOK
  <1>4. /\ indices' = Append(indices, index) /\ scanned' = scanned + 1
        /\ repetitions' = [repetitions EXCEPT ![index] = @ + 1]
        /\ UNCHANGED <<jobs, unique, byInput, phase, outputs, replies>>
    BY DEF ScanKnown
  <1>5. /\ indices' \in Seq(Nat) /\ Len(indices') = scanned'
        /\ \A i \in 1 .. scanned : indices'[i] = indices[i]
        /\ indices'[scanned + 1] = index
    <2>1. indices \in Seq(Nat) /\ Len(indices) = scanned /\ index \in Nat
      BY <1>1, <1>3 DEF TypeOK
    <2> HIDE DEF index
    <2>2. QED
      BY <2>1, <1>4, AppendFacts
  <1>6. repetitions' \in Seq(Nat) /\ Len(repetitions') = Len(unique')
    <2>1. repetitions \in Seq(Nat)
      BY <1>1 DEF TypeOK
    <2>2. index \in DOMAIN repetitions
      BY <1>3
    <2> HIDE DEF index
    <2>3. repetitions[index] \in Nat
      BY <2>1, <2>2
    <2>4. repetitions[index] + 1 \in Nat
      BY <2>3
    <2>5. QED
      BY <1>1, <1>4, <2>1, <2>2, <2>4
  <1>7. TypeOK'
    BY <1>1, <1>2, <1>4, <1>5, <1>6 DEF TypeOK
  <1>8. RowsMatchMap'
    BY <1>1, <1>4 DEF RowsMatchMap
  <1>9. IndicesMatchJobs'
    BY <1>1, <1>2, <1>3, <1>4, <1>5 DEF IndicesMatchJobs
  <1>10. RowsComeFromJobs'
    BY <1>1, <1>2, <1>4 DEF RowsComeFromJobs
  <1>11. OutputsMatchRows' /\ EachJobItsOwn'
    BY <1>1, <1>2, <1>4 DEF OutputsMatchRows, EachJobItsOwn
  <1>12. QED
    BY <1>6, <1>7, <1>8, <1>9, <1>10, <1>11 DEF CoalesceInv

LEMMA ScanNewInv ==
    ASSUME CoalesceInv, ScanNew
    PROVE  CoalesceInv'
  <1> DEFINE input == jobs[scanned + 1]
             index == Len(unique) + 1
  <1>1. /\ TypeOK /\ Len(repetitions) = Len(unique)
        /\ RowsMatchMap /\ IndicesMatchJobs /\ RowsComeFromJobs /\ OutputsMatchRows
        /\ EachJobItsOwn
    BY DEF CoalesceInv
  <1>2. /\ scanned \in Nat /\ scanned + 1 \in 1 .. Len(jobs) /\ input \in Inputs
        /\ phase = "scan" /\ jobs \in Seq(Inputs) /\ unique \in Seq(Inputs)
        /\ byInput \in [Inputs -> Nat] /\ index \in Nat /\ index # 0
        /\ DOMAIN unique = 1 .. Len(unique) /\ Len(unique) \in Nat
    BY <1>1 DEF TypeOK, ScanNew
  <1>3. /\ byInput[input] = 0 /\ unique' = Append(unique, input)
        /\ byInput' = [byInput EXCEPT ![input] = index]
        /\ indices' = Append(indices, index) /\ repetitions' = Append(repetitions, 1)
        /\ scanned' = scanned + 1
        /\ UNCHANGED <<jobs, phase, outputs, replies>>
    BY DEF ScanNew
  <1>4. /\ indices' \in Seq(Nat) /\ Len(indices') = scanned'
        /\ \A i \in 1 .. scanned : indices'[i] = indices[i]
        /\ indices'[scanned + 1] = index
    <2>1. indices \in Seq(Nat) /\ Len(indices) = scanned /\ index \in Nat
      BY <1>1, <1>2 DEF TypeOK
    <2> HIDE DEF index
    <2>2. QED
      BY <2>1, <1>3, AppendFacts
  <1>5. repetitions' \in Seq(Nat) /\ Len(repetitions') = Len(unique) + 1
    BY <1>1, <1>3, AppendFacts DEF TypeOK
  <1>6. /\ unique' \in Seq(Inputs) /\ Len(unique') = Len(unique) + 1
        /\ DOMAIN unique' = 1 .. Len(unique) + 1
        /\ \A k \in 1 .. Len(unique) : unique'[k] = unique[k]
        /\ unique'[index] = input
    BY <1>2, <1>3, AppendFacts
  <1>7. byInput' \in [Inputs -> Nat]
    BY <1>2, <1>3
  <1>8. TypeOK'
    BY <1>1, <1>2, <1>3, <1>4, <1>5, <1>6, <1>7 DEF TypeOK
  <1>9. RowsMatchMap'
    <2>1. ASSUME NEW x \in Inputs, byInput'[x] # 0
          PROVE  byInput'[x] \in DOMAIN unique' /\ unique'[byInput'[x]] = x
      <3>1. CASE x = input
        BY <1>2, <1>3, <1>6, <3>1
      <3>2. CASE x # input
        BY <1>1, <1>2, <1>3, <1>6, <2>1, <3>2 DEF RowsMatchMap
      <3>3. QED
        BY <3>1, <3>2
    <2>2. ASSUME NEW k \in DOMAIN unique'
          PROVE  byInput'[unique'[k]] = k
      <3>1. CASE k = index
        BY <1>2, <1>3, <1>6, <3>1
      <3>2. CASE k \in DOMAIN unique
        <4>1. unique'[k] = unique[k] /\ byInput[unique[k]] = k /\ k # 0
          BY <1>1, <1>2, <1>6, <3>2 DEF RowsMatchMap
        <4>2. unique[k] \in Inputs /\ unique[k] # input
          BY <1>2, <1>3, <3>2, <4>1
        <4>3. QED
          BY <1>2, <1>3, <4>1, <4>2
      <3>3. QED
        BY <1>2, <1>6, <2>2, <3>1, <3>2
    <2>3. QED
      BY <2>1, <2>2 DEF RowsMatchMap
  <1>10. IndicesMatchJobs'
    <2> SUFFICES ASSUME NEW i \in 1 .. scanned'
                 PROVE  indices'[i] \in DOMAIN unique' /\ unique'[indices'[i]] = jobs'[i]
      BY DEF IndicesMatchJobs
    <2>1. CASE i = scanned + 1
      <3>1. indices'[i] = index /\ jobs'[i] = input
        BY <1>3, <1>4, <2>1
      <3>2. index \in DOMAIN unique' /\ unique'[index] = input
        BY <1>2, <1>6
      <3>3. QED
        BY <3>1, <3>2
    <2>2. CASE i \in 1 .. scanned
      <3>1. indices[i] \in DOMAIN unique /\ unique[indices[i]] = jobs[i]
        BY <1>1, <2>2 DEF IndicesMatchJobs
      <3>2. indices[i] \in 1 .. Len(unique)
        BY <1>2, <3>1
      <3>3. indices'[i] = indices[i] /\ jobs'[i] = jobs[i]
        BY <1>3, <1>4, <2>2
      <3>4. indices[i] \in DOMAIN unique' /\ unique'[indices[i]] = unique[indices[i]]
        BY <1>2, <1>6, <3>2
      <3>5. QED
        BY <3>1, <3>3, <3>4
    <2>3. i = scanned + 1 \/ i \in 1 .. scanned
      <3>1. scanned' = scanned + 1 /\ scanned \in Nat
        BY <1>2, <1>3
      <3>2. QED
        BY <3>1
    <2>4. QED
      BY <2>1, <2>2, <2>3
  <1>11. RowsComeFromJobs'
    <2> SUFFICES ASSUME NEW k \in DOMAIN unique'
                 PROVE  \E i \in 1 .. scanned' : unique'[k] = jobs'[i]
      BY DEF RowsComeFromJobs
    <2>1. CASE k = index
      <3>1. scanned + 1 \in 1 .. scanned' /\ unique'[k] = jobs'[scanned + 1]
        BY <1>2, <1>3, <1>6, <2>1
      <3>2. QED
        BY <3>1
    <2>2. CASE k \in DOMAIN unique
      <3>1. PICK i \in 1 .. scanned : unique[k] = jobs[i]
        BY <1>1, <2>2 DEF RowsComeFromJobs
      <3>2. i \in 1 .. scanned' /\ unique'[k] = jobs'[i]
        BY <1>2, <1>3, <1>6, <2>2, <3>1
      <3>3. QED
        BY <3>2
    <2>3. QED
      BY <1>2, <1>6, <2>1, <2>2
  <1>12. OutputsMatchRows' /\ EachJobItsOwn'
    BY <1>1, <1>2, <1>3 DEF OutputsMatchRows, EachJobItsOwn
  <1>13. QED
    BY <1>5, <1>6, <1>8, <1>9, <1>10, <1>11, <1>12 DEF CoalesceInv

LEMMA AnswerInv ==
    ASSUME CoalesceInv, Answer \/ AnswerError
    PROVE  CoalesceInv'
  <1>1. /\ TypeOK /\ Len(repetitions) = Len(unique)
        /\ RowsMatchMap /\ IndicesMatchJobs /\ RowsComeFromJobs /\ OutputsMatchRows
        /\ EachJobItsOwn /\ jobs \in Seq(Inputs)
    BY DEF CoalesceInv, TypeOK
  <1>2. /\ UNCHANGED <<jobs, scanned, unique, byInput, repetitions, indices, phase, outputs>>
        /\ Len(replies) < Len(jobs)
    BY DEF Answer, AnswerError
  <1> DEFINE next == Len(replies) + 1
  <1>3. /\ next \in 1 .. Len(jobs) /\ jobs[next] \in Inputs
        /\ Translation[jobs[next]] \in Outputs
    BY <1>1, <1>2, CoalesceAssumption DEF TypeOK
  <1>4. PICK e \in {Translation[jobs[next]], Failure} : replies' = Append(replies, e)
    <2>1. CASE Answer
      <3>1. phase = "reply" /\ replies' = Append(replies, outputs[indices[next]])
        BY <2>1 DEF Answer
      <3>2. /\ next \in 1 .. scanned
            /\ outputs = [row \in 1 .. Len(unique) |-> Translation[unique[row]]]
        BY <1>1, <1>3, <3>1 DEF OutputsMatchRows
      <3>3. indices[next] \in DOMAIN unique /\ unique[indices[next]] = jobs[next]
        BY <1>1, <3>2 DEF IndicesMatchJobs
      <3>4. DOMAIN unique = 1 .. Len(unique)
        BY <1>1 DEF TypeOK
      <3>5. outputs[indices[next]] = Translation[jobs[next]]
        BY <3>2, <3>3, <3>4
      <3>6. QED
        BY <3>1, <3>5
    <2>2. CASE AnswerError
      BY <2>2 DEF AnswerError
    <2>3. QED
      BY <2>1, <2>2
  <1>5. /\ replies' \in Seq(Outputs \cup {Failure})
        /\ Len(replies') = next /\ DOMAIN replies' = 1 .. next
        /\ \A i \in 1 .. Len(replies) : replies'[i] = replies[i]
        /\ replies'[next] = e
        /\ DOMAIN replies = 1 .. Len(replies) /\ Len(replies) \in Nat
    <2>1. replies \in Seq(Outputs \cup {Failure}) /\ e \in Outputs \cup {Failure}
      BY <1>1, <1>3, <1>4 DEF TypeOK
    <2>2. QED
      BY <1>4, <2>1, AppendFacts
  <1>6. EachJobItsOwn'
    BY <1>1, <1>2, <1>4, <1>5 DEF EachJobItsOwn
  <1>7. TypeOK'
    BY <1>1, <1>2, <1>3, <1>5 DEF TypeOK
  <1>8. QED
    BY <1>1, <1>2, <1>6, <1>7
       DEF CoalesceInv, RowsMatchMap, IndicesMatchJobs, RowsComeFromJobs, OutputsMatchRows

LEMMA InferInv ==
    ASSUME CoalesceInv, Infer \/ InferFails
    PROVE  CoalesceInv'
  <1>1. /\ TypeOK /\ Len(repetitions) = Len(unique)
        /\ RowsMatchMap /\ IndicesMatchJobs /\ RowsComeFromJobs /\ OutputsMatchRows
        /\ EachJobItsOwn
    BY DEF CoalesceInv
  <1>2. /\ UNCHANGED <<jobs, scanned, unique, byInput, repetitions, indices, replies>>
        /\ scanned = Len(jobs)
    BY DEF Infer, InferFails
  <1>3. outputs' \in Seq(Outputs) /\ phase' \in {"reply", "fail"} /\ OutputsMatchRows'
    <2>1. CASE Infer
      <3>1. outputs' = [row \in 1 .. Len(unique) |-> Translation[unique[row]]]
        BY <2>1 DEF Infer
      <3>2. \A row \in 1 .. Len(unique) : Translation[unique[row]] \in Outputs
        BY <1>1, CoalesceAssumption DEF TypeOK
      <3>3. outputs' \in [1 .. Len(unique) -> Outputs] /\ Len(unique) \in Nat
        BY <1>1, <3>1, <3>2 DEF TypeOK
      <3>4. QED
        BY <1>2, <2>1, <3>1, <3>3 DEF Infer, OutputsMatchRows
    <2>2. CASE InferFails
      BY <1>1, <2>2 DEF InferFails, OutputsMatchRows, TypeOK
    <2>3. QED
      BY <2>1, <2>2
  <1>4. TypeOK'
    BY <1>1, <1>2, <1>3 DEF TypeOK
  <1>5. QED
    BY <1>1, <1>2, <1>3, <1>4
       DEF CoalesceInv, RowsMatchMap, IndicesMatchJobs, RowsComeFromJobs, EachJobItsOwn

LEMMA CoalesceNext == CoalesceInv /\ [Next]_vars => CoalesceInv'
  <1> SUFFICES ASSUME CoalesceInv, [Next]_vars PROVE CoalesceInv'
    OBVIOUS
  <1>1. CASE UNCHANGED vars
    BY <1>1 DEF vars, CoalesceInv, TypeOK, RowsMatchMap, IndicesMatchJobs,
                RowsComeFromJobs, OutputsMatchRows, EachJobItsOwn
  <1>2. QED
    BY <1>1, ScanKnownInv, ScanNewInv, AnswerInv, InferInv DEF Next, Answered

LEMMA CoalesceCorrect == Spec => []CoalesceInv
  BY CoalesceInit, CoalesceNext, PTL DEF Spec

\* Each job gets the translation of its own input or its batch's error: the row
\* a job is answered from is the row of its input, however the batch repeats.
THEOREM EveryJobGetsItsOwn == Spec => []EachJobItsOwn
  <1>1. CoalesceInv => EachJobItsOwn
    BY DEF CoalesceInv
  <1>2. QED
    BY <1>1, CoalesceCorrect, PTL

\* The backend is given each input of the batch once and nothing else.
THEOREM RowsAreTheInputs == Spec => []RowsAreDistinctInputs
  <1>1. CoalesceInv => RowsAreDistinctInputs
    BY DEF CoalesceInv, RowsMatchMap, RowsComeFromJobs, RowsAreDistinctInputs
  <1>2. QED
    BY <1>1, CoalesceCorrect, PTL

-----------------------------------------------------------------------------
(* The two models of a pivot backend. *)

\* What the first stage leaves behind until the batch ends.
FirstSaid(row) == Say(FirstRow(row))

MiddleInv ==
    middle # <<>> =>
        /\ scanned = Len(jobs)
        /\ middle = [k \in DOMAIN unique |-> FirstSaid(unique[k])]
        /\ \A k \in DOMAIN unique : ~Blank(middle[k].text)

PivotInv == CoalesceInv /\ MiddleInv

-----------------------------------------------------------------------------
\* A model that returns as many outputs as it got rows has returned its own.
LEMMA ReturnedAll ==
    ASSUME NEW n \in Nat, NEW batch, DOMAIN batch = 1 .. n, Len(batch) = n,
           NEW out \in Returned(batch), Len(out) = Len(batch)
    PROVE  out = [k \in 1 .. n |-> Say(batch[k])]
  <1> DEFINE all == [k \in 1 .. n |-> Say(batch[k])]
             said == {Say(batch[k]) : k \in 1 .. n}
  <1>1. all \in Seq(said)
    <2>1. all \in [1 .. n -> said]
      OBVIOUS
    <2> HIDE DEF all, said
    <2>2. QED
      BY <2>1
  <1>2. out \in {all} \cup {SubSeq(all, 1, k) : k \in 0 .. n - 1}
    BY DEF Returned
  <1>3. ASSUME NEW k \in 0 .. n - 1, out = SubSeq(all, 1, k)
        PROVE  FALSE
    <2> HIDE DEF all, said
    <2>1. Len(SubSeq(all, 1, k)) = k
      BY <1>1, <1>3
    <2>2. QED
      BY <1>3, <2>1
  <1>4. QED
    BY <1>2, <1>3

LEMMA RowsFacts ==
    ASSUME CoalesceInv
    PROVE  /\ Len(unique) \in Nat
           /\ DOMAIN unique = 1 .. Len(unique)
           /\ \A k \in DOMAIN unique : unique[k] \in Inputs
  BY DEF CoalesceInv, TypeOK

\* The rows of a stage are one for each row of the batch.
LEMMA StageLength ==
    ASSUME NEW n \in Nat, NEW f, f = [k \in 1 .. n |-> f[k]]
    PROVE  Len(f) = n
  <1> DEFINE S == {f[k] : k \in 1 .. n}
  <1>1. f \in [1 .. n -> S]
    OBVIOUS
  <1> HIDE DEF S
  <1>2. QED
    BY <1>1

\* Two rows that differ only in budgets which do not cut the text are the same to
\* a model.
LEMMA UncutIsFirst ==
    ASSUME NEW input \in Inputs
    PROVE  Uncut(input) = FirstSaid(input)
  <1> DEFINE enough == [input EXCEPT !.target = Middle,
                               !.budget = AtLeast(input.budget, Fluent(input.text, Middle))]
             given == FirstRow(input)
  <1>1. /\ input = [text |-> input.text, source |-> input.source,
                    target |-> input.target, budget |-> input.budget]
        /\ input.budget \in Nat /\ MiddleBudget \in Nat
        /\ Fluent(input.text, Middle) \in 0 .. MiddleBudget
    BY PivotAssumption
  <1>2. /\ enough.text = input.text /\ enough.target = Middle
        /\ enough.budget = AtLeast(input.budget, Fluent(input.text, Middle))
    BY <1>1
  <1>3. /\ given.text = input.text /\ given.target = Middle
        /\ given.budget = AtLeast(input.budget, MiddleBudget)
    BY <1>1 DEF FirstRow
  <1> HIDE DEF enough, given
  <1> DEFINE full == Fluent(input.text, Middle)
  <1>4. /\ Say(enough) = [text |-> Append(input.text, full), counted |-> input.text, score |-> Middle]
    <2>1. (IF full < enough.budget THEN full ELSE enough.budget) = full
      BY <1>1, <1>2 DEF AtLeast
    <2>2. QED
      BY <1>2, <2>1 DEF Say
  <1>5. Say(given) = [text |-> Append(input.text, full), counted |-> input.text, score |-> Middle]
    <2>1. (IF full < given.budget THEN full ELSE given.budget) = full
      BY <1>1, <1>3 DEF AtLeast
    <2>2. QED
      BY <1>3, <2>1 DEF Say
  <1>6. QED
    BY <1>4, <1>5 DEF Uncut, FirstSaid, enough, given

\* Both stages of a row together give what the row gets by itself.
LEMMA TwoStagesAlone ==
    ASSUME NEW input \in Inputs, Direction(input) \in TwoStages,
           NEW second, second = Say(SecondRow(input, FirstSaid(input).text)),
           ~Blank(FirstSaid(input).text), ~Blank(second.text)
    PROVE  [second EXCEPT !.counted = FirstSaid(input).counted, !.score = "none"]
               = Translation[input]
  <1>1. Direction(input) \notin OneStage
    BY PivotAssumption DEF TwoStages, OneStage
  <1>2. FirstSaid(input).counted = input.text
    <2>1. input = [text |-> input.text, source |-> input.source,
                   target |-> input.target, budget |-> input.budget]
      BY PivotAssumption
    <2>2. FirstRow(input).text = input.text
      BY <2>1 DEF FirstRow
    <2>3. QED
      BY <2>2 DEF FirstSaid, Say
  <1>3. Alone(input) = [second EXCEPT !.counted = input.text, !.score = "none"]
    BY <1>1, UncutIsFirst DEF Alone
  <1>4. QED
    BY <1>2, <1>3, TranslationIsAlone

-----------------------------------------------------------------------------
\* One model is one model: a direct route is Infer, or fails.
LEMMA DirectIsOneModel ==
    ASSUME CoalesceInv, Direct
    PROVE  Infer \/ InferFails
  <1>1. CASE InferFails
    BY <1>1
  <1>2. CASE ~InferFails
    <2>1. PICK out \in Returned(unique) :
              /\ Len(out) = Len(unique) /\ outputs' = out /\ phase' = "reply"
              /\ UNCHANGED <<jobs, scanned, unique, byInput, repetitions, indices, replies>>
      BY <1>2 DEF Direct
    <2>2. out = [k \in 1 .. Len(unique) |-> Say(unique[k])]
      BY <2>1, RowsFacts, ReturnedAll
    <2>3. ASSUME NEW k \in 1 .. Len(unique)
          PROVE  Say(unique[k]) = Translation[unique[k]]
      <3>1. unique[k] \in Inputs /\ k \in DOMAIN unique
        BY RowsFacts
      <3>2. Direction(unique[k]) \in OneStage
        BY <3>1 DEF Direct, Routed
      <3>3. Alone(unique[k]) = Say(unique[k])
        BY <3>2 DEF Alone
      <3>4. QED
        BY <3>1, <3>3, TranslationIsAlone
    <2>4. outputs' = [k \in 1 .. Len(unique) |-> Translation[unique[k]]]
      BY <2>1, <2>2, <2>3
    <2>5. phase = "scan" /\ scanned = Len(jobs)
      BY DEF Direct, Routed, Handed
    <2>6. QED
      BY <2>1, <2>4, <2>5 DEF Infer
  <1>3. QED
    BY <1>1, <1>2

LEMMA FirstStageStep ==
    ASSUME CoalesceInv, FirstStage
    PROVE  \/ InferFails /\ UNCHANGED middle
           \/ UNCHANGED vars /\ MiddleInv'
  <1> DEFINE batch == [k \in DOMAIN unique |-> FirstRow(unique[k])]
  <1>1. CASE InferFails /\ UNCHANGED middle
    BY <1>1
  <1>2. CASE ~(InferFails /\ UNCHANGED middle)
    <2>1. PICK out \in Returned(batch) :
              Whole(batch, out) /\ middle' = out /\ UNCHANGED vars
      BY <1>2 DEF FirstStage
    <2>2. DOMAIN batch = 1 .. Len(unique) /\ Len(batch) = Len(unique) /\ Len(unique) \in Nat
      BY RowsFacts, StageLength
    <2>3. Len(out) = Len(batch)
      BY <2>1 DEF Whole
    <2>4. out = [k \in 1 .. Len(unique) |-> Say(batch[k])]
      BY <2>2, <2>3, ReturnedAll
    <2>5. out = [k \in DOMAIN unique |-> FirstSaid(unique[k])]
      BY <2>4, RowsFacts DEF FirstSaid
    <2>6. \A k \in DOMAIN unique : ~Blank(out[k].text)
      BY <2>1, <2>5 DEF Whole
    <2>7. unique' = unique /\ scanned' = scanned /\ jobs' = jobs /\ scanned = Len(jobs)
      BY <2>1 DEF vars, FirstStage, Routed, Handed
    <2>8. MiddleInv'
      BY <2>1, <2>5, <2>6, <2>7 DEF MiddleInv
    <2>9. QED
      BY <2>1, <2>8
  <1>3. QED
    BY <1>1, <1>2

LEMMA SecondStageIsOneModel ==
    ASSUME CoalesceInv, MiddleInv, SecondStage
    PROVE  Infer \/ InferFails
  <1> DEFINE batch == [k \in DOMAIN unique |-> SecondRow(unique[k], middle[k].text)]
  <1>1. CASE InferFails
    BY <1>1
  <1>2. CASE ~InferFails
    <2>1. PICK out \in Returned(batch) :
              /\ Whole(batch, out)
              /\ outputs' = [k \in DOMAIN out |->
                     [out[k] EXCEPT !.counted = middle[k].counted, !.score = "none"]]
              /\ phase' = "reply"
              /\ UNCHANGED <<jobs, scanned, unique, byInput, repetitions, indices, replies>>
      BY <1>2 DEF SecondStage
    <2>2. DOMAIN batch = 1 .. Len(unique) /\ Len(batch) = Len(unique) /\ Len(unique) \in Nat
      BY RowsFacts, StageLength
    <2>3. Len(out) = Len(batch)
      BY <2>1 DEF Whole
    <2>4. out = [k \in 1 .. Len(unique) |-> Say(batch[k])]
      BY <2>2, <2>3, ReturnedAll
    <2>5. /\ middle = [k \in DOMAIN unique |-> FirstSaid(unique[k])]
          /\ \A k \in DOMAIN unique : ~Blank(middle[k].text)
      BY DEF MiddleInv, SecondStage
    <2>6. ASSUME NEW k \in 1 .. Len(unique)
          PROVE  [out[k] EXCEPT !.counted = middle[k].counted, !.score = "none"]
                     = Translation[unique[k]]
      <3>1. unique[k] \in Inputs /\ k \in DOMAIN unique
        BY RowsFacts
      <3>2. Direction(unique[k]) \in TwoStages
        BY <3>1 DEF SecondStage, Routed
      <3>3. middle[k] = FirstSaid(unique[k]) /\ ~Blank(FirstSaid(unique[k]).text)
        BY <2>5, <3>1
      <3>4. out[k] = Say(SecondRow(unique[k], FirstSaid(unique[k]).text))
        BY <2>4, <3>1, <3>3
      <3>5. ~Blank(out[k].text)
        BY <2>1, <2>4 DEF Whole
      <3>6. QED
        BY <3>1, <3>2, <3>3, <3>4, <3>5, TwoStagesAlone
    <2>7. DOMAIN out = 1 .. Len(unique)
      BY <2>4
    <2>8. outputs' = [k \in 1 .. Len(unique) |-> Translation[unique[k]]]
      BY <2>1, <2>6, <2>7
    <2>9. phase = "scan" /\ scanned = Len(jobs)
      BY DEF SecondStage, Routed, Handed
    <2>10. QED
      BY <2>1, <2>8, <2>9 DEF Infer
  <1>3. QED
    BY <1>1, <1>2

\* Each step of the pivot backend's batch is a step of the one-model batch, or
\* none, and keeps what the first stage has left.
LEMMA PivotStep ==
    ASSUME PivotInv, [PivotNext]_pivotVars
    PROVE  [Next]_vars /\ MiddleInv'
  <1>0. CoalesceInv /\ MiddleInv
    BY DEF PivotInv
  <1>1. ASSUME InferFails \/ Infer \/ Answer \/ AnswerError \/ Answered \/ UNCHANGED vars,
               UNCHANGED middle
        PROVE  [Next]_vars /\ MiddleInv'
    <2>1. unique' = unique /\ scanned' = scanned /\ jobs' = jobs
      BY <1>1 DEF InferFails, Infer, Answer, AnswerError, Answered, vars
    <2>2. MiddleInv'
      BY <1>0, <1>1, <2>1 DEF MiddleInv
    <2>3. QED
      BY <1>1, <2>2 DEF Next
  <1>2. ASSUME ScanKnown \/ ScanNew, UNCHANGED middle
        PROVE  [Next]_vars /\ MiddleInv'
    <2>1. scanned < Len(jobs)
      BY <1>2 DEF ScanKnown, ScanNew
    <2>2. scanned # Len(jobs)
      BY <2>1, <1>0 DEF CoalesceInv, TypeOK
    <2>3. middle = <<>>
      BY <1>0, <2>2 DEF MiddleInv
    <2>4. MiddleInv'
      BY <1>2, <2>3 DEF MiddleInv
    <2>5. QED
      BY <1>2, <2>4 DEF Next
  <1>3. CASE UNCHANGED pivotVars
    BY <1>1, <1>3 DEF pivotVars
  <1>4. CASE Refuse \/ ModelFails
    BY <1>1, <1>4 DEF Refuse, ModelFails
  <1>5. CASE Direct
    <2>1. UNCHANGED middle
      BY <1>5 DEF Direct
    <2>2. QED
      BY <1>0, <1>1, <1>5, <2>1, DirectIsOneModel
  <1>6. CASE FirstStage
    <2>1. CASE UNCHANGED vars /\ MiddleInv'
      BY <2>1
    <2>2. QED
      BY <1>0, <1>1, <1>6, <2>1, FirstStageStep
  <1>7. CASE SecondStage
    <2>1. UNCHANGED middle
      BY <1>7 DEF SecondStage
    <2>2. QED
      BY <1>0, <1>1, <1>7, <2>1, SecondStageIsOneModel
  <1>8. QED
    BY <1>1, <1>2, <1>3, <1>4, <1>5, <1>6, <1>7 DEF PivotNext

\* The scheduler may take a pivot backend for one model: whatever the rows of a
\* batch, their texts and budgets, and however either model fails, the batch
\* behaves as with a backend that translates each row by itself or fails.
THEOREM PivotIsOneModel == PivotSpec => ImplementsOneModel
  <1>1. PivotInit => Init /\ PivotInv
    BY CoalesceInit DEF PivotInit, PivotInv, MiddleInv
  <1>2. PivotInv /\ [PivotNext]_pivotVars => [Next]_vars /\ PivotInv'
    BY PivotStep, CoalesceNext DEF PivotInv
  <1>3. QED
    BY <1>1, <1>2, PTL DEF PivotSpec, ImplementsOneModel, Spec

-----------------------------------------------------------------------------
(* Numbers, folds and recursive functions. *)

LEMMA MinimalSubset ==
    ASSUME NEW S, NEW T, T \subseteq FiniteSubsetsOf(S), T # {}
    PROVE  \E x \in T : \A y \in T : ~ (<<y, x>> \in StrictSubsetOrdering(S))
  <1>1. IsWellFoundedOn(StrictSubsetOrdering(S), FiniteSubsetsOf(S))
    BY FS_StrictSubsetOrderingWellFounded, Zenon
  <1>2. QED
    BY <1>1, WFMin, Zenon

\* A set of natural numbers has a least element: the one with the fewest below it.
LEMMA LeastNumber ==
    ASSUME NEW S, S \subseteq Nat, S # {}
    PROVE  \E m \in S : \A k \in S : m <= k
  <1> DEFINE Below(k) == 0 .. k
             T == {Below(k) : k \in S}
  <1>1. \A k \in S : k \in Nat
    OBVIOUS
  <1>2. \A k \in S : Below(k) \subseteq Nat /\ IsFiniteSet(Below(k))
    BY <1>1, FS_Interval
  <1>3. T \subseteq FiniteSubsetsOf(Nat)
    BY <1>2 DEF FiniteSubsetsOf
  <1>4. T # {}
    OBVIOUS
  <1> HIDE DEF T
  <1>5. PICK x \in T : \A y \in T : ~ (<<y, x>> \in StrictSubsetOrdering(Nat))
    BY <1>3, <1>4, MinimalSubset
  <1> USE DEF T
  <1>6. PICK m \in S : x = Below(m)
    BY <1>5
  <1>7. ASSUME NEW k \in S, k < m PROVE FALSE
    <2>1. m \in Below(m) /\ m \notin Below(k)
      BY <1>1, <1>7
    <2>2. Below(k) \subseteq Below(m)
      BY <1>1, <1>7
    <2>3. Below(k) # Below(m)
      BY <2>1
    <2>4. <<Below(k), Below(m)>> \in StrictSubsetOrdering(Nat)
      BY <2>2, <2>3, <1>2 DEF StrictSubsetOrdering
    <2>5. QED
      BY <2>4, <1>5, <1>6
  <1>8. QED
    BY <1>1, <1>6, <1>7

LEMMA MinIsLeast ==
    ASSUME NEW S, S \subseteq Nat, S # {}
    PROVE  Min(S) \in S /\ \A k \in S : Min(S) <= k
  BY LeastNumber DEF Min

LEMMA MinOfTwo ==
    ASSUME NEW a \in Nat, NEW b \in Nat
    PROVE  /\ Min({a, b}) \in Nat
           /\ Min({a, b}) = IF a <= b THEN a ELSE b
  BY MinIsLeast

\* What holds of a number and of the successor of each holds of all that follow.
LEMMA AllReached ==
    ASSUME NEW m \in Nat, NEW n \in Nat, NEW S,
           m \in S, \A k \in m .. n - 1 : k \in S => k + 1 \in S
    PROVE  m .. n \subseteq S
  <1> DEFINE Rest == {k \in m .. n : k \notin S}
  <1>1. ASSUME Rest # {} PROVE FALSE
    <2>1. PICK k \in Rest : \A j \in Rest : k <= j
      <3>1. Rest \subseteq Nat
        OBVIOUS
      <3> HIDE DEF Rest
      <3>2. QED
        BY <1>1, <3>1, LeastNumber
    <2>2. k \in m .. n /\ k # m
      BY <2>1
    <2>3. k - 1 \in m .. n - 1 /\ k - 1 \in S
      BY <2>1, <2>2
    <2>4. (k - 1) + 1 = k /\ (k - 1) + 1 \in S
      BY <2>2, <2>3
    <2>5. QED
      BY <2>1, <2>4
  <1>2. QED
    BY <1>1

\* f begins with base at m and takes a step to each next value.
Follows(f, m, n, base, step) ==
    \A k \in m .. n : f[k] = IF k = m THEN base ELSE step[k][f[k - 1]]

StaysIn(V, m, n, step) == \A k \in m .. n : k # m => \A v \in V : step[k][v] \in V

\* A function may be defined by what it is first and by a step from each value to
\* the next.
LEMMA StepsDefineFunction ==
    ASSUME NEW m \in Nat, NEW n \in Nat, m <= n, NEW V, NEW base \in V, NEW step,
           StaysIn(V, m, n, step)
    PROVE  \E f \in [m .. n -> V] : Follows(f, m, n, base, step)
  <1> USE DEF Follows, StaysIn
  <1> DEFINE Good(f, j) ==
                 /\ f \in [m .. j -> V]
                 /\ \A k \in m .. j : f[k] = IF k = m THEN base ELSE step[k][f[k - 1]]
             S == {j \in m .. n : \E f : Good(f, j)}
  <1>1. m \in S
    <2> DEFINE f == [k \in m .. m |-> base]
    <2>1. \A k \in m .. m : k = m
      OBVIOUS
    <2>2. \A k \in m .. m : f[k] = base
      BY <2>1
    <2>3. Good(f, m) /\ m \in m .. n
      BY <2>1, <2>2
    <2> HIDE DEF f
    <2>4. QED
      BY <2>3
  <1>2. ASSUME NEW j \in m .. n - 1, j \in S PROVE j + 1 \in S
    <2>1. PICK g : Good(g, j)
      BY <1>2
    <2> DEFINE h == [k \in m .. j + 1 |-> IF k = m THEN base ELSE step[k][g[k - 1]]]
    <2>2. \A k \in m .. j : h[k] = g[k] /\ g[k] \in V
      <3>1. \A k \in m .. j : g[k] = IF k = m THEN base ELSE step[k][g[k - 1]]
        BY <2>1
      <3>2. \A k \in m .. j : k \in m .. j + 1 /\ g[k] \in V
        BY <2>1
      <3>3. QED
        BY <3>1, <3>2
    <2>3. ASSUME NEW k \in m .. j + 1
          PROVE  /\ h[k] \in V
                 /\ h[k] = IF k = m THEN base ELSE step[k][h[k - 1]]
      <3>1. CASE k = m
        BY <3>1
      <3>2. CASE k # m
        <4>1. k - 1 \in m .. j /\ k \in m .. n
          BY <3>2, <2>3
        <4>2. h[k - 1] = g[k - 1] /\ g[k - 1] \in V
          BY <4>1, <2>2
        <4>3. QED
          BY <3>2, <4>1, <4>2
      <3>3. QED
        BY <3>1, <3>2
    <2>4. h \in [m .. j + 1 -> V]
      BY <2>3
    <2>5. j + 1 \in m .. n
      BY <1>2
    <2> HIDE DEF h
    <2>6. QED
      BY <2>3, <2>4, <2>5
  <1>3. n \in S
    <2> HIDE DEF S
    <2>1. m .. n \subseteq S
      BY <1>1, <1>2, AllReached
    <2>2. QED
      BY <2>1
  <1>4. QED
    BY <1>3

-----------------------------------------------------------------------------
(* What an input gets by itself. *)

AllSegments == [tokens : 0 .. MaxSource, wants : Nat]

AllInputs == [segments : Seq(AllSegments), budget : Nat, count : Nat \ {0}]

LEMMA InputFacts ==
    ASSUME NEW input \in AllInputs
    PROVE  /\ Len(input.segments) \in Nat
           /\ DOMAIN input.segments = 1 .. Len(input.segments)
           /\ input.budget \in Nat /\ input.count \in Nat \ {0}
           /\ \A k \in 1 .. Len(input.segments) :
                  /\ input.segments[k].tokens \in Nat
                  /\ input.segments[k].tokens <= MaxSource
                  /\ input.segments[k].wants \in Nat
  <1>1. /\ input.segments \in Seq(AllSegments)
        /\ input.budget \in Nat /\ input.count \in Nat \ {0}
    BY DEF AllInputs
  <1>2. MaxSource \in Nat
    BY BackendAssumption
  <1>3. \A k \in 1 .. Len(input.segments) : input.segments[k] \in AllSegments
    BY <1>1
  <1>4. QED
    BY <1>1, <1>2, <1>3 DEF AllSegments

LEMMA LeftOfBudget ==
    ASSUME NEW input \in AllInputs
    PROVE  /\ Left(input) \in [0 .. Len(input.segments) -> Nat]
           /\ Left(input)[0] = input.budget
           /\ \A k \in 1 .. Len(input.segments) :
                  Left(input)[k] = Left(input)[k - 1]
                                   - Min({Left(input)[k - 1], input.segments[k].wants})
  <1> DEFINE n == Len(input.segments)
             wants(k) == input.segments[k].wants
             step == [k \in 1 .. n |-> [v \in Nat |-> v - Min({v, wants(k)})]]
             body(f) == [k \in 0 .. n |->
                            IF k = 0 THEN input.budget
                            ELSE f[k - 1] - Min({f[k - 1], wants(k)})]
  <1>1. n \in Nat /\ input.budget \in Nat /\ \A k \in 1 .. n : wants(k) \in Nat
    BY InputFacts
  <1> HIDE DEF n, wants
  <1>2. \A k \in 1 .. n : \A v \in Nat :
            v - Min({v, wants(k)}) \in Nat /\ step[k][v] = v - Min({v, wants(k)})
    BY <1>1, MinOfTwo
  <1>3. PICK f \in [0 .. n -> Nat] : Follows(f, 0, n, input.budget, step)
    <2>1. StaysIn(Nat, 0, n, step)
      BY <1>1, <1>2 DEF StaysIn
    <2>2. 0 \in Nat /\ 0 <= n
      BY <1>1
    <2> HIDE DEF step
    <2>3. QED
      BY <1>1, <2>1, <2>2, StepsDefineFunction
  <1>4. f = body(f)
    <2>1. \A k \in 1 .. n : f[k - 1] \in Nat
      BY <1>1
    <2>2. \A k \in 1 .. n : step[k][f[k - 1]] = f[k - 1] - Min({f[k - 1], wants(k)})
      BY <2>1, <1>2
    <2> HIDE DEF step
    <2>3. \A k \in 0 .. n : f[k] = IF k = 0 THEN input.budget ELSE step[k][f[k - 1]]
      BY <1>3 DEF Follows
    <2>4. \A k \in 0 .. n : k # 0 => k \in 1 .. n
      BY <1>1
    <2>5. \A k \in 0 .. n : f[k] = body(f)[k]
      BY <2>2, <2>3, <2>4
    <2>6. f = [k \in 0 .. n |-> f[k]]
      OBVIOUS
    <2>7. QED
      BY <2>5, <2>6
  <1>5. Left(input) = CHOOSE g : g = body(g)
    BY DEF Left, n, wants
  <1>6. Left(input) = body(Left(input))
    <2> DEFINE B(g) == g = body(g)
    <2>1. B(f)
      BY <1>4
    <2>2. Left(input) = CHOOSE g : B(g)
      BY <1>5
    <2> HIDE DEF B
    <2>3. B(Left(input))
      BY <2>1, <2>2
    <2>4. QED
      BY <2>3 DEF B
  <1> DEFINE L == Left(input)
             S == {k \in 0 .. n : L[k] \in Nat}
  <1> HIDE DEF step
  <1>7. L[0] = input.budget
    BY <1>1, <1>6
  <1>8. \A k \in 1 .. n : L[k] = L[k - 1] - Min({L[k - 1], wants(k)})
    <2>1. \A k \in 1 .. n : k \in 0 .. n /\ k # 0
      BY <1>1
    <2>2. \A k \in 0 .. n :
              L[k] = IF k = 0 THEN input.budget ELSE L[k - 1] - Min({L[k - 1], wants(k)})
      BY <1>6
    <2>3. QED
      BY <2>1, <2>2
  <1>9. DOMAIN L = 0 .. n /\ L = [k \in DOMAIN L |-> L[k]]
    BY <1>6
  <1> HIDE DEF L, body
  <1>10. 0 .. n \subseteq S
    <2>1. 0 \in S
      BY <1>1, <1>7
    <2>2. ASSUME NEW k \in 0 .. n - 1, k \in S PROVE k + 1 \in S
      <3>1. k + 1 \in 1 .. n /\ k + 1 \in 0 .. n /\ (k + 1) - 1 = k
        BY <1>1
      <3>2. L[k + 1] = L[k] - Min({L[k], wants(k + 1)})
        BY <3>1, <1>8
      <3>3. L[k] \in Nat /\ wants(k + 1) \in Nat
        BY <3>1, <2>2, <1>1
      <3>4. L[k + 1] \in Nat
        BY <3>2, <3>3, MinOfTwo
      <3>5. QED
        BY <3>1, <3>4
    <2> HIDE DEF S
    <2>3. QED
      BY <1>1, <2>1, <2>2, AllReached
  <1>11. L \in [0 .. n -> Nat]
    BY <1>9, <1>10
  <1>12. QED
    BY <1>7, <1>8, <1>11 DEF L, n, wants

\* What is left stays the same over segments without content, and once it is
\* nothing.
LEMMA LeftIsKept ==
    ASSUME NEW input \in AllInputs,
           NEW j \in 0 .. Len(input.segments), NEW k \in j .. Len(input.segments),
           Left(input)[j] = 0 \/ \A i \in j + 1 .. k : input.segments[i].wants = 0
    PROVE  Left(input)[k] = Left(input)[j]
  <1> DEFINE L == Left(input)
             n == Len(input.segments)
             wants(i) == input.segments[i].wants
             S == {i \in j .. k : L[i] = L[j]}
  <1>1. n \in Nat /\ \A i \in 1 .. n : wants(i) \in Nat
    BY InputFacts
  <1>2. /\ L \in [0 .. n -> Nat]
        /\ \A i \in 1 .. n : L[i] = L[i - 1] - Min({L[i - 1], wants(i)})
    BY LeftOfBudget
  <1>3. L[j] = 0 \/ \A i \in j + 1 .. k : wants(i) = 0
    OBVIOUS
  <1> HIDE DEF L, n, wants
  <1>4. j \in 0 .. n /\ k \in j .. n
    BY DEF n
  <1>5. j \in S
    BY <1>1, <1>4
  <1>6. ASSUME NEW i \in j .. k - 1, i \in S PROVE i + 1 \in S
    <2>1. i \in 0 .. n /\ i + 1 \in 1 .. n /\ i + 1 \in j + 1 .. k /\ (i + 1) - 1 = i
      BY <1>1, <1>4
    <2>2. L[i] \in Nat /\ wants(i + 1) \in Nat
      BY <1>1, <1>2, <2>1
    <2>3. L[i + 1] = L[i] - Min({L[i], wants(i + 1)})
      BY <1>2, <2>1
    <2>4. L[i] = L[j]
      BY <1>6
    <2>5. Min({L[i], wants(i + 1)}) = 0
      <3>1. L[i] = 0 \/ wants(i + 1) = 0
        BY <1>3, <2>1, <2>4
      <3>2. QED
        BY <3>1, <2>2, MinOfTwo
    <2>6. L[i + 1] = L[j]
      BY <2>2, <2>3, <2>4, <2>5
    <2>7. i + 1 \in j .. k
      BY <1>1, <1>4
    <2>8. QED
      BY <2>6, <2>7
  <1>7. j \in Nat /\ k \in Nat /\ k \in j .. k
    BY <1>1, <1>4
  <1>8. k \in S
    <2>1. j .. k \subseteq S
      <3> HIDE DEF S
      <3>1. QED
        BY <1>5, <1>6, <1>7, AllReached
    <2>2. QED
      BY <2>1, <1>7
  <1>9. QED
    BY <1>8 DEF L

-----------------------------------------------------------------------------
(* A batch of the CPU backend. *)

\* The cells of attention of a batch whose rows are padded to the longest.
Cells(taken) ==
    LET longest == Max({Tokens(r) : r \in taken})
    IN  Cardinality(taken) * longest * longest

Taken(take) ==
    \A r \in 0 .. Len(rows) :
        take[r] = IF r = 0 THEN {}
                  ELSE take[r - 1] \cup (IF r \in Waiting /\ Room(take[r - 1], r) THEN {r} ELSE {})

LEMMA PackedIsTaken ==
    ASSUME Len(rows) \in Nat, DOMAIN rows = 1 .. Len(rows)
    PROVE  \E take \in [0 .. Len(rows) -> SUBSET (1 .. Len(rows))] :
               Taken(take) /\ Packed = take[Len(rows)]
  <1> DEFINE n == Len(rows)
             V == SUBSET (1 .. n)
             joins(S, r) == r \in Waiting /\ Room(S, r)
             next(S, r) == S \cup (IF joins(S, r) THEN {r} ELSE {})
             step == [r \in 1 .. n |-> [S \in V |-> next(S, r)]]
             body(f) == [r \in 0 .. n |-> IF r = 0 THEN {} ELSE next(f[r - 1], r)]
  <1>1. n \in Nat
    OBVIOUS
  <1>2. \A r \in 1 .. n : \A S \in V : step[r][S] = next(S, r) /\ next(S, r) \in V
    <2> HIDE DEF joins
    <2>1. \A r \in 1 .. n : \A S \in V : next(S, r) \in V
      OBVIOUS
    <2> HIDE DEF next
    <2>2. QED
      BY <2>1
  <1> HIDE DEF n, V, next
  <1>3. PICK f \in [0 .. n -> V] : Follows(f, 0, n, {}, step)
    <2>1. StaysIn(V, 0, n, step)
      BY <1>1, <1>2 DEF StaysIn
    <2>2. 0 \in Nat /\ 0 <= n /\ {} \in V
      BY <1>1 DEF V
    <2> HIDE DEF step
    <2>3. QED
      BY <1>1, <2>1, <2>2, StepsDefineFunction
  <1>4. f = body(f)
    <2>1. \A r \in 1 .. n : f[r - 1] \in V
      BY <1>1
    <2>2. \A r \in 1 .. n : step[r][f[r - 1]] = next(f[r - 1], r)
      BY <2>1, <1>2
    <2> HIDE DEF step
    <2>3. \A r \in 0 .. n : f[r] = IF r = 0 THEN {} ELSE step[r][f[r - 1]]
      BY <1>3 DEF Follows
    <2>4. \A r \in 0 .. n : r # 0 => r \in 1 .. n
      BY <1>1
    <2>5. \A r \in 0 .. n : f[r] = body(f)[r]
      BY <2>2, <2>3, <2>4
    <2>6. f = [r \in 0 .. n |-> f[r]]
      OBVIOUS
    <2>7. QED
      BY <2>5, <2>6
  <1> DEFINE B(g) == g = body(g)
             take == CHOOSE g : B(g)
  <1>5. Packed = take[n]
    BY DEF Packed, n, next
  <1>6. B(take)
    <2> HIDE DEF B
    <2>1. B(f)
      BY <1>4 DEF B
    <2>2. QED
      BY <2>1
  <1> HIDE DEF step
  <1>7. \A r \in 0 .. n : take[r] = IF r = 0 THEN {} ELSE next(take[r - 1], r)
    BY <1>6
  <1>8. DOMAIN take = 0 .. n /\ take = [k \in DOMAIN take |-> take[k]]
    BY <1>6
  <1> DEFINE T == {r \in 0 .. n : take[r] \in V}
  <1> HIDE DEF take, B
  <1>9. 0 .. n \subseteq T
    <2>1. 0 \in T
      BY <1>1, <1>7 DEF V
    <2>2. ASSUME NEW r \in 0 .. n - 1, r \in T PROVE r + 1 \in T
      <3>1. r + 1 \in 1 .. n /\ r + 1 \in 0 .. n /\ (r + 1) - 1 = r /\ r + 1 # 0
        BY <1>1
      <3>2. take[r + 1] = next(take[r], r + 1)
        BY <3>1, <1>7
      <3>3. take[r] \in V
        BY <2>2
      <3>4. take[r + 1] \in V
        BY <3>1, <3>2, <3>3, <1>2
      <3>5. QED
        BY <3>1, <3>4
    <2> HIDE DEF T
    <2>3. QED
      BY <1>1, <2>1, <2>2, AllReached
  <1>10. take \in [0 .. n -> V]
    BY <1>8, <1>9
  <1>11. Taken(take)
    BY <1>7 DEF Taken, n, next
  <1>12. QED
    BY <1>5, <1>10, <1>11 DEF n, V

LEMMA PackedFits ==
    ASSUME Len(rows) \in Nat, DOMAIN rows = 1 .. Len(rows)
    PROVE  /\ Packed \subseteq Waiting
           /\ Cardinality(Packed) <= MaxRows
           /\ Packed # {} => Cells(Packed) <= MaxCells
  <1> DEFINE n == Len(rows)
  <1>1. PICK take \in [0 .. n -> SUBSET (1 .. n)] : Taken(take) /\ Packed = take[n]
    BY PackedIsTaken
  <1>2. n \in Nat /\ MaxRows \in Nat
    BY BackendAssumption
  <1> DEFINE Fits(S) == /\ S \subseteq Waiting /\ IsFiniteSet(S)
                        /\ Cardinality(S) <= MaxRows
                        /\ S # {} => Cells(S) <= MaxCells
             T == {r \in 0 .. n : take[r] \subseteq 1 .. r /\ Fits(take[r])}
  <1>3. 0 \in T
    <2>1. take[0] = {} /\ 0 \in 0 .. n
      BY <1>1, <1>2 DEF Taken
    <2>2. IsFiniteSet({}) /\ Cardinality({}) = 0
      BY FS_EmptySet
    <2>3. QED
      BY <2>1, <2>2, <1>2
  <1>4. ASSUME NEW r \in 0 .. n - 1, r \in T PROVE r + 1 \in T
    <2> DEFINE old == take[r]
               new == take[r + 1]
    <2>1. /\ r \in 0 .. n /\ r + 1 \in 0 .. n /\ (r + 1) - 1 = r /\ r + 1 # 0
          /\ old \subseteq 1 .. r /\ Fits(old)
      BY <1>2, <1>4
    <2>2. new = old \cup (IF r + 1 \in Waiting /\ Room(old, r + 1) THEN {r + 1} ELSE {})
      <3>1. take[r + 1] = take[(r + 1) - 1] \cup
                (IF r + 1 \in Waiting /\ Room(take[(r + 1) - 1], r + 1) THEN {r + 1} ELSE {})
        BY <1>1, <2>1 DEF Taken
      <3>2. QED
        BY <3>1, <2>1
    <2> HIDE DEF old, new
    <2>3. new \subseteq 1 .. r + 1
      <3>1. 1 .. r \subseteq 1 .. r + 1 /\ r + 1 \in 1 .. r + 1
        BY <2>1
      <3>2. QED
        BY <2>1, <2>2, <3>1
    <2>4. CASE ~(r + 1 \in Waiting /\ Room(old, r + 1))
      <3>1. new = old
        BY <2>2, <2>4
      <3>2. Fits(new)
        BY <2>1, <3>1
      <3>3. QED
        BY <2>1, <2>3, <3>2 DEF new
    <2>5. CASE r + 1 \in Waiting /\ Room(old, r + 1)
      <3>1. new = old \cup {r + 1}
        BY <2>2, <2>5
      <3>2. r + 1 \notin old
        BY <2>1
      <3>3. IsFiniteSet(new) /\ Cardinality(new) = Cardinality(old) + 1
        BY <2>1, <3>1, <3>2, FS_AddElement
      <3>4. Cardinality(old) \in Nat
        BY <2>1, FS_CardinalityType
      <3>5. Cardinality(old) < MaxRows /\ Cells(new) <= MaxCells
        BY <2>5, <3>1, <3>3 DEF Room, Cells
      <3>6. Cardinality(new) <= MaxRows
        BY <1>2, <3>3, <3>4, <3>5
      <3>7. new \subseteq Waiting
        BY <2>1, <2>5, <3>1
      <3>8. Fits(new)
        BY <3>3, <3>5, <3>6, <3>7
      <3>9. QED
        BY <2>1, <2>3, <3>8 DEF new
    <2>6. QED
      BY <2>4, <2>5
  <1>5. n \in T
    <2>1. 0 \in Nat /\ n \in 0 .. n
      BY <1>2
    <2> HIDE DEF T
    <2>2. 0 .. n \subseteq T
      BY <1>2, <1>3, <1>4, <2>1, AllReached
    <2>3. QED
      BY <2>1, <2>2
  <1>6. QED
    BY <1>1, <1>5

-----------------------------------------------------------------------------
(* The rows of the Metal backend. *)

Repeated(i) == Min({inputs[i].count, Width})

RowsOf(planned, i) == {r \in DOMAIN planned : planned[r] = i}

Copies == [i \in DOMAIN inputs |-> [k \in 1 .. Repeated(i) |-> i]]

LEMMA CopyFacts ==
    ASSUME inputs \in Seq(AllInputs)
    PROVE  /\ Len(inputs) \in Nat /\ DOMAIN inputs = 1 .. Len(inputs)
           /\ \A i \in 1 .. Len(inputs) : inputs[i] \in AllInputs
           /\ \A i \in 1 .. Len(inputs) :
                  /\ Repeated(i) \in Nat \ {0} /\ Repeated(i) <= inputs[i].count
                  /\ Copies[i] = [k \in 1 .. Repeated(i) |-> i]
           /\ Len(Copies) = Len(inputs) /\ DOMAIN Copies = 1 .. Len(inputs)
  <1> DEFINE n == Len(inputs)
  <1>1. n \in Nat /\ DOMAIN inputs = 1 .. n /\ \A i \in 1 .. n : inputs[i] \in AllInputs
    OBVIOUS
  <1>2. \A i \in 1 .. n : inputs[i].count \in Nat \ {0}
    BY <1>1, InputFacts
  <1>3. Width \in Nat \ {0}
    BY BackendAssumption
  <1>4. ASSUME NEW i \in 1 .. n
        PROVE  Repeated(i) \in Nat \ {0} /\ Repeated(i) <= inputs[i].count
    <2>1. inputs[i].count \in Nat \ {0}
      BY <1>2
    <2>2. QED
      BY <2>1, <1>3, MinOfTwo DEF Repeated
  <1>5. Copies = [i \in 1 .. n |-> [k \in 1 .. Repeated(i) |-> i]]
    BY <1>1 DEF Copies
  <1> HIDE DEF n
  <1>6. Len(Copies) = n /\ DOMAIN Copies = 1 .. n
    BY <1>1, <1>5
  <1>7. QED
    BY <1>1, <1>4, <1>5, <1>6 DEF n

LEMMA JoinFacts ==
    ASSUME NEW S, NEW s \in Seq(S), NEW t \in Seq(S)
    PROVE  /\ s \o t \in Seq(S)
           /\ Len(s) \in Nat /\ Len(t) \in Nat
           /\ DOMAIN s = 1 .. Len(s) /\ DOMAIN t = 1 .. Len(t)
           /\ DOMAIN (s \o t) = 1 .. Len(s) + Len(t)
           /\ \A r \in 1 .. Len(s) : (s \o t)[r] = s[r]
           /\ \A r \in Len(s) + 1 .. Len(s) + Len(t) : (s \o t)[r] = t[r - Len(s)]
  OBVIOUS

Joined(flat) ==
    \A i \in 1 .. Len(inputs) :
        flat[i] = IF i = 1 THEN Copies[i] ELSE flat[i - 1] \o Copies[i]

\* FlattenSeq joins the copies one after another.
LEMMA ExpandedIsJoined ==
    ASSUME inputs \in Seq(AllInputs), inputs # <<>>
    PROVE  \E flat \in [1 .. Len(inputs) -> Seq(1 .. Len(inputs))] :
               Joined(flat) /\ Expanded = flat[Len(inputs)]
  <1> DEFINE n == Len(inputs)
             V == Seq(1 .. n)
             next(s, i) == s \o Copies[i]
             step == [i \in 1 .. n |-> [s \in V |-> next(s, i)]]
             body(f) == [i \in 1 .. n |-> IF i = 1 THEN Copies[i] ELSE next(f[i - 1], i)]
  <1>1. n \in Nat /\ n >= 1 /\ 1 \in 1 .. n
    <2>1. Len(inputs) \in Nat /\ Len(inputs) # 0
      OBVIOUS
    <2>2. QED
      BY <2>1
  <1>2. \A i \in 1 .. n : Copies[i] \in V
    <2> TAKE i \in 1 .. n
    <2>1. Copies[i] = [k \in 1 .. Repeated(i) |-> i] /\ Repeated(i) \in Nat
      BY CopyFacts
    <2>2. QED
      BY <2>1
  <1>3. \A i \in 1 .. n : \A s \in V : step[i][s] = next(s, i) /\ next(s, i) \in V
    <2>1. \A i \in 1 .. n : \A s \in V : next(s, i) \in V
      BY <1>2, JoinFacts
    <2> HIDE DEF next, V
    <2>2. QED
      BY <2>1
  <1> HIDE DEF n, V, next
  <1>4. PICK f \in [1 .. n -> V] : Follows(f, 1, n, Copies[1], step)
    <2>1. StaysIn(V, 1, n, step)
      BY <1>1, <1>3 DEF StaysIn
    <2>2. 1 \in Nat /\ 1 <= n /\ Copies[1] \in V
      BY <1>1, <1>2
    <2> HIDE DEF step
    <2>3. QED
      BY <1>1, <2>1, <2>2, StepsDefineFunction
  <1>5. f = body(f)
    <2>1. \A i \in 1 .. n : i # 1 => i - 1 \in 1 .. n /\ f[i - 1] \in V
      BY <1>1
    <2>2. \A i \in 1 .. n : i # 1 => step[i][f[i - 1]] = next(f[i - 1], i)
      BY <2>1, <1>3
    <2> HIDE DEF step
    <2>3. \A i \in 1 .. n : f[i] = IF i = 1 THEN Copies[1] ELSE step[i][f[i - 1]]
      BY <1>4 DEF Follows
    <2>5. \A i \in 1 .. n : f[i] = body(f)[i]
      BY <2>2, <2>3
    <2>6. f = [i \in 1 .. n |-> f[i]]
      OBVIOUS
    <2>7. QED
      BY <2>5, <2>6
  <1> DEFINE B(g) == g = body(g)
             flat == CHOOSE g : B(g)
  <1>6. Expanded = flat[n]
    <2>1. Expanded = FlattenSeq(Copies)
      BY DEF Expanded, Copies, Repeated
    <2>2. Len(Copies) = n /\ n # 0
      BY CopyFacts, <1>1 DEF n
    <2>3. QED
      BY <2>1, <2>2 DEF FlattenSeq, next
  <1>7. B(flat)
    <2> HIDE DEF B
    <2>1. B(f)
      BY <1>5 DEF B
    <2>2. QED
      BY <2>1
  <1> HIDE DEF step
  <1>8. \A i \in 1 .. n : flat[i] = IF i = 1 THEN Copies[i] ELSE next(flat[i - 1], i)
    BY <1>7
  <1>9. DOMAIN flat = 1 .. n /\ flat = [k \in DOMAIN flat |-> flat[k]]
    BY <1>7
  <1> DEFINE T == {i \in 1 .. n : flat[i] \in V}
  <1> HIDE DEF flat, B
  <1>10. 1 .. n \subseteq T
    <2>1. 1 \in T
      BY <1>1, <1>2, <1>8
    <2>2. ASSUME NEW i \in 1 .. n - 1, i \in T PROVE i + 1 \in T
      <3>1. i + 1 \in 1 .. n /\ (i + 1) - 1 = i /\ i + 1 # 1
        BY <1>1
      <3>2. flat[i + 1] = next(flat[i], i + 1)
        BY <3>1, <1>8
      <3>3. flat[i] \in V
        BY <2>2
      <3>4. flat[i + 1] \in V
        BY <3>1, <3>2, <3>3, <1>3
      <3>5. QED
        BY <3>1, <3>4
    <2> HIDE DEF T
    <2>3. QED
      BY <1>1, <2>1, <2>2, AllReached
  <1>11. flat \in [1 .. n -> V]
    BY <1>9, <1>10
  <1>12. Joined(flat)
    BY <1>8 DEF Joined, n, next
  <1>13. QED
    BY <1>6, <1>11, <1>12 DEF n, V

Join(s, t) == s \o t

\* t is w copies of i, which is more than the elements of s.
AreCopies(s, t, i, w) ==
    /\ \A r \in DOMAIN s : s[r] < i
    /\ DOMAIN t = 1 .. w
    /\ \A k \in 1 .. w : t[k] = i

HasCopies(u, s, i, w) ==
    /\ \A r \in DOMAIN u : u[r] <= i
    /\ \A j \in 1 .. i - 1 : RowsOf(u, j) = RowsOf(s, j)
    /\ RowsOf(u, i) = Len(s) + 1 .. Len(s) + w

LEMMA OneMoreCopy ==
    ASSUME NEW V \in SUBSET Nat, NEW s \in Seq(V), NEW t \in Seq(V),
           NEW i \in V, NEW w \in Nat \ {0}, AreCopies(s, t, i, w)
    PROVE  HasCopies(Join(s, t), s, i, w)
  <1> USE DEF AreCopies, HasCopies
  <1> DEFINE u == Join(s, t)
  <1>1. /\ Len(s) \in Nat /\ Len(t) = w
        /\ DOMAIN s = 1 .. Len(s) /\ DOMAIN u = 1 .. Len(s) + w
        /\ \A r \in 1 .. Len(s) : u[r] = s[r] /\ s[r] \in Nat
        /\ \A r \in Len(s) + 1 .. Len(s) + w : u[r] = t[r - Len(s)]
    <2>1. Len(t) = w
      OBVIOUS
    <2>2. \A r \in 1 .. Len(s) : s[r] \in Nat
      <3>1. \A r \in 1 .. Len(s) : s[r] \in V
        OBVIOUS
      <3>2. QED
        BY <3>1
    <2>3. /\ Len(s) \in Nat
          /\ DOMAIN s = 1 .. Len(s) /\ DOMAIN Join(s, t) = 1 .. Len(s) + Len(t)
          /\ \A r \in 1 .. Len(s) : Join(s, t)[r] = s[r]
          /\ \A r \in Len(s) + 1 .. Len(s) + Len(t) : Join(s, t)[r] = t[r - Len(s)]
      BY JoinFacts DEF Join
    <2>4. QED
      BY <2>1, <2>2, <2>3
  <1>2. \A r \in Len(s) + 1 .. Len(s) + w : u[r] = i
    <2>1. \A r \in Len(s) + 1 .. Len(s) + w : r - Len(s) \in 1 .. w
      BY <1>1
    <2>2. QED
      BY <1>1, <2>1
  <1> HIDE DEF u
  <1>3. \A r \in DOMAIN u : r \in 1 .. Len(s) \/ r \in Len(s) + 1 .. Len(s) + w
    BY <1>1
  <1>4. \A r \in 1 .. Len(s) : r \in DOMAIN u /\ u[r] < i
    <2>1. \A r \in 1 .. Len(s) : s[r] < i
      BY <1>1
    <2>2. \A r \in 1 .. Len(s) : r \in 1 .. Len(s) + w
      BY <1>1
    <2>3. QED
      BY <1>1, <2>1, <2>2
  <1>5. \A r \in Len(s) + 1 .. Len(s) + w : r \in DOMAIN u
    BY <1>1
  <1>6. \A r \in DOMAIN u : u[r] <= i
    BY <1>1, <1>2, <1>3, <1>4
  <1>7. ASSUME NEW j \in 1 .. i - 1 PROVE RowsOf(u, j) = RowsOf(s, j)
    BY <1>1, <1>2, <1>3, <1>4 DEF RowsOf
  <1>8. RowsOf(u, i) = Len(s) + 1 .. Len(s) + w
    BY <1>2, <1>3, <1>4, <1>5 DEF RowsOf
  <1>9. QED
    BY <1>6, <1>7, <1>8 DEF u

\* Each input has a row, and no more rows than jobs.
LEMMA ExpandedRows ==
    ASSUME inputs \in Seq(AllInputs)
    PROVE  /\ Expanded \in Seq(1 .. Len(inputs))
           /\ \A i \in 1 .. Len(inputs) :
                  /\ RowsOf(Expanded, i) # {} /\ IsFiniteSet(RowsOf(Expanded, i))
                  /\ Cardinality(RowsOf(Expanded, i)) <= inputs[i].count
  <1> DEFINE n == Len(inputs)
  <1>1. n \in Nat
    OBVIOUS
  <1>2. CASE inputs = <<>>
    <2>1. n = 0 /\ Len(Copies) = 0 /\ DOMAIN Copies = {}
      BY <1>2, CopyFacts
    <2>2. Expanded = Copies
      <3>1. Expanded = FlattenSeq(Copies)
        BY DEF Expanded, Copies, Repeated
      <3>2. QED
        BY <2>1, <3>1 DEF FlattenSeq
    <2>3. Copies = [i \in 1 .. 0 |-> Copies[i]]
      BY <2>1 DEF Copies
    <2>4. Copies \in Seq(1 .. 0)
      BY <2>3
    <2>5. QED
      BY <2>1, <2>2, <2>4
  <1>3. CASE inputs # <<>>
    <2>1. PICK flat \in [1 .. n -> Seq(1 .. n)] : Joined(flat) /\ Expanded = flat[n]
      BY <1>3, ExpandedIsJoined
    <2>2. 1 \in 1 .. n
      <3>1. n # 0
        BY <1>3
      <3>2. QED
        BY <1>1, <3>1
    <2> DEFINE Enough(s, j) == /\ RowsOf(s, j) # {} /\ IsFiniteSet(RowsOf(s, j))
                               /\ Cardinality(RowsOf(s, j)) <= inputs[j].count
               T == {i \in 1 .. n : /\ \A r \in DOMAIN flat[i] : flat[i][r] <= i
                                    /\ \A j \in 1 .. i : Enough(flat[i], j)}
    <2>3. ASSUME NEW a \in Nat, NEW w \in Nat \ {0}
          PROVE  /\ a + 1 .. a + w # {} /\ IsFiniteSet(a + 1 .. a + w)
                 /\ Cardinality(a + 1 .. a + w) = w
      <3>1. a + 1 \in a + 1 .. a + w /\ a + 1 \in Int /\ a + w \in Int
        OBVIOUS
      <3>2. /\ IsFiniteSet(a + 1 .. a + w)
            /\ Cardinality(a + 1 .. a + w) =
                  IF a + 1 > a + w THEN 0 ELSE (a + w) - (a + 1) + 1
        BY <3>1, FS_Interval
      <3>3. (IF a + 1 > a + w THEN 0 ELSE (a + w) - (a + 1) + 1) = w
        OBVIOUS
      <3>4. QED
        BY <3>1, <3>2, <3>3
    <2>4. \A i \in 1 .. n : /\ Repeated(i) \in Nat \ {0} /\ Repeated(i) <= inputs[i].count
                            /\ Copies[i] = [k \in 1 .. Repeated(i) |-> i]
      BY CopyFacts
    <2>5. 1 \in T
      <3>1. flat[1] = [k \in 1 .. Repeated(1) |-> 1]
        BY <2>1, <2>2, <2>4 DEF Joined
      <3>2. DOMAIN flat[1] = 0 + 1 .. 0 + Repeated(1) /\ \A r \in DOMAIN flat[1] : flat[1][r] = 1
        BY <3>1, <2>2, <2>4
      <3>3. RowsOf(flat[1], 1) = 0 + 1 .. 0 + Repeated(1)
        BY <3>2 DEF RowsOf
      <3>4. Enough(flat[1], 1)
        BY <3>3, <2>2, <2>3, <2>4
      <3>5. \A j \in 1 .. 1 : j = 1
        OBVIOUS
      <3>6. \A r \in DOMAIN flat[1] : flat[1][r] <= 1
        BY <3>2
      <3> HIDE DEF Enough
      <3>7. \A j \in 1 .. 1 : Enough(flat[1], j)
        BY <3>4, <3>5
      <3>8. QED
        BY <2>2, <3>6, <3>7
    <2>6. ASSUME NEW i \in 1 .. n - 1, i \in T PROVE i + 1 \in T
      <3> DEFINE s == flat[i]
                 t == Copies[i + 1]
                 u == flat[i + 1]
      <3>1. i \in 1 .. n /\ i + 1 \in 1 .. n /\ (i + 1) - 1 = i /\ i + 1 # 1
        BY <1>1
      <3>2. u = Join(s, t)
        <4>1. flat[i + 1] = flat[(i + 1) - 1] \o Copies[i + 1]
          BY <2>1, <3>1 DEF Joined
        <4>2. QED
          BY <4>1, <3>1 DEF Join
      <3>3. s \in Seq(1 .. n) /\ \A r \in DOMAIN s : s[r] < i + 1
        <4>1. s \in Seq(1 .. n) /\ \A r \in DOMAIN s : s[r] <= i
          BY <2>1, <2>6, <3>1
        <4>2. \A r \in DOMAIN s : s[r] \in 1 .. n
          BY <4>1
        <4>3. QED
          BY <1>1, <3>1, <4>1, <4>2
      <3> DEFINE w == Repeated(i + 1)
      <3>4. w \in Nat \ {0} /\ w <= inputs[i + 1].count /\ t = [k \in 1 .. w |-> i + 1]
        BY <2>4, <3>1
      <3>5. t \in Seq(1 .. n)
        BY <3>1, <3>4
      <3>12. DOMAIN t = 1 .. w /\ \A k \in 1 .. w : t[k] = i + 1
        BY <3>4
      <3> HIDE DEF s, t, u, w, n
      <3>6. /\ \A r \in DOMAIN Join(s, t) : Join(s, t)[r] <= i + 1
            /\ \A j \in 1 .. (i + 1) - 1 : RowsOf(Join(s, t), j) = RowsOf(s, j)
            /\ RowsOf(Join(s, t), i + 1) = Len(s) + 1 .. Len(s) + w
        <4>1. PICK next \in 1 .. n : next = i + 1
          BY <3>1
        <4> DEFINE V == 1 .. n
        <4>2. /\ V \in SUBSET Nat /\ next \in V /\ w \in Nat \ {0}
              /\ t \in Seq(V) /\ s \in Seq(V)
          BY <1>1, <3>3, <3>4, <3>5
        <4>3. AreCopies(s, t, next, w)
          BY <3>3, <3>12, <4>1 DEF AreCopies
        <4> HIDE DEF V
        <4>4. HasCopies(Join(s, t), s, next, w)
          BY <4>2, <4>3, OneMoreCopy
        <4>5. QED
          BY <4>1, <4>4 DEF HasCopies
      <3>7. \A j \in 1 .. i : Enough(u, j)
        <4>1. \A j \in 1 .. i : Enough(s, j)
          BY <2>6 DEF s
        <4>2. \A j \in 1 .. i : RowsOf(u, j) = RowsOf(s, j)
          BY <3>1, <3>2, <3>6
        <4>3. QED
          BY <4>1, <4>2
      <3>8. Enough(u, i + 1)
        <4>1. Len(s) \in Nat
          BY <3>3
        <4>2. RowsOf(u, i + 1) = Len(s) + 1 .. Len(s) + w
          BY <3>2, <3>6
        <4>3. QED
          BY <4>1, <4>2, <3>4, <2>3
      <3>9. \A j \in 1 .. i + 1 : j \in 1 .. i \/ j = i + 1
        BY <3>1
      <3>10. \A r \in DOMAIN u : u[r] <= i + 1
        BY <3>2, <3>6
      <3> HIDE DEF Enough
      <3>11. QED
        BY <3>1, <3>7, <3>8, <3>9, <3>10 DEF u
    <2>7. n \in T
      <3>1. 1 \in Nat /\ n \in 1 .. n
        BY <1>1, <2>2
      <3> HIDE DEF T
      <3>2. 1 .. n \subseteq T
        BY <1>1, <2>5, <2>6, <3>1, AllReached
      <3>3. QED
        BY <3>1, <3>2
    <2>8. n \in 1 .. n
      BY <1>1, <2>2
    <2>9. QED
      BY <2>1, <2>7, <2>8
  <1>4. QED
    BY <1>2, <1>3

-----------------------------------------------------------------------------
(* How far a row has come. *)

ContentWants(input) ==
    \A k \in 1 .. Len(input.segments) :
        input.segments[k].tokens = 0 => input.segments[k].wants = 0

\* The translations of a row that has p segments behind it.
Progress(input, p) ==
    [k \in 1 .. Len(input.segments) |->
        IF k <= p THEN Left(input)[k - 1] - Left(input)[k]
        ELSE IF input.segments[k].tokens = 0 THEN 0 ELSE -1]

Rest(input, p) == {k \in p + 1 .. Len(input.segments) : input.segments[k].tokens > 0}

\* What a row has made and what it has left follow from the segments behind it and
\* from its input alone.
RowAt(input, p, left, m) ==
    /\ p \in 0 .. Len(input.segments)
    /\ left = Left(input)[p]
    /\ m = Progress(input, p)

LEMMA RestFacts ==
    ASSUME NEW input \in AllInputs, NEW p \in 0 .. Len(input.segments)
    PROVE  /\ \A k \in Rest(input, p) :
                  k \in 1 .. Len(input.segments) /\ k > p /\ input.segments[k].tokens > 0
           /\ \A k \in p + 1 .. Len(input.segments) :
                  k \in 1 .. Len(input.segments)
                  /\ (k \notin Rest(input, p) => input.segments[k].tokens = 0)
           /\ Rest(input, p) # {} =>
                  /\ Min(Rest(input, p)) \in Rest(input, p)
                  /\ \A k \in Rest(input, p) : Min(Rest(input, p)) <= k
  <1> DEFINE n == Len(input.segments)
  <1>1. n \in Nat /\ p \in 0 .. n /\ \A k \in 1 .. n : input.segments[k].tokens \in Nat
    BY InputFacts
  <1>2. Rest(input, p) = {k \in p + 1 .. n : input.segments[k].tokens > 0}
    BY DEF Rest
  <1> HIDE DEF n
  <1>3. \A k \in p + 1 .. n : k \in 1 .. n /\ k > p
    BY <1>1
  <1>4. Rest(input, p) \subseteq Nat
    BY <1>1, <1>2, <1>3
  <1>5. \A k \in p + 1 .. n : k \notin Rest(input, p) => input.segments[k].tokens = 0
    BY <1>1, <1>2, <1>3
  <1>6. \A k \in Rest(input, p) : k \in 1 .. n /\ k > p /\ input.segments[k].tokens > 0
    BY <1>2, <1>3
  <1>7. QED
    BY <1>3, <1>4, <1>5, <1>6, MinIsLeast DEF n

\* Over segments without content a row makes nothing.
LEMMA NothingMade ==
    ASSUME NEW input \in AllInputs, ContentWants(input),
           NEW p \in 0 .. Len(input.segments), NEW q \in p .. Len(input.segments),
           Left(input)[p] = 0 \/ \A k \in p + 1 .. q : input.segments[k].tokens = 0
    PROVE  /\ Left(input)[q] = Left(input)[p]
           /\ \A k \in p + 1 .. q : Left(input)[k - 1] - Left(input)[k] = 0
  <1> DEFINE n == Len(input.segments)
             L == Left(input)
  <1>1. n \in Nat /\ p \in 0 .. n /\ q \in p .. n /\ L \in [0 .. n -> Nat]
    BY InputFacts, LeftOfBudget
  <1>2. L[p] = 0 \/ \A k \in p + 1 .. q : input.segments[k].wants = 0
    <2>1. \A k \in p + 1 .. q : k \in 1 .. n
      BY <1>1
    <2>2. QED
      BY <2>1 DEF ContentWants
  <1>3. ASSUME NEW i \in p .. q PROVE L[i] = L[p]
    <2>1. i \in p .. n
      BY <1>1
    <2>2. \A k \in p + 1 .. i : k \in p + 1 .. q
      BY <1>1
    <2>3. L[p] = 0 \/ \A k \in p + 1 .. i : input.segments[k].wants = 0
      BY <1>2, <2>2
    <2>4. QED
      BY <2>1, <2>3, LeftIsKept
  <1>4. q \in p .. q /\ \A k \in p + 1 .. q : k \in p .. q /\ k - 1 \in p .. q
    BY <1>1
  <1>5. L[p] \in Nat
    BY <1>1
  <1> HIDE DEF L
  <1>6. \A k \in p + 1 .. q : L[k - 1] = L[p] /\ L[k] = L[p]
    BY <1>3, <1>4
  <1>7. L[q] = L[p]
    BY <1>3, <1>4
  <1>8. QED
    BY <1>5, <1>6, <1>7 DEF L

\* A row without budget is through.
LEMMA SpentRow ==
    ASSUME NEW input \in AllInputs, ContentWants(input), NEW p, NEW m, RowAt(input, p, 0, m)
    PROVE  RowAt(input, Len(input.segments), 0,
                 [k \in DOMAIN m |-> IF k \in Rest(input, p) THEN 0 ELSE m[k]])
  <1> DEFINE n == Len(input.segments)
             L == Left(input)
             made2 == [k \in DOMAIN m |-> IF k \in Rest(input, p) THEN 0 ELSE m[k]]
  <1>1. p \in 0 .. n /\ L[p] = 0 /\ m = Progress(input, p)
    BY DEF RowAt
  <1>2. n \in Nat /\ n \in p .. n
    BY <1>1, InputFacts
  <1>3. L[n] = 0 /\ \A k \in p + 1 .. n : L[k - 1] - L[k] = 0
    BY <1>1, <1>2, NothingMade
  <1>4. DOMAIN m = 1 .. n
    BY <1>1 DEF Progress
  <1>5. ASSUME NEW k \in 1 .. n PROVE made2[k] = Progress(input, n)[k]
    <2>1. Progress(input, n)[k] = L[k - 1] - L[k]
      BY <1>2 DEF Progress
    <2>2. CASE k <= p
      <3>1. k \notin Rest(input, p)
        BY <1>1, <2>2, RestFacts
      <3>2. m[k] = L[k - 1] - L[k]
        BY <1>1, <2>2 DEF Progress
      <3>3. QED
        BY <1>4, <2>1, <3>1, <3>2
    <2>3. CASE k > p
      <3>1. k \in p + 1 .. n
        BY <1>1, <1>2, <2>3
      <3>2. Progress(input, n)[k] = 0
        BY <1>3, <2>1, <3>1
      <3>3. k \notin Rest(input, p) => m[k] = 0
        <4>1. k \notin Rest(input, p) => input.segments[k].tokens = 0
          BY <1>1, <3>1, RestFacts
        <4>2. ~(k <= p)
          BY <1>1, <1>2, <2>3
        <4>3. QED
          BY <1>1, <4>1, <4>2 DEF Progress
      <3>4. QED
        BY <1>4, <3>2, <3>3
    <2>4. QED
      BY <1>1, <2>2, <2>3
  <1>6. made2 = Progress(input, n)
    <2>1. made2 = [k \in 1 .. n |-> made2[k]]
      BY <1>4
    <2>2. Progress(input, n) = [k \in 1 .. n |-> Progress(input, n)[k]]
      BY DEF Progress
    <2> HIDE DEF made2
    <2>3. QED
      BY <1>5, <2>1, <2>2
  <1>7. n \in 0 .. n
    BY <1>2
  <1>8. QED
    BY <1>3, <1>6, <1>7 DEF RowAt

\* A row whose next segment is translated.
LEMMA TranslatedRow ==
    ASSUME NEW input \in AllInputs, ContentWants(input), NEW p, NEW left, NEW m,
           RowAt(input, p, left, m), Rest(input, p) # {},
           NEW f, f = Min(Rest(input, p)),
           NEW g, g = Min({input.segments[f].wants, left})
    PROVE  RowAt(input, f, left - g, [m EXCEPT ![f] = g])
  <1> DEFINE n == Len(input.segments)
             L == Left(input)
             made2 == [m EXCEPT ![f] = g]
  <1>1. n \in Nat /\ p \in 0 .. n /\ left = L[p] /\ m = Progress(input, p)
    BY InputFacts DEF RowAt
  <1>2. /\ f \in 1 .. n /\ f > p /\ f \in Rest(input, p)
        /\ \A k \in Rest(input, p) : f <= k
    BY <1>1, RestFacts
  <1>3. \A k \in p + 1 .. f - 1 : input.segments[k].tokens = 0
    <2>1. \A k \in p + 1 .. f - 1 : k \in p + 1 .. n /\ ~(f <= k)
      BY <1>1, <1>2
    <2>2. QED
      BY <1>1, <1>2, <2>1, RestFacts
  <1>4. f - 1 \in p .. n /\ f \in 0 .. n
    BY <1>1, <1>2
  <1>5. L[f - 1] = left /\ \A k \in p + 1 .. f - 1 : L[k - 1] - L[k] = 0
    BY <1>1, <1>3, <1>4, NothingMade
  <1>6. /\ L[f] = L[f - 1] - Min({L[f - 1], input.segments[f].wants})
        /\ L[f - 1] \in Nat /\ L[f] \in Nat
    <2>1. f - 1 \in 0 .. n /\ f \in 0 .. n
      BY <1>1, <1>2
    <2>2. /\ L \in [0 .. n -> Nat]
          /\ \A k \in 1 .. n : L[k] = L[k - 1] - Min({L[k - 1], input.segments[k].wants})
      BY LeftOfBudget
    <2> HIDE DEF L, n
    <2>3. QED
      BY <1>2, <2>1, <2>2
  <1>7. g = Min({L[f - 1], input.segments[f].wants})
    <2>1. {input.segments[f].wants, left} = {L[f - 1], input.segments[f].wants}
      BY <1>5
    <2>2. QED
      BY <2>1
  <1>8. g \in Nat
    <2>1. input.segments[f].wants \in Nat
      BY <1>2, InputFacts
    <2> HIDE DEF L
    <2>2. QED
      BY <1>6, <1>7, <2>1, MinOfTwo
  <1> HIDE DEF L, n
  <1>9. L[f] = left - g /\ L[f - 1] - L[f] = g
    BY <1>5, <1>6, <1>7, <1>8
  <1>10. DOMAIN m = 1 .. n
    BY <1>1 DEF Progress, n
  <1>11. ASSUME NEW k \in 1 .. n PROVE made2[k] = Progress(input, f)[k]
    <2>1. Progress(input, f)[k] = IF k <= f THEN L[k - 1] - L[k]
                                 ELSE IF input.segments[k].tokens = 0 THEN 0 ELSE -1
      BY DEF Progress, n, L
    <2>2. m[k] = IF k <= p THEN L[k - 1] - L[k]
                 ELSE IF input.segments[k].tokens = 0 THEN 0 ELSE -1
      BY <1>1 DEF Progress, n, L
    <2>3. CASE k <= p
      <3>1. k <= f /\ k # f
        BY <1>1, <1>2, <2>3
      <3>2. made2[k] = m[k]
        BY <3>1, <1>10
      <3>3. QED
        BY <2>1, <2>2, <2>3, <3>1, <3>2
    <2>4. CASE k \in p + 1 .. f - 1
      <3>1. k <= f /\ k # f /\ ~(k <= p)
        BY <1>1, <1>2, <2>4
      <3>2. made2[k] = m[k]
        BY <3>1, <1>10
      <3>3. input.segments[k].tokens = 0 /\ L[k - 1] - L[k] = 0
        BY <1>3, <1>5, <2>4
      <3>4. QED
        BY <2>1, <2>2, <3>1, <3>2, <3>3
    <2>5. CASE k = f
      <3>1. made2[k] = g /\ k <= f
        BY <1>2, <1>10, <2>5
      <3>2. QED
        BY <1>9, <2>1, <2>5, <3>1
    <2>6. CASE k > f
      <3>1. ~(k <= f) /\ ~(k <= p) /\ k # f
        BY <1>1, <1>2, <2>6
      <3>2. made2[k] = m[k]
        BY <3>1, <1>10
      <3>3. QED
        BY <2>1, <2>2, <3>1, <3>2
    <2>7. QED
      BY <1>1, <1>2, <2>3, <2>4, <2>5, <2>6
  <1>12. made2 = Progress(input, f)
    <2>1. made2 = [k \in 1 .. n |-> made2[k]]
      BY <1>10
    <2>2. Progress(input, f) = [k \in 1 .. n |-> Progress(input, f)[k]]
      BY DEF Progress, n
    <2> HIDE DEF made2
    <2>3. QED
      BY <1>11, <2>1, <2>2
  <1>13. QED
    BY <1>4, <1>9, <1>12 DEF RowAt, n, L

\* A row that is through has made what its input gets by itself.
LEMMA FinishedRow ==
    ASSUME NEW input \in AllInputs, ContentWants(input), NEW p, NEW left, NEW m,
           RowAt(input, p, left, m), Rest(input, p) = {}
    PROVE  m = ByItself(input)
  <1> DEFINE n == Len(input.segments)
             L == Left(input)
  <1>1. n \in Nat /\ p \in 0 .. n /\ m = Progress(input, p)
    BY InputFacts DEF RowAt
  <1>2. \A k \in p + 1 .. n : input.segments[k].tokens = 0
    BY <1>1, RestFacts
  <1>3. \A k \in p + 1 .. n : L[k - 1] - L[k] = 0
    <2>1. n \in p .. n
      BY <1>1
    <2>2. QED
      BY <1>1, <1>2, <2>1, NothingMade
  <1>4. ByItself(input) = [k \in 1 .. n |-> L[k - 1] - L[k]]
    BY InputFacts DEF ByItself
  <1> HIDE DEF L, n
  <1>5. ASSUME NEW k \in 1 .. n PROVE m[k] = L[k - 1] - L[k]
    <2>1. m[k] = IF k <= p THEN L[k - 1] - L[k]
                 ELSE IF input.segments[k].tokens = 0 THEN 0 ELSE -1
      BY <1>1 DEF Progress, n, L
    <2>2. CASE k <= p
      BY <2>1, <2>2
    <2>3. CASE ~(k <= p)
      <3>1. k \in p + 1 .. n
        BY <1>1, <2>3
      <3>2. QED
        BY <1>2, <1>3, <2>1, <2>3, <3>1
    <2>4. QED
      BY <2>2, <2>3
  <1>6. m = [k \in 1 .. n |-> m[k]]
    BY <1>1 DEF Progress, n
  <1>7. QED
    BY <1>4, <1>5, <1>6

-----------------------------------------------------------------------------
(* What holds while a backend is at work. *)

\* Every input has a row, and on the Metal backend no more rows than jobs.
Planned ==
    /\ rows \in Seq(1 .. Len(inputs))
    /\ \A i \in 1 .. Len(inputs) : RowsOf(rows, i) # {}
    /\ device = "metal" =>
           \A i \in 1 .. Len(inputs) :
               /\ IsFiniteSet(RowsOf(rows, i))
               /\ Cardinality(RowsOf(rows, i)) <= inputs[i].count

RowsAreWhereTheyAre ==
    \A r \in DOMAIN rows : RowAt(inputs[rows[r]], passed[r], remaining[r], made[r])

\* A row without budget has nothing left to do.
NoneIsBroke == \A r \in DOMAIN rows : remaining[r] = 0 => Todo(r) = {}

RunningFits ==
    /\ running \subseteq Waiting
    /\ device = "cpu" => Cardinality(running) <= MaxRows /\ Cells(running) <= MaxCells

SaneInputs ==
    /\ inputs \in Seq(AllInputs)
    /\ \A i \in 1 .. Len(inputs) : ContentWants(inputs[i])

BackendInv ==
    /\ SaneInputs
    /\ stage \in {"spend", "pack", "run", "done"} => Planned /\ RowsAreWhereTheyAre
    /\ stage \in {"pack", "run"} => NoneIsBroke
    /\ stage = "run" => RunningFits
    /\ stage = "done" => Waiting = {}

LEMMA RowFacts ==
    ASSUME SaneInputs, Planned
    PROVE  /\ Len(rows) \in Nat /\ DOMAIN rows = 1 .. Len(rows)
           /\ Len(inputs) \in Nat /\ DOMAIN inputs = 1 .. Len(inputs)
           /\ \A r \in DOMAIN rows :
                  /\ rows[r] \in 1 .. Len(inputs)
                  /\ inputs[rows[r]] \in AllInputs
                  /\ ContentWants(inputs[rows[r]])
                  /\ Todo(r) = Rest(inputs[rows[r]], passed[r])
  <1>1. Len(rows) \in Nat /\ DOMAIN rows = 1 .. Len(rows)
        /\ \A r \in DOMAIN rows : rows[r] \in 1 .. Len(inputs)
    BY DEF Planned
  <1>2. Len(inputs) \in Nat /\ DOMAIN inputs = 1 .. Len(inputs)
        /\ \A i \in 1 .. Len(inputs) : inputs[i] \in AllInputs /\ ContentWants(inputs[i])
    BY DEF SaneInputs
  <1>3. \A r \in DOMAIN rows : Todo(r) = Rest(inputs[rows[r]], passed[r])
    BY DEF Todo, Rest, Segments
  <1>4. QED
    BY <1>1, <1>2, <1>3

LEMMA BackendInitInv == BackendInit => BackendInv
  <1> SUFFICES ASSUME BackendInit PROVE BackendInv
    OBVIOUS
  <1>1. inputs \in Workloads /\ stage = "plan"
    BY DEF BackendInit
  <1>2. inputs \in Seq(AllInputs)
    BY <1>1, WorkloadsAssumption DEF AllInputs, AllSegments
  <1>3. ASSUME NEW i \in 1 .. Len(inputs) PROVE ContentWants(inputs[i])
    <2>1. inputs[i] \in AllInputs /\ i \in DOMAIN inputs
      BY <1>2
    <2>2. DOMAIN inputs[i].segments = 1 .. Len(inputs[i].segments)
      BY <2>1, InputFacts
    <2>3. QED
      BY <1>1, <2>1, <2>2, WorkloadsAssumption DEF ContentWants
  <1>4. QED
    BY <1>1, <1>2, <1>3 DEF BackendInv, SaneInputs

LEMMA SameInputs ==
    ASSUME SaneInputs, inputs' = inputs
    PROVE  SaneInputs'
  BY DEF SaneInputs

LEMMA PlanInv ==
    ASSUME BackendInv, Plan
    PROVE  BackendInv'
  <1> DEFINE planned == IF device = "metal" THEN Expanded ELSE [i \in DOMAIN inputs |-> i]
             n == Len(inputs)
  <1>1. SaneInputs /\ SaneInputs' /\ inputs' = inputs /\ device' = device
    BY SameInputs DEF BackendInv, Plan
  <1>2. CASE TooManySegments(planned) /\ stage' = "refused"
    BY <1>1, <1>2 DEF BackendInv
  <1>3. CASE /\ stage' = "spend"
             /\ rows' = planned
             /\ made' = [r \in DOMAIN planned |->
                            [k \in DOMAIN inputs[planned[r]].segments |->
                                IF inputs[planned[r]].segments[k].tokens = 0 THEN 0 ELSE -1]]
             /\ passed' = [r \in DOMAIN planned |-> 0]
             /\ remaining' = [r \in DOMAIN planned |-> inputs[planned[r]].budget]
    <2>1. inputs \in Seq(AllInputs) /\ n \in Nat /\ DOMAIN inputs = 1 .. n
          /\ \A i \in 1 .. n : inputs[i] \in AllInputs
      BY <1>1 DEF SaneInputs
    <2>2. planned \in Seq(1 .. n) /\ \A i \in 1 .. n : RowsOf(planned, i) # {}
      <3>1. CASE device = "metal"
        BY <2>1, <3>1, ExpandedRows
      <3>2. CASE device # "metal"
        <4>1. planned = [i \in 1 .. n |-> i]
          BY <2>1, <3>2
        <4> HIDE DEF planned, n
        <4>2. planned \in Seq(1 .. n)
          BY <2>1, <4>1
        <4>3. \A i \in 1 .. n : i \in RowsOf(planned, i)
          BY <4>1 DEF RowsOf
        <4>4. QED
          BY <4>2, <4>3
      <3>3. QED
        BY <3>1, <3>2
    <2>3. ASSUME device = "metal", NEW i \in 1 .. n
          PROVE  /\ IsFiniteSet(RowsOf(planned, i))
                 /\ Cardinality(RowsOf(planned, i)) <= inputs[i].count
      BY <2>1, <2>3, ExpandedRows
    <2> HIDE DEF planned
    <2>4. Planned'
      BY <1>1, <1>3, <2>2, <2>3 DEF Planned
    <2>5. ASSUME NEW r \in DOMAIN planned
          PROVE  RowAt(inputs[planned[r]], passed'[r], remaining'[r], made'[r])
      <3> DEFINE input == inputs[planned[r]]
      <3>1. planned[r] \in 1 .. n
        BY <2>2
      <3>2. input \in AllInputs
        BY <2>1, <3>1
      <3>3. /\ passed'[r] = 0 /\ remaining'[r] = input.budget
            /\ made'[r] = [k \in DOMAIN input.segments |->
                              IF input.segments[k].tokens = 0 THEN 0 ELSE -1]
        BY <1>3
      <3> HIDE DEF input
      <3>4. /\ Len(input.segments) \in Nat
            /\ DOMAIN input.segments = 1 .. Len(input.segments)
            /\ Left(input)[0] = input.budget
        BY <3>2, InputFacts, LeftOfBudget
      <3>5. \A k \in 1 .. Len(input.segments) : ~(k <= 0)
        BY <3>4
      <3>6. Progress(input, 0) = [k \in 1 .. Len(input.segments) |->
                                     IF input.segments[k].tokens = 0 THEN 0 ELSE -1]
        BY <3>5 DEF Progress
      <3>7. 0 \in 0 .. Len(input.segments)
        BY <3>4
      <3>8. RowAt(input, passed'[r], remaining'[r], made'[r])
        BY <3>3, <3>4, <3>6, <3>7 DEF RowAt
      <3>9. QED
        BY <3>8 DEF input
    <2>6. RowsAreWhereTheyAre'
      BY <1>1, <1>3, <2>5 DEF RowsAreWhereTheyAre
    <2>7. QED
      BY <1>1, <1>3, <2>4, <2>6 DEF BackendInv
  <1>4. QED
    BY <1>2, <1>3 DEF Plan

LEMMA SpendInv ==
    ASSUME BackendInv, Spend
    PROVE  BackendInv'
  <1>1. /\ SaneInputs /\ SaneInputs' /\ Planned /\ RowsAreWhereTheyAre
        /\ inputs' = inputs /\ rows' = rows /\ device' = device /\ remaining' = remaining
        /\ stage' = "pack"
    BY SameInputs DEF BackendInv, Spend
  <1>2. Planned'
    BY <1>1 DEF Planned
  <1>3. ASSUME NEW r \in DOMAIN rows
        PROVE  /\ RowAt(inputs[rows[r]], passed'[r], remaining[r], made'[r])
               /\ remaining[r] = 0 => Rest(inputs[rows[r]], passed'[r]) = {}
    <2> DEFINE input == inputs[rows[r]]
    <2>1. /\ input \in AllInputs /\ ContentWants(input)
          /\ Todo(r) = Rest(input, passed[r]) /\ Segments(r) = input.segments
      BY <1>1, RowFacts DEF Segments
    <2>2. RowAt(input, passed[r], remaining[r], made[r])
      BY <1>1 DEF RowsAreWhereTheyAre
    <2>3. /\ made'[r] = [k \in DOMAIN made[r] |->
                            IF remaining[r] = 0 /\ k \in Todo(r) THEN 0 ELSE made[r][k]]
          /\ passed'[r] = IF remaining[r] = 0 THEN Len(Segments(r)) ELSE passed[r]
      BY DEF Spend
    <2> HIDE DEF input
    <2>4. CASE remaining[r] = 0
      <3>1. /\ passed'[r] = Len(input.segments)
            /\ made'[r] = [k \in DOMAIN made[r] |->
                              IF k \in Rest(input, passed[r]) THEN 0 ELSE made[r][k]]
        BY <2>1, <2>3, <2>4
      <3>2. RowAt(input, Len(input.segments), 0,
                  [k \in DOMAIN made[r] |->
                      IF k \in Rest(input, passed[r]) THEN 0 ELSE made[r][k]])
        BY <2>1, <2>2, <2>4, SpentRow
      <3>3. Rest(input, Len(input.segments)) = {}
        BY <2>1, InputFacts DEF Rest
      <3>4. QED
        BY <2>4, <3>1, <3>2, <3>3 DEF input
    <2>5. CASE remaining[r] # 0
      <3>1. passed'[r] = passed[r] /\ made'[r] = [k \in DOMAIN made[r] |-> made[r][k]]
        BY <2>3, <2>5
      <3>2. made[r] = [k \in DOMAIN made[r] |-> made[r][k]]
        BY <2>2 DEF RowAt, Progress
      <3>3. QED
        BY <2>2, <2>5, <3>1, <3>2 DEF input
    <2>6. QED
      BY <2>4, <2>5
  <1>4. RowsAreWhereTheyAre'
    BY <1>1, <1>3 DEF RowsAreWhereTheyAre
  <1>5. NoneIsBroke'
    <2>1. \A r \in DOMAIN rows : Todo(r)' = Rest(inputs[rows[r]], passed'[r])
      BY <1>1 DEF Todo, Rest, Segments
    <2>2. QED
      BY <1>1, <1>3, <2>1 DEF NoneIsBroke
  <1>6. QED
    BY <1>1, <1>2, <1>4, <1>5 DEF BackendInv

LEMMA PackInv ==
    ASSUME BackendInv, Pack
    PROVE  BackendInv'
  <1>1. /\ SaneInputs /\ SaneInputs' /\ Planned /\ RowsAreWhereTheyAre /\ NoneIsBroke
        /\ inputs' = inputs /\ rows' = rows /\ device' = device /\ remaining' = remaining
        /\ passed' = passed /\ made' = made
        /\ (running' # {} /\ stage' = "run") \/ (Waiting = {} /\ stage' = "done")
        /\ running' = IF device = "metal" THEN MetalWork ELSE Packed
    BY SameInputs DEF BackendInv, Pack
  <1>2. Planned' /\ RowsAreWhereTheyAre' /\ NoneIsBroke'
    BY <1>1 DEF Planned, RowsAreWhereTheyAre, NoneIsBroke, Todo, Segments
  <1>3. Waiting' = Waiting
    BY <1>1 DEF Waiting, Todo, Segments
  <1>4. ASSUME running' # {} PROVE RunningFits'
    <2>1. CASE device = "metal"
      BY <1>1, <1>3, <2>1 DEF RunningFits, MetalWork
    <2>2. CASE device # "metal"
      <3>1. Len(rows) \in Nat /\ DOMAIN rows = 1 .. Len(rows)
        BY <1>1, RowFacts
      <3>2. running' = Packed
        BY <1>1, <2>2
      <3>3. running' \subseteq Waiting /\ Cardinality(running') <= MaxRows
            /\ Cells(running') <= MaxCells
        BY <1>4, <3>1, <3>2, PackedFits
      <3>4. \A r : Tokens(r)' = Tokens(r)
        BY <1>1 DEF Tokens, Following, Todo, Segments
      <3>5. Cells(running)' <= MaxCells
        BY <3>3, <3>4 DEF Cells
      <3>6. QED
        BY <1>3, <3>3, <3>5 DEF RunningFits
    <2>3. QED
      BY <2>1, <2>2
  <1>5. QED
    BY <1>1, <1>2, <1>3, <1>4 DEF BackendInv

LEMMA RunEngineInv ==
    ASSUME BackendInv, RunEngine
    PROVE  BackendInv'
  <1>1. /\ SaneInputs /\ SaneInputs' /\ Planned /\ RowsAreWhereTheyAre /\ RunningFits
        /\ inputs' = inputs /\ rows' = rows /\ device' = device
        /\ stage' = "spend"
    BY SameInputs DEF BackendInv, RunEngine
  <1>2. Planned'
    BY <1>1 DEF Planned
  <1>3. ASSUME NEW r \in DOMAIN rows
        PROVE  RowAt(inputs[rows[r]], passed'[r], remaining'[r], made'[r])
    <2> DEFINE input == inputs[rows[r]]
    <2>1. /\ input \in AllInputs /\ ContentWants(input)
          /\ Todo(r) = Rest(input, passed[r]) /\ Segments(r) = input.segments
      BY <1>1, RowFacts DEF Segments
    <2>2. RowAt(input, passed[r], remaining[r], made[r])
      BY <1>1 DEF RowsAreWhereTheyAre
    <2>3. CASE r \in running
      <3> DEFINE f == Following(r)
                 g == Generated(r)
      <3>1. Rest(input, passed[r]) # {}
        BY <1>1, <2>1, <2>3 DEF RunningFits, Waiting
      <3>2. f = Min(Rest(input, passed[r]))
        BY <2>1 DEF Following
      <3>3. g = Min({input.segments[f].wants, remaining[r]})
        BY <2>1 DEF Generated
      <3> HIDE DEF f, g, input
      <3>4. RowAt(input, f, remaining[r] - g, [made[r] EXCEPT ![f] = g])
        BY <2>1, <2>2, <3>1, <3>2, <3>3, TranslatedRow
      <3>5. /\ passed'[r] = f /\ remaining'[r] = remaining[r] - g
            /\ made'[r] = [made[r] EXCEPT ![f] = g]
        BY <2>3 DEF RunEngine, f, g
      <3>6. QED
        BY <3>4, <3>5 DEF input
    <2>4. CASE r \notin running
      <3>1. passed'[r] = passed[r] /\ remaining'[r] = remaining[r] /\ made'[r] = made[r]
        BY <2>4 DEF RunEngine
      <3>2. QED
        BY <2>2, <3>1
    <2>5. QED
      BY <2>3, <2>4
  <1>4. RowsAreWhereTheyAre'
    BY <1>1, <1>3 DEF RowsAreWhereTheyAre
  <1>5. QED
    BY <1>1, <1>2, <1>4 DEF BackendInv

LEMMA BackendUnchanged ==
    ASSUME BackendInv, UNCHANGED <<device, inputs, rows, made, passed, remaining, running>>,
           stage' = stage \/ stage' = "failed"
    PROVE  BackendInv'
  <1>1. Waiting' = Waiting
    BY DEF Waiting, Todo, Segments
  <1>2. /\ SaneInputs' = SaneInputs /\ Planned' = Planned
        /\ RowsAreWhereTheyAre' = RowsAreWhereTheyAre /\ NoneIsBroke' = NoneIsBroke
    BY DEF SaneInputs, Planned, RowsAreWhereTheyAre, NoneIsBroke, Todo, Segments
  <1>3. RunningFits' = RunningFits
    <2>1. Cells(running)' = Cells(running)
      BY DEF Cells, Tokens, Following, Todo, Segments
    <2>2. QED
      BY <1>1, <2>1 DEF RunningFits
  <1>4. QED
    BY <1>1, <1>2, <1>3 DEF BackendInv

LEMMA BackendInvariant == BackendSpec => []BackendInv
  <1>1. BackendInit => BackendInv
    BY BackendInitInv
  <1>2. BackendInv /\ [BackendNext]_backendVars => BackendInv'
    <2> SUFFICES ASSUME BackendInv, [BackendNext]_backendVars PROVE BackendInv'
      OBVIOUS
    <2>1. CASE Plan
      BY <2>1, PlanInv
    <2>2. CASE Spend
      BY <2>2, SpendInv
    <2>3. CASE Pack
      BY <2>3, PackInv
    <2>4. CASE RunEngine
      BY <2>4, RunEngineInv
    <2>5. CASE EngineFails
      BY <2>5, BackendUnchanged DEF EngineFails
    <2>6. CASE Ended
      BY <2>6, BackendUnchanged DEF Ended, backendVars
    <2>7. CASE UNCHANGED backendVars
      BY <2>7, BackendUnchanged DEF backendVars
    <2>8. QED
      BY <2>1, <2>2, <2>3, <2>4, <2>5, <2>6, <2>7 DEF BackendNext, Step
  <1>3. QED
    BY <1>1, <1>2, PTL DEF BackendSpec

\* Whatever it is batched with, however the engine's batches are cut and however
\* often it is repeated, an input gets what it would get by itself.
THEOREM BatchingStaysInvisible == BackendSpec => []BatchingIsInvisible
  <1>1. BackendInv => BatchingIsInvisible
    <2> SUFFICES ASSUME BackendInv, stage = "done", NEW i \in DOMAIN inputs
                 PROVE  made[OutputRow(i)] = ByItself(inputs[i])
      BY DEF BatchingIsInvisible
    <2>1. SaneInputs /\ Planned /\ RowsAreWhereTheyAre /\ Waiting = {}
      BY DEF BackendInv
    <2> DEFINE r == OutputRow(i)
    <2>2. r \in DOMAIN rows /\ rows[r] = i
      <3>1. RowsOf(rows, i) # {} /\ RowsOf(rows, i) \subseteq Nat
        BY <2>1, RowFacts DEF Planned, RowsOf
      <3>2. Min(RowsOf(rows, i)) \in RowsOf(rows, i)
        BY <3>1, MinIsLeast
      <3>3. QED
        BY <3>2 DEF OutputRow, RowsOf
    <2> HIDE DEF r
    <2>3. /\ inputs[i] \in AllInputs /\ ContentWants(inputs[i])
          /\ Rest(inputs[i], passed[r]) = {}
          /\ RowAt(inputs[i], passed[r], remaining[r], made[r])
      BY <2>1, <2>2, RowFacts DEF RowsAreWhereTheyAre, Waiting
    <2>4. made[r] = ByItself(inputs[i])
      BY <2>3, FinishedRow
    <2>5. QED
      BY <2>4 DEF r
  <1>2. QED
    BY <1>1, BackendInvariant, PTL

\* No batch is too long or too large for the engine, whatever lengths meet in it,
\* and no row of it has spent its budget.
THEOREM BatchesAreAlwaysAccepted == BackendSpec => []EngineAcceptsBatch
  <1>1. BackendInv => EngineAcceptsBatch
    <2> SUFFICES ASSUME BackendInv, stage = "run" PROVE EngineAcceptsBatch
      BY DEF EngineAcceptsBatch
    <2>1. SaneInputs /\ Planned /\ RowsAreWhereTheyAre /\ NoneIsBroke /\ RunningFits
      BY DEF BackendInv
    <2>2. ASSUME NEW r \in running PROVE remaining[r] > 0
      <3>1. r \in DOMAIN rows /\ remaining[r] # 0
        BY <2>1 DEF RunningFits, Waiting, NoneIsBroke
      <3>2. inputs[rows[r]] \in AllInputs
            /\ RowAt(inputs[rows[r]], passed[r], remaining[r], made[r])
        BY <2>1, <3>1, RowFacts DEF RowsAreWhereTheyAre
      <3>3. remaining[r] \in Nat
        BY <3>2, LeftOfBudget DEF RowAt
      <3>4. QED
        BY <3>1, <3>3
    <2>3. ASSUME device = "metal", NEW i \in DOMAIN inputs
          PROVE  Cardinality({r \in running : rows[r] = i}) <= inputs[i].count
      <3> DEFINE mine == {r \in running : rows[r] = i}
      <3>1. i \in 1 .. Len(inputs) /\ inputs[i] \in AllInputs
        BY <2>1, RowFacts DEF SaneInputs
      <3>2. mine \subseteq RowsOf(rows, i)
        BY <2>1 DEF RunningFits, Waiting, RowsOf
      <3>3. IsFiniteSet(RowsOf(rows, i)) /\ Cardinality(RowsOf(rows, i)) <= inputs[i].count
        BY <2>1, <2>3, <3>1 DEF Planned
      <3> HIDE DEF mine
      <3>4. /\ IsFiniteSet(mine) /\ Cardinality(mine) <= Cardinality(RowsOf(rows, i))
            /\ Cardinality(mine) \in Nat /\ Cardinality(RowsOf(rows, i)) \in Nat
        BY <3>2, <3>3, FS_Subset, FS_CardinalityType
      <3>5. inputs[i].count \in Nat
        BY <3>1, InputFacts
      <3>6. Cardinality(mine) <= inputs[i].count
        BY <3>3, <3>4, <3>5
      <3>7. QED
        BY <3>6 DEF mine
    <2>4. device = "cpu" => /\ Cardinality(running) <= MaxRows
                            /\ LET longest == Max({Tokens(r) : r \in running})
                               IN  Cardinality(running) * longest * longest <= MaxCells
      BY <2>1 DEF RunningFits, Cells
    <2>5. QED
      BY <2>2, <2>3, <2>4 DEF EngineAcceptsBatch
  <1>2. QED
    BY <1>1, BackendInvariant, PTL

LEMMA SquareGrows ==
    ASSUME NEW t \in Nat, NEW m \in Nat, t <= m
    PROVE  t * t <= m * m
  <1>1. PICK d \in Nat : m = t + d
    BY m - t \in Nat
  <1>2. m * m = t * t + 2 * (t * d) + d * d /\ t * d \in Nat /\ d * d \in Nat
    BY <1>1
  <1>3. t * t \in Nat
    OBVIOUS
  <1>4. QED
    BY <1>2, <1>3

LEMMA PackedIsSome ==
    ASSUME Len(rows) \in Nat, DOMAIN rows = 1 .. Len(rows), Waiting # {},
           \A r \in Waiting : Tokens(r) \in Nat /\ Tokens(r) <= MaxSource
    PROVE  Packed # {}
  <1> DEFINE n == Len(rows)
  <1>1. PICK take \in [0 .. n -> SUBSET (1 .. n)] : Taken(take) /\ Packed = take[n]
    BY PackedIsTaken
  <1>2. Waiting \subseteq 1 .. n /\ Waiting \subseteq Nat /\ n \in Nat
    BY DEF Waiting
  <1>3. PICK w \in Waiting : \A r \in Waiting : w <= r
    BY <1>2, LeastNumber
  <1>4. w \in 1 .. n /\ w \in Nat /\ w - 1 \in 0 .. n
    BY <1>2
  <1>5. Room({}, w)
    <2> DEFINE t == Tokens(w)
    <2>1. {Tokens(s) : s \in {} \cup {w}} = {t}
      OBVIOUS
    <2>2. t \in Nat /\ t <= MaxSource
      OBVIOUS
    <2> HIDE DEF t
    <2>3. Max({t}) = t
      BY <2>2 DEF Max
    <2>4. Cardinality({}) = 0
      BY FS_EmptySet
    <2>5. MaxSource \in Nat /\ MaxCells \in Nat /\ MaxRows \in Nat /\ MaxRows > 0
          /\ MaxSource * MaxSource <= MaxCells
      BY BackendAssumption
    <2>6. t * t <= MaxCells
      <3>1. t * t <= MaxSource * MaxSource
        BY <2>2, <2>5, SquareGrows
      <3>2. t * t \in Nat /\ MaxSource * MaxSource \in Nat
        BY <2>2, <2>5
      <3>3. QED
        BY <2>5, <3>1, <3>2
    <2>7. (0 + 1) * t * t = t * t
      BY <2>2
    <2>8. QED
      BY <2>1, <2>3, <2>4, <2>5, <2>6, <2>7 DEF Room
  <1> DEFINE Before == {r \in 0 .. w - 1 : take[r] = {}}
             After == {r \in w .. n : take[r] # {}}
  <1>6. \A r \in 1 .. n : take[r] = take[r - 1] \cup
            (IF r \in Waiting /\ Room(take[r - 1], r) THEN {r} ELSE {})
    <2>1. \A r \in 1 .. n : r \in 0 .. n /\ r # 0
      BY <1>2
    <2>2. QED
      BY <1>1, <2>1 DEF Taken
  <1>7. 0 .. w - 1 \subseteq Before
    <2>1. 0 \in Before
      BY <1>1, <1>4 DEF Taken
    <2>2. ASSUME NEW r \in 0 .. (w - 1) - 1, r \in Before PROVE r + 1 \in Before
      <3>1. r + 1 \in 1 .. n /\ (r + 1) - 1 = r /\ r + 1 \in 0 .. w - 1 /\ ~(w <= r + 1)
        BY <1>2, <1>4
      <3>2. r + 1 \notin Waiting /\ take[r] = {}
        BY <1>3, <2>2, <3>1
      <3>3. take[r + 1] = {}
        BY <1>6, <3>1, <3>2
      <3>4. QED
        BY <3>1, <3>3
    <2>3. w - 1 \in Nat
      BY <1>4
    <2> HIDE DEF Before
    <2>4. QED
      BY <2>1, <2>2, <2>3, AllReached
  <1>8. w .. n \subseteq After
    <2>1. w \in After
      <3>1. take[w - 1] = {}
        BY <1>4, <1>7
      <3>2. take[w] = {w}
        BY <1>4, <1>5, <1>6, <3>1
      <3>3. QED
        BY <1>2, <1>4, <3>2
    <2>2. ASSUME NEW r \in w .. n - 1, r \in After PROVE r + 1 \in After
      <3>1. r + 1 \in 1 .. n /\ (r + 1) - 1 = r /\ r + 1 \in w .. n
        BY <1>2, <1>4
      <3>2. take[r] # {}
        BY <2>2
      <3>3. take[r] \subseteq take[r + 1]
        BY <1>6, <3>1
      <3>4. QED
        BY <3>1, <3>2, <3>3
    <2> HIDE DEF After
    <2>3. QED
      BY <1>2, <1>4, <2>1, <2>2, AllReached
  <1>9. n \in w .. n
    BY <1>2, <1>4
  <1>10. QED
    BY <1>1, <1>8, <1>9

\* While a row waits, the CPU backend finds a batch to run: it never gives up on a
\* bounded one.
THEOREM ABatchIsFound == BackendSpec => [](stage = "pack" /\ Waiting # {} => Packed # {})
  <1>1. BackendInv => (stage = "pack" /\ Waiting # {} => Packed # {})
    <2> SUFFICES ASSUME BackendInv, stage = "pack", Waiting # {} PROVE Packed # {}
      OBVIOUS
    <2>1. SaneInputs /\ Planned /\ RowsAreWhereTheyAre
      BY DEF BackendInv
    <2>2. Len(rows) \in Nat /\ DOMAIN rows = 1 .. Len(rows)
      BY <2>1, RowFacts
    <2>3. ASSUME NEW r \in Waiting PROVE Tokens(r) \in Nat /\ Tokens(r) <= MaxSource
      <3> DEFINE input == inputs[rows[r]]
                 f == Following(r)
      <3>1. /\ input \in AllInputs /\ Rest(input, passed[r]) # {}
            /\ f = Min(Rest(input, passed[r])) /\ Segments(r) = input.segments
            /\ RowAt(input, passed[r], remaining[r], made[r])
        BY <2>1, RowFacts DEF Waiting, Following, Segments, RowsAreWhereTheyAre
      <3> HIDE DEF f, input
      <3>2. f \in 1 .. Len(input.segments)
        BY <3>1, RestFacts DEF RowAt
      <3>3. input.segments[f].tokens \in Nat /\ input.segments[f].tokens <= MaxSource
        BY <3>1, <3>2, InputFacts
      <3>4. Tokens(r) = input.segments[f].tokens
        BY <3>1 DEF Tokens, f
      <3>5. QED
        BY <3>3, <3>4
    <2>4. QED
      BY <2>2, <2>3, PackedIsSome
  <1>2. QED
    BY <1>1, BackendInvariant, PTL

=============================================================================
