---------------------------- MODULE AdmissionProofs ----------------------------
(* A parked sender is never forgotten: while the worker serves, every free slot *)
(* of the channel has a notification on its way, for every set of senders and   *)
(* every capacity.                                                              *)
EXTENDS Admission, FiniteSetTheorems, SequenceTheorems, TLAPS

-----------------------------------------------------------------------------
(* The inductive invariant. *)

SenderStates == {"new", "again", "registered", "full", "parked", "elapsed"} \cup Leaving
NoteStates == {"idle", "waiting", "one", "all", "consumed"}
WorkerStates == {"serve", "owes", "drain", "guard", "notify", "gone"}

AdmissionTypeOK ==
    /\ pc \in [Senders -> SenderStates]
    /\ note \in [Senders -> NoteStates]
    /\ waiters \in Seq(Senders)
    /\ permit \in BOOLEAN
    /\ chan \in Seq(Senders) /\ Len(chan) <= Capacity
    /\ worker \in WorkerStates
    /\ stopped \in BOOLEAN

\* The list holds the waiting futures, each once.
ListIsTheWaiting ==
    /\ \A x \in Senders : note[x] = "waiting" => \E i \in 1..Len(waiters) : waiters[i] = x
    /\ \A i \in 1..Len(waiters) : note[waiters[i]] = "waiting"
    /\ \A i, j \in 1..Len(waiters) : waiters[i] = waiters[j] => i = j

\* A future is on the list, or was notified, from before the probe to the end of
\* the await.
EnabledOnProbe ==
    \A x \in Senders :
        pc[x] \in {"registered", "full", "parked", "elapsed"} => note[x] # "idle"

\* x found the channel full and was not notified since.
Stuck(x) == pc[x] \in {"full", "parked", "elapsed"} /\ note[x] = "waiting"

Precedes(y, x) ==
    \E i, j \in 1..Len(waiters) : i < j /\ waiters[i] = y /\ waiters[j] = x

\* Those who will probe the channel, or pass a notification on, other than the
\* ones that x waits behind: they probe on their own account, and the next
\* dequeue notifies one of them and not x.
Underway(x) ==
    {y \in Senders : /\ pc[y] \in {"again", "registered"} \/ note[y] = "one"
                     /\ ~Precedes(y, x)}

Owed == IF worker = "owes" THEN 1 ELSE 0

\* Every free slot has a notification of its own, for each stuck sender.
EachStuckIsCovered ==
    worker \in {"serve", "owes"} =>
        \A x \in Senders : Stuck(x) =>
            Capacity - Len(chan) <= Cardinality(Underway(x)) + Owed

AdmissionInv ==
    /\ AdmissionTypeOK
    /\ ListIsTheWaiting
    /\ EnabledOnProbe
    /\ EachStuckIsCovered

-----------------------------------------------------------------------------
(* The list of waiters: what each operation of Notify does to it. *)

\* Nobody gets in front of a future that was waiting.
KeepsOrder ==
    \A x, y \in Senders : note[x] = "waiting" /\ Precedes(y, x)' => Precedes(y, x)

\* A list without one entry, as the entries of the longer one.
LEMMA UnlinkedEntries ==
    ASSUME waiters \in Seq(Senders), NEW i \in 1..Len(waiters)
    PROVE  /\ Unlinked(i) \in Seq(Senders)
           /\ Len(Unlinked(i)) = Len(waiters) - 1
           /\ \A j \in 1..Len(waiters) - 1 :
                 Unlinked(i)[j] = IF j < i THEN waiters[j] ELSE waiters[j + 1]
  <1>0. Len(waiters) \in Nat /\ i \in Nat /\ i >= 1 /\ i <= Len(waiters)
    BY LenProperties
  <1> DEFINE Front == SubSeq(waiters, 1, i - 1)
             Back == SubSeq(waiters, i + 1, Len(waiters))
  <1>1. /\ Front \in Seq(Senders) /\ Len(Front) = i - 1
        /\ \A j \in 1..i - 1 : Front[j] = waiters[j]
    <2>1. \A j \in 1..i - 1 : j \in 1..Len(waiters)
      BY <1>0
    <2>2. \A j \in 1..i - 1 : waiters[j] \in Senders
      BY <2>1, ElementOfSeq
    <2>3. Front = [j \in 1..i - 1 |-> waiters[j]]
      BY <1>0, SMT
    <2>4. Front \in Seq(Senders)
      BY <1>0, <2>2, <2>3, IsASeq
    <2>5. i - 1 \in Nat
      BY <1>0
    <2>6. Len(Front) = i - 1
      BY <2>3, <2>4, <2>5, LenProperties
    <2>7. QED
      BY <2>3, <2>4, <2>6
  <1>2. /\ Back \in Seq(Senders) /\ Len(Back) = Len(waiters) - i
        /\ \A j \in 1..Len(waiters) - i : Back[j] = waiters[i + j]
    BY <1>0, SubSeqProperties
  <1>a. Unlinked(i) = Front \o Back
    BY DEF Unlinked
  <1> HIDE DEF Front, Back
  <1>3. /\ Unlinked(i) \in Seq(Senders) /\ Len(Unlinked(i)) = Len(Front) + Len(Back)
        /\ \A j \in 1..Len(Front) + Len(Back) :
              Unlinked(i)[j] = IF j <= Len(Front) THEN Front[j] ELSE Back[j - Len(Front)]
    <2>1. Front \in Seq(Senders) /\ Back \in Seq(Senders)
      BY <1>1, <1>2
    <2>2. /\ Front \o Back \in Seq(Senders)
          /\ Len(Front \o Back) = Len(Front) + Len(Back)
          /\ \A j \in 1..Len(Front) + Len(Back) :
                (Front \o Back)[j] = IF j <= Len(Front) THEN Front[j]
                                                      ELSE Back[j - Len(Front)]
      BY <2>1, ConcatProperties
    <2>3. QED
      BY <1>a, <2>2
  <1>4. ASSUME NEW j \in 1..Len(waiters) - 1
        PROVE  Unlinked(i)[j] = IF j < i THEN waiters[j] ELSE waiters[j + 1]
    <2>1. CASE j < i
      <3>1. j \in 1..i - 1 /\ j \in 1..Len(Front) + Len(Back) /\ j <= Len(Front)
        BY <1>0, <1>1, <1>2, <2>1
      <3>2. Unlinked(i)[j] = Front[j] /\ Front[j] = waiters[j]
        BY <1>1, <1>3, <3>1
      <3>3. QED
        BY <2>1, <3>2
    <2>2. CASE j >= i
      <3>1. j - (i - 1) \in 1..Len(waiters) - i /\ i + (j - (i - 1)) = j + 1
        BY <1>0, <2>2
      <3>2. Unlinked(i)[j] = Back[j - (i - 1)]
        <4>1. /\ j \in 1..Len(Front) + Len(Back) /\ ~(j <= Len(Front))
              /\ j - Len(Front) = j - (i - 1)
          BY <1>0, <1>1, <1>2, <2>2
        <4>2. QED
          BY <1>3, <4>1
      <3>3. QED
        BY <1>0, <1>2, <2>2, <3>1, <3>2
    <2>3. QED
      BY <1>0, <2>1, <2>2
  <1>5. QED
    <2>1. Len(Unlinked(i)) = Len(waiters) - 1
      BY <1>0, <1>1, <1>2, <1>3
    <2>2. QED
      BY <1>3, <1>4, <2>1

\* One entry goes, by its notification or by its drop; the others close up.
LEMMA ListRemoval ==
    ASSUME waiters \in Seq(Senders), ListIsTheWaiting, NEW i \in 1..Len(waiters),
           waiters' \in Seq(Senders), Len(waiters') = Len(waiters) - 1,
           \A j \in 1..Len(waiters) - 1 :
               waiters'[j] = IF j < i THEN waiters[j] ELSE waiters[j + 1],
           note'[waiters[i]] # "waiting",
           \A y \in Senders \ {waiters[i]} : note'[y] = "waiting" <=> note[y] = "waiting"
    PROVE  ListIsTheWaiting' /\ KeepsOrder
  <1>0. Len(waiters) \in Nat /\ \A j \in 1..Len(waiters) : waiters[j] \in Senders
    BY LenProperties, ElementOfSeq
  <1> DEFINE Was(j) == IF j < i THEN j ELSE j + 1
  <1>1. /\ Len(waiters') = Len(waiters) - 1
        /\ \A j \in 1..Len(waiters') :
              /\ Was(j) \in 1..Len(waiters) /\ Was(j) # i
              /\ waiters'[j] = waiters[Was(j)]
    BY <1>0
  <1>2. \A j, k \in 1..Len(waiters') : /\ Was(j) = Was(k) => j = k
                                       /\ j < k => Was(j) < Was(k)
    BY <1>0, <1>1
  <1>3. \A j \in 1..Len(waiters) : j # i => \E k \in 1..Len(waiters') : Was(k) = j
    <2> SUFFICES ASSUME NEW j \in 1..Len(waiters), j # i
                 PROVE  \E k \in 1..Len(waiters') : Was(k) = j
      OBVIOUS
    <2>1. CASE j < i
      BY <1>0, <1>1, <2>1
    <2>2. CASE j > i
      <3>1. j - 1 \in 1..Len(waiters') /\ Was(j - 1) = j
        BY <1>0, <1>1, <2>2
      <3>2. QED
        BY <3>1
    <2>3. QED
      BY <1>0, <2>1, <2>2
  <1> HIDE DEF Was
  <1>4. \A j \in 1..Len(waiters') : waiters'[j] # waiters[i] /\ note'[waiters'[j]] = "waiting"
    <2> SUFFICES ASSUME NEW j \in 1..Len(waiters')
                 PROVE  waiters'[j] # waiters[i] /\ note'[waiters'[j]] = "waiting"
      OBVIOUS
    <2>1. /\ Was(j) \in 1..Len(waiters) /\ Was(j) # i
          /\ waiters'[j] = waiters[Was(j)]
      BY <1>1
    <2>2. /\ waiters[Was(j)] # waiters[i] /\ note[waiters[Was(j)]] = "waiting"
          /\ waiters[Was(j)] \in Senders
      BY <1>0, <2>1 DEF ListIsTheWaiting
    <2>3. QED
      BY <2>1, <2>2
  <1>5. \A x \in Senders : note'[x] = "waiting" => \E k \in 1..Len(waiters') : waiters'[k] = x
    <2> SUFFICES ASSUME NEW x \in Senders, note'[x] = "waiting"
                 PROVE  \E k \in 1..Len(waiters') : waiters'[k] = x
      OBVIOUS
    <2>1. x # waiters[i] /\ note[x] = "waiting"
      OBVIOUS
    <2>2. PICK j \in 1..Len(waiters) : waiters[j] = x
      BY <2>1 DEF ListIsTheWaiting
    <2>3. j # i
      BY <2>1, <2>2
    <2>4. QED
      BY <1>1, <1>3, <2>2, <2>3
  <1>6. \A j, k \in 1..Len(waiters') : waiters'[j] = waiters'[k] => j = k
    BY <1>1, <1>2 DEF ListIsTheWaiting
  <1>7. KeepsOrder
    <2> SUFFICES ASSUME NEW x \in Senders, NEW y \in Senders, Precedes(y, x)'
                 PROVE  Precedes(y, x)
      BY DEF KeepsOrder
    <2>1. PICK j, k \in 1..Len(waiters') : j < k /\ waiters'[j] = y /\ waiters'[k] = x
      BY DEF Precedes
    <2>2. Was(j) < Was(k) /\ waiters[Was(j)] = y /\ waiters[Was(k)] = x
      BY <1>1, <1>2, <2>1
    <2>3. QED
      BY <1>1, <2>2 DEF Precedes
  <1>8. QED
    BY <1>4, <1>5, <1>6, <1>7 DEF ListIsTheWaiting

\* A future joins at the end, behind everybody.
LEMMA ListAppend ==
    ASSUME waiters \in Seq(Senders), ListIsTheWaiting, NEW x \in Senders,
           waiters' = Append(waiters, x), note[x] # "waiting", note'[x] = "waiting",
           \A y \in Senders \ {x} : note'[y] = "waiting" <=> note[y] = "waiting"
    PROVE  waiters' \in Seq(Senders) /\ ListIsTheWaiting' /\ KeepsOrder
  <1>0. Len(waiters) \in Nat /\ \A j \in 1..Len(waiters) : waiters[j] \in Senders
    BY LenProperties, ElementOfSeq
  <1>1. /\ waiters' \in Seq(Senders) /\ Len(waiters') = Len(waiters) + 1
        /\ \A j \in 1..Len(waiters) : waiters'[j] = waiters[j]
        /\ waiters'[Len(waiters) + 1] = x
    BY AppendProperties
  <1>2. \A j \in 1..Len(waiters) : waiters[j] # x
    BY DEF ListIsTheWaiting
  <1>3. \A j \in 1..Len(waiters') : j \in 1..Len(waiters) \/ j = Len(waiters) + 1
    BY <1>0, <1>1
  <1>4. \A j \in 1..Len(waiters') : note'[waiters'[j]] = "waiting"
    BY <1>0, <1>1, <1>2, <1>3 DEF ListIsTheWaiting
  <1>5. ASSUME NEW y \in Senders, note'[y] = "waiting"
        PROVE  \E k \in 1..Len(waiters') : waiters'[k] = y
    <2>1. CASE y = x
      BY <1>0, <1>1, <2>1
    <2>2. CASE y # x
      <3>1. PICK k \in 1..Len(waiters) : waiters[k] = y
        BY <1>5, <2>2 DEF ListIsTheWaiting
      <3>2. k \in 1..Len(waiters') /\ waiters'[k] = y
        BY <1>0, <1>1, <3>1
      <3>3. QED
        BY <3>2
    <2>3. QED
      BY <2>1, <2>2
  <1>6. \A j, k \in 1..Len(waiters') : waiters'[j] = waiters'[k] => j = k
    BY <1>1, <1>2, <1>3 DEF ListIsTheWaiting
  <1>7. KeepsOrder
    <2> SUFFICES ASSUME NEW z \in Senders, NEW y \in Senders, note[z] = "waiting",
                        Precedes(y, z)'
                 PROVE  Precedes(y, z)
      BY DEF KeepsOrder
    <2>1. PICK j, k \in 1..Len(waiters') : j < k /\ waiters'[j] = y /\ waiters'[k] = z
      BY DEF Precedes
    <2>2. z # x
      OBVIOUS
    <2>3. k \in 1..Len(waiters)
      BY <1>1, <1>3, <2>1, <2>2
    <2>4. j \in 1..Len(waiters)
      BY <1>0, <1>3, <2>1, <2>3
    <2>5. QED
      BY <1>1, <2>1, <2>3, <2>4 DEF Precedes
  <1>8. QED
    BY <1>1, <1>4, <1>5, <1>6, <1>7 DEF ListIsTheWaiting

\* The list stays, and nobody begins or ends waiting.
LEMMA ListStays ==
    ASSUME ListIsTheWaiting, UNCHANGED waiters, waiters \in Seq(Senders),
           \A y \in Senders : note'[y] = "waiting" <=> note[y] = "waiting"
    PROVE  ListIsTheWaiting' /\ KeepsOrder
  <1>1. KeepsOrder
    BY DEF KeepsOrder, Precedes
  <1>2. \A i \in 1..Len(waiters) : waiters[i] \in Senders
    BY ElementOfSeq
  <1>3. QED
    BY <1>1, <1>2 DEF ListIsTheWaiting

-----------------------------------------------------------------------------
(* The three operations of Notify, over typed state. *)

NotifyTyped ==
    note \in [Senders -> NoteStates] /\ waiters \in Seq(Senders) /\ permit \in BOOLEAN

\* notify_one: the head of the list is notified, or nobody waited.
LEMMA HandStep ==
    ASSUME NotifyTyped, ListIsTheWaiting, NEW table \in [Senders -> NoteStates],
           \A y \in Senders : table[y] = "waiting" <=> note[y] = "waiting",
           Hand(table)
    PROVE  /\ NotifyTyped' /\ ListIsTheWaiting' /\ KeepsOrder
           /\ \/ waiters = <<>> /\ note' = table
              \/ /\ waiters # <<>> /\ Head(waiters) \in Senders
                 /\ note[Head(waiters)] = "waiting"
                 /\ note' = [table EXCEPT ![Head(waiters)] = "one"]
                 /\ \A x \in Senders : note'[x] = "waiting" => Precedes(Head(waiters), x)
  <1>1. CASE waiters = <<>>
    <2>1. UNCHANGED waiters /\ note' = table /\ permit' \in BOOLEAN
      BY <1>1 DEF Hand, NotifyTyped
    <2>2. ListIsTheWaiting' /\ KeepsOrder
      BY <2>1, ListStays DEF NotifyTyped
    <2>3. NotifyTyped'
      BY <2>1 DEF NotifyTyped
    <2>4. QED
      BY <1>1, <2>1, <2>2, <2>3
  <1>2. CASE waiters # <<>>
    <2>0. /\ Len(waiters) \in Nat /\ Len(waiters) > 0
          /\ Head(waiters) = waiters[1] /\ waiters[1] \in Senders
      BY <1>2, EmptySeq, LenProperties, ElementOfSeq DEF NotifyTyped
    <2>1. note' = [table EXCEPT ![Head(waiters)] = "one"] /\ waiters' = Tail(waiters)
          /\ permit' \in BOOLEAN
      BY <1>2 DEF Hand, NotifyTyped
    <2>2. /\ waiters' \in Seq(Senders) /\ Len(waiters') = Len(waiters) - 1
          /\ \A j \in 1..Len(waiters) - 1 : waiters'[j] = waiters[j + 1]
      BY <1>2, <2>0, <2>1, HeadTailProperties DEF NotifyTyped
    <2>3. /\ note' \in [Senders -> NoteStates] /\ note'[waiters[1]] = "one"
          /\ \A y \in Senders \ {waiters[1]} : note'[y] = table[y]
      BY <2>0, <2>1 DEF NoteStates
    <2>4. 1 \in 1..Len(waiters) /\ \A j \in 1..Len(waiters) - 1 : ~(j < 1)
      BY <2>0
    <2>5. ListIsTheWaiting' /\ KeepsOrder
      BY <2>2, <2>3, <2>4, ListRemoval DEF NotifyTyped
    <2>6. note[Head(waiters)] = "waiting"
      BY <2>0, <2>4 DEF ListIsTheWaiting
    <2>7. ASSUME NEW x \in Senders, note'[x] = "waiting"
          PROVE  Precedes(Head(waiters), x)
      <3>1. x # waiters[1] /\ note[x] = "waiting"
        BY <2>3, <2>7
      <3>2. PICK k \in 1..Len(waiters) : waiters[k] = x
        BY <3>1 DEF ListIsTheWaiting
      <3>3. k > 1
        BY <2>0, <3>1, <3>2
      <3>4. QED
        BY <2>0, <2>4, <3>2, <3>3 DEF Precedes
    <2>8. QED
      BY <1>2, <2>0, <2>1, <2>2, <2>3, <2>5, <2>6, <2>7 DEF NotifyTyped
  <1>3. QED
    BY <1>1, <1>2

\* enable or the first poll: afterwards the future is on the list or notified.
LEMMA EnableStep ==
    ASSUME NotifyTyped, ListIsTheWaiting, NEW x \in Senders, Enable(x)
    PROVE  /\ NotifyTyped' /\ ListIsTheWaiting' /\ KeepsOrder
           /\ note'[x] # "idle" /\ (note[x] # "idle" => note' = note)
           /\ \A y \in Senders \ {x} : note'[y] = note[y]
  <1>1. CASE note[x] # "idle"
    <2>1. UNCHANGED notify
      BY <1>1 DEF Enable
    <2>2. UNCHANGED <<note, waiters, permit>>
      BY <2>1 DEF notify
    <2>3. QED
      BY <1>1, <2>2, ListStays DEF NotifyTyped
  <1>2. CASE note[x] = "idle" /\ permit
    <2>1. permit' = FALSE /\ UNCHANGED waiters /\ note' = [note EXCEPT ![x] = "consumed"]
      BY <1>2 DEF Enable
    <2>2. /\ note' \in [Senders -> NoteStates] /\ note'[x] = "consumed"
          /\ \A y \in Senders \ {x} : note'[y] = note[y]
      BY <2>1 DEF NotifyTyped, NoteStates
    <2>3. ListIsTheWaiting' /\ KeepsOrder
      BY <1>2, <2>1, <2>2, ListStays DEF NotifyTyped
    <2>4. QED
      BY <1>2, <2>1, <2>2, <2>3 DEF NotifyTyped
  <1>3. CASE note[x] = "idle" /\ ~permit
    <2>1. /\ UNCHANGED permit /\ waiters' = Append(waiters, x)
          /\ note' = [note EXCEPT ![x] = "waiting"]
      BY <1>3 DEF Enable
    <2>2. /\ note' \in [Senders -> NoteStates] /\ note'[x] = "waiting"
          /\ \A y \in Senders \ {x} : note'[y] = note[y]
      BY <2>1 DEF NotifyTyped, NoteStates
    <2>3. waiters' \in Seq(Senders) /\ ListIsTheWaiting' /\ KeepsOrder
      BY <1>3, <2>1, <2>2, ListAppend DEF NotifyTyped
    <2>4. QED
      BY <1>3, <2>1, <2>2, <2>3 DEF NotifyTyped
  <1>4. QED
    BY <1>1, <1>2, <1>3

\* The drop: the future leaves the list, or its notification goes to the head.
LEMMA DropStep ==
    ASSUME NotifyTyped, ListIsTheWaiting, NEW x \in Senders, Drop(x)
    PROVE  /\ NotifyTyped' /\ ListIsTheWaiting' /\ KeepsOrder
           /\ \A y \in Senders \ {x} :
                 note'[y] = note[y] \/ (note[y] = "waiting" /\ note'[y] = "one")
           /\ note'[x] # "waiting"
           /\ \/ note[x] # "one"
              \/ waiters = <<>>
              \/ \E h \in Senders :
                    /\ note[h] = "waiting" /\ note'[h] = "one"
                    /\ \A y \in Senders : note'[y] = "waiting" => Precedes(h, y)
  <1> DEFINE table == [note EXCEPT ![x] = "idle"]
  <1>0. /\ table \in [Senders -> NoteStates] /\ table[x] = "idle"
        /\ \A y \in Senders \ {x} : table[y] = note[y]
    BY DEF NotifyTyped, NoteStates
  <1>1. CASE note[x] = "one"
    <2>1. Hand(table)
      BY <1>1 DEF Drop
    <2>2. \A y \in Senders : table[y] = "waiting" <=> note[y] = "waiting"
      BY <1>0, <1>1
    <2> HIDE DEF table
    <2>3. /\ NotifyTyped' /\ ListIsTheWaiting' /\ KeepsOrder
          /\ \/ waiters = <<>> /\ note' = table
             \/ /\ waiters # <<>> /\ Head(waiters) \in Senders
                /\ note[Head(waiters)] = "waiting"
                /\ note' = [table EXCEPT ![Head(waiters)] = "one"]
                /\ \A y \in Senders : note'[y] = "waiting" => Precedes(Head(waiters), y)
      BY <1>0, <2>1, <2>2, HandStep
    <2>4. CASE waiters = <<>> /\ note' = table
      BY <1>0, <2>3, <2>4
    <2>5. CASE waiters # <<>>
      <3>1. /\ Head(waiters) \in Senders /\ note[Head(waiters)] = "waiting"
            /\ note'[Head(waiters)] = "one" /\ Head(waiters) # x
            /\ \A y \in Senders \ {Head(waiters)} : note'[y] = table[y]
        BY <1>0, <1>1, <2>3, <2>5
      <3>2. QED
        BY <1>0, <2>3, <2>5, <3>1
    <2>6. QED
      BY <2>3, <2>4, <2>5
  <1>2. CASE note[x] # "one"
    <2>1. note' = table /\ UNCHANGED permit
      BY <1>2 DEF Drop
    <2>2. CASE note[x] = "waiting"
      <3>1. PICK i \in 1..Len(waiters) : waiters[i] = x /\ waiters' = Unlinked(i)
        BY <2>2 DEF Drop
      <3>2. waiters' \in Seq(Senders) /\ ListIsTheWaiting' /\ KeepsOrder
        BY <1>0, <2>1, <3>1, UnlinkedEntries, ListRemoval DEF NotifyTyped
      <3>3. QED
        BY <1>0, <1>2, <2>1, <3>2 DEF NotifyTyped
    <2>3. CASE note[x] # "waiting"
      <3>1. UNCHANGED waiters
        BY <1>2, <2>3 DEF Drop
      <3>2. ListIsTheWaiting' /\ KeepsOrder
        BY <1>0, <2>1, <2>3, <3>1, ListStays DEF NotifyTyped
      <3>3. QED
        BY <1>0, <1>2, <2>1, <3>1, <3>2 DEF NotifyTyped
    <2>4. QED
      BY <2>2, <2>3
  <1>3. QED
    BY <1>1, <1>2

-----------------------------------------------------------------------------
(* Types, the list and the futures in every step. *)

\* What a step does to the Notify.
LEMMA NotifyKinds ==
    ASSUME [Next]_vars
    PROVE  \/ UNCHANGED notify
           \/ \E x \in Senders : Enable(x) \/ Drop(x)
           \/ Hand(note)
           \/ \E x \in Senders : Wake(x)
           \/ Release
  BY DEF Next, vars, SenderStep, Register, ProbeAndLeave, ProbeFull, CheckWorker, Refuse,
         Elapse, Cancel, Receive, NotifyOne, BeginDrain, Drain, DropReceiver, SetStopped,
         Housekeeping, Ended

LEMMA NotifySteps ==
    ASSUME NotifyTyped, ListIsTheWaiting, [Next]_vars
    PROVE  NotifyTyped' /\ ListIsTheWaiting' /\ KeepsOrder
  <1>1. CASE UNCHANGED notify
    <2>1. UNCHANGED <<note, waiters, permit>>
      BY <1>1 DEF notify
    <2>2. QED
      BY <2>1, ListStays DEF NotifyTyped
  <1>2. CASE \E x \in Senders : Enable(x) \/ Drop(x)
    BY <1>2, EnableStep, DropStep
  <1>3. CASE Hand(note)
    BY <1>3, HandStep DEF NotifyTyped
  <1>4. ASSUME NEW x \in Senders, Wake(x)
        PROVE  NotifyTyped' /\ ListIsTheWaiting' /\ KeepsOrder
    <2>1. /\ note[x] # "waiting" /\ note' = [note EXCEPT ![x] = "idle"]
          /\ UNCHANGED <<waiters, permit>>
      BY <1>4 DEF Wake
    <2>2. /\ note' \in [Senders -> NoteStates] /\ note'[x] = "idle"
          /\ \A y \in Senders \ {x} : note'[y] = note[y]
      BY <2>1 DEF NotifyTyped, NoteStates
    <2>3. QED
      BY <2>1, <2>2, ListStays DEF NotifyTyped
  <1>5. CASE Release
    <2>1. /\ waiters' = <<>> /\ UNCHANGED permit
          /\ note' = [x \in Senders |-> IF note[x] = "waiting" THEN "all" ELSE note[x]]
      BY <1>5 DEF Release
    <2>2. /\ note' \in [Senders -> NoteStates]
          /\ \A x \in Senders : note'[x] # "waiting"
      BY <2>1 DEF NotifyTyped, NoteStates
    <2>3. waiters' \in Seq(Senders) /\ Len(waiters') = 0
      BY <2>1, EmptySeq
    <2>4. QED
      BY <2>1, <2>2, <2>3 DEF NotifyTyped, ListIsTheWaiting, KeepsOrder, Precedes
  <1>6. QED
    BY <1>1, <1>2, <1>3, <1>4, <1>5, NotifyKinds

LEMMA TypeStep ==
    ASSUME AdmissionTypeOK, ListIsTheWaiting, [Next]_vars
    PROVE  AdmissionTypeOK'
  <1>1. NotifyTyped /\ NotifyTyped'
    BY NotifySteps DEF AdmissionTypeOK, NotifyTyped
  <1>2. pc' \in [Senders -> SenderStates]
    BY DEF AdmissionTypeOK, SenderStates, Leaving, Next, vars, SenderStep, Register,
           ProbeAndLeave, ProbeFull, CheckWorker, Wake, Refuse, Elapse, Cancel, Receive,
           NotifyOne, BeginDrain, Drain, DropReceiver, SetStopped, Release, Housekeeping,
           Ended
  <1>3. worker' \in WorkerStates /\ stopped' \in BOOLEAN
    BY DEF AdmissionTypeOK, WorkerStates, Next, vars, SenderStep, Register,
           ProbeAndLeave, ProbeFull, CheckWorker, Wake, Refuse, Elapse, Cancel, Receive,
           NotifyOne, BeginDrain, Drain, DropReceiver, SetStopped, Release, Housekeeping,
           Ended
  <1>4. chan' \in Seq(Senders) /\ Len(chan') <= Capacity
    <2>0. /\ chan \in Seq(Senders) /\ Len(chan) \in Nat /\ Len(chan) <= Capacity
          /\ Capacity \in Nat
      BY AdmissionAssumption, LenProperties DEF AdmissionTypeOK
    <2>1. \/ chan' = chan
          \/ \E x \in Senders : chan' = Append(chan, x) /\ Len(chan) < Capacity
          \/ chan # <<>> /\ chan' = Tail(chan)
          \/ chan' = <<>>
      BY DEF Next, vars, SenderStep, Register,
             ProbeAndLeave, ProbeFull, CheckWorker, Wake, Refuse, Elapse, Cancel, Receive,
             NotifyOne, BeginDrain, Drain, DropReceiver, SetStopped, Release, Housekeeping,
             Ended
    <2>2. CASE chan' = chan
      BY <2>0, <2>2
    <2>3. ASSUME NEW x \in Senders, chan' = Append(chan, x), Len(chan) < Capacity
          PROVE  chan' \in Seq(Senders) /\ Len(chan') <= Capacity
      BY <2>0, <2>3, AppendProperties
    <2>4. CASE chan # <<>> /\ chan' = Tail(chan)
      BY <2>0, <2>4, HeadTailProperties
    <2>5. CASE chan' = <<>>
      BY <2>0, <2>5, EmptySeq
    <2>6. QED
      BY <2>1, <2>2, <2>3, <2>4, <2>5
  <1>5. QED
    BY <1>1, <1>2, <1>3, <1>4 DEF AdmissionTypeOK, NotifyTyped

\* A future goes back to idle only with its call gone or its turn begun again.
LEMMA EnabledStep ==
    ASSUME AdmissionTypeOK, ListIsTheWaiting, EnabledOnProbe, [Next]_vars
    PROVE  EnabledOnProbe'
  <1> DEFINE Probing == {"registered", "full", "parked", "elapsed"}
  <1>0. NotifyTyped /\ pc \in [Senders -> SenderStates]
    BY DEF AdmissionTypeOK, NotifyTyped
  <1> SUFFICES ASSUME NEW y \in Senders, pc'[y] \in Probing
               PROVE  note'[y] # "idle"
    BY DEF EnabledOnProbe
  <1>1. ASSUME NEW x \in Senders, Register(x) PROVE note'[y] # "idle"
    <2>1. Enable(x) /\ \A z \in Senders \ {x} : pc'[z] = pc[z]
      BY <1>0, <1>1 DEF Register
    <2>2. note'[x] # "idle" /\ \A z \in Senders \ {x} : note'[z] = note[z]
      BY <1>0, <2>1, EnableStep
    <2>3. QED
      BY <2>1, <2>2 DEF EnabledOnProbe
  <1>2. ASSUME NEW x \in Senders, Drop(x), pc'[x] \in Leaving,
               \A z \in Senders \ {x} : pc'[z] = pc[z]
        PROVE  note'[y] # "idle"
    <2>1. y # x
      BY <1>2 DEF Leaving
    <2>2. note'[y] = note[y] \/ (note[y] = "waiting" /\ note'[y] = "one")
      BY <1>0, <1>2, <2>1, DropStep
    <2>3. QED
      BY <1>2, <2>1, <2>2 DEF EnabledOnProbe
  <1>3. ASSUME NEW x \in Senders, ProbeAndLeave(x) \/ Refuse(x) \/ Cancel(x)
        PROVE  note'[y] # "idle"
    <2>1. /\ Drop(x) /\ pc'[x] \in Leaving
          /\ \A z \in Senders \ {x} : pc'[z] = pc[z]
      BY <1>0, <1>3 DEF ProbeAndLeave, Refuse, Cancel, Leaving
    <2>2. QED
      BY <1>2, <2>1
  <1>4. ASSUME NEW x \in Senders, CheckWorker(x) PROVE note'[y] # "idle"
    <2>1. CASE stopped
      <3>1. /\ Drop(x) /\ pc'[x] \in Leaving
            /\ \A z \in Senders \ {x} : pc'[z] = pc[z]
        BY <1>0, <1>4, <2>1 DEF CheckWorker, Leaving
      <3>2. QED
        BY <1>2, <3>1
    <2>2. CASE ~stopped
      <3>1. /\ Enable(x) /\ pc[x] = "full"
            /\ \A z \in Senders \ {x} : pc'[z] = pc[z]
        BY <1>0, <1>4, <2>2 DEF CheckWorker
      <3>2. note'[x] # "idle" /\ \A z \in Senders \ {x} : note'[z] = note[z]
        BY <1>0, <3>1, EnableStep
      <3>3. QED
        BY <3>1, <3>2 DEF EnabledOnProbe
    <2>3. QED
      BY <2>1, <2>2
  <1>5. ASSUME NEW x \in Senders, ProbeFull(x) \/ Elapse(x) PROVE note'[y] # "idle"
    <2>1. /\ note' = note /\ pc[x] \in Probing
          /\ \A z \in Senders \ {x} : pc'[z] = pc[z]
      BY <1>0, <1>5 DEF ProbeFull, Elapse, notify
    <2>2. QED
      BY <2>1 DEF EnabledOnProbe
  <1>6. ASSUME NEW x \in Senders, Wake(x) PROVE note'[y] # "idle"
    <2>1. /\ pc'[x] = "again"
          /\ \A z \in Senders \ {x} : pc'[z] = pc[z] /\ note'[z] = note[z]
      BY <1>0, <1>6 DEF Wake, NotifyTyped
    <2>2. y # x
      BY <2>1
    <2>3. QED
      BY <2>1, <2>2 DEF EnabledOnProbe
  <1>7. CASE NotifyOne
    <2>1. Hand(note) /\ pc' = pc
      BY <1>7 DEF NotifyOne
    <2>2. note' = note \/ \E h \in Senders : note' = [note EXCEPT ![h] = "one"]
      BY <1>0, <2>1, HandStep DEF NotifyTyped
    <2>3. QED
      BY <1>0, <2>1, <2>2 DEF EnabledOnProbe, NotifyTyped
  <1>8. CASE Release
    <2>1. /\ pc' = pc
          /\ note' = [x \in Senders |-> IF note[x] = "waiting" THEN "all" ELSE note[x]]
      BY <1>8 DEF Release
    <2>2. QED
      BY <2>1 DEF EnabledOnProbe
  <1>9. CASE \/ Receive \/ BeginDrain \/ Drain \/ DropReceiver \/ SetStopped \/ Ended
             \/ UNCHANGED vars
    <2>1. pc' = pc /\ note' = note
      BY <1>9 DEF Receive, BeginDrain, Drain, DropReceiver, SetStopped, Ended, vars, notify
    <2>2. QED
      BY <2>1 DEF EnabledOnProbe
  <1>10. QED
    BY <1>1, <1>3, <1>4, <1>5, <1>6, <1>7, <1>8, <1>9 DEF Next, SenderStep, Housekeeping

-----------------------------------------------------------------------------
(* Counting the notifications under way. *)

LEMMA UnderwayFinite ==
    ASSUME NEW x \in Senders
    PROVE  /\ IsFiniteSet(Underway(x)) /\ Cardinality(Underway(x)) \in Nat
           /\ IsFiniteSet(Underway(x)') /\ Cardinality(Underway(x)') \in Nat
  <1>1. Underway(x) \subseteq Senders /\ Underway(x)' \subseteq Senders
    BY DEF Underway
  <1>2. QED
    BY <1>1, AdmissionAssumption, FS_Subset, FS_CardinalityType

LEMMA UnderwayKept ==
    ASSUME NEW x \in Senders, Underway(x) \subseteq Underway(x)'
    PROVE  Cardinality(Underway(x)) <= Cardinality(Underway(x)')
  BY UnderwayFinite, FS_Subset

\* One more is under way: the one that was notified.
LEMMA UnderwayGains ==
    ASSUME NEW x \in Senders, Underway(x) \subseteq Underway(x)',
           NEW h \in Underway(x)', h \notin Underway(x)
    PROVE  Cardinality(Underway(x)) + 1 <= Cardinality(Underway(x)')
  <1>1. /\ IsFiniteSet(Underway(x) \cup {h})
        /\ Cardinality(Underway(x) \cup {h}) = Cardinality(Underway(x)) + 1
    BY UnderwayFinite, FS_AddElement
  <1>2. Underway(x) \cup {h} \subseteq Underway(x)'
    OBVIOUS
  <1>3. Cardinality(Underway(x) \cup {h}) <= Cardinality(Underway(x)')
    BY <1>2, UnderwayFinite, FS_Subset
  <1>4. QED
    BY <1>1, <1>3

\* One probes and is under way no longer.
LEMMA UnderwayLoses ==
    ASSUME NEW x \in Senders, NEW y, Underway(x) \ {y} \subseteq Underway(x)'
    PROVE  Cardinality(Underway(x)) <= Cardinality(Underway(x)') + 1
  <1>1. /\ IsFiniteSet(Underway(x) \ {y})
        /\ Cardinality(Underway(x)) <= Cardinality(Underway(x) \ {y}) + 1
        /\ Cardinality(Underway(x) \ {y}) \in Nat
    <2>1. /\ IsFiniteSet(Underway(x) \ {y})
          /\ Cardinality(Underway(x) \ {y}) =
                IF y \in Underway(x) THEN Cardinality(Underway(x)) - 1
                                     ELSE Cardinality(Underway(x))
      BY UnderwayFinite, FS_RemoveElement
    <2>2. QED
      BY <2>1, UnderwayFinite, FS_CardinalityType
  <1>2. Cardinality(Underway(x) \ {y}) <= Cardinality(Underway(x)')
    BY UnderwayFinite, FS_Subset
  <1>3. QED
    BY <1>1, <1>2, UnderwayFinite

\* One leaves and its notification goes to another.
LEMMA UnderwayForwards ==
    ASSUME NEW x \in Senders, NEW y, Underway(x) \ {y} \subseteq Underway(x)',
           NEW h \in Underway(x)', h \notin Underway(x)
    PROVE  Cardinality(Underway(x)) <= Cardinality(Underway(x)')
  <1>1. CASE y \in Underway(x)
    <2>1. /\ IsFiniteSet(Underway(x) \ {y})
          /\ Cardinality(Underway(x) \ {y}) = Cardinality(Underway(x)) - 1
      BY <1>1, UnderwayFinite, FS_RemoveElement
    <2>2. /\ IsFiniteSet((Underway(x) \ {y}) \cup {h})
          /\ Cardinality((Underway(x) \ {y}) \cup {h}) = Cardinality(Underway(x) \ {y}) + 1
      BY <2>1, FS_AddElement
    <2>3. (Underway(x) \ {y}) \cup {h} \subseteq Underway(x)'
      OBVIOUS
    <2>4. Cardinality((Underway(x) \ {y}) \cup {h}) <= Cardinality(Underway(x)')
      BY <2>3, UnderwayFinite, FS_Subset
    <2>5. QED
      BY <2>1, <2>2, <2>4, UnderwayFinite
  <1>2. CASE y \notin Underway(x)
    <2>1. Underway(x) \subseteq Underway(x)'
      BY <1>2
    <2>2. QED
      BY <2>1, UnderwayKept
  <1>3. QED
    BY <1>1, <1>2

\* Who is under way stays so if it keeps its place in the call and its notification.
LEMMA UnderwayStays ==
    ASSUME NEW x \in Senders, note[x] = "waiting", KeepsOrder,
           NEW y \in Underway(x),
           pc'[y] \in {"again", "registered"} \/ note'[y] = "one"
    PROVE  y \in Underway(x)'
  BY DEF Underway, KeepsOrder

\* The one a notification goes to is under way from then on, for all behind it.
LEMMA NotifiedIsUnderway ==
    ASSUME ListIsTheWaiting', NEW x \in Senders, NEW h \in Senders,
           Precedes(h, x), note'[h] = "one"
    PROVE  h \in Underway(x)' /\ h \notin Underway(x)
  <1>1. ~Precedes(h, x)'
    BY DEF Precedes, ListIsTheWaiting
  <1>2. QED
    BY <1>1 DEF Underway

\* The step of a call that leaves without a probe: a notification it holds is
\* forwarded, and it was under way for no other reason.
LEMMA CoveredWhenLeaving ==
    ASSUME NotifyTyped, pc \in [Senders -> SenderStates], ListIsTheWaiting,
           NEW x \in Senders, NEW y \in Senders, Drop(y),
           pc[y] \notin {"again", "registered"},
           \A z \in Senders \ {y} : pc'[z] = pc[z],
           note[x] = "waiting", note'[x] = "waiting"
    PROVE  Cardinality(Underway(x)) <= Cardinality(Underway(x)')
  <1>1. /\ ListIsTheWaiting' /\ KeepsOrder
        /\ \A z \in Senders \ {y} :
              note'[z] = note[z] \/ (note[z] = "waiting" /\ note'[z] = "one")
        /\ \/ note[y] # "one"
           \/ waiters = <<>>
           \/ \E h \in Senders :
                 /\ note[h] = "waiting" /\ note'[h] = "one"
                 /\ \A z \in Senders : note'[z] = "waiting" => Precedes(h, z)
    BY DropStep
  <1>2. Underway(x) \ {y} \subseteq Underway(x)'
    <2> SUFFICES ASSUME NEW z \in Underway(x), z # y PROVE z \in Underway(x)'
      OBVIOUS
    <2>1. z \in Senders /\ (pc[z] \in {"again", "registered"} \/ note[z] = "one")
      BY DEF Underway
    <2>2. pc'[z] = pc[z] /\ (note[z] = "one" => note'[z] = "one")
      BY <1>1, <2>1
    <2>3. QED
      BY <1>1, <2>1, <2>2, UnderwayStays
  <1>3. CASE note[y] # "one"
    <2>1. y \notin Underway(x)
      BY <1>3 DEF Underway
    <2>2. Underway(x) \subseteq Underway(x)'
      BY <1>2, <2>1
    <2>3. QED
      BY <2>2, UnderwayKept
  <1>4. CASE waiters = <<>>
    <2>1. Len(waiters) = 0
      BY <1>4, EmptySeq
    <2>2. QED
      BY <2>1 DEF ListIsTheWaiting
  <1>5. ASSUME NEW h \in Senders, note[h] = "waiting", note'[h] = "one", Precedes(h, x)
        PROVE  Cardinality(Underway(x)) <= Cardinality(Underway(x)')
    <2>1. h \in Underway(x)' /\ h \notin Underway(x)
      BY <1>1, <1>5, NotifiedIsUnderway
    <2>2. QED
      BY <1>2, <2>1, UnderwayForwards
  <1>6. QED
    BY <1>1, <1>3, <1>4, <1>5

\* A probe that succeeds takes a slot and at most one notification.
LEMMA CoveredWhenSent ==
    ASSUME NotifyTyped, pc \in [Senders -> SenderStates], ListIsTheWaiting,
           NEW x \in Senders, NEW y \in Senders, Drop(y),
           \A z \in Senders \ {y} : pc'[z] = pc[z],
           note[x] = "waiting"
    PROVE  Cardinality(Underway(x)) <= Cardinality(Underway(x)') + 1
  <1>1. /\ KeepsOrder
        /\ \A z \in Senders \ {y} :
              note'[z] = note[z] \/ (note[z] = "waiting" /\ note'[z] = "one")
    BY DropStep
  <1>2. Underway(x) \ {y} \subseteq Underway(x)'
    <2> SUFFICES ASSUME NEW z \in Underway(x), z # y PROVE z \in Underway(x)'
      OBVIOUS
    <2>1. z \in Senders /\ (pc[z] \in {"again", "registered"} \/ note[z] = "one")
      BY DEF Underway
    <2>2. pc'[z] = pc[z] /\ (note[z] = "one" => note'[z] = "one")
      BY <1>1, <2>1
    <2>3. QED
      BY <1>1, <2>1, <2>2, UnderwayStays
  <1>3. QED
    BY <1>2, UnderwayLoses

\* The steps that leave the notifications where they are or add to them.
LEMMA CoveredWhenKept ==
    ASSUME KeepsOrder, NEW x \in Senders, note[x] = "waiting",
           \A y \in Senders : /\ pc[y] \in {"again", "registered"} => pc'[y] \in {"again", "registered"}
                              /\ note[y] = "one" =>
                                    pc'[y] \in {"again", "registered"} \/ note'[y] = "one"
    PROVE  Cardinality(Underway(x)) <= Cardinality(Underway(x)')
  <1>1. Underway(x) \subseteq Underway(x)'
    <2> SUFFICES ASSUME NEW y \in Underway(x) PROVE y \in Underway(x)'
      OBVIOUS
    <2>1. y \in Senders /\ (pc[y] \in {"again", "registered"} \/ note[y] = "one")
      BY DEF Underway
    <2>2. QED
      BY <2>1, UnderwayStays
  <1>2. QED
    BY <1>1, UnderwayKept

\* One notification more: the one notify_one hands out after a dequeue.
LEMMA CoveredWhenNotified ==
    ASSUME NotifyTyped, ListIsTheWaiting, NEW x \in Senders, note[x] = "waiting",
           note'[x] = "waiting", Hand(note), pc' = pc
    PROVE  Cardinality(Underway(x)) + 1 <= Cardinality(Underway(x)')
  <1>1. /\ ListIsTheWaiting' /\ KeepsOrder
        /\ \/ waiters = <<>>
           \/ /\ Head(waiters) \in Senders /\ note[Head(waiters)] = "waiting"
              /\ note' = [note EXCEPT ![Head(waiters)] = "one"]
              /\ Precedes(Head(waiters), x)
    BY HandStep DEF NotifyTyped
  <1>2. waiters # <<>>
    <2>1. Len(waiters) # 0
      BY DEF ListIsTheWaiting
    <2>2. QED
      BY <2>1, EmptySeq
  <1>3. /\ note'[Head(waiters)] = "one"
        /\ \A y \in Senders : note[y] = "one" => note'[y] = "one"
    BY <1>1, <1>2 DEF NotifyTyped
  <1>4. Underway(x) \subseteq Underway(x)'
    <2> SUFFICES ASSUME NEW y \in Underway(x) PROVE y \in Underway(x)'
      OBVIOUS
    <2>1. y \in Senders /\ (pc[y] \in {"again", "registered"} \/ note[y] = "one")
      BY DEF Underway
    <2>2. QED
      BY <1>1, <1>3, <2>1, UnderwayStays
  <1>5. Head(waiters) \in Underway(x)' /\ Head(waiters) \notin Underway(x)
    BY <1>1, <1>2, <1>3, NotifiedIsUnderway
  <1>6. QED
    BY <1>4, <1>5, UnderwayGains

-----------------------------------------------------------------------------
(* The invariant in every step. *)

\* Nobody who is stuck loses the notification of a free slot, in whatever order
\* senders give up and the worker dequeues.
LEMMA CoveredStep ==
    ASSUME AdmissionInv, [Next]_vars
    PROVE  EachStuckIsCovered'
  <1>0. /\ NotifyTyped /\ pc \in [Senders -> SenderStates] /\ ListIsTheWaiting
        /\ EnabledOnProbe /\ KeepsOrder
        /\ Len(chan) \in Nat /\ Len(chan) <= Capacity /\ Capacity \in Nat
        /\ chan \in Seq(Senders)
    BY NotifySteps, LenProperties, AdmissionAssumption
    DEF AdmissionInv, AdmissionTypeOK, NotifyTyped
  <1> SUFFICES ASSUME worker' \in {"serve", "owes"}, NEW x \in Senders, Stuck(x)'
               PROVE  Capacity - Len(chan') <= Cardinality(Underway(x)') + Owed'
    BY DEF EachStuckIsCovered
  <1>1. /\ Cardinality(Underway(x)) \in Nat /\ Cardinality(Underway(x)') \in Nat
        /\ Owed \in {0, 1} /\ Owed' \in {0, 1}
    BY UnderwayFinite DEF Owed
  <1>2. pc'[x] \in {"full", "parked", "elapsed"} /\ note'[x] = "waiting"
    BY DEF Stuck
  <1> DEFINE Goal == Capacity - Len(chan') <= Cardinality(Underway(x)') + Owed'
  \* Enough for the steps that touch neither the channel nor the worker.
  <1>3. ASSUME UNCHANGED <<chan, worker>>, Stuck(x),
               Cardinality(Underway(x)) <= Cardinality(Underway(x)')
        PROVE  Goal
    <2>1. Capacity - Len(chan) <= Cardinality(Underway(x)) + Owed
      BY <1>3 DEF AdmissionInv, EachStuckIsCovered
    <2>2. Owed' = Owed
      BY <1>3 DEF Owed
    <2>3. QED
      BY <1>0, <1>1, <1>3, <2>1, <2>2
  <1>4. ASSUME NEW y \in Senders, Register(y) PROVE Goal
    <2>1. /\ Enable(y) /\ pc'[y] = "registered" /\ UNCHANGED <<chan, worker>>
          /\ \A z \in Senders \ {y} : pc'[z] = pc[z]
      BY <1>0, <1>4 DEF Register
    <2>2. \A z \in Senders \ {y} : note'[z] = note[z]
      BY <1>0, <2>1, EnableStep
    <2>3. x # y
      BY <1>2, <2>1
    <2>4. Stuck(x)
      BY <1>2, <2>1, <2>2, <2>3 DEF Stuck
    <2>5. Cardinality(Underway(x)) <= Cardinality(Underway(x)')
      BY <1>0, <2>1, <2>2, <2>4, CoveredWhenKept DEF Stuck
    <2>6. QED
      BY <1>3, <2>1, <2>4, <2>5
  <1>5. ASSUME NEW y \in Senders, ProbeAndLeave(y) PROVE Goal
    <2>1. /\ Drop(y) /\ pc'[y] \in {"sent", "disconnected"} /\ worker' = worker
          /\ \A z \in Senders \ {y} : pc'[z] = pc[z]
      BY <1>0, <1>5 DEF ProbeAndLeave
    <2>2. x # y
      BY <1>2, <2>1
    <2>3. Stuck(x)
      <3>1. note'[x] = note[x] \/ note'[x] = "one"
        BY <1>0, <2>1, <2>2, DropStep
      <3>2. QED
        BY <1>2, <2>1, <2>2, <3>1 DEF Stuck
    <2>4. Cardinality(Underway(x)) <= Cardinality(Underway(x)') + 1
      BY <1>0, <2>1, <2>3, CoveredWhenSent DEF Stuck
    <2>5. chan' = Append(chan, y)
      BY <1>5, <2>1 DEF ProbeAndLeave, RxOpen
    <2>6. Len(chan') = Len(chan) + 1
      BY <1>0, <2>5, AppendProperties
    <2>7. Capacity - Len(chan) <= Cardinality(Underway(x)) + Owed /\ Owed' = Owed
      BY <2>1, <2>3 DEF AdmissionInv, EachStuckIsCovered, Owed
    <2>8. QED
      BY <1>0, <1>1, <2>4, <2>6, <2>7
  <1>6. ASSUME NEW y \in Senders, ProbeFull(y) PROVE Goal
    <2>1. Capacity - Len(chan') = 0
      BY <1>0, <1>6 DEF ProbeFull
    <2>2. QED
      BY <1>1, <2>1
  \* A call that gives up without a probe.
  <1>7. ASSUME NEW y \in Senders, Drop(y), pc[y] \notin {"again", "registered"},
               pc'[y] \in Leaving, UNCHANGED <<chan, worker>>,
               \A z \in Senders \ {y} : pc'[z] = pc[z]
        PROVE  Goal
    <2>1. x # y
      BY <1>2, <1>7 DEF Leaving
    <2>2. Stuck(x)
      <3>1. note'[x] = note[x] \/ note'[x] = "one"
        BY <1>0, <1>7, <2>1, DropStep
      <3>2. QED
        BY <1>2, <1>7, <2>1, <3>1 DEF Stuck
    <2>3. Cardinality(Underway(x)) <= Cardinality(Underway(x)')
      BY <1>0, <1>2, <1>7, <2>2, CoveredWhenLeaving DEF Stuck
    <2>4. QED
      BY <1>3, <1>7, <2>2, <2>3
  <1>8. ASSUME NEW y \in Senders, Refuse(y) \/ Cancel(y) PROVE Goal
    <2>1. /\ Drop(y) /\ pc[y] \notin {"again", "registered"}
          /\ pc'[y] \in Leaving /\ UNCHANGED <<chan, worker>>
          /\ \A z \in Senders \ {y} : pc'[z] = pc[z]
      BY <1>0, <1>8 DEF Refuse, Cancel, Leaving
    <2>2. QED
      BY <1>7, <2>1
  <1>9. ASSUME NEW y \in Senders, CheckWorker(y) PROVE Goal
    <2>1. CASE stopped
      <3>1. /\ Drop(y) /\ pc[y] \notin {"again", "registered"}
            /\ pc'[y] \in Leaving /\ UNCHANGED <<chan, worker>>
            /\ \A z \in Senders \ {y} : pc'[z] = pc[z]
        BY <1>0, <1>9, <2>1 DEF CheckWorker, Leaving
      <3>2. QED
        BY <1>7, <3>1
    <2>2. CASE ~stopped
      <3>1. /\ Enable(y) /\ pc[y] = "full" /\ UNCHANGED <<chan, worker>>
            /\ \A z \in Senders \ {y} : pc'[z] = pc[z]
        BY <1>0, <1>9, <2>2 DEF CheckWorker
      <3>2. note[y] # "idle"
        BY <1>0, <3>1 DEF EnabledOnProbe
      <3>3. note' = note
        BY <1>0, <3>1, <3>2, EnableStep
      <3>4. Stuck(x)
        BY <1>2, <3>1, <3>3 DEF Stuck
      <3>5. Cardinality(Underway(x)) <= Cardinality(Underway(x)')
        BY <1>0, <3>1, <3>3, <3>4, CoveredWhenKept DEF Stuck
      <3>6. QED
        BY <1>3, <3>1, <3>4, <3>5
    <2>3. QED
      BY <2>1, <2>2
  <1>10. ASSUME NEW y \in Senders, Wake(y) PROVE Goal
    <2>1. /\ pc[y] = "parked" /\ pc'[y] = "again" /\ UNCHANGED <<chan, worker>>
          /\ \A z \in Senders \ {y} : pc'[z] = pc[z] /\ note'[z] = note[z]
      BY <1>0, <1>10 DEF Wake, NotifyTyped
    <2>2. x # y
      BY <1>2, <2>1
    <2>3. Stuck(x)
      BY <1>2, <2>1, <2>2 DEF Stuck
    <2>4. Cardinality(Underway(x)) <= Cardinality(Underway(x)')
      BY <1>0, <2>1, <2>3, CoveredWhenKept DEF Stuck
    <2>5. QED
      BY <1>3, <2>1, <2>3, <2>4
  <1>11. ASSUME NEW y \in Senders, Elapse(y) PROVE Goal
    <2>1. /\ pc[y] = "parked" /\ UNCHANGED <<chan, worker>> /\ note' = note
          /\ \A z \in Senders \ {y} : pc'[z] = pc[z]
      BY <1>0, <1>11 DEF Elapse, notify
    <2>2. Stuck(x)
      BY <1>2, <2>1 DEF Stuck
    <2>3. Cardinality(Underway(x)) <= Cardinality(Underway(x)')
      BY <1>0, <2>1, <2>2, CoveredWhenKept DEF Stuck
    <2>4. QED
      BY <1>3, <2>1, <2>2, <2>3
  <1>12. CASE Receive
    <2>1. /\ worker = "serve" /\ worker' = "owes" /\ pc' = pc /\ note' = note
          /\ chan # <<>> /\ chan' = Tail(chan)
      BY <1>12 DEF Receive, notify
    <2>2. Len(chan') = Len(chan) - 1
      BY <1>0, <2>1, HeadTailProperties
    <2>3. Stuck(x)
      BY <1>2, <2>1 DEF Stuck
    <2>4. Cardinality(Underway(x)) <= Cardinality(Underway(x)')
      BY <1>0, <2>1, <2>3, CoveredWhenKept DEF Stuck
    <2>5. /\ Capacity - Len(chan) <= Cardinality(Underway(x)) + Owed
          /\ Owed = 0 /\ Owed' = 1
      BY <2>1, <2>3 DEF AdmissionInv, EachStuckIsCovered, Owed
    <2>6. QED
      BY <1>0, <1>1, <2>2, <2>4, <2>5
  <1>13. CASE NotifyOne
    <2>1. /\ worker = "owes" /\ worker' = "serve" /\ pc' = pc /\ chan' = chan
          /\ Hand(note)
      BY <1>13 DEF NotifyOne
    <2>2. Stuck(x)
      <3>1. \/ note' = note
            \/ \E h \in Senders : note' = [note EXCEPT ![h] = "one"]
        BY <1>0, <2>1, HandStep DEF NotifyTyped
      <3>2. note[x] = "waiting"
        BY <1>0, <1>2, <3>1 DEF NotifyTyped
      <3>3. QED
        BY <1>2, <2>1, <3>2 DEF Stuck
    <2>3. Cardinality(Underway(x)) + 1 <= Cardinality(Underway(x)')
      BY <1>0, <1>2, <2>1, <2>2, CoveredWhenNotified DEF Stuck
    <2>4. /\ Capacity - Len(chan) <= Cardinality(Underway(x)) + Owed
          /\ Owed = 1 /\ Owed' = 0
      BY <2>1, <2>2 DEF AdmissionInv, EachStuckIsCovered, Owed
    <2>5. QED
      BY <1>0, <1>1, <2>1, <2>3, <2>4
  <1>14. CASE BeginDrain \/ Drain \/ DropReceiver \/ SetStopped \/ Release
    BY <1>14 DEF BeginDrain, Drain, DropReceiver, SetStopped, Release
  <1>15. CASE Ended \/ UNCHANGED vars
    <2>1. pc' = pc /\ note' = note /\ UNCHANGED <<chan, worker>>
      BY <1>15 DEF Ended, vars, notify
    <2>2. Stuck(x)
      BY <1>2, <2>1 DEF Stuck
    <2>3. Cardinality(Underway(x)) <= Cardinality(Underway(x)')
      BY <1>0, <2>1, <2>2, CoveredWhenKept DEF Stuck
    <2>4. QED
      BY <1>3, <2>1, <2>2, <2>3
  <1>16. QED
    BY <1>4, <1>5, <1>6, <1>8, <1>9, <1>10, <1>11, <1>12, <1>13, <1>14, <1>15
    DEF Next, SenderStep, Housekeeping

LEMMA InvInit == Init => AdmissionInv
  <1> SUFFICES ASSUME Init PROVE AdmissionInv
    OBVIOUS
  <1>1. <<>> \in Seq(Senders) /\ Len(<<>>) = 0
    BY EmptySeq
  <1>2. AdmissionTypeOK
    <2>1. /\ pc \in [Senders -> SenderStates] /\ note \in [Senders -> NoteStates]
          /\ worker \in WorkerStates /\ permit \in BOOLEAN /\ stopped \in BOOLEAN
      BY DEF Init, SenderStates, NoteStates, WorkerStates
    <2>2. /\ waiters \in Seq(Senders)
          /\ chan \in Seq(Senders) /\ Len(chan) <= Capacity
      BY <1>1, AdmissionAssumption DEF Init
    <2>3. QED
      BY <2>1, <2>2 DEF AdmissionTypeOK
  <1>3. ListIsTheWaiting /\ EnabledOnProbe /\ EachStuckIsCovered
    BY <1>1 DEF Init, ListIsTheWaiting, EnabledOnProbe, EachStuckIsCovered, Stuck
  <1>4. QED
    BY <1>2, <1>3 DEF AdmissionInv

LEMMA InvNext == AdmissionInv /\ [Next]_vars => AdmissionInv'
  <1> SUFFICES ASSUME AdmissionInv, [Next]_vars PROVE AdmissionInv'
    OBVIOUS
  <1>1. AdmissionTypeOK'
    BY TypeStep DEF AdmissionInv
  <1>2. ListIsTheWaiting'
    BY NotifySteps DEF AdmissionInv, AdmissionTypeOK, NotifyTyped
  <1>3. EnabledOnProbe'
    BY EnabledStep DEF AdmissionInv
  <1>4. EachStuckIsCovered'
    BY CoveredStep
  <1>5. QED
    BY <1>1, <1>2, <1>3, <1>4 DEF AdmissionInv

\* What is under way past a parked sender is signalled, whoever it waits behind.
LEMMA InvCovers == AdmissionInv => SignalsCoverSlots
  <1> SUFFICES ASSUME AdmissionInv, worker \in {"serve", "owes"}, NEW x \in Parked
               PROVE  Capacity - Len(chan) <=
                        Cardinality(Signalled) + (IF worker = "owes" THEN 1 ELSE 0)
    BY DEF SignalsCoverSlots
  <1>1. x \in Senders /\ Stuck(x)
    BY DEF Parked, Stuck
  <1>2. Capacity - Len(chan) <= Cardinality(Underway(x)) + Owed
    BY <1>1 DEF AdmissionInv, EachStuckIsCovered
  <1>3. Underway(x) \subseteq Signalled /\ Signalled \subseteq Senders
    BY DEF Underway, Signalled
  <1>4. /\ Cardinality(Underway(x)) <= Cardinality(Signalled)
        /\ Cardinality(Underway(x)) \in Nat /\ Cardinality(Signalled) \in Nat
    BY <1>1, <1>3, UnderwayFinite, AdmissionAssumption, FS_Subset, FS_CardinalityType
  <1>5. Capacity - Len(chan) \in Int
    BY AdmissionAssumption, LenProperties DEF AdmissionInv, AdmissionTypeOK
  <1>6. QED
    BY <1>2, <1>4, <1>5 DEF Owed

-----------------------------------------------------------------------------
(* The theorems. *)

\* Every variable of send_command, of the Notify and of the worker keeps its type,
\* and the channel never holds more than its capacity.
THEOREM AdmissionTypeCorrect == Spec => []AdmissionTypeOK
  <1>1. AdmissionInv => AdmissionTypeOK
    BY DEF AdmissionInv
  <1>2. QED
    BY <1>1, InvInit, InvNext, PTL DEF Spec

\* While the worker serves and a sender is parked, every free slot of the channel
\* has a notification on its way: the comment in send_command that no burst of
\* dequeues collapses into one stored permit, with senders that give up anywhere.
THEOREM FreeSlotsAreSignalled == Spec => []SignalsCoverSlots
  BY InvInit, InvNext, InvCovers, PTL DEF Spec

===============================================================================
