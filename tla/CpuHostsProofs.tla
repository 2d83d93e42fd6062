---------------------------- MODULE CpuHostsProofs ----------------------------
(* One model per host, whole models only, a failed start that is forgotten,    *)
(* valid batches that are decoded, rows that decode as they would alone and    *)
(* what a recycled workspace keeps, for every set of releases, bundles,        *)
(* handlers and batches, every limit and every number of workers, starts and   *)
(* layers.                                                                     *)
EXTENDS CpuHosts, TLAPS

Finite == INSTANCE FiniteSetTheorems

-----------------------------------------------------------------------------
(* Sequences of whatever. *)

Elements(seq) == {seq[k] : k \in DOMAIN seq}

IsSeq(seq) == seq \in Seq(Elements(seq))

LEMMA EmptyFacts == IsSeq(<<>>) /\ Len(<<>>) = 0 /\ DOMAIN <<>> = {}
  BY DEF IsSeq, Elements

LEMMA SeqFacts ==
    ASSUME NEW seq, IsSeq(seq)
    PROVE  /\ Len(seq) \in Nat
           /\ DOMAIN seq = 1 .. Len(seq)
  BY DEF IsSeq

LEMMA SingletonFacts ==
    ASSUME NEW e
    PROVE  IsSeq(<<e>>) /\ Len(<<e>>) = 1 /\ DOMAIN <<e>> = {1} /\ <<e>>[1] = e
  <1>1. <<e>> \in Seq({e}) /\ DOMAIN <<e>> = {1} /\ <<e>>[1] = e /\ Len(<<e>>) = 1
    OBVIOUS
  <1>2. Elements(<<e>>) = {e}
    BY <1>1 DEF Elements
  <1>3. QED
    BY <1>1, <1>2 DEF IsSeq

LEMMA AppendFacts ==
    ASSUME NEW seq, IsSeq(seq), NEW e
    PROVE  /\ IsSeq(Append(seq, e))
           /\ DOMAIN Append(seq, e) = DOMAIN seq \cup {Len(seq) + 1}
           /\ Len(Append(seq, e)) = Len(seq) + 1
           /\ \A k \in DOMAIN seq : Append(seq, e)[k] = seq[k]
           /\ Append(seq, e)[Len(seq) + 1] = e
  <1> DEFINE S == Elements(seq) \cup {e}
             t == Append(seq, e)
  <1>1. seq \in Seq(Elements(seq)) /\ Elements(seq) \subseteq S
    BY DEF IsSeq
  <1>2. seq \in Seq(S)
    BY <1>1, SMT
  <1>3. /\ t \in Seq(S)
        /\ Len(t) = Len(seq) + 1
        /\ Len(seq) \in Nat
        /\ DOMAIN seq = 1 .. Len(seq)
        /\ DOMAIN t = 1 .. Len(seq) + 1
        /\ \A k \in 1 .. Len(seq) : t[k] = seq[k]
        /\ t[Len(seq) + 1] = e
    BY <1>2
  <1>4. \A k \in 1 .. Len(t) : t[k] \in Elements(t)
    BY <1>3 DEF Elements
  <1>5. t \in Seq(Elements(t))
    BY <1>3, <1>4
  <1>6. DOMAIN t = DOMAIN seq \cup {Len(seq) + 1}
    BY <1>3
  <1>7. QED
    BY <1>3, <1>5, <1>6 DEF IsSeq

LEMMA SameDomainFacts ==
    ASSUME NEW seq, IsSeq(seq), NEW f, DOMAIN f = DOMAIN seq,
           f = [k \in DOMAIN seq |-> f[k]]
    PROVE  IsSeq(f) /\ Len(f) = Len(seq)
  <1> DEFINE S == Elements(f)
  <1>1. \A k \in DOMAIN seq : f[k] \in S
    BY DEF Elements
  <1> HIDE DEF S
  <1>2. f \in [1 .. Len(seq) -> S] /\ Len(seq) \in Nat
    BY <1>1, SeqFacts
  <1>3. f \in Seq(S) /\ Len(f) = Len(seq)
    BY <1>2
  <1>4. QED
    BY <1>3 DEF IsSeq, S

-----------------------------------------------------------------------------
(* The executors.  Running a request changes nothing of them but their pools.  *)

IsExecutor(e) ==
    e = [kind |-> e.kind, load |-> e.load, place |-> e.place, model |-> e.model,
         shortlist |-> e.shortlist, pooled |-> e.pooled]

\* What a load gives and a fork shares.
Same(d, e) ==
    IsExecutor(d) /\ d.kind = e.kind /\ d.load = e.load /\ d.place = e.place /\ d.model = e.model

LEMMA PoolAside ==
    ASSUME NEW e, IsExecutor(e), NEW p
    PROVE  Same([e EXCEPT !.pooled = p], e)
  <1> DEFINE r(k, l, c, m, s, q) ==
                 [kind |-> k, load |-> l, place |-> c, model |-> m, shortlist |-> s, pooled |-> q]
  <1>1. \E k, l, c, m, s, q : e = r(k, l, c, m, s, q)
    BY DEF IsExecutor
  <1>2. PICK k, l, c, m, s, q : e = r(k, l, c, m, s, q)
    BY <1>1
  <1>3. [r(k, l, c, m, s, q) EXCEPT !.pooled = p] = r(k, l, c, m, s, p)
    OBVIOUS
  <1>4. IsExecutor(r(k, l, c, m, s, p))
    BY DEF IsExecutor
  <1>5. /\ r(k, l, c, m, s, p).kind = r(k, l, c, m, s, q).kind
        /\ r(k, l, c, m, s, p).load = r(k, l, c, m, s, q).load
        /\ r(k, l, c, m, s, p).place = r(k, l, c, m, s, q).place
        /\ r(k, l, c, m, s, p).model = r(k, l, c, m, s, q).model
    OBVIOUS
  <1> HIDE DEF r
  <1>6. Same(r(k, l, c, m, s, p), r(k, l, c, m, s, q))
    BY <1>4, <1>5 DEF Same
  <1>7. QED
    BY <1>2, <1>3, <1>6, Zenon

LEMMA ExecutorFacts ==
    ASSUME NEW kind, NEW place, NEW model
    PROVE  /\ IsExecutor(Executor(kind, place, model))
           /\ Executor(kind, place, model).kind = kind
           /\ Executor(kind, place, model).load = loads + 1
           /\ Executor(kind, place, model).place = place
           /\ Executor(kind, place, model).model = model
  BY DEF Executor, IsExecutor

\* The executors are as many as before and, but for their pools, the same.
ExecutorsStay ==
    /\ IsSeq(executors') /\ Len(executors') = Len(executors)
    /\ DOMAIN executors' = DOMAIN executors
    /\ \A w \in DOMAIN executors : Same(executors'[w], executors[w])

ExecutorsTyped == IsSeq(executors) /\ \A w \in DOMAIN executors : IsExecutor(executors[w])

LEMMA UnchangedStay ==
    ASSUME ExecutorsTyped, executors' = executors
    PROVE  ExecutorsStay
  BY DEF ExecutorsTyped, ExecutorsStay, Same

LEMMA PooledStay ==
    ASSUME ExecutorsTyped, NEW b, NEW p,
           executors' = [executors EXCEPT ![b] = [executors[b] EXCEPT !.pooled = p]]
    PROVE  ExecutorsStay
  <1> DEFINE d == [executors[b] EXCEPT !.pooled = p]
  <1>1. \A w \in DOMAIN executors : IsExecutor(executors[w]) /\ IsSeq(executors)
    BY DEF ExecutorsTyped
  <1>2. b \in DOMAIN executors => Same(d, executors[b])
    BY <1>1, PoolAside
  <1> HIDE DEF d
  <1>3. executors' = [w \in DOMAIN executors |-> IF w = b THEN d ELSE executors[w]]
    BY DEF d
  <1>4. DOMAIN executors' = DOMAIN executors /\ executors' = [w \in DOMAIN executors |-> executors'[w]]
    BY <1>3, Zenon
  <1>5. IsSeq(executors') /\ Len(executors') = Len(executors)
    <2> DEFINE f == executors'
    <2>1. DOMAIN f = DOMAIN executors /\ f = [w \in DOMAIN executors |-> f[w]]
      BY <1>4
    <2> HIDE DEF f
    <2>2. IsSeq(f) /\ Len(f) = Len(executors)
      BY <2>1, SameDomainFacts DEF ExecutorsTyped
    <2>3. QED
      BY <2>2 DEF f
  <1>6. ASSUME NEW w \in DOMAIN executors PROVE Same(executors'[w], executors[w])
    <2>1. CASE w = b
      BY <1>2, <1>3, <2>1
    <2>2. CASE w # b
      BY <1>1, <1>3, <2>2 DEF Same
    <2>3. QED
      BY <2>1, <2>2
  <1>7. QED
    BY <1>4, <1>5, <1>6 DEF ExecutorsStay

LEMMA TranslateStay ==
    ASSUME ExecutorsTyped, Translate
    PROVE  ExecutorsStay
  <1>1. CASE Refuse \/ BeginEncode \/ BeginDecode \/ Fail \/ BeginStep \/ Return
    <2>1. executors' = executors
      BY <1>1 DEF Refuse, BeginEncode, BeginDecode, Fail, BeginStep, Return, End
    <2>2. QED
      BY <2>1, UnchangedStay
  <1>2. CASE RunNext
    <2>1. \E p : executors' = [executors EXCEPT ![busy].pooled = p]
      BY <1>2 DEF RunNext
    <2>2. QED
      BY <2>1, PooledStay
  <1>3. CASE Select
    <2>1. \E p : executors' = [executors EXCEPT ![busy].pooled = p]
      BY <1>3 DEF Select
    <2>2. QED
      BY <2>1, PooledStay
  <1>4. QED
    BY <1>1, <1>2, <1>3 DEF Translate

-----------------------------------------------------------------------------
(* The executors of one host. *)

TemplateTyped == template # <<>> => template = <<template[1]>> /\ IsExecutor(template[1])

NothingBeforeStart ==
    host # "worker" /\ startup = "new" => executors = <<>> /\ template = <<>>

\* The factory resolves the link once, whatever it leads to afterwards.
OneDirectory == host # "worker" => \A w \in DOMAIN executors : executors[w].place = dir

\* Without a template no Q8 executor has been made, and each is a fork of it.
OneCopy ==
    /\ host # "pool" => Len(executors) <= 1
    /\ host = "pool" =>
           /\ precision = "q8" /\ template = <<>> => executors = <<>>
           /\ precision # "q8" =>
                  template = <<>> /\ \A w \in DOMAIN executors : executors[w].kind # "q8"
           /\ template # <<>> =>
                  /\ template[1].place = dir
                  /\ \A w \in DOMAIN executors : executors[w].load = template[1].load

PoolsInv ==
    /\ ExecutorsTyped
    /\ TemplateTyped
    /\ NothingBeforeStart
    /\ OneDirectory
    /\ OneCopy

LEMMA StayKeepsPools ==
    ASSUME PoolsInv, ExecutorsStay, UNCHANGED <<host, startup, dir, precision, template>>
    PROVE  PoolsInv'
  <1>1. /\ IsSeq(executors) /\ IsSeq(executors') /\ Len(executors') = Len(executors)
        /\ DOMAIN executors' = DOMAIN executors
        /\ \A w \in DOMAIN executors :
               /\ IsExecutor(executors'[w]) /\ executors'[w].kind = executors[w].kind
               /\ executors'[w].load = executors[w].load
               /\ executors'[w].place = executors[w].place
    BY DEF ExecutorsStay, Same, PoolsInv, ExecutorsTyped
  <1>2. executors = <<>> => executors' = <<>>
    BY <1>1 DEF IsSeq
  <1>3. ExecutorsTyped' /\ TemplateTyped'
    BY <1>1 DEF PoolsInv, ExecutorsTyped, TemplateTyped
  <1>4. NothingBeforeStart' /\ OneDirectory'
    BY <1>1, <1>2 DEF PoolsInv, NothingBeforeStart, OneDirectory
  <1>5. OneCopy'
    <2>1. host # "pool" => Len(executors') <= 1
      BY <1>1 DEF PoolsInv, OneCopy
    <2>2. ASSUME host = "pool"
          PROVE  /\ precision = "q8" /\ template = <<>> => executors' = <<>>
                 /\ precision # "q8" =>
                        template = <<>> /\ \A w \in DOMAIN executors' : executors'[w].kind # "q8"
                 /\ template # <<>> =>
                        /\ template[1].place = dir
                        /\ \A w \in DOMAIN executors' : executors'[w].load = template[1].load
      BY <1>1, <1>2, <2>2 DEF PoolsInv, OneCopy
    <2>3. QED
      BY <2>1, <2>2 DEF OneCopy
  <1>6. QED
    BY <1>3, <1>4, <1>5 DEF PoolsInv

\* A host without executors, or with the first one.
LEMMA NoneKeepsPools ==
    ASSUME executors' = <<>>, template' = <<>>
    PROVE  PoolsInv'
  <1>1. IsSeq(executors') /\ Len(executors') = 0 /\ DOMAIN executors' = {}
    BY EmptyFacts
  <1>2. QED
    BY <1>1 DEF PoolsInv, ExecutorsTyped, TemplateTyped, NothingBeforeStart, OneDirectory, OneCopy

LEMMA OneKeepsPools ==
    ASSUME NEW e, IsExecutor(e), executors' = <<e>>, host' # "pool",
           host' # "worker" => e.place = dir' /\ startup' # "new",
           TemplateTyped'
    PROVE  PoolsInv'
  <1>1. /\ IsSeq(executors') /\ Len(executors') = 1 /\ DOMAIN executors' = {1}
        /\ executors'[1] = e
    BY SingletonFacts
  <1>2. ExecutorsTyped' /\ OneDirectory' /\ OneCopy' /\ NothingBeforeStart'
    BY <1>1 DEF ExecutorsTyped, OneDirectory, OneCopy, NothingBeforeStart
  <1>3. QED
    BY <1>2 DEF PoolsInv

\* One more worker of a pool.
LEMMA WorkerKeepsPools ==
    ASSUME PoolsInv, host' = "pool", NEW e, IsExecutor(e),
           executors' = Append(executors, e), startup' # "new", TemplateTyped',
           \A w \in DOMAIN executors : executors[w].place = dir',
           e.place = dir',
           precision' = "q8" =>
               /\ template' # <<>> /\ template'[1].place = dir' /\ e.load = template'[1].load
               /\ \A w \in DOMAIN executors : executors[w].load = e.load,
           precision' # "q8" =>
               /\ template' = <<>> /\ e.kind # "q8"
               /\ \A w \in DOMAIN executors : executors[w].kind # "q8"
    PROVE  PoolsInv'
  <1>1. /\ IsSeq(executors) /\ \A w \in DOMAIN executors : IsExecutor(executors[w])
    BY DEF PoolsInv, ExecutorsTyped
  <1>2. /\ IsSeq(executors')
        /\ DOMAIN executors' = DOMAIN executors \cup {Len(executors) + 1}
        /\ \A w \in DOMAIN executors : executors'[w] = executors[w]
        /\ executors'[Len(executors) + 1] = e
    BY <1>1, AppendFacts
  <1>3. \A w \in DOMAIN executors' : executors'[w] = e \/ (w \in DOMAIN executors /\ executors'[w] = executors[w])
    BY <1>2
  <1>4. ExecutorsTyped' /\ OneDirectory' /\ NothingBeforeStart'
    BY <1>1, <1>2, <1>3 DEF ExecutorsTyped, OneDirectory, NothingBeforeStart
  <1>5. OneCopy'
    <2>1. CASE precision' = "q8"
      BY <1>3, <2>1 DEF OneCopy
    <2>2. CASE precision' # "q8"
      BY <1>3, <2>2 DEF OneCopy
    <2>3. QED
      BY <2>1, <2>2
  <1>6. QED
    BY <1>4, <1>5 DEF PoolsInv

LEMMA PoolsInit == Init => PoolsInv
  <1> SUFFICES ASSUME Init PROVE PoolsInv
    OBVIOUS
  <1>1. executors = <<>> /\ template = <<>>
    BY DEF Init
  <1>2. QED
    BY <1>1, EmptyFacts
       DEF PoolsInv, ExecutorsTyped, TemplateTyped, NothingBeforeStart, OneDirectory, OneCopy

-----------------------------------------------------------------------------
(* The starts of an isolate. *)

Promises == {"pending", "resolved", "rejected"}

Starts == [read : Nat, promise : Promises]

IsolateTyped ==
    /\ starts \in Seq(Starts)
    /\ initialization \in 0 .. Len(starts)
    /\ awaits \in [Handlers -> 0 .. Len(starts)]
    /\ loads \in Nat

LEMMA ResumeFacts ==
    ASSUME IsolateTyped, NEW h \in Handlers, Resume(h)
    PROVE  Begin(1) \/ UNCHANGED engine
  <1>1. awaits[h] \in 1 .. Len(starts)
    <2>1. awaits[h] \in 0 .. Len(starts) /\ Len(starts) \in Nat
      BY DEF IsolateTyped
    <2>2. QED
      BY <2>1 DEF Resume
  <1>2. starts[awaits[h]] \in Starts
    BY <1>1 DEF IsolateTyped
  <1> DEFINE promise == starts[awaits[h]].promise
  <1>3. promise \in Promises
    BY <1>2 DEF Starts
  <1>4. (CASE promise = "resolved" -> Begin(1)
           [] promise = "rejected" -> UNCHANGED engine
           [] promise = "pending" -> FALSE)
    BY DEF Resume
  <1> HIDE DEF promise
  <1>5. QED
    BY <1>3, <1>4 DEF Promises

\* The steps that make no executor.
MakesNone ==
    \/ MoveLink \/ NewFactory \/ Serve \/ Run \/ Rest
    \/ \E h \in Handlers : Arrive(h) \/ Resume(h)
    \/ \E k \in DOMAIN starts : ReadRange(k)

LEMMA NoneMadeStay ==
    ASSUME ExecutorsTyped, IsolateTyped, MakesNone
    PROVE  ExecutorsStay /\ UNCHANGED <<host, template>>
  <1>1. CASE MoveLink \/ NewFactory \/ Serve \/ Rest
    <2>1. executors' = executors /\ UNCHANGED <<host, template>>
      BY <1>1 DEF MoveLink, NewFactory, Serve, Rest, Begin, engine, server, vars
    <2>2. QED
      BY <2>1, UnchangedStay
  <1>2. CASE Run
    BY <1>2, TranslateStay DEF Run, server
  <1>3. CASE \E h \in Handlers : Arrive(h) \/ Resume(h)
    <2>1. PICK h \in Handlers : Arrive(h) \/ Resume(h)
      BY <1>3
    <2>2. executors' = executors /\ UNCHANGED <<host, template>>
      <3>1. CASE Arrive(h)
        BY <3>1 DEF Arrive, engine, server
      <3>2. CASE Resume(h)
        <4>1. executors' = executors
          BY <3>2, ResumeFacts DEF Begin, engine
        <4>2. QED
          BY <3>2, <4>1 DEF Resume, server
      <3>3. QED
        BY <2>1, <3>1, <3>2
    <2>3. QED
      BY <2>2, UnchangedStay
  <1>4. CASE \E k \in DOMAIN starts : ReadRange(k)
    <2>1. executors' = executors /\ UNCHANGED <<host, template>>
      BY <1>4 DEF ReadRange, Reject, server
    <2>2. QED
      BY <2>1, UnchangedStay
  <1>5. QED
    BY <1>1, <1>2, <1>3, <1>4 DEF MakesNone

LEMMA RestOfStepsKeepPools ==
    ASSUME PoolsInv, IsolateTyped, MakesNone
    PROVE  PoolsInv'
  <1>1. CASE NewFactory
    <2>1. /\ host' = host /\ host = "pool" /\ startup = "new" /\ startup' # "new"
          /\ executors' = executors /\ template' = template
      BY <1>1 DEF NewFactory, engine
    <2>2. executors' = <<>> /\ template' = <<>>
      BY <2>1 DEF PoolsInv, NothingBeforeStart
    <2>3. QED
      BY <2>2, NoneKeepsPools
  <1>2. CASE ~ NewFactory
    <2>1. ExecutorsStay /\ UNCHANGED <<host, template>>
      BY NoneMadeStay DEF PoolsInv
    <2>2. UNCHANGED <<startup, dir, precision>>
      BY <1>2 DEF MakesNone, MoveLink, Serve, Rest, Run, Arrive, Resume, ReadRange, server, vars
    <2>3. QED
      BY <2>1, <2>2, StayKeepsPools
  <1>3. QED
    BY <1>1, <1>2

LEMMA CreateKeepsPools ==
    ASSUME PoolsInv, CreateFp32 \/ CreateQ8 \/ ForkQ8
    PROVE  PoolsInv'
  <1>1. /\ host = "pool" /\ host' = "pool" /\ dir' = dir /\ precision' = precision
        /\ \A w \in DOMAIN executors : executors[w].place = dir
    BY DEF CreateFp32, CreateQ8, ForkQ8, PoolsInv, OneDirectory
  <1>2. CASE executors' = <<>> /\ template' = <<>>
    BY <1>2, NoneKeepsPools
  <1>3. CASE CreateFp32 /\ ~ StartFails
    <2> DEFINE e == Executor("fp32", dir, LoadedFp32(release[dir]))
    <2>1. /\ precision = "fp32"
          /\ AddWorker(e) /\ template' = template
      BY <1>3 DEF CreateFp32
    <2>2. IsExecutor(e) /\ e.kind = "fp32" /\ e.place = dir
      BY ExecutorFacts
    <2> HIDE DEF e
    <2>3. executors' = Append(executors, e) /\ startup' # "new"
      BY <2>1 DEF AddWorker
    <2>4. template = <<>> /\ \A w \in DOMAIN executors : executors[w].kind # "q8"
      BY <1>1, <2>1 DEF PoolsInv, OneCopy
    <2>5. TemplateTyped'
      BY <2>1, <2>4 DEF TemplateTyped
    <2>6. QED
      BY <1>1, <2>1, <2>2, <2>3, <2>4, <2>5, WorkerKeepsPools
  <1>4. CASE CreateQ8 /\ ~ StartFails
    <2> DEFINE e == Executor("q8", dir, LoadedQ8(release[dir]))
    <2>1. /\ precision = "q8" /\ template = <<>>
          /\ AddWorker(e) /\ template' = <<e>>
      BY <1>4 DEF CreateQ8, Template
    <2>2. IsExecutor(e) /\ e.place = dir
      BY ExecutorFacts
    <2> HIDE DEF e
    <2>3. executors' = Append(executors, e) /\ startup' # "new"
      BY <2>1 DEF AddWorker
    <2>4. executors = <<>> /\ DOMAIN executors = {}
      BY <1>1, <2>1, EmptyFacts DEF PoolsInv, OneCopy
    <2>5. template' # <<>> /\ template'[1] = e
      BY <2>1
    <2>6. TemplateTyped'
      BY <2>1, <2>2, <2>5 DEF TemplateTyped
    <2>7. QED
      BY <1>1, <2>1, <2>2, <2>3, <2>4, <2>5, <2>6, WorkerKeepsPools
  <1>5. CASE ForkQ8
    <2> DEFINE e == [template[1] EXCEPT !.pooled = 0]
    <2>1. template # <<>> /\ template' = template /\ AddWorker(e)
      BY <1>5 DEF ForkQ8
    <2>2. /\ precision = "q8" /\ template[1].place = dir /\ IsExecutor(template[1])
          /\ \A w \in DOMAIN executors : executors[w].load = template[1].load
          /\ TemplateTyped
      BY <1>1, <2>1 DEF PoolsInv, OneCopy, TemplateTyped
    <2>3. IsExecutor(e) /\ e.place = template[1].place /\ e.load = template[1].load
      BY <2>2, PoolAside DEF Same
    <2> HIDE DEF e
    <2>4. executors' = Append(executors, e) /\ startup' # "new"
      BY <2>1 DEF AddWorker
    <2>5. TemplateTyped'
      BY <2>1, <2>2 DEF TemplateTyped
    <2>6. QED
      BY <1>1, <2>1, <2>2, <2>3, <2>4, <2>5, WorkerKeepsPools
  <1>6. QED
    BY <1>2, <1>3, <1>4, <1>5 DEF StartFails

LEMMA FirstKeepsPools ==
    ASSUME PoolsInv, LoadMetalBackend \/ \E k \in DOMAIN starts : InitPackedParts(k)
    PROVE  PoolsInv'
  <1>1. CASE LoadMetalBackend
    <2> DEFINE e == Executor("metal", link, LoadedMetal(release[link]))
    <2>1. /\ host' = "metal" /\ dir' = link
          /\ \/ executors' = <<e>> /\ startup' = "serving" /\ template' = template
             \/ executors' = <<>> /\ template' = <<>>
      BY <1>1 DEF LoadMetalBackend, StartFails
    <2>2. IsExecutor(e) /\ e.place = link
      BY ExecutorFacts
    <2> HIDE DEF e
    <2>3. CASE executors' = <<>> /\ template' = <<>>
      BY <2>3, NoneKeepsPools
    <2>4. CASE executors' = <<e>> /\ startup' = "serving" /\ template' = template
      <3>1. TemplateTyped'
        BY <2>4 DEF PoolsInv, TemplateTyped
      <3>2. QED
        BY <2>1, <2>2, <2>4, <3>1, OneKeepsPools
    <2>5. QED
      BY <2>1, <2>3, <2>4
  <1>2. CASE \E k \in DOMAIN starts : InitPackedParts(k)
    <2> DEFINE e == Executor("q8", "bucket", LoadPacked(release["bucket"].weights, "wasm-u8i8i32"))
    <2>1. /\ host = "worker" /\ UNCHANGED <<host, startup, dir, precision, template>>
          /\ executors' = <<e>> \/ executors' = executors
      BY <1>2 DEF InitPackedParts, Idle, server, Reject
    <2>2. IsExecutor(e)
      BY ExecutorFacts
    <2> HIDE DEF e
    <2>3. CASE executors' = <<e>>
      <3>1. TemplateTyped'
        BY <2>1 DEF PoolsInv, TemplateTyped
      <3>2. QED
        BY <2>1, <2>2, <2>3, <3>1, OneKeepsPools
    <2>4. CASE executors' = executors
      BY <2>1, <2>4, UnchangedStay, StayKeepsPools DEF PoolsInv
    <2>5. QED
      BY <2>1, <2>3, <2>4
  <1>3. QED
    BY <1>1, <1>2

-----------------------------------------------------------------------------
(* At most one start is not rejected, and it is the one that is referred to.   *)

LivingStart ==
    /\ \A k \in DOMAIN starts : starts[k].promise # "rejected" => k = initialization
    /\ initialization # 0 => starts[initialization].promise # "rejected"

LoadedByStart ==
    host = "worker" =>
        \/ loads = 0
        \/ loads = 1 /\ initialization # 0 /\ starts[initialization].promise = "resolved"

IsolateInv == IsolateTyped /\ LivingStart /\ LoadedByStart

LEMMA IsolateInit == Init => IsolateInv
  <1> SUFFICES ASSUME Init PROVE IsolateInv
    OBVIOUS
  <1>1. starts = <<>> /\ initialization = 0 /\ loads = 0 /\ awaits = [h \in Handlers |-> 0]
    BY DEF Init
  <1>2. starts \in Seq(Starts) /\ Len(starts) = 0 /\ DOMAIN starts = {}
    BY <1>1
  <1>3. initialization \in 0 .. Len(starts) /\ awaits \in [Handlers -> 0 .. Len(starts)]
    BY <1>1, <1>2
  <1>4. QED
    BY <1>1, <1>2, <1>3 DEF IsolateInv, IsolateTyped, LivingStart, LoadedByStart

LEMMA IsolateFacts ==
    ASSUME IsolateInv
    PROVE  /\ starts \in Seq(Starts) /\ Len(starts) \in Nat
           /\ DOMAIN starts = 1 .. Len(starts)
           /\ \A k \in DOMAIN starts :
                  starts[k].read \in Nat /\ starts[k].promise \in Promises
           /\ initialization \in 0 .. Len(starts)
           /\ awaits \in [Handlers -> 0 .. Len(starts)]
           /\ loads \in Nat
  <1>1. /\ starts \in Seq(Starts) /\ Len(starts) \in Nat
        /\ DOMAIN starts = 1 .. Len(starts)
        /\ initialization \in 0 .. Len(starts)
        /\ awaits \in [Handlers -> 0 .. Len(starts)]
        /\ loads \in Nat
    BY DEF IsolateInv, IsolateTyped
  <1>2. \A k \in DOMAIN starts : starts[k] \in Starts
    BY <1>1
  <1>3. QED
    BY <1>1, <1>2 DEF Starts

\* The server's steps load models of its own and leave the isolate alone.
LEMMA ServerKeepsIsolate ==
    ASSUME IsolateInv, UNCHANGED <<host, starts, initialization>>,
           awaits' \in [Handlers -> 0 .. Len(starts)], loads' \in Nat,
           host # "worker" \/ loads' = loads
    PROVE  IsolateInv'
  BY DEF IsolateInv, IsolateTyped, LivingStart, LoadedByStart

\* A pending start goes on, ends well or is rejected and forgotten.
LEMMA StartGoesOn ==
    ASSUME IsolateInv, NEW k \in DOMAIN starts, starts[k].promise = "pending",
           UNCHANGED <<host, awaits>>, host = "worker",
           \/ /\ starts' = [starts EXCEPT ![k].read = @ + 1]
              /\ UNCHANGED <<initialization, loads>>
           \/ Reject(k)
           \/ /\ starts' = [starts EXCEPT ![k].promise = "resolved"]
              /\ loads' = loads + 1
              /\ UNCHANGED initialization
    PROVE  IsolateInv'
  <1>0. /\ starts \in Seq(Starts) /\ Len(starts) \in Nat
        /\ DOMAIN starts = 1 .. Len(starts) /\ starts[k] \in Starts
        /\ \A j \in DOMAIN starts :
               starts[j].read \in Nat /\ starts[j].promise \in Promises
        /\ initialization \in 0 .. Len(starts)
        /\ awaits \in [Handlers -> 0 .. Len(starts)] /\ loads \in Nat
    BY IsolateFacts
  <1>1. k = initialization /\ k # 0 /\ loads = 0
    BY <1>0 DEF IsolateInv, LivingStart, LoadedByStart
  <1>2. ASSUME NEW s \in Starts, starts' = [starts EXCEPT ![k] = s]
        PROVE  /\ starts' \in Seq(Starts) /\ Len(starts') = Len(starts)
               /\ DOMAIN starts' = DOMAIN starts
               /\ starts'[k] = s
               /\ \A j \in DOMAIN starts : j # k => starts'[j] = starts[j]
    BY <1>0, <1>2
  <1>3. \A j \in DOMAIN starts : j # k => starts[j].promise = "rejected"
    BY <1>1 DEF IsolateInv, LivingStart
  <1>4. CASE starts' = [starts EXCEPT ![k].read = @ + 1] /\ UNCHANGED <<initialization, loads>>
    <2> DEFINE s == [starts[k] EXCEPT !.read = starts[k].read + 1]
    <2>1. s \in Starts /\ s.promise = "pending"
      BY <1>0 DEF Starts, Promises
    <2>2. starts' = [starts EXCEPT ![k] = s]
      BY <1>4
    <2> HIDE DEF s
    <2>3. IsolateTyped' /\ LivingStart'
      BY <1>0, <1>1, <1>2, <1>3, <1>4, <2>1, <2>2 DEF IsolateTyped, LivingStart
    <2>4. LoadedByStart'
      BY <1>1, <1>4 DEF LoadedByStart
    <2>5. QED
      BY <2>3, <2>4 DEF IsolateInv
  <1>5. CASE Reject(k)
    <2> DEFINE s == [starts[k] EXCEPT !.promise = "rejected"]
    <2>1. s \in Starts /\ s.promise = "rejected"
      BY <1>0 DEF Starts, Promises
    <2>2. starts' = [starts EXCEPT ![k] = s] /\ initialization' = 0 /\ loads' = loads
      BY <1>5 DEF Reject, Forget
    <2> HIDE DEF s
    <2>3. IsolateTyped' /\ LivingStart'
      BY <1>0, <1>1, <1>2, <1>3, <2>1, <2>2 DEF IsolateTyped, LivingStart
    <2>4. LoadedByStart'
      BY <1>1, <2>2 DEF LoadedByStart
    <2>5. QED
      BY <2>3, <2>4 DEF IsolateInv
  <1>6. CASE /\ starts' = [starts EXCEPT ![k].promise = "resolved"]
             /\ loads' = loads + 1 /\ UNCHANGED initialization
    <2> DEFINE s == [starts[k] EXCEPT !.promise = "resolved"]
    <2>1. s \in Starts /\ s.promise = "resolved"
      BY <1>0 DEF Starts, Promises
    <2>2. starts' = [starts EXCEPT ![k] = s]
      BY <1>6
    <2> HIDE DEF s
    <2>3. /\ starts' \in Seq(Starts) /\ Len(starts') = Len(starts)
          /\ DOMAIN starts' = DOMAIN starts /\ starts'[k] = s
          /\ \A j \in DOMAIN starts : j # k => starts'[j] = starts[j]
      BY <1>2, <2>1, <2>2
    <2>4. IsolateTyped'
      BY <1>0, <1>6, <2>3 DEF IsolateTyped
    <2>5. LivingStart'
      BY <1>1, <1>3, <1>6, <2>1, <2>3 DEF LivingStart
    <2>6. LoadedByStart'
      BY <1>1, <1>6, <2>1, <2>3 DEF LoadedByStart
    <2>7. QED
      BY <2>4, <2>5, <2>6 DEF IsolateInv
  <1>7. QED
    BY <1>4, <1>5, <1>6

\* A handler shares the start that is referred to, or makes one.
LEMMA ArriveFacts ==
    ASSUME IsolateInv, NEW h \in Handlers, Arrive(h)
    PROVE  /\ IsolateInv'
           /\ starts'[awaits'[h]].promise # "rejected"
           /\ \A g \in Handlers \ {h} : awaits'[g] = awaits[g]
  <1>0. /\ starts \in Seq(Starts) /\ Len(starts) \in Nat
        /\ DOMAIN starts = 1 .. Len(starts)
        /\ initialization \in 0 .. Len(starts)
        /\ awaits \in [Handlers -> 0 .. Len(starts)] /\ loads \in Nat
        /\ UNCHANGED <<host, loads>> /\ host = "worker"
    BY IsolateFacts DEF Arrive, Idle
  <1>1. CASE initialization # 0
    <2>1. /\ UNCHANGED <<starts, initialization>>
          /\ awaits' = [awaits EXCEPT ![h] = initialization]
      BY <1>1 DEF Arrive, Initializing
    <2>2. awaits' \in [Handlers -> 0 .. Len(starts)] /\ awaits'[h] = initialization
      BY <1>0, <2>1
    <2>3. IsolateInv'
      BY <1>0, <2>1, <2>2, ServerKeepsIsolate
    <2>4. QED
      BY <1>0, <1>1, <2>1, <2>2, <2>3 DEF IsolateInv, LivingStart
  <1>2. CASE initialization = 0
    <2> DEFINE s == [read |-> 0, promise |-> "pending"]
    <2>1. /\ starts' = Append(starts, s)
          /\ initialization' = Len(starts')
          /\ awaits' = [awaits EXCEPT ![h] = initialization']
      BY <1>2 DEF Arrive, Initializing
    <2>2. s \in Starts /\ s.promise = "pending"
      BY DEF Starts, Promises
    <2> HIDE DEF s
    <2>3. /\ starts' \in Seq(Starts) /\ Len(starts') = Len(starts) + 1
          /\ DOMAIN starts' = DOMAIN starts \cup {Len(starts) + 1}
          /\ starts'[Len(starts) + 1] = s
          /\ \A k \in DOMAIN starts : starts'[k] = starts[k]
      BY <1>0, <2>1, <2>2
    <2>4. /\ awaits' \in [Handlers -> 0 .. Len(starts')]
          /\ awaits'[h] = Len(starts) + 1
          /\ \A g \in Handlers \ {h} : awaits'[g] = awaits[g]
      BY <1>0, <2>1, <2>3
    <2>5. initialization' = Len(starts) + 1 /\ initialization' \in 0 .. Len(starts')
      BY <1>0, <2>1, <2>3
    <2>6. \A k \in DOMAIN starts : starts[k].promise = "rejected"
      BY <1>0, <1>2 DEF IsolateInv, LivingStart
    <2>7. IsolateTyped'
      BY <1>0, <2>3, <2>4, <2>5 DEF IsolateTyped
    <2>8. LivingStart'
      BY <2>2, <2>3, <2>5, <2>6 DEF LivingStart
    <2>9. LoadedByStart'
      BY <1>0, <1>2 DEF LoadedByStart, IsolateInv
    <2>10. QED
      BY <2>2, <2>3, <2>4, <2>7, <2>8, <2>9 DEF IsolateInv
  <1>3. QED
    BY <1>1, <1>2

LEMMA IsolateNext ==
    ASSUME IsolateInv, PoolsInv, [Next]_vars
    PROVE  IsolateInv'
  <1>0. /\ awaits \in [Handlers -> 0 .. Len(starts)] /\ loads \in Nat /\ Len(starts) \in Nat
    BY IsolateFacts
  <1>1. CASE MoveLink \/ NewFactory \/ CreateFp32 \/ CreateQ8 \/ ForkQ8 \/ LoadMetalBackend
    <2>1. /\ UNCHANGED <<host, starts, initialization, awaits>> /\ host # "worker"
          /\ loads' = loads \/ loads' = loads + 1
      BY <1>1 DEF MoveLink, NewFactory, CreateFp32, CreateQ8, ForkQ8, LoadMetalBackend,
                  StartFails, isolate
    <2>2. QED
      BY <1>0, <2>1, ServerKeepsIsolate
  <1>2. CASE Serve \/ Run \/ Rest \/ UNCHANGED vars
    <2>1. UNCHANGED <<host, starts, initialization, awaits, loads>>
      BY <1>2 DEF Serve, Run, Rest, isolate, vars
    <2>2. QED
      BY <1>0, <2>1, ServerKeepsIsolate
  <1>3. ASSUME NEW h \in Handlers, Arrive(h) PROVE IsolateInv'
    BY <1>3, ArriveFacts
  <1>4. ASSUME NEW h \in Handlers, Resume(h) PROVE IsolateInv'
    <2>1. /\ UNCHANGED <<host, starts, initialization, loads>>
          /\ awaits' = [awaits EXCEPT ![h] = 0]
      BY <1>4 DEF Resume
    <2>2. awaits' \in [Handlers -> 0 .. Len(starts)]
      BY <1>0, <2>1
    <2>3. QED
      BY <1>0, <2>1, <2>2, ServerKeepsIsolate
  <1>5. ASSUME NEW k \in DOMAIN starts, ReadRange(k) PROVE IsolateInv'
    <2>1. /\ host = "worker" /\ UNCHANGED <<host, awaits>> /\ starts[k].promise = "pending"
          /\ \/ /\ starts' = [starts EXCEPT ![k].read = @ + 1]
                /\ UNCHANGED <<initialization, loads>>
             \/ Reject(k)
      BY <1>5 DEF ReadRange, Idle
    <2>2. QED
      BY <2>1, StartGoesOn
  <1>6. ASSUME NEW k \in DOMAIN starts, InitPackedParts(k) PROVE IsolateInv'
    <2>1. /\ host = "worker" /\ UNCHANGED <<host, awaits>> /\ starts[k].promise = "pending"
          /\ \/ Reject(k)
             \/ /\ starts' = [starts EXCEPT ![k].promise = "resolved"]
                /\ loads' = loads + 1
                /\ UNCHANGED initialization
      BY <1>6 DEF InitPackedParts, Idle
    <2>2. QED
      BY <2>1, StartGoesOn
  <1>7. QED
    BY <1>1, <1>2, <1>3, <1>4, <1>5, <1>6 DEF Next

LEMMA PoolsNext ==
    ASSUME IsolateInv, PoolsInv, [Next]_vars
    PROVE  PoolsInv'
  <1>1. CASE UNCHANGED vars
    <2>1. ExecutorsTyped
      BY DEF PoolsInv
    <2>2. executors' = executors /\ UNCHANGED <<host, startup, dir, precision, template>>
      BY <1>1 DEF vars, engine, server
    <2>3. QED
      BY <2>1, <2>2, UnchangedStay, StayKeepsPools
  <1>2. IsolateTyped
    BY DEF IsolateInv
  <1>3. QED
    BY <1>1, <1>2, RestOfStepsKeepPools, CreateKeepsPools, FirstKeepsPools DEF Next, MakesNone

LEMMA HostsInvariant == Spec => [](IsolateInv /\ PoolsInv)
  <1>1. Init => IsolateInv /\ PoolsInv
    BY IsolateInit, PoolsInit
  <1>2. (IsolateInv /\ PoolsInv) /\ [Next]_vars => (IsolateInv /\ PoolsInv)'
    BY IsolateNext, PoolsNext
  <1>3. QED
    BY <1>1, <1>2, PTL DEF Spec

-----------------------------------------------------------------------------
\* Whatever the directories and the bucket hold, however often the link moves
\* and the isolate's reads fail: the workers of a pool run one release, its Q8
\* workers one copy, and an isolate that has loaded never loads again.
THEOREM HostsShareOneModel == Spec => []OneModelPerHost
  <1>1. IsolateInv /\ PoolsInv => OneModelPerHost
    <2> SUFFICES ASSUME IsolateInv, PoolsInv PROVE OneModelPerHost
      OBVIOUS
    <2>1. ASSUME NEW v \in DOMAIN executors, NEW w \in DOMAIN executors
          PROVE  /\ executors[v].place = executors[w].place
                 /\ executors[v].kind = "q8" => executors[v].load = executors[w].load
      <3>1. CASE host # "pool"
        <4>1. Len(executors) <= 1 /\ DOMAIN executors = 1 .. Len(executors) /\ Len(executors) \in Nat
          BY <3>1, SeqFacts DEF PoolsInv, OneCopy, ExecutorsTyped
        <4>2. v = w
          BY <4>1
        <4>3. QED
          BY <4>2
      <3>2. CASE host = "pool"
        <4>1. executors[v].place = dir /\ executors[w].place = dir
          BY <3>2 DEF PoolsInv, OneDirectory
        <4>2. CASE precision # "q8"
          BY <3>2, <4>1, <4>2 DEF PoolsInv, OneCopy
        <4>3. CASE precision = "q8"
          <5>1. executors # <<>>
            BY EmptyFacts
          <5>2. template # <<>>
            BY <3>2, <4>3, <5>1 DEF PoolsInv, OneCopy
          <5>3. QED
            BY <3>2, <4>1, <5>2 DEF PoolsInv, OneCopy
        <4>4. QED
          BY <4>2, <4>3
      <3>3. QED
        BY <3>1, <3>2
    <2>2. ASSUME NEW j \in DOMAIN starts, NEW k \in DOMAIN starts,
                 starts[j].promise # "rejected", starts[k].promise # "rejected"
          PROVE  j = k
      BY <2>2 DEF IsolateInv, LivingStart
    <2>3. host = "worker" => loads <= 1
      BY DEF IsolateInv, LoadedByStart
    <2>4. QED
      BY <2>1, <2>2, <2>3 DEF OneModelPerHost
  <1>2. QED
    BY HostsInvariant, <1>1, PTL

\* A request of the isolate never joins a start that has failed.
THEOREM FailedStartsAreForgotten == Spec => FailedStartIsForgotten
  <1> DEFINE Joins == \A h \in Handlers :
                 awaits[h] = 0 /\ awaits'[h] # 0 => starts'[awaits'[h]].promise # "rejected"
  <1>1. ASSUME IsolateInv, Next, NEW h \in Handlers, awaits[h] = 0, awaits'[h] # 0
        PROVE  starts'[awaits'[h]].promise # "rejected"
    <2>1. awaits \in [Handlers -> 0 .. Len(starts)]
      BY <1>1, IsolateFacts
    <2>2. CASE UNCHANGED awaits
      BY <1>1, <2>2
    <2>3. CASE \E g \in Handlers : Resume(g)
      <3>1. PICK g \in Handlers : awaits' = [awaits EXCEPT ![g] = 0]
        BY <2>3 DEF Resume
      <3>2. awaits'[h] = 0
        BY <1>1, <2>1, <3>1
      <3>3. QED
        BY <1>1, <3>2
    <2>4. CASE \E g \in Handlers : Arrive(g)
      <3>1. PICK g \in Handlers : Arrive(g)
        BY <2>4
      <3>2. /\ starts'[awaits'[g]].promise # "rejected"
            /\ \A f \in Handlers \ {g} : awaits'[f] = awaits[f]
        BY <1>1, <3>1, ArriveFacts
      <3>3. QED
        BY <1>1, <3>2
    <2>5. QED
      BY <1>1, <2>2, <2>3, <2>4
         DEF Next, MoveLink, NewFactory, CreateFp32, CreateQ8, ForkQ8, LoadMetalBackend, Serve,
             Run, Rest, ReadRange, InitPackedParts, isolate, vars
  <1>2. (IsolateInv /\ PoolsInv) /\ [Next]_vars => [Joins]_vars
    BY <1>1
  <1>3. QED
    BY HostsInvariant, <1>2, PTL DEF Spec, FailedStartIsForgotten

-----------------------------------------------------------------------------
(* Limits of a batch. *)

BatchRows == [length : Nat, requested : Nat, wants : Nat \ {0}, listed : BOOLEAN]

\* A bounded set of numbers has a last element: the one with the fewest above it.
LEMMA MinimalSubset ==
    ASSUME NEW S, NEW T, T \subseteq Finite!FiniteSubsetsOf(S), T # {}
    PROVE  \E x \in T : \A y \in T : ~ (<<y, x>> \in Finite!StrictSubsetOrdering(S))
  <1>1. Finite!IsWellFoundedOn(Finite!StrictSubsetOrdering(S), Finite!FiniteSubsetsOf(S))
    BY Finite!FS_StrictSubsetOrderingWellFounded, Zenon
  <1>2. QED
    BY <1>1, Finite!WFMin, Zenon

LEMMA MaxOfBounded ==
    ASSUME NEW n \in Nat, NEW S, S \subseteq 0 .. n, S # {}
    PROVE  Max(S) \in S /\ \A k \in S : k <= Max(S)
  <1> DEFINE Above(k) == {j \in S : j > k}
             T == {Above(k) : k \in S}
  <1>1. \A k \in S : k \in Nat
    OBVIOUS
  <1>2. Finite!IsFiniteSet(S)
    <2>1. Finite!IsFiniteSet(0 .. n)
      BY Finite!FS_Interval
    <2>2. QED
      BY <2>1, Finite!FS_Subset
  <1>3. T \subseteq Finite!FiniteSubsetsOf(S)
    BY <1>2, Finite!FS_Subset DEF Finite!FiniteSubsetsOf
  <1>4. T # {}
    OBVIOUS
  <1> HIDE DEF T
  <1>5. PICK x \in T : \A y \in T : ~ (<<y, x>> \in Finite!StrictSubsetOrdering(S))
    BY <1>3, <1>4, MinimalSubset
  <1> USE DEF T
  <1>6. PICK m \in S : x = Above(m)
    BY <1>5
  <1>7. ASSUME NEW k \in S, k > m PROVE FALSE
    <2>1. \A j \in S : j > k => j > m
      BY <1>1, <1>7
    <2>2. k \in Above(m) /\ k \notin Above(k)
      BY <1>1, <1>7
    <2>3. Above(k) \subseteq Above(m) /\ Above(k) # Above(m)
      BY <2>1, <2>2
    <2>4. <<Above(k), Above(m)>> \in Finite!StrictSubsetOrdering(S)
      BY <2>3 DEF Finite!StrictSubsetOrdering
    <2>5. QED
      BY <2>4, <1>5, <1>6
  <1>8. \E x_1 \in S : \A y \in S : x_1 >= y
    BY <1>1, <1>7
  <1>9. Max(S) \in S /\ \A y \in S : Max(S) >= y
    BY <1>8 DEF Max
  <1>10. QED
    BY <1>1, <1>9

LEMMA MinOfFour ==
    ASSUME NEW a \in Nat, NEW b \in Nat, NEW c \in Nat, NEW d \in Nat
    PROVE  Min({a, b, c, d}) \in Nat /\ Min({a, b, c, d}) <= d
  <1> DEFINE S == {a, b, c, d}
  <1>1. \E x \in S : \A y \in S : x =< y
    <2>1. CASE a <= b /\ a <= c /\ a <= d
      BY <2>1
    <2>2. CASE b <= a /\ b <= c /\ b <= d
      BY <2>2
    <2>3. CASE c <= a /\ c <= b /\ c <= d
      BY <2>3
    <2>4. CASE d <= a /\ d <= b /\ d <= c
      BY <2>4
    <2>5. QED
      BY <2>1, <2>2, <2>3, <2>4
  <1>2. Min(S) \in S /\ \A y \in S : Min(S) =< y
    <2> HIDE DEF S
    <2>1. QED
      BY <1>1 DEF Min
  <1>3. d \in S /\ S \subseteq Nat
    OBVIOUS
  <1>4. QED
    BY <1>2, <1>3

LEMMA LimitIsInTable ==
    ASSUME request \in Batches, NEW r \in DOMAIN request
    PROVE  Limit(request[r]) \in 0 .. MaximumPosition
  <1>1. Batches \subseteq Seq(BatchRows)
    BY CpuEngineAssumption DEF BatchRows
  <1>2. request[r] \in BatchRows
    BY <1>1
  <1>3. request[r].requested \in Nat /\ request[r].length \in Nat
    BY <1>2 DEF BatchRows
  <1>4. Factor \in Nat /\ MaxSteps \in Nat /\ MaximumPosition \in Nat
    BY CpuEngineAssumption
  <1>5. request[r].length * Factor \in Nat
    BY <1>3, <1>4
  <1>6. Limit(request[r]) \in Nat /\ Limit(request[r]) <= MaximumPosition
    BY <1>3, <1>4, <1>5, MinOfFour DEF Limit
  <1>7. QED
    BY <1>4, <1>6

LEMMA GenerationIsInTable ==
    ASSUME request \in Batches
    PROVE  GenerationLimit \in 0 .. MaximumPosition
  <1> DEFINE L == {Limit(request[r]) : r \in DOMAIN request}
  <1>1. L \subseteq 0 .. MaximumPosition
    BY LimitIsInTable
  <1>2. request # <<>> /\ request \in Seq(BatchRows)
    BY CpuEngineAssumption DEF BatchRows
  <1>3. 1 \in DOMAIN request
    BY <1>2
  <1>4. L # {}
    BY <1>3
  <1>5. MaximumPosition \in Nat
    BY CpuEngineAssumption
  <1> HIDE DEF L
  <1>6. Max(L) \in L
    BY <1>1, <1>4, <1>5, MaxOfBounded
  <1>7. GenerationLimit = Max(L)
    BY DEF GenerationLimit, L
  <1>8. QED
    BY <1>1, <1>6, <1>7

-----------------------------------------------------------------------------
(* Stages of translate_token_ids. *)

Stages == {"idle", "begin", "encode", "loop", "decode", "output"}

\* While a decoder step is under way, its position is in the table: the loop has
\* begun it below the largest limit of the batch, and only its end counts it.
StageInv ==
    /\ step \in Nat
    /\ stage \in Stages
    /\ stage \in {"idle", "begin", "loop", "output"} => plan = <<>>
    /\ stage \in {"idle", "begin", "encode"} => step = 0
    /\ stage = "decode" => step < MaximumPosition
    /\ stage # "idle" => request \in Batches

LEMMA EndReachesIdle ==
    ASSUME NEW how, End(how)
    PROVE  StageInv' /\ outcome' = how
  BY DEF End, StageInv, Stages

LEMMA BeginKeepsStages ==
    ASSUME StageInv, NEW w, Begin(w)
    PROVE  StageInv' /\ stage = "idle"
  BY DEF Begin, StageInv, Stages

LEMMA PositionIsInTable ==
    ASSUME StageInv
    PROVE  ~PositionOutOfRange
  <1>1. MaximumPosition \in Nat \ {0}
    BY CpuEngineAssumption
  <1>2. ASSUME plan # <<>> PROVE step < MaximumPosition
    <2>1. stage = "encode" \/ stage = "decode"
      BY <1>2 DEF StageInv, Stages
    <2>2. QED
      BY <1>1, <2>1 DEF StageInv
  <1>3. QED
    BY <1>1, <1>2 DEF PositionOutOfRange, StageInv

LEMMA TranslateKeepsStages ==
    ASSUME StageInv, Translate
    PROVE  /\ StageInv'
           /\ (stage \notin {"idle", "begin"} /\ stage' = "idle" /\ outcome' = "failed" =>
                  ~PrepareCandidates(executors[busy].shortlist))
  <1>1. CASE Refuse
    BY <1>1, EndReachesIdle DEF Refuse
  <1>2. CASE BeginEncode
    BY <1>2 DEF BeginEncode, StageInv, Stages
  <1>3. CASE RunNext
    <2>1. UNCHANGED <<request, stage, step>> /\ plan # <<>>
      BY <1>3 DEF RunNext
    <2>2. stage = "encode" \/ stage = "decode"
      BY <2>1 DEF StageInv, Stages
    <2>3. QED
      BY <2>1, <2>2 DEF StageInv, Stages
  <1>4. CASE BeginDecode
    BY <1>4 DEF BeginDecode, StageInv, Stages
  <1>5. CASE Fail
    <2>1. ~PrepareCandidates(executors[busy].shortlist) /\ End("failed")
      BY <1>5, PositionIsInTable DEF Fail
    <2>2. QED
      BY <2>1, EndReachesIdle
  <1>6. CASE BeginStep
    <2>1. /\ stage = "loop" /\ step < GenerationLimit /\ UNCHANGED <<request, step>>
          /\ stage' = "output" \/ stage' = "decode"
          /\ stage' = "output" => plan' = <<>>
      BY <1>6 DEF BeginStep
    <2>2. GenerationLimit \in 0 .. MaximumPosition
      BY <2>1, GenerationIsInTable DEF StageInv
    <2>3. step \in Nat /\ MaximumPosition \in Nat
      BY CpuEngineAssumption DEF StageInv
    <2>4. step < MaximumPosition
      BY <2>1, <2>2, <2>3
    <2>5. QED
      BY <2>1, <2>4 DEF StageInv, Stages
  <1>7. CASE Select
    <2>1. /\ stage = "decode" /\ plan = <<>> /\ UNCHANGED <<request, plan>>
          /\ step' = step + 1 /\ stage' = "loop"
      BY <1>7 DEF Select
    <2>2. QED
      BY <2>1 DEF StageInv, Stages
  <1>8. CASE Return
    <2>1. End("answered")
      BY <1>8 DEF Return
    <2>2. StageInv' /\ outcome' = "answered"
      BY <2>1, EndReachesIdle
    <2>3. QED
      BY <2>2
  <1>9. QED
    BY <1>1, <1>2, <1>3, <1>4, <1>5, <1>6, <1>7, <1>8 DEF Translate

OnlyCandidatesFail ==
    stage \notin {"idle", "begin"} /\ stage' = "idle" /\ outcome' = "failed" =>
        ~PrepareCandidates(executors[busy].shortlist)

LEMMA StagesNext ==
    ASSUME IsolateInv, StageInv, [Next]_vars
    PROVE  StageInv' /\ OnlyCandidatesFail
  <1>1. CASE UNCHANGED <<request_vars, served, outcome>>
    BY <1>1 DEF request_vars, StageInv, Stages, OnlyCandidatesFail
  <1>2. CASE \E w : Begin(w)
    BY <1>2, BeginKeepsStages DEF OnlyCandidatesFail
  <1>3. CASE Translate
    BY <1>3, TranslateKeepsStages DEF OnlyCandidatesFail
  <1>4. CASE \E h \in Handlers : Resume(h)
    <2>1. (\E w : Begin(w)) \/ UNCHANGED engine
      BY <1>4, ResumeFacts DEF IsolateInv
    <2>2. QED
      BY <1>1, <1>2, <2>1 DEF engine
  <1>5. QED
    BY <1>1, <1>2, <1>3, <1>4
       DEF Next, MoveLink, NewFactory, CreateFp32, CreateQ8, ForkQ8, LoadMetalBackend, Serve, Run,
           Rest, Arrive, ReadRange, InitPackedParts, vars, engine

\* For every set of batches, every limit and every number of layers: a batch that
\* validate_batch takes fails for want of candidates alone, since no limit of a
\* row is beyond the table of positions.
THEOREM LimitsStayInTheTable == Spec => ValidBatchesAreDecoded
  <1>1. Init => StageInv
    BY DEF Init, InitEngine, StageInv, Stages
  <1>2. IsolateInv /\ StageInv /\ [Next]_vars => StageInv' /\ [OnlyCandidatesFail]_engine
    BY StagesNext
  <1>3. QED
    BY <1>1, <1>2, HostsInvariant, PTL DEF Spec, ValidBatchesAreDecoded, OnlyCandidatesFail

-----------------------------------------------------------------------------
(* Recursive functions. *)

\* A set of natural numbers has a least element: the one with the fewest below it.
LEMMA LeastNumber ==
    ASSUME NEW S, S \subseteq Nat, S # {}
    PROVE  \E m \in S : \A k \in S : m <= k
  <1> DEFINE Below(k) == 0 .. k
             T == {Below(k) : k \in S}
  <1>1. \A k \in S : k \in Nat
    OBVIOUS
  <1>2. \A k \in S : Below(k) \subseteq Nat /\ Finite!IsFiniteSet(Below(k))
    BY <1>1, Finite!FS_Interval
  <1>3. T \subseteq Finite!FiniteSubsetsOf(Nat)
    BY <1>2 DEF Finite!FiniteSubsetsOf
  <1>4. T # {}
    OBVIOUS
  <1> HIDE DEF T
  <1>5. PICK x \in T : \A y \in T : ~ (<<y, x>> \in Finite!StrictSubsetOrdering(Nat))
    BY <1>3, <1>4, MinimalSubset
  <1> USE DEF T
  <1>6. PICK m \in S : x = Below(m)
    BY <1>5
  <1>7. ASSUME NEW k \in S, k < m PROVE FALSE
    <2>1. m \in Below(m) /\ m \notin Below(k)
      BY <1>1, <1>7
    <2>2. Below(k) \subseteq Below(m)
      BY <1>1, <1>7
    <2>3. Below(k) # Below(m)
      BY <2>1
    <2>4. <<Below(k), Below(m)>> \in Finite!StrictSubsetOrdering(Nat)
      BY <2>2, <2>3, <1>2 DEF Finite!StrictSubsetOrdering
    <2>5. QED
      BY <2>4, <1>5, <1>6
  <1>8. QED
    BY <1>1, <1>6, <1>7

\* What holds of a number and of the successor of each holds of all that follow.
LEMMA AllReached ==
    ASSUME NEW m \in Nat, NEW n \in Nat, NEW S,
           m \in S, \A k \in m .. n - 1 : k \in S => k + 1 \in S
    PROVE  m .. n \subseteq S
  <1> DEFINE Missing == {k \in m .. n : k \notin S}
  <1>1. ASSUME Missing # {} PROVE FALSE
    <2>1. PICK k \in Missing : \A j \in Missing : k <= j
      <3>1. Missing \subseteq Nat
        OBVIOUS
      <3> HIDE DEF Missing
      <3>2. QED
        BY <1>1, <3>1, LeastNumber
    <2>2. k \in m .. n /\ k # m
      BY <2>1
    <2>3. k - 1 \in m .. n - 1 /\ k - 1 \in S
      BY <2>1, <2>2
    <2>4. (k - 1) + 1 = k /\ (k - 1) + 1 \in S
      BY <2>2, <2>3
    <2>5. QED
      BY <2>1, <2>4
  <1>2. QED
    BY <1>1

\* f begins with base at m and makes a move to each next value.
Follows(f, m, n, base, move) ==
    \A k \in m .. n : f[k] = IF k = m THEN base ELSE move[k][f[k - 1]]

StaysIn(V, m, n, move) == \A k \in m .. n : k # m => \A v \in V : move[k][v] \in V

\* A function may be defined by what it is first and by a move from each value to
\* the next.
LEMMA StepsDefineFunction ==
    ASSUME NEW m \in Nat, NEW n \in Nat, m <= n, NEW V, NEW base \in V, NEW move,
           StaysIn(V, m, n, move)
    PROVE  \E f \in [m .. n -> V] : Follows(f, m, n, base, move)
  <1> USE DEF Follows, StaysIn
  <1> DEFINE Good(f, j) ==
                 /\ f \in [m .. j -> V]
                 /\ \A k \in m .. j : f[k] = IF k = m THEN base ELSE move[k][f[k - 1]]
             S == {j \in m .. n : \E f : Good(f, j)}
  <1>1. m \in S
    <2> DEFINE f == [k \in m .. m |-> base]
    <2>1. \A k \in m .. m : k = m
      OBVIOUS
    <2>2. \A k \in m .. m : f[k] = base
      BY <2>1
    <2>3. Good(f, m) /\ m \in m .. n
      BY <2>1, <2>2
    <2> HIDE DEF f
    <2>4. QED
      BY <2>3
  <1>2. ASSUME NEW j \in m .. n - 1, j \in S PROVE j + 1 \in S
    <2>1. PICK g : Good(g, j)
      BY <1>2
    <2> DEFINE h == [k \in m .. j + 1 |-> IF k = m THEN base ELSE move[k][g[k - 1]]]
    <2>2. \A k \in m .. j : h[k] = g[k] /\ g[k] \in V
      <3>1. \A k \in m .. j : g[k] = IF k = m THEN base ELSE move[k][g[k - 1]]
        BY <2>1
      <3>2. \A k \in m .. j : k \in m .. j + 1 /\ g[k] \in V
        BY <2>1
      <3>3. QED
        BY <3>1, <3>2
    <2>3. ASSUME NEW k \in m .. j + 1
          PROVE  /\ h[k] \in V
                 /\ h[k] = IF k = m THEN base ELSE move[k][h[k - 1]]
      <3>1. CASE k = m
        BY <3>1
      <3>2. CASE k # m
        <4>1. k - 1 \in m .. j /\ k \in m .. n
          BY <3>2, <2>3
        <4>2. h[k - 1] = g[k - 1] /\ g[k - 1] \in V
          BY <4>1, <2>2
        <4>3. QED
          BY <3>2, <4>1, <4>2
      <3>3. QED
        BY <3>1, <3>2
    <2>4. h \in [m .. j + 1 -> V]
      BY <2>3
    <2>5. j + 1 \in m .. n
      BY <1>2
    <2> HIDE DEF h
    <2>6. QED
      BY <2>3, <2>4, <2>5
  <1>3. n \in S
    <2> HIDE DEF S
    <2>1. m .. n \subseteq S
      BY <1>1, <1>2, AllReached
    <2>2. QED
      BY <2>1
  <1>4. QED
    BY <1>3


-----------------------------------------------------------------------------
(* Sequences that are put together. *)

LEMMA IsSeqOf ==
    ASSUME NEW V, NEW seq \in Seq(V)
    PROVE  /\ IsSeq(seq)
           /\ \A k \in DOMAIN seq : seq[k] \in V
  BY DEF IsSeq, Elements

LEMMA IsSeqIn ==
    ASSUME NEW seq, IsSeq(seq), NEW V, \A k \in DOMAIN seq : seq[k] \in V
    PROVE  seq \in Seq(V)
  <1>1. seq \in Seq(Elements(seq)) /\ Elements(seq) \subseteq V
    BY DEF IsSeq, Elements
  <1>2. QED
    BY <1>1

LEMMA ListFacts ==
    ASSUME NEW n \in Nat, NEW f, f = [k \in 1 .. n |-> f[k]]
    PROVE  IsSeq(f) /\ DOMAIN f = 1 .. n /\ Len(f) = n
  <1> DEFINE V == Elements(f)
  <1>0. DOMAIN f = 1 .. n
    OBVIOUS
  <1>1. \A k \in 1 .. n : f[k] \in V
    BY <1>0 DEF Elements
  <1> HIDE DEF V
  <1>2. f \in [1 .. n -> V]
    BY <1>1
  <1>3. f \in Seq(V) /\ Len(f) = n
    BY <1>2
  <1>4. QED
    BY <1>0, <1>3, IsSeqOf

\* Each element of one sequence is one of two others.
From(seq, s, t) ==
    \A k \in DOMAIN seq : (\E j \in DOMAIN s : seq[k] = s[j]) \/ (\E j \in DOMAIN t : seq[k] = t[j])

Join(s, t) == s \o t

LEMMA JoinFacts ==
    ASSUME NEW s, IsSeq(s), NEW t, IsSeq(t)
    PROVE  /\ IsSeq(Join(s, t))
           /\ Len(Join(s, t)) = Len(s) + Len(t)
           /\ DOMAIN Join(s, t) = 1 .. Len(s) + Len(t)
           /\ \A k \in 1 .. Len(s) : Join(s, t)[k] = s[k]
           /\ \A k \in Len(s) + 1 .. Len(s) + Len(t) : Join(s, t)[k] = t[k - Len(s)]
           /\ From(Join(s, t), s, t)
  <1> DEFINE V == Elements(s) \cup Elements(t)
  <1>1. s \in Seq(V) /\ t \in Seq(V)
    <2>1. \A k \in DOMAIN s : s[k] \in V
      BY DEF Elements
    <2>2. \A k \in DOMAIN t : t[k] \in V
      BY DEF Elements
    <2> HIDE DEF V
    <2>3. QED
      BY <2>1, <2>2, IsSeqIn
  <1>2. /\ s \o t \in Seq(V)
        /\ Len(s) \in Nat /\ Len(t) \in Nat
        /\ DOMAIN s = 1 .. Len(s) /\ DOMAIN t = 1 .. Len(t)
        /\ Len(s \o t) = Len(s) + Len(t)
        /\ DOMAIN (s \o t) = 1 .. Len(s) + Len(t)
        /\ \A k \in 1 .. Len(s) : (s \o t)[k] = s[k]
        /\ \A k \in Len(s) + 1 .. Len(s) + Len(t) : (s \o t)[k] = t[k - Len(s)]
    <2> HIDE DEF V
    <2>1. QED
      BY <1>1
  <1>3. IsSeq(s \o t)
    <2> HIDE DEF V
    <2>1. QED
      BY <1>2, IsSeqOf
  <1>4. \A k \in DOMAIN (s \o t) :
            k \in 1 .. Len(s) \/ (k \in Len(s) + 1 .. Len(s) + Len(t) /\ k - Len(s) \in DOMAIN t)
    BY <1>2
  <1>5. QED
    BY <1>2, <1>3, <1>4 DEF Join, From

AllOf(seqs) == UNION {Elements(seqs[i]) : i \in DOMAIN seqs}

\* FlattenSeq joins one sequence after another; flat are the results between.
Flattens(flat, seqs) ==
    /\ FlattenSeq(seqs) = flat[Len(seqs)]
    /\ \A i \in 1 .. Len(seqs) :
           /\ flat[i] \in Seq(AllOf(seqs))
           /\ flat[i] = IF i = 1 THEN seqs[i] ELSE Join(flat[i - 1], seqs[i])

LEMMA FlattenSteps ==
    ASSUME NEW seqs, IsSeq(seqs), seqs # <<>>, \A i \in DOMAIN seqs : IsSeq(seqs[i])
    PROVE  \E flat : Flattens(flat, seqs)
  <1> DEFINE n == Len(seqs)
             All == AllOf(seqs)
             V == Seq(All)
             next(s, i) == s \o seqs[i]
             move == [i \in 1 .. n |-> [s \in V |-> next(s, i)]]
             body(f) == [i \in 1 .. n |-> IF i = 1 THEN seqs[i] ELSE next(f[i - 1], i)]
  <1>1. n \in Nat /\ DOMAIN seqs = 1 .. n /\ n # 0
    BY SeqFacts DEF IsSeq
  <1>2. \A i \in 1 .. n : seqs[i] \in V
    <2> TAKE i \in 1 .. n
    <2>1. IsSeq(seqs[i]) /\ \A k \in DOMAIN seqs[i] : seqs[i][k] \in All
      BY <1>1 DEF Elements, AllOf
    <2> HIDE DEF All
    <2>2. QED
      BY <2>1, IsSeqIn
  <1>3. \A i \in 1 .. n : \A s \in V : move[i][s] = next(s, i) /\ next(s, i) \in V
    <2>1. \A s \in V : \A t \in V : s \o t \in V
      <3> HIDE DEF All
      <3>1. QED
        OBVIOUS
    <2>2. \A i \in 1 .. n : \A s \in V : next(s, i) \in V
      <3> HIDE DEF V, n
      <3>1. QED
        BY <1>2, <2>1
    <2> HIDE DEF next, V
    <2>3. QED
      BY <2>2
  <1>4. n >= 1 /\ 1 \in 1 .. n /\ 1 \in Nat /\ 1 <= n
    BY <1>1
  <1> HIDE DEF n, V, next
  <1>5. PICK f \in [1 .. n -> V] : Follows(f, 1, n, seqs[1], move)
    <2>1. StaysIn(V, 1, n, move)
      BY <1>4, <1>3 DEF StaysIn
    <2>2. seqs[1] \in V
      BY <1>4, <1>2
    <2> HIDE DEF move
    <2>3. QED
      BY <1>1, <1>4, <2>1, <2>2, StepsDefineFunction
  <1>6. f = body(f)
    <2>1. \A i \in 1 .. n : i # 1 => i - 1 \in 1 .. n /\ f[i - 1] \in V
      BY <1>1
    <2>2. \A i \in 1 .. n : i # 1 => move[i][f[i - 1]] = next(f[i - 1], i)
      BY <2>1, <1>3
    <2> HIDE DEF move
    <2>3. \A i \in 1 .. n : f[i] = IF i = 1 THEN seqs[1] ELSE move[i][f[i - 1]]
      BY <1>5 DEF Follows
    <2>4. \A i \in 1 .. n : f[i] = body(f)[i]
      BY <2>2, <2>3
    <2>5. f = [i \in 1 .. n |-> f[i]]
      OBVIOUS
    <2>6. QED
      BY <2>4, <2>5
  <1> DEFINE B(g) == g = body(g)
             flat == CHOOSE g : B(g)
  <1>7. FlattenSeq(seqs) = flat[n]
    BY <1>1 DEF FlattenSeq, next, n
  <1>8. B(flat)
    <2> HIDE DEF B
    <2>1. B(f)
      BY <1>6 DEF B
    <2>2. QED
      BY <2>1
  <1> HIDE DEF move
  <1>9. \A i \in 1 .. n : flat[i] = IF i = 1 THEN seqs[i] ELSE next(flat[i - 1], i)
    BY <1>8
  <1> DEFINE T == {i \in 1 .. n : flat[i] \in V}
  <1> HIDE DEF flat, B
  <1>10. 1 \in T
    BY <1>4, <1>2, <1>9
  <1>11. ASSUME NEW i \in 1 .. n - 1, i \in T PROVE i + 1 \in T
    <2>1. i + 1 \in 1 .. n /\ (i + 1) - 1 = i /\ i + 1 # 1
      BY <1>1
    <2>2. flat[i + 1] = next(flat[i], i + 1)
      BY <2>1, <1>9
    <2>3. flat[i] \in V
      BY <1>11
    <2>4. flat[i + 1] \in V
      BY <2>1, <2>2, <2>3, <1>3
    <2>5. QED
      BY <2>1, <2>4
  <1>12. 1 .. n \subseteq T
    <2> HIDE DEF T
    <2>1. QED
      BY <1>1, <1>4, <1>10, <1>11, AllReached
  <1>13. \A i \in 1 .. n : flat[i] \in V
    BY <1>12
  <1>14. Flattens(flat, seqs)
    BY <1>7, <1>9, <1>13 DEF Flattens, Join, next, V, n
  <1>15. QED
    BY <1>14

\* What FlattenSeq joins are sequences, and so is what it gives, of their elements.
LEMMA FlattenFacts ==
    ASSUME NEW seqs, IsSeq(seqs), \A i \in DOMAIN seqs : IsSeq(seqs[i])
    PROVE  /\ IsSeq(FlattenSeq(seqs))
           /\ \A k \in DOMAIN FlattenSeq(seqs) :
                  \E i \in DOMAIN seqs : \E j \in DOMAIN seqs[i] : FlattenSeq(seqs)[k] = seqs[i][j]
  <1>1. CASE seqs = <<>>
    <2>1. FlattenSeq(seqs) = seqs
      BY <1>1, EmptyFacts DEF FlattenSeq
    <2>2. QED
      BY <1>1, <2>1, EmptyFacts
  <1>2. CASE seqs # <<>>
    <2>1. PICK flat : Flattens(flat, seqs)
      BY <1>2, FlattenSteps
    <2>2. Len(seqs) \in 1 .. Len(seqs)
      BY <1>2 DEF IsSeq
    <2>3. FlattenSeq(seqs) \in Seq(AllOf(seqs))
      BY <2>1, <2>2 DEF Flattens
    <2>4. /\ IsSeq(FlattenSeq(seqs))
          /\ \A k \in DOMAIN FlattenSeq(seqs) : FlattenSeq(seqs)[k] \in AllOf(seqs)
      BY <2>3, IsSeqOf
    <2>5. \A e \in AllOf(seqs) : \E i \in DOMAIN seqs : \E j \in DOMAIN seqs[i] : e = seqs[i][j]
      BY DEF Elements, AllOf
    <2>6. QED
      BY <2>4, <2>5
  <1>3. QED
    BY <1>1, <1>2

-----------------------------------------------------------------------------
(* The parts that the loaders ask for. *)

AllParts(parts) == IsSeq(parts) /\ \A k \in DOMAIN parts : IsSeq(parts[k])

LEMMA PairIsSeq == \A a, b : IsSeq(<<a, b>>)
  <1> TAKE a, b
  <1>1. <<a, b>> \in Seq({a, b})
    OBVIOUS
  <1>2. QED
    BY <1>1, IsSeqOf

LEMMA TripleIsSeq == \A a, b, c : IsSeq(<<a, b, c>>)
  <1> TAKE a, b, c
  <1>1. <<a, b, c>> \in Seq({a, b, c})
    OBVIOUS
  <1>2. QED
    BY <1>1, IsSeqOf

LEMMA JoinedParts ==
    ASSUME NEW s, AllParts(s), NEW t, AllParts(t)
    PROVE  AllParts(Join(s, t))
  <1>1. IsSeq(s) /\ IsSeq(t)
    BY DEF AllParts
  <1>2. IsSeq(Join(s, t)) /\ From(Join(s, t), s, t)
    BY <1>1, JoinFacts
  <1>3. \A k \in DOMAIN Join(s, t) : IsSeq(Join(s, t)[k])
    BY <1>2 DEF AllParts, From
  <1>4. QED
    BY <1>2, <1>3 DEF AllParts

LEMMA LayeredParts ==
    ASSUME NEW n \in Nat, NEW f, f = [l \in 1 .. n |-> f[l]], \A l \in 1 .. n : AllParts(f[l])
    PROVE  AllParts(FlattenSeq(f))
  <1>1. IsSeq(f) /\ DOMAIN f = 1 .. n
    BY ListFacts
  <1>2. \A l \in DOMAIN f : IsSeq(f[l]) /\ \A j \in DOMAIN f[l] : IsSeq(f[l][j])
    BY <1>1 DEF AllParts
  <1>3. /\ IsSeq(FlattenSeq(f))
        /\ \A k \in DOMAIN FlattenSeq(f) :
               \E l \in DOMAIN f : \E j \in DOMAIN f[l] : FlattenSeq(f)[k] = f[l][j]
    BY <1>1, <1>2, FlattenFacts
  <1>4. QED
    BY <1>2, <1>3 DEF AllParts

LEMMA SingleParts ==
    ASSUME NEW names, IsSeq(names)
    PROVE  AllParts(Singles(names))
  <1> DEFINE f == [i \in DOMAIN names |-> <<names[i]>>]
  <1>1. \A i \in DOMAIN names : IsSeq(f[i])
    BY SingletonFacts
  <1>2. DOMAIN f = DOMAIN names /\ f = [i \in DOMAIN names |-> f[i]]
    OBVIOUS
  <1> HIDE DEF f
  <1>3. IsSeq(f)
    BY <1>2, SameDomainFacts
  <1>4. AllParts(f)
    BY <1>1, <1>2, <1>3 DEF AllParts
  <1>5. QED
    BY <1>4 DEF Singles, f

\* Singles of a list of names that is given as a function.
LEMMA ListedParts ==
    ASSUME NEW n \in Nat, NEW f, f = [w \in 1 .. n |-> f[w]]
    PROVE  AllParts(Singles(f))
  BY ListFacts, SingleParts

LEMMA Fp32BlockParts ==
    ASSUME NEW block, NEW l
    PROVE  /\ AllParts(Fp32Attention(block, l))
           /\ AllParts(Fp32Ffn(block, l))
           /\ AllParts(Fp32Ssru(block, l))
  <1> DEFINE a == [w \in 1 .. 10 |->
                 <<block, l, <<"Wq", "Wk", "Wv", "Wo", "bq", "bk", "bv", "bo", "Wo_ln_scale", "Wo_ln_bias">>[w]>>]
             f == [w \in 1 .. 6 |-> <<block, l, <<"W1", "W2", "b1", "b2", "ffn_ln_scale", "ffn_ln_bias">>[w]>>]
             r == [w \in 1 .. 5 |-> <<block, l, <<"W", "Wf", "bf", "ffn_ln_scale", "ffn_ln_bias">>[w]>>]
  <1>1. a = [w \in 1 .. 10 |-> a[w]] /\ f = [w \in 1 .. 6 |-> f[w]] /\ r = [w \in 1 .. 5 |-> r[w]]
    OBVIOUS
  <1>2. /\ Fp32Attention(block, l) = Singles(a)
        /\ Fp32Ffn(block, l) = Singles(f)
        /\ Fp32Ssru(block, l) = Singles(r)
    BY DEF Fp32Attention, Fp32Ffn, Fp32Ssru
  <1> HIDE DEF a, f, r
  <1>3. AllParts(Singles(a)) /\ AllParts(Singles(f)) /\ AllParts(Singles(r))
    BY <1>1, ListedParts
  <1>4. QED
    BY <1>2, <1>3

\* A model is its shared parts, its encoder layers and its decoder layers.
LEMMA ModelParts ==
    ASSUME NEW shared, AllParts(shared), NEW encoder, NEW decoder,
           encoder = [l \in 1 .. EncoderLayers |-> encoder[l]],
           decoder = [l \in 1 .. DecoderLayers |-> decoder[l]],
           \A l \in 1 .. EncoderLayers : AllParts(encoder[l]),
           \A l \in 1 .. DecoderLayers : AllParts(decoder[l])
    PROVE  AllParts(Join(Join(shared, FlattenSeq(encoder)), FlattenSeq(decoder)))
  <1>1. EncoderLayers \in Nat /\ DecoderLayers \in Nat
    BY LayersAssumption
  <1>2. AllParts(FlattenSeq(encoder)) /\ AllParts(FlattenSeq(decoder))
    BY <1>1, LayeredParts
  <1>3. QED
    BY <1>2, JoinedParts

LEMMA SharedParts == AllParts(Singles(<<Wemb("encoder"), Wemb("decoder"), LogitBias>>))
  BY TripleIsSeq, SingleParts

LEMMA Fp32PartsFacts == AllParts(Fp32Parts)
  <1> DEFINE enc(l) == Join(Fp32Attention("encoder_self", l), Fp32Ffn("encoder_ffn", l))
             dec(l) == Join(Join(Fp32Ssru("decoder_rnn", l), Fp32Attention("decoder_context", l)),
                            Fp32Ffn("decoder_ffn", l))
             encoder == [l \in 1 .. EncoderLayers |-> enc(l)]
             decoder == [l \in 1 .. DecoderLayers |-> dec(l)]
             shared == Singles(<<Wemb("encoder"), Wemb("decoder"), LogitBias>>)
  <1>1. \A l : AllParts(enc(l)) /\ AllParts(dec(l))
    BY Fp32BlockParts, JoinedParts
  <1>2. Fp32Parts = Join(Join(shared, FlattenSeq(encoder)), FlattenSeq(decoder))
    BY DEF Fp32Parts, Layers, Join
  <1> HIDE DEF enc, dec
  <1>3. /\ encoder = [l \in 1 .. EncoderLayers |-> encoder[l]]
        /\ decoder = [l \in 1 .. DecoderLayers |-> decoder[l]]
        /\ \A l \in 1 .. EncoderLayers : AllParts(encoder[l])
        /\ \A l \in 1 .. DecoderLayers : AllParts(decoder[l])
    BY <1>1
  <1> HIDE DEF encoder, decoder
  <1>4. QED
    BY <1>2, <1>3, SharedParts, ModelParts

LEMMA OnePart ==
    ASSUME NEW p, IsSeq(p)
    PROVE  AllParts(<<p>>)
  <1>1. IsSeq(<<p>>) /\ DOMAIN <<p>> = {1} /\ <<p>>[1] = p
    BY SingletonFacts
  <1>2. QED
    BY <1>1 DEF AllParts

LEMMA TwoParts ==
    ASSUME NEW p, IsSeq(p), NEW q, IsSeq(q)
    PROVE  AllParts(<<p, q>>)
  <1>1. IsSeq(<<p, q>>) /\ DOMAIN <<p, q>> = {1, 2} /\ <<p, q>>[1] = p /\ <<p, q>>[2] = q
    BY PairIsSeq
  <1>2. QED
    BY <1>1 DEF AllParts

LEMMA FourIsSeq == \A a, b, c, d : IsSeq(<<a, b, c, d>>)
  <1> TAKE a, b, c, d
  <1>1. <<a, b, c, d>> \in Seq({a, b, c, d})
    OBVIOUS
  <1>2. QED
    BY <1>1, IsSeqOf

LEMMA FourParts ==
    ASSUME NEW p, IsSeq(p), NEW q, IsSeq(q), NEW r, IsSeq(r), NEW s, IsSeq(s)
    PROVE  AllParts(<<p, q, r, s>>)
  <1> DEFINE t == <<p, q, r, s>>
  <1>1. DOMAIN t = {1, 2, 3, 4} /\ t[1] = p /\ t[2] = q /\ t[3] = r /\ t[4] = s
    OBVIOUS
  <1>2. IsSeq(t)
    BY FourIsSeq
  <1> HIDE DEF t
  <1>3. AllParts(t)
    BY <1>1, <1>2 DEF AllParts
  <1>4. QED
    BY <1>3 DEF t

LEMMA MetalBlockParts ==
    ASSUME NEW block, NEW l
    PROVE  /\ AllParts(MetalSelfAttention(block, l))
           /\ AllParts(MetalCrossAttention(block, l))
           /\ AllParts(MetalFfn(block, l))
           /\ AllParts(MetalSsru(block, l))
  <1> DEFINE T(w) == <<block, l, w>>
             f == [w \in 1 .. 6 |-> <<block, l, <<"W1", "W2", "b1", "b2", "ffn_ln_scale", "ffn_ln_bias">>[w]>>]
  <1>1. f = [w \in 1 .. 6 |-> f[w]] /\ MetalFfn(block, l) = Singles(f)
    BY DEF MetalFfn
  <1>2. /\ MetalOutput(block, l) =
               Singles(<<T("Wo"), T("bo"), T("Wo_ln_scale"), T("Wo_ln_bias")>>)
        /\ MetalSelfAttention(block, l) =
               Join(<<<<T("Wq"), T("Wk"), T("Wv")>>, <<T("bq"), T("bk"), T("bv")>>>>, MetalOutput(block, l))
        /\ MetalCrossAttention(block, l) =
               Join(Join(Singles(<<T("Wq"), T("bq")>>),
                         <<<<T("Wk"), T("Wv")>>, <<T("bk"), T("bv")>>>>),
                    MetalOutput(block, l))
        /\ MetalSsru(block, l) =
               Join(<<<<T("W"), T("Wf")>>>>, Singles(<<T("bf"), T("ffn_ln_scale"), T("ffn_ln_bias")>>))
    BY DEF MetalOutput, MetalSelfAttention, MetalCrossAttention, MetalSsru, Join
  <1> HIDE DEF T, f
  <1>3. AllParts(MetalOutput(block, l))
    BY <1>2, FourIsSeq, SingleParts
  <1>4. AllParts(MetalSelfAttention(block, l))
    <2>1. AllParts(<<<<T("Wq"), T("Wk"), T("Wv")>>, <<T("bq"), T("bk"), T("bv")>>>>)
      BY TripleIsSeq, TwoParts
    <2>2. QED
      BY <1>2, <1>3, <2>1, JoinedParts
  <1>5. AllParts(MetalCrossAttention(block, l))
    <2>1. AllParts(<<<<T("Wk"), T("Wv")>>, <<T("bk"), T("bv")>>>>)
      BY PairIsSeq, TwoParts
    <2>2. AllParts(Singles(<<T("Wq"), T("bq")>>))
      BY PairIsSeq, SingleParts
    <2>3. QED
      BY <1>2, <1>3, <2>1, <2>2, JoinedParts
  <1>6. AllParts(MetalSsru(block, l))
    <2>1. AllParts(<<<<T("W"), T("Wf")>>>>)
      BY PairIsSeq, OnePart
    <2>2. AllParts(Singles(<<T("bf"), T("ffn_ln_scale"), T("ffn_ln_bias")>>))
      BY TripleIsSeq, SingleParts
    <2>3. QED
      BY <1>2, <2>1, <2>2, JoinedParts
  <1>7. AllParts(MetalFfn(block, l))
    BY <1>1, ListedParts
  <1>8. QED
    BY <1>4, <1>5, <1>6, <1>7

LEMMA MetalPartsFacts == AllParts(MetalParts)
  <1> DEFINE enc(l) == Join(MetalSelfAttention("encoder_self", l), MetalFfn("encoder_ffn", l))
             dec(l) == Join(Join(MetalSsru("decoder_rnn", l), MetalCrossAttention("decoder_context", l)),
                            MetalFfn("decoder_ffn", l))
             encoder == [l \in 1 .. EncoderLayers |-> enc(l)]
             decoder == [l \in 1 .. DecoderLayers |-> dec(l)]
             shared == Singles(<<Wemb("encoder"), Wemb("decoder"), LogitBias>>)
  <1>1. \A l : AllParts(enc(l)) /\ AllParts(dec(l))
    BY MetalBlockParts, JoinedParts
  <1>2. MetalParts = Join(Join(shared, FlattenSeq(encoder)), FlattenSeq(decoder))
    BY DEF MetalParts, Layers, Join
  <1> HIDE DEF enc, dec
  <1>3. /\ encoder = [l \in 1 .. EncoderLayers |-> encoder[l]]
        /\ decoder = [l \in 1 .. DecoderLayers |-> decoder[l]]
        /\ \A l \in 1 .. EncoderLayers : AllParts(encoder[l])
        /\ \A l \in 1 .. DecoderLayers : AllParts(decoder[l])
    BY <1>1
  <1> HIDE DEF encoder, decoder
  <1>4. QED
    BY <1>2, <1>3, SharedParts, ModelParts

LEMMA DenseFacts ==
    ASSUME NEW weight, NEW bias, IsSeq(bias)
    PROVE  IsSeq(Dense(weight, bias)) /\ Dense(weight, bias)[1] = weight
  <1> DEFINE own == <<weight, ScaleOf(weight)>>
  <1>1. IsSeq(own) /\ Len(own) = 2 /\ own[1] = weight
    BY PairIsSeq
  <1>2. Dense(weight, bias) = Join(own, bias)
    BY DEF Dense, Join
  <1> HIDE DEF own
  <1>3. IsSeq(Join(own, bias)) /\ \A k \in 1 .. Len(own) : Join(own, bias)[k] = own[k]
    BY <1>1, JoinFacts
  <1>4. 1 \in 1 .. Len(own)
    BY <1>1
  <1>5. Join(own, bias)[1] = own[1]
    BY <1>3, <1>4
  <1>6. QED
    BY <1>1, <1>2, <1>3, <1>5

LEMMA BiasIsSeq == IsSeq(<<>>) /\ \A b : IsSeq(<<b>>)
  BY EmptyFacts, SingletonFacts

LEMMA Q8BlockParts ==
    ASSUME NEW block, NEW l
    PROVE  /\ AllParts(Q8Attention(block, l))
           /\ AllParts(Q8Ffn(block, l))
           /\ AllParts(Q8Ssru(block, l))
  <1> DEFINE T(w) == <<block, l, w>>
             D(w, b) == Dense(T(w), <<T(b)>>)
  <1>1. /\ Q8Attention(block, l) =
               Join(<<D("Wq", "bq"), D("Wk", "bk"), D("Wv", "bv"), D("Wo", "bo")>>,
                    Singles(<<T("Wo_ln_scale"), T("Wo_ln_bias")>>))
        /\ Q8Ffn(block, l) =
               Join(<<D("W1", "b1"), D("W2", "b2")>>, Singles(<<T("ffn_ln_scale"), T("ffn_ln_bias")>>))
        /\ Q8Ssru(block, l) =
               Join(<<Dense(T("W"), <<>>), D("Wf", "bf")>>, Singles(<<T("ffn_ln_scale"), T("ffn_ln_bias")>>))
    BY DEF Q8Attention, Q8Ffn, Q8Ssru, Join
  <1>2. \A w, b : IsSeq(D(w, b))
    BY DenseFacts, BiasIsSeq
  <1>3. IsSeq(Dense(T("W"), <<>>))
    BY DenseFacts, BiasIsSeq
  <1> HIDE DEF T, D
  <1>4. \A w, b : AllParts(Singles(<<T(w), T(b)>>))
    BY PairIsSeq, SingleParts
  <1>5. AllParts(<<D("Wq", "bq"), D("Wk", "bk"), D("Wv", "bv"), D("Wo", "bo")>>)
    BY <1>2, FourParts
  <1>6. AllParts(<<D("W1", "b1"), D("W2", "b2")>>) /\ AllParts(<<Dense(T("W"), <<>>), D("Wf", "bf")>>)
    BY <1>2, <1>3, TwoParts
  <1>7. QED
    BY <1>1, <1>4, <1>5, <1>6, JoinedParts

LEMMA Q8PartsFacts == AllParts(Q8Parts)
  <1> DEFINE enc(l) == Join(Q8Attention("encoder_self", l), Q8Ffn("encoder_ffn", l))
             dec(l) == Join(Join(Q8Ssru("decoder_rnn", l), Q8Attention("decoder_context", l)),
                            Q8Ffn("decoder_ffn", l))
             encoder == [l \in 1 .. EncoderLayers |-> enc(l)]
             decoder == [l \in 1 .. DecoderLayers |-> dec(l)]
             shared == Singles(<<ScaleOf(Wemb("decoder")), LogitBias, Wemb("encoder"), Wemb("decoder")>>)
  <1>1. \A l : AllParts(enc(l)) /\ AllParts(dec(l))
    BY Q8BlockParts, JoinedParts
  <1>2. Q8Parts = Join(Join(shared, FlattenSeq(encoder)), FlattenSeq(decoder))
    BY DEF Q8Parts, Layers, Join
  <1>3. AllParts(shared)
    BY FourIsSeq, SingleParts
  <1> HIDE DEF enc, dec, shared
  <1>4. /\ encoder = [l \in 1 .. EncoderLayers |-> encoder[l]]
        /\ decoder = [l \in 1 .. DecoderLayers |-> decoder[l]]
        /\ \A l \in 1 .. EncoderLayers : AllParts(encoder[l])
        /\ \A l \in 1 .. DecoderLayers : AllParts(decoder[l])
    BY <1>1
  <1> HIDE DEF encoder, decoder
  <1>5. QED
    BY <1>2, <1>3, <1>4, ModelParts

-----------------------------------------------------------------------------
(* What a loader takes is what it asked for, if the tensors hold what they     *)
(* are named after.                                                           *)

Intact(model) == \A part \in Parts(model) : part.tensors = part.holds

HoldTheirNames(tensors) == \A t \in tensors : t.holds = t.name

LEMMA NoneIsIntact == Intact(Refused)
  BY EmptyFacts DEF Intact, Parts, Refused, ToSet

LEMMA TakenFacts ==
    ASSUME NEW tensors, HoldTheirNames(tensors), NEW part, IsSeq(part)
    PROVE  /\ IsSeq(Take(tensors, part))
           /\ \A k \in DOMAIN Take(tensors, part) :
                  Take(tensors, part)[k].tensors = Take(tensors, part)[k].holds
  <1> DEFINE Named(i) == {t \in tensors : t.name = part[i]}
             held == [i \in DOMAIN part |-> (CHOOSE t \in Named(i) : TRUE).holds]
             found == [tensors |-> part, holds |-> held]
             all == \A i \in DOMAIN part : Cardinality(Named(i)) = 1
  <1>1. Take(tensors, part) = IF all THEN <<found>> ELSE <<>>
    BY DEF Take
  <1>2. CASE ~all
    <2>1. Take(tensors, part) = <<>>
      BY <1>1, <1>2
    <2>2. QED
      BY <2>1, EmptyFacts
  <1>3. CASE all
    <2>1. ASSUME NEW i \in DOMAIN part PROVE held[i] = part[i]
      <3>1. Cardinality(Named(i)) = 1
        BY <1>3
      <3>2. Named(i) # {}
        <4>1. Cardinality({}) = 0
          BY Finite!FS_EmptySet DEF Finite!Cardinality, Cardinality
        <4>2. QED
          BY <3>1, <4>1
      <3>3. (CHOOSE t \in Named(i) : TRUE) \in Named(i)
        BY <3>2
      <3>4. QED
        BY <3>3 DEF HoldTheirNames
    <2> HIDE DEF held
    <2>2. part = [i \in DOMAIN part |-> part[i]]
      <3>1. part \in Seq(Elements(part))
        BY DEF IsSeq
      <3>2. QED
        BY <3>1
    <2>3. held = part
      <3>1. held = [i \in DOMAIN part |-> held[i]]
        BY DEF held
      <3>2. QED
        BY <2>1, <2>2, <3>1
    <2>4. Take(tensors, part) = <<found>> /\ found.tensors = found.holds
      BY <1>1, <1>3, <2>3
    <2> HIDE DEF found
    <2>5. IsSeq(<<found>>) /\ DOMAIN <<found>> = {1} /\ <<found>>[1] = found
      BY SingletonFacts
    <2>6. QED
      BY <2>4, <2>5
  <1>4. QED
    BY <1>2, <1>3

LEMMA AllTakenIsIntact ==
    ASSUME NEW tensors, HoldTheirNames(tensors), NEW parts, AllParts(parts)
    PROVE  Intact(FlattenSeq([i \in DOMAIN parts |-> Take(tensors, parts[i])]))
  <1> DEFINE f == [i \in DOMAIN parts |-> Take(tensors, parts[i])]
  <1>1. \A i \in DOMAIN parts :
            /\ IsSeq(f[i])
            /\ \A j \in DOMAIN f[i] : f[i][j].tensors = f[i][j].holds
    BY TakenFacts DEF AllParts
  <1>2. DOMAIN f = DOMAIN parts /\ f = [i \in DOMAIN parts |-> f[i]]
    OBVIOUS
  <1> HIDE DEF f
  <1>3. IsSeq(f)
    BY <1>2, SameDomainFacts DEF AllParts
  <1>4. \A k \in DOMAIN FlattenSeq(f) :
            \E i \in DOMAIN f : \E j \in DOMAIN f[i] : FlattenSeq(f)[k] = f[i][j]
    BY <1>1, <1>2, <1>3, FlattenFacts
  <1>5. \A k \in DOMAIN FlattenSeq(f) : FlattenSeq(f)[k].tensors = FlattenSeq(f)[k].holds
    BY <1>1, <1>2, <1>4
  <1>6. Intact(FlattenSeq(f))
    BY <1>5 DEF Intact, Parts, ToSet
  <1>7. QED
    BY <1>6 DEF f

LEMMA LoadedTensorsAreIntact ==
    ASSUME NEW tensors, HoldTheirNames(tensors), NEW parts, AllParts(parts), NEW file
    PROVE  Intact(LoadTensors(tensors, parts, file))
  <1> DEFINE model == FlattenSeq([i \in DOMAIN parts |-> Take(tensors, parts[i])])
  <1>1. Intact(model)
    BY AllTakenIsIntact
  <1>2. LoadTensors(tensors, parts, file) = model \/ LoadTensors(tensors, parts, file) = Refused
    BY DEF LoadTensors
  <1> HIDE DEF model
  <1>3. QED
    BY <1>1, <1>2, NoneIsIntact

LEMMA SafetensorsAreIntact ==
    ASSUME NEW file, HoldTheirNames(file.map)
    PROVE  Intact(LoadFp32(file)) /\ Intact(LoadMetal(file))
  <1>1. HoldTheirNames(TakeTensor(file.map)) /\ HoldTheirNames(RemoveTensor(file.map))
    BY DEF HoldTheirNames, TakeTensor, RemoveTensor
  <1>2. QED
    BY <1>1, LoadedTensorsAreIntact, Fp32PartsFacts, MetalPartsFacts DEF LoadFp32, LoadMetal

LEMMA BinariesAreIntact ==
    ASSUME NEW binary, HoldTheirNames(Tensors(binary))
    PROVE  Intact(LoadQ8(binary))
  <1> DEFINE tensors == TakeQ8(Tensors(binary))
             model == FlattenSeq([i \in DOMAIN Q8Parts |-> Take(tensors, Q8Parts[i])])
  <1>1. HoldTheirNames(tensors)
    BY DEF HoldTheirNames, TakeQ8
  <1> HIDE DEF tensors
  <1>2. Intact(model)
    BY <1>1, AllTakenIsIntact, Q8PartsFacts
  <1>3. LoadQ8(binary) = model \/ LoadQ8(binary) = Refused
    BY DEF LoadQ8, LoadOwned, tensors
  <1> HIDE DEF model
  <1>4. QED
    BY <1>2, <1>3, NoneIsIntact

-----------------------------------------------------------------------------
(* The bundle: entries are read in the order they are written in, and the name *)
(* of a linear tells which it is.                                             *)

BiasName(w) ==
    CASE w = "Wq" -> "bq" [] w = "Wk" -> "bk" [] w = "Wv" -> "bv" [] w = "Wo" -> "bo"
      [] w = "W1" -> "b1" [] w = "W2" -> "b2" [] w = "Wf" -> "bf" [] OTHER -> ""

\* The tensors of the linear of a weight.
LinearOf(weight) ==
    Dense(weight, IF weight[3] = "W" THEN <<>> ELSE <<<<weight[1], weight[2], BiasName(weight[3])>>>>)

Named(order) == order[1] = "linear" => order[2] = LinearOf(order[2][1])

AllNamed(orders) == IsSeq(orders) /\ \A k \in DOMAIN orders : Named(orders[k])

LEMMA JoinedOrders ==
    ASSUME NEW s, AllNamed(s), NEW t, AllNamed(t)
    PROVE  AllNamed(Join(s, t))
  <1>1. IsSeq(s) /\ IsSeq(t)
    BY DEF AllNamed
  <1>2. IsSeq(Join(s, t)) /\ From(Join(s, t), s, t)
    BY <1>1, JoinFacts
  <1>3. \A k \in DOMAIN Join(s, t) : Named(Join(s, t)[k])
    BY <1>2 DEF AllNamed, From
  <1>4. QED
    BY <1>2, <1>3 DEF AllNamed

LEMMA LayeredOrders ==
    ASSUME NEW n \in Nat, NEW f, f = [l \in 1 .. n |-> f[l]], \A l \in 1 .. n : AllNamed(f[l])
    PROVE  AllNamed(FlattenSeq(f))
  <1>1. IsSeq(f) /\ DOMAIN f = 1 .. n
    BY ListFacts
  <1>2. \A l \in DOMAIN f : IsSeq(f[l]) /\ \A j \in DOMAIN f[l] : Named(f[l][j])
    BY <1>1 DEF AllNamed
  <1>3. /\ IsSeq(FlattenSeq(f))
        /\ \A k \in DOMAIN FlattenSeq(f) :
               \E l \in DOMAIN f : \E j \in DOMAIN f[l] : FlattenSeq(f)[k] = f[l][j]
    BY <1>1, <1>2, FlattenFacts
  <1>4. QED
    BY <1>2, <1>3 DEF AllNamed

LEMMA FourNamed ==
    ASSUME NEW p, Named(p), NEW q, Named(q), NEW r, Named(r), NEW s, Named(s)
    PROVE  AllNamed(<<p, q, r, s>>)
  <1> DEFINE t == <<p, q, r, s>>
  <1>1. DOMAIN t = {1, 2, 3, 4} /\ t[1] = p /\ t[2] = q /\ t[3] = r /\ t[4] = s
    OBVIOUS
  <1>2. IsSeq(t)
    BY FourIsSeq
  <1> HIDE DEF t
  <1>3. AllNamed(t)
    BY <1>1, <1>2 DEF AllNamed
  <1>4. QED
    BY <1>3 DEF t

LEMMA SixNamed ==
    ASSUME NEW p, Named(p), NEW q, Named(q), NEW r, Named(r), NEW s, Named(s), NEW u, Named(u),
           NEW v, Named(v)
    PROVE  AllNamed(<<p, q, r, s, u, v>>)
  <1> DEFINE t == <<p, q, r, s, u, v>>
  <1>1. /\ DOMAIN t = {1, 2, 3, 4, 5, 6}
        /\ t[1] = p /\ t[2] = q /\ t[3] = r /\ t[4] = s /\ t[5] = u /\ t[6] = v
    OBVIOUS
  <1>2. t \in Seq({p, q, r, s, u, v})
    OBVIOUS
  <1> HIDE DEF t
  <1>3. IsSeq(t)
    BY <1>2, IsSeqOf
  <1>4. AllNamed(t)
    BY <1>1, <1>3 DEF AllNamed
  <1>5. QED
    BY <1>4 DEF t

LEMMA LinearsAreNamed ==
    ASSUME NEW block, NEW l
    PROVE  /\ \A w \in {"Wq", "Wk", "Wv", "Wo", "W1", "W2", "Wf"} :
                  Named(Linear(Dense(<<block, l, w>>, <<<<block, l, BiasName(w)>>>>)))
           /\ Named(Linear(Dense(<<block, l, "W">>, <<>>)))
           /\ \A w : Named(Matrix(block, l, w))
  <1>1. ASSUME NEW weight, NEW bias, IsSeq(bias), LinearOf(weight) = Dense(weight, bias)
        PROVE  Named(Linear(Dense(weight, bias)))
    <2>1. Dense(weight, bias)[1] = weight
      BY <1>1, DenseFacts
    <2> DEFINE dense == Dense(weight, bias)
    <2> HIDE DEF dense
    <2>2. Linear(dense)[2] = dense
      BY DEF Linear
    <2>3. QED
      BY <1>1, <2>1, <2>2 DEF Named, dense
  <1>2. ASSUME NEW w \in {"Wq", "Wk", "Wv", "Wo", "W1", "W2", "Wf"}
        PROVE  Named(Linear(Dense(<<block, l, w>>, <<<<block, l, BiasName(w)>>>>)))
    <2> DEFINE weight == <<block, l, w>>
    <2>1. weight[1] = block /\ weight[2] = l /\ weight[3] = w /\ w # "W"
      OBVIOUS
    <2> HIDE DEF weight
    <2>2. LinearOf(weight) = Dense(weight, <<<<block, l, BiasName(w)>>>>)
      BY <2>1 DEF LinearOf
    <2>3. IsSeq(<<<<block, l, BiasName(w)>>>>)
      BY BiasIsSeq
    <2>4. Named(Linear(Dense(weight, <<<<block, l, BiasName(w)>>>>)))
      BY <1>1, <2>2, <2>3
    <2>5. QED
      BY <2>4 DEF weight
  <1>3. Named(Linear(Dense(<<block, l, "W">>, <<>>)))
    <2> DEFINE weight == <<block, l, "W">>
    <2>1. weight[3] = "W"
      OBVIOUS
    <2> HIDE DEF weight
    <2>2. LinearOf(weight) = Dense(weight, <<>>)
      BY <2>1 DEF LinearOf
    <2>3. Named(Linear(Dense(weight, <<>>)))
      BY <1>1, <2>2, BiasIsSeq
    <2>4. QED
      BY <2>3 DEF weight
  <1>4. \A w : Named(Matrix(block, l, w))
    BY DEF Named, Matrix
  <1>5. QED
    BY <1>2, <1>3, <1>4

LEMMA WrittenBlocksAreNamed ==
    ASSUME NEW block, NEW l
    PROVE  /\ AllNamed(WriteAttention(block, l))
           /\ AllNamed(WriteFfn(block, l))
           /\ AllNamed(WriteSsru(block, l))
  <1> DEFINE T(w) == <<block, l, w>>
             L(w) == Linear(Dense(T(w), <<T(BiasName(w))>>))
             M(w) == Matrix(block, l, w)
             S == Linear(Dense(T("W"), <<>>))
  <1>1. /\ WriteAttention(block, l) =
               <<L("Wq"), L("Wk"), L("Wv"), L("Wo"), M("Wo_ln_scale"), M("Wo_ln_bias")>>
        /\ WriteFfn(block, l) = <<L("W1"), L("W2"), M("ffn_ln_scale"), M("ffn_ln_bias")>>
        /\ WriteSsru(block, l) = <<S, L("Wf"), M("ffn_ln_scale"), M("ffn_ln_bias")>>
    <2>1. /\ BiasName("Wq") = "bq" /\ BiasName("Wk") = "bk" /\ BiasName("Wv") = "bv"
          /\ BiasName("Wo") = "bo" /\ BiasName("W1") = "b1" /\ BiasName("W2") = "b2"
          /\ BiasName("Wf") = "bf"
      BY DEF BiasName
    <2>2. QED
      BY <2>1 DEF WriteAttention, WriteFfn, WriteSsru
  <1>2. \A w \in {"Wq", "Wk", "Wv", "Wo", "W1", "W2", "Wf"} : Named(L(w))
    BY LinearsAreNamed
  <1>3. Named(S) /\ \A w : Named(M(w))
    BY LinearsAreNamed
  <1> HIDE DEF T, L, M, S
  <1>4. AllNamed(<<L("Wq"), L("Wk"), L("Wv"), L("Wo"), M("Wo_ln_scale"), M("Wo_ln_bias")>>)
    BY <1>2, <1>3, SixNamed
  <1>5. AllNamed(<<L("W1"), L("W2"), M("ffn_ln_scale"), M("ffn_ln_bias")>>)
    BY <1>2, <1>3, FourNamed
  <1>6. AllNamed(<<S, L("Wf"), M("ffn_ln_scale"), M("ffn_ln_bias")>>)
    BY <1>2, <1>3, FourNamed
  <1>7. QED
    BY <1>1, <1>4, <1>5, <1>6

LEMMA WriteOrderIsNamed == AllNamed(WriteOrder)
  <1> DEFINE enc(l) == Join(WriteAttention("encoder_self", l), WriteFfn("encoder_ffn", l))
             dec(l) == Join(Join(WriteSsru("decoder_rnn", l), WriteAttention("decoder_context", l)),
                            WriteFfn("decoder_ffn", l))
             encoder == [l \in 1 .. EncoderLayers |-> enc(l)]
             decoder == [l \in 1 .. DecoderLayers |-> dec(l)]
             scale == <<"scale", <<ScaleOf(Wemb("decoder"))>>>>
             floats == <<"floats", <<LogitBias>>>>
             shared == <<Embedding("encoder"), Embedding("decoder"), scale, floats>>
  <1>1. \A l : AllNamed(enc(l)) /\ AllNamed(dec(l))
    BY WrittenBlocksAreNamed, JoinedOrders
  <1>2. WriteOrder = Join(Join(shared, FlattenSeq(encoder)), FlattenSeq(decoder))
    BY DEF WriteOrder, Layers, Join
  <1>3. Named(Embedding("encoder")) /\ Named(Embedding("decoder")) /\ Named(scale) /\ Named(floats)
    BY DEF Named, Embedding
  <1> HIDE DEF enc, dec, scale, floats
  <1>4. AllNamed(shared)
    BY <1>3, FourNamed
  <1>5. /\ encoder = [l \in 1 .. EncoderLayers |-> encoder[l]]
        /\ decoder = [l \in 1 .. DecoderLayers |-> decoder[l]]
        /\ \A l \in 1 .. EncoderLayers : AllNamed(encoder[l])
        /\ \A l \in 1 .. DecoderLayers : AllNamed(decoder[l])
        /\ EncoderLayers \in Nat /\ DecoderLayers \in Nat
    BY <1>1, LayersAssumption
  <1> HIDE DEF encoder, decoder, shared
  <1>6. AllNamed(FlattenSeq(encoder)) /\ AllNamed(FlattenSeq(decoder))
    BY <1>5, LayeredOrders
  <1>7. QED
    BY <1>2, <1>4, <1>6, JoinedOrders

LEMMA SameSeq ==
    ASSUME NEW s, IsSeq(s), NEW t, IsSeq(t), Len(s) = Len(t), \A k \in 1 .. Len(s) : s[k] = t[k]
    PROVE  s = t
  <1>1. s = [k \in 1 .. Len(s) |-> s[k]]
    <2>1. s \in Seq(Elements(s))
      BY DEF IsSeq
    <2>2. QED
      BY <2>1
  <1>2. t = [k \in 1 .. Len(t) |-> t[k]]
    <2>1. t \in Seq(Elements(t))
      BY DEF IsSeq
    <2>2. QED
      BY <2>1
  <1>3. QED
    BY <1>1, <1>2

\* A loop over linears and two matrices, written out.
LEMMA FourAndTwo ==
    ASSUME NEW f, f = [w \in 1 .. 4 |-> f[w]], NEW m, NEW n
    PROVE  Join(f, <<m, n>>) = <<f[1], f[2], f[3], f[4], m, n>>
  <1> DEFINE t == <<m, n>>
             u == <<f[1], f[2], f[3], f[4], m, n>>
  <1>1. IsSeq(f) /\ Len(f) = 4
    BY ListFacts
  <1>2. IsSeq(t) /\ Len(t) = 2 /\ t[1] = m /\ t[2] = n
    BY PairIsSeq
  <1>3. /\ Len(u) = 6 /\ u[1] = f[1] /\ u[2] = f[2] /\ u[3] = f[3] /\ u[4] = f[4]
        /\ u[5] = m /\ u[6] = n /\ u \in Seq({f[1], f[2], f[3], f[4], m, n})
    OBVIOUS
  <1> HIDE DEF t, u
  <1>4. IsSeq(u)
    BY <1>3, IsSeqOf
  <1>5. /\ IsSeq(Join(f, t)) /\ Len(Join(f, t)) = Len(f) + Len(t)
        /\ \A k \in 1 .. Len(f) : Join(f, t)[k] = f[k]
        /\ \A k \in Len(f) + 1 .. Len(f) + Len(t) : Join(f, t)[k] = t[k - Len(f)]
    BY <1>1, <1>2, JoinFacts
  <1>6. /\ Len(Join(f, t)) = 6
        /\ \A k \in 1 .. 4 : Join(f, t)[k] = f[k]
        /\ \A k \in 5 .. 6 : Join(f, t)[k] = t[k - 4]
    BY <1>1, <1>2, <1>5
  <1>7. \A k \in 1 .. 6 : Join(f, t)[k] = u[k]
    <2> TAKE k \in 1 .. 6
    <2>1. CASE k \in 1 .. 4
      <3>1. k = 1 \/ k = 2 \/ k = 3 \/ k = 4
        BY <2>1
      <3>2. Join(f, t)[k] = f[k]
        BY <1>6, <2>1
      <3>3. QED
        BY <1>3, <3>1, <3>2
    <2>2. CASE k \in 5 .. 6
      <3>1. (k = 5 /\ k - 4 = 1) \/ (k = 6 /\ k - 4 = 2)
        BY <2>2
      <3>2. Join(f, t)[k] = t[k - 4]
        BY <1>6, <2>2
      <3>3. QED
        BY <1>2, <1>3, <3>1, <3>2
    <2>3. QED
      BY <2>1, <2>2
  <1>8. Join(f, t) = u
    BY <1>3, <1>4, <1>5, <1>6, <1>7, SameSeq
  <1>9. QED
    BY <1>8 DEF t, u

LEMMA TwoAndTwo ==
    ASSUME NEW f, f = [w \in 1 .. 2 |-> f[w]], NEW m, NEW n
    PROVE  Join(f, <<m, n>>) = <<f[1], f[2], m, n>>
  <1> DEFINE t == <<m, n>>
             u == <<f[1], f[2], m, n>>
  <1>1. IsSeq(f) /\ Len(f) = 2
    BY ListFacts
  <1>2. IsSeq(t) /\ Len(t) = 2 /\ t[1] = m /\ t[2] = n
    BY PairIsSeq
  <1>3. Len(u) = 4 /\ u[1] = f[1] /\ u[2] = f[2] /\ u[3] = m /\ u[4] = n
    OBVIOUS
  <1>4. IsSeq(u)
    BY FourIsSeq
  <1> HIDE DEF t, u
  <1>5. /\ IsSeq(Join(f, t)) /\ Len(Join(f, t)) = Len(f) + Len(t)
        /\ \A k \in 1 .. Len(f) : Join(f, t)[k] = f[k]
        /\ \A k \in Len(f) + 1 .. Len(f) + Len(t) : Join(f, t)[k] = t[k - Len(f)]
    BY <1>1, <1>2, JoinFacts
  <1>6. /\ Len(Join(f, t)) = 4
        /\ \A k \in 1 .. 2 : Join(f, t)[k] = f[k]
        /\ \A k \in 3 .. 4 : Join(f, t)[k] = t[k - 2]
    BY <1>1, <1>2, <1>5
  <1>7. \A k \in 1 .. 4 : Join(f, t)[k] = u[k]
    <2> TAKE k \in 1 .. 4
    <2>1. CASE k \in 1 .. 2
      <3>1. k = 1 \/ k = 2
        BY <2>1
      <3>2. Join(f, t)[k] = f[k]
        BY <1>6, <2>1
      <3>3. QED
        BY <1>3, <3>1, <3>2
    <2>2. CASE k \in 3 .. 4
      <3>1. (k = 3 /\ k - 2 = 1) \/ (k = 4 /\ k - 2 = 2)
        BY <2>2
      <3>2. Join(f, t)[k] = t[k - 2]
        BY <1>6, <2>2
      <3>3. QED
        BY <1>2, <1>3, <3>1, <3>2
    <2>3. QED
      BY <2>1, <2>2
  <1>8. Join(f, t) = u
    BY <1>3, <1>4, <1>5, <1>6, <1>7, SameSeq
  <1>9. QED
    BY <1>8 DEF t, u

LEMMA BlocksAreReadAsWritten ==
    ASSUME NEW block, NEW l
    PROVE  /\ ReadAttention(block, l) = WriteAttention(block, l)
           /\ ReadFfn(block, l) = WriteFfn(block, l)
           /\ ReadSsru(block, l) = WriteSsru(block, l)
  <1> DEFINE L(w, b) == Linear(Dense(<<block, l, w>>, <<<<block, l, b>>>>))
             M(w) == Matrix(block, l, w)
             a == [w \in 1 .. 4 |-> L(<<"Wq", "Wk", "Wv", "Wo">>[w], <<"bq", "bk", "bv", "bo">>[w])]
             f == [w \in 1 .. 2 |-> L(<<"W1", "W2">>[w], <<"b1", "b2">>[w])]
  <1>1. /\ ReadAttention(block, l) = Join(a, <<M("Wo_ln_scale"), M("Wo_ln_bias")>>)
        /\ ReadFfn(block, l) = Join(f, <<M("ffn_ln_scale"), M("ffn_ln_bias")>>)
        /\ WriteAttention(block, l) =
               <<L("Wq", "bq"), L("Wk", "bk"), L("Wv", "bv"), L("Wo", "bo"),
                 M("Wo_ln_scale"), M("Wo_ln_bias")>>
        /\ WriteFfn(block, l) = <<L("W1", "b1"), L("W2", "b2"), M("ffn_ln_scale"), M("ffn_ln_bias")>>
    BY DEF ReadAttention, ReadFfn, WriteAttention, WriteFfn, Join
  <1> HIDE DEF L, M
  <1>2. /\ a = [w \in 1 .. 4 |-> a[w]]
        /\ a[1] = L("Wq", "bq") /\ a[2] = L("Wk", "bk") /\ a[3] = L("Wv", "bv") /\ a[4] = L("Wo", "bo")
    OBVIOUS
  <1>3. /\ f = [w \in 1 .. 2 |-> f[w]]
        /\ f[1] = L("W1", "b1") /\ f[2] = L("W2", "b2")
    OBVIOUS
  <1> HIDE DEF a, f
  <1>4. /\ ReadAttention(block, l) = <<a[1], a[2], a[3], a[4], M("Wo_ln_scale"), M("Wo_ln_bias")>>
        /\ ReadFfn(block, l) = <<f[1], f[2], M("ffn_ln_scale"), M("ffn_ln_bias")>>
    BY <1>1, <1>2, <1>3, FourAndTwo, TwoAndTwo
  <1>5. ReadSsru(block, l) = WriteSsru(block, l)
    BY DEF ReadSsru, WriteSsru
  <1>6. QED
    BY <1>1, <1>2, <1>3, <1>4, <1>5

\* The Worker reads the entries of a bundle in the order the converter writes them.
THEOREM BundlesAreReadAsWritten == ReadOrder = WriteOrder
  <1> DEFINE readEncoder(l) == ReadAttention("encoder_self", l) \o ReadFfn("encoder_ffn", l)
             readDecoder(l) == ReadSsru("decoder_rnn", l) \o ReadAttention("decoder_context", l) \o
                               ReadFfn("decoder_ffn", l)
             encoder(l) == WriteAttention("encoder_self", l) \o WriteFfn("encoder_ffn", l)
             decoder(l) == WriteSsru("decoder_rnn", l) \o WriteAttention("decoder_context", l) \o
                           WriteFfn("decoder_ffn", l)
             shared == <<Embedding("encoder"), Embedding("decoder"),
                         <<"scale", <<ScaleOf(Wemb("decoder"))>>>>, <<"floats", <<LogitBias>>>>>>
             order(enc, dec) == shared \o FlattenSeq(enc) \o FlattenSeq(dec)
  <1>1. \A l : readEncoder(l) = encoder(l) /\ readDecoder(l) = decoder(l)
    BY BlocksAreReadAsWritten
  <1>2. /\ ReadOrder = order([l \in 1 .. EncoderLayers |-> readEncoder(l)],
                             [l \in 1 .. DecoderLayers |-> readDecoder(l)])
        /\ WriteOrder = order([l \in 1 .. EncoderLayers |-> encoder(l)],
                              [l \in 1 .. DecoderLayers |-> decoder(l)])
    BY DEF ReadOrder, WriteOrder, Layers
  <1> HIDE DEF readEncoder, readDecoder, encoder, decoder, order
  <1>3. /\ [l \in 1 .. EncoderLayers |-> readEncoder(l)] = [l \in 1 .. EncoderLayers |-> encoder(l)]
        /\ [l \in 1 .. DecoderLayers |-> readDecoder(l)] = [l \in 1 .. DecoderLayers |-> decoder(l)]
    BY <1>1
  <1>4. QED
    BY <1>2, <1>3

\* What Bundles is assumed to be, of one of them.
AsWritten(metadata) ==
    \A i \in 1 .. Len(metadata) :
        IF metadata[i].kind = "linear"
        THEN \E j \in DOMAIN WriteOrder :
                 /\ WriteOrder[j][1] = "linear"
                 /\ WriteOrder[j][2][1] = metadata[i].label
                 /\ WriteOrder[j][2] = metadata[i].holds
        ELSE i \in DOMAIN WriteOrder /\ WriteOrder[i][1] = metadata[i].kind =>
                 WriteOrder[i][2] = metadata[i].holds

LEMMA BundlesAreIntact ==
    ASSUME NEW bundle, AsWritten(bundle.metadata), NEW kernel
    PROVE  Intact(LoadPacked(bundle, kernel))
  <1> DEFINE orders == WriteOrder
             metadata == bundle.metadata
             model == [i \in DOMAIN orders |-> [tensors |-> orders[i][2], holds |-> metadata[i].holds]]
             accepted == Len(metadata) = Len(orders) /\ \A i \in DOMAIN orders : ReadsAs(metadata[i], orders[i])
  <1>1. LoadPacked(bundle, kernel) = Refused \/ (accepted /\ LoadPacked(bundle, kernel) = model)
    BY BundlesAreReadAsWritten DEF LoadPacked
  <1>2. IsSeq(orders) /\ \A i \in DOMAIN orders : Named(orders[i])
    BY WriteOrderIsNamed DEF AllNamed
  <1>3. ASSUME accepted, NEW i \in DOMAIN orders
        PROVE  orders[i][2] = metadata[i].holds
    <2>1. i \in 1 .. Len(metadata) /\ i \in DOMAIN WriteOrder
      BY <1>2, <1>3, SeqFacts
    <2>2. metadata[i].kind = orders[i][1] /\ (metadata[i].kind = "linear" => metadata[i].label = orders[i][2][1])
      BY <1>3 DEF ReadsAs
    <2>3. CASE metadata[i].kind # "linear"
      BY <2>1, <2>2, <2>3 DEF AsWritten
    <2>4. CASE metadata[i].kind = "linear"
      <3>1. PICK j \in DOMAIN orders :
                /\ orders[j][1] = "linear"
                /\ orders[j][2][1] = metadata[i].label
                /\ orders[j][2] = metadata[i].holds
        BY <2>1, <2>4 DEF AsWritten
      <3>2. orders[i][2] = LinearOf(orders[i][2][1]) /\ orders[j][2] = LinearOf(orders[j][2][1])
        BY <1>2, <2>2, <2>4, <3>1 DEF Named
      <3>3. QED
        BY <2>2, <2>4, <3>1, <3>2
    <2>5. QED
      BY <2>3, <2>4
  <1>4. accepted => Intact(model)
    BY <1>3 DEF Intact, Parts, ToSet
  <1> HIDE DEF model, accepted
  <1>5. QED
    BY <1>1, <1>4, NoneIsIntact

-----------------------------------------------------------------------------
(* Whole models in every executor, and in the one that forks are made of.      *)

Places == {"current", "next"}

ReleasesFound ==
    /\ host = "worker" => release["bucket"] \in Bundles
    /\ host # "worker" =>
           /\ \A place \in Places : release[place] \in Releases \cup NextReleases
           /\ link \in Places
    /\ host = "pool" /\ startup # "new" => dir \in Places

WholeModels ==
    /\ \A w \in DOMAIN executors : Whole(executors[w].model)
    /\ template # <<>> => Whole(template[1].model)

LEMMA LoadedAreWhole ==
    ASSUME ReleasesFound, NEW place \in Places, host # "worker"
    PROVE  /\ LoadedFp32(release[place]) # Refused => Whole(LoadedFp32(release[place]))
           /\ LoadedQ8(release[place]) # Refused => Whole(LoadedQ8(release[place]))
           /\ LoadedMetal(release[place]) # Refused => Whole(LoadedMetal(release[place]))
  <1> DEFINE r == release[place]
  <1>1. r \in Releases \cup NextReleases
    BY DEF ReleasesFound
  <1> HIDE DEF r
  <1>2. /\ r.precision = "fp32" => HoldTheirNames(r.weights.map)
        /\ r.precision = "q8" => HoldTheirNames(Tensors(r.weights))
    BY <1>1, FilesAssumption DEF HoldTheirNames
  <1>3. /\ Intact(LoadedFp32(r)) /\ Intact(LoadedMetal(r))
    <2>1. CASE r.precision = "fp32"
      <3>1. Intact(LoadFp32(r.weights)) /\ Intact(LoadMetal(r.weights))
        BY <1>2, <2>1, SafetensorsAreIntact
      <3>2. QED
        BY <3>1, NoneIsIntact DEF LoadedFp32, LoadedMetal
    <2>2. CASE r.precision # "fp32"
      BY <2>2, NoneIsIntact DEF LoadedFp32, LoadedMetal, Verified
    <2>3. QED
      BY <2>1, <2>2
  <1>4. Intact(LoadedQ8(r))
    <2>1. CASE r.precision = "q8"
      <3>1. Intact(LoadQ8(r.weights))
        BY <1>2, <2>1, BinariesAreIntact
      <3>2. QED
        BY <3>1, NoneIsIntact DEF LoadedQ8
    <2>2. CASE r.precision # "q8"
      BY <2>2, NoneIsIntact DEF LoadedQ8, Verified
    <2>3. QED
      BY <2>1, <2>2
  <1>5. QED
    BY <1>3, <1>4 DEF Whole, Intact, r

LEMMA PackedIsWhole ==
    ASSUME ReleasesFound, host = "worker"
    PROVE  LET model == LoadPacked(release["bucket"].weights, "wasm-u8i8i32")
           IN  model # Refused => Whole(model)
  <1> DEFINE b == release["bucket"]
  <1>1. b \in Bundles
    BY DEF ReleasesFound
  <1> HIDE DEF b
  <1>2. AsWritten(b.weights.metadata)
    BY <1>1, FilesAssumption DEF AsWritten
  <1>3. Intact(LoadPacked(b.weights, "wasm-u8i8i32"))
    BY <1>2, BundlesAreIntact
  <1>4. QED
    BY <1>3 DEF Whole, Intact, b

LEMMA StayKeepsWhole ==
    ASSUME WholeModels, ExecutorsStay, template' = template
    PROVE  WholeModels'
  BY DEF WholeModels, ExecutorsStay, Same

LEMMA NoneKeepsWhole ==
    ASSUME executors' = <<>>, template' = <<>>
    PROVE  WholeModels'
  BY EmptyFacts DEF WholeModels

LEMMA OneKeepsWhole ==
    ASSUME NEW e, Whole(e.model), executors' = <<e>>, template' = <<>> \/ (WholeModels /\ template' = template)
    PROVE  WholeModels'
  <1>1. DOMAIN executors' = {1} /\ executors'[1] = e
    BY SingletonFacts
  <1>2. QED
    BY <1>1 DEF WholeModels

LEMMA WorkerKeepsWhole ==
    ASSUME WholeModels, ExecutorsTyped, NEW e, Whole(e.model), executors' = Append(executors, e),
           template' = template \/ template' = <<e>>
    PROVE  WholeModels'
  <1>1. IsSeq(executors)
    BY DEF ExecutorsTyped
  <1>2. /\ DOMAIN executors' = DOMAIN executors \cup {Len(executors) + 1}
        /\ \A w \in DOMAIN executors : executors'[w] = executors[w]
        /\ executors'[Len(executors) + 1] = e
    BY <1>1, AppendFacts
  <1>3. template' = <<e>> => template'[1] = e
    BY SingletonFacts
  <1>4. QED
    BY <1>2, <1>3 DEF WholeModels

LEMMA CreateKeepsWhole ==
    ASSUME PoolsInv, ReleasesFound, WholeModels, CreateFp32 \/ CreateQ8 \/ ForkQ8
    PROVE  WholeModels'
  <1>0. ExecutorsTyped /\ TemplateTyped
    BY DEF PoolsInv
  <1>1. host = "pool" /\ startup = "starting" /\ dir \in Places
    BY DEF CreateFp32, CreateQ8, ForkQ8, ReleasesFound
  <1>2. CASE executors' = <<>> /\ template' = <<>>
    BY <1>2, NoneKeepsWhole
  <1>3. CASE CreateFp32 /\ ~ StartFails
    <2> DEFINE e == Executor("fp32", dir, LoadedFp32(release[dir]))
    <2>1. e.model # Refused /\ AddWorker(e) /\ template' = template
      BY <1>3 DEF CreateFp32
    <2>2. e.model = LoadedFp32(release[dir])
      BY ExecutorFacts
    <2>3. Whole(e.model)
      BY <1>1, <2>1, <2>2, LoadedAreWhole
    <2> HIDE DEF e
    <2>4. QED
      BY <1>0, <2>1, <2>3, WorkerKeepsWhole DEF AddWorker
  <1>4. CASE CreateQ8 /\ ~ StartFails
    <2> DEFINE e == Executor("q8", dir, LoadedQ8(release[dir]))
    <2>1. e.model # Refused /\ AddWorker(e) /\ template' = <<e>>
      BY <1>4 DEF CreateQ8, Template
    <2>2. e.model = LoadedQ8(release[dir])
      BY ExecutorFacts
    <2>3. Whole(e.model)
      BY <1>1, <2>1, <2>2, LoadedAreWhole
    <2> HIDE DEF e
    <2>4. QED
      BY <1>0, <2>1, <2>3, WorkerKeepsWhole DEF AddWorker
  <1>5. CASE ForkQ8
    <2> DEFINE e == [template[1] EXCEPT !.pooled = 0]
    <2>1. template # <<>> /\ template' = template /\ AddWorker(e)
      BY <1>5 DEF ForkQ8
    <2>2. IsExecutor(template[1])
      BY <1>0, <2>1 DEF TemplateTyped
    <2>3. e.model = template[1].model
      BY <2>2, PoolAside DEF Same
    <2>4. Whole(e.model)
      BY <2>1, <2>3 DEF WholeModels
    <2> HIDE DEF e
    <2>5. QED
      BY <1>0, <2>1, <2>4, WorkerKeepsWhole DEF AddWorker
  <1>6. QED
    BY <1>2, <1>3, <1>4, <1>5 DEF StartFails

LEMMA FirstKeepsWhole ==
    ASSUME ReleasesFound, PoolsInv, WholeModels,
           LoadMetalBackend \/ \E k \in DOMAIN starts : InitPackedParts(k)
    PROVE  WholeModels'
  <1>1. CASE LoadMetalBackend
    <2> DEFINE e == Executor("metal", link, LoadedMetal(release[link]))
    <2>1. /\ host = "metal"
          /\ \/ executors' = <<e>> /\ e.model # Refused /\ template' = template
             \/ executors' = <<>> /\ template' = <<>>
      BY <1>1 DEF LoadMetalBackend, StartFails
    <2>2. e.model = LoadedMetal(release[link]) /\ link \in Places
      BY <2>1, ExecutorFacts DEF ReleasesFound
    <2>3. e.model # Refused => Whole(e.model)
      BY <2>1, <2>2, LoadedAreWhole
    <2> HIDE DEF e
    <2>4. QED
      BY <2>1, <2>3, NoneKeepsWhole, OneKeepsWhole
  <1>2. CASE \E k \in DOMAIN starts : InitPackedParts(k)
    <2> DEFINE model == LoadPacked(release["bucket"].weights, "wasm-u8i8i32")
               e == Executor("q8", "bucket", model)
    <2>1. /\ host = "worker" /\ template' = template
          /\ \/ executors' = <<e>> /\ model # Refused
             \/ executors' = executors
      BY <1>2 DEF InitPackedParts, Idle, server, Reject
    <2>2. e.model = model
      BY ExecutorFacts
    <2>3. model # Refused => Whole(model)
      BY <2>1, PackedIsWhole
    <2> HIDE DEF e, model
    <2>4. CASE executors' = <<e>> /\ model # Refused
      BY <2>1, <2>2, <2>3, <2>4, OneKeepsWhole
    <2>5. CASE executors' = executors
      BY <2>1, <2>5 DEF WholeModels
    <2>6. QED
      BY <2>1, <2>4, <2>5
  <1>3. QED
    BY <1>1, <1>2

LEMMA FoundInit == Init => ReleasesFound /\ WholeModels
  <1> SUFFICES ASSUME Init PROVE ReleasesFound /\ WholeModels
    OBVIOUS
  <1>1. /\ host \in {"pool", "metal", "worker"} /\ link = "current" /\ startup = "new"
        /\ executors = <<>> /\ template = <<>>
    BY DEF Init
  <1>2. CASE host = "worker"
    <2>1. PICK b \in Bundles : release = [place \in {"bucket"} |-> b]
      BY <1>2 DEF Init
    <2>2. release["bucket"] = b
      BY <2>1
    <2>3. QED
      BY <1>1, <1>2, <2>2, EmptyFacts DEF ReleasesFound, WholeModels
  <1>3. CASE host # "worker"
    <2>1. PICK r \in Releases, n \in NextReleases :
              release = [place \in {"current", "next"} |-> IF place = "current" THEN r ELSE n]
      BY <1>3 DEF Init
    <2>2. release["current"] = r /\ release["next"] = n
      BY <2>1
    <2>3. QED
      BY <1>1, <1>3, <2>2, EmptyFacts DEF ReleasesFound, WholeModels, Places
  <1>4. QED
    BY <1>2, <1>3

LEMMA FoundNext ==
    ASSUME ReleasesFound, [Next]_vars
    PROVE  ReleasesFound'
  <1>1. CASE UNCHANGED <<host, release, link, startup, dir>>
    BY <1>1 DEF ReleasesFound
  <1>2. CASE MoveLink
    BY <1>2 DEF MoveLink, ReleasesFound, Places
  <1>3. CASE NewFactory
    BY <1>3 DEF NewFactory, ReleasesFound, Places
  <1>4. CASE CreateFp32 \/ CreateQ8 \/ ForkQ8
    <2>1. UNCHANGED <<host, release, link, dir>> /\ startup = "starting"
      BY <1>4 DEF CreateFp32, CreateQ8, ForkQ8
    <2>2. QED
      BY <2>1 DEF ReleasesFound
  <1>5. CASE LoadMetalBackend
    <2>1. UNCHANGED <<host, release, link>> /\ host = "metal"
      BY <1>5 DEF LoadMetalBackend
    <2>2. QED
      BY <2>1 DEF ReleasesFound
  <1>6. CASE Serve \/ Run \/ Rest \/ \E h \in Handlers : Arrive(h) \/ Resume(h)
    BY <1>1, <1>6 DEF Serve, Run, Rest, Arrive, Resume, server, vars
  <1>7. CASE \E k \in DOMAIN starts : ReadRange(k) \/ InitPackedParts(k)
    BY <1>1, <1>7 DEF ReadRange, InitPackedParts, server
  <1>8. CASE UNCHANGED vars
    BY <1>1, <1>8 DEF vars, server
  <1>9. QED
    BY <1>2, <1>3, <1>4, <1>5, <1>6, <1>7, <1>8 DEF Next

LEMMA WholeNext ==
    ASSUME IsolateInv, PoolsInv, ReleasesFound, WholeModels, [Next]_vars
    PROVE  WholeModels'
  <1>1. CASE UNCHANGED vars
    BY <1>1 DEF vars, engine, server, WholeModels
  <1>2. CASE MakesNone
    <2>1. ExecutorsStay /\ template' = template
      BY <1>2, NoneMadeStay DEF PoolsInv, IsolateInv
    <2>2. QED
      BY <2>1, StayKeepsWhole
  <1>3. QED
    BY <1>1, <1>2, CreateKeepsWhole, FirstKeepsWhole DEF Next, MakesNone

\* Whatever a release or a bundle lacks, repeats, mistypes, damages or swaps, for
\* any number of layers, workers and starts: the model of an executor that serves
\* has each part from the tensors of its own names, a fork's too.
THEOREM OnlyWholeModels == Spec => []OnlyWholeModelsServe
  <1>1. Init => ReleasesFound /\ WholeModels
    BY FoundInit
  <1>2. (IsolateInv /\ PoolsInv) /\ (ReleasesFound /\ WholeModels) /\ [Next]_vars
            => (ReleasesFound /\ WholeModels)'
    BY FoundNext, WholeNext
  <1>3. WholeModels => OnlyWholeModelsServe
    BY DEF WholeModels, OnlyWholeModelsServe
  <1>4. QED
    BY HostsInvariant, <1>1, <1>2, <1>3, PTL DEF Spec

-----------------------------------------------------------------------------
(* Plans, as what they do to what is known of the buffers: known is           *)
(* [held, passed], names that have what their rank says, and how many layers   *)
(* have moved their state in this step.                                        *)

Known(held, passed) == [held |-> held, passed |-> passed]

\* Of a decoder step: 0 for the cross caches; a result of rank 1 has at least the
\* newest token of its row, of rank 2 every token, of rank 3 the source as well.
Rank(v) ==
    IF v[1] \in {"cross key", "cross value"} THEN 0
    ELSE IF v = Decoded(0) \/ v[1] \in {"update", "forget"} THEN 1
    ELSE IF v[1] \in {"recurrent", "query"} THEN 2 ELSE 3

ReadsFrom(op, held, n) == \A i \in 1 .. n : op.reads[i] \in held

FitsEncode(op, s, t) ==
    /\ t.passed = s.passed
    /\ \/ op.does = "embedding"
       \/ op.does = "linear" /\ ReadsFrom(op, s.held, 1)
       \/ op.does = "residual" /\ ReadsFrom(op, s.held, 2)
       \/ op.does = "attend" /\ ReadsFrom(op, s.held, 3)

RankOf(op, i) == Rank(op.reads[i])

FitsDecode(op, s, t) ==
    \/ /\ t.passed = s.passed
       /\ \/ op.does = "input" /\ Rank(op.makes) = 1
          \/ /\ op.does = "linear"
             /\ ReadsFrom(op, s.held, 1)
             /\ Rank(op.makes) \in 1 .. RankOf(op, 1)
          \/ /\ op.does = "residual"
             /\ ReadsFrom(op, s.held, 2)
             /\ Rank(op.makes) = 3 /\ RankOf(op, 1) = 3 /\ RankOf(op, 2) \in 1 .. 3
          \/ /\ op.does = "attend"
             /\ ReadsFrom(op, s.held, 3)
             /\ Rank(op.makes) = 3 /\ RankOf(op, 1) \in 2 .. 3
             /\ RankOf(op, 2) = 0 /\ RankOf(op, 3) = 0
    \/ /\ op.does = "ssru"
       /\ t.passed = s.passed + 1
       /\ op.makes[2] = t.passed /\ t.passed \in 1 .. DecoderLayers
       /\ ReadsFrom(op, s.held, 3)
       /\ Rank(op.makes) = 2
       /\ \A i \in 1 .. 3 : RankOf(op, i) \in 1 .. 3

HasRoom(held) == Finite!IsFiniteSet(held) /\ Finite!Cardinality(held) + 1 <= MostBuffers

Keeps(q8, op, s, t) ==
    /\ t.held \subseteq (s.held \ op.frees) \cup {op.makes}
    /\ q8 => /\ t.held = (s.held \ op.frees) \cup {op.makes}
             /\ op.frees \subseteq s.held
             /\ HasRoom(s.held)

Fits(q8, decoding, op, s, t) ==
    /\ IF decoding THEN FitsDecode(op, s, t) ELSE FitsEncode(op, s, t)
    /\ Keeps(q8, op, s, t)

Traces(q8, decoding, ops, K) ==
    \A i \in 1 .. Len(ops) : Fits(q8, decoding, ops[i], K[i], K[i + 1])

Runs(q8, decoding, ops, s, t) ==
    /\ IsSeq(ops)
    /\ \E K : K[1] = s /\ K[Len(ops) + 1] = t /\ Traces(q8, decoding, ops, K)

LEMMA RunsOne ==
    ASSUME NEW q8, NEW decoding, NEW a, NEW s, NEW t, Fits(q8, decoding, a, s, t)
    PROVE  Runs(q8, decoding, <<a>>, s, t)
  <1> DEFINE K == <<s, t>>
  <1>1. IsSeq(<<a>>) /\ Len(<<a>>) = 1 /\ <<a>>[1] = a
    BY SingletonFacts
  <1>2. K[1] = s /\ K[2] = t
    OBVIOUS
  <1> HIDE DEF K
  <1>3. Traces(q8, decoding, <<a>>, K) /\ K[Len(<<a>>) + 1] = t
    BY <1>1, <1>2 DEF Traces
  <1>4. QED
    BY <1>1, <1>2, <1>3 DEF Runs

LEMMA RunsNone ==
    ASSUME NEW q8, NEW decoding, NEW s, NEW t
    PROVE  Runs(q8, decoding, <<>>, s, t) <=> s = t
  <1> DEFINE K == [i \in {1} |-> s]
  <1>1. IsSeq(<<>>) /\ Len(<<>>) = 0 /\ Len(<<>>) + 1 = 1
    BY EmptyFacts
  <1>2. K[1] = s
    OBVIOUS
  <1> HIDE DEF K
  <1>3. \A J : Traces(q8, decoding, <<>>, J)
    BY <1>1 DEF Traces
  <1>4. QED
    BY <1>1, <1>2, <1>3 DEF Runs

LEMMA RunsHead ==
    ASSUME NEW q8, NEW decoding, NEW ops, NEW s, NEW t, Runs(q8, decoding, ops, s, t), ops # <<>>
    PROVE  \E m : Fits(q8, decoding, Head(ops), s, m) /\ Runs(q8, decoding, Tail(ops), m, t)
  <1>1. PICK K : K[1] = s /\ K[Len(ops) + 1] = t /\ Traces(q8, decoding, ops, K)
    BY DEF Runs
  <1> DEFINE S == Elements(ops)
             n == Len(ops)
             J == [i \in 1 .. n |-> K[i + 1]]
  <1>2. ops \in Seq(S)
    BY DEF Runs, IsSeq
  <1> HIDE DEF S
  <1>3. /\ n \in Nat \ {0}
        /\ Head(ops) = ops[1]
        /\ Tail(ops) \in Seq(S) /\ Len(Tail(ops)) = n - 1
        /\ \A i \in 1 .. n - 1 : Tail(ops)[i] = ops[i + 1]
    BY <1>2
  <1>4. IsSeq(Tail(ops))
    BY <1>3, IsSeqOf
  <1>5. Fits(q8, decoding, ops[1], s, K[2])
    BY <1>1, <1>3 DEF Traces
  <1>6. J[1] = K[2] /\ J[n] = t
    BY <1>1, <1>3
  <1>7. Traces(q8, decoding, Tail(ops), J)
    <2>1. ASSUME NEW i \in 1 .. n - 1
          PROVE  Fits(q8, decoding, Tail(ops)[i], J[i], J[i + 1])
      <3>1. i + 1 \in 1 .. n /\ J[i] = K[i + 1] /\ J[i + 1] = K[(i + 1) + 1]
        BY <1>3
      <3>2. Fits(q8, decoding, ops[i + 1], K[i + 1], K[(i + 1) + 1])
        BY <3>1, <1>1 DEF Traces
      <3> HIDE DEF J
      <3>3. QED
        BY <3>1, <3>2, <1>3
    <2> HIDE DEF J
    <2>2. QED
      BY <2>1, <1>3 DEF Traces
  <1> HIDE DEF J
  <1>8. Runs(q8, decoding, Tail(ops), K[2], t)
    <2>1. Len(Tail(ops)) + 1 = n
      BY <1>3
    <2>2. QED
      BY <1>4, <1>6, <1>7, <2>1 DEF Runs
  <1>9. QED
    BY <1>3, <1>5, <1>8

LEMMA RunsJoin ==
    ASSUME NEW q8, NEW decoding, NEW a, NEW b, NEW s, NEW m, NEW t,
           Runs(q8, decoding, a, s, m), Runs(q8, decoding, b, m, t)
    PROVE  Runs(q8, decoding, Join(a, b), s, t)
  <1> DEFINE n == Len(a)
             k == Len(b)
             c == Join(a, b)
  <1>1. IsSeq(a) /\ IsSeq(b) /\ n \in Nat /\ k \in Nat
    BY SeqFacts DEF Runs
  <1>2. PICK K : K[1] = s /\ K[n + 1] = m /\ Traces(q8, decoding, a, K)
    BY DEF Runs
  <1>3. PICK J : J[1] = m /\ J[k + 1] = t /\ Traces(q8, decoding, b, J)
    BY DEF Runs
  <1>4. /\ IsSeq(c) /\ Len(c) = n + k
        /\ \A i \in 1 .. n : c[i] = a[i]
        /\ \A i \in n + 1 .. n + k : c[i] = b[i - n]
    BY <1>1, JoinFacts
  <1> DEFINE L == [i \in 1 .. n + k + 1 |-> IF i <= n THEN K[i] ELSE J[i - n]]
  <1>5. /\ L[1] = s /\ L[n + k + 1] = t
        /\ \A i \in 1 .. n : L[i] = K[i] /\ L[i + 1] = K[i + 1]
        /\ \A i \in n + 1 .. n + k : L[i] = J[i - n] /\ L[i + 1] = J[(i - n) + 1]
    <2>1. \A i \in 1 .. n : L[i] = K[i]
      BY <1>1
    <2>2. \A i \in n + 1 .. n + k + 1 : L[i] = J[i - n]
      BY <1>1
    <2> HIDE DEF L
    <2>3. L[n + 1] = K[n + 1]
      <3>1. n + 1 \in n + 1 .. n + k + 1 /\ (n + 1) - n = 1
        BY <1>1
      <3>2. QED
        BY <3>1, <2>2, <1>2, <1>3
    <2>4. \A i \in 1 .. n : L[i + 1] = K[i + 1]
      <3>1. \A i \in 1 .. n : i = n \/ i + 1 \in 1 .. n
        BY <1>1
      <3>2. QED
        BY <3>1, <2>1, <2>3
    <2>5. L[1] = s
      <3>1. 1 \in 1 .. n \/ n = 0
        BY <1>1
      <3>2. QED
        BY <3>1, <2>1, <2>3, <1>2
    <2>6. L[n + k + 1] = t
      <3>1. n + k + 1 \in n + 1 .. n + k + 1 /\ (n + k + 1) - n = k + 1
        BY <1>1
      <3>2. QED
        BY <3>1, <2>2, <1>3
    <2>7. \A i \in n + 1 .. n + k : L[i] = J[i - n] /\ L[i + 1] = J[(i - n) + 1]
      <3>1. \A i \in n + 1 .. n + k :
                i \in n + 1 .. n + k + 1 /\ i + 1 \in n + 1 .. n + k + 1 /\ (i + 1) - n = (i - n) + 1
        BY <1>1
      <3>2. QED
        BY <3>1, <2>2
    <2>8. QED
      BY <2>1, <2>4, <2>5, <2>6, <2>7
  <1> HIDE DEF L, c
  <1>6. Traces(q8, decoding, c, L)
    <2>1. ASSUME NEW i \in 1 .. n + k
          PROVE  Fits(q8, decoding, c[i], L[i], L[i + 1])
      <3>1. CASE i \in 1 .. n
        BY <3>1, <1>2, <1>4, <1>5 DEF Traces
      <3>2. CASE i \in n + 1 .. n + k
        <4>1. i - n \in 1 .. k
          BY <3>2, <1>1
        <4>2. Fits(q8, decoding, b[i - n], J[i - n], J[(i - n) + 1])
          BY <4>1, <1>3 DEF Traces
        <4>3. QED
          BY <3>2, <4>2, <1>4, <1>5
      <3>3. QED
        BY <3>1, <3>2, <1>1
    <2>2. QED
      BY <2>1, <1>4 DEF Traces
  <1>7. L[Len(c) + 1] = t
    BY <1>4, <1>5
  <1>8. QED
    BY <1>4, <1>5, <1>6, <1>7 DEF Runs, c

LEMMA RunsTwo ==
    ASSUME NEW q8, NEW decoding, NEW a, NEW b,
           NEW s, NEW m1, NEW t,
           Fits(q8, decoding, a, s, m1),
           Fits(q8, decoding, b, m1, t)
    PROVE  Runs(q8, decoding, <<a, b>>, s, t)
  <1> DEFINE K == <<s, m1, t>>
             p == <<a, b>>
  <1>1. p \in Seq({a, b}) /\ Len(p) = 2
    OBVIOUS
  <1>2. K[1] = s /\ K[2] = m1 /\ K[3] = t
    OBVIOUS
  <1>3. p[1] = a /\ p[2] = b
    OBVIOUS
  <1> HIDE DEF K, p
  <1>4. \A i \in 1 .. 2 : Fits(q8, decoding, p[i], K[i], K[i + 1])
    <2>1. Fits(q8, decoding, p[1], K[1], K[1 + 1])
      BY <1>2, <1>3
    <2>2. Fits(q8, decoding, p[2], K[2], K[2 + 1])
      BY <1>2, <1>3
    <2>3. \A i \in 1 .. 2 : i = 1 \/ i = 2
      OBVIOUS
    <2>4. QED
      BY <2>1, <2>2, <2>3
  <1>5. Traces(q8, decoding, p, K) /\ K[Len(p) + 1] = t
    BY <1>1, <1>2, <1>4 DEF Traces
  <1>6. Runs(q8, decoding, p, s, t)
    BY <1>1, <1>2, <1>5, IsSeqOf DEF Runs
  <1>7. QED
    BY <1>6 DEF p

LEMMA RunsThree ==
    ASSUME NEW q8, NEW decoding, NEW a, NEW b, NEW c,
           NEW s, NEW m1, NEW m2, NEW t,
           Fits(q8, decoding, a, s, m1),
           Fits(q8, decoding, b, m1, m2),
           Fits(q8, decoding, c, m2, t)
    PROVE  Runs(q8, decoding, <<a, b, c>>, s, t)
  <1> DEFINE K == <<s, m1, m2, t>>
             p == <<a, b, c>>
  <1>1. p \in Seq({a, b, c}) /\ Len(p) = 3
    OBVIOUS
  <1>2. K[1] = s /\ K[2] = m1 /\ K[3] = m2 /\ K[4] = t
    OBVIOUS
  <1>3. p[1] = a /\ p[2] = b /\ p[3] = c
    OBVIOUS
  <1> HIDE DEF K, p
  <1>4. \A i \in 1 .. 3 : Fits(q8, decoding, p[i], K[i], K[i + 1])
    <2>1. Fits(q8, decoding, p[1], K[1], K[1 + 1])
      BY <1>2, <1>3
    <2>2. Fits(q8, decoding, p[2], K[2], K[2 + 1])
      BY <1>2, <1>3
    <2>3. Fits(q8, decoding, p[3], K[3], K[3 + 1])
      BY <1>2, <1>3
    <2>4. \A i \in 1 .. 3 : i = 1 \/ i = 2 \/ i = 3
      OBVIOUS
    <2>5. QED
      BY <2>1, <2>2, <2>3, <2>4
  <1>5. Traces(q8, decoding, p, K) /\ K[Len(p) + 1] = t
    BY <1>1, <1>2, <1>4 DEF Traces
  <1>6. Runs(q8, decoding, p, s, t)
    BY <1>1, <1>2, <1>5, IsSeqOf DEF Runs
  <1>7. QED
    BY <1>6 DEF p

LEMMA RunsSix ==
    ASSUME NEW q8, NEW decoding, NEW a, NEW b, NEW c, NEW d, NEW e, NEW f,
           NEW s, NEW m1, NEW m2, NEW m3, NEW m4, NEW m5, NEW t,
           Fits(q8, decoding, a, s, m1),
           Fits(q8, decoding, b, m1, m2),
           Fits(q8, decoding, c, m2, m3),
           Fits(q8, decoding, d, m3, m4),
           Fits(q8, decoding, e, m4, m5),
           Fits(q8, decoding, f, m5, t)
    PROVE  Runs(q8, decoding, <<a, b, c, d, e, f>>, s, t)
  <1> DEFINE K == <<s, m1, m2, m3, m4, m5, t>>
             p == <<a, b, c, d, e, f>>
  <1>1. p \in Seq({a, b, c, d, e, f}) /\ Len(p) = 6
    OBVIOUS
  <1>2. K[1] = s /\ K[2] = m1 /\ K[3] = m2 /\ K[4] = m3 /\ K[5] = m4 /\ K[6] = m5 /\ K[7] = t
    OBVIOUS
  <1>3. p[1] = a /\ p[2] = b /\ p[3] = c /\ p[4] = d /\ p[5] = e /\ p[6] = f
    OBVIOUS
  <1> HIDE DEF K, p
  <1>4. \A i \in 1 .. 6 : Fits(q8, decoding, p[i], K[i], K[i + 1])
    <2>1. Fits(q8, decoding, p[1], K[1], K[1 + 1])
      BY <1>2, <1>3
    <2>2. Fits(q8, decoding, p[2], K[2], K[2 + 1])
      BY <1>2, <1>3
    <2>3. Fits(q8, decoding, p[3], K[3], K[3 + 1])
      BY <1>2, <1>3
    <2>4. Fits(q8, decoding, p[4], K[4], K[4 + 1])
      BY <1>2, <1>3
    <2>5. Fits(q8, decoding, p[5], K[5], K[5 + 1])
      BY <1>2, <1>3
    <2>6. Fits(q8, decoding, p[6], K[6], K[6 + 1])
      BY <1>2, <1>3
    <2>7. \A i \in 1 .. 6 : i = 1 \/ i = 2 \/ i = 3 \/ i = 4 \/ i = 5 \/ i = 6
      OBVIOUS
    <2>8. QED
      BY <2>1, <2>2, <2>3, <2>4, <2>5, <2>6, <2>7
  <1>5. Traces(q8, decoding, p, K) /\ K[Len(p) + 1] = t
    BY <1>1, <1>2, <1>4 DEF Traces
  <1>6. Runs(q8, decoding, p, s, t)
    BY <1>1, <1>2, <1>5, IsSeqOf DEF Runs
  <1>7. QED
    BY <1>6 DEF p

LEMMA RunsSeven ==
    ASSUME NEW q8, NEW decoding, NEW a, NEW b, NEW c, NEW d, NEW e, NEW f, NEW g,
           NEW s, NEW m1, NEW m2, NEW m3, NEW m4, NEW m5, NEW m6, NEW t,
           Fits(q8, decoding, a, s, m1),
           Fits(q8, decoding, b, m1, m2),
           Fits(q8, decoding, c, m2, m3),
           Fits(q8, decoding, d, m3, m4),
           Fits(q8, decoding, e, m4, m5),
           Fits(q8, decoding, f, m5, m6),
           Fits(q8, decoding, g, m6, t)
    PROVE  Runs(q8, decoding, <<a, b, c, d, e, f, g>>, s, t)
  <1> DEFINE K == <<s, m1, m2, m3, m4, m5, m6, t>>
             p == <<a, b, c, d, e, f, g>>
  <1>1. p \in Seq({a, b, c, d, e, f, g}) /\ Len(p) = 7
    OBVIOUS
  <1>2. K[1] = s /\ K[2] = m1 /\ K[3] = m2 /\ K[4] = m3 /\ K[5] = m4 /\ K[6] = m5 /\ K[7] = m6 /\ K[8] = t
    OBVIOUS
  <1>3. p[1] = a /\ p[2] = b /\ p[3] = c /\ p[4] = d /\ p[5] = e /\ p[6] = f /\ p[7] = g
    OBVIOUS
  <1> HIDE DEF K, p
  <1>4. \A i \in 1 .. 7 : Fits(q8, decoding, p[i], K[i], K[i + 1])
    <2>1. Fits(q8, decoding, p[1], K[1], K[1 + 1])
      BY <1>2, <1>3
    <2>2. Fits(q8, decoding, p[2], K[2], K[2 + 1])
      BY <1>2, <1>3
    <2>3. Fits(q8, decoding, p[3], K[3], K[3 + 1])
      BY <1>2, <1>3
    <2>4. Fits(q8, decoding, p[4], K[4], K[4 + 1])
      BY <1>2, <1>3
    <2>5. Fits(q8, decoding, p[5], K[5], K[5 + 1])
      BY <1>2, <1>3
    <2>6. Fits(q8, decoding, p[6], K[6], K[6 + 1])
      BY <1>2, <1>3
    <2>7. Fits(q8, decoding, p[7], K[7], K[7 + 1])
      BY <1>2, <1>3
    <2>8. \A i \in 1 .. 7 : i = 1 \/ i = 2 \/ i = 3 \/ i = 4 \/ i = 5 \/ i = 6 \/ i = 7
      OBVIOUS
    <2>9. QED
      BY <2>1, <2>2, <2>3, <2>4, <2>5, <2>6, <2>7, <2>8
  <1>5. Traces(q8, decoding, p, K) /\ K[Len(p) + 1] = t
    BY <1>1, <1>2, <1>4 DEF Traces
  <1>6. Runs(q8, decoding, p, s, t)
    BY <1>1, <1>2, <1>5, IsSeqOf DEF Runs
  <1>7. QED
    BY <1>6 DEF p


LEMMA RunsLayers ==
    ASSUME NEW q8, NEW decoding, NEW n \in Nat, NEW f, f = [l \in 1 .. n |-> f[l]], NEW known,
           \A l \in 1 .. n : Runs(q8, decoding, f[l], known[l - 1], known[l])
    PROVE  Runs(q8, decoding, FlattenSeq(f), known[0], known[n])
  <1>1. IsSeq(f) /\ DOMAIN f = 1 .. n /\ Len(f) = n
    BY ListFacts
  <1>2. CASE n = 0
    <2>1. f = <<>>
      BY <1>1, <1>2 DEF IsSeq
    <2>2. FlattenSeq(f) = <<>>
      BY <2>1, EmptyFacts DEF FlattenSeq
    <2>3. QED
      BY <1>2, <2>2, RunsNone
  <1>3. CASE n # 0
    <2>1. f # <<>> /\ \A l \in DOMAIN f : IsSeq(f[l])
      BY <1>1, <1>3, EmptyFacts DEF Runs
    <2>2. PICK flat : Flattens(flat, f)
      BY <2>1, <1>1, FlattenSteps
    <2>3. /\ FlattenSeq(f) = flat[n]
          /\ \A l \in 1 .. n : flat[l] = IF l = 1 THEN f[l] ELSE Join(flat[l - 1], f[l])
      BY <2>2, <1>1 DEF Flattens
    <2> DEFINE T == {l \in 1 .. n : Runs(q8, decoding, flat[l], known[0], known[l])}
    <2>4. 1 \in T
      <3>1. 1 \in 1 .. n /\ 1 - 1 = 0
        BY <1>3
      <3>2. QED
        BY <3>1, <2>3
    <2>5. ASSUME NEW l \in 1 .. n - 1, l \in T PROVE l + 1 \in T
      <3>1. l + 1 \in 1 .. n /\ l + 1 # 1 /\ (l + 1) - 1 = l
        OBVIOUS
      <3>2. flat[l + 1] = Join(flat[l], f[l + 1])
        BY <3>1, <2>3
      <3>3. Runs(q8, decoding, flat[l], known[0], known[l])
        BY <2>5
      <3>4. Runs(q8, decoding, f[l + 1], known[l], known[l + 1])
        BY <3>1
      <3>5. QED
        BY <3>1, <3>2, <3>3, <3>4, RunsJoin
    <2>6. n \in T
      <3>1. 1 \in Nat /\ n \in 1 .. n
        BY <1>3
      <3> HIDE DEF T
      <3>2. 1 .. n \subseteq T
        BY <3>1, <2>4, <2>5, AllReached
      <3>3. QED
        BY <3>1, <3>2
    <2>7. QED
      BY <2>3, <2>6
  <1>4. QED
    BY <1>2, <1>3

IsOp(op, q8, does, reads, makes, frees) ==
    /\ op.does = does /\ op.reads = reads /\ op.makes = makes
    /\ op.frees = IF q8 THEN frees ELSE {}

\* The operation of one engine or of the other.
EitherOp(q8, does, reads, makes, frees) ==
    IF q8 THEN Freeing(Op(does, reads, makes), frees) ELSE Op(does, reads, makes)

LEMMA OpFacts ==
    ASSUME NEW does, NEW reads, NEW makes, NEW frees, NEW q8 \in BOOLEAN
    PROVE  /\ IsOp(Op(does, reads, makes), q8, does, reads, makes, {})
           /\ IsOp(EitherOp(q8, does, reads, makes, frees), q8, does, reads, makes, frees)
  <1> DEFINE o == Op(does, reads, makes)
             p == Freeing(Op(does, reads, makes), frees)
  <1>1. o = [does |-> does, reads |-> reads, makes |-> makes, frees |-> {}]
    BY DEF Op
  <1>2. o.does = does /\ o.reads = reads /\ o.makes = makes /\ o.frees = {}
    BY <1>1
  <1>3. p = [does |-> does, reads |-> reads, makes |-> makes, frees |-> frees]
    BY DEF Freeing, Op
  <1>4. p.does = does /\ p.reads = reads /\ p.makes = makes /\ p.frees = frees
    BY <1>3
  <1>5. QED
    BY <1>2, <1>4 DEF IsOp, EitherOp

LEMMA OpKeeps ==
    ASSUME NEW q8 \in BOOLEAN, NEW op, NEW does, NEW reads, NEW makes, NEW frees,
           IsOp(op, q8, does, reads, makes, frees),
           NEW rest, NEW X, NEW Y, NEW j, NEW k, rest \cap frees = {}, frees \subseteq X,
           Y = (X \ frees) \cup {makes}, HasRoom(rest \cup X)
    PROVE  Keeps(q8, op, Known(rest \cup X, j), Known(rest \cup Y, k))
  <1>1. op.makes = makes /\ op.frees = IF q8 THEN frees ELSE {}
    BY DEF IsOp
  <1>2. Known(rest \cup X, j).held = rest \cup X /\ Known(rest \cup Y, k).held = rest \cup Y
    BY DEF Known
  <1>3. rest \cup Y = ((rest \cup X) \ frees) \cup {makes}
    OBVIOUS
  <1>4. CASE q8
    BY <1>1, <1>2, <1>3, <1>4 DEF Keeps
  <1>5. CASE ~q8
    BY <1>1, <1>2, <1>3, <1>5 DEF Keeps
  <1>6. QED
    BY <1>4, <1>5

LEMMA MostFacts == MostBuffers \in Nat /\ MostBuffers >= 5 /\ MostBuffers >= 2 * DecoderLayers + 4
  <1> DEFINE n == 2 * DecoderLayers + 4
             S == {5, n}
  <1>1. n \in Nat
    BY LayersAssumption
  <1>2. n + 5 \in Nat /\ S \subseteq 0 .. n + 5 /\ S # {}
    BY <1>1
  <1> HIDE DEF S, n
  <1>3. Max(S) \in S /\ \A x \in S : x <= Max(S)
    BY <1>2, MaxOfBounded
  <1> USE DEF S
  <1>4. MostBuffers = Max(S)
    BY DEF MostBuffers, n
  <1>5. QED
    BY <1>1, <1>3, <1>4 DEF n

AtMost(S, n) == Finite!IsFiniteSet(S) /\ Finite!Cardinality(S) <= n

LEMMA NoneAtMost == AtMost({}, 0)
  BY Finite!FS_EmptySet DEF AtMost, Finite!Cardinality, Cardinality, Finite!IsFiniteSet, IsFiniteSet

LEMMA OneMore ==
    ASSUME NEW S, NEW n \in Nat, NEW m, m = n + 1, AtMost(S, n), NEW x
    PROVE  AtMost(S \cup {x}, m)
  <1>1. Finite!IsFiniteSet(S) /\ Finite!Cardinality(S) \in Nat
    BY Finite!FS_CardinalityType DEF AtMost
  <1>2. /\ Finite!IsFiniteSet(S \cup {x})
        /\ Finite!Cardinality(S \cup {x}) = IF x \in S THEN Finite!Cardinality(S)
                                            ELSE Finite!Cardinality(S) + 1
    BY <1>1, Finite!FS_AddElement
  <1>3. QED
    BY <1>1, <1>2 DEF AtMost

LEMMA FewerAtMost ==
    ASSUME NEW S, NEW n \in Nat, AtMost(S, n), NEW T, T \subseteq S
    PROVE  AtMost(T, n)
  <1>1. Finite!IsFiniteSet(S) /\ Finite!Cardinality(S) \in Nat
    BY Finite!FS_CardinalityType DEF AtMost
  <1>2. /\ Finite!IsFiniteSet(T)
        /\ Finite!Cardinality(T) <= Finite!Cardinality(S)
    BY <1>1, Finite!FS_Subset
  <1>3. Finite!Cardinality(T) \in Nat
    BY <1>2, Finite!FS_CardinalityType
  <1>4. QED
    BY <1>1, <1>2, <1>3 DEF AtMost

\* There is room for three names beside the cross caches, and for four beside none.
LEMMA RoomFor ==
    ASSUME NEW S, NEW n \in Nat, AtMost(S, n), NEW X
    PROVE  /\ \A a, b, c : X \subseteq {a, b, c} /\ n + 4 <= MostBuffers => HasRoom(S \cup X)
           /\ \A a, b, c, d : X \subseteq {a, b, c, d} /\ n + 5 <= MostBuffers => HasRoom(S \cup X)
  <1>1. ASSUME NEW T, NEW m \in Nat, AtMost(T, m), m + 1 <= MostBuffers, S \cup X \subseteq T
        PROVE  HasRoom(S \cup X)
    <2>1. AtMost(S \cup X, m)
      BY <1>1, FewerAtMost
    <2>2. Finite!Cardinality(S \cup X) \in Nat
      BY <2>1, Finite!FS_CardinalityType DEF AtMost
    <2>3. QED
      BY <1>1, <2>1, <2>2, MostFacts DEF AtMost, HasRoom
  <1>2. ASSUME NEW a, NEW b, NEW c
        PROVE  AtMost(((S \cup {a}) \cup {b}) \cup {c}, n + 3)
    <2>1. n + 1 \in Nat /\ n + 2 \in Nat /\ n + 2 = (n + 1) + 1 /\ n + 3 = (n + 2) + 1
      OBVIOUS
    <2>2. AtMost(S \cup {a}, n + 1)
      BY OneMore
    <2>3. AtMost((S \cup {a}) \cup {b}, n + 2)
      BY <2>1, <2>2, OneMore
    <2>4. QED
      BY <2>1, <2>3, OneMore
  <1>3. ASSUME NEW a, NEW b, NEW c, NEW d
        PROVE  AtMost((((S \cup {a}) \cup {b}) \cup {c}) \cup {d}, n + 4)
    <2>1. n + 3 \in Nat /\ n + 4 = (n + 3) + 1
      OBVIOUS
    <2>2. QED
      BY <1>2, <2>1, OneMore
  <1>4. ASSUME NEW a, NEW b, NEW c, X \subseteq {a, b, c}, n + 4 <= MostBuffers
        PROVE  HasRoom(S \cup X)
    <2>1. S \cup X \subseteq ((S \cup {a}) \cup {b}) \cup {c}
      BY <1>4
    <2>2. (n + 3) + 1 <= MostBuffers /\ n + 3 \in Nat
      BY <1>4
    <2>3. QED
      BY <1>1, <1>2, <2>1, <2>2
  <1>5. ASSUME NEW a, NEW b, NEW c, NEW d, X \subseteq {a, b, c, d}, n + 5 <= MostBuffers
        PROVE  HasRoom(S \cup X)
    <2>1. S \cup X \subseteq (((S \cup {a}) \cup {b}) \cup {c}) \cup {d}
      BY <1>5
    <2>2. (n + 4) + 1 <= MostBuffers /\ n + 4 \in Nat
      BY <1>5
    <2>3. QED
      BY <1>1, <1>3, <2>1, <2>2
  <1>6. QED
    BY <1>4, <1>5

\* The cross caches of the first l decoder layers.
Cached(l) == {Key(k) : k \in 1 .. l} \cup {Value(k) : k \in 1 .. l}

LEMMA CachedFacts ==
    /\ Cached(0) = {}
    /\ \A l \in Nat \ {0} : Cached(l) = (Cached(l - 1) \cup {Key(l)}) \cup {Value(l)}
    /\ \A l \in Nat : AtMost(Cached(l), 2 * l)
  <1>1. Cached(0) = {}
    BY DEF Cached
  <1>2. \A l \in Nat : Cached(l + 1) = (Cached(l) \cup {Key(l + 1)}) \cup {Value(l + 1)}
    <2> TAKE l \in Nat
    <2>1. 1 .. l + 1 = (1 .. l) \cup {l + 1}
      OBVIOUS
    <2>2. QED
      BY <2>1 DEF Cached
  <1>3. \A l \in Nat \ {0} : l - 1 \in Nat /\ (l - 1) + 1 = l
    OBVIOUS
  <1>4. \A l \in Nat : AtMost(Cached(l), 2 * l)
    <2> TAKE n \in Nat
    <2> DEFINE T == {l \in 0 .. n : AtMost(Cached(l), 2 * l)}
    <2>1. 0 \in T
      BY <1>1, NoneAtMost
    <2>2. ASSUME NEW l \in 0 .. n - 1, l \in T PROVE l + 1 \in T
      <3> DEFINE i == 2 * l
                 j == 2 * l + 1
                 k == 2 * (l + 1)
      <3>1. /\ AtMost(Cached(l), i) /\ i \in Nat /\ j \in Nat /\ j = i + 1 /\ k = j + 1
            /\ l \in Nat /\ l + 1 \in 0 .. n
        BY <2>2
      <3> HIDE DEF i, j, k
      <3>2. AtMost(Cached(l) \cup {Key(l + 1)}, j)
        BY <3>1, OneMore
      <3>3. AtMost((Cached(l) \cup {Key(l + 1)}) \cup {Value(l + 1)}, k)
        BY <3>1, <3>2, OneMore
      <3>4. AtMost(Cached(l + 1), k)
        BY <3>1, <3>3, <1>2
      <3>5. QED
        BY <3>1, <3>4 DEF k
    <2>3. 0 .. n \subseteq T
      <3> HIDE DEF T
      <3>1. QED
        BY <2>1, <2>2, AllReached
    <2>4. QED
      BY <2>3
  <1>5. QED
    BY <1>1, <1>2, <1>3, <1>4

\* Beside rest, an operation finds X and leaves Y.
Moves(rest, X, Y, makes, frees) ==
    /\ rest \cap frees = {} /\ frees \subseteq X
    /\ Y = (X \ frees) \cup {makes}
    /\ HasRoom(rest \cup X)

LEMMA LinearFits ==
    ASSUME NEW q8 \in BOOLEAN, NEW decoding \in BOOLEAN, NEW op, NEW in, NEW makes, NEW frees,
           IsOp(op, q8, "linear", <<in>>, makes, frees), NEW rest, NEW X, NEW Y, NEW j,
           Moves(rest, X, Y, makes, frees), in \in rest \cup X,
           decoding => Rank(makes) \in 1 .. Rank(in)
    PROVE  Fits(q8, decoding, op, Known(rest \cup X, j), Known(rest \cup Y, j))
  <1> DEFINE s == Known(rest \cup X, j)
             t == Known(rest \cup Y, j)
  <1>1. op.does = "linear" /\ op.makes = makes /\ op.reads = <<in>>
    BY DEF IsOp
  <1>2. s.held = rest \cup X /\ s.passed = j /\ t.passed = j
    BY DEF Known
  <1>3. Keeps(q8, op, s, t)
    BY OpKeeps DEF Moves
  <1>4. op.reads[1] = in
    BY <1>1
  <1> HIDE DEF s, t
  <1>5. ReadsFrom(op, s.held, 1) /\ RankOf(op, 1) = Rank(in)
    BY <1>2, <1>4 DEF ReadsFrom, RankOf
  <1>6. ASSUME decoding PROVE Fits(q8, decoding, op, s, t)
    BY <1>1, <1>2, <1>3, <1>5, <1>6 DEF Fits, FitsDecode
  <1>7. ASSUME ~decoding PROVE Fits(q8, decoding, op, s, t)
    BY <1>1, <1>2, <1>3, <1>5, <1>7 DEF Fits, FitsEncode
  <1>8. QED
    BY <1>6, <1>7 DEF s, t

LEMMA ResidualFits ==
    ASSUME NEW q8 \in BOOLEAN, NEW decoding \in BOOLEAN, NEW op, NEW in, NEW other, NEW makes,
           NEW frees, IsOp(op, q8, "residual", <<in, other>>, makes, frees),
           NEW rest, NEW X, NEW Y, NEW j,
           Moves(rest, X, Y, makes, frees), in \in rest \cup X, other \in rest \cup X,
           decoding => Rank(makes) = 3 /\ Rank(in) = 3 /\ Rank(other) \in 1 .. 3
    PROVE  Fits(q8, decoding, op, Known(rest \cup X, j), Known(rest \cup Y, j))
  <1> DEFINE s == Known(rest \cup X, j)
             t == Known(rest \cup Y, j)
  <1>1. op.does = "residual" /\ op.makes = makes /\ op.reads = <<in, other>>
    BY DEF IsOp
  <1>2. s.held = rest \cup X /\ s.passed = j /\ t.passed = j
    BY DEF Known
  <1>3. Keeps(q8, op, s, t)
    BY OpKeeps DEF Moves
  <1>4. op.reads[1] = in /\ op.reads[2] = other
    BY <1>1
  <1> HIDE DEF s, t
  <1>5. ReadsFrom(op, s.held, 2) /\ RankOf(op, 1) = Rank(in) /\ RankOf(op, 2) = Rank(other)
    BY <1>2, <1>4 DEF ReadsFrom, RankOf
  <1>6. ASSUME decoding PROVE Fits(q8, decoding, op, s, t)
    BY <1>1, <1>2, <1>3, <1>5, <1>6 DEF Fits, FitsDecode
  <1>7. ASSUME ~decoding PROVE Fits(q8, decoding, op, s, t)
    BY <1>1, <1>2, <1>3, <1>5, <1>7 DEF Fits, FitsEncode
  <1>8. QED
    BY <1>6, <1>7 DEF s, t

LEMMA AttendFits ==
    ASSUME NEW q8 \in BOOLEAN, NEW decoding \in BOOLEAN, NEW op, NEW query, NEW key, NEW value,
           NEW makes, NEW frees, IsOp(op, q8, "attend", <<query, key, value>>, makes, frees),
           NEW rest, NEW X, NEW Y, NEW j,
           Moves(rest, X, Y, makes, frees), {query, key, value} \subseteq rest \cup X,
           decoding => /\ Rank(makes) = 3 /\ Rank(query) \in 2 .. 3
                       /\ Rank(key) = 0 /\ Rank(value) = 0
    PROVE  Fits(q8, decoding, op, Known(rest \cup X, j), Known(rest \cup Y, j))
  <1> DEFINE s == Known(rest \cup X, j)
             t == Known(rest \cup Y, j)
  <1>1. op.does = "attend" /\ op.makes = makes /\ op.reads = <<query, key, value>>
    BY DEF IsOp
  <1>2. s.held = rest \cup X /\ s.passed = j /\ t.passed = j
    BY DEF Known
  <1>3. Keeps(q8, op, s, t)
    BY OpKeeps DEF Moves
  <1>4. op.reads[1] = query /\ op.reads[2] = key /\ op.reads[3] = value
    BY <1>1
  <1> HIDE DEF s, t
  <1>5. /\ ReadsFrom(op, s.held, 3)
        /\ RankOf(op, 1) = Rank(query) /\ RankOf(op, 2) = Rank(key) /\ RankOf(op, 3) = Rank(value)
    BY <1>2, <1>4 DEF ReadsFrom, RankOf
  <1>6. ASSUME decoding PROVE Fits(q8, decoding, op, s, t)
    BY <1>1, <1>2, <1>3, <1>5, <1>6 DEF Fits, FitsDecode
  <1>7. ASSUME ~decoding PROVE Fits(q8, decoding, op, s, t)
    BY <1>1, <1>2, <1>3, <1>5, <1>7 DEF Fits, FitsEncode
  <1>8. QED
    BY <1>6, <1>7 DEF s, t

LEMMA SsruFits ==
    ASSUME NEW q8 \in BOOLEAN, NEW op, NEW update, NEW forget, NEW in, NEW makes, NEW frees,
           IsOp(op, q8, "ssru", <<update, forget, in>>, makes, frees),
           NEW rest, NEW X, NEW Y, NEW l \in 1 .. DecoderLayers,
           Moves(rest, X, Y, makes, frees), {update, forget, in} \subseteq rest \cup X,
           Rank(makes) = 2, makes[2] = l,
           {Rank(update), Rank(forget), Rank(in)} \subseteq 1 .. 3
    PROVE  Fits(q8, TRUE, op, Known(rest \cup X, l - 1), Known(rest \cup Y, l))
  <1> DEFINE s == Known(rest \cup X, l - 1)
             t == Known(rest \cup Y, l)
  <1>1. op.does = "ssru" /\ op.makes = makes /\ op.reads = <<update, forget, in>>
    BY DEF IsOp
  <1>2. s.held = rest \cup X /\ s.passed = l - 1 /\ t.passed = l /\ t.passed = s.passed + 1
    BY DEF Known
  <1>3. Keeps(q8, op, s, t)
    BY OpKeeps DEF Moves
  <1>4. op.reads[1] = update /\ op.reads[2] = forget /\ op.reads[3] = in
    BY <1>1
  <1> HIDE DEF s, t
  <1>5. ReadsFrom(op, s.held, 3) /\ \A i \in 1 .. 3 : RankOf(op, i) \in 1 .. 3
    BY <1>2, <1>4 DEF ReadsFrom, RankOf
  <1>6. FitsDecode(op, s, t)
    BY <1>1, <1>2, <1>5 DEF FitsDecode
  <1>7. Fits(q8, TRUE, op, s, t)
    BY <1>3, <1>6 DEF Fits
  <1>8. QED
    BY <1>7 DEF s, t

\* embedding and input read no other result.
LEMMA FirstFits ==
    ASSUME NEW q8 \in BOOLEAN, NEW decoding \in BOOLEAN, NEW op, NEW does, NEW makes,
           IsOp(op, q8, does, <<>>, makes, {}), NEW rest, HasRoom(rest), NEW j,
           IF decoding THEN does = "input" /\ Rank(makes) = 1 ELSE does = "embedding"
    PROVE  Fits(q8, decoding, op, Known(rest, j), Known(rest \cup {makes}, j))
  <1> DEFINE s == Known(rest \cup {}, j)
             t == Known(rest \cup {makes}, j)
  <1>1. op.does = does /\ op.makes = makes
    BY DEF IsOp
  <1>2. s.passed = j /\ t.passed = j
    BY DEF Known
  <1>3. rest \cup {} = rest
    OBVIOUS
  <1>4. Keeps(q8, op, s, t)
    <2> DEFINE X == {}
               Y == {makes}
    <2>1. rest \cap X = {} /\ X \subseteq X /\ Y = (X \ X) \cup {makes} /\ rest \cup X = rest
      OBVIOUS
    <2>2. HasRoom(rest \cup X) /\ IsOp(op, q8, does, <<>>, makes, X)
      BY <2>1
    <2>3. s = Known(rest \cup X, j) /\ t = Known(rest \cup Y, j)
      OBVIOUS
    <2> HIDE DEF X, Y, s, t
    <2>4. QED
      BY <2>1, <2>2, <2>3, OpKeeps
  <1> HIDE DEF s, t
  <1>5. ASSUME decoding PROVE Fits(q8, decoding, op, s, t)
    BY <1>1, <1>2, <1>4, <1>5 DEF Fits, FitsDecode
  <1>6. ASSUME ~decoding PROVE Fits(q8, decoding, op, s, t)
    BY <1>1, <1>2, <1>4, <1>6 DEF Fits, FitsEncode
  <1>7. QED
    BY <1>3, <1>5, <1>6 DEF s, t

CacheNames == {"cross key", "cross value"}

\* rest is empty or some of the cross caches, n at most.
Aside(rest, n) == n \in Nat /\ AtMost(rest, n) /\ \A v \in rest : v[1] \in CacheNames

LEMMA RankFacts ==
    ASSUME NEW l \in Nat
    PROVE  /\ Rank(Key(l)) = 0 /\ Rank(Value(l)) = 0
           /\ Rank(Decoded(l)) = IF l = 0 THEN 1 ELSE 3
           /\ Rank(<<"update", l>>) = 1 /\ Rank(<<"forget", l>>) = 1
           /\ Rank(<<"recurrent", l>>) = 2 /\ Rank(<<"query", l>>) = 2
           /\ \A name \in {"attended", "context", "normalized", "hidden", "ffn"} :
                  Rank(<<name, l>>) = 3
  <1>1. \A name : Decoded(0) = <<name, l>> <=> name = "decoder" /\ l = 0
    BY DEF Decoded
  <1>2. \A name : <<name, l>>[1] = name
    OBVIOUS
  <1>3. \A name : Rank(<<name, l>>) =
            IF name \in {"cross key", "cross value"} THEN 0
            ELSE IF (name = "decoder" /\ l = 0) \/ name \in {"update", "forget"} THEN 1
            ELSE IF name \in {"recurrent", "query"} THEN 2 ELSE 3
    BY <1>1, <1>2, Zenon DEF Rank
  <1> HIDE DEF Rank
  <1>4. QED
    BY <1>3 DEF Key, Value, Decoded

LEMMA FeedForwardRuns ==
    ASSUME NEW q8 \in BOOLEAN, NEW decoding \in BOOLEAN, NEW rest, NEW n, Aside(rest, n),
           n + 4 <= MostBuffers, NEW l \in Nat, NEW in, NEW out, NEW j,
           in[1] \notin CacheNames \cup {"hidden", "ffn"},
           decoding => Rank(in) = 3 /\ Rank(out) = 3
    PROVE  Runs(q8, decoding, IF q8 THEN Q8FeedForward(in, out, l) ELSE FeedForward(in, out, l),
                Known(rest \cup {in}, j), Known(rest \cup {out}, j))
  <1> DEFINE hidden == <<"hidden", l>>
             ffn == <<"ffn", l>>
             F == {hidden, ffn, in}
             a == Op("linear", <<in>>, hidden)
             b == Op("linear", <<hidden>>, ffn)
             c == EitherOp(q8, "residual", <<ffn, in>>, out, F)
             m1 == Known(rest \cup {in, hidden}, j)
             m2 == Known(rest \cup {in, hidden, ffn}, j)
  <1>1. (IF q8 THEN Q8FeedForward(in, out, l) ELSE FeedForward(in, out, l)) = <<a, b, c>>
    BY DEF Q8FeedForward, FeedForward, EitherOp
  <1>2. /\ IsOp(a, q8, "linear", <<in>>, hidden, {})
        /\ IsOp(b, q8, "linear", <<hidden>>, ffn, {})
        /\ IsOp(c, q8, "residual", <<ffn, in>>, out, F)
    BY OpFacts
  <1>3. hidden[1] = "hidden" /\ ffn[1] = "ffn"
    OBVIOUS
  <1>4. decoding => Rank(hidden) = 3 /\ Rank(ffn) = 3 /\ Rank(in) = 3 /\ Rank(out) = 3
    BY RankFacts
  <1> HIDE DEF hidden, ffn, a, b, c
  <1>5. rest \cap F = {}
    BY <1>3 DEF Aside, CacheNames
  <1>6. \A X : X \subseteq F => HasRoom(rest \cup X)
    BY RoomFor DEF Aside
  <1>7. /\ Moves(rest, {in}, {in, hidden}, hidden, {})
        /\ Moves(rest, {in, hidden}, {in, hidden, ffn}, ffn, {})
    BY <1>6 DEF Moves
  <1>8. Moves(rest, {in, hidden, ffn}, {out}, out, F)
    BY <1>5, <1>6 DEF Moves
  <1>9. 3 \in 1 .. 3
    OBVIOUS
  <1> HIDE DEF F
  <1>10. Fits(q8, decoding, a, Known(rest \cup {in}, j), m1)
    BY <1>2, <1>4, <1>7, <1>9, LinearFits
  <1>11. Fits(q8, decoding, b, m1, m2)
    <2>1. hidden \in rest \cup {in, hidden}
      OBVIOUS
    <2>2. QED
      BY <1>2, <1>4, <1>7, <1>9, <2>1, LinearFits
  <1>12. Fits(q8, decoding, c, m2, Known(rest \cup {out}, j))
    <2>1. ffn \in rest \cup {in, hidden, ffn} /\ in \in rest \cup {in, hidden, ffn}
      OBVIOUS
    <2>2. QED
      BY <1>2, <1>4, <1>8, <1>9, <2>1, ResidualFits
  <1> HIDE DEF m1, m2
  <1>13. QED
    BY <1>1, <1>10, <1>11, <1>12, RunsThree


LEMMA EncoderLayerRuns ==
    ASSUME NEW q8 \in BOOLEAN, NEW l \in Nat, NEW j
    PROVE  LET v(name) == <<name, l>>
               in == Encoded(l - 1)
               attention ==
                   <<Op("linear", <<in>>, v("query")), Op("linear", <<in>>, v("key")),
                     Op("linear", <<in>>, v("value")),
                     EitherOp(q8, "attend", <<v("query"), v("key"), v("value")>>, v("attended"),
                              {v("query"), v("key"), v("value")}),
                     EitherOp(q8, "linear", <<v("attended")>>, v("projected"), {v("attended")}),
                     EitherOp(q8, "residual", <<v("projected"), in>>, v("normalized"),
                              {v("projected"), in})>>
               forward == IF q8 THEN Q8FeedForward(v("normalized"), Encoded(l), l)
                          ELSE FeedForward(v("normalized"), Encoded(l), l)
           IN  Runs(q8, FALSE, Join(attention, forward), Known({in}, j), Known({Encoded(l)}, j))
  <1> DEFINE in == Encoded(l - 1)
             query == <<"query", l>>
             key == <<"key", l>>
             value == <<"value", l>>
             attended == <<"attended", l>>
             projected == <<"projected", l>>
             normalized == <<"normalized", l>>
             a == Op("linear", <<in>>, query)
             b == Op("linear", <<in>>, key)
             c == Op("linear", <<in>>, value)
             d == EitherOp(q8, "attend", <<query, key, value>>, attended, {query, key, value})
             e == EitherOp(q8, "linear", <<attended>>, projected, {attended})
             f == EitherOp(q8, "residual", <<projected, in>>, normalized, {projected, in})
             forward == IF q8 THEN Q8FeedForward(normalized, Encoded(l), l)
                        ELSE FeedForward(normalized, Encoded(l), l)
             known(X) == Known({} \cup X, j)
  <1>1. /\ IsOp(a, q8, "linear", <<in>>, query, {})
        /\ IsOp(b, q8, "linear", <<in>>, key, {})
        /\ IsOp(c, q8, "linear", <<in>>, value, {})
        /\ IsOp(d, q8, "attend", <<query, key, value>>, attended, {query, key, value})
        /\ IsOp(e, q8, "linear", <<attended>>, projected, {attended})
        /\ IsOp(f, q8, "residual", <<projected, in>>, normalized, {projected, in})
    <2> HIDE DEF in, query, key, value, attended, projected, normalized
    <2>1. QED
      BY OpFacts
  <1>2. /\ in \notin {query, key, value, attended, projected, normalized}
        /\ attended # projected
        /\ normalized[1] = "normalized"
    BY DEF Encoded
  <1> HIDE DEF in, query, key, value, attended, projected, normalized, a, b, c, d, e, f
  <1>3. AtMost({}, 0) /\ 0 \in Nat /\ MostBuffers \in Nat /\ MostBuffers >= 5
    BY NoneAtMost, MostFacts
  <1>4. \A X, x, y, z, w : X \subseteq {x, y, z, w} => HasRoom({} \cup X)
    <2> DEFINE rest == {}
               n == 0
    <2>1. AtMost(rest, n) /\ n \in Nat /\ n + 5 <= MostBuffers
      BY <1>3
    <2> HIDE DEF rest, n
    <2>2. \A X, x, y, z, w : X \subseteq {x, y, z, w} => HasRoom(rest \cup X)
      BY <2>1, RoomFor
    <2>3. QED
      BY <2>2 DEF rest
  <1>5. /\ Moves({}, {in}, {in, query}, query, {})
        /\ Moves({}, {in, query}, {in, query, key}, key, {})
        /\ Moves({}, {in, query, key}, {in, query, key, value}, value, {})
    BY <1>4 DEF Moves
  <1>6. Moves({}, {in, query, key, value}, {in, attended}, attended, {query, key, value})
    BY <1>2, <1>4 DEF Moves
  <1>7. Moves({}, {in, attended}, {in, projected}, projected, {attended})
    BY <1>2, <1>4 DEF Moves
  <1>8. Moves({}, {in, projected}, {normalized}, normalized, {projected, in})
    BY <1>2, <1>4 DEF Moves
  <1> DEFINE A == {} \cup {in}
             B == {} \cup {in, query}
             C == {} \cup {in, query, key}
             D == {} \cup {in, query, key, value}
             E == {} \cup {in, attended}
             F == {} \cup {in, projected}
  <1>9. /\ in \in A /\ in \in B /\ in \in C /\ {query, key, value} \subseteq D
        /\ attended \in E /\ projected \in F /\ in \in F
    OBVIOUS
  <1>10. Fits(q8, FALSE, a, Known(A, j), Known(B, j))
    BY <1>1, <1>5, <1>9, LinearFits
  <1>11. Fits(q8, FALSE, b, Known(B, j), Known(C, j))
    BY <1>1, <1>5, <1>9, LinearFits
  <1>12. Fits(q8, FALSE, c, Known(C, j), Known(D, j))
    BY <1>1, <1>5, <1>9, LinearFits
  <1>13. Fits(q8, FALSE, d, Known(D, j), Known(E, j))
    BY <1>1, <1>6, <1>9, AttendFits
  <1>14. Fits(q8, FALSE, e, Known(E, j), Known(F, j))
    BY <1>1, <1>7, <1>9, LinearFits
  <1>15. Fits(q8, FALSE, f, Known(F, j), Known({} \cup {normalized}, j))
    BY <1>1, <1>8, <1>9, ResidualFits
  <1> HIDE DEF A, B, C, D, E, F
  <1>16. Runs(q8, FALSE, <<a, b, c, d, e, f>>, Known(A, j), Known({} \cup {normalized}, j))
    BY <1>10, <1>11, <1>12, <1>13, <1>14, <1>15, RunsSix
  <1>17. Runs(q8, FALSE, forward, Known({} \cup {normalized}, j), Known({} \cup {Encoded(l)}, j))
    <2>1. normalized[1] \notin CacheNames \cup {"hidden", "ffn"}
      BY <1>2 DEF CacheNames
    <2>2. Aside({}, 0) /\ 0 + 4 <= MostBuffers
      BY <1>3 DEF Aside
    <2>3. QED
      BY <2>1, <2>2, FeedForwardRuns
  <1>18. A = {in} /\ {} \cup {Encoded(l)} = {Encoded(l)}
    BY DEF A
  <1> HIDE DEF forward
  <1>19. Runs(q8, FALSE, Join(<<a, b, c, d, e, f>>, forward), Known({in}, j), Known({Encoded(l)}, j))
    BY <1>16, <1>17, <1>18, RunsJoin
  <1>20. QED
    BY <1>19 DEF in, query, key, value, attended, projected, normalized, a, b, c, d, e, f, forward

LEMMA CacheFacts ==
    /\ Aside(Cached(DecoderLayers), 2 * DecoderLayers)
    /\ 2 * DecoderLayers + 4 <= MostBuffers
    /\ \A l \in 1 .. DecoderLayers : Key(l) \in Cached(DecoderLayers) /\ Value(l) \in Cached(DecoderLayers)
    /\ \A v \in Cached(DecoderLayers) : Rank(v) = 0
  <1>1. DecoderLayers \in Nat /\ 2 * DecoderLayers \in Nat
    BY LayersAssumption
  <1>2. AtMost(Cached(DecoderLayers), 2 * DecoderLayers)
    BY <1>1, CachedFacts
  <1>3. \A v \in Cached(DecoderLayers) : v[1] \in CacheNames
    <2>1. \A k : Key(k)[1] \in CacheNames /\ Value(k)[1] \in CacheNames
      BY DEF Key, Value, CacheNames
    <2>2. QED
      BY <2>1 DEF Cached
  <1>4. \A l \in 1 .. DecoderLayers : Key(l) \in Cached(DecoderLayers) /\ Value(l) \in Cached(DecoderLayers)
    BY DEF Cached
  <1>5. \A v \in Cached(DecoderLayers) : Rank(v) = 0
    BY <1>3 DEF Rank, CacheNames
  <1>6. QED
    BY <1>1, <1>2, <1>3, <1>4, <1>5, MostFacts DEF Aside

LEMMA DecoderLayerRuns ==
    ASSUME NEW q8 \in BOOLEAN, NEW l \in 1 .. DecoderLayers
    PROVE  LET v(name) == <<name, l>>
               in == Decoded(l - 1)
               attention ==
                   <<Op("linear", <<in>>, v("update")), Op("linear", <<in>>, v("forget")),
                     EitherOp(q8, "ssru", <<v("update"), v("forget"), in>>, v("recurrent"),
                              {v("update"), v("forget"), in}),
                     Op("linear", <<v("recurrent")>>, v("query")),
                     EitherOp(q8, "attend", <<v("query"), Key(l), Value(l)>>, v("attended"),
                              {v("query")}),
                     EitherOp(q8, "linear", <<v("attended")>>, v("context"), {v("attended")}),
                     EitherOp(q8, "residual", <<v("context"), v("recurrent")>>, v("normalized"),
                              {v("context"), v("recurrent")})>>
               forward == IF q8 THEN Q8FeedForward(v("normalized"), Decoded(l), l)
                          ELSE FeedForward(v("normalized"), Decoded(l), l)
               rest == Cached(DecoderLayers)
           IN  Runs(q8, TRUE, Join(attention, forward),
                    Known(rest \cup {in}, l - 1), Known(rest \cup {Decoded(l)}, l))
  <1> DEFINE rest == Cached(DecoderLayers)
             n == 2 * DecoderLayers
             in == Decoded(l - 1)
             update == <<"update", l>>
             forget == <<"forget", l>>
             recurrent == <<"recurrent", l>>
             query == <<"query", l>>
             attended == <<"attended", l>>
             context == <<"context", l>>
             normalized == <<"normalized", l>>
             a == Op("linear", <<in>>, update)
             b == Op("linear", <<in>>, forget)
             c == EitherOp(q8, "ssru", <<update, forget, in>>, recurrent, {update, forget, in})
             d == Op("linear", <<recurrent>>, query)
             e == EitherOp(q8, "attend", <<query, Key(l), Value(l)>>, attended, {query})
             f == EitherOp(q8, "linear", <<attended>>, context, {attended})
             g == EitherOp(q8, "residual", <<context, recurrent>>, normalized, {context, recurrent})
             forward == IF q8 THEN Q8FeedForward(normalized, Decoded(l), l)
                        ELSE FeedForward(normalized, Decoded(l), l)
  <1>1. /\ IsOp(a, q8, "linear", <<in>>, update, {})
        /\ IsOp(b, q8, "linear", <<in>>, forget, {})
        /\ IsOp(c, q8, "ssru", <<update, forget, in>>, recurrent, {update, forget, in})
        /\ IsOp(d, q8, "linear", <<recurrent>>, query, {})
        /\ IsOp(e, q8, "attend", <<query, Key(l), Value(l)>>, attended, {query})
        /\ IsOp(f, q8, "linear", <<attended>>, context, {attended})
        /\ IsOp(g, q8, "residual", <<context, recurrent>>, normalized, {context, recurrent})
    <2> HIDE DEF in, update, forget, recurrent, query, attended, context, normalized
    <2>1. QED
      BY OpFacts
  <1>2. /\ l - 1 \in Nat /\ l \in Nat /\ DecoderLayers \in Nat /\ l # 0 /\ n \in Nat
        /\ 1 \in 1 .. 3 /\ 3 \in 1 .. 3 /\ 1 \in 1 .. 1 /\ 1 \in 1 .. 3 /\ 2 \in 2 .. 3
        /\ 2 \in 1 .. 2 /\ 2 \in 1 .. 3
    BY LayersAssumption
  <1>3. /\ in \notin {update, forget, recurrent, query, attended, context, normalized}
        /\ recurrent \notin {update, forget, query, attended, context}
        /\ query # attended /\ attended # context
        /\ normalized[1] = "normalized" /\ recurrent[2] = l
        /\ \A x \in {in, update, forget, recurrent, query, attended, context} : x[1] \notin CacheNames
    BY DEF Decoded, CacheNames
  <1>4. /\ Rank(in) \in {1, 3} /\ Rank(update) = 1 /\ Rank(forget) = 1
        /\ Rank(recurrent) = 2 /\ Rank(query) = 2
        /\ Rank(attended) = 3 /\ Rank(context) = 3 /\ Rank(normalized) = 3
        /\ Rank(Decoded(l)) = 3 /\ Rank(Key(l)) = 0 /\ Rank(Value(l)) = 0
    BY <1>2, RankFacts
  <1>5. /\ Aside(rest, n) /\ n + 4 <= MostBuffers
        /\ Key(l) \in rest /\ Value(l) \in rest
    BY CacheFacts
  <1> HIDE DEF rest, n, in, update, forget, recurrent, query, attended, context, normalized,
               a, b, c, d, e, f, g
  <1>6. \A F : F \subseteq {in, update, forget, recurrent, query, attended, context} =>
            rest \cap F = {}
    BY <1>3, <1>5 DEF Aside
  <1>7. \A X, x, y, z : X \subseteq {x, y, z} => HasRoom(rest \cup X)
    BY <1>5, RoomFor DEF Aside
  <1>8. /\ Moves(rest, {in}, {in, update}, update, {})
        /\ Moves(rest, {in, update}, {in, update, forget}, forget, {})
        /\ Moves(rest, {recurrent}, {recurrent, query}, query, {})
    BY <1>7 DEF Moves
  <1>9. Moves(rest, {in, update, forget}, {recurrent}, recurrent, {update, forget, in})
    BY <1>3, <1>6, <1>7 DEF Moves
  <1>10. Moves(rest, {recurrent, query}, {recurrent, attended}, attended, {query})
    BY <1>3, <1>6, <1>7 DEF Moves
  <1>11. Moves(rest, {recurrent, attended}, {recurrent, context}, context, {attended})
    BY <1>3, <1>6, <1>7 DEF Moves
  <1>12. Moves(rest, {recurrent, context}, {normalized}, normalized, {context, recurrent})
    BY <1>3, <1>6, <1>7 DEF Moves
  <1> DEFINE A == rest \cup {in}
             B == rest \cup {in, update}
             C == rest \cup {in, update, forget}
             D == rest \cup {recurrent}
             E == rest \cup {recurrent, query}
             F == rest \cup {recurrent, attended}
             G == rest \cup {recurrent, context}
             H == rest \cup {normalized}
  <1>13. /\ in \in A /\ in \in B /\ {update, forget, in} \subseteq C /\ recurrent \in D
         /\ {query, Key(l), Value(l)} \subseteq E /\ attended \in F
         /\ recurrent \in G /\ context \in G
    BY <1>5
  <1>14. Fits(q8, TRUE, a, Known(A, l - 1), Known(B, l - 1))
    <2>1. Rank(update) \in 1 .. Rank(in)
      BY <1>4
    <2>2. QED
      BY <1>1, <1>8, <1>13, <2>1, LinearFits
  <1>15. Fits(q8, TRUE, b, Known(B, l - 1), Known(C, l - 1))
    <2>1. Rank(forget) \in 1 .. Rank(in)
      BY <1>4
    <2>2. QED
      BY <1>1, <1>8, <1>13, <2>1, LinearFits
  <1>16. Fits(q8, TRUE, c, Known(C, l - 1), Known(D, l))
    <2>1. {Rank(update), Rank(forget), Rank(in)} \subseteq 1 .. 3
      BY <1>4
    <2>2. {update, forget, in} \subseteq rest \cup {in, update, forget}
      OBVIOUS
    <2> HIDE DEF C, D
    <2>3. IsOp(c, q8, "ssru", <<update, forget, in>>, recurrent, {update, forget, in})
      BY <1>1
    <2>4. Rank(recurrent) = 2 /\ recurrent[2] = l
      BY <1>3, <1>4
    <2>5. Fits(q8, TRUE, c, Known(rest \cup {in, update, forget}, l - 1),
               Known(rest \cup {recurrent}, l))
      BY <1>9, <2>1, <2>2, <2>3, <2>4, SsruFits
    <2>6. QED
      BY <2>5 DEF C, D
  <1>17. Fits(q8, TRUE, d, Known(D, l), Known(E, l))
    <2>1. Rank(query) \in 1 .. Rank(recurrent) /\ recurrent \in rest \cup {recurrent}
      BY <1>4
    <2>2. QED
      BY <1>1, <1>8, <1>13, <2>1, LinearFits
  <1>18. Fits(q8, TRUE, e, Known(E, l), Known(F, l))
    <2>1. /\ Rank(attended) = 3 /\ Rank(query) \in 2 .. 3 /\ Rank(Key(l)) = 0 /\ Rank(Value(l)) = 0
          /\ {query, Key(l), Value(l)} \subseteq rest \cup {recurrent, query}
      BY <1>4, <1>5
    <2>2. IsOp(e, q8, "attend", <<query, Key(l), Value(l)>>, attended, {query})
      BY <1>1
    <2>3. QED
      BY <1>10, <2>1, <2>2, AttendFits
  <1>19. Fits(q8, TRUE, f, Known(F, l), Known(G, l))
    <2>1. Rank(context) \in 1 .. Rank(attended)
      BY <1>4
    <2>2. QED
      BY <1>1, <1>11, <1>13, <2>1, LinearFits
  <1>20. Fits(q8, TRUE, g, Known(G, l), Known(H, l))
    BY <1>1, <1>2, <1>4, <1>12, <1>13, ResidualFits
  <1> HIDE DEF B, C, D, E, F, G
  <1>21. Runs(q8, TRUE, <<a, b, c, d, e, f, g>>, Known(A, l - 1), Known(H, l))
    <2> HIDE DEF A, H
    <2>1. QED
      BY <1>14, <1>15, <1>16, <1>17, <1>18, <1>19, <1>20, RunsSeven
  <1>22. Runs(q8, TRUE, forward, Known(H, l), Known(rest \cup {Decoded(l)}, l))
    <2>1. normalized[1] \notin CacheNames \cup {"hidden", "ffn"}
      BY <1>3 DEF CacheNames
    <2>2. QED
      BY <2>1, <1>2, <1>4, <1>5, FeedForwardRuns
  <1> HIDE DEF forward
  <1>23. Runs(q8, TRUE, Join(<<a, b, c, d, e, f, g>>, forward), Known(A, l - 1),
              Known(rest \cup {Decoded(l)}, l))
    BY <1>21, <1>22, RunsJoin
  <1>24. QED
    BY <1>23 DEF rest, in, update, forget, recurrent, query, attended, context, normalized,
                 a, b, c, d, e, f, g, forward

\* What is known when l layers have their cross caches: the Q8 engine recycles the
\* output of the encoder with the last.
AfterCaches(l) ==
    Known(Cached(l) \cup (IF l = DecoderLayers THEN {} ELSE {Encoded(EncoderLayers)}), 0)

LEMMA CrossRuns ==
    ASSUME NEW q8 \in BOOLEAN, NEW l \in 1 .. DecoderLayers
    PROVE  Runs(q8, FALSE,
                <<Op("linear", <<Encoded(EncoderLayers)>>, Key(l)),
                  EitherOp(q8, "linear", <<Encoded(EncoderLayers)>>, Value(l),
                           IF l = DecoderLayers THEN {Encoded(EncoderLayers)} ELSE {})>>,
                AfterCaches(l - 1), AfterCaches(l))
  <1> DEFINE rest == Cached(l - 1)
             n == 2 * (l - 1)
             in == Encoded(EncoderLayers)
             key == Key(l)
             value == Value(l)
             F == IF l = DecoderLayers THEN {in} ELSE {}
             Y == ({in, key} \ F) \cup {value}
             a == Op("linear", <<in>>, key)
             b == EitherOp(q8, "linear", <<in>>, value, F)
  <1>1. IsOp(a, q8, "linear", <<in>>, key, {}) /\ IsOp(b, q8, "linear", <<in>>, value, F)
    <2> HIDE DEF in, key, value, F
    <2>1. QED
      BY OpFacts
  <1>2. l - 1 \in Nat /\ l \in Nat \ {0} /\ n \in Nat /\ n + 4 <= 2 * DecoderLayers + 4 /\ l - 1 # DecoderLayers
    BY LayersAssumption
  <1>3. AtMost(rest, n)
    BY <1>2, CachedFacts
  <1>4. n + 4 <= MostBuffers
    BY <1>2, MostFacts, LayersAssumption
  <1>5. in \notin rest /\ in # key /\ in # value
    BY DEF Cached, Key, Value, Encoded
  <1>6. AfterCaches(l - 1) = Known(rest \cup {in}, 0)
    BY <1>2 DEF AfterCaches
  <1>7. Cached(l) = (rest \cup {key}) \cup {value}
    BY <1>2, CachedFacts
  <1>8. AfterCaches(l) = Known(rest \cup Y, 0)
    <2>1. CASE l = DecoderLayers
      <3>1. Cached(l) \cup {} = rest \cup Y
        BY <2>1, <1>5, <1>7
      <3>2. AfterCaches(l) = Known(Cached(l) \cup {}, 0)
        BY <2>1 DEF AfterCaches
      <3>3. QED
        BY <3>1, <3>2
    <2>2. CASE l # DecoderLayers
      <3>1. Cached(l) \cup {in} = rest \cup Y
        BY <2>2, <1>7
      <3>2. AfterCaches(l) = Known(Cached(l) \cup {in}, 0)
        BY <2>2 DEF AfterCaches
      <3>3. QED
        BY <3>1, <3>2
    <2>3. QED
      BY <2>1, <2>2
  <1>9. F \subseteq {in, key} /\ rest \cap F = {}
    BY <1>5
  <1> HIDE DEF rest, n, in, key, value, F, a, b
  <1>10. \A X, x, y, z : X \subseteq {x, y, z} => HasRoom(rest \cup X)
    BY <1>2, <1>3, <1>4, RoomFor
  <1>11. Moves(rest, {in}, {in, key}, key, {})
    BY <1>10 DEF Moves
  <1>12. Moves(rest, {in, key}, Y, value, F)
    BY <1>9, <1>10 DEF Moves
  <1> HIDE DEF Y
  <1>13. in \in rest \cup {in} /\ in \in rest \cup {in, key}
    OBVIOUS
  <1>14. Fits(q8, FALSE, a, Known(rest \cup {in}, 0), Known(rest \cup {in, key}, 0))
    BY <1>1, <1>11, <1>13, LinearFits
  <1>15. Fits(q8, FALSE, b, Known(rest \cup {in, key}, 0), Known(rest \cup Y, 0))
    BY <1>1, <1>12, <1>13, LinearFits
  <1>16. Runs(q8, FALSE, <<a, b>>, AfterCaches(l - 1), AfterCaches(l))
    BY <1>6, <1>8, <1>14, <1>15, RunsTwo
  <1>17. QED
    BY <1>16 DEF a, b, in, key, value, F

EncodePlan(q8) == IF q8 THEN Q8Encode ELSE Encode
DecodePlan(q8) == IF q8 THEN Q8DecodeStep ELSE DecodeStep

\* Encoding gives every cross cache.
LEMMA EncodeRuns ==
    ASSUME NEW q8 \in BOOLEAN
    PROVE  Runs(q8, FALSE, EncodePlan(q8), Known({}, 0), Known(Cached(DecoderLayers), 0))
  <1> DEFINE first == <<Op("embedding", <<>>, Encoded(0))>>
             attention(l) ==
                 LET v(name) == <<name, l>>
                     in == Encoded(l - 1)
                 IN  <<Op("linear", <<in>>, v("query")), Op("linear", <<in>>, v("key")),
                       Op("linear", <<in>>, v("value")),
                       EitherOp(q8, "attend", <<v("query"), v("key"), v("value")>>, v("attended"),
                                {v("query"), v("key"), v("value")}),
                       EitherOp(q8, "linear", <<v("attended")>>, v("projected"), {v("attended")}),
                       EitherOp(q8, "residual", <<v("projected"), in>>, v("normalized"),
                                {v("projected"), in})>>
             forward(l) == IF q8 THEN Q8FeedForward(<<"normalized", l>>, Encoded(l), l)
                           ELSE FeedForward(<<"normalized", l>>, Encoded(l), l)
             cross(l) ==
                 <<Op("linear", <<Encoded(EncoderLayers)>>, Key(l)),
                   EitherOp(q8, "linear", <<Encoded(EncoderLayers)>>, Value(l),
                            IF l = DecoderLayers THEN {Encoded(EncoderLayers)} ELSE {})>>
             f == [l \in 1 .. EncoderLayers |-> Join(attention(l), forward(l))]
             g == [l \in 1 .. DecoderLayers |-> cross(l)]
             known == [l \in Nat |-> Known({Encoded(l)}, 0)]
             after == [l \in Nat |-> AfterCaches(l)]
  <1>1. EncodePlan(q8) = Join(Join(first, FlattenSeq(f)), FlattenSeq(g))
    <2>1. CASE q8
      BY <2>1 DEF EncodePlan, Q8Encode, Layers, Join, EitherOp
    <2>2. CASE ~q8
      BY <2>2 DEF EncodePlan, Encode, Layers, Join, EitherOp
    <2>3. QED
      BY <2>1, <2>2
  <1>2. Runs(q8, FALSE, first, Known({}, 0), Known({Encoded(0)}, 0))
    <2> DEFINE op == Op("embedding", <<>>, Encoded(0))
    <2>1. IsOp(op, q8, "embedding", <<>>, Encoded(0), {})
      BY OpFacts
    <2>2. HasRoom({})
      BY NoneAtMost, MostFacts, Finite!FS_CardinalityType DEF AtMost, HasRoom
    <2>3. Fits(q8, FALSE, op, Known({}, 0), Known({} \cup {Encoded(0)}, 0))
      <3> HIDE DEF op
      <3>1. QED
        BY <2>1, <2>2, FirstFits
    <2>4. {} \cup {Encoded(0)} = {Encoded(0)}
      OBVIOUS
    <2>5. Fits(q8, FALSE, op, Known({}, 0), Known({Encoded(0)}, 0))
      BY <2>3, <2>4
    <2> HIDE DEF op
    <2>6. Runs(q8, FALSE, <<op>>, Known({}, 0), Known({Encoded(0)}, 0))
      BY <2>5, RunsOne
    <2>7. QED
      BY <2>6 DEF op
  <1>3. \A l \in 1 .. EncoderLayers :
            Runs(q8, FALSE, Join(attention(l), forward(l)), Known({Encoded(l - 1)}, 0),
                 Known({Encoded(l)}, 0))
    <2>1. \A l \in 1 .. EncoderLayers : l \in Nat
      BY LayersAssumption
    <2>2. QED
      BY <2>1, EncoderLayerRuns
  <1>4. \A l \in 1 .. DecoderLayers : Runs(q8, FALSE, cross(l), AfterCaches(l - 1), AfterCaches(l))
    BY CrossRuns
  <1> HIDE DEF attention, forward, cross, first
  <1>5. EncoderLayers \in Nat /\ DecoderLayers \in Nat /\ DecoderLayers # 0
    BY LayersAssumption
  <1>6. f = [l \in 1 .. EncoderLayers |-> f[l]] /\ g = [l \in 1 .. DecoderLayers |-> g[l]]
    OBVIOUS
  <1>7. \A l \in 1 .. EncoderLayers : Runs(q8, FALSE, f[l], known[l - 1], known[l])
    <2>1. \A l \in 1 .. EncoderLayers : l - 1 \in Nat /\ l \in Nat
      BY <1>5
    <2>2. QED
      BY <2>1, <1>3
  <1>8. \A l \in 1 .. DecoderLayers : Runs(q8, FALSE, g[l], after[l - 1], after[l])
    <2>1. \A l \in 1 .. DecoderLayers : l - 1 \in Nat /\ l \in Nat
      BY <1>5
    <2>2. QED
      BY <2>1, <1>4
  <1>9. known[0] = Known({Encoded(0)}, 0) /\ known[EncoderLayers] = Known({Encoded(EncoderLayers)}, 0)
    BY <1>5
  <1>10. /\ after[0] = Known({Encoded(EncoderLayers)}, 0)
         /\ after[DecoderLayers] = Known(Cached(DecoderLayers), 0)
    <2>1. after[0] = AfterCaches(0) /\ after[DecoderLayers] = AfterCaches(DecoderLayers)
      BY <1>5
    <2>2. AfterCaches(0) = Known({Encoded(EncoderLayers)}, 0)
      BY <1>5, CachedFacts DEF AfterCaches
    <2>3. AfterCaches(DecoderLayers) = Known(Cached(DecoderLayers), 0)
      BY DEF AfterCaches
    <2>4. QED
      BY <2>1, <2>2, <2>3
  <1> HIDE DEF f, g, known, after
  <1>11. Runs(q8, FALSE, FlattenSeq(f), Known({Encoded(0)}, 0), Known({Encoded(EncoderLayers)}, 0))
    BY <1>5, <1>6, <1>7, <1>9, RunsLayers
  <1>12. Runs(q8, FALSE, FlattenSeq(g), Known({Encoded(EncoderLayers)}, 0),
              Known(Cached(DecoderLayers), 0))
    BY <1>5, <1>6, <1>8, <1>10, RunsLayers
  <1>13. QED
    BY <1>1, <1>2, <1>11, <1>12, RunsJoin

\* A step gives the last output, and moves the state of every layer.
LEMMA DecodeRuns ==
    ASSUME NEW q8 \in BOOLEAN
    PROVE  Runs(q8, TRUE, DecodePlan(q8), Known(Cached(DecoderLayers), 0),
                Known(Cached(DecoderLayers) \cup {Decoded(DecoderLayers)}, DecoderLayers))
  <1> DEFINE rest == Cached(DecoderLayers)
             first == <<Op("input", <<>>, Decoded(0))>>
             attention(l) ==
                 LET v(name) == <<name, l>>
                     in == Decoded(l - 1)
                 IN  <<Op("linear", <<in>>, v("update")), Op("linear", <<in>>, v("forget")),
                       EitherOp(q8, "ssru", <<v("update"), v("forget"), in>>, v("recurrent"),
                                {v("update"), v("forget"), in}),
                       Op("linear", <<v("recurrent")>>, v("query")),
                       EitherOp(q8, "attend", <<v("query"), Key(l), Value(l)>>, v("attended"),
                                {v("query")}),
                       EitherOp(q8, "linear", <<v("attended")>>, v("context"), {v("attended")}),
                       EitherOp(q8, "residual", <<v("context"), v("recurrent")>>, v("normalized"),
                                {v("context"), v("recurrent")})>>
             forward(l) == IF q8 THEN Q8FeedForward(<<"normalized", l>>, Decoded(l), l)
                           ELSE FeedForward(<<"normalized", l>>, Decoded(l), l)
             f == [l \in 1 .. DecoderLayers |-> Join(attention(l), forward(l))]
             known == [l \in Nat |-> Known(rest \cup {Decoded(l)}, l)]
  <1>1. DecodePlan(q8) = Join(first, FlattenSeq(f))
    <2>1. CASE q8
      BY <2>1 DEF DecodePlan, Q8DecodeStep, Layers, Join, EitherOp
    <2>2. CASE ~q8
      BY <2>2 DEF DecodePlan, DecodeStep, Layers, Join, EitherOp
    <2>3. QED
      BY <2>1, <2>2
  <1>2. Runs(q8, TRUE, first, Known(rest, 0), Known(rest \cup {Decoded(0)}, 0))
    <2> DEFINE op == Op("input", <<>>, Decoded(0))
    <2>1. IsOp(op, q8, "input", <<>>, Decoded(0), {})
      BY OpFacts
    <2>2. HasRoom(rest)
      <3>1. HasRoom(rest \cup {})
        BY CacheFacts, RoomFor DEF Aside
      <3>2. rest \cup {} = rest
        OBVIOUS
      <3>3. QED
        BY <3>1, <3>2
    <2>3. Rank(Decoded(0)) = 1
      BY RankFacts
    <2> HIDE DEF op, rest
    <2>4. Fits(q8, TRUE, op, Known(rest, 0), Known(rest \cup {Decoded(0)}, 0))
      BY <2>1, <2>2, <2>3, FirstFits
    <2>5. Runs(q8, TRUE, <<op>>, Known(rest, 0), Known(rest \cup {Decoded(0)}, 0))
      BY <2>4, RunsOne
    <2>6. QED
      BY <2>5 DEF op
  <1>3. \A l \in 1 .. DecoderLayers :
            Runs(q8, TRUE, Join(attention(l), forward(l)), Known(rest \cup {Decoded(l - 1)}, l - 1),
                 Known(rest \cup {Decoded(l)}, l))
    BY DecoderLayerRuns
  <1> HIDE DEF attention, forward, first
  <1>4. DecoderLayers \in Nat
    BY LayersAssumption
  <1>5. f = [l \in 1 .. DecoderLayers |-> f[l]]
    OBVIOUS
  <1>6. \A l \in 1 .. DecoderLayers : Runs(q8, TRUE, f[l], known[l - 1], known[l])
    <2>1. \A l \in 1 .. DecoderLayers : l - 1 \in Nat /\ l \in Nat
      BY <1>4
    <2> HIDE DEF rest
    <2>2. QED
      BY <2>1, <1>3
  <1>7. /\ known[0] = Known(rest \cup {Decoded(0)}, 0)
        /\ known[DecoderLayers] = Known(rest \cup {Decoded(DecoderLayers)}, DecoderLayers)
    BY <1>4
  <1> HIDE DEF f, known, rest
  <1>8. Runs(q8, TRUE, FlattenSeq(f), Known(rest \cup {Decoded(0)}, 0),
             Known(rest \cup {Decoded(DecoderLayers)}, DecoderLayers))
    BY <1>4, <1>5, <1>6, <1>7, RunsLayers
  <1>9. QED
    BY <1>1, <1>2, <1>8, RunsJoin DEF rest

-----------------------------------------------------------------------------
(* What the buffers hold.                                                     *)

Source(r) == {<<"source", r, p>> : p \in 1 .. Lengths[r]}
Tokens(r, n) == {<<"token", r, i>> : i \in 1 .. n}
Newest(r) == IF step = 0 THEN {} ELSE {<<"token", r, step>>}
Own(r) == Source(r) \cup Tokens(r, step)

Least(rank, r) ==
    IF rank = 1 THEN Newest(r) ELSE IF rank = 2 THEN Tokens(r, step) ELSE Own(r)

Cells(positions) == (DOMAIN request) \X positions

\* Of a position of the source, this token and others of the row but no padding:
\* what padding has is never read.
OfSource(buffer) ==
    /\ DOMAIN buffer = Cells(1 .. SourceLength)
    /\ \A r \in DOMAIN request : \A p \in 1 .. SourceLength :
           /\ <<"source", r, p>> \in buffer[<<r, p>>]
           /\ buffer[<<r, p>>] \subseteq Source(r) \cup {<<"source", r, p>>}

OfTokens(buffer, rank) ==
    /\ DOMAIN buffer = Cells({1})
    /\ \A r \in DOMAIN request :
           ~finished[r] => Least(rank, r) \subseteq buffer[<<r, 1>>] /\ buffer[<<r, 1>>] \subseteq Own(r)

IsKnown(v, decoding) ==
    IF decoding /\ Rank(v) # 0 THEN OfTokens(buffers[v], Rank(v)) ELSE OfSource(buffers[v])

StateMoved(state, moved) ==
    /\ DOMAIN state = DOMAIN request
    /\ \A r \in DOMAIN request :
           ~finished[r] =>
               /\ state[r] \subseteq Own(r)
               /\ Tokens(r, IF moved THEN step ELSE step - 1) \subseteq state[r]

StatesMoved(all, passed) ==
    /\ DOMAIN all = 1 .. DecoderLayers
    /\ \A l \in 1 .. DecoderLayers :
           IF l <= passed THEN StateMoved(all[l], TRUE) ELSE StateMoved(all[l], FALSE)

PreviousIsNewest == \A r \in DOMAIN request : ~finished[r] => previous[r] = Newest(r)

RowsFit == \A r \in DOMAIN request : Lengths[r] \in Nat /\ 1 .. Lengths[r] \subseteq 1 .. SourceLength

LEMMA ResultFacts ==
    ASSUME NEW op
    PROVE  /\ op.does = "embedding" => Result(op) = Embedded
           /\ op.does = "input" => Result(op) = DecoderInput
           /\ op.does = "linear" => Result(op) = buffers[op.reads[1]]
           /\ op.does = "attend" =>
                  Result(op) = Attention(buffers[op.reads[1]], buffers[op.reads[2]], buffers[op.reads[3]])
           /\ op.does = "residual" =>
                  Result(op) = ResidualLayerNorm(buffers[op.reads[1]], buffers[op.reads[2]])
           /\ op.does = "ssru" =>
                  Result(op) =
                      LET state == SsruState(buffers[op.reads[1]], buffers[op.reads[2]], states[op.makes[2]])
                      IN  ResidualLayerNorm([c \in DOMAIN buffers[op.reads[3]] |-> state[c[1]]],
                                            buffers[op.reads[3]])
  BY DEF Result, Matmul

LEMMA AttentionFacts ==
    ASSUME NEW query, NEW key, NEW value, NEW P, DOMAIN query = Cells(P), RowsFit,
           OfSource(key), OfSource(value), NEW r \in DOMAIN request, NEW p \in P
    PROVE  /\ DOMAIN Attention(query, key, value) = Cells(P)
           /\ Attention(query, key, value)[<<r, p>>] = query[<<r, p>>] \cup Source(r)
  <1> DEFINE U == UNION {key[<<r, j>>] \cup value[<<r, j>>] : j \in 1 .. Lengths[r]}
  <1>1. \A j \in 1 .. Lengths[r] :
            /\ <<"source", r, j>> \in key[<<r, j>>]
            /\ key[<<r, j>>] \subseteq Source(r) /\ value[<<r, j>>] \subseteq Source(r)
    <2> TAKE j \in 1 .. Lengths[r]
    <2>1. j \in 1 .. SourceLength
      BY DEF RowsFit
    <2>2. <<"source", r, j>> \in Source(r)
      BY DEF Source
    <2>3. QED
      BY <2>1, <2>2 DEF OfSource
  <1>2. U \subseteq Source(r)
    BY <1>1
  <1>3. Source(r) \subseteq U
    BY <1>1 DEF Source
  <1>4. DOMAIN Attention(query, key, value) = Cells(P)
    BY DEF Attention
  <1>5. <<r, p>> \in DOMAIN query /\ <<r, p>>[1] = r
    BY DEF Cells
  <1>6. Attention(query, key, value)[<<r, p>>] = query[<<r, p>>] \cup U
    BY <1>5 DEF Attention
  <1>7. QED
    BY <1>2, <1>3, <1>4, <1>6

LEMMA EncodedIsKnown ==
    ASSUME NEW op, NEW s, NEW t, FitsEncode(op, s, t), RowsFit,
           \A v \in s.held : OfSource(buffers[v])
    PROVE  OfSource(Result(op))
  <1>1. CASE op.does = "embedding"
    <2>1. Result(op) = Embedded
      BY <1>1, ResultFacts
    <2>2. DOMAIN Embedded = Cells(1 .. SourceLength)
      BY DEF Embedded, Cells
    <2>3. \A r \in DOMAIN request : \A p \in 1 .. SourceLength :
              Embedded[<<r, p>>] = {<<"source", r, p>>}
      BY DEF Embedded, Cells
    <2>4. QED
      BY <2>1, <2>2, <2>3 DEF OfSource
  <1>2. CASE op.does = "linear"
    <2>1. Result(op) = buffers[op.reads[1]]
      BY <1>2, ResultFacts
    <2>2. ReadsFrom(op, s.held, 1) /\ 1 \in 1 .. 1
      BY <1>2 DEF FitsEncode
    <2>3. QED
      BY <2>1, <2>2 DEF ReadsFrom
  <1>3. CASE op.does = "residual"
    <2> DEFINE a == buffers[op.reads[1]]
               b == buffers[op.reads[2]]
    <2>1. Result(op) = ResidualLayerNorm(a, b)
      BY <1>3, ResultFacts
    <2>2. OfSource(a) /\ OfSource(b)
      <3>1. ReadsFrom(op, s.held, 2) /\ 1 \in 1 .. 2 /\ 2 \in 1 .. 2
        BY <1>3 DEF FitsEncode
      <3>2. QED
        BY <3>1 DEF ReadsFrom
    <2> HIDE DEF a, b
    <2>3. DOMAIN ResidualLayerNorm(a, b) = Cells(1 .. SourceLength)
      BY <2>2 DEF ResidualLayerNorm, OfSource
    <2>4. \A r \in DOMAIN request : \A p \in 1 .. SourceLength :
              ResidualLayerNorm(a, b)[<<r, p>>] = a[<<r, p>>] \cup b[<<r, p>>]
      BY <2>2 DEF ResidualLayerNorm, OfSource, Cells
    <2> DEFINE c == ResidualLayerNorm(a, b)
    <2> HIDE DEF c
    <2>5. OfSource(c)
      BY <2>2, <2>3, <2>4 DEF OfSource, c
    <2>6. QED
      BY <2>1, <2>5 DEF c
  <1>4. CASE op.does = "attend"
    <2> DEFINE a == buffers[op.reads[1]]
               b == buffers[op.reads[2]]
               c == buffers[op.reads[3]]
               d == Attention(a, b, c)
    <2>1. Result(op) = d
      BY <1>4, ResultFacts
    <2>2. OfSource(a) /\ OfSource(b) /\ OfSource(c)
      <3>1. ReadsFrom(op, s.held, 3) /\ 1 \in 1 .. 3 /\ 2 \in 1 .. 3 /\ 3 \in 1 .. 3
        BY <1>4 DEF FitsEncode
      <3>2. QED
        BY <3>1 DEF ReadsFrom
    <2> HIDE DEF a, b, c
    <2>3. \A r \in DOMAIN request : \A p \in 1 .. SourceLength :
              d[<<r, p>>] = a[<<r, p>>] \cup Source(r)
      <3> DEFINE P == 1 .. SourceLength
      <3>1. DOMAIN a = Cells(P)
        BY <2>2 DEF OfSource
      <3> HIDE DEF P
      <3>2. \A r \in DOMAIN request : \A p \in P : d[<<r, p>>] = a[<<r, p>>] \cup Source(r)
        BY <2>2, <3>1, AttentionFacts
      <3>3. QED
        BY <3>2 DEF P
    <2>4. DOMAIN d = Cells(1 .. SourceLength)
      BY <2>2 DEF Attention, OfSource
    <2> HIDE DEF d
    <2>5. OfSource(d)
      BY <2>2, <2>3, <2>4 DEF OfSource
    <2>6. QED
      BY <2>1, <2>5
  <1>5. QED
    BY <1>1, <1>2, <1>3, <1>4 DEF FitsEncode

LEMMA LeastFacts ==
    ASSUME step \in Nat, NEW r
    PROVE  /\ Newest(r) \subseteq Tokens(r, step)
           /\ Tokens(r, step) = Tokens(r, step - 1) \cup Newest(r)
           /\ \A k \in 1 .. 3 : Newest(r) \subseteq Least(k, r) /\ Least(k, r) \subseteq Own(r)
           /\ \A k \in 2 .. 3 : Tokens(r, step) \subseteq Least(k, r)
           /\ \A k \in 1 .. 3 : \A j \in 1 .. k : Least(j, r) \subseteq Least(k, r)
           /\ Least(3, r) = Own(r)
  <1>1. Newest(r) \subseteq Tokens(r, step)
    BY DEF Newest, Tokens
  <1>2. Tokens(r, step) \subseteq Tokens(r, step - 1) \cup Newest(r)
    <2>1. \A i \in 1 .. step : i \in 1 .. step - 1 \/ (i = step /\ step # 0)
      OBVIOUS
    <2>2. QED
      BY <2>1 DEF Newest, Tokens
  <1>3. Tokens(r, step - 1) \subseteq Tokens(r, step)
    <2>1. \A i \in 1 .. step - 1 : i \in 1 .. step
      OBVIOUS
    <2>2. QED
      BY <2>1 DEF Tokens
  <1>4. Tokens(r, step) \subseteq Own(r)
    BY DEF Own
  <1>5. Least(1, r) = Newest(r) /\ Least(2, r) = Tokens(r, step) /\ Least(3, r) = Own(r)
    BY DEF Least
  <1>6. \A k \in 1 .. 3 : k = 1 \/ k = 2 \/ k = 3
    OBVIOUS
  <1>7. \A k \in 1 .. 3 : Newest(r) \subseteq Least(k, r) /\ Least(k, r) \subseteq Own(r)
    BY <1>1, <1>4, <1>5, <1>6
  <1>8. \A k \in 2 .. 3 : k = 2 \/ k = 3
    OBVIOUS
  <1>9. \A k \in 2 .. 3 : Tokens(r, step) \subseteq Least(k, r)
    BY <1>4, <1>5, <1>8
  <1>10. \A k \in 1 .. 3 : \A j \in 1 .. k : Least(j, r) \subseteq Least(k, r)
    <2>1. \A k \in 1 .. 3 : \A j \in 1 .. k :
              \/ k = j \/ (k = 2 /\ j = 1) \/ (k = 3 /\ j = 1) \/ (k = 3 /\ j = 2)
      OBVIOUS
    <2>2. QED
      BY <1>1, <1>4, <1>5, <2>1
  <1>11. QED
    BY <1>1, <1>2, <1>3, <1>5, <1>7, <1>9, <1>10

\* The tokens that a result needs, that it may have, and where they are.
LEMMA TokensFrom ==
    ASSUME NEW buffer, NEW rank, OfTokens(buffer, rank), NEW r \in DOMAIN request, ~finished[r]
    PROVE  /\ DOMAIN buffer = Cells({1})
           /\ Least(rank, r) \subseteq buffer[<<r, 1>>] /\ buffer[<<r, 1>>] \subseteq Own(r)
  BY DEF OfTokens

LEMMA WeakerTokens ==
    ASSUME step \in Nat, NEW buffer, NEW k \in 1 .. 3, OfTokens(buffer, k), NEW j \in 1 .. k
    PROVE  OfTokens(buffer, j)
  <1>1. \A r : Least(j, r) \subseteq Least(k, r)
    BY LeastFacts
  <1>2. QED
    BY <1>1 DEF OfTokens

LEMMA InputIsKnown ==
    ASSUME step \in Nat, PreviousIsNewest
    PROVE  OfTokens(DecoderInput, 1)
  <1>1. DOMAIN DecoderInput = Cells({1})
    BY DEF DecoderInput, Cells
  <1>2. \A r \in DOMAIN request : DecoderInput[<<r, 1>>] = previous[r]
    BY DEF DecoderInput
  <1>3. \A r : Least(1, r) = Newest(r) /\ Newest(r) \subseteq Own(r)
    BY LeastFacts DEF Least, Own
  <1>4. QED
    BY <1>1, <1>2, <1>3 DEF OfTokens, PreviousIsNewest

LEMMA ResidualIsKnown ==
    ASSUME step \in Nat, NEW a, OfTokens(a, 3), NEW b, NEW k \in 1 .. 3, OfTokens(b, k)
    PROVE  OfTokens(ResidualLayerNorm(a, b), 3)
  <1> DEFINE c == ResidualLayerNorm(a, b)
  <1>1. DOMAIN c = Cells({1})
    BY DEF ResidualLayerNorm, OfTokens
  <1>2. \A r \in DOMAIN request : c[<<r, 1>>] = a[<<r, 1>>] \cup b[<<r, 1>>]
    BY DEF ResidualLayerNorm, OfTokens, Cells
  <1> HIDE DEF c
  <1>3. ASSUME NEW r \in DOMAIN request, ~finished[r]
        PROVE  Least(3, r) \subseteq c[<<r, 1>>] /\ c[<<r, 1>>] \subseteq Own(r)
    BY <1>2, <1>3, TokensFrom
  <1>4. OfTokens(c, 3)
    BY <1>1, <1>3 DEF OfTokens
  <1>5. QED
    BY <1>4 DEF c

LEMMA AttendedIsKnown ==
    ASSUME step \in Nat, RowsFit, NEW a, NEW k \in 2 .. 3, OfTokens(a, k),
           NEW b, OfSource(b), NEW c, OfSource(c)
    PROVE  OfTokens(Attention(a, b, c), 3)
  <1> DEFINE d == Attention(a, b, c)
             P == {1}
  <1>1. DOMAIN a = Cells(P)
    BY DEF OfTokens
  <1>2. 1 \in P
    OBVIOUS
  <1>3. DOMAIN d = Cells(P)
    BY <1>1 DEF Attention
  <1> HIDE DEF P, d
  <1>4. \A r \in DOMAIN request : d[<<r, 1>>] = a[<<r, 1>>] \cup Source(r)
    BY <1>1, <1>2, AttentionFacts DEF d
  <1>5. ASSUME NEW r \in DOMAIN request, ~finished[r]
        PROVE  Least(3, r) \subseteq d[<<r, 1>>] /\ d[<<r, 1>>] \subseteq Own(r)
    <2>1. Tokens(r, step) \subseteq a[<<r, 1>>] /\ a[<<r, 1>>] \subseteq Own(r)
      BY <1>5, TokensFrom, LeastFacts
    <2>2. Own(r) = Source(r) \cup Tokens(r, step) /\ Least(3, r) = Own(r)
      BY LeastFacts DEF Own
    <2>3. QED
      BY <1>4, <2>1, <2>2
  <1>6. OfTokens(d, 3)
    BY <1>3, <1>5 DEF OfTokens, P
  <1>7. QED
    BY <1>6 DEF d

LEMMA StateIsMoved ==
    ASSUME step \in Nat, NEW a, NEW i \in 1 .. 3, OfTokens(a, i),
           NEW b, NEW j \in 1 .. 3, OfTokens(b, j), NEW state, StateMoved(state, FALSE)
    PROVE  StateMoved(SsruState(a, b, state), TRUE)
  <1> DEFINE s == SsruState(a, b, state)
  <1>1. DOMAIN s = DOMAIN request
    BY DEF SsruState
  <1>2. \A r \in DOMAIN request : s[r] = b[<<r, 1>>] \cup a[<<r, 1>>] \cup state[r]
    BY DEF SsruState
  <1> HIDE DEF s
  <1>3. ASSUME NEW r \in DOMAIN request, ~finished[r]
        PROVE  s[r] \subseteq Own(r) /\ Tokens(r, step) \subseteq s[r]
    <2>1. Newest(r) \subseteq a[<<r, 1>>] /\ a[<<r, 1>>] \subseteq Own(r) /\ b[<<r, 1>>] \subseteq Own(r)
      BY <1>3, TokensFrom, LeastFacts
    <2>2. state[r] \subseteq Own(r) /\ Tokens(r, step - 1) \subseteq state[r]
      BY <1>3 DEF StateMoved
    <2>3. Tokens(r, step) = Tokens(r, step - 1) \cup Newest(r)
      BY LeastFacts
    <2>4. QED
      BY <1>2, <2>1, <2>2, <2>3
  <1>4. StateMoved(s, TRUE)
    BY <1>1, <1>3 DEF StateMoved
  <1>5. QED
    BY <1>4 DEF s

LEMMA RecurrentIsKnown ==
    ASSUME step \in Nat, NEW state, StateMoved(state, TRUE),
           NEW b, NEW k \in 1 .. 3, OfTokens(b, k)
    PROVE  OfTokens(ResidualLayerNorm([c \in DOMAIN b |-> state[c[1]]], b), 2)
  <1> DEFINE a == [c \in DOMAIN b |-> state[c[1]]]
             d == ResidualLayerNorm(a, b)
  <1>1. DOMAIN b = Cells({1})
    BY DEF OfTokens
  <1>2. DOMAIN d = Cells({1})
    BY <1>1 DEF ResidualLayerNorm
  <1>3. \A r \in DOMAIN request : <<r, 1>> \in DOMAIN b /\ <<r, 1>>[1] = r
    BY <1>1 DEF Cells
  <1>4. \A r \in DOMAIN request : a[<<r, 1>>] = state[r]
    BY <1>3
  <1>5. DOMAIN a = DOMAIN b
    OBVIOUS
  <1> HIDE DEF a
  <1>6. \A r \in DOMAIN request : d[<<r, 1>>] = state[r] \cup b[<<r, 1>>]
    BY <1>3, <1>4, <1>5 DEF ResidualLayerNorm
  <1> HIDE DEF d
  <1>7. ASSUME NEW r \in DOMAIN request, ~finished[r]
        PROVE  Least(2, r) \subseteq d[<<r, 1>>] /\ d[<<r, 1>>] \subseteq Own(r)
    <2>1. b[<<r, 1>>] \subseteq Own(r)
      BY <1>7, TokensFrom
    <2>2. state[r] \subseteq Own(r) /\ Tokens(r, step) \subseteq state[r]
      BY <1>7 DEF StateMoved
    <2>3. Least(2, r) = Tokens(r, step)
      BY DEF Least
    <2>4. QED
      BY <1>6, <2>1, <2>2, <2>3
  <1>8. OfTokens(d, 2)
    BY <1>2, <1>7 DEF OfTokens
  <1>9. QED
    BY <1>8 DEF a, d

LEMMA DecodedIsKnown ==
    ASSUME NEW op, NEW s, NEW t, FitsDecode(op, s, t), RowsFit, step \in Nat, PreviousIsNewest,
           \A v \in s.held : IsKnown(v, TRUE), StatesMoved(states, s.passed), s.passed \in Nat
    PROVE  Rank(op.makes) \in 1 .. 3 /\ OfTokens(Result(op), Rank(op.makes))
  <1>0. /\ 1 \in 1 .. 1 /\ 1 \in 1 .. 2 /\ 2 \in 1 .. 2 /\ 1 \in 1 .. 3 /\ 2 \in 1 .. 3 /\ 3 \in 1 .. 3
    OBVIOUS
  <1>1. CASE op.does = "input"
    BY <1>0, <1>1, ResultFacts, InputIsKnown DEF FitsDecode
  <1>2. CASE op.does = "linear"
    <2> DEFINE v == op.reads[1]
    <2>1. ReadsFrom(op, s.held, 1) /\ Rank(op.makes) \in 1 .. RankOf(op, 1)
      BY <1>2 DEF FitsDecode
    <2>2. v \in s.held /\ Rank(op.makes) \in 1 .. Rank(v)
      BY <1>0, <2>1 DEF ReadsFrom, RankOf
    <2>3. Rank(v) \in 0 .. 3
      BY DEF Rank
    <2>4. Rank(v) # 0 /\ Rank(v) \in 1 .. 3 /\ Rank(op.makes) \in 1 .. 3
      BY <2>2, <2>3
    <2>5. OfTokens(buffers[v], Rank(v))
      BY <2>2, <2>4 DEF IsKnown
    <2>6. OfTokens(buffers[v], Rank(op.makes))
      BY <2>2, <2>4, <2>5, WeakerTokens
    <2>7. QED
      BY <1>2, <2>4, <2>6, ResultFacts
  <1>3. CASE op.does = "residual"
    <2>1. /\ ReadsFrom(op, s.held, 2) /\ Rank(op.makes) = 3
          /\ RankOf(op, 1) = 3 /\ RankOf(op, 2) \in 1 .. 3
      BY <1>3 DEF FitsDecode
    <2> DEFINE v == op.reads[1]
               w == op.reads[2]
    <2>2. v \in s.held /\ w \in s.held /\ Rank(v) = 3 /\ Rank(w) \in 1 .. 3
      BY <1>0, <2>1 DEF ReadsFrom, RankOf
    <2>3. OfTokens(buffers[v], 3) /\ OfTokens(buffers[w], Rank(w))
      BY <2>2 DEF IsKnown
    <2>4. OfTokens(ResidualLayerNorm(buffers[v], buffers[w]), 3)
      BY <2>2, <2>3, ResidualIsKnown
    <2>5. QED
      BY <1>0, <1>3, <2>1, <2>4, ResultFacts
  <1>4. CASE op.does = "attend"
    <2>1. /\ ReadsFrom(op, s.held, 3) /\ Rank(op.makes) = 3
          /\ RankOf(op, 1) \in 2 .. 3 /\ RankOf(op, 2) = 0 /\ RankOf(op, 3) = 0
      BY <1>4 DEF FitsDecode
    <2> DEFINE u == op.reads[1]
               v == op.reads[2]
               w == op.reads[3]
    <2>2. /\ u \in s.held /\ v \in s.held /\ w \in s.held
          /\ Rank(u) \in 2 .. 3 /\ Rank(v) = 0 /\ Rank(w) = 0
      BY <1>0, <2>1 DEF ReadsFrom, RankOf
    <2>3. OfTokens(buffers[u], Rank(u)) /\ OfSource(buffers[v]) /\ OfSource(buffers[w])
      BY <2>2 DEF IsKnown
    <2>4. OfTokens(Attention(buffers[u], buffers[v], buffers[w]), 3)
      BY <2>2, <2>3, AttendedIsKnown
    <2>5. QED
      BY <1>0, <1>4, <2>1, <2>4, ResultFacts
  <1>5. CASE op.does = "ssru"
    <2>1. /\ ReadsFrom(op, s.held, 3) /\ Rank(op.makes) = 2
          /\ op.makes[2] = s.passed + 1 /\ s.passed + 1 \in 1 .. DecoderLayers
          /\ \A i \in 1 .. 3 : RankOf(op, i) \in 1 .. 3
      BY <1>5 DEF FitsDecode
    <2> DEFINE u == op.reads[1]
               v == op.reads[2]
               w == op.reads[3]
               l == s.passed + 1
               state == SsruState(buffers[u], buffers[v], states[l])
    <2>2. /\ u \in s.held /\ v \in s.held /\ w \in s.held
          /\ Rank(u) \in 1 .. 3 /\ Rank(v) \in 1 .. 3 /\ Rank(w) \in 1 .. 3
      BY <1>0, <2>1 DEF ReadsFrom, RankOf
    <2>3. OfTokens(buffers[u], Rank(u)) /\ OfTokens(buffers[v], Rank(v)) /\ OfTokens(buffers[w], Rank(w))
      BY <2>2 DEF IsKnown
    <2>4. StateMoved(states[l], FALSE)
      <3>1. l \in 1 .. DecoderLayers /\ ~ (l <= s.passed)
        BY <2>1
      <3>2. QED
        BY <3>1 DEF StatesMoved
    <2>5. StateMoved(state, TRUE)
      BY <2>2, <2>3, <2>4, StateIsMoved
    <2> HIDE DEF state
    <2>6. OfTokens(ResidualLayerNorm([c \in DOMAIN buffers[w] |-> state[c[1]]], buffers[w]), 2)
      BY <2>2, <2>3, <2>5, RecurrentIsKnown
    <2>7. Result(op) = ResidualLayerNorm([c \in DOMAIN buffers[w] |-> state[c[1]]], buffers[w])
      BY <1>5, <2>1, ResultFacts DEF state
    <2>8. 2 \in 1 .. 3
      OBVIOUS
    <2>9. QED
      BY <2>1, <2>6, <2>7, <2>8
  <1>6. QED
    BY <1>1, <1>2, <1>3, <1>4, <1>5 DEF FitsDecode

\* ssru moves the state of the next layer, and no other operation moves one.
StatesAfter(op) ==
    IF op.does = "ssru"
    THEN [states EXCEPT ![op.makes[2]] = SsruState(buffers[op.reads[1]], buffers[op.reads[2]], @)]
    ELSE states

LEMMA StatesAreMoved ==
    ASSUME NEW op, NEW s, NEW t, FitsDecode(op, s, t), step \in Nat,
           \A v \in s.held : IsKnown(v, TRUE), StatesMoved(states, s.passed), s.passed \in Nat
    PROVE  StatesMoved(StatesAfter(op), t.passed) /\ t.passed \in Nat
  <1>1. CASE op.does # "ssru"
    BY <1>1 DEF FitsDecode, StatesAfter
  <1>2. CASE op.does = "ssru"
    <2> DEFINE u == op.reads[1]
               v == op.reads[2]
               l == s.passed + 1
               state == SsruState(buffers[u], buffers[v], states[l])
               after == StatesAfter(op)
    <2>1. /\ ReadsFrom(op, s.held, 3) /\ op.makes[2] = l /\ t.passed = l
          /\ l \in 1 .. DecoderLayers
          /\ \A i \in 1 .. 3 : RankOf(op, i) \in 1 .. 3
      BY <1>2 DEF FitsDecode
    <2>2. u \in s.held /\ v \in s.held /\ Rank(u) \in 1 .. 3 /\ Rank(v) \in 1 .. 3
      <3>1. 1 \in 1 .. 3 /\ 2 \in 1 .. 3
        OBVIOUS
      <3>2. QED
        BY <2>1, <3>1 DEF ReadsFrom, RankOf
    <2>3. OfTokens(buffers[u], Rank(u)) /\ OfTokens(buffers[v], Rank(v))
      BY <2>2 DEF IsKnown
    <2>4. DOMAIN states = 1 .. DecoderLayers /\ \A k \in 1 .. DecoderLayers :
              IF k <= s.passed THEN StateMoved(states[k], TRUE) ELSE StateMoved(states[k], FALSE)
      BY DEF StatesMoved
    <2>5. ~ (l <= s.passed)
      OBVIOUS
    <2>6. StateMoved(states[l], FALSE)
      BY <2>1, <2>4, <2>5
    <2>7. StateMoved(state, TRUE)
      BY <2>2, <2>3, <2>6, StateIsMoved
    <2> HIDE DEF state, u, v
    <2>8. after = [states EXCEPT ![l] = state]
      BY <1>2, <2>1 DEF StatesAfter, state, u, v
    <2> HIDE DEF after
    <2>9. DOMAIN after = 1 .. DecoderLayers
      BY <2>4, <2>8
    <2>10. ASSUME NEW k \in 1 .. DecoderLayers
           PROVE  IF k <= l THEN StateMoved(after[k], TRUE) ELSE StateMoved(after[k], FALSE)
      <3>1. CASE k = l
        <4>1. after[k] = state
          BY <2>4, <2>8, <3>1
        <4>2. k <= l
          BY <3>1, <2>1
        <4>3. QED
          BY <4>1, <4>2, <2>7
      <3>2. CASE k # l
        <4>1. after[k] = states[k] /\ (k <= l <=> k <= s.passed)
          BY <2>4, <2>8, <3>2
        <4>2. QED
          BY <4>1, <2>4
      <3>3. QED
        BY <3>1, <3>2
    <2>11. StatesMoved(after, l)
      BY <2>9, <2>10 DEF StatesMoved
    <2>12. QED
      BY <2>1, <2>11 DEF after
  <1>3. QED
    BY <1>1, <1>2

Recycles == executors[busy].kind = "q8"

\* What is known of the buffers holds of them, and the Q8 engine has no others.
Holds(s, decoding) ==
    /\ s.held \subseteq DOMAIN buffers
    /\ Recycles => DOMAIN buffers = s.held
    /\ \A v \in s.held : IsKnown(v, decoding)
    /\ s.passed \in Nat
    /\ decoding => StatesMoved(states, s.passed)

LEMMA SameTokens ==
    ASSUME UNCHANGED <<request, step, finished>>, NEW v
    PROVE  /\ \A buffer, rank : buffers'[v] = buffer /\ OfTokens(buffer, rank) => OfTokens(buffers[v], rank)'
           /\ \A buffer : buffers'[v] = buffer /\ OfSource(buffer) => OfSource(buffers[v])'
  <1>1. SourceLength' = SourceLength /\ Lengths' = Lengths
    BY DEF SourceLength, Lengths
  <1>2. \A r : Source(r)' = Source(r)
    BY <1>1 DEF Source
  <1>3. \A r : Newest(r)' = Newest(r) /\ Tokens(r, step)' = Tokens(r, step)
    BY DEF Newest, Tokens
  <1>4. \A r : Own(r)' = Own(r)
    BY <1>2, <1>3 DEF Own
  <1>5. \A rank, r : Least(rank, r)' = Least(rank, r)
    BY <1>3, <1>4 DEF Least
  <1>6. \A buffer, rank : buffers'[v] = buffer /\ OfTokens(buffer, rank) => OfTokens(buffers[v], rank)'
    BY <1>4, <1>5 DEF OfTokens, Cells
  <1>7. \A buffer : buffers'[v] = buffer /\ OfSource(buffer) => OfSource(buffers[v])'
    BY <1>1, <1>2 DEF OfSource, Cells
  <1>8. QED
    BY <1>6, <1>7

LEMMA SameStates ==
    ASSUME UNCHANGED <<request, step, finished>>, NEW all, states' = all, NEW passed,
           StatesMoved(all, passed)
    PROVE  StatesMoved(states, passed)'
  <1>1. Lengths' = Lengths
    BY DEF Lengths
  <1>2. \A r : Source(r)' = Source(r)
    BY <1>1 DEF Source
  <1>3. \A r : Own(r)' = Own(r)
    BY <1>2 DEF Own, Tokens
  <1>4. QED
    BY <1>3 DEF StatesMoved, StateMoved, Tokens

-----------------------------------------------------------------------------
(* The rows of a batch.                                                       *)

RowFits(row) ==
    /\ row.length \in Nat /\ row.requested \in Nat /\ row.wants \in Nat \ {0}
    /\ Limit(row) \in Nat /\ Limit(row) <= GenerationLimit

LEMMA RequestFacts ==
    ASSUME request \in Batches
    PROVE  /\ IsSeq(request) /\ request # <<>> /\ DOMAIN request # {}
           /\ \A r \in DOMAIN request : RowFits(request[r])
  <1>1. request \in Seq(BatchRows) /\ request # <<>>
    BY CpuEngineAssumption DEF BatchRows
  <1>2. IsSeq(request) /\ \A r \in DOMAIN request : request[r] \in BatchRows
    BY <1>1, IsSeqOf
  <1>3. 1 \in DOMAIN request
    BY <1>1
  <1> DEFINE L == {Limit(request[r]) : r \in DOMAIN request}
  <1>4. L \subseteq 0 .. MaximumPosition /\ L # {}
    BY <1>3, LimitIsInTable
  <1>5. MaximumPosition \in Nat
    BY CpuEngineAssumption
  <1>6. \A k \in L : k <= GenerationLimit
    <2>1. GenerationLimit = Max(L)
      BY DEF GenerationLimit
    <2> HIDE DEF L
    <2>2. QED
      BY <1>4, <1>5, <2>1, MaxOfBounded
  <1>7. \A r \in DOMAIN request : RowFits(request[r])
    <2> TAKE r \in DOMAIN request
    <2>1. Limit(request[r]) \in L /\ Limit(request[r]) \in Nat
      BY <1>4, <1>5
    <2>2. Limit(request[r]) <= GenerationLimit
      BY <1>6, <2>1
    <2>3. request[r].length \in Nat /\ request[r].requested \in Nat /\ request[r].wants \in Nat \ {0}
      BY <1>2 DEF BatchRows
    <2>4. QED
      BY <2>1, <2>2, <2>3 DEF RowFits
  <1>8. QED
    BY <1>1, <1>2, <1>3, <1>7

\* The numbers of a list have a bound.
LEMMA ListIsBounded ==
    ASSUME NEW n \in Nat, NEW f, \A i \in 1 .. n : f[i] \in Nat
    PROVE  \E m \in Nat : \A i \in 1 .. n : f[i] <= m
  <1> DEFINE T == {k \in 0 .. n : \E m \in Nat : \A i \in 1 .. k : f[i] <= m}
  <1>1. 0 \in T
    <2>1. \A i \in 1 .. 0 : f[i] <= 0
      OBVIOUS
    <2>2. QED
      BY <2>1
  <1>2. ASSUME NEW k \in 0 .. n - 1, k \in T PROVE k + 1 \in T
    <2>1. PICK m \in Nat : \A i \in 1 .. k : f[i] <= m
      BY <1>2
    <2>2. f[k + 1] \in Nat
      BY <1>2
    <2>3. m + f[k + 1] \in Nat /\ \A i \in 1 .. k + 1 : f[i] <= m + f[k + 1]
      <3>1. \A i \in 1 .. k + 1 : (i \in 1 .. k \/ i = k + 1) /\ f[i] \in Nat
        BY <1>2
      <3>2. QED
        BY <2>1, <2>2, <3>1
    <2>4. k + 1 \in 0 .. n
      BY <1>2
    <2>5. QED
      BY <2>3, <2>4
  <1>3. 0 .. n \subseteq T
    <2> HIDE DEF T
    <2>1. QED
      BY <1>1, <1>2, AllReached
  <1>4. n \in T
    <2>1. n \in 0 .. n
      OBVIOUS
    <2> HIDE DEF T
    <2>2. QED
      BY <1>3, <2>1
  <1>5. QED
    BY <1>4

LEMMA RowsFitIn == ASSUME request \in Batches PROVE RowsFit
  <1>1. IsSeq(request) /\ DOMAIN request # {} /\ \A r \in DOMAIN request : RowFits(request[r])
    BY RequestFacts
  <1>2. Len(request) \in Nat /\ DOMAIN request = 1 .. Len(request)
    BY <1>1, SeqFacts
  <1>3. DOMAIN Lengths = DOMAIN request /\ \A r \in DOMAIN request : Lengths[r] \in Nat
    BY <1>1 DEF Lengths, RowFits
  <1> DEFINE n == Len(request)
             f == Lengths
             L == {f[r] : r \in 1 .. n}
  <1>4. ToSet(Lengths) = L
    BY <1>2, <1>3 DEF ToSet
  <1>5. n \in Nat /\ \A i \in 1 .. n : f[i] \in Nat
    BY <1>2, <1>3
  <1>6. L # {}
    BY <1>1, <1>2
  <1> HIDE DEF n, f
  <1>7. PICK m \in Nat : \A i \in 1 .. n : f[i] <= m
    BY <1>5, ListIsBounded
  <1>8. L \subseteq 0 .. m
    BY <1>5, <1>7
  <1>9. \A k \in L : k <= Max(L)
    <2> HIDE DEF L
    <2>1. QED
      BY <1>6, <1>8, MaxOfBounded
  <1>10. Max(L) \in Nat
    <2>1. Max(L) \in L
      <3> HIDE DEF L
      <3>1. QED
        BY <1>6, <1>8, MaxOfBounded
    <2>2. QED
      BY <1>5, <2>1
  <1>11. SourceLength = Max(L)
    BY <1>4 DEF SourceLength
  <1>12. \A r \in 1 .. n : f[r] \in Nat /\ f[r] <= SourceLength /\ SourceLength \in Nat
    BY <1>5, <1>9, <1>10, <1>11
  <1>13. \A r \in 1 .. n : 1 .. f[r] \subseteq 1 .. SourceLength
    BY <1>12
  <1>14. QED
    BY <1>2, <1>12, <1>13 DEF RowsFit, n, f

-----------------------------------------------------------------------------
(* One operation.                                                             *)

LEMMA RunNextFacts ==
    ASSUME RunNext
    PROVE  /\ plan # <<>> /\ plan' = Tail(plan)
           /\ DOMAIN buffers' = (DOMAIN buffers \ Head(plan).frees) \cup {Head(plan).makes}
           /\ buffers'[Head(plan).makes] = Result(Head(plan))
           /\ \A v \in DOMAIN buffers \ Head(plan).frees :
                  v # Head(plan).makes => buffers'[v] = buffers[v]
           /\ states' = StatesAfter(Head(plan))
           /\ executors' = [executors EXCEPT ![busy].pooled = Pooled(Head(plan))]
           /\ UNCHANGED <<busy, request, stage, previous, finished, step, generated>>
  <1> DEFINE op == Head(plan)
             held == (DOMAIN buffers \ op.frees) \cup {op.makes}
             result == Result(op)
  <1>1. /\ plan # <<>> /\ plan' = Tail(plan)
        /\ buffers' = [v \in held |-> IF v = op.makes THEN result ELSE buffers[v]]
        /\ executors' = [executors EXCEPT ![busy].pooled = Pooled(op)]
        /\ states' = StatesAfter(op)
        /\ UNCHANGED <<busy, request, stage, previous, finished, step, generated>>
    BY DEF RunNext, StatesAfter
  <1> HIDE DEF result, op
  <1>2. op.makes \in held /\ \A v \in DOMAIN buffers \ op.frees : v \in held
    OBVIOUS
  <1> HIDE DEF held
  <1>3. /\ DOMAIN buffers' = held
        /\ buffers'[op.makes] = result
        /\ \A v \in held : v # op.makes => buffers'[v] = buffers[v]
    BY <1>1, <1>2
  <1>4. QED
    BY <1>1, <1>2, <1>3 DEF held, op, result

LEMMA HoldsNext ==
    ASSUME RunNext, NEW decoding \in BOOLEAN, NEW s, NEW m,
           Fits(Recycles, decoding, Head(plan), s, m), Holds(s, decoding), RowsFit, step \in Nat,
           decoding => PreviousIsNewest, Recycles' = Recycles, s.passed \in Nat
    PROVE  Holds(m, decoding)'
  <1> DEFINE op == Head(plan)
             kept == s.held \ op.frees
             gone == DOMAIN buffers \ op.frees
  <1>1. /\ DOMAIN buffers' = gone \cup {op.makes}
        /\ buffers'[op.makes] = Result(op)
        /\ \A v \in gone : v # op.makes => buffers'[v] = buffers[v]
        /\ states' = StatesAfter(op)
        /\ UNCHANGED <<request, finished, step>>
    BY RunNextFacts
  <1>2. /\ s.held \subseteq DOMAIN buffers
        /\ Recycles => DOMAIN buffers = s.held
        /\ \A v \in s.held : IsKnown(v, decoding)
        /\ decoding => StatesMoved(states, s.passed)
    BY DEF Holds
  <1>3. /\ m.held \subseteq kept \cup {op.makes}
        /\ Recycles => m.held = kept \cup {op.makes}
        /\ decoding => FitsDecode(op, s, m)
        /\ ~decoding => FitsEncode(op, s, m)
    BY DEF Fits, Keeps
  <1> HIDE DEF op
  <1>4. kept \subseteq gone
    BY <1>2
  <1>5. Recycles => kept = gone
    BY <1>2
  <1> HIDE DEF kept, gone
  <1>6. m.held \subseteq DOMAIN buffers'
    BY <1>1, <1>3, <1>4
  <1>7. Recycles => DOMAIN buffers' = m.held
    BY <1>1, <1>3, <1>5
  <1>8. \A v \in m.held : v # op.makes => v \in s.held /\ buffers'[v] = buffers[v]
    <2>1. kept \subseteq s.held
      BY DEF kept
    <2>2. QED
      BY <2>1, <1>1, <1>3, <1>4
  <1>9. CASE ~decoding
    <2>1. OfSource(Result(op))
      <3>1. \A v \in s.held : OfSource(buffers[v])
        BY <1>2, <1>9 DEF IsKnown
      <3>2. QED
        BY <3>1, <1>3, <1>9, EncodedIsKnown
    <2>2. ASSUME NEW v \in m.held PROVE OfSource(buffers[v])'
      <3>1. CASE v = op.makes
        BY <3>1, <2>1, <1>1, SameTokens
      <3>2. CASE v # op.makes
        <4>1. OfSource(buffers[v]) /\ buffers'[v] = buffers[v]
          BY <3>2, <1>2, <1>8, <1>9 DEF IsKnown
        <4>2. QED
          BY <4>1, <1>1, SameTokens
      <3>3. QED
        BY <3>1, <3>2
    <2>3. \A v \in m.held : IsKnown(v, decoding)'
      BY <2>2, <1>9 DEF IsKnown
    <2>4. m.passed = s.passed
      BY <1>3, <1>9 DEF FitsEncode
    <2>5. QED
      BY <2>3, <2>4, <1>6, <1>7, <1>9 DEF Holds
  <1>10. CASE decoding
    <2>1. FitsDecode(op, s, m) /\ PreviousIsNewest /\ StatesMoved(states, s.passed)
      BY <1>2, <1>3, <1>10
    <2>2. \A v \in s.held : IsKnown(v, TRUE)
      BY <1>2, <1>10 DEF IsKnown
    <2>3. Rank(op.makes) \in 1 .. 3 /\ OfTokens(Result(op), Rank(op.makes))
      BY <2>1, <2>2, DecodedIsKnown
    <2>4. ASSUME NEW v \in m.held PROVE IsKnown(v, TRUE)'
      <3>1. CASE v = op.makes
        <4>1. Rank(v) \in 1 .. 3 /\ OfTokens(buffers[v], Rank(v))'
          <5> DEFINE k == Rank(v)
          <5>1. buffers'[v] = Result(op) /\ OfTokens(Result(op), k) /\ k \in 1 .. 3
            BY <3>1, <2>3, <1>1
          <5>2. k' = k
            BY DEF Rank
          <5> HIDE DEF k
          <5>3. OfTokens(buffers[v], k)'
            BY <5>1, <5>2, <1>1, SameTokens
          <5>4. QED
            BY <5>1, <5>2, <5>3 DEF k
        <4>2. QED
          BY <4>1 DEF IsKnown
      <3>2. CASE v # op.makes
        <4>1. IsKnown(v, TRUE) /\ buffers'[v] = buffers[v]
          BY <3>2, <2>2, <1>8
        <4>2. CASE Rank(v) # 0
          BY <4>1, <4>2, <1>1, SameTokens DEF IsKnown
        <4>3. CASE Rank(v) = 0
          BY <4>1, <4>3, <1>1, SameTokens DEF IsKnown
        <4>4. QED
          BY <4>2, <4>3
      <3>3. QED
        BY <3>1, <3>2
    <2>5. \A v \in m.held : IsKnown(v, decoding)'
      BY <2>4, <1>10 DEF IsKnown
    <2>6. StatesMoved(StatesAfter(op), m.passed) /\ m.passed \in Nat
      BY <2>1, <2>2, StatesAreMoved
    <2>7. StatesMoved(states, m.passed)'
      BY <2>6, <1>1, SameStates
    <2>8. QED
      BY <2>5, <2>6, <2>7, <1>6, <1>7, <1>10 DEF Holds
  <1>11. QED
    BY <1>9, <1>10

-----------------------------------------------------------------------------
(* What a step of a host does to the engine.                                  *)

\* An isolate that has loaded has its executor.
ResolvedInv ==
    host = "worker" =>
        \A k \in DOMAIN starts : starts[k].promise = "resolved" => 1 \in DOMAIN executors

Ready == host = "worker" \/ (host = "pool" /\ startup = "serving")

RequestInv ==
    /\ stage = "idle" => busy = 0 /\ request = <<>> /\ buffers = <<>> /\ generated = <<>>
    /\ stage # "idle" => busy \in DOMAIN executors /\ Ready
    /\ stage = "begin" => buffers = <<>>
    /\ stage \in {"begin", "encode"} => generated = [r \in DOMAIN request |-> <<>>]

NewPools ==
    \A w \in DOMAIN executors' :
        executors'[w].pooled = 0 \/ (w \in DOMAIN executors /\ executors'[w] = executors[w])

Working == Translate /\ UNCHANGED <<host, startup, starts>>
Beginning == Ready /\ (\E w \in DOMAIN executors : Begin(w)) /\ UNCHANGED <<host, startup, starts>>
Resting == UNCHANGED engine /\ host' = host /\ (startup' = startup \/ ~Ready)
Making ==
    stage = "idle" /\ UNCHANGED <<request_vars, served, outcome>> /\ NewPools

LEMMA SomeStart ==
    ASSUME IsolateInv, NEW h \in Handlers, awaits[h] # 0
    PROVE  awaits[h] \in DOMAIN starts /\ starts[awaits[h]].promise \in Promises
  <1>1. awaits[h] \in 0 .. Len(starts) /\ Len(starts) \in Nat /\ DOMAIN starts = 1 .. Len(starts)
    BY IsolateFacts
  <1>2. awaits[h] \in DOMAIN starts
    BY <1>1
  <1>3. QED
    BY <1>2, IsolateFacts

LEMMA ResumeKinds ==
    ASSUME IsolateInv, ResolvedInv, NEW h \in Handlers, Resume(h)
    PROVE  Beginning \/ Resting
  <1>1. /\ host = "worker" /\ UNCHANGED <<host, startup, starts>>
        /\ awaits[h] # 0
    BY DEF Resume, Idle, server
  <1> DEFINE promise == starts[awaits[h]].promise
  <1>2. promise \in Promises /\ (promise = "resolved" => 1 \in DOMAIN executors)
    BY <1>1, SomeStart DEF ResolvedInv
  <1>3. (CASE promise = "resolved" -> Begin(1)
           [] promise = "rejected" -> UNCHANGED engine
           [] promise = "pending" -> FALSE)
    BY DEF Resume
  <1> HIDE DEF promise
  <1>4. (promise = "resolved" /\ Begin(1)) \/ UNCHANGED engine
    BY <1>2, <1>3 DEF Promises
  <1>5. CASE promise = "resolved" /\ Begin(1)
    BY <1>1, <1>2, <1>5 DEF Beginning, Ready
  <1>6. CASE UNCHANGED engine
    BY <1>1, <1>6 DEF Resting
  <1>7. QED
    BY <1>4, <1>5, <1>6

LEMMA AddedPools ==
    ASSUME ExecutorsTyped, NEW e, e.pooled = 0, executors' = Append(executors, e)
    PROVE  NewPools
  <1>1. /\ DOMAIN executors' = DOMAIN executors \cup {Len(executors) + 1}
        /\ \A k \in DOMAIN executors : executors'[k] = executors[k]
        /\ executors'[Len(executors) + 1] = e
    BY AppendFacts DEF ExecutorsTyped
  <1>2. QED
    BY <1>1 DEF NewPools

LEMMA OnePool ==
    ASSUME NEW e, e.pooled = 0, executors' = <<e>>
    PROVE  NewPools
  BY SingletonFacts DEF NewPools

LEMMA NoPools == ASSUME executors' = <<>> PROVE NewPools
  BY EmptyFacts DEF NewPools

LEMMA CreateKinds ==
    ASSUME PoolsInv, RequestInv, CreateFp32 \/ CreateQ8 \/ ForkQ8
    PROVE  Making
  <1>1. /\ host = "pool" /\ startup = "starting" /\ UNCHANGED <<request_vars, served, outcome>>
    BY DEF CreateFp32, CreateQ8, ForkQ8
  <1>2. stage = "idle"
    BY <1>1 DEF RequestInv, Ready
  <1>3. CASE CreateFp32
    <2> DEFINE e == Executor("fp32", dir, LoadedFp32(release[dir]))
    <2>1. e.pooled = 0
      BY DEF Executor
    <2>2. executors' = Append(executors, e) \/ executors' = <<>>
      BY <1>3 DEF CreateFp32, AddWorker, StartFails
    <2> HIDE DEF e
    <2>3. NewPools
      BY <2>1, <2>2, AddedPools, NoPools DEF PoolsInv
    <2>4. QED
      BY <1>1, <1>2, <2>3 DEF Making
  <1>4. CASE CreateQ8
    <2> DEFINE e == Executor("q8", dir, LoadedQ8(release[dir]))
    <2>1. e.pooled = 0
      BY DEF Executor
    <2>2. executors' = Append(executors, e) \/ executors' = <<>>
      BY <1>4 DEF CreateQ8, AddWorker, StartFails
    <2> HIDE DEF e
    <2>3. NewPools
      BY <2>1, <2>2, AddedPools, NoPools DEF PoolsInv
    <2>4. QED
      BY <1>1, <1>2, <2>3 DEF Making
  <1>5. CASE ForkQ8
    <2> DEFINE e == [template[1] EXCEPT !.pooled = 0]
    <2>1. executors' = Append(executors, e) /\ template # <<>>
      BY <1>5 DEF ForkQ8, AddWorker
    <2>2. IsExecutor(template[1])
      BY <2>1 DEF PoolsInv, TemplateTyped
    <2>3. e.pooled = 0
      BY <2>2 DEF IsExecutor
    <2> HIDE DEF e
    <2>4. NewPools
      BY <2>1, <2>3, AddedPools DEF PoolsInv
    <2>5. QED
      BY <1>1, <1>2, <2>4 DEF Making
  <1>6. QED
    BY <1>3, <1>4, <1>5

LEMMA FirstKinds ==
    ASSUME StageInv, RequestInv, IsolateInv,
           LoadMetalBackend \/ \E k \in DOMAIN starts : InitPackedParts(k)
    PROVE  Making \/ Resting
  <1>1. CASE LoadMetalBackend
    <2> DEFINE e == Executor("metal", link, LoadedMetal(release[link]))
    <2>1. e.pooled = 0
      BY DEF Executor
    <2>2. /\ host = "metal" /\ UNCHANGED <<request_vars, served, outcome>>
          /\ executors' = <<e>> \/ executors' = <<>>
      BY <1>1 DEF LoadMetalBackend, StartFails
    <2> HIDE DEF e
    <2>3. stage = "idle"
      BY <2>2 DEF RequestInv, Ready
    <2>4. NewPools
      BY <2>1, <2>2, OnePool, NoPools
    <2>5. QED
      BY <2>2, <2>3, <2>4 DEF Making
  <1>2. CASE \E k \in DOMAIN starts : InitPackedParts(k)
    <2> DEFINE e == Executor("q8", "bucket", LoadPacked(release["bucket"].weights, "wasm-u8i8i32"))
    <2>1. e.pooled = 0
      BY DEF Executor
    <2>2. /\ request = <<>> /\ UNCHANGED <<request_vars, served, outcome, host, startup>>
          /\ executors' = <<e>> \/ executors' = executors
      BY <1>2 DEF InitPackedParts, Idle, Reject, server
    <2> HIDE DEF e
    <2>3. stage = "idle"
      <3>1. stage # "idle" => request \in Batches
        BY DEF StageInv
      <3>2. QED
        BY <3>1, <2>2, CpuEngineAssumption
    <2>4. CASE executors' = <<e>>
      BY <2>1, <2>2, <2>3, <2>4, OnePool DEF Making
    <2>5. CASE executors' = executors
      BY <2>2, <2>5 DEF Resting, engine
    <2>6. QED
      BY <2>2, <2>4, <2>5
  <1>3. QED
    BY <1>1, <1>2

LEMMA StepKinds ==
    ASSUME StageInv, RequestInv, ResolvedInv, IsolateInv, PoolsInv, [Next]_vars
    PROVE  Working \/ Beginning \/ Resting \/ Making
  <1>1. CASE Run
    BY <1>1 DEF Run, server, isolate, Working
  <1>2. CASE Serve
    BY <1>2 DEF Serve, server, isolate, Beginning, Ready
  <1>3. CASE NewFactory
    BY <1>3 DEF NewFactory, Resting, Ready
  <1>4. CASE MoveLink \/ Rest \/ UNCHANGED vars
    BY <1>4 DEF MoveLink, Rest, Resting, vars, server
  <1>5. CASE \E h \in Handlers : Arrive(h)
    BY <1>5 DEF Arrive, Resting, server
  <1>6. CASE \E k \in DOMAIN starts : ReadRange(k)
    BY <1>6 DEF ReadRange, Reject, Resting, server, engine
  <1>7. CASE \E h \in Handlers : Resume(h)
    BY <1>7, ResumeKinds
  <1>8. QED
    BY <1>1, <1>2, <1>3, <1>4, <1>5, <1>6, <1>7, CreateKinds, FirstKinds DEF Next

ResolvedOrFirst ==
    \A j \in DOMAIN starts' :
        starts'[j].promise = "resolved" =>
            1 \in DOMAIN executors' \/ (j \in DOMAIN starts /\ starts[j].promise = "resolved")

LEMMA StartMoves ==
    ASSUME IsolateInv, NEW k \in DOMAIN starts,
           \/ starts' = [starts EXCEPT ![k].read = @ + 1]
           \/ starts' = [starts EXCEPT ![k].promise = "rejected"]
           \/ starts' = [starts EXCEPT ![k].promise = "resolved"] /\ 1 \in DOMAIN executors'
    PROVE  ResolvedOrFirst
  <1>1. starts[k] \in Starts
    <2>1. starts \in Seq(Starts)
      BY IsolateFacts
    <2>2. QED
      BY <2>1
  <1>2. ASSUME NEW s, starts' = [starts EXCEPT ![k] = s],
               s.promise = "resolved" => 1 \in DOMAIN executors' \/ starts[k].promise = "resolved"
        PROVE  ResolvedOrFirst
    <2>1. /\ DOMAIN starts' = DOMAIN starts
          /\ starts'[k] = s
          /\ \A j \in DOMAIN starts : j # k => starts'[j] = starts[j]
      BY <1>2
    <2>2. QED
      BY <1>2, <2>1 DEF ResolvedOrFirst
  <1>3. CASE starts' = [starts EXCEPT ![k].read = @ + 1]
    <2> DEFINE s == [starts[k] EXCEPT !.read = starts[k].read + 1]
    <2>1. s.promise = starts[k].promise
      BY <1>1 DEF Starts
    <2>2. starts' = [starts EXCEPT ![k] = s]
      BY <1>3
    <2> HIDE DEF s
    <2>3. QED
      BY <1>2, <2>1, <2>2
  <1>4. CASE starts' = [starts EXCEPT ![k].promise = "rejected"]
    <2> DEFINE s == [starts[k] EXCEPT !.promise = "rejected"]
    <2>1. s.promise = "rejected"
      BY <1>1 DEF Starts
    <2>2. starts' = [starts EXCEPT ![k] = s]
      BY <1>4
    <2> HIDE DEF s
    <2>3. QED
      BY <1>2, <2>1, <2>2
  <1>5. CASE starts' = [starts EXCEPT ![k].promise = "resolved"] /\ 1 \in DOMAIN executors'
    <2> DEFINE s == [starts[k] EXCEPT !.promise = "resolved"]
    <2>1. starts' = [starts EXCEPT ![k] = s]
      BY <1>5
    <2> HIDE DEF s
    <2>2. QED
      BY <1>2, <1>5, <2>1
  <1>6. QED
    BY <1>3, <1>4, <1>5

LEMMA ResolvedInit == Init => ResolvedInv
  BY EmptyFacts DEF Init, ResolvedInv

LEMMA ResolvedNext ==
    ASSUME IsolateInv, PoolsInv, ResolvedInv, [Next]_vars
    PROVE  ResolvedInv'
  <1>1. ASSUME ResolvedOrFirst, host' = host, DOMAIN executors' = DOMAIN executors \/ 1 \in DOMAIN executors'
        PROVE  ResolvedInv'
    BY <1>1 DEF ResolvedInv, ResolvedOrFirst
  <1>2. ASSUME starts' = starts, host' = host, DOMAIN executors' = DOMAIN executors
        PROVE  ResolvedInv'
    BY <1>2 DEF ResolvedInv
  <1>3. CASE CreateFp32 \/ CreateQ8 \/ ForkQ8 \/ LoadMetalBackend
    BY <1>3 DEF CreateFp32, CreateQ8, ForkQ8, LoadMetalBackend, ResolvedInv
  <1>4. CASE MoveLink \/ NewFactory \/ Serve \/ Rest \/ UNCHANGED vars
    BY <1>2, <1>4 DEF MoveLink, NewFactory, Serve, Rest, Begin, vars, engine, isolate
  <1>5. CASE Run
    <2>1. ExecutorsStay
      BY <1>5, TranslateStay DEF PoolsInv, Run
    <2>2. QED
      BY <1>2, <1>5, <2>1 DEF Run, isolate, ExecutorsStay
  <1>6. ASSUME NEW h \in Handlers, Resume(h) PROVE ResolvedInv'
    <2>1. executors' = executors
      BY <1>6, ResumeFacts DEF IsolateInv, Begin, engine
    <2>2. QED
      BY <1>2, <1>6, <2>1 DEF Resume
  <1>7. ASSUME NEW h \in Handlers, Arrive(h) PROVE ResolvedInv'
    <2>1. executors' = executors /\ host' = host
      BY <1>7 DEF Arrive, engine
    <2>2. starts' = starts \/ starts' = Append(starts, [read |-> 0, promise |-> "pending"])
      BY <1>7 DEF Arrive
    <2>3. CASE starts' = Append(starts, [read |-> 0, promise |-> "pending"])
      <3> DEFINE s == [read |-> 0, promise |-> "pending"]
      <3>1. s.promise = "pending"
        OBVIOUS
      <3>2. starts \in Seq(Starts) /\ s \in Starts
        BY IsolateFacts DEF Starts, Promises
      <3>3. IsSeq(starts)
        BY <3>2, IsSeqOf
      <3> HIDE DEF s
      <3>4. starts' = Append(starts, s)
        BY <2>3 DEF s
      <3>5. /\ DOMAIN starts' = DOMAIN starts \cup {Len(starts) + 1}
            /\ \A k \in DOMAIN starts : starts'[k] = starts[k]
            /\ starts'[Len(starts) + 1] = s
        BY <3>3, <3>4, AppendFacts
      <3>6. ResolvedOrFirst
        BY <3>1, <3>5 DEF ResolvedOrFirst
      <3>7. QED
        BY <1>1, <2>1, <3>6
    <2>4. QED
      BY <1>2, <2>1, <2>2, <2>3
  <1>8. ASSUME NEW k \in DOMAIN starts, ReadRange(k) PROVE ResolvedInv'
    <2>1. /\ executors' = executors /\ host' = host
          /\ \/ starts' = [starts EXCEPT ![k].read = @ + 1]
             \/ starts' = [starts EXCEPT ![k].promise = "rejected"]
      BY <1>8 DEF ReadRange, Reject
    <2>2. ResolvedOrFirst
      BY <2>1, StartMoves
    <2>3. QED
      BY <1>1, <2>1, <2>2
  <1>9. ASSUME NEW k \in DOMAIN starts, InitPackedParts(k) PROVE ResolvedInv'
    <2> DEFINE e == Executor("q8", "bucket", LoadPacked(release["bucket"].weights, "wasm-u8i8i32"))
    <2>1. /\ host' = host
          /\ \/ executors' = <<e>> /\ starts' = [starts EXCEPT ![k].promise = "resolved"]
             \/ executors' = executors /\ starts' = [starts EXCEPT ![k].promise = "rejected"]
      BY <1>9 DEF InitPackedParts, Reject
    <2> HIDE DEF e
    <2>2. executors' = <<e>> => 1 \in DOMAIN executors'
      BY SingletonFacts
    <2>3. ResolvedOrFirst
      BY <2>1, <2>2, StartMoves
    <2>4. QED
      BY <1>1, <2>1, <2>2, <2>3
  <1>10. QED
    BY <1>3, <1>4, <1>5, <1>6, <1>7, <1>8, <1>9 DEF Next

LEMMA WorkingKeeps ==
    ASSUME RequestInv, StageInv, ExecutorsTyped, Working
    PROVE  RequestInv'
  <1>1. /\ ExecutorsStay /\ (Ready <=> Ready')
        /\ DOMAIN executors' = DOMAIN executors
    BY TranslateStay DEF Working, Ready, ExecutorsStay
  <1>2. ASSUME NEW how, End(how) PROVE RequestInv'
    BY <1>2 DEF End, RequestInv
  <1>3. CASE Refuse \/ Fail \/ Return
    BY <1>2, <1>3 DEF Refuse, Fail, Return
  <1>4. stage # "idle" => busy \in DOMAIN executors' /\ Ready'
    BY <1>1 DEF RequestInv
  <1>5. CASE BeginEncode
    <2>1. /\ stage = "begin" /\ stage' = "encode" /\ UNCHANGED <<busy, request, generated>>
      BY <1>5 DEF BeginEncode
    <2>2. QED
      BY <1>4, <2>1 DEF RequestInv
  <1>6. CASE RunNext
    <2>1. plan # <<>> /\ UNCHANGED <<busy, request, generated, stage>>
      BY <1>6, RunNextFacts
    <2>2. stage = "encode" \/ stage = "decode"
      BY <2>1 DEF StageInv, Stages
    <2>3. QED
      BY <1>4, <2>1, <2>2 DEF RequestInv
  <1>7. CASE BeginDecode \/ BeginStep \/ Select
    <2>1. /\ stage # "idle" /\ stage' \in {"loop", "output", "decode"} /\ busy' = busy
      BY <1>7 DEF BeginDecode, BeginStep, Select
    <2>2. QED
      BY <1>4, <2>1 DEF RequestInv
  <1>8. QED
    BY <1>3, <1>5, <1>6, <1>7 DEF Working, Translate

LEMMA RequestInit == Init => RequestInv
  BY DEF Init, InitEngine, RequestInv

LEMMA RequestNext ==
    ASSUME StageInv, RequestInv, ResolvedInv, IsolateInv, PoolsInv, [Next]_vars
    PROVE  RequestInv'
  <1>1. CASE Working
    BY <1>1, WorkingKeeps DEF PoolsInv
  <1>2. CASE Beginning
    <2>1. PICK w \in DOMAIN executors : Begin(w)
      BY <1>2 DEF Beginning
    <2>2. /\ stage = "idle" /\ stage' = "begin" /\ busy' = w
          /\ generated' = [r \in DOMAIN request' |-> <<>>]
          /\ UNCHANGED <<executors, buffers>>
      BY <2>1 DEF Begin
    <2>3. Ready'
      BY <1>2 DEF Beginning, Ready
    <2>4. QED
      BY <2>2, <2>3 DEF RequestInv
  <1>3. CASE Resting
    <2>1. stage # "idle" => Ready'
      BY <1>3 DEF Resting, RequestInv, Ready
    <2>2. UNCHANGED <<executors, busy, request, stage, buffers, generated>>
      BY <1>3 DEF Resting, engine, request_vars
    <2>3. QED
      BY <2>1, <2>2 DEF RequestInv
  <1>4. CASE Making
    BY <1>4 DEF Making, request_vars, RequestInv
  <1>5. QED
    BY <1>1, <1>2, <1>3, <1>4, StepKinds

-----------------------------------------------------------------------------
(* What is known of the buffers at each stage.                                *)

CachesMade == Known(Cached(DecoderLayers), 0)
StepMade == Known(Cached(DecoderLayers) \cup {Decoded(DecoderLayers)}, DecoderLayers)

Encoding == \E s : Runs(Recycles, FALSE, plan, s, CachesMade) /\ Holds(s, FALSE)
Stepping == \E s : Runs(Recycles, TRUE, plan, s, StepMade) /\ Holds(s, TRUE)

PlanInv ==
    /\ stage = "encode" => Encoding
    /\ stage \in {"loop", "output"} => Holds(CachesMade, TRUE)
    /\ stage = "decode" => Stepping

LEMMA KindStays ==
    ASSUME ExecutorsTyped, Working, busy \in DOMAIN executors, busy' = busy
    PROVE  Recycles' = Recycles
  <1>1. ExecutorsStay
    BY TranslateStay DEF Working
  <1>2. executors'[busy].kind = executors[busy].kind
    BY <1>1 DEF ExecutorsStay, Same
  <1>3. QED
    BY <1>2 DEF Recycles

LEMMA SourceStays ==
    ASSUME request' = request, NEW v, buffers'[v] = buffers[v], OfSource(buffers[v])
    PROVE  OfSource(buffers[v])'
  <1>1. SourceLength' = SourceLength /\ Lengths' = Lengths
    BY DEF SourceLength, Lengths
  <1>2. \A r : Source(r)' = Source(r)
    BY <1>1 DEF Source
  <1>3. QED
    BY <1>1, <1>2 DEF OfSource, Cells

LEMMA CachesHeld ==
    ASSUME NEW s, NEW decoding, Holds(s, decoding), Cached(DecoderLayers) \subseteq s.held
    PROVE  \A v \in Cached(DecoderLayers) : v \in DOMAIN buffers /\ OfSource(buffers[v])
  <1>1. \A v \in Cached(DecoderLayers) : Rank(v) = 0
    BY CacheFacts
  <1>2. QED
    BY <1>1 DEF Holds, IsKnown

LEMMA CachesHold ==
    ASSUME request' = request,
           \A v \in Cached(DecoderLayers) : v \in DOMAIN buffers /\ OfSource(buffers[v]),
           \A v \in Cached(DecoderLayers) : v \in DOMAIN buffers' /\ buffers'[v] = buffers[v],
           Recycles' => DOMAIN buffers' = Cached(DecoderLayers),
           StatesMoved(states, 0)'
    PROVE  Holds(CachesMade, TRUE)'
  <1>1. CachesMade.held = Cached(DecoderLayers) /\ CachesMade.passed = 0
    BY DEF CachesMade, Known
  <1>2. \A v \in Cached(DecoderLayers) : Rank(v) = 0
    BY CacheFacts
  <1>3. \A v \in Cached(DecoderLayers) : OfSource(buffers[v])'
    BY SourceStays
  <1>4. \A v \in Cached(DecoderLayers) : IsKnown(v, TRUE)'
    BY <1>2, <1>3 DEF IsKnown
  <1>5. ASSUME NEW m, m.held = Cached(DecoderLayers), m.passed = 0 PROVE Holds(m, TRUE)'
    <2>1. \A v \in m.held : IsKnown(v, TRUE)' /\ v \in DOMAIN buffers'
      BY <1>4, <1>5
    <2>2. Recycles' => DOMAIN buffers' = m.held
      BY <1>5
    <2>3. StatesMoved(states, m.passed)'
      BY <1>5
    <2>4. m.passed \in Nat /\ m.held \subseteq DOMAIN buffers'
      BY <1>5, <2>1
    <2>5. QED
      BY <2>1, <2>2, <2>3, <2>4, Zenon DEF Holds
  <1>6. QED
    BY <1>1, <1>5

LEMMA EncodeBegins ==
    ASSUME RequestInv, BeginEncode, Recycles' = Recycles
    PROVE  PlanInv'
  <1>1. /\ stage' = "encode" /\ plan' = EncodePlan(Recycles)
        /\ UNCHANGED buffers /\ buffers = <<>>
    BY DEF BeginEncode, RequestInv, EncodePlan, Recycles
  <1> DEFINE none == {}
             s == Known(none, 0)
  <1>2. s.held = {} /\ s.passed = 0
    BY DEF Known
  <1>3. Runs(Recycles, FALSE, EncodePlan(Recycles), s, CachesMade)
    <2>1. Recycles \in BOOLEAN
      BY DEF Recycles
    <2>2. QED
      BY <2>1, EncodeRuns DEF CachesMade
  <1> HIDE DEF s
  <1>4. Runs(Recycles', FALSE, plan', s, CachesMade)
    BY <1>1, <1>3
  <1>5. Holds(s, FALSE)'
    <2>1. DOMAIN buffers' = {}
      BY <1>1, EmptyFacts
    <2>2. s.held \subseteq DOMAIN buffers' /\ (Recycles' => DOMAIN buffers' = s.held) /\ s.passed \in Nat
      BY <1>2, <2>1
    <2>3. \A v \in s.held : IsKnown(v, FALSE)'
      BY <1>2
    <2>4. QED
      BY <2>2, <2>3, Zenon DEF Holds
  <1>6. Encoding'
    BY <1>4, <1>5 DEF Encoding
  <1>7. QED
    BY <1>1, <1>6 DEF PlanInv

LEMMA OperationRuns ==
    ASSUME StageInv, PlanInv, stage = "decode" => PreviousIsNewest, RunNext, Recycles' = Recycles
    PROVE  PlanInv'
  <1>1. plan # <<>> /\ plan' = Tail(plan) /\ UNCHANGED stage
    BY RunNextFacts
  <1>2. stage = "encode" \/ stage = "decode"
    BY <1>1 DEF StageInv, Stages
  <1>3. RowsFit /\ step \in Nat
    BY <1>2, RowsFitIn DEF StageInv
  <1>4. CASE stage = "encode"
    <2>1. PICK s : Runs(Recycles, FALSE, plan, s, CachesMade) /\ Holds(s, FALSE)
      BY <1>4 DEF PlanInv, Encoding
    <2>2. PICK m : Fits(Recycles, FALSE, Head(plan), s, m)
                   /\ Runs(Recycles, FALSE, Tail(plan), m, CachesMade)
      BY <1>1, <2>1, RunsHead
    <2>3. s.passed \in Nat
      BY <2>1 DEF Holds
    <2>4. Holds(m, FALSE)'
      BY <1>3, <2>1, <2>2, <2>3, HoldsNext
    <2>5. Runs(Recycles', FALSE, plan', m, CachesMade)
      BY <1>1, <2>2
    <2>6. Encoding'
      BY <2>4, <2>5 DEF Encoding
    <2>7. QED
      BY <1>1, <1>4, <2>6 DEF PlanInv
  <1>5. CASE stage = "decode"
    <2>1. PICK s : Runs(Recycles, TRUE, plan, s, StepMade) /\ Holds(s, TRUE)
      BY <1>5 DEF PlanInv, Stepping
    <2>2. PICK m : Fits(Recycles, TRUE, Head(plan), s, m)
                   /\ Runs(Recycles, TRUE, Tail(plan), m, StepMade)
      BY <1>1, <2>1, RunsHead
    <2>3. s.passed \in Nat
      BY <2>1 DEF Holds
    <2>4. Holds(m, TRUE)'
      BY <1>3, <1>5, <2>1, <2>2, <2>3, HoldsNext
    <2>5. Runs(Recycles', TRUE, plan', m, StepMade)
      BY <1>1, <2>2
    <2>6. Stepping'
      BY <2>4, <2>5 DEF Stepping
    <2>7. QED
      BY <1>1, <1>5, <2>6 DEF PlanInv
  <1>6. QED
    BY <1>2, <1>4, <1>5

LEMMA DecodeBegins ==
    ASSUME PlanInv, BeginDecode, Recycles' = Recycles
    PROVE  PlanInv'
  <1>1. /\ stage = "encode" /\ stage' = "loop" /\ plan = <<>>
        /\ states' = [l \in 1 .. DecoderLayers |-> [r \in DOMAIN request |-> {}]]
        /\ finished' = [r \in DOMAIN request |-> FALSE]
        /\ step' = 0
        /\ UNCHANGED <<request, buffers>>
    BY DEF BeginDecode
  <1>2. PICK s : Runs(Recycles, FALSE, plan, s, CachesMade) /\ Holds(s, FALSE)
    BY <1>1 DEF PlanInv, Encoding
  <1>3. s = CachesMade
    BY <1>1, <1>2, RunsNone
  <1>4. s.held = Cached(DecoderLayers)
    BY <1>3 DEF CachesMade, Known
  <1>5. \A v \in Cached(DecoderLayers) : v \in DOMAIN buffers /\ OfSource(buffers[v])
    BY <1>2, <1>4, CachesHeld
  <1>6. Recycles' => DOMAIN buffers' = Cached(DecoderLayers)
    BY <1>1, <1>2, <1>4 DEF Holds
  <1>7. StatesMoved(states, 0)'
    <2>1. DOMAIN states' = 1 .. DecoderLayers
      BY <1>1
    <2>2. ASSUME NEW l \in 1 .. DecoderLayers PROVE StateMoved(states[l], FALSE)'
      <3>1. states'[l] = [r \in DOMAIN request |-> {}]
        BY <1>1
      <3>2. DOMAIN states'[l] = DOMAIN request' /\ \A r \in DOMAIN request' : states'[l][r] = {}
        BY <1>1, <3>1
      <3>3. \A r \in DOMAIN request' : Tokens(r, step' - 1) = {}
        <4>1. 1 .. step' - 1 = {}
          BY <1>1
        <4>2. QED
          BY <4>1 DEF Tokens
      <3>4. QED
        BY <3>2, <3>3 DEF StateMoved
    <2>3. \A l \in 1 .. DecoderLayers : ~(l <= 0)
      BY LayersAssumption
    <2>4. QED
      BY <2>1, <2>2, <2>3 DEF StatesMoved
  <1>8. Holds(CachesMade, TRUE)'
    BY <1>1, <1>5, <1>6, <1>7, CachesHold
  <1>9. QED
    BY <1>1, <1>8 DEF PlanInv

\* Rows may end between two steps.
LEMMA EndedStates ==
    ASSUME NEW n, StatesMoved(states, n), UNCHANGED <<request, states, step>>,
           \A r \in DOMAIN request : ~finished'[r] => ~finished[r]
    PROVE  StatesMoved(states, n)'
  <1>1. Lengths' = Lengths
    BY DEF Lengths
  <1>2. \A r : Own(r)' = Own(r)
    BY <1>1 DEF Own, Source, Tokens
  <1>3. ASSUME NEW l \in 1 .. DecoderLayers, NEW moved \in BOOLEAN, StateMoved(states[l], moved)
        PROVE  StateMoved(states[l], moved)'
    <2> DEFINE k == IF moved THEN step ELSE step - 1
    <2>1. k' = k
      OBVIOUS
    <2>2. \A r \in DOMAIN request :
              ~finished[r] => states[l][r] \subseteq Own(r) /\ Tokens(r, k) \subseteq states[l][r]
      BY <1>3 DEF StateMoved
    <2>3. DOMAIN states'[l] = DOMAIN request'
      BY <1>3 DEF StateMoved
    <2>4. \A r \in DOMAIN request' :
              ~finished'[r] => states'[l][r] \subseteq Own(r)' /\ Tokens(r, k) \subseteq states'[l][r]
      <3> HIDE DEF k
      <3>1. QED
        BY <2>2, <1>2
    <2>5. QED
      BY <2>1, <2>3, <2>4 DEF StateMoved
  <1>4. DOMAIN states' = 1 .. DecoderLayers
    BY DEF StatesMoved
  <1>5. ASSUME NEW l \in 1 .. DecoderLayers
        PROVE  IF l <= n THEN StateMoved(states[l], TRUE)' ELSE StateMoved(states[l], FALSE)'
    <2>1. IF l <= n THEN StateMoved(states[l], TRUE) ELSE StateMoved(states[l], FALSE)
      BY DEF StatesMoved
    <2>2. QED
      BY <2>1, <1>3, Zenon
  <1>6. QED
    BY <1>4, <1>5 DEF StatesMoved

LEMMA StepBegins ==
    ASSUME PlanInv, BeginStep, Recycles' = Recycles
    PROVE  PlanInv'
  <1>1. /\ stage = "loop" /\ stage' \in {"output", "decode"}
        /\ finished' = [r \in DOMAIN request |-> finished[r] \/ step >= Limit(request[r])]
        /\ stage' = "decode" => plan' = DecodePlan(Recycles)
        /\ UNCHANGED <<request, buffers, states, step>>
    BY DEF BeginStep, DecodePlan, Recycles
  <1>2. Holds(CachesMade, TRUE)
    BY <1>1 DEF PlanInv
  <1>3. CachesMade.held = Cached(DecoderLayers) /\ CachesMade.passed = 0
    BY DEF CachesMade, Known
  <1>4. \A v \in Cached(DecoderLayers) : v \in DOMAIN buffers /\ OfSource(buffers[v])
    BY <1>2, <1>3, CachesHeld
  <1>5. Recycles' => DOMAIN buffers' = Cached(DecoderLayers)
    BY <1>1, <1>2, <1>3 DEF Holds
  <1>6. StatesMoved(states, 0)
    BY <1>2, <1>3 DEF Holds
  <1>7. \A r \in DOMAIN request : ~finished'[r] => ~finished[r]
    BY <1>1
  <1> DEFINE n == 0
  <1>8. StatesMoved(states, n)'
    <2>1. StatesMoved(states, n)
      BY <1>6
    <2> HIDE DEF n
    <2>2. QED
      BY <1>1, <1>7, <2>1, EndedStates
  <1>9. Holds(CachesMade, TRUE)'
    BY <1>1, <1>4, <1>5, <1>8, CachesHold
  <1>10. CASE stage' = "output"
    BY <1>9, <1>10 DEF PlanInv
  <1>11. CASE stage' = "decode"
    <2>1. Recycles \in BOOLEAN
      BY DEF Recycles
    <2>2. Runs(Recycles, TRUE, DecodePlan(Recycles), CachesMade, StepMade)
      BY <2>1, DecodeRuns DEF CachesMade, StepMade
    <2>3. Runs(Recycles', TRUE, plan', CachesMade, StepMade)
      BY <1>1, <1>11, <2>2
    <2>4. Stepping'
      BY <1>9, <2>3 DEF Stepping
    <2>5. QED
      BY <1>11, <2>4 DEF PlanInv
  <1>12. QED
    BY <1>1, <1>10, <1>11

\* When the operations of a step are done.
LEMMA StepFacts ==
    ASSUME StageInv, PlanInv, stage = "decode", plan = <<>>
    PROVE  /\ Holds(StepMade, TRUE)
           /\ StepMade.held = Cached(DecoderLayers) \cup {Decoded(DecoderLayers)}
           /\ Decoded(DecoderLayers) \notin Cached(DecoderLayers)
           /\ StatesMoved(states, DecoderLayers)
           /\ \A r \in DOMAIN request : ~finished[r] => buffers[Decoded(DecoderLayers)][<<r, 1>>] = Own(r)
  <1>1. PICK s : Runs(Recycles, TRUE, plan, s, StepMade) /\ Holds(s, TRUE)
    BY DEF PlanInv, Stepping
  <1>2. s = StepMade
    BY <1>1, RunsNone
  <1>3. s.held = Cached(DecoderLayers) \cup {Decoded(DecoderLayers)} /\ s.passed = DecoderLayers
    BY <1>2 DEF StepMade, Known
  <1> DEFINE last == Decoded(DecoderLayers)
  <1>4. last \notin Cached(DecoderLayers)
    BY DEF Cached, Key, Value, Decoded
  <1>5. Rank(last) = 3
    BY LayersAssumption, RankFacts
  <1>6. IsKnown(last, TRUE) /\ StatesMoved(states, s.passed)
    BY <1>1, <1>3 DEF Holds
  <1>7. OfTokens(buffers[last], 3)
    BY <1>5, <1>6 DEF IsKnown
  <1>8. \A r : Least(3, r) = Own(r)
    BY LeastFacts DEF StageInv
  <1> HIDE DEF last
  <1>9. \A r \in DOMAIN request : ~finished[r] => buffers[last][<<r, 1>>] = Own(r)
    BY <1>7, <1>8 DEF OfTokens
  <1>10. QED
    BY <1>1, <1>2, <1>3, <1>4, <1>6, <1>9 DEF last

LEMMA NextStates ==
    ASSUME step \in Nat, StatesMoved(states, DecoderLayers), UNCHANGED <<request, states>>,
           step' = step + 1, \A r \in DOMAIN request : ~finished'[r] => ~finished[r]
    PROVE  StatesMoved(states, 0)'
  <1>1. Lengths' = Lengths
    BY DEF Lengths
  <1>2. \A r : Source(r)' = Source(r)
    BY <1>1 DEF Source
  <1>3. \A r : Own(r) \subseteq Own(r)' /\ Tokens(r, step' - 1) = Tokens(r, step)
    <2>1. step' - 1 = step /\ 1 .. step \subseteq 1 .. step'
      OBVIOUS
    <2>2. \A r : Tokens(r, step) \subseteq Tokens(r, step')
      BY <2>1 DEF Tokens
    <2>3. QED
      BY <1>2, <2>1, <2>2 DEF Own
  <1>4. DOMAIN states' = 1 .. DecoderLayers
    BY DEF StatesMoved
  <1>5. ASSUME NEW l \in 1 .. DecoderLayers PROVE StateMoved(states[l], FALSE)'
    <2>0. l <= DecoderLayers
      BY LayersAssumption
    <2>1. StateMoved(states[l], TRUE)
      BY <2>0, Zenon DEF StatesMoved
    <2>2. /\ DOMAIN states[l] = DOMAIN request
          /\ \A r \in DOMAIN request :
                 ~finished[r] => states[l][r] \subseteq Own(r) /\ Tokens(r, step) \subseteq states[l][r]
      BY <2>1 DEF StateMoved
    <2>3. QED
      BY <2>2, <1>3 DEF StateMoved
  <1>6. \A l \in 1 .. DecoderLayers : ~(l <= 0)
    BY LayersAssumption
  <1>7. QED
    BY <1>4, <1>5, <1>6 DEF StatesMoved

LEMMA SelectFacts ==
    ASSUME Select
    PROVE  /\ stage = "decode" /\ plan = <<>> /\ stage' = "loop" /\ step' = step + 1
           /\ DOMAIN buffers' = DOMAIN buffers \ {Decoded(DecoderLayers)}
           /\ \A v \in DOMAIN buffers \ {Decoded(DecoderLayers)} : buffers'[v] = buffers[v]
           /\ UNCHANGED <<busy, request, plan, states>>
           /\ DOMAIN finished' = DOMAIN request /\ DOMAIN generated' = DOMAIN request
           /\ \A r \in DOMAIN request :
                  LET token == Selected(r, buffers[Decoded(DecoderLayers)][<<r, 1>>])
                  IN  /\ finished'[r] = (finished[r] \/ token = 0)
                      /\ generated'[r] = IF finished[r] THEN generated[r]
                                         ELSE Append(generated[r], token)
                      /\ previous'[r] = IF finished[r] THEN previous[r]
                                        ELSE {<<"token", r, step + 1>>}
  BY DEF Select

LEMMA SelectKeepsPlan ==
    ASSUME StageInv, PlanInv, Select, Recycles' = Recycles
    PROVE  PlanInv'
  <1>1. /\ stage = "decode" /\ plan = <<>> /\ stage' = "loop" /\ step' = step + 1
        /\ DOMAIN buffers' = DOMAIN buffers \ {Decoded(DecoderLayers)}
        /\ \A v \in DOMAIN buffers \ {Decoded(DecoderLayers)} : buffers'[v] = buffers[v]
        /\ UNCHANGED <<request, states>>
    BY SelectFacts
  <1>2. \A r \in DOMAIN request : ~finished'[r] => ~finished[r]
    BY SelectFacts
  <1>3. /\ Holds(StepMade, TRUE)
        /\ StepMade.held = Cached(DecoderLayers) \cup {Decoded(DecoderLayers)}
        /\ Decoded(DecoderLayers) \notin Cached(DecoderLayers)
        /\ StatesMoved(states, DecoderLayers)
    BY <1>1, StepFacts
  <1>4. \A v \in Cached(DecoderLayers) : v \in DOMAIN buffers /\ OfSource(buffers[v])
    BY <1>3, CachesHeld
  <1>5. \A v \in Cached(DecoderLayers) : v \in DOMAIN buffers' /\ buffers'[v] = buffers[v]
    BY <1>1, <1>3, <1>4
  <1>6. Recycles' => DOMAIN buffers' = Cached(DecoderLayers)
    <2>1. Recycles => DOMAIN buffers = Cached(DecoderLayers) \cup {Decoded(DecoderLayers)}
      BY <1>3 DEF Holds
    <2>2. QED
      BY <2>1, <1>1, <1>3
  <1>7. StatesMoved(states, 0)'
    BY <1>1, <1>2, <1>3, NextStates DEF StageInv
  <1>8. Holds(CachesMade, TRUE)'
    BY <1>1, <1>4, <1>5, <1>6, <1>7, CachesHold
  <1>9. QED
    BY <1>1, <1>8 DEF PlanInv

LEMMA WorkingKeepsPlan ==
    ASSUME ExecutorsTyped, StageInv, RequestInv, PlanInv, stage = "decode" => PreviousIsNewest,
           Working
    PROVE  PlanInv'
  <1>1. CASE Refuse \/ Fail \/ Return
    BY <1>1 DEF Refuse, Fail, Return, End, PlanInv
  <1>2. ASSUME stage # "idle", busy' = busy PROVE Recycles' = Recycles
    BY <1>2, KindStays DEF RequestInv
  <1>3. CASE BeginEncode
    BY <1>2, <1>3, EncodeBegins DEF BeginEncode
  <1>4. CASE RunNext
    <2>1. plan # <<>> /\ busy' = busy
      BY <1>4, RunNextFacts
    <2>2. stage # "idle"
      BY <2>1 DEF StageInv
    <2>3. QED
      BY <1>2, <1>4, <2>1, <2>2, OperationRuns
  <1>5. CASE BeginDecode
    BY <1>2, <1>5, DecodeBegins DEF BeginDecode
  <1>6. CASE BeginStep
    BY <1>2, <1>6, StepBegins DEF BeginStep
  <1>7. CASE Select
    BY <1>2, <1>7, SelectKeepsPlan, SelectFacts
  <1>8. QED
    BY <1>1, <1>3, <1>4, <1>5, <1>6, <1>7 DEF Working, Translate

-----------------------------------------------------------------------------
(* What a Q8 executor retains.                                                *)

LEMMA SameCardinality ==
    \A S : Finite!Cardinality(S) = Cardinality(S)
  BY Zenon DEF Finite!Cardinality, Cardinality

LEMMA Exchanged ==
    ASSUME NEW B, Finite!IsFiniteSet(B), NEW F, F \subseteq B, NEW x
    PROVE  /\ Finite!IsFiniteSet((B \ F) \cup {x})
           /\ Cardinality(B) \in Nat /\ Cardinality(F) \in Nat
           /\ Cardinality((B \ F) \cup {x}) \in Nat
           /\ Cardinality((B \ F) \cup {x}) <= Cardinality(B) - Cardinality(F) + 1
  <1> DEFINE R == B \ F
             T == R \cup {x}
  <1>1. Finite!IsFiniteSet(F)
    BY Finite!FS_Subset
  <1>2. B \cap F = F
    OBVIOUS
  <1>3. Finite!IsFiniteSet(R) /\ Finite!Cardinality(R) = Finite!Cardinality(B) - Finite!Cardinality(F)
    BY <1>2, Finite!FS_Difference
  <1> HIDE DEF R
  <1>4. /\ Finite!IsFiniteSet(T)
        /\ Finite!Cardinality(T) = Finite!Cardinality(R)
           \/ Finite!Cardinality(T) = Finite!Cardinality(R) + 1
    BY <1>3, Finite!FS_AddElement
  <1> HIDE DEF T
  <1>5. /\ Finite!Cardinality(B) \in Nat /\ Finite!Cardinality(F) \in Nat
        /\ Finite!Cardinality(R) \in Nat /\ Finite!Cardinality(T) \in Nat
    BY <1>1, <1>3, <1>4, Finite!FS_CardinalityType
  <1>6. Finite!Cardinality(T) <= Finite!Cardinality(B) - Finite!Cardinality(F) + 1
    BY <1>3, <1>4, <1>5
  <1>7. /\ Finite!IsFiniteSet(T)
        /\ Cardinality(B) \in Nat /\ Cardinality(F) \in Nat /\ Cardinality(T) \in Nat
        /\ Cardinality(T) <= Cardinality(B) - Cardinality(F) + 1
    BY <1>4, <1>5, <1>6, SameCardinality
  <1>8. QED
    BY <1>7 DEF T, R

LEMMA NoBuffers == Cardinality(DOMAIN <<>>) = 0
  <1>1. Finite!Cardinality({}) = 0
    BY Finite!FS_EmptySet
  <1>2. Cardinality({}) = 0
    BY <1>1, SameCardinality
  <1>3. QED
    BY <1>2, EmptyFacts

Retained(w) == executors[w].pooled + (IF w = busy THEN Cardinality(DOMAIN buffers) ELSE 0)

RetainInv ==
    \A w \in DOMAIN executors :
        /\ executors[w].pooled \in Nat
        /\ executors[w].kind = "q8" => Retained(w) <= MostBuffers

\* Taking one buffer for a result and recycling those that are no longer needed.
LEMMA PoolMoves ==
    ASSUME NEW p \in Nat, NEW b \in Nat, NEW f \in Nat, NEW c \in Nat, c <= b - f + 1,
           b + 1 <= MostBuffers, p + b <= MostBuffers
    PROVE  /\ Recycle(TakeBuffer(p), f) \in Nat
           /\ Recycle(TakeBuffer(p), f) + c <= MostBuffers
  <1> DEFINE t == TakeBuffer(p)
             n == t + f
  <1>1. t \in Nat /\ (p = 0 => t = 0) /\ (p # 0 => t = p - 1)
    BY DEF TakeBuffer
  <1> HIDE DEF t
  <1>2. n \in Nat /\ n + c <= MostBuffers
    BY <1>1, MostFacts
  <1>3. Recycle(t, f) = Min({n, 32})
    BY DEF Recycle
  <1> HIDE DEF n
  <1>4. Min({n, 32}) \in Nat /\ Min({n, 32}) <= n
    <2> DEFINE S == {n, 32}
    <2>1. \E x \in S : \A y \in S : x =< y
      BY <1>2
    <2>2. n \in S /\ S \subseteq Nat
      BY <1>2
    <2>3. Min(S) \in S /\ \A y \in S : Min(S) =< y
      <3> HIDE DEF S
      <3>1. QED
        BY <2>1 DEF Min
    <2> HIDE DEF S
    <2>4. Min(S) \in Nat /\ Min(S) <= n
      BY <2>2, <2>3
    <2>5. QED
      BY <2>4 DEF S
  <1>5. QED
    BY <1>2, <1>3, <1>4, MostFacts DEF t

LEMMA RecycledOne ==
    ASSUME NEW p \in Nat, NEW b \in Nat, NEW c \in Nat, c + 1 <= b, p + b <= MostBuffers
    PROVE  Recycle(p, 1) \in Nat /\ Recycle(p, 1) + c <= MostBuffers
  <1> DEFINE n == p + 1
  <1>1. n \in Nat /\ n + c <= MostBuffers
    BY MostFacts
  <1>2. Recycle(p, 1) = Min({n, 32})
    BY DEF Recycle
  <1> HIDE DEF n
  <1>3. Min({n, 32}) \in Nat /\ Min({n, 32}) <= n
    <2> DEFINE S == {n, 32}
    <2>1. \E x \in S : \A y \in S : x =< y
      BY <1>1
    <2>2. n \in S /\ S \subseteq Nat
      BY <1>1
    <2>3. Min(S) \in S /\ \A y \in S : Min(S) =< y
      <3> HIDE DEF S
      <3>1. QED
        BY <2>1 DEF Min
    <2> HIDE DEF S
    <2>4. Min(S) \in Nat /\ Min(S) <= n
      BY <2>2, <2>3
    <2>5. QED
      BY <2>4 DEF S
  <1>4. QED
    BY <1>1, <1>2, <1>3, MostFacts

LEMMA NewPool ==
    ASSUME ExecutorsTyped, busy \in DOMAIN executors, NEW p,
           executors' = [executors EXCEPT ![busy].pooled = p]
    PROVE  /\ DOMAIN executors' = DOMAIN executors
           /\ executors'[busy].pooled = p
           /\ executors'[busy].kind = executors[busy].kind
           /\ \A w \in DOMAIN executors : w # busy => executors'[w] = executors[w]
  <1> DEFINE d == executors[busy]
             e == [d EXCEPT !.pooled = p]
  <1>1. d = [kind |-> d.kind, load |-> d.load, place |-> d.place, model |-> d.model,
             shortlist |-> d.shortlist, pooled |-> d.pooled]
    BY DEF ExecutorsTyped, IsExecutor
  <1>2. e.pooled = p /\ e.kind = d.kind
    <2> HIDE DEF d
    <2>1. QED
      BY <1>1
  <1>3. executors' = [executors EXCEPT ![busy] = e]
    OBVIOUS
  <1> HIDE DEF e
  <1>4. QED
    BY <1>2, <1>3

\* A step of the engine that leaves the other executors alone.
LEMMA RetainedMoves ==
    ASSUME ExecutorsTyped, RetainInv, busy \in DOMAIN executors, busy' = busy, NEW p,
           executors' = [executors EXCEPT ![busy].pooled = p], p \in Nat,
           Recycles => p + Cardinality(DOMAIN buffers') <= MostBuffers
    PROVE  RetainInv'
  <1>1. /\ DOMAIN executors' = DOMAIN executors
        /\ executors'[busy].pooled = p
        /\ executors'[busy].kind = executors[busy].kind
        /\ \A w \in DOMAIN executors : w # busy => executors'[w] = executors[w]
    BY NewPool
  <1>2. ASSUME NEW w \in DOMAIN executors'
        PROVE  /\ executors'[w].pooled \in Nat
               /\ executors'[w].kind = "q8" => Retained(w)' <= MostBuffers
    <2>1. CASE w = busy
      <3>1. Retained(w)' = p + Cardinality(DOMAIN buffers')
        BY <2>1, <1>1 DEF Retained
      <3>2. QED
        BY <2>1, <3>1, <1>1 DEF Recycles
    <2>2. CASE w # busy
      <3>1. executors'[w] = executors[w] /\ w \in DOMAIN executors
        BY <2>2, <1>1
      <3>2. Retained(w)' = executors[w].pooled + 0 /\ Retained(w) = executors[w].pooled + 0
        BY <2>2, <3>1 DEF Retained
      <3>3. QED
        BY <3>1, <3>2 DEF RetainInv
    <2>3. QED
      BY <2>1, <2>2
  <1>3. MostBuffers' = MostBuffers
    BY DEF MostBuffers
  <1>4. QED
    BY <1>2, <1>3 DEF RetainInv

\* With no buffer in use, a pool has no more than before.
LEMMA RetainedAtRest ==
    ASSUME ExecutorsTyped', RetainInv, buffers' = <<>>,
           \A w \in DOMAIN executors' :
               \/ executors'[w].pooled = 0
               \/ w \in DOMAIN executors /\ executors'[w] = executors[w],
           Recycles /\ busy \in DOMAIN executors => Cardinality(DOMAIN buffers) \in Nat
    PROVE  RetainInv'
  <1>1. ASSUME NEW w \in DOMAIN executors'
        PROVE  /\ executors'[w].pooled \in Nat
               /\ executors'[w].kind = "q8" => Retained(w)' <= MostBuffers
    <2> DEFINE n == Cardinality(DOMAIN buffers')
    <2>1. n = 0
      BY NoBuffers
    <2> HIDE DEF n
    <2>2. Retained(w)' = executors'[w].pooled + 0
      BY <2>1 DEF Retained, n
    <2>3. CASE executors'[w].pooled = 0
      BY <2>2, <2>3, MostFacts
    <2>4. CASE w \in DOMAIN executors /\ executors'[w] = executors[w]
      <3>1. executors[w].pooled \in Nat /\ (executors[w].kind = "q8" => Retained(w) <= MostBuffers)
        BY <2>4 DEF RetainInv
      <3>2. executors[w].kind = "q8" => executors[w].pooled <= Retained(w) /\ Retained(w) \in Nat
        <4>1. CASE w = busy
          BY <2>4, <3>1, <4>1 DEF Retained, Recycles
        <4>2. CASE w # busy
          BY <3>1, <4>2 DEF Retained
        <4>3. QED
          BY <4>1, <4>2
      <3>3. QED
        BY <2>2, <2>4, <3>1, <3>2, MostFacts
    <2>5. QED
      BY <2>3, <2>4
  <1>2. MostBuffers' = MostBuffers
    BY DEF MostBuffers
  <1>3. QED
    BY <1>1, <1>2 DEF RetainInv

LEMMA SameRetained ==
    ASSUME RetainInv, UNCHANGED <<executors, busy, buffers>>
    PROVE  RetainInv'
  BY DEF RetainInv, Retained, MostBuffers

\* What the Q8 engine refers to is finite.
LEMMA BuffersAreFinite ==
    ASSUME StageInv, RequestInv, PlanInv, busy \in DOMAIN executors => stage # "idle",
           Recycles, busy \in DOMAIN executors
    PROVE  Finite!IsFiniteSet(DOMAIN buffers)
  <1>1. AtMost(Cached(DecoderLayers), 2 * DecoderLayers)
    BY LayersAssumption, CachedFacts
  <1>2. Finite!IsFiniteSet(Cached(DecoderLayers))
    BY <1>1 DEF AtMost
  <1>3. Finite!IsFiniteSet(Cached(DecoderLayers) \cup {Decoded(DecoderLayers)})
    BY <1>2, Finite!FS_AddElement
  <1>4. CASE stage = "begin"
    <2>1. DOMAIN buffers = {}
      BY <1>4, EmptyFacts DEF RequestInv
    <2>2. Finite!IsFiniteSet({})
      BY Finite!FS_EmptySet
    <2>3. QED
      BY <2>1, <2>2
  <1>5. ASSUME NEW decoding, NEW s, NEW t, Runs(Recycles, decoding, plan, s, t),
               Holds(s, decoding), Finite!IsFiniteSet(t.held)
        PROVE  Finite!IsFiniteSet(DOMAIN buffers)
    <2>1. DOMAIN buffers = s.held
      BY <1>5 DEF Holds
    <2>2. CASE plan = <<>>
      <3>1. s = t
        BY <1>5, <2>2, RunsNone
      <3>2. QED
        BY <1>5, <2>1, <3>1
    <2>3. CASE plan # <<>>
      <3>1. PICK m : Fits(Recycles, decoding, Head(plan), s, m)
        BY <1>5, <2>3, RunsHead
      <3>2. HasRoom(s.held)
        BY <3>1 DEF Fits, Keeps
      <3>3. QED
        BY <2>1, <3>2 DEF HasRoom
    <2>4. QED
      BY <2>2, <2>3
  <1>6. CASE stage = "encode"
    <2>1. PICK s : Runs(Recycles, FALSE, plan, s, CachesMade) /\ Holds(s, FALSE)
      BY <1>6 DEF PlanInv, Encoding
    <2>2. CachesMade.held = Cached(DecoderLayers)
      BY DEF CachesMade, Known
    <2>3. QED
      BY <2>1, <2>2, <1>2, <1>5
  <1>7. CASE stage = "decode"
    <2>1. PICK s : Runs(Recycles, TRUE, plan, s, StepMade) /\ Holds(s, TRUE)
      BY <1>7 DEF PlanInv, Stepping
    <2>2. StepMade.held = Cached(DecoderLayers) \cup {Decoded(DecoderLayers)}
      BY DEF StepMade, Known
    <2>3. QED
      BY <2>1, <2>2, <1>3, <1>5
  <1>8. CASE stage \in {"loop", "output"}
    <2>1. DOMAIN buffers = CachesMade.held
      BY <1>8 DEF PlanInv, Holds
    <2>2. CachesMade.held = Cached(DecoderLayers)
      BY DEF CachesMade, Known
    <2>3. QED
      BY <2>1, <2>2, <1>2
  <1>9. QED
    BY <1>4, <1>6, <1>7, <1>8 DEF StageInv, Stages

\* The next operation has room for its result, and frees what is in use.
LEMMA OperationHasRoom ==
    ASSUME StageInv, PlanInv, plan # <<>>, Recycles
    PROVE  HasRoom(DOMAIN buffers) /\ Head(plan).frees \subseteq DOMAIN buffers
  <1>1. ASSUME NEW decoding, NEW s, NEW t, Runs(Recycles, decoding, plan, s, t), Holds(s, decoding)
        PROVE  HasRoom(DOMAIN buffers) /\ Head(plan).frees \subseteq DOMAIN buffers
    <2>1. DOMAIN buffers = s.held
      BY <1>1 DEF Holds
    <2>2. PICK m : Fits(Recycles, decoding, Head(plan), s, m)
      BY <1>1, RunsHead
    <2>3. HasRoom(s.held) /\ Head(plan).frees \subseteq s.held
      BY <2>2 DEF Fits, Keeps
    <2>4. QED
      BY <2>1, <2>3
  <1>2. stage = "encode" \/ stage = "decode"
    BY DEF StageInv, Stages
  <1>3. CASE stage = "encode"
    BY <1>1, <1>3 DEF PlanInv, Encoding
  <1>4. CASE stage = "decode"
    BY <1>1, <1>4 DEF PlanInv, Stepping
  <1>5. QED
    BY <1>2, <1>3, <1>4

LEMMA OperationRetains ==
    ASSUME ExecutorsTyped, StageInv, PlanInv, RetainInv, busy \in DOMAIN executors, RunNext
    PROVE  RetainInv'
  <1> DEFINE op == Head(plan)
             q == Pooled(op)
  <1>1. /\ plan # <<>> /\ busy' = busy
        /\ DOMAIN buffers' = (DOMAIN buffers \ op.frees) \cup {op.makes}
        /\ executors' = [executors EXCEPT ![busy].pooled = q]
    BY RunNextFacts
  <1> HIDE DEF op
  <1>2. q \in Nat /\ (Recycles => q + Cardinality(DOMAIN buffers') <= MostBuffers)
    <2>1. CASE Recycles
      <3> DEFINE B == DOMAIN buffers
                 F == op.frees
                 p == executors[busy].pooled
                 b == Cardinality(B)
                 f == Cardinality(F)
                 c == Cardinality(DOMAIN buffers')
      <3>1. HasRoom(B) /\ F \subseteq B
        BY <1>1, <2>1, OperationHasRoom DEF op
      <3>2. Finite!IsFiniteSet(B)
        BY <3>1 DEF HasRoom
      <3>3. b + 1 <= MostBuffers
        BY <3>1, SameCardinality DEF HasRoom
      <3> HIDE DEF B, F
      <3>4. b \in Nat /\ f \in Nat
        BY <3>1, <3>2, Exchanged
      <3>5. c \in Nat /\ c <= b - f + 1
        BY <3>1, <3>2, <1>1, Exchanged DEF B, F
      <3>6. p \in Nat /\ p + b <= MostBuffers
        BY <2>1 DEF RetainInv, Retained, Recycles, B
      <3>7. q = Recycle(TakeBuffer(p), f)
        BY <2>1 DEF Pooled, Recycles, F
      <3> HIDE DEF b, c, f, p, q
      <3>8. q \in Nat /\ q + c <= MostBuffers
        BY <3>3, <3>4, <3>5, <3>6, <3>7, PoolMoves
      <3>9. QED
        BY <3>8 DEF c
    <2>2. CASE ~Recycles
      BY <2>2 DEF Pooled, Recycles
    <2>3. QED
      BY <2>1, <2>2
  <1> HIDE DEF q
  <1>3. QED
    BY <1>1, <1>2, RetainedMoves

LEMMA SelectRetains ==
    ASSUME ExecutorsTyped, StageInv, PlanInv, RetainInv, busy \in DOMAIN executors,
           Finite!IsFiniteSet(DOMAIN buffers) \/ ~Recycles, Select
    PROVE  RetainInv'
  <1> DEFINE last == Decoded(DecoderLayers)
             p == executors[busy].pooled
             q == IF Recycles THEN Recycle(p, 1) ELSE 0
  <1>1. stage = "decode" /\ plan = <<>> /\ busy' = busy /\ DOMAIN buffers' = DOMAIN buffers \ {last}
    BY SelectFacts
  <1>2. executors' = [executors EXCEPT ![busy].pooled = q]
    BY DEF Select, Recycles
  <1>3. q \in Nat /\ (Recycles => q + Cardinality(DOMAIN buffers') <= MostBuffers)
    <2>1. CASE Recycles
      <3> DEFINE B == DOMAIN buffers
                 b == Cardinality(B)
                 c == Cardinality(B \ {last})
      <3>1. last \in B
        BY <1>1, StepFacts DEF Holds
      <3>2. Finite!IsFiniteSet(B)
        BY <2>1
      <3> HIDE DEF B, last
      <3>3. Finite!IsFiniteSet(B \ {last}) /\ Finite!Cardinality(B \ {last}) = Finite!Cardinality(B) - 1
        BY <3>1, <3>2, Finite!FS_RemoveElement
      <3>4. Finite!Cardinality(B) \in Nat /\ Finite!Cardinality(B \ {last}) \in Nat
        BY <3>2, <3>3, Finite!FS_CardinalityType
      <3>5. b \in Nat /\ c \in Nat /\ c + 1 <= b
        BY <3>3, <3>4, SameCardinality
      <3>6. p \in Nat /\ p + b <= MostBuffers
        BY <2>1 DEF RetainInv, Retained, Recycles, B
      <3>7. q = Recycle(p, 1)
        BY <2>1
      <3>8. c = Cardinality(DOMAIN buffers')
        BY <1>1 DEF B
      <3> HIDE DEF b, c, p, q
      <3>9. q \in Nat /\ q + c <= MostBuffers
        BY <3>5, <3>6, <3>7, RecycledOne
      <3>10. QED
        BY <3>8, <3>9
    <2>2. CASE ~Recycles
      BY <2>2
    <2>3. QED
      BY <2>1, <2>2
  <1> HIDE DEF q
  <1>4. QED
    BY <1>1, <1>2, <1>3, RetainedMoves

LEMMA IdleIsNotBusy ==
    ASSUME ExecutorsTyped, RequestInv, stage = "idle"
    PROVE  busy \notin DOMAIN executors /\ buffers = <<>>
  <1>1. DOMAIN executors = 1 .. Len(executors)
    BY SeqFacts DEF ExecutorsTyped
  <1>2. QED
    BY <1>1 DEF RequestInv

LEMMA RetainNext ==
    ASSUME StageInv, RequestInv, ResolvedInv, IsolateInv, PoolsInv, PlanInv, RetainInv, [Next]_vars
    PROVE  RetainInv'
  <1>1. ExecutorsTyped /\ ExecutorsTyped'
    BY PoolsNext DEF PoolsInv
  <1>2. busy \in DOMAIN executors => stage # "idle"
    BY <1>1, IdleIsNotBusy
  <1>3. stage # "idle" => busy \in DOMAIN executors
    BY DEF RequestInv
  <1>4. Recycles /\ busy \in DOMAIN executors => Finite!IsFiniteSet(DOMAIN buffers)
    BY <1>2, BuffersAreFinite
  <1>5. Recycles /\ busy \in DOMAIN executors => Cardinality(DOMAIN buffers) \in Nat
    <2>1. Finite!IsFiniteSet(DOMAIN buffers) => Finite!Cardinality(DOMAIN buffers) \in Nat
      BY Finite!FS_CardinalityType
    <2>2. QED
      BY <2>1, <1>4, SameCardinality
  <1>6. CASE Working
    <2>1. CASE Refuse \/ Fail \/ Return
      <3>1. executors' = executors /\ buffers' = <<>>
        BY <2>1 DEF Refuse, Fail, Return, End
      <3>2. QED
        BY <3>1, <1>1, <1>5, RetainedAtRest
    <2>2. CASE BeginEncode \/ BeginDecode \/ BeginStep
      BY <2>2, SameRetained DEF BeginEncode, BeginDecode, BeginStep
    <2>3. CASE RunNext
      <3>1. stage # "idle"
        BY <2>3, RunNextFacts DEF StageInv
      <3>2. QED
        BY <2>3, <3>1, <1>1, <1>3, OperationRetains
    <2>4. CASE Select
      <3>1. stage # "idle"
        BY <2>4, SelectFacts
      <3>2. QED
        BY <2>4, <3>1, <1>1, <1>3, <1>4, SelectRetains
    <2>5. QED
      BY <1>6, <2>1, <2>2, <2>3, <2>4 DEF Working, Translate
  <1>7. CASE Beginning
    <2>1. PICK w \in DOMAIN executors : Begin(w)
      BY <1>7 DEF Beginning
    <2>2. executors' = executors /\ buffers' = buffers /\ stage = "idle"
      BY <2>1 DEF Begin
    <2>3. buffers' = <<>>
      BY <2>2, <1>1, IdleIsNotBusy
    <2>4. QED
      BY <2>2, <2>3, <1>1, <1>5, RetainedAtRest
  <1>8. CASE Resting
    BY <1>8, SameRetained DEF Resting, engine, request_vars
  <1>9. CASE Making
    <2>1. buffers' = <<>>
      BY <1>9, <1>1, IdleIsNotBusy DEF Making, request_vars
    <2>2. QED
      BY <2>1, <1>1, <1>5, <1>9, RetainedAtRest DEF Making, NewPools
  <1>10. QED
    BY <1>6, <1>7, <1>8, <1>9, StepKinds

LEMMA RetainInit == Init => RetainInv
  BY EmptyFacts DEF Init, RetainInv

-----------------------------------------------------------------------------
(* What has been generated.                                                   *)

Counted(n) == [i \in 1 .. n |-> i]

LEMMA ReferenceFacts ==
    ASSUME NEW row
    PROVE  Decoding!Reference(row) =
               [i \in 1 .. IF row.wants < Limit(row) THEN row.wants ELSE Limit(row) |->
                   IF i = row.wants THEN 0 ELSE i]
  BY DEF Decoding!Reference, Decoding!Token, Decoding!Eos

LEMMA CountedFacts ==
    ASSUME NEW n \in Nat
    PROVE  /\ IsSeq(Counted(n)) /\ Len(Counted(n)) = n /\ \A i \in 1 .. n : Counted(n)[i] = i
           /\ Append(Counted(n), n + 1) = Counted(n + 1)
           /\ \A t : Append(Counted(n), t) = [i \in 1 .. n + 1 |-> IF i = n + 1 THEN t ELSE i]
  <1> DEFINE f == Counted(n)
  <1>1. f = [k \in 1 .. n |-> f[k]] /\ \A i \in 1 .. n : f[i] = i
    BY DEF Counted
  <1> HIDE DEF f
  <1>2. IsSeq(f) /\ DOMAIN f = 1 .. n /\ Len(f) = n
    BY <1>1, ListFacts
  <1>3. \A t : Append(f, t) = [i \in 1 .. n + 1 |-> IF i = n + 1 THEN t ELSE i]
    <2> TAKE t
    <2> DEFINE m == n + 1
               g == [i \in 1 .. m |-> IF i = m THEN t ELSE i]
               a == Append(f, t)
    <2>1. IsSeq(a) /\ Len(a) = n + 1 /\ (\A k \in 1 .. n : a[k] = f[k]) /\ a[n + 1] = t
      BY <1>2, AppendFacts
    <2>2. g = [i \in 1 .. m |-> g[i]] /\ m \in Nat
      OBVIOUS
    <2>3. \A k \in 1 .. m : g[k] = IF k = m THEN t ELSE k
      OBVIOUS
    <2> HIDE DEF g
    <2>4. IsSeq(g) /\ Len(g) = m
      <3> HIDE DEF m
      <3>1. QED
        BY <2>2, ListFacts
    <2>5. \A k \in 1 .. Len(a) : a[k] = g[k]
      <3>1. \A k \in 1 .. n + 1 : k \in 1 .. n \/ k = n + 1
        OBVIOUS
      <3>2. \A k \in 1 .. n : k # n + 1
        OBVIOUS
      <3> HIDE DEF a
      <3>3. QED
        BY <2>1, <2>3, <3>1, <3>2, <1>1
    <2> HIDE DEF a
    <2>6. a = g
      BY <2>1, <2>4, <2>5, SameSeq
    <2>7. QED
      BY <2>6 DEF a, g
  <1>4. Counted(n + 1) = [i \in 1 .. n + 1 |-> IF i = n + 1 THEN n + 1 ELSE i]
    BY DEF Counted
  <1>5. QED
    BY <1>1, <1>2, <1>3, <1>4 DEF f

\* A text that ends with the end of the sentence, or for want of room.
LEMMA TextsEnd ==
    ASSUME NEW row, RowFits(row), NEW n \in Nat, n < row.wants, n <= Limit(row)
    PROVE  /\ n = Limit(row) => Counted(n) = Decoding!Reference(row)
           /\ n + 1 = row.wants /\ n < Limit(row) => Append(Counted(n), 0) = Decoding!Reference(row)
  <1> DEFINE wants == row.wants
             limit == Limit(row)
  <1>1. wants \in Nat /\ limit \in Nat
    BY DEF RowFits
  <1>2. Decoding!Reference(row) =
            [i \in 1 .. IF wants < limit THEN wants ELSE limit |-> IF i = wants THEN 0 ELSE i]
    BY ReferenceFacts
  <1> HIDE DEF wants, limit
  <1>3. ASSUME n = limit PROVE Counted(n) = Decoding!Reference(row)
    <2>1. (IF wants < limit THEN wants ELSE limit) = n
      BY <1>1, <1>3 DEF wants
    <2>2. \A i \in 1 .. n : i # wants
      BY <1>1 DEF wants
    <2>3. QED
      BY <2>1, <2>2, <1>2 DEF Counted
  <1>4. ASSUME n + 1 = wants, n < limit PROVE Append(Counted(n), 0) = Decoding!Reference(row)
    <2>1. (IF wants < limit THEN wants ELSE limit) = n + 1
      BY <1>1, <1>4
    <2>2. Append(Counted(n), 0) = [i \in 1 .. n + 1 |-> IF i = n + 1 THEN 0 ELSE i]
      BY CountedFacts
    <2>3. QED
      BY <2>1, <2>2, <1>2, <1>4
  <1>5. QED
    BY <1>3, <1>4 DEF wants, limit

RowText(r) ==
    IF finished[r] THEN generated[r] = Decoding!Reference(request[r])
    ELSE /\ generated[r] = Counted(step)
         /\ step < request[r].wants
         /\ step <= Limit(request[r])

TextInv ==
    stage \in {"loop", "decode", "output"} =>
        /\ DOMAIN finished = DOMAIN request
        /\ DOMAIN generated = DOMAIN request
        /\ \A r \in DOMAIN request : finished[r] \in BOOLEAN /\ RowText(r)
        /\ PreviousIsNewest
        /\ stage = "decode" => \A r \in DOMAIN request : finished[r] \/ step < Limit(request[r])
        /\ stage = "output" => \A r \in DOMAIN request : finished[r]

LEMMA TextBegins ==
    ASSUME StageInv, RequestInv, BeginDecode
    PROVE  TextInv'
  <1>1. /\ stage = "encode" /\ stage' = "loop" /\ step' = 0
        /\ finished' = [r \in DOMAIN request |-> FALSE]
        /\ previous' = [r \in DOMAIN request |-> {}]
        /\ UNCHANGED <<request, generated>>
    BY DEF BeginDecode
  <1>2. generated = [r \in DOMAIN request |-> <<>>] /\ request \in Batches
    BY <1>1 DEF RequestInv, StageInv
  <1>3. \A r \in DOMAIN request : RowFits(request[r])
    BY <1>2, RequestFacts
  <1>4. Counted(0) = <<>>
    BY DEF Counted
  <1>5. \A r \in DOMAIN request :
            0 < request[r].wants /\ 0 <= Limit(request[r]) /\ finished'[r] = FALSE
    BY <1>1, <1>3 DEF RowFits
  <1>6. \A r : Limit(request'[r]) = Limit(request[r]) /\ Limit(request[r])' = Limit(request[r])
    BY <1>1 DEF Limit
  <1>7. \A r \in DOMAIN request : RowText(r)'
    BY <1>1, <1>2, <1>4, <1>5, <1>6 DEF RowText
  <1>8. PreviousIsNewest'
    BY <1>1 DEF PreviousIsNewest, Newest
  <1>9. DOMAIN finished' = DOMAIN request' /\ DOMAIN generated' = DOMAIN request'
    BY <1>1, <1>2
  <1>10. QED
    BY <1>1, <1>5, <1>7, <1>8, <1>9 DEF TextInv

LEMMA TextAtStep ==
    ASSUME StageInv, TextInv, BeginStep
    PROVE  TextInv'
  <1> DEFINE ended == [r \in DOMAIN request |-> finished[r] \/ step >= Limit(request[r])]
  <1>1. /\ stage = "loop" /\ step < GenerationLimit /\ finished' = ended
        /\ stage' = IF \A r \in DOMAIN request : ended[r] THEN "output" ELSE "decode"
        /\ UNCHANGED <<request, previous, step, generated>>
    BY DEF BeginStep
  <1>2. /\ DOMAIN finished = DOMAIN request /\ DOMAIN generated = DOMAIN request
        /\ \A r \in DOMAIN request : finished[r] \in BOOLEAN /\ RowText(r)
        /\ PreviousIsNewest /\ request \in Batches /\ step \in Nat
    BY <1>1 DEF TextInv, StageInv
  <1>3. \A r \in DOMAIN request : RowFits(request[r])
    BY <1>2, RequestFacts
  <1>4. \A r \in DOMAIN request : ended[r] = (finished[r] \/ step >= Limit(request[r]))
    OBVIOUS
  <1>5. DOMAIN ended = DOMAIN request
    OBVIOUS
  <1> HIDE DEF ended
  <1>6. ASSUME NEW r \in DOMAIN request
        PROVE  /\ finished'[r] \in BOOLEAN /\ RowText(r)'
               /\ finished'[r] \/ step' < Limit(request'[r])
               /\ finished[r] => finished'[r]
    <2>1. finished'[r] = (finished[r] \/ step >= Limit(request[r]))
      BY <1>1, <1>4
    <2>2. Limit(request[r]) \in Nat
      BY <1>3 DEF RowFits
    <2>3. request'[r] = request[r] /\ generated'[r] = generated[r] /\ step' = step
      BY <1>1
    <2>4. CASE finished[r]
      <3>1. generated[r] = Decoding!Reference(request[r]) /\ finished'[r] = TRUE
        BY <2>1, <2>4, <1>2 DEF RowText
      <3>2. QED
        BY <3>1, <2>3, <2>4 DEF RowText
    <2>5. CASE ~finished[r] /\ step >= Limit(request[r])
      <3>1. generated[r] = Counted(step) /\ step < request[r].wants /\ step <= Limit(request[r])
        BY <2>5, <1>2 DEF RowText
      <3>2. step = Limit(request[r])
        BY <3>1, <2>2, <2>5, <1>2
      <3>3. generated[r] = Decoding!Reference(request[r])
        BY <3>1, <3>2, <1>2, <1>3, TextsEnd
      <3>4. finished'[r] = TRUE
        BY <2>1, <2>5
      <3>5. QED
        BY <3>3, <3>4, <2>3 DEF RowText
    <2>6. CASE ~finished[r] /\ ~(step >= Limit(request[r]))
      <3>1. generated[r] = Counted(step) /\ step < request[r].wants /\ step <= Limit(request[r])
        BY <2>6, <1>2 DEF RowText
      <3>2. finished'[r] = FALSE /\ step < Limit(request[r])
        BY <2>1, <2>2, <2>6, <1>2
      <3>3. step' < Limit(request'[r])
        BY <3>2, <2>3
      <3>4. RowText(r)'
        BY <3>1, <3>2, <2>3 DEF RowText
      <3>5. QED
        BY <3>2, <3>3, <3>4, <2>6
    <2>7. QED
      BY <2>4, <2>5, <2>6
  <1>7. PreviousIsNewest'
    BY <1>1, <1>2, <1>6 DEF PreviousIsNewest, Newest
  <1>8. stage' = "output" => \A r \in DOMAIN request' : finished'[r]
    BY <1>1
  <1>9. DOMAIN finished' = DOMAIN request' /\ DOMAIN generated' = DOMAIN request'
    BY <1>1, <1>2, <1>5
  <1>10. QED
    BY <1>1, <1>6, <1>7, <1>8, <1>9 DEF TextInv

LEMMA CutFacts ==
    ASSUME NEW s, IsSeq(s), NEW n \in Nat, n <= Len(s)
    PROVE  /\ IsSeq(SubSeq(s, 1, n)) /\ Len(SubSeq(s, 1, n)) = n
           /\ \A i \in 1 .. n : SubSeq(s, 1, n)[i] = s[i]
  <1> DEFINE E == Elements(s)
             c == SubSeq(s, 1, n)
  <1>1. s \in Seq(E) /\ Len(s) \in Nat
    BY SeqFacts DEF IsSeq
  <1> HIDE DEF E
  <1>2. n = 0 \/ 1 <= n
    OBVIOUS
  <1>3. c \in Seq(E) /\ Len(c) = n /\ \A i \in 1 .. n : c[i] = s[i]
    BY <1>1, <1>2
  <1> HIDE DEF c
  <1>4. IsSeq(c)
    BY <1>3, IsSeqOf
  <1>5. QED
    BY <1>3, <1>4 DEF c

LEMMA PrefixFacts ==
    ASSUME NEW s, IsSeq(s), NEW t, IsSeq(t), Len(s) <= Len(t), \A i \in 1 .. Len(s) : t[i] = s[i]
    PROVE  Decoding!IsPrefix(s, t)
  <1> DEFINE n == Len(s)
             a == SubSeq(s, 1, n)
             b == SubSeq(t, 1, n)
  <1>1. n \in Nat /\ n <= Len(s) /\ n <= Len(t)
    BY SeqFacts
  <1>2. IsSeq(a) /\ Len(a) = n /\ \A i \in 1 .. n : a[i] = s[i]
    <2> HIDE DEF n
    <2>1. QED
      BY <1>1, CutFacts
  <1>3. IsSeq(b) /\ Len(b) = n /\ \A i \in 1 .. n : b[i] = t[i]
    <2> HIDE DEF n
    <2>1. QED
      BY <1>1, CutFacts
  <1>4. a = b
    <2>1. \A i \in 1 .. Len(a) : a[i] = b[i]
      BY <1>2, <1>3
    <2> HIDE DEF a, b
    <2>2. QED
      BY <2>1, <1>2, <1>3, SameSeq
  <1>5. QED
    BY <1>1, <1>4 DEF Decoding!IsPrefix

LEMMA SamePrefix == ASSUME NEW s, IsSeq(s) PROVE Decoding!IsPrefix(s, s)
  <1>1. Len(s) \in Nat
    BY SeqFacts
  <1>2. QED
    BY <1>1, PrefixFacts

LEMMA ReferenceIsSeq ==
    ASSUME NEW row, RowFits(row)
    PROVE  /\ IsSeq(Decoding!Reference(row))
           /\ Len(Decoding!Reference(row)) = IF row.wants < Limit(row) THEN row.wants ELSE Limit(row)
           /\ \A i \in 1 .. Len(Decoding!Reference(row)) :
                  Decoding!Reference(row)[i] = IF i = row.wants THEN 0 ELSE i
  <1> DEFINE f == Decoding!Reference(row)
             n == IF row.wants < Limit(row) THEN row.wants ELSE Limit(row)
  <1>1. n \in Nat
    BY DEF RowFits
  <1>2. f = [i \in 1 .. n |-> IF i = row.wants THEN 0 ELSE i]
    BY ReferenceFacts
  <1> HIDE DEF f, n
  <1>3. f = [k \in 1 .. n |-> f[k]] /\ \A i \in 1 .. n : f[i] = IF i = row.wants THEN 0 ELSE i
    BY <1>2
  <1>4. IsSeq(f) /\ Len(f) = n
    BY <1>1, <1>3, ListFacts
  <1>5. QED
    BY <1>3, <1>4 DEF f, n

\* The text of an unfinished row, and one more token, grow along the reference.
LEMMA CountedIsPrefix ==
    ASSUME NEW row, RowFits(row), NEW n \in Nat, n < row.wants, n <= Limit(row)
    PROVE  Decoding!IsPrefix(Counted(n), Decoding!Reference(row))
  <1> DEFINE f == Decoding!Reference(row)
             s == Counted(n)
  <1>1. IsSeq(f) /\ n <= Len(f) /\ \A i \in 1 .. n : f[i] = i
    <2>1. row.wants \in Nat /\ Limit(row) \in Nat
      BY DEF RowFits
    <2>2. /\ IsSeq(f) /\ Len(f) = IF row.wants < Limit(row) THEN row.wants ELSE Limit(row)
          /\ \A i \in 1 .. Len(f) : f[i] = IF i = row.wants THEN 0 ELSE i
      BY ReferenceIsSeq
    <2> HIDE DEF f
    <2>3. n <= Len(f) /\ Len(f) \in Nat
      BY <2>1, <2>2
    <2>4. \A i \in 1 .. n : i \in 1 .. Len(f) /\ i # row.wants
      BY <2>1, <2>3
    <2>5. QED
      BY <2>2, <2>3, <2>4
  <1>2. IsSeq(s) /\ Len(s) = n /\ \A i \in 1 .. n : s[i] = i
    BY CountedFacts
  <1> HIDE DEF f, s
  <1>3. Decoding!IsPrefix(s, f)
    BY <1>1, <1>2, PrefixFacts
  <1>4. QED
    BY <1>3 DEF f, s

LEMMA OneMoreIsPrefix ==
    ASSUME NEW n \in Nat, NEW t
    PROVE  Decoding!IsPrefix(Counted(n), Append(Counted(n), t))
  <1> DEFINE s == Counted(n)
             a == Append(s, t)
  <1>1. IsSeq(s) /\ Len(s) = n
    BY CountedFacts
  <1> HIDE DEF s
  <1>2. DOMAIN s = 1 .. n
    BY <1>1, SeqFacts
  <1>3. IsSeq(a) /\ Len(a) = n + 1 /\ \A i \in 1 .. n : a[i] = s[i]
    BY <1>1, <1>2, AppendFacts
  <1> HIDE DEF a
  <1>4. Decoding!IsPrefix(s, a)
    BY <1>1, <1>3, PrefixFacts
  <1>5. QED
    BY <1>4 DEF a, s

\* With a whole model and every token of the row in what it reads, select_token
\* gives the token of the reference.
LEMMA TokenSelected ==
    ASSUME NEW r, NEW state, state = Own(r), Whole(executors[busy].model)
    PROVE  Selected(r, state) = IF step + 1 = request[r].wants THEN 0 ELSE step + 1
  BY DEF Selected, Own, Source, Tokens

LEMMA RowSelected ==
    ASSUME StageInv, RequestInv, PlanInv, TextInv, WholeModels, Select, NEW r \in DOMAIN request
    PROVE  /\ finished'[r] \in BOOLEAN /\ RowText(r)'
           /\ ~finished'[r] => ~finished[r] /\ previous'[r] = Newest(r)'
           /\ Decoding!IsPrefix(generated[r], generated'[r])
           /\ Decoding!IsPrefix(generated'[r], Decoding!Reference(request[r]))
  <1>1. /\ stage = "decode" /\ plan = <<>> /\ stage' = "loop" /\ step' = step + 1
        /\ request' = request
    BY SelectFacts
  <1>2. /\ request \in Batches /\ step \in Nat
        /\ finished[r] \in BOOLEAN /\ RowText(r)
        /\ finished[r] \/ step < Limit(request[r])
    BY <1>1 DEF StageInv, TextInv
  <1>3. RowFits(request[r])
    BY <1>2, RequestFacts
  <1> DEFINE row == request[r]
             last == buffers[Decoded(DecoderLayers)][<<r, 1>>]
             token == Selected(r, last)
             text == generated[r]
  <1>4. /\ finished'[r] = (finished[r] \/ token = 0)
        /\ generated'[r] = IF finished[r] THEN text ELSE Append(text, token)
        /\ previous'[r] = IF finished[r] THEN previous[r] ELSE {<<"token", r, step + 1>>}
    BY SelectFacts
  <1>5. ASSUME ~finished[r]
        PROVE  /\ token = IF step + 1 = row.wants THEN 0 ELSE step + 1
    <2>1. last = Own(r)
      BY <1>1, <1>5, StepFacts
    <2>2. Whole(executors[busy].model)
      BY <1>1 DEF RequestInv, WholeModels
    <2> HIDE DEF last
    <2>3. QED
      BY <2>1, <2>2, TokenSelected
  <1>6. request'[r] = row /\ (Limit(request[r]))' = Limit(row)
    BY <1>1 DEF Limit
  <1>7. row.wants \in Nat /\ Limit(row) \in Nat
    BY <1>3 DEF RowFits
  <1> DEFINE reference == Decoding!Reference(row)
  <1>8. IsSeq(reference)
    BY <1>3, ReferenceIsSeq
  <1> HIDE DEF token, last, text, row, reference
  <1>9. CASE finished[r]
    <2>1. text = reference /\ generated'[r] = text /\ finished'[r] = TRUE
      BY <1>2, <1>4, <1>9 DEF RowText, text, reference, row
    <2>2. RowText(r)'
      BY <2>1, <1>1 DEF RowText, reference, row
    <2>3. Decoding!IsPrefix(text, text) /\ Decoding!IsPrefix(text, reference)
      BY <2>1, <1>8, SamePrefix
    <2>4. QED
      BY <2>1, <2>2, <2>3, <1>9 DEF text, reference, row
  <1>10. CASE ~finished[r]
    <2>1. text = Counted(step) /\ step < row.wants /\ step < Limit(row)
      BY <1>2, <1>10 DEF RowText, text, row
    <2>2. generated'[r] = Append(Counted(step), token)
      BY <2>1, <1>4, <1>10
    <2>3. Decoding!IsPrefix(text, generated'[r])
      BY <2>1, <2>2, <1>2, OneMoreIsPrefix
    <2>4. previous'[r] = Newest(r)'
      <3>1. step' # 0
        BY <1>1, <1>2
      <3>2. QED
        BY <3>1, <1>1, <1>4, <1>10 DEF Newest
    <2>5. CASE step + 1 = row.wants
      <3>1. token = 0 /\ finished'[r] = TRUE
        BY <2>5, <1>4, <1>5, <1>10
      <3>2. generated'[r] = reference
        BY <2>1, <2>2, <2>5, <3>1, <1>2, <1>3, <1>7, TextsEnd DEF row, reference
      <3>3. RowText(r)'
        BY <3>1, <3>2, <1>1 DEF RowText, reference, row
      <3>4. Decoding!IsPrefix(generated'[r], reference)
        BY <3>2, <1>8, SamePrefix
      <3>5. QED
        BY <3>1, <3>3, <3>4, <2>3 DEF text, reference, row
    <2>6. CASE step + 1 # row.wants
      <3> DEFINE n == step + 1
      <3>1. token = n /\ n # 0
        BY <2>6, <1>2, <1>5, <1>10
      <3>2. finished'[r] = FALSE
        BY <3>1, <1>4, <1>10
      <3>3. generated'[r] = Counted(n)
        BY <2>2, <3>1, <1>2, CountedFacts
      <3>4. n \in Nat /\ n < row.wants /\ n <= Limit(row)
        BY <2>1, <2>6, <1>2, <1>7
      <3>5. RowText(r)'
        <4>1. step' = n
          BY <1>1
        <4> HIDE DEF n
        <4>2. QED
          BY <4>1, <3>2, <3>3, <3>4, <1>6 DEF RowText
      <3>6. Decoding!IsPrefix(generated'[r], reference)
        <4> HIDE DEF n
        <4>1. QED
          BY <3>3, <3>4, <1>3, CountedIsPrefix DEF row, reference
      <3>7. QED
        BY <3>2, <3>5, <3>6, <2>3, <2>4, <1>10 DEF text, reference, row
    <2>7. QED
      BY <2>5, <2>6
  <1>11. QED
    BY <1>2, <1>9, <1>10

LEMMA TextSelected ==
    ASSUME StageInv, RequestInv, PlanInv, TextInv, WholeModels, Select
    PROVE  TextInv' /\ Decoding!Emit
  <1>1. /\ stage = "decode" /\ stage' = "loop" /\ request' = request /\ outcome' = outcome
        /\ DOMAIN finished' = DOMAIN request /\ DOMAIN generated' = DOMAIN request
    BY SelectFacts DEF Select
  <1>2. \A r \in DOMAIN request : finished'[r] \in BOOLEAN /\ RowText(r)'
    BY RowSelected
  <1>3. PreviousIsNewest'
    BY <1>1, RowSelected DEF PreviousIsNewest
  <1>4. TextInv'
    BY <1>1, <1>2, <1>3 DEF TextInv
  <1>5. request # <<>>
    BY <1>1, CpuEngineAssumption DEF StageInv
  <1>6. \A r \in DOMAIN request :
            /\ Decoding!IsPrefix(generated[r], generated'[r])
            /\ Decoding!IsPrefix(generated'[r], Decoding!Reference(request[r]))
    BY RowSelected
  <1>7. Decoding!Emit
    BY <1>1, <1>5, <1>6 DEF Decoding!Emit
  <1>8. QED
    BY <1>4, <1>7

\* When the loop ends, every text is complete.
LEMMA TextsAreComplete ==
    ASSUME StageInv, TextInv, Return
    PROVE  \A r \in DOMAIN request : generated[r] = Decoding!Reference(request[r])
  <1>1. stage = "output" \/ (stage = "loop" /\ step = GenerationLimit)
    BY DEF Return
  <1>2. /\ \A r \in DOMAIN request : finished[r] \in BOOLEAN /\ RowText(r)
        /\ stage = "output" => \A r \in DOMAIN request : finished[r]
        /\ request \in Batches /\ step \in Nat
    BY <1>1 DEF TextInv, StageInv
  <1> TAKE r \in DOMAIN request
  <1>3. RowFits(request[r])
    BY <1>2, RequestFacts
  <1>4. CASE finished[r]
    BY <1>2, <1>4 DEF RowText
  <1>5. CASE ~finished[r]
    <2>1. step = GenerationLimit
      BY <1>1, <1>2, <1>5
    <2>2. generated[r] = Counted(step) /\ step < request[r].wants /\ step <= Limit(request[r])
      BY <1>2, <1>5 DEF RowText
    <2>3. step = Limit(request[r])
      BY <2>1, <2>2, <1>2, <1>3 DEF RowFits
    <2>4. QED
      BY <2>2, <2>3, <1>2, <1>3, TextsEnd
  <1>6. QED
    BY <1>4, <1>5

LEMMA WorkingDecodes ==
    ASSUME StageInv, RequestInv, PlanInv, TextInv, WholeModels, Working
    PROVE  TextInv' /\ [Decoding!Next]_(Decoding!vars)
  <1>1. stage # "idle" => request # <<>>
    BY CpuEngineAssumption DEF StageInv
  <1>2. ASSUME UNCHANGED <<request, generated, outcome>>
        PROVE  [Decoding!Next]_(Decoding!vars)
    BY <1>2 DEF Decoding!vars
  <1>3. CASE Refuse \/ Fail
    <2>1. End("failed") /\ stage # "idle"
      <3>1. plan # <<>> => stage # "idle"
        BY DEF StageInv
      <3>2. QED
        BY <3>1, <1>3 DEF Refuse, Fail, PositionOutOfRange
    <2>2. /\ request' = <<>> /\ generated' = <<>> /\ outcome' = "failed" /\ stage' = "idle"
      BY <2>1 DEF End
    <2>3. Decoding!Abandon
      BY <2>1, <2>2, <1>1 DEF Decoding!Abandon, Decoding!End
    <2>4. QED
      BY <2>2, <2>3 DEF Decoding!Next, TextInv
  <1>4. CASE BeginEncode
    <2>1. stage' = "encode" /\ UNCHANGED <<request, generated, outcome>>
      BY <1>4 DEF BeginEncode
    <2>2. QED
      BY <2>1, <1>2 DEF TextInv
  <1>5. CASE RunNext
    <2>1. UNCHANGED <<request, stage, previous, finished, step, generated, outcome>>
      BY <1>5 DEF RunNext
    <2>2. \A r \in DOMAIN request : (Limit(request[r]))' = Limit(request[r])
      BY <2>1 DEF Limit
    <2>3. \A r \in DOMAIN request : RowText(r) => RowText(r)'
      BY <2>1, <2>2 DEF RowText
    <2>4. PreviousIsNewest => PreviousIsNewest'
      BY <2>1 DEF PreviousIsNewest, Newest
    <2>5. TextInv'
      BY <2>1, <2>2, <2>3, <2>4 DEF TextInv
    <2>6. QED
      BY <2>1, <2>5, <1>2
  <1>6. CASE BeginDecode
    <2>1. UNCHANGED <<request, generated, outcome>>
      BY <1>6 DEF BeginDecode
    <2>2. QED
      BY <2>1, <1>2, <1>6, TextBegins
  <1>7. CASE BeginStep
    <2>1. UNCHANGED <<request, generated, outcome>>
      BY <1>7 DEF BeginStep
    <2>2. QED
      BY <2>1, <1>2, <1>7, TextAtStep
  <1>8. CASE Select
    BY <1>8, TextSelected DEF Decoding!Next
  <1>9. CASE Return
    <2>1. End("answered") /\ stage # "idle"
      BY <1>9 DEF Return
    <2>2. /\ request' = <<>> /\ generated' = <<>> /\ outcome' = "answered" /\ stage' = "idle"
      BY <2>1 DEF End
    <2>3. \A r \in DOMAIN request : generated[r] = Decoding!Reference(request[r])
      BY <1>9, TextsAreComplete
    <2>4. Decoding!Answer
      BY <2>1, <2>2, <2>3, <1>1 DEF Decoding!Answer, Decoding!End
    <2>5. QED
      BY <2>2, <2>4 DEF Decoding!Next, TextInv
  <1>10. QED
    BY <1>3, <1>4, <1>5, <1>6, <1>7, <1>8, <1>9 DEF Working, Translate

EngineInv == StageInv /\ RequestInv /\ ResolvedInv /\ PlanInv /\ TextInv

LEMMA EngineInit == Init => EngineInv /\ RetainInv /\ Decoding!Init
  <1> SUFFICES ASSUME Init PROVE EngineInv /\ RetainInv /\ Decoding!Init
    OBVIOUS
  <1>1. InitEngine /\ stage = "idle"
    BY DEF Init, InitEngine
  <1>2. StageInv
    BY <1>1 DEF InitEngine, StageInv, Stages
  <1>3. PlanInv /\ TextInv
    BY <1>1 DEF PlanInv, TextInv
  <1>4. Decoding!Init
    BY <1>1 DEF InitEngine, Decoding!Init
  <1>5. QED
    BY <1>2, <1>3, <1>4, RequestInit, ResolvedInit, RetainInit DEF EngineInv

LEMMA EngineNext ==
    ASSUME IsolateInv, PoolsInv, WholeModels, EngineInv, [Next]_vars
    PROVE  EngineInv' /\ [Decoding!Next]_(Decoding!vars)
  <1>1. StageInv' /\ RequestInv' /\ ResolvedInv'
    BY StagesNext, RequestNext, ResolvedNext DEF EngineInv
  <1>2. CASE Working
    <2>1. TextInv' /\ [Decoding!Next]_(Decoding!vars)
      BY <1>2, WorkingDecodes DEF EngineInv
    <2>2. stage = "decode" => PreviousIsNewest
      BY DEF EngineInv, TextInv
    <2>3. PlanInv'
      BY <1>2, <2>2, WorkingKeepsPlan DEF EngineInv, PoolsInv
    <2>4. QED
      BY <1>1, <2>1, <2>3 DEF EngineInv
  <1>3. CASE Beginning
    <2>1. PICK w \in DOMAIN executors : Begin(w)
      BY <1>3 DEF Beginning
    <2>2. /\ stage = "idle" /\ stage' = "begin" /\ request' \in Batches
          /\ generated' = [r \in DOMAIN request' |-> <<>>] /\ outcome' = outcome
      BY <2>1 DEF Begin
    <2>3. request = <<>>
      BY <2>2 DEF EngineInv, RequestInv
    <2>4. Decoding!Start
      BY <2>2, <2>3 DEF Decoding!Start
    <2>5. PlanInv' /\ TextInv'
      BY <2>2 DEF PlanInv, TextInv
    <2>6. QED
      BY <1>1, <2>4, <2>5 DEF EngineInv, Decoding!Next
  <1>4. CASE Resting
    <2>1. UNCHANGED <<executors, busy, request, stage, plan, buffers, states, previous, finished,
                      step, generated, outcome>>
      BY <1>4 DEF Resting, engine, request_vars
    <2>2. [Decoding!Next]_(Decoding!vars)
      BY <2>1 DEF Decoding!vars
    <2>3. PlanInv'
      <3>1. Recycles' = Recycles
        BY <2>1 DEF Recycles
      <3>2. \A v, decoding : IsKnown(v, decoding) => IsKnown(v, decoding)'
        <4>1. \A v : buffers'[v] = buffers[v]
          BY <2>1
        <4>2. \A v, rank : OfTokens(buffers[v], rank) => OfTokens(buffers[v], rank)'
          BY <2>1, <4>1, SameTokens
        <4>3. \A v : OfSource(buffers[v]) => OfSource(buffers[v])'
          BY <2>1, <4>1, SourceStays
        <4>4. QED
          BY <4>2, <4>3 DEF IsKnown
      <3>3. \A n : StatesMoved(states, n) => StatesMoved(states, n)'
        BY <2>1, SameStates
      <3>4. \A s, decoding : Holds(s, decoding) => Holds(s, decoding)'
        BY <2>1, <3>1, <3>2, <3>3 DEF Holds
      <3>5. (Encoding => Encoding') /\ (Stepping => Stepping')
        BY <2>1, <3>1, <3>4 DEF Encoding, Stepping
      <3>6. QED
        BY <2>1, <3>4, <3>5 DEF EngineInv, PlanInv
    <2>4. TextInv'
      <3>1. \A r \in DOMAIN request : (Limit(request[r]))' = Limit(request[r])
        BY <2>1 DEF Limit
      <3>2. \A r \in DOMAIN request : RowText(r) => RowText(r)'
        BY <2>1, <3>1 DEF RowText
      <3>3. PreviousIsNewest => PreviousIsNewest'
        BY <2>1 DEF PreviousIsNewest, Newest
      <3>4. QED
        BY <2>1, <3>1, <3>2, <3>3 DEF EngineInv, TextInv
    <2>5. QED
      BY <1>1, <2>2, <2>3, <2>4 DEF EngineInv
  <1>5. CASE Making
    <2>1. stage' = "idle" /\ UNCHANGED <<request, generated, outcome>>
      BY <1>5 DEF Making, request_vars
    <2>2. PlanInv' /\ TextInv'
      BY <2>1 DEF PlanInv, TextInv
    <2>3. QED
      BY <1>1, <2>1, <2>2 DEF EngineInv, Decoding!vars
  <1>6. QED
    BY <1>2, <1>3, <1>4, <1>5, StepKinds DEF EngineInv

LEMMA WholeHosts == Spec => [](IsolateInv /\ PoolsInv /\ WholeModels)
  <1>1. Init => ReleasesFound /\ WholeModels
    BY FoundInit
  <1>2. (IsolateInv /\ PoolsInv) /\ (ReleasesFound /\ WholeModels) /\ [Next]_vars
            => (ReleasesFound /\ WholeModels)'
    BY FoundNext, WholeNext
  <1>3. QED
    BY HostsInvariant, <1>1, <1>2, PTL DEF Spec

LEMMA EngineInvariant == Spec => [](EngineInv /\ RetainInv) /\ ImplementsDecode
  <1>1. Init => EngineInv /\ RetainInv /\ Decoding!Init
    BY EngineInit
  <1>2. (IsolateInv /\ PoolsInv /\ WholeModels) /\ (EngineInv /\ RetainInv) /\ [Next]_vars
            => (EngineInv /\ RetainInv)' /\ [Decoding!Next]_(Decoding!vars)
    BY EngineNext, RetainNext DEF EngineInv
  <1>3. QED
    BY WholeHosts, <1>1, <1>2, PTL DEF Spec, ImplementsDecode, Decoding!Spec

\* Whatever rows share a batch, for any limits, layers, workers and releases and
\* in every order of the host's steps: both executors give a row what decoding it
\* alone gives, one token after another.
THEOREM CpuImplementsDecode == Spec => ImplementsDecode
  BY EngineInvariant, PTL

\* For any number of layers and requests, and every release of buffers in between:
\* a Q8 executor never keeps more than its largest stage needs.
THEOREM RetentionIsBounded == Spec => []RetainedIsBounded
  <1>1. RetainInv => RetainedIsBounded
    BY DEF RetainInv, Retained, RetainedIsBounded
  <1>2. QED
    BY <1>1, EngineInvariant, PTL

===============================================================================
