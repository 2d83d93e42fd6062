--------------------------- MODULE MetalWorkspace ---------------------------
(***************************************************************************)
(* The memory of the Metal engine: MetalWorkspace with its two arenas, the *)
(* MPS matrix views and the command buffers of MetalRuntime.               *)
(*                                                                         *)
(* An address stands for one MTLBuffer; a buffer that nothing retains may  *)
(* give its address to the next one.  What a buffer holds is the name of a *)
(* value of the inference graph with the number of its request, so that a  *)
(* kernel which reads what an earlier request or an earlier step has left  *)
(* is seen.  The CPU writes a buffer at once; a kernel runs when the       *)
(* command buffer it was encoded into is committed.                        *)
(***************************************************************************)
EXTENDS Integers, Sequences, TLC

LOCAL INSTANCE FiniteSetsExt

CONSTANTS Addresses \* what newBufferWithLength may return

ASSUME WorkspaceAssumption == Addresses \subseteq Nat

VARIABLES serial,   \* requests begun so far
          arenas,   \* the buffers and the cursor of each arena
          frame,    \* transient_active
          views,    \* request_mps_matrices
          memory,   \* what the buffer at each address holds
          commands, \* the kernels of the open command buffer, in order
          holds     \* the buffer of each value that the engine refers to

workspace == <<serial, arenas, frame, views, memory, commands, holds>>

Lifetimes == {"request", "transient"}

\* What nobody has written, and what a kernel makes of operands it was not meant for.
Undefined == <<0, <<"undefined", 0, 0>>>>
Junk == <<0, <<"junk", 0, 0>>>>

\* A value of the graph, as this request means it.
Meant(v) == <<serial, v>>

InitWorkspace ==
    /\ serial = 0
    /\ arenas = [a \in Lifetimes |-> [slots |-> <<>>, cursor |-> 0]]
    /\ frame = FALSE
    /\ views = {}
    /\ memory = [a \in Addresses |-> Undefined]
    /\ commands = <<>>
    /\ holds = <<>>

-----------------------------------------------------------------------------
(* Buffers. *)

InArenas == UNION {{arenas[a].slots[i].addr : i \in DOMAIN arenas[a].slots} : a \in Lifetimes}

InCommands ==
    UNION {{access[2] : access \in commands[i].reads \cup commands[i].writes} :
           i \in DOMAIN commands}

Held == {holds[v].addr : v \in DOMAIN holds}

\* Mutants: each replaces the definition its comment names.

\* Of Retained: a cached view does not keep its buffer.
RetainedButByViews == InArenas \cup InCommands \cup Held

\* What keeps a buffer alive: an arena, a cached view, the command buffer, or a
\* value of the engine.
Retained == InArenas \cup InCommands \cup Held \cup {view.addr : view \in views}

\* A new buffer may get the address of one that was freed.
FreshAddress == Min(Addresses \ Retained)

Slot(a) == arenas[a].cursor + 1

\* The next buffer of an arena is there and large enough.
Reusable(a, size) ==
    /\ Slot(a) <= Len(arenas[a].slots)
    /\ arenas[a].slots[Slot(a)].size >= size

\* BufferArena::take: the next slot, filled or replaced if it is too small.
Taken(a, size) ==
    LET slots == arenas[a].slots
    IN  [arenas EXCEPT ![a] =
            [cursor |-> Slot(a),
             slots |-> IF Reusable(a, size) THEN slots
                       ELSE SubSeq(slots, 1, Slot(a) - 1) \o
                            <<[addr |-> FreshAddress, size |-> size]>> \o
                            SubSeq(slots, Slot(a) + 1, Len(slots))]]

\* Only the buffers of an arena have views that are cached.
ArenaBuffer(a, size) ==
    [addr |-> Taken(a, size)[a].slots[Slot(a)].addr,
     size |-> Taken(a, size)[a].slots[Slot(a)].size, cached |-> TRUE]

\* A view whose buffer is gone looks at nothing, whoever has the address now.
Outlived(addr) == {[view EXCEPT !.stale = @ \/ view.addr = addr] : view \in views}

-----------------------------------------------------------------------------
(* Operations. *)

\* MetalWorkspace::begin_request, and MetalRuntime::begin_request in it.
BeginRequest ==
    /\ ~frame
    /\ serial' = serial + 1
    /\ views' = {}
    /\ arenas' = [a \in Lifetimes |-> [arenas[a] EXCEPT !.cursor = 0]]
    /\ UNCHANGED <<frame, memory, commands, holds>>

BeginTransient ==
    /\ ~frame
    /\ frame' = TRUE
    /\ arenas' = [arenas EXCEPT !["transient"].cursor = 0]
    /\ UNCHANGED <<serial, views, memory, commands, holds>>

\* An upload takes a buffer of an arena and writes it at once.
Upload(a, v, size) ==
    LET buffer == ArenaBuffer(a, size)
    IN  /\ a = "transient" => frame
        /\ arenas' = Taken(a, size)
        /\ views' = IF Reusable(a, size) THEN views ELSE Outlived(buffer.addr)
        /\ memory' = [memory EXCEPT ![buffer.addr] = Meant(v)]
        /\ holds' = (v :> buffer) @@ holds
        /\ UNCHANGED <<serial, frame, commands>>

\* output_f32, request_f32: where a kernel puts its result.
Place(op) == IF op.keep THEN "request" ELSE IF frame THEN "transient" ELSE "one-off"

\* Whether the result of a kernel needs a new buffer.
Allocates(op) ==
    op.makes # <<>> /\ (Place(op) # "one-off" => ~Reusable(Place(op), op.size))

Output(op) ==
    IF op.makes = <<>> THEN <<>>
    ELSE op.makes :> IF Place(op) = "one-off"
                     THEN [addr |-> FreshAddress, size |-> op.size, cached |-> FALSE]
                     ELSE ArenaBuffer(Place(op), op.size)

\* require_f32: every operand is as large as the kernel takes it to be.
OperandsFit(op) == \A need \in op.needs : holds[need[1]].size >= need[2]

\* A kernel is encoded: it reads some values, makes one, and turns others in
\* place into their next state.  mps_matrix looks its operands up in the cache.
Dispatch(op) ==
    LET buffers == Output(op) @@ holds
        read == op.reads \cup {turn[1] : turn \in op.turns}
        turned == {<<turn[2], holds[turn[1]].addr>> : turn \in op.turns}
        written == turned \cup {<<v, buffers[v].addr>> : v \in {op.makes} \ {<<>>}}
        known == IF Allocates(op) THEN Outlived(Output(op)[op.makes].addr) ELSE views
        viewed == {[addr |-> buffers[x[1]].addr, shape |-> x[2]] :
                   x \in {x \in op.views : buffers[x[1]].cached}}
        outdated == {view \in known : view.stale /\ [addr |-> view.addr, shape |-> view.shape] \in viewed}
    IN  /\ arenas' = IF op.makes = <<>> \/ Place(op) = "one-off" THEN arenas
                     ELSE Taken(Place(op), op.size)
        /\ views' = known \cup
                    {[addr |-> x.addr, shape |-> x.shape, stale |-> FALSE] :
                     x \in {x \in viewed : \A view \in outdated :
                                               <<x.addr, x.shape>> # <<view.addr, view.shape>>}}
        /\ memory' = IF Allocates(op)
                     THEN [memory EXCEPT ![Output(op)[op.makes].addr] = Undefined]
                     ELSE memory
        /\ commands' = Append(commands, [reads |-> {<<v, holds[v].addr>> : v \in read},
                                         writes |-> written, stale |-> outdated # {}])
        /\ holds' = [v \in (DOMAIN buffers \ {turn[1] : turn \in op.turns}) \cup
                           {turn[2] : turn \in op.turns} |->
                        IF v \in DOMAIN buffers THEN buffers[v]
                        ELSE holds[(CHOOSE turn \in op.turns : turn[2] = v)[1]]]
        /\ UNCHANGED <<serial, frame>>

\* The first n kernels of the command buffer run, one after another.
Executed(n) ==
    LET after[i \in 0 .. n] ==
            IF i = 0 THEN memory
            ELSE LET kernel == commands[i]
                     before == after[i - 1]
                     fed == ~kernel.stale /\
                            \A access \in kernel.reads : before[access[2]] = Meant(access[1])
                     result == [a \in {access[2] : access \in kernel.writes} |->
                                   IF fed THEN Meant((CHOOSE access \in kernel.writes :
                                                          access[2] = a)[1])
                                   ELSE Junk]
                 IN  result @@ before
    IN  after[n]

\* Commands::finish: committed and waited for.  The engine keeps the values it
\* still refers to.
Finish(kept) ==
    /\ memory' = Executed(Len(commands))
    /\ commands' = <<>>
    /\ holds' = [v \in kept |-> holds[v]]
    /\ UNCHANGED <<serial, arenas, views>>

\* Of Unwind: the flag is left as it is.
UnwindInFrame ==
    /\ commands' = <<>>
    /\ holds' = <<>>
    /\ UNCHANGED <<serial, arenas, frame, views>>

\* An error returns through the frame and the commands: both are dropped.
Unwind ==
    /\ frame' = FALSE
    /\ commands' = <<>>
    /\ holds' = <<>>
    /\ UNCHANGED <<serial, arenas, views>>

=============================================================================
