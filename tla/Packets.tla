------------------------------ MODULE Packets -------------------------------
(***************************************************************************)
(* Packets and the ownership of their payloads, from the host that makes   *)
(* them through the C ABI to the kernels that change and drop them.        *)
(*                                                                         *)
(* A packet is a reference to a body (Arc<PacketBody>), which refers to a  *)
(* payload (Arc<Payload>) and has its metadata. The counts of both are     *)
(* written out in `heap` and changed by each operation as it changes them. *)
(* References are what the code keeps: handles in C (LMFlowPacket with an  *)
(* owner), the input slot, the staging and the queue of a node, and the    *)
(* packets a send or a flush is delivering. A reference also carries, as a *)
(* history, the value that the packet had for whoever put it there.        *)
(*                                                                         *)
(* The graph is one producing node between the graph input and a set of    *)
(* consuming nodes, each of which runs one invocation at a time, beside    *)
(* the host. Cancellation and errors stop it (`stopped`).                  *)
(***************************************************************************)
EXTENDS Integers, Sequences, FiniteSets

CONSTANTS
    Host,          \* the thread of the host
    Producer,      \* the node at the graph input, and the worker that runs it
    Consumers,     \* the nodes that may be behind it
    Nobody,
    Bodies, Payloads,       \* addresses, as many as the budgets need
    Adopted, Object,        \* a buffer and an object of the host's, with their release functions
    Memory,                 \* allocations
    MemorySize,             \* their size in bytes
    PoolBytes,              \* buffer_pool_max_bytes
    Descriptors,            \* what the host may describe as a buffer
    Fanouts,                \* sets of consumers of the producer's output
    MaxDims, I64Max,        \* packet::MAX_DIMS, and the largest i64 and isize
    Typed,                  \* the nodes whose input is declared to be of the type
                            \* that every packet but one of Object has
    Budgets                 \* the most packets of the host, buffers of the kernels,
                            \* clones, changes and faults

ASSUME WidthAssumption == MaxDims \in Nat \ {0} /\ I64Max \in Nat \ {0}

\* Threads, nodes, addresses and owners are told apart; a pool has a limit.
ASSUME PacketsAssumption ==
    /\ Host # Producer /\ Host \notin Consumers /\ Producer \notin Consumers
    /\ 0 \notin Bodies \cup Payloads /\ IsFiniteSet(Bodies) /\ IsFiniteSet(Payloads) /\ IsFiniteSet(Consumers)
    /\ Adopted # Object /\ Nobody \notin {Adopted, Object} \cup Memory
    /\ Adopted \notin Memory /\ Object \notin Memory
    /\ MemorySize \in [Memory -> Nat] /\ PoolBytes \in Nat
    /\ Fanouts \subseteq SUBSET Consumers
    /\ Budgets \subseteq [packets : Nat, buffers : Nat, clones : Nat, changes : Nat, faults : Nat]

Buffer == INSTANCE Buffers

Nodes == {Producer} \cup Consumers
Threads == {Host} \cup Nodes
Resources == {Adopted, Object}

VARIABLES
    source,      \* the host's descriptor of Adopted
    consumers,   \* the consumers of the producer's output
    registered,  \* whether the type of Object is registered
    heap,        \* bodies, payloads, resources and the pool
    given,       \* the resources whose ownership the host has handed over
    handle,      \* the packets a thread owns in C, last one on top
    slot,        \* Context::inputs: at most one packet for each node
    staging, queue,
    spoilt,      \* Context::output_failed: an emit or forward of the callback failed
    flight,      \* the packets that a send or a flush is delivering
    targets,     \* the nodes they are still to be delivered to
    pc, stopped,
    cloned,      \* history: the payloads of which the program made a second packet
    budget       \* what is left of it

graph == <<source, consumers, registered>>
nodes == <<slot, staging, queue, spoilt>>
delivery == <<flight, targets>>
vars == <<graph, heap, given, handle, nodes, delivery, pc, stopped, cloned, budget>>

---------------------------------------------------------------------------
(* The heap.                                                               *)

NoPayload == [refs |-> 0, kind |-> "none", content |-> 0, own |-> Nobody, copies |-> FALSE]
NoBody == [refs |-> 0, payload |-> 0, meta |-> 0]
EmptyHeap == [body |-> [b \in Bodies |-> NoBody], payload |-> [p \in Payloads |-> NoPayload],
              released |-> [r \in Resources |-> 0], cached |-> [m \in Memory |-> 0], bytes |-> 0]

FreeBodies(h) == {b \in Bodies : h.body[b].refs = 0}
FreePayloads(h) == {p \in Payloads : h.payload[p].refs = 0}
FreeBody(h) == CHOOSE b \in FreeBodies(h) : TRUE
FreePayload(h) == CHOOSE p \in FreePayloads(h) : TRUE

\* BufferPool::release: kept for the next buffer if the pool has room.
ToPool(h, m) ==
    IF h.bytes + MemorySize[m] <= PoolBytes
      THEN [h EXCEPT !.cached[m] = @ + 1, !.bytes = @ + MemorySize[m]]
      ELSE h
\* A mutant: the allocation handed out stays in the list.
FromPoolKept(h, m) == [h EXCEPT !.bytes = @ - MemorySize[m]]

\* BufferPool::take: an allocation of the same layout, else a new one.
FromPool(h, m) == [h EXCEPT !.cached[m] = @ - 1, !.bytes = @ - MemorySize[m]]

\* Drop of a payload: ExternalBuffer and Foreign call their release function.
Dispose(h, own) ==
    CASE own \in Resources -> [h EXCEPT !.released[own] = @ + 1]
      [] own \in Memory -> ToPool(h, own)
      [] OTHER -> h
DropPayload(h, p) ==
    IF h.payload[p].refs = 1
      THEN Dispose([h EXCEPT !.payload[p] = NoPayload], h.payload[p].own)
      ELSE [h EXCEPT !.payload[p].refs = @ - 1]
DropBody(h, b) ==
    IF h.body[b].refs = 1
      THEN DropPayload([h EXCEPT !.body[b] = NoBody], h.body[b].payload)
      ELSE [h EXCEPT !.body[b].refs = @ - 1]
Retain(h, b) == [h EXCEPT !.body[b].refs = @ + 1]

\* Packet::from_builtin, from_external_buffer and from_foreign.
NewPacket(h, kind, own, copies) ==
    [h EXCEPT !.payload[FreePayload(h)] =
                 [refs |-> 1, kind |-> kind, content |-> 0, own |-> own, copies |-> copies],
              !.body[FreeBody(h)] = [refs |-> 1, payload |-> FreePayload(h), meta |-> 0]]

\* PacketBody::clone into an Arc of its own, and the old reference dropped.
CopyBody(h, b) ==
    LET copy == [h EXCEPT !.payload[h.body[b].payload].refs = @ + 1,
                          !.body[FreeBody(h)] = [h.body[b] EXCEPT !.refs = 1]]
    IN  DropBody(copy, b)
\* Arc::make_mut of the body, and where the body is then.
OwnBody(h, b) == IF h.body[b].refs = 1 THEN h ELSE CopyBody(h, b)
OwnedBody(h, b) == IF h.body[b].refs = 1 THEN b ELSE FreeBody(h)

\* A reference more for every packet of a batch.
RetainAll(h, refs) ==
    [h EXCEPT !.body = [b \in Bodies |->
        [h.body[b] EXCEPT !.refs = @ + Cardinality({i \in DOMAIN refs : refs[i].body = b})]]]

\* What a reader of body b finds.
Value(h, b) == [content |-> h.payload[h.body[b].payload].content, meta |-> h.body[b].meta]
Fresh == [content |-> 0, meta |-> 0]

---------------------------------------------------------------------------
(* References.                                                             *)

Ref(b, value) == [body |-> b, own |-> Nobody, value |-> value]
\* A packet that the program built by hand: owner null, payload and drop_fn.
SelfBuilt == [body |-> 0, own |-> Object, value |-> Fresh]

Top(t) == handle[t][Len(handle[t])]
SetTop(t, r) == handle' = [handle EXCEPT ![t] = [@ EXCEPT ![Len(@)] = r]]
Pop(t) == handle' = [handle EXCEPT ![t] = SubSeq(@, 1, Len(@) - 1)]
Push(t, r) == handle' = [handle EXCEPT ![t] = Append(@, r)]
Owns(t) == handle[t] # <<>>
\* The operations on packets with an owner refuse the others.
Engine(t) == Owns(t) /\ Top(t).own = Nobody
\* take_packet: the engine takes the reference, or makes a body for the object.
TakenHeap(t) == IF Engine(t) THEN heap ELSE NewPacket(heap, "foreign", Object, FALSE)
TakenBody(t) == IF Engine(t) THEN Top(t).body ELSE FreeBody(heap)

At(t, label) == pc[t] = label
Goto(t, label) == pc' = [pc EXCEPT ![t] = label]
Running(t) == At(t, "run")
Spend(kind) == budget[kind] > 0 /\ budget' = [budget EXCEPT ![kind] = @ - 1]

\* The payload of every body that the program refers to twice on purpose.
MarkCloned(b) == cloned' = cloned \cup {heap.body[b].payload}
\* A payload that is gone leaves the history.
Forget(h, payloads) == {p \in payloads : h.payload[p].refs > 0}

---------------------------------------------------------------------------
(* Making packets.                                                         *)

NewHandle(t, kind, own, copies) ==
    /\ heap' = NewPacket(heap, kind, own, copies)
    /\ Push(t, Ref(FreeBody(heap), Fresh))

\* lmflow_packet_from_bytes and its like: the engine's own copy of a value.
MakeBuiltin(t) ==
    /\ Running(t) /\ Spend("packets")
    /\ NewHandle(t, "builtin", Nobody, TRUE)
    /\ UNCHANGED <<graph, given, nodes, delivery, pc, stopped, cloned>>

\* lmflow_packet_from_buffer: a copy of the host's buffer, if it is accepted.
CopyBuffer ==
    /\ At(Host, "describe") /\ Goto(Host, "build")
    /\ source' = Nobody
    /\ IF Buffer!Accepted(source) /\ Buffer!LaysOut(source.shape, source.element)
         THEN NewHandle(Host, "builtin", Nobody, TRUE)
         ELSE UNCHANGED <<heap, handle>>
    /\ UNCHANGED <<consumers, registered, given, nodes, delivery, stopped, cloned, budget>>

\* lmflow_packet_adopt_buffer: the host's buffer itself; refused, it stays the host's.
AdoptBuffer ==
    /\ At(Host, "describe") /\ Goto(Host, "build")
    /\ source' = Nobody
    /\ IF Buffer!Accepted(source)
         THEN /\ NewHandle(Host, IF source.readonly THEN "readonly" ELSE "external",
                           Adopted, Buffer!LaysOut(source.shape, source.element))
              /\ given' = given \cup {Adopted}
         ELSE UNCHANGED <<heap, handle, given>>
    /\ UNCHANGED <<consumers, registered, nodes, delivery, stopped, cloned, budget>>

\* allocate_buffer: from the pool if it has any of that size, else memory that
\* nobody uses.
Available(m) ==
    \/ heap.cached[m] > 0
    \/ /\ \A p \in Payloads : heap.payload[p].own # m
       /\ \A c \in Memory : heap.cached[c] > 0 => MemorySize[c] # MemorySize[m]
Allocated(m) == IF heap.cached[m] > 0 THEN FromPool(heap, m) ELSE heap

\* lmflow_packet_new_buffer(_uninit) in a callback, where the graph's pool is
\* active: a buffer that the engine adopts from itself.
NewBuffer(n) ==
    /\ Running(n) /\ Spend("buffers")
    /\ \E m \in Memory : Available(m) /\ heap' = NewPacket(Allocated(m), "external", m, TRUE)
    /\ Push(n, Ref(FreeBody(heap), Fresh))
    /\ UNCHANGED <<graph, given, nodes, delivery, pc, stopped, cloned>>

\* The program fills in payload and drop_fn of an object of its own.
BuildPacket(t) ==
    /\ Running(t) /\ Object \notin given /\ Spend("packets")
    /\ given' = given \cup {Object}
    /\ Push(t, SelfBuilt)
    /\ UNCHANGED <<graph, heap, nodes, delivery, pc, stopped, cloned>>

\* Packet::new_interop, of a type that is registered.
NewInterop(t) ==
    /\ Running(t) /\ Object \notin given /\ registered /\ Spend("packets")
    /\ given' = given \cup {Object}
    /\ NewHandle(t, "foreign", Object, FALSE)
    /\ UNCHANGED <<graph, nodes, delivery, pc, stopped, cloned>>

\* register_type_descriptor. Another registration of the type is accepted if
\* it says the same and refused if not; neither changes anything.
Register ==
    /\ ~registered /\ registered' = TRUE /\ Spend("changes")
    /\ UNCHANGED <<source, consumers, heap, given, handle, nodes, delivery, pc, stopped, cloned>>

\* The host makes a packet of its buffer, or tries to, and starts the graph.
BuildGraph ==
    /\ At(Host, "build") /\ Goto(Host, "run")
    /\ consumers' \in Fanouts
    /\ \E b \in Budgets : budget' = [b EXCEPT !.packets = @ - Len(handle[Host])]
    /\ UNCHANGED <<source, registered, heap, given, handle, nodes, delivery, stopped, cloned>>

---------------------------------------------------------------------------
(* Operations on a packet that the thread owns.                            *)

\* lmflow_packet_clone.
Clone(t) ==
    /\ Running(t) /\ Engine(t) /\ Spend("clones")
    /\ heap' = Retain(heap, Top(t).body)
    /\ Push(t, Top(t))
    /\ MarkCloned(Top(t).body)
    /\ UNCHANGED <<graph, given, nodes, delivery, pc, stopped>>

\* lmflow_packet_drop: the reference, or the object itself that was never sent.
Drop(t) ==
    /\ Running(t) /\ Owns(t)
    /\ heap' = IF Engine(t) THEN DropBody(heap, Top(t).body) ELSE Dispose(heap, Top(t).own)
    /\ cloned' = Forget(heap', cloned)
    /\ Pop(t)
    /\ UNCHANGED <<graph, given, nodes, delivery, pc, stopped, budget>>

\* lmflow_packet_set_metadata_*: in a body of the packet's own.
SetMetadata(t) ==
    /\ Running(t) /\ Engine(t) /\ Spend("changes")
    /\ LET b == OwnedBody(heap, Top(t).body) IN
       /\ heap' = [OwnBody(heap, Top(t).body) EXCEPT !.body[b].meta = @ + 1]
       /\ SetTop(t, [Top(t) EXCEPT !.body = b, !.value.meta = @ + 1])
    /\ UNCHANGED <<graph, given, nodes, delivery, pc, stopped, cloned>>

\* lmflow_packet_make_mutable_*, first half: a body of the packet's own. The
\* other holders may clone and drop theirs before the second half.
MakeMutable(t) ==
    /\ Running(t) /\ Engine(t) /\ Spend("changes")
    /\ heap' = OwnBody(heap, Top(t).body)
    /\ SetTop(t, [Top(t) EXCEPT !.body = OwnedBody(heap, Top(t).body)])
    /\ Goto(t, "payload")
    /\ UNCHANGED <<graph, given, nodes, delivery, stopped, cloned>>

\* The payload of the packet that thread t is making writable.
Wanted(t) == heap.body[Top(t).body].payload

\* A mutant: only a buffer that says so is copied.
MustCopyReadOnly(t) == heap.payload[Wanted(t)].kind = "readonly"

MustCopy(t) == heap.payload[Wanted(t)].refs > 1 \/ heap.payload[Wanted(t)].kind = "readonly"

\* A payload of the packet's own, as only the engine's types and host buffers
\* can be copied.
CopyPayload(t) ==
    LET p == Wanted(t)
        copy == FreePayload(heap)
    IN  DropPayload([heap EXCEPT !.payload[copy] = [NoPayload EXCEPT !.refs = 1, !.kind = "builtin", !.copies = TRUE,
                                                      !.content = heap.payload[p].content],
                                 !.body[Top(t).body].payload = copy], p)

\* Second half: the payload itself if nobody else refers to it, else a copy.
\* Each call also refuses packets that are not of its type. The program
\* writes through the view before it uses the packet again.
OwnPayload(t) ==
    /\ At(t, "payload") /\ Goto(t, "run")
    /\ LET payload == heap.payload[Wanted(t)]
           Write(h) == /\ heap' = [h EXCEPT !.payload[h.body[Top(t).body].payload].content = @ + 1]
                       /\ SetTop(t, [Top(t) EXCEPT !.value.content = @ + 1])
       IN  \/ MustCopy(t) /\ payload.copies /\ Write(CopyPayload(t))
           \/ ~MustCopy(t) /\ payload.kind # "foreign" /\ Write(heap)
           \/ UNCHANGED <<heap, handle>>
    /\ cloned' = Forget(heap', cloned)
    /\ UNCHANGED <<graph, given, nodes, delivery, stopped, budget>>

---------------------------------------------------------------------------
(* Sending and delivering.                                                 *)

\* lmflow_input_send takes the packet whatever becomes of it. Accepted, it
\* gets a body of its own if latencies are measured (rebase_ingress_us; a new
\* body in the place of one that nobody else has is that body again).
Send ==
    /\ Running(Host) /\ Owns(Host)
    /\ LET b == TakenBody(Host)
           Deliver(h, c) == /\ heap' = h /\ UNCHANGED stopped
                            /\ flight' = [flight EXCEPT ![Host] = <<Ref(c, Top(Host).value)>>]
                            /\ targets' = [targets EXCEPT ![Host] = {Producer}]
                            /\ Goto(Host, "deliver")
       IN  \/ ~stopped /\ Deliver(TakenHeap(Host), b)
           \/ ~stopped /\ Deliver(OwnBody(TakenHeap(Host), b), OwnedBody(TakenHeap(Host), b))
           \/ heap' = DropBody(TakenHeap(Host), b) /\ UNCHANGED <<delivery, pc, stopped>>
    /\ cloned' = Forget(heap', cloned)
    /\ Pop(Host)
    /\ UNCHANGED <<graph, given, nodes, budget>>

\* dispatch: a reference for the queue of each consumer, unless the graph is
\* stopped when the queue is locked.
Dispatch(t) ==
    /\ At(t, "deliver")
    /\ \E n \in targets[t] :
          /\ targets' = [targets EXCEPT ![t] = @ \ {n}]
          /\ IF stopped
               THEN UNCHANGED <<heap, queue>>
               ELSE /\ heap' = RetainAll(heap, flight[t])
                    /\ queue' = [queue EXCEPT ![n] = @ \o flight[t]]
    /\ UNCHANGED <<graph, given, handle, slot, staging, spoilt, flight, pc, stopped, cloned, budget>>

\* The references of the call itself go last, one by one: flush_staging clears
\* them before it schedules the consumers, send when it returns.
Delivered(t) ==
    /\ At(t, "deliver") /\ targets[t] = {}
    /\ heap' = DropBody(heap, Head(flight[t]).body)
    /\ cloned' = Forget(heap', cloned)
    /\ flight' = [flight EXCEPT ![t] = Tail(@)]
    /\ IF Len(flight[t]) > 1 THEN UNCHANGED pc ELSE Goto(t, IF t = Host THEN "run" ELSE "idle")
    /\ UNCHANGED <<graph, given, handle, nodes, targets, stopped, budget>>

---------------------------------------------------------------------------
(* The callback of a node.                                                 *)

\* try_claim moves the packet from the queue to the context.
Claim(n) ==
    /\ At(n, "idle") /\ ~stopped /\ queue[n] # <<>>
    /\ slot' = [slot EXCEPT ![n] = <<Head(queue[n])>>]
    /\ queue' = [queue EXCEPT ![n] = Tail(@)]
    /\ Goto(n, "ready")
    /\ UNCHANGED <<graph, heap, given, handle, staging, spoilt, delivery, stopped, cloned, budget>>

Foreign(r) == heap.payload[heap.body[r.body].payload].kind = "foreign"
\* validate_type_id: the engine's own types and registered ones.
TypeExists(r) == Foreign(r) => registered
\* check_input_types: a type that exists, and the one the contract declares.
InputFits(n) == TypeExists(slot[n][1]) /\ (n \in Typed => ~Foreign(slot[n][1]))
\* check_output_types: the outputs are declared to be of any type.
OutputsFit(n) == \A i \in DOMAIN staging[n] : TypeExists(staging[n][i])

\* The invocation fails: the error stops the graph (abort), or what was
\* staged is discarded and the node goes on (skip).
Fail(n) ==
    \/ stopped' = TRUE /\ Goto(n, "failed")
    \/ UNCHANGED stopped /\ Goto(n, IF staging[n] = <<>> THEN "done" ELSE "discard")

\* discard_staging: one packet after the other.
Unstage(n) ==
    /\ At(n, "discard")
    /\ heap' = DropBody(heap, Head(staging[n]).body)
    /\ cloned' = Forget(heap', cloned)
    /\ staging' = [staging EXCEPT ![n] = Tail(@)]
    /\ IF Len(staging[n]) > 1 THEN UNCHANGED pc ELSE Goto(n, "done")
    /\ UNCHANGED <<graph, given, handle, slot, queue, spoilt, delivery, stopped, budget>>

Start(n) ==
    /\ At(n, "ready")
    /\ \/ stopped /\ Goto(n, "failed") /\ UNCHANGED stopped
       \/ ~stopped /\ InputFits(n) /\ Goto(n, "run") /\ UNCHANGED stopped
       \/ ~stopped /\ ~InputFits(n) /\ Fail(n)
    /\ UNCHANGED <<graph, heap, given, handle, nodes, delivery, cloned, budget>>

\* Node n has payload p in its staging.
Staged(n, p) == \E i \in DOMAIN staging[n] : heap.body[staging[n][i].body].payload = p
Again(n, b) ==
    LET p == heap.body[b].payload IN cloned' = IF Staged(n, p) THEN cloned \cup {p} ELSE cloned

\* lmflow_ctx_take_input: the reference of the slot becomes the kernel's.
TakeInput(n) ==
    /\ Running(n) /\ slot[n] # <<>>
    /\ Push(n, slot[n][1])
    /\ slot' = [slot EXCEPT ![n] = <<>>]
    /\ Again(n, slot[n][1].body)
    /\ UNCHANGED <<graph, heap, given, staging, queue, spoilt, delivery, pc, stopped, budget>>

\* lmflow_ctx_input borrows the packet in the slot; the kernel clones it.
CloneInput(n) ==
    /\ Running(n) /\ slot[n] # <<>> /\ Spend("clones")
    /\ heap' = Retain(heap, slot[n][1].body)
    /\ Push(n, slot[n][1]) /\ MarkCloned(slot[n][1].body)
    /\ UNCHANGED <<graph, given, nodes, delivery, pc, stopped>>

\* The emit and forward of the C ABI return nothing: a failure is kept for the
\* end of the callback.
Spoil(n) == spoilt' = spoilt \cup {n}

\* lmflow_ctx_emit takes the packet; it is staged if the port exists and the
\* timestamp may be in a stream.
Emit(n) ==
    /\ Running(n) /\ Owns(n)
    /\ Pop(n)
    /\ \/ /\ n = Producer
          /\ heap' = TakenHeap(n)
          /\ staging' = [staging EXCEPT ![n] = Append(@, Ref(TakenBody(n), Top(n).value))]
          /\ Again(n, TakenBody(n))
          /\ UNCHANGED <<spoilt, budget>>
       \/ /\ Spend("faults")
          /\ heap' = DropBody(TakenHeap(n), TakenBody(n))
          /\ cloned' = Forget(heap', cloned)
          /\ Spoil(n) /\ UNCHANGED staging
    /\ UNCHANGED <<graph, given, slot, queue, delivery, pc, stopped>>

\* lmflow_ctx_forward clones the slot into the staging.
Forward(n) ==
    /\ Running(n) /\ n = Producer /\ Spend("clones")
    /\ IF slot[n] = <<>>
         THEN Spoil(n) /\ UNCHANGED <<heap, staging, cloned>>
         ELSE /\ heap' = Retain(heap, slot[n][1].body)
              /\ staging' = [staging EXCEPT ![n] = Append(@, slot[n][1])]
              /\ Again(n, slot[n][1].body)
              /\ UNCHANGED spoilt
    /\ UNCHANGED <<graph, given, handle, slot, queue, delivery, pc, stopped>>

\* The callback returns, with an error if it says so, an output failed or an
\* output has a type that does not exist.
Return(n) ==
    /\ Running(n) /\ ~Owns(n)
    /\ spoilt' = spoilt \ {n}
    /\ LET good == n \notin spoilt /\ OutputsFit(n)
       IN  \/ good /\ Goto(n, "done") /\ UNCHANGED <<stopped, budget>>
           \/ good /\ Spend("faults") /\ Fail(n)
           \/ ~good /\ Fail(n) /\ UNCHANGED budget
    /\ UNCHANGED <<graph, heap, given, handle, slot, staging, queue, delivery, cloned>>

\* A mutant: the inputs stay where they are until the next invocation.
CompleteLater(n) ==
    /\ At(n, "done") /\ Goto(n, IF staging[n] = <<>> THEN "idle" ELSE "deliver")
    /\ flight' = [flight EXCEPT ![n] = staging[n]]
    /\ targets' = [targets EXCEPT ![n] = IF staging[n] = <<>> THEN {} ELSE consumers]
    /\ staging' = [staging EXCEPT ![n] = <<>>]
    /\ UNCHANGED <<graph, heap, given, handle, slot, queue, spoilt, stopped, cloned, budget>>

\* complete_invocation: the input is let go first, then what was staged is
\* flushed, if there is any, or discarded after an error.
Complete(n) ==
    /\ pc[n] \in {"done", "failed"}
    /\ heap' = IF slot[n] = <<>> THEN heap ELSE DropBody(heap, slot[n][1].body)
    /\ cloned' = Forget(heap', cloned)
    /\ slot' = [slot EXCEPT ![n] = <<>>]
    /\ \/ staging[n] = <<>> /\ Goto(n, "idle") /\ UNCHANGED <<staging, delivery>>
       \/ /\ staging[n] # <<>> /\ At(n, "done") /\ ~stopped /\ Goto(n, "deliver")
          /\ flight' = [flight EXCEPT ![n] = staging[n]]
          /\ targets' = [targets EXCEPT ![n] = consumers]
          /\ staging' = [staging EXCEPT ![n] = <<>>]
       \/ /\ staging[n] # <<>> /\ (At(n, "failed") \/ stopped) /\ Goto(n, "discard")
          /\ UNCHANGED <<staging, delivery>>
    /\ UNCHANGED <<graph, given, handle, queue, spoilt, stopped, budget>>

Cancel ==
    /\ ~stopped /\ stopped' = TRUE /\ Spend("faults")
    /\ UNCHANGED <<graph, heap, given, handle, nodes, delivery, pc, cloned>>

\* discard_queued_inputs, when the node is closed by force: no packet comes any more.
Discard(n) ==
    /\ stopped /\ At(n, "idle") /\ queue[n] # <<>>
    /\ heap' = DropBody(heap, Head(queue[n]).body)
    /\ cloned' = Forget(heap', cloned)
    /\ queue' = [queue EXCEPT ![n] = Tail(@)]
    /\ UNCHANGED <<graph, given, handle, slot, staging, spoilt, delivery, pc, stopped, budget>>

---------------------------------------------------------------------------
Init ==
    /\ source \in Descriptors /\ consumers = {} /\ registered = FALSE
    /\ heap = EmptyHeap /\ given = {}
    /\ handle = [t \in Threads |-> <<>>]
    /\ slot = [n \in Nodes |-> <<>>] /\ staging = slot /\ queue = slot /\ spoilt = {}
    /\ flight = [t \in Threads |-> <<>>] /\ targets = [t \in Threads |-> {}]
    /\ pc = [t \in Threads |-> IF t = Host THEN "describe" ELSE "idle"] /\ stopped = FALSE
    /\ cloned = {} /\ budget = [packets |-> 0, buffers |-> 0, clones |-> 0, changes |-> 0, faults |-> 0]

HostStep ==
    \/ CopyBuffer \/ AdoptBuffer \/ BuildGraph
    \/ MakeBuiltin(Host) \/ Register \/ Send \/ Cancel
PacketStep(t) == BuildPacket(t) \/ NewInterop(t) \/ Clone(t) \/ Drop(t) \/ SetMetadata(t) \/ MakeMutable(t) \/ OwnPayload(t)
KernelStep(n) == NewBuffer(n) \/ TakeInput(n) \/ CloneInput(n) \/ Emit(n) \/ Forward(n) \/ Return(n)
NodeStep(n) == Claim(n) \/ Start(n) \/ Complete(n) \/ Unstage(n) \/ Discard(n)
DeliveryStep(t) == Dispatch(t) \/ Delivered(t)

\* An allocation that fails ends the program: no step without free addresses.
Room == FreeBodies(heap) # {} /\ FreePayloads(heap) # {}

Next ==
    /\ Room
    /\ \/ HostStep
       \/ \E t \in Threads : PacketStep(t) \/ DeliveryStep(t)
       \/ \E n \in Nodes : KernelStep(n) \/ NodeStep(n)

Spec == Init /\ [][Next]_vars

---------------------------------------------------------------------------
(* Properties.                                                             *)

\* Where packets are.
Boxes == ({"handle", "flight"} \X Threads) \cup ({"slot", "staging", "queue"} \X Nodes)
Contents ==
    [k \in Boxes |-> CASE k[1] = "handle" -> handle[k[2]]
                       [] k[1] = "flight" -> flight[k[2]]
                       [] k[1] = "slot" -> slot[k[2]]
                       [] k[1] = "staging" -> staging[k[2]]
                       [] k[1] = "queue" -> queue[k[2]]]
Places == UNION {{k} \X DOMAIN Contents[k] : k \in Boxes}
RefAt(x) == Contents[x[1]][x[2]]
\* The places whose packet has its body.
Held == {x \in Places : RefAt(x).own = Nobody}
PayloadAt(x) == heap.body[RefAt(x).body].payload
\* Resources and allocations that some packet still has.
Reachable ==
    {heap.payload[PayloadAt(x)].own : x \in Held} \cup {RefAt(x).own : x \in Places}

(***************************************************************************)
(* The host's buffer, however it is laid out, is copied exactly.           *)
(***************************************************************************)
CopiesExact == source # Nobody => Buffer!CopiesExactly(source)

(***************************************************************************)
(* Packets are values: whoever has a packet finds the content and the      *)
(* metadata it had when it was put there, whatever others do with packets  *)
(* that share its body or its payload ("immutable and shared", packet.rs;  *)
(* docs/design.md 3.4: a fan-out does not contaminate its siblings).       *)
(***************************************************************************)
ValuesKept == \A x \in Held : Value(heap, RefAt(x).body) = RefAt(x).value

(***************************************************************************)
(* What a packet refers to is there as long as the packet. The host's      *)
(* buffers and objects are released once, when the last packet is gone,    *)
(* and memory goes back to a pool within its limit, where no packet has it *)
(* ("exactly once", packet.rs).                                            *)
(***************************************************************************)
Lifetimes ==
    LET reachable == Reachable
    IN  /\ \A x \in Held : heap.body[RefAt(x).body].refs > 0 /\ heap.payload[PayloadAt(x)].refs > 0
        /\ \A r \in Resources : heap.released[r] = IF r \in given \ reachable THEN 1 ELSE 0
        /\ \A m \in Memory : heap.cached[m] <= IF m \in reachable THEN 0 ELSE 1
        /\ heap.bytes = Cardinality(UNION {{m} \X (1 .. heap.cached[m] * MemorySize[m]) : m \in Memory})
        /\ heap.bytes <= PoolBytes

(***************************************************************************)
(* "Once a packet is delivered the engine keeps no reference to it"        *)
(* (docs/design.md 3.4): where a node has one consumer, and the program    *)
(* made no second packet of a payload, a kernel that took its input and    *)
(* asks for a writable view shares the payload with nobody but a delivery  *)
(* that has not returned and packets of its own.                           *)
(***************************************************************************)
NothingKept ==
    \A n \in Nodes : At(n, "payload") /\ (Cardinality(consumers) = 1 \/ n = Producer) =>
        \/ Wanted(n) \in cloned
        \/ \A x \in Held : PayloadAt(x) = Wanted(n) =>
              x[1][1] = "flight" \/ x[1] \in {<<"handle", n>>, <<"staging", n>>}
=============================================================================
