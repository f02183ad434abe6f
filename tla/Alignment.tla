------------------------------ MODULE Alignment ------------------------------
(***************************************************************************)
(* The input ports of one node: which packets an invocation gets.  Each    *)
(* port has a queue, a bound ("no packet below it will come") and a closed *)
(* flag, all written by the thread that dispatches its edge without the    *)
(* node lock; try_claim reads them port by port under that lock.           *)
(*                                                                         *)
(* A port's stream keeps its own bounds, as timestamp.rs asks of it        *)
(* (nothing follows PreStream); the engine does not enforce that.          *)
(***************************************************************************)
EXTENDS Timestamps, Sequences, FiniteSets

CONSTANTS
    NumPorts,           \* input ports of the node
    BackEdges,          \* sets of ports that may be feedback registers
    Policies,           \* input policies, as in the configuration
    Groups,             \* the groups of "sync_set": a partition of the ports
    Capacity,           \* capacity of "fixed_size", size of "batch"
    SingleSlots,        \* whether packets may be at PreStream and at PostStream
    MaxBatch,           \* bound: packets dispatched together
    MaxQueue,           \* bound: packets waiting at a port
    Quietness           \* whether a claim is never interleaved with a dispatch
                        \* of its ports, nor with their closing

Ports == 1 .. NumPorts
Worker == 0             \* the thread that runs the invocations
Threads == {Worker} \cup Ports

ASSUME AlignmentAssumption ==
    /\ NumPorts \in Nat \ {0} /\ Capacity \in Nat \ {0}
    /\ MaxBatch \in Nat /\ MaxQueue \in Nat /\ SingleSlots \in BOOLEAN
    /\ Quietness \subseteq BOOLEAN
    /\ Policies \subseteq {"sync", "immediate", "fixed_size", "sync_set", "batch"}
    /\ BackEdges \subseteq (SUBSET Ports) \ {Ports}
    /\ Groups \subseteq SUBSET Ports
    /\ \A p \in Ports : \E g \in Groups : p \in g

VARIABLES
    policy, back,       \* the configuration of the node
    quiet,              \* assumed of its surroundings
    queue, bound, closed,
    pc, promise,        \* the dispatching threads and the bounds of their streams
    scan,               \* who holds the node lock, and what it saw
    inFlight, inv       \* invocations claimed, and the last of them
config == <<policy, back, quiet>>
inputs == <<queue, bound, closed>>
claims == <<inFlight, inv>>
vars == <<config, inputs, pc, promise, scan, claims>>

Forward == Ports \ back

NoInvocation == [ts |-> Unset, taken |-> [p \in Ports |-> <<>>], ports |-> {},
                 done |-> [p \in Ports |-> FALSE]]
NoScan == [by |-> Worker, phase |-> "free", seen |-> [p \in Ports |-> <<>>],
           left |-> [p \in Ports |-> 0]]

Streams == Seq(PreStream .. PostStream)

TypeOK ==
    /\ policy \in Policies /\ back \in BackEdges \cup {{}} /\ quiet \in Quietness
    /\ queue \in [Ports -> Streams]
    /\ bound \in [Ports -> Timestamp]
    /\ closed \in [Ports -> BOOLEAN]
    /\ pc \in [Threads -> {"idle", "advance", "schedule", "closing"}]
    /\ promise \in [Ports -> Timestamp]
    /\ scan \in [by : Threads, phase : {"free", "looked", "popped"}, seen : [Ports -> Streams],
                 left : [Ports -> Nat]]
    /\ inFlight \in {0, 1}
    /\ inv \in [ts : Timestamp, taken : [Ports -> Streams], ports : SUBSET Ports,
                done : [Ports -> BOOLEAN]]

\* build and reset: bounds start at PreStream, not at the Done of an earlier run.
Init ==
    /\ policy \in Policies
    /\ back \in BackEdges \cup {{}}
    /\ policy = "sync_set" => back = {}
    /\ quiet \in Quietness
    /\ queue = [p \in Ports |-> <<>>]
    /\ bound = [p \in Ports |-> PreStream]
    /\ closed = [p \in Ports |-> FALSE]
    /\ pc = [t \in Threads |-> "idle"]
    /\ promise = [p \in Ports |-> PreStream]
    /\ scan = NoScan
    /\ inFlight = 0
    /\ inv = NoInvocation

Free == scan.phase = "free"
Goto(t, l) == pc' = [pc EXCEPT ![t] = l]

\* advance_bound: a bound never moves back.
Raised(p, to) == [bound EXCEPT ![p] = AtLeast(@, to)]

---------------------------------------------------------------------------
(* The threads that dispatch the edges, one per port.                      *)

MayDispatch(p) == pc[p] = "idle" /\ ~closed[p] /\ (quiet => Free)

\* What a dispatch may bring: increasing timestamps the stream allows.
FirstTime == IF SingleSlots THEN PreStream ELSE MinTime
LastTime == IF SingleSlots THEN PostStream ELSE MaxTime
Batches(p) ==
    {b \in UNION {[1 .. n -> AtLeast(promise[p], FirstTime) .. LastTime] : n \in 1 .. MaxBatch} :
        \A i, j \in 1 .. Len(b) : i < j => NextAllowedInStream(b[i]) <= b[j]}

\* fixed_size and feedback registers are lossy: the oldest packets go first.
Newest(s, n) == IF Len(s) > n THEN SubSeq(s, Len(s) - n + 1, Len(s)) ELSE s

Push(p, b) ==
    IF p \in back THEN Newest(queue[p] \o b, 1)
    ELSE IF policy = "fixed_size" THEN Newest(queue[p] \o b, Capacity)
    ELSE queue[p] \o b

\* dispatch: the packets enter the queue under its lock ...
Dispatch(p) ==
    /\ MayDispatch(p)
    /\ \E b \in Batches(p) :
          /\ Len(Push(p, b)) <= MaxQueue
          /\ queue' = [queue EXCEPT ![p] = Push(p, b)]
          /\ promise' = [promise EXCEPT ![p] = NextAllowedInStream(b[Len(b)])]
    /\ Goto(p, "advance")
    /\ UNCHANGED <<config, bound, closed, scan, claims>>

\* ... and the bound follows when the lock is gone.
Advance(p) ==
    /\ pc[p] = "advance"
    /\ quiet => Free
    /\ bound' = Raised(p, promise[p])
    /\ Goto(p, "schedule")
    /\ UNCHANGED <<config, queue, closed, promise, scan, claims>>

\* flush_one without packets and propagate_bound: an invocation upstream that
\* emits nothing still moves the bound.
PropagateBound(p) ==
    /\ MayDispatch(p)
    /\ \E to \in promise[p] + 1 .. OneOverPostStream :
          /\ bound' = Raised(p, to)
          /\ promise' = [promise EXCEPT ![p] = to]
    /\ Goto(p, "schedule")
    /\ UNCHANGED <<config, queue, closed, scan, claims>>

\* close_edge_committed: first the flag, then the bound.
Close(p) ==
    /\ MayDispatch(p)
    /\ closed' = [closed EXCEPT ![p] = TRUE]
    /\ promise' = [promise EXCEPT ![p] = Done]
    /\ Goto(p, "closing")
    /\ UNCHANGED <<config, queue, bound, scan, claims>>

FinishClose(p) ==
    /\ pc[p] = "closing"
    /\ quiet => Free
    /\ bound' = Raised(p, promise[p])
    /\ Goto(p, "schedule")
    /\ UNCHANGED <<config, queue, closed, promise, scan, claims>>

---------------------------------------------------------------------------
(* Readiness.  seen is what the queues showed, bound what it is now.       *)

Least(S) == CHOOSE t \in S : \A u \in S : t <= u

\* sync_align: the least front, if no empty port may still receive one as old.
MinPacket(ports, seen) ==
    Least({Done} \cup {Head(seen[p]) : p \in {q \in ports : seen[q] # <<>>}})
MinBound(ports, seen) ==
    Least({Done} \cup {bound[p] : p \in {q \in ports : seen[q] = <<>>}})

\* Mutated: a bound that equals the packet is taken for enough.
AlignedLoosely(ports, seen) ==
    /\ MinPacket(ports, seen) # Done
    /\ MinBound(ports, seen) >= MinPacket(ports, seen)

Aligned(ports, seen) ==
    /\ MinPacket(ports, seen) # Done
    /\ MinBound(ports, seen) > MinPacket(ports, seen)

NoPackets == [p \in Ports |-> 0]

\* One timestamp: the packets at it, of the given ports.
TakeAt(ts, ports, seen) ==
    [p \in Ports |-> IF p \in ports /\ seen[p] # <<>> /\ Head(seen[p]) = ts THEN 1 ELSE 0]

\* batch_readiness: Capacity rounds of alignment on the prefixes that were seen.
Rest(seen, take) == [p \in Ports |-> SubSeq(seen[p], take[p] + 1, Len(seen[p]))]

\* The n-th round, after the rounds that led to r: one more timestamp, if it is
\* aligned and no round before it failed.
NextRound(seen, r, n) ==
    LET rest == Rest(seen, r.take)
        ts == MinPacket(Forward, rest)
        at == TakeAt(ts, Forward, rest)
    IN  IF r.rounds < n - 1 \/ ~Aligned(Forward, rest) THEN r
        ELSE [take |-> [p \in Ports |-> r.take[p] + at[p]], last |-> ts, rounds |-> n]

AlignedRounds(seen) ==
    LET round[n \in 0 .. Capacity] ==
            IF n = 0 THEN [take |-> NoPackets, last |-> Unset, rounds |-> 0]
            ELSE NextRound(seen, round[n - 1], n)
    IN  round[Capacity]

\* Mutated: what is there is handed out although more may come.
BatchReadyEarly(seen) == AlignedRounds(seen).rounds > 0

\* A batch is handed out full, or at the end of all streams.
BatchReady(seen) ==
    LET n == AlignedRounds(seen).rounds
    IN  n > 0 /\ (n < Capacity => \A p \in Forward : closed[p])

Fronts(seen) == {p \in Forward : seen[p] # <<>>}

\* readiness: the plans a claim may follow, none or one of them (two groups of
\* "sync_set" may be ready at the same timestamp; the code takes the first).
Plans(seen) ==
    LET at(ts, ports) == [ts |-> ts, ports |-> ports, take |-> TakeAt(ts, ports, seen)]
        ready == {g \in Groups : Aligned(g, seen)}
    IN  CASE policy = "immediate" ->
               IF Fronts(seen) = {} THEN {} ELSE {at(MinPacket(Forward, seen), Forward)}
          [] policy \in {"sync", "fixed_size"} ->
               IF Aligned(Forward, seen) THEN {at(MinPacket(Forward, seen), Forward)} ELSE {}
          [] policy = "sync_set" ->
               {at(MinPacket(g, seen), g) :
                   g \in {h \in ready : \A k \in ready : MinPacket(h, seen) <= MinPacket(k, seen)}}
          [] policy = "batch" ->
               IF BatchReady(seen)
               THEN LET r == AlignedRounds(seen)
                    IN  {[ts |-> r.last, ports |-> Forward, take |-> r.take]}
               ELSE {}

---------------------------------------------------------------------------
(* try_claim, under the node lock.                                         *)

\* schedule_node finds the slot taken: whoever retires will look again.
Refused(t) ==
    /\ pc[t] = "schedule" /\ Free /\ inFlight = 1
    /\ Goto(t, "idle")
    /\ UNCHANGED <<config, inputs, promise, scan, claims>>

\* Mutated: the node is looked at although its slot is taken.
LookAnyway(t) ==
    /\ pc[t] = "schedule" /\ Free
    /\ scan' = [scan EXCEPT !.by = t, !.phase = "looked", !.seen = queue]
    /\ UNCHANGED <<config, inputs, pc, promise, claims>>

\* The queues are read, each under its own lock.
Look(t) ==
    /\ pc[t] = "schedule" /\ Free /\ inFlight = 0
    /\ quiet => \A p \in Ports : pc[p] # "closing"
    /\ scan' = [scan EXCEPT !.by = t, !.phase = "looked", !.seen = queue]
    /\ UNCHANGED <<config, inputs, pc, promise, claims>>

NotReady ==
    /\ scan.phase = "looked"
    /\ Plans(scan.seen) = {}
    /\ scan' = NoScan
    /\ Goto(scan.by, "idle")
    /\ UNCHANGED <<config, inputs, promise, claims>>

\* What is popped: by a batch, as many as planned; else the front at the
\* timestamp of the plan; of a register, whatever it holds.
Popped(plan, p) ==
    LET q == queue[p]
        n == IF p \in back THEN 1
             ELSE IF policy = "batch" THEN plan.take[p]
             ELSE IF p \in plan.ports /\ q # <<>> /\ Head(q) = plan.ts THEN 1 ELSE 0
    IN  SubSeq(q, 1, IF n < Len(q) THEN n ELSE Len(q))

\* The bounds are read, and with them the decision: pop, and raise the bounds
\* of the ports that took part.  The lengths left are noted under the locks.
Claim ==
    /\ scan.phase = "looked"
    /\ \E plan \in Plans(scan.seen) :
          LET taken == [p \in Ports |-> Popped(plan, p)]
              rest == [p \in Ports |-> SubSeq(queue[p], Len(taken[p]) + 1, Len(queue[p]))]
          IN  /\ queue' = rest
              /\ bound' = [p \in Ports |->
                              IF p \in plan.ports
                                THEN AtLeast(bound[p], NextAllowedInStream(plan.ts))
                                ELSE bound[p]]
              /\ inv' = [ts |-> plan.ts, taken |-> taken, ports |-> plan.ports,
                         done |-> [p \in Ports |-> FALSE]]
              /\ scan' = [scan EXCEPT !.phase = "popped",
                                      !.seen = [p \in Ports |-> <<>>],
                                      !.left = [p \in Ports |-> Len(rest[p])]]
    /\ inFlight' = inFlight + 1
    /\ UNCHANGED <<config, closed, pc, promise>>

\* Mutated: a port that is empty is done.
DoneFlagsEmpty ==
    [p \in Ports |-> p \in inv.ports \cup back /\ scan.left[p] = 0]

\* inputs_done of each port that was looked at: closed, and nothing was left.
DoneFlags ==
    [p \in Ports |-> p \in inv.ports \cup back /\ closed[p] /\ scan.left[p] = 0]

\* The invocation is handed to the executor, and schedule_node tries once more.
Claimed ==
    /\ scan.phase = "popped"
    /\ inv' = [inv EXCEPT !.done = DoneFlags]
    /\ scan' = NoScan
    /\ UNCHANGED <<config, inputs, pc, promise, inFlight>>

\* Mutated: the worker leaves the next claim to the dispatching threads.
RetireOnly ==
    /\ inFlight = 1 /\ Free /\ pc[Worker] = "idle"
    /\ inFlight' = 0
    /\ inv' = NoInvocation
    /\ UNCHANGED <<config, inputs, pc, promise, scan>>

\* The invocation is retired; its worker schedules the node again.
Retire ==
    /\ inFlight = 1 /\ Free /\ pc[Worker] = "idle"
    /\ inFlight' = 0
    /\ inv' = NoInvocation
    /\ Goto(Worker, "schedule")
    /\ UNCHANGED <<config, inputs, promise, scan>>

Next ==
    \/ \E p \in Ports : \/ Dispatch(p) \/ Advance(p) \/ PropagateBound(p)
                        \/ Close(p) \/ FinishClose(p)
    \/ \E t \in Threads : Refused(t) \/ Look(t)
    \/ NotReady \/ Claim \/ Claimed \/ Retire

Spec == Init /\ [][Next]_vars

---------------------------------------------------------------------------
(* Properties.                                                             *)

Aligning == policy # "immediate"
ClaimStep == inFlight < inFlight'
Times(s) == {s[i] : i \in 1 .. Len(s)}

CompleteClaim ==
    /\ \E p \in Forward : inv'.taken[p] # <<>>
    /\ Aligning => \A p \in inv'.ports :
          /\ \A t \in Times(queue'[p]) : t > inv'.ts
          /\ promise[p] > inv'.ts

(***************************************************************************)
(* When nobody dispatches meanwhile, an invocation is never empty, and it  *)
(* gets every packet up to its timestamp: none as old is left at a port    *)
(* that took part, and its stream may not bring one any more, up to the    *)
(* ends of the range of timestamps (node.rs, readiness and sync_align).    *)
(* With three ports or more this needs streams without the single slots: a *)
(* claim at PreStream or MaxTime raises the bounds of all ports to the end. *)
(***************************************************************************)
InvocationComplete == [][quiet /\ ClaimStep => CompleteClaim]_vars

(***************************************************************************)
(* The same, whoever dispatches (node.rs:623, the doc of readiness: once   *)
(* ready, a node has every packet of the timestamp).                       *)
(***************************************************************************)
AlwaysComplete == [][ClaimStep => CompleteClaim]_vars

(***************************************************************************)
(* A batch has Capacity timestamps, and fewer only when nothing is left or *)
(* to come (node.rs: cutting a batch early is a silent change of meaning). *)
(***************************************************************************)
BatchesWhole ==
    [][quiet /\ ClaimStep /\ policy = "batch" =>
          \/ Cardinality(UNION {Times(inv'.taken[p]) : p \in Forward}) = Capacity
          \/ \A p \in Forward : closed[p] /\ queue'[p] = <<>>]_vars

(***************************************************************************)
(* An input reported as done has no packet left, now or later: a kernel    *)
(* takes its last look at the stream then.                                 *)
(***************************************************************************)
DoneIsFinal == \A p \in Ports : inv.done[p] => closed[p] /\ queue[p] = <<>>

AtRest == Free /\ inFlight = 0 /\ \A t \in Threads : pc[t] = "idle"

(***************************************************************************)
(* When every thread has gone, nothing is left that a claim could take,    *)
(* and closed inputs have been drained, so that the node can close: every  *)
(* change that makes a node ready is followed by a look at it.             *)
(***************************************************************************)
NothingOverlooked ==
    AtRest => /\ Plans(queue) = {}
              /\ (\A p \in Forward : closed[p]) => \A p \in Forward : queue[p] = <<>>

---------------------------------------------------------------------------
(* The parts of the inductive invariant (AlignmentProofs).                 *)

\* Who holds the node lock found no invocation, or has just claimed one.
ScanInv ==
    /\ scan.phase = "looked" => inFlight = 0
    /\ scan.phase = "popped" => inFlight = 1 /\ \A p \in Ports : ~inv.done[p]
    /\ inFlight = 0 => inv = NoInvocation
    /\ quiet /\ scan.phase = "looked" => scan.seen = queue
    /\ policy = "sync_set" => back = {}

\* Until the flags are read, a port that was left empty stays empty if it is
\* closed, or may be: its thread cannot dispatch and come back for a close.
DoneInv ==
    /\ DoneIsFinal
    /\ scan.phase = "popped" =>
          \A p \in Ports : scan.left[p] = 0 /\ (closed[p] \/ pc[p] = "idle") => queue[p] = <<>>

\* A queue rises, and ends below the bound of its stream.
Rises(s) == \A i, j \in 1 .. Len(s) : i < j => s[i] < s[j]
OrderInv ==
    \A p \in Ports : Rises(queue[p]) /\ \A i \in 1 .. Len(queue[p]) : queue[p][i] < promise[p]

\* Without the single slots no claim takes a bound past what the stream may bring.
PromiseInv ==
    ~SingleSlots =>
        \A p \in Ports :
            /\ \A i \in 1 .. Len(queue[p]) : queue[p][i] \in MinTime .. MaxTime
            /\ quiet /\ Aligning => bound[p] <= promise[p] \/ promise[p] > MaxTime

IInv == TypeOK /\ ScanInv /\ DoneInv /\ OrderInv /\ PromiseInv

\* Who will look: a thread that has not come to it yet, or that looks now, unless
\* what it saw is what there is.  A closed port has nothing to wait for.
WatchInv ==
    /\ Free /\ inFlight = 0 /\ Plans(queue) # {} => \E t \in Threads : pc[t] # "idle"
    /\ scan.phase = "looked" =>
          /\ pc[scan.by] = "schedule"
          /\ scan.seen = queue \/ \E t \in Threads \ {scan.by} : pc[t] # "idle"
          /\ quiet => \A p \in Ports : pc[p] # "closing"
    /\ \A p \in Ports : closed[p] => promise[p] = Done /\ (pc[p] = "closing" \/ bound[p] = Done)
=============================================================================
