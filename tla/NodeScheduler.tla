--------------------------- MODULE NodeScheduler ---------------------------
(***************************************************************************)
(* One node of a running graph: NodeSched (graph/node.rs) and the code     *)
(* that moves an invocation through it - try_claim, run_node,              *)
(* complete_invocation, drive_invocation_flushes, resume_blocked_flushes,  *)
(* maybe_close - executed by several threads at once.                      *)
(*                                                                         *)
(* The node has one input port, fed by the host, and one output edge       *)
(* whose single consumer has a lossless queue of Capacity packets.         *)
(* Every action is one critical section of the code, or the stretch of     *)
(* code between two of them; pc[t] says which one thread t executes next.  *)
(*                                                                         *)
(* An invocation is named by its sequence number (seq).  stage[s] is the   *)
(* container that holds it: the executor-side ready deque, a thread, the   *)
(* pending_flush map or blocked_flush.  The packets of an invocation are   *)
(* abstracted to their number, and a packet's timestamp to the seq of the  *)
(* invocation that emitted it.                                             *)
(***************************************************************************)
EXTENDS Integers, FiniteSets

CONSTANTS
    Workers,      \* threads of the executor the node runs on
    Host,         \* the host thread: sends, closes, pumps, waits, cancels
    Consumer,     \* the thread that runs the downstream node
    MaxInFlight,  \* max_in_flight of the node
    Inputs,       \* bound: packets the host sends in a run
    Capacity,     \* packets the consumer's input queue holds
    MaxEmit,      \* bound: packets one Process call emits
    OpenEmits,    \* possible numbers of packets emitted by Open
    CloseEmits,   \* possible numbers of packets emitted by Close
    HostRetries,  \* the host waits in wait_until_idle/wait_done, which retry
    MayStop       \* whether cancel and failing callbacks are explored

ASSUME ThreadsAssumption ==
    /\ Host \notin Workers
    /\ Consumer \notin Workers
    /\ Host # Consumer

ASSUME BoundsAssumption ==
    /\ MaxInFlight \in Nat \ {0}
    /\ Inputs \in Nat \ {0}
    /\ Capacity \in Nat \ {0}
    /\ MaxEmit \in Nat
    /\ OpenEmits \subseteq Nat
    /\ CloseEmits \subseteq Nat
    /\ HostRetries \in BOOLEAN
    /\ MayStop \in BOOLEAN

Threads == Workers \cup {Host, Consumer}
Slots == 0 .. (MaxInFlight - 1)
Seqs == 0 .. (Inputs - 1)

VARIABLES
    nextSeq, nextFlush,   \* next_seq, next_flush_seq
    inFlight, free,       \* in_flight, free_slots (a set: its order is lost)
    stage,                \* where invocation s is
    slotOf,               \* the slot it occupies
    flushing,             \* a thread is flushing this node
    blocked,              \* blocked_flush: "none", "open", "invocation" or "close"
    indexed,              \* the node is in blocked_flush_nodes
    closeStarted, closed, \* close_started, closed
    staging,              \* packets staged in each context slot
    tasks,                \* node tasks queued in the executor
    stopped,              \* the graph is cancelled or has an error
    sent, inQueue, inClosed,                \* the input port
    outQueue, reserved, outBound, outClosed, \* the consumer's port
    consumerBusy,         \* the consumer is between its claim and its flush
    pc, job,              \* where each thread is, and its invocation
    mode,                 \* what it flushes: "invocation", "open", "close", "reclose"
    resumeTo,             \* pc after a resume_blocked_flushes that does nothing
    returnTo,             \* pc after a finish
    closes                \* whether maybe_close follows schedule_node (finish)

sched == <<nextSeq, nextFlush, inFlight, free, stage, slotOf>>
flush == <<flushing, blocked, indexed>>
closing == <<closeStarted, closed>>
input == <<sent, inQueue, inClosed>>
output == <<outQueue, reserved, outBound, outClosed, consumerBusy>>
calls == <<job, mode, resumeTo, returnTo, closes>>
vars == <<sched, flush, closing, staging, tasks, stopped, input, output, pc, calls>>

Stages == {"new", "ready", "held", "pending", "parked", "done"}
Modes == {"invocation", "open", "close", "reclose"}
PCs == {"idle", "run", "process", "complete", "pick", "flush", "reserve",
        "publish", "release", "park", "retire", "openDone", "schedule",
        "claim", "submit", "snapshot", "check", "maybeClose", "tryClose",
        "forceClose", "closing", "closeDone", "closeEdge", "post"}

TypeOK ==
    /\ nextSeq \in 0 .. Inputs /\ nextFlush \in 0 .. Inputs
    /\ inFlight \in Nat /\ free \subseteq Slots
    /\ stage \in [Seqs -> Stages]
    /\ slotOf \in [Seqs -> Slots]
    /\ flushing \in BOOLEAN /\ indexed \in BOOLEAN
    /\ blocked \in {"none", "open", "invocation", "close"}
    /\ closeStarted \in BOOLEAN /\ closed \in BOOLEAN
    /\ staging \in [Slots -> Nat]
    /\ tasks \in Nat /\ stopped \in BOOLEAN
    /\ sent \in 0 .. Inputs /\ inQueue \in 0 .. Inputs /\ inClosed \in BOOLEAN
    /\ outQueue \in Nat /\ reserved \in Nat /\ outBound \in 0 .. Inputs
    /\ outClosed \in BOOLEAN /\ consumerBusy \in BOOLEAN
    /\ pc \in [Threads -> PCs] /\ job \in [Threads -> Seqs]
    /\ mode \in [Threads -> Modes]
    /\ resumeTo \in [Threads -> {"schedule", "return"}]
    /\ returnTo \in [Threads -> {"idle", "post", "snapshot"}]
    /\ closes \in [Threads -> BOOLEAN]

(***************************************************************************)
(* The state start() leaves: either Open staged nothing, or slot 0 and one *)
(* unit of in_flight are reserved for its output.                          *)
(***************************************************************************)
Init ==
    /\ nextSeq = 0 /\ nextFlush = 0
    /\ stage = [s \in Seqs |-> "new"]
    /\ slotOf = [s \in Seqs |-> 0]
    /\ flushing = FALSE
    /\ \/ /\ blocked = "none" /\ inFlight = 0 /\ free = Slots /\ indexed = FALSE
          /\ staging = [k \in Slots |-> 0]
       \/ /\ blocked = "open" /\ inFlight = 1 /\ free = Slots \ {0} /\ indexed = TRUE
          /\ \E n \in OpenEmits : staging = [k \in Slots |-> IF k = 0 THEN n ELSE 0]
    /\ closeStarted = FALSE /\ closed = FALSE
    /\ tasks = 0 /\ stopped = FALSE
    /\ sent = 0 /\ inQueue = 0 /\ inClosed = FALSE
    /\ outQueue = 0 /\ reserved = 0 /\ outBound = 0 /\ outClosed = FALSE
    /\ consumerBusy = FALSE
    /\ pc = [t \in Threads |-> IF t = Host THEN "snapshot" ELSE "idle"]
    /\ job = [t \in Threads |-> 0]
    /\ mode = [t \in Threads |-> "invocation"]
    /\ resumeTo = [t \in Threads |-> "return"]
    /\ returnTo = [t \in Threads |-> "idle"]
    /\ closes = [t \in Threads |-> FALSE]

---------------------------------------------------------------------------
(* Control flow of the nested calls.                                       *)

Goto(t, label) == pc' = [pc EXCEPT ![t] = label]

\* finish(n): schedule_node, then maybe_close, then the caller goes on.
Finish(t) ==
    /\ Goto(t, "schedule")
    /\ closes' = [closes EXCEPT ![t] = TRUE]
    /\ job' = [job EXCEPT ![t] = 0]
    /\ mode' = [mode EXCEPT ![t] = "invocation"]
    /\ UNCHANGED <<resumeTo, returnTo>>

\* The outermost call ends.
Return(t) ==
    /\ Goto(t, returnTo[t])
    /\ closes' = [closes EXCEPT ![t] = FALSE]
    /\ mode' = [mode EXCEPT ![t] = "invocation"]
    /\ resumeTo' = [resumeTo EXCEPT ![t] = "return"]
    /\ returnTo' = [returnTo EXCEPT ![t] = "idle"]
    /\ UNCHANGED job

\* resume_blocked_flushes found nothing to do, or did it without a finish.
ResumeReturns(t) ==
    IF resumeTo[t] = "schedule"
      THEN /\ Goto(t, "schedule")
           /\ mode' = [mode EXCEPT ![t] = "invocation"]
           /\ UNCHANGED <<job, resumeTo, returnTo, closes>>
      ELSE Return(t)

\* A thread with nothing on its stack enters code that ends by going idle.
Enter(t, label) ==
    /\ pc[t] = "idle"
    /\ Goto(t, label)
    /\ UNCHANGED calls

---------------------------------------------------------------------------
(* The host.                                                               *)

Send ==
    /\ Enter(Host, "schedule")
    /\ ~inClosed /\ ~stopped /\ sent < Inputs
    /\ sent' = sent + 1 /\ inQueue' = inQueue + 1
    /\ UNCHANGED <<sched, flush, closing, staging, tasks, stopped, inClosed, output>>

CloseInput ==
    /\ Enter(Host, "schedule")
    /\ ~inClosed
    /\ inClosed' = TRUE
    /\ UNCHANGED <<sched, flush, closing, staging, tasks, stopped, sent, inQueue, output>>

\* pump_step with no delegated task: try_advance_closing.
Pump ==
    /\ Enter(Host, "maybeClose")
    /\ ~closed
    /\ UNCHANGED <<sched, flush, closing, staging, tasks, stopped, input, output>>

\* Every round of wait_until_idle and wait_done retries parked flushes.
Retry ==
    /\ HostRetries
    /\ Enter(Host, "snapshot")
    /\ indexed
    /\ UNCHANGED <<sched, flush, closing, staging, tasks, stopped, input, output>>

\* workers_idle: no claim of this node or of the consumer is outstanding.
WorkersIdle ==
    /\ tasks = 0 /\ ~consumerBusy
    /\ \A w \in Workers : pc[w] = "idle"
    /\ \A t \in Threads : pc[t] # "submit"

\* retry_idle_progress: schedule_node first, then resume_blocked_flushes.  The
\* pump_step calls that follow are Pump.
RetryIdle ==
    /\ HostRetries
    /\ pc[Host] = "idle" /\ Goto(Host, "schedule")
    /\ indexed /\ WorkersIdle
    /\ returnTo' = [returnTo EXCEPT ![Host] = "snapshot"]
    /\ UNCHANGED <<sched, flush, closing, staging, tasks, stopped, input, output,
                   job, mode, resumeTo, closes>>

Cancel ==
    /\ MayStop
    /\ Enter(Host, "snapshot")
    /\ ~stopped /\ stopped' = TRUE
    /\ UNCHANGED <<sched, flush, closing, staging, tasks, input, output>>

---------------------------------------------------------------------------
(* The downstream node, one invocation at a time, on a thread of its own.  *)

\* Its try_claim pops a packet, and schedule_node then retries parked flushes.
Dequeue ==
    /\ Enter(Consumer, "snapshot")
    /\ ~stopped /\ ~consumerBusy /\ outQueue > 0
    /\ outQueue' = outQueue - 1 /\ consumerBusy' = TRUE
    /\ UNCHANGED <<sched, flush, closing, staging, tasks, stopped, input,
                   reserved, outBound, outClosed>>

\* Its flush_staging ends with a retry too.
ConsumerFlush ==
    /\ Enter(Consumer, "snapshot")
    /\ consumerBusy /\ consumerBusy' = FALSE
    /\ UNCHANGED <<sched, flush, closing, staging, tasks, stopped, input,
                   outQueue, reserved, outBound, outClosed>>

\* A forced close of the downstream node discards its queue.
ConsumerDiscard ==
    /\ stopped /\ outQueue > 0 /\ outQueue' = 0
    /\ UNCHANGED <<sched, flush, closing, staging, tasks, stopped, input,
                   reserved, outBound, outClosed, consumerBusy, pc, calls>>

---------------------------------------------------------------------------
(* schedule_node: claim while possible; after each claim dispatch the task *)
(* and retry parked flushes.                                               *)

CanClaim ==
    /\ ~closeStarted
    /\ blocked = "none"
    /\ inFlight < MaxInFlight
    /\ inQueue > 0

\* Nothing (more) to claim: finish goes on to maybe_close.
EndSchedule(t) ==
    IF closes[t] THEN Goto(t, "maybeClose") /\ UNCHANGED calls ELSE Return(t)

\* try_claim looks at the stop flags before it locks the node.
TryClaim(t) ==
    /\ pc[t] = "schedule"
    /\ IF stopped THEN EndSchedule(t) ELSE Goto(t, "claim") /\ UNCHANGED calls
    /\ UNCHANGED <<sched, flush, closing, staging, tasks, stopped, input, output>>

Claim(t) ==
    /\ pc[t] = "claim" /\ CanClaim
    /\ \E slot \in free :
          /\ free' = free \ {slot}
          /\ slotOf' = [slotOf EXCEPT ![nextSeq] = slot]
          /\ staging' = [staging EXCEPT ![slot] = 0]
    /\ stage' = [stage EXCEPT ![nextSeq] = "ready"]
    /\ nextSeq' = nextSeq + 1
    /\ inFlight' = inFlight + 1
    /\ inQueue' = inQueue - 1
    /\ Goto(t, "submit")
    /\ UNCHANGED <<nextFlush, flush, closing, tasks, stopped, sent, inClosed,
                   output, calls>>

NoClaim(t) ==
    /\ pc[t] = "claim" /\ ~CanClaim
    /\ EndSchedule(t)
    /\ UNCHANGED <<sched, flush, closing, staging, tasks, stopped, input, output>>

Submit(t) ==
    /\ pc[t] = "submit"
    /\ tasks' = tasks + 1
    /\ Goto(t, "snapshot")
    /\ resumeTo' = [resumeTo EXCEPT ![t] = "schedule"]
    /\ UNCHANGED <<sched, flush, closing, staging, stopped, input, output,
                   job, mode, returnTo, closes>>

---------------------------------------------------------------------------
(* A worker runs one task of the node.                                     *)

Ready == {s \in Seqs : stage[s] = "ready"}

\* Mutant of TakeTask: a worker woken without a task runs the node.
TakeTaskSpurious(w) ==
    /\ pc[w] = "idle"
    /\ tasks' = tasks - 1
    /\ Goto(w, "run")
    /\ returnTo' = [returnTo EXCEPT ![w] = "post"]
    /\ UNCHANGED <<sched, flush, closing, staging, stopped, input, output,
                   job, mode, resumeTo, closes>>

TakeTask(w) ==
    /\ pc[w] = "idle" /\ tasks > 0
    /\ tasks' = tasks - 1
    /\ Goto(w, "run")
    /\ returnTo' = [returnTo EXCEPT ![w] = "post"]
    /\ UNCHANGED <<sched, flush, closing, staging, stopped, input, output,
                   job, mode, resumeTo, closes>>

\* run_node pops the oldest claim, of which every task finds one; a
\* stopped graph retires it without user code.
PopReady(w) ==
    /\ pc[w] = "run"
    /\ \E s \in Ready :
          /\ \A r \in Ready : s <= r
          /\ job' = [job EXCEPT ![w] = s]
          /\ stage' = [stage EXCEPT ![s] = "held"]
    /\ Goto(w, IF stopped THEN "complete" ELSE "process")
    /\ UNCHANGED <<nextSeq, nextFlush, inFlight, free, slotOf, flush, closing, staging,
                   tasks, stopped, input, output, mode, resumeTo, returnTo, closes>>

\* Process returns; on_error: skip discards what it staged but still flushes.
Process(w) ==
    /\ pc[w] = "process"
    /\ \E n \in 0 .. MaxEmit :
          staging' = [staging EXCEPT ![slotOf[job[w]]] = n]
    /\ Goto(w, "complete")
    /\ UNCHANGED <<sched, flush, closing, tasks, stopped, input, output, calls>>

\* Process fails under on_error: abort.  The result of an invocation is FALSE
\* only in a stopped graph, so StartFlush needs no more than `stopped`.
ProcessAborts(w) ==
    /\ MayStop
    /\ pc[w] = "process"
    /\ stopped' = TRUE
    /\ Goto(w, "complete")
    /\ UNCHANGED <<sched, flush, closing, staging, tasks, input, output, calls>>

\* Mutant of Complete: the result is flushed at once, whatever its turn.
CompleteOutOfTurn(w) ==
    /\ pc[w] = "complete" /\ blocked = "none"
    /\ flushing' = TRUE
    /\ Goto(w, "flush")
    /\ UNCHANGED <<sched, blocked, indexed, closing, staging, tasks, stopped,
                   input, output, calls>>

\* complete_invocation: flush at once, or leave the result in pending_flush.
Complete(w) ==
    LET s == job[w]
        direct == /\ ~flushing /\ blocked = "none" /\ s = nextFlush
                  /\ \A r \in Seqs : stage[r] # "pending"
    IN  /\ pc[w] = "complete"
        /\ flushing' = TRUE
        /\ IF direct
             THEN Goto(w, "flush") /\ UNCHANGED <<stage, calls>>
             ELSE /\ stage' = [stage EXCEPT ![s] = "pending"]
                  /\ IF flushing THEN Finish(w) ELSE Goto(w, "pick") /\ UNCHANGED calls
        /\ UNCHANGED <<nextSeq, nextFlush, inFlight, free, slotOf, blocked, indexed,
                       closing, staging, tasks, stopped, input, output>>

\* The end of run_node_on_worker.
Post(w) ==
    /\ pc[w] = "post"
    /\ Goto(w, IF stopped THEN "snapshot" ELSE "idle")
    /\ UNCHANGED <<sched, flush, closing, staging, tasks, stopped, input, output, calls>>

---------------------------------------------------------------------------
(* drive_invocation_flushes and flush_staging.                             *)

SlotAt(t) == IF mode[t] = "invocation" THEN slotOf[job[t]] ELSE 0

\* Where a flush of each kind goes once its packets are out or discarded.
Flushed(t) == CASE mode[t] = "invocation" -> "retire"
                [] mode[t] = "open" -> "openDone"
                [] OTHER -> "closeDone"

Discard(t) == staging' = [staging EXCEPT ![SlotAt(t)] = 0]

\* Mutant of Pick: pending results are flushed in the order they came in.
PickAny(t) ==
    /\ pc[t] = "pick" /\ blocked = "none"
    /\ \E s \in Seqs :
          /\ stage[s] = "pending"
          /\ job' = [job EXCEPT ![t] = s]
          /\ stage' = [stage EXCEPT ![s] = "held"]
    /\ Goto(t, "flush")
    /\ UNCHANGED <<nextSeq, nextFlush, inFlight, free, slotOf, flush, closing, staging,
                   tasks, stopped, input, output, mode, closes, resumeTo, returnTo>>

\* The flusher takes the parked invocation, else the next one in order, else
\* it stops.  blocked_flush.take() empties the field whatever it holds.
Pick(t) ==
    LET take(s) == /\ job' = [job EXCEPT ![t] = s]
                   /\ stage' = [stage EXCEPT ![s] = "held"]
                   /\ Goto(t, "flush")
                   /\ UNCHANGED <<flushing, indexed, mode, closes, resumeTo, returnTo>>
        next == IF nextFlush \in Seqs THEN stage[nextFlush] = "pending" ELSE FALSE
    IN  /\ pc[t] = "pick"
        /\ blocked' = "none"
        /\ \/ /\ blocked = "invocation"
              /\ \E s \in Seqs : stage[s] = "parked" /\ take(s)
           \/ /\ blocked # "invocation" /\ next
              /\ take(nextFlush)
           \/ /\ blocked # "invocation" /\ ~next
              /\ flushing' = FALSE /\ indexed' = FALSE
              /\ Finish(t)
              /\ UNCHANGED stage
        /\ UNCHANGED <<nextSeq, nextFlush, inFlight, free, slotOf, closing,
                       staging, tasks, stopped, input, output>>

\* A stopped graph discards instead of flushing.
StartFlush(t) ==
    /\ pc[t] = "flush"
    /\ IF stopped
         THEN Discard(t) /\ Goto(t, Flushed(t))
         ELSE Goto(t, "reserve") /\ UNCHANGED staging
    /\ UNCHANGED <<sched, flush, closing, tasks, stopped, input, output, calls>>

\* reserve_internal_capacity: room, no room, or a batch that can never fit.
Reserve(t) ==
    LET n == staging[SlotAt(t)]
    IN  /\ pc[t] = "reserve"
        /\ \/ /\ n = 0 \/ outQueue + reserved + n <= Capacity
              /\ reserved' = reserved + n
              /\ Goto(t, "publish")
              /\ UNCHANGED <<staging, stopped>>
           \/ /\ 0 < n /\ n <= Capacity /\ outQueue + reserved + n > Capacity
              /\ Goto(t, "park")
              /\ UNCHANGED <<staging, stopped, reserved>>
           \/ /\ n > Capacity
              /\ stopped' = TRUE
              /\ Discard(t) /\ Goto(t, Flushed(t))
              /\ UNCHANGED reserved
        /\ UNCHANGED <<sched, flush, closing, tasks, input, outQueue, outBound, outClosed,
                       consumerBusy, calls>>

\* dispatch pushes the packets, unless the graph has been stopped meanwhile;
\* without packets only the bound advances.
Publish(t) ==
    LET n == staging[SlotAt(t)]
        dropped == stopped /\ n > 0
    IN  /\ pc[t] = "publish"
        /\ outQueue' = IF dropped THEN outQueue ELSE outQueue + n
        /\ outBound' = IF mode[t] = "invocation" /\ job[t] >= outBound /\ ~dropped
                         THEN job[t] + 1 ELSE outBound
        /\ Goto(t, "release")
        /\ UNCHANGED <<sched, flush, closing, staging, tasks, stopped, input, reserved,
                       outClosed, consumerBusy, calls>>

Release(t) ==
    /\ pc[t] = "release"
    /\ reserved' = reserved - staging[SlotAt(t)]
    /\ Discard(t)
    /\ Goto(t, Flushed(t))
    /\ UNCHANGED <<sched, flush, closing, tasks, stopped, input, outQueue, outBound,
                   outClosed, consumerBusy, calls>>

\* No room: give the staging back to the node and leave.
Park(t) ==
    /\ pc[t] = "park"
    /\ flushing' = FALSE
    /\ CASE mode[t] = "invocation" ->
               /\ blocked' = "invocation" /\ indexed' = TRUE
               /\ stage' = [stage EXCEPT ![job[t]] = "parked"]
               /\ Finish(t)
         [] mode[t] = "close" ->
               /\ blocked' = "close" /\ indexed' = TRUE
               /\ Return(t)
               /\ UNCHANGED stage
         [] OTHER -> ResumeReturns(t) /\ UNCHANGED <<blocked, indexed, stage>>
    /\ UNCHANGED <<nextSeq, nextFlush, inFlight, free, slotOf, closing, staging,
                   tasks, stopped, input, output>>

\* Mutant of Retire: the slot comes back, the count of invocations does not.
RetireLeaks(t) ==
    /\ pc[t] = "retire"
    /\ nextFlush' = nextFlush + 1
    /\ free' = free \cup {slotOf[job[t]]}
    /\ slotOf' = [slotOf EXCEPT ![job[t]] = 0]
    /\ stage' = [stage EXCEPT ![job[t]] = "done"]
    /\ job' = [job EXCEPT ![t] = 0]
    /\ Goto(t, "pick")
    /\ UNCHANGED <<nextSeq, inFlight, flush, closing, staging, tasks, stopped, input,
                   output, mode, resumeTo, returnTo, closes>>

\* The invocation is settled: its slot is free and the next one may follow.
Retire(t) ==
    /\ pc[t] = "retire"
    /\ nextFlush' = nextFlush + 1
    /\ inFlight' = inFlight - 1
    /\ free' = free \cup {slotOf[job[t]]}
    /\ slotOf' = [slotOf EXCEPT ![job[t]] = 0]
    /\ stage' = [stage EXCEPT ![job[t]] = "done"]
    /\ job' = [job EXCEPT ![t] = 0]
    /\ Goto(t, "pick")
    /\ UNCHANGED <<nextSeq, flush, closing, staging, tasks, stopped, input, output,
                   mode, resumeTo, returnTo, closes>>

---------------------------------------------------------------------------
(* resume_blocked_flushes: read the index, then lock the node.             *)

\* Mutant of Snapshot: the index is drained instead of copied.
SnapshotDrains(t) ==
    /\ pc[t] = "snapshot"
    /\ indexed' = FALSE
    /\ IF indexed THEN Goto(t, "check") /\ UNCHANGED calls ELSE ResumeReturns(t)
    /\ UNCHANGED <<sched, flushing, blocked, closing, staging, tasks, stopped, input, output>>

Snapshot(t) ==
    /\ pc[t] = "snapshot"
    /\ IF indexed THEN Goto(t, "check") /\ UNCHANGED calls ELSE ResumeReturns(t)
    /\ UNCHANGED <<sched, flush, closing, staging, tasks, stopped, input, output>>

Check(t) ==
    /\ pc[t] = "check"
    /\ IF flushing \/ blocked = "none"
         THEN ResumeReturns(t) /\ UNCHANGED flushing
         ELSE /\ flushing' = TRUE
              /\ Goto(t, IF blocked = "invocation" THEN "pick" ELSE "flush")
              /\ mode' = [mode EXCEPT ![t] = CASE blocked = "open" -> "open"
                                               [] blocked = "close" -> "reclose"
                                               [] OTHER -> "invocation"]
              /\ UNCHANGED <<job, resumeTo, returnTo, closes>>
    /\ UNCHANGED <<sched, blocked, indexed, closing, staging, tasks, stopped, input, output>>

\* resume_blocked_open got its packets out: slot 0 is free at last.
OpenDone(t) ==
    /\ pc[t] = "openDone"
    /\ blocked' = "none" /\ flushing' = FALSE /\ indexed' = FALSE
    /\ inFlight' = inFlight - 1
    /\ free' = free \cup {0}
    /\ Finish(t)
    /\ UNCHANGED <<nextSeq, nextFlush, stage, slotOf, closing, staging, tasks,
                   stopped, input, output>>

---------------------------------------------------------------------------
(* maybe_close.                                                            *)

\* maybe_close looks at the stop flags before it locks the node, too.
MaybeClose(t) ==
    /\ pc[t] = "maybeClose"
    /\ Goto(t, IF stopped THEN "forceClose" ELSE "tryClose")
    /\ UNCHANGED <<sched, flush, closing, staging, tasks, stopped, input, output, calls>>

\* Mutant of CanClose: the close does not wait for invocations in flight.
CanCloseInFlight(t) ==
    /\ ~closeStarted
    /\ pc[t] = "forceClose" \/ (inClosed /\ inQueue = 0)

CanClose(t) ==
    /\ ~closeStarted /\ inFlight = 0
    /\ pc[t] = "forceClose" \/ (inClosed /\ inQueue = 0)

\* The close is claimed under the lock; a forced close discards its input.
StartClose(t) ==
    /\ pc[t] \in {"tryClose", "forceClose"} /\ CanClose(t)
    /\ closeStarted' = TRUE
    /\ inQueue' = IF pc[t] = "forceClose" THEN 0 ELSE inQueue
    /\ Goto(t, "closing")
    /\ UNCHANGED <<sched, flush, closed, staging, tasks, stopped, sent, inClosed, output,
                   calls>>

CannotClose(t) ==
    /\ pc[t] \in {"tryClose", "forceClose"} /\ ~CanClose(t)
    /\ Return(t)
    /\ UNCHANGED <<sched, flush, closing, staging, tasks, stopped, input, output>>

\* Close runs on slot 0 and may stage packets, or fail.
RunClose(t) ==
    /\ pc[t] = "closing"
    /\ mode' = [mode EXCEPT ![t] = "close"]
    /\ \/ /\ \E n \in CloseEmits : staging' = [staging EXCEPT ![0] = n]
          /\ Goto(t, "reserve")
          /\ UNCHANGED stopped
       \/ /\ MayStop
          /\ stopped' = TRUE
          /\ staging' = [staging EXCEPT ![0] = 0]
          /\ Goto(t, "closeDone")
    /\ UNCHANGED <<sched, flush, closing, tasks, input, output,
                   job, resumeTo, returnTo, closes>>

CloseDone(t) ==
    /\ pc[t] = "closeDone"
    /\ closed' = TRUE
    /\ IF mode[t] = "close"
         THEN UNCHANGED flush
         ELSE blocked' = "none" /\ flushing' = FALSE /\ indexed' = FALSE
    /\ Goto(t, "closeEdge")
    /\ UNCHANGED <<sched, closeStarted, staging, tasks, stopped, input, output, calls>>

\* Only then the output edge is closed: the consumer expects nothing more.
CloseEdge(t) ==
    /\ pc[t] = "closeEdge"
    /\ outClosed' = TRUE
    /\ IF mode[t] = "close" THEN Return(t) ELSE ResumeReturns(t)
    /\ UNCHANGED <<sched, flush, closing, staging, tasks, stopped, input, outQueue, reserved,
                   outBound, consumerBusy>>

---------------------------------------------------------------------------
Step(t) ==
    \/ TryClaim(t) \/ Claim(t) \/ NoClaim(t) \/ Submit(t)
    \/ Pick(t) \/ StartFlush(t) \/ Reserve(t) \/ Publish(t) \/ Release(t)
    \/ Park(t) \/ Retire(t)
    \/ Snapshot(t) \/ Check(t) \/ OpenDone(t)
    \/ MaybeClose(t) \/ StartClose(t) \/ CannotClose(t)
    \/ RunClose(t) \/ CloseDone(t) \/ CloseEdge(t)

Task(w) ==
    \/ TakeTask(w) \/ PopReady(w)
    \/ Process(w) \/ ProcessAborts(w) \/ Complete(w) \/ Post(w)

HostCall == Send \/ CloseInput \/ Pump \/ Retry \/ RetryIdle \/ Cancel

ConsumerCall == Dequeue \/ ConsumerFlush \/ ConsumerDiscard

Next ==
    \/ \E t \in Threads : Step(t)
    \/ \E w \in Workers : Task(w)
    \/ HostCall
    \/ ConsumerCall

Spec == Init /\ [][Next]_vars

(***************************************************************************)
(* Every thread keeps running the code it is in, the executor hands its    *)
(* tasks to idle workers, the consumer keeps consuming, and the host keeps *)
(* pumping (wait_done, Poller::next and event loops all call pump_step)    *)
(* and, with HostRetries, waiting.                                         *)
(***************************************************************************)
Fairness ==
    /\ \A t \in Threads : WF_vars(Step(t))
    /\ \A w \in Workers : WF_vars(Task(w))
    /\ WF_vars(ConsumerCall)
    /\ SF_vars(Pump)
    /\ SF_vars(Retry)

FairSpec == Spec /\ Fairness

---------------------------------------------------------------------------
(* Safety.                                                                 *)

\* The context slots thread t reads or writes through `unsafe ctx_slot`.
Touches(t) ==
    IF pc[t] \in {"process", "complete"} THEN {slotOf[job[t]]}
    ELSE IF pc[t] \in {"flush", "reserve", "publish", "release", "park", "retire"}
      THEN {SlotAt(t)}
    ELSE IF pc[t] \in {"openDone", "closing", "closeDone"} THEN {0}
    ELSE {}

(***************************************************************************)
(* No two threads ever use the same context slot, and a slot try_claim may *)
(* hand out is in nobody's hands.  This is what `unsafe ctx_slot` assumes  *)
(* of run_node, flush_staging and maybe_close (which uses slot 0 while it  *)
(* sits in free_slots, and relies on close_started to stop claims).        *)
(***************************************************************************)
SlotExclusive ==
    /\ \A t, u \in Threads : t # u => Touches(t) \cap Touches(u) = {}
    /\ ~closeStarted => \A t \in Threads : Touches(t) \cap free = {}

(***************************************************************************)
(* try_claim's expect("a free slot must exist when in_flight < max") never *)
(* panics: in_flight counts exactly the slots that are not free, across    *)
(* Open, parked and out-of-order invocations.                              *)
(***************************************************************************)
FreeSlotExists == inFlight < MaxInFlight => free # {}

(***************************************************************************)
(* Outputs leave in claim order without gaps, whatever order the workers   *)
(* finish in: whoever publishes an invocation is alone, publishes the next *)
(* seq, and its timestamp is exactly the bound the consumer was promised.  *)
(***************************************************************************)
PublishInOrder ==
    \A t \in Threads :
        pc[t] = "publish" =>
            /\ mode[t] = "invocation" => job[t] = nextFlush /\ job[t] = outBound
            /\ \A u \in Threads \ {t} : pc[u] # "publish"

(***************************************************************************)
(* Close comes after everything: once the Close callback may run, every    *)
(* claimed invocation has been flushed and no input is left, and after the *)
(* output edge is closed nobody publishes to it.                           *)
(***************************************************************************)
CloseIsLast ==
    /\ closeStarted => /\ nextFlush = nextSeq /\ inQueue = 0
                       /\ \A t \in Threads : pc[t] \notin {"process", "complete"}
    /\ outClosed => \A t \in Threads : pc[t] \notin {"reserve", "publish", "release", "closing"}

(***************************************************************************)
(* blocked_flush_nodes never misses a parked flush: is_idle, wait_done and *)
(* resume_blocked_flushes read only the index (the comment on              *)
(* drive_invocation_flushes, R2 of docs/design.md).                        *)
(***************************************************************************)
IndexCoversParked == blocked # "none" => indexed

\* Reservations keep the consumer's queue within its capacity and are all
\* given back when nobody is flushing.
QueueWithinCapacity ==
    /\ outQueue <= Capacity
    /\ (\A t \in Threads : pc[t] \notin {"publish", "release"}) => reserved = 0

---------------------------------------------------------------------------
(* The inductive invariant behind the safety properties.                   *)

FlushPCs == {"flush", "reserve", "publish", "release", "park", "retire"}

\* Thread t executes an invocation, or flushes one.
Holds(t) == pc[t] \in {"process", "complete"}
            \/ (pc[t] \in FlushPCs /\ mode[t] = "invocation")

\* Thread t acts as the node's flusher.
Flusher(t) == pc[t] \in FlushPCs \cup {"pick", "openDone"}

\* Thread t runs Close, or flushes what it staged.
Closer(t) == \/ pc[t] \in {"closing", "closeDone"}
             \/ pc[t] \in FlushPCs /\ mode[t] \in {"close", "reclose"}

\* Each mode belongs to the labels of the procedure that sets it.
ModeInv ==
    \A t \in Threads :
        /\ mode[t] = "open" => pc[t] \in (FlushPCs \ {"retire"}) \cup {"openDone"}
        /\ mode[t] \in {"close", "reclose"} =>
               pc[t] \in (FlushPCs \ {"retire"}) \cup {"closeDone", "closeEdge"}
        /\ pc[t] = "flush" => mode[t] # "close"
        /\ pc[t] = "openDone" => mode[t] = "open"
        /\ pc[t] \in {"closeDone", "closeEdge"} => mode[t] \in {"close", "reclose"}

\* Claimed invocations are settled strictly in order.
CountInv ==
    /\ nextFlush <= nextSeq
    /\ nextSeq + inQueue <= sent
    /\ ~closeStarted => nextSeq + inQueue = sent
    /\ \A s \in Seqs : /\ stage[s] = "new" <=> s >= nextSeq
                       /\ stage[s] = "done" <=> s < nextFlush
                       /\ stage[s] = "parked" => s = nextFlush /\ blocked = "invocation"
    /\ blocked = "invocation" => nextFlush < Inputs /\ stage[nextFlush] = "parked"
    /\ blocked = "open" => nextSeq = 0
    /\ inFlight = (nextSeq - nextFlush) + (IF blocked = "open" THEN 1 ELSE 0)

\* Every invocation is held by at most one thread.
HoldInv ==
    /\ \A t \in Threads : Holds(t) => stage[job[t]] = "held"
    /\ \A t, u \in Threads : t # u /\ Holds(t) /\ Holds(u) => job[t] # job[u]

\* Occupied slots are distinct and not free.
SlotInv ==
    /\ \A s \in Seqs : nextFlush <= s /\ s < nextSeq => slotOf[s] \notin free
    /\ \A r, s \in Seqs :
          r # s /\ nextFlush <= r /\ r < nextSeq /\ nextFlush <= s /\ s < nextSeq
          => slotOf[r] # slotOf[s]
    /\ blocked = "open" => 0 \notin free
    /\ Cardinality(free) = MaxInFlight - inFlight

\* Until the close starts there is one flusher at a time, and it holds the
\* flushing flag; an invocation is flushed in its turn.
FlusherInv ==
    /\ ~closeStarted => \A t \in Threads : Flusher(t) => flushing
    /\ ~closeStarted => \A t, u \in Threads : Flusher(t) /\ Flusher(u) => t = u
    /\ \A t \in Threads : pc[t] \in FlushPCs /\ mode[t] = "invocation" => job[t] = nextFlush
    /\ \A t \in Threads : /\ mode[t] = "open" => blocked = "open"
                          /\ pc[t] = "pick" => blocked # "open"
    /\ blocked = "invocation" => \A t \in Threads :
           ~(pc[t] \in FlushPCs /\ mode[t] = "invocation")

\* Once it has, one thread at a time flushes the close, and a second one
\* cannot start although the flag may be reset by a flusher that is leaving.
CloserInv ==
    /\ \A t \in Threads : Closer(t) \/ pc[t] = "closeEdge" => closeStarted
    /\ \A t, u \in Threads : Closer(t) /\ Closer(u) => t = u
    /\ \A t \in Threads : Closer(t) => /\ ~closed
                                       /\ \/ blocked = "none"
                                          \/ flushing /\ mode[t] = "reclose"
    /\ closeStarted => inFlight = 0 /\ inQueue = 0 /\ (stopped \/ inClosed)
    /\ blocked = "close" => closeStarted /\ ~closed
    /\ closed => closeStarted
    /\ outClosed => closed
    /\ \A t \in Threads : /\ pc[t] = "closeEdge" => closed
                          /\ pc[t] = "forceClose" => stopped

\* The consumer has been promised exactly the invocations settled so far.
BoundInv ==
    /\ \A t \in Threads :
          mode[t] = "invocation" /\ pc[t] \in {"reserve", "publish", "park"}
          => outBound = nextFlush
    /\ ~stopped =>
          outBound = IF \E t \in Threads : pc[t] \in {"release", "retire"}
                                           /\ mode[t] = "invocation"
                       THEN nextFlush + 1 ELSE nextFlush

\* Whoever is between its reservation and its release owns all of it.
ReserveInv ==
    /\ \A t \in Threads :
          pc[t] \in {"publish", "release"} =>
             /\ reserved = staging[SlotAt(t)]
             /\ pc[t] = "publish" => outQueue + reserved <= Capacity
    /\ (\A t \in Threads : pc[t] \notin {"publish", "release"}) => reserved = 0
    /\ outQueue <= Capacity

\* The conjunction is preserved by every action of Next.
IInv ==
    /\ TypeOK /\ ModeInv /\ CountInv /\ HoldInv /\ SlotInv
    /\ FlusherInv /\ CloserInv /\ IndexCoversParked /\ BoundInv /\ ReserveInv

---------------------------------------------------------------------------
(* What the code promises but does not keep: see README, findings.         *)

(***************************************************************************)
(* Output staged by Close under backpressure is retained until the         *)
(* downstream node makes room: a node whose close has started is closed,   *)
(* is being closed by some thread, or has its close parked in              *)
(* blocked_flush (test close_output_resumes_after_downstream_dequeue).     *)
(***************************************************************************)
CloseFlushRetained ==
    closeStarted => closed \/ blocked = "close" \/ \E t \in Threads : Closer(t)

(***************************************************************************)
(* A flush parked because the consumer was full is retried after the       *)
(* consumer dequeues (comment on blocked_flush_nodes, graph.rs).           *)
(***************************************************************************)
ParkedFlushResumes == blocked = "invocation" ~> blocked # "invocation"

---------------------------------------------------------------------------
(* Liveness.                                                               *)

\* A node whose input is closed is eventually closed, and tells its consumer.
NodeCloses == inClosed ~> outClosed

=============================================================================
