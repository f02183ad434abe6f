# A verification of lm-flow in TLA+

lm-flow (`lmflow/core`, Rust) runs graphs of *kernels* connected by timestamped
packet streams.  This directory models the engine: how a configuration becomes a
graph, how several threads move packets, invocations and closes through it at
once, how a run starts and ends, and who owns the packets and their payloads.
TLC checks the modules on small instances, and TLAPS proves the safety of the
node scheduler, of the graph inputs, of the input alignment and of the pollers for
every instance.

## 1. The system

| Part | Source (`lmflow/core/src`) | State | Operations |
|---|---|---|---|
| Node scheduler | `graph/scheduler.rs`, `graph/node.rs`, `context.rs` | `NodeSched`: `in_flight`, `free_slots`, `ready`, `next_seq`, `next_flush_seq`, `pending_flush`, `flushing`; one `Context` per slot | `try_claim`, `schedule_node`, `dispatch_task`, `run_node`, `complete_invocation` |
| Internal backpressure | `graph/backpressure.rs` | `blocked_flush` of a node, `blocked_flush_nodes`, `input_queue_reserved` | `drive_invocation_flushes`, `resume_blocked_*`, `flush_staging`, `reserve_internal_capacity` |
| Node closing | `graph/lifecycle.rs` | `close_started`, `closed`, edge `closed` | `maybe_close`, `close_edge`, `try_advance_closing` |
| Graph inputs | `graph/scheduler.rs`, `graph/node.rs` | `IngressState`, `last_sent` | `send`, `enter_ingress`, `enter_ingress_close` |
| Input alignment | `graph/node.rs`, `timestamp.rs` | input queues, `input_bounds`, `input_closed` | `readiness`, `sync_align`, `batch_readiness`, `advance_bound` |
| Waiting and wakeup | `graph.rs`, `graph/scheduler.rs`, `graph/api.rs` | `Activity`, `wakeup_pending`, `wakeup_generation` | `notify_activity`, `wait_activity_since`, `request_wakeup`, `pump_step` |
| Pollers | `graph/poller.rs` | `PollerInner` | `push`, `pop`, `next_deadline`, `drop` |
| Sources, thread pool | `executor/*.rs`, `graph/scheduler.rs` | ready and delayed tasks, `source_*` | `take`, `submit_source_wake`, `schedule_source_resumption`, `shutdown` |
| Lifecycle | `graph.rs`, `graph/lifecycle.rs`, `runtime.rs` | `State`, cancelled, first error | `start`, `reset`, `wait_done`, `wait_until_idle`, `cancel`, `free` |
| Construction | `config.rs`, `expand.rs`, `metadata.rs`, `graph/lifecycle.rs`, `bin/lmflow` | a configuration being rewritten | `from_yaml*`, `expand_subgraphs`, `check_supported`, `GraphPlan::build`, `GraphInner::build`, `check-config` |
| Packets and payloads | `packet.rs`, `buffer_pool.rs`, `ffi/packet.rs`, `context.rs` | counts of bodies and payloads, the pool, the type registry | `clone`, `make_mutable_*`, `adopt_buffer`, `emit`, `forward`, `take_input` |
| C ABI | `ffi/` | handles owned by C | the calls of the parts above |
| Diagnostics, adapters, kernels, test harness | `graph/dot`, `graph/trace*`, `kernel_runner.rs`, `adapters/`, ... | | not modelled (section 7) |

A sender dispatches a packet into the queues of the consumers of an edge and
calls `schedule_node` for each.  `try_claim` takes a context slot and a sequence
number under the node lock and pops the inputs; an executor task then runs
`run_node`.  Results are flushed in sequence order by whichever thread holds the
`flushing` flag.  A flush needs room in every downstream queue: it reserves it,
or *parks* the staged packets in `blocked_flush` and leaves, to be retried by
`resume_blocked_flushes` after downstream dequeues.  When the inputs are closed
and drained and nothing is in flight, one thread claims the close, runs the
`Close` callback on slot 0, flushes what it staged and closes the output edges.
A source has no inputs; it schedules itself again after each call, or asks for a
delay and is woken by a delayed task of the pool.

What is hard here: every one of these steps may be run by a worker, by the host
(through `send`, `close`, `pump_step` or a wait) or by the thread of a downstream
node; locks are released between them; cancellation and errors arrive at any
point; and three callbacks (Open, Process, Close) use context slots without a
lock, on the strength of the protocol alone.

What makes each part correct:

- scheduler: one user per slot; claims and slots counted consistently; results
  published in claim order; every claimed invocation settled;
- backpressure: capacity respected, reservations returned, parked flushes indexed
  and resumed;
- closing: Close exactly once, after everything else; every node closes;
- inputs: no dispatch after the close, every requested close committed, one
  dispatcher at a time, timestamps increasing;
- alignment: packets of different timestamps are never paired, no packet older
  than a claimed timestamp arrives later, batches are cut only at the end, a
  ready node is always looked at;
- waiting: no wakeup is lost; pollers: no packet lost at the end of the stream,
  capacity respected; event loops: called whenever a pump would do something;
- sources: left alone until their wake, never forgotten, not woken by an earlier
  run;
- lifecycle: callbacks only in their run and one at a time where they must be, a
  reset leaves the state of a fresh graph, a free closes what was opened;
- construction: expansion keeps the wiring, what is accepted builds, drains and
  routes every packet;
- packets: values do not change behind their holders, resources are released
  once, buffers of any layout are copied exactly.

## 2. Modules

| Module | Contents |
|---|---|
| `NodeScheduler` | one node with all threads that run its code |
| `OrderedNode` | what a node promises its neighbours: the abstract specification |
| `NodeRefinement` | the refinement mapping between the two |
| `MCNodeScheduler` | the instances for TLC, with the symmetry of the workers |
| `NodeSchedulerProofs` | the inductive invariant, the safety theorems, and that `NodeScheduler` implements `OrderedNode` |
| `Ingress` | the graph inputs: `send`, `close`, callbacks inside them, the global watermark |
| `MCIngress` | the instances of `Ingress`, with the symmetry of the threads |
| `IngressProofs` | the inductive invariant and the safety theorems of `Ingress` |
| `Activity` | the generation, the waiter count and the condition variable on which the host and blocked pushes wait |
| `Poller` | a bounded output queue: readers, pushes under the overflow policies, cancel, drop, reset; extends `Activity` |
| `MCPoller` | the instances of `Poller`, with the symmetry of the readers |
| `PollerProofs` | the inductive invariant and the safety theorems of `Activity` and `Poller` |
| `Timestamps` | the range of timestamps with its sentinels, and the successor in a stream |
| `Alignment` | the input ports of one node and the claim, under every input policy; extends `Timestamps` |
| `MCAlignment` | the instances of `Alignment` |
| `AlignmentProofs` | the inductive invariant and the safety theorems of `Alignment` |
| `Lifecycle` | a graph of a source and a delegated sink through its runs: pool, delayed wakes, event loop, cancel, reset, free |
| `MCLifecycle` | its budgets, with the symmetry of the workers |
| `LifecycleProofs` | the inductive invariant and the safety theorems of `Lifecycle` |
| `SourceProofs` | its yielding source: the wakes and their generations, and why it is never forgotten; extends `LifecycleProofs` |
| `WakeupProofs` | the wakeups of its event loop; extends `SourceProofs` |
| `Ports` | configurations: nodes, ports, tags and indices |
| `Expansion` | includes and the inlining of subgraphs; extends `Ports` |
| `Routing` | predicates on metadata and the built-in route kernel |
| `GraphPlan` | `check_supported` and the plan: who produces and consumes an edge, cycles, warnings; extends `Expansion` and `Routing` |
| `Construction` | the stages a configuration goes through, contracts and the build; extends `GraphPlan` |
| `MCConstruction` | the families of configurations that are tried |
| `Buffers` | strided buffers: what is accepted, and the two copies |
| `Packets` | bodies, payloads, references, the pool and the calls that move them; uses `Buffers` |
| `MCPackets` | budgets and buffer descriptors, with the symmetry of the consumers |
| `PacketsProofs` | the inductive invariant and the safety theorems of `Packets` |

The mutated operators beside the actions (their comments say so) are plausible
bugs; they are part of no specification, and each property is known to fail when
one of them replaces the definition it mutates.

### NodeScheduler

One node with a single input port fed by the host and a single output edge whose
one consumer has a lossless queue of `Capacity` packets.  The threads are the
workers of its executor, the host, and the consumer's thread.  `pc[t]` names the
critical section thread `t` runs next; an action is one critical section of the
code or the code between two of them, so TLC interleaves at the locks.

| Model | Code |
|---|---|
| `nextSeq`, `nextFlush`, `inFlight`, `free`, `flushing`, `closeStarted`, `closed` | the fields of `NodeSched` of the same meaning; `free` is a set because the order of `free_slots` decides nothing but the slot's number |
| `stage[s]` | which container holds invocation `s`: `ready`, a thread (`held`), `pending_flush`, `blocked_flush` (`parked`), or none (`new`, `done`) |
| `blocked`, `indexed` | `blocked_flush` and membership in `blocked_flush_nodes` |
| `staging[k]` | the number of packets staged in context slot `k` |
| `tasks` | tasks of this node in the executor |
| `stopped` | `is_cancelled() \|\| has_error()` |
| `outQueue`, `reserved`, `outBound`, `outClosed` | the consumer's queue, `input_queue_reserved`, `input_bounds`, `input_closed` |
| `mode`, `job`, `closes`, `resumeTo`, `returnTo` | the thread's call stack: which flush it is in, for which invocation, and what follows |

Packets are counted, not named: no property tells payloads apart, and a packet's
timestamp is the sequence number of its invocation.  `TryClaim`/`Claim` and
`MaybeClose`/`StartClose` keep the code's order: the stop flags are read *before*
the node lock is taken.

Abstractions: the consumer runs one invocation at a time and its own flush is the
single step `ConsumerFlush`; `Publish` merges the push of the packets and the
advance of the bound, which the consumer can tell apart only by aligning several
ports; explicit bounds set by kernels and pausing are left out.

### Ingress

Host threads call `send`, `try_send`, `close` and `close_all_inputs` on the inputs
of a graph, each with one consumer and one observer of packets and bounds.  Host
code runs *inside* these calls: an observer of the packet being dispatched or of
a bound, or delegated work that a sender pumps while it waits for the watermark.
That code calls the graph again, so a thread has a stack of calls:
`frame[t][d]` is its `d`-th nested call with its own label, `depth[t]` the running
one, and an action is a step of a running call.

| Model | Code |
|---|---|
| `owner`, `closing` | `IngressState`; labels `asleep` and `await` are the waits on `ingress_changed` in `enter_ingress` and `enter_ingress_close` |
| `closed`, `lastSent`, `lastBound` | the fields of `Edge` |
| `events` | what the observer has seen; `2 * ts` is a packet, `2 * ts + 1` the bound after it, so that increasing means in order |
| `queue`, `inputBound`, `inputClosed` | the consumer's input port |
| `total` | `total_queued` of `GraphShared` |
| `state`, `stopped` | the graph's state; cancelled or in error |
| `drained` | a forced close has run `discard_queued_inputs` on the consumer |

`Dequeue` and `Discard` are all that is left of the consumer, whose own protocol
is `NodeScheduler`; its `Send` and `CloseInput` are the effects of this module on
it.  Callbacks of a packet or a bound may request closes, and a send to the same
input, which is refused; a send to *another* input from such a callback is outside
the documented contract (`docs/web/cpp.md`) and is not modelled.  Pumped work may
do anything.

### Activity and Poller

`Activity` is the engine's only way to wait for progress.  A waiter captures the
generation, looks for work, and sleeps if the generation has not changed; the
notifier increments it and skips the wakeup when it counts no waiters.  The
generation grows for ever and is only ever compared with a captured value, so the
module keeps the result of that comparison, `current[t]`.

`Poller` is one poller of a graph output with `Threads \ {Pool}` reading.

| Model | Code |
|---|---|
| `current`, `sleep`, `waiters` | `gen` against the captured `before`; inside `wait_timeout_while`, not notified or notified; `Activity::waiters` |
| `queue`, `closed`, `active` | the fields of `PollerInner` |
| `total`, `error`, `cancelled` | `total_queued`, `has_error`, `cancelled` of `GraphShared` |
| `pc[t]`, `kind[t]` | how far the call of reader `t` is: `next`, or `try_next` and `try_next_result` |
| `runner`, `step` | the thread inside a job of the node behind the output (the pool, or a reader in `pump_step`), and how far its dispatch is |
| `packet`, `left`, `any` | `dispatch`: the packet being pushed, how many of the batch are left, whether one was queued |
| `drop`, `cancel`, `reset` | how far `Poller::drop`, `Graph::cancel` and `Graph::reset` are |
| `options` | chosen once: policy, batch size, delegated executor or pool, `block_timeout` given or not |

The producer is abstract: job after job, each of which pushes a batch, fails, or
closes the edge once its input has ended or the graph was stopped.  At most one
job runs at a time, as with `max_in_flight` 1 and `delegated_running`.  `Drop` needs
that no reader borrows the poller (Rust's ownership); a *dispatch* may still hold the
`Arc` it has cloned, which is the interesting case.  `closed` and an idle runner
stand for the state Terminated and `is_idle` that `reset` demands.  `clear`, `drop` and
`reset` are separate steps wherever the code releases a lock.  A reset waits for no
reader: poller handles survive it, and nothing in the code keeps a host thread from
being inside `next` then.  So the readers may be anywhere in their calls, but in a job,
when a reset begins, and go on through it into the next run.  Three history variables
say what such a reset leaves behind, and no guard reads them:

| History | Meaning |
|---|---|
| `forgotten` | how many threads slept when the last reset zeroed `waiters` |
| `late` | the readers that entered this run with a packet, or the end, of the run before |
| `strays` | the packets so carried over that were subtracted from this run's `total` |

### Timestamps and Alignment

One node with `NumPorts` ports.  Each port has a thread that dispatches its edge
(packets one or several at a time, explicit bounds, bounds passed on by a node that
emitted nothing, the close), and thread `Worker` runs the invocations.

| Model | Code |
|---|---|
| `queue`, `bound`, `closed` | `input_queues`, `input_bounds`, `input_closed` |
| `policy`, `back` | `InputPolicy`, the feedback registers among the ports |
| `scan` | the holder of the node lock inside `try_claim`, and what it has read |
| `inv` | the invocation last claimed: its timestamp, what was popped, `inputs_done` |
| `promise` | the bound of the stream that a port is fed from: nothing below it will be dispatched |
| `quiet` | whether a claim is assumed not to run beside a dispatch of its ports |

`Timestamps` has all sentinels of `timestamp.rs` (`Unset`, `Unstarted`, `PreStream`,
`PostStream`, `OneOverPostStream`, `Done`) around `Span` ordinary values, so that both ends
of the range are a few steps apart, with `NextAllowedInStream` as in the code.  `Aligned` is `sync_align`,
`AlignedRounds` the loop of `batch_readiness` and `Plans` the decision of `readiness`
for all five policies.  A look at the queues and a look at the bounds are two
steps, as in the code, where each takes the port's own lock: that is finding 3.
`InvocationComplete` and `BatchesWhole` hold of claims that are not interleaved with
a dispatch (`quiet`); `DoneIsFinal` and `NothingOverlooked` hold always.

`SingleSlots` says whether streams use the two single timestamps at their ends,
`PreStream` and `PostStream`; "Taken for granted" says what they do to the others.

Abstractions: one dispatching thread for each port, which is what `flushing` and
the ownership of an input give; one invocation at a time; full lossless queues
(backpressure) are in `NodeScheduler`.

### Lifecycle

A source on a thread pool feeds a sink that is delegated to the host's event loop,
through several runs of one graph.  `todo[t]` is what thread `t` still has to do, a
sequence of steps: a call is replaced by its steps when it is reached, so the module
reads like the code's call stack, and a step is one access to shared state.

| Model | Code |
|---|---|
| `state`, `shared`, `paused` | `GraphInner::state`, first error and cancelled, `paused` |
| `node[n].line` | the claimed invocations in claim order and how far each is; `flushing`, `closeStarted`, `closed` are fields of `NodeSched` |
| `source` | `source_waiting`, `source_reschedule`, `source_done`, `source_generation` |
| `pool` | the ready queue, the delayed tasks with their generation, running threads and the shutdown of `ThreadPool` |
| `delegated`, `wakeup` | tasks for `pump_step`; `wakeup_pending`, `wakeup_requested` and whether the host's loop has been posted to |

The host starts the graph (Open may fail), runs its loop, pauses, resumes, cancels,
waits (`wait_done`, pumping), resets, starts again and frees; at any of these moments
the source may be called, yield, ask for a delay, finish or fail on other threads.
`SourceRests` and `SourceIsKept` are the two sides of the wakeup protocol of sources,
`HostIsCalled` that of event loops, `CallbacksExclude` and `NothingCarriedOver` say what
separates the runs.

Abstractions: arming the wakeup and posting the callback are one step; the count of
claims and the pool's statistics retire together, and `source_waiting` is set with
`source_reschedule`; cancel comes from the thread of the loop; the callback
is installed before the start; `on_error: skip` is a call that returns nothing.

### Construction

`Construction` takes a configuration through the stages of `from_yaml_file`,
`from_yaml`, `from_config` or `check-config`: includes (`Library`), expansion
(`Expand`), `check_supported` (`Supported`), the plan (`Plannable`) and the build
(`BuildOutcome`), each of which may refuse it.  The stages are pure, and each is a
module of operators; the properties compare what they make of a configuration with
what it says:

- `ExpansionKeepsWiring` follows every port of the nested graph to its *wire* through
  the boundaries of the instances and compares with the flat graph;
- `AcceptedGraphDrains` computes in rounds which nodes end once the graph inputs end;
- `PlannedIsBuilt` says that the three sets of rules agree;
- `RoutesAreTotal` and `WarningsAreTrue` run the route kernel on packets.

A name is a sequence of parts instead of a string with `/`; a rate is one of its
classes (`none`, `ok`, `bad`, `tiny`: too small for a period); values in predicates have a type
and a rank.  NaN, duplicates inside a group of `sync_set` and the order in which
several errors are reported are abstracted.  `MCConstruction` lists the families of
configurations, each around a default one.

### Buffers and Packets

`Buffers` has the arithmetic of strided buffers with its overflow checks (`Accepted`,
`LaysOut`), the odometer loops that copy one (`CopyElements` for `copy_to_owned`,
`CopyRows` for `lmflow_packet_from_buffer`), and a reference without loops, `RowMajor`.

`Packets` has a host, a producing node and its consumers.

| Model | Code |
|---|---|
| `heap.body`, `heap.payload` | `Arc<PacketBody>` and `Arc<Payload>` with their counts; a payload's `own` is the host's buffer or object, or the pool's memory, that goes with it |
| `heap.cached`, `heap.bytes`, `heap.released` | `BufferPool`; how often a release function was called |
| `handle[t]` | the `LMFlowPacket`s that the code of thread `t` owns |
| `slot`, `staging`, `queue`, `flight` | `Context::inputs`, the staging of an invocation, the consumer's queue, and the packets `send` or `flush_staging` is delivering |
| `registered`, `spoilt` | the type registry; `Context::output_failed` |
| reference `.value` | a history: what the packet contained for whoever put it there |

A writable view takes two steps, as in the code: the body is made the packet's own
(`MakeMutable`), then the payload is looked at and copied if it is shared
(`OwnPayload`), while other threads clone and drop.  `ValuesKept` compares every
reference with its history.  `NothingKept` is `docs/design.md` 3.4, "once a packet is
delivered the engine keeps no reference to it", with the exception the code has: the
delivery that woke the consumer may not have returned (`flight`).  Packets that are
delivered, or discarded from a staging or a queue, are dropped one per step, since other
threads look at the counts in between.

Abstractions: batches, latency marks, side packets, the references of pollers and
observers and the inner `Arc` of the metadata are left out; type layouts are reduced
to whether a type is registered and fits; the host makes its buffer before the graph
is built.

### Findings

1. **A parked flush may never be retried** (`sched_park_lost`, `ParkedFlushResumes`).
   The flusher finds the consumer's queue full, releases the queue lock, and
   only later records the parked flush under the node lock
   (`backpressure.rs:210`).  If the consumer dequeues its last packets and runs
   `resume_blocked_flushes` in between, it sees an empty index; nobody retries
   afterwards unless the host is inside `wait_done` or `wait_until_idle`.
   `docs/design.md:734` and `graph.rs:97` promise a retry after any dequeue.
   With a host that pulls through a `Poller` the graph stalls.
2. **Output of Close may be lost** (`sched_close_lost`, `CloseFlushRetained`).
   `drive_invocation_flushes` looks for a parked invocation with
   `if let Some(Invocation{..}) = blocked_flush.take()` (`backpressure.rs:184`),
   which empties the field also when it holds `Close`.  A flusher on its way out
   (its last `in_flight -= 1` done, `flushing` still set) then discards a close
   that another thread's `maybe_close` has just parked: `close_started` is set,
   `closed` never will be, the staged packets are lost and `wait_done` reports a
   node that cannot close.  The test
   `close_output_resumes_after_downstream_dequeue` and `docs/design.md:682` say
   the staging is retained.  `NodeCloses` therefore is checked where Close stages
   nothing.
3. **A claim may pass over an older packet** (`align_race`, `AlwaysComplete`).
   `sync_align` (`node.rs:771`) looks at a port's queue and, if it was empty, at its
   bound, under two locks.  A batch dispatched between the two looks leaves packets
   in the queue and a bound above them; the bound is taken for that of an empty port,
   a later timestamp of another port is claimed, and the older packet is handed out
   at the next claim, with timestamps going backwards.  `node.rs:627` says that then
   no port can deliver an earlier packet.  `batch_readiness` has the same window.

### Taken for granted

What the models show or assume beside the runs, for those who change the code:

- The global watermark is soft: `docs/design.md:679` calls `max_queued_packets` a hard
  budget, but `send` reads the total before it owns the input and queues the packet
  later, reserving nothing (`scheduler.rs:50`), as the comment at `runtime.rs:306` says.
- `dispatch` pushes a whole batch before it notifies (`scheduler.rs:153`).  Under
  `Block`, a batch larger than the free space leaves its pusher asleep waiting for a
  reader, and the reader asleep, not told of the packet that is there; the poll caps
  of 50 and 100 ms end it, batch after batch.
- `reset` zeroes `waiters` (`lifecycle.rs:430`) once the graph is terminated and idle; a
  reader may still be inside `wait_activity_since` through a poller handle that
  survives the reset.  When it wakes up it subtracts 1 all the same: from 0, where the
  release build wraps (modelled, `UsizeMax`) and a debug build panics on overflow, or
  from the count of those who came later, whose notifications are then skipped.  The
  count stays off until the next reset.  So the comment at `graph.rs:55`, that no wakeup
  is lost, does not hold after such a reset; what holds instead, and is proved, is
  `MissedOnlyByResets`: at no time do more threads sleep through an announcement than
  the reset forgot.  Their sleep then ends only by the poll caps of 50 and 100 ms.
- `reset` zeroes `total_queued` (`lifecycle.rs:346`) while a reader may be between `pop`
  and `on_dequeue` (`poller.rs:150`).  It subtracts its packet from the next run's count,
  which falls short by 1 from then on, and the watermark admits a packet more:
  `TotalWithinStrays`.  A reader at the final pop likewise ends the next run for its
  caller, who is told the end that belongs to the run before.
- A reset is taken to begin with no thread in a job (`runner = Nobody`), and a reader's
  `pump_step` to find nothing to do until the next start.  `is_idle` sees workers and
  delegated tasks, but not a host thread inside `try_advance_closing`: between the reset
  of a node's scheduler (`lifecycle.rs:380`) and that of its `input_closed`
  (`lifecycle.rs:398`) such a thread could close the node again, and one that has found
  all nodes closed could set Terminated over the Initialized of the reset.  The comment
  in `reset` (`lifecycle.rs:333`) takes it for excluded by `is_idle`.
- A port's `closed` flag is stored before its bound becomes `Done`
  (`lifecycle.rs:149`): in between, a batch may be handed out short although the packets
  in the queues would fill it, which is why `BatchesWhole` is conditioned.
- `fixed_size` queues and feedback registers drop from the front on dispatch, beside
  the claim that the comment at `scheduler.rs:535` takes to be the only one to pop.
- The engine does not enforce that nothing follows a packet at `PreStream`
  (`timestamp.rs:65`).
- A claim raises the bounds of all ports that took part to what follows its timestamp
  (`scheduler.rs:474`, `scheduler.rs:553`), which after `PreStream` or the last ordinary
  timestamp is `OneOverPostStream`, although only the streams that had a packet there are at
  their end.  The next claims no longer wait for the others.  With two ports nothing is
  lost by it, which is what `align_order` shows; with three, a claim at `PreStream` of one
  port makes the second's next packet ready before an older one of the third arrives.
  `InvocationsComplete` is proved for streams without the two slots (`~SingleSlots`).
- A cancel that races `schedule_source_resumption` (`scheduler.rs:889`) may leave a
  delayed wake behind `clear_delayed`; it wakes nobody, but `wait_done` waits for its
  time.  The end of a cancel that overlaps the reset and the next start removes the
  new run's wakes; the models therefore cancel from the thread of the loop.
- `resume` between `reset` and `start` would call a source of an initialized graph; the
  model's host does not do it.  A callback installed after the node became closable
  is not called for it.
- A graph cancelled before its start can neither start nor be reset.
- `Graph::from_config` and `GraphPlan::build` are public and skip expansion and
  `check_supported`: an unknown policy is then `Sync`, a route node without a route panics
  (`build.rs:130`), a rate below the period's resolution passes the plan and fails the
  build, and a node fed by feedback registers alone is accepted.  The properties of
  `Construction` exclude that entry.
- A `sync_set` on a node with `back_edges` can never be accepted; a port without a tag
  loses an explicit index in a subgraph (`expand.rs:314`), so that the families of
  `MCConstruction` have none; an edge name with `/`, or one boundary name
  used as input and output, may be wired to the wrong edge, and is excluded too.
- `docs/design.md:226` says that in a linear pipeline on the pool a consumer "stably"
  finds its payload unshared.  A `send` still holds its packet while it schedules the
  consumer (`scheduler.rs:100`), and a flush until it clears its list
  (`backpressure.rs:400`): a consumer already running may see two references and copy,
  which is slower and safe.
- `check_input_types` (`scheduler.rs:928`) looks at `ctx.inputs` only, so packets of a
  batch are not checked; an accepted buffer that is empty, or repeats elements to
  more bytes than can be allocated, may be refused its copy.

## 3. Runs

| Run | Question | Bounds |
|---|---|---|
| `sched_refines` | is the node an `OrderedNode` to its neighbours, are slots and the index consistent, outputs in claim order, the (forced) close last, under cancel, failing callbacks and oversized batches? | 2 workers, 2 slots, 2 inputs, Capacity 1, Close emits 1 or 2 > Capacity |
| `sched_liveness` | does the node close, with a waiting host, under backpressure of Open and Process output? | 1 worker beside the consumer, which flushes too |
| `sched_park_lost` | finding 1 | 1 worker, host never waits |
| `sched_close_lost` | finding 2 | 2 inputs, Close emits 1 |
| `ingress_order` | one dispatcher per input, ordered streams, nothing below a bound or after the end, every requested close held until committed, no circle of waiting calls, a closed graph drains? | 2 threads, 2 inputs, 1 timestamp, 4 calls, nesting 2, watermark 1 |
| `poller_streams` | is the watermark exact but for packets carried over a reset, is nothing lost at the end, are order and capacity kept, is no wakeup lost but to a reset that forgets sleepers, under every policy, pooled and delegated, with errors, cancel, drop and resets beside the readers? | 2 readers, 2 packets, batches of 1 and 2, capacity 1, 2 runs |
| `poller_live` | does every call return (or wait for the next start), does every blocked push end, also after a reset that forgot a sleeper? | 1 reader, policy Block, the same otherwise |
| `align_order` | is an invocation given all packets up to its timestamp, are batches whole, is `inputs_done` final, is no ready node overlooked, under every policy, with and without a feedback register? | 2 ports, 2 ordinary timestamps and the slots at both ends, queues of 2, batches of 2 |
| `align_race` | finding 3 | policy `sync`, dispatch beside the claim |
| `construct` | is what is accepted wired as written, draining, buildable and total? | 90,860 combinations of a configuration and an entry |
| `lifecycle` | do callbacks exclude, are sources woken once and kept, is the event loop called, is nothing carried over? | 2 runs; budgets below |
| `packets` | are values kept, resources released once, references let go, and buffers of any layout copied exactly? | 5,697 buffers; budgets below |

All bounds are small on purpose.  In the scheduler, two workers are enough for any
two invocations to overlap with each other, the host and the consumer; two slots and
two inputs to finish out of order; capacity 1 makes the queue full after one packet.
What a third input adds (a slot used again, a close while a claim waits for a slot) is
covered by the proofs, which know no bounds.  Two inputs and two threads are what a
circle of waiting callbacks needs; three calls give a dispatch, a close from its
callback and a competitor on the same input, four a callback inside each of two
dispatches that close each other's input.  Two readers make one reader's pop free the
slot of a push while another sleeps, two packets fill a queue of one and leave one
behind, two runs contain one reset, which may find both readers asleep, or one or both
with a packet in hand.

Two ports are what alignment relates; at a queue of two, a port has a packet at the
timestamp and one after it, and a batch of two timestamps can be whole, cut or spread
over the ports.  Two ordinary timestamps between `PreStream` and `PostStream`
are the first and the last, where `next_allowed_in_stream` leaves the ordinary range.

`lifecycle` spends *budgets*: on one worker, two runs with two calls of the source and
one error, one cancel or one other call of the host (wait, pause); on two workers, one
run with two calls, or with one and a cancel.  Two calls make one source call land while
the other runs, one reset separates two runs; two faults in one run are not combined.

`packets` spends budgets too: a packet with a clone and a change, two buffers of the
kernels, two packets, a fault beside a clone or a change.  Every sharing of a payload
needs two references, which a clone, a fan-out to two consumers or a forward makes;
the pool of two bytes holds the larger allocation or the smaller one.  The buffers have up to three
axes, in every order of strides, reversed, repeated, overlapping and with gaps, in an
address space where the largest `i64` is 31, so that every overflow check is met.

`construct` enumerates 520 accepted topologies of three nodes with feedback, 130 of
producers and inputs, 20 of tags, 696 of policies and queues, 112 of executors and
rates, 788 of routes, 144 of nested and 4 of included subgraphs and 30 of contracts, and
the configurations beside them that are refused.

`CHECK_DEADLOCK FALSE` in all of them: a run has finitely many inputs, calls or
budgets, and after them, or with a parked flush nobody retries, the system really
stops; a construction ends; a freed graph is gone.  That calls do not block each other
is `SomeCallRuns`, and that nobody is left waiting `NothingOverlooked`, `SourceIsKept` and
`HostIsCalled` instead.

Symmetry of the workers, threads, readers or consumers is used by the runs of
invariants and of action properties only (a step and its image under a permutation
satisfy the same ones; the refinement mapping of `NodeRefinement` does not mention
workers), never by the runs of liveness.  The consumers of `packets` have equal roles:
both are typed, and fan-outs are all sets of them.

### Fairness

`FairSpec` assumes weak fairness of every thread's own code (threads of a pool
and the host are scheduled by the operating system and never wait while they are
at these labels - the locks are held briefly and never across a callback), of
each idle worker taking a task (`ThreadPool::take` waits on a condition variable
that `submit` notifies), and of the consumer.  `Pump` is strongly fair: hosts
drive the graph through `wait_done`, `Poller::next` or an event loop, each of
which calls `pump_step` again and again, in between calls that may leave the
host busy elsewhere.  `Retry` is strongly fair too where the host waits
(`HostRetries`): `wait_until_idle` and `wait_done` loop with a 50 ms cap
(`POLL_CAP`).  Nothing else is assumed; in particular no fairness makes
callbacks succeed.

In `Poller`, `FairSpec` assumes that running threads go on and that a notified
sleeper wakes up.  The time-outs inside the waits (50 ms for a reader, 100 ms for a
push) hide lost wakeups, so they are *not* assumed to help, except where the code
depends on them (`NeedsTimeouts`): for a batch larger than one packet (see "Taken
for granted"), for a delegated executor, where the reader that runs a blocked push cannot
read, and after a reset that forgot sleepers, for a push too.  Time passes for a push
with a `block_timeout`: its waits end
(`PushTimedOut`), and `Expire` is strongly fair because the deadline is fixed at
the first attempt and looked at again after each wait, and other threads may
make `Stopped` true and false only by a reset, which waits for the push.  No
fairness makes a host cancel, drop, read or reset.

## 4. Proofs

### The node scheduler

`NodeSchedulerProofs` proves, for every number of workers, slots, inputs and
every capacity and batch size, under `ThreadsAssumption` (the host and the consumer
are two threads outside the pool) and `BoundsAssumption` (sizes are positive
integers): `TypeCorrect`, `SlotsNeverShared`, `ClaimNeverPanics`, `PublishesInOrder`,
`CloseComesLast`, `ParkedIsIndexed`, `QueueNeverOverfull` and `ImplementsOrderedNode`.

None of the properties is inductive alone.  The invariant `IInv` adds:

- `ModeInv`: which mode of flushing goes with which label;
- `CountInv`: claimed invocations `nextFlush .. nextSeq - 1` are exactly those in
  flight, and the stage of each follows from its number;
- `HoldInv`, `SlotInv`: one holder per invocation, distinct slots outside `free`,
  and `Cardinality(free) = MaxInFlight - inFlight`;
- `FlusherInv`: before the close starts, one flusher at a time, and it holds the
  flag; whoever flushes an invocation flushes `nextFlush`;
- `CloserInv`: one closer at a time, although the `flushing` flag may be reset by
  a flusher that is leaving (the window of finding 2);
- `BoundInv`, `ReserveInv`: bound and reservation as functions of the flusher's label.

Most steps only move a thread between labels at which it holds nothing: `QuietStep`
proves them once.  Each other action has a lemma with one step per conjunct it
disturbs.  The order of publication follows from `FlusherInv` and `BoundInv`, the
position of the close from `CountInv` and `CloserInv`, slot exclusion from `HoldInv`
and `SlotInv`.

`ClaimNeverPanics` (the slot a claim pops is there) and `QueueNeverOverfull` have no run of
their own: the proof covers them.

Only model-checked: liveness (`NodeCloses`), which is out of the prover's reach with
its fairness.

### The graph inputs

`IngressProofs` proves, for any number of threads, inputs, timestamps, calls and
any nesting, under `IngressAssumption`: `TypeCorrect`, `DispatchExclusive`,
`ObserversInOrder`, `BoundsAlwaysKept` (an action property), `ForcedCloseDrains`,
`ClosesReachTheGraph`, `RequestedClosesAreHeld` and `NoCircularWait`.  The invariant `IInv` adds:

- `StackInv`, `KindInv`: calls below the running one are inside host code, and
  each procedure has its own labels;
- `OwnerInv`: an owner has a call that owns the input, the converse of
  `OneDispatcher`;
- `NestInv`: the calls around a send that passed its first check only pump - a
  send inside a callback is refused while its thread owns the input;
- `SleepInv`: who sleeps waits for an owner, and a sleeping closer owns nothing
  (that is what `defer_if_busy` is for);
- `EventInv`: what observers and the consumer have been told, at each label;
- `SettleInv`: while all inputs are closed and the graph still runs, some call
  will look at them again.

A step of a call leaves the other calls alone or wakes them up (`Moved`, `Same`);
`StackStep`, `OwnerStep`, `EventStep` and `SettleStep` say once what such a step owes
to each part, `QuietStep` puts them together for steps that tell nobody anything.
`NoCircularWait` follows: the owner a call waits for has an owning call in its
stack; by `SleepInv` its running call is not a sleeping closer, and by `NestInv` not
a sleeping sender, since an owning call is not pumping.

`ForcedCloseDrains`, that a queue emptied by a forced close is not filled again, has no run
of its own.

`RequestedClosesAreHeld` needs `CommittedInv` beside `IInv`: a call past the commit of a
close finds the edge closed, so that nobody who lets go of an input (`HandsOver`) leaves a
request behind.

### Activity and the pollers

`PollerProofs` proves, for any number of readers, packets, runs, batch sizes, any
capacity and any set of policies, and for resets at any moment that the model knows,
under `ActivityAssumption` (the count is wide enough for the threads) and
`PollerAssumption`: `TypeCorrect`, `WakeupsMissedOnlyByResets`, `WatermarkWithinStrays`,
`EndOfStreamIsFinal`, `DroppedPollerIsEmpty` and `ReadInOrder`.  In a history without a
reset that met a sleeper or a packet in hand, the second and third say that no wakeup
is lost and that the watermark is exact.  The invariant `IInv` adds:

- `JobInv`: a job has one thread, packets are left exactly while one is pushed, and
  after the close there is no more dispatch;
- `SleepInv`, `WaitersCounted`: exactly the threads at a waiting label sleep, and
  `waiters` is their number less `forgotten`, in the width it has.  As neither exceeds
  the number of threads, it is 0 only if just as many sleep as were forgotten, and then
  a skipped notification is missed by no more than these (`NotifyCounted`);
- `DropInv`: `active` is false exactly from the drop on, so the second look under
  the lock is enough;
- `ResetInv`: a reset meets no job, none starts before it is over, and it leaves the
  queue empty; the count stays 0 through it, whatever late readers subtract
  (`TotalWithinStrays`);
- `OrderInv`: the queue rises from after the packet last taken to the one last pushed;
- `LosslessInv`: in an undisturbed run under `Block`, the packets taken and queued
  are all that were pushed, without a gap;
- `EndInv`: whoever is at the final pop has seen the edge closed, in this run unless late.

`NotifyCounted`, `FallAsleepCounted`, `WakeUpCounted`, `CaptureCounted` and
`ForgetCounted` say what the
operations of `Activity` owe to the count; `JobStarts`, `PushEnds`, `KeptTail` and
`RisingAppend` what jobs, pushes and the overflow policies do.  `EndIsFinal` follows
from `LosslessInv`: at an empty final pop of a closed edge everything pushed has
been taken, and the close comes after the last packet.

Only model-checked: `CallsReturn` and `PushesEnd`.

### Alignment

`AlignmentProofs` proves, for any number of ports, ordinary timestamps, policies,
feedback registers, groups, capacities and batches, under `AlignmentAssumption` and
`SpanAssumption`: `TypeCorrect`, `DoneStaysDone`, `NothingIsOverlooked`, `BatchesAreWhole`, and, for streams
without the single slots (`~SingleSlots`), `InvocationsComplete`.  The invariant `IInv` is

- `ScanInv`: what the holder of the node lock has seen and claimed so far;
- `DoneInv`: between the pop and the reading of the flags, a port left empty that is
  closed, or has no thread inside a dispatch, stays empty: this is why it is safe to
  report `inputs_done` from a length noted before;
- `OrderInv`: a queue rises and ends below the bound of its stream;
- `PromiseInv`: a bound never exceeds that of the stream, except past the ordinary range.

`WatchInv` says beside it who will look: while nobody holds the node lock and an
invocation could be claimed, some thread has not come to its `schedule_node` yet, and
who is about to find nothing either saw the queues as they are or is not the last.
`NothingIsOverlooked` follows from it together with `EndedPlanned`: if all inputs are
closed and a packet is left, every policy plans a claim.

`Least` is justified by the well-founded order of the numbers.  Inductions over the
rounds of `AlignedRounds` are arguments about a least counterexample: its recursive
function exists (`RoundsExist`), and what the rounds take is an invariant of them
(`RoundTyped`, `RoundFits`).  `AlignedFits` and `QuietPlanFits` conclude that an aligned claim takes
all there is up to its timestamp.

`BatchesAreWhole` adds `RoundWhole` to the rounds: the timestamps taken are as many as the
rounds, and the rounds stop early only where no more is aligned.  By `WatchInv` a quiet
claim that finds all inputs closed also finds their bounds at `Done`, where everything
left is aligned: so a batch that is cut leaves nothing.  It holds with the single slots.

Only model-checked: `InvocationComplete` for streams with the single slots.

### Lifecycle

`LifecycleProofs` proves, for any number of workers and of calls in flight and any
budget of failures, pauses and runs, under `ThreadsAssumption` (the workers are finitely
many, the host is none of them, and no thread is one of the words a line of calls
holds) and `SlotsAssumption` (a node takes at least one call, the `max(1)` of
`graph/build.rs`): `TypeCorrect`, `CallbacksAreApart` and `NothingIsCarriedOver`.  A thread carries the
list of steps it has still to do; the invariant `IInv` is

- `ShapeInv`: what lists look like - some steps are only ever first, a worker's task
  ends in `completed` with at most a wakeup after it, the host drops the graph last;
- `PhaseInv`: between runs nothing is outstanding, and what the host has still to do
  fits the state of the graph, so that a wait or a pump that outlives its run does no harm;
- `CloseInv`: a graph terminates only with all its nodes closed, and a node that is
  being closed has a closer at work;
- `PoolInv`: a worker with something to do is a thread of a running pool, and `running`
  counts the workers that have a task: why an idle pool has no call either;
- `CallsInv`: the line of a node has an entry for each of its calls - the tasks queued and
  the threads about to submit or run one are at most its claims - and one thread flushes it.

`CallbacksExclude` needs all five: a close looks at the line, so every call must have its
entry there (`CallsInv`); a reset looks at the pool and at the counts, so a call must
show in them (`PoolInv`), and no stale task may run into a new Open (`PhaseInv`).

A thread does its first step and puts others in front of the rest (`Pushed`, `Advances`).
`ShapeStep`, `PhaseStep`, `CloseStep`, `PoolStep` and `CallsStep` say once what
a step owes each part; `QuietStep` joins them for the steps that only look,
`BusyStep` for those of calls, and the steps of the host that start, reset and free the
graph have lemmas of their own.

`SourceProofs` adds `SourceIsLeftAlone`: a source that asked to be called later has no call
outstanding while its wake is delayed or queued.  The right to wake it is one token: a
thread that makes the next generation, submits it or has taken it, or a wake of the
current generation in the pool.  `RestInv` says, of a started graph without error or
cancel, that there is at most one token (`OneWake`), that while there is one the line of
the source is empty and no request is open, and that a token or a request means a source
that waits or is done, so that nothing is claimed for it.  It needs that

- no wake is of a later generation than the current one (`GenerationInv`): why a new
  generation has no wake yet, and all older ones are ignored;
- a cancel sets the flag before it invalidates the wakes (`CancelInv`), so that the token
  it takes away belongs to no run any more;
- a start and a reset come as whole lists (`StartInv`), and no request survives a reset
  (`RequestInv`): a run begins without a token.

`SourceProofs` also proves `SourceIsNeverForgotten` (`SourceIsKept`), the other side: when all
threads are idle, a source of a running graph that is not done has a call or a current
wake in the pool.  `KeptInv` extends it to every state of such a graph: a source that waits
has a token, or an open request and somebody who will look at it (`Tended`), and one that
does not wait, in a graph that is not paused, somebody who will try it (`Tried`).  That
somebody is a thread with such a step in its list, or stands at the end of what is
outstanding (`Returning`): while the line of the source is not empty or is being
flushed, the flusher looks for a request and tries the source when it is through.  It needs that

- each claim is in the pool or with a thread that is about to submit or run it (`BackInv`,
  the converse of the count in `CallsInv`), and a thread in the line is in its call
  (`EntryInv`): what is outstanding does come back;
- what has come back first in line is being flushed, and behind each flush stand the look and
  the try (`FlusherInv`), however deep in the list of a thread;
- the pool stops only when the host frees the graph (`StopInv`), a forced close is of a graph
  that has failed or was cancelled (`ForceInv`), and a cancel sets its flag
  before it drops the delayed wakes (`ForgetInv`): nobody takes the wake of a run that goes on;
- the source of a graph that goes on is closed only when it is done (`DoneInv`).

`HoldsMove`, `AwaitedMove` and `WakesMove` say that a step in a list, a token of another
thread and a wake in the pool stay; `KeptMove` joins them.  The cases worth reading are
`KeepLand`, `KeepTail` and `KeepFlushEnd`, where the last call returns and its thread turns from
what is outstanding to what it has still to do, `KeepReschedule`, where a request becomes
a token, and `KeepTake`, where the token goes from the pool to a worker.

`WakeupProofs` adds `HostIsAlwaysCalled`: when all threads are idle and a pump would do
something, the callback has posted.  `WorkInv` extends it to every state of a started graph:
while there is work - a delegated task, nodes that are all closed, a node that may be
closed - the host is `Called`, or what is left of its round still looks at this work.
`Called` means that the callback has posted or that some thread has yet to request it;
once the host has begun a round and until it arms the callback again, only a request counts that
came after the beginning, because `Rearm` looks for those and for no others.  It needs that

- a round is done before its end and nothing of it comes after that (`LoopInv`), and a cancel
  is followed by a request and a request by its call (`AskInv`): who owes a wakeup;
- a worker closes the source only (`OwnInv`), whose end of stream requests a wakeup;
- a callback that is not called again was called for a round still to come (`PendingInv`);
- a graph is started without a node that is closed (`NewInv`), so that it has no work yet.

The calls of nodes need no argument of their own: a worker's task ends in `completed`, which
requests a wakeup, and a host that did something in a round goes round again (`BusyCalled`). The
cases worth reading are `LoopsPumped` and `LoopsRearm`, between which the callback is armed and a
request may come, and `LoopsCloseClaim`.

### Packets

`PacketsProofs` proves, for any nodes, bodies, payloads, allocations and budgets, under
`PacketsAssumption` (the sets are finite) and `WidthAssumption`: `PacketTypes`, `PacketsKeepValues`
(`ValuesKept`), `PacketsOwnExactly` (`Lifetimes`) and `PacketsNotKept` (`NothingKept`).  The invariant `PInv` adds to the types and the shapes of an
invocation (`ShapeOK`) what the counts count:

- `HeapOK`: the count of a payload is the number of bodies that have it (`Sharers`), what is
  not counted is empty, and an allocation is in the pool or has one owner, never both;
- `Counts`: the count of a body is the number of references to it in all the boxes where
  packets are kept (`Tally`);
- `Balance`: for each resource of the host's, how often it was released, its owners in the heap
  and the objects carried by hand add up to 1 once it is given, and to 0 before;
- `Faithful`: every reference reads its history, which is `ValuesKept`;
- `Sole`: a thread between the two halves of a writable view has the only reference to the body
  on top of its handles.  The other holders of the *payload* may come and go in
  between, which is why the second half looks at that count again.

The proof goes up in layers, so that no layer sees the one below: what each operation does to a
heap (`DropPayload`, `CopyBody`, `FromPool` and so on), to a heap with its boxes (`Sound`), to these with the writers (`Good`), and to the variables, where each action
has a lemma that names the boxes it changes and another for the rest of the state.
`ReachedOwner` connects the counts to `Reachable`, in which `Lifetimes` is stated.

`NothingKept` needs to know more than counts: where the other references are.  `KInv` adds to `PInv`

- `FlowOK`: a payload of which the program made no second packet is at most once in each box, and in
  two boxes only if these are `Apart`: boxes of two consumers, the input of the producer and its
  staging (it forwards), or a delivery that has not returned and a box it has been pushed to;
- `CalmOK`: a host delivers to the producer and the producer to its consumers, and a node that is
  not a consumer of this graph is idle and has no packets.

Every action has a lemma for each (`SendCalm`, `SendFlow` and so on).  `FlowLess` is for actions that
only take packets out of boxes, `FlowGain` for those that let one box gain a payload, from which
it must be `Apart` wherever else the payload is; `StillApart` says that boxes that may share still
may when a delivery proceeds.  With one consumer no two boxes of nodes are `Apart` but a
node's own, which is `NothingKept`.

Only model-checked: `CopiesExact`, which compares recursive loops over the elements of a
buffer with a closed form, an induction over data.

### Out of reach

`Expansion`, `Routing`, `GraphPlan` and `Construction` walk trees with recursive operators, whose results for
every input are an induction over data; they have no theorems.

## 5. Hazards

`PROJECT.json` lists what is hard to test in this code, each at its line, with the
properties that would catch it; where only a theorem or the text above covers it, its
note says so.

## 6. Plan

Done: the node scheduler, the graph inputs, the alignment, the activity and the pollers,
the lifecycle with sources, pool and event loop, the packets, with proofs; construction and
buffers, with runs.  What would be worth adding, in order of importance:

1. A composition of `NodeScheduler` with `Alignment`: two ports under backpressure.
2. Batches and latency marks in `Packets`; a FIFO channel with a final close as an
   abstract specification that `Ingress` and a lossless `Poller` implement.
3. The sequential protocol of the kernel test harness (`kernel_runner.rs`).

## 7. Not modelled

- Diagnostics: DOT output, traces, statistics, `introspect`, the watchdog and the
  diagnosis of a stuck wait.  They format what the engine keeps, and it reads nothing
  of theirs.
- The YAML parser (serde) and the wording and order of error messages; `Construction`
  starts from a parsed configuration.
- Marshalling in the C ABI: strings, option and side packet readers, observers'
  trampolines.
- The kernel test harness `kernel_runner.rs`, C++ kernels, the Python binding and the
  GPU adapters, which use the C ABI and device libraries.
- In modelled parts: thread priority and affinity, the limit of the watermark in bytes
  (of the same shape as that in packets), timestamp bound markers of pollers, pausing
  in `NodeScheduler` (it is in `Lifecycle`), sends to another input from a callback of a
  packet, cancel from a thread that is not the loop's, and a wakeup callback that is
  installed after the start.
