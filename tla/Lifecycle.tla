------------------------------ MODULE Lifecycle ------------------------------
(***************************************************************************)
(* The life of a graph: start, pause, cancel, wait_done, reset and free by *)
(* the host, while the workers of the thread pool run a source that yields *)
(* and is woken by delayed tasks.  The source feeds a sink that is         *)
(* delegated to the host, which runs an event loop: it pumps the graph     *)
(* when the wakeup callback has posted to it.                              *)
(*                                                                         *)
(* todo[t] is what thread t still has to do, a sequence of steps; a step   *)
(* is one access to shared state, or several under one lock.  Every call   *)
(* is replaced by its steps when it is reached.  The order of completions, *)
(* parked flushes and full queues are in NodeScheduler; the queue of the   *)
(* sink is unbounded here.                                                 *)
(***************************************************************************)
EXTENDS Naturals, Sequences, FiniteSets

CONSTANTS
    Workers,              \* the threads of the pool
    Host,                 \* the thread of the event loop, which starts and ends the graph
    MaxInFlight,          \* max_in_flight of the source
    Budgets               \* bounds: the numbers of threads of the pool, of calls of the source, of
                          \* starts, of errors, of cancels and early ends, and of other calls of
                          \* the host: [threads, calls, runs, errors, cancels, others]

VARIABLES
    state,                \* GraphInner::state
    shared,               \* [error, cancelled]
    paused,
    node,                 \* of each node [opened, closeStarted, closed, line, flushing]
    source,               \* [waiting, reschedule, done, generation]
    sink,                 \* [backlog, inputClosed]
    inFlight,             \* the calls claimed and not yet run, of all nodes
    pool,                 \* [workers, ready, delayed, running, started, stop, exited]
    delegated,            \* tasks for the host
    wakeup,               \* [pending, requested, posted]
    moved,                \* whether the pump of the host made progress
    todo,
    bounds                \* what is left of a budget

vars == <<state, shared, paused, node, source, sink, inFlight, pool, delegated, wakeup,
          moved, todo, bounds>>

Threads == Workers \cup {Host}

\* The threads are finitely many, and not the words that stand in a line.
ASSUME ThreadsAssumption ==
    /\ IsFiniteSet(Workers) /\ Host \notin Workers
    /\ {"claimed", "landed", "emitted"} \cap Threads = {}

\* A node takes at least one call at a time.
ASSUME SlotsAssumption == MaxInFlight \in Nat \ {0}

Nodes == {"source", "sink"}
Live == {"Running", "Draining"}
RunTask == 0            \* in the pool: a call of the source; a wake is its generation
Slots(n) == IF n = "source" THEN MaxInFlight ELSE 1

\* What a new NodeSched holds.  line has the outstanding calls in the order of
\* their claims: "claimed", the thread that runs it, or "landed" and "emitted"
\* for one that returned without and with a packet.
NewSched(opened) ==
    [opened |-> opened, closeStarted |-> FALSE, closed |-> FALSE, line |-> <<>>, flushing |-> FALSE]

Stopped == shared.error \/ shared.cancelled
AllClosed == \A n \in Nodes : node[n].closed
Idle(t) == todo[t] = <<>>
At(t, name) == ~Idle(t) /\ Head(todo[t])[1] = name
Arg(t) == Head(todo[t])[2]

\* t goes on with steps before the rest of what it has to do.
Go(t, steps) == todo' = [todo EXCEPT ![t] = steps \o Tail(@)]
Call(t, steps) == todo' = [todo EXCEPT ![t] = steps]

Spend(kind) == bounds[kind] > 0 /\ bounds' = [bounds EXCEPT ![kind] = @ - 1]

\* A callback of a kernel may fail.
CountFailure(fails) ==
    IF fails THEN Spend("errors") ELSE UNCHANGED bounds

RequestWakeup == <<<<"request">>, <<"arm">>>>
CancelSteps == <<<<"cancelled">>, <<"invalidate">>, <<"forget">>>> \o RequestWakeup
MaybeClose(n) == <<<<"close?", n>>>>
Finish(n) ==
    (IF n = "source" THEN <<<<"resume?", n>>>> ELSE <<>>) \o <<<<"try", n>>>> \o MaybeClose(n)

Init ==
    /\ state = "Initialized" /\ shared = [error |-> FALSE, cancelled |-> FALSE]
    /\ paused = FALSE
    /\ node = [n \in Nodes |-> NewSched(FALSE)]
    /\ source = [waiting |-> FALSE, reschedule |-> FALSE, done |-> FALSE, generation |-> 0]
    /\ sink = [backlog |-> 0, inputClosed |-> FALSE]
    /\ inFlight = 0 /\ delegated = 0
    /\ bounds \in Budgets
    /\ \E workers \in SUBSET Workers :
          /\ Cardinality(workers) = bounds.threads
          /\ pool = [workers |-> workers, ready |-> <<>>, delayed |-> {}, running |-> 0,
                     started |-> FALSE, stop |-> FALSE, exited |-> {}]
    /\ wakeup = [pending |-> FALSE, requested |-> FALSE, posted |-> FALSE]
    /\ moved = FALSE
    /\ todo = [t \in Threads |-> <<>>]

---------------------------------------------------------------------------
(* Claiming and dispatching: schedule_node, try_claim, dispatch_task.       *)

\* try_claim looks at the flags first and only then takes the node's lock.
Try(t) ==
    /\ At(t, "try")
    /\ Go(t, IF Stopped \/ paused THEN <<>> ELSE <<<<"claim", Arg(t)>>>>)
    /\ UNCHANGED <<state, shared, paused, node, source, sink, inFlight, pool, delegated, wakeup, moved, bounds>>

Ready(n) ==
    IF n = "source" THEN ~source.done /\ ~source.waiting ELSE sink.backlog > 0

Claim(t) ==
    /\ At(t, "claim")
    /\ LET n == Arg(t)
       IN  IF /\ node[n].opened /\ ~node[n].closeStarted
              /\ Len(node[n].line) < Slots(n) /\ Ready(n)
           THEN /\ node' = [node EXCEPT ![n].line = Append(@, "claimed")]
                /\ inFlight' = inFlight + 1
                /\ sink' = IF n = "sink" THEN [sink EXCEPT !.backlog = @ - 1] ELSE sink
                /\ Go(t, <<<<"submit", n>>, <<"try", n>>>>)
           ELSE /\ Go(t, <<>>)
                /\ UNCHANGED <<node, inFlight, sink>>
    /\ UNCHANGED <<state, shared, paused, source, pool, delegated, wakeup, moved, bounds>>

\* A pool that was shut down refuses; the executor of the host never does.
Enqueued(task) == [pool EXCEPT !.ready = Append(@, task)]
Delegate == delegated' = delegated + 1

Submit(t) ==
    /\ At(t, "submit")
    /\ IF Arg(t) = "sink"
       THEN /\ Delegate
            /\ Go(t, RequestWakeup)
            /\ UNCHANGED <<pool, inFlight>>
       ELSE /\ IF pool.stop THEN inFlight' = inFlight - 1 /\ UNCHANGED pool
               ELSE pool' = Enqueued(RunTask) /\ UNCHANGED inFlight
            /\ Go(t, <<>>)
            /\ UNCHANGED delegated
    /\ UNCHANGED <<state, shared, paused, node, source, sink, wakeup, moved, bounds>>

---------------------------------------------------------------------------
(* Wakeups: request_wakeup and the callback of the host, which posts.       *)

Request(t) ==
    /\ At(t, "request")
    /\ wakeup' = [wakeup EXCEPT !.requested = TRUE]
    /\ Go(t, <<>>)
    /\ UNCHANGED <<state, shared, paused, node, source, sink, inFlight, pool, delegated, moved, bounds>>

Arm(t) ==
    /\ At(t, "arm")
    /\ wakeup' = [wakeup EXCEPT !.pending = TRUE, !.posted = @ \/ ~wakeup.pending]
    /\ Go(t, <<>>)
    /\ UNCHANGED <<state, shared, paused, node, source, sink, inFlight, pool, delegated, moved, bounds>>

---------------------------------------------------------------------------
(* The pool: take, and the tasks of a worker.                               *)

Due == {<<>>} \cup {<<wake>> : wake \in pool.delayed}
StepsOf(task) ==
    IF task = RunTask THEN <<<<"run", "source">>, <<"completed", "run">>>>
    ELSE <<<<"wake", task>>, <<"completed", "wake">>>>

\* A look of a worker at the queue: a delayed task that is due joins the ready
\* ones, and the first ready one is taken.
Take(w) ==
    /\ Idle(w) /\ pool.started /\ w \in pool.workers \ pool.exited
    /\ \E due \in Due :
          LET ready == pool.ready \o due
          IN  /\ ready # <<>>
              /\ pool' = [pool EXCEPT !.ready = Tail(ready), !.running = @ + 1,
                                      !.delayed = @ \ {due[i] : i \in DOMAIN due}]
              /\ Call(w, StepsOf(Head(ready)))
    /\ UNCHANGED <<state, shared, paused, node, source, sink, inFlight, delegated, wakeup, moved, bounds>>

Exit(w) ==
    /\ Idle(w) /\ pool.stop /\ pool.ready = <<>> /\ w \in pool.workers \ pool.exited
    /\ pool' = [pool EXCEPT !.exited = @ \cup {w}]
    /\ UNCHANGED <<state, shared, paused, node, source, sink, inFlight, delegated, wakeup, moved, todo, bounds>>

\* The count of claims, the statistics of the pool, by which it is idle, and
\* executor_task_completed.  An observer of both counts reads them in this order.
Completed(w) ==
    /\ At(w, "completed")
    /\ inFlight' = IF Arg(w) = "run" THEN inFlight - 1 ELSE inFlight
    /\ pool' = [pool EXCEPT !.running = @ - 1]
    /\ Go(w, RequestWakeup)
    /\ UNCHANGED <<state, shared, paused, node, source, sink, delegated, wakeup, moved, bounds>>

\* wake_source_on_worker: only the wake of the current generation counts.
Wake(w) ==
    /\ At(w, "wake")
    /\ IF source.generation # Arg(w) THEN Go(w, <<>>) /\ UNCHANGED source
       ELSE /\ source' = [source EXCEPT !.waiting = FALSE]
            /\ Go(w, <<<<"woken", "source">>>>)
    /\ UNCHANGED <<state, shared, paused, node, sink, inFlight, pool, delegated, wakeup, moved, bounds>>

Woken(w) ==
    /\ At(w, "woken")
    /\ Go(w, IF state \in Live /\ ~Stopped /\ ~source.done
             THEN <<<<"try", "source">>>> ELSE MaybeClose("source"))
    /\ UNCHANGED <<state, shared, paused, node, source, sink, inFlight, pool, delegated, wakeup, moved, bounds>>

---------------------------------------------------------------------------
(* One call: run_node, the outcome of Process, complete_invocation.         *)

FirstClaimed(n) ==
    CHOOSE i \in DOMAIN node[n].line :
        node[n].line[i] = "claimed" /\ \A j \in 1 .. i - 1 : node[n].line[j] # "claimed"

\* The claim that is run is the oldest; after a stop it is not run.
Run(t) ==
    /\ At(t, "run")
    /\ LET n == Arg(t)
       IN  /\ node' = [node EXCEPT ![n].line[FirstClaimed(n)] = t]
           /\ Go(t, <<IF Stopped THEN <<"land", n, "landed">> ELSE <<"process", n>>>>)
    /\ UNCHANGED <<state, shared, paused, source, sink, inFlight, pool, delegated, wakeup, moved, bounds>>

\* Process of the source returns: with or without a packet, with a request to be
\* called later (its own or that of its rate), or with the end of its stream.
Return(w) ==
    /\ At(w, "process") /\ Arg(w) = "source"
    /\ Spend("calls")
    /\ \/ /\ \E result \in {"landed", "emitted"} : Go(w, <<<<"land", "source", result>>>>)
          /\ UNCHANGED source
       \/ /\ source' = [source EXCEPT !.waiting = TRUE, !.reschedule = TRUE]
          /\ Go(w, <<<<"land", "source", "landed">>>>)
       \/ /\ source' = [source EXCEPT !.done = TRUE, !.waiting = FALSE, !.reschedule = FALSE]
          /\ Go(w, <<<<"land", "source", "landed">>>>)
    /\ UNCHANGED <<state, shared, paused, node, sink, inFlight, pool, delegated, wakeup, moved>>

\* Bounded: after the last call of its budget the source ends its stream.
LastReturn(w) ==
    /\ At(w, "process") /\ Arg(w) = "source" /\ bounds.calls = 0
    /\ source' = [source EXCEPT !.done = TRUE, !.waiting = FALSE, !.reschedule = FALSE]
    /\ Go(w, <<<<"land", "source", "landed">>>>)
    /\ UNCHANGED <<state, shared, paused, node, sink, inFlight, pool, delegated, wakeup, moved, bounds>>

\* ... or with an error.
Fail(t) ==
    /\ At(t, "process")
    /\ CountFailure(TRUE)
    /\ shared' = [shared EXCEPT !.error = TRUE]
    /\ Go(t, <<<<"land", Arg(t), "landed">>>>)
    /\ UNCHANGED <<state, paused, node, source, sink, inFlight, pool, delegated, wakeup, moved>>

SinkReturn ==
    /\ At(Host, "process")
    /\ Go(Host, <<<<"land", Arg(Host), "landed">>>>)
    /\ UNCHANGED <<state, shared, paused, node, source, sink, inFlight, pool, delegated, wakeup, moved, bounds>>

\* The result is registered; the thread that finds nobody flushing, and its
\* turn come, flushes what is due in the order of the claims.
Land(t) ==
    /\ At(t, "land")
    /\ LET n == Arg(t)
           line == [node[n].line EXCEPT ![CHOOSE i \in DOMAIN node[n].line : node[n].line[i] = t]
                        = Head(todo[t])[3]]
       IN  /\ node' = [node EXCEPT ![n].line = line, ![n].flushing = TRUE]
           /\ Go(t, (IF node[n].flushing THEN <<>> ELSE <<<<"flush", n>>>>) \o Finish(n))
    /\ UNCHANGED <<state, shared, paused, source, sink, inFlight, pool, delegated, wakeup, moved, bounds>>

Flush(t) ==
    /\ At(t, "flush")
    /\ LET n == Arg(t)
           line == node[n].line
       IN  CASE line # <<>> /\ line[1] = "emitted" /\ ~Stopped ->
                    /\ sink' = [sink EXCEPT !.backlog = @ + 1]
                    /\ Go(t, <<<<"try", "sink">>, <<"release", n>>>>)
                    /\ UNCHANGED node
             [] line # <<>> /\ (line[1] = "landed" \/ (line[1] = "emitted" /\ Stopped)) ->
                    /\ node' = [node EXCEPT ![n].line = Tail(@)]
                    /\ UNCHANGED <<todo, sink>>
             [] OTHER ->
                    /\ node' = [node EXCEPT ![n].flushing = FALSE]
                    /\ Go(t, <<>>) /\ UNCHANGED sink
    /\ UNCHANGED <<state, shared, paused, source, inFlight, pool, delegated, wakeup, moved, bounds>>

Release(t) ==
    /\ At(t, "release")
    /\ node' = [node EXCEPT ![Arg(t)].line = Tail(@)]
    /\ Go(t, <<<<"flush", Arg(t)>>>>)
    /\ UNCHANGED <<state, shared, paused, source, sink, inFlight, pool, delegated, wakeup, moved, bounds>>

Retire ==
    /\ At(Host, "retire")
    /\ inFlight' = inFlight - 1
    /\ Go(Host, <<>>)
    /\ UNCHANGED <<state, shared, paused, node, source, sink, pool, delegated, wakeup, moved, bounds>>

---------------------------------------------------------------------------
(* schedule_source_resumption: after the slot is free, the next wake.       *)

Resumption(t) ==
    /\ At(t, "resume?")
    /\ IF source.waiting /\ (Stopped \/ state \notin Live)
       THEN /\ source' = [source EXCEPT !.waiting = FALSE, !.reschedule = FALSE]
            /\ Go(t, <<>>)
       ELSE /\ Go(t, IF source.waiting THEN <<<<"reschedule">>>> ELSE <<>>)
            /\ UNCHANGED source
    /\ UNCHANGED <<state, shared, paused, node, sink, inFlight, pool, delegated, wakeup, moved, bounds>>

\* Mutated: the other calls of the source are not waited for.
RescheduleEarly(t) ==
    /\ At(t, "reschedule")
    /\ source' = [source EXCEPT !.reschedule = FALSE]
    /\ Go(t, IF source.reschedule THEN <<<<"generation">>>> ELSE <<>>)
    /\ UNCHANGED <<state, shared, paused, node, sink, inFlight, pool, delegated, wakeup, moved, bounds>>

\* Mutated: the request is taken before the other calls are looked at.
RescheduleTaken(t) ==
    /\ At(t, "reschedule")
    /\ IF node["source"].line # <<>> \/ node["source"].flushing
       THEN source' = [source EXCEPT !.reschedule = FALSE] /\ Go(t, <<>>)
       ELSE /\ source' = [source EXCEPT !.reschedule = FALSE]
            /\ Go(t, IF source.reschedule THEN <<<<"generation">>>> ELSE <<>>)
    /\ UNCHANGED <<state, shared, paused, node, sink, inFlight, pool, delegated, wakeup, moved, bounds>>

Reschedule(t) ==
    /\ At(t, "reschedule")
    /\ IF node["source"].line # <<>> \/ node["source"].flushing
       THEN Go(t, <<>>) /\ UNCHANGED source
       ELSE /\ source' = [source EXCEPT !.reschedule = FALSE]
            /\ Go(t, IF source.reschedule THEN <<<<"generation">>>> ELSE <<>>)
    /\ UNCHANGED <<state, shared, paused, node, sink, inFlight, pool, delegated, wakeup, moved, bounds>>

Generation(t) ==
    /\ At(t, "generation")
    /\ source' = [source EXCEPT !.generation = @ + 1]
    /\ Go(t, <<<<"delay", source.generation + 1>>>>)
    /\ UNCHANGED <<state, shared, paused, node, sink, inFlight, pool, delegated, wakeup, moved, bounds>>

\* submit_source_wake: a delay of zero is ready at once.
Delay(t) ==
    /\ At(t, "delay")
    /\ IF pool.stop THEN source' = [source EXCEPT !.waiting = FALSE] /\ UNCHANGED pool
       ELSE /\ \/ pool' = Enqueued(Arg(t))
               \/ pool' = [pool EXCEPT !.delayed = @ \cup {Arg(t)}]
            /\ UNCHANGED source
    /\ Go(t, <<>>)
    /\ UNCHANGED <<state, shared, paused, node, sink, inFlight, delegated, wakeup, moved, bounds>>

---------------------------------------------------------------------------
(* Closing: maybe_close, close_edge.                                        *)

CloseLook(t) ==
    /\ At(t, "close?")
    /\ Go(t, <<<<"close", Arg(t), Stopped>>>>)
    /\ UNCHANGED <<state, shared, paused, node, source, sink, inFlight, pool, delegated, wakeup, moved, bounds>>

Drained(n) ==
    IF n = "source" THEN source.done ELSE sink.inputClosed /\ sink.backlog = 0

\* Mutated: a node is closed while calls of it are outstanding.
CloseClaimBusy(t) ==
    /\ At(t, "close")
    /\ LET n == Arg(t)
           force == Head(todo[t])[3]
       IN  IF ~node[n].closeStarted /\ node[n].opened /\ (force \/ Drained(n))
           THEN /\ node' = [node EXCEPT ![n].closeStarted = TRUE]
                /\ sink' = IF force /\ n = "sink" THEN [sink EXCEPT !.backlog = 0] ELSE sink
                /\ Go(t, <<<<"closing", n>>>>)
           ELSE Go(t, <<>>) /\ UNCHANGED <<node, sink>>
    /\ UNCHANGED <<state, shared, paused, source, inFlight, pool, delegated, wakeup, moved, bounds>>

CloseClaim(t) ==
    /\ At(t, "close")
    /\ LET n == Arg(t)
           force == Head(todo[t])[3]
       IN  IF /\ ~node[n].closeStarted /\ node[n].line = <<>> /\ node[n].opened
              /\ force \/ Drained(n)
           THEN /\ node' = [node EXCEPT ![n].closeStarted = TRUE]
                /\ sink' = IF force /\ n = "sink" THEN [sink EXCEPT !.backlog = 0] ELSE sink
                /\ Go(t, <<<<"closing", n>>>>)
           ELSE Go(t, <<>>) /\ UNCHANGED <<node, sink>>
    /\ UNCHANGED <<state, shared, paused, source, inFlight, pool, delegated, wakeup, moved, bounds>>

\* Close returns; the output of the source is closed with it.
Close(t) ==
    /\ At(t, "closing")
    /\ \E fails \in BOOLEAN : CountFailure(fails) /\ shared' = [shared EXCEPT !.error = @ \/ fails]
    /\ node' = [node EXCEPT ![Arg(t)].closed = TRUE]
    /\ moved' = (moved \/ t = Host)
    /\ Go(t, IF Arg(t) = "source" THEN <<<<"end">>>> ELSE <<>>)
    /\ UNCHANGED <<state, paused, source, sink, inFlight, pool, delegated, wakeup>>

EndOfStream(t) ==
    /\ At(t, "end")
    /\ sink' = [sink EXCEPT !.inputClosed = TRUE]
    /\ Go(t, <<<<"try", "sink">>>> \o RequestWakeup)
    /\ UNCHANGED <<state, shared, paused, node, source, inFlight, pool, delegated, wakeup, moved, bounds>>

---------------------------------------------------------------------------
(* The host: start.                                                         *)

\* A graph whose start failed, or that was cancelled before, is not started.
Start ==
    /\ Idle(Host) /\ state = "Initialized" /\ ~Stopped
    /\ Spend("runs")
    /\ Call(Host, <<<<"open", "source">>, <<"open", "sink">>, <<"running">>, <<"try", "source">>>>)
    /\ UNCHANGED <<state, shared, paused, node, source, sink, inFlight, pool, delegated, wakeup, moved>>

\* The contexts of a node are filled and reset, and its kernel is opened unless
\* it was opened for an earlier run.
Open ==
    /\ At(Host, "open")
    /\ \E fails \in {FALSE, ~node[Arg(Host)].opened} :
          /\ CountFailure(fails)
          /\ shared' = [shared EXCEPT !.error = @ \/ fails]
          /\ node' = [node EXCEPT ![Arg(Host)].opened = @ \/ ~fails]
          /\ IF fails THEN Call(Host, <<>>) ELSE Go(Host, <<>>)
    /\ UNCHANGED <<state, paused, source, sink, inFlight, pool, delegated, wakeup, moved>>

Running ==
    /\ At(Host, "running")
    /\ state' = "Running"
    /\ pool' = [pool EXCEPT !.started = TRUE]
    /\ Go(Host, <<>>)
    /\ UNCHANGED <<shared, paused, node, source, sink, inFlight, delegated, wakeup, moved, bounds>>

---------------------------------------------------------------------------
(* The event loop: pump_step until it returns false.                        *)

PumpStep == <<<<"task">>, <<"ended">>>>

EventLoop ==
    /\ Idle(Host) /\ wakeup.posted
    /\ wakeup' = [wakeup EXCEPT !.posted = FALSE]
    /\ Call(Host, <<<<"pump">>>>)
    /\ UNCHANGED <<state, shared, paused, node, source, sink, inFlight, pool, delegated, moved, bounds>>

\* The generation of wakeups is read before the step.
Pump ==
    /\ At(Host, "pump")
    /\ wakeup' = [wakeup EXCEPT !.requested = FALSE]
    /\ moved' = FALSE
    /\ Go(Host, PumpStep \o <<<<"pumped">>>>)
    /\ UNCHANGED <<state, shared, paused, node, source, sink, inFlight, pool, delegated, bounds>>

\* A task that was delegated, or else an attempt to close each node.
Task ==
    /\ At(Host, "task")
    /\ IF delegated > 0
       THEN /\ delegated' = delegated - 1 /\ moved' = TRUE
            /\ Go(Host, <<<<"run", "sink">>, <<"retire">>>>)
       ELSE /\ Go(Host, MaybeClose("source") \o MaybeClose("sink"))
            /\ UNCHANGED <<delegated, moved>>
    /\ UNCHANGED <<state, shared, paused, node, source, sink, inFlight, pool, wakeup, bounds>>

\* The end of try_advance_closing.
Ended ==
    /\ At(Host, "ended")
    /\ state' = IF ~moved /\ AllClosed THEN "Terminated" ELSE state
    /\ Go(Host, <<>>)
    /\ UNCHANGED <<shared, paused, node, source, sink, inFlight, pool, delegated, wakeup, moved, bounds>>

\* A step without progress arms the next wakeup, and asks for one at once if
\* there was a request since the step began.
Pumped ==
    /\ At(Host, "pumped")
    /\ IF moved THEN Go(Host, <<<<"pump">>>>) /\ UNCHANGED wakeup
       ELSE /\ wakeup' = [wakeup EXCEPT !.pending = FALSE]
            /\ Go(Host, <<<<"again?">>>>)
    /\ UNCHANGED <<state, shared, paused, node, source, sink, inFlight, pool, delegated, moved, bounds>>

\* Mutated: a request during the step is not looked for.
RearmBlindly ==
    /\ At(Host, "again?")
    /\ Go(Host, <<>>)
    /\ UNCHANGED <<state, shared, paused, node, source, sink, inFlight, pool, delegated, wakeup, moved, bounds>>

Rearm ==
    /\ At(Host, "again?")
    /\ Go(Host, IF wakeup.requested \/ delegated > 0 THEN RequestWakeup ELSE <<>>)
    /\ UNCHANGED <<state, shared, paused, node, source, sink, inFlight, pool, delegated, wakeup, moved, bounds>>

\* The callback is replaced by another that posts to the same loop.
SetCallback ==
    /\ Idle(Host) /\ Spend("others")
    /\ wakeup' = [wakeup EXCEPT !.pending = FALSE]
    /\ Call(Host, IF delegated > 0 \/ Stopped \/ state = "Terminated" THEN RequestWakeup ELSE <<>>)
    /\ UNCHANGED <<state, shared, paused, node, source, sink, inFlight, pool, delegated, moved>>

---------------------------------------------------------------------------
(* wait_done, which pumps as well, and reset.                               *)

Wait == <<<<"wait">>>>

WaitDone ==
    /\ Idle(Host) /\ state \in Live /\ Spend("others")
    /\ Call(Host, Wait)
    /\ UNCHANGED <<state, shared, paused, node, source, sink, inFlight, pool, delegated, wakeup, moved>>

WaitStep ==
    /\ At(Host, "wait")
    /\ moved' = FALSE
    /\ Go(Host, PumpStep \o <<<<"done?">>>>)
    /\ UNCHANGED <<state, shared, paused, node, source, sink, inFlight, pool, delegated, wakeup, bounds>>

\* workers_idle reads the count of claims and then looks into the pool.
PoolIdle == pool.ready = <<>> /\ pool.delayed = {} /\ pool.running = 0

WaitLook ==
    /\ At(Host, "done?")
    /\ Go(Host, IF moved THEN Wait
                ELSE IF AllClosed /\ inFlight = 0 THEN <<<<"idle?">>>>
                ELSE <<<<"more?">>>>)
    /\ UNCHANGED <<state, shared, paused, node, source, sink, inFlight, pool, delegated, wakeup, moved, bounds>>

WaitIdle ==
    /\ At(Host, "idle?")
    /\ state' = IF PoolIdle THEN "Terminated" ELSE state
    /\ Go(Host, IF PoolIdle THEN <<>> ELSE <<<<"more?">>>>)
    /\ UNCHANGED <<shared, paused, node, source, sink, inFlight, pool, delegated, wakeup, moved, bounds>>

\* Nothing to do now: it waits for activity, at most for a while, and looks
\* again; or it gives up, at its deadline or because the graph is stuck.
WaitMore ==
    /\ At(Host, "more?")
    /\ \/ Go(Host, Wait)
       \/ Go(Host, <<>>)
    /\ UNCHANGED <<state, shared, paused, node, source, sink, inFlight, pool, delegated, wakeup, moved, bounds>>

\* Mutated: reset only asks for the state.
QuiescentByState == state = "Terminated"

Quiescent == state = "Terminated" /\ inFlight = 0 /\ PoolIdle

Reset ==
    /\ Idle(Host) /\ Quiescent
    /\ bounds.runs > 0
    /\ Call(Host, <<<<"clear">>, <<"renew">>, <<"initialized">>>>)
    /\ UNCHANGED <<state, shared, paused, node, source, sink, inFlight, pool, delegated, wakeup, moved, bounds>>

ClearShared ==
    /\ At(Host, "clear")
    /\ shared' = [error |-> FALSE, cancelled |-> FALSE]
    /\ Go(Host, <<>>)
    /\ UNCHANGED <<state, paused, node, source, sink, inFlight, pool, delegated, wakeup, moved, bounds>>

\* All but the flags and the state, while nothing else runs.
Renew ==
    /\ At(Host, "renew")
    /\ node' = [n \in Nodes |-> NewSched(node[n].opened)]
    /\ source' = [waiting |-> FALSE, reschedule |-> FALSE, done |-> FALSE,
                  generation |-> source.generation + 1]
    /\ sink' = [backlog |-> 0, inputClosed |-> FALSE]
    /\ pool' = [pool EXCEPT !.delayed = {}]
    /\ inFlight' = 0 /\ delegated' = 0 /\ paused' = FALSE
    /\ wakeup' = [wakeup EXCEPT !.pending = FALSE, !.requested = FALSE]
    /\ Go(Host, <<>>)
    /\ UNCHANGED <<state, shared, moved, bounds>>

Initialized ==
    /\ At(Host, "initialized")
    /\ state' = "Initialized"
    /\ Go(Host, <<>>)
    /\ UNCHANGED <<shared, paused, node, source, sink, inFlight, pool, delegated, wakeup, moved, bounds>>

---------------------------------------------------------------------------
(* pause, resume, cancel, and the end of the graph.                         *)

Pause ==
    /\ Idle(Host) /\ state \in Live /\ ~paused /\ Spend("others")
    /\ paused' = TRUE
    /\ UNCHANGED <<state, shared, node, source, sink, inFlight, pool, delegated, wakeup, moved, todo>>

\* The host does not resume a graph between reset and start: it would run.
Resume ==
    /\ Idle(Host) /\ paused /\ state # "Initialized"
    /\ paused' = FALSE
    /\ Call(Host, <<<<"try", "source">>, <<"try", "sink">>>>)
    /\ UNCHANGED <<state, shared, node, source, sink, inFlight, pool, delegated, wakeup, moved, bounds>>

Cancel ==
    /\ Idle(Host) /\ state \in Live /\ ~shared.cancelled
    /\ Spend("cancels")
    /\ Call(Host, CancelSteps)
    /\ UNCHANGED <<state, shared, paused, node, source, sink, inFlight, pool, delegated, wakeup, moved>>

SetCancelled ==
    /\ At(Host, "cancelled")
    /\ shared' = [shared EXCEPT !.cancelled = TRUE]
    /\ Go(Host, <<>>)
    /\ UNCHANGED <<state, paused, node, source, sink, inFlight, pool, delegated, wakeup, moved, bounds>>

\* The source no longer waits, and its wakes are of an old generation.
Invalidate ==
    /\ At(Host, "invalidate")
    /\ source' = [source EXCEPT !.waiting = FALSE, !.generation = @ + 1]
    /\ Go(Host, <<>>)
    /\ UNCHANGED <<state, shared, paused, node, sink, inFlight, pool, delegated, wakeup, moved, bounds>>

Forget ==
    /\ At(Host, "forget")
    /\ pool' = [pool EXCEPT !.delayed = {}]
    /\ Go(Host, <<>>)
    /\ UNCHANGED <<state, shared, paused, node, source, sink, inFlight, delegated, wakeup, moved, bounds>>

\* Dropping a graph cancels it and waits, unless it has terminated, and joins
\* the workers; a node that is still open is closed.
Free ==
    /\ Idle(Host)
    /\ IF state = "Terminated" THEN UNCHANGED bounds ELSE Spend("cancels")
    /\ Call(Host, (IF state = "Terminated" THEN <<>> ELSE CancelSteps \o Wait)
                  \o <<<<"stop">>, <<"join">>, <<"drop">>, <<"freed">>>>)
    /\ UNCHANGED <<state, shared, paused, node, source, sink, inFlight, pool, delegated, wakeup, moved>>

StopPool ==
    /\ At(Host, "stop")
    /\ pool' = [pool EXCEPT !.stop = TRUE]
    /\ Go(Host, <<>>)
    /\ UNCHANGED <<state, shared, paused, node, source, sink, inFlight, delegated, wakeup, moved, bounds>>

Join ==
    /\ At(Host, "join") /\ (pool.started => pool.exited = pool.workers)
    /\ Go(Host, <<>>)
    /\ UNCHANGED <<state, shared, paused, node, source, sink, inFlight, pool, delegated, wakeup, moved, bounds>>

Drop ==
    /\ At(Host, "drop")
    /\ node' = [n \in Nodes |-> [node[n] EXCEPT !.closed = @ \/ (node[n].opened /\ ~node[n].closeStarted)]]
    /\ Go(Host, <<>>)
    /\ UNCHANGED <<state, shared, paused, source, sink, inFlight, pool, delegated, wakeup, moved, bounds>>

---------------------------------------------------------------------------

\* A call that may be made by any thread, of the pool or of the host.
Step(t) ==
    \/ Try(t) \/ Claim(t) \/ Submit(t) \/ Request(t) \/ Arm(t)
    \/ Run(t) \/ Fail(t) \/ Land(t) \/ Flush(t) \/ Release(t)
    \/ CloseLook(t) \/ CloseClaim(t) \/ Close(t) \/ EndOfStream(t)

WorkerStep(w) ==
    \/ Take(w) \/ Exit(w) \/ Completed(w) \/ Wake(w) \/ Woken(w)
    \/ Return(w) \/ LastReturn(w)
    \/ Resumption(w) \/ Reschedule(w) \/ Generation(w) \/ Delay(w)

HostStep ==
    \/ Start \/ Open \/ Running
    \/ EventLoop \/ Pump \/ Task \/ Ended \/ Pumped \/ Rearm \/ SetCallback \/ SinkReturn \/ Retire
    \/ WaitDone \/ WaitStep \/ WaitLook \/ WaitIdle \/ WaitMore
    \/ Reset \/ ClearShared \/ Renew \/ Initialized
    \/ Cancel \/ SetCancelled \/ Invalidate \/ Forget
    \/ Pause \/ Resume \/ Free \/ StopPool \/ Join \/ Drop

Next ==
    \/ \E t \in Threads : Step(t)
    \/ \E w \in Workers : WorkerStep(w)
    \/ HostStep

Spec == Init /\ [][Next]_vars

---------------------------------------------------------------------------
(* Properties.                                                              *)

Freed == At(Host, "freed")
Quiet == \A t \in Threads : Idle(t)
InCall(t, n) == At(t, "process") /\ Arg(t) = n
Queued == {pool.ready[i] : i \in DOMAIN pool.ready} \cup pool.delayed
Wakes == Queued \ {RunTask}

\* The callbacks of a kernel: Process only between Open and Close, of a graph
\* that was started, and Close alone; Open, which fills all the contexts, only
\* while no call is outstanding.
CallbacksExclude ==
    /\ \A t \in Threads, n \in Nodes :
          InCall(t, n) => node[n].opened /\ ~node[n].closeStarted /\ state \in Live
    /\ \A n \in Nodes : node[n].closeStarted => node[n].line = <<>>
    /\ At(Host, "open") => inFlight = 0 /\ \A n \in Nodes : node[n].line = <<>>

\* A source that asked to be called later is left alone until its wake: while
\* the current wake is in the pool, no call of the source is outstanding.
SourceRests ==
    source.generation \in Wakes /\ ~Stopped => node["source"].line = <<>>

\* A running source is never forgotten: when no thread has anything left to
\* do, it has a call or a current wake in the pool.
SourceIsKept ==
    Quiet /\ state \in Live /\ node["source"].opened /\ ~Stopped /\ ~paused /\ ~source.done =>
        RunTask \in Queued \/ source.generation \in Wakes

\* The event loop is never left asleep: when no thread has anything left to
\* do and a pump would do something, the callback has posted.
PumpHasWork ==
    \/ delegated > 0
    \/ AllClosed
    \/ \E n \in Nodes : /\ node[n].opened /\ ~node[n].closeStarted /\ node[n].line = <<>>
                        /\ Stopped \/ Drained(n)
HostIsCalled == Quiet /\ state \in Live /\ PumpHasWork => wakeup.posted

\* A graph that was reset carries nothing over from the run before, and a
\* graph that was freed has closed every kernel it opened.
NothingCarriedOver ==
    /\ state = "Initialized" /\ ~Stopped =>
          /\ Queued = {} /\ pool.running = 0 /\ inFlight = 0 /\ delegated = 0
          /\ ~source.waiting /\ ~source.done /\ sink.backlog = 0 /\ ~sink.inputClosed
    /\ Freed => \A n \in Nodes : node[n].opened => node[n].closed
=============================================================================
