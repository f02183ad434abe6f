------------------------------- MODULE Poller -------------------------------
(***************************************************************************)
(* A bounded output queue of lm-flow (graph/poller.rs): the threads that   *)
(* read it with `next`, `next_timeout`, `try_next` and `try_next_result`,  *)
(* the dispatch that pushes into it under one of four overflow policies,   *)
(* and the drop of the poller, a cancel and a reset beside them.           *)
(*                                                                         *)
(* The producer is one job after another of the node behind the output:    *)
(* each pushes a batch of packets, the last closes the edge.  A job runs   *)
(* on the pool or, with a delegating executor, inside a reader's           *)
(* pump_step.                                                              *)
(***************************************************************************)
EXTENDS Activity, Sequences, Integers

CONSTANTS
    Pool,          \* the worker that runs jobs; the other threads read
    Nobody,        \* no job is running
    Policies,      \* overflow policies to check
    Capacity,      \* PollerOptions::capacity
    Batches,       \* how many packets a job pushes
    Delegation,    \* whether jobs are delegated to the host
    MaxPackets,    \* packets of a run of the graph
    MaxRuns        \* runs: one more than resets

ASSUME PollerAssumption ==
    /\ Pool \in Threads /\ Nobody \notin Threads
    /\ Policies \subseteq {"Block", "DropOldest", "DropNewest", "Latest"}
    /\ Capacity \in Nat \ {0} /\ MaxPackets \in Nat /\ MaxRuns \in Nat
    /\ Batches \subseteq Nat \ {0}
    /\ Delegation \subseteq BOOLEAN
    /\ "Latest" \in Policies => Capacity = 1

Readers == Threads \ {Pool}

VARIABLES
    options,     \* policy, batch, delegated, limit (block_timeout is given)
    queue, closed, active,        \* PollerInner
    total,                        \* GraphShared::total_queued
    error, cancelled,             \* GraphShared
    pc, kind,                     \* label and kind of each reader's call
    runner, step,                 \* the thread that runs a job, and its label
    packet, left, any,            \* dispatch: current packet, packets left, `any`
    drop, cancel, reset, run,     \* progress of drop, cancel and reset
    popped, ended,                \* history: newest packet taken, end was told
    late, strays                  \* history: readers that carried something over into
                                  \* this run, and packets so subtracted from its count

inner == <<queue, closed, active>>
shared == <<total, error, cancelled>>
reader == <<pc, kind>>
dispatch == <<runner, step, packet, left, any>>
host == <<drop, cancel, reset, run>>
history == <<popped, ended, late, strays>>
vars == <<options, inner, shared, activity, reader, dispatch, host, history>>

ReaderPCs == {"idle", "capture", "pop", "taken", "error", "closed", "final", "cancelled",
              "pump", "pumping", "wait", "asleep"}
Steps == {"none", "begin", "lock", "stall", "sleep", "asleep", "announce", "close",
          "finish", "release"}

QueueTypeOK ==
    /\ options \in [policy : Policies, batch : Batches, delegated : Delegation,
                    limit : BOOLEAN]
    /\ queue \in Seq(1 .. MaxPackets)
    /\ closed \in BOOLEAN /\ active \in BOOLEAN
    /\ total \in Nat /\ error \in BOOLEAN /\ cancelled \in BOOLEAN
    /\ popped \in 0 .. MaxPackets /\ ended \in BOOLEAN
    /\ late \subseteq Readers /\ strays \in Nat

ReaderTypeOK ==
    /\ pc \in [Readers -> ReaderPCs]
    /\ kind \in [Readers -> {"next", "try"}]

DispatchTypeOK ==
    /\ runner \in Threads \cup {Nobody} /\ step \in Steps
    /\ packet \in 0 .. MaxPackets /\ left \in 0 .. MaxPackets /\ any \in BOOLEAN

HostTypeOK ==
    /\ drop \in {"no", "inactive", "cleared", "done"}
    /\ cancel \in {"no", "set", "done"}
    /\ reset \in {"no", "clear", "reopen", "waiters", "start"}
    /\ run \in Nat

TypeOK == ActivityTypeOK /\ QueueTypeOK /\ ReaderTypeOK /\ DispatchTypeOK /\ HostTypeOK

\* A poller is added before start(); this is the graph just started.
Init ==
    /\ ActivityInit
    /\ options \in [policy : Policies, batch : Batches, delegated : Delegation,
                    limit : BOOLEAN]
    /\ options.limit => options.policy = "Block"
    /\ queue = <<>> /\ closed = FALSE /\ active = TRUE
    /\ total = 0 /\ error = FALSE /\ cancelled = FALSE
    /\ pc = [t \in Readers |-> "idle"]
    /\ kind = [t \in Readers |-> "next"]
    /\ runner = Nobody /\ step = "none"
    /\ packet = 0 /\ left = 0 /\ any = FALSE
    /\ drop = "no" /\ cancel = "no" /\ reset = "no" /\ run = 1
    /\ popped = 0 /\ ended = FALSE /\ late = {} /\ strays = 0

---------------------------------------------------------------------------
(* Reading: next_deadline and try_next_result.                             *)

Goto(t, label) == pc' = [pc EXCEPT ![t] = label]

\* The call of t returns; `kind` is that of a running call.
Return(t) == Goto(t, "idle") /\ kind' = [kind EXCEPT ![t] = "next"]

Jump(t, label) == Goto(t, label) /\ UNCHANGED kind

Call(t) ==
    /\ pc[t] = "idle" /\ drop = "no"
    /\ \E k \in {"next", "try"} :
          /\ kind' = [kind EXCEPT ![t] = k]
          /\ Goto(t, IF k = "try" THEN "pop" ELSE "capture")
    /\ UNCHANGED <<options, inner, shared, activity, dispatch, host, history>>

\* The generation is captured before anything is looked at.
CaptureGen(t) ==
    /\ pc[t] = "capture"
    /\ Capture(t) /\ Goto(t, "pop")
    /\ UNCHANGED <<options, inner, shared, kind, dispatch, host, history>>

Pop(t) ==
    /\ pc[t] \in {"pop", "final"} /\ queue # <<>>
    /\ queue' = Tail(queue) /\ popped' = Head(queue)
    /\ late' = late \ {t}
    /\ Goto(t, "taken")
    /\ UNCHANGED <<options, closed, active, shared, activity, kind, dispatch, host, ended,
                   strays>>

\* Mutant of Minus: the count may go below zero.
MinusUnchecked(a, b) == a - b

\* on_dequeue subtracts without going below zero.
Minus(a, b) == IF a < b THEN 0 ELSE a - b

\* The readers on their way from the queue to on_dequeue; those who were there
\* before the run began are late.
Taken == {t \in Readers : pc[t] = "taken"}

\* The packet is accounted for, and announced, after the queue is unlocked.
Settle(t) ==
    /\ pc[t] = "taken"
    /\ total' = Minus(total, 1)
    /\ strays' = IF t \in late THEN strays + 1 ELSE strays
    /\ late' = late \ {t}
    /\ Notify
    /\ Return(t)
    /\ UNCHANGED <<options, inner, error, cancelled, dispatch, host, popped, ended>>

\* Nothing in the queue: at the final pop, that is the end of the stream.
Empty(t) ==
    /\ pc[t] \in {"pop", "final"} /\ queue = <<>>
    /\ \/ pc[t] = "final" /\ Return(t)
       \/ pc[t] = "pop" /\ Jump(t, "error")
       \/ pc[t] = "pop" /\ kind[t] = "try" /\ Return(t)    \* try_next
    /\ ended' = (ended \/ (pc[t] = "final" /\ t \notin late))
    /\ late' = late \ {t}
    /\ UNCHANGED <<options, inner, shared, activity, dispatch, host, popped, strays>>

CheckError(t) ==
    /\ pc[t] = "error"
    /\ IF error THEN Return(t) ELSE Jump(t, "closed")
    /\ UNCHANGED <<options, inner, shared, activity, dispatch, host, history>>

\* Mutant of CheckClosed: a closed edge is taken for an empty queue.
CheckClosedEnds(t) ==
    /\ pc[t] = "closed"
    /\ \/ (closed \/ kind[t] = "try") /\ Return(t)
       \/ ~closed /\ kind[t] = "next" /\ Jump(t, "cancelled")
    /\ ended' = (ended \/ closed)
    /\ UNCHANGED <<options, inner, shared, activity, dispatch, host, popped, late, strays>>

CheckClosed(t) ==
    /\ pc[t] = "closed"
    /\ \/ closed /\ Jump(t, "final")
       \/ ~closed /\ kind[t] = "try" /\ Return(t)
       \/ ~closed /\ kind[t] = "next" /\ Jump(t, "cancelled")
    /\ UNCHANGED <<options, inner, shared, activity, dispatch, host, history>>

\* A call with a deadline may find, here and before it sleeps, that it has passed.
CheckCancelled(t) ==
    /\ pc[t] = "cancelled"
    /\ Return(t) \/ (~cancelled /\ Jump(t, "pump"))
    /\ UNCHANGED <<options, inner, shared, activity, dispatch, host, history>>

---------------------------------------------------------------------------
(* Jobs: run_node up to the dispatch, and close_edge_committed.            *)

NoJob == runner = Nobody /\ reset = "no"

CanRun(t) ==
    /\ NoJob /\ ~closed /\ ~error /\ ~cancelled /\ packet < MaxPackets
    /\ options.delegated = (t # Pool)

\* The node closes when its input has ended, or the graph has been stopped.
CanClose == NoJob /\ ~closed /\ (packet = MaxPackets \/ error \/ cancelled)

RunJob(t) ==
    /\ CanRun(t)
    /\ runner' = t
    /\ \/ /\ step' = "begin" /\ packet' = packet + 1
          /\ left' = IF options.batch < MaxPackets - packet THEN options.batch
                     ELSE MaxPackets - packet
          /\ any' = FALSE /\ UNCHANGED error
       \/ /\ step' = "finish" /\ error' = TRUE    \* Process fails
          /\ UNCHANGED <<packet, left, any>>

CloseJob(t) ==
    /\ CanClose
    /\ runner' = t /\ step' = "close"
    /\ UNCHANGED <<error, packet, left, any>>

PoolStarts ==
    /\ RunJob(Pool) \/ CloseJob(Pool)
    /\ UNCHANGED <<options, inner, total, cancelled, activity, reader, host, history>>

\* pump_step runs a delegated job or advances the close.
Pump(t) ==
    /\ pc[t] = "pump"
    /\ RunJob(t) \/ CloseJob(t)
    /\ Goto(t, "pumping")
    /\ UNCHANGED <<options, inner, total, cancelled, activity, kind, host, history>>

\* There is nothing to run, or another thread is running it.
NothingToPump(t) ==
    /\ pc[t] = "pump" /\ ~CanRun(t) /\ ~CanClose
    /\ Goto(t, "wait")
    /\ UNCHANGED <<options, inner, shared, activity, kind, dispatch, host, history>>

\* Mutant of Wait: the generation is captured too late, just before the wait.
WaitLate(t) ==
    /\ pc[t] = "wait"
    /\ current' = [current EXCEPT ![t] = TRUE]
    /\ sleep' = [sleep EXCEPT ![t] = "asleep"]
    /\ waiters' = waiters + 1
    /\ Jump(t, "asleep")
    /\ UNCHANGED <<options, inner, shared, forgotten, dispatch, host, history>>

Wait(t) ==
    /\ pc[t] = "wait"
    /\ \/ FallAsleep(t) /\ Jump(t, "asleep")
       \/ ~current[t] /\ Jump(t, "capture") /\ UNCHANGED activity
       \/ Return(t) /\ UNCHANGED activity
    /\ UNCHANGED <<options, inner, shared, dispatch, host, history>>

Awake(t) ==
    /\ pc[t] = "asleep" /\ WakeUp(t) /\ Goto(t, "capture")
    /\ UNCHANGED <<options, inner, shared, kind, dispatch, host, history>>

Notified(t) == sleep[t] = "notified" /\ Awake(t)

\* The poll cap, or the deadline, of the wait has passed.
TimedOut(t) == sleep[t] = "asleep" /\ Awake(t)

---------------------------------------------------------------------------
(* push, called by dispatch for every packet of the batch.                 *)

Pushing == step \in {"begin", "lock", "stall", "sleep", "asleep"}

\* push returns; dispatch goes on to the next packet or announces the batch.
PushReturns(pushed) ==
    /\ left' = left - 1
    /\ IF left > 1
       THEN step' = "begin" /\ packet' = packet + 1 /\ any' = (any \/ pushed)
       ELSE /\ step' = IF any \/ pushed THEN "announce" ELSE "finish"
            /\ any' = FALSE /\ UNCHANGED packet
    /\ UNCHANGED runner

NextStep(label) ==
    /\ step' = label
    /\ UNCHANGED <<runner, packet, left, any>>

Begin ==
    /\ step = "begin"
    /\ \/ active /\ Capture(runner) /\ NextStep("lock")
       \/ ~active /\ PushReturns(FALSE) /\ UNCHANGED activity
    /\ UNCHANGED <<options, inner, shared, reader, host, history>>

\* Mutant of Full: one packet too many fits.
FullLate == Len(queue) > Capacity

Full == Len(queue) >= Capacity

Enqueue ==
    /\ step = "lock" /\ active /\ ~Full
    /\ queue' = Append(queue, packet) /\ total' = total + 1
    /\ PushReturns(TRUE)
    /\ UNCHANGED <<options, closed, active, error, cancelled, activity, reader, host, history>>

\* The queue was cleared for good while the push was on its way.
Inactive ==
    /\ step = "lock" /\ ~active
    /\ PushReturns(FALSE)
    /\ UNCHANGED <<options, inner, shared, activity, reader, host, history>>

\* What remains in a full queue to make room under the lossy policies.
Kept == IF options.policy = "DropOldest" THEN Tail(queue) ELSE <<>>

\* Mutant of Replace: what is dropped stays in the count.
ReplaceUncounted ==
    /\ step = "lock" /\ active /\ Full
    /\ options.policy \in {"DropOldest", "Latest"}
    /\ queue' = Append(Kept, packet)
    /\ total' = total + 1
    /\ PushReturns(TRUE)
    /\ UNCHANGED <<options, closed, active, error, cancelled, activity, reader, host, history>>

Replace ==
    /\ step = "lock" /\ active /\ Full
    /\ options.policy \in {"DropOldest", "Latest"}
    /\ queue' = Append(Kept, packet)
    /\ total' = Minus(total, Len(queue) - Len(Kept)) + 1
    /\ PushReturns(TRUE)
    /\ UNCHANGED <<options, closed, active, error, cancelled, activity, reader, host, history>>

DropNewest ==
    /\ step = "lock" /\ active /\ Full /\ options.policy = "DropNewest"
    /\ PushReturns(FALSE)
    /\ UNCHANGED <<options, inner, shared, activity, reader, host, history>>

Block ==
    /\ step = "lock" /\ active /\ Full /\ options.policy = "Block"
    /\ NextStep("stall")
    /\ UNCHANGED <<options, inner, shared, activity, reader, host, history>>

Stopped == ~active \/ cancelled \/ error

GiveUp ==
    /\ step = "stall" /\ Stopped
    /\ PushReturns(FALSE)
    /\ UNCHANGED <<options, inner, shared, activity, reader, host, history>>

\* block_timeout has passed: a loud failure.
Expire ==
    /\ step = "stall" /\ ~Stopped /\ options.limit
    /\ error' = TRUE
    /\ PushReturns(FALSE)
    /\ UNCHANGED <<options, inner, total, cancelled, activity, reader, host, history>>

Stall ==
    /\ step = "stall" /\ ~Stopped
    /\ NextStep("sleep")
    /\ UNCHANGED <<options, inner, shared, activity, reader, host, history>>

PushWaits ==
    /\ step = "sleep"
    /\ \/ FallAsleep(runner) /\ NextStep("asleep")
       \/ ~current[runner] /\ NextStep("begin") /\ UNCHANGED activity
    /\ UNCHANGED <<options, inner, shared, reader, host, history>>

PushAwake ==
    /\ step = "asleep" /\ WakeUp(runner) /\ NextStep("begin")
    /\ UNCHANGED <<options, inner, shared, reader, host, history>>

PushNotified == step = "asleep" /\ sleep[runner] = "notified" /\ PushAwake
PushTimedOut == step = "asleep" /\ sleep[runner] = "asleep" /\ PushAwake

\* The notification of dispatch, then that of the end of the job.
Announce ==
    /\ step \in {"announce", "finish"}
    /\ Notify
    /\ NextStep(IF step = "announce" THEN "finish" ELSE "release")
    /\ UNCHANGED <<options, inner, shared, reader, host, history>>

Close ==
    /\ step = "close"
    /\ closed' = TRUE /\ NextStep("finish")
    /\ UNCHANGED <<options, queue, active, shared, activity, reader, host, history>>

\* A reader that ran the job goes round its loop.
Release ==
    /\ step = "release"
    /\ runner' = Nobody /\ step' = "none"
    /\ pc' = [t \in Readers |-> IF t = runner THEN "capture" ELSE pc[t]]
    /\ UNCHANGED <<options, inner, shared, activity, kind, packet, left, any, host, history>>

---------------------------------------------------------------------------
(* The host: cancel, drop of the poller, reset and the next start.         *)

Cancel ==
    /\ cancel = "no" /\ reset = "no"
    /\ cancelled' = TRUE /\ cancel' = "set"
    /\ UNCHANGED <<options, inner, total, error, activity, reader, dispatch, drop, reset,
                   run, history>>

\* Mutant of CancelAnnounced: a cancel tells nobody.
CancelSilently ==
    /\ cancel = "set" /\ cancel' = "done"
    /\ UNCHANGED <<options, inner, shared, activity, reader, dispatch, drop, reset, run,
                   history>>

CancelAnnounced ==
    /\ cancel = "set" /\ cancel' = "done"
    /\ Notify
    /\ UNCHANGED <<options, inner, shared, reader, dispatch, drop, reset, run, history>>

\* The owner of a poller drops it when no reader borrows it.
Drop ==
    /\ drop = "no" /\ reset = "no" /\ \A t \in Readers : pc[t] = "idle"
    /\ active' = FALSE /\ drop' = "inactive"
    /\ UNCHANGED <<options, queue, closed, shared, activity, reader, dispatch, cancel, reset,
                   run, history>>

Cleared ==
    /\ queue' = <<>>
    /\ total' = Minus(total, Len(queue))

Clear ==
    /\ drop = "inactive" /\ drop' = "cleared"
    /\ Cleared
    /\ UNCHANGED <<options, closed, active, error, cancelled, activity, reader, dispatch,
                   cancel, reset, run, history>>

DropAnnounced ==
    /\ drop = "cleared" /\ drop' = "done"
    /\ Notify
    /\ UNCHANGED <<options, inner, shared, reader, dispatch, cancel, reset, run, history>>

\* reset refuses a graph that is not terminated and idle.  It waits for no reader:
\* from here to the next start, each may be anywhere in its call but in a job.
Reset ==
    /\ reset = "no" /\ closed /\ runner = Nobody
    /\ cancel # "set" /\ drop \in {"no", "done"} /\ run < MaxRuns
    /\ reset' = "clear"
    /\ total' = 0 /\ error' = FALSE /\ cancelled' = FALSE
    /\ UNCHANGED <<options, inner, activity, reader, dispatch, drop, cancel, run, history>>

ResetQueue ==
    /\ reset = "clear" /\ reset' = "reopen"
    /\ Cleared /\ Notify
    /\ UNCHANGED <<options, closed, active, error, cancelled, reader, dispatch, drop, cancel,
                   run, history>>

ResetClosed ==
    /\ reset = "reopen" /\ reset' = "waiters"
    /\ closed' = FALSE
    /\ UNCHANGED <<options, queue, active, shared, activity, reader, dispatch, drop, cancel,
                   run, history>>

ResetWaiters ==
    /\ reset = "waiters" /\ reset' = "start"
    /\ ForgetWaiters
    /\ UNCHANGED <<options, inner, shared, reader, dispatch, drop, cancel, run, history>>

\* The next start; it announces the first tasks.
Start ==
    /\ reset = "start" /\ reset' = "no"
    /\ run' = run + 1 /\ cancel' = "no"
    /\ packet' = 0 /\ popped' = 0 /\ ended' = FALSE
    /\ late' = {t \in Readers : pc[t] \in {"taken", "final"}} /\ strays' = 0
    /\ Notify
    /\ UNCHANGED <<options, inner, shared, reader, runner, step, left, any, drop>>

---------------------------------------------------------------------------

\* What a reader inside a call does next.
Read(t) ==
    \/ CaptureGen(t) \/ Pop(t) \/ Settle(t) \/ Empty(t)
    \/ CheckError(t) \/ CheckClosed(t) \/ CheckCancelled(t)
    \/ Pump(t) \/ NothingToPump(t) \/ Wait(t) \/ Notified(t)

Push ==
    \/ Begin \/ Enqueue \/ Inactive \/ Replace \/ DropNewest \/ Block
    \/ GiveUp \/ Expire \/ Stall \/ PushWaits \/ PushNotified

Produce == Push \/ PoolStarts \/ Announce \/ Close \/ Release

Host ==
    \/ CancelAnnounced \/ Clear \/ DropAnnounced
    \/ ResetQueue \/ ResetClosed \/ ResetWaiters

Next ==
    \/ \E t \in Readers : Call(t) \/ Read(t) \/ TimedOut(t)
    \/ Produce \/ PushTimedOut \/ Host
    \/ Cancel \/ Drop \/ Reset \/ Start

Spec == Init /\ [][Next]_vars

\* Progress must not depend on the time-outs of the waits, which merely poll,
\* except where a push may keep the reader that runs it from reading, where
\* dispatch announces a batch only at its end, or where a reset forgot sleepers.
NeedsTimeouts == options.delegated \/ options.batch > 1 \/ forgotten > 0

(***************************************************************************)
(* Threads inside the engine go on, a signalled waiter wakes up.  Time only *)
(* passes for a push that has a time limit, or after a reset that forgot      *)
(* sleepers: every sleep is capped (50 ms for a reader, 100 ms for a push).   *)
(***************************************************************************)
FairSpec ==
    /\ Spec
    /\ \A t \in Readers : WF_vars(Read(t)) /\ WF_vars(NeedsTimeouts /\ TimedOut(t))
    /\ WF_vars(Produce) /\ WF_vars(Host)
    /\ WF_vars((options.limit \/ forgotten > 0) /\ PushTimedOut) /\ SF_vars(Expire)

---------------------------------------------------------------------------
(* Properties.                                                             *)

\* What the watermark ought to count: the packets in the queue, and those of this
\* run that a reader has taken but not yet accounted for.
Due == Taken \ late
Held == Len(queue) + Cardinality(Due)

(***************************************************************************)
(* The global watermark is exact, whatever overflows, is dropped or cleared *)
(* in between (on_enqueue, on_dequeue).  A reader that takes a packet into   *)
(* the next run subtracts it there, where it was never added: the count may  *)
(* fall short by those packets, by no more, and never exceeds.               *)
(***************************************************************************)
TotalWithinStrays ==
    /\ reset = "no" => total \in Held - strays .. Held
    /\ reset # "no" => total = 0

\* Nothing more is or will be in a queue whose readers have been told the end
\* of the stream; under Block, in an undisturbed run, all of it was read
\* (the comment on the final pop of next_deadline).  A reader that had seen the
\* previous run closed tells the end of that one.
EndIsFinal ==
    ended /\ reset = "no" =>
        /\ closed /\ queue = <<>>
        /\ options.policy = "Block" /\ active /\ ~error /\ ~cancelled
              => popped = MaxPackets

\* A dispatch under way does not leave packets in a dropped poller (the second
\* look at `active`, under the queue lock).
DroppedStaysEmpty == drop \in {"cleared", "done"} => queue = <<>>

\* Readers take packets in order, whatever is dropped in between, and a bounded
\* queue stays within its capacity.
StreamInOrder ==
    /\ Len(queue) <= Capacity
    /\ \A i \in 1 .. Len(queue) - 1 : queue[i] < queue[i + 1]
    /\ queue # <<>> => popped < Head(queue)

\* A call to next or try_next returns, if the output still produces, without
\* the help of the poll cap (no_limit delegated pushes are documented to hang), or
\* waits for the next start after a reset.
CallsReturn ==
    options.limit \/ ~options.delegated =>
        \A t \in Readers : pc[t] # "idle" /\ reset = "no" ~> pc[t] = "idle" \/ reset # "no"

\* A push into a full poller ends: at its time limit, at a cancel, or when the
\* poller is dropped (docs/design.md 7.5).
PushesEnd == Pushing /\ (options.limit \/ cancel = "done" \/ drop = "done") ~> ~Pushing

---------------------------------------------------------------------------
(* The parts of the inductive invariant (PollerProofs).                    *)

\* A job has a thread; a batch has packets left exactly while one is pushed.
JobInv ==
    /\ step = "none" <=> runner = Nobody
    /\ \A t \in Readers : pc[t] = "pumping" <=> runner = t
    /\ left > 0 <=> Pushing
    /\ Pushing => packet > 0 /\ packet + left - 1 <= MaxPackets
    /\ closed => step \in {"none", "finish", "release"}

\* Who sleeps.
SleepInv ==
    \A t \in Threads :
        Sleeping(t) <=> \/ t \in Readers /\ pc[t] = "asleep"
                        \/ t = runner /\ step = "asleep"

DropInv == active <=> drop = "no"

\* A reset meets no job, and none starts before it is over.
ResetInv ==
    /\ reset # "no" => runner = Nobody /\ drop \in {"no", "done"} /\ cancel # "set"
    /\ reset \in {"reopen", "waiters", "start"} => queue = <<>>
    /\ reset \in {"waiters", "start"} => ~closed

\* The packets that dispatch has finished pushing.
Pushed == packet - (IF left > 0 THEN 1 ELSE 0)

OrderInv ==
    /\ StreamInOrder
    /\ \A i \in 1 .. Len(queue) : queue[i] <= Pushed
    /\ popped <= Pushed

\* What a lossless poller has let through so far: everything, in a row.
Lossless == options.policy = "Block" /\ active /\ ~error /\ ~cancelled
LosslessInv ==
    reset = "no" /\ Lossless =>
        /\ popped + Len(queue) = Pushed
        /\ \A i \in 1 .. Len(queue) : queue[i] = popped + i
        /\ closed \/ step = "close" => packet = MaxPackets

EndInv ==
    /\ EndIsFinal
    /\ \A t \in Readers \ late : pc[t] = "final" /\ reset = "no" => closed

IInv ==
    /\ TypeOK /\ JobInv /\ SleepInv /\ WaitersCounted /\ DropInv /\ ResetInv
    /\ TotalWithinStrays /\ DroppedStaysEmpty /\ OrderInv /\ LosslessInv /\ EndInv

=============================================================================
