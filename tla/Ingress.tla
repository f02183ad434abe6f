------------------------------ MODULE Ingress ------------------------------
(***************************************************************************)
(* The inputs of a graph: GraphInner::send, Input::close and               *)
(* close_all_inputs, called by several host threads at once and again from *)
(* the callbacks that run inside them - an observer of the packet being    *)
(* dispatched, or delegated work pumped while a sender waits for the       *)
(* global watermark.                                                       *)
(*                                                                         *)
(* frame[t][d] is the d-th nested call of thread t and depth[t] the one    *)
(* that is running.  An action is one critical section of IngressState, of *)
(* a queue or of a bound, or the code between two of them.                 *)
(*                                                                         *)
(* Inputs are numbered in the order of graph_inputs, timestamps from 1 to  *)
(* LastTimestamp; Done, the bound of a closed stream, exceeds their bounds.*)
(***************************************************************************)
EXTENDS Integers, Sequences, FiniteSets

CONSTANTS
    Threads,        \* host threads
    Nobody,         \* the owner of an idle input
    NumInputs,      \* graph input ports
    LastTimestamp,  \* bound: timestamps a packet may carry
    MaxDepth,       \* bound: nesting of calls in one thread
    MaxCalls,       \* bound: calls of send, close and close_all_inputs in a run
    MaxQueued,      \* max_queued_packets, 0 for no watermark
    MayStop         \* whether cancel is explored

ASSUME IngressAssumption ==
    /\ Nobody \notin Threads
    /\ NumInputs \in Nat \ {0}
    /\ LastTimestamp \in Nat \ {0}
    /\ MaxDepth \in Nat \ {0}
    /\ MaxCalls \in Nat
    /\ MaxQueued \in Nat
    /\ MayStop \in BOOLEAN

Edges == 1 .. NumInputs
Depths == 1 .. MaxDepth
Done == LastTimestamp + 2

VARIABLES
    state,        \* "Running" or "Draining"
    stopped,      \* the graph is cancelled or has an error
    owner,        \* IngressState::owner of each input
    closing,      \* IngressState::closing
    closed,       \* Edge::closed
    lastSent,     \* Edge::last_sent, 0 for UNSET
    events,       \* what an observer of the input has seen, in order
    lastBound,    \* Edge::last_published_bound
    queue,        \* the consumer's queue: timestamps
    inputBound,   \* the consumer's bound: nothing below it will arrive
    inputClosed,  \* the consumer's input_closed
    drained,      \* a forced close has emptied the consumer's queue
    frame, depth, \* the call stack of each thread
    calls,        \* calls made so far
    total         \* GraphShared::total_queued

ingress == <<owner, closing>>
observer == <<events, lastBound>>
consumer == <<queue, total, inputBound, inputClosed, drained>>
stack == <<frame, depth, calls>>
vars == <<state, stopped, ingress, closed, lastSent, observer, consumer, stack>>

(***************************************************************************)
(* An observer sees, in an order of their own, the packet of each          *)
(* timestamp, the bound that follows it, and Done at the end.              *)
(***************************************************************************)
PacketEvent(ts) == 2 * ts
BoundEvent(ts) == 2 * ts + 1
DoneEvent == 2 * Done

SendPCs == {"check", "watermark", "pumping", "enter", "asleep", "commit", "observing",
            "advance", "publish", "announced", "release", "swap", "sealed", "settle", "drop"}
ClosePCs == {"request", "await", "awake", "swap", "sealed", "drop", "settle"}
Frames == [op : {"send", "close", "none"}, edge : Edges, last : Edges,
           blocking : BOOLEAN, ts : 1 .. LastTimestamp,
           pc : SendPCs \cup ClosePCs \cup {"none"}]
NoFrame == [op |-> "none", edge |-> 1, last |-> 1, blocking |-> FALSE, ts |-> 1,
            pc |-> "none"]

TypeOK ==
    /\ state \in {"Running", "Draining"}
    /\ stopped \in BOOLEAN
    /\ owner \in [Edges -> Threads \cup {Nobody}]
    /\ closing \in [Edges -> BOOLEAN]
    /\ closed \in [Edges -> BOOLEAN]
    /\ lastSent \in [Edges -> 0 .. LastTimestamp]
    /\ events \in [Edges -> Seq(1 .. DoneEvent)]
    /\ lastBound \in [Edges -> 0 .. Done]
    /\ queue \in [Edges -> Seq(1 .. LastTimestamp)]
    /\ inputBound \in [Edges -> 0 .. Done]
    /\ inputClosed \in [Edges -> BOOLEAN]
    /\ drained \in [Edges -> BOOLEAN]
    /\ frame \in [Threads -> [Depths -> Frames]]
    /\ depth \in [Threads -> 0 .. MaxDepth]
    /\ calls \in Nat /\ total \in Nat

\* start() leaves a running graph with every input open.
Init ==
    /\ state = "Running" /\ stopped = FALSE
    /\ owner = [e \in Edges |-> Nobody]
    /\ closing = [e \in Edges |-> FALSE]
    /\ closed = [e \in Edges |-> FALSE]
    /\ lastSent = [e \in Edges |-> 0]
    /\ events = [e \in Edges |-> <<>>]
    /\ lastBound = [e \in Edges |-> 0]
    /\ queue = [e \in Edges |-> <<>>]
    /\ inputBound = [e \in Edges |-> 0]
    /\ inputClosed = [e \in Edges |-> FALSE]
    /\ drained = [e \in Edges |-> FALSE]
    /\ frame = [t \in Threads |-> [d \in Depths |-> NoFrame]]
    /\ depth = [t \in Threads |-> 0]
    /\ calls = 0 /\ total = 0

---------------------------------------------------------------------------
(* The call stack.                                                         *)

Top(t) == IF depth[t] = 0 THEN NoFrame ELSE frame[t][depth[t]]

\* The running call of t is at a label of `labels`.
At(t, labels) == Top(t).pc \in labels

\* The running call of t goes on at `label`, everything else as in `f`.
Jump(t, f, label) ==
    /\ frame' = [f EXCEPT ![t][depth[t]] = [Top(t) EXCEPT !.pc = label]]
    /\ UNCHANGED <<depth, calls>>

Goto(t, label) == Jump(t, frame, label)

Return(t) ==
    /\ frame' = [frame EXCEPT ![t][depth[t]] = NoFrame]
    /\ depth' = [depth EXCEPT ![t] = @ - 1]
    /\ UNCHANGED calls

\* ingress_changed.notify_all(): every call asleep on input e wakes up.
NotifyAll(e) ==
    [t \in Threads |-> [d \in Depths |->
        LET f == frame[t][d] IN
        IF f.edge = e /\ f.pc = "asleep" THEN [f EXCEPT !.pc = "enter"]
        ELSE IF f.edge = e /\ f.pc = "await" THEN [f EXCEPT !.pc = "awake"]
        ELSE f]]

\* The call holds the ingress of its input.
Owning(f) ==
    \/ f.pc \in {"commit", "observing", "advance", "publish", "announced",
                 "release", "swap", "sealed", "drop"}
    \/ f.pc = "settle" /\ f.op = "send"

\* Host code runs inside the call: a callback on a packet or a bound, or
\* delegated work pumped while waiting for the watermark.
InCallback(f) == f.pc \in {"observing", "announced", "sealed"}
Pumping(f) == f.pc = "pumping"

(***************************************************************************)
(* A new call of the host, or of a callback.  A callback on a packet may   *)
(* ask for closes, and its send to the same input is refused; delegated    *)
(* work may do anything.                                                   *)
(***************************************************************************)
Push(t, f) ==
    /\ calls < MaxCalls /\ depth[t] < MaxDepth
    /\ frame' = [frame EXCEPT ![t][depth[t] + 1] = f]
    /\ depth' = [depth EXCEPT ![t] = @ + 1]
    /\ calls' = calls + 1
    /\ UNCHANGED <<state, stopped, ingress, closed, lastSent, observer, consumer>>

CallSend(t) ==
    /\ \E e \in Edges, ts \in 1 .. LastTimestamp, b \in BOOLEAN :
          /\ \/ depth[t] = 0 \/ Pumping(Top(t))
             \/ InCallback(Top(t)) /\ Top(t).edge = e
          /\ Push(t, [op |-> "send", edge |-> e, last |-> e, blocking |-> b, ts |-> ts,
                      pc |-> "check"])

\* Input::close of one input, or close_all_inputs.
CallClose(t) ==
    /\ depth[t] = 0 \/ Pumping(Top(t)) \/ InCallback(Top(t))
    /\ \E r \in {<<e, e>> : e \in Edges} \cup {<<1, NumInputs>>} :
          Push(t, [op |-> "close", edge |-> r[1], last |-> r[2], blocking |-> TRUE, ts |-> 1,
                   pc |-> "request"])

---------------------------------------------------------------------------
(* send.                                                                   *)

(***************************************************************************)
(* The checks before the watermark.  The flags they read only ever become  *)
(* true and are read again under ownership, so reading them together is    *)
(* indistinguishable from reading them in turn.                            *)
(***************************************************************************)
Check(t) ==
    /\ At(t, {"check"})
    /\ LET e == Top(t).edge IN
       IF state # "Running" \/ stopped \/ closed[e] \/ owner[e] = t
         THEN Return(t)
         ELSE Goto(t, "watermark")
    /\ UNCHANGED <<state, stopped, ingress, closed, lastSent, observer, consumer>>

OverWatermark == MaxQueued > 0 /\ total >= MaxQueued

(***************************************************************************)
(* While the graph holds too many packets a blocking send drives delegated *)
(* work or waits, until the graph stops.                                   *)
(***************************************************************************)
Watermark(t) ==
    /\ At(t, {"watermark"})
    /\ IF ~OverWatermark THEN Goto(t, "enter")
       ELSE IF Top(t).blocking /\ ~stopped THEN Goto(t, "pumping")
       ELSE Return(t)
    /\ UNCHANGED <<state, stopped, ingress, closed, lastSent, observer, consumer>>

\* After that it looks again, or gives up on a graph idle in spite of its packets.
Pump(t) ==
    /\ At(t, {"pumping"})
    /\ Goto(t, "watermark") \/ Return(t)
    /\ UNCHANGED <<state, stopped, ingress, closed, lastSent, observer, consumer>>

\* enter_ingress: own the input, sleep until it is free, or give up.
Enter(t) ==
    /\ At(t, {"enter"})
    /\ LET e == Top(t).edge IN
       \/ /\ ~closing[e] /\ owner[e] = Nobody
          /\ owner' = [owner EXCEPT ![e] = t]
          /\ Goto(t, "commit")
       \/ /\ ~closing[e] /\ owner[e] \notin {Nobody, t} /\ Top(t).blocking
          /\ Goto(t, "asleep")
          /\ UNCHANGED owner
       \/ /\ closing[e] \/ owner[e] = t \/ (owner[e] # Nobody /\ ~Top(t).blocking)
          /\ Return(t)
          /\ UNCHANGED owner
    /\ UNCHANGED <<state, stopped, closing, closed, lastSent, observer, consumer>>

\* Mutated: a timestamp may be sent twice.
CommitAgain(t) ==
    /\ At(t, {"commit"})
    /\ LET e == Top(t).edge
           ts == Top(t).ts
       IN \/ /\ ~closed[e] /\ ~stopped /\ ts >= lastSent[e]
             /\ lastSent' = [lastSent EXCEPT ![e] = ts]
             /\ events' = [events EXCEPT ![e] = Append(@, PacketEvent(ts))]
             /\ Goto(t, "observing")
          \/ /\ closed[e] \/ stopped \/ ts < lastSent[e]
             /\ Goto(t, "release")
             /\ UNCHANGED <<lastSent, events>>
    /\ UNCHANGED <<state, stopped, ingress, closed, lastBound, consumer>>

\* The checks under ownership; then dispatch shows the packet to observers.
Commit(t) ==
    /\ At(t, {"commit"})
    /\ LET e == Top(t).edge
           ts == Top(t).ts
       IN \/ /\ ~closed[e] /\ ~stopped /\ ts > lastSent[e]
             /\ lastSent' = [lastSent EXCEPT ![e] = ts]
             /\ events' = [events EXCEPT ![e] = Append(@, PacketEvent(ts))]
             /\ Goto(t, "observing")
          \/ /\ closed[e] \/ stopped \/ ts <= lastSent[e]
             /\ Goto(t, "release")
             /\ UNCHANGED <<lastSent, events>>
    /\ UNCHANGED <<state, stopped, ingress, closed, lastBound, consumer>>

\* The stop flags are read under the lock of the consumer's queue.
Enqueue(t) ==
    /\ At(t, {"observing"})
    /\ LET e == Top(t).edge IN
       IF stopped
         THEN Goto(t, "publish") /\ UNCHANGED <<queue, total>>
         ELSE /\ queue' = [queue EXCEPT ![e] = Append(@, Top(t).ts)]
              /\ total' = total + 1
              /\ Goto(t, "advance")
    /\ UNCHANGED <<state, stopped, ingress, closed, lastSent, observer,
                   inputBound, inputClosed, drained>>

\* advance_bound: a bound never moves back.
Raise(b, e, to) == [b EXCEPT ![e] = IF to > @ THEN to ELSE @]

Advance(t) ==
    /\ At(t, {"advance"})
    /\ inputBound' = Raise(inputBound, Top(t).edge, Top(t).ts + 1)
    /\ Goto(t, "publish")
    /\ UNCHANGED <<state, stopped, ingress, closed, lastSent, observer,
                   queue, total, inputClosed, drained>>

\* publish_bound shows observers a bound they have not seen.
Announce(e, bound, event) ==
    IF bound > lastBound[e]
      THEN /\ lastBound' = [lastBound EXCEPT ![e] = bound]
           /\ events' = [events EXCEPT ![e] = Append(@, event)]
      ELSE UNCHANGED observer

Publish(t) ==
    /\ At(t, {"publish"})
    /\ Announce(Top(t).edge, Top(t).ts + 1, BoundEvent(Top(t).ts))
    /\ Goto(t, "announced")
    /\ UNCHANGED <<state, stopped, ingress, closed, lastSent, consumer>>

\* Mutated: the guard is dropped without looking at closing.
ReleaseAlways(t) ==
    /\ At(t, {"announced", "release"})
    /\ LET e == Top(t).edge IN
       /\ owner' = [owner EXCEPT ![e] = Nobody]
       /\ frame' = [NotifyAll(e) EXCEPT ![t][depth[t]] = NoFrame]
       /\ depth' = [depth EXCEPT ![t] = @ - 1]
       /\ UNCHANGED calls
    /\ UNCHANGED <<state, stopped, closing, closed, lastSent, observer, consumer>>

\* release_unless_closing: hand the input on, or keep it to commit a close
\* requested meanwhile.
Release(t) ==
    /\ At(t, {"announced", "release"})
    /\ LET e == Top(t).edge IN
       IF closing[e]
         THEN Goto(t, "swap") /\ UNCHANGED owner
         ELSE /\ owner' = [owner EXCEPT ![e] = Nobody]
              /\ frame' = [NotifyAll(e) EXCEPT ![t][depth[t]] = NoFrame]
              /\ depth' = [depth EXCEPT ![t] = @ - 1]
              /\ UNCHANGED calls
    /\ UNCHANGED <<state, stopped, closing, closed, lastSent, observer, consumer>>

---------------------------------------------------------------------------
(* close_edge and close_edge_committed.                                    *)

\* A callback of a dispatch leaves the close of a busy input to its owner.
Defers(t) == \E e \in Edges : owner[e] = t

\* Mutated: one more than the inputs there are.
NextInputPast(f) ==
    IF f.edge <= f.last THEN [f EXCEPT !.edge = @ + 1, !.pc = "request"]
                        ELSE [f EXCEPT !.pc = "settle"]

\* The close call f turns to its next input, or to the state of the graph.
NextInput(f) ==
    IF f.edge < f.last THEN [f EXCEPT !.edge = @ + 1, !.pc = "request"]
                       ELSE [f EXCEPT !.pc = "settle"]

\* Mutated: the close does not wait for the packet being dispatched.
RequestBarges(t) ==
    /\ At(t, {"request"})
    /\ LET e == Top(t).edge
           f == NotifyAll(e)
       IN /\ closing' = [closing EXCEPT ![e] = TRUE]
          /\ owner' = [owner EXCEPT ![e] = t]
          /\ Jump(t, f, "swap")
    /\ UNCHANGED <<state, stopped, closed, lastSent, observer, consumer>>

\* Mutated: a callback waits for the owner of another input.
RequestWaits(t) ==
    /\ At(t, {"request"})
    /\ LET e == Top(t).edge
           f == NotifyAll(e)
       IN /\ closing' = [closing EXCEPT ![e] = TRUE]
          /\ \/ /\ owner[e] = Nobody
                /\ owner' = [owner EXCEPT ![e] = t]
                /\ Jump(t, f, "swap")
             \/ /\ owner[e] = t
                /\ frame' = [f EXCEPT ![t][depth[t]] = NextInput(Top(t))]
                /\ UNCHANGED <<owner, depth, calls>>
             \/ /\ owner[e] \notin {Nobody, t}
                /\ Jump(t, f, "await")
                /\ UNCHANGED owner
    /\ UNCHANGED <<state, stopped, closed, lastSent, observer, consumer>>

\* enter_ingress_close.
Request(t) ==
    /\ At(t, {"request"})
    /\ LET e == Top(t).edge
           f == NotifyAll(e)
       IN /\ closing' = [closing EXCEPT ![e] = TRUE]
          /\ \/ /\ owner[e] = Nobody
                /\ owner' = [owner EXCEPT ![e] = t]
                /\ Jump(t, f, "swap")
             \/ /\ owner[e] # Nobody /\ Defers(t)
                /\ frame' = [f EXCEPT ![t][depth[t]] = NextInput(Top(t))]
                /\ UNCHANGED <<owner, depth, calls>>
             \/ /\ owner[e] # Nobody /\ ~Defers(t)
                /\ Jump(t, f, "await")
                /\ UNCHANGED owner
    /\ UNCHANGED <<state, stopped, closed, lastSent, observer, consumer>>

\* Mutated: a closer that was woken up takes the input without looking again.
AwaitOnce(t) ==
    /\ At(t, {"awake"})
    /\ owner' = [owner EXCEPT ![Top(t).edge] = t]
    /\ Goto(t, "swap")
    /\ UNCHANGED <<state, stopped, closing, closed, lastSent, observer, consumer>>

\* The wait of enter_ingress_close, after a notification.
Await(t) ==
    /\ At(t, {"awake"})
    /\ LET e == Top(t).edge IN
       \/ /\ owner[e] = Nobody
          /\ owner' = [owner EXCEPT ![e] = t]
          /\ Goto(t, "swap")
       \/ /\ owner[e] # Nobody
          /\ Goto(t, "await")
          /\ UNCHANGED owner
    /\ UNCHANGED <<state, stopped, closing, closed, lastSent, observer, consumer>>

\* Where a call goes on when the edge is closed.
AfterClose(t) == IF Top(t).op = "send" THEN "settle" ELSE "drop"

\* Only the first committer closes the edge; observers see the end first.
Swap(t) ==
    /\ At(t, {"swap"})
    /\ LET e == Top(t).edge IN
       IF closed[e]
         THEN Goto(t, AfterClose(t)) /\ UNCHANGED <<closed, observer>>
         ELSE /\ closed' = [closed EXCEPT ![e] = TRUE]
              /\ Announce(e, Done, DoneEvent)
              /\ Goto(t, "sealed")
    /\ UNCHANGED <<state, stopped, ingress, lastSent, consumer>>

Seal(t) ==
    /\ At(t, {"sealed"})
    /\ inputClosed' = [inputClosed EXCEPT ![Top(t).edge] = TRUE]
    /\ inputBound' = Raise(inputBound, Top(t).edge, Done)
    /\ Goto(t, AfterClose(t))
    /\ UNCHANGED <<state, stopped, ingress, closed, lastSent, observer, queue, total, drained>>

AllClosed == \A e \in Edges : closed[e]

\* Mutated: only close itself looks whether all inputs are closed.
SettleByCloser(t) ==
    /\ At(t, {"settle"})
    /\ state' = IF AllClosed /\ Top(t).op = "close" THEN "Draining" ELSE state
    /\ IF Top(t).op = "send" THEN Goto(t, "drop") ELSE Return(t)
    /\ UNCHANGED <<stopped, ingress, closed, lastSent, observer, consumer>>

\* set_state_draining_if_all_inputs_closed.
Settle(t) ==
    /\ At(t, {"settle"})
    /\ state' = IF AllClosed THEN "Draining" ELSE state
    /\ IF Top(t).op = "send" THEN Goto(t, "drop") ELSE Return(t)
    /\ UNCHANGED <<stopped, ingress, closed, lastSent, observer, consumer>>

\* The drop of the IngressGuard.
Drop(t) ==
    /\ At(t, {"drop"})
    /\ LET e == Top(t).edge
           f == NotifyAll(e)
       IN /\ owner' = [owner EXCEPT ![e] = Nobody]
          /\ IF Top(t).op = "send"
               THEN /\ frame' = [f EXCEPT ![t][depth[t]] = NoFrame]
                    /\ depth' = [depth EXCEPT ![t] = @ - 1]
               ELSE /\ frame' = [f EXCEPT ![t][depth[t]] = NextInput(Top(t))]
                    /\ UNCHANGED depth
          /\ UNCHANGED calls
    /\ UNCHANGED <<state, stopped, closing, closed, lastSent, observer, consumer>>

---------------------------------------------------------------------------
(* The rest of the graph.                                                  *)

\* The consumer claims a packet.
Dequeue(e) ==
    /\ queue[e] # <<>>
    /\ queue' = [queue EXCEPT ![e] = Tail(@)]
    /\ total' = IF total > 0 THEN total - 1 ELSE 0
    /\ UNCHANGED <<state, stopped, ingress, closed, lastSent, observer,
                   inputBound, inputClosed, drained, stack>>

Cancel ==
    /\ MayStop /\ ~stopped
    /\ stopped' = TRUE
    /\ UNCHANGED <<state, ingress, closed, lastSent, observer, consumer, stack>>

\* discard_queued_inputs of the consumer's forced close.
Discard(e) ==
    /\ stopped /\ ~drained[e]
    /\ drained' = [drained EXCEPT ![e] = TRUE]
    /\ queue' = [queue EXCEPT ![e] = <<>>]
    /\ total' = IF total > Len(queue[e]) THEN total - Len(queue[e]) ELSE 0
    /\ UNCHANGED <<state, stopped, ingress, closed, lastSent, observer,
                   inputBound, inputClosed, stack>>

---------------------------------------------------------------------------
Step(t) ==
    \/ Check(t) \/ Watermark(t) \/ Pump(t) \/ Enter(t) \/ Commit(t) \/ Enqueue(t) \/ Advance(t)
    \/ Publish(t) \/ Release(t)
    \/ Request(t) \/ Await(t) \/ Swap(t) \/ Seal(t) \/ Settle(t) \/ Drop(t)

Next ==
    \/ \E t \in Threads : CallSend(t) \/ CallClose(t) \/ Step(t)
    \/ \E e \in Edges : Dequeue(e) \/ Discard(e)
    \/ Cancel

Spec == Init /\ [][Next]_vars

---------------------------------------------------------------------------
(* Safety.                                                                 *)

(***************************************************************************)
(* An input is dispatched or closed by one call at a time, the one         *)
(* IngressState names, although threads re-enter inputs from callbacks.    *)
(***************************************************************************)
OneDispatcher ==
    /\ \A t \in Threads, d \in Depths :
          Owning(frame[t][d]) => owner[frame[t][d].edge] = t
    /\ \A t \in Threads, c, d \in Depths :
          Owning(frame[t][c]) /\ Owning(frame[t][d]) /\ frame[t][c].edge = frame[t][d].edge
          => c = d

(***************************************************************************)
(* An observer sees packets and bounds in increasing order, each bound     *)
(* after the packet it covers, and nothing after Done (docs/web/cpp.md).   *)
(***************************************************************************)
Increasing(s) == \A i, j \in 1 .. Len(s) : i < j => s[i] < s[j]
EventsOrdered == \A e \in Edges : Increasing(events[e])

(***************************************************************************)
(* The consumer never receives a packet below the bound it was given, in   *)
(* particular none after its input was closed: close waits for the packet  *)
(* that is being dispatched.                                               *)
(***************************************************************************)
BoundsKept ==
    [][\A e \in Edges :
          Len(queue'[e]) > Len(queue[e]) => queue'[e][Len(queue'[e])] >= inputBound[e]]_vars

\* A queue emptied by a forced close stays empty, although a sender may still
\* be dispatching (the comment in dispatch).
DrainedStaysEmpty == \A e \in Edges : drained[e] => queue[e] = <<>>

\* When all inputs are closed and every call has returned, the graph drains,
\* whichever call committed the last close.
ClosedGraphDrains ==
    AllClosed /\ (\A t \in Threads : depth[t] = 0) => state = "Draining"

(***************************************************************************)
(* A close that was requested is never left to nobody: until it is         *)
(* committed there is a dispatch that will look for it when it releases    *)
(* the input, or a closer that waits for the input or has it.              *)
(***************************************************************************)
ClosesAreHeld ==
    \A e \in Edges : closing[e] /\ ~closed[e] =>
        \E t \in Threads, d \in Depths :
            frame[t][d].edge = e /\ (Owning(frame[t][d]) \/ frame[t][d].pc \in {"await", "awake"})

(***************************************************************************)
(* Calls do not wait for each other in a circle: callbacks that close each *)
(* other's inputs leave the close to the owner instead of sleeping (test   *)
(* concurrent_callbacks_can_close_other_inputs_without_deadlock).          *)
(***************************************************************************)
SomeCallRuns ==
    (\E t \in Threads : depth[t] > 0) =>
        \E t \in Threads : depth[t] > 0 /\ Top(t).pc \notin {"asleep", "await"}

---------------------------------------------------------------------------
(* The inductive invariant behind them.                                    *)

\* Calls nest: only the running one is not inside host code.
StackInv ==
    \A t \in Threads, d \in Depths :
        /\ d > depth[t] <=> frame[t][d].op = "none"
        /\ d < depth[t] => Pumping(frame[t][d]) \/ InCallback(frame[t][d])

\* Each procedure has its own labels.
KindInv ==
    \A t \in Threads, d \in Depths :
        LET f == frame[t][d] IN
        /\ f.op = "send" => f.pc \in SendPCs
        /\ f.op = "close" => f.pc \in ClosePCs
        /\ f.op = "none" => f.pc = "none"

\* An owner is inside a call that owns the input.
OwnerInv ==
    \A e \in Edges : owner[e] # Nobody =>
        \E d \in Depths : Owning(frame[owner[e]][d]) /\ frame[owner[e]][d].edge = e

(***************************************************************************)
(* A send inside a callback of a dispatch gets no further than its first   *)
(* check, so the calls around an admitted send only wait for the watermark.*)
(***************************************************************************)
NestInv ==
    \A t \in Threads, c, d \in Depths :
        c < d /\ frame[t][d].op = "send" =>
            \/ Pumping(frame[t][c])
            \/ /\ frame[t][d].pc = "check"
               /\ \/ c < d - 1
                  \/ InCallback(frame[t][c]) /\ frame[t][c].edge = frame[t][d].edge

\* Who sleeps waits for an owner, and owns nothing.
SleepInv ==
    \A t \in Threads, d \in Depths :
        /\ frame[t][d].pc \in {"asleep", "await"} => owner[frame[t][d].edge] # Nobody
        /\ frame[t][d].pc \in {"await", "awake"} => \A c \in Depths : ~Owning(frame[t][c])

\* What observers and the consumer have been told so far.
EventInv ==
    /\ EventsOrdered
    /\ \A e \in Edges : ~closed[e] =>
          /\ lastBound[e] <= lastSent[e] + 1
          /\ inputBound[e] <= lastSent[e] + 1
          /\ \A i \in 1 .. Len(events[e]) : events[e][i] <= BoundEvent(lastSent[e])
    /\ \A t \in Threads, d \in Depths :
          LET f == frame[t][d] IN
          /\ f.pc \in {"observing", "advance", "publish"} =>
                /\ ~closed[f.edge] /\ f.ts = lastSent[f.edge]
                /\ \A i \in 1 .. Len(events[f.edge]) : events[f.edge][i] <= PacketEvent(f.ts)
          /\ f.pc = "observing" => inputBound[f.edge] <= f.ts
          /\ f.pc = "sealed" => closed[f.edge]

\* Whoever commits the last close will look whether it was the last.
WillSettle(f) == f.op = "close" \/ (f.op = "send" /\ f.pc \in {"sealed", "settle"})
SettleInv ==
    AllClosed /\ state = "Running" => \E t \in Threads, d \in Depths : WillSettle(frame[t][d])

DrainInv == \A e \in Edges : drained[e] => stopped /\ queue[e] = <<>>

IInv ==
    /\ TypeOK /\ StackInv /\ KindInv /\ OneDispatcher /\ OwnerInv /\ NestInv /\ SleepInv
    /\ EventInv /\ SettleInv /\ DrainInv

=============================================================================
