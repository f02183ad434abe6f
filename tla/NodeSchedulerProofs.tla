------------------------ MODULE NodeSchedulerProofs ------------------------
(***************************************************************************)
(* IInv of NodeScheduler is inductive, and implies the safety properties   *)
(* of the node, for every number of workers, slots, packets and capacity.  *)
(*                                                                         *)
(* Most steps of a thread only move it between labels at which it holds    *)
(* no invocation and no slot (QuietPCs).  Those are handled once, by       *)
(* QuietStep; the other actions have a lemma each, with a step for every   *)
(* conjunct of IInv.                                                       *)
(***************************************************************************)
EXTENDS NodeRefinement, FiniteSetTheorems, TLAPS

QuietPCs == {"idle", "run", "schedule", "claim", "submit", "snapshot", "check",
             "maybeClose", "tryClose", "forceClose", "post"}

\* The locals of thread t are those of a thread at quiet label p.
QuietMove(t, p) ==
    /\ pc' = [pc EXCEPT ![t] = p]
    /\ mode' = [mode EXCEPT ![t] = "invocation"]
    /\ job' \in [Threads -> Seqs]
    /\ \A u \in Threads \ {t} : job'[u] = job[u]
    /\ resumeTo' \in [Threads -> {"schedule", "return"}]
    /\ returnTo' \in [Threads -> {"idle", "post", "snapshot"}]
    /\ closes' \in [Threads -> BOOLEAN]

\* Quiet labels are labels.
LEMMA QuietLabels == QuietPCs \subseteq PCs
BY DEF QuietPCs, PCs

\* The four ways control leaves the code that flushes and closes.
LEMMA FinishIsQuiet ==
    ASSUME TypeOK, NEW t \in Threads, Finish(t)
    PROVE  QuietMove(t, "schedule")
<1>1. 0 \in Seqs BY BoundsAssumption DEF Seqs
<1> QED BY <1>1 DEF TypeOK, Finish, Goto, QuietMove

\* Return leads to idle, post or snapshot.
LEMMA ReturnIsQuiet ==
    ASSUME TypeOK, NEW t \in Threads, Return(t)
    PROVE  \E p \in QuietPCs \ {"forceClose"} : QuietMove(t, p)
<1>1. returnTo[t] \in QuietPCs \ {"forceClose"} BY DEF TypeOK, QuietPCs
<1>2. QuietMove(t, returnTo[t]) BY DEF TypeOK, Return, Goto, QuietMove
<1> QED BY <1>1, <1>2

\* A resume that is over leads to a quiet label.
LEMMA ResumeReturnsIsQuiet ==
    ASSUME TypeOK, NEW t \in Threads, ResumeReturns(t)
    PROVE  \E p \in QuietPCs \ {"forceClose"} : QuietMove(t, p)
<1>1. CASE resumeTo[t] = "schedule"
  <2>1. "schedule" \in QuietPCs \ {"forceClose"} BY DEF QuietPCs
  <2>2. QuietMove(t, "schedule") BY <1>1 DEF TypeOK, ResumeReturns, Goto, QuietMove
  <2> QED BY <2>1, <2>2
<1>2. CASE resumeTo[t] # "schedule"
  BY <1>2, ReturnIsQuiet DEF ResumeReturns
<1> QED BY <1>1, <1>2

\* So does a jump between quiet labels.
LEMMA GotoIsQuiet ==
    ASSUME TypeOK, ModeInv, NEW t \in Threads, NEW p \in QuietPCs, pc[t] \in QuietPCs,
           Goto(t, p), UNCHANGED <<job, mode>>,
           resumeTo' \in [Threads -> {"schedule", "return"}],
           returnTo' \in [Threads -> {"idle", "post", "snapshot"}],
           UNCHANGED closes
    PROVE  QuietMove(t, p)
<1>1. mode[t] = "invocation"
  BY DEF TypeOK, Modes, ModeInv, FlushPCs, QuietPCs
<1> QED BY <1>1 DEF TypeOK, Goto, QuietMove

---------------------------------------------------------------------------
\* What a host or consumer call may do to the rest of the state.
Outside ==
    /\ tasks' \in Nat
    /\ stopped' \in BOOLEAN /\ (stopped => stopped')
    /\ inClosed' \in BOOLEAN /\ (inClosed => inClosed')
    /\ sent' \in 0 .. Inputs /\ inQueue' \in 0 .. Inputs
    /\ nextSeq + inQueue' <= sent' /\ (~closeStarted => nextSeq + inQueue' = sent')
    /\ closeStarted => inQueue' = 0
    /\ outQueue' \in Nat /\ outQueue' <= outQueue
    /\ consumerBusy' \in BOOLEAN
    /\ UNCHANGED <<sched, flush, closing, staging, reserved, outBound, outClosed>>

\* A thread moves between quiet labels, and only the task queue, the stop flag
\* and the far ends of the two ports change.
LEMMA QuietStep ==
    ASSUME IInv, NEW t \in Threads, NEW p \in QuietPCs, pc[t] \in QuietPCs,
           QuietMove(t, p), p = "forceClose" => stopped, Outside
    PROVE  IInv'
<1> USE DEF IInv, TypeOK, QuietMove, QuietPCs, FlushPCs, Outside, sched, flush, closing
<1>1. TypeOK' BY QuietLabels DEF Seqs, Slots, Modes
<1>2. ModeInv' BY DEF ModeInv
<1>3. CountInv' BY DEF CountInv
<1>4. HoldInv' BY DEF HoldInv, Holds
<1>5. SlotInv' BY DEF SlotInv
<1>6. FlusherInv' BY DEF FlusherInv, Flusher
<1>7. CloserInv' BY DEF CloserInv, Closer
<1>8. IndexCoversParked' BY DEF IndexCoversParked
<1>9. BoundInv' BY DEF BoundInv
<1>10. ReserveInv'
  <2>1. \A u \in Threads : pc'[u] \in {"publish", "release"} <=> pc[u] \in {"publish", "release"}
    OBVIOUS
  <2>2. \A u \in Threads : pc'[u] \in {"publish", "release"} =>
                              pc'[u] = pc[u] /\ staging'[SlotAt(u)'] = staging[SlotAt(u)]
    BY DEF SlotAt
  <2>3. \A u \in Threads : pc'[u] \in {"publish", "release"} =>
             /\ reserved' = staging'[SlotAt(u)']
             /\ pc'[u] = "publish" => outQueue' + reserved' <= Capacity
    <3> SUFFICES ASSUME NEW u \in Threads, pc'[u] \in {"publish", "release"}
                 PROVE  /\ reserved' = staging'[SlotAt(u)']
                        /\ pc'[u] = "publish" => outQueue' + reserved' <= Capacity
      OBVIOUS
    <3>1. pc[u] \in {"publish", "release"} /\ pc'[u] = pc[u] BY <2>1, <2>2
    <3>2. staging'[SlotAt(u)'] = staging[SlotAt(u)] BY <2>2
    <3>3. reserved = staging[SlotAt(u)] BY <3>1 DEF ReserveInv
    <3>4. reserved' = reserved OBVIOUS
    <3>5. pc[u] = "publish" => outQueue + reserved <= Capacity BY <3>1 DEF ReserveInv
    <3> QED BY <3>1, <3>2, <3>3, <3>4, <3>5, BoundsAssumption
  <2>4. (\A u \in Threads : pc'[u] \notin {"publish", "release"}) => reserved' = 0
    BY <2>1 DEF ReserveInv
  <2>5. outQueue' <= Capacity BY BoundsAssumption DEF ReserveInv
  <2> HIDE DEF IInv, TypeOK, QuietMove, QuietPCs, FlushPCs, Outside, sched, flush, closing
  <2> QED BY <2>3, <2>4, <2>5 DEF ReserveInv
<1> QED BY <1>1, <1>2, <1>3, <1>4, <1>5, <1>6, <1>7, <1>8, <1>9, <1>10 DEF IInv

\* Steps that leave the ports alone.
LEMMA Inside ==
    ASSUME IInv, tasks' \in Nat,
           UNCHANGED <<sched, flush, closing, staging, stopped, input, output>>
    PROVE  Outside
BY DEF IInv, TypeOK, CountInv, CloserInv, Outside, input, output

---------------------------------------------------------------------------
\* schedule_node ends at a quiet label.
LEMMA EndScheduleIsQuiet ==
    ASSUME TypeOK, ModeInv, NEW t \in Threads, pc[t] \in QuietPCs, EndSchedule(t)
    PROVE  \E p \in QuietPCs \ {"forceClose"} : QuietMove(t, p)
<1>1. CASE closes[t]
  <2>1. "maybeClose" \in QuietPCs \ {"forceClose"} BY DEF QuietPCs
  <2>2. QuietMove(t, "maybeClose")
    BY <1>1, <2>1, GotoIsQuiet DEF EndSchedule, calls, TypeOK
  <2> QED BY <2>1, <2>2
<1>2. CASE ~closes[t] BY <1>2, ReturnIsQuiet DEF EndSchedule
<1> QED BY <1>1, <1>2

\* The actions that are quiet steps.
LEMMA QuietActions ==
    ASSUME IInv, NEW t \in Threads,
           \/ TryClaim(t) \/ NoClaim(t) \/ Submit(t) \/ Snapshot(t)
           \/ MaybeClose(t) \/ CannotClose(t)
           \/ TakeTask(t) \/ Post(t)
           \/ t = Host /\ (Pump \/ Retry \/ RetryIdle)
           \/ pc[t] = "check" /\ (flushing \/ blocked = "none") /\ Check(t)
    PROVE  IInv'
<1> USE DEF QuietPCs
<1>0. TypeOK /\ ModeInv BY DEF IInv
<1> SUFFICES \E p \in QuietPCs : /\ QuietMove(t, p) /\ pc[t] \in QuietPCs
                                 /\ p = "forceClose" => stopped
                                 /\ Outside
  BY QuietStep
<1>1. CASE TryClaim(t)
  <2>1. pc[t] = "schedule" /\ Outside BY <1>0, <1>1, Inside DEF TryClaim, TypeOK
  <2>2. CASE stopped BY <1>0, <1>1, <2>1, <2>2, EndScheduleIsQuiet DEF TryClaim
  <2>3. CASE ~stopped
    <3>1. QuietMove(t, "claim")
      BY <1>0, <1>1, <2>1, <2>3, GotoIsQuiet DEF TryClaim, calls, TypeOK
    <3> QED BY <2>1, <3>1
  <2> QED BY <2>2, <2>3
<1>2. CASE NoClaim(t)
  <2>1. pc[t] = "claim" /\ Outside BY <1>0, <1>2, Inside DEF NoClaim, TypeOK
  <2> QED BY <1>0, <1>2, <2>1, EndScheduleIsQuiet DEF NoClaim
<1>3. CASE Submit(t)
  <2>1. QuietMove(t, "snapshot") BY <1>0, <1>3, GotoIsQuiet DEF Submit, TypeOK
  <2> QED BY <1>0, <1>3, <2>1, Inside DEF Submit, TypeOK
<1>4. CASE Snapshot(t)
  <2>1. pc[t] = "snapshot" /\ Outside BY <1>0, <1>4, Inside DEF Snapshot, TypeOK
  <2>2. CASE indexed
    <3>1. QuietMove(t, "check")
      BY <1>0, <1>4, <2>1, <2>2, GotoIsQuiet DEF Snapshot, calls, TypeOK
    <3> QED BY <2>1, <3>1
  <2>3. CASE ~indexed BY <1>0, <1>4, <2>1, <2>3, ResumeReturnsIsQuiet DEF Snapshot
  <2> QED BY <2>2, <2>3
<1>5. CASE MaybeClose(t)
  <2>1. pc[t] = "maybeClose" /\ Outside BY <1>0, <1>5, Inside DEF MaybeClose, TypeOK
  <2>2. PICK p \in {"forceClose", "tryClose"} : Goto(t, p) /\ (p = "forceClose" => stopped)
    BY <1>5 DEF MaybeClose
  <2>3. QuietMove(t, p)
    BY <1>0, <1>5, <2>1, <2>2, GotoIsQuiet DEF MaybeClose, calls, TypeOK
  <2> QED BY <2>1, <2>2, <2>3
<1>6. CASE CannotClose(t)
  <2>1. pc[t] \in QuietPCs /\ Outside BY <1>0, <1>6, Inside DEF CannotClose, TypeOK
  <2> QED BY <1>0, <1>6, <2>1, ReturnIsQuiet DEF CannotClose
<1>7. CASE TakeTask(t)
  <2>1. QuietMove(t, "run") BY <1>0, <1>7, GotoIsQuiet DEF TakeTask, TypeOK
  <2> QED BY <1>0, <1>7, <2>1, Inside DEF TakeTask, TypeOK
<1>8. CASE Post(t)
  <2>1. PICK p \in QuietPCs : QuietMove(t, p) /\ p # "forceClose"
    BY <1>0, <1>8, GotoIsQuiet DEF Post, calls, TypeOK
  <2> QED BY <1>0, <1>8, <2>1, Inside DEF Post, TypeOK
<1>9. CASE pc[t] = "check" /\ (flushing \/ blocked = "none") /\ Check(t)
  <2>1. Outside BY <1>0, <1>9, Inside DEF Check, TypeOK, flush
  <2> QED BY <1>0, <1>9, <2>1, ResumeReturnsIsQuiet DEF Check
<1>10. CASE t = Host /\ (Pump \/ Retry \/ RetryIdle)
  <2>1. PICK p \in QuietPCs : QuietMove(t, p) /\ p # "forceClose"
    BY <1>0, <1>10, GotoIsQuiet DEF Pump, Retry, RetryIdle, Enter, calls, TypeOK
  <2> QED BY <1>0, <1>10, <2>1, Inside DEF Pump, Retry, RetryIdle, Enter, TypeOK
<1> QED BY <1>1, <1>2, <1>3, <1>4, <1>5, <1>6, <1>7, <1>8, <1>9, <1>10

\* Calls of the host and the consumer that change the ports.
LEMMA PortCalls ==
    ASSUME IInv,
           \/ Send \/ CloseInput \/ Cancel \/ Dequeue \/ ConsumerFlush
    PROVE  IInv'
<1>0. TypeOK /\ ModeInv /\ CountInv /\ CloserInv BY DEF IInv
<1>1. Host \in Threads /\ Consumer \in Threads BY DEF Threads
<1>2. Outside
  <2> USE <1>0, BoundsAssumption DEF Outside, TypeOK, CountInv, CloserInv, input, output
  <2>1. CASE Send BY <2>1 DEF Send
  <2>2. CASE CloseInput
    <3>1. inClosed' = TRUE /\ UNCHANGED <<stopped, tasks, sent, inQueue, outQueue, consumerBusy>>
      BY <2>2 DEF CloseInput
    <3> QED BY <2>2, <3>1 DEF CloseInput
  <2>3. CASE Cancel BY <2>3 DEF Cancel
  <2>4. CASE Dequeue BY <2>4 DEF Dequeue
  <2>5. CASE ConsumerFlush
    <3>1. consumerBusy' = FALSE /\ UNCHANGED <<stopped, tasks, sent, inQueue, inClosed, outQueue>>
      BY <2>5 DEF ConsumerFlush
    <3>2. UNCHANGED <<sched, flush, closing, staging, reserved, outBound, outClosed>>
      BY <2>5 DEF ConsumerFlush
    <3>3. consumerBusy' \in BOOLEAN BY <3>1
    <3>4. stopped' \in BOOLEAN /\ (stopped => stopped') BY <3>1
    <3>5. inClosed' \in BOOLEAN /\ (inClosed => inClosed') BY <3>1
    <3>6. tasks' \in Nat /\ sent' \in 0 .. Inputs /\ inQueue' \in 0 .. Inputs BY <3>1
    <3>9. ~closeStarted => nextSeq + inQueue' = sent' BY <3>1
    <3>7. nextSeq + inQueue' <= sent' /\ outQueue' \in Nat /\ outQueue' <= outQueue BY <3>1
    <3>8. closeStarted => inQueue' = 0 BY <3>1
    <3> QED BY <3>2, <3>3, <3>4, <3>5, <3>6, <3>7, <3>8, <3>9
  <2> QED BY <2>1, <2>2, <2>3, <2>4, <2>5
<1>3. \A t \in Threads, p \in QuietPCs : Enter(t, p) => QuietMove(t, p) /\ pc[t] \in QuietPCs
  BY <1>0, GotoIsQuiet DEF Enter, QuietPCs, calls, TypeOK
<1>4. \E t \in Threads, p \in QuietPCs \ {"forceClose"} : Enter(t, p)
  BY <1>1 DEF Send, CloseInput, Cancel, Dequeue, ConsumerFlush, QuietPCs
<1> QED BY <1>2, <1>3, <1>4, QuietStep

\* A forced close downstream empties the consumer's queue.
LEMMA ConsumerDiscards ==
    ASSUME IInv, ConsumerDiscard
    PROVE  IInv'
<1> USE DEF IInv, ConsumerDiscard, sched, flush, closing, input, calls
<1>1. TypeOK' BY DEF TypeOK, Seqs, Slots, Modes
<1>2. ModeInv' /\ HoldInv' BY DEF ModeInv, HoldInv, Holds
<1>3. CountInv' /\ SlotInv' BY DEF CountInv, SlotInv
<1>4. FlusherInv' /\ CloserInv' BY DEF FlusherInv, Flusher, CloserInv, Closer
<1>5. IndexCoversParked' /\ BoundInv' BY DEF IndexCoversParked, BoundInv
<1>6. ReserveInv' BY BoundsAssumption DEF ReserveInv, SlotAt, TypeOK
<1> QED BY <1>1, <1>2, <1>3, <1>4, <1>5, <1>6

---------------------------------------------------------------------------
(* Flushing.                                                               *)

\* A thread that flushes is alone, and what it flushes fixes the rest.
LEMMA FlusherFacts ==
    ASSUME IInv, NEW t \in Threads, pc[t] \in FlushPCs
    PROVE  /\ \A u \in Threads \ {t} :
                  pc[u] \notin FlushPCs \cup {"openDone", "closing", "closeDone"}
           /\ mode[t] = "invocation" =>
                  /\ job[t] = nextFlush /\ stage[nextFlush] = "held"
                  /\ nextFlush < nextSeq /\ blocked = "none"
                  /\ ~closeStarted /\ flushing
                  /\ \A u \in Threads \ {t} : pc[u] # "pick"
           /\ mode[t] = "open" =>
                  /\ blocked = "open" /\ nextSeq = 0 /\ nextFlush = 0
                  /\ ~closeStarted /\ flushing
           /\ mode[t] \in {"close", "reclose"} => closeStarted /\ ~closed
           /\ mode[t] \in Modes
<1> USE DEF IInv, TypeOK
<1>1. mode[t] \in Modes OBVIOUS
<1>2. ASSUME mode[t] = "invocation"
      PROVE  /\ job[t] = nextFlush /\ stage[nextFlush] = "held"
             /\ nextFlush < nextSeq /\ ~closeStarted
  <2>1. job[t] = nextFlush BY <1>2 DEF FlusherInv
  <2>2. stage[nextFlush] = "held" BY <1>2, <2>1 DEF HoldInv, Holds
  <2>3. nextFlush < nextSeq BY <2>1, <2>2 DEF CountInv, Seqs
  <2>4. inFlight # 0 BY <2>3 DEF CountInv
  <2> QED BY <2>1, <2>2, <2>3, <2>4 DEF CloserInv
<1>3. ASSUME mode[t] = "open"
      PROVE  blocked = "open" /\ nextSeq = 0 /\ nextFlush = 0 /\ ~closeStarted
  <2>1. blocked = "open" BY <1>3 DEF FlusherInv
  <2>2. nextSeq = 0 /\ nextFlush = 0 BY <2>1 DEF CountInv
  <2>3. inFlight = 1 BY <2>1, <2>2 DEF CountInv
  <2> QED BY <2>1, <2>2, <2>3 DEF CloserInv
<1>4. ASSUME mode[t] \in {"close", "reclose"} PROVE closeStarted /\ ~closed
  BY <1>4 DEF CloserInv, Closer
<1>5. ASSUME ~closeStarted, NEW u \in Threads \ {t}
      PROVE  /\ flushing
             /\ pc[u] \notin FlushPCs \cup {"openDone", "closing", "closeDone", "pick"}
  <2>1. Flusher(t) BY DEF Flusher
  <2>2. ~Flusher(u) BY <1>5, <2>1 DEF FlusherInv
  <2>3. ~Closer(u) BY <1>5 DEF CloserInv
  <2> QED BY <1>5, <2>1, <2>2, <2>3 DEF FlusherInv, Flusher, Closer
<1>6. ASSUME mode[t] \in {"close", "reclose"}, NEW u \in Threads \ {t}
      PROVE  pc[u] \notin FlushPCs \cup {"openDone", "closing", "closeDone"}
  <2>1. Closer(t) BY <1>6 DEF Closer
  <2>2. ~Closer(u) BY <2>1 DEF CloserInv
  <2>3. inFlight = 0 BY <1>4, <1>6 DEF CloserInv
  <2>4. nextSeq = nextFlush /\ blocked # "open" BY <2>3 DEF CountInv
  <2>5. mode[u] # "open" BY <2>4 DEF FlusherInv
  <2>6. ~Holds(u)
    <3> SUFFICES ASSUME Holds(u) PROVE FALSE OBVIOUS
    <3>1. stage[job[u]] = "held" BY DEF HoldInv
    <3> QED BY <2>4, <3>1 DEF CountInv, Seqs
  <2> QED BY <2>2, <2>5, <2>6 DEF Closer, Holds, ModeInv, Modes
<1>7. (flushing /\ mode[t] \in {"invocation", "open"}) \/ mode[t] \in {"close", "reclose"}
  BY <1>1, <1>2, <1>3 DEF FlusherInv, Flusher, Modes
<1>8. mode[t] = "invocation" => blocked = "none"
  BY <1>2 DEF FlusherInv, CloserInv, CountInv
<1> QED BY <1>1, <1>2, <1>3, <1>4, <1>5, <1>6, <1>7, <1>8 DEF Modes

\* The part of IInv that does not look at the consumer's port.
ControlInv ==
    /\ ModeInv /\ CountInv /\ HoldInv /\ SlotInv /\ FlusherInv /\ CloserInv
    /\ IndexCoversParked

\* Moving from one step of a flush to another disturbs nothing in it.
LEMMA FlushStep ==
    ASSUME IInv, NEW t \in Threads, pc[t] \in FlushPCs,
           NEW p \in {"reserve", "publish", "park", "release", Flushed(t)}, Goto(t, p),
           stopped => stopped',
           UNCHANGED <<calls, sched, flush, closing, input, outClosed>>
    PROVE  ControlInv' /\ (TypeOK' <=> (/\ staging' \in [Slots -> Nat] /\ tasks' \in Nat
                                        /\ stopped' \in BOOLEAN /\ outQueue' \in Nat
                                        /\ reserved' \in Nat /\ outBound' \in 0 .. Inputs
                                        /\ consumerBusy' \in BOOLEAN))
<1> USE DEF IInv, TypeOK, Goto, calls, sched, flush, closing, input, FlushPCs
<1>0. /\ p = "retire" => mode[t] = "invocation"
      /\ p = "openDone" => mode[t] = "open"
      /\ p = "closeDone" => mode[t] \in {"close", "reclose"}
      /\ p \in (FlushPCs \ {"flush"}) \cup {"openDone", "closeDone"}
  BY DEF Flushed, Modes
<1>1. ModeInv' BY <1>0 DEF ModeInv, Modes
<1>2. CountInv' /\ SlotInv' /\ IndexCoversParked' BY DEF CountInv, SlotInv, IndexCoversParked
<1>3. HoldInv' BY <1>0 DEF HoldInv, Holds
<1>4. FlusherInv' BY <1>0, FlusherFacts DEF FlusherInv, Flusher
<1>5. CloserInv' BY <1>0, FlusherFacts DEF CloserInv, Closer
<1>6. pc' \in [Threads -> PCs] BY <1>0 DEF PCs
<1> QED BY <1>1, <1>2, <1>3, <1>4, <1>5, <1>6 DEF ControlInv, Seqs

\* Where a flush ends.
LEMMA FlushedLabels == \A t \in Threads : Flushed(t) \in {"retire", "openDone", "closeDone"}
BY DEF Flushed

\* A flusher works on one of the slots of the node.
LEMMA SlotInRange ==
    ASSUME TypeOK, NEW t \in Threads
    PROVE  SlotAt(t) \in Slots
BY BoundsAssumption DEF TypeOK, SlotAt, Slots

\* flush_staging begins, or discards in a stopped graph.
LEMMA StartFlushStep ==
    ASSUME IInv, NEW t \in Threads, StartFlush(t)
    PROVE  IInv'
<1>0. TypeOK /\ BoundInv /\ ReserveInv /\ pc[t] \in FlushPCs /\ pc[t] = "flush"
  BY DEF IInv, StartFlush, FlushPCs
<1>1. \E p \in {"reserve", "publish", "park", "release", Flushed(t)} : Goto(t, p)
  BY DEF StartFlush
<1>2. ControlInv' /\ TypeOK'
  <2>1. staging' \in [Slots -> Nat]
    BY <1>0, SlotInRange DEF StartFlush, Discard, TypeOK
  <2> QED BY <1>0, <1>1, <2>1, FlushStep DEF StartFlush, input, output, TypeOK
<1>3. BoundInv'
  <2>1. CASE stopped
    BY <1>0, <2>1, FlushedLabels DEF StartFlush, BoundInv, Goto, sched, output, calls, TypeOK
  <2>2. CASE ~stopped
    <3>1. \A u \in Threads \ {t} : pc[u] \notin FlushPCs BY <1>0, FlusherFacts
    <3>2. pc' = [pc EXCEPT ![t] = "reserve"] BY <2>2 DEF StartFlush, Goto
    <3>3. UNCHANGED <<stopped, outBound, nextFlush, mode>>
      BY DEF StartFlush, sched, output, calls
    <3>4. outBound = nextFlush
      BY <1>0, <2>2, <3>1 DEF BoundInv, FlushPCs
    <3> QED BY <1>0, <2>2, <3>1, <3>2, <3>3, <3>4 DEF BoundInv, TypeOK, FlushPCs
  <2> QED BY <2>1, <2>2
<1>4. ReserveInv'
  <2>1. \A u \in Threads : pc[u] \notin {"publish", "release"} /\ pc'[u] \notin {"publish", "release"}
    <3>1. pc \in [Threads -> PCs] BY <1>0 DEF TypeOK
    <3>2. pc'[t] \in {"reserve", Flushed(t)} /\ \A u \in Threads \ {t} : pc'[u] = pc[u]
      BY <3>1 DEF StartFlush, Goto
    <3>3. pc'[t] \notin {"publish", "release"} /\ pc[t] \notin {"publish", "release"}
      BY <1>0, <3>2, FlushedLabels
    <3>4. \A u \in Threads \ {t} : pc[u] \notin {"publish", "release"}
      BY <1>0, FlusherFacts DEF FlushPCs
    <3> QED BY <3>2, <3>3, <3>4
  <2> QED BY <1>0, <2>1 DEF ReserveInv, StartFlush, output
<1> QED BY <1>2, <1>3, <1>4 DEF IInv, ControlInv

\* reserve_internal_capacity preserves the invariant, whatever it decides.
LEMMA ReserveStep ==
    ASSUME IInv, NEW t \in Threads, Reserve(t)
    PROVE  IInv'
<1>0. /\ TypeOK /\ BoundInv /\ ReserveInv /\ pc[t] \in FlushPCs /\ pc[t] = "reserve"
      /\ staging[SlotAt(t)] \in Nat /\ SlotAt(t) \in Slots
  BY SlotInRange DEF IInv, Reserve, FlushPCs, TypeOK
<1>1. \E p \in {"reserve", "publish", "park", "release", Flushed(t)} : Goto(t, p)
  BY DEF Reserve
<1>2. /\ stopped' \in BOOLEAN /\ (stopped => stopped')
      /\ staging' \in [Slots -> Nat] /\ reserved' \in Nat
  <2>1. CASE stopped' = TRUE /\ Discard(t) /\ UNCHANGED reserved
    BY <1>0, <2>1 DEF Discard, TypeOK
  <2>2. CASE /\ UNCHANGED <<staging, stopped>>
             /\ reserved' \in {reserved, reserved + staging[SlotAt(t)]}
    BY <1>0, <2>2 DEF TypeOK
  <2> QED BY <2>1, <2>2 DEF Reserve
<1>3. ControlInv' /\ TypeOK'
  BY <1>0, <1>1, <1>2, FlushStep DEF Reserve, TypeOK
<1>4. \A u \in Threads \ {t} : pc[u] \notin FlushPCs
  BY <1>0, FlusherFacts
<1>5. UNCHANGED <<job, mode, slotOf, outQueue, outBound, nextFlush>>
  BY DEF Reserve, calls, sched
<1>6. CASE /\ staging[SlotAt(t)] = 0 \/ outQueue + reserved + staging[SlotAt(t)] <= Capacity
           /\ reserved' = reserved + staging[SlotAt(t)]
           /\ Goto(t, "publish") /\ UNCHANGED <<staging, stopped>>
  <2>1. BoundInv'
    BY <1>0, <1>4, <1>5, <1>6 DEF BoundInv, Goto, TypeOK, FlushPCs
  <2>2. reserved = 0
    BY <1>0, <1>4 DEF ReserveInv, FlushPCs
  <2>3. UNCHANGED SlotAt(t) BY <1>5 DEF SlotAt
  <2>4. \A u \in Threads : pc'[u] \in {"publish", "release"} <=> u = t
    BY <1>0, <1>4, <1>6 DEF Goto, TypeOK, FlushPCs
  <2>5. ReserveInv'
    BY <1>0, <1>5, <1>6, <2>2, <2>3, <2>4, BoundsAssumption DEF ReserveInv, TypeOK
  <2> QED BY <1>3, <2>1, <2>5 DEF IInv, ControlInv
<1>7. CASE /\ Goto(t, "park") \/ (stopped' /\ Goto(t, Flushed(t)))
           /\ UNCHANGED reserved
           /\ stopped' \/ UNCHANGED stopped
  <2>1. BoundInv'
    BY <1>0, <1>2, <1>4, <1>5, <1>7, FlushedLabels DEF BoundInv, Goto, TypeOK, FlushPCs
  <2>2. \A u \in Threads : pc[u] \notin {"publish", "release"} /\ pc'[u] \notin {"publish", "release"}
    <3>1. pc \in [Threads -> PCs] BY <1>0 DEF TypeOK
    <3>2. pc'[t] \in {"park", Flushed(t)} /\ \A u \in Threads \ {t} : pc'[u] = pc[u]
      BY <1>7, <3>1 DEF Goto
    <3>3. pc'[t] \notin {"publish", "release"} /\ pc[t] \notin {"publish", "release"}
      BY <1>0, <3>2, FlushedLabels
    <3>4. \A u \in Threads \ {t} : pc[u] \notin {"publish", "release"}
      BY <1>4 DEF FlushPCs
    <3> QED BY <3>2, <3>3, <3>4
  <2>3. ReserveInv'
    BY <1>0, <1>5, <1>7, <2>2 DEF ReserveInv
  <2> QED BY <1>3, <2>1, <2>3 DEF IInv, ControlInv
<1> QED BY <1>6, <1>7 DEF Reserve

\* dispatch keeps the promised bound and the reservation in step.
LEMMA PublishStep ==
    ASSUME IInv, NEW t \in Threads, Publish(t)
    PROVE  IInv'
<1>0. /\ TypeOK /\ BoundInv /\ ReserveInv /\ pc[t] \in FlushPCs /\ pc[t] = "publish"
      /\ staging[SlotAt(t)] \in Nat /\ SlotAt(t) \in Slots
  BY SlotInRange DEF IInv, Publish, FlushPCs, TypeOK
<1>1. Goto(t, "release") BY DEF Publish
<1>2. job[t] < Inputs /\ job[t] \in Nat BY <1>0, BoundsAssumption DEF TypeOK, Seqs
<1>3. outBound' \in 0 .. Inputs /\ outQueue' \in Nat
  BY <1>0, <1>2, BoundsAssumption DEF Publish, TypeOK
<1>4. ControlInv' /\ TypeOK'
  BY <1>0, <1>1, <1>3, FlushStep DEF Publish, TypeOK
<1>5. \A u \in Threads \ {t} : pc[u] \notin FlushPCs
  BY <1>0, FlusherFacts
<1>6. UNCHANGED <<job, mode, slotOf, reserved, staging, nextFlush, stopped>>
  BY DEF Publish, calls, sched
<1>7. mode[t] = "invocation" => job[t] = nextFlush
  BY <1>0, FlusherFacts
<1>8. BoundInv'
  BY <1>0, <1>1, <1>2, <1>5, <1>6, <1>7 DEF Publish, BoundInv, Goto, TypeOK, FlushPCs
<1>9. UNCHANGED SlotAt(t) BY <1>6 DEF SlotAt
<1>10. \A u \in Threads : pc'[u] \in {"publish", "release"} <=> u = t
  BY <1>0, <1>1, <1>5 DEF Goto, TypeOK, FlushPCs
<1>11. pc'[t] = "release" BY <1>0, <1>1 DEF Goto, TypeOK
<1>12. reserved = staging[SlotAt(t)] /\ outQueue + reserved <= Capacity
  BY <1>0 DEF ReserveInv
<1>13. ReserveInv'
  BY <1>0, <1>6, <1>9, <1>10, <1>11, <1>12, BoundsAssumption DEF ReserveInv, Publish, TypeOK
<1> QED BY <1>4, <1>8, <1>13 DEF IInv, ControlInv

\* The reservation is returned in full.
LEMMA ReleaseStep ==
    ASSUME IInv, NEW t \in Threads, Release(t)
    PROVE  IInv'
<1>0. /\ TypeOK /\ BoundInv /\ ReserveInv /\ pc[t] \in FlushPCs /\ pc[t] = "release"
      /\ SlotAt(t) \in Slots
  BY SlotInRange DEF IInv, Release, FlushPCs
<1>1. Goto(t, Flushed(t)) BY DEF Release
<1>2. reserved = staging[SlotAt(t)] BY <1>0 DEF ReserveInv
<1>3. staging' \in [Slots -> Nat] /\ reserved' = 0
  BY <1>0, <1>2 DEF Release, Discard, TypeOK
<1>4. ControlInv' /\ TypeOK'
  BY <1>0, <1>1, <1>3, FlushStep DEF Release, TypeOK
<1>5. \A u \in Threads \ {t} : pc[u] \notin FlushPCs
  BY <1>0, FlusherFacts
<1>6. UNCHANGED <<job, mode, outBound, outQueue, nextFlush, stopped>>
  BY DEF Release, calls, sched
<1>7. Flushed(t) = "retire" <=> mode[t] = "invocation"
  BY DEF Flushed
<1>8. BoundInv'
  BY <1>0, <1>1, <1>5, <1>6, <1>7, FlushedLabels DEF BoundInv, Goto, TypeOK, FlushPCs
<1>9. \A u \in Threads : pc'[u] \notin {"publish", "release"}
  BY <1>0, <1>1, <1>5, FlushedLabels DEF Goto, TypeOK, FlushPCs
<1>10. ReserveInv'
  BY <1>0, <1>3, <1>6, <1>9 DEF ReserveInv
<1> QED BY <1>4, <1>8, <1>10 DEF IInv, ControlInv

---------------------------------------------------------------------------
(* Who may touch a slot.                                                   *)

\* An invocation in somebody's hands keeps the node from closing.
LEMMA HolderFacts ==
    ASSUME IInv, NEW t \in Threads, Holds(t)
    PROVE  /\ job[t] \in Seqs /\ nextFlush <= job[t] /\ job[t] < nextSeq
           /\ stage[job[t]] = "held"
           /\ ~closeStarted /\ blocked # "open"
           /\ slotOf[job[t]] \notin free
<1> USE DEF IInv, TypeOK
<1>1. job[t] \in Seqs /\ stage[job[t]] = "held" BY DEF HoldInv
<1>2. nextFlush <= job[t] /\ job[t] < nextSeq BY <1>1 DEF CountInv, Seqs
<1>3. inFlight # 0 /\ blocked # "open" BY <1>1, <1>2 DEF CountInv, Seqs
<1>4. ~closeStarted BY <1>3 DEF CloserInv
<1>5. slotOf[job[t]] \notin free BY <1>1, <1>2 DEF SlotInv
<1> QED BY <1>1, <1>2, <1>3, <1>4, <1>5

\* A thread that flushes what Open staged, or finishes it.
LEMMA OpenFacts ==
    ASSUME IInv, NEW t \in Threads, mode[t] = "open"
    PROVE  /\ blocked = "open" /\ nextSeq = 0 /\ nextFlush = 0 /\ inFlight = 1
           /\ ~closeStarted /\ 0 \notin free
           /\ \A u \in Threads : ~Holds(u) /\ ~Closer(u)
<1> USE DEF IInv, TypeOK
<1>1. blocked = "open" BY DEF FlusherInv
<1>2. nextSeq = 0 /\ nextFlush = 0 /\ inFlight = 1 BY <1>1 DEF CountInv
<1>3. ~closeStarted BY <1>2 DEF CloserInv
<1>4. 0 \notin free BY <1>1 DEF SlotInv
<1>5. \A u \in Threads : ~Holds(u) BY <1>1, HolderFacts
<1>6. \A u \in Threads : ~Closer(u) BY <1>3 DEF CloserInv
<1> QED BY <1>1, <1>2, <1>3, <1>4, <1>5, <1>6

\* A started close leaves nothing else to do.
LEMMA CloseFacts ==
    ASSUME IInv, closeStarted
    PROVE  /\ inFlight = 0 /\ nextSeq = nextFlush /\ blocked \in {"none", "close"}
           /\ \A u \in Threads : ~Holds(u) /\ mode[u] # "open"
<1> USE DEF IInv, TypeOK
<1>1. inFlight = 0 BY DEF CloserInv
<1>2. nextSeq = nextFlush /\ blocked # "open" BY <1>1 DEF CountInv
<1>3. blocked # "invocation"
  <2> SUFFICES ASSUME blocked = "invocation" PROVE FALSE OBVIOUS
  <2>1. nextFlush \in Seqs /\ stage[nextFlush] = "parked"
    BY BoundsAssumption DEF CountInv, Seqs
  <2>2. stage[nextFlush] = "new" BY <1>2, <2>1 DEF CountInv
  <2> QED BY <2>1, <2>2
<1>4. \A u \in Threads : ~Holds(u) BY HolderFacts
<1>5. \A u \in Threads : mode[u] # "open" BY OpenFacts
<1> QED BY <1>1, <1>2, <1>3, <1>4, <1>5

\* SlotExclusive follows from the invariant at once.
LEMMA SlotsAreExclusive ==
    ASSUME IInv
    PROVE  SlotExclusive
<1>0. \A t \in Threads : mode[t] \in Modes BY DEF IInv, TypeOK
<1>1. ASSUME NEW t \in Threads, NEW u \in Threads, t # u
      PROVE  Touches(t) \cap Touches(u) = {}
  <2>1. CASE pc[t] \in FlushPCs
    <3>1. pc[u] \notin FlushPCs \cup {"openDone", "closing", "closeDone"}
      BY <1>1, <2>1, FlusherFacts
    <3>2. CASE pc[u] \in {"process", "complete"}
      <4>1. Holds(u) BY <3>2 DEF Holds
      <4>2. mode[t] = "invocation"
        BY <1>0, <2>1, <4>1, OpenFacts, HolderFacts, FlusherFacts DEF Modes
      <4>3. Holds(t) BY <2>1, <4>2 DEF Holds
      <4>4. job[t] # job[u] BY <1>1, <4>1, <4>3 DEF IInv, HoldInv
      <4>5. slotOf[job[t]] # slotOf[job[u]]
        BY <4>1, <4>3, <4>4, HolderFacts DEF IInv, SlotInv
      <4> QED BY <2>1, <3>2, <4>2, <4>5 DEF Touches, SlotAt, FlushPCs
    <3>3. CASE pc[u] \notin {"process", "complete"}
      BY <3>1, <3>3 DEF Touches, FlushPCs
    <3> QED BY <3>2, <3>3
  <2>2. CASE pc[u] \in FlushPCs
    <3>1. pc[t] \notin FlushPCs \cup {"openDone", "closing", "closeDone"}
      BY <1>1, <2>2, FlusherFacts
    <3>2. CASE pc[t] \in {"process", "complete"}
      <4>1. Holds(t) BY <3>2 DEF Holds
      <4>2. mode[u] = "invocation"
        BY <1>0, <2>2, <4>1, OpenFacts, HolderFacts, FlusherFacts DEF Modes
      <4>3. Holds(u) BY <2>2, <4>2 DEF Holds
      <4>4. job[t] # job[u] BY <1>1, <4>1, <4>3 DEF IInv, HoldInv
      <4>5. slotOf[job[t]] # slotOf[job[u]]
        BY <4>1, <4>3, <4>4, HolderFacts DEF IInv, SlotInv
      <4> QED BY <2>2, <3>2, <4>2, <4>5 DEF Touches, SlotAt, FlushPCs
    <3>3. CASE pc[t] \notin {"process", "complete"}
      BY <3>1, <3>3 DEF Touches, FlushPCs
    <3> QED BY <3>2, <3>3
  <2>3. CASE pc[t] \notin FlushPCs /\ pc[u] \notin FlushPCs
    <3>1. \A v \in Threads : pc[v] = "openDone" => mode[v] = "open" /\ Flusher(v)
      BY DEF IInv, ModeInv, Flusher
    <3>2. \A v \in Threads : pc[v] \in {"closing", "closeDone"} => Closer(v) /\ closeStarted
      BY DEF IInv, CloserInv, Closer
    <3>3. CASE pc[t] \in {"process", "complete"} /\ pc[u] \in {"process", "complete"}
      <4>1. Holds(t) /\ Holds(u) BY <3>3 DEF Holds
      <4>2. job[t] # job[u] BY <1>1, <4>1 DEF IInv, HoldInv
      <4>3. slotOf[job[t]] # slotOf[job[u]]
        BY <4>1, <4>2, HolderFacts DEF IInv, SlotInv
      <4> QED BY <3>3, <4>3 DEF Touches
    <3>4. ~(pc[t] \in {"process", "complete"} /\ pc[u] \in {"openDone", "closing", "closeDone"})
      BY <3>1, <3>2, HolderFacts, OpenFacts DEF Holds
    <3>5. ~(pc[u] \in {"process", "complete"} /\ pc[t] \in {"openDone", "closing", "closeDone"})
      BY <3>1, <3>2, HolderFacts, OpenFacts DEF Holds
    <3>6. ~(/\ pc[t] \in {"openDone", "closing", "closeDone"}
            /\ pc[u] \in {"openDone", "closing", "closeDone"})
      BY <1>1, <3>1, <3>2, OpenFacts DEF IInv, FlusherInv, CloserInv
    <3> QED BY <2>3, <3>3, <3>4, <3>5, <3>6 DEF Touches, FlushPCs
  <2> QED BY <2>1, <2>2, <2>3
<1>2. ASSUME ~closeStarted, NEW t \in Threads
      PROVE  Touches(t) \cap free = {}
  <2>1. ~Closer(t) BY <1>2 DEF IInv, CloserInv
  <2>2. CASE Holds(t)
    BY <2>2, HolderFacts DEF Touches, Holds, SlotAt, FlushPCs
  <2>3. CASE ~Holds(t) /\ mode[t] = "open"
    BY <2>3, OpenFacts DEF Touches, Holds, SlotAt, FlushPCs
  <2>4. CASE ~Holds(t) /\ mode[t] # "open"
    BY <1>0, <2>1, <2>4 DEF Touches, Holds, Closer, FlushPCs, Modes, IInv, ModeInv
  <2> QED BY <2>2, <2>3, <2>4
<1> QED BY <1>1, <1>2 DEF SlotExclusive

\* A step that leaves the slot of a reserving thread alone.
LEMMA ReserveKept ==
    ASSUME IInv, NEW t \in Threads, NEW p \in PCs, pc' = [pc EXCEPT ![t] = p],
           pc[t] \notin {"publish", "release"}, p \notin {"publish", "release"},
           UNCHANGED <<reserved, outQueue>>,
           \A u \in Threads \ {t} : pc[u] \in {"publish", "release"} =>
               SlotAt(u)' = SlotAt(u) /\ staging'[SlotAt(u)] = staging[SlotAt(u)]
    PROVE  ReserveInv'
<1> USE DEF IInv, TypeOK
<1>1. \A u \in Threads : pc'[u] \in {"publish", "release"}
                            <=> u # t /\ pc[u] \in {"publish", "release"}
  OBVIOUS
<1>2. \A u \in Threads : pc'[u] \in {"publish", "release"} => pc'[u] = pc[u]
  OBVIOUS
<1>3. ASSUME NEW u \in Threads, pc'[u] \in {"publish", "release"}
      PROVE  /\ reserved' = staging'[SlotAt(u)']
             /\ pc'[u] = "publish" => outQueue' + reserved' <= Capacity
  <2>1. reserved = staging[SlotAt(u)] /\ (pc[u] = "publish" => outQueue + reserved <= Capacity)
    BY <1>1, <1>3 DEF ReserveInv
  <2>2. SlotAt(u)' = SlotAt(u) /\ staging'[SlotAt(u)] = staging[SlotAt(u)]
    BY <1>1, <1>3
  <2> QED BY <1>2, <1>3, <2>1, <2>2
<1>4. (\A u \in Threads : pc'[u] \notin {"publish", "release"}) => reserved' = 0
  BY <1>1 DEF ReserveInv
<1>5. outQueue' <= Capacity BY DEF ReserveInv
<1> HIDE DEF IInv, TypeOK
<1> QED BY <1>3, <1>4, <1>5 DEF ReserveInv

---------------------------------------------------------------------------
(* Running an invocation.                                                  *)

\* run_node takes an invocation that nobody else holds.
LEMMA PopReadyStep ==
    ASSUME IInv, NEW t \in Workers, PopReady(t)
    PROVE  IInv'
<1>0. t \in Threads BY DEF Threads
<1> PICK s \in Seqs : /\ stage[s] = "ready"
                      /\ job' = [job EXCEPT ![t] = s]
                      /\ stage' = [stage EXCEPT ![s] = "held"]
  BY DEF PopReady, Ready
<1> PICK p \in {"process", "complete"} : pc' = [pc EXCEPT ![t] = p]
  BY DEF PopReady, Goto
<1> USE <1>0 DEF IInv, TypeOK, PopReady, flush, closing, input, output
<1>1. TypeOK' BY DEF Stages, PCs, Seqs, Slots
<1>2. ModeInv' BY DEF ModeInv, FlushPCs
<1>3. CountInv' BY DEF CountInv, Seqs
<1>4. HoldInv' BY DEF HoldInv, Holds, FlushPCs
<1>5. SlotInv' BY DEF SlotInv
<1>6. FlusherInv' BY DEF FlusherInv, Flusher, FlushPCs
<1>7. CloserInv' BY DEF CloserInv, Closer, FlushPCs
<1>8. IndexCoversParked' BY DEF IndexCoversParked
<1>9. BoundInv' BY DEF BoundInv
<1>10. ReserveInv'
  <2>1. \A u \in Threads \ {t} : UNCHANGED SlotAt(u) BY DEF SlotAt
  <2> QED BY <2>1, ReserveKept DEF PCs
<1> QED BY <1>1, <1>2, <1>3, <1>4, <1>5, <1>6, <1>7, <1>8, <1>9, <1>10

\* Process stages into a slot nobody else uses.
LEMMA ProcessStep ==
    ASSUME IInv, NEW t \in Workers, Process(t)
    PROVE  IInv'
<1>0. t \in Threads BY DEF Threads
<1> PICK n \in 0 .. MaxEmit : staging' = [staging EXCEPT ![slotOf[job[t]]] = n]
  BY DEF Process
<1>n. n \in Nat BY BoundsAssumption
<1>p. pc' = [pc EXCEPT ![t] = "complete"] BY DEF Process, Goto
<1> USE <1>0 DEF IInv, TypeOK, Process, sched, flush, closing, input, output, calls
<1>1. TypeOK' BY <1>n, <1>p DEF Stages, PCs, Seqs, Slots
<1>2. ModeInv' BY <1>p DEF ModeInv, FlushPCs
<1>3. CountInv' BY DEF CountInv, Seqs
<1>4. HoldInv' BY <1>p DEF HoldInv, Holds, FlushPCs
<1>5. SlotInv' BY DEF SlotInv
<1>6. FlusherInv' BY <1>p DEF FlusherInv, Flusher, FlushPCs
<1>7. CloserInv' BY <1>p DEF CloserInv, Closer, FlushPCs
<1>8. IndexCoversParked' BY DEF IndexCoversParked
<1>9. BoundInv' BY <1>p DEF BoundInv
<1>10. ReserveInv'
  <2>1. ASSUME NEW u \in Threads \ {t}, pc[u] \in {"publish", "release"}
        PROVE  SlotAt(u)' = SlotAt(u) /\ staging'[SlotAt(u)] = staging[SlotAt(u)]
    <3>1. SlotAt(u) \in Touches(u) /\ slotOf[job[t]] \in Touches(t) BY <2>1 DEF Touches
    <3>2. SlotAt(u) # slotOf[job[t]] BY <3>1, SlotsAreExclusive DEF SlotExclusive
    <3>3. SlotAt(u)' = SlotAt(u) BY DEF SlotAt
    <3> QED BY <3>2, <3>3
  <2> QED BY <1>p, <2>1, ReserveKept DEF PCs
<1> QED BY <1>1, <1>2, <1>3, <1>4, <1>5, <1>6, <1>7, <1>8, <1>9, <1>10

\* A failing Process only stops the graph.
LEMMA ProcessAbortsStep ==
    ASSUME IInv, NEW t \in Workers, ProcessAborts(t)
    PROVE  IInv'
<1>0. t \in Threads BY DEF Threads
<1>p. pc' = [pc EXCEPT ![t] = "complete"] BY DEF ProcessAborts, Goto
<1> USE <1>0 DEF IInv, TypeOK, ProcessAborts, sched, flush, closing, input, output, calls
<1>1. TypeOK' BY <1>p DEF Stages, PCs, Seqs, Slots
<1>2. ModeInv' BY <1>p DEF ModeInv, FlushPCs
<1>3. CountInv' BY DEF CountInv, Seqs
<1>4. HoldInv' BY <1>p DEF HoldInv, Holds, FlushPCs
<1>5. SlotInv' BY DEF SlotInv
<1>6. FlusherInv' BY <1>p DEF FlusherInv, Flusher, FlushPCs
<1>7. CloserInv' BY <1>p DEF CloserInv, Closer, FlushPCs
<1>8. IndexCoversParked' BY DEF IndexCoversParked
<1>9. BoundInv' BY <1>p DEF BoundInv
<1>10. ReserveInv' BY <1>p DEF ReserveInv, SlotAt
<1> QED BY <1>1, <1>2, <1>3, <1>4, <1>5, <1>6, <1>7, <1>8, <1>9, <1>10

\* The result is flushed at once by this worker, or left in pending_flush for
\* the flusher at work, or for this worker in its turn.
LEMMA CompleteStep ==
    ASSUME IInv, NEW t \in Workers, Complete(t)
    PROVE  IInv'
<1>0. /\ t \in Threads /\ TypeOK /\ ModeInv /\ pc[t] = "complete" /\ Holds(t)
      /\ mode[t] = "invocation" /\ flushing' = TRUE
  BY DEF IInv, TypeOK, Threads, Complete, Holds, ModeInv, Modes, FlushPCs
<1>f. /\ job[t] \in Seqs /\ nextFlush <= job[t] /\ job[t] < nextSeq
      /\ stage[job[t]] = "held" /\ ~closeStarted
  BY <1>0, HolderFacts
<1> USE DEF IInv, TypeOK
<1>1. CASE /\ ~flushing /\ blocked = "none" /\ job[t] = nextFlush
           /\ Goto(t, "flush") /\ UNCHANGED <<stage, calls>>
  <2>p. pc' = [pc EXCEPT ![t] = "flush"] BY <1>1 DEF Goto
  <2> USE <1>0, <1>f, <1>1 DEF Complete, closing, input, output, calls
  <2>1. TypeOK' BY <2>p DEF Stages, PCs, Seqs, Slots
  <2>2. ModeInv' BY <2>p DEF ModeInv, FlushPCs
  <2>3. CountInv' BY DEF CountInv, Seqs
  <2>4. HoldInv' BY <2>p DEF HoldInv, Holds, FlushPCs
  <2>5. SlotInv' BY DEF SlotInv
  <2>6. FlusherInv' BY <2>p DEF FlusherInv, Flusher, FlushPCs
  <2>7. CloserInv' BY <2>p DEF CloserInv, Closer, FlushPCs
  <2>8. IndexCoversParked' BY DEF IndexCoversParked
  <2>9. BoundInv' BY <2>p DEF BoundInv
  <2>10. ReserveInv'
    <3>1. \A u \in Threads : UNCHANGED SlotAt(u) BY DEF SlotAt
    <3> QED BY <2>p, <3>1, ReserveKept DEF PCs
  <2> QED BY <2>1, <2>2, <2>3, <2>4, <2>5, <2>6, <2>7, <2>8, <2>9, <2>10
<1>2. CASE /\ stage' = [stage EXCEPT ![job[t]] = "pending"]
           /\ \/ flushing /\ Finish(t)
              \/ ~flushing /\ Goto(t, "pick") /\ UNCHANGED calls
  <2>p. PICK p \in {"schedule", "pick"} :
            /\ pc' = [pc EXCEPT ![t] = p] /\ (p = "pick" => ~flushing)
            /\ mode' = mode
            /\ job' \in [Threads -> Seqs] /\ \A u \in Threads \ {t} : job'[u] = job[u]
            /\ resumeTo' = resumeTo /\ returnTo' = returnTo
            /\ closes' \in [Threads -> BOOLEAN]
    <3>1. CASE flushing /\ Finish(t)
      <4>1. QuietMove(t, "schedule") BY <1>0, <3>1, FinishIsQuiet
      <4>2. mode' = mode BY <1>0, <3>1 DEF Finish
      <4> QED BY <3>1, <4>1, <4>2 DEF QuietMove, Finish
    <3>2. CASE ~flushing /\ Goto(t, "pick") /\ UNCHANGED calls
      BY <3>2 DEF Goto, calls
    <3> QED BY <1>2, <3>1, <3>2
  <2> USE <1>0, <1>f, <1>2 DEF Complete, closing, input, output
  <2>1. TypeOK' BY <2>p DEF Stages, PCs, Seqs, Slots
  <2>2. ModeInv' BY <2>p DEF ModeInv, FlushPCs
  <2>3. CountInv' BY DEF CountInv, Seqs
  <2>4. HoldInv' BY <2>p DEF HoldInv, Holds, FlushPCs
  <2>5. SlotInv' BY DEF SlotInv
  <2>6. FlusherInv' BY <2>p, HolderFacts DEF FlusherInv, Flusher, FlushPCs
  <2>7. CloserInv' BY <2>p DEF CloserInv, Closer, FlushPCs
  <2>8. IndexCoversParked' BY DEF IndexCoversParked
  <2>9. BoundInv' BY <2>p DEF BoundInv
  <2>10. ReserveInv'
    <3>1. \A u \in Threads \ {t} : UNCHANGED SlotAt(u) BY <2>p DEF SlotAt
    <3> QED BY <2>p, <3>1, ReserveKept DEF PCs
  <2> QED BY <2>1, <2>2, <2>3, <2>4, <2>5, <2>6, <2>7, <2>8, <2>9, <2>10
<1> QED BY <1>1, <1>2 DEF Complete

---------------------------------------------------------------------------
(* Claiming, and the ends of a flush.                                      *)

\* The free slots can be counted.
LEMMA FreeIsFinite == TypeOK => IsFiniteSet(free)
<1>1. IsFiniteSet(Slots) BY BoundsAssumption, FS_Interval DEF Slots
<1> QED BY <1>1, FS_Subset DEF TypeOK

\* A claim takes a slot that nobody touches and the next sequence number.
LEMMA ClaimStep ==
    ASSUME IInv, NEW t \in Threads, Claim(t)
    PROVE  IInv'
<1>0. /\ TypeOK /\ ModeInv /\ pc[t] = "claim" /\ mode[t] = "invocation"
      /\ pc' = [pc EXCEPT ![t] = "submit"]
  BY DEF IInv, TypeOK, Claim, Goto, ModeInv, Modes, FlushPCs
<1>s. PICK slot \in free : /\ free' = free \ {slot}
                           /\ slotOf' = [slotOf EXCEPT ![nextSeq] = slot]
                           /\ staging' = [staging EXCEPT ![slot] = 0]
  BY DEF Claim
<1>c. /\ ~closeStarted /\ blocked = "none" /\ inFlight < MaxInFlight /\ inQueue > 0
      /\ stage' = [stage EXCEPT ![nextSeq] = "ready"]
      /\ nextSeq' = nextSeq + 1 /\ inFlight' = inFlight + 1 /\ inQueue' = inQueue - 1
      /\ UNCHANGED <<nextFlush, flush, closing, tasks, stopped, sent, inClosed, output, calls>>
  BY DEF Claim, CanClaim
<1>n. nextSeq \in Seqs /\ nextSeq < Inputs /\ slot \in Slots
  <2>1. nextSeq \in Nat /\ inQueue \in Nat /\ sent \in 0 .. Inputs /\ Inputs \in Nat
    BY <1>0, BoundsAssumption DEF TypeOK
  <2>2. nextSeq + inQueue <= sent /\ inQueue > 0 BY <1>c DEF IInv, CountInv
  <2>3. slot \in Slots BY <1>0 DEF TypeOK
  <2> QED BY <2>1, <2>2, <2>3 DEF Seqs
<1>j. \A u \in Threads : Holds(u) => job[u] # nextSeq
  BY <1>n, HolderFacts DEF Seqs
<1> USE <1>0, <1>s, <1>c, <1>n DEF IInv, TypeOK, flush, closing, output, calls
<1>1. TypeOK'
  <2>1. nextSeq' \in 0 .. Inputs /\ inQueue' \in 0 .. Inputs /\ inFlight' \in Nat
    BY BoundsAssumption
  <2>2. stage' \in [Seqs -> Stages] BY DEF Stages
  <2>3. slotOf' \in [Seqs -> Slots] /\ free' \subseteq Slots OBVIOUS
  <2>4. staging' \in [Slots -> Nat] OBVIOUS
  <2>5. pc' \in [Threads -> PCs] BY DEF PCs
  <2> QED BY <2>1, <2>2, <2>3, <2>4, <2>5 DEF Seqs, Slots
<1>2. ModeInv' BY DEF ModeInv, FlushPCs
<1>3. CountInv'
  <2>1. nextFlush' <= nextSeq' /\ nextSeq' + inQueue' <= sent' BY DEF CountInv
  <2>2. ASSUME NEW s \in Seqs
        PROVE  /\ stage'[s] = "new" <=> s >= nextSeq'
               /\ stage'[s] = "done" <=> s < nextFlush'
               /\ stage'[s] # "parked"
    BY DEF CountInv, Seqs
  <2>3. inFlight' = nextSeq' - nextFlush' BY DEF CountInv
  <2> QED BY <2>1, <2>2, <2>3 DEF CountInv
<1>4. HoldInv' BY <1>j DEF HoldInv, Holds, FlushPCs
<1>5. SlotInv'
  <2>1. \A s \in Seqs : nextFlush <= s /\ s < nextSeq' =>
            \/ s = nextSeq /\ slotOf'[s] = slot
            \/ nextFlush <= s /\ s < nextSeq /\ slotOf'[s] = slotOf[s] /\ slotOf[s] \notin free
    BY DEF SlotInv, Seqs
  <2>2. Cardinality(free') = Cardinality(free) - 1
    BY FreeIsFinite, FS_RemoveElement
  <2>3. Cardinality(free) = MaxInFlight - inFlight BY DEF SlotInv
  <2>4. Cardinality(free') = MaxInFlight - inFlight'
    BY <2>2, <2>3, BoundsAssumption
  <2>5. \A s \in Seqs : nextFlush' <= s /\ s < nextSeq' => slotOf'[s] \notin free'
    BY <2>1
  <2>6. \A r, s \in Seqs :
          r # s /\ nextFlush' <= r /\ r < nextSeq' /\ nextFlush' <= s /\ s < nextSeq'
          => slotOf'[r] # slotOf'[s]
    BY <2>1 DEF SlotInv
  <2> HIDE DEF IInv, TypeOK
  <2> QED BY <2>4, <2>5, <2>6 DEF SlotInv
<1>6. FlusherInv' BY DEF FlusherInv, Flusher, FlushPCs
<1>7. CloserInv' BY DEF CloserInv, Closer, FlushPCs
<1>8. IndexCoversParked' BY DEF IndexCoversParked
<1>9. BoundInv' BY DEF BoundInv
<1>10. ReserveInv'
  <2>1. ASSUME NEW u \in Threads \ {t}, pc[u] \in {"publish", "release"}
        PROVE  SlotAt(u)' = SlotAt(u) /\ staging'[SlotAt(u)] = staging[SlotAt(u)]
    <3>1. SlotAt(u) \in Touches(u) BY <2>1 DEF Touches
    <3>2. SlotAt(u) # slot BY <3>1, SlotsAreExclusive DEF SlotExclusive
    <3>3. mode[u] = "invocation" => job[u] # nextSeq
      BY <1>j, <2>1 DEF Holds, FlushPCs
    <3>4. SlotAt(u)' = SlotAt(u) BY <3>3 DEF SlotAt
    <3> QED BY <3>2, <3>4
  <2> QED BY <2>1, ReserveKept DEF PCs
<1> QED BY <1>1, <1>2, <1>3, <1>4, <1>5, <1>6, <1>7, <1>8, <1>9, <1>10

\* The flusher takes the next invocation in order, or gives up the flag.
LEMMA PickStep ==
    ASSUME IInv, NEW t \in Threads, Pick(t)
    PROVE  IInv'
<1>0. /\ TypeOK /\ ModeInv /\ pc[t] = "pick" /\ mode[t] = "invocation"
      /\ blocked' = "none" /\ blocked # "open" /\ \A u \in Threads : mode[u] # "open"
      /\ UNCHANGED <<nextSeq, nextFlush, inFlight, free, slotOf, closing,
                     staging, tasks, stopped, input, output>>
  BY OpenFacts DEF IInv, TypeOK, Pick, ModeInv, Modes, FlushPCs, FlusherInv
<1> USE <1>0 DEF IInv, TypeOK, closing, input, output
<1>1. CASE /\ nextFlush \in Seqs /\ stage[nextFlush] \in {"parked", "pending"}
           /\ job' = [job EXCEPT ![t] = nextFlush]
           /\ stage' = [stage EXCEPT ![nextFlush] = "held"]
           /\ Goto(t, "flush")
           /\ UNCHANGED <<flushing, indexed, mode, closes, resumeTo, returnTo>>
           /\ blocked = "invocation" <=> stage[nextFlush] = "parked"
  <2>p. pc' = [pc EXCEPT ![t] = "flush"] BY <1>1 DEF Goto
  <2>n. /\ nextFlush < nextSeq /\ ~closeStarted /\ Flusher(t)
        /\ \A u \in Threads : Holds(u) => job[u] # nextFlush
    <3>1. nextFlush < nextSeq BY <1>1 DEF CountInv, Seqs
    <3>2. ~closeStarted BY <3>1, CloseFacts
    <3>3. \A u \in Threads : Holds(u) => job[u] # nextFlush BY <1>1, HolderFacts
    <3> QED BY <3>1, <3>2, <3>3 DEF Flusher
  <2> USE <1>1, <2>n
  <2>1. TypeOK' BY <2>p DEF Stages, PCs, Seqs, Slots
  <2>2. ModeInv' BY <2>p DEF ModeInv, FlushPCs
  <2>3. CountInv'
    <3>1. ASSUME NEW s \in Seqs
          PROVE  /\ stage'[s] = "new" <=> s >= nextSeq'
                 /\ stage'[s] = "done" <=> s < nextFlush'
                 /\ stage'[s] # "parked"
      BY DEF CountInv, Seqs
    <3>2. inFlight' = nextSeq' - nextFlush' BY DEF CountInv
    <3> QED BY <3>1, <3>2 DEF CountInv
  <2>4. HoldInv' BY <2>p DEF HoldInv, Holds, FlushPCs
  <2>5. SlotInv' BY DEF SlotInv
  <2>6. FlusherInv' BY <2>p DEF FlusherInv, Flusher, FlushPCs
  <2>7. CloserInv' BY <2>p DEF CloserInv, Closer, FlushPCs
  <2>8. IndexCoversParked' BY DEF IndexCoversParked
  <2>9. BoundInv' BY <2>p DEF BoundInv
  <2>10. ReserveInv'
    <3>1. \A u \in Threads \ {t} : UNCHANGED SlotAt(u) BY DEF SlotAt
    <3> QED BY <2>p, <3>1, ReserveKept DEF PCs
  <2> QED BY <2>1, <2>2, <2>3, <2>4, <2>5, <2>6, <2>7, <2>8, <2>9, <2>10
<1>2. CASE /\ blocked # "invocation" /\ flushing' = FALSE /\ indexed' = FALSE
           /\ Finish(t) /\ UNCHANGED stage
  <2>q. QuietMove(t, "schedule") BY FinishIsQuiet, <1>2
  <2> USE <1>2, <2>q DEF QuietMove
  <2>1. TypeOK' BY DEF Stages, PCs, Seqs, Slots, Modes
  <2>2. ModeInv' BY DEF ModeInv, FlushPCs
  <2>3. CountInv' BY DEF CountInv, Seqs
  <2>4. HoldInv' BY DEF HoldInv, Holds, FlushPCs
  <2>5. SlotInv' BY DEF SlotInv
  <2>6. FlusherInv' BY DEF FlusherInv, Flusher, FlushPCs
  <2>7. CloserInv' BY DEF CloserInv, Closer, FlushPCs
  <2>8. IndexCoversParked' BY DEF IndexCoversParked
  <2>9. BoundInv' BY DEF BoundInv
  <2>10. ReserveInv'
    <3>1. \A u \in Threads \ {t} : UNCHANGED SlotAt(u) BY DEF SlotAt
    <3> QED BY <3>1, ReserveKept DEF PCs
  <2> QED BY <2>1, <2>2, <2>3, <2>4, <2>5, <2>6, <2>7, <2>8, <2>9, <2>10
<1>3. \A s \in Seqs : stage[s] = "parked" => s = nextFlush /\ blocked = "invocation"
  BY DEF CountInv
<1> QED BY <1>1, <1>2, <1>3 DEF Pick

\* A settled invocation gives its slot back and moves next_flush_seq.
LEMMA RetireStep ==
    ASSUME IInv, NEW t \in Threads, Retire(t)
    PROVE  IInv'
<1>0. /\ TypeOK /\ pc[t] = "retire" /\ mode[t] = "invocation" /\ pc[t] \in FlushPCs
      /\ pc' = [pc EXCEPT ![t] = "pick"]
  BY DEF IInv, TypeOK, Retire, Goto, ModeInv, Modes, FlushPCs
<1>f. /\ job[t] = nextFlush /\ nextFlush \in Seqs /\ nextFlush < nextSeq
      /\ stage[nextFlush] = "held" /\ blocked = "none" /\ ~closeStarted /\ flushing
      /\ slotOf[nextFlush] \in Slots /\ slotOf[nextFlush] \notin free
      /\ \A u \in Threads \ {t} : /\ pc[u] \notin FlushPCs \cup {"openDone", "pick"}
                                  /\ Holds(u) => job[u] # nextFlush
  <2>1. Holds(t) BY <1>0 DEF Holds
  <2> QED BY <1>0, <2>1, FlusherFacts, HolderFacts DEF IInv, HoldInv, TypeOK
<1>r. /\ nextFlush' = nextFlush + 1 /\ inFlight' = inFlight - 1
      /\ free' = free \cup {slotOf[nextFlush]}
      /\ slotOf' = [slotOf EXCEPT ![nextFlush] = 0]
      /\ stage' = [stage EXCEPT ![nextFlush] = "done"]
      /\ job' = [job EXCEPT ![t] = 0] /\ 0 \in Seqs
      /\ UNCHANGED <<nextSeq, flush, closing, staging, tasks, stopped, input, output,
                     mode, resumeTo, returnTo, closes>>
  BY <1>f, BoundsAssumption DEF Retire, Seqs
<1>i. inFlight = nextSeq - nextFlush
  <2>1. blocked # "open" BY <1>f
  <2> QED BY <1>0, <2>1 DEF IInv, CountInv, TypeOK
<1> USE <1>0, <1>f, <1>r, <1>i DEF IInv, TypeOK, flush, closing, input, output
<1>1. TypeOK'
  <2>1. nextFlush' \in 0 .. Inputs /\ inFlight' \in Nat BY BoundsAssumption DEF Seqs
  <2>2. stage' \in [Seqs -> Stages] BY DEF Stages
  <2>3. slotOf' \in [Seqs -> Slots] /\ free' \subseteq Slots
    <3>1. 0 \in Slots BY BoundsAssumption DEF Slots
    <3> QED BY <3>1
  <2>4. job' \in [Threads -> Seqs] OBVIOUS
  <2>5. pc' \in [Threads -> PCs] BY DEF PCs
  <2> QED BY <2>1, <2>2, <2>3, <2>4, <2>5 DEF Seqs, Slots
<1>2. ModeInv' BY DEF ModeInv, FlushPCs
<1>3. CountInv'
  <2>1. nextFlush' <= nextSeq' /\ nextSeq' + inQueue' <= sent' BY DEF CountInv
  <2>2. ASSUME NEW s \in Seqs
        PROVE  /\ stage'[s] = "new" <=> s >= nextSeq'
               /\ stage'[s] = "done" <=> s < nextFlush'
               /\ stage'[s] # "parked"
    BY DEF CountInv, Seqs
  <2> QED BY <2>1, <2>2 DEF CountInv
<1>4. HoldInv' BY DEF HoldInv, Holds, FlushPCs
<1>5. SlotInv'
  <2>1. \A s \in Seqs : nextFlush' <= s /\ s < nextSeq' =>
            /\ nextFlush <= s /\ s < nextSeq /\ s # nextFlush
            /\ slotOf'[s] = slotOf[s] /\ slotOf[s] \notin free
            /\ slotOf[s] # slotOf[nextFlush]
    <3> SUFFICES ASSUME NEW s \in Seqs, nextFlush' <= s, s < nextSeq'
                 PROVE  /\ nextFlush <= s /\ s < nextSeq /\ s # nextFlush
                        /\ slotOf'[s] = slotOf[s] /\ slotOf[s] \notin free
                        /\ slotOf[s] # slotOf[nextFlush]
      OBVIOUS
    <3>1. s \in Int /\ nextFlush \in Int BY DEF Seqs
    <3>2. nextFlush <= s /\ s < nextSeq /\ s # nextFlush BY <3>1
    <3>3. slotOf'[s] = slotOf[s] BY <3>2
    <3> QED BY <3>2, <3>3 DEF SlotInv
  <2>2. Cardinality(free') = Cardinality(free) + 1
    BY FreeIsFinite, FS_AddElement
  <2>3. Cardinality(free) = MaxInFlight - inFlight BY DEF SlotInv
  <2>4. Cardinality(free') = MaxInFlight - inFlight'
    BY <2>2, <2>3, BoundsAssumption
  <2>5. \A s \in Seqs : nextFlush' <= s /\ s < nextSeq' => slotOf'[s] \notin free'
    BY <2>1
  <2>6. \A r, s \in Seqs :
          r # s /\ nextFlush' <= r /\ r < nextSeq' /\ nextFlush' <= s /\ s < nextSeq'
          => slotOf'[r] # slotOf'[s]
    BY <2>1 DEF SlotInv
  <2> HIDE DEF IInv, TypeOK
  <2> QED BY <2>4, <2>5, <2>6 DEF SlotInv
<1>6. FlusherInv' BY DEF FlusherInv, Flusher, FlushPCs
<1>7. CloserInv' BY DEF CloserInv, Closer, FlushPCs
<1>8. IndexCoversParked' BY DEF IndexCoversParked
<1>9. BoundInv' BY DEF BoundInv, FlushPCs
<1>10. ReserveInv' BY ReserveKept DEF FlushPCs, PCs
<1> QED BY <1>1, <1>2, <1>3, <1>4, <1>5, <1>6, <1>7, <1>8, <1>9, <1>10

\* A flush without room gives its staging back and leaves the index set.
LEMMA ParkStep ==
    ASSUME IInv, NEW t \in Threads, Park(t)
    PROVE  IInv'
<1>0. /\ TypeOK /\ ModeInv /\ pc[t] = "park" /\ pc[t] \in FlushPCs /\ mode[t] \in Modes
      /\ flushing' = FALSE
      /\ UNCHANGED <<nextSeq, nextFlush, inFlight, free, slotOf, closing,
                     staging, tasks, stopped, input, output>>
  BY DEF IInv, TypeOK, Park, FlushPCs
<1>o. \A u \in Threads \ {t} : pc[u] \notin FlushPCs \cup {"openDone", "closing", "closeDone"}
  BY <1>0, FlusherFacts
<1> USE <1>0, <1>o DEF IInv, TypeOK, closing, input, output
<1>1. CASE mode[t] = "invocation"
  <2>f. /\ job[t] = nextFlush /\ nextFlush \in Seqs /\ stage[nextFlush] = "held"
        /\ nextFlush < nextSeq /\ blocked = "none" /\ ~closeStarted
        /\ \A u \in Threads \ {t} : pc[u] # "pick" /\ (Holds(u) => job[u] # nextFlush)
    <3>1. Holds(t) BY <1>1 DEF Holds
    <3> QED BY <1>1, <3>1, FlusherFacts, HolderFacts DEF HoldInv
  <2>a. /\ blocked' = "invocation" /\ indexed' = TRUE /\ Finish(t)
        /\ stage' = [stage EXCEPT ![nextFlush] = "parked"]
    BY <1>1, <2>f DEF Park
  <2>q. QuietMove(t, "schedule") BY <2>a, FinishIsQuiet
  <2> USE <1>1, <2>f, <2>a, <2>q DEF QuietMove
  <2>1. TypeOK' BY DEF Stages, PCs, Seqs, Slots, Modes
  <2>2. ModeInv' BY DEF ModeInv, FlushPCs
  <2>3. CountInv'
    <3>1. ASSUME NEW s \in Seqs
          PROVE  /\ stage'[s] = "new" <=> s >= nextSeq'
                 /\ stage'[s] = "done" <=> s < nextFlush'
                 /\ stage'[s] = "parked" => s = nextFlush'
      BY DEF CountInv, Seqs
    <3>2. inFlight' = nextSeq' - nextFlush' BY DEF CountInv
    <3>3. nextFlush' < Inputs /\ stage'[nextFlush'] = "parked"
      BY BoundsAssumption DEF Seqs
    <3> QED BY <3>1, <3>2, <3>3 DEF CountInv
  <2>4. HoldInv' BY DEF HoldInv, Holds, FlushPCs
  <2>5. SlotInv' BY DEF SlotInv
  <2>6. FlusherInv' BY OpenFacts DEF FlusherInv, Flusher, FlushPCs
  <2>7. CloserInv' BY DEF CloserInv, Closer, FlushPCs
  <2>8. IndexCoversParked' BY DEF IndexCoversParked
  <2>9. BoundInv' BY DEF BoundInv, FlushPCs
  <2>10. ReserveInv' BY ReserveKept DEF PCs, FlushPCs
  <2> QED BY <2>1, <2>2, <2>3, <2>4, <2>5, <2>6, <2>7, <2>8, <2>9, <2>10
<1>2. CASE mode[t] = "close"
  <2>f. /\ closeStarted /\ ~closed /\ blocked = "none" /\ inFlight = 0
        /\ \A u \in Threads : ~Holds(u) /\ mode[u] # "open"
    <3>1. closeStarted /\ ~closed BY <1>2, FlusherFacts
    <3>2. Closer(t) BY <1>2 DEF Closer
    <3>3. blocked = "none" BY <1>2, <3>2 DEF CloserInv
    <3> QED BY <3>1, <3>3, CloseFacts
  <2>a. blocked' = "close" /\ indexed' = TRUE /\ Return(t) /\ UNCHANGED stage
    BY <1>2 DEF Park
  <2>q. PICK p \in QuietPCs \ {"forceClose"} : QuietMove(t, p) BY <2>a, ReturnIsQuiet
  <2> USE <1>2, <2>f, <2>a, <2>q DEF QuietMove, QuietPCs
  <2>1. TypeOK' BY QuietLabels DEF Seqs, Slots, Modes
  <2>2. ModeInv' BY DEF ModeInv, FlushPCs
  <2>3. CountInv' BY DEF CountInv, Seqs
  <2>4. HoldInv' BY DEF HoldInv, Holds, FlushPCs
  <2>5. SlotInv' BY DEF SlotInv
  <2>6. FlusherInv' BY DEF FlusherInv, Flusher, FlushPCs
  <2>7. CloserInv' BY DEF CloserInv, Closer, FlushPCs
  <2>8. IndexCoversParked' BY DEF IndexCoversParked
  <2>9. BoundInv' BY DEF BoundInv, FlushPCs
  <2>10. ReserveInv' BY ReserveKept, QuietLabels DEF FlushPCs
  <2> QED BY <2>1, <2>2, <2>3, <2>4, <2>5, <2>6, <2>7, <2>8, <2>9, <2>10
<1>3. CASE mode[t] \in {"open", "reclose"}
  <2>a. ResumeReturns(t) /\ UNCHANGED <<blocked, indexed, stage>>
    BY <1>3 DEF Park
  <2>q. PICK p \in QuietPCs \ {"forceClose"} : QuietMove(t, p)
    BY <2>a, ResumeReturnsIsQuiet
  <2>f. ~closeStarted => \A u \in Threads \ {t} : ~Flusher(u)
    <3>1. Flusher(t) BY DEF Flusher
    <3> QED BY <3>1 DEF FlusherInv
  <2> USE <2>a, <2>q DEF QuietMove, QuietPCs
  <2>1. TypeOK' BY QuietLabels DEF Seqs, Slots, Modes
  <2>2. ModeInv' BY DEF ModeInv, FlushPCs
  <2>3. CountInv' BY DEF CountInv, Seqs
  <2>4. HoldInv' BY DEF HoldInv, Holds, FlushPCs
  <2>5. SlotInv' BY DEF SlotInv
  <2>6. FlusherInv' BY <2>f DEF FlusherInv, Flusher, FlushPCs
  <2>7. CloserInv' BY DEF CloserInv, Closer, FlushPCs
  <2>8. IndexCoversParked' BY DEF IndexCoversParked
  <2>9. BoundInv' BY <1>3 DEF BoundInv, FlushPCs
  <2>10. ReserveInv' BY ReserveKept, QuietLabels DEF FlushPCs
  <2> QED BY <2>1, <2>2, <2>3, <2>4, <2>5, <2>6, <2>7, <2>8, <2>9, <2>10
<1> QED BY <1>1, <1>2, <1>3 DEF Modes

\* resume_blocked_flushes finds a parked flush and becomes the flusher.
LEMMA CheckStep ==
    ASSUME IInv, NEW t \in Threads, Check(t), ~flushing, blocked # "none"
    PROVE  IInv'
<1>0. /\ TypeOK /\ ModeInv /\ pc[t] = "check" /\ flushing' = TRUE
      /\ UNCHANGED <<sched, blocked, indexed, closing, staging, tasks, stopped, input,
                     output, job, resumeTo, returnTo, closes>>
  BY DEF IInv, Check
<1>p. \/ /\ blocked = "invocation" /\ pc' = [pc EXCEPT ![t] = "pick"]
         /\ mode' = [mode EXCEPT ![t] = "invocation"]
      \/ /\ blocked = "open" /\ pc' = [pc EXCEPT ![t] = "flush"]
         /\ mode' = [mode EXCEPT ![t] = "open"]
      \/ /\ blocked = "close" /\ pc' = [pc EXCEPT ![t] = "flush"]
         /\ mode' = [mode EXCEPT ![t] = "reclose"]
  BY <1>0 DEF Check, Goto, TypeOK
<1>f. /\ ~closeStarted => \A u \in Threads : ~Flusher(u)
      /\ \A u \in Threads : ~Closer(u)
  BY DEF IInv, FlusherInv, CloserInv
<1> USE <1>0, <1>f DEF IInv, TypeOK, sched, closing, input, output
<1>1. TypeOK'
  <2>1. pc' \in [Threads -> PCs] BY <1>p DEF PCs
  <2>2. mode' \in [Threads -> Modes] BY <1>p DEF Modes
  <2> QED BY <2>1, <2>2 DEF Seqs, Slots
<1>2. ModeInv' BY <1>p DEF ModeInv, FlushPCs
<1>3. CountInv' BY DEF CountInv, Seqs
<1>4. HoldInv' BY <1>p DEF HoldInv, Holds, FlushPCs
<1>5. SlotInv' BY DEF SlotInv
<1>6. FlusherInv' BY <1>p DEF FlusherInv, Flusher, FlushPCs
<1>7. CloserInv' BY <1>p DEF CloserInv, Closer, FlushPCs
<1>8. IndexCoversParked' BY DEF IndexCoversParked
<1>9. BoundInv' BY <1>p DEF BoundInv, FlushPCs
<1>10. ReserveInv'
  <2>1. \A u \in Threads \ {t} : UNCHANGED SlotAt(u) BY <1>p DEF SlotAt
  <2> QED BY <1>p, <2>1, ReserveKept DEF PCs
<1> QED BY <1>1, <1>2, <1>3, <1>4, <1>5, <1>6, <1>7, <1>8, <1>9, <1>10

\* Once the output of Open is out, slot 0 and its unit of in_flight are back.
LEMMA OpenDoneStep ==
    ASSUME IInv, NEW t \in Threads, OpenDone(t)
    PROVE  IInv'
<1>0. /\ TypeOK /\ ModeInv /\ pc[t] = "openDone" /\ mode[t] = "open" /\ Flusher(t)
      /\ 0 \in Slots
  BY BoundsAssumption DEF IInv, OpenDone, ModeInv, Flusher, Slots
<1>f. /\ blocked = "open" /\ nextSeq = 0 /\ nextFlush = 0 /\ inFlight = 1
      /\ ~closeStarted /\ 0 \notin free
      /\ \A u \in Threads : ~Holds(u) /\ ~Closer(u)
      /\ \A u \in Threads \ {t} : ~Flusher(u)
  BY <1>0, OpenFacts DEF IInv, FlusherInv
<1>a. /\ blocked' = "none" /\ flushing' = FALSE /\ indexed' = FALSE
      /\ inFlight' = 0 /\ free' = free \cup {0} /\ Finish(t)
      /\ UNCHANGED <<nextSeq, nextFlush, stage, slotOf, closing, staging, tasks,
                     stopped, input, output>>
  BY <1>f DEF OpenDone
<1>q. QuietMove(t, "schedule") BY <1>0, <1>a, FinishIsQuiet
<1> USE <1>0, <1>f, <1>a, <1>q DEF IInv, TypeOK, closing, input, output, QuietMove
<1>1. TypeOK' BY DEF Seqs, Modes, PCs
<1>2. ModeInv' BY DEF ModeInv, FlushPCs
<1>3. CountInv' BY DEF CountInv, Seqs
<1>4. HoldInv' BY DEF HoldInv, Holds, FlushPCs
<1>5. SlotInv'
  <2>1. Cardinality(free') = Cardinality(free) + 1
    BY FreeIsFinite, FS_AddElement
  <2>2. Cardinality(free') = MaxInFlight - inFlight'
    BY <2>1, BoundsAssumption DEF SlotInv
  <2>3. \A s \in Seqs : ~(nextFlush' <= s /\ s < nextSeq') BY DEF Seqs
  <2> HIDE DEF IInv, TypeOK
  <2> QED BY <2>2, <2>3 DEF SlotInv
<1>6. FlusherInv'
  <2>1. \A u \in Threads : mode'[u] # "open" BY DEF ModeInv, Flusher, FlushPCs
  <2> QED BY <2>1 DEF FlusherInv, Flusher, FlushPCs
<1>7. CloserInv' BY DEF CloserInv, Closer, FlushPCs
<1>8. IndexCoversParked' BY DEF IndexCoversParked
<1>9. BoundInv' BY DEF BoundInv, FlushPCs
<1>10. ReserveInv'
  <2>1. \A u \in Threads \ {t} : UNCHANGED SlotAt(u) BY DEF SlotAt
  <2> QED BY <2>1, ReserveKept DEF PCs
<1> QED BY <1>1, <1>2, <1>3, <1>4, <1>5, <1>6, <1>7, <1>8, <1>9, <1>10

---------------------------------------------------------------------------
(* Closing.                                                                *)

\* A close starts only when nothing is claimed, flushed or parked.
LEMMA StartCloseStep ==
    ASSUME IInv, NEW t \in Threads, StartClose(t)
    PROVE  IInv'
<1>0. /\ TypeOK /\ ModeInv /\ mode[t] = "invocation" /\ pc[t] \in {"tryClose", "forceClose"}
      /\ pc' = [pc EXCEPT ![t] = "closing"]
      /\ ~closeStarted /\ inFlight = 0 /\ closeStarted' = TRUE
      /\ inQueue' = 0 /\ (stopped \/ inClosed)
      /\ UNCHANGED <<sched, flush, closed, staging, tasks, stopped, sent, inClosed, output,
                     calls>>
  BY DEF IInv, TypeOK, StartClose, CanClose, Goto, ModeInv, Modes, FlushPCs, CloserInv
<1>f. /\ blocked = "none" /\ ~closed
      /\ \A u \in Threads : ~Closer(u)
  <2>1. nextSeq = nextFlush /\ blocked # "open"
    BY <1>0 DEF IInv, CountInv, TypeOK
  <2>2. blocked # "invocation"
    <3> SUFFICES ASSUME blocked = "invocation" PROVE FALSE OBVIOUS
    <3>1. nextFlush \in Seqs /\ stage[nextFlush] = "parked"
      BY <1>0, BoundsAssumption DEF IInv, CountInv, Seqs, TypeOK
    <3>2. stage[nextFlush] = "new" BY <1>0, <2>1, <3>1 DEF IInv, CountInv, TypeOK
    <3> QED BY <3>1, <3>2
  <2> QED BY <1>0, <2>1, <2>2 DEF IInv, CloserInv, TypeOK
<1> USE <1>0, <1>f DEF IInv, TypeOK, sched, flush, output, calls
<1>1. TypeOK'
  <2>1. pc' \in [Threads -> PCs] BY DEF PCs
  <2>2. inQueue' \in 0 .. Inputs BY BoundsAssumption
  <2> QED BY <2>1, <2>2 DEF Seqs, Slots
<1>2. ModeInv' BY DEF ModeInv, FlushPCs
<1>3. CountInv' BY DEF CountInv, Seqs
<1>4. HoldInv' BY DEF HoldInv, Holds, FlushPCs
<1>5. SlotInv' BY DEF SlotInv
<1>6. FlusherInv' BY DEF FlusherInv, Flusher, FlushPCs
<1>7. CloserInv' BY DEF CloserInv, Closer, FlushPCs
<1>8. IndexCoversParked' BY DEF IndexCoversParked
<1>9. BoundInv' BY DEF BoundInv
<1>10. ReserveInv'
  <2>1. \A u \in Threads : UNCHANGED SlotAt(u) BY DEF SlotAt
  <2> QED BY <2>1, ReserveKept DEF PCs
<1> QED BY <1>1, <1>2, <1>3, <1>4, <1>5, <1>6, <1>7, <1>8, <1>9, <1>10

\* Close may use slot 0: nobody else touches any slot.
LEMMA RunCloseStep ==
    ASSUME IInv, NEW t \in Threads, RunClose(t)
    PROVE  IInv'
<1>0. /\ TypeOK /\ ModeInv /\ pc[t] = "closing" /\ mode[t] = "invocation" /\ Closer(t)
      /\ 0 \in Slots
  <2>1. 0 \in Slots BY BoundsAssumption DEF Slots
  <2>2. pc[t] = "closing" /\ Closer(t) BY DEF RunClose, Closer
  <2>3. mode[t] = "invocation" BY <2>2 DEF IInv, TypeOK, ModeInv, Modes, FlushPCs
  <2> QED BY <2>1, <2>2, <2>3 DEF IInv
<1>p. PICK p \in {"reserve", "closeDone"}, n \in Nat :
          /\ pc' = [pc EXCEPT ![t] = p] /\ staging' = [staging EXCEPT ![0] = n]
          /\ stopped' \in BOOLEAN /\ (stopped => stopped')
          /\ mode' = [mode EXCEPT ![t] = "close"]
          /\ UNCHANGED <<sched, flush, closing, tasks, input, output,
                         job, resumeTo, returnTo, closes>>
  BY <1>0, BoundsAssumption DEF RunClose, Goto, TypeOK
<1>f. /\ closeStarted /\ ~closed /\ blocked = "none"
      /\ \A u \in Threads : ~Holds(u) /\ mode[u] # "open"
      /\ \A u \in Threads \ {t} : ~Closer(u)
  BY <1>0, CloseFacts DEF IInv, CloserInv
<1>o. \A u \in Threads \ {t} : pc[u] \notin FlushPCs
  BY <1>f DEF Holds, Closer, IInv, TypeOK, Modes
<1> USE <1>0, <1>f, <1>o, <1>p DEF IInv, TypeOK, sched, flush, closing, input, output
<1>1. TypeOK'
  <2>1. staging' \in [Slots -> Nat] /\ stopped' \in BOOLEAN OBVIOUS
  <2>2. pc' \in [Threads -> PCs] /\ mode' \in [Threads -> Modes] BY DEF PCs, Modes
  <2> QED BY <2>1, <2>2 DEF Seqs, Slots
<1>2. ModeInv' BY DEF ModeInv, FlushPCs
<1>3. CountInv' BY DEF CountInv, Seqs
<1>4. HoldInv' BY DEF HoldInv, Holds, FlushPCs
<1>5. SlotInv' BY DEF SlotInv
<1>6. FlusherInv' BY DEF FlusherInv, Flusher, FlushPCs
<1>7. CloserInv' BY DEF CloserInv, Closer, FlushPCs
<1>8. IndexCoversParked' BY DEF IndexCoversParked
<1>9. BoundInv' BY DEF BoundInv, FlushPCs
<1>10. ReserveInv' BY ReserveKept DEF PCs, FlushPCs
<1> QED BY <1>1, <1>2, <1>3, <1>4, <1>5, <1>6, <1>7, <1>8, <1>9, <1>10

\* The close that ends is the only one.
LEMMA CloseDoneStep ==
    ASSUME IInv, NEW t \in Threads, CloseDone(t)
    PROVE  IInv'
<1>0. /\ TypeOK /\ ModeInv /\ pc[t] = "closeDone" /\ Closer(t)
      /\ mode[t] \in {"close", "reclose"} /\ pc' = [pc EXCEPT ![t] = "closeEdge"]
      /\ closed' = TRUE
      /\ \/ mode[t] = "close" /\ UNCHANGED flush
         \/ mode[t] = "reclose" /\ blocked' = "none" /\ flushing' = FALSE /\ indexed' = FALSE
      /\ UNCHANGED <<sched, closeStarted, staging, tasks, stopped, input, output, calls>>
  BY DEF IInv, CloseDone, ModeInv, Closer, Goto
<1>f. /\ closeStarted /\ (mode[t] = "close" => blocked = "none")
      /\ \A u \in Threads : ~Holds(u) /\ mode[u] # "open"
      /\ \A u \in Threads \ {t} : ~Closer(u)
  BY <1>0, CloseFacts DEF IInv, CloserInv
<1>b. /\ blocked' = "none" /\ flushing' \in BOOLEAN /\ indexed' \in BOOLEAN
  BY <1>0, <1>f DEF flush, TypeOK
<1> USE <1>0, <1>f, <1>b DEF IInv, TypeOK, sched, input, output, calls
<1>1. TypeOK'
  <2>1. pc' \in [Threads -> PCs] /\ closed' \in BOOLEAN BY DEF PCs
  <2> HIDE <1>0
  <2> QED BY <1>0, <2>1 DEF Seqs, Slots
<1>2. ModeInv' BY DEF ModeInv, FlushPCs
<1>3. CountInv' BY CloseFacts DEF CountInv, Seqs
<1>4. HoldInv' BY DEF HoldInv, Holds, FlushPCs
<1>5. SlotInv' BY DEF SlotInv
<1>6. FlusherInv' BY DEF FlusherInv, Flusher, FlushPCs
<1>7. CloserInv' BY DEF CloserInv, Closer, FlushPCs
<1>8. IndexCoversParked' BY DEF IndexCoversParked
<1>9. BoundInv' BY DEF BoundInv, FlushPCs
<1>10. ReserveInv'
  <2>1. \A u \in Threads : UNCHANGED SlotAt(u) BY DEF SlotAt
  <2> QED BY <2>1, ReserveKept DEF PCs
<1> QED BY <1>1, <1>2, <1>3, <1>4, <1>5, <1>6, <1>7, <1>8, <1>9, <1>10

\* The edge closes after the node.
LEMMA CloseEdgeStep ==
    ASSUME IInv, NEW t \in Threads, CloseEdge(t)
    PROVE  IInv'
<1>0. /\ TypeOK /\ ModeInv /\ pc[t] = "closeEdge" /\ outClosed' = TRUE
      /\ Return(t) \/ ResumeReturns(t)
      /\ UNCHANGED <<sched, flush, closing, staging, tasks, stopped, input, outQueue,
                     reserved, outBound, consumerBusy>>
  BY DEF IInv, CloseEdge
<1>q. PICK p \in QuietPCs \ {"forceClose"} : QuietMove(t, p)
  BY <1>0, ReturnIsQuiet, ResumeReturnsIsQuiet
<1>f. closed /\ closeStarted BY <1>0 DEF IInv, CloserInv
<1> USE <1>0, <1>q, <1>f DEF IInv, TypeOK, QuietMove, QuietPCs, sched, flush, closing, input
<1>1. TypeOK' BY QuietLabels DEF Seqs, Slots, Modes
<1>2. ModeInv' BY DEF ModeInv, FlushPCs
<1>3. CountInv' BY DEF CountInv, Seqs
<1>4. HoldInv' BY DEF HoldInv, Holds, FlushPCs
<1>5. SlotInv' BY DEF SlotInv
<1>6. FlusherInv' BY DEF FlusherInv, Flusher, FlushPCs
<1>7. CloserInv' BY DEF CloserInv, Closer, FlushPCs
<1>8. IndexCoversParked' BY DEF IndexCoversParked
<1>9. BoundInv' BY DEF BoundInv
<1>10. ReserveInv'
  <2>1. \A u \in Threads \ {t} : UNCHANGED SlotAt(u) BY DEF SlotAt
  <2> QED BY <2>1, ReserveKept, QuietLabels
<1> QED BY <1>1, <1>2, <1>3, <1>4, <1>5, <1>6, <1>7, <1>8, <1>9, <1>10

---------------------------------------------------------------------------
(* The invariant.                                                          *)

\* The invariant holds once start() has returned.
LEMMA InitIInv == Init => IInv
<1> SUFFICES ASSUME Init PROVE IInv OBVIOUS
<1> USE BoundsAssumption DEF Init
<1>b. \/ /\ blocked = "none" /\ inFlight = 0 /\ free = Slots /\ indexed = FALSE
      \/ /\ blocked = "open" /\ inFlight = 1 /\ free = Slots \ {0} /\ indexed = TRUE
  OBVIOUS
<1>1. TypeOK
  <2>1. staging \in [Slots -> Nat] OBVIOUS
  <2>2. pc \in [Threads -> PCs] /\ mode \in [Threads -> Modes] BY DEF PCs, Modes
  <2>3. stage \in [Seqs -> Stages] BY DEF Stages
  <2>4. slotOf \in [Seqs -> Slots] /\ job \in [Threads -> Seqs] BY DEF Slots, Seqs
  <2>5. inFlight \in Nat /\ blocked \in {"none", "open", "invocation", "close"}
    BY <1>b
  <2>6. free \subseteq Slots BY <1>b
  <2>7. indexed \in BOOLEAN BY <1>b
  <2>8. /\ flushing \in BOOLEAN /\ closeStarted \in BOOLEAN /\ closed \in BOOLEAN
        /\ stopped \in BOOLEAN /\ inClosed \in BOOLEAN /\ outClosed \in BOOLEAN
        /\ consumerBusy \in BOOLEAN /\ closes \in [Threads -> BOOLEAN]
    OBVIOUS
  <2>9. /\ nextSeq \in 0 .. Inputs /\ nextFlush \in 0 .. Inputs
        /\ tasks \in Nat /\ sent \in 0 .. Inputs /\ inQueue \in 0 .. Inputs
        /\ outQueue \in Nat /\ reserved \in Nat /\ outBound \in 0 .. Inputs
        /\ resumeTo \in [Threads -> {"schedule", "return"}]
        /\ returnTo \in [Threads -> {"idle", "post", "snapshot"}]
    OBVIOUS
  <2> HIDE DEF Init
  <2> QED BY <2>1, <2>2, <2>3, <2>4, <2>5, <2>6, <2>7, <2>8, <2>9 DEF TypeOK
<1>2. ModeInv BY DEF ModeInv
<1>3. CountInv BY DEF CountInv, Seqs
<1>4. HoldInv BY DEF HoldInv, Holds, FlushPCs
<1>5. SlotInv
  <2>1. IsFiniteSet(Slots) /\ Cardinality(Slots) = MaxInFlight
    BY FS_Interval DEF Slots
  <2>2. 0 \in Slots BY DEF Slots
  <2>3. Cardinality(Slots \ {0}) = MaxInFlight - 1
    BY <2>1, <2>2, FS_RemoveElement
  <2>4. Cardinality(free) = MaxInFlight - inFlight BY <1>b, <2>1, <2>3
  <2>5. \A s \in Seqs : ~(nextFlush <= s /\ s < nextSeq) BY DEF Seqs
  <2>6. blocked = "open" => 0 \notin free BY <1>b
  <2> QED BY <2>4, <2>5, <2>6 DEF SlotInv
<1>6. FlusherInv BY DEF FlusherInv, Flusher, FlushPCs
<1>7. CloserInv BY DEF CloserInv, Closer, FlushPCs
<1>8. IndexCoversParked BY <1>b DEF IndexCoversParked
<1>9. BoundInv BY DEF BoundInv
<1>10. ReserveInv BY DEF ReserveInv
<1> QED BY <1>1, <1>2, <1>3, <1>4, <1>5, <1>6, <1>7, <1>8, <1>9, <1>10 DEF IInv

\* Every step of the node, its neighbours and its executor preserves IInv.
LEMMA NextIInv == IInv /\ [Next]_vars => IInv'
<1> SUFFICES ASSUME IInv, [Next]_vars PROVE IInv' OBVIOUS
<1>1. ASSUME NEW t \in Threads, Step(t) PROVE IInv'
  <2>1. CASE TryClaim(t) \/ NoClaim(t) \/ Submit(t) \/ Snapshot(t) \/ MaybeClose(t)
             \/ CannotClose(t)
    BY <2>1, QuietActions
  <2>2. CASE Claim(t) BY <2>2, ClaimStep
  <2>3. CASE Pick(t) BY <2>3, PickStep
  <2>4. CASE StartFlush(t) BY <2>4, StartFlushStep
  <2>5. CASE Reserve(t) BY <2>5, ReserveStep
  <2>6. CASE Publish(t) BY <2>6, PublishStep
  <2>7. CASE Release(t) BY <2>7, ReleaseStep
  <2>8. CASE Park(t) BY <2>8, ParkStep
  <2>9. CASE Retire(t) BY <2>9, RetireStep
  <2>10. CASE Check(t)
    <3>1. pc[t] = "check" BY <2>10 DEF Check
    <3> QED BY <2>10, <3>1, CheckStep, QuietActions
  <2>11. CASE OpenDone(t) BY <2>11, OpenDoneStep
  <2>12. CASE StartClose(t) BY <2>12, StartCloseStep
  <2>13. CASE RunClose(t) BY <2>13, RunCloseStep
  <2>14. CASE CloseDone(t) BY <2>14, CloseDoneStep
  <2>15. CASE CloseEdge(t) BY <2>15, CloseEdgeStep
  <2> QED BY <1>1, <2>1, <2>2, <2>3, <2>4, <2>5, <2>6, <2>7, <2>8, <2>9, <2>10, <2>11,
             <2>12, <2>13, <2>14, <2>15 DEF Step
<1>2. ASSUME NEW w \in Workers, Task(w) PROVE IInv'
  <2>0. w \in Threads BY DEF Threads
  <2>1. CASE TakeTask(w) \/ Post(w) BY <2>0, <2>1, QuietActions
  <2>2. CASE PopReady(w) BY <2>2, PopReadyStep
  <2>3. CASE Process(w) BY <2>3, ProcessStep
  <2>4. CASE ProcessAborts(w) BY <2>4, ProcessAbortsStep
  <2>5. CASE Complete(w) BY <2>5, CompleteStep
  <2> QED BY <1>2, <2>1, <2>2, <2>3, <2>4, <2>5 DEF Task
<1>3. CASE HostCall
  <2>1. Host \in Threads BY DEF Threads
  <2> QED BY <1>3, <2>1, PortCalls, QuietActions DEF HostCall
<1>4. CASE ConsumerCall
  BY <1>4, PortCalls, ConsumerDiscards DEF ConsumerCall
<1>5. CASE UNCHANGED vars
  <2> USE <1>5 DEF IInv, vars, sched, flush, closing, input, output, calls
  <2>1. TypeOK' BY DEF TypeOK, Seqs, Slots
  <2>2. ModeInv' /\ HoldInv' BY DEF ModeInv, HoldInv, Holds
  <2>3. CountInv' /\ SlotInv' BY DEF CountInv, SlotInv
  <2>4. FlusherInv' /\ CloserInv' BY DEF FlusherInv, Flusher, CloserInv, Closer
  <2>5. IndexCoversParked' /\ BoundInv' BY DEF IndexCoversParked, BoundInv
  <2>6. ReserveInv' BY DEF ReserveInv, SlotAt
  <2> QED BY <2>1, <2>2, <2>3, <2>4, <2>5, <2>6
<1> QED BY <1>1, <1>2, <1>3, <1>4, <1>5 DEF Next

\* The invariant holds in every reachable state.
THEOREM Invariant == Spec => []IInv
BY InitIInv, NextIInv, PTL DEF Spec

(***************************************************************************)
(* Type correctness of every reachable state.                              *)
(***************************************************************************)
THEOREM TypeCorrect == Spec => []TypeOK
<1>1. IInv => TypeOK BY DEF IInv
<1> QED BY <1>1, Invariant, PTL

(***************************************************************************)
(* `unsafe ctx_slot` never aliases: run_node, the flusher and maybe_close  *)
(* use different slots, and claimable slots are in nobody's hands.         *)
(***************************************************************************)
THEOREM SlotsNeverShared == Spec => []SlotExclusive
<1> QED BY SlotsAreExclusive, Invariant, PTL

(***************************************************************************)
(* The expect() in try_claim never panics.                                 *)
(***************************************************************************)
THEOREM ClaimNeverPanics == Spec => []FreeSlotExists
<1>1. IInv => FreeSlotExists
  <2> SUFFICES ASSUME IInv, inFlight < MaxInFlight, free = {} PROVE FALSE
    BY DEF FreeSlotExists
  <2>1. Cardinality(free) = 0 BY FS_EmptySet
  <2> QED BY <2>1, BoundsAssumption DEF IInv, SlotInv, TypeOK
<1> QED BY <1>1, Invariant, PTL

(***************************************************************************)
(* Outputs leave in claim order, one at a time, at the promised bound.     *)
(***************************************************************************)
THEOREM PublishesInOrder == Spec => []PublishInOrder
<1>1. IInv => PublishInOrder
  <2> SUFFICES ASSUME IInv, NEW t \in Threads, pc[t] = "publish"
               PROVE  /\ mode[t] = "invocation" => job[t] = nextFlush /\ job[t] = outBound
                      /\ \A u \in Threads \ {t} : pc[u] # "publish"
    BY DEF PublishInOrder
  <2>1. pc[t] \in FlushPCs BY DEF FlushPCs
  <2> QED BY <2>1, FlusherFacts DEF IInv, BoundInv, FlushPCs
<1> QED BY <1>1, Invariant, PTL

(***************************************************************************)
(* Close runs last, and nothing is published after the edge is closed.     *)
(***************************************************************************)
THEOREM CloseComesLast == Spec => []CloseIsLast
<1>1. IInv => CloseIsLast
  <2> SUFFICES ASSUME IInv PROVE CloseIsLast OBVIOUS
  <2>1. ASSUME closeStarted
        PROVE  /\ nextFlush = nextSeq /\ inQueue = 0
               /\ \A t \in Threads : pc[t] \notin {"process", "complete"}
    BY <2>1, CloseFacts DEF IInv, CloserInv, Holds
  <2>2. ASSUME outClosed, NEW t \in Threads
        PROVE  pc[t] \notin {"reserve", "publish", "release", "closing"}
    <3>1. closed /\ closeStarted BY <2>2 DEF IInv, CloserInv
    <3>2. ~Closer(t) BY <3>1 DEF IInv, CloserInv
    <3>3. ~Holds(t) /\ mode[t] # "open" BY <3>1, CloseFacts
    <3>4. mode[t] \in Modes BY DEF IInv, TypeOK
    <3> QED BY <3>2, <3>3, <3>4 DEF Closer, Holds, FlushPCs, Modes
  <2> QED BY <2>1, <2>2 DEF CloseIsLast
<1> QED BY <1>1, Invariant, PTL

(***************************************************************************)
(* Whoever looks for parked flushes through the index finds them.          *)
(***************************************************************************)
THEOREM ParkedIsIndexed == Spec => []IndexCoversParked
<1>1. IInv => IndexCoversParked BY DEF IInv
<1> QED BY <1>1, Invariant, PTL

(***************************************************************************)
(* Two-phase reservations never overfill the consumer's queue, and are all *)
(* returned.                                                               *)
(***************************************************************************)
THEOREM QueueNeverOverfull == Spec => []QueueWithinCapacity
<1>1. IInv => QueueWithinCapacity BY DEF IInv, ReserveInv, QueueWithinCapacity
<1> QED BY <1>1, Invariant, PTL

---------------------------------------------------------------------------
(***************************************************************************)
(* Every behaviour of NodeScheduler is one of OrderedNode: a claim, a      *)
(* publication, a close and a stop map to its actions, everything else -   *)
(* completions out of order, parked flushes, retries - to stuttering.      *)
(***************************************************************************)

\* What OrderedNode sees.
seen == <<sent, inClosed, nextSeq, outBound, outClosed, closeStarted, stopped>>

\* A step that changes none of it stutters.
LEMMA Stutters ==
    ASSUME UNCHANGED seen
    PROVE  UNCHANGED Ordered!vars
BY DEF seen, Ordered!vars, Phase

\* A step that only stops the graph is a halt, or stutters.
LEMMA Halts ==
    ASSUME stopped \in BOOLEAN, stopped' \in {stopped, TRUE},
           UNCHANGED <<sent, inClosed, nextSeq, outBound, outClosed, closeStarted>>
    PROVE  [Ordered!Next]_(Ordered!vars)
<1>1. UNCHANGED Phase BY DEF Phase
<1>2. CASE stopped' = stopped BY <1>1, <1>2 DEF Ordered!vars
<1>3. CASE stopped' # stopped
  <2>1. ~stopped /\ stopped' = TRUE BY <1>3
  <2>2. Ordered!Halt BY <1>1, <2>1 DEF Ordered!Halt
  <2> QED BY <2>2 DEF Ordered!Next
<1> QED BY <1>2, <1>3

\* The initial states agree.
LEMMA InitOrdered == Init => Ordered!Init
BY DEF Init, Ordered!Init, Phase

\* A publication announces exactly the next timestamp, or is dropped.
LEMMA PublishAnnounces ==
    ASSUME IInv, NEW t \in Threads, Publish(t)
    PROVE  [Ordered!Next]_(Ordered!vars)
<1>1. /\ pc[t] = "publish" /\ pc[t] \in FlushPCs
      /\ UNCHANGED <<sent, inClosed, nextSeq, outClosed, closeStarted, stopped>>
  BY DEF Publish, FlushPCs, sched, closing, input
<1> DEFINE dropped == stopped /\ staging[SlotAt(t)] > 0
<1>2. CASE mode[t] = "invocation" /\ ~dropped
  <2>1. job[t] = nextFlush /\ nextFlush < nextSeq /\ ~closeStarted
    BY <1>1, <1>2, FlusherFacts
  <2>2. outBound = nextFlush BY <1>1, <1>2 DEF IInv, BoundInv
  <2>3. ~outClosed BY <2>1 DEF IInv, CloserInv
  <2>4. outBound' = outBound + 1
    BY <1>2, <2>1, <2>2 DEF Publish, IInv, TypeOK
  <2>5. Phase = "open" /\ Phase' = "open" BY <1>1, <2>1, <2>3 DEF Phase
  <2>6. Ordered!Announce BY <1>1, <2>1, <2>2, <2>4, <2>5 DEF Ordered!Announce
  <2> QED BY <2>6 DEF Ordered!Next
<1>3. CASE mode[t] # "invocation" \/ dropped
  <2>1. UNCHANGED outBound BY <1>3 DEF Publish
  <2> QED BY <1>1, <2>1, Stutters DEF seen
<1> QED BY <1>2, <1>3

\* A close starts when everything received is claimed and announced, or by force.
LEMMA StartCloseCloses ==
    ASSUME IInv, NEW t \in Threads, StartClose(t)
    PROVE  [Ordered!Next]_(Ordered!vars)
<1>1. /\ ~closeStarted /\ closeStarted' = TRUE /\ inFlight = 0
      /\ UNCHANGED <<sent, inClosed, nextSeq, outBound, outClosed, stopped>>
  BY DEF StartClose, CanClose, sched, output
<1>2. ~outClosed BY <1>1 DEF IInv, CloserInv
<1>3. Phase = "open" /\ Phase' = "closing" BY <1>1, <1>2 DEF Phase
<1>4. stopped \/ (inClosed /\ outBound = nextSeq /\ nextSeq = sent)
  <2> SUFFICES ASSUME ~stopped PROVE inClosed /\ outBound = nextSeq /\ nextSeq = sent
    OBVIOUS
  <2>1. inClosed /\ inQueue = 0
    BY DEF StartClose, CanClose, IInv, CloserInv
  <2>2. nextSeq = sent BY <1>1, <2>1 DEF IInv, CountInv, TypeOK
  <2>3. nextSeq = nextFlush BY <1>1 DEF IInv, CountInv, TypeOK
  <2>4. \A u \in Threads : ~(pc[u] \in {"release", "retire"} /\ mode[u] = "invocation")
    <3> SUFFICES ASSUME NEW u \in Threads, pc[u] \in {"release", "retire"},
                        mode[u] = "invocation"
                 PROVE  FALSE
      OBVIOUS
    <3>1. pc[u] \in FlushPCs BY DEF FlushPCs
    <3>2. nextFlush < nextSeq BY <3>1, FlusherFacts
    <3> QED BY <2>3, <3>2 DEF IInv, TypeOK
  <2>5. outBound = nextFlush BY <2>4 DEF IInv, BoundInv
  <2> QED BY <2>1, <2>2, <2>3, <2>5
<1>5. Ordered!StartClose BY <1>1, <1>3, <1>4 DEF Ordered!StartClose
<1> QED BY <1>5 DEF Ordered!Next

\* A claim takes a packet that was received.
LEMMA ClaimClaims ==
    ASSUME IInv, NEW t \in Threads, Claim(t)
    PROVE  [Ordered!Next]_(Ordered!vars)
<1>1. /\ ~closeStarted /\ inQueue > 0 /\ nextSeq' = nextSeq + 1
      /\ UNCHANGED <<sent, inClosed, outBound, outClosed, closeStarted, stopped>>
  BY DEF Claim, CanClaim, closing, output
<1>2. ~outClosed BY <1>1 DEF IInv, CloserInv
<1>3. nextSeq < sent BY <1>1 DEF IInv, CountInv, TypeOK
<1>4. Phase = "open" /\ Phase' = "open" BY <1>1, <1>2 DEF Phase
<1>5. Ordered!Claim BY <1>1, <1>3, <1>4 DEF Ordered!Claim
<1> QED BY <1>5 DEF Ordered!Next

\* The close ends when the output edge is closed.
LEMMA CloseEdgeEnds ==
    ASSUME IInv, NEW t \in Threads, CloseEdge(t)
    PROVE  [Ordered!Next]_(Ordered!vars)
<1>1. /\ pc[t] = "closeEdge" /\ outClosed' = TRUE
      /\ UNCHANGED <<sent, inClosed, nextSeq, outBound, closeStarted, stopped>>
  BY DEF CloseEdge, sched, closing, input
<1>2. closeStarted BY <1>1 DEF IInv, CloserInv
<1>3. CASE outClosed BY <1>1, <1>3 DEF Phase, Ordered!vars
<1>4. CASE ~outClosed
  <2>1. Phase = "closing" /\ Phase' = "closed" BY <1>1, <1>2, <1>4 DEF Phase
  <2>2. Ordered!EndClose BY <1>1, <2>1 DEF Ordered!EndClose
  <2> QED BY <2>2 DEF Ordered!Next
<1> QED BY <1>3, <1>4

\* Every step maps to a step of OrderedNode or a stutter.
LEMMA NextOrdered == IInv /\ [Next]_vars => [Ordered!Next]_(Ordered!vars)
<1> SUFFICES ASSUME IInv, [Next]_vars PROVE [Ordered!Next]_(Ordered!vars)
  OBVIOUS
<1>0. stopped \in BOOLEAN BY DEF IInv, TypeOK
<1>1. ASSUME NEW t \in Threads, Step(t) PROVE [Ordered!Next]_(Ordered!vars)
  <2>1. CASE \/ TryClaim(t) \/ NoClaim(t) \/ Submit(t) \/ Snapshot(t) \/ Check(t)
             \/ MaybeClose(t) \/ CannotClose(t)
    BY <2>1, Stutters DEF TryClaim, NoClaim, Submit, Snapshot, Check, MaybeClose, CannotClose,
                          seen, sched, closing, input, output
  <2>2. CASE Pick(t) \/ StartFlush(t) \/ Release(t) \/ Park(t) \/ Retire(t) \/ OpenDone(t)
             \/ CloseDone(t)
    BY <2>2, Stutters DEF Pick, StartFlush, Release, Park, Retire, OpenDone, CloseDone,
                          seen, sched, closing, input, output
  <2>3. CASE Reserve(t) \/ RunClose(t)
    BY <1>0, <2>3, Halts DEF Reserve, RunClose, sched, closing, input, output
  <2>4. CASE Claim(t) BY <2>4, ClaimClaims
  <2>5. CASE Publish(t) BY <2>5, PublishAnnounces
  <2>6. CASE StartClose(t) BY <2>6, StartCloseCloses
  <2>7. CASE CloseEdge(t) BY <2>7, CloseEdgeEnds
  <2> QED BY <1>1, <2>1, <2>2, <2>3, <2>4, <2>5, <2>6, <2>7 DEF Step
<1>2. ASSUME NEW w \in Workers, Task(w) PROVE [Ordered!Next]_(Ordered!vars)
  <2>1. CASE TakeTask(w) \/ PopReady(w) \/ Process(w) \/ Complete(w) \/ Post(w)
    BY <2>1, Stutters DEF TakeTask, PopReady, Process, Complete, Post,
                          seen, sched, closing, input, output
  <2>2. CASE ProcessAborts(w)
    BY <1>0, <2>2, Halts DEF ProcessAborts, sched, closing, input, output
  <2> QED BY <1>2, <2>1, <2>2 DEF Task
<1>3. CASE HostCall
  <2>1. CASE Send
    <3>1. Ordered!Receive
      BY <2>1 DEF Send, Ordered!Receive, Phase, sched, closing, output
    <3> QED BY <3>1 DEF Ordered!Next
  <2>2. CASE CloseInput
    <3>1. Ordered!End
      BY <2>2 DEF CloseInput, Ordered!End, Phase, sched, closing, output
    <3> QED BY <3>1 DEF Ordered!Next
  <2>3. CASE Pump \/ Retry \/ RetryIdle
    BY <2>3, Stutters DEF Pump, Retry, RetryIdle, seen, sched, closing, input, output
  <2>4. CASE Cancel
    BY <1>0, <2>4, Halts DEF Cancel, sched, closing, input, output
  <2> QED BY <1>3, <2>1, <2>2, <2>3, <2>4 DEF HostCall
<1>4. CASE ConsumerCall
  BY <1>4, Stutters DEF ConsumerCall, Dequeue, ConsumerFlush, ConsumerDiscard,
                        seen, sched, closing, input, output
<1>5. CASE UNCHANGED vars
  BY <1>5, Stutters DEF vars, seen, sched, closing, input, output
<1> QED BY <1>1, <1>2, <1>3, <1>4, <1>5 DEF Next

(***************************************************************************)
(* Whatever the number of workers and slots and however invocations        *)
(* overlap, the neighbours of a node see claims and timestamps in order,   *)
(* without gaps, and the close last.                                       *)
(***************************************************************************)
THEOREM ImplementsOrderedNode == Spec => BehavesInOrder
<1>1. Init => Ordered!Init BY InitOrdered
<1>2. IInv /\ [Next]_vars => [Ordered!Next]_(Ordered!vars) BY NextOrdered
<1> QED BY <1>1, <1>2, Invariant, PTL DEF Spec, BehavesInOrder, Ordered!Spec
=============================================================================
