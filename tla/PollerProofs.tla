---------------------------- MODULE PollerProofs ----------------------------
(***************************************************************************)
(* The invariants of Poller hold for any number of readers, any capacity,   *)
(* batches and overflow policy, and any resets, those that overtake readers  *)
(* inside a call included.                                                  *)
(***************************************************************************)
EXTENDS Poller, FiniteSetTheorems, SequenceTheorems, TLAPS

USE ActivityAssumption, PollerAssumption

\* A batch has at least one packet.
LEMMA BatchType ==
    ASSUME TypeOK PROVE options.batch \in Nat \ {0}
BY DEF TypeOK, QueueTypeOK

\* A job starts when there is none, and is the next batch, a failure or the close.
LEMMA JobStarts ==
    ASSUME TypeOK, JobInv, NEW t \in Threads, RunJob(t) \/ CloseJob(t)
    PROVE  /\ runner = Nobody /\ runner' = t /\ step = "none" /\ left = 0
           /\ reset = "no" /\ ~closed
           /\ step' \in {"begin", "close", "finish"}
           /\ step' = "begin" => /\ left' \in 1 .. MaxPackets /\ packet' = packet + 1
                                 /\ packet' + left' - 1 <= MaxPackets
           /\ step' # "begin" => left' = left /\ packet' = packet
           /\ step' = "close" => packet = MaxPackets \/ error \/ cancelled
           /\ DispatchTypeOK'
           /\ error' \in BOOLEAN /\ (error => error')
<1>1. step = "none" /\ left = 0 BY DEF RunJob, CloseJob, CanRun, CanClose, NoJob, JobInv,
                                       Pushing, TypeOK, DispatchTypeOK
<1>4. error \in BOOLEAN BY DEF TypeOK, QueueTypeOK
<1>2. CASE RunJob(t)
  <2>1. packet \in Nat /\ packet < MaxPackets
    BY <1>2 DEF TypeOK, DispatchTypeOK, RunJob, CanRun
  <2>2. CASE step' = "begin"
    <3>1. left' \in 1 .. MaxPackets /\ packet' = packet + 1 /\ packet' + left' - 1 <= MaxPackets
      BY <1>2, <2>1, <2>2, BatchType DEF RunJob
    <3>2. any' \in BOOLEAN /\ error' = error BY <1>2, <2>2 DEF RunJob
    <3>3. runner = Nobody /\ runner' = t /\ reset = "no" /\ ~closed
      BY <1>2 DEF RunJob, CanRun, NoJob
    <3>4. packet' \in 0 .. MaxPackets BY <2>1, <3>1 DEF TypeOK, DispatchTypeOK
    <3>5. DispatchTypeOK' BY <2>2, <3>1, <3>2, <3>3, <3>4 DEF DispatchTypeOK, Steps
    <3> QED BY <1>1, <1>4, <2>2, <3>1, <3>2, <3>3, <3>5
  <2>3. CASE step' # "begin"
    <3>1. error' = TRUE /\ UNCHANGED any BY <1>2, <2>3 DEF RunJob
    <3>2. error' \in BOOLEAN BY <3>1
    <3> QED BY <1>1, <1>2, <2>3, <3>1, <3>2 DEF RunJob, CanRun, NoJob, TypeOK,
               DispatchTypeOK, Steps
  <2> QED BY <2>2, <2>3
<1>3. CASE CloseJob(t)
  BY <1>1, <1>4, <1>3 DEF CloseJob, CanClose, NoJob, TypeOK, DispatchTypeOK, Steps
<1> QED BY <1>2, <1>3

\* A push ends, and with it the batch or not.
LEMMA PushEnds ==
    ASSUME TypeOK, JobInv, Pushing, NEW b \in {TRUE, FALSE}, PushReturns(b)
    PROVE  /\ left' = left - 1 /\ UNCHANGED runner
           /\ left' \in 0 .. MaxPackets /\ packet' \in 1 .. MaxPackets
           /\ step' \in {"begin", "announce", "finish"}
           /\ step' = "begin" => left > 1 /\ packet' = packet + 1
           /\ step' # "begin" => left = 1 /\ packet' = packet
           /\ step' = "begin" => packet' + left' - 1 <= MaxPackets
           /\ DispatchTypeOK'
<1>1. left \in 1 .. MaxPackets /\ packet \in 1 .. MaxPackets /\ packet + left - 1 <= MaxPackets
  BY DEF JobInv, TypeOK, DispatchTypeOK
<1>2. any' \in BOOLEAN BY DEF PushReturns, TypeOK, DispatchTypeOK
<1>3. runner \in Threads \cup {Nobody} BY DEF TypeOK, DispatchTypeOK
<1> QED BY <1>1, <1>2, <1>3 DEF PushReturns, DispatchTypeOK, Steps

\* What is kept of a full queue is a part of it without its head.
LEMMA KeptTail ==
    ASSUME TypeOK, Full
    PROVE  /\ queue # <<>> /\ Len(queue) \in Nat \ {0}
           /\ Kept \in Seq(1 .. MaxPackets) /\ Len(Kept) \in 0 .. Len(queue) - 1
           /\ \A i \in 1 .. Len(Kept) : Kept[i] = queue[i + 1]
<1>1. Len(queue) \in Nat /\ Len(queue) >= 1 BY DEF Full, TypeOK, QueueTypeOK
<1>2. queue # <<>> BY <1>1
<1>3. CASE options.policy = "DropOldest" BY <1>1, <1>2, <1>3 DEF Kept, TypeOK, QueueTypeOK
<1>4. CASE options.policy # "DropOldest" BY <1>1, <1>2, <1>4 DEF Kept
<1> QED BY <1>3, <1>4

\* A packet later than all is appended to a rising sequence.
LEMMA RisingAppend ==
    ASSUME NEW s \in Seq(1 .. MaxPackets), NEW x \in 1 .. MaxPackets, NEW low \in Nat,
           \A i \in 1 .. Len(s) - 1 : s[i] < s[i + 1],
           \A i \in 1 .. Len(s) : s[i] < x,
           s # <<>> => low < Head(s), low < x
    PROVE  /\ Len(Append(s, x)) = Len(s) + 1
           /\ \A i \in 1 .. Len(Append(s, x)) - 1 : Append(s, x)[i] < Append(s, x)[i + 1]
           /\ \A i \in 1 .. Len(Append(s, x)) : Append(s, x)[i] <= x
           /\ low < Head(Append(s, x))
<1> DEFINE a == Append(s, x)
<1>1. Len(s) \in Nat /\ Len(a) = Len(s) + 1 /\ a[Len(s) + 1] = x OBVIOUS
<1>2. \A i \in 1 .. Len(s) : a[i] = s[i] /\ s[i] \in 1 .. MaxPackets OBVIOUS
<1>3. ASSUME NEW i \in 1 .. Len(a) - 1 PROVE a[i] < a[i + 1]
  <2>1. CASE i = Len(s) BY <1>1, <1>2, <2>1
  <2>2. CASE i # Len(s)
    <3>1. i \in 1 .. Len(s) - 1 /\ i + 1 \in 1 .. Len(s) BY <1>1, <1>3, <2>2
    <3> QED BY <1>2, <3>1
  <2> QED BY <2>1, <2>2
<1>4. ASSUME NEW i \in 1 .. Len(a) PROVE a[i] <= x
  <2>1. CASE i = Len(s) + 1 BY <1>1, <2>1
  <2>2. CASE i # Len(s) + 1
    <3>1. i \in 1 .. Len(s) BY <1>1, <1>4, <2>2
    <3>2. a[i] = s[i] /\ s[i] < x /\ s[i] \in Nat BY <1>2, <3>1
    <3> QED BY <3>2
  <2> QED BY <2>1, <2>2
<1>5. low < Head(a)
  <2>1. Head(a) = a[1] BY <1>1
  <2>2. CASE s = <<>> BY <1>1, <2>1, <2>2
  <2>3. CASE s # <<>> BY <1>1, <1>2, <2>1, <2>3
  <2> QED BY <2>2, <2>3
<1> QED BY <1>1, <1>3, <1>4, <1>5

\* A job that starts leaves a lossless stream as it is.
LEMMA LosslessStarts ==
    ASSUME TypeOK, JobInv, LosslessInv, NEW t \in Threads, RunJob(t) \/ CloseJob(t),
           UNCHANGED <<options, inner, cancelled, history, reset>>
    PROVE  LosslessInv'
<1> SUFFICES ASSUME Lossless' PROVE LosslessInv' BY DEF LosslessInv
<1>1. ~error' /\ ~error /\ ~cancelled BY JobStarts DEF Lossless
<1>2. Lossless BY <1>1 DEF Lossless, inner
<1>3. UNCHANGED <<queue, popped, closed, reset>> BY DEF inner, history
<1>4. Pushed' = Pushed BY JobStarts DEF Pushed, TypeOK, DispatchTypeOK
<1>5. ~closed' /\ (step' = "close" => packet' = MaxPackets)
  BY <1>1, <1>3, JobStarts
<1>6. reset = "no" BY JobStarts
<1> QED BY <1>2, <1>3, <1>4, <1>5, <1>6 DEF LosslessInv

\* There are finitely many sleepers to count.
LEMMA SleepersFinite ==
    ASSUME ActivityTypeOK
    PROVE  /\ IsFiniteSet(Sleepers) /\ IsFiniteSet(Missed)
           /\ Cardinality(Threads) \in Nat
           /\ Cardinality(Sleepers) \in 0 .. Cardinality(Threads)
           /\ Cardinality(Missed) \in 0 .. Cardinality(Sleepers)
<1>1. Sleepers \subseteq Threads /\ Missed \subseteq Sleepers
  BY DEF Sleepers, Missed, Sleeping
<1>2. IsFiniteSet(Sleepers) /\ Cardinality(Sleepers) <= Cardinality(Threads)
  BY <1>1, FS_Subset
<1>3. IsFiniteSet(Missed) /\ Cardinality(Missed) <= Cardinality(Sleepers)
  BY <1>1, <1>2, FS_Subset
<1>4. /\ Cardinality(Threads) \in Nat /\ Cardinality(Sleepers) \in Nat
      /\ Cardinality(Missed) \in Nat
  BY <1>2, <1>3, FS_CardinalityType
<1> QED BY <1>2, <1>3, <1>4

\* Who misses no more than before stays within what was forgotten.
LEMMA FewerMiss ==
    ASSUME ActivityTypeOK, MissedOnlyByResets, Missed' \subseteq Missed, UNCHANGED forgotten
    PROVE  MissedOnlyByResets'
<1>1. Cardinality(Missed') <= Cardinality(Missed) /\ Cardinality(Missed') \in Nat
  BY SleepersFinite, FS_Subset, FS_CardinalityType
<1> QED BY <1>1, SleepersFinite DEF MissedOnlyByResets, ActivityTypeOK

\* A notification leaves everyone registered.  It is skipped only if as many sleep as
\* were forgotten, so that no more than these can miss it.
LEMMA NotifyCounted ==
    ASSUME ActivityTypeOK, WaitersCounted, Notify
    PROVE  WaitersCounted' /\ \A u \in Threads : Sleeping(u)' <=> Sleeping(u)
<1>1. \A u \in Threads : Sleeping(u)' <=> Sleeping(u)
  BY DEF Notify, Sleeping, ActivityTypeOK
<1>2. Sleepers' = Sleepers /\ waiters' = waiters /\ forgotten' = forgotten
  BY <1>1 DEF Sleepers, Notify
<1>3. MissedOnlyByResets'
  <2>1. CASE waiters > 0
    <3>1. \A u \in Threads : sleep'[u] # "asleep" BY <2>1 DEF Notify, Sleeping
    <3>2. Missed' = {} BY <3>1 DEF Missed
    <3> QED BY <1>2, <3>2, FS_EmptySet DEF MissedOnlyByResets, ActivityTypeOK
  <2>2. CASE waiters = 0
    <3>1. Cardinality(Sleepers) = forgotten
      BY <2>2, SleepersFinite DEF WaitersCounted, ActivityTypeOK
    <3>2. Missed' \subseteq Sleepers BY <1>2 DEF Missed, Sleepers, Sleeping
    <3>3. Cardinality(Missed') <= Cardinality(Sleepers)
      BY <3>2, SleepersFinite, FS_Subset
    <3> QED BY <1>2, <3>1, <3>3 DEF MissedOnlyByResets
  <2> QED BY <2>1, <2>2 DEF ActivityTypeOK
<1> QED BY <1>1, <1>2, <1>3 DEF WaitersCounted

\* A thread that falls asleep is counted, in the width of the count.
LEMMA FallAsleepCounted ==
    ASSUME ActivityTypeOK, WaitersCounted, NEW t \in Threads, ~Sleeping(t), FallAsleep(t)
    PROVE  WaitersCounted' /\ \A u \in Threads : Sleeping(u)' <=> Sleeping(u) \/ u = t
<1>1. \A u \in Threads : Sleeping(u)' <=> Sleeping(u) \/ u = t
  BY DEF FallAsleep, Sleeping, ActivityTypeOK
<1>2. Sleepers' = Sleepers \cup {t} /\ t \notin Sleepers BY <1>1 DEF Sleepers
<1>3. Cardinality(Sleepers') = Cardinality(Sleepers) + 1
  BY <1>2, SleepersFinite, FS_AddElement
<1>4. Cardinality(Sleepers') <= Cardinality(Threads)
  BY FS_Subset DEF Sleepers
<1>5. MissedOnlyByResets'
  <2>1. Missed' \subseteq Missed BY DEF FallAsleep, Missed, ActivityTypeOK
  <2> QED BY <2>1, FewerMiss DEF FallAsleep, WaitersCounted
<1> DEFINE n == Cardinality(Sleepers)
<1>6. n \in Nat /\ forgotten \in Nat /\ n + 1 <= UsizeMax /\ forgotten <= UsizeMax
  BY <1>3, <1>4, SleepersFinite DEF ActivityTypeOK
<1>7. waiters' = IF n + 1 >= forgotten THEN n + 1 - forgotten
                 ELSE n + 1 - forgotten + UsizeMax + 1
  <2>1. CASE n >= forgotten BY <1>6, <2>1 DEF WaitersCounted, FallAsleep
  <2>2. CASE n + 1 = forgotten BY <1>6, <2>2 DEF WaitersCounted, FallAsleep
  <2>3. CASE n + 1 < forgotten BY <1>6, <2>3 DEF WaitersCounted, FallAsleep
  <2> QED BY <1>6, <2>1, <2>2, <2>3
<1>8. forgotten' = forgotten BY DEF FallAsleep
<1>9. waiters' = IF Cardinality(Sleepers') >= forgotten' THEN Cardinality(Sleepers') - forgotten'
                 ELSE Cardinality(Sleepers') - forgotten' + UsizeMax + 1
  BY <1>3, <1>6, <1>7, <1>8
<1> QED BY <1>1, <1>5, <1>9 DEF WaitersCounted

\* One that wakes up no longer is; below zero the count wraps.
LEMMA WakeUpCounted ==
    ASSUME ActivityTypeOK, WaitersCounted, NEW t \in Threads, Sleeping(t), WakeUp(t)
    PROVE  WaitersCounted' /\ \A u \in Threads : Sleeping(u)' <=> Sleeping(u) /\ u # t
<1>1. \A u \in Threads : Sleeping(u)' <=> Sleeping(u) /\ u # t
  BY DEF WakeUp, Sleeping, ActivityTypeOK
<1>2. Sleepers' = Sleepers \ {t} /\ t \in Sleepers BY <1>1 DEF Sleepers
<1>3. Cardinality(Sleepers') = Cardinality(Sleepers) - 1
  BY <1>2, SleepersFinite, FS_RemoveElement
<1>4. MissedOnlyByResets'
  <2>1. Missed' \subseteq Missed BY DEF WakeUp, Missed, ActivityTypeOK
  <2> QED BY <2>1, FewerMiss DEF WakeUp, WaitersCounted
<1> DEFINE n == Cardinality(Sleepers)
<1>5. n \in Nat \ {0} /\ forgotten \in Nat /\ n <= UsizeMax /\ forgotten <= UsizeMax
  BY <1>2, SleepersFinite, FS_EmptySet DEF ActivityTypeOK
<1>6. waiters' = IF n - 1 >= forgotten THEN n - 1 - forgotten
                 ELSE n - 1 - forgotten + UsizeMax + 1
  <2>1. CASE n > forgotten BY <1>5, <2>1 DEF WaitersCounted, WakeUp
  <2>2. CASE n = forgotten BY <1>5, <2>2 DEF WaitersCounted, WakeUp
  <2>3. CASE n < forgotten BY <1>5, <2>3 DEF WaitersCounted, WakeUp
  <2> QED BY <1>5, <2>1, <2>2, <2>3
<1>7. forgotten' = forgotten BY DEF WakeUp
<1> QED BY <1>1, <1>3, <1>4, <1>6, <1>7 DEF WaitersCounted

\* A thread that looks at the generation misses nothing.
LEMMA CaptureCounted ==
    ASSUME ActivityTypeOK, WaitersCounted, NEW t \in Threads, Capture(t)
    PROVE  WaitersCounted' /\ \A u \in Threads : Sleeping(u)' <=> Sleeping(u)
<1>1. Missed' \subseteq Missed BY DEF Capture, Missed, ActivityTypeOK
<1>2. MissedOnlyByResets' BY <1>1, FewerMiss DEF Capture, WaitersCounted
<1>3. Sleepers' = Sleepers /\ waiters' = waiters BY DEF Capture, Sleepers, Sleeping
<1> QED BY <1>2, <1>3 DEF WaitersCounted, Capture, Sleeping

\* A reset counts nobody; whoever sleeps is forgotten.
LEMMA ForgetCounted ==
    ASSUME ActivityTypeOK, WaitersCounted, ForgetWaiters
    PROVE  WaitersCounted' /\ \A u \in Threads : Sleeping(u)' <=> Sleeping(u)
<1>1. Sleepers' = Sleepers /\ Missed' = Missed
  BY DEF ForgetWaiters, Sleepers, Missed, Sleeping
<1>2. MissedOnlyByResets' BY <1>1, SleepersFinite DEF ForgetWaiters, MissedOnlyByResets
<1>3. waiters' = 0 /\ Cardinality(Sleepers') = forgotten' /\ forgotten' \in Nat
  BY <1>1, SleepersFinite DEF ForgetWaiters
<1> QED BY <1>1, <1>2, <1>3 DEF WaitersCounted, ForgetWaiters, Sleeping

\* Nothing changes for the sleepers.
LEMMA ActivityUnchanged ==
    ASSUME WaitersCounted, UNCHANGED activity
    PROVE  WaitersCounted' /\ \A u \in Threads : Sleeping(u)' <=> Sleeping(u)
<1>1. Sleepers' = Sleepers /\ Missed' = Missed BY DEF activity, Sleepers, Missed, Sleeping
<1> QED BY <1>1 DEF activity, WaitersCounted, MissedOnlyByResets, Sleeping

\* The packets held in a run are finitely many.
LEMMA HeldType ==
    ASSUME TypeOK
    PROVE  /\ IsFiniteSet(Due) /\ Cardinality(Due) \in Nat
           /\ Len(queue) \in Nat /\ Held \in Nat /\ total \in Nat /\ strays \in Nat
<1>1. IsFiniteSet(Readers) BY FS_Subset DEF Readers
<1>2. Due \subseteq Readers BY DEF Taken, Due
<1>3. IsFiniteSet(Due) /\ Cardinality(Due) \in Nat
  BY <1>1, <1>2, FS_Subset, FS_CardinalityType
<1> QED BY <1>3 DEF Held, TypeOK, QueueTypeOK

\* Nothing is put into or taken from the queue.
LEMMA TotalUnchanged ==
    ASSUME TotalWithinStrays, UNCHANGED <<queue, total, strays, reset>>,
           \A u \in Readers :
               pc'[u] = "taken" /\ u \notin late' <=> pc[u] = "taken" /\ u \notin late
    PROVE  TotalWithinStrays'
<1>1. Due' = Due BY DEF Taken, Due
<1> QED BY <1>1 DEF TotalWithinStrays, Held

\* Until the next start the count stays 0.
LEMMA TotalInReset ==
    ASSUME TotalWithinStrays, UNCHANGED total, reset # "no", reset' # "no"
    PROVE  TotalWithinStrays'
BY DEF TotalWithinStrays

\* The state of the waiting threads keeps its type; in particular the count stays
\* within its width.
LEMMA ActivityTypeStep ==
    ASSUME TypeOK, Next
    PROVE  ActivityTypeOK'
<1>1. ASSUME NEW t \in Readers, Call(t) \/ CaptureGen(t) \/ Pop(t) \/ Settle(t) \/
                  Empty(t) \/ CheckError(t) \/ CheckClosed(t) \/ CheckCancelled(t) \/ Pump(t) \/
                  NothingToPump(t)
     PROVE  ActivityTypeOK'
  BY <1>1 DEF Call, CaptureGen, Pop, Settle, Empty, CheckError, CheckClosed,
         CheckCancelled, Pump, NothingToPump, inner, shared, dispatch, host, history,
         activity, Goto, CanRun, CanClose, NoJob, RunJob, CloseJob, Return, Jump,
         Notify, Minus, Capture, TypeOK, ActivityTypeOK, DispatchTypeOK, Readers
<1>2. ASSUME NEW t \in Readers, Wait(t) PROVE ActivityTypeOK'
  BY <1>2 DEF Wait, inner, shared, dispatch, host, history, activity, Return, Jump,
         FallAsleep, Goto, TypeOK, ActivityTypeOK, DispatchTypeOK, Readers
<1>3. ASSUME NEW t \in Readers, Notified(t) PROVE ActivityTypeOK'
  BY <1>3 DEF Notified, Awake, inner, shared, dispatch, host, history, Goto, WakeUp,
         TypeOK, ActivityTypeOK, DispatchTypeOK, Readers
<1>4. ASSUME NEW t \in Readers, TimedOut(t) PROVE ActivityTypeOK'
  BY <1>4 DEF TimedOut, Awake, inner, shared, dispatch, host, history, Goto, WakeUp,
         TypeOK, ActivityTypeOK, DispatchTypeOK, Readers
<1>5. ASSUME PoolStarts \/ Enqueue \/ Inactive \/ Replace \/ DropNewest \/ Block \/
                  GiveUp \/ Expire \/ Stall \/ Close \/ Release \/ Cancel \/ Drop \/ Clear \/ Reset
                  \/ ResetClosed
     PROVE  ActivityTypeOK'
  BY <1>5 DEF PoolStarts, Enqueue, Inactive, Replace, DropNewest, Block, GiveUp, Expire,
         Stall, Close, Release, Cancel, Drop, Clear, Reset, ResetClosed, shared, reader,
         dispatch, history, activity, inner, Cleared, Minus, host, NextStep,
         Stopped, PushReturns, Full, Kept, RunJob, CloseJob, CanClose, NoJob, CanRun,
         TypeOK, ActivityTypeOK, DispatchTypeOK, Readers
<1>6. ASSUME Begin PROVE ActivityTypeOK'
  <2>1. CASE Capture(runner) BY <2>1 DEF Capture, TypeOK, ActivityTypeOK
  <2>2. CASE UNCHANGED activity BY <2>2 DEF activity, TypeOK, ActivityTypeOK
  <2> QED BY <1>6, <2>1, <2>2 DEF Begin
<1>7. ASSUME PushWaits PROVE ActivityTypeOK'
  BY <1>7 DEF PushWaits, inner, shared, reader, host, history, activity, FallAsleep,
         NextStep, TypeOK, ActivityTypeOK, DispatchTypeOK, Readers
<1>8. ASSUME PushNotified PROVE ActivityTypeOK'
  <2>1. WakeUp(runner) BY <1>8 DEF PushNotified, PushAwake
  <2>2. waiters' \in 0 .. UsizeMax BY <2>1 DEF WakeUp, TypeOK, ActivityTypeOK
  <2>3. sleep' \in [Threads -> {"no", "asleep", "notified"}]
    BY <2>1 DEF WakeUp, TypeOK, ActivityTypeOK
  <2> QED BY <2>1, <2>2, <2>3 DEF WakeUp, TypeOK, ActivityTypeOK
<1>9. ASSUME PushTimedOut PROVE ActivityTypeOK'
  <2>1. WakeUp(runner) BY <1>9 DEF PushTimedOut, PushAwake
  <2>2. waiters' \in 0 .. UsizeMax BY <2>1 DEF WakeUp, TypeOK, ActivityTypeOK
  <2>3. sleep' \in [Threads -> {"no", "asleep", "notified"}]
    BY <2>1 DEF WakeUp, TypeOK, ActivityTypeOK
  <2> QED BY <2>1, <2>2, <2>3 DEF WakeUp, TypeOK, ActivityTypeOK
<1>10. ASSUME Announce PROVE ActivityTypeOK'
  BY <1>10 DEF Announce, inner, shared, reader, host, history, Notify, NextStep, TypeOK,
         ActivityTypeOK, DispatchTypeOK, Readers
<1>11. ASSUME CancelAnnounced PROVE ActivityTypeOK'
  BY <1>11 DEF CancelAnnounced, inner, shared, reader, dispatch, history, Notify,
         TypeOK, ActivityTypeOK, DispatchTypeOK, Readers
<1>12. ASSUME DropAnnounced PROVE ActivityTypeOK'
  BY <1>12 DEF DropAnnounced, inner, shared, reader, dispatch, history, Notify, TypeOK,
         ActivityTypeOK, DispatchTypeOK, Readers
<1>13. ASSUME ResetQueue PROVE ActivityTypeOK'
  BY <1>13 DEF ResetQueue, reader, dispatch, history, Notify, Cleared, Minus, TypeOK,
         ActivityTypeOK, DispatchTypeOK, Readers
<1>14. ASSUME ResetWaiters PROVE ActivityTypeOK'
  <2>1. Cardinality(Sleepers) \in 0 .. Cardinality(Threads)
    BY SleepersFinite DEF TypeOK
  <2> QED BY <1>14, <2>1 DEF ResetWaiters, ForgetWaiters, TypeOK, ActivityTypeOK
<1>15. ASSUME Start PROVE ActivityTypeOK'
  BY <1>15 DEF Start, inner, shared, reader, Notify, TypeOK, ActivityTypeOK,
         DispatchTypeOK, Readers
<1> QED BY <1>1, <1>2, <1>3, <1>4, <1>5, <1>6, <1>7, <1>8, <1>9, <1>10, <1>11, <1>12,
           <1>13, <1>14, <1>15 DEF Next, Read, Produce, Push, Host

\* The queue and the shared state keep their types.
LEMMA QueueTypeStep ==
    ASSUME TypeOK, JobInv, Next
    PROVE  QueueTypeOK'
<1>1. ASSUME NEW t \in Readers, Call(t) \/ CaptureGen(t) \/ CheckError(t) \/
                  CheckClosed(t) \/ CheckCancelled(t) \/ NothingToPump(t) \/ Wait(t) \/ Notified(t)
                  \/ TimedOut(t)
     PROVE  QueueTypeOK'
  BY <1>1 DEF Call, CaptureGen, CheckError, CheckClosed, CheckCancelled, NothingToPump,
         Wait, Notified, TimedOut, Awake, inner, shared, dispatch, host, history,
         WakeUp, activity, CanRun, CanClose, NoJob, TypeOK, QueueTypeOK
<1>2. ASSUME NEW t \in Readers, Pop(t) PROVE QueueTypeOK'
  BY <1>2 DEF Pop, shared, dispatch, host, activity, TypeOK, QueueTypeOK
<1>3. ASSUME NEW t \in Readers, Settle(t) PROVE QueueTypeOK'
  BY <1>3 DEF Settle, inner, dispatch, host, history, Minus, TypeOK, QueueTypeOK
<1>4. ASSUME NEW t \in Readers, Empty(t) PROVE QueueTypeOK'
  <2>1. ended' \in BOOLEAN BY <1>4 DEF Empty, TypeOK, QueueTypeOK
  <2> QED BY <1>4, <2>1 DEF Empty, inner, shared, TypeOK, QueueTypeOK
<1>5. ASSUME NEW t \in Readers, Pump(t) PROVE QueueTypeOK'
  <2>1. t \in Threads /\ (RunJob(t) \/ CloseJob(t)) BY <1>5 DEF Pump, Readers
  <2>2. error' \in BOOLEAN BY <2>1, JobStarts
  <2> QED BY <1>5, <2>2 DEF Pump, inner, history, TypeOK, QueueTypeOK
<1>6. ASSUME Begin \/ Inactive \/ DropNewest \/ Block \/ GiveUp \/ Stall \/ PushWaits \/
                  PushNotified \/ PushTimedOut \/ Announce \/ Release \/ CancelAnnounced \/
                  DropAnnounced \/ ResetWaiters
     PROVE  QueueTypeOK'
  BY <1>6 DEF Begin, Inactive, DropNewest, Block, GiveUp, Stall, PushWaits,
         PushNotified, PushTimedOut, Announce, Release, CancelAnnounced, DropAnnounced,
         ResetWaiters, inner, shared, reader, dispatch, history, ForgetWaiters, host,
         activity, PushAwake, WakeUp, Stopped, TypeOK, QueueTypeOK
<1>7. ASSUME PoolStarts PROVE QueueTypeOK'
  <2>1. error' \in BOOLEAN BY <1>7, JobStarts DEF PoolStarts
  <2> QED BY <1>7, <2>1 DEF PoolStarts, inner, history, TypeOK, QueueTypeOK
<1>8. ASSUME Enqueue PROVE QueueTypeOK'
  <2>1. packet \in 1 .. MaxPackets
    BY <1>8 DEF Enqueue, JobInv, Pushing, TypeOK, DispatchTypeOK
  <2> QED BY <1>8, <2>1 DEF Enqueue, history, TypeOK, QueueTypeOK
<1>9. ASSUME Replace PROVE QueueTypeOK'
  <2>1. packet \in 1 .. MaxPackets
    BY <1>9 DEF Replace, JobInv, Pushing, TypeOK, DispatchTypeOK
  <2>2. queue' \in Seq(1 .. MaxPackets) /\ total' \in Nat
    BY <1>9, <2>1, KeptTail DEF Replace, Minus, TypeOK, QueueTypeOK
  <2> QED BY <1>9, <2>2 DEF Replace, history, TypeOK, QueueTypeOK
<1>10. ASSUME Expire PROVE QueueTypeOK'
  <2>1. error' \in BOOLEAN BY <1>10 DEF Expire
  <2> QED BY <1>10, <2>1 DEF Expire, inner, shared, history, TypeOK, QueueTypeOK
<1>11. ASSUME Close PROVE QueueTypeOK'
  <2>1. closed' \in BOOLEAN BY <1>11 DEF Close
  <2> QED BY <1>11, <2>1 DEF Close, inner, shared, history, TypeOK, QueueTypeOK
<1>12. ASSUME Cancel PROVE QueueTypeOK'
  <2>1. cancelled' \in BOOLEAN BY <1>12 DEF Cancel
  <2> QED BY <1>12, <2>1 DEF Cancel, inner, shared, history, TypeOK, QueueTypeOK
<1>13. ASSUME Drop PROVE QueueTypeOK'
  <2>1. active' \in BOOLEAN BY <1>13 DEF Drop
  <2> QED BY <1>13, <2>1 DEF Drop, inner, shared, history, TypeOK, QueueTypeOK
<1>14. ASSUME Clear PROVE QueueTypeOK'
  BY <1>14 DEF Clear, reader, dispatch, history, activity, Cleared, Minus, TypeOK,
         QueueTypeOK
<1>15. ASSUME Reset PROVE QueueTypeOK'
  <2>1. error' \in BOOLEAN /\ cancelled' \in BOOLEAN BY <1>15 DEF Reset
  <2> QED BY <1>15, <2>1 DEF Reset, inner, history, TypeOK, QueueTypeOK
<1>16. ASSUME ResetQueue PROVE QueueTypeOK'
  BY <1>16 DEF ResetQueue, reader, dispatch, history, Cleared, Minus, TypeOK,
         QueueTypeOK
<1>17. ASSUME ResetClosed PROVE QueueTypeOK'
  <2>1. closed' \in BOOLEAN BY <1>17 DEF ResetClosed
  <2> QED BY <1>17, <2>1 DEF ResetClosed, inner, shared, history, TypeOK, QueueTypeOK
<1>18. ASSUME Start PROVE QueueTypeOK'
  <2>1. ended' \in BOOLEAN BY <1>18 DEF Start
  <2> QED BY <1>18, <2>1 DEF Start, inner, shared, TypeOK, QueueTypeOK
<1> QED BY <1>1, <1>2, <1>3, <1>4, <1>5, <1>6, <1>7, <1>8, <1>9, <1>10, <1>11, <1>12,
           <1>13, <1>14, <1>15, <1>16, <1>17, <1>18 DEF Next, Read, Produce, Push, Host

\* The readers are always at a label of their calls.
LEMMA ReaderTypeStep ==
    ASSUME TypeOK, Next
    PROVE  ReaderTypeOK'
<1>1. ASSUME NEW t \in Readers, Call(t) \/ CaptureGen(t) \/ Pop(t) \/ Empty(t) \/
                  CheckError(t) \/ CheckClosed(t) \/ CheckCancelled(t) \/ NothingToPump(t) \/
                  Notified(t) \/ TimedOut(t)
     PROVE  ReaderTypeOK'
  BY <1>1 DEF Call, CaptureGen, Pop, Empty, CheckError, CheckClosed, CheckCancelled,
         NothingToPump, Notified, TimedOut, Awake, inner, shared, dispatch, host,
         history, Goto, WakeUp, activity, CanRun, CanClose, NoJob, Return, Jump,
         Capture, TypeOK, ReaderTypeOK, ReaderPCs
<1>2. ASSUME NEW t \in Readers, Settle(t) PROVE ReaderTypeOK'
  BY <1>2 DEF Settle, inner, dispatch, host, history, Return, Notify, Minus, Goto,
         TypeOK, ReaderTypeOK, ReaderPCs
<1>3. ASSUME NEW t \in Readers, Pump(t) PROVE ReaderTypeOK'
  BY <1>3 DEF Pump, Goto, TypeOK, ReaderTypeOK, ReaderPCs
<1>4. ASSUME NEW t \in Readers, Wait(t) PROVE ReaderTypeOK'
  BY <1>4 DEF Wait, inner, shared, dispatch, host, history, activity, Return, Jump,
         FallAsleep, Goto, TypeOK, ReaderTypeOK, ReaderPCs
<1>5. ASSUME Begin \/ Enqueue \/ Inactive \/ Replace \/ DropNewest \/ Block \/ GiveUp \/
                  Expire \/ Stall \/ PushWaits \/ PushNotified \/ PushTimedOut \/ Announce \/ Close
                  \/ Cancel \/ CancelAnnounced \/ Drop \/ Clear \/ DropAnnounced \/ Reset \/
                  ResetQueue \/ ResetClosed \/ ResetWaiters \/ Start
     PROVE  ReaderTypeOK'
  BY <1>5 DEF Begin, Enqueue, Inactive, Replace, DropNewest, Block, GiveUp, Expire,
         Stall, PushWaits, PushNotified, PushTimedOut, Announce, Close, Cancel,
         CancelAnnounced, Drop, Clear, DropAnnounced, Reset, ResetQueue, ResetClosed,
         ResetWaiters, Start, inner, shared, reader, Notify, dispatch, history,
         ForgetWaiters, activity, Cleared, Minus, host, NextStep, PushAwake,
         WakeUp, FallAsleep, Stopped, PushReturns, Full, Kept, Capture, TypeOK,
         ReaderTypeOK, ReaderPCs
<1>6. ASSUME PoolStarts PROVE ReaderTypeOK'
  BY <1>6 DEF PoolStarts, reader, TypeOK, ReaderTypeOK
<1>7. ASSUME Release PROVE ReaderTypeOK'
  BY <1>7 DEF Release, inner, shared, host, history, activity, TypeOK, ReaderTypeOK,
         ReaderPCs
<1> QED BY <1>1, <1>2, <1>3, <1>4, <1>5, <1>6, <1>7 DEF Next, Read, Produce, Push, Host

\* The job under way keeps its type: a batch never runs past the packets there are.
LEMMA DispatchTypeStep ==
    ASSUME TypeOK, JobInv, Next
    PROVE  DispatchTypeOK'
<1>1. ASSUME NEW t \in Readers, Call(t) \/ CaptureGen(t) \/ Pop(t) \/ Settle(t) \/
                  Empty(t) \/ CheckError(t) \/ CheckClosed(t) \/ CheckCancelled(t) \/
                  NothingToPump(t) \/ Wait(t) \/ Notified(t) \/ TimedOut(t)
     PROVE  DispatchTypeOK'
  BY <1>1 DEF Call, CaptureGen, Pop, Settle, Empty, CheckError, CheckClosed,
         CheckCancelled, NothingToPump, Wait, Notified, TimedOut, Awake, inner, shared,
         dispatch, host, history, Goto, WakeUp, activity, Return, Jump, FallAsleep,
         CanRun, CanClose, NoJob, Notify, Minus, Capture, TypeOK, DispatchTypeOK, Steps
<1>2. ASSUME NEW t \in Readers, Pump(t) PROVE DispatchTypeOK'
  <2>1. t \in Threads BY DEF Readers
  <2> QED BY <1>2, <2>1, JobStarts DEF Pump
<1>3. ASSUME Block \/ Stall \/ PushWaits \/ PushNotified \/ PushTimedOut \/ Announce \/
                  Close \/ Release \/ Cancel \/ CancelAnnounced \/ Drop \/ Clear \/ DropAnnounced
                  \/ Reset \/ ResetQueue \/ ResetClosed \/ ResetWaiters \/ Start
     PROVE  DispatchTypeOK'
  BY <1>3 DEF Block, Stall, PushWaits, PushNotified, PushTimedOut, Announce, Close,
         Release, Cancel, CancelAnnounced, Drop, Clear, DropAnnounced, Reset,
         ResetQueue, ResetClosed, ResetWaiters, Start, inner, shared, reader, Notify,
         dispatch, history, ForgetWaiters, activity, Cleared, Minus, host,
         NextStep, PushAwake, WakeUp, FallAsleep, Stopped, Full, TypeOK, DispatchTypeOK,
         Steps
<1>4. ASSUME PoolStarts PROVE DispatchTypeOK'
  BY <1>4, JobStarts DEF PoolStarts
<1>5. ASSUME Begin PROVE DispatchTypeOK'
  <2>1. CASE NextStep("lock") BY <2>1 DEF NextStep, TypeOK, DispatchTypeOK, Steps
  <2>2. CASE PushReturns(FALSE) BY <1>5, <2>2, PushEnds DEF Begin, Pushing
  <2> QED BY <1>5, <2>1, <2>2 DEF Begin
<1>6. ASSUME Enqueue PROVE DispatchTypeOK'
  BY <1>6, PushEnds DEF Enqueue, Pushing
<1>7. ASSUME Inactive PROVE DispatchTypeOK'
  BY <1>7, PushEnds DEF Inactive, Pushing
<1>8. ASSUME Replace PROVE DispatchTypeOK'
  BY <1>8, PushEnds DEF Replace, Pushing
<1>9. ASSUME DropNewest PROVE DispatchTypeOK'
  BY <1>9, PushEnds DEF DropNewest, Pushing
<1>10. ASSUME GiveUp PROVE DispatchTypeOK'
  BY <1>10, PushEnds DEF GiveUp, Pushing
<1>11. ASSUME Expire PROVE DispatchTypeOK'
  BY <1>11, PushEnds DEF Expire, Pushing
<1> QED BY <1>1, <1>2, <1>3, <1>4, <1>5, <1>6, <1>7, <1>8, <1>9, <1>10, <1>11 DEF Next,
           Read, Produce, Push, Host

\* The host keeps its type.
LEMMA HostTypeStep ==
    ASSUME TypeOK, Next
    PROVE  HostTypeOK'
<1>1. ASSUME NEW t \in Readers, Call(t) \/ CaptureGen(t) \/ Pop(t) \/ Settle(t) \/
                  Empty(t) \/ CheckError(t) \/ CheckClosed(t) \/ CheckCancelled(t) \/ Pump(t) \/
                  NothingToPump(t) \/ Wait(t) \/ Notified(t) \/ TimedOut(t)
     PROVE  HostTypeOK'
  BY <1>1 DEF Call, CaptureGen, Pop, Settle, Empty, CheckError, CheckClosed,
         CheckCancelled, Pump, NothingToPump, Wait, Notified, TimedOut, Awake, inner,
         shared, dispatch, host, history, Goto, WakeUp, activity, Return, Jump,
         FallAsleep, CanRun, CanClose, NoJob, Notify, Minus, Capture, TypeOK, HostTypeOK
<1>2. ASSUME PoolStarts \/ Begin \/ Enqueue \/ Inactive \/ Replace \/ DropNewest \/
                  Block \/ GiveUp \/ Expire \/ Stall \/ PushWaits \/ PushNotified \/ PushTimedOut
                  \/ Announce \/ Close \/ Release
     PROVE  HostTypeOK'
  BY <1>2 DEF PoolStarts, Begin, Enqueue, Inactive, Replace, DropNewest, Block, GiveUp,
         Expire, Stall, PushWaits, PushNotified, PushTimedOut, Announce, Close, Release,
         inner, shared, host, history, activity, reader, NextStep, Notify, PushAwake,
         WakeUp, FallAsleep, Stopped, Full, Kept, Minus, Capture, CanClose, NoJob,
         CanRun, TypeOK, HostTypeOK
<1>3. ASSUME Cancel PROVE HostTypeOK'
  BY <1>3 DEF Cancel, inner, reader, dispatch, history, activity, TypeOK, HostTypeOK
<1>4. ASSUME CancelAnnounced PROVE HostTypeOK'
  BY <1>4 DEF CancelAnnounced, inner, shared, reader, dispatch, history, Notify, TypeOK,
         HostTypeOK
<1>5. ASSUME Drop PROVE HostTypeOK'
  BY <1>5 DEF Drop, shared, reader, dispatch, history, activity, TypeOK, HostTypeOK
<1>6. ASSUME Clear PROVE HostTypeOK'
  BY <1>6 DEF Clear, reader, dispatch, history, activity, Cleared, Minus, TypeOK,
         HostTypeOK
<1>7. ASSUME DropAnnounced PROVE HostTypeOK'
  BY <1>7 DEF DropAnnounced, inner, shared, reader, dispatch, history, Notify, TypeOK,
         HostTypeOK
<1>8. ASSUME Reset PROVE HostTypeOK'
  BY <1>8 DEF Reset, inner, reader, dispatch, history, activity, TypeOK,
         HostTypeOK
<1>9. ASSUME ResetQueue PROVE HostTypeOK'
  BY <1>9 DEF ResetQueue, reader, dispatch, history, Notify, Cleared, Minus, TypeOK,
         HostTypeOK
<1>10. ASSUME ResetClosed PROVE HostTypeOK'
  BY <1>10 DEF ResetClosed, shared, reader, dispatch, history, activity, TypeOK,
         HostTypeOK
<1>11. ASSUME ResetWaiters PROVE HostTypeOK'
  BY <1>11 DEF ResetWaiters, inner, shared, reader, dispatch, history, ForgetWaiters,
         TypeOK, HostTypeOK
<1>12. ASSUME Start PROVE HostTypeOK'
  BY <1>12 DEF Start, inner, shared, reader, Notify, TypeOK, HostTypeOK
<1> QED BY <1>1, <1>2, <1>3, <1>4, <1>5, <1>6, <1>7, <1>8, <1>9, <1>10, <1>11, <1>12 DEF
           Next, Read, Produce, Push, Host

\* A poller is active until its owner drops it, and never again.
LEMMA DropStep ==
    ASSUME TypeOK, DropInv, Next
    PROVE  DropInv'
<1>1. ASSUME NEW t \in Readers, Call(t) \/ CaptureGen(t) \/ Pop(t) \/ Settle(t) \/
                  Empty(t) \/ CheckError(t) \/ CheckClosed(t) \/ CheckCancelled(t) \/ Pump(t) \/
                  NothingToPump(t) \/ Wait(t) \/ Notified(t) \/ TimedOut(t)
     PROVE  DropInv'
  BY <1>1 DEF Call, CaptureGen, Pop, Settle, Empty, CheckError, CheckClosed,
         CheckCancelled, Pump, NothingToPump, Wait, Notified, TimedOut, Awake, inner,
         shared, dispatch, host, history, Goto, WakeUp, activity, Return, Jump,
         FallAsleep, CanRun, CanClose, NoJob, RunJob, CloseJob, Notify, Minus, Capture,
         TypeOK, QueueTypeOK, HostTypeOK, DropInv
<1>2. ASSUME PoolStarts \/ Begin \/ Enqueue \/ Inactive \/ Replace \/ DropNewest \/
                  Block \/ GiveUp \/ Expire \/ Stall \/ PushWaits \/ PushNotified \/ PushTimedOut
                  \/ Announce \/ Close \/ Release \/ Cancel \/ CancelAnnounced \/ Drop \/ Clear \/
                  DropAnnounced \/ Reset \/ ResetQueue \/ ResetClosed \/ ResetWaiters \/ Start
     PROVE  DropInv'
  BY <1>2 DEF PoolStarts, Begin, Enqueue, Inactive, Replace, DropNewest, Block, GiveUp,
         Expire, Stall, PushWaits, PushNotified, PushTimedOut, Announce, Close, Release,
         Cancel, CancelAnnounced, Drop, Clear, DropAnnounced, Reset, ResetQueue,
         ResetClosed, ResetWaiters, Start, inner, shared, reader, Notify, dispatch,
         history, ForgetWaiters, activity, Cleared, Minus, host, NextStep,
         PushAwake, WakeUp, FallAsleep, Stopped, PushReturns, Full, Kept, Capture,
         RunJob, CloseJob, CanClose, NoJob, CanRun, TypeOK, QueueTypeOK, HostTypeOK,
         DropInv
<1> QED BY <1>1, <1>2 DEF Next, Read, Produce, Push, Host

\* A push on its way into a dropped poller finds it inactive under the queue lock.
LEMMA EmptyStep ==
    ASSUME TypeOK, DropInv, DroppedStaysEmpty, Next
    PROVE  DroppedStaysEmpty'
<1>1. ASSUME NEW t \in Readers, Call(t) \/ CaptureGen(t) \/ Pop(t) \/ Settle(t) \/
                  Empty(t) \/ CheckError(t) \/ CheckClosed(t) \/ CheckCancelled(t) \/ Pump(t) \/
                  NothingToPump(t) \/ Wait(t) \/ Notified(t) \/ TimedOut(t)
     PROVE  DroppedStaysEmpty'
  BY <1>1 DEF Call, CaptureGen, Pop, Settle, Empty, CheckError, CheckClosed,
         CheckCancelled, Pump, NothingToPump, Wait, Notified, TimedOut, Awake, inner,
         shared, dispatch, host, history, Goto, WakeUp, activity, Return, Jump,
         FallAsleep, CanRun, CanClose, NoJob, RunJob, CloseJob, Notify, Minus, Capture,
         TypeOK, QueueTypeOK, HostTypeOK, DropInv, DroppedStaysEmpty
<1>2. ASSUME PoolStarts \/ Begin \/ Enqueue \/ Inactive \/ Replace \/ DropNewest \/
                  Block \/ GiveUp \/ Expire \/ Stall \/ PushWaits \/ PushNotified \/ PushTimedOut
                  \/ Announce \/ Close \/ Release \/ Cancel \/ CancelAnnounced \/ Drop \/ Clear \/
                  DropAnnounced \/ Reset \/ ResetQueue \/ ResetClosed \/ ResetWaiters \/ Start
     PROVE  DroppedStaysEmpty'
  BY <1>2 DEF PoolStarts, Begin, Enqueue, Inactive, Replace, DropNewest, Block, GiveUp,
         Expire, Stall, PushWaits, PushNotified, PushTimedOut, Announce, Close, Release,
         Cancel, CancelAnnounced, Drop, Clear, DropAnnounced, Reset, ResetQueue,
         ResetClosed, ResetWaiters, Start, inner, shared, reader, Notify, dispatch,
         history, ForgetWaiters, activity, Cleared, Minus, host, NextStep,
         PushAwake, WakeUp, FallAsleep, Stopped, PushReturns, Full, Kept, Capture,
         RunJob, CloseJob, CanClose, NoJob, CanRun, TypeOK, QueueTypeOK, HostTypeOK,
         DropInv, DroppedStaysEmpty
<1> QED BY <1>1, <1>2 DEF Next, Read, Produce, Push, Host

\* Every action keeps the bookkeeping of jobs and batches.
LEMMA JobStep ==
    ASSUME TypeOK, JobInv, ResetInv, Next
    PROVE  JobInv'
<1>1. ASSUME NEW t \in Readers, Call(t) \/ CaptureGen(t) \/ Pop(t) \/ Settle(t) \/
                  Empty(t) \/ CheckError(t) \/ CheckClosed(t) \/ CheckCancelled(t) \/
                  NothingToPump(t) \/ Wait(t) \/ Notified(t) \/ TimedOut(t)
     PROVE  JobInv'
  BY <1>1 DEF Call, CaptureGen, Pop, Settle, Empty, CheckError, CheckClosed,
         CheckCancelled, NothingToPump, Wait, Notified, TimedOut, Awake, inner, shared,
         dispatch, host, history, Goto, WakeUp, activity, Return, Jump, FallAsleep,
         CanRun, CanClose, NoJob, Notify, Minus, Capture, TypeOK, ReaderTypeOK,
         DispatchTypeOK, JobInv, ResetInv, Pushing, Readers
<1>2. ASSUME NEW t \in Readers, Pump(t) PROVE JobInv'
  <2>1. RunJob(t) \/ CloseJob(t) BY <1>2 DEF Pump
  <2>2. t \in Threads /\ t # Pool BY DEF Readers
  <2>3. UNCHANGED closed /\ pc' = [pc EXCEPT ![t] = "pumping"] BY <1>2 DEF Pump, inner, Goto
  <2> QED BY <2>1, <2>2, <2>3, JobStarts DEF JobInv, Pushing, TypeOK, DispatchTypeOK,
             ReaderTypeOK, Readers
<1>3. ASSUME Block \/ Stall \/ PushWaits \/ PushNotified \/ PushTimedOut \/ Cancel \/
                  CancelAnnounced \/ Drop \/ Clear \/ DropAnnounced \/ Reset \/ ResetQueue \/
                  ResetClosed \/ ResetWaiters \/ Start
     PROVE  JobInv'
  BY <1>3 DEF Block, Stall, PushWaits, PushNotified, PushTimedOut, Cancel,
         CancelAnnounced, Drop, Clear, DropAnnounced, Reset, ResetQueue, ResetClosed,
         ResetWaiters, Start, inner, shared, reader, Notify, dispatch, history,
         ForgetWaiters, activity, Cleared, Minus, PushAwake, host, WakeUp,
         NextStep, FallAsleep, Stopped, Full, TypeOK, ReaderTypeOK, DispatchTypeOK,
         JobInv, ResetInv, Pushing, Readers
<1>4. ASSUME PoolStarts PROVE JobInv'
  <2>1. RunJob(Pool) \/ CloseJob(Pool) BY <1>4 DEF PoolStarts
  <2>2. UNCHANGED <<closed, pc>> BY <1>4 DEF PoolStarts, inner, reader
  <2> QED BY <2>1, <2>2, JobStarts DEF JobInv, Pushing, TypeOK, DispatchTypeOK,
             ReaderTypeOK, Readers
<1>5. ASSUME Begin PROVE JobInv'
  BY <1>5 DEF Begin, inner, shared, reader, host, history, activity, Capture,
         PushReturns, NextStep, TypeOK, ReaderTypeOK, DispatchTypeOK, JobInv, ResetInv,
         Pushing, Readers
<1>6. ASSUME Enqueue PROVE JobInv'
  BY <1>6 DEF Enqueue, reader, host, history, activity, PushReturns, Full, TypeOK,
         ReaderTypeOK, DispatchTypeOK, JobInv, ResetInv, Pushing, Readers
<1>7. ASSUME Inactive PROVE JobInv'
  BY <1>7 DEF Inactive, inner, shared, reader, host, history, activity, PushReturns,
         TypeOK, ReaderTypeOK, DispatchTypeOK, JobInv, ResetInv, Pushing, Readers
<1>8. ASSUME Replace PROVE JobInv'
  BY <1>8 DEF Replace, reader, host, history, activity, PushReturns, Full, Kept, Minus,
         TypeOK, ReaderTypeOK, DispatchTypeOK, JobInv, ResetInv, Pushing, Readers
<1>9. ASSUME DropNewest PROVE JobInv'
  BY <1>9 DEF DropNewest, inner, shared, reader, host, history, activity, PushReturns,
         Full, TypeOK, ReaderTypeOK, DispatchTypeOK, JobInv, ResetInv, Pushing, Readers
<1>10. ASSUME GiveUp PROVE JobInv'
  BY <1>10 DEF GiveUp, inner, shared, reader, host, history, activity, PushReturns,
         Stopped, TypeOK, ReaderTypeOK, DispatchTypeOK, JobInv, ResetInv, Pushing,
         Readers
<1>11. ASSUME Expire PROVE JobInv'
  BY <1>11 DEF Expire, inner, reader, host, history, activity, PushReturns, Stopped,
         TypeOK, ReaderTypeOK, DispatchTypeOK, JobInv, ResetInv, Pushing, Readers
<1>12. ASSUME Announce PROVE JobInv'
  BY <1>12 DEF Announce, inner, shared, reader, host, history, Notify, NextStep, TypeOK,
         ReaderTypeOK, DispatchTypeOK, JobInv, ResetInv, Pushing, Readers
<1>13. ASSUME Close PROVE JobInv'
  BY <1>13 DEF Close, shared, reader, host, history, activity, NextStep, TypeOK,
         ReaderTypeOK, DispatchTypeOK, JobInv, ResetInv, Pushing, Readers
<1>14. ASSUME Release PROVE JobInv'
  BY <1>14 DEF Release, inner, shared, host, history, activity, TypeOK, ReaderTypeOK,
         DispatchTypeOK, JobInv, ResetInv, Pushing, Readers
<1> QED BY <1>1, <1>2, <1>3, <1>4, <1>5, <1>6, <1>7, <1>8, <1>9, <1>10, <1>11, <1>12,
           <1>13, <1>14 DEF Next, Read, Produce, Push, Host

\* A reset meets no job, and none starts before it is over.
LEMMA ResetStep ==
    ASSUME TypeOK, JobInv, ResetInv, Next
    PROVE  ResetInv'
<1>1. ASSUME NEW t \in Readers, Call(t) \/ CaptureGen(t) \/ Pop(t) \/ Settle(t) \/
                  Empty(t) \/ CheckError(t) \/ CheckClosed(t) \/ CheckCancelled(t) \/ Pump(t) \/
                  NothingToPump(t) \/ Wait(t) \/ Notified(t) \/ TimedOut(t)
     PROVE  ResetInv'
  BY <1>1 DEF Call, CaptureGen, Pop, Settle, Empty, CheckError, CheckClosed,
         CheckCancelled, Pump, NothingToPump, Wait, Notified, TimedOut, Awake, inner,
         shared, dispatch, host, history, Goto, WakeUp, activity, Return, Jump,
         FallAsleep, CanRun, CanClose, NoJob, RunJob, CloseJob, Notify, Minus, Capture,
         TypeOK, QueueTypeOK, ReaderTypeOK, DispatchTypeOK, HostTypeOK, JobInv,
         ResetInv, Readers
<1>2. ASSUME PoolStarts \/ Begin \/ Enqueue \/ Inactive \/ Replace \/ DropNewest \/
                  Block \/ GiveUp \/ Expire \/ Stall \/ PushWaits \/ PushNotified \/ PushTimedOut
                  \/ Announce \/ Close \/ Release \/ Cancel \/ CancelAnnounced \/ Drop \/ Clear \/
                  DropAnnounced \/ Reset \/ ResetQueue \/ ResetClosed \/ ResetWaiters \/ Start
     PROVE  ResetInv'
  BY <1>2 DEF PoolStarts, Begin, Enqueue, Inactive, Replace, DropNewest, Block, GiveUp,
         Expire, Stall, PushWaits, PushNotified, PushTimedOut, Announce, Close, Release,
         Cancel, CancelAnnounced, Drop, Clear, DropAnnounced, Reset, ResetQueue,
         ResetClosed, ResetWaiters, Start, inner, shared, reader, Notify, dispatch,
         history, ForgetWaiters, activity, Cleared, Minus, host, NextStep,
         PushAwake, WakeUp, FallAsleep, Stopped, PushReturns, Full, Kept, Capture,
         RunJob, CloseJob, CanClose, NoJob, CanRun, TypeOK, QueueTypeOK, ReaderTypeOK,
         DispatchTypeOK, HostTypeOK, JobInv, ResetInv, Readers
<1> QED BY <1>1, <1>2 DEF Next, Read, Produce, Push, Host

\* Exactly those sleep that are at a waiting label.
LEMMA SleepStep ==
    ASSUME TypeOK, JobInv, ResetInv, SleepInv, Next
    PROVE  SleepInv'
<1>1. ASSUME NEW t \in Readers, Call(t) \/ Pop(t) \/ Empty(t) \/ CheckError(t) \/
                  CheckClosed(t) \/ CheckCancelled(t) \/ NothingToPump(t)
     PROVE  SleepInv'
  BY <1>1 DEF Call, Pop, Empty, CheckError, CheckClosed, CheckCancelled, NothingToPump,
         inner, shared, dispatch, host, history, activity, Goto, CanRun, CanClose,
         NoJob, Return, Jump, Sleeping, TypeOK, ActivityTypeOK, ReaderTypeOK,
         DispatchTypeOK, Readers, JobInv, Pushing, ResetInv, SleepInv
<1>2. ASSUME NEW t \in Readers, CaptureGen(t) PROVE SleepInv'
  BY <1>2 DEF CaptureGen, inner, shared, dispatch, host, history, Goto, Capture,
         Sleeping, TypeOK, ActivityTypeOK, ReaderTypeOK, DispatchTypeOK, Readers,
         JobInv, Pushing, ResetInv, SleepInv
<1>3. ASSUME NEW t \in Readers, Settle(t) PROVE SleepInv'
  BY <1>3 DEF Settle, inner, dispatch, host, history, Return, Notify, Minus, Goto,
         Sleeping, TypeOK, ActivityTypeOK, ReaderTypeOK, DispatchTypeOK, Readers,
         JobInv, Pushing, ResetInv, SleepInv
<1>4. ASSUME NEW t \in Readers, Pump(t) PROVE SleepInv'
  BY <1>4 DEF Pump, inner, host, history, activity, Goto, RunJob, CloseJob, CanClose,
         NoJob, CanRun, Sleeping, TypeOK, ActivityTypeOK, ReaderTypeOK, DispatchTypeOK,
         Readers, JobInv, Pushing, ResetInv, SleepInv
<1>5. ASSUME NEW t \in Readers, Wait(t) PROVE SleepInv'
  BY <1>5 DEF Wait, inner, shared, dispatch, host, history, activity, Return, Jump,
         FallAsleep, Goto, Sleeping, TypeOK, ActivityTypeOK, ReaderTypeOK,
         DispatchTypeOK, Readers, JobInv, Pushing, ResetInv, SleepInv
<1>6. ASSUME NEW t \in Readers, Notified(t) PROVE SleepInv'
  BY <1>6 DEF Notified, Awake, inner, shared, dispatch, host, history, Goto, WakeUp,
         Sleeping, TypeOK, ActivityTypeOK, ReaderTypeOK, DispatchTypeOK, Readers,
         JobInv, Pushing, ResetInv, SleepInv
<1>7. ASSUME NEW t \in Readers, TimedOut(t) PROVE SleepInv'
  BY <1>7 DEF TimedOut, Awake, inner, shared, dispatch, host, history, Goto, WakeUp,
         Sleeping, TypeOK, ActivityTypeOK, ReaderTypeOK, DispatchTypeOK, Readers,
         JobInv, Pushing, ResetInv, SleepInv
<1>8. ASSUME Enqueue \/ Inactive \/ Replace \/ DropNewest \/ Block \/ GiveUp \/ Expire
                  \/ Stall \/ Close \/ Cancel \/ Drop \/ Clear \/ Reset \/ ResetClosed
     PROVE  SleepInv'
  BY <1>8 DEF Enqueue, Inactive, Replace, DropNewest, Block, GiveUp, Expire, Stall,
         Close, Cancel, Drop, Clear, Reset, ResetClosed, shared, reader, dispatch,
         history, activity, inner, Cleared, Minus, host, NextStep, Stopped,
         PushReturns, Full, Kept, Sleeping, TypeOK, ActivityTypeOK, ReaderTypeOK,
         DispatchTypeOK, Readers, JobInv, Pushing, ResetInv, SleepInv
<1>9. ASSUME PoolStarts PROVE SleepInv'
  BY <1>9 DEF PoolStarts, inner, reader, host, history, activity, RunJob, CloseJob,
         CanClose, NoJob, CanRun, Sleeping, TypeOK, ActivityTypeOK, ReaderTypeOK,
         DispatchTypeOK, Readers, JobInv, Pushing, ResetInv, SleepInv
<1>10. ASSUME Begin PROVE SleepInv'
  BY <1>10 DEF Begin, inner, shared, reader, host, history, activity, Capture,
         PushReturns, NextStep, Sleeping, TypeOK, ActivityTypeOK, ReaderTypeOK,
         DispatchTypeOK, Readers, JobInv, Pushing, ResetInv, SleepInv
<1>11. ASSUME PushWaits PROVE SleepInv'
  BY <1>11 DEF PushWaits, inner, shared, reader, host, history, activity, FallAsleep,
         NextStep, Sleeping, TypeOK, ActivityTypeOK, ReaderTypeOK, DispatchTypeOK,
         Readers, JobInv, Pushing, ResetInv, SleepInv
<1>12. ASSUME PushNotified PROVE SleepInv'
  BY <1>12 DEF PushNotified, PushAwake, inner, shared, reader, host, history, WakeUp,
         NextStep, Sleeping, TypeOK, ActivityTypeOK, ReaderTypeOK, DispatchTypeOK,
         Readers, JobInv, Pushing, ResetInv, SleepInv
<1>13. ASSUME PushTimedOut PROVE SleepInv'
  BY <1>13 DEF PushTimedOut, PushAwake, inner, shared, reader, host, history, WakeUp,
         NextStep, Sleeping, TypeOK, ActivityTypeOK, ReaderTypeOK, DispatchTypeOK,
         Readers, JobInv, Pushing, ResetInv, SleepInv
<1>14. ASSUME Announce PROVE SleepInv'
  BY <1>14 DEF Announce, inner, shared, reader, host, history, Notify, NextStep,
         Sleeping, TypeOK, ActivityTypeOK, ReaderTypeOK, DispatchTypeOK, Readers,
         JobInv, Pushing, ResetInv, SleepInv
<1>15. ASSUME Release PROVE SleepInv'
  BY <1>15 DEF Release, inner, shared, host, history, activity, Sleeping, TypeOK,
         ActivityTypeOK, ReaderTypeOK, DispatchTypeOK, Readers, JobInv, Pushing,
         ResetInv, SleepInv
<1>16. ASSUME CancelAnnounced PROVE SleepInv'
  BY <1>16 DEF CancelAnnounced, inner, shared, reader, dispatch, history, Notify,
         Sleeping, TypeOK, ActivityTypeOK, ReaderTypeOK, DispatchTypeOK, Readers,
         JobInv, Pushing, ResetInv, SleepInv
<1>17. ASSUME DropAnnounced PROVE SleepInv'
  BY <1>17 DEF DropAnnounced, inner, shared, reader, dispatch, history, Notify,
         Sleeping, TypeOK, ActivityTypeOK, ReaderTypeOK, DispatchTypeOK, Readers,
         JobInv, Pushing, ResetInv, SleepInv
<1>18. ASSUME ResetQueue PROVE SleepInv'
  BY <1>18 DEF ResetQueue, reader, dispatch, history, Notify, Cleared, Minus, Sleeping,
         TypeOK, ActivityTypeOK, ReaderTypeOK, DispatchTypeOK, Readers, JobInv, Pushing,
         ResetInv, SleepInv
<1>19. ASSUME ResetWaiters PROVE SleepInv'
  BY <1>19 DEF ResetWaiters, inner, shared, reader, dispatch, history, ForgetWaiters,
         Sleeping, TypeOK, ActivityTypeOK, ReaderTypeOK, DispatchTypeOK, Readers,
         JobInv, Pushing, ResetInv, SleepInv
<1>20. ASSUME Start PROVE SleepInv'
  BY <1>20 DEF Start, inner, shared, reader, Notify, Sleeping, TypeOK, ActivityTypeOK,
         ReaderTypeOK, DispatchTypeOK, Readers, JobInv, Pushing, ResetInv, SleepInv
<1> QED BY <1>1, <1>2, <1>3, <1>4, <1>5, <1>6, <1>7, <1>8, <1>9, <1>10, <1>11, <1>12,
           <1>13, <1>14, <1>15, <1>16, <1>17, <1>18, <1>19, <1>20 DEF Next, Read, Produce,
           Push, Host

\* Nobody who sleeps goes uncounted or misses a notification.
LEMMA WaitersStep ==
    ASSUME TypeOK, JobInv, ResetInv, SleepInv, WaitersCounted, Next
    PROVE  WaitersCounted'
<1>1. ASSUME NEW t \in Readers, Call(t) \/ Pop(t) \/ Empty(t) \/ CheckError(t) \/
                  CheckClosed(t) \/ CheckCancelled(t) \/ Pump(t) \/ NothingToPump(t)
     PROVE  WaitersCounted'
  BY <1>1, ActivityUnchanged DEF Call, Pop, Empty, CheckError, CheckClosed,
         CheckCancelled, Pump, NothingToPump
<1>2. ASSUME NEW t \in Readers, CaptureGen(t) PROVE WaitersCounted'
  <2>1. t \in Threads BY DEF Readers
  <2> QED BY <1>2, <2>1, CaptureCounted DEF CaptureGen, TypeOK
<1>3. ASSUME NEW t \in Readers, Settle(t) PROVE WaitersCounted'
  BY <1>3, NotifyCounted DEF Settle, TypeOK
<1>4. ASSUME NEW t \in Readers, Wait(t) PROVE WaitersCounted'
  <2>1. t \in Threads /\ pc[t] = "wait" /\ t # runner BY <1>4 DEF Wait, JobInv, Readers
  <2>2. ~Sleeping(t) BY <2>1 DEF SleepInv
  <2> QED BY <1>4, <2>1, <2>2, FallAsleepCounted, ActivityUnchanged DEF Wait, TypeOK
<1>5. ASSUME NEW t \in Readers, Notified(t) PROVE WaitersCounted'
  <2>1. t \in Threads /\ Sleeping(t) /\ WakeUp(t)
    BY <1>5 DEF Notified, Awake, Sleeping, Readers
  <2> QED BY <2>1, WakeUpCounted DEF TypeOK
<1>6. ASSUME NEW t \in Readers, TimedOut(t) PROVE WaitersCounted'
  <2>1. t \in Threads /\ Sleeping(t) /\ WakeUp(t)
    BY <1>6 DEF TimedOut, Awake, Sleeping, Readers
  <2> QED BY <2>1, WakeUpCounted DEF TypeOK
<1>7. ASSUME PoolStarts \/ Enqueue \/ Inactive \/ Replace \/ DropNewest \/ Block \/
                  GiveUp \/ Expire \/ Stall \/ Close \/ Release \/ Cancel \/ Drop \/ Clear \/ Reset
                  \/ ResetClosed
     PROVE  WaitersCounted'
  BY <1>7, ActivityUnchanged DEF PoolStarts, Enqueue, Inactive, Replace, DropNewest,
         Block, GiveUp, Expire, Stall, Close, Release, Cancel, Drop, Clear, Reset,
         ResetClosed
<1>8. ASSUME Begin PROVE WaitersCounted'
  <2>1. runner \in Threads BY <1>8 DEF Begin, JobInv, TypeOK, DispatchTypeOK
  <2> QED BY <1>8, <2>1, CaptureCounted, ActivityUnchanged DEF Begin, TypeOK
<1>9. ASSUME PushWaits PROVE WaitersCounted'
  <2>1. runner \in Threads /\ step = "sleep"
    BY <1>9 DEF PushWaits, JobInv, TypeOK, DispatchTypeOK
  <2>2. ~Sleeping(runner) BY <2>1 DEF SleepInv, JobInv
  <2> QED BY <1>9, <2>1, <2>2, FallAsleepCounted, ActivityUnchanged DEF PushWaits, TypeOK
<1>10. ASSUME PushNotified PROVE WaitersCounted'
  <2>1. runner \in Threads /\ Sleeping(runner) /\ WakeUp(runner)
    BY <1>10 DEF PushNotified, PushAwake, Sleeping, JobInv, TypeOK, DispatchTypeOK
  <2> QED BY <2>1, WakeUpCounted DEF TypeOK
<1>11. ASSUME PushTimedOut PROVE WaitersCounted'
  <2>1. runner \in Threads /\ Sleeping(runner) /\ WakeUp(runner)
    BY <1>11 DEF PushTimedOut, PushAwake, Sleeping, JobInv, TypeOK, DispatchTypeOK
  <2> QED BY <2>1, WakeUpCounted DEF TypeOK
<1>12. ASSUME Announce PROVE WaitersCounted'
  BY <1>12, NotifyCounted DEF Announce, TypeOK
<1>13. ASSUME CancelAnnounced PROVE WaitersCounted'
  BY <1>13, NotifyCounted DEF CancelAnnounced, TypeOK
<1>14. ASSUME DropAnnounced PROVE WaitersCounted'
  BY <1>14, NotifyCounted DEF DropAnnounced, TypeOK
<1>15. ASSUME ResetQueue PROVE WaitersCounted'
  BY <1>15, NotifyCounted DEF ResetQueue, TypeOK
<1>16. ASSUME ResetWaiters PROVE WaitersCounted'
  BY <1>16, ForgetCounted DEF ResetWaiters, TypeOK
<1>17. ASSUME Start PROVE WaitersCounted'
  BY <1>17, NotifyCounted DEF Start, TypeOK
<1> QED BY <1>1, <1>2, <1>3, <1>4, <1>5, <1>6, <1>7, <1>8, <1>9, <1>10, <1>11, <1>12,
           <1>13, <1>14, <1>15, <1>16, <1>17 DEF Next, Read, Produce, Push, Host

\* Whatever changes the queue changes the watermark with it.
LEMMA TotalStep ==
    ASSUME TypeOK, JobInv, ResetInv, TotalWithinStrays, Next
    PROVE  TotalWithinStrays'
<1>1. ASSUME NEW t \in Readers, Call(t) \/ CaptureGen(t) \/ CheckError(t) \/
                  CheckClosed(t) \/ CheckCancelled(t) \/ NothingToPump(t) \/ Wait(t) \/ Notified(t)
                  \/ TimedOut(t)
     PROVE  TotalWithinStrays'
  BY <1>1, TotalUnchanged DEF Call, CaptureGen, CheckError,
         CheckClosed, CheckCancelled, NothingToPump, Wait, Notified, TimedOut, Awake,
         inner, shared, dispatch, host, history, Goto, WakeUp, activity, Return, Jump,
         FallAsleep, CanRun, CanClose, NoJob, Capture, TypeOK, ReaderTypeOK, Readers,
         JobInv
<1>2. ASSUME NEW t \in Readers, Pop(t) PROVE TotalWithinStrays'
  <2>1. queue \in Seq(1 .. MaxPackets) /\ queue # <<>> /\ Len(queue') = Len(queue) - 1
    BY <1>2 DEF Pop, TypeOK, QueueTypeOK
  <2>2. Due' = Due \cup {t} /\ t \notin Due
    BY <1>2 DEF Pop, Goto, Taken, Due, TypeOK, ReaderTypeOK
  <2>3. Cardinality(Due') = Cardinality(Due) + 1
    BY <2>2, HeldType, FS_AddElement
  <2>4. Held' = Held BY <2>1, <2>3, HeldType DEF Held
  <2> QED BY <1>2, <2>4 DEF Pop, shared, host, TotalWithinStrays
<1>3. ASSUME NEW t \in Readers, Settle(t) PROVE TotalWithinStrays'
  <2>1. queue' = queue /\ reset' = reset /\ total' = Minus(total, 1)
    BY <1>3 DEF Settle, inner, host
  <2>2. CASE t \in late
    <3>1. Due' = Due
      BY <1>3, <2>2 DEF Settle, Return, Goto, Taken, Due, TypeOK, ReaderTypeOK
    <3>2. Held' = Held /\ strays' = strays + 1 BY <1>3, <2>1, <2>2, <3>1 DEF Settle, Held
    <3> QED BY <2>1, <3>2, HeldType DEF Minus, TotalWithinStrays
  <2>3. CASE t \notin late
    <3>1. Due' = Due \ {t} /\ t \in Due
      BY <1>3, <2>3 DEF Settle, Return, Goto, Taken, Due, TypeOK, ReaderTypeOK
    <3>2. Cardinality(Due') = Cardinality(Due) - 1
      BY <3>1, HeldType, FS_RemoveElement
    <3>3. Cardinality(Due) # 0 BY <3>1, HeldType, FS_EmptySet
    <3>4. Held' = Held - 1 /\ Held > 0 BY <2>1, <3>2, <3>3, HeldType DEF Held
    <3>5. strays' = strays BY <1>3, <2>3 DEF Settle
    <3> QED BY <2>1, <3>4, <3>5, HeldType DEF Minus, TotalWithinStrays
  <2> QED BY <2>2, <2>3
<1>4. ASSUME NEW t \in Readers, Pump(t) PROVE TotalWithinStrays'
  BY <1>4, TotalUnchanged DEF Pump, inner, host, history, activity, Goto, RunJob,
         CloseJob, CanClose, NoJob, CanRun, TypeOK, ReaderTypeOK, Readers, JobInv
<1>5. ASSUME Inactive \/ DropNewest \/ Block \/ GiveUp \/ Expire \/ Stall \/ PushWaits
                  \/ PushNotified \/ PushTimedOut \/ Announce \/ Close \/ Cancel \/ CancelAnnounced
                  \/ Drop \/ DropAnnounced
     PROVE  TotalWithinStrays'
  BY <1>5, TotalUnchanged DEF Inactive, DropNewest, Block, GiveUp, Expire, Stall,
         PushWaits, PushNotified, PushTimedOut, Announce, Close, Cancel,
         CancelAnnounced, Drop, DropAnnounced, inner, shared, reader, dispatch,
         history, activity, Notify, host, NextStep, PushAwake, WakeUp, FallAsleep,
         Stopped, PushReturns, Full, TypeOK, ReaderTypeOK, Readers, JobInv
<1>6. ASSUME PoolStarts PROVE TotalWithinStrays'
  BY <1>6, TotalUnchanged DEF PoolStarts, inner, reader, host, history, activity,
         RunJob, CloseJob, CanClose, NoJob, CanRun, TypeOK, ReaderTypeOK, Readers,
         JobInv
<1>7. ASSUME Begin PROVE TotalWithinStrays'
  BY <1>7, TotalUnchanged DEF Begin, inner, shared, reader, host, history, activity,
         Capture, PushReturns, NextStep, TypeOK, ReaderTypeOK, Readers, JobInv
<1>8. ASSUME Enqueue PROVE TotalWithinStrays'
  <2>1. Due' = Due BY <1>8 DEF Enqueue, reader, history, Taken, Due
  <2>2. Len(queue') = Len(queue) + 1 BY <1>8 DEF Enqueue, TypeOK, QueueTypeOK
  <2>3. Held' = Held + 1 BY <2>1, <2>2, HeldType DEF Held
  <2>4. reset = "no" BY <1>8 DEF Enqueue, JobInv, ResetInv
  <2> QED BY <1>8, <2>3, <2>4, HeldType DEF Enqueue, host, history, TotalWithinStrays
<1>9. ASSUME Replace PROVE TotalWithinStrays'
  <2>1. Due' = Due BY <1>9 DEF Replace, reader, history, Taken, Due
  <2>2. /\ Len(Kept) \in Nat /\ Len(Kept) <= Len(queue)
        /\ Len(queue') = Len(Kept) + 1
    BY <1>9, KeptTail DEF Replace
  <2> DEFINE d == Len(queue) - Len(Kept)
  <2>3. d \in Nat /\ d <= Held /\ Held' = Held - d + 1
    BY <2>1, <2>2, HeldType DEF Held
  <2>4. reset = "no" /\ reset' = "no" /\ strays' = strays
    BY <1>9 DEF Replace, JobInv, ResetInv, host, history
  <2>5. total' = Minus(total, d) + 1 BY <1>9 DEF Replace
  <2> HIDE DEF d
  <2> QED BY <2>3, <2>4, <2>5, HeldType DEF Minus, TotalWithinStrays
<1>10. ASSUME Release PROVE TotalWithinStrays'
  BY <1>10, TotalUnchanged DEF Release, inner, shared, host, history, activity, TypeOK,
         ReaderTypeOK, Readers, JobInv
<1>11. ASSUME Clear PROVE TotalWithinStrays'
  <2>1. Due' = Due BY <1>11 DEF Clear, reader, history, Taken, Due
  <2>2. Len(queue') = 0 /\ total' = Minus(total, Len(queue)) BY <1>11 DEF Clear, Cleared
  <2>3. Held' = Held - Len(queue) /\ Len(queue) <= Held BY <2>1, <2>2, HeldType DEF Held
  <2>4. reset = "no" /\ reset' = "no" /\ strays' = strays
    BY <1>11 DEF Clear, ResetInv, history
  <2> QED BY <2>2, <2>3, <2>4, HeldType DEF Minus, TotalWithinStrays
<1>12. ASSUME Reset PROVE TotalWithinStrays'
  BY <1>12 DEF Reset, TotalWithinStrays
<1>13. ASSUME ResetQueue PROVE TotalWithinStrays'
  <2>1. total = 0 BY <1>13 DEF ResetQueue, TotalWithinStrays
  <2>2. total' = 0 BY <1>13, <2>1, HeldType DEF ResetQueue, Cleared, Minus
  <2> QED BY <1>13, <2>2 DEF ResetQueue, TotalWithinStrays
<1>14. ASSUME ResetClosed \/ ResetWaiters PROVE TotalWithinStrays'
  BY <1>14, TotalInReset DEF ResetClosed, ResetWaiters, shared
<1>15. ASSUME Start PROVE TotalWithinStrays'
  <2>1. queue' = <<>> /\ total' = 0 /\ strays' = 0 /\ reset' = "no"
    BY <1>15 DEF Start, ResetInv, TotalWithinStrays, inner, shared
  <2>2. Due' = {} BY <1>15 DEF Start, reader, Taken, Due
  <2>3. Held' = 0 BY <2>1, <2>2, FS_EmptySet DEF Held
  <2> QED BY <2>1, <2>3 DEF TotalWithinStrays
<1>16. ASSUME NEW t \in Readers, Empty(t) PROVE TotalWithinStrays'
  BY <1>16, TotalUnchanged DEF Empty, inner, shared, host, Return, Jump, Goto, TypeOK,
         ReaderTypeOK
<1> QED BY <1>1, <1>2, <1>3, <1>4, <1>5, <1>6, <1>7, <1>8, <1>9, <1>10, <1>11, <1>12,
           <1>13, <1>14, <1>15, <1>16 DEF Next, Read, Produce, Push, Host

\* The queue rises, from after the packet last taken to the packet last pushed.
LEMMA OrderStep ==
    ASSUME TypeOK, JobInv, ResetInv, OrderInv, Next
    PROVE  OrderInv'
<1>1. ASSUME NEW t \in Readers, Call(t) PROVE OrderInv'
  BY <1>1 DEF Call, inner, shared, dispatch, host, history, activity, Goto, TypeOK,
         QueueTypeOK, DispatchTypeOK, JobInv, Pushing, Pushed, ResetInv, OrderInv,
         StreamInOrder
<1>2. ASSUME NEW t \in Readers, CaptureGen(t) PROVE OrderInv'
  BY <1>2 DEF CaptureGen, inner, shared, dispatch, host, history, Goto, Capture, TypeOK,
         QueueTypeOK, DispatchTypeOK, JobInv, Pushing, Pushed, ResetInv, OrderInv,
         StreamInOrder
<1>3. ASSUME NEW t \in Readers, Pop(t) PROVE OrderInv'
  BY <1>3 DEF Pop, shared, dispatch, host, activity, Goto, TypeOK, QueueTypeOK,
         DispatchTypeOK, JobInv, Pushing, Pushed, ResetInv, OrderInv, StreamInOrder
<1>4. ASSUME NEW t \in Readers, Settle(t) PROVE OrderInv'
  BY <1>4 DEF Settle, inner, dispatch, host, history, Return, Notify, Minus, Goto,
         TypeOK, QueueTypeOK, DispatchTypeOK, JobInv, Pushing, Pushed, ResetInv,
         OrderInv, StreamInOrder
<1>5. ASSUME NEW t \in Readers, Empty(t) PROVE OrderInv'
  BY <1>5 DEF Empty, inner, shared, dispatch, host, activity, Return, Jump, Goto,
         TypeOK, QueueTypeOK, DispatchTypeOK, JobInv, Pushing, Pushed, ResetInv,
         OrderInv, StreamInOrder
<1>6. ASSUME NEW t \in Readers, CheckError(t) PROVE OrderInv'
  BY <1>6 DEF CheckError, inner, shared, dispatch, host, history, activity, Return,
         Jump, Goto, TypeOK, QueueTypeOK, DispatchTypeOK, JobInv, Pushing, Pushed,
         ResetInv, OrderInv, StreamInOrder
<1>7. ASSUME NEW t \in Readers, CheckClosed(t) PROVE OrderInv'
  BY <1>7 DEF CheckClosed, inner, shared, dispatch, host, history, activity, Return,
         Jump, Goto, TypeOK, QueueTypeOK, DispatchTypeOK, JobInv, Pushing, Pushed,
         ResetInv, OrderInv, StreamInOrder
<1>8. ASSUME NEW t \in Readers, CheckCancelled(t) PROVE OrderInv'
  BY <1>8 DEF CheckCancelled, inner, shared, dispatch, host, history, activity, Return,
         Jump, Goto, TypeOK, QueueTypeOK, DispatchTypeOK, JobInv, Pushing, Pushed,
         ResetInv, OrderInv, StreamInOrder
<1>9. ASSUME NEW t \in Readers, Pump(t) PROVE OrderInv'
  <2>1. t \in Threads /\ (RunJob(t) \/ CloseJob(t)) BY <1>9 DEF Pump, Readers
  <2>2. Pushed' = Pushed BY <2>1, JobStarts DEF Pushed, TypeOK, DispatchTypeOK
  <2> QED BY <1>9, <2>2 DEF Pump, inner, history, OrderInv, StreamInOrder
<1>10. ASSUME NEW t \in Readers, NothingToPump(t) PROVE OrderInv'
  BY <1>10 DEF NothingToPump, inner, shared, dispatch, host, history, activity, Goto,
         CanRun, CanClose, NoJob, TypeOK, QueueTypeOK, DispatchTypeOK, JobInv, Pushing,
         Pushed, ResetInv, OrderInv, StreamInOrder
<1>11. ASSUME NEW t \in Readers, Wait(t) PROVE OrderInv'
  BY <1>11 DEF Wait, inner, shared, dispatch, host, history, activity, Return, Jump,
         FallAsleep, Goto, TypeOK, QueueTypeOK, DispatchTypeOK, JobInv, Pushing, Pushed,
         ResetInv, OrderInv, StreamInOrder
<1>12. ASSUME NEW t \in Readers, Notified(t) PROVE OrderInv'
  BY <1>12 DEF Notified, Awake, inner, shared, dispatch, host, history, Goto, WakeUp,
         TypeOK, QueueTypeOK, DispatchTypeOK, JobInv, Pushing, Pushed, ResetInv,
         OrderInv, StreamInOrder
<1>13. ASSUME NEW t \in Readers, TimedOut(t) PROVE OrderInv'
  BY <1>13 DEF TimedOut, Awake, inner, shared, dispatch, host, history, Goto, WakeUp,
         TypeOK, QueueTypeOK, DispatchTypeOK, JobInv, Pushing, Pushed, ResetInv,
         OrderInv, StreamInOrder
<1>14. ASSUME PoolStarts PROVE OrderInv'
  <2>1. Pushed' = Pushed BY <1>14, JobStarts DEF PoolStarts, Pushed, TypeOK, DispatchTypeOK
  <2> QED BY <1>14, <2>1 DEF PoolStarts, inner, history, OrderInv, StreamInOrder
<1>15. ASSUME Begin PROVE OrderInv'
  BY <1>15 DEF Begin, inner, shared, reader, host, history, activity, Capture,
         PushReturns, NextStep, TypeOK, QueueTypeOK, DispatchTypeOK, JobInv, Pushing,
         Pushed, ResetInv, OrderInv, StreamInOrder
<1>16. ASSUME Enqueue PROVE OrderInv'
  <2>1. packet \in 1 .. MaxPackets /\ Pushed = packet - 1 /\ Pushed' = packet
    <3>1. PushReturns(TRUE) /\ Pushing BY <1>16 DEF Enqueue, Pushing
    <3>2. left \in Nat \ {0} /\ packet \in 1 .. MaxPackets
      BY <3>1 DEF JobInv, TypeOK, DispatchTypeOK
    <3>3. \/ packet' = packet + 1 /\ left' > 0
          \/ packet' = packet /\ left' = 0
      BY <3>1, <3>2, PushEnds
    <3> QED BY <3>2, <3>3 DEF Pushed
  <2>2. queue \in Seq(1 .. MaxPackets) /\ Len(queue) \in Nat /\ popped \in Nat
    BY DEF TypeOK, QueueTypeOK
  <2>3. queue' = Append(queue, packet) /\ UNCHANGED popped /\ Len(queue) + 1 <= Capacity
    BY <1>16, <2>2 DEF Enqueue, Full, history
  <2>4. /\ \A i \in 1 .. Len(queue) - 1 : queue[i] < queue[i + 1]
        /\ queue # <<>> => popped < Head(queue)
        /\ \A i \in 1 .. Len(queue) : queue[i] < packet
        /\ popped < packet
    BY <2>1, <2>2 DEF OrderInv, StreamInOrder
  <2>5. /\ Len(queue') = Len(queue) + 1
        /\ \A i \in 1 .. Len(queue') - 1 : queue'[i] < queue'[i + 1]
        /\ \A i \in 1 .. Len(queue') : queue'[i] <= packet
        /\ popped < Head(queue')
    BY <2>1, <2>2, <2>3, <2>4, RisingAppend
  <2> QED BY <2>1, <2>2, <2>3, <2>4, <2>5 DEF OrderInv, StreamInOrder
<1>17. ASSUME Inactive PROVE OrderInv'
  BY <1>17 DEF Inactive, inner, shared, reader, host, history, activity, PushReturns,
         TypeOK, QueueTypeOK, DispatchTypeOK, JobInv, Pushing, Pushed, ResetInv,
         OrderInv, StreamInOrder
<1>18. ASSUME Replace PROVE OrderInv'
  <2>1. packet \in 1 .. MaxPackets /\ Pushed = packet - 1 /\ Pushed' = packet
    <3>1. PushReturns(TRUE) /\ Pushing BY <1>18 DEF Replace, Pushing
    <3>2. left \in Nat \ {0} /\ packet \in 1 .. MaxPackets
      BY <3>1 DEF JobInv, TypeOK, DispatchTypeOK
    <3>3. \/ packet' = packet + 1 /\ left' > 0
          \/ packet' = packet /\ left' = 0
      BY <3>1, <3>2, PushEnds
    <3> QED BY <3>2, <3>3 DEF Pushed
  <2>2. queue \in Seq(1 .. MaxPackets) /\ Len(queue) \in Nat /\ popped \in Nat
    BY DEF TypeOK, QueueTypeOK
  <2>3. queue' = Append(Kept, packet) /\ UNCHANGED popped
    BY <1>18 DEF Replace, history
  <2>4. /\ Kept \in Seq(1 .. MaxPackets) /\ Len(Kept) \in 0 .. Len(queue) - 1
        /\ \A i \in 1 .. Len(Kept) : Kept[i] = queue[i + 1]
    BY <1>18, KeptTail DEF Replace
  <2>5. /\ Len(queue) <= Capacity /\ popped < queue[1]
        /\ \A i \in 1 .. Len(queue) - 1 : queue[i] < queue[i + 1]
        /\ \A i \in 1 .. Len(queue) : queue[i] < packet
        /\ popped < packet
    BY <2>1, <2>2, <2>4 DEF OrderInv, StreamInOrder
  <2>6. /\ \A i \in 1 .. Len(Kept) - 1 : Kept[i] < Kept[i + 1]
        /\ \A i \in 1 .. Len(Kept) : Kept[i] < packet
    <3>0. Len(Kept) \in Nat /\ Len(Kept) <= Len(queue) - 1 BY <2>2, <2>4
    <3>1. ASSUME NEW i \in 1 .. Len(Kept) - 1 PROVE Kept[i] < Kept[i + 1]
      <4>1. i + 1 \in 1 .. Len(queue) - 1 /\ i \in 1 .. Len(Kept) /\ i + 1 \in 1 .. Len(Kept)
        BY <2>2, <3>0
      <4> QED BY <2>4, <2>5, <4>1
    <3>2. ASSUME NEW i \in 1 .. Len(Kept) PROVE Kept[i] < packet
      <4>1. i + 1 \in 1 .. Len(queue) BY <2>2, <2>4
      <4> QED BY <2>4, <2>5, <4>1
    <3> QED BY <3>1, <3>2
  <2>7. Kept # <<>> => popped < Head(Kept)
    <3> SUFFICES ASSUME Kept # <<>> PROVE popped < Head(Kept) OBVIOUS
    <3>1. Head(Kept) = queue[2] /\ 1 \in 1 .. Len(queue) - 1 BY <2>2, <2>4
    <3>2. queue[1] < queue[2] BY <2>5, <3>1
    <3>3. queue[1] \in Nat /\ queue[2] \in Nat BY <2>2, <3>1
    <3> QED BY <2>2, <2>5, <3>1, <3>2, <3>3
  <2>8. /\ Len(queue') = Len(Kept) + 1
        /\ \A i \in 1 .. Len(queue') - 1 : queue'[i] < queue'[i + 1]
        /\ \A i \in 1 .. Len(queue') : queue'[i] <= packet
        /\ popped < Head(queue')
    BY <2>1, <2>2, <2>3, <2>4, <2>5, <2>6, <2>7, RisingAppend
  <2>9. Len(queue') <= Capacity BY <2>2, <2>4, <2>5, <2>8
  <2>10. StreamInOrder' BY <2>3, <2>8, <2>9 DEF StreamInOrder
  <2> QED BY <2>1, <2>2, <2>3, <2>5, <2>8, <2>10 DEF OrderInv
<1>19. ASSUME DropNewest PROVE OrderInv'
  BY <1>19 DEF DropNewest, inner, shared, reader, host, history, activity, PushReturns,
         Full, TypeOK, QueueTypeOK, DispatchTypeOK, JobInv, Pushing, Pushed, ResetInv,
         OrderInv, StreamInOrder
<1>20. ASSUME Block PROVE OrderInv'
  BY <1>20 DEF Block, inner, shared, reader, host, history, activity, NextStep, Full,
         TypeOK, QueueTypeOK, DispatchTypeOK, JobInv, Pushing, Pushed, ResetInv,
         OrderInv, StreamInOrder
<1>21. ASSUME GiveUp PROVE OrderInv'
  BY <1>21 DEF GiveUp, inner, shared, reader, host, history, activity, PushReturns,
         Stopped, TypeOK, QueueTypeOK, DispatchTypeOK, JobInv, Pushing, Pushed,
         ResetInv, OrderInv, StreamInOrder
<1>22. ASSUME Expire PROVE OrderInv'
  BY <1>22 DEF Expire, inner, reader, host, history, activity, PushReturns, Stopped,
         TypeOK, QueueTypeOK, DispatchTypeOK, JobInv, Pushing, Pushed, ResetInv,
         OrderInv, StreamInOrder
<1>23. ASSUME Stall PROVE OrderInv'
  BY <1>23 DEF Stall, inner, shared, reader, host, history, activity, NextStep, Stopped,
         TypeOK, QueueTypeOK, DispatchTypeOK, JobInv, Pushing, Pushed, ResetInv,
         OrderInv, StreamInOrder
<1>24. ASSUME PushWaits PROVE OrderInv'
  BY <1>24 DEF PushWaits, inner, shared, reader, host, history, activity, FallAsleep,
         NextStep, TypeOK, QueueTypeOK, DispatchTypeOK, JobInv, Pushing, Pushed,
         ResetInv, OrderInv, StreamInOrder
<1>25. ASSUME PushNotified PROVE OrderInv'
  BY <1>25 DEF PushNotified, PushAwake, inner, shared, reader, host, history, WakeUp,
         NextStep, TypeOK, QueueTypeOK, DispatchTypeOK, JobInv, Pushing, Pushed,
         ResetInv, OrderInv, StreamInOrder
<1>26. ASSUME PushTimedOut PROVE OrderInv'
  BY <1>26 DEF PushTimedOut, PushAwake, inner, shared, reader, host, history, WakeUp,
         NextStep, TypeOK, QueueTypeOK, DispatchTypeOK, JobInv, Pushing, Pushed,
         ResetInv, OrderInv, StreamInOrder
<1>27. ASSUME Announce PROVE OrderInv'
  BY <1>27 DEF Announce, inner, shared, reader, host, history, Notify, NextStep, TypeOK,
         QueueTypeOK, DispatchTypeOK, JobInv, Pushing, Pushed, ResetInv, OrderInv,
         StreamInOrder
<1>28. ASSUME Close PROVE OrderInv'
  BY <1>28 DEF Close, shared, reader, host, history, activity, NextStep, TypeOK,
         QueueTypeOK, DispatchTypeOK, JobInv, Pushing, Pushed, ResetInv, OrderInv,
         StreamInOrder
<1>29. ASSUME Release PROVE OrderInv'
  BY <1>29 DEF Release, inner, shared, host, history, activity, TypeOK, QueueTypeOK,
         DispatchTypeOK, JobInv, Pushing, Pushed, ResetInv, OrderInv, StreamInOrder
<1>30. ASSUME Cancel PROVE OrderInv'
  BY <1>30 DEF Cancel, inner, reader, dispatch, history, activity, TypeOK, QueueTypeOK,
         DispatchTypeOK, JobInv, Pushing, Pushed, ResetInv, OrderInv, StreamInOrder
<1>31. ASSUME CancelAnnounced PROVE OrderInv'
  BY <1>31 DEF CancelAnnounced, inner, shared, reader, dispatch, history, Notify,
         TypeOK, QueueTypeOK, DispatchTypeOK, JobInv, Pushing, Pushed, ResetInv,
         OrderInv, StreamInOrder
<1>32. ASSUME Drop PROVE OrderInv'
  BY <1>32 DEF Drop, shared, reader, dispatch, history, activity, TypeOK, QueueTypeOK,
         DispatchTypeOK, JobInv, Pushing, Pushed, ResetInv, OrderInv, StreamInOrder
<1>33. ASSUME Clear PROVE OrderInv'
  BY <1>33 DEF Clear, reader, dispatch, history, activity, Cleared, Minus, TypeOK,
         QueueTypeOK, DispatchTypeOK, JobInv, Pushing, Pushed, ResetInv, OrderInv,
         StreamInOrder
<1>34. ASSUME DropAnnounced PROVE OrderInv'
  BY <1>34 DEF DropAnnounced, inner, shared, reader, dispatch, history, Notify, TypeOK,
         QueueTypeOK, DispatchTypeOK, JobInv, Pushing, Pushed, ResetInv, OrderInv,
         StreamInOrder
<1>35. ASSUME Reset PROVE OrderInv'
  BY <1>35 DEF Reset, inner, reader, dispatch, history, activity, TypeOK,
         QueueTypeOK, DispatchTypeOK, JobInv, Pushing, Pushed, ResetInv, OrderInv,
         StreamInOrder
<1>36. ASSUME ResetQueue PROVE OrderInv'
  BY <1>36 DEF ResetQueue, reader, dispatch, history, Notify, Cleared, Minus, TypeOK,
         QueueTypeOK, DispatchTypeOK, JobInv, Pushing, Pushed, ResetInv, OrderInv,
         StreamInOrder
<1>37. ASSUME ResetClosed PROVE OrderInv'
  BY <1>37 DEF ResetClosed, shared, reader, dispatch, history, activity, TypeOK,
         QueueTypeOK, DispatchTypeOK, JobInv, Pushing, Pushed, ResetInv, OrderInv,
         StreamInOrder
<1>38. ASSUME ResetWaiters PROVE OrderInv'
  BY <1>38 DEF ResetWaiters, inner, shared, reader, dispatch, history, ForgetWaiters,
         TypeOK, QueueTypeOK, DispatchTypeOK, JobInv, Pushing, Pushed, ResetInv,
         OrderInv, StreamInOrder
<1>39. ASSUME Start PROVE OrderInv'
  BY <1>39 DEF Start, inner, shared, reader, Notify, TypeOK, QueueTypeOK,
         DispatchTypeOK, JobInv, Pushing, Pushed, ResetInv, OrderInv, StreamInOrder
<1> QED BY <1>1, <1>2, <1>3, <1>4, <1>5, <1>6, <1>7, <1>8, <1>9, <1>10, <1>11, <1>12,
           <1>13, <1>14, <1>15, <1>16, <1>17, <1>18, <1>19, <1>20, <1>21, <1>22, <1>23,
           <1>24, <1>25, <1>26, <1>27, <1>28, <1>29, <1>30, <1>31, <1>32, <1>33, <1>34,
           <1>35, <1>36, <1>37, <1>38, <1>39 DEF Next, Read, Produce, Push, Host

\* A lossless, undisturbed stream has no gap.
LEMMA LosslessStep ==
    ASSUME TypeOK, JobInv, ResetInv, DropInv, LosslessInv, Next
    PROVE  LosslessInv'
<1>1. ASSUME NEW t \in Readers, Call(t) PROVE LosslessInv'
  BY <1>1 DEF Call, inner, shared, dispatch, host, history, activity, Goto, TypeOK,
         QueueTypeOK, DispatchTypeOK, JobInv, Pushing, Pushed, ResetInv, DropInv,
         LosslessInv, Lossless
<1>2. ASSUME NEW t \in Readers, CaptureGen(t) PROVE LosslessInv'
  BY <1>2 DEF CaptureGen, inner, shared, dispatch, host, history, Goto, Capture, TypeOK,
         QueueTypeOK, DispatchTypeOK, JobInv, Pushing, Pushed, ResetInv, DropInv,
         LosslessInv, Lossless
<1>3. ASSUME NEW t \in Readers, Pop(t) PROVE LosslessInv'
  <2> SUFFICES ASSUME reset = "no", Lossless PROVE LosslessInv'
    BY <1>3 DEF Pop, shared, host, Lossless, LosslessInv
  <2>1. queue \in Seq(1 .. MaxPackets) /\ queue # <<>> /\ Len(queue) \in Nat \ {0}
    BY <1>3 DEF Pop, TypeOK, QueueTypeOK
  <2>2. popped \in Nat /\ Head(queue) = queue[1] /\ Pushed \in Int
    BY <2>1 DEF TypeOK, QueueTypeOK, DispatchTypeOK, Pushed
  <2>3. popped' = popped + 1 BY <1>3, <2>1, <2>2 DEF Pop, LosslessInv
  <2>4. Len(queue') = Len(queue) - 1 BY <1>3, <2>1 DEF Pop
  <2>5. ASSUME NEW i \in 1 .. Len(queue') PROVE queue'[i] = popped' + i
    <3>1. i \in Nat /\ i + 1 \in 1 .. Len(queue) BY <2>1, <2>4
    <3>2. queue'[i] = queue[i + 1] BY <1>3, <2>1, <2>4, <3>1 DEF Pop
    <3>3. queue[i + 1] = popped + (i + 1) BY <3>1 DEF LosslessInv
    <3> QED BY <2>2, <2>3, <3>1, <3>2, <3>3
  <2>6. UNCHANGED <<Pushed, closed, step, packet>> BY <1>3 DEF Pop, dispatch, Pushed
  <2>7. popped' + Len(queue') = Pushed' BY <2>1, <2>2, <2>3, <2>4, <2>6 DEF LosslessInv
  <2> QED BY <2>5, <2>6, <2>7 DEF LosslessInv
<1>4. ASSUME NEW t \in Readers, Settle(t) PROVE LosslessInv'
  BY <1>4 DEF Settle, inner, dispatch, host, history, Return, Notify, Minus, Goto,
         TypeOK, QueueTypeOK, DispatchTypeOK, JobInv, Pushing, Pushed, ResetInv,
         DropInv, LosslessInv, Lossless
<1>5. ASSUME NEW t \in Readers, Empty(t) PROVE LosslessInv'
  BY <1>5 DEF Empty, inner, shared, dispatch, host, activity, Return, Jump, Goto,
         TypeOK, QueueTypeOK, DispatchTypeOK, JobInv, Pushing, Pushed, ResetInv,
         DropInv, LosslessInv, Lossless
<1>6. ASSUME NEW t \in Readers, CheckError(t) PROVE LosslessInv'
  BY <1>6 DEF CheckError, inner, shared, dispatch, host, history, activity, Return,
         Jump, Goto, TypeOK, QueueTypeOK, DispatchTypeOK, JobInv, Pushing, Pushed,
         ResetInv, DropInv, LosslessInv, Lossless
<1>7. ASSUME NEW t \in Readers, CheckClosed(t) PROVE LosslessInv'
  BY <1>7 DEF CheckClosed, inner, shared, dispatch, host, history, activity, Return,
         Jump, Goto, TypeOK, QueueTypeOK, DispatchTypeOK, JobInv, Pushing, Pushed,
         ResetInv, DropInv, LosslessInv, Lossless
<1>8. ASSUME NEW t \in Readers, CheckCancelled(t) PROVE LosslessInv'
  BY <1>8 DEF CheckCancelled, inner, shared, dispatch, host, history, activity, Return,
         Jump, Goto, TypeOK, QueueTypeOK, DispatchTypeOK, JobInv, Pushing, Pushed,
         ResetInv, DropInv, LosslessInv, Lossless
<1>9. ASSUME NEW t \in Readers, Pump(t) PROVE LosslessInv'
  <2>1. t \in Threads /\ (RunJob(t) \/ CloseJob(t)) BY <1>9 DEF Pump, Readers
  <2>2. UNCHANGED <<options, inner, cancelled, history, reset>> BY <1>9 DEF Pump, host
  <2> QED BY <2>1, <2>2, LosslessStarts
<1>10. ASSUME NEW t \in Readers, NothingToPump(t) PROVE LosslessInv'
  BY <1>10 DEF NothingToPump, inner, shared, dispatch, host, history, activity, Goto,
         CanRun, CanClose, NoJob, TypeOK, QueueTypeOK, DispatchTypeOK, JobInv, Pushing,
         Pushed, ResetInv, DropInv, LosslessInv, Lossless
<1>11. ASSUME NEW t \in Readers, Wait(t) PROVE LosslessInv'
  BY <1>11 DEF Wait, inner, shared, dispatch, host, history, activity, Return, Jump,
         FallAsleep, Goto, TypeOK, QueueTypeOK, DispatchTypeOK, JobInv, Pushing, Pushed,
         ResetInv, DropInv, LosslessInv, Lossless
<1>12. ASSUME NEW t \in Readers, Notified(t) PROVE LosslessInv'
  BY <1>12 DEF Notified, Awake, inner, shared, dispatch, host, history, Goto, WakeUp,
         TypeOK, QueueTypeOK, DispatchTypeOK, JobInv, Pushing, Pushed, ResetInv,
         DropInv, LosslessInv, Lossless
<1>13. ASSUME NEW t \in Readers, TimedOut(t) PROVE LosslessInv'
  BY <1>13 DEF TimedOut, Awake, inner, shared, dispatch, host, history, Goto, WakeUp,
         TypeOK, QueueTypeOK, DispatchTypeOK, JobInv, Pushing, Pushed, ResetInv,
         DropInv, LosslessInv, Lossless
<1>14. ASSUME PoolStarts PROVE LosslessInv'
  <2> QED BY <1>14, LosslessStarts DEF PoolStarts, host
<1>15. ASSUME Begin PROVE LosslessInv'
  BY <1>15 DEF Begin, inner, shared, reader, host, history, activity, Capture,
         PushReturns, NextStep, TypeOK, QueueTypeOK, DispatchTypeOK, JobInv, Pushing,
         Pushed, ResetInv, DropInv, LosslessInv, Lossless
<1>16. ASSUME Enqueue PROVE LosslessInv'
  <2>1. packet \in 1 .. MaxPackets /\ Pushed = packet - 1 /\ Pushed' = packet
    <3>1. PushReturns(TRUE) /\ Pushing BY <1>16 DEF Enqueue, Pushing
    <3>2. left \in Nat \ {0} /\ packet \in 1 .. MaxPackets
      BY <3>1 DEF JobInv, TypeOK, DispatchTypeOK
    <3>3. \/ packet' = packet + 1 /\ left' > 0
          \/ packet' = packet /\ left' = 0
      BY <3>1, <3>2, PushEnds
    <3> QED BY <3>2, <3>3 DEF Pushed
  <2>2. queue \in Seq(1 .. MaxPackets) /\ Len(queue) \in Nat /\ popped \in Nat
    BY DEF TypeOK, QueueTypeOK
  <2> SUFFICES ASSUME reset = "no", Lossless PROVE LosslessInv'
    BY <1>16 DEF Enqueue, host, Lossless, LosslessInv
  <2>3. queue' = Append(queue, packet) /\ UNCHANGED <<popped, closed>>
    BY <1>16 DEF Enqueue, history
  <2>4. popped + Len(queue') = packet BY <2>1, <2>2, <2>3 DEF LosslessInv
  <2>5. ASSUME NEW i \in 1 .. Len(queue') PROVE queue'[i] = popped + i
    <3>1. CASE i = Len(queue') BY <2>1, <2>2, <2>3, <2>4, <3>1
    <3>2. CASE i # Len(queue')
      <4>1. i \in 1 .. Len(queue) BY <2>1, <2>2, <2>3, <3>2
      <4> QED BY <2>1, <2>2, <2>3, <4>1 DEF LosslessInv
    <3> QED BY <3>1, <3>2
  <2>6. ~closed' /\ step' # "close"
    <3>1. PushReturns(TRUE) /\ Pushing /\ step = "lock" BY <1>16 DEF Enqueue, Pushing
    <3>2. step' # "close" BY <3>1, PushEnds
    <3> QED BY <2>3, <3>1, <3>2 DEF JobInv
  <2> QED BY <2>1, <2>3, <2>4, <2>5, <2>6 DEF LosslessInv
<1>17. ASSUME Inactive PROVE LosslessInv'
  BY <1>17 DEF Inactive, inner, shared, reader, host, history, activity, PushReturns,
         TypeOK, QueueTypeOK, DispatchTypeOK, JobInv, Pushing, Pushed, ResetInv,
         DropInv, LosslessInv, Lossless
<1>18. ASSUME Replace PROVE LosslessInv'
  BY <1>18 DEF Replace, reader, host, history, activity, PushReturns, Full, Kept, Minus,
         TypeOK, QueueTypeOK, DispatchTypeOK, JobInv, Pushing, Pushed, ResetInv,
         DropInv, LosslessInv, Lossless
<1>19. ASSUME DropNewest PROVE LosslessInv'
  BY <1>19 DEF DropNewest, inner, shared, reader, host, history, activity, PushReturns,
         Full, TypeOK, QueueTypeOK, DispatchTypeOK, JobInv, Pushing, Pushed, ResetInv,
         DropInv, LosslessInv, Lossless
<1>20. ASSUME Block PROVE LosslessInv'
  BY <1>20 DEF Block, inner, shared, reader, host, history, activity, NextStep, Full,
         TypeOK, QueueTypeOK, DispatchTypeOK, JobInv, Pushing, Pushed, ResetInv,
         DropInv, LosslessInv, Lossless
<1>21. ASSUME GiveUp PROVE LosslessInv'
  BY <1>21 DEF GiveUp, inner, shared, reader, host, history, activity, PushReturns,
         Stopped, TypeOK, QueueTypeOK, DispatchTypeOK, JobInv, Pushing, Pushed,
         ResetInv, DropInv, LosslessInv, Lossless
<1>22. ASSUME Expire PROVE LosslessInv'
  BY <1>22 DEF Expire, inner, reader, host, history, activity, PushReturns, Stopped,
         TypeOK, QueueTypeOK, DispatchTypeOK, JobInv, Pushing, Pushed, ResetInv,
         DropInv, LosslessInv, Lossless
<1>23. ASSUME Stall PROVE LosslessInv'
  BY <1>23 DEF Stall, inner, shared, reader, host, history, activity, NextStep, Stopped,
         TypeOK, QueueTypeOK, DispatchTypeOK, JobInv, Pushing, Pushed, ResetInv,
         DropInv, LosslessInv, Lossless
<1>24. ASSUME PushWaits PROVE LosslessInv'
  BY <1>24 DEF PushWaits, inner, shared, reader, host, history, activity, FallAsleep,
         NextStep, TypeOK, QueueTypeOK, DispatchTypeOK, JobInv, Pushing, Pushed,
         ResetInv, DropInv, LosslessInv, Lossless
<1>25. ASSUME PushNotified PROVE LosslessInv'
  BY <1>25 DEF PushNotified, PushAwake, inner, shared, reader, host, history, WakeUp,
         NextStep, TypeOK, QueueTypeOK, DispatchTypeOK, JobInv, Pushing, Pushed,
         ResetInv, DropInv, LosslessInv, Lossless
<1>26. ASSUME PushTimedOut PROVE LosslessInv'
  BY <1>26 DEF PushTimedOut, PushAwake, inner, shared, reader, host, history, WakeUp,
         NextStep, TypeOK, QueueTypeOK, DispatchTypeOK, JobInv, Pushing, Pushed,
         ResetInv, DropInv, LosslessInv, Lossless
<1>27. ASSUME Announce PROVE LosslessInv'
  BY <1>27 DEF Announce, inner, shared, reader, host, history, Notify, NextStep, TypeOK,
         QueueTypeOK, DispatchTypeOK, JobInv, Pushing, Pushed, ResetInv, DropInv,
         LosslessInv, Lossless
<1>28. ASSUME Close PROVE LosslessInv'
  BY <1>28 DEF Close, shared, reader, host, history, activity, NextStep, TypeOK,
         QueueTypeOK, DispatchTypeOK, JobInv, Pushing, Pushed, ResetInv, DropInv,
         LosslessInv, Lossless
<1>29. ASSUME Release PROVE LosslessInv'
  BY <1>29 DEF Release, inner, shared, host, history, activity, TypeOK, QueueTypeOK,
         DispatchTypeOK, JobInv, Pushing, Pushed, ResetInv, DropInv, LosslessInv,
         Lossless
<1>30. ASSUME Cancel PROVE LosslessInv'
  BY <1>30 DEF Cancel, inner, reader, dispatch, history, activity, TypeOK, QueueTypeOK,
         DispatchTypeOK, JobInv, Pushing, Pushed, ResetInv, DropInv, LosslessInv,
         Lossless
<1>31. ASSUME CancelAnnounced PROVE LosslessInv'
  BY <1>31 DEF CancelAnnounced, inner, shared, reader, dispatch, history, Notify,
         TypeOK, QueueTypeOK, DispatchTypeOK, JobInv, Pushing, Pushed, ResetInv,
         DropInv, LosslessInv, Lossless
<1>32. ASSUME Drop PROVE LosslessInv'
  BY <1>32 DEF Drop, shared, reader, dispatch, history, activity, TypeOK, QueueTypeOK,
         DispatchTypeOK, JobInv, Pushing, Pushed, ResetInv, DropInv, LosslessInv,
         Lossless
<1>33. ASSUME Clear PROVE LosslessInv'
  BY <1>33 DEF Clear, reader, dispatch, history, activity, Cleared, Minus, TypeOK,
         QueueTypeOK, DispatchTypeOK, JobInv, Pushing, Pushed, ResetInv, DropInv,
         LosslessInv, Lossless
<1>34. ASSUME DropAnnounced PROVE LosslessInv'
  BY <1>34 DEF DropAnnounced, inner, shared, reader, dispatch, history, Notify, TypeOK,
         QueueTypeOK, DispatchTypeOK, JobInv, Pushing, Pushed, ResetInv, DropInv,
         LosslessInv, Lossless
<1>35. ASSUME Reset PROVE LosslessInv'
  BY <1>35 DEF Reset, inner, reader, dispatch, history, activity, TypeOK,
         QueueTypeOK, DispatchTypeOK, JobInv, Pushing, Pushed, ResetInv, DropInv,
         LosslessInv, Lossless
<1>36. ASSUME ResetQueue PROVE LosslessInv'
  BY <1>36 DEF ResetQueue, reader, dispatch, history, Notify, Cleared, Minus, TypeOK,
         QueueTypeOK, DispatchTypeOK, JobInv, Pushing, Pushed, ResetInv, DropInv,
         LosslessInv, Lossless
<1>37. ASSUME ResetClosed PROVE LosslessInv'
  BY <1>37 DEF ResetClosed, shared, reader, dispatch, history, activity, TypeOK,
         QueueTypeOK, DispatchTypeOK, JobInv, Pushing, Pushed, ResetInv, DropInv,
         LosslessInv, Lossless
<1>38. ASSUME ResetWaiters PROVE LosslessInv'
  BY <1>38 DEF ResetWaiters, inner, shared, reader, dispatch, history, ForgetWaiters,
         TypeOK, QueueTypeOK, DispatchTypeOK, JobInv, Pushing, Pushed, ResetInv,
         DropInv, LosslessInv, Lossless
<1>39. ASSUME Start PROVE LosslessInv'
  <2>1. queue' = <<>> /\ packet' = 0 /\ popped' = 0 /\ ~closed' /\ UNCHANGED <<left, step>>
    BY <1>39 DEF Start, inner, ResetInv
  <2>2. left = 0 /\ step = "none"
    BY <1>39 DEF Start, JobInv, ResetInv, Pushing, TypeOK, DispatchTypeOK
  <2> QED BY <2>1, <2>2 DEF LosslessInv, Pushed
<1> QED BY <1>1, <1>2, <1>3, <1>4, <1>5, <1>6, <1>7, <1>8, <1>9, <1>10, <1>11, <1>12,
           <1>13, <1>14, <1>15, <1>16, <1>17, <1>18, <1>19, <1>20, <1>21, <1>22, <1>23,
           <1>24, <1>25, <1>26, <1>27, <1>28, <1>29, <1>30, <1>31, <1>32, <1>33, <1>34,
           <1>35, <1>36, <1>37, <1>38, <1>39 DEF Next, Read, Produce, Push, Host

\* After the final pop there is nothing more to come.
LEMMA EndStep ==
    ASSUME TypeOK, JobInv, ResetInv, DropInv, LosslessInv, EndInv, Next
    PROVE  EndInv'
<1>1. ASSUME NEW t \in Readers, Call(t) PROVE EndInv'
  BY <1>1 DEF Call, inner, shared, dispatch, host, history, activity, Goto, TypeOK,
         QueueTypeOK, DispatchTypeOK, ReaderTypeOK, JobInv, Pushing, Pushed, ResetInv,
         DropInv, LosslessInv, Lossless, EndInv, EndIsFinal
<1>2. ASSUME NEW t \in Readers, CaptureGen(t) PROVE EndInv'
  BY <1>2 DEF CaptureGen, inner, shared, dispatch, host, history, Goto, Capture, TypeOK,
         QueueTypeOK, DispatchTypeOK, ReaderTypeOK, JobInv, Pushing, Pushed, ResetInv,
         DropInv, LosslessInv, Lossless, EndInv, EndIsFinal
<1>3. ASSUME NEW t \in Readers, Pop(t) PROVE EndInv'
  BY <1>3 DEF Pop, shared, dispatch, host, activity, Goto, TypeOK, QueueTypeOK,
         DispatchTypeOK, ReaderTypeOK, JobInv, Pushing, Pushed, ResetInv, DropInv,
         LosslessInv, Lossless, EndInv, EndIsFinal
<1>4. ASSUME NEW t \in Readers, Settle(t) PROVE EndInv'
  BY <1>4 DEF Settle, inner, dispatch, host, history, Return, Notify, Minus, Goto,
         TypeOK, QueueTypeOK, DispatchTypeOK, ReaderTypeOK, JobInv, Pushing, Pushed,
         ResetInv, DropInv, LosslessInv, Lossless, EndInv, EndIsFinal
<1>5. ASSUME NEW t \in Readers, Empty(t) PROVE EndInv'
  BY <1>5 DEF Empty, inner, shared, dispatch, host, activity, Return, Jump, Goto,
         TypeOK, QueueTypeOK, DispatchTypeOK, ReaderTypeOK, JobInv, Pushing, Pushed,
         ResetInv, DropInv, LosslessInv, Lossless, EndInv, EndIsFinal
<1>6. ASSUME NEW t \in Readers, CheckError(t) PROVE EndInv'
  BY <1>6 DEF CheckError, inner, shared, dispatch, host, history, activity, Return,
         Jump, Goto, TypeOK, QueueTypeOK, DispatchTypeOK, ReaderTypeOK, JobInv, Pushing,
         Pushed, ResetInv, DropInv, LosslessInv, Lossless, EndInv, EndIsFinal
<1>7. ASSUME NEW t \in Readers, CheckClosed(t) PROVE EndInv'
  BY <1>7 DEF CheckClosed, inner, shared, dispatch, host, history, activity, Return,
         Jump, Goto, TypeOK, QueueTypeOK, DispatchTypeOK, ReaderTypeOK, JobInv, Pushing,
         Pushed, ResetInv, DropInv, LosslessInv, Lossless, EndInv, EndIsFinal
<1>8. ASSUME NEW t \in Readers, CheckCancelled(t) PROVE EndInv'
  BY <1>8 DEF CheckCancelled, inner, shared, dispatch, host, history, activity, Return,
         Jump, Goto, TypeOK, QueueTypeOK, DispatchTypeOK, ReaderTypeOK, JobInv, Pushing,
         Pushed, ResetInv, DropInv, LosslessInv, Lossless, EndInv, EndIsFinal
<1>9. ASSUME NEW t \in Readers, Pump(t) PROVE EndInv'
  BY <1>9 DEF Pump, inner, host, history, activity, Goto, RunJob, CloseJob, CanClose,
         NoJob, CanRun, TypeOK, QueueTypeOK, DispatchTypeOK, ReaderTypeOK, JobInv,
         Pushing, Pushed, ResetInv, DropInv, LosslessInv, Lossless, EndInv, EndIsFinal
<1>10. ASSUME NEW t \in Readers, NothingToPump(t) PROVE EndInv'
  BY <1>10 DEF NothingToPump, inner, shared, dispatch, host, history, activity, Goto,
         CanRun, CanClose, NoJob, TypeOK, QueueTypeOK, DispatchTypeOK, ReaderTypeOK,
         JobInv, Pushing, Pushed, ResetInv, DropInv, LosslessInv, Lossless, EndInv,
         EndIsFinal
<1>11. ASSUME NEW t \in Readers, Wait(t) PROVE EndInv'
  BY <1>11 DEF Wait, inner, shared, dispatch, host, history, activity, Return, Jump,
         FallAsleep, Goto, TypeOK, QueueTypeOK, DispatchTypeOK, ReaderTypeOK, JobInv,
         Pushing, Pushed, ResetInv, DropInv, LosslessInv, Lossless, EndInv, EndIsFinal
<1>12. ASSUME NEW t \in Readers, Notified(t) PROVE EndInv'
  BY <1>12 DEF Notified, Awake, inner, shared, dispatch, host, history, Goto, WakeUp,
         TypeOK, QueueTypeOK, DispatchTypeOK, ReaderTypeOK, JobInv, Pushing, Pushed,
         ResetInv, DropInv, LosslessInv, Lossless, EndInv, EndIsFinal
<1>13. ASSUME NEW t \in Readers, TimedOut(t) PROVE EndInv'
  BY <1>13 DEF TimedOut, Awake, inner, shared, dispatch, host, history, Goto, WakeUp,
         TypeOK, QueueTypeOK, DispatchTypeOK, ReaderTypeOK, JobInv, Pushing, Pushed,
         ResetInv, DropInv, LosslessInv, Lossless, EndInv, EndIsFinal
<1>14. ASSUME PoolStarts PROVE EndInv'
  BY <1>14 DEF PoolStarts, inner, reader, host, history, activity, RunJob, CloseJob,
         CanClose, NoJob, CanRun, TypeOK, QueueTypeOK, DispatchTypeOK, ReaderTypeOK,
         JobInv, Pushing, Pushed, ResetInv, DropInv, LosslessInv, Lossless, EndInv,
         EndIsFinal
<1>15. ASSUME Begin PROVE EndInv'
  BY <1>15 DEF Begin, inner, shared, reader, host, history, activity, Capture,
         PushReturns, NextStep, TypeOK, QueueTypeOK, DispatchTypeOK, ReaderTypeOK,
         JobInv, Pushing, Pushed, ResetInv, DropInv, LosslessInv, Lossless, EndInv,
         EndIsFinal
<1>16. ASSUME Enqueue PROVE EndInv'
  BY <1>16 DEF Enqueue, reader, host, history, activity, PushReturns, Full, TypeOK,
         QueueTypeOK, DispatchTypeOK, ReaderTypeOK, JobInv, Pushing, Pushed, ResetInv,
         DropInv, LosslessInv, Lossless, EndInv, EndIsFinal
<1>17. ASSUME Inactive PROVE EndInv'
  BY <1>17 DEF Inactive, inner, shared, reader, host, history, activity, PushReturns,
         TypeOK, QueueTypeOK, DispatchTypeOK, ReaderTypeOK, JobInv, Pushing, Pushed,
         ResetInv, DropInv, LosslessInv, Lossless, EndInv, EndIsFinal
<1>18. ASSUME Replace PROVE EndInv'
  BY <1>18 DEF Replace, reader, host, history, activity, PushReturns, Full, Kept, Minus,
         TypeOK, QueueTypeOK, DispatchTypeOK, ReaderTypeOK, JobInv, Pushing, Pushed,
         ResetInv, DropInv, LosslessInv, Lossless, EndInv, EndIsFinal
<1>19. ASSUME DropNewest PROVE EndInv'
  BY <1>19 DEF DropNewest, inner, shared, reader, host, history, activity, PushReturns,
         Full, TypeOK, QueueTypeOK, DispatchTypeOK, ReaderTypeOK, JobInv, Pushing,
         Pushed, ResetInv, DropInv, LosslessInv, Lossless, EndInv, EndIsFinal
<1>20. ASSUME Block PROVE EndInv'
  BY <1>20 DEF Block, inner, shared, reader, host, history, activity, NextStep, Full,
         TypeOK, QueueTypeOK, DispatchTypeOK, ReaderTypeOK, JobInv, Pushing, Pushed,
         ResetInv, DropInv, LosslessInv, Lossless, EndInv, EndIsFinal
<1>21. ASSUME GiveUp PROVE EndInv'
  BY <1>21 DEF GiveUp, inner, shared, reader, host, history, activity, PushReturns,
         Stopped, TypeOK, QueueTypeOK, DispatchTypeOK, ReaderTypeOK, JobInv, Pushing,
         Pushed, ResetInv, DropInv, LosslessInv, Lossless, EndInv, EndIsFinal
<1>22. ASSUME Expire PROVE EndInv'
  BY <1>22 DEF Expire, inner, reader, host, history, activity, PushReturns, Stopped,
         TypeOK, QueueTypeOK, DispatchTypeOK, ReaderTypeOK, JobInv, Pushing, Pushed,
         ResetInv, DropInv, LosslessInv, Lossless, EndInv, EndIsFinal
<1>23. ASSUME Stall PROVE EndInv'
  BY <1>23 DEF Stall, inner, shared, reader, host, history, activity, NextStep, Stopped,
         TypeOK, QueueTypeOK, DispatchTypeOK, ReaderTypeOK, JobInv, Pushing, Pushed,
         ResetInv, DropInv, LosslessInv, Lossless, EndInv, EndIsFinal
<1>24. ASSUME PushWaits PROVE EndInv'
  BY <1>24 DEF PushWaits, inner, shared, reader, host, history, activity, FallAsleep,
         NextStep, TypeOK, QueueTypeOK, DispatchTypeOK, ReaderTypeOK, JobInv, Pushing,
         Pushed, ResetInv, DropInv, LosslessInv, Lossless, EndInv, EndIsFinal
<1>25. ASSUME PushNotified PROVE EndInv'
  BY <1>25 DEF PushNotified, PushAwake, inner, shared, reader, host, history, WakeUp,
         NextStep, TypeOK, QueueTypeOK, DispatchTypeOK, ReaderTypeOK, JobInv, Pushing,
         Pushed, ResetInv, DropInv, LosslessInv, Lossless, EndInv, EndIsFinal
<1>26. ASSUME PushTimedOut PROVE EndInv'
  BY <1>26 DEF PushTimedOut, PushAwake, inner, shared, reader, host, history, WakeUp,
         NextStep, TypeOK, QueueTypeOK, DispatchTypeOK, ReaderTypeOK, JobInv, Pushing,
         Pushed, ResetInv, DropInv, LosslessInv, Lossless, EndInv, EndIsFinal
<1>27. ASSUME Announce PROVE EndInv'
  BY <1>27 DEF Announce, inner, shared, reader, host, history, Notify, NextStep, TypeOK,
         QueueTypeOK, DispatchTypeOK, ReaderTypeOK, JobInv, Pushing, Pushed, ResetInv,
         DropInv, LosslessInv, Lossless, EndInv, EndIsFinal
<1>28. ASSUME Close PROVE EndInv'
  BY <1>28 DEF Close, shared, reader, host, history, activity, NextStep, TypeOK,
         QueueTypeOK, DispatchTypeOK, ReaderTypeOK, JobInv, Pushing, Pushed, ResetInv,
         DropInv, LosslessInv, Lossless, EndInv, EndIsFinal
<1>29. ASSUME Release PROVE EndInv'
  BY <1>29 DEF Release, inner, shared, host, history, activity, TypeOK, QueueTypeOK,
         DispatchTypeOK, ReaderTypeOK, JobInv, Pushing, Pushed, ResetInv, DropInv,
         LosslessInv, Lossless, EndInv, EndIsFinal
<1>30. ASSUME Cancel PROVE EndInv'
  BY <1>30 DEF Cancel, inner, reader, dispatch, history, activity, TypeOK, QueueTypeOK,
         DispatchTypeOK, ReaderTypeOK, JobInv, Pushing, Pushed, ResetInv, DropInv,
         LosslessInv, Lossless, EndInv, EndIsFinal
<1>31. ASSUME CancelAnnounced PROVE EndInv'
  BY <1>31 DEF CancelAnnounced, inner, shared, reader, dispatch, history, Notify,
         TypeOK, QueueTypeOK, DispatchTypeOK, ReaderTypeOK, JobInv, Pushing, Pushed,
         ResetInv, DropInv, LosslessInv, Lossless, EndInv, EndIsFinal
<1>32. ASSUME Drop PROVE EndInv'
  BY <1>32 DEF Drop, shared, reader, dispatch, history, activity, TypeOK, QueueTypeOK,
         DispatchTypeOK, ReaderTypeOK, JobInv, Pushing, Pushed, ResetInv, DropInv,
         LosslessInv, Lossless, EndInv, EndIsFinal
<1>33. ASSUME Clear PROVE EndInv'
  BY <1>33 DEF Clear, reader, dispatch, history, activity, Cleared, Minus, TypeOK,
         QueueTypeOK, DispatchTypeOK, ReaderTypeOK, JobInv, Pushing, Pushed, ResetInv,
         DropInv, LosslessInv, Lossless, EndInv, EndIsFinal
<1>34. ASSUME DropAnnounced PROVE EndInv'
  BY <1>34 DEF DropAnnounced, inner, shared, reader, dispatch, history, Notify, TypeOK,
         QueueTypeOK, DispatchTypeOK, ReaderTypeOK, JobInv, Pushing, Pushed, ResetInv,
         DropInv, LosslessInv, Lossless, EndInv, EndIsFinal
<1>35. ASSUME Reset PROVE EndInv'
  BY <1>35 DEF Reset, inner, reader, dispatch, history, activity, TypeOK,
         QueueTypeOK, DispatchTypeOK, ReaderTypeOK, JobInv, Pushing, Pushed, ResetInv,
         DropInv, LosslessInv, Lossless, EndInv, EndIsFinal
<1>36. ASSUME ResetQueue PROVE EndInv'
  BY <1>36 DEF ResetQueue, reader, dispatch, history, Notify, Cleared, Minus, TypeOK,
         QueueTypeOK, DispatchTypeOK, ReaderTypeOK, JobInv, Pushing, Pushed, ResetInv,
         DropInv, LosslessInv, Lossless, EndInv, EndIsFinal
<1>37. ASSUME ResetClosed PROVE EndInv'
  BY <1>37 DEF ResetClosed, shared, reader, dispatch, history, activity, TypeOK,
         QueueTypeOK, DispatchTypeOK, ReaderTypeOK, JobInv, Pushing, Pushed, ResetInv,
         DropInv, LosslessInv, Lossless, EndInv, EndIsFinal
<1>38. ASSUME ResetWaiters PROVE EndInv'
  BY <1>38 DEF ResetWaiters, inner, shared, reader, dispatch, history, ForgetWaiters,
         TypeOK, QueueTypeOK, DispatchTypeOK, ReaderTypeOK, JobInv, Pushing, Pushed,
         ResetInv, DropInv, LosslessInv, Lossless, EndInv, EndIsFinal
<1>39. ASSUME Start PROVE EndInv'
  BY <1>39 DEF Start, inner, shared, reader, Notify, TypeOK, QueueTypeOK,
         DispatchTypeOK, ReaderTypeOK, JobInv, Pushing, Pushed, ResetInv, DropInv,
         LosslessInv, Lossless, EndInv, EndIsFinal
<1> QED BY <1>1, <1>2, <1>3, <1>4, <1>5, <1>6, <1>7, <1>8, <1>9, <1>10, <1>11, <1>12,
           <1>13, <1>14, <1>15, <1>16, <1>17, <1>18, <1>19, <1>20, <1>21, <1>22, <1>23,
           <1>24, <1>25, <1>26, <1>27, <1>28, <1>29, <1>30, <1>31, <1>32, <1>33, <1>34,
           <1>35, <1>36, <1>37, <1>38, <1>39 DEF Next, Read, Produce, Push, Host

\* A state in which nothing happens keeps every invariant.
LEMMA Stutter ==
    ASSUME IInv, UNCHANGED vars
    PROVE  IInv'
<1>1. /\ UNCHANGED <<options, queue, closed, active, total, error, cancelled, pc, kind>>
      /\ UNCHANGED <<runner, step, packet, left, any, drop, cancel, reset, run, popped, ended>>
      /\ UNCHANGED <<late, strays, current, sleep, waiters, forgotten>>
  BY DEF vars, inner, shared, activity, reader, dispatch, host, history
<1>2. TypeOK'
  BY <1>1 DEF IInv, TypeOK, ActivityTypeOK, QueueTypeOK, ReaderTypeOK, DispatchTypeOK,
              HostTypeOK
<1>3. WaitersCounted' /\ SleepInv'
  BY <1>1, ActivityUnchanged DEF IInv, activity, SleepInv, Sleeping
<1>4. TotalWithinStrays' BY <1>1, TotalUnchanged DEF IInv
<1>5. JobInv' /\ DropInv' /\ ResetInv' /\ DroppedStaysEmpty'
  BY <1>1 DEF IInv, JobInv, Pushing, DropInv, ResetInv, DroppedStaysEmpty
<1>6. OrderInv' BY <1>1 DEF IInv, OrderInv, StreamInOrder, Pushed
<1>7. LosslessInv' /\ EndInv'
  BY <1>1 DEF IInv, LosslessInv, Lossless, EndInv, EndIsFinal, Pushed
<1> QED BY <1>2, <1>3, <1>4, <1>5, <1>6, <1>7 DEF IInv

\* A graph that has just been started satisfies the inductive invariant.
LEMMA Initially ==
    ASSUME Init
    PROVE  IInv
<1>1. TypeOK
  <2>1. ActivityTypeOK
    <3>1. Cardinality(Threads) \in Nat BY FS_CardinalityType
    <3> QED BY <3>1 DEF Init, ActivityInit, ActivityTypeOK
  <2>2. QueueTypeOK
    <3>1. closed \in BOOLEAN /\ active \in BOOLEAN /\ error \in BOOLEAN /\ cancelled \in BOOLEAN
      BY DEF Init
    <3>2. ended \in BOOLEAN BY DEF Init
    <3> QED BY <3>1, <3>2 DEF Init, QueueTypeOK
  <2>3. ReaderTypeOK BY DEF Init, ReaderTypeOK, ReaderPCs
  <2>4. DispatchTypeOK
    <3>1. any \in BOOLEAN BY DEF Init
    <3> QED BY <3>1 DEF Init, DispatchTypeOK, Steps
  <2>5. HostTypeOK BY DEF Init, HostTypeOK
  <2> QED BY <2>1, <2>2, <2>3, <2>4, <2>5 DEF TypeOK
<1>2. WaitersCounted /\ SleepInv
  <2>1. Sleepers = {} BY DEF Init, ActivityInit, Sleepers, Sleeping
  <2>2. Missed = {} BY DEF Init, ActivityInit, Missed
  <2> QED BY <2>1, <2>2, FS_EmptySet
          DEF Init, ActivityInit, WaitersCounted, MissedOnlyByResets, SleepInv, Sleeping
<1>3. TotalWithinStrays
  <2>1. Due = {} BY DEF Init, Taken, Due
  <2>2. Held = 0 BY <2>1, FS_EmptySet DEF Init, Held
  <2> QED BY <2>2 DEF Init, TotalWithinStrays
<1>4. JobInv /\ DropInv /\ ResetInv /\ DroppedStaysEmpty
  BY DEF Init, JobInv, Pushing, DropInv, ResetInv, DroppedStaysEmpty, Readers
<1>5. OrderInv /\ LosslessInv /\ EndInv
  BY DEF Init, OrderInv, StreamInOrder, Pushed, LosslessInv, Lossless, EndInv, EndIsFinal
<1> QED BY <1>1, <1>2, <1>3, <1>4, <1>5 DEF IInv

\* The invariant is inductive.
LEMMA Inductive ==
    ASSUME IInv, [Next]_vars
    PROVE  IInv'
<1>1. CASE UNCHANGED vars BY <1>1, Stutter
<1>2. CASE Next
  <2> USE <1>2 DEF IInv
  <2>1. TypeOK'
    BY ActivityTypeStep, QueueTypeStep, ReaderTypeStep, DispatchTypeStep, HostTypeStep
       DEF TypeOK
  <2>2. JobInv' /\ ResetInv' /\ DropInv' BY JobStep, ResetStep, DropStep
  <2>3. SleepInv' /\ WaitersCounted' BY SleepStep, WaitersStep
  <2>4. TotalWithinStrays' /\ DroppedStaysEmpty' BY TotalStep, EmptyStep
  <2>5. OrderInv' /\ LosslessInv' /\ EndInv' BY OrderStep, LosslessStep, EndStep
  <2> QED BY <2>1, <2>2, <2>3, <2>4, <2>5
<1> QED BY <1>1, <1>2

\* Every reachable state satisfies the inductive invariant.
THEOREM Invariance == Spec => []IInv
<1>1. Init => IInv BY Initially
<1>2. IInv /\ [Next]_vars => IInv' BY Inductive
<1> QED BY <1>1, <1>2, PTL DEF Spec

\* Type correctness, the width of the waiter count included.
THEOREM TypeCorrect == Spec => []TypeOK
<1>1. IInv => TypeOK BY DEF IInv
<1> QED BY <1>1, Invariance, PTL

\* At no time do more threads sleep through an announcement made after they captured
\* the generation than the last reset found asleep: without such a reset, none.
THEOREM WakeupsMissedOnlyByResets == Spec => []MissedOnlyByResets
<1>1. IInv => MissedOnlyByResets BY DEF IInv, WaitersCounted
<1> QED BY <1>1, Invariance, PTL

\* The global watermark counts the queued and the just taken packets of the run; it
\* falls short only by packets that readers carried over from the run before.
THEOREM WatermarkWithinStrays == Spec => []TotalWithinStrays
<1>1. IInv => TotalWithinStrays BY DEF IInv
<1> QED BY <1>1, Invariance, PTL

\* A reader that was told the end of the stream has missed nothing.
THEOREM EndOfStreamIsFinal == Spec => []EndIsFinal
<1>1. IInv => EndIsFinal BY DEF IInv, EndInv
<1> QED BY <1>1, Invariance, PTL

\* A dropped poller keeps no packet.
THEOREM DroppedPollerIsEmpty == Spec => []DroppedStaysEmpty
<1>1. IInv => DroppedStaysEmpty BY DEF IInv
<1> QED BY <1>1, Invariance, PTL

\* Packets are read in order from a queue within its capacity.
THEOREM ReadInOrder == Spec => []StreamInOrder
<1>1. IInv => StreamInOrder BY DEF IInv, OrderInv
<1> QED BY <1>1, Invariance, PTL

=============================================================================
