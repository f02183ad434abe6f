------------------------------ MODULE Activity ------------------------------
(***************************************************************************)
(* How a thread of the host, or a push into a full poller, waits for        *)
(* progress of the graph: `Activity` and its condition variable (graph.rs), *)
(* notify_activity, activity_gen and wait_activity_since (scheduler.rs).    *)
(*                                                                          *)
(* A waiter captures the generation, looks for work, and sleeps only if the *)
(* generation is still the captured one; so of the ever-growing counter     *)
(* this module keeps just `current[t]`: what t captured has not passed.     *)
(* The notifier skips the wakeup when `waiters` is 0.                       *)
(***************************************************************************)
EXTENDS Naturals, FiniteSets

CONSTANTS
    Threads,    \* whatever waits for activity
    UsizeMax    \* the largest value of the waiter count

ASSUME ActivityAssumption ==
    /\ IsFiniteSet(Threads)
    /\ UsizeMax \in Nat /\ Cardinality(Threads) <= UsizeMax

VARIABLES
    current,    \* current[t]: the generation t captured is the latest one
    sleep,      \* sleep[t]: "no", or t sleeps unnotified or notified
    waiters,    \* Activity::waiters
    forgotten   \* history: how many sleepers the last reset left uncounted

activity == <<current, sleep, waiters, forgotten>>

ActivityTypeOK ==
    /\ current \in [Threads -> BOOLEAN]
    /\ sleep \in [Threads -> {"no", "asleep", "notified"}]
    /\ waiters \in 0 .. UsizeMax
    /\ forgotten \in 0 .. Cardinality(Threads)

ActivityInit ==
    /\ current = [t \in Threads |-> FALSE]
    /\ sleep = [t \in Threads |-> "no"]
    /\ waiters = 0 /\ forgotten = 0

Sleeping(t) == sleep[t] # "no"
Sleepers == {t \in Threads : Sleeping(t)}

\* activity_gen: everything announced from now on will be noticed by t.
Capture(t) ==
    /\ current' = [current EXCEPT ![t] = TRUE]
    /\ UNCHANGED <<sleep, waiters, forgotten>>

\* Mutant of Notify: the wakeup is skipped when there is only one waiter.
NotifyMany ==
    /\ current' = [t \in Threads |-> FALSE]
    /\ sleep' = [t \in Threads |->
                    IF waiters > 1 /\ Sleeping(t) THEN "notified" ELSE sleep[t]]
    /\ UNCHANGED <<waiters, forgotten>>

\* notify_activity.  The generation passes in any case.
Notify ==
    /\ current' = [t \in Threads |-> FALSE]
    /\ sleep' = [t \in Threads |->
                    IF waiters > 0 /\ Sleeping(t) THEN "notified" ELSE sleep[t]]
    /\ UNCHANGED <<waiters, forgotten>>

\* wait_activity_since registers t under the lock that notify_activity takes.
FallAsleep(t) ==
    /\ current[t]
    /\ sleep' = [sleep EXCEPT ![t] = "asleep"]
    /\ waiters' = IF waiters = UsizeMax THEN 0 ELSE waiters + 1
    /\ UNCHANGED <<current, forgotten>>

\* wait_timeout_while ends: notified, or its time is up.  Below zero the count
\* wraps, as the release build does (a debug build panics).
WakeUp(t) ==
    /\ sleep' = [sleep EXCEPT ![t] = "no"]
    /\ waiters' = IF waiters = 0 THEN UsizeMax ELSE waiters - 1
    /\ UNCHANGED <<current, forgotten>>

\* reset zeroes the count, whoever is asleep.
ForgetWaiters ==
    /\ waiters' = 0
    /\ forgotten' = Cardinality(Sleepers)
    /\ UNCHANGED <<current, sleep>>

\* Those who sleep through an announcement made after they captured.
Missed == {t \in Threads : sleep[t] = "asleep" /\ ~current[t]}

(***************************************************************************)
(* Wakeups are lost (graph.rs, comment on Activity: never) only to the       *)
(* sleepers that a reset left uncounted: at no time do more threads sleep    *)
(* through an announcement than the last reset found asleep, and none does   *)
(* if it found none, or there was none.                                      *)
(***************************************************************************)
MissedOnlyByResets == Cardinality(Missed) <= forgotten

\* What makes it so: the count is that of the sleepers less those forgotten, in
\* the width it has; it is 0 only if there are just as many as were forgotten.
WaitersCounted ==
    /\ waiters = IF Cardinality(Sleepers) >= forgotten
                 THEN Cardinality(Sleepers) - forgotten
                 ELSE Cardinality(Sleepers) - forgotten + UsizeMax + 1
    /\ MissedOnlyByResets

=============================================================================
