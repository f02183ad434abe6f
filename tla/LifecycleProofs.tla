-------------------------- MODULE LifecycleProofs --------------------------
(***************************************************************************)
(* IInv of Lifecycle is inductive, and implies that the callbacks of the   *)
(* kernels exclude each other and that a run of the graph leaves nothing   *)
(* to the next one, for every number of workers and of calls in flight,    *)
(* and for every budget.                                                   *)
(*                                                                         *)
(* A thread does the first step of its list and puts the steps that the    *)
(* call stands for in front of the rest.  Pushed says so of one thread;    *)
(* what stands deeper in a list is kept by it.  Most steps only look at    *)
(* the state and push others: they are handled once, by QuietStep.         *)
(***************************************************************************)
EXTENDS Lifecycle, Integers, FiniteSetTheorems, SequenceTheorems, WellFoundedInduction, TLAPS

PlainKinds ==
    {"request", "arm", "reschedule", "generation", "end", "running", "pump", "task", "ended",
     "pumped", "again?", "wait", "done?", "idle?", "more?", "clear", "renew", "initialized",
     "cancelled", "invalidate", "forget", "stop", "join", "drop", "freed", "retire"}
NodeKinds ==
    {"try", "claim", "submit", "run", "process", "flush", "release", "resume?", "close?",
     "closing", "open", "woken"}

Steps ==
    {<<k>> : k \in PlainKinds} \cup NodeKinds \X Nodes
      \cup {"wake", "delay"} \X (Nat \ {0}) \cup {"completed"} \X {"run", "wake"}
      \cup {"land"} \X Nodes \X {"landed", "emitted"} \cup {"close"} \X Nodes \X BOOLEAN

Entries == {"claimed", "landed", "emitted"} \cup Threads

Kind(t, i) == todo[t][i][1]
Has(t, k) == \E i \in DOMAIN todo[t] : Kind(t, i) = k

---------------------------------------------------------------------------
(* Steps and lists of steps.                                                *)

\* What a step of a kind carries.
LEMMA StepShape ==
    ASSUME NEW s \in Steps
    PROVE  /\ s[1] \in NodeKinds \cup {"land", "close"} => s[2] \in Nodes
           /\ s[1] \in {"wake", "delay"} => s[2] \in Nat \ {0}
           /\ s[1] = "completed" => s[2] \in {"run", "wake"}
           /\ s[1] = "land" => s[3] \in {"landed", "emitted"}
           /\ s[1] = "close" => s[3] \in BOOLEAN
           /\ s[1] \in PlainKinds => s = <<s[1]>>
BY DEF Steps, PlainKinds, NodeKinds

\* Steps of every kind are steps.
LEMMA StepForms ==
    /\ \A k \in PlainKinds : <<k>> \in Steps
    /\ \A k \in NodeKinds, n \in Nodes : <<k, n>> \in Steps
    /\ \A k \in {"wake", "delay"}, g \in Nat \ {0} : <<k, g>> \in Steps
    /\ \A a \in {"run", "wake"} : <<"completed", a>> \in Steps
    /\ \A n \in Nodes, r \in {"landed", "emitted"} : <<"land", n, r>> \in Steps
    /\ \A n \in Nodes, b \in BOOLEAN : <<"close", n, b>> \in Steps
BY DEF Steps

\* Thread t puts steps in front of the last r of its list.
Pushed(t, steps, r) ==
    /\ todo' \in [Threads -> Seq(Steps)]
    /\ \A u \in Threads \ {t} : todo'[u] = todo[u]
    /\ steps \in Seq(Steps)
    /\ r \in 0 .. Len(todo[t])
    /\ Len(todo'[t]) = Len(steps) + r
    /\ \A i \in 1 .. Len(todo'[t]) :
          todo'[t][i] = IF i <= Len(steps) THEN steps[i]
                        ELSE todo[t][i - Len(steps) + Len(todo[t]) - r]

ListsOK == todo \in [Threads -> Seq(Steps)]

\* A thread that does its first step.
LEMMA GoPushes ==
    ASSUME ListsOK, NEW t \in Threads, NEW k, At(t, k), NEW steps \in Seq(Steps), Go(t, steps)
    PROVE  Pushed(t, steps, Len(todo[t]) - 1) /\ Len(todo[t]) \in Nat \ {0}
<1>1. todo[t] \in Seq(Steps) /\ todo[t] # <<>> BY DEF ListsOK, At, Idle
<1>2. /\ Tail(todo[t]) \in Seq(Steps) /\ Len(Tail(todo[t])) = Len(todo[t]) - 1
      /\ \A i \in 1 .. Len(Tail(todo[t])) : Tail(todo[t])[i] = todo[t][i + 1]
  BY <1>1, HeadTailProperties
<1>3. Len(todo[t]) \in Nat \ {0} /\ Len(steps) \in Nat BY <1>1, EmptySeq, LenProperties
<1>4. todo'[t] = steps \o Tail(todo[t]) /\ \A u \in Threads \ {t} : todo'[u] = todo[u]
  BY DEF ListsOK, Go
<1>5. /\ todo'[t] \in Seq(Steps) /\ Len(todo'[t]) = Len(steps) + (Len(todo[t]) - 1)
      /\ \A i \in 1 .. Len(todo'[t]) :
            todo'[t][i] = IF i <= Len(steps) THEN steps[i] ELSE Tail(todo[t])[i - Len(steps)]
  <2> HIDE DEF Steps
  <2> QED BY <1>2, <1>3, <1>4, ConcatProperties
<1>6. todo' \in [Threads -> Seq(Steps)] BY <1>4, <1>5 DEF ListsOK, Go
<1>7. \A i \in 1 .. Len(todo'[t]) :
         todo'[t][i] = IF i <= Len(steps) THEN steps[i]
                       ELSE todo[t][i - Len(steps) + Len(todo[t]) - (Len(todo[t]) - 1)]
  <2> SUFFICES ASSUME NEW i \in 1 .. Len(todo'[t]), ~(i <= Len(steps))
               PROVE  todo'[t][i] = todo[t][i - Len(steps) + Len(todo[t]) - (Len(todo[t]) - 1)]
    BY <1>5
  <2>1. i - Len(steps) \in 1 .. Len(Tail(todo[t])) BY <1>2, <1>3, <1>5
  <2>2. todo'[t][i] = todo[t][(i - Len(steps)) + 1] BY <2>1, <1>2, <1>5
  <2>3. (i - Len(steps)) + 1 = i - Len(steps) + Len(todo[t]) - (Len(todo[t]) - 1) BY <1>3
  <2> QED BY <2>2, <2>3
<1> QED BY <1>3, <1>4, <1>5, <1>6, <1>7 DEF Pushed

\* A thread that drops what it has to do, and is called.
LEMMA CallPushes ==
    ASSUME ListsOK, NEW t \in Threads, NEW steps \in Seq(Steps), Call(t, steps)
    PROVE  Pushed(t, steps, 0) /\ todo'[t] = steps
<1>1. Len(steps) \in Nat /\ Len(todo[t]) \in Nat BY LenProperties DEF ListsOK
<1>2. todo'[t] = steps /\ \A u \in Threads \ {t} : todo'[u] = todo[u] BY DEF ListsOK, Call
<1>3. todo' \in [Threads -> Seq(Steps)] BY <1>2 DEF ListsOK, Call
<1> QED BY <1>1, <1>2, <1>3 DEF Pushed

---------------------------------------------------------------------------
(* The invariant.                                                           *)

TypeOK ==
    /\ state \in {"Initialized", "Running", "Draining", "Terminated"}
    /\ shared \in [error : BOOLEAN, cancelled : BOOLEAN]
    /\ node \in [Nodes -> [opened : BOOLEAN, closeStarted : BOOLEAN, closed : BOOLEAN,
                           line : Seq(Entries), flushing : BOOLEAN]]
    /\ source \in [waiting : BOOLEAN, reschedule : BOOLEAN, done : BOOLEAN, generation : Nat]
    /\ sink \in [backlog : Nat, inputClosed : BOOLEAN]
    /\ inFlight \in Int /\ delegated \in Nat
    /\ pool \in [workers : SUBSET Workers, ready : Seq(Nat), delayed : SUBSET (Nat \ {0}),
                 running : Int, started : BOOLEAN, stop : BOOLEAN, exited : SUBSET Workers]

\* These steps are done at once by the thread that comes to them: no list has
\* them deeper.
FrontKinds == {"submit", "run", "process", "land", "closing", "idle?"}
FrontInv ==
    \A t \in Threads : \A i \in 1 .. Len(todo[t]) : Kind(t, i) \in FrontKinds => i = 1

\* What is left for a worker after its task was completed is a wakeup.
AfterTask == {"request", "arm"}
WorkerInv ==
    \A w \in Workers :
        \/ \A i \in 1 .. Len(todo[w]) : Kind(w, i) \in AfterTask
        \/ /\ Len(todo[w]) >= 1 /\ Kind(w, Len(todo[w])) = "completed"
           /\ \A i \in 1 .. Len(todo[w]) : Kind(w, i) = "completed" => i = Len(todo[w])

\* The host drops the graph at the very end, when it has joined the workers.
DropInv ==
    \A i \in 1 .. Len(todo[Host]) :
        /\ Kind(Host, i) = "drop" => i = Len(todo[Host]) - 1 /\ todo[Host][i + 1] = <<"freed">>
        /\ Kind(Host, i) = "drop" /\ i >= 2 => Kind(Host, i - 1) = "join"
        /\ Kind(Host, i) = "freed" /\ i >= 2 => Kind(Host, i - 1) = "drop"

ShapeInv == FrontInv /\ WorkerInv /\ DropInv

StartTails ==
    {<<<<"open", "source">>, <<"open", "sink">>, <<"running">>, <<"try", "source">>>>,
     <<<<"open", "sink">>, <<"running">>, <<"try", "source">>>>,
     <<<<"running">>, <<"try", "source">>>>}
ResetTails ==
    {<<<<"clear">>, <<"renew">>, <<"initialized">>>>, <<<<"renew">>, <<"initialized">>>>,
     <<<<"initialized">>>>}

\* What the host does to a graph that is not started, other than to start it.
CalmKinds ==
    {"request", "arm", "cancelled", "invalidate", "forget", "wait", "task", "ended", "done?",
     "idle?", "more?", "pump", "pumped", "again?", "close?", "close", "closing", "end",
     "try", "claim", "stop", "join", "drop", "freed"}
Calm(s, stopped) ==
    /\ s[1] \in CalmKinds
    /\ s[1] \in {"try", "claim"} => s[2] = "sink"
    /\ ~stopped => s[1] \notin {"closing", "end"} /\ (s[1] = "close" => s[3] = FALSE)

ResetInv ==
    Has(Host, "renew") \/ Has(Host, "initialized") =>
        state = "Terminated" /\ todo[Host] \in ResetTails
OpenInv == Has(Host, "open") => state = "Initialized" /\ todo[Host] \in StartTails
CalmInv ==
    state = "Initialized" =>
        \/ todo[Host] \in StartTails
        \/ \A i \in 1 .. Len(todo[Host]) : Calm(todo[Host][i], Stopped)

\* Between the runs of a graph nothing is outstanding.
Asleep == state = "Initialized" \/ Has(Host, "initialized")
SleepInv ==
    Asleep =>
        /\ pool.ready = <<>> /\ pool.delayed = {} /\ pool.running = 0 /\ inFlight = 0
        /\ \A w \in Workers : \A i \in 1 .. Len(todo[w]) : Kind(w, i) \in AfterTask

\* A graph that is not started, or about to be reset, is as new.
Fresh == state = "Initialized" \/ At(Host, "initialized")
FreshInv ==
    Fresh =>
        /\ delegated = 0 /\ sink.backlog = 0 /\ ~source.waiting /\ ~source.done
        /\ At(Host, "initialized") \/ ~Stopped => ~sink.inputClosed

PhaseInv == ResetInv /\ OpenInv /\ CalmInv /\ SleepInv /\ FreshInv

\* Only a graph whose nodes are all closed terminates, and each is closed by
\* the thread that claimed it.
TermInv ==
    state = "Terminated" /\ ~At(Host, "initialized") => \A n \in Nodes : node[n].closeStarted
ClosedInv == \A n \in Nodes : node[n].closed => node[n].closeStarted \/ At(Host, "freed")
CloserInv == \A t \in Threads : At(t, "closing") => node[Arg(t)].closeStarted
ClosingInv ==
    \A n \in Nodes : node[n].closeStarted /\ ~node[n].closed =>
                         \E t \in Threads : At(t, "closing") /\ Arg(t) = n
LookInv == At(Host, "idle?") => AllClosed
FreedInv == At(Host, "freed") => \A n \in Nodes : node[n].opened => node[n].closed

CloseInv == TermInv /\ ClosedInv /\ CloserInv /\ ClosingInv /\ LookInv /\ FreedInv

\* A worker has something to do only while it is a thread of a pool that runs,
\* and the pool counts those that run a task.
Away(w) == ~pool.started \/ w \notin pool.workers \/ w \in pool.exited
AwayInv == \A w \in Workers : Away(w) => Idle(w)
Joined == At(Host, "drop") \/ At(Host, "freed")
JoinInv == Joined => \A w \in Workers : Away(w)
RunningInv == pool.running = Cardinality({w \in Workers : Has(w, "completed")})

PoolInv == AwayInv /\ JoinInv /\ RunningInv

\* The line of a node has an entry for each of its calls: the thread that runs
\* it, and a claim for everyone who is about to.
LineInv ==
    \A n \in Nodes : node[n].line # <<>> =>
        node[n].opened /\ ~node[n].closeStarted /\ state \in Live
CallInv ==
    \A t \in Threads : At(t, "process") \/ At(t, "land") =>
        \E i \in 1 .. Len(node[Arg(t)].line) : node[Arg(t)].line[i] = t
Holders(n) == {t \in Threads : (At(t, "submit") \/ At(t, "run")) /\ Arg(t) = n}
Places(s, e) == {i \in 1 .. Len(s) : s[i] = e}
CountInv ==
    /\ Cardinality(Places(pool.ready, RunTask)) + Cardinality(Holders("source"))
          <= Cardinality(Places(node["source"].line, "claimed"))
    /\ delegated + Cardinality(Holders("sink"))
          <= Cardinality(Places(node["sink"].line, "claimed"))

\* One thread flushes a node, and what it releases is the first of the line.
Flushes(t, i, n) == i \in 1 .. Len(todo[t]) /\ Kind(t, i) \in {"flush", "release"} /\ todo[t][i][2] = n
FlushInv ==
    \A t \in Threads, n \in Nodes : \A i \in 1 .. Len(todo[t]) :
        Flushes(t, i, n) =>
            /\ node[n].flushing
            /\ \A u \in Threads, j \in Nat : Flushes(u, j, n) => u = t /\ j = i
            /\ Kind(t, i) = "release" => node[n].line # <<>> /\ node[n].line[1] = "emitted"

CallsInv == LineInv /\ CallInv /\ CountInv /\ FlushInv

IInv == TypeOK /\ ListsOK /\ ShapeInv /\ PhaseInv /\ CloseInv /\ PoolInv /\ CallsInv

---------------------------------------------------------------------------
(* What a step keeps of the lists.                                          *)

\* The first step of a list.
LEMMA Firsts ==
    ASSUME NEW s \in Seq(Steps)
    PROVE  /\ Len(s) \in Nat /\ (s = <<>> <=> Len(s) = 0) /\ (s # <<>> => Head(s) = s[1])
           /\ \A i \in 1 .. Len(s) : s[i] \in Steps
<1> HIDE DEF Steps
<1>1. Len(s) \in Nat /\ (s # <<>> => Len(s) \in Nat \ {0}) BY EmptySeq, LenProperties
<1>2. s # <<>> => Head(s) = s[1] OBVIOUS
<1>3. Len(<<>>) = 0 BY EmptySeq
<1>4. \A i \in 1 .. Len(s) : s[i] \in Steps BY ElementOfSeq
<1> QED BY <1>1, <1>2, <1>3, <1>4

\* Where a thread is, and with what, is its first step.
LEMMA AtFirst ==
    ASSUME ListsOK, NEW t \in Threads
    PROVE  /\ Len(todo[t]) \in Nat /\ (Idle(t) <=> Len(todo[t]) = 0)
           /\ \A k : At(t, k) <=> Len(todo[t]) >= 1 /\ Kind(t, 1) = k
           /\ Len(todo[t]) >= 1 => Arg(t) = todo[t][1][2] /\ Head(todo[t]) = todo[t][1]
           /\ \A i \in 1 .. Len(todo[t]) : todo[t][i] \in Steps
<1>1. todo[t] \in Seq(Steps) BY DEF ListsOK
<1> QED BY <1>1, Firsts DEF At, Idle, Arg, Kind

LEMMA AtFirstNext ==
    ASSUME ListsOK', NEW t \in Threads
    PROVE  /\ Len(todo'[t]) \in Nat /\ (Idle(t)' <=> Len(todo'[t]) = 0)
           /\ \A k : At(t, k)' <=> Len(todo'[t]) >= 1 /\ todo'[t][1][1] = k
           /\ Len(todo'[t]) >= 1 => Arg(t)' = todo'[t][1][2] /\ Head(todo'[t]) = todo'[t][1]
           /\ \A i \in 1 .. Len(todo'[t]) : todo'[t][i] \in Steps
<1>1. todo'[t] \in Seq(Steps) BY DEF ListsOK
<1> QED BY <1>1, Firsts DEF At, Idle, Arg, Kind

\* A thread either goes on, or is called.
Advances(t, steps, r) ==
    /\ Pushed(t, steps, r)
    /\ \/ Len(todo[t]) >= 1 /\ r = Len(todo[t]) - 1
       \/ Len(todo[t]) = 0 /\ r = 0

\* What a worker may do to its list.
WorkerAdvances(t, steps) ==
    \/ Len(todo[t]) >= 1 /\ Kind(t, 1) \in AfterTask /\ steps = <<>>
    \/ /\ Len(todo[t]) >= 1 /\ Kind(t, 1) \notin AfterTask \cup {"completed"}
       /\ \A i \in 1 .. Len(steps) : steps[i][1] # "completed"
    \/ /\ Len(todo[t]) >= 1 /\ Kind(t, 1) = "completed"
       /\ \A i \in 1 .. Len(steps) : steps[i][1] \in AfterTask
    \/ /\ Len(todo[t]) = 0 /\ Len(steps) >= 1 /\ steps[Len(steps)][1] = "completed"
       /\ \A i \in 1 .. Len(steps) : steps[i][1] = "completed" => i = Len(steps)

\* A place of the new list is one of the steps, or it was a place of the old list.
LEMMA Deeper ==
    ASSUME ListsOK, NEW t \in Threads, NEW steps, NEW r, Advances(t, steps, r)
    PROVE  /\ ListsOK'
           /\ Len(todo[t]) \in Nat /\ Len(steps) \in Nat /\ r \in Nat /\ Len(todo'[t]) \in Nat
           /\ \A u \in Threads \ {t} : todo'[u] = todo[u]
           /\ Len(todo[t]) >= 1 => Len(todo'[t]) = Len(steps) + Len(todo[t]) - 1
           /\ Len(todo[t]) = 0 => Len(todo'[t]) = Len(steps)
           /\ \A i \in 1 .. Len(todo'[t]) :
                 \/ i <= Len(steps) /\ todo'[t][i] = steps[i]
                 \/ /\ i > Len(steps) /\ Len(todo[t]) >= 1
                    /\ i - Len(steps) + 1 \in 2 .. Len(todo[t])
                    /\ todo'[t][i] = todo[t][i - Len(steps) + 1]
<1>1. ListsOK' BY DEF ListsOK, Advances, Pushed
<1>2. Len(todo[t]) \in Nat /\ Len(steps) \in Nat /\ r \in Nat /\ Len(todo'[t]) \in Nat
  BY <1>1, AtFirst, AtFirstNext, Firsts DEF Advances, Pushed
<1>3. \A u \in Threads \ {t} : todo'[u] = todo[u] BY DEF Advances, Pushed
<1>4. Len(todo[t]) >= 1 => Len(todo'[t]) = Len(steps) + Len(todo[t]) - 1
  BY <1>2 DEF Advances, Pushed
<1>5. Len(todo[t]) = 0 => Len(todo'[t]) = Len(steps) BY <1>2 DEF Advances, Pushed
<1>6. \A i \in 1 .. Len(todo'[t]) :
         \/ i <= Len(steps) /\ todo'[t][i] = steps[i]
         \/ /\ i > Len(steps) /\ Len(todo[t]) >= 1
            /\ i - Len(steps) + 1 \in 2 .. Len(todo[t])
            /\ todo'[t][i] = todo[t][i - Len(steps) + 1]
  <2> SUFFICES ASSUME NEW i \in 1 .. Len(todo'[t])
               PROVE  \/ i <= Len(steps) /\ todo'[t][i] = steps[i]
                      \/ /\ i > Len(steps) /\ Len(todo[t]) >= 1
                         /\ i - Len(steps) + 1 \in 2 .. Len(todo[t])
                         /\ todo'[t][i] = todo[t][i - Len(steps) + 1]
    OBVIOUS
  <2>1. CASE i <= Len(steps) BY <2>1 DEF Advances, Pushed
  <2>2. CASE i > Len(steps)
    <3>1. Len(todo'[t]) = Len(steps) + r BY DEF Advances, Pushed
    <3>2. r = Len(todo[t]) - 1 /\ Len(todo[t]) >= 1 BY <2>2, <3>1, <1>2 DEF Advances
    <3>3. i - Len(steps) + Len(todo[t]) - r = i - Len(steps) + 1 BY <3>2, <1>2
    <3>4. todo'[t][i] = todo[t][i - Len(steps) + Len(todo[t]) - r]
      BY <2>2, <1>2 DEF Advances, Pushed
    <3> QED BY <2>2, <3>1, <3>2, <3>3, <3>4, <1>2
  <2> QED BY <2>1, <2>2, <1>2
<1> QED BY <1>1, <1>2, <1>3, <1>4, <1>5, <1>6

\* ... and all of them but the first are kept.
LEMMA Kept ==
    ASSUME ListsOK, NEW t \in Threads, NEW steps, NEW r, Advances(t, steps, r)
    PROVE  /\ \A i \in 1 .. Len(steps) : i \in 1 .. Len(todo'[t]) /\ todo'[t][i] = steps[i]
           /\ \A i \in 2 .. Len(todo[t]) :
                 /\ i + Len(steps) - 1 \in 1 .. Len(todo'[t])
                 /\ todo'[t][i + Len(steps) - 1] = todo[t][i]
<1>1. /\ Len(todo[t]) \in Nat /\ Len(steps) \in Nat /\ Len(todo'[t]) \in Nat
      /\ Len(todo[t]) >= 1 => Len(todo'[t]) = Len(steps) + Len(todo[t]) - 1
      /\ Len(todo[t]) = 0 => Len(todo'[t]) = Len(steps)
  BY Deeper
<1>2. \A i \in 1 .. Len(todo'[t]) :
         \/ i <= Len(steps) /\ todo'[t][i] = steps[i]
         \/ /\ i > Len(steps) /\ Len(todo[t]) >= 1
            /\ i - Len(steps) + 1 \in 2 .. Len(todo[t])
            /\ todo'[t][i] = todo[t][i - Len(steps) + 1]
  BY Deeper
<1>3. \A i \in 1 .. Len(steps) : i \in 1 .. Len(todo'[t]) BY <1>1
<1>4. \A i \in 2 .. Len(todo[t]) :
         /\ i + Len(steps) - 1 \in 1 .. Len(todo'[t]) /\ i + Len(steps) - 1 > Len(steps)
         /\ (i + Len(steps) - 1) - Len(steps) + 1 = i
  BY <1>1
<1>5. \A i \in 2 .. Len(todo[t]) : todo'[t][i + Len(steps) - 1] = todo[t][i]
  <2> SUFFICES ASSUME NEW i \in 2 .. Len(todo[t])
               PROVE  todo'[t][i + Len(steps) - 1] = todo[t][i]
    OBVIOUS
  <2> DEFINE j == i + Len(steps) - 1
  <2>1. j \in 1 .. Len(todo'[t]) /\ ~(j <= Len(steps)) /\ j - Len(steps) + 1 = i BY <1>1, <1>4
  <2> HIDE DEF j
  <2>2. todo'[t][j] = todo[t][j - Len(steps) + 1] BY <2>1, <1>2
  <2> QED BY <2>1, <2>2 DEF j
<1>6. \A i \in 1 .. Len(steps) : todo'[t][i] = steps[i]
  <2> SUFFICES ASSUME NEW i \in 1 .. Len(steps) PROVE todo'[t][i] = steps[i]
    OBVIOUS
  <2>1. i \in 1 .. Len(todo'[t]) /\ ~(i > Len(steps)) BY <1>1, <1>3
  <2> QED BY <2>1, <1>2
<1> QED BY <1>3, <1>4, <1>5, <1>6

\* The end is put in a list as a whole, into an empty one.
EndsAdvance(t, steps) ==
    /\ Len(todo[t]) >= 1 => \A i \in 1 .. Len(steps) : steps[i][1] \notin {"drop", "freed"}
    /\ Len(todo[t]) >= 1 /\ Kind(t, 1) \in {"join", "drop"} => steps = <<>>
    /\ \A i \in 1 .. Len(steps) :
          /\ steps[i][1] = "drop" =>
                 /\ i = Len(steps) - 1 /\ steps[i + 1] = <<"freed">>
                 /\ i >= 2 /\ steps[i - 1][1] = "join"
          /\ steps[i][1] = "freed" => i >= 2 /\ steps[i - 1][1] = "drop"

LEMMA ShapeStep ==
    ASSUME ListsOK, ShapeInv, NEW t \in Threads, NEW steps, NEW r, Advances(t, steps, r),
           \A i \in 1 .. Len(steps) : steps[i][1] \in FrontKinds => i = 1,
           EndsAdvance(t, steps), t \in Workers => WorkerAdvances(t, steps)
    PROVE  ListsOK' /\ ShapeInv'
<1>1. ListsOK' BY Deeper
<1>2. Len(todo[t]) \in Nat /\ Len(steps) \in Nat /\ r \in Nat /\ Len(todo'[t]) \in Nat
  BY Deeper
<1>3. \A i \in 1 .. Len(todo'[t]) :
         \/ i <= Len(steps) /\ todo'[t][i][1] = steps[i][1] /\ todo'[t][i] = steps[i]
         \/ /\ i > Len(steps) /\ Len(todo[t]) >= 1
            /\ i - Len(steps) + 1 \in 2 .. Len(todo[t])
            /\ todo'[t][i][1] = Kind(t, i - Len(steps) + 1)
            /\ todo'[t][i] = todo[t][i - Len(steps) + 1]
  BY Deeper DEF Kind
<1>4. \A u \in Threads \ {t} : todo'[u] = todo[u] BY Deeper
<1>8. /\ Len(todo[t]) >= 1 => Len(todo'[t]) = Len(steps) + Len(todo[t]) - 1
      /\ Len(todo[t]) = 0 => Len(todo'[t]) = Len(steps)
  BY Deeper
<1>5. FrontInv'
  <2> SUFFICES ASSUME NEW u \in Threads, NEW i \in 1 .. Len(todo'[u]), todo'[u][i][1] \in FrontKinds
               PROVE  i = 1
    BY DEF FrontInv, Kind
  <2>1. CASE u # t BY <2>1, <1>4 DEF ShapeInv, FrontInv, Kind
  <2>2. CASE u = t
    <3>1. CASE i <= Len(steps) BY <2>2, <3>1, <1>2, <1>3
    <3>2. CASE i > Len(steps)
      <4>1. /\ i - Len(steps) + 1 \in 2 .. Len(todo[t])
            /\ Kind(t, i - Len(steps) + 1) \in FrontKinds
        BY <2>2, <3>2, <1>2, <1>3
      <4> QED BY <4>1, <1>2 DEF ShapeInv, FrontInv
    <3> QED BY <2>2, <3>1, <3>2, <1>2
  <2> QED BY <2>1, <2>2
<1>6. DropInv'
  <2>1. CASE Host # t
    BY <2>1, <1>4 DEF ShapeInv, DropInv, Kind, Threads
  <2>2. CASE Host = t /\ Len(todo[t]) = 0
    <3>1. /\ Len(todo'[t]) = Len(steps)
          /\ \A i \in 1 .. Len(todo'[t]) : todo'[t][i] = steps[i]
      BY <2>2, <1>2, <1>3, <1>8
    <3>2. \A i \in 1 .. Len(steps) :
             /\ steps[i][1] = "drop" =>
                    i = Len(steps) - 1 /\ i + 1 \in 1 .. Len(steps) /\ steps[i + 1] = <<"freed">>
             /\ steps[i][1] = "drop" => i - 1 \in 1 .. Len(steps) /\ steps[i - 1][1] = "join"
             /\ steps[i][1] = "freed" => i - 1 \in 1 .. Len(steps) /\ steps[i - 1][1] = "drop"
      <4> SUFFICES ASSUME NEW i \in 1 .. Len(steps)
                   PROVE  /\ steps[i][1] = "drop" =>
                                i = Len(steps) - 1 /\ i + 1 \in 1 .. Len(steps) /\ steps[i + 1] = <<"freed">>
                          /\ steps[i][1] = "drop" => i - 1 \in 1 .. Len(steps) /\ steps[i - 1][1] = "join"
                          /\ steps[i][1] = "freed" => i - 1 \in 1 .. Len(steps) /\ steps[i - 1][1] = "drop"
        OBVIOUS
      <4>1. /\ steps[i][1] = "drop" =>
                   /\ i = Len(steps) - 1 /\ steps[i + 1] = <<"freed">>
                   /\ i >= 2 /\ steps[i - 1][1] = "join"
            /\ steps[i][1] = "freed" => i >= 2 /\ steps[i - 1][1] = "drop"
        BY DEF EndsAdvance
      <4>2. i = Len(steps) - 1 => i + 1 \in 1 .. Len(steps) BY <1>2
      <4>3. i >= 2 => i - 1 \in 1 .. Len(steps) BY <1>2
      <4> QED BY <4>1, <4>2, <4>3
    <3> QED BY <2>2, <3>1, <3>2 DEF DropInv, Kind
  <2>3. CASE Host = t /\ Len(todo[t]) >= 1
    <3> SUFFICES ASSUME NEW i \in 1 .. Len(todo'[t]), todo'[t][i][1] \in {"drop", "freed"}
                 PROVE  /\ todo'[t][i][1] = "drop" =>
                               i = Len(todo'[t]) - 1 /\ todo'[t][i + 1] = <<"freed">>
                        /\ todo'[t][i][1] = "drop" /\ i >= 2 => todo'[t][i - 1][1] = "join"
                        /\ todo'[t][i][1] = "freed" /\ i >= 2 => todo'[t][i - 1][1] = "drop"
      BY <2>3 DEF DropInv, Kind
    <3> DEFINE j == i - Len(steps) + 1
    <3>1. i > Len(steps) /\ j \in 2 .. Len(todo[t]) /\ todo'[t][i] = todo[t][j]
      <4>1. ~(i <= Len(steps) /\ todo'[t][i] = steps[i])
        <5>1. i <= Len(steps) => i \in 1 .. Len(steps) BY <1>2
        <5> QED BY <5>1, <2>3 DEF EndsAdvance
      <4> QED BY <4>1, <1>3
    <3>2. \A k \in 1 .. Len(todo[t]) :
             /\ Kind(t, k) = "drop" => k = Len(todo[t]) - 1 /\ todo[t][k + 1] = <<"freed">>
             /\ Kind(t, k) = "drop" /\ k >= 2 => Kind(t, k - 1) = "join"
             /\ Kind(t, k) = "freed" /\ k >= 2 => Kind(t, k - 1) = "drop"
      BY <2>3 DEF ShapeInv, DropInv
    <3>3. ASSUME Kind(t, j) = "drop"
          PROVE  i = Len(todo'[t]) - 1 /\ todo'[t][i + 1] = <<"freed">>
      <4>0. j \in 1 .. Len(todo[t]) BY <3>1
      <4>1. j = Len(todo[t]) - 1 /\ todo[t][j + 1] = <<"freed">>
        <5> HIDE DEF j
        <5> QED BY <4>0, <3>2, <3>3
      <4>2. i = Len(todo'[t]) - 1 BY <4>1, <1>2, <1>8, <2>3
      <4>3. i + 1 \in 1 .. Len(todo'[t]) /\ i + 1 > Len(steps) BY <4>2, <3>1, <1>2
      <4>4. todo'[t][i + 1] = todo[t][(i + 1) - Len(steps) + 1] BY <4>3, <1>2, <1>3
      <4>5. (i + 1) - Len(steps) + 1 = j + 1 BY <1>2
      <4> QED BY <4>1, <4>2, <4>4, <4>5
    <3>4. CASE j = 2
      <4>1. Kind(t, 2) \in {"drop", "freed"} BY <3>1, <3>4 DEF Kind
      <4>2. 2 \in 1 .. Len(todo[t]) BY <3>1, <3>4
      <4>3. Kind(t, 2 - 1) \in {"join", "drop"} BY <3>2, <4>1, <4>2
      <4>4. 2 - 1 = 1 OBVIOUS
      <4>5. Kind(t, 1) \in {"join", "drop"} BY <4>3, <4>4
      <4>6. steps = <<>> BY <4>5, <2>3 DEF EndsAdvance
      <4>7. i = 1 BY <4>6, <3>4, <1>2
      <4>8. todo'[t][i][1] = "drop" => Kind(t, j) = "drop" BY <3>1 DEF Kind
      <4> QED BY <4>7, <4>8, <3>3
    <3>5. CASE j > 2
      <4>1. j - 1 \in 2 .. Len(todo[t]) /\ j \in 1 .. Len(todo[t]) /\ j >= 2 BY <3>1, <3>5, <1>2
      <4>2. i - 1 \in 1 .. Len(todo'[t]) /\ i - 1 > Len(steps)
        <5>1. i - Len(steps) + 1 > 2 BY <3>5
        <5> QED BY <5>1, <1>2
      <4>3. todo'[t][i - 1] = todo[t][(i - 1) - Len(steps) + 1]
        <5> DEFINE k == i - 1
        <5>1. k \in 1 .. Len(todo'[t]) /\ ~(k <= Len(steps)) BY <4>2, <1>2
        <5> HIDE DEF k
        <5>2. todo'[t][k] = todo[t][k - Len(steps) + 1] BY <5>1, <1>3
        <5> QED BY <5>2 DEF k
      <4>4. (i - 1) - Len(steps) + 1 = j - 1 BY <1>2
      <4>5. /\ Kind(t, j) = "drop" => Kind(t, j - 1) = "join"
            /\ Kind(t, j) = "freed" => Kind(t, j - 1) = "drop"
        <5> HIDE DEF j
        <5> QED BY <4>1, <3>2
      <4>6. todo'[t][i - 1][1] = Kind(t, j - 1) /\ todo'[t][i][1] = Kind(t, j)
        BY <4>3, <4>4, <3>1 DEF Kind
      <4> QED BY <4>5, <4>6, <3>3
    <3>6. j \in 2 .. Len(todo[t]) BY <3>1
    <3> HIDE DEF j
    <3>7. j = 2 \/ j > 2 BY <3>6, <1>2
    <3> QED BY <3>4, <3>5, <3>7
  <2> QED BY <2>1, <2>2, <2>3, <1>2
<1>7. WorkerInv'
  <2> SUFFICES ASSUME NEW w \in Workers
               PROVE  \/ \A i \in 1 .. Len(todo'[w]) : todo'[w][i][1] \in AfterTask
                      \/ /\ Len(todo'[w]) >= 1 /\ todo'[w][Len(todo'[w])][1] = "completed"
                         /\ \A i \in 1 .. Len(todo'[w]) : todo'[w][i][1] = "completed" => i = Len(todo'[w])
    BY DEF WorkerInv, Kind
  <2>1. CASE w # t BY <2>1, <1>4 DEF ShapeInv, WorkerInv, Kind, Threads
  <2>2. CASE w = t
    <3>1. \/ \A i \in 1 .. Len(todo[t]) : Kind(t, i) \in AfterTask
          \/ /\ Len(todo[t]) >= 1 /\ Kind(t, Len(todo[t])) = "completed"
             /\ \A i \in 1 .. Len(todo[t]) : Kind(t, i) = "completed" => i = Len(todo[t])
      BY <2>2 DEF ShapeInv, WorkerInv
    <3>2. Len(todo[t]) >= 1 => Len(todo'[t]) = Len(steps) + Len(todo[t]) - 1 BY <1>8
    <3>3. Len(todo[t]) = 0 => Len(todo'[t]) = Len(steps) BY <1>8
    <3>4. CASE Len(todo[t]) >= 1 /\ Kind(t, 1) \in AfterTask /\ steps = <<>>
      <4>1. Len(steps) = 0 BY <3>4
      <4>2. \A i \in 1 .. Len(todo'[t]) : i + 1 \in 1 .. Len(todo[t]) /\ todo'[t][i][1] = Kind(t, i + 1)
        BY <3>4, <4>1, <1>2, <1>3
      <4>3. Len(todo'[t]) = Len(todo[t]) - 1 BY <3>2, <3>4, <4>1, <1>2
      <4>4. CASE \A i \in 1 .. Len(todo[t]) : Kind(t, i) \in AfterTask BY <2>2, <4>2, <4>4
      <4>5. CASE /\ Len(todo[t]) >= 1 /\ Kind(t, Len(todo[t])) = "completed"
                 /\ \A i \in 1 .. Len(todo[t]) : Kind(t, i) = "completed" => i = Len(todo[t])
        <5>1. Len(todo[t]) > 1
          <6>1. Kind(t, 1) # Kind(t, Len(todo[t])) BY <3>4, <4>5 DEF AfterTask
          <6>2. Len(todo[t]) # 1 BY <6>1
          <6>3. Len(todo[t]) >= 1 BY <4>5
          <6>4. \A n \in Nat : n # 1 /\ n >= 1 => n > 1 OBVIOUS
          <6> QED BY <6>2, <6>3, <6>4, <1>2
        <5>2. Len(todo'[t]) >= 1 /\ todo'[t][Len(todo'[t])][1] = "completed"
          <6>1. Len(todo'[t]) \in 1 .. Len(todo'[t]) BY <5>1, <4>3, <1>2
          <6>2. todo'[t][Len(todo'[t])][1] = Kind(t, Len(todo'[t]) + 1) BY <6>1, <4>2
          <6>3. Len(todo'[t]) + 1 = Len(todo[t]) BY <4>3, <1>2
          <6> QED BY <6>1, <6>2, <6>3, <4>5
        <5> QED BY <2>2, <5>2, <4>2, <4>3, <4>5, <1>2
      <4> QED BY <3>1, <4>4, <4>5
    <3>5. CASE /\ Len(todo[t]) >= 1 /\ Kind(t, 1) \notin AfterTask \cup {"completed"}
               /\ \A i \in 1 .. Len(steps) : steps[i][1] # "completed"
      <4>1. /\ Kind(t, Len(todo[t])) = "completed"
            /\ \A i \in 1 .. Len(todo[t]) : Kind(t, i) = "completed" => i = Len(todo[t])
        BY <3>1, <3>5, <1>2
      <4>2. Len(todo[t]) > 1 BY <3>5, <4>1, <1>2
      <4>3. Len(todo'[t]) > Len(steps) BY <3>2, <4>2, <1>2
      <4>4. todo'[t][Len(todo'[t])][1] = Kind(t, Len(todo'[t]) - Len(steps) + 1)
        BY <4>3, <1>2, <1>3
      <4>5. Len(todo'[t]) - Len(steps) + 1 = Len(todo[t]) BY <3>2, <4>2, <1>2
      <4>6. \A i \in 1 .. Len(todo'[t]) : todo'[t][i][1] = "completed" => i = Len(todo'[t])
        <5> SUFFICES ASSUME NEW i \in 1 .. Len(todo'[t]), todo'[t][i][1] = "completed"
                     PROVE  i = Len(todo'[t])
          OBVIOUS
        <5>1. i > Len(steps) BY <3>5, <1>2, <1>3
        <5>2. i - Len(steps) + 1 \in 1 .. Len(todo[t]) /\ Kind(t, i - Len(steps) + 1) = "completed"
          BY <5>1, <1>2, <1>3
        <5>3. i - Len(steps) + 1 = Len(todo[t]) BY <5>2, <4>1
        <5> QED BY <5>3, <4>5, <1>2
      <4>7. Len(todo'[t]) >= 1 BY <4>3, <1>2
      <4>8. todo'[t][Len(todo'[t])][1] = "completed" BY <4>1, <4>4, <4>5
      <4> QED BY <2>2, <4>6, <4>7, <4>8
    <3>6. CASE /\ Len(todo[t]) >= 1 /\ Kind(t, 1) = "completed"
               /\ \A i \in 1 .. Len(steps) : steps[i][1] \in AfterTask
      <4>1. Len(todo[t]) = 1
        <5>1. 1 \in 1 .. Len(todo[t]) /\ Kind(t, 1) \notin AfterTask
          BY <3>6, <1>2 DEF AfterTask
        <5> QED BY <3>1, <3>6, <5>1
      <4>2. \A i \in 1 .. Len(todo'[t]) : todo'[t][i][1] \in AfterTask
        BY <4>1, <3>2, <3>6, <1>2, <1>3
      <4> QED BY <2>2, <4>2
    <3>7. CASE /\ Len(todo[t]) = 0 /\ Len(steps) >= 1 /\ steps[Len(steps)][1] = "completed"
               /\ \A i \in 1 .. Len(steps) : steps[i][1] = "completed" => i = Len(steps)
      <4>1. Len(todo'[t]) = Len(steps) BY <3>3, <3>7
      <4>2. \A i \in 1 .. Len(todo'[t]) : todo'[t][i][1] = steps[i][1] BY <4>1, <1>2, <1>3
      <4> QED BY <2>2, <3>7, <4>1, <4>2, <1>2
    <3> QED BY <2>2, <3>4, <3>5, <3>6, <3>7 DEF WorkerAdvances
  <2> QED BY <2>1, <2>2
<1> QED BY <1>1, <1>5, <1>6, <1>7 DEF ShapeInv

\* Where a place of the new list comes from.
LEMMA Origins ==
    ASSUME ListsOK, NEW t \in Threads, NEW steps, NEW r, Advances(t, steps, r),
           NEW i \in 1 .. Len(todo'[t])
    PROVE  \/ i \in 1 .. Len(steps) /\ todo'[t][i] = steps[i]
           \/ \E j \in 2 .. Len(todo[t]) : todo'[t][i] = todo[t][j] /\ i = j + Len(steps) - 1
<1>1. Len(steps) \in Nat BY Deeper
<1>2. CASE i <= Len(steps) /\ todo'[t][i] = steps[i]
  <2>1. i \in 1 .. Len(steps) BY <1>1, <1>2
  <2> QED BY <1>2, <2>1
<1>3. CASE /\ i - Len(steps) + 1 \in 2 .. Len(todo[t])
           /\ todo'[t][i] = todo[t][i - Len(steps) + 1]
  <2>1. i = (i - Len(steps) + 1) + Len(steps) - 1 BY <1>1
  <2> QED BY <1>3, <2>1
<1> QED BY <1>2, <1>3, Deeper

\* What a list has of a kind.
LEMMA HasNext ==
    ASSUME ListsOK, NEW t \in Threads, NEW steps, NEW r, Advances(t, steps, r), NEW k
    PROVE  Has(t, k)' <=> \/ \E i \in 1 .. Len(steps) : steps[i][1] = k
                          \/ \E i \in 2 .. Len(todo[t]) : Kind(t, i) = k
<1>1. DOMAIN todo'[t] = 1 .. Len(todo'[t])
  BY Deeper, LenProperties DEF ListsOK
<1>2. ASSUME Has(t, k)'
      PROVE  \/ \E i \in 1 .. Len(steps) : steps[i][1] = k
             \/ \E i \in 2 .. Len(todo[t]) : Kind(t, i) = k
  <2>1. PICK i \in 1 .. Len(todo'[t]) : todo'[t][i][1] = k BY <1>1, <1>2 DEF Has, Kind
  <2> QED BY <2>1, Origins DEF Kind
<1>3. ASSUME NEW i \in 1 .. Len(steps), steps[i][1] = k PROVE Has(t, k)'
  BY <1>1, <1>3, Kept DEF Has, Kind
<1>4. ASSUME NEW i \in 2 .. Len(todo[t]), Kind(t, i) = k PROVE Has(t, k)'
  <2> DEFINE j == i + Len(steps) - 1
  <2>1. j \in 1 .. Len(todo'[t]) /\ todo'[t][j] = todo[t][i] BY Kept
  <2>2. todo'[t][j][1] = k BY <2>1, <1>4 DEF Kind
  <2> HIDE DEF j
  <2> QED BY <1>1, <2>1, <2>2 DEF Has, Kind
<1> QED BY <1>2, <1>3, <1>4

\* The first step of a list is the only one of its kind that counts.
LEMMA HasNow ==
    ASSUME ListsOK, NEW t \in Threads, NEW k
    PROVE  Has(t, k) <=> \/ At(t, k)
                         \/ \E i \in 2 .. Len(todo[t]) : Kind(t, i) = k
<1>1. DOMAIN todo[t] = 1 .. Len(todo[t]) BY LenProperties DEF ListsOK
<1>2. Len(todo[t]) \in Nat /\ (At(t, k) <=> Len(todo[t]) >= 1 /\ Kind(t, 1) = k) BY AtFirst
<1>3. ASSUME NEW i \in 1 .. Len(todo[t]), Kind(t, i) = k
      PROVE  At(t, k) \/ \E j \in 2 .. Len(todo[t]) : Kind(t, j) = k
  <2>1. CASE i = 1 BY <1>2, <1>3, <2>1
  <2>2. CASE i # 1
    <3>1. i \in 2 .. Len(todo[t]) BY <1>2, <2>2
    <3> QED BY <1>3, <3>1
  <2> QED BY <2>1, <2>2
<1>4. At(t, k) => 1 \in 1 .. Len(todo[t]) /\ Kind(t, 1) = k BY <1>2
<1>5. \A i \in 2 .. Len(todo[t]) : i \in 1 .. Len(todo[t]) BY <1>2
<1> QED BY <1>1, <1>3, <1>4, <1>5 DEF Has

\* Only the thread that moves comes to another step, and it comes to one of
\* FrontKinds only by pushing it.
LEMMA Views ==
    ASSUME ListsOK, ShapeInv, NEW t \in Threads, NEW steps, NEW r, Advances(t, steps, r)
    PROVE  /\ \A u \in Threads \ {t} : \A k : /\ At(u, k)' <=> At(u, k)
                                              /\ Arg(u)' = Arg(u) /\ Idle(u)' = Idle(u)
                                              /\ Has(u, k)' <=> Has(u, k)
           /\ \A k \in FrontKinds : At(t, k)' <=> Len(steps) >= 1 /\ steps[1][1] = k
           /\ Len(steps) >= 1 => /\ Arg(t)' = steps[1][2] /\ ~Idle(t)'
                                 /\ \A k : At(t, k)' <=> steps[1][1] = k
           /\ Len(steps) = 0 => \A k : At(t, k)' <=> Len(todo[t]) >= 2 /\ Kind(t, 2) = k
<1>1. \A u \in Threads \ {t} : todo'[u] = todo[u] BY Deeper
<1>2. ListsOK' /\ Len(steps) \in Nat /\ Len(todo[t]) \in Nat BY Deeper
<1>3. ASSUME NEW u \in Threads \ {t}, NEW k
      PROVE  (At(u, k)' <=> At(u, k)) /\ Arg(u)' = Arg(u) /\ Idle(u)' = Idle(u) /\ (Has(u, k)' <=> Has(u, k))
  BY <1>1 DEF At, Arg, Idle, Has, Kind
<1>4. ASSUME Len(steps) >= 1
      PROVE  Arg(t)' = steps[1][2] /\ ~Idle(t)' /\ \A k : At(t, k)' <=> steps[1][1] = k
  <2>1. 1 \in 1 .. Len(todo'[t]) /\ todo'[t][1] = steps[1] BY <1>2, <1>4, Kept
  <2>2. Len(todo'[t]) >= 1 /\ Len(todo'[t]) # 0 BY <2>1, <1>2, AtFirstNext
  <2> QED BY <2>1, <2>2, <1>2, AtFirstNext
<1>5. ASSUME Len(steps) = 0, NEW k PROVE At(t, k)' <=> Len(todo[t]) >= 2 /\ Kind(t, 2) = k
  <2>1. Len(todo[t]) >= 2 => 1 \in 1 .. Len(todo'[t]) /\ todo'[t][1] = todo[t][2]
    <3> SUFFICES ASSUME Len(todo[t]) >= 2 PROVE 1 \in 1 .. Len(todo'[t]) /\ todo'[t][1] = todo[t][2]
      OBVIOUS
    <3>1. 2 \in 2 .. Len(todo[t]) /\ 2 + Len(steps) - 1 = 1 BY <1>2, <1>5
    <3> QED BY <3>1, Kept
  <2>2. Len(todo'[t]) >= 1 => Len(todo[t]) >= 2
    BY <1>2, <1>5, Deeper
  <2>3. Len(todo'[t]) \in Nat BY Deeper
  <2> QED BY <2>1, <2>2, <2>3, <1>2, AtFirstNext DEF Kind
<1>6. ASSUME NEW k \in FrontKinds PROVE At(t, k)' <=> Len(steps) >= 1 /\ steps[1][1] = k
  <2>1. CASE Len(steps) >= 1 BY <2>1, <1>4
  <2>2. CASE Len(steps) = 0
    <3>1. Len(todo[t]) >= 2 => 2 \in 1 .. Len(todo[t]) BY <1>2
    <3>2. ~(Len(todo[t]) >= 2 /\ Kind(t, 2) = k) BY <3>1 DEF ShapeInv, FrontInv
    <3> QED BY <2>2, <3>2, <1>5
  <2> QED BY <2>1, <2>2, <1>2
<1> QED BY <1>3, <1>4, <1>5, <1>6

---------------------------------------------------------------------------
(* What most steps keep of the state.                                       *)

\* A step that neither begins nor ends a start or a reset.
LEMMA PhaseStep ==
    ASSUME TypeOK, ListsOK, ShapeInv, PhaseInv, NEW t \in Threads, NEW steps, NEW r,
           Advances(t, steps, r),
           Len(todo[t]) >= 1 => Kind(t, 1) \notin {"open", "running", "clear", "renew", "initialized"},
           \A i \in 1 .. Len(steps) : steps[i][1] \notin {"open", "renew", "initialized"},
           t \in Workers /\ Asleep =>
               Len(todo[t]) >= 1 /\ (Kind(t, 1) \in AfterTask => steps = <<>>),
           t = Host /\ state = "Initialized" /\ state' = "Initialized" =>
               \A i \in 1 .. Len(steps) : Calm(steps[i], Stopped'),
           Asleep /\ Stopped => Stopped',
           Asleep => pool'.ready = <<>> /\ pool'.delayed = {} /\ pool'.running = 0 /\ inFlight' = 0,
           state' = state \/ (state' # "Initialized" /\ (t = Host \/ ~Asleep)),
           Fresh => delegated' = 0 /\ sink'.backlog = 0 /\ ~source'.waiting /\ ~source'.done,
           Fresh => sink'.inputClosed = sink.inputClosed \/ (t = Host /\ Stopped')
    PROVE  PhaseInv'
<1>1. ListsOK' /\ Len(steps) \in Nat /\ Len(todo[t]) \in Nat BY Deeper
<1>2. \A u \in Threads \ {t} : todo'[u] = todo[u] BY Deeper
<1>3. Host \in Threads /\ Workers \subseteq Threads /\ Host \notin Workers
  BY ThreadsAssumption DEF Threads
<1>4. \A k \in {"open", "renew", "initialized"} : Has(Host, k)' => Has(Host, k)
  <2> SUFFICES ASSUME NEW k \in {"open", "renew", "initialized"}, Has(Host, k)' PROVE Has(Host, k)
    OBVIOUS
  <2>1. CASE t # Host BY <2>1, <1>3, Views
  <2>2. CASE t = Host BY <2>2, HasNext, HasNow
  <2> QED BY <2>1, <2>2
<1>5. Has(Host, "renew") \/ Has(Host, "initialized") => t # Host /\ todo'[Host] = todo[Host]
  <2> SUFFICES ASSUME Has(Host, "renew") \/ Has(Host, "initialized"), t = Host PROVE FALSE
    BY <1>2, <1>3
  <2>1. todo[Host] \in ResetTails BY DEF PhaseInv, ResetInv
  <2>2. Len(todo[Host]) >= 1 /\ Kind(Host, 1) \in {"clear", "renew", "initialized"}
    BY <2>1 DEF ResetTails, Kind
  <2> QED BY <2>2
<1>6. Has(Host, "open") => t # Host /\ todo'[Host] = todo[Host]
  <2> SUFFICES ASSUME Has(Host, "open"), t = Host PROVE FALSE
    BY <1>2, <1>3
  <2>1. todo[Host] \in StartTails BY DEF PhaseInv, OpenInv
  <2>2. Len(todo[Host]) >= 1 /\ Kind(Host, 1) \in {"open", "running"}
    BY <2>1 DEF StartTails, Kind
  <2> QED BY <2>2
<1>7. ResetInv'
  <2> SUFFICES ASSUME Has(Host, "renew")' \/ Has(Host, "initialized")'
               PROVE  state' = "Terminated" /\ todo'[Host] \in ResetTails
    BY DEF ResetInv
  <2>1. Has(Host, "renew") \/ Has(Host, "initialized") BY <1>4
  <2>2. state = "Terminated" /\ todo[Host] \in ResetTails BY <2>1 DEF PhaseInv, ResetInv
  <2>3. t # Host /\ todo'[Host] = todo[Host] BY <2>1, <1>5
  <2>4. Has(Host, "initialized")
    <3>1. DOMAIN todo[Host] = 1 .. Len(todo[Host]) BY <1>3, LenProperties DEF ListsOK
    <3>2. Len(todo[Host]) >= 1 /\ Kind(Host, Len(todo[Host])) = "initialized"
      <4>1. CASE todo[Host] = <<<<"clear">>, <<"renew">>, <<"initialized">>>>
        <5>1. Len(todo[Host]) = 3 /\ todo[Host][3] = <<"initialized">> BY <4>1
        <5> QED BY <5>1 DEF Kind
      <4>2. CASE todo[Host] = <<<<"renew">>, <<"initialized">>>>
        <5>1. Len(todo[Host]) = 2 /\ todo[Host][2] = <<"initialized">> BY <4>2
        <5> QED BY <5>1 DEF Kind
      <4>3. CASE todo[Host] = <<<<"initialized">>>>
        <5>1. Len(todo[Host]) = 1 /\ todo[Host][1] = <<"initialized">> BY <4>3
        <5> QED BY <5>1 DEF Kind
      <4> QED BY <2>2, <4>1, <4>2, <4>3 DEF ResetTails
    <3>3. Len(todo[Host]) \in 1 .. Len(todo[Host]) BY <1>3, <3>2, AtFirst
    <3> QED BY <3>1, <3>2, <3>3 DEF Has
  <2> QED BY <2>2, <2>3, <2>4 DEF Asleep
<1>8. Asleep' => Asleep
  BY <1>4 DEF Asleep
<1>9. SleepInv'
  <2> SUFFICES ASSUME Asleep', NEW w \in Workers, NEW i \in 1 .. Len(todo'[w])
               PROVE  todo'[w][i][1] \in AfterTask
    BY <1>8 DEF SleepInv, Kind
  <2>1. \A j \in 1 .. Len(todo[w]) : Kind(w, j) \in AfterTask BY <1>8 DEF PhaseInv, SleepInv
  <2>2. CASE w # t BY <2>1, <2>2, <1>2, <1>3 DEF Kind
  <2>3. CASE w = t
    <3>1. 1 \in 1 .. Len(todo[t]) /\ steps = <<>> BY <2>1, <2>3, <1>1, <1>8
    <3>2. Len(steps) = 0 BY <3>1
    <3>3. ~(i \in 1 .. Len(steps)) BY <3>2
    <3>4. PICK j \in 2 .. Len(todo[t]) : todo'[t][i] = todo[t][j] BY <2>3, <3>3, Origins
    <3>5. j \in 1 .. Len(todo[t]) BY <3>4, <1>1
    <3> QED BY <2>1, <2>3, <3>4, <3>5 DEF Kind
  <2> QED BY <2>2, <2>3
<1>10. OpenInv'
  <2> SUFFICES ASSUME Has(Host, "open")' PROVE state' = "Initialized" /\ todo'[Host] \in StartTails
    BY DEF OpenInv
  <2>1. state = "Initialized" /\ todo[Host] \in StartTails BY <1>4 DEF PhaseInv, OpenInv
  <2>2. t # Host /\ todo'[Host] = todo[Host] BY <1>4, <1>6
  <2>3. state' = state BY <2>1, <2>2 DEF Asleep
  <2> QED BY <2>1, <2>2, <2>3
<1>11. Stopped => (Asleep => Stopped') OBVIOUS
<1>12. CalmInv'
  <2> SUFFICES ASSUME state' = "Initialized"
               PROVE  \/ todo'[Host] \in StartTails
                      \/ \A i \in 1 .. Len(todo'[Host]) : Calm(todo'[Host][i], Stopped')
    BY DEF CalmInv, Calm, Stopped
  <2>1. state = "Initialized" /\ Asleep BY DEF Asleep
  <2>2. \/ todo[Host] \in StartTails
        \/ \A i \in 1 .. Len(todo[Host]) : Calm(todo[Host][i], Stopped)
    BY <2>1 DEF PhaseInv, CalmInv
  <2>3. \A s : Calm(s, Stopped) => Calm(s, Stopped')
    BY <2>1, <1>11 DEF Calm, Stopped
  <2>4. CASE t # Host BY <2>2, <2>3, <2>4, <1>2, <1>3
  <2>5. CASE t = Host
    <3>1. todo[Host] \notin StartTails
      <4> SUFFICES ASSUME todo[Host] \in StartTails PROVE FALSE
        OBVIOUS
      <4>1. Len(todo[Host]) >= 1 /\ Kind(Host, 1) \in {"open", "running"} BY DEF StartTails, Kind
      <4> QED BY <4>1, <2>5
    <3>2. \A i \in 1 .. Len(todo[t]) : Calm(todo[t][i], Stopped') BY <2>2, <2>3, <2>5, <3>1
    <3>3. \A i \in 1 .. Len(steps) : Calm(steps[i], Stopped') BY <2>1, <2>5
    <3>4. ASSUME NEW i \in 1 .. Len(todo'[t]) PROVE Calm(todo'[t][i], Stopped')
      <4>1. \A j \in 2 .. Len(todo[t]) : j \in 1 .. Len(todo[t]) BY <1>1
      <4>2. CASE i \in 1 .. Len(steps) /\ todo'[t][i] = steps[i] BY <3>3, <4>2
      <4>3. CASE \E j \in 2 .. Len(todo[t]) : todo'[t][i] = todo[t][j] /\ i = j + Len(steps) - 1
        BY <3>2, <4>1, <4>3
      <4> QED BY <4>2, <4>3, Origins
    <3> QED BY <2>5, <3>4
  <2> QED BY <2>4, <2>5
<1>13. FreshInv'
  <2> SUFFICES ASSUME Fresh'
               PROVE  /\ delegated' = 0 /\ sink'.backlog = 0 /\ ~source'.waiting /\ ~source'.done
                      /\ At(Host, "initialized")' \/ ~Stopped' => ~sink'.inputClosed
    BY DEF FreshInv, Stopped
  <2>1. At(Host, "initialized")' => At(Host, "initialized") /\ t # Host
    <3>1. At(Host, "initialized")' => Has(Host, "initialized")'
      BY <1>1, <1>3, AtFirstNext, LenProperties DEF Has, Kind, ListsOK
    <3>2. At(Host, "initialized")' => t # Host BY <3>1, <1>4, <1>5
    <3> QED BY <3>2, <1>3, Views
  <2>2. Fresh BY <2>1 DEF Fresh
  <2>3. At(Host, "initialized") \/ ~Stopped => ~sink.inputClosed BY <2>2 DEF PhaseInv, FreshInv
  <2>4. Asleep
    <3>1. At(Host, "initialized") => Has(Host, "initialized") BY <1>3, HasNow
    <3> QED BY <2>2, <3>1 DEF Fresh, Asleep
  <2>5. At(Host, "initialized")' \/ ~Stopped' => ~sink'.inputClosed
    BY <2>1, <2>2, <2>3, <2>4
  <2> QED BY <2>2, <2>5
<1> QED BY <1>7, <1>9, <1>10, <1>12, <1>13 DEF PhaseInv

\* A step that closes no node.
LEMMA CloseStep ==
    ASSUME ListsOK, ShapeInv, PhaseInv, CloseInv, NEW t \in Threads, NEW steps, NEW r,
           Advances(t, steps, r),
           Len(todo[t]) >= 1 => Kind(t, 1) \notin {"closing", "drop", "freed"},
           Len(steps) >= 1 => /\ steps[1][1] \notin {"closing", "freed"}
                              /\ steps[1][1] = "idle?" => AllClosed,
           \/ state' # "Terminated"
           \/ state = "Terminated" /\ (Len(todo[t]) >= 1 => Kind(t, 1) # "initialized")
           \/ \A n \in Nodes : node[n].closeStarted,
           \A n \in Nodes : /\ node'[n].closeStarted = node[n].closeStarted
                            /\ node'[n].closed = node[n].closed
                            /\ At(Host, "freed") => node'[n].opened = node[n].opened
    PROVE  CloseInv'
<1>1. ListsOK' /\ Len(steps) \in Nat /\ Len(todo[t]) \in Nat BY Deeper
<1>2. Host \in Threads BY DEF Threads
<1>3. /\ \A k : At(t, k) <=> Len(todo[t]) >= 1 /\ Kind(t, 1) = k
      /\ Len(todo[t]) >= 1 => Arg(t) = todo[t][1][2]
  BY AtFirst
<1>4. ~At(t, "closing") /\ ~At(t, "closing")' /\ (At(t, "idle?")' => AllClosed)
  BY <1>1, <1>3, Views DEF FrontKinds
<1>5. \A u \in Threads : (At(u, "closing")' <=> At(u, "closing")) /\ (At(u, "closing") => Arg(u)' = Arg(u))
  BY <1>4, Views
<1>6. At(Host, "idle?")' => At(Host, "idle?") \/ AllClosed BY <1>2, <1>4, Views
<1>7. At(Host, "freed")' <=> At(Host, "freed")
  <2>1. CASE t # Host BY <2>1, <1>2, Views
  <2>2. CASE t = Host
    <3>1. ~At(t, "freed") BY <1>3
    <3>2. CASE Len(steps) >= 1 BY <2>2, <3>1, <3>2, Views
    <3>3. CASE Len(steps) = 0
      <4>1. Len(todo[t]) >= 2 => 2 \in 1 .. Len(todo[t]) BY <1>1
      <4>2. Len(todo[t]) >= 2 /\ Kind(t, 2) = "freed" => Kind(t, 2 - 1) = "drop"
        BY <2>2, <4>1 DEF ShapeInv, DropInv
      <4>3. ~(Len(todo[t]) >= 2 /\ Kind(t, 2) = "freed")
        <5>1. 2 - 1 = 1 OBVIOUS
        <5> QED BY <4>2, <5>1, <1>1
      <4> QED BY <2>2, <3>1, <3>3, <4>3, Views
    <3> QED BY <3>2, <3>3, <1>1
  <2> QED BY <2>1, <2>2
<1>8. \/ At(Host, "initialized") => At(Host, "initialized")'
      \/ state' # "Terminated"
      \/ \A n \in Nodes : node[n].closeStarted
  BY <1>2, <1>3, Views
<1>9. TermInv' BY <1>8 DEF CloseInv, TermInv
<1>10. ClosedInv' BY <1>7 DEF CloseInv, ClosedInv
<1>11. CloserInv'
  <2> SUFFICES ASSUME NEW u \in Threads, At(u, "closing")' PROVE node'[Arg(u)'].closeStarted
    BY DEF CloserInv
  <2>1. At(u, "closing") /\ Arg(u)' = Arg(u) BY <1>5
  <2>2. Arg(u) \in Nodes BY <2>1, AtFirst, StepShape DEF Kind, NodeKinds
  <2> QED BY <2>1, <2>2 DEF CloseInv, CloserInv
<1>12. ClosingInv' BY <1>5 DEF CloseInv, ClosingInv
<1>13. LookInv' BY <1>6 DEF CloseInv, LookInv, AllClosed
<1>14. FreedInv' BY <1>7 DEF CloseInv, FreedInv
<1> QED BY <1>9, <1>10, <1>11, <1>12, <1>13, <1>14 DEF CloseInv

\* A step that neither begins nor ends a task of the pool.
LEMMA PoolStep ==
    ASSUME ListsOK, ShapeInv, PoolInv, NEW t \in Threads, NEW steps, NEW r,
           Advances(t, steps, r),
           Len(todo[t]) >= 1 => /\ Kind(t, 1) # "completed"
                                /\ Kind(t, 1) = "join" => \A w \in Workers : Away(w),
           \A i \in 1 .. Len(steps) : steps[i][1] # "completed",
           Len(steps) >= 1 => steps[1][1] \notin {"drop", "freed"},
           t \in Workers => Len(todo[t]) >= 1,
           pool'.running = pool.running, pool'.workers = pool.workers,
           \/ pool'.started = pool.started
           \/ pool'.started /\ ~Joined /\ (Len(todo[t]) >= 1 => Kind(t, 1) # "join"),
           pool'.exited = pool.exited
    PROVE  PoolInv'
<1>1. ListsOK' /\ Len(steps) \in Nat /\ Len(todo[t]) \in Nat BY Deeper
<1>2. Host \in Threads /\ Workers \subseteq Threads BY DEF Threads
<1>3. \A w \in Workers : Away(w)' => Away(w) BY DEF Away
<1>4. AwayInv'
  <2> SUFFICES ASSUME NEW w \in Workers, Away(w)' PROVE Idle(w)'
    BY DEF AwayInv
  <2>1. Idle(w) BY <1>3 DEF PoolInv, AwayInv
  <2>2. w # t BY <2>1, <1>1, AtFirst
  <2> QED BY <2>1, <2>2, <1>2, Views
<1>5. Joined' => Joined \/ (Len(todo[t]) >= 1 /\ Kind(t, 1) = "join")
  <2>1. CASE t # Host BY <2>1, <1>2, Views DEF Joined
  <2>2. CASE t = Host
    <3> SUFFICES ASSUME Joined' PROVE Joined \/ (Len(todo[t]) >= 1 /\ Kind(t, 1) = "join")
      OBVIOUS
    <3>1. CASE Len(steps) >= 1 BY <2>2, <3>1, Views DEF Joined
    <3>2. CASE Len(steps) = 0
      <4>1. Len(todo[t]) >= 2 /\ Kind(t, 2) \in {"drop", "freed"}
        BY <2>2, <3>2, Views DEF Joined
      <4>2. 2 \in 1 .. Len(todo[t]) /\ 2 - 1 = 1 BY <4>1, <1>1
      <4>3. Kind(t, 2 - 1) \in {"join", "drop"} BY <2>2, <4>1, <4>2 DEF ShapeInv, DropInv
      <4>4. Kind(t, 1) \in {"join", "drop"} BY <4>3, <4>2
      <4>5. Kind(t, 1) \in {"drop", "join"} BY <4>4
      <4> QED BY <2>2, <4>1, <4>5, <1>1, AtFirst DEF Joined
    <3> QED BY <3>1, <3>2, <1>1
  <2> QED BY <2>1, <2>2
<1>6. JoinInv'
  <2> SUFFICES ASSUME Joined', NEW w \in Workers PROVE Away(w)'
    BY DEF JoinInv
  <2>1. Away(w) /\ pool'.started = pool.started BY <1>5 DEF PoolInv, JoinInv
  <2> QED BY <2>1 DEF Away
<1>7. \A w \in Workers : Has(w, "completed")' <=> Has(w, "completed")
  <2> SUFFICES ASSUME NEW w \in Workers PROVE Has(w, "completed")' <=> Has(w, "completed")
    OBVIOUS
  <2>1. CASE w # t BY <2>1, <1>2, Views
  <2>2. CASE w = t
    <3>1. ~At(t, "completed") BY <1>1, AtFirst
    <3> QED BY <2>2, <3>1, HasNow, HasNext
  <2> QED BY <2>1, <2>2
<1>8. {w \in Workers : Has(w, "completed")'} = {w \in Workers : Has(w, "completed")} BY <1>7
<1>9. RunningInv' BY <1>8 DEF PoolInv, RunningInv
<1> QED BY <1>4, <1>6, <1>9 DEF PoolInv

\* A step that hands on the flush of a node, ends it, or begins it when nobody flushes.
FlushOf(s, n) == s[1] \in {"flush", "release"} /\ s[2] = n
FirstEmitted(l) == l # <<>> /\ l[1] = "emitted"

LEMMA FlushMove ==
    ASSUME ListsOK, FlushInv, NEW t \in Threads, NEW steps, NEW r, Advances(t, steps, r),
           \A n \in Nodes :
               /\ \A j, k \in 1 .. Len(steps) : FlushOf(steps[j], n) /\ FlushOf(steps[k], n) => j = k
               /\ \A j \in 1 .. Len(steps) :
                      FlushOf(steps[j], n) =>
                          /\ node'[n].flushing /\ (~node[n].flushing \/ Flushes(t, 1, n))
                          /\ steps[j][1] = "release" => FirstEmitted(node'[n].line)
               /\ ~Flushes(t, 1, n) =>
                      /\ node[n].flushing => node'[n].flushing
                      /\ FirstEmitted(node[n].line) => FirstEmitted(node'[n].line)
    PROVE  FlushInv'
<1>1. ListsOK' /\ Len(steps) \in Nat /\ Len(todo[t]) \in Nat BY Deeper
<1>2. ASSUME NEW u \in Threads, NEW j \in Nat, NEW n \in Nodes, Flushes(u, j, n)'
      PROVE  \/ u = t /\ j \in 1 .. Len(steps) /\ FlushOf(steps[j], n) /\ todo'[u][j] = steps[j]
             \/ \E i \in 1 .. Len(todo[u]) :
                    /\ u = t => i # 1
                    /\ Flushes(u, i, n) /\ Kind(u, i) = todo'[u][j][1]
                    /\ j = IF u = t THEN i + Len(steps) - 1 ELSE i
  <2>1. CASE u # t BY <2>1, <1>2, Deeper DEF Flushes, Kind
  <2>2. CASE u = t
    <3>1. j \in 1 .. Len(todo'[t]) /\ todo'[t][j][1] \in {"flush", "release"} /\ todo'[t][j][2] = n
      BY <2>2, <1>2 DEF Flushes, Kind
    <3>2. CASE j \in 1 .. Len(steps) /\ todo'[t][j] = steps[j]
      BY <2>2, <3>1, <3>2 DEF FlushOf
    <3>3. CASE \E i \in 2 .. Len(todo[t]) : todo'[t][j] = todo[t][i] /\ j = i + Len(steps) - 1
      <4>1. PICK i \in 2 .. Len(todo[t]) : todo'[t][j] = todo[t][i] /\ j = i + Len(steps) - 1
        BY <3>3
      <4>2. i \in 1 .. Len(todo[t]) /\ i # 1 BY <4>1, <1>1
      <4> QED BY <2>2, <3>1, <4>1, <4>2 DEF Flushes, Kind
    <3> QED BY <3>1, <3>2, <3>3, Origins
  <2> QED BY <2>1, <2>2
<1>3. ASSUME NEW u \in Threads, NEW n \in Nodes, NEW i \in 1 .. Len(todo[u]), Flushes(u, i, n),
             u = t => i # 1
      PROVE  /\ node[n].flushing /\ ~Flushes(t, 1, n)
             /\ \A v \in Threads, m \in Nat : Flushes(v, m, n) => v = u /\ m = i
             /\ Kind(u, i) = "release" => FirstEmitted(node[n].line)
  BY <1>3 DEF FlushInv, FirstEmitted
<1>4. FlushInv'
  <2> SUFFICES ASSUME NEW u \in Threads, NEW n \in Nodes, NEW j \in 1 .. Len(todo'[u]),
                      Flushes(u, j, n)'
               PROVE  /\ node'[n].flushing
                      /\ \A v \in Threads, m \in Nat : Flushes(v, m, n)' => v = u /\ m = j
                      /\ todo'[u][j][1] = "release" =>
                             node'[n].line # <<>> /\ node'[n].line[1] = "emitted"
    BY DEF FlushInv, Flushes, Kind
  <2>1. j \in Nat BY <1>1, AtFirstNext
  <2>2. CASE u = t /\ j \in 1 .. Len(steps) /\ FlushOf(steps[j], n) /\ todo'[u][j] = steps[j]
    <3>1. ASSUME NEW v \in Threads, NEW m \in Nat, Flushes(v, m, n)' PROVE v = u /\ m = j
      <4>1. CASE v = t /\ m \in 1 .. Len(steps) /\ FlushOf(steps[m], n) BY <2>2, <4>1
      <4>2. CASE \E l \in 1 .. Len(todo[v]) : (v = t => l # 1) /\ Flushes(v, l, n)
        BY <2>2, <4>2, <1>3
      <4> QED BY <3>1, <4>1, <4>2, <1>2
    <3> QED BY <2>2, <3>1 DEF FirstEmitted
  <2>3. CASE \E i \in 1 .. Len(todo[u]) :
                 /\ u = t => i # 1
                 /\ Flushes(u, i, n) /\ Kind(u, i) = todo'[u][j][1]
                 /\ j = IF u = t THEN i + Len(steps) - 1 ELSE i
    <3>1. PICK i \in 1 .. Len(todo[u]) :
                 /\ u = t => i # 1
                 /\ Flushes(u, i, n) /\ Kind(u, i) = todo'[u][j][1]
                 /\ j = IF u = t THEN i + Len(steps) - 1 ELSE i
      BY <2>3
    <3>2. /\ node[n].flushing /\ ~Flushes(t, 1, n)
          /\ \A v \in Threads, m \in Nat : Flushes(v, m, n) => v = u /\ m = i
          /\ Kind(u, i) = "release" => FirstEmitted(node[n].line)
      BY <3>1, <1>3
    <3>3. ASSUME NEW v \in Threads, NEW m \in Nat, Flushes(v, m, n)' PROVE v = u /\ m = j
      <4>1. CASE v = t /\ m \in 1 .. Len(steps) /\ FlushOf(steps[m], n) BY <3>2, <4>1
      <4>2. CASE \E l \in 1 .. Len(todo[v]) :
                     Flushes(v, l, n) /\ m = IF v = t THEN l + Len(steps) - 1 ELSE l
        <5>1. PICK l \in 1 .. Len(todo[v]) :
                     Flushes(v, l, n) /\ m = IF v = t THEN l + Len(steps) - 1 ELSE l
          BY <4>2
        <5>2. l \in Nat BY <5>1, AtFirst
        <5> QED BY <5>1, <5>2, <3>1, <3>2
      <4> QED BY <3>3, <4>1, <4>2, <1>2
    <3> QED BY <3>1, <3>2, <3>3 DEF FirstEmitted
  <2> QED BY <2>1, <2>2, <2>3, <1>2
<1> QED BY <1>4

\* ... or leaves the flushes alone, and what they are about to release.
LEMMA FlushStep ==
    ASSUME ListsOK, FlushInv, NEW t \in Threads, NEW steps, NEW r, Advances(t, steps, r),
           Len(todo[t]) >= 1 => Kind(t, 1) \notin {"flush", "release"},
           \A i \in 1 .. Len(steps) : steps[i][1] \notin {"flush", "release"},
           \A n \in Nodes :
               /\ node'[n].flushing = node[n].flushing
               /\ FirstEmitted(node[n].line) => FirstEmitted(node'[n].line)
    PROVE  FlushInv'
<1>1. \A n \in Nodes : \A i \in 1 .. Len(steps) : ~FlushOf(steps[i], n) BY DEF FlushOf
<1> QED BY <1>1, FlushMove

\* A step after which every claim, call and flush is where it was.
LEMMA CallsStep ==
    ASSUME ListsOK, ShapeInv, CallsInv, NEW t \in Threads, NEW steps, NEW r,
           Advances(t, steps, r),
           Len(todo[t]) >= 1 =>
               Kind(t, 1) \notin {"submit", "run", "process", "land", "flush", "release"},
           \A i \in 1 .. Len(steps) :
               steps[i][1] \notin {"submit", "run", "process", "land", "flush", "release"},
           Cardinality(Places(pool'.ready, RunTask)) = Cardinality(Places(pool.ready, RunTask)),
           delegated' = delegated, LineInv',
           \A n \in Nodes : node'[n].line = node[n].line /\ node'[n].flushing = node[n].flushing
    PROVE  CallsInv'
<1>1. ListsOK' /\ Len(steps) \in Nat /\ Len(todo[t]) \in Nat BY Deeper
<1>2. Workers \subseteq Threads /\ "source" \in Nodes /\ "sink" \in Nodes BY DEF Threads, Nodes
<1>3. ASSUME NEW k \in {"submit", "run", "process", "land"}
      PROVE  ~At(t, k) /\ ~At(t, k)'
  <2>1. k \in FrontKinds BY DEF FrontKinds
  <2>2. Len(steps) >= 1 => 1 \in 1 .. Len(steps) BY <1>1
  <2> QED BY <2>1, <2>2, <1>1, AtFirst, Views
<1>4. ASSUME NEW k \in {"submit", "run", "process", "land"}, NEW u \in Threads
      PROVE  (At(u, k)' <=> At(u, k)) /\ (At(u, k) => Arg(u)' = Arg(u))
  BY <1>3, Views
<1>5. ASSUME NEW n \in Nodes PROVE Holders(n)' = Holders(n)
  BY <1>4 DEF Holders
<1>6. CountInv' BY <1>2, <1>5 DEF CallsInv, CountInv, Places
<1>7. CallInv'
  <2> SUFFICES ASSUME NEW u \in Threads, At(u, "process")' \/ At(u, "land")'
               PROVE  \E i \in 1 .. Len(node'[Arg(u)'].line) : node'[Arg(u)'].line[i] = u
    BY DEF CallInv
  <2>1. (At(u, "process") \/ At(u, "land")) /\ Arg(u)' = Arg(u) BY <1>4
  <2>2. Arg(u) \in Nodes BY <2>1, AtFirst, StepShape DEF Kind, NodeKinds
  <2> QED BY <2>1, <2>2 DEF CallsInv, CallInv
<1>9. FlushInv'
  BY <1>1, FlushStep DEF CallsInv
<1> QED BY <1>6, <1>7, <1>9 DEF CallsInv

---------------------------------------------------------------------------
(* Steps that only look at the state, and push others.                      *)

Loud ==
    {"open", "running", "clear", "renew", "initialized", "closing", "idle?", "join", "drop",
     "freed", "completed", "submit", "run", "process", "land", "flush", "release"}

\* Nothing that the invariant relates to the lists is changed for the worse.
SameState(t) ==
    /\ TypeOK' /\ UNCHANGED <<state, node, inFlight, delegated>>
    /\ \/ pool'.ready = pool.ready
       \/ /\ ~Asleep
          /\ Cardinality(Places(pool'.ready, RunTask)) = Cardinality(Places(pool.ready, RunTask))
    /\ pool'.running = pool.running /\ pool'.workers = pool.workers
    /\ pool'.started = pool.started /\ pool'.exited = pool.exited
    /\ Asleep => pool'.delayed = {} /\ (Stopped => Stopped')
    /\ sink'.backlog = sink.backlog
    /\ Fresh => /\ ~source'.waiting /\ ~source'.done
                /\ sink'.inputClosed = sink.inputClosed \/ (t = Host /\ Stopped')

LEMMA QuietStep ==
    ASSUME IInv, NEW t \in Threads, NEW steps, NEW r, Advances(t, steps, r), SameState(t),
           Len(todo[t]) >= 1 => Kind(t, 1) \notin Loud,
           \A i \in 1 .. Len(steps) : steps[i][1] \notin Loud,
           t \in Workers => Len(todo[t]) >= 1 /\ (Kind(t, 1) \in AfterTask => steps = <<>>),
           t = Host /\ state = "Initialized" => \A i \in 1 .. Len(steps) : Calm(steps[i], Stopped')
    PROVE  IInv'
<1>1. TypeOK /\ ListsOK /\ ShapeInv /\ PhaseInv /\ CloseInv /\ PoolInv /\ CallsInv BY DEF IInv
<1>2. Len(steps) \in Nat /\ Len(todo[t]) \in Nat BY <1>1, Deeper
<1>3. Len(steps) >= 1 => 1 \in 1 .. Len(steps) BY <1>2
<1>4. ListsOK' /\ ShapeInv'
  <2>1. \A i \in 1 .. Len(steps) : steps[i][1] \in FrontKinds => i = 1 BY DEF FrontKinds, Loud
  <2>2. EndsAdvance(t, steps) BY DEF EndsAdvance, Loud
  <2>3. t \in Workers => WorkerAdvances(t, steps) BY DEF WorkerAdvances, Loud
  <2> QED BY <1>1, <2>1, <2>2, <2>3, ShapeStep
<1>5. PhaseInv'
  <2>1. Asleep => pool'.ready = <<>> /\ pool'.delayed = {} /\ pool'.running = 0 /\ inFlight' = 0
    BY <1>1 DEF SameState, PhaseInv, SleepInv
  <2>2. Fresh => delegated' = 0 /\ sink'.backlog = 0 /\ ~source'.waiting /\ ~source'.done
    BY <1>1 DEF SameState, PhaseInv, FreshInv
  <2>3. Asleep /\ Stopped => Stopped' BY DEF SameState
  <2>4. state' = state BY DEF SameState
  <2>5. Len(todo[t]) >= 1 => Kind(t, 1) \notin {"open", "running", "clear", "renew", "initialized"}
    BY DEF Loud
  <2>6. \A i \in 1 .. Len(steps) : steps[i][1] \notin {"open", "renew", "initialized"} BY DEF Loud
  <2>7. Fresh => sink'.inputClosed = sink.inputClosed \/ (t = Host /\ Stopped') BY DEF SameState
  <2> QED BY <1>1, <2>1, <2>2, <2>3, <2>4, <2>5, <2>6, <2>7, PhaseStep
<1>6. CloseInv'
  <2>1. Len(todo[t]) >= 1 =>
            Kind(t, 1) \notin {"closing", "idle?", "renew", "initialized", "drop", "freed"}
    BY DEF Loud
  <2>2. Len(steps) >= 1 => steps[1][1] \notin {"closing", "idle?", "freed"} BY <1>3 DEF Loud
  <2>3. state' = state /\ node' = node BY DEF SameState
  <2> QED BY <1>1, <2>1, <2>2, <2>3, CloseStep
<1>7. PoolInv'
  <2>1. Len(todo[t]) >= 1 => Kind(t, 1) \notin {"completed", "join"} BY DEF Loud
  <2>2. \A i \in 1 .. Len(steps) : steps[i][1] # "completed" BY DEF Loud
  <2>3. Len(steps) >= 1 => steps[1][1] \notin {"drop", "freed"} BY <1>3 DEF Loud
  <2> QED BY <1>1, <2>1, <2>2, <2>3, PoolStep DEF SameState
<1>8. CallsInv'
  <2>1. Len(todo[t]) >= 1 =>
            Kind(t, 1) \notin {"submit", "run", "process", "land", "flush", "release"}
    BY DEF Loud
  <2>2. \A i \in 1 .. Len(steps) :
            steps[i][1] \notin {"submit", "run", "process", "land", "flush", "release"}
    BY DEF Loud
  <2>3. /\ state' = state /\ node' = node /\ delegated' = delegated
        /\ Cardinality(Places(pool'.ready, RunTask)) = Cardinality(Places(pool.ready, RunTask))
    BY DEF SameState
  <2>4. LineInv' BY <1>1, <2>3 DEF CallsInv, LineInv
  <2> QED BY <1>1, <2>1, <2>2, <2>3, <2>4, CallsStep
<1> QED BY <1>4, <1>5, <1>6, <1>7, <1>8 DEF IInv, SameState

\* A thread that goes on advances.
LEMMA GoAdvances ==
    ASSUME ListsOK, NEW t \in Threads, NEW k, At(t, k), NEW steps \in Seq(Steps), Go(t, steps)
    PROVE  /\ Advances(t, steps, Len(todo[t]) - 1)
           /\ Len(todo[t]) \in Nat /\ Len(todo[t]) >= 1 /\ Kind(t, 1) = k
           /\ todo[t][1] = Head(todo[t]) /\ Arg(t) = todo[t][1][2] /\ todo[t][1] \in Steps
           /\ k \in NodeKinds \cup {"land", "close"} => Arg(t) \in Nodes
<1>1. /\ Len(todo[t]) \in Nat /\ Len(todo[t]) >= 1 /\ Kind(t, 1) = k
      /\ todo[t][1] = Head(todo[t]) /\ Arg(t) = todo[t][1][2]
  BY AtFirst
<1>2. todo[t][1] \in Steps BY <1>1, AtFirst
<1>3. Advances(t, steps, Len(todo[t]) - 1) BY <1>1, GoPushes DEF Advances
<1>4. k \in NodeKinds \cup {"land", "close"} => Arg(t) \in Nodes BY <1>1, <1>2, StepShape DEF Kind
<1> QED BY <1>1, <1>2, <1>3, <1>4

\* So does an idle one that is called.
LEMMA CallAdvances ==
    ASSUME ListsOK, NEW t \in Threads, Idle(t), NEW steps \in Seq(Steps), Call(t, steps)
    PROVE  Advances(t, steps, 0) /\ Len(todo[t]) = 0
BY AtFirst, CallPushes DEF Advances

\* The steps that are pushed are lists of steps.
LEMMA Lists ==
    /\ <<>> \in Seq(Steps)
    /\ \A a \in Steps : <<a>> \in Seq(Steps)
    /\ \A a, b \in Steps : <<a, b>> \in Seq(Steps)
    /\ \A a, b, c \in Steps : <<a, b, c>> \in Seq(Steps)
    /\ \A a, b, c, d \in Steps : <<a, b, c, d>> \in Seq(Steps)
<1> HIDE DEF Steps
<1> QED OBVIOUS

\* A quiet step of a thread on its list.
LEMMA QuietGo ==
    ASSUME IInv, NEW t \in Threads, NEW k, At(t, k), k \notin Loud,
           NEW steps \in Seq(Steps), Go(t, steps), SameState(t),
           \A i \in 1 .. Len(steps) : steps[i][1] \notin Loud,
           k \in AfterTask => steps = <<>>,
           t = Host /\ state = "Initialized" => \A i \in 1 .. Len(steps) : Calm(steps[i], Stopped')
    PROVE  IInv'
BY GoAdvances, QuietStep DEF IInv

\* ... and a call of the idle host.
LEMMA QuietCall ==
    ASSUME IInv, Idle(Host), NEW steps \in Seq(Steps), Call(Host, steps), SameState(Host),
           \A i \in 1 .. Len(steps) : steps[i][1] \notin Loud,
           state = "Initialized" => \A i \in 1 .. Len(steps) : Calm(steps[i], Stopped')
    PROVE  IInv'
<1>1. Host \in Threads /\ Host \notin Workers BY ThreadsAssumption DEF Threads
<1>2. Advances(Host, steps, 0) /\ Len(todo[Host]) = 0 BY <1>1, CallAdvances DEF IInv
<1>3. ~(Len(todo[Host]) >= 1) BY <1>2
<1> QED BY <1>1, <1>2, <1>3, QuietStep

\* Two lists, one after the other.
LEMMA Concats ==
    ASSUME NEW s \in Seq(Steps), NEW u \in Seq(Steps)
    PROVE  /\ s \o u \in Seq(Steps) /\ Len(s \o u) = Len(s) + Len(u)
           /\ \A i \in 1 .. Len(s) : (s \o u)[i] = s[i]
           /\ \A i \in 1 .. Len(s \o u) :
                 \/ \E j \in 1 .. Len(s) : i = j /\ (s \o u)[i] = s[j]
                 \/ \E j \in 1 .. Len(u) : i = Len(s) + j /\ (s \o u)[i] = u[j]
<1> HIDE DEF Steps
<1>1. Len(s) \in Nat /\ Len(u) \in Nat BY LenProperties
<1>2. /\ s \o u \in Seq(Steps) /\ Len(s \o u) = Len(s) + Len(u)
      /\ \A i \in 1 .. Len(s) + Len(u) : (s \o u)[i] = IF i <= Len(s) THEN s[i] ELSE u[i - Len(s)]
  BY ConcatProperties
<1>3. ASSUME NEW i \in 1 .. Len(s \o u)
      PROVE  \/ \E j \in 1 .. Len(s) : i = j /\ (s \o u)[i] = s[j]
             \/ \E j \in 1 .. Len(u) : i = Len(s) + j /\ (s \o u)[i] = u[j]
  <2>1. CASE i <= Len(s) BY <2>1, <1>1, <1>2
  <2>2. CASE i > Len(s)
    <3>1. i - Len(s) \in 1 .. Len(u) /\ i = Len(s) + (i - Len(s)) BY <2>2, <1>1, <1>2
    <3>2. (s \o u)[i] = u[i - Len(s)] BY <2>2, <1>1, <1>2
    <3> QED BY <3>1, <3>2
  <2> QED BY <2>1, <2>2, <1>1, <1>2
<1>4. \A i \in 1 .. Len(s) : (s \o u)[i] = s[i] BY <1>1, <1>2
<1> QED BY <1>2, <1>3, <1>4

\* The wakeup of the host.
LEMMA WakeupSteps ==
    /\ RequestWakeup \in Seq(Steps) /\ Len(RequestWakeup) = 2
    /\ \A i \in 1 .. Len(RequestWakeup) : RequestWakeup[i][1] \in AfterTask
    /\ \A i \in 1 .. Len(RequestWakeup) : RequestWakeup[i][1] \notin Loud
    /\ \A i \in 1 .. Len(RequestWakeup) : \A b : Calm(RequestWakeup[i], b)
<1>1. <<"request">> \in Steps /\ <<"arm">> \in Steps BY StepForms DEF PlainKinds
<1>2. RequestWakeup \in Seq(Steps) BY <1>1, Lists DEF RequestWakeup
<1>3. /\ Len(RequestWakeup) = 2
      /\ \A i \in 1 .. Len(RequestWakeup) : RequestWakeup[i] \in {<<"request">>, <<"arm">>}
  BY DEF RequestWakeup
<1>4. \A s \in {<<"request">>, <<"arm">>} :
         s[1] \in AfterTask /\ s[1] \notin Loud /\ \A b : Calm(s, b)
  BY DEF AfterTask, Loud, Calm, CalmKinds
<1> QED BY <1>2, <1>3, <1>4

\* A step that only drops itself.
LEMMA QuietDrop ==
    ASSUME IInv, NEW t \in Threads, NEW k, At(t, k), k \notin Loud, Go(t, <<>>), SameState(t)
    PROVE  IInv'
<1>1. <<>> \in Seq(Steps) /\ Len(<<>>) = 0 BY Lists
<1>2. \A i \in 1 .. Len(<<>>) : FALSE BY <1>1
<1> QED BY <1>1, <1>2, QuietGo

\* A step that stands for another one.
LEMMA QuietOne ==
    ASSUME IInv, NEW t \in Threads, NEW k, At(t, k), k \notin Loud \cup AfterTask,
           NEW s \in Steps, s[1] \notin Loud, Go(t, <<s>>), SameState(t),
           t = Host /\ state = "Initialized" => Calm(s, Stopped')
    PROVE  IInv'
<1>1. <<s>> \in Seq(Steps) BY Lists
<1>2. \A i \in 1 .. Len(<<s>>) : <<s>>[i] = s OBVIOUS
<1> QED BY <1>1, <1>2, QuietGo

\* What the host does to a graph that is not started is calm.
LEMMA HeadCalm ==
    ASSUME IInv, NEW k, At(Host, k), k \notin {"open", "running"}, state = "Initialized"
    PROVE  Calm(Head(todo[Host]), Stopped) /\ Head(todo[Host])[1] = k
<1>1. Host \in Threads BY DEF Threads
<1>2. Len(todo[Host]) \in Nat /\ Len(todo[Host]) >= 1 /\ Kind(Host, 1) = k /\ Head(todo[Host]) = todo[Host][1]
  BY <1>1, AtFirst DEF IInv
<1>3. 1 \in 1 .. Len(todo[Host]) BY <1>2
<1>4. todo[Host] \notin StartTails
  <2> SUFFICES ASSUME todo[Host] \in StartTails PROVE FALSE
    OBVIOUS
  <2>1. Kind(Host, 1) \in {"open", "running"} BY DEF StartTails, Kind
  <2> QED BY <2>1, <1>2
<1> QED BY <1>2, <1>3, <1>4 DEF IInv, PhaseInv, CalmInv, Kind

\* A host that resets a graph does nothing else.
LEMMA ResetFirst ==
    ASSUME IInv, NEW k, At(Host, k), k \notin {"clear", "renew", "initialized"}
    PROVE  ~Has(Host, "initialized")
<1>1. Host \in Threads BY DEF Threads
<1>2. Len(todo[Host]) >= 1 /\ Kind(Host, 1) = k BY <1>1, AtFirst DEF IInv
<1> SUFFICES ASSUME Has(Host, "initialized") PROVE FALSE
  OBVIOUS
<1>3. todo[Host] \in ResetTails BY DEF IInv, PhaseInv, ResetInv
<1>4. Kind(Host, 1) \in {"clear", "renew", "initialized"} BY <1>3 DEF ResetTails, Kind
<1> QED BY <1>2, <1>4

\* The state that is left alone.
LEMMA Untouched ==
    ASSUME IInv, NEW t, UNCHANGED <<state, shared, node, source, sink, inFlight, pool, delegated>>
    PROVE  SameState(t)
BY DEF IInv, TypeOK, PhaseInv, SleepInv, FreshInv, SameState, Stopped, Asleep, Fresh

---------------------------------------------------------------------------
(* The quiet actions.                                                       *)

LEMMA TryStep ==
    ASSUME IInv, NEW t \in Threads, Try(t)
    PROVE  IInv'
<1>1. At(t, "try") /\ SameState(t) /\ Stopped' = Stopped
  BY Untouched DEF Try, Stopped
<1>2. "try" \notin Loud \cup AfterTask BY DEF Loud, AfterTask
<1>3. CASE Stopped \/ paused
  BY <1>1, <1>2, <1>3, QuietDrop DEF Try
<1>4. CASE ~(Stopped \/ paused)
  <2>1. Arg(t) \in Nodes
    BY <1>1, AtFirst, StepShape DEF IInv, Kind, NodeKinds
  <2>2. <<"claim", Arg(t)>> \in Steps BY <2>1, StepForms DEF NodeKinds
  <2>3. t = Host /\ state = "Initialized" => Calm(<<"claim", Arg(t)>>, Stopped')
    BY <1>1, HeadCalm DEF Calm, CalmKinds, Arg
  <2>4. Go(t, <<<<"claim", Arg(t)>>>>) BY <1>4 DEF Try
  <2>5. <<"claim", Arg(t)>>[1] \notin Loud BY DEF Loud
  <2> QED BY <1>1, <1>2, <2>2, <2>3, <2>4, <2>5, QuietOne
<1> QED BY <1>3, <1>4

LEMMA RequestStep ==
    ASSUME IInv, NEW t \in Threads, Request(t) \/ Arm(t)
    PROVE  IInv'
<1>1. PICK k \in {"request", "arm"} : At(t, k) /\ Go(t, <<>>) BY DEF Request, Arm
<1>2. SameState(t) BY Untouched DEF Request, Arm
<1> QED BY <1>1, <1>2, QuietDrop DEF Loud

\* A wake clears the flag of the source, or counts for nothing.
LEMMA WakeStep ==
    ASSUME IInv, NEW w \in Workers, Wake(w)
    PROVE  IInv'
<1>1. w \in Threads /\ w # Host /\ At(w, "wake") BY ThreadsAssumption DEF Threads, Wake
<1>2. UNCHANGED <<state, shared, node, sink, inFlight, pool, delegated>> BY DEF Wake
<1>3. SameState(w)
  <2>1. source' = source \/ source' = [source EXCEPT !.waiting = FALSE] BY DEF Wake
  <2>2. TypeOK' /\ (~source.waiting => ~source'.waiting) /\ (~source.done => ~source'.done)
    BY <1>2, <2>1 DEF IInv, TypeOK
  <2> QED BY <1>2, <2>2 DEF IInv, PhaseInv, SleepInv, FreshInv, SameState, Stopped, Asleep, Fresh
<1>4. "wake" \notin Loud \cup AfterTask BY DEF Loud, AfterTask
<1>5. CASE source.generation # Arg(w) BY <1>1, <1>3, <1>4, <1>5, QuietDrop DEF Wake
<1>6. CASE source.generation = Arg(w)
  <2>1. <<"woken", "source">> \in Steps BY StepForms DEF NodeKinds, Nodes
  <2>2. <<"woken", "source">>[1] \notin Loud BY DEF Loud
  <2>3. Go(w, <<<<"woken", "source">>>>) BY <1>6 DEF Wake
  <2> QED BY <1>1, <1>3, <1>4, <2>1, <2>2, <2>3, QuietOne
<1> QED BY <1>5, <1>6

LEMMA WokenStep ==
    ASSUME IInv, NEW w \in Workers, Woken(w)
    PROVE  IInv'
<1>1. w \in Threads /\ w # Host /\ At(w, "woken") BY ThreadsAssumption DEF Threads, Woken
<1>2. SameState(w) BY Untouched DEF Woken
<1>3. "woken" \notin Loud \cup AfterTask BY DEF Loud, AfterTask
<1>4. PICK s \in {<<"try", "source">>, <<"close?", "source">>} : Go(w, <<s>>)
  BY DEF Woken, MaybeClose
<1>5. s \in Steps /\ s[1] \notin Loud
  <2>1. s \in Steps BY StepForms DEF NodeKinds, Nodes
  <2>2. s[1] \notin Loud BY DEF Loud
  <2> QED BY <2>1, <2>2
<1> QED BY <1>1, <1>2, <1>3, <1>4, <1>5, QuietOne

---------------------------------------------------------------------------
(* How often an entry stands in a sequence.                                 *)

LEMMA PlacesFinite ==
    ASSUME NEW S, NEW s \in Seq(S), NEW x
    PROVE  IsFiniteSet(Places(s, x)) /\ Cardinality(Places(s, x)) \in Nat
<1>1. Len(s) \in Nat BY LenProperties
<1>2. IsFiniteSet(1 .. Len(s)) BY <1>1, FS_Interval
<1>3. Places(s, x) \in SUBSET (1 .. Len(s)) BY DEF Places
<1>4. IsFiniteSet(Places(s, x)) BY <1>2, <1>3, FS_Subset
<1> QED BY <1>4, FS_CardinalityType

LEMMA PlacesAppend ==
    ASSUME NEW S, NEW s \in Seq(S), NEW e \in S, NEW x
    PROVE  Cardinality(Places(Append(s, e), x)) =
               Cardinality(Places(s, x)) + (IF e = x THEN 1 ELSE 0)
<1>1. Len(s) \in Nat BY LenProperties
<1>2. /\ Len(Append(s, e)) = Len(s) + 1 /\ Append(s, e)[Len(s) + 1] = e
      /\ \A i \in 1 .. Len(s) : Append(s, e)[i] = s[i]
  BY AppendProperties
<1>3. IsFiniteSet(Places(s, x)) /\ Cardinality(Places(s, x)) \in Nat BY PlacesFinite
<1>4. Len(s) + 1 \notin Places(s, x) BY <1>1 DEF Places
<1>5. \A i \in 1 .. Len(s) + 1 : i \in 1 .. Len(s) \/ i = Len(s) + 1 BY <1>1
<1>6. \A i \in 1 .. Len(s) : i \in 1 .. Len(s) + 1 BY <1>1
<1>7. Len(s) + 1 \in 1 .. Len(s) + 1 BY <1>1
<1>8. CASE e = x
  <2>1. Places(Append(s, e), x) = Places(s, x) \cup {Len(s) + 1}
    BY <1>2, <1>5, <1>6, <1>7, <1>8 DEF Places
  <2> QED BY <2>1, <1>3, <1>4, <1>8, FS_AddElement
<1>9. CASE e # x
  <2>1. Places(Append(s, e), x) = Places(s, x) BY <1>2, <1>5, <1>6, <1>7, <1>9 DEF Places
  <2> QED BY <2>1, <1>3, <1>9
<1> QED BY <1>8, <1>9

LEMMA PlacesExcept ==
    ASSUME NEW S, NEW s \in Seq(S), NEW i \in 1 .. Len(s), NEW e \in S, NEW x
    PROVE  Cardinality(Places([s EXCEPT ![i] = e], x)) =
               Cardinality(Places(s, x)) + (IF e = x THEN 1 ELSE 0) - (IF s[i] = x THEN 1 ELSE 0)
<1> DEFINE q == [s EXCEPT ![i] = e]
<1>1. /\ q \in Seq(S) /\ Len(q) = Len(s)
      /\ \A j \in 1 .. Len(s) : q[j] = IF j = i THEN e ELSE s[j]
  BY ExceptSeq
<1>2. IsFiniteSet(Places(s, x)) /\ Cardinality(Places(s, x)) \in Nat BY PlacesFinite
<1> HIDE DEF q
<1>3. CASE e = x /\ s[i] = x
  <2>1. Places(q, x) = Places(s, x) BY <1>1, <1>3 DEF Places
  <2> QED BY <2>1, <1>2, <1>3 DEF q
<1>4. CASE e # x /\ s[i] # x
  <2>1. Places(q, x) = Places(s, x) BY <1>1, <1>4 DEF Places
  <2> QED BY <2>1, <1>2, <1>4 DEF q
<1>5. CASE e = x /\ s[i] # x
  <2>1. Places(q, x) = Places(s, x) \cup {i} BY <1>1, <1>5 DEF Places
  <2>2. i \notin Places(s, x) BY <1>5 DEF Places
  <2>3. Cardinality(Places(q, x)) = Cardinality(Places(s, x)) + 1
    BY <2>1, <2>2, <1>2, FS_AddElement
  <2> QED BY <2>3, <1>2, <1>5 DEF q
<1>6. CASE e # x /\ s[i] = x
  <2>1. Places(q, x) = Places(s, x) \ {i} BY <1>1, <1>6 DEF Places
  <2>2. i \in Places(s, x) BY <1>6 DEF Places
  <2>3. Cardinality(Places(q, x)) = Cardinality(Places(s, x)) - 1
    BY <2>1, <2>2, <1>2, FS_RemoveElement
  <2> QED BY <2>3, <1>2, <1>6 DEF q
<1> QED BY <1>3, <1>4, <1>5, <1>6

LEMMA PlacesTail ==
    ASSUME NEW S, NEW s \in Seq(S), s # <<>>, NEW x
    PROVE  Cardinality(Places(Tail(s), x)) =
               Cardinality(Places(s, x)) - (IF s[1] = x THEN 1 ELSE 0)
<1>1. Len(s) \in Nat /\ Len(s) >= 1 BY EmptySeq, LenProperties
<1>2. /\ Tail(s) \in Seq(S) /\ Len(Tail(s)) = Len(s) - 1
      /\ \A i \in 1 .. Len(Tail(s)) : Tail(s)[i] = s[i + 1]
  BY HeadTailProperties
<1>3. IsFiniteSet(Places(s, x)) /\ Cardinality(Places(s, x)) \in Nat BY PlacesFinite
<1>4. IsFiniteSet(Places(Tail(s), x)) BY <1>2, PlacesFinite
<1> DEFINE Later == Places(s, x) \ {1}
           f == [i \in Places(Tail(s), x) |-> i + 1]
<1>5. f \in Bijection(Places(Tail(s), x), Later)
  <2>1. ASSUME NEW i \in Places(Tail(s), x) PROVE i + 1 \in Later
    <3>1. i \in 1 .. Len(Tail(s)) /\ Tail(s)[i] = x BY DEF Places
    <3>2. i + 1 \in 1 .. Len(s) /\ i + 1 # 1 BY <3>1, <1>1, <1>2
    <3> QED BY <3>1, <3>2, <1>2 DEF Places
  <2>2. ASSUME NEW j \in Later PROVE \E i \in Places(Tail(s), x) : i + 1 = j
    <3>1. j \in 1 .. Len(s) /\ s[j] = x /\ j # 1 BY DEF Places
    <3>2. j - 1 \in 1 .. Len(Tail(s)) /\ (j - 1) + 1 = j BY <3>1, <1>1, <1>2
    <3>3. Tail(s)[j - 1] = s[(j - 1) + 1] BY <3>2, <1>2
    <3>4. j - 1 \in Places(Tail(s), x) BY <3>1, <3>2, <3>3 DEF Places
    <3> QED BY <3>2, <3>4
  <2>3. ASSUME NEW i \in Places(Tail(s), x), NEW j \in Places(Tail(s), x), i + 1 = j + 1 PROVE i = j
    <3>1. i \in 1 .. Len(Tail(s)) /\ j \in 1 .. Len(Tail(s)) BY DEF Places
    <3> QED BY <2>3, <3>1
  <2>4. f \in [Places(Tail(s), x) -> Later] BY <2>1
  <2> HIDE DEF Later
  <2>5. \A i, j \in Places(Tail(s), x) : f[i] = f[j] => i = j BY <2>3
  <2>6. \A j \in Later : \E i \in Places(Tail(s), x) : f[i] = j BY <2>2
  <2> HIDE DEF f
  <2> QED BY <2>4, <2>5, <2>6 DEF Bijection, Injection, Surjection, IsInjective
<1>6. Cardinality(Later) = Cardinality(Places(Tail(s), x))
  BY <1>4, <1>5, FS_Bijection DEF ExistsBijection
<1>7. Cardinality(Later) = IF 1 \in Places(s, x) THEN Cardinality(Places(s, x)) - 1
                           ELSE Cardinality(Places(s, x))
  BY <1>3, FS_RemoveElement
<1>8. 1 \in Places(s, x) <=> s[1] = x BY <1>1 DEF Places
<1> QED BY <1>3, <1>6, <1>7, <1>8

---------------------------------------------------------------------------
(* The source, and the close of a node, as long as they only look.          *)

\* A worker that is not done with its task runs in a graph that was started.
LEMMA WorkerAwake ==
    ASSUME IInv, NEW w \in Workers, NEW k, At(w, k), k \notin AfterTask
    PROVE  w \in Threads /\ w # Host /\ ~Asleep /\ ~Fresh
<1>1. w \in Threads /\ w # Host /\ Host \in Threads BY ThreadsAssumption DEF Threads
<1>2. ~Asleep
  <2>1. Len(todo[w]) \in Nat /\ Len(todo[w]) >= 1 /\ Kind(w, 1) = k BY <1>1, AtFirst DEF IInv
  <2>2. 1 \in 1 .. Len(todo[w]) BY <2>1
  <2> QED BY <2>1, <2>2 DEF IInv, PhaseInv, SleepInv
<1>3. At(Host, "initialized") => Has(Host, "initialized") BY <1>1, HasNow DEF IInv
<1> QED BY <1>1, <1>2, <1>3 DEF Asleep, Fresh

LEMMA ResumptionStep ==
    ASSUME IInv, NEW w \in Workers, Resumption(w)
    PROVE  IInv'
<1>1. At(w, "resume?") /\ "resume?" \notin Loud \cup AfterTask BY DEF Resumption, Loud, AfterTask
<1>2. w \in Threads /\ w # Host /\ ~Asleep /\ ~Fresh BY <1>1, WorkerAwake
<1>3. UNCHANGED <<state, shared, node, sink, inFlight, pool, delegated>> BY DEF Resumption
<1>4. SameState(w)
  <2>1. source' = source \/ source' = [source EXCEPT !.waiting = FALSE, !.reschedule = FALSE]
    BY DEF Resumption
  <2>2. TypeOK' BY <1>3, <2>1 DEF IInv, TypeOK
  <2> QED BY <1>2, <1>3, <2>2 DEF SameState
<1>5. Go(w, <<>>) \/ Go(w, <<<<"reschedule">>>>) BY DEF Resumption
<1>6. <<"reschedule">> \in Steps BY StepForms DEF PlainKinds
<1>7. <<"reschedule">>[1] \notin Loud BY DEF Loud
<1> QED BY <1>1, <1>2, <1>4, <1>5, <1>6, <1>7, QuietDrop, QuietOne

LEMMA RescheduleStep ==
    ASSUME IInv, NEW w \in Workers, Reschedule(w)
    PROVE  IInv'
<1>1. At(w, "reschedule") /\ "reschedule" \notin Loud \cup AfterTask BY DEF Reschedule, Loud, AfterTask
<1>2. w \in Threads /\ w # Host /\ ~Asleep /\ ~Fresh BY <1>1, WorkerAwake
<1>3. UNCHANGED <<state, shared, node, sink, inFlight, pool, delegated>> BY DEF Reschedule
<1>4. SameState(w)
  <2>1. source' = source \/ source' = [source EXCEPT !.reschedule = FALSE] BY DEF Reschedule
  <2>2. TypeOK' BY <1>3, <2>1 DEF IInv, TypeOK
  <2> QED BY <1>2, <1>3, <2>2 DEF SameState
<1>5. Go(w, <<>>) \/ Go(w, <<<<"generation">>>>) BY DEF Reschedule
<1>6. <<"generation">> \in Steps BY StepForms DEF PlainKinds
<1>7. <<"generation">>[1] \notin Loud BY DEF Loud
<1> QED BY <1>1, <1>2, <1>4, <1>5, <1>6, <1>7, QuietDrop, QuietOne

LEMMA GenerationStep ==
    ASSUME IInv, NEW w \in Workers, Generation(w)
    PROVE  IInv'
<1>1. At(w, "generation") /\ "generation" \notin Loud \cup AfterTask BY DEF Generation, Loud, AfterTask
<1>2. w \in Threads /\ w # Host /\ ~Asleep /\ ~Fresh BY <1>1, WorkerAwake
<1>3. SameState(w)
  <2>1. TypeOK'
    <3>1. TypeOK /\ source.generation + 1 \in Nat BY DEF IInv, TypeOK
    <3>2. source' = [source EXCEPT !.generation = source.generation + 1] BY DEF Generation
    <3>3. source' \in [waiting : BOOLEAN, reschedule : BOOLEAN, done : BOOLEAN, generation : Nat]
      BY <3>1, <3>2 DEF TypeOK
    <3> QED BY <3>1, <3>3 DEF TypeOK, Generation
  <2> QED BY <1>2, <2>1 DEF SameState, Generation
<1>4. source.generation + 1 \in Nat \ {0} BY DEF IInv, TypeOK
<1>5. <<"delay", source.generation + 1>> \in Steps BY <1>4, StepForms
<1>6. <<"delay", source.generation + 1>>[1] \notin Loud BY DEF Loud
<1> QED BY <1>1, <1>2, <1>3, <1>5, <1>6, QuietOne DEF Generation

\* A wake is no call of the source.
LEMMA DelayStep ==
    ASSUME IInv, NEW w \in Workers, Delay(w)
    PROVE  IInv'
<1>1. At(w, "delay") /\ "delay" \notin Loud /\ "delay" \notin AfterTask BY DEF Delay, Loud, AfterTask
<1>2. w \in Threads /\ w # Host /\ ~Asleep /\ ~Fresh BY <1>1, WorkerAwake
<1>3. Arg(w) \in Nat \ {0} BY <1>1, <1>2, AtFirst, StepShape DEF IInv, Kind
<1>4. UNCHANGED <<state, shared, node, sink, inFlight, delegated>> BY DEF Delay
<1>5. TypeOK /\ pool.ready \in Seq(Nat) BY DEF IInv, TypeOK
<1>6. CASE pool.stop
  <2>1. source' = [source EXCEPT !.waiting = FALSE] /\ pool' = pool BY <1>6 DEF Delay
  <2>2. TypeOK' BY <1>4, <1>5, <2>1 DEF TypeOK
  <2>3. SameState(w) BY <1>2, <1>4, <2>1, <2>2 DEF SameState
  <2> QED BY <1>1, <1>2, <2>3, QuietDrop DEF Delay
<1>7. CASE ~pool.stop /\ pool' = Enqueued(Arg(w))
  <2>1. source' = source BY <1>7 DEF Delay
  <2>2. /\ pool'.ready = Append(pool.ready, Arg(w))
        /\ pool' = [pool EXCEPT !.ready = Append(pool.ready, Arg(w))]
    BY <1>5, <1>7 DEF Enqueued, TypeOK
  <2>3. Append(pool.ready, Arg(w)) \in Seq(Nat) BY <1>3, <1>5, AppendProperties
  <2>4. TypeOK' BY <1>4, <1>5, <2>1, <2>2, <2>3 DEF TypeOK
  <2>5. Cardinality(Places(pool'.ready, RunTask)) = Cardinality(Places(pool.ready, RunTask))
    <3>1. Arg(w) # RunTask BY <1>3 DEF RunTask
    <3>2. Cardinality(Places(pool.ready, RunTask)) \in Nat BY <1>5, PlacesFinite
    <3>3. Arg(w) \in Nat BY <1>3
    <3> QED BY <2>2, <3>1, <3>2, <3>3, <1>5, PlacesAppend
  <2>6. SameState(w)
    <3>1. /\ pool'.running = pool.running /\ pool'.workers = pool.workers
          /\ pool'.started = pool.started /\ pool'.exited = pool.exited
      BY <2>2, <1>5 DEF TypeOK
    <3> QED BY <1>2, <1>4, <2>4, <2>5, <3>1 DEF SameState
  <2> QED BY <1>1, <1>2, <2>6, QuietDrop DEF Delay
<1>8. CASE ~pool.stop /\ pool' = [pool EXCEPT !.delayed = @ \cup {Arg(w)}]
  <2>1. source' = source BY <1>8 DEF Delay
  <2>2. TypeOK' BY <1>3, <1>4, <1>5, <1>8, <2>1 DEF TypeOK
  <2>3. SameState(w) BY <1>2, <1>4, <1>5, <1>8, <2>2 DEF SameState, TypeOK
  <2> QED BY <1>1, <1>2, <2>3, QuietDrop DEF Delay
<1> QED BY <1>6, <1>7, <1>8 DEF Delay

---------------------------------------------------------------------------
(* The host, as long as it only looks.                                      *)

\* Steps of the host that are neither loud nor about a node.
NeutralKinds ==
    {"request", "arm", "cancelled", "invalidate", "forget", "wait", "task", "ended", "done?",
     "more?", "pump", "pumped", "again?", "stop"}

LEMMA Neutral ==
    ASSUME NEW k \in NeutralKinds
    PROVE  /\ <<k>> \in Steps /\ <<k>>[1] = k /\ k \notin Loud
           /\ \A b : Calm(<<k>>, b)
<1>1. k \in PlainKinds BY DEF NeutralKinds, PlainKinds
<1>2. <<k>> \in Steps BY <1>1, StepForms
<1>3. k \notin Loud BY DEF NeutralKinds, Loud
<1>4. \A b : Calm(<<k>>, b) BY DEF NeutralKinds, Calm, CalmKinds
<1> QED BY <1>2, <1>3, <1>4

\* A step that the invariant is not about, of the host.
HostKinds == NeutralKinds \ AfterTask
NeutralList(steps) ==
    /\ steps \in Seq(Steps)
    /\ \A i \in 1 .. Len(steps) : \E k \in NeutralKinds : steps[i] = <<k>>

LEMMA NeutralSteps ==
    ASSUME NEW steps, NeutralList(steps), NEW i \in 1 .. Len(steps)
    PROVE  steps[i][1] \notin Loud /\ \A b : Calm(steps[i], b)
<1>1. PICK k \in NeutralKinds : steps[i] = <<k>> BY DEF NeutralList
<1>2. <<k>>[1] = k /\ k \notin Loud /\ \A b : Calm(<<k>>, b) BY Neutral
<1> QED BY <1>1, <1>2

LEMMA NeutralGo ==
    ASSUME IInv, NEW k \in HostKinds, At(Host, k), NEW steps, NeutralList(steps),
           Go(Host, steps), SameState(Host)
    PROVE  IInv'
<1>1. Host \in Threads BY DEF Threads
<1>2. k \notin Loud /\ k \notin AfterTask BY Neutral DEF HostKinds
<1>3. steps \in Seq(Steps) BY DEF NeutralList
<1>4. \A i \in 1 .. Len(steps) : steps[i][1] \notin Loud /\ Calm(steps[i], Stopped')
  BY NeutralSteps
<1> QED BY <1>1, <1>2, <1>3, <1>4, QuietGo

LEMMA NeutralCall ==
    ASSUME IInv, Idle(Host), NEW steps, NeutralList(steps), Call(Host, steps), SameState(Host)
    PROVE  IInv'
<1>1. steps \in Seq(Steps) BY DEF NeutralList
<1>2. \A i \in 1 .. Len(steps) : steps[i][1] \notin Loud /\ Calm(steps[i], Stopped')
  BY NeutralSteps
<1> QED BY <1>1, <1>2, QuietCall

LEMMA NeutralNil == NeutralList(<<>>)
<1>1. <<>> \in Seq(Steps) /\ Len(<<>>) = 0 BY Lists
<1>2. \A i \in 1 .. Len(<<>>) : FALSE BY <1>1
<1> QED BY <1>1, <1>2 DEF NeutralList

LEMMA NeutralOne ==
    ASSUME NEW k \in NeutralKinds
    PROVE  NeutralList(<<<<k>>>>)
<1>1. <<<<k>>>> \in Seq(Steps) BY Neutral, Lists
<1>2. \A i \in 1 .. Len(<<<<k>>>>) : <<<<k>>>>[i] = <<k>> OBVIOUS
<1> QED BY <1>1, <1>2 DEF NeutralList

LEMMA NeutralConcat ==
    ASSUME NEW s, NEW u, NeutralList(s), NeutralList(u)
    PROVE  NeutralList(s \o u)
<1>1. s \in Seq(Steps) /\ u \in Seq(Steps) BY DEF NeutralList
<1>2. ASSUME NEW i \in 1 .. Len(s \o u) PROVE \E k \in NeutralKinds : (s \o u)[i] = <<k>>
  <2>1. \/ \E j \in 1 .. Len(s) : (s \o u)[i] = s[j]
        \/ \E j \in 1 .. Len(u) : (s \o u)[i] = u[j]
    BY <1>1, Concats
  <2> QED BY <2>1 DEF NeutralList
<1>3. s \o u \in Seq(Steps) BY <1>1, Concats
<1> QED BY <1>2, <1>3 DEF NeutralList

\* Any two, three.
LEMMA NeutralMore ==
    ASSUME NEW a \in NeutralKinds, NEW b \in NeutralKinds, NEW c \in NeutralKinds
    PROVE  NeutralList(<<<<a>>, <<b>>>>) /\ NeutralList(<<<<a>>, <<b>>, <<c>>>>)
<1>1. <<a>> \in Steps /\ <<b>> \in Steps /\ <<c>> \in Steps BY Neutral
<1>2. <<<<a>>, <<b>>>> \in Seq(Steps) /\ <<<<a>>, <<b>>, <<c>>>> \in Seq(Steps) BY <1>1, Lists
<1>3. /\ \A i \in 1 .. Len(<<<<a>>, <<b>>>>) : <<<<a>>, <<b>>>>[i] \in {<<a>>, <<b>>}
      /\ \A i \in 1 .. Len(<<<<a>>, <<b>>, <<c>>>>) : <<<<a>>, <<b>>, <<c>>>>[i] \in {<<a>>, <<b>>, <<c>>}
  OBVIOUS
<1> QED BY <1>2, <1>3 DEF NeutralList

LEMMA NeutralLists ==
    /\ NeutralList(RequestWakeup) /\ NeutralList(CancelSteps) /\ NeutralList(Wait)
    /\ NeutralList(PumpStep)
    /\ NeutralList(PumpStep \o <<<<"pumped">>>>) /\ NeutralList(PumpStep \o <<<<"done?">>>>)
<1>1. NeutralList(RequestWakeup) /\ NeutralList(PumpStep)
  BY NeutralMore DEF RequestWakeup, PumpStep, NeutralKinds
<1>2. NeutralList(Wait) /\ NeutralList(<<<<"pumped">>>>) /\ NeutralList(<<<<"done?">>>>)
  BY NeutralOne DEF Wait, NeutralKinds
<1>3. NeutralList(<<<<"cancelled">>, <<"invalidate">>, <<"forget">>>>)
  BY NeutralMore DEF NeutralKinds
<1> QED BY <1>1, <1>2, <1>3, NeutralConcat DEF CancelSteps

\* Actions of the host that leave the graph alone.
LEMMA HostLooks ==
    ASSUME IInv, Pump \/ Pumped \/ Rearm \/ WaitStep \/ WaitMore
    PROVE  IInv'
<1>1. SameState(Host) BY Untouched DEF Pump, Pumped, Rearm, WaitStep, WaitMore
<1>2. CASE Pump
  BY <1>1, <1>2, NeutralGo, NeutralLists DEF Pump, HostKinds, NeutralKinds, AfterTask
<1>3. CASE Pumped
  <2>1. PICK k \in NeutralKinds : Go(Host, <<<<k>>>>) BY <1>3 DEF Pumped, NeutralKinds
  <2> QED BY <1>1, <1>3, <2>1, NeutralGo, NeutralOne DEF Pumped, HostKinds, NeutralKinds, AfterTask
<1>4. CASE Rearm
  BY <1>1, <1>4, NeutralGo, NeutralLists, NeutralNil DEF Rearm, HostKinds, NeutralKinds, AfterTask
<1>5. CASE WaitStep
  BY <1>1, <1>5, NeutralGo, NeutralLists DEF WaitStep, HostKinds, NeutralKinds, AfterTask
<1>6. CASE WaitMore
  BY <1>1, <1>6, NeutralGo, NeutralLists, NeutralNil DEF WaitMore, HostKinds, NeutralKinds, AfterTask
<1> QED BY <1>2, <1>3, <1>4, <1>5, <1>6

LEMMA HostCalls ==
    ASSUME IInv, EventLoop \/ SetCallback \/ WaitDone \/ Cancel
    PROVE  IInv'
<1>1. SameState(Host) BY Untouched DEF EventLoop, SetCallback, WaitDone, Cancel
<1>2. NeutralList(<<<<"pump">>>>) BY NeutralOne DEF NeutralKinds
<1>3. PICK steps : Idle(Host) /\ Call(Host, steps) /\ NeutralList(steps)
  BY <1>2, NeutralLists, NeutralNil DEF EventLoop, SetCallback, WaitDone, Cancel
<1> QED BY <1>1, <1>3, NeutralCall

\* Cancel and the end of the pool.
LEMMA HostCancels ==
    ASSUME IInv, SetCancelled \/ Invalidate \/ Forget \/ StopPool
    PROVE  IInv'
<1>1. PICK k \in HostKinds : At(Host, k) /\ Go(Host, <<>>)
  BY DEF SetCancelled, Invalidate, Forget, StopPool, HostKinds, NeutralKinds, AfterTask
<1>2. TypeOK /\ PhaseInv BY DEF IInv
<1>3. UNCHANGED <<state, node, inFlight, delegated, sink>>
  BY DEF SetCancelled, Invalidate, Forget, StopPool
<1>4. TypeOK'
  <2>1. CASE SetCancelled BY <2>1, <1>2 DEF SetCancelled, TypeOK
  <2>2. CASE Invalidate
    <3>1. source.generation + 1 \in Nat BY <1>2 DEF TypeOK
    <3>2. source' = [source EXCEPT !.waiting = FALSE, !.generation = source.generation + 1]
      BY <2>2 DEF Invalidate
    <3>3. source' \in [waiting : BOOLEAN, reschedule : BOOLEAN, done : BOOLEAN, generation : Nat]
      BY <1>2, <3>1, <3>2 DEF TypeOK
    <3> QED BY <1>2, <2>2, <3>3 DEF Invalidate, TypeOK
  <2>3. CASE Forget
    <3>1. {} \in SUBSET (Nat \ {0}) OBVIOUS
    <3> QED BY <2>3, <3>1, <1>2 DEF Forget, TypeOK
  <2>4. CASE StopPool BY <2>4, <1>2 DEF StopPool, TypeOK
  <2> QED BY <2>1, <2>2, <2>3, <2>4
<1>5. /\ pool'.ready = pool.ready /\ pool'.running = pool.running
      /\ pool'.workers = pool.workers /\ pool'.started = pool.started
      /\ pool'.exited = pool.exited /\ pool'.delayed \in {pool.delayed, {}}
  BY <1>2 DEF SetCancelled, Invalidate, Forget, StopPool, TypeOK
<1>6. (source'.waiting => source.waiting) /\ source'.done = source.done
  BY <1>2 DEF SetCancelled, Invalidate, Forget, StopPool, TypeOK
<1>7. Stopped => Stopped'
  BY <1>2 DEF SetCancelled, Invalidate, Forget, StopPool, TypeOK, Stopped
<1>8. SameState(Host)
  BY <1>2, <1>3, <1>4, <1>5, <1>6, <1>7 DEF SameState, PhaseInv, SleepInv, FreshInv
<1> QED BY <1>1, <1>8, NeutralGo, NeutralNil

\* Resume is not called between reset and start.
LEMMA ResumeStep ==
    ASSUME IInv, Resume
    PROVE  IInv'
<1>1. SameState(Host) BY Untouched DEF Resume
<1>2. <<"try", "source">> \in Steps /\ <<"try", "sink">> \in Steps
  BY StepForms DEF NodeKinds, Nodes
<1> DEFINE steps == <<<<"try", "source">>, <<"try", "sink">>>>
<1>3. steps \in Seq(Steps) BY <1>2, Lists
<1>4. \A i \in 1 .. Len(steps) : steps[i][1] = "try" OBVIOUS
<1>5. Idle(Host) /\ Call(Host, steps) /\ state # "Initialized" BY DEF Resume
<1>6. "try" \notin Loud BY DEF Loud
<1> HIDE DEF steps
<1> QED BY <1>1, <1>3, <1>4, <1>5, <1>6, QuietCall

LEMMA CloseLookStep ==
    ASSUME IInv, NEW t \in Threads, CloseLook(t)
    PROVE  IInv'
<1>1. At(t, "close?") /\ SameState(t) /\ Stopped' = Stopped
  BY Untouched DEF CloseLook, Stopped
<1>2. "close?" \notin Loud \cup AfterTask BY DEF Loud, AfterTask
<1>3. Arg(t) \in Nodes BY <1>1, AtFirst, StepShape DEF IInv, Kind, NodeKinds
<1>4. Stopped \in BOOLEAN BY DEF IInv, TypeOK, Stopped
<1>5. <<"close", Arg(t), Stopped>> \in Steps BY <1>3, <1>4, StepForms
<1>6. Calm(<<"close", Arg(t), Stopped>>, Stopped')
  <2>1. ~Stopped' => Stopped = FALSE BY <1>1, <1>4
  <2> QED BY <2>1 DEF Calm, CalmKinds
<1>7. <<"close", Arg(t), Stopped>>[1] \notin Loud BY DEF Loud
<1> QED BY <1>1, <1>2, <1>5, <1>6, <1>7, QuietOne DEF CloseLook

LEMMA EndOfStreamStep ==
    ASSUME IInv, NEW t \in Threads, EndOfStream(t)
    PROVE  IInv'
<1>1. At(t, "end") /\ "end" \notin Loud /\ "end" \notin AfterTask
  BY DEF EndOfStream, Loud, AfterTask
<1> DEFINE steps == <<<<"try", "sink">>>> \o RequestWakeup
<1>2. <<"try", "sink">> \in Steps BY StepForms DEF NodeKinds, Nodes
<1>3. <<<<"try", "sink">>>> \in Seq(Steps) /\ RequestWakeup \in Seq(Steps)
  BY <1>2, Lists, WakeupSteps
<1>4. \A i \in 1 .. Len(<<<<"try", "sink">>>>) : <<<<"try", "sink">>>>[i] = <<"try", "sink">> OBVIOUS
<1>5. <<"try", "sink">>[1] \notin Loud /\ \A b : Calm(<<"try", "sink">>, b)
  BY DEF Loud, Calm, CalmKinds
<1>6. /\ steps \in Seq(Steps)
      /\ \A i \in 1 .. Len(steps) : steps[i][1] \notin Loud /\ \A b : Calm(steps[i], b)
  <2>1. steps \in Seq(Steps) BY <1>3, Concats
  <2>2. ASSUME NEW i \in 1 .. Len(steps)
        PROVE  steps[i][1] \notin Loud /\ \A b : Calm(steps[i], b)
    <3>1. \/ \E j \in 1 .. Len(<<<<"try", "sink">>>>) : steps[i] = <<<<"try", "sink">>>>[j]
          \/ \E j \in 1 .. Len(RequestWakeup) : steps[i] = RequestWakeup[j]
      BY <1>3, Concats
    <3>2. CASE \E j \in 1 .. Len(<<<<"try", "sink">>>>) : steps[i] = <<<<"try", "sink">>>>[j]
      <4>1. steps[i] = <<"try", "sink">> BY <1>4, <3>2
      <4> QED BY <4>1, <1>5
    <3>3. CASE \E j \in 1 .. Len(RequestWakeup) : steps[i] = RequestWakeup[j]
      <4> HIDE DEF steps
      <4>1. PICK j \in 1 .. Len(RequestWakeup) : steps[i] = RequestWakeup[j] BY <3>3
      <4> QED BY <4>1, WakeupSteps
    <3> QED BY <3>1, <3>2, <3>3
  <2> QED BY <2>1, <2>2
<1>7. TypeOK' BY DEF IInv, TypeOK, EndOfStream
<1>8. Fresh => t = Host /\ Stopped'
  <2> SUFFICES ASSUME Fresh PROVE t = Host /\ Stopped'
    OBVIOUS
  <2>1. t = Host BY <1>1, WorkerAwake DEF Threads
  <2>2. ~At(Host, "initialized") BY <1>1, <2>1 DEF At
  <2>3. Stopped BY <1>1, <2>1, <2>2, HeadCalm DEF Fresh, Calm
  <2> QED BY <2>1, <2>3 DEF EndOfStream, Stopped
<1>9. SameState(t)
  BY <1>7, <1>8 DEF IInv, TypeOK, PhaseInv, SleepInv, FreshInv, SameState, EndOfStream, Stopped
<1>10. Go(t, steps) BY DEF EndOfStream
<1> HIDE DEF steps
<1> QED BY <1>1, <1>6, <1>9, <1>10, QuietGo

---------------------------------------------------------------------------
(* Calls of a node: claimed, submitted, run, landed and flushed.            *)

CallKinds == {"claim", "submit", "run", "process", "land", "flush", "release", "retire", "task"}

\* A thread that is in a call is in a graph that was started.
LEMMA Awake ==
    ASSUME IInv, NEW t \in Threads, NEW k \in CallKinds \ {"claim", "task"}, At(t, k)
    PROVE  ~Asleep /\ ~Fresh
<1>1. Host \in Threads BY DEF Threads
<1>2. CASE t \in Workers BY <1>2, WorkerAwake DEF CallKinds, AfterTask
<1>3. CASE t = Host
  <2>1. state # "Initialized" BY <1>3, HeadCalm DEF CallKinds, Calm, CalmKinds
  <2>2. ~Has(Host, "initialized") BY <1>3, ResetFirst DEF CallKinds
  <2>3. ~At(Host, "initialized") BY <2>2, <1>1, HasNow DEF IInv
  <2> QED BY <2>1, <2>2, <2>3 DEF Asleep, Fresh
<1> QED BY <1>2, <1>3 DEF Threads

\* A step of a call, as far as it is not about the calls of the nodes.
LEMMA BusyStep ==
    ASSUME IInv, NEW t \in Threads, NEW steps, NEW r, Advances(t, steps, r), ~Asleep,
           Len(todo[t]) >= 1, Kind(t, 1) \in CallKinds,
           \A i \in 1 .. Len(steps) :
               /\ steps[i][1] \notin {"open", "running", "renew", "initialized", "closing", "idle?", "join",
                                      "drop", "freed", "completed"}
               /\ steps[i][1] \in FrontKinds => i = 1,
           state' = state,
           \A n \in Nodes : /\ node'[n].opened = node[n].opened
                            /\ node'[n].closeStarted = node[n].closeStarted
                            /\ node'[n].closed = node[n].closed,
           pool'.running = pool.running, pool'.workers = pool.workers,
           pool'.started = pool.started, pool'.exited = pool.exited
    PROVE  ListsOK' /\ ShapeInv' /\ PhaseInv' /\ CloseInv' /\ PoolInv'
<1>1. TypeOK /\ ListsOK /\ ShapeInv /\ PhaseInv /\ CloseInv /\ PoolInv BY DEF IInv
<1>2. Len(steps) \in Nat /\ Len(todo[t]) \in Nat BY <1>1, Deeper
<1>3. Len(steps) >= 1 => 1 \in 1 .. Len(steps) BY <1>2
<1>4. ~Fresh /\ state # "Initialized"
  <2>1. Host \in Threads BY DEF Threads
  <2>2. At(Host, "initialized") => Has(Host, "initialized") BY <1>1, <2>1, HasNow
  <2> QED BY <2>2 DEF Fresh, Asleep
<1>5. Kind(t, 1) \notin {"open", "running", "clear", "renew", "initialized", "closing", "idle?",
                         "drop", "freed", "completed", "join"} \cup AfterTask
  BY DEF CallKinds, AfterTask
<1>6. ListsOK' /\ ShapeInv'
  <2>1. \A i \in 1 .. Len(steps) : steps[i][1] \in FrontKinds => i = 1 OBVIOUS
  <2>2. EndsAdvance(t, steps) BY <1>5 DEF EndsAdvance
  <2>3. t \in Workers => WorkerAdvances(t, steps) BY <1>5 DEF WorkerAdvances
  <2> QED BY <1>1, <2>1, <2>2, <2>3, ShapeStep
<1>7. PhaseInv'
  <2>1. \A i \in 1 .. Len(steps) : steps[i][1] \notin {"open", "renew", "initialized"} OBVIOUS
  <2> QED BY <1>1, <1>4, <1>5, <2>1, PhaseStep
<1>8. CloseInv' BY <1>1, <1>3, <1>4, <1>5, CloseStep
<1>9. PoolInv' BY <1>1, <1>3, <1>5, PoolStep
<1> QED BY <1>6, <1>7, <1>8, <1>9

\* Who has a claim that is not in a queue, after a step.
LEMMA HoldersStep ==
    ASSUME ListsOK, ShapeInv, NEW t \in Threads, NEW steps, NEW r, Advances(t, steps, r), NEW n
    PROVE  /\ Cardinality(Holders(n)) \in Nat /\ Cardinality(Holders(n)') \in Nat
           /\ t \in Holders(n) => Cardinality(Holders(n)) >= 1
           /\ Cardinality(Holders(n)') =
                 Cardinality(Holders(n)) - (IF t \in Holders(n) THEN 1 ELSE 0)
                   + (IF Len(steps) >= 1 /\ steps[1][1] \in {"submit", "run"} /\ steps[1][2] = n
                      THEN 1 ELSE 0)
<1> DEFINE others == Holders(n) \ {t}
           comes == Len(steps) >= 1 /\ steps[1][1] \in {"submit", "run"} /\ steps[1][2] = n
<1>1. IsFiniteSet(Threads) BY ThreadsAssumption, FS_Singleton, FS_Union DEF Threads
<1>2. Holders(n) \in SUBSET Threads /\ Holders(n)' \in SUBSET Threads BY DEF Holders
<1>3. IsFiniteSet(Holders(n)) /\ IsFiniteSet(Holders(n)') /\ IsFiniteSet(others)
  BY <1>1, <1>2, FS_Subset
<1>4. /\ Cardinality(Holders(n)) \in Nat /\ Cardinality(Holders(n)') \in Nat
      /\ Cardinality(others) \in Nat
  BY <1>3, FS_CardinalityType
<1>5. Cardinality(Holders(n)) - (IF t \in Holders(n) THEN 1 ELSE 0) = Cardinality(others)
  BY <1>3, <1>4, FS_RemoveElement
<1>6. \A u \in Threads \ {t} : u \in Holders(n)' <=> u \in Holders(n)
  BY Views DEF Holders
<1>7. t \in Holders(n)' <=> comes
  <2>1. "submit" \in FrontKinds /\ "run" \in FrontKinds BY DEF FrontKinds
  <2> QED BY <2>1, Views DEF Holders
<1>8. CASE comes
  <2>1. Holders(n)' = others \cup {t} BY <1>2, <1>6, <1>7, <1>8
  <2>2. Cardinality(Holders(n)') = Cardinality(others) + 1 BY <2>1, <1>3, FS_AddElement
  <2>3. t \in Holders(n) => Cardinality(Holders(n)) = Cardinality(others) + 1 BY <1>4, <1>5
  <2> QED BY <2>2, <2>3, <1>4, <1>5, <1>8
<1>9. CASE ~comes
  <2>1. Holders(n)' = others BY <1>2, <1>6, <1>7, <1>9
  <2>2. t \in Holders(n) => Cardinality(Holders(n)) = Cardinality(others) + 1 BY <1>4, <1>5
  <2> QED BY <2>1, <2>2, <1>4, <1>5, <1>9
<1> QED BY <1>8, <1>9

\* A step of a call, as far as it is about the entries of the lines.
InLine(line, u) == \E i \in 1 .. Len(line) : line[i] = u

LEMMA LinesStep ==
    ASSUME ListsOK, ShapeInv, CallsInv, NEW t \in Threads, NEW steps, NEW r,
           Advances(t, steps, r), state' = state,
           \A n \in Nodes :
               /\ node'[n].opened = node[n].opened
               /\ node'[n].closeStarted = node[n].closeStarted
               /\ node[n].line = <<>> /\ node'[n].line # <<>> =>
                      node[n].opened /\ ~node[n].closeStarted /\ state \in Live
               /\ \A u \in Threads \ {t} : InLine(node[n].line, u) => InLine(node'[n].line, u),
           Len(steps) >= 1 /\ steps[1][1] \in {"process", "land"} =>
               InLine(node'[steps[1][2]].line, t)
    PROVE  LineInv' /\ CallInv'
<1>2. LineInv' BY DEF CallsInv, LineInv
<1>3. CallInv'
  <2> SUFFICES ASSUME NEW u \in Threads, At(u, "process")' \/ At(u, "land")'
               PROVE  InLine(node'[Arg(u)'].line, u)
    BY DEF CallInv, InLine
  <2>1. CASE u = t
    <3>1. Len(steps) >= 1 /\ steps[1][1] \in {"process", "land"}
      <4>1. "process" \in FrontKinds /\ "land" \in FrontKinds BY DEF FrontKinds
      <4> QED BY <2>1, <4>1, Views
    <3> QED BY <2>1, <3>1, Views
  <2>2. CASE u # t
    <3>1. (At(u, "process") \/ At(u, "land")) /\ Arg(u)' = Arg(u) BY <2>2, Views
    <3>2. Arg(u) \in Nodes BY <3>1, AtFirst, StepShape DEF Kind, NodeKinds
    <3>3. InLine(node[Arg(u)].line, u) BY <3>1 DEF CallsInv, CallInv, InLine
    <3> QED BY <2>2, <3>1, <3>2, <3>3
  <2> QED BY <2>1, <2>2
<1> QED BY <1>2, <1>3

\* ... that flushes nothing.
LEMMA EntriesStep ==
    ASSUME ListsOK, ShapeInv, CallsInv, NEW t \in Threads, NEW steps, NEW r,
           Advances(t, steps, r),
           Len(todo[t]) >= 1 => Kind(t, 1) \notin {"flush", "release"},
           \A i \in 1 .. Len(steps) : steps[i][1] \notin {"flush", "release"},
           state' = state,
           \A n \in Nodes :
               /\ node'[n].opened = node[n].opened
               /\ node'[n].closeStarted = node[n].closeStarted
               /\ node'[n].flushing = node[n].flushing
               /\ node[n].line = <<>> /\ node'[n].line # <<>> =>
                      node[n].opened /\ ~node[n].closeStarted /\ state \in Live
               /\ FirstEmitted(node[n].line) => FirstEmitted(node'[n].line)
               /\ \A u \in Threads \ {t} : InLine(node[n].line, u) => InLine(node'[n].line, u),
           Len(steps) >= 1 /\ steps[1][1] \in {"process", "land"} =>
               InLine(node'[steps[1][2]].line, t)
    PROVE  LineInv' /\ CallInv' /\ FlushInv'
<1>1. FlushInv' BY FlushStep DEF CallsInv
<1> QED BY <1>1, LinesStep

\* The calls in the queue of the pool, and the claims of a node that are not yet run.
Runs == Cardinality(Places(pool.ready, RunTask))
Claims(n) == Cardinality(Places(node[n].line, "claimed"))
Gain(steps, n) ==
    IF Len(steps) >= 1 /\ steps[1][1] \in {"submit", "run"} /\ steps[1][2] = n THEN 1 ELSE 0
Loss(t, n) == IF (At(t, "submit") \/ At(t, "run")) /\ Arg(t) = n THEN 1 ELSE 0

LEMMA Counts ==
    ASSUME TypeOK
    PROVE  Runs \in Nat /\ delegated \in Nat /\ \A n \in Nodes : Claims(n) \in Nat
<1>1. pool.ready \in Seq(Nat) /\ delegated \in Nat BY DEF TypeOK
<1>2. \A n \in Nodes : node[n].line \in Seq(Entries) BY DEF TypeOK
<1> QED BY <1>1, <1>2, PlacesFinite DEF Runs, Claims

LEMMA CountsNext ==
    /\ Runs' = Cardinality(Places(pool'.ready, RunTask))
    /\ \A n : Claims(n)' = Cardinality(Places(node'[n].line, "claimed"))
    /\ TypeOK' => Runs' \in Nat /\ delegated' \in Nat /\ \A n \in Nodes : Claims(n)' \in Nat
<1>1. Runs' = Cardinality(Places(pool'.ready, RunTask)) BY DEF Runs, Places
<1>2. \A n : Claims(n)' = Cardinality(Places(node'[n].line, "claimed")) BY DEF Claims, Places
<1>3. ASSUME TypeOK'
      PROVE  Runs' \in Nat /\ delegated' \in Nat /\ \A n \in Nodes : Claims(n)' \in Nat
  <2>1. pool'.ready \in Seq(Nat) /\ delegated' \in Nat BY <1>3 DEF TypeOK
  <2>2. \A n \in Nodes : node'[n].line \in Seq(Entries) BY <1>3 DEF TypeOK
  <2>3. Cardinality(Places(pool'.ready, RunTask)) \in Nat BY <2>1, PlacesFinite
  <2>4. \A n \in Nodes : Cardinality(Places(node'[n].line, "claimed")) \in Nat BY <2>2, PlacesFinite
  <2> QED BY <2>1, <2>3, <2>4, <1>1, <1>2
<1> QED BY <1>1, <1>2, <1>3

\* A claim that is taken has been one: what moves is counted once.
LEMMA CountStep ==
    ASSUME IInv, TypeOK', NEW t \in Threads, NEW steps, NEW r, Advances(t, steps, r),
           Runs' + Gain(steps, "source") + Claims("source")
               <= Runs + Loss(t, "source") + Claims("source")',
           delegated' + Gain(steps, "sink") + Claims("sink")
               <= delegated + Loss(t, "sink") + Claims("sink")'
    PROVE  CountInv'
<1>1. "source" \in Nodes /\ "sink" \in Nodes BY DEF Nodes
<1>2. Runs \in Nat /\ delegated \in Nat /\ Claims("source") \in Nat /\ Claims("sink") \in Nat
  BY <1>1, Counts DEF IInv
<1>3. Runs' \in Nat /\ delegated' \in Nat /\ Claims("source")' \in Nat /\ Claims("sink")' \in Nat
  BY <1>1, CountsNext
<1>4. ASSUME NEW n \in Nodes
      PROVE  /\ Cardinality(Holders(n)) \in Nat /\ Cardinality(Holders(n)') \in Nat
             /\ Cardinality(Holders(n)') = Cardinality(Holders(n)) - Loss(t, n) + Gain(steps, n)
  <2>1. t \in Holders(n) <=> (At(t, "submit") \/ At(t, "run")) /\ Arg(t) = n BY DEF Holders
  <2> QED BY <2>1, HoldersStep DEF IInv, Loss, Gain
<1>5. /\ Runs + Cardinality(Holders("source")) <= Claims("source")
      /\ delegated + Cardinality(Holders("sink")) <= Claims("sink")
  BY DEF IInv, CallsInv, CountInv, Runs, Claims
<1>6. \A n : Loss(t, n) \in {0, 1} /\ Gain(steps, n) \in {0, 1} BY DEF Loss, Gain
<1>7. /\ Runs' + Cardinality(Holders("source")') <= Claims("source")'
      /\ delegated' + Cardinality(Holders("sink")') <= Claims("sink")'
  BY <1>1, <1>2, <1>3, <1>4, <1>5, <1>6
<1> QED BY <1>7 DEF CountInv, Runs, Claims, Places

\* A thread that has a claim finds one that was not yet run.
LEMMA HolderClaims ==
    ASSUME IInv, NEW t \in Threads, At(t, "submit") \/ At(t, "run")
    PROVE  Arg(t) \in Nodes /\ \E i \in 1 .. Len(node[Arg(t)].line) : node[Arg(t)].line[i] = "claimed"
<1>1. Arg(t) \in Nodes BY AtFirst, StepShape DEF IInv, Kind, NodeKinds
<1>2. IsFiniteSet(Threads) BY ThreadsAssumption, FS_Singleton, FS_Union DEF Threads
<1>3. IsFiniteSet(Holders(Arg(t))) /\ t \in Holders(Arg(t))
  BY <1>2, FS_Subset DEF Holders
<1>4. Cardinality(Holders(Arg(t))) \in Nat /\ Cardinality(Holders(Arg(t))) # 0
  BY <1>3, FS_CardinalityType, FS_EmptySet
<1>5. Runs \in Nat /\ delegated \in Nat /\ Claims(Arg(t)) \in Nat BY <1>1, Counts DEF IInv
<1>6. Claims(Arg(t)) # 0
  BY <1>1, <1>4, <1>5 DEF IInv, CallsInv, CountInv, Runs, Claims, Nodes
<1>7. Places(node[Arg(t)].line, "claimed") # {} BY <1>6, FS_EmptySet DEF Claims
<1> QED BY <1>1, <1>7 DEF Places

\* Only the line of a node is changed.
LEMMA LineChange ==
    ASSUME TypeOK, NEW n \in Nodes, NEW l \in Seq(Entries), node' = [node EXCEPT ![n].line = l]
    PROVE  /\ node' \in [Nodes -> [opened : BOOLEAN, closeStarted : BOOLEAN, closed : BOOLEAN,
                                   line : Seq(Entries), flushing : BOOLEAN]]
           /\ \A m \in Nodes : /\ node'[m].opened = node[m].opened
                               /\ node'[m].closeStarted = node[m].closeStarted
                               /\ node'[m].closed = node[m].closed
                               /\ node'[m].flushing = node[m].flushing
                               /\ node'[m].line = IF m = n THEN l ELSE node[m].line
<1> DEFINE S == Seq(Entries)
<1>1. node \in [Nodes -> [opened : BOOLEAN, closeStarted : BOOLEAN, closed : BOOLEAN,
                          line : S, flushing : BOOLEAN]] /\ l \in S
  BY DEF TypeOK
<1> HIDE DEF S
<1>2. /\ node' \in [Nodes -> [opened : BOOLEAN, closeStarted : BOOLEAN, closed : BOOLEAN,
                              line : S, flushing : BOOLEAN]]
      /\ \A m \in Nodes : /\ node'[m].opened = node[m].opened
                          /\ node'[m].closeStarted = node[m].closeStarted
                          /\ node'[m].closed = node[m].closed
                          /\ node'[m].flushing = node[m].flushing
                          /\ node'[m].line = IF m = n THEN l ELSE node[m].line
  BY <1>1
<1> QED BY <1>2 DEF S

LEMMA ClaimStep ==
    ASSUME IInv, NEW t \in Threads, Claim(t)
    PROVE  IInv'
<1> DEFINE n == Arg(t)
           steps == <<<<"submit", n>>, <<"try", n>>>>
           l == Append(node[n].line, "claimed")
           claims == /\ node[n].opened /\ ~node[n].closeStarted
                     /\ Len(node[n].line) < Slots(n) /\ Ready(n)
<1>1. At(t, "claim") /\ "claim" \notin Loud BY DEF Claim, Loud
<1>2. TypeOK /\ ListsOK /\ ShapeInv /\ PhaseInv /\ CloseInv /\ CallsInv BY DEF IInv
<1>3. n \in Nodes BY <1>1, <1>2, AtFirst, StepShape DEF Kind, NodeKinds
<1>4. CASE ~claims
  <2>1. Go(t, <<>>) /\ UNCHANGED <<node, inFlight, sink>> BY <1>4 DEF Claim
  <2>2. SameState(t) BY <2>1, Untouched DEF Claim
  <2> QED BY <1>1, <2>1, <2>2, QuietDrop
<1>5. CASE claims
  <2>1. ~Asleep
    <3>1. CASE t \in Workers BY <1>1, <3>1, WorkerAwake DEF AfterTask
    <3>2. CASE t = Host
      <4>1. ~Has(Host, "initialized") BY <1>1, <3>2, ResetFirst
      <4>2. state = "Initialized" => n = "sink" /\ sink.backlog = 0
        BY <1>1, <1>2, <3>2, HeadCalm DEF Calm, Arg, PhaseInv, FreshInv, Fresh
      <4>3. ~(n = "sink" /\ sink.backlog = 0) BY <1>5 DEF Ready
      <4> QED BY <4>1, <4>2, <4>3 DEF Asleep
    <3> QED BY <3>1, <3>2 DEF Threads
  <2>2. state \in Live
    <3>1. Host \in Threads BY DEF Threads
    <3>2. ~At(Host, "initialized") BY <1>2, <2>1, <3>1, HasNow DEF Asleep
    <3>3. state # "Terminated" BY <1>2, <1>3, <1>5, <3>2 DEF CloseInv, TermInv
    <3> QED BY <1>2, <2>1, <3>3 DEF TypeOK, Asleep, Live
  <2>3. node[n].line \in Seq(Entries) /\ "claimed" \in Entries BY <1>2, <1>3 DEF TypeOK, Entries
  <2>4. /\ l \in Seq(Entries) /\ Len(l) = Len(node[n].line) + 1
        /\ \A i \in 1 .. Len(node[n].line) : l[i] = node[n].line[i] /\ i \in 1 .. Len(l)
    <3> HIDE DEF n
    <3>1. Len(node[n].line) \in Nat BY <2>3, LenProperties
    <3> QED BY <2>3, <3>1, AppendProperties
  <2>5. node' = [node EXCEPT ![n].line = l] /\ Go(t, steps)
    BY <1>2, <1>3, <1>5 DEF Claim, TypeOK
  <2> HIDE DEF l
  <2>6. /\ node' \in [Nodes -> [opened : BOOLEAN, closeStarted : BOOLEAN, closed : BOOLEAN,
                                line : Seq(Entries), flushing : BOOLEAN]]
        /\ \A m \in Nodes : /\ node'[m].opened = node[m].opened
                            /\ node'[m].closeStarted = node[m].closeStarted
                            /\ node'[m].closed = node[m].closed
                            /\ node'[m].flushing = node[m].flushing
                            /\ node'[m].line = IF m = n THEN l ELSE node[m].line
    BY <1>2, <1>3, <2>4, <2>5, LineChange
  <2>7. TypeOK'
    <3>1. sink' \in [backlog : Nat, inputClosed : BOOLEAN]
      <4>1. n = "sink" => sink.backlog > 0 BY <1>5 DEF Ready
      <4>2. sink.backlog > 0 => sink.backlog - 1 \in Nat BY <1>2 DEF TypeOK
      <4>3. sink' = IF n = "sink" THEN [sink EXCEPT !.backlog = sink.backlog - 1] ELSE sink
        BY <1>5 DEF Claim
      <4> QED BY <1>2, <4>1, <4>2, <4>3 DEF TypeOK
    <3>2. inFlight' \in Int BY <1>2, <1>5 DEF Claim, TypeOK
    <3> QED BY <1>2, <2>6, <3>1, <3>2 DEF Claim, TypeOK
  <2>8. steps \in Seq(Steps) /\ Len(steps) = 2 /\ steps[1] = <<"submit", n>> /\ steps[2] = <<"try", n>>
    <3>1. <<"submit", n>> \in Steps /\ <<"try", n>> \in Steps BY <1>3, StepForms DEF NodeKinds
    <3> QED BY <3>1, Lists
  <2> HIDE DEF steps
  <2>9. Advances(t, steps, Len(todo[t]) - 1) /\ Len(todo[t]) >= 1 /\ Kind(t, 1) = "claim"
    BY <1>1, <1>2, <2>5, <2>8, GoAdvances
  <2>10. \A i \in 1 .. Len(steps) :
            steps[i][1] \in {"submit", "try"} /\ (steps[i][1] = "submit" => i = 1)
    BY <2>8
  <2>11. UNCHANGED <<state, pool, delegated>> BY DEF Claim
  <2>12. ListsOK' /\ ShapeInv' /\ PhaseInv' /\ CloseInv' /\ PoolInv'
    BY <2>1, <2>6, <2>9, <2>10, <2>11, BusyStep DEF CallKinds, FrontKinds
  <2>13. LineInv' /\ CallInv' /\ FlushInv'
    <3>1. ASSUME NEW m \in Nodes, FirstEmitted(node[m].line) PROVE FirstEmitted(node'[m].line)
      <4>1. CASE m # n BY <2>6, <3>1, <4>1
      <4>2. CASE m = n
        <5>1. 1 \in 1 .. Len(node[n].line)
          BY <2>3, <3>1, <4>2, EmptySeq, LenProperties DEF FirstEmitted
        <5>2. FirstEmitted(l) BY <2>4, <3>1, <4>2, <5>1, EmptySeq DEF FirstEmitted
        <5> QED BY <2>6, <4>2, <5>2
      <4> QED BY <4>1, <4>2
    <3>2. ASSUME NEW m \in Nodes, NEW u, InLine(node[m].line, u) PROVE InLine(node'[m].line, u)
      BY <2>4, <2>6, <3>2 DEF InLine
    <3>3. steps[1][1] = "submit" BY <2>8
    <3> HIDE DEF n
    <3> QED BY <1>2, <1>5, <2>2, <2>6, <2>9, <2>10, <2>11, <3>1, <3>2, <3>3, EntriesStep
  <2>14. CountInv'
    <3>1. ASSUME NEW m \in Nodes
          PROVE  /\ Claims(m)' = Claims(m) + Gain(steps, m) /\ Claims(m) \in Nat
                 /\ Loss(t, m) = 0 /\ Gain(steps, m) \in {0, 1}
      <4>1. Gain(steps, m) = IF m = n THEN 1 ELSE 0 BY <2>8 DEF Gain
      <4>2. Loss(t, m) = 0 BY <1>1 DEF Loss, At
      <4>3. Claims(m) \in Nat BY <1>2, Counts
      <4>4. Claims(m)' = Cardinality(Places(node'[m].line, "claimed")) BY DEF Claims, Places
      <4>5. CASE m = n
        <5> HIDE DEF n
        <5> QED BY <2>3, <2>6, <4>1, <4>2, <4>3, <4>4, <4>5, PlacesAppend DEF Claims, l
      <4>6. CASE m # n BY <2>6, <4>1, <4>2, <4>3, <4>4, <4>6 DEF Claims
      <4> QED BY <4>5, <4>6
    <3>2. "source" \in Nodes /\ "sink" \in Nodes BY DEF Nodes
    <3>3. Runs' = Runs BY <2>11 DEF Runs, Places
    <3>4. Runs \in Nat /\ delegated \in Nat BY <1>2, Counts
    <3> QED BY <2>7, <2>9, <2>11, <3>1, <3>2, <3>3, <3>4, CountStep
  <2> QED BY <2>7, <2>12, <2>13, <2>14 DEF IInv, CallsInv
<1> QED BY <1>4, <1>5

\* A step of a call that leaves the nodes alone.
LEMMA BusyMove ==
    ASSUME IInv, TypeOK', NEW t \in Threads, NEW k \in CallKinds \ {"flush", "release"}, At(t, k),
           ~Asleep, NEW steps \in Seq(Steps), Go(t, steps), UNCHANGED <<state, node>>,
           \A i \in 1 .. Len(steps) :
               /\ steps[i][1] \notin {"open", "running", "renew", "initialized", "closing", "idle?", "join",
                                      "drop", "freed", "completed", "flush", "release", "process"}
               /\ steps[i][1] \in FrontKinds => i = 1
               /\ steps[i][1] = "land" => k = "process" /\ steps[i][2] = Arg(t),
           pool'.running = pool.running, pool'.workers = pool.workers,
           pool'.started = pool.started, pool'.exited = pool.exited,
           Runs' + Gain(steps, "source") <= Runs + Loss(t, "source"),
           delegated' + Gain(steps, "sink") <= delegated + Loss(t, "sink")
    PROVE  IInv'
<1>1. TypeOK /\ ListsOK /\ ShapeInv /\ CallsInv BY DEF IInv
<1>2. /\ Advances(t, steps, Len(todo[t]) - 1) /\ Len(todo[t]) \in Nat /\ Len(todo[t]) >= 1
      /\ Kind(t, 1) = k
  BY <1>1, GoAdvances
<1>3. Len(steps) >= 1 => 1 \in 1 .. Len(steps) BY LenProperties
<1>4. ListsOK' /\ ShapeInv' /\ PhaseInv' /\ CloseInv' /\ PoolInv' BY <1>2, BusyStep
<1>5. LineInv' /\ CallInv' /\ FlushInv'
  <2>1. Len(steps) >= 1 /\ steps[1][1] \in {"process", "land"} => InLine(node'[steps[1][2]].line, t)
    BY <1>1, <1>3 DEF CallsInv, CallInv, InLine
  <2>2. \A i \in 1 .. Len(steps) : steps[i][1] \notin {"flush", "release"} OBVIOUS
  <2>3. Kind(t, 1) \notin {"flush", "release"} BY <1>2
  <2> QED BY <1>1, <1>2, <2>1, <2>2, <2>3, EntriesStep
<1>6. CountInv'
  <2>1. "source" \in Nodes /\ "sink" \in Nodes BY DEF Nodes
  <2>2. /\ Claims("source")' = Claims("source") /\ Claims("sink")' = Claims("sink")
        /\ Claims("source") \in Nat /\ Claims("sink") \in Nat
    BY <1>1, <2>1, Counts DEF Claims, Places
  <2>3. Runs \in Nat /\ Runs' \in Nat /\ delegated \in Nat /\ delegated' \in Nat
    BY <1>1, Counts, CountsNext
  <2>4. \A n : Loss(t, n) \in {0, 1} /\ Gain(steps, n) \in {0, 1} BY DEF Loss, Gain
  <2> QED BY <1>2, <2>2, <2>3, <2>4, CountStep
<1> QED BY <1>4, <1>5, <1>6 DEF IInv, CallsInv

\* A step that pushes nothing, or a wakeup of the host, gains no claim.
LEMMA NeutralGain ==
    ASSUME NEW steps, NeutralList(steps)
    PROVE  \A n : Gain(steps, n) = 0
<1>1. Len(steps) \in Nat BY LenProperties DEF NeutralList
<1>2. Len(steps) >= 1 => 1 \in 1 .. Len(steps) BY <1>1
<1>3. Len(steps) >= 1 => steps[1][1] \notin {"submit", "run"} BY <1>2, NeutralSteps DEF Loud
<1> QED BY <1>3 DEF Gain

LEMMA SubmitStep ==
    ASSUME IInv, NEW t \in Threads, Submit(t)
    PROVE  IInv'
<1>1. At(t, "submit") /\ "submit" \in CallKinds BY DEF Submit, CallKinds
<1>2. TypeOK /\ ~Asleep BY <1>1, Awake DEF IInv
<1>3. Arg(t) \in Nodes BY <1>1, HolderClaims
<1>4. PICK steps : NeutralList(steps) /\ Go(t, steps) /\ (Arg(t) = "sink" => steps = RequestWakeup)
  BY NeutralLists, NeutralNil DEF Submit
<1>5. steps \in Seq(Steps) BY <1>4 DEF NeutralList
<1>6. \A i \in 1 .. Len(steps) : steps[i][1] \notin Loud BY <1>4, NeutralSteps
<1>7. \A n : Gain(steps, n) = 0 BY <1>4, NeutralGain
<1>8. \A n : Loss(t, n) = IF Arg(t) = n THEN 1 ELSE 0 BY <1>1 DEF Loss
<1>9. Runs \in Nat /\ delegated \in Nat BY <1>2, Counts
<1>10. /\ TypeOK' /\ UNCHANGED <<state, node>>
       /\ pool'.running = pool.running /\ pool'.workers = pool.workers
       /\ pool'.started = pool.started /\ pool'.exited = pool.exited
       /\ Runs' <= Runs + Loss(t, "source")
       /\ delegated' <= delegated + Loss(t, "sink")
  <2>1. CASE Arg(t) = "sink"
    <3>1. delegated' = delegated + 1 /\ UNCHANGED <<pool, inFlight>> BY <2>1 DEF Submit, Delegate
    <3>2. UNCHANGED <<state, shared, node, source, sink>> BY DEF Submit
    <3>3. TypeOK' BY <3>1, <3>2, <1>2, <1>9 DEF TypeOK
    <3>4. Runs' = Runs BY <3>1 DEF Runs, Places
    <3>5. Loss(t, "sink") = 1 /\ Loss(t, "source") = 0 BY <2>1, <1>8
    <3> QED BY <3>1, <3>2, <3>3, <3>4, <3>5, <1>9
  <2>2. CASE Arg(t) = "source" /\ pool.stop
    <3>1. inFlight' = inFlight - 1 /\ UNCHANGED <<pool, delegated>> BY <2>2 DEF Submit
    <3>2. TypeOK' BY <3>1, <1>2 DEF Submit, TypeOK
    <3>3. Runs' = Runs BY <3>1 DEF Runs, Places
    <3> QED BY <2>2, <3>1, <3>2, <3>3, <1>8, <1>9 DEF Submit
  <2>3. CASE Arg(t) = "source" /\ ~pool.stop
    <3>1. /\ pool' = [pool EXCEPT !.ready = Append(pool.ready, RunTask)]
          /\ UNCHANGED <<inFlight, delegated>>
      BY <1>2, <2>3 DEF Submit, Enqueued, TypeOK
    <3>2. pool.ready \in Seq(Nat) /\ RunTask \in Nat BY <1>2 DEF TypeOK, RunTask
    <3>3. Append(pool.ready, RunTask) \in Seq(Nat) BY <3>2, AppendProperties
    <3>4. /\ pool'.ready = Append(pool.ready, RunTask) /\ pool'.running = pool.running
          /\ pool'.workers = pool.workers /\ pool'.started = pool.started
          /\ pool'.exited = pool.exited
      BY <1>2, <3>1 DEF TypeOK
    <3>5. Runs' = Runs + 1
      <4>1. Cardinality(Places(Append(pool.ready, RunTask), RunTask)) = Runs + 1
        BY <3>2, PlacesAppend DEF Runs
      <4> QED BY <3>4, <4>1, CountsNext
    <3>6. TypeOK' BY <1>2, <3>1, <3>3 DEF Submit, TypeOK
    <3> QED BY <2>3, <3>1, <3>4, <3>5, <3>6, <1>8, <1>9 DEF Submit
  <2> QED BY <1>3, <2>1, <2>2, <2>3 DEF Nodes
<1>11. /\ \A i \in 1 .. Len(steps) :
               /\ steps[i][1] \notin {"open", "running", "renew", "initialized", "closing", "idle?", "join",
                                      "drop", "freed", "completed", "flush", "release", "process"}
               /\ steps[i][1] \notin FrontKinds /\ steps[i][1] # "land"
  BY <1>6 DEF Loud, FrontKinds
<1>12. /\ Runs' + Gain(steps, "source") <= Runs + Loss(t, "source")
       /\ delegated' + Gain(steps, "sink") <= delegated + Loss(t, "sink")
  <2>1. Runs' \in Nat /\ delegated' \in Nat BY <1>10, CountsNext
  <2> QED BY <1>7, <1>10, <2>1
<1> QED BY <1>1, <1>2, <1>4, <1>5, <1>10, <1>11, <1>12, BusyMove

\* A call that returns keeps its place in the line.
LEMMA ReturnStep ==
    ASSUME IInv, NEW t \in Threads, Fail(t) \/ (t \in Workers /\ (Return(t) \/ LastReturn(t)))
                                            \/ (t = Host /\ SinkReturn)
    PROVE  IInv'
<1>1. At(t, "process") /\ "process" \in CallKinds BY DEF Fail, Return, LastReturn, SinkReturn, CallKinds
<1>2. TypeOK /\ ListsOK /\ ~Asleep BY <1>1, Awake DEF IInv
<1>3. Arg(t) \in Nodes BY <1>1, <1>2, AtFirst, StepShape DEF Kind, NodeKinds
<1>4. PICK s \in Steps : s[1] = "land" /\ s[2] = Arg(t) /\ Go(t, <<s>>)
  <2>1. \A n \in Nodes, e \in {"landed", "emitted"} : <<"land", n, e>> \in Steps BY StepForms
  <2>2. CASE Fail(t) \/ (t = Host /\ SinkReturn) BY <1>3, <2>1, <2>2 DEF Fail, SinkReturn
  <2>3. CASE t \in Workers /\ (Return(t) \/ LastReturn(t))
    <3>1. Arg(t) = "source" BY <2>3 DEF Return, LastReturn
    <3>2. PICK e \in {"landed", "emitted"} : Go(t, <<<<"land", "source", e>>>>)
      BY <2>3 DEF Return, LastReturn
    <3> QED BY <1>3, <2>1, <3>1, <3>2
  <2> QED BY <2>2, <2>3
<1>5. <<s>> \in Seq(Steps) /\ \A i \in 1 .. Len(<<s>>) : i = 1 /\ <<s>>[i] = s BY Lists
<1>6. UNCHANGED <<state, node, pool, delegated, inFlight, sink>>
  BY DEF Fail, Return, LastReturn, SinkReturn
<1>7. TypeOK'
  <2>1. shared' \in [error : BOOLEAN, cancelled : BOOLEAN]
    BY <1>2 DEF TypeOK, Fail, Return, LastReturn, SinkReturn
  <2>2. source' \in [waiting : BOOLEAN, reschedule : BOOLEAN, done : BOOLEAN, generation : Nat]
    BY <1>2 DEF TypeOK, Fail, Return, LastReturn, SinkReturn
  <2> QED BY <1>2, <1>6, <2>1, <2>2 DEF TypeOK
<1>8. \A n : Gain(<<s>>, n) = 0 /\ Loss(t, n) = 0 BY <1>1, <1>4 DEF Gain, Loss, At
<1>9. Runs' = Runs /\ Runs \in Nat /\ delegated \in Nat BY <1>2, <1>6, Counts DEF Runs, Places
<1>10. /\ Runs' + Gain(<<s>>, "source") <= Runs + Loss(t, "source")
       /\ delegated' + Gain(<<s>>, "sink") <= delegated + Loss(t, "sink")
  BY <1>6, <1>8, <1>9
<1> QED BY <1>1, <1>2, <1>4, <1>5, <1>6, <1>7, <1>10, BusyMove

\* The host runs a task that was delegated, or looks whether it can close.
LEMMA TaskStep ==
    ASSUME IInv, Task
    PROVE  IInv'
<1>1. Host \in Threads /\ At(Host, "task") /\ "task" \in CallKinds /\ "task" \notin Loud \cup AfterTask
  BY DEF Task, CallKinds, Loud, AfterTask, Threads
<1>2. TypeOK /\ PhaseInv BY DEF IInv
<1>3. CASE delegated > 0
  <2>1. ~Asleep
    <3>1. ~Has(Host, "initialized") BY <1>1, ResetFirst
    <3>2. state # "Initialized" BY <1>2, <1>3 DEF PhaseInv, FreshInv, Fresh
    <3> QED BY <3>1, <3>2 DEF Asleep
  <2> DEFINE steps == <<<<"run", "sink">>, <<"retire">>>>
  <2>2. steps \in Seq(Steps) /\ Len(steps) = 2 /\ steps[1] = <<"run", "sink">> /\ steps[2] = <<"retire">>
    <3>1. <<"run", "sink">> \in Steps /\ <<"retire">> \in Steps
      BY StepForms DEF NodeKinds, PlainKinds, Nodes
    <3> QED BY <3>1, Lists
  <2>3. Go(Host, steps) /\ delegated' = delegated - 1 BY <1>3 DEF Task
  <2> HIDE DEF steps
  <2>4. \A i \in 1 .. Len(steps) : i \in {1, 2} /\ steps[i] \in {<<"run", "sink">>, <<"retire">>}
    <3>1. \A i \in 1 .. 2 : i = 1 \/ i = 2 OBVIOUS
    <3> QED BY <2>2, <3>1
  <2>5. \A i \in 1 .. Len(steps) :
               /\ steps[i][1] \notin {"open", "running", "renew", "initialized", "closing", "idle?", "join",
                                      "drop", "freed", "completed", "flush", "release", "process"}
               /\ steps[i][1] \in FrontKinds => i = 1
               /\ steps[i][1] # "land"
    BY <2>2, <2>4 DEF FrontKinds
  <2>6. delegated \in Nat /\ delegated' \in Nat /\ Runs \in Nat /\ Runs' = Runs
    BY <1>2, <1>3, <2>3, Counts DEF Task, Runs, Places
  <2>7. TypeOK' BY <1>2, <2>6 DEF Task, TypeOK
  <2>8. /\ Gain(steps, "source") = 0 /\ Gain(steps, "sink") = 1
        /\ Loss(Host, "source") = 0 /\ Loss(Host, "sink") = 0
    BY <2>2, <1>1 DEF Gain, Loss, At
  <2>9. UNCHANGED <<state, node, pool>> BY DEF Task
  <2> QED BY <1>1, <2>1, <2>2, <2>3, <2>5, <2>6, <2>7, <2>8, <2>9, BusyMove
<1>4. CASE ~(delegated > 0)
  <2>1. SameState(Host) BY <1>4, Untouched DEF Task
  <2> DEFINE a == <<<<"close?", "source">>>>
             b == <<<<"close?", "sink">>>>
             steps == a \o b
  <2>2. a \in Seq(Steps) /\ b \in Seq(Steps)
    <3>1. <<"close?", "source">> \in Steps /\ <<"close?", "sink">> \in Steps
      BY StepForms DEF NodeKinds, Nodes
    <3> QED BY <3>1, Lists
  <2>3. (\A j \in 1 .. Len(a) : a[j][1] = "close?") /\ (\A j \in 1 .. Len(b) : b[j][1] = "close?")
    OBVIOUS
  <2>4. Go(Host, steps) BY <1>4 DEF Task, MaybeClose
  <2> HIDE DEF a, b
  <2>5. steps \in Seq(Steps) /\ \A i \in 1 .. Len(steps) : steps[i][1] = "close?"
    BY <2>2, <2>3, Concats
  <2> HIDE DEF steps
  <2>6. \A i \in 1 .. Len(steps) : steps[i][1] \notin Loud /\ Calm(steps[i], Stopped')
    BY <2>5 DEF Loud, Calm, CalmKinds
  <2> QED BY <1>1, <2>1, <2>4, <2>5, <2>6, QuietGo
<1> QED BY <1>3, <1>4

LEMMA RetireStep ==
    ASSUME IInv, Retire
    PROVE  IInv'
<1>1. Host \in Threads /\ At(Host, "retire") /\ "retire" \in CallKinds
  BY DEF Retire, CallKinds, Threads
<1>2. TypeOK /\ ~Asleep BY <1>1, Awake DEF IInv
<1>3. <<>> \in Seq(Steps) /\ Len(<<>>) = 0 BY Lists
<1>4. \A i \in 1 .. Len(<<>>) : FALSE BY <1>3
<1>5. TypeOK' BY <1>2 DEF Retire, TypeOK
<1>6. Runs' = Runs /\ Runs \in Nat /\ delegated \in Nat BY <1>2, Counts DEF Retire, Runs, Places
<1>7. \A n : Gain(<<>>, n) = 0 /\ Loss(Host, n) = 0 BY <1>1, <1>3 DEF Gain, Loss, At
<1>8. Go(Host, <<>>) /\ UNCHANGED <<state, node, pool, delegated>> BY DEF Retire
<1>9. /\ Runs' + Gain(<<>>, "source") <= Runs + Loss(Host, "source")
      /\ delegated' + Gain(<<>>, "sink") <= delegated + Loss(Host, "sink")
  BY <1>6, <1>7, <1>8
<1> QED BY <1>1, <1>2, <1>3, <1>4, <1>5, <1>8, <1>9, BusyMove

---------------------------------------------------------------------------
(* The lines.                                                               *)

NatLess == {ss \in Nat \X Nat : ss[1] < ss[2]}

\* The first claim of a line that has one.
LEMMA FirstClaimedIs ==
    ASSUME TypeOK, NEW n \in Nodes, NEW k \in 1 .. Len(node[n].line), node[n].line[k] = "claimed"
    PROVE  /\ FirstClaimed(n) \in 1 .. Len(node[n].line)
           /\ node[n].line[FirstClaimed(n)] = "claimed"
<1> DEFINE l == node[n].line
           C == {i \in 1 .. Len(l) : l[i] = "claimed"}
<1>1. l \in Seq(Entries) BY DEF TypeOK
<1>2. DOMAIN l = 1 .. Len(l) /\ Len(l) \in Nat BY <1>1, LenProperties
<1>3. C \subseteq Nat /\ C # {} BY <1>2
<1>4. IsWellFoundedOn(NatLess, Nat) BY NatLessThanWellFounded, SMT DEF OpToRel, NatLess
<1>5. PICK i \in C : \A j \in C : <<j, i>> \notin NatLess
  <2> HIDE DEF C
  <2> QED BY <1>3, <1>4, WFMin, Zenon
<1>6. \A j \in 1 .. i - 1 : l[j] # "claimed"
  <2> SUFFICES ASSUME NEW j \in 1 .. i - 1, l[j] = "claimed" PROVE FALSE
    OBVIOUS
  <2>1. j \in C /\ i \in C /\ j \in Nat /\ i \in Nat /\ j < i BY <1>2, <1>5
  <2> QED BY <2>1, <1>5 DEF NatLess
<1>7. i \in DOMAIN l /\ l[i] = "claimed" BY <1>2, <1>5
<1> HIDE DEF C
<1>8. /\ FirstClaimed(n) \in DOMAIN l /\ l[FirstClaimed(n)] = "claimed"
  BY <1>6, <1>7 DEF FirstClaimed
<1> QED BY <1>2, <1>8

\* One entry of a line is changed.
Put(line, i, e) == [line EXCEPT ![i] = e]

LEMMA EntryChange ==
    ASSUME NEW line \in Seq(Entries), NEW i \in 1 .. Len(line), NEW e \in Entries,
           line[i] # "emitted"
    PROVE  /\ Put(line, i, e) \in Seq(Entries) /\ Len(Put(line, i, e)) = Len(line)
           /\ Put(line, i, e)[i] = e /\ line # <<>>
           /\ FirstEmitted(line) => FirstEmitted(Put(line, i, e))
           /\ \A u : u # line[i] /\ InLine(line, u) => InLine(Put(line, i, e), u)
<1> DEFINE l == Put(line, i, e)
<1>1. /\ l \in Seq(Entries) /\ Len(l) = Len(line)
      /\ \A j \in 1 .. Len(line) : l[j] = IF j = i THEN e ELSE line[j]
  BY ExceptSeq DEF Put
<1>2. Len(line) \in Nat /\ (line = <<>> <=> Len(line) = 0) BY EmptySeq, LenProperties
<1>3. l = <<>> <=> Len(l) = 0 BY <1>1, EmptySeq
<1> HIDE DEF l
<1>4. line # <<>> /\ l[i] = e BY <1>1, <1>2
<1>5. FirstEmitted(line) => FirstEmitted(l)
  <2>1. 1 \in 1 .. Len(line) BY <1>2
  <2> QED BY <2>1, <1>1, <1>2, <1>3 DEF FirstEmitted
<1>6. ASSUME NEW u, u # line[i], NEW j \in 1 .. Len(line), line[j] = u
      PROVE  \E k \in 1 .. Len(l) : l[k] = u
  BY <1>1, <1>6
<1> QED BY <1>1, <1>4, <1>5, <1>6 DEF l, InLine

LEMMA RunStep ==
    ASSUME IInv, NEW t \in Threads, Run(t)
    PROVE  IInv'
<1> DEFINE n == Arg(t)
           f == FirstClaimed(n)
           l == Put(node[n].line, f, t)
<1>1. At(t, "run") /\ "run" \in CallKinds BY DEF Run, CallKinds
<1>2. TypeOK /\ ListsOK /\ ShapeInv /\ CallsInv /\ ~Asleep BY <1>1, Awake DEF IInv
<1>3. n \in Nodes /\ \E k \in 1 .. Len(node[n].line) : node[n].line[k] = "claimed"
  BY <1>1, HolderClaims
<1>4. f \in 1 .. Len(node[n].line) /\ node[n].line[f] = "claimed"
  BY <1>2, <1>3, FirstClaimedIs
<1>5. node[n].line \in Seq(Entries) /\ t \in Entries BY <1>2, <1>3 DEF TypeOK, Entries
<1>6. "claimed" \notin Threads /\ t # "claimed" BY ThreadsAssumption
<1>7. node' = [node EXCEPT ![n].line = l] BY <1>2, <1>3 DEF Run, TypeOK, Put
<1>8. PICK s \in {<<"land", n, "landed">>, <<"process", n>>} : Go(t, <<s>>) BY DEF Run
<1> HIDE DEF n, f
<1>9. /\ l \in Seq(Entries) /\ Len(l) = Len(node[n].line) /\ l[f] = t /\ node[n].line # <<>>
      /\ FirstEmitted(node[n].line) => FirstEmitted(l)
      /\ \A u \in Threads \ {t} : InLine(node[n].line, u) => InLine(l, u)
  <2>1. node[n].line[f] # "emitted" /\ node[n].line[f] \notin Threads \ {t} BY <1>4, <1>6
  <2>2. l \in Seq(Entries) /\ Len(l) = Len(node[n].line) /\ l[f] = t
    BY <2>1, <1>4, <1>5, EntryChange
  <2>4. FirstEmitted(node[n].line) => FirstEmitted(l) BY <2>1, <1>4, <1>5, EntryChange
  <2>5. node[n].line # <<>> BY <2>1, <1>4, <1>5, EntryChange
  <2>3. \A u : u # node[n].line[f] /\ InLine(node[n].line, u) => InLine(l, u)
    BY <2>1, <1>4, <1>5, EntryChange
  <2> HIDE DEF l
  <2> QED BY <2>1, <2>2, <2>3, <2>4, <2>5
<1>10. Cardinality(Places(l, "claimed")) = Claims(n) - 1
  <2>1. Claims(n) \in Nat BY <1>2, <1>3, Counts
  <2>2. Cardinality(Places(l, "claimed")) =
            Cardinality(Places(node[n].line, "claimed")) + (IF t = "claimed" THEN 1 ELSE 0)
              - (IF node[n].line[f] = "claimed" THEN 1 ELSE 0)
    BY <1>4, <1>5, PlacesExcept DEF Put
  <2> QED BY <2>1, <2>2, <1>4, <1>6 DEF Claims
<1> HIDE DEF l
<1>11. /\ node' \in [Nodes -> [opened : BOOLEAN, closeStarted : BOOLEAN, closed : BOOLEAN,
                               line : Seq(Entries), flushing : BOOLEAN]]
       /\ \A m \in Nodes : /\ node'[m].opened = node[m].opened
                           /\ node'[m].closeStarted = node[m].closeStarted
                           /\ node'[m].closed = node[m].closed
                           /\ node'[m].flushing = node[m].flushing
                           /\ node'[m].line = IF m = n THEN l ELSE node[m].line
  BY <1>2, <1>3, <1>7, <1>9, LineChange
<1>12. UNCHANGED <<state, pool, delegated>> /\ TypeOK' BY <1>2, <1>11 DEF Run, TypeOK
<1>13. s \in Steps /\ s[1] \in {"land", "process"} /\ s[2] = n
  <2>1. s \in Steps BY <1>3, StepForms DEF NodeKinds
  <2> QED BY <2>1
<1>14. <<s>> \in Seq(Steps) /\ Len(<<s>>) = 1 /\ <<s>>[1] = s BY <1>13, Lists
<1>15. /\ Advances(t, <<s>>, Len(todo[t]) - 1) /\ Len(todo[t]) \in Nat /\ Len(todo[t]) >= 1
       /\ Kind(t, 1) = "run"
  BY <1>1, <1>2, <1>8, <1>14, GoAdvances
<1>16. \A i \in 1 .. Len(<<s>>) : i = 1 /\ <<s>>[i] = s BY <1>14
<1>17. ListsOK' /\ ShapeInv' /\ PhaseInv' /\ CloseInv' /\ PoolInv'
  BY <1>1, <1>2, <1>11, <1>12, <1>13, <1>15, <1>16, BusyStep
<1>18. LineInv' /\ CallInv' /\ FlushInv'
  <2>1. \A m \in Nodes : node[m].line = <<>> => node'[m].line = <<>> BY <1>9, <1>11
  <2>2. \A m \in Nodes : FirstEmitted(node[m].line) => FirstEmitted(node'[m].line) BY <1>9, <1>11
  <2>3. \A m \in Nodes, u \in Threads \ {t} : InLine(node[m].line, u) => InLine(node'[m].line, u)
    BY <1>9, <1>11
  <2>4. InLine(node'[n].line, t) BY <1>3, <1>4, <1>9, <1>11 DEF InLine
  <2> DEFINE steps == <<s>>
  <2>5. /\ Advances(t, steps, Len(todo[t]) - 1) /\ Kind(t, 1) \notin {"flush", "release"}
        /\ \A i \in 1 .. Len(steps) : steps[i][1] \notin {"flush", "release"}
        /\ InLine(node'[steps[1][2]].line, t)
    BY <1>13, <1>14, <1>15, <1>16, <2>4
  <2> HIDE DEF steps
  <2> QED BY <1>2, <1>11, <1>12, <2>1, <2>2, <2>3, <2>5, EntriesStep
<1>19. CountInv'
  <2>1. ASSUME NEW m \in Nodes
        PROVE  /\ Gain(<<s>>, m) = 0 /\ Claims(m) \in Nat
               /\ Claims(m)' = Claims(m) - Loss(t, m) /\ Loss(t, m) \in {0, 1}
    <3>1. Gain(<<s>>, m) = 0 BY <1>13, <1>14 DEF Gain
    <3>2. Loss(t, m) = IF m = n THEN 1 ELSE 0 BY <1>1 DEF Loss, n
    <3>3. Claims(m) \in Nat /\ Claims(m)' = Cardinality(Places(node'[m].line, "claimed"))
      BY <1>2, Counts, CountsNext
    <3>4. Claims(m)' = IF m = n THEN Claims(n) - 1 ELSE Claims(m) BY <1>10, <1>11, <3>3 DEF Claims
    <3> QED BY <3>1, <3>2, <3>3, <3>4
  <2>2. "source" \in Nodes /\ "sink" \in Nodes BY DEF Nodes
  <2>3. Runs' = Runs /\ Runs \in Nat /\ delegated \in Nat
    BY <1>2, <1>12, Counts DEF Runs, Places
  <2> QED BY <1>12, <1>15, <2>1, <2>2, <2>3, CountStep
<1> QED BY <1>12, <1>17, <1>18, <1>19 DEF IInv, CallsInv

\* The steps that follow a call.
LEMMA FinishSteps ==
    ASSUME NEW n \in Nodes
    PROVE  /\ Finish(n) \in Seq(Steps)
           /\ \A i \in 1 .. Len(Finish(n)) : Finish(n)[i][1] \in {"resume?", "try", "close?"}
<1> DEFINE K == {"resume?", "try", "close?"}
           OfK(s) == s \in Seq(Steps) /\ \A i \in 1 .. Len(s) : s[i][1] \in K
<1>1. ASSUME NEW k \in K PROVE OfK(<<<<k, n>>>>)
  <2>1. <<k, n>> \in Steps /\ <<k, n>>[1] = k BY StepForms DEF NodeKinds
  <2>2. <<<<k, n>>>> \in Seq(Steps) BY <2>1, Lists
  <2>3. \A i \in 1 .. Len(<<<<k, n>>>>) : <<<<k, n>>>>[i] = <<k, n>> OBVIOUS
  <2> QED BY <2>1, <2>2, <2>3
<1>2. OfK(<<>>)
  <2>1. <<>> \in Seq(Steps) /\ Len(<<>>) = 0 BY Lists
  <2>2. \A i \in 1 .. Len(<<>>) : FALSE BY <2>1
  <2> QED BY <2>1, <2>2
<1>3. ASSUME NEW s, NEW u, OfK(s), OfK(u) PROVE OfK(s \o u)
  <2> HIDE DEF K
  <2>1. s \in Seq(Steps) /\ u \in Seq(Steps) BY <1>3
  <2>2. s \o u \in Seq(Steps) BY <2>1, Concats
  <2>3. ASSUME NEW i \in 1 .. Len(s \o u) PROVE (s \o u)[i][1] \in K
    <3>1. \/ \E j \in 1 .. Len(s) : (s \o u)[i] = s[j]
          \/ \E j \in 1 .. Len(u) : (s \o u)[i] = u[j]
      BY <2>1, Concats
    <3> QED BY <3>1, <1>3
  <2> QED BY <2>2, <2>3
<1>4. OfK(<<<<"resume?", n>>>>) /\ OfK(<<<<"try", n>>>>) /\ OfK(<<<<"close?", n>>>>) BY <1>1
<1> HIDE DEF OfK
<1>5. OfK(IF n = "source" THEN <<<<"resume?", n>>>> ELSE <<>>) BY <1>2, <1>4
<1>6. OfK(Finish(n)) BY <1>3, <1>4, <1>5 DEF Finish, MaybeClose
<1> QED BY <1>6 DEF OfK

LEMMA LandStep ==
    ASSUME IInv, NEW t \in Threads, Land(t)
    PROVE  IInv'
<1> DEFINE n == Arg(t)
           e == Head(todo[t])[3]
           f == CHOOSE i \in DOMAIN node[n].line : node[n].line[i] = t
           l == Put(node[n].line, f, e)
           p == IF node[n].flushing THEN <<>> ELSE <<<<"flush", n>>>>
           steps == p \o Finish(n)
<1>1. At(t, "land") /\ "land" \in CallKinds BY DEF Land, CallKinds
<1>2. TypeOK /\ ListsOK /\ ShapeInv /\ CallsInv /\ ~Asleep BY <1>1, Awake DEF IInv
<1>3. n \in Nodes /\ e \in {"landed", "emitted"} BY <1>1, <1>2, AtFirst, StepShape DEF Kind
<1>4. f \in 1 .. Len(node[n].line) /\ node[n].line[f] = t
  <2>1. \E i \in 1 .. Len(node[n].line) : node[n].line[i] = t BY <1>1, <1>2 DEF CallsInv, CallInv
  <2>2. node[n].line \in Seq(Entries) BY <1>2, <1>3 DEF TypeOK
  <2>3. DOMAIN node[n].line = 1 .. Len(node[n].line) BY <2>2, LenProperties
  <2> QED BY <2>1, <2>3
<1>5. node[n].line \in Seq(Entries) /\ e \in Entries BY <1>2, <1>3 DEF TypeOK, Entries
<1>6. t \notin {"claimed", "landed", "emitted"} BY ThreadsAssumption
<1>7. node' = [node EXCEPT ![n].line = l, ![n].flushing = TRUE] /\ Go(t, steps)
  BY DEF Land, Put
<1>8. UNCHANGED <<state, pool, delegated, shared, source, sink, inFlight>> BY DEF Land
<1>9. node[n].line[f] # "emitted" BY <1>4, <1>6
<1>10. p \in Seq(Steps) /\ \A i \in 1 .. Len(p) : i = 1 /\ p[i] = <<"flush", n>> /\ ~node[n].flushing
  <2>1. <<"flush", n>> \in Steps BY <1>3, StepForms DEF NodeKinds
  <2>2. CASE node[n].flushing
    <3>1. p = <<>> BY <2>2
    <3>2. <<>> \in Seq(Steps) /\ \A i \in 1 .. Len(<<>>) : FALSE BY Lists
    <3> HIDE DEF p
    <3> QED BY <3>1, <3>2
  <2>3. CASE ~node[n].flushing
    <3>1. p = <<<<"flush", n>>>> BY <2>3
    <3>2. <<<<"flush", n>>>> \in Seq(Steps) BY <2>1, Lists
    <3>3. \A i \in 1 .. Len(<<<<"flush", n>>>>) : i = 1 /\ <<<<"flush", n>>>>[i] = <<"flush", n>>
      OBVIOUS
    <3> HIDE DEF p
    <3> QED BY <2>3, <3>1, <3>2, <3>3
  <2> QED BY <2>2, <2>3
<1> HIDE DEF n, e, f, p
<1>11. l \in Seq(Entries) /\ Len(l) = Len(node[n].line) /\ l[f] = e
  BY <1>4, <1>5, <1>9, EntryChange
<1>12. FirstEmitted(node[n].line) => FirstEmitted(l) BY <1>4, <1>5, <1>9, EntryChange
<1>13. node[n].line # <<>> BY <1>4, <1>5, <1>9, EntryChange
<1>14. \A u : u # node[n].line[f] /\ InLine(node[n].line, u) => InLine(l, u)
  BY <1>4, <1>5, <1>9, EntryChange
<1>15. Cardinality(Places(l, "claimed")) = Claims(n)
  <2>1. Claims(n) \in Nat BY <1>2, <1>3, Counts
  <2>2. Cardinality(Places(l, "claimed")) =
            Cardinality(Places(node[n].line, "claimed")) + (IF e = "claimed" THEN 1 ELSE 0)
              - (IF node[n].line[f] = "claimed" THEN 1 ELSE 0)
    BY <1>4, <1>5, PlacesExcept DEF Put
  <2>3. e # "claimed" /\ node[n].line[f] # "claimed" BY <1>3, <1>4, <1>6
  <2> QED BY <2>1, <2>2, <2>3 DEF Claims
<1> HIDE DEF l
<1>16. /\ node' \in [Nodes -> [opened : BOOLEAN, closeStarted : BOOLEAN, closed : BOOLEAN,
                               line : Seq(Entries), flushing : BOOLEAN]]
       /\ \A m \in Nodes : /\ node'[m].opened = node[m].opened
                           /\ node'[m].closeStarted = node[m].closeStarted
                           /\ node'[m].closed = node[m].closed
                           /\ node'[m].flushing = (node[m].flushing \/ m = n)
                           /\ node'[m].line = IF m = n THEN l ELSE node[m].line
  <2> DEFINE S == Seq(Entries)
  <2>1. node \in [Nodes -> [opened : BOOLEAN, closeStarted : BOOLEAN, closed : BOOLEAN,
                            line : S, flushing : BOOLEAN]] /\ l \in S
    BY <1>2, <1>11 DEF TypeOK
  <2> HIDE DEF S
  <2>2. /\ node' \in [Nodes -> [opened : BOOLEAN, closeStarted : BOOLEAN, closed : BOOLEAN,
                                line : S, flushing : BOOLEAN]]
        /\ \A m \in Nodes : /\ node'[m].opened = node[m].opened
                            /\ node'[m].closeStarted = node[m].closeStarted
                            /\ node'[m].closed = node[m].closed
                            /\ node'[m].flushing = IF m = n THEN TRUE ELSE node[m].flushing
                            /\ node'[m].line = IF m = n THEN l ELSE node[m].line
    BY <1>3, <1>7, <2>1
  <2>3. \A m \in Nodes : node[m].flushing \in BOOLEAN BY <2>1
  <2> QED BY <2>2, <2>3 DEF S
<1>17. TypeOK' BY <1>2, <1>8, <1>16 DEF TypeOK
<1>18. Finish(n) \in Seq(Steps) BY <1>3, FinishSteps
<1>19. steps \in Seq(Steps) BY <1>10, <1>18, Concats
<1>20. ASSUME NEW i \in 1 .. Len(steps)
       PROVE  \/ i = 1 /\ steps[i] = <<"flush", n>> /\ ~node[n].flushing
              \/ steps[i][1] \in {"resume?", "try", "close?"}
  <2>1. \/ \E j \in 1 .. Len(p) : i = j /\ steps[i] = p[j]
        \/ \E j \in 1 .. Len(Finish(n)) : steps[i] = Finish(n)[j]
    BY <1>10, <1>18, Concats
  <2> HIDE DEF steps
  <2> QED BY <2>1, <1>3, <1>10, FinishSteps
<1> HIDE DEF steps
<1>21. /\ Advances(t, steps, Len(todo[t]) - 1) /\ Len(todo[t]) \in Nat /\ Len(todo[t]) >= 1
       /\ Kind(t, 1) = "land" /\ Len(steps) \in Nat
  BY <1>1, <1>2, <1>7, <1>19, GoAdvances, LenProperties
<1>22. ASSUME NEW i \in 1 .. Len(steps) PROVE steps[i][1] \in {"flush", "resume?", "try", "close?"}
  <2>1. <<"flush", n>>[1] = "flush" OBVIOUS
  <2> QED BY <2>1, <1>20
<1>23. ListsOK' /\ ShapeInv' /\ PhaseInv' /\ CloseInv' /\ PoolInv'
  <2>1. \A i \in 1 .. Len(steps) :
               /\ steps[i][1] \notin {"open", "running", "renew", "initialized", "closing", "idle?", "join",
                                      "drop", "freed", "completed"}
               /\ steps[i][1] \in FrontKinds => i = 1
    BY <1>22 DEF FrontKinds
  <2> QED BY <1>1, <1>2, <1>8, <1>16, <1>21, <2>1, BusyStep
<1>24. LineInv' /\ CallInv'
  <2>1. \A m \in Nodes : node[m].line = <<>> => node'[m].line = <<>> BY <1>13, <1>16
  <2>2. \A m \in Nodes, u \in Threads \ {t} : InLine(node[m].line, u) => InLine(node'[m].line, u)
    BY <1>4, <1>14, <1>16
  <2>3. Len(steps) >= 1 => steps[1][1] \notin {"process", "land"}
    <3>1. Len(steps) >= 1 => 1 \in 1 .. Len(steps) BY <1>21
    <3> QED BY <3>1, <1>22
  <2> QED BY <1>2, <1>8, <1>16, <1>21, <2>1, <2>2, <2>3, LinesStep
<1>25. FlushInv'
  <2>1. ASSUME NEW m \in Nodes, NEW i \in 1 .. Len(steps), FlushOf(steps[i], m)
        PROVE  i = 1 /\ m = n /\ ~node[n].flushing /\ steps[i][1] # "release"
    <3>1. steps[i][1] \notin {"resume?", "try", "close?"} BY <2>1 DEF FlushOf
    <3>2. i = 1 /\ steps[i] = <<"flush", n>> /\ ~node[n].flushing BY <3>1, <1>20
    <3>3. <<"flush", n>>[1] = "flush" /\ <<"flush", n>>[2] = n OBVIOUS
    <3> QED BY <2>1, <3>2, <3>3 DEF FlushOf
  <2>2. \A m \in Nodes : FirstEmitted(node[m].line) => FirstEmitted(node'[m].line)
    BY <1>12, <1>16
  <2>3. FlushInv BY <1>2 DEF CallsInv
  <2> QED BY <1>2, <1>3, <1>16, <1>21, <2>1, <2>2, <2>3, FlushMove
<1>26. CountInv'
  <2>1. ASSUME NEW m \in Nodes
        PROVE  Gain(steps, m) = 0 /\ Claims(m) \in Nat /\ Claims(m)' = Claims(m) /\ Loss(t, m) = 0
    <3>1. Len(steps) >= 1 => 1 \in 1 .. Len(steps) BY <1>21
    <3>2. Gain(steps, m) = 0 BY <3>1, <1>22 DEF Gain
    <3>3. Loss(t, m) = 0 BY <1>1 DEF Loss, At
    <3>4. Claims(m) \in Nat /\ Claims(m)' = Cardinality(Places(node'[m].line, "claimed"))
      BY <1>2, Counts, CountsNext
    <3>5. Claims(m)' = Claims(m) BY <1>15, <1>16, <3>4 DEF Claims
    <3> QED BY <3>2, <3>3, <3>4, <3>5
  <2>2. "source" \in Nodes /\ "sink" \in Nodes BY DEF Nodes
  <2>3. Runs' = Runs /\ Runs \in Nat /\ delegated \in Nat
    BY <1>2, <1>8, Counts DEF Runs, Places
  <2>4. Runs' + Gain(steps, "source") + Claims("source") <= Runs + Loss(t, "source") + Claims("source")'
    BY <2>1, <2>2, <2>3
  <2>5. delegated' + Gain(steps, "sink") + Claims("sink") <= delegated + Loss(t, "sink") + Claims("sink")'
    BY <1>8, <2>1, <2>2, <2>3
  <2> QED BY <1>17, <1>21, <2>4, <2>5, CountStep
<1> QED BY <1>17, <1>23, <1>24, <1>25, <1>26 DEF IInv, CallsInv

\* Who flushes a node is alone with it.
LEMMA Flusher ==
    ASSUME IInv, NEW t \in Threads, NEW k \in {"flush", "release"}, At(t, k)
    PROVE  /\ Arg(t) \in Nodes /\ node[Arg(t)].flushing
           /\ \A n \in Nodes : Flushes(t, 1, n) <=> n = Arg(t)
           /\ \A u \in Threads, j \in Nat : Flushes(u, j, Arg(t)) => u = t /\ j = 1
           /\ k = "release" => FirstEmitted(node[Arg(t)].line)
<1>1. ListsOK /\ FlushInv BY DEF IInv, CallsInv
<1>2. /\ Len(todo[t]) \in Nat /\ Len(todo[t]) >= 1 /\ Kind(t, 1) = k
      /\ Arg(t) = todo[t][1][2] /\ todo[t][1] \in Steps
  BY <1>1, AtFirst
<1>3. Arg(t) \in Nodes BY <1>2, StepShape DEF Kind, NodeKinds
<1>4. 1 \in 1 .. Len(todo[t]) BY <1>2
<1>5. \A n \in Nodes : Flushes(t, 1, n) <=> n = Arg(t) BY <1>2, <1>4 DEF Flushes
<1>6. Flushes(t, 1, Arg(t)) BY <1>3, <1>5
<1> QED BY <1>1, <1>2, <1>3, <1>4, <1>5, <1>6 DEF FlushInv, FirstEmitted

\* An entry of a call that is over leaves the line.
LEMMA TailChange ==
    ASSUME IInv, NEW n \in Nodes, node[n].line # <<>>, node[n].line[1] \in {"landed", "emitted"}
    PROVE  /\ Tail(node[n].line) \in Seq(Entries)
           /\ Cardinality(Places(Tail(node[n].line), "claimed")) = Claims(n)
           /\ \A u \in Threads : InLine(node[n].line, u) => InLine(Tail(node[n].line), u)
<1> DEFINE l == node[n].line
<1>1. l \in Seq(Entries) /\ Claims(n) \in Nat BY Counts DEF IInv, TypeOK
<1>2. l # <<>> /\ l[1] \in {"landed", "emitted"} OBVIOUS
<1>3. Cardinality(Places(l, "claimed")) = Claims(n) BY DEF Claims
<1> HIDE DEF l
<1> HIDE DEF Entries
<1>4. /\ Tail(l) \in Seq(Entries) /\ Len(Tail(l)) = Len(l) - 1
      /\ \A i \in 1 .. Len(Tail(l)) : Tail(l)[i] = l[i + 1]
  BY <1>1, <1>2, HeadTailProperties
<1>5. Len(l) \in Nat BY <1>1, LenProperties
<1>6. Cardinality(Places(Tail(l), "claimed")) = Claims(n)
  <2>1. Cardinality(Places(Tail(l), "claimed")) =
            Cardinality(Places(l, "claimed")) - (IF l[1] = "claimed" THEN 1 ELSE 0)
    BY <1>1, <1>2, PlacesTail
  <2> QED BY <2>1, <1>1, <1>2, <1>3
<1>7. ASSUME NEW u \in Threads, InLine(l, u) PROVE InLine(Tail(l), u)
  <2>1. PICK i \in 1 .. Len(l) : l[i] = u BY <1>7 DEF InLine
  <2>2. u \notin {"landed", "emitted"} BY ThreadsAssumption
  <2>3. i # 1 BY <2>1, <2>2, <1>2
  <2>4. i - 1 \in 1 .. Len(Tail(l)) BY <2>3, <1>4, <1>5
  <2>5. Tail(l)[i - 1] = l[(i - 1) + 1] BY <2>4, <1>4
  <2>6. (i - 1) + 1 = i OBVIOUS
  <2> QED BY <2>1, <2>4, <2>5, <2>6 DEF InLine
<1> QED BY <1>4, <1>6, <1>7 DEF l

\* A release of the first entry of a line, by a thread that goes on or stays.
LEMMA LineTail ==
    ASSUME IInv, NEW n \in Nodes, node[n].line # <<>>, node[n].line[1] \in {"landed", "emitted"},
           node' = [node EXCEPT ![n].line = Tail(@)]
    PROVE  /\ node' \in [Nodes -> [opened : BOOLEAN, closeStarted : BOOLEAN, closed : BOOLEAN,
                                   line : Seq(Entries), flushing : BOOLEAN]]
           /\ \A m \in Nodes : /\ node'[m].opened = node[m].opened
                               /\ node'[m].closeStarted = node[m].closeStarted
                               /\ node'[m].closed = node[m].closed
                               /\ node'[m].flushing = node[m].flushing
                               /\ node'[m].line = IF m = n THEN Tail(node[n].line) ELSE node[m].line
           /\ \A m \in Nodes : node[m].line = <<>> => node'[m].line = <<>>
           /\ \A m \in Nodes, u \in Threads : InLine(node[m].line, u) => InLine(node'[m].line, u)
           /\ \A m \in Nodes : Claims(m)' = Claims(m) /\ Claims(m) \in Nat
<1> DEFINE l == Tail(node[n].line)
<1>1. TypeOK BY DEF IInv
<1>2. l \in Seq(Entries) /\ Cardinality(Places(l, "claimed")) = Claims(n) BY TailChange
<1>3. \A u \in Threads : InLine(node[n].line, u) => InLine(l, u) BY TailChange
<1>4. node' = [node EXCEPT ![n].line = l] BY <1>1 DEF TypeOK
<1> HIDE DEF l
<1>5. node' \in [Nodes -> [opened : BOOLEAN, closeStarted : BOOLEAN, closed : BOOLEAN,
                           line : Seq(Entries), flushing : BOOLEAN]]
  BY <1>1, <1>2, <1>4, LineChange
<1>6. \A m \in Nodes : /\ node'[m].opened = node[m].opened
                       /\ node'[m].closeStarted = node[m].closeStarted
                       /\ node'[m].closed = node[m].closed
                       /\ node'[m].flushing = node[m].flushing
                       /\ node'[m].line = IF m = n THEN l ELSE node[m].line
  BY <1>1, <1>2, <1>4, LineChange
<1>7. ASSUME NEW m \in Nodes PROVE Claims(m)' = Claims(m) /\ Claims(m) \in Nat
  <2>1. Claims(m) \in Nat /\ Claims(m)' = Cardinality(Places(node'[m].line, "claimed"))
    BY <1>1, Counts, CountsNext
  <2> QED BY <2>1, <1>2, <1>6 DEF Claims
<1> QED BY <1>3, <1>5, <1>6, <1>7 DEF l

\* The flusher drops what a call left without a packet, and goes on.
LEMMA FlushDrop ==
    ASSUME IInv, NEW t \in Threads, At(t, "flush"), node[Arg(t)].line # <<>>,
           node[Arg(t)].line[1] \in {"landed", "emitted"},
           node' = [node EXCEPT ![Arg(t)].line = Tail(@)], UNCHANGED todo,
           UNCHANGED <<state, shared, source, sink, inFlight, pool, delegated>>
    PROVE  IInv'
<1> DEFINE n == Arg(t)
<1>1. TypeOK /\ ListsOK /\ CallsInv BY DEF IInv
<1>2. n \in Nodes /\ \A u \in Threads, j \in Nat : Flushes(u, j, n) => u = t /\ j = 1
  BY Flusher
<1>3. /\ node' \in [Nodes -> [opened : BOOLEAN, closeStarted : BOOLEAN, closed : BOOLEAN,
                              line : Seq(Entries), flushing : BOOLEAN]]
      /\ \A m \in Nodes : /\ node'[m].opened = node[m].opened
                          /\ node'[m].closeStarted = node[m].closeStarted
                          /\ node'[m].closed = node[m].closed
                          /\ node'[m].flushing = node[m].flushing
                          /\ m # n => node'[m].line = node[m].line
  BY <1>2, LineTail
<1>4. /\ \A m \in Nodes : node[m].line = <<>> => node'[m].line = <<>>
      /\ \A m \in Nodes, u \in Threads : InLine(node[m].line, u) => InLine(node'[m].line, u)
      /\ \A m \in Nodes : Claims(m)' = Claims(m) /\ Claims(m) \in Nat
  BY <1>2, LineTail
<1>5. Kind(t, 1) = "flush" BY <1>1, AtFirst
<1> HIDE DEF n
<1>6. TypeOK' BY <1>1, <1>3 DEF TypeOK
<1>7. ListsOK' BY <1>1 DEF ListsOK
<1>8. ShapeInv' BY DEF IInv, ShapeInv, FrontInv, WorkerInv, DropInv, Kind
<1>9. PhaseInv'
  BY DEF IInv, PhaseInv, ResetInv, OpenInv, CalmInv, SleepInv, FreshInv, Asleep, Fresh, Has, Kind,
         At, Idle, Calm, Stopped
<1>10. CloseInv'
  <2>1. \A u \in Threads : \A k : At(u, k)' = At(u, k) /\ Arg(u)' = Arg(u) BY DEF At, Idle, Arg
  <2>2. Host \in Threads BY DEF Threads
  <2>3. TermInv' /\ ClosedInv' BY <1>3, <2>1, <2>2 DEF IInv, CloseInv, TermInv, ClosedInv
  <2>4. CloserInv'
    <3>1. \A u \in Threads : At(u, "closing") => Arg(u) \in Nodes
      BY <1>1, AtFirst, StepShape DEF Kind, NodeKinds
    <3> QED BY <1>3, <2>1, <3>1 DEF IInv, CloseInv, CloserInv
  <2>5. ClosingInv' BY <1>3, <2>1 DEF IInv, CloseInv, ClosingInv
  <2>6. LookInv' /\ FreedInv'
    BY <1>3, <2>1, <2>2 DEF IInv, CloseInv, LookInv, AllClosed, FreedInv
  <2> QED BY <2>3, <2>4, <2>5, <2>6 DEF CloseInv
<1>11. PoolInv'
  BY DEF IInv, PoolInv, AwayInv, JoinInv, RunningInv, Away, Joined, Has, Kind, At, Idle
<1>12. LineInv'
  BY <1>1, <1>3, <1>4 DEF CallsInv, LineInv
<1>13. CallInv'
  <2>1. \A u \in Threads : \A k : At(u, k)' = At(u, k) /\ Arg(u)' = Arg(u) BY DEF At, Idle, Arg
  <2>2. ASSUME NEW u \in Threads, At(u, "process") \/ At(u, "land")
        PROVE  InLine(node'[Arg(u)].line, u)
    <3>1. Arg(u) \in Nodes BY <2>2, <1>1, AtFirst, StepShape DEF Kind, NodeKinds
    <3>2. InLine(node[Arg(u)].line, u) BY <2>2, <1>1 DEF CallsInv, CallInv, InLine
    <3> QED BY <3>1, <3>2, <1>4
  <2> QED BY <2>1, <2>2 DEF CallInv, InLine
<1>14. CountInv'
  <2>1. Runs' = Runs /\ \A m : Holders(m)' = Holders(m)
    BY DEF Runs, Places, Holders, At, Idle, Arg
  <2>2. "source" \in Nodes /\ "sink" \in Nodes BY DEF Nodes
  <2>3. Claims("source")' = Claims("source") /\ Claims("sink")' = Claims("sink") BY <1>4, <2>2
  <2>4. CountInv <=> /\ Runs + Cardinality(Holders("source")) <= Claims("source")
                     /\ delegated + Cardinality(Holders("sink")) <= Claims("sink")
    BY DEF CountInv, Runs, Claims
  <2>5. CountInv' <=> /\ Runs' + Cardinality(Holders("source")') <= Claims("source")'
                      /\ delegated' + Cardinality(Holders("sink")') <= Claims("sink")'
    BY CountsNext DEF CountInv, Runs, Claims, Places
  <2> QED BY <1>1, <2>1, <2>3, <2>4, <2>5 DEF CallsInv
<1>15. FlushInv'
  <2>1. \A u, j, m : Flushes(u, j, m)' <=> Flushes(u, j, m) BY DEF Flushes, Kind
  <2>2. ASSUME NEW u \in Threads, NEW m \in Nodes, NEW i \in 1 .. Len(todo[u]), Flushes(u, i, m)
        PROVE  /\ node'[m].flushing
               /\ \A v \in Threads, j \in Nat : Flushes(v, j, m) => v = u /\ j = i
               /\ Kind(u, i) = "release" => node'[m].line # <<>> /\ node'[m].line[1] = "emitted"
    <3>1. /\ node[m].flushing
          /\ \A v \in Threads, j \in Nat : Flushes(v, j, m) => v = u /\ j = i
          /\ Kind(u, i) = "release" => node[m].line # <<>> /\ node[m].line[1] = "emitted"
      BY <2>2, <1>1 DEF CallsInv, FlushInv
    <3>2. m = n => u = t /\ i = 1
      <4>1. i \in Nat BY <1>1, AtFirst
      <4> QED BY <4>1, <2>2, <1>2
    <3> QED BY <3>1, <3>2, <1>3, <1>5
  <2> QED BY <2>1, <2>2 DEF FlushInv, Kind
<1> QED BY <1>6, <1>7, <1>8, <1>9, <1>10, <1>11, <1>12, <1>13, <1>14, <1>15 DEF IInv, CallsInv

\* The first entry has a packet, which is delivered before the entry leaves.
LEMMA FlushEmit ==
    ASSUME IInv, NEW t \in Threads, At(t, "flush"), FirstEmitted(node[Arg(t)].line),
           sink' \in [backlog : Nat, inputClosed : BOOLEAN],
           Go(t, <<<<"try", "sink">>, <<"release", Arg(t)>>>>),
           UNCHANGED <<state, shared, node, source, inFlight, pool, delegated>>
    PROVE  IInv'
<1> DEFINE n == Arg(t)
           a == <<"try", "sink">>
           b == <<"release", n>>
           steps == <<a, b>>
<1>1. TypeOK /\ ListsOK /\ ShapeInv /\ CallsInv /\ ~Asleep BY Awake DEF IInv, CallKinds
<1>2. /\ n \in Nodes /\ node[n].flushing /\ \A m \in Nodes : Flushes(t, 1, m) <=> m = n
  BY Flusher
<1>3. a \in Steps /\ b \in Steps /\ a[1] = "try" /\ b[1] = "release" /\ b[2] = n
  BY <1>2, StepForms DEF NodeKinds, Nodes
<1>4. steps \in Seq(Steps) /\ Len(steps) = 2 /\ steps[1] = a /\ steps[2] = b BY <1>3, Lists
<1>5. Go(t, steps) OBVIOUS
<1> HIDE DEF a, b, steps
<1>6. /\ Advances(t, steps, Len(todo[t]) - 1) /\ Len(todo[t]) \in Nat /\ Len(todo[t]) >= 1
      /\ Kind(t, 1) = "flush"
  BY <1>1, <1>4, <1>5, GoAdvances
<1>7. TypeOK' BY <1>1 DEF TypeOK
<1>8. \A i \in 1 .. Len(steps) : (i = 1 /\ steps[i] = a) \/ (i = 2 /\ steps[i] = b)
  <2>1. \A i \in 1 .. 2 : i = 1 \/ i = 2 OBVIOUS
  <2> QED BY <2>1, <1>4
<1>9. ListsOK' /\ ShapeInv' /\ PhaseInv' /\ CloseInv' /\ PoolInv'
  <2>1. \A i \in 1 .. Len(steps) : steps[i][1] \in {"try", "release"} BY <1>3, <1>8
  <2>2. \A i \in 1 .. Len(steps) :
               /\ steps[i][1] \notin {"open", "running", "renew", "initialized", "closing", "idle?", "join",
                                      "drop", "freed", "completed"}
               /\ steps[i][1] \in FrontKinds => i = 1
    BY <2>1 DEF FrontKinds
  <2> QED BY <1>1, <1>6, <2>2, BusyStep DEF CallKinds
<1>10. LineInv' /\ CallInv'
  <2>1. steps[1][1] \notin {"process", "land"} BY <1>3, <1>4
  <2> QED BY <1>1, <1>6, <2>1, LinesStep
<1>11. FlushInv'
  <2>1. ASSUME NEW m \in Nodes, NEW i \in 1 .. Len(steps), FlushOf(steps[i], m)
        PROVE  i = 2 /\ m = n
    BY <2>1, <1>3, <1>8 DEF FlushOf
  <2>2. FlushInv /\ FirstEmitted(node[n].line) BY <1>1 DEF CallsInv
  <2>3. \A m \in Nodes : node'[m].flushing = node[m].flushing /\ node'[m].line = node[m].line
    OBVIOUS
  <2> HIDE DEF n
  <2>4. \A m \in Nodes : \A j, k \in 1 .. Len(steps) :
            FlushOf(steps[j], m) /\ FlushOf(steps[k], m) => j = k
    BY <2>1
  <2>5. \A m \in Nodes : \A j \in 1 .. Len(steps) :
            FlushOf(steps[j], m) =>
                /\ node'[m].flushing /\ Flushes(t, 1, m)
                /\ FirstEmitted(node'[m].line)
    BY <2>1, <2>2, <2>3, <1>2
  <2> QED BY <1>1, <1>6, <2>2, <2>3, <2>4, <2>5, FlushMove
<1>12. CountInv'
  <2>1. \A m : Gain(steps, m) = 0 /\ Loss(t, m) = 0
    <3>1. steps[1][1] \notin {"submit", "run"} BY <1>3, <1>4
    <3> QED BY <3>1 DEF Gain, Loss, At
  <2>2. "source" \in Nodes /\ "sink" \in Nodes BY DEF Nodes
  <2>3. Runs \in Nat /\ delegated \in Nat /\ Claims("source") \in Nat /\ Claims("sink") \in Nat
    BY <1>1, <2>2, Counts
  <2>4. /\ Runs' = Runs /\ Claims("source")' = Claims("source") /\ Claims("sink")' = Claims("sink")
    BY DEF Runs, Claims, Places
  <2> QED BY <1>6, <1>7, <2>1, <2>3, <2>4, CountStep
<1> QED BY <1>7, <1>9, <1>10, <1>11, <1>12 DEF IInv, CallsInv

LEMMA FlushingChange ==
    ASSUME TypeOK, NEW n \in Nodes, node' = [node EXCEPT ![n].flushing = FALSE]
    PROVE  /\ node' \in [Nodes -> [opened : BOOLEAN, closeStarted : BOOLEAN, closed : BOOLEAN,
                                   line : Seq(Entries), flushing : BOOLEAN]]
           /\ \A m \in Nodes : /\ node'[m].opened = node[m].opened
                               /\ node'[m].closeStarted = node[m].closeStarted
                               /\ node'[m].closed = node[m].closed
                               /\ node'[m].line = node[m].line
                               /\ m # n => node'[m].flushing = node[m].flushing
<1> DEFINE S == Seq(Entries)
<1>1. node \in [Nodes -> [opened : BOOLEAN, closeStarted : BOOLEAN, closed : BOOLEAN,
                          line : S, flushing : BOOLEAN]]
  BY DEF TypeOK
<1> HIDE DEF S
<1>2. /\ node' \in [Nodes -> [opened : BOOLEAN, closeStarted : BOOLEAN, closed : BOOLEAN,
                              line : S, flushing : BOOLEAN]]
      /\ \A m \in Nodes : /\ node'[m].opened = node[m].opened
                          /\ node'[m].closeStarted = node[m].closeStarted
                          /\ node'[m].closed = node[m].closed
                          /\ node'[m].line = node[m].line
                          /\ m # n => node'[m].flushing = node[m].flushing
  BY <1>1
<1> QED BY <1>2 DEF S

\* Nothing is due any more: the next thread to land flushes.
LEMMA FlushEnd ==
    ASSUME IInv, NEW t \in Threads, At(t, "flush"), Go(t, <<>>),
           node' = [node EXCEPT ![Arg(t)].flushing = FALSE],
           UNCHANGED <<state, shared, source, sink, inFlight, pool, delegated>>
    PROVE  IInv'
<1> DEFINE n == Arg(t)
<1>1. TypeOK /\ ListsOK /\ ShapeInv /\ CallsInv /\ ~Asleep BY Awake DEF IInv, CallKinds
<1>2. n \in Nodes /\ \A m \in Nodes : Flushes(t, 1, m) <=> m = n BY Flusher
<1>3. <<>> \in Seq(Steps) /\ Len(<<>>) = 0 BY Lists
<1>4. /\ Advances(t, <<>>, Len(todo[t]) - 1) /\ Len(todo[t]) \in Nat /\ Len(todo[t]) >= 1
      /\ Kind(t, 1) = "flush"
  BY <1>1, <1>3, GoAdvances
<1> HIDE DEF n
<1>5. /\ node' \in [Nodes -> [opened : BOOLEAN, closeStarted : BOOLEAN, closed : BOOLEAN,
                              line : Seq(Entries), flushing : BOOLEAN]]
      /\ \A m \in Nodes : /\ node'[m].opened = node[m].opened
                          /\ node'[m].closeStarted = node[m].closeStarted
                          /\ node'[m].closed = node[m].closed
                          /\ node'[m].line = node[m].line
                          /\ m # n => node'[m].flushing = node[m].flushing
  <2>1. node' = [node EXCEPT ![n].flushing = FALSE] BY DEF n
  <2> QED BY <1>1, <1>2, <2>1, FlushingChange
<1>6. TypeOK' BY <1>1, <1>5 DEF TypeOK
<1>7. ListsOK' /\ ShapeInv' /\ PhaseInv' /\ CloseInv' /\ PoolInv'
  <2>1. \A i \in 1 .. Len(<<>>) : FALSE BY <1>3
  <2> QED BY <1>1, <1>4, <1>5, <2>1, BusyStep DEF CallKinds
<1>8. LineInv' /\ CallInv' BY <1>1, <1>3, <1>4, <1>5, LinesStep
<1>9. FlushInv'
  <2>1. \A i \in 1 .. Len(<<>>) : FALSE BY <1>3
  <2>2. FlushInv BY <1>1 DEF CallsInv
  <2>3. \A m \in Nodes : ~Flushes(t, 1, m) =>
            /\ node[m].flushing => node'[m].flushing
            /\ FirstEmitted(node[m].line) => FirstEmitted(node'[m].line)
    BY <1>2, <1>5
  <2> QED BY <1>1, <1>4, <2>1, <2>2, <2>3, FlushMove
<1>10. CountInv'
  <2>1. \A m : Gain(<<>>, m) = 0 /\ Loss(t, m) = 0 BY <1>3 DEF Gain, Loss, At
  <2>2. "source" \in Nodes /\ "sink" \in Nodes BY DEF Nodes
  <2>3. Runs \in Nat /\ delegated \in Nat /\ Claims("source") \in Nat /\ Claims("sink") \in Nat
    BY <1>1, <2>2, Counts
  <2>4. Claims("source")' = Claims("source") /\ Claims("sink")' = Claims("sink")
    BY <1>5, <2>2, CountsNext DEF Claims
  <2>5. Runs' = Runs BY DEF Runs, Places
  <2> QED BY <1>4, <1>6, <2>1, <2>3, <2>4, <2>5, CountStep
<1> QED BY <1>6, <1>7, <1>8, <1>9, <1>10 DEF IInv, CallsInv

LEMMA FlushingStep ==
    ASSUME IInv, NEW t \in Threads, Flush(t)
    PROVE  IInv'
<1> DEFINE n == Arg(t)
           l == node[n].line
           A == l # <<>> /\ l[1] = "emitted" /\ ~Stopped
           B == l # <<>> /\ (l[1] = "landed" \/ (l[1] = "emitted" /\ Stopped))
<1>1. At(t, "flush") /\ UNCHANGED <<state, shared, source, inFlight, pool, delegated>> BY DEF Flush
<1>2. CASE A
  <2>1. /\ sink' = [sink EXCEPT !.backlog = @ + 1]
        /\ Go(t, <<<<"try", "sink">>, <<"release", n>>>>) /\ UNCHANGED node
    BY <1>2 DEF Flush
  <2>2. FirstEmitted(l) BY <1>2 DEF FirstEmitted
  <2>3. sink \in [backlog : Nat, inputClosed : BOOLEAN] BY DEF IInv, TypeOK
  <2>4. sink' \in [backlog : Nat, inputClosed : BOOLEAN] BY <2>1, <2>3
  <2> QED BY <1>1, <2>1, <2>2, <2>4, FlushEmit
<1>3. CASE B /\ ~A
  <2>1. node' = [node EXCEPT ![n].line = Tail(@)] /\ UNCHANGED <<todo, sink>>
    BY <1>3 DEF Flush
  <2>2. l # <<>> /\ l[1] \in {"landed", "emitted"} BY <1>3
  <2> QED BY <1>1, <2>1, <2>2, FlushDrop
<1>4. CASE ~A /\ ~B
  <2>1. /\ node' = [node EXCEPT ![n].flushing = FALSE]
        /\ Go(t, <<>>) /\ UNCHANGED sink
    BY <1>4 DEF Flush
  <2> QED BY <1>1, <2>1, FlushEnd
<1> QED BY <1>2, <1>3, <1>4

LEMMA ReleaseStep ==
    ASSUME IInv, NEW t \in Threads, Release(t)
    PROVE  IInv'
<1> DEFINE n == Arg(t)
           a == <<"flush", n>>
           steps == <<a>>
<1>1. /\ At(t, "release") /\ Go(t, steps) /\ node' = [node EXCEPT ![n].line = Tail(@)]
      /\ UNCHANGED <<state, shared, source, sink, inFlight, pool, delegated>>
  BY DEF Release
<1>2. TypeOK /\ ListsOK /\ ShapeInv /\ CallsInv /\ ~Asleep BY <1>1, Awake DEF IInv, CallKinds
<1>3. /\ n \in Nodes /\ node[n].flushing /\ \A m \in Nodes : Flushes(t, 1, m) <=> m = n
      /\ node[n].line # <<>> /\ node[n].line[1] \in {"landed", "emitted"}
  BY <1>1, Flusher DEF FirstEmitted
<1>4. a \in Steps /\ a[1] = "flush" /\ a[2] = n BY <1>3, StepForms DEF NodeKinds
<1>5. steps \in Seq(Steps) /\ Len(steps) = 1 /\ steps[1] = a BY <1>4, Lists
<1>6. /\ node' \in [Nodes -> [opened : BOOLEAN, closeStarted : BOOLEAN, closed : BOOLEAN,
                              line : Seq(Entries), flushing : BOOLEAN]]
      /\ \A m \in Nodes : /\ node'[m].opened = node[m].opened
                          /\ node'[m].closeStarted = node[m].closeStarted
                          /\ node'[m].closed = node[m].closed
                          /\ node'[m].flushing = node[m].flushing
                          /\ m # n => node'[m].line = node[m].line
  BY <1>1, <1>3, LineTail
<1>7. /\ \A m \in Nodes : node[m].line = <<>> => node'[m].line = <<>>
      /\ \A m \in Nodes, u \in Threads : InLine(node[m].line, u) => InLine(node'[m].line, u)
      /\ \A m \in Nodes : Claims(m)' = Claims(m) /\ Claims(m) \in Nat
  BY <1>1, <1>3, LineTail
<1> HIDE DEF n, a, steps
<1>8. /\ Advances(t, steps, Len(todo[t]) - 1) /\ Len(todo[t]) \in Nat /\ Len(todo[t]) >= 1
      /\ Kind(t, 1) = "release"
  BY <1>1, <1>2, <1>5, GoAdvances
<1>9. TypeOK' BY <1>1, <1>2, <1>6 DEF TypeOK
<1>10. \A i \in 1 .. Len(steps) : i = 1 /\ steps[i] = a
  <2>1. \A i \in 1 .. 1 : i = 1 OBVIOUS
  <2> QED BY <2>1, <1>5
<1>11. ListsOK' /\ ShapeInv' /\ PhaseInv' /\ CloseInv' /\ PoolInv'
  <2>1. \A i \in 1 .. Len(steps) :
               /\ steps[i][1] \notin {"open", "running", "renew", "initialized", "closing", "idle?", "join",
                                      "drop", "freed", "completed"}
               /\ steps[i][1] \in FrontKinds => i = 1
    BY <1>4, <1>10
  <2> QED BY <1>1, <1>2, <1>6, <1>8, <2>1, BusyStep DEF CallKinds
<1>12. LineInv' /\ CallInv'
  <2>1. steps[1][1] \notin {"process", "land"} BY <1>4, <1>5
  <2> QED BY <1>1, <1>2, <1>6, <1>7, <1>8, <2>1, LinesStep
<1>13. FlushInv'
  <2>1. ASSUME NEW m \in Nodes, NEW i \in 1 .. Len(steps), FlushOf(steps[i], m)
        PROVE  i = 1 /\ m = n /\ steps[i][1] # "release"
    BY <2>1, <1>4, <1>10 DEF FlushOf
  <2>2. FlushInv BY <1>2 DEF CallsInv
  <2>3. \A m \in Nodes : \A j, k \in 1 .. Len(steps) :
            FlushOf(steps[j], m) /\ FlushOf(steps[k], m) => j = k
    BY <2>1
  <2>4. \A m \in Nodes : \A j \in 1 .. Len(steps) :
            FlushOf(steps[j], m) =>
                node'[m].flushing /\ Flushes(t, 1, m) /\ steps[j][1] # "release"
    BY <2>1, <1>3, <1>6
  <2>5. \A m \in Nodes : ~Flushes(t, 1, m) =>
            /\ node[m].flushing => node'[m].flushing
            /\ FirstEmitted(node[m].line) => FirstEmitted(node'[m].line)
    BY <1>3, <1>6
  <2> QED BY <1>2, <1>8, <2>2, <2>3, <2>4, <2>5, FlushMove
<1>14. CountInv'
  <2>1. \A m : Gain(steps, m) = 0 /\ Loss(t, m) = 0
    <3>1. steps[1][1] \notin {"submit", "run"} BY <1>4, <1>5
    <3> QED BY <3>1, <1>1 DEF Gain, Loss, At
  <2>2. "source" \in Nodes /\ "sink" \in Nodes BY DEF Nodes
  <2>3. Runs \in Nat /\ delegated \in Nat BY <1>2, Counts
  <2>4. Runs' = Runs /\ delegated' = delegated BY <1>1 DEF Runs, Places
  <2>5. /\ Claims("source") \in Nat /\ Claims("source")' = Claims("source")
        /\ Claims("sink") \in Nat /\ Claims("sink")' = Claims("sink")
    BY <1>7, <2>2
  <2> QED BY <1>8, <1>9, <2>1, <2>3, <2>4, <2>5, CountStep
<1> QED BY <1>9, <1>11, <1>12, <1>13, <1>14 DEF IInv, CallsInv

---------------------------------------------------------------------------
(* The close of a node.                                                     *)

\* Where the host is at the end of the graph, or of a reset, after a step.
LEMMA EndKept ==
    ASSUME ListsOK, ShapeInv, NEW t \in Threads, NEW steps, NEW r, Advances(t, steps, r),
           Len(todo[t]) >= 1 => Kind(t, 1) \notin {"initialized", "renew", "drop", "freed"},
           Len(steps) >= 1 => steps[1][1] \notin {"initialized", "freed"}
    PROVE  /\ At(Host, "freed")' <=> At(Host, "freed")
           /\ At(Host, "initialized") => At(Host, "initialized")'
<1>1. ListsOK' /\ Len(steps) \in Nat /\ Len(todo[t]) \in Nat BY Deeper
<1>2. Host \in Threads BY DEF Threads
<1>3. \A k : At(t, k) <=> Len(todo[t]) >= 1 /\ Kind(t, 1) = k BY AtFirst
<1>4. At(Host, "freed")' <=> At(Host, "freed")
  <2>1. CASE t # Host BY <2>1, <1>2, Views
  <2>2. CASE t = Host
    <3>1. ~At(t, "freed") BY <1>3
    <3>2. CASE Len(steps) >= 1 BY <2>2, <3>1, <3>2, Views
    <3>3. CASE Len(steps) = 0
      <4>1. Len(todo[t]) >= 2 => 2 \in 1 .. Len(todo[t]) BY <1>1
      <4>2. Len(todo[t]) >= 2 /\ Kind(t, 2) = "freed" => Kind(t, 2 - 1) = "drop"
        BY <2>2, <4>1 DEF ShapeInv, DropInv
      <4>3. ~(Len(todo[t]) >= 2 /\ Kind(t, 2) = "freed")
        <5>1. 2 - 1 = 1 OBVIOUS
        <5> QED BY <4>2, <5>1, <1>1
      <4> QED BY <2>2, <3>1, <3>3, <4>3, Views
    <3> QED BY <3>2, <3>3, <1>1
  <2> QED BY <2>1, <2>2
<1>5. At(Host, "initialized") => At(Host, "initialized")' BY <1>2, <1>3, Views
<1> QED BY <1>4, <1>5

\* What the close of a node leaves alone.
LEMMA ClosingFrame ==
    ASSUME IInv, NEW t \in Threads, NEW steps \in Seq(Steps), NEW k \in {"close", "closing"},
           At(t, k), Go(t, steps),
           \A i \in 1 .. Len(steps) : i = 1 /\ steps[i][1] \in {"closing", "end"},
           UNCHANGED <<state, source, inFlight, pool, delegated>>,
           Asleep /\ Stopped => Stopped',
           Fresh => sink'.backlog = 0 /\ sink'.inputClosed = sink.inputClosed,
           t = Host /\ state = "Initialized" => \A i \in 1 .. Len(steps) : Calm(steps[i], Stopped'),
           \A n \in Nodes :
               /\ node'[n].opened = node[n].opened /\ node'[n].line = node[n].line
               /\ node'[n].flushing = node[n].flushing
               /\ node[n].line # <<>> => node'[n].closeStarted = node[n].closeStarted
    PROVE  ListsOK' /\ ShapeInv' /\ PhaseInv' /\ PoolInv' /\ CallsInv'
<1>1. TypeOK /\ ListsOK /\ ShapeInv /\ PhaseInv /\ CloseInv /\ PoolInv /\ CallsInv BY DEF IInv
<1>2. /\ Advances(t, steps, Len(todo[t]) - 1) /\ Len(todo[t]) \in Nat /\ Len(todo[t]) >= 1
      /\ Kind(t, 1) = k
  BY <1>1, GoAdvances
<1>3. ListsOK' /\ ShapeInv'
  <2>1. \A i \in 1 .. Len(steps) : steps[i][1] \in FrontKinds => i = 1 OBVIOUS
  <2>2. EndsAdvance(t, steps) BY <1>2 DEF EndsAdvance
  <2>3. t \in Workers => WorkerAdvances(t, steps) BY <1>2 DEF WorkerAdvances, AfterTask
  <2> QED BY <1>1, <1>2, <2>1, <2>2, <2>3, ShapeStep
<1>4. PhaseInv'
  <2>1. Asleep => pool'.ready = <<>> /\ pool'.delayed = {} /\ pool'.running = 0 /\ inFlight' = 0
    BY <1>1 DEF PhaseInv, SleepInv
  <2>2. Fresh => delegated' = 0 /\ sink'.backlog = 0 /\ ~source'.waiting /\ ~source'.done
    BY <1>1 DEF PhaseInv, FreshInv
  <2>3. Kind(t, 1) \notin {"open", "running", "clear", "renew", "initialized"} \cup AfterTask
    BY <1>2 DEF AfterTask
  <2>4. \A i \in 1 .. Len(steps) : steps[i][1] \notin {"open", "renew", "initialized"} OBVIOUS
  <2>5. t \in Workers /\ Asleep =>
            Len(todo[t]) >= 1 /\ (Kind(t, 1) \in AfterTask => steps = <<>>)
    BY <1>2, <2>3
  <2>6. state' = state /\ (Fresh => sink'.inputClosed = sink.inputClosed) OBVIOUS
  <2> QED BY <1>1, <1>2, <2>1, <2>2, <2>3, <2>4, <2>5, <2>6, PhaseStep
<1>5. PoolInv'
  <2>1. \A i \in 1 .. Len(steps) : steps[i][1] # "completed" OBVIOUS
  <2>2. Len(steps) >= 1 => steps[1][1] \notin {"drop", "freed"}
    <3>1. Len(steps) >= 1 => 1 \in 1 .. Len(steps) BY LenProperties
    <3> QED BY <3>1
  <2>3. Kind(t, 1) \notin {"completed", "join"} BY <1>2
  <2>4. /\ pool'.running = pool.running /\ pool'.workers = pool.workers
        /\ pool'.started = pool.started /\ pool'.exited = pool.exited
    OBVIOUS
  <2> QED BY <1>1, <1>2, <2>1, <2>2, <2>3, <2>4, PoolStep
<1>6. CallsInv'
  <2>1. LineInv'
    <3> SUFFICES ASSUME NEW n \in Nodes, node'[n].line # <<>>
                 PROVE  node'[n].opened /\ ~node'[n].closeStarted /\ state' \in Live
      BY DEF LineInv
    <3> QED BY <1>1 DEF CallsInv, LineInv
  <2>2. \A i \in 1 .. Len(steps) :
            steps[i][1] \notin {"submit", "run", "process", "land", "flush", "release"}
    OBVIOUS
  <2>3. Kind(t, 1) \notin {"submit", "run", "process", "land", "flush", "release"} BY <1>2
  <2>4. Cardinality(Places(pool'.ready, RunTask)) = Cardinality(Places(pool.ready, RunTask))
    OBVIOUS
  <2>5. \A n \in Nodes : node'[n].line = node[n].line /\ node'[n].flushing = node[n].flushing
    OBVIOUS
  <2> QED BY <1>1, <1>2, <2>1, <2>2, <2>3, <2>4, <2>5, CallsStep
<1> QED BY <1>3, <1>4, <1>5, <1>6

LEMMA StartedChange ==
    ASSUME TypeOK, NEW n \in Nodes, node' = [node EXCEPT ![n].closeStarted = TRUE]
    PROVE  /\ node' \in [Nodes -> [opened : BOOLEAN, closeStarted : BOOLEAN, closed : BOOLEAN,
                                   line : Seq(Entries), flushing : BOOLEAN]]
           /\ \A m \in Nodes : /\ node'[m].opened = node[m].opened
                               /\ node'[m].line = node[m].line
                               /\ node'[m].flushing = node[m].flushing
                               /\ m # n => node'[m].closeStarted = node[m].closeStarted
                               /\ node'[m].closed = node[m].closed
           /\ node'[n].closeStarted = TRUE
<1> DEFINE S == Seq(Entries)
<1>1. node \in [Nodes -> [opened : BOOLEAN, closeStarted : BOOLEAN, closed : BOOLEAN,
                          line : S, flushing : BOOLEAN]]
  BY DEF TypeOK
<1> HIDE DEF S
<1>2. /\ node' \in [Nodes -> [opened : BOOLEAN, closeStarted : BOOLEAN, closed : BOOLEAN,
                              line : S, flushing : BOOLEAN]]
      /\ \A m \in Nodes : /\ node'[m].opened = node[m].opened
                          /\ node'[m].line = node[m].line
                          /\ node'[m].flushing = node[m].flushing
                          /\ m # n => node'[m].closeStarted = node[m].closeStarted
                          /\ node'[m].closed = node[m].closed
      /\ node'[n].closeStarted = TRUE
  BY <1>1
<1> QED BY <1>2 DEF S

LEMMA ClosedChange ==
    ASSUME TypeOK, NEW n \in Nodes, node' = [node EXCEPT ![n].closed = TRUE]
    PROVE  /\ node' \in [Nodes -> [opened : BOOLEAN, closeStarted : BOOLEAN, closed : BOOLEAN,
                                   line : Seq(Entries), flushing : BOOLEAN]]
           /\ \A m \in Nodes : /\ node'[m].opened = node[m].opened
                               /\ node'[m].line = node[m].line
                               /\ node'[m].flushing = node[m].flushing
                               /\ m # n => node'[m].closed = node[m].closed
                               /\ node'[m].closeStarted = node[m].closeStarted
           /\ node'[n].closed = TRUE
<1> DEFINE S == Seq(Entries)
<1>1. node \in [Nodes -> [opened : BOOLEAN, closeStarted : BOOLEAN, closed : BOOLEAN,
                          line : S, flushing : BOOLEAN]]
  BY DEF TypeOK
<1> HIDE DEF S
<1>2. /\ node' \in [Nodes -> [opened : BOOLEAN, closeStarted : BOOLEAN, closed : BOOLEAN,
                              line : S, flushing : BOOLEAN]]
      /\ \A m \in Nodes : /\ node'[m].opened = node[m].opened
                          /\ node'[m].line = node[m].line
                          /\ node'[m].flushing = node[m].flushing
                          /\ m # n => node'[m].closed = node[m].closed
                          /\ node'[m].closeStarted = node[m].closeStarted
      /\ node'[n].closed = TRUE
  BY <1>1
<1> QED BY <1>2 DEF S

\* A node is claimed for its close by one thread.
LEMMA CloseTaken ==
    ASSUME IInv, NEW t \in Threads, At(t, "close"), NEW n \in Nodes, n = Arg(t),
           ~node[n].closeStarted, node[n].line = <<>>, Head(todo[t])[3] \/ Drained(n),
           node' = [node EXCEPT ![n].closeStarted = TRUE],
           sink' \in [backlog : Nat, inputClosed : BOOLEAN],
           sink.backlog = 0 => sink'.backlog = 0, sink'.inputClosed = sink.inputClosed,
           Go(t, <<<<"closing", n>>>>),
           UNCHANGED <<state, shared, source, inFlight, pool, delegated>>
    PROVE  IInv'
<1> DEFINE s == <<"closing", n>>
           steps == <<s>>
<1>1. TypeOK /\ ListsOK /\ ShapeInv /\ PhaseInv /\ CloseInv BY DEF IInv
<1>2. s \in Steps /\ s[1] = "closing" /\ s[2] = n BY StepForms DEF NodeKinds
<1>3. steps \in Seq(Steps) /\ Len(steps) = 1 /\ steps[1] = s BY <1>2, Lists
<1>4. Go(t, steps) OBVIOUS
<1> HIDE DEF s, steps
<1>5. \A i \in 1 .. Len(steps) : i = 1 /\ steps[i] = s
  <2>1. \A i \in 1 .. 1 : i = 1 OBVIOUS
  <2> QED BY <2>1, <1>3
<1>6. /\ Advances(t, steps, Len(todo[t]) - 1) /\ Len(todo[t]) \in Nat /\ Len(todo[t]) >= 1
      /\ Kind(t, 1) = "close"
  BY <1>1, <1>3, <1>4, GoAdvances
<1>8. /\ node' \in [Nodes -> [opened : BOOLEAN, closeStarted : BOOLEAN, closed : BOOLEAN,
                              line : Seq(Entries), flushing : BOOLEAN]]
      /\ \A m \in Nodes : /\ node'[m].opened = node[m].opened
                          /\ node'[m].line = node[m].line
                          /\ node'[m].flushing = node[m].flushing
                          /\ m # n => node'[m].closeStarted = node[m].closeStarted
                          /\ node'[m].closed = node[m].closed
      /\ node'[n].closeStarted = TRUE
  BY <1>1, StartedChange
<1>9. TypeOK' BY <1>1, <1>8 DEF TypeOK
<1>10. Asleep => t = Host /\ state = "Initialized" /\ Stopped
  <2> SUFFICES ASSUME Asleep PROVE t = Host /\ state = "Initialized" /\ Stopped
    OBVIOUS
  <2>1. t = Host BY WorkerAwake DEF Threads, AfterTask
  <2>2. ~Has(Host, "initialized") BY <2>1, ResetFirst
  <2>3. state = "Initialized" BY <2>2 DEF Asleep
  <2>4. Calm(Head(todo[t]), Stopped) /\ Head(todo[t])[1] = "close" BY <2>1, <2>3, HeadCalm
  <2>5. ~Stopped => ~Drained(n)
    <3> SUFFICES ASSUME ~Stopped PROVE ~Drained(n)
      OBVIOUS
    <3>1. ~source.done /\ ~sink.inputClosed
      BY <1>1, <2>3 DEF PhaseInv, FreshInv, Fresh
    <3> QED BY <3>1 DEF Drained
  <2>6. ~Stopped => Head(todo[t])[3] = FALSE BY <2>4 DEF Calm
  <2> QED BY <2>1, <2>3, <2>5, <2>6
<1>11. Stopped' = Stopped BY DEF Stopped
<1>12. Fresh => Asleep
  <2>1. Host \in Threads BY DEF Threads
  <2> QED BY <1>1, <2>1, HasNow DEF Fresh, Asleep
<1>13. ListsOK' /\ ShapeInv' /\ PhaseInv' /\ PoolInv' /\ CallsInv'
  <2>1. \A i \in 1 .. Len(steps) : i = 1 /\ steps[i][1] \in {"closing", "end"} BY <1>2, <1>5
  <2>2. Fresh => sink'.backlog = 0 /\ sink'.inputClosed = sink.inputClosed
    BY <1>1 DEF PhaseInv, FreshInv
  <2>3. t = Host /\ state = "Initialized" => \A i \in 1 .. Len(steps) : Calm(steps[i], Stopped')
    <3> SUFFICES ASSUME state = "Initialized" PROVE \A i \in 1 .. Len(steps) : Calm(steps[i], Stopped')
      OBVIOUS
    <3>1. Stopped' BY <1>10, <1>11 DEF Asleep
    <3>2. Calm(s, Stopped') BY <1>2, <3>1 DEF Calm, CalmKinds
    <3> QED BY <3>2, <1>5
  <2>4. \A m \in Nodes :
               /\ node'[m].opened = node[m].opened /\ node'[m].line = node[m].line
               /\ node'[m].flushing = node[m].flushing
               /\ node[m].line # <<>> => node'[m].closeStarted = node[m].closeStarted
    BY <1>8
  <2>5. "close" \in {"close", "closing"} /\ (Asleep /\ Stopped => Stopped') BY <1>11
  <2> QED BY <1>3, <1>4, <2>1, <2>2, <2>3, <2>4, <2>5, ClosingFrame
<1>14. At(t, "closing")' /\ Arg(t)' = n /\ \A k : At(t, k)' <=> k = "closing"
  <2>1. Len(steps) >= 1 /\ steps[1][1] = "closing" /\ steps[1][2] = n BY <1>2, <1>3
  <2>2. Arg(t)' = steps[1][2] /\ \A k : At(t, k)' <=> steps[1][1] = k
    BY <2>1, <1>1, <1>6, Views
  <2> QED BY <2>1, <2>2
<1>15. /\ At(Host, "freed")' <=> At(Host, "freed")
       /\ At(Host, "initialized") => At(Host, "initialized")'
  BY <1>1, <1>2, <1>3, <1>6, EndKept
<1>16. \A u \in Threads \ {t} : \A k : (At(u, k)' <=> At(u, k)) /\ Arg(u)' = Arg(u)
  BY <1>1, <1>6, Views
<1>17. CloseInv'
  <2>1. TermInv'
    <3>1. state' = state OBVIOUS
    <3> QED BY <1>1, <1>8, <1>15, <3>1 DEF CloseInv, TermInv
  <2>2. ClosedInv' BY <1>1, <1>8, <1>15 DEF CloseInv, ClosedInv
  <2>3. CloserInv'
    <3> SUFFICES ASSUME NEW u \in Threads, At(u, "closing")' PROVE node'[Arg(u)'].closeStarted
      BY DEF CloserInv
    <3>1. CASE u = t BY <3>1, <1>8, <1>14
    <3>2. CASE u # t
      <4>1. At(u, "closing") /\ Arg(u)' = Arg(u) BY <3>2, <1>16
      <4>2. Arg(u) \in Nodes BY <1>1, <4>1, AtFirst, StepShape DEF Kind, NodeKinds
      <4>3. node[Arg(u)].closeStarted BY <1>1, <4>1 DEF CloseInv, CloserInv
      <4> QED BY <4>1, <4>2, <4>3, <1>8
    <3> QED BY <3>1, <3>2
  <2>4. ClosingInv'
    <3> SUFFICES ASSUME NEW m \in Nodes, node'[m].closeStarted, ~node'[m].closed
                 PROVE  \E u \in Threads : At(u, "closing")' /\ Arg(u)' = m
      BY DEF ClosingInv
    <3>1. CASE m = n BY <3>1, <1>14
    <3>2. CASE m # n
      <4>1. node[m].closeStarted /\ ~node[m].closed BY <3>2, <1>8
      <4>2. PICK u \in Threads : At(u, "closing") /\ Arg(u) = m
        BY <4>1, <1>1 DEF CloseInv, ClosingInv
      <4>3. u # t BY <4>2, <1>1, <1>6, AtFirst
      <4> QED BY <4>2, <4>3, <1>16
    <3> QED BY <3>1, <3>2
  <2>5. LookInv'
    <3> SUFFICES ASSUME At(Host, "idle?")' PROVE AllClosed'
      BY DEF LookInv
    <3>1. Host \in Threads /\ Host # t BY <1>14 DEF Threads
    <3>2. At(Host, "idle?") BY <3>1, <1>16
    <3> QED BY <3>2, <1>1, <1>8 DEF CloseInv, LookInv, AllClosed
  <2>6. FreedInv' BY <1>1, <1>8, <1>15 DEF CloseInv, FreedInv
  <2> QED BY <2>1, <2>2, <2>3, <2>4, <2>5, <2>6 DEF CloseInv
<1> QED BY <1>9, <1>13, <1>17 DEF IInv

LEMMA CloseClaimStep ==
    ASSUME IInv, NEW t \in Threads, CloseClaim(t)
    PROVE  IInv'
<1> DEFINE n == Arg(t)
           force == Head(todo[t])[3]
           free == /\ ~node[n].closeStarted /\ node[n].line = <<>> /\ node[n].opened
                   /\ force \/ Drained(n)
<1>1. At(t, "close") /\ UNCHANGED <<state, shared, source, inFlight, pool, delegated>>
  BY DEF CloseClaim
<1>2. TypeOK /\ ListsOK /\ PhaseInv BY DEF IInv
<1>3. n \in Nodes BY <1>1, <1>2, AtFirst, StepShape DEF Kind
<1>4. sink \in [backlog : Nat, inputClosed : BOOLEAN] BY <1>2 DEF TypeOK
<1>5. CASE free
  <2>1. /\ node' = [node EXCEPT ![n].closeStarted = TRUE]
        /\ sink' = IF force /\ n = "sink" THEN [sink EXCEPT !.backlog = 0] ELSE sink
        /\ Go(t, <<<<"closing", n>>>>)
    BY <1>5 DEF CloseClaim
  <2>2. /\ sink' \in [backlog : Nat, inputClosed : BOOLEAN]
        /\ sink.backlog = 0 => sink'.backlog = 0
        /\ sink'.inputClosed = sink.inputClosed
    BY <1>4, <2>1
  <2>3. ~node[n].closeStarted /\ node[n].line = <<>> /\ (force \/ Drained(n)) BY <1>5
  <2> HIDE DEF n
  <2>4. n = Arg(t) BY DEF n
  <2> QED BY <1>1, <1>3, <2>1, <2>2, <2>3, <2>4, CloseTaken
<1>6. CASE ~free
  <2>1. Go(t, <<>>) /\ UNCHANGED <<node, sink>> BY <1>6 DEF CloseClaim
  <2>2. TypeOK' BY <1>1, <1>2, <2>1 DEF TypeOK
  <2>3. UNCHANGED <<state, shared, node, source, sink, inFlight, pool, delegated>> BY <1>1, <2>1
  <2>4. SameState(t) BY <2>3, Untouched
  <2>5. "close" \notin Loud BY DEF Loud
  <2> QED BY <1>1, <2>1, <2>4, <2>5, QuietDrop
<1> QED BY <1>5, <1>6

LEMMA ClosingStep ==
    ASSUME IInv, NEW t \in Threads, Close(t)
    PROVE  IInv'
<1> DEFINE n == Arg(t)
           steps == IF n = "source" THEN <<<<"end">>>> ELSE <<>>
<1>1. /\ At(t, "closing") /\ Go(t, steps) /\ node' = [node EXCEPT ![n].closed = TRUE]
      /\ UNCHANGED <<state, source, sink, inFlight, pool, delegated>>
  BY DEF Close
<1>2. TypeOK /\ ListsOK /\ ShapeInv /\ PhaseInv /\ CloseInv BY DEF IInv
<1>3. n \in Nodes BY <1>1, <1>2, AtFirst, StepShape DEF Kind, NodeKinds
<1>4. shared' \in [error : BOOLEAN, cancelled : BOOLEAN] /\ (Stopped => Stopped')
  <2>1. PICK fails \in BOOLEAN : shared' = [shared EXCEPT !.error = @ \/ fails] BY DEF Close
  <2>2. shared \in [error : BOOLEAN, cancelled : BOOLEAN] BY <1>2 DEF TypeOK
  <2> QED BY <2>1, <2>2 DEF Stopped
<1>5. steps \in Seq(Steps) /\ \A i \in 1 .. Len(steps) : i = 1 /\ steps[i] = <<"end">>
  <2>1. CASE n = "source"
    <3>1. steps = <<<<"end">>>> BY <2>1
    <3>2. <<"end">> \in Steps BY StepForms DEF PlainKinds
    <3>3. <<<<"end">>>> \in Seq(Steps) BY <3>2, Lists
    <3>4. \A i \in 1 .. Len(<<<<"end">>>>) : i = 1 /\ <<<<"end">>>>[i] = <<"end">> OBVIOUS
    <3> HIDE DEF steps
    <3> QED BY <3>1, <3>3, <3>4
  <2>2. CASE n # "source"
    <3>1. steps = <<>> BY <2>2
    <3>2. <<>> \in Seq(Steps) /\ \A i \in 1 .. Len(<<>>) : FALSE BY Lists
    <3> HIDE DEF steps
    <3> QED BY <3>1, <3>2
  <2> QED BY <2>1, <2>2
<1> HIDE DEF n, steps
<1>6. /\ Advances(t, steps, Len(todo[t]) - 1) /\ Len(todo[t]) \in Nat /\ Len(todo[t]) >= 1
      /\ Kind(t, 1) = "closing" /\ Len(steps) \in Nat
  BY <1>1, <1>2, <1>5, GoAdvances, LenProperties
<1>7. /\ node' \in [Nodes -> [opened : BOOLEAN, closeStarted : BOOLEAN, closed : BOOLEAN,
                              line : Seq(Entries), flushing : BOOLEAN]]
      /\ \A m \in Nodes : /\ node'[m].opened = node[m].opened
                          /\ node'[m].line = node[m].line
                          /\ node'[m].flushing = node[m].flushing
                          /\ m # n => node'[m].closed = node[m].closed
                          /\ node'[m].closeStarted = node[m].closeStarted
      /\ node'[n].closed = TRUE
  BY <1>1, <1>2, <1>3, ClosedChange
<1>8. TypeOK' BY <1>1, <1>2, <1>4, <1>7 DEF TypeOK
<1>9. <<"end">>[1] = "end" OBVIOUS
<1>10. ListsOK' /\ ShapeInv' /\ PhaseInv' /\ PoolInv' /\ CallsInv'
  <2>1. \A i \in 1 .. Len(steps) : i = 1 /\ steps[i][1] \in {"closing", "end"} BY <1>5, <1>9
  <2>2. Fresh => sink'.backlog = 0 /\ sink'.inputClosed = sink.inputClosed
    BY <1>1, <1>2 DEF PhaseInv, FreshInv
  <2>3. t = Host /\ state = "Initialized" => \A i \in 1 .. Len(steps) : Calm(steps[i], Stopped')
    <3> SUFFICES ASSUME t = Host, state = "Initialized", NEW i \in 1 .. Len(steps)
                 PROVE  Calm(steps[i], Stopped')
      OBVIOUS
    <3>1. Calm(Head(todo[t]), Stopped) /\ Head(todo[t])[1] = "closing" BY <1>1, HeadCalm
    <3>2. Stopped' BY <3>1, <1>4 DEF Calm
    <3>3. Calm(<<"end">>, Stopped') BY <3>2, <1>9 DEF Calm, CalmKinds
    <3> QED BY <3>3, <1>5
  <2>4. \A m \in Nodes :
               /\ node'[m].opened = node[m].opened /\ node'[m].line = node[m].line
               /\ node'[m].flushing = node[m].flushing
               /\ node[m].line # <<>> => node'[m].closeStarted = node[m].closeStarted
    BY <1>7
  <2>5. "closing" \in {"close", "closing"} /\ (Asleep /\ Stopped => Stopped') BY <1>4
  <2> QED BY <1>1, <1>5, <2>1, <2>2, <2>3, <2>4, <2>5, ClosingFrame
<1>11. Len(steps) >= 1 => 1 \in 1 .. Len(steps) /\ steps[1][1] = "end" BY <1>5, <1>6, <1>9
<1>12. ~At(t, "closing")' /\ ~At(t, "idle?")'
  <2>1. "closing" \in FrontKinds /\ "idle?" \in FrontKinds BY DEF FrontKinds
  <2> QED BY <1>2, <1>6, <1>11, <2>1, Views
<1>13. /\ At(Host, "freed")' <=> At(Host, "freed")
       /\ At(Host, "initialized") => At(Host, "initialized")'
  BY <1>2, <1>6, <1>11, EndKept
<1>14. \A u \in Threads \ {t} : \A k : (At(u, k)' <=> At(u, k)) /\ Arg(u)' = Arg(u)
  BY <1>2, <1>6, Views
<1>15. node[n].closeStarted BY <1>1, <1>2 DEF CloseInv, CloserInv, n
<1>16. CloseInv'
  <2>1. TermInv' BY <1>1, <1>2, <1>7, <1>13 DEF CloseInv, TermInv
  <2>2. ClosedInv' BY <1>2, <1>7, <1>13, <1>15 DEF CloseInv, ClosedInv
  <2>3. CloserInv'
    <3> SUFFICES ASSUME NEW u \in Threads, At(u, "closing")' PROVE node'[Arg(u)'].closeStarted
      BY DEF CloserInv
    <3>1. u # t BY <1>12
    <3>2. At(u, "closing") /\ Arg(u)' = Arg(u) BY <3>1, <1>14
    <3>3. Arg(u) \in Nodes BY <1>2, <3>2, AtFirst, StepShape DEF Kind, NodeKinds
    <3>4. node[Arg(u)].closeStarted BY <1>2, <3>2 DEF CloseInv, CloserInv
    <3> QED BY <3>2, <3>3, <3>4, <1>7
  <2>4. ClosingInv'
    <3> SUFFICES ASSUME NEW m \in Nodes, node'[m].closeStarted, ~node'[m].closed
                 PROVE  \E u \in Threads : At(u, "closing")' /\ Arg(u)' = m
      BY DEF ClosingInv
    <3>1. m # n BY <1>7
    <3>2. PICK u \in Threads : At(u, "closing") /\ Arg(u) = m
      BY <3>1, <1>2, <1>7 DEF CloseInv, ClosingInv
    <3>3. u # t BY <3>1, <3>2 DEF n
    <3> QED BY <3>2, <3>3, <1>14
  <2>5. LookInv'
    <3> SUFFICES ASSUME At(Host, "idle?")', NEW m \in Nodes PROVE node'[m].closed
      BY DEF LookInv, AllClosed
    <3>1. Host \in Threads /\ Host # t BY <1>12 DEF Threads
    <3>2. At(Host, "idle?") BY <3>1, <1>14
    <3>3. node[m].closed BY <3>2, <1>2 DEF CloseInv, LookInv, AllClosed
    <3> QED BY <3>3, <1>7
  <2>6. FreedInv'
    <3> SUFFICES ASSUME At(Host, "freed"), NEW m \in Nodes, node[m].opened PROVE node'[m].closed
      BY <1>7, <1>13 DEF FreedInv
    <3>1. node[m].closed BY <1>2 DEF CloseInv, FreedInv
    <3> QED BY <3>1, <1>7
  <2> QED BY <2>1, <2>2, <2>3, <2>4, <2>5, <2>6 DEF CloseInv
<1> QED BY <1>8, <1>10, <1>16 DEF IInv

---------------------------------------------------------------------------
(* The workers of the pool.                                                 *)

\* A step that leaves the lists alone, and with them what is said of the lists.
LEMMA StillStep ==
    ASSUME IInv, TypeOK', UNCHANGED <<state, shared, node, source, sink, inFlight, delegated, todo>>,
           pool'.ready = pool.ready, pool'.delayed = pool.delayed, pool'.running = pool.running,
           PoolInv'
    PROVE  IInv'
<1>1. ListsOK' BY DEF IInv, ListsOK
<1>2. ShapeInv' BY DEF IInv, ShapeInv, FrontInv, WorkerInv, DropInv, Kind
<1>3. PhaseInv'
  BY DEF IInv, PhaseInv, ResetInv, OpenInv, CalmInv, SleepInv, FreshInv, Asleep, Fresh, Has, Kind,
         At, Idle, Calm, Stopped
<1>4. CloseInv'
  BY DEF IInv, CloseInv, TermInv, ClosedInv, CloserInv, ClosingInv, LookInv, FreedInv, AllClosed,
         At, Idle, Arg
<1>5. LineInv' /\ CallInv' BY DEF IInv, CallsInv, LineInv, CallInv, At, Idle, Arg
<1>6. CountInv' BY DEF IInv, CallsInv, CountInv, Holders, Places, At, Idle, Arg
<1>7. FlushInv' BY DEF IInv, CallsInv, FlushInv, Flushes, Kind
<1> QED BY <1>1, <1>2, <1>3, <1>4, <1>5, <1>6, <1>7 DEF IInv, CallsInv

\* A worker that is idle may leave.
LEMMA ExitStep ==
    ASSUME IInv, NEW w \in Workers, Exit(w)
    PROVE  IInv'
<1>1. /\ pool' = [pool EXCEPT !.exited = @ \cup {w}] /\ Idle(w)
      /\ UNCHANGED <<state, shared, node, source, sink, inFlight, delegated, todo>>
  BY DEF Exit
<1>2. TypeOK /\ PoolInv BY DEF IInv
<1>3. /\ pool' \in [workers : SUBSET Workers, ready : Seq(Nat), delayed : SUBSET (Nat \ {0}),
                    running : Int, started : BOOLEAN, stop : BOOLEAN, exited : SUBSET Workers]
      /\ pool'.ready = pool.ready /\ pool'.delayed = pool.delayed /\ pool'.running = pool.running
      /\ pool'.started = pool.started /\ pool'.workers = pool.workers
      /\ pool'.exited = pool.exited \cup {w}
  <2> DEFINE S == Seq(Nat)
             D == SUBSET (Nat \ {0})
  <2>1. pool \in [workers : SUBSET Workers, ready : S, delayed : D, running : Int,
                  started : BOOLEAN, stop : BOOLEAN, exited : SUBSET Workers]
    BY <1>2 DEF TypeOK
  <2> HIDE DEF S, D
  <2>2. /\ pool' \in [workers : SUBSET Workers, ready : S, delayed : D, running : Int,
                      started : BOOLEAN, stop : BOOLEAN, exited : SUBSET Workers]
        /\ pool'.ready = pool.ready /\ pool'.delayed = pool.delayed /\ pool'.running = pool.running
        /\ pool'.started = pool.started /\ pool'.workers = pool.workers
        /\ pool'.exited = pool.exited \cup {w}
    BY <1>1, <2>1
  <2> QED BY <2>2 DEF S, D
<1>4. TypeOK' BY <1>1, <1>2, <1>3 DEF TypeOK
<1>5. PoolInv'
  <2>1. \A u \in Workers : Away(u)' <=> Away(u) \/ u = w
    BY <1>3, <1>2 DEF Away
  <2>2. \A u : (Idle(u)' <=> Idle(u)) /\ \A k : (At(u, k)' <=> At(u, k)) /\ (Has(u, k)' <=> Has(u, k))
    BY <1>1 DEF Idle, At, Has, Kind
  <2>3. AwayInv' BY <1>1, <1>2, <2>1, <2>2 DEF PoolInv, AwayInv
  <2>4. JoinInv' BY <1>2, <2>1, <2>2 DEF PoolInv, JoinInv, Joined
  <2>5. {u \in Workers : Has(u, "completed")'} = {u \in Workers : Has(u, "completed")} BY <2>2
  <2>6. RunningInv' BY <1>2, <1>3, <2>5 DEF PoolInv, RunningInv
  <2> QED BY <2>3, <2>4, <2>6 DEF PoolInv
<1> QED BY <1>1, <1>3, <1>4, <1>5, StillStep

\* A worker of the pool that goes on, or takes a task.
LEMMA WorkerMoves ==
    ASSUME IInv, NEW w \in Workers, NEW steps, NEW r, Advances(w, steps, r), ~Away(w),
           pool'.workers = pool.workers, pool'.started = pool.started, pool'.exited = pool.exited
    PROVE  /\ AwayInv' /\ JoinInv'
           /\ \A u \in Workers \ {w} : Has(u, "completed")' <=> Has(u, "completed")
<1>1. ListsOK /\ ShapeInv /\ PoolInv BY DEF IInv
<1>2. w \in Threads /\ w # Host /\ Host \in Threads /\ Workers \subseteq Threads
  BY ThreadsAssumption DEF Threads
<1>3. \A u \in Threads \ {w} : \A k : /\ At(u, k)' <=> At(u, k)
                                      /\ Idle(u)' = Idle(u)
                                      /\ Has(u, k)' <=> Has(u, k)
  BY <1>1, <1>2, Views
<1>4. \A u \in Workers : Away(u)' <=> Away(u) BY DEF Away
<1>5. AwayInv'
  <2> SUFFICES ASSUME NEW u \in Workers, Away(u)' PROVE Idle(u)'
    BY DEF AwayInv
  <2>1. Away(u) /\ u \in Threads \ {w} BY <1>2, <1>4
  <2>2. Idle(u) BY <2>1, <1>1 DEF PoolInv, AwayInv
  <2> QED BY <2>1, <2>2, <1>3
<1>6. Joined' <=> Joined BY <1>2, <1>3 DEF Joined
<1>7. JoinInv' BY <1>1, <1>4, <1>6 DEF PoolInv, JoinInv
<1>8. ASSUME NEW u \in Workers \ {w} PROVE Has(u, "completed")' <=> Has(u, "completed")
  <2>1. u \in Threads \ {w} BY <1>2
  <2> QED BY <2>1, <1>3
<1> QED BY <1>5, <1>7, <1>8

\* What a worker is about to do is a task of the pool.
LEMMA TaskSteps ==
    ASSUME NEW task \in Nat
    PROVE  /\ StepsOf(task) \in Seq(Steps) /\ Len(StepsOf(task)) = 2
           /\ StepsOf(task)[2][1] = "completed"
           /\ IF task = RunTask THEN StepsOf(task)[1] = <<"run", "source">>
              ELSE StepsOf(task)[1][1] = "wake"
<1>1. CASE task = RunTask
  <2>1. StepsOf(task) = <<<<"run", "source">>, <<"completed", "run">>>> BY <1>1 DEF StepsOf
  <2>2. <<"run", "source">> \in Steps /\ <<"completed", "run">> \in Steps
    BY StepForms DEF NodeKinds, Nodes
  <2>3. <<<<"run", "source">>, <<"completed", "run">>>> \in Seq(Steps) BY <2>2, Lists
  <2> QED BY <1>1, <2>1, <2>3
<1>2. CASE task # RunTask
  <2>1. StepsOf(task) = <<<<"wake", task>>, <<"completed", "wake">>>> BY <1>2 DEF StepsOf
  <2>2. <<"wake", task>> \in Steps /\ <<"completed", "wake">> \in Steps
    BY <1>2, StepForms DEF RunTask
  <2>3. <<<<"wake", task>>, <<"completed", "wake">>>> \in Seq(Steps) BY <2>2, Lists
  <2> QED BY <1>2, <2>1, <2>3
<1> QED BY <1>1, <1>2

\* The queue from which a worker takes: a wake that is due comes last.
LEMMA DueReady ==
    ASSUME TypeOK, NEW due \in Due
    PROVE  /\ pool.ready \o due \in Seq(Nat)
           /\ Cardinality(Places(pool.ready \o due, RunTask)) = Runs
           /\ pool.ready = <<>> /\ pool.delayed = {} => pool.ready \o due = <<>>
<1>1. pool.ready \in Seq(Nat) /\ pool.delayed \subseteq Nat \ {0} BY DEF TypeOK
<1>2. CASE due = <<>>
  <2>1. pool.ready \o due = pool.ready BY <1>1, <1>2
  <2> QED BY <1>1, <2>1 DEF Runs
<1>3. CASE due # <<>>
  <2>1. PICK wake \in pool.delayed : due = <<wake>> BY <1>3 DEF Due
  <2>2. wake \in Nat /\ wake # RunTask BY <1>1, <2>1 DEF RunTask
  <2>3. pool.ready \o due = Append(pool.ready, wake) BY <1>1, <2>1, <2>2
  <2>4. Append(pool.ready, wake) \in Seq(Nat) BY <1>1, <2>2
  <2>5. Cardinality(Places(Append(pool.ready, wake), RunTask)) =
            Cardinality(Places(pool.ready, RunTask)) + (IF wake = RunTask THEN 1 ELSE 0)
    BY <1>1, <2>2, PlacesAppend
  <2>6. Runs \in Nat BY Counts
  <2>7. Cardinality(Places(pool.ready \o due, RunTask)) = Runs
    BY <2>2, <2>3, <2>5, <2>6 DEF Runs
  <2>8. pool.delayed # {} BY <2>1
  <2> QED BY <2>3, <2>4, <2>7, <2>8
<1> QED BY <1>2, <1>3

\* Each worker that runs a task is counted once.
LEMMA RunnersFinite == IsFiniteSet({w \in Workers : Has(w, "completed")})
<1>1. {w \in Workers : Has(w, "completed")} \in SUBSET Workers OBVIOUS
<1> QED BY <1>1, ThreadsAssumption, FS_Subset

LEMMA TakeStep ==
    ASSUME IInv, NEW w \in Workers, Take(w)
    PROVE  IInv'
<1>1. /\ Idle(w) /\ ~Away(w)
      /\ UNCHANGED <<state, shared, node, source, sink, inFlight, delegated>>
  BY DEF Take, Away
<1>2. PICK due \in Due :
          /\ pool.ready \o due # <<>>
          /\ pool' = [pool EXCEPT !.ready = Tail(pool.ready \o due), !.running = @ + 1,
                                  !.delayed = @ \ {due[i] : i \in DOMAIN due}]
          /\ Call(w, StepsOf(Head(pool.ready \o due)))
  BY DEF Take
<1> DEFINE ready == pool.ready \o due
           task == Head(ready)
           steps == StepsOf(task)
<1>3. TypeOK /\ ListsOK /\ ShapeInv /\ PhaseInv /\ CloseInv /\ PoolInv /\ CallsInv BY DEF IInv
<1>4. /\ ready \in Seq(Nat) /\ Cardinality(Places(ready, RunTask)) = Runs
      /\ pool.ready = <<>> /\ pool.delayed = {} => ready = <<>>
  BY <1>3, DueReady
<1>5. ready # <<>> /\ Call(w, steps) BY <1>2
<1>6. ~Asleep BY <1>3, <1>4, <1>5 DEF PhaseInv, SleepInv
<1>7. pool' = [pool EXCEPT !.ready = Tail(ready), !.running = @ + 1,
                           !.delayed = @ \ {due[i] : i \in DOMAIN due}]
  BY <1>2
<1> HIDE DEF ready
<1>8. Tail(ready) \in Seq(Nat) /\ task \in Nat /\ task = ready[1] BY <1>4, <1>5
<1>9. /\ steps \in Seq(Steps) /\ Len(steps) = 2 /\ steps[2][1] = "completed"
      /\ IF task = RunTask THEN steps[1] = <<"run", "source">> ELSE steps[1][1] = "wake"
  BY <1>8, TaskSteps
<1>10. <<"run", "source">>[1] = "run" /\ <<"run", "source">>[2] = "source" OBVIOUS
<1> HIDE DEF task, steps
<1>11. w \in Threads /\ w # Host /\ Host \in Threads BY ThreadsAssumption DEF Threads
<1>12. Advances(w, steps, 0) /\ Len(todo[w]) = 0 BY <1>1, <1>3, <1>5, <1>9, <1>11, CallAdvances
<1>13. /\ pool' \in [workers : SUBSET Workers, ready : Seq(Nat), delayed : SUBSET (Nat \ {0}),
                     running : Int, started : BOOLEAN, stop : BOOLEAN, exited : SUBSET Workers]
       /\ pool'.ready = Tail(ready) /\ pool'.running = pool.running + 1
       /\ pool'.started = pool.started /\ pool'.workers = pool.workers
       /\ pool'.exited = pool.exited
  <2> DEFINE S == Seq(Nat)
             D == SUBSET (Nat \ {0})
             T == Tail(ready)
             X == pool.delayed \ {due[i] : i \in DOMAIN due}
  <2>1. /\ pool \in [workers : SUBSET Workers, ready : S, delayed : D, running : Int,
                     started : BOOLEAN, stop : BOOLEAN, exited : SUBSET Workers]
        /\ T \in S
    BY <1>3, <1>8 DEF TypeOK
  <2>2. pool.delayed \in D BY <2>1
  <2>3. X \in D BY <2>2
  <2>4. pool' = [pool EXCEPT !.ready = T, !.running = @ + 1, !.delayed = X] BY <1>7
  <2> HIDE DEF S, D, T, X
  <2>5. /\ pool' \in [workers : SUBSET Workers, ready : S, delayed : D, running : Int,
                      started : BOOLEAN, stop : BOOLEAN, exited : SUBSET Workers]
        /\ pool'.ready = T /\ pool'.running = pool.running + 1
        /\ pool'.started = pool.started /\ pool'.workers = pool.workers
        /\ pool'.exited = pool.exited
    <3>1. ASSUME NEW p \in [workers : SUBSET Workers, ready : S, delayed : D, running : Int,
                            started : BOOLEAN, stop : BOOLEAN, exited : SUBSET Workers],
                 NEW a \in S, NEW b \in D, NEW q,
                 q = [p EXCEPT !.ready = a, !.running = @ + 1, !.delayed = b]
          PROVE  /\ q \in [workers : SUBSET Workers, ready : S, delayed : D, running : Int,
                           started : BOOLEAN, stop : BOOLEAN, exited : SUBSET Workers]
                 /\ q.ready = a /\ q.running = p.running + 1
                 /\ q.started = p.started /\ q.workers = p.workers /\ q.exited = p.exited
      <4>1. q = [workers |-> p.workers, ready |-> a, delayed |-> b, running |-> p.running + 1,
                 started |-> p.started, stop |-> p.stop, exited |-> p.exited]
        BY <3>1
      <4>2. /\ p.workers \in SUBSET Workers /\ p.running + 1 \in Int /\ p.started \in BOOLEAN
            /\ p.stop \in BOOLEAN /\ p.exited \in SUBSET Workers
        OBVIOUS
      <4> QED BY <4>1, <4>2
    <3> QED BY <2>1, <2>3, <2>4, <3>1
  <2> QED BY <2>5 DEF S, D, T
<1>14. TypeOK' BY <1>1, <1>3, <1>13 DEF TypeOK
<1>15. \A i \in 1 .. Len(steps) : \/ i = 1 /\ steps[i][1] \in {"run", "wake"}
                                  \/ i = 2 /\ steps[i][1] = "completed"
  <2>1. \A i \in 1 .. 2 : i = 1 \/ i = 2 OBVIOUS
  <2> QED BY <2>1, <1>9, <1>10
<1>16. ListsOK' /\ ShapeInv'
  <2>1. \A i \in 1 .. Len(steps) : steps[i][1] \in FrontKinds => i = 1 BY <1>15 DEF FrontKinds
  <2>2. EndsAdvance(w, steps) BY <1>12, <1>15 DEF EndsAdvance
  <2>3. WorkerAdvances(w, steps) BY <1>9, <1>12, <1>15 DEF WorkerAdvances
  <2> QED BY <1>3, <1>11, <1>12, <2>1, <2>2, <2>3, ShapeStep
<1>17. PhaseInv'
  <2>1. ~Fresh BY <1>3, <1>6, <1>11, HasNow DEF Fresh, Asleep
  <2>2. \A i \in 1 .. Len(steps) : steps[i][1] \notin {"open", "renew", "initialized"} BY <1>15
  <2>3. state' = state BY <1>1
  <2> QED BY <1>3, <1>6, <1>11, <1>12, <2>1, <2>2, <2>3, PhaseStep
<1>18. CloseInv'
  <2>1. steps[1][1] \notin {"closing", "idle?", "freed"} BY <1>9, <1>10
  <2>2. state' = state /\ node' = node BY <1>1
  <2> QED BY <1>3, <1>11, <1>12, <2>1, <2>2, CloseStep
<1>19. AwayInv' /\ JoinInv' /\ \A u \in Workers \ {w} : Has(u, "completed")' <=> Has(u, "completed")
  BY <1>1, <1>12, <1>13, WorkerMoves
<1>20. RunningInv'
  <2> DEFINE R == {u \in Workers : Has(u, "completed")}
  <2>1. Has(w, "completed")'
    <3>1. 2 \in 1 .. Len(steps) BY <1>9
    <3> QED BY <1>3, <1>9, <1>11, <1>12, <3>1, HasNext
  <2>2. ~Has(w, "completed")
    <3>1. DOMAIN todo[w] = 1 .. Len(todo[w]) BY <1>3, <1>11 DEF ListsOK
    <3> QED BY <1>12, <3>1 DEF Has
  <2>3. {u \in Workers : Has(u, "completed")'} = R \cup {w} /\ w \notin R
    BY <1>19, <2>1, <2>2
  <2>4. IsFiniteSet(R) BY RunnersFinite
  <2>5. pool.running = Cardinality(R) BY <1>3 DEF PoolInv, RunningInv
  <2> HIDE DEF R
  <2>6. Cardinality(R \cup {w}) = Cardinality(R) + 1 BY <2>3, <2>4, FS_AddElement
  <2> QED BY <1>13, <2>3, <2>5, <2>6 DEF RunningInv
<1>21. LineInv' /\ CallInv' /\ FlushInv'
  <2>1. steps[1][1] \notin {"process", "land"} BY <1>9, <1>10
  <2>2. \A i \in 1 .. Len(steps) : steps[i][1] \notin {"flush", "release"} BY <1>15
  <2>3. state' = state /\ node' = node BY <1>1
  <2> QED BY <1>3, <1>11, <1>12, <2>1, <2>2, <2>3, EntriesStep
<1>22. CountInv'
  <2>1. Runs' = Runs - (IF task = RunTask THEN 1 ELSE 0) /\ Runs \in Nat
    <3>1. Cardinality(Places(Tail(ready), RunTask)) =
              Cardinality(Places(ready, RunTask)) - (IF ready[1] = RunTask THEN 1 ELSE 0)
      BY <1>4, <1>5, PlacesTail
    <3>2. Runs' = Cardinality(Places(Tail(ready), RunTask)) BY <1>13, CountsNext
    <3>3. Runs \in Nat BY <1>3, Counts
    <3> QED BY <1>4, <1>8, <3>1, <3>2, <3>3
  <2>2. /\ Gain(steps, "source") = IF task = RunTask THEN 1 ELSE 0
        /\ Gain(steps, "sink") = 0
    BY <1>9, <1>10 DEF Gain
  <2>3. \A n : Loss(w, n) = 0 BY <1>1 DEF Loss, At
  <2>4. "source" \in Nodes /\ "sink" \in Nodes BY DEF Nodes
  <2>5. /\ Claims("source") \in Nat /\ Claims("source")' = Claims("source")
        /\ Claims("sink") \in Nat /\ Claims("sink")' = Claims("sink")
    BY <1>1, <1>3, <2>4, Counts DEF Claims, Places
  <2>6. delegated' = delegated /\ delegated \in Nat BY <1>1, <1>3 DEF TypeOK
  <2>7. Runs' + Gain(steps, "source") + Claims("source")
            <= Runs + Loss(w, "source") + Claims("source")'
    BY <2>1, <2>2, <2>3, <2>5
  <2>8. delegated' + Gain(steps, "sink") + Claims("sink")
            <= delegated + Loss(w, "sink") + Claims("sink")'
    BY <2>2, <2>3, <2>5, <2>6
  <2> QED BY <1>11, <1>12, <1>14, <2>7, <2>8, CountStep
<1> QED BY <1>14, <1>16, <1>17, <1>18, <1>19, <1>20, <1>21, <1>22 DEF IInv, PoolInv, CallsInv

LEMMA CompletedStep ==
    ASSUME IInv, NEW w \in Workers, Completed(w)
    PROVE  IInv'
<1> DEFINE steps == RequestWakeup
<1>1. /\ At(w, "completed") /\ Go(w, steps)
      /\ inFlight' = IF Arg(w) = "run" THEN inFlight - 1 ELSE inFlight
      /\ pool' = [pool EXCEPT !.running = @ - 1]
      /\ UNCHANGED <<state, shared, node, source, sink, delegated>>
  BY DEF Completed
<1>2. TypeOK /\ ListsOK /\ ShapeInv /\ PhaseInv /\ CloseInv /\ PoolInv /\ CallsInv BY DEF IInv
<1>3. /\ steps \in Seq(Steps) /\ Len(steps) = 2
      /\ \A i \in 1 .. Len(steps) : steps[i][1] \in AfterTask
  BY WakeupSteps
<1> HIDE DEF steps
<1>4. w \in Threads /\ w # Host /\ ~Asleep /\ ~Fresh BY <1>1, WorkerAwake DEF AfterTask
<1>5. /\ Advances(w, steps, Len(todo[w]) - 1) /\ Len(todo[w]) \in Nat /\ Len(todo[w]) >= 1
      /\ Kind(w, 1) = "completed"
  BY <1>1, <1>2, <1>3, <1>4, GoAdvances
<1>6. Len(todo[w]) = 1
  <2>1. 1 \in 1 .. Len(todo[w]) BY <1>5
  <2>2. "completed" \notin AfterTask BY DEF AfterTask
  <2> QED BY <1>2, <1>5, <2>1, <2>2 DEF ShapeInv, WorkerInv
<1>7. /\ pool' \in [workers : SUBSET Workers, ready : Seq(Nat), delayed : SUBSET (Nat \ {0}),
                    running : Int, started : BOOLEAN, stop : BOOLEAN, exited : SUBSET Workers]
      /\ pool'.ready = pool.ready /\ pool'.running = pool.running - 1
      /\ pool'.started = pool.started /\ pool'.workers = pool.workers
      /\ pool'.exited = pool.exited
  <2> DEFINE S == Seq(Nat)
             D == SUBSET (Nat \ {0})
  <2>1. pool \in [workers : SUBSET Workers, ready : S, delayed : D, running : Int,
                  started : BOOLEAN, stop : BOOLEAN, exited : SUBSET Workers]
    BY <1>2 DEF TypeOK
  <2> HIDE DEF S, D
  <2>2. /\ pool' \in [workers : SUBSET Workers, ready : S, delayed : D, running : Int,
                      started : BOOLEAN, stop : BOOLEAN, exited : SUBSET Workers]
        /\ pool'.ready = pool.ready /\ pool'.running = pool.running - 1
        /\ pool'.started = pool.started /\ pool'.workers = pool.workers
        /\ pool'.exited = pool.exited
    BY <1>1, <2>1
  <2> QED BY <2>2 DEF S, D
<1>8. TypeOK'
  <2>1. inFlight' \in Int BY <1>1, <1>2 DEF TypeOK
  <2> QED BY <1>1, <1>2, <1>7, <2>1 DEF TypeOK
<1>9. Len(steps) >= 1 /\ 1 \in 1 .. Len(steps) BY <1>3
<1>10. ListsOK' /\ ShapeInv'
  <2>1. \A i \in 1 .. Len(steps) : steps[i][1] \in FrontKinds => i = 1
    BY <1>3 DEF AfterTask, FrontKinds
  <2>2. EndsAdvance(w, steps) BY <1>3, <1>5 DEF EndsAdvance, AfterTask
  <2>3. WorkerAdvances(w, steps) BY <1>3, <1>5 DEF WorkerAdvances
  <2> QED BY <1>2, <1>4, <1>5, <2>1, <2>2, <2>3, ShapeStep
<1>11. PhaseInv'
  <2>1. \A i \in 1 .. Len(steps) : steps[i][1] \notin {"open", "renew", "initialized"}
    BY <1>3 DEF AfterTask
  <2>2. state' = state BY <1>1
  <2> QED BY <1>2, <1>4, <1>5, <2>1, <2>2, PhaseStep
<1>12. CloseInv'
  <2>1. steps[1][1] \notin {"closing", "idle?", "freed"} BY <1>3, <1>9 DEF AfterTask
  <2>2. state' = state /\ node' = node BY <1>1
  <2> QED BY <1>2, <1>4, <1>5, <2>1, <2>2, CloseStep
<1>13. AwayInv' /\ JoinInv' /\ \A u \in Workers \ {w} : Has(u, "completed")' <=> Has(u, "completed")
  <2>1. ~Away(w) BY <1>2, <1>4, <1>5, AtFirst DEF PoolInv, AwayInv
  <2> QED BY <1>5, <1>7, <2>1, WorkerMoves
<1>14. RunningInv'
  <2> DEFINE R == {u \in Workers : Has(u, "completed")}
  <2>1. Has(w, "completed") BY <1>1, <1>2, <1>4, HasNow
  <2>2. ~Has(w, "completed")'
    <3>1. \A i \in 1 .. Len(steps) : steps[i][1] # "completed" BY <1>3 DEF AfterTask
    <3>2. \A i \in 2 .. Len(todo[w]) : FALSE BY <1>6
    <3> QED BY <1>2, <1>4, <1>5, <3>1, <3>2, HasNext
  <2>3. {u \in Workers : Has(u, "completed")'} = R \ {w} /\ w \in R
    BY <1>13, <2>1, <2>2
  <2>4. IsFiniteSet(R) BY RunnersFinite
  <2>5. pool.running = Cardinality(R) BY <1>2 DEF PoolInv, RunningInv
  <2> HIDE DEF R
  <2>6. Cardinality(R \ {w}) = Cardinality(R) - 1 BY <2>3, <2>4, FS_RemoveElement
  <2> QED BY <1>7, <2>3, <2>5, <2>6 DEF RunningInv
<1>15. CallsInv'
  <2>1. \A i \in 1 .. Len(steps) :
            steps[i][1] \notin {"submit", "run", "process", "land", "flush", "release"}
    BY <1>3 DEF AfterTask
  <2>2. LineInv' BY <1>1, <1>2 DEF CallsInv, LineInv
  <2>3. /\ node' = node /\ delegated' = delegated
        /\ Cardinality(Places(pool'.ready, RunTask)) = Cardinality(Places(pool.ready, RunTask))
    BY <1>1, <1>7
  <2> QED BY <1>2, <1>4, <1>5, <2>1, <2>2, <2>3, CallsStep
<1> QED BY <1>8, <1>10, <1>11, <1>12, <1>13, <1>14, <1>15 DEF IInv, PoolInv

---------------------------------------------------------------------------
(* The host: the end of a run.                                              *)

\* A look that may find that all the nodes are closed.
LEMMA EndFrame ==
    ASSUME IInv, NEW k \in {"ended", "done?", "idle?"}, At(Host, k), NEW steps \in Seq(Steps),
           Go(Host, steps),
           \A i \in 1 .. Len(steps) : i = 1 /\ steps[i] \in {<<"wait">>, <<"more?">>, <<"idle?">>},
           \A i \in 1 .. Len(steps) : steps[i] = <<"idle?">> => AllClosed,
           UNCHANGED <<shared, node, source, sink, inFlight, pool, delegated>>,
           state' = state \/ (state' = "Terminated" /\ AllClosed)
    PROVE  IInv'
<1>1. TypeOK /\ ListsOK /\ ShapeInv /\ PhaseInv /\ CloseInv /\ PoolInv /\ CallsInv BY DEF IInv
<1>2. Host \in Threads /\ Host \notin Workers BY ThreadsAssumption DEF Threads
<1>3. /\ Advances(Host, steps, Len(todo[Host]) - 1) /\ Len(todo[Host]) \in Nat
      /\ Len(todo[Host]) >= 1 /\ Kind(Host, 1) = k /\ Len(steps) \in Nat
  BY <1>1, <1>2, GoAdvances, LenProperties
<1>4. <<"wait">>[1] = "wait" /\ <<"more?">>[1] = "more?" /\ <<"idle?">>[1] = "idle?" OBVIOUS
<1>5. \A i \in 1 .. Len(steps) :
          /\ i = 1 /\ steps[i][1] \in {"wait", "more?", "idle?"}
          /\ steps[i][1] = "idle?" => AllClosed
  BY <1>4
<1>6. Len(steps) >= 1 => 1 \in 1 .. Len(steps) BY <1>3
<1>7. AllClosed => \A n \in Nodes : node[n].closeStarted
  <2>1. ~At(Host, "freed") BY <1>1, <1>2, <1>3, AtFirst
  <2> QED BY <2>1, <1>1 DEF AllClosed, CloseInv, ClosedInv
<1>8. TypeOK' BY <1>1 DEF TypeOK
<1>9. ListsOK' /\ ShapeInv'
  <2>1. \A i \in 1 .. Len(steps) : steps[i][1] \in FrontKinds => i = 1 BY <1>5
  <2>2. EndsAdvance(Host, steps) BY <1>3, <1>5 DEF EndsAdvance
  <2> QED BY <1>1, <1>2, <1>3, <2>1, <2>2, ShapeStep
<1>10. PhaseInv'
  <2>1. Asleep => pool'.ready = <<>> /\ pool'.delayed = {} /\ pool'.running = 0 /\ inFlight' = 0
    BY <1>1 DEF PhaseInv, SleepInv
  <2>2. Fresh => delegated' = 0 /\ sink'.backlog = 0 /\ ~source'.waiting /\ ~source'.done
    BY <1>1 DEF PhaseInv, FreshInv
  <2>3. Kind(Host, 1) \notin {"open", "running", "clear", "renew", "initialized"} BY <1>3
  <2>4. \A i \in 1 .. Len(steps) : steps[i][1] \notin {"open", "renew", "initialized"} BY <1>5
  <2>5. \A i \in 1 .. Len(steps) : Calm(steps[i], Stopped') BY <1>5 DEF Calm, CalmKinds
  <2>6. state' = state \/ state' # "Initialized" OBVIOUS
  <2>7. /\ Fresh => sink'.inputClosed = sink.inputClosed
        /\ Asleep /\ Stopped => Stopped'
    BY DEF Stopped
  <2> HIDE DEF Stopped
  <2> QED BY <1>1, <1>2, <1>3, <2>1, <2>2, <2>3, <2>4, <2>5, <2>6, <2>7, PhaseStep
<1>11. CloseInv'
  <2>1. Kind(Host, 1) \notin {"closing", "drop", "freed", "initialized"} BY <1>3
  <2>2. Len(steps) >= 1 => /\ steps[1][1] \notin {"closing", "freed"}
                           /\ steps[1][1] = "idle?" => AllClosed
    BY <1>5, <1>6
  <2>3. \/ state' # "Terminated" \/ state = "Terminated" \/ \A n \in Nodes : node[n].closeStarted
    BY <1>7
  <2>4. node' = node OBVIOUS
  <2> QED BY <1>1, <1>2, <1>3, <2>1, <2>2, <2>3, <2>4, CloseStep
<1>12. PoolInv'
  <2>1. Kind(Host, 1) \notin {"completed", "join"} BY <1>3
  <2>2. \A i \in 1 .. Len(steps) : steps[i][1] # "completed" BY <1>5
  <2>3. Len(steps) >= 1 => steps[1][1] \notin {"drop", "freed"} BY <1>5, <1>6
  <2>4. pool' = pool OBVIOUS
  <2> QED BY <1>1, <1>2, <1>3, <2>1, <2>2, <2>3, <2>4, PoolStep
<1>13. CallsInv'
  <2>1. LineInv'
    <3> SUFFICES ASSUME NEW n \in Nodes, node[n].line # <<>>
                 PROVE  node[n].opened /\ ~node[n].closeStarted /\ state' \in Live
      BY DEF LineInv
    <3>1. node[n].opened /\ ~node[n].closeStarted /\ state \in Live BY <1>1 DEF CallsInv, LineInv
    <3> QED BY <3>1, <1>7
  <2>2. \A i \in 1 .. Len(steps) :
            steps[i][1] \notin {"submit", "run", "process", "land", "flush", "release"}
    BY <1>5
  <2>3. Kind(Host, 1) \notin {"submit", "run", "process", "land", "flush", "release"} BY <1>3
  <2>4. node' = node /\ pool' = pool /\ delegated' = delegated OBVIOUS
  <2> QED BY <1>1, <1>2, <1>3, <2>1, <2>2, <2>3, <2>4, CallsStep
<1> QED BY <1>8, <1>9, <1>10, <1>11, <1>12, <1>13 DEF IInv

LEMMA EndSteps ==
    /\ <<>> \in Seq(Steps) /\ \A i \in 1 .. Len(<<>>) : FALSE
    /\ \A k \in {"wait", "more?", "idle?"} :
          /\ <<<<k>>>> \in Seq(Steps) /\ Len(<<<<k>>>>) = 1 /\ <<<<k>>>>[1] = <<k>>
          /\ <<k>> = <<"idle?">> => k = "idle?"
<1>1. ASSUME NEW k \in {"wait", "more?", "idle?"}
      PROVE  /\ <<<<k>>>> \in Seq(Steps) /\ Len(<<<<k>>>>) = 1 /\ <<<<k>>>>[1] = <<k>>
             /\ <<k>> = <<"idle?">> => k = "idle?"
  <2>1. <<k>> \in Steps BY StepForms DEF PlainKinds
  <2>2. <<<<k>>>> \in Seq(Steps) BY <2>1, Lists
  <2>3. <<k>>[1] = k /\ <<"idle?">>[1] = "idle?" OBVIOUS
  <2> QED BY <2>2, <2>3
<1> QED BY <1>1, Lists

\* One step of the frame.
LEMMA EndOne ==
    ASSUME IInv, NEW k \in {"ended", "done?", "idle?"}, At(Host, k),
           NEW j \in {"wait", "more?", "idle?"}, Go(Host, <<<<j>>>>),
           j = "idle?" => AllClosed,
           UNCHANGED <<state, shared, node, source, sink, inFlight, pool, delegated>>
    PROVE  IInv'
<1> DEFINE steps == <<<<j>>>>
<1>1. steps \in Seq(Steps) /\ Len(steps) = 1 /\ steps[1] = <<j>> BY EndSteps
<1>2. Go(Host, steps) OBVIOUS
<1> HIDE DEF steps
<1>3. \A i \in 1 .. Len(steps) : i = 1 /\ steps[i] = <<j>>
  <2>1. \A i \in 1 .. 1 : i = 1 OBVIOUS
  <2> QED BY <2>1, <1>1
<1>4. <<j>> \in {<<"wait">>, <<"more?">>, <<"idle?">>} OBVIOUS
<1>5. \A i \in 1 .. Len(steps) : i = 1 /\ steps[i] \in {<<"wait">>, <<"more?">>, <<"idle?">>}
  BY <1>3, <1>4
<1>6. \A i \in 1 .. Len(steps) : steps[i] = <<"idle?">> => AllClosed BY <1>3, EndSteps
<1> QED BY <1>1, <1>2, <1>5, <1>6, EndFrame

LEMMA EndNone ==
    ASSUME IInv, NEW k \in {"ended", "done?", "idle?"}, At(Host, k), Go(Host, <<>>),
           UNCHANGED <<shared, node, source, sink, inFlight, pool, delegated>>,
           state' = state \/ (state' = "Terminated" /\ AllClosed)
    PROVE  IInv'
BY EndFrame, EndSteps

LEMMA EndedStep ==
    ASSUME IInv, Ended \/ WaitIdle \/ WaitLook
    PROVE  IInv'
<1>1. CASE Ended
  <2>1. state' = state \/ (state' = "Terminated" /\ AllClosed) BY <1>1 DEF Ended
  <2>2. At(Host, "ended") /\ Go(Host, <<>>) BY <1>1 DEF Ended
  <2>3. UNCHANGED <<shared, node, source, sink, inFlight, pool, delegated>> BY <1>1 DEF Ended
  <2> QED BY <2>1, <2>2, <2>3, EndNone
<1>2. CASE WaitIdle
  <2>1. At(Host, "idle?") /\ UNCHANGED <<shared, node, source, sink, inFlight, pool, delegated>>
    BY <1>2 DEF WaitIdle
  <2>2. AllClosed BY <2>1 DEF IInv, CloseInv, LookInv
  <2>3. CASE PoolIdle
    <3>1. state' = "Terminated" /\ Go(Host, <<>>) BY <1>2, <2>3 DEF WaitIdle
    <3> QED BY <2>1, <2>2, <3>1, EndNone
  <2>4. CASE ~PoolIdle
    <3>1. state' = state /\ Go(Host, <<<<"more?">>>>) BY <1>2, <2>4 DEF WaitIdle
    <3> QED BY <2>1, <3>1, EndOne
  <2> QED BY <2>3, <2>4
<1>3. CASE WaitLook
  <2>1. /\ At(Host, "done?")
        /\ UNCHANGED <<state, shared, node, source, sink, inFlight, pool, delegated>>
    BY <1>3 DEF WaitLook
  <2>2. CASE moved
    <3>1. Go(Host, <<<<"wait">>>>) BY <1>3, <2>2 DEF WaitLook, Wait
    <3> QED BY <2>1, <3>1, EndOne
  <2>3. CASE ~moved /\ AllClosed /\ inFlight = 0
    <3>1. Go(Host, <<<<"idle?">>>>) BY <1>3, <2>3 DEF WaitLook
    <3> QED BY <2>1, <2>3, <3>1, EndOne
  <2>4. CASE ~moved /\ ~(AllClosed /\ inFlight = 0)
    <3>1. Go(Host, <<<<"more?">>>>) BY <1>3, <2>4 DEF WaitLook
    <3> QED BY <2>1, <3>1, EndOne
  <2> QED BY <2>2, <2>3, <2>4
<1> QED BY <1>1, <1>2, <1>3

---------------------------------------------------------------------------
(* The host: start, reset and free.                                         *)

\* A step of the host outside the calls of the nodes.
HostKindsOnly == {"open", "running", "clear", "initialized", "join"}
NotPushed == {"submit", "run", "process", "land", "closing", "idle?", "completed", "flush", "release"}

LEMMA HostFrame ==
    ASSUME IInv, NEW steps, NEW r, Advances(Host, steps, r),
           Len(todo[Host]) >= 1 => /\ Kind(Host, 1) \in HostKindsOnly
                                   /\ Kind(Host, 1) = "join" => \A w \in Workers : Away(w),
           \A i \in 1 .. Len(steps) : steps[i][1] \notin NotPushed,
           Len(steps) >= 1 => steps[1][1] \notin {"drop", "freed"},
           EndsAdvance(Host, steps),
           \/ state' # "Terminated"
           \/ state' = state /\ (Len(todo[Host]) >= 1 => Kind(Host, 1) # "initialized"),
           state' = state \/ state' \in Live \/ state = "Terminated",
           pool'.ready = pool.ready, pool'.running = pool.running,
           pool'.workers = pool.workers, pool'.exited = pool.exited,
           \/ pool'.started = pool.started
           \/ pool'.started /\ Len(todo[Host]) >= 1 /\ Kind(Host, 1) = "running",
           delegated' = delegated,
           \A n \in Nodes :
               /\ node'[n].closeStarted = node[n].closeStarted /\ node'[n].closed = node[n].closed
               /\ node'[n].line = node[n].line /\ node'[n].flushing = node[n].flushing
               /\ node[n].opened => node'[n].opened
    PROVE  ListsOK' /\ ShapeInv' /\ CloseInv' /\ PoolInv' /\ CallsInv'
<1>1. TypeOK /\ ListsOK /\ ShapeInv /\ PhaseInv /\ CloseInv /\ PoolInv /\ CallsInv BY DEF IInv
<1>2. Host \in Threads /\ Host \notin Workers BY ThreadsAssumption DEF Threads
<1>3. Len(todo[Host]) \in Nat /\ Len(steps) \in Nat BY <1>1, <1>2, Deeper
<1>4. Len(steps) >= 1 => 1 \in 1 .. Len(steps) BY <1>3
<1>5. ListsOK' /\ ShapeInv'
  <2>1. \A i \in 1 .. Len(steps) : steps[i][1] \in FrontKinds => i = 1 BY DEF FrontKinds, NotPushed
  <2> QED BY <1>1, <1>2, <2>1, ShapeStep
<1>6. CloseInv'
  <2>1. Len(todo[Host]) >= 1 => Kind(Host, 1) \notin {"closing", "drop", "freed"} BY DEF HostKindsOnly
  <2>2. Len(steps) >= 1 => steps[1][1] \notin {"closing", "freed", "idle?"} BY <1>4 DEF NotPushed
  <2>3. \A n \in Nodes : At(Host, "freed") => node'[n].opened = node[n].opened
    BY <1>1, <1>2, <2>1, AtFirst
  <2> QED BY <1>1, <1>2, <2>1, <2>2, <2>3, CloseStep
<1>7. PoolInv'
  <2>1. Len(todo[Host]) >= 1 => Kind(Host, 1) # "completed" BY DEF HostKindsOnly
  <2>2. \A i \in 1 .. Len(steps) : steps[i][1] # "completed" BY DEF NotPushed
  <2>3. \/ pool'.started = pool.started
        \/ pool'.started /\ ~Joined /\ (Len(todo[Host]) >= 1 => Kind(Host, 1) # "join")
    BY <1>1, <1>2, AtFirst DEF Joined
  <2> QED BY <1>1, <1>2, <2>1, <2>2, <2>3, PoolStep
<1>8. CallsInv'
  <2>1. LineInv'
    <3> SUFFICES ASSUME NEW n \in Nodes, node'[n].line # <<>>
                 PROVE  node'[n].opened /\ ~node'[n].closeStarted /\ state' \in Live
      BY DEF LineInv
    <3>1. node[n].opened /\ ~node[n].closeStarted /\ state \in Live BY <1>1 DEF CallsInv, LineInv
    <3> QED BY <3>1 DEF Live
  <2>2. \A i \in 1 .. Len(steps) :
            steps[i][1] \notin {"submit", "run", "process", "land", "flush", "release"}
    BY DEF NotPushed
  <2>3. Len(todo[Host]) >= 1 =>
            Kind(Host, 1) \notin {"submit", "run", "process", "land", "flush", "release"}
    BY DEF HostKindsOnly
  <2> QED BY <1>1, <1>2, <2>1, <2>2, <2>3, CallsStep
<1> QED BY <1>5, <1>6, <1>7, <1>8

\* What the frame asks of the steps that are pushed when there are none, or
\* none of the end.
LEMMA PlainEnds ==
    ASSUME NEW steps, Len(steps) \in Nat,
           \A i \in 1 .. Len(steps) : steps[i][1] \notin {"drop", "freed"},
           Len(todo[Host]) >= 1 => Kind(Host, 1) \notin {"join", "drop"} \/ steps = <<>>
    PROVE  EndsAdvance(Host, steps) /\ (Len(steps) >= 1 => steps[1][1] \notin {"drop", "freed"})
<1>1. Len(steps) >= 1 => 1 \in 1 .. Len(steps) OBVIOUS
<1> QED BY <1>1 DEF EndsAdvance

LEMMA NoSteps ==
    /\ <<>> \in Seq(Steps) /\ Len(<<>>) = 0 /\ \A i \in 1 .. Len(<<>>) : FALSE
    /\ EndsAdvance(Host, <<>>)
<1>1. <<>> \in Seq(Steps) /\ Len(<<>>) = 0 BY Lists
<1>2. \A i \in 1 .. Len(<<>>) : FALSE BY <1>1
<1> QED BY <1>1, <1>2 DEF EndsAdvance

\* The list of the host after a step that pushes nothing.
LEMMA HostTail ==
    ASSUME ListsOK, NEW k, At(Host, k), Go(Host, <<>>)
    PROVE  /\ todo'[Host] = Tail(todo[Host]) /\ Len(todo[Host]) >= 1 /\ Kind(Host, 1) = k
           /\ Advances(Host, <<>>, Len(todo[Host]) - 1) /\ \A w \in Workers : todo'[w] = todo[w]
<1>1. Host \in Threads /\ Host \notin Workers /\ Workers \subseteq Threads
  BY ThreadsAssumption DEF Threads
<1>2. Advances(Host, <<>>, Len(todo[Host]) - 1) /\ Len(todo[Host]) >= 1 /\ Kind(Host, 1) = k
  BY <1>1, NoSteps, GoAdvances
<1>3. todo[Host] \in Seq(Steps) BY <1>1 DEF ListsOK
<1>4. todo'[Host] = <<>> \o Tail(todo[Host]) /\ \A w \in Workers : todo'[w] = todo[w]
  BY <1>1 DEF Go, ListsOK
<1>5. Tail(todo[Host]) \in Seq(Steps)
  <2>1. todo[Host] # <<>> BY <1>1, <1>2, AtFirst DEF Idle
  <2> HIDE DEF Steps
  <2> QED BY <2>1, <1>3, HeadTailProperties
<1>6. <<>> \o Tail(todo[Host]) = Tail(todo[Host])
  <2> HIDE DEF Steps
  <2> QED BY <1>5, ConcatEmptySeq
<1> QED BY <1>2, <1>4, <1>6

\* The steps of a start.
LEMMA StartShape ==
    ASSUME NEW s \in StartTails
    PROVE  /\ Len(s) \in {2, 3, 4} /\ \A i \in 1 .. Len(s) : s[i][1] \in {"open", "running", "try"}
           /\ s[1][1] = "open" => Tail(s) \in StartTails
           /\ s[1][1] = "running" => \A i \in 2 .. Len(s) : s[i][1] = "try"
<1>1. \A i : /\ i \in 1 .. 4 <=> i \in 1 .. 3 \/ i = 4
             /\ i \in 1 .. 3 <=> i \in 1 .. 2 \/ i = 3
             /\ i \in 1 .. 2 <=> i = 1 \/ i = 2
             /\ i \in 2 .. 2 <=> i = 2
  OBVIOUS
<1>2. CASE s = <<<<"open", "source">>, <<"open", "sink">>, <<"running">>, <<"try", "source">>>>
  <2>1. /\ Len(s) = 4 /\ s[1] = <<"open", "source">> /\ s[2] = <<"open", "sink">>
        /\ s[3] = <<"running">> /\ s[4] = <<"try", "source">>
    BY <1>2
  <2>2. Tail(s) = <<<<"open", "sink">>, <<"running">>, <<"try", "source">>>> BY <1>2
  <2>3. Tail(s) \in StartTails BY <2>2 DEF StartTails
  <2> QED BY <1>1, <2>1, <2>3
<1>3. CASE s = <<<<"open", "sink">>, <<"running">>, <<"try", "source">>>>
  <2>1. /\ Len(s) = 3 /\ s[1] = <<"open", "sink">>
        /\ s[2] = <<"running">> /\ s[3] = <<"try", "source">>
    BY <1>3
  <2>2. Tail(s) = <<<<"running">>, <<"try", "source">>>> BY <1>3
  <2>3. Tail(s) \in StartTails BY <2>2 DEF StartTails
  <2> QED BY <1>1, <2>1, <2>3
<1>4. CASE s = <<<<"running">>, <<"try", "source">>>>
  <2>1. Len(s) = 2 /\ s[1] = <<"running">> /\ s[2] = <<"try", "source">> BY <1>4
  <2> QED BY <1>1, <2>1
<1> QED BY <1>2, <1>3, <1>4 DEF StartTails

\* What the host has to do, after its list was changed.
LEMMA HostLists ==
    ASSUME ListsOK', NEW k
    PROVE  /\ Has(Host, k)' <=> \E i \in 1 .. Len(todo'[Host]) : todo'[Host][i][1] = k
           /\ At(Host, k)' => Has(Host, k)'
<1>1. Host \in Threads BY DEF Threads
<1>2. DOMAIN todo'[Host] = 1 .. Len(todo'[Host]) /\ Len(todo'[Host]) \in Nat
  BY <1>1, LenProperties DEF ListsOK
<1>3. At(Host, k)' => Len(todo'[Host]) >= 1 /\ todo'[Host][1][1] = k BY <1>1, AtFirstNext
<1> QED BY <1>2, <1>3 DEF Has, Kind

\* A start that goes on, or has failed.
LEMMA StartPhase ==
    ASSUME IInv, ListsOK', state = "Initialized", state' = "Initialized",
           todo'[Host] \in StartTails \/ todo'[Host] = <<>>,
           \A w \in Workers : todo'[w] = todo[w],
           UNCHANGED <<source, sink, inFlight, pool, delegated>>, Stopped => Stopped'
    PROVE  PhaseInv'
<1>1. PhaseInv BY DEF IInv
<1>2. \A i \in 1 .. Len(todo'[Host]) : todo'[Host][i][1] \in {"open", "running", "try"}
  <2>1. CASE todo'[Host] = <<>>
    <3>1. Len(todo'[Host]) = 0 BY <2>1, NoSteps
    <3> QED BY <3>1
  <2> QED BY <2>1, StartShape
<1>3. ~Has(Host, "renew")' /\ ~Has(Host, "initialized")' /\ ~At(Host, "initialized")'
  BY <1>2, HostLists
<1>4. ResetInv' BY <1>3 DEF ResetInv
<1>5. OpenInv'
  <2>1. todo'[Host] = <<>> => ~Has(Host, "open")' BY HostLists, NoSteps
  <2> QED BY <2>1 DEF OpenInv
<1>6. CalmInv'
  <2> SUFFICES ASSUME todo'[Host] \notin StartTails, NEW i \in 1 .. Len(todo'[Host])
               PROVE  FALSE
    BY DEF CalmInv
  <2> QED BY NoSteps
<1>7. SleepInv'
  <2>1. Asleep BY DEF Asleep
  <2> QED BY <1>1, <2>1 DEF PhaseInv, SleepInv, Kind
<1>8. FreshInv'
  <2>1. Fresh BY DEF Fresh
  <2>2. delegated = 0 /\ sink.backlog = 0 /\ ~source.waiting /\ ~source.done
    BY <1>1, <2>1 DEF PhaseInv, FreshInv
  <2>3. ~Stopped' => ~sink.inputClosed BY <1>1, <2>1 DEF PhaseInv, FreshInv
  <2> QED BY <1>3, <2>2, <2>3 DEF FreshInv, Stopped
<1> QED BY <1>4, <1>5, <1>6, <1>7, <1>8 DEF PhaseInv

LEMMA StartStep ==
    ASSUME IInv, Start
    PROVE  IInv'
<1>1. TypeOK /\ ListsOK BY DEF IInv
<1>2. Host \in Threads /\ Host \notin Workers /\ Workers \subseteq Threads
  BY ThreadsAssumption DEF Threads
<1> DEFINE steps == <<<<"open", "source">>, <<"open", "sink">>, <<"running">>, <<"try", "source">>>>
<1>3. steps \in StartTails BY DEF StartTails
<1>4. steps \in Seq(Steps)
  <2>1. /\ <<"open", "source">> \in Steps /\ <<"open", "sink">> \in Steps
        /\ <<"running">> \in Steps /\ <<"try", "source">> \in Steps
    BY StepForms DEF NodeKinds, PlainKinds, Nodes
  <2> QED BY <2>1, Lists
<1>5. Idle(Host) /\ Call(Host, steps) BY DEF Start
<1>6. steps[1][1] = "open" OBVIOUS
<1> HIDE DEF steps
<1>7. \A i \in 1 .. Len(steps) : steps[i][1] \in {"open", "running", "try"} BY <1>3, StartShape
<1>8. Advances(Host, steps, 0) /\ Len(todo[Host]) = 0 BY <1>1, <1>2, <1>4, <1>5, CallAdvances
<1>9. todo'[Host] = steps /\ \A w \in Workers : todo'[w] = todo[w] BY <1>1, <1>2, <1>5 DEF Call, ListsOK
<1>10. UNCHANGED <<state, shared, node, source, sink, inFlight, pool, delegated>> BY DEF Start
<1>11. state = "Initialized" BY DEF Start
<1>12. TypeOK' BY <1>1, <1>10 DEF TypeOK
<1>13. ListsOK' /\ ShapeInv' /\ CloseInv' /\ PoolInv' /\ CallsInv'
  <2>1. \A i \in 1 .. Len(steps) : steps[i][1] \notin NotPushed BY <1>7 DEF NotPushed
  <2>2. EndsAdvance(Host, steps) /\ (Len(steps) >= 1 => steps[1][1] \notin {"drop", "freed"})
    <3>1. Len(steps) \in Nat BY <1>3, StartShape
    <3> QED BY <1>7, <1>8, <3>1, PlainEnds
  <2>3. ~(Len(todo[Host]) >= 1) BY <1>8
  <2> QED BY <1>8, <1>10, <1>11, <2>1, <2>2, <2>3, HostFrame
<1>14. PhaseInv' BY <1>3, <1>9, <1>10, <1>11, <1>13, StartPhase DEF Stopped
<1> QED BY <1>12, <1>13, <1>14 DEF IInv

\* Where a start stands.
LEMMA OpenWhere ==
    ASSUME IInv, At(Host, "open")
    PROVE  state = "Initialized" /\ todo[Host] \in StartTails /\ Arg(Host) \in Nodes
<1>1. Host \in Threads BY DEF Threads
<1>2. Has(Host, "open") BY <1>1, HasNow DEF IInv
<1>3. Arg(Host) \in Nodes BY <1>1, AtFirst, StepShape DEF IInv, Kind, NodeKinds
<1> QED BY <1>2, <1>3 DEF IInv, PhaseInv, OpenInv

\* Only that a node is opened is changed.
LEMMA OpenedChange ==
    ASSUME TypeOK, NEW n \in Nodes, NEW fails \in BOOLEAN,
           node' = [node EXCEPT ![n].opened = @ \/ ~fails]
    PROVE  /\ node' \in [Nodes -> [opened : BOOLEAN, closeStarted : BOOLEAN, closed : BOOLEAN,
                                   line : Seq(Entries), flushing : BOOLEAN]]
           /\ \A m \in Nodes : /\ node'[m].closed = node[m].closed
                               /\ node'[m].line = node[m].line
                               /\ node'[m].flushing = node[m].flushing
                               /\ node'[m].closeStarted = node[m].closeStarted
                               /\ node[m].opened => node'[m].opened
<1> DEFINE S == Seq(Entries)
<1>1. node \in [Nodes -> [opened : BOOLEAN, closeStarted : BOOLEAN, closed : BOOLEAN,
                          line : S, flushing : BOOLEAN]]
  BY DEF TypeOK
<1> HIDE DEF S
<1>2. /\ node' \in [Nodes -> [opened : BOOLEAN, closeStarted : BOOLEAN, closed : BOOLEAN,
                              line : S, flushing : BOOLEAN]]
      /\ \A m \in Nodes : /\ node'[m].closed = node[m].closed
                          /\ node'[m].line = node[m].line
                          /\ node'[m].flushing = node[m].flushing
                          /\ node'[m].closeStarted = node[m].closeStarted
                          /\ node[m].opened => node'[m].opened
  BY <1>1
<1> QED BY <1>2 DEF S

\* A start that failed: the host goes on with nothing.
LEMMA OpenFails ==
    ASSUME IInv, At(Host, "open"), Call(Host, <<>>), UNCHANGED <<state, source, sink, inFlight, pool, delegated>>,
           Stopped', TypeOK',
           \A m \in Nodes : /\ node'[m].closed = node[m].closed
                            /\ node'[m].line = node[m].line
                            /\ node'[m].flushing = node[m].flushing
                            /\ node'[m].closeStarted = node[m].closeStarted
                            /\ node[m].opened => node'[m].opened
    PROVE  IInv'
<1>1. TypeOK /\ ListsOK /\ ShapeInv /\ PhaseInv /\ CloseInv /\ PoolInv /\ CallsInv BY DEF IInv
<1>2. Host \in Threads /\ Host \notin Workers /\ Workers \subseteq Threads /\ Threads = Workers \cup {Host}
  BY ThreadsAssumption DEF Threads
<1>3. state = "Initialized" BY OpenWhere
<1>4. ListsOK' /\ todo'[Host] = <<>> /\ \A u \in Threads \ {Host} : todo'[u] = todo[u]
  <2>1. Pushed(Host, <<>>, 0) /\ todo'[Host] = <<>> BY <1>1, <1>2, NoSteps, CallPushes
  <2> QED BY <2>1 DEF Pushed, ListsOK
<1>5. Len(todo'[Host]) = 0 /\ \A i \in 1 .. Len(todo'[Host]) : FALSE BY <1>4, NoSteps
<1>6. \A w \in Workers : todo'[w] = todo[w] /\ w # Host BY <1>2, <1>4
<1>7. \A k : ~At(Host, k)' BY <1>4 DEF At, Idle
<1>8. \A k : At(Host, k) => k = "open" BY DEF At
<1>9. \A w \in Workers : /\ \A k : At(w, k)' <=> At(w, k)
                         /\ Arg(w)' = Arg(w) /\ Idle(w)' = Idle(w)
  BY <1>6 DEF At, Idle, Arg
<1>10. ShapeInv'
  <2>1. FrontInv' BY <1>1, <1>2, <1>5, <1>6 DEF ShapeInv, FrontInv, Kind
  <2>2. WorkerInv' BY <1>1, <1>6 DEF ShapeInv, WorkerInv, Kind
  <2>3. DropInv' BY <1>5 DEF DropInv
  <2> QED BY <2>1, <2>2, <2>3 DEF ShapeInv
<1>11. PhaseInv' BY <1>3, <1>4, <1>6, StartPhase
<1>12. CloseInv'
  <2>1. TermInv' BY <1>3 DEF TermInv
  <2>2. ClosedInv' BY <1>1, <1>8 DEF CloseInv, ClosedInv
  <2>3. CloserInv'
    <3> SUFFICES ASSUME NEW t \in Threads, At(t, "closing")' PROVE node'[Arg(t)'].closeStarted
      BY DEF CloserInv
    <3>1. t \in Workers /\ At(t, "closing") /\ Arg(t)' = Arg(t) BY <1>2, <1>7, <1>9
    <3>2. Arg(t) \in Nodes BY <1>1, <3>1, AtFirst, StepShape DEF Kind, NodeKinds
    <3> QED BY <1>1, <3>1, <3>2 DEF CloseInv, CloserInv
  <2>4. ClosingInv'
    <3> SUFFICES ASSUME NEW n \in Nodes, node[n].closeStarted, ~node[n].closed
                 PROVE  \E t \in Threads : At(t, "closing")' /\ Arg(t)' = n
      BY DEF ClosingInv
    <3>1. PICK t \in Threads : At(t, "closing") /\ Arg(t) = n BY <1>1 DEF CloseInv, ClosingInv
    <3>2. t \in Workers BY <3>1, <1>2, <1>8
    <3> QED BY <3>1, <3>2, <1>9
  <2>5. LookInv' /\ FreedInv' BY <1>7 DEF LookInv, FreedInv
  <2> QED BY <2>1, <2>2, <2>3, <2>4, <2>5 DEF CloseInv
<1>13. PoolInv'
  <2>1. \A w \in Workers : Has(w, "completed")' <=> Has(w, "completed") BY <1>6 DEF Has, Kind
  <2>2. {w \in Workers : Has(w, "completed")'} = {w \in Workers : Has(w, "completed")} BY <2>1
  <2>3. RunningInv' BY <1>1, <2>2 DEF PoolInv, RunningInv
  <2>4. AwayInv' BY <1>1, <1>9 DEF PoolInv, AwayInv, Away
  <2>5. JoinInv' BY <1>7 DEF JoinInv, Joined
  <2> QED BY <2>3, <2>4, <2>5 DEF PoolInv
<1>14. CallsInv'
  <2>1. LineInv' BY <1>1 DEF CallsInv, LineInv
  <2>2. CallInv'
    <3> SUFFICES ASSUME NEW t \in Threads, At(t, "process")' \/ At(t, "land")'
                 PROVE  \E i \in 1 .. Len(node'[Arg(t)'].line) : node'[Arg(t)'].line[i] = t
      BY DEF CallInv
    <3>1. (At(t, "process") \/ At(t, "land")) /\ Arg(t)' = Arg(t) BY <1>2, <1>7, <1>9
    <3>2. Arg(t) \in Nodes BY <1>1, <3>1, AtFirst, StepShape DEF Kind, NodeKinds
    <3> QED BY <1>1, <3>1, <3>2 DEF CallsInv, CallInv
  <2>3. ASSUME NEW n \in Nodes PROVE Holders(n)' = Holders(n)
    BY <1>2, <1>7, <1>8, <1>9 DEF Holders
  <2>4. "source" \in Nodes /\ "sink" \in Nodes BY DEF Nodes
  <2>5. CountInv' BY <1>1, <2>3, <2>4 DEF CallsInv, CountInv, Places
  <2>6. FlushInv'
    <3>1. ASSUME NEW u \in Threads, NEW j, NEW n, Flushes(u, j, n)'
          PROVE  Flushes(u, j, n) /\ todo'[u] = todo[u]
      <4>1. u # Host BY <3>1, <1>5 DEF Flushes
      <4> QED BY <3>1, <4>1, <1>4 DEF Flushes, Kind
    <3> SUFFICES ASSUME NEW u \in Threads, NEW n \in Nodes, NEW i \in 1 .. Len(todo'[u]),
                        Flushes(u, i, n)'
                 PROVE  /\ node'[n].flushing
                        /\ \A v \in Threads, j \in Nat : Flushes(v, j, n)' => v = u /\ j = i
                        /\ Kind(u, i)' = "release" =>
                               node'[n].line # <<>> /\ node'[n].line[1] = "emitted"
      BY DEF FlushInv
    <3>2. Flushes(u, i, n) /\ todo'[u] = todo[u] /\ Kind(u, i)' = Kind(u, i) BY <3>1 DEF Kind
    <3> QED BY <1>1, <3>1, <3>2 DEF CallsInv, FlushInv
  <2> QED BY <2>1, <2>2, <2>5, <2>6 DEF CallsInv
<1> QED BY <1>4, <1>10, <1>11, <1>12, <1>13, <1>14 DEF IInv

LEMMA OpenStep ==
    ASSUME IInv, Open
    PROVE  IInv'
<1>1. TypeOK /\ ListsOK BY DEF IInv
<1>2. Host \in Threads /\ Host \notin Workers /\ Workers \subseteq Threads
  BY ThreadsAssumption DEF Threads
<1>3. At(Host, "open") BY DEF Open
<1>4. state = "Initialized" /\ todo[Host] \in StartTails /\ Arg(Host) \in Nodes BY <1>3, OpenWhere
<1>5. PICK fails \in {FALSE, ~node[Arg(Host)].opened} :
          /\ shared' = [shared EXCEPT !.error = @ \/ fails]
          /\ node' = [node EXCEPT ![Arg(Host)].opened = @ \/ ~fails]
          /\ IF fails THEN Call(Host, <<>>) ELSE Go(Host, <<>>)
  BY DEF Open
<1>6. fails \in BOOLEAN OBVIOUS
<1>7. UNCHANGED <<state, source, sink, inFlight, pool, delegated>> BY DEF Open
<1>8. /\ node' \in [Nodes -> [opened : BOOLEAN, closeStarted : BOOLEAN, closed : BOOLEAN,
                              line : Seq(Entries), flushing : BOOLEAN]]
      /\ \A m \in Nodes : /\ node'[m].closed = node[m].closed
                          /\ node'[m].line = node[m].line
                          /\ node'[m].flushing = node[m].flushing
                          /\ node'[m].closeStarted = node[m].closeStarted
                          /\ node[m].opened => node'[m].opened
  BY <1>1, <1>4, <1>5, <1>6, OpenedChange
<1>9. /\ shared' \in [error : BOOLEAN, cancelled : BOOLEAN]
      /\ shared'.error <=> shared.error \/ fails
      /\ shared'.cancelled = shared.cancelled
  <2>1. shared \in [error : BOOLEAN, cancelled : BOOLEAN] BY <1>1 DEF TypeOK
  <2>2. shared' = [shared EXCEPT !.error = @ \/ fails] BY <1>5
  <2> QED BY <2>1, <2>2, <1>6
<1>10. TypeOK' BY <1>1, <1>7, <1>8, <1>9 DEF TypeOK
<1>11. CASE fails
  <2>1. Stopped' BY <1>9, <1>11 DEF Stopped
  <2>2. Call(Host, <<>>) BY <1>5, <1>11
  <2> QED BY <1>3, <1>7, <1>8, <1>10, <2>1, <2>2, OpenFails
<1>12. CASE ~fails
  <2>1. Go(Host, <<>>) BY <1>5, <1>12
  <2>2. /\ todo'[Host] = Tail(todo[Host]) /\ Len(todo[Host]) >= 1 /\ Kind(Host, 1) = "open"
        /\ Advances(Host, <<>>, Len(todo[Host]) - 1) /\ \A w \in Workers : todo'[w] = todo[w]
    BY <1>1, <1>3, <2>1, HostTail
  <2>3. todo'[Host] \in StartTails BY <1>4, <2>2, StartShape DEF Kind
  <2>4. Stopped => Stopped' BY <1>9 DEF Stopped
  <2>5. ListsOK' /\ ShapeInv' /\ CloseInv' /\ PoolInv' /\ CallsInv'
    <3>1. Kind(Host, 1) \in HostKindsOnly /\ Kind(Host, 1) # "join" BY <2>2 DEF HostKindsOnly
    <3> QED BY <1>4, <1>7, <1>8, <2>2, <3>1, NoSteps, HostFrame
  <2>6. PhaseInv' BY <1>4, <1>7, <2>2, <2>3, <2>4, <2>5, StartPhase
  <2> QED BY <1>10, <2>5, <2>6 DEF IInv
<1> QED BY <1>11, <1>12

\* The steps of a reset.
LEMMA ResetShape ==
    ASSUME NEW s \in ResetTails
    PROVE  /\ Len(s) \in {1, 2, 3}
           /\ \A i \in 1 .. Len(s) : s[i][1] \in {"clear", "renew", "initialized"}
           /\ s[1][1] = "clear" => Tail(s) = <<<<"renew">>, <<"initialized">>>>
           /\ s[1][1] = "renew" => s = <<<<"renew">>, <<"initialized">>>>
           /\ s[1][1] = "initialized" => s = <<<<"initialized">>>>
<1>1. \A i : /\ i \in 1 .. 3 <=> i \in 1 .. 2 \/ i = 3
             /\ i \in 1 .. 2 <=> i = 1 \/ i = 2
             /\ i \in 1 .. 1 <=> i = 1
  OBVIOUS
<1>2. CASE s = <<<<"clear">>, <<"renew">>, <<"initialized">>>>
  <2>1. Len(s) = 3 /\ s[1] = <<"clear">> /\ s[2] = <<"renew">> /\ s[3] = <<"initialized">> BY <1>2
  <2>2. Tail(s) = <<<<"renew">>, <<"initialized">>>> BY <1>2
  <2> QED BY <1>1, <2>1, <2>2
<1>3. CASE s = <<<<"renew">>, <<"initialized">>>>
  <2>1. Len(s) = 2 /\ s[1] = <<"renew">> /\ s[2] = <<"initialized">> BY <1>3
  <2> QED BY <1>1, <1>3, <2>1
<1>4. CASE s = <<<<"initialized">>>>
  <2>1. Len(s) = 1 /\ s[1] = <<"initialized">> BY <1>4
  <2> QED BY <1>1, <1>4, <2>1
<1> QED BY <1>2, <1>3, <1>4 DEF ResetTails

\* Where a reset stands.
LEMMA ResetWhere ==
    ASSUME IInv, NEW k \in {"renew", "initialized"}, At(Host, k)
    PROVE  /\ state = "Terminated" /\ Asleep
           /\ k = "renew" => todo[Host] = <<<<"renew">>, <<"initialized">>>>
           /\ k = "initialized" => todo[Host] = <<<<"initialized">>>>
<1>1. Host \in Threads BY DEF Threads
<1>2. Has(Host, k) BY <1>1, HasNow DEF IInv
<1>3. state = "Terminated" /\ todo[Host] \in ResetTails BY <1>2 DEF IInv, PhaseInv, ResetInv
<1>4. Kind(Host, 1) = k BY <1>1, AtFirst DEF IInv
<1>5. /\ k = "renew" => todo[Host] = <<<<"renew">>, <<"initialized">>>>
      /\ k = "initialized" => todo[Host] = <<<<"initialized">>>>
  BY <1>3, <1>4, ResetShape DEF Kind
<1>6. Asleep
  <2>1. CASE k = "initialized" BY <1>2, <2>1 DEF Asleep
  <2>2. CASE k = "renew"
    <3>1. Len(todo[Host]) = 2 /\ todo[Host][2] = <<"initialized">> BY <1>5, <2>2
    <3>2. Kind(Host, 2) = "initialized" /\ 2 \in 2 .. Len(todo[Host]) BY <3>1 DEF Kind
    <3> QED BY <1>1, <3>2, HasNow DEF IInv, Asleep
  <2> QED BY <2>1, <2>2
<1> QED BY <1>3, <1>5, <1>6

LEMMA RunningStep ==
    ASSUME IInv, Running
    PROVE  IInv'
<1>1. TypeOK /\ ListsOK /\ ShapeInv /\ PhaseInv BY DEF IInv
<1>2. Host \in Threads /\ Host \notin Workers /\ Workers \subseteq Threads
  BY ThreadsAssumption DEF Threads
<1>3. At(Host, "running") /\ Go(Host, <<>>) BY DEF Running
<1>4. /\ todo'[Host] = Tail(todo[Host]) /\ Len(todo[Host]) >= 1 /\ Kind(Host, 1) = "running"
      /\ Advances(Host, <<>>, Len(todo[Host]) - 1) /\ \A w \in Workers : todo'[w] = todo[w]
  BY <1>1, <1>3, HostTail
<1>5. state' = "Running" /\ UNCHANGED <<shared, node, source, sink, inFlight, delegated>>
  BY DEF Running
<1>6. /\ pool'.ready = pool.ready /\ pool'.delayed = pool.delayed /\ pool'.running = pool.running
      /\ pool'.workers = pool.workers /\ pool'.exited = pool.exited /\ pool'.started
  BY <1>1 DEF Running, TypeOK
<1>7. TypeOK'
  <2>1. pool' \in [workers : SUBSET Workers, ready : Seq(Nat), delayed : SUBSET (Nat \ {0}),
                   running : Int, started : BOOLEAN, stop : BOOLEAN, exited : SUBSET Workers]
    BY <1>1 DEF Running, TypeOK
  <2> QED BY <1>1, <1>5, <2>1 DEF TypeOK
<1>8. ListsOK' /\ ShapeInv' /\ CloseInv' /\ PoolInv' /\ CallsInv'
  <2>1. Kind(Host, 1) \in HostKindsOnly /\ Kind(Host, 1) # "join" BY <1>4 DEF HostKindsOnly
  <2>2. state' \in Live /\ state' # "Terminated" BY <1>5 DEF Live
  <2>3. \A n \in Nodes :
            /\ node'[n].closeStarted = node[n].closeStarted /\ node'[n].closed = node[n].closed
            /\ node'[n].line = node[n].line /\ node'[n].flushing = node[n].flushing
            /\ node[n].opened => node'[n].opened
    BY <1>5
  <2>4. delegated' = delegated BY <1>5
  <2>5. pool'.started /\ Len(todo[Host]) >= 1 /\ Kind(Host, 1) = "running" BY <1>4, <1>6
  <2>6. \A i \in 1 .. Len(<<>>) : <<>>[i][1] \notin NotPushed BY NoSteps
  <2>7. Len(<<>>) >= 1 => <<>>[1][1] \notin {"drop", "freed"} BY NoSteps
  <2>8. Kind(Host, 1) = "join" => \A w \in Workers : Away(w) BY <2>1
  <2> HIDE DEF HostKindsOnly, NotPushed, Live
  <2> QED BY <1>4, <1>6, <2>1, <2>2, <2>3, <2>4, <2>5, <2>6, <2>7, <2>8, NoSteps, HostFrame
<1>9. PhaseInv'
  <2>1. ASSUME NEW k \in {"open", "renew", "initialized"} PROVE ~Has(Host, k)'
    <3> SUFFICES ASSUME Has(Host, k)' PROVE FALSE
      OBVIOUS
    <3>1. PICK i \in 2 .. Len(todo[Host]) : Kind(Host, i) = k
      BY <1>1, <1>2, <1>4, HasNext, NoSteps
    <3>2. Has(Host, k) BY <1>1, <1>2, <3>1, HasNow
    <3>3. CASE k = "open"
      <4>1. todo[Host] \in StartTails BY <1>1, <3>2, <3>3 DEF PhaseInv, OpenInv
      <4> QED BY <1>4, <3>1, <3>3, <4>1, StartShape DEF Kind
    <3>4. CASE k # "open"
      <4>1. todo[Host] \in ResetTails BY <1>1, <3>2, <3>4 DEF PhaseInv, ResetInv
      <4>2. 1 \in 1 .. Len(todo[Host]) BY <4>1, ResetShape
      <4> QED BY <1>4, <4>1, <4>2, ResetShape DEF Kind
    <3> QED BY <3>3, <3>4
  <2>2. ~Asleep' /\ ~Fresh' BY <1>5, <1>8, <2>1, HostLists DEF Asleep, Fresh
  <2> QED BY <1>5, <2>1, <2>2 DEF PhaseInv, ResetInv, OpenInv, CalmInv, SleepInv, FreshInv
<1> QED BY <1>7, <1>8, <1>9 DEF IInv

\* No task runs: what the workers have left is after it.
LEMMA NoTask ==
    ASSUME IInv, pool.running = 0, NEW w \in Workers, NEW i \in 1 .. Len(todo[w])
    PROVE  Kind(w, i) \in AfterTask
<1>1. Workers \subseteq Threads BY DEF Threads
<1>2. {v \in Workers : Has(v, "completed")} = {}
  BY RunnersFinite, FS_EmptySet DEF IInv, PoolInv, RunningInv
<1>3. ~Has(w, "completed") BY <1>2
<1>4. DOMAIN todo[w] = 1 .. Len(todo[w]) /\ Len(todo[w]) \in Nat
  BY <1>1, LenProperties DEF IInv, ListsOK
<1>5. ~(Len(todo[w]) >= 1 /\ Kind(w, Len(todo[w])) = "completed") BY <1>3, <1>4 DEF Has
<1> QED BY <1>5 DEF IInv, ShapeInv, WorkerInv

LEMMA ResetStep ==
    ASSUME IInv, Reset
    PROVE  IInv'
<1>1. TypeOK /\ ListsOK BY DEF IInv
<1>2. Host \in Threads /\ Host \notin Workers /\ Workers \subseteq Threads
  BY ThreadsAssumption DEF Threads
<1> DEFINE steps == <<<<"clear">>, <<"renew">>, <<"initialized">>>>
<1>3. steps \in ResetTails BY DEF ResetTails
<1>4. steps \in Seq(Steps)
  <2>1. <<"clear">> \in Steps /\ <<"renew">> \in Steps /\ <<"initialized">> \in Steps
    BY StepForms DEF PlainKinds
  <2> QED BY <2>1, Lists
<1>5. Idle(Host) /\ Call(Host, steps) BY DEF Reset
<1>6. steps[1][1] = "clear" OBVIOUS
<1> HIDE DEF steps
<1>7. \A i \in 1 .. Len(steps) : steps[i][1] \in {"clear", "renew", "initialized"} BY <1>3, ResetShape
<1>8. Advances(Host, steps, 0) /\ Len(todo[Host]) = 0 BY <1>1, <1>2, <1>4, <1>5, CallAdvances
<1>9. todo'[Host] = steps /\ \A w \in Workers : todo'[w] = todo[w] BY <1>1, <1>2, <1>5 DEF Call, ListsOK
<1>10. UNCHANGED <<state, shared, node, source, sink, inFlight, pool, delegated>> BY DEF Reset
<1>11. state = "Terminated" /\ inFlight = 0 /\ PoolIdle BY DEF Reset, Quiescent
<1>12. TypeOK' BY <1>1, <1>10 DEF TypeOK
<1>13. ListsOK' /\ ShapeInv' /\ CloseInv' /\ PoolInv' /\ CallsInv'
  <2>1. \A i \in 1 .. Len(steps) : steps[i][1] \notin NotPushed BY <1>7 DEF NotPushed
  <2>2. EndsAdvance(Host, steps) /\ (Len(steps) >= 1 => steps[1][1] \notin {"drop", "freed"})
    <3>1. Len(steps) \in Nat BY <1>3, ResetShape
    <3> QED BY <1>7, <1>8, <3>1, PlainEnds
  <2>3. ~(Len(todo[Host]) >= 1) BY <1>8
  <2> QED BY <1>8, <1>10, <1>11, <2>1, <2>2, <2>3, HostFrame
<1>14. PhaseInv'
  <2>1. ~Has(Host, "open")' BY <1>7, <1>9, <1>13, HostLists
  <2>2. ~At(Host, "initialized")' BY <1>2, <1>6, <1>9, <1>13, AtFirstNext
  <2>3. ResetInv' BY <1>3, <1>9, <1>10, <1>11 DEF ResetInv
  <2>4. OpenInv' BY <2>1 DEF OpenInv
  <2>5. CalmInv' BY <1>10, <1>11 DEF CalmInv
  <2>6. SleepInv'
    <3>1. \A w \in Workers : \A i \in 1 .. Len(todo[w]) : Kind(w, i) \in AfterTask
      BY <1>11, NoTask DEF PoolIdle
    <3> QED BY <1>9, <1>10, <1>11, <3>1 DEF SleepInv, PoolIdle, Kind
  <2>7. FreshInv' BY <1>10, <1>11, <2>2 DEF FreshInv, Fresh
  <2> QED BY <2>3, <2>4, <2>5, <2>6, <2>7 DEF PhaseInv
<1> QED BY <1>12, <1>13, <1>14 DEF IInv

LEMMA ClearStep ==
    ASSUME IInv, ClearShared
    PROVE  IInv'
<1>1. TypeOK /\ ListsOK /\ PhaseInv BY DEF IInv
<1>2. Host \in Threads /\ Host \notin Workers /\ Workers \subseteq Threads
  BY ThreadsAssumption DEF Threads
<1>3. At(Host, "clear") /\ Go(Host, <<>>) BY DEF ClearShared
<1>4. /\ todo'[Host] = Tail(todo[Host]) /\ Len(todo[Host]) >= 1 /\ Kind(Host, 1) = "clear"
      /\ Advances(Host, <<>>, Len(todo[Host]) - 1) /\ \A w \in Workers : todo'[w] = todo[w]
  BY <1>1, <1>3, HostTail
<1>5. UNCHANGED <<state, node, source, sink, inFlight, pool, delegated>> BY DEF ClearShared
<1>6. TypeOK'
  <2>1. shared' \in [error : BOOLEAN, cancelled : BOOLEAN] BY DEF ClearShared
  <2> QED BY <1>1, <1>5, <2>1 DEF TypeOK
<1>7. ASSUME NEW k \in {"open", "renew", "initialized"}, Has(Host, k)' PROVE Has(Host, k)
  BY <1>1, <1>2, <1>4, <1>7, HasNext, HasNow, NoSteps
<1>8. state # "Initialized"
  <2> SUFFICES ASSUME state = "Initialized" PROVE FALSE
    OBVIOUS
  <2>1. todo[Host] \in StartTails \/ \A i \in 1 .. Len(todo[Host]) : Calm(todo[Host][i], Stopped)
    BY <1>1 DEF PhaseInv, CalmInv
  <2>2. 1 \in 1 .. Len(todo[Host]) BY <1>1, <1>2, <1>4, AtFirst
  <2>3. todo[Host] \notin StartTails BY <1>4, <2>2, StartShape DEF Kind
  <2>4. Calm(todo[Host][1], Stopped) BY <2>1, <2>2, <2>3
  <2> QED BY <1>4, <2>4 DEF Calm, CalmKinds, Kind
<1>9. ListsOK' /\ ShapeInv' /\ CloseInv' /\ PoolInv' /\ CallsInv'
  <2>1. /\ Kind(Host, 1) \in HostKindsOnly /\ Kind(Host, 1) # "join" /\ Kind(Host, 1) # "initialized"
    BY <1>4 DEF HostKindsOnly
  <2>2. state' = state BY <1>5
  <2>3. \A n \in Nodes :
            /\ node'[n].closeStarted = node[n].closeStarted /\ node'[n].closed = node[n].closed
            /\ node'[n].line = node[n].line /\ node'[n].flushing = node[n].flushing
            /\ node[n].opened => node'[n].opened
    BY <1>5
  <2>4. delegated' = delegated /\ pool' = pool BY <1>5
  <2>5. \A i \in 1 .. Len(<<>>) : <<>>[i][1] \notin NotPushed BY NoSteps
  <2>6. Len(<<>>) >= 1 => <<>>[1][1] \notin {"drop", "freed"} BY NoSteps
  <2> QED BY <1>4, <2>1, <2>2, <2>3, <2>4, <2>5, <2>6, NoSteps, HostFrame
<1>10. Has(Host, "renew") \/ Has(Host, "initialized") =>
           state = "Terminated" /\ todo'[Host] = <<<<"renew">>, <<"initialized">>>>
  BY <1>1, <1>4, ResetShape DEF PhaseInv, ResetInv, Kind
<1>11. PhaseInv'
  <2>1. ResetInv'
    <3>1. <<<<"renew">>, <<"initialized">>>> \in ResetTails BY DEF ResetTails
    <3> QED BY <1>5, <1>7, <1>10, <3>1 DEF ResetInv
  <2>2. OpenInv' BY <1>1, <1>7, <1>8 DEF PhaseInv, OpenInv
  <2>3. CalmInv' BY <1>5, <1>8 DEF CalmInv
  <2>4. Asleep' => Asleep BY <1>5, <1>7 DEF Asleep
  <2>5. SleepInv' BY <1>1, <1>4, <1>5, <2>4 DEF PhaseInv, SleepInv, Kind
  <2>6. ~At(Host, "initialized")'
    <3> SUFFICES ASSUME At(Host, "initialized")' PROVE FALSE
      OBVIOUS
    <3>1. Has(Host, "initialized") BY <1>7, <1>9, HostLists
    <3>2. todo'[Host][1][1] = "renew" BY <1>10, <3>1
    <3> QED BY <1>2, <1>9, <3>2, AtFirstNext
  <2>7. FreshInv' BY <1>5, <1>8, <2>6 DEF FreshInv, Fresh
  <2> QED BY <2>1, <2>2, <2>3, <2>5, <2>7 DEF PhaseInv
<1> QED BY <1>6, <1>9, <1>11 DEF IInv

LEMMA InitializedStep ==
    ASSUME IInv, Initialized
    PROVE  IInv'
<1>1. TypeOK /\ ListsOK /\ PhaseInv BY DEF IInv
<1>2. Host \in Threads /\ Host \notin Workers /\ Workers \subseteq Threads
  BY ThreadsAssumption DEF Threads
<1>3. At(Host, "initialized") /\ Go(Host, <<>>) BY DEF Initialized
<1>4. /\ todo'[Host] = Tail(todo[Host]) /\ Len(todo[Host]) >= 1 /\ Kind(Host, 1) = "initialized"
      /\ Advances(Host, <<>>, Len(todo[Host]) - 1) /\ \A w \in Workers : todo'[w] = todo[w]
  BY <1>1, <1>3, HostTail
<1>5. state = "Terminated" /\ Asleep /\ todo[Host] = <<<<"initialized">>>> BY <1>3, ResetWhere
<1>6. todo'[Host] = <<>> BY <1>4, <1>5
<1>7. state' = "Initialized" /\ UNCHANGED <<shared, node, source, sink, inFlight, pool, delegated>>
  BY DEF Initialized
<1>8. TypeOK' BY <1>1, <1>7 DEF TypeOK
<1>9. ListsOK' /\ ShapeInv' /\ CloseInv' /\ PoolInv' /\ CallsInv'
  <2>1. Kind(Host, 1) \in HostKindsOnly /\ Kind(Host, 1) # "join" BY <1>4 DEF HostKindsOnly
  <2>2. state' # "Terminated" BY <1>7
  <2>3. \A n \in Nodes :
            /\ node'[n].closeStarted = node[n].closeStarted /\ node'[n].closed = node[n].closed
            /\ node'[n].line = node[n].line /\ node'[n].flushing = node[n].flushing
            /\ node[n].opened => node'[n].opened
    BY <1>7
  <2>4. delegated' = delegated /\ pool' = pool BY <1>7
  <2>5. \A i \in 1 .. Len(<<>>) : <<>>[i][1] \notin NotPushed BY NoSteps
  <2>6. Len(<<>>) >= 1 => <<>>[1][1] \notin {"drop", "freed"} BY NoSteps
  <2> QED BY <1>4, <1>5, <2>1, <2>2, <2>3, <2>4, <2>5, <2>6, NoSteps, HostFrame
<1>10. PhaseInv'
  <2>1. \A i \in 1 .. Len(todo'[Host]) : FALSE BY <1>6, NoSteps
  <2>2. ~Has(Host, "open")' /\ ~Has(Host, "renew")' /\ ~Has(Host, "initialized")'
    BY <1>9, <2>1, HostLists
  <2>3. ResetInv' /\ OpenInv' BY <2>2 DEF ResetInv, OpenInv
  <2>4. CalmInv' BY <2>1 DEF CalmInv
  <2>5. SleepInv' BY <1>1, <1>4, <1>5, <1>7 DEF PhaseInv, SleepInv, Kind
  <2>6. FreshInv'
    <3>1. Fresh BY <1>3 DEF Fresh
    <3>2. /\ delegated = 0 /\ sink.backlog = 0 /\ ~source.waiting /\ ~source.done
          /\ ~sink.inputClosed
      BY <1>1, <1>3, <3>1 DEF PhaseInv, FreshInv
    <3> QED BY <1>7, <3>2 DEF FreshInv
  <2> QED BY <2>3, <2>4, <2>5, <2>6 DEF PhaseInv
<1> QED BY <1>8, <1>9, <1>10 DEF IInv

\* A reset takes away what the run has left.
LEMMA RenewStep ==
    ASSUME IInv, Renew
    PROVE  IInv'
<1>1. TypeOK /\ ListsOK /\ ShapeInv /\ PhaseInv /\ PoolInv BY DEF IInv
<1>2. Host \in Threads /\ Host \notin Workers /\ Workers \subseteq Threads /\ Threads = Workers \cup {Host}
  BY ThreadsAssumption DEF Threads
<1>3. At(Host, "renew") /\ Go(Host, <<>>) BY DEF Renew
<1>4. /\ todo'[Host] = Tail(todo[Host]) /\ Len(todo[Host]) >= 1 /\ Kind(Host, 1) = "renew"
      /\ Advances(Host, <<>>, Len(todo[Host]) - 1) /\ \A w \in Workers : todo'[w] = todo[w]
  BY <1>1, <1>3, HostTail
<1>5. state = "Terminated" /\ Asleep /\ todo[Host] = <<<<"renew">>, <<"initialized">>>>
  BY <1>3, ResetWhere
<1>6. todo'[Host] = <<<<"initialized">>>> BY <1>4, <1>5
<1>7. Len(todo'[Host]) = 1 /\ todo'[Host][1][1] = "initialized" BY <1>6
<1>8. /\ pool.ready = <<>> /\ pool.running = 0
      /\ \A w \in Workers : \A i \in 1 .. Len(todo'[w]) : todo'[w][i][1] \in AfterTask
  BY <1>1, <1>4, <1>5 DEF PhaseInv, SleepInv, Kind
<1>9. /\ state' = state /\ shared' = shared
      /\ source' = [waiting |-> FALSE, reschedule |-> FALSE, done |-> FALSE,
                    generation |-> source.generation + 1]
      /\ sink' = [backlog |-> 0, inputClosed |-> FALSE]
      /\ inFlight' = 0 /\ delegated' = 0
      /\ node' = [n \in Nodes |-> NewSched(node[n].opened)]
  BY DEF Renew
<1>10. /\ pool'.ready = pool.ready /\ pool'.delayed = {} /\ pool'.running = pool.running
       /\ pool'.workers = pool.workers /\ pool'.exited = pool.exited
       /\ pool'.started = pool.started
  BY <1>1 DEF Renew, TypeOK
<1>11. \A n \in Nodes : ~node'[n].closeStarted /\ ~node'[n].closed /\ node'[n].line = <<>>
  BY <1>9 DEF NewSched
<1>12. TypeOK'
  <2>1. <<>> \in Seq(Entries) OBVIOUS
  <2>2. node' \in [Nodes -> [opened : BOOLEAN, closeStarted : BOOLEAN, closed : BOOLEAN,
                             line : Seq(Entries), flushing : BOOLEAN]]
    <3> DEFINE S == Seq(Entries)
    <3>1. \A n \in Nodes : node[n].opened \in BOOLEAN BY <1>1 DEF TypeOK
    <3>2. <<>> \in S BY <2>1
    <3> HIDE DEF S
    <3>3. node' \in [Nodes -> [opened : BOOLEAN, closeStarted : BOOLEAN, closed : BOOLEAN,
                               line : S, flushing : BOOLEAN]]
      BY <1>9, <3>1, <3>2 DEF NewSched
    <3> QED BY <3>3 DEF S
  <2>3. source.generation + 1 \in Nat BY <1>1 DEF TypeOK
  <2>4. source' \in [waiting : BOOLEAN, reschedule : BOOLEAN, done : BOOLEAN, generation : Nat]
    BY <1>9, <2>3
  <2>5. sink' \in [backlog : Nat, inputClosed : BOOLEAN] BY <1>9
  <2>6. pool' \in [workers : SUBSET Workers, ready : Seq(Nat), delayed : SUBSET (Nat \ {0}),
                   running : Int, started : BOOLEAN, stop : BOOLEAN, exited : SUBSET Workers]
    <3>1. {} \in SUBSET (Nat \ {0}) OBVIOUS
    <3> QED BY <1>1, <3>1 DEF Renew, TypeOK
  <2> QED BY <1>1, <1>9, <2>2, <2>4, <2>5, <2>6 DEF TypeOK
<1>13. ListsOK' /\ ShapeInv'
  <2>1. \A i \in 1 .. Len(<<>>) : <<>>[i][1] \in FrontKinds => i = 1 BY NoSteps
  <2> QED BY <1>1, <1>2, <1>4, <2>1, NoSteps, ShapeStep
<1>14. \A k : /\ At(Host, k)' <=> k = "initialized"
              /\ Has(Host, k)' <=> k = "initialized"
  <2>1. \A i \in 1 .. 1 : i = 1 OBVIOUS
  <2>2. 1 \in 1 .. 1 OBVIOUS
  <2> QED BY <1>2, <1>7, <1>13, <2>1, <2>2, AtFirstNext, HostLists
<1>15. \A w \in Workers : \A k : At(w, k)' => k \in AfterTask
  <2> SUFFICES ASSUME NEW w \in Workers, NEW k, At(w, k)' PROVE k \in AfterTask
    OBVIOUS
  <2>1. 1 \in 1 .. Len(todo'[w]) /\ todo'[w][1][1] = k BY <1>2, <1>13, AtFirstNext
  <2> QED BY <1>8, <2>1
<1>16. \A t \in Threads : \A k : At(t, k)' => k \in AfterTask \cup {"initialized"}
  BY <1>2, <1>14, <1>15
<1>17. PhaseInv'
  <2>1. ResetInv'
    <3>1. <<<<"initialized">>>> \in ResetTails BY DEF ResetTails
    <3> QED BY <1>5, <1>6, <1>9, <3>1 DEF ResetInv
  <2>2. OpenInv' BY <1>14 DEF OpenInv
  <2>3. CalmInv' BY <1>5, <1>9 DEF CalmInv
  <2>4. SleepInv' BY <1>8, <1>9, <1>10 DEF SleepInv, Kind
  <2>5. FreshInv' BY <1>9 DEF FreshInv
  <2> QED BY <2>1, <2>2, <2>3, <2>4, <2>5 DEF PhaseInv
<1>18. CloseInv'
  <2>1. TermInv' BY <1>14 DEF TermInv
  <2>2. ClosedInv' /\ ClosingInv' BY <1>11 DEF ClosedInv, ClosingInv
  <2>3. CloserInv' BY <1>16 DEF CloserInv, AfterTask
  <2>4. LookInv' /\ FreedInv' BY <1>14 DEF LookInv, FreedInv
  <2> QED BY <2>1, <2>2, <2>3, <2>4 DEF CloseInv
<1>19. PoolInv'
  <2>1. \A i \in 1 .. Len(<<>>) : <<>>[i][1] # "completed" BY NoSteps
  <2>2. Len(<<>>) >= 1 => <<>>[1][1] \notin {"drop", "freed"} BY NoSteps
  <2>3. Kind(Host, 1) # "completed" /\ Kind(Host, 1) # "join" BY <1>4
  <2> QED BY <1>1, <1>2, <1>4, <1>10, <2>1, <2>2, <2>3, PoolStep
<1>20. CallsInv'
  <2>1. LineInv' BY <1>11 DEF LineInv
  <2>2. CallInv' BY <1>16 DEF CallInv, AfterTask
  <2>3. CountInv'
    <3>1. \A n \in Nodes : Holders(n)' = {} BY <1>16 DEF Holders, AfterTask
    <3>2. Places(pool'.ready, RunTask) = {}
      <4>1. Len(pool'.ready) = 0 BY <1>8, <1>10, NoSteps
      <4> QED BY <4>1 DEF Places
    <3>3. Cardinality({}) = 0 BY FS_EmptySet
    <3>4. "source" \in Nodes /\ "sink" \in Nodes BY DEF Nodes
    <3>5. \A n \in Nodes : Cardinality(Places(node'[n].line, "claimed")) \in Nat
      <4>1. \A n \in Nodes : node'[n].line \in Seq(Entries) BY <1>12 DEF TypeOK
      <4> QED BY <4>1, PlacesFinite
    <3>6. /\ Cardinality(Places(pool'.ready, RunTask)) + Cardinality(Holders("source")')
                <= Cardinality(Places(node'["source"].line, "claimed"))
          /\ delegated' + Cardinality(Holders("sink")')
                <= Cardinality(Places(node'["sink"].line, "claimed"))
      <4>1. Cardinality(Holders("source")') = 0 /\ Cardinality(Holders("sink")') = 0
        BY <3>1, <3>3, <3>4
      <4>2. Cardinality(Places(pool'.ready, RunTask)) = 0 /\ delegated' = 0 BY <1>9, <3>2, <3>3
      <4>3. \A c \in Nat : 0 + 0 <= c OBVIOUS
      <4> QED BY <3>4, <3>5, <4>1, <4>2, <4>3
    <3> QED BY <3>6 DEF CountInv, Places
  <2>4. FlushInv'
    <3> SUFFICES ASSUME NEW t \in Threads, NEW n \in Nodes, NEW i \in 1 .. Len(todo'[t]),
                        Flushes(t, i, n)'
                 PROVE  FALSE
      BY DEF FlushInv
    <3>1. todo'[t][i][1] \in {"flush", "release"} BY DEF Flushes, Kind
    <3>2. CASE t = Host
      <4>1. i \in 1 .. 1 BY <1>7, <3>2
      <4>2. i = 1 BY <4>1
      <4> QED BY <1>7, <3>1, <3>2, <4>2
    <3>3. CASE t # Host BY <1>2, <1>8, <3>1, <3>3 DEF AfterTask
    <3> QED BY <3>2, <3>3
  <2> QED BY <2>1, <2>2, <2>3, <2>4 DEF CallsInv
<1> QED BY <1>12, <1>13, <1>17, <1>18, <1>19, <1>20 DEF IInv

\* A step of the end that changes nothing the phases are about.
LEMMA EndPhase ==
    ASSUME IInv, NEW steps, NEW r, Advances(Host, steps, r),
           Len(todo[Host]) >= 1 => Kind(Host, 1) \in {"join", "drop"},
           \A i \in 1 .. Len(steps) :
               steps[i][1] \notin {"open", "renew", "initialized"} /\ \A b : Calm(steps[i], b),
           UNCHANGED <<state, shared, source, sink, inFlight, pool, delegated>>
    PROVE  PhaseInv'
<1>1. TypeOK /\ ListsOK /\ ShapeInv /\ PhaseInv BY DEF IInv
<1>2. Host \in Threads /\ Host \notin Workers BY ThreadsAssumption DEF Threads
<1>3. Asleep => pool'.ready = <<>> /\ pool'.delayed = {} /\ pool'.running = 0 /\ inFlight' = 0
  BY <1>1 DEF PhaseInv, SleepInv
<1>4. Fresh => delegated' = 0 /\ sink'.backlog = 0 /\ ~source'.waiting /\ ~source'.done
  BY <1>1 DEF PhaseInv, FreshInv
<1>5. Len(todo[Host]) >= 1 => Kind(Host, 1) \notin {"open", "running", "clear", "renew", "initialized"}
  OBVIOUS
<1>6. \A i \in 1 .. Len(steps) : Calm(steps[i], Stopped') OBVIOUS
<1>7. /\ Fresh => sink'.inputClosed = sink.inputClosed
      /\ Asleep /\ Stopped => Stopped'
      /\ state' = state
  BY DEF Stopped
<1> HIDE DEF Stopped
<1> QED BY <1>1, <1>2, <1>3, <1>4, <1>5, <1>6, <1>7, PhaseStep

\* The workers have left when they were joined.
LEMMA JoinStep ==
    ASSUME IInv, Join
    PROVE  IInv'
<1>1. TypeOK /\ ListsOK BY DEF IInv
<1>2. At(Host, "join") /\ Go(Host, <<>>) BY DEF Join
<1>3. /\ Len(todo[Host]) >= 1 /\ Kind(Host, 1) = "join"
      /\ Advances(Host, <<>>, Len(todo[Host]) - 1)
  BY <1>1, <1>2, HostTail
<1>4. UNCHANGED <<state, shared, node, source, sink, inFlight, pool, delegated>> BY DEF Join
<1>5. \A w \in Workers : Away(w) BY DEF Join, Away
<1>6. TypeOK' BY <1>1, <1>4 DEF TypeOK
<1>7. ListsOK' /\ ShapeInv' /\ CloseInv' /\ PoolInv' /\ CallsInv'
  <2>1. Kind(Host, 1) \in HostKindsOnly /\ Kind(Host, 1) # "initialized" BY <1>3 DEF HostKindsOnly
  <2>2. state' = state BY <1>4
  <2>3. \A n \in Nodes :
            /\ node'[n].closeStarted = node[n].closeStarted /\ node'[n].closed = node[n].closed
            /\ node'[n].line = node[n].line /\ node'[n].flushing = node[n].flushing
            /\ node[n].opened => node'[n].opened
    BY <1>4
  <2>4. delegated' = delegated /\ pool' = pool BY <1>4
  <2>5. \A i \in 1 .. Len(<<>>) : <<>>[i][1] \notin NotPushed BY NoSteps
  <2>6. Len(<<>>) >= 1 => <<>>[1][1] \notin {"drop", "freed"} BY NoSteps
  <2> QED BY <1>3, <1>5, <2>1, <2>2, <2>3, <2>4, <2>5, <2>6, NoSteps, HostFrame
<1>8. PhaseInv'
  <2>1. \A i \in 1 .. Len(<<>>) :
            <<>>[i][1] \notin {"open", "renew", "initialized"} /\ \A b : Calm(<<>>[i], b)
    BY NoSteps
  <2> QED BY <1>3, <1>4, <2>1, EndPhase
<1> QED BY <1>6, <1>7, <1>8 DEF IInv

\* Only what was closed is changed.
LEMMA DroppedChange ==
    ASSUME TypeOK,
           node' = [n \in Nodes |->
                       [node[n] EXCEPT !.closed = @ \/ (node[n].opened /\ ~node[n].closeStarted)]]
    PROVE  /\ node' \in [Nodes -> [opened : BOOLEAN, closeStarted : BOOLEAN, closed : BOOLEAN,
                                   line : Seq(Entries), flushing : BOOLEAN]]
           /\ \A m \in Nodes : /\ node'[m].opened = node[m].opened
                               /\ node'[m].line = node[m].line
                               /\ node'[m].flushing = node[m].flushing
                               /\ node'[m].closeStarted = node[m].closeStarted
                               /\ node'[m].closed <=> \/ node[m].closed
                                                      \/ node[m].opened /\ ~node[m].closeStarted
<1> DEFINE S == Seq(Entries)
<1>1. node \in [Nodes -> [opened : BOOLEAN, closeStarted : BOOLEAN, closed : BOOLEAN,
                          line : S, flushing : BOOLEAN]]
  BY DEF TypeOK
<1> HIDE DEF S
<1>2. /\ node' \in [Nodes -> [opened : BOOLEAN, closeStarted : BOOLEAN, closed : BOOLEAN,
                              line : S, flushing : BOOLEAN]]
      /\ \A m \in Nodes : /\ node'[m].opened = node[m].opened
                          /\ node'[m].line = node[m].line
                          /\ node'[m].flushing = node[m].flushing
                          /\ node'[m].closeStarted = node[m].closeStarted
                          /\ node'[m].closed <=> \/ node[m].closed
                                                 \/ node[m].opened /\ ~node[m].closeStarted
  BY <1>1
<1> QED BY <1>2 DEF S

\* Then nobody closes a node: the drop of the graph closes those that are open.
LEMMA DropStep ==
    ASSUME IInv, Drop
    PROVE  IInv'
<1>1. TypeOK /\ ListsOK /\ ShapeInv /\ PhaseInv /\ CloseInv /\ PoolInv /\ CallsInv BY DEF IInv
<1>2. Host \in Threads /\ Host \notin Workers /\ Workers \subseteq Threads /\ Threads = Workers \cup {Host}
  BY ThreadsAssumption DEF Threads
<1>3. At(Host, "drop") /\ Go(Host, <<>>) BY DEF Drop
<1>4. /\ todo'[Host] = Tail(todo[Host]) /\ Len(todo[Host]) >= 1 /\ Kind(Host, 1) = "drop"
      /\ Advances(Host, <<>>, Len(todo[Host]) - 1) /\ \A w \in Workers : todo'[w] = todo[w]
  BY <1>1, <1>3, HostTail
<1>5. UNCHANGED <<state, shared, source, sink, inFlight, pool, delegated>> BY DEF Drop
<1>6. /\ node' \in [Nodes -> [opened : BOOLEAN, closeStarted : BOOLEAN, closed : BOOLEAN,
                              line : Seq(Entries), flushing : BOOLEAN]]
      /\ \A m \in Nodes : /\ node'[m].opened = node[m].opened
                          /\ node'[m].line = node[m].line
                          /\ node'[m].flushing = node[m].flushing
                          /\ node'[m].closeStarted = node[m].closeStarted
                          /\ node'[m].closed <=> \/ node[m].closed
                                                 \/ node[m].opened /\ ~node[m].closeStarted
  BY <1>1, DroppedChange DEF Drop
<1>7. TypeOK' BY <1>1, <1>5, <1>6 DEF TypeOK
<1>8. Len(todo[Host]) \in Nat BY <1>1, <1>2, AtFirst
<1>9. ListsOK' /\ ShapeInv'
  <2>1. \A i \in 1 .. Len(<<>>) : <<>>[i][1] \in FrontKinds => i = 1 BY NoSteps
  <2> QED BY <1>1, <1>2, <1>4, <2>1, NoSteps, ShapeStep
<1>10. \A k : At(Host, k)' <=> k = "freed"
  <2>1. 1 \in 1 .. Len(todo[Host]) BY <1>4, <1>8
  <2>2. 1 = Len(todo[Host]) - 1 /\ todo[Host][1 + 1] = <<"freed">>
    BY <1>1, <1>4, <2>1 DEF ShapeInv, DropInv
  <2>3. Len(todo[Host]) >= 2 /\ Kind(Host, 2) = "freed"
    <3>1. 1 + 1 = 2 /\ <<"freed">>[1] = "freed" OBVIOUS
    <3> QED BY <1>8, <2>2, <3>1 DEF Kind
  <2> QED BY <1>1, <1>2, <1>4, <2>3, NoSteps, Views
<1>11. \A t \in Threads : ~At(t, "closing") /\ ~At(t, "closing")'
  <2>1. \A w \in Workers : Idle(w) BY <1>1, <1>3 DEF PoolInv, JoinInv, AwayInv, Joined
  <2>2. \A w \in Workers : ~At(w, "closing") /\ ~At(w, "closing")' BY <1>4, <2>1 DEF At, Idle
  <2>3. ~At(Host, "closing") BY <1>3 DEF At
  <2> QED BY <1>2, <1>10, <2>2, <2>3
<1>12. PhaseInv'
  <2>1. \A i \in 1 .. Len(<<>>) :
            <<>>[i][1] \notin {"open", "renew", "initialized"} /\ \A b : Calm(<<>>[i], b)
    BY NoSteps
  <2> QED BY <1>4, <1>5, <2>1, EndPhase
<1>13. CloseInv'
  <2>1. TermInv'
    <3>1. ~At(Host, "initialized") BY <1>3 DEF At
    <3> QED BY <1>1, <1>5, <1>6, <3>1 DEF CloseInv, TermInv
  <2>2. ClosedInv' BY <1>10 DEF ClosedInv
  <2>3. CloserInv' BY <1>11 DEF CloserInv
  <2>4. \A n \in Nodes : node[n].closeStarted => node[n].closed
    BY <1>1, <1>11 DEF CloseInv, ClosingInv
  <2>5. ClosingInv' BY <1>6, <2>4 DEF ClosingInv
  <2>6. LookInv' BY <1>10 DEF LookInv
  <2>7. FreedInv' BY <1>6, <2>4 DEF FreedInv
  <2> QED BY <2>1, <2>2, <2>3, <2>5, <2>6, <2>7 DEF CloseInv
<1>14. PoolInv'
  <2>1. \A i \in 1 .. Len(<<>>) : <<>>[i][1] # "completed" BY NoSteps
  <2>2. Len(<<>>) >= 1 => <<>>[1][1] \notin {"drop", "freed"} BY NoSteps
  <2>3. Kind(Host, 1) # "completed" /\ Kind(Host, 1) # "join" BY <1>4
  <2>4. pool' = pool BY <1>5
  <2> QED BY <1>1, <1>2, <1>4, <2>1, <2>2, <2>3, <2>4, PoolStep
<1>15. CallsInv'
  <2>1. LineInv' BY <1>1, <1>5, <1>6 DEF CallsInv, LineInv
  <2>2. \A i \in 1 .. Len(<<>>) :
            <<>>[i][1] \notin {"submit", "run", "process", "land", "flush", "release"}
    BY NoSteps
  <2>3. Kind(Host, 1) \notin {"submit", "run", "process", "land", "flush", "release"} BY <1>4
  <2>4. pool' = pool /\ delegated' = delegated BY <1>5
  <2> QED BY <1>1, <1>2, <1>4, <1>6, <2>1, <2>2, <2>3, <2>4, CallsStep
<1> QED BY <1>7, <1>9, <1>12, <1>13, <1>14, <1>15 DEF IInv

\* The steps of a free.
FreeList(steps) ==
    /\ steps \in Seq(Steps)
    /\ \A i \in 1 .. Len(steps) :
           /\ steps[i][1] \notin NotPushed \cup {"open", "renew", "initialized"}
           /\ \A b : Calm(steps[i], b)
           /\ steps[i][1] = "drop" =>
                  /\ i = Len(steps) - 1 /\ steps[i + 1] = <<"freed">>
                  /\ i >= 2 /\ steps[i - 1][1] = "join"
           /\ steps[i][1] = "freed" => i >= 2 /\ steps[i - 1][1] = "drop"
    /\ Len(steps) >= 1 => steps[1][1] \notin {"drop", "freed"}

LEMMA FreeSteps ==
    ASSUME NEW p, NeutralList(p), NEW e \in Seq(Steps),
           Len(e) = 4, e[1] = <<"stop">>, e[2] = <<"join">>, e[3] = <<"drop">>, e[4] = <<"freed">>,
           NEW steps, steps = p \o e
    PROVE  FreeList(steps)
<1>1. p \in Seq(Steps) /\ Len(p) \in Nat BY LenProperties DEF NeutralList
<1>2. /\ steps \in Seq(Steps) /\ Len(steps) = Len(p) + 4
      /\ \A i \in 1 .. Len(steps) :
            \/ \E j \in 1 .. Len(p) : i = j /\ steps[i] = p[j]
            \/ \E j \in 1 .. 4 : i = Len(p) + j /\ steps[i] = e[j]
  <2>1. /\ p \o e \in Seq(Steps) /\ Len(p \o e) = Len(p) + Len(e)
        /\ \A i \in 1 .. Len(p \o e) :
              \/ \E j \in 1 .. Len(p) : i = j /\ (p \o e)[i] = p[j]
              \/ \E j \in 1 .. Len(e) : i = Len(p) + j /\ (p \o e)[i] = e[j]
    BY <1>1, Concats
  <2> QED BY <2>1
<1>3. \A j \in 1 .. 4 : j \in {1, 2, 3, 4} OBVIOUS
<1>4. ASSUME NEW i \in 1 .. Len(steps)
      PROVE  \/ /\ i <= Len(p) /\ \E k \in NeutralKinds : steps[i] = <<k>>
             \/ i = Len(p) + 1 /\ steps[i] = <<"stop">>
             \/ i = Len(p) + 2 /\ steps[i] = <<"join">>
             \/ i = Len(p) + 3 /\ steps[i] = <<"drop">>
             \/ i = Len(p) + 4 /\ steps[i] = <<"freed">>
  <2>1. CASE \E j \in 1 .. Len(p) : i = j /\ steps[i] = p[j]
    <3>1. i \in 1 .. Len(p) /\ steps[i] = p[i] BY <2>1
    <3> QED BY <1>1, <3>1 DEF NeutralList
  <2>2. CASE \E j \in 1 .. 4 : i = Len(p) + j /\ steps[i] = e[j] BY <1>3, <2>2
  <2> QED BY <1>2, <2>1, <2>2
<1>5. \A k : <<k>>[1] = k OBVIOUS
<1>6. ASSUME NEW k \in NeutralKinds \cup {"join", "drop", "freed"}
      PROVE  /\ k \notin NotPushed \cup {"open", "renew", "initialized"}
             /\ \A b : Calm(<<k>>, b)
  BY <1>5 DEF NeutralKinds, NotPushed, Calm, CalmKinds
<1>7. "stop" \in NeutralKinds BY DEF NeutralKinds
<1>8. ASSUME NEW i \in 1 .. Len(steps)
       PROVE  /\ \E k \in NeutralKinds \cup {"join", "drop", "freed"} : steps[i] = <<k>>
              /\ steps[i][1] = "drop" => i = Len(p) + 3
              /\ steps[i][1] = "freed" => i = Len(p) + 4
  BY <1>4, <1>5, <1>7 DEF NeutralKinds
<1>9. /\ Len(p) + 2 \in 1 .. Len(steps) /\ Len(p) + 3 \in 1 .. Len(steps)
       /\ Len(p) + 4 \in 1 .. Len(steps)
  BY <1>1, <1>2
<1>10. steps[Len(p) + 2] = <<"join">> BY <1>1, <1>4, <1>9
<1>11. steps[Len(p) + 3] = <<"drop">> BY <1>1, <1>4, <1>9
<1>12. steps[Len(p) + 4] = <<"freed">> BY <1>1, <1>4, <1>9
<1>13. /\ Len(p) + 3 = Len(steps) - 1 /\ (Len(p) + 3) + 1 = Len(p) + 4
       /\ (Len(p) + 3) - 1 = Len(p) + 2 /\ (Len(p) + 4) - 1 = Len(p) + 3
       /\ Len(p) + 3 >= 2 /\ Len(p) + 4 >= 2
  BY <1>1, <1>2
<1>14. \A i \in 1 .. Len(steps) :
           /\ steps[i][1] = "drop" =>
                  /\ i = Len(steps) - 1 /\ steps[i + 1] = <<"freed">>
                  /\ i >= 2 /\ steps[i - 1][1] = "join"
           /\ steps[i][1] = "freed" => i >= 2 /\ steps[i - 1][1] = "drop"
  BY <1>5, <1>8, <1>10, <1>11, <1>12, <1>13
<1>15. \A i \in 1 .. Len(steps) :
           /\ steps[i][1] \notin NotPushed \cup {"open", "renew", "initialized"}
           /\ \A b : Calm(steps[i], b)
  <2> SUFFICES ASSUME NEW i \in 1 .. Len(steps)
               PROVE  /\ steps[i][1] \notin NotPushed \cup {"open", "renew", "initialized"}
                      /\ \A b : Calm(steps[i], b)
    OBVIOUS
  <2>1. PICK k \in NeutralKinds \cup {"join", "drop", "freed"} : steps[i] = <<k>> BY <1>8
  <2>2. steps[i][1] = k BY <1>5, <2>1
  <2> QED BY <1>6, <2>1, <2>2
<1>16. steps[1][1] \notin {"drop", "freed"}
  <2>1. 1 \in 1 .. Len(steps) /\ 1 # Len(p) + 3 /\ 1 # Len(p) + 4 BY <1>1, <1>2
  <2> QED BY <1>8, <2>1
<1> QED BY <1>2, <1>14, <1>15, <1>16 DEF FreeList

LEMMA FreeStep ==
    ASSUME IInv, Free
    PROVE  IInv'
<1>1. TypeOK /\ ListsOK BY DEF IInv
<1>2. Host \in Threads BY DEF Threads
<1>3. PICK p : /\ NeutralList(p)
               /\ Call(Host, p \o <<<<"stop">>, <<"join">>, <<"drop">>, <<"freed">>>>)
  BY NeutralNil, NeutralLists, NeutralConcat DEF Free
<1> DEFINE e == <<<<"stop">>, <<"join">>, <<"drop">>, <<"freed">>>>
           steps == p \o e
<1>4. Idle(Host) /\ Call(Host, steps) BY <1>3 DEF Free
<1>5. /\ e \in Seq(Steps) /\ Len(e) = 4 /\ e[1] = <<"stop">> /\ e[2] = <<"join">>
      /\ e[3] = <<"drop">> /\ e[4] = <<"freed">>
  <2>1. /\ <<"stop">> \in Steps /\ <<"join">> \in Steps /\ <<"drop">> \in Steps
        /\ <<"freed">> \in Steps
    BY StepForms DEF PlainKinds
  <2>2. e \in Seq(Steps) BY <2>1, Lists
  <2> QED BY <2>2
<1>6. NeutralList(p) BY <1>3
<1> HIDE DEF e
<1>7. steps = p \o e OBVIOUS
<1> HIDE DEF steps
<1>8. FreeList(steps) BY <1>5, <1>6, <1>7, FreeSteps
<1>9. /\ steps \in Seq(Steps)
      /\ \A i \in 1 .. Len(steps) :
             /\ steps[i][1] \notin NotPushed \cup {"open", "renew", "initialized"}
             /\ \A b : Calm(steps[i], b)
             /\ steps[i][1] = "drop" =>
                    /\ i = Len(steps) - 1 /\ steps[i + 1] = <<"freed">>
                    /\ i >= 2 /\ steps[i - 1][1] = "join"
             /\ steps[i][1] = "freed" => i >= 2 /\ steps[i - 1][1] = "drop"
      /\ Len(steps) >= 1 => steps[1][1] \notin {"drop", "freed"}
  BY <1>8 DEF FreeList
<1>10. Advances(Host, steps, 0) /\ ~(Len(todo[Host]) >= 1) BY <1>1, <1>2, <1>4, <1>9, CallAdvances
<1>11. UNCHANGED <<state, shared, node, source, sink, inFlight, pool, delegated>> BY DEF Free
<1>12. TypeOK' BY <1>1, <1>11 DEF TypeOK
<1>13. ListsOK' /\ ShapeInv' /\ CloseInv' /\ PoolInv' /\ CallsInv'
  <2>1. EndsAdvance(Host, steps) BY <1>9, <1>10 DEF EndsAdvance
  <2>2. \A i \in 1 .. Len(steps) : steps[i][1] \notin NotPushed BY <1>9
  <2>3. state' = state /\ delegated' = delegated /\ pool' = pool /\ node' = node BY <1>11
  <2> QED BY <1>9, <1>10, <2>1, <2>2, <2>3, HostFrame
<1>14. PhaseInv' BY <1>9, <1>10, <1>11, EndPhase
<1> QED BY <1>12, <1>13, <1>14 DEF IInv

\* Steps that change nothing of this: a pause, and stuttering.
LEMMA PauseStep ==
    ASSUME IInv, Pause \/ UNCHANGED vars
    PROVE  IInv'
<1>1. UNCHANGED <<state, shared, node, source, sink, inFlight, pool, delegated, todo>>
  BY DEF Pause, vars
<1>2. TypeOK' BY <1>1 DEF IInv, TypeOK
<1>3. PoolInv'
  <2>1. {w \in Workers : Has(w, "completed")'} = {w \in Workers : Has(w, "completed")}
    BY <1>1 DEF Has, Kind
  <2>2. RunningInv' BY <1>1, <2>1 DEF IInv, PoolInv, RunningInv
  <2>3. AwayInv' /\ JoinInv'
    BY <1>1 DEF IInv, PoolInv, AwayInv, JoinInv, Away, Joined, Idle, At
  <2> QED BY <2>2, <2>3 DEF PoolInv
<1> QED BY <1>1, <1>2, <1>3, StillStep

---------------------------------------------------------------------------
(* The invariant holds, and what it says of the callbacks and of the runs.  *)

LEMMA InitInvariant == Init => IInv
<1> SUFFICES ASSUME Init PROVE IInv
  OBVIOUS
<1>1. Host \in Threads /\ Workers \subseteq Threads BY DEF Threads
<1>2. \A t \in Threads : todo[t] = <<>> BY DEF Init
<1>3. \A t \in Threads : Len(todo[t]) = 0 /\ DOMAIN todo[t] = {} BY <1>2, EmptySeq
<1>4. /\ state = "Initialized" /\ shared = [error |-> FALSE, cancelled |-> FALSE]
      /\ node = [n \in Nodes |-> NewSched(FALSE)]
      /\ source = [waiting |-> FALSE, reschedule |-> FALSE, done |-> FALSE, generation |-> 0]
      /\ sink = [backlog |-> 0, inputClosed |-> FALSE]
      /\ inFlight = 0 /\ delegated = 0
  BY DEF Init
<1>5. PICK workers \in SUBSET Workers :
          pool = [workers |-> workers, ready |-> <<>>, delayed |-> {}, running |-> 0,
                  started |-> FALSE, stop |-> FALSE, exited |-> {}]
  BY DEF Init
<1>6. TypeOK
  <2>1. pool \in [workers : SUBSET Workers, ready : Seq(Nat), delayed : SUBSET (Nat \ {0}),
                  running : Int, started : BOOLEAN, stop : BOOLEAN, exited : SUBSET Workers]
    <3> DEFINE S == Seq(Nat)
               D == SUBSET (Nat \ {0})
    <3>1. <<>> \in S /\ {} \in D OBVIOUS
    <3> HIDE DEF S, D
    <3>2. pool \in [workers : SUBSET Workers, ready : S, delayed : D,
                    running : Int, started : BOOLEAN, stop : BOOLEAN, exited : SUBSET Workers]
      BY <1>5, <3>1
    <3> QED BY <3>2 DEF S, D
  <2>2. node \in [Nodes -> [opened : BOOLEAN, closeStarted : BOOLEAN, closed : BOOLEAN,
                            line : Seq(Entries), flushing : BOOLEAN]]
    <3> DEFINE S == Seq(Entries)
    <3>1. <<>> \in S OBVIOUS
    <3> HIDE DEF S
    <3>2. node \in [Nodes -> [opened : BOOLEAN, closeStarted : BOOLEAN, closed : BOOLEAN,
                              line : S, flushing : BOOLEAN]]
      BY <1>4, <3>1 DEF NewSched
    <3> QED BY <3>2 DEF S
  <2>3. /\ shared \in [error : BOOLEAN, cancelled : BOOLEAN]
        /\ source \in [waiting : BOOLEAN, reschedule : BOOLEAN, done : BOOLEAN, generation : Nat]
        /\ sink \in [backlog : Nat, inputClosed : BOOLEAN]
    BY <1>4
  <2>4. /\ state \in {"Initialized", "Running", "Draining", "Terminated"}
        /\ inFlight \in Int /\ delegated \in Nat
    BY <1>4
  <2> QED BY <2>1, <2>2, <2>3, <2>4 DEF TypeOK
<1>7. ListsOK
  <2>1. todo = [t \in Threads |-> <<>>] BY DEF Init
  <2> QED BY <2>1, Lists DEF ListsOK
<1>8. \A t \in Threads : \A i : i \notin 1 .. Len(todo[t]) BY <1>3
<1>9. \A t \in Threads : \A k : ~At(t, k) /\ ~Has(t, k) BY <1>2, <1>3 DEF At, Idle, Has
<1>10. ShapeInv BY <1>1, <1>8 DEF ShapeInv, FrontInv, WorkerInv, DropInv
<1>11. PhaseInv
  <2>1. ResetInv /\ OpenInv BY <1>1, <1>9 DEF ResetInv, OpenInv
  <2>2. CalmInv BY <1>1, <1>8 DEF CalmInv
  <2>3. SleepInv BY <1>1, <1>4, <1>5, <1>8 DEF SleepInv
  <2>4. FreshInv BY <1>4 DEF FreshInv
  <2> QED BY <2>1, <2>2, <2>3, <2>4 DEF PhaseInv
<1>12. \A n \in Nodes : ~node[n].closeStarted /\ ~node[n].closed /\ node[n].line = <<>>
  BY <1>4 DEF NewSched
<1>13. CloseInv
  BY <1>1, <1>4, <1>9, <1>12 DEF CloseInv, TermInv, ClosedInv, CloserInv, ClosingInv, LookInv, FreedInv
<1>14. PoolInv
  <2>1. {w \in Workers : Has(w, "completed")} = {} BY <1>1, <1>9
  <2>2. RunningInv BY <1>5, <2>1, FS_EmptySet DEF RunningInv
  <2>3. AwayInv BY <1>1, <1>2 DEF AwayInv, Idle
  <2>4. JoinInv BY <1>1, <1>9 DEF JoinInv, Joined
  <2> QED BY <2>2, <2>3, <2>4 DEF PoolInv
<1>15. CallsInv
  <2>1. LineInv BY <1>12 DEF LineInv
  <2>2. CallInv BY <1>9 DEF CallInv
  <2>3. CountInv
    <3>1. \A n \in Nodes : Holders(n) = {} BY <1>9 DEF Holders
    <3>2. Places(pool.ready, RunTask) = {} BY <1>5, EmptySeq DEF Places
    <3>3. "source" \in Nodes /\ "sink" \in Nodes BY DEF Nodes
    <3>4. \A n \in Nodes : Cardinality(Places(node[n].line, "claimed")) \in Nat
      BY <1>6, Counts DEF Claims
    <3>5. /\ Cardinality(Holders("source")) = 0 /\ Cardinality(Holders("sink")) = 0
          /\ Cardinality(Places(pool.ready, RunTask)) = 0
      BY <3>1, <3>2, <3>3, FS_EmptySet
    <3>6. \A c \in Nat : 0 + 0 <= c OBVIOUS
    <3> QED BY <1>4, <3>3, <3>4, <3>5, <3>6 DEF CountInv
  <2>4. FlushInv BY <1>8 DEF FlushInv
  <2> QED BY <2>1, <2>2, <2>3, <2>4 DEF CallsInv
<1> QED BY <1>6, <1>7, <1>10, <1>11, <1>13, <1>14, <1>15 DEF IInv

LEMMA NextInvariant == IInv /\ [Next]_vars => IInv'
<1> SUFFICES ASSUME IInv, [Next]_vars PROVE IInv'
  OBVIOUS
<1>1. ASSUME NEW t \in Threads, Step(t) PROVE IInv'
  <2>1. CASE Try(t) BY <2>1, TryStep
  <2>2. CASE Claim(t) BY <2>2, ClaimStep
  <2>3. CASE Submit(t) BY <2>3, SubmitStep
  <2>4. CASE Request(t) \/ Arm(t) BY <2>4, RequestStep
  <2>5. CASE Run(t) BY <2>5, RunStep
  <2>6. CASE Fail(t) BY <2>6, ReturnStep
  <2>7. CASE Land(t) BY <2>7, LandStep
  <2>8. CASE Flush(t) BY <2>8, FlushingStep
  <2>9. CASE Release(t) BY <2>9, ReleaseStep
  <2>10. CASE CloseLook(t) BY <2>10, CloseLookStep
  <2>11. CASE CloseClaim(t) BY <2>11, CloseClaimStep
  <2>12. CASE Close(t) BY <2>12, ClosingStep
  <2>13. CASE EndOfStream(t) BY <2>13, EndOfStreamStep
  <2> QED
    BY <1>1, <2>1, <2>2, <2>3, <2>4, <2>5, <2>6, <2>7, <2>8, <2>9, <2>10, <2>11, <2>12, <2>13
    DEF Step
<1>2. ASSUME NEW w \in Workers, WorkerStep(w) PROVE IInv'
  <2>1. w \in Threads BY DEF Threads
  <2>2. CASE Take(w) BY <2>2, TakeStep
  <2>3. CASE Exit(w) BY <2>3, ExitStep
  <2>4. CASE Completed(w) BY <2>4, CompletedStep
  <2>5. CASE Wake(w) BY <2>5, WakeStep
  <2>6. CASE Woken(w) BY <2>6, WokenStep
  <2>7. CASE Return(w) \/ LastReturn(w) BY <2>1, <2>7, ReturnStep
  <2>8. CASE Resumption(w) BY <2>8, ResumptionStep
  <2>9. CASE Reschedule(w) BY <2>9, RescheduleStep
  <2>10. CASE Generation(w) BY <2>10, GenerationStep
  <2>11. CASE Delay(w) BY <2>11, DelayStep
  <2> QED BY <1>2, <2>2, <2>3, <2>4, <2>5, <2>6, <2>7, <2>8, <2>9, <2>10, <2>11 DEF WorkerStep
<1>3. ASSUME HostStep PROVE IInv'
  <2>1. Host \in Threads BY DEF Threads
  <2>2. CASE Start BY <2>2, StartStep
  <2>3. CASE Open BY <2>3, OpenStep
  <2>4. CASE Running BY <2>4, RunningStep
  <2>5. CASE EventLoop \/ SetCallback \/ WaitDone \/ Cancel BY <2>5, HostCalls
  <2>6. CASE Pump \/ Pumped \/ Rearm \/ WaitStep \/ WaitMore BY <2>6, HostLooks
  <2>7. CASE Task BY <2>7, TaskStep
  <2>8. CASE Ended \/ WaitIdle \/ WaitLook BY <2>8, EndedStep
  <2>9. CASE SinkReturn BY <2>1, <2>9, ReturnStep
  <2>10. CASE Retire BY <2>10, RetireStep
  <2>11. CASE Reset BY <2>11, ResetStep
  <2>12. CASE ClearShared BY <2>12, ClearStep
  <2>13. CASE Renew BY <2>13, RenewStep
  <2>14. CASE Initialized BY <2>14, InitializedStep
  <2>15. CASE SetCancelled \/ Invalidate \/ Forget \/ StopPool BY <2>15, HostCancels
  <2>16. CASE Pause BY <2>16, PauseStep
  <2>17. CASE Resume BY <2>17, ResumeStep
  <2>18. CASE Free BY <2>18, FreeStep
  <2>19. CASE Join BY <2>19, JoinStep
  <2>20. CASE Drop BY <2>20, DropStep
  <2> QED
    BY <1>3, <2>2, <2>3, <2>4, <2>5, <2>6, <2>7, <2>8, <2>9, <2>10, <2>11, <2>12, <2>13, <2>14,
       <2>15, <2>16, <2>17, <2>18, <2>19, <2>20
    DEF HostStep
<1>4. CASE UNCHANGED vars BY <1>4, PauseStep
<1> QED BY <1>1, <1>2, <1>3, <1>4 DEF Next

THEOREM Invariance == Spec => []IInv
<1> QED BY InitInvariant, NextInvariant, PTL DEF Spec

\* Type correctness, for any number of workers and calls in flight.
THEOREM TypeCorrect == Spec => []TypeOK
<1>1. IInv => TypeOK BY DEF IInv
<1> QED BY <1>1, Invariance, PTL

LEMMA CallbacksApart == IInv => CallbacksExclude
<1> SUFFICES ASSUME IInv PROVE CallbacksExclude
  OBVIOUS
<1>1. ASSUME NEW t \in Threads, NEW n \in Nodes, InCall(t, n)
      PROVE  node[n].opened /\ ~node[n].closeStarted /\ state \in Live
  <2>1. PICK i \in 1 .. Len(node[n].line) : node[n].line[i] = t
    BY <1>1 DEF InCall, IInv, CallsInv, CallInv
  <2>2. node[n].line # <<>> BY <2>1, EmptySeq
  <2> QED BY <2>2 DEF IInv, CallsInv, LineInv
<1>2. \A n \in Nodes : node[n].closeStarted => node[n].line = <<>>
  BY DEF IInv, CallsInv, LineInv
<1>3. At(Host, "open") => inFlight = 0 /\ \A n \in Nodes : node[n].line = <<>>
  <2> SUFFICES ASSUME At(Host, "open")
               PROVE  inFlight = 0 /\ \A n \in Nodes : node[n].line = <<>>
    OBVIOUS
  <2>1. state = "Initialized" BY OpenWhere
  <2>2. inFlight = 0 BY <2>1 DEF IInv, PhaseInv, SleepInv, Asleep
  <2>3. \A n \in Nodes : node[n].line = <<>> BY <2>1 DEF IInv, CallsInv, LineInv, Live
  <2> QED BY <2>2, <2>3
<1> QED BY <1>1, <1>2, <1>3 DEF CallbacksExclude

(***************************************************************************)
(* The kernel of a node is called between its Open and its Close only, and *)
(* its Close waits for the calls that are outstanding: a worker whose task *)
(* outlives a cancel, a failure or the end of the stream is not overtaken  *)
(* by the thread that closes (run_node of scheduler.rs, maybe_close and    *)
(* start of lifecycle.rs).                                                 *)
(***************************************************************************)
THEOREM CallbacksAreApart == Spec => []CallbacksExclude
<1> QED BY CallbacksApart, Invariance, PTL

LEMMA RunsApart == IInv => NothingCarriedOver
<1> SUFFICES ASSUME IInv PROVE NothingCarriedOver
  OBVIOUS
<1>1. ASSUME state = "Initialized", ~Stopped
      PROVE  /\ Queued = {} /\ pool.running = 0 /\ inFlight = 0 /\ delegated = 0
             /\ ~source.waiting /\ ~source.done /\ sink.backlog = 0 /\ ~sink.inputClosed
  <2>1. pool.ready = <<>> /\ pool.delayed = {} /\ pool.running = 0 /\ inFlight = 0
    BY <1>1 DEF IInv, PhaseInv, SleepInv, Asleep
  <2>2. /\ delegated = 0 /\ sink.backlog = 0 /\ ~source.waiting /\ ~source.done
        /\ ~sink.inputClosed
    BY <1>1 DEF IInv, PhaseInv, FreshInv, Fresh
  <2>3. DOMAIN pool.ready = {} BY <2>1, EmptySeq
  <2>4. Queued = {} BY <2>1, <2>3 DEF Queued
  <2> QED BY <2>1, <2>2, <2>4
<1>2. Freed => \A n \in Nodes : node[n].opened => node[n].closed
  BY DEF Freed, IInv, CloseInv, FreedInv
<1> QED BY <1>1, <1>2 DEF NothingCarriedOver

(***************************************************************************)
(* A reset graph has no task, no claim and no packet of the run before it, *)
(* although a worker may still be between the end of its task and the      *)
(* wakeup it asks for; and a graph that was dropped, after whatever calls, *)
(* has closed each kernel it had opened (reset and Drop of lifecycle.rs).  *)
(***************************************************************************)
THEOREM NothingIsCarriedOver == Spec => []NothingCarriedOver
<1> QED BY RunsApart, Invariance, PTL
=============================================================================
