---------------------------- MODULE SourceProofs ----------------------------
(***************************************************************************)
(* The yielding source of Lifecycle: its wakes and their generations.  A   *)
(* source that asked to be called later is woken once, and rests until     *)
(* then.  RestInv is inductive beside IInv.                                *)
(*                                                                         *)
(* The right to wake the source is a token: a thread that is making the    *)
(* next generation, submits it or has taken it, or a wake of the current   *)
(* generation in the pool.  There is at most one, and while there is one   *)
(* no call of the source is outstanding and no request is open.            *)
(*                                                                         *)
(* A running source that is not done is never forgotten: it has calls, or  *)
(* waits for a wake, or somebody will try it.  KeepInv is inductive beside *)
(* IInv and RestInv.                                                       *)
(***************************************************************************)
EXTENDS LifecycleProofs

\* These steps are done at once, like those of FrontKinds.
TokenKinds == {"generation", "delay", "wake"}
TokensFirst ==
    \A t \in Threads : \A i \in 1 .. Len(todo[t]) : Kind(t, i) \in TokenKinds => i = 1

\* A cancel sets the flag before it invalidates the wakes.
CancelInv ==
    \A i \in 1 .. Len(todo[Host]) :
        Kind(Host, i) = "invalidate" =>
            \/ i = 1 /\ shared.cancelled
            \/ i = 2 /\ Kind(Host, 1) = "cancelled"

\* No wake is of a later generation than the current one.
GenerationInv ==
    /\ \A t \in Threads : At(t, "delay") \/ At(t, "wake") => Arg(t) <= source.generation
    /\ \A i \in 1 .. Len(pool.ready) : pool.ready[i] <= source.generation
    /\ \A g \in pool.delayed : g <= source.generation

RequestInv == Fresh => ~source.reschedule

\* Only a graph that is not started is started, and one is reset by a list of
\* its own.
StartInv ==
    \A i \in 1 .. Len(todo[Host]) :
        /\ Kind(Host, i) = "running" => state = "Initialized"
        /\ Kind(Host, i) = "clear" => todo[Host] \in ResetTails

\* The tokens.
Owes(t) ==
    \/ At(t, "generation")
    \/ (At(t, "delay") \/ At(t, "wake")) /\ Arg(t) = source.generation
ReadyWake(i) == pool.ready[i] = source.generation /\ source.generation # RunTask
AnyReady == \E i \in 1 .. Len(pool.ready) : ReadyWake(i)
DelayedWake == source.generation \in pool.delayed
Awaited == (\E t \in Threads : Owes(t)) \/ AnyReady \/ DelayedWake

OneWake ==
    /\ \A t, u \in Threads : Owes(t) /\ Owes(u) => t = u
    /\ \A i, j \in 1 .. Len(pool.ready) : ReadyWake(i) /\ ReadyWake(j) => i = j
    /\ \A t \in Threads : Owes(t) => ~DelayedWake /\ ~AnyReady
    /\ DelayedWake => ~AnyReady

InRun == state \in Live /\ ~Stopped
Resting == source.waiting \/ source.done
WakeInv ==
    InRun =>
        /\ OneWake
        /\ Awaited => node["source"].line = <<>> /\ ~source.reschedule
        /\ Awaited \/ source.reschedule => Resting
        /\ \A t \in Threads : At(t, "delay") => Arg(t) = source.generation

RestInv == TokensFirst /\ CancelInv /\ StartInv /\ GenerationInv /\ RequestInv /\ WakeInv

---------------------------------------------------------------------------
(* Lists of steps of certain kinds.                                         *)

Only(steps, K) == steps \in Seq(Steps) /\ \A i \in 1 .. Len(steps) : steps[i][1] \in K

LEMMA OnlyNil == \A K : Only(<<>>, K)
BY NeutralNil, Lists DEF Only

LEMMA OnlyOne ==
    ASSUME NEW K, NEW a \in Steps, a[1] \in K
    PROVE  Only(<<a>>, K)
<1>1. <<a>> \in Seq(Steps) BY Lists
<1>2. \A i \in 1 .. Len(<<a>>) : <<a>>[i] = a OBVIOUS
<1> QED BY <1>1, <1>2 DEF Only

LEMMA OnlyConcat ==
    ASSUME NEW K, NEW s, NEW u, Only(s, K), Only(u, K)
    PROVE  Only(s \o u, K)
<1>1. s \in Seq(Steps) /\ u \in Seq(Steps) BY DEF Only
<1>2. s \o u \in Seq(Steps) BY <1>1, Concats
<1>3. ASSUME NEW i \in 1 .. Len(s \o u) PROVE (s \o u)[i][1] \in K
  <2>1. \/ \E j \in 1 .. Len(s) : (s \o u)[i] = s[j]
        \/ \E j \in 1 .. Len(u) : (s \o u)[i] = u[j]
    BY <1>1, Concats
  <2> QED BY <2>1 DEF Only
<1> QED BY <1>2, <1>3 DEF Only

LEMMA OnlyTwo ==
    ASSUME NEW K, NEW a \in Steps, NEW b \in Steps, a[1] \in K, b[1] \in K
    PROVE  Only(<<a, b>>, K)
<1>1. <<a, b>> \in Seq(Steps) BY Lists
<1>2. \A i \in 1 .. Len(<<a, b>>) : <<a, b>>[i] \in {a, b} OBVIOUS
<1> QED BY <1>1, <1>2 DEF Only

LEMMA OnlyFlush ==
    ASSUME NEW n \in Nodes
    PROVE  Only(<<<<"try", "sink">>, <<"release", n>>>>, {"try", "release"})
<1>1. <<"try", "sink">> \in Steps BY StepForms DEF NodeKinds, Nodes
<1>2. <<"release", n>> \in Steps BY StepForms DEF NodeKinds
<1>3. <<"try", "sink">>[1] = "try" /\ <<"release", n>>[1] = "release" OBVIOUS
<1>4. PICK a, b : a = <<"try", "sink">> /\ b = <<"release", n>> OBVIOUS
<1>5. Only(<<a, b>>, {"try", "release"}) BY <1>1, <1>2, <1>3, <1>4, OnlyTwo
<1> QED BY <1>4, <1>5

LEMMA OnlyMore ==
    ASSUME NEW K, NEW L, K \subseteq L, NEW s, Only(s, K)
    PROVE  Only(s, L)
BY DEF Only

LEMMA OnlyNeutral ==
    ASSUME NEW s, NeutralList(s)
    PROVE  Only(s, NeutralKinds)
<1>1. \A k : <<k>>[1] = k OBVIOUS
<1> QED BY <1>1 DEF Only, NeutralList

LEMMA OnlyWakeup == Only(RequestWakeup, AfterTask)
BY WakeupSteps DEF Only

LEMMA OnlyFinish ==
    ASSUME NEW n \in Nodes
    PROVE  Only(Finish(n), {"resume?", "try", "close?"})
BY FinishSteps DEF Only

---------------------------------------------------------------------------
(* What a step keeps of the lists.                                          *)

\* A token comes first in a list, or it is not there.
LEMMA TokensStep ==
    ASSUME ListsOK, TokensFirst, NEW t \in Threads, NEW steps, NEW r, Advances(t, steps, r),
           \A i \in 1 .. Len(steps) : steps[i][1] \in TokenKinds => i = 1
    PROVE  /\ TokensFirst'
           /\ \A u \in Threads \ {t} : \A k : At(u, k)' = At(u, k) /\ Arg(u)' = Arg(u)
           /\ \A k \in TokenKinds : At(t, k)' => Len(steps) >= 1 /\ steps[1][1] = k /\ Arg(t)' = steps[1][2]
<1>1. \A u \in Threads \ {t} : todo'[u] = todo[u] BY Deeper
<1>2. TokensFirst'
  <2> SUFFICES ASSUME NEW u \in Threads, NEW i \in 1 .. Len(todo'[u]), todo'[u][i][1] \in TokenKinds
               PROVE  i = 1
    BY DEF TokensFirst, Kind
  <2>1. CASE u # t BY <1>1, <2>1 DEF TokensFirst, Kind
  <2>2. CASE u = t
    <3>1. \/ i \in 1 .. Len(steps) /\ todo'[t][i] = steps[i]
          \/ \E j \in 2 .. Len(todo[t]) : todo'[t][i] = todo[t][j] /\ i = j + Len(steps) - 1
      BY <2>2, Origins
    <3>2. \A j \in 2 .. Len(todo[t]) : todo[t][j][1] \notin TokenKinds
      <4>1. \A j \in 2 .. Len(todo[t]) : j \in 1 .. Len(todo[t]) /\ j # 1 BY Deeper
      <4> QED BY <4>1 DEF TokensFirst, Kind
    <3> QED BY <2>2, <3>1, <3>2
  <2> QED BY <2>1, <2>2
<1>3. \A u \in Threads \ {t} : \A k : At(u, k)' = At(u, k) /\ Arg(u)' = Arg(u)
  BY <1>1 DEF At, Idle, Arg
<1>4. ListsOK' BY Deeper
<1>5. ASSUME NEW k \in TokenKinds, At(t, k)'
      PROVE  Len(steps) >= 1 /\ steps[1][1] = k /\ Arg(t)' = steps[1][2]
  <2>1. Len(todo'[t]) >= 1 /\ todo'[t][1][1] = k /\ Arg(t)' = todo'[t][1][2]
    BY <1>4, <1>5, AtFirstNext
  <2>2. Len(todo'[t]) \in Nat /\ Len(steps) \in Nat /\ Len(todo[t]) \in Nat BY Deeper
  <2>3. 1 \in 1 .. Len(todo'[t]) BY <2>1, <2>2
  <2>4. \/ 1 \in 1 .. Len(steps) /\ todo'[t][1] = steps[1]
        \/ \E j \in 2 .. Len(todo[t]) : todo'[t][1] = todo[t][j]
    BY <2>3, Origins
  <2>5. \A j \in 2 .. Len(todo[t]) : todo[t][j][1] \notin TokenKinds
    <3>1. \A j \in 2 .. Len(todo[t]) : j \in 1 .. Len(todo[t]) /\ j # 1 BY <2>2
    <3> QED BY <3>1 DEF TokensFirst, Kind
  <2> QED BY <2>1, <2>2, <2>4, <2>5
<1> QED BY <1>2, <1>3, <1>5

\* A host that has no step of a cancel at the front has none.
LEMMA CancelStep ==
    ASSUME ListsOK, CancelInv, NEW t \in Threads, NEW steps, NEW r, Advances(t, steps, r),
           \A i \in 1 .. Len(steps) : steps[i][1] # "invalidate",
           t = Host /\ Len(todo[Host]) >= 1 => Kind(Host, 1) # "cancelled",
           t # Host /\ shared.cancelled => shared'.cancelled
    PROVE  CancelInv'
<1>1. CASE t # Host
  <2>1. todo'[Host] = todo[Host] BY <1>1, Deeper DEF Threads
  <2> QED BY <1>1, <2>1 DEF CancelInv, Kind
<1>2. CASE t = Host
  <2>1. ASSUME NEW i \in 1 .. Len(todo'[Host]) PROVE todo'[Host][i][1] # "invalidate"
    <3>1. \/ i \in 1 .. Len(steps) /\ todo'[Host][i] = steps[i]
          \/ \E j \in 2 .. Len(todo[Host]) : todo'[Host][i] = todo[Host][j]
      BY <1>2, Origins
    <3>2. ASSUME NEW j \in 2 .. Len(todo[Host]) PROVE Kind(Host, j) # "invalidate"
      <4>1. j \in 1 .. Len(todo[Host]) /\ j # 1 /\ Len(todo[Host]) >= 1 BY <1>2, Deeper
      <4> QED BY <1>2, <4>1 DEF CancelInv
    <3> QED BY <3>1, <3>2 DEF Kind
  <2> QED BY <2>1 DEF CancelInv, Kind
<1> QED BY <1>1, <1>2

\* A list that starts a graph is the list of a start.
LEMMA StartList ==
    ASSUME IInv, StartInv, NEW i \in 1 .. Len(todo[Host]), Kind(Host, i) = "running"
    PROVE  state = "Initialized" /\ todo[Host] \in StartTails
<1>1. state = "Initialized" BY DEF StartInv
<1>2. ~Calm(todo[Host][i], Stopped) BY DEF Calm, CalmKinds, Kind
<1> QED BY <1>1, <1>2 DEF IInv, PhaseInv, CalmInv

\* A reset clears the flags first.
LEMMA ClearFirst ==
    ASSUME NEW s \in ResetTails, NEW i \in 2 .. Len(s)
    PROVE  s[i][1] # "clear"
<1>1. /\ \A j \in 2 .. 3 : j = 2 \/ j = 3
      /\ \A j \in 2 .. 2 : j = 2
      /\ \A j \in 2 .. 1 : FALSE
  OBVIOUS
<1>2. CASE s = <<<<"clear">>, <<"renew">>, <<"initialized">>>>
  <2>1. Len(s) = 3 /\ s[2] = <<"renew">> /\ s[3] = <<"initialized">> BY <1>2
  <2> QED BY <1>1, <2>1
<1>3. CASE s = <<<<"renew">>, <<"initialized">>>>
  <2>1. Len(s) = 2 /\ s[2] = <<"initialized">> BY <1>3
  <2> QED BY <1>1, <2>1
<1>4. CASE s = <<<<"initialized">>>>
  <2>1. Len(s) = 1 BY <1>4
  <2> QED BY <1>1, <2>1
<1> QED BY <1>2, <1>3, <1>4 DEF ResetTails

LEMMA StartLine ==
    ASSUME IInv, StartInv, NEW t \in Threads, NEW steps, NEW r, Advances(t, steps, r),
           \A i \in 1 .. Len(steps) : steps[i][1] \notin {"running", "clear"},
           state' = state \/ todo[Host] \notin StartTails
    PROVE  StartInv'
<1>0. ListsOK BY DEF IInv
<1>1. CASE t # Host
  <2>1. todo'[Host] = todo[Host] BY <1>0, <1>1, Deeper DEF Threads
  <2>2. ASSUME NEW i \in 1 .. Len(todo[Host]), Kind(Host, i) = "running"
        PROVE  state' = "Initialized"
    BY <2>2, StartList
  <2> QED BY <2>1, <2>2 DEF StartInv, Kind
<1>2. CASE t = Host
  <2> SUFFICES ASSUME NEW i \in 1 .. Len(todo'[Host])
               PROVE  /\ todo'[Host][i][1] = "running" => state' = "Initialized"
                      /\ todo'[Host][i][1] # "clear"
    BY DEF StartInv, Kind
  <2>1. \/ i \in 1 .. Len(steps) /\ todo'[Host][i] = steps[i]
        \/ \E j \in 2 .. Len(todo[Host]) : todo'[Host][i] = todo[Host][j]
    BY <1>0, <1>2, Origins
  <2>2. CASE i \in 1 .. Len(steps) /\ todo'[Host][i] = steps[i] BY <2>2
  <2>3. ASSUME NEW j \in 2 .. Len(todo[Host]), todo'[Host][i] = todo[Host][j]
        PROVE  /\ todo'[Host][i][1] = "running" => state' = "Initialized"
               /\ todo'[Host][i][1] # "clear"
    <3>1. j \in 1 .. Len(todo[Host]) BY <1>0, <1>2, Deeper
    <3>2. Kind(Host, j) = "running" => state' = "Initialized" BY <3>1, StartList
    <3>3. Kind(Host, j) # "clear"
      <4> SUFFICES ASSUME Kind(Host, j) = "clear" PROVE FALSE OBVIOUS
      <4>1. todo[Host] \in ResetTails BY <3>1 DEF StartInv
      <4> QED BY <4>1, ClearFirst DEF Kind
    <3> QED BY <2>3, <3>2, <3>3 DEF Kind
  <2> QED BY <2>1, <2>2, <2>3
<1> QED BY <1>1, <1>2

\* Only the renewal of a reset makes a graph new.
LEMMA FreshStep ==
    ASSUME IInv, IInv', NEW t \in Threads, NEW steps, NEW r, Advances(t, steps, r),
           \A i \in 1 .. Len(steps) : steps[i][1] # "initialized",
           t = Host /\ Len(todo[Host]) >= 1 => Kind(Host, 1) # "renew",
           state' = "Initialized" => state = "Initialized"
    PROVE  Fresh' => Fresh
<1> SUFFICES ASSUME At(Host, "initialized")' PROVE Fresh
  BY DEF Fresh
<1>0. ListsOK /\ ListsOK' BY DEF IInv
<1>1. CASE t # Host
  <2>1. todo'[Host] = todo[Host] BY <1>0, <1>1, Deeper DEF Threads
  <2> QED BY <2>1 DEF Fresh, At, Idle
<1>2. CASE t = Host
  <2>1. Len(todo'[Host]) >= 1 /\ todo'[Host][1][1] = "initialized" BY <1>0, <1>2, AtFirstNext
  <2>2. Len(todo'[Host]) \in Nat /\ Len(todo[Host]) \in Nat BY <1>0, <1>2, Deeper
  <2>3. 1 \in 1 .. Len(todo'[Host]) BY <2>1, <2>2
  <2>4. \E j \in 2 .. Len(todo[Host]) : todo[Host][j][1] = "initialized"
    <3>1. \/ 1 \in 1 .. Len(steps) /\ todo'[Host][1] = steps[1]
          \/ \E j \in 2 .. Len(todo[Host]) : todo'[Host][1] = todo[Host][j]
      BY <1>0, <1>2, <2>3, Origins
    <3> QED BY <2>1, <3>1
  <2>5. Has(Host, "initialized") BY <1>0, <1>2, <2>4, HasNow DEF Kind
  <2>6. todo[Host] \in ResetTails /\ todo'[Host] \in ResetTails
    <3>1. Has(Host, "initialized")'
      BY <1>0, <2>1, <2>3, HostLists
    <3>2. ResetInv /\ ResetInv' BY DEF IInv, PhaseInv
    <3> QED BY <2>5, <3>1, <3>2 DEF ResetInv
  <2>7. todo'[Host] = <<<<"initialized">>>> BY <2>1, <2>6, ResetShape
  <2>8. Len(todo'[Host]) = 1 BY <2>7
  <2>9. Len(todo[Host]) = 2 /\ Len(steps) = 0
    <3>1. Len(todo[Host]) >= 2 BY <2>2, <2>4
    <3>2. Len(todo'[Host]) = Len(steps) + Len(todo[Host]) - 1 /\ Len(steps) \in Nat
      BY <1>0, <1>2, <3>1, Deeper
    <3>3. \A l, s \in Nat : l >= 2 /\ 1 = s + l - 1 => l = 2 /\ s = 0 OBVIOUS
    <3>4. 1 = Len(steps) + Len(todo[Host]) - 1 BY <2>8, <3>2
    <3> QED BY <2>2, <3>1, <3>2, <3>3, <3>4
  <2>10. todo[Host] = <<<<"renew">>, <<"initialized">>>>
    <3>1. \A a, b, c : Len(<<a>>) = 1 /\ Len(<<a, b>>) = 2 /\ Len(<<a, b, c>>) = 3 OBVIOUS
    <3> QED BY <2>6, <2>9, <3>1 DEF ResetTails
  <2>11. Kind(Host, 1) = "renew" BY <2>10 DEF Kind
  <2> QED BY <1>2, <2>9, <2>11
<1> QED BY <1>1, <1>2

---------------------------------------------------------------------------
(* Steps that make no token.                                                *)

\* The source, the wakes and a resting source's line are left alone.
Steady ==
    /\ source' = source
    /\ \A i \in 1 .. Len(pool'.ready) :
          \/ pool'.ready[i] = RunTask
          \/ i \in 1 .. Len(pool.ready) /\ pool'.ready[i] = pool.ready[i]
    /\ pool'.delayed \subseteq pool.delayed
    /\ InRun' => InRun
    /\ shared.cancelled => shared'.cancelled
    /\ InRun /\ Resting /\ node["source"].line = <<>> => node'["source"].line = <<>>
    /\ state' = state \/ (state' # "Initialized" /\ todo[Host] \notin StartTails)

Barred == TokenKinds \cup {"invalidate", "initialized", "running", "clear"}

LEMMA SteadyState ==
    ASSUME TypeOK, RestInv, Steady, TokensFirst', CancelInv', StartInv', Fresh' => Fresh,
           \A u \in Threads : \A k \in TokenKinds : At(u, k)' => At(u, k) /\ Arg(u)' = Arg(u)
    PROVE  RestInv'
<1>1. \A u \in Threads : /\ At(u, "generation")' => At(u, "generation")
                         /\ At(u, "delay")' => At(u, "delay") /\ Arg(u)' = Arg(u)
                         /\ At(u, "wake")' => At(u, "wake") /\ Arg(u)' = Arg(u)
  BY DEF TokenKinds
<1>2. source' = source /\ source.generation \in Nat BY DEF Steady, TypeOK
<1>3. \A u \in Threads : Owes(u)' => Owes(u) BY <1>1, <1>2 DEF Owes
<1>4. ASSUME NEW i \in 1 .. Len(pool'.ready), ReadyWake(i)'
      PROVE  i \in 1 .. Len(pool.ready) /\ ReadyWake(i)
  BY <1>2, <1>4 DEF Steady, ReadyWake
<1>5. AnyReady' => AnyReady BY <1>4 DEF AnyReady
<1>6. DelayedWake' => DelayedWake BY <1>2 DEF Steady, DelayedWake
<1>7. GenerationInv'
  <2>1. \A i \in 1 .. Len(pool'.ready) : pool'.ready[i] <= source'.generation
    BY <1>2 DEF Steady, RestInv, GenerationInv, RunTask
  <2>2. \A g \in pool'.delayed : g <= source'.generation
    BY <1>2 DEF Steady, RestInv, GenerationInv
  <2>3. \A u \in Threads : At(u, "delay")' \/ At(u, "wake")' => Arg(u)' <= source'.generation
    BY <1>1, <1>2 DEF RestInv, GenerationInv
  <2> QED BY <2>1, <2>2, <2>3 DEF GenerationInv
<1>8. RequestInv' BY <1>2 DEF RestInv, RequestInv
<1>9. WakeInv'
  <2> SUFFICES ASSUME InRun'
               PROVE  /\ OneWake'
                      /\ Awaited' => node'["source"].line = <<>> /\ ~source'.reschedule
                      /\ Awaited' \/ source'.reschedule => Resting'
                      /\ \A u \in Threads : At(u, "delay")' => Arg(u)' = source'.generation
    BY DEF WakeInv
  <2>1. /\ OneWake
        /\ Awaited => node["source"].line = <<>> /\ ~source.reschedule
        /\ Awaited \/ source.reschedule => Resting
        /\ \A u \in Threads : At(u, "delay") => Arg(u) = source.generation
    BY DEF RestInv, WakeInv, Steady
  <2>2. Awaited' => Awaited BY <1>3, <1>5, <1>6 DEF Awaited
  <2>3. Resting' = Resting BY <1>2 DEF Resting
  <2>4. Awaited' => node'["source"].line = <<>> BY <2>1, <2>2 DEF Steady
  <2>5. OneWake'
    <3>1. \A u, v \in Threads : Owes(u)' /\ Owes(v)' => u = v BY <1>3, <2>1 DEF OneWake
    <3>2. \A i, j \in 1 .. Len(pool'.ready) : ReadyWake(i)' /\ ReadyWake(j)' => i = j
      BY <1>4, <2>1 DEF OneWake
    <3>3. \A u \in Threads : Owes(u)' => ~DelayedWake' /\ ~AnyReady'
      BY <1>3, <1>5, <1>6, <2>1 DEF OneWake
    <3>4. DelayedWake' => ~AnyReady' BY <1>5, <1>6, <2>1 DEF OneWake
    <3> QED BY <3>1, <3>2, <3>3, <3>4 DEF OneWake
  <2> QED BY <1>1, <1>2, <2>1, <2>2, <2>3, <2>4, <2>5
<1> QED BY <1>7, <1>8, <1>9 DEF RestInv

LEMMA SteadyStep ==
    ASSUME IInv, IInv', RestInv, Steady, NEW t \in Threads, NEW steps, NEW r, Advances(t, steps, r),
           \A i \in 1 .. Len(steps) : steps[i][1] \notin Barred,
           Len(todo[t]) >= 1 => Kind(t, 1) \notin {"cancelled", "renew"}
    PROVE  RestInv'
<1>1. TypeOK /\ ListsOK /\ TokensFirst /\ CancelInv BY DEF IInv, RestInv
<1>2. \A i \in 1 .. Len(steps) :
         /\ steps[i][1] \notin TokenKinds /\ steps[i][1] # "invalidate"
         /\ steps[i][1] # "initialized" /\ steps[i][1] \notin {"running", "clear"}
  BY DEF Barred
<1>3. /\ TokensFirst'
      /\ \A u \in Threads \ {t} : \A k : At(u, k)' = At(u, k) /\ Arg(u)' = Arg(u)
      /\ \A k \in TokenKinds : ~At(t, k)'
  <2>1. /\ TokensFirst'
        /\ \A u \in Threads \ {t} : \A k : At(u, k)' = At(u, k) /\ Arg(u)' = Arg(u)
        /\ \A k \in TokenKinds : At(t, k)' => Len(steps) >= 1 /\ steps[1][1] = k
    BY <1>1, <1>2, TokensStep
  <2>2. Len(steps) \in Nat BY <1>1, Deeper
  <2>3. Len(steps) >= 1 => steps[1][1] \notin TokenKinds BY <1>2, <2>2
  <2> QED BY <2>1, <2>3
<1>4. CancelInv' BY <1>1, <1>2, CancelStep DEF Steady
<1>5. Fresh' => Fresh BY <1>2, FreshStep DEF Steady
<1>6. \A u \in Threads : \A k \in TokenKinds : At(u, k)' => At(u, k) /\ Arg(u)' = Arg(u) BY <1>3
<1>7. StartInv' BY <1>2, StartLine DEF Steady, RestInv
<1> QED BY <1>1, <1>3, <1>4, <1>5, <1>6, <1>7, SteadyState

LEMMA SteadyGo ==
    ASSUME IInv, IInv', RestInv, Steady, NEW t \in Threads, NEW k, At(t, k), k \notin {"cancelled", "renew"},
           NEW steps, NEW K, Only(steps, K), Go(t, steps), K \cap Barred = {}
    PROVE  RestInv'
<1>1. steps \in Seq(Steps) /\ ListsOK BY DEF Only, IInv
<1>2. Advances(t, steps, Len(todo[t]) - 1) /\ Kind(t, 1) = k BY <1>1, GoAdvances
<1>3. \A i \in 1 .. Len(steps) : steps[i][1] \notin Barred BY DEF Only
<1> QED BY <1>2, <1>3, SteadyStep

LEMMA SteadyCall ==
    ASSUME IInv, IInv', RestInv, Steady, NEW t \in Threads, Idle(t),
           NEW steps, NEW K, Only(steps, K), Call(t, steps), K \cap Barred = {}
    PROVE  RestInv'
<1>1. steps \in Seq(Steps) /\ ListsOK BY DEF Only, IInv
<1>2. Advances(t, steps, 0) /\ ~(Len(todo[t]) >= 1) BY <1>1, CallAdvances
<1>3. \A i \in 1 .. Len(steps) : steps[i][1] \notin Barred BY DEF Only
<1> QED BY <1>2, <1>3, SteadyStep

LEMMA SteadyStay ==
    ASSUME IInv, RestInv, Steady, UNCHANGED todo
    PROVE  RestInv'
<1>1. \A u \in Threads : \A k : At(u, k)' = At(u, k) /\ Arg(u)' = Arg(u) BY DEF At, Arg, Idle
<1>2. TokensFirst' BY DEF RestInv, TokensFirst, Kind
<1>3. CancelInv' BY DEF RestInv, CancelInv, Kind, Steady
<1>4. Fresh' => Fresh BY DEF Fresh, Steady, At, Idle
<1>5. TypeOK BY DEF IInv
<1>6. StartInv'
  <2> SUFFICES ASSUME NEW i \in 1 .. Len(todo[Host]), Kind(Host, i) = "running"
               PROVE  state' = "Initialized"
    BY DEF RestInv, StartInv, Kind
  <2>1. state = "Initialized" /\ todo[Host] \in StartTails BY StartList DEF RestInv
  <2> QED BY <2>1 DEF Steady
<1> QED BY <1>1, <1>2, <1>3, <1>4, <1>5, <1>6, SteadyState

\* Nothing that the source reads is written.
LEMMA Unmoved ==
    ASSUME UNCHANGED <<state, shared, source, pool>>, node'["source"].line = node["source"].line
    PROVE  Steady
BY DEF Steady, InRun, Stopped

---------------------------------------------------------------------------
(* The steps of calls and closes.                                           *)

LEMMA ArgNode ==
    ASSUME IInv, NEW t \in Threads, NEW k \in NodeKinds \cup {"land", "close"}, At(t, k)
    PROVE  Arg(t) \in Nodes /\ Kind(t, 1) = k /\ todo[t][1] \in Steps /\ Head(todo[t]) = todo[t][1]
<1>1. ListsOK BY DEF IInv
<1>2. /\ Len(todo[t]) >= 1 /\ Kind(t, 1) = k /\ Arg(t) = todo[t][1][2] /\ Head(todo[t]) = todo[t][1]
      /\ Len(todo[t]) \in Nat
  BY <1>1, AtFirst
<1>3. todo[t][1] \in Steps
  <2>1. 1 \in 1 .. Len(todo[t]) BY <1>2
  <2> QED BY <1>1, <2>1, AtFirst
<1> QED BY <1>2, <1>3, StepShape DEF Kind

LEMMA RestTry ==
    ASSUME IInv, IInv', RestInv, NEW t \in Threads, Try(t)
    PROVE  RestInv'
<1>1. At(t, "try") /\ Arg(t) \in Nodes BY ArgNode DEF Try, NodeKinds
<1>2. Only(<<<<"claim", Arg(t)>>>>, {"claim"}) BY <1>1, OnlyOne, StepForms DEF NodeKinds
<1>3. PICK steps : Go(t, steps) /\ Only(steps, {"claim"}) BY <1>2, OnlyNil DEF Try
<1>4. Steady BY Unmoved DEF Try
<1> QED BY <1>1, <1>3, <1>4, SteadyGo DEF Barred, TokenKinds

\* A source with a token is not claimed.
LEMMA RestClaim ==
    ASSUME IInv, IInv', RestInv, NEW t \in Threads, Claim(t)
    PROVE  RestInv'
<1> DEFINE n == Arg(t)
<1>1. At(t, "claim") /\ n \in Nodes BY ArgNode DEF Claim, NodeKinds
<1>2. Only(<<<<"submit", n>>, <<"try", n>>>>, {"submit", "try"})
  BY <1>1, OnlyTwo, StepForms DEF NodeKinds
<1>3. PICK steps : Go(t, steps) /\ Only(steps, {"submit", "try"}) BY <1>2, OnlyNil DEF Claim
<1>4. Resting /\ node["source"].line = <<>> => node'["source"].line = <<>>
  <2>1. CASE node' = node BY <2>1
  <2>2. CASE Ready(n) /\ node' = [node EXCEPT ![n].line = Append(@, "claimed")]
    <3>1. CASE n = "source" BY <2>2, <3>1 DEF Ready, Resting
    <3>2. CASE n # "source"
      <4>1. node \in [Nodes -> [opened : BOOLEAN, closeStarted : BOOLEAN, closed : BOOLEAN,
                                line : Seq(Entries), flushing : BOOLEAN]]
        BY DEF IInv, TypeOK
      <4>2. "source" \in Nodes BY DEF Nodes
      <4> QED BY <2>2, <3>2, <4>1, <4>2
    <3> QED BY <3>1, <3>2
  <2> QED BY <2>1, <2>2 DEF Claim
<1>5. Steady BY <1>4 DEF Claim, Steady, InRun, Stopped
<1> QED BY <1>1, <1>3, <1>5, SteadyGo DEF Barred, TokenKinds

LEMMA RestSubmit ==
    ASSUME IInv, IInv', RestInv, NEW t \in Threads, Submit(t)
    PROVE  RestInv'
<1>1. At(t, "submit") BY DEF Submit
<1>2. PICK steps : Go(t, steps) /\ Only(steps, AfterTask) BY OnlyWakeup, OnlyNil DEF Submit
<1>3. UNCHANGED <<state, shared, source, node>> BY DEF Submit
<1>4. ASSUME pool' = pool PROVE Steady BY <1>3, <1>4, Unmoved
<1>5. ASSUME pool' = Enqueued(RunTask) PROVE Steady
  <2>1. pool.ready \in Seq(Nat) /\ RunTask \in Nat BY DEF IInv, TypeOK, RunTask
  <2>2. pool'.ready = Append(pool.ready, RunTask) /\ pool'.delayed = pool.delayed
    BY <1>5 DEF Enqueued, IInv, TypeOK
  <2>3. \A i \in 1 .. Len(pool'.ready) :
           \/ pool'.ready[i] = RunTask
           \/ i \in 1 .. Len(pool.ready) /\ pool'.ready[i] = pool.ready[i]
    <3> SUFFICES ASSUME NEW i \in 1 .. Len(pool'.ready), ~(i \in 1 .. Len(pool.ready))
                 PROVE  pool'.ready[i] = RunTask
      BY <2>1, <2>2, AppendProperties
    <3>1. Len(Append(pool.ready, RunTask)) = Len(pool.ready) + 1 /\ Len(pool.ready) \in Nat
      BY <2>1, AppendProperties, LenProperties
    <3>2. i = Len(pool.ready) + 1 BY <2>2, <3>1
    <3> QED BY <2>1, <2>2, <3>2, AppendProperties
  <2>4. InRun' = InRun BY <1>3 DEF InRun, Stopped
  <2> QED BY <1>3, <2>2, <2>3, <2>4 DEF Steady
<1>6. Steady BY <1>4, <1>5 DEF Submit
<1>7. AfterTask \cap Barred = {} BY DEF AfterTask, Barred, TokenKinds
<1> QED BY <1>1, <1>2, <1>6, <1>7, SteadyGo

\* What a call writes into its line, or takes from it, leaves an empty line empty.
LEMMA LineSteady ==
    ASSUME IInv, NEW n \in Nodes, NEW l, NEW f,
           UNCHANGED <<state, source, pool>>, shared.cancelled => shared'.cancelled, Stopped => Stopped',
           node["source"].line # <<>> \/ n # "source" \/ l = node[n].line,
           \/ node' = [node EXCEPT ![n].line = l]
           \/ node' = [node EXCEPT ![n].line = l, ![n].flushing = f]
    PROVE  Steady
<1>1. node \in [Nodes -> [opened : BOOLEAN, closeStarted : BOOLEAN, closed : BOOLEAN,
                          line : Seq(Entries), flushing : BOOLEAN]]
  BY DEF IInv, TypeOK
<1>2. "source" \in Nodes BY DEF Nodes
<1>3. node["source"].line = <<>> => node'["source"].line = <<>> BY <1>1, <1>2
<1> QED BY <1>3 DEF Steady, InRun

\* The thread at a call has an entry in the line.
LEMMA RestRun ==
    ASSUME IInv, IInv', RestInv, NEW t \in Threads, Run(t)
    PROVE  RestInv'
<1> DEFINE n == Arg(t)
           step == IF Stopped THEN <<"land", n, "landed">> ELSE <<"process", n>>
<1>1. At(t, "run") /\ n \in Nodes BY ArgNode DEF Run, NodeKinds
<1>2. step \in Steps /\ step[1] \in {"land", "process"} BY <1>1, StepForms DEF NodeKinds
<1>3. Only(<<step>>, {"land", "process"}) BY <1>2, OnlyOne
<1>4. Go(t, <<step>>) BY DEF Run
<1>5. \E i \in 1 .. Len(node[n].line) : node[n].line[i] = "claimed" BY <1>1, HolderClaims
<1>6. node[n].line # <<>>
  <2>1. Len(<<>>) = 0 OBVIOUS
  <2> QED BY <1>5, <2>1
<1>7. Steady
  <2> DEFINE l == [node[n].line EXCEPT ![FirstClaimed(n)] = t]
  <2>1. node' = [node EXCEPT ![n].line = l] BY <1>1 DEF Run
  <2> HIDE DEF l
  <2>2. UNCHANGED <<state, shared, source, pool>> BY DEF Run
  <2> QED BY <1>1, <1>6, <2>1, <2>2, LineSteady DEF Stopped
<1> HIDE DEF step
<1> QED BY <1>1, <1>3, <1>4, <1>7, SteadyGo DEF Barred, TokenKinds

LEMMA RestRequest ==
    ASSUME IInv, IInv', RestInv, NEW t \in Threads, Request(t) \/ Arm(t)
    PROVE  RestInv'
<1>1. Steady BY Unmoved DEF Request, Arm
<1>2. Go(t, <<>>) /\ Only(<<>>, {}) BY OnlyNil DEF Request, Arm
<1>3. At(t, "request") \/ At(t, "arm") BY DEF Request, Arm
<1>4. {} \cap Barred = {} OBVIOUS
<1> QED BY <1>1, <1>2, <1>3, <1>4, SteadyGo

LEMMA RestFail ==
    ASSUME IInv, IInv', RestInv, NEW t \in Threads, Fail(t)
    PROVE  RestInv'
<1>1. At(t, "process") /\ Arg(t) \in Nodes BY ArgNode DEF Fail, NodeKinds
<1>2. Only(<<<<"land", Arg(t), "landed">>>>, {"land"}) BY <1>1, OnlyOne, StepForms
<1>3. Go(t, <<<<"land", Arg(t), "landed">>>>) BY DEF Fail
<1>4. Steady
  <2>1. shared'.error /\ shared'.cancelled = shared.cancelled BY DEF Fail, IInv, TypeOK
  <2> QED BY <2>1 DEF Fail, Steady, InRun, Stopped
<1> QED BY <1>1, <1>2, <1>3, <1>4, SteadyGo DEF Barred, TokenKinds

LEMMA RestLand ==
    ASSUME IInv, IInv', RestInv, NEW t \in Threads, Land(t)
    PROVE  RestInv'
<1> DEFINE n == Arg(t)
           l == [node[n].line EXCEPT ![CHOOSE i \in DOMAIN node[n].line : node[n].line[i] = t]
                     = Head(todo[t])[3]]
           K == {"flush", "resume?", "try", "close?"}
<1>1. At(t, "land") /\ n \in Nodes BY ArgNode DEF Land
<1>2. \E i \in 1 .. Len(node[n].line) : node[n].line[i] = t
  BY <1>1 DEF IInv, CallsInv, CallInv
<1>3. node[n].line # <<>>
  <2>1. Len(<<>>) = 0 OBVIOUS
  <2> QED BY <1>2, <2>1
<1>4. node' = [node EXCEPT ![n].line = l, ![n].flushing = TRUE] BY DEF Land
<1>5. UNCHANGED <<state, shared, source, pool>> BY DEF Land
<1>6. PICK first : /\ Only(first, K) /\ Go(t, first \o Finish(n))
  <2>1. Only(<<<<"flush", n>>>>, K) BY <1>1, OnlyOne, StepForms DEF NodeKinds
  <2>2. Only(<<>>, K) BY OnlyNil
  <2> QED BY <2>1, <2>2 DEF Land
<1>7. Only(first \o Finish(n), K)
  <2>1. Only(Finish(n), {"resume?", "try", "close?"}) BY <1>1, OnlyFinish
  <2>2. Only(Finish(n), K) BY <2>1, OnlyMore
  <2> QED BY <1>6, <2>2, OnlyConcat
<1> HIDE DEF l
<1>8. Steady BY <1>1, <1>3, <1>4, <1>5, LineSteady DEF Stopped
<1>9. K \cap Barred = {} BY DEF Barred, TokenKinds
<1> HIDE DEF K
<1> QED BY <1>1, <1>6, <1>7, <1>8, <1>9, SteadyGo

LEMMA RestFlush ==
    ASSUME IInv, IInv', RestInv, NEW t \in Threads, Flush(t)
    PROVE  RestInv'
<1> DEFINE n == Arg(t)
<1>1. At(t, "flush") /\ n \in Nodes BY ArgNode DEF Flush, NodeKinds
<1>2. UNCHANGED <<state, shared, source, pool>> BY DEF Flush
<1>3. CASE node' = node /\ Go(t, <<<<"try", "sink">>, <<"release", n>>>>)
  <2>1. Only(<<<<"try", "sink">>, <<"release", n>>>>, {"try", "release"}) BY <1>1, OnlyFlush
  <2>2. Steady BY <1>2, <1>3, Unmoved
  <2> QED BY <1>1, <1>3, <2>1, <2>2, SteadyGo DEF Barred, TokenKinds
<1>4. CASE /\ node[n].line # <<>> /\ node' = [node EXCEPT ![n].line = Tail(node[n].line)]
           /\ UNCHANGED todo
  <2>1. Steady BY <1>1, <1>2, <1>4, LineSteady DEF Stopped
  <2> QED BY <1>4, <2>1, SteadyStay
<1>5. CASE node' = [node EXCEPT ![n].flushing = FALSE] /\ Go(t, <<>>)
  <2>1. node'["source"].line = node["source"].line
    BY <1>1, <1>5, FlushingChange DEF IInv, Nodes
  <2>2. Steady BY <1>2, <2>1, Unmoved
  <2>3. Only(<<>>, {}) BY OnlyNil
  <2> QED BY <1>1, <1>5, <2>2, <2>3, SteadyGo
<1> QED BY <1>1, <1>3, <1>4, <1>5 DEF Flush

LEMMA RestRelease ==
    ASSUME IInv, IInv', RestInv, NEW t \in Threads, Release(t)
    PROVE  RestInv'
<1> DEFINE n == Arg(t)
<1>1. At(t, "release") /\ n \in Nodes BY ArgNode DEF Release, NodeKinds
<1>2. node[n].line # <<>> BY <1>1, Flusher DEF FirstEmitted
<1>3. UNCHANGED <<state, shared, source, pool>> BY DEF Release
<1>4. node' = [node EXCEPT ![n].line = Tail(node[n].line)] BY <1>1 DEF Release
<1>5. Steady BY <1>1, <1>2, <1>3, <1>4, LineSteady DEF Stopped
<1>6. Go(t, <<<<"flush", n>>>>) /\ Only(<<<<"flush", n>>>>, {"flush"})
  BY <1>1, OnlyOne, StepForms DEF Release, NodeKinds
<1> QED BY <1>1, <1>5, <1>6, SteadyGo DEF Barred, TokenKinds

LEMMA RestClose ==
    ASSUME IInv, IInv', RestInv, NEW t \in Threads,
           CloseLook(t) \/ CloseClaim(t) \/ Close(t) \/ EndOfStream(t)
    PROVE  RestInv'
<1> DEFINE n == Arg(t)
<1>1. CASE CloseLook(t)
  <2>1. At(t, "close?") /\ n \in Nodes BY <1>1, ArgNode DEF CloseLook, NodeKinds
  <2>2. Stopped \in BOOLEAN BY DEF IInv, TypeOK, Stopped
  <2>3. Only(<<<<"close", n, Stopped>>>>, {"close"}) BY <2>1, <2>2, OnlyOne, StepForms
  <2>4. Steady BY <1>1, Unmoved DEF CloseLook
  <2>5. Go(t, <<<<"close", n, Stopped>>>>) BY <1>1 DEF CloseLook
  <2> QED BY <2>1, <2>3, <2>4, <2>5, SteadyGo DEF Barred, TokenKinds
<1>2. CASE CloseClaim(t)
  <2>1. At(t, "close") /\ n \in Nodes BY <1>2, ArgNode DEF CloseClaim
  <2>2. Only(<<<<"closing", n>>>>, {"closing"}) BY <2>1, OnlyOne, StepForms DEF NodeKinds
  <2>3. PICK steps : Go(t, steps) /\ Only(steps, {"closing"}) BY <1>2, <2>2, OnlyNil DEF CloseClaim
  <2>4. node'["source"].line = node["source"].line
    <3>1. CASE node' = node BY <3>1
    <3>2. CASE node' = [node EXCEPT ![n].closeStarted = TRUE]
      BY <2>1, <3>2, StartedChange DEF IInv, Nodes
    <3> QED BY <1>2, <3>1, <3>2 DEF CloseClaim
  <2>5. Steady BY <1>2, <2>4, Unmoved DEF CloseClaim
  <2> QED BY <2>1, <2>3, <2>5, SteadyGo DEF Barred, TokenKinds
<1>3. CASE Close(t)
  <2>1. At(t, "closing") /\ n \in Nodes BY <1>3, ArgNode DEF Close, NodeKinds
  <2>2. Only(<<<<"end">>>>, {"end"}) BY OnlyOne, StepForms DEF PlainKinds
  <2>3. PICK steps : Go(t, steps) /\ Only(steps, {"end"}) BY <1>3, <2>2, OnlyNil DEF Close
  <2>4. node'["source"].line = node["source"].line
    BY <1>3, <2>1, ClosedChange DEF Close, IInv, Nodes
  <2>5. /\ shared'.cancelled = shared.cancelled
        /\ shared.error => shared'.error
    BY <1>3 DEF Close, IInv, TypeOK
  <2>6. Steady BY <1>3, <2>4, <2>5 DEF Close, Steady, InRun, Stopped
  <2> QED BY <2>1, <2>3, <2>6, SteadyGo DEF Barred, TokenKinds
<1>4. CASE EndOfStream(t)
  <2> DEFINE K == {"try", "request", "arm"}
  <2>1. At(t, "end") BY <1>4 DEF EndOfStream
  <2>2. Only(<<<<"try", "sink">>>>, K) BY OnlyOne, StepForms DEF NodeKinds, Nodes
  <2>3. Only(RequestWakeup, K) BY OnlyWakeup, OnlyMore DEF AfterTask
  <2>4. Only(<<<<"try", "sink">>>> \o RequestWakeup, K) BY <2>2, <2>3, OnlyConcat
  <2>5. Go(t, <<<<"try", "sink">>>> \o RequestWakeup) BY <1>4 DEF EndOfStream
  <2>6. Steady BY <1>4, Unmoved DEF EndOfStream
  <2>7. K \cap Barred = {} BY DEF Barred, TokenKinds
  <2> HIDE DEF K
  <2> QED BY <2>1, <2>4, <2>5, <2>6, <2>7, SteadyGo
<1> QED BY <1>1, <1>2, <1>3, <1>4

---------------------------------------------------------------------------
(* The worker that takes a task.                                            *)

\* The ready tasks, with a wake that is due at their end.
DueLast(due, ready) ==
    \A j \in 1 .. Len(ready) :
        \/ j \in 1 .. Len(pool.ready) /\ ready[j] = pool.ready[j]
        \/ \E g \in pool.delayed : due = <<g>> /\ j = Len(pool.ready) + 1 /\ ready[j] = g

LEMMA DueForm ==
    ASSUME TypeOK, NEW due \in Due, NEW ready, ready = pool.ready \o due
    PROVE  /\ ready \in Seq(Nat) /\ Len(ready) \in Nat /\ Len(pool.ready) \in Nat
           /\ DueLast(due, ready)
<1>1. pool.ready \in Seq(Nat) /\ pool.delayed \subseteq Nat \ {0} BY DEF TypeOK
<1>2. Len(pool.ready) \in Nat BY <1>1, LenProperties
<1>3. CASE due = <<>>
  <2>1. ready = pool.ready BY <1>1, <1>3
  <2> QED BY <1>1, <1>2, <2>1 DEF DueLast
<1>4. CASE due # <<>>
  <2>1. PICK g \in pool.delayed : due = <<g>> BY <1>4 DEF Due
  <2>2. g \in Nat BY <1>1, <2>1
  <2>3. ready = Append(pool.ready, g) BY <1>1, <2>1, <2>2
  <2>4. /\ ready \in Seq(Nat) /\ Len(ready) = Len(pool.ready) + 1 /\ ready[Len(pool.ready) + 1] = g
        /\ \A j \in 1 .. Len(pool.ready) : ready[j] = pool.ready[j]
    BY <1>1, <2>2, <2>3, AppendProperties
  <2>5. \A j \in 1 .. Len(ready) : j \in 1 .. Len(pool.ready) \/ j = Len(pool.ready) + 1
    BY <1>2, <2>4
  <2> QED BY <1>2, <2>1, <2>4, <2>5 DEF DueLast
<1> QED BY <1>3, <1>4

\* A wake is run for the generation it was made for.
LEMMA TakenSteps ==
    ASSUME NEW task \in Nat
    PROVE  /\ StepsOf(task) \in Seq(Steps) /\ Len(StepsOf(task)) = 2
           /\ StepsOf(task)[1][1] \in {"run", "wake"} /\ StepsOf(task)[2][1] = "completed"
           /\ StepsOf(task)[1][1] = "wake" => task # RunTask /\ StepsOf(task)[1][2] = task
<1>0. /\ StepsOf(task) \in Seq(Steps) /\ Len(StepsOf(task)) = 2
      /\ StepsOf(task)[2][1] = "completed"
  BY TaskSteps
<1>1. CASE task = RunTask
  <2>1. StepsOf(task) = <<<<"run", "source">>, <<"completed", "run">>>> BY <1>1 DEF StepsOf
  <2>2. StepsOf(task)[1] = <<"run", "source">> BY <2>1
  <2>3. <<"run", "source">>[1] = "run" OBVIOUS
  <2> QED BY <2>2, <2>3, <1>0
<1>2. CASE task # RunTask
  <2>1. StepsOf(task) = <<<<"wake", task>>, <<"completed", "wake">>>> BY <1>2 DEF StepsOf
  <2>2. StepsOf(task)[1] = <<"wake", task>> BY <2>1
  <2>3. <<"wake", task>>[1] = "wake" /\ <<"wake", task>>[2] = task OBVIOUS
  <2> QED BY <1>2, <2>2, <2>3, <1>0
<1> QED BY <1>1, <1>2

LEMMA TailFacts ==
    ASSUME NEW s \in Seq(Nat), s # <<>>
    PROVE  /\ Head(s) \in Nat /\ Tail(s) \in Seq(Nat) /\ Len(Tail(s)) = Len(s) - 1
           /\ \A i \in 1 .. Len(Tail(s)) : Tail(s)[i] = s[i + 1]
           /\ Len(s) >= 1 /\ Head(s) = s[1]
<1>1. Len(s) \in Nat /\ Len(s) # 0 BY EmptySeq, LenProperties
<1>2. Len(s) >= 1 BY <1>1
<1> QED BY <1>2, HeadTailProperties

\* What Take does to the pool.
LEMMA TakenPool ==
    ASSUME TypeOK, NEW due \in Due, NEW ready, ready = pool.ready \o due, ready # <<>>,
           pool' = [pool EXCEPT !.ready = Tail(ready), !.running = @ + 1,
                                !.delayed = @ \ {due[i] : i \in DOMAIN due}]
    PROVE  /\ Len(ready) >= 1 /\ Head(ready) = ready[1] /\ Head(ready) \in Nat
           /\ Len(pool'.ready) = Len(ready) - 1
           /\ \A i \in 1 .. Len(pool'.ready) : i + 1 \in 1 .. Len(ready) /\ pool'.ready[i] = ready[i + 1]
           /\ pool'.delayed \subseteq pool.delayed
           /\ \A g : due = <<g>> => g \notin pool'.delayed
           /\ pool'.stop = pool.stop
<1>1. ready \in Seq(Nat) /\ Len(ready) \in Nat BY DueForm
<1>2. /\ Head(ready) \in Nat /\ Tail(ready) \in Seq(Nat) /\ Len(Tail(ready)) = Len(ready) - 1
      /\ \A i \in 1 .. Len(Tail(ready)) : Tail(ready)[i] = ready[i + 1]
      /\ Len(ready) >= 1 /\ Head(ready) = ready[1]
  BY <1>1, TailFacts
<1> DEFINE gone == {due[i] : i \in DOMAIN due}
<1>3. pool' = [pool EXCEPT !.ready = Tail(ready), !.running = @ + 1, !.delayed = pool.delayed \ gone]
  BY DEF TypeOK
<1>4. \A g : due = <<g>> => g \in gone
  <2> SUFFICES ASSUME NEW g, due = <<g>> PROVE g \in gone OBVIOUS
  <2>1. 1 \in DOMAIN due /\ due[1] = g OBVIOUS
  <2> QED BY <2>1
<1> HIDE DEF gone
<1>5. pool'.ready = Tail(ready) /\ pool'.delayed = pool.delayed \ gone /\ pool'.stop = pool.stop
  BY <1>3 DEF TypeOK
<1>6. \A i \in 1 .. Len(Tail(ready)) : i + 1 \in 1 .. Len(ready) BY <1>1, <1>2
<1> QED BY <1>2, <1>4, <1>5, <1>6

LEMMA RestTake ==
    ASSUME IInv, IInv', RestInv, NEW w \in Workers, Take(w)
    PROVE  RestInv'
<1>0. TypeOK /\ ListsOK /\ TokensFirst /\ CancelInv /\ w \in Threads BY DEF IInv, RestInv, Threads
<1>1. PICK due \in Due :
         /\ pool.ready \o due # <<>>
         /\ pool' = [pool EXCEPT !.ready = Tail(pool.ready \o due), !.running = @ + 1,
                                 !.delayed = @ \ {due[i] : i \in DOMAIN due}]
         /\ Call(w, StepsOf(Head(pool.ready \o due)))
  BY DEF Take
<1>2. PICK ready : ready = pool.ready \o due OBVIOUS
<1>22. /\ ready # <<>> /\ Call(w, StepsOf(Head(ready)))
       /\ pool' = [pool EXCEPT !.ready = Tail(ready), !.running = @ + 1,
                               !.delayed = @ \ {due[i] : i \in DOMAIN due}]
  BY <1>1, <1>2
<1> DEFINE G == source.generation
           steps == StepsOf(ready[1])
           Hit(j) == j \in 1 .. Len(ready) /\ ready[j] = G /\ G # RunTask
<1> HIDE DEF G, steps, Hit
<1>3. /\ Len(ready) >= 1 /\ Head(ready) = ready[1] /\ ready[1] \in Nat
      /\ Len(pool'.ready) = Len(ready) - 1
      /\ \A i \in 1 .. Len(pool'.ready) : i + 1 \in 1 .. Len(ready) /\ pool'.ready[i] = ready[i + 1]
      /\ pool'.delayed \subseteq pool.delayed
      /\ \A g : due = <<g>> => g \notin pool'.delayed
  <2>1. TypeOK /\ due \in Due /\ ready = pool.ready \o due BY <1>0, <1>1, <1>2
  <2> QED BY ZenonT(60), <2>1, <1>22, TakenPool
<1>4. /\ Len(ready) \in Nat /\ Len(pool.ready) \in Nat
      /\ \A j \in 1 .. Len(ready) :
            \/ j \in 1 .. Len(pool.ready) /\ ready[j] = pool.ready[j]
            \/ \E g \in pool.delayed : due = <<g>> /\ j = Len(pool.ready) + 1 /\ ready[j] = g
  <2>1. TypeOK /\ due \in Due /\ ready = pool.ready \o due BY <1>0, <1>1, <1>2
  <2>2. Len(ready) \in Nat /\ Len(pool.ready) \in Nat /\ DueLast(due, ready) BY <2>1, DueForm
  <2> QED BY <2>2 DEF DueLast
<1> USE DEF G, steps, Hit
<1>5. /\ steps \in Seq(Steps) /\ Len(steps) = 2
      /\ steps[1][1] \in {"run", "wake"} /\ steps[2][1] = "completed"
      /\ steps[1][1] = "wake" => ready[1] # RunTask /\ steps[1][2] = ready[1]
  BY <1>3, TakenSteps
<1>6. Idle(w) /\ Call(w, steps) BY <1>1, <1>2, <1>3 DEF Take
<1>7. UNCHANGED <<state, shared, source, node>> BY DEF Take
<1> HIDE DEF steps
<1>8. Advances(w, steps, 0) /\ ~(Len(todo[w]) >= 1) BY <1>0, <1>5, <1>6, CallAdvances
<1>9. \A i \in 1 .. Len(steps) : /\ steps[i][1] \in TokenKinds => i = 1
                                 /\ steps[i][1] # "invalidate" /\ steps[i][1] # "initialized"
                                 /\ steps[i][1] \notin {"running", "clear"}
  <2>1. \A i \in 1 .. 2 : i = 1 \/ i = 2 OBVIOUS
  <2> QED BY <1>5, <2>1 DEF TokenKinds
<1>10. /\ TokensFirst'
       /\ \A u \in Threads \ {w} : \A k : At(u, k)' = At(u, k) /\ Arg(u)' = Arg(u)
       /\ \A k \in TokenKinds : At(w, k)' => Len(steps) >= 1 /\ steps[1][1] = k /\ Arg(w)' = steps[1][2]
  BY <1>0, <1>8, <1>9, TokensStep
<1>18. StartInv' BY <1>0, <1>7, <1>8, <1>9, StartLine DEF RestInv
<1>11. /\ ~At(w, "generation")' /\ ~At(w, "delay")'
       /\ At(w, "wake")' => ready[1] # RunTask /\ Arg(w)' = ready[1]
  BY <1>5, <1>10 DEF TokenKinds
<1>12. CancelInv' BY <1>0, <1>7, <1>8, <1>9, CancelStep
<1>13. Fresh' => Fresh
  <2>1. state' = "Initialized" => state = "Initialized" BY <1>7
  <2>2. w # Host BY ThreadsAssumption
  <2> QED BY <1>0, <1>8, <1>9, <2>1, <2>2, FreshStep
<1>14. G \in Nat BY <1>0 DEF TypeOK
<1>15. GenerationInv'
  <2>1. \A j \in 1 .. Len(ready) : ready[j] <= G BY <1>4 DEF RestInv, GenerationInv
  <2>2. 1 \in 1 .. Len(ready) BY <1>3, <1>4
  <2>3. \A u \in Threads : At(u, "delay")' \/ At(u, "wake")' => Arg(u)' <= G
    BY <1>10, <1>11, <2>1, <2>2 DEF RestInv, GenerationInv
  <2>4. \A i \in 1 .. Len(pool'.ready) : pool'.ready[i] <= G BY <1>3, <2>1
  <2>5. \A g \in pool'.delayed : g <= G BY <1>3 DEF RestInv, GenerationInv
  <2> QED BY <1>7, <2>3, <2>4, <2>5 DEF GenerationInv
<1>16. RequestInv' BY <1>7, <1>13 DEF RestInv, RequestInv
<1>17. WakeInv'
  <2> SUFFICES ASSUME InRun'
               PROVE  /\ OneWake'
                      /\ Awaited' => node'["source"].line = <<>> /\ ~source'.reschedule
                      /\ Awaited' \/ source'.reschedule => Resting'
                      /\ \A u \in Threads : At(u, "delay")' => Arg(u)' = source'.generation
    BY DEF WakeInv
  <2>1. InRun BY <1>7 DEF InRun, Stopped
  <2>2. /\ OneWake
        /\ Awaited => node["source"].line = <<>> /\ ~source.reschedule
        /\ Awaited \/ source.reschedule => Resting
        /\ \A u \in Threads : At(u, "delay") => Arg(u) = source.generation
    BY <2>1 DEF RestInv, WakeInv
  <2>3. ASSUME NEW j, Hit(j)
        PROVE  \/ j \in 1 .. Len(pool.ready) /\ ReadyWake(j)
               \/ DelayedWake /\ j = Len(pool.ready) + 1 /\ due = <<G>>
    BY <1>4, <2>3 DEF ReadyWake, DelayedWake
  <2>4. ASSUME NEW i, NEW j, Hit(i), Hit(j) PROVE i = j
    <3>1. \A k : Hit(k) => \/ k \in 1 .. Len(pool.ready) /\ ReadyWake(k)
                           \/ DelayedWake /\ k = Len(pool.ready) + 1
      BY <2>3
    <3> HIDE DEF Hit
    <3> QED BY <2>2, <2>4, <3>1 DEF OneWake, AnyReady
  <2>5. ASSUME NEW j, Hit(j)
        PROVE  (\A u \in Threads : ~Owes(u)) /\ G \notin pool'.delayed /\ Awaited
    <3>1. \/ AnyReady
          \/ DelayedWake /\ due = <<G>>
      BY <2>3, <2>5 DEF AnyReady
    <3>2. CASE AnyReady
      <4>1. ~DelayedWake BY <2>2, <3>2 DEF OneWake
      <4> QED BY <1>3, <2>2, <3>2, <4>1 DEF OneWake, DelayedWake, Awaited
    <3>3. CASE DelayedWake /\ due = <<G>> BY <1>3, <2>2, <3>3 DEF OneWake, Awaited
    <3> QED BY <3>1, <3>2, <3>3
  <2>6. ASSUME NEW u \in Threads \ {w} PROVE Owes(u)' = Owes(u) BY <1>7, <1>10 DEF Owes
  <2>7. Owes(w)' => Hit(1)
    <3>1. 1 \in 1 .. Len(ready) BY <1>3, <1>4
    <3> QED BY <1>7, <1>11, <3>1 DEF Owes
  <2>8. \A i \in 1 .. Len(pool'.ready) : ReadyWake(i)' => Hit(i + 1) BY <1>3, <1>7 DEF ReadyWake
  <2>9. DelayedWake' => DelayedWake /\ G \in pool'.delayed BY <1>3, <1>7 DEF DelayedWake
  <2>10. AnyReady' => \E i \in 1 .. Len(pool'.ready) : Hit(i + 1) BY <2>8 DEF AnyReady
  <2>11. Awaited' => Awaited
    <3>1. ASSUME NEW u \in Threads, Owes(u)' PROVE Awaited
      <4>1. CASE u = w BY <2>5, <2>7, <3>1, <4>1
      <4>2. CASE u # w BY <2>6, <3>1, <4>2 DEF Awaited
      <4> QED BY <4>1, <4>2
    <3>2. ASSUME AnyReady' PROVE Awaited BY <2>5, <2>10, <3>2
    <3>3. ASSUME DelayedWake' PROVE Awaited BY <2>9, <3>3 DEF Awaited
    <3> HIDE DEF Hit
    <3> QED BY <3>1, <3>2, <3>3 DEF Awaited
  <2>12. OneWake'
    <3> HIDE DEF Hit
    <3>1. ASSUME NEW u \in Threads, NEW v \in Threads, Owes(u)', Owes(v)' PROVE u = v
      <4>1. CASE u # w /\ v # w BY <2>2, <2>6, <3>1, <4>1 DEF OneWake
      <4>2. CASE u = w \/ v = w
        <5>1. \A x \in Threads : ~Owes(x) BY <2>5, <2>7, <3>1, <4>2
        <5> QED BY <2>6, <3>1, <5>1
      <4> QED BY <4>1, <4>2
    <3>2. ASSUME NEW i \in 1 .. Len(pool'.ready), NEW j \in 1 .. Len(pool'.ready),
                 ReadyWake(i)', ReadyWake(j)'
          PROVE  i = j
      <4>1. i + 1 = j + 1 BY <2>4, <2>8, <3>2
      <4> QED BY <4>1
    <3>3. ASSUME NEW u \in Threads, Owes(u)' PROVE ~DelayedWake' /\ ~AnyReady'
      <4>1. CASE u = w
        <5>1. Hit(1) BY <2>7, <3>3, <4>1
        <5>2. \A i \in 1 .. Len(pool'.ready) : ~Hit(i + 1)
          <6>1. \A i \in 1 .. Len(pool'.ready) : i + 1 # 1 OBVIOUS
          <6> QED BY <2>4, <5>1, <6>1
        <5> QED BY <2>5, <2>9, <2>10, <5>1, <5>2
      <4>2. CASE u # w BY <2>2, <2>5, <2>6, <2>9, <2>10, <3>3, <4>2 DEF OneWake
      <4> QED BY <4>1, <4>2
    <3>4. DelayedWake' => ~AnyReady' BY <2>5, <2>9, <2>10
    <3> QED BY <3>1, <3>2, <3>3, <3>4 DEF OneWake
  <2> QED BY <1>7, <1>10, <1>11, <2>2, <2>11, <2>12 DEF Resting
<1> QED BY <1>10, <1>12, <1>15, <1>16, <1>17, <1>18 DEF RestInv

---------------------------------------------------------------------------
(* The workers.                                                             *)

\* The lists after a step of a worker that pushes at most one token.
LEMMA WorkerFrame ==
    ASSUME IInv, IInv', RestInv, NEW w \in Workers, NEW k, At(w, k), k \notin AfterTask,
           NEW steps, NEW K, Only(steps, K), Go(w, steps), K \cap {"invalidate", "initialized", "running", "clear"} = {},
           Len(steps) <= 1 \/ K \cap TokenKinds = {}, UNCHANGED <<state, shared>>
    PROVE  /\ TokensFirst' /\ CancelInv' /\ StartInv' /\ ~Fresh /\ ~Fresh'
           /\ \A u \in Threads \ {w} : \A l : At(u, l)' = At(u, l) /\ Arg(u)' = Arg(u)
           /\ \A l \in TokenKinds : At(w, l)' => l \in K /\ steps[1][1] = l /\ Arg(w)' = steps[1][2]
           /\ Len(steps) >= 1 => \A l : At(w, l)' <=> steps[1][1] = l
<1>0. w \in Threads /\ w # Host /\ ~Fresh BY WorkerAwake
<1>1. steps \in Seq(Steps) /\ ListsOK /\ TokensFirst /\ CancelInv BY DEF Only, IInv, RestInv
<1>2. Advances(w, steps, Len(todo[w]) - 1) /\ Kind(w, 1) = k BY <1>0, <1>1, GoAdvances
<1>3. Len(steps) \in Nat BY <1>0, <1>1, <1>2, Deeper
<1>4. \A i \in 1 .. Len(steps) :
         /\ steps[i][1] \in K
         /\ steps[i][1] \in TokenKinds => i = 1
         /\ steps[i][1] # "invalidate" /\ steps[i][1] # "initialized" /\ steps[i][1] \notin {"running", "clear"}
  <2>1. \A i \in 1 .. Len(steps) : steps[i][1] \in K BY DEF Only
  <2>2. CASE Len(steps) <= 1
    <3>1. \A i \in 1 .. Len(steps) : i = 1 BY <1>3, <2>2
    <3> QED BY <2>1, <3>1
  <2>3. CASE K \cap TokenKinds = {} BY <2>1, <2>3
  <2> QED BY <2>2, <2>3
<1>5. /\ TokensFirst'
      /\ \A u \in Threads \ {w} : \A l : At(u, l)' = At(u, l) /\ Arg(u)' = Arg(u)
      /\ \A l \in TokenKinds : At(w, l)' => Len(steps) >= 1 /\ steps[1][1] = l /\ Arg(w)' = steps[1][2]
  BY <1>0, <1>1, <1>2, <1>4, TokensStep
<1>6. CancelInv' BY <1>0, <1>1, <1>2, <1>4, CancelStep
<1>7. ~Fresh' BY <1>0, <1>2, <1>4, FreshStep
<1>8. Len(steps) >= 1 => 1 \in 1 .. Len(steps) BY <1>3
<1>9. ASSUME Len(steps) >= 1 PROVE \A l : At(w, l)' <=> steps[1][1] = l
  <2>1. ListsOK' BY DEF IInv
  <2>2. todo'[w][1] = steps[1] /\ 1 \in 1 .. Len(todo'[w]) BY <1>0, <1>1, <1>2, <1>8, <1>9, Kept
  <2>3. Len(todo'[w]) \in Nat /\ \A l : At(w, l)' <=> Len(todo'[w]) >= 1 /\ todo'[w][1][1] = l
    BY <1>0, <2>1, AtFirstNext
  <2> QED BY <2>2, <2>3
<1>10. StartInv' BY <1>0, <1>2, <1>4, StartLine DEF RestInv
<1> QED BY <1>0, <1>4, <1>5, <1>6, <1>7, <1>8, <1>9, <1>10

\* A worker writes the flags of a source when nobody else is to wake it.
LEMMA SourceWrites ==
    ASSUME IInv, IInv', RestInv, NEW w \in Workers, NEW k, At(w, k), k \notin AfterTask,
           NEW steps, NEW K, Only(steps, K), Go(w, steps), K \cap Barred = {},
           UNCHANGED <<state, shared, pool, node>>, source'.generation = source.generation,
           InRun => /\ \A u \in Threads \ {w} : ~Owes(u)
                    /\ ~AnyReady /\ ~DelayedWake
                    /\ source'.reschedule => source'.waiting \/ source'.done
    PROVE  RestInv'
<1>1. K \cap {"invalidate", "initialized", "running", "clear"} = {} /\ K \cap TokenKinds = {} BY DEF Barred
<1>2. /\ TokensFirst' /\ CancelInv' /\ StartInv' /\ ~Fresh'
      /\ \A u \in Threads \ {w} : \A l : At(u, l)' = At(u, l) /\ Arg(u)' = Arg(u)
      /\ \A l \in TokenKinds : ~At(w, l)'
  BY <1>1, WorkerFrame
<1>3. ~At(w, "generation")' /\ ~At(w, "delay")' /\ ~At(w, "wake")' BY <1>2 DEF TokenKinds
<1>4. source.generation \in Nat BY DEF IInv, TypeOK
<1>5. GenerationInv' BY <1>2, <1>3, <1>4 DEF RestInv, GenerationInv
<1>6. WakeInv'
  <2> SUFFICES ASSUME InRun'
               PROVE  /\ OneWake'
                      /\ Awaited' => node'["source"].line = <<>> /\ ~source'.reschedule
                      /\ Awaited' \/ source'.reschedule => Resting'
                      /\ \A u \in Threads : At(u, "delay")' => Arg(u)' = source'.generation
    BY DEF WakeInv
  <2>1. InRun BY DEF InRun, Stopped
  <2>2. \A u \in Threads : ~Owes(u)' BY <1>2, <1>3, <2>1 DEF Owes
  <2>3. ~AnyReady' /\ ~DelayedWake' BY <2>1 DEF AnyReady, ReadyWake, DelayedWake
  <2>4. \A u \in Threads : At(u, "delay") => Arg(u) = source.generation
    BY <2>1 DEF RestInv, WakeInv
  <2>5. OneWake' BY <2>2, <2>3 DEF OneWake, AnyReady
  <2>6. ~Awaited' BY <2>2, <2>3 DEF Awaited
  <2> QED BY <1>2, <1>3, <2>1, <2>4, <2>5, <2>6 DEF Resting
<1> QED BY <1>2, <1>5, <1>6 DEF RestInv, RequestInv

\* A call of the source is outstanding, or the wake is at hand: there is no other.
LEMMA NoWake ==
    ASSUME RestInv, InRun
    PROVE  /\ node["source"].line # <<>> \/ source.reschedule =>
                 (\A u \in Threads : ~Owes(u)) /\ ~AnyReady /\ ~DelayedWake
           /\ \A w \in Threads : Owes(w) =>
                 /\ \A u \in Threads \ {w} : ~Owes(u)
                 /\ ~AnyReady /\ ~DelayedWake /\ ~source.reschedule /\ Resting
                 /\ node["source"].line = <<>>
           /\ \A w \in Threads : At(w, "delay") => Owes(w)
BY DEF RestInv, WakeInv, OneWake, Awaited, Owes

LEMMA RestWake ==
    ASSUME IInv, IInv', RestInv, NEW w \in Workers, Wake(w)
    PROVE  RestInv'
<1>1. At(w, "wake") /\ w \in Threads BY DEF Wake, Threads
<1>2. CASE source.generation # Arg(w)
  <2>1. Go(w, <<>>) /\ UNCHANGED <<state, shared, source, pool, node>> BY <1>2 DEF Wake
  <2>2. Steady BY <2>1, Unmoved
  <2> QED BY <1>1, <2>1, <2>2, SteadyGo, OnlyNil
<1>3. CASE source.generation = Arg(w)
  <2>1. /\ Go(w, <<<<"woken", "source">>>>)
        /\ UNCHANGED <<state, shared, pool, node>>
        /\ source' = [source EXCEPT !.waiting = FALSE]
    BY <1>3 DEF Wake
  <2>2. source'.generation = source.generation /\ source'.reschedule = source.reschedule
    BY <2>1 DEF IInv, TypeOK
  <2>3. Only(<<<<"woken", "source">>>>, {"woken"}) BY OnlyOne, StepForms DEF NodeKinds, Nodes
  <2>4. Owes(w) BY <1>1, <1>3 DEF Owes
  <2>5. InRun => /\ \A u \in Threads \ {w} : ~Owes(u)
                 /\ ~AnyReady /\ ~DelayedWake
                 /\ ~source'.reschedule
    BY <1>1, <2>2, <2>4, NoWake
  <2>6. {"woken"} \cap Barred = {} /\ "wake" \notin AfterTask BY DEF Barred, TokenKinds, AfterTask
  <2> QED BY <1>1, <2>1, <2>2, <2>3, <2>5, <2>6, SourceWrites
<1> QED BY <1>2, <1>3

LEMMA RestWoken ==
    ASSUME IInv, IInv', RestInv, NEW w \in Workers, Woken(w) \/ Completed(w) \/ Exit(w)
    PROVE  RestInv'
<1>0. w \in Threads BY DEF Threads
<1>1. CASE Woken(w)
  <2>1. Only(<<<<"try", "source">>>>, {"try", "close?"}) /\ Only(MaybeClose("source"), {"try", "close?"})
    BY OnlyOne, StepForms DEF NodeKinds, Nodes, MaybeClose
  <2>2. PICK steps : Go(w, steps) /\ Only(steps, {"try", "close?"}) BY <1>1, <2>1 DEF Woken
  <2>3. Steady BY <1>1, Unmoved DEF Woken
  <2>4. At(w, "woken") BY <1>1 DEF Woken
  <2>5. {"try", "close?"} \cap Barred = {} BY DEF Barred, TokenKinds
  <2> QED BY <1>0, <2>2, <2>3, <2>4, <2>5, SteadyGo
<1>2. CASE Completed(w)
  <2>1. pool'.ready = pool.ready /\ pool'.delayed = pool.delayed BY <1>2 DEF Completed, IInv, TypeOK
  <2>2. Steady BY <1>2, <2>1 DEF Completed, Steady, InRun, Stopped
  <2>3. AfterTask \cap Barred = {} BY DEF AfterTask, Barred, TokenKinds
  <2>4. Go(w, RequestWakeup) /\ At(w, "completed") BY <1>2 DEF Completed
  <2> QED BY <1>0, <2>2, <2>3, <2>4, OnlyWakeup, SteadyGo
<1>3. CASE Exit(w)
  <2>1. pool'.ready = pool.ready /\ pool'.delayed = pool.delayed BY <1>3 DEF Exit, IInv, TypeOK
  <2>2. Steady BY <1>3, <2>1 DEF Exit, Steady, InRun, Stopped
  <2> QED BY <1>3, <2>2, SteadyStay DEF Exit
<1> QED BY <1>1, <1>2, <1>3

\* A call of the source that returns is outstanding until its result has landed.
LEMMA RestReturn ==
    ASSUME IInv, IInv', RestInv, NEW w \in Workers, Return(w) \/ LastReturn(w)
    PROVE  RestInv'
<1>1. At(w, "process") /\ Arg(w) = "source" /\ w \in Threads BY DEF Return, LastReturn, Threads
<1>2. UNCHANGED <<state, shared, pool, node>> BY DEF Return, LastReturn
<1>3. PICK result \in {"landed", "emitted"} : Go(w, <<<<"land", "source", result>>>>)
  BY DEF Return, LastReturn
<1>4. Only(<<<<"land", "source", result>>>>, {"land"})
  <2>1. <<"land", "source", result>> \in Steps BY StepForms DEF Nodes
  <2> QED BY <2>1, OnlyOne
<1>5. node["source"].line # <<>>
  <2>1. \E i \in 1 .. Len(node["source"].line) : node["source"].line[i] = w
    BY <1>1 DEF IInv, CallsInv, CallInv
  <2>2. Len(<<>>) = 0 OBVIOUS
  <2> QED BY <2>1, <2>2
<1>6. /\ source'.generation = source.generation
      /\ source'.reschedule = source.reschedule \/ ~source'.reschedule \/ source'.waiting
      /\ source.waiting \/ source.done => source'.waiting \/ source'.done
  <2>1. TypeOK BY DEF IInv
  <2>2. \/ source' = source
        \/ source' = [source EXCEPT !.waiting = TRUE, !.reschedule = TRUE]
        \/ source' = [source EXCEPT !.done = TRUE, !.waiting = FALSE, !.reschedule = FALSE]
    BY DEF Return, LastReturn
  <2>3. CASE source' = source BY <2>3
  <2>4. CASE source' = [source EXCEPT !.waiting = TRUE, !.reschedule = TRUE] BY <2>1, <2>4 DEF TypeOK
  <2>5. CASE source' = [source EXCEPT !.done = TRUE, !.waiting = FALSE, !.reschedule = FALSE]
    BY <2>1, <2>5 DEF TypeOK
  <2> QED BY <2>2, <2>3, <2>4, <2>5
<1>7. InRun => /\ \A u \in Threads \ {w} : ~Owes(u)
               /\ ~AnyReady /\ ~DelayedWake
               /\ source'.reschedule => source'.waiting \/ source'.done
  BY <1>5, <1>6, NoWake DEF RestInv, WakeInv, Resting
<1>8. {"land"} \cap Barred = {} /\ "process" \notin AfterTask BY DEF Barred, TokenKinds, AfterTask
<1> QED BY <1>1, <1>2, <1>3, <1>4, <1>6, <1>7, <1>8, SourceWrites

LEMMA RestResumption ==
    ASSUME IInv, IInv', RestInv, NEW w \in Workers, Resumption(w)
    PROVE  RestInv'
<1>1. At(w, "resume?") /\ w \in Threads BY DEF Resumption, Threads
<1>2. UNCHANGED <<state, shared, pool, node>> BY DEF Resumption
<1>3. CASE source.waiting /\ (Stopped \/ state \notin Live)
  <2>1. Go(w, <<>>) /\ source' = [source EXCEPT !.waiting = FALSE, !.reschedule = FALSE]
    BY <1>3 DEF Resumption
  <2>2. source'.generation = source.generation BY <2>1 DEF IInv, TypeOK
  <2>3. "resume?" \notin AfterTask /\ {} \cap Barred = {} BY DEF AfterTask
  <2> QED BY <1>1, <1>2, <1>3, <2>1, <2>2, <2>3, OnlyNil, SourceWrites DEF InRun
<1>4. CASE ~(source.waiting /\ (Stopped \/ state \notin Live))
  <2>1. Only(<<<<"reschedule">>>>, {"reschedule"}) BY OnlyOne, StepForms DEF PlainKinds
  <2>2. PICK steps : Go(w, steps) /\ Only(steps, {"reschedule"}) BY <1>4, <2>1, OnlyNil DEF Resumption
  <2>3. Steady BY <1>2, <1>4, Unmoved DEF Resumption
  <2>4. {"reschedule"} \cap Barred = {} BY DEF Barred, TokenKinds
  <2> QED BY <1>1, <2>2, <2>3, <2>4, SteadyGo
<1> QED BY <1>3, <1>4

\* A request is taken by one thread, which then owes the wake.
LEMMA RestReschedule ==
    ASSUME IInv, IInv', RestInv, NEW w \in Workers, Reschedule(w)
    PROVE  RestInv'
<1>1. At(w, "reschedule") /\ w \in Threads BY DEF Reschedule, Threads
<1>2. UNCHANGED <<state, shared, pool, node>> BY DEF Reschedule
<1>3. CASE source' = source /\ Go(w, <<>>)
  <2>1. Steady BY <1>2, <1>3, Unmoved
  <2> QED BY <1>1, <1>3, <2>1, SteadyGo, OnlyNil
<1>4. CASE /\ node["source"].line = <<>> /\ source.reschedule
           /\ source' = [source EXCEPT !.reschedule = FALSE]
           /\ Go(w, <<<<"generation">>>>)
  <2>1. /\ source'.generation = source.generation /\ ~source'.reschedule
        /\ source'.waiting = source.waiting /\ source'.done = source.done
    BY <1>4 DEF IInv, TypeOK
  <2>2. Only(<<<<"generation">>>>, {"generation"}) BY OnlyOne, StepForms DEF PlainKinds
  <2>3. PICK steps : steps = <<<<"generation">>>> OBVIOUS
  <2>9. Only(steps, {"generation"}) /\ Go(w, steps) BY <1>4, <2>2, <2>3
  <2>10. Len(steps) = 1 /\ steps[1][1] = "generation" /\ Len(steps) <= 1 /\ Len(steps) >= 1
    <3>1. Len(steps) = 1 /\ steps[1] = <<"generation">> BY <2>3
    <3>2. <<"generation">>[1] = "generation" OBVIOUS
    <3> QED BY <3>1, <3>2
  <2>4. {"generation"} \cap {"invalidate", "initialized", "running", "clear"} = {} /\ "reschedule" \notin AfterTask
    BY DEF AfterTask
  <2>5. /\ TokensFirst' /\ CancelInv' /\ StartInv' /\ ~Fresh'
        /\ \A u \in Threads \ {w} : \A l : At(u, l)' = At(u, l) /\ Arg(u)' = Arg(u)
        /\ \A l : At(w, l)' <=> l = "generation"
    <3>1. /\ TokensFirst' /\ CancelInv' /\ StartInv' /\ ~Fresh'
          /\ \A u \in Threads \ {w} : \A l : At(u, l)' = At(u, l) /\ Arg(u)' = Arg(u)
          /\ \A l : At(w, l)' <=> steps[1][1] = l
      BY <1>1, <1>2, <2>4, <2>9, <2>10, WorkerFrame
    <3> QED BY <2>10, <3>1
  <2>6. GenerationInv' BY <1>2, <2>1, <2>5 DEF RestInv, GenerationInv
  <2>7. WakeInv'
    <3> SUFFICES ASSUME InRun'
                 PROVE  /\ OneWake'
                        /\ Awaited' => node'["source"].line = <<>> /\ ~source'.reschedule
                        /\ Awaited' \/ source'.reschedule => Resting'
                        /\ \A u \in Threads : At(u, "delay")' => Arg(u)' = source'.generation
      BY DEF WakeInv
    <3>1. InRun BY <1>2 DEF InRun, Stopped
    <3>2. (\A u \in Threads : ~Owes(u)) /\ ~AnyReady /\ ~DelayedWake BY <1>4, <3>1, NoWake
    <3>3. \A u \in Threads : At(u, "delay") => Arg(u) = source.generation
      BY <3>1 DEF RestInv, WakeInv
    <3>4. \A u \in Threads : Owes(u)' => u = w BY <2>1, <2>5, <3>2 DEF Owes
    <3>5. ~AnyReady' /\ ~DelayedWake' BY <1>2, <2>1, <3>2 DEF AnyReady, ReadyWake, DelayedWake
    <3>6. OneWake' BY <3>4, <3>5 DEF OneWake, AnyReady
    <3>7. Resting' BY <1>4, <2>1, <3>1 DEF RestInv, WakeInv, Resting
    <3> QED BY <1>2, <1>4, <2>1, <2>5, <3>3, <3>6, <3>7
  <2> QED BY <2>5, <2>6, <2>7 DEF RestInv, RequestInv
<1>5. CASE ~source.reschedule /\ source' = [source EXCEPT !.reschedule = FALSE] /\ Go(w, <<>>)
  <2>1. source' = source
    <3>1. source \in [waiting : BOOLEAN, reschedule : BOOLEAN, done : BOOLEAN, generation : Nat]
      BY DEF IInv, TypeOK
    <3> QED BY <1>5, <3>1
  <2>2. Steady BY <1>2, <2>1, Unmoved
  <2>3. {} \cap Barred = {} OBVIOUS
  <2> QED BY <1>1, <1>5, <2>2, <2>3, SteadyGo, OnlyNil
<1> QED BY <1>3, <1>4, <1>5 DEF Reschedule

\* The wake that is made is the only one of its generation.
LEMMA RestGeneration ==
    ASSUME IInv, IInv', RestInv, NEW w \in Workers, Generation(w)
    PROVE  RestInv'
<1> DEFINE G == source.generation
<1>1. At(w, "generation") /\ w \in Threads BY DEF Generation, Threads
<1>2. UNCHANGED <<state, shared, pool, node>> BY DEF Generation
<1>3. G \in Nat BY DEF IInv, TypeOK
<1>4. /\ source'.generation = G + 1 /\ source'.waiting = source.waiting
      /\ source'.reschedule = source.reschedule /\ source'.done = source.done
  BY DEF Generation, IInv, TypeOK
<1>5. PICK step : step = <<"delay", G + 1>> OBVIOUS
<1>6. step \in Steps /\ step[1] = "delay" /\ step[2] = G + 1 BY <1>3, <1>5, StepForms
<1>7. PICK steps : steps = <<step>> OBVIOUS
<1>8. Only(steps, {"delay"}) /\ Go(w, steps) BY <1>5, <1>6, <1>7, OnlyOne DEF Generation
<1>9. Len(steps) = 1 /\ steps[1] = step /\ Len(steps) <= 1 /\ Len(steps) >= 1 BY <1>7
<1>10. {"delay"} \cap {"invalidate", "initialized", "running", "clear"} = {} /\ "generation" \notin AfterTask
  BY DEF AfterTask
<1>11. /\ TokensFirst' /\ CancelInv' /\ StartInv' /\ ~Fresh'
       /\ \A u \in Threads \ {w} : \A l : At(u, l)' = At(u, l) /\ Arg(u)' = Arg(u)
       /\ \A l \in TokenKinds : At(w, l)' => Arg(w)' = steps[1][2]
       /\ \A l : At(w, l)' <=> steps[1][1] = l
  BY <1>1, <1>2, <1>8, <1>9, <1>10, WorkerFrame
<1>12. (\A l : At(w, l)' <=> l = "delay") /\ Arg(w)' = G + 1
  BY <1>6, <1>9, <1>11 DEF TokenKinds
<1> HIDE DEF G
<1>13. /\ \A u \in Threads : At(u, "delay") \/ At(u, "wake") => Arg(u) <= G
       /\ \A i \in 1 .. Len(pool.ready) : pool.ready[i] <= G
       /\ \A g \in pool.delayed : g <= G
       /\ pool.delayed \subseteq Nat /\ pool.ready \in Seq(Nat)
       /\ \A u \in Threads : At(u, "delay") \/ At(u, "wake") => Arg(u) \in Nat
  <2>1. pool.delayed \subseteq Nat /\ pool.ready \in Seq(Nat) BY DEF IInv, TypeOK
  <2>2. \A u \in Threads : At(u, "delay") \/ At(u, "wake") => Arg(u) \in Nat
    BY AtFirst, StepShape DEF IInv, Kind
  <2> QED BY <2>1, <2>2 DEF RestInv, GenerationInv, G
<1>14. \A i \in 1 .. Len(pool.ready) : pool.ready[i] \in Nat BY <1>13
<1>15. \A g \in Nat : g <= G => g <= G + 1 /\ g # G + 1 BY <1>3
<1>16. GenerationInv'
  <2>1. \A u \in Threads : At(u, "delay")' \/ At(u, "wake")' => Arg(u)' <= G + 1
    BY <1>3, <1>11, <1>12, <1>13, <1>15
  <2>2. \A i \in 1 .. Len(pool'.ready) : pool'.ready[i] <= G + 1
    BY <1>2, <1>13, <1>14, <1>15
  <2>3. \A g \in pool'.delayed : g <= G + 1 BY <1>2, <1>13, <1>15
  <2> QED BY <1>4, <2>1, <2>2, <2>3 DEF GenerationInv
<1>17. WakeInv'
  <2> SUFFICES ASSUME InRun'
               PROVE  /\ OneWake'
                      /\ Awaited' => node'["source"].line = <<>> /\ ~source'.reschedule
                      /\ Awaited' \/ source'.reschedule => Resting'
                      /\ \A u \in Threads : At(u, "delay")' => Arg(u)' = source'.generation
    BY DEF WakeInv
  <2>1. InRun BY <1>2 DEF InRun, Stopped
  <2>2. Owes(w) BY <1>1 DEF Owes
  <2>3. /\ \A u \in Threads \ {w} : ~Owes(u)
        /\ ~source.reschedule /\ Resting /\ node["source"].line = <<>>
    BY <1>1, <2>1, <2>2, NoWake
  <2>4. \A u \in Threads \ {w} : ~At(u, "generation") /\ ~At(u, "delay")
    BY <2>1, <2>3, NoWake DEF Owes
  <2>5. \A u \in Threads : Owes(u)' => u = w
    <3> SUFFICES ASSUME NEW u \in Threads \ {w}, Owes(u)' PROVE FALSE OBVIOUS
    <3>1. At(u, "wake") /\ Arg(u) = G + 1 BY <1>4, <1>11, <2>4 DEF Owes
    <3> QED BY <1>13, <1>15, <3>1
  <2>6. ~AnyReady' BY <1>2, <1>4, <1>13, <1>14, <1>15 DEF AnyReady, ReadyWake
  <2>7. ~DelayedWake' BY <1>2, <1>4, <1>13, <1>15 DEF DelayedWake
  <2>8. OneWake' BY <2>5, <2>6, <2>7 DEF OneWake, AnyReady
  <2>9. Resting' BY <1>4, <2>3 DEF Resting
  <2> QED BY <1>2, <1>4, <1>11, <1>12, <2>3, <2>4, <2>8, <2>9
<1> QED BY <1>11, <1>16, <1>17 DEF RestInv, RequestInv

\* The wake that is submitted is the one that was owed.
LEMMA RestDelay ==
    ASSUME IInv, IInv', RestInv, NEW w \in Workers, Delay(w)
    PROVE  RestInv'
<1> DEFINE G == source.generation
           g == Arg(w)
<1>1. At(w, "delay") /\ w \in Threads /\ Go(w, <<>>) /\ "delay" \notin AfterTask
  BY DEF Delay, Threads, AfterTask
<1>2. UNCHANGED <<state, shared, node>> BY DEF Delay
<1>3. InRun => /\ g = G
               /\ \A u \in Threads \ {w} : ~Owes(u)
               /\ ~AnyReady /\ ~DelayedWake /\ ~source.reschedule /\ Resting
               /\ node["source"].line = <<>>
  BY <1>1, NoWake DEF RestInv, WakeInv
<1>4. g \in Nat \ {0} /\ g <= G /\ G \in Nat
  <2>1. g \in Nat \ {0} BY <1>1, AtFirst, StepShape DEF IInv, Kind
  <2> QED BY <1>1, <2>1 DEF RestInv, GenerationInv, IInv, TypeOK
<1>5. CASE pool.stop
  <2>1. source' = [source EXCEPT !.waiting = FALSE] /\ pool' = pool BY <1>5 DEF Delay
  <2>2. source'.generation = G /\ source'.reschedule = source.reschedule
    BY <2>1 DEF IInv, TypeOK
  <2>3. {} \cap Barred = {} OBVIOUS
  <2> QED BY <1>1, <1>2, <1>3, <2>1, <2>2, <2>3, OnlyNil, SourceWrites
<1>6. CASE ~pool.stop
  <2>1. source' = source BY <1>6 DEF Delay
  <2>2. {} \cap TokenKinds = {} /\ {} \cap {"invalidate", "initialized", "running", "clear"} = {} OBVIOUS
  <2>3. /\ TokensFirst' /\ CancelInv' /\ StartInv' /\ ~Fresh'
        /\ \A u \in Threads \ {w} : \A l : At(u, l)' = At(u, l) /\ Arg(u)' = Arg(u)
        /\ \A l \in TokenKinds : ~At(w, l)'
    BY <1>1, <1>2, <2>2, OnlyNil, WorkerFrame
  <2>4. ~At(w, "generation")' /\ ~At(w, "delay")' /\ ~At(w, "wake")' BY <2>3 DEF TokenKinds
  <2>5. pool.ready \in Seq(Nat) /\ Len(pool.ready) \in Nat BY LenProperties DEF IInv, TypeOK
  <2>6. \/ /\ Len(pool'.ready) = Len(pool.ready) + 1 /\ pool'.ready[Len(pool.ready) + 1] = g
           /\ \A i \in 1 .. Len(pool.ready) : pool'.ready[i] = pool.ready[i]
           /\ pool'.delayed = pool.delayed
        \/ pool'.ready = pool.ready /\ pool'.delayed = pool.delayed \cup {g}
    <3>1. CASE pool' = Enqueued(g)
      <4>1. pool'.ready = Append(pool.ready, g) /\ pool'.delayed = pool.delayed
        BY <3>1 DEF Enqueued, IInv, TypeOK
      <4> QED BY <1>4, <2>5, <4>1, AppendProperties
    <3>2. CASE pool' = [pool EXCEPT !.delayed = @ \cup {g}] BY <3>2 DEF IInv, TypeOK
    <3> QED BY <1>6, <3>1, <3>2 DEF Delay
  <2>7. GenerationInv'
    <3>1. /\ \A u \in Threads : At(u, "delay") \/ At(u, "wake") => Arg(u) <= G
          /\ \A i \in 1 .. Len(pool.ready) : pool.ready[i] <= G
          /\ \A h \in pool.delayed : h <= G
      BY DEF RestInv, GenerationInv
    <3>2. \A u \in Threads : At(u, "delay")' \/ At(u, "wake")' => Arg(u)' <= G
      BY <2>3, <2>4, <3>1
    <3>3. \A i \in 1 .. Len(pool'.ready) : pool'.ready[i] <= G
      <4>1. \A i \in 1 .. Len(pool.ready) + 1 : i \in 1 .. Len(pool.ready) \/ i = Len(pool.ready) + 1
        BY <2>5
      <4> QED BY <1>4, <2>6, <3>1, <4>1
    <3>4. \A h \in pool'.delayed : h <= G BY <1>4, <2>6, <3>1
    <3> QED BY <2>1, <3>2, <3>3, <3>4 DEF GenerationInv
  <2>8. WakeInv'
    <3> SUFFICES ASSUME InRun'
                 PROVE  /\ OneWake'
                        /\ Awaited' => node'["source"].line = <<>> /\ ~source'.reschedule
                        /\ Awaited' \/ source'.reschedule => Resting'
                        /\ \A u \in Threads : At(u, "delay")' => Arg(u)' = source'.generation
      BY DEF WakeInv
    <3>1. InRun BY <1>2 DEF InRun, Stopped
    <3>2. \A u \in Threads : ~Owes(u)' BY <1>3, <2>1, <2>3, <2>4, <3>1 DEF Owes
    <3>3. \A u \in Threads : At(u, "delay") => Arg(u) = G BY <3>1 DEF RestInv, WakeInv
    <3>4. \/ /\ ~DelayedWake'
             /\ \A i \in 1 .. Len(pool'.ready) : ReadyWake(i)' => i = Len(pool.ready) + 1
          \/ \A i \in 1 .. Len(pool'.ready) : ~ReadyWake(i)'
      <4>1. \A i \in 1 .. Len(pool.ready) : ~ReadyWake(i) BY <1>3, <3>1 DEF AnyReady
      <4>2. CASE pool'.ready = pool.ready BY <2>1, <4>1, <4>2 DEF ReadyWake
      <4>3. CASE pool'.ready # pool.ready
        <5>1. /\ Len(pool'.ready) = Len(pool.ready) + 1
              /\ \A i \in 1 .. Len(pool.ready) : pool'.ready[i] = pool.ready[i]
              /\ pool'.delayed = pool.delayed
          BY <2>6, <4>3
        <5>2. \A i \in 1 .. Len(pool'.ready) : i \in 1 .. Len(pool.ready) \/ i = Len(pool.ready) + 1
          BY <2>5, <5>1
        <5>3. ~DelayedWake' BY <1>3, <2>1, <3>1, <5>1 DEF DelayedWake
        <5>4. \A i \in 1 .. Len(pool.ready) : ~ReadyWake(i)' BY <2>1, <4>1, <5>1 DEF ReadyWake
        <5> QED BY <5>2, <5>3, <5>4
      <4> QED BY <4>2, <4>3
    <3>5. OneWake' BY <3>2, <3>4 DEF OneWake, AnyReady
    <3> QED BY <1>2, <1>3, <2>1, <2>3, <2>4, <3>1, <3>3, <3>5 DEF Resting
  <2> QED BY <2>3, <2>7, <2>8 DEF RestInv, RequestInv
<1> QED BY <1>5, <1>6

---------------------------------------------------------------------------
(* The host.                                                                *)

PumpKinds == (NeutralKinds \ {"invalidate", "cancelled"}) \cup {"idle?"}

LEMMA PumpLists ==
    /\ Only(RequestWakeup, PumpKinds) /\ Only(Wait, PumpKinds) /\ Only(<<>>, PumpKinds)
    /\ Only(PumpStep \o <<<<"pumped">>>>, PumpKinds) /\ Only(PumpStep \o <<<<"done?">>>>, PumpKinds)
    /\ \A k \in PumpKinds : Only(<<<<k>>>>, PumpKinds)
    /\ PumpKinds \cap Barred = {}
<1>1. Only(RequestWakeup, PumpKinds) BY OnlyWakeup, OnlyMore DEF AfterTask, PumpKinds, NeutralKinds
<1>2. ASSUME NEW k \in PumpKinds PROVE Only(<<<<k>>>>, PumpKinds)
  <2>1. <<k>> \in Steps BY StepForms DEF PumpKinds, NeutralKinds, PlainKinds
  <2>2. <<k>>[1] \in PumpKinds OBVIOUS
  <2> QED BY <2>1, <2>2, OnlyOne
<1>3. {"wait", "pumped", "done?", "task", "ended"} \subseteq PumpKinds BY DEF PumpKinds, NeutralKinds
<1>4. Only(PumpStep, PumpKinds)
  <2>1. <<"task">> \in Steps /\ <<"ended">> \in Steps BY StepForms DEF PlainKinds
  <2>2. <<"task">>[1] \in PumpKinds /\ <<"ended">>[1] \in PumpKinds BY <1>3
  <2> QED BY <2>1, <2>2, OnlyTwo DEF PumpStep
<1>5. Only(PumpStep \o <<<<"pumped">>>>, PumpKinds) /\ Only(PumpStep \o <<<<"done?">>>>, PumpKinds)
  BY <1>2, <1>3, <1>4, OnlyConcat
<1>6. Only(Wait, PumpKinds) BY <1>2, <1>3 DEF Wait
<1>7. PumpKinds \cap Barred = {} BY DEF PumpKinds, NeutralKinds, Barred, TokenKinds
<1> QED BY <1>1, <1>2, <1>5, <1>6, <1>7, OnlyNil

\* Actions of the host that leave the source alone.
LEMMA RestLooks ==
    ASSUME IInv, IInv', RestInv,
           \/ Pump \/ Pumped \/ Rearm \/ WaitStep \/ WaitMore \/ WaitLook \/ Ended \/ WaitIdle
           \/ Forget \/ StopPool
    PROVE  RestInv'
<1>1. Host \in Threads BY DEF Threads
<1>2. /\ "pump" \in PumpKinds /\ "again?" \in PumpKinds /\ "idle?" \in PumpKinds
      /\ "more?" \in PumpKinds
  BY DEF PumpKinds, NeutralKinds
<1>3. PICK steps : \E k \in PumpKinds \cup {"stop"} :
                      At(Host, k) /\ Go(Host, steps) /\ Only(steps, PumpKinds)
  <2>1. CASE Pump BY <2>1, PumpLists DEF Pump, PumpKinds, NeutralKinds
  <2>2. CASE Pumped BY <1>2, <2>2, PumpLists DEF Pumped, PumpKinds, NeutralKinds
  <2>3. CASE Rearm BY <2>3, PumpLists DEF Rearm, PumpKinds, NeutralKinds
  <2>4. CASE WaitStep BY <2>4, PumpLists DEF WaitStep, PumpKinds, NeutralKinds
  <2>5. CASE WaitMore BY <2>5, PumpLists DEF WaitMore, PumpKinds, NeutralKinds
  <2>6. CASE WaitLook BY <1>2, <2>6, PumpLists DEF WaitLook, PumpKinds, NeutralKinds
  <2>7. CASE Ended BY <2>7, PumpLists DEF Ended, PumpKinds, NeutralKinds
  <2>8. CASE WaitIdle BY <1>2, <2>8, PumpLists DEF WaitIdle
  <2>9. CASE Forget BY <2>9, PumpLists DEF Forget, PumpKinds, NeutralKinds
  <2>10. CASE StopPool BY <2>10, PumpLists DEF StopPool
  <2> QED BY <2>1, <2>2, <2>3, <2>4, <2>5, <2>6, <2>7, <2>8, <2>9, <2>10
<1>4. Steady
  <2>1. CASE Pump \/ Pumped \/ Rearm \/ WaitStep \/ WaitMore \/ WaitLook
    BY <2>1, Unmoved DEF Pump, Pumped, Rearm, WaitStep, WaitMore, WaitLook
  <2>2. CASE Ended \/ WaitIdle
    <3>1. state' \in {state, "Terminated"} /\ UNCHANGED <<shared, node, source, pool>>
      BY <2>2 DEF Ended, WaitIdle
    <3>2. todo[Host] \notin StartTails
      <4>1. PICK k \in {"ended", "idle?"} : At(Host, k) BY <2>2 DEF Ended, WaitIdle
      <4>2. Len(todo[Host]) >= 1 /\ Kind(Host, 1) = k BY <1>1, <4>1, AtFirst DEF IInv
      <4>3. 1 \in 1 .. Len(todo[Host]) BY <1>1, <4>2, AtFirst DEF IInv
      <4> QED BY <4>2, <4>3, StartShape DEF Kind
    <3> QED BY <3>1, <3>2 DEF Steady, InRun, Stopped, Live
  <2>3. CASE Forget \/ StopPool
    <3>1. pool'.ready = pool.ready /\ pool'.delayed \subseteq pool.delayed
      BY <2>3 DEF Forget, StopPool, IInv, TypeOK
    <3> QED BY <2>3, <3>1 DEF Forget, StopPool, Steady, InRun, Stopped
  <2> QED BY <2>1, <2>2, <2>3
<1>5. \A k \in PumpKinds \cup {"stop"} : k \notin {"cancelled", "renew"}
  BY DEF PumpKinds, NeutralKinds
<1> QED BY <1>1, <1>3, <1>4, <1>5, PumpLists, SteadyGo

\* A step of the host that pushes no token.
LEMMA HostTokens ==
    ASSUME IInv, IInv', RestInv, NEW steps, NEW r, Advances(Host, steps, r) \/ Pushed(Host, steps, 0),
           \A i \in 1 .. Len(steps) : steps[i][1] \notin TokenKinds
    PROVE  /\ TokensFirst'
           /\ \A u \in Threads : \A k \in TokenKinds : At(u, k)' => At(u, k) /\ Arg(u)' = Arg(u)
<1>0. ListsOK /\ ListsOK' /\ TokensFirst /\ Host \in Threads BY DEF IInv, RestInv, Threads
<1>1. CASE Advances(Host, steps, r)
  <2>1. \A i \in 1 .. Len(steps) : steps[i][1] \in TokenKinds => i = 1 OBVIOUS
  <2>2. /\ TokensFirst'
        /\ \A u \in Threads \ {Host} : \A k : At(u, k)' = At(u, k) /\ Arg(u)' = Arg(u)
        /\ \A k \in TokenKinds : At(Host, k)' => Len(steps) >= 1 /\ steps[1][1] = k
    BY <1>0, <1>1, <2>1, TokensStep
  <2>3. Len(steps) \in Nat BY <1>0, <1>1, Deeper
  <2>4. Len(steps) >= 1 => 1 \in 1 .. Len(steps) BY <2>3
  <2> QED BY <2>2, <2>4
<1>2. CASE Pushed(Host, steps, 0)
  <2>1. \A u \in Threads \ {Host} : todo'[u] = todo[u] BY <1>2 DEF Pushed
  <2>2. steps \in Seq(Steps) BY <1>2 DEF Pushed
  <2>3. Len(steps) \in Nat BY <2>2, Firsts
  <2>4. Len(todo'[Host]) = Len(steps) BY <1>2, <2>3 DEF Pushed
  <2>5. \A i \in 1 .. Len(todo'[Host]) : todo'[Host][i] = steps[i] BY <1>2, <2>3, <2>4 DEF Pushed
  <2>6. \A i \in 1 .. Len(todo'[Host]) : todo'[Host][i][1] \notin TokenKinds BY <2>4, <2>5
  <2>7. TokensFirst' BY <1>0, <2>1, <2>6 DEF TokensFirst, Kind
  <2>8. \A u \in Threads \ {Host} : \A k : At(u, k)' = At(u, k) /\ Arg(u)' = Arg(u)
    BY <2>1 DEF At, Idle, Arg
  <2>9. \A k \in TokenKinds : ~At(Host, k)'
    <3>1. Len(todo'[Host]) >= 1 => 1 \in 1 .. Len(todo'[Host]) BY <2>3, <2>4
    <3> QED BY <1>0, <2>6, <3>1, AtFirstNext
  <2> QED BY <2>7, <2>8, <2>9
<1> QED BY <1>1, <1>2

LEMMA RestCalls ==
    ASSUME IInv, IInv', RestInv, EventLoop \/ SetCallback \/ WaitDone \/ Start \/ Resume
    PROVE  RestInv'
<1>1. Host \in Threads BY DEF Threads
<1>2. Steady BY Unmoved DEF EventLoop, SetCallback, WaitDone, Start, Resume
<1>3. CASE EventLoop \/ SetCallback \/ WaitDone
  <2>1. "pump" \in PumpKinds BY DEF PumpKinds, NeutralKinds
  <2>2. PICK steps : Idle(Host) /\ Call(Host, steps) /\ Only(steps, PumpKinds)
    BY <1>3, <2>1, PumpLists DEF EventLoop, SetCallback, WaitDone
  <2> QED BY <1>1, <1>2, <2>2, PumpLists, SteadyCall
<1>4. {"try"} \cap Barred = {} BY DEF Barred, TokenKinds
<1>5. CASE Start
  <2> DEFINE steps == <<<<"open", "source">>, <<"open", "sink">>, <<"running">>, <<"try", "source">>>>
  <2>1. /\ <<"open", "source">> \in Steps /\ <<"open", "sink">> \in Steps /\ <<"running">> \in Steps
        /\ <<"try", "source">> \in Steps
    BY StepForms DEF NodeKinds, PlainKinds, Nodes
  <2>2. steps \in Seq(Steps) BY <2>1, Lists
  <2>3. steps \in StartTails BY DEF StartTails
  <2>4. Idle(Host) /\ Call(Host, steps) BY <1>5 DEF Start
  <2> HIDE DEF steps
  <2>5. \A i \in 1 .. Len(steps) :
           /\ steps[i][1] \notin TokenKinds /\ steps[i][1] # "invalidate"
           /\ steps[i][1] # "initialized"
    BY <2>3, StartShape DEF TokenKinds
  <2>6. Advances(Host, steps, 0) /\ ~(Len(todo[Host]) >= 1)
    BY <1>1, <2>2, <2>4, CallAdvances DEF IInv
  <2>7. /\ TokensFirst'
        /\ \A u \in Threads : \A k \in TokenKinds : At(u, k)' => At(u, k) /\ Arg(u)' = Arg(u)
    BY <2>5, <2>6, HostTokens
  <2>8. TypeOK /\ ListsOK /\ CancelInv BY DEF IInv, RestInv
  <2>9. CancelInv' BY <1>1, <1>2, <2>5, <2>6, <2>8, CancelStep DEF Steady
  <2>10. state = "Initialized" /\ state' = "Initialized" BY <1>5 DEF Start
  <2>12. todo'[Host] = steps BY <1>1, <2>2, <2>4, CallPushes DEF IInv
  <2>11. StartInv' /\ (Fresh' => Fresh)
    BY <2>3, <2>10, <2>12, StartShape DEF StartInv, Fresh, Kind
  <2> QED BY <1>2, <2>7, <2>8, <2>9, <2>11, SteadyState
<1>6. CASE Resume
  <2>1. Only(<<<<"try", "source">>, <<"try", "sink">>>>, {"try"})
    BY OnlyTwo, StepForms DEF NodeKinds, Nodes
  <2> QED BY <1>1, <1>2, <1>4, <1>6, <2>1, SteadyCall DEF Resume
<1> QED BY <1>3, <1>5, <1>6

\* ... or that run and close the sink.
LEMMA RestTask ==
    ASSUME IInv, IInv', RestInv, Task \/ SinkReturn \/ Retire \/ Join \/ Drop
    PROVE  RestInv'
<1> DEFINE K == {"run", "retire", "close?", "land"}
<1>1. Host \in Threads BY DEF Threads
<1>2. K \cap Barred = {} BY DEF Barred, TokenKinds
<1>3. PICK steps : \E k \in {"task", "process", "retire", "join", "drop"} :
                      At(Host, k) /\ Go(Host, steps) /\ Only(steps, K)
  <2>1. CASE Task
    <3>1. Only(<<<<"run", "sink">>, <<"retire">>>>, K)
      <4>1. <<"run", "sink">> \in Steps /\ <<"retire">> \in Steps
        BY StepForms DEF NodeKinds, PlainKinds, Nodes
      <4> QED BY <4>1, OnlyTwo
    <3>2. ASSUME NEW n \in Nodes PROVE Only(MaybeClose(n), K)
      BY OnlyOne, StepForms DEF NodeKinds, MaybeClose
    <3>3. Only(MaybeClose("source") \o MaybeClose("sink"), K) BY <3>2, OnlyConcat DEF Nodes
    <3> HIDE DEF K
    <3> QED BY <2>1, <3>1, <3>3 DEF Task
  <2>2. CASE SinkReturn
    <3>1. At(Host, "process") /\ Arg(Host) \in Nodes
      BY <1>1, <2>2, ArgNode DEF SinkReturn, NodeKinds
    <3>2. Only(<<<<"land", Arg(Host), "landed">>>>, K) BY <3>1, OnlyOne, StepForms
    <3> HIDE DEF K
    <3> QED BY <2>2, <3>2 DEF SinkReturn
  <2>3. CASE Retire \/ Join \/ Drop
    <3> HIDE DEF K
    <3> QED BY <2>3, OnlyNil DEF Retire, Join, Drop
  <2> QED BY <2>1, <2>2, <2>3
<1>4. Steady
  <2>1. CASE Task \/ SinkReturn \/ Retire \/ Join
    BY <2>1, Unmoved DEF Task, SinkReturn, Retire, Join
  <2>2. CASE Drop
    <3>1. node'["source"].line = node["source"].line
      BY <2>2, DroppedChange DEF Drop, IInv, Nodes
    <3> QED BY <2>2, <3>1, Unmoved DEF Drop
  <2> QED BY <2>1, <2>2
<1> HIDE DEF K
<1> QED BY <1>1, <1>2, <1>3, <1>4, SteadyGo

\* A graph that does not run, or was stopped, needs no wake.
LEMMA StoppedRest ==
    ASSUME IInv, IInv', RestInv, TokensFirst', CancelInv', StartInv', ~InRun', RequestInv',
           \A u \in Threads : \A k \in TokenKinds : At(u, k)' => At(u, k) /\ Arg(u)' = Arg(u),
           pool'.ready = pool.ready, pool'.delayed \subseteq pool.delayed,
           source'.generation \in {source.generation, source.generation + 1}
    PROVE  RestInv'
<1> DEFINE G == source.generation
           H == source'.generation
<1>1. /\ G \in Nat /\ H \in Nat /\ G <= H /\ pool.ready \in Seq(Nat) /\ pool.delayed \subseteq Nat
  BY DEF IInv, TypeOK
<1>2. \A i \in 1 .. Len(pool.ready) : pool.ready[i] \in Nat BY <1>1
<1>3. ListsOK BY DEF IInv
<1>4. \A u \in Threads : At(u, "delay") \/ At(u, "wake") => Arg(u) \in Nat /\ Arg(u) <= G
  BY <1>3, AtFirst, StepShape DEF Kind, RestInv, GenerationInv
<1>5. \A g \in Nat : g <= G => g <= H BY <1>1
<1> HIDE DEF G, H
<1>6. \A i \in 1 .. Len(pool.ready) : pool.ready[i] <= G BY DEF RestInv, GenerationInv, G
<1>7. \A g \in pool.delayed : g <= G BY DEF RestInv, GenerationInv, G
<1>8. \A u \in Threads : At(u, "delay")' \/ At(u, "wake")' => Arg(u)' <= H
  BY <1>4, <1>5 DEF TokenKinds
<1>9. \A i \in 1 .. Len(pool'.ready) : pool'.ready[i] <= H BY <1>2, <1>5, <1>6
<1>10. \A g \in pool'.delayed : g <= H BY <1>1, <1>5, <1>7
<1>11. GenerationInv' BY <1>8, <1>9, <1>10 DEF GenerationInv, H
<1> QED BY <1>11 DEF RestInv, WakeInv

\* A start that failed.
LEMMA RestOpen ==
    ASSUME IInv, IInv', RestInv, Open
    PROVE  RestInv'
<1>0. Host \in Threads BY DEF Threads
<1>1. At(Host, "open") BY DEF Open
<1>2. PICK fails \in BOOLEAN :
         /\ shared' = [shared EXCEPT !.error = @ \/ fails]
         /\ node' = [node EXCEPT ![Arg(Host)].opened = @ \/ ~fails]
         /\ IF fails THEN Call(Host, <<>>) ELSE Go(Host, <<>>)
  BY DEF Open
<1>3. Arg(Host) \in Nodes /\ state = "Initialized" BY <1>1, OpenWhere
<1>4. node'["source"].line = node["source"].line BY <1>2, <1>3, OpenedChange DEF IInv, Nodes
<1>5. /\ shared'.cancelled = shared.cancelled
      /\ shared.error => shared'.error
  BY <1>2 DEF IInv, TypeOK
<1>6. Steady BY <1>4, <1>5 DEF Open, Steady, InRun, Stopped
<1>7. CASE Go(Host, <<>>)
  <2>1. {} \cap Barred = {} OBVIOUS
  <2> QED BY <1>0, <1>1, <1>6, <1>7, <2>1, OnlyNil, SteadyGo
<1>8. CASE Call(Host, <<>>)
  <2>1. Pushed(Host, <<>>, 0) /\ todo'[Host] = <<>> BY <1>0, <1>8, NoSteps, CallPushes DEF IInv
  <2>2. /\ TokensFirst'
        /\ \A u \in Threads : \A k \in TokenKinds : At(u, k)' => At(u, k) /\ Arg(u)' = Arg(u)
    BY <2>1, NoSteps, HostTokens
  <2>3. CancelInv' BY <2>1, NoSteps DEF CancelInv
  <2>4. Fresh' => Fresh BY <1>3 DEF Fresh
  <2>5. TypeOK BY DEF IInv
  <2>6. StartInv' BY <2>1, NoSteps DEF StartInv
  <2> QED BY <1>6, <2>2, <2>3, <2>4, <2>5, <2>6, SteadyState
<1> QED BY <1>2, <1>7, <1>8

\* A graph that starts has no wake.
LEMMA RestRunning ==
    ASSUME IInv, IInv', RestInv, Running
    PROVE  RestInv'
<1>0. Host \in Threads /\ Workers \subseteq Threads /\ Threads = Workers \cup {Host} BY DEF Threads
<1>1. TypeOK /\ ListsOK /\ TokensFirst /\ CancelInv BY DEF IInv, RestInv
<1>2. /\ todo'[Host] = Tail(todo[Host]) /\ Len(todo[Host]) >= 1 /\ Kind(Host, 1) = "running"
      /\ Advances(Host, <<>>, Len(todo[Host]) - 1) /\ \A w \in Workers : todo'[w] = todo[w]
  BY <1>1, HostTail DEF Running

<1>3. state = "Initialized" /\ todo[Host] \in StartTails
  <2>1. 1 \in 1 .. Len(todo[Host]) BY <1>0, <1>1, <1>2, AtFirst
  <2> QED BY <1>2, <2>1, StartList DEF RestInv
<1>4. \A i \in 1 .. Len(<<>>) : FALSE BY NoSteps
<1>5. /\ TokensFirst'
      /\ \A u \in Threads : \A k \in TokenKinds : At(u, k)' => At(u, k) /\ Arg(u)' = Arg(u)
  BY <1>2, <1>4, HostTokens
<1>6. \A u \in Threads : \A k \in TokenKinds : ~At(u, k)'
  <2>1. \A w \in Workers : \A k \in TokenKinds : ~At(w, k)
    BY <1>3, WorkerAwake DEF TokenKinds, AfterTask, Asleep
  <2>2. \A k \in TokenKinds : ~At(Host, k) BY <1>0, <1>1, <1>2, AtFirst DEF TokenKinds
  <2> QED BY <1>0, <1>5, <2>1, <2>2
<1>7. CancelInv'
  <2>1. shared.cancelled => shared'.cancelled BY DEF Running
  <2> QED BY <1>0, <1>1, <1>2, <1>4, <2>1, CancelStep
<1>8. UNCHANGED <<shared, source, node>> /\ pool'.ready = <<>> /\ pool'.delayed = {} /\ state' = "Running"
  <2>1. pool.ready = <<>> /\ pool.delayed = {} BY <1>3 DEF IInv, PhaseInv, SleepInv, Asleep
  <2> QED BY <1>1, <2>1 DEF Running, TypeOK
<1>9. StartInv'
  <2> SUFFICES ASSUME NEW i \in 1 .. Len(todo'[Host]), todo'[Host][i][1] \in {"running", "clear"}
               PROVE  FALSE
    BY DEF StartInv, Kind
  <2>1. \E j \in 2 .. Len(todo[Host]) : todo'[Host][i] = todo[Host][j]
    BY <1>0, <1>1, <1>2, <1>4, Origins
  <2> QED BY <1>2, <1>3, <2>1, StartShape DEF Kind
<1>10. ~At(Host, "initialized")'
  <2>1. Len(todo'[Host]) >= 1 => todo'[Host][1][1] # "initialized"
    <3> SUFFICES ASSUME Len(todo'[Host]) >= 1, todo'[Host][1][1] = "initialized" PROVE FALSE
      OBVIOUS
    <3>1. 1 \in 1 .. Len(todo'[Host]) BY <1>0, <1>1, <1>2, Deeper
    <3>2. \E j \in 2 .. Len(todo[Host]) : todo'[Host][1] = todo[Host][j]
      BY <1>0, <1>1, <1>2, <1>4, <3>1, Origins
    <3> QED BY <1>2, <1>3, <3>2, StartShape DEF Kind
  <2> QED BY <1>0, <2>1, AtFirstNext DEF IInv
<1>11. RequestInv' /\ ~Fresh' BY <1>8, <1>10 DEF RequestInv, Fresh
<1>12. \A u \in Threads : ~At(u, "generation")' /\ ~At(u, "delay")' /\ ~At(u, "wake")'
  BY <1>6 DEF TokenKinds
<1>13. \A i \in 1 .. Len(pool'.ready) : FALSE BY <1>8, NoSteps
<1>14. GenerationInv' BY <1>8, <1>12, <1>13 DEF GenerationInv
<1>15. WakeInv'
  <2>1. /\ \A u \in Threads : ~Owes(u)'
        /\ ~AnyReady' /\ ~DelayedWake'
    BY <1>8, <1>12, <1>13 DEF Owes, AnyReady, DelayedWake
  <2>2. OneWake' /\ ~Awaited' BY <1>13, <2>1 DEF OneWake, Awaited
  <2>3. ~source'.reschedule BY <1>3, <1>8 DEF RestInv, RequestInv, Fresh
  <2> QED BY <1>12, <2>2, <2>3 DEF WakeInv
<1> QED BY <1>5, <1>7, <1>9, <1>11, <1>14, <1>15 DEF RestInv

---------------------------------------------------------------------------
(* Reset.                                                                   *)

\* A host that resets a graph neither starts nor cancels it.
LEMMA ResetLists ==
    ASSUME ListsOK', todo'[Host] \in ResetTails
    PROVE  CancelInv' /\ StartInv' /\ Len(todo'[Host]) >= 1
<1>1. \A i \in 1 .. Len(todo'[Host]) : todo'[Host][i][1] \in {"clear", "renew", "initialized"}
  BY ResetShape
<1>2. Len(todo'[Host]) \in {1, 2, 3} BY ResetShape
<1> QED BY <1>1, <1>2 DEF CancelInv, StartInv, Kind

LEMMA RestReset ==
    ASSUME IInv, IInv', RestInv, Reset
    PROVE  RestInv'
<1> DEFINE steps == <<<<"clear">>, <<"renew">>, <<"initialized">>>>
<1>0. Host \in Threads /\ ListsOK /\ ListsOK' BY DEF Threads, IInv
<1>1. steps \in ResetTails BY DEF ResetTails
<1>2. steps \in Seq(Steps)
  <2>1. <<"clear">> \in Steps /\ <<"renew">> \in Steps /\ <<"initialized">> \in Steps
    BY StepForms DEF PlainKinds
  <2> QED BY <2>1, Lists
<1>3. Idle(Host) /\ Call(Host, steps) BY DEF Reset
<1>4. steps[1][1] = "clear" OBVIOUS
<1> HIDE DEF steps
<1>5. \A i \in 1 .. Len(steps) : steps[i][1] \notin TokenKinds BY <1>1, ResetShape DEF TokenKinds
<1>6. Advances(Host, steps, 0) BY <1>0, <1>2, <1>3, CallAdvances
<1>7. todo'[Host] = steps BY <1>0, <1>2, <1>3, CallPushes
<1>8. /\ TokensFirst'
      /\ \A u \in Threads : \A k \in TokenKinds : At(u, k)' => At(u, k) /\ Arg(u)' = Arg(u)
  BY <1>5, <1>6, HostTokens
<1>9. CancelInv' /\ StartInv' BY <1>0, <1>1, <1>7, ResetLists
<1>10. state = "Terminated" /\ UNCHANGED <<state, shared, node, source, pool>>
  BY DEF Reset, Quiescent
<1>11. Steady BY <1>10, Unmoved
<1>12. ~Fresh'
  <2>1. ~At(Host, "initialized")' BY <1>0, <1>4, <1>7, AtFirstNext
  <2> QED BY <1>10, <2>1 DEF Fresh
<1>13. TypeOK BY DEF IInv
<1> QED BY <1>8, <1>9, <1>11, <1>12, <1>13, SteadyState

\* A step of a reset that goes on with the rest of it.
LEMMA ResetGoes ==
    ASSUME IInv, IInv', RestInv, NEW k \in {"clear", "renew", "initialized"}, At(Host, k), Go(Host, <<>>)
    PROVE  /\ TokensFirst' /\ CancelInv' /\ StartInv' /\ ListsOK' /\ state = "Terminated"
           /\ \A u \in Threads : \A l \in TokenKinds : At(u, l)' => At(u, l) /\ Arg(u)' = Arg(u)
           /\ k = "clear" => ~At(Host, "initialized")'
<1>0. Host \in Threads /\ ListsOK /\ ListsOK' BY DEF Threads, IInv
<1>1. /\ todo'[Host] = Tail(todo[Host]) /\ Len(todo[Host]) >= 1 /\ Kind(Host, 1) = k
      /\ Advances(Host, <<>>, Len(todo[Host]) - 1)
  BY <1>0, HostTail
<1>2. \A i \in 1 .. Len(<<>>) : FALSE BY NoSteps
<1>3. /\ TokensFirst'
      /\ \A u \in Threads : \A l \in TokenKinds : At(u, l)' => At(u, l) /\ Arg(u)' = Arg(u)
  BY <1>1, <1>2, HostTokens
<1>4. 1 \in 1 .. Len(todo[Host]) BY <1>0, <1>1, AtFirst
<1>5. state = "Terminated" /\ todo[Host] \in ResetTails
  <2>1. CASE k = "clear"
    <3>1. todo[Host] \in ResetTails BY <1>1, <1>4, <2>1 DEF RestInv, StartInv
    <3>2. todo[Host] = <<<<"clear">>, <<"renew">>, <<"initialized">>>>
      BY <1>1, <2>1, <3>1, ResetShape DEF ResetTails, Kind
    <3>3. Len(todo[Host]) = 3 /\ todo[Host][2] = <<"renew">> BY <3>2
    <3>4. Kind(Host, 2) = "renew" /\ 2 \in 2 .. Len(todo[Host]) BY <3>3 DEF Kind
    <3>5. Has(Host, "renew") BY <1>0, <3>4, HasNow
    <3> QED BY <3>1, <3>5 DEF IInv, PhaseInv, ResetInv
  <2>2. CASE k # "clear"
    <3>1. k \in {"renew", "initialized"} BY <2>2
    <3>2. Has(Host, k) BY <1>0, HasNow
    <3> QED BY <3>1, <3>2 DEF IInv, PhaseInv, ResetInv
  <2> QED BY <2>1, <2>2
<1>6. CASE k = "clear"
  <2>1. todo'[Host] = <<<<"renew">>, <<"initialized">>>> BY <1>1, <1>5, <1>6, ResetShape DEF Kind
  <2>2. todo'[Host] \in ResetTails BY <2>1 DEF ResetTails
  <2>3. todo'[Host][1][1] = "renew" BY <2>1
  <2> QED BY <1>0, <1>3, <1>5, <2>2, <2>3, ResetLists, AtFirstNext
<1>7. CASE k = "renew"
  <2>1. todo[Host] = <<<<"renew">>, <<"initialized">>>> BY <1>1, <1>5, <1>7, ResetShape DEF Kind
  <2>2. todo'[Host] = <<<<"initialized">>>> BY <1>1, <2>1
  <2>3. todo'[Host] \in ResetTails BY <2>2 DEF ResetTails
  <2> QED BY <1>0, <1>3, <1>5, <1>7, <2>3, ResetLists
<1>8. CASE k = "initialized"
  <2>1. todo[Host] = <<<<"initialized">>>> BY <1>1, <1>5, <1>8, ResetShape DEF Kind
  <2>2. todo'[Host] = <<>> BY <1>1, <2>1
  <2>3. CancelInv' /\ StartInv' BY <2>2, NoSteps DEF CancelInv, StartInv
  <2> QED BY <1>0, <1>3, <1>5, <1>8, <2>3
<1> QED BY <1>6, <1>7, <1>8

LEMMA RestClear ==
    ASSUME IInv, IInv', RestInv, ClearShared
    PROVE  RestInv'
<1>1. At(Host, "clear") /\ Go(Host, <<>>) /\ UNCHANGED <<state, source, pool, node>>
  BY DEF ClearShared
<1>2. /\ TokensFirst' /\ CancelInv' /\ StartInv' /\ state = "Terminated"
      /\ \A u \in Threads : \A l \in TokenKinds : At(u, l)' => At(u, l) /\ Arg(u)' = Arg(u)
      /\ ~At(Host, "initialized")'
  BY <1>1, ResetGoes
<1>3. ~InRun' /\ ~Fresh' BY <1>1, <1>2 DEF InRun, Fresh, Live
<1>4. RequestInv' BY <1>3 DEF RequestInv
<1> QED BY <1>1, <1>2, <1>3, <1>4, StoppedRest

LEMMA RestRenew ==
    ASSUME IInv, IInv', RestInv, Renew
    PROVE  RestInv'
<1>1. At(Host, "renew") /\ Go(Host, <<>>) /\ UNCHANGED <<state, shared>> BY DEF Renew
<1>2. /\ TokensFirst' /\ CancelInv' /\ StartInv' /\ state = "Terminated"
      /\ \A u \in Threads : \A l \in TokenKinds : At(u, l)' => At(u, l) /\ Arg(u)' = Arg(u)
  BY <1>1, ResetGoes
<1>3. ~InRun' BY <1>1, <1>2 DEF InRun, Live
<1>4. ~source'.reschedule /\ source'.generation = source.generation + 1 BY DEF Renew
<1>5. pool'.ready = pool.ready /\ pool'.delayed \subseteq pool.delayed BY DEF Renew, IInv, TypeOK
<1>6. RequestInv' BY <1>4 DEF RequestInv
<1> QED BY <1>2, <1>3, <1>4, <1>5, <1>6, StoppedRest

LEMMA RestInitialized ==
    ASSUME IInv, IInv', RestInv, Initialized
    PROVE  RestInv'
<1>1. /\ At(Host, "initialized") /\ Go(Host, <<>>) /\ UNCHANGED <<shared, source, pool, node>>
      /\ state' = "Initialized"
  BY DEF Initialized
<1>2. /\ TokensFirst' /\ CancelInv' /\ StartInv'
      /\ \A u \in Threads : \A l \in TokenKinds : At(u, l)' => At(u, l) /\ Arg(u)' = Arg(u)
  BY <1>1, ResetGoes
<1>3. ~InRun' BY <1>1 DEF InRun, Live
<1>4. RequestInv' BY <1>1 DEF RestInv, RequestInv, Fresh
<1> QED BY <1>1, <1>2, <1>3, <1>4, StoppedRest

---------------------------------------------------------------------------
(* Cancel and the end of the graph.                                         *)

CancelList(s) ==
    /\ s \in Seq(Steps)
    /\ \A i \in 1 .. Len(s) :
          /\ s[i][1] \notin TokenKinds \cup {"initialized", "running", "clear"}
          /\ s[i][1] = "invalidate" => i = 2 /\ s[1][1] = "cancelled"

LEMMA CancelConcat ==
    ASSUME NEW s, NEW u, NEW K, CancelList(s), Only(u, K), K \cap Barred = {}
    PROVE  CancelList(s \o u)
<1>1. s \in Seq(Steps) /\ u \in Seq(Steps) BY DEF CancelList, Only
<1>2. /\ s \o u \in Seq(Steps)
      /\ \A i \in 1 .. Len(s) : (s \o u)[i] = s[i]
      /\ \A i \in 1 .. Len(s \o u) :
            \/ \E j \in 1 .. Len(s) : i = j /\ (s \o u)[i] = s[j]
            \/ \E j \in 1 .. Len(u) : (s \o u)[i] = u[j]
  BY <1>1, Concats
<1>3. Len(s) \in Nat BY <1>1, Firsts
<1>4. \A j \in 1 .. Len(u) :
         u[j][1] \notin TokenKinds \cup {"initialized", "running", "clear"} /\ u[j][1] # "invalidate"
  BY DEF Only, Barred
<1>5. ASSUME NEW i \in 1 .. Len(s \o u)
      PROVE  /\ (s \o u)[i][1] \notin TokenKinds \cup {"initialized", "running", "clear"}
             /\ (s \o u)[i][1] = "invalidate" => i = 2 /\ (s \o u)[1][1] = "cancelled"
  <2>1. CASE \E j \in 1 .. Len(s) : i = j /\ (s \o u)[i] = s[j]
    <3>1. i \in 1 .. Len(s) /\ (s \o u)[i] = s[i] BY <2>1
    <3>2. 1 \in 1 .. Len(s) BY <1>3, <3>1
    <3> QED BY <1>2, <3>1, <3>2 DEF CancelList
  <2>2. CASE \E j \in 1 .. Len(u) : (s \o u)[i] = u[j] BY <1>4, <2>2
  <2> QED BY <1>2, <2>1, <2>2
<1> QED BY <1>2, <1>5 DEF CancelList

LEMMA CancelLists ==
    /\ CancelList(<<>>) /\ CancelList(CancelSteps) /\ CancelList(CancelSteps \o Wait)
<1>1. CancelList(<<>>) BY NoSteps DEF CancelList
<1>2. PICK s : s = <<<<"cancelled">>, <<"invalidate">>, <<"forget">>>> OBVIOUS
<1>3. s \in Seq(Steps)
  <2>1. <<"cancelled">> \in Steps /\ <<"invalidate">> \in Steps /\ <<"forget">> \in Steps
    BY StepForms DEF PlainKinds
  <2> QED BY <1>2, <2>1, Lists
<1>4. /\ Len(s) = 3 /\ s[1][1] = "cancelled" /\ s[2][1] = "invalidate" /\ s[3][1] = "forget"
      /\ \A i \in 1 .. 3 : i = 1 \/ i = 2 \/ i = 3
  BY <1>2
<1>5. CancelList(s) BY <1>3, <1>4 DEF CancelList, TokenKinds
<1>6. CancelList(CancelSteps) BY <1>2, <1>5, CancelConcat, PumpLists DEF CancelSteps
<1>7. CancelList(CancelSteps \o Wait) BY <1>6, CancelConcat, PumpLists
<1> QED BY <1>1, <1>6, <1>7

LEMMA CancelCall ==
    ASSUME IInv, IInv', RestInv, Steady, Idle(Host), NEW s, CancelList(s), Call(Host, s)
    PROVE  RestInv'
<1>1. Host \in Threads /\ ListsOK /\ TypeOK /\ s \in Seq(Steps) BY DEF Threads, IInv, CancelList
<1>2. Advances(Host, s, 0) /\ ~(Len(todo[Host]) >= 1) /\ todo'[Host] = s
  BY <1>1, CallAdvances, CallPushes
<1>3. \A i \in 1 .. Len(s) : s[i][1] \notin TokenKinds /\ s[i][1] # "initialized"
                             /\ s[i][1] \notin {"running", "clear"}
  BY DEF CancelList
<1>4. /\ TokensFirst'
      /\ \A u \in Threads : \A k \in TokenKinds : At(u, k)' => At(u, k) /\ Arg(u)' = Arg(u)
  BY <1>2, <1>3, HostTokens
<1>5. StartInv' BY <1>1, <1>2, <1>3, StartLine DEF Steady, RestInv
<1>6. Fresh' => Fresh BY <1>1, <1>2, <1>3, FreshStep DEF Steady
<1>7. CancelInv' BY <1>2 DEF CancelInv, CancelList, Kind
<1> QED BY <1>1, <1>4, <1>5, <1>6, <1>7, SteadyState

LEMMA RestCancel ==
    ASSUME IInv, IInv', RestInv, Cancel \/ Free
    PROVE  RestInv'
<1>1. Steady BY Unmoved DEF Cancel, Free
<1>2. CASE Cancel BY <1>1, <1>2, CancelLists, CancelCall DEF Cancel
<1>3. CASE Free
  <2> DEFINE e == <<<<"stop">>, <<"join">>, <<"drop">>, <<"freed">>>>
             K == {"stop", "join", "drop", "freed"}
  <2>1. PICK s : CancelList(s) /\ Call(Host, s \o e) BY <1>3, CancelLists DEF Free
  <2>2. Only(e, K)
    <3>1. /\ <<"stop">> \in Steps /\ <<"join">> \in Steps /\ <<"drop">> \in Steps
          /\ <<"freed">> \in Steps
      BY StepForms DEF PlainKinds
    <3>2. e \in Seq(Steps) BY <3>1, Lists
    <3>3. \A i \in 1 .. Len(e) : e[i] \in {<<"stop">>, <<"join">>, <<"drop">>, <<"freed">>} OBVIOUS
    <3> QED BY <3>2, <3>3 DEF Only
  <2>3. K \cap Barred = {} BY DEF Barred, TokenKinds
  <2>4. Idle(Host) BY <1>3 DEF Free
  <2> HIDE DEF e, K
  <2> QED BY <1>1, <2>1, <2>2, <2>3, <2>4, CancelConcat, CancelCall
<1> QED BY <1>2, <1>3

\* From here on no wake is needed.
LEMMA RestSetCancelled ==
    ASSUME IInv, IInv', RestInv, SetCancelled
    PROVE  RestInv'
<1>0. Host \in Threads /\ ListsOK /\ ListsOK' BY DEF Threads, IInv
<1>1. At(Host, "cancelled") /\ Go(Host, <<>>) /\ UNCHANGED <<state, source, pool, node>>
  BY DEF SetCancelled
<1>2. /\ Len(todo[Host]) >= 1 /\ Kind(Host, 1) = "cancelled"
      /\ Advances(Host, <<>>, Len(todo[Host]) - 1)
  BY <1>0, <1>1, HostTail
<1>3. \A i \in 1 .. Len(<<>>) : FALSE BY NoSteps
<1>4. /\ TokensFirst'
      /\ \A u \in Threads : \A k \in TokenKinds : At(u, k)' => At(u, k) /\ Arg(u)' = Arg(u)
  BY <1>2, <1>3, HostTokens
<1>5. StartInv' BY <1>0, <1>1, <1>2, <1>3, StartLine DEF RestInv
<1>6. shared'.cancelled /\ (Stopped => Stopped') BY DEF SetCancelled, IInv, TypeOK, Stopped
<1>7. Fresh' => Fresh BY <1>0, <1>1, <1>2, <1>3, FreshStep
<1>8. CancelInv'
  <2> SUFFICES ASSUME NEW i \in 1 .. Len(todo'[Host]), todo'[Host][i][1] = "invalidate"
               PROVE  i = 1
    BY <1>6 DEF CancelInv, Kind
  <2>1. /\ ~(i <= 0) /\ i - 0 + 1 \in 2 .. Len(todo[Host]) /\ todo'[Host][i] = todo[Host][i - 0 + 1]
    <3>1. Len(<<>>) = 0 BY NoSteps
    <3>2. \/ i <= Len(<<>>) /\ todo'[Host][i] = <<>>[i]
          \/ /\ i > Len(<<>>) /\ Len(todo[Host]) >= 1
             /\ i - Len(<<>>) + 1 \in 2 .. Len(todo[Host])
             /\ todo'[Host][i] = todo[Host][i - Len(<<>>) + 1]
      BY <1>0, <1>2, Deeper
    <3> QED BY <3>1, <3>2
  <2>2. i + 1 \in 1 .. Len(todo[Host]) /\ Kind(Host, i + 1) = "invalidate" /\ i + 1 # 1
    BY <2>1 DEF Kind
  <2>3. i + 1 = 2 BY <2>2 DEF RestInv, CancelInv
  <2> QED BY <2>3
<1>9. RequestInv' BY <1>1, <1>7 DEF RestInv, RequestInv
<1>10. ~InRun' BY <1>6 DEF InRun, Stopped
<1>11. pool'.ready = pool.ready /\ pool'.delayed \subseteq pool.delayed BY <1>1
<1> QED BY <1>1, <1>4, <1>5, <1>8, <1>9, <1>10, <1>11, StoppedRest

LEMMA RestInvalidate ==
    ASSUME IInv, IInv', RestInv, Invalidate
    PROVE  RestInv'
<1>0. Host \in Threads /\ ListsOK /\ ListsOK' BY DEF Threads, IInv
<1>1. At(Host, "invalidate") /\ Go(Host, <<>>) /\ UNCHANGED <<state, shared, pool, node>>
  BY DEF Invalidate
<1>2. /\ Len(todo[Host]) >= 1 /\ Kind(Host, 1) = "invalidate"
      /\ Advances(Host, <<>>, Len(todo[Host]) - 1)
  BY <1>0, <1>1, HostTail
<1>3. \A i \in 1 .. Len(<<>>) : FALSE BY NoSteps
<1>4. /\ TokensFirst'
      /\ \A u \in Threads : \A k \in TokenKinds : At(u, k)' => At(u, k) /\ Arg(u)' = Arg(u)
  BY <1>2, <1>3, HostTokens
<1>5. StartInv' BY <1>0, <1>1, <1>2, <1>3, StartLine DEF RestInv
<1>6. Fresh' => Fresh BY <1>0, <1>1, <1>2, <1>3, FreshStep
<1>7. CancelInv' BY <1>0, <1>1, <1>2, <1>3, CancelStep DEF RestInv
<1>8. shared.cancelled
  <2>1. 1 \in 1 .. Len(todo[Host]) BY <1>0, <1>2, AtFirst
  <2> QED BY <1>2, <2>1 DEF RestInv, CancelInv
<1>9. ~InRun' BY <1>1, <1>8 DEF InRun, Stopped
<1>10. source'.generation = source.generation + 1 /\ source'.reschedule = source.reschedule
  BY DEF Invalidate, IInv, TypeOK
<1>11. RequestInv' BY <1>6, <1>10 DEF RestInv, RequestInv
<1>12. pool'.ready = pool.ready /\ pool'.delayed \subseteq pool.delayed BY <1>1
<1> QED BY <1>4, <1>5, <1>7, <1>9, <1>10, <1>11, <1>12, StoppedRest

---------------------------------------------------------------------------
(* The source rests.                                                        *)

LEMMA RestFirst == Init => RestInv
<1> SUFFICES ASSUME Init PROVE RestInv
  OBVIOUS
<1>1. \A t \in Threads : todo[t] = <<>> BY DEF Init
<1>2. \A t \in Threads : \A k : ~At(t, k) BY <1>1 DEF At, Idle
<1>3. Host \in Threads BY DEF Threads
<1>4. TokensFirst /\ CancelInv /\ StartInv
  BY <1>1, <1>3, NoSteps DEF TokensFirst, CancelInv, StartInv
<1>5. source.generation = 0 /\ ~source.reschedule /\ state = "Initialized" BY DEF Init
<1>6. pool.ready = <<>> /\ pool.delayed = {} BY DEF Init
<1>7. GenerationInv BY <1>2, <1>6, NoSteps DEF GenerationInv
<1> QED BY <1>4, <1>5, <1>7 DEF RestInv, RequestInv, WakeInv, InRun, Live

LEMMA RestNext == IInv /\ RestInv /\ [Next]_vars => RestInv'
<1> SUFFICES ASSUME IInv, RestInv, [Next]_vars PROVE RestInv'
  OBVIOUS
<1>0. IInv' BY NextInvariant
<1>1. ASSUME NEW t \in Threads, Step(t) PROVE RestInv'
  <2>1. CASE Try(t) BY <1>0, <2>1, RestTry
  <2>2. CASE Claim(t) BY <1>0, <2>2, RestClaim
  <2>3. CASE Submit(t) BY <1>0, <2>3, RestSubmit
  <2>4. CASE Request(t) \/ Arm(t) BY <1>0, <2>4, RestRequest
  <2>5. CASE Run(t) BY <1>0, <2>5, RestRun
  <2>6. CASE Fail(t) BY <1>0, <2>6, RestFail
  <2>7. CASE Land(t) BY <1>0, <2>7, RestLand
  <2>8. CASE Flush(t) BY <1>0, <2>8, RestFlush
  <2>9. CASE Release(t) BY <1>0, <2>9, RestRelease
  <2>10. CASE CloseLook(t) \/ CloseClaim(t) \/ Close(t) \/ EndOfStream(t)
    BY <1>0, <2>10, RestClose
  <2> QED BY <1>1, <2>1, <2>2, <2>3, <2>4, <2>5, <2>6, <2>7, <2>8, <2>9, <2>10 DEF Step
<1>2. ASSUME NEW w \in Workers, WorkerStep(w) PROVE RestInv'
  <2>1. CASE Take(w) BY <1>0, <2>1, RestTake
  <2>2. CASE Woken(w) \/ Completed(w) \/ Exit(w) BY <1>0, <2>2, RestWoken
  <2>3. CASE Wake(w) BY <1>0, <2>3, RestWake
  <2>4. CASE Return(w) \/ LastReturn(w) BY <1>0, <2>4, RestReturn
  <2>5. CASE Resumption(w) BY <1>0, <2>5, RestResumption
  <2>6. CASE Reschedule(w) BY <1>0, <2>6, RestReschedule
  <2>7. CASE Generation(w) BY <1>0, <2>7, RestGeneration
  <2>8. CASE Delay(w) BY <1>0, <2>8, RestDelay
  <2> QED BY <1>2, <2>1, <2>2, <2>3, <2>4, <2>5, <2>6, <2>7, <2>8 DEF WorkerStep
<1>3. ASSUME HostStep PROVE RestInv'
  <2>1. CASE \/ Pump \/ Pumped \/ Rearm \/ WaitStep \/ WaitMore \/ WaitLook \/ Ended \/ WaitIdle
             \/ Forget \/ StopPool
    BY <1>0, <2>1, RestLooks
  <2>2. CASE EventLoop \/ SetCallback \/ WaitDone \/ Start \/ Resume BY <1>0, <2>2, RestCalls
  <2>3. CASE Task \/ SinkReturn \/ Retire \/ Join \/ Drop BY <1>0, <2>3, RestTask
  <2>4. CASE Open BY <1>0, <2>4, RestOpen
  <2>5. CASE Running BY <1>0, <2>5, RestRunning
  <2>6. CASE Reset BY <1>0, <2>6, RestReset
  <2>7. CASE ClearShared BY <1>0, <2>7, RestClear
  <2>8. CASE Renew BY <1>0, <2>8, RestRenew
  <2>9. CASE Initialized BY <1>0, <2>9, RestInitialized
  <2>10. CASE Cancel \/ Free BY <1>0, <2>10, RestCancel
  <2>11. CASE SetCancelled BY <1>0, <2>11, RestSetCancelled
  <2>12. CASE Invalidate BY <1>0, <2>12, RestInvalidate
  <2>13. CASE Pause
    <3>1. Steady BY <2>13, Unmoved DEF Pause
    <3> QED BY <2>13, <3>1, SteadyStay DEF Pause
  <2> QED
    BY <1>3, <2>1, <2>2, <2>3, <2>4, <2>5, <2>6, <2>7, <2>8, <2>9, <2>10, <2>11, <2>12, <2>13
    DEF HostStep
<1>4. CASE UNCHANGED vars
  <2>1. Steady BY <1>4, Unmoved DEF vars
  <2> QED BY <1>4, <2>1, SteadyStay DEF vars
<1> QED BY <1>1, <1>2, <1>3, <1>4 DEF Next

(***************************************************************************)
(* RestInv is inductive beside IInv: the right to wake the source is one   *)
(* token, from the request of a call to the dispatch it asked for.         *)
(***************************************************************************)
THEOREM RestInvariance == Spec => [](IInv /\ RestInv)
<1>1. Init => IInv /\ RestInv BY InitInvariant, RestFirst
<1>2. IInv /\ RestInv /\ [Next]_vars => (IInv /\ RestInv)' BY NextInvariant, RestNext
<1> QED BY <1>1, <1>2, PTL DEF Spec

LEMMA Rests == IInv /\ RestInv => SourceRests
<1> SUFFICES ASSUME IInv, RestInv, source.generation \in Wakes, ~Stopped
             PROVE  node["source"].line = <<>>
  BY DEF SourceRests
<1>1. CASE state \notin Live BY <1>1 DEF IInv, CallsInv, LineInv, Nodes
<1>2. CASE state \in Live
  <2>1. InRun BY <1>2 DEF InRun
  <2>2. AnyReady \/ DelayedWake
    <3>1. pool.ready \in Seq(Nat) BY DEF IInv, TypeOK
    <3>2. DOMAIN pool.ready = 1 .. Len(pool.ready) BY <3>1, LenProperties
    <3> QED BY <3>2 DEF Wakes, Queued, AnyReady, ReadyWake, DelayedWake
  <2> QED BY <2>1, <2>2 DEF RestInv, WakeInv, Awaited
<1> QED BY <1>1, <1>2

(***************************************************************************)
(* A source that asked to be called later is left alone until its wake,    *)
(* for any number of workers and of calls in flight: the request is taken  *)
(* when the last of the calls before it has landed, by one thread, and a   *)
(* wake of an older generation is ignored (schedule_source_resumption and  *)
(* wake_source_on_worker of scheduler.rs, cancel of lifecycle.rs).         *)
(***************************************************************************)
THEOREM SourceIsLeftAlone == Spec => []SourceRests
<1> QED BY Rests, RestInvariance, PTL

---------------------------------------------------------------------------
(* A running source is kept: who will call it again.                        *)

\* A pool is stopped by a host that frees the graph.
StopInv == pool.stop \/ Has(Host, "stop") => Has(Host, "freed")

\* A forced close comes from a graph that was stopped, and a cancel forgets
\* the wakes after its flag is set.
ForceInv ==
    \A t \in Threads : \A i \in 1 .. Len(todo[t]) : Kind(t, i) = "close" /\ todo[t][i][3] => Stopped
ForgetInv ==
    \A i \in 1 .. Len(todo[Host]) : Kind(Host, i) = "forget" =>
        \/ i = 1 /\ shared.cancelled
        \/ i > 1 /\ Kind(Host, i - 1) = "invalidate"
Alive == (state \in Live \/ Fresh) /\ ~Stopped
DoneInv == Alive /\ node["source"].closeStarted => source.done

ControlInv == StopInv /\ ForceInv /\ ForgetInv /\ DoneInv

\* Each claim of the source is in the pool, or with a thread that holds it.
BackInv == ~pool.stop => Claims("source") <= Runs + Cardinality(Holders("source"))

\* A thread has one entry, while it serves the call.
SourceLine == node["source"].line
Serves(t) == (At(t, "process") \/ At(t, "land")) /\ Arg(t) = "source"
Sole(l, e) == \A i, j \in 1 .. Len(l) : l[i] = e /\ l[j] = e => i = j
EntryInv == \A t \in Threads : Sole(SourceLine, t) /\ (InLine(SourceLine, t) => Serves(t))

\* What is due is flushed by a thread that looks after the source next.
FirstDone(l) == l # <<>> /\ l[1] \in {"landed", "emitted"}
Followed(t, i) ==
    /\ i + 2 <= Len(todo[t])
    /\ todo[t][i + 1] = <<"resume?", "source">> /\ todo[t][i + 2] = <<"try", "source">>
FollowInv == \A t \in Threads : \A i \in 1 .. Len(todo[t]) : Flushes(t, i, "source") => Followed(t, i)
SomeFlush == \E t \in Threads : \E i \in 1 .. Len(todo[t]) : Flushes(t, i, "source")
FlusherInv ==
    /\ FollowInv
    /\ FirstDone(SourceLine) => node["source"].flushing
    /\ node["source"].flushing => SomeFlush

ServedInv == BackInv /\ EntryInv /\ FlusherInv

\* A waiting source has a wake, or a request that somebody looks at; another
\* one is about to be tried.
TrySteps == {<<"try", "source">>, <<"claim", "source">>, <<"woken", "source">>}
TendSteps == {<<"resume?", "source">>, <<"reschedule">>}
Holds(t, S) == \E i \in 1 .. Len(todo[t]) : todo[t][i] \in S
Someone(S) == \E t \in Threads : Holds(t, S)
Returning == SourceLine # <<>> \/ node["source"].flushing
Tended == Returning \/ Someone(TendSteps)
Tried == Returning \/ Someone(TrySteps)
Needed == InRun /\ node["source"].opened /\ ~source.done /\ ~pool.stop
Waits == source.waiting => Awaited \/ (source.reschedule /\ Tended)
Tries == ~source.waiting /\ ~paused => Tried
KeptInv == Needed => Waits /\ Tries

KeepInv == ControlInv /\ ServedInv /\ KeptInv

---------------------------------------------------------------------------
(* The steps of the end, of closes and of cancels.                          *)

LEMMA StopStep ==
    ASSUME ListsOK, ShapeInv, StopInv, NEW t \in Threads, NEW steps, NEW r, Advances(t, steps, r),
           \A i \in 1 .. Len(steps) : steps[i][1] # "stop",
           Len(todo[t]) >= 1 => Kind(t, 1) # "freed",
           pool'.stop => pool.stop \/ At(Host, "stop")
    PROVE  StopInv'
<1>0. Host \in Threads BY DEF Threads
<1>1. At(Host, "stop") => Has(Host, "stop") BY <1>0, HasNow
<1>2. Has(Host, "stop")' => Has(Host, "stop")
  <2>1. CASE t = Host
    <3>1. Has(Host, "stop")' => \E i \in 2 .. Len(todo[Host]) : Kind(Host, i) = "stop"
      BY <2>1, HasNext
    <3> QED BY <1>0, <3>1, HasNow
  <2>2. CASE t # Host BY <1>0, <2>2, Views
  <2> QED BY <2>1, <2>2
<1>3. Has(Host, "freed") => Has(Host, "freed")'
  <2>1. CASE t = Host
    <3>1. Has(Host, "freed") => \E i \in 2 .. Len(todo[Host]) : Kind(Host, i) = "freed"
      BY <1>0, <2>1, HasNow, AtFirst
    <3> QED BY <2>1, <3>1, HasNext
  <2>2. CASE t # Host BY <1>0, <2>2, Views
  <2> QED BY <2>1, <2>2
<1> QED BY <1>1, <1>2, <1>3 DEF StopInv

LEMMA ForceStep ==
    ASSUME ListsOK, ForceInv, NEW t \in Threads, NEW steps, NEW r, Advances(t, steps, r),
           \A i \in 1 .. Len(steps) : steps[i][1] = "close" /\ steps[i][3] => Stopped',
           Stopped => Stopped'
    PROVE  ForceInv'
<1> SUFFICES ASSUME NEW u \in Threads, NEW i \in 1 .. Len(todo'[u]),
                    todo'[u][i][1] = "close", todo'[u][i][3]
             PROVE  Stopped'
  BY DEF ForceInv, Kind
<1>1. CASE u # t
  <2>1. todo'[u] = todo[u] BY <1>1, Deeper
  <2> QED BY <2>1 DEF ForceInv, Kind
<1>2. CASE u = t
  <2>1. \/ i \in 1 .. Len(steps) /\ todo'[t][i] = steps[i]
        \/ \E j \in 2 .. Len(todo[t]) : todo'[t][i] = todo[t][j]
    <3>1. i \in 1 .. Len(todo'[t]) BY <1>2
    <3> QED BY <3>1, Origins
  <2>2. ASSUME NEW j \in 2 .. Len(todo[t]), todo'[t][i] = todo[t][j] PROVE Stopped'
    <3>1. j \in 1 .. Len(todo[t]) BY Deeper
    <3> QED BY <1>2, <2>2, <3>1 DEF ForceInv, Kind
  <2> QED BY <1>2, <2>1, <2>2
<1> QED BY <1>1, <1>2

\* A host that is not in a cancel forgets nothing.
LEMMA ForgetStep ==
    ASSUME ListsOK, CancelInv, ForgetInv, NEW t \in Threads, NEW steps, NEW r, Advances(t, steps, r),
           \A i \in 1 .. Len(steps) : steps[i][1] # "forget",
           t = Host /\ Len(todo[Host]) >= 1 => Kind(Host, 1) \notin {"cancelled", "invalidate"},
           shared.cancelled => shared'.cancelled
    PROVE  ForgetInv'
<1>1. CASE t # Host
  <2>1. todo'[Host] = todo[Host] BY <1>1, Deeper DEF Threads
  <2> QED BY <1>1, <2>1 DEF ForgetInv, Kind
<1>2. CASE t = Host
  <2>1. ASSUME NEW j \in 2 .. Len(todo[Host]) PROVE Kind(Host, j) # "forget"
    <3> SUFFICES ASSUME Kind(Host, j) = "forget" PROVE FALSE OBVIOUS
    <3>1. /\ j \in 1 .. Len(todo[Host]) /\ j - 1 \in 1 .. Len(todo[Host])
          /\ j \in Nat /\ j # 1 /\ Len(todo[Host]) >= 1
      BY <1>2, Deeper
    <3>2. Kind(Host, j - 1) = "invalidate" BY <3>1 DEF ForgetInv
    <3>3. j - 1 = 1 \/ Kind(Host, 1) = "cancelled" BY <3>1, <3>2 DEF CancelInv
    <3> QED BY <1>2, <3>1, <3>2, <3>3
  <2>2. ASSUME NEW i \in 1 .. Len(todo'[Host]) PROVE todo'[Host][i][1] # "forget"
    <3>1. \/ i \in 1 .. Len(steps) /\ todo'[Host][i] = steps[i]
          \/ \E j \in 2 .. Len(todo[Host]) : todo'[Host][i] = todo[Host][j]
      BY <1>2, Origins
    <3> QED BY <2>1, <3>1 DEF Kind
  <2> QED BY <2>2 DEF ForgetInv, Kind
<1> QED BY <1>1, <1>2

\* A source is closed when it is done, or by force.
DoneStays ==
    /\ source.done => source'.done
    /\ node'["source"].closeStarted => node["source"].closeStarted \/ source.done \/ Stopped'

LEMMA DoneStep ==
    ASSUME DoneInv, Alive' => Alive, DoneStays
    PROVE  DoneInv'
BY DEF DoneInv, DoneStays, Alive

\* A graph runs only after it was new, and its flags stay until it is reset.
RunStays ==
    /\ Stopped => Stopped'
    /\ shared.cancelled => shared'.cancelled
    /\ state' = "Initialized" => state = "Initialized"
    /\ state' \in Live => state \in Live \/ Fresh

LEMMA ControlStep ==
    ASSUME IInv, IInv', RestInv, ControlInv, RunStays, DoneStays,
           NEW t \in Threads, NEW steps, NEW r, Advances(t, steps, r),
           \A i \in 1 .. Len(steps) : /\ steps[i][1] \notin {"stop", "forget", "initialized"}
                                      /\ steps[i][1] = "close" /\ steps[i][3] => Stopped',
           Len(todo[t]) >= 1 => Kind(t, 1) \notin {"freed", "cancelled", "invalidate", "renew"},
           pool'.stop => pool.stop \/ At(Host, "stop")
    PROVE  ControlInv'
<1>0. ListsOK /\ ShapeInv /\ StopInv /\ ForceInv /\ ForgetInv /\ DoneInv /\ CancelInv
  BY DEF IInv, ControlInv, RestInv
<1>1. StopInv' BY <1>0, StopStep
<1>2. ForceInv' BY <1>0, ForceStep DEF RunStays
<1>3. ForgetInv' BY <1>0, ForgetStep DEF RunStays
<1>4. Fresh' => Fresh BY FreshStep DEF RunStays
<1>5. Alive' => Alive BY <1>4 DEF Alive, RunStays
<1>6. DoneInv' BY <1>0, <1>5, DoneStep
<1> QED BY <1>1, <1>2, <1>3, <1>6 DEF ControlInv

---------------------------------------------------------------------------
(* The calls of the source.                                                 *)

LEMMA BackStep ==
    ASSUME IInv, IInv', BackInv, NEW t \in Threads, NEW steps, NEW r, Advances(t, steps, r),
           pool.stop => pool'.stop,
           ~pool'.stop => Runs + Loss(t, "source") + Claims("source")'
                              <= Runs' + Gain(steps, "source") + Claims("source")
    PROVE  BackInv'
<1>1. "source" \in Nodes BY DEF Nodes
<1>2. Runs \in Nat /\ Claims("source") \in Nat /\ Runs' \in Nat /\ Claims("source")' \in Nat
  BY <1>1, Counts, CountsNext DEF IInv
<1>3. /\ Cardinality(Holders("source")) \in Nat /\ Cardinality(Holders("source")') \in Nat
      /\ Cardinality(Holders("source")') =
             Cardinality(Holders("source")) - Loss(t, "source") + Gain(steps, "source")
  <2>1. t \in Holders("source") <=> (At(t, "submit") \/ At(t, "run")) /\ Arg(t) = "source"
    BY DEF Holders
  <2> QED BY <2>1, HoldersStep DEF IInv, Loss, Gain
<1>4. Loss(t, "source") \in {0, 1} /\ Gain(steps, "source") \in {0, 1} BY DEF Loss, Gain
<1>5. ~pool'.stop => Claims("source") <= Runs + Cardinality(Holders("source")) BY DEF BackInv
<1>6. ~pool'.stop => Claims("source")' <= Runs' + Cardinality(Holders("source")')
  BY <1>2, <1>3, <1>4, <1>5
<1> QED BY <1>6 DEF BackInv

\* What the thread that moves does to the line is done to its own entry.
LEMMA EntryStep ==
    ASSUME ListsOK, ShapeInv, EntryInv, NEW t \in Threads, NEW steps, NEW r, Advances(t, steps, r),
           \A u \in Threads : Sole(node'["source"].line, u),
           \A u \in Threads \ {t} : InLine(node'["source"].line, u) => InLine(SourceLine, u),
           InLine(node'["source"].line, t) =>
               Len(steps) >= 1 /\ steps[1][1] \in {"process", "land"} /\ steps[1][2] = "source"
    PROVE  EntryInv'
<1>1. ASSUME NEW u \in Threads, InLine(node'["source"].line, u) PROVE Serves(u)'
  <2>1. CASE u # t
    <3>1. Serves(u) BY <1>1, <2>1 DEF EntryInv
    <3>2. /\ At(u, "process")' <=> At(u, "process")
          /\ At(u, "land")' <=> At(u, "land")
          /\ Arg(u)' = Arg(u)
      BY <2>1, Views
    <3> QED BY <3>1, <3>2 DEF Serves
  <2>2. CASE u = t
    <3>1. Arg(t)' = steps[1][2] /\ \A k : At(t, k)' <=> steps[1][1] = k BY <1>1, <2>2, Views
    <3> QED BY <1>1, <2>2, <3>1 DEF Serves
  <2> QED BY <2>1, <2>2
<1> QED BY <1>1 DEF EntryInv, SourceLine

\* A line that is left alone, by a thread that serves no call or goes on with it.
LEMMA EntryStays ==
    ASSUME ListsOK, ShapeInv, EntryInv, NEW t \in Threads, NEW steps, NEW r, Advances(t, steps, r),
           node'["source"].line = SourceLine,
           Serves(t) => Len(steps) >= 1 /\ steps[1][1] \in {"process", "land"} /\ steps[1][2] = "source"
    PROVE  EntryInv'
BY EntryStep DEF EntryInv

\* A flush that stands deeper in a list goes with what follows it.
LEMMA FlushPlaces ==
    ASSUME ListsOK, NEW t \in Threads, NEW steps, NEW r, Advances(t, steps, r)
    PROVE  /\ \A u \in Threads \ {t} : \A i : Flushes(u, i, "source")' <=> Flushes(u, i, "source")
           /\ \A u \in Threads \ {t} : \A i : Followed(u, i)' <=> Followed(u, i)
           /\ \A i \in 2 .. Len(todo[t]) :
                 /\ i + Len(steps) - 1 \in 1 .. Len(todo'[t])
                 /\ Flushes(t, i, "source") => Flushes(t, i + Len(steps) - 1, "source")'
                 /\ Followed(t, i) => Followed(t, i + Len(steps) - 1)'
           /\ \A j \in 1 .. Len(todo'[t]) : Flushes(t, j, "source")' =>
                 \/ j \in 1 .. Len(steps) /\ FlushOf(steps[j], "source")
                 \/ \E i \in 2 .. Len(todo[t]) : Flushes(t, i, "source") /\ j = i + Len(steps) - 1
<1>1. \A u \in Threads \ {t} : todo'[u] = todo[u] BY Deeper
<1>2. \A u \in Threads \ {t} : \A i : Flushes(u, i, "source")' <=> Flushes(u, i, "source")
  BY <1>1 DEF Flushes, Kind
<1>3. \A u \in Threads \ {t} : \A i : Followed(u, i)' <=> Followed(u, i) BY <1>1 DEF Followed
<1>4. Len(todo[t]) \in Nat /\ Len(steps) \in Nat /\ Len(todo'[t]) \in Nat BY Deeper
<1>5. \A i \in 2 .. Len(todo[t]) :
         /\ i + Len(steps) - 1 \in 1 .. Len(todo'[t])
         /\ todo'[t][i + Len(steps) - 1] = todo[t][i]
  BY Kept
<1>6. Len(todo[t]) >= 1 => Len(todo'[t]) = Len(steps) + Len(todo[t]) - 1 BY Deeper
<1>7. ASSUME NEW i \in 2 .. Len(todo[t])
      PROVE  /\ i + Len(steps) - 1 \in 1 .. Len(todo'[t])
             /\ Flushes(t, i, "source") => Flushes(t, i + Len(steps) - 1, "source")'
             /\ Followed(t, i) => Followed(t, i + Len(steps) - 1)'
  <2>1. i + Len(steps) - 1 \in 1 .. Len(todo'[t]) /\ todo'[t][i + Len(steps) - 1] = todo[t][i]
    BY <1>5
  <2>2. Flushes(t, i, "source") => Flushes(t, i + Len(steps) - 1, "source")'
    BY <2>1 DEF Flushes, Kind
  <2>3. ASSUME Followed(t, i) PROVE Followed(t, i + Len(steps) - 1)'
    <3>1. i + 1 \in 2 .. Len(todo[t]) /\ i + 2 \in 2 .. Len(todo[t]) BY <1>4, <2>3 DEF Followed
    <3>2. /\ todo'[t][(i + 1) + Len(steps) - 1] = todo[t][i + 1]
          /\ todo'[t][(i + 2) + Len(steps) - 1] = todo[t][i + 2]
          /\ (i + 2) + Len(steps) - 1 \in 1 .. Len(todo'[t])
      BY <1>5, <3>1
    <3>3. /\ (i + 1) + Len(steps) - 1 = (i + Len(steps) - 1) + 1
          /\ (i + 2) + Len(steps) - 1 = (i + Len(steps) - 1) + 2
      BY <1>4
    <3>4. (i + Len(steps) - 1) + 2 <= Len(todo'[t]) BY <1>4, <3>2, <3>3
    <3> QED BY <2>3, <3>2, <3>3, <3>4 DEF Followed
  <2> QED BY <2>1, <2>2, <2>3
<1>8. ASSUME NEW j \in 1 .. Len(todo'[t]), Flushes(t, j, "source")'
      PROVE  \/ j \in 1 .. Len(steps) /\ FlushOf(steps[j], "source")
             \/ \E i \in 2 .. Len(todo[t]) : Flushes(t, i, "source") /\ j = i + Len(steps) - 1
  <2>1. \/ j \in 1 .. Len(steps) /\ todo'[t][j] = steps[j]
        \/ \E i \in 2 .. Len(todo[t]) : todo'[t][j] = todo[t][i] /\ j = i + Len(steps) - 1
    BY Origins
  <2>2. \A i \in 2 .. Len(todo[t]) : i \in 1 .. Len(todo[t]) BY <1>4
  <2> QED BY <1>8, <2>1, <2>2 DEF Flushes, FlushOf, Kind
<1> QED BY <1>2, <1>3, <1>7, <1>8

\* What follows a flush that is pushed is pushed with it, or there.
LEMMA FollowStep ==
    ASSUME ListsOK, FollowInv, NEW t \in Threads, NEW steps, NEW r, Advances(t, steps, r),
           \A j \in 1 .. Len(steps) : FlushOf(steps[j], "source") => Followed(t, j)'
    PROVE  FollowInv'
<1> SUFFICES ASSUME NEW u \in Threads, NEW j \in 1 .. Len(todo'[u]), Flushes(u, j, "source")'
             PROVE  Followed(u, j)'
  BY DEF FollowInv
<1>1. CASE u # t
  <2>1. Flushes(u, j, "source") /\ (Followed(u, j)' <=> Followed(u, j)) BY <1>1, FlushPlaces
  <2>2. j \in 1 .. Len(todo[u]) BY <2>1 DEF Flushes
  <2> QED BY <2>1, <2>2 DEF FollowInv
<1>2. CASE u = t
  <2>1. \/ j \in 1 .. Len(steps) /\ FlushOf(steps[j], "source")
        \/ \E i \in 2 .. Len(todo[t]) : Flushes(t, i, "source") /\ j = i + Len(steps) - 1
    BY <1>2, FlushPlaces
  <2>2. ASSUME NEW i \in 2 .. Len(todo[t]), Flushes(t, i, "source"), j = i + Len(steps) - 1
        PROVE  Followed(t, j)'
    <3>1. i \in 1 .. Len(todo[t]) BY <2>2 DEF Flushes
    <3>2. Followed(t, i) BY <2>2, <3>1 DEF FollowInv
    <3> QED BY <2>2, <3>2, FlushPlaces
  <2> QED BY <1>2, <2>1, <2>2
<1> QED BY <1>1, <1>2

\* Somebody flushes on, unless it was the thread that moves.
LEMMA SomeFlushStep ==
    ASSUME ListsOK, NEW t \in Threads, NEW steps, NEW r, Advances(t, steps, r),
           ~Flushes(t, 1, "source"), SomeFlush
    PROVE  SomeFlush'
<1>1. PICK u \in Threads : \E i \in 1 .. Len(todo[u]) : Flushes(u, i, "source") BY DEF SomeFlush
<1>2. PICK i \in 1 .. Len(todo[u]) : Flushes(u, i, "source") BY <1>1
<1>3. CASE u # t
  <2>1. Flushes(u, i, "source")' BY <1>2, <1>3, FlushPlaces
  <2>2. i \in 1 .. Len(todo'[u]) BY <2>1 DEF Flushes
  <2> QED BY <2>1, <2>2 DEF SomeFlush
<1>4. CASE u = t
  <2>1. i # 1 BY <1>2, <1>4
  <2>2. i \in 2 .. Len(todo[t]) BY <1>4, <2>1, Deeper
  <2>3. i + Len(steps) - 1 \in 1 .. Len(todo'[t]) /\ Flushes(t, i + Len(steps) - 1, "source")'
    BY <1>2, <1>4, <2>2, FlushPlaces
  <2> QED BY <2>3 DEF SomeFlush
<1> QED BY <1>3, <1>4

\* A step that leaves the line and the flusher of the source alone.
LEMMA FlusherStays ==
    ASSUME ListsOK, FlusherInv, NEW t \in Threads, NEW steps, NEW r, Advances(t, steps, r),
           node'["source"].line = SourceLine, node'["source"].flushing = node["source"].flushing,
           ~Flushes(t, 1, "source"),
           \A j \in 1 .. Len(steps) : ~FlushOf(steps[j], "source")
    PROVE  FlusherInv'
<1>1. FollowInv' BY FollowStep DEF FlusherInv
<1>2. node'["source"].flushing => SomeFlush' BY SomeFlushStep DEF FlusherInv
<1> QED BY <1>1, <1>2 DEF FlusherInv, SourceLine

\* ... and its claims.
LEMMA ServedStays ==
    ASSUME IInv, IInv', ServedInv, NEW t \in Threads, NEW steps, NEW r, Advances(t, steps, r),
           node'["source"].line = SourceLine, node'["source"].flushing = node["source"].flushing,
           Runs' = Runs, pool.stop => pool'.stop,
           Loss(t, "source") = 0, ~Flushes(t, 1, "source"),
           \A j \in 1 .. Len(steps) : ~FlushOf(steps[j], "source"),
           Serves(t) => Len(steps) >= 1 /\ steps[1][1] \in {"process", "land"} /\ steps[1][2] = "source"
    PROVE  ServedInv'
<1>1. ListsOK /\ ShapeInv /\ BackInv /\ EntryInv /\ FlusherInv BY DEF IInv, ServedInv
<1>2. BackInv'
  <2>1. "source" \in Nodes BY DEF Nodes
  <2>2. Runs \in Nat /\ Claims("source") \in Nat BY <2>1, Counts DEF IInv
  <2>3. Claims("source")' = Claims("source")
    BY CountsNext DEF Claims, SourceLine
  <2>4. Gain(steps, "source") \in {0, 1} BY DEF Gain
  <2>5. Runs + Loss(t, "source") + Claims("source")' <= Runs' + Gain(steps, "source") + Claims("source")
    BY <2>2, <2>3, <2>4
  <2> QED BY <1>1, <2>5, BackStep
<1>3. EntryInv' BY <1>1, EntryStays
<1>4. FlusherInv' BY <1>1, FlusherStays
<1> QED BY <1>2, <1>3, <1>4 DEF ServedInv

---------------------------------------------------------------------------
(* Who will call the source.                                                *)

\* A step that somebody is to do is done, or stays.
LEMMA HoldsMove ==
    ASSUME ListsOK, NEW t \in Threads, NEW steps, NEW r, Advances(t, steps, r), NEW S
    PROVE  /\ (Len(todo[t]) >= 1 /\ todo[t][1] \in S) \/ (Someone(S) => Someone(S)')
           /\ (\E i \in 1 .. Len(steps) : steps[i] \in S) => Someone(S)'
           /\ (\E i \in 2 .. Len(todo[t]) : todo[t][i] \in S) => Someone(S)'
<1>1. /\ \A u \in Threads \ {t} : todo'[u] = todo[u]
      /\ Len(todo[t]) \in Nat
  BY Deeper
<1>2. ASSUME NEW i \in 1 .. Len(steps), steps[i] \in S PROVE Someone(S)'
  <2>1. i \in 1 .. Len(todo'[t]) /\ todo'[t][i] = steps[i] BY Kept
  <2> QED BY <1>2, <2>1 DEF Someone, Holds
<1>3. ASSUME NEW i \in 2 .. Len(todo[t]), todo[t][i] \in S PROVE Someone(S)'
  <2>1. i + Len(steps) - 1 \in 1 .. Len(todo'[t]) /\ todo'[t][i + Len(steps) - 1] = todo[t][i]
    BY Kept
  <2> QED BY <1>3, <2>1 DEF Someone, Holds
<1>4. ASSUME Someone(S), ~(Len(todo[t]) >= 1 /\ todo[t][1] \in S) PROVE Someone(S)'
  <2>1. PICK u \in Threads : \E i \in 1 .. Len(todo[u]) : todo[u][i] \in S BY <1>4 DEF Someone, Holds
  <2>2. PICK i \in 1 .. Len(todo[u]) : todo[u][i] \in S BY <2>1
  <2>3. CASE u # t
    <3>1. todo'[u] = todo[u] BY <1>1, <2>3
    <3> QED BY <2>2, <3>1 DEF Someone, Holds
  <2>4. CASE u = t
    <3>1. i \in 2 .. Len(todo[t]) BY <1>1, <1>4, <2>2, <2>4
    <3> QED BY <1>3, <2>2, <2>4, <3>1
  <2> QED BY <2>3, <2>4
<1> QED BY <1>2, <1>3, <1>4

\* The wake is not lost by a thread that has none.
LEMMA AwaitedMove ==
    ASSUME ListsOK, NEW t \in Threads, NEW steps, NEW r, Advances(t, steps, r),
           source'.generation = source.generation, ~Owes(t),
           AnyReady => AnyReady', DelayedWake => DelayedWake'
    PROVE  Awaited => Awaited'
<1>1. ASSUME NEW u \in Threads, Owes(u) PROVE Owes(u)'
  <2>1. u # t BY <1>1
  <2>2. todo'[u] = todo[u] BY <2>1, Deeper
  <2> QED BY <1>1, <2>2 DEF Owes, At, Arg, Idle
<1> QED BY <1>1 DEF Awaited

\* The wakes of a pool that is left alone, or gets a task.
LEMMA WakesMove ==
    ASSUME TypeOK, source'.generation = source.generation, pool'.delayed = pool.delayed,
           \/ pool'.ready = pool.ready
           \/ \E task \in Nat : pool'.ready = Append(pool.ready, task)
    PROVE  (AnyReady => AnyReady') /\ (DelayedWake => DelayedWake')
<1>1. pool.ready \in Seq(Nat) /\ Len(pool.ready) \in Nat BY LenProperties DEF TypeOK
<1>2. \A i \in 1 .. Len(pool.ready) : i \in 1 .. Len(pool'.ready) /\ pool'.ready[i] = pool.ready[i]
  <2>1. CASE pool'.ready = pool.ready BY <2>1
  <2>2. CASE \E task \in Nat : pool'.ready = Append(pool.ready, task)
    <3>1. PICK task \in Nat : pool'.ready = Append(pool.ready, task) BY <2>2
    <3>2. /\ Len(pool'.ready) = Len(pool.ready) + 1
          /\ \A i \in 1 .. Len(pool.ready) : pool'.ready[i] = pool.ready[i]
      BY <1>1, <3>1, AppendProperties
    <3> QED BY <1>1, <3>2
  <2> QED BY <2>1, <2>2
<1>3. AnyReady => AnyReady' BY <1>2 DEF AnyReady, ReadyWake
<1> QED BY <1>3 DEF DelayedWake

\* Nothing changes for the source.
LEMMA KeptMove ==
    ASSUME KeptInv,
           Needed' =>
               /\ Needed
               /\ source'.waiting = source.waiting /\ source'.reschedule = source.reschedule
               /\ paused' = paused /\ (Awaited => Awaited')
               /\ source.waiting /\ source.reschedule => (Tended => Tended')
               /\ ~source.waiting /\ ~paused => (Tried => Tried')
    PROVE  KeptInv'
BY DEF KeptInv, Waits, Tries

\* A step that leaves the requests and the wakes of the source alone.
LEMMA KeptTurn ==
    ASSUME IInv, KeptInv, NEW t \in Threads, NEW steps, NEW r, Advances(t, steps, r),
           Needed' => Needed, source' = source, paused' = paused,
           pool'.delayed = pool.delayed,
           \/ pool'.ready = pool.ready
           \/ \E task \in Nat : pool'.ready = Append(pool.ready, task),
           Returning => Returning', ~Owes(t),
           Len(todo[t]) >= 1 => todo[t][1] \notin TendSteps,
           Needed' /\ ~source.waiting /\ ~paused => (Tried => Tried')
    PROVE  KeptInv'
<1>1. ListsOK /\ TypeOK BY DEF IInv
<1>2. Awaited => Awaited' BY <1>1, WakesMove, AwaitedMove
<1>3. Someone(TendSteps) => Someone(TendSteps)' BY <1>1, HoldsMove
<1>4. Tended => Tended' BY <1>3 DEF Tended
<1> QED BY <1>2, <1>4, KeptMove

\* ... and that is not its turn.
LEMMA KeptStays ==
    ASSUME IInv, KeptInv, NEW t \in Threads, NEW steps, NEW r, Advances(t, steps, r),
           Needed' => Needed, source' = source, paused' = paused,
           pool'.delayed = pool.delayed,
           \/ pool'.ready = pool.ready
           \/ \E task \in Nat : pool'.ready = Append(pool.ready, task),
           Returning => Returning', ~Owes(t),
           Len(todo[t]) >= 1 => todo[t][1] \notin TendSteps \cup TrySteps
    PROVE  KeptInv'
<1>1. ListsOK BY DEF IInv
<1>2. Someone(TrySteps) => Someone(TrySteps)' BY <1>1, HoldsMove
<1>3. Tried => Tried' BY <1>2 DEF Tried
<1> QED BY <1>3, KeptTurn

\* A graph that does not need the source, or will not.
LEMMA KeptIdle ==
    ASSUME ~Needed'
    PROVE  KeptInv'
BY DEF KeptInv

\* While a call is outstanding no wake is, and after it the source is looked at.
LEMMA KeptReturning ==
    ASSUME RestInv, KeptInv, SourceLine # <<>>, Returning',
           Needed' => Needed, source' = source
    PROVE  KeptInv'
<1> SUFFICES ASSUME Needed' PROVE Waits' /\ Tries'
  BY DEF KeptInv
<1>1. InRun /\ (source.waiting => Awaited \/ source.reschedule) BY DEF KeptInv, Needed, Waits
<1>2. ~Awaited BY <1>1, NoWake DEF Awaited, SourceLine
<1> QED BY <1>1, <1>2 DEF Waits, Tries, Tended, Tried

---------------------------------------------------------------------------
(* Steps that the source is not about.                                      *)

\* The line of the source, its tasks and its end are left alone.
LineStays ==
    /\ node'["source"].line = SourceLine /\ node'["source"].flushing = node["source"].flushing
    /\ Runs' = Runs /\ pool'.stop = pool.stop
    /\ RunStays /\ DoneStays

\* ... and the source and its wakes.
SourceStays ==
    /\ LineStays
    /\ source' = source /\ paused' = paused
    /\ pool'.ready = pool.ready /\ pool'.delayed = pool.delayed
    /\ Needed' => Needed

\* What a thread does not do first, or then.
LineKinds == {"submit", "run", "flush", "release"}
SourceKinds == LineKinds \cup {"try", "claim", "woken", "resume?"}
OwnKinds == {"process", "land"}
LineFirst(s) ==
    /\ s[1] \notin {"freed", "cancelled", "invalidate", "renew"}
    /\ s[1] \in LineKinds => s[2] # "source"
QuietFirst(s) ==
    /\ s[1] \notin TokenKinds \cup {"freed", "cancelled", "invalidate", "renew", "reschedule"}
    /\ s[1] \in SourceKinds => s[2] # "source"
QuietThen(s) ==
    /\ s[1] \notin {"stop", "forget", "initialized"}
    /\ s[1] \in {"flush", "release"} => s[2] # "source"
    /\ s[1] = "close" /\ s[3] => Stopped'

\* A thread that serves a call goes on with it.
GoesOn(t, steps) ==
    Len(todo[t]) >= 1 /\ todo[t][1][1] \in OwnKinds /\ todo[t][1][2] = "source" =>
        Len(steps) >= 1 /\ steps[1][1] \in OwnKinds /\ steps[1][2] = "source"

LEMMA LineStep ==
    ASSUME IInv, IInv', RestInv, KeepInv, LineStays,
           NEW t \in Threads, NEW steps, NEW r, Advances(t, steps, r),
           Len(todo[t]) >= 1 => LineFirst(todo[t][1]),
           \A i \in 1 .. Len(steps) : QuietThen(steps[i]), GoesOn(t, steps)
    PROVE  ControlInv' /\ ServedInv'
<1>1. ListsOK /\ ControlInv /\ ServedInv BY DEF IInv, KeepInv
<1>2. ControlInv'
  <2>1. Len(todo[t]) >= 1 => Kind(t, 1) \notin {"freed", "cancelled", "invalidate", "renew"}
    BY DEF LineFirst, Kind
  <2>2. \A i \in 1 .. Len(steps) : /\ steps[i][1] \notin {"stop", "forget", "initialized"}
                                   /\ steps[i][1] = "close" /\ steps[i][3] => Stopped'
    BY DEF QuietThen
  <2>3. RunStays /\ DoneStays /\ (pool'.stop => pool.stop) BY DEF LineStays
  <2> QED BY <1>1, <2>1, <2>2, <2>3, ControlStep
<1>3. /\ Len(todo[t]) >= 1 => Arg(t) = todo[t][1][2]
      /\ \A k : At(t, k) => Len(todo[t]) >= 1 /\ todo[t][1][1] = k
  BY <1>1, AtFirst DEF Kind
<1>4. ServedInv'
  <2>1. Loss(t, "source") = 0 BY <1>3 DEF Loss, LineFirst, LineKinds
  <2>2. ~Flushes(t, 1, "source")
    <3>1. 1 \in 1 .. Len(todo[t]) => Len(todo[t]) >= 1 BY <1>1, AtFirst
    <3> QED BY <3>1 DEF Flushes, Kind, LineFirst, LineKinds
  <2>3. \A j \in 1 .. Len(steps) : ~FlushOf(steps[j], "source") BY DEF FlushOf, QuietThen
  <2>4. Serves(t) => Len(steps) >= 1 /\ steps[1][1] \in {"process", "land"} /\ steps[1][2] = "source"
    BY <1>3 DEF Serves, OwnKinds, GoesOn
  <2> QED BY <1>1, <2>1, <2>2, <2>3, <2>4, ServedStays DEF LineStays
<1> QED BY <1>2, <1>4

LEMMA KeepStep ==
    ASSUME IInv, IInv', RestInv, KeepInv, SourceStays,
           NEW t \in Threads, NEW steps, NEW r, Advances(t, steps, r),
           Len(todo[t]) >= 1 => QuietFirst(todo[t][1]),
           \A i \in 1 .. Len(steps) : QuietThen(steps[i]), GoesOn(t, steps)
    PROVE  KeepInv'
<1>1. ListsOK /\ KeptInv BY DEF IInv, KeepInv
<1>2. ControlInv' /\ ServedInv'
  <2>1. Len(todo[t]) >= 1 => LineFirst(todo[t][1]) BY DEF QuietFirst, LineFirst, SourceKinds
  <2> QED BY <2>1, LineStep DEF SourceStays
<1>3. \A k : At(t, k) => Len(todo[t]) >= 1 /\ todo[t][1][1] = k BY <1>1, AtFirst DEF Kind
<1>5. KeptInv'
  <2>1. ~Owes(t) BY <1>3 DEF Owes, QuietFirst, TokenKinds
  <2>2. Len(todo[t]) >= 1 => todo[t][1] \notin TendSteps \cup TrySteps
    <3> SUFFICES ASSUME Len(todo[t]) >= 1, todo[t][1] \in TendSteps \cup TrySteps PROVE FALSE
      OBVIOUS
    <3>1. \/ todo[t][1][1] = "reschedule"
          \/ todo[t][1][1] \in SourceKinds /\ todo[t][1][2] = "source"
      BY DEF TendSteps, TrySteps, SourceKinds
    <3> QED BY <3>1 DEF QuietFirst
  <2>3. Returning => Returning' BY DEF Returning, SourceStays, LineStays, SourceLine
  <2> QED BY <1>1, <2>1, <2>2, <2>3, KeptStays DEF SourceStays
<1> QED BY <1>2, <1>5 DEF KeepInv

\* A thread that goes on, from a step of kind k with steps of kinds K.
LEMMA GoFacts ==
    ASSUME IInv, NEW t \in Threads, NEW k, At(t, k), NEW steps, NEW K, Only(steps, K), Go(t, steps),
           K \cap {"stop", "forget", "initialized", "close"} = {}, k \in OwnKinds => Arg(t) # "source",
           \A i \in 1 .. Len(steps) : steps[i][1] \in {"flush", "release"} => steps[i][2] # "source"
    PROVE  /\ Advances(t, steps, Len(todo[t]) - 1) /\ Len(todo[t]) \in Nat /\ Len(todo[t]) >= 1
           /\ todo[t][1][1] = k /\ Arg(t) = todo[t][1][2] /\ todo[t][1] \in Steps
           /\ GoesOn(t, steps) /\ \A i \in 1 .. Len(steps) : QuietThen(steps[i])
<1>1. steps \in Seq(Steps) /\ ListsOK BY DEF Only, IInv
<1>2. /\ Advances(t, steps, Len(todo[t]) - 1) /\ Len(todo[t]) \in Nat /\ Len(todo[t]) >= 1
      /\ todo[t][1][1] = k /\ Arg(t) = todo[t][1][2] /\ todo[t][1] \in Steps
  BY <1>1, GoAdvances DEF Kind
<1>4. \A i \in 1 .. Len(steps) : steps[i][1] \in K BY DEF Only
<1>5. \A i \in 1 .. Len(steps) : QuietThen(steps[i]) BY <1>4 DEF QuietThen
<1> QED BY <1>2, <1>5 DEF GoesOn

LEMMA KeepGo ==
    ASSUME IInv, IInv', RestInv, KeepInv, SourceStays, NEW t \in Threads, NEW k, At(t, k),
           NEW steps, NEW K, Only(steps, K), Go(t, steps),
           K \cap {"stop", "forget", "initialized", "close"} = {}, k \in OwnKinds => Arg(t) # "source",
           \A i \in 1 .. Len(steps) : steps[i][1] \in {"flush", "release"} => steps[i][2] # "source",
           k \notin TokenKinds \cup {"freed", "cancelled", "invalidate", "renew", "reschedule"},
           k \in SourceKinds => Arg(t) # "source"
    PROVE  KeepInv'
<1>1. /\ Advances(t, steps, Len(todo[t]) - 1) /\ todo[t][1][1] = k /\ Arg(t) = todo[t][1][2]
      /\ GoesOn(t, steps) /\ \A i \in 1 .. Len(steps) : QuietThen(steps[i])
  BY GoFacts
<1>2. QuietFirst(todo[t][1]) BY <1>1 DEF QuietFirst
<1> QED BY <1>1, <1>2, KeepStep

LEMMA KeepCall ==
    ASSUME IInv, IInv', RestInv, KeepInv, SourceStays, NEW t \in Threads, Idle(t),
           NEW steps, NEW K, Only(steps, K), Call(t, steps),
           K \cap {"stop", "forget", "initialized", "close", "flush", "release"} = {}
    PROVE  KeepInv'
<1>1. steps \in Seq(Steps) /\ ListsOK BY DEF Only, IInv
<1>2. Advances(t, steps, 0) /\ ~(Len(todo[t]) >= 1) BY <1>1, CallAdvances
<1>4. \A i \in 1 .. Len(steps) : steps[i][1] \in K BY DEF Only
<1>5. \A i \in 1 .. Len(steps) : QuietThen(steps[i]) BY <1>4 DEF QuietThen
<1> QED BY <1>2, <1>5, KeepStep DEF GoesOn

\* A step of no thread.
LEMMA StillStays ==
    ASSUME KeepInv, LineStays, todo' = todo
    PROVE  /\ ControlInv' /\ ServedInv'
           /\ \A S : Someone(S)' <=> Someone(S)
           /\ \A u \in Threads : \A k : At(u, k)' = At(u, k) /\ Arg(u)' = Arg(u)
<1>1. \A u \in Threads : \A k : At(u, k)' = At(u, k) /\ Arg(u)' = Arg(u) BY DEF At, Arg, Idle
<1>2. Fresh' => Fresh BY DEF Fresh, LineStays, RunStays, At, Idle
<1>3. ControlInv'
  <2>0. /\ StopInv /\ ForceInv /\ ForgetInv /\ DoneInv /\ DoneStays /\ pool'.stop = pool.stop
        /\ Stopped => Stopped'
        /\ shared.cancelled => shared'.cancelled
    BY DEF KeepInv, ControlInv, LineStays, RunStays
  <2>1. StopInv' BY <2>0 DEF StopInv, Has, Kind
  <2>2. ForceInv' BY <2>0 DEF ForceInv, Kind
  <2>3. ForgetInv' BY <2>0 DEF ForgetInv, Kind
  <2>4. Alive' => Alive BY <1>2 DEF Alive, LineStays, RunStays
  <2>5. DoneInv' BY <2>0, <2>4, DoneStep
  <2> QED BY <2>1, <2>2, <2>3, <2>5 DEF ControlInv
<1>4. ServedInv'
  <2>1. Claims("source")' = Claims("source") BY CountsNext DEF Claims, LineStays, SourceLine
  <2>3. Holders("source")' = Holders("source")
    BY DEF Holders, At, Arg, Idle
  <2>4. BackInv' BY <2>1, <2>3 DEF KeepInv, ServedInv, BackInv, LineStays
  <2>5. EntryInv'
    <3>1. \A u \in Threads : Serves(u)' <=> Serves(u) BY <1>1 DEF Serves
    <3> QED BY <3>1 DEF KeepInv, ServedInv, EntryInv, LineStays, SourceLine
  <2>6. FlusherInv'
    <3>1. \A u, i : Flushes(u, i, "source")' <=> Flushes(u, i, "source") BY DEF Flushes, Kind
    <3>2. \A u, i : Followed(u, i)' <=> Followed(u, i) BY DEF Followed
    <3>3. FollowInv' BY <3>1, <3>2 DEF KeepInv, ServedInv, FlusherInv, FollowInv
    <3>4. SomeFlush => SomeFlush' BY <3>1 DEF SomeFlush
    <3> QED BY <3>3, <3>4 DEF KeepInv, ServedInv, FlusherInv, LineStays, SourceLine
  <2> QED BY <2>4, <2>5, <2>6 DEF ServedInv
<1>5. \A S : Someone(S)' <=> Someone(S) BY DEF Someone, Holds
<1> QED BY <1>1, <1>3, <1>4, <1>5

LEMMA AwaitedStill ==
    ASSUME source' = source, pool'.ready = pool.ready, pool'.delayed = pool.delayed, todo' = todo
    PROVE  Awaited => Awaited'
<1>1. \A u \in Threads : Owes(u)' <=> Owes(u) BY DEF Owes, At, Arg, Idle
<1> QED BY <1>1 DEF Awaited, AnyReady, ReadyWake, DelayedWake

LEMMA KeepStill ==
    ASSUME KeepInv, SourceStays, todo' = todo
    PROVE  KeepInv'
<1>1. ControlInv' /\ ServedInv' /\ \A S : Someone(S)' <=> Someone(S)
  BY StillStays DEF SourceStays
<1>2. Awaited => Awaited' BY AwaitedStill DEF SourceStays
<1>3. (Tended => Tended') /\ (Tried => Tried')
  BY <1>1 DEF Tended, Tried, Returning, SourceStays, LineStays, SourceLine
<1>4. KeptInv' BY <1>2, <1>3, KeptMove DEF SourceStays, KeepInv
<1> QED BY <1>1, <1>4 DEF KeepInv

---------------------------------------------------------------------------
(* The actions that the source is not about.                                *)

LEMMA SourceSame ==
    ASSUME RunStays, DoneStays, InRun' => InRun, UNCHANGED <<paused, source>>,
           pool'.ready = pool.ready, pool'.delayed = pool.delayed, pool'.stop = pool.stop,
           node'["source"].line = node["source"].line,
           node'["source"].flushing = node["source"].flushing,
           node'["source"].opened = node["source"].opened
    PROVE  SourceStays
<1>1. Needed' => Needed BY DEF Needed
<1>2. Runs' = Runs BY DEF Runs, Places
<1> QED BY <1>1, <1>2 DEF SourceStays, LineStays, SourceLine

LEMMA Stays ==
    ASSUME UNCHANGED <<state, shared, source>>,
           node'["source"].closeStarted = node["source"].closeStarted
    PROVE  RunStays /\ DoneStays /\ (InRun' <=> InRun)
BY DEF RunStays, DoneStays, InRun, Stopped

LEMMA NodeSame ==
    ASSUME UNCHANGED <<state, shared, paused, source, pool>>, node'["source"] = node["source"]
    PROVE  SourceStays
BY Stays, SourceSame

\* What is written of another node.
LEMMA OtherNode ==
    ASSUME TypeOK, NEW n, n # "source", NEW v,
           \/ node' = [node EXCEPT ![n].line = v]
           \/ node' = [node EXCEPT ![n].line = v, ![n].flushing = TRUE]
           \/ node' = [node EXCEPT ![n].flushing = v]
    PROVE  node'["source"] = node["source"]
<1>1. node \in [Nodes -> [opened : BOOLEAN, closeStarted : BOOLEAN, closed : BOOLEAN,
                          line : Seq(Entries), flushing : BOOLEAN]]
  BY DEF TypeOK
<1>2. "source" \in Nodes BY DEF Nodes
<1> QED BY <1>1, <1>2

\* Each of a list's steps but these may come anywhere.
Flat(K) == K \cap {"stop", "forget", "initialized", "close", "flush", "release"} = {}

LEMMA KeepFlat ==
    ASSUME IInv, IInv', RestInv, KeepInv, SourceStays, NEW t \in Threads, NEW k, At(t, k),
           NEW steps, NEW K, Only(steps, K), Go(t, steps), Flat(K),
           k \notin TokenKinds \cup {"freed", "cancelled", "invalidate", "renew", "reschedule"},
           k \in SourceKinds \cup OwnKinds => Arg(t) # "source"
    PROVE  KeepInv'
<1>1. K \cap {"stop", "forget", "initialized", "close"} = {} BY DEF Flat
<1>2. \A i \in 1 .. Len(steps) : steps[i][1] \in {"flush", "release"} => steps[i][2] # "source"
  BY DEF Flat, Only
<1> QED BY <1>1, <1>2, KeepGo

LEMMA KeepRequest ==
    ASSUME IInv, IInv', RestInv, KeepInv, NEW t \in Threads, Request(t) \/ Arm(t)
    PROVE  KeepInv'
<1>1. SourceStays BY NodeSame DEF Request, Arm
<1>2. Go(t, <<>>) /\ Only(<<>>, {}) BY OnlyNil DEF Request, Arm
<1>3. At(t, "request") \/ At(t, "arm") BY DEF Request, Arm
<1>4. Flat({}) BY DEF Flat
<1>5. \A k \in {"request", "arm"} :
         k \notin OwnKinds \cup TokenKinds \cup SourceKinds
                  \cup {"freed", "cancelled", "invalidate", "renew", "reschedule"}
  BY DEF OwnKinds, TokenKinds, SourceKinds, LineKinds
<1> QED BY <1>1, <1>2, <1>3, <1>4, <1>5, KeepFlat

\* The other node is called, and what it returns is released.
LEMMA KeepSink ==
    ASSUME IInv, IInv', RestInv, KeepInv, NEW t \in Threads, Arg(t) # "source",
           Try(t) \/ Claim(t) \/ Submit(t) \/ Land(t) \/ Run(t) \/ Flush(t) \/ Release(t)
    PROVE  KeepInv'
<1> DEFINE n == Arg(t)
           K == {"claim", "submit", "try", "request", "arm", "resume?", "close?"}
<1>0. TypeOK BY DEF IInv
<1>1. CASE Try(t)
  <2>1. At(t, "try") /\ n \in Nodes BY <1>1, ArgNode DEF Try, NodeKinds
  <2>2. Only(<<<<"claim", n>>>>, {"claim"}) BY <2>1, OnlyOne, StepForms DEF NodeKinds
  <2>3. PICK steps : Go(t, steps) /\ Only(steps, {"claim"}) BY <1>1, <2>2, OnlyNil DEF Try
  <2>4. SourceStays BY <1>1, NodeSame DEF Try
  <2>5. Flat({"claim"}) BY DEF Flat
  <2> QED BY <2>1, <2>3, <2>4, <2>5, KeepFlat DEF OwnKinds, TokenKinds
<1>2. CASE Claim(t)
  <2>1. At(t, "claim") /\ n \in Nodes BY <1>2, ArgNode DEF Claim, NodeKinds
  <2>2. Only(<<<<"submit", n>>, <<"try", n>>>>, {"submit", "try"})
    BY <2>1, OnlyTwo, StepForms DEF NodeKinds
  <2>3. PICK steps : Go(t, steps) /\ Only(steps, {"submit", "try"}) BY <1>2, <2>2, OnlyNil DEF Claim
  <2>4. node'["source"] = node["source"]
    <3>1. node' = node \/ node' = [node EXCEPT ![n].line = Append(node[n].line, "claimed")]
      BY <1>2 DEF Claim
    <3> QED BY <1>0, <3>1, OtherNode
  <2>5. SourceStays BY <1>2, <2>4, NodeSame DEF Claim
  <2>6. Flat({"submit", "try"}) BY DEF Flat
  <2> QED BY <2>1, <2>3, <2>5, <2>6, KeepFlat DEF OwnKinds, TokenKinds
<1>3. CASE Submit(t)
  <2>1. At(t, "submit") /\ n = "sink" BY <1>3, ArgNode DEF Submit, NodeKinds, Nodes
  <2>2. Go(t, RequestWakeup) /\ UNCHANGED <<state, shared, paused, source, pool, node>>
    BY <1>3, <2>1 DEF Submit
  <2>3. SourceStays BY <2>2, NodeSame
  <2>4. Flat(AfterTask) BY DEF Flat, AfterTask
  <2> QED BY <2>1, <2>2, <2>3, <2>4, OnlyWakeup, KeepFlat DEF OwnKinds, TokenKinds
<1>4. CASE Land(t)
  <2> DEFINE l == [node[n].line EXCEPT ![CHOOSE i \in DOMAIN node[n].line : node[n].line[i] = t]
                       = Head(todo[t])[3]]
             L == {"flush", "resume?", "try", "close?"}
  <2>1. At(t, "land") /\ n \in Nodes BY <1>4, ArgNode DEF Land
  <2>2. node' = [node EXCEPT ![n].line = l, ![n].flushing = TRUE] BY <1>4 DEF Land
  <2> HIDE DEF l
  <2>3. node'["source"] = node["source"] BY <1>0, <2>2, OtherNode
  <2>4. SourceStays BY <1>4, <2>3, NodeSame DEF Land
  <2>5. PICK first : /\ Only(first, L) /\ Go(t, first \o Finish(n))
                     /\ \A i \in 1 .. Len(first) : first[i][2] = n
    <3>1. Only(<<<<"flush", n>>>>, L) BY <2>1, OnlyOne, StepForms DEF NodeKinds
    <3>2. Only(<<>>, L) BY OnlyNil
    <3>3. \A i \in 1 .. Len(<<<<"flush", n>>>>) : <<<<"flush", n>>>>[i][2] = n OBVIOUS
    <3> HIDE DEF L, n
    <3> QED BY <1>4, <3>1, <3>2, <3>3, NoSteps DEF Land, n
  <2>6. Only(Finish(n), {"resume?", "try", "close?"}) BY <2>1, OnlyFinish
  <2>7. Only(first \o Finish(n), L)
    <3>1. Only(Finish(n), L) BY <2>6, OnlyMore
    <3> QED BY <2>5, <3>1, OnlyConcat
  <2>8. \A i \in 1 .. Len(first \o Finish(n)) :
           (first \o Finish(n))[i][1] \in {"flush", "release"} => (first \o Finish(n))[i][2] # "source"
    <3> HIDE DEF n, L
    <3>1. first \in Seq(Steps) /\ Finish(n) \in Seq(Steps) BY <2>5, <2>6 DEF Only
    <3>2. \A i \in 1 .. Len(first \o Finish(n)) :
             \/ \E j \in 1 .. Len(first) : (first \o Finish(n))[i] = first[j]
             \/ \E j \in 1 .. Len(Finish(n)) : (first \o Finish(n))[i] = Finish(n)[j]
      BY SMTT(30), <3>1, Concats
    <3>3. \A j \in 1 .. Len(Finish(n)) : Finish(n)[j][1] \notin {"flush", "release"} BY <2>6 DEF Only
    <3>4. n # "source" BY DEF n
    <3> SUFFICES ASSUME NEW i \in 1 .. Len(first \o Finish(n)),
                        (first \o Finish(n))[i][1] \in {"flush", "release"}
                 PROVE  (first \o Finish(n))[i][2] # "source"
      OBVIOUS
    <3>5. PICK j \in 1 .. Len(first) : (first \o Finish(n))[i] = first[j] BY <3>2, <3>3
    <3> QED BY <2>5, <3>4, <3>5
  <2>9. L \cap {"stop", "forget", "initialized", "close"} = {} OBVIOUS
  <2>10. PICK steps : steps = first \o Finish(n) OBVIOUS
  <2>11. /\ Only(steps, L) /\ Go(t, steps) /\ At(t, "land")
         /\ \A i \in 1 .. Len(steps) : steps[i][1] \in {"flush", "release"} => steps[i][2] # "source"
    <3> HIDE DEF L, n
    <3> QED BY <2>1, <2>5, <2>7, <2>8, <2>10
  <2>12. "land" \notin TokenKinds \cup {"freed", "cancelled", "invalidate", "renew", "reschedule"}
    BY DEF TokenKinds
  <2> HIDE DEF L
  <2> QED BY <2>4, <2>9, <2>11, <2>12, KeepGo
<1>5. CASE Run(t)
  <2> DEFINE step == IF Stopped THEN <<"land", n, "landed">> ELSE <<"process", n>>
             l == [node[n].line EXCEPT ![FirstClaimed(n)] = t]
  <2>1. At(t, "run") /\ n \in Nodes BY <1>5, ArgNode DEF Run, NodeKinds
  <2>2. step \in Steps /\ step[1] \in {"land", "process"} BY <2>1, StepForms DEF NodeKinds
  <2>3. Only(<<step>>, {"land", "process"}) BY <2>2, OnlyOne
  <2>4. node' = [node EXCEPT ![n].line = l] BY <1>5, <2>1 DEF Run
  <2> HIDE DEF l
  <2>5. node'["source"] = node["source"] BY <1>0, <2>4, OtherNode
  <2>6. SourceStays BY <1>5, <2>5, NodeSame DEF Run
  <2>7. Go(t, <<step>>) BY <1>5 DEF Run
  <2>8. Flat({"land", "process"}) BY DEF Flat
  <2> HIDE DEF step
  <2> QED BY <2>1, <2>3, <2>6, <2>7, <2>8, KeepFlat DEF OwnKinds, TokenKinds
<1>6. CASE Flush(t)
  <2> DEFINE e == <<<<"try", "sink">>, <<"release", n>>>>
  <2>1. At(t, "flush") /\ n \in Nodes BY <1>6, ArgNode DEF Flush, NodeKinds
  <2>2. UNCHANGED <<state, shared, paused, source, pool>> BY <1>6 DEF Flush
  <2>3. CASE node' = node /\ Go(t, e)
    <3>1. Only(e, {"try", "release"}) BY <2>1, OnlyFlush
    <3>2. SourceStays BY <2>2, <2>3, NodeSame
    <3>3. \A i \in 1 .. Len(e) : e[i][1] \in {"flush", "release"} => e[i][2] # "source" OBVIOUS
    <3> HIDE DEF e
    <3> QED BY <2>1, <2>3, <3>1, <3>2, <3>3, KeepGo DEF OwnKinds, TokenKinds
  <2>4. CASE node' = [node EXCEPT ![n].line = Tail(node[n].line)] /\ todo' = todo
    <3>1. node'["source"] = node["source"] BY <1>0, <2>4, OtherNode
    <3> QED BY <2>2, <2>4, <3>1, NodeSame, KeepStill
  <2>5. CASE node' = [node EXCEPT ![n].flushing = FALSE] /\ Go(t, <<>>)
    <3>1. node'["source"] = node["source"] BY <1>0, <2>5, OtherNode
    <3>2. SourceStays BY <2>2, <3>1, NodeSame
    <3>3. Flat({}) BY DEF Flat
    <3> QED BY <2>1, <2>5, <3>2, <3>3, OnlyNil, KeepFlat DEF OwnKinds, TokenKinds
  <2> QED BY <1>6, <2>3, <2>4, <2>5 DEF Flush
<1>7. CASE Release(t)
  <2>1. At(t, "release") /\ n \in Nodes BY <1>7, ArgNode DEF Release, NodeKinds
  <2>2. node' = [node EXCEPT ![n].line = Tail(node[n].line)] BY <1>7, <2>1 DEF Release
  <2>3. node'["source"] = node["source"] BY <1>0, <2>2, OtherNode
  <2>4. SourceStays BY <1>7, <2>3, NodeSame DEF Release
  <2>5. Go(t, <<<<"flush", n>>>>) /\ Only(<<<<"flush", n>>>>, {"flush"})
    BY <1>7, <2>1, OnlyOne, StepForms DEF Release, NodeKinds
  <2>6. \A i \in 1 .. Len(<<<<"flush", n>>>>) : <<<<"flush", n>>>>[i][2] # "source" OBVIOUS
  <2> QED BY <2>1, <2>4, <2>5, <2>6, KeepGo DEF OwnKinds, TokenKinds
<1> QED BY <1>1, <1>2, <1>3, <1>4, <1>5, <1>6, <1>7

---------------------------------------------------------------------------
(* Closes, and what the workers and the host do besides.                    *)

LEMMA KeepCloses ==
    ASSUME IInv, IInv', RestInv, KeepInv, NEW t \in Threads,
           CloseLook(t) \/ CloseClaim(t) \/ Close(t) \/ EndOfStream(t)
    PROVE  KeepInv'
<1> DEFINE n == Arg(t)
<1>0. TypeOK /\ ListsOK BY DEF IInv
<1>1. CASE CloseLook(t)
  <2>1. At(t, "close?") /\ n \in Nodes BY <1>1, ArgNode DEF CloseLook, NodeKinds
  <2>2. Stopped \in BOOLEAN BY <1>0 DEF TypeOK, Stopped
  <2>3. PICK step : step = <<"close", n, Stopped>> OBVIOUS
  <2>4. step \in Steps /\ step[1] = "close" /\ step[3] = Stopped BY <2>1, <2>2, <2>3, StepForms
  <2>5. PICK steps : steps = <<step>> OBVIOUS
  <2>6. steps \in Seq(Steps) BY <2>4, <2>5, Lists
  <2>7. Go(t, steps) BY <1>1, <2>3, <2>5 DEF CloseLook
  <2>8. SourceStays BY <1>1, NodeSame DEF CloseLook
  <2>9. \A i \in 1 .. Len(steps) : steps[i] = step BY <2>5
  <2>10. Stopped' = Stopped BY <1>1 DEF CloseLook, Stopped
  <2>11. \A i \in 1 .. Len(steps) : QuietThen(steps[i]) BY <2>4, <2>9, <2>10 DEF QuietThen
  <2>12. /\ Advances(t, steps, Len(todo[t]) - 1) /\ todo[t][1][1] = "close?"
    BY <1>0, <2>1, <2>6, <2>7, GoAdvances DEF Kind
  <2>13. QuietFirst(todo[t][1]) /\ GoesOn(t, steps)
    BY <2>12 DEF QuietFirst, GoesOn, OwnKinds, TokenKinds, SourceKinds, LineKinds
  <2> QED BY <2>8, <2>11, <2>12, <2>13, KeepStep
<1>2. CASE CloseClaim(t)
  <2>1. At(t, "close") /\ n \in Nodes BY <1>2, ArgNode DEF CloseClaim
  <2>2. Only(<<<<"closing", n>>>>, {"closing"}) BY <2>1, OnlyOne, StepForms DEF NodeKinds
  <2>3. PICK steps : Go(t, steps) /\ Only(steps, {"closing"}) BY <1>2, <2>2, OnlyNil DEF CloseClaim
  <2>4. UNCHANGED <<state, shared, paused, source, pool>> BY <1>2 DEF CloseClaim
  <2>5. SourceStays
    <3>1. CASE node' = node BY <2>4, <3>1, NodeSame
    <3>2. CASE /\ node' = [node EXCEPT ![n].closeStarted = TRUE]
               /\ Head(todo[t])[3] \/ Drained(n)
      <4>1. /\ node'["source"].line = node["source"].line
            /\ node'["source"].flushing = node["source"].flushing
            /\ node'["source"].opened = node["source"].opened
            /\ n # "source" => node'["source"].closeStarted = node["source"].closeStarted
        BY <1>0, <2>1, <3>2, StartedChange DEF Nodes
      <4>2. Head(todo[t])[3] => Stopped
        <5>1. /\ 1 \in 1 .. Len(todo[t]) /\ Kind(t, 1) = "close" /\ Head(todo[t]) = todo[t][1]
          BY <1>0, <2>1, AtFirst
        <5> QED BY <5>1 DEF KeepInv, ControlInv, ForceInv
      <4>3. RunStays /\ (InRun' => InRun) /\ Stopped' = Stopped BY <2>4 DEF RunStays, InRun, Stopped
      <4>4. DoneStays
        <5>1. n = "source" => Stopped' \/ source.done BY <3>2, <4>2, <4>3 DEF Drained
        <5> QED BY <2>4, <4>1, <5>1 DEF DoneStays
      <4> QED BY <2>4, <4>1, <4>3, <4>4, SourceSame
    <3> QED BY <1>2, <3>1, <3>2 DEF CloseClaim
  <2>6. Flat({"closing"}) BY DEF Flat
  <2> QED BY <2>1, <2>3, <2>5, <2>6, KeepFlat DEF OwnKinds, TokenKinds, SourceKinds, LineKinds
<1>3. CASE Close(t)
  <2>1. At(t, "closing") /\ n \in Nodes BY <1>3, ArgNode DEF Close, NodeKinds
  <2>2. Only(<<<<"end">>>>, {"end"}) BY OnlyOne, StepForms DEF PlainKinds
  <2>3. PICK steps : Go(t, steps) /\ Only(steps, {"end"}) BY <1>3, <2>2, OnlyNil DEF Close
  <2>4. /\ node'["source"].line = node["source"].line
        /\ node'["source"].flushing = node["source"].flushing
        /\ node'["source"].opened = node["source"].opened
        /\ node'["source"].closeStarted = node["source"].closeStarted
    BY <1>0, <1>3, <2>1, ClosedChange DEF Close, Nodes
  <2>5. /\ shared'.cancelled = shared.cancelled
        /\ shared.error => shared'.error
    BY <1>0, <1>3 DEF Close, TypeOK
  <2>6. UNCHANGED <<state, paused, source, pool>> BY <1>3 DEF Close
  <2>7. RunStays /\ DoneStays /\ (InRun' => InRun)
    BY <2>4, <2>5, <2>6 DEF RunStays, DoneStays, InRun, Stopped
  <2>8. SourceStays BY <2>4, <2>6, <2>7, SourceSame
  <2>9. Flat({"end"}) BY DEF Flat
  <2> QED BY <2>1, <2>3, <2>8, <2>9, KeepFlat DEF OwnKinds, TokenKinds, SourceKinds, LineKinds
<1>4. CASE EndOfStream(t)
  <2> DEFINE K == {"try", "request", "arm"}
  <2>1. At(t, "end") BY <1>4 DEF EndOfStream
  <2>2. Only(<<<<"try", "sink">>>>, K) BY OnlyOne, StepForms DEF NodeKinds, Nodes
  <2>3. Only(RequestWakeup, K) BY OnlyWakeup, OnlyMore DEF AfterTask
  <2>4. Only(<<<<"try", "sink">>>> \o RequestWakeup, K) BY <2>2, <2>3, OnlyConcat
  <2>5. Go(t, <<<<"try", "sink">>>> \o RequestWakeup) BY <1>4 DEF EndOfStream
  <2>6. SourceStays BY <1>4, NodeSame DEF EndOfStream
  <2>7. Flat(K) BY DEF Flat
  <2> HIDE DEF K
  <2> QED BY <2>1, <2>4, <2>5, <2>6, <2>7, KeepFlat DEF OwnKinds, TokenKinds, SourceKinds, LineKinds
<1> QED BY <1>1, <1>2, <1>3, <1>4

LEMMA KeepCompleted ==
    ASSUME IInv, IInv', RestInv, KeepInv, NEW w \in Workers, Completed(w) \/ Exit(w)
    PROVE  KeepInv'
<1>0. w \in Threads /\ TypeOK BY DEF Threads, IInv
<1>1. SourceStays
  <2>1. pool'.ready = pool.ready /\ pool'.delayed = pool.delayed /\ pool'.stop = pool.stop
    BY <1>0 DEF Completed, Exit, TypeOK
  <2>2. UNCHANGED <<state, shared, paused, source, node>> BY DEF Completed, Exit
  <2> QED BY <2>1, <2>2, Stays, SourceSame
<1>2. CASE Completed(w)
  <2>1. Go(w, RequestWakeup) /\ At(w, "completed") BY <1>2 DEF Completed
  <2>2. Flat(AfterTask) BY DEF Flat, AfterTask
  <2> QED BY <1>0, <1>1, <2>1, <2>2, OnlyWakeup, KeepFlat DEF OwnKinds, TokenKinds, SourceKinds, LineKinds
<1>3. CASE Exit(w) BY <1>1, <1>3, KeepStill DEF Exit
<1> QED BY <1>2, <1>3

\* What the host does while it pumps and waits.
LookKinds ==
    {"request", "arm", "pump", "task", "ended", "pumped", "again?", "wait", "done?", "idle?", "more?"}

LEMMA LookLists ==
    /\ Only(RequestWakeup, LookKinds) /\ Only(Wait, LookKinds) /\ Only(<<>>, LookKinds)
    /\ Only(PumpStep \o <<<<"pumped">>>>, LookKinds) /\ Only(PumpStep \o <<<<"done?">>>>, LookKinds)
    /\ \A k \in LookKinds : Only(<<<<k>>>>, LookKinds)
    /\ Flat(LookKinds)
<1>1. Only(RequestWakeup, LookKinds) BY OnlyWakeup, OnlyMore DEF AfterTask, LookKinds
<1>2. ASSUME NEW k \in LookKinds PROVE Only(<<<<k>>>>, LookKinds)
  <2>1. <<k>> \in Steps BY StepForms DEF LookKinds, PlainKinds
  <2>2. <<k>>[1] \in LookKinds OBVIOUS
  <2> QED BY <2>1, <2>2, OnlyOne
<1>3. {"wait", "pumped", "done?", "task", "ended"} \subseteq LookKinds BY DEF LookKinds
<1>4. Only(PumpStep, LookKinds)
  <2>1. <<"task">> \in Steps /\ <<"ended">> \in Steps BY StepForms DEF PlainKinds
  <2>2. <<"task">>[1] \in LookKinds /\ <<"ended">>[1] \in LookKinds BY <1>3
  <2> QED BY <2>1, <2>2, OnlyTwo DEF PumpStep
<1>5. Only(PumpStep \o <<<<"pumped">>>>, LookKinds) /\ Only(PumpStep \o <<<<"done?">>>>, LookKinds)
  BY <1>2, <1>3, <1>4, OnlyConcat
<1>6. Only(Wait, LookKinds) BY <1>2, <1>3 DEF Wait
<1>7. Flat(LookKinds) BY DEF Flat, LookKinds
<1> QED BY <1>1, <1>2, <1>5, <1>6, <1>7, OnlyNil

LEMMA KeepLooks ==
    ASSUME IInv, IInv', RestInv, KeepInv,
           Pump \/ Pumped \/ Rearm \/ WaitStep \/ WaitMore \/ WaitLook \/ Ended \/ WaitIdle
    PROVE  KeepInv'
<1>1. Host \in Threads BY DEF Threads
<1>2. "pump" \in LookKinds /\ "again?" \in LookKinds /\ "idle?" \in LookKinds /\ "more?" \in LookKinds
  BY DEF LookKinds
<1>3. PICK steps : \E k \in LookKinds : At(Host, k) /\ Go(Host, steps) /\ Only(steps, LookKinds)
  <2>1. CASE Pump BY <2>1, LookLists DEF Pump, LookKinds
  <2>2. CASE Pumped BY <1>2, <2>2, LookLists DEF Pumped, LookKinds
  <2>3. CASE Rearm BY <2>3, LookLists DEF Rearm, LookKinds
  <2>4. CASE WaitStep BY <2>4, LookLists DEF WaitStep, LookKinds
  <2>5. CASE WaitMore BY <2>5, LookLists DEF WaitMore, LookKinds
  <2>6. CASE WaitLook BY <1>2, <2>6, LookLists DEF WaitLook, LookKinds
  <2>7. CASE Ended BY <2>7, LookLists DEF Ended, LookKinds
  <2>8. CASE WaitIdle BY <1>2, <2>8, LookLists DEF WaitIdle
  <2> QED BY <2>1, <2>2, <2>3, <2>4, <2>5, <2>6, <2>7, <2>8
<1>4. SourceStays
  <2>1. state' \in {state, "Terminated"} /\ UNCHANGED <<shared, paused, node, source, pool>>
    BY DEF Pump, Pumped, Rearm, WaitStep, WaitMore, WaitLook, Ended, WaitIdle
  <2>2. RunStays /\ DoneStays /\ (InRun' => InRun)
    BY <2>1 DEF RunStays, DoneStays, InRun, Stopped, Live
  <2> QED BY <2>1, <2>2, SourceSame
<1>5. \A k \in LookKinds :
         k \notin TokenKinds \cup OwnKinds \cup SourceKinds
                  \cup {"freed", "cancelled", "invalidate", "renew", "reschedule"}
  BY DEF LookKinds, TokenKinds, OwnKinds, SourceKinds, LineKinds
<1> QED BY <1>1, <1>3, <1>4, <1>5, LookLists, KeepFlat

LEMMA KeepTask ==
    ASSUME IInv, IInv', RestInv, KeepInv, Task \/ Retire \/ Join \/ Drop
    PROVE  KeepInv'
<1> DEFINE K == {"run", "retire", "close?"}
<1>0. Host \in Threads /\ TypeOK BY DEF Threads, IInv
<1>1. PICK steps : \E k \in {"task", "retire", "join", "drop"} :
                      At(Host, k) /\ Go(Host, steps) /\ Only(steps, K)
  <2>1. CASE Task
    <3>1. Only(<<<<"run", "sink">>, <<"retire">>>>, K)
      <4>1. <<"run", "sink">> \in Steps /\ <<"retire">> \in Steps
        BY StepForms DEF NodeKinds, PlainKinds, Nodes
      <4> QED BY <4>1, OnlyTwo
    <3>2. ASSUME NEW n \in Nodes PROVE Only(MaybeClose(n), K)
      BY OnlyOne, StepForms DEF NodeKinds, MaybeClose
    <3>3. Only(MaybeClose("source") \o MaybeClose("sink"), K) BY <3>2, OnlyConcat DEF Nodes
    <3> HIDE DEF K
    <3> QED BY <2>1, <3>1, <3>3 DEF Task
  <2>2. CASE Retire \/ Join \/ Drop
    <3> HIDE DEF K
    <3> QED BY <2>2, OnlyNil DEF Retire, Join, Drop
  <2> QED BY <2>1, <2>2
<1>2. SourceStays
  <2>1. CASE Task \/ Retire \/ Join BY <2>1, NodeSame DEF Task, Retire, Join
  <2>2. CASE Drop
    <3>1. /\ node'["source"].line = node["source"].line
          /\ node'["source"].flushing = node["source"].flushing
          /\ node'["source"].opened = node["source"].opened
          /\ node'["source"].closeStarted = node["source"].closeStarted
      BY <1>0, <2>2, DroppedChange DEF Drop, Nodes
    <3>2. UNCHANGED <<state, shared, paused, source, pool>> BY <2>2 DEF Drop
    <3> QED BY <3>1, <3>2, Stays, SourceSame
  <2> QED BY <2>1, <2>2
<1>3. Flat(K) BY DEF Flat
<1>4. \A k \in {"task", "retire", "join", "drop"} :
         k \notin TokenKinds \cup OwnKinds \cup SourceKinds
                  \cup {"freed", "cancelled", "invalidate", "renew", "reschedule"}
  BY DEF TokenKinds, OwnKinds, SourceKinds, LineKinds
<1> HIDE DEF K
<1> QED BY <1>0, <1>1, <1>2, <1>3, <1>4, KeepFlat

LEMMA KeepSinkReturn ==
    ASSUME IInv, IInv', RestInv, KeepInv, SinkReturn
    PROVE  KeepInv'
<1> DEFINE n == Arg(Host)
<1>0. Host \in Threads /\ ListsOK BY DEF Threads, IInv
<1>1. At(Host, "process") /\ n \in Nodes BY <1>0, ArgNode DEF SinkReturn, NodeKinds
<1>2. PICK step : step = <<"land", n, "landed">> OBVIOUS
<1>3. step \in Steps /\ step[1] = "land" /\ step[2] = n BY <1>1, <1>2, StepForms
<1>4. PICK steps : steps = <<step>> OBVIOUS
<1>5. steps \in Seq(Steps) /\ Len(steps) >= 1 /\ \A i \in 1 .. Len(steps) : steps[i] = step
  BY <1>3, <1>4, Lists
<1>6. Go(Host, steps) BY <1>2, <1>4 DEF SinkReturn
<1>7. SourceStays BY NodeSame DEF SinkReturn
<1>8. \A i \in 1 .. Len(steps) : QuietThen(steps[i]) BY <1>3, <1>5 DEF QuietThen
<1>9. Advances(Host, steps, Len(todo[Host]) - 1) /\ todo[Host][1][1] = "process" /\ n = todo[Host][1][2]
  BY <1>0, <1>1, <1>5, <1>6, GoAdvances DEF Kind
<1>10. QuietFirst(todo[Host][1])
  BY <1>9 DEF QuietFirst, TokenKinds, SourceKinds, LineKinds
<1>11. GoesOn(Host, steps)
  <2>1. steps[1] = step BY <1>4
  <2> QED BY <1>3, <1>5, <1>9, <2>1 DEF GoesOn, OwnKinds
<1> HIDE DEF n
<1> QED BY <1>0, <1>7, <1>8, <1>9, <1>10, <1>11, KeepStep

\* Calls of the host.
LEMMA KeepCalls ==
    ASSUME IInv, IInv', RestInv, KeepInv, EventLoop \/ SetCallback \/ WaitDone
    PROVE  KeepInv'
<1>1. Host \in Threads BY DEF Threads
<1>2. SourceStays BY NodeSame DEF EventLoop, SetCallback, WaitDone
<1>3. "pump" \in LookKinds BY DEF LookKinds
<1>4. PICK steps : Idle(Host) /\ Call(Host, steps) /\ Only(steps, LookKinds)
  BY <1>3, LookLists DEF EventLoop, SetCallback, WaitDone
<1> QED BY <1>1, <1>2, <1>4, LookLists, KeepCall DEF Flat

LEMMA KeepPause ==
    ASSUME KeepInv, Pause \/ UNCHANGED vars
    PROVE  KeepInv'
<1>1. CASE Pause
  <2>1. UNCHANGED <<state, shared, node, source, pool, todo>> /\ paused' BY <1>1 DEF Pause
  <2>2. LineStays
    <3>1. RunStays /\ DoneStays BY <2>1, Stays
    <3> QED BY <2>1, <3>1 DEF LineStays, SourceLine, Runs, Places
  <2>3. ControlInv' /\ ServedInv' /\ \A S : Someone(S)' <=> Someone(S) BY <2>1, <2>2, StillStays
  <2>4. Awaited => Awaited' BY <2>1, AwaitedStill
  <2>5. Tended => Tended' BY <2>1, <2>3 DEF Tended, Returning, SourceLine
  <2>6. Needed' => Needed BY <2>1 DEF Needed, InRun, Stopped
  <2>7. KeptInv' BY <2>1, <2>4, <2>5, <2>6 DEF KeepInv, KeptInv, Waits, Tries
  <2> QED BY <2>3, <2>7 DEF KeepInv
<1>2. CASE UNCHANGED vars
  <2>1. SourceStays BY <1>2, NodeSame DEF vars
  <2> QED BY <1>2, <2>1, KeepStill DEF vars
<1> QED BY <1>1, <1>2

---------------------------------------------------------------------------
(* The turns of the source.                                                 *)

LEMMA LineSame ==
    ASSUME UNCHANGED <<state, shared, pool, node>>, source.done => source'.done
    PROVE  LineStays /\ (Needed' => Needed) /\ (InRun' <=> InRun) /\ (Returning' <=> Returning)
<1>1. RunStays /\ (InRun' <=> InRun) BY DEF RunStays, InRun, Stopped
<1>2. DoneStays BY DEF DoneStays
<1>3. Runs' = Runs BY DEF Runs, Places
<1>4. Needed' => Needed BY <1>1 DEF Needed
<1>5. Returning' <=> Returning BY DEF Returning, SourceLine
<1> QED BY <1>1, <1>2, <1>3, <1>4, <1>5 DEF LineStays, SourceLine

LEMMA LineGo ==
    ASSUME IInv, IInv', RestInv, KeepInv, LineStays, NEW t \in Threads, NEW k, At(t, k),
           NEW steps, NEW K, Only(steps, K), Go(t, steps), Flat(K),
           k \notin {"freed", "cancelled", "invalidate", "renew"} \cup OwnKinds,
           k \in LineKinds => Arg(t) # "source"
    PROVE  /\ ControlInv' /\ ServedInv'
           /\ Advances(t, steps, Len(todo[t]) - 1) /\ Len(todo[t]) \in Nat /\ Len(todo[t]) >= 1
           /\ todo[t][1][1] = k /\ Arg(t) = todo[t][1][2] /\ todo[t][1] \in Steps
<1>1. K \cap {"stop", "forget", "initialized", "close"} = {} BY DEF Flat
<1>2. \A i \in 1 .. Len(steps) : steps[i][1] \in {"flush", "release"} => steps[i][2] # "source"
  BY DEF Flat, Only
<1>3. /\ Advances(t, steps, Len(todo[t]) - 1) /\ Len(todo[t]) \in Nat /\ Len(todo[t]) >= 1
      /\ todo[t][1][1] = k /\ Arg(t) = todo[t][1][2] /\ todo[t][1] \in Steps
      /\ GoesOn(t, steps) /\ \A i \in 1 .. Len(steps) : QuietThen(steps[i])
  BY <1>1, <1>2, GoFacts
<1>4. LineFirst(todo[t][1]) BY <1>3 DEF LineFirst
<1>5. ControlInv' /\ ServedInv' BY <1>3, <1>4, LineStep
<1> QED BY <1>3, <1>5

\* The kinds of the steps that are looked at by name.
LEMMA NamedSteps ==
    /\ \A s \in TrySteps : s[1] \in {"try", "claim", "woken"} /\ s[2] = "source"
    /\ \A s \in TendSteps : s[1] \in {"resume?", "reschedule"}
    /\ <<"try", "source">> \in TrySteps /\ <<"claim", "source">> \in TrySteps
    /\ <<"woken", "source">> \in TrySteps /\ <<"reschedule">> \in TendSteps
BY DEF TrySteps, TendSteps

LEMMA OwesNot ==
    ASSUME NEW t, NEW k, At(t, k), k \notin TokenKinds
    PROVE  ~Owes(t)
BY DEF Owes, At, TokenKinds

\* One step is pushed.
LEMMA HoldsOne ==
    ASSUME ListsOK, NEW t \in Threads, NEW a, NEW steps, steps = <<a>>, NEW r, Advances(t, steps, r),
           NEW S, a \in S
    PROVE  Someone(S)'
<1>1. 1 \in 1 .. Len(steps) /\ steps[1] = a OBVIOUS
<1>2. \E i \in 1 .. Len(steps) : steps[i] \in S BY <1>1
<1> QED BY <1>2, HoldsMove

LEMMA KeepTry ==
    ASSUME IInv, IInv', RestInv, KeepInv, NEW t \in Threads, Try(t), Arg(t) = "source"
    PROVE  KeepInv'
<1>0. ListsOK /\ KeptInv BY DEF IInv, KeepInv
<1>1. At(t, "try") /\ UNCHANGED <<state, shared, paused, node, source, pool>> BY DEF Try
<1>2. Only(<<<<"claim", "source">>>>, {"claim"})
  <2>1. <<"claim", "source">> \in Steps BY StepForms DEF NodeKinds, Nodes
  <2> QED BY <2>1, OnlyOne
<1>3. PICK steps : /\ Go(t, steps) /\ Only(steps, {"claim"})
                   /\ ~Stopped /\ ~paused => steps = <<<<"claim", "source">>>>
  BY <1>2, OnlyNil DEF Try
<1>4. LineStays /\ (Needed' => Needed) /\ (Returning' <=> Returning) BY <1>1, LineSame
<1>5. /\ ControlInv' /\ ServedInv' /\ Advances(t, steps, Len(todo[t]) - 1)
      /\ todo[t][1][1] = "try"
  <2>1. Flat({"claim"}) BY DEF Flat
  <2>2. "try" \notin {"freed", "cancelled", "invalidate", "renew"} \cup OwnKinds \cup LineKinds
    BY DEF OwnKinds, LineKinds
  <2> QED BY <1>1, <1>3, <1>4, <2>1, <2>2, LineGo
<1>6. Needed' /\ ~paused => Tried'
  <2>1. Needed' => ~Stopped BY <1>4 DEF Needed, InRun
  <2>2. ~Stopped /\ ~paused => Someone(TrySteps)'
    BY <1>0, <1>3, <1>5, NamedSteps, HoldsOne
  <2> QED BY <2>1, <2>2 DEF Tried
<1>7. KeptInv'
  <2>1. ~Owes(t) BY <1>1, OwesNot DEF TokenKinds
  <2>2. todo[t][1] \notin TendSteps BY <1>5, NamedSteps
  <2> QED BY <1>0, <1>1, <1>4, <1>5, <1>6, <2>1, <2>2, KeptTurn
<1> QED BY <1>5, <1>7 DEF KeepInv

\* A claim that is not taken: the source waits, or its slots are taken.
LEMMA KeepClaimNot ==
    ASSUME IInv, IInv', RestInv, KeepInv, NEW t \in Threads, Claim(t), Arg(t) = "source",
           ~(/\ node["source"].opened /\ ~node["source"].closeStarted
             /\ Len(node["source"].line) < Slots("source") /\ Ready("source"))
    PROVE  KeepInv'
<1>0. TypeOK /\ ListsOK /\ KeptInv /\ DoneInv BY DEF IInv, KeepInv, ControlInv
<1>1. At(t, "claim") /\ UNCHANGED <<state, shared, paused, node, source, pool>> /\ Go(t, <<>>)
  BY DEF Claim
<1>2. LineStays /\ (Needed' => Needed) /\ (Returning' <=> Returning) BY <1>1, LineSame
<1>3. /\ ControlInv' /\ ServedInv' /\ Advances(t, <<>>, Len(todo[t]) - 1)
      /\ todo[t][1][1] = "claim"
  <2>1. Flat({}) BY DEF Flat
  <2>2. "claim" \notin {"freed", "cancelled", "invalidate", "renew"} \cup OwnKinds \cup LineKinds
    BY DEF OwnKinds, LineKinds
  <2> QED BY <1>1, <1>2, <2>1, <2>2, OnlyNil, LineGo
<1>4. Needed' /\ ~source.waiting => Tried'
  <2> SUFFICES ASSUME Needed', ~source.waiting PROVE Returning
    BY <1>2 DEF Tried
  <2>1. InRun /\ node["source"].opened /\ ~source.done BY <1>2 DEF Needed
  <2>2. ~node["source"].closeStarted BY <1>0, <2>1 DEF DoneInv, Alive, InRun
  <2>3. Ready("source") BY <2>1 DEF Ready
  <2>4. ~(Len(SourceLine) < MaxInFlight) BY <2>1, <2>2, <2>3 DEF Slots, SourceLine
  <2>5. MaxInFlight \in Nat \ {0} BY SlotsAssumption
  <2>6. SourceLine = <<>> => Len(SourceLine) = 0 OBVIOUS
  <2>7. SourceLine # <<>> BY <2>4, <2>5, <2>6
  <2> QED BY <2>7 DEF Returning
<1>5. KeptInv'
  <2>1. ~Owes(t) BY <1>1, OwesNot DEF TokenKinds
  <2>2. todo[t][1] \notin TendSteps BY <1>3, NamedSteps
  <2> QED BY <1>0, <1>1, <1>2, <1>3, <1>4, <2>1, <2>2, KeptTurn
<1> QED BY <1>3, <1>5 DEF KeepInv

LEMMA KeepWake ==
    ASSUME IInv, IInv', RestInv, KeepInv, NEW w \in Workers, Wake(w)
    PROVE  KeepInv'
<1>0. ListsOK /\ TypeOK /\ KeptInv /\ w \in Threads BY DEF IInv, KeepInv, Threads
<1>1. At(w, "wake") /\ UNCHANGED <<state, shared, paused, node, pool>> BY DEF Wake
<1>2. "wake" \notin {"freed", "cancelled", "invalidate", "renew"} \cup OwnKinds \cup LineKinds
  BY DEF OwnKinds, LineKinds
<1>3. CASE source.generation # Arg(w)
  <2>1. Go(w, <<>>) /\ source' = source BY <1>3 DEF Wake
  <2>2. LineStays /\ (Needed' => Needed) /\ (Returning' <=> Returning) BY <1>1, <2>1, LineSame
  <2>3. /\ ControlInv' /\ ServedInv' /\ Advances(w, <<>>, Len(todo[w]) - 1)
        /\ todo[w][1][1] = "wake"
    <3>1. Flat({}) BY DEF Flat
    <3> QED BY <1>0, <1>1, <1>2, <2>1, <2>2, <3>1, OnlyNil, LineGo
  <2>4. ~Owes(w) BY <1>1, <1>3 DEF Owes, At
  <2>5. todo[w][1] \notin TendSteps \cup TrySteps BY <2>3, NamedSteps
  <2>6. KeptInv' BY <1>0, <1>1, <2>1, <2>2, <2>3, <2>4, <2>5, KeptStays
  <2> QED BY <2>3, <2>6 DEF KeepInv
<1>4. CASE source.generation = Arg(w)
  <2>1. source' = [source EXCEPT !.waiting = FALSE] /\ Go(w, <<<<"woken", "source">>>>)
    BY <1>4 DEF Wake
  <2>2. ~source'.waiting /\ source'.done = source.done BY <1>0, <2>1 DEF TypeOK
  <2>3. LineStays BY <1>1, <2>2, LineSame
  <2>4. PICK steps : steps = <<<<"woken", "source">>>> OBVIOUS
  <2>5. Only(steps, {"woken"})
    <3>1. <<"woken", "source">> \in Steps BY StepForms DEF NodeKinds, Nodes
    <3> QED BY <2>4, <3>1, OnlyOne
  <2>6. ControlInv' /\ ServedInv' /\ Advances(w, steps, Len(todo[w]) - 1)
    <3>1. Flat({"woken"}) BY DEF Flat
    <3> QED BY <1>0, <1>1, <1>2, <2>1, <2>3, <2>4, <2>5, <3>1, LineGo
  <2>7. Someone(TrySteps)' BY <1>0, <2>4, <2>6, NamedSteps, HoldsOne
  <2>8. KeptInv' BY <2>2, <2>7 DEF KeptInv, Waits, Tries, Tried
  <2> QED BY <2>6, <2>8 DEF KeepInv
<1> QED BY <1>3, <1>4

LEMMA KeepWoken ==
    ASSUME IInv, IInv', RestInv, KeepInv, NEW w \in Workers, Woken(w)
    PROVE  KeepInv'
<1>0. ListsOK /\ KeptInv /\ w \in Threads BY DEF IInv, KeepInv, Threads
<1>1. At(w, "woken") /\ UNCHANGED <<state, shared, paused, node, source, pool>> BY DEF Woken
<1>2. Only(<<<<"try", "source">>>>, {"try", "close?"}) /\ Only(MaybeClose("source"), {"try", "close?"})
  <2>1. <<"try", "source">> \in Steps /\ <<"close?", "source">> \in Steps
    BY StepForms DEF NodeKinds, Nodes
  <2> QED BY <2>1, OnlyOne DEF MaybeClose
<1>3. PICK steps : /\ Go(w, steps) /\ Only(steps, {"try", "close?"})
                   /\ InRun /\ ~source.done => steps = <<<<"try", "source">>>>
  BY <1>2 DEF Woken, InRun
<1>4. LineStays /\ (Needed' => Needed) /\ (Returning' <=> Returning) BY <1>1, LineSame
<1>5. /\ ControlInv' /\ ServedInv' /\ Advances(w, steps, Len(todo[w]) - 1)
      /\ todo[w][1][1] = "woken"
  <2>1. Flat({"try", "close?"}) BY DEF Flat
  <2>2. "woken" \notin {"freed", "cancelled", "invalidate", "renew"} \cup OwnKinds \cup LineKinds
    BY DEF OwnKinds, LineKinds
  <2> QED BY <1>0, <1>1, <1>3, <1>4, <2>1, <2>2, LineGo
<1>6. Needed' => Tried'
  <2>1. InRun /\ ~source.done => Someone(TrySteps)' BY <1>0, <1>3, <1>5, NamedSteps, HoldsOne
  <2> QED BY <1>4, <2>1 DEF Tried, Needed
<1>7. KeptInv'
  <2>1. ~Owes(w) BY <1>1, OwesNot DEF TokenKinds
  <2>2. todo[w][1] \notin TendSteps BY <1>5, NamedSteps
  <2> QED BY <1>0, <1>1, <1>4, <1>5, <1>6, <2>1, <2>2, KeptTurn
<1> QED BY <1>5, <1>7 DEF KeepInv

\* The request of a call is looked at when its slot is free.
LEMMA KeepResumption ==
    ASSUME IInv, IInv', RestInv, KeepInv, NEW w \in Workers, Resumption(w)
    PROVE  KeepInv'
<1>0. ListsOK /\ TypeOK /\ KeptInv /\ w \in Threads BY DEF IInv, KeepInv, Threads
<1>1. At(w, "resume?") /\ UNCHANGED <<state, shared, paused, node, pool>> BY DEF Resumption
<1>2. "resume?" \notin {"freed", "cancelled", "invalidate", "renew"} \cup OwnKinds \cup LineKinds
  BY DEF OwnKinds, LineKinds
<1>3. Only(<<<<"reschedule">>>>, {"reschedule"})
  <2>1. <<"reschedule">> \in Steps BY StepForms DEF PlainKinds
  <2> QED BY <2>1, OnlyOne
<1>4. Flat({"reschedule"}) BY DEF Flat
<1>5. CASE source.waiting /\ (Stopped \/ state \notin Live)
  <2>1. source' = [source EXCEPT !.waiting = FALSE, !.reschedule = FALSE] /\ Go(w, <<>>)
    BY <1>5 DEF Resumption
  <2>2. source'.done = source.done BY <1>0, <2>1 DEF TypeOK
  <2>3. LineStays /\ (InRun' <=> InRun) BY <1>1, <2>2, LineSame
  <2>4. ControlInv' /\ ServedInv' BY <1>0, <1>1, <1>2, <1>4, <2>1, <2>3, OnlyNil, LineGo
  <2>5. ~Needed' BY <1>5, <2>3 DEF Needed, InRun
  <2> QED BY <2>4, <2>5, KeptIdle DEF KeepInv
<1>6. CASE ~(source.waiting /\ (Stopped \/ state \notin Live))
  <2>1. source' = source BY <1>6 DEF Resumption
  <2>2. PICK steps : /\ Go(w, steps) /\ Only(steps, {"reschedule"})
                     /\ source.waiting => steps = <<<<"reschedule">>>>
    BY <1>3, <1>6, OnlyNil DEF Resumption
  <2>3. LineStays /\ (Needed' => Needed) /\ (Returning' <=> Returning) BY <1>1, <2>1, LineSame
  <2>4. ControlInv' /\ ServedInv' /\ Advances(w, steps, Len(todo[w]) - 1) /\ todo[w][1][1] = "resume?"
    BY <1>0, <1>1, <1>2, <1>4, <2>2, <2>3, LineGo
  <2>5. Awaited => Awaited'
    <3>1. ~Owes(w) BY <1>1, OwesNot DEF TokenKinds
    <3>2. (AnyReady => AnyReady') /\ (DelayedWake => DelayedWake')
      BY <1>0, <1>1, <2>1, WakesMove
    <3> QED BY <1>0, <2>1, <2>4, <3>1, <3>2, AwaitedMove
  <2>6. source.waiting => Tended' BY <1>0, <2>2, <2>4, NamedSteps, HoldsOne DEF Tended
  <2>7. Tried => Tried'
    <3>1. todo[w][1] \notin TrySteps BY <2>4, NamedSteps
    <3>2. Someone(TrySteps) => Someone(TrySteps)' BY <1>0, <2>4, <3>1, HoldsMove
    <3> QED BY <2>3, <3>2 DEF Tried
  <2>8. KeptInv' BY <1>0, <1>1, <2>1, <2>3, <2>5, <2>6, <2>7, KeptMove
  <2> QED BY <2>4, <2>8 DEF KeepInv
<1> QED BY <1>5, <1>6

\* ... and taken by the thread that finds no other call outstanding.
LEMMA KeepReschedule ==
    ASSUME IInv, IInv', RestInv, KeepInv, NEW w \in Workers, Reschedule(w)
    PROVE  KeepInv'
<1>0. ListsOK /\ TypeOK /\ ShapeInv /\ KeptInv /\ w \in Threads BY DEF IInv, KeepInv, Threads
<1>1. At(w, "reschedule") /\ UNCHANGED <<state, shared, paused, node, pool>> BY DEF Reschedule
<1>2. "reschedule" \notin {"freed", "cancelled", "invalidate", "renew"} \cup OwnKinds \cup LineKinds
  BY DEF OwnKinds, LineKinds
<1>3. ~Owes(w) BY <1>1, OwesNot DEF TokenKinds
<1>4. CASE Returning
  <2>1. source' = source /\ Go(w, <<>>) BY <1>4 DEF Reschedule, Returning, SourceLine
  <2>2. LineStays /\ (Needed' => Needed) /\ (Returning' <=> Returning) BY <1>1, <2>1, LineSame
  <2>3. Flat({}) BY DEF Flat
  <2>4. ControlInv' /\ ServedInv' /\ Advances(w, <<>>, Len(todo[w]) - 1)
    BY <1>0, <1>1, <1>2, <2>1, <2>2, <2>3, OnlyNil, LineGo
  <2>5. Awaited => Awaited'
    <3>1. (AnyReady => AnyReady') /\ (DelayedWake => DelayedWake') BY <1>0, <1>1, <2>1, WakesMove
    <3> QED BY <1>0, <1>3, <2>1, <2>4, <3>1, AwaitedMove
  <2>6. Tended' /\ Tried' BY <1>4, <2>2 DEF Tended, Tried
  <2>7. KeptInv' BY <1>0, <1>1, <2>1, <2>2, <2>5, <2>6, KeptMove
  <2> QED BY <2>4, <2>7 DEF KeepInv
<1>5. CASE ~Returning
  <2>1. source' = [source EXCEPT !.reschedule = FALSE]
    BY <1>5 DEF Reschedule, Returning, SourceLine
  <2>2. Only(<<<<"generation">>>>, {"generation"})
    <3>1. <<"generation">> \in Steps BY StepForms DEF PlainKinds
    <3> QED BY <3>1, OnlyOne
  <2>3. PICK steps : /\ Go(w, steps) /\ Only(steps, {"generation"})
                     /\ source.reschedule => steps = <<<<"generation">>>>
    BY <1>5, <2>2, OnlyNil DEF Reschedule, Returning, SourceLine
  <2>4. /\ source'.done = source.done /\ source'.waiting = source.waiting
        /\ source'.generation = source.generation
    BY <1>0, <2>1 DEF TypeOK
  <2>5. LineStays /\ (Needed' => Needed) /\ (Returning' <=> Returning) BY <1>1, <2>4, LineSame
  <2>6. Flat({"generation"}) BY DEF Flat
  <2>7. /\ ControlInv' /\ ServedInv' /\ Advances(w, steps, Len(todo[w]) - 1)
        /\ todo[w][1][1] = "reschedule"
    BY <1>0, <1>1, <1>2, <2>3, <2>5, <2>6, LineGo
  <2>8. source.reschedule => Awaited'
    <3> SUFFICES ASSUME source.reschedule PROVE Awaited' OBVIOUS
    <3>1. Len(steps) >= 1 /\ steps[1][1] = "generation" BY <2>3
    <3>2. At(w, "generation")' BY <1>0, <2>7, <3>1, Views
    <3>3. Owes(w)' BY <3>2 DEF Owes
    <3> QED BY <1>0, <3>3 DEF Awaited
  <2>9. Awaited => Awaited'
    <3>1. (AnyReady => AnyReady') /\ (DelayedWake => DelayedWake') BY <1>0, <1>1, <2>4, WakesMove
    <3> QED BY <1>0, <1>3, <2>4, <2>7, <3>1, AwaitedMove
  <2>10. Tried => Tried'
    <3>1. todo[w][1] \notin TrySteps BY <2>7, NamedSteps
    <3>2. Someone(TrySteps) => Someone(TrySteps)' BY <1>0, <2>7, <3>1, HoldsMove
    <3> QED BY <2>5, <3>2 DEF Tried
  <2>11. KeptInv'
    <3> SUFFICES ASSUME Needed' PROVE Waits' /\ Tries'
      BY DEF KeptInv
    <3>1. Waits /\ Tries BY <1>0, <2>5 DEF KeptInv
    <3>2. Waits' BY <2>4, <2>8, <2>9, <3>1 DEF Waits
    <3>3. Tries' BY <1>1, <2>4, <2>10, <3>1 DEF Tries
    <3> QED BY <3>2, <3>3
  <2> QED BY <2>7, <2>11 DEF KeepInv
<1> QED BY <1>4, <1>5

\* The next generation is that of the wake to come.
LEMMA KeepGeneration ==
    ASSUME IInv, IInv', RestInv, KeepInv, NEW w \in Workers, Generation(w)
    PROVE  KeepInv'
<1>0. ListsOK /\ TypeOK /\ ShapeInv /\ KeptInv /\ w \in Threads BY DEF IInv, KeepInv, Threads
<1>1. /\ At(w, "generation") /\ UNCHANGED <<state, shared, paused, node, pool>>
      /\ source' = [source EXCEPT !.generation = @ + 1]
      /\ Go(w, <<<<"delay", source.generation + 1>>>>)
  BY DEF Generation
<1>2. /\ source'.done = source.done /\ source'.waiting = source.waiting
      /\ source'.generation = source.generation + 1 /\ source.generation \in Nat
  BY <1>0, <1>1 DEF TypeOK
<1>3. PICK s : s = <<"delay", source.generation + 1>> OBVIOUS
<1>4. s[1] = "delay" /\ s[2] = source'.generation /\ s \in Steps
  <2>1. source.generation + 1 \in Nat \ {0} BY <1>2
  <2> QED BY <1>2, <1>3, <2>1, StepForms
<1>5. PICK steps : steps = <<s>> OBVIOUS
<1>6. Only(steps, {"delay"}) /\ Go(w, steps) BY <1>1, <1>3, <1>4, <1>5, OnlyOne
<1>7. LineStays /\ (Needed' => Needed) /\ (Returning' <=> Returning) BY <1>1, <1>2, LineSame
<1>8. /\ ControlInv' /\ ServedInv' /\ Advances(w, steps, Len(todo[w]) - 1)
      /\ todo[w][1][1] = "generation"
  <2>1. Flat({"delay"}) BY DEF Flat
  <2>2. "generation" \notin {"freed", "cancelled", "invalidate", "renew"} \cup OwnKinds \cup LineKinds
    BY DEF OwnKinds, LineKinds
  <2> QED BY <1>0, <1>1, <1>6, <1>7, <2>1, <2>2, LineGo
<1>9. Awaited'
  <2>1. Len(steps) >= 1 /\ steps[1] = s BY <1>5
  <2>2. At(w, "delay")' /\ Arg(w)' = steps[1][2] BY <1>0, <1>4, <1>8, <2>1, Views
  <2>3. Owes(w)' BY <1>4, <2>1, <2>2 DEF Owes
  <2> QED BY <1>0, <2>3 DEF Awaited
<1>10. Tried => Tried'
  <2>1. todo[w][1] \notin TrySteps BY <1>8, NamedSteps
  <2>2. Someone(TrySteps) => Someone(TrySteps)' BY <1>0, <1>8, <2>1, HoldsMove
  <2> QED BY <1>7, <2>2 DEF Tried
<1>11. KeptInv'
  <2> SUFFICES ASSUME Needed' PROVE Waits' /\ Tries'
    BY DEF KeptInv
  <2>1. Tries BY <1>0, <1>7 DEF KeptInv
  <2> QED BY <1>1, <1>2, <1>9, <1>10, <2>1 DEF Waits, Tries
<1> QED BY <1>8, <1>11 DEF KeepInv

\* The wake of the current generation is given to the pool, unless it is stopped.
LEMMA KeepDelay ==
    ASSUME IInv, IInv', RestInv, KeepInv, NEW w \in Workers, Delay(w)
    PROVE  KeepInv'
<1> DEFINE g == Arg(w)
<1>0. ListsOK /\ TypeOK /\ ShapeInv /\ KeptInv /\ w \in Threads BY DEF IInv, KeepInv, Threads
<1>1. At(w, "delay") /\ Go(w, <<>>) /\ UNCHANGED <<state, shared, paused, node>> BY DEF Delay
<1>2. "delay" \notin {"freed", "cancelled", "invalidate", "renew"} \cup OwnKinds \cup LineKinds
      /\ Flat({})
  BY DEF OwnKinds, LineKinds, Flat
<1>3. g \in Nat \ {0}
  <2>1. Len(todo[w]) >= 1 /\ todo[w][1][1] = "delay" /\ g = todo[w][1][2] /\ todo[w][1] \in Steps
    BY <1>0, <1>1, AtFirst DEF Kind
  <2> QED BY <2>1, StepShape
<1> HIDE DEF g
<1>4. CASE pool.stop
  <2>1. source' = [source EXCEPT !.waiting = FALSE] /\ pool' = pool BY <1>4 DEF Delay
  <2>2. source'.done = source.done BY <1>0, <2>1 DEF TypeOK
  <2>3. LineStays BY <1>1, <2>1, <2>2, LineSame
  <2>4. ControlInv' /\ ServedInv' BY <1>0, <1>1, <1>2, <2>3, OnlyNil, LineGo
  <2>5. ~Needed' BY <1>4, <2>1 DEF Needed
  <2> QED BY <2>4, <2>5, KeptIdle DEF KeepInv
<1>5. CASE ~pool.stop
  <2>1. /\ source' = source
        /\ \/ pool' = [pool EXCEPT !.ready = Append(pool.ready, g)]
           \/ pool' = [pool EXCEPT !.delayed = pool.delayed \cup {g}]
    BY <1>5 DEF Delay, Enqueued, g
  <2>2. pool.ready \in Seq(Nat) /\ Len(pool.ready) \in Nat BY <1>0, LenProperties DEF TypeOK
  <2>3. /\ pool'.stop = pool.stop
        /\ \/ pool'.ready = Append(pool.ready, g) /\ pool'.delayed = pool.delayed
           \/ pool'.ready = pool.ready /\ pool'.delayed = pool.delayed \cup {g}
    BY <1>0, <2>1 DEF TypeOK
  <2>4. Runs' = Runs
    <3>1. Runs' = Cardinality(Places(pool'.ready, RunTask)) BY CountsNext
    <3>2. Runs \in Nat /\ g \in Nat /\ g # RunTask BY <1>0, <1>3, Counts DEF RunTask
    <3>3. CASE pool'.ready = Append(pool.ready, g)
      <4>1. Cardinality(Places(Append(pool.ready, g), RunTask)) =
                Cardinality(Places(pool.ready, RunTask)) + (IF g = RunTask THEN 1 ELSE 0)
        BY <2>2, <3>2, PlacesAppend
      <4> QED BY <3>1, <3>2, <3>3, <4>1 DEF Runs
    <3> QED BY <2>3, <3>1, <3>3 DEF Runs
  <2>5. RunStays /\ DoneStays /\ (InRun' <=> InRun) BY <1>1, <2>1, Stays
  <2>6. LineStays /\ (Needed' => Needed) /\ (Returning' <=> Returning)
    BY <1>1, <2>1, <2>3, <2>4, <2>5 DEF LineStays, Needed, Returning, SourceLine
  <2>7. /\ ControlInv' /\ ServedInv' /\ Advances(w, <<>>, Len(todo[w]) - 1)
        /\ todo[w][1][1] = "delay"
    BY <1>0, <1>1, <1>2, <2>6, OnlyNil, LineGo
  <2>8. InRun => Awaited'
    <3> SUFFICES ASSUME InRun PROVE Awaited' OBVIOUS
    <3>1. g = source.generation BY <1>0, <1>1 DEF RestInv, WakeInv, g
    <3>2. CASE pool'.ready = Append(pool.ready, g)
      <4>1. PICK i : i = Len(pool.ready) + 1 OBVIOUS
      <4>2. Len(pool'.ready) = Len(pool.ready) + 1 /\ pool'.ready[i] = g
        BY <1>3, <2>2, <3>2, <4>1, AppendProperties
      <4>3. ReadyWake(i)' BY <1>3, <2>1, <3>1, <4>2 DEF ReadyWake, RunTask
      <4>4. i \in 1 .. Len(pool'.ready) BY <2>2, <4>1, <4>2
      <4> QED BY <4>3, <4>4 DEF Awaited, AnyReady
    <3>3. CASE pool'.delayed = pool.delayed \cup {g} BY <2>1, <3>1, <3>3 DEF Awaited, DelayedWake
    <3> QED BY <2>3, <3>2, <3>3
  <2>9. Tried => Tried'
    <3>1. todo[w][1] \notin TrySteps BY <2>7, NamedSteps
    <3>2. Someone(TrySteps) => Someone(TrySteps)' BY <1>0, <2>7, <3>1, HoldsMove
    <3> QED BY <2>6, <3>2 DEF Tried
  <2>10. KeptInv'
    <3> SUFFICES ASSUME Needed' PROVE Waits' /\ Tries'
      BY DEF KeptInv
    <3>1. Tries /\ InRun BY <1>0, <2>6 DEF KeptInv, Needed
    <3> QED BY <1>1, <2>1, <2>8, <2>9, <3>1 DEF Waits, Tries
  <2> QED BY <2>7, <2>10 DEF KeepInv
<1> QED BY <1>4, <1>5

\* A call of the source returns.
LEMMA LandNext ==
    ASSUME IInv, IInv', RestInv, KeepInv, LineStays, NEW t \in Threads, At(t, "process"),
           NEW result \in {"landed", "emitted"}, Go(t, <<<<"land", Arg(t), result>>>>)
    PROVE  ControlInv' /\ ServedInv'
<1> DEFINE n == Arg(t)
<1>0. ListsOK BY DEF IInv
<1>1. n \in Nodes BY ArgNode DEF NodeKinds
<1>2. PICK s : s = <<"land", n, result>> OBVIOUS
<1>3. s \in Steps /\ s[1] = "land" /\ s[2] = n BY <1>1, <1>2, StepForms
<1>4. PICK steps : steps = <<s>> OBVIOUS
<1>5. steps \in Seq(Steps) /\ Len(steps) >= 1 /\ \A i \in 1 .. Len(steps) : steps[i] = s
  BY <1>3, <1>4, Lists
<1>6. Go(t, steps) BY <1>2, <1>4
<1>7. /\ Advances(t, steps, Len(todo[t]) - 1) /\ todo[t][1][1] = "process" /\ n = todo[t][1][2]
      /\ Len(todo[t]) >= 1
  BY <1>0, <1>5, <1>6, GoAdvances DEF Kind
<1> HIDE DEF n
<1>8. \A i \in 1 .. Len(steps) : QuietThen(steps[i]) BY <1>3, <1>5 DEF QuietThen
<1>9. LineFirst(todo[t][1]) BY <1>7 DEF LineFirst, LineKinds
<1>10. GoesOn(t, steps)
  <2>1. steps[1] = s BY <1>4
  <2> QED BY <1>3, <1>5, <1>7, <2>1 DEF GoesOn, OwnKinds
<1> QED BY <1>7, <1>8, <1>9, <1>10, LineStep

\* The call that returns is still in the line.
LEMMA KeepReturn ==
    ASSUME IInv, IInv', RestInv, KeepInv, NEW w \in Workers, Return(w) \/ LastReturn(w)
    PROVE  KeepInv'
<1>0. TypeOK /\ CallsInv /\ KeptInv /\ w \in Threads BY DEF IInv, KeepInv, Threads
<1>1. At(w, "process") /\ Arg(w) = "source" /\ UNCHANGED <<state, shared, paused, node, pool>>
  BY DEF Return, LastReturn
<1>2. PICK result \in {"landed", "emitted"} : Go(w, <<<<"land", Arg(w), result>>>>)
  BY <1>1 DEF Return, LastReturn
<1>3. \/ source' = source
      \/ source' = [source EXCEPT !.waiting = TRUE, !.reschedule = TRUE]
      \/ source' = [source EXCEPT !.done = TRUE, !.waiting = FALSE, !.reschedule = FALSE]
  BY DEF Return, LastReturn
<1>4. /\ source.done => source'.done
      /\ source'.done \/ source'.reschedule
           \/ (source'.waiting = source.waiting /\ source'.reschedule = source.reschedule)
  BY <1>0, <1>3 DEF TypeOK
<1>5. LineStays /\ (Needed' => Needed) /\ (Returning' <=> Returning) BY <1>1, <1>4, LineSame
<1>6. ControlInv' /\ ServedInv' BY <1>0, <1>1, <1>2, <1>5, LandNext
<1>7. SourceLine # <<>>
  <2>1. PICK i \in 1 .. Len(SourceLine) : SourceLine[i] = w
    BY <1>0, <1>1 DEF CallsInv, CallInv, SourceLine
  <2>2. SourceLine = <<>> => Len(SourceLine) = 0 OBVIOUS
  <2> QED BY <2>1, <2>2
<1>8. Returning' BY <1>5, <1>7 DEF Returning
<1>9. KeptInv'
  <2> SUFFICES ASSUME Needed' PROVE Waits' /\ Tries'
    BY DEF KeptInv
  <2>1. InRun /\ (source.waiting => Awaited \/ source.reschedule)
    BY <1>0, <1>5 DEF KeptInv, Needed, Waits
  <2>2. ~Awaited BY <1>7, <2>1, NoWake DEF Awaited, SourceLine
  <2>3. source'.waiting => source'.reschedule BY <1>4, <2>1, <2>2 DEF Needed
  <2> QED BY <1>8, <2>3 DEF Waits, Tries, Tended, Tried
<1> QED BY <1>6, <1>9 DEF KeepInv

LEMMA KeepFail ==
    ASSUME IInv, IInv', RestInv, KeepInv, NEW t \in Threads, Fail(t)
    PROVE  KeepInv'
<1>0. TypeOK /\ KeptInv BY DEF IInv, KeepInv
<1>1. /\ At(t, "process") /\ UNCHANGED <<state, paused, node, source, pool>>
      /\ shared' = [shared EXCEPT !.error = TRUE] /\ Go(t, <<<<"land", Arg(t), "landed">>>>)
  BY DEF Fail
<1>2. shared'.error /\ shared'.cancelled = shared.cancelled BY <1>0, <1>1 DEF TypeOK
<1>3. LineStays
  <2>1. RunStays BY <1>1, <1>2 DEF RunStays, Stopped
  <2>2. DoneStays BY <1>1 DEF DoneStays
  <2>3. Runs' = Runs BY <1>1 DEF Runs, Places
  <2> QED BY <1>1, <2>1, <2>2, <2>3 DEF LineStays, SourceLine
<1>4. ControlInv' /\ ServedInv' BY <1>1, <1>3, LandNext
<1>5. ~Needed' BY <1>2 DEF Needed, InRun, Stopped
<1> QED BY <1>4, <1>5, KeptIdle DEF KeepInv

\* A call of the host.
LEMMA LineCall ==
    ASSUME IInv, IInv', RestInv, KeepInv, LineStays, NEW t \in Threads, Idle(t),
           NEW steps, NEW K, Only(steps, K), Call(t, steps), Flat(K)
    PROVE  ControlInv' /\ ServedInv' /\ Advances(t, steps, 0) /\ Len(todo[t]) = 0
<1>1. steps \in Seq(Steps) /\ ListsOK BY DEF Only, IInv
<1>2. Advances(t, steps, 0) /\ Len(todo[t]) = 0 BY <1>1, CallAdvances
<1>3. \A i \in 1 .. Len(steps) : steps[i][1] \in K BY DEF Only
<1>4. \A i \in 1 .. Len(steps) : QuietThen(steps[i]) BY <1>3 DEF Flat, QuietThen
<1> QED BY <1>2, <1>4, LineStep DEF GoesOn

LEMMA KeepResume ==
    ASSUME IInv, IInv', RestInv, KeepInv, Resume
    PROVE  KeepInv'
<1>0. ListsOK /\ TypeOK /\ KeptInv /\ Host \in Threads BY DEF IInv, KeepInv, Threads
<1>1. /\ Idle(Host) /\ UNCHANGED <<state, shared, node, source, pool>>
      /\ Call(Host, <<<<"try", "source">>, <<"try", "sink">>>>)
  BY DEF Resume
<1>2. PICK steps : steps = <<<<"try", "source">>, <<"try", "sink">>>> OBVIOUS
<1>3. Only(steps, {"try"})
  <2>1. <<"try", "source">> \in Steps /\ <<"try", "sink">> \in Steps
    BY StepForms DEF NodeKinds, Nodes
  <2> QED BY <1>2, <2>1, OnlyTwo
<1>4. LineStays /\ (Needed' => Needed) /\ (Returning' <=> Returning) BY <1>1, LineSame
<1>5. ControlInv' /\ ServedInv' /\ Advances(Host, steps, 0) /\ Len(todo[Host]) = 0
  <2>1. Flat({"try"}) BY DEF Flat
  <2> QED BY <1>0, <1>1, <1>2, <1>3, <1>4, <2>1, LineCall
<1>6. Awaited => Awaited'
  <2>1. ~Owes(Host) BY <1>1 DEF Owes, At
  <2>2. (AnyReady => AnyReady') /\ (DelayedWake => DelayedWake') BY <1>0, <1>1, WakesMove
  <2> QED BY <1>0, <1>1, <1>5, <2>1, <2>2, AwaitedMove
<1>7. Tended => Tended'
  <2>1. Someone(TendSteps) => Someone(TendSteps)' BY <1>0, <1>5, HoldsMove
  <2> QED BY <1>4, <2>1 DEF Tended
<1>8. Tried'
  <2>1. 1 \in 1 .. Len(steps) /\ steps[1] = <<"try", "source">> BY <1>2
  <2>2. \E i \in 1 .. Len(steps) : steps[i] \in TrySteps BY <2>1, NamedSteps
  <2>3. Someone(TrySteps)' BY <1>0, <1>5, <2>2, HoldsMove
  <2> QED BY <2>3 DEF Tried
<1>9. KeptInv' BY <1>0, <1>1, <1>4, <1>6, <1>7, <1>8 DEF KeptInv, Waits, Tries
<1> QED BY <1>5, <1>9 DEF KeepInv

\* A graph that is started calls its sources.
LEMMA KeepRunning ==
    ASSUME IInv, IInv', RestInv, KeepInv, Running
    PROVE  KeepInv'
<1>0. ListsOK /\ TypeOK /\ PhaseInv /\ Host \in Threads BY DEF IInv, Threads
<1>1. /\ At(Host, "running") /\ state' = "Running" /\ Go(Host, <<>>)
      /\ UNCHANGED <<shared, paused, node, source>>
      /\ pool' = [pool EXCEPT !.started = TRUE]
  BY DEF Running
<1>2. pool'.stop = pool.stop /\ pool'.ready = pool.ready BY <1>0, <1>1 DEF TypeOK
<1>3. state = "Initialized" /\ todo[Host] \in StartTails
  <2>1. 1 \in 1 .. Len(todo[Host]) /\ Kind(Host, 1) = "running" BY <1>0, <1>1, AtFirst
  <2> QED BY <2>1, StartList DEF RestInv
<1>4. LineStays
  <2>1. RunStays BY <1>1, <1>3 DEF RunStays, Fresh, Stopped
  <2>2. DoneStays BY <1>1 DEF DoneStays
  <2>3. Runs' = Runs BY <1>2 DEF Runs, Places
  <2> QED BY <1>1, <1>2, <2>1, <2>2, <2>3 DEF LineStays, SourceLine
<1>5. /\ ControlInv' /\ ServedInv' /\ Advances(Host, <<>>, Len(todo[Host]) - 1)
      /\ todo[Host][1][1] = "running"
  <2>1. Flat({}) BY DEF Flat
  <2>2. "running" \notin {"freed", "cancelled", "invalidate", "renew"} \cup OwnKinds \cup LineKinds
    BY DEF OwnKinds, LineKinds
  <2> QED BY <1>0, <1>1, <1>4, <2>1, <2>2, OnlyNil, LineGo
<1>6. Tried'
  <2>1. todo[Host] = <<<<"running">>, <<"try", "source">>>> BY <1>3, <1>5 DEF StartTails
  <2>2. 2 \in 2 .. Len(todo[Host]) /\ todo[Host][2] = <<"try", "source">> BY <2>1
  <2>3. \E i \in 2 .. Len(todo[Host]) : todo[Host][i] \in TrySteps BY <2>2, NamedSteps
  <2>4. Someone(TrySteps)' BY <1>0, <1>5, <2>3, HoldsMove
  <2> QED BY <2>4 DEF Tried
<1>7. ~source'.waiting BY <1>0, <1>1, <1>3 DEF PhaseInv, FreshInv, Fresh
<1>8. KeptInv' BY <1>6, <1>7 DEF KeptInv, Waits, Tries
<1> QED BY <1>5, <1>8 DEF KeepInv

\* A graph that is not started needs nothing.
LEMMA KeepStart ==
    ASSUME IInv, IInv', RestInv, KeepInv, Start
    PROVE  KeepInv'
<1>0. Host \in Threads BY DEF Threads
<1> DEFINE K == {"open", "running", "try"}
<1>1. /\ Idle(Host) /\ state = "Initialized" /\ UNCHANGED <<state, shared, paused, node, source, pool>>
      /\ Call(Host, <<<<"open", "source">>, <<"open", "sink">>, <<"running">>, <<"try", "source">>>>)
  BY DEF Start
<1>2. PICK steps : steps = <<<<"open", "source">>, <<"open", "sink">>, <<"running">>, <<"try", "source">>>>
  OBVIOUS
<1>3. Only(steps, K)
  <2>1. /\ <<"open", "source">> \in Steps /\ <<"open", "sink">> \in Steps
        /\ <<"running">> \in Steps /\ <<"try", "source">> \in Steps
    BY StepForms DEF NodeKinds, PlainKinds, Nodes
  <2>2. steps \in Seq(Steps) BY <1>2, <2>1, Lists
  <2>3. \A i \in 1 .. Len(steps) : steps[i][1] \in K BY <1>2
  <2> QED BY <2>2, <2>3 DEF Only
<1>4. LineStays /\ (InRun' <=> InRun) BY <1>1, LineSame
<1>5. ControlInv' /\ ServedInv'
  <2>1. Flat(K) BY DEF Flat
  <2> HIDE DEF K
  <2> QED BY <1>0, <1>1, <1>2, <1>3, <1>4, <2>1, LineCall
<1>6. ~Needed' BY <1>1, <1>4 DEF Needed, InRun, Live
<1> QED BY <1>5, <1>6, KeptIdle DEF KeepInv

LEMMA KeepOpened ==
    ASSUME IInv, IInv', RestInv, KeepInv, At(Host, "open"), Go(Host, <<>>),
           UNCHANGED <<state, shared, source, pool>>,
           node' = [node EXCEPT ![Arg(Host)].opened = @ \/ ~FALSE]
    PROVE  KeepInv'
<1>0. TypeOK /\ Host \in Threads BY DEF IInv, Threads
<1>1. state = "Initialized" /\ Arg(Host) \in Nodes BY OpenWhere
<1>2. /\ node'["source"].line = node["source"].line
      /\ node'["source"].flushing = node["source"].flushing
      /\ node'["source"].closeStarted = node["source"].closeStarted
  BY <1>0, <1>1, OpenedChange DEF Nodes
<1>3. LineStays
  <2>1. RunStays /\ DoneStays BY <1>2, Stays
  <2>2. Runs' = Runs BY DEF Runs, Places
  <2> QED BY <1>2, <2>1, <2>2 DEF LineStays, SourceLine
<1>4. ControlInv' /\ ServedInv'
  <2>1. Flat({}) BY DEF Flat
  <2>2. "open" \notin {"freed", "cancelled", "invalidate", "renew"} \cup OwnKinds \cup LineKinds
    BY DEF OwnKinds, LineKinds
  <2> QED BY <1>0, <1>3, <2>1, <2>2, OnlyNil, LineGo
<1>5. ~Needed' BY <1>1 DEF Needed, InRun, Live
<1> QED BY <1>4, <1>5, KeptIdle DEF KeepInv

---------------------------------------------------------------------------
(* The line of the source moves.                                            *)

LEMMA FlusherStep ==
    ASSUME ListsOK, FlusherInv, NEW t \in Threads, NEW steps, NEW r, Advances(t, steps, r),
           node'["source"].flushing = node["source"].flushing,
           FirstDone(node'["source"].line) => FirstDone(SourceLine),
           ~Flushes(t, 1, "source"),
           \A j \in 1 .. Len(steps) : ~FlushOf(steps[j], "source")
    PROVE  FlusherInv'
<1>1. FollowInv' BY FollowStep DEF FlusherInv
<1>2. node'["source"].flushing => SomeFlush' BY SomeFlushStep DEF FlusherInv
<1> QED BY <1>1, <1>2 DEF FlusherInv, SourceLine

\* A claim is put at the end of a line.
LEMMA EntryAppend ==
    ASSUME NEW l \in Seq(Entries), NEW m, m = Append(l, "claimed")
    PROVE  /\ m \in Seq(Entries) /\ m # <<>>
           /\ \A u \in Threads : (Sole(l, u) => Sole(m, u)) /\ (InLine(m, u) => InLine(l, u))
           /\ FirstDone(m) => FirstDone(l)
<1>1. "claimed" \in Entries /\ \A u \in Threads : u # "claimed"
  BY ThreadsAssumption DEF Entries
<1>2. /\ m \in Seq(Entries) /\ m # <<>> /\ Len(m) = Len(l) + 1
      /\ \A i \in 1 .. Len(l) : m[i] = l[i]
      /\ m[Len(l) + 1] = "claimed"
  BY <1>1, AppendProperties
<1>3. Len(l) \in Nat /\ (l = <<>> <=> Len(l) = 0) BY EmptySeq, LenProperties
<1>4. ASSUME NEW i \in 1 .. Len(m), m[i] # "claimed" PROVE i \in 1 .. Len(l) /\ m[i] = l[i]
  BY <1>2, <1>3, <1>4
<1>5. ASSUME NEW u \in Threads PROVE (Sole(l, u) => Sole(m, u)) /\ (InLine(m, u) => InLine(l, u))
  <2>1. u # "claimed" BY <1>1
  <2> QED BY <2>1, <1>4 DEF Sole, InLine
<1>6. FirstDone(m) => FirstDone(l)
  <2> SUFFICES ASSUME m[1] \in {"landed", "emitted"} PROVE FirstDone(l)
    BY DEF FirstDone
  <2>1. 1 \in 1 .. Len(m) /\ m[1] # "claimed" BY <1>2, <1>3
  <2>2. 1 \in 1 .. Len(l) /\ m[1] = l[1] BY <2>1, <1>4
  <2> QED BY <2>2, <1>3 DEF FirstDone
<1> QED BY <1>2, <1>5, <1>6

\* An entry of a line is replaced.
LEMMA EntryPut ==
    ASSUME NEW l \in Seq(Entries), NEW i \in 1 .. Len(l), NEW e \in Entries, NEW m, m = Put(l, i, e)
    PROVE  /\ m \in Seq(Entries) /\ m # <<>> /\ l # <<>> /\ Len(m) = Len(l)
           /\ \A j \in 1 .. Len(l) : m[j] = IF j = i THEN e ELSE l[j]
           /\ \A u : u # e => (Sole(l, u) => Sole(m, u)) /\ (InLine(m, u) => InLine(l, u))
           /\ ~InLine(l, e) => Sole(m, e)
           /\ Sole(l, l[i]) /\ e # l[i] => ~InLine(m, l[i])
           /\ e \notin {"landed", "emitted"} => (FirstDone(m) => FirstDone(l))
<1>1. /\ m \in Seq(Entries) /\ Len(m) = Len(l)
      /\ \A j \in 1 .. Len(l) : m[j] = IF j = i THEN e ELSE l[j]
  BY ExceptSeq DEF Put
<1>2. Len(l) \in Nat /\ (l = <<>> <=> Len(l) = 0) /\ (m = <<>> <=> Len(m) = 0)
  BY <1>1, EmptySeq, LenProperties
<1>3. m # <<>> /\ l # <<>> BY <1>1, <1>2
<1>4. ASSUME NEW u, u # e PROVE (Sole(l, u) => Sole(m, u)) /\ (InLine(m, u) => InLine(l, u))
  <2>1. \A j \in 1 .. Len(m) : m[j] = u => j \in 1 .. Len(l) /\ l[j] = u BY <1>1, <1>4
  <2> QED BY <2>1 DEF Sole, InLine
<1>5. ~InLine(l, e) => Sole(m, e) BY <1>1 DEF Sole, InLine
<1>6. Sole(l, l[i]) /\ e # l[i] => ~InLine(m, l[i]) BY <1>1 DEF Sole, InLine
<1>7. e \notin {"landed", "emitted"} => (FirstDone(m) => FirstDone(l))
  <2>1. 1 \in 1 .. Len(l) BY <1>2, <1>3
  <2> QED BY <2>1, <1>1, <1>3 DEF FirstDone
<1> QED BY <1>1, <1>3, <1>4, <1>5, <1>6, <1>7

\* The first entry of a line is taken from it.
LEMMA EntryTail ==
    ASSUME NEW l \in Seq(Entries), l # <<>>, NEW m, m = Tail(l)
    PROVE  \A u : (Sole(l, u) => Sole(m, u)) /\ (InLine(m, u) => InLine(l, u))
<1>1. /\ m \in Seq(Entries) /\ Len(m) = Len(l) - 1 /\ Len(l) \in Nat
      /\ \A j \in 1 .. Len(m) : m[j] = l[j + 1]
  BY HeadTailProperties, LenProperties
<1>2. \A j \in 1 .. Len(m) : j \in Nat /\ j + 1 \in 1 .. Len(l) /\ m[j] = l[j + 1] BY <1>1
<1>3. ASSUME NEW u PROVE InLine(m, u) => InLine(l, u) BY <1>2 DEF InLine
<1>4. ASSUME NEW u, Sole(l, u) PROVE Sole(m, u)
  <2> SUFFICES ASSUME NEW i \in 1 .. Len(m), NEW j \in 1 .. Len(m), m[i] = u, m[j] = u PROVE i = j
    BY DEF Sole
  <2>1. i + 1 \in 1 .. Len(l) /\ j + 1 \in 1 .. Len(l) /\ l[i + 1] = u /\ l[j + 1] = u BY <1>2
  <2>2. i + 1 = j + 1 BY <2>1, <1>4 DEF Sole
  <2>3. i \in Nat /\ j \in Nat BY <1>2
  <2> QED BY <2>2, <2>3
<1> QED BY <1>3, <1>4

LEMMA RunFacts ==
    ASSUME UNCHANGED <<state, shared, source>>, pool'.stop = pool.stop,
           node'["source"].closeStarted = node["source"].closeStarted,
           node'["source"].opened = node["source"].opened
    PROVE  RunStays /\ DoneStays /\ (Needed' => Needed)
<1>1. RunStays /\ (InRun' <=> InRun) BY DEF RunStays, InRun, Stopped
<1>2. DoneStays BY DEF DoneStays
<1> QED BY <1>1, <1>2 DEF Needed

LEMMA ControlGo ==
    ASSUME IInv, IInv', RestInv, KeepInv, RunStays, DoneStays, pool'.stop = pool.stop,
           NEW t \in Threads, NEW k, At(t, k), k \notin {"freed", "cancelled", "invalidate", "renew"},
           NEW steps, NEW K, Only(steps, K), Go(t, steps),
           K \cap {"stop", "forget", "initialized", "close"} = {}
    PROVE  /\ ControlInv'
           /\ Advances(t, steps, Len(todo[t]) - 1) /\ Len(todo[t]) \in Nat /\ Len(todo[t]) >= 1
           /\ todo[t][1][1] = k /\ Arg(t) = todo[t][1][2] /\ todo[t][1] \in Steps
<1>1. steps \in Seq(Steps) /\ ListsOK /\ ControlInv BY DEF Only, IInv, KeepInv
<1>2. /\ Advances(t, steps, Len(todo[t]) - 1) /\ Len(todo[t]) \in Nat /\ Len(todo[t]) >= 1
      /\ todo[t][1][1] = k /\ Arg(t) = todo[t][1][2] /\ todo[t][1] \in Steps
  BY <1>1, GoAdvances DEF Kind
<1>3. \A i \in 1 .. Len(steps) : steps[i][1] \in K BY DEF Only
<1>4. \A i \in 1 .. Len(steps) : /\ steps[i][1] \notin {"stop", "forget", "initialized"}
                                 /\ steps[i][1] = "close" /\ steps[i][3] => Stopped'
  BY <1>3
<1>5. Kind(t, 1) \notin {"freed", "cancelled", "invalidate", "renew"} BY <1>2 DEF Kind
<1>6. ControlInv' BY <1>1, <1>2, <1>4, <1>5, ControlStep
<1> QED BY <1>2, <1>6

\* A thread at a step of another kind neither serves a call nor flushes.
LEMMA FirstNot ==
    ASSUME ListsOK, NEW t \in Threads, NEW k, At(t, k)
    PROVE  /\ k \notin OwnKinds => ~Serves(t)
           /\ k \notin {"flush", "release"} => \A n : ~Flushes(t, 1, n)
           /\ k \notin {"submit", "run"} => \A n : Loss(t, n) = 0
           /\ k \in {"submit", "run"} => \A n : Loss(t, n) = IF Arg(t) = n THEN 1 ELSE 0
<1>1. \A j : At(t, j) => j = k BY DEF At
<1>2. k \notin OwnKinds => ~Serves(t) BY <1>1 DEF Serves, OwnKinds
<1>3. Kind(t, 1) = k BY AtFirst
<1>4. k \notin {"flush", "release"} => \A n : ~Flushes(t, 1, n) BY <1>3 DEF Flushes
<1>5. k \notin {"submit", "run"} => ~At(t, "submit") /\ ~At(t, "run") BY <1>1
<1> QED BY <1>2, <1>4, <1>5 DEF Loss

\* A claim of the source that is taken.
LEMMA KeepClaimTaken ==
    ASSUME IInv, IInv', RestInv, KeepInv, NEW t \in Threads, Claim(t), Arg(t) = "source",
           /\ node["source"].opened /\ ~node["source"].closeStarted
           /\ Len(node["source"].line) < Slots("source") /\ Ready("source")
    PROVE  KeepInv'
<1> DEFINE l == Append(SourceLine, "claimed")
<1>0. TypeOK /\ ListsOK /\ ShapeInv /\ KeptInv /\ BackInv /\ EntryInv /\ FlusherInv /\ "source" \in Nodes
  BY DEF IInv, KeepInv, ServedInv, Nodes
<1>1. node' = [node EXCEPT !["source"].line = l] BY DEF Claim, SourceLine
<1>2. /\ At(t, "claim") /\ UNCHANGED <<state, shared, paused, source, pool>>
      /\ Go(t, <<<<"submit", "source">>, <<"try", "source">>>>)
  BY DEF Claim, SourceLine
<1>3. SourceLine \in Seq(Entries) /\ "claimed" \in Entries BY <1>0 DEF TypeOK, SourceLine, Entries
<1>4. /\ l \in Seq(Entries) /\ l # <<>>
      /\ \A u \in Threads : (Sole(SourceLine, u) => Sole(l, u)) /\ (InLine(l, u) => InLine(SourceLine, u))
      /\ FirstDone(l) => FirstDone(SourceLine)
  BY <1>3, EntryAppend
<1>5. Cardinality(Places(l, "claimed")) = Claims("source") + 1
  BY <1>3, PlacesAppend DEF Claims, SourceLine
<1>6. PICK m : m = l OBVIOUS
<1>7. /\ m \in Seq(Entries) /\ m # <<>>
      /\ \A u \in Threads : (Sole(SourceLine, u) => Sole(m, u)) /\ (InLine(m, u) => InLine(SourceLine, u))
      /\ FirstDone(m) => FirstDone(SourceLine)
      /\ Cardinality(Places(m, "claimed")) = Claims("source") + 1
  BY <1>4, <1>5, <1>6
<1>8. node' = [node EXCEPT !["source"].line = m] BY <1>1, <1>6
<1> HIDE DEF l
<1>9. /\ node'["source"].line = m /\ node'["source"].flushing = node["source"].flushing
      /\ node'["source"].closeStarted = node["source"].closeStarted
      /\ node'["source"].opened = node["source"].opened
  <2>1. TypeOK /\ "source" \in Nodes /\ m \in Seq(Entries) BY <1>0, <1>7
  <2>2. \A n \in Nodes : /\ node'[n].opened = node[n].opened
                         /\ node'[n].closeStarted = node[n].closeStarted
                         /\ node'[n].flushing = node[n].flushing
                         /\ node'[n].line = IF n = "source" THEN m ELSE node[n].line
    BY ZenonT(60), <1>8, <2>1, LineChange
  <2>3. (IF "source" = "source" THEN m ELSE node["source"].line) = m OBVIOUS
  <2> QED BY <2>1, <2>2, <2>3
<1>10. PICK steps : steps = <<<<"submit", "source">>, <<"try", "source">>>> OBVIOUS
<1>11. Only(steps, {"submit", "try"})
  <2>1. <<"submit", "source">> \in Steps /\ <<"try", "source">> \in Steps
    BY <1>0, StepForms DEF NodeKinds
  <2> QED BY <1>10, <2>1, OnlyTwo
<1>12. Go(t, steps) BY <1>2, <1>10
<1>13. RunStays /\ DoneStays /\ (Needed' => Needed) BY <1>2, <1>9, RunFacts
<1>14. /\ ControlInv' /\ Advances(t, steps, Len(todo[t]) - 1) /\ todo[t][1][1] = "claim"
  BY <1>2, <1>11, <1>12, <1>13, ControlGo
<1>15. ~Serves(t) /\ ~Flushes(t, 1, "source") /\ Loss(t, "source") = 0
  BY <1>0, <1>2, FirstNot DEF OwnKinds
<1>16. \A j \in 1 .. Len(steps) : ~FlushOf(steps[j], "source") BY <1>11 DEF Only, FlushOf
<1>17. BackInv'
  <2>1. Runs \in Nat /\ Claims("source") \in Nat BY <1>0, Counts
  <2>2. Runs' = Runs BY <1>2 DEF Runs, Places
  <2>3. Claims("source")' = Claims("source") + 1 BY <1>7, <1>9, CountsNext
  <2>4. Gain(steps, "source") = 1 BY <1>10 DEF Gain
  <2>5. Runs + Loss(t, "source") + Claims("source")' <= Runs' + Gain(steps, "source") + Claims("source")
    BY <1>15, <2>1, <2>2, <2>3, <2>4
  <2> QED BY <1>0, <1>2, <1>14, <2>5, BackStep
<1>18. EntryInv'
  <2>1. \A u \in Threads : Sole(SourceLine, u) /\ (InLine(SourceLine, u) => Serves(u))
    BY <1>0 DEF EntryInv
  <2>2. ~InLine(node'["source"].line, t) BY <1>7, <1>9, <1>15, <2>1
  <2>3. \A u \in Threads : Sole(node'["source"].line, u) BY <1>7, <1>9, <2>1
  <2>4. \A u \in Threads \ {t} : InLine(node'["source"].line, u) => InLine(SourceLine, u)
    BY <1>7, <1>9
  <2> QED BY <1>0, <1>14, <2>2, <2>3, <2>4, EntryStep
<1>19. FlusherInv' BY <1>0, <1>7, <1>9, <1>14, <1>15, <1>16, FlusherStep
<1>20. KeptInv'
  <2>1. Returning' BY <1>7, <1>9 DEF Returning, SourceLine
  <2>2. ~Owes(t) BY <1>2, OwesNot DEF TokenKinds
  <2>3. todo[t][1] \notin TendSteps BY <1>14, NamedSteps
  <2>4. Tried' BY <2>1 DEF Tried
  <2> QED BY <1>0, <1>2, <1>13, <1>14, <2>1, <2>2, <2>3, <2>4, KeptTurn
<1> QED BY <1>14, <1>17, <1>18, <1>19, <1>20 DEF KeepInv, ServedInv

\* A call of the source goes to the pool, which refuses it after it was stopped.
LEMMA KeepSubmit ==
    ASSUME IInv, IInv', RestInv, KeepInv, NEW t \in Threads, Submit(t), Arg(t) = "source"
    PROVE  KeepInv'
<1>0. TypeOK /\ ListsOK /\ ShapeInv /\ KeptInv /\ BackInv /\ EntryInv /\ FlusherInv /\ "source" \in Nodes
  BY DEF IInv, KeepInv, ServedInv, Nodes
<1>1. /\ At(t, "submit") /\ UNCHANGED <<state, shared, paused, source, node>> /\ Go(t, <<>>)
      /\ IF pool.stop THEN pool' = pool ELSE pool' = [pool EXCEPT !.ready = Append(@, RunTask)]
  BY DEF Submit, Enqueued
<1>2. pool.ready \in Seq(Nat) /\ RunTask \in Nat BY <1>0 DEF TypeOK, RunTask
<1>3. /\ pool'.stop = pool.stop /\ pool'.delayed = pool.delayed
      /\ IF pool.stop THEN pool'.ready = pool.ready ELSE pool'.ready = Append(pool.ready, RunTask)
  BY <1>0, <1>1 DEF TypeOK
<1>4. \/ pool'.ready = pool.ready
      \/ \E task \in Nat : pool'.ready = Append(pool.ready, task)
  BY <1>2, <1>3
<1>5. RunStays /\ DoneStays /\ (Needed' => Needed) BY <1>1, <1>3, RunFacts
<1>6. PICK steps : steps = <<>> /\ Len(steps) = 0 /\ Only(steps, {}) BY OnlyNil
<1>7. /\ ControlInv' /\ Advances(t, steps, Len(todo[t]) - 1) /\ todo[t][1][1] = "submit"
  BY <1>1, <1>3, <1>5, <1>6, ControlGo
<1>8. ~Serves(t) /\ ~Flushes(t, 1, "source") /\ Loss(t, "source") = 1
  BY <1>0, <1>1, FirstNot DEF OwnKinds
<1>9. node'["source"].line = SourceLine /\ node'["source"].flushing = node["source"].flushing
  BY <1>1 DEF SourceLine
<1>10. \A j \in 1 .. Len(steps) : ~FlushOf(steps[j], "source") BY <1>6 DEF Only, FlushOf
<1>11. BackInv'
  <2>1. Runs \in Nat /\ Claims("source") \in Nat BY <1>0, Counts
  <2>2. ~pool.stop => Runs' = Runs + 1
    <3>1. Cardinality(Places(Append(pool.ready, RunTask), RunTask)) =
              Cardinality(Places(pool.ready, RunTask)) + 1
      BY <1>2, PlacesAppend
    <3> QED BY <1>3, <3>1, CountsNext DEF Runs
  <2>3. Claims("source")' = Claims("source") BY <1>9, CountsNext DEF Claims, SourceLine
  <2>4. Gain(steps, "source") = 0 BY <1>6 DEF Gain
  <2>5. ~pool'.stop => Runs + Loss(t, "source") + Claims("source")'
                           <= Runs' + Gain(steps, "source") + Claims("source")
    BY <1>3, <1>8, <2>1, <2>2, <2>3, <2>4
  <2> QED BY <1>0, <1>3, <1>7, <2>5, BackStep
<1>12. EntryInv' BY <1>0, <1>7, <1>8, <1>9, EntryStays
<1>13. FlusherInv' BY <1>0, <1>7, <1>8, <1>9, <1>10, FlusherStays
<1>14. KeptInv'
  <2>1. Returning => Returning' BY <1>9 DEF Returning, SourceLine
  <2>2. ~Owes(t) BY <1>1, OwesNot DEF TokenKinds
  <2>3. todo[t][1] \notin TendSteps \cup TrySteps BY <1>7, NamedSteps
  <2> QED BY <1>0, <1>1, <1>3, <1>4, <1>5, <1>7, <2>1, <2>2, <2>3, KeptStays
<1> QED BY <1>7, <1>11, <1>12, <1>13, <1>14 DEF KeepInv, ServedInv

\* A worker begins with the oldest claim.
LEMMA KeepRun ==
    ASSUME IInv, IInv', RestInv, KeepInv, NEW t \in Threads, Run(t), Arg(t) = "source"
    PROVE  KeepInv'
<1> DEFINE f == FirstClaimed("source")
           l == Put(SourceLine, f, t)
<1>0. TypeOK /\ ListsOK /\ ShapeInv /\ KeptInv /\ BackInv /\ EntryInv /\ FlusherInv /\ "source" \in Nodes
  BY DEF IInv, KeepInv, ServedInv, Nodes
<1>1. /\ At(t, "run") /\ UNCHANGED <<state, shared, paused, source, pool>>
      /\ node' = [node EXCEPT !["source"].line = l]
  BY <1>0 DEF Run, SourceLine, TypeOK, Put
<1>2. SourceLine \in Seq(Entries) /\ t \in Entries BY <1>0 DEF TypeOK, SourceLine, Entries
<1>3. f \in 1 .. Len(SourceLine) /\ SourceLine[f] = "claimed"
  <2>1. \E k \in 1 .. Len(node["source"].line) : node["source"].line[k] = "claimed"
    BY <1>1, HolderClaims
  <2> QED BY <1>0, <2>1, FirstClaimedIs DEF SourceLine
<1>4. t \notin {"claimed", "landed", "emitted"} BY ThreadsAssumption
<1>5. PICK s \in {<<"land", "source", "landed">>, <<"process", "source">>} : Go(t, <<s>>) BY DEF Run
<1> HIDE DEF f
<1>6. Cardinality(Places(l, "claimed")) = Claims("source") - 1
  <2>1. Claims("source") \in Nat BY <1>0, Counts
  <2>2. Cardinality(Places(l, "claimed")) =
            Cardinality(Places(SourceLine, "claimed")) + (IF t = "claimed" THEN 1 ELSE 0)
              - (IF SourceLine[f] = "claimed" THEN 1 ELSE 0)
    BY <1>2, <1>3, PlacesExcept DEF Put
  <2> QED BY <2>1, <2>2, <1>3, <1>4 DEF Claims, SourceLine
<1>7. PICK m : m = l OBVIOUS
<1>8. /\ m \in Seq(Entries) /\ m # <<>> /\ SourceLine # <<>>
      /\ \A u : u # t => (Sole(SourceLine, u) => Sole(m, u)) /\ (InLine(m, u) => InLine(SourceLine, u))
      /\ ~InLine(SourceLine, t) => Sole(m, t)
      /\ FirstDone(m) => FirstDone(SourceLine)
  BY <1>2, <1>3, <1>4, <1>7, EntryPut
<1>9. node' = [node EXCEPT !["source"].line = m] /\ Cardinality(Places(m, "claimed")) = Claims("source") - 1
  BY <1>1, <1>6, <1>7
<1> HIDE DEF l
<1>10. /\ node'["source"].line = m /\ node'["source"].flushing = node["source"].flushing
       /\ node'["source"].closeStarted = node["source"].closeStarted
       /\ node'["source"].opened = node["source"].opened
  <2>1. TypeOK /\ "source" \in Nodes /\ m \in Seq(Entries)
        /\ node' = [node EXCEPT !["source"].line = m]
    BY <1>0, <1>8, <1>9
  <2>2. \A n \in Nodes : /\ node'[n].opened = node[n].opened
                         /\ node'[n].closeStarted = node[n].closeStarted
                         /\ node'[n].flushing = node[n].flushing
                         /\ node'[n].line = IF n = "source" THEN m ELSE node[n].line
    BY <2>1, LineChange
  <2>3. (IF "source" = "source" THEN m ELSE node["source"].line) = m OBVIOUS
  <2> QED BY <2>1, <2>2, <2>3
<1>11. PICK steps : steps = <<s>> OBVIOUS
<1>12. s \in Steps /\ s[1] \in {"land", "process"} /\ s[2] = "source"
  <2>1. s \in Steps BY <1>0, StepForms DEF NodeKinds
  <2> QED BY <2>1
<1>13. Only(steps, {"land", "process"}) /\ Len(steps) = 1 /\ steps[1] = s
  BY <1>11, <1>12, OnlyOne
<1>14. Go(t, steps) BY <1>5, <1>11
<1>15. RunStays /\ DoneStays /\ (Needed' => Needed) BY <1>1, <1>10, RunFacts
<1>16. /\ ControlInv' /\ Advances(t, steps, Len(todo[t]) - 1)
  BY <1>1, <1>13, <1>14, <1>15, ControlGo
<1>17. ~Serves(t) /\ ~Flushes(t, 1, "source") /\ Loss(t, "source") = 1
  BY <1>0, <1>1, FirstNot DEF OwnKinds
<1>18. \A j \in 1 .. Len(steps) : ~FlushOf(steps[j], "source") BY <1>13 DEF Only, FlushOf
<1>19. BackInv'
  <2>1. Runs \in Nat /\ Claims("source") \in Nat BY <1>0, Counts
  <2>2. Runs' = Runs BY <1>1 DEF Runs, Places
  <2>3. Claims("source")' = Claims("source") - 1 BY <1>9, <1>10, CountsNext
  <2>4. Gain(steps, "source") = 0 BY <1>12, <1>13 DEF Gain
  <2>5. Runs + Loss(t, "source") + Claims("source")' <= Runs' + Gain(steps, "source") + Claims("source")
    BY <1>17, <2>1, <2>2, <2>3, <2>4
  <2> QED BY <1>0, <1>1, <1>16, <2>5, BackStep
<1>20. EntryInv'
  <2>1. \A u \in Threads : Sole(SourceLine, u) /\ (InLine(SourceLine, u) => Serves(u))
    BY <1>0 DEF EntryInv
  <2>2. ~InLine(SourceLine, t) BY <1>17, <2>1
  <2>3. \A u \in Threads : Sole(node'["source"].line, u) BY <1>8, <1>10, <2>1, <2>2
  <2>4. \A u \in Threads \ {t} : InLine(node'["source"].line, u) => InLine(SourceLine, u)
    BY <1>8, <1>10
  <2>5. Len(steps) >= 1 /\ steps[1][1] \in {"process", "land"} /\ steps[1][2] = "source"
    BY <1>12, <1>13
  <2> QED BY <1>0, <1>16, <2>3, <2>4, <2>5, EntryStep
<1>21. FlusherInv' BY <1>0, <1>8, <1>10, <1>16, <1>17, <1>18, FlusherStep
<1>22. KeptInv'
  <2>1. Returning' BY <1>8, <1>10 DEF Returning, SourceLine
  <2> QED BY <1>0, <1>1, <1>8, <1>15, <2>1, KeptReturning
<1> QED BY <1>16, <1>19, <1>20, <1>21, <1>22 DEF KeepInv, ServedInv

\* A step in front of a list.
LEMMA FrontConcat ==
    ASSUME NEW a \in Steps, NEW s \in Seq(Steps), NEW q, q = <<a>>, NEW m, m = q \o s
    PROVE  /\ m \in Seq(Steps) /\ Len(s) \in Nat /\ Len(m) = Len(s) + 1 /\ m[1] = a
           /\ \A i \in 1 .. Len(s) : m[i + 1] = s[i]
<1>1. q \in Seq(Steps) /\ Len(q) = 1 /\ q[1] = a OBVIOUS
<1>2. Len(s) \in Nat BY LenProperties
<1>3. /\ m \in Seq(Steps) /\ Len(m) = Len(q) + Len(s)
      /\ \A i \in 1 .. Len(q) + Len(s) : m[i] = IF i <= Len(q) THEN q[i] ELSE s[i - Len(q)]
  BY <1>1, ConcatProperties
<1>4. ASSUME NEW i \in 1 .. Len(s) PROVE m[i + 1] = s[i]
  <2> DEFINE j == i + 1
  <2>1. j \in 1 .. Len(q) + Len(s) /\ ~(j <= Len(q)) /\ j - Len(q) = i BY <1>1, <1>2
  <2> HIDE DEF j
  <2>2. m[j] = s[j - Len(q)] BY <1>3, <2>1
  <2> QED BY <2>1, <2>2 DEF j
<1>5. m[1] = a BY <1>1, <1>2, <1>3
<1> QED BY <1>1, <1>2, <1>3, <1>4, <1>5

LEMMA SourceFinish ==
    ASSUME NEW fin, fin = Finish("source")
    PROVE  /\ Only(fin, {"resume?", "try", "close?"}) /\ Len(fin) = 3
           /\ fin[1] = <<"resume?", "source">> /\ fin[2] = <<"try", "source">>
<1>1. "source" \in Nodes BY DEF Nodes
<1>2. Only(fin, {"resume?", "try", "close?"}) BY <1>1, OnlyFinish
<1>3. PICK a, b, c : a = <<"resume?", "source">> /\ b = <<"try", "source">> /\ c = <<"close?", "source">>
  OBVIOUS
<1>4. fin = (<<a>> \o <<b>>) \o <<c>> BY <1>3 DEF Finish, MaybeClose
<1>5. a \in Steps /\ b \in Steps /\ c \in Steps BY <1>1, <1>3, StepForms DEF NodeKinds
<1>6. PICK x, y, z : x = <<a>> /\ y = <<b>> /\ z = <<c>> OBVIOUS
<1>7. /\ x \in Seq(Steps) /\ y \in Seq(Steps) /\ z \in Seq(Steps)
      /\ Len(y) = 1 /\ y[1] = b /\ Len(z) = 1
  BY <1>5, <1>6
<1>8. PICK m : m = x \o y OBVIOUS
<1>9. m \in Seq(Steps) /\ Len(m) = 2 /\ m[1] = a /\ m[2] = b
  <2>1. /\ m \in Seq(Steps) /\ Len(m) = Len(y) + 1 /\ m[1] = a
        /\ \A i \in 1 .. Len(y) : m[i + 1] = y[i]
    BY <1>5, <1>6, <1>7, <1>8, FrontConcat
  <2>2. 1 \in 1 .. Len(y) /\ 1 + 1 = 2 BY <1>7
  <2>3. m[1 + 1] = y[1] BY <2>1, <2>2
  <2> QED BY <1>7, <2>1, <2>2, <2>3
<1>10. fin = m \o z BY <1>4, <1>6, <1>8
<1>11. Len(fin) = 3 /\ fin[1] = m[1] /\ fin[2] = m[2]
  <2>1. Len(m \o z) = Len(m) + Len(z) /\ \A i \in 1 .. Len(m) : (m \o z)[i] = m[i]
    <3>1. m \in Seq(Steps) /\ z \in Seq(Steps) BY <1>7, <1>9
    <3> QED BY <3>1, Concats
  <2>2. Len(fin) = Len(m) + Len(z) /\ \A i \in 1 .. Len(m) : fin[i] = m[i] BY <1>10, <2>1, Zenon
  <2>3. 1 \in 1 .. Len(m) /\ 2 \in 1 .. Len(m) BY <1>9
  <2> QED BY <1>7, <1>9, <2>2, <2>3
<1> QED BY <1>2, <1>3, <1>9, <1>11

LEMMA FlushFinish ==
    ASSUME NEW s, s = <<<<"flush", "source">>>> \o Finish("source")
    PROVE  /\ Only(s, {"flush", "resume?", "try", "close?"})
           /\ Len(s) = 4 /\ s[1] = <<"flush", "source">>
           /\ s[2] = <<"resume?", "source">> /\ s[3] = <<"try", "source">>
           /\ \A j \in 1 .. Len(s) : FlushOf(s[j], "source") => j = 1
<1>1. PICK f : f = <<"flush", "source">> OBVIOUS
<1>2. PICK q : q = <<f>> OBVIOUS
<1>3. PICK fin : fin = Finish("source") OBVIOUS
<1>4. PICK m : m = q \o fin OBVIOUS
<1>5. s = m BY <1>1, <1>2, <1>3, <1>4
<1>6. f \in Steps /\ f[1] = "flush"
  <2>1. "source" \in Nodes BY DEF Nodes
  <2> QED BY <1>1, <2>1, StepForms DEF NodeKinds
<1>7. /\ Only(fin, {"resume?", "try", "close?"}) /\ Len(fin) = 3 /\ fin \in Seq(Steps)
      /\ fin[1] = <<"resume?", "source">> /\ fin[2] = <<"try", "source">>
  BY <1>3, SourceFinish DEF Only
<1>8. /\ m \in Seq(Steps) /\ Len(m) = Len(fin) + 1 /\ m[1] = f
      /\ \A i \in 1 .. Len(fin) : m[i + 1] = fin[i]
  <2>1. fin \in Seq(Steps) /\ f \in Steps BY <1>6, <1>7
  <2> QED BY <1>2, <1>4, <2>1, FrontConcat
<1>9. /\ s \in Seq(Steps) /\ Len(s) = Len(fin) + 1 /\ s[1] = f
      /\ \A i \in 1 .. Len(fin) : s[i + 1] = fin[i]
  BY <1>5, <1>8, Zenon
<1>10. /\ 1 \in 1 .. Len(fin) /\ 2 \in 1 .. Len(fin) /\ 3 \in 1 .. Len(fin)
       /\ 1 + 1 = 2 /\ 2 + 1 = 3 /\ 3 + 1 = 4 /\ Len(s) = 4
  BY <1>7, <1>9
<1>11. s[1 + 1] = fin[1] /\ s[2 + 1] = fin[2] /\ s[3 + 1] = fin[3] BY <1>9, <1>10
<1>12. ASSUME NEW i \in 1 .. Len(s)
       PROVE  /\ s[i][1] \in {"flush", "resume?", "try", "close?"}
              /\ FlushOf(s[i], "source") => i = 1
  <2>1. i \in {1, 2, 3, 4} BY <1>10, <1>12
  <2>2. \A j \in {1, 2, 3} : fin[j][1] \in {"resume?", "try", "close?"} BY <1>7 DEF Only
  <2>3. CASE i = 1 BY <1>6, <1>9, <2>3
  <2>4. CASE i # 1
    <3>1. s[i][1] \in {"resume?", "try", "close?"} BY <1>10, <1>11, <2>1, <2>2, <2>4
    <3> QED BY <3>1 DEF FlushOf
  <2> QED BY <2>3, <2>4
<1> QED BY <1>1, <1>7, <1>9, <1>10, <1>11, <1>12 DEF Only

\* The steps of a thread that has landed its call.
LEMMA LandSteps ==
    ASSUME NEW p \in {<<>>, <<<<"flush", "source">>>>}, NEW s, s = p \o Finish("source")
    PROVE  /\ Only(s, {"flush", "resume?", "try", "close?"})
           /\ Len(s) >= 1 /\ s[1][1] \in {"flush", "resume?"}
           /\ p = <<>> => \A j \in 1 .. Len(s) : ~FlushOf(s[j], "source")
           /\ p # <<>> => /\ Len(s) = 4 /\ s[1] = <<"flush", "source">>
                          /\ s[2] = <<"resume?", "source">> /\ s[3] = <<"try", "source">>
                          /\ \A j \in 1 .. Len(s) : FlushOf(s[j], "source") => j = 1
<1>1. CASE p = <<>>
  <2>1. PICK fin : fin = Finish("source") OBVIOUS
  <2>2. /\ Only(fin, {"resume?", "try", "close?"}) /\ Len(fin) = 3 /\ fin \in Seq(Steps)
        /\ fin[1] = <<"resume?", "source">>
    BY <2>1, SourceFinish DEF Only
  <2>3. s = fin BY <1>1, <2>1, <2>2
  <2>4. \A i \in 1 .. Len(s) : s[i][1] \in {"resume?", "try", "close?"} BY <2>2, <2>3 DEF Only
  <2> QED BY <1>1, <2>2, <2>3, <2>4 DEF Only, FlushOf
<1>2. CASE p = <<<<"flush", "source">>>>
  <2>1. s = <<<<"flush", "source">>>> \o Finish("source") BY <1>2
  <2>2. p # <<>> BY <1>2
  <2>3. /\ Only(s, {"flush", "resume?", "try", "close?"})
        /\ Len(s) = 4 /\ s[1] = <<"flush", "source">>
        /\ s[2] = <<"resume?", "source">> /\ s[3] = <<"try", "source">>
        /\ \A j \in 1 .. Len(s) : FlushOf(s[j], "source") => j = 1
    BY <2>1, FlushFinish
  <2>4. s[1][1] = "flush" BY <2>3
  <2> QED BY <2>2, <2>3, <2>4
<1> QED BY <1>1, <1>2

\* What a thread pushes in front is followed by what it pushes next.
LEMMA FollowedFirst ==
    ASSUME ListsOK, NEW t \in Threads, NEW steps, NEW r, Advances(t, steps, r), Len(steps) \in Nat,
           Len(steps) >= 3, steps[2] = <<"resume?", "source">>, steps[3] = <<"try", "source">>
    PROVE  Followed(t, 1)'
<1>1. 2 \in 1 .. Len(steps) /\ 3 \in 1 .. Len(steps) OBVIOUS
<1>2. todo'[t][2] = steps[2] /\ todo'[t][3] = steps[3] /\ 3 \in 1 .. Len(todo'[t]) BY <1>1, Kept
<1>3. Len(todo'[t]) \in Nat BY Deeper
<1>4. /\ 1 + 2 <= Len(todo'[t])
      /\ todo'[t][1 + 1] = <<"resume?", "source">> /\ todo'[t][1 + 2] = <<"try", "source">>
  BY <1>2, <1>3
<1> QED BY <1>4 DEF Followed

LEMMA KeepLand ==
    ASSUME IInv, IInv', RestInv, KeepInv, NEW t \in Threads, Land(t), Arg(t) = "source"
    PROVE  KeepInv'
<1> DEFINE e == Head(todo[t])[3]
           f == CHOOSE i \in DOMAIN SourceLine : SourceLine[i] = t
           l == Put(SourceLine, f, e)
<1>0. TypeOK /\ ListsOK /\ ShapeInv /\ KeptInv /\ BackInv /\ EntryInv /\ FlusherInv /\ "source" \in Nodes
  BY DEF IInv, KeepInv, ServedInv, Nodes
<1>1. At(t, "land") /\ UNCHANGED <<state, shared, paused, source, pool>> BY DEF Land
<1>2. SourceLine \in Seq(Entries) BY <1>0 DEF TypeOK, SourceLine
<1>3. e \in {"landed", "emitted"} /\ e \in Entries
  BY <1>0, <1>1, AtFirst, StepShape DEF Kind, Entries
<1>4. f \in 1 .. Len(SourceLine) /\ SourceLine[f] = t
  <2>1. \E i \in 1 .. Len(node["source"].line) : node["source"].line[i] = t
    BY <1>1 DEF IInv, CallsInv, CallInv
  <2>2. DOMAIN SourceLine = 1 .. Len(SourceLine) BY <1>2, LenProperties
  <2> QED BY <2>1, <2>2 DEF SourceLine
<1>5. t \notin {"claimed", "landed", "emitted"} BY ThreadsAssumption
<1>6. node' = [node EXCEPT !["source"].line = l, !["source"].flushing = TRUE]
  BY DEF Land, Put, SourceLine
<1>7. PICK p \in {<<>>, <<<<"flush", "source">>>>} :
          /\ p = <<>> <=> node["source"].flushing
          /\ Go(t, p \o Finish("source"))
  BY DEF Land
<1> HIDE DEF f, e
<1>8. Cardinality(Places(l, "claimed")) = Claims("source")
  <2>1. Claims("source") \in Nat BY <1>0, Counts
  <2>2. Cardinality(Places(l, "claimed")) =
            Cardinality(Places(SourceLine, "claimed")) + (IF e = "claimed" THEN 1 ELSE 0)
              - (IF SourceLine[f] = "claimed" THEN 1 ELSE 0)
    BY <1>2, <1>3, <1>4, PlacesExcept DEF Put
  <2>3. e # "claimed" /\ SourceLine[f] # "claimed" BY <1>3, <1>4, <1>5
  <2> QED BY <2>1, <2>2, <2>3 DEF Claims, SourceLine
<1>9. PICK m : m = l OBVIOUS
<1>10. /\ m \in Seq(Entries) /\ m # <<>> /\ SourceLine # <<>>
       /\ \A u : u # e => (Sole(SourceLine, u) => Sole(m, u)) /\ (InLine(m, u) => InLine(SourceLine, u))
       /\ Sole(SourceLine, SourceLine[f]) /\ e # SourceLine[f] => ~InLine(m, SourceLine[f])
  BY <1>2, <1>3, <1>4, <1>9, EntryPut
<1>11. Cardinality(Places(m, "claimed")) = Claims("source") BY <1>8, <1>9
<1>12. /\ node'["source"].line = m /\ node'["source"].flushing
       /\ node'["source"].closeStarted = node["source"].closeStarted
       /\ node'["source"].opened = node["source"].opened
  <2> HIDE DEF l
  <2>1. node \in [Nodes -> [opened : BOOLEAN, closeStarted : BOOLEAN, closed : BOOLEAN,
                            line : Seq(Entries), flushing : BOOLEAN]]
    BY <1>0 DEF TypeOK
  <2> QED BY <1>0, <1>6, <1>9, <2>1
<1> HIDE DEF l
<1>13. PICK steps : steps = p \o Finish("source") OBVIOUS
<1>14. /\ Only(steps, {"flush", "resume?", "try", "close?"}) /\ Go(t, steps)
       /\ Len(steps) >= 1 /\ steps[1][1] \in {"flush", "resume?"}
       /\ p = <<>> => \A j \in 1 .. Len(steps) : ~FlushOf(steps[j], "source")
       /\ p # <<>> => /\ Len(steps) = 4 /\ steps[1] = <<"flush", "source">>
                      /\ steps[2] = <<"resume?", "source">> /\ steps[3] = <<"try", "source">>
                      /\ \A j \in 1 .. Len(steps) : FlushOf(steps[j], "source") => j = 1
  BY <1>7, <1>13, LandSteps
<1>15. RunStays /\ DoneStays /\ (Needed' => Needed) BY <1>1, <1>12, RunFacts
<1>16. /\ ControlInv' /\ Advances(t, steps, Len(todo[t]) - 1)
  BY <1>1, <1>14, <1>15, ControlGo
<1>17. ~Flushes(t, 1, "source") /\ Loss(t, "source") = 0 BY <1>0, <1>1, FirstNot
<1>18. BackInv'
  <2>1. Runs \in Nat /\ Claims("source") \in Nat BY <1>0, Counts
  <2>2. Runs' = Runs BY <1>1 DEF Runs, Places
  <2>3. Claims("source")' = Claims("source") BY <1>11, <1>12, CountsNext
  <2>4. Gain(steps, "source") = 0 BY <1>14 DEF Gain
  <2>5. Runs + Loss(t, "source") + Claims("source")' <= Runs' + Gain(steps, "source") + Claims("source")
    BY <1>17, <2>1, <2>2, <2>3, <2>4
  <2> QED BY <1>0, <1>1, <1>16, <2>5, BackStep
<1>19. EntryInv'
  <2>1. \A u \in Threads : Sole(SourceLine, u) /\ (InLine(SourceLine, u) => Serves(u))
    BY <1>0 DEF EntryInv
  <2>2. \A u \in Threads : u # e BY <1>3, ThreadsAssumption
  <2>3. ~InLine(node'["source"].line, t) BY <1>4, <1>10, <1>12, <2>1, <2>2
  <2>4. \A u \in Threads : Sole(node'["source"].line, u) BY <1>10, <1>12, <2>1, <2>2
  <2>5. \A u \in Threads \ {t} : InLine(node'["source"].line, u) => InLine(SourceLine, u)
    BY <1>10, <1>12, <2>2
  <2> QED BY <1>0, <1>16, <2>3, <2>4, <2>5, EntryStep
<1>20. FlusherInv'
  <2>1. CASE p = <<>>
    <3>1. SomeFlush' BY <1>0, <1>7, <1>16, <1>17, <2>1, SomeFlushStep DEF FlusherInv
    <3>2. FollowInv' BY <1>0, <1>14, <1>16, <2>1, FollowStep DEF FlusherInv
    <3> QED BY <1>12, <3>1, <3>2 DEF FlusherInv, SourceLine
  <2>2. CASE p # <<>>
    <3>1. Followed(t, 1)' BY <1>0, <1>14, <1>16, <2>2, FollowedFirst
    <3>2. FollowInv' BY <1>0, <1>14, <1>16, <2>2, <3>1, FollowStep DEF FlusherInv
    <3>3. 1 \in 1 .. Len(todo'[t]) /\ todo'[t][1] = <<"flush", "source">>
      <4>1. 1 \in 1 .. Len(steps) BY <1>14, <2>2
      <4> QED BY <1>0, <1>14, <1>16, <2>2, <4>1, Kept
    <3>4. Flushes(t, 1, "source")' BY <3>3 DEF Flushes, Kind
    <3>5. SomeFlush' BY <3>3, <3>4 DEF SomeFlush
    <3> QED BY <1>12, <3>2, <3>5 DEF FlusherInv, SourceLine
  <2> QED BY <2>1, <2>2
<1>21. KeptInv'
  <2>1. Returning' BY <1>12 DEF Returning, SourceLine
  <2> QED BY <1>0, <1>1, <1>10, <1>15, <2>1, KeptReturning
<1> QED BY <1>16, <1>18, <1>19, <1>20, <1>21 DEF KeepInv, ServedInv

\* A list that stays: its first step is taken, and pushed again.
LEMMA SameAdvances ==
    ASSUME ListsOK, NEW t \in Threads, Len(todo[t]) >= 1, todo' = todo,
           NEW steps, steps = <<todo[t][1]>>
    PROVE  Advances(t, steps, Len(todo[t]) - 1)
<1>1. /\ Len(todo[t]) \in Nat /\ todo[t][1] \in Steps /\ todo[t] \in Seq(Steps)
      /\ todo \in [Threads -> Seq(Steps)]
  BY AtFirst DEF ListsOK
<1>2. steps \in Seq(Steps) /\ Len(steps) = 1 /\ steps[1] = todo[t][1] BY <1>1
<1>3. Pushed(t, steps, Len(todo[t]) - 1) BY <1>1, <1>2 DEF Pushed
<1> QED BY <1>1, <1>3 DEF Advances

\* The thread that flushes the source looks after it next.
LEMMA SourceFlusher ==
    ASSUME IInv, ServedInv, NEW t \in Threads, NEW k \in {"flush", "release"}, At(t, k), Arg(t) = "source"
    PROVE  /\ node["source"].flushing /\ Flushes(t, 1, "source") /\ Followed(t, 1)
           /\ Len(todo[t]) \in Nat /\ Len(todo[t]) >= 3
           /\ todo[t][2] = <<"resume?", "source">> /\ todo[t][3] = <<"try", "source">>
           /\ k = "release" => SourceLine # <<>> /\ SourceLine[1] = "emitted"
<1>1. /\ node["source"].flushing /\ Flushes(t, 1, "source")
      /\ k = "release" => SourceLine # <<>> /\ SourceLine[1] = "emitted"
  BY Flusher DEF FirstEmitted, SourceLine
<1>2. Followed(t, 1) BY <1>1 DEF ServedInv, FlusherInv, FollowInv, Flushes
<1>3. Len(todo[t]) \in Nat BY AtFirst DEF IInv
<1>4. /\ 1 + 2 <= Len(todo[t])
      /\ todo[t][1 + 1] = <<"resume?", "source">> /\ todo[t][1 + 2] = <<"try", "source">>
  BY <1>2 DEF Followed
<1> QED BY <1>1, <1>2, <1>3, <1>4

\* What is due is taken from the line.
LEMMA KeepTail ==
    ASSUME IInv, IInv', RestInv, KeepInv, NEW t \in Threads, NEW k \in {"flush", "release"}, At(t, k),
           Arg(t) = "source", SourceLine # <<>>, SourceLine[1] \in {"landed", "emitted"},
           node' = [node EXCEPT !["source"].line = Tail(@)],
           UNCHANGED <<state, shared, paused, source, pool>>,
           NEW steps, Advances(t, steps, Len(todo[t]) - 1), Len(steps) = 1,
           steps[1] = <<"flush", "source">>
    PROVE  KeepInv'
<1>0. TypeOK /\ ListsOK /\ ShapeInv /\ KeptInv /\ BackInv /\ EntryInv /\ FlusherInv /\ "source" \in Nodes
  BY DEF IInv, KeepInv, ServedInv, Nodes
<1>1. /\ node["source"].flushing /\ Flushes(t, 1, "source") /\ Followed(t, 1)
      /\ Len(todo[t]) \in Nat /\ Len(todo[t]) >= 3
      /\ todo[t][2] = <<"resume?", "source">> /\ todo[t][3] = <<"try", "source">>
  BY SourceFlusher DEF KeepInv
<1>2. /\ node'["source"].line = Tail(SourceLine) /\ node'["source"].flushing
      /\ node'["source"].closeStarted = node["source"].closeStarted
      /\ node'["source"].opened = node["source"].opened
      /\ Claims("source")' = Claims("source") /\ Claims("source") \in Nat
  <2>1. SourceLine # <<>> /\ node["source"].line = SourceLine BY DEF SourceLine
  <2>2. node["source"].line # <<>> /\ node["source"].line[1] \in {"landed", "emitted"}
    BY DEF SourceLine
  <2>3. \A m \in Nodes : /\ node'[m].opened = node[m].opened
                         /\ node'[m].closeStarted = node[m].closeStarted
                         /\ node'[m].flushing = node[m].flushing
                         /\ node'[m].line = IF m = "source" THEN Tail(node["source"].line)
                                            ELSE node[m].line
    BY <1>0, <2>2, LineTail
  <2>4. \A m \in Nodes : Claims(m)' = Claims(m) /\ Claims(m) \in Nat BY <1>0, <2>2, LineTail
  <2> QED BY <1>0, <1>1, <2>1, <2>3, <2>4
<1>3. RunStays /\ DoneStays /\ (Needed' => Needed) BY <1>2, RunFacts
<1>4. ControlInv'
  <2>1. Kind(t, 1) \notin {"freed", "cancelled", "invalidate", "renew"} BY <1>1 DEF Flushes
  <2>2. \A i \in 1 .. Len(steps) : steps[i] = <<"flush", "source">> OBVIOUS
  <2>3. \A i \in 1 .. Len(steps) : /\ steps[i][1] \notin {"stop", "forget", "initialized"}
                                   /\ steps[i][1] = "close" /\ steps[i][3] => Stopped'
    BY <2>2
  <2> QED BY <1>3, <2>1, <2>3, ControlStep DEF KeepInv
<1>5. BackInv'
  <2>1. Runs \in Nat /\ Runs' = Runs BY <1>0, Counts DEF Runs, Places
  <2>2. Gain(steps, "source") = 0 BY DEF Gain
  <2>3. Loss(t, "source") = 0 BY <1>0, FirstNot
  <2>4. Runs + Loss(t, "source") + Claims("source")' <= Runs' + Gain(steps, "source") + Claims("source")
    BY <1>2, <2>1, <2>2, <2>3
  <2> QED BY <1>0, <2>4, BackStep
<1>6. EntryInv'
  <2>1. \A u \in Threads : Sole(SourceLine, u) /\ (InLine(SourceLine, u) => Serves(u))
    BY <1>0 DEF EntryInv
  <2>2. SourceLine \in Seq(Entries) BY <1>0 DEF TypeOK, SourceLine
  <2>3. \A u : /\ Sole(SourceLine, u) => Sole(node'["source"].line, u)
               /\ InLine(node'["source"].line, u) => InLine(SourceLine, u)
    BY <1>2, <2>2, EntryTail
  <2>4. ~Serves(t) BY <1>0, FirstNot DEF OwnKinds
  <2>5. ~InLine(node'["source"].line, t) BY <2>1, <2>3, <2>4
  <2>6. \A u \in Threads : Sole(node'["source"].line, u) BY <2>1, <2>3
  <2>7. \A u \in Threads \ {t} : InLine(node'["source"].line, u) => InLine(SourceLine, u) BY <2>3
  <2> QED BY <1>0, <2>5, <2>6, <2>7, EntryStep
<1>7. FlusherInv'
  <2>1. 2 \in 2 .. Len(todo[t]) /\ 3 \in 2 .. Len(todo[t]) /\ 1 \in 1 .. Len(steps) BY <1>1
  <2>2. /\ 3 + Len(steps) - 1 \in 1 .. Len(todo'[t])
        /\ todo'[t][2 + Len(steps) - 1] = todo[t][2] /\ todo'[t][3 + Len(steps) - 1] = todo[t][3]
        /\ 1 \in 1 .. Len(todo'[t]) /\ todo'[t][1] = <<"flush", "source">>
    BY ZenonT(60), <1>0, <2>1, Kept
  <2>3. 2 + Len(steps) - 1 = 1 + 1 /\ 3 + Len(steps) - 1 = 1 + 2 OBVIOUS
  <2>4. Len(todo'[t]) \in Nat BY <1>0, Deeper
  <2>5. Followed(t, 1)' BY <1>1, <2>2, <2>3, <2>4 DEF Followed
  <2>6. \A j \in 1 .. Len(steps) : j = 1 OBVIOUS
  <2>7. FollowInv' BY <1>0, <2>5, <2>6, FollowStep DEF FlusherInv
  <2>8. Flushes(t, 1, "source")' BY <2>2 DEF Flushes, Kind
  <2>9. SomeFlush' BY <2>2, <2>8 DEF SomeFlush
  <2> QED BY <1>2, <2>7, <2>9 DEF FlusherInv, SourceLine
<1>8. KeptInv'
  <2>1. Returning' BY <1>2 DEF Returning
  <2> QED BY <1>0, <1>3, <2>1, KeptReturning
<1> QED BY <1>4, <1>5, <1>6, <1>7, <1>8 DEF KeepInv, ServedInv

LEMMA KeepRelease ==
    ASSUME IInv, IInv', RestInv, KeepInv, NEW t \in Threads, Release(t), Arg(t) = "source"
    PROVE  KeepInv'
<1>1. /\ At(t, "release") /\ UNCHANGED <<state, shared, paused, source, pool>>
      /\ Go(t, <<<<"flush", "source">>>>)
  BY DEF Release
<1>2. node' = [node EXCEPT !["source"].line = Tail(@)] BY DEF Release
<1>3. SourceLine # <<>> /\ SourceLine[1] \in {"landed", "emitted"}
  BY <1>1, SourceFlusher DEF KeepInv
<1>4. PICK steps : steps = <<<<"flush", "source">>>> OBVIOUS
<1>5. Len(steps) = 1 /\ steps[1] = <<"flush", "source">> BY <1>4
<1>6. Advances(t, steps, Len(todo[t]) - 1)
  <2>1. <<"flush", "source">> \in Steps
    <3>1. "source" \in Nodes BY DEF Nodes
    <3> QED BY <3>1, StepForms DEF NodeKinds
  <2>2. steps \in Seq(Steps) BY <1>4, <2>1
  <2> QED BY <1>1, <1>4, <2>2, GoAdvances DEF IInv
<1> QED BY <1>1, <1>2, <1>3, <1>5, <1>6, KeepTail

LEMMA FlushForm ==
    ASSUME NEW s \in Steps, s[1] = "flush", s[2] = "source"
    PROVE  s = <<"flush", "source">>
BY DEF Steps, PlainKinds, NodeKinds

LEMMA KeepFlushDrop ==
    ASSUME IInv, IInv', RestInv, KeepInv, NEW t \in Threads, At(t, "flush"), Arg(t) = "source",
           SourceLine # <<>>, SourceLine[1] \in {"landed", "emitted"},
           node' = [node EXCEPT !["source"].line = Tail(@)], UNCHANGED todo,
           UNCHANGED <<state, shared, paused, source, pool>>
    PROVE  KeepInv'
<1>1. /\ Len(todo[t]) >= 1 /\ Len(todo[t]) \in Nat /\ todo[t][1][1] = "flush" /\ todo[t][1][2] = "source"
      /\ todo[t][1] \in Steps
  BY AtFirst DEF IInv, Kind
<1>2. todo[t][1] = <<"flush", "source">> BY <1>1, FlushForm
<1>3. PICK steps : steps = <<todo[t][1]>> OBVIOUS
<1>4. Len(steps) = 1 /\ steps[1] = <<"flush", "source">> BY <1>2, <1>3
<1>5. Advances(t, steps, Len(todo[t]) - 1) BY <1>1, <1>3, SameAdvances DEF IInv
<1> QED BY <1>4, <1>5, KeepTail

\* A packet is sent on; after that it is taken from the line.
LEMMA KeepEmit ==
    ASSUME IInv, IInv', RestInv, KeepInv, NEW t \in Threads, At(t, "flush"), Arg(t) = "source",
           SourceLine # <<>>, Go(t, <<<<"try", "sink">>, <<"release", "source">>>>),
           UNCHANGED <<state, shared, paused, source, pool, node>>
    PROVE  KeepInv'
<1>0. TypeOK /\ ListsOK /\ ShapeInv /\ KeptInv /\ BackInv /\ EntryInv /\ FlusherInv /\ "source" \in Nodes
  BY DEF IInv, KeepInv, ServedInv, Nodes
<1>1. /\ node["source"].flushing /\ Flushes(t, 1, "source") /\ Followed(t, 1)
      /\ Len(todo[t]) \in Nat /\ Len(todo[t]) >= 3
      /\ todo[t][2] = <<"resume?", "source">> /\ todo[t][3] = <<"try", "source">>
  BY SourceFlusher DEF KeepInv
<1>2. PICK a, b : a = <<"try", "sink">> /\ b = <<"release", "source">> OBVIOUS
<1>3. a \in Steps /\ b \in Steps
  <2>1. "sink" \in Nodes BY DEF Nodes
  <2> QED BY <1>0, <1>2, <2>1, StepForms DEF NodeKinds
<1>4. a[1] = "try" /\ b[1] = "release" /\ b[2] = "source" BY <1>2
<1>5. PICK steps : steps = <<a, b>> OBVIOUS
<1>6. /\ Only(steps, {"try", "release"}) /\ Go(t, steps)
      /\ Len(steps) = 2 /\ steps[1] = a /\ steps[2] = b
  BY <1>2, <1>3, <1>4, <1>5, OnlyTwo
<1>7. RunStays /\ DoneStays /\ (Needed' => Needed) BY RunFacts
<1>8. ControlInv' /\ Advances(t, steps, Len(todo[t]) - 1) BY <1>6, <1>7, ControlGo
<1>9. ~Serves(t) /\ Loss(t, "source") = 0 BY <1>0, FirstNot DEF OwnKinds
<1>10. BackInv'
  <2>1. Runs \in Nat /\ Runs' = Runs BY <1>0, Counts DEF Runs, Places
  <2>2. Claims("source") \in Nat /\ Claims("source")' = Claims("source")
    BY <1>0, Counts DEF Claims, Places
  <2>3. Gain(steps, "source") = 0 BY <1>4, <1>6 DEF Gain
  <2>4. Runs + Loss(t, "source") + Claims("source")' <= Runs' + Gain(steps, "source") + Claims("source")
    BY <1>9, <2>1, <2>2, <2>3
  <2> QED BY <1>0, <1>8, <2>4, BackStep
<1>11. EntryInv' BY <1>0, <1>8, <1>9, EntryStays DEF SourceLine
<1>12. FlusherInv'
  <2>1. /\ 2 \in 2 .. Len(todo[t]) /\ 3 \in 2 .. Len(todo[t])
        /\ 1 \in 1 .. Len(steps) /\ 2 \in 1 .. Len(steps)
    BY <1>1, <1>6
  <2>2. /\ 3 + Len(steps) - 1 \in 1 .. Len(todo'[t])
        /\ todo'[t][2 + Len(steps) - 1] = todo[t][2] /\ todo'[t][3 + Len(steps) - 1] = todo[t][3]
        /\ 2 \in 1 .. Len(todo'[t]) /\ todo'[t][2] = b
    <3>1. ListsOK /\ Advances(t, steps, Len(todo[t]) - 1) BY <1>0, <1>8
    <3>2. /\ \A i \in 1 .. Len(steps) : i \in 1 .. Len(todo'[t]) /\ todo'[t][i] = steps[i]
          /\ \A i \in 2 .. Len(todo[t]) :
                /\ i + Len(steps) - 1 \in 1 .. Len(todo'[t])
                /\ todo'[t][i + Len(steps) - 1] = todo[t][i]
      BY <3>1, Kept
    <3>3. steps[2] = b BY <1>6
    <3> QED BY <2>1, <3>2, <3>3
  <2>3. 2 + Len(steps) - 1 = 2 + 1 /\ 3 + Len(steps) - 1 = 2 + 2 BY <1>6
  <2>4. Len(todo'[t]) \in Nat BY <1>0, <1>8, Deeper
  <2>5. Followed(t, 2)' BY <1>1, <2>2, <2>3, <2>4 DEF Followed
  <2>6. \A j \in 1 .. Len(steps) : FlushOf(steps[j], "source") => j = 2
    <3>1. \A j \in 1 .. Len(steps) : j = 1 \/ j = 2 BY <1>6
    <3> QED BY <1>4, <1>6, <3>1 DEF FlushOf
  <2>7. FollowInv' BY <1>0, <1>8, <2>5, <2>6, FollowStep DEF FlusherInv
  <2>8. Flushes(t, 2, "source")' BY <1>4, <2>2 DEF Flushes, Kind
  <2>9. SomeFlush' BY <2>2, <2>8 DEF SomeFlush
  <2> QED BY <1>1, <2>7, <2>9 DEF FlusherInv, SourceLine
<1>13. KeptInv'
  <2>1. Returning' BY DEF Returning, SourceLine
  <2> QED BY <1>0, <1>7, <2>1, KeptReturning
<1> QED BY <1>8, <1>10, <1>11, <1>12, <1>13 DEF KeepInv, ServedInv

\* Nothing is due: the flusher goes on to look after the source.
LEMMA KeepFlushEnd ==
    ASSUME IInv, IInv', RestInv, KeepInv, NEW t \in Threads, At(t, "flush"), Arg(t) = "source",
           ~FirstDone(SourceLine), node' = [node EXCEPT !["source"].flushing = FALSE], Go(t, <<>>),
           UNCHANGED <<state, shared, paused, source, pool>>
    PROVE  KeepInv'
<1>0. TypeOK /\ ListsOK /\ ShapeInv /\ KeptInv /\ BackInv /\ EntryInv /\ FlusherInv /\ "source" \in Nodes
  BY DEF IInv, KeepInv, ServedInv, Nodes
<1>1. /\ Len(todo[t]) \in Nat /\ Len(todo[t]) >= 3
      /\ todo[t][2] = <<"resume?", "source">> /\ todo[t][3] = <<"try", "source">>
  BY SourceFlusher DEF KeepInv
<1>2. /\ node'["source"].line = SourceLine /\ ~node'["source"].flushing
      /\ node'["source"].closeStarted = node["source"].closeStarted
      /\ node'["source"].opened = node["source"].opened
  <2>1. \A m \in Nodes : /\ node'[m].opened = node[m].opened
                         /\ node'[m].closeStarted = node[m].closeStarted
                         /\ node'[m].line = node[m].line
    BY <1>0, FlushingChange
  <2>2. node'["source"].flushing = FALSE BY <1>0 DEF TypeOK
  <2> QED BY <1>0, <2>1, <2>2 DEF SourceLine
<1>3. PICK steps : steps = <<>> /\ Len(steps) = 0 /\ Only(steps, {}) BY OnlyNil
<1>4. RunStays /\ DoneStays /\ (Needed' => Needed) BY <1>2, RunFacts
<1>5. ControlInv' /\ Advances(t, steps, Len(todo[t]) - 1) BY <1>3, <1>4, ControlGo
<1>6. ~Serves(t) /\ Loss(t, "source") = 0 BY <1>0, FirstNot DEF OwnKinds
<1>7. BackInv'
  <2>1. Runs \in Nat /\ Runs' = Runs BY <1>0, Counts DEF Runs, Places
  <2>2. Claims("source") \in Nat /\ Claims("source")' = Claims("source")
    BY <1>0, <1>2, Counts, CountsNext DEF Claims, SourceLine
  <2>3. Gain(steps, "source") = 0 BY <1>3 DEF Gain
  <2>4. Runs + Loss(t, "source") + Claims("source")' <= Runs' + Gain(steps, "source") + Claims("source")
    BY <1>6, <2>1, <2>2, <2>3
  <2> QED BY <1>0, <1>5, <2>4, BackStep
<1>8. EntryInv' BY <1>0, <1>2, <1>5, <1>6, EntryStays
<1>9. FlusherInv'
  <2>1. FollowInv' BY <1>0, <1>3, <1>5, FollowStep DEF FlusherInv
  <2> QED BY <1>2, <2>1 DEF FlusherInv, SourceLine
<1>10. KeptInv'
  <2>1. 2 \in 2 .. Len(todo[t]) /\ 3 \in 2 .. Len(todo[t]) BY <1>1
  <2>2. Someone({<<"resume?", "source">>})' /\ Someone({<<"try", "source">>})'
    BY <1>0, <1>1, <1>5, <2>1, HoldsMove
  <2>3. Tended' /\ Tried' BY <2>2 DEF Tended, Tried, TendSteps, TrySteps, Someone, Holds
  <2>4. ~Owes(t) BY OwesNot DEF TokenKinds
  <2>5. (AnyReady => AnyReady') /\ (DelayedWake => DelayedWake') BY <1>0, WakesMove
  <2>6. Awaited => Awaited' BY <1>0, <1>5, <2>4, <2>5, AwaitedMove
  <2> QED BY <1>0, <1>4, <2>3, <2>6, KeptMove
<1> QED BY <1>5, <1>7, <1>8, <1>9, <1>10 DEF KeepInv, ServedInv

LEMMA KeepFlush ==
    ASSUME IInv, IInv', RestInv, KeepInv, NEW t \in Threads, Flush(t), Arg(t) = "source"
    PROVE  KeepInv'
<1> DEFINE A == SourceLine # <<>> /\ SourceLine[1] = "emitted" /\ ~Stopped
           B == SourceLine # <<>> /\ (SourceLine[1] = "landed" \/ (SourceLine[1] = "emitted" /\ Stopped))
<1>1. At(t, "flush") /\ UNCHANGED <<state, shared, paused, source, pool>> BY DEF Flush
<1>2. CASE A
  <2>1. Go(t, <<<<"try", "sink">>, <<"release", "source">>>>) /\ UNCHANGED node
    BY <1>2 DEF Flush, SourceLine
  <2> QED BY <1>1, <1>2, <2>1, KeepEmit
<1>3. CASE B /\ ~A
  <2>1. node' = [node EXCEPT !["source"].line = Tail(@)] /\ UNCHANGED todo
    BY <1>3 DEF Flush, SourceLine
  <2>2. SourceLine # <<>> /\ SourceLine[1] \in {"landed", "emitted"} BY <1>3
  <2> QED BY <1>1, <2>1, <2>2, KeepFlushDrop
<1>4. CASE ~A /\ ~B
  <2>1. node' = [node EXCEPT !["source"].flushing = FALSE] /\ Go(t, <<>>)
    BY <1>4 DEF Flush, SourceLine
  <2>2. ~FirstDone(SourceLine) BY <1>4 DEF FirstDone
  <2> QED BY <1>1, <2>1, <2>2, KeepFlushEnd
<1> QED BY <1>2, <1>3, <1>4

\* What becomes of the tasks when one is taken.
Takes(due, ready) ==
    /\ ready = pool.ready \o due /\ ready # <<>>
    /\ pool' = [pool EXCEPT !.ready = Tail(ready), !.running = @ + 1,
                            !.delayed = @ \ {due[i] : i \in DOMAIN due}]

LEMMA TakenTasks ==
    ASSUME TypeOK, NEW due \in Due, NEW ready, Takes(due, ready)
    PROVE  /\ \A i \in 1 .. Len(pool.ready) : i \in 1 .. Len(ready) /\ ready[i] = pool.ready[i]
           /\ \A g \in pool.delayed : g \in pool'.delayed \/ \E i \in 1 .. Len(ready) : ready[i] = g
           /\ \A i \in 1 .. Len(ready) :
                 i # 1 => i - 1 \in 1 .. Len(pool'.ready) /\ pool'.ready[i - 1] = ready[i]
           /\ Runs' = Runs - (IF ready[1] = RunTask THEN 1 ELSE 0)
           /\ Runs \in Nat
<1>0. /\ ready = pool.ready \o due /\ ready # <<>>
      /\ pool' = [pool EXCEPT !.ready = Tail(ready), !.running = @ + 1,
                              !.delayed = @ \ {due[i] : i \in DOMAIN due}]
  BY DEF Takes
<1>1. ready \in Seq(Nat) /\ Len(ready) \in Nat /\ Len(pool.ready) \in Nat BY <1>0, DueForm
<1>2. /\ Tail(ready) \in Seq(Nat) /\ Len(Tail(ready)) = Len(ready) - 1
      /\ \A i \in 1 .. Len(Tail(ready)) : Tail(ready)[i] = ready[i + 1]
      /\ Len(ready) >= 1
  BY <1>0, <1>1, TailFacts
<1> DEFINE gone == {due[i] : i \in DOMAIN due}
<1>3. pool' = [pool EXCEPT !.ready = Tail(ready), !.running = @ + 1, !.delayed = pool.delayed \ gone]
  BY <1>0 DEF TypeOK
<1>4. pool.ready \in Seq(Nat) /\ pool.delayed \subseteq Nat \ {0} BY DEF TypeOK
<1>5. due = <<>> \/ \E g \in pool.delayed : due = <<g>> BY DEF Due
<1>6. \A g : g \in gone => \E i \in 1 .. Len(ready) : ready[i] = g
  <2> SUFFICES ASSUME NEW g \in gone PROVE \E i \in 1 .. Len(ready) : ready[i] = g OBVIOUS
  <2>1. PICK d \in pool.delayed : due = <<d>>
    <3>1. due # <<>> OBVIOUS
    <3> QED BY <1>5, <3>1
  <2>2. g = d BY <2>1
  <2>3. d \in Nat BY <1>4
  <2>4. ready = Append(pool.ready, d) BY <1>0, <1>4, <2>1, <2>3
  <2>5. Len(ready) = Len(pool.ready) + 1 /\ ready[Len(pool.ready) + 1] = d
    BY <1>4, <2>3, <2>4, AppendProperties
  <2> QED BY <1>1, <2>2, <2>5
<1>7. \A i \in 1 .. Len(pool.ready) : i \in 1 .. Len(ready) /\ ready[i] = pool.ready[i]
  <2>1. CASE due = <<>>
    <3>1. ready = pool.ready BY <1>0, <1>4, <2>1
    <3> QED BY <3>1
  <2>2. CASE due # <<>>
    <3>1. PICK d \in pool.delayed : due = <<d>> BY <1>5, <2>2
    <3>2. d \in Nat BY <1>4
    <3>3. ready = Append(pool.ready, d) BY <1>0, <1>4, <3>1, <3>2
    <3>4. /\ Len(ready) = Len(pool.ready) + 1
          /\ \A i \in 1 .. Len(pool.ready) : ready[i] = pool.ready[i]
      BY <1>4, <3>2, <3>3, AppendProperties
    <3> QED BY <1>1, <3>4
  <2> QED BY <2>1, <2>2
<1> HIDE DEF gone
<1>8. pool'.ready = Tail(ready) /\ pool'.delayed = pool.delayed \ gone BY <1>3 DEF TypeOK
<1>9. ASSUME NEW i \in 1 .. Len(ready), i # 1
      PROVE  i - 1 \in 1 .. Len(pool'.ready) /\ pool'.ready[i - 1] = ready[i]
  <2>1. i - 1 \in 1 .. Len(Tail(ready)) /\ (i - 1) + 1 = i BY <1>1, <1>2, <1>9
  <2> QED BY <1>2, <1>8, <2>1
<1>10. Runs' = Runs - (IF ready[1] = RunTask THEN 1 ELSE 0)
  <2>1. Cardinality(Places(ready, RunTask)) = Runs BY <1>0, DueReady
  <2>2. Cardinality(Places(Tail(ready), RunTask)) = Runs - (IF ready[1] = RunTask THEN 1 ELSE 0)
    BY <1>0, <1>1, <2>1, PlacesTail
  <2> QED BY <1>8, <2>2 DEF Runs
<1>11. Runs \in Nat BY Counts
<1> QED BY <1>6, <1>7, <1>8, <1>9, <1>10, <1>11

LEMMA KeepTake ==
    ASSUME IInv, IInv', RestInv, KeepInv, NEW w \in Workers, Take(w)
    PROVE  KeepInv'
<1>0. /\ TypeOK /\ ListsOK /\ ShapeInv /\ ControlInv /\ KeptInv /\ BackInv /\ EntryInv /\ FlusherInv
      /\ w \in Threads /\ "source" \in Nodes
  BY DEF IInv, KeepInv, ServedInv, Nodes, Threads
<1>1. PICK due \in Due :
         /\ pool.ready \o due # <<>>
         /\ pool' = [pool EXCEPT !.ready = Tail(pool.ready \o due), !.running = @ + 1,
                                 !.delayed = @ \ {due[i] : i \in DOMAIN due}]
         /\ Call(w, StepsOf(Head(pool.ready \o due)))
  BY DEF Take
<1>2. PICK ready : ready = pool.ready \o due OBVIOUS
<1>3. /\ Len(ready) >= 1 /\ Head(ready) = ready[1] /\ ready[1] \in Nat /\ pool'.stop = pool.stop
  BY <1>0, <1>1, <1>2, TakenPool
<1>4. /\ \A i \in 1 .. Len(pool.ready) : i \in 1 .. Len(ready) /\ ready[i] = pool.ready[i]
      /\ \A g \in pool.delayed : g \in pool'.delayed \/ \E i \in 1 .. Len(ready) : ready[i] = g
      /\ \A i \in 1 .. Len(ready) :
            i # 1 => i - 1 \in 1 .. Len(pool'.ready) /\ pool'.ready[i - 1] = ready[i]
      /\ Runs' = Runs - (IF ready[1] = RunTask THEN 1 ELSE 0)
      /\ Runs \in Nat
  <2>1. Takes(due, ready) BY <1>1, <1>2 DEF Takes
  <2> QED BY <1>0, <2>1, TakenTasks
<1>5. PICK steps : steps = StepsOf(ready[1]) OBVIOUS
<1>6. /\ steps \in Seq(Steps) /\ Len(steps) = 2
      /\ steps[1][1] \in {"run", "wake"} /\ steps[2][1] = "completed"
      /\ steps[1][1] = "wake" => ready[1] # RunTask /\ steps[1][2] = ready[1]
      /\ IF ready[1] = RunTask THEN steps[1] = <<"run", "source">> ELSE steps[1][1] = "wake"
  BY <1>3, <1>5, TakenSteps, TaskSteps
<1>7. Idle(w) /\ Call(w, steps) BY <1>1, <1>2, <1>3, <1>5 DEF Take
<1>8. UNCHANGED <<state, shared, paused, source, node>> BY DEF Take
<1>9. Advances(w, steps, 0) /\ Len(todo[w]) = 0 BY <1>0, <1>6, <1>7, CallAdvances
<1>10. \A i \in 1 .. Len(steps) : steps[i][1] \in {"run", "wake", "completed"}
  <2>1. \A i \in 1 .. 2 : i = 1 \/ i = 2 OBVIOUS
  <2> QED BY <1>6, <2>1
<1>11. RunStays /\ DoneStays /\ (Needed' => Needed) BY <1>3, <1>8, RunFacts
<1>12. ~(Len(todo[w]) >= 1) BY <1>9
<1>13. ControlInv'
  <2>1. \A i \in 1 .. Len(steps) : /\ steps[i][1] \notin {"stop", "forget", "initialized"}
                                   /\ steps[i][1] = "close" /\ steps[i][3] => Stopped'
    BY <1>10
  <2> QED BY <1>0, <1>3, <1>9, <1>11, <1>12, <2>1, ControlStep
<1>14. \A k : ~At(w, k) BY <1>7 DEF At
<1>15. BackInv'
  <2>1. Claims("source") \in Nat /\ Claims("source")' = Claims("source")
    BY <1>0, <1>8, Counts DEF Claims
  <2>2. Loss(w, "source") = 0 BY <1>14 DEF Loss
  <2>3. Gain(steps, "source") = IF ready[1] = RunTask THEN 1 ELSE 0
    <3>1. CASE ready[1] = RunTask
      <4>1. steps[1] = <<"run", "source">> BY <1>6, <3>1
      <4>2. steps[1][1] = "run" /\ steps[1][2] = "source" BY <4>1
      <4> QED BY <1>6, <3>1, <4>2 DEF Gain
    <3>2. CASE ready[1] # RunTask
      <4>1. steps[1][1] = "wake" BY <1>6, <3>2
      <4> QED BY <3>2, <4>1 DEF Gain
    <3> QED BY <3>1, <3>2
  <2>4. Runs + Loss(w, "source") + Claims("source")' <= Runs' + Gain(steps, "source") + Claims("source")
    BY <1>4, <2>1, <2>2, <2>3
  <2>5. pool.stop => pool'.stop BY <1>3
  <2> QED BY <1>0, <1>9, <2>4, <2>5, BackStep
<1>16. EntryInv'
  <2>1. ~Serves(w) BY <1>14 DEF Serves
  <2>2. node'["source"].line = SourceLine BY <1>8 DEF SourceLine
  <2> QED BY <1>0, <1>9, <2>1, <2>2, EntryStays
<1>17. FlusherInv'
  <2>1. ~Flushes(w, 1, "source") BY <1>9 DEF Flushes
  <2>2. \A j \in 1 .. Len(steps) : ~FlushOf(steps[j], "source") BY <1>10 DEF FlushOf
  <2>3. node'["source"].line = SourceLine /\ node'["source"].flushing = node["source"].flushing
    BY <1>8 DEF SourceLine
  <2> QED BY <1>0, <1>9, <2>1, <2>2, <2>3, FlusherStays
<1>18. Awaited => Awaited'
  <2>1. ASSUME NEW i \in 1 .. Len(ready), ready[i] = source.generation, source.generation # RunTask
        PROVE  Awaited'
    <3>1. CASE i = 1
      <4>1. steps[1][1] = "wake" /\ steps[1][2] = source.generation BY <1>6, <2>1, <3>1
      <4>2. 1 \in 1 .. Len(steps) BY <1>6
      <4>3. 1 \in 1 .. Len(todo'[w]) /\ todo'[w][1] = steps[1] BY <1>0, <1>9, <4>2, Kept
      <4>4. At(w, "wake")' /\ Arg(w)' = source.generation
        <5>1. ListsOK' BY DEF IInv
        <5>2. Len(todo'[w]) >= 1 BY <4>3, <5>1, <1>0, AtFirstNext
        <5> QED BY <1>0, <4>1, <4>3, <5>1, <5>2, AtFirstNext
      <4> QED BY <1>0, <1>8, <4>4 DEF Owes, Awaited
    <3>2. CASE i # 1
      <4>1. i - 1 \in 1 .. Len(pool'.ready) /\ pool'.ready[i - 1] = source'.generation
        BY <1>4, <1>8, <2>1, <3>2
      <4> QED BY <1>8, <2>1, <4>1 DEF AnyReady, ReadyWake, Awaited
    <3> QED BY <3>1, <3>2
  <2>2. AnyReady => Awaited' BY <1>4, <2>1 DEF AnyReady, ReadyWake
  <2>3. DelayedWake => Awaited'
    <3>1. source.generation # RunTask \/ ~DelayedWake BY <1>0 DEF TypeOK, DelayedWake, RunTask
    <3>2. DelayedWake => source.generation \in pool'.delayed
                         \/ \E i \in 1 .. Len(ready) : ready[i] = source.generation
      BY <1>4 DEF DelayedWake
    <3> QED BY <1>8, <2>1, <3>1, <3>2 DEF DelayedWake, Awaited
  <2>4. ASSUME NEW u \in Threads, Owes(u) PROVE Awaited'
    <3>1. u # w BY <1>14, <2>4 DEF Owes
    <3>2. todo'[u] = todo[u] BY <1>0, <1>9, <3>1, Deeper
    <3>3. Owes(u)' BY <1>8, <2>4, <3>2 DEF Owes, At, Arg, Idle
    <3> QED BY <3>3 DEF Awaited
  <2> QED BY <2>2, <2>3, <2>4 DEF Awaited
<1>19. KeptInv'
  <2>1. (Tended => Tended') /\ (Tried => Tried')
    <3>1. \A S : Someone(S) => Someone(S)' BY <1>0, <1>9, <1>12, HoldsMove
    <3>2. Returning' <=> Returning BY <1>8 DEF Returning, SourceLine
    <3> QED BY <3>1, <3>2 DEF Tended, Tried
  <2> QED BY <1>0, <1>8, <1>11, <1>18, <2>1, KeptMove
<1> QED BY <1>13, <1>15, <1>16, <1>17, <1>19 DEF KeepInv, ServedInv

LEMMA KeepStopPool ==
    ASSUME IInv, IInv', RestInv, KeepInv, StopPool
    PROVE  KeepInv'
<1>0. TypeOK /\ ListsOK /\ ControlInv /\ ServedInv /\ Host \in Threads
  BY DEF IInv, KeepInv, Threads
<1>1. /\ At(Host, "stop") /\ Go(Host, <<>>) /\ pool' = [pool EXCEPT !.stop = TRUE]
      /\ UNCHANGED <<state, shared, source, node>>
  BY DEF StopPool
<1>2. PICK steps : steps = <<>> /\ Len(steps) = 0 /\ steps \in Seq(Steps) BY Lists
<1>3. Go(Host, steps) BY <1>1, <1>2
<1>4. Advances(Host, steps, Len(todo[Host]) - 1) /\ Kind(Host, 1) = "stop"
  BY <1>0, <1>1, <1>2, <1>3, GoAdvances
<1>5. pool'.stop /\ pool'.ready = pool.ready BY <1>0, <1>1 DEF TypeOK
<1>6. RunStays /\ DoneStays BY <1>1 DEF RunStays, DoneStays, Stopped
<1>7. \A i \in 1 .. Len(steps) : FALSE BY <1>2
<1>8. ControlInv' BY <1>0, <1>1, <1>4, <1>6, <1>7, ControlStep
<1>9. ServedInv'
  <2>1. Runs' = Runs BY <1>5 DEF Runs
  <2>2. Loss(Host, "source") = 0 /\ ~Flushes(Host, 1, "source") /\ ~Serves(Host)
    BY <1>0, <1>1, FirstNot DEF OwnKinds
  <2>3. node'["source"].line = SourceLine /\ node'["source"].flushing = node["source"].flushing
    BY <1>1 DEF SourceLine
  <2> QED BY <1>0, <1>4, <1>5, <1>7, <2>1, <2>2, <2>3, ServedStays
<1>10. KeptInv' BY <1>5, KeptIdle DEF Needed
<1> QED BY <1>8, <1>9, <1>10 DEF KeepInv

---------------------------------------------------------------------------
(* A host that resets, cancels or ends the graph.                           *)

\* A step of the host that is not one of a run: the source is done as before.
LEMMA ControlFrame ==
    ASSUME IInv, RestInv, ControlInv, NEW steps, NEW r, Advances(Host, steps, r),
           \A i \in 1 .. Len(steps) : steps[i][1] \notin {"stop", "forget", "close"},
           Len(todo[Host]) >= 1 => Kind(Host, 1) \notin {"freed", "cancelled", "invalidate"},
           pool'.stop => pool.stop, Stopped => Stopped',
           shared.cancelled => shared'.cancelled, DoneInv'
    PROVE  ControlInv'
<1>0. /\ ListsOK /\ ShapeInv /\ StopInv /\ ForceInv /\ ForgetInv /\ CancelInv /\ Host \in Threads
  BY DEF IInv, ControlInv, RestInv, Threads
<1>1. StopInv' BY <1>0, StopStep
<1>2. ForceInv' BY <1>0, ForceStep
<1>3. ForgetInv' BY <1>0, ForgetStep
<1> QED BY <1>1, <1>2, <1>3 DEF ControlInv

\* The host neither holds a claim nor serves the source, before and after.
LEMMA ServedFrame ==
    ASSUME IInv, IInv', KeepInv, NEW steps, NEW r, Advances(Host, steps, r),
           \A i \in 1 .. Len(steps) : steps[i][1] \notin {"flush", "release"},
           Len(todo[Host]) >= 1 => Kind(Host, 1) \notin LineKinds \cup OwnKinds,
           UNCHANGED node, pool'.ready = pool.ready, pool.stop => pool'.stop
    PROVE  ServedInv'
<1>0. ListsOK /\ ServedInv /\ Host \in Threads BY DEF IInv, KeepInv, Threads
<1>1. /\ Len(todo[Host]) \in Nat
      /\ \A k : At(Host, k) => Len(todo[Host]) >= 1 /\ Kind(Host, 1) = k
  BY <1>0, AtFirst
<1>2. Loss(Host, "source") = 0 BY <1>1 DEF Loss, LineKinds
<1>3. ~Serves(Host) BY <1>1 DEF Serves, OwnKinds
<1>4. ~Flushes(Host, 1, "source")
  <2>1. 1 \in 1 .. Len(todo[Host]) => Len(todo[Host]) >= 1 BY <1>1
  <2> QED BY <2>1 DEF Flushes, LineKinds
<1>5. \A j \in 1 .. Len(steps) : ~FlushOf(steps[j], "source") BY DEF FlushOf
<1>6. Runs' = Runs BY DEF Runs
<1>7. node'["source"].line = SourceLine /\ node'["source"].flushing = node["source"].flushing
  BY DEF SourceLine
<1> QED BY <1>0, <1>2, <1>3, <1>4, <1>5, <1>6, <1>7, ServedStays

\* A step of the host that goes on, from one of kind k.
LEMMA HostGoes ==
    ASSUME IInv, NEW k, At(Host, k), Go(Host, <<>>)
    PROVE  \E steps : /\ Len(steps) = 0 /\ Advances(Host, steps, Len(todo[Host]) - 1)
                      /\ \A i \in 1 .. Len(steps) : FALSE
                      /\ Len(todo[Host]) >= 1 /\ Kind(Host, 1) = k
<1>1. ListsOK BY DEF IInv
<1>2. Advances(Host, <<>>, Len(todo[Host]) - 1) /\ Len(todo[Host]) >= 1 /\ Kind(Host, 1) = k
  BY <1>1, HostTail
<1>3. PICK steps : steps = <<>> OBVIOUS
<1>4. Len(steps) = 0 /\ (\A i \in 1 .. Len(steps) : FALSE) BY <1>3, NoSteps
<1>5. Advances(Host, steps, Len(todo[Host]) - 1) BY <1>2, <1>3
<1> QED BY <1>2, <1>4, <1>5

LEMMA KeepReset ==
    ASSUME IInv, IInv', RestInv, KeepInv, Reset
    PROVE  KeepInv'
<1>0. Host \in Threads /\ ListsOK /\ ListsOK' /\ ControlInv BY DEF Threads, IInv, KeepInv
<1>1. PICK steps : steps = <<<<"clear">>, <<"renew">>, <<"initialized">>>> OBVIOUS
<1>2. steps \in ResetTails /\ steps[1][1] = "clear" BY <1>1 DEF ResetTails
<1>3. steps \in Seq(Steps)
  <2>1. <<"clear">> \in Steps /\ <<"renew">> \in Steps /\ <<"initialized">> \in Steps
    BY StepForms DEF PlainKinds
  <2> QED BY <1>1, <2>1, Lists
<1>4. Idle(Host) /\ Call(Host, steps) BY <1>1 DEF Reset
<1>5. /\ Advances(Host, steps, 0) /\ ~(Len(todo[Host]) >= 1) /\ todo'[Host] = steps
      /\ Len(steps) >= 1
  BY <1>0, <1>2, <1>3, <1>4, CallAdvances, CallPushes, ResetShape
<1>6. \A i \in 1 .. Len(steps) : steps[i][1] \in {"clear", "renew", "initialized"}
  BY <1>2, ResetShape
<1>7. state = "Terminated" /\ UNCHANGED <<state, shared, node, source, pool>>
  BY DEF Reset, Quiescent
<1>8. ~At(Host, "initialized")' BY <1>0, <1>2, <1>5, AtFirstNext
<1>9. ~Alive' /\ ~Needed' BY <1>7, <1>8 DEF Alive, Fresh, Needed, InRun, Live
<1>10. ControlInv'
  <2>1. DoneInv' BY <1>9 DEF DoneInv
  <2>2. Stopped => Stopped' BY <1>7 DEF Stopped
  <2> QED BY <1>0, <1>5, <1>6, <1>7, <2>1, <2>2, ControlFrame
<1>11. ServedInv' BY <1>5, <1>6, <1>7, ServedFrame
<1>12. KeptInv' BY <1>9, KeptIdle
<1> QED BY <1>10, <1>11, <1>12 DEF KeepInv

\* A graph that is reset has no close and no cancel under way.
LEMMA KeepClear ==
    ASSUME IInv, IInv', RestInv, KeepInv, ClearShared
    PROVE  KeepInv'
<1>0. Host \in Threads /\ ListsOK /\ ControlInv /\ ShapeInv BY DEF Threads, IInv, KeepInv
<1>1. At(Host, "clear") /\ Go(Host, <<>>) /\ UNCHANGED <<state, source, pool, node>>
  BY DEF ClearShared
<1>2. PICK steps : /\ Len(steps) = 0 /\ Advances(Host, steps, Len(todo[Host]) - 1)
                   /\ \A i \in 1 .. Len(steps) : FALSE
                   /\ Len(todo[Host]) >= 1 /\ Kind(Host, 1) = "clear"
  BY <1>1, HostGoes
<1>3. state = "Terminated" /\ ~At(Host, "initialized")' BY <1>1, ResetGoes
<1>4. ~Alive' /\ ~Needed' BY <1>1, <1>3 DEF Alive, Fresh, Needed, InRun, Live
<1>5. todo'[Host] = <<<<"renew">>, <<"initialized">>>> /\ Asleep
  <2>1. /\ todo'[Host] = Tail(todo[Host]) BY <1>0, <1>1, HostTail
  <2>2. 1 \in 1 .. Len(todo[Host]) BY <1>0, <1>2, AtFirst
  <2>3. todo[Host] \in ResetTails BY <1>2, <2>2 DEF RestInv, StartInv
  <2>4. todo'[Host] = <<<<"renew">>, <<"initialized">>>> BY <1>2, <2>1, <2>3, ResetShape DEF Kind
  <2>5. todo[Host] = <<<<"clear">>, <<"renew">>, <<"initialized">>>>
    BY <1>2, <2>3, ResetShape DEF ResetTails, Kind
  <2>6. Len(todo[Host]) = 3 /\ todo[Host][3] = <<"initialized">> BY <2>5
  <2>7. Kind(Host, 3) = "initialized" /\ 3 \in 2 .. Len(todo[Host]) BY <2>6 DEF Kind
  <2>8. Has(Host, "initialized") BY <1>0, <2>7, HasNow
  <2> QED BY <2>4, <2>8 DEF Asleep
<1>6. \A u \in Threads : \A i \in 1 .. Len(todo'[u]) : todo'[u][i][1] \notin {"close", "forget"}
  <2>1. \A w \in Workers : \A i \in 1 .. Len(todo[w]) : Kind(w, i) \in AfterTask
    BY <1>5 DEF IInv, PhaseInv, SleepInv
  <2>2. \A w \in Workers : todo'[w] = todo[w] BY <1>0, <1>1, HostTail
  <2>3. \A w \in Workers : \A i \in 1 .. Len(todo'[w]) : todo'[w][i][1] \notin {"close", "forget"}
    BY <2>1, <2>2 DEF Kind, AfterTask
  <2>4. todo'[Host] \in ResetTails BY <1>5 DEF ResetTails
  <2>5. \A i \in 1 .. Len(todo'[Host]) : todo'[Host][i][1] \notin {"close", "forget"}
    BY <2>4, ResetShape
  <2> QED BY <2>3, <2>5 DEF Threads
<1>7. ControlInv'
  <2>1. StopInv'
    <3>1. StopInv /\ (pool'.stop => pool.stop) BY <1>0, <1>1 DEF ControlInv
    <3> QED BY <1>0, <1>2, <3>1, StopStep
  <2>2. ForceInv' BY <1>6 DEF ForceInv, Kind
  <2>3. ForgetInv' BY <1>0, <1>6 DEF ForgetInv, Kind
  <2>4. DoneInv' BY <1>4 DEF DoneInv
  <2> QED BY <2>1, <2>2, <2>3, <2>4 DEF ControlInv
<1>8. ServedInv'
  <2>1. "clear" \notin LineKinds \cup OwnKinds BY DEF LineKinds, OwnKinds
  <2> QED BY <1>1, <1>2, <2>1, ServedFrame
<1>9. KeptInv' BY <1>4, KeptIdle
<1> QED BY <1>7, <1>8, <1>9 DEF KeepInv

LEMMA KeepInitialized ==
    ASSUME IInv, IInv', RestInv, KeepInv, Initialized
    PROVE  KeepInv'
<1>1. /\ At(Host, "initialized") /\ Go(Host, <<>>) /\ UNCHANGED <<shared, source, pool, node>>
      /\ state' = "Initialized"
  BY DEF Initialized
<1>2. PICK steps : /\ Len(steps) = 0 /\ Advances(Host, steps, Len(todo[Host]) - 1)
                   /\ \A i \in 1 .. Len(steps) : FALSE
                   /\ Len(todo[Host]) >= 1 /\ Kind(Host, 1) = "initialized"
  BY <1>1, HostGoes
<1>3. ControlInv /\ DoneInv BY DEF KeepInv, ControlInv
<1>4. DoneInv'
  <2>1. Alive' => Alive BY <1>1 DEF Alive, Fresh, Stopped
  <2> QED BY <1>1, <1>3, <2>1 DEF DoneInv
<1>5. ControlInv'
  <2>1. Stopped => Stopped' BY <1>1 DEF Stopped
  <2> QED BY <1>1, <1>2, <1>3, <1>4, <2>1, ControlFrame
<1>6. ServedInv'
  <2>1. "initialized" \notin LineKinds \cup OwnKinds BY DEF LineKinds, OwnKinds
  <2> QED BY <1>1, <1>2, <2>1, ServedFrame
<1>7. KeptInv'
  <2>1. ~Needed' BY <1>1 DEF Needed, InRun, Live
  <2> QED BY <2>1, KeptIdle
<1> QED BY <1>5, <1>6, <1>7 DEF KeepInv

\* A graph that is new again has no calls.
LEMMA KeepRenew ==
    ASSUME IInv, IInv', RestInv, KeepInv, Renew
    PROVE  KeepInv'
<1>0. /\ Host \in Threads /\ TypeOK /\ ListsOK /\ ShapeInv /\ ControlInv /\ BackInv /\ EntryInv
      /\ FlusherInv /\ "source" \in Nodes
  BY DEF Threads, IInv, KeepInv, ServedInv, Nodes
<1>1. /\ At(Host, "renew") /\ Go(Host, <<>>) /\ UNCHANGED <<state, shared>>
      /\ node' = [n \in Nodes |-> NewSched(node[n].opened)]
      /\ pool' = [pool EXCEPT !.delayed = {}]
  BY DEF Renew
<1>2. PICK steps : /\ Len(steps) = 0 /\ Advances(Host, steps, Len(todo[Host]) - 1)
                   /\ \A i \in 1 .. Len(steps) : FALSE
                   /\ Len(todo[Host]) >= 1 /\ Kind(Host, 1) = "renew"
  BY <1>1, HostGoes
<1>3. state = "Terminated" BY <1>1, ResetGoes
<1>4. /\ node'["source"].line = <<>> /\ ~node'["source"].flushing
      /\ ~node'["source"].closeStarted
  BY <1>0, <1>1 DEF NewSched
<1>5. pool'.ready = pool.ready /\ pool'.stop = pool.stop BY <1>0, <1>1 DEF TypeOK
<1>6. ControlInv'
  <2>1. DoneInv' BY <1>4 DEF DoneInv
  <2>2. Stopped => Stopped' BY <1>1 DEF Stopped
  <2> QED BY <1>0, <1>1, <1>2, <1>5, <2>1, <2>2, ControlFrame
<1>7. BackInv'
  <2>1. Runs \in Nat /\ Runs' = Runs BY <1>0, <1>5, Counts DEF Runs
  <2>2. Claims("source") \in Nat BY <1>0, Counts
  <2>3. Claims("source")' = 0
    <3>1. Claims("source")' = Cardinality(Places(node'["source"].line, "claimed")) BY CountsNext
    <3>2. Places(node'["source"].line, "claimed") = {} BY <1>4, NoSteps DEF Places
    <3> QED BY <3>1, <3>2, FS_EmptySet
  <2>4. Loss(Host, "source") = 0
    <3>1. "renew" \notin {"submit", "run"} OBVIOUS
    <3> QED BY <1>0, <1>1, <3>1, FirstNot
  <2>5. Gain(steps, "source") = 0 BY <1>2 DEF Gain
  <2>6. Runs + Loss(Host, "source") + Claims("source")' <= Runs' + Gain(steps, "source") + Claims("source")
    BY <2>1, <2>2, <2>3, <2>4, <2>5
  <2> QED BY <1>0, <1>2, <1>5, <2>6, BackStep
<1>8. EntryInv'
  <2>1. \A i \in 1 .. Len(node'["source"].line) : FALSE BY <1>4, NoSteps
  <2>2. \A u \in Threads : Sole(node'["source"].line, u) /\ ~InLine(node'["source"].line, u)
    BY <2>1 DEF Sole, InLine
  <2> QED BY <1>0, <1>2, <2>2, EntryStep
<1>9. FlusherInv'
  <2>1. FollowInv' BY <1>0, <1>2, FollowStep DEF FlusherInv
  <2>2. ~FirstDone(node'["source"].line) BY <1>4 DEF FirstDone
  <2> QED BY <1>4, <2>1, <2>2 DEF FlusherInv, SourceLine
<1>10. KeptInv'
  <2>1. ~Needed' BY <1>1, <1>3 DEF Needed, InRun, Live
  <2> QED BY <2>1, KeptIdle
<1> QED BY <1>6, <1>7, <1>8, <1>9, <1>10 DEF KeepInv, ServedInv

\* A start that failed.
LEMMA KeepOpen ==
    ASSUME IInv, IInv', RestInv, KeepInv, Open
    PROVE  KeepInv'
<1>0. Host \in Threads /\ TypeOK /\ ListsOK /\ ControlInv /\ FlusherInv /\ "source" \in Nodes
  BY DEF Threads, IInv, KeepInv, ServedInv, Nodes
<1>1. At(Host, "open") /\ UNCHANGED <<state, source, pool>> BY DEF Open
<1>2. PICK fails \in BOOLEAN :
         /\ shared' = [shared EXCEPT !.error = @ \/ fails]
         /\ node' = [node EXCEPT ![Arg(Host)].opened = @ \/ ~fails]
         /\ IF fails THEN Call(Host, <<>>) ELSE Go(Host, <<>>)
  BY DEF Open
<1>3. CASE ~fails
  <2>1. shared' = shared BY <1>0, <1>2, <1>3 DEF TypeOK
  <2>2. node' = [node EXCEPT ![Arg(Host)].opened = @ \/ ~FALSE] BY <1>2, <1>3
  <2> QED BY <1>1, <1>2, <1>3, <2>1, <2>2, KeepOpened
<1>4. CASE fails
  <2>1. Arg(Host) \in Nodes /\ state = "Initialized" /\ todo[Host] \in StartTails
    BY <1>1, OpenWhere
  <2>2. /\ node'["source"].line = node["source"].line
        /\ node'["source"].flushing = node["source"].flushing
    BY <1>0, <1>2, <2>1, OpenedChange
  <2>3. node["source"].line = <<>>
    BY <1>0, <2>1 DEF IInv, CallsInv, LineInv, Live
  <2>4. Stopped' BY <1>0, <1>2, <1>4 DEF TypeOK, Stopped
  <2>5. Pushed(Host, <<>>, 0) /\ todo'[Host] = <<>>
    BY <1>0, <1>2, <1>4, NoSteps, CallPushes
  <2>6. \A w \in Workers : todo'[w] = todo[w]
    BY <2>5, ThreadsAssumption DEF Pushed, Threads
  <2>7. \A w \in Workers : \A i \in 1 .. Len(todo[w]) : Kind(w, i) \in AfterTask
    BY <2>1 DEF IInv, PhaseInv, SleepInv, Asleep
  <2>8. \A i \in 1 .. Len(todo[Host]) : Kind(Host, i) \in {"open", "running", "try"}
    BY <2>1, StartShape DEF Kind
  <2>9. ~SomeFlush
    <3>1. \A u \in Threads : \A i \in 1 .. Len(todo[u]) : Kind(u, i) \notin {"flush", "release"}
      BY <2>7, <2>8 DEF Threads, AfterTask
    <3> QED BY <3>1 DEF SomeFlush, Flushes
  <2>10. \A u \in Threads : \A i \in 1 .. Len(todo'[u]) : u \in Workers /\ todo'[u][i][1] \in AfterTask
    BY <2>5, <2>6, <2>7, NoSteps DEF Threads, Kind
  <2>11. ControlInv'
    <3>1. StopInv'
      <4>1. ~Has(Host, "freed")
        <5>1. DOMAIN todo[Host] = 1 .. Len(todo[Host])
          BY <1>0, LenProperties DEF ListsOK
        <5> QED BY <2>8, <5>1 DEF Has
      <4>2. ~pool.stop BY <1>0, <4>1 DEF ControlInv, StopInv
      <4>3. ~Has(Host, "stop")'
        <5>1. DOMAIN todo'[Host] = {} BY <2>5
        <5> QED BY <5>1 DEF Has
      <4> QED BY <1>1, <4>2, <4>3 DEF StopInv
    <3>2. ForceInv' BY <2>4 DEF ForceInv
    <3>3. ForgetInv' BY <2>5, NoSteps DEF ForgetInv
    <3>4. DoneInv' BY <2>4 DEF DoneInv, Alive
    <3> QED BY <3>1, <3>2, <3>3, <3>4 DEF ControlInv
  <2>12. BackInv'
    <3>1. Claims("source")' = Cardinality(Places(node'["source"].line, "claimed")) BY CountsNext
    <3>2. Places(node'["source"].line, "claimed") = {} BY <2>2, <2>3, NoSteps DEF Places
    <3>3. Claims("source")' = 0 BY <3>1, <3>2, FS_EmptySet
    <3>4. Runs' \in Nat BY CountsNext DEF IInv
    <3>5. Cardinality(Holders("source")') \in Nat
      <4>1. IsFiniteSet(Threads) BY ThreadsAssumption, FS_Singleton, FS_Union DEF Threads
      <4>2. Holders("source")' \subseteq Threads BY DEF Holders
      <4> QED BY <4>1, <4>2, FS_Subset, FS_CardinalityType
    <3>6. 0 <= Runs' + Cardinality(Holders("source")') BY <3>4, <3>5
    <3> QED BY <3>3, <3>6 DEF BackInv
  <2>13. EntryInv'
    <3>1. \A i \in 1 .. Len(node'["source"].line) : FALSE BY <2>2, <2>3, NoSteps
    <3>2. \A u \in Threads : Sole(node'["source"].line, u) /\ ~InLine(node'["source"].line, u)
      BY <3>1 DEF Sole, InLine
    <3> QED BY <3>2 DEF EntryInv, SourceLine
  <2>14. FlusherInv'
    <3>1. FollowInv' BY <2>10 DEF FollowInv, Flushes, Kind, AfterTask
    <3>2. ~FirstDone(node'["source"].line) BY <2>2, <2>3 DEF FirstDone
    <3>3. ~node'["source"].flushing BY <1>0, <2>2, <2>9 DEF FlusherInv
    <3> QED BY <3>1, <3>2, <3>3 DEF FlusherInv, SourceLine
  <2>15. KeptInv'
    <3>1. ~Needed' BY <2>4 DEF Needed, InRun
    <3> QED BY <3>1, KeptIdle
  <2> QED BY <2>11, <2>12, <2>13, <2>14, <2>15 DEF KeepInv, ServedInv
<1> QED BY <1>3, <1>4

\* What a cancel and the end of the graph do.
TurnList(s) ==
    /\ s \in Seq(Steps)
    /\ \A i \in 1 .. Len(s) :
          /\ s[i][1] \notin {"flush", "release", "close", "initialized"}
          /\ s[i][1] = "forget" => i # 1 /\ i - 1 \in 1 .. Len(s) /\ s[i - 1][1] = "invalidate"

LEMMA TurnConcat ==
    ASSUME NEW s, NEW u, NEW K, TurnList(s), Only(u, K),
           K \cap {"flush", "release", "close", "initialized", "forget"} = {}
    PROVE  TurnList(s \o u)
<1>1. s \in Seq(Steps) /\ u \in Seq(Steps) BY DEF TurnList, Only
<1>2. /\ s \o u \in Seq(Steps) /\ Len(s \o u) = Len(s) + Len(u)
      /\ \A i \in 1 .. Len(s) : (s \o u)[i] = s[i]
      /\ \A i \in 1 .. Len(s \o u) :
            \/ \E j \in 1 .. Len(s) : i = j /\ (s \o u)[i] = s[j]
            \/ \E j \in 1 .. Len(u) : (s \o u)[i] = u[j]
  BY <1>1, Concats
<1>3. Len(s) \in Nat /\ Len(u) \in Nat BY <1>1, Firsts
<1>4. \A j \in 1 .. Len(u) : u[j][1] \notin {"flush", "release", "close", "initialized", "forget"}
  BY DEF Only
<1>5. ASSUME NEW i \in 1 .. Len(s \o u)
      PROVE  /\ (s \o u)[i][1] \notin {"flush", "release", "close", "initialized"}
             /\ (s \o u)[i][1] = "forget" =>
                   i # 1 /\ i - 1 \in 1 .. Len(s \o u) /\ (s \o u)[i - 1][1] = "invalidate"
  <2>1. CASE \E j \in 1 .. Len(s) : i = j /\ (s \o u)[i] = s[j]
    <3>1. i \in 1 .. Len(s) /\ (s \o u)[i] = s[i] BY <2>1
    <3>2. s[i][1] \notin {"flush", "release", "close", "initialized"} BY <3>1 DEF TurnList
    <3>3. ASSUME s[i][1] = "forget"
          PROVE  i # 1 /\ i - 1 \in 1 .. Len(s \o u) /\ (s \o u)[i - 1][1] = "invalidate"
      <4>1. i # 1 /\ i - 1 \in 1 .. Len(s) /\ s[i - 1][1] = "invalidate"
        BY <3>1, <3>3 DEF TurnList
      <4>2. i - 1 \in 1 .. Len(s \o u) BY <1>2, <1>3, <4>1
      <4> QED BY <1>2, <4>1, <4>2
    <3> QED BY <3>1, <3>2, <3>3
  <2>2. CASE \E j \in 1 .. Len(u) : (s \o u)[i] = u[j] BY <1>4, <2>2
  <2> QED BY <1>2, <2>1, <2>2
<1> QED BY <1>2, <1>5 DEF TurnList

LEMMA TurnLists ==
    /\ TurnList(<<>>) /\ TurnList(CancelSteps) /\ TurnList(CancelSteps \o Wait)
    /\ \A i \in 1 .. Len(CancelSteps) : CancelSteps[i][1] # "stop"
<1>1. TurnList(<<>>) BY NoSteps DEF TurnList
<1>2. PICK s : s = <<<<"cancelled">>, <<"invalidate">>, <<"forget">>>> OBVIOUS
<1>3. /\ <<"cancelled">> \in Steps /\ <<"invalidate">> \in Steps /\ <<"forget">> \in Steps
      /\ <<"wait">> \in Steps
  BY StepForms DEF PlainKinds
<1>4. s \in Seq(Steps) BY <1>2, <1>3, Lists
<1>5. /\ Len(s) = 3 /\ s[1][1] = "cancelled" /\ s[2][1] = "invalidate" /\ s[3][1] = "forget"
      /\ \A i \in 1 .. 3 : i = 1 \/ i = 2 \/ i = 3
  BY <1>2
<1>6. TurnList(s) BY <1>4, <1>5 DEF TurnList
<1>7. TurnList(CancelSteps)
  <2>1. CancelSteps = s \o RequestWakeup BY <1>2 DEF CancelSteps
  <2>2. AfterTask \cap {"flush", "release", "close", "initialized", "forget"} = {}
    BY DEF AfterTask
  <2> QED BY <1>6, <2>1, <2>2, OnlyWakeup, TurnConcat
<1>8. TurnList(CancelSteps \o Wait)
  <2>1. Only(Wait, {"wait"})
    <3>1. <<"wait">>[1] \in {"wait"} OBVIOUS
    <3> QED BY <1>3, <3>1, OnlyOne DEF Wait
  <2>2. {"wait"} \cap {"flush", "release", "close", "initialized", "forget"} = {} OBVIOUS
  <2> QED BY <1>7, <2>1, <2>2, TurnConcat
<1>9. \A i \in 1 .. Len(CancelSteps) : CancelSteps[i][1] # "stop"
  <2>1. PICK K : K = {"cancelled", "invalidate", "forget"} \cup AfterTask OBVIOUS
  <2>2. Only(s, K)
    <3>1. \A i \in 1 .. Len(s) : s[i][1] \in K BY <1>5, <2>1
    <3> QED BY <1>4, <3>1 DEF Only
  <2>3. Only(RequestWakeup, K) BY <2>1, OnlyWakeup, OnlyMore
  <2>4. Only(s \o RequestWakeup, K) BY <2>2, <2>3, OnlyConcat
  <2>5. Only(CancelSteps, K) BY <1>2, <2>4 DEF CancelSteps
  <2> QED BY <2>1, <2>5 DEF Only, AfterTask
<1> QED BY <1>1, <1>7, <1>8, <1>9

\* A host that calls a list like that.
LEMMA KeepTurn ==
    ASSUME IInv, IInv', RestInv, KeepInv, Idle(Host), NEW s, TurnList(s), Call(Host, s),
           (\E i \in 1 .. Len(s) : s[i][1] = "stop") => \E i \in 1 .. Len(s) : s[i][1] = "freed",
           UNCHANGED <<state, shared, paused, node, source, pool>>
    PROVE  KeepInv'
<1>0. Host \in Threads /\ ListsOK /\ ListsOK' /\ ControlInv /\ KeptInv
  BY DEF Threads, IInv, KeepInv
<1>1. s \in Seq(Steps) BY DEF TurnList
<1>2. Advances(Host, s, 0) /\ ~(Len(todo[Host]) >= 1) /\ todo'[Host] = s
  BY <1>0, <1>1, CallAdvances, CallPushes
<1>3. \A i \in 1 .. Len(s) : s[i][1] \notin {"flush", "release", "close", "initialized"}
  BY DEF TurnList
<1>4. (Stopped' <=> Stopped) /\ (InRun' <=> InRun) /\ (Needed' <=> Needed)
  BY DEF Stopped, InRun, Needed
<1>5. \A k : ~At(Host, k) BY DEF At
<1>6. ControlInv'
  <2>1. StopInv'
    <3>1. DOMAIN todo[Host] = {} BY DEF Idle
    <3>2. ~pool.stop BY <1>0, <3>1 DEF ControlInv, StopInv, Has
    <3>3. DOMAIN todo'[Host] = 1 .. Len(s) BY <1>1, <1>2, LenProperties
    <3>4. \A k : Has(Host, k)' <=> \E i \in 1 .. Len(s) : s[i][1] = k
      BY <1>2, <3>3 DEF Has, Kind
    <3> QED BY <3>2, <3>4 DEF StopInv
  <2>2. ForceInv' BY <1>0, <1>2, <1>3, <1>4, ForceStep DEF ControlInv
  <2>3. ForgetInv'
    <3>1. \A i \in 1 .. Len(s) : s[i][1] = "forget" => i # 1 /\ i - 1 \in 1 .. Len(s) /\ s[i - 1][1] = "invalidate"
      BY DEF TurnList
    <3>2. Len(s) \in Nat BY <1>1, Firsts
    <3>3. \A i \in 1 .. Len(s) : i # 1 => i > 1 BY <3>2
    <3> QED BY <1>2, <3>1, <3>3 DEF ForgetInv, Kind
  <2>4. DoneInv'
    <3>1. Fresh' => Fresh BY <1>0, <1>2, <1>3, FreshStep
    <3>2. Alive' => Alive BY <1>4, <3>1 DEF Alive
    <3> QED BY <1>0, <3>2 DEF ControlInv, DoneInv
  <2> QED BY <2>1, <2>2, <2>3, <2>4 DEF ControlInv
<1>7. ServedInv' BY <1>2, <1>3, ServedFrame
<1>8. KeptInv'
  <2>1. ~Owes(Host) BY <1>5 DEF Owes
  <2>2. Returning' <=> Returning BY DEF Returning, SourceLine
  <2> QED BY <1>0, <1>2, <1>4, <2>1, <2>2, KeptStays
<1> QED BY <1>6, <1>7, <1>8 DEF KeepInv

LEMMA KeepCancel ==
    ASSUME IInv, IInv', RestInv, KeepInv, Cancel \/ Free
    PROVE  KeepInv'
<1>1. Idle(Host) /\ UNCHANGED <<state, shared, paused, node, source, pool>> BY DEF Cancel, Free
<1>2. CASE Cancel
  <2>1. Call(Host, CancelSteps) BY <1>2 DEF Cancel
  <2> QED BY <1>1, <2>1, TurnLists, KeepTurn
<1>3. CASE Free
  <2>1. PICK e : e = <<<<"stop">>, <<"join">>, <<"drop">>, <<"freed">>>> OBVIOUS
  <2>2. PICK s : TurnList(s) /\ Call(Host, s \o e) BY <1>3, <2>1, TurnLists DEF Free
  <2>3. PICK K : K = {"stop", "join", "drop", "freed"} OBVIOUS
  <2>4. Only(e, K) /\ Len(e) = 4 /\ e[4][1] = "freed"
    <3>1. /\ <<"stop">> \in Steps /\ <<"join">> \in Steps /\ <<"drop">> \in Steps
          /\ <<"freed">> \in Steps
      BY StepForms DEF PlainKinds
    <3>2. e \in Seq(Steps) BY <2>1, <3>1, Lists
    <3>3. \A i \in 1 .. Len(e) : e[i] \in {<<"stop">>, <<"join">>, <<"drop">>, <<"freed">>} BY <2>1
    <3>4. Len(e) = 4 /\ e[4][1] = "freed" BY <2>1
    <3> QED BY <2>3, <3>2, <3>3, <3>4 DEF Only
  <2>5. K \cap {"flush", "release", "close", "initialized", "forget"} = {} BY <2>3
  <2>6. PICK l : l = s \o e OBVIOUS
  <2>7. TurnList(l) /\ Call(Host, l) BY <2>2, <2>4, <2>5, <2>6, TurnConcat
  <2>8. \E i \in 1 .. Len(l) : l[i][1] = "freed"
    <3>1. s \in Seq(Steps) /\ e \in Seq(Steps) BY <2>2, <2>4 DEF TurnList, Only
    <3>2. Len(s) \in Nat BY <3>1, Firsts
    <3>3. /\ Len(l) = Len(s) + Len(e)
          /\ \A i \in 1 .. Len(s) + Len(e) : l[i] = IF i <= Len(s) THEN s[i] ELSE e[i - Len(s)]
      BY <2>6, <3>1, ConcatProperties
    <3>4. /\ Len(s) + 4 \in 1 .. Len(s) + Len(e) /\ ~(Len(s) + 4 <= Len(s))
          /\ (Len(s) + 4) - Len(s) = 4
      BY <2>4, <3>2
    <3>5. l[Len(s) + 4] = e[4] BY <3>3, <3>4
    <3> QED BY <2>4, <3>3, <3>4, <3>5
  <2> QED BY <1>1, <2>7, <2>8, KeepTurn
<1> QED BY <1>2, <1>3

\* The host goes on with a cancel.
LEMMA ForgetShift ==
    ASSUME ListsOK, ForgetInv, NEW k, At(Host, k), Go(Host, <<>>),
           k = "invalidate" => shared'.cancelled
    PROVE  ForgetInv'
<1>0. Host \in Threads BY DEF Threads
<1>1. Advances(Host, <<>>, Len(todo[Host]) - 1) /\ Len(todo[Host]) >= 1 /\ Kind(Host, 1) = k
  BY HostTail
<1>2. PICK steps : steps = <<>> OBVIOUS
<1>3. Advances(Host, steps, Len(todo[Host]) - 1) /\ Len(steps) = 0 BY <1>1, <1>2
<1>4. /\ Len(todo[Host]) \in Nat /\ Len(todo'[Host]) = Len(todo[Host]) - 1
      /\ \A i \in 1 .. Len(todo'[Host]) :
            \/ i <= Len(steps) /\ todo'[Host][i] = steps[i]
            \/ /\ i > Len(steps) /\ Len(todo[Host]) >= 1
               /\ i - Len(steps) + 1 \in 2 .. Len(todo[Host])
               /\ todo'[Host][i] = todo[Host][i - Len(steps) + 1]
  BY <1>0, <1>1, <1>3, Deeper
<1>5. \A i \in 1 .. Len(todo'[Host]) : i + 1 \in 2 .. Len(todo[Host]) /\ todo'[Host][i] = todo[Host][i + 1]
  <2> SUFFICES ASSUME NEW i \in 1 .. Len(todo'[Host])
               PROVE  i + 1 \in 2 .. Len(todo[Host]) /\ todo'[Host][i] = todo[Host][i + 1]
    OBVIOUS
  <2>1. ~(i <= Len(steps)) /\ i - Len(steps) + 1 = i + 1 BY <1>3
  <2> QED BY <1>4, <2>1
<1> SUFFICES ASSUME NEW i \in 1 .. Len(todo'[Host]), todo'[Host][i][1] = "forget"
             PROVE  \/ i = 1 /\ shared'.cancelled
                    \/ i > 1 /\ todo'[Host][i - 1][1] = "invalidate"
  BY DEF ForgetInv, Kind
<1>6. /\ i + 1 \in 1 .. Len(todo[Host]) /\ i + 1 # 1 /\ (i + 1) - 1 = i
      /\ Kind(Host, i + 1) = "forget"
  <2>1. Kind(Host, i + 1) = "forget" BY <1>5 DEF Kind
  <2> QED BY <1>5, <2>1
<1>7. Kind(Host, i) = "invalidate" BY <1>6 DEF ForgetInv
<1>8. CASE i = 1 BY <1>1, <1>7, <1>8
<1>9. CASE i # 1
  <2>1. i - 1 \in 1 .. Len(todo'[Host]) /\ (i - 1) + 1 = i /\ i > 1 BY <1>9
  <2>2. todo'[Host][i - 1] = todo[Host][i] BY <1>5, <2>1
  <2> QED BY <1>7, <2>1, <2>2 DEF Kind
<1> QED BY <1>8, <1>9

LEMMA KeepCancelled ==
    ASSUME IInv, IInv', RestInv, KeepInv, SetCancelled \/ Invalidate
    PROVE  KeepInv'
<1>0. Host \in Threads /\ ListsOK /\ ControlInv /\ TypeOK BY DEF Threads, IInv, KeepInv
<1>1. PICK k \in {"cancelled", "invalidate"} :
         /\ At(Host, k) /\ Go(Host, <<>>) /\ UNCHANGED <<state, pool, node>>
         /\ k = "cancelled" => shared' = [shared EXCEPT !.cancelled = TRUE]
         /\ k = "invalidate" => UNCHANGED shared
  BY DEF SetCancelled, Invalidate
<1>2. PICK steps : /\ Len(steps) = 0 /\ Advances(Host, steps, Len(todo[Host]) - 1)
                   /\ \A i \in 1 .. Len(steps) : FALSE
                   /\ Len(todo[Host]) >= 1 /\ Kind(Host, 1) = k
  BY <1>1, HostGoes
<1>3. shared'.cancelled
  <2>1. CASE k = "cancelled" BY <1>0, <1>1, <2>1 DEF TypeOK
  <2>2. CASE k = "invalidate"
    <3>1. 1 \in 1 .. Len(todo[Host]) BY <1>0, <1>2, AtFirst
    <3>2. shared.cancelled BY <1>2, <2>2, <3>1 DEF RestInv, CancelInv
    <3> QED BY <1>1, <2>2, <3>2
  <2> QED BY <2>1, <2>2
<1>4. Stopped' BY <1>3 DEF Stopped
<1>5. ControlInv'
  <2>1. StopInv' BY <1>0, <1>1, <1>2, StopStep DEF ControlInv, IInv
  <2>2. ForceInv' BY <1>4 DEF ForceInv
  <2>3. ForgetInv' BY <1>0, <1>1, <1>3, ForgetShift DEF ControlInv
  <2>4. DoneInv' BY <1>4 DEF DoneInv, Alive
  <2> QED BY <2>1, <2>2, <2>3, <2>4 DEF ControlInv
<1>6. ServedInv'
  <2>1. k \notin LineKinds \cup OwnKinds BY DEF LineKinds, OwnKinds
  <2> QED BY <1>1, <1>2, <2>1, ServedFrame
<1>7. KeptInv'
  <2>1. ~Needed' BY <1>4 DEF Needed, InRun
  <2> QED BY <2>1, KeptIdle
<1> QED BY <1>5, <1>6, <1>7 DEF KeepInv

LEMMA KeepForget ==
    ASSUME IInv, IInv', RestInv, KeepInv, Forget
    PROVE  KeepInv'
<1>0. Host \in Threads /\ ListsOK /\ ControlInv /\ TypeOK BY DEF Threads, IInv, KeepInv
<1>1. /\ At(Host, "forget") /\ Go(Host, <<>>) /\ UNCHANGED <<state, shared, source, node>>
      /\ pool' = [pool EXCEPT !.delayed = {}]
  BY DEF Forget
<1>2. PICK steps : /\ Len(steps) = 0 /\ Advances(Host, steps, Len(todo[Host]) - 1)
                   /\ \A i \in 1 .. Len(steps) : FALSE
                   /\ Len(todo[Host]) >= 1 /\ Kind(Host, 1) = "forget"
  BY <1>1, HostGoes
<1>3. pool'.ready = pool.ready /\ pool'.stop = pool.stop BY <1>0, <1>1 DEF TypeOK
<1>4. shared.cancelled
  <2>1. 1 \in 1 .. Len(todo[Host]) BY <1>0, <1>2, AtFirst
  <2> QED BY <1>0, <1>2, <2>1 DEF ControlInv, ForgetInv
<1>5. ControlInv'
  <2>1. RunStays /\ DoneStays BY <1>1 DEF RunStays, DoneStays, Stopped
  <2> QED BY <1>0, <1>2, <1>3, <2>1, ControlStep
<1>6. ServedInv'
  <2>1. "forget" \notin LineKinds \cup OwnKinds BY DEF LineKinds, OwnKinds
  <2> QED BY <1>1, <1>2, <1>3, <2>1, ServedFrame
<1>7. KeptInv'
  <2>1. ~Needed' BY <1>1, <1>4 DEF Needed, InRun, Stopped
  <2> QED BY <2>1, KeptIdle
<1> QED BY <1>5, <1>6, <1>7 DEF KeepInv

---------------------------------------------------------------------------
(* The source is kept.                                                      *)

LEMMA KeepFirst == Init => KeepInv
<1> SUFFICES ASSUME Init PROVE KeepInv
  OBVIOUS
<1>0. Host \in Threads /\ "source" \in Nodes /\ IInv BY InitInvariant DEF Threads, Nodes
<1>1. \A t \in Threads : todo[t] = <<>> BY DEF Init
<1>2. \A t \in Threads : \A i \in 1 .. Len(todo[t]) : FALSE BY <1>1, NoSteps
<1>3. node["source"] = NewSched(FALSE) /\ state = "Initialized" /\ ~pool.stop BY <1>0 DEF Init
<1>4. SourceLine = <<>> /\ ~node["source"].flushing /\ ~node["source"].closeStarted
  BY <1>3 DEF NewSched, SourceLine
<1>5. ControlInv
  <2>1. ~Has(Host, "stop")
    <3>1. DOMAIN todo[Host] = {} BY <1>0, <1>1
    <3> QED BY <3>1 DEF Has
  <2> QED BY <1>0, <1>2, <1>3, <1>4, <2>1 DEF ControlInv, StopInv, ForceInv, ForgetInv, DoneInv
<1>6. BackInv
  <2>1. Places(SourceLine, "claimed") = {} BY <1>4, NoSteps DEF Places
  <2>2. Claims("source") = 0 BY <2>1, FS_EmptySet DEF Claims, SourceLine
  <2>3. Runs \in Nat BY <1>0, Counts DEF IInv
  <2>4. Cardinality(Holders("source")) = 0
    <3>1. Holders("source") = {} BY <1>1 DEF Holders, At, Idle
    <3> QED BY <3>1, FS_EmptySet
  <2> QED BY <2>2, <2>3, <2>4 DEF BackInv
<1>7. EntryInv
  <2>1. \A i \in 1 .. Len(SourceLine) : FALSE BY <1>4, NoSteps
  <2> QED BY <2>1 DEF EntryInv, Sole, InLine
<1>8. FlusherInv
  <2>1. FollowInv BY <1>2 DEF FollowInv
  <2> QED BY <1>4, <2>1 DEF FlusherInv, FirstDone
<1>9. KeptInv BY <1>3 DEF KeptInv, Needed, InRun, Live
<1> QED BY <1>5, <1>6, <1>7, <1>8, <1>9 DEF KeepInv, ServedInv

LEMMA KeepNext == IInv /\ RestInv /\ KeepInv /\ [Next]_vars => KeepInv'
<1> SUFFICES ASSUME IInv, RestInv, KeepInv, [Next]_vars PROVE KeepInv'
  OBVIOUS
<1>0. IInv' BY NextInvariant
<1>1. ASSUME NEW t \in Threads, Step(t) PROVE KeepInv'
  <2>1. CASE Request(t) \/ Arm(t) BY <1>0, <2>1, KeepRequest
  <2>2. CASE Fail(t) BY <1>0, <2>2, KeepFail
  <2>3. CASE CloseLook(t) \/ CloseClaim(t) \/ Close(t) \/ EndOfStream(t)
    BY <1>0, <2>3, KeepCloses
  <2>4. CASE Arg(t) = "source"
    <3>1. CASE Try(t) BY <1>0, <2>4, <3>1, KeepTry
    <3>2. CASE Claim(t) BY <1>0, <2>4, <3>2, KeepClaimTaken, KeepClaimNot
    <3>3. CASE Submit(t) BY <1>0, <2>4, <3>3, KeepSubmit
    <3>4. CASE Run(t) BY <1>0, <2>4, <3>4, KeepRun
    <3>5. CASE Land(t) BY <1>0, <2>4, <3>5, KeepLand
    <3>6. CASE Flush(t) BY <1>0, <2>4, <3>6, KeepFlush
    <3>7. CASE Release(t) BY <1>0, <2>4, <3>7, KeepRelease
    <3> QED BY <1>1, <2>1, <2>2, <2>3, <3>1, <3>2, <3>3, <3>4, <3>5, <3>6, <3>7 DEF Step
  <2>5. CASE Arg(t) # "source"
    <3>1. CASE Try(t) \/ Claim(t) \/ Submit(t) \/ Land(t) \/ Run(t) \/ Flush(t) \/ Release(t)
      BY <1>0, <2>5, <3>1, KeepSink
    <3> QED BY <1>1, <2>1, <2>2, <2>3, <3>1 DEF Step
  <2> QED BY <2>4, <2>5
<1>2. ASSUME NEW w \in Workers, WorkerStep(w) PROVE KeepInv'
  <2>1. CASE Take(w) BY <1>0, <2>1, KeepTake
  <2>2. CASE Completed(w) \/ Exit(w) BY <1>0, <2>2, KeepCompleted
  <2>3. CASE Wake(w) BY <1>0, <2>3, KeepWake
  <2>4. CASE Woken(w) BY <1>0, <2>4, KeepWoken
  <2>5. CASE Return(w) \/ LastReturn(w) BY <1>0, <2>5, KeepReturn
  <2>6. CASE Resumption(w) BY <1>0, <2>6, KeepResumption
  <2>7. CASE Reschedule(w) BY <1>0, <2>7, KeepReschedule
  <2>8. CASE Generation(w) BY <1>0, <2>8, KeepGeneration
  <2>9. CASE Delay(w) BY <1>0, <2>9, KeepDelay
  <2> QED BY <1>2, <2>1, <2>2, <2>3, <2>4, <2>5, <2>6, <2>7, <2>8, <2>9 DEF WorkerStep
<1>3. ASSUME HostStep PROVE KeepInv'
  <2>1. CASE Pump \/ Pumped \/ Rearm \/ WaitStep \/ WaitMore \/ WaitLook \/ Ended \/ WaitIdle
    BY <1>0, <2>1, KeepLooks
  <2>2. CASE EventLoop \/ SetCallback \/ WaitDone BY <1>0, <2>2, KeepCalls
  <2>3. CASE Task \/ Retire \/ Join \/ Drop BY <1>0, <2>3, KeepTask
  <2>4. CASE SinkReturn BY <1>0, <2>4, KeepSinkReturn
  <2>5. CASE Start BY <1>0, <2>5, KeepStart
  <2>6. CASE Open BY <1>0, <2>6, KeepOpen
  <2>7. CASE Running BY <1>0, <2>7, KeepRunning
  <2>8. CASE Reset BY <1>0, <2>8, KeepReset
  <2>9. CASE ClearShared BY <1>0, <2>9, KeepClear
  <2>10. CASE Renew BY <1>0, <2>10, KeepRenew
  <2>11. CASE Initialized BY <1>0, <2>11, KeepInitialized
  <2>12. CASE Cancel \/ Free BY <1>0, <2>12, KeepCancel
  <2>13. CASE SetCancelled \/ Invalidate BY <1>0, <2>13, KeepCancelled
  <2>14. CASE Forget BY <1>0, <2>14, KeepForget
  <2>15. CASE Pause BY <2>15, KeepPause
  <2>16. CASE Resume BY <1>0, <2>16, KeepResume
  <2>17. CASE StopPool BY <1>0, <2>17, KeepStopPool
  <2> QED
    BY <1>3, <2>1, <2>2, <2>3, <2>4, <2>5, <2>6, <2>7, <2>8, <2>9, <2>10, <2>11, <2>12, <2>13,
       <2>14, <2>15, <2>16, <2>17
    DEF HostStep
<1>4. CASE UNCHANGED vars BY <1>4, KeepPause
<1> QED BY <1>1, <1>2, <1>3, <1>4 DEF Next

(***************************************************************************)
(* KeepInv is inductive beside IInv and RestInv: of a running source that  *)
(* is not done, each outstanding call is with a thread or in the pool,     *)
(* what has returned is flushed by a thread that looks at the source next, *)
(* and without calls it waits for a wake or somebody is about to try it.   *)
(***************************************************************************)
THEOREM KeepInvariance == Spec => [](IInv /\ RestInv /\ KeepInv)
<1>1. Init => IInv /\ RestInv /\ KeepInv BY InitInvariant, RestFirst, KeepFirst
<1>2. IInv /\ RestInv /\ KeepInv /\ [Next]_vars => (IInv /\ RestInv /\ KeepInv)'
  BY NextInvariant, RestNext, KeepNext
<1> QED BY <1>1, <1>2, PTL DEF Spec

LEMMA Keeps == IInv /\ RestInv /\ KeepInv => SourceIsKept
<1> SUFFICES ASSUME IInv, RestInv, KeepInv, Quiet, state \in Live, node["source"].opened,
                    ~Stopped, ~paused, ~source.done
             PROVE  RunTask \in Queued \/ source.generation \in Wakes
  BY DEF SourceIsKept
<1>0. /\ TypeOK /\ ControlInv /\ BackInv /\ EntryInv /\ FlusherInv /\ KeptInv /\ Host \in Threads
  BY DEF IInv, KeepInv, ServedInv, Threads
<1>1. /\ pool.ready \in Seq(Nat) /\ pool.delayed \subseteq Nat \ {0} /\ SourceLine \in Seq(Entries)
  BY <1>0 DEF TypeOK, SourceLine, Nodes
<1>2. DOMAIN pool.ready = 1 .. Len(pool.ready) BY <1>1, LenProperties
<1>3. \A t \in Threads : todo[t] = <<>> BY DEF Quiet, Idle
<1>4. \A t \in Threads : \A i \in 1 .. Len(todo[t]) : FALSE BY <1>3, NoSteps
<1>5. \A t \in Threads : \A k : ~At(t, k) BY <1>3 DEF At, Idle
<1>6. ~pool.stop
  <2>1. DOMAIN todo[Host] = {} BY <1>0, <1>3
  <2> QED BY <1>0, <2>1 DEF ControlInv, StopInv, Has
<1>7. Waits /\ Tries BY <1>0, <1>6 DEF KeptInv, Needed, InRun
<1>8. \A S : ~Someone(S) BY <1>4 DEF Someone, Holds
<1>9. ~node["source"].flushing /\ ~FirstDone(SourceLine)
  <2>1. ~SomeFlush BY <1>4 DEF SomeFlush
  <2> QED BY <1>0, <2>1 DEF FlusherInv
<1>10. CASE SourceLine # <<>>
  <2>1. Len(SourceLine) \in Nat /\ Len(SourceLine) >= 1 BY <1>1, <1>10, EmptySeq, LenProperties
  <2>2. 1 \in 1 .. Len(SourceLine) BY <2>1
  <2>3. SourceLine[1] \in Entries BY <1>1, <2>2, ElementOfSeq
  <2>4. SourceLine[1] \notin Threads
    <3>1. ASSUME SourceLine[1] \in Threads PROVE FALSE
      <4>1. InLine(SourceLine, SourceLine[1]) BY <2>2 DEF InLine
      <4>2. Serves(SourceLine[1]) BY <1>0, <3>1, <4>1 DEF EntryInv
      <4> QED BY <1>5, <3>1, <4>2 DEF Serves
    <3> QED BY <3>1
  <2>5. SourceLine[1] = "claimed" BY <1>9, <1>10, <2>3, <2>4 DEF Entries, FirstDone
  <2>6. Claims("source") \in Nat /\ Claims("source") # 0
    <3>1. 1 \in Places(SourceLine, "claimed") BY <2>2, <2>5 DEF Places
    <3>2. IsFiniteSet(Places(SourceLine, "claimed")) BY <1>1, PlacesFinite
    <3>3. Cardinality(Places(SourceLine, "claimed")) \in Nat
          /\ Cardinality(Places(SourceLine, "claimed")) # 0
      BY <3>1, <3>2, FS_CardinalityType, FS_EmptySet
    <3> QED BY <3>3 DEF Claims, SourceLine
  <2>7. Cardinality(Holders("source")) = 0
    <3>1. Holders("source") = {} BY <1>5 DEF Holders
    <3> QED BY <3>1, FS_EmptySet
  <2>8. Runs # 0 /\ Runs \in Nat BY <1>0, <1>6, <2>6, <2>7, Counts DEF BackInv
  <2>9. Places(pool.ready, RunTask) # {} BY <2>8, FS_EmptySet DEF Runs
  <2>10. PICK i \in 1 .. Len(pool.ready) : pool.ready[i] = RunTask BY <2>9 DEF Places
  <2> QED BY <1>2, <2>10 DEF Queued
<1>11. CASE SourceLine = <<>>
  <2>1. ~Returning BY <1>9, <1>11 DEF Returning
  <2>2. source.waiting BY <1>7, <1>8, <2>1 DEF Tries, Tried
  <2>3. Awaited BY <1>7, <1>8, <2>1, <2>2 DEF Waits, Tended
  <2>4. AnyReady \/ DelayedWake BY <1>5, <2>3 DEF Awaited, Owes
  <2>5. DelayedWake => source.generation # RunTask BY <1>1 DEF DelayedWake, RunTask
  <2> QED BY <1>2, <2>4, <2>5 DEF Wakes, Queued, AnyReady, ReadyWake, DelayedWake
<1> QED BY <1>10, <1>11

(***************************************************************************)
(* A running source is never forgotten, for any number of workers and of   *)
(* calls in flight: when no thread has anything left to do, it has a call  *)
(* or a wake of the current generation in the pool, whatever errors, calls *)
(* that return out of order, pauses and cancels came before (try_claim and *)
(* schedule_source_resumption of scheduler.rs, resume of api.rs).          *)
(***************************************************************************)
THEOREM SourceIsNeverForgotten == Spec => []SourceIsKept
<1>1. IInv /\ RestInv /\ KeepInv => SourceIsKept BY Keeps
<1> QED BY <1>1, KeepInvariance, PTL
=============================================================================
